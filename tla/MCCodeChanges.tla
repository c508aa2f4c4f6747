---- MODULE MCCodeChanges ----
(***************************************************************************)
(* Every constructor with operands at the edges of their fields and just   *)
(* beyond; two functions, five hooks near and far of every kind, more of   *)
(* them than the pools hold.                                               *)
(***************************************************************************)
EXTENDS CodeChanges

Regs == {X(0), X(1), W(2), SP}
Imms == {0, 1, 4095, 4096, 4097, 8192, 2^24 - 4096, 2^24}

ArithmeticCalls ==
    {<<n, d, s, i>> : n \in DOMAIN ArithmeticNames, d \in Regs, s \in Regs, i \in Imms}
    \cup {<<n, r, i>> : n \in {"CmnImmediate", "CmpImmediate"}, r \in Regs, i \in Imms}

MoveCalls ==
    {<<n, r, i>> : n \in {"Movn", "Movz", "Movk"}, r \in Regs, i \in {0, 1, 65535}}
    \cup {<<"OrrShiftedRegister", d, s, m, t, a>> :
            d \in Regs, s \in Regs, m \in Regs, t \in {0, 3}, a \in {0, 31, 32, 63}}
    \cup {<<"MovRegister", d, m>> : d \in Regs, m \in Regs}

AddressCalls ==
    {<<"Adr", r, i>> : r \in {X(0), LR, SP},
        i \in {0, 1, 3, 4, -1, -4, 2^20 - 1, 2^20, -2^20, -2^20 - 1}}
    \cup {<<"Adrp", r, i>> : r \in {X(0), LR, SP}, i \in {0, 4096, 65536, 2^30, -4096, -65536}}

LoadCalls ==
    {<<n, t, b, m, e, a>> : n \in {"LdrRegisterOffset", "StrRegisterOffset"},
        t \in {X(0), W(2), SP}, b \in {X(1), SP}, m \in {X(1), W(2)},
        e \in {"UXTW", "LSL", "SXTW", "SXTX", "UXTB"}, a \in {0, 2, 3}}
    \cup {<<n, t, b, i>> : n \in {"LdurUnscaledImmediate", "SturUnscaledImmediate"},
        t \in {X(0), W(2), SP}, b \in {X(1), SP}, i \in {0, -1, -16, 255, 256, -256, -257}}
    \cup {<<n, t, b, i>> : n \in {"LdrRegisterImmediate", "StrRegisterImmediate"},
        t \in {X(0), W(2), SP}, b \in {X(1), SP}, i \in {0, 1, 4095, 4096}}

EdgeCalls ==
    ArithmeticCalls \cup MoveCalls \cup AddressCalls \cup LoadCalls
    \cup {<<n, r>> : n \in {"BranchRegister", "Ret"}, r \in Regs \cup {LR}}
    \cup {<<"Nop">>}

(* Words of the static assertions beside the encoders, in halves.          *)
Asserted ==
    {<<<<"AddImmediate", W(6), W(7), 356352>>, 4417, 23782>>,
     <<<<"SubsImmediate", X(4), X(5), 4096>>, 61760, 1188>>,
     <<<<"CmnImmediate", X(3), 344064>>, 45377, 20607>>,
     <<<<"Adr", X(2), 431721>>, 12340, 45890>>,
     <<<<"Adrp", X(1), 16773120>>, 61440, 32737>>,
     <<<<"Nop">>, 54531, 8223>>,
     <<<<"Ret", LR>>, 54879, 960>>,
     <<<<"BranchRegister", X(3)>>, 54815, 96>>,
     <<<<"MovRegister", X(6), X(7)>>, 43527, 998>>,
     <<<<"OrrShiftedRegister", X(9), X(10), X(11), 3, 8>>, 43723, 8521>>,
     <<<<"LdrRegisterOffset", X(6), X(7), W(8), "UXTW", 3>>, 63592, 22758>>,
     <<<<"StrRegisterOffset", X(6), X(7), X(8), "SXTX", 3>>, 63528, 63718>>,
     <<<<"LdurUnscaledImmediate", LR, SP, -5>>, 63583, 46078>>,
     <<<<"SturUnscaledImmediate", W(26), X(27), -69>>, 47131, 45946>>,
     <<<<"LdrRegisterImmediate", W(26), X(27), 69>>, 47425, 6010>>,
     <<<<"StrRegisterImmediate", X(14), X(15), 4>>, 63744, 4590>>}

ASSUME StaticAssertions ==
    \A r \in Asserted : BitsOf(Encode(r[1]), 16, 32) = r[2] /\ BitsOf(Encode(r[1]), 0, 16) = r[3]

MCWords == {0, 4}
MCCallsAt == [a \in MCWords |-> IF a = 0 THEN EdgeCalls ELSE {<<"Nop">>}]
MCTargetsAt == [a \in MCWords |-> IF a = 0 THEN {} ELSE {0, 4, 12, 4 - 2^27, -2^27, 2^27, 2^27 + 4}]

(* One function on an even word, one on an odd one.                        *)
MCFunctions == {100, 201}
MCLength == [f \in MCFunctions |-> 6]
MCHooks == 1 .. 5
MCKind == <<"trampoline", "trampoline", "replace", "inline", "inline">>
MCCallback == <<301, 2^25 + 302, 2^25 + 303, 304, 305>>
MCBySymbol == {1}
====
