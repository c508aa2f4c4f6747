---- MODULE Encoders ----
(***************************************************************************)
(* The instruction encoders (src/lib/armv8).  Each C++ class is an         *)
(* operator of the same name that returns the word its constructor builds, *)
(* one SetBits after another: fields of a base class overlap those of the  *)
(* classes derived from it, so that the order of the calls matters.        *)
(*                                                                         *)
(* A word is a function from its 32 bits.  An unsigned argument that the   *)
(* program makes from a difference may be negative here; a bit of it is    *)
(* taken in two's complement.  A register is its kind (1 for X, 0 for W)   *)
(* and its index.  OrrImmediate is not included by its base.hpp ("TODO:     *)
(* make this work well") and is left out, as are the shifts that do not     *)
(* compile.                                                                *)
(***************************************************************************)
EXTENDS Integers, Sequences, SequencesExt

Bit(n, i) == (n \div 2^i) % 2

(* A 32-bit unsigned number shifted to the right by k >= 2.                *)
ShiftRight(n, k) == (n \div 2^k) % 2^(32 - k)

Zero == [i \in 0 .. 31 |-> 0]

SetBits(word, low, high, value) ==
    [i \in 0 .. 31 |-> IF i \in low .. high - 1 THEN Bit(value, i - low) ELSE word[i]]

(* The same for a field given as low, high and value, so that one SetBits  *)
(* after another reads from left to right.                                 *)
word ++ field == SetBits(word, field[1], field[2], field[3])

(* The bits from low up to high, excluding high, as a number.              *)
BitsOf(word, low, high) ==
    LET above[i \in 0 .. high] == IF i = high THEN 0 ELSE word[i] + 2 * above[i + 1]
    IN above[low]

X(i) == <<1, i>>
W(i) == <<0, i>>
SP == X(31)
LR == X(30)
Is64(r) == r[1]
Index(r) == r[2]

(* The registers a caller can name.                                        *)
Registers == ({0, 1} \X (0 .. 30)) \cup {SP}

(* None64 and None32: the index -1 in seven bits.                          *)
None(r) == <<Is64(r), 127>>

Instruction(op0) == SetBits(Zero, 25, 29, op0)

----
(* Data processing with an immediate (op100x).                             *)

Op100xInstruction(op0) == SetBits(Instruction(8), 23, 26, op0)

CalcSh(imm) == IF imm # 0 /\ imm % 4096 = 0 THEN 1 ELSE 0

CalcImm(imm) == IF CalcSh(imm) = 1 THEN imm \div 4096 ELSE imm

(* The base class, and what its four classes set besides.                  *)
AddSubtractImmediate(op, s, rd, rn, imm) ==
    Op100xInstruction(2) ++ <<31, 32, Is64(rd)>> ++ <<30, 31, op>>
        ++ <<29, 30, s>> ++ <<0, 5, Index(rd)>> ++ <<5, 10, Index(rn)>>
        ++ <<10, 22, CalcImm(imm)>> ++ <<22, 23, CalcSh(imm)>>

AddImmediate(rd, rn, imm) == AddSubtractImmediate(0, 0, rd, rn, imm)
AddsImmediate(rd, rn, imm) == AddSubtractImmediate(0, 1, rd, rn, imm)
SubImmediate(rd, rn, imm) == AddSubtractImmediate(1, 0, rd, rn, imm)
SubsImmediate(rd, rn, imm) == AddSubtractImmediate(1, 1, rd, rn, imm)
CmnImmediate(r, imm) == AddsImmediate(None(r), r, imm)
CmpImmediate(r, imm) == SubsImmediate(None(r), r, imm)

MoveWideImmediate(r, opc, hw, imm) ==
    Op100xInstruction(5) ++ <<31, 32, Is64(r)>> ++ <<29, 31, opc>>
        ++ <<21, 23, hw>> ++ <<5, 21, imm>> ++ <<0, 5, Index(r)>>

Movn(r, imm) == MoveWideImmediate(r, 0, 0, imm)
Movz(r, imm) == MoveWideImmediate(r, 2, 0, imm)
Movk(r, imm) == MoveWideImmediate(r, 3, 0, imm)

PcRelAddressing(r, imm, op) ==
    Op100xInstruction(0) ++ <<31, 32, op>> ++ <<29, 31, imm>>
        ++ <<5, 24, ShiftRight(imm, 2)>> ++ <<0, 5, Index(r)>>

Adr(r, imm) == PcRelAddressing(r, imm, 0)

Adrp(r, imm) == PcRelAddressing(r, ShiftRight(imm, 12), 1)

----
(* Branches and hints (op101x).                                            *)

Op101xInstruction(op0) == SetBits(Instruction(10), 29, 32, op0)

Hints == Op101xInstruction(6) ++ <<12, 26, 4146>> ++ <<0, 5, 31>>

Nop == Hints ++ <<8, 12, 0>> ++ <<5, 8, 0>>

UnconditionalBranchImmediate(op, relative) ==
    Op101xInstruction(0) ++ <<31, 32, op>>
        ++ <<0, 26, ShiftRight(relative, 2)>>

Branch(relative) == UnconditionalBranchImmediate(0, relative)
BranchLink(relative) == UnconditionalBranchImmediate(1, relative)

UnconditionalBranchRegister(opc, rn) ==
    Op101xInstruction(6) ++ <<12, 26, 8192>> ++ <<21, 25, opc>>
        ++ <<16, 21, 31>> ++ <<10, 16, 0>> ++ <<5, 10, Index(rn)>>
        ++ <<0, 5, 0>>

BranchRegister(rn) == UnconditionalBranchRegister(0, rn)
Ret(rn) == UnconditionalBranchRegister(2, rn)

----
(* Data processing with registers (opx101).                                *)

Opx101Instruction(op0, op1, op2, op3) ==
    Instruction(5) ++ <<30, 31, op0>> ++ <<28, 29, op1>> ++ <<20, 24, op2>>
        ++ <<10, 15, op3>>

LogicalShiftedRegister(sf, opc) ==
    Opx101Instruction(0, 0, 0, 0) ++ <<31, 32, sf>> ++ <<29, 31, opc>>

OrrShiftedRegister(rd, rn, rm, shift, amount) ==
    LogicalShiftedRegister(Is64(rd), 1) ++ <<22, 24, shift>> ++ <<21, 22, 0>>
        ++ <<16, 21, Index(rm)>> ++ <<10, 16, amount>> ++ <<5, 10, Index(rn)>>
        ++ <<0, 5, Index(rd)>>

MovRegister(rd, rm) == OrrShiftedRegister(rd, None(rd), rm, 0, 0)

----
(* Loads and stores (opx1x0).                                              *)

Opx1x0Instruction(op0) == SetBits(Instruction(4), 28, 32, op0)

GetSize(rt) == 2 + Is64(rt)

(* The extends there are (UXTX is another name of LSL), and those the      *)
(* classes know; for another the option is 0.                              *)
ExtendTypes == {"UXTB", "UXTH", "UXTW", "LSL", "SXTB", "SXTH", "SXTW", "SXTX"}
Extends == [UXTW |-> 2, LSL |-> 3, SXTW |-> 6, SXTX |-> 7]
CreateOption(extend) == IF extend \in DOMAIN Extends THEN Extends[extend] ELSE 0

CreateS(rt, amount) == IF amount = 2 + Is64(rt) THEN 1 ELSE 0

LoadStoreRegisterOffset(opc, rt, rn, rm, extend, amount) ==
    Opx1x0Instruction(3) ++ <<30, 32, GetSize(rt)>> ++ <<22, 24, opc>>
        ++ <<26, 27, 0>> ++ <<23, 25, 0>> ++ <<16, 22, 32>> ++ <<10, 12, 2>>
        ++ <<26, 27, 0>> ++ <<30, 32, GetSize(rt)>> ++ <<16, 21, Index(rm)>>
        ++ <<13, 16, CreateOption(extend)>> ++ <<12, 13, CreateS(rt, amount)>>
        ++ <<0, 5, Index(rt)>> ++ <<5, 10, Index(rn)>>

LdrRegisterOffset(rt, rn, rm, extend, amount) ==
    LoadStoreRegisterOffset(1, rt, rn, rm, extend, amount)
StrRegisterOffset(rt, rn, rm, extend, amount) ==
    LoadStoreRegisterOffset(0, rt, rn, rm, extend, amount)

LoadStoreRegisterUnscaledImmediate(opc, imm9, rn, rt) ==
    Opx1x0Instruction(3) ++ <<23, 25, 0>> ++ <<16, 22, 0>> ++ <<10, 12, 0>>
        ++ <<30, 32, GetSize(rt)>> ++ <<26, 27, 0>> ++ <<22, 24, opc>>
        ++ <<12, 21, imm9>> ++ <<5, 10, Index(rn)>> ++ <<0, 5, Index(rt)>>

LdurUnscaledImmediate(rt, rn, imm9) == LoadStoreRegisterUnscaledImmediate(1, imm9, rn, rt)
SturUnscaledImmediate(rt, rn, imm9) == LoadStoreRegisterUnscaledImmediate(0, imm9, rn, rt)

LoadStoreRegisterUnsignedImmediate(opc, imm12, rn, rt) ==
    Opx1x0Instruction(3) ++ <<23, 25, 2>> ++ <<30, 32, GetSize(rt)>>
        ++ <<26, 27, 0>> ++ <<22, 24, opc>> ++ <<10, 22, imm12>>
        ++ <<5, 10, Index(rn)>> ++ <<0, 5, Index(rt)>>

LdrRegisterImmediate(rt, rn, imm12) == LoadStoreRegisterUnsignedImmediate(1, imm12, rn, rt)
StrRegisterImmediate(rt, rn, imm12) == LoadStoreRegisterUnsignedImmediate(0, imm12, rn, rt)

----
(* A call of a constructor: its name and its arguments.                    *)
Encode(c) ==
    CASE c[1] = "AddImmediate" -> AddImmediate(c[2], c[3], c[4])
      [] c[1] = "AddsImmediate" -> AddsImmediate(c[2], c[3], c[4])
      [] c[1] = "SubImmediate" -> SubImmediate(c[2], c[3], c[4])
      [] c[1] = "SubsImmediate" -> SubsImmediate(c[2], c[3], c[4])
      [] c[1] = "CmnImmediate" -> CmnImmediate(c[2], c[3])
      [] c[1] = "CmpImmediate" -> CmpImmediate(c[2], c[3])
      [] c[1] = "Movn" -> Movn(c[2], c[3])
      [] c[1] = "Movz" -> Movz(c[2], c[3])
      [] c[1] = "Movk" -> Movk(c[2], c[3])
      [] c[1] = "Adr" -> Adr(c[2], c[3])
      [] c[1] = "Adrp" -> Adrp(c[2], c[3])
      [] c[1] = "Nop" -> Nop
      [] c[1] = "Branch" -> Branch(c[2])
      [] c[1] = "BranchLink" -> BranchLink(c[2])
      [] c[1] = "BranchRegister" -> BranchRegister(c[2])
      [] c[1] = "Ret" -> Ret(c[2])
      [] c[1] = "OrrShiftedRegister" -> OrrShiftedRegister(c[2], c[3], c[4], c[5], c[6])
      [] c[1] = "MovRegister" -> MovRegister(c[2], c[3])
      [] c[1] = "LdrRegisterOffset" -> LdrRegisterOffset(c[2], c[3], c[4], c[5], c[6])
      [] c[1] = "StrRegisterOffset" -> StrRegisterOffset(c[2], c[3], c[4], c[5], c[6])
      [] c[1] = "LdurUnscaledImmediate" -> LdurUnscaledImmediate(c[2], c[3], c[4])
      [] c[1] = "SturUnscaledImmediate" -> SturUnscaledImmediate(c[2], c[3], c[4])
      [] c[1] = "LdrRegisterImmediate" -> LdrRegisterImmediate(c[2], c[3], c[4])
      [] c[1] = "StrRegisterImmediate" -> StrRegisterImmediate(c[2], c[3], c[4])

(* The calls that compile: each argument has the width of its parameter,   *)
(* and a distance or an offset may be negative.  No bound of the model.    *)
U8 == 0 .. 255
U16 == {n \in Nat : n < 65536}
Offsets == {n \in Int : -32768 <= n /\ n < 65536}
U32 == {n \in Nat : n \div 65536 < 65536}
Distances == {n \in Int : -32768 <= n \div 65536 /\ n \div 65536 < 65536}

Calls ==
    ({"AddImmediate", "AddsImmediate", "SubImmediate", "SubsImmediate"}
        \X Registers \X Registers \X U32)
    \cup ({"CmnImmediate", "CmpImmediate"} \X Registers \X U32)
    \cup ({"Movn", "Movz", "Movk"} \X Registers \X U16)
    \cup ({"Adr", "Adrp"} \X Registers \X Distances)
    \cup {<<"Nop">>}
    \cup ({"Branch", "BranchLink"} \X Distances)
    \cup ({"BranchRegister", "Ret"} \X Registers)
    \cup ({"OrrShiftedRegister"} \X Registers \X Registers \X Registers \X (0 .. 3) \X U16)
    \cup ({"MovRegister"} \X Registers \X Registers)
    \cup ({"LdrRegisterOffset", "StrRegisterOffset"}
        \X Registers \X Registers \X Registers \X ExtendTypes \X U8)
    \cup ({"LdurUnscaledImmediate", "SturUnscaledImmediate"} \X Registers \X Registers \X Offsets)
    \cup ({"LdrRegisterImmediate", "StrRegisterImmediate"} \X Registers \X Registers \X U16)
====
