---- MODULE A64 ----
(***************************************************************************)
(* What the processor makes of a word: the part of the instruction set     *)
(* that the encoders of src/lib/armv8 are for, and what a caller means by  *)
(* a call of one of their constructors.  Register 31 is the stack pointer, *)
(* 32 the zero register; the field is 31 for both, and the instruction     *)
(* decides which it is.                                                    *)
(***************************************************************************)
EXTENDS Encoders

Zr(kind) == <<kind, 32>>

(* The register in a field that may, and in one that may not, name the     *)
(* stack pointer.                                                          *)
OrSp(kind, n) == IF n = 31 /\ kind = 1 THEN SP ELSE <<kind, n>>
OrZero(kind, n) == IF n = 31 THEN Zr(kind) ELSE <<kind, n>>

SignedBits(w, low, high) ==
    BitsOf(w, low, high) - (IF w[high - 1] = 1 THEN 2^(high - low) ELSE 0)

Undefined == <<"undefined">>

AddSubMeans(w) ==
    LET name == <<<<"add", "adds">>, <<"sub", "subs">>>>[w[30] + 1][w[29] + 1]
        rd == IF w[29] = 1 THEN OrZero(w[31], BitsOf(w, 0, 5)) ELSE OrSp(w[31], BitsOf(w, 0, 5))
    IN <<name, rd, OrSp(w[31], BitsOf(w, 5, 10)), BitsOf(w, 10, 22) * 4096^w[22]>>

MoveWideMeans(w) ==
    <<<<"movn", "undefined", "movz", "movk">>[BitsOf(w, 29, 31) + 1],
      OrZero(w[31], BitsOf(w, 0, 5)), BitsOf(w, 5, 21), 16 * BitsOf(w, 21, 23)>>

(* adr counts bytes, adrp pages.                                           *)
PcRelMeans(w) ==
    <<<<"adr", "adrp">>[w[31] + 1], OrZero(1, BitsOf(w, 0, 5)),
      4 * SignedBits(w, 5, 24) + BitsOf(w, 29, 31)>>

BranchMeans(w) == <<<<"b", "bl">>[w[31] + 1], 4 * SignedBits(w, 0, 26)>>

BranchRegisterMeans(w) ==
    IF BitsOf(w, 10, 21) = 1984 /\ BitsOf(w, 0, 5) = 0 /\ BitsOf(w, 21, 25) \in {0, 1, 2}
    THEN <<<<"br", "blr", "ret">>[BitsOf(w, 21, 25) + 1], OrZero(1, BitsOf(w, 5, 10))>>
    ELSE Undefined

OrrMeans(w) ==
    IF BitsOf(w, 29, 31) = 1 /\ w[21] = 0 /\ (w[31] = 1 \/ w[15] = 0)
    THEN <<"orr", OrZero(w[31], BitsOf(w, 0, 5)), OrZero(w[31], BitsOf(w, 5, 10)),
           OrZero(w[31], BitsOf(w, 16, 21)), BitsOf(w, 22, 24), BitsOf(w, 10, 16)>>
    ELSE Undefined

ExtendNames == [n \in {2, 3, 6, 7} |-> CASE n = 2 -> "UXTW" [] n = 3 -> "LSL"
                                           [] n = 6 -> "SXTW" [] n = 7 -> "SXTX"]

LoadStoreMeans(w) ==
    LET kind == w[30]
        name == <<"str", "ldr">>[w[22] + 1]
        rt == OrZero(kind, BitsOf(w, 0, 5))
        rn == OrSp(1, BitsOf(w, 5, 10))
        option == BitsOf(w, 13, 16)
    IN CASE w[24] = 1 -> <<name, rt, rn, "scaled", BitsOf(w, 10, 22)>>
         [] w[24] = 0 /\ w[21] = 0 /\ BitsOf(w, 10, 12) = 0 ->
                <<name, rt, rn, "unscaled", SignedBits(w, 12, 21)>>
         [] w[24] = 0 /\ w[21] = 1 /\ BitsOf(w, 10, 12) = 2 /\ option \in DOMAIN ExtendNames ->
                <<name, rt, rn, "register", OrZero(w[13], BitsOf(w, 16, 21)),
                  ExtendNames[option], w[12] * (2 + kind)>>
         [] OTHER -> Undefined

Means(w) ==
    CASE BitsOf(w, 23, 29) = 34 -> AddSubMeans(w)
      [] BitsOf(w, 23, 29) = 37 -> MoveWideMeans(w)
      [] BitsOf(w, 24, 29) = 16 -> PcRelMeans(w)
      [] BitsOf(w, 26, 31) = 5 -> BranchMeans(w)
      [] BitsOf(w, 25, 32) = 107 -> BranchRegisterMeans(w)
      [] BitsOf(w, 16, 32) = 54531 /\ BitsOf(w, 0, 16) = 8223 -> <<"nop">>
      [] BitsOf(w, 24, 29) = 10 -> OrrMeans(w)
      [] BitsOf(w, 25, 30) = 28 /\ w[31] = 1 /\ w[23] = 0 -> LoadStoreMeans(w)
      [] OTHER -> Undefined

----
(* What a caller means.                                                    *)

ArithmeticNames == [AddImmediate |-> "add", AddsImmediate |-> "adds",
                    SubImmediate |-> "sub", SubsImmediate |-> "subs"]

Intent(c) ==
    CASE c[1] \in DOMAIN ArithmeticNames -> <<ArithmeticNames[c[1]], c[2], c[3], c[4]>>
      [] c[1] = "CmnImmediate" -> <<"adds", Zr(Is64(c[2])), c[2], c[3]>>
      [] c[1] = "CmpImmediate" -> <<"subs", Zr(Is64(c[2])), c[2], c[3]>>
      [] c[1] = "Movn" -> <<"movn", c[2], c[3], 0>>
      [] c[1] = "Movz" -> <<"movz", c[2], c[3], 0>>
      [] c[1] = "Movk" -> <<"movk", c[2], c[3], 0>>
      [] c[1] = "Adr" -> <<"adr", c[2], c[3]>>
      [] c[1] = "Adrp" -> <<"adrp", c[2], c[3] \div 4096>>
      [] c[1] = "Nop" -> <<"nop">>
      [] c[1] = "Branch" -> <<"b", c[2]>>
      [] c[1] = "BranchLink" -> <<"bl", c[2]>>
      [] c[1] = "BranchRegister" -> <<"br", c[2]>>
      [] c[1] = "Ret" -> <<"ret", c[2]>>
      [] c[1] = "OrrShiftedRegister" -> <<"orr", c[2], c[3], c[4], c[5], c[6]>>
      [] c[1] = "MovRegister" -> <<"orr", c[2], Zr(Is64(c[2])), c[3], 0, 0>>
      [] c[1] = "LdrRegisterOffset" -> <<"ldr", c[2], c[3], "register", c[4], c[5], c[6]>>
      [] c[1] = "StrRegisterOffset" -> <<"str", c[2], c[3], "register", c[4], c[5], c[6]>>
      [] c[1] = "LdurUnscaledImmediate" -> <<"ldr", c[2], c[3], "unscaled", c[4]>>
      [] c[1] = "SturUnscaledImmediate" -> <<"str", c[2], c[3], "unscaled", c[4]>>
      [] c[1] = "LdrRegisterImmediate" -> <<"ldr", c[2], c[3], "scaled", c[4]>>
      [] c[1] = "StrRegisterImmediate" -> <<"str", c[2], c[3], "scaled", c[4]>>
====
