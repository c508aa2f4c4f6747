---- MODULE Relocation ----
(* __fix_instructions (hook_impl.cpp): the first instructions of a hooked    *)
(* function are moved into a trampoline, and what depends on the program     *)
(* counter is rewritten. Addresses are counted in words of four bytes.       *)
(*                                                                           *)
(* An instruction is its class and the address it refers to. What was        *)
(* written for it is a record: `from`, where the writing began; `pos`, after *)
(* padding; `len`, in words; `form` and `value`, how the target is held:     *)
(*   "offset"   in the instruction, relative to pos                          *)
(*   "address"  as a literal behind the instruction                          *)
(*   "copy"     the data at that address, copied behind the instruction      *)
(*   "spilled"  like "offset", but bits of it fell into other fields         *)
(*   "page"     left as it was, relative to the page of pos                  *)
(*   "none"     nothing to hold                                              *)
EXTENDS Integers, FiniteSets

CONSTANTS
    Base,            \* the hooked address
    MovedCount,      \* number of instructions that are moved
    MaxInstructions, \* and the most there may be: 5
    Starts,          \* addresses a trampoline may have
    Alias,           \* distance from the trampoline to its writable view
    Instructions,    \* records [op, to]
    WideLimit,       \* offsets of b and bl go from -2^25 to 2^25 - 1
    NarrowLimit,     \* most others, in words, from -2^18 to 2^18 - 1
    TestLimit,       \* those of tbz and tbnz from -2^13 to 2^13 - 1
    HighWords,       \* 2^30, as many as 32 bits of bytes can count
    PageWords

\* Loads of w, x, s, d and q registers, and the one that extends the sign.
Literals == {"ldrw", "ldrx", "ldrsw", "ldrs", "ldrd", "ldrq"}
\* bc stands for cbz and cbnz too, tbz for tbnz.
Conditional == {"bc", "tbz"}
\* An adr may name a byte within a word, here the first to the third after it.
Adrs == {"adr", "adr1", "adr2", "adr3"}
Ops == Literals \cup Conditional \cup Adrs \cup {"b", "bl", "adrp", "prfm", "plain"}
MovedRange == Base .. Base + MovedCount - 1
Indices == 0 .. MovedCount - 1

TrampolineWords == 10 * MaxInstructions

ASSUME RelocationAssumption ==
    /\ Base \in Nat /\ Starts \subseteq Nat /\ Alias \in Nat
    /\ MaxInstructions \in Nat /\ MaxInstructions >= 3
    /\ MovedCount \in 1 .. MaxInstructions
    /\ Instructions \subseteq [op : Ops, to : Nat]
    /\ NarrowLimit \in Nat /\ WideLimit \in Nat
    /\ TestLimit \in Nat /\ HighWords \in Nat
    /\ TrampolineWords < TestLimit /\ TestLimit <= NarrowLimit
    /\ NarrowLimit <= WideLimit /\ 2 * NarrowLimit <= HighWords
    /\ PageWords \in Nat \ {0}

VARIABLES
    prog,   \* the instructions, by index
    start,  \* address of the trampoline
    o,      \* outrxp
    next,   \* index of the next instruction; MovedCount: the jump back; then done
    dat,    \* context::dat[i].insp: where references to instruction i go
    fmap,   \* context::dat[i].fmap: the writings that wait for instruction i
    out     \* what has been written, by index

relocationVars == <<prog, start, o, next, dat, fmap, out>>

Abs(n) == IF n < 0 THEN -n ELSE n
WideRange == WideLimit - 1
PageOf(a) == a - (a % PageWords)
LiteralWords(op) == CASE op \in {"ldrw", "ldrs"} -> 1
                      [] op \in {"ldrx", "ldrsw", "ldrd"} -> 2
                      [] op = "ldrq" -> 4
LowBits(op) == CASE op = "adr1" -> 1 [] op = "adr2" -> 2 [] op = "adr3" -> 3 [] OTHER -> 0
Nothing == [from |-> 0, pos |-> 0, len |-> 0, form |-> "none", value |-> 0]

LimitOf(op) == CASE op \in {"b", "bl"} -> WideLimit
                 [] op = "tbz" -> TestLimit
                 [] OTHER -> NarrowLimit

\* The assembler could encode it at this index; adrp counts whole pages.
Encodable(i, ins) ==
    /\ ins.op = "adrp" =>
          /\ ins.to % PageWords = 0
          /\ ins.to - PageOf(Base + i) \in -HighWords .. HighWords - 1
    /\ ins.op \notin {"adrp", "prfm", "plain"} =>
          ins.to - (Base + i) \in -LimitOf(ins.op) .. LimitOf(ins.op) - 1

(* The address that the code takes an instruction to refer to. Only b and    *)
(* bl have their offset read with its sign (line 187). A conditional branch  *)
(* has it cut out of its field as it is (240). For adr, adrp and literals    *)
(* the mask makes it 32 bits without a sign before it is added to 64 bits    *)
(* (327, 389, 428), so that what lies behind is taken for 4 GiB higher.      *)
Unsigned(from, to, span) == from + ((to - from) % span)

Referred(i, ins) ==
    CASE ins.op \in Conditional -> Unsigned(Base + i, ins.to, 2 * LimitOf(ins.op))
      [] ins.op \in Adrs \cup Literals -> Unsigned(Base + i, ins.to, HighWords)
      [] ins.op = "adrp" -> Unsigned(PageOf(Base + i), ins.to, HighWords)
      [] OTHER -> ins.to

RelocationInit ==
    /\ prog \in {p \in [Indices -> Instructions] : \A i \in Indices : Encodable(i, p[i])}
    /\ start \in Starts
    /\ o = start
    /\ next = 0
    /\ dat = [i \in Indices |-> 0]
    /\ fmap = [i \in Indices |-> {}]
    /\ out = [i \in 0..MovedCount |-> Nothing]

----
(* Writing.                                                                 *)

\* A mistake: the references that waited are left as they are.
FixedUnpatched(written, waiting, here) == written

\* process_fix_map: what waited for the instruction now learns where it is.
Fixed(written, waiting, here) ==
    [i \in 0..MovedCount |-> IF i \in waiting
                        THEN [written[i] EXCEPT !.value = here - written[i].pos]
                        ELSE written[i]]

\* The instruction has become `len` words after `pad` words of padding, and
\* references to it go to `here`.
Emit(pad, len, form, value, here) ==
    /\ out' = Fixed([out EXCEPT ![next] = [from |-> o, pos |-> o + pad, len |-> len,
                                           form |-> form, value |-> value]],
                    fmap[next], here)
    /\ dat' = [dat EXCEPT ![next] = here]
    /\ o' = o + pad + len
    /\ next' = next + 1
    /\ UNCHANGED <<prog, start>>

\* Padding that puts the word at distance d from here on a boundary of w words.
Pad(d, w) == (-(o + d)) % w

----
(* The classes of instructions.                                             *)

HasMoved(ref) == ref <= next

\* Within the moved range: the reference follows, at once if the instruction
\* it names has been moved already, else when it will be.
FollowInside(target) ==
    LET ref == target - Base IN
    IF HasMoved(ref)
    THEN /\ Emit(0, 1, "offset", (IF ref = next THEN o ELSE dat[ref]) - o, o)
         /\ UNCHANGED fmap
    ELSE /\ Emit(0, 1, "offset", 0, o)
         /\ fmap' = [fmap EXCEPT ![ref] = @ \cup {next}]

\* A mistake: the padding of the other branch, whose literal is one word nearer.
PadBranchAlike(op) == Pad(2, 2)

PadBranch(op) == IF op = "b" THEN Pad(2, 2) ELSE Pad(3, 2)

\* __fix_branch_imm
FixBranch(ins) ==
    LET pad == PadBranch(ins.op)
        to == Referred(next, ins)
    IN
    /\ ins.op \in {"b", "bl"}
    /\ \/ to \in MovedRange /\ FollowInside(to)
       \/ /\ to \notin MovedRange
          /\ IF Abs(to - o) >= WideRange
             THEN Emit(pad, IF ins.op = "b" THEN 4 ELSE 5, "address", to, o + pad)
             ELSE Emit(0, 1, "offset", to - o, o)
          /\ UNCHANGED fmap

\* __fix_cond_comp_test_branch
FixCondBranch(ins) ==
    LET to == Referred(next, ins) IN
    /\ ins.op \in Conditional
    /\ \/ to \in MovedRange /\ FollowInside(to)
       \/ /\ to \notin MovedRange
          /\ IF Abs(to - o) >= LimitOf(ins.op) - 1
             THEN Emit(Pad(4, 2), 6, "address", to, o)
             ELSE Emit(0, 1, "offset", to - o, o)
          /\ UNCHANGED fmap

CopiedWords(w) == w

\* The mask that the offset is cut with (line 357) is the one that tells the
\* loads apart: a sign spills into the bits for the size of the load, which
\* only ldrx has set and only ldrsw has protected. ldrw becomes ldrx; of the
\* loads to s, d and q registers nothing is left that is an instruction.
NearForm(op, offset) ==
    IF offset < 0 /\ op \in {"ldrw", "ldrs", "ldrd", "ldrq"} THEN "spilled" ELSE "offset"

\* __fix_loadlit: a prefetch is dropped; a literal within the moved range or
\* out of reach is copied from where the code takes it to be.
FixLoad(ins) ==
    /\ UNCHANGED fmap
    /\ \/ ins.op = "prfm" /\ Emit(0, 0, "none", 0, o)
       \/ /\ ins.op \in Literals
          /\ LET w == LiteralWords(ins.op)
                 to == Referred(next, ins)
                 far == to \in MovedRange \/ Abs(to - o) + w - 1 >= NarrowLimit - 1
                 pad == IF far THEN Pad(2, w) ELSE (to - o) % w
             IN  IF far
                 THEN Emit(pad, 2 + CopiedWords(w), "copy", to, o + pad)
                 ELSE LET offset == to - o - pad
                      IN  Emit(pad, 1, NearForm(ins.op, offset), offset, o + pad)

\* In bytes, below 2^20 - 1.
AdrInReach(op, to) == Abs(4 * (to - o) + LowBits(op)) < 4 * NarrowLimit - 1

\* __fix_pcreladdr, adr: the low bits stay in their field, but are also set in
\* the number of the register (line 418), unless the target is moved too.
FixAdr(ins) ==
    LET to == Referred(next, ins) IN
    /\ ins.op \in Adrs
    /\ \/ to \in MovedRange /\ FollowInside(to)
       \/ /\ to \notin MovedRange
          /\ IF AdrInReach(ins.op, to)
             THEN Emit(0, 1, IF LowBits(ins.op) = 0 THEN "offset" ELSE "spilled", to - o, o)
             ELSE Emit(Pad(2, 2), 4, "address", to, o + Pad(2, 2))
          /\ UNCHANGED fmap

\* __fix_pcreladdr, adrp: its place is first noted in the writable view. What
\* is left as it was counts with its sign again, from the trampoline's page.
FixAdrp(ins) ==
    LET pad == Pad(2, 2)
        to == Referred(next, ins)
    IN
    /\ ins.op = "adrp"
    /\ IF to \in MovedRange
       THEN Emit(0, 1, "page", ins.to - PageOf(Base + next), o + Alias)
       ELSE Emit(pad, 4, "address", to, IF pad = 0 THEN o + Alias ELSE o + pad)
    /\ UNCHANGED fmap

FixPlain(ins) ==
    /\ ins.op = "plain"
    /\ Emit(0, 1, "none", 0, o)
    /\ UNCHANGED fmap

Fix ==
    /\ next < MovedCount
    /\ LET ins == prog[next] IN
       \/ FixBranch(ins) \/ FixCondBranch(ins) \/ FixLoad(ins)
       \/ FixAdr(ins) \/ FixAdrp(ins) \/ FixPlain(ins)

\* The jump back behind the moved instructions.
JumpBehind ==
    /\ next = MovedCount
    /\ LET callback == Base + MovedCount
           far == Abs(callback - o) >= WideRange
           pad == IF far THEN Pad(2, 2) ELSE 0
           len == IF far THEN 4 ELSE 1
       IN  /\ out' = [out EXCEPT ![MovedCount] =
                        [from |-> o, pos |-> o + pad, len |-> len,
                         form |-> IF far THEN "address" ELSE "offset",
                         value |-> IF far THEN callback ELSE callback - o]]
           /\ o' = o + pad + len
    /\ next' = MovedCount + 1
    /\ UNCHANGED <<prog, start, dat, fmap>>

RelocationNext == Fix \/ JumpBehind

RelocationSpec == RelocationInit /\ [][RelocationNext]_relocationVars

----
(* What a processor makes of it.                                            *)

Done == next = MovedCount + 1

\* The address meant by what was written.
Meant(i) ==
    CASE out[i].form \in {"offset", "spilled"} -> out[i].pos + out[i].value
      [] out[i].form = "page" -> PageOf(out[i].pos) + out[i].value
      [] OTHER                  -> out[i].value

\* The addresses at which instruction i can be entered in the trampoline.
Entries(i) == out[i].from .. out[i].pos

Follows(op) == op \in {"b", "bl"} \cup Conditional \cup Adrs

\* The known exceptions, in the order in which they are described below.
Backward(i) ==
    \/ prog[i].op \in Conditional \cup Adrs \cup Literals /\ prog[i].to < Base + i
    \/ prog[i].op = "adrp" /\ prog[i].to < PageOf(Base + i)
PageInside(i) == prog[i].op = "adrp" /\ prog[i].to \in MovedRange
NamesAdrp(i) == /\ Follows(prog[i].op) /\ prog[i].to \in MovedRange
                /\ prog[prog[i].to - Base].op = "adrp"
Spilled(i) == out[i].form = "spilled"
Excepted(i) == Backward(i) \/ PageInside(i) \/ NamesAdrp(i) \/ Spilled(i)

(* Records of the right shape; references wait only for later instructions. *)
RelocationTypeOK ==
    /\ next \in 0 .. MovedCount + 1
    /\ o >= start
    /\ \A i \in Indices : fmap[i] \subseteq {j \in Indices : j < i /\ j < next}
    /\ \A i \in 0..MovedCount :
        out[i].form \in {"offset", "spilled", "address", "copy", "page", "none"}

(* A moved instruction means what it meant: a target outside is the same    *)
(* address, a target among the moved instructions is the moved one, and the *)
(* trampoline ends behind them. Excepted is every reference to a lower      *)
(* address but that of b and bl (its offset loses its sign, see Referred); an *)
(* adrp to a page that begins within the moved range (429-440: left         *)
(* unchanged); a reference to an adrp (424: noted in the writable view);    *)
(* and what is in reach of the trampoline but does not fit the mask it is   *)
(* cut with: a literal before it (357), an adr between two words (418).     *)
MeaningKept == Done =>
    /\ Meant(MovedCount) = Base + MovedCount
    /\ \A i \in Indices : prog[i].op \notin {"plain", "prfm"} =>
        \/ Excepted(i)
        \/ /\ Follows(prog[i].op) /\ prog[i].to \in MovedRange
           /\ Meant(i) \in Entries(prog[i].to - Base)
        \/ /\ ~(Follows(prog[i].op) /\ prog[i].to \in MovedRange)
           /\ Meant(i) = prog[i].to /\ ~Spilled(i)

(* The words written never exceed what a trampoline has, ten for each       *)
(* instruction it may hold, the jump back included (TrampolineSize, line    *)
(* 58); addresses and copies behind an instruction are aligned to their     *)
(* size, and every offset fits its field (158-182, 244-257, 330-359,        *)
(* 393-415).                                                                *)
WellPlaced ==
    /\ o - start <= TrampolineWords
    /\ Done => \A i \in Indices :
        LET w == IF out[i].form = "copy" THEN LiteralWords(prog[i].op) ELSE 2
            limit == LimitOf(prog[i].op)
        IN  /\ out[i].form \in {"address", "copy"} => (out[i].pos + out[i].len - w) % w = 0
            /\ out[i].form \in {"offset", "spilled"} /\ ~NamesAdrp(i)
                  => out[i].value \in -limit .. limit - 1

(* The comment on the adrp of a page within the moved range: "the bottom 12 *)
(* bits of absolute_addr are masked out, so ref_idx must be less than or    *)
(* equal to current_idx!" (hook_impl.cpp:432-433).                          *)
AdrpRefersBack == \A i \in Indices : out[i].form = "page" => prog[i].to - Base <= i
====
