---- MODULE CodeChangesProofs ----
(***************************************************************************)
(* Whatever is patched, wherever the patcher moves: nothing it wrote is    *)
(* left unflushed behind it.  Whatever is moved into a trampoline: it      *)
(* means what it meant, and it fits (the second part).  Whatever           *)
(* constructor is called: its word means what the caller meant exactly     *)
(* when the constructor can say it (the third part).                       *)
(***************************************************************************)
EXTENDS CodeChanges, Relocation, WellFoundedInduction, TLAPS

(* What is not flushed lies between the place of the last move and the     *)
(* current one, in this order.                                             *)
PatchInv == PatchTypeOK /\ NothingStale /\ m_Start <= m_Current

(* A patcher that has just been placed, or none, and nothing unflushed.    *)
JustPlaced == stale = {} /\ m_Start = m_Current /\ m_Current \in Int /\ open \in BOOLEAN

LEMMA Placing == JustPlaced => PatchInv
<1> SUFFICES ASSUME JustPlaced PROVE PatchInv
  OBVIOUS
<1>1. m_Start <= m_Current /\ m_Start \in Int /\ m_Current \in Int
  BY DEF JustPlaced
<1>2. stale \subseteq {a \in Words : m_Start <= a /\ a < m_Current} /\ stale \subseteq Words
  BY Zenon DEF JustPlaced
<1>3. open \in BOOLEAN /\ stale = {}
  BY Zenon DEF JustPlaced
<1> QED
  BY <1>1, <1>2, <1>3, Zenon DEF PatchInv, PatchTypeOK, NothingStale

LEMMA PatchInvInit == PatchInit => PatchInv
<1>1. 0 \in Int
  OBVIOUS
<1> QED
  BY <1>1, Placing, Zenon DEF PatchInit, JustPlaced

LEMMA PlacingNext == JustPlaced' => PatchInv'
BY Placing, PTL

LEMMA OpenKeeps == ASSUME PatchInv, NEW a \in Words, Open(a) PROVE PatchInv'
<1>1. stale = {}
  BY Zenon DEF Open, PatchInv, NothingStale
<1>2. a \in Int
  BY WordsAssumption
<1>3. JustPlaced'
  BY <1>1, <1>2, Zenon DEF Open, JustPlaced
<1> QED
  BY <1>3, PlacingNext

LEMMA FlushClears == PatchInv => Flush(stale) = {}
<1> SUFFICES ASSUME PatchInv PROVE Flush(stale) = {}
  OBVIOUS
<1>1. stale \subseteq {a \in Words : m_Start <= a /\ a < m_Current}
  BY Zenon DEF PatchInv, NothingStale
<1>2. Words \subseteq Int /\ m_Start \in Int /\ m_Current \in Int
  BY WordsAssumption DEF PatchInv, PatchTypeOK
<1>3. CASE DoneNothing
  BY <1>1, <1>2, <1>3 DEF Flush, DoneNothing
<1>4. CASE ~DoneNothing
  BY <1>1, <1>4 DEF Flush, Flushed
<1> QED
  BY <1>3, <1>4

LEMMA SeekKeeps == ASSUME PatchInv, NEW a \in Words, Seek(a) PROVE PatchInv'
<1>1. stale' = {}
  BY FlushClears DEF Seek
<1>2. a \in Int
  BY WordsAssumption
<1>3. JustPlaced'
  BY <1>1, <1>2, Zenon DEF Seek, JustPlaced, PatchInv, PatchTypeOK
<1> QED
  BY <1>3, PlacingNext

LEMMA CloseKeeps == ASSUME PatchInv, Close PROVE PatchInv'
<1>1. stale' = {}
  BY FlushClears DEF Close
<1>2. 0 \in Int
  OBVIOUS
<1>3. JustPlaced'
  BY <1>1, <1>2, Zenon DEF Close, JustPlaced
<1> QED
  BY <1>3, PlacingNext

LEMMA WriteKeeps ==
    ASSUME PatchInv, Unpatched, NEW call, NEW intent, Write(call, intent)
    PROVE PatchInv'
<1>1. /\ open /\ open' = open
      /\ stale' = stale \cup {m_Current}
      /\ m_Start' = m_Start
      /\ m_Current' = m_Current + 4
  BY DEF Write
<1>2. m_Current \in Words
  BY DEF Unpatched
<1> QED
  BY <1>1, <1>2, WordsAssumption DEF PatchInv, PatchTypeOK, NothingStale

LEMMA PatchNextKeeps == ASSUME PatchInv, PatchNext PROVE PatchInv'
<1>1. CASE \E a \in Words : Open(a)
  BY <1>1, OpenKeeps
<1>2. CASE \E a \in Words : Seek(a)
  BY <1>2, SeekKeeps
<1>3. CASE Unpatched /\ \E c \in CallsAt[m_Current] : WriteInst(c)
  BY <1>3, WriteKeeps DEF WriteInst
<1>4. CASE Unpatched /\ \E t \in TargetsAt[m_Current] : BranchInst(t) \/ BranchLinkInst(t)
  BY <1>4, WriteKeeps DEF BranchInst, BranchLinkInst
<1>5. CASE Close
  BY <1>5, CloseKeeps
<1> QED
  BY <1>1, <1>2, <1>3, <1>4, <1>5 DEF PatchNext

LEMMA PatchStutters == ASSUME PatchInv, UNCHANGED patchVars PROVE PatchInv'
BY DEF patchVars, PatchInv, PatchTypeOK, NothingStale

(* The inductive invariant of the patcher: types, and what is not flushed  *)
(* is what was written since the last move.                                *)
THEOREM PatchInvariance == Spec => []PatchInv
<1>1. Init => PatchInv
  BY PatchInvInit DEF Init
<1>2. PatchInv /\ [Next]_vars => PatchInv'
  <2> SUFFICES ASSUME PatchInv, [Next]_vars PROVE PatchInv'
    OBVIOUS
  <2>1. CASE PatchesOnly /\ PatchNext /\ UNCHANGED hookVars
    BY <2>1, PatchNextKeeps
  <2>2. CASE UNCHANGED patchVars
    BY <2>2, PatchStutters
  <2>3. CASE UNCHANGED vars
    BY <2>3, PatchStutters DEF vars
  <2> QED
    BY <2>1, <2>2, <2>3 DEF Next
<1> QED
  BY <1>1, <1>2, PTL DEF Spec

(* Every instruction that a patcher wrote is flushed when the patcher is   *)
(* gone, for any words, calls and targets.                                 *)
THEOREM NothingIsStale == Spec => []NothingStale
<1>1. PatchInv => NothingStale
  BY DEF PatchInv
<1> QED
  BY <1>1, PatchInvariance, PTL

----
(***************************************************************************)
(* What instruction i refers to, as __fix_instructions reads it, and       *)
(* whether that is one of the moved ones, which it then follows.           *)
(***************************************************************************)
TargetOf(i) == Referred(i, prog[i])

Inside(i) == Follows(prog[i].op) /\ TargetOf(i) \in MovedRange
RefOf(i) == TargetOf(i) - Base

Forms == {"none", "offset", "address", "copy", "spilled", "page"}
Writings == [from : Int, pos : Int, len : Nat, form : Forms, value : Int]

MeantBy(r) ==
    IF r.form \in {"offset", "spilled"} THEN r.pos + r.value
    ELSE IF r.form = "page" THEN PageOf(r.pos) + r.value
    ELSE r.value

(* What was written for an instruction whose target is not moved with it.  *)
Alone(i, r) ==
    /\ prog[i].op \notin {"plain", "prfm"} /\ r.form # "page" => MeantBy(r) = TargetOf(i)
    /\ r.form = "page" => prog[i].op = "adrp" /\ TargetOf(i) \in MovedRange
    /\ r.form \in {"offset", "spilled"} =>
          r.value \in -LimitOf(prog[i].op) .. LimitOf(prog[i].op) - 1
    /\ r.form = "address" => (r.pos + r.len - 2) % 2 = 0
    /\ r.form = "copy" => /\ prog[i].op \in Literals
                          /\ (r.pos + r.len - LiteralWords(prog[i].op)) % LiteralWords(prog[i].op) = 0
    /\ r.form = "spilled" => prog[i].op \in Literals \cup Adrs

(* One that follows a moved instruction holds the way to it, once that one *)
(* has been moved, and waits for it until then.                            *)
Following(i, r, n, places, waiting) ==
    /\ r.form = "offset"
    /\ RefOf(i) < n => r.value = places[RefOf(i)] - r.pos
    /\ RefOf(i) >= n => r.value = 0 /\ i \in waiting[RefOf(i)]

WrittenAs(i, r, first, last, n, places, waiting) ==
    /\ first <= r.from /\ r.from <= r.pos /\ r.pos <= last
    /\ prog[i].op # "adrp" => places[i] \in r.from .. r.pos
    /\ Inside(i) => Following(i, r, n, places, waiting)
    /\ ~Inside(i) => Alone(i, r)

Written(i) == WrittenAs(i, out[i], start, o, next, dat, fmap)

Types ==
    /\ prog \in [Indices -> Instructions]
    /\ \A i \in Indices : Encodable(i, prog[i])
    /\ start \in Nat /\ o \in Nat /\ start <= o
    /\ next \in 0 .. MovedCount + 1
    /\ dat \in [Indices -> Int]
    /\ fmap \in [Indices -> SUBSET Indices]
    /\ out \in [0 .. MovedCount -> Writings]

Waiting ==
    \A k \in Indices : \A j \in fmap[k] : j < next /\ j < k /\ Inside(j) /\ RefOf(j) = k

(* No instruction takes more than eight words for long: nine are needed    *)
(* only where the place is one before a multiple of four.                  *)
Size ==
    IF next <= MovedCount
    THEN o - start <= 8 * next + (IF o % 4 = 0 THEN 1 ELSE 0)
    ELSE o - start <= 8 * MovedCount + 6

Ended == Done => Meant(MovedCount) = Base + MovedCount

RelocationInv ==
    /\ Types /\ Waiting /\ Size /\ Ended
    /\ \A i \in Indices : i < next => Written(i)

(***************************************************************************)
(* Reaches and targets                                                     *)
(***************************************************************************)
LEMMA LimitFacts ==
    ASSUME NEW op
    PROVE  /\ LimitOf(op) \in Nat \ {0} /\ TestLimit \in Nat /\ TrampolineWords \in Nat
           /\ TrampolineWords < TestLimit /\ TestLimit <= LimitOf(op)
           /\ op \in {"b", "bl"} => LimitOf(op) = WideLimit
           /\ op \in Adrs \cup Literals => LimitOf(op) = NarrowLimit
           /\ op \notin {"b", "bl"} => 2 * LimitOf(op) <= HighWords
<1>1. /\ TrampolineWords \in Nat /\ TestLimit \in Nat /\ NarrowLimit \in Nat
      /\ WideLimit \in Nat /\ HighWords \in Nat
      /\ TrampolineWords < TestLimit /\ TestLimit <= NarrowLimit
      /\ NarrowLimit <= WideLimit /\ 2 * NarrowLimit <= HighWords
  BY RelocationAssumption DEF TrampolineWords
<1>2. CASE op \in {"b", "bl"}
  <2>1. LimitOf(op) = WideLimit /\ op \notin Adrs \cup Literals
    BY <1>2 DEF LimitOf, Adrs, Literals
  <2> QED
    BY <1>1, <1>2, <2>1
<1>3. CASE op = "tbz"
  <2>1. LimitOf(op) = TestLimit /\ op \notin Adrs \cup Literals /\ op \notin {"b", "bl"}
    BY <1>3 DEF LimitOf, Adrs, Literals
  <2> QED
    BY <1>1, <2>1
<1>4. CASE op \notin {"b", "bl"} /\ op # "tbz"
  <2>1. LimitOf(op) = NarrowLimit
    BY <1>4 DEF LimitOf
  <2> QED
    BY <1>1, <1>4, <2>1
<1> QED
  BY <1>2, <1>3, <1>4

LEMMA ReferredFacts ==
    ASSUME NEW i, NEW ins
    PROVE  /\ ins.op \in {"b", "bl"} => Referred(i, ins) = ins.to
           /\ ins.op \in Conditional
                => Referred(i, ins) = Unsigned(Base + i, ins.to, 2 * LimitOf(ins.op))
           /\ ins.op \in Adrs \cup Literals
                => Referred(i, ins) = Unsigned(Base + i, ins.to, HighWords)
           /\ ins.op = "adrp" => Referred(i, ins) = Unsigned(PageOf(Base + i), ins.to, HighWords)
           /\ ins.op \in {"plain", "prfm"} => Referred(i, ins) = ins.to
<1> USE DEF Conditional, Adrs, Literals
<1>1. ins.op \in {"b", "bl"} => Referred(i, ins) = ins.to
  BY DEF Referred
<1>2. ins.op \in Conditional
        => Referred(i, ins) = Unsigned(Base + i, ins.to, 2 * LimitOf(ins.op))
  BY DEF Referred
<1>3. ins.op \in Adrs \cup Literals
        => Referred(i, ins) = Unsigned(Base + i, ins.to, HighWords)
  BY DEF Referred
<1>4. ins.op = "adrp" => Referred(i, ins) = Unsigned(PageOf(Base + i), ins.to, HighWords)
  BY DEF Referred
<1>5. ins.op \in {"plain", "prfm"} => Referred(i, ins) = ins.to
  BY DEF Referred
<1> QED
  BY <1>1, <1>2, <1>3, <1>4, <1>5

LEMMA TargetIsAddress ==
    ASSUME Types, NEW i \in Indices
    PROVE  TargetOf(i) \in Int
<1>1. prog[i] \in [op : Ops, to : Nat]
  BY RelocationAssumption DEF Types
<1>2. PICK m \in Nat : m = prog[i].to
  BY <1>1
<1>3. PICK h \in Nat : h = Base + i
  BY RelocationAssumption DEF Indices
<1>4. PICK op : op = prog[i].op
  OBVIOUS
<1>5. ASSUME NEW from \in Int, NEW span \in Nat \ {0}
      PROVE  Unsigned(from, m, span) \in Int
  BY DEF Unsigned
<1>6. HighWords \in Nat \ {0}
  <2>1. 2 * LimitOf("adr") <= HighWords /\ LimitOf("adr") \in Nat \ {0}
    BY LimitFacts
  <2> QED
    BY <2>1, RelocationAssumption
<1>7. CASE op \in {"b", "bl"} \cup {"plain", "prfm"}
  BY <1>2, <1>4, <1>7, ReferredFacts DEF TargetOf
<1>8. CASE op \in Conditional
  <2>1. PICK l \in Nat \ {0} : l = LimitOf(op)
    BY LimitFacts
  <2>2. 2 * l \in Nat \ {0}
    OBVIOUS
  <2>3. TargetOf(i) = Unsigned(h, m, 2 * l)
    BY <1>2, <1>3, <1>4, <1>8, <2>1, ReferredFacts, Zenon DEF TargetOf
  <2> QED
    BY <1>3, <1>5, <2>2, <2>3
<1>9. CASE op \in Adrs \cup Literals
  <2>1. TargetOf(i) = Unsigned(h, m, HighWords)
    BY <1>2, <1>3, <1>4, <1>9, ReferredFacts, Zenon DEF TargetOf
  <2> QED
    BY <1>3, <1>5, <1>6, <2>1
<1>10. CASE op = "adrp"
  <2>1. PageOf(h) \in Int
    BY <1>3, RelocationAssumption DEF PageOf
  <2>2. TargetOf(i) = Unsigned(PageOf(h), m, HighWords)
    BY <1>2, <1>3, <1>4, <1>10, ReferredFacts, Zenon DEF TargetOf
  <2> QED
    BY <1>5, <1>6, <2>1, <2>2
<1>11. op \in {"b", "bl"} \cup {"plain", "prfm"} \/ op \in Conditional
       \/ op \in Adrs \cup Literals \/ op = "adrp"
  BY <1>1, <1>4 DEF Ops
<1> QED
  BY <1>7, <1>8, <1>9, <1>10, <1>11

(***************************************************************************)
(* Room                                                                    *)
(***************************************************************************)
(* Places in the trampoline grow by eight words for an instruction, and by *)
(* nine only from a place one before a multiple of four to one.            *)
LEMMA SizeGrows ==
    ASSUME NEW a \in Nat, NEW s \in Nat, NEW n \in Nat, NEW c \in Nat,
           a - s <= 8 * n + (IF a % 4 = 0 THEN 1 ELSE 0),
           \/ c <= 7
           \/ c <= 9 /\ (a + c) % 4 = 0
    PROVE  a + c - s <= 8 * (n + 1) + (IF (a + c) % 4 = 0 THEN 1 ELSE 0)
<1>1. CASE c <= 7
  BY <1>1
<1>2. CASE c = 8 /\ (a + c) % 4 = 0
  BY <1>2
<1>3. CASE c = 9 /\ (a + c) % 4 = 0
  <2>1. a % 4 # 0
    BY <1>3
  <2> QED
    BY <1>3, <2>1
<1> QED
  BY <1>1, <1>2, <1>3

(***************************************************************************)
(* Writing one instruction                                                 *)
(***************************************************************************)
Record(pad, len, form, value) ==
    [from |-> o, pos |-> o + pad, len |-> len, form |-> form, value |-> value]

FollowsNow(pad, form, value, here) ==
    /\ pad = 0 /\ form = "offset" /\ here = o
    /\ IF RefOf(next) <= next
       THEN /\ value = (IF RefOf(next) = next THEN o ELSE dat[RefOf(next)]) - o
            /\ fmap' = fmap
       ELSE /\ value = 0
            /\ fmap' = [fmap EXCEPT ![RefOf(next)] = @ \cup {next}]

(* What each class of instructions does, whatever it is.                   *)
Shape(pad, len, form, value, here) ==
    /\ Emit(pad, len, form, value, here)
    /\ pad \in Nat /\ len \in Nat /\ form \in Forms /\ value \in Int /\ here \in Int
    /\ pad + len <= 7 \/ (pad + len <= 9 /\ (o + (pad + len)) % 4 = 0)
    /\ prog[next].op # "adrp" => here \in o .. o + pad
    /\ IF Inside(next) THEN FollowsNow(pad, form, value, here)
       ELSE fmap' = fmap /\ Alone(next, Record(pad, len, form, value))

(* What has been written afterwards.                                       *)
Learns(r, here) == [r EXCEPT !.value = here - r.pos]

EmittedAt(n, pad, len, form, value, here) ==
    /\ prog' = prog /\ start' = start
    /\ next' = n + 1 /\ o' = o + pad + len
    /\ dat' = [dat EXCEPT ![n] = here]
    /\ out'[n] = Record(pad, len, form, value)
    /\ \A j \in 0 .. MovedCount : j # n /\ j \in fmap[n] => out'[j] = Learns(out[j], here)
    /\ \A j \in 0 .. MovedCount : j # n /\ j \notin fmap[n] => out'[j] = out[j]

LEMMA EmitEffect ==
    ASSUME Types, Waiting, next < MovedCount, NEW pad, NEW len, NEW form, NEW value, NEW here,
           Emit(pad, len, form, value, here)
    PROVE  EmittedAt(next, pad, len, form, value, here)
<1>1. next \in Indices /\ next \in 0 .. MovedCount
  BY RelocationAssumption DEF Types, Indices
<1>2. next \notin fmap[next]
  <2>1. \A j \in fmap[next] : j < next
    BY <1>1, Zenon DEF Waiting
  <2>2. ~(next < next)
    BY <1>1
  <2> QED
    BY <2>1, <2>2, Zenon
<1>3. out' = Fixed([out EXCEPT ![next] = Record(pad, len, form, value)], fmap[next], here)
  BY Zenon DEF Emit, Record
<1>4. DOMAIN out = 0 .. MovedCount
  BY Zenon DEF Types
<1>6. out'[next] = Record(pad, len, form, value)
  BY <1>1, <1>2, <1>3, <1>4, Zenon DEF Fixed
<1>7. \A j \in 0 .. MovedCount : j # next /\ j \in fmap[next] => out'[j] = Learns(out[j], here)
  BY <1>1, <1>3, <1>4, Zenon DEF Fixed, Learns
<1>8. \A j \in 0 .. MovedCount : j # next /\ j \notin fmap[next] => out'[j] = out[j]
  BY <1>1, <1>3, <1>4, Zenon DEF Fixed
<1>9. prog' = prog /\ start' = start /\ next' = next + 1 /\ o' = o + pad + len
      /\ dat' = [dat EXCEPT ![next] = here]
  BY Zenon DEF Emit
<1> QED
  BY <1>6, <1>7, <1>8, <1>9, Zenon DEF EmittedAt

LEMMA InsideRef ==
    ASSUME Types, NEW i \in Indices, Inside(i)
    PROVE  RefOf(i) \in Indices
<1>1. PICK t : t = TargetOf(i) /\ t \in Base .. Base + MovedCount - 1
  BY Zenon DEF Inside, MovedRange
<1>2. t - Base \in 0 .. MovedCount - 1
  BY <1>1, RelocationAssumption
<1> QED
  BY <1>1, <1>2, Zenon DEF RefOf, Indices

(* The place of the reference that an instruction waits for.               *)
LEMMA FollowsNowFacts ==
    ASSUME Types, Waiting, next < MovedCount, Inside(next),
           NEW pad, NEW form, NEW value, NEW here, FollowsNow(pad, form, value, here)
    PROVE  /\ fmap' \in [Indices -> SUBSET Indices]
           /\ \A k \in Indices : fmap[k] \subseteq fmap'[k]
           /\ \A k \in Indices : \A j \in fmap'[k] :
                 j \in fmap[k] \/ (j = next /\ k = RefOf(next) /\ next < k)
           /\ RefOf(next) > next => next \in fmap'[RefOf(next)]
<1>1. PICK n \in Indices : n = next
  BY RelocationAssumption DEF Types, Indices
<1>2. PICK r \in Indices : r = RefOf(next)
  BY <1>1, InsideRef, Zenon
<1>3. n \in Nat /\ r \in Nat
  BY <1>1, <1>2 DEF Indices
<1>4. fmap \in [Indices -> SUBSET Indices]
  BY Zenon DEF Types
<1>5. CASE r <= n
  <2>1. fmap' = fmap
    BY <1>1, <1>2, <1>5, Zenon DEF FollowsNow
  <2>2. ~(r > n)
    BY <1>3, <1>5
  <2> QED
    BY <1>1, <1>2, <1>4, <2>1, <2>2, Zenon
<1>6. CASE ~(r <= n)
  <2>1. fmap' = [fmap EXCEPT ![r] = @ \cup {n}]
    BY <1>1, <1>2, <1>6, Zenon DEF FollowsNow
  <2>2. n < r
    BY <1>3, <1>6
  <2>3. fmap' \in [Indices -> SUBSET Indices]
    BY <1>1, <1>2, <1>4, <2>1
  <2>4. \A k \in Indices : fmap'[k] = IF k = r THEN fmap[r] \cup {n} ELSE fmap[k]
    BY <1>4, <2>1, Zenon
  <2>5. fmap'[r] = fmap[r] \cup {n}
    BY <1>2, <2>4, Zenon
  <2>6. \A k \in Indices : k # r => fmap'[k] = fmap[k]
    BY <2>4, Zenon
  <2>7. \A k \in Indices : fmap[k] \subseteq fmap'[k]
    BY <2>5, <2>6
  <2>8. \A k \in Indices : \A j \in fmap'[k] : j \in fmap[k] \/ (j = n /\ k = r /\ n < k)
    BY <2>2, <2>5, <2>6
  <2>9. n \in fmap'[r]
    BY <2>5
  <2> QED
    BY <1>1, <1>2, <2>3, <2>7, <2>8, <2>9, Zenon
<1> QED
  BY <1>5, <1>6

LEMMA ShapeFmap ==
    ASSUME Types, Waiting, next < MovedCount,
           NEW pad, NEW len, NEW form, NEW value, NEW here, Shape(pad, len, form, value, here)
    PROVE  /\ fmap' \in [Indices -> SUBSET Indices]
           /\ \A k \in Indices : fmap[k] \subseteq fmap'[k]
           /\ \A k \in Indices : \A j \in fmap'[k] :
                 j \in fmap[k] \/ (j = next /\ Inside(next) /\ k = RefOf(next) /\ next < k)
<1>1. CASE Inside(next)
  <2>1. FollowsNow(pad, form, value, here)
    BY <1>1, Zenon DEF Shape
  <2> QED
    BY <1>1, <2>1, FollowsNowFacts, Zenon
<1>2. CASE ~Inside(next)
  <2>1. fmap' = fmap
    BY <1>2, Zenon DEF Shape
  <2> QED
    BY <2>1, Zenon DEF Types
<1> QED
  BY <1>1, <1>2, Zenon

(* Nothing that was read off the instructions changes.                     *)
LEMMA ProgramStays ==
    ASSUME prog' = prog, NEW i
    PROVE  /\ TargetOf(i)' = TargetOf(i) /\ RefOf(i)' = RefOf(i)
           /\ Inside(i)' = Inside(i)
<1>1. TargetOf(i)' = TargetOf(i)
  BY Zenon DEF TargetOf
<1>2. RefOf(i)' = RefOf(i)
  BY <1>1, Zenon DEF RefOf
<1>3. Inside(i)' = Inside(i)
  BY <1>1, Zenon DEF Inside
<1> QED
  BY <1>1, <1>2, <1>3, Zenon

LEMMA WrittenNext ==
    ASSUME prog' = prog, NEW i,
           WrittenAs(i, out'[i], start', o', next', dat', fmap')
    PROVE  Written(i)'
<1> USE ProgramStays
<1>1. Inside(i) => Following(i, out[i], next, dat, fmap)'
  <2>1. Inside(i) => Following(i, out'[i], next', dat', fmap')
    BY Zenon DEF WrittenAs
  <2> QED
    BY <2>1, Zenon DEF Following
<1>2. ~Inside(i) => Alone(i, out[i])'
  <2>1. ~Inside(i) => Alone(i, out'[i])
    BY Zenon DEF WrittenAs
  <2> QED
    BY <2>1, ProgramStays, Zenon DEF Alone
<1>3. /\ start' <= out'[i].from /\ out'[i].from <= out'[i].pos /\ out'[i].pos <= o'
      /\ prog'[i].op # "adrp" => dat'[i] \in out'[i].from .. out'[i].pos
  BY Zenon DEF WrittenAs
<1> QED
  BY <1>1, <1>2, <1>3, Zenon DEF Written, WrittenAs

LEMMA NewOneWritten ==
    ASSUME Types, Waiting, next < MovedCount,
           NEW pad, NEW len, NEW form, NEW value, NEW here, Shape(pad, len, form, value, here),
           NEW n \in Indices, n = next
    PROVE  Written(n)'
<1>2. Emit(pad, len, form, value, here)
  BY Zenon DEF Shape
<1>3. /\ prog' = prog /\ start' = start /\ next' = n + 1 /\ o' = o + pad + len
      /\ dat' = [dat EXCEPT ![n] = here]
      /\ out'[n] = Record(pad, len, form, value)
  <2>1. EmittedAt(n, pad, len, form, value, here)
    BY <1>2, EmitEffect, Zenon
  <2> QED
    BY <2>1, Zenon DEF EmittedAt
<1>4. /\ pad \in Nat /\ len \in Nat
  BY Zenon DEF Shape
<1>5. o \in Nat /\ start \in Nat /\ start <= o
  BY Zenon DEF Types
<1>6. n \in Nat
  BY DEF Indices
<1>7. PICK w : w = Record(pad, len, form, value)
  OBVIOUS
<1>8. w.from = o /\ w.pos = o + pad /\ w.form = form /\ w.value = value
  BY <1>7, Zenon DEF Record
<1>9. start' <= w.from /\ w.from <= w.pos /\ w.pos <= o'
  BY <1>3, <1>4, <1>5, <1>8
<1>10. dat'[n] = here
  BY <1>3, Zenon DEF Types
<1>11. prog[n].op # "adrp" => dat'[n] \in w.from .. w.pos
  BY <1>8, <1>10, Zenon DEF Shape
<1>12. Inside(n) => Following(n, w, n + 1, dat', fmap')
  <2> SUFFICES ASSUME Inside(n)
               PROVE  Following(n, w, n + 1, dat', fmap')
    OBVIOUS
  <2>1. FollowsNow(pad, form, value, here)
    BY Zenon DEF Shape
  <2>2. PICK r \in Indices : r = RefOf(n)
    BY InsideRef, Zenon
  <2>3. /\ pad = 0 /\ form = "offset" /\ here = o
        /\ r <= n => value = (IF r = n THEN o ELSE dat[r]) - o
        /\ ~(r <= n) => value = 0
    BY <2>1, <2>2, Zenon DEF FollowsNow
  <2>4. r \in Nat
    BY DEF Indices
  <2>5. w.pos = o
    BY <1>5, <1>8, <2>3
  <2>6. r < n + 1 => w.value = dat'[r] - w.pos
    <3>1. CASE r = n
      <4>1. r <= n
        BY <1>6, <3>1
      <4> QED
        BY <1>8, <1>10, <2>3, <2>5, <3>1, <4>1, Zenon
    <3>2. CASE r # n
      <4>1. dat'[r] = dat[r]
        BY <1>3, <3>2, Zenon DEF Types
      <4>2. r < n + 1 => r <= n
        BY <1>6, <2>4
      <4> QED
        BY <1>8, <2>3, <2>5, <3>2, <4>1, <4>2, Zenon
    <3> QED
      BY <3>1, <3>2, Zenon
  <2>7. r >= n + 1 => w.value = 0 /\ n \in fmap'[r]
    <3>1. r >= n + 1 => ~(r <= n) /\ r > n
      BY <1>6, <2>4
    <3>2. r > n => n \in fmap'[r]
      BY <2>1, <2>2, FollowsNowFacts, Zenon
    <3> QED
      BY <1>8, <2>3, <3>1, <3>2, Zenon
  <2> QED
    BY <1>8, <2>2, <2>3, <2>6, <2>7, Zenon DEF Following
<1>13. ~Inside(n) => Alone(n, w)
  BY <1>7, Zenon DEF Shape
<1>14. WrittenAs(n, out'[n], start', o', next', dat', fmap')
  BY <1>3, <1>7, <1>9, <1>11, <1>12, <1>13, Zenon DEF WrittenAs
<1> QED
  BY <1>3, <1>14, WrittenNext, Zenon

LEMMA OldOnesWritten ==
    ASSUME Types, Waiting, next < MovedCount,
           NEW pad, NEW len, NEW form, NEW value, NEW here, Shape(pad, len, form, value, here),
           NEW i \in Indices, i < next, Written(i)
    PROVE  Written(i)'
<1>1. PICK n \in Indices : n = next
  BY RelocationAssumption DEF Types, Indices
<1>2. Emit(pad, len, form, value, here)
  BY Zenon DEF Shape
<1>3. /\ prog' = prog /\ start' = start /\ next' = n + 1 /\ o' = o + pad + len
      /\ dat' = [dat EXCEPT ![n] = here]
      /\ \A j \in 0 .. MovedCount : j # n /\ j \in fmap[n] => out'[j] = Learns(out[j], here)
      /\ \A j \in 0 .. MovedCount : j # n /\ j \notin fmap[n] => out'[j] = out[j]
  <2>1. EmittedAt(n, pad, len, form, value, here)
    BY <1>1, <1>2, EmitEffect, Zenon
  <2> QED
    BY <2>1, Zenon DEF EmittedAt
<1>4. pad \in Nat /\ len \in Nat
  BY Zenon DEF Shape
<1>5. o \in Nat
  BY Zenon DEF Types
<1>6. n \in Nat /\ i \in Nat /\ i # n /\ i \in 0 .. MovedCount
  BY <1>1, RelocationAssumption DEF Indices
<1>7. dat'[i] = dat[i] /\ dat'[n] = here
  BY <1>3, <1>6, Zenon DEF Types
<1>8. PICK r : r = out[i] /\ r \in Writings
  BY <1>6, Zenon DEF Types
<1>9. /\ start <= r.from /\ r.from <= r.pos /\ r.pos <= o
      /\ prog[i].op # "adrp" => dat[i] \in r.from .. r.pos
      /\ Inside(i) => Following(i, r, n, dat, fmap)
      /\ ~Inside(i) => Alone(i, r)
  BY <1>1, <1>8, Zenon DEF Written, WrittenAs
<1>10. r.pos <= o'
  <2>1. r.pos \in Int
    BY <1>8 DEF Writings
  <2> QED
    BY <1>3, <1>4, <1>5, <1>9, <2>1
<1>11. CASE i \in fmap[n]
  <2>1. Inside(i) /\ RefOf(i) = n
    BY <1>1, <1>11, Zenon DEF Waiting
  <2>2. PICK w : w = Learns(r, here)
    OBVIOUS
  <2>3. out'[i] = w
    BY <1>3, <1>6, <1>8, <1>11, <2>2, Zenon
  <2>4. w.from = r.from /\ w.pos = r.pos /\ w.form = r.form /\ w.value = here - r.pos
    BY <1>8, <2>2 DEF Writings, Learns
  <2>5. r.form = "offset"
    BY <1>9, <2>1, Zenon DEF Following
  <2>6. ~(n >= n + 1)
    BY <1>6
  <2>7. Following(i, w, n + 1, dat', fmap')
    BY <1>7, <2>1, <2>4, <2>5, <2>6, Zenon DEF Following
  <2>8. WrittenAs(i, out'[i], start', o', next', dat', fmap')
    BY <1>3, <1>7, <1>9, <1>10, <2>1, <2>3, <2>4, <2>7, Zenon DEF WrittenAs
  <2> QED
    BY <1>3, <2>8, WrittenNext, Zenon
<1>12. CASE i \notin fmap[n]
  <2>1. out'[i] = r
    BY <1>3, <1>6, <1>8, <1>12, Zenon
  <2>2. Inside(i) => Following(i, r, n + 1, dat', fmap')
    <3> SUFFICES ASSUME Inside(i)
                 PROVE  Following(i, r, n + 1, dat', fmap')
      OBVIOUS
    <3>1. PICK k \in Indices : k = RefOf(i)
      BY InsideRef, Zenon
    <3>2. /\ r.form = "offset"
          /\ k < n => r.value = dat[k] - r.pos
          /\ k >= n => r.value = 0 /\ i \in fmap[k]
      BY <1>9, <3>1, Zenon DEF Following
    <3>3. k \in Nat
      BY DEF Indices
    <3>4. k = n => k >= n
      BY <1>6, <3>3
    <3>5. k # n
      BY <1>12, <3>2, <3>4, Zenon
    <3>6. (k < n + 1 => k < n) /\ (k >= n + 1 => k >= n)
      BY <1>6, <3>3, <3>5
    <3>7. dat'[k] = dat[k]
      BY <1>3, <3>5, Zenon DEF Types
    <3>8. i \in fmap[k] => i \in fmap'[k]
      BY ShapeFmap, Zenon
    <3> QED
      BY <3>1, <3>2, <3>6, <3>7, <3>8, Zenon DEF Following
  <2>3. WrittenAs(i, out'[i], start', o', next', dat', fmap')
    BY <1>3, <1>7, <1>9, <1>10, <2>1, <2>2, Zenon DEF WrittenAs
  <2> QED
    BY <1>3, <2>3, WrittenNext, Zenon
<1> QED
  BY <1>11, <1>12, Zenon

LEMMA FixedType ==
    ASSUME NEW f \in [0 .. MovedCount -> Writings], NEW waiting, NEW here \in Int
    PROVE  Fixed(f, waiting, here) \in [0 .. MovedCount -> Writings]
<1>1. \A r \in Writings : Learns(r, here) \in Writings
  <2> TAKE r \in Writings
  <2>1. r.pos \in Int
    BY DEF Writings
  <2>2. PICK v \in Int : v = here - r.pos
    BY <2>1
  <2> QED
    BY <2>2, Zenon DEF Writings, Learns
<1>2. \A i \in 0 .. MovedCount : f[i] \in Writings
  OBVIOUS
<1> QED
  BY <1>1, <1>2, Zenon DEF Fixed, Learns

LEMMA TypesKept ==
    ASSUME Types, Waiting, next < MovedCount,
           NEW pad, NEW len, NEW form, NEW value, NEW here, Shape(pad, len, form, value, here)
    PROVE  Types'
<1>1. PICK n \in Indices : n = next
  BY RelocationAssumption DEF Types, Indices
<1>2. EmittedAt(n, pad, len, form, value, here)
  BY <1>1, EmitEffect, Zenon DEF Shape
<1>3. /\ prog' = prog /\ start' = start /\ next' = n + 1 /\ o' = o + pad + len
      /\ dat' = [dat EXCEPT ![n] = here]
  BY <1>2, Zenon DEF EmittedAt
<1>4. pad \in Nat /\ len \in Nat /\ form \in Forms /\ value \in Int /\ here \in Int
  BY Zenon DEF Shape
<1>5. /\ start \in Nat /\ o \in Nat /\ start <= o
      /\ dat \in [Indices -> Int] /\ prog \in [Indices -> Instructions]
      /\ \A i \in Indices : Encodable(i, prog[i])
      /\ out \in [0 .. MovedCount -> Writings]
  BY Zenon DEF Types
<1>6. start' \in Nat /\ o' \in Nat /\ start' <= o' /\ next' \in 0 .. MovedCount + 1
  <2>1. o + pad + len \in Nat /\ start <= o + pad + len
    BY <1>4, <1>5
  <2>2. n + 1 \in 0 .. MovedCount + 1
    BY RelocationAssumption DEF Indices
  <2> QED
    BY <1>3, <1>5, <2>1, <2>2, Zenon
<1>7. dat' \in [Indices -> Int]
  BY <1>1, <1>3, <1>4, <1>5
<1>8. Record(pad, len, form, value) \in Writings
  BY <1>4, <1>5 DEF Record, Writings
<1>9. [out EXCEPT ![n] = Record(pad, len, form, value)] \in [0 .. MovedCount -> Writings]
  BY <1>5, <1>8
<1>10. out' = Fixed([out EXCEPT ![next] = Record(pad, len, form, value)], fmap[next], here)
  BY Zenon DEF Shape, Emit, Record
<1>11. out' \in [0 .. MovedCount -> Writings]
  BY <1>1, <1>4, <1>9, <1>10, FixedType, Zenon
<1>12. fmap' \in [Indices -> SUBSET Indices]
  BY ShapeFmap, Zenon
<1>13. \A i \in Indices : Encodable(i, prog'[i])
  BY <1>3, <1>5, Zenon
<1> QED
  BY <1>3, <1>5, <1>6, <1>7, <1>11, <1>12, <1>13, Zenon DEF Types

LEMMA WaitingKept ==
    ASSUME Types, Waiting, next < MovedCount,
           NEW pad, NEW len, NEW form, NEW value, NEW here, Shape(pad, len, form, value, here)
    PROVE  Waiting'
<1>1. PICK n \in Indices : n = next
  BY RelocationAssumption DEF Types, Indices
<1>2. EmittedAt(n, pad, len, form, value, here)
  BY <1>1, EmitEffect, Zenon DEF Shape
<1>3. prog' = prog /\ next' = n + 1
  BY <1>2, Zenon DEF EmittedAt
<1>4. \A k \in Indices : \A j \in fmap'[k] :
          j \in fmap[k] \/ (j = n /\ Inside(n) /\ k = RefOf(n) /\ n < k)
  BY <1>1, ShapeFmap, Zenon
<1>5. \A j \in Indices : j < n => j < n + 1
  BY DEF Indices
<1>6. n < n + 1
  BY DEF Indices
<1>7. \A k \in Indices : fmap[k] \subseteq Indices
  BY DEF Types
<1>8. ASSUME NEW k \in Indices, NEW j \in fmap'[k]
      PROVE  j < next' /\ j < k /\ Inside(j)' /\ RefOf(j)' = k
  <2>1. CASE j \in fmap[k]
    <3>1. j < n /\ j < k /\ Inside(j) /\ RefOf(j) = k
      BY <1>1, <2>1, Zenon DEF Waiting
    <3>2. j < n + 1
      BY <1>5, <1>7, <2>1, <3>1, Zenon
    <3> QED
      BY <1>3, <3>1, <3>2, ProgramStays, Zenon
  <2>2. CASE j = n /\ Inside(n) /\ k = RefOf(n) /\ n < k
    BY <1>3, <1>6, <2>2, ProgramStays, Zenon
  <2> QED
    BY <1>4, <2>1, <2>2, Zenon
<1> QED
  BY <1>8, Zenon DEF Waiting

LEMMA SizeKept ==
    ASSUME Types, Waiting, Size, next < MovedCount,
           NEW pad, NEW len, NEW form, NEW value, NEW here, Shape(pad, len, form, value, here)
    PROVE  Size' /\ Ended'
<1>1. PICK n \in Indices : n = next
  BY RelocationAssumption DEF Types, Indices
<1>2. EmittedAt(n, pad, len, form, value, here)
  BY <1>1, EmitEffect, Zenon DEF Shape
<1>3. start' = start /\ next' = n + 1 /\ o' = o + pad + len
  BY <1>2, Zenon DEF EmittedAt
<1>4. pad \in Nat /\ len \in Nat
  BY Zenon DEF Shape
<1>5. start \in Nat /\ o \in Nat
  BY Zenon DEF Types
<1>6. pad + len <= 7 \/ (pad + len <= 9 /\ (o + (pad + len)) % 4 = 0)
  BY Zenon DEF Shape
<1>7. /\ n \in Nat /\ n < MovedCount /\ MovedCount \in Nat
      /\ n + 1 <= MovedCount /\ n + 1 # MovedCount + 1 /\ n <= MovedCount
  BY RelocationAssumption DEF Indices
<1>8. o - start <= 8 * n + (IF o % 4 = 0 THEN 1 ELSE 0)
  BY <1>1, <1>7, Zenon DEF Size
<1>9. PICK c \in Nat : c = pad + len
  BY <1>4
<1>10. o + c - start <= 8 * (n + 1) + (IF (o + c) % 4 = 0 THEN 1 ELSE 0)
  BY <1>5, <1>6, <1>7, <1>8, <1>9, SizeGrows
<1>11. o' = o + c
  BY <1>3, <1>4, <1>5, <1>9
<1>12. Size'
  <2>1. next' <= MovedCount
    BY <1>3, <1>7, Zenon
  <2>2. start' = start /\ next' = n + 1
    BY <1>3, Zenon
  <2>3. o' - start' <= 8 * next' + (IF o' % 4 = 0 THEN 1 ELSE 0)
    BY <1>5, <1>7, <1>9, <1>10, <1>11, <2>2
  <2> QED
    BY <2>1, <2>3, Zenon DEF Size
<1>13. ~Done'
  BY <1>3, <1>7, Zenon DEF Done
<1> QED
  BY <1>12, <1>13, Zenon DEF Ended

LEMMA ShapeKeepsInv ==
    ASSUME RelocationInv, next < MovedCount,
           NEW pad, NEW len, NEW form, NEW value, NEW here, Shape(pad, len, form, value, here)
    PROVE  RelocationInv'
<1> USE DEF RelocationInv
<1>1. PICK n \in Indices : n = next
  BY RelocationAssumption DEF Types, Indices
<1>2. EmittedAt(n, pad, len, form, value, here)
  BY <1>1, EmitEffect, Zenon DEF Shape
<1>3. next' = n + 1
  BY <1>2, Zenon DEF EmittedAt
<1>4. \A i \in Indices : i < n + 1 => i < n \/ i = n
  BY DEF Indices
<1>5. ASSUME NEW i \in Indices, i < next'
      PROVE  Written(i)'
  <2>1. CASE i < n
    BY <1>1, <2>1, OldOnesWritten, Zenon
  <2>2. CASE i = n
    BY <1>1, <2>2, NewOneWritten, Zenon
  <2> QED
    BY <1>3, <1>4, <1>5, <2>1, <2>2, Zenon
<1> QED
  BY <1>5, TypesKept, WaitingKept, SizeKept, Zenon

(***************************************************************************)
(* The classes of instructions                                             *)
(***************************************************************************)
Shaped == \E pad, len, form, value, here : Shape(pad, len, form, value, here)

LEMMA AloneOffset ==
    ASSUME NEW i, NEW pad, NEW form \in {"offset", "spilled"}, NEW value,
           (o + pad) + value = TargetOf(i),
           value \in -LimitOf(prog[i].op) .. LimitOf(prog[i].op) - 1,
           form = "spilled" => prog[i].op \in Literals \cup Adrs
    PROVE  Alone(i, Record(pad, 1, form, value))
<1>1. PICK w : w = Record(pad, 1, form, value)
  OBVIOUS
<1>2. w.pos = o + pad /\ w.form = form /\ w.value = value
  BY <1>1, Zenon DEF Record
<1>3. MeantBy(w) = TargetOf(i)
  BY <1>2, Zenon DEF MeantBy
<1>4. w.form # "address" /\ w.form # "copy" /\ w.form # "page"
  BY <1>2
<1> QED
  BY <1>1, <1>2, <1>3, <1>4, Zenon DEF Alone

LEMMA AloneAddress ==
    ASSUME NEW i, NEW pad, NEW len, (o + pad + len - 2) % 2 = 0
    PROVE  Alone(i, Record(pad, len, "address", TargetOf(i)))
<1>1. PICK w : w = Record(pad, len, "address", TargetOf(i))
  OBVIOUS
<1>2. /\ w.pos = o + pad /\ w.len = len /\ w.form = "address" /\ w.value = TargetOf(i)
  BY <1>1, Zenon DEF Record
<1>3. w.form \notin {"offset", "spilled", "page", "copy"}
  BY <1>2
<1>4. MeantBy(w) = TargetOf(i)
  BY <1>2, <1>3, Zenon DEF MeantBy
<1> QED
  BY <1>1, <1>2, <1>3, <1>4, Zenon DEF Alone

LEMMA AloneCopy ==
    ASSUME NEW i, NEW pad, NEW len, prog[i].op \in Literals,
           (o + pad + len - LiteralWords(prog[i].op)) % LiteralWords(prog[i].op) = 0
    PROVE  Alone(i, Record(pad, len, "copy", TargetOf(i)))
<1>1. PICK w : w = Record(pad, len, "copy", TargetOf(i))
  OBVIOUS
<1>2. /\ w.pos = o + pad /\ w.len = len /\ w.form = "copy" /\ w.value = TargetOf(i)
  BY <1>1, Zenon DEF Record
<1>3. w.form \notin {"offset", "spilled", "page", "address"}
  BY <1>2
<1>4. MeantBy(w) = TargetOf(i)
  BY <1>2, <1>3, Zenon DEF MeantBy
<1> QED
  BY <1>1, <1>2, <1>3, <1>4, Zenon DEF Alone

(* A target not among the moved instructions.                              *)
LEMMA ShapedAlone ==
    ASSUME ~Inside(next), fmap' = fmap,
           NEW pad \in Nat, NEW len \in Nat, NEW form \in Forms, NEW value \in Int,
           NEW here \in Int, Emit(pad, len, form, value, here),
           pad + len <= 7 \/ (pad + len <= 9 /\ (o + (pad + len)) % 4 = 0),
           prog[next].op # "adrp" => here \in o .. o + pad,
           Alone(next, Record(pad, len, form, value))
    PROVE  Shaped
<1>1. Shape(pad, len, form, value, here)
  BY Zenon DEF Shape
<1> QED
  BY <1>1, Zenon DEF Shaped

(* A target among them.                                                    *)
LEMMA ShapedInside ==
    ASSUME Types, next < MovedCount, Follows(prog[next].op), TargetOf(next) \in MovedRange,
           FollowInside(TargetOf(next))
    PROVE  Shaped
<1>1. PICK n \in Indices : n = next
  BY RelocationAssumption DEF Types, Indices
<1>2. Inside(n)
  BY <1>1, Zenon DEF Inside
<1>3. PICK r \in Indices : r = RefOf(n)
  BY <1>1, <1>2, InsideRef, Zenon
<1>4. o \in Nat /\ dat[r] \in Int
  BY Zenon DEF Types
<1>5. "offset" \in Forms
  BY DEF Forms
<1>6. 0 + 1 <= 7 /\ o \in o .. o + 0 /\ 0 \in Nat /\ 1 \in Nat /\ o \in Int /\ 0 \in Int
  BY <1>4
<1>7. ASSUME NEW v \in Int, Emit(0, 1, "offset", v, o), FollowsNow(0, "offset", v, o)
      PROVE  Shaped
  <2>1. Shape(0, 1, "offset", v, o)
    BY <1>1, <1>2, <1>5, <1>6, <1>7, Zenon DEF Shape
  <2> QED
    BY <2>1, Zenon DEF Shaped
<1>8. CASE r <= n
  <2>1. PICK v \in Int : v = (IF r = n THEN o ELSE dat[r]) - o
    BY <1>4
  <2>2. Emit(0, 1, "offset", v, o) /\ fmap' = fmap
    BY <1>1, <1>3, <1>8, <2>1, Zenon DEF FollowInside, HasMoved, RefOf
  <2>3. FollowsNow(0, "offset", v, o)
    BY <1>1, <1>3, <1>8, <2>1, <2>2, Zenon DEF FollowsNow
  <2> QED
    BY <1>7, <2>2, <2>3, Zenon
<1>9. CASE ~(r <= n)
  <2>1. Emit(0, 1, "offset", 0, o) /\ fmap' = [fmap EXCEPT ![r] = @ \cup {n}]
    BY <1>1, <1>3, <1>9, Zenon DEF FollowInside, HasMoved, RefOf
  <2>2. FollowsNow(0, "offset", 0, o)
    BY <1>1, <1>3, <1>9, <2>1, Zenon DEF FollowsNow
  <2> QED
    BY <1>6, <1>7, <2>1, <2>2, Zenon
<1> QED
  BY <1>8, <1>9

LEMMA BranchShaped ==
    ASSUME Types, next < MovedCount, FixBranch(prog[next])
    PROVE  Shaped
<1>1. PICK n \in Indices : n = next
  BY RelocationAssumption DEF Types, Indices
<1>2. prog[n] \in [op : Ops, to : Nat]
  BY RelocationAssumption DEF Types
<1>3. PICK t \in Nat : t = prog[n].to
  BY <1>2
<1>4. prog[n].op \in {"b", "bl"}
  BY <1>1, Zenon DEF FixBranch
<1>5. prog[n].op # "adrp"
  BY <1>4
<1>6. TargetOf(n) = t /\ Referred(next, prog[next]) = t
  BY <1>1, <1>3, <1>4, ReferredFacts, Zenon DEF TargetOf
<1>7. Follows(prog[n].op)
  BY <1>4 DEF Follows
<1>8. CASE t \in MovedRange
  <2>1. FollowInside(t)
    BY <1>1, <1>6, <1>8, Zenon DEF FixBranch
  <2> QED
    BY <1>1, <1>6, <1>7, <1>8, <2>1, ShapedInside, Zenon
<1>9. CASE t \notin MovedRange
  <2>1. ~Inside(next)
    BY <1>1, <1>6, <1>9, Zenon DEF Inside
  <2>2. fmap' = fmap
    BY <1>1, <1>6, <1>9, Zenon DEF FixBranch
  <2>3. o \in Nat /\ WideLimit \in Nat
    BY RelocationAssumption, Zenon DEF Types
  <2>4. CASE Abs(t - o) >= WideRange
    <3>1. PICK p : p = PadBranch(prog[n].op)
      OBVIOUS
    <3>2. PICK len : len = IF prog[n].op = "b" THEN 4 ELSE 5
      OBVIOUS
    <3>3. Emit(p, len, "address", t, o + p)
      BY <1>1, <1>6, <1>9, <2>4, <3>1, <3>2, Zenon DEF FixBranch
    <3>4. p \in 0 .. 1 /\ len \in {4, 5} /\ (o + p + len - 2) % 2 = 0
      <4>1. CASE prog[n].op = "b"
        <5>1. p = (-(o + 2)) % 2 /\ len = 4
          BY <3>1, <3>2, <4>1 DEF PadBranch, Pad
        <5> QED
          BY <2>3, <5>1
      <4>2. CASE prog[n].op # "b"
        <5>1. p = (-(o + 3)) % 2 /\ len = 5
          BY <3>1, <3>2, <4>2 DEF PadBranch, Pad
        <5> QED
          BY <2>3, <5>1
      <4> QED
        BY <4>1, <4>2
    <3>5. Alone(next, Record(p, len, "address", t))
      BY <1>1, <1>6, <3>4, AloneAddress, Zenon
    <3>6. /\ p \in Nat /\ len \in Nat /\ o + p \in Int /\ o + p \in o .. o + p
          /\ t \in Int /\ p + len <= 7
      BY <2>3, <3>4
    <3>7. "address" \in Forms
      BY DEF Forms
    <3> QED
      BY <2>1, <2>2, <3>3, <3>5, <3>6, <3>7, ShapedAlone, Zenon
  <2>5. CASE ~(Abs(t - o) >= WideRange)
    <3>1. PICK v \in Int : v = t - o
      BY <2>3
    <3>2. Emit(0, 1, "offset", v, o)
      BY <1>1, <1>6, <1>9, <2>5, <3>1, Zenon DEF FixBranch
    <3>3. v \in -WideLimit .. WideLimit - 1 /\ (o + 0) + v = t
      BY <2>3, <2>5, <3>1 DEF Abs, WideRange
    <3>4. LimitOf(prog[n].op) = WideLimit
      BY <1>4, LimitFacts, Zenon
    <3>5. "offset" \in {"offset", "spilled"} /\ "offset" # "spilled" /\ "offset" \in Forms
      BY DEF Forms
    <3>6. Alone(n, Record(0, 1, "offset", v))
      BY <1>6, <3>3, <3>4, <3>5, AloneOffset, Zenon
    <3>7. 0 + 1 <= 7 /\ o \in o .. o + 0 /\ 0 \in Nat /\ 1 \in Nat /\ o \in Int
      BY <2>3
    <3> QED
      BY <1>1, <2>1, <2>2, <3>2, <3>5, <3>6, <3>7, ShapedAlone, Zenon
  <2> QED
    BY <2>4, <2>5
<1> QED
  BY <1>8, <1>9

LEMMA CondBranchShaped ==
    ASSUME Types, next < MovedCount, FixCondBranch(prog[next])
    PROVE  Shaped
<1>1. PICK n \in Indices : n = next
  BY RelocationAssumption DEF Types, Indices
<1>2. PICK l \in Nat \ {0} : l = LimitOf(prog[n].op)
  BY LimitFacts
<1>3. o \in Nat
  BY Zenon DEF Types
<1>4. prog[n].op \in Conditional
  BY <1>1, Zenon DEF FixCondBranch
<1>5. prog[n].op # "adrp" /\ Follows(prog[n].op)
  BY <1>4 DEF Conditional, Follows
<1>6. PICK t \in Int : t = TargetOf(n)
  BY TargetIsAddress, Zenon
<1>7. Referred(next, prog[next]) = t
  BY <1>1, <1>6, Zenon DEF TargetOf
<1>10. CASE t \in MovedRange
  <2>1. FollowInside(t)
    BY <1>1, <1>7, <1>10, Zenon DEF FixCondBranch
  <2> QED
    BY <1>1, <1>5, <1>6, <1>10, <2>1, ShapedInside, Zenon
<1>11. CASE t \notin MovedRange
  <2>1. ~Inside(next)
    BY <1>1, <1>6, <1>11, Zenon DEF Inside
  <2>2. fmap' = fmap
    BY <1>1, <1>7, <1>11, Zenon DEF FixCondBranch
  <2>3. CASE Abs(t - o) >= l - 1
    <3>1. PICK p : p = (-(o + 4)) % 2
      OBVIOUS
    <3>2. Emit(p, 6, "address", t, o)
      BY <1>1, <1>2, <1>7, <1>11, <2>3, <3>1, Zenon DEF FixCondBranch, Pad
    <3>3. p \in 0 .. 1 /\ (o + p + 6 - 2) % 2 = 0
      BY <1>3, <3>1
    <3>4. Alone(next, Record(p, 6, "address", t))
      BY <1>1, <1>6, <3>3, AloneAddress, Zenon
    <3>5. /\ p \in Nat /\ 6 \in Nat /\ o \in Int /\ o \in o .. o + p /\ p + 6 <= 7
      BY <1>3, <3>3
    <3>6. "address" \in Forms
      BY DEF Forms
    <3> QED
      BY <1>6, <2>1, <2>2, <3>2, <3>4, <3>5, <3>6, ShapedAlone, Zenon
  <2>4. CASE ~(Abs(t - o) >= l - 1)
    <3>1. PICK v \in Int : v = t - o
      BY <1>3, <1>6
    <3>2. Emit(0, 1, "offset", v, o)
      BY <1>1, <1>2, <1>7, <1>11, <2>4, <3>1, Zenon DEF FixCondBranch
    <3>3. v \in -l .. l - 1 /\ (o + 0) + v = t
      BY <1>2, <1>3, <1>6, <2>4, <3>1 DEF Abs
    <3>5. "offset" \in {"offset", "spilled"} /\ "offset" # "spilled" /\ "offset" \in Forms
      BY DEF Forms
    <3>6. Alone(n, Record(0, 1, "offset", v))
      BY <1>2, <1>6, <3>3, <3>5, AloneOffset, Zenon
    <3>7. 0 + 1 <= 7 /\ o \in o .. o + 0 /\ 0 \in Nat /\ 1 \in Nat /\ o \in Int
      BY <1>3
    <3> QED
      BY <1>1, <2>1, <2>2, <3>2, <3>5, <3>6, <3>7, ShapedAlone, Zenon
  <2> QED
    BY <2>3, <2>4
<1> QED
  BY <1>10, <1>11

LEMMA AdrShaped ==
    ASSUME Types, next < MovedCount, FixAdr(prog[next])
    PROVE  Shaped
<1>1. PICK n \in Indices : n = next
  BY RelocationAssumption DEF Types, Indices
<1>2. LimitOf(prog[n].op) = NarrowLimit
  BY <1>1, LimitFacts, Zenon DEF FixAdr
<1>3. PICK t \in Int : t = TargetOf(n)
  BY TargetIsAddress, Zenon
<1>4. prog[n].op \in Adrs
  BY <1>1, Zenon DEF FixAdr
<1>5. prog[n].op # "adrp" /\ Follows(prog[n].op)
  BY <1>4 DEF Adrs, Follows
<1>6. Referred(next, prog[next]) = t
  BY <1>1, <1>3, Zenon DEF TargetOf
<1>7. PICK low \in 0 .. 3 : low = LowBits(prog[n].op)
  BY DEF LowBits
<1>8. CASE t \in MovedRange
  <2>1. FollowInside(t)
    BY <1>1, <1>6, <1>8, Zenon DEF FixAdr
  <2> QED
    BY <1>1, <1>3, <1>5, <1>8, <2>1, ShapedInside, Zenon
<1>9. CASE t \notin MovedRange
  <2>1. ~Inside(next)
    BY <1>1, <1>3, <1>9, Zenon DEF Inside
  <2>2. fmap' = fmap
    BY <1>1, <1>6, <1>9, Zenon DEF FixAdr
  <2>3. o \in Nat /\ NarrowLimit \in Nat
    BY RelocationAssumption, Zenon DEF Types
  <2>4. CASE ~AdrInReach(prog[n].op, t)
    <3>1. PICK p : p = (-(o + 2)) % 2
      OBVIOUS
    <3>2. Emit(p, 4, "address", t, o + p)
      BY <1>1, <1>6, <1>9, <2>4, <3>1, Zenon DEF FixAdr, Pad
    <3>3. p \in 0 .. 1 /\ (o + p + 4 - 2) % 2 = 0
      BY <2>3, <3>1
    <3>4. Alone(next, Record(p, 4, "address", t))
      BY <1>1, <1>3, <3>3, AloneAddress, Zenon
    <3>5. /\ p \in Nat /\ 4 \in Nat /\ o + p \in Int /\ o + p \in o .. o + p
          /\ t \in Int /\ p + 4 <= 7
      BY <2>3, <3>3
    <3>6. "address" \in Forms
      BY DEF Forms
    <3> QED
      BY <2>1, <2>2, <3>2, <3>4, <3>5, <3>6, ShapedAlone, Zenon
  <2>5. CASE AdrInReach(prog[n].op, t)
    <3>1. PICK v \in Int : v = t - o
      BY <2>3
    <3>2. PICK form : form = IF LowBits(prog[n].op) = 0 THEN "offset" ELSE "spilled"
      OBVIOUS
    <3>3. v \in -NarrowLimit .. NarrowLimit - 1 /\ (o + 0) + v = t
      <4>1. Abs(4 * v + low) < 4 * NarrowLimit - 1
        BY <1>7, <2>5, <3>1, Zenon DEF AdrInReach
      <4> QED
        BY <1>7, <2>3, <3>1, <4>1 DEF Abs
    <3>4. Emit(0, 1, form, v, o)
      BY <1>1, <1>6, <1>9, <2>5, <3>1, <3>2, Zenon DEF FixAdr
    <3>5. form \in {"offset", "spilled"} /\ form \in Forms
      BY <3>2 DEF Forms
    <3>6. Alone(n, Record(0, 1, form, v))
      <4>1. prog[n].op \in Literals \cup Adrs
        BY <1>4
      <4> QED
        BY <1>2, <1>3, <3>3, <3>5, <4>1, AloneOffset, Zenon
    <3>7. 0 + 1 <= 7 /\ o \in o .. o + 0 /\ 0 \in Nat /\ 1 \in Nat /\ o \in Int
      BY <2>3
    <3> QED
      BY <1>1, <2>1, <2>2, <3>4, <3>5, <3>6, <3>7, ShapedAlone, Zenon
  <2> QED
    BY <2>4, <2>5
<1> QED
  BY <1>8, <1>9

LEMMA AdrpShaped ==
    ASSUME Types, next < MovedCount, FixAdrp(prog[next])
    PROVE  Shaped
<1>1. PICK n \in Indices : n = next
  BY RelocationAssumption DEF Types, Indices
<1>2. prog[n] \in [op : Ops, to : Nat]
  BY RelocationAssumption DEF Types
<1>3. PICK t \in Int : t = TargetOf(n)
  BY TargetIsAddress, Zenon
<1>4. prog[n].op = "adrp"
  BY <1>1, Zenon DEF FixAdrp
<1>5. ~Follows(prog[n].op)
  BY <1>4 DEF Follows, Conditional, Adrs
<1>6. Referred(next, prog[next]) = t
  BY <1>1, <1>3, Zenon DEF TargetOf
<1>7. ~Inside(next) /\ fmap' = fmap
  BY <1>1, <1>5, Zenon DEF Inside, FixAdrp
<1>8. o \in Nat /\ Alias \in Nat /\ Base \in Nat /\ n \in Nat /\ PageWords \in Nat \ {0}
  BY RelocationAssumption DEF Types, Indices
<1>9. CASE t \in MovedRange
  <2>1. PICK v : v = prog[n].to - PageOf(Base + n)
    OBVIOUS
  <2>2. Emit(0, 1, "page", v, o + Alias)
    BY <1>1, <1>6, <1>9, <2>1, Zenon DEF FixAdrp
  <2>3. v \in Int
    <3>1. PICK m \in Nat : m = prog[n].to
      BY <1>2
    <3> QED
      BY <1>8, <2>1, <3>1 DEF PageOf
  <2>4. PICK w : w = Record(0, 1, "page", v)
    OBVIOUS
  <2>5. w.form = "page"
    BY <2>4, Zenon DEF Record
  <2>6. w.form \notin {"offset", "spilled", "address", "copy"}
    BY <2>5
  <2>8. Alone(n, w)
    BY <1>3, <1>4, <1>9, <2>5, <2>6, Zenon DEF Alone
  <2>9. 0 + 1 <= 7 /\ o + Alias \in Int /\ 0 \in Nat /\ 1 \in Nat
    BY <1>8
  <2>10. "page" \in Forms
    BY DEF Forms
  <2> QED
    BY <1>1, <1>4, <1>7, <2>2, <2>3, <2>4, <2>8, <2>9, <2>10, ShapedAlone, Zenon
<1>10. CASE t \notin MovedRange
  <2>1. PICK p : p = (-(o + 2)) % 2
    OBVIOUS
  <2>2. PICK here : here = IF p = 0 THEN o + Alias ELSE o + p
    OBVIOUS
  <2>3. Emit(p, 4, "address", t, here)
    BY <1>1, <1>6, <1>10, <2>1, <2>2, Zenon DEF FixAdrp, Pad
  <2>4. p \in 0 .. 1 /\ (o + p + 4 - 2) % 2 = 0
    BY <1>8, <2>1
  <2>5. Alone(n, Record(p, 4, "address", t))
    BY <1>3, <2>4, AloneAddress, Zenon
  <2>6. p \in Nat /\ 4 \in Nat /\ here \in Int /\ t \in Int /\ p + 4 <= 7
    BY <1>8, <2>2, <2>4
  <2>7. "address" \in Forms
    BY DEF Forms
  <2> QED
    BY <1>1, <1>4, <1>7, <2>3, <2>5, <2>6, <2>7, ShapedAlone, Zenon
<1> QED
  BY <1>9, <1>10

LEMMA PlainShaped ==
    ASSUME Types, next < MovedCount, NEW len \in {0, 1},
           prog[next].op \in {"plain", "prfm"},
           Emit(0, len, "none", 0, o), fmap' = fmap
    PROVE  Shaped
<1>1. ~Follows(prog[next].op)
  BY DEF Follows, Conditional, Adrs
<1>2. PICK w : w = Record(0, len, "none", 0)
  OBVIOUS
<1>3. w.form = "none"
  BY <1>2, Zenon DEF Record
<1>4. w.form \notin {"offset", "spilled", "address", "copy", "page"}
  BY <1>3
<1>5. Alone(next, w)
  BY <1>4, Zenon DEF Alone
<1>6. o \in Nat
  BY Zenon DEF Types
<1>7. /\ 0 + len <= 7 /\ o \in o .. o + 0 /\ 0 \in Nat /\ len \in Nat /\ o \in Int /\ 0 \in Int
  BY <1>6
<1>8. "none" \in Forms
  BY DEF Forms
<1>9. ~Inside(next)
  BY <1>1, Zenon DEF Inside
<1> QED
  BY <1>2, <1>5, <1>7, <1>8, <1>9, ShapedAlone, Zenon

(* Copies end on a boundary of their size, nine words on at the most.      *)
LEMMA CopyPad ==
    ASSUME NEW a \in Nat, NEW w \in {1, 2, 4}, NEW p, p = (-(a + 2)) % w
    PROVE  /\ p \in 0 .. 3
           /\ (a + p + (2 + w) - w) % w = 0
           /\ p + (2 + w) <= 7 \/ (p + (2 + w) <= 9 /\ (a + (p + (2 + w))) % 4 = 0)
<1>1. CASE w = 1
  BY <1>1
<1>2. CASE w = 2
  BY <1>2
<1>3. CASE w = 4
  <2>1. p \in 0 .. 3 /\ (a + p + 2) % 4 = 0
    BY <1>3
  <2>2. (a + p + 6 - 4) % 4 = 0 /\ (a + (p + 6)) % 4 = 0
    BY <2>1
  <2> QED
    BY <1>3, <2>1, <2>2
<1> QED
  BY <1>1, <1>2, <1>3

LEMMA NearPad ==
    ASSUME NEW d \in Int, NEW w \in {1, 2, 4}
    PROVE  d % w \in 0 .. w - 1
<1>1. CASE w = 1
  BY <1>1
<1>2. CASE w = 2
  BY <1>2
<1>3. CASE w = 4
  BY <1>3
<1> QED
  BY <1>1, <1>2, <1>3

LEMMA LoadShaped ==
    ASSUME Types, next < MovedCount, FixLoad(prog[next])
    PROVE  Shaped
<1>1. PICK n \in Indices : n = next
  BY RelocationAssumption DEF Types, Indices
<1>2. PICK t \in Int : t = TargetOf(n)
  BY TargetIsAddress, Zenon
<1>3. Referred(next, prog[next]) = t
  BY <1>1, <1>2, Zenon DEF TargetOf
<1>4. fmap' = fmap
  BY Zenon DEF FixLoad
<1>5. CASE prog[n].op = "prfm" /\ Emit(0, 0, "none", 0, o)
  <2>1. prog[next].op \in {"plain", "prfm"} /\ 0 \in {0, 1}
    BY <1>1, <1>5
  <2> QED
    BY <1>4, <1>5, <2>1, PlainShaped, Zenon
<1>6. CASE prog[n].op \in Literals
  <2>1. prog[n].op # "adrp" /\ prog[n].op # "prfm" /\ ~Follows(prog[n].op)
    BY <1>6 DEF Literals, Follows, Conditional, Adrs
  <2>3. ~Inside(next)
    BY <1>1, <2>1, Zenon DEF Inside
  <2>4. PICK w \in {1, 2, 4} : w = LiteralWords(prog[n].op)
    BY <1>6 DEF Literals, LiteralWords
  <2>5. o \in Nat /\ NarrowLimit \in Nat
    BY RelocationAssumption, Zenon DEF Types
  <2> DEFINE far == t \in MovedRange \/ Abs(t - o) + w - 1 >= NarrowLimit - 1
  <2>6. /\ far => Emit(Pad(2, w), 2 + CopiedWords(w), "copy", t, o + Pad(2, w))
        /\ ~far => Emit((t - o) % w, 1, NearForm(prog[n].op, t - o - ((t - o) % w)),
                        t - o - ((t - o) % w), o + ((t - o) % w))
    BY <1>1, <1>3, <2>1, <2>4, Zenon DEF FixLoad
  <2>7. CASE far
    <3>1. PICK p : p = (-(o + 2)) % w
      OBVIOUS
    <3>2. Emit(p, 2 + w, "copy", t, o + p)
      BY <2>6, <2>7, <3>1, Zenon DEF Pad, CopiedWords
    <3>3. /\ p \in 0 .. 3
          /\ (o + p + (2 + w) - w) % w = 0
          /\ p + (2 + w) <= 7 \/ (p + (2 + w) <= 9 /\ (o + (p + (2 + w))) % 4 = 0)
      BY <2>5, <3>1, CopyPad
    <3>4. Alone(next, Record(p, 2 + w, "copy", t))
      BY <1>1, <1>2, <1>6, <2>4, <3>3, AloneCopy, Zenon
    <3>5. p \in Nat /\ 2 + w \in Nat /\ o + p \in Int /\ o + p \in o .. o + p /\ t \in Int
      BY <2>5, <3>3
    <3>6. "copy" \in Forms
      BY DEF Forms
    <3> QED
      BY <1>4, <2>3, <3>2, <3>3, <3>4, <3>5, <3>6, ShapedAlone, Zenon
  <2>8. CASE ~far
    <3>1. PICK p : p = (t - o) % w
      OBVIOUS
    <3>2. p \in 0 .. w - 1
      BY <2>5, <3>1, NearPad
    <3>3. PICK v \in Int : v = t - o - p
      BY <2>5, <3>2
    <3>4. PICK form : form = NearForm(prog[n].op, v)
      OBVIOUS
    <3>5. form \in {"offset", "spilled"} /\ form \in Forms
      BY <3>4 DEF NearForm, Forms
    <3>6. Emit(p, 1, form, v, o + p)
      BY <2>6, <2>8, <3>1, <3>3, <3>4, Zenon
    <3>7. v \in -NarrowLimit .. NarrowLimit - 1 /\ (o + p) + v = t
      BY <2>4, <2>5, <2>8, <3>2, <3>3 DEF Abs
    <3>8. LimitOf(prog[n].op) = NarrowLimit
      BY <1>6, LimitFacts, Zenon
    <3>9. Alone(n, Record(p, 1, form, v))
      <4>1. prog[n].op \in Literals \cup Adrs
        BY <1>6
      <4> QED
        BY <1>2, <3>5, <3>7, <3>8, <4>1, AloneOffset, Zenon
    <3>10. /\ p \in Nat /\ 1 \in Nat /\ o + p \in Int /\ o + p \in o .. o + p /\ p + 1 <= 7
      BY <2>5, <3>2
    <3> QED
      BY <1>1, <1>4, <2>3, <3>5, <3>6, <3>9, <3>10, ShapedAlone, Zenon
  <2> QED
    BY <2>7, <2>8
<1> QED
  BY <1>1, <1>5, <1>6, Zenon DEF FixLoad

LEMMA FixShaped ==
    ASSUME Types, Fix
    PROVE  Shaped
<1>1. next < MovedCount
  BY Zenon DEF Fix
<1>2. CASE FixPlain(prog[next])
  <2>1. prog[next].op = "plain" /\ Emit(0, 1, "none", 0, o) /\ fmap' = fmap
    BY <1>2, Zenon DEF FixPlain
  <2>2. prog[next].op \in {"plain", "prfm"} /\ 1 \in {0, 1}
    BY <2>1
  <2> QED
    BY <1>1, <2>1, <2>2, PlainShaped, Zenon
<1> QED
  BY <1>1, <1>2, BranchShaped, CondBranchShaped, LoadShaped, AdrShaped, AdrpShaped, Zenon DEF Fix

(***************************************************************************)
(* The invariant                                                           *)
(***************************************************************************)
LEMMA InitEstablishesInv ==
    ASSUME RelocationInit
    PROVE  RelocationInv
<1>1. /\ prog \in [Indices -> Instructions]
      /\ \A i \in Indices : Encodable(i, prog[i])
  BY Zenon DEF RelocationInit
<1>2. start \in Nat /\ o \in Nat /\ start <= o /\ o - start = 0
  BY RelocationAssumption DEF RelocationInit
<1>3. next = 0 /\ 0 \in 0 .. MovedCount + 1 /\ 0 <= MovedCount /\ 0 # MovedCount + 1
  BY RelocationAssumption DEF RelocationInit
<1>4. dat \in [Indices -> Int]
  BY DEF RelocationInit
<1>5. fmap = [i \in Indices |-> {}]
  BY Zenon DEF RelocationInit
<1>6. Nothing \in Writings
  <2>1. 0 \in Nat /\ 0 \in Int /\ "none" \in Forms
    BY DEF Forms
  <2> QED
    BY <2>1, Zenon DEF Nothing, Writings
<1>7. out \in [0 .. MovedCount -> Writings]
  BY <1>6, Zenon DEF RelocationInit
<1>8. fmap \in [Indices -> SUBSET Indices]
  BY <1>5
<1>9. Types
  BY <1>1, <1>2, <1>3, <1>4, <1>7, <1>8, Zenon DEF Types
<1>10. Waiting
  BY <1>5, Zenon DEF Waiting
<1>11. Size
  <2>1. o - start <= 8 * next + (IF o % 4 = 0 THEN 1 ELSE 0)
    BY <1>2, <1>3
  <2> QED
    BY <1>3, <2>1, Zenon DEF Size
<1>12. Ended
  BY <1>3, Zenon DEF Ended, Done
<1>13. \A i \in Indices : ~(i < 0)
  BY DEF Indices
<1> QED
  BY <1>3, <1>9, <1>10, <1>11, <1>12, <1>13, Zenon DEF RelocationInv

LEMMA FixKeepsInv ==
    ASSUME RelocationInv, Fix
    PROVE  RelocationInv'
<1>1. next < MovedCount
  BY Zenon DEF Fix
<1>2. PICK pad, len, form, value, here : Shape(pad, len, form, value, here)
  BY FixShaped, Zenon DEF RelocationInv, Shaped
<1> QED
  BY <1>1, <1>2, ShapeKeepsInv, Zenon

JumpRecord(pad, far) ==
    [from |-> o, pos |-> o + pad, len |-> IF far THEN 4 ELSE 1,
     form |-> IF far THEN "address" ELSE "offset",
     value |-> IF far THEN Base + MovedCount ELSE Base + MovedCount - o]

LEMMA JumpWrites ==
    ASSUME Types, JumpBehind
    PROVE  \E pad \in 0 .. 1, len \in {1, 4}, w \in Writings :
              /\ o' = o + pad + len
              /\ out' = [out EXCEPT ![MovedCount] = w]
              /\ MeantBy(w) = Base + MovedCount
<1>1. o \in Nat /\ Base + MovedCount \in Nat
  BY RelocationAssumption DEF Types
<1>2. PICK c \in Nat : c = Base + MovedCount
  BY <1>1
<1>3. CASE Abs(c - o) >= WideRange
  <2>1. PICK p : p = (-(o + 2)) % 2
    OBVIOUS
  <2>2. p \in 0 .. 1 /\ p \in Nat /\ o + p \in Int /\ 4 \in Nat /\ 4 \in {1, 4} /\ o \in Int
        /\ c \in Int
    BY <1>1, <1>2, <2>1
  <2>3. PICK w : w = [from |-> o, pos |-> o + p, len |-> 4, form |-> "address", value |-> c]
    OBVIOUS
  <2>4. out' = [out EXCEPT ![MovedCount] = w] /\ o' = o + p + 4
    BY <1>2, <1>3, <2>1, <2>3, Zenon DEF JumpBehind, Pad
  <2>5. "address" \in Forms /\ "address" \notin {"offset", "spilled"} /\ "address" # "page"
    BY DEF Forms
  <2>6. w \in Writings
    BY <2>2, <2>3, <2>5, Zenon DEF Writings
  <2>7. w.form = "address" /\ w.value = c
    BY <2>3, Zenon
  <2>8. MeantBy(w) = c
    BY <2>5, <2>7, Zenon DEF MeantBy
  <2> QED
    BY <1>2, <2>2, <2>4, <2>6, <2>8, Zenon
<1>4. CASE ~(Abs(c - o) >= WideRange)
  <2>1. PICK v \in Int : v = c - o
    BY <1>1, <1>2
  <2>2. 0 \in 0 .. 1 /\ 1 \in {1, 4} /\ o + 0 \in Int /\ 1 \in Nat /\ o \in Int /\ (o + 0) + v = c
    BY <1>1, <1>2, <2>1
  <2>3. PICK w : w = [from |-> o, pos |-> o + 0, len |-> 1, form |-> "offset", value |-> v]
    OBVIOUS
  <2>4. out' = [out EXCEPT ![MovedCount] = w] /\ o' = o + 0 + 1
    BY <1>2, <1>4, <2>1, <2>3, Zenon DEF JumpBehind
  <2>5. "offset" \in Forms /\ "offset" \in {"offset", "spilled"}
    BY DEF Forms
  <2>6. w \in Writings
    BY <2>1, <2>2, <2>3, <2>5, Zenon DEF Writings
  <2>7. w.form = "offset" /\ w.value = v /\ w.pos = o + 0
    BY <2>3, Zenon
  <2>8. MeantBy(w) = c
    BY <2>2, <2>5, <2>7, Zenon DEF MeantBy
  <2> QED
    BY <1>2, <2>2, <2>4, <2>6, <2>8, Zenon
<1> QED
  BY <1>3, <1>4

LEMMA MeantIsMeantBy ==
    ASSUME NEW i
    PROVE  Meant(i) = MeantBy(out[i])
<1>1. CASE out[i].form \in {"offset", "spilled"}
  <2>1. out[i].form # "page"
    BY <1>1
  <2> QED
    BY <1>1, <2>1, Zenon DEF Meant, MeantBy
<1>2. CASE out[i].form \notin {"offset", "spilled"} /\ out[i].form = "page"
  BY <1>2, Zenon DEF Meant, MeantBy
<1>3. CASE out[i].form \notin {"offset", "spilled"} /\ out[i].form # "page"
  BY <1>3, Zenon DEF Meant, MeantBy
<1> QED
  BY <1>1, <1>2, <1>3, Zenon

LEMMA JumpKeepsInv ==
    ASSUME RelocationInv, JumpBehind
    PROVE  RelocationInv'
<1>1. Types /\ Waiting /\ Size /\ \A i \in Indices : i < next => Written(i)
  BY Zenon DEF RelocationInv
<1>2. PICK pad \in 0 .. 1, len \in {1, 4}, w \in Writings :
              /\ o' = o + pad + len
              /\ out' = [out EXCEPT ![MovedCount] = w]
              /\ MeantBy(w) = Base + MovedCount
  BY <1>1, JumpWrites, Zenon
<1>3. /\ next = MovedCount /\ next' = MovedCount + 1
      /\ prog' = prog /\ start' = start /\ dat' = dat /\ fmap' = fmap
  BY Zenon DEF JumpBehind
<1>4. /\ start \in Nat /\ o \in Nat /\ start <= o
      /\ dat \in [Indices -> Int] /\ prog \in [Indices -> Instructions]
      /\ \A i \in Indices : Encodable(i, prog[i])
      /\ fmap \in [Indices -> SUBSET Indices]
      /\ out \in [0 .. MovedCount -> Writings]
  BY <1>1, Zenon DEF Types
<1>5. MovedCount \in Nat /\ MovedCount \in 0 .. MovedCount
  BY RelocationAssumption
<1>6. o' \in Nat /\ o <= o' /\ start <= o' /\ o' - start <= o - start + 5
  <2>1. o' = o + pad + len
    BY <1>2, Zenon
  <2>2. start \in Nat /\ o \in Nat /\ start <= o
    BY <1>4, Zenon
  <2> QED
    BY <2>1, <2>2
<1>7. out' \in [0 .. MovedCount -> Writings]
  BY <1>2, <1>4
<1>8. MovedCount + 1 \in 0 .. MovedCount + 1 /\ ~(MovedCount + 1 <= MovedCount)
      /\ MovedCount <= MovedCount
  BY <1>5
<1>9. Types'
  BY <1>3, <1>4, <1>6, <1>7, <1>8, Zenon DEF Types
<1>10. Waiting'
  <2>1. ASSUME NEW k \in Indices, NEW j \in fmap[k]
        PROVE  j < MovedCount + 1 /\ j < k /\ Inside(j)' /\ RefOf(j)' = k
    <3>1. j < MovedCount /\ j < k /\ Inside(j) /\ RefOf(j) = k
      BY <1>1, <1>3, <2>1, Zenon DEF Waiting
    <3>2. j \in Indices
      BY <1>4, <2>1
    <3>3. j < MovedCount + 1
      BY <1>5, <3>1, <3>2 DEF Indices
    <3> QED
      BY <1>3, <3>1, <3>3, ProgramStays, Zenon
  <2> QED
    BY <1>3, <2>1, Zenon DEF Waiting
<1>11. Size'
  <2>1. o - start <= 8 * MovedCount + (IF o % 4 = 0 THEN 1 ELSE 0)
    BY <1>1, <1>3, <1>8, Zenon DEF Size
  <2>2. o' - start <= 8 * MovedCount + 6
    <3>1. start \in Nat /\ o \in Nat
      BY <1>4, Zenon
    <3>2. o - start <= 8 * MovedCount + 1
      BY <1>5, <2>1, <3>1
    <3>3. PICK p \in Nat : p = o'
      BY <1>6
    <3>4. p - start <= o - start + 5
      BY <1>6, <3>3, Zenon
    <3>5. p - start <= 8 * MovedCount + 6
      BY <1>5, <3>1, <3>2, <3>4
    <3> QED
      BY <3>3, <3>5, Zenon
  <2> QED
    BY <1>3, <1>8, <2>2, Zenon DEF Size
<1>12. Ended'
  <2>1. out'[MovedCount] = w
    BY <1>2, <1>4, <1>5
  <2>2. CASE w.form \in {"offset", "spilled"}
    BY <1>2, <2>1, <2>2, Zenon DEF Ended, Meant, MeantBy
  <2>3. CASE w.form \notin {"offset", "spilled"} /\ w.form = "page"
    BY <1>2, <2>1, <2>3, Zenon DEF Ended, Meant, MeantBy
  <2>4. CASE w.form \notin {"offset", "spilled"} /\ w.form # "page"
    BY <1>2, <2>1, <2>4, Zenon DEF Ended, Meant, MeantBy
  <2> QED
    BY <2>2, <2>3, <2>4, Zenon
<1>13. ASSUME NEW i \in Indices
       PROVE  Written(i)'
  <2>1. i < MovedCount /\ i \in 0 .. MovedCount /\ i # MovedCount
    BY RelocationAssumption DEF Indices
  <2>2. PICK r : r = out[i] /\ r \in Writings
    BY <1>4, <2>1, Zenon
  <2>3. out'[i] = r
    BY <1>2, <1>4, <2>1, <2>2
  <2>4. /\ start <= r.from /\ r.from <= r.pos /\ r.pos <= o
        /\ prog[i].op # "adrp" => dat[i] \in r.from .. r.pos
        /\ Inside(i) => Following(i, r, MovedCount, dat, fmap)
        /\ ~Inside(i) => Alone(i, r)
    BY <1>1, <1>3, <2>1, <2>2, Zenon DEF Written, WrittenAs
  <2>5. r.pos <= o'
    <3>1. r.pos \in Int
      BY <2>2 DEF Writings
    <3> QED
      BY <1>4, <1>6, <2>4, <3>1
  <2>6. Inside(i) => Following(i, r, MovedCount + 1, dat, fmap)
    <3> SUFFICES ASSUME Inside(i)
                 PROVE  Following(i, r, MovedCount + 1, dat, fmap)
      OBVIOUS
    <3>1. PICK k \in Indices : k = RefOf(i)
      BY <1>1, InsideRef, Zenon
    <3>2. k < MovedCount /\ ~(k >= MovedCount + 1)
      BY RelocationAssumption DEF Indices
    <3> QED
      BY <2>4, <3>1, <3>2, Zenon DEF Following
  <2>7. WrittenAs(i, out'[i], start', o', next', dat', fmap')
    BY <1>3, <2>3, <2>4, <2>5, <2>6, Zenon DEF WrittenAs
  <2> QED
    BY <1>3, <2>7, WrittenNext, Zenon
<1> QED
  BY <1>9, <1>10, <1>11, <1>12, <1>13, Zenon DEF RelocationInv

(* Every reachable state: what waits for which instruction, where each one *)
(* has gone and what it holds, and how many words it has taken.            *)
THEOREM RelocationInvariant == RelocationSpec => []RelocationInv
<1>1. RelocationInv /\ [RelocationNext]_relocationVars => RelocationInv'
  <2> SUFFICES ASSUME RelocationInv, [RelocationNext]_relocationVars
               PROVE  RelocationInv'
    OBVIOUS
  <2>1. CASE Fix
    BY <2>1, FixKeepsInv, Zenon
  <2>2. CASE JumpBehind
    BY <2>2, JumpKeepsInv, Zenon
  <2>3. CASE UNCHANGED relocationVars
    <3>1. /\ prog' = prog /\ start' = start /\ o' = o /\ next' = next
          /\ dat' = dat /\ fmap' = fmap /\ out' = out
      BY <2>3, Zenon DEF relocationVars
    <3>2. Types' /\ Size'
      BY <3>1, Zenon DEF RelocationInv, Types, Size
    <3>3. Waiting'
      BY <3>1, ProgramStays, Zenon DEF RelocationInv, Waiting
    <3>4. Ended'
      BY <3>1, Zenon DEF RelocationInv, Ended, Done, Meant
    <3>5. ASSUME NEW i \in Indices, i < next'
          PROVE  Written(i)'
      <4>1. WrittenAs(i, out'[i], start', o', next', dat', fmap')
        BY <3>1, <3>5, Zenon DEF RelocationInv, Written
      <4> QED
        BY <3>1, <4>1, WrittenNext, Zenon
    <3> QED
      BY <3>2, <3>3, <3>4, <3>5, Zenon DEF RelocationInv
  <2> QED
    BY <2>1, <2>2, <2>3, Zenon DEF RelocationNext
<1>2. RelocationInit => RelocationInv
  BY InitEstablishesInv
<1> QED
  BY <1>1, <1>2, PTL DEF RelocationSpec

(***************************************************************************)
(* What the trampolines hold                                               *)
(***************************************************************************)

(* An offset that loses its sign leads far behind the moved range; one     *)
(* forwards is kept.                                                       *)
LEMMA SignLost ==
    ASSUME NEW h \in Int, NEW m \in Int, NEW k \in Nat \ {0}, NEW w \in Nat, 2 * k <= w,
           m - h \in -k .. k - 1
    PROVE  /\ m >= h => Unsigned(h, m, w) = m
           /\ m < h => Unsigned(h, m, w) >= h + k
<1>1. PICK x \in Int : x = m - h
  OBVIOUS
<1>2. Unsigned(h, m, w) = h + (x % w)
  BY <1>1 DEF Unsigned
<1>3. CASE x >= 0
  <2>1. x % w = x
    BY <1>1, <1>3
  <2> QED
    BY <1>1, <1>2, <1>3, <2>1
<1>4. CASE x < 0
  <2>1. x % w = x + w
    BY <1>1, <1>4
  <2> QED
    BY <1>1, <1>2, <1>4, <2>1
<1> QED
  BY <1>3, <1>4

LEMMA TargetIsTo ==
    ASSUME Types, NEW i \in Indices, ~Backward(i) \/ Inside(i)
    PROVE  TargetOf(i) = prog[i].to
<1>1. prog[i] \in [op : Ops, to : Nat]
  BY RelocationAssumption DEF Types
<1>2. PICK m \in Nat : m = prog[i].to
  BY <1>1
<1>3. PICK h \in Nat : h = Base + i
  BY RelocationAssumption DEF Indices
<1>4. PICK t : t = TargetOf(i)
  OBVIOUS
<1>5. Encodable(i, prog[i])
  BY Zenon DEF Types
<1>6. CASE prog[i].op \in Conditional \cup Adrs \cup Literals
  <2>1. PICK k \in Nat \ {0} : k = LimitOf(prog[i].op)
    BY LimitFacts
  <2>2. PICK w \in Nat : 2 * k <= w /\ t = Unsigned(h, m, w)
    <3>1. CASE prog[i].op \in Conditional
      <4>1. 2 * k \in Nat /\ 2 * k <= 2 * k
        BY <2>1
      <4>2. t = Unsigned(h, m, 2 * k)
        BY <1>2, <1>3, <1>4, <2>1, <3>1, ReferredFacts, Zenon DEF TargetOf
      <4> QED
        BY <4>1, <4>2
    <3>2. CASE prog[i].op \in Adrs \cup Literals
      <4>1. prog[i].op \notin {"b", "bl"}
        BY <3>2 DEF Adrs, Literals
      <4>2. HighWords \in Nat /\ 2 * k <= HighWords
        BY <2>1, <4>1, LimitFacts, RelocationAssumption
      <4>3. t = Unsigned(h, m, HighWords)
        BY <1>2, <1>3, <1>4, <3>2, ReferredFacts, Zenon DEF TargetOf
      <4> QED
        BY <4>2, <4>3
    <3>3. prog[i].op \in Conditional \/ prog[i].op \in Adrs \cup Literals
      BY <1>6, Zenon
    <3> QED
      BY <3>1, <3>2, <3>3, Zenon
  <2>3. prog[i].op \notin {"adrp", "prfm", "plain"}
    BY <1>6 DEF Conditional, Adrs, Literals
  <2>4. m - h \in -k .. k - 1
    <3>1. prog[i].op \notin {"adrp", "prfm", "plain"} =>
             prog[i].to - (Base + i) \in -LimitOf(prog[i].op) .. LimitOf(prog[i].op) - 1
      BY <1>5 DEF Encodable
    <3> QED
      BY <1>2, <1>3, <2>1, <2>3, <3>1, Zenon
  <2>5. (m >= h => t = m) /\ (m < h => t >= h + k)
    <3>1. h \in Int /\ m \in Int
      OBVIOUS
    <3>2. /\ m >= h => Unsigned(h, m, w) = m
          /\ m < h => Unsigned(h, m, w) >= h + k
      BY <2>2, <2>4, <3>1, SignLost, Zenon
    <3> QED
      BY <2>2, <3>2, Zenon
  <2>6. m < h \/ m >= h
    OBVIOUS
  <2>7. m < h => t \notin MovedRange
    <3>1. TestLimit <= k /\ TrampolineWords < TestLimit /\ TrampolineWords \in Nat
          /\ TestLimit \in Nat
      BY <2>1, LimitFacts
    <3>2. MovedCount \in Nat /\ MovedCount <= TrampolineWords
      BY RelocationAssumption DEF TrampolineWords
    <3>3. t >= h + k => t \notin MovedRange
      BY <1>3, <3>1, <3>2, RelocationAssumption DEF MovedRange, Indices
    <3> QED
      BY <2>5, <3>3, Zenon
  <2>8. m < h => Backward(i)
    BY <1>2, <1>3, <1>6, Zenon DEF Backward
  <2> QED
    BY <1>2, <1>4, <2>5, <2>6, <2>7, <2>8, Zenon DEF Inside
<1>7. CASE prog[i].op = "adrp"
  <2>1. PICK p \in Int : p = PageOf(h)
    BY <1>3, RelocationAssumption DEF PageOf
  <2>2. HighWords \in Nat \ {0}
    <3>1. 2 * LimitOf("adr") <= HighWords /\ LimitOf("adr") \in Nat \ {0}
      BY LimitFacts
    <3> QED
      BY <3>1, RelocationAssumption
  <2>3. m - p \in -HighWords .. HighWords - 1
    BY <1>2, <1>3, <1>5, <1>7, <2>1, Zenon DEF Encodable
  <2>4. t = Unsigned(p, m, HighWords)
    BY <1>2, <1>3, <1>4, <1>7, <2>1, ReferredFacts, Zenon DEF TargetOf
  <2>5. ~Inside(i)
    <3>1. ~Follows(prog[i].op)
      BY <1>7 DEF Follows, Conditional, Adrs
    <3> QED
      BY <3>1, Zenon DEF Inside
  <2>6. ~(m < p)
    BY <1>2, <1>3, <1>7, <2>1, <2>5, Zenon DEF Backward
  <2>7. PICK x \in Nat : x = m - p /\ x < HighWords
    BY <2>2, <2>3, <2>6
  <2>8. x % HighWords = x
    BY <2>2, <2>7
  <2>9. t = m
    BY <2>4, <2>7, <2>8 DEF Unsigned
  <2> QED
    BY <1>2, <1>4, <2>9
<1>8. CASE prog[i].op \in {"b", "bl", "plain", "prfm"}
  BY <1>8, ReferredFacts DEF TargetOf
<1> QED
  BY <1>1, <1>6, <1>7, <1>8 DEF Ops

(* A reference within the moved instructions, once they are all moved.     *)
LEMMA InsideLeads ==
    ASSUME RelocationInv, Done, NEW i \in Indices, Inside(i)
    PROVE  /\ prog[i].to \in MovedRange /\ Follows(prog[i].op)
           /\ out[i].form = "offset"
           /\ RefOf(i) \in Indices /\ RefOf(i) = prog[i].to - Base
           /\ out[i].value = dat[RefOf(i)] - out[i].pos
<1>1. Types /\ \A k \in Indices : k < next => Written(k)
  BY Zenon DEF RelocationInv
<1>2. \A k \in Indices : k < next
  BY RelocationAssumption DEF Done, Indices
<1>3. TargetOf(i) \in MovedRange /\ Follows(prog[i].op)
  BY Zenon DEF Inside
<1>4. TargetOf(i) = prog[i].to
  BY <1>1, TargetIsTo, Zenon
<1>5. RefOf(i) \in Indices
  BY <1>1, InsideRef, Zenon
<1>6. Following(i, out[i], next, dat, fmap)
  BY <1>1, <1>2, Zenon DEF Written, WrittenAs
<1> QED
  BY <1>2, <1>3, <1>4, <1>5, <1>6, Zenon DEF RefOf, Following

LEMMA InvMeaning ==
    ASSUME RelocationInv
    PROVE  MeaningKept
<1> SUFFICES ASSUME Done
             PROVE  MeaningKept
  BY Zenon DEF MeaningKept
<1>1. Types /\ Ended /\ \A k \in Indices : k < next => Written(k)
  BY Zenon DEF RelocationInv
<1>2. \A k \in Indices : k < next
  BY RelocationAssumption DEF Done, Indices
<1>3. Meant(MovedCount) = Base + MovedCount
  BY <1>1, Zenon DEF Ended
<1> DEFINE Good(i) ==
        \/ Excepted(i)
        \/ /\ Follows(prog[i].op) /\ prog[i].to \in MovedRange
           /\ Meant(i) \in Entries(prog[i].to - Base)
        \/ /\ ~(Follows(prog[i].op) /\ prog[i].to \in MovedRange)
           /\ Meant(i) = prog[i].to /\ ~Spilled(i)
<1>4. ASSUME NEW i \in Indices, prog[i].op \notin {"plain", "prfm"}
      PROVE  Good(i)
  <2>1. CASE Inside(i)
    <3>1. /\ prog[i].to \in MovedRange /\ Follows(prog[i].op)
          /\ out[i].form = "offset"
          /\ RefOf(i) \in Indices /\ RefOf(i) = prog[i].to - Base
          /\ out[i].value = dat[RefOf(i)] - out[i].pos
      BY <2>1, InsideLeads, Zenon
    <3>2. PICK k \in Indices : k = RefOf(i)
      BY <3>1, Zenon
    <3>3. CASE prog[k].op = "adrp"
      BY <3>1, <3>2, <3>3, Zenon DEF Excepted, NamesAdrp
    <3>4. CASE prog[k].op # "adrp"
      <4>1. dat[k] \in Entries(k)
        BY <1>1, <1>2, <3>4, Zenon DEF Written, WrittenAs, Entries
      <4>2. PICK p \in Int : p = out[i].pos
        BY <1>1, RelocationAssumption, SMTT(60) DEF Types, Indices, Writings
      <4>3. PICK d \in Int : d = dat[k]
        BY <1>1, Zenon DEF Types
      <4>4. p + (d - p) = d
        OBVIOUS
      <4>5. out[i].form \in {"offset", "spilled"}
        BY <3>1
      <4>6. Meant(i) = d
        BY <3>1, <3>2, <4>2, <4>3, <4>4, <4>5, Zenon DEF Meant
      <4> QED
        BY <3>1, <3>2, <4>1, <4>3, <4>6, Zenon
    <3> QED
      BY <3>3, <3>4
  <2>2. CASE ~Inside(i)
    <3>1. CASE Excepted(i)
      BY <3>1, Zenon
    <3>2. CASE ~Excepted(i)
      <4>1. ~Backward(i) /\ ~PageInside(i) /\ ~Spilled(i)
        BY <3>2, Zenon DEF Excepted
      <4>2. TargetOf(i) = prog[i].to
        BY <1>1, <4>1, TargetIsTo, Zenon
      <4>3. Alone(i, out[i])
        BY <1>1, <1>2, <2>2, Zenon DEF Written, WrittenAs
      <4>4. MeantBy(out[i]) = TargetOf(i)
        <5>1. out[i].form # "page"
          BY <4>1, <4>2, <4>3, Zenon DEF Alone, PageInside
        <5> QED
          BY <1>4, <4>3, <5>1, Zenon DEF Alone
      <4>5. Meant(i) = prog[i].to
        BY <4>2, <4>4, MeantIsMeantBy, Zenon
      <4>6. ~(Follows(prog[i].op) /\ prog[i].to \in MovedRange)
        BY <2>2, <4>2, Zenon DEF Inside
      <4> QED
        BY <4>1, <4>5, <4>6, Zenon
    <3> QED
      BY <3>1, <3>2
  <2> QED
    BY <2>1, <2>2
<1> QED
  BY <1>3, <1>4, Zenon DEF MeaningKept

LEMMA InvFits ==
    ASSUME RelocationInv
    PROVE  o - start <= TrampolineWords
<1>1. start \in Nat /\ o \in Nat /\ next \in 0 .. MovedCount + 1
  BY Zenon DEF RelocationInv, Types
<1>2. /\ MovedCount \in Nat /\ MovedCount <= MaxInstructions
      /\ MaxInstructions \in Nat /\ MaxInstructions >= 3
  BY RelocationAssumption
<1>3. CASE next <= MovedCount
  <2>1. o - start <= 8 * next + (IF o % 4 = 0 THEN 1 ELSE 0)
    BY <1>3, Zenon DEF RelocationInv, Size
  <2> QED
    BY <1>1, <1>2, <1>3, <2>1 DEF TrampolineWords
<1>4. CASE ~(next <= MovedCount)
  <2>1. o - start <= 8 * MovedCount + 6
    BY <1>4, Zenon DEF RelocationInv, Size
  <2> QED
    BY <1>1, <1>2, <2>1 DEF TrampolineWords
<1> QED
  BY <1>3, <1>4

LEMMA InvPlaced ==
    ASSUME RelocationInv
    PROVE  WellPlaced
<1>1. o - start <= TrampolineWords
  BY InvFits, Zenon
<1> DEFINE width(i) == IF out[i].form = "copy" THEN LiteralWords(prog[i].op) ELSE 2
<1> DEFINE WellSet(i) ==
        /\ out[i].form \in {"address", "copy"}
              => (out[i].pos + out[i].len - width(i)) % width(i) = 0
        /\ out[i].form \in {"offset", "spilled"} /\ ~NamesAdrp(i)
              => out[i].value \in -LimitOf(prog[i].op) .. LimitOf(prog[i].op) - 1
<1>2. ASSUME Done, NEW i \in Indices
      PROVE  WellSet(i)
  <2>1. Types /\ \A k \in Indices : k < next => Written(k)
    BY Zenon DEF RelocationInv
  <2>2. \A k \in Indices : k < next
    BY <1>2, RelocationAssumption DEF Done, Indices
  <2>3. CASE Inside(i)
    <3>1. /\ prog[i].to \in MovedRange /\ Follows(prog[i].op)
          /\ out[i].form = "offset"
          /\ RefOf(i) \in Indices /\ RefOf(i) = prog[i].to - Base
          /\ out[i].value = dat[RefOf(i)] - out[i].pos
      BY <1>2, <2>3, InsideLeads, Zenon
    <3>2. PICK k \in Indices : k = RefOf(i)
      BY <3>1, Zenon
    <3>3. out[i].form \notin {"address", "copy"}
      BY <3>1
    <3>4. ASSUME ~NamesAdrp(i)
          PROVE  out[i].value \in -LimitOf(prog[i].op) .. LimitOf(prog[i].op) - 1
      <4>1. prog[k].op # "adrp"
        BY <3>1, <3>2, <3>4, Zenon DEF NamesAdrp
      <4>2. PICK a : a = out[i]
        OBVIOUS
      <4>3. PICK b : b = out[k]
        OBVIOUS
      <4>4. a \in Writings /\ b \in Writings
        BY <2>1, <4>2, <4>3, RelocationAssumption DEF Types, Indices
      <4>5. a.pos \in Int /\ a.from \in Int /\ b.pos \in Int /\ b.from \in Int
        BY <4>4 DEF Writings
      <4>6. /\ start <= a.from /\ a.from <= a.pos /\ a.pos <= o
        BY <2>1, <2>2, <4>2, Zenon DEF Written, WrittenAs
      <4>7. /\ start <= b.from /\ b.from <= b.pos /\ b.pos <= o
            /\ dat[k] \in b.from .. b.pos
        BY <2>1, <2>2, <4>1, <4>3, Zenon DEF Written, WrittenAs
      <4>8. start \in Nat /\ o \in Nat
        BY <2>1, Zenon DEF Types
      <4>9. TrampolineWords \in Nat /\ TestLimit \in Nat /\ TrampolineWords < TestLimit
        BY LimitFacts
      <4>10. PICK d \in Int : d = dat[k]
        BY <2>1, Zenon DEF Types
      <4>11. d - a.pos \in -TestLimit .. TestLimit - 1
        BY <1>1, <4>5, <4>6, <4>7, <4>8, <4>9, <4>10
      <4>12. PICK l \in Nat : l = LimitOf(prog[i].op) /\ TestLimit <= l
        BY LimitFacts
      <4>13. d - a.pos \in -l .. l - 1
        BY <4>5, <4>9, <4>11, <4>12
      <4> QED
        BY <3>1, <3>2, <4>2, <4>10, <4>12, <4>13, Zenon
    <3> QED
      BY <3>3, <3>4, Zenon
  <2>4. CASE ~Inside(i)
    <3>1. Alone(i, out[i])
      BY <2>1, <2>2, <2>4, Zenon DEF Written, WrittenAs
    <3>2. CASE out[i].form = "copy"
      BY <3>1, <3>2, Zenon DEF Alone
    <3>3. CASE out[i].form # "copy"
      BY <3>1, <3>3, Zenon DEF Alone
    <3> QED
      BY <3>2, <3>3
  <2> QED
    BY <2>3, <2>4
<1> QED
  BY <1>1, <1>2, Zenon DEF WellPlaced

(* For any instructions, wherever the trampoline lies: a moved instruction *)
(* means what it meant, but for the exceptions that MeaningKept lists.     *)
THEOREM RelocatedCodeMeansTheSame == RelocationSpec => []MeaningKept
BY RelocationInvariant, InvMeaning, PTL

(* It never outgrows the trampoline, its literals are aligned, and every   *)
(* offset fits the field it is written to.                                 *)
THEOREM RelocatedCodeFits == RelocationSpec => []WellPlaced
BY RelocationInvariant, InvPlaced, PTL

(* The words written, what waits and what is noted keep their kinds; and   *)
(* only instructions that come later are waited for.                       *)
THEOREM RelocationTypeCorrect == RelocationSpec => []RelocationTypeOK
<1>1. RelocationInv => RelocationTypeOK
  <2> SUFFICES ASSUME RelocationInv
               PROVE  RelocationTypeOK
    OBVIOUS
  <2>1. Types /\ Waiting
    BY Zenon DEF RelocationInv
  <2>2. next \in 0 .. MovedCount + 1 /\ o >= start
    BY <2>1 DEF Types
  <2>3. \A i \in Indices : fmap[i] \subseteq {j \in Indices : j < i /\ j < next}
    <3>1. \A i \in Indices : fmap[i] \in SUBSET Indices
      BY <2>1, Zenon DEF Types
    <3> QED
      BY <2>1, <3>1, Zenon DEF Waiting
  <2>4. ASSUME NEW i \in 0 .. MovedCount
        PROVE  out[i].form \in {"offset", "spilled", "address", "copy", "page", "none"}
    <3>1. out[i] \in Writings
      BY <2>1, Zenon DEF Types
    <3>2. out[i].form \in Forms
      BY <3>1, Zenon DEF Writings
    <3> QED
      BY <3>2 DEF Forms
  <2> QED
    BY <2>2, <2>3, <2>4, Zenon DEF RelocationTypeOK
<1> QED
  BY <1>1, RelocationInvariant, PTL

----
(* The encoders (the third part).  A word is 32 bits.  First what the bits *)
(* of a field make as a number: BitsOf sums them from the highest down, so *)
(* that its value is proved by induction on the bits, each natural number  *)
(* that fails having a least one below it.                                 *)
MachineWords == [0 .. 31 -> {0, 1}]

(* A set of natural numbers that has a member has a least one.             *)
LEMMA LeastNatural ==
    ASSUME NEW T \in SUBSET Nat, T # {}
    PROVE  \E n \in T : \A m \in T : n <= m
<1>1. PICK x \in T : \A y \in T : ~(<<y, x>> \in OpToRel(<, Nat))
  BY WFMin, NatLessThanWellFounded, Zenon
<1>2. \A y \in T : ~(y < x)
  BY <1>1 DEF OpToRel
<1> QED
  BY <1>2

(* The function by which BitsOf is defined has a solution from each place  *)
(* on: one for the place above it, and one bit more.                       *)
Above(word, high, f, l) ==
    f = [i \in l .. high |-> IF i = high THEN 0 ELSE word[i] + 2 * f[i + 1]]

LEMMA AboveExists ==
    ASSUME NEW word \in MachineWords, NEW high \in 0 .. 32
    PROVE  \E f : Above(word, high, f, 0)
<1> DEFINE bad == {k \in 0 .. high : ~ \E f : Above(word, high, f, high - k)}
<1>1. bad = {}
  <2> SUFFICES ASSUME bad # {} PROVE FALSE
    OBVIOUS
  <2>1. PICK k \in bad : \A m \in bad : k <= m
    <3>1. bad \in SUBSET Nat
      OBVIOUS
    <3> QED
      BY <3>1, LeastNatural
  <2>2. CASE k = 0
    <3> DEFINE f == [i \in high .. high |-> 0]
    <3>1. Above(word, high, f, high)
      BY DEF Above
    <3>2. high - k = high
      BY <2>2
    <3> QED
      BY <3>1, <3>2
  <2>3. CASE k # 0
    <3>1. k - 1 \in 0 .. high /\ k - 1 \notin bad
      BY <2>1, <2>3
    <3>2. PICK l : l = high - k
      OBVIOUS
    <3>3. l \in 0 .. high /\ l < high /\ high - (k - 1) = l + 1
      BY <3>1, <3>2, <2>1
    <3>4. PICK g : Above(word, high, g, l + 1)
      BY <3>1, <3>3
    <3> DEFINE f == [i \in l .. high |-> IF i = l THEN word[l] + 2 * g[l + 1] ELSE g[i]]
    <3>5. \A i \in l .. high : f[i] = IF i = high THEN 0 ELSE word[i] + 2 * f[i + 1]
      <4> SUFFICES ASSUME NEW i \in l .. high
                   PROVE  f[i] = IF i = high THEN 0 ELSE word[i] + 2 * f[i + 1]
        OBVIOUS
      <4>1. CASE i = l
        BY <4>1, <3>3
      <4>2. CASE i # l
        <5>1. i \in l + 1 .. high /\ f[i] = g[i] /\ (i # high => f[i + 1] = g[i + 1])
          BY <4>2, <3>3
        <5>2. g[i] = IF i = high THEN 0 ELSE word[i] + 2 * g[i + 1]
          BY <3>4, <5>1, Zenon DEF Above
        <5> QED
          BY <5>1, <5>2
      <4> QED
        BY <4>1, <4>2
    <3>6. Above(word, high, f, l)
      BY <3>5, Zenon DEF Above
    <3> QED
      BY <3>2, <3>6
  <2> QED
    BY <2>2, <2>3
<1>2. high \in 0 .. high /\ high - high = 0
  OBVIOUS
<1> QED
  BY <1>1, <1>2

(* A bit and what is above it.                                             *)
LEMMA BitsOfStep ==
    ASSUME NEW word \in MachineWords, NEW high \in 0 .. 32, NEW low \in 0 .. high
    PROVE  BitsOf(word, low, high) = IF low = high THEN 0
                                     ELSE word[low] + 2 * BitsOf(word, low + 1, high)
<1> DEFINE above == CHOOSE f : Above(word, high, f, 0)
<1>1. Above(word, high, above, 0)
  BY AboveExists, Zenon
<1>2. above = [i \in 0 .. high |-> IF i = high THEN 0 ELSE word[i] + 2 * above[i + 1]]
  BY <1>1, Zenon DEF Above
<1>3. \A l : BitsOf(word, l, high) = above[l]
  BY Zenon DEF BitsOf, Above
<1> HIDE DEF above
<1> QED
  BY <1>2, <1>3
(* Powers are computed one by one: no field is wider than 26 bits.         *)
LEMMA Powers ==
    /\ 2^0 = 1 /\ 2^1 = 2 /\ 2^2 = 4 /\ 2^3 = 8 /\ 2^4 = 16 /\ 2^5 = 32 /\ 2^6 = 64
    /\ 2^7 = 128 /\ 2^8 = 256 /\ 2^9 = 512 /\ 2^10 = 1024 /\ 2^11 = 2048 /\ 2^12 = 4096
    /\ 2^13 = 8192 /\ 2^14 = 16384 /\ 2^15 = 32768 /\ 2^16 = 65536 /\ 2^17 = 131072
    /\ 2^18 = 262144 /\ 2^19 = 524288 /\ 2^20 = 1048576 /\ 2^21 = 2097152
    /\ 2^22 = 4194304 /\ 2^23 = 8388608 /\ 2^24 = 16777216 /\ 2^25 = 33554432
    /\ 2^26 = 67108864
OBVIOUS

LEMMA PowerDoubles ==
    ASSUME NEW i \in 0 .. 26
    PROVE  2^i \in Nat \ {0} /\ (i < 26 => 2^(i + 1) = 2 * 2^i)
<1>1. CASE i = 0
  BY <1>1, Powers
<1>2. CASE i = 1
  BY <1>2, Powers
<1>3. CASE i = 2
  BY <1>3, Powers
<1>4. CASE i = 3
  BY <1>4, Powers
<1>5. CASE i = 4
  BY <1>5, Powers
<1>6. CASE i = 5
  BY <1>6, Powers
<1>7. CASE i = 6
  BY <1>7, Powers
<1>8. CASE i = 7
  BY <1>8, Powers
<1>9. CASE i = 8
  BY <1>9, Powers
<1>10. CASE i = 9
  BY <1>10, Powers
<1>11. CASE i = 10
  BY <1>11, Powers
<1>12. CASE i = 11
  BY <1>12, Powers
<1>13. CASE i = 12
  BY <1>13, Powers
<1>14. CASE i = 13
  BY <1>14, Powers
<1>15. CASE i = 14
  BY <1>15, Powers
<1>16. CASE i = 15
  BY <1>16, Powers
<1>17. CASE i = 16
  BY <1>17, Powers
<1>18. CASE i = 17
  BY <1>18, Powers
<1>19. CASE i = 18
  BY <1>19, Powers
<1>20. CASE i = 19
  BY <1>20, Powers
<1>21. CASE i = 20
  BY <1>21, Powers
<1>22. CASE i = 21
  BY <1>22, Powers
<1>23. CASE i = 22
  BY <1>23, Powers
<1>24. CASE i = 23
  BY <1>24, Powers
<1>25. CASE i = 24
  BY <1>25, Powers
<1>26. CASE i = 25
  BY <1>26, Powers
<1>27. CASE i = 26
  BY <1>27, Powers
<1> QED
  BY <1>1, <1>2, <1>3, <1>4, <1>5, <1>6, <1>7, <1>8, <1>9, <1>10, <1>11, <1>12, <1>13, <1>14,
     <1>15, <1>16, <1>17, <1>18, <1>19, <1>20, <1>21, <1>22, <1>23, <1>24, <1>25, <1>26, <1>27

(* Division and remainder by a double.                                     *)
LEMMA DivTwice ==
    ASSUME NEW u \in Int, NEW p \in Nat \ {0}
    PROVE  /\ u \div p \in Int
           /\ (u \div p) \div 2 = u \div (2 * p)
OBVIOUS

LEMMA HalfThenPower ==
    ASSUME NEW u \in Int, NEW p \in Nat \ {0}
    PROVE  (u \div 2) \div p = u \div (2 * p)
OBVIOUS

LEMMA ModTwice ==
    ASSUME NEW u \in Int, NEW p \in Nat \ {0}
    PROVE  u % (2 * p) = (u % 2) + 2 * ((u \div 2) % p)
<1>1. PICK q \in Int : q = (u \div 2) \div p
  OBVIOUS
<1>2. u \div 2 \in Int /\ u = 2 * (u \div 2) + (u % 2)
  OBVIOUS
<1>3. u \div 2 = p * q + ((u \div 2) % p)
  BY <1>1, <1>2
<1>4. u = (2 * p) * (u \div (2 * p)) + (u % (2 * p))
  OBVIOUS
<1>5. u \div (2 * p) = q
  BY <1>1, HalfThenPower
<1>6. PICK z \in Int : z = p * q
  OBVIOUS
<1>7. (2 * p) * q = 2 * z
  BY <1>6
<1>8. PICK a, b, c, h : a = u % 2 /\ b = (u \div 2) % p /\ c = u % (2 * p) /\ h = u \div 2
  OBVIOUS
<1>9. u = 2 * h + a /\ h = z + b
  BY <1>2, <1>3, <1>6, <1>8
<1>10. u = 2 * z + c
  BY <1>4, <1>5, <1>7, <1>8
<1>11. a \in Int /\ b \in Int /\ c \in Int /\ h \in Int
  BY <1>2, <1>8
<1>12. c = a + 2 * b
  BY <1>9, <1>10, <1>11
<1> QED
  BY <1>8, <1>12

(* A field of the word that holds the low bits of a number.                *)
Holds(word, low, high, value) ==
    \A i \in low .. high - 1 : word[i] = Bit(value, i - low)

(* A field reads as the value set in it, cut to the width of the field: by *)
(* induction on the bits, downwards from the highest.                      *)
LEMMA FieldValue ==
    ASSUME NEW word \in MachineWords, NEW high \in 0 .. 32, NEW low \in 0 .. high,
           high - low <= 26, NEW value \in Int, Holds(word, low, high, value)
    PROVE  BitsOf(word, low, high) = value % 2^(high - low)
<1> DEFINE above(k) == (value \div 2^(high - low - k)) % 2^k
           bad == {k \in 0 .. high - low : BitsOf(word, high - k, high) # above(k)}
<1>1. bad = {}
  <2> SUFFICES ASSUME bad # {} PROVE FALSE
    OBVIOUS
  <2>1. PICK k \in bad : \A m \in bad : k <= m
    <3>1. bad \in SUBSET Nat
      OBVIOUS
    <3> QED
      BY <3>1, LeastNatural
  <2>2. CASE k = 0
    <3>1. BitsOf(word, high - k, high) = 0
      BY <2>2, BitsOfStep
    <3>2. above(0) = 0
      <4>1. 2^(high - low - 0) \in Nat \ {0}
        <5>1. high - low - 0 \in 0 .. 26
          OBVIOUS
        <5> QED
          BY <5>1, PowerDoubles, Zenon
      <4>2. value \div 2^(high - low - 0) \in Int
        BY <4>1, DivTwice
      <4> QED
        BY <4>2, Powers
    <3> QED
      BY <2>1, <2>2, <3>1, <3>2
  <2>3. CASE k # 0
    <3>1. k - 1 \in 0 .. high - low /\ k - 1 \notin bad /\ k \in 1 .. high - low
      BY <2>1, <2>3
    <3>2. PICK j : j = high - low - k
      OBVIOUS
    <3>3. /\ j \in 0 .. 25 /\ high - low - (k - 1) = j + 1 /\ low + j = high - k
          /\ low + j \in low .. high - 1 /\ high - (k - 1) = low + j + 1
          /\ low + j \in 0 .. high /\ low + j # high /\ k - 1 \in 0 .. 25
      BY <3>1, <3>2
    <3>4. PICK p : p = 2^j
      OBVIOUS
    <3>5. PICK m : m = 2^(k - 1)
      OBVIOUS
    <3>6. p \in Nat \ {0} /\ 2^(j + 1) = 2 * p
      <4>1. j \in 0 .. 26 /\ j < 26
        BY <3>3
      <4> QED
        BY <3>4, <4>1, PowerDoubles, Zenon
    <3>7. m \in Nat \ {0} /\ 2^k = 2 * m
      <4>1. (k - 1) + 1 = k /\ k - 1 \in 0 .. 26 /\ k - 1 < 26
        BY <3>1
      <4>2. m \in Nat \ {0} /\ 2^((k - 1) + 1) = 2 * m
        BY <3>5, <4>1, PowerDoubles, Zenon
      <4> QED
        BY <4>1, <4>2
    <3>8. PICK u \in Int : u = value \div p
      BY <3>6, DivTwice
    <3>9. BitsOf(word, high - (k - 1), high) = (u \div 2) % m
      <4>1. BitsOf(word, high - (k - 1), high) = above(k - 1)
        BY <3>1
      <4>2. above(k - 1) = (value \div (2 * p)) % m
        BY <3>3, <3>5, <3>6, Zenon
      <4>3. value \div (2 * p) = u \div 2
        BY <3>6, <3>8, DivTwice
      <4> QED
        BY <4>1, <4>2, <4>3
    <3>10. word[low + j] = u % 2
      <4>1. (low + j) - low = j
        BY <3>3
      <4> QED
        BY <3>3, <3>4, <3>8, <4>1 DEF Holds, Bit
    <3>11. BitsOf(word, low + j, high) = word[low + j] + 2 * BitsOf(word, low + j + 1, high)
      BY <3>3, BitsOfStep
    <3>12. BitsOf(word, high - k, high) = (u % 2) + 2 * ((u \div 2) % m)
      BY <3>3, <3>9, <3>10, <3>11
    <3>13. above(k) = u % (2 * m)
      BY <3>2, <3>4, <3>7, <3>8
    <3> QED
      BY <2>1, <3>7, <3>8, <3>12, <3>13, ModTwice
  <2> QED
    BY <2>2, <2>3
<1> DEFINE k == high - low
<1>2. k \in 0 .. k /\ high - k = low /\ k - k = 0 /\ k <= 26
  OBVIOUS
<1>3. BitsOf(word, low, high) = (value \div 2^0) % 2^k
  <2>1. k \in 0 .. high - low /\ k \notin bad /\ high - low - k = 0
    BY <1>1, <1>2
  <2>2. BitsOf(word, high - k, high) = above(k)
    BY <2>1
  <2> QED
    BY <1>2, <2>1, <2>2
<1>4. value \div 2^0 = value
  BY Powers
<1> QED
  BY <1>3, <1>4

(* The bits of a field are a number, and two of them in full.              *)
LEMMA BitsIsNumber ==
    ASSUME NEW w \in MachineWords, NEW high \in 0 .. 32, NEW low \in 0 .. high
    PROVE  BitsOf(w, low, high) \in Int
<1> DEFINE bad == {k \in 0 .. high : BitsOf(w, high - k, high) \notin Int}
<1>1. bad = {}
  <2> SUFFICES ASSUME bad # {} PROVE FALSE
    OBVIOUS
  <2>1. PICK k \in bad : \A m \in bad : k <= m
    <3>1. bad \in SUBSET Nat
      OBVIOUS
    <3> QED
      BY <3>1, LeastNatural
  <2>2. k \in 0 .. high /\ high - k \in 0 .. high
    OBVIOUS
  <2>3. CASE k = 0
    BY <2>2, <2>3, BitsOfStep
  <2>4. CASE k # 0
    <3>1. k - 1 \in 0 .. high /\ k - 1 \notin bad /\ high - (k - 1) = (high - k) + 1
      BY <2>1, <2>2, <2>4
    <3>2. BitsOf(w, (high - k) + 1, high) \in Int
      BY <3>1
    <3>3. w[high - k] \in Int
      BY <2>2, <2>4 DEF MachineWords
    <3>4. BitsOf(w, high - k, high) = w[high - k] + 2 * BitsOf(w, (high - k) + 1, high)
      BY <2>2, <2>4, BitsOfStep
    <3> QED
      BY <3>2, <3>3, <3>4
  <2> QED
    BY <2>3, <2>4
<1>2. high - low \in 0 .. high /\ high - (high - low) = low
  OBVIOUS
<1> QED
  BY <1>1, <1>2

(* The two bits that tell the loads and stores apart.                      *)
LEMMA TwoBits ==
    ASSUME NEW w \in MachineWords
    PROVE  BitsOf(w, 10, 12) = w[10] + 2 * w[11]
<1>1. w[10] \in Int /\ w[11] \in Int
  BY DEF MachineWords
<1> QED
  BY <1>1, BitsOfStep

----
(* The fields the constructors set, one after the other: what is left of   *)
(* each in the finished word.                                              *)
LEMMA BitType ==
    ASSUME NEW n \in Int, NEW i \in 0 .. 26
    PROVE  Bit(n, i) \in {0, 1}
<1>1. 2^i \in Nat \ {0}
  BY PowerDoubles, Zenon
<1> QED
  BY <1>1 DEF Bit

(* The word r is w with a field set.                                       *)
Place(low, high) == low \in 0 .. 32 /\ high \in 0 .. 32 /\ high - low <= 26

Sets(w, low, high, value, r) ==
    \A i \in 0 .. 31 : r[i] = IF low <= i /\ i < high THEN Bit(value, i - low) ELSE w[i]

LEMMA FieldSet ==
    ASSUME NEW w \in MachineWords, NEW low, NEW high, Place(low, high), NEW value \in Int,
           NEW r, r = w ++ <<low, high, value>>
    PROVE  r \in MachineWords /\ Sets(w, low, high, value, r)
<1>1. \A i \in low .. high - 1 : i - low \in 0 .. 26
  BY DEF Place
<1>2. \A i \in low .. high - 1 : Bit(value, i - low) \in {0, 1}
  BY <1>1, BitType
<1> QED
  BY <1>2 DEF SetBits, ++, MachineWords, Sets, Place

(* The fields of the constructors.                                         *)
LEMMA Places ==
    /\ Place(25, 29) /\ Place(23, 26) /\ Place(31, 32) /\ Place(30, 31) /\ Place(29, 30)
    /\ Place(0, 5) /\ Place(5, 10) /\ Place(10, 22) /\ Place(22, 23) /\ Place(29, 31)
    /\ Place(21, 23) /\ Place(5, 21) /\ Place(5, 24) /\ Place(29, 32) /\ Place(12, 26)
    /\ Place(8, 12) /\ Place(5, 8) /\ Place(0, 26) /\ Place(21, 25) /\ Place(16, 21)
    /\ Place(10, 16) /\ Place(28, 29) /\ Place(20, 24) /\ Place(10, 15) /\ Place(22, 24)
    /\ Place(21, 22) /\ Place(28, 32) /\ Place(30, 32) /\ Place(26, 27) /\ Place(23, 25)
    /\ Place(16, 22) /\ Place(10, 12) /\ Place(13, 16) /\ Place(12, 13) /\ Place(12, 21)
BY DEF Place

(* What the base classes leave in a word.                                  *)
LEMMA Op100xBits ==
    ASSUME NEW op0 \in {0, 2, 5}, NEW w, w = Op100xInstruction(op0)
    PROVE  /\ w \in MachineWords /\ w[28] = 1 /\ w[27] = 0 /\ w[26] = 0
           /\ <<w[25], w[24], w[23]>> = IF op0 = 0 THEN <<0, 0, 0>>
                                        ELSE IF op0 = 2 THEN <<0, 1, 0>> ELSE <<1, 0, 1>>
<1>1. PICK w1 : w1 = Zero ++ <<25, 29, 8>>
  OBVIOUS
<1>2. w = w1 ++ <<23, 26, op0>>
  BY <1>1 DEF Op100xInstruction, Instruction, ++
<1>3. Zero \in MachineWords /\ 8 \in Int /\ op0 \in Int
  BY DEF Zero, MachineWords
<1>4. w1 \in MachineWords /\ Sets(Zero, 25, 29, 8, w1)
  BY <1>1, <1>3, FieldSet, Places, Zenon
<1>5. w \in MachineWords /\ Sets(w1, 23, 26, op0, w)
  BY <1>2, <1>3, <1>4, FieldSet, Places, Zenon
<1> QED
  BY <1>4, <1>5, Powers DEF Bit, Sets

(* A register as the classes take it: its kind and an index of any width   *)
(* (that of None is 127).                                                  *)
RegisterLike == {0, 1} \X Nat

LEMMA RegisterKind ==
    ASSUME NEW r \in RegisterLike
    PROVE  Is64(r) \in {0, 1} /\ Index(r) \in Nat
BY DEF RegisterLike, Is64, Index

LEMMA ShiftIsNumber ==
    ASSUME NEW n \in Int
    PROVE  ShiftRight(n, 2) \in Int
BY Powers DEF ShiftRight

LEMMA ThirtyOne ==
    /\ \A k \in 0 .. 4 : Bit(31, k) = 1
    /\ \A k \in 0 .. 8 : Bit(0, k) = 0
BY Powers DEF Bit

LEMMA OffsetFlag ==
    ASSUME NEW rt, NEW amount
    PROVE  CreateS(rt, amount) \in {0, 1}
BY DEF CreateS

LEMMA OneBit ==
    ASSUME NEW v \in {0, 1}
    PROVE  Bit(v, 0) = v
BY Powers DEF Bit

LEMMA ZeroIsWord == Zero \in MachineWords
BY DEF Zero, MachineWords

(* The bits the base classes set.                                         *)
LEMMA Op101xBits ==
    ASSUME NEW op0 \in {0, 6}, NEW w, w = Op101xInstruction(op0)
    PROVE  /\ w \in MachineWords
           /\ <<w[28], w[27], w[26], w[25]>> = <<1, 0, 1, 0>>
           /\ <<w[31], w[30], w[29]>> = IF op0 = 0 THEN <<0, 0, 0>> ELSE <<1, 1, 0>>
<1>1. PICK w0 : w0 = Zero
  OBVIOUS
<1>2. 10 \in Int /\ op0 \in Int
  OBVIOUS
<1>3. w0 \in MachineWords /\ w0 = Zero
  BY <1>1, ZeroIsWord
<1>4. PICK w1 \in MachineWords : w1 = w0 ++ <<25, 29, 10>> /\ Sets(w0, 25, 29, 10, w1)
  BY <1>2, <1>3, FieldSet, Places, Zenon
<1>5. w = w1 ++ <<29, 32, op0>>
  BY <1>1, <1>4, Zenon DEF Op101xInstruction, Instruction, ++
<1>6. w \in MachineWords /\ Sets(w1, 29, 32, op0, w)
  BY <1>5, <1>2, <1>4, FieldSet, Places, Zenon
<1>7. /\ Sets(w0, 25, 29, 10, w1) /\ Sets(w1, 29, 32, op0, w)
  BY <1>4, <1>6
<1>8. <<w[28], w[27], w[26], w[25]>> = <<1, 0, 1, 0>>
  BY <1>3, <1>7, Powers DEF Sets, Bit
<1>9. <<w[31], w[30], w[29]>> = IF op0 = 0 THEN <<0, 0, 0>> ELSE <<1, 1, 0>>
  BY <1>3, <1>7, Powers DEF Sets, Bit
<1> QED
  BY <1>6, <1>8, <1>9, Zenon

LEMMA Opx101Bits ==
    ASSUME NEW w, w = Opx101Instruction(0, 0, 0, 0)
    PROVE  /\ w \in MachineWords
           /\ <<w[28], w[27], w[26], w[25], w[24]>> = <<0, 1, 0, 1, 0>>
<1>1. PICK w0 : w0 = Zero
  OBVIOUS
<1>2. 5 \in Int /\ 0 \in Int
  OBVIOUS
<1>3. w0 \in MachineWords /\ w0 = Zero
  BY <1>1, ZeroIsWord
<1>4. PICK w1 \in MachineWords : w1 = w0 ++ <<25, 29, 5>> /\ Sets(w0, 25, 29, 5, w1)
  BY <1>2, <1>3, FieldSet, Places, Zenon
<1>5. PICK w2 \in MachineWords : w2 = w1 ++ <<30, 31, 0>> /\ Sets(w1, 30, 31, 0, w2)
  BY <1>2, <1>4, FieldSet, Places, Zenon
<1>6. PICK w3 \in MachineWords : w3 = w2 ++ <<28, 29, 0>> /\ Sets(w2, 28, 29, 0, w3)
  BY <1>2, <1>5, FieldSet, Places, Zenon
<1>7. PICK w4 \in MachineWords : w4 = w3 ++ <<20, 24, 0>> /\ Sets(w3, 20, 24, 0, w4)
  BY <1>2, <1>6, FieldSet, Places, Zenon
<1>8. w = w4 ++ <<10, 15, 0>>
  BY <1>1, <1>4, <1>5, <1>6, <1>7, Zenon DEF Opx101Instruction, Instruction, ++
<1>9. w \in MachineWords /\ Sets(w4, 10, 15, 0, w)
  BY <1>8, <1>2, <1>7, FieldSet, Places, Zenon
<1>10. /\ Sets(w0, 25, 29, 5, w1) /\ Sets(w1, 30, 31, 0, w2)
       /\ Sets(w2, 28, 29, 0, w3) /\ Sets(w3, 20, 24, 0, w4)
       /\ Sets(w4, 10, 15, 0, w)
  BY <1>4, <1>5, <1>6, <1>7, <1>9
<1>11. <<w[28], w[27], w[26], w[25], w[24]>> = <<0, 1, 0, 1, 0>>
  BY <1>3, <1>10, Powers DEF Sets, Bit, Zero
<1> QED
  BY <1>9, <1>11, Zenon

LEMMA Opx1x0Bits ==
    ASSUME NEW w, w = Opx1x0Instruction(3)
    PROVE  /\ w \in MachineWords
           /\ <<w[29], w[28], w[27], w[26], w[25]>> = <<1, 1, 1, 0, 0>>
<1>1. PICK w0 : w0 = Zero
  OBVIOUS
<1>2. 4 \in Int /\ 3 \in Int
  OBVIOUS
<1>3. w0 \in MachineWords /\ w0 = Zero
  BY <1>1, ZeroIsWord
<1>4. PICK w1 \in MachineWords : w1 = w0 ++ <<25, 29, 4>> /\ Sets(w0, 25, 29, 4, w1)
  BY <1>2, <1>3, FieldSet, Places, Zenon
<1>5. w = w1 ++ <<28, 32, 3>>
  BY <1>1, <1>4, Zenon DEF Opx1x0Instruction, Instruction, ++
<1>6. w \in MachineWords /\ Sets(w1, 28, 32, 3, w)
  BY <1>5, <1>2, <1>4, FieldSet, Places, Zenon
<1>7. /\ Sets(w0, 25, 29, 4, w1) /\ Sets(w1, 28, 32, 3, w)
  BY <1>4, <1>6
<1>8. <<w[29], w[28], w[27], w[26], w[25]>> = <<1, 1, 1, 0, 0>>
  BY <1>3, <1>7, Powers DEF Sets, Bit
<1> QED
  BY <1>6, <1>8, Zenon

(* The bits of each class.                                                 *)
LEMMA AddSubBits ==
    ASSUME NEW op \in {0, 1}, NEW s \in {0, 1}, NEW rd \in RegisterLike, NEW rn \in RegisterLike,
           NEW imm \in Nat, NEW w, w = AddSubtractImmediate(op, s, rd, rn, imm)
    PROVE  /\ w \in MachineWords
           /\ w[31] = Is64(rd) /\ w[30] = op /\ w[29] = s
           /\ <<w[28], w[27], w[26], w[25], w[24], w[23]>> = <<1, 0, 0, 0, 1, 0>>
           /\ w[22] = CalcSh(imm)
           /\ Holds(w, 0, 5, Index(rd)) /\ Holds(w, 5, 10, Index(rn))
           /\ Holds(w, 10, 22, CalcImm(imm))
<1>1. PICK w0 : w0 = Op100xInstruction(2)
  OBVIOUS
<1>2. /\ Is64(rd) \in {0, 1} /\ Index(rd) \in Int /\ Index(rn) \in Int
      /\ CalcSh(imm) \in {0, 1} /\ CalcImm(imm) \in Int
  BY DEF Is64, Index, CalcSh, CalcImm, RegisterLike
<1>3. Is64(rd) \in Int /\ op \in Int /\ s \in Int /\ CalcSh(imm) \in Int
  BY <1>2
<1>4. w0 \in MachineWords
  BY <1>1, Op100xBits
<1>5. PICK w1 \in MachineWords : w1 = w0 ++ <<31, 32, Is64(rd)>>
      /\ Sets(w0, 31, 32, Is64(rd), w1)
  BY <1>3, <1>4, FieldSet, Places, Zenon
<1>6. PICK w2 \in MachineWords : w2 = w1 ++ <<30, 31, op>> /\ Sets(w1, 30, 31, op, w2)
  BY <1>3, <1>5, FieldSet, Places, Zenon
<1>7. PICK w3 \in MachineWords : w3 = w2 ++ <<29, 30, s>> /\ Sets(w2, 29, 30, s, w3)
  BY <1>3, <1>6, FieldSet, Places, Zenon
<1>8. PICK w4 \in MachineWords : w4 = w3 ++ <<0, 5, Index(rd)>> /\ Sets(w3, 0, 5, Index(rd), w4)
  BY <1>2, <1>7, FieldSet, Places, Zenon
<1>9. PICK w5 \in MachineWords : w5 = w4 ++ <<5, 10, Index(rn)>>
      /\ Sets(w4, 5, 10, Index(rn), w5)
  BY <1>2, <1>8, FieldSet, Places, Zenon
<1>10. PICK w6 \in MachineWords : w6 = w5 ++ <<10, 22, CalcImm(imm)>>
      /\ Sets(w5, 10, 22, CalcImm(imm), w6)
  BY <1>2, <1>9, FieldSet, Places, Zenon
<1>11. w = w6 ++ <<22, 23, CalcSh(imm)>>
  BY <1>1, <1>5, <1>6, <1>7, <1>8, <1>9, <1>10, Zenon DEF AddSubtractImmediate
<1>12. w \in MachineWords /\ Sets(w6, 22, 23, CalcSh(imm), w)
  BY <1>11, <1>3, <1>10, FieldSet, Places, Zenon
<1>13. /\ Sets(w0, 31, 32, Is64(rd), w1) /\ Sets(w1, 30, 31, op, w2)
       /\ Sets(w2, 29, 30, s, w3) /\ Sets(w3, 0, 5, Index(rd), w4)
       /\ Sets(w4, 5, 10, Index(rn), w5) /\ Sets(w5, 10, 22, CalcImm(imm), w6)
       /\ Sets(w6, 22, 23, CalcSh(imm), w)
  BY <1>5, <1>6, <1>7, <1>8, <1>9, <1>10, <1>12
<1>14. \A v \in {0, 1} : Bit(v, 0) = v
  BY Powers DEF Bit
<1>15. w[31] = Is64(rd) /\ w[30] = op /\ w[29] = s /\ w[22] = CalcSh(imm)
  BY <1>2, <1>13, <1>14 DEF Sets
<1>16. Holds(w, 0, 5, Index(rd)) /\ Holds(w, 5, 10, Index(rn)) /\ Holds(w, 10, 22, CalcImm(imm))
  BY <1>13 DEF Sets, Holds
<1>17. <<w[28], w[27], w[26], w[25], w[24], w[23]>> = <<1, 0, 0, 0, 1, 0>>
  <2>1. \A i \in 23 .. 28 : w[i] = w0[i]
    BY <1>13 DEF Sets
  <2> QED
    BY <1>1, <2>1, Op100xBits
<1> QED
  BY <1>12, <1>15, <1>16, <1>17

LEMMA MoveWideBits ==
    ASSUME NEW r \in RegisterLike, NEW opc \in {0, 2, 3}, NEW imm \in Nat,
           NEW w, w = MoveWideImmediate(r, opc, 0, imm)
    PROVE  /\ w \in MachineWords
           /\ w[31] = Is64(r)
           /\ <<w[28], w[27], w[26], w[25], w[24], w[23]>> = <<1, 0, 0, 1, 0, 1>>
           /\ Holds(w, 29, 31, opc)
           /\ Holds(w, 21, 23, 0)
           /\ Holds(w, 5, 21, imm)
           /\ Holds(w, 0, 5, Index(r))
<1>1. PICK w0 : w0 = Op100xInstruction(5)
  OBVIOUS
<1>2. Is64(r) \in Int /\ opc \in Int /\ 0 \in Int /\ imm \in Int /\ Index(r) \in Int
  BY DEF RegisterLike, Is64, Index
<1>3. w0 \in MachineWords
      /\ <<w0[28], w0[27], w0[26], w0[25], w0[24], w0[23]>> = <<1, 0, 0, 1, 0, 1>>
  BY <1>1, Op100xBits
<1>4. PICK w1 \in MachineWords : w1 = w0 ++ <<31, 32, Is64(r)>> /\ Sets(w0, 31, 32, Is64(r), w1)
  BY <1>2, <1>3, FieldSet, Places, Zenon
<1>5. PICK w2 \in MachineWords : w2 = w1 ++ <<29, 31, opc>> /\ Sets(w1, 29, 31, opc, w2)
  BY <1>2, <1>4, FieldSet, Places, Zenon
<1>6. PICK w3 \in MachineWords : w3 = w2 ++ <<21, 23, 0>> /\ Sets(w2, 21, 23, 0, w3)
  BY <1>2, <1>5, FieldSet, Places, Zenon
<1>7. PICK w4 \in MachineWords : w4 = w3 ++ <<5, 21, imm>> /\ Sets(w3, 5, 21, imm, w4)
  BY <1>2, <1>6, FieldSet, Places, Zenon
<1>8. w = w4 ++ <<0, 5, Index(r)>>
  BY <1>1, <1>4, <1>5, <1>6, <1>7, Zenon DEF MoveWideImmediate
<1>9. w \in MachineWords /\ Sets(w4, 0, 5, Index(r), w)
  BY <1>8, <1>2, <1>7, FieldSet, Places, Zenon
<1>10. /\ Sets(w0, 31, 32, Is64(r), w1) /\ Sets(w1, 29, 31, opc, w2)
       /\ Sets(w2, 21, 23, 0, w3) /\ Sets(w3, 5, 21, imm, w4)
       /\ Sets(w4, 0, 5, Index(r), w)
  BY <1>4, <1>5, <1>6, <1>7, <1>9
<1>11. w[31] = Is64(r)
  BY <1>2, <1>3, <1>10, OneBit, RegisterKind DEF Sets
<1>12. <<w[28], w[27], w[26], w[25], w[24], w[23]>> = <<1, 0, 0, 1, 0, 1>>
  BY <1>3, <1>10 DEF Sets
<1>13. Holds(w, 29, 31, opc)
  BY <1>10 DEF Sets, Holds
<1>14. Holds(w, 21, 23, 0)
  BY <1>10 DEF Sets, Holds
<1>15. Holds(w, 5, 21, imm)
  BY <1>10 DEF Sets, Holds
<1>16. Holds(w, 0, 5, Index(r))
  BY <1>10 DEF Sets, Holds
<1> QED
  BY <1>9, <1>11, <1>12, <1>13, <1>14, <1>15, <1>16, Zenon

LEMMA PcRelBits ==
    ASSUME NEW r \in RegisterLike, NEW imm \in Int, NEW op \in {0, 1},
           NEW w, w = PcRelAddressing(r, imm, op)
    PROVE  /\ w \in MachineWords
           /\ w[31] = op
           /\ <<w[28], w[27], w[26], w[25], w[24]>> = <<1, 0, 0, 0, 0>>
           /\ Holds(w, 29, 31, imm)
           /\ Holds(w, 5, 24, ShiftRight(imm, 2))
           /\ Holds(w, 0, 5, Index(r))
<1>1. PICK w0 : w0 = Op100xInstruction(0)
  OBVIOUS
<1>2. op \in Int /\ imm \in Int /\ ShiftRight(imm, 2) \in Int /\ Index(r) \in Int
  BY ShiftIsNumber DEF RegisterLike, Index
<1>3. w0 \in MachineWords /\ <<w0[28], w0[27], w0[26], w0[25], w0[24]>> = <<1, 0, 0, 0, 0>>
  BY <1>1, Op100xBits
<1>4. PICK w1 \in MachineWords : w1 = w0 ++ <<31, 32, op>> /\ Sets(w0, 31, 32, op, w1)
  BY <1>2, <1>3, FieldSet, Places, Zenon
<1>5. PICK w2 \in MachineWords : w2 = w1 ++ <<29, 31, imm>> /\ Sets(w1, 29, 31, imm, w2)
  BY <1>2, <1>4, FieldSet, Places, Zenon
<1>6. PICK w3 \in MachineWords : w3 = w2 ++ <<5, 24, ShiftRight(imm, 2)>>
      /\ Sets(w2, 5, 24, ShiftRight(imm, 2), w3)
  BY <1>2, <1>5, FieldSet, Places, Zenon
<1>7. w = w3 ++ <<0, 5, Index(r)>>
  BY <1>1, <1>4, <1>5, <1>6, Zenon DEF PcRelAddressing
<1>8. w \in MachineWords /\ Sets(w3, 0, 5, Index(r), w)
  BY <1>7, <1>2, <1>6, FieldSet, Places, Zenon
<1>9. /\ Sets(w0, 31, 32, op, w1) /\ Sets(w1, 29, 31, imm, w2)
      /\ Sets(w2, 5, 24, ShiftRight(imm, 2), w3) /\ Sets(w3, 0, 5, Index(r), w)
  BY <1>4, <1>5, <1>6, <1>8
<1>10. w[31] = op
  BY <1>2, <1>3, <1>9, OneBit DEF Sets
<1>11. <<w[28], w[27], w[26], w[25], w[24]>> = <<1, 0, 0, 0, 0>>
  BY <1>3, <1>9 DEF Sets
<1>12. Holds(w, 29, 31, imm)
  BY <1>9 DEF Sets, Holds
<1>13. Holds(w, 5, 24, ShiftRight(imm, 2))
  BY <1>9 DEF Sets, Holds
<1>14. Holds(w, 0, 5, Index(r))
  BY <1>9 DEF Sets, Holds
<1> QED
  BY <1>8, <1>10, <1>11, <1>12, <1>13, <1>14, Zenon

LEMMA BranchBits ==
    ASSUME NEW op \in {0, 1}, NEW relative \in Int,
           NEW w, w = UnconditionalBranchImmediate(op, relative)
    PROVE  /\ w \in MachineWords
           /\ w[31] = op
           /\ <<w[30], w[29], w[28], w[27], w[26]>> = <<0, 0, 1, 0, 1>>
           /\ Holds(w, 0, 26, ShiftRight(relative, 2))
<1>1. PICK w0 : w0 = Op101xInstruction(0)
  OBVIOUS
<1>2. op \in Int /\ ShiftRight(relative, 2) \in Int
  BY ShiftIsNumber
<1>3. w0 \in MachineWords /\ <<w0[30], w0[29], w0[28], w0[27], w0[26]>> = <<0, 0, 1, 0, 1>>
  BY <1>1, Op101xBits
<1>4. PICK w1 \in MachineWords : w1 = w0 ++ <<31, 32, op>> /\ Sets(w0, 31, 32, op, w1)
  BY <1>2, <1>3, FieldSet, Places, Zenon
<1>5. w = w1 ++ <<0, 26, ShiftRight(relative, 2)>>
  BY <1>1, <1>4, Zenon DEF UnconditionalBranchImmediate
<1>6. w \in MachineWords /\ Sets(w1, 0, 26, ShiftRight(relative, 2), w)
  BY <1>5, <1>2, <1>4, FieldSet, Places, Zenon
<1>7. /\ Sets(w0, 31, 32, op, w1) /\ Sets(w1, 0, 26, ShiftRight(relative, 2), w)
  BY <1>4, <1>6
<1>8. w[31] = op
  BY <1>2, <1>3, <1>7, OneBit DEF Sets
<1>9. <<w[30], w[29], w[28], w[27], w[26]>> = <<0, 0, 1, 0, 1>>
  BY <1>3, <1>7 DEF Sets
<1>10. Holds(w, 0, 26, ShiftRight(relative, 2))
  BY <1>7 DEF Sets, Holds
<1> QED
  BY <1>6, <1>8, <1>9, <1>10, Zenon

LEMMA BranchRegisterBits ==
    ASSUME NEW opc \in {0, 2}, NEW rn \in RegisterLike,
           NEW w, w = UnconditionalBranchRegister(opc, rn)
    PROVE  /\ w \in MachineWords
           /\ <<w[31], w[30], w[29], w[28], w[27], w[26], w[25]>> = <<1, 1, 0, 1, 0, 1, 1>>
           /\ Holds(w, 21, 25, opc)
           /\ Holds(w, 10, 21, 1984)
           /\ Holds(w, 5, 10, Index(rn))
           /\ Holds(w, 0, 5, 0)
<1>0. PICK n : n = 8192
  OBVIOUS
<1>1. PICK w0 : w0 = Op101xInstruction(6)
  OBVIOUS
<1>2. n \in Int /\ opc \in Int /\ 31 \in Int /\ 0 \in Int /\ Index(rn) \in Int
  BY <1>0 DEF RegisterLike, Index
<1>3. w0 \in MachineWords
      /\ <<w0[31], w0[30], w0[29], w0[28], w0[27], w0[26]>> = <<1, 1, 0, 1, 0, 1>>
  BY <1>1, Op101xBits
<1>4. PICK w1 \in MachineWords : w1 = w0 ++ <<12, 26, n>> /\ Sets(w0, 12, 26, n, w1)
  BY <1>2, <1>3, FieldSet, Places, Zenon
<1>5. PICK w2 \in MachineWords : w2 = w1 ++ <<21, 25, opc>> /\ Sets(w1, 21, 25, opc, w2)
  BY <1>2, <1>4, FieldSet, Places, Zenon
<1>6. PICK w3 \in MachineWords : w3 = w2 ++ <<16, 21, 31>> /\ Sets(w2, 16, 21, 31, w3)
  BY <1>2, <1>5, FieldSet, Places, Zenon
<1>7. PICK w4 \in MachineWords : w4 = w3 ++ <<10, 16, 0>> /\ Sets(w3, 10, 16, 0, w4)
  BY <1>2, <1>6, FieldSet, Places, Zenon
<1>8. PICK w5 \in MachineWords : w5 = w4 ++ <<5, 10, Index(rn)>>
      /\ Sets(w4, 5, 10, Index(rn), w5)
  BY <1>2, <1>7, FieldSet, Places, Zenon
<1>9. w = w5 ++ <<0, 5, 0>>
  BY <1>0, <1>1, <1>4, <1>5, <1>6, <1>7, <1>8 DEF UnconditionalBranchRegister
<1>10. w \in MachineWords /\ Sets(w5, 0, 5, 0, w)
  BY <1>9, <1>2, <1>8, FieldSet, Places, Zenon
<1>11. /\ Sets(w0, 12, 26, n, w1) /\ Sets(w1, 21, 25, opc, w2)
       /\ Sets(w2, 16, 21, 31, w3) /\ Sets(w3, 10, 16, 0, w4)
       /\ Sets(w4, 5, 10, Index(rn), w5) /\ Sets(w5, 0, 5, 0, w)
  BY <1>4, <1>5, <1>6, <1>7, <1>8, <1>10
<1>12. <<w[31], w[30], w[29], w[28], w[27], w[26], w[25]>> = <<1, 1, 0, 1, 0, 1, 1>>
  BY <1>0, <1>3, <1>11, Powers DEF Sets, Bit
<1>13. Holds(w, 21, 25, opc)
  BY <1>11 DEF Sets, Holds
<1>14. Holds(w, 10, 21, 1984)
  <2>1. \A i \in 10 .. 20 : w[i] = IF i < 16 THEN 0 ELSE 1
    BY <1>0, <1>3, <1>11, ThirtyOne DEF Sets
  <2>2. \A i \in 10 .. 20 : Bit(1984, i - 10) = IF i < 16 THEN 0 ELSE 1
    <3>1. /\ Bit(1984, 0) = 0 /\ Bit(1984, 1) = 0 /\ Bit(1984, 2) = 0 /\ Bit(1984, 3) = 0
          /\ Bit(1984, 4) = 0 /\ Bit(1984, 5) = 0 /\ Bit(1984, 6) = 1 /\ Bit(1984, 7) = 1
          /\ Bit(1984, 8) = 1 /\ Bit(1984, 9) = 1 /\ Bit(1984, 10) = 1
      BY Powers DEF Bit
    <3> QED
      BY <3>1
  <2> QED
    BY <2>1, <2>2 DEF Holds
<1>15. Holds(w, 5, 10, Index(rn))
  BY <1>11 DEF Sets, Holds
<1>16. Holds(w, 0, 5, 0)
  BY <1>11 DEF Sets, Holds
<1> QED
  BY <1>10, <1>12, <1>13, <1>14, <1>15, <1>16, Zenon

LEMMA NopBits ==
    ASSUME NEW w, w = Nop
    PROVE  /\ w \in MachineWords
           /\ <<w[31], w[30], w[29], w[28], w[27], w[26], w[25], w[24]>> =
                 <<1, 1, 0, 1, 0, 1, 0, 1>>
           /\ <<w[23], w[22], w[21], w[20], w[19], w[18], w[17], w[16]>> =
                 <<0, 0, 0, 0, 0, 0, 1, 1>>
           /\ Holds(w, 0, 16, 8223)
<1>0. PICK n : n = 4146
  OBVIOUS
<1>1. PICK w0 : w0 = Op101xInstruction(6)
  OBVIOUS
<1>2. n \in Int /\ 31 \in Int /\ 0 \in Int
  BY <1>0
<1>3. w0 \in MachineWords
      /\ <<w0[31], w0[30], w0[29], w0[28], w0[27], w0[26]>> = <<1, 1, 0, 1, 0, 1>>
  BY <1>1, Op101xBits
<1>4. PICK w1 \in MachineWords : w1 = w0 ++ <<12, 26, n>> /\ Sets(w0, 12, 26, n, w1)
  BY <1>2, <1>3, FieldSet, Places, Zenon
<1>5. PICK w2 \in MachineWords : w2 = w1 ++ <<0, 5, 31>> /\ Sets(w1, 0, 5, 31, w2)
  BY <1>2, <1>4, FieldSet, Places, Zenon
<1>6. PICK w3 \in MachineWords : w3 = w2 ++ <<8, 12, 0>> /\ Sets(w2, 8, 12, 0, w3)
  BY <1>2, <1>5, FieldSet, Places, Zenon
<1>7. w = w3 ++ <<5, 8, 0>>
  BY <1>0, <1>1, <1>4, <1>5, <1>6 DEF Nop, Hints
<1>8. w \in MachineWords /\ Sets(w3, 5, 8, 0, w)
  BY <1>7, <1>2, <1>6, FieldSet, Places, Zenon
<1>9. /\ Sets(w0, 12, 26, n, w1) /\ Sets(w1, 0, 5, 31, w2)
      /\ Sets(w2, 8, 12, 0, w3) /\ Sets(w3, 5, 8, 0, w)
  BY <1>4, <1>5, <1>6, <1>8
<1>10. <<w[31], w[30], w[29], w[28], w[27], w[26], w[25], w[24]>> = <<1, 1, 0, 1, 0, 1, 0, 1>>
  BY <1>0, <1>3, <1>9, Powers DEF Sets, Bit
<1>11. <<w[23], w[22], w[21], w[20], w[19], w[18], w[17], w[16]>> = <<0, 0, 0, 0, 0, 0, 1, 1>>
  BY <1>0, <1>3, <1>9, Powers DEF Sets, Bit
<1>12. Holds(w, 0, 16, 8223)
  <2>1. \A i \in 0 .. 15 : w[i] = IF i \in {5, 6, 7, 8, 9, 10, 11, 12, 14, 15} THEN 0 ELSE 1
    <3>1. Bit(n, 0) = 0 /\ Bit(n, 1) = 1 /\ Bit(n, 2) = 0 /\ Bit(n, 3) = 0
      BY <1>0, Powers DEF Bit
    <3> QED
      BY <3>1, <1>0, <1>3, <1>9, ThirtyOne DEF Sets
  <2>2. \A i \in 0 .. 15 : Bit(8223, i) = IF i \in {5, 6, 7, 8, 9, 10, 11, 12, 14, 15} THEN 0 ELSE 1
    <3>1. /\ Bit(8223, 0) = 1 /\ Bit(8223, 1) = 1 /\ Bit(8223, 2) = 1 /\ Bit(8223, 3) = 1
          /\ Bit(8223, 4) = 1 /\ Bit(8223, 5) = 0 /\ Bit(8223, 6) = 0 /\ Bit(8223, 7) = 0
          /\ Bit(8223, 8) = 0 /\ Bit(8223, 9) = 0 /\ Bit(8223, 10) = 0 /\ Bit(8223, 11) = 0
          /\ Bit(8223, 12) = 0 /\ Bit(8223, 13) = 1 /\ Bit(8223, 14) = 0 /\ Bit(8223, 15) = 0
      BY Powers DEF Bit
    <3> QED
      BY <3>1
  <2> QED
    BY <2>1, <2>2 DEF Holds
<1> QED
  BY <1>8, <1>10, <1>11, <1>12, SMT

OrrWord(w, rd, rn, rm, shift, amount) ==
    /\ w \in MachineWords
    /\ w[31] = Is64(rd)
    /\ <<w[28], w[27], w[26], w[25], w[24]>> = <<0, 1, 0, 1, 0>>
    /\ w[21] = 0
    /\ Holds(w, 29, 31, 1) /\ Holds(w, 22, 24, shift) /\ Holds(w, 16, 21, Index(rm))
    /\ Holds(w, 10, 16, amount) /\ Holds(w, 5, 10, Index(rn)) /\ Holds(w, 0, 5, Index(rd))

LEMMA OrrBits ==
    ASSUME NEW rd \in RegisterLike, NEW rn \in RegisterLike, NEW rm \in RegisterLike,
           NEW shift \in 0 .. 3, NEW amount \in Nat,
           NEW w, w = OrrShiftedRegister(rd, rn, rm, shift, amount)
    PROVE  OrrWord(w, rd, rn, rm, shift, amount)
<1>1. PICK w0 : w0 = Opx101Instruction(0, 0, 0, 0)
  OBVIOUS
<1>2. Is64(rd) \in Int /\ 1 \in Int /\ shift \in Int /\ 0 \in Int /\ Index(rm) \in Int
      /\ amount \in Int /\ Index(rn) \in Int /\ Index(rd) \in Int
  BY DEF RegisterLike, Is64, Index
<1>3. w0 \in MachineWords /\ <<w0[28], w0[27], w0[26], w0[25], w0[24]>> = <<0, 1, 0, 1, 0>>
  BY <1>1, Opx101Bits
<1>4. PICK w1 \in MachineWords : w1 = w0 ++ <<31, 32, Is64(rd)>>
      /\ Sets(w0, 31, 32, Is64(rd), w1)
  BY <1>2, <1>3, FieldSet, Places, Zenon
<1>5. PICK w2 \in MachineWords : w2 = w1 ++ <<29, 31, 1>> /\ Sets(w1, 29, 31, 1, w2)
  BY <1>2, <1>4, FieldSet, Places, Zenon
<1>6. PICK w3 \in MachineWords : w3 = w2 ++ <<22, 24, shift>> /\ Sets(w2, 22, 24, shift, w3)
  BY <1>2, <1>5, FieldSet, Places, Zenon
<1>7. PICK w4 \in MachineWords : w4 = w3 ++ <<21, 22, 0>> /\ Sets(w3, 21, 22, 0, w4)
  BY <1>2, <1>6, FieldSet, Places, Zenon
<1>8. PICK w5 \in MachineWords : w5 = w4 ++ <<16, 21, Index(rm)>>
      /\ Sets(w4, 16, 21, Index(rm), w5)
  BY <1>2, <1>7, FieldSet, Places, Zenon
<1>9. PICK w6 \in MachineWords : w6 = w5 ++ <<10, 16, amount>> /\ Sets(w5, 10, 16, amount, w6)
  BY <1>2, <1>8, FieldSet, Places, Zenon
<1>10. PICK w7 \in MachineWords : w7 = w6 ++ <<5, 10, Index(rn)>>
      /\ Sets(w6, 5, 10, Index(rn), w7)
  BY <1>2, <1>9, FieldSet, Places, Zenon
<1>11. w = w7 ++ <<0, 5, Index(rd)>>
  BY <1>1, <1>4, <1>5, <1>6, <1>7, <1>8, <1>9, <1>10, Zenon DEF OrrShiftedRegister,
     LogicalShiftedRegister
<1>12. w \in MachineWords /\ Sets(w7, 0, 5, Index(rd), w)
  BY <1>11, <1>2, <1>10, FieldSet, Places, Zenon
<1>13. /\ Sets(w0, 31, 32, Is64(rd), w1) /\ Sets(w1, 29, 31, 1, w2)
       /\ Sets(w2, 22, 24, shift, w3) /\ Sets(w3, 21, 22, 0, w4)
       /\ Sets(w4, 16, 21, Index(rm), w5) /\ Sets(w5, 10, 16, amount, w6)
       /\ Sets(w6, 5, 10, Index(rn), w7) /\ Sets(w7, 0, 5, Index(rd), w)
  BY <1>4, <1>5, <1>6, <1>7, <1>8, <1>9, <1>10, <1>12
<1>14. w[31] = Is64(rd)
  BY <1>2, <1>3, <1>13, OneBit, RegisterKind DEF Sets
<1>15. <<w[28], w[27], w[26], w[25], w[24]>> = <<0, 1, 0, 1, 0>>
  BY <1>3, <1>13 DEF Sets
<1>16. w[21] = 0
  BY <1>2, <1>3, <1>13, OneBit DEF Sets
<1>17. Holds(w, 29, 31, 1)
  BY <1>13 DEF Sets, Holds
<1>18. Holds(w, 22, 24, shift)
  BY <1>13 DEF Sets, Holds
<1>19. Holds(w, 16, 21, Index(rm))
  BY <1>13 DEF Sets, Holds
<1>20. Holds(w, 10, 16, amount)
  BY <1>13 DEF Sets, Holds
<1>21. Holds(w, 5, 10, Index(rn))
  BY <1>13 DEF Sets, Holds
<1>22. Holds(w, 0, 5, Index(rd))
  BY <1>13 DEF Sets, Holds
<1> QED
  BY <1>12, <1>14, <1>15, <1>16, <1>17, <1>18, <1>19, <1>20, <1>21, <1>22 DEF OrrWord

LEMMA OffsetBits ==
    ASSUME NEW opc \in {0, 1}, NEW rt \in RegisterLike, NEW rn \in RegisterLike,
           NEW rm \in RegisterLike,
           NEW extend, NEW amount,
           NEW w, w = LoadStoreRegisterOffset(opc, rt, rn, rm, extend, amount)
    PROVE  /\ w \in MachineWords
           /\ <<w[29], w[28], w[27], w[26], w[25]>> = <<1, 1, 1, 0, 0>>
           /\ w[31] = 1
           /\ w[30] = Is64(rt)
           /\ <<w[24], w[23], w[22], w[21], w[11], w[10]>> = <<0, 0, opc, 1, 1, 0>>
           /\ w[12] = CreateS(rt, amount)
           /\ Holds(w, 13, 16, CreateOption(extend))
           /\ Holds(w, 16, 21, Index(rm))
           /\ Holds(w, 5, 10, Index(rn))
           /\ Holds(w, 0, 5, Index(rt))
<1>1. PICK w0 : w0 = Opx1x0Instruction(3)
  OBVIOUS
<1>2. GetSize(rt) \in Int /\ opc \in Int /\ 0 \in Int /\ 32 \in Int /\ 2 \in Int
      /\ Index(rm) \in Int /\ CreateOption(extend) \in Int /\ CreateS(rt, amount) \in Int
      /\ Index(rt) \in Int /\ Index(rn) \in Int
  BY DEF RegisterLike, Is64, Index, GetSize, CreateOption, CreateS, Extends
<1>3. w0 \in MachineWords /\ <<w0[29], w0[28], w0[27], w0[26], w0[25]>> = <<1, 1, 1, 0, 0>>
  BY <1>1, Opx1x0Bits
<1>4. PICK w1 \in MachineWords : w1 = w0 ++ <<30, 32, GetSize(rt)>>
      /\ Sets(w0, 30, 32, GetSize(rt), w1)
  BY <1>2, <1>3, FieldSet, Places, Zenon
<1>5. PICK w2 \in MachineWords : w2 = w1 ++ <<22, 24, opc>> /\ Sets(w1, 22, 24, opc, w2)
  BY <1>2, <1>4, FieldSet, Places, Zenon
<1>6. PICK w3 \in MachineWords : w3 = w2 ++ <<26, 27, 0>> /\ Sets(w2, 26, 27, 0, w3)
  BY <1>2, <1>5, FieldSet, Places, Zenon
<1>7. PICK w4 \in MachineWords : w4 = w3 ++ <<23, 25, 0>> /\ Sets(w3, 23, 25, 0, w4)
  BY <1>2, <1>6, FieldSet, Places, Zenon
<1>8. PICK w5 \in MachineWords : w5 = w4 ++ <<16, 22, 32>> /\ Sets(w4, 16, 22, 32, w5)
  BY <1>2, <1>7, FieldSet, Places, Zenon
<1>9. PICK w6 \in MachineWords : w6 = w5 ++ <<10, 12, 2>> /\ Sets(w5, 10, 12, 2, w6)
  BY <1>2, <1>8, FieldSet, Places, Zenon
<1>10. PICK w7 \in MachineWords : w7 = w6 ++ <<26, 27, 0>> /\ Sets(w6, 26, 27, 0, w7)
  BY <1>2, <1>9, FieldSet, Places, Zenon
<1>11. PICK w8 \in MachineWords : w8 = w7 ++ <<30, 32, GetSize(rt)>>
      /\ Sets(w7, 30, 32, GetSize(rt), w8)
  BY <1>2, <1>10, FieldSet, Places, Zenon
<1>12. PICK w9 \in MachineWords : w9 = w8 ++ <<16, 21, Index(rm)>>
      /\ Sets(w8, 16, 21, Index(rm), w9)
  BY <1>2, <1>11, FieldSet, Places, Zenon
<1>13. PICK w10 \in MachineWords : w10 = w9 ++ <<13, 16, CreateOption(extend)>>
      /\ Sets(w9, 13, 16, CreateOption(extend), w10)
  BY <1>2, <1>12, FieldSet, Places, Zenon
<1>14. PICK w11 \in MachineWords : w11 = w10 ++ <<12, 13, CreateS(rt, amount)>>
      /\ Sets(w10, 12, 13, CreateS(rt, amount), w11)
  BY <1>2, <1>13, FieldSet, Places, Zenon
<1>15. PICK w12 \in MachineWords : w12 = w11 ++ <<0, 5, Index(rt)>>
      /\ Sets(w11, 0, 5, Index(rt), w12)
  BY <1>2, <1>14, FieldSet, Places, Zenon
<1>16. w = w12 ++ <<5, 10, Index(rn)>>
  BY <1>1, <1>4, <1>5, <1>6, <1>7, <1>8, <1>9, <1>10, <1>11, <1>12, <1>13, <1>14, <1>15,
     Zenon DEF LoadStoreRegisterOffset
<1>17. w \in MachineWords /\ Sets(w12, 5, 10, Index(rn), w)
  BY <1>16, <1>2, <1>15, FieldSet, Places, Zenon
<1>18. /\ Sets(w0, 30, 32, GetSize(rt), w1) /\ Sets(w1, 22, 24, opc, w2)
       /\ Sets(w2, 26, 27, 0, w3) /\ Sets(w3, 23, 25, 0, w4)
       /\ Sets(w4, 16, 22, 32, w5) /\ Sets(w5, 10, 12, 2, w6)
       /\ Sets(w6, 26, 27, 0, w7) /\ Sets(w7, 30, 32, GetSize(rt), w8)
       /\ Sets(w8, 16, 21, Index(rm), w9) /\ Sets(w9, 13, 16, CreateOption(extend), w10)
       /\ Sets(w10, 12, 13, CreateS(rt, amount), w11) /\ Sets(w11, 0, 5, Index(rt), w12)
       /\ Sets(w12, 5, 10, Index(rn), w)
  BY <1>4, <1>5, <1>6, <1>7, <1>8, <1>9, <1>10, <1>11, <1>12, <1>13, <1>14, <1>15, <1>17
<1>19. <<w[29], w[28], w[27], w[26], w[25]>> = <<1, 1, 1, 0, 0>>
  BY <1>3, <1>18, Powers DEF Sets, Bit
<1>20. w[31] = 1
  BY <1>18, Powers, RegisterKind DEF Sets, Bit, GetSize
<1>21. w[30] = Is64(rt)
  BY <1>18, Powers, RegisterKind DEF Sets, Bit, GetSize
<1>22. <<w[24], w[23], w[22], w[21], w[11], w[10]>> = <<0, 0, opc, 1, 1, 0>>
  BY <1>3, <1>18, Powers DEF Sets, Bit
<1>23. w[12] = CreateS(rt, amount)
  BY <1>2, <1>3, <1>18, OneBit, OffsetFlag DEF Sets
<1>24. Holds(w, 13, 16, CreateOption(extend))
  BY <1>18 DEF Sets, Holds
<1>25. Holds(w, 16, 21, Index(rm))
  BY <1>18 DEF Sets, Holds
<1>26. Holds(w, 5, 10, Index(rn))
  BY <1>18 DEF Sets, Holds
<1>27. Holds(w, 0, 5, Index(rt))
  BY <1>18 DEF Sets, Holds
<1> QED
  BY <1>17, <1>19, <1>20, <1>21, <1>22, <1>23, <1>24, <1>25, <1>26, <1>27, Zenon

LEMMA UnscaledBits ==
    ASSUME NEW opc \in {0, 1}, NEW imm9 \in Int, NEW rn \in RegisterLike, NEW rt \in RegisterLike,
           NEW w, w = LoadStoreRegisterUnscaledImmediate(opc, imm9, rn, rt)
    PROVE  /\ w \in MachineWords
           /\ <<w[29], w[28], w[27], w[26], w[25]>> = <<1, 1, 1, 0, 0>>
           /\ w[31] = 1
           /\ w[30] = Is64(rt)
           /\ <<w[24], w[23], w[22], w[21], w[11], w[10]>> = <<0, 0, opc, 0, 0, 0>>
           /\ Holds(w, 12, 21, imm9)
           /\ Holds(w, 5, 10, Index(rn))
           /\ Holds(w, 0, 5, Index(rt))
<1>1. PICK w0 : w0 = Opx1x0Instruction(3)
  OBVIOUS
<1>2. 0 \in Int /\ GetSize(rt) \in Int /\ opc \in Int /\ imm9 \in Int /\ Index(rn) \in Int
      /\ Index(rt) \in Int
  BY DEF RegisterLike, Is64, Index, GetSize
<1>3. w0 \in MachineWords /\ <<w0[29], w0[28], w0[27], w0[26], w0[25]>> = <<1, 1, 1, 0, 0>>
  BY <1>1, Opx1x0Bits
<1>4. PICK w1 \in MachineWords : w1 = w0 ++ <<23, 25, 0>> /\ Sets(w0, 23, 25, 0, w1)
  BY <1>2, <1>3, FieldSet, Places, Zenon
<1>5. PICK w2 \in MachineWords : w2 = w1 ++ <<16, 22, 0>> /\ Sets(w1, 16, 22, 0, w2)
  BY <1>2, <1>4, FieldSet, Places, Zenon
<1>6. PICK w3 \in MachineWords : w3 = w2 ++ <<10, 12, 0>> /\ Sets(w2, 10, 12, 0, w3)
  BY <1>2, <1>5, FieldSet, Places, Zenon
<1>7. PICK w4 \in MachineWords : w4 = w3 ++ <<30, 32, GetSize(rt)>>
      /\ Sets(w3, 30, 32, GetSize(rt), w4)
  BY <1>2, <1>6, FieldSet, Places, Zenon
<1>8. PICK w5 \in MachineWords : w5 = w4 ++ <<26, 27, 0>> /\ Sets(w4, 26, 27, 0, w5)
  BY <1>2, <1>7, FieldSet, Places, Zenon
<1>9. PICK w6 \in MachineWords : w6 = w5 ++ <<22, 24, opc>> /\ Sets(w5, 22, 24, opc, w6)
  BY <1>2, <1>8, FieldSet, Places, Zenon
<1>10. PICK w7 \in MachineWords : w7 = w6 ++ <<12, 21, imm9>> /\ Sets(w6, 12, 21, imm9, w7)
  BY <1>2, <1>9, FieldSet, Places, Zenon
<1>11. PICK w8 \in MachineWords : w8 = w7 ++ <<5, 10, Index(rn)>>
      /\ Sets(w7, 5, 10, Index(rn), w8)
  BY <1>2, <1>10, FieldSet, Places, Zenon
<1>12. w = w8 ++ <<0, 5, Index(rt)>>
  BY <1>1, <1>4, <1>5, <1>6, <1>7, <1>8, <1>9, <1>10, <1>11,
     Zenon DEF LoadStoreRegisterUnscaledImmediate
<1>13. w \in MachineWords /\ Sets(w8, 0, 5, Index(rt), w)
  BY <1>12, <1>2, <1>11, FieldSet, Places, Zenon
<1>14. /\ Sets(w0, 23, 25, 0, w1) /\ Sets(w1, 16, 22, 0, w2)
       /\ Sets(w2, 10, 12, 0, w3) /\ Sets(w3, 30, 32, GetSize(rt), w4)
       /\ Sets(w4, 26, 27, 0, w5) /\ Sets(w5, 22, 24, opc, w6)
       /\ Sets(w6, 12, 21, imm9, w7) /\ Sets(w7, 5, 10, Index(rn), w8)
       /\ Sets(w8, 0, 5, Index(rt), w)
  BY <1>4, <1>5, <1>6, <1>7, <1>8, <1>9, <1>10, <1>11, <1>13
<1>15. <<w[29], w[28], w[27], w[26], w[25]>> = <<1, 1, 1, 0, 0>>
  BY <1>3, <1>14, Powers DEF Sets, Bit
<1>16. w[31] = 1
  BY <1>14, Powers, RegisterKind DEF Sets, Bit, GetSize
<1>17. w[30] = Is64(rt)
  BY <1>14, Powers, RegisterKind DEF Sets, Bit, GetSize
<1>18. <<w[24], w[23], w[22], w[21], w[11], w[10]>> = <<0, 0, opc, 0, 0, 0>>
  BY <1>3, <1>14, Powers DEF Sets, Bit
<1>19. Holds(w, 12, 21, imm9)
  BY <1>14 DEF Sets, Holds
<1>20. Holds(w, 5, 10, Index(rn))
  BY <1>14 DEF Sets, Holds
<1>21. Holds(w, 0, 5, Index(rt))
  BY <1>14 DEF Sets, Holds
<1> QED
  BY <1>13, <1>15, <1>16, <1>17, <1>18, <1>19, <1>20, <1>21, Zenon

LEMMA UnsignedBits ==
    ASSUME NEW opc \in {0, 1}, NEW imm12 \in Nat, NEW rn \in RegisterLike, NEW rt \in RegisterLike,
           NEW w, w = LoadStoreRegisterUnsignedImmediate(opc, imm12, rn, rt)
    PROVE  /\ w \in MachineWords
           /\ <<w[29], w[28], w[27], w[26], w[25]>> = <<1, 1, 1, 0, 0>>
           /\ w[31] = 1
           /\ w[30] = Is64(rt)
           /\ <<w[24], w[23], w[22]>> = <<1, 0, opc>>
           /\ Holds(w, 10, 22, imm12)
           /\ Holds(w, 5, 10, Index(rn))
           /\ Holds(w, 0, 5, Index(rt))
<1>1. PICK w0 : w0 = Opx1x0Instruction(3)
  OBVIOUS
<1>2. 2 \in Int /\ GetSize(rt) \in Int /\ 0 \in Int /\ opc \in Int /\ imm12 \in Int
      /\ Index(rn) \in Int /\ Index(rt) \in Int
  BY DEF RegisterLike, Is64, Index, GetSize
<1>3. w0 \in MachineWords /\ <<w0[29], w0[28], w0[27], w0[26], w0[25]>> = <<1, 1, 1, 0, 0>>
  BY <1>1, Opx1x0Bits
<1>4. PICK w1 \in MachineWords : w1 = w0 ++ <<23, 25, 2>> /\ Sets(w0, 23, 25, 2, w1)
  BY <1>2, <1>3, FieldSet, Places, Zenon
<1>5. PICK w2 \in MachineWords : w2 = w1 ++ <<30, 32, GetSize(rt)>>
      /\ Sets(w1, 30, 32, GetSize(rt), w2)
  BY <1>2, <1>4, FieldSet, Places, Zenon
<1>6. PICK w3 \in MachineWords : w3 = w2 ++ <<26, 27, 0>> /\ Sets(w2, 26, 27, 0, w3)
  BY <1>2, <1>5, FieldSet, Places, Zenon
<1>7. PICK w4 \in MachineWords : w4 = w3 ++ <<22, 24, opc>> /\ Sets(w3, 22, 24, opc, w4)
  BY <1>2, <1>6, FieldSet, Places, Zenon
<1>8. PICK w5 \in MachineWords : w5 = w4 ++ <<10, 22, imm12>> /\ Sets(w4, 10, 22, imm12, w5)
  BY <1>2, <1>7, FieldSet, Places, Zenon
<1>9. PICK w6 \in MachineWords : w6 = w5 ++ <<5, 10, Index(rn)>>
      /\ Sets(w5, 5, 10, Index(rn), w6)
  BY <1>2, <1>8, FieldSet, Places, Zenon
<1>10. w = w6 ++ <<0, 5, Index(rt)>>
  BY <1>1, <1>4, <1>5, <1>6, <1>7, <1>8, <1>9, Zenon DEF LoadStoreRegisterUnsignedImmediate
<1>11. w \in MachineWords /\ Sets(w6, 0, 5, Index(rt), w)
  BY <1>10, <1>2, <1>9, FieldSet, Places, Zenon
<1>12. /\ Sets(w0, 23, 25, 2, w1) /\ Sets(w1, 30, 32, GetSize(rt), w2)
       /\ Sets(w2, 26, 27, 0, w3) /\ Sets(w3, 22, 24, opc, w4)
       /\ Sets(w4, 10, 22, imm12, w5) /\ Sets(w5, 5, 10, Index(rn), w6)
       /\ Sets(w6, 0, 5, Index(rt), w)
  BY <1>4, <1>5, <1>6, <1>7, <1>8, <1>9, <1>11
<1>13. <<w[29], w[28], w[27], w[26], w[25]>> = <<1, 1, 1, 0, 0>>
  BY <1>3, <1>12, Powers DEF Sets, Bit
<1>14. w[31] = 1
  BY <1>12, Powers, RegisterKind DEF Sets, Bit, GetSize
<1>15. w[30] = Is64(rt)
  BY <1>12, Powers, RegisterKind DEF Sets, Bit, GetSize
<1>16. <<w[24], w[23], w[22]>> = <<1, 0, opc>>
  BY <1>3, <1>12, Powers DEF Sets, Bit
<1>17. Holds(w, 10, 22, imm12)
  BY <1>12 DEF Sets, Holds
<1>18. Holds(w, 5, 10, Index(rn))
  BY <1>12 DEF Sets, Holds
<1>19. Holds(w, 0, 5, Index(rt))
  BY <1>12 DEF Sets, Holds
<1> QED
  BY <1>11, <1>13, <1>14, <1>15, <1>16, <1>17, <1>18, <1>19, Zenon

----
(* How the processor finds the class of a word, and what it reads from the *)
(* fields.                                                                 *)
Nibble(w, k) == w[k] + 2 * w[k + 1] + 4 * w[k + 2] + 8 * w[k + 3]

(* A field is its lowest four bits and the rest, so that a class may be    *)
(* told by half bytes.                                                     *)
LEMMA HalfByte ==
    ASSUME NEW w \in MachineWords, NEW low \in 0 .. 28, NEW high \in low + 4 .. 32
    PROVE  BitsOf(w, low, high) = Nibble(w, low) + 16 * BitsOf(w, low + 4, high)
<1>0. \A i \in 0 .. 31 : w[i] = 0 \/ w[i] = 1
  BY DEF MachineWords
<1>1. PICK a, b, c, d, e : /\ a = BitsOf(w, low, high) /\ b = BitsOf(w, low + 1, high)
                           /\ c = BitsOf(w, low + 2, high) /\ d = BitsOf(w, low + 3, high)
                           /\ e = BitsOf(w, low + 4, high)
  OBVIOUS
<1>2. a = w[low] + 2 * b
  BY <1>1, BitsOfStep
<1>3. b = w[low + 1] + 2 * c
  BY <1>1, BitsOfStep
<1>4. c = w[low + 2] + 2 * d
  BY <1>1, BitsOfStep
<1>5. d = w[low + 3] + 2 * e
  BY <1>1, BitsOfStep
<1>6. e \in Int
  BY <1>1, BitsIsNumber
<1>7. a = w[low] + 2 * (w[low + 1] + 2 * (w[low + 2] + 2 * (w[low + 3] + 2 * e)))
  BY <1>2, <1>3, <1>4, <1>5, Zenon
<1>8. low \in 0 .. 31 /\ low + 1 \in 0 .. 31 /\ low + 2 \in 0 .. 31 /\ low + 3 \in 0 .. 31
  OBVIOUS
<1> QED
  BY <1>0, <1>1, <1>6, <1>7, <1>8 DEF Nibble

(* Two bytes from their half bytes.                                        *)
LEMMA FourHalfBytes ==
    ASSUME NEW a \in 0 .. 15, NEW b \in 0 .. 15, NEW c \in 0 .. 15, NEW d \in 0 .. 15
    PROVE  a + 16 * b + 256 * c + 4096 * d = 54531 <=> a = 3 /\ b = 0 /\ c = 5 /\ d = 13
OBVIOUS

(* The numbers by which the processor tells the classes, as bits.          *)
LEMMA Decoding ==
    ASSUME NEW w \in MachineWords
    PROVE  /\ BitsOf(w, 23, 29) = 34 <=>
                 <<w[28], w[27], w[26], w[25], w[24], w[23]>> = <<1, 0, 0, 0, 1, 0>>
           /\ BitsOf(w, 23, 29) = 37 <=>
                 <<w[28], w[27], w[26], w[25], w[24], w[23]>> = <<1, 0, 0, 1, 0, 1>>
           /\ BitsOf(w, 24, 29) = 16 <=>
                 <<w[28], w[27], w[26], w[25], w[24]>> = <<1, 0, 0, 0, 0>>
           /\ BitsOf(w, 26, 31) = 5 <=>
                 <<w[30], w[29], w[28], w[27], w[26]>> = <<0, 0, 1, 0, 1>>
           /\ BitsOf(w, 25, 32) = 107 <=>
                 <<w[31], w[30], w[29], w[28], w[27], w[26], w[25]>> = <<1, 1, 0, 1, 0, 1, 1>>
           /\ BitsOf(w, 24, 29) = 10 <=>
                 <<w[28], w[27], w[26], w[25], w[24]>> = <<0, 1, 0, 1, 0>>
           /\ BitsOf(w, 25, 30) = 28 <=>
                 <<w[29], w[28], w[27], w[26], w[25]>> = <<1, 1, 1, 0, 0>>
           /\ BitsOf(w, 16, 32) = 54531 <=>
                 /\ <<w[31], w[30], w[29], w[28], w[27], w[26], w[25], w[24]>> =
                       <<1, 1, 0, 1, 0, 1, 0, 1>>
                 /\ <<w[23], w[22], w[21], w[20], w[19], w[18], w[17], w[16]>> =
                       <<0, 0, 0, 0, 0, 0, 1, 1>>
<1>0. \A i \in 0 .. 31 : w[i] = 0 \/ w[i] = 1
  BY DEF MachineWords
<1>1. BitsOf(w, 23, 29) = w[23] + 2 * w[24] + 4 * w[25] + 8 * w[26] + 16 * w[27] + 32 * w[28]
  BY <1>0, BitsOfStep
<1>2. BitsOf(w, 24, 29) = w[24] + 2 * w[25] + 4 * w[26] + 8 * w[27] + 16 * w[28]
  BY <1>0, BitsOfStep
<1>3. BitsOf(w, 26, 31) = w[26] + 2 * w[27] + 4 * w[28] + 8 * w[29] + 16 * w[30]
  BY <1>0, BitsOfStep
<1>4. BitsOf(w, 25, 32) = w[25] + 2 * w[26] + 4 * w[27] + 8 * w[28] + 16 * w[29] + 32 * w[30]
                            + 64 * w[31]
  BY <1>0, BitsOfStep
<1>5. BitsOf(w, 25, 30) = w[25] + 2 * w[26] + 4 * w[27] + 8 * w[28] + 16 * w[29]
  BY <1>0, BitsOfStep
<1> DEFINE n(k) == Nibble(w, k)
<1>6. BitsOf(w, 16, 32) = n(16) + 16 * n(20) + 256 * n(24) + 4096 * n(28)
  <2>1. n(28) \in Int /\ n(24) \in Int /\ n(20) \in Int /\ n(16) \in Int
    BY <1>0 DEF Nibble
  <2>2. BitsOf(w, 28, 32) = n(28)
    BY <1>0, BitsOfStep DEF Nibble
  <2>3. /\ BitsOf(w, 24, 32) = n(24) + 16 * BitsOf(w, 24 + 4, 32)
        /\ BitsOf(w, 20, 32) = n(20) + 16 * BitsOf(w, 20 + 4, 32)
        /\ BitsOf(w, 16, 32) = n(16) + 16 * BitsOf(w, 16 + 4, 32)
    <3>1. /\ 24 \in 0 .. 28 /\ 20 \in 0 .. 28 /\ 16 \in 0 .. 28
          /\ 32 \in 24 + 4 .. 32 /\ 32 \in 20 + 4 .. 32 /\ 32 \in 16 + 4 .. 32
      OBVIOUS
    <3> QED
      BY <3>1, HalfByte, Zenon
  <2>4. 24 + 4 = 28 /\ 20 + 4 = 24 /\ 16 + 4 = 20
    OBVIOUS
  <2> QED
    BY <2>1, <2>2, <2>3, <2>4
<1>7. BitsOf(w, 23, 29) = 34 <=>
        <<w[28], w[27], w[26], w[25], w[24], w[23]>> = <<1, 0, 0, 0, 1, 0>>
  BY <1>0, <1>1
<1>8. BitsOf(w, 23, 29) = 37 <=>
        <<w[28], w[27], w[26], w[25], w[24], w[23]>> = <<1, 0, 0, 1, 0, 1>>
  BY <1>0, <1>1
<1>9. BitsOf(w, 24, 29) = 16 <=> <<w[28], w[27], w[26], w[25], w[24]>> = <<1, 0, 0, 0, 0>>
  BY <1>0, <1>2
<1>10. BitsOf(w, 26, 31) = 5 <=> <<w[30], w[29], w[28], w[27], w[26]>> = <<0, 0, 1, 0, 1>>
  BY <1>0, <1>3
<1>11. BitsOf(w, 25, 32) = 107 <=>
        <<w[31], w[30], w[29], w[28], w[27], w[26], w[25]>> = <<1, 1, 0, 1, 0, 1, 1>>
  BY <1>0, <1>4
<1>12. BitsOf(w, 24, 29) = 10 <=> <<w[28], w[27], w[26], w[25], w[24]>> = <<0, 1, 0, 1, 0>>
  BY <1>0, <1>2
<1>13. BitsOf(w, 25, 30) = 28 <=> <<w[29], w[28], w[27], w[26], w[25]>> = <<1, 1, 1, 0, 0>>
  BY <1>0, <1>5
<1>14. BitsOf(w, 16, 32) = 54531 <=>
         /\ <<w[31], w[30], w[29], w[28], w[27], w[26], w[25], w[24]>> =
               <<1, 1, 0, 1, 0, 1, 0, 1>>
         /\ <<w[23], w[22], w[21], w[20], w[19], w[18], w[17], w[16]>> =
               <<0, 0, 0, 0, 0, 0, 1, 1>>
  <2>1. n(28) \in 0 .. 15 /\ n(24) \in 0 .. 15 /\ n(20) \in 0 .. 15 /\ n(16) \in 0 .. 15
    BY <1>0 DEF Nibble
  <2>2. /\ n(28) = 13 <=> <<w[31], w[30], w[29], w[28]>> = <<1, 1, 0, 1>>
        /\ n(24) = 5 <=> <<w[27], w[26], w[25], w[24]>> = <<0, 1, 0, 1>>
        /\ n(20) = 0 <=> <<w[23], w[22], w[21], w[20]>> = <<0, 0, 0, 0>>
        /\ n(16) = 3 <=> <<w[19], w[18], w[17], w[16]>> = <<0, 0, 1, 1>>
    BY <1>0 DEF Nibble
  <2>3. BitsOf(w, 16, 32) = 54531 <=> n(28) = 13 /\ n(24) = 5 /\ n(20) = 0 /\ n(16) = 3
    <3> HIDE DEF n
    <3>1. PICK a \in 0 .. 15, b \in 0 .. 15, c \in 0 .. 15, d \in 0 .. 15 :
            a = n(16) /\ b = n(20) /\ c = n(24) /\ d = n(28)
      BY <2>1
    <3>2. BitsOf(w, 16, 32) = a + 16 * b + 256 * c + 4096 * d
      BY <1>6, <3>1
    <3> QED
      BY <3>1, <3>2, FourHalfBytes
  <2> QED
    BY <2>2, <2>3
<1> QED
  BY <1>7, <1>8, <1>9, <1>10, <1>11, <1>12, <1>13, <1>14

(* The bits of a class are enough to find it: no word is read as another   *)
(* class than the one its constructor is of.                               *)
LEMMA Classes ==
    ASSUME NEW w \in MachineWords
    PROVE  /\ <<w[28], w[27], w[26], w[25], w[24], w[23]>> = <<1, 0, 0, 0, 1, 0>> =>
                 Means(w) = AddSubMeans(w)
           /\ <<w[28], w[27], w[26], w[25], w[24], w[23]>> = <<1, 0, 0, 1, 0, 1>> =>
                 Means(w) = MoveWideMeans(w)
           /\ <<w[28], w[27], w[26], w[25], w[24]>> = <<1, 0, 0, 0, 0>> =>
                 Means(w) = PcRelMeans(w)
           /\ <<w[30], w[29], w[28], w[27], w[26]>> = <<0, 0, 1, 0, 1>> =>
                 Means(w) = BranchMeans(w)
           /\ <<w[31], w[30], w[29], w[28], w[27], w[26], w[25]>> = <<1, 1, 0, 1, 0, 1, 1>> =>
                 Means(w) = BranchRegisterMeans(w)
           /\ <<w[28], w[27], w[26], w[25], w[24]>> = <<0, 1, 0, 1, 0>> =>
                 Means(w) = OrrMeans(w)
           /\ <<w[29], w[28], w[27], w[26], w[25]>> = <<1, 1, 1, 0, 0>> /\ w[31] = 1 /\ w[23] = 0 =>
                 Means(w) = LoadStoreMeans(w)
           /\ <<w[31], w[30], w[29], w[28], w[27], w[26], w[25], w[24]>> =
                 <<1, 1, 0, 1, 0, 1, 0, 1>>
                 /\ <<w[23], w[22], w[21], w[20], w[19], w[18], w[17], w[16]>> =
                       <<0, 0, 0, 0, 0, 0, 1, 1>>
                 /\ BitsOf(w, 0, 16) = 8223 =>
                 Means(w) = <<"nop">>
BY Decoding DEF Means

(* A register from its field.                                              *)
LEMMA RegisterFields ==
    ASSUME NEW r \in Registers
    PROVE  /\ Is64(r) \in {0, 1} /\ Index(r) \in 0 .. 31 /\ Index(r) % 32 = Index(r)
           /\ r \in RegisterLike
           /\ \A k \in {0, 1} : OrSp(k, Index(r)) = r <=> k = Is64(r)
           /\ \A k \in {0, 1} : OrZero(k, Index(r)) = r <=> k = Is64(r) /\ NotSp(r)
           /\ None(r) \in RegisterLike /\ Is64(None(r)) = Is64(r) /\ Index(None(r)) = 127
BY DEF Registers, RegisterLike, Is64, Index, SP, X, OrSp, OrZero, NotSp, Zr, None

(* The signed fields: distances and the unscaled offset.                   *)
LEMMA Signed ==
    ASSUME NEW w \in MachineWords, NEW v \in Int
    PROVE  /\ Holds(w, 12, 21, v) =>
                 SignedBits(w, 12, 21) = (v % 512) - (IF v % 512 >= 256 THEN 512 ELSE 0)
           /\ Holds(w, 5, 24, v) =>
                 SignedBits(w, 5, 24) = (v % 524288) - (IF v % 524288 >= 262144 THEN 524288 ELSE 0)
           /\ Holds(w, 0, 26, v) =>
                 SignedBits(w, 0, 26) =
                   (v % 67108864) - (IF v % 67108864 >= 33554432 THEN 67108864 ELSE 0)
<1>1. ASSUME Holds(w, 12, 21, v)
      PROVE  SignedBits(w, 12, 21) = (v % 512) - (IF v % 512 >= 256 THEN 512 ELSE 0)
  <2>1. BitsOf(w, 12, 21) = v % 512
    BY <1>1, FieldValue, Powers
  <2>2. w[20] = (v \div 256) % 2
    BY <1>1, Powers DEF Holds, Bit
  <2> QED
    BY <2>1, <2>2, Powers DEF SignedBits
<1>2. ASSUME Holds(w, 5, 24, v)
      PROVE  SignedBits(w, 5, 24) = (v % 524288) - (IF v % 524288 >= 262144 THEN 524288 ELSE 0)
  <2>1. BitsOf(w, 5, 24) = v % 524288
    BY <1>2, FieldValue, Powers
  <2>2. w[23] = (v \div 262144) % 2
    BY <1>2, Powers DEF Holds, Bit
  <2> QED
    BY <2>1, <2>2, Powers DEF SignedBits
<1>3. ASSUME Holds(w, 0, 26, v)
      PROVE  SignedBits(w, 0, 26) =
                   (v % 67108864) - (IF v % 67108864 >= 33554432 THEN 67108864 ELSE 0)
  <2>1. BitsOf(w, 0, 26) = v % 67108864
    BY <1>3, FieldValue, Powers
  <2>2. w[25] = (v \div 33554432) % 2
    BY <1>3, Powers DEF Holds, Bit
  <2> QED
    BY <2>1, <2>2, Powers DEF SignedBits
<1> QED
  BY <1>1, <1>2, <1>3

(* The value of each field of at most 16 bits.                             *)
LEMMA Fields ==
    ASSUME NEW w \in MachineWords, NEW v \in Int
    PROVE  /\ Holds(w, 0, 5, v) => BitsOf(w, 0, 5) = v % 32
           /\ Holds(w, 5, 10, v) => BitsOf(w, 5, 10) = v % 32
           /\ Holds(w, 16, 21, v) => BitsOf(w, 16, 21) = v % 32
           /\ Holds(w, 21, 23, v) => BitsOf(w, 21, 23) = v % 4
           /\ Holds(w, 22, 24, v) => BitsOf(w, 22, 24) = v % 4
           /\ Holds(w, 29, 31, v) => BitsOf(w, 29, 31) = v % 4
           /\ Holds(w, 5, 21, v) => BitsOf(w, 5, 21) = v % 65536
           /\ Holds(w, 10, 22, v) => BitsOf(w, 10, 22) = v % 4096
           /\ Holds(w, 13, 16, v) => BitsOf(w, 13, 16) = v % 8
           /\ Holds(w, 10, 16, v) => BitsOf(w, 10, 16) = v % 64
           /\ Holds(w, 21, 25, v) => BitsOf(w, 21, 25) = v % 16
           /\ Holds(w, 10, 21, v) => BitsOf(w, 10, 21) = v % 2048
           /\ Holds(w, 0, 16, v) => BitsOf(w, 0, 16) = v % 65536
<1>1. Holds(w, 0, 5, v) => BitsOf(w, 0, 5) = v % 32
  BY FieldValue, Powers
<1>2. Holds(w, 5, 10, v) => BitsOf(w, 5, 10) = v % 32
  BY FieldValue, Powers
<1>3. Holds(w, 16, 21, v) => BitsOf(w, 16, 21) = v % 32
  BY FieldValue, Powers
<1>4. Holds(w, 21, 23, v) => BitsOf(w, 21, 23) = v % 4
  BY FieldValue, Powers
<1>5. Holds(w, 22, 24, v) => BitsOf(w, 22, 24) = v % 4
  BY FieldValue, Powers
<1>6. Holds(w, 29, 31, v) => BitsOf(w, 29, 31) = v % 4
  BY FieldValue, Powers
<1>7. Holds(w, 5, 21, v) => BitsOf(w, 5, 21) = v % 65536
  BY FieldValue, Powers
<1>8. Holds(w, 10, 22, v) => BitsOf(w, 10, 22) = v % 4096
  BY FieldValue, Powers
<1>9. Holds(w, 13, 16, v) => BitsOf(w, 13, 16) = v % 8
  BY FieldValue, Powers
<1>10. Holds(w, 10, 16, v) => BitsOf(w, 10, 16) = v % 64
  BY FieldValue, Powers
<1>11. Holds(w, 21, 25, v) => BitsOf(w, 21, 25) = v % 16
  BY FieldValue, Powers
<1>12. Holds(w, 10, 21, v) => BitsOf(w, 10, 21) = v % 2048
  BY FieldValue, Powers
<1>13. Holds(w, 0, 16, v) => BitsOf(w, 0, 16) = v % 65536
  BY FieldValue, Powers
<1> QED
  BY <1>1, <1>2, <1>3, <1>4, <1>5, <1>6, <1>7, <1>8, <1>9, <1>10, <1>11, <1>12, <1>13

----
(* What the processor makes of the word of each class, for every operand.  *)
LEMMA ImmediateFits ==
    ASSUME NEW imm \in Nat
    PROVE  (CalcImm(imm) % 4096) * 4096^CalcSh(imm) = imm <=> Fits12(imm)
<1>1. 4096^0 = 1 /\ 4096^1 = 4096
  OBVIOUS
<1> QED
  BY <1>1 DEF CalcImm, CalcSh, Fits12

(* Additions and subtractions: what is in register 31 depends on the       *)
(* flags, and the immediate is twelve bits, shifted by twelve or not.      *)
LEMMA AddSubIntent ==
    ASSUME NEW op \in {0, 1}, NEW s \in {0, 1}, NEW rd \in RegisterLike, NEW rn \in Registers,
           NEW imm \in Nat, NEW w, w = AddSubtractImmediate(op, s, rd, rn, imm),
           NEW name, name = <<<<"add", "adds">>, <<"sub", "subs">>>>[op + 1][s + 1],
           NEW meant
    PROVE  Means(w) = <<name, meant, rn, imm>> <=>
             /\ meant = IF s = 1 THEN OrZero(Is64(rd), Index(rd) % 32)
                                 ELSE OrSp(Is64(rd), Index(rd) % 32)
             /\ Is64(rd) = Is64(rn)
             /\ Fits12(imm)
<1>1. /\ w \in MachineWords
      /\ w[31] = Is64(rd) /\ w[30] = op /\ w[29] = s
      /\ <<w[28], w[27], w[26], w[25], w[24], w[23]>> = <<1, 0, 0, 0, 1, 0>>
      /\ w[22] = CalcSh(imm)
      /\ Holds(w, 0, 5, Index(rd)) /\ Holds(w, 5, 10, Index(rn))
      /\ Holds(w, 10, 22, CalcImm(imm))
  <2>1. rn \in RegisterLike
    BY RegisterFields
  <2> QED
    BY <2>1, AddSubBits, SMTT(60)
<1>2. Means(w) = AddSubMeans(w)
  BY <1>1, Classes
<1>3. /\ Is64(rd) \in {0, 1} /\ Index(rd) \in Int /\ Index(rn) \in Int /\ CalcImm(imm) \in Int
      /\ Index(rn) % 32 = Index(rn)
  BY RegisterFields DEF RegisterLike, Is64, Index, CalcImm, CalcSh
<1>4. /\ BitsOf(w, 0, 5) = Index(rd) % 32 /\ BitsOf(w, 5, 10) = Index(rn)
      /\ BitsOf(w, 10, 22) = CalcImm(imm) % 4096
  BY <1>1, <1>3, FieldValue, Powers
<1>5. AddSubMeans(w) = <<name,
        IF s = 1 THEN OrZero(Is64(rd), Index(rd) % 32) ELSE OrSp(Is64(rd), Index(rd) % 32),
        OrSp(Is64(rd), Index(rn)), (CalcImm(imm) % 4096) * 4096^CalcSh(imm)>>
  BY <1>1, <1>3, <1>4 DEF AddSubMeans
<1>6. OrSp(Is64(rd), Index(rn)) = rn <=> Is64(rd) = Is64(rn)
  BY <1>3, RegisterFields
<1> QED
  BY <1>2, <1>5, <1>6, ImmediateFits

(* Moves of a wide immediate.                                              *)
LEMMA MoveWideIntent ==
    ASSUME NEW r \in Registers, NEW opc \in {0, 2, 3}, NEW imm \in Nat, imm < 65536,
           NEW w, w = MoveWideImmediate(r, opc, 0, imm),
           NEW name, name = <<"movn", "undefined", "movz", "movk">>[opc + 1]
    PROVE  Means(w) = <<name, r, imm, 0>> <=> NotSp(r)
<1>1. r \in RegisterLike /\ Index(r) \in Int /\ Is64(r) \in {0, 1} /\ Index(r) % 32 = Index(r)
  BY RegisterFields
<1>2. /\ w \in MachineWords /\ w[31] = Is64(r)
      /\ <<w[28], w[27], w[26], w[25], w[24], w[23]>> = <<1, 0, 0, 1, 0, 1>>
      /\ Holds(w, 29, 31, opc) /\ Holds(w, 21, 23, 0) /\ Holds(w, 5, 21, imm)
      /\ Holds(w, 0, 5, Index(r))
  BY <1>1, MoveWideBits
<1>3. Means(w) = MoveWideMeans(w)
  BY <1>2, Classes
<1>4. imm \in Int /\ opc \in Int /\ 0 \in Int
      /\ imm % 65536 = imm /\ opc % 4 = opc /\ 0 % 4 = 0
  OBVIOUS
<1>5. /\ BitsOf(w, 0, 5) = Index(r) /\ BitsOf(w, 5, 21) = imm
      /\ BitsOf(w, 21, 23) = 0 /\ BitsOf(w, 29, 31) = opc
  BY <1>1, <1>2, <1>4, Fields
<1>6. MoveWideMeans(w) = <<name, OrZero(Is64(r), Index(r)), imm, 0>>
  BY <1>2, <1>5 DEF MoveWideMeans
<1> QED
  BY <1>1, <1>3, <1>6, RegisterFields

(* The low 21 bits of a number, the highest of them a sign.                *)
Signed21(n) == (n % 2097152) - (IF n % 2097152 >= 1048576 THEN 2097152 ELSE 0)

(* Addresses from the program counter: a 64-bit register always, and the   *)
(* distance in two parts.                                                  *)
LEMMA PcRelIntent ==
    ASSUME NEW r \in Registers, NEW op \in {0, 1}, NEW imm \in Int
    PROVE  Means(PcRelAddressing(r, imm, op)) =
             <<<<"adr", "adrp">>[op + 1], OrZero(1, Index(r)), Signed21(imm)>>
<1>0. PICK w : w = PcRelAddressing(r, imm, op)
  OBVIOUS
<1>1. r \in RegisterLike /\ Index(r) \in Int /\ Is64(r) \in {0, 1} /\ Index(r) % 32 = Index(r)
  BY RegisterFields
<1>2. /\ w \in MachineWords /\ w[31] = op
      /\ <<w[28], w[27], w[26], w[25], w[24]>> = <<1, 0, 0, 0, 0>>
      /\ Holds(w, 29, 31, imm) /\ Holds(w, 5, 24, ShiftRight(imm, 2))
      /\ Holds(w, 0, 5, Index(r))
  BY <1>0, <1>1, PcRelBits
<1>3. Means(w) = PcRelMeans(w)
  BY <1>2, Classes
<1>4. BitsOf(w, 0, 5) = Index(r) /\ BitsOf(w, 29, 31) = imm % 4
  BY <1>1, <1>2, FieldValue, Powers
<1>5. ShiftRight(imm, 2) \in Int /\ ShiftRight(imm, 2) % 524288 = (imm \div 4) % 524288
  BY Powers DEF ShiftRight
<1>6. 4 * SignedBits(w, 5, 24) + BitsOf(w, 29, 31) = Signed21(imm)
  BY <1>2, <1>4, <1>5, Signed DEF Signed21
<1>7. PcRelMeans(w) = <<<<"adr", "adrp">>[op + 1], OrZero(1, Index(r)),
                        4 * SignedBits(w, 5, 24) + BitsOf(w, 29, 31)>>
  BY <1>2, <1>4 DEF PcRelMeans
<1> QED
  BY <1>0, <1>3, <1>6, <1>7

(* Branches: a distance in words, 26 bits of it.                           *)
LEMMA BranchIntent ==
    ASSUME NEW op \in {0, 1}, NEW relative \in Int,
           NEW w, w = UnconditionalBranchImmediate(op, relative),
           NEW name, name = <<"b", "bl">>[op + 1]
    PROVE  Means(w) = <<name, relative>> <=>
             relative % 4 = 0 /\ -2^27 <= relative /\ relative < 2^27
<1>1. /\ w \in MachineWords /\ w[31] = op
      /\ <<w[30], w[29], w[28], w[27], w[26]>> = <<0, 0, 1, 0, 1>>
      /\ Holds(w, 0, 26, ShiftRight(relative, 2))
  BY BranchBits
<1>2. Means(w) = BranchMeans(w)
  BY <1>1, Classes
<1>3. ShiftRight(relative, 2) \in Int
      /\ ShiftRight(relative, 2) % 67108864 = (relative \div 4) % 67108864
  BY Powers DEF ShiftRight
<1>4. 4 * SignedBits(w, 0, 26) = relative
        <=> relative % 4 = 0 /\ -134217728 <= relative /\ relative < 134217728
  BY <1>1, <1>3, Signed
<1>5. BranchMeans(w) = <<name, 4 * SignedBits(w, 0, 26)>>
  BY <1>1 DEF BranchMeans
<1>6. 2^27 = 134217728
  OBVIOUS
<1> QED
  BY <1>2, <1>4, <1>5, <1>6

(* Branches to a register, and returns.                                    *)
LEMMA BranchRegisterIntent ==
    ASSUME NEW opc \in {0, 2}, NEW rn \in Registers,
           NEW w, w = UnconditionalBranchRegister(opc, rn),
           NEW name, name = <<"br", "blr", "ret">>[opc + 1]
    PROVE  Means(w) = <<name, rn>> <=> NotSp(rn) /\ Is64(rn) = 1
<1>1. rn \in RegisterLike /\ Index(rn) \in Int /\ Is64(rn) \in {0, 1} /\ Index(rn) % 32 = Index(rn)
  BY RegisterFields
<1>2. /\ w \in MachineWords
      /\ <<w[31], w[30], w[29], w[28], w[27], w[26], w[25]>> = <<1, 1, 0, 1, 0, 1, 1>>
      /\ Holds(w, 21, 25, opc) /\ Holds(w, 10, 21, 1984) /\ Holds(w, 5, 10, Index(rn))
      /\ Holds(w, 0, 5, 0)
  BY <1>1, BranchRegisterBits
<1>3. Means(w) = BranchRegisterMeans(w)
  BY <1>2, Classes
<1>4. /\ BitsOf(w, 21, 25) = opc /\ BitsOf(w, 10, 21) = 1984 /\ BitsOf(w, 5, 10) = Index(rn)
      /\ BitsOf(w, 0, 5) = 0
  BY <1>1, <1>2, FieldValue, Powers
<1>5. BranchRegisterMeans(w) = <<name, OrZero(1, Index(rn))>>
  BY <1>4 DEF BranchRegisterMeans
<1> QED
  BY <1>1, <1>3, <1>5, RegisterFields

(* The hint that does nothing.                                             *)
LEMMA NopIntent == Means(Nop) = <<"nop">>
<1>1. PICK w : w = Nop
  OBVIOUS
<1>2. /\ w \in MachineWords
      /\ <<w[31], w[30], w[29], w[28], w[27], w[26], w[25], w[24]>> = <<1, 1, 0, 1, 0, 1, 0, 1>>
      /\ <<w[23], w[22], w[21], w[20], w[19], w[18], w[17], w[16]>> = <<0, 0, 0, 0, 0, 0, 1, 1>>
      /\ Holds(w, 0, 16, 8223)
  BY <1>1, NopBits
<1>3. BitsOf(w, 0, 16) = 8223
  BY <1>2, FieldValue, Powers
<1> QED
  BY <1>1, <1>2, <1>3, Classes

(* The disjunction of registers: 31 is the zero register in each place.    *)
LEMMA OrrIntent ==
    ASSUME NEW rd \in Registers, NEW rn \in RegisterLike, NEW rm \in Registers,
           NEW shift \in 0 .. 3, NEW amount \in Nat,
           NEW w, w = OrrShiftedRegister(rd, rn, rm, shift, amount), NEW meant
    PROVE  Means(w) = <<"orr", rd, meant, rm, shift, amount>> <=>
             /\ NotSp(rd) /\ NotSp(rm) /\ Is64(rd) = Is64(rm)
             /\ meant = OrZero(Is64(rd), Index(rn) % 32)
             /\ amount < 32 + 32 * Is64(rd)
<1>1. /\ rd \in RegisterLike /\ rm \in RegisterLike /\ Is64(rd) \in {0, 1}
      /\ Index(rd) \in Int /\ Index(rm) \in Int /\ Index(rn) \in Int
      /\ Index(rd) % 32 = Index(rd) /\ Index(rm) % 32 = Index(rm)
  BY RegisterFields, RegisterKind
<1>2. /\ w \in MachineWords /\ w[31] = Is64(rd)
      /\ <<w[28], w[27], w[26], w[25], w[24]>> = <<0, 1, 0, 1, 0>> /\ w[21] = 0
      /\ Holds(w, 29, 31, 1) /\ Holds(w, 22, 24, shift) /\ Holds(w, 16, 21, Index(rm))
      /\ Holds(w, 10, 16, amount) /\ Holds(w, 5, 10, Index(rn)) /\ Holds(w, 0, 5, Index(rd))
  <2>1. OrrWord(w, rd, rn, rm, shift, amount)
    BY <1>1, OrrBits
  <2> QED
    BY <2>1 DEF OrrWord
<1>3. Means(w) = OrrMeans(w)
  BY <1>2, Classes
<1>4. /\ BitsOf(w, 29, 31) = 1 /\ BitsOf(w, 22, 24) = shift /\ BitsOf(w, 16, 21) = Index(rm)
      /\ BitsOf(w, 10, 16) = amount % 64 /\ BitsOf(w, 5, 10) = Index(rn) % 32
      /\ BitsOf(w, 0, 5) = Index(rd)
  <2>1. shift \in Int /\ shift % 4 = shift
    OBVIOUS
  <2> QED
    BY <1>1, <1>2, <2>1, Fields
<1>5. w[15] = (amount \div 32) % 2
  BY <1>2, Powers DEF Holds, Bit
<1>6. amount % 64 = amount /\ (Is64(rd) = 1 \/ w[15] = 0) <=> amount < 32 + 32 * Is64(rd)
  BY <1>1, <1>5
<1>7. OrrMeans(w) =
        IF Is64(rd) = 1 \/ w[15] = 0
        THEN <<"orr", OrZero(Is64(rd), Index(rd)), OrZero(Is64(rd), Index(rn) % 32),
               OrZero(Is64(rd), Index(rm)), shift, amount % 64>>
        ELSE Undefined
  BY <1>2, <1>4 DEF OrrMeans
<1>8. /\ OrZero(Is64(rd), Index(rd)) = rd <=> NotSp(rd)
      /\ OrZero(Is64(rd), Index(rm)) = rm <=> Is64(rd) = Is64(rm) /\ NotSp(rm)
  BY <1>1, RegisterFields
<1> QED
  BY <1>3, <1>6, <1>7, <1>8 DEF Undefined

(* Loads and stores with a scaled offset.                                  *)
LEMMA UnsignedIntent ==
    ASSUME NEW opc \in {0, 1}, NEW imm12 \in Nat, NEW rn \in Registers, NEW rt \in Registers,
           NEW w, w = LoadStoreRegisterUnsignedImmediate(opc, imm12, rn, rt),
           NEW name, name = <<"str", "ldr">>[opc + 1]
    PROVE  Means(w) = <<name, rt, rn, "scaled", imm12>> <=>
             NotSp(rt) /\ Is64(rn) = 1 /\ imm12 < 4096
<1>1. /\ rt \in RegisterLike /\ rn \in RegisterLike /\ Is64(rt) \in {0, 1}
      /\ Index(rt) \in Int /\ Index(rn) \in Int
      /\ Index(rt) % 32 = Index(rt) /\ Index(rn) % 32 = Index(rn)
  BY RegisterFields
<1>2. /\ w \in MachineWords
      /\ <<w[29], w[28], w[27], w[26], w[25]>> = <<1, 1, 1, 0, 0>>
      /\ w[31] = 1 /\ w[30] = Is64(rt)
      /\ <<w[24], w[23], w[22]>> = <<1, 0, opc>>
      /\ Holds(w, 10, 22, imm12) /\ Holds(w, 5, 10, Index(rn)) /\ Holds(w, 0, 5, Index(rt))
  BY <1>1, UnsignedBits
<1>3. Means(w) = LoadStoreMeans(w)
  BY <1>2, Classes
<1>4. /\ BitsOf(w, 0, 5) = Index(rt) /\ BitsOf(w, 5, 10) = Index(rn)
      /\ BitsOf(w, 10, 22) = imm12 % 4096
  BY <1>1, <1>2, Fields
<1>5. LoadStoreMeans(w) = <<name, OrZero(Is64(rt), Index(rt)), OrSp(1, Index(rn)), "scaled",
                            imm12 % 4096>>
  BY <1>2, <1>4 DEF LoadStoreMeans
<1>6. /\ OrZero(Is64(rt), Index(rt)) = rt <=> NotSp(rt)
      /\ OrSp(1, Index(rn)) = rn <=> Is64(rn) = 1
  BY <1>1, RegisterFields
<1>7. imm12 % 4096 = imm12 <=> imm12 < 4096
  OBVIOUS
<1> QED
  BY <1>3, <1>5, <1>6, <1>7

(* The low nine bits of a number, the highest of them a sign.              *)
Signed9(n) == (n % 512) - (IF n % 512 >= 256 THEN 512 ELSE 0)

(* Loads and stores with an offset in bytes.                               *)
LEMMA UnscaledIntent ==
    ASSUME NEW opc \in {0, 1}, NEW imm9 \in Int, NEW rn \in Registers, NEW rt \in Registers
    PROVE  Means(LoadStoreRegisterUnscaledImmediate(opc, imm9, rn, rt)) =
             <<<<"str", "ldr">>[opc + 1], OrZero(Is64(rt), Index(rt)), OrSp(1, Index(rn)),
               "unscaled", Signed9(imm9)>>
<1>0. PICK w : w = LoadStoreRegisterUnscaledImmediate(opc, imm9, rn, rt)
  OBVIOUS
<1>1. /\ rt \in RegisterLike /\ rn \in RegisterLike /\ Is64(rt) \in {0, 1}
      /\ Index(rt) \in Int /\ Index(rn) \in Int
      /\ Index(rt) % 32 = Index(rt) /\ Index(rn) % 32 = Index(rn)
  BY RegisterFields
<1>2. /\ w \in MachineWords
      /\ <<w[29], w[28], w[27], w[26], w[25]>> = <<1, 1, 1, 0, 0>>
      /\ w[31] = 1 /\ w[30] = Is64(rt)
      /\ <<w[24], w[23], w[22], w[21], w[11], w[10]>> = <<0, 0, opc, 0, 0, 0>>
      /\ Holds(w, 12, 21, imm9) /\ Holds(w, 5, 10, Index(rn)) /\ Holds(w, 0, 5, Index(rt))
  BY <1>0, <1>1, UnscaledBits
<1>3. Means(w) = LoadStoreMeans(w)
  BY <1>2, Classes
<1>4. BitsOf(w, 0, 5) = Index(rt) /\ BitsOf(w, 5, 10) = Index(rn) /\ BitsOf(w, 10, 12) = 0
  BY <1>1, <1>2, Fields, TwoBits
<1>5. LoadStoreMeans(w) =
        <<<<"str", "ldr">>[opc + 1], OrZero(Is64(rt), Index(rt)), OrSp(1, Index(rn)), "unscaled",
          SignedBits(w, 12, 21)>>
  BY <1>2, <1>4 DEF LoadStoreMeans
<1>6. SignedBits(w, 12, 21) = Signed9(imm9)
  BY <1>2, Signed DEF Signed9
<1> QED
  BY <1>0, <1>3, <1>5, <1>6

(* Loads and stores with an offset in a register: the extend decides what  *)
(* it is, and the amount is none or the size of what is loaded.            *)
LEMMA OffsetIntent ==
    ASSUME NEW opc \in {0, 1}, NEW rt \in Registers, NEW rn \in Registers, NEW rm \in Registers,
           NEW extend \in ExtendTypes, NEW amount \in Nat,
           NEW w, w = LoadStoreRegisterOffset(opc, rt, rn, rm, extend, amount),
           NEW name, name = <<"str", "ldr">>[opc + 1]
    PROVE  Means(w) = <<name, rt, rn, "register", rm, extend, amount>> <=>
             FitsOffset(rt, rn, rm, extend, amount)
<1> DEFINE option == CreateOption(extend)
<1>1. /\ rt \in RegisterLike /\ rn \in RegisterLike /\ rm \in RegisterLike /\ Is64(rt) \in {0, 1}
      /\ Index(rt) \in Int /\ Index(rn) \in Int /\ Index(rm) \in Int
      /\ Index(rt) % 32 = Index(rt) /\ Index(rn) % 32 = Index(rn) /\ Index(rm) % 32 = Index(rm)
  BY RegisterFields
<1>2. /\ w \in MachineWords
      /\ <<w[29], w[28], w[27], w[26], w[25]>> = <<1, 1, 1, 0, 0>>
      /\ w[31] = 1 /\ w[30] = Is64(rt)
      /\ <<w[24], w[23], w[22], w[21], w[11], w[10]>> = <<0, 0, opc, 1, 1, 0>>
      /\ w[12] = CreateS(rt, amount)
      /\ Holds(w, 13, 16, option) /\ Holds(w, 16, 21, Index(rm))
      /\ Holds(w, 5, 10, Index(rn)) /\ Holds(w, 0, 5, Index(rt))
  BY <1>1, OffsetBits
<1>3. Means(w) = LoadStoreMeans(w)
  BY <1>2, Classes
<1>4. option \in {0, 2, 3, 6, 7} /\ (option = 0 <=> extend \notin DOMAIN Extends)
  BY DEF CreateOption, Extends, ExtendTypes
<1>5. /\ BitsOf(w, 0, 5) = Index(rt) /\ BitsOf(w, 5, 10) = Index(rn) /\ BitsOf(w, 10, 12) = 2
      /\ BitsOf(w, 16, 21) = Index(rm) /\ BitsOf(w, 13, 16) = option
  <2>1. option \in Int /\ option % 8 = option
    BY <1>4
  <2> QED
    BY <1>1, <1>2, <2>1, Fields, TwoBits
<1>6. w[13] = option % 2
  BY <1>2, <1>4, Powers DEF Holds, Bit
<1>7. LoadStoreMeans(w) =
        IF option = 0 THEN Undefined
        ELSE <<name, OrZero(Is64(rt), Index(rt)), OrSp(1, Index(rn)), "register",
               OrZero(option % 2, Index(rm)), ExtendNames[option],
               CreateS(rt, amount) * (2 + Is64(rt))>>
  <2>1. option \in DOMAIN ExtendNames <=> option # 0
    BY <1>4 DEF ExtendNames
  <2> HIDE DEF option
  <2> QED
    BY <1>2, <1>5, <1>6, <2>1 DEF LoadStoreMeans
<1>8. /\ OrZero(Is64(rt), Index(rt)) = rt <=> NotSp(rt)
      /\ OrSp(1, Index(rn)) = rn <=> Is64(rn) = 1
      /\ OrZero(option % 2, Index(rm)) = rm <=> option % 2 = Is64(rm) /\ NotSp(rm)
  <2>1. option % 2 \in {0, 1}
    BY <1>4
  <2> QED
    BY <1>1, <2>1, RegisterFields
<1>9. CreateS(rt, amount) * (2 + Is64(rt)) = amount <=> amount \in {0, 2 + Is64(rt)}
  BY <1>1 DEF CreateS
<1>10. option # 0 => /\ ExtendNames[option] = extend
                     /\ option % 2 = IF extend \in {"LSL", "SXTX"} THEN 1 ELSE 0
  BY DEF CreateOption, Extends, ExtendTypes, ExtendNames
<1> HIDE DEF option
<1>11. CASE option = 0
  BY <1>3, <1>4, <1>7, <1>11 DEF FitsOffset, Undefined
<1>12. CASE option # 0
  <2>1. Means(w) = <<name, rt, rn, "register", rm, extend, amount>> <=>
          /\ OrZero(Is64(rt), Index(rt)) = rt /\ OrSp(1, Index(rn)) = rn
          /\ OrZero(option % 2, Index(rm)) = rm
          /\ CreateS(rt, amount) * (2 + Is64(rt)) = amount
    BY <1>3, <1>7, <1>10, <1>12
  <2> QED
    BY <1>4, <1>8, <1>9, <1>10, <1>12, <2>1 DEF FitsOffset
<1> QED
  BY <1>11, <1>12

----
(* Every constructor: the word means what the caller meant exactly when    *)
(* the constructor can say it.                                             *)
Said(c) == (Means(Encode(c)) = Intent(c)) <=> Fits(c)

(* Additions and subtractions.                                             *)
LEMMA ArithmeticSaid ==
    ASSUME NEW c \in {"AddImmediate", "AddsImmediate", "SubImmediate", "SubsImmediate"}
        \X Registers \X Registers \X U32
    PROVE  Said(c)
<1>0. c[1] \in {"AddImmediate", "AddsImmediate", "SubImmediate", "SubsImmediate"}
      /\ c[2] \in Registers /\ c[3] \in Registers /\ c[4] \in U32
  OBVIOUS
<1>1. c[1] \in {"AddImmediate", "AddsImmediate", "SubImmediate", "SubsImmediate"}
      /\ c[2] \in Registers /\ c[3] \in Registers /\ c[4] \in Nat
  BY <1>0 DEF U32
<1>2. CASE c[1] = "AddImmediate"
  <2>1. Encode(c) = AddSubtractImmediate(0, 0, c[2], c[3], c[4])
    BY <1>2 DEF Encode, AddImmediate
  <2>2. Intent(c) = <<"add", c[2], c[3], c[4]>>
    BY <1>2 DEF Intent, ArithmeticNames
  <2>3. Fits(c) <=> Is64(c[2]) = Is64(c[3]) /\ Fits12(c[4])
    BY <1>2 DEF Fits
  <2>4. Means(Encode(c)) = <<"add", c[2], c[3], c[4]>> <=>
          /\ c[2] = OrSp(Is64(c[2]), Index(c[2]) % 32) /\ Is64(c[2]) = Is64(c[3]) /\ Fits12(c[4])
    <3>1. "add" = <<<<"add", "adds">>, <<"sub", "subs">>>>[0 + 1][0 + 1]
      OBVIOUS
    <3>2. c[2] \in RegisterLike
      BY <1>1, RegisterFields
    <3> QED
      BY <1>1, <2>1, <3>1, <3>2, AddSubIntent
  <2>5. c[2] = OrSp(Is64(c[2]), Index(c[2]) % 32) 
    BY <1>1, RegisterFields
  <2> QED
    BY <2>2, <2>3, <2>4, <2>5 DEF Said
<1>3. CASE c[1] = "AddsImmediate"
  <2>1. Encode(c) = AddSubtractImmediate(0, 1, c[2], c[3], c[4])
    BY <1>3 DEF Encode, AddsImmediate
  <2>2. Intent(c) = <<"adds", c[2], c[3], c[4]>>
    BY <1>3 DEF Intent, ArithmeticNames
  <2>3. Fits(c) <=> Is64(c[2]) = Is64(c[3]) /\ Fits12(c[4]) /\ NotSp(c[2])
    BY <1>3 DEF Fits
  <2>4. Means(Encode(c)) = <<"adds", c[2], c[3], c[4]>> <=>
          /\ c[2] = OrZero(Is64(c[2]), Index(c[2]) % 32) /\ Is64(c[2]) = Is64(c[3]) /\ Fits12(c[4])
    <3>1. "adds" = <<<<"add", "adds">>, <<"sub", "subs">>>>[0 + 1][1 + 1]
      OBVIOUS
    <3>2. c[2] \in RegisterLike
      BY <1>1, RegisterFields
    <3> QED
      BY <1>1, <2>1, <3>1, <3>2, AddSubIntent
  <2>5. c[2] = OrZero(Is64(c[2]), Index(c[2]) % 32) <=> NotSp(c[2])
    BY <1>1, RegisterFields
  <2> QED
    BY <2>2, <2>3, <2>4, <2>5 DEF Said
<1>4. CASE c[1] = "SubImmediate"
  <2>1. Encode(c) = AddSubtractImmediate(1, 0, c[2], c[3], c[4])
    BY <1>4 DEF Encode, SubImmediate
  <2>2. Intent(c) = <<"sub", c[2], c[3], c[4]>>
    BY <1>4 DEF Intent, ArithmeticNames
  <2>3. Fits(c) <=> Is64(c[2]) = Is64(c[3]) /\ Fits12(c[4])
    BY <1>4 DEF Fits
  <2>4. Means(Encode(c)) = <<"sub", c[2], c[3], c[4]>> <=>
          /\ c[2] = OrSp(Is64(c[2]), Index(c[2]) % 32) /\ Is64(c[2]) = Is64(c[3]) /\ Fits12(c[4])
    <3>1. "sub" = <<<<"add", "adds">>, <<"sub", "subs">>>>[1 + 1][0 + 1]
      OBVIOUS
    <3>2. c[2] \in RegisterLike
      BY <1>1, RegisterFields
    <3> QED
      BY <1>1, <2>1, <3>1, <3>2, AddSubIntent
  <2>5. c[2] = OrSp(Is64(c[2]), Index(c[2]) % 32) 
    BY <1>1, RegisterFields
  <2> QED
    BY <2>2, <2>3, <2>4, <2>5 DEF Said
<1>5. CASE c[1] = "SubsImmediate"
  <2>1. Encode(c) = AddSubtractImmediate(1, 1, c[2], c[3], c[4])
    BY <1>5 DEF Encode, SubsImmediate
  <2>2. Intent(c) = <<"subs", c[2], c[3], c[4]>>
    BY <1>5 DEF Intent, ArithmeticNames
  <2>3. Fits(c) <=> Is64(c[2]) = Is64(c[3]) /\ Fits12(c[4]) /\ NotSp(c[2])
    BY <1>5 DEF Fits
  <2>4. Means(Encode(c)) = <<"subs", c[2], c[3], c[4]>> <=>
          /\ c[2] = OrZero(Is64(c[2]), Index(c[2]) % 32) /\ Is64(c[2]) = Is64(c[3]) /\ Fits12(c[4])
    <3>1. "subs" = <<<<"add", "adds">>, <<"sub", "subs">>>>[1 + 1][1 + 1]
      OBVIOUS
    <3>2. c[2] \in RegisterLike
      BY <1>1, RegisterFields
    <3> QED
      BY <1>1, <2>1, <3>1, <3>2, AddSubIntent
  <2>5. c[2] = OrZero(Is64(c[2]), Index(c[2]) % 32) <=> NotSp(c[2])
    BY <1>1, RegisterFields
  <2> QED
    BY <2>2, <2>3, <2>4, <2>5 DEF Said
<1> QED
  BY <1>1, <1>2, <1>3, <1>4, <1>5

(* Comparisons.                                                            *)
LEMMA ComparisonSaid ==
    ASSUME NEW c \in {"CmnImmediate", "CmpImmediate"} \X Registers \X U32
    PROVE  Said(c)
<1>0. c[1] \in {"CmnImmediate", "CmpImmediate"} /\ c[2] \in Registers /\ c[3] \in U32
  OBVIOUS
<1>1. c[1] \in {"CmnImmediate", "CmpImmediate"} /\ c[2] \in Registers /\ c[3] \in Nat
  BY <1>0 DEF U32
<1>2. CASE c[1] = "CmnImmediate"
  <2>1. Encode(c) = AddSubtractImmediate(0, 1, None(c[2]), c[2], c[3])
    BY <1>2 DEF Encode, CmnImmediate, AddsImmediate
  <2>2. Intent(c) = <<"adds", Zr(Is64(c[2])), c[2], c[3]>>
    BY <1>2 DEF Intent, ArithmeticNames
  <2>3. Fits(c) <=> Fits12(c[3])
    BY <1>2 DEF Fits
  <2>4. None(c[2]) \in RegisterLike /\ Is64(None(c[2])) = Is64(c[2]) /\ Index(None(c[2])) % 32 = 31
    BY <1>1, RegisterFields
  <2>5. Means(Encode(c)) = <<"adds", Zr(Is64(c[2])), c[2], c[3]>> <=>
          /\ Zr(Is64(c[2])) = OrZero(Is64(None(c[2])), Index(None(c[2])) % 32)
          /\ Is64(None(c[2])) = Is64(c[2]) /\ Fits12(c[3])
    BY <1>1, <2>1, <2>4, AddSubIntent
  <2>6. Zr(Is64(c[2])) = OrZero(Is64(None(c[2])), Index(None(c[2])) % 32)
    BY <2>4 DEF OrZero
  <2> QED
    BY <2>2, <2>3, <2>4, <2>5, <2>6 DEF Said
<1>3. CASE c[1] = "CmpImmediate"
  <2>1. Encode(c) = AddSubtractImmediate(1, 1, None(c[2]), c[2], c[3])
    BY <1>3 DEF Encode, CmpImmediate, SubsImmediate
  <2>2. Intent(c) = <<"subs", Zr(Is64(c[2])), c[2], c[3]>>
    BY <1>3 DEF Intent, ArithmeticNames
  <2>3. Fits(c) <=> Fits12(c[3])
    BY <1>3 DEF Fits
  <2>4. None(c[2]) \in RegisterLike /\ Is64(None(c[2])) = Is64(c[2]) /\ Index(None(c[2])) % 32 = 31
    BY <1>1, RegisterFields
  <2>5. Means(Encode(c)) = <<"subs", Zr(Is64(c[2])), c[2], c[3]>> <=>
          /\ Zr(Is64(c[2])) = OrZero(Is64(None(c[2])), Index(None(c[2])) % 32)
          /\ Is64(None(c[2])) = Is64(c[2]) /\ Fits12(c[3])
    BY <1>1, <2>1, <2>4, AddSubIntent
  <2>6. Zr(Is64(c[2])) = OrZero(Is64(None(c[2])), Index(None(c[2])) % 32)
    BY <2>4 DEF OrZero
  <2> QED
    BY <2>2, <2>3, <2>4, <2>5, <2>6 DEF Said
<1> QED
  BY <1>1, <1>2, <1>3

(* Moves of 16 bits.                                                       *)
LEMMA MoveSaid ==
    ASSUME NEW c \in {"Movn", "Movz", "Movk"} \X Registers \X U16
    PROVE  Said(c)
<1>0. c[1] \in {"Movn", "Movz", "Movk"} /\ c[2] \in Registers /\ c[3] \in U16
  OBVIOUS
<1>1. c[1] \in {"Movn", "Movz", "Movk"} /\ c[2] \in Registers /\ c[3] \in Nat /\ c[3] < 65536
  BY <1>0 DEF U16
<1>2. CASE c[1] = "Movn"
  <2>1. Encode(c) = MoveWideImmediate(c[2], 0, 0, c[3])
    BY <1>2 DEF Encode, Movn
  <2>2. Intent(c) = <<"movn", c[2], c[3], 0>>
    BY <1>2 DEF Intent, ArithmeticNames
  <2>3. Fits(c) <=> NotSp(c[2])
    BY <1>2 DEF Fits
  <2>4. Means(Encode(c)) = <<"movn", c[2], c[3], 0>> <=> NotSp(c[2])
    BY <1>1, <2>1, MoveWideIntent
  <2> QED
    BY <2>2, <2>3, <2>4 DEF Said
<1>3. CASE c[1] = "Movz"
  <2>1. Encode(c) = MoveWideImmediate(c[2], 2, 0, c[3])
    BY <1>3 DEF Encode, Movz
  <2>2. Intent(c) = <<"movz", c[2], c[3], 0>>
    BY <1>3 DEF Intent, ArithmeticNames
  <2>3. Fits(c) <=> NotSp(c[2])
    BY <1>3 DEF Fits
  <2>4. Means(Encode(c)) = <<"movz", c[2], c[3], 0>> <=> NotSp(c[2])
    BY <1>1, <2>1, MoveWideIntent
  <2> QED
    BY <2>2, <2>3, <2>4 DEF Said
<1>4. CASE c[1] = "Movk"
  <2>1. Encode(c) = MoveWideImmediate(c[2], 3, 0, c[3])
    BY <1>4 DEF Encode, Movk
  <2>2. Intent(c) = <<"movk", c[2], c[3], 0>>
    BY <1>4 DEF Intent, ArithmeticNames
  <2>3. Fits(c) <=> NotSp(c[2])
    BY <1>4 DEF Fits
  <2>4. Means(Encode(c)) = <<"movk", c[2], c[3], 0>> <=> NotSp(c[2])
    BY <1>1, <2>1, MoveWideIntent
  <2> QED
    BY <2>2, <2>3, <2>4 DEF Said
<1> QED
  BY <1>1, <1>2, <1>3, <1>4

(* The registers an address goes to.                                       *)
LEMMA SixtyFour ==
    ASSUME NEW r \in Registers
    PROVE  r \in {X(i) : i \in 0 .. 30} <=> Is64(r) = 1 /\ NotSp(r)
<1>1. CASE r = SP
  BY <1>1 DEF SP, X, NotSp
<1>2. CASE r # SP
  <2>1. PICK k \in {0, 1}, i \in 0 .. 30 : r = <<k, i>>
    BY <1>2 DEF Registers
  <2> QED
    BY <1>2, <2>1 DEF X, NotSp, Is64
<1> QED
  BY <1>1, <1>2

(* Addresses relative to the program counter.                             *)
LEMMA AddressSaid ==
    ASSUME NEW c \in {"Adr", "Adrp"} \X Registers \X Distances
    PROVE  Said(c)
<1>0. c[1] \in {"Adr", "Adrp"} /\ c[2] \in Registers /\ c[3] \in Distances
  OBVIOUS
<1>1. c[2] \in Registers /\ c[3] \in Int /\ c[3] \div 65536 < 65536
  BY <1>0, SMT DEF Distances
<1>2. c[2] \in {X(i) : i \in 0 .. 30} <=> Is64(c[2]) = 1 /\ NotSp(c[2])
  BY <1>0, SixtyFour
<1>3. CASE c[1] = "Adr"
  <2>1. Encode(c) = PcRelAddressing(c[2], c[3], 0)
    BY <1>3 DEF Encode, Adr
  <2>2. Intent(c) = <<"adr", c[2], c[3]>>
    BY <1>3 DEF Intent, ArithmeticNames
  <2>3. Fits(c) <=> c[2] \in {X(i) : i \in 0 .. 30} /\ c[3] \in -2^20 .. 2^20 - 1
    BY <1>3 DEF Fits
  <2>4. Means(Encode(c)) = <<"adr", c[2], c[3]>> <=>
          Is64(c[2]) = 1 /\ NotSp(c[2]) /\ c[3] = Signed21(c[3])
    <3>1. Means(Encode(c)) = <<"adr", OrZero(1, Index(c[2])), Signed21(c[3])>>
      BY <1>1, <2>1, PcRelIntent
    <3> QED
      BY <1>1, <3>1, RegisterFields
  <2>5. c[3] = Signed21(c[3]) <=> c[3] \in -2^20 .. 2^20 - 1
    BY <1>1, Powers, SMT DEF Signed21
  <2> QED
    BY <1>2, <2>2, <2>3, <2>4, <2>5 DEF Said
<1>4. CASE c[1] = "Adrp"
  <2> DEFINE pages == ShiftRight(c[3], 12)
  <2>1. Encode(c) = PcRelAddressing(c[2], pages, 1)
    BY <1>4 DEF Encode, Adrp
  <2>2. Intent(c) = <<"adrp", c[2], c[3] \div 4096>>
    BY <1>4 DEF Intent, ArithmeticNames
  <2>3. Fits(c) <=> c[2] \in {X(i) : i \in 0 .. 30} /\ c[3] >= 0
    BY <1>4 DEF Fits
  <2>4. pages = (c[3] \div 4096) % 1048576 /\ pages \in Int
    BY <1>1, Powers, SMT DEF ShiftRight
  <2> HIDE DEF pages
  <2>5. Means(Encode(c)) = <<"adrp", c[2], c[3] \div 4096>> <=>
          Is64(c[2]) = 1 /\ NotSp(c[2]) /\ c[3] \div 4096 = Signed21(pages)
    <3>1. Means(Encode(c)) = <<"adrp", OrZero(1, Index(c[2])), Signed21(pages)>>
      BY <1>1, <2>1, <2>4, PcRelIntent
    <3> QED
      BY <1>1, <3>1, RegisterFields
  <2>6. c[3] \div 4096 = Signed21(pages) <=> c[3] >= 0
    BY <1>1, <2>4, SMT DEF Signed21
  <2> QED
    BY <1>2, <2>2, <2>3, <2>5, <2>6 DEF Said
<1> QED
  BY <1>0, <1>3, <1>4

(* Branches by a distance.                                                 *)
LEMMA BranchSaid ==
    ASSUME NEW c \in {"Branch", "BranchLink"} \X Int
    PROVE  Said(c)
<1>0. c[1] \in {"Branch", "BranchLink"} /\ c[2] \in Int
  OBVIOUS
<1>1. c[1] \in {"Branch", "BranchLink"} /\ c[2] \in Int
  BY <1>0
<1>2. CASE c[1] = "Branch"
  <2>1. Encode(c) = UnconditionalBranchImmediate(0, c[2])
    BY <1>2 DEF Encode, Branch
  <2>2. Intent(c) = <<"b", c[2]>>
    BY <1>2 DEF Intent, ArithmeticNames
  <2>3. Fits(c) <=> c[2] % 4 = 0 /\ -2^27 <= c[2] /\ c[2] < 2^27
    BY <1>2 DEF Fits
  <2> QED
    BY <1>1, <2>1, <2>2, <2>3, BranchIntent DEF Said
<1>3. CASE c[1] = "BranchLink"
  <2>1. Encode(c) = UnconditionalBranchImmediate(1, c[2])
    BY <1>3 DEF Encode, BranchLink
  <2>2. Intent(c) = <<"bl", c[2]>>
    BY <1>3 DEF Intent, ArithmeticNames
  <2>3. Fits(c) <=> c[2] % 4 = 0 /\ -2^27 <= c[2] /\ c[2] < 2^27
    BY <1>3 DEF Fits
  <2> QED
    BY <1>1, <2>1, <2>2, <2>3, BranchIntent DEF Said
<1> QED
  BY <1>1, <1>2, <1>3

(* Branches to a register.                                                 *)
LEMMA BranchRegisterSaid ==
    ASSUME NEW c \in {"BranchRegister", "Ret"} \X Registers
    PROVE  Said(c)
<1>0. c[1] \in {"BranchRegister", "Ret"} /\ c[2] \in Registers
  OBVIOUS
<1>1. c[1] \in {"BranchRegister", "Ret"} /\ c[2] \in Registers
  BY <1>0
<1>2. CASE c[1] = "BranchRegister"
  <2>1. Encode(c) = UnconditionalBranchRegister(0, c[2])
    BY <1>2 DEF Encode, BranchRegister
  <2>2. Intent(c) = <<"br", c[2]>>
    BY <1>2 DEF Intent, ArithmeticNames
  <2>3. Fits(c) <=> NotSp(c[2]) /\ Is64(c[2]) = 1
    BY <1>2 DEF Fits
  <2>4. Means(Encode(c)) = <<"br", c[2]>> <=> NotSp(c[2]) /\ Is64(c[2]) = 1
    BY <1>1, <2>1, BranchRegisterIntent
  <2> QED
    BY <2>2, <2>3, <2>4 DEF Said
<1>3. CASE c[1] = "Ret"
  <2>1. Encode(c) = UnconditionalBranchRegister(2, c[2])
    BY <1>3 DEF Encode, Ret
  <2>2. Intent(c) = <<"ret", c[2]>>
    BY <1>3 DEF Intent, ArithmeticNames
  <2>3. Fits(c) <=> NotSp(c[2]) /\ Is64(c[2]) = 1
    BY <1>3 DEF Fits
  <2>4. Means(Encode(c)) = <<"ret", c[2]>> <=> NotSp(c[2]) /\ Is64(c[2]) = 1
    BY <1>1, <2>1, BranchRegisterIntent
  <2> QED
    BY <2>2, <2>3, <2>4 DEF Said
<1> QED
  BY <1>1, <1>2, <1>3

(* The disjunction of two registers.                                       *)
LEMMA OrrSaid ==
    ASSUME NEW c \in {"OrrShiftedRegister"}
        \X Registers \X Registers \X Registers \X (0 .. 3) \X U16
    PROVE  Said(c)
<1>0. c[1] \in {"OrrShiftedRegister"} /\ c[2] \in Registers /\ c[3] \in Registers
      /\ c[4] \in Registers /\ c[5] \in 0 .. 3 /\ c[6] \in U16
  OBVIOUS
<1>1. c[1] \in {"OrrShiftedRegister"} /\ c[2] \in Registers /\ c[3] \in Registers
      /\ c[3] \in RegisterLike
      /\ c[4] \in Registers /\ c[5] \in 0 .. 3 /\ c[6] \in Nat
  BY <1>0, RegisterFields DEF U16
<1>2. CASE c[1] = "OrrShiftedRegister"
  <2>1. Encode(c) = OrrShiftedRegister(c[2], c[3], c[4], c[5], c[6])
    BY <1>2 DEF Encode
  <2>2. Intent(c) = <<"orr", c[2], c[3], c[4], c[5], c[6]>>
    BY <1>2 DEF Intent, ArithmeticNames
  <2>3. Fits(c) <=> /\ NotSp(c[2]) /\ NotSp(c[3]) /\ NotSp(c[4])
                    /\ Is64(c[2]) = Is64(c[3]) /\ Is64(c[2]) = Is64(c[4])
                    /\ c[6] < 32 + 32 * Is64(c[2])
    BY <1>2 DEF Fits
  <2>4. Means(Encode(c)) = <<"orr", c[2], c[3], c[4], c[5], c[6]>> <=>
          /\ NotSp(c[2]) /\ NotSp(c[4]) /\ Is64(c[2]) = Is64(c[4])
          /\ c[3] = OrZero(Is64(c[2]), Index(c[3]) % 32)
          /\ c[6] < 32 + 32 * Is64(c[2])
    BY <1>1, <2>1, OrrIntent
  <2>5. c[3] = OrZero(Is64(c[2]), Index(c[3]) % 32) <=> Is64(c[2]) = Is64(c[3]) /\ NotSp(c[3])
    BY <1>1, RegisterFields
  <2> QED
    BY <2>2, <2>3, <2>4, <2>5 DEF Said
<1> QED
  BY <1>1, <1>2

(* The move of a register.                                                 *)
LEMMA MovRegisterSaid ==
    ASSUME NEW c \in {"MovRegister"} \X Registers \X Registers
    PROVE  Said(c)
<1>0. c[1] \in {"MovRegister"} /\ c[2] \in Registers /\ c[3] \in Registers
  OBVIOUS
<1>1. c[1] \in {"MovRegister"} /\ c[2] \in Registers /\ c[3] \in Registers
  BY <1>0
<1>2. CASE c[1] = "MovRegister"
  <2>1. Encode(c) = OrrShiftedRegister(c[2], None(c[2]), c[3], 0, 0)
    BY <1>2 DEF Encode, MovRegister
  <2>2. Intent(c) = <<"orr", c[2], Zr(Is64(c[2])), c[3], 0, 0>>
    BY <1>2 DEF Intent, ArithmeticNames
  <2>3. Fits(c) <=> NotSp(c[2]) /\ NotSp(c[3]) /\ Is64(c[2]) = Is64(c[3])
    BY <1>2 DEF Fits
  <2>4. None(c[2]) \in RegisterLike /\ Index(None(c[2])) % 32 = 31
    BY <1>1, RegisterFields
  <2>5. Means(Encode(c)) = <<"orr", c[2], Zr(Is64(c[2])), c[3], 0, 0>> <=>
          /\ NotSp(c[2]) /\ NotSp(c[3]) /\ Is64(c[2]) = Is64(c[3])
          /\ Zr(Is64(c[2])) = OrZero(Is64(c[2]), Index(None(c[2])) % 32)
          /\ 0 < 32 + 32 * Is64(c[2])
    BY <1>1, <2>1, <2>4, OrrIntent
  <2>6. Zr(Is64(c[2])) = OrZero(Is64(c[2]), Index(None(c[2])) % 32) /\ 0 < 32 + 32 * Is64(c[2])
    BY <1>1, <2>4, RegisterFields DEF OrZero
  <2> QED
    BY <2>2, <2>3, <2>5, <2>6 DEF Said
<1> QED
  BY <1>1, <1>2

(* Loads and stores with an offset in a register.                          *)
LEMMA OffsetSaid ==
    ASSUME NEW c \in {"LdrRegisterOffset", "StrRegisterOffset"}
        \X Registers \X Registers \X Registers \X ExtendTypes \X U8
    PROVE  Said(c)
<1>0. c[1] \in {"LdrRegisterOffset", "StrRegisterOffset"} /\ c[2] \in Registers
      /\ c[3] \in Registers /\ c[4] \in Registers /\ c[5] \in ExtendTypes /\ c[6] \in U8
  OBVIOUS
<1>1. c[1] \in {"LdrRegisterOffset", "StrRegisterOffset"} /\ c[2] \in Registers
      /\ c[3] \in Registers
      /\ c[4] \in Registers /\ c[5] \in ExtendTypes /\ c[6] \in Nat
  BY <1>0 DEF U8
<1>2. CASE c[1] = "LdrRegisterOffset"
  <2>1. Encode(c) = LoadStoreRegisterOffset(1, c[2], c[3], c[4], c[5], c[6])
    BY <1>2 DEF Encode, LdrRegisterOffset
  <2>2. Intent(c) = <<"ldr", c[2], c[3], "register", c[4], c[5], c[6]>>
    BY <1>2 DEF Intent, ArithmeticNames
  <2>3. Fits(c) <=> FitsOffset(c[2], c[3], c[4], c[5], c[6])
    BY <1>2 DEF Fits
  <2>4. Means(Encode(c)) = <<"ldr", c[2], c[3], "register", c[4], c[5], c[6]>>
          <=> FitsOffset(c[2], c[3], c[4], c[5], c[6])
    <3>1. "ldr" = <<"str", "ldr">>[1 + 1]
      OBVIOUS
    <3> QED
      BY <1>1, <2>1, <3>1, OffsetIntent
  <2> QED
    BY <2>2, <2>3, <2>4 DEF Said
<1>3. CASE c[1] = "StrRegisterOffset"
  <2>1. Encode(c) = LoadStoreRegisterOffset(0, c[2], c[3], c[4], c[5], c[6])
    BY <1>3 DEF Encode, StrRegisterOffset
  <2>2. Intent(c) = <<"str", c[2], c[3], "register", c[4], c[5], c[6]>>
    BY <1>3 DEF Intent, ArithmeticNames
  <2>3. Fits(c) <=> FitsOffset(c[2], c[3], c[4], c[5], c[6])
    BY <1>3 DEF Fits
  <2>4. Means(Encode(c)) = <<"str", c[2], c[3], "register", c[4], c[5], c[6]>>
          <=> FitsOffset(c[2], c[3], c[4], c[5], c[6])
    <3>1. "str" = <<"str", "ldr">>[0 + 1]
      OBVIOUS
    <3> QED
      BY <1>1, <2>1, <3>1, OffsetIntent
  <2> QED
    BY <2>2, <2>3, <2>4 DEF Said
<1> QED
  BY <1>1, <1>2, <1>3

(* Loads and stores with an offset in bytes.                               *)
LEMMA UnscaledSaid ==
    ASSUME NEW c \in {"LdurUnscaledImmediate", "SturUnscaledImmediate"}
        \X Registers \X Registers \X Offsets
    PROVE  Said(c)
<1>0. c[1] \in {"LdurUnscaledImmediate", "SturUnscaledImmediate"} /\ c[2] \in Registers
      /\ c[3] \in Registers /\ c[4] \in Offsets
  OBVIOUS
<1>1. c[1] \in {"LdurUnscaledImmediate", "SturUnscaledImmediate"} /\ c[2] \in Registers
      /\ c[3] \in Registers
      /\ c[4] \in Int
  BY <1>0 DEF Offsets
<1>2. CASE c[1] = "LdurUnscaledImmediate"
  <2>1. Encode(c) = LoadStoreRegisterUnscaledImmediate(1, c[4], c[3], c[2])
    BY <1>2 DEF Encode, LdurUnscaledImmediate
  <2>2. Intent(c) = <<"ldr", c[2], c[3], "unscaled", c[4]>>
    BY <1>2 DEF Intent, ArithmeticNames
  <2>3. Fits(c) <=> NotSp(c[2]) /\ Is64(c[3]) = 1 /\ c[4] \in -256 .. 255
    BY <1>2 DEF Fits
  <2>4. Means(Encode(c)) = <<"ldr", OrZero(Is64(c[2]), Index(c[2])), OrSp(1, Index(c[3])),
                              "unscaled", Signed9(c[4])>>
    BY <1>1, <2>1, UnscaledIntent
  <2>5. Signed9(c[4]) = c[4] <=> c[4] \in -256 .. 255
    BY <1>1 DEF Signed9
  <2>6. /\ OrZero(Is64(c[2]), Index(c[2])) = c[2] <=> NotSp(c[2])
        /\ OrSp(1, Index(c[3])) = c[3] <=> Is64(c[3]) = 1
    BY <1>1, RegisterFields
  <2> QED
    BY <2>2, <2>3, <2>4, <2>5, <2>6 DEF Said
<1>3. CASE c[1] = "SturUnscaledImmediate"
  <2>1. Encode(c) = LoadStoreRegisterUnscaledImmediate(0, c[4], c[3], c[2])
    BY <1>3 DEF Encode, SturUnscaledImmediate
  <2>2. Intent(c) = <<"str", c[2], c[3], "unscaled", c[4]>>
    BY <1>3 DEF Intent, ArithmeticNames
  <2>3. Fits(c) <=> NotSp(c[2]) /\ Is64(c[3]) = 1 /\ c[4] \in -256 .. 255
    BY <1>3 DEF Fits
  <2>4. Means(Encode(c)) = <<"str", OrZero(Is64(c[2]), Index(c[2])), OrSp(1, Index(c[3])),
                              "unscaled", Signed9(c[4])>>
    BY <1>1, <2>1, UnscaledIntent
  <2>5. Signed9(c[4]) = c[4] <=> c[4] \in -256 .. 255
    BY <1>1 DEF Signed9
  <2>6. /\ OrZero(Is64(c[2]), Index(c[2])) = c[2] <=> NotSp(c[2])
        /\ OrSp(1, Index(c[3])) = c[3] <=> Is64(c[3]) = 1
    BY <1>1, RegisterFields
  <2> QED
    BY <2>2, <2>3, <2>4, <2>5, <2>6 DEF Said
<1> QED
  BY <1>1, <1>2, <1>3

(* Loads and stores with an offset in words.                               *)
LEMMA ScaledSaid ==
    ASSUME NEW c \in {"LdrRegisterImmediate", "StrRegisterImmediate"}
        \X Registers \X Registers \X U16
    PROVE  Said(c)
<1>0. c[1] \in {"LdrRegisterImmediate", "StrRegisterImmediate"} /\ c[2] \in Registers
      /\ c[3] \in Registers /\ c[4] \in U16
  OBVIOUS
<1>1. c[1] \in {"LdrRegisterImmediate", "StrRegisterImmediate"} /\ c[2] \in Registers
      /\ c[3] \in Registers
      /\ c[4] \in Nat
  BY <1>0 DEF U16
<1>2. CASE c[1] = "LdrRegisterImmediate"
  <2>1. Encode(c) = LoadStoreRegisterUnsignedImmediate(1, c[4], c[3], c[2])
    BY <1>2 DEF Encode, LdrRegisterImmediate
  <2>2. Intent(c) = <<"ldr", c[2], c[3], "scaled", c[4]>>
    BY <1>2 DEF Intent, ArithmeticNames
  <2>3. Fits(c) <=> NotSp(c[2]) /\ Is64(c[3]) = 1 /\ c[4] < 4096
    BY <1>2 DEF Fits
  <2>4. Means(Encode(c)) = <<"ldr", c[2], c[3], "scaled", c[4]>>
          <=> NotSp(c[2]) /\ Is64(c[3]) = 1 /\ c[4] < 4096
    <3>1. "ldr" = <<"str", "ldr">>[1 + 1]
      OBVIOUS
    <3> QED
      BY <1>1, <2>1, <3>1, UnsignedIntent
  <2> QED
    BY <2>2, <2>3, <2>4 DEF Said
<1>3. CASE c[1] = "StrRegisterImmediate"
  <2>1. Encode(c) = LoadStoreRegisterUnsignedImmediate(0, c[4], c[3], c[2])
    BY <1>3 DEF Encode, StrRegisterImmediate
  <2>2. Intent(c) = <<"str", c[2], c[3], "scaled", c[4]>>
    BY <1>3 DEF Intent, ArithmeticNames
  <2>3. Fits(c) <=> NotSp(c[2]) /\ Is64(c[3]) = 1 /\ c[4] < 4096
    BY <1>3 DEF Fits
  <2>4. Means(Encode(c)) = <<"str", c[2], c[3], "scaled", c[4]>>
          <=> NotSp(c[2]) /\ Is64(c[3]) = 1 /\ c[4] < 4096
    <3>1. "str" = <<"str", "ldr">>[0 + 1]
      OBVIOUS
    <3> QED
      BY <1>1, <2>1, <3>1, UnsignedIntent
  <2> QED
    BY <2>2, <2>3, <2>4 DEF Said
<1> QED
  BY <1>1, <1>2, <1>3

(* Every call that compiles.                                               *)
LEMMA CallsSaid ==
    ASSUME NEW c \in Calls
    PROVE  Said(c)
<1>1. c = <<"Nop">> => Said(c)
  BY NopIntent DEF Said, Encode, Intent, Fits
<1>2. c \in {"Branch", "BranchLink"} \X Distances => c \in {"Branch", "BranchLink"} \X Int
  BY DEF Distances
<1> QED
  BY <1>1, <1>2, ArithmeticSaid, ComparisonSaid, MoveSaid, AddressSaid, BranchSaid,
     BranchRegisterSaid, OrrSaid, MovRegisterSaid, OffsetSaid, UnscaledSaid, ScaledSaid, Zenon
     DEF Calls

(* Every word patched is a record whose meaning is as its flag says.       *)
MeantInv == DOMAIN mem = Words /\ EncodedAsMeant

(* The invariant, action by action: only Write changes what is patched,    *)
(* and the caller is one of those that patch words or branches.            *)
LEMMA MeantInit == PatchInit => MeantInv
BY DEF PatchInit, MeantInv, EncodedAsMeant, Original

LEMMA WriteIsMeant ==
    ASSUME MeantInv, m_Current \in Words, NEW call, NEW intent, Write(call, intent),
           (Means(Encode(call)) = intent) <=> Fits(call)
    PROVE  MeantInv'
<1> DEFINE new == [means |-> Means(Encode(call)), intent |-> intent, fits |-> Fits(call)]
<1>1. mem' = [mem EXCEPT ![m_Current] = new]
  BY DEF Write
<1>2. DOMAIN mem' = Words
  BY <1>1 DEF MeantInv
<1>3. (new.means = new.intent) <=> new.fits
  OBVIOUS
<1> HIDE DEF new
<1>4. \A a \in Words : (mem'[a].means = mem'[a].intent) <=> mem'[a].fits
  <2> TAKE a \in Words
  <2>1. CASE a = m_Current
    BY <1>1, <1>3, <2>1 DEF MeantInv
  <2>2. CASE a # m_Current
    <3>1. mem'[a] = mem[a]
      BY <1>1, <2>2 DEF MeantInv
    <3> QED
      BY <3>1, Zenon DEF MeantInv, EncodedAsMeant
  <2> QED
    BY <2>1, <2>2
<1> QED
  BY <1>2, <1>4 DEF MeantInv, EncodedAsMeant

LEMMA MemKeepsMeant == ASSUME MeantInv, UNCHANGED mem PROVE MeantInv'
BY DEF MeantInv, EncodedAsMeant

LEMMA PatchNextKeepsMeant == ASSUME MeantInv, PatchNext PROVE MeantInv'
<1>1. ASSUME NEW a \in Words, Open(a) PROVE MeantInv'
  BY <1>1, MemKeepsMeant DEF Open
<1>2. ASSUME NEW a \in Words, Seek(a) PROVE MeantInv'
  BY <1>2, MemKeepsMeant DEF Seek
<1>3. ASSUME Unpatched, NEW c \in CallsAt[m_Current], WriteInst(c) PROVE MeantInv'
  <2>1. m_Current \in Words /\ c \in Calls
    BY <1>3, CallsAssumption, Zenon DEF Unpatched
  <2>2. (Means(Encode(c)) = Intent(c)) <=> Fits(c)
    BY <2>1, CallsSaid, Zenon DEF Said
  <2> QED
    BY <1>3, <2>1, <2>2, WriteIsMeant, Zenon DEF WriteInst
<1>4. ASSUME Unpatched, NEW t \in TargetsAt[m_Current], BranchInst(t) \/ BranchLinkInst(t)
      PROVE  MeantInv'
  <2>1. m_Current \in Words
    BY <1>4 DEF Unpatched
  <2>2. t - m_Current \in Int
    BY <1>4, <2>1, WordsAssumption, TargetsAssumption
  <2>3. ASSUME NEW n, n \in {"Branch", "BranchLink"}
        PROVE  (Means(Encode(<<n, t - m_Current>>)) = Intent(<<n, t - m_Current>>))
                  <=> Fits(<<n, t - m_Current>>)
    <3>1. <<n, t - m_Current>> \in {"Branch", "BranchLink"} \X Int
      BY <2>2, <2>3
    <3> QED
      BY <3>1, BranchSaid, Zenon DEF Said
  <2>4. CASE BranchInst(t)
    <3>1. Write(<<"Branch", t - m_Current>>, <<"b", t - m_Current>>)
      BY <2>4 DEF BranchInst, RelativeAddressFromBase
    <3>2. Intent(<<"Branch", t - m_Current>>) = <<"b", t - m_Current>>
      BY DEF Intent, ArithmeticNames
    <3> QED
      BY <2>1, <2>3, <3>1, <3>2, WriteIsMeant
  <2>5. CASE BranchLinkInst(t)
    <3>1. Write(<<"BranchLink", t - m_Current>>, <<"bl", t - m_Current>>)
      BY <2>5 DEF BranchLinkInst, RelativeAddressFromBase
    <3>2. Intent(<<"BranchLink", t - m_Current>>) = <<"bl", t - m_Current>>
      BY DEF Intent, ArithmeticNames
    <3> QED
      BY <2>1, <2>3, <3>1, <3>2, WriteIsMeant
  <2> QED
    BY <1>4, <2>4, <2>5
<1>5. ASSUME Close PROVE MeantInv'
  BY <1>5, MemKeepsMeant DEF Close
<1> QED
  BY <1>1, <1>2, <1>3, <1>4, <1>5 DEF PatchNext

(* Whatever is patched, with whatever call of a constructor that compiles, *)
(* at the edge of its fields or beyond, and wherever a branch leads to:    *)
(* the word means what the caller meant exactly when Fits says that the    *)
(* constructor can say it. No operand that fits is garbled (SetBits over   *)
(* the fields of a base class, instructions.hpp), and no operand that does *)
(* not fit is right by accident.                                           *)
THEOREM EncodersSayWhatIsMeant == Spec => []EncodedAsMeant
<1>1. Init => MeantInv
  BY MeantInit DEF Init
<1>2. MeantInv /\ [Next]_vars => MeantInv'
  <2> SUFFICES ASSUME MeantInv, [Next]_vars PROVE MeantInv'
    OBVIOUS
  <2>1. CASE PatchNext
    BY <2>1, PatchNextKeepsMeant
  <2>2. CASE UNCHANGED patchVars
    BY <2>2, MemKeepsMeant DEF patchVars
  <2> QED
    BY <2>1, <2>2 DEF Next, vars
<1>3. MeantInv => EncodedAsMeant
  BY DEF MeantInv
<1> QED
  BY <1>1, <1>2, <1>3, PTL DEF Spec
====
