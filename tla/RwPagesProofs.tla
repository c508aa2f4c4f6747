---- MODULE RwPagesProofs ----
(***************************************************************************)
(* Whatever the order in which claims come and go, the list of             *)
(* reservations holds the reserved regions, the views are exact, the       *)
(* kernel has nothing to refuse, and the virtual memory manager implements *)
(* the address space its users see.                                        *)
(***************************************************************************)
EXTENDS RwPages, FiniteSetTheorems, TLAPS

(***************************************************************************)
(* Integers                                                                *)
(***************************************************************************)
LEMMA DivOfMultiple ==
    ASSUME NEW m \in Nat \ {0}, NEW p \in Nat, NEW r \in 0 .. m - 1
    PROVE  (p * m + r) \div m = p
OBVIOUS

LEMMA DivMod ==
    ASSUME NEW m \in Nat \ {0}, NEW a \in Nat
    PROVE  /\ a % m \in 0 .. m - 1
           /\ a = (a \div m) * m + (a % m)
           /\ a \div m \in Nat
OBVIOUS

LEMMA LeastOne ==
    ASSUME NEW T \in SUBSET Nat, T # {}
    PROVE  \E n \in T : \A m \in T : n <= m
<1>1. PICK x \in T : \A y \in T : ~(<<y, x>> \in OpToRel(<, Nat))
  BY WFMin, NatLessThanWellFounded, Zenon
<1>2. \A y \in T : ~(y < x)
  BY <1>1 DEF OpToRel
<1> QED
  BY <1>2

(* A claim inside the module has a page, and its pages are the module's.   *)
LEMMA PagesOfRequest ==
    ASSUME NEW m \in Nat \ {0}, NEW count \in Nat,
           NEW ro \in Nat, NEW size \in Nat \ {0}, ro + size <= count * m
    PROVE  /\ (size + m - 1) \div m \in Nat \ {0}
           /\ (ro \div m) + ((size + m - 1) \div m) <= count
<1> DEFINE q == ro \div m
           n == (size + m - 1) \div m
<1>1. q \in Nat /\ q * m <= ro
  BY DivMod
<1>2. n \in Nat /\ n * m <= size + m - 1 /\ size + m - 1 < n * m + m
  <2>1. size + m - 1 \in Nat
    OBVIOUS
  <2> QED
    BY <2>1, DivMod
<1>3. n # 0
  BY <1>2
<1>4. q * m + n * m < (count + 1) * m
  BY <1>1, <1>2
<1>5. (q + n) * m < (count + 1) * m
  BY <1>1, <1>2, <1>4
<1>6. q + n < count + 1
  <2> DEFINE a == q + n
             b == count + 1
  <2>1. a \in Nat /\ b \in Nat /\ a * m < b * m
    BY <1>1, <1>2, <1>5
  <2> HIDE DEF a, b
  <2>2. a < b
    BY <2>1
  <2> QED
    BY <2>2 DEF a, b
<1> QED
  BY <1>1, <1>2, <1>3, <1>6

----
(* The list of reservations                                                *)

(* s is the list: no object twice, and both directions agree.              *)
LinkedBy(s, h, n, p) ==
    /\ s \in Seq(Claims)
    /\ \A i, j \in 1 .. Len(s) : s[i] = s[j] => i = j
    /\ h = IF Len(s) = 0 THEN NULL ELSE s[1]
    /\ \A i \in 1 .. Len(s) : n[s[i]] = IF i = Len(s) THEN NULL ELSE s[i + 1]
    /\ \A i \in 1 .. Len(s) : p[s[i]] = IF i = 1 THEN NULL ELSE s[i - 1]

Linked(s) == LinkedBy(s, head, next, prev)

(* The first n of the list.                                                *)
FirstOf(s, n) == IF n <= Len(s) THEN SubSeq(s, 1, n) ELSE s

N == Cardinality(Claims)

LEMMA CountOfClaims == N \in Nat
BY FS_CardinalityType, SpaceAssumption DEF N

LEMMA LengthOfList ==
    ASSUME NEW s \in Seq(Claims), \A i, j \in 1 .. Len(s) : s[i] = s[j] => i = j
    PROVE  Len(s) <= N
<1>1. s \in Injection(1 .. Len(s), Claims)
  BY DEF Injection, IsInjective
<1>2. Cardinality(1 .. Len(s)) <= N
  BY <1>1, FS_Injection, SpaceAssumption, Zenon DEF N
<1> QED
  BY <1>2, FS_Interval

LEMMA RangeOfList ==
    ASSUME NEW s \in Seq(Claims), \A i, j \in 1 .. Len(s) : s[i] = s[j] => i = j
    PROVE  Cardinality(Range(s)) = Len(s)
<1>1. s \in Bijection(1 .. Len(s), Range(s))
  BY DEF Bijection, Injection, IsInjective, Surjection, Range
<1>2. IsFiniteSet(1 .. Len(s)) /\ Cardinality(1 .. Len(s)) = Len(s)
  <2>1. 1 \in Int /\ Len(s) \in Int
    OBVIOUS
  <2>2. /\ IsFiniteSet(1 .. Len(s))
        /\ Cardinality(1 .. Len(s)) = IF 1 > Len(s) THEN 0 ELSE Len(s) - 1 + 1
    BY <2>1, FS_Interval, Zenon
  <2> QED
    BY <2>2
<1> QED
  BY <1>1, <1>2, FS_Bijection, Zenon DEF ExistsBijection

(* The step of the walk from what it has seen.                             *)
After(seen, n, h, nx) ==
    LET here == IF seen = <<>> THEN h ELSE nx[seen[Len(seen)]]
    IN  IF here = NULL \/ Len(seen) < n - 1 THEN seen ELSE Append(seen, here)

LEMMA StepOfWalk ==
    ASSUME NEW s, NEW h, NEW nx, NEW p, LinkedBy(s, h, nx, p), NEW n \in Nat \ {0}
    PROVE  After(FirstOf(s, n - 1), n, h, nx) = FirstOf(s, n)
<1> USE DEF LinkedBy
<1>1. CASE n <= Len(s)
  <2>1. Len(FirstOf(s, n - 1)) = n - 1
    BY <1>1 DEF FirstOf
  <2>2. n # 1 => FirstOf(s, n - 1)[n - 1] = s[n - 1]
    BY <1>1 DEF FirstOf
  <2>3. s[n] # NULL
    BY <1>1, SpaceAssumption
  <2>4. (IF FirstOf(s, n - 1) = <<>> THEN h ELSE nx[FirstOf(s, n - 1)[Len(FirstOf(s, n - 1))]]) = s[n]
    BY <1>1, <2>1, <2>2
  <2>5. Append(FirstOf(s, n - 1), s[n]) = FirstOf(s, n)
    BY <1>1 DEF FirstOf
  <2> QED
    BY <2>1, <2>3, <2>4, <2>5 DEF After
<1>2. CASE n = Len(s) + 1
  <2>1. FirstOf(s, n - 1) = s /\ FirstOf(s, n) = s
    BY <1>2 DEF FirstOf
  <2> QED
    BY <1>2, <2>1 DEF After
<1>3. CASE n > Len(s) + 1
  <2>1. FirstOf(s, n - 1) = s /\ FirstOf(s, n) = s
    BY <1>3 DEF FirstOf
  <2> QED
    BY <1>3, <2>1 DEF After
<1> QED
  BY <1>1, <1>2, <1>3

(* The walk sees the first of the list, one more at each step: the         *)
(* sequence of these is what its equation asks for.                        *)
LEMMA WalkEquation ==
    ASSUME NEW s, Linked(s)
    PROVE  Visited = [n \in 0 .. N |-> IF n = 0 THEN <<>> ELSE After(Visited[n - 1], n, head, next)]
<1> DEFINE Seen(v) == [n \in 0 .. N |-> IF n = 0 THEN <<>> ELSE After(v[n - 1], n, head, next)]
           firsts == [n \in 0 .. N |-> FirstOf(s, n)]
<1>1. firsts = Seen(firsts)
  <2>1. ASSUME NEW n \in 0 .. N
        PROVE  firsts[n] = (IF n = 0 THEN <<>> ELSE After(firsts[n - 1], n, head, next))
    <3>1. CASE n = 0
      BY <3>1 DEF FirstOf, Linked, LinkedBy
    <3>2. CASE n # 0
      <4>1. n \in Nat \ {0} /\ n - 1 \in 0 .. N
        BY <3>2, CountOfClaims
      <4>2. After(FirstOf(s, n - 1), n, head, next) = FirstOf(s, n)
        BY <4>1, StepOfWalk DEF Linked
      <4> QED
        BY <3>2, <4>1, <4>2
    <3> QED
      BY <3>1, <3>2
  <2> QED
    BY <2>1, Zenon
<1>2. Visited = CHOOSE v : v = Seen(v)
  BY Zenon DEF Visited, After, N
<1> QED
  BY <1>1, <1>2, Zenon

LEMMA WalkSeesList ==
    ASSUME NEW s, Linked(s)
    PROVE  Walk = s
<1> DEFINE wrong == { n \in 0 .. N : Visited[n] # FirstOf(s, n) }
<1>1. wrong = {}
  <2> SUFFICES ASSUME wrong # {} PROVE FALSE
    OBVIOUS
  <2>1. wrong \in SUBSET Nat
    BY CountOfClaims
  <2>2. PICK n \in wrong : \A m \in wrong : n <= m
    BY <2>1, LeastOne
  <2>3. Visited[n] = IF n = 0 THEN <<>> ELSE After(Visited[n - 1], n, head, next)
    BY WalkEquation, <2>2, Zenon
  <2>4. CASE n = 0
    <3>1. Visited[0] = <<>>
      BY <2>3, <2>4, Zenon
    <3>2. FirstOf(s, 0) = <<>>
      BY DEF FirstOf, Linked, LinkedBy
    <3> QED
      BY <2>2, <2>4, <3>1, <3>2
  <2>5. CASE n # 0
    <3>1. n \in Nat \ {0} /\ n - 1 \in 0 .. N /\ ~(n <= n - 1)
      BY <2>2, <2>5, CountOfClaims
    <3>2. Visited[n - 1] = FirstOf(s, n - 1)
      BY <2>2, <3>1
    <3>3. After(FirstOf(s, n - 1), n, head, next) = FirstOf(s, n)
      BY <3>1, StepOfWalk DEF Linked
    <3> QED
      BY <2>2, <2>3, <2>5, <3>2, <3>3
  <2> QED
    BY <2>4, <2>5
<1>2. N \in 0 .. N /\ Walk = Visited[N]
  BY CountOfClaims DEF Walk, N
<1>3. Len(s) <= N
  BY LengthOfList DEF Linked, LinkedBy
<1>4. FirstOf(s, N) = s
  BY <1>3, CountOfClaims DEF FirstOf, Linked, LinkedBy
<1>5. Visited[N] = FirstOf(s, N)
  BY <1>1, <1>2
<1> QED
  BY <1>2, <1>4, <1>5
----
(* Adding and removing                                                     *)

Links == [Claims -> Claims \cup {NULL}]

Pushed(c, s) == [i \in 1 .. Len(s) + 1 |-> IF i = 1 THEN c ELSE s[i - 1]]

(* s without its k-th.                                                     *)
Without(s, k) == [i \in 1 .. Len(s) - 1 |-> IF i < k THEN s[i] ELSE s[i + 1]]

LEMMA InRange ==
    ASSUME NEW f, NEW S, DOMAIN f = S
    PROVE  /\ \A x \in Range(f) : \E i \in S : x = f[i]
           /\ \A i \in S : f[i] \in Range(f)
BY DEF Range

(* What adding c to the list s does to the links n and p.                  *)
AddedTo(s, c, h, n, p, n2, p2) ==
    /\ {n, p, n2, p2} \subseteq Links
    /\ c \in Claims /\ c \notin Range(s)
    /\ n2[c] = h /\ p2[c] = NULL
    /\ \A d \in Claims \ {c} : n2[d] = n[d]
    /\ \A d \in Claims \ {c} : p2[d] = IF d = h THEN c ELSE p[d]

(* What removing the k-th of s does to them.                               *)
RemovedFrom(s, k, n, p, n2, p2) ==
    LET c == s[k]
    IN  /\ {n, p, n2, p2} \subseteq Links
        /\ k \in 1 .. Len(s)
        /\ \A d \in Claims \ {c} : n2[d] = IF d = p[c] THEN n[c] ELSE n[d]
        /\ \A d \in Claims \ {c} : p2[d] = IF d = n[c] THEN p[c] ELSE p[d]

LEMMA PushedIsLinked ==
    ASSUME NEW s, NEW h, NEW n, NEW p, NEW c, NEW n2, NEW p2,
           LinkedBy(s, h, n, p), AddedTo(s, c, h, n, p, n2, p2)
    PROVE  /\ LinkedBy(Pushed(c, s), c, n2, p2)
           /\ Range(Pushed(c, s)) = Range(s) \cup {c}
<1> DEFINE t == Pushed(c, s)
<1>10. /\ n \in Links /\ p \in Links /\ n2 \in Links /\ p2 \in Links
       /\ c \in Claims /\ c \notin Range(s)
       /\ n2[c] = h /\ p2[c] = NULL
       /\ \A d \in Claims \ {c} : n2[d] = n[d]
       /\ \A d \in Claims \ {c} : p2[d] = IF d = h THEN c ELSE p[d]
  BY DEF AddedTo
<1> USE <1>10 DEF LinkedBy
<1>1. t \in Seq(Claims) /\ Len(t) = Len(s) + 1 /\ t[1] = c
  BY DEF Pushed
<1>2. \A i \in 1 .. Len(s) : s[i] # c /\ s[i] \in Claims
  BY DEF Range
<1>3. \A i \in 1 .. Len(t) : i # 1 => i - 1 \in 1 .. Len(s) /\ t[i] = s[i - 1] /\ t[i] # c
  BY <1>1, <1>2 DEF Pushed
<1>9. \A i \in 1 .. Len(s) : i + 1 \in 1 .. Len(t) /\ t[i + 1] = s[i]
  BY <1>1 DEF Pushed
<1> HIDE DEF t
<1>4. \A i, j \in 1 .. Len(t) : t[i] = t[j] => i = j
  <2>1. ASSUME NEW i \in 1 .. Len(t), NEW j \in 1 .. Len(t), t[i] = t[j]
        PROVE  i = j
    <3>1. CASE i = 1
      BY <2>1, <3>1, <1>1, <1>3, Zenon
    <3>2. CASE j = 1
      BY <2>1, <3>2, <1>1, <1>3, Zenon
    <3>3. CASE i # 1 /\ j # 1
      <4>1. i - 1 \in 1 .. Len(s) /\ j - 1 \in 1 .. Len(s) /\ s[i - 1] = s[j - 1]
        BY <2>1, <3>3, <1>3
      <4>2. i - 1 = j - 1
        BY <4>1
      <4> QED
        BY <4>2, <1>1
    <3> QED
      BY <3>1, <3>2, <3>3
  <2> QED
    BY <2>1
<1>5. ASSUME NEW i \in 1 .. Len(t)
      PROVE  n2[t[i]] = IF i = Len(t) THEN NULL ELSE t[i + 1]
  <2>1. CASE i = 1
    BY <2>1, <1>1, <1>3
  <2>2. CASE i # 1
    <3>1. i - 1 \in 1 .. Len(s) /\ t[i] = s[i - 1]
      BY <2>2, <1>3
    <3>2. n2[t[i]] = n[s[i - 1]]
      BY <3>1, <1>2
    <3>3. n[s[i - 1]] = IF i - 1 = Len(s) THEN NULL ELSE s[i]
      BY <3>1
    <3>4. i # Len(t) => t[i + 1] = s[i]
      <4>1. i # Len(t) => i \in 1 .. Len(s)
        BY <1>1
      <4> QED
        BY <4>1, <1>9
    <3> QED
      BY <3>2, <3>3, <3>4, <1>1
  <2> QED
    BY <2>1, <2>2
<1>6. ASSUME NEW i \in 1 .. Len(t)
      PROVE  p2[t[i]] = IF i = 1 THEN NULL ELSE t[i - 1]
  <2>1. CASE i = 1
    BY <2>1, <1>1
  <2>2. CASE i = 2
    <3>1. 1 \in 1 .. Len(s) /\ t[i] = s[1] /\ i - 1 = 1
      BY <2>2, <1>1, <1>3
    <3>2. h = s[1]
      BY <3>1
    <3> QED
      BY <2>2, <3>1, <3>2, <1>1, <1>2
  <2>3. CASE i # 1 /\ i # 2
    <3>1. i - 1 \in 1 .. Len(s) /\ i - 1 # 1 /\ t[i] = s[i - 1]
      BY <2>3, <1>3, <1>1
    <3>2. s[i - 1] # h
      BY <3>1
    <3>3. p2[t[i]] = p[s[i - 1]]
      BY <3>1, <3>2, <1>2
    <3>4. p[s[i - 1]] = s[i - 1 - 1]
      BY <3>1
    <3>5. i - 1 \in 1 .. Len(t)
      BY <3>1, <1>1
    <3>6. t[i - 1] = s[i - 1 - 1]
      BY <3>1, <3>5, <1>3
    <3> QED
      BY <2>3, <3>3, <3>4, <3>6
  <2> QED
    BY <2>1, <2>2, <2>3
<1>7. LinkedBy(t, c, n2, p2)
  BY <1>1, <1>4, <1>5, <1>6
<1>8. Range(t) = Range(s) \cup {c}
  <2>1. \A i \in 1 .. Len(s) : \E j \in 1 .. Len(t) : s[i] = t[j]
    BY <1>9
  <2>2. \A i \in 1 .. Len(t) : t[i] = c \/ \E j \in 1 .. Len(s) : t[i] = s[j]
    BY <1>1, <1>3
  <2>3. 1 \in 1 .. Len(t)
    BY <1>1
  <2>4. DOMAIN t = 1 .. Len(t) /\ DOMAIN s = 1 .. Len(s)
    BY <1>1
  <2>5. c \in Range(t)
    BY <2>3, <2>4, <1>1, InRange
  <2>8. /\ \A x \in Range(t) : \E i \in 1 .. Len(t) : x = t[i]
        /\ \A i \in 1 .. Len(t) : t[i] \in Range(t)
    BY <2>4, InRange
  <2>9. /\ \A x \in Range(s) : \E i \in 1 .. Len(s) : x = s[i]
        /\ \A i \in 1 .. Len(s) : s[i] \in Range(s)
    BY <2>4, InRange
  <2>6. \A x \in Range(s) : x \in Range(t)
    BY <2>1, <2>8, <2>9
  <2>7. \A x \in Range(t) : x = c \/ x \in Range(s)
    BY <2>2, <2>8, <2>9
  <2> QED
    BY <2>5, <2>6, <2>7
<1> QED
  BY <1>7, <1>8 DEF t

LEMMA WithoutIsLinked ==
    ASSUME NEW s, NEW h, NEW n, NEW p, NEW k, NEW n2, NEW p2,
           LinkedBy(s, h, n, p), RemovedFrom(s, k, n, p, n2, p2)
    PROVE  /\ LinkedBy(Without(s, k), IF p[s[k]] = NULL THEN n[s[k]] ELSE h, n2, p2)
           /\ Range(Without(s, k)) = Range(s) \ {s[k]}
<1> DEFINE t == Without(s, k)
           h2 == IF p[s[k]] = NULL THEN n[s[k]] ELSE h
           at(i) == IF i < k THEN i ELSE i + 1
<1>12. /\ n \in Links /\ p \in Links /\ n2 \in Links /\ p2 \in Links
       /\ k \in 1 .. Len(s)
       /\ \A d \in Claims \ {s[k]} : n2[d] = IF d = p[s[k]] THEN n[s[k]] ELSE n[d]
       /\ \A d \in Claims \ {s[k]} : p2[d] = IF d = n[s[k]] THEN p[s[k]] ELSE p[d]
  BY DEF RemovedFrom
<1> USE <1>12 DEF LinkedBy
<1>1. t \in Seq(Claims) /\ Len(t) = Len(s) - 1
  BY DEF Without
<1>2. \A i \in 1 .. Len(t) : t[i] = s[at(i)] /\ at(i) \in 1 .. Len(s) /\ at(i) # k
  BY <1>1 DEF Without
<1>11. \A i \in 1 .. Len(t) : \A j : j = at(i) => t[i] = s[j]
  BY <1>2, Zenon
<1>3. \A i \in 1 .. Len(s) : s[i] \in Claims /\ s[i] # NULL /\ (s[i] = s[k] => i = k)
  BY SpaceAssumption
<1>4. n[s[k]] = (IF k = Len(s) THEN NULL ELSE s[k + 1]) /\ p[s[k]] = (IF k = 1 THEN NULL ELSE s[k - 1])
  OBVIOUS
<1> HIDE DEF t
<1>5. \A i, j \in 1 .. Len(t) : t[i] = t[j] => i = j
  BY <1>1, <1>2
<1>6. h2 = IF Len(t) = 0 THEN NULL ELSE t[1]
  <2>1. CASE k = 1
    <3>1. Len(t) # 0 => t[1] = s[2]
      BY <1>1, <1>2, <2>1
    <3> QED
      BY <3>1, <1>1, <1>4, <2>1
  <2>2. CASE k # 1
    <3>1. Len(t) # 0 /\ t[1] = s[1]
      <4>1. 1 \in 1 .. Len(t) /\ at(1) = 1
        BY <1>1, <2>2
      <4>2. t[1] = s[1]
        BY <4>1, <1>11, Zenon
      <4> QED
        BY <4>1, <4>2
    <3> QED
      BY <3>1, <1>3, <1>4, <2>2
  <2> QED
    BY <2>1, <2>2
<1>7. ASSUME NEW i \in 1 .. Len(t)
      PROVE  n2[t[i]] = IF i = Len(t) THEN NULL ELSE t[i + 1]
  <2> DEFINE j == at(i)
  <2>1. j \in 1 .. Len(s) /\ j # k /\ t[i] = s[j] /\ s[j] # s[k]
    BY <1>2, <1>3
  <2>2. n2[s[j]] = IF s[j] = p[s[k]] THEN n[s[k]] ELSE n[s[j]]
    BY <2>1, <1>3
  <2>3. CASE j = k - 1
    <3>1. s[j] = p[s[k]] /\ i = k - 1
      BY <1>4, <2>1, <2>3
    <3>2. CASE k = Len(s)
      BY <3>1, <3>2, <1>1, <1>4, <2>1, <2>2
    <3>3. CASE k # Len(s)
      <4>1. i + 1 \in 1 .. Len(t) /\ at(i + 1) = k + 1 /\ i # Len(t)
        BY <3>1, <3>3, <1>1
      <4>2. t[i + 1] = s[k + 1]
        BY <4>1, <1>11, ZenonT(60)
      <4> QED
        BY <4>1, <4>2, <3>1, <3>3, <1>4, <2>1, <2>2
    <3> QED
      BY <3>2, <3>3
  <2>4. CASE j # k - 1
    <3>1. s[j] # p[s[k]]
      <4>1. CASE k = 1
        BY <4>1, <1>3, <1>4, <2>1
      <4>2. CASE k # 1
        BY <4>2, <1>4, <2>1, <2>4, SMTT(60)
      <4> QED
        BY <4>1, <4>2
    <3>2. n[s[j]] = IF j = Len(s) THEN NULL ELSE s[j + 1]
      BY <2>1
    <3>3. (i = Len(t)) = (j = Len(s))
      BY <1>1, <2>1, <2>4
    <3>4. i # Len(t) => t[i + 1] = s[j + 1]
      <4>1. i # Len(t) => i + 1 \in 1 .. Len(t) /\ at(i + 1) = j + 1
        BY <1>1, <2>1, <2>4
      <4> HIDE DEF j
      <4> QED
        BY <4>1, <1>11, ZenonT(60)
    <3> QED
      BY <3>1, <3>2, <3>3, <3>4, <2>1, <2>2
  <2> QED
    BY <2>3, <2>4
<1>8. ASSUME NEW i \in 1 .. Len(t)
      PROVE  p2[t[i]] = IF i = 1 THEN NULL ELSE t[i - 1]
  <2> DEFINE j == at(i)
  <2>1. j \in 1 .. Len(s) /\ j # k /\ t[i] = s[j] /\ s[j] # s[k]
    BY <1>2, <1>3
  <2>2. p2[s[j]] = IF s[j] = n[s[k]] THEN p[s[k]] ELSE p[s[j]]
    BY <2>1, <1>3
  <2>3. CASE j = k + 1
    <3>1. s[j] = n[s[k]] /\ i = k
      BY <1>4, <2>1, <2>3
    <3>2. CASE k = 1
      BY <3>1, <3>2, <1>1, <1>4, <2>1, <2>2
    <3>3. CASE k # 1
      <4>1. i - 1 \in 1 .. Len(t) /\ at(i - 1) = k - 1 /\ i # 1
        BY <3>1, <3>3, <1>1
      <4>2. \A m : m = at(i - 1) => t[i - 1] = s[m]
        BY <4>1, <1>11, Zenon
      <4> QED
        BY <4>1, <4>2, <3>1, <3>3, <1>4, <2>1, <2>2
    <3> QED
      BY <3>2, <3>3
  <2>4. CASE j # k + 1
    <3>1. s[j] # n[s[k]]
      <4>1. CASE k = Len(s)
        BY <4>1, <1>3, <1>4, <2>1
      <4>2. CASE k # Len(s)
        BY <4>2, <1>4, <2>1, <2>4
      <4> QED
        BY <4>1, <4>2
    <3>2. p[s[j]] = IF j = 1 THEN NULL ELSE s[j - 1]
      BY <2>1
    <3>3. (i = 1) = (j = 1)
      BY <1>1, <2>1, <2>4
    <3>4. i # 1 => t[i - 1] = s[j - 1]
      <4>1. i # 1 => i - 1 \in 1 .. Len(t) /\ at(i - 1) = j - 1
        BY <1>1, <2>1, <2>4
      <4> HIDE DEF j
      <4> QED
        BY <4>1, <1>11, ZenonT(60)
    <3> QED
      BY <3>1, <3>2, <3>3, <3>4, <2>1, <2>2
  <2> QED
    BY <2>3, <2>4
<1>9. LinkedBy(t, h2, n2, p2)
  BY <1>1, <1>5, <1>6, <1>7, <1>8
<1>10. Range(t) = Range(s) \ {s[k]}
  <2>1. \A i \in 1 .. Len(s) : i # k => \E j \in 1 .. Len(t) : t[j] = s[i]
    <3>1. ASSUME NEW i \in 1 .. Len(s), i # k
          PROVE  \E j \in 1 .. Len(t) : t[j] = s[i]
      <4> DEFINE j == IF i < k THEN i ELSE i - 1
      <4>1. j \in 1 .. Len(t) /\ at(j) = i
        BY <3>1, <1>1
      <4> HIDE DEF j
      <4>2. t[j] = s[i]
        BY <4>1, <1>11, Zenon
      <4> QED
        BY <4>1, <4>2
    <3> QED
      BY <3>1
  <2>2. DOMAIN t = 1 .. Len(t) /\ DOMAIN s = 1 .. Len(s)
    BY <1>1
  <2>3. \A i \in 1 .. Len(t) : \E j \in 1 .. Len(s) : t[i] = s[j] /\ s[j] # s[k]
    BY <1>2, <1>3
  <2>4. \A i \in 1 .. Len(s) : s[i] # s[k] => i # k
    OBVIOUS
  <2>7. /\ \A x \in Range(t) : \E i \in 1 .. Len(t) : x = t[i]
        /\ \A i \in 1 .. Len(t) : t[i] \in Range(t)
    BY <2>2, InRange
  <2>8. /\ \A x \in Range(s) : \E i \in 1 .. Len(s) : x = s[i]
        /\ \A i \in 1 .. Len(s) : s[i] \in Range(s)
    BY <2>2, InRange
  <2>5. ASSUME NEW x \in Range(s), x # s[k]
        PROVE  x \in Range(t)
    <3>1. PICK i \in 1 .. Len(s) : x = s[i]
      BY <2>8
    <3>2. PICK j \in 1 .. Len(t) : t[j] = s[i]
      BY <2>1, <2>4, <2>5, <3>1
    <3> QED
      BY <2>7, <3>1, <3>2
  <2>6. ASSUME NEW x \in Range(t)
        PROVE  x # s[k] /\ x \in Range(s)
    <3>1. PICK i \in 1 .. Len(t) : x = t[i]
      BY <2>7
    <3>2. PICK j \in 1 .. Len(s) : t[i] = s[j] /\ s[j] # s[k]
      BY <2>3
    <3> QED
      BY <2>8, <3>1, <3>2
  <2> QED
    BY <2>5, <2>6
<1> QED
  BY <1>9, <1>10 DEF t
----
(* The invariant                                                           *)

First(c) == PageOf(claim[c].rw)

(* The walk is the list, and who is on it has a region.                    *)
ListInv == Linked(Walk) /\ Range(Walk) = Reserved

(* A claim's view lies in the address space, and stands for pages of the   *)
(* module.                                                                 *)
Placed(c) ==
    /\ First(c) \in Nat /\ RoPage(c) \in Nat /\ PageCount(c) \in Nat \ {0}
    /\ LivePages(c) \subseteq AslrPages
    /\ RoPage(c) + PageCount(c) <= RoPageCount

Alone(c) == \A d \in Reserved : d # c => LivePages(c) \cap LivePages(d) = {}

(* A reservation belongs to a live claim or to the one being worked on,    *)
(* is its view, and overlaps no other.                                     *)
Working == {"map", "compare", "unmap", "unreserve"}

OwnerInv ==
    /\ pc # "idle" => cur \in Claims
    /\ pc = "reserve" => cur \notin Reserved
    /\ pc \in Working => cur \in Reserved /\ ~claim[cur].live
    /\ \A c \in Claims : claim[c].live => c \in Reserved
    /\ \A c \in Reserved : claim[c].live \/ (pc \in Working /\ c = cur)

RegionInv ==
    \A c \in Reserved : /\ region[c] = [start |-> First(c), pages |-> PageCount(c)]
                       /\ Placed(c) /\ Alone(c)

(* The place found is free until it is reserved, and a loop over ranges    *)
(* has a range left.                                                       *)
PlaceInv ==
    /\ pc = "reserve" => Placed(cur) /\ Alone(cur) /\ ~IsMapped(LivePages(cur))
    /\ pc \in {"map", "unmap"} => pos < PageCount(cur)

(* The pages of a view that are mapped at this point: of the claim being   *)
(* worked on, those already mapped or not yet unmapped.                    *)
ShownAt(c, p) ==
    \/ c # cur \/ pc \in {"idle", "compare"}
    \/ pc = "map" /\ p < First(c) + pos
    \/ pc = "unmap" /\ p >= First(c) + pos

Shown(c) == { p \in LivePages(c) : ShownAt(c, p) }

MappingInv ==
    /\ \A c \in Reserved : \A p \in Shown(c) : mapping[p] = PageFor(c, p)
    /\ \A p \in AslrPages : mapping[p] # Unmapped => \E c \in Reserved : p \in Shown(c)

Inv ==
    /\ TypeOK /\ ListInv
    /\ pc # "aborted" => OwnerInv /\ RegionInv /\ PlaceInv /\ MappingInv

----
(* Pages, views and ranges                                                 *)

LEMMA PagesAreNat ==
    ASSUME NEW a \in Nat
    PROVE  PageOf(a) \in Nat /\ AlignedSize(a) \in Nat
<1>1. a + PageSize - 1 \in Nat
  BY SpaceAssumption
<1> QED
  BY <1>1, DivMod, SpaceAssumption DEF PageOf, AlignedSize

LEMMA ViewTypes ==
    ASSUME TypeOK, NEW c \in Claims
    PROVE  First(c) \in Nat /\ RoPage(c) \in Nat /\ PageCount(c) \in Nat
<1>1. claim[c].rw \in Nat /\ claim[c].ro \in Nat /\ claim[c].size \in Nat
  BY DEF TypeOK
<1> QED
  BY <1>1, PagesAreNat, Zenon DEF First, RoPage, PageCount

LEMMA RegionFields ==
    \A v, a, b : v = [start |-> a, pages |-> b] => v.start = a /\ v.pages = b
OBVIOUS

LEMMA ReservedAreClaims == Reserved \subseteq Claims
BY DEF Reserved

(* A view is kept by a step that keeps where it starts.                    *)
LEMMA ViewKept ==
    ASSUME NEW c, First(c)' = First(c),
           claim'[c].ro = claim[c].ro, claim'[c].size = claim[c].size
    PROVE  /\ RoPage(c)' = RoPage(c) /\ PageCount(c)' = PageCount(c)
           /\ LivePages(c)' = LivePages(c)
           /\ Placed(c) => Placed(c)'
           /\ \A p : PageFor(c, p)' = PageFor(c, p)
<1>1. RoPage(c)' = RoPage(c) /\ PageCount(c)' = PageCount(c)
  BY Zenon DEF RoPage, PageCount
<1>2. LivePages(c)' = LivePages(c)
  BY <1>1, Zenon DEF LivePages, First
<1>3. \A p : PageFor(c, p)' = PageFor(c, p)
  BY <1>1, Zenon DEF PageFor, First
<1> QED
  BY <1>1, <1>2, <1>3, Zenon DEF Placed

LEMMA RegionsKept ==
    ASSUME RegionInv, region' = region,
           \A c \in Reserved : /\ First(c)' = First(c)
                               /\ claim'[c].ro = claim[c].ro
                               /\ claim'[c].size = claim[c].size
    PROVE  Reserved' = Reserved /\ RegionInv'
<1>1. Reserved' = Reserved
  BY Zenon DEF Reserved
<1>2. ASSUME NEW c \in Reserved
      PROVE  /\ region'[c] = [start |-> First(c)', pages |-> PageCount(c)']
             /\ Placed(c)' /\ Alone(c)'
  <2>1. /\ First(c)' = First(c) /\ PageCount(c)' = PageCount(c)
        /\ LivePages(c)' = LivePages(c) /\ Placed(c)'
    BY ViewKept, Zenon DEF RegionInv
  <2>2. \A d \in Reserved : LivePages(d)' = LivePages(d)
    BY ViewKept, Zenon
  <2>3. Alone(c)'
    BY <1>1, <2>1, <2>2, Zenon DEF Alone, RegionInv
  <2> QED
    BY <2>1, <2>3, Zenon DEF RegionInv
<1> QED
  BY <1>1, <1>2, Zenon DEF RegionInv

(* The range at pos ends inside the view.                                  *)
LEMMA RangeAtPos ==
    ASSUME TypeOK, NEW c \in Claims, Placed(c), pos < PageCount(c)
    PROVE  \E m \in Nat : pos < m /\ m <= PageCount(c) /\ RangePages(c) = pos .. m - 1
<1> DEFINE from == RoPage(c) + pos
           ends == { q \in RangeStarts \cup {RoPageCount} : q > from }
           end  == CHOOSE q \in ends : \A s \in ends : q <= s
<1>1. pos \in Nat /\ RoPage(c) \in Nat /\ PageCount(c) \in Nat /\ RoPageCount \in Nat
  BY SpaceAssumption DEF Placed, TypeOK
<1>2. RoPageCount \in ends /\ ends \in SUBSET Nat
  <2>1. RoPageCount > from
    BY <1>1 DEF Placed
  <2>2. \A q \in RangeStarts : q \in Nat
    BY <1>1, SpaceAssumption
  <2> HIDE DEF from
  <2> QED
    BY <1>1, <2>1, <2>2
<1>3. end \in ends
  <2>1. \E q \in ends : \A s \in ends : q <= s
    BY <1>2, LeastOne
  <2> QED
    BY <2>1, Zenon
<1>4. end \in Nat /\ end > from
  BY <1>2, <1>3
<1> HIDE DEF end
<1>5. RangePages(c) = pos .. (IF end - RoPage(c) < PageCount(c) THEN end - RoPage(c) ELSE PageCount(c)) - 1
  BY Zenon DEF RangePages, end
<1> DEFINE m == IF end - RoPage(c) < PageCount(c) THEN end - RoPage(c) ELSE PageCount(c)
<1>6. m \in Nat /\ pos < m /\ m <= PageCount(c)
  BY <1>1, <1>4
<1> QED
  BY <1>5, <1>6, Zenon

(* The pages of a range in the address space.                              *)
LEMMA TargetsOfRange ==
    ASSUME NEW first \in Nat, NEW k \in Nat, NEW m \in Nat, k < m
    PROVE  /\ { first + i : i \in k .. m - 1 } = first + k .. first + m - 1
           /\ Cardinality({ first + i : i \in k .. m - 1 }) = m - k
<1>1. { first + i : i \in k .. m - 1 } = first + k .. first + m - 1
  <2>1. ASSUME NEW p \in first + k .. first + m - 1
        PROVE  \E i \in k .. m - 1 : p = first + i
    <3>1. p - first \in k .. m - 1 /\ p = first + (p - first)
      OBVIOUS
    <3> QED
      BY <3>1
  <2> QED
    BY <2>1
<1>2. PICK a \in Int, b \in Int : a = first + k /\ b = first + m - 1
  OBVIOUS
<1>3. Cardinality(a .. b) = IF a > b THEN 0 ELSE b - a + 1
  BY FS_Interval, Zenon
<1>4. Cardinality(a .. b) = m - k
  BY <1>2, <1>3
<1>5. Cardinality({ first + i : i \in k .. m - 1 }) = m - k
  BY <1>1, <1>2, <1>4, Zenon
<1> QED
  BY <1>1, <1>5

----
(* What the loops over ranges do                                           *)

Targets(c, m) == First(c) + pos .. First(c) + m - 1

LEMMA TargetsAtPos ==
    ASSUME TypeOK, NEW c \in Claims, Placed(c), pos < PageCount(c)
    PROVE  \E m \in Nat :
               /\ pos < m /\ m <= PageCount(c)
               /\ { First(c) + i : i \in RangePages(c) } = Targets(c, m)
               /\ pos + Cardinality({ First(c) + i : i \in RangePages(c) }) = m
               /\ Targets(c, m) \subseteq LivePages(c)
<1>1. pos \in Nat /\ First(c) \in Nat /\ PageCount(c) \in Nat
  BY DEF TypeOK, Placed
<1>2. PICK m \in Nat : pos < m /\ m <= PageCount(c) /\ RangePages(c) = pos .. m - 1
  BY RangeAtPos, Zenon
<1>3. /\ { First(c) + i : i \in pos .. m - 1 } = First(c) + pos .. First(c) + m - 1
      /\ Cardinality({ First(c) + i : i \in pos .. m - 1 }) = m - pos
  BY <1>1, <1>2, TargetsOfRange
<1>4. pos + (m - pos) = m
  BY <1>1
<1>5. Targets(c, m) \subseteq LivePages(c)
  BY <1>1, <1>2 DEF Targets, LivePages, Span, First
<1> QED
  BY <1>2, <1>3, <1>4, <1>5, Zenon DEF Targets

LEMMA NothingThere ==
    ASSUME Inv, pc = "map", NEW m \in Nat, Targets(cur, m) \subseteq LivePages(cur)
    PROVE  ~IsMapped(Targets(cur, m))
<1>1. /\ cur \in Reserved /\ Placed(cur) /\ Alone(cur)
      /\ First(cur) \in Nat /\ pos \in Nat /\ LivePages(cur) \subseteq AslrPages
  BY Zenon DEF Inv, OwnerInv, RegionInv, Working, Placed, TypeOK
<1> SUFFICES ASSUME NEW p \in Targets(cur, m), mapping[p] # Unmapped
             PROVE  FALSE
  BY Zenon DEF IsMapped
<1>2. p \in LivePages(cur) /\ p \in AslrPages
  BY <1>1
<1>3. PICK d \in Reserved : p \in Shown(d)
  BY <1>2, Zenon DEF Inv, MappingInv
<1>4. p \in LivePages(d) /\ ShownAt(d, p)
  BY <1>3, Zenon DEF Shown
<1>5. d = cur
  BY <1>1, <1>2, <1>4 DEF Alone
<1>6. p < First(cur) + pos
  BY <1>4, <1>5 DEF ShownAt
<1>7. p \in First(cur) + pos .. First(cur) + m - 1
  BY Zenon DEF Targets
<1> QED
  BY <1>1, <1>6, <1>7

LEMMA StillThere ==
    ASSUME Inv, pc = "unmap", NEW m \in Nat, Targets(cur, m) \subseteq LivePages(cur)
    PROVE  \A p \in Targets(cur, m) : mapping[p] = PageFor(cur, p)
<1>1. cur \in Reserved /\ First(cur) \in Nat /\ pos \in Nat
  BY Zenon DEF Inv, OwnerInv, RegionInv, Working, Placed, TypeOK
<1>2. ASSUME NEW p \in Targets(cur, m)
      PROVE  p \in Shown(cur)
  <2>1. p \in First(cur) + pos .. First(cur) + m - 1
    BY Zenon DEF Targets
  <2>2. p >= First(cur) + pos
    BY <1>1, <2>1
  <2> QED
    BY <2>2, Zenon DEF Shown, ShownAt
<1> QED
  BY <1>1, <1>2, Zenon DEF Inv, MappingInv

LEMMA PagesOfWork ==
    ASSUME Inv, pc \in {"map", "unmap"}
    PROVE  \E m \in Nat :
               /\ pos < m /\ m <= PageCount(cur)
               /\ { First(cur) + i : i \in RangePages(cur) } = Targets(cur, m)
               /\ pos + Cardinality({ First(cur) + i : i \in RangePages(cur) }) = m
               /\ Targets(cur, m) \subseteq LivePages(cur)
<1>1. cur \in Reserved /\ pos < PageCount(cur) /\ TypeOK
  BY DEF Inv, OwnerInv, PlaceInv, Working
<1>2. Placed(cur) /\ cur \in Claims
  BY <1>1, ReservedAreClaims DEF Inv, RegionInv
<1> QED
  BY <1>1, <1>2, TargetsAtPos, Zenon

LEMMA MapRangeDoes ==
    ASSUME Inv, MapRange
    PROVE  \E m \in Nat :
               /\ pos < m /\ m <= PageCount(cur) /\ Targets(cur, m) \subseteq LivePages(cur)
               /\ mapping' = [p \in AslrPages |->
                                 IF p \in Targets(cur, m) THEN PageFor(cur, p) ELSE mapping[p]]
               /\ pos' = m /\ UNCHANGED <<cur, list>>
               /\ \/ m < PageCount(cur) /\ UNCHANGED <<pc, claim>>
                  \/ /\ m = PageCount(cur) /\ pc' = "compare"
                     /\ claim' = [claim EXCEPT ![cur].rw =
                           First(cur) * PageSize + (claim[cur].ro % PageSize)]
<1>1. pc = "map"
  BY Zenon DEF MapRange
<1>2. PICK m \in Nat :
               /\ pos < m /\ m <= PageCount(cur)
               /\ { First(cur) + i : i \in RangePages(cur) } = Targets(cur, m)
               /\ pos + Cardinality({ First(cur) + i : i \in RangePages(cur) }) = m
               /\ Targets(cur, m) \subseteq LivePages(cur)
  BY <1>1, PagesOfWork, Zenon
<1>3. ~IsMapped({ First(cur) + i : i \in RangePages(cur) })
  BY <1>1, <1>2, NothingThere, Zenon
<1>4. /\ mapping' = [p \in AslrPages |->
                        IF p \in Targets(cur, m) THEN PageFor(cur, p) ELSE mapping[p]]
      /\ pos' = m /\ UNCHANGED <<cur, list>>
      /\ IF m < PageCount(cur)
         THEN UNCHANGED <<pc, claim>>
         ELSE /\ pc' = "compare"
              /\ claim' = [claim EXCEPT ![cur].rw =
                    First(cur) * PageSize + (claim[cur].ro % PageSize)]
  BY <1>2, <1>3, Zenon DEF MapRange, First
<1>5. m < PageCount(cur) \/ (~(m < PageCount(cur)) /\ m = PageCount(cur))
  <2>1. PageCount(cur) \in Nat
    BY <1>1, ReservedAreClaims DEF Inv, OwnerInv, RegionInv, Placed, Working
  <2> QED
    BY <1>2, <2>1
<1> QED
  BY <1>2, <1>4, <1>5, Zenon

LEMMA UnmapRangeDoes ==
    ASSUME Inv, UnmapRange
    PROVE  \E m \in Nat :
               /\ pos < m /\ m <= PageCount(cur) /\ Targets(cur, m) \subseteq LivePages(cur)
               /\ mapping' = [p \in AslrPages |->
                                 IF p \in Targets(cur, m) THEN Unmapped ELSE mapping[p]]
               /\ pos' = m /\ UNCHANGED <<cur, claim, list>>
               /\ \/ m < PageCount(cur) /\ pc' = "unmap"
                  \/ m = PageCount(cur) /\ pc' = "unreserve"
<1>1. pc = "unmap"
  BY Zenon DEF UnmapRange
<1>2. PICK m \in Nat :
               /\ pos < m /\ m <= PageCount(cur)
               /\ { First(cur) + i : i \in RangePages(cur) } = Targets(cur, m)
               /\ pos + Cardinality({ First(cur) + i : i \in RangePages(cur) }) = m
               /\ Targets(cur, m) \subseteq LivePages(cur)
  BY <1>1, PagesOfWork, Zenon
<1>3. \A p \in { First(cur) + i : i \in RangePages(cur) } : mapping[p] = PageFor(cur, p)
  BY <1>1, <1>2, StillThere, Zenon
<1>4. /\ mapping' = [p \in AslrPages |->
                        IF p \in Targets(cur, m) THEN Unmapped ELSE mapping[p]]
      /\ pos' = m /\ UNCHANGED <<cur, claim, list>>
      /\ pc' = IF m < PageCount(cur) THEN "unmap" ELSE "unreserve"
  BY <1>2, <1>3, Zenon DEF UnmapRange, First
<1>5. m < PageCount(cur) \/ (~(m < PageCount(cur)) /\ m = PageCount(cur))
  <2>1. PageCount(cur) \in Nat
    BY <1>1, ReservedAreClaims DEF Inv, OwnerInv, RegionInv, Placed, Working
  <2> QED
    BY <1>2, <2>1
<1> QED
  BY <1>2, <1>4, <1>5, Zenon

----
(* Steps that keep the list                                                *)

LEMMA WalkIsTheList == \A s : Linked(s) => Walk = s
BY WalkSeesList

LEMMA NextWalk == \A s : LinkedBy(s, head', next', prev') => Walk' = s
<1>1. (\A s : Linked(s) => Walk = s)'
  BY WalkIsTheList, PTL
<1> QED
  BY <1>1, Zenon DEF Linked

LEMMA ListKept ==
    ASSUME ListInv, UNCHANGED list
    PROVE  ListInv'
<1>1. LinkedBy(Walk, head', next', prev')
  BY Zenon DEF ListInv, Linked, list
<1>2. Walk' = Walk
  BY <1>1, NextWalk, Zenon
<1>3. Reserved' = Reserved
  BY Zenon DEF Reserved, list
<1> QED
  BY <1>1, <1>2, <1>3, Zenon DEF ListInv, Linked

LEMMA MappingKept ==
    ASSUME MappingInv, mapping' = mapping, Reserved' = Reserved,
           \A c \in Reserved : LivePages(c)' = LivePages(c),
           \A c \in Reserved : \A p : PageFor(c, p)' = PageFor(c, p),
           \A c \in Reserved : \A p \in LivePages(c) : ShownAt(c, p)' <=> ShownAt(c, p)
    PROVE  MappingInv'
<1>1. \A c \in Reserved : \A p : p \in Shown(c)' <=> p \in Shown(c)
  BY Zenon DEF Shown
<1>2. ASSUME NEW c \in Reserved, NEW p \in Shown(c)'
      PROVE  mapping'[p] = PageFor(c, p)'
  BY <1>1, ZenonT(60) DEF MappingInv
<1>3. ASSUME NEW p \in AslrPages, mapping'[p] # Unmapped
      PROVE  \E c \in Reserved : p \in Shown(c)'
  <2>1. PICK c \in Reserved : p \in Shown(c)
    BY <1>3, Zenon DEF MappingInv
  <2> QED
    BY <1>1, <2>1, Zenon
<1> QED
  BY <1>2, <1>3, Zenon DEF MappingInv

LEMMA FindKeeps ==
    ASSUME Inv, NEW c \in Claims, NEW r \in Requests, Find(c, r)
    PROVE  Inv'
<1> DEFINE count == AlignedSize(r.size)
<1>1. /\ pc = "idle" /\ cur' = c /\ UNCHANGED <<pos, list, mapping>>
      /\ c \notin Reserved
  BY Zenon DEF Find, Inv, ListInv
<1>2. ListInv' /\ region' = region
  BY <1>1, ListKept, Zenon DEF Inv, list
<1>3. CASE pc' = "aborted" /\ UNCHANGED claim
  <2>1. TypeOK'
    BY <1>1, <1>3 DEF Inv, TypeOK, list, Steps
  <2> QED
    BY <1>2, <1>3, <2>1, Zenon DEF Inv
<1>4. ASSUME NEW p \in Candidates(count), Free(p, count), pc' = "reserve",
             claim' = [claim EXCEPT ![c] =
                [live |-> FALSE, ro |-> r.ro, rw |-> p * PageSize, size |-> r.size]]
      PROVE  Inv'
  <2>1. /\ p \in Nat /\ r.ro \in Nat /\ r.size \in Nat \ {0}
        /\ r.ro + r.size <= RoPageCount * PageSize
        /\ PageSize \in Nat \ {0} /\ RoPageCount \in Nat
    BY SpaceAssumption DEF Candidates
  <2>2. /\ claim \in [Claims -> [live : BOOLEAN, ro : Nat, rw : Nat, size : Nat]]
        /\ p * PageSize \in Nat
    BY <2>1 DEF Inv, TypeOK
  <2>3. /\ claim'[c].ro = r.ro /\ claim'[c].rw = p * PageSize /\ claim'[c].size = r.size
        /\ ~claim'[c].live
        /\ \A d \in Claims \ {c} : claim'[d] = claim[d]
    BY <1>4, <2>2, Zenon
  <2>4. claim' \in [Claims -> [live : BOOLEAN, ro : Nat, rw : Nat, size : Nat]]
    BY <1>4, <2>1, <2>2
  <2>5. TypeOK'
    BY <1>1, <1>4, <2>4 DEF Inv, TypeOK, list, Steps
  <2>6. First(c)' = p
    <3>1. p * PageSize = p * PageSize + 0 /\ 0 \in 0 .. PageSize - 1
      BY <2>1
    <3> QED
      BY <2>1, <2>3, <3>1, DivOfMultiple DEF First, PageOf
  <2>7. PageCount(c)' = count /\ RoPage(c)' = PageOf(r.ro)
    BY <2>3, Zenon DEF PageCount, RoPage
  <2>8. LivePages(c)' = Span(p, count)
    BY <2>6, <2>7, Zenon DEF LivePages, First
  <2>9. count \in Nat \ {0} /\ PageOf(r.ro) \in Nat /\ PageOf(r.ro) + count <= RoPageCount
    <3>1. PageOf(r.ro) \in Nat
      BY <2>1, PagesAreNat
    <3> QED
      BY <2>1, <3>1, PagesOfRequest DEF AlignedSize, PageOf
  <2>10. Placed(c)'
    <3>1. Span(p, count) \subseteq AslrPages
      BY Zenon DEF Candidates
    <3> QED
      BY <2>1, <2>6, <2>7, <2>8, <2>9, <3>1, Zenon DEF Placed
  <2>11. \A d \in Reserved : d \in Claims \ {c}
    BY <1>1, ReservedAreClaims
  <2>12. \A d \in Reserved : /\ First(d)' = First(d) /\ claim'[d].ro = claim[d].ro
                             /\ claim'[d].size = claim[d].size
    BY <2>3, <2>11, Zenon DEF First
  <2>13. /\ OwnerInv /\ RegionInv /\ PlaceInv /\ MappingInv
    BY <1>1 DEF Inv
  <2>14. Reserved' = Reserved /\ RegionInv'
    BY <1>2, <2>12, <2>13, RegionsKept, Zenon
  <2>15. \A d \in Reserved : LivePages(d)' = LivePages(d) /\ \A q : PageFor(d, q)' = PageFor(d, q)
    BY <2>12, ViewKept, Zenon
  <2>16. OwnerInv'
    <3>1. \A d \in Claims : claim'[d].live => d \in Reserved
      BY <2>3, <2>13 DEF OwnerInv
    <3>2. \A d \in Reserved : claim'[d].live
      BY <1>1, <2>3, <2>11, <2>13 DEF OwnerInv, Working
    <3>3. pc' = "reserve" /\ pc' # "idle" /\ pc' \notin Working
      BY <1>4 DEF Working
    <3> QED
      BY <1>1, <2>14, <3>1, <3>2, <3>3, Zenon DEF OwnerInv
  <2>17. Alone(c)'
    <3>1. \A d \in Reserved : LivePages(d) = Span(region[d].start, region[d].pages)
      <4>1. \A d \in Reserved : region[d].start = First(d) /\ region[d].pages = PageCount(d)
        BY <2>13, RegionFields, Zenon DEF RegionInv
      <4> QED
        BY <4>1, Zenon DEF LivePages, First
    <3>2. \A d \in Reserved : Span(region[d].start, region[d].pages) \cap Span(p, count) = {}
      BY <1>4, Zenon DEF Free, IsReserved, Inv, ListInv
    <3>3. \A d \in Reserved : Span(p, count) \cap LivePages(d) = {}
      BY <3>1, <3>2
    <3> QED
      BY <2>8, <2>14, <2>15, <3>3, Zenon DEF Alone
  <2>18. PlaceInv'
    <3>1. ~IsMapped(LivePages(c))'
      BY <1>1, <1>4, <2>8, Zenon DEF Free, IsMapped
    <3>2. pc' = "reserve" /\ pc' \notin {"map", "unmap"}
      BY <1>4
    <3> QED
      BY <1>1, <2>10, <2>17, <3>1, <3>2, Zenon DEF PlaceInv
  <2>19. MappingInv'
    <3>1. \A d \in Reserved : d # c
      BY <2>11
    <3>2. \A d \in Reserved : \A q \in LivePages(d) : ShownAt(d, q)' <=> ShownAt(d, q)
      BY <1>1, <3>1, Zenon DEF ShownAt
    <3> QED
      BY <1>1, <2>13, <2>14, <2>15, <3>2, MappingKept, Zenon
  <2> QED
    BY <1>2, <2>5, <2>14, <2>16, <2>18, <2>19, Zenon DEF Inv
<1> QED
  BY <1>3, <1>4, Zenon DEF Find

LEMMA CompareKeeps ==
    ASSUME Inv, Compare
    PROVE  Inv'
<1>1. /\ pc = "compare" /\ pos' = 0 /\ UNCHANGED <<cur, list, mapping>>
  BY Zenon DEF Compare
<1>2. /\ OwnerInv /\ RegionInv /\ PlaceInv /\ MappingInv
      /\ cur \in Reserved /\ cur \in Claims
  BY <1>1, ReservedAreClaims DEF Inv, OwnerInv, Working
<1>3. ListInv' /\ region' = region
  BY <1>1, ListKept, Zenon DEF Inv, list
<1>4. CASE pc' = "aborted" /\ UNCHANGED claim
  <2>1. TypeOK'
    BY <1>1, <1>4 DEF Inv, TypeOK, list, Steps
  <2> QED
    BY <1>3, <1>4, <2>1, Zenon DEF Inv
<1>5. CASE pc' = "idle" /\ claim' = [claim EXCEPT ![cur].live = TRUE]
  <2>1. claim \in [Claims -> [live : BOOLEAN, ro : Nat, rw : Nat, size : Nat]]
    BY DEF Inv, TypeOK
  <2>2. claim' \in [Claims -> [live : BOOLEAN, ro : Nat, rw : Nat, size : Nat]]
    BY <1>2, <1>5, <2>1
  <2>3. TypeOK'
    BY <1>1, <1>5, <2>2 DEF Inv, TypeOK, list, Steps
  <2>4. /\ \A d \in Claims : /\ claim'[d].rw = claim[d].rw /\ claim'[d].ro = claim[d].ro
                             /\ claim'[d].size = claim[d].size
        /\ claim'[cur].live
        /\ \A d \in Claims : d # cur => claim'[d].live = claim[d].live
    BY <1>2, <1>5, <2>1
  <2>5. \A d \in Reserved : /\ First(d)' = First(d) /\ claim'[d].ro = claim[d].ro
                            /\ claim'[d].size = claim[d].size
    BY <2>4, ReservedAreClaims, Zenon DEF First
  <2>6. Reserved' = Reserved /\ RegionInv'
    BY <1>2, <1>3, <2>5, RegionsKept, Zenon
  <2>7. \A d \in Reserved : LivePages(d)' = LivePages(d) /\ \A q : PageFor(d, q)' = PageFor(d, q)
    BY <2>5, ViewKept, Zenon
  <2>8. OwnerInv'
    <3>1. \A d \in Claims : claim'[d].live => d \in Reserved
      <4>1. \A d \in Claims : d # cur => claim'[d].live = claim[d].live
        BY <2>4
      <4> QED
        BY <1>2, <4>1, Zenon DEF OwnerInv
    <3>2. \A d \in Reserved : claim'[d].live
      BY <1>2, <2>4, ReservedAreClaims, Zenon DEF OwnerInv
    <3> QED
      BY <1>1, <1>2, <1>5, <2>6, <3>1, <3>2, Zenon DEF OwnerInv, Working
  <2>9. PlaceInv'
    BY <1>5 DEF PlaceInv
  <2>10. MappingInv'
    <3>1. \A d \in Reserved : \A q \in LivePages(d) : ShownAt(d, q)' <=> ShownAt(d, q)
      BY <1>1, <1>5, Zenon DEF ShownAt
    <3> QED
      BY <1>1, <1>2, <2>6, <2>7, <3>1, MappingKept, Zenon
  <2> QED
    BY <1>3, <2>3, <2>6, <2>8, <2>9, <2>10, Zenon DEF Inv
<1> QED
  BY <1>4, <1>5, Zenon DEF Compare

LEMMA DestroyKeeps ==
    ASSUME Inv, NEW c \in Claims, Destroy(c)
    PROVE  Inv'
<1>1. /\ pc = "idle" /\ claim[c].live /\ cur' = c /\ pos' = 0 /\ pc' = "unmap"
      /\ claim' = [claim EXCEPT ![c].live = FALSE] /\ UNCHANGED <<list, mapping>>
  BY Zenon DEF Destroy
<1>2. /\ OwnerInv /\ RegionInv /\ PlaceInv /\ MappingInv
      /\ c \in Reserved
  BY <1>1, Zenon DEF Inv, OwnerInv
<1>3. ListInv' /\ region' = region
  BY <1>1, ListKept, Zenon DEF Inv, list
<1>4. claim \in [Claims -> [live : BOOLEAN, ro : Nat, rw : Nat, size : Nat]]
  BY DEF Inv, TypeOK
<1>5. claim' \in [Claims -> [live : BOOLEAN, ro : Nat, rw : Nat, size : Nat]]
  BY <1>1, <1>4
<1>6. TypeOK'
  BY <1>1, <1>5 DEF Inv, TypeOK, list, Steps
<1>7. /\ \A d \in Claims : /\ claim'[d].rw = claim[d].rw /\ claim'[d].ro = claim[d].ro
                           /\ claim'[d].size = claim[d].size
      /\ ~claim'[c].live
      /\ \A d \in Claims : d # c => claim'[d] = claim[d]
  BY <1>1, <1>4
<1>8. \A d \in Reserved : /\ First(d)' = First(d) /\ claim'[d].ro = claim[d].ro
                          /\ claim'[d].size = claim[d].size
  BY <1>7, ReservedAreClaims, Zenon DEF First
<1>9. Reserved' = Reserved /\ RegionInv'
  BY <1>2, <1>3, <1>8, RegionsKept, Zenon
<1>10. \A d \in Reserved : /\ LivePages(d)' = LivePages(d) /\ PageCount(d)' = PageCount(d)
                           /\ \A q : PageFor(d, q)' = PageFor(d, q)
  BY <1>8, ViewKept, Zenon
<1>11. OwnerInv'
  <2>1. \A d \in Claims : claim'[d].live => d \in Reserved
    BY <1>2, <1>7, Zenon DEF OwnerInv
  <2>2. \A d \in Reserved : claim'[d].live \/ d = c
    <3>1. \A d \in Reserved : claim[d].live
      BY <1>1, <1>2 DEF OwnerInv, Working
    <3> QED
      BY <3>1, <1>7, ReservedAreClaims, Zenon
  <2>3. pc' # "idle" /\ pc' # "reserve" /\ pc' \in Working
    BY <1>1 DEF Working
  <2> QED
    BY <1>1, <1>2, <1>7, <1>9, <2>1, <2>2, <2>3, Zenon DEF OwnerInv
<1>12. PlaceInv'
  <2>1. PageCount(c) \in Nat \ {0}
    BY <1>2 DEF RegionInv, Placed
  <2>2. pos' < PageCount(c)'
    BY <1>1, <1>2, <1>10, <2>1
  <2> QED
    BY <1>1, <2>2 DEF PlaceInv
<1>13. MappingInv'
  <2>1. ASSUME NEW d \in Reserved, NEW q \in LivePages(d)
        PROVE  ShownAt(d, q)' <=> ShownAt(d, q)
    <3>1. First(d) \in Nat /\ PageCount(d) \in Nat /\ First(d)' = First(d)
      BY <1>2, <1>8 DEF RegionInv, Placed
    <3>2. q \in First(d) .. First(d) + PageCount(d) - 1
      BY Zenon DEF LivePages, Span, First
    <3>3. q >= First(d) + 0
      BY <3>1, <3>2
    <3>4. ShownAt(d, q)'
      BY <1>1, <3>1, <3>3, Zenon DEF ShownAt
    <3>5. ShownAt(d, q)
      BY <1>1, Zenon DEF ShownAt
    <3> QED
      BY <3>4, <3>5, Zenon
  <2> QED
    BY <1>1, <1>2, <1>9, <1>10, <2>1, MappingKept, Zenon
<1> QED
  BY <1>3, <1>6, <1>9, <1>11, <1>12, <1>13, Zenon DEF Inv

LEMMA MapRangeKeeps ==
    ASSUME Inv, MapRange
    PROVE  Inv'
<1>1. pc = "map" /\ Inv
  BY Zenon DEF MapRange
<1>2. PICK m \in Nat :
          /\ pos < m /\ m <= PageCount(cur) /\ Targets(cur, m) \subseteq LivePages(cur)
          /\ mapping' = [p \in AslrPages |->
                            IF p \in Targets(cur, m) THEN PageFor(cur, p) ELSE mapping[p]]
          /\ pos' = m /\ UNCHANGED <<cur, list>>
          /\ \/ m < PageCount(cur) /\ UNCHANGED <<pc, claim>>
             \/ /\ m = PageCount(cur) /\ pc' = "compare"
                /\ claim' = [claim EXCEPT ![cur].rw =
                      First(cur) * PageSize + (claim[cur].ro % PageSize)]
  BY MapRangeDoes
<1>3. /\ OwnerInv /\ RegionInv /\ PlaceInv /\ MappingInv /\ TypeOK
      /\ cur \in Reserved /\ cur \in Claims /\ ~claim[cur].live
  BY <1>1, ReservedAreClaims DEF Inv, OwnerInv, Working
<1>4. ListInv' /\ region' = region
  BY <1>2, ListKept, Zenon DEF Inv, list
<1>5. /\ Placed(cur) /\ Alone(cur) /\ First(cur) \in Nat /\ PageCount(cur) \in Nat /\ pos \in Nat
      /\ LivePages(cur) \subseteq AslrPages
  BY <1>3, Zenon DEF RegionInv, Placed, TypeOK
<1>6. claim \in [Claims -> [live : BOOLEAN, ro : Nat, rw : Nat, size : Nat]]
  BY DEF Inv, TypeOK
<1>7. /\ claim' \in [Claims -> [live : BOOLEAN, ro : Nat, rw : Nat, size : Nat]]
      /\ \A d \in Claims : claim'[d].live = claim[d].live
      /\ \A d \in Claims : claim'[d].ro = claim[d].ro /\ claim'[d].size = claim[d].size
      /\ \A d \in Claims : First(d)' = First(d)
      /\ pc' \in {"map", "compare"}
      /\ pc' = "map" => m < PageCount(cur)
      /\ pc' = "compare" => m = PageCount(cur)
  <2>1. CASE m < PageCount(cur) /\ UNCHANGED <<pc, claim>>
    BY <1>1, <1>6, <2>1, Zenon DEF First
  <2>2. ASSUME m = PageCount(cur), pc' = "compare",
               claim' = [claim EXCEPT ![cur].rw =
                      First(cur) * PageSize + (claim[cur].ro % PageSize)]
        PROVE  /\ claim' \in [Claims -> [live : BOOLEAN, ro : Nat, rw : Nat, size : Nat]]
               /\ \A d \in Claims : claim'[d].live = claim[d].live
               /\ \A d \in Claims : claim'[d].ro = claim[d].ro /\ claim'[d].size = claim[d].size
               /\ \A d \in Claims : First(d)' = First(d)
    <3> DEFINE rw == First(cur) * PageSize + (claim[cur].ro % PageSize)
    <3>1. rw \in Nat /\ PageOf(rw) = First(cur)
      <4>1. claim[cur].ro \in Nat /\ PageSize \in Nat \ {0}
        BY <1>3, <1>6, SpaceAssumption
      <4>2. claim[cur].ro % PageSize \in 0 .. PageSize - 1
        BY <4>1, DivMod
      <4>3. PageOf(rw) = First(cur)
        BY <1>5, <4>1, <4>2, DivOfMultiple DEF PageOf
      <4>4. First(cur) * PageSize \in Nat
        BY <1>5, <4>1
      <4> QED
        BY <4>1, <4>2, <4>3, <4>4
    <3> HIDE DEF rw
    <3>2. claim' = [claim EXCEPT ![cur].rw = rw]
      BY <2>2 DEF rw
    <3>3. claim' \in [Claims -> [live : BOOLEAN, ro : Nat, rw : Nat, size : Nat]]
      BY <1>6, <3>1, <3>2
    <3>4. /\ \A d \in Claims : claim'[d].ro = claim[d].ro /\ claim'[d].size = claim[d].size
          /\ claim'[cur].rw = rw
          /\ \A d \in Claims : d # cur => claim'[d].rw = claim[d].rw
      BY <1>3, <1>6, <3>2
    <3>5. \A d \in Claims : claim'[d].live = claim[d].live
      BY <1>3, <1>6, <3>2, Zenon
    <3>6. \A d \in Claims : First(d)' = First(d)
      BY <3>1, <3>4, Zenon DEF First
    <3> QED
      BY <2>2, <3>3, <3>4, <3>5, <3>6
  <2> QED
    BY <1>1, <1>2, <2>1, <2>2
<1>8. \A d \in Reserved : /\ First(d)' = First(d) /\ claim'[d].ro = claim[d].ro
                          /\ claim'[d].size = claim[d].size
  BY <1>7, ReservedAreClaims, Zenon
<1>9. Reserved' = Reserved /\ RegionInv'
  BY <1>3, <1>4, <1>8, RegionsKept, Zenon
<1>10. \A d \in Reserved : /\ LivePages(d)' = LivePages(d) /\ PageCount(d)' = PageCount(d)
                           /\ \A q : PageFor(d, q)' = PageFor(d, q)
  BY <1>8, ViewKept, Zenon
<1>11. TypeOK'
  <2>1. \A p \in LivePages(cur) : PageFor(cur, p) \in 0 .. RoPageCount - 1
    BY <1>5, SpaceAssumption DEF Placed, PageFor, LivePages, Span, First
  <2>2. mapping \in [AslrPages -> 0 .. RoPageCount - 1 \cup {Unmapped}]
    BY <1>3 DEF TypeOK
  <2>3. mapping' \in [AslrPages -> 0 .. RoPageCount - 1 \cup {Unmapped}]
    BY <1>2, <2>1, <2>2
  <2> QED
    BY <1>2, <1>3, <1>7, <2>3 DEF TypeOK, list, Steps
<1>12. OwnerInv'
  <2>1. pc' # "idle" /\ pc' # "reserve" /\ pc' \in Working /\ pc \in Working
    BY <1>1, <1>7 DEF Working
  <2>2. cur' = cur
    BY <1>2
  <2> QED
    BY <1>3, <1>7, <1>9, <2>1, <2>2, ReservedAreClaims, Zenon DEF OwnerInv
<1>13. PlaceInv'
  <2>1. cur' = cur /\ pos' = m
    BY <1>2
  <2> QED
    BY <1>3, <1>7, <1>10, <2>1, Zenon DEF PlaceInv
<1>14. MappingInv'
  <2>1. ASSUME NEW d, d = cur, NEW q \in LivePages(d)
        PROVE  ShownAt(d, q)' <=> q < First(cur) + m
    <3>1. q \in First(cur) .. First(cur) + PageCount(cur) - 1
      BY <2>1, Zenon DEF LivePages, Span, First
    <3>2. pc' = "compare" => q < First(cur) + m
      BY <1>5, <1>7, <3>1
    <3>3. d = cur' /\ pos' = m /\ First(d)' = First(cur)
      BY <1>2, <1>3, <1>7, <2>1, Zenon
    <3> QED
      BY <1>7, <3>2, <3>3, Zenon DEF ShownAt
  <2>2. \A q \in LivePages(cur) : ShownAt(cur, q) <=> q < First(cur) + pos
    BY <1>1, Zenon DEF ShownAt
  <2>3. \A q \in LivePages(cur) : q < First(cur) + m <=> q < First(cur) + pos \/ q \in Targets(cur, m)
    <3>1. \A q \in LivePages(cur) : q \in Nat
      BY <1>5 DEF LivePages, Span, First
    <3> QED
      BY <1>2, <1>5, <3>1 DEF Targets
  <2>4. \A d \in Reserved : d # cur => \A q \in LivePages(d) : q \notin Targets(cur, m)
    BY <1>2, <1>5 DEF Alone
  <2>5. \A d \in Reserved : d # cur => \A q : ShownAt(d, q) /\ ShownAt(d, q)'
    BY <1>2, Zenon DEF ShownAt
  <2>6. \A q \in AslrPages : mapping'[q] = IF q \in Targets(cur, m) THEN PageFor(cur, q) ELSE mapping[q]
    BY <1>2, Zenon
  <2>7. ASSUME NEW d \in Reserved, NEW q \in Shown(d)'
        PROVE  mapping'[q] = PageFor(d, q)'
    <3>1. q \in LivePages(d) /\ ShownAt(d, q)' /\ q \in AslrPages
      BY <1>3, <1>10, Zenon DEF Shown, RegionInv, Placed
    <3>2. CASE q \in Targets(cur, m)
      BY <1>10, <2>4, <2>6, <3>1, <3>2, Zenon
    <3>3. CASE q \notin Targets(cur, m)
      <4>1. ASSUME d = cur PROVE ShownAt(d, q)
        BY <2>1, <2>2, <2>3, <3>1, <3>3, <4>1, Zenon
      <4>2. ShownAt(d, q)
        BY <2>5, <4>1, Zenon
      <4>3. q \in Shown(d)
        BY <3>1, <4>2, Zenon DEF Shown
      <4> QED
        BY <1>3, <1>10, <2>6, <3>1, <3>3, <4>3, Zenon DEF MappingInv
    <3> QED
      BY <3>2, <3>3
  <2>8. ASSUME NEW q \in AslrPages, mapping'[q] # Unmapped
        PROVE  \E d \in Reserved : q \in Shown(d)'
    <3>1. CASE q \in Targets(cur, m)
      <4>1. PICK d \in Reserved : d = cur
        BY <1>3
      <4>2. q \in LivePages(d) /\ ShownAt(d, q)'
        BY <1>2, <2>1, <2>3, <3>1, <4>1, Zenon
      <4> QED
        BY <1>10, <4>2, Zenon DEF Shown
    <3>2. CASE q \notin Targets(cur, m)
      <4>1. PICK d \in Reserved : q \in Shown(d)
        BY <1>3, <2>6, <2>8, <3>2, Zenon DEF MappingInv
      <4>2. q \in LivePages(d) /\ ShownAt(d, q)
        BY <4>1, Zenon DEF Shown
      <4>3. ASSUME d = cur PROVE ShownAt(d, q)'
        BY <2>1, <2>2, <2>3, <4>2, <4>3, Zenon
      <4>4. ShownAt(d, q)'
        BY <2>5, <4>3, Zenon
      <4> QED
        BY <1>10, <4>2, <4>4, Zenon DEF Shown
    <3> QED
      BY <3>1, <3>2
  <2> QED
    BY <1>9, <2>7, <2>8, Zenon DEF MappingInv
<1> QED
  BY <1>4, <1>9, <1>11, <1>12, <1>13, <1>14, Zenon DEF Inv

LEMMA UnmapRangeKeeps ==
    ASSUME Inv, UnmapRange
    PROVE  Inv'
<1>1. pc = "unmap" /\ Inv
  BY Zenon DEF UnmapRange
<1>2. PICK m \in Nat :
          /\ pos < m /\ m <= PageCount(cur) /\ Targets(cur, m) \subseteq LivePages(cur)
          /\ mapping' = [p \in AslrPages |->
                            IF p \in Targets(cur, m) THEN Unmapped ELSE mapping[p]]
          /\ pos' = m /\ UNCHANGED <<cur, claim, list>>
          /\ \/ m < PageCount(cur) /\ pc' = "unmap"
             \/ m = PageCount(cur) /\ pc' = "unreserve"
  BY UnmapRangeDoes
<1>3. /\ OwnerInv /\ RegionInv /\ PlaceInv /\ MappingInv /\ TypeOK
      /\ cur \in Reserved /\ cur \in Claims /\ ~claim[cur].live
  BY <1>1, ReservedAreClaims DEF Inv, OwnerInv, Working
<1>4. ListInv' /\ region' = region /\ claim' = claim /\ cur' = cur
  BY <1>2, ListKept, Zenon DEF Inv, list
<1>5. /\ Placed(cur) /\ Alone(cur) /\ First(cur) \in Nat /\ PageCount(cur) \in Nat /\ pos \in Nat
      /\ LivePages(cur) \subseteq AslrPages
  BY <1>3, Zenon DEF RegionInv, Placed, TypeOK
<1>8. \A d \in Reserved : /\ First(d)' = First(d) /\ claim'[d].ro = claim[d].ro
                          /\ claim'[d].size = claim[d].size
  BY <1>4, Zenon DEF First
<1>9. Reserved' = Reserved /\ RegionInv'
  BY <1>3, <1>4, <1>8, RegionsKept, Zenon
<1>10. \A d \in Reserved : /\ LivePages(d)' = LivePages(d) /\ PageCount(d)' = PageCount(d)
                           /\ \A q : PageFor(d, q)' = PageFor(d, q)
  BY <1>8, ViewKept, Zenon
<1>11. TypeOK'
  <2>1. mapping \in [AslrPages -> 0 .. RoPageCount - 1 \cup {Unmapped}]
    BY <1>3 DEF TypeOK
  <2>2. mapping' \in [AslrPages -> 0 .. RoPageCount - 1 \cup {Unmapped}]
    BY <1>2, <2>1
  <2> QED
    BY <1>2, <1>3, <2>2 DEF TypeOK, list, Steps
<1>12. OwnerInv'
  <2>1. pc' # "idle" /\ pc' # "reserve" /\ pc' \in Working /\ pc \in Working
    BY <1>1, <1>2 DEF Working
  <2> QED
    BY <1>3, <1>4, <1>9, <2>1, Zenon DEF OwnerInv
<1>13. PlaceInv'
  <2>1. pc' # "reserve" /\ pc' # "map" /\ (pc' = "unmap" => pos' < PageCount(cur))
    BY <1>2
  <2> QED
    BY <1>3, <1>4, <1>10, <2>1, Zenon DEF PlaceInv
<1>14. MappingInv'
  <2>1. ASSUME NEW d, d = cur, NEW q \in LivePages(d)
        PROVE  ShownAt(d, q)' <=> q >= First(cur) + m
    <3>1. q \in First(cur) .. First(cur) + PageCount(cur) - 1
      BY <2>1, Zenon DEF LivePages, Span, First
    <3>2. pc' = "unreserve" => ~(q >= First(cur) + m)
      BY <1>2, <1>5, <3>1
    <3>3. d = cur' /\ pos' = m /\ First(d)' = First(cur)
      BY <1>2, <1>4, <2>1, Zenon DEF First
    <3>4. pc' \in {"unmap", "unreserve"} /\ pc' # "idle" /\ pc' # "compare" /\ pc' # "map"
      BY <1>2
    <3> QED
      BY <3>2, <3>3, <3>4, Zenon DEF ShownAt
  <2>2. \A q \in LivePages(cur) : ShownAt(cur, q) <=> q >= First(cur) + pos
    BY <1>1, Zenon DEF ShownAt
  <2>3. \A q \in LivePages(cur) : q >= First(cur) + m <=> q >= First(cur) + pos /\ q \notin Targets(cur, m)
    <3>1. \A q \in LivePages(cur) : q \in Nat
      BY <1>5 DEF LivePages, Span, First
    <3> QED
      BY <1>2, <1>5, <3>1 DEF Targets
  <2>4. \A d \in Reserved : d # cur => \A q \in LivePages(d) : q \notin Targets(cur, m)
    BY <1>2, <1>5 DEF Alone
  <2>5. \A d \in Reserved : d # cur => \A q : ShownAt(d, q) /\ ShownAt(d, q)'
    BY <1>4, Zenon DEF ShownAt
  <2>6. \A q \in AslrPages : mapping'[q] = IF q \in Targets(cur, m) THEN Unmapped ELSE mapping[q]
    BY <1>2, Zenon
  <2>7. ASSUME NEW d \in Reserved, NEW q \in Shown(d)'
        PROVE  mapping'[q] = PageFor(d, q)'
    <3>1. q \in LivePages(d) /\ ShownAt(d, q)' /\ q \in AslrPages
      BY <1>3, <1>10, Zenon DEF Shown, RegionInv, Placed
    <3>2. q \notin Targets(cur, m)
      BY <2>1, <2>3, <2>4, <3>1, Zenon
    <3>3. ASSUME d = cur PROVE ShownAt(d, q)
      BY <2>1, <2>2, <2>3, <3>1, <3>3, Zenon
    <3>4. q \in Shown(d)
      BY <2>5, <3>1, <3>3, Zenon DEF Shown
    <3> QED
      BY <1>3, <1>10, <2>6, <3>1, <3>2, <3>4, Zenon DEF MappingInv
  <2>8. ASSUME NEW q \in AslrPages, mapping'[q] # Unmapped
        PROVE  \E d \in Reserved : q \in Shown(d)'
    <3>1. q \notin Targets(cur, m) /\ mapping[q] # Unmapped
      BY <2>6, <2>8, Zenon
    <3>2. PICK d \in Reserved : q \in Shown(d)
      BY <1>3, <3>1, Zenon DEF MappingInv
    <3>3. q \in LivePages(d) /\ ShownAt(d, q)
      BY <3>2, Zenon DEF Shown
    <3>4. ASSUME d = cur PROVE ShownAt(d, q)'
      BY <2>1, <2>2, <2>3, <3>1, <3>3, <3>4, Zenon
    <3> QED
      BY <1>10, <2>5, <3>3, <3>4, Zenon DEF Shown
  <2> QED
    BY <1>9, <2>7, <2>8, Zenon DEF MappingInv
<1> QED
  BY <1>4, <1>9, <1>11, <1>12, <1>13, <1>14, Zenon DEF Inv

----
(* Steps on the list                                                       *)

LEMMA ReserveKeeps ==
    ASSUME Inv, Reserve
    PROVE  Inv'
<1>1. /\ pc = "reserve" /\ pos' = 0 /\ UNCHANGED <<cur, claim, mapping>> /\ Inv
  BY Zenon DEF Reserve
<1>2. /\ OwnerInv /\ RegionInv /\ PlaceInv /\ MappingInv /\ TypeOK /\ ListInv
      /\ cur \notin Reserved /\ cur \in Claims /\ cur # NULL
  BY <1>1, SpaceAssumption DEF Inv, OwnerInv
<1>3. /\ Placed(cur) /\ Alone(cur) /\ ~IsMapped(LivePages(cur))
      /\ First(cur) \in Nat /\ PageCount(cur) \in Nat \ {0} /\ LivePages(cur) \subseteq AslrPages
  BY <1>1, <1>2, Zenon DEF PlaceInv, Placed
<1>4. CASE pc' = "aborted" /\ UNCHANGED list
  <2>1. TypeOK'
    BY <1>1, <1>2, <1>4 DEF TypeOK, list, Steps
  <2>2. ListInv'
    BY <1>2, <1>4, ListKept
  <2> QED
    BY <1>4, <2>1, <2>2, Zenon DEF Inv
<1>5. ASSUME AddReservation(cur, First(cur), PageCount(cur)), pc' = "map"
      PROVE  Inv'
  <2>1. /\ next \in Links /\ prev \in Links /\ head \in Claims \cup {NULL}
        /\ region \in [Claims -> [start : Nat, pages : Nat]]
    BY <1>2 DEF TypeOK, Links
  <2>2. /\ region' = [region EXCEPT ![cur] = [start |-> First(cur), pages |-> PageCount(cur)]]
        /\ next' = [next EXCEPT ![cur] = head]
        /\ prev' = (IF head = NULL THEN [prev EXCEPT ![cur] = NULL]
                    ELSE [prev EXCEPT ![cur] = NULL, ![head] = cur])
        /\ head' = cur
    BY <1>5, Zenon DEF AddReservation
  <2>3. head # cur
    <3>1. Linked(Walk) /\ cur \notin Range(Walk)
      BY <1>2, Zenon DEF ListInv
    <3>2. DOMAIN Walk = 1 .. Len(Walk) /\ Len(Walk) \in Nat
      BY <3>1 DEF Linked, LinkedBy
    <3>3. \A i \in 1 .. Len(Walk) : Walk[i] \in Range(Walk)
      BY <3>2, InRange
    <3>4. head = IF Len(Walk) = 0 THEN NULL ELSE Walk[1]
      BY <3>1, Zenon DEF Linked, LinkedBy
    <3>5. CASE Len(Walk) = 0
      BY <1>2, <3>4, <3>5
    <3>6. CASE Len(Walk) # 0
      <4>1. 1 \in 1 .. Len(Walk)
        BY <3>2, <3>6
      <4>2. head = Walk[1] /\ Walk[1] \in Range(Walk)
        BY <3>3, <3>4, <3>6, <4>1, Zenon
      <4> QED
        BY <3>1, <4>2, Zenon
    <3> QED
      BY <3>5, <3>6
  <2>4. /\ next' \in Links /\ next'[cur] = head
        /\ \A d \in Claims \ {cur} : next'[d] = next[d]
    BY <1>2, <2>1, <2>2 DEF Links
  <2>5. /\ prev' \in Links /\ prev'[cur] = NULL
        /\ \A d \in Claims \ {cur} : prev'[d] = IF d = head THEN cur ELSE prev[d]
    <3>1. CASE head = NULL
      BY <1>2, <2>1, <2>2, <3>1, SpaceAssumption DEF Links
    <3>2. CASE head # NULL
      BY <1>2, <2>1, <2>2, <2>3, <3>2 DEF Links
    <3> QED
      BY <3>1, <3>2
  <2>6. /\ region' \in [Claims -> [start : Nat, pages : Nat]]
        /\ region'[cur] = [start |-> First(cur), pages |-> PageCount(cur)]
        /\ \A d \in Claims \ {cur} : region'[d] = region[d]
    BY <1>2, <1>3, <2>1, <2>2
  <2>7. TypeOK'
    BY <1>1, <1>2, <1>5, <2>2, <2>4, <2>5, <2>6 DEF TypeOK, Links, Steps
  <2>8. Reserved' = Reserved \cup {cur}
    <3>1. region'[cur].pages = PageCount(cur)
      BY <2>6
    <3>2. region'[cur].pages > 0
      BY <1>3, <3>1
    <3> QED
      BY <1>2, <2>6, <3>2 DEF Reserved
  <2>9. ListInv'
    <3>1. LinkedBy(Walk, head, next, prev) /\ cur \notin Range(Walk)
      BY <1>2, Zenon DEF ListInv, Linked
    <3>2. PICK s : s = Walk
      OBVIOUS
    <3>3. PICK c : c = cur
      OBVIOUS
    <3>6. /\ c \in Claims /\ c \notin Range(s) /\ LinkedBy(s, head, next, prev) /\ head' = c
          /\ next'[c] = head /\ prev'[c] = NULL
          /\ \A d \in Claims \ {c} : next'[d] = next[d]
          /\ \A d \in Claims \ {c} : prev'[d] = IF d = head THEN c ELSE prev[d]
      BY <1>2, <2>2, <2>4, <2>5, <3>1, <3>2, <3>3, Zenon
    <3>7. AddedTo(s, c, head, next, prev, next', prev')
      BY <2>1, <2>4, <2>5, <3>6, Zenon DEF AddedTo
    <3>4. LinkedBy(Pushed(c, s), head', next', prev') /\ Range(Pushed(c, s)) = Range(s) \cup {c}
      <4>1. /\ LinkedBy(Pushed(c, s), c, next', prev')
            /\ Range(Pushed(c, s)) = Range(s) \cup {c}
        BY <3>6, <3>7, PushedIsLinked
      <4> QED
        BY <3>6, <4>1, Zenon
    <3>5. Walk' = Pushed(c, s)
      BY <3>4, NextWalk, Zenon
    <3> QED
      BY <1>2, <2>8, <3>2, <3>3, <3>4, <3>5, Zenon DEF ListInv, Linked
  <2>10. \A d : /\ First(d)' = First(d) /\ claim'[d].ro = claim[d].ro
                /\ claim'[d].size = claim[d].size
    BY <1>1, Zenon DEF First
  <2>11. \A d : /\ LivePages(d)' = LivePages(d) /\ PageCount(d)' = PageCount(d)
                /\ (Placed(d) => Placed(d)') /\ \A q : PageFor(d, q)' = PageFor(d, q)
    BY <2>10, ViewKept, Zenon
  <2>12. OwnerInv'
    <3>1. pc' # "idle" /\ pc' # "reserve" /\ pc' \in Working /\ pc \notin Working
      BY <1>1, <1>5 DEF Working
    <3>2. ~claim[cur].live
      BY <1>2, Zenon DEF OwnerInv
    <3>3. cur \in Reserved' /\ \A d \in Reserved' : d \in Reserved \/ d = cur
      BY <2>8
    <3>4. \A d \in Claims : claim[d].live => d \in Reserved'
      BY <1>2, <2>8 DEF OwnerInv
    <3> QED
      BY <1>1, <1>2, <3>1, <3>2, <3>3, <3>4, Zenon DEF OwnerInv
  <2>13. RegionInv'
    <3>1. ASSUME NEW d \in Reserved'
          PROVE  /\ region'[d] = [start |-> First(d)', pages |-> PageCount(d)']
                 /\ Placed(d)' /\ Alone(d)'
      <4>1. d = cur \/ (d \in Reserved /\ d # cur /\ d \in Claims \ {cur})
        BY <1>2, <2>8, ReservedAreClaims
      <4>2. region'[d] = [start |-> First(d), pages |-> PageCount(d)] /\ Placed(d)
        BY <1>2, <1>3, <2>6, <4>1, Zenon DEF RegionInv
      <4>3. \A e \in Reserved' : e # d => LivePages(d) \cap LivePages(e) = {}
        <5>1. CASE d = cur
          BY <1>3, <2>8, <5>1 DEF Alone
        <5>2. CASE d # cur
          <6>1. Alone(d)
            BY <1>2, <4>1, <5>2, Zenon DEF RegionInv
          <6>2. LivePages(d) \cap LivePages(cur) = {}
            BY <1>3, <4>1, <5>2 DEF Alone
          <6> QED
            BY <2>8, <6>1, <6>2 DEF Alone
        <5> QED
          BY <5>1, <5>2
      <4> QED
        BY <2>10, <2>11, <4>2, <4>3, Zenon DEF Alone
    <3> QED
      BY <3>1, Zenon DEF RegionInv
  <2>14. PlaceInv'
    <3>1. cur' = cur /\ pos' < PageCount(cur) /\ pc' = "map" /\ pc' # "reserve"
      BY <1>1, <1>3, <1>5
    <3> QED
      BY <2>11, <3>1, Zenon DEF PlaceInv
  <2>15. MappingInv'
    <3>1. ASSUME NEW d, d = cur, NEW q \in LivePages(d)
          PROVE  ~ShownAt(d, q)'
      <4>1. q \in First(cur) .. First(cur) + PageCount(cur) - 1
        BY <3>1, Zenon DEF LivePages, Span, First
      <4>2. ~(q < First(cur) + 0)
        BY <1>3, <4>1
      <4>3. d = cur' /\ pos' = 0 /\ First(d)' = First(cur)
        BY <1>1, <2>10, <3>1, Zenon
      <4> QED
        BY <1>5, <4>2, <4>3, Zenon DEF ShownAt
    <3>2. \A d \in Reserved : \A q : ShownAt(d, q) /\ ShownAt(d, q)'
      BY <1>1, <1>2, Zenon DEF ShownAt
    <3>3. ASSUME NEW d \in Reserved', NEW q \in Shown(d)'
          PROVE  mapping'[q] = PageFor(d, q)'
      <4>1. q \in LivePages(d) /\ ShownAt(d, q)'
        BY <2>11, Zenon DEF Shown
      <4>2. d \in Reserved
        BY <2>8, <3>1, <4>1
      <4> QED
        BY <1>1, <1>2, <2>11, <3>2, <4>1, <4>2, Zenon DEF MappingInv, Shown
    <3>4. ASSUME NEW q \in AslrPages, mapping'[q] # Unmapped
          PROVE  \E d \in Reserved' : q \in Shown(d)'
      <4>1. PICK d \in Reserved : q \in Shown(d)
        BY <1>1, <1>2, <3>4, Zenon DEF MappingInv
      <4>2. q \in Shown(d)' /\ d \in Reserved'
        <5>1. q \in LivePages(d)
          BY <4>1, Zenon DEF Shown
        <5>2. d \in Reserved'
          BY <2>8
        <5> QED
          BY <2>11, <3>2, <5>1, <5>2, Zenon DEF Shown
      <4> QED
        BY <4>2
    <3> QED
      BY <3>3, <3>4, Zenon DEF MappingInv
  <2> QED
    BY <2>7, <2>9, <2>12, <2>13, <2>14, <2>15, Zenon DEF Inv
<1> QED
  BY <1>4, <1>5, Zenon DEF Reserve, First

LEMMA UnreserveKeeps ==
    ASSUME Inv, Unreserve
    PROVE  Inv'
<1>1. /\ pc = "unreserve" /\ pos' = 0 /\ pc' = "idle" /\ cur' = NULL /\ mapping' = mapping
      /\ claim' = [claim EXCEPT ![cur] = NoClaim] /\ RemoveReservation(cur) /\ Inv
  BY Zenon DEF Unreserve
<1>2. /\ OwnerInv /\ RegionInv /\ PlaceInv /\ MappingInv /\ TypeOK /\ ListInv
      /\ cur \in Reserved /\ cur \in Claims /\ ~claim[cur].live
  BY <1>1, ReservedAreClaims DEF Inv, OwnerInv, Working
<1>3. /\ next \in Links /\ prev \in Links /\ head \in Claims \cup {NULL}
      /\ region \in [Claims -> [start : Nat, pages : Nat]]
      /\ claim \in [Claims -> [live : BOOLEAN, ro : Nat, rw : Nat, size : Nat]]
  BY <1>2 DEF TypeOK, Links
<1>4. /\ head' = (IF prev[cur] = NULL THEN next[cur] ELSE head)
      /\ next' = [d \in Claims |-> IF d = prev[cur] THEN next[cur]
                                   ELSE IF d = cur THEN NULL ELSE next[d]]
      /\ prev' = [d \in Claims |-> IF d = next[cur] THEN prev[cur]
                                   ELSE IF d = cur THEN NULL ELSE prev[d]]
      /\ region' = [region EXCEPT ![cur] = NoRegion]
  BY <1>1, Zenon DEF RemoveReservation
<1>5. /\ next' \in Links
      /\ \A d \in Claims \ {cur} : next'[d] = IF d = prev[cur] THEN next[cur] ELSE next[d]
  BY <1>2, <1>3, <1>4 DEF Links
<1>6. /\ prev' \in Links
      /\ \A d \in Claims \ {cur} : prev'[d] = IF d = next[cur] THEN prev[cur] ELSE prev[d]
  BY <1>2, <1>3, <1>4 DEF Links
<1>7. head' \in Claims \cup {NULL}
  BY <1>2, <1>3, <1>4 DEF Links
<1>8. /\ region' \in [Claims -> [start : Nat, pages : Nat]]
      /\ region'[cur].pages = 0
      /\ \A d \in Claims \ {cur} : region'[d] = region[d]
  BY <1>2, <1>3, <1>4 DEF NoRegion
<1>9. /\ claim' \in [Claims -> [live : BOOLEAN, ro : Nat, rw : Nat, size : Nat]]
      /\ \A d \in Claims \ {cur} : claim'[d] = claim[d]
  BY <1>1, <1>2, <1>3 DEF NoClaim
<1>10. ~claim'[cur].live
  BY <1>1, <1>2, <1>3, Zenon DEF NoClaim
<1>11. TypeOK'
  BY <1>1, <1>2, <1>5, <1>6, <1>7, <1>8, <1>9 DEF TypeOK, Links, Steps
<1>12. Reserved' = Reserved \ {cur}
  BY <1>2, <1>8 DEF Reserved
<1>13. ListInv'
  <2>1. PICK s : s = Walk
    OBVIOUS
  <2>2. LinkedBy(s, head, next, prev) /\ Range(s) = Reserved
    BY <1>2, <2>1, Zenon DEF ListInv, Linked
  <2>3. DOMAIN s = 1 .. Len(s)
    BY <2>2 DEF LinkedBy
  <2>4. PICK k \in 1 .. Len(s) : s[k] = cur
    BY <1>2, <2>2, <2>3, InRange
  <2>5. RemovedFrom(s, k, next, prev, next', prev')
    BY <1>3, <1>5, <1>6, <2>4 DEF RemovedFrom
  <2>6. /\ LinkedBy(Without(s, k), IF prev[s[k]] = NULL THEN next[s[k]] ELSE head, next', prev')
        /\ Range(Without(s, k)) = Range(s) \ {s[k]}
    BY <2>2, <2>5, WithoutIsLinked
  <2>7. LinkedBy(Without(s, k), head', next', prev') /\ Range(Without(s, k)) = Reserved'
    BY <1>4, <1>12, <2>2, <2>4, <2>6, Zenon
  <2>8. Walk' = Without(s, k)
    BY <2>7, NextWalk, Zenon
  <2> QED
    BY <2>7, <2>8, Zenon DEF ListInv, Linked
<1>14. \A d \in Reserved' : d \in Reserved /\ d # cur /\ d \in Claims \ {cur}
  BY <1>12, ReservedAreClaims
<1>15. \A d \in Reserved' : /\ First(d)' = First(d) /\ claim'[d].ro = claim[d].ro
                            /\ claim'[d].size = claim[d].size
  BY <1>9, <1>14, Zenon DEF First
<1>16. \A d \in Reserved' : /\ LivePages(d)' = LivePages(d) /\ PageCount(d)' = PageCount(d)
                            /\ (Placed(d) => Placed(d)') /\ \A q : PageFor(d, q)' = PageFor(d, q)
  BY <1>15, ViewKept, Zenon
<1>17. OwnerInv'
  <2>1. \A d \in Claims : claim'[d].live => d \in Reserved'
    <3>1. ASSUME NEW d \in Claims, claim'[d].live
          PROVE  d \in Reserved'
      <4>1. d # cur
        BY <1>10, <3>1, Zenon
      <4>2. claim[d].live
        BY <1>9, <3>1, <4>1
      <4> QED
        BY <1>2, <1>12, <4>1, <4>2 DEF OwnerInv
    <3> QED
      BY <3>1
  <2>2. \A d \in Reserved' : claim'[d].live
    BY <1>2, <1>9, <1>14, Zenon DEF OwnerInv
  <2>3. pc' = "idle" /\ pc' # "reserve" /\ pc' \notin Working
    BY <1>1 DEF Working
  <2> QED
    BY <2>1, <2>2, <2>3, Zenon DEF OwnerInv
<1>18. RegionInv'
  <2>1. ASSUME NEW d \in Reserved'
        PROVE  /\ region'[d] = [start |-> First(d)', pages |-> PageCount(d)']
               /\ Placed(d)' /\ Alone(d)'
    <3>1. region'[d] = [start |-> First(d)', pages |-> PageCount(d)'] /\ Placed(d)'
      BY <1>2, <1>8, <1>14, <1>15, <1>16, Zenon DEF RegionInv
    <3>2. \A e \in Reserved' : e # d => LivePages(d) \cap LivePages(e) = {}
      BY <1>2, <1>14, Zenon DEF RegionInv, Alone
    <3> QED
      BY <1>16, <3>1, <3>2, Zenon DEF Alone
  <2> QED
    BY <2>1, Zenon DEF RegionInv
<1>19. PlaceInv'
  BY <1>1 DEF PlaceInv
<1>20. MappingInv'
  <2>1. \A d \in Reserved : \A q : ShownAt(d, q) <=> d # cur
    BY <1>1, Zenon DEF ShownAt
  <2>2. \A d, q : ShownAt(d, q)'
    BY <1>1, Zenon DEF ShownAt
  <2>3. ASSUME NEW d \in Reserved', NEW q \in Shown(d)'
        PROVE  mapping'[q] = PageFor(d, q)'
    <3>1. q \in LivePages(d) /\ d \in Reserved /\ d # cur
      BY <1>14, <1>16, Zenon DEF Shown
    <3>2. q \in Shown(d)
      BY <2>1, <3>1, Zenon DEF Shown
    <3> QED
      BY <1>1, <1>2, <1>16, <3>1, <3>2, Zenon DEF MappingInv
  <2>4. ASSUME NEW q \in AslrPages, mapping'[q] # Unmapped
        PROVE  \E d \in Reserved' : q \in Shown(d)'
    <3>1. PICK d \in Reserved : q \in Shown(d)
      BY <1>1, <1>2, <2>4, Zenon DEF MappingInv
    <3>2. q \in LivePages(d) /\ ShownAt(d, q)
      BY <3>1, Zenon DEF Shown
    <3>3. d \in Reserved'
      BY <1>12, <2>1, <3>2
    <3>4. q \in Shown(d)'
      BY <1>16, <2>2, <3>2, <3>3, Zenon DEF Shown
    <3> QED
      BY <3>3, <3>4
  <2> QED
    BY <2>3, <2>4, Zenon DEF MappingInv
<1> QED
  BY <1>11, <1>13, <1>17, <1>18, <1>19, <1>20, Zenon DEF Inv

----
(* The invariant holds                                                     *)

LEMMA InitIsFine == Init => Inv
<1> SUFFICES ASSUME Init PROVE Inv
  OBVIOUS
<1>1. TypeOK
  BY SpaceAssumption DEF Init, TypeOK, Steps, NoClaim, NoRegion
<1>2. Reserved = {}
  BY DEF Init, Reserved, NoRegion
<1>3. ListInv
  <2>1. LinkedBy(<<>>, head, next, prev)
    BY DEF Init, LinkedBy
  <2>2. Walk = <<>>
    BY <2>1, WalkIsTheList, Zenon DEF Linked
  <2>3. Range(<<>>) = {}
    BY DEF Range
  <2> QED
    BY <1>2, <2>1, <2>2, <2>3, Zenon DEF ListInv, Linked
<1>4. OwnerInv
  <2>1. \A c \in Claims : ~claim[c].live
    BY Zenon DEF Init, NoClaim
  <2> QED
    BY <1>2, <2>1 DEF Init, OwnerInv, Working
<1>5. RegionInv /\ PlaceInv
  BY <1>2 DEF Init, RegionInv, PlaceInv
<1>6. MappingInv
  BY <1>2 DEF Init, MappingInv
<1> QED
  BY <1>1, <1>3, <1>4, <1>5, <1>6, Zenon DEF Inv

LEMMA StutterKeeps ==
    ASSUME Inv, UNCHANGED vars
    PROVE  Inv'
<1>1. /\ UNCHANGED <<pc, cur, pos, claim, mapping>> /\ UNCHANGED list /\ region' = region
  BY DEF vars, list
<1>2. TypeOK' /\ ListInv'
  BY <1>1, ListKept DEF Inv, TypeOK, list
<1>3. \A c : /\ First(c)' = First(c) /\ claim'[c].ro = claim[c].ro
             /\ claim'[c].size = claim[c].size
  BY <1>1, Zenon DEF First
<1>4. \A c : /\ LivePages(c)' = LivePages(c) /\ PageCount(c)' = PageCount(c)
             /\ (Placed(c) => Placed(c)') /\ \A q : PageFor(c, q)' = PageFor(c, q)
  BY <1>3, ViewKept, Zenon
<1>5. ASSUME pc # "aborted", OwnerInv, RegionInv, PlaceInv, MappingInv
      PROVE  OwnerInv' /\ RegionInv' /\ PlaceInv' /\ MappingInv'
  <2>1. Reserved' = Reserved /\ RegionInv'
    BY <1>1, <1>3, <1>5, RegionsKept, Zenon
  <2>2. OwnerInv'
    BY <1>1, <1>5, <2>1, Zenon DEF OwnerInv
  <2>3. PlaceInv'
    <3>1. ASSUME pc = "reserve"
          PROVE  Placed(cur)' /\ Alone(cur)' /\ ~IsMapped(LivePages(cur))'
      <4>1. PICK c : c = cur
        OBVIOUS
      <4>2. Placed(c) /\ Alone(c) /\ ~IsMapped(LivePages(c)) /\ c = cur'
        BY <1>1, <1>5, <3>1, <4>1, Zenon DEF PlaceInv
      <4>3. Placed(c)' /\ Alone(c)' /\ ~IsMapped(LivePages(c))'
        BY <1>1, <1>4, <2>1, <4>2, Zenon DEF Alone, IsMapped
      <4> QED
        BY <4>2, <4>3, Zenon
    <3>2. PICK c : c = cur
      OBVIOUS
    <3>3. pc \in {"map", "unmap"} => pos' < PageCount(c)'
      BY <1>1, <1>4, <1>5, <3>2, Zenon DEF PlaceInv
    <3>4. pc \in {"map", "unmap"} => pos' < PageCount(cur)'
      BY <1>1, <3>2, <3>3, Zenon
    <3> QED
      BY <1>1, <3>1, <3>4, Zenon DEF PlaceInv
  <2>4. MappingInv'
    <3>1. \A d \in Reserved : \A q \in LivePages(d) : ShownAt(d, q)' <=> ShownAt(d, q)
      BY <1>1, <1>3, Zenon DEF ShownAt
    <3> QED
      BY <1>1, <1>4, <1>5, <2>1, <3>1, MappingKept, Zenon
  <2> QED
    BY <2>1, <2>2, <2>3, <2>4
<1> QED
  BY <1>1, <1>2, <1>5, Zenon DEF Inv

LEMMA InvIsInductive ==
    ASSUME Inv, [Next]_vars
    PROVE  Inv'
BY FindKeeps, ReserveKeeps, MapRangeKeeps, CompareKeeps, DestroyKeeps,
   UnmapRangeKeeps, UnreserveKeeps, StutterKeeps, Zenon DEF Next

LEMMA Invariance == Spec => []Inv
BY InitIsFine, InvIsInductive, PTL DEF Spec

(***************************************************************************)
(* Every variable keeps its type.                                          *)
(***************************************************************************)
THEOREM TypeCorrect == Spec => []TypeOK
<1>1. Inv => TypeOK
  BY DEF Inv
<1> QED
  BY <1>1, Invariance, PTL

----
(* What the invariant gives                                                *)

(***************************************************************************)
(* virtmemAddReservation and virtmemRemoveReservation keep the list: it is *)
(* the reserved regions, each once, and both directions agree, whatever    *)
(* the order in which claims come and go.                                  *)
(***************************************************************************)
THEOREM ReservationsAreListed == Spec => []ListIsReservations
<1>1. ASSUME Inv
      PROVE  ListIsReservations
  <2>1. LinkedBy(Walk, head, next, prev) /\ Range(Walk) = Reserved
    BY <1>1, Zenon DEF Inv, ListInv, Linked
  <2>2. PICK s : s = Walk
    OBVIOUS
  <2>3. /\ s \in Seq(Claims)
        /\ \A i, j \in 1 .. Len(s) : s[i] = s[j] => i = j
        /\ head = (IF Len(s) = 0 THEN NULL ELSE s[1])
        /\ \A i \in 1 .. Len(s) : next[s[i]] = IF i = Len(s) THEN NULL ELSE s[i + 1]
        /\ \A i \in 1 .. Len(s) : prev[s[i]] = IF i = 1 THEN NULL ELSE s[i - 1]
    BY <2>1, <2>2, Zenon DEF LinkedBy
  <2>4. Cardinality(Reserved) = Len(s)
    BY <2>1, <2>2, <2>3, RangeOfList
  <2>5. head # NULL => prev[head] = NULL
    <3>1. CASE Len(s) = 0
      BY <2>3, <3>1
    <3>2. CASE Len(s) # 0
      BY <2>3, <3>2
    <3> QED
      BY <3>1, <3>2
  <2>6. ASSUME NEW c \in Reserved, next[c] # NULL
        PROVE  prev[next[c]] = c
    <3>1. DOMAIN s = 1 .. Len(s) /\ Range(s) = Reserved
      BY <2>1, <2>2, <2>3
    <3>2. PICK i \in 1 .. Len(s) : c = s[i]
      BY <3>1, InRange
    <3>3. i # Len(s) /\ next[c] = s[i + 1]
      BY <2>3, <2>6, <3>2
    <3>4. PICK j \in 1 .. Len(s) : j = i + 1
      BY <2>3, <3>3
    <3>5. prev[s[j]] = s[j - 1] /\ j - 1 = i
      BY <2>3, <3>4
    <3> QED
      BY <3>2, <3>3, <3>4, <3>5
  <2> QED
    BY <2>1, <2>2, <2>4, <2>5, <2>6, Zenon DEF ListIsReservations
<1> QED
  BY <1>1, Invariance, PTL

(***************************************************************************)
(* Between two operations every page of a live claim shows the page it     *)
(* stands for, and nothing else is mapped: RwPages' constructor and        *)
(* destructor never disturb another object's view.                         *)
(***************************************************************************)
THEOREM ViewsStayExact == Spec => []ViewsAreExact
<1>1. ASSUME Inv, pc = "idle"
      PROVE  /\ \A c \in Claims : claim[c].live =>
                    \A p \in LivePages(c) : mapping[p] = RoPage(c) + (p - PageOf(claim[c].rw))
             /\ \A p \in AslrPages : mapping[p] # Unmapped =>
                    \E c \in Claims : claim[c].live /\ p \in LivePages(c)
  <2>1. OwnerInv /\ MappingInv /\ pc \notin Working
    BY <1>1 DEF Inv, Working
  <2>2. ASSUME NEW c \in Claims, claim[c].live, NEW p \in LivePages(c)
        PROVE  mapping[p] = RoPage(c) + (p - PageOf(claim[c].rw))
    <3>1. c \in Reserved /\ p \in Shown(c)
      BY <1>1, <2>1, <2>2, Zenon DEF OwnerInv, Shown, ShownAt
    <3> QED
      BY <2>1, <3>1, Zenon DEF MappingInv, PageFor
  <2>3. ASSUME NEW p \in AslrPages, mapping[p] # Unmapped
        PROVE  \E c \in Claims : claim[c].live /\ p \in LivePages(c)
    <3>1. PICK c \in Reserved : p \in Shown(c)
      BY <2>1, <2>3, Zenon DEF MappingInv
    <3>2. c \in Claims /\ claim[c].live /\ p \in LivePages(c)
      BY <2>1, <3>1, ReservedAreClaims, Zenon DEF OwnerInv, Shown
    <3> QED
      BY <3>2
  <2> QED
    BY <2>2, <2>3, Zenon
<1>2. Inv => ViewsAreExact
  BY <1>1, Zenon DEF ViewsAreExact
<1> QED
  BY <1>2, Invariance, PTL

(***************************************************************************)
(* svcMapProcessMemory and svcUnmapProcessMemory are never asked for what  *)
(* the kernel refuses.                                                     *)
(***************************************************************************)
THEOREM NothingIsRefused == Spec => KernelNeverRefuses
<1>1. ASSUME Inv, [Next]_vars, pc \in {"map", "unmap"}
      PROVE  pc' # "aborted"
  <2>1. CASE MapRange
    BY <1>1, <2>1, MapRangeDoes
  <2>2. CASE UnmapRange
    BY <1>1, <2>2, UnmapRangeDoes
  <2>3. CASE UNCHANGED vars
    BY <1>1, <2>3 DEF vars
  <2>4. CASE Next /\ ~MapRange /\ ~UnmapRange
    BY <1>1, <2>4 DEF Next, Find, Reserve, Compare, Destroy, Unreserve
  <2> QED
    BY <1>1, <2>1, <2>2, <2>3, <2>4
<1>2. Inv /\ [Next]_vars => [(pc \in {"map", "unmap"}) => pc' # "aborted"]_vars
  BY <1>1, Zenon
<1> QED
  BY <1>2, Invariance, PTL DEF Spec, KernelNeverRefuses

----
(* The address space                                                       *)

LEMMA EmptySpan ==
    ASSUME NEW first \in Nat, NEW count \in Nat
    PROVE  Span(first, count) = {} <=> count = 0
<1>1. count # 0 => first \in Span(first, count)
  BY DEF Span
<1>2. count = 0 => Span(first, count) = {}
  BY DEF Span
<1> QED
  BY <1>1, <1>2

LEMMA HeldPages ==
    ASSUME Inv, NEW c \in Claims
    PROVE  /\ Holds[c] = Span(region[c].start, region[c].pages)
           /\ Holds[c] = {} <=> c \notin Reserved
<1>1. region[c].start \in Nat /\ region[c].pages \in Nat
  BY DEF Inv, TypeOK
<1>2. Holds[c] = Span(region[c].start, region[c].pages)
  BY Zenon DEF Holds
<1>3. c \in Reserved <=> region[c].pages # 0
  BY <1>1 DEF Reserved
<1> QED
  BY <1>1, <1>2, <1>3, EmptySpan

LEMMA ReservedPages ==
    ASSUME RegionInv, NEW c \in Reserved
    PROVE  Span(region[c].start, region[c].pages) = LivePages(c)
<1>1. region[c].start = First(c) /\ region[c].pages = PageCount(c)
  BY RegionFields, Zenon DEF RegionInv
<1> QED
  BY <1>1, Zenon DEF LivePages, First

(* A reservation acquires pages nobody holds.                              *)
LEMMA ReserveAcquires ==
    ASSUME Inv, Reserve
    PROVE  [Space!Next]_Holds
<1>1. pc = "reserve" /\ Inv
  BY Zenon DEF Reserve
<1>2. /\ OwnerInv /\ RegionInv /\ PlaceInv /\ TypeOK
      /\ cur \notin Reserved /\ cur \in Claims
  BY <1>1 DEF Inv, OwnerInv
<1>3. /\ Placed(cur) /\ Alone(cur) /\ First(cur) \in Nat /\ PageCount(cur) \in Nat \ {0}
      /\ LivePages(cur) \subseteq AslrPages
  BY <1>1, <1>2, Zenon DEF PlaceInv, Placed
<1>4. CASE UNCHANGED list
  BY <1>4, Zenon DEF list, Holds
<1>5. CASE AddReservation(cur, First(cur), PageCount(cur))
  <2>1. region' = [region EXCEPT ![cur] = [start |-> First(cur), pages |-> PageCount(cur)]]
    BY <1>5, Zenon DEF AddReservation
  <2>2. region \in [Claims -> [start : Nat, pages : Nat]]
    BY <1>2 DEF TypeOK
  <2>3. /\ region'[cur].start = First(cur) /\ region'[cur].pages = PageCount(cur)
        /\ \A d \in Claims : d # cur => region'[d] = region[d]
    BY <1>2, <2>1, <2>2
  <2>4. Holds' = [Holds EXCEPT ![cur] = LivePages(cur)]
    <3>1. \A d \in Claims : Span(region'[d].start, region'[d].pages) =
                                IF d = cur THEN LivePages(cur) ELSE Span(region[d].start, region[d].pages)
      BY <2>3, Zenon DEF LivePages, First
    <3> QED
      BY <3>1, Zenon DEF Holds
  <2>5. Holds[cur] = {}
    BY <1>1, <1>2, HeldPages
  <2>6. LivePages(cur) # {}
    BY <1>3, EmptySpan DEF LivePages, First
  <2>7. \A d \in Claims : Holds[d] \cap LivePages(cur) = {}
    <3>1. ASSUME NEW d \in Claims
          PROVE  Holds[d] \cap LivePages(cur) = {}
      <4>1. CASE d \in Reserved
        <5>1. Holds[d] = LivePages(d) /\ d # cur
          BY <1>1, <1>2, <4>1, HeldPages, ReservedPages
        <5>2. LivePages(cur) \cap LivePages(d) = {}
          BY <1>3, <4>1, <5>1, Zenon DEF Alone
        <5> QED
          BY <5>1, <5>2
      <4>2. CASE d \notin Reserved
        BY <1>1, <4>2, HeldPages
      <4> QED
        BY <4>1, <4>2
    <3> QED
      BY <3>1
  <2>8. LivePages(cur) \in SUBSET AslrPages
    BY <1>3
  <2>9. Space!Acquire(cur, LivePages(cur))
    BY <2>4, <2>5, <2>6, <2>7, Zenon DEF Space!Acquire
  <2> QED
    BY <1>2, <2>8, <2>9, Zenon DEF Space!Next
<1> QED
  BY <1>4, <1>5, Zenon DEF Reserve, First

(* Removing it releases them.                                              *)
LEMMA UnreserveReleases ==
    ASSUME Inv, Unreserve
    PROVE  [Space!Next]_Holds
<1>1. /\ pc = "unreserve" /\ region' = [region EXCEPT ![cur] = NoRegion] /\ Inv
  BY Zenon DEF Unreserve, RemoveReservation
<1>2. cur \in Reserved /\ cur \in Claims /\ TypeOK
  BY <1>1, ReservedAreClaims DEF Inv, OwnerInv, Working
<1>3. region \in [Claims -> [start : Nat, pages : Nat]]
  BY <1>2 DEF TypeOK
<1>4. /\ region'[cur].start \in Nat /\ region'[cur].pages = 0
      /\ \A d \in Claims : d # cur => region'[d] = region[d]
  BY <1>1, <1>2, <1>3 DEF NoRegion
<1>5. Span(region'[cur].start, region'[cur].pages) = {}
  BY <1>4, EmptySpan
<1>6. Holds' = [Holds EXCEPT ![cur] = {}]
  <2>1. \A d \in Claims : Span(region'[d].start, region'[d].pages) =
                              IF d = cur THEN {} ELSE Span(region[d].start, region[d].pages)
    BY <1>4, <1>5, Zenon
  <2> QED
    BY <2>1, Zenon DEF Holds
<1>7. Holds[cur] # {}
  BY <1>1, <1>2, HeldPages
<1> QED
  BY <1>2, <1>6, <1>7, Zenon DEF Space!Next, Space!Release

(***************************************************************************)
(* RwPages on top of virtmem.c implements the address space its users see, *)
(* in which pages are acquired while nobody holds them and released by     *)
(* their holder, and meets no refusal of the kernel.                       *)
(***************************************************************************)
THEOREM AddressSpaceImplemented == Spec => ImplementsAddressSpace
<1>1. Init => Space!Init
  <2> SUFFICES ASSUME Init PROVE Holds = [c \in Claims |-> {}]
    BY Zenon DEF Space!Init
  <2>1. \A c \in Claims : Span(region[c].start, region[c].pages) = {}
    <3>1. \A c \in Claims : region[c].start = 0 /\ region[c].pages = 0
      BY DEF Init, NoRegion
    <3>2. Span(0, 0) = {}
      BY EmptySpan
    <3> QED
      BY <3>1, <3>2, Zenon
  <2> QED
    BY <2>1, Zenon DEF Holds
<1>2. ASSUME Inv, [Next]_vars
      PROVE  [Space!Next]_Holds
  <2>1. CASE Reserve
    BY <1>2, <2>1, ReserveAcquires
  <2>2. CASE Unreserve
    BY <1>2, <2>2, UnreserveReleases
  <2>3. CASE ~Reserve /\ ~Unreserve
    <3>1. region' = region
      BY <1>2, <2>3, Zenon DEF Next, Find, MapRange, Compare, Destroy, UnmapRange, list, vars
    <3> QED
      BY <3>1, Zenon DEF Holds
  <2> QED
    BY <2>1, <2>2, <2>3
<1> QED
  BY <1>1, <1>2, Invariance, NothingIsRefused, PTL
     DEF Spec, Space!Spec, ImplementsAddressSpace
====
