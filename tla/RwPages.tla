---- MODULE RwPages ----
(***************************************************************************)
(* Writable views of read-only memory: util::RwPages                       *)
(* (src/lib/util/sys/rw_pages.cpp) on top of the virtual memory manager    *)
(* (src/lib/nx/kernel/virtmem.c).  A claim finds free address space,       *)
(* reserves it, maps the read-only pages there range by range, and its     *)
(* destructor takes everything back.  Hooks, patches and both JIT areas    *)
(* are such claims; several are alive at the same time, but one thread     *)
(* creates and destroys them.                                              *)
(*                                                                         *)
(* Addresses are byte numbers; page p holds PageSize of them.  The module  *)
(* is pages 0 .. RoPageCount-1 and the address space region that Find      *)
(* draws from is a set of page numbers of its own.                         *)
(***************************************************************************)
EXTENDS Integers, FiniteSets, SequencesExt

CONSTANTS
    Claims,       (* RwPages objects, finitely many; also their reservations *)
    NULL,
    PageSize,
    RoPageCount,
    RangeStarts,  (* read-only pages where svcQueryMemory begins a range   *)
    AslrPages,    (* g_AslrRegion                                          *)
    AvoidedPages, (* those of g_AliasRegion and g_HeapRegion               *)
    Requests      (* the (ro, size) pairs claimed                          *)

ASSUME SpaceAssumption ==
    /\ NULL \notin Claims /\ IsFiniteSet(Claims)
    /\ PageSize \in Nat \ {0} /\ RoPageCount \in Nat \ {0}
    /\ 0 \in RangeStarts /\ RangeStarts \subseteq 0 .. RoPageCount - 1
    /\ AslrPages \subseteq Nat /\ AvoidedPages \subseteq Nat
    /\ Requests \subseteq [ro : Nat, size : Nat \ {0}]
    /\ \A r \in Requests : r.ro + r.size <= RoPageCount * PageSize

VARIABLES
    pc,          (* what the thread does next, see Steps                   *)
    cur,         (* the claim it works on                                  *)
    pos,         (* offset in pages of ForEachMemRange                     *)
    claim,       (* m_Claim of every object                                *)
    head,        (* g_Reservations                                         *)
    next, prev,  (* the links of the reservations                          *)
    region,      (* their regions: first page and page count               *)
    mapping      (* the read-only page behind each page of the region      *)

list == <<head, next, prev, region>>
vars == <<pc, cur, pos, claim, list, mapping>>

Steps == {"idle", "reserve", "map", "compare", "unmap", "unreserve", "aborted"}

Unmapped == -1

NoClaim  == [live |-> FALSE, ro |-> 0, rw |-> 0, size |-> 0]
NoRegion == [start |-> 0, pages |-> 0]

Init ==
    /\ pc = "idle" /\ cur = NULL /\ pos = 0
    /\ claim = [c \in Claims |-> NoClaim]
    /\ head = NULL
    /\ next = [c \in Claims |-> NULL]
    /\ prev = [c \in Claims |-> NULL]
    /\ region = [c \in Claims |-> NoRegion]
    /\ mapping = [p \in AslrPages |-> Unmapped]

----
(* Claim's helpers                                                         *)

PageOf(a) == a \div PageSize
AlignedSize(size) == (size + PageSize - 1) \div PageSize

RoPage(c) == PageOf(claim[c].ro)
PageCount(c) == AlignedSize(claim[c].size)

(* The pages of [first, first + count).                                    *)
Span(first, count) == first .. first + count - 1

----
(* virtmem.c                                                               *)

(* The reservations in the order _memregionIsReserved walks them: at most  *)
(* one step per object, so that a broken list still ends.                  *)
Visited[n \in 0 .. Cardinality(Claims)] ==
    IF n = 0 THEN <<>>
    ELSE LET seen == Visited[n - 1]
             here == IF seen = <<>> THEN head ELSE next[seen[Len(seen)]]
         IN  IF here = NULL \/ Len(seen) < n - 1 THEN seen
             ELSE Append(seen, here)

Walk == Visited[Cardinality(Claims)]

IsMapped(pages) == \E p \in pages : mapping[p] # Unmapped

IsReserved(pages) ==
    \E c \in Range(Walk) : Span(region[c].start, region[c].pages) \cap pages # {}

(* Where a random draw can fall: inside the region and clear of the alias  *)
(* and heap regions, which are drawn again without counting the attempt.   *)
Candidates(count) ==
    { p \in AslrPages : /\ Span(p, count) \subseteq AslrPages
                        /\ Span(p, count) \cap AvoidedPages = {} }

(* A mistake: only the first page is looked at.                            *)
FreeFirstPage(p, count) == ~IsMapped({p}) /\ ~IsReserved({p})

Free(p, count) == ~IsMapped(Span(p, count)) /\ ~IsReserved(Span(p, count))

(* virtmemAddReservation at the head of the list.                          *)
AddReservation(c, start, count) ==
    /\ region' = [region EXCEPT ![c] = [start |-> start, pages |-> count]]
    /\ next' = [next EXCEPT ![c] = head]
    /\ prev' = IF head = NULL THEN [prev EXCEPT ![c] = NULL]
               ELSE [prev EXCEPT ![c] = NULL, ![head] = c]
    /\ head' = c

(* A mistake: the removed node's successor keeps its prev.                 *)
RemoveReservationForward(c) ==
    /\ head' = IF prev[c] = NULL THEN next[c] ELSE head
    /\ next' = [d \in Claims |-> IF d = prev[c] THEN next[c]
                                 ELSE IF d = c THEN NULL ELSE next[d]]
    /\ prev' = [prev EXCEPT ![c] = NULL]
    /\ region' = [region EXCEPT ![c] = NoRegion]

(* virtmemRemoveReservation, then free().                                  *)
RemoveReservation(c) ==
    /\ head' = IF prev[c] = NULL THEN next[c] ELSE head
    /\ next' = [d \in Claims |-> IF d = prev[c] THEN next[c]
                                 ELSE IF d = c THEN NULL ELSE next[d]]
    /\ prev' = [d \in Claims |-> IF d = next[c] THEN prev[c]
                                 ELSE IF d = c THEN NULL ELSE prev[d]]
    /\ region' = [region EXCEPT ![c] = NoRegion]

----
(* RwPages::RwPages                                                        *)

(* virtmemFindAslr.  All RANDOM_MAX_ATTEMPTS draws may hit taken places,   *)
(* even if a free one is left; then the assertion stops the program.       *)
Find(c, r) ==
    LET count == AlignedSize(r.size)
    IN  /\ pc = "idle"
        /\ ~claim[c].live /\ c \notin Range(Walk)
        /\ Candidates(count) # {}
        /\ cur' = c
        /\ \/ \E p \in Candidates(count) :
                /\ Free(p, count)
                /\ claim' = [claim EXCEPT ![c] =
                      [live |-> FALSE, ro |-> r.ro, rw |-> p * PageSize, size |-> r.size]]
                /\ pc' = "reserve"
           \/ /\ \E p \in Candidates(count) : ~Free(p, count)
              /\ pc' = "aborted"
              /\ UNCHANGED claim
        /\ UNCHANGED <<pos, list, mapping>>

(* A failed malloc is asserted against.                                    *)
Reserve ==
    /\ pc = "reserve"
    /\ \/ /\ AddReservation(cur, PageOf(claim[cur].rw), PageCount(cur))
          /\ pc' = "map"
       \/ pc' = "aborted" /\ UNCHANGED list
    /\ pos' = 0
    /\ UNCHANGED <<cur, claim, mapping>>

(* The read-only page that page p of c's view stands for.                  *)
PageFor(c, p) == RoPage(c) + (p - PageOf(claim[c].rw))

(* The pages, counted from the claim's first, of the range at pos.         *)
RangePages(c) ==
    LET from == RoPage(c) + pos
        ends == { q \in RangeStarts \cup {RoPageCount} : q > from }
        end  == CHOOSE q \in ends : \A s \in ends : q <= s
    IN  pos .. (IF end - RoPage(c) < PageCount(c) THEN end - RoPage(c) ELSE PageCount(c)) - 1

(* One call of svcMapProcessMemory; the kernel refuses a target in use.    *)
MapRange ==
    LET rwPage  == PageOf(claim[cur].rw)
        targets == { rwPage + i : i \in RangePages(cur) }
    IN  /\ pc = "map"
        /\ IF IsMapped(targets)
           THEN pc' = "aborted" /\ UNCHANGED <<pos, claim, mapping>>
           ELSE /\ mapping' = [p \in AslrPages |->
                                  IF p \in targets THEN PageFor(cur, p) ELSE mapping[p]]
                /\ pos' = pos + Cardinality(targets)
                /\ IF pos' < PageCount(cur)
                   THEN UNCHANGED <<pc, claim>>
                   ELSE /\ pc' = "compare"
                        /\ claim' = [claim EXCEPT ![cur].rw =
                              rwPage * PageSize + (claim[cur].ro % PageSize)]
        /\ UNCHANGED <<cur, list>>

(* The read-only byte behind byte k of the writable view.                  *)
PageBehind(c, k) == LET p == PageOf(claim[c].rw + k)
                    IN  IF p \in AslrPages THEN mapping[p] ELSE Unmapped

Mirrored(c, k) == PageBehind(c, k) = PageOf(claim[c].ro + k)

(* The memcmp.  A byte with nothing behind it faults; one with another     *)
(* page behind it may happen to be equal.                                  *)
Compare ==
    LET bytes == 0 .. claim[cur].size - 1
    IN  /\ pc = "compare"
        /\ \/ /\ \A k \in bytes : PageBehind(cur, k) # Unmapped
              /\ claim' = [claim EXCEPT ![cur].live = TRUE]
              /\ pc' = "idle"
           \/ /\ \E k \in bytes : ~Mirrored(cur, k)
              /\ pc' = "aborted"
              /\ UNCHANGED claim
        /\ pos' = 0
        /\ UNCHANGED <<cur, list, mapping>>

----
(* RwPages::~RwPages                                                       *)

Destroy(c) ==
    /\ pc = "idle"
    /\ claim[c].live
    /\ claim' = [claim EXCEPT ![c].live = FALSE]
    /\ cur' = c /\ pos' = 0 /\ pc' = "unmap"
    /\ UNCHANGED <<list, mapping>>

(* A mistake: only the first range is taken back.                          *)
UnmapFirstRange ==
    LET targets == { PageOf(claim[cur].rw) + i : i \in RangePages(cur) }
    IN  /\ pc = "unmap"
        /\ mapping' = [p \in AslrPages |->
                          IF p \in targets THEN Unmapped ELSE mapping[p]]
        /\ pc' = "unreserve"
        /\ UNCHANGED <<pos, cur, claim, list>>

(* svcUnmapProcessMemory refuses pages that are not mapped there from ro.  *)
UnmapRange ==
    LET targets == { PageOf(claim[cur].rw) + i : i \in RangePages(cur) }
    IN  /\ pc = "unmap"
        /\ IF \E p \in targets : mapping[p] # PageFor(cur, p)
           THEN pc' = "aborted" /\ UNCHANGED <<pos, mapping>>
           ELSE /\ mapping' = [p \in AslrPages |->
                                  IF p \in targets THEN Unmapped ELSE mapping[p]]
                /\ pos' = pos + Cardinality(targets)
                /\ pc' = IF pos' < PageCount(cur) THEN "unmap" ELSE "unreserve"
        /\ UNCHANGED <<cur, claim, list>>

Unreserve ==
    /\ pc = "unreserve"
    /\ RemoveReservation(cur)
    /\ claim' = [claim EXCEPT ![cur] = NoClaim]
    /\ cur' = NULL /\ pos' = 0 /\ pc' = "idle"
    /\ UNCHANGED mapping

Next ==
    \/ \E c \in Claims : \E r \in Requests : Find(c, r)
    \/ Reserve \/ MapRange \/ Compare
    \/ \E c \in Claims : Destroy(c)
    \/ UnmapRange \/ Unreserve

Spec == Init /\ [][Next]_vars

----
(* Properties                                                              *)

(* The types.                                                              *)
TypeOK ==
    /\ pc \in Steps
    /\ cur \in Claims \cup {NULL}
    /\ pos \in Nat
    /\ claim \in [Claims -> [live : BOOLEAN, ro : Nat, rw : Nat, size : Nat]]
    /\ head \in Claims \cup {NULL}
    /\ next \in [Claims -> Claims \cup {NULL}]
    /\ prev \in [Claims -> Claims \cup {NULL}]
    /\ region \in [Claims -> [start : Nat, pages : Nat]]
    /\ mapping \in [AslrPages -> 0 .. RoPageCount - 1 \cup {Unmapped}]

Reserved == { c \in Claims : region[c].pages > 0 }

(***************************************************************************)
(* The list of reservations holds exactly the reserved regions, each once, *)
(* and its two directions agree, in whatever order claims come and go.     *)
(***************************************************************************)
ListIsReservations ==
    /\ Range(Walk) = Reserved
    /\ Len(Walk) = Cardinality(Reserved)
    /\ head # NULL => prev[head] = NULL
    /\ \A c \in Reserved : next[c] # NULL => prev[next[c]] = c

(***************************************************************************)
(* The kernel never refuses to map or unmap: the pages found free are      *)
(* still free when they are mapped, whatever other claims are alive, and a *)
(* destructor finds its pages as its constructor left them.                *)
(***************************************************************************)
KernelNeverRefuses ==
    [][(pc \in {"map", "unmap"}) => pc' # "aborted"]_vars

(***************************************************************************)
(* Every page of a live claim shows the page of the module it stands for,  *)
(* also after other claims have been created and destroyed; and no page    *)
(* is left mapped without a claim.                                         *)
(***************************************************************************)
LivePages(c) == Span(PageOf(claim[c].rw), PageCount(c))

ViewsAreExact ==
    pc = "idle" =>
        /\ \A c \in Claims : claim[c].live =>
              \A p \in LivePages(c) :
                  mapping[p] = RoPage(c) + (p - PageOf(claim[c].rw))
        /\ \A p \in AslrPages : mapping[p] # Unmapped =>
              \E c \in Claims : claim[c].live /\ p \in LivePages(c)

(***************************************************************************)
(* The address space as its users see it (see AddressSpace), in which no   *)
(* user meets a refusal of the kernel.                                     *)
(***************************************************************************)
Holds == [c \in Claims |-> Span(region[c].start, region[c].pages)]

Space == INSTANCE AddressSpace WITH Pages <- AslrPages, holds <- Holds

ImplementsAddressSpace == Space!Spec /\ KernelNeverRefuses

(***************************************************************************)
(* rw_pages.cpp:71-72 asserts that the data at the different mapping is    *)
(* the same: every byte of the claim is seen through its view.             *)
(***************************************************************************)
WholeClaimMirrored ==
    pc = "compare" => \A k \in 0 .. claim[cur].size - 1 : Mirrored(cur, k)
====
