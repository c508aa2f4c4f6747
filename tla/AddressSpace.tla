---- MODULE AddressSpace ----
(***************************************************************************)
(* What the virtual memory manager promises its callers: a claim is given  *)
(* a run of pages nobody else holds, keeps it, and gives it back once.     *)
(* RwPages implements this with a linked list of reservations.             *)
(***************************************************************************)
EXTENDS Integers

CONSTANTS
    Claims,      (* the callers                                            *)
    Pages        (* the pages that can be handed out                       *)

VARIABLE holds   (* holds[c]: the pages claim c holds                      *)

Init == holds = [c \in Claims |-> {}]

Acquire(c, pages) ==
    /\ holds[c] = {}
    /\ pages # {}
    /\ \A d \in Claims : holds[d] \cap pages = {}
    /\ holds' = [holds EXCEPT ![c] = pages]

Release(c) ==
    /\ holds[c] # {}
    /\ holds' = [holds EXCEPT ![c] = {}]

Next == \E c \in Claims : Release(c) \/ \E pages \in SUBSET Pages : Acquire(c, pages)

Spec == Init /\ [][Next]_holds
====
