---- MODULE MCRwPages ----
(***************************************************************************)
(* Three objects over a module of three pages of four bytes, whose last    *)
(* page is a range of its own, in an address space of six pages, one of    *)
(* them inside the alias or heap region.  The requests are a word, a       *)
(* claim of both ranges, one that starts inside a page without crossing    *)
(* it, and, for the finding, one that crosses a page boundary although it  *)
(* is no longer than a page.                                               *)
(***************************************************************************)
EXTENDS RwPages

MCAslrPages == 10 .. 15
MCAvoidedPages == {12}
MCRangeStarts == {0, 2}

MCRequests == { [ro |-> 0, size |-> 1], [ro |-> 4, size |-> 8], [ro |-> 9, size |-> 3] }

MCRequestsAcross == { [ro |-> 4, size |-> 4], [ro |-> 2, size |-> 4] }
====
