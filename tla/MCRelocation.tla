---- MODULE MCRelocation ----
(* Three instructions at the end of a page, so that the second one begins a  *)
(* new page, and trampolines in reach before and after them, in reach of     *)
(* wide offsets only, and out of reach; each at every alignment that matters.*)
EXTENDS Relocation

MCStarts == {60, 61, 120, 121, 201, 700, 701, 702, 703, 1126}

Targets == {103, 104, 105, 112}

MCInstructions ==
    [op : {"b", "bc", "adr"}, to : Targets]
    \cup [op : {"bl", "tbz"}, to : {105, 112}]
    \cup [op : {"bc", "tbz", "adr", "ldrx"}, to : {98}]
    \cup [op : {"adr1"}, to : {104, 112}]
    \cup [op : {"adrp"}, to : {96, 104}]
    \cup [op : {"ldrw", "ldrq"}, to : {104, 112}]
    \cup [op : {"ldrs", "ldrd"}, to : {112}]
    \cup [op : {"ldrx", "ldrsw"}, to : {113}]
    \cup [op : {"prfm", "plain"}, to : {0}]
====
