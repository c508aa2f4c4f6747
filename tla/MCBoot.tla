---- MODULE MCBoot ----
(* Instances of Boot for TLC.                                              *)
EXTENDS Boot

Code == <<"text", "rodata", "data">>
Memory(ranges, self) == [ranges |-> Append(ranges, "other"), self |-> self]

(* This module before or behind the game's, broken ones between, a full    *)
(* table, one module, or not this one, and ranges that begin like one.     *)
MCPlainMap == Memory(<<"other">> \o Code \o Code, 5)
MCMaps == {
    MCPlainMap,
    Memory(Code \o <<"other">> \o Code, 1),
    Memory(Code \o <<"text", "other">> \o Code, 6),
    Memory(<<"text", "text", "rodata", "data">> \o Code, 5),
    Memory(Code \o <<"data">>, 1),
    Memory(Code \o <<"text", "rodata", "rodata", "data">>, 1),
    Memory(Code \o Code \o Code, 4),
    Memory(Code \o Code \o <<"other">> \o Code, 8),
    Memory(<<"other">> \o Code, 2),
    Memory(<<"other">> \o Code, 1)}

MCPlainKernel == [knows |-> Regions, unmap |-> "other"]
MCKernels == [knows : SUBSET Regions, unmap : {"state", "range", "other"}]

MCDemands == {[vtx |-> 1, idx |-> 1], [vtx |-> 2, idx |-> 1]}

(* The third has the width of the first and the height of the second.      *)
MCWindowSizes == {<<1280, 720>>, <<1920, 1080>>, <<1280, 1080>>, <<1600, 900>>}

----
(* Two names used by both modules; "f" is defined by one or by both, local *)
(* or global, hidden or not.                                               *)
Sym(name, defined, bind, hidden, value) ==
    [name |-> name, defined |-> defined, bind |-> bind, hidden |-> hidden, value |-> value]

Dyn(type, sym, word, addend) == [type |-> type, sym |-> sym, word |-> word, addend |-> addend]
Slot(sym, addend) == [sym |-> sym, addend |-> addend]

DynRelocations(f) == <<Dyn("relative", 1, 5, 7), Dyn("absolute", f, 3, 1)>>

File(rela, states, count, syms, addend) ==
    [rela |-> rela, statesEntrySize |-> states, count |-> count, dyn |-> DynRelocations(1),
     plt |-> <<Slot(1, 0), Slot(2, addend)>>, stub |-> 50, syms |-> syms]

MCImages ==
    LET fs == {Sym("f", FALSE, "global", FALSE, 0), Sym("f", TRUE, "global", FALSE, 10),
               Sym("f", TRUE, "local", FALSE, 10), Sym("f", TRUE, "global", TRUE, 10)}
        strong == Sym("g", FALSE, "global", FALSE, 0)
        weak == Sym("g", FALSE, "weak", TRUE, 0)
    IN  {File(rela, FALSE, count, <<f, strong>>, 4) : rela \in BOOLEAN, f \in fs, count \in {0, 1}}
        \cup {File(rela, FALSE, 1, <<f, weak>>, 0) : rela \in BOOLEAN, f \in fs}
        \cup {File(TRUE, TRUE, 1, <<f, strong>>, 4) : f \in fs}

MCManual == {"g"}
====
