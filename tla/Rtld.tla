---- MODULE Rtld ----
(***************************************************************************)
(* The run-time loader's module object (lib/reloc): what it takes from a   *)
(* module's dynamic section, how it relocates the module, and how it binds *)
(* its symbols, at once or at the first call.                              *)
(*                                                                         *)
(* The console's loader calls it: it puts one module after the other into  *)
(* the list of modules, which is searched in that order, and resolves each *)
(* when it likes.  Module m is loaded at Base(m); words are numbers, a     *)
(* symbol is its name, and the hash table is abstracted: it finds every    *)
(* symbol of a module, in the table's order.                               *)
(***************************************************************************)
EXTENDS MainThread, Integers, Sequences

CONSTANTS
    LoadModules,       \* the modules, numbered from 1
    Images,         \* what may be in a module's file, see Image
    Manual          \* the names only the manually loaded modules know

VARIABLES
    image,          \* of each module, its file
    loadList,       \* g_pAutoLoadList
    stage,          \* of each module, how far it is
    words,          \* of each module, the words its entries are about
    called          \* of each module and slot: where the last call went, or Never

rtldVars == <<image, loadList, stage, words, called>>

(* A file: [rela, statesEntrySize, count: DT_RELCOUNT or DT_RELACOUNT,     *)
(* dyn: its dynamic relocations [type, sym, word, addend], plt: those of   *)
(* its slots [sym, addend], stub: where the slots point, syms: its symbols *)
(* [name, defined, bind, hidden, value]].  The slots' words come after     *)
(* those of the dynamic relocations; all slots of a file lead to one stub, *)
(* or ResolveSymbols would stop the program.                               *)
ImagesAssumption ==
    \A f \in Images :
        /\ f.rela \in BOOLEAN
        /\ f.stub \in Nat
        /\ f.dyn \in Seq([type : STRING, sym : Nat, word : Int, addend : Int])
        /\ f.plt \in Seq([sym : Nat, addend : Nat])
        /\ f.syms \in Seq([name : STRING, defined : BOOLEAN, bind : STRING,
                           hidden : BOOLEAN, value : Nat])
        /\ f.count \in 0 .. Len(f.dyn)
        /\ \A i \in DOMAIN f.dyn : f.dyn[i].sym \in DOMAIN f.syms
        /\ \A i \in DOMAIN f.plt : f.plt[i].sym \in DOMAIN f.syms
        /\ \A i \in DOMAIN f.syms : f.syms[i].defined => f.syms[i].name \notin Manual
ASSUME ImagesAssumption

ModulesAssumption == LoadModules \subseteq Nat \ {0}
ASSUME ModulesAssumption

Base(m) == 1000 * m
ManualAddress == 9000
Never == -1

Entries(m) == DOMAIN image[m].dyn
Slots(m) == DOMAIN image[m].plt
Word(m, slot) == Len(image[m].dyn) + slot
StubOf(m) == Base(m) + image[m].stub

InFile(f) == [i \in 1 .. Len(f.dyn) + Len(f.plt) |->
                IF i <= Len(f.dyn) THEN f.dyn[i].word ELSE f.stub]

RtldInit ==
    /\ image \in [LoadModules -> Images]
    /\ loadList = <<>>
    /\ stage = [m \in LoadModules |-> "file"]
    /\ words = [m \in LoadModules |-> InFile(image[m])]
    /\ called = [m \in LoadModules |-> [s \in DOMAIN image[m].plt |-> Never]]

(* No module is given to the loader.                                       *)
RtldNone ==
    /\ image = <<>>
    /\ loadList = <<>>
    /\ stage = <<>>
    /\ words = <<>>
    /\ called = <<>>

----
(* Symbols                                                                 *)

First(S) == CHOOSE i \in S : \A j \in S : i <= j

(* An undefined or a common symbol is not found.                           *)
GetSymbolByName(m, name) ==
    LET named == {i \in DOMAIN image[m].syms :
                    image[m].syms[i].name = name /\ image[m].syms[i].defined}
    IN  IF named = {} THEN 0 ELSE First(named)

SymbolAddress(m, i) == Base(m) + image[m].syms[i].value

lookup_global_auto(name) ==
    LET found(k) == GetSymbolByName(loadList[k], name)
        global == {k \in DOMAIN loadList : found(k) # 0 /\ image[loadList[k]].syms[found(k)].bind # "local"}
    IN  IF global = {} THEN 0
        ELSE SymbolAddress(loadList[First(global)], found(First(global)))

Unresolved == -2

(* A symbol whose visibility is not the default is looked for in its own   *)
(* module only; a weak one resolves to nothing there, but not elsewhere.   *)
TryResolveSymbol(m, sym) ==
    LET s == image[m].syms[sym]
        own == GetSymbolByName(m, s.name)
        address == lookup_global_auto(s.name)
    IN  CASE s.hidden /\ own # 0                 -> SymbolAddress(m, own)
          [] s.hidden /\ own = 0                 -> IF s.bind = "weak" THEN 0 ELSE Unresolved
          [] ~s.hidden /\ address # 0            -> address
          [] ~s.hidden /\ address = 0            ->
                IF s.name \in Manual THEN ManualAddress ELSE Unresolved

(* A relocation without an addend of its own adds to the word.             *)
Relocated(m, i, value) ==
    IF image[m].rela THEN value + image[m].dyn[i].addend ELSE words[m][i] + value

----
(* What the console's loader does with a module                            *)

Stage(m, from, to) == stage[m] = from /\ stage' = [stage EXCEPT ![m] = to]

(* The check of a RELA entry's size is the wrong way round.                *)
Initialize(m) ==
    /\ Stage(m, "file", "initialized")
    /\ IF image[m].rela /\ image[m].statesEntrySize THEN Abort ELSE UNCHANGED processVars
    /\ UNCHANGED <<image, loadList, words, called>>

(* Only the entries the file counts, and of those the relative ones.       *)
Relocate(m) ==
    /\ Stage(m, "initialized", "relocated")
    /\ words' = [words EXCEPT ![m] = [i \in DOMAIN @ |->
            IF i <= image[m].count /\ image[m].dyn[i].type = "relative"
            THEN Relocated(m, i, Base(m)) ELSE @[i]]]
    /\ loadList' = Append(loadList, m)
    /\ UNCHANGED <<image, called, processVars>>

(* The program's own start, where it is not loaded as a module, relocates  *)
(* it before anything else; without a count, by the size of the table.     *)
exl_dynamic(m) ==
    /\ Stage(m, "file", "started")
    /\ LET count == IF image[m].count = 0 THEN Len(image[m].dyn) ELSE image[m].count
       IN  words' = [words EXCEPT ![m] = [i \in DOMAIN @ |->
                IF i <= count /\ image[m].dyn[i].type = "relative"
                THEN Relocated(m, i, Base(m)) ELSE @[i]]]
    /\ UNCHANGED <<image, loadList, called, processVars>>

ResolveSymbolAbsolute(m, i) ==
    LET target == TryResolveSymbol(m, image[m].dyn[i].sym)
    IN  IF image[m].dyn[i].type = "absolute" /\ target # Unresolved THEN Relocated(m, i, target)
        ELSE words[m][i]

(* Mutant: a slot is taken for the address of its symbol before it is one. *)
ResolveSymbolJumpSlotTwice(m, slot, lazy) ==
    LET word == words[m][Word(m, slot)]
        target == TryResolveSymbol(m, image[m].plt[slot].sym)
    IN  IF lazy \/ target = Unresolved THEN Base(m) + word
        ELSE word + target

(* A slot without an addend of its own adds the symbol to its stub.        *)
ResolveSymbolJumpSlot(m, slot, lazy) ==
    LET word == words[m][Word(m, slot)]
        target == TryResolveSymbol(m, image[m].plt[slot].sym)
    IN  IF lazy \/ target = Unresolved THEN Base(m) + word
        ELSE IF image[m].rela THEN target + image[m].plt[slot].addend
        ELSE word + target

ResolveSymbols(m, lazy) ==
    /\ Stage(m, "relocated", "resolved")
    /\ words' = [words EXCEPT ![m] = [i \in DOMAIN @ |->
            IF i \notin Entries(m) THEN ResolveSymbolJumpSlot(m, i - Len(image[m].dyn), lazy)
            ELSE IF i > image[m].count THEN ResolveSymbolAbsolute(m, i) ELSE @[i]]]
    /\ UNCHANGED <<image, loadList, called, processVars>>

----
(* A module calls through a slot                                           *)

rtld_lazy_bind_symbol(m, slot) ==
    LET target == TryResolveSymbol(m, image[m].plt[slot].sym)
    IN  IF target \in {0, Unresolved} THEN 0
        ELSE IF image[m].rela THEN target + image[m].plt[slot].addend ELSE target

(* The stub saves the arguments, binds the slot and goes on to what it is  *)
(* bound to; a jump to nowhere ends the process.                           *)
Call(m, slot) ==
    /\ stage[m] = "resolved"
    /\ LET word == words[m][Word(m, slot)]
           to == IF word = StubOf(m) THEN rtld_lazy_bind_symbol(m, slot) ELSE word
       IN  /\ words' = [words EXCEPT ![m][Word(m, slot)] = to]
           /\ called' = [called EXCEPT ![m][slot] = to]
           /\ IF to = 0 THEN Abort ELSE UNCHANGED processVars
    /\ UNCHANGED <<image, loadList, stage>>

RtldNext ==
    \E m \in LoadModules :
        \/ Initialize(m) \/ Relocate(m) \/ exl_dynamic(m)
        \/ \E lazy \in BOOLEAN : ResolveSymbols(m, lazy)
        \/ \E slot \in Slots(m) : Call(m, slot)

----
(* Properties                                                              *)

Exports(m, name) ==
    {SymbolAddress(m, i) : i \in {j \in DOMAIN image[m].syms :
        image[m].syms[j].name = name /\ image[m].syms[j].defined /\ image[m].syms[j].bind # "local"}}

(* The calls that were answered: a weak symbol that is found nowhere is    *)
(* nothing, and nothing with the addend added is not a symbol either.      *)
Callers ==
    {c \in (DOMAIN image) \X UNION {Slots(m) : m \in DOMAIN image} :
        /\ c[2] \in Slots(c[1])
        /\ image[c[1]].rela
        /\ called[c[1]][c[2]] > image[c[1]].plt[c[2]].addend}

Callee(c) == called[c[1]][c[2]] - image[c[1]].plt[c[2]].addend
Symbol(c) == image[c[1]].syms[image[c[1]].plt[c[2]].sym]

(* However a call is bound, with its module or when it is first made, it   *)
(* reaches a symbol of its name: its module's own, where the symbol is     *)
(* hidden, and one that other modules may use, the same for every caller,  *)
(* where it is not (TryResolveSymbol, __rtld_lazy_bind_symbol).  For       *)
(* modules with addends, as this processor's are.                          *)
CallsReachTheirSymbol ==
    \A c \in Callers :
        IF Symbol(c).hidden
        THEN \E i \in DOMAIN image[c[1]].syms :
                /\ image[c[1]].syms[i].name = Symbol(c).name
                /\ Callee(c) = SymbolAddress(c[1], i)
        ELSE /\ Callee(c) \in (UNION {Exports(m, Symbol(c).name) : m \in DOMAIN image}) \cup {ManualAddress}
             /\ \A d \in Callers :
                    ~Symbol(d).hidden /\ Symbol(d).name = Symbol(c).name => Callee(d) = Callee(c)

(* A relative word has the base added once: in a module that was loaded,   *)
(* of those its file counts, at the program's own start all, if the file   *)
(* does not count them.                                                    *)
WordsRelocatedOnce ==
    \A m \in DOMAIN image : \A i \in Entries(m) :
        LET counted == i <= image[m].count
            based == Base(m) + (IF image[m].rela THEN image[m].dyn[i].addend ELSE image[m].dyn[i].word)
        IN  /\ image[m].dyn[i].type = "relative" /\ stage[m] \in {"relocated", "resolved"} =>
                    words[m][i] = IF counted THEN based ELSE image[m].dyn[i].word
            /\ image[m].dyn[i].type = "relative" /\ stage[m] = "started" =>
                    words[m][i] = IF counted \/ image[m].count = 0 THEN based ELSE image[m].dyn[i].word

(* A module the loader resolved is bound as its file asks.                 *)
ModulesBound == CallsReachTheirSymbol /\ WordsRelocatedOnce
====
