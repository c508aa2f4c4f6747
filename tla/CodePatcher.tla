---- MODULE CodePatcher ----
(***************************************************************************)
(* The patcher of code (src/lib/patch): instructions are written through   *)
(* the writable view of the program, and made visible to the instruction   *)
(* fetch by a flush of what was written since the last one, when the       *)
(* patcher moves and when it is destroyed.                                 *)
(*                                                                         *)
(* Addresses are bytes from the base of the view, which is where both      *)
(* views begin.  mem keeps, for each word patched, what the processor      *)
(* makes of it and what the caller meant by it.                            *)
(***************************************************************************)
EXTENDS A64, FiniteSets

CONSTANTS Words,     \* the addresses that may be patched
          CallsAt,   \* bound: the constructor calls tried at each of them
          TargetsAt  \* bound: the targets of branches tried at each of them

ASSUME WordsAssumption == Words \subseteq Nat
ASSUME CallsAssumption == \A a \in Words : CallsAt[a] \subseteq Calls
ASSUME TargetsAssumption == \A a \in Words : TargetsAt[a] \subseteq Int

VARIABLES
    mem,         \* the words patched
    stale,       \* those the instruction fetch may not see yet
    open,        \* a patcher exists
    m_Start,     \* where what is not flushed begins
    m_Current    \* where the next word goes

patchVars == <<mem, stale, open, m_Start, m_Current>>

Original == [means |-> <<"original">>, intent |-> <<"original">>, fits |-> TRUE]

PatchInit ==
    /\ mem = [a \in Words |-> Original]
    /\ stale = {}
    /\ open = FALSE
    /\ m_Start = 0
    /\ m_Current = 0

----
(* Whether the constructor can say what the caller means.  The arguments   *)
(* are unsigned, 32 bits for an address, and are cut to their fields; the  *)
(* stack pointer goes into fields that mean the zero register; and only    *)
(* the first register decides between 32 and 64 bits.                      *)

NotSp(r) == r # SP
Fits12(imm) == imm < 4096 \/ (imm % 4096 = 0 /\ imm < 4096 * 4096)

FitsOffset(rt, rn, rm, extend, amount) ==
    /\ NotSp(rt) /\ NotSp(rm) /\ Is64(rn) = 1
    /\ extend \in DOMAIN Extends
    /\ Is64(rm) = (IF extend \in {"LSL", "SXTX"} THEN 1 ELSE 0)
    /\ amount \in {0, 2 + Is64(rt)}

Fits(c) ==
    CASE c[1] \in {"AddImmediate", "SubImmediate"} ->
            Is64(c[2]) = Is64(c[3]) /\ Fits12(c[4])
      [] c[1] \in {"AddsImmediate", "SubsImmediate"} ->
            Is64(c[2]) = Is64(c[3]) /\ Fits12(c[4]) /\ NotSp(c[2])
      [] c[1] \in {"CmnImmediate", "CmpImmediate"} -> Fits12(c[3])
      [] c[1] \in {"Movn", "Movz", "Movk", "Ret", "BranchRegister"} ->
            NotSp(c[2]) /\ (c[1] \in {"Ret", "BranchRegister"} => Is64(c[2]) = 1)
      [] c[1] = "Adr" -> c[2] \in {X(i) : i \in 0 .. 30} /\ c[3] \in -2^20 .. 2^20 - 1
      [] c[1] = "Adrp" -> c[2] \in {X(i) : i \in 0 .. 30} /\ c[3] >= 0
      [] c[1] = "Nop" -> TRUE
      [] c[1] \in {"Branch", "BranchLink"} ->
            c[2] % 4 = 0 /\ -2^27 <= c[2] /\ c[2] < 2^27
      [] c[1] = "OrrShiftedRegister" ->
            /\ NotSp(c[2]) /\ NotSp(c[3]) /\ NotSp(c[4])
            /\ Is64(c[2]) = Is64(c[3]) /\ Is64(c[2]) = Is64(c[4])
            /\ c[6] < 32 + 32 * Is64(c[2])
      [] c[1] = "MovRegister" -> NotSp(c[2]) /\ NotSp(c[3]) /\ Is64(c[2]) = Is64(c[3])
      [] c[1] \in {"LdrRegisterOffset", "StrRegisterOffset"} ->
            FitsOffset(c[2], c[3], c[4], c[5], c[6])
      [] c[1] \in {"LdurUnscaledImmediate", "SturUnscaledImmediate"} ->
            NotSp(c[2]) /\ Is64(c[3]) = 1 /\ c[4] \in -256 .. 255
      [] c[1] \in {"LdrRegisterImmediate", "StrRegisterImmediate"} ->
            NotSp(c[2]) /\ Is64(c[3]) = 1 /\ c[4] < 4096

----
(* The members.                                                            *)

DoneNothing == m_Start = m_Current

(* A plausible error: only the last word.                                  *)
FlushOneWord(marks) == marks \ {m_Current - 4}

Flushed(marks) == marks \ {a \in Words : m_Start <= a /\ a < m_Current}

Flush(marks) == IF DoneNothing THEN marks ELSE Flushed(marks)

(* A plausible error: counted from the last move.                          *)
RelativeToStart(address) == address - m_Start

RelativeAddressFromBase(address) == address - m_Current

Write(call, intent) ==
    /\ open
    /\ mem' = [mem EXCEPT ![m_Current] = [means |-> Means(Encode(call)),
                                          intent |-> intent, fits |-> Fits(call)]]
    /\ stale' = stale \cup {m_Current}
    /\ m_Current' = m_Current + 4
    /\ UNCHANGED <<open, m_Start>>

Open(start) ==
    /\ ~open
    /\ open' = TRUE
    /\ m_Start' = start
    /\ m_Current' = start
    /\ UNCHANGED <<mem, stale>>

WriteInst(call) == Write(call, Intent(call))

BranchInst(address) ==
    Write(<<"Branch", RelativeAddressFromBase(address)>>, <<"b", address - m_Current>>)

BranchLinkInst(address) ==
    Write(<<"BranchLink", RelativeAddressFromBase(address)>>, <<"bl", address - m_Current>>)

Seek(address) ==
    /\ open
    /\ RelativeAddressFromBase(address) # 0
    /\ stale' = Flush(stale)
    /\ m_Start' = address
    /\ m_Current' = address
    /\ UNCHANGED <<mem, open>>

(* The destructor.                                                         *)
Close ==
    /\ open
    /\ stale' = Flush(stale)
    /\ open' = FALSE
    /\ m_Start' = 0
    /\ m_Current' = 0
    /\ UNCHANGED mem

(* Bound: each word is patched once.                                       *)
Unpatched == m_Current \in Words /\ mem[m_Current] = Original

PatchNext ==
    \/ \E a \in Words : Open(a)
    \/ \E a \in Words : Seek(a)
    \/ Unpatched /\ \E c \in CallsAt[m_Current] : WriteInst(c)
    \/ Unpatched /\ \E t \in TargetsAt[m_Current] : BranchInst(t) \/ BranchLinkInst(t)
    \/ Close

----
PatchTypeOK ==
    /\ stale \subseteq Words
    /\ open \in BOOLEAN
    /\ m_Start \in Int
    /\ m_Current \in Int

(* A word means to the processor what its caller meant exactly when the    *)
(* constructor can say it: every operand at the edge of its field and just *)
(* beyond, every branch by the distance from where it stands.              *)
EncodedAsMeant == \A a \in Words : (mem[a].means = mem[a].intent) <=> mem[a].fits

(* What a patcher wrote is flushed when it is gone, wherever it moved; and *)
(* while it exists only what it wrote since its last move is not.          *)
NothingStale ==
    /\ stale \subseteq {a \in Words : m_Start <= a /\ a < m_Current}
    /\ ~open => stale = {}
====
