------------------------------ MODULE ResultSets ------------------------------
(***************************************************************************)
(* The result sets and the memory they share (cobalt-results): append and  *)
(* its spilling, the budget, the spill files, and the drop of a set.  A    *)
(* set has one appender, which lets go of its lock while a chunk is being  *)
(* written; the budget is one counter for the sets of every tab.           *)
(*                                                                         *)
(* Abstracted: the rows; a chunk is its size, at most MaxSize.             *)
(***************************************************************************)
EXTENDS Naturals, Sequences, FiniteSetsExt

CONSTANTS Sets, MaxSize, MaxChunks, MaxSpillFaults,
          Limits   \* what the settings may say

VARIABLES limit, used,   \* MemoryBudget
          ceiling,       \* the highest limit so far
          life,          \* per set: "new", "live", "gone"
          chunks,        \* per set: size and place of each chunk
          inMem,         \* bytes_in_mem
          spilling,      \* the chunk being written by the appender, 0 for none
          short,         \* sets whose last append ended in an error
          files, torn,   \* spill files, and those a failed write left
          spillFaults

setVars == <<limit, used, ceiling, life, chunks, inMem, spilling, short, files, torn, spillFaults>>

Sizes == 1..MaxSize
Room == Sets \X (1..MaxChunks)

TypeOK ==
    /\ limit \in Limits /\ ceiling \in Limits /\ used \in Nat
    /\ life \in [Sets -> {"new", "live", "gone"}] /\ short \subseteq Sets
    /\ chunks \in [Sets -> Seq([size : Sizes, at : {"mem", "disk"}])]
    /\ inMem \in [Sets -> Nat] /\ spilling \in [Sets -> 0..MaxChunks]
    /\ files \subseteq Room /\ torn \subseteq Room /\ spillFaults \in 0..MaxSpillFaults

Init ==
    /\ limit \in Limits /\ ceiling = limit /\ used = 0
    /\ life = [s \in Sets |-> "new"] /\ chunks = [s \in Sets |-> <<>>]
    /\ inMem = [s \in Sets |-> 0] /\ spilling = [s \in Sets |-> 0]
    /\ short = {} /\ files = {} /\ torn = {} /\ spillFaults = 0

-----------------------------------------------------------------------------
InMemory(cs) == {i \in DOMAIN cs : cs[i].at = "mem"}

\* the head of the loop of append: the oldest chunk in memory while the budget
\* is exceeded, but not the newest one unless it is alone
Next2Spill(cs, bytes, total) ==
    IF total > limit /\ bytes > 0 /\ InMemory(cs) # {}
       /\ (Min(InMemory(cs)) < Len(cs) \/ Len(cs) = 1)
    THEN Min(InMemory(cs)) ELSE 0

\* MemoryBudget::sub
Less(a, b) == IF a > b THEN a - b ELSE 0

New(s) ==
    /\ life[s] = "new" /\ life' = [life EXCEPT ![s] = "live"]
    /\ UNCHANGED <<limit, used, ceiling, chunks, inMem, spilling, short, files, torn, spillFaults>>

\* append, up to the first chunk it writes
Add(s, n) ==
    /\ life[s] = "live" /\ spilling[s] = 0 /\ Len(chunks[s]) < MaxChunks
    /\ chunks' = [chunks EXCEPT ![s] = Append(@, [size |-> n, at |-> "mem"])]
    /\ inMem' = [inMem EXCEPT ![s] = @ + n] /\ used' = used + n
    /\ spilling' = [spilling EXCEPT ![s] = Next2Spill(chunks'[s], inMem'[s], used')]
    /\ short' = short \ {s}
    /\ UNCHANGED <<limit, ceiling, life, files, torn, spillFaults>>

\* the chunk is on disk; the loop goes on
Spilled(s) ==
    /\ spilling[s] > 0
    /\ LET i == spilling[s]
           freed == chunks[s][i].size
       IN /\ files' = files \cup {<<s, i>>}
          /\ chunks' = [chunks EXCEPT ![s][i].at = "disk"]
          /\ inMem' = [inMem EXCEPT ![s] = Less(@, freed)] /\ used' = Less(used, freed)
    /\ spilling' = [spilling EXCEPT ![s] = Next2Spill(chunks'[s], inMem'[s], used')]
    /\ UNCHANGED <<limit, ceiling, life, short, torn, spillFaults>>

\* the disk is full: append gives up, its rows stay, and so may part of a file
SpillFails(s) ==
    /\ spilling[s] > 0 /\ spillFaults < MaxSpillFaults /\ spillFaults' = spillFaults + 1
    /\ torn' \in {torn, torn \cup {<<s, spilling[s]>>}}
    /\ spilling' = [spilling EXCEPT ![s] = 0] /\ short' = short \cup {s}
    /\ UNCHANGED <<limit, used, ceiling, life, chunks, inMem, files>>

\* the settings are applied
SetLimit(n) ==
    /\ n # limit /\ limit' = n /\ ceiling' = (IF n > ceiling THEN n ELSE ceiling)
    /\ UNCHANGED <<used, life, chunks, inMem, spilling, short, files, torn, spillFaults>>

\* a set dropped without giving its memory back
DropKeepsMemory(s) ==
    /\ life[s] = "live" /\ spilling[s] = 0
    /\ life' = [life EXCEPT ![s] = "gone"] /\ chunks' = [chunks EXCEPT ![s] = <<>>]
    /\ inMem' = [inMem EXCEPT ![s] = 0] /\ files' = {f \in files : f[1] # s} /\ short' = short \ {s}
    /\ UNCHANGED <<limit, used, ceiling, spilling, torn, spillFaults>>

\* Drop for ResultSet: the appender's reference is gone too
DropSet(s) ==
    /\ life[s] = "live" /\ spilling[s] = 0
    /\ life' = [life EXCEPT ![s] = "gone"] /\ chunks' = [chunks EXCEPT ![s] = <<>>]
    /\ used' = Less(used, inMem[s]) /\ inMem' = [inMem EXCEPT ![s] = 0]
    /\ files' = {f \in files : f[1] # s} /\ short' = short \ {s}
    /\ UNCHANGED <<limit, ceiling, spilling, torn, spillFaults>>

Next ==
    \/ \E s \in Sets : New(s) \/ Spilled(s) \/ SpillFails(s) \/ DropSet(s) \/ \E n \in Sizes : Add(s, n)
    \/ \E n \in Limits : SetLimit(n)

Spec == Init /\ [][Next]_setVars

-----------------------------------------------------------------------------
(* Properties                                                              *)

\* The bytes in memory, each as its set, its chunk and its place there
Held == {b \in Sets \X (1..MaxChunks) \X Sizes :
           /\ b[2] \in InMemory(chunks[b[1]])
           /\ b[3] <= chunks[b[1]][b[2]].size}
HeldBy(some) == {b \in Held : b[1] \in some}

\* The counters say what is in memory, whatever was spilled, failed or dropped
\* in between, and no spill file outlives its set but one cut short (lib.rs:192).
Accounted ==
    /\ \A s \in Sets : inMem[s] = Cardinality(HeldBy({s}))
    /\ used = Cardinality(Held)
    /\ files = {f \in Room : f[2] \in DOMAIN chunks[f[1]] /\ chunks[f[1]][f[2]].at = "disk"}

\* When nobody is writing, the sets of all tabs together exceed the highest limit
\* so far by at most one chunk each, unless the disk refused a set's chunks
\* (lib.rs:183).  A limit that was lowered is met by the next append only.
WithinLimit ==
    (\A s \in Sets : spilling[s] = 0)
        => used <= ceiling + Cardinality(HeldBy(short))
                           + Cardinality({s \in Sets \ short : chunks[s] # <<>>} \X Sizes)

BudgetHeld == Accounted /\ WithinLimit

-----------------------------------------------------------------------------
(* The invariant behind BudgetHeld                                         *)

\* What is being written is in memory until it is on disk.
Writes == \A s \in Sets : /\ Len(chunks[s]) <= MaxChunks
                          /\ spilling[s] > 0 => spilling[s] \in InMemory(chunks[s])

\* An append that ended well left the budget kept, or of its set the newest chunk
\* only: what the sets hold besides their newest chunks never exceeds the limit.
OldHeld == {b \in Held : b[1] \notin short /\ spilling[b[1]] = 0 /\ b[2] # Len(chunks[b[1]])}
OldKept == limit <= ceiling /\ Cardinality(OldHeld) <= ceiling

IInv == TypeOK /\ Accounted /\ Writes /\ OldKept
=============================================================================
