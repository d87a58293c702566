--------------------------- MODULE TabSessionProofs ---------------------------
(* Theorems about the SQL session of a tab, for any number of user actions, *)
(* faults and actors.                                                       *)
EXTENDS TabSession, FiniteSetTheorems, TLAPS

-----------------------------------------------------------------------------
(* Queues                                                                  *)

LEMMA TailOf ==
  ASSUME NEW S, NEW s \in Seq(S), s # <<>>, NEW w, w = Tail(s)
  PROVE  /\ Head(s) = s[1] /\ s[1] \in S /\ Len(s) \in Nat \ {0}
         /\ w \in Seq(S) /\ Len(w) = Len(s) - 1 /\ Len(w) \in Nat
         /\ \A i \in 1..Len(w) : w[i] = s[i + 1] /\ i + 1 \in 1..Len(s)
         /\ \A k \in 1..Len(s) : k = 1 \/ \E i \in 1..Len(w) : k = i + 1 /\ w[i] = s[k]
<1>1. /\ Head(s) = s[1] /\ s[1] \in S /\ Len(s) \in Nat \ {0}
      /\ w \in Seq(S) /\ Len(w) = Len(s) - 1
      /\ \A i \in 1..Len(w) : w[i] = s[i + 1] /\ i + 1 \in 1..Len(s)
  OBVIOUS
<1>2. \A k \in 1..Len(s) : k = 1 \/ (k - 1 \in 1..Len(w) /\ k = (k - 1) + 1 /\ w[k - 1] = s[k])
  BY <1>1
<1> QED BY <1>1, <1>2

LEMMA AppendOf ==
  ASSUME NEW S, NEW s \in Seq(S), NEW e \in S, NEW w, w = Append(s, e)
  PROVE  /\ w \in Seq(S) /\ Len(w) = Len(s) + 1 /\ Len(s) \in Nat /\ w # <<>>
         /\ w[Len(s) + 1] = e
         /\ \A i \in 1..Len(s) : w[i] = s[i] /\ i \in 1..Len(w)
         /\ \A i \in 1..Len(w) : i = Len(s) + 1 \/ (i \in 1..Len(s) /\ w[i] = s[i])
OBVIOUS

LEMMA CountAppend ==
  \A S : \A s \in Seq(S), e \in S : \A kind :
      /\ CountOf(kind, s) \in Nat
      /\ e.kind = kind => CountOf(kind, Append(s, e)) = CountOf(kind, s) + 1
      /\ e.kind # kind => CountOf(kind, Append(s, e)) = CountOf(kind, s)
<1> SUFFICES ASSUME NEW S, NEW s \in Seq(S), NEW e \in S, NEW kind
             PROVE  /\ CountOf(kind, s) \in Nat
                    /\ e.kind = kind => CountOf(kind, Append(s, e)) = CountOf(kind, s) + 1
                    /\ e.kind # kind => CountOf(kind, Append(s, e)) = CountOf(kind, s)
  OBVIOUS
<1>0. PICK w : w = Append(s, e)
  OBVIOUS
<1> DEFINE A == {i \in 1..Len(s) : s[i].kind = kind}
           B == {i \in 1..Len(w) : w[i].kind = kind}
           n == Len(s) + 1
<1>1. IsFiniteSet(A) /\ Cardinality(A) \in Nat
  <2>1. IsFiniteSet(1..Len(s))
    BY FS_Interval
  <2>2. A \subseteq 1..Len(s)
    OBVIOUS
  <2> QED BY <2>1, <2>2, FS_Subset, FS_CardinalityType
<1>2. e.kind # kind => B = A
  BY <1>0, AppendOf
<1>3. e.kind = kind => B = A \cup {n} /\ n \notin A
  BY <1>0, AppendOf
<1>4. e.kind = kind => Cardinality(B) = Cardinality(A) + 1
  BY <1>1, <1>3, FS_AddElement
<1>5. CountOf(kind, s) = Cardinality(A) /\ CountOf(kind, w) = Cardinality(B)
  BY Zenon DEF CountOf
<1> HIDE DEF A, B
<1> QED BY <1>0, <1>1, <1>2, <1>4, <1>5

LEMMA CountNat == \A S : \A s \in Seq(S) : \A kind : CountOf(kind, s) \in Nat
<1> SUFFICES ASSUME NEW S, NEW s \in Seq(S), NEW kind PROVE CountOf(kind, s) \in Nat
  OBVIOUS
<1> DEFINE A == {i \in 1..Len(s) : s[i].kind = kind}
<1>1. A \subseteq 1..Len(s) /\ IsFiniteSet(1..Len(s))
  BY FS_Interval
<1>2. Cardinality(A) \in Nat
  BY <1>1, FS_Subset, FS_CardinalityType
<1> QED BY <1>2, Zenon DEF CountOf

LEMMA CountTail ==
  ASSUME NEW S, NEW s \in Seq(S), s # <<>>, NEW w, w = Tail(s), NEW kind
  PROVE  /\ CountOf(kind, w) \in Nat
         /\ CountOf(kind, s) = CountOf(kind, w) + (IF s[1].kind = kind THEN 1 ELSE 0)
<1> DEFINE A == {i \in 1..Len(w) : w[i].kind = kind}
           B == {i \in 2..Len(s) : s[i].kind = kind}
           C == {i \in 1..Len(s) : s[i].kind = kind}
           f == [i \in A |-> i + 1]
<1>1. IsFiniteSet(A) /\ Cardinality(A) \in Nat
  <2>1. IsFiniteSet(1..Len(w))
    BY TailOf, FS_Interval
  <2>2. A \subseteq 1..Len(w)
    OBVIOUS
  <2> QED BY <2>1, <2>2, FS_Subset, FS_CardinalityType
<1>2. f \in Bijection(A, B)
  <2>1. f \in [A -> B]
    BY TailOf
  <2>2. \A i, j \in A : f[i] = f[j] => i = j
    OBVIOUS
  <2>3. \A k \in B : k - 1 \in A /\ f[k - 1] = k
    BY TailOf
  <2> QED BY <2>1, <2>2, <2>3 DEF Bijection, Injection, Surjection, IsInjective
<1>3. IsFiniteSet(B) /\ Cardinality(B) = Cardinality(A)
  <2>1. ExistsBijection(A, B)
    BY <1>2 DEF ExistsBijection
  <2> QED BY <1>1, <2>1, FS_Bijection, ZenonT(60)
<1>4. s[1].kind # kind => C = B
  BY TailOf
<1>5. s[1].kind = kind => C = B \cup {1} /\ 1 \notin B
  BY TailOf
<1>6. s[1].kind = kind => Cardinality(C) = Cardinality(B) + 1
  BY <1>3, <1>5, FS_AddElement
<1>7. CountOf(kind, w) = Cardinality(A) /\ CountOf(kind, s) = Cardinality(C)
  BY Zenon DEF CountOf
<1> HIDE DEF A, B, C
<1> QED BY <1>1, <1>3, <1>4, <1>6, <1>7

LEMMA CountNone == \A kind : CountOf(kind, <<>>) = 0
<1> SUFFICES ASSUME NEW kind PROVE CountOf(kind, <<>>) = 0
  OBVIOUS
<1>1. {i \in 1..Len(<<>>) : <<>>[i].kind = kind} = {}
  OBVIOUS
<1> QED BY <1>1, FS_EmptySet DEF CountOf

\* w has only what s has, in the order of s.
Within(w, s) ==
  /\ \A i \in 1..Len(w) : \E k \in 1..Len(s) : w[i] = s[k]
  /\ \A i, j \in 1..Len(w) : i # j => \E k, l \in 1..Len(s) : k # l /\ w[i] = s[k] /\ w[j] = s[l]

LEMMA WithinFacts ==
  ASSUME NEW S, NEW s \in Seq(S)
  PROVE  /\ Within(s, s) /\ Within(<<>>, s)
         /\ \A w : s # <<>> /\ w = Tail(s) => Within(w, s)
<1>1. Within(s, s) /\ Within(<<>>, s)
  BY DEF Within
<1>2. ASSUME NEW w, s # <<>>, w = Tail(s) PROVE Within(w, s)
  <2>1. \A i \in 1..Len(w) : w[i] = s[i + 1] /\ i + 1 \in 1..Len(s)
    BY <1>2, TailOf
  <2>2. \A i, j \in 1..Len(w) : i # j => i + 1 # j + 1
    OBVIOUS
  <2> QED BY <2>1, <2>2 DEF Within
<1> QED BY <1>1, <1>2

LEMMA TailOrder ==
  ASSUME NEW S, NEW s \in Seq(S), s # <<>>, NEW w, w = Tail(s), NEW kinds, NEW others
  PROVE  /\ Free(kinds, s) => Free(kinds, w) /\ s[1].kind \notin kinds
         /\ Free(kinds, w) /\ s[1].kind \notin kinds => Free(kinds, s)
         /\ Followed(kinds, others, s) => Followed(kinds, others, w)
         /\ Followed(kinds, others, s) /\ s[1].kind \in kinds => ~Free(others, w)
         /\ OpenedFirst(s) => OpenedFirst(w)
         /\ OpenedFirst(s) /\ s[1].kind = "Connected" => Free({"Connected"}, w)
         /\ OpenedFirst(s) /\ s[1].kind = "Reconnected" => Free({"Connected"}, w)
<1>1. /\ Len(s) \in Nat \ {0} /\ Len(w) = Len(s) - 1 /\ Len(w) \in Nat
      /\ \A i \in 1..Len(w) : w[i] = s[i + 1] /\ i + 1 \in 1..Len(s)
  BY TailOf
<1>2. \A k \in 1..Len(s) : k = 1 \/ (k - 1 \in 1..Len(w) /\ w[k - 1] = s[k])
  BY <1>1
<1>3. Free(kinds, s) => Free(kinds, w) /\ s[1].kind \notin kinds
  BY <1>1 DEF Free
<1>4. Free(kinds, w) /\ s[1].kind \notin kinds => Free(kinds, s)
  BY <1>1, <1>2 DEF Free
<1>5. ASSUME Followed(kinds, others, s) PROVE Followed(kinds, others, w)
  <2> SUFFICES ASSUME NEW i \in 1..Len(w), w[i].kind \in kinds
               PROVE  \E j \in i + 1..Len(w) : w[j].kind \in others
    BY DEF Followed
  <2>1. PICK k \in i + 2..Len(s) : s[k].kind \in others
    BY <1>1, <1>5 DEF Followed
  <2>2. k - 1 \in i + 1..Len(w) /\ w[k - 1] = s[k]
    BY <1>1, <1>2
  <2> QED BY <2>1, <2>2
<1>6. ASSUME Followed(kinds, others, s), s[1].kind \in kinds PROVE ~Free(others, w)
  <2>1. PICK k \in 2..Len(s) : s[k].kind \in others
    BY <1>1, <1>6 DEF Followed
  <2>2. k - 1 \in 1..Len(w) /\ w[k - 1] = s[k]
    BY <1>1, <1>2
  <2> QED BY <2>1, <2>2 DEF Free
<1>7. ASSUME OpenedFirst(s) PROVE OpenedFirst(w)
  <2>1. \A i, j \in 1..Len(w) : i < j => i + 1 < j + 1
    OBVIOUS
  <2> QED BY <1>1, <1>7, <2>1 DEF OpenedFirst
<1>8. ASSUME OpenedFirst(s), s[1].kind \in {"Connected", "Reconnected"} PROVE Free({"Connected"}, w)
  <2>1. \A i \in 1..Len(w) : 1 < i + 1 /\ 1 \in 1..Len(s)
    BY <1>1
  <2> QED BY <1>1, <1>8, <2>1 DEF OpenedFirst, Free
<1> QED BY <1>3, <1>4, <1>5, <1>6, <1>7, <1>8

LEMMA AppendOrder ==
  ASSUME NEW S, NEW s \in Seq(S), NEW e \in S, NEW w, w = Append(s, e), NEW kinds, NEW others
  PROVE  /\ Free(kinds, w) <=> Free(kinds, s) /\ e.kind \notin kinds
         /\ Followed(kinds, others, s) /\ e.kind \notin kinds => Followed(kinds, others, w)
         /\ e.kind \in others /\ e.kind \notin kinds => Followed(kinds, others, w)
         /\ OpenedFirst(s) /\ e.kind # "Connected" => OpenedFirst(w)
         /\ Free({"Connected", "Reconnected"}, s) => OpenedFirst(w)
<1>1. /\ Len(w) = Len(s) + 1 /\ Len(s) \in Nat /\ w[Len(s) + 1] = e
      /\ \A i \in 1..Len(s) : w[i] = s[i] /\ i \in 1..Len(w)
      /\ \A i \in 1..Len(w) : i = Len(s) + 1 \/ (i \in 1..Len(s) /\ w[i] = s[i])
  BY AppendOf
<1>2. Free(kinds, w) <=> Free(kinds, s) /\ e.kind \notin kinds
  BY <1>1 DEF Free
<1>3. ASSUME Followed(kinds, others, s), e.kind \notin kinds PROVE Followed(kinds, others, w)
  <2> SUFFICES ASSUME NEW i \in 1..Len(w), w[i].kind \in kinds
               PROVE  \E j \in i + 1..Len(w) : w[j].kind \in others
    BY DEF Followed
  <2>1. i \in 1..Len(s) /\ w[i] = s[i]
    BY <1>1, <1>3
  <2>2. PICK j \in i + 1..Len(s) : s[j].kind \in others
    BY <1>3, <2>1 DEF Followed
  <2>3. j \in i + 1..Len(w) /\ w[j] = s[j]
    BY <1>1, <2>1
  <2> QED BY <2>2, <2>3
<1>4. ASSUME e.kind \in others, e.kind \notin kinds PROVE Followed(kinds, others, w)
  <2> SUFFICES ASSUME NEW i \in 1..Len(w), w[i].kind \in kinds
               PROVE  \E j \in i + 1..Len(w) : w[j].kind \in others
    BY DEF Followed
  <2>1. i \in 1..Len(s)
    BY <1>1, <1>4
  <2>2. Len(s) + 1 \in i + 1..Len(w)
    BY <1>1, <2>1
  <2> QED BY <1>1, <1>4, <2>2
<1>5. ASSUME OpenedFirst(s), e.kind # "Connected" PROVE OpenedFirst(w)
  <2>1. \A i, j \in 1..Len(w) : i < j /\ w[j].kind = "Connected" => j \in 1..Len(s) /\ i \in 1..Len(s)
    BY <1>1, <1>5
  <2> QED BY <1>1, <1>5, <2>1 DEF OpenedFirst
<1>6. ASSUME Free({"Connected", "Reconnected"}, s) PROVE OpenedFirst(w)
  <2>1. \A i, j \in 1..Len(w) : i < j => i \in 1..Len(s)
    BY <1>1
  <2> QED BY <1>1, <1>6, <2>1 DEF OpenedFirst, Free
<1> QED BY <1>2, <1>3, <1>4, <1>5, <1>6

LEMMA FreeSubset ==
  ASSUME NEW s, NEW kinds, NEW fewer \in SUBSET kinds, Free(kinds, s)
  PROVE  Free(fewer, s)
BY DEF Free

-----------------------------------------------------------------------------
(* Messages                                                                *)

LEMMA Bounds == MaxActs \in Nat /\ MaxFaults \in Nat /\ MaxActors \in Nat
BY SessionBounds

LEMMA MsgFacts ==
  /\ \A kind \in {"Close", "Cancel", "Use", "None"} : TabMsg(kind) \in Msgs
  /\ \A kind : TabMsg(kind).kind = kind
  /\ \A r \in RunIds : RunMsg(r) \in Msgs
  /\ \A r : RunMsg(r).kind = "Run" /\ RunMsg(r).run = r
  /\ \A m \in Msgs : /\ m.kind \in {"Close", "Cancel", "Use", "None", "Run"}
                     /\ m.kind = "Run" => m.run \in RunIds
<1>1. /\ \A kind : TabMsg(kind).kind = kind
      /\ \A r : RunMsg(r).kind = "Run" /\ RunMsg(r).run = r
  BY DEF TabMsg, RunMsg
<1>2. \A kind \in {"Close", "Cancel", "Use", "None"} : TabMsg(kind) \in Msgs
  BY DEF TabMsg, Msgs
<1>3. \A r \in RunIds : RunMsg(r) \in Msgs
  BY DEF RunMsg, Msgs
<1>4. \A m \in Msgs : /\ m.kind \in {"Close", "Cancel", "Use", "None", "Run"}
                      /\ m.kind = "Run" => m.run \in RunIds
  BY DEF Msgs
<1> QED BY <1>1, <1>2, <1>3, <1>4

RunCommand(r) == [kind |-> "Run", run |-> r, arg |-> FALSE]

LEMMA CommandFacts ==
  /\ \A kind \in {"Connect", "Disconnect", "Cancel", "Use"}, arg \in BOOLEAN : Command(kind, arg) \in Commands
  /\ \A kind, arg : Command(kind, arg).kind = kind
  /\ \A r \in RunIds : RunCommand(r) \in Commands
  /\ \A r : RunCommand(r).kind = "Run" /\ RunCommand(r).run = r
  /\ \A c \in Commands : /\ c.kind \in {"Connect", "Disconnect", "Cancel", "Use", "Run"}
                         /\ c.kind = "Run" => c.run \in RunIds
                         /\ c.arg \in BOOLEAN
<1>1. /\ \A kind, arg : Command(kind, arg).kind = kind
      /\ \A r : RunCommand(r).kind = "Run" /\ RunCommand(r).run = r
  BY DEF Command, RunCommand
<1>2. \A kind \in {"Connect", "Disconnect", "Cancel", "Use"}, arg \in BOOLEAN : Command(kind, arg) \in Commands
  <2>1. \A kind \in {"Connect", "Disconnect", "Cancel", "Use"}, arg \in BOOLEAN :
            Command(kind, arg) \in [kind : {"Connect", "Disconnect", "Cancel", "Use"}, run : {NoRun}, arg : BOOLEAN]
    BY Zenon DEF Command
  <2> QED BY <2>1, Zenon DEF Commands
<1>3. \A r \in RunIds : RunCommand(r) \in Commands
  <2>1. \A r \in RunIds : RunCommand(r) \in [kind : {"Run"}, run : RunIds, arg : {FALSE}]
    BY Zenon DEF RunCommand
  <2> QED BY <2>1, Zenon DEF Commands
<1>4. \A c \in Commands : /\ c.kind \in {"Connect", "Disconnect", "Cancel", "Use", "Run"}
                          /\ c.kind = "Run" => c.run \in RunIds
                          /\ c.arg \in BOOLEAN
  <2>1. \A c \in Commands : \/ c \in [kind : {"Connect", "Disconnect", "Cancel", "Use"}, run : {NoRun}, arg : BOOLEAN]
                            \/ c \in [kind : {"Run"}, run : RunIds, arg : {FALSE}]
    BY Zenon DEF Commands
  <2>2. \A c \in [kind : {"Connect", "Disconnect", "Cancel", "Use"}, run : {NoRun}, arg : BOOLEAN] :
            c.kind \in {"Connect", "Disconnect", "Cancel", "Use"} /\ c.arg \in BOOLEAN
    BY Zenon
  <2>3. \A c \in [kind : {"Run"}, run : RunIds, arg : {FALSE}] :
            c.kind = "Run" /\ c.run \in RunIds /\ c.arg \in {FALSE}
    BY Zenon
  <2>4. {FALSE} \subseteq BOOLEAN
    BY Zenon
  <2>5. \A k \in {"Connect", "Disconnect", "Cancel", "Use"} : k # "Run"
    BY Zenon
  <2> QED BY <2>1, <2>2, <2>3, <2>4, <2>5, Zenon
<1> QED BY <1>1, <1>2, <1>3, <1>4

EventKinds == SessionEvents \cup {"Reconnected", "NotConnected"}

LEMMA EventFacts ==
  /\ \A kind \in EventKinds, arg \in BOOLEAN : Event(kind, arg) \in Events
  /\ \A kind, arg : Event(kind, arg).kind = kind /\ Event(kind, arg).arg = arg
  /\ \A r \in Runs, o \in Outcomes : RunDone(r, o) \in Events
  /\ \A r, o : /\ RunDone(r, o).kind = "RunDone" /\ RunDone(r, o).id = r
               /\ RunDone(r, o).outcome = o
  /\ \A e \in Events : /\ e.kind \in EventKinds \cup {"RunDone"}
                       /\ e.kind = "RunDone" => e.id \in Runs /\ e.outcome \in Outcomes
                       /\ e.arg \in BOOLEAN
<1>1. /\ \A kind, arg : Event(kind, arg).kind = kind /\ Event(kind, arg).arg = arg
      /\ \A r, o : RunDone(r, o).kind = "RunDone" /\ RunDone(r, o).id = r /\ RunDone(r, o).outcome = o
  BY DEF Event, RunDone
<1>2. \A kind \in EventKinds, arg \in BOOLEAN : Event(kind, arg) \in Events
  <2>1. \A kind \in EventKinds, arg \in BOOLEAN :
            Event(kind, arg) \in [kind : EventKinds, id : {0}, outcome : {"none"}, arg : BOOLEAN]
    BY Zenon DEF Event
  <2> QED BY <2>1, Zenon DEF Events, EventKinds
<1>3. \A r \in Runs, o \in Outcomes : RunDone(r, o) \in Events
  <2>1. \A r \in Runs, o \in Outcomes :
            RunDone(r, o) \in [kind : {"RunDone"}, id : Runs, outcome : Outcomes, arg : {FALSE}]
    BY Zenon DEF RunDone
  <2> QED BY <2>1, Zenon DEF Events
<1>4. \A e \in Events : /\ e.kind \in EventKinds \cup {"RunDone"}
                        /\ e.kind = "RunDone" => e.id \in Runs /\ e.outcome \in Outcomes
                        /\ e.arg \in BOOLEAN
  <2>1. \A e \in Events : \/ e \in [kind : EventKinds, id : {0}, outcome : {"none"}, arg : BOOLEAN]
                          \/ e \in [kind : {"RunDone"}, id : Runs, outcome : Outcomes, arg : {FALSE}]
    BY Zenon DEF Events, EventKinds
  <2>2. \A e \in [kind : EventKinds, id : {0}, outcome : {"none"}, arg : BOOLEAN] :
            e.kind \in EventKinds /\ e.arg \in BOOLEAN
    BY Zenon
  <2>3. \A e \in [kind : {"RunDone"}, id : Runs, outcome : Outcomes, arg : {FALSE}] :
            e.kind = "RunDone" /\ e.id \in Runs /\ e.outcome \in Outcomes /\ e.arg \in {FALSE}
    BY Zenon
  <2>4. {FALSE} \subseteq BOOLEAN
    BY Zenon
  <2>5. \A k \in EventKinds : k # "RunDone"
    BY DEF EventKinds, SessionEvents, SessionEnds
  <2> QED BY <2>1, <2>2, <2>3, <2>4, <2>5, Zenon
<1> QED BY <1>1, <1>2, <1>3, <1>4

LEMMA RunFacts ==
  /\ \A r \in RunIds : r.id \in Runs /\ r.id \in Nat /\ r.id > 0 /\ r.intent \in Intents /\ r.intent \in Nat
  /\ \A i \in Runs, j \in Intents : [id |-> i, intent |-> j] \in RunIds
  /\ \A i \in Runs : i \in Nat /\ i > 0 /\ i <= MaxActs + MaxFaults
  /\ \A i : i \in Nat /\ i > 0 /\ i <= MaxActs + MaxFaults => i \in Runs
<1>1. \A r \in RunIds : r.id \in Runs /\ r.intent \in Intents
  BY DEF RunIds
<1> QED BY <1>1, Bounds DEF Runs, Intents, RunIds

\* What the type invariant says of each variable and message.
LEMMA TypeFacts ==
  ASSUME TypeOK
  PROVE  /\ cmds \in Seq(Commands) /\ Len(cmds) \in Nat
         /\ \A i \in 1..Len(cmds) : /\ cmds[i] \in Commands
                                    /\ cmds[i].kind \in {"Connect", "Disconnect", "Cancel", "Use", "Run"}
                                    /\ cmds[i].kind = "Run" => cmds[i].run \in RunIds
         /\ events \in Seq(Events) /\ Len(events) \in Nat
         /\ \A i \in 1..Len(events) : /\ events[i] \in Events
                                      /\ events[i].kind \in EventKinds \cup {"RunDone"}
                                      /\ events[i].kind = "RunDone" => /\ events[i].id \in Runs
                                                                       /\ events[i].outcome \in Outcomes
         /\ \A a \in Actors : /\ mail[a] \in Seq(Msgs) /\ Len(mail[a]) \in Nat /\ cur[a] \in Msgs
                              /\ \A i \in 1..Len(mail[a]) :
                                    /\ mail[a][i] \in Msgs
                                    /\ mail[a][i].kind \in {"Close", "Cancel", "Use", "None", "Run"}
                                    /\ mail[a][i].kind = "Run" => mail[a][i].run \in RunIds
                              /\ cur[a].kind = "Run" => cur[a].run \in RunIds
         /\ run.id \in Nat /\ run.id <= MaxActs + MaxFaults /\ run.intent \in 0..MaxActs
         /\ run.state \in {"none", "Running", "Cancelling"} \cup Outcomes
         /\ acts \in Nat /\ faults \in Nat /\ born \in Nat /\ entry \in Nat
         /\ acts <= MaxActs /\ faults <= MaxFaults /\ born <= MaxActors
         /\ pending \in Nat /\ last \in Nat
<1>1. cmds \in Seq(Commands) /\ events \in Seq(Events)
  BY DEF TypeOK
<1>2. \A i \in 1..Len(cmds) : cmds[i] \in Commands
  BY <1>1
<1>3. \A i \in 1..Len(events) : events[i] \in Events
  BY <1>1
<1>4. \A a \in Actors : mail[a] \in Seq(Msgs) /\ cur[a] \in Msgs
  BY DEF TypeOK
<1>5. \A a \in Actors : \A i \in 1..Len(mail[a]) : mail[a][i] \in Msgs
  BY <1>4
<1>6. /\ run.id \in Nat /\ run.id <= MaxActs + MaxFaults /\ run.intent \in 0..MaxActs
      /\ run.state \in {"none", "Running", "Cancelling"} \cup Outcomes
  <2>1. /\ run.id \in {0} \cup Runs /\ run.intent \in 0..MaxActs
        /\ run.state \in {"none", "Running", "Cancelling"} \cup Outcomes
    BY DEF TypeOK
  <2> QED BY <2>1, RunFacts, Bounds
<1>7. /\ acts \in Nat /\ faults \in Nat /\ born \in Nat /\ entry \in Nat
      /\ acts <= MaxActs /\ faults <= MaxFaults /\ born <= MaxActors
      /\ pending \in Nat /\ last \in Nat
  BY Bounds DEF TypeOK
<1>8. \A i \in 1..Len(cmds) : /\ cmds[i].kind \in {"Connect", "Disconnect", "Cancel", "Use", "Run"}
                              /\ cmds[i].kind = "Run" => cmds[i].run \in RunIds
  BY <1>2, CommandFacts
<1>9. \A i \in 1..Len(events) : /\ events[i].kind \in EventKinds \cup {"RunDone"}
                                /\ events[i].kind = "RunDone" => /\ events[i].id \in Runs
                                                                 /\ events[i].outcome \in Outcomes
  BY <1>3, EventFacts
<1>10. \A a \in Actors : /\ \A i \in 1..Len(mail[a]) :
                               /\ mail[a][i].kind \in {"Close", "Cancel", "Use", "None", "Run"}
                               /\ mail[a][i].kind = "Run" => mail[a][i].run \in RunIds
                         /\ cur[a].kind = "Run" => cur[a].run \in RunIds
  BY <1>4, <1>5, MsgFacts
<1>11. Len(cmds) \in Nat /\ Len(events) \in Nat /\ \A a \in Actors : Len(mail[a]) \in Nat
  BY <1>1, <1>4
<1> QED BY <1>1, <1>2, <1>3, <1>4, <1>5, <1>6, <1>7, <1>8, <1>9, <1>10, <1>11

-----------------------------------------------------------------------------
(* The runs that wait                                                      *)

\* The runs in w are in s, each in a place of its own.
RunsWithin(w, s) ==
  /\ \A i \in 1..Len(w) : w[i].kind = "Run" => \E k \in 1..Len(s) : s[k].kind = "Run" /\ s[k].run = w[i].run
  /\ \A i, j \in 1..Len(w) : i # j /\ w[i].kind = "Run" /\ w[j].kind = "Run"
        => \E k, l \in 1..Len(s) : /\ k # l /\ s[k].kind = "Run" /\ s[k].run = w[i].run
                                   /\ s[l].kind = "Run" /\ s[l].run = w[j].run

LEMMA RunsWithinFacts ==
  ASSUME NEW S, NEW s \in Seq(S)
  PROVE  /\ RunsWithin(s, s) /\ RunsWithin(<<>>, s)
         /\ \A w : s # <<>> /\ w = Tail(s) => RunsWithin(w, s)
         /\ \A w, e : e \in S /\ e.kind # "Run" /\ w = Append(s, e) => RunsWithin(w, s)
<1>1. RunsWithin(s, s) /\ RunsWithin(<<>>, s)
  BY DEF RunsWithin
<1>2. ASSUME NEW w, s # <<>>, w = Tail(s) PROVE RunsWithin(w, s)
  <2>1. \A i \in 1..Len(w) : w[i] = s[i + 1] /\ i + 1 \in 1..Len(s)
    BY <1>2, TailOf
  <2>2. ASSUME NEW i \in 1..Len(w), w[i].kind = "Run"
        PROVE  \E k \in 1..Len(s) : s[k].kind = "Run" /\ s[k].run = w[i].run
    <3>1. i + 1 \in 1..Len(s) /\ s[i + 1] = w[i]
      BY <2>1
    <3> QED BY <3>1, <2>2
  <2>3. ASSUME NEW i \in 1..Len(w), NEW j \in 1..Len(w), i # j, w[i].kind = "Run", w[j].kind = "Run"
        PROVE  \E k, l \in 1..Len(s) : /\ k # l /\ s[k].kind = "Run" /\ s[k].run = w[i].run
                                       /\ s[l].kind = "Run" /\ s[l].run = w[j].run
    <3>1. i + 1 # j + 1 /\ i + 1 \in 1..Len(s) /\ j + 1 \in 1..Len(s)
      BY <2>1, <2>3
    <3>2. s[i + 1] = w[i] /\ s[j + 1] = w[j]
      BY <2>1
    <3> QED BY <3>1, <3>2, <2>3
  <2> QED BY <2>2, <2>3 DEF RunsWithin
<1>3. ASSUME NEW w, NEW e \in S, e.kind # "Run", w = Append(s, e) PROVE RunsWithin(w, s)
  <2>1. \A i \in 1..Len(w) : w[i].kind = "Run" => i \in 1..Len(s) /\ w[i] = s[i]
    BY <1>3, AppendOf
  <2> QED BY <2>1 DEF RunsWithin
<1> QED BY <1>1, <1>2, <1>3

\* A step that takes runs away leaves one of each.
LEMMA OneKept ==
  ASSUME OneOfEach(cmds, mail, cur), NEW c, NEW m, NEW u,
         RunsWithin(c, cmds), \A a \in Actors : RunsWithin(m[a], mail[a]),
         \A a \in Actors : u[a] = cur[a] \/ u[a].kind # "Run"
  PROVE  OneOfEach(c, m, u)
<1>1. \A i, j \in 1..Len(c) : i # j /\ c[i].kind = "Run" /\ c[j].kind = "Run" => c[i].run.id # c[j].run.id
  <2> SUFFICES ASSUME NEW i \in 1..Len(c), NEW j \in 1..Len(c), i # j, c[i].kind = "Run", c[j].kind = "Run"
               PROVE  c[i].run.id # c[j].run.id
    OBVIOUS
  <2>1. PICK k, l \in 1..Len(cmds) : /\ k # l /\ cmds[k].kind = "Run" /\ cmds[k].run = c[i].run
                                     /\ cmds[l].kind = "Run" /\ cmds[l].run = c[j].run
    BY DEF RunsWithin
  <2>2. cmds[k].run.id # cmds[l].run.id
    BY <2>1 DEF OneOfEach
  <2> QED BY <2>1, <2>2
<1>2. ASSUME NEW a \in Actors, NEW i \in 1..Len(m[a]), NEW j \in 1..Len(c), m[a][i].kind = "Run", c[j].kind = "Run"
      PROVE  m[a][i].run.id # c[j].run.id
  <2>1. PICK k \in 1..Len(mail[a]) : mail[a][k].kind = "Run" /\ mail[a][k].run = m[a][i].run
    BY <1>2 DEF RunsWithin
  <2>2. PICK l \in 1..Len(cmds) : cmds[l].kind = "Run" /\ cmds[l].run = c[j].run
    BY <1>2 DEF RunsWithin
  <2>3. mail[a][k].run.id # cmds[l].run.id
    BY <2>1, <2>2 DEF OneOfEach
  <2> QED BY <2>1, <2>2, <2>3
<1>3. ASSUME NEW a \in Actors, NEW j \in 1..Len(c), u[a].kind = "Run", c[j].kind = "Run"
      PROVE  u[a].run.id # c[j].run.id
  <2>1. PICK l \in 1..Len(cmds) : cmds[l].kind = "Run" /\ cmds[l].run = c[j].run
    BY <1>3 DEF RunsWithin
  <2>2. cur[a].kind = "Run" /\ cur[a] = u[a]
    BY <1>3
  <2>3. cur[a].run.id # cmds[l].run.id
    BY <2>1, <2>2 DEF OneOfEach
  <2> QED BY <2>1, <2>2, <2>3
<1>4. ASSUME NEW a \in Actors, NEW i \in 1..Len(m[a]), NEW j \in 1..Len(m[a]), i # j,
             m[a][i].kind = "Run", m[a][j].kind = "Run"
      PROVE  m[a][i].run.id # m[a][j].run.id
  <2>1. PICK k, l \in 1..Len(mail[a]) : /\ k # l /\ mail[a][k].kind = "Run" /\ mail[a][k].run = m[a][i].run
                                        /\ mail[a][l].kind = "Run" /\ mail[a][l].run = m[a][j].run
    BY <1>4 DEF RunsWithin
  <2>2. mail[a][k].run.id # mail[a][l].run.id
    BY <2>1 DEF OneOfEach
  <2> QED BY <2>1, <2>2
<1>5. ASSUME NEW a \in Actors, NEW b \in Actors, NEW i \in 1..Len(m[a]), u[b].kind = "Run", m[a][i].kind = "Run"
      PROVE  u[b].run.id # m[a][i].run.id
  <2>1. PICK k \in 1..Len(mail[a]) : mail[a][k].kind = "Run" /\ mail[a][k].run = m[a][i].run
    BY <1>5 DEF RunsWithin
  <2>2. cur[b].kind = "Run" /\ cur[b] = u[b]
    BY <1>5
  <2>3. cur[b].run.id # mail[a][k].run.id
    BY <2>1, <2>2 DEF OneOfEach
  <2> QED BY <2>1, <2>2, <2>3
<1>6. ASSUME NEW a \in Actors, NEW b \in Actors, a # b, u[a].kind = "Run", u[b].kind = "Run"
      PROVE  u[a].run.id # u[b].run.id
  BY <1>6 DEF OneOfEach
<1>7. ASSUME NEW a \in Actors, NEW b \in Actors, a # b, NEW i \in 1..Len(m[a]), NEW j \in 1..Len(m[b]),
             m[a][i].kind = "Run", m[b][j].kind = "Run"
      PROVE  m[a][i].run.id # m[b][j].run.id
  <2>1. PICK k \in 1..Len(mail[a]) : mail[a][k].kind = "Run" /\ mail[a][k].run = m[a][i].run
    BY <1>7 DEF RunsWithin
  <2>2. PICK l \in 1..Len(mail[b]) : mail[b][l].kind = "Run" /\ mail[b][l].run = m[b][j].run
    BY <1>7 DEF RunsWithin
  <2>3. mail[a][k].run.id # mail[b][l].run.id
    BY <1>7, <2>1, <2>2 DEF OneOfEach
  <2> QED BY <2>1, <2>2, <2>3
<1> QED BY <1>1, <1>2, <1>3, <1>4, <1>5, <1>6, <1>7 DEF OneOfEach

\* A run that joins the commands is another than all that wait.
LEMMA OneSent ==
  ASSUME TypeOK, OneOfEach(cmds, mail, cur), NEW r \in RunIds, NEW c, c = Append(cmds, RunCommand(r)),
         \A i \in 1..Len(cmds) : cmds[i].kind = "Run" => cmds[i].run.id # r.id,
         \A a \in Actors : /\ \A i \in 1..Len(mail[a]) : mail[a][i].kind = "Run" => mail[a][i].run.id # r.id
                           /\ cur[a].kind = "Run" => cur[a].run.id # r.id
  PROVE  OneOfEach(c, mail, cur)
<1>1. /\ c[Len(cmds) + 1].run = r
      /\ \A i \in 1..Len(c) : i = Len(cmds) + 1 \/ (i \in 1..Len(cmds) /\ c[i] = cmds[i])
  <2>1. RunCommand(r) \in Commands /\ RunCommand(r).run = r /\ cmds \in Seq(Commands)
    BY TypeFacts, CommandFacts
  <2>2. /\ c[Len(cmds) + 1] = RunCommand(r)
        /\ \A i \in 1..Len(c) : i = Len(cmds) + 1 \/ (i \in 1..Len(cmds) /\ c[i] = cmds[i])
    BY <2>1, AppendOf
  <2> QED BY <2>1, <2>2
<1>2. \A i \in 1..Len(c) : c[i].kind = "Run" =>
          \/ i = Len(cmds) + 1 /\ c[i].run.id = r.id
          \/ i \in 1..Len(cmds) /\ cmds[i].kind = "Run" /\ c[i].run.id = cmds[i].run.id
  BY <1>1
<1>3. \A i, j \in 1..Len(c) : i # j /\ c[i].kind = "Run" /\ c[j].kind = "Run" => c[i].run.id # c[j].run.id
  BY <1>2 DEF OneOfEach
<1>4. \A a \in Actors :
          /\ \A i \in 1..Len(mail[a]), j \in 1..Len(c) : mail[a][i].kind = "Run" /\ c[j].kind = "Run"
                => mail[a][i].run.id # c[j].run.id
          /\ \A j \in 1..Len(c) : cur[a].kind = "Run" /\ c[j].kind = "Run" => cur[a].run.id # c[j].run.id
  BY <1>2 DEF OneOfEach
<1> QED BY <1>3, <1>4 DEF OneOfEach

\* A run that is routed leaves the commands for a mailbox.
LEMMA OneRouted ==
  ASSUME TypeOK, OneOfEach(cmds, mail, cur), cmds # <<>>, cmds[1].kind = "Run", NEW d \in Actors,
         NEW c, c = Tail(cmds), NEW m, m = [mail EXCEPT ![d] = Append(@, RunMsg(cmds[1].run))]
  PROVE  OneOfEach(c, m, cur)
<1>1. /\ \A i \in 1..Len(c) : c[i] = cmds[i + 1] /\ i + 1 \in 1..Len(cmds) /\ i + 1 # 1
      /\ 1 \in 1..Len(cmds)
  <2>1. cmds \in Seq(Commands)
    BY DEF TypeOK
  <2>2. /\ Len(cmds) \in Nat \ {0}
        /\ \A i \in 1..Len(c) : c[i] = cmds[i + 1] /\ i + 1 \in 1..Len(cmds) /\ Len(c) \in Nat
    BY <2>1, TailOf
  <2> QED BY <2>2
<1>2. \A a \in Actors : \A i \in 1..Len(m[a]) : m[a][i].kind = "Run" =>
          \/ a = d /\ i = Len(mail[d]) + 1 /\ m[a][i].run = cmds[1].run
          \/ i \in 1..Len(mail[a]) /\ mail[a][i].kind = "Run" /\ m[a][i].run = mail[a][i].run
  <2> SUFFICES ASSUME NEW a \in Actors, NEW i \in 1..Len(m[a]), m[a][i].kind = "Run"
               PROVE  \/ a = d /\ i = Len(mail[d]) + 1 /\ m[a][i].run = cmds[1].run
                      \/ i \in 1..Len(mail[a]) /\ mail[a][i].kind = "Run" /\ m[a][i].run = mail[a][i].run
    OBVIOUS
  <2>1. CASE a # d
    BY <2>1 DEF TypeOK
  <2>2. CASE a = d
    <3>1. m[d] = Append(mail[d], RunMsg(cmds[1].run))
      BY DEF TypeOK
    <3>2. cmds[1].run \in RunIds
      BY <1>1, TypeFacts
    <3> QED BY <2>2, <3>1, <3>2, TypeFacts, MsgFacts, AppendOf
  <2> QED BY <2>1, <2>2
<1>3. \A i, j \in 1..Len(c) : i # j /\ c[i].kind = "Run" /\ c[j].kind = "Run" => c[i].run.id # c[j].run.id
  <2>1. \A i, j \in 1..Len(c) : i # j => i + 1 # j + 1
    OBVIOUS
  <2> QED BY <1>1, <2>1 DEF OneOfEach
<1>4. ASSUME NEW a \in Actors
      PROVE  /\ \A i \in 1..Len(m[a]), j \in 1..Len(c) : m[a][i].kind = "Run" /\ c[j].kind = "Run"
                   => m[a][i].run.id # c[j].run.id
             /\ \A j \in 1..Len(c) : cur[a].kind = "Run" /\ c[j].kind = "Run" => cur[a].run.id # c[j].run.id
  BY <1>1, <1>2 DEF OneOfEach
<1>5. ASSUME NEW a \in Actors, NEW i \in 1..Len(m[a]), NEW j \in 1..Len(m[a]), i # j,
             m[a][i].kind = "Run", m[a][j].kind = "Run"
      PROVE  m[a][i].run.id # m[a][j].run.id
  BY <1>1, <1>2, <1>5 DEF OneOfEach
<1>6. ASSUME NEW a \in Actors, NEW b \in Actors, NEW i \in 1..Len(m[a]), cur[b].kind = "Run", m[a][i].kind = "Run"
      PROVE  cur[b].run.id # m[a][i].run.id
  BY <1>1, <1>2, <1>6 DEF OneOfEach
<1>7. ASSUME NEW a \in Actors, NEW b \in Actors, a # b, cur[a].kind = "Run", cur[b].kind = "Run"
      PROVE  cur[a].run.id # cur[b].run.id
  BY <1>7 DEF OneOfEach
<1>8. ASSUME NEW a \in Actors, NEW b \in Actors, a # b, NEW i \in 1..Len(m[a]), NEW j \in 1..Len(m[b]),
             m[a][i].kind = "Run", m[b][j].kind = "Run"
      PROVE  m[a][i].run.id # m[b][j].run.id
  <2>1. \A x \in Actors : \A k \in 1..Len(mail[x]) : mail[x][k].kind = "Run" => mail[x][k].run.id # cmds[1].run.id
    BY <1>1 DEF OneOfEach
  <2>2. CASE a = d /\ m[a][i].run = cmds[1].run
    <3>1. j \in 1..Len(mail[b]) /\ mail[b][j].kind = "Run" /\ m[b][j].run = mail[b][j].run
      BY <1>2, <1>8, <2>2
    <3> QED BY <2>1, <2>2, <3>1
  <2>3. CASE b = d /\ m[b][j].run = cmds[1].run
    <3>1. i \in 1..Len(mail[a]) /\ mail[a][i].kind = "Run" /\ m[a][i].run = mail[a][i].run
      BY <1>2, <1>8, <2>3
    <3> QED BY <2>1, <2>3, <3>1
  <2>4. CASE /\ i \in 1..Len(mail[a]) /\ mail[a][i].kind = "Run" /\ m[a][i].run = mail[a][i].run
             /\ j \in 1..Len(mail[b]) /\ mail[b][j].kind = "Run" /\ m[b][j].run = mail[b][j].run
    BY <1>8, <2>4 DEF OneOfEach
  <2> QED BY <1>2, <1>8, <2>2, <2>3, <2>4
<1>9. \A a \in Actors :
         /\ \A i \in 1..Len(m[a]), j \in 1..Len(c) : m[a][i].kind = "Run" /\ c[j].kind = "Run"
               => m[a][i].run.id # c[j].run.id
         /\ \A j \in 1..Len(c) : cur[a].kind = "Run" /\ c[j].kind = "Run" => cur[a].run.id # c[j].run.id
         /\ \A i, j \in 1..Len(m[a]) : i # j /\ m[a][i].kind = "Run" /\ m[a][j].kind = "Run"
               => m[a][i].run.id # m[a][j].run.id
  BY <1>4, <1>5
<1>10. \A a, b \in Actors : \A i \in 1..Len(m[a]) : cur[b].kind = "Run" /\ m[a][i].kind = "Run"
          => cur[b].run.id # m[a][i].run.id
  BY <1>6
<1>11. \A a, b \in Actors : a # b
          => /\ cur[a].kind = "Run" /\ cur[b].kind = "Run" => cur[a].run.id # cur[b].run.id
             /\ \A i \in 1..Len(m[a]), j \in 1..Len(m[b]) : m[a][i].kind = "Run" /\ m[b][j].kind = "Run"
                   => m[a][i].run.id # m[b][j].run.id
  BY <1>7, <1>8
<1> QED BY <1>3, <1>9, <1>10, <1>11 DEF OneOfEach

\* A message that is taken leaves the mailbox for the hands of the actor.
LEMMA OneTaken ==
  ASSUME TypeOK, OneOfEach(cmds, mail, cur), NEW d \in Actors, mail[d] # <<>>, cur[d].kind # "Run",
         NEW m, m = [mail EXCEPT ![d] = Tail(@)], NEW u, u = [cur EXCEPT ![d] = mail[d][1]]
  PROVE  OneOfEach(cmds, m, u)
<1>1. \A a \in Actors : \A i \in 1..Len(m[a]) :
          \/ a = d /\ m[a][i] = mail[a][i + 1] /\ i + 1 \in 1..Len(mail[a]) /\ i + 1 # 1
          \/ a # d /\ m[a] = mail[a]
  <2>1. m[d] = Tail(mail[d]) /\ \A a \in Actors : a # d => m[a] = mail[a]
    BY DEF TypeOK
  <2>2. \A i \in 1..Len(m[d]) : m[d][i] = mail[d][i + 1] /\ i + 1 \in 1..Len(mail[d])
    BY <2>1, TypeFacts, TailOf
  <2>3. \A i \in 1..Len(m[d]) : i + 1 # 1
    OBVIOUS
  <2> QED BY <2>1, <2>2, <2>3
<1>2. 1 \in 1..Len(mail[d]) /\ \A a \in Actors : u[a] = IF a = d THEN mail[d][1] ELSE cur[a]
  <2>1. \A a \in Actors : u[a] = IF a = d THEN mail[d][1] ELSE cur[a]
    BY DEF TypeOK
  <2> QED BY <2>1, TypeFacts, TailOf
<1>3. \A i, j \in 1..Len(cmds) : i # j /\ cmds[i].kind = "Run" /\ cmds[j].kind = "Run"
          => cmds[i].run.id # cmds[j].run.id
  BY DEF OneOfEach
<1>4. \A a \in Actors :
          /\ \A i \in 1..Len(m[a]), j \in 1..Len(cmds) : m[a][i].kind = "Run" /\ cmds[j].kind = "Run"
                => m[a][i].run.id # cmds[j].run.id
          /\ \A j \in 1..Len(cmds) : u[a].kind = "Run" /\ cmds[j].kind = "Run" => u[a].run.id # cmds[j].run.id
  <2>1. /\ \A a \in Actors : \A i \in 1..Len(mail[a]), j \in 1..Len(cmds) :
               mail[a][i].kind = "Run" /\ cmds[j].kind = "Run" => mail[a][i].run.id # cmds[j].run.id
        /\ \A a \in Actors : \A j \in 1..Len(cmds) :
               cur[a].kind = "Run" /\ cmds[j].kind = "Run" => cur[a].run.id # cmds[j].run.id
    BY DEF OneOfEach
  <2>2. \A a \in Actors : \A i \in 1..Len(m[a]) : \E k \in 1..Len(mail[a]) : m[a][i] = mail[a][k]
    BY <1>1
  <2>3. \A a \in Actors : u[a] = cur[a] \/ \E k \in 1..Len(mail[a]) : u[a] = mail[a][k]
    BY <1>2
  <2>4. ASSUME NEW a \in Actors, NEW i \in 1..Len(m[a]), NEW j \in 1..Len(cmds),
               m[a][i].kind = "Run", cmds[j].kind = "Run"
        PROVE  m[a][i].run.id # cmds[j].run.id
    <3>1. PICK k \in 1..Len(mail[a]) : m[a][i] = mail[a][k]
      BY <2>2
    <3> QED BY <2>1, <2>4, <3>1
  <2>5. ASSUME NEW a \in Actors, NEW j \in 1..Len(cmds), u[a].kind = "Run", cmds[j].kind = "Run"
        PROVE  u[a].run.id # cmds[j].run.id
    BY <2>1, <2>3, <2>5
  <2> QED BY <2>4, <2>5
<1>5. ASSUME NEW a \in Actors, NEW i \in 1..Len(m[a]), NEW j \in 1..Len(m[a]), i # j,
             m[a][i].kind = "Run", m[a][j].kind = "Run"
      PROVE  m[a][i].run.id # m[a][j].run.id
  <2>1. CASE a # d
    BY <1>1, <1>5, <2>1 DEF OneOfEach
  <2>2. CASE a = d
    <3>1. /\ m[a][i] = mail[a][i + 1] /\ i + 1 \in 1..Len(mail[a])
          /\ m[a][j] = mail[a][j + 1] /\ j + 1 \in 1..Len(mail[a])
      BY <1>1, <2>2
    <3>2. \A x, y \in Int : x # y => x + 1 # y + 1
      OBVIOUS
    <3>3. i + 1 # j + 1
      BY <1>5, <3>2
    <3> QED BY <1>5, <3>1, <3>3 DEF OneOfEach
  <2> QED BY <2>1, <2>2
<1>6. ASSUME NEW a \in Actors, NEW b \in Actors, NEW i \in 1..Len(m[a]), u[b].kind = "Run", m[a][i].kind = "Run"
      PROVE  u[b].run.id # m[a][i].run.id
  <2>1. CASE b # d
    BY <1>1, <1>2, <1>6, <2>1 DEF OneOfEach
  <2>2. CASE b = d /\ a = d
    <3>1. m[a][i] = mail[a][i + 1] /\ i + 1 \in 1..Len(mail[a]) /\ i + 1 # 1
      BY <1>1, <2>2
    <3>2. u[b] = mail[a][1] /\ 1 \in 1..Len(mail[a])
      BY <1>2, <2>2
    <3> QED BY <1>6, <3>1, <3>2 DEF OneOfEach
  <2>3. CASE b = d /\ a # d
    BY <1>1, <1>2, <1>6, <2>3 DEF OneOfEach
  <2> QED BY <2>1, <2>2, <2>3
<1>7. ASSUME NEW a \in Actors, NEW b \in Actors, a # b, u[a].kind = "Run", u[b].kind = "Run"
      PROVE  u[a].run.id # u[b].run.id
  BY <1>2, <1>7 DEF OneOfEach
<1>8. ASSUME NEW a \in Actors, NEW b \in Actors, a # b, NEW i \in 1..Len(m[a]), NEW j \in 1..Len(m[b]),
             m[a][i].kind = "Run", m[b][j].kind = "Run"
      PROVE  m[a][i].run.id # m[b][j].run.id
  BY <1>1, <1>8 DEF OneOfEach
<1> QED BY <1>3, <1>4, <1>5, <1>6, <1>7, <1>8 DEF OneOfEach

\* A step that takes runs away leaves the others waiting.
LEMMA WaitKept ==
  ASSUME TypeOK, RunsApart, RunsWithin(cmds', cmds), result' = result, run'.id \in Nat, run.id <= run'.id,
         \A a \in Actors :
            /\ RunsWithin(mail'[a], mail[a])
            /\ cur'[a] = cur[a] \/ cur'[a].kind # "Run"
            /\ pc'[a] \in {"checking", "running"} /\ cur'[a].kind = "Run" => pc[a] \in {"checking", "running"}
            /\ pc'[a] = "ending" => pc[a] = "ending" /\ cur'[a] = cur[a]
  PROVE  RunsApart'
<1>0. run.id \in Nat /\ \A a \in Actors : cur[a].kind = "Run" => cur[a].run.id \in Nat
  BY TypeFacts, RunFacts
<1>1. OneOfEach(cmds', mail', cur')
  BY OneKept DEF RunsApart
<1>2. ASSUME NEW i \in 1..Len(cmds'), cmds'[i].kind = "Run"
      PROVE  cmds'[i].run.id <= run'.id /\ result'[cmds'[i].run.id] = "none"
  <2>1. PICK k \in 1..Len(cmds) : cmds[k].kind = "Run" /\ cmds[k].run = cmds'[i].run
    BY <1>2 DEF RunsWithin
  <2>2. WaitsIn(cmds[k].run) /\ cmds[k].run.id \in Nat
    BY <2>1, TypeFacts, RunFacts DEF RunsApart
  <2> QED BY <1>0, <2>1, <2>2 DEF WaitsIn
<1>3. ASSUME NEW a \in Actors, NEW i \in 1..Len(mail'[a]), mail'[a][i].kind = "Run"
      PROVE  mail'[a][i].run.id <= run'.id /\ result'[mail'[a][i].run.id] = "none"
  <2>0. RunsWithin(mail'[a], mail[a])
    OBVIOUS
  <2>1. PICK k \in 1..Len(mail[a]) : mail[a][k].kind = "Run" /\ mail[a][k].run = mail'[a][i].run
    BY <1>3, <2>0 DEF RunsWithin
  <2>2. WaitsIn(mail[a][k].run) /\ mail[a][k].run.id \in Nat
    BY <2>1, TypeFacts, RunFacts DEF RunsApart
  <2> QED BY <1>0, <2>1, <2>2 DEF WaitsIn
<1>4. ASSUME NEW a \in Actors, pc'[a] \in {"checking", "running"}, cur'[a].kind = "Run"
      PROVE  cur'[a].run.id <= run'.id /\ result'[cur'[a].run.id] = "none"
  <2>1. WaitsIn(cur[a].run) /\ cur'[a] = cur[a]
    BY <1>4 DEF RunsApart
  <2> QED BY <1>0, <1>4, <2>1 DEF WaitsIn
<1>5. ASSUME NEW a \in Actors, pc'[a] = "ending"
      PROVE  cur'[a].run.id <= run'.id /\ result'[cur'[a].run.id] # "none"
  <2>1. cur[a].run.id <= run.id /\ result[cur[a].run.id] # "none" /\ cur'[a] = cur[a]
    BY <1>5 DEF RunsApart
  <2>2. cur[a].run.id \in Nat
    BY TypeFacts, MsgFacts, RunFacts DEF Msgs, NoRun
  <2> QED BY <1>0, <2>1, <2>2
<1> QED BY <1>1, <1>2, <1>3, <1>4, <1>5 DEF RunsApart, WaitsIn

\* ... and what was told of a run stays true.
LEMMA ToldKept ==
  ASSUME ToldAsEnded, TypeOK, result' = result, run'.id \in Nat, run.id <= run'.id,
         run'.state = "none" <=> run'.id = 0,
         \A i \in 1..Len(events') : events'[i].kind = "RunDone" => \E k \in 1..Len(events) : events'[i] = events[k],
         \A a \in Actors : cur'[a] = cur[a] \/ cur'[a].kind # "Run"
  PROVE  ToldAsEnded'
<1>1. ASSUME NEW i \in 1..Len(events'), events'[i].kind = "RunDone"
      PROVE  /\ result'[events'[i].id] = events'[i].outcome
             /\ \A a \in Actors : cur'[a].kind = "Run" => cur'[a].run.id # events'[i].id
  <2>1. PICK k \in 1..Len(events) : events'[i] = events[k]
    BY <1>1
  <2> QED BY <1>1, <2>1 DEF ToldAsEnded
<1>2. \A r \in Runs : r > run'.id => result'[r] = "none"
  BY TypeFacts, RunFacts DEF ToldAsEnded
<1> QED BY <1>1, <1>2 DEF ToldAsEnded

\* Where nobody's run is at stake, what is executed and shown is as before.
LEMMA SingleUp ==
  ASSUME TypeOK, OneSession, NEW a \in Actors, Up(a)
  PROVE  /\ \A b \in Actors : Up(b) => b = a
         /\ Free({"Connect"}, cmds) /\ Free({"ConnectionLost"}, events) /\ ~NoneUp
<1>1. ~NoneUp
  BY DEF NoneUp
<1> QED BY <1>1 DEF OneSession, Free

LEMMA EntryFacts ==
  ASSUME TypeOK, entry # 0
  PROVE  entry \in Actors
BY Bounds DEF TypeOK, Actors

LEMMA Emitted ==
  ASSUME TypeOK, NEW e \in Events, events' = Append(events, e)
  PROVE  /\ events' \in Seq(Events) /\ events' # <<>>
         /\ \A i \in 1..Len(events') : \/ i \in 1..Len(events) /\ events'[i] = events[i]
                                       \/ i = Len(events) + 1 /\ events'[i] = e
         /\ \A i \in 1..Len(events) : i \in 1..Len(events') /\ events'[i] = events[i]
         /\ Len(events) + 1 \in 1..Len(events') /\ events'[Len(events) + 1] = e
         /\ CountOf("ConnectionLost", events) \in Nat
         /\ CountOf("ConnectionLost", events')
               = CountOf("ConnectionLost", events) + (IF e.kind = "ConnectionLost" THEN 1 ELSE 0)
         /\ \A kinds : Free(kinds, events') <=> Free(kinds, events) /\ e.kind \notin kinds
         /\ \A kinds, others :
               /\ Followed(kinds, others, events) /\ e.kind \notin kinds => Followed(kinds, others, events')
               /\ e.kind \in others /\ e.kind \notin kinds => Followed(kinds, others, events')
         /\ OpenedFirst(events) /\ e.kind # "Connected" => OpenedFirst(events')
         /\ Free({"Connected", "Reconnected"}, events) => OpenedFirst(events')
<1>1. events \in Seq(Events)
  BY DEF TypeOK
<1>2. /\ events' \in Seq(Events) /\ events' # <<>> /\ Len(events') = Len(events) + 1 /\ Len(events) \in Nat
      /\ events'[Len(events) + 1] = e
      /\ \A i \in 1..Len(events) : events'[i] = events[i] /\ i \in 1..Len(events')
      /\ \A i \in 1..Len(events') : i = Len(events) + 1 \/ (i \in 1..Len(events) /\ events'[i] = events[i])
  BY <1>1, AppendOf
<1>3. Len(events) + 1 \in 1..Len(events')
  BY <1>2
<1>4. /\ CountOf("ConnectionLost", events) \in Nat
      /\ CountOf("ConnectionLost", events')
            = CountOf("ConnectionLost", events) + (IF e.kind = "ConnectionLost" THEN 1 ELSE 0)
  <2>1. \A kind : /\ CountOf(kind, events) \in Nat
                  /\ e.kind = kind => CountOf(kind, events') = CountOf(kind, events) + 1
                  /\ e.kind # kind => CountOf(kind, events') = CountOf(kind, events)
    BY <1>1, CountAppend
  <2> QED BY <2>1
<1>5. \A kinds, others :
         /\ Free(kinds, events') <=> Free(kinds, events) /\ e.kind \notin kinds
         /\ Followed(kinds, others, events) /\ e.kind \notin kinds => Followed(kinds, others, events')
         /\ e.kind \in others /\ e.kind \notin kinds => Followed(kinds, others, events')
         /\ OpenedFirst(events) /\ e.kind # "Connected" => OpenedFirst(events')
         /\ Free({"Connected", "Reconnected"}, events) => OpenedFirst(events')
  BY <1>1, AppendOrder
<1> QED BY <1>2, <1>3, <1>4, <1>5

LEMMA EventTaken ==
  ASSUME TypeOK, events # <<>>, events' = Tail(events)
  PROVE  /\ events' \in Seq(Events) /\ Head(events) = events[1] /\ 1 \in 1..Len(events) /\ events[1] \in Events
         /\ \A i \in 1..Len(events') : i + 1 \in 1..Len(events) /\ events'[i] = events[i + 1]
         /\ \A k \in 1..Len(events) : k = 1 \/ \E i \in 1..Len(events') : events'[i] = events[k]
         /\ CountOf("ConnectionLost", events') \in Nat
         /\ CountOf("ConnectionLost", events)
               = CountOf("ConnectionLost", events') + (IF events[1].kind = "ConnectionLost" THEN 1 ELSE 0)
         /\ \A kinds : Free(kinds, events) <=> Free(kinds, events') /\ events[1].kind \notin kinds
         /\ \A kinds, others :
               /\ Followed(kinds, others, events) => Followed(kinds, others, events')
               /\ Followed(kinds, others, events) /\ events[1].kind \in kinds => ~Free(others, events')
         /\ OpenedFirst(events) => OpenedFirst(events')
         /\ OpenedFirst(events) /\ events[1].kind \in {"Connected", "Reconnected"} => Free({"Connected"}, events')
<1>1. events \in Seq(Events)
  BY DEF TypeOK
<1>2. /\ Head(events) = events[1] /\ events[1] \in Events /\ Len(events) \in Nat \ {0}
      /\ events' \in Seq(Events)
      /\ \A i \in 1..Len(events') : events'[i] = events[i + 1] /\ i + 1 \in 1..Len(events)
      /\ \A k \in 1..Len(events) : k = 1 \/ \E i \in 1..Len(events') : k = i + 1 /\ events'[i] = events[k]
  BY <1>1, TailOf
<1>3. /\ CountOf("ConnectionLost", events') \in Nat
      /\ CountOf("ConnectionLost", events)
            = CountOf("ConnectionLost", events') + (IF events[1].kind = "ConnectionLost" THEN 1 ELSE 0)
  BY <1>1, CountTail, ZenonT(60)
<1>4. \A kinds, others :
         /\ Free(kinds, events) <=> Free(kinds, events') /\ events[1].kind \notin kinds
         /\ Followed(kinds, others, events) => Followed(kinds, others, events')
         /\ Followed(kinds, others, events) /\ events[1].kind \in kinds => ~Free(others, events')
         /\ OpenedFirst(events) => OpenedFirst(events')
         /\ OpenedFirst(events) /\ events[1].kind \in {"Connected", "Reconnected"} => Free({"Connected"}, events')
  BY <1>1, TailOrder
<1>5. 1 \in 1..Len(events)
  BY <1>2
<1>6. \A k \in 1..Len(events) : k = 1 \/ \E i \in 1..Len(events') : events'[i] = events[k]
  BY <1>2
<1> QED BY <1>2, <1>3, <1>4, <1>5, <1>6

\* The commands, likewise.
LEMMA CommandSent ==
  ASSUME TypeOK, NEW c \in Commands, cmds' = Append(cmds, c)
  PROVE  /\ cmds' \in Seq(Commands)
         /\ \A i \in 1..Len(cmds') : \/ i \in 1..Len(cmds) /\ cmds'[i] = cmds[i]
                                     \/ i = Len(cmds) + 1 /\ cmds'[i] = c
         /\ \A i \in 1..Len(cmds) : i \in 1..Len(cmds') /\ cmds'[i] = cmds[i] /\ i < Len(cmds) + 1
         /\ Len(cmds) + 1 \in 1..Len(cmds') /\ cmds'[Len(cmds) + 1] = c
         /\ CountOf("Connect", cmds) \in Nat
         /\ CountOf("Connect", cmds') = CountOf("Connect", cmds) + (IF c.kind = "Connect" THEN 1 ELSE 0)
         /\ \A kinds : Free(kinds, cmds') <=> Free(kinds, cmds) /\ c.kind \notin kinds
<1>1. cmds \in Seq(Commands)
  BY DEF TypeOK
<1>2. /\ cmds' \in Seq(Commands) /\ Len(cmds') = Len(cmds) + 1 /\ Len(cmds) \in Nat
      /\ cmds'[Len(cmds) + 1] = c
      /\ \A i \in 1..Len(cmds) : cmds'[i] = cmds[i] /\ i \in 1..Len(cmds')
      /\ \A i \in 1..Len(cmds') : i = Len(cmds) + 1 \/ (i \in 1..Len(cmds) /\ cmds'[i] = cmds[i])
  BY <1>1, AppendOf
<1>3. Len(cmds) + 1 \in 1..Len(cmds') /\ \A i \in 1..Len(cmds) : i < Len(cmds) + 1
  BY <1>2
<1>4. /\ CountOf("Connect", cmds) \in Nat
      /\ CountOf("Connect", cmds') = CountOf("Connect", cmds) + (IF c.kind = "Connect" THEN 1 ELSE 0)
  <2>1. \A kind : /\ CountOf(kind, cmds) \in Nat
                  /\ c.kind = kind => CountOf(kind, cmds') = CountOf(kind, cmds) + 1
                  /\ c.kind # kind => CountOf(kind, cmds') = CountOf(kind, cmds)
    BY <1>1, CountAppend
  <2> QED BY <2>1
<1>5. \A kinds : Free(kinds, cmds') <=> Free(kinds, cmds) /\ c.kind \notin kinds
  BY <1>1, AppendOrder
<1> QED BY <1>2, <1>3, <1>4, <1>5

LEMMA CommandTaken ==
  ASSUME TypeOK, cmds # <<>>, cmds' = Tail(cmds)
  PROVE  /\ cmds' \in Seq(Commands) /\ Head(cmds) = cmds[1] /\ 1 \in 1..Len(cmds) /\ cmds[1] \in Commands
         /\ \A i \in 1..Len(cmds') : i + 1 \in 1..Len(cmds) /\ cmds'[i] = cmds[i + 1] /\ 1 < i + 1
         /\ \A k \in 1..Len(cmds) : k = 1 \/ \E i \in 1..Len(cmds') : k = i + 1 /\ cmds'[i] = cmds[k]
         /\ CountOf("Connect", cmds') \in Nat
         /\ CountOf("Connect", cmds) = CountOf("Connect", cmds') + (IF cmds[1].kind = "Connect" THEN 1 ELSE 0)
         /\ \A kinds : Free(kinds, cmds) <=> Free(kinds, cmds') /\ cmds[1].kind \notin kinds
<1>1. cmds \in Seq(Commands)
  BY DEF TypeOK
<1>2. /\ cmds' \in Seq(Commands) /\ Head(cmds) = cmds[1] /\ 1 \in 1..Len(cmds) /\ cmds[1] \in Commands
      /\ \A i \in 1..Len(cmds') : i + 1 \in 1..Len(cmds) /\ cmds'[i] = cmds[i + 1]
      /\ \A k \in 1..Len(cmds) : k = 1 \/ \E i \in 1..Len(cmds') : k = i + 1 /\ cmds'[i] = cmds[k]
  BY <1>1, TailOf
<1>3. \A i \in 1..Len(cmds') : 1 < i + 1
  OBVIOUS
<1>4. /\ CountOf("Connect", cmds') \in Nat
      /\ CountOf("Connect", cmds) = CountOf("Connect", cmds') + (IF cmds[1].kind = "Connect" THEN 1 ELSE 0)
  BY <1>1, CountTail, ZenonT(60)
<1>5. \A kinds : Free(kinds, cmds) <=> Free(kinds, cmds') /\ cmds[1].kind \notin kinds
  BY <1>1, TailOrder
<1> QED BY <1>2, <1>3, <1>4, <1>5

\* A step of the one actor that is up leaves it the one session.
LEMMA OneSessionKept ==
  ASSUME TypeOK, OneSession, NEW a \in Actors, Up(a), cmds' = cmds, born' = born, entry' = entry,
         \A b \in Actors : Up(b)' <=> Up(b), Free({"ConnectionLost"}, events'),
         entry # a => pc'[a] = "closing" \/ \E i \in 1..Len(mail'[a]) : mail'[a][i].kind = "Close"
  PROVE  OneSession'
<1>1. /\ \A b \in Actors : Up(b) => b = a
      /\ Free({"Connect"}, cmds)
  BY SingleUp
<1>2. \A b \in Actors : Up(b)' => b = born' /\ b = a
  BY <1>1 DEF OneSession
<1>3. \A b \in Actors : Up(b)' /\ entry' # b
         => pc'[b] = "closing" \/ \E i \in 1..Len(mail'[b]) : mail'[b][i].kind = "Close"
  BY <1>2
<1>4. \A i \in 1..Len(cmds') : cmds'[i].kind # "Connect"
  BY <1>1 DEF Free
<1> QED BY <1>2, <1>3, <1>4 DEF OneSession

\* While the session stays on the run shown, so do the runs that wait.
LEMMA WorksKept ==
  ASSUME WorksOnShown, cmds' = cmds, started' = started, run' = run, entry' = entry,
         \A i : Heard(i)' => Heard(i), \A r : OnIt(r) => OnIt(r)',
         \A b \in Actors : \A i \in 1..Len(mail'[b]) : \E k \in 1..Len(mail[b]) : mail'[b][i] = mail[b][k],
         \A b \in Actors : cur'[b].kind = "Run"
            => \/ cur'[b] = cur[b] /\ (pc'[b] = "checking" => pc[b] = "checking")
               \/ \E k \in 1..Len(mail[b]) : cur'[b] = mail[b][k]
  PROVE  WorksOnShown'
<1>1. \A i \in 1..Len(cmds) : cmds[i].kind = "Run" /\ Heard(i)
          => OnIt(cmds[i].run) /\ Free({"Disconnect"}, cmds) /\ started[run.intent] = 0
  BY DEF WorksOnShown
<1>2. \A b \in Actors : \A k \in 1..Len(mail[b]) : mail[b][k].kind = "Run"
          => OnIt(mail[b][k].run) /\ entry = b /\ Free({"Disconnect"}, cmds) /\ started[run.intent] = 0
  BY DEF WorksOnShown
<1>3. \A b \in Actors : cur[b].kind = "Run"
          => /\ OnIt(cur[b].run) /\ entry = b /\ Free({"Disconnect"}, cmds)
             /\ pc[b] = "checking" => started[run.intent] = 0
  BY DEF WorksOnShown
<1>4. ASSUME NEW i \in 1..Len(cmds'), cmds'[i].kind = "Run", Heard(i)'
      PROVE  OnIt(cmds[i].run)' /\ Free({"Disconnect"}, cmds') /\ started'[run'.intent] = 0
  <2>1. OnIt(cmds[i].run) /\ Free({"Disconnect"}, cmds) /\ started[run.intent] = 0
    BY <1>1, <1>4
  <2>2. PICK r : r = cmds[i].run
    OBVIOUS
  <2>3. r = cmds'[i].run /\ OnIt(r)'
    BY <2>1, <2>2
  <2> QED BY <2>1, <2>3
<1>5. ASSUME NEW b \in Actors, NEW i \in 1..Len(mail'[b]), mail'[b][i].kind = "Run"
      PROVE  OnIt(mail[b][i].run)' /\ entry' = b /\ Free({"Disconnect"}, cmds') /\ started'[run'.intent] = 0
  <2>1. PICK k \in 1..Len(mail[b]) : mail'[b][i] = mail[b][k]
    OBVIOUS
  <2>2. OnIt(mail[b][k].run) /\ entry = b /\ Free({"Disconnect"}, cmds) /\ started[run.intent] = 0
    BY <1>2, <1>5, <2>1
  <2>3. PICK r : r = mail[b][k].run
    OBVIOUS
  <2>4. r = mail'[b][i].run /\ OnIt(r)'
    BY <2>1, <2>2, <2>3
  <2> QED BY <2>2, <2>4
<1>6. ASSUME NEW b \in Actors, cur'[b].kind = "Run"
      PROVE  /\ OnIt(cur[b].run)' /\ entry' = b /\ Free({"Disconnect"}, cmds')
             /\ pc'[b] = "checking" => started'[run'.intent] = 0
  <2>1. PICK m : m = cur'[b]
    OBVIOUS
  <2>2. /\ OnIt(m.run) /\ entry = b /\ Free({"Disconnect"}, cmds)
        /\ pc'[b] = "checking" => started[run.intent] = 0
    BY <1>2, <1>3, <1>6, <2>1
  <2>3. PICK r : r = m.run
    OBVIOUS
  <2>4. r = cur'[b].run /\ OnIt(r)'
    BY <2>1, <2>2, <2>3
  <2> QED BY <2>2, <2>4
<1> QED BY <1>4, <1>5, <1>6 DEF WorksOnShown

-----------------------------------------------------------------------------
(* The steps of an actor                                                   *)

LEMMA OpensStep ==
  ASSUME IInv, NEW a \in Actors, Opens(a)
  PROVE  IInv'
<1>0. /\ TypeOK /\ WithinBounds /\ ActorsAsBorn /\ RunsApart /\ ToldAsEnded /\ ShownIsLast
      /\ OutcomeIsReal /\ (~overlap => Apart)
  BY DEF IInv
<1>1. /\ pc[a] = "opening" /\ pc' = [pc EXCEPT ![a] = "idle"]
      /\ events' = Append(events, Event("Connected", FALSE)) /\ named' = [named EXCEPT ![a] = FALSE]
      /\ UNCHANGED <<acts, conn, run, pending, last, follow, cmds, born, entry, asked, overlap,
                     faults, mail, cur, cancelled, flag, started, result>>
  BY DEF Opens, Goes, Emit, ActorOnly, uiVars
<1>2. /\ pc'[a] = "idle" /\ \A b \in Actors : b # a => pc'[b] = pc[b]
      /\ \A b \in Actors : Up(b)' <=> Up(b)
  BY <1>0, <1>1 DEF TypeOK, Up
<1>3. PICK e \in Events : events' = Append(events, e) /\ e.kind = "Connected"
  BY <1>1, EventFacts, ZenonT(60) DEF EventKinds, SessionEvents
<1>4. TypeOK'
  <2>1. named' \in [Actors -> BOOLEAN] /\ pc' \in [Actors -> {"unborn", "opening", "idle", "checking", "running",
                          "ending", "closing", "gone"}]
    BY <1>0, <1>1 DEF TypeOK
  <2>2. events' \in Seq(Events)
    BY <1>0, <1>3, Emitted
  <2> QED BY <1>0, <1>1, <1>2, <2>1, <2>2 DEF TypeOK
<1>5. WithinBounds'
  <2>1. /\ CountOf("ConnectionLost", events') = CountOf("ConnectionLost", events)
        /\ run.id \in Nat /\ pending \in Nat
    BY <1>0, <1>3, Emitted, TypeFacts
  <2> QED BY <1>0, <1>1, <2>1 DEF WithinBounds
<1>6. ActorsAsBorn'
  BY <1>0, <1>1, <1>2 DEF ActorsAsBorn
<1>7. RunsApart'
  BY <1>0, <1>1, <1>2, TypeFacts, RunsWithinFacts, WaitKept
<1>8. ToldAsEnded'
  <2>1. \A i \in 1..Len(events') : events'[i].kind = "RunDone" => \E k \in 1..Len(events) : events'[i] = events[k]
    BY <1>0, <1>3, Emitted
  <2>2. /\ run' = run /\ run.id \in Nat /\ result' = result /\ cur' = cur
        /\ run.state = "none" <=> run.id = 0
    BY <1>0, <1>1, TypeFacts DEF ToldAsEnded
  <2>3. run'.id \in Nat /\ run.id <= run'.id /\ (run'.state = "none" <=> run'.id = 0)
    BY <2>2
  <2>4. \A b \in Actors : cur'[b] = cur[b]
    BY <2>2
  <2> QED BY <1>0, <2>1, <2>2, <2>3, <2>4, ToldKept
<1>9. ShownIsLast' /\ OutcomeIsReal'
  BY <1>0, <1>1 DEF ShownIsLast, OutcomeIsReal, IsLive
<1>10. ASSUME ~overlap PROVE Apart'
  <2>0. OneSession /\ NewsInOrder /\ WorksOnShown /\ CancelIsMeant /\ ExecutesOnce /\ LiveIsUnderWay
    BY <1>0, <1>10 DEF Apart
  <2>1. /\ Up(a) /\ (\A b \in Actors : Up(b) => b = a) /\ Free({"Connect"}, cmds)
        /\ Free({"ConnectionLost"}, events) /\ ~NoneUp
    BY <1>0, <1>1, <2>0, SingleUp DEF Up
  <2>2. ~SessionUp
    BY <1>0, <1>1, <2>1, EntryFacts DEF SessionUp
  <2>3. conn # "Connected" /\ Free({"Connected", "Reconnected"}, events)
    BY <1>1, <2>0 DEF NewsInOrder, Waiting
  <2>4. /\ \A i \in 1..Len(cmds) : cmds[i].kind = "Run" => ~Heard(i)
        /\ \A b \in Actors : cur[b].kind # "Run" /\ \A i \in 1..Len(mail[b]) : mail[b][i].kind # "Run"
    BY <2>0, <2>2 DEF WorksOnShown, OnIt
  <2>5. \A i : Heard(i)' <=> Heard(i)
    BY <1>0, <1>1, <1>2, EntryFacts DEF Heard
  <2>6. OneSession'
    <3>1. Free({"ConnectionLost"}, events')
      BY <1>0, <1>3, <2>1, Emitted
    <3>2. entry # a => \E i \in 1..Len(mail'[a]) : mail'[a][i].kind = "Close"
      BY <1>1, <2>0, <2>1 DEF OneSession
    <3> QED BY <1>0, <1>1, <1>2, <2>0, <2>1, <3>1, <3>2, OneSessionKept
  <2>7. NewsInOrder'
    <3>1. ~Waiting' /\ ~NoneUp'
      BY <1>1, <1>2, <2>1 DEF Waiting, NoneUp, Up
    <3>2. /\ Followed(SessionEnds \cup {"NotConnected"}, {"Connected"}, events') /\ OpenedFirst(events')
          /\ ~Free({"Connected"}, events')
      BY <1>0, <1>3, <2>3, Emitted DEF SessionEnds
    <3> QED BY <1>1, <2>3, <3>1, <3>2 DEF NewsInOrder
  <2>8. WorksOnShown'
    BY <1>1, <2>4, <2>5 DEF WorksOnShown
  <2>9. CancelIsMeant'
    BY <1>1, <1>2, <2>0, <2>5 DEF CancelIsMeant, InHand, Ahead
  <2>10. ExecutesOnce'
    <3>1. \A i \in 1..Len(events') : events'[i].kind # "ConnectionLost"
      BY <1>0, <1>3, <2>1, Emitted DEF Free
    <3> QED BY <1>1, <2>0, <3>1 DEF ExecutesOnce
  <2>11. LiveIsUnderWay'
    <3>1. \A i \in 1..Len(events) : i \in 1..Len(events') /\ events'[i] = events[i]
      BY <1>0, <1>3, Emitted
    <3> QED BY <1>1, <2>0, <3>1 DEF LiveIsUnderWay, IsLive, IsRunFor
  <2> QED BY <2>6, <2>7, <2>8, <2>9, <2>10, <2>11 DEF Apart
<1> QED BY <1>1, <1>4, <1>5, <1>6, <1>7, <1>8, <1>9, <1>10 DEF IInv

\* An actor that returns tells so, and whatever it had is gone.
LEMMA ReturnStep ==
  ASSUME IInv, NEW a \in Actors, Up(a), Returns(a), ActorOnly, UNCHANGED <<started, result>>,
         NEW e \in Events, events' = Append(events, e), e.kind \in SessionEnds,
         faults' \in 0..MaxFaults, faults <= faults',
         e.kind = "ConnectionLost" =>
            faults' = faults + 1 /\ pc[a] = "checking" /\ (e.arg => cur[a].kind = "Run"),
         e.kind = "ConnectFailed" => pc[a] = "opening"
  PROVE  IInv'
<1>0. /\ TypeOK /\ WithinBounds /\ ActorsAsBorn /\ RunsApart /\ ToldAsEnded /\ ShownIsLast
      /\ OutcomeIsReal /\ (~overlap => Apart)
  BY DEF IInv
<1>1. /\ pc' = [pc EXCEPT ![a] = "gone"] /\ mail' = [mail EXCEPT ![a] = <<>>]
      /\ cur' = [cur EXCEPT ![a] = TabMsg("None")] /\ named' = [named EXCEPT ![a] = FALSE]
      /\ cancelled' = [cancelled EXCEPT ![a] = FALSE] /\ flag' = [flag EXCEPT ![a] = FALSE]
      /\ UNCHANGED <<acts, conn, run, pending, last, follow, cmds, born, entry, asked, overlap,
                     started, result>>
  BY DEF Returns, Goes, ActorOnly, uiVars
<1>2. /\ pc'[a] = "gone" /\ mail'[a] = <<>> /\ cur'[a].kind = "None"
      /\ \A b \in Actors : b # a => pc'[b] = pc[b] /\ mail'[b] = mail[b] /\ cur'[b] = cur[b]
      /\ ~Up(a)' /\ \A b \in Actors : b # a => (Up(b)' <=> Up(b))
  BY <1>0, <1>1, MsgFacts DEF TypeOK, Up
<1>3. TypeOK'
  <2>1. /\ pc' \in [Actors -> {"unborn", "opening", "idle", "checking", "running",
                               "ending", "closing", "gone"}]
        /\ mail' \in [Actors -> Seq(Msgs)] /\ cur' \in [Actors -> Msgs]
    BY <1>0, <1>1, MsgFacts DEF TypeOK
  <2>2. /\ named' \in [Actors -> BOOLEAN] /\ cancelled' \in [Actors -> BOOLEAN] /\ flag' \in [Actors -> BOOLEAN]
    BY <1>0, <1>1 DEF TypeOK
  <2>3. \A b \in Actors : ~Up(b)' => mail'[b] = <<>>
    BY <1>0, <1>2 DEF TypeOK
  <2>4. events' \in Seq(Events)
    BY <1>0, Emitted
  <2> QED BY <1>0, <1>1, <2>1, <2>2, <2>3, <2>4 DEF TypeOK
<1>4. WithinBounds'
  <2>1. /\ CountOf("ConnectionLost", events) \in Nat
        /\ CountOf("ConnectionLost", events')
              = CountOf("ConnectionLost", events) + (IF e.kind = "ConnectionLost" THEN 1 ELSE 0)
        /\ run.id \in Nat /\ pending \in Nat /\ acts \in Nat /\ faults \in Nat
    BY <1>0, Emitted, TypeFacts
  <2>2. faults' \in Nat
    BY Bounds
  <2> QED BY <1>0, <1>1, <2>1, <2>2 DEF WithinBounds
<1>5. ActorsAsBorn'
  <2>1. pc[a] # "unborn"
    BY DEF Up
  <2> QED BY <1>0, <1>1, <1>2, <2>1 DEF ActorsAsBorn
<1>6. RunsApart'
  <2>1. RunsWithin(cmds', cmds) /\ \A b \in Actors : RunsWithin(mail'[b], mail[b])
    BY <1>0, <1>1, <1>2, TypeFacts, RunsWithinFacts
  <2>2. run' = run /\ result' = result /\ run.id \in Nat
    BY <1>0, <1>1, TypeFacts
  <2>3. run'.id \in Nat /\ run.id <= run'.id
    BY <2>2
  <2>4. \A b \in Actors :
           /\ cur'[b] = cur[b] \/ cur'[b].kind # "Run"
           /\ pc'[b] \in {"checking", "running"} /\ cur'[b].kind = "Run" => pc[b] \in {"checking", "running"}
           /\ pc'[b] = "ending" => pc[b] = "ending" /\ cur'[b] = cur[b]
    BY <1>2
  <2> QED BY <1>0, <2>1, <2>2, <2>3, <2>4, WaitKept
<1>7. ToldAsEnded'
  <2>1. \A i \in 1..Len(events') : events'[i].kind = "RunDone" => \E k \in 1..Len(events) : events'[i] = events[k]
    BY <1>0, Emitted DEF SessionEnds
  <2>2. /\ run' = run /\ run.id \in Nat /\ result' = result
        /\ run.state = "none" <=> run.id = 0
    BY <1>0, <1>1, TypeFacts DEF ToldAsEnded
  <2>3. run'.id \in Nat /\ run.id <= run'.id /\ (run'.state = "none" <=> run'.id = 0)
    BY <2>2
  <2>4. \A b \in Actors : cur'[b] = cur[b] \/ cur'[b].kind # "Run"
    BY <1>2
  <2> QED BY <1>0, <2>1, <2>2, <2>3, <2>4, ToldKept
<1>8. ShownIsLast' /\ OutcomeIsReal'
  BY <1>0, <1>1 DEF ShownIsLast, OutcomeIsReal, IsLive
<1>9. ASSUME ~overlap PROVE Apart'
  <2>0. OneSession /\ NewsInOrder /\ WorksOnShown /\ CancelIsMeant /\ ExecutesOnce /\ LiveIsUnderWay
    BY <1>0, <1>9 DEF Apart
  <2>1. /\ \A b \in Actors : Up(b) => b = a
        /\ Free({"Connect"}, cmds) /\ Free({"ConnectionLost"}, events)
    BY <1>0, <2>0, SingleUp
  <2>2. \A b \in Actors : ~Up(b)' /\ mail'[b] = <<>> /\ cur'[b].kind = "None"
    <3>1. \A b \in Actors : b # a => ~Up(b) /\ mail[b] = <<>> /\ cur[b].kind = "None"
      BY <1>0, <2>1 DEF TypeOK, ActorsAsBorn, Up
    <3>2. \A b \in Actors : b # a => ~Up(b)' /\ mail'[b] = <<>> /\ cur'[b].kind = "None"
      BY <1>2, <3>1
    <3> QED BY <1>2, <3>2
  <2>3. \A i : ~Heard(i)'
    BY <1>0, <1>1, <2>2, EntryFacts DEF Heard
  <2>4. /\ \A i \in 1..Len(events') : \/ i \in 1..Len(events) /\ events'[i] = events[i]
                                      \/ i = Len(events) + 1 /\ events'[i] = e
        /\ \A i \in 1..Len(events) : i \in 1..Len(events') /\ events'[i] = events[i]
        /\ Len(events) + 1 \in 1..Len(events') /\ events'[Len(events) + 1] = e
    BY <1>0, Emitted
  <2>5. NoneUp' /\ ~SessionUp' /\ ~Waiting'
    <3>1. NoneUp' /\ ~SessionUp'
      BY <1>0, <1>1, <2>2, EntryFacts DEF NoneUp, SessionUp
    <3>2. \A b \in Actors : pc'[b] # "opening"
      BY <2>2 DEF Up
    <3> QED BY <1>1, <2>1, <3>1, <3>2 DEF Waiting
  <2>6. OneSession'
    BY <1>1, <2>1, <2>2, <2>5 DEF OneSession, Free
  <2>7. NewsInOrder'
    <3>1. Followed({"Connected", "Reconnected"}, SessionEnds, events')
      BY <1>0, Emitted DEF SessionEnds
    <3>2. ~Free(SessionEnds, events')
      BY <2>4 DEF Free
    <3> QED BY <2>5, <3>1, <3>2 DEF NewsInOrder
  <2>8. WorksOnShown'
    <3>1. \A b \in Actors : 1..Len(mail'[b]) = {}
      BY <2>2
    <3> QED BY <2>2, <2>3, <3>1 DEF WorksOnShown
  <2>9. CancelIsMeant'
    <3>1. \A b \in Actors : 1..Len(mail'[b]) = {} /\ pc'[b] \notin {"running", "ending"}
      BY <2>2 DEF Up
    <3>2. ~InHand' /\ ~Ahead'
      BY <2>2, <3>1 DEF InHand, Ahead
    <3> QED BY <2>3, <3>1, <3>2 DEF CancelIsMeant
  <2>10. ExecutesOnce'
    <3>1. ASSUME IsLive(run)', NEW i \in 1..Len(events'), events'[i].kind = "ConnectionLost", events'[i].arg
          PROVE  started'[last'] = 0
      <4>1. events'[i] = e
        BY <2>1, <2>4, <3>1 DEF Free
      <4>2. pc[a] = "checking" /\ cur[a].kind = "Run"
        BY <3>1, <4>1
      <4>3. OnIt(cur[a].run) /\ started[run.intent] = 0
        BY <2>0, <4>2 DEF WorksOnShown
      <4>4. run.intent = last
        BY <1>0, <1>1, <3>1 DEF ShownIsLast, IsLive
      <4> QED BY <1>1, <4>3, <4>4
    <3> QED BY <1>1, <2>0, <3>1 DEF ExecutesOnce
  <2>11. LiveIsUnderWay'
    <3>1. CASE e.kind \in {"Disconnected", "ConnectionLost"}
      BY <2>4, <3>1 DEF LiveIsUnderWay
    <3>2. CASE e.kind = "ConnectFailed"
      <4>1. ~SessionUp
        BY <1>0, <2>1, <3>2, EntryFacts DEF SessionUp
      <4>2. \A b \in Actors : cur[b].kind # "Run" /\ \A i \in 1..Len(mail[b]) : mail[b][i].kind # "Run"
        BY <2>0, <4>1 DEF WorksOnShown, OnIt
      <4> QED BY <1>1, <2>0, <2>4, <4>2 DEF LiveIsUnderWay, IsLive, IsRunFor
    <3> QED BY <3>1, <3>2 DEF SessionEnds
  <2> QED BY <2>6, <2>7, <2>8, <2>9, <2>10, <2>11 DEF Apart
<1> QED BY <1>1, <1>3, <1>4, <1>5, <1>6, <1>7, <1>8, <1>9 DEF IInv

LEMMA OpenFailsStep ==
  ASSUME IInv, NEW a \in Actors, OpenFails(a)
  PROVE  IInv'
<1>0. TypeOK
  BY DEF IInv
<1>1. /\ pc[a] = "opening" /\ Returns(a) /\ ActorOnly /\ UNCHANGED <<started, result>>
      /\ \/ events' = Append(events, Event("ConnectFailed", FALSE)) /\ faults' = faults
         \/ faults < MaxFaults /\ faults' = faults + 1 /\ events' = Append(events, Event("ConnectFailed", TRUE))
  BY DEF OpenFails, Emit
<1>2. PICK e \in Events : events' = Append(events, e) /\ e.kind = "ConnectFailed"
  BY <1>1, EventFacts, ZenonT(60) DEF EventKinds, SessionEvents, SessionEnds
<1>3. faults' \in 0..MaxFaults /\ faults <= faults'
  <2>1. faults' = faults \/ (faults < MaxFaults /\ faults' = faults + 1)
    BY <1>1
  <2>2. faults \in 0..MaxFaults /\ MaxFaults \in Nat
    BY <1>0, Bounds DEF TypeOK
  <2> QED BY <2>1, <2>2
<1>4. Up(a)
  BY <1>1 DEF Up
<1> QED BY <1>1, <1>2, <1>3, <1>4, ReturnStep DEF SessionEnds

LEMMA LostStep ==
  ASSUME IInv, NEW a \in Actors, Lost(a)
  PROVE  IInv'
<1>0. TypeOK
  BY DEF IInv
<1>1. /\ pc[a] = "checking" /\ Returns(a) /\ ActorOnly /\ UNCHANGED <<started, result>>
      /\ faults < MaxFaults /\ faults' = faults + 1
      /\ events' = Append(events, Event("ConnectionLost", cur[a].kind = "Run"))
  BY DEF Lost, Emit
<1>2. PICK e \in Events : /\ events' = Append(events, e) /\ e.kind = "ConnectionLost"
                          /\ e.arg => cur[a].kind = "Run"
  <2>1. CASE cur[a].kind = "Run"
    <3>1. events' = Append(events, Event("ConnectionLost", TRUE))
      BY <1>1, <2>1
    <3> QED BY <2>1, <3>1, EventFacts DEF EventKinds, SessionEvents, SessionEnds
  <2>2. CASE cur[a].kind # "Run"
    <3>1. events' = Append(events, Event("ConnectionLost", FALSE))
      BY <1>1, <2>2
    <3>2. /\ Event("ConnectionLost", FALSE) \in Events
          /\ Event("ConnectionLost", FALSE).kind = "ConnectionLost"
      BY EventFacts DEF EventKinds, SessionEvents, SessionEnds
    <3>3. Event("ConnectionLost", FALSE).arg = FALSE
      BY EventFacts
    <3> QED BY <3>1, <3>2, <3>3, Zenon
  <2> QED BY <2>1, <2>2
<1>3. faults' \in 0..MaxFaults /\ faults <= faults'
  BY <1>0, <1>1, Bounds DEF TypeOK
<1>4. Up(a)
  BY <1>1 DEF Up
<1> QED BY <1>1, <1>2, <1>3, <1>4, ReturnStep DEF SessionEnds

LEMMA ClosedStep ==
  ASSUME IInv, NEW a \in Actors, Closed(a)
  PROVE  IInv'
<1>0. TypeOK
  BY DEF IInv
<1>1. /\ pc[a] = "closing" /\ Returns(a) /\ ActorOnly /\ UNCHANGED <<started, result>> /\ faults' = faults
      /\ events' = Append(events, Event("Disconnected", FALSE))
  BY DEF Closed, Emit
<1>2. PICK e \in Events : events' = Append(events, e) /\ e.kind = "Disconnected"
  BY <1>1, EventFacts, ZenonT(60) DEF EventKinds, SessionEvents, SessionEnds
<1>3. faults' \in 0..MaxFaults /\ faults <= faults'
  BY <1>0, <1>1, Bounds DEF TypeOK
<1>4. Up(a)
  BY <1>1 DEF Up
<1> QED BY <1>1, <1>2, <1>3, <1>4, ReturnStep DEF SessionEnds

\* What Recv takes.
LEMMA MailTaken ==
  ASSUME TypeOK, NEW a \in Actors, Recv(a), Ready(a), NEW msg, msg = NextMsg(a)
  PROVE  /\ mail' \in [Actors -> Seq(Msgs)] /\ msg \in Msgs
         /\ \A b \in Actors : b # a => mail'[b] = mail[b]
         /\ mail[a] = <<>> => mail' = mail /\ msg.kind = "None" /\ entry # a
         /\ mail[a] # <<>> => /\ mail' = [mail EXCEPT ![a] = Tail(@)] /\ mail'[a] = Tail(mail[a])
                              /\ msg = mail[a][1] /\ 1 \in 1..Len(mail[a])
         /\ \A i \in 1..Len(mail'[a]) : mail'[a][i] = mail[a][i + 1] /\ i + 1 \in 1..Len(mail[a]) /\ 1 < i + 1
         /\ \A k \in 1..Len(mail[a]) : \/ k = 1 /\ mail[a][k] = msg
                                       \/ \E i \in 1..Len(mail'[a]) : mail'[a][i] = mail[a][k]
         /\ \A b \in Actors : RunsWithin(mail'[b], mail[b])
<1>1. mail[a] \in Seq(Msgs) /\ mail' = [mail EXCEPT ![a] = IF @ = <<>> THEN @ ELSE Tail(@)]
  BY DEF Recv, TypeOK
<1>2. /\ \A b \in Actors : b # a => mail'[b] = mail[b]
      /\ mail'[a] = IF mail[a] = <<>> THEN mail[a] ELSE Tail(mail[a])
  BY <1>1 DEF TypeOK
<1>3. CASE mail[a] = <<>>
  <2>1. mail' = mail
    BY <1>1, <1>3 DEF TypeOK
  <2>2. msg = TabMsg("None") /\ entry # a
    BY <1>3 DEF NextMsg, Ready
  <2>3. mail' \in [Actors -> Seq(Msgs)]
    BY <2>1 DEF TypeOK
  <2>4. \A i \in 1..Len(mail[a]) : FALSE
    BY <1>3
  <2>5. \A b \in Actors : RunsWithin(mail'[b], mail[b])
    BY <2>1, TypeFacts, RunsWithinFacts
  <2> QED BY <1>3, <2>1, <2>2, <2>3, <2>4, <2>5, MsgFacts
<1>4. CASE mail[a] # <<>>
  <2>1. /\ mail' = [mail EXCEPT ![a] = Tail(@)] /\ mail'[a] = Tail(mail[a])
    BY <1>1, <1>2, <1>4 DEF TypeOK
  <2>2. /\ Head(mail[a]) = mail[a][1] /\ mail[a][1] \in Msgs /\ Len(mail[a]) \in Nat \ {0}
        /\ mail'[a] \in Seq(Msgs)
        /\ \A i \in 1..Len(mail'[a]) : mail'[a][i] = mail[a][i + 1] /\ i + 1 \in 1..Len(mail[a])
        /\ \A k \in 1..Len(mail[a]) : k = 1 \/ \E i \in 1..Len(mail'[a]) : k = i + 1 /\ mail'[a][i] = mail[a][k]
    <3>1. mail[a] \in Seq(Msgs) /\ mail'[a] = Tail(mail[a])
      BY <1>1, <2>1
    <3> QED BY <1>4, <3>1, TailOf
  <2>3. msg = mail[a][1] /\ 1 \in 1..Len(mail[a])
    BY <1>4, <2>2 DEF NextMsg
  <2>4. mail' \in [Actors -> Seq(Msgs)]
    BY <2>1, <2>2 DEF TypeOK
  <2>5. \A i \in 1..Len(mail'[a]) : 1 < i + 1
    OBVIOUS
  <2>6. \A b \in Actors : RunsWithin(mail'[b], mail[b])
    BY <1>1, <1>2, <1>4, <2>1, TypeFacts, RunsWithinFacts
  <2>7. \A k \in 1..Len(mail[a]) : \/ k = 1 /\ mail[a][k] = msg
                                   \/ \E i \in 1..Len(mail'[a]) : mail'[a][i] = mail[a][k]
    BY <2>2, <2>3
  <2> QED BY <1>2, <1>4, <2>1, <2>2, <2>3, <2>4, <2>5, <2>6, <2>7
<1> QED BY <1>3, <1>4

\* ... and what it leaves where it was.
LEMMA MailLeft ==
  ASSUME TypeOK, NEW a \in Actors, Recv(a), Ready(a), NEW msg, msg = NextMsg(a)
  PROVE  /\ \A b \in Actors : \A i \in 1..Len(mail'[b]) : \E k \in 1..Len(mail[b]) : mail'[b][i] = mail[b][k]
         /\ \A b \in Actors : \A k \in 1..Len(mail[b]) : \/ b = a /\ mail[b][k] = msg
                                                        \/ \E i \in 1..Len(mail'[b]) : mail'[b][i] = mail[b][k]
<1>1. \A b \in Actors : b # a => mail'[b] = mail[b]
  BY MailTaken
<1>2. /\ \A i \in 1..Len(mail'[a]) : mail'[a][i] = mail[a][i + 1] /\ i + 1 \in 1..Len(mail[a])
      /\ \A k \in 1..Len(mail[a]) : \/ k = 1 /\ mail[a][k] = msg
                                    \/ \E i \in 1..Len(mail'[a]) : mail'[a][i] = mail[a][k]
  BY MailTaken
<1>3. ASSUME NEW b \in Actors
      PROVE  /\ \A i \in 1..Len(mail'[b]) : \E k \in 1..Len(mail[b]) : mail'[b][i] = mail[b][k]
             /\ \A k \in 1..Len(mail[b]) : \/ b = a /\ mail[b][k] = msg
                                           \/ \E i \in 1..Len(mail'[b]) : mail'[b][i] = mail[b][k]
  <2>1. CASE b = a
    BY <1>2, <2>1
  <2>2. CASE b # a
    BY <1>1, <2>2
  <2> QED BY <2>1, <2>2
<1> QED BY <1>3

\* An idle actor that is told to close, or whose sender is gone, or that is told
\* to cancel although nothing runs.
LEMMA TakeIdleStep ==
  ASSUME IInv, NEW a \in Actors, Take(a), NextMsg(a).kind \in {"Close", "None", "Cancel"}
  PROVE  IInv'
<1>0. /\ TypeOK /\ WithinBounds /\ ActorsAsBorn /\ RunsApart /\ ToldAsEnded /\ ShownIsLast
      /\ OutcomeIsReal /\ (~overlap => Apart)
  BY DEF IInv
<1> DEFINE msg == NextMsg(a)
<1>1. /\ pc[a] = "idle" /\ Ready(a) /\ Recv(a) /\ cur' = cur
      /\ UNCHANGED <<acts, conn, run, pending, last, follow, cmds, born, entry, asked, overlap,
                     faults, events, named, cancelled, flag, started, result>>
      /\ msg.kind \in {"Close", "None"} => pc' = [pc EXCEPT ![a] = "closing"]
      /\ msg.kind = "Cancel" => pc' = pc
  BY DEF Take, Goes, ActorOnly, uiVars
<1>2. /\ mail' \in [Actors -> Seq(Msgs)]
      /\ \A b \in Actors : b # a => mail'[b] = mail[b]
      /\ mail[a] = <<>> => msg.kind = "None" /\ entry # a
      /\ mail[a] # <<>> => msg = mail[a][1] /\ 1 \in 1..Len(mail[a])
      /\ \A i \in 1..Len(mail'[a]) : mail'[a][i] = mail[a][i + 1] /\ i + 1 \in 1..Len(mail[a]) /\ 1 < i + 1
      /\ \A k \in 1..Len(mail[a]) : \/ k = 1 /\ mail[a][k] = msg
                                    \/ \E i \in 1..Len(mail'[a]) : mail'[a][i] = mail[a][k]
      /\ \A b \in Actors : RunsWithin(mail'[b], mail[b])
  BY <1>0, <1>1, MailTaken
<1>m. /\ \A b \in Actors : \A i \in 1..Len(mail'[b]) : \E k \in 1..Len(mail[b]) : mail'[b][i] = mail[b][k]
      /\ \A b \in Actors : \A k \in 1..Len(mail[b]) : \/ b = a /\ mail[b][k] = msg
                                                     \/ \E i \in 1..Len(mail'[b]) : mail'[b][i] = mail[b][k]
  <2>1. TypeOK /\ Recv(a) /\ Ready(a)
    BY <1>0, <1>1
  <2> QED BY <2>1, MailLeft
<1>3. /\ msg.kind \in {"Close", "None", "Cancel"}
      /\ msg.kind \in {"Close", "None"} => entry # a
  <2>1. msg.kind = "Close" => entry # a
    BY <1>0, <1>2 DEF ActorsAsBorn
  <2>2. msg.kind = "None" => entry # a
    BY <1>0, <1>2 DEF ActorsAsBorn
  <2> QED BY <2>1, <2>2
<1> HIDE DEF msg
<1>4. /\ pc'[a] \in {"idle", "closing"} /\ \A b \in Actors : b # a => pc'[b] = pc[b]
      /\ pc'[a] = "closing" <=> msg.kind \in {"Close", "None"}
      /\ \A b \in Actors : Up(b)' <=> Up(b)
  BY <1>0, <1>1, <1>3 DEF TypeOK, Up
<1>5. TypeOK'
  <2>1. /\ pc' \in [Actors -> {"unborn", "opening", "idle", "checking", "running",
                               "ending", "closing", "gone"}]
    BY <1>0, <1>1, <1>3 DEF TypeOK
  <2>2. \A b \in Actors : ~Up(b)' => mail'[b] = <<>>
    BY <1>0, <1>1, <1>2, <1>4 DEF TypeOK, Up
  <2> QED BY <1>0, <1>1, <1>2, <2>1, <2>2 DEF TypeOK
<1>6. WithinBounds' /\ ShownIsLast' /\ OutcomeIsReal'
  BY <1>0, <1>1 DEF WithinBounds, ShownIsLast, OutcomeIsReal, IsLive
<1>7. ActorsAsBorn'
  <2>1. /\ entry \in {0, born}
        /\ \A b \in Actors :
              /\ pc[b] = "unborn" <=> b > born
              /\ pc[b] = "checking" => cur[b].kind \in {"Run", "Use"}
              /\ pc[b] \in {"running", "ending"} => cur[b].kind = "Run"
              /\ pc[b] \notin {"checking", "running", "ending"} => cur[b].kind = "None"
    BY <1>0 DEF ActorsAsBorn
  <2>2. \A b \in Actors : \A i \in 1..Len(mail'[b]) :
           mail'[b][i].kind # "None" /\ (mail'[b][i].kind = "Close" => entry # b)
    <3>1. \A b \in Actors : \A i \in 1..Len(mail[b]) :
             mail[b][i].kind # "None" /\ (mail[b][i].kind = "Close" => entry # b)
      BY <1>0 DEF ActorsAsBorn
    <3>2. ASSUME NEW b \in Actors, NEW i \in 1..Len(mail'[b])
          PROVE  mail'[b][i].kind # "None" /\ (mail'[b][i].kind = "Close" => entry # b)
      <4>1. PICK k \in 1..Len(mail[b]) : mail'[b][i] = mail[b][k]
        BY <1>m, <3>2
      <4> QED BY <3>1, <4>1
    <3> QED BY <3>2
  <2> QED BY <1>1, <1>4, <2>1, <2>2 DEF ActorsAsBorn
<1>8. RunsApart'
  <2>1. RunsWithin(cmds', cmds)
    BY <1>0, <1>1, TypeFacts, RunsWithinFacts
  <2>2. run' = run /\ result' = result /\ run.id \in Nat
    BY <1>0, <1>1, TypeFacts
  <2>3. run'.id \in Nat /\ run.id <= run'.id
    BY <2>2
  <2>4. \A b \in Actors :
           /\ cur'[b] = cur[b] \/ cur'[b].kind # "Run"
           /\ pc'[b] \in {"checking", "running"} /\ cur'[b].kind = "Run" => pc[b] \in {"checking", "running"}
           /\ pc'[b] = "ending" => pc[b] = "ending" /\ cur'[b] = cur[b]
    BY <1>1, <1>4
  <2> QED BY <1>0, <1>2, <2>1, <2>2, <2>3, <2>4, WaitKept
<1>9. ToldAsEnded'
  BY <1>0, <1>1 DEF ToldAsEnded
<1>10. ASSUME ~overlap PROVE Apart'
  <2>0. OneSession /\ NewsInOrder /\ WorksOnShown /\ CancelIsMeant /\ ExecutesOnce /\ LiveIsUnderWay
    BY <1>0, <1>10 DEF Apart
  <2>1. /\ Up(a) /\ (\A b \in Actors : Up(b) => b = a) /\ Free({"Connect"}, cmds)
        /\ Free({"ConnectionLost"}, events) /\ ~NoneUp
    BY <1>0, <1>1, <2>0, SingleUp DEF Up
  <2>2. /\ ~NoneUp' /\ (SessionUp' <=> SessionUp) /\ (Waiting' <=> Waiting)
    <3>1. ~NoneUp'
      BY <1>4, <2>1 DEF NoneUp
    <3>2. SessionUp' <=> SessionUp
      BY <1>0, <1>1, <1>4, <2>1, EntryFacts DEF SessionUp
    <3>3. Waiting' <=> Waiting
      BY <1>1, <1>4 DEF Waiting
    <3> QED BY <3>1, <3>2, <3>3
  <2>3. \A i : Heard(i)' <=> Heard(i)
    BY <1>0, <1>1, <1>4, EntryFacts DEF Heard
  <2>4. \A r : OnIt(r)' <=> OnIt(r)
    BY <1>1, <2>2 DEF OnIt, IsLive
  <2>5. OneSession'
    <3>1. entry # a => pc'[a] = "closing" \/ \E i \in 1..Len(mail'[a]) : mail'[a][i].kind = "Close"
      <4> SUFFICES ASSUME entry # a, pc'[a] # "closing"
                   PROVE  \E i \in 1..Len(mail'[a]) : mail'[a][i].kind = "Close"
        OBVIOUS
      <4>1. PICK k \in 1..Len(mail[a]) : mail[a][k].kind = "Close"
        BY <1>1, <2>0, <2>1 DEF OneSession
      <4>2. mail[a][k] # msg
        BY <1>4, <4>1
      <4>3. PICK i \in 1..Len(mail'[a]) : mail'[a][i] = mail[a][k]
        BY <1>m, <4>2
      <4> QED BY <4>1, <4>3
    <3> QED BY <1>0, <1>1, <1>4, <2>0, <2>1, <3>1, OneSessionKept
  <2>6. NewsInOrder'
    BY <1>1, <2>0, <2>2 DEF NewsInOrder
  <2>7. \A b \in Actors : \A i \in 1..Len(mail'[b]) : \E k \in 1..Len(mail[b]) : mail'[b][i] = mail[b][k]
    BY <1>m
  <2>8. WorksOnShown'
    <3>1. \A b \in Actors : cur'[b].kind = "Run" => cur'[b] = cur[b] /\ (pc'[b] = "checking" => pc[b] = "checking")
      BY <1>1, <1>4
    <3> QED BY <1>1, <2>0, <2>3, <2>4, <2>7, <3>1, WorksKept
  <2>9. CancelIsMeant'
    <3>1. (InHand' <=> InHand) /\ (~Ahead => ~Ahead')
      BY <1>1, <2>7 DEF InHand, Ahead
    <3>2. \A i \in 1..Len(cmds') : cmds'[i].kind = "Cancel"
             => \/ run'.id \in asked'
                \/ ~InHand' /\ ~Ahead' /\ \A j \in 1..i - 1 : cmds'[j].kind = "Run" => ~Heard(j)'
      BY <1>1, <2>0, <2>3, <3>1 DEF CancelIsMeant
    <3>3. \A i \in 1..Len(mail'[a]) : mail'[a][i].kind = "Cancel"
             => \/ run'.id \in asked'
                \/ ~InHand' /\ \A j \in 1..i - 1 : mail'[a][j].kind # "Run"
      <4> SUFFICES ASSUME NEW i \in 1..Len(mail'[a]), mail'[a][i].kind = "Cancel", run.id \notin asked
                   PROVE  ~InHand /\ \A j \in 1..i - 1 : mail'[a][j].kind # "Run"
        BY <1>1, <3>1
      <4>1. mail'[a][i] = mail[a][i + 1] /\ i + 1 \in 1..Len(mail[a])
        BY <1>2
      <4>2. ~InHand /\ \A j \in 1..(i + 1) - 1 : mail[a][j].kind # "Run"
        BY <2>0, <4>1 DEF CancelIsMeant
      <4>3. Len(mail'[a]) \in Nat
        BY <1>2
      <4>4. \A j \in 1..i - 1 : j \in 1..Len(mail'[a]) /\ j + 1 \in 1..(i + 1) - 1
        BY <4>3
      <4>5. \A j \in 1..Len(mail'[a]) : mail'[a][j] = mail[a][j + 1]
        BY <1>2
      <4> QED BY <4>2, <4>4, <4>5
    <3>4. \A b \in Actors : pc'[b] \in {"running", "ending"} /\ (cancelled'[b] \/ flag'[b]) => run'.id \in asked'
      BY <1>1, <1>4, <2>0 DEF CancelIsMeant
    <3>5. \A b \in Actors : \A i \in 1..Len(mail'[b]) : mail'[b][i].kind = "Cancel"
             => \/ run'.id \in asked'
                \/ ~InHand' /\ \A j \in 1..i - 1 : mail'[b][j].kind # "Run"
      <4>1. \A b \in Actors : \A i \in 1..Len(mail[b]) : mail[b][i].kind = "Cancel"
               => \/ run.id \in asked
                  \/ ~InHand /\ \A j \in 1..i - 1 : mail[b][j].kind # "Run"
        BY <2>0 DEF CancelIsMeant
      <4>2. \A b \in Actors : b # a => mail'[b] = mail[b]
        BY <1>2
      <4>3. ASSUME NEW b \in Actors, NEW i \in 1..Len(mail'[b]), mail'[b][i].kind = "Cancel"
            PROVE  \/ run'.id \in asked'
                   \/ ~InHand' /\ \A j \in 1..i - 1 : mail'[b][j].kind # "Run"
        <5>1. CASE b = a
          BY <3>3, <4>3, <5>1
        <5>2. CASE b # a
          BY <1>1, <3>1, <4>1, <4>2, <4>3, <5>2
        <5> QED BY <5>1, <5>2
      <4> QED BY <4>3
    <3> QED BY <3>2, <3>4, <3>5 DEF CancelIsMeant
  <2>10. ExecutesOnce'
    BY <1>1, <2>0 DEF ExecutesOnce, IsLive
  <2>11. LiveIsUnderWay'
    <3>1. \A b \in Actors : \A k \in 1..Len(mail[b]) : IsRunFor(mail[b][k], run.id)
             => \E i \in 1..Len(mail'[b]) : IsRunFor(mail'[b][i], run.id)
      <4> SUFFICES ASSUME NEW b \in Actors, NEW k \in 1..Len(mail[b]), IsRunFor(mail[b][k], run.id)
                   PROVE  \E i \in 1..Len(mail'[b]) : IsRunFor(mail'[b][i], run.id)
        OBVIOUS
      <4>1. mail[b][k].kind = "Run"
        BY DEF IsRunFor
      <4>2. mail[b][k] # msg
        BY <1>3, <4>1
      <4> QED BY <1>m, <4>2
    <3> QED BY <1>1, <2>0, <3>1 DEF LiveIsUnderWay, IsLive
  <2> QED BY <2>5, <2>6, <2>8, <2>9, <2>10, <2>11 DEF Apart
<1> QED BY <1>1, <1>5, <1>6, <1>7, <1>8, <1>9, <1>10 DEF IInv

\* An idle actor that takes up a run or a change of database.
LEMMA TakeWorkStep ==
  ASSUME IInv, NEW a \in Actors, Take(a), NextMsg(a).kind \in {"Run", "Use"}
  PROVE  IInv'
<1>0. /\ TypeOK /\ WithinBounds /\ ActorsAsBorn /\ RunsApart /\ ToldAsEnded /\ ShownIsLast
      /\ OutcomeIsReal /\ (~overlap => Apart)
  BY DEF IInv
<1> DEFINE msg == NextMsg(a)
<1>1. /\ pc[a] = "idle" /\ Ready(a) /\ Recv(a) /\ cur' = [cur EXCEPT ![a] = msg]
      /\ pc' = [pc EXCEPT ![a] = "checking"]
      /\ UNCHANGED <<acts, conn, run, pending, last, follow, cmds, born, entry, asked, overlap,
                     faults, events, named, cancelled, flag, started, result>>
  BY DEF Take, Goes, ActorOnly, uiVars
<1>2. /\ mail' \in [Actors -> Seq(Msgs)] /\ msg \in Msgs
      /\ \A b \in Actors : b # a => mail'[b] = mail[b]
      /\ mail[a] = <<>> => msg.kind = "None"
      /\ mail[a] # <<>> => /\ mail' = [mail EXCEPT ![a] = Tail(@)]
                           /\ msg = mail[a][1] /\ 1 \in 1..Len(mail[a])
      /\ \A i \in 1..Len(mail'[a]) : mail'[a][i] = mail[a][i + 1] /\ i + 1 \in 1..Len(mail[a]) /\ 1 < i + 1
      /\ \A k \in 1..Len(mail[a]) : \/ k = 1 /\ mail[a][k] = msg
                                    \/ \E i \in 1..Len(mail'[a]) : mail'[a][i] = mail[a][k]
      /\ \A b \in Actors : RunsWithin(mail'[b], mail[b])
  BY <1>0, <1>1, MailTaken
<1>m. /\ \A b \in Actors : \A i \in 1..Len(mail'[b]) : \E k \in 1..Len(mail[b]) : mail'[b][i] = mail[b][k]
      /\ \A b \in Actors : \A k \in 1..Len(mail[b]) : \/ b = a /\ mail[b][k] = msg
                                                     \/ \E i \in 1..Len(mail'[b]) : mail'[b][i] = mail[b][k]
  BY <1>0, <1>1, MailLeft, ZenonT(60)
<1>3. /\ msg.kind \in {"Run", "Use"} /\ mail[a] # <<>> /\ msg = mail[a][1] /\ 1 \in 1..Len(mail[a])
      /\ mail' = [mail EXCEPT ![a] = Tail(@)]
  BY <1>2
<1> HIDE DEF msg
<1>4. /\ pc'[a] = "checking" /\ \A b \in Actors : b # a => pc'[b] = pc[b] /\ cur'[b] = cur[b]
      /\ cur'[a] = msg /\ cur[a].kind = "None"
      /\ \A b \in Actors : Up(b)' <=> Up(b)
  <2>1. cur[a].kind = "None"
    BY <1>0, <1>1 DEF ActorsAsBorn
  <2>2. /\ pc'[a] = "checking" /\ cur'[a] = msg
        /\ \A b \in Actors : b # a => pc'[b] = pc[b] /\ cur'[b] = cur[b]
    BY <1>0, <1>1 DEF TypeOK
  <2>3. \A b \in Actors : Up(b)' <=> Up(b)
    BY <1>1, <2>2 DEF Up
  <2> QED BY <2>1, <2>2, <2>3
<1>5. TypeOK'
  <2>1. /\ pc' \in [Actors -> {"unborn", "opening", "idle", "checking", "running",
                               "ending", "closing", "gone"}]
    BY <1>0, <1>1 DEF TypeOK
  <2>2. \A b \in Actors : ~Up(b)' => mail'[b] = <<>>
    BY <1>0, <1>1, <1>2, <1>4 DEF TypeOK, Up
  <2>3. cur' \in [Actors -> Msgs]
    BY <1>0, <1>1, <1>2 DEF TypeOK
  <2> QED BY <1>0, <1>1, <1>2, <2>1, <2>2, <2>3 DEF TypeOK
<1>6. WithinBounds' /\ ShownIsLast' /\ OutcomeIsReal'
  BY <1>0, <1>1 DEF WithinBounds, ShownIsLast, OutcomeIsReal, IsLive
<1>7. ActorsAsBorn'
  BY <1>0, <1>1, <1>2, <1>3, <1>4 DEF ActorsAsBorn
<1>8. \A b \in Actors : \A i \in 1..Len(mail'[b]) : \E k \in 1..Len(mail[b]) : mail'[b][i] = mail[b][k]
  BY <1>m
<1>9. RunsApart'
  <2>1. OneOfEach(cmds, mail', cur')
    <3>1. cur' = [cur EXCEPT ![a] = mail[a][1]]
      BY <1>1, <1>3
    <3>2. OneOfEach(cmds, mail, cur) /\ cur[a].kind # "Run"
      BY <1>0, <1>4 DEF RunsApart
    <3> QED BY <1>0, <1>3, <3>1, <3>2, OneTaken
  <2>2. \A b \in Actors : \A i \in 1..Len(mail'[b]) : mail'[b][i].kind = "Run" => WaitsIn(mail'[b][i].run)
    BY <1>0, <1>8 DEF RunsApart
  <2>3. msg.kind = "Run" => WaitsIn(msg.run)
    BY <1>0, <1>3 DEF RunsApart
  <2>4. \A b \in Actors : pc'[b] \in {"checking", "running"} /\ cur'[b].kind = "Run" => WaitsIn(cur'[b].run)
    BY <1>0, <1>4, <2>3 DEF RunsApart
  <2> QED BY <1>0, <1>1, <1>4, <2>1, <2>2, <2>4 DEF RunsApart, WaitsIn
<1>10. ToldAsEnded'
  <2>1. ASSUME NEW i \in 1..Len(events), events[i].kind = "RunDone", NEW b \in Actors, cur'[b].kind = "Run"
        PROVE  cur'[b].run.id # events[i].id
    <3>1. CASE b # a
      BY <1>0, <1>4, <2>1, <3>1 DEF ToldAsEnded
    <3>2. CASE b = a
      <4>1. result[cur'[b].run.id] = "none"
        BY <1>0, <1>3, <1>4, <2>1, <3>2 DEF RunsApart, WaitsIn
      <4>2. result[events[i].id] = events[i].outcome /\ events[i].outcome \in Outcomes
        BY <1>0, <2>1, TypeFacts DEF ToldAsEnded
      <4> QED BY <4>1, <4>2 DEF Outcomes
    <3> QED BY <3>1, <3>2
  <2> QED BY <1>0, <1>1, <2>1 DEF ToldAsEnded
<1>11. ASSUME ~overlap PROVE Apart'
  <2>0. OneSession /\ NewsInOrder /\ WorksOnShown /\ CancelIsMeant /\ ExecutesOnce /\ LiveIsUnderWay
    BY <1>0, <1>11 DEF Apart
  <2>1. /\ Up(a) /\ (\A b \in Actors : Up(b) => b = a) /\ Free({"Connect"}, cmds)
        /\ Free({"ConnectionLost"}, events) /\ ~NoneUp
    BY <1>0, <1>1, <2>0, SingleUp DEF Up
  <2>2. /\ ~NoneUp' /\ (SessionUp' <=> SessionUp) /\ (Waiting' <=> Waiting)
    <3>1. ~NoneUp'
      BY <1>4, <2>1 DEF NoneUp
    <3>2. SessionUp' <=> SessionUp
      BY <1>0, <1>1, <1>4, <2>1, EntryFacts DEF SessionUp
    <3>3. Waiting' <=> Waiting
      BY <1>1, <1>4 DEF Waiting
    <3> QED BY <3>1, <3>2, <3>3
  <2>3. \A i : Heard(i)' <=> Heard(i)
    BY <1>0, <1>1, <1>4, EntryFacts DEF Heard
  <2>4. \A r : OnIt(r)' <=> OnIt(r)
    BY <1>1, <2>2 DEF OnIt, IsLive
  <2>5. OneSession'
    <3>1. entry # a => \E i \in 1..Len(mail'[a]) : mail'[a][i].kind = "Close"
      <4> SUFFICES ASSUME entry # a
                   PROVE  \E i \in 1..Len(mail'[a]) : mail'[a][i].kind = "Close"
        OBVIOUS
      <4>1. PICK k \in 1..Len(mail[a]) : mail[a][k].kind = "Close"
        BY <1>1, <2>0, <2>1 DEF OneSession
      <4>2. mail[a][k] # msg
        BY <1>3, <4>1
      <4> QED BY <1>m, <4>1, <4>2
    <3> QED BY <1>0, <1>1, <1>4, <2>0, <2>1, <3>1, OneSessionKept
  <2>6. NewsInOrder'
    BY <1>1, <2>0, <2>2 DEF NewsInOrder
  <2>7. WorksOnShown'
    <3>1. \A b \in Actors : \/ cur'[b] = cur[b] /\ (pc'[b] = "checking" => pc[b] = "checking")
                            \/ \E k \in 1..Len(mail[b]) : cur'[b] = mail[b][k]
      BY <1>3, <1>4
    <3> QED BY <1>1, <1>8, <2>0, <2>3, <2>4, <3>1, WorksKept
  <2>8. CancelIsMeant'
    <3>1. (InHand' => InHand \/ msg.kind = "Run") /\ (~Ahead => ~Ahead' /\ msg.kind # "Run")
      <4>1. ~Ahead => ~Ahead'
        BY <1>8 DEF Ahead
      <4>2. msg.kind = "Run" => Ahead
        BY <1>3 DEF Ahead
      <4>3. InHand' => InHand \/ msg.kind = "Run"
        BY <1>4 DEF InHand
      <4> QED BY <4>1, <4>2, <4>3
    <3>2. \A i \in 1..Len(cmds') : cmds'[i].kind = "Cancel"
             => \/ run'.id \in asked'
                \/ ~InHand' /\ ~Ahead' /\ \A j \in 1..i - 1 : cmds'[j].kind = "Run" => ~Heard(j)'
      BY <1>1, <2>0, <2>3, <3>1 DEF CancelIsMeant
    <3>3. \A i \in 1..Len(mail'[a]) : mail'[a][i].kind = "Cancel"
             => \/ run'.id \in asked'
                \/ ~InHand' /\ \A j \in 1..i - 1 : mail'[a][j].kind # "Run"
      <4> SUFFICES ASSUME NEW i \in 1..Len(mail'[a]), mail'[a][i].kind = "Cancel", run.id \notin asked
                   PROVE  ~InHand' /\ \A j \in 1..i - 1 : mail'[a][j].kind # "Run"
        BY <1>1
      <4>1. ~InHand /\ \A j \in 1..(i + 1) - 1 : mail[a][j].kind # "Run"
        BY <1>2, <2>0 DEF CancelIsMeant
      <4>2. \A j \in 1..i - 1 : j \in 1..Len(mail'[a]) /\ j + 1 \in 1..(i + 1) - 1
        BY <1>2
      <4>3. 1 \in 1..(i + 1) - 1
        BY <1>2
      <4>4. msg.kind # "Run"
        BY <1>3, <4>1, <4>3
      <4>5. \A j \in 1..i - 1 : mail'[a][j].kind # "Run"
        <5> SUFFICES ASSUME NEW j \in 1..i - 1 PROVE mail'[a][j].kind # "Run"
          OBVIOUS
        <5>1. j \in 1..Len(mail'[a]) /\ j + 1 \in 1..(i + 1) - 1
          BY <4>2
        <5>2. mail'[a][j] = mail[a][j + 1]
          BY <1>2, <5>1
        <5> QED BY <4>1, <5>1, <5>2
      <4>6. ~InHand'
        BY <3>1, <4>1, <4>4
      <4> QED BY <4>5, <4>6
    <3>4. \A b \in Actors : pc'[b] \in {"running", "ending"} /\ (cancelled'[b] \/ flag'[b]) => run'.id \in asked'
      BY <1>1, <1>4, <2>0 DEF CancelIsMeant
    <3>5. ASSUME NEW b \in Actors, b # a, NEW i \in 1..Len(mail'[b]) PROVE mail'[b][i].kind # "Cancel"
      <4>1. ~Up(b) /\ mail'[b] = mail[b]
        BY <1>2, <2>1, <3>5
      <4> QED BY <1>0, <4>1 DEF TypeOK
    <3> QED BY <3>2, <3>3, <3>4, <3>5 DEF CancelIsMeant
  <2>9. ExecutesOnce'
    BY <1>1, <2>0 DEF ExecutesOnce, IsLive
  <2>10. LiveIsUnderWay'
    <3>1. \A k \in 1..Len(mail[a]) : IsRunFor(mail[a][k], run.id)
             => IsRunFor(cur'[a], run.id) \/ \E i \in 1..Len(mail'[a]) : IsRunFor(mail'[a][i], run.id)
      <4> SUFFICES ASSUME NEW k \in 1..Len(mail[a]), IsRunFor(mail[a][k], run.id)
                   PROVE  IsRunFor(cur'[a], run.id) \/ \E i \in 1..Len(mail'[a]) : IsRunFor(mail'[a][i], run.id)
        OBVIOUS
      <4> QED BY <1>2, <1>4
    <3>2. \A b \in Actors : b # a => mail'[b] = mail[b] /\ cur'[b] = cur[b]
      BY <1>2, <1>4
    <3>3. ~IsRunFor(cur[a], run.id)
      BY <1>4 DEF IsRunFor
    <3> QED BY <1>1, <2>0, <3>1, <3>2, <3>3 DEF LiveIsUnderWay, IsLive
  <2> QED BY <2>5, <2>6, <2>7, <2>8, <2>9, <2>10 DEF Apart
<1> QED BY <1>1, <1>5, <1>6, <1>7, <1>9, <1>10, <1>11 DEF IInv

\* The mailbox of a run that is executed.
LEMMA TakeWhileRunningStep ==
  ASSUME IInv, NEW a \in Actors, TakeWhileRunning(a)
  PROVE  IInv'
<1>0. /\ TypeOK /\ WithinBounds /\ ActorsAsBorn /\ RunsApart /\ ToldAsEnded /\ ShownIsLast
      /\ OutcomeIsReal /\ (~overlap => Apart)
  BY DEF IInv
<1> DEFINE msg == NextMsg(a)
<1>1. /\ pc[a] = "running" /\ Ready(a) /\ Recv(a)
      /\ UNCHANGED <<acts, conn, run, pending, last, follow, cmds, born, entry, asked, overlap,
                     faults, pc, events, named, cur, started, result>>
      /\ IF msg.kind \in {"Cancel", "Close", "None"}
         THEN cancelled' = [cancelled EXCEPT ![a] = TRUE] /\ flag' = [flag EXCEPT ![a] = TRUE]
         ELSE cancelled' = cancelled /\ flag' = flag
  BY DEF TakeWhileRunning, ActorOnly, uiVars
<1>2. /\ mail' \in [Actors -> Seq(Msgs)] /\ msg \in Msgs
      /\ \A b \in Actors : b # a => mail'[b] = mail[b]
      /\ mail[a] = <<>> => msg.kind = "None" /\ entry # a
      /\ mail[a] # <<>> => msg = mail[a][1] /\ 1 \in 1..Len(mail[a])
      /\ \A i \in 1..Len(mail'[a]) : mail'[a][i] = mail[a][i + 1] /\ i + 1 \in 1..Len(mail[a]) /\ 1 < i + 1
      /\ \A k \in 1..Len(mail[a]) : \/ k = 1 /\ mail[a][k] = msg
                                    \/ \E i \in 1..Len(mail'[a]) : mail'[a][i] = mail[a][k]
      /\ \A b \in Actors : RunsWithin(mail'[b], mail[b])
  BY <1>0, <1>1, MailTaken
<1>m. /\ \A b \in Actors : \A i \in 1..Len(mail'[b]) : \E k \in 1..Len(mail[b]) : mail'[b][i] = mail[b][k]
      /\ \A b \in Actors : \A k \in 1..Len(mail[b]) : \/ b = a /\ mail[b][k] = msg
                                                     \/ \E i \in 1..Len(mail'[b]) : mail'[b][i] = mail[b][k]
  BY <1>0, <1>1, MailLeft, ZenonT(60)
<1>3. msg.kind \in {"Close", "None"} => entry # a
  BY <1>0, <1>2 DEF ActorsAsBorn
<1> HIDE DEF msg
<1>4. /\ cancelled' \in [Actors -> BOOLEAN] /\ flag' \in [Actors -> BOOLEAN]
      /\ \A b \in Actors : b # a => cancelled'[b] = cancelled[b] /\ flag'[b] = flag[b]
      /\ msg.kind \notin {"Cancel", "Close", "None"} => cancelled'[a] = cancelled[a] /\ flag'[a] = flag[a]
  BY <1>0, <1>1 DEF TypeOK
<1>5. TypeOK'
  <2>1. \A b \in Actors : ~Up(b)' => mail'[b] = <<>>
    BY <1>0, <1>1, <1>2 DEF TypeOK, Up
  <2> QED BY <1>0, <1>1, <1>2, <1>4, <2>1 DEF TypeOK
<1>6. WithinBounds' /\ ShownIsLast' /\ OutcomeIsReal'
  BY <1>0, <1>1 DEF WithinBounds, ShownIsLast, OutcomeIsReal, IsLive
<1>7. \A b \in Actors : \A i \in 1..Len(mail'[b]) : \E k \in 1..Len(mail[b]) : mail'[b][i] = mail[b][k]
  BY <1>m
<1>8. ActorsAsBorn'
  <2>1. \A b \in Actors : \A i \in 1..Len(mail'[b]) :
           mail'[b][i].kind # "None" /\ (mail'[b][i].kind = "Close" => entry # b)
    BY <1>0, <1>7 DEF ActorsAsBorn
  <2> QED BY <1>0, <1>1, <2>1 DEF ActorsAsBorn
<1>9. RunsApart'
  <2>1. RunsWithin(cmds', cmds)
    BY <1>0, <1>1, TypeFacts, RunsWithinFacts
  <2>2. run' = run /\ result' = result /\ run.id \in Nat
    BY <1>0, <1>1, TypeFacts
  <2>3. run'.id \in Nat /\ run.id <= run'.id
    BY <2>2
  <2>4. \A b \in Actors :
           /\ cur'[b] = cur[b] \/ cur'[b].kind # "Run"
           /\ pc'[b] \in {"checking", "running"} /\ cur'[b].kind = "Run" => pc[b] \in {"checking", "running"}
           /\ pc'[b] = "ending" => pc[b] = "ending" /\ cur'[b] = cur[b]
    BY <1>1
  <2> QED BY <1>0, <1>2, <2>1, <2>2, <2>3, <2>4, WaitKept
<1>10. ToldAsEnded'
  BY <1>0, <1>1 DEF ToldAsEnded
<1>11. ASSUME ~overlap PROVE Apart'
  <2>0. OneSession /\ NewsInOrder /\ WorksOnShown /\ CancelIsMeant /\ ExecutesOnce /\ LiveIsUnderWay
    BY <1>0, <1>11 DEF Apart
  <2>1. cur[a].kind = "Run" /\ OnIt(cur[a].run) /\ entry = a /\ InHand
    BY <1>0, <1>1, <2>0 DEF ActorsAsBorn, WorksOnShown, InHand
  <2>2. msg.kind = "Cancel" => run.id \in asked
    BY <1>2, <1>3, <2>0, <2>1 DEF CancelIsMeant
  <2>3. /\ NoneUp' <=> NoneUp
        /\ SessionUp' <=> SessionUp
        /\ Waiting' <=> Waiting
        /\ \A i : Heard(i)' <=> Heard(i)
        /\ \A r : OnIt(r)' <=> OnIt(r)
        /\ \A b \in Actors : Up(b)' <=> Up(b)
    BY <1>1 DEF NoneUp, SessionUp, Waiting, Heard, OnIt, Up, IsLive
  <2>4. /\ Up(a) /\ (\A b \in Actors : Up(b) => b = a) /\ Free({"Connect"}, cmds)
        /\ Free({"ConnectionLost"}, events) /\ ~NoneUp
    BY <1>0, <1>1, <2>0, SingleUp DEF Up
  <2>5. OneSession'
    <3> QED BY <1>0, <1>1, <2>0, <2>1, <2>3, <2>4, OneSessionKept
  <2>6. NewsInOrder'
    BY <1>1, <2>0, <2>3 DEF NewsInOrder
  <2>7. WorksOnShown'
    <3>1. \A b \in Actors : cur'[b] = cur[b] /\ pc'[b] = pc[b]
      BY <1>1
    <3> QED BY <1>1, <1>7, <2>0, <2>3, <3>1, WorksKept
  <2>8. CancelIsMeant'
    <3>1. (InHand' <=> InHand) /\ (~Ahead => ~Ahead')
      BY <1>1, <1>7 DEF InHand, Ahead
    <3>2. \A i \in 1..Len(cmds') : cmds'[i].kind = "Cancel"
             => \/ run'.id \in asked'
                \/ ~InHand' /\ ~Ahead' /\ \A j \in 1..i - 1 : cmds'[j].kind = "Run" => ~Heard(j)'
      BY <1>1, <2>0, <2>3, <3>1 DEF CancelIsMeant
    <3>3. \A b \in Actors : \A i \in 1..Len(mail'[b]) : mail'[b][i].kind = "Cancel" => run'.id \in asked'
      <4>1. \A b \in Actors : \A i \in 1..Len(mail[b]) : mail[b][i].kind = "Cancel" => run.id \in asked
        BY <2>0, <2>1 DEF CancelIsMeant
      <4>2. ASSUME NEW b \in Actors, NEW i \in 1..Len(mail'[b]), mail'[b][i].kind = "Cancel"
            PROVE  run.id \in asked
        <5>1. PICK k \in 1..Len(mail[b]) : mail'[b][i] = mail[b][k]
          BY <1>7
        <5> QED BY <4>1, <4>2, <5>1
      <4> QED BY <1>1, <4>2
    <3>4. \A b \in Actors : pc'[b] \in {"running", "ending"} /\ (cancelled'[b] \/ flag'[b]) => run'.id \in asked'
      <4> SUFFICES ASSUME NEW b \in Actors, pc[b] \in {"running", "ending"}, cancelled'[b] \/ flag'[b]
                   PROVE  run.id \in asked
        BY <1>1
      <4>1. CASE b # a
        BY <1>4, <2>0, <4>1 DEF CancelIsMeant
      <4>2. CASE b = a /\ msg.kind \in {"Cancel", "Close", "None"}
        BY <1>3, <2>1, <2>2, <4>2
      <4>3. CASE b = a /\ msg.kind \notin {"Cancel", "Close", "None"}
        BY <1>4, <2>0, <4>3 DEF CancelIsMeant
      <4> QED BY <4>1, <4>2, <4>3
    <3> QED BY <3>2, <3>3, <3>4 DEF CancelIsMeant
  <2>9. ExecutesOnce'
    BY <1>1, <2>0 DEF ExecutesOnce, IsLive
  <2>10. LiveIsUnderWay'
    <3>1. IsRunFor(cur'[a], run'.id)
      BY <1>1, <2>1 DEF OnIt, IsRunFor
    <3> QED BY <3>1 DEF LiveIsUnderWay
  <2> QED BY <2>5, <2>6, <2>7, <2>8, <2>9, <2>10 DEF Apart
<1> QED BY <1>1, <1>5, <1>6, <1>8, <1>9, <1>10, <1>11 DEF IInv

-----------------------------------------------------------------------------
(* The run in an actor's hands                                             *)

\* What ensure_live adds to the events says nothing of a run.
LEMMA MaybeReconnected ==
  ASSUME TypeOK, events' = events \/ events' = Append(events, Event("Reconnected", FALSE))
  PROVE  /\ events' \in Seq(Events)
         /\ CountOf("ConnectionLost", events') = CountOf("ConnectionLost", events)
         /\ \A i \in 1..Len(events') : \/ events'[i].kind = "Reconnected"
                                       \/ i \in 1..Len(events) /\ events'[i] = events[i]
         /\ \A i \in 1..Len(events) : i \in 1..Len(events') /\ events'[i] = events[i]
         /\ Free({"Connected"}, events') <=> Free({"Connected"}, events)
         /\ Free({"ConnectionLost"}, events') <=> Free({"ConnectionLost"}, events)
         /\ Followed(SessionEnds \cup {"NotConnected"}, {"Connected"}, events)
               => Followed(SessionEnds \cup {"NotConnected"}, {"Connected"}, events')
         /\ OpenedFirst(events) => OpenedFirst(events')
<1>1. CASE events' = events
  <2>1. events' \in Seq(Events)
    BY <1>1 DEF TypeOK
  <2> QED BY <1>1, <2>1
<1>2. CASE events' = Append(events, Event("Reconnected", FALSE))
  <2>1. PICK e \in Events : events' = Append(events, e) /\ e.kind = "Reconnected"
    BY <1>2, EventFacts, ZenonT(60) DEF EventKinds
  <2>2. /\ events' \in Seq(Events)
        /\ CountOf("ConnectionLost", events') = CountOf("ConnectionLost", events)
    BY <2>1, Emitted
  <2>3. /\ \A i \in 1..Len(events') : \/ events'[i].kind = "Reconnected"
                                      \/ i \in 1..Len(events) /\ events'[i] = events[i]
        /\ \A i \in 1..Len(events) : i \in 1..Len(events') /\ events'[i] = events[i]
    BY <2>1, Emitted
  <2>4. /\ Free({"Connected"}, events') <=> Free({"Connected"}, events)
        /\ Free({"ConnectionLost"}, events') <=> Free({"ConnectionLost"}, events)
    BY <2>1, Emitted
  <2>5. /\ Followed(SessionEnds \cup {"NotConnected"}, {"Connected"}, events)
              => Followed(SessionEnds \cup {"NotConnected"}, {"Connected"}, events')
        /\ OpenedFirst(events) => OpenedFirst(events')
    BY <2>1, Emitted DEF SessionEnds
  <2> QED BY <2>2, <2>3, <2>4, <2>5
<1> QED BY <1>1, <1>2

\* run_script begins.
LEMMA AliveRunStep ==
  ASSUME IInv, NEW a \in Actors, Alive(a), cur[a].kind = "Run"
  PROVE  IInv'
<1>0. /\ TypeOK /\ WithinBounds /\ ActorsAsBorn /\ RunsApart /\ ToldAsEnded /\ ShownIsLast
      /\ OutcomeIsReal /\ (~overlap => Apart)
  BY DEF IInv
<1>1. /\ pc[a] = "checking" /\ cur' = cur /\ pc' = [pc EXCEPT ![a] = "running"]
      /\ started' = [started EXCEPT ![cur[a].run.intent] = @ + 1]
      /\ cancelled' = [cancelled EXCEPT ![a] = FALSE] /\ flag' = [flag EXCEPT ![a] = FALSE]
      /\ events' = events \/ events' = Append(events, Event("Reconnected", FALSE))
      /\ UNCHANGED <<acts, conn, run, pending, last, follow, cmds, born, entry, asked, overlap,
                     faults, mail, named, result>>
  BY DEF Alive, Begins, Goes, Emit, ActorOnly, uiVars
<1>2. /\ events' \in Seq(Events)
      /\ CountOf("ConnectionLost", events') = CountOf("ConnectionLost", events)
      /\ \A i \in 1..Len(events') : \/ events'[i].kind = "Reconnected"
                                    \/ i \in 1..Len(events) /\ events'[i] = events[i]
      /\ \A i \in 1..Len(events) : i \in 1..Len(events') /\ events'[i] = events[i]
      /\ Free({"Connected"}, events') <=> Free({"Connected"}, events)
      /\ Free({"ConnectionLost"}, events') <=> Free({"ConnectionLost"}, events)
      /\ Followed(SessionEnds \cup {"NotConnected"}, {"Connected"}, events)
            => Followed(SessionEnds \cup {"NotConnected"}, {"Connected"}, events')
      /\ OpenedFirst(events) => OpenedFirst(events')
  BY <1>0, <1>1, MaybeReconnected
<1>3. /\ cur[a].run \in RunIds /\ cur[a].run.intent \in Intents
      /\ started' \in [Intents -> Nat] /\ started \in [Intents -> Nat]
      /\ \A i \in Intents : started'[i] = IF i = cur[a].run.intent THEN started[i] + 1 ELSE started[i]
  <2>1. cur[a].run \in RunIds /\ cur[a].run.intent \in Intents
    BY <1>0, TypeFacts, RunFacts
  <2>2. started \in [Intents -> Nat] /\ started' = [started EXCEPT ![cur[a].run.intent] = @ + 1]
    BY <1>0, <1>1 DEF TypeOK
  <2> QED BY <2>1, <2>2
<1>4. /\ pc'[a] = "running" /\ cancelled'[a] = FALSE /\ flag'[a] = FALSE
      /\ \A b \in Actors : b # a => pc'[b] = pc[b] /\ cancelled'[b] = cancelled[b] /\ flag'[b] = flag[b]
      /\ \A b \in Actors : Up(b)' <=> Up(b)
  BY <1>0, <1>1 DEF TypeOK, Up
<1>5. TypeOK'
  <2>1. /\ pc' \in [Actors -> {"unborn", "opening", "idle", "checking", "running",
                               "ending", "closing", "gone"}]
        /\ cancelled' \in [Actors -> BOOLEAN] /\ flag' \in [Actors -> BOOLEAN]
    BY <1>0, <1>1 DEF TypeOK
  <2> QED BY <1>0, <1>1, <1>2, <1>3, <1>4, <2>1 DEF TypeOK
<1>6. WithinBounds' /\ ShownIsLast' /\ OutcomeIsReal'
  BY <1>0, <1>1, <1>2 DEF WithinBounds, ShownIsLast, OutcomeIsReal, IsLive
<1>7. ActorsAsBorn'
  BY <1>0, <1>1, <1>4 DEF ActorsAsBorn
<1>8. RunsApart'
  BY <1>0, <1>1, <1>4 DEF RunsApart, WaitsIn
<1>9. ToldAsEnded'
  <2>1. \A i \in 1..Len(events') : events'[i].kind = "RunDone" => i \in 1..Len(events) /\ events'[i] = events[i]
    BY <1>2
  <2> QED BY <1>0, <1>1, <2>1 DEF ToldAsEnded
<1>10. ASSUME ~overlap PROVE Apart'
  <2>0. OneSession /\ NewsInOrder /\ WorksOnShown /\ CancelIsMeant /\ ExecutesOnce /\ LiveIsUnderWay
    BY <1>0, <1>10 DEF Apart
  <2>1. /\ Up(a) /\ (\A b \in Actors : Up(b) => b = a) /\ Free({"Connect"}, cmds)
        /\ Free({"ConnectionLost"}, events) /\ ~NoneUp
    BY <1>0, <1>1, <2>0, SingleUp DEF Up
  <2>2. /\ OnIt(cur[a].run) /\ entry = a /\ started[run.intent] = 0 /\ IsLive(run)
        /\ cur[a].run.id = run.id /\ cur[a].run.intent = run.intent
    BY <1>1, <2>0 DEF WorksOnShown, OnIt
  <2>3. /\ ~NoneUp' /\ SessionUp' /\ SessionUp /\ ~Waiting'
    <3>1. ~NoneUp'
      BY <1>4, <2>1 DEF NoneUp
    <3>2. SessionUp' /\ SessionUp
      BY <1>1, <1>4, <2>2 DEF SessionUp, OnIt, Up
    <3>3. \A b \in Actors : pc'[b] # "opening"
      BY <1>4, <2>1 DEF Up
    <3>4. ~Waiting'
      BY <1>1, <2>1, <3>3 DEF Waiting
    <3> QED BY <3>1, <3>2, <3>4
  <2>4. /\ \A i : Heard(i)' <=> Heard(i)
        /\ \A r : OnIt(r)' <=> OnIt(r)
    BY <1>1, <1>2, <1>4, <2>2, <2>3 DEF Heard, OnIt, IsLive
  <2>5. OneSession'
    <3>1. Free({"ConnectionLost"}, events')
      BY <1>2, <2>1
    <3> QED BY <1>0, <1>1, <1>4, <2>0, <2>1, <2>2, <3>1, OneSessionKept
  <2>6. NewsInOrder'
    BY <1>1, <1>2, <2>0, <2>3 DEF NewsInOrder
  <2>7. WorksOnShown'
    <3>1. \A i \in 1..Len(cmds) : cmds[i].kind = "Run" => ~Heard(i)
      <4>1. \A i \in 1..Len(cmds) : cmds[i].kind = "Run" => cmds[i].run.id # run.id
        BY <1>0, <2>2 DEF RunsApart, OneOfEach
      <4>2. \A i \in 1..Len(cmds) : cmds[i].kind = "Run" /\ Heard(i) => cmds[i].run.id = run.id
        BY <2>0 DEF WorksOnShown, OnIt
      <4> QED BY <4>1, <4>2
    <3>2. \A b \in Actors : \A i \in 1..Len(mail[b]) : mail[b][i].kind # "Run"
      <4>1. \A b \in Actors : \A i \in 1..Len(mail[b]) : mail[b][i].kind = "Run" => mail[b][i].run.id # run.id
        BY <1>0, <2>2 DEF RunsApart, OneOfEach
      <4>2. \A b \in Actors : \A i \in 1..Len(mail[b]) : mail[b][i].kind = "Run" => mail[b][i].run.id = run.id
        BY <2>0 DEF WorksOnShown, OnIt
      <4> QED BY <4>1, <4>2
    <3>3. \A b \in Actors : cur[b].kind = "Run"
             => OnIt(cur[b].run) /\ entry = b /\ Free({"Disconnect"}, cmds)
      BY <2>0 DEF WorksOnShown
    <3>4. ASSUME NEW b \in Actors, cur'[b].kind = "Run"
          PROVE  OnIt(cur[b].run)' /\ entry' = b /\ Free({"Disconnect"}, cmds') /\ pc'[b] # "checking"
      <4>1. b = a
        BY <1>1, <2>2, <3>3, <3>4
      <4>2. PICK r : r = cur[a].run
        OBVIOUS
      <4>3. OnIt(r)' /\ cur'[b].run = r
        BY <1>1, <2>2, <2>4, <4>1, <4>2
      <4> QED BY <1>1, <1>4, <2>2, <3>3, <3>4, <4>1, <4>3
    <3> QED BY <1>1, <2>4, <3>1, <3>2, <3>4 DEF WorksOnShown
  <2>8. CancelIsMeant'
    <3>1. (InHand' <=> InHand) /\ (Ahead' <=> Ahead)
      BY <1>1 DEF InHand, Ahead
    <3> QED BY <1>1, <1>4, <2>0, <2>4, <3>1 DEF CancelIsMeant
  <2>9. ExecutesOnce'
    <3>1. pending = 0 /\ run.intent <= acts /\ run.intent \in Nat /\ acts \in Nat
      BY <1>0, <1>3, <2>2, TypeFacts, RunFacts DEF ShownIsLast
    <3>2. \A i \in 1..Len(events') : events'[i].kind # "ConnectionLost"
      BY <1>2, <2>1 DEF Free
    <3>3. \A i \in Intents : i \in Nat
      BY Bounds DEF Intents
    <3>4. \A i \in Intents : started'[i] <= 1 /\ (i > acts => started'[i] = 0)
      BY <1>3, <2>0, <2>2, <3>1, <3>3 DEF ExecutesOnce
    <3> QED BY <1>1, <3>1, <3>2, <3>4 DEF ExecutesOnce
  <2>10. LiveIsUnderWay'
    BY <1>1, <2>2 DEF LiveIsUnderWay, IsRunFor
  <2> QED BY <2>5, <2>6, <2>7, <2>8, <2>9, <2>10 DEF Apart
<1> QED BY <1>1, <1>5, <1>6, <1>7, <1>8, <1>9, <1>10 DEF IInv

\* A change of database, which leaves the actor idle or closing.
LEMMA AliveUseStep ==
  ASSUME IInv, NEW a \in Actors, Alive(a), cur[a].kind # "Run"
  PROVE  IInv'
<1>0. /\ TypeOK /\ WithinBounds /\ ActorsAsBorn /\ RunsApart /\ ToldAsEnded /\ ShownIsLast
      /\ OutcomeIsReal /\ (~overlap => Apart)
  BY DEF IInv
<1>1. /\ pc[a] = "checking" /\ cur' = [cur EXCEPT ![a] = TabMsg("None")]
      /\ pc' = [pc EXCEPT ![a] = "idle"] \/ pc' = [pc EXCEPT ![a] = "closing"]
      /\ events' = events \/ events' = Append(events, Event("Reconnected", FALSE))
      /\ UNCHANGED <<acts, conn, run, pending, last, follow, cmds, born, entry, asked, overlap,
                     faults, mail, named, result, started, cancelled, flag>>
  BY DEF Alive, Begins, Goes, Emit, ActorOnly, uiVars
<1>2. /\ events' \in Seq(Events)
      /\ CountOf("ConnectionLost", events') = CountOf("ConnectionLost", events)
      /\ \A i \in 1..Len(events') : \/ events'[i].kind = "Reconnected"
                                    \/ i \in 1..Len(events) /\ events'[i] = events[i]
      /\ \A i \in 1..Len(events) : i \in 1..Len(events') /\ events'[i] = events[i]
      /\ Free({"Connected"}, events') <=> Free({"Connected"}, events)
      /\ Free({"ConnectionLost"}, events') <=> Free({"ConnectionLost"}, events)
      /\ Followed(SessionEnds \cup {"NotConnected"}, {"Connected"}, events)
            => Followed(SessionEnds \cup {"NotConnected"}, {"Connected"}, events')
      /\ OpenedFirst(events) => OpenedFirst(events')
  BY <1>0, <1>1, MaybeReconnected
<1>3. /\ pc'[a] \in {"idle", "closing"} /\ cur'[a].kind = "None"
      /\ \A b \in Actors : b # a => pc'[b] = pc[b] /\ cur'[b] = cur[b]
      /\ \A b \in Actors : Up(b)' <=> Up(b)
  BY <1>0, <1>1, MsgFacts DEF TypeOK, Up
<1>4. TypeOK'
  <2>1. /\ pc' \in [Actors -> {"unborn", "opening", "idle", "checking", "running",
                               "ending", "closing", "gone"}]
    BY <1>0, <1>1 DEF TypeOK
  <2>2. cur' \in [Actors -> Msgs]
    BY <1>0, <1>1, MsgFacts DEF TypeOK
  <2> QED BY <1>0, <1>1, <1>2, <1>3, <2>1, <2>2 DEF TypeOK
<1>5. WithinBounds' /\ ShownIsLast' /\ OutcomeIsReal'
  BY <1>0, <1>1, <1>2 DEF WithinBounds, ShownIsLast, OutcomeIsReal, IsLive
<1>6. ActorsAsBorn'
  BY <1>0, <1>1, <1>3 DEF ActorsAsBorn
<1>7. RunsApart'
  <2>1. RunsWithin(cmds', cmds) /\ \A b \in Actors : RunsWithin(mail'[b], mail[b])
    BY <1>0, <1>1, TypeFacts, RunsWithinFacts
  <2>2. run' = run /\ result' = result /\ run.id \in Nat
    BY <1>0, <1>1, TypeFacts
  <2>3. run'.id \in Nat /\ run.id <= run'.id
    BY <2>2
  <2>4. \A b \in Actors :
           /\ cur'[b] = cur[b] \/ cur'[b].kind # "Run"
           /\ pc'[b] \in {"checking", "running"} /\ cur'[b].kind = "Run" => pc[b] \in {"checking", "running"}
           /\ pc'[b] = "ending" => pc[b] = "ending" /\ cur'[b] = cur[b]
    BY <1>3
  <2> QED BY <1>0, <2>1, <2>2, <2>3, <2>4, WaitKept
<1>8. ToldAsEnded'
  <2>1. \A i \in 1..Len(events') : events'[i].kind = "RunDone" => i \in 1..Len(events) /\ events'[i] = events[i]
    BY <1>2
  <2> QED BY <1>0, <1>1, <1>3, <2>1 DEF ToldAsEnded
<1>9. ASSUME ~overlap PROVE Apart'
  <2>0. OneSession /\ NewsInOrder /\ WorksOnShown /\ CancelIsMeant /\ ExecutesOnce /\ LiveIsUnderWay
    BY <1>0, <1>9 DEF Apart
  <2>1. /\ Up(a) /\ (\A b \in Actors : Up(b) => b = a) /\ Free({"Connect"}, cmds)
        /\ Free({"ConnectionLost"}, events) /\ ~NoneUp
    BY <1>0, <1>1, <2>0, SingleUp DEF Up
  <2>2. /\ ~NoneUp' /\ (SessionUp' <=> SessionUp) /\ ~Waiting'
    <3>1. ~NoneUp'
      BY <1>3, <2>1 DEF NoneUp
    <3>2. SessionUp' <=> SessionUp
      BY <1>0, <1>1, <1>3, <2>1, EntryFacts DEF SessionUp
    <3>3. \A b \in Actors : pc'[b] # "opening"
      BY <1>3, <2>1 DEF Up
    <3>4. ~Waiting'
      BY <1>1, <2>1, <3>3 DEF Waiting
    <3> QED BY <3>1, <3>2, <3>4
  <2>3. \A i : Heard(i)' <=> Heard(i)
    BY <1>0, <1>1, <1>3, EntryFacts DEF Heard
  <2>4. \A r : OnIt(r)' <=> OnIt(r)
    BY <1>1, <1>2, <2>2 DEF OnIt, IsLive
  <2>5. OneSession'
    <3>1. Free({"ConnectionLost"}, events')
      BY <1>2, <2>1
    <3>2. entry # a => \E i \in 1..Len(mail'[a]) : mail'[a][i].kind = "Close"
      BY <1>1, <2>0, <2>1 DEF OneSession
    <3> QED BY <1>0, <1>1, <1>3, <2>0, <2>1, <3>1, <3>2, OneSessionKept
  <2>6. NewsInOrder'
    BY <1>1, <1>2, <2>0, <2>2 DEF NewsInOrder
  <2>7. WorksOnShown'
    <3>1. \A b \in Actors : cur'[b].kind = "Run" => cur'[b] = cur[b] /\ (pc'[b] = "checking" => pc[b] = "checking")
      BY <1>3
    <3>2. \A b \in Actors : \A i \in 1..Len(mail'[b]) : mail'[b][i] = mail[b][i] /\ i \in 1..Len(mail[b])
      BY <1>1
    <3> QED BY <1>1, <2>0, <2>3, <2>4, <3>1, <3>2, WorksKept
  <2>8. CancelIsMeant'
    <3>1. (InHand' => InHand) /\ (Ahead' <=> Ahead)
      BY <1>1, <1>3 DEF InHand, Ahead
    <3> QED BY <1>1, <1>3, <2>0, <2>3, <3>1 DEF CancelIsMeant
  <2>9. ExecutesOnce'
    <3>1. \A i \in 1..Len(events') : events'[i].kind # "ConnectionLost"
      BY <1>2, <2>1 DEF Free
    <3> QED BY <1>1, <2>0, <3>1 DEF ExecutesOnce
  <2>10. LiveIsUnderWay'
    <3>1. \A b \in Actors : IsRunFor(cur[b], run.id) => cur'[b] = cur[b]
      BY <1>3 DEF IsRunFor
    <3> QED BY <1>1, <1>2, <2>0, <3>1 DEF LiveIsUnderWay, IsLive
  <2> QED BY <2>5, <2>6, <2>7, <2>8, <2>9, <2>10 DEF Apart
<1> QED BY <1>1, <1>4, <1>5, <1>6, <1>7, <1>8, <1>9 DEF IInv

\* The run is over, and its outcome is known.
LEMMA EndsStep ==
  ASSUME IInv, NEW a \in Actors, pc[a] = "running", NEW outcome \in Outcomes, Ends(a, outcome),
         cancelled' \in [Actors -> BOOLEAN], \A b \in Actors : cancelled'[b] => cancelled[b] \/ flag[b],
         \A b \in Actors : b # a => cancelled'[b] = cancelled[b]
  PROVE  IInv'
<1>0. /\ TypeOK /\ WithinBounds /\ ActorsAsBorn /\ RunsApart /\ ToldAsEnded /\ ShownIsLast
      /\ OutcomeIsReal /\ (~overlap => Apart)
  BY DEF IInv
<1>1. /\ pc' = [pc EXCEPT ![a] = "ending"]
      /\ result' = [result EXCEPT ![cur[a].run.id] = outcome]
      /\ UNCHANGED <<acts, conn, run, pending, last, follow, cmds, born, entry, asked, overlap,
                     faults, mail, events, named, cur, flag, started>>
  BY DEF Ends, Goes, ActorOnly, uiVars
<1> DEFINE id == cur[a].run.id
<1>2. /\ cur[a].kind = "Run" /\ id \in Runs /\ id \in Nat /\ id <= run.id /\ run.id \in Nat
      /\ result[id] = "none" /\ outcome # "none"
      /\ result' \in [Runs -> {"none"} \cup Outcomes]
      /\ result'[id] = outcome /\ \A r \in Runs : r # id => result'[r] = result[r]
  <2>1. cur[a].kind = "Run"
    BY <1>0 DEF ActorsAsBorn
  <2>2. id \in Runs /\ id \in Nat /\ run.id \in Nat
    BY <1>0, <2>1, TypeFacts, RunFacts
  <2>3. id <= run.id /\ result[id] = "none"
    BY <1>0, <2>1 DEF RunsApart, WaitsIn
  <2>4. /\ result' \in [Runs -> {"none"} \cup Outcomes]
        /\ result'[id] = outcome /\ \A r \in Runs : r # id => result'[r] = result[r]
    BY <1>0, <1>1, <2>2 DEF TypeOK
  <2> QED BY <2>1, <2>2, <2>3, <2>4 DEF Outcomes
<1> HIDE DEF id
<1>3. /\ pc'[a] = "ending" /\ \A b \in Actors : b # a => pc'[b] = pc[b]
      /\ \A b \in Actors : Up(b)' <=> Up(b)
  BY <1>0, <1>1 DEF TypeOK, Up
<1>4. TypeOK'
  <2>1. pc' \in [Actors -> {"unborn", "opening", "idle", "checking", "running",
                            "ending", "closing", "gone"}]
    BY <1>0, <1>1 DEF TypeOK
  <2> QED BY <1>0, <1>1, <1>2, <1>3, <2>1 DEF TypeOK
<1>5. WithinBounds' /\ ShownIsLast'
  BY <1>0, <1>1 DEF WithinBounds, ShownIsLast, IsLive
<1>6. ActorsAsBorn'
  BY <1>0, <1>1, <1>2, <1>3 DEF ActorsAsBorn
<1>7. \* the other runs are other runs
      /\ \A i \in 1..Len(cmds) : cmds[i].kind = "Run" => cmds[i].run.id # id /\ cmds[i].run.id \in Runs
      /\ \A b \in Actors :
            /\ \A i \in 1..Len(mail[b]) : mail[b][i].kind = "Run" => mail[b][i].run.id # id /\ mail[b][i].run.id \in Runs
            /\ b # a /\ cur[b].kind = "Run" => cur[b].run.id # id /\ cur[b].run.id \in Runs
  <2>1. OneOfEach(cmds, mail, cur)
    BY <1>0 DEF RunsApart
  <2>2. \A i \in 1..Len(cmds) : cmds[i].kind = "Run" => cmds[i].run.id # id
    BY <1>2, <2>1 DEF OneOfEach, id
  <2>3. \A b \in Actors : \A i \in 1..Len(mail[b]) : mail[b][i].kind = "Run" => mail[b][i].run.id # id
    BY <1>2, <2>1 DEF OneOfEach, id
  <2>4. \A b \in Actors : b # a /\ cur[b].kind = "Run" => cur[b].run.id # id
    BY <1>2, <2>1 DEF OneOfEach, id
  <2>5. \A i \in 1..Len(cmds) : cmds[i].kind = "Run" => cmds[i].run.id \in Runs
    BY <1>0, TypeFacts, RunFacts
  <2>6. \A b \in Actors : /\ \A i \in 1..Len(mail[b]) : mail[b][i].kind = "Run" => mail[b][i].run.id \in Runs
                          /\ cur[b].kind = "Run" => cur[b].run.id \in Runs
    BY <1>0, TypeFacts, RunFacts
  <2> QED BY <2>2, <2>3, <2>4, <2>5, <2>6
<1>8. RunsApart'
  <2>1. OneOfEach(cmds', mail', cur')
    BY <1>0, <1>1 DEF RunsApart
  <2>2. \A i \in 1..Len(cmds) : cmds[i].kind = "Run"
           => cmds[i].run.id <= run.id /\ result'[cmds[i].run.id] = "none"
    BY <1>0, <1>2, <1>7 DEF RunsApart, WaitsIn
  <2>3. \A b \in Actors : \A i \in 1..Len(mail[b]) : mail[b][i].kind = "Run"
           => mail[b][i].run.id <= run.id /\ result'[mail[b][i].run.id] = "none"
    <3>1. \A b \in Actors : \A i \in 1..Len(mail[b]) : mail[b][i].kind = "Run"
             => mail[b][i].run.id <= run.id /\ result[mail[b][i].run.id] = "none"
      BY <1>0 DEF RunsApart, WaitsIn
    <3>2. ASSUME NEW b \in Actors, NEW i \in 1..Len(mail[b]), mail[b][i].kind = "Run"
          PROVE  result'[mail[b][i].run.id] = "none"
      <4>1. mail[b][i].run.id # id /\ mail[b][i].run.id \in Runs
        BY <1>7, <3>2
      <4> QED BY <1>2, <3>1, <3>2, <4>1
    <3> QED BY <3>1, <3>2
  <2>4. \A b \in Actors : pc'[b] \in {"checking", "running"} /\ cur[b].kind = "Run"
           => cur[b].run.id <= run.id /\ result'[cur[b].run.id] = "none"
    BY <1>0, <1>2, <1>3, <1>7 DEF RunsApart, WaitsIn
  <2>5. ASSUME NEW b \in Actors, pc'[b] = "ending"
        PROVE  cur'[b].run.id <= run'.id /\ result'[cur'[b].run.id] # "none"
    <3>1. CASE b = a
      BY <1>1, <1>2, <3>1 DEF id
    <3>2. CASE b # a
      <4>1. pc[b] = "ending" /\ cur[b].kind = "Run"
        BY <1>0, <1>3, <2>5, <3>2 DEF ActorsAsBorn
      <4> QED BY <1>0, <1>1, <1>2, <1>7, <3>2, <4>1 DEF RunsApart
    <3> QED BY <3>1, <3>2
  <2> QED BY <1>1, <2>1, <2>2, <2>3, <2>4, <2>5 DEF RunsApart, WaitsIn
<1>9. ToldAsEnded'
  <2>1. \A i \in 1..Len(events) : events[i].kind = "RunDone" => events[i].id \in Runs /\ events[i].id # id
    BY <1>0, <1>2, TypeFacts DEF ToldAsEnded, id
  <2>2. \A r \in Runs : r > run.id => r # id
    BY <1>2
  <2>3. \A i \in 1..Len(events) : events[i].kind = "RunDone"
           => /\ result'[events[i].id] = events[i].outcome
              /\ \A b \in Actors : cur[b].kind = "Run" => cur[b].run.id # events[i].id
    BY <1>0, <1>2, <2>1 DEF ToldAsEnded
  <2>4. \A r \in Runs : r > run.id => result'[r] = "none"
    BY <1>0, <1>2, <2>2 DEF ToldAsEnded
  <2> QED BY <1>0, <1>1, <2>3, <2>4 DEF ToldAsEnded
<1>10. OutcomeIsReal'
  <2> SUFFICES ASSUME run.state \in {"Done", "Cancelled"} PROVE result'[run.id] = run.state
    BY <1>1 DEF OutcomeIsReal
  <2>1. result[run.id] = run.state /\ run.id # id
    BY <1>0, <1>2 DEF OutcomeIsReal
  <2>2. run.id \in Runs
    BY <1>0 DEF ToldAsEnded, TypeOK
  <2> QED BY <1>2, <2>1, <2>2
<1>11. ASSUME ~overlap PROVE Apart'
  <2>0. OneSession /\ NewsInOrder /\ WorksOnShown /\ CancelIsMeant /\ ExecutesOnce /\ LiveIsUnderWay
    BY <1>0, <1>11 DEF Apart
  <2>1. /\ Up(a) /\ (\A b \in Actors : Up(b) => b = a) /\ Free({"Connect"}, cmds)
        /\ Free({"ConnectionLost"}, events) /\ ~NoneUp
    BY <1>0, <2>0, SingleUp DEF Up
  <2>2. /\ ~NoneUp' /\ (SessionUp' <=> SessionUp) /\ (Waiting' <=> Waiting)
    <3>1. ~NoneUp'
      BY <1>3, <2>1 DEF NoneUp
    <3>2. SessionUp' <=> SessionUp
      BY <1>0, <1>1, <1>3, <2>1, EntryFacts DEF SessionUp
    <3>3. Waiting' <=> Waiting
      BY <1>1, <1>3 DEF Waiting
    <3> QED BY <3>1, <3>2, <3>3
  <2>3. /\ \A i : Heard(i)' <=> Heard(i)
        /\ \A r : OnIt(r)' <=> OnIt(r)
    BY <1>0, <1>1, <1>3, <2>2, EntryFacts DEF Heard, OnIt, IsLive
  <2>4. OneSession'
    <3>1. Free({"ConnectionLost"}, events')
      BY <1>1, <2>1
    <3>2. entry # a => \E i \in 1..Len(mail'[a]) : mail'[a][i].kind = "Close"
      BY <1>1, <2>0, <2>1 DEF OneSession
    <3> QED BY <1>0, <1>1, <1>3, <2>0, <2>1, <3>1, <3>2, OneSessionKept
  <2>5. NewsInOrder'
    BY <1>1, <2>0, <2>2 DEF NewsInOrder
  <2>6. WorksOnShown'
    <3>1. \A b \in Actors : cur'[b] = cur[b] /\ (pc'[b] = "checking" => pc[b] = "checking")
      BY <1>1, <1>3
    <3>2. \A b \in Actors : \A i \in 1..Len(mail'[b]) : mail'[b][i] = mail[b][i] /\ i \in 1..Len(mail[b])
      BY <1>1
    <3> QED BY <1>1, <2>0, <2>3, <3>1, <3>2, WorksKept
  <2>7. CancelIsMeant'
    <3>1. (InHand' <=> InHand) /\ (Ahead' <=> Ahead)
      BY <1>1 DEF InHand, Ahead
    <3>2. \A b \in Actors : pc'[b] \in {"running", "ending"} /\ (cancelled'[b] \/ flag'[b]) => run'.id \in asked'
      BY <1>1, <1>3, <2>0 DEF CancelIsMeant
    <3> QED BY <1>1, <2>0, <2>3, <3>1, <3>2 DEF CancelIsMeant
  <2>8. ExecutesOnce'
    BY <1>1, <2>0 DEF ExecutesOnce, IsLive
  <2>9. LiveIsUnderWay'
    BY <1>1, <2>0 DEF LiveIsUnderWay, IsLive
  <2> QED BY <2>4, <2>5, <2>6, <2>7, <2>8, <2>9 DEF Apart
<1> QED BY <1>1, <1>4, <1>5, <1>6, <1>8, <1>9, <1>10, <1>11 DEF IInv

LEMMA DriverDoneStep ==
  ASSUME IInv, NEW a \in Actors, DriverDone(a)
  PROVE  IInv'
<1>0. TypeOK
  BY DEF IInv
<1>1. pc[a] = "running" /\ cancelled' = [cancelled EXCEPT ![a] = @ \/ flag[a]]
  BY DEF DriverDone
<1>2. PICK outcome \in Outcomes : Ends(a, outcome)
  BY DEF DriverDone, Outcomes
<1>3. cancelled \in [Actors -> BOOLEAN] /\ flag \in [Actors -> BOOLEAN]
  BY <1>0 DEF TypeOK
<1>4. cancelled' \in [Actors -> BOOLEAN]
  BY <1>1, <1>3
<1>5. \A b \in Actors : b # a => cancelled'[b] = cancelled[b]
  BY <1>1, <1>3
<1>6. cancelled'[a] = (cancelled[a] \/ flag[a])
  BY <1>1, <1>3
<1>7. \A b \in Actors : cancelled'[b] => cancelled[b] \/ flag[b]
  BY <1>5, <1>6
<1> QED BY <1>1, <1>2, <1>4, <1>5, <1>7, EndsStep

LEMMA ExecuteFailsStep ==
  ASSUME IInv, NEW a \in Actors, ExecuteFails(a)
  PROVE  IInv'
<1>0. TypeOK
  BY DEF IInv
<1>1. pc[a] = "running" /\ Ends(a, "Failed") /\ cancelled' = cancelled /\ "Failed" \in Outcomes
  BY DEF ExecuteFails, Outcomes
<1>2. cancelled' \in [Actors -> BOOLEAN]
  BY <1>0, <1>1 DEF TypeOK
<1>3. \A b \in Actors : cancelled'[b] = cancelled[b]
  BY <1>1
<1>4. \A b \in Actors : cancelled'[b] => cancelled[b] \/ flag[b]
  BY <1>3
<1> QED BY <1>1, <1>2, <1>3, <1>4, EndsStep

\* The run is told of and leaves the actor's hands.
LEMMA FinishStep ==
  ASSUME IInv, NEW a \in Actors, Finish(a)
  PROVE  IInv'
<1>0. /\ TypeOK /\ WithinBounds /\ ActorsAsBorn /\ RunsApart /\ ToldAsEnded /\ ShownIsLast
      /\ OutcomeIsReal /\ (~overlap => Apart)
  BY DEF IInv
<1> DEFINE id == cur[a].run.id
<1>1. /\ pc[a] = "ending" /\ events' = Append(events, RunDone(id, result[id]))
      /\ pc' = [pc EXCEPT ![a] = "idle"] \/ pc' = [pc EXCEPT ![a] = "closing"]
      /\ cur' = [cur EXCEPT ![a] = TabMsg("None")]
      /\ cancelled' = [cancelled EXCEPT ![a] = FALSE]
      /\ UNCHANGED <<acts, conn, run, pending, last, follow, cmds, born, entry, asked, overlap,
                     faults, mail, named, flag, started, result>>
  BY DEF Finish, Goes, Emit, ActorOnly, uiVars
<1>2. cur[a].kind = "Run" /\ id \in Runs /\ id \in Nat /\ id <= run.id /\ result[id] \in Outcomes
  <2>1. cur[a].kind = "Run"
    BY <1>0, <1>1 DEF ActorsAsBorn
  <2>2. id \in Runs /\ id \in Nat
    BY <1>0, <2>1, TypeFacts, RunFacts
  <2>3. id <= run.id /\ result[id] # "none"
    BY <1>0, <1>1 DEF RunsApart
  <2> QED BY <1>0, <2>1, <2>2, <2>3 DEF TypeOK
<1>3. PICK e \in Events : /\ events' = Append(events, e) /\ e.kind = "RunDone" /\ e.id = id
                          /\ e.outcome = result[id]
  BY <1>1, <1>2, EventFacts
<1> HIDE DEF id
<1>4. /\ pc'[a] \in {"idle", "closing"} /\ cur'[a].kind = "None"
      /\ \A b \in Actors : b # a => pc'[b] = pc[b] /\ cur'[b] = cur[b] /\ cancelled'[b] = cancelled[b]
      /\ \A b \in Actors : Up(b)' <=> Up(b)
  BY <1>0, <1>1, MsgFacts DEF TypeOK, Up
<1>5. /\ events' \in Seq(Events)
      /\ \A i \in 1..Len(events') : \/ i \in 1..Len(events) /\ events'[i] = events[i]
                                    \/ i = Len(events) + 1 /\ events'[i] = e
      /\ \A i \in 1..Len(events) : i \in 1..Len(events') /\ events'[i] = events[i]
      /\ Len(events) + 1 \in 1..Len(events') /\ events'[Len(events) + 1] = e
  BY <1>0, <1>3, Emitted
<1>6. /\ Free({"Connected"}, events') <=> Free({"Connected"}, events)
      /\ Free({"Connected", "Reconnected"}, events') <=> Free({"Connected", "Reconnected"}, events)
      /\ Free({"ConnectionLost"}, events') <=> Free({"ConnectionLost"}, events)
      /\ Followed(SessionEnds \cup {"NotConnected"}, {"Connected"}, events)
            => Followed(SessionEnds \cup {"NotConnected"}, {"Connected"}, events')
      /\ OpenedFirst(events) => OpenedFirst(events')
  BY <1>0, <1>3, Emitted DEF SessionEnds
<1>7. TypeOK'
  <2>1. /\ pc' \in [Actors -> {"unborn", "opening", "idle", "checking", "running",
                               "ending", "closing", "gone"}]
    BY <1>0, <1>1 DEF TypeOK
  <2>2. cur' \in [Actors -> Msgs] /\ cancelled' \in [Actors -> BOOLEAN]
    BY <1>0, <1>1, MsgFacts DEF TypeOK
  <2> QED BY <1>0, <1>1, <1>4, <1>5, <2>1, <2>2 DEF TypeOK
<1>8. WithinBounds' /\ ShownIsLast' /\ OutcomeIsReal'
  <2>1. CountOf("ConnectionLost", events') = CountOf("ConnectionLost", events)
    <3>1. /\ CountOf("ConnectionLost", events) \in Nat
          /\ CountOf("ConnectionLost", events') = CountOf("ConnectionLost", events) + 0
      BY <1>0, <1>3, Emitted
    <3> QED BY <3>1
  <2> QED BY <1>0, <1>1, <2>1 DEF WithinBounds, ShownIsLast, OutcomeIsReal, IsLive
<1>9. ActorsAsBorn'
  BY <1>0, <1>1, <1>4 DEF ActorsAsBorn
<1>10. RunsApart'
  <2>1. RunsWithin(cmds', cmds) /\ \A b \in Actors : RunsWithin(mail'[b], mail[b])
    BY <1>0, <1>1, TypeFacts, RunsWithinFacts
  <2>2. run' = run /\ result' = result /\ run.id \in Nat
    BY <1>0, <1>1, TypeFacts
  <2>3. run'.id \in Nat /\ run.id <= run'.id
    BY <2>2
  <2>4. \A b \in Actors :
           /\ cur'[b] = cur[b] \/ cur'[b].kind # "Run"
           /\ pc'[b] \in {"checking", "running"} /\ cur'[b].kind = "Run" => pc[b] \in {"checking", "running"}
           /\ pc'[b] = "ending" => pc[b] = "ending" /\ cur'[b] = cur[b]
    BY <1>4
  <2> QED BY <1>0, <2>1, <2>2, <2>3, <2>4, WaitKept
<1>11. ToldAsEnded'
  <2>1. \A b \in Actors : cur'[b].kind = "Run" => b # a /\ cur'[b] = cur[b] /\ cur[b].run.id # id
    BY <1>0, <1>2, <1>4 DEF RunsApart, OneOfEach, id
  <2> QED BY <1>0, <1>1, <1>3, <1>5, <2>1 DEF ToldAsEnded
<1>12. ASSUME ~overlap PROVE Apart'
  <2>0. OneSession /\ NewsInOrder /\ WorksOnShown /\ CancelIsMeant /\ ExecutesOnce /\ LiveIsUnderWay
    BY <1>0, <1>12 DEF Apart
  <2>1. /\ Up(a) /\ (\A b \in Actors : Up(b) => b = a) /\ Free({"Connect"}, cmds)
        /\ Free({"ConnectionLost"}, events) /\ ~NoneUp
    BY <1>0, <1>1, <2>0, SingleUp DEF Up
  <2>2. /\ ~NoneUp' /\ (SessionUp' <=> SessionUp) /\ (Waiting' <=> Waiting)
    <3>1. ~NoneUp'
      BY <1>4, <2>1 DEF NoneUp
    <3>2. SessionUp' <=> SessionUp
      BY <1>0, <1>1, <1>4, <2>1, EntryFacts DEF SessionUp
    <3>3. Waiting' <=> Waiting
      BY <1>1, <1>4 DEF Waiting
    <3> QED BY <3>1, <3>2, <3>3
  <2>3. \A i : Heard(i)' <=> Heard(i)
    BY <1>0, <1>1, <1>4, EntryFacts DEF Heard
  <2>4. \A r : OnIt(r)' <=> OnIt(r)
    BY <1>1, <1>6, <2>2 DEF OnIt, IsLive
  <2>5. OneSession'
    <3>1. Free({"ConnectionLost"}, events')
      BY <1>6, <2>1
    <3>2. entry # a => \E i \in 1..Len(mail'[a]) : mail'[a][i].kind = "Close"
      BY <1>1, <2>0, <2>1 DEF OneSession
    <3> QED BY <1>0, <1>1, <1>4, <2>0, <2>1, <3>1, <3>2, OneSessionKept
  <2>6. NewsInOrder'
    BY <1>1, <1>6, <2>0, <2>2 DEF NewsInOrder
  <2>7. WorksOnShown'
    <3>1. \A b \in Actors : cur'[b].kind = "Run" => cur'[b] = cur[b] /\ (pc'[b] = "checking" => pc[b] = "checking")
      BY <1>4
    <3>2. \A b \in Actors : \A i \in 1..Len(mail'[b]) : mail'[b][i] = mail[b][i] /\ i \in 1..Len(mail[b])
      BY <1>1
    <3> QED BY <1>1, <2>0, <2>3, <2>4, <3>1, <3>2, WorksKept
  <2>8. CancelIsMeant'
    <3>1. (InHand' => InHand) /\ (Ahead' <=> Ahead)
      BY <1>1, <1>4 DEF InHand, Ahead
    <3> QED BY <1>1, <1>4, <2>0, <2>3, <3>1 DEF CancelIsMeant
  <2>9. ExecutesOnce'
    <3>1. \A i \in 1..Len(events') : events'[i].kind # "ConnectionLost"
      BY <1>6, <2>1 DEF Free
    <3> QED BY <1>1, <2>0, <3>1 DEF ExecutesOnce
  <2>10. LiveIsUnderWay'
    <3>1. \A b \in Actors : IsRunFor(cur[b], run.id) => \/ IsRunFor(cur'[b], run.id)
                                                        \/ e.kind = "RunDone" /\ e.id = run.id
      BY <1>3, <1>4 DEF IsRunFor, id
    <3>2. ASSUME IsLive(run), NEW b \in Actors, IsRunFor(cur[b], run.id)
          PROVE  LiveIsUnderWay'
      <4>1. CASE IsRunFor(cur'[b], run'.id)
        BY <4>1 DEF LiveIsUnderWay
      <4>2. CASE e.kind = "RunDone" /\ e.id = run'.id
        BY <1>5, <4>2 DEF LiveIsUnderWay
      <4> QED BY <1>1, <3>1, <3>2, <4>1, <4>2
    <3>3. CASE \E i \in 1..Len(events) :
                  \/ events[i].kind \in {"Disconnected", "ConnectionLost", "NotConnected"}
                  \/ events[i].kind = "RunDone" /\ events[i].id = run.id
      BY <1>1, <1>5, <3>3 DEF LiveIsUnderWay
    <3>4. CASE \/ \E i \in 1..Len(cmds) : IsRunFor(cmds[i], run.id)
               \/ \E b \in Actors : \E i \in 1..Len(mail[b]) : IsRunFor(mail[b][i], run.id)
      BY <1>1, <3>4 DEF LiveIsUnderWay
    <3>5. CASE ~IsLive(run)
      BY <1>1, <3>5 DEF LiveIsUnderWay, IsLive
    <3> QED BY <2>0, <3>2, <3>3, <3>4, <3>5 DEF LiveIsUnderWay
  <2> QED BY <2>5, <2>6, <2>7, <2>8, <2>9, <2>10 DEF Apart
<1> QED BY <1>1, <1>7, <1>8, <1>9, <1>10, <1>11, <1>12 DEF IInv

LEMMA ActorStep ==
  ASSUME IInv, NEW a \in Actors, Actor(a)
  PROVE  IInv'
<1>1. CASE Opens(a)
  BY <1>1, OpensStep
<1>2. CASE OpenFails(a)
  BY <1>2, OpenFailsStep
<1>3. CASE Take(a)
  <2>1. TypeOK /\ Ready(a) /\ Recv(a)
    BY <1>3 DEF IInv, Take
  <2>2. NextMsg(a) \in Msgs
    BY <2>1, MailTaken
  <2> QED BY <1>3, <2>2, MsgFacts, TakeIdleStep, TakeWorkStep
<1>4. CASE Alive(a)
  BY <1>4, AliveRunStep, AliveUseStep
<1>5. CASE Lost(a)
  BY <1>5, LostStep
<1>6. CASE TakeWhileRunning(a)
  BY <1>6, TakeWhileRunningStep
<1>7. CASE DriverDone(a)
  BY <1>7, DriverDoneStep
<1>8. CASE ExecuteFails(a)
  BY <1>8, ExecuteFailsStep
<1>9. CASE Finish(a)
  BY <1>9, FinishStep
<1>10. CASE Closed(a)
  BY <1>10, ClosedStep
<1> QED BY <1>1, <1>2, <1>3, <1>4, <1>5, <1>6, <1>7, <1>8, <1>9, <1>10 DEF Actor

-----------------------------------------------------------------------------
(* Sessions that work on nothing                                           *)

NoWork == /\ ~InHand /\ ~Ahead
          /\ \A i \in 1..Len(cmds) : cmds[i].kind = "Run" => ~Heard(i)

LEMMA NoWorkFacts ==
  ASSUME WorksOnShown, \A r : ~OnIt(r)
  PROVE  NoWork
<1>1. \A i \in 1..Len(cmds) : cmds[i].kind = "Run" => ~Heard(i)
  BY DEF WorksOnShown
<1>2. \A a \in Actors : cur[a].kind # "Run" /\ \A i \in 1..Len(mail[a]) : mail[a][i].kind # "Run"
  BY DEF WorksOnShown
<1> QED BY <1>1, <1>2 DEF NoWork, InHand, Ahead

LEMMA NoneUpNoWork ==
  ASSUME TypeOK, ActorsAsBorn, NoneUp
  PROVE  NoWork /\ ~SessionUp /\ \A a \in Actors : mail[a] = <<>> /\ cur[a].kind # "Run"
<1>1. \A a \in Actors : mail[a] = <<>> /\ cur[a].kind # "Run"
  BY DEF TypeOK, ActorsAsBorn, NoneUp, Up
<1>2. ~SessionUp /\ \A i : ~Heard(i)
  BY EntryFacts DEF NoneUp, SessionUp, Heard
<1>3. \A a \in Actors : 1..Len(mail[a]) = {}
  BY <1>1
<1> QED BY <1>1, <1>2, <1>3 DEF NoWork, InHand, Ahead

LEMMA NoWorkKept ==
  ASSUME NoWork', ActorsAsBorn'
  PROVE  WorksOnShown' /\ CancelIsMeant'
<1>1. /\ \A i \in 1..Len(cmds') : cmds'[i].kind = "Run" => ~Heard(i)'
      /\ \A a \in Actors : cur'[a].kind # "Run" /\ \A i \in 1..Len(mail'[a]) : mail'[a][i].kind # "Run"
      /\ ~InHand' /\ ~Ahead'
  BY DEF NoWork, InHand, Ahead
<1>2. WorksOnShown'
  BY <1>1 DEF WorksOnShown
<1>3. \A a \in Actors : pc'[a] \notin {"running", "ending"}
  BY <1>1 DEF ActorsAsBorn
<1>4. \A i \in 1..Len(cmds') : \A j \in 1..i - 1 : cmds'[j].kind = "Run" => ~Heard(j)'
  <2>1. ASSUME NEW i \in 1..Len(cmds'), NEW j \in 1..i - 1 PROVE j \in 1..Len(cmds')
    BY <2>1
  <2> QED BY <1>1, <2>1
<1>5. \A a \in Actors : \A i \in 1..Len(mail'[a]) : \A j \in 1..i - 1 : mail'[a][j].kind # "Run"
  <2>1. ASSUME NEW a \in Actors, NEW i \in 1..Len(mail'[a]), NEW j \in 1..i - 1 PROVE j \in 1..Len(mail'[a])
    BY <2>1
  <2> QED BY <1>1, <2>1
<1> QED BY <1>1, <1>2, <1>3, <1>4, <1>5 DEF CancelIsMeant

-----------------------------------------------------------------------------
(* The dispatcher                                                          *)

\* What the dispatcher puts into the mailbox of the tab's actor.
LEMMA ToldFacts ==
  ASSUME TypeOK, NEW msg \in Msgs, mail' = Told(entry, msg)
  PROVE  /\ mail' \in [Actors -> Seq(Msgs)]
         /\ entry = 0 \/ ~Up(entry) => mail' = mail
         /\ \A a \in Actors : ~Up(a) => mail'[a] = mail[a]
         /\ \A a \in Actors : \A i \in 1..Len(mail[a]) : i \in 1..Len(mail'[a]) /\ mail'[a][i] = mail[a][i]
         /\ \A a \in Actors : \A i \in 1..Len(mail'[a]) :
               \/ i \in 1..Len(mail[a]) /\ mail'[a][i] = mail[a][i]
               \/ a = entry /\ Up(entry) /\ i = Len(mail[a]) + 1 /\ mail'[a][i] = msg
         /\ entry # 0 /\ Up(entry) => \E i \in 1..Len(mail'[entry]) : mail'[entry][i] = msg
         /\ msg.kind # "Run" => \A a \in Actors : RunsWithin(mail'[a], mail[a])
<1>1. CASE entry = 0 \/ ~Up(entry)
  <2>1. mail' = mail
    BY <1>1 DEF Told
  <2>2. mail' \in [Actors -> Seq(Msgs)]
    BY <2>1 DEF TypeOK
  <2>3. \A a \in Actors : RunsWithin(mail'[a], mail[a])
    BY <2>1, TypeFacts, RunsWithinFacts
  <2> QED BY <1>1, <2>1, <2>2, <2>3
<1>2. CASE entry # 0 /\ Up(entry)
  <2>0. entry \in Actors
    BY <1>2, EntryFacts
  <2>1. mail' = [mail EXCEPT ![entry] = Append(@, msg)]
    BY <1>2 DEF Told
  <2>2. /\ mail'[entry] = Append(mail[entry], msg) /\ \A a \in Actors : a # entry => mail'[a] = mail[a]
        /\ mail' \in [Actors -> Seq(Msgs)] /\ mail[entry] \in Seq(Msgs)
    BY <2>0, <2>1 DEF TypeOK
  <2>3. /\ \A i \in 1..Len(mail[entry]) : mail'[entry][i] = mail[entry][i] /\ i \in 1..Len(mail'[entry])
        /\ \A i \in 1..Len(mail'[entry]) : \/ i = Len(mail[entry]) + 1
                                           \/ i \in 1..Len(mail[entry]) /\ mail'[entry][i] = mail[entry][i]
        /\ mail'[entry][Len(mail[entry]) + 1] = msg
        /\ Len(mail'[entry]) = Len(mail[entry]) + 1 /\ Len(mail[entry]) \in Nat
    BY <2>2, AppendOf
  <2>4. \E i \in 1..Len(mail'[entry]) : mail'[entry][i] = msg
    <3>1. Len(mail[entry]) + 1 \in 1..Len(mail'[entry])
      BY <2>3
    <3> QED BY <2>3, <3>1
  <2>5. ASSUME NEW a \in Actors
        PROVE  /\ ~Up(a) => mail'[a] = mail[a]
               /\ \A i \in 1..Len(mail[a]) : i \in 1..Len(mail'[a]) /\ mail'[a][i] = mail[a][i]
               /\ \A i \in 1..Len(mail'[a]) :
                     \/ i \in 1..Len(mail[a]) /\ mail'[a][i] = mail[a][i]
                     \/ a = entry /\ Up(entry) /\ i = Len(mail[a]) + 1 /\ mail'[a][i] = msg
    <3>1. CASE a = entry
      BY <1>2, <2>3, <3>1
    <3>2. CASE a # entry
      BY <2>2, <3>2
    <3> QED BY <3>1, <3>2
  <2>6. ASSUME msg.kind # "Run", NEW a \in Actors PROVE RunsWithin(mail'[a], mail[a])
    <3>1. CASE a = entry
      BY <2>2, <2>6, <3>1, RunsWithinFacts
    <3>2. CASE a # entry
      <4>1. mail'[a] = mail[a] /\ mail[a] \in Seq(Msgs)
        BY <2>2, <3>2, TypeFacts
      <4> QED BY <4>1, RunsWithinFacts
    <3> QED BY <3>1, <3>2
  <2> QED BY <1>2, <2>2, <2>4, <2>5, <2>6
<1> QED BY <1>1, <1>2

\* A run that is heard is heard when the command before it is gone.
LEMMA HeardShift ==
  ASSUME TypeOK, cmds # <<>>, cmds' = Tail(cmds), cmds[1].kind # "Disconnect", entry' = entry, pc' = pc
  PROVE  \A i \in 1..Len(cmds') : Heard(i)' <=> Heard(i + 1)
<1>0. /\ \A i \in 1..Len(cmds') : i + 1 \in 1..Len(cmds) /\ cmds'[i] = cmds[i + 1]
      /\ Len(cmds') \in Nat
  <2>1. cmds' \in Seq(Commands)
    BY CommandTaken
  <2> QED BY <2>1, CommandTaken
<1> SUFFICES ASSUME NEW i \in 1..Len(cmds') PROVE Heard(i)' <=> Heard(i + 1)
  OBVIOUS
<1>1. ASSUME Heard(i)', NEW j \in 1..(i + 1) - 1 PROVE cmds[j].kind # "Disconnect"
  <2>1. CASE j = 1
    BY <2>1
  <2>2. CASE j # 1
    <3>1. j - 1 \in 1..i - 1 /\ j - 1 \in 1..Len(cmds') /\ (j - 1) + 1 = j
      BY <1>0, <2>2
    <3>2. cmds'[j - 1].kind # "Disconnect"
      BY <1>1, <3>1 DEF Heard
    <3>3. cmds'[j - 1] = cmds[(j - 1) + 1]
      BY <1>0, <3>1
    <3> QED BY <3>1, <3>2, <3>3
  <2> QED BY <2>1, <2>2
<1>2. ASSUME Heard(i + 1), NEW j \in 1..i - 1 PROVE cmds'[j].kind # "Disconnect"
  <2>1. j + 1 \in 1..(i + 1) - 1 /\ j \in 1..Len(cmds')
    BY <1>0
  <2> QED BY <1>0, <1>2, <2>1 DEF Heard
<1>3. entry' # 0 /\ Up(entry)' <=> entry # 0 /\ Up(entry)
  BY DEF Up
<1>4. Heard(i)' => Heard(i + 1)
  BY <1>1, <1>3 DEF Heard
<1>5. Heard(i + 1) => Heard(i)'
  BY <1>2, <1>3 DEF Heard
<1> QED BY <1>4, <1>5

\* What a dispatched command leaves of the invariant's first part.
LEMMA TookCommand ==
  ASSUME IInv, cmds # <<>>, cmds' = Tail(cmds), UNCHANGED <<acts, faults, uiVars, history, pc, cur>>,
         NEW msg \in Msgs, msg.kind # "Run", mail' = Told(entry, msg),
         \A i \in 1..Len(events') : events'[i].kind = "RunDone" => \E k \in 1..Len(events) : events'[i] = events[k]
  PROVE  RunsApart' /\ ToldAsEnded' /\ ShownIsLast' /\ OutcomeIsReal'
<1>0. TypeOK /\ RunsApart /\ ToldAsEnded /\ ShownIsLast /\ OutcomeIsReal
  BY DEF IInv
<1>1. /\ run' = run /\ result' = result /\ run.id \in Nat /\ pending' = pending /\ last' = last /\ acts' = acts
      /\ pc' = pc /\ cur' = cur
  BY <1>0, TypeFacts DEF uiVars, history
<1>2. RunsApart'
  <2>1. RunsWithin(cmds', cmds)
    BY <1>0, TypeFacts, RunsWithinFacts
  <2>2. \A b \in Actors : RunsWithin(mail'[b], mail[b])
    BY <1>0, ToldFacts
  <2>3. run'.id \in Nat /\ run.id <= run'.id
    BY <1>1
  <2>4. \A b \in Actors :
           /\ cur'[b] = cur[b] \/ cur'[b].kind # "Run"
           /\ pc'[b] \in {"checking", "running"} /\ cur'[b].kind = "Run" => pc[b] \in {"checking", "running"}
           /\ pc'[b] = "ending" => pc[b] = "ending" /\ cur'[b] = cur[b]
    BY <1>1
  <2> QED BY <1>0, <1>1, <2>1, <2>2, <2>3, <2>4, WaitKept
<1>3. ToldAsEnded'
  <2>1. run'.id \in Nat /\ run.id <= run'.id /\ (run'.state = "none" <=> run'.id = 0)
    BY <1>0, <1>1 DEF ToldAsEnded
  <2>2. \A b \in Actors : cur'[b] = cur[b] \/ cur'[b].kind # "Run"
    BY <1>1
  <2> QED BY <1>0, <1>1, <2>1, <2>2, ToldKept
<1>4. ShownIsLast' /\ OutcomeIsReal'
  BY <1>0, <1>1 DEF ShownIsLast, OutcomeIsReal, IsLive
<1> QED BY <1>2, <1>3, <1>4

LEMMA ConnectTaken ==
  ASSUME IInv, cmds # <<>>, cmds' = Tail(cmds), cmds[1].kind = "Connect", DispatchConnect(cmds[1]),
         UNCHANGED <<acts, faults, uiVars, history>>
  PROVE  IInv'
<1>0. /\ TypeOK /\ WithinBounds /\ ActorsAsBorn /\ RunsApart /\ ToldAsEnded /\ ShownIsLast
      /\ OutcomeIsReal /\ (~overlap => Apart)
  BY DEF IInv
<1>d. PICK d : d = born + 1
  OBVIOUS
<1>1. /\ born' = d /\ entry' = d /\ mail' = Told(entry, TabMsg("Close"))
      /\ pc' = [pc EXCEPT ![d] = "opening"] /\ named' = [named EXCEPT ![d] = cmds[1].arg]
      /\ UNCHANGED <<acts, conn, run, pending, last, follow, asked, overlap,
                     faults, events, cur, cancelled, flag, started, result>>
  BY <1>d DEF DispatchConnect, uiVars, history
<1>2. /\ cmds' \in Seq(Commands) /\ cmds[1] \in Commands /\ 1 \in 1..Len(cmds)
      /\ \A i \in 1..Len(cmds') : i + 1 \in 1..Len(cmds) /\ cmds'[i] = cmds[i + 1] /\ 1 < i + 1
      /\ \A k \in 1..Len(cmds) : k = 1 \/ \E i \in 1..Len(cmds') : k = i + 1 /\ cmds'[i] = cmds[k]
      /\ CountOf("Connect", cmds') \in Nat
      /\ CountOf("Connect", cmds) = CountOf("Connect", cmds') + (IF cmds[1].kind = "Connect" THEN 1 ELSE 0)
  BY <1>0, CommandTaken
<1>3. /\ d \in Actors /\ born \in Nat /\ d \in Nat /\ pc[d] = "unborn" /\ ~Up(d) /\ d # entry /\ d <= MaxActors
  <2>1. born \in Nat /\ born + 1 <= MaxActors
    <3>1. born \in Nat /\ CountOf("Connect", cmds) = CountOf("Connect", cmds') + 1
      BY <1>0, <1>2, TypeFacts
    <3>2. born + CountOf("Connect", cmds) <= MaxActors
      BY <1>0 DEF WithinBounds
    <3> QED BY <1>2, <3>1, <3>2, Bounds
  <2>2. d \in Actors
    BY <1>d, <2>1, Bounds DEF Actors
  <2>3. pc[d] = "unborn"
    BY <1>0, <1>d, <2>1, <2>2 DEF ActorsAsBorn
  <2>4. entry \in {0, born}
    BY <1>0 DEF ActorsAsBorn
  <2> QED BY <1>d, <2>1, <2>2, <2>3, <2>4 DEF Up
<1>4. /\ pc'[d] = "opening" /\ \A b \in Actors : b # d => pc'[b] = pc[b]
      /\ Up(d)' /\ \A b \in Actors : b # d => (Up(b)' <=> Up(b))
  BY <1>0, <1>1, <1>3 DEF TypeOK, Up
<1>5. /\ TabMsg("Close") \in Msgs /\ TabMsg("Close").kind = "Close"
  BY MsgFacts
<1>6. /\ mail' \in [Actors -> Seq(Msgs)]
      /\ entry = 0 \/ ~Up(entry) => mail' = mail
      /\ \A b \in Actors : ~Up(b) => mail'[b] = mail[b]
      /\ \A b \in Actors : \A i \in 1..Len(mail'[b]) :
            \/ i \in 1..Len(mail[b]) /\ mail'[b][i] = mail[b][i]
            \/ b = entry /\ Up(entry) /\ i = Len(mail[b]) + 1 /\ mail'[b][i] = TabMsg("Close")
      /\ \A b \in Actors : RunsWithin(mail'[b], mail[b])
  BY <1>0, <1>1, <1>5, ToldFacts
<1>7. TypeOK'
  <2>1. pc' \in [Actors -> {"unborn", "opening", "idle", "checking", "running",
                            "ending", "closing", "gone"}]
    BY <1>0, <1>1 DEF TypeOK
  <2>2. cmds[1].arg \in BOOLEAN
    BY <1>2, CommandFacts
  <2>3. named \in [Actors -> BOOLEAN]
    BY <1>0 DEF TypeOK
  <2>4. named' \in [Actors -> BOOLEAN]
    BY <1>1, <2>2, <2>3, Zenon
  <2>5. \A b \in Actors : ~Up(b)' => mail'[b] = <<>>
    BY <1>0, <1>4, <1>6 DEF TypeOK
  <2>6. born' \in 0..MaxActors /\ entry' \in 0..MaxActors
    BY <1>1, <1>3, Bounds
  <2> QED BY <1>0, <1>1, <1>2, <1>6, <2>1, <2>4, <2>5, <2>6 DEF TypeOK
<1>8. WithinBounds'
  <2>1. born' + CountOf("Connect", cmds') = born + CountOf("Connect", cmds)
    BY <1>d, <1>1, <1>2, <1>3
  <2> QED BY <1>0, <1>1, <2>1 DEF WithinBounds
<1>9. ActorsAsBorn'
  <2>1. \A b \in Actors : pc'[b] = "unborn" <=> b > born'
    <3>1. \A b \in Actors : b \in Nat /\ (pc[b] = "unborn" <=> b > born)
      BY <1>0 DEF ActorsAsBorn, Actors
    <3>2. \A b \in Actors : b # d => (b > born' <=> b > born)
      BY <1>d, <1>1, <1>3, <3>1
    <3> QED BY <1>1, <1>3, <1>4, <3>1, <3>2
  <2>2. \A b \in Actors : \A i \in 1..Len(mail'[b]) :
           mail'[b][i].kind # "None" /\ (mail'[b][i].kind = "Close" => entry' # b)
    <3>1. ASSUME NEW b \in Actors, NEW i \in 1..Len(mail'[b])
          PROVE  mail'[b][i].kind # "None" /\ entry' # b
      <4>1. CASE b = d
        <5>1. mail'[b] = <<>>
          BY <1>0, <1>3, <1>6, <4>1 DEF TypeOK
        <5> QED BY <3>1, <5>1
      <4>2. CASE b # d
        <5>1. \A k \in 1..Len(mail[b]) : mail[b][k].kind # "None"
          BY <1>0 DEF ActorsAsBorn
        <5>2. \/ i \in 1..Len(mail[b]) /\ mail'[b][i] = mail[b][i]
              \/ mail'[b][i] = TabMsg("Close")
          BY <1>6, <3>1
        <5>3. mail'[b][i].kind # "None"
          BY <1>5, <5>1, <5>2
        <5> QED BY <1>1, <4>2, <5>3
      <4> QED BY <4>1, <4>2
    <3> QED BY <3>1
  <2>3. \A b \in Actors :
           /\ pc'[b] = "checking" => cur[b].kind \in {"Run", "Use"}
           /\ pc'[b] \in {"running", "ending"} => cur[b].kind = "Run"
           /\ pc'[b] \notin {"checking", "running", "ending"} => cur[b].kind = "None"
    BY <1>0, <1>3, <1>4 DEF ActorsAsBorn
  <2>4. entry' \in {0, born'}
    BY <1>1
  <2> QED BY <1>1, <2>1, <2>2, <2>3, <2>4 DEF ActorsAsBorn
<1>10. RunsApart'
  <2>1. RunsWithin(cmds', cmds)
    BY <1>0, TypeFacts, RunsWithinFacts
  <2>2. run' = run /\ result' = result /\ run.id \in Nat
    BY <1>0, <1>1, TypeFacts
  <2>3. run'.id \in Nat /\ run.id <= run'.id
    BY <2>2
  <2>4. \A b \in Actors :
           /\ cur'[b] = cur[b] \/ cur'[b].kind # "Run"
           /\ pc'[b] \in {"checking", "running"} /\ cur'[b].kind = "Run" => pc[b] \in {"checking", "running"}
           /\ pc'[b] = "ending" => pc[b] = "ending" /\ cur'[b] = cur[b]
    BY <1>1, <1>4
  <2> QED BY <1>0, <1>6, <2>1, <2>2, <2>3, <2>4, WaitKept
<1>11. ToldAsEnded' /\ ShownIsLast' /\ OutcomeIsReal'
  BY <1>0, <1>1 DEF ToldAsEnded, ShownIsLast, OutcomeIsReal, IsLive
<1>12. ASSUME ~overlap PROVE Apart'
  <2>0. OneSession /\ NewsInOrder /\ WorksOnShown /\ CancelIsMeant /\ ExecutesOnce /\ LiveIsUnderWay
    BY <1>0, <1>12 DEF Apart
  <2>1. /\ NoneUp
        /\ \A j \in 1..Len(cmds) : (cmds[j].kind = "Connect" => j = 1) /\ (cmds[j].kind = "Run" => j < 1)
    BY <1>2, <2>0 DEF OneSession
  <2>2. /\ \A j \in 1..Len(cmds) : cmds[j].kind # "Run"
        /\ \A i \in 1..Len(cmds') : cmds'[i].kind \notin {"Connect", "Run"}
    BY <1>2, <2>1
  <2>3. NoWork /\ \A b \in Actors : mail[b] = <<>> /\ cur[b].kind # "Run"
    BY <1>0, <2>1, NoneUpNoWork
  <2>4. \A b \in Actors : mail'[b] = <<>> /\ cur'[b].kind # "Run"
    BY <1>1, <1>6, <2>1, <2>3 DEF NoneUp
  <2>5. Free({"ConnectionLost"}, events)
    <3>1. ~Free({"Connect"}, cmds)
      BY <1>2 DEF Free
    <3> QED BY <2>0, <3>1 DEF OneSession
  <2>6. /\ conn # "Connected" /\ Free({"Connected", "Reconnected"}, events)
    <3>1. Waiting
      BY <1>2 DEF Waiting, Free
    <3> QED BY <2>0, <3>1 DEF NewsInOrder
  <2>7. \A b \in Actors : Up(b)' => b = d
    BY <1>4, <2>1 DEF NoneUp
  <2>8. ~NoneUp' /\ ~SessionUp'
    <3>1. ~NoneUp'
      BY <1>3, <1>4 DEF NoneUp
    <3>2. ~SessionUp'
      BY <1>1, <1>4 DEF SessionUp
    <3> QED BY <3>1, <3>2
  <2>9. OneSession'
    BY <1>1, <2>2, <2>5, <2>7 DEF OneSession
  <2>10. NewsInOrder'
    BY <1>1, <2>6, <2>8 DEF NewsInOrder
  <2>11. WorksOnShown' /\ CancelIsMeant'
    <3>1. \A b \in Actors : 1..Len(mail'[b]) = {}
      BY <2>4
    <3>2. NoWork'
      BY <2>2, <2>4, <3>1 DEF NoWork, InHand, Ahead
    <3> QED BY <1>9, <3>2, NoWorkKept
  <2>12. ExecutesOnce'
    BY <1>1, <2>0 DEF ExecutesOnce, IsLive
  <2>13. LiveIsUnderWay'
    <3>1. /\ \A i \in 1..Len(cmds) : ~IsRunFor(cmds[i], run.id)
          /\ \A b \in Actors : ~IsRunFor(cur[b], run.id) /\ \A i \in 1..Len(mail[b]) : ~IsRunFor(mail[b][i], run.id)
      BY <2>2, <2>3 DEF IsRunFor
    <3> QED BY <1>1, <2>0, <3>1 DEF LiveIsUnderWay, IsLive
  <2> QED BY <2>9, <2>10, <2>11, <2>12, <2>13 DEF Apart
<1> QED BY <1>1, <1>7, <1>8, <1>9, <1>10, <1>11, <1>12 DEF IInv

LEMMA DisconnectTaken ==
  ASSUME IInv, cmds # <<>>, cmds' = Tail(cmds), cmds[1].kind = "Disconnect", DispatchDisconnect,
         UNCHANGED <<acts, faults, uiVars, history>>
  PROVE  IInv'
<1>0. /\ TypeOK /\ WithinBounds /\ ActorsAsBorn /\ RunsApart /\ ToldAsEnded /\ ShownIsLast
      /\ OutcomeIsReal /\ (~overlap => Apart)
  BY DEF IInv
<1>1. /\ entry' = 0 /\ mail' = Told(entry, TabMsg("Close"))
      /\ UNCHANGED <<acts, conn, run, pending, last, follow, asked, overlap,
                     faults, born, pc, named, cur, cancelled, flag, started, result>>
      /\ IF entry = 0 THEN events' = Append(events, Event("Disconnected", FALSE)) ELSE events' = events
  BY DEF DispatchDisconnect, Emit, uiVars, history
<1>2. /\ cmds' \in Seq(Commands) /\ 1 \in 1..Len(cmds)
      /\ \A i \in 1..Len(cmds') : i + 1 \in 1..Len(cmds) /\ cmds'[i] = cmds[i + 1] /\ 1 < i + 1
      /\ \A k \in 1..Len(cmds) : k = 1 \/ \E i \in 1..Len(cmds') : k = i + 1 /\ cmds'[i] = cmds[k]
      /\ CountOf("Connect", cmds') \in Nat
      /\ CountOf("Connect", cmds) = CountOf("Connect", cmds') + (IF cmds[1].kind = "Connect" THEN 1 ELSE 0)
  BY <1>0, CommandTaken
<1>3. CountOf("Connect", cmds') = CountOf("Connect", cmds)
  BY <1>2
<1>4. TabMsg("Close") \in Msgs /\ TabMsg("Close").kind = "Close"
  BY MsgFacts
<1>5. /\ mail' \in [Actors -> Seq(Msgs)]
      /\ entry = 0 \/ ~Up(entry) => mail' = mail
      /\ \A b \in Actors : ~Up(b) => mail'[b] = mail[b]
      /\ \A b \in Actors : \A i \in 1..Len(mail[b]) : i \in 1..Len(mail'[b]) /\ mail'[b][i] = mail[b][i]
      /\ \A b \in Actors : \A i \in 1..Len(mail'[b]) :
            \/ i \in 1..Len(mail[b]) /\ mail'[b][i] = mail[b][i]
            \/ b = entry /\ Up(entry) /\ i = Len(mail[b]) + 1 /\ mail'[b][i] = TabMsg("Close")
      /\ entry # 0 /\ Up(entry) => \E i \in 1..Len(mail'[entry]) : mail'[entry][i] = TabMsg("Close")
      /\ \A b \in Actors : RunsWithin(mail'[b], mail[b])
  BY <1>0, <1>1, <1>4, ToldFacts
<1>6. \A b \in Actors : Up(b)' <=> Up(b)
  BY <1>1 DEF Up
<1>7. /\ events' \in Seq(Events) /\ CountOf("ConnectionLost", events') = CountOf("ConnectionLost", events)
      /\ \A i \in 1..Len(events') : \/ i \in 1..Len(events) /\ events'[i] = events[i]
                                    \/ entry = 0 /\ events'[i].kind = "Disconnected"
      /\ \A i \in 1..Len(events) : i \in 1..Len(events') /\ events'[i] = events[i]
      /\ Free({"Connected", "Reconnected"}, events) => Free({"Connected", "Reconnected"}, events')
      /\ Free({"ConnectionLost"}, events) => Free({"ConnectionLost"}, events')
      /\ Free(SessionEnds, events') => Free(SessionEnds, events)
      /\ Followed({"Connected", "Reconnected"}, SessionEnds, events)
            => Followed({"Connected", "Reconnected"}, SessionEnds, events')
  <2>1. CASE entry # 0
    <3>1. events' = events /\ events \in Seq(Events)
      BY <1>0, <1>1, <2>1 DEF TypeOK
    <3> QED BY <3>1
  <2>2. CASE entry = 0
    <3>1. PICK e \in Events : events' = Append(events, e) /\ e.kind = "Disconnected"
      <4>1. events' = Append(events, Event("Disconnected", FALSE))
        BY <1>1, <2>2
      <4>2. Event("Disconnected", FALSE) \in Events /\ Event("Disconnected", FALSE).kind = "Disconnected"
        BY EventFacts DEF EventKinds, SessionEvents, SessionEnds
      <4> QED BY <4>1, <4>2, Zenon
    <3>2. /\ events' \in Seq(Events)
          /\ \A i \in 1..Len(events') : \/ i \in 1..Len(events) /\ events'[i] = events[i]
                                        \/ events'[i].kind = "Disconnected"
          /\ \A i \in 1..Len(events) : i \in 1..Len(events') /\ events'[i] = events[i]
      BY <1>0, <3>1, Emitted
    <3>3. CountOf("ConnectionLost", events') = CountOf("ConnectionLost", events)
      BY <1>0, <3>1, Emitted
    <3>4. /\ Free({"Connected", "Reconnected"}, events) => Free({"Connected", "Reconnected"}, events')
          /\ Free({"ConnectionLost"}, events) => Free({"ConnectionLost"}, events')
          /\ Free(SessionEnds, events') => Free(SessionEnds, events)
          /\ Followed({"Connected", "Reconnected"}, SessionEnds, events)
                => Followed({"Connected", "Reconnected"}, SessionEnds, events')
      BY <1>0, <3>1, Emitted
    <3> QED BY <2>2, <3>2, <3>3, <3>4
  <2> QED BY <2>1, <2>2
<1>8. TypeOK'
  <2>1. \A b \in Actors : ~Up(b)' => mail'[b] = <<>>
    BY <1>0, <1>5, <1>6 DEF TypeOK
  <2>2. entry' \in 0..MaxActors
    BY <1>1, Bounds
  <2> QED BY <1>0, <1>1, <1>2, <1>5, <1>7, <2>1, <2>2 DEF TypeOK
<1>9. WithinBounds'
  BY <1>0, <1>1, <1>3, <1>7 DEF WithinBounds
<1>10. ActorsAsBorn'
  <2>1. /\ entry' = 0
        /\ \A b \in Actors :
              /\ b # entry'
              /\ pc[b] = "unborn" <=> b > born
              /\ pc[b] = "checking" => cur[b].kind \in {"Run", "Use"}
              /\ pc[b] \in {"running", "ending"} => cur[b].kind = "Run"
              /\ pc[b] \notin {"checking", "running", "ending"} => cur[b].kind = "None"
    BY <1>0, <1>1 DEF ActorsAsBorn, Actors
  <2>2. \A b \in Actors : \A i \in 1..Len(mail'[b]) : mail'[b][i].kind # "None"
    <3>1. \A b \in Actors : \A i \in 1..Len(mail[b]) : mail[b][i].kind # "None"
      BY <1>0 DEF ActorsAsBorn
    <3>2. ASSUME NEW b \in Actors, NEW i \in 1..Len(mail'[b]) PROVE mail'[b][i].kind # "None"
      <4>1. \/ i \in 1..Len(mail[b]) /\ mail'[b][i] = mail[b][i]
            \/ mail'[b][i] = TabMsg("Close")
        BY <1>5, <3>2
      <4> QED BY <1>4, <3>1, <4>1
    <3> QED BY <3>2
  <2> QED BY <1>1, <2>1, <2>2 DEF ActorsAsBorn
<1>11. RunsApart' /\ ToldAsEnded' /\ ShownIsLast' /\ OutcomeIsReal'
  <2>1. \A i \in 1..Len(events') : events'[i].kind = "RunDone" => \E k \in 1..Len(events) : events'[i] = events[k]
    BY <1>7
  <2>2. UNCHANGED <<acts, faults, uiVars, history, pc, cur>>
    BY <1>1
  <2> QED BY <1>1, <1>4, <2>1, <2>2, TookCommand
<1>12. ASSUME ~overlap PROVE Apart'
  <2>0. OneSession /\ NewsInOrder /\ WorksOnShown /\ CancelIsMeant /\ ExecutesOnce /\ LiveIsUnderWay
    BY <1>0, <1>12 DEF Apart
  <2>1. Free({"Connect"}, cmds) /\ Free({"Connect"}, cmds')
    BY <1>2, <2>0 DEF OneSession, Free
  <2>2. /\ ~InHand
        /\ \A b \in Actors : cur[b].kind # "Run" /\ \A i \in 1..Len(mail[b]) : mail[b][i].kind # "Run"
    <3>1. ~Free({"Disconnect"}, cmds)
      BY <1>2 DEF Free
    <3> QED BY <2>0, <3>1 DEF WorksOnShown, InHand
  <2>3. \A b \in Actors : \A i \in 1..Len(mail'[b]) : mail'[b][i].kind # "Run"
    BY <1>4, <1>5, <2>2
  <2>4. ~SessionUp' /\ (NoneUp' <=> NoneUp) /\ (Waiting' => Waiting)
    <3>1. ~SessionUp' /\ (NoneUp' <=> NoneUp)
      BY <1>1, <1>6 DEF SessionUp, NoneUp
    <3>2. Waiting' => Waiting
      BY <1>1, <2>1 DEF Waiting
    <3> QED BY <3>1, <3>2
  <2>5. OneSession'
    <3>1. \A b \in Actors : Up(b)' => b = born'
      BY <1>1, <1>6, <2>0 DEF OneSession
    <3>2. ASSUME NEW b \in Actors, Up(b)
          PROVE  pc'[b] = "closing" \/ \E i \in 1..Len(mail'[b]) : mail'[b][i].kind = "Close"
      <4>1. CASE entry = b
        <5>1. entry # 0 /\ Up(entry)
          BY <3>2, <4>1 DEF Actors
        <5>2. PICK i \in 1..Len(mail'[entry]) : mail'[entry][i] = TabMsg("Close")
          BY <1>5, <5>1
        <5> QED BY <1>4, <4>1, <5>2
      <4>2. CASE entry # b
        <5>1. pc[b] = "closing" \/ \E i \in 1..Len(mail[b]) : mail[b][i].kind = "Close"
          BY <2>0, <3>2, <4>2 DEF OneSession
        <5> QED BY <1>1, <1>5, <5>1
      <4> QED BY <4>1, <4>2
    <3>3. \A i \in 1..Len(cmds') : cmds'[i].kind # "Connect"
      BY <2>1 DEF Free
    <3>4. Free({"ConnectionLost"}, events') \/ (NoneUp' /\ Free({"Connect"}, cmds'))
      BY <1>7, <2>0, <2>1, <2>4 DEF OneSession
    <3> QED BY <1>6, <3>1, <3>2, <3>3, <3>4 DEF OneSession
  <2>6. NewsInOrder'
    BY <1>1, <1>7, <2>0, <2>4 DEF NewsInOrder
  <2>7. WorksOnShown' /\ CancelIsMeant'
    <3>1. \A i : ~Heard(i)'
      BY <1>1 DEF Heard
    <3>2. NoWork'
      BY <1>1, <2>2, <2>3, <3>1 DEF NoWork, InHand, Ahead
    <3> QED BY <1>10, <3>2, NoWorkKept
  <2>8. ExecutesOnce'
    <3>1. \A i \in 1..Len(events') : events'[i].kind = "ConnectionLost"
             => i \in 1..Len(events) /\ events'[i] = events[i]
      BY <1>7
    <3> QED BY <1>1, <2>0, <3>1 DEF ExecutesOnce, IsLive
  <2>9. LiveIsUnderWay'
    <3>1. CASE ~IsLive(run)
      BY <1>1, <3>1 DEF LiveIsUnderWay, IsLive
    <3>2. CASE \E i \in 1..Len(cmds) : IsRunFor(cmds[i], run.id)
      <4>1. PICK k \in 1..Len(cmds) : IsRunFor(cmds[k], run.id)
        BY <3>2
      <4>2. k # 1
        BY <4>1 DEF IsRunFor
      <4>3. PICK i \in 1..Len(cmds') : cmds'[i] = cmds[k]
        BY <1>2, <4>2
      <4> QED BY <1>1, <4>1, <4>3 DEF LiveIsUnderWay
    <3>3. CASE \E i \in 1..Len(events) :
                  \/ events[i].kind \in {"Disconnected", "ConnectionLost", "NotConnected"}
                  \/ events[i].kind = "RunDone" /\ events[i].id = run.id
      BY <1>1, <1>7, <3>3 DEF LiveIsUnderWay
    <3>4. \A b \in Actors : ~IsRunFor(cur[b], run.id) /\ \A i \in 1..Len(mail[b]) : ~IsRunFor(mail[b][i], run.id)
      BY <2>2 DEF IsRunFor
    <3> QED BY <2>0, <3>1, <3>2, <3>3, <3>4 DEF LiveIsUnderWay
  <2> QED BY <2>5, <2>6, <2>7, <2>8, <2>9 DEF Apart
<1> QED BY <1>1, <1>8, <1>9, <1>10, <1>11, <1>12 DEF IInv

\* Nobody is there to be told: the tab hears that it is not connected.
LEMMA RouteDeadStep ==
  ASSUME IInv, cmds # <<>>, cmds' = Tail(cmds), cmds[1].kind \in {"Run", "Cancel", "Use"},
         NEW msg \in Msgs, Route(msg), entry = 0 \/ ~Up(entry),
         UNCHANGED <<acts, faults, uiVars, history>>
  PROVE  IInv'
<1>0. /\ TypeOK /\ WithinBounds /\ ActorsAsBorn /\ RunsApart /\ ToldAsEnded /\ ShownIsLast
      /\ OutcomeIsReal /\ (~overlap => Apart)
  BY DEF IInv
<1>1. /\ mail' = mail
      /\ UNCHANGED <<acts, conn, run, pending, last, follow, asked, overlap,
                     faults, born, entry, pc, named, cur, cancelled, flag, started, result>>
      /\ \/ events' = Append(events, Event("NotConnected", FALSE))
         \/ events' = Append(events, Event("Disconnected", FALSE))
  <2>1. mail' = mail
    BY DEF Route, Told
  <2> QED BY <2>1 DEF Route, Emit, uiVars, history
<1>2. /\ cmds' \in Seq(Commands) /\ 1 \in 1..Len(cmds)
      /\ \A i \in 1..Len(cmds') : i + 1 \in 1..Len(cmds) /\ cmds'[i] = cmds[i + 1] /\ 1 < i + 1
      /\ \A k \in 1..Len(cmds) : k = 1 \/ \E i \in 1..Len(cmds') : k = i + 1 /\ cmds'[i] = cmds[k]
      /\ CountOf("Connect", cmds') \in Nat
      /\ CountOf("Connect", cmds) = CountOf("Connect", cmds') + (IF cmds[1].kind = "Connect" THEN 1 ELSE 0)
      /\ \A kinds : Free(kinds, cmds) <=> Free(kinds, cmds') /\ cmds[1].kind \notin kinds
  BY <1>0, CommandTaken
<1>3. CountOf("Connect", cmds') = CountOf("Connect", cmds)
  BY <1>2
<1>4. PICK e \in Events : events' = Append(events, e) /\ e.kind \in {"NotConnected", "Disconnected"}
  <2>1. /\ Event("NotConnected", FALSE) \in Events /\ Event("NotConnected", FALSE).kind = "NotConnected"
        /\ Event("Disconnected", FALSE) \in Events /\ Event("Disconnected", FALSE).kind = "Disconnected"
    BY EventFacts DEF EventKinds, SessionEvents, SessionEnds
  <2>2. CASE events' = Append(events, Event("NotConnected", FALSE))
    BY <2>1, <2>2, Zenon
  <2>3. CASE events' = Append(events, Event("Disconnected", FALSE))
    BY <2>1, <2>3, Zenon
  <2> QED BY <1>1, <2>2, <2>3
<1>5. /\ events' \in Seq(Events)
      /\ \A i \in 1..Len(events') : \/ i \in 1..Len(events) /\ events'[i] = events[i]
                                    \/ events'[i].kind \in {"NotConnected", "Disconnected"}
      /\ \E i \in 1..Len(events') : events'[i].kind \in {"NotConnected", "Disconnected"}
  BY <1>0, <1>4, Emitted
<1>6. CountOf("ConnectionLost", events') = CountOf("ConnectionLost", events)
  BY <1>0, <1>4, Emitted
<1>7. /\ Free({"Connected", "Reconnected"}, events) => Free({"Connected", "Reconnected"}, events')
      /\ Free({"ConnectionLost"}, events) => Free({"ConnectionLost"}, events')
      /\ Free(SessionEnds, events') => Free(SessionEnds, events)
      /\ Followed({"Connected", "Reconnected"}, SessionEnds, events)
            => Followed({"Connected", "Reconnected"}, SessionEnds, events')
  BY <1>0, <1>4, Emitted
<1>8. TypeOK'
  <2>1. \A b \in Actors : ~Up(b)' => mail'[b] = <<>>
    BY <1>0, <1>1 DEF TypeOK, Up
  <2> QED BY <1>0, <1>1, <1>2, <1>5, <2>1 DEF TypeOK
<1>9. WithinBounds' /\ ActorsAsBorn'
  BY <1>0, <1>1, <1>3, <1>6 DEF WithinBounds, ActorsAsBorn
<1>10. RunsApart' /\ ToldAsEnded' /\ ShownIsLast' /\ OutcomeIsReal'
  <2>1. \A i \in 1..Len(events') : events'[i].kind = "RunDone" => \E k \in 1..Len(events) : events'[i] = events[k]
    BY <1>5
  <2>2. UNCHANGED <<acts, faults, uiVars, history, pc, cur>>
    BY <1>1
  <2>3. TabMsg("Close") \in Msgs /\ TabMsg("Close").kind # "Run" /\ mail' = Told(entry, TabMsg("Close"))
    BY <1>1, MsgFacts DEF Told
  <2> QED BY <2>1, <2>2, <2>3, TookCommand
<1>11. ASSUME ~overlap PROVE Apart'
  <2>0. OneSession /\ NewsInOrder /\ WorksOnShown /\ CancelIsMeant /\ ExecutesOnce /\ LiveIsUnderWay
    BY <1>0, <1>11 DEF Apart
  <2>1. ~SessionUp /\ ~SessionUp' /\ (NoneUp' <=> NoneUp) /\ \A b \in Actors : Up(b)' <=> Up(b)
    BY <1>1 DEF SessionUp, NoneUp, Up
  <2>2. Waiting' => Waiting
    <3>1. Free({"Connect"}, cmds) => Free({"Connect"}, cmds')
      BY <1>2
    <3> QED BY <1>1, <3>1 DEF Waiting
  <2>3. NoWork
    BY <2>0, <2>1, NoWorkFacts DEF OnIt
  <2>4. OneSession'
    <3>1. ASSUME NEW i \in 1..Len(cmds'), cmds'[i].kind = "Connect"
          PROVE  /\ NoneUp
                 /\ \A j \in 1..Len(cmds') : /\ cmds'[j].kind = "Connect" => j = i
                                             /\ cmds'[j].kind = "Disconnect" => i < j
                                             /\ cmds'[j].kind = "Run" => j < i
      <4>1. i + 1 \in 1..Len(cmds) /\ cmds[i + 1].kind = "Connect"
        BY <1>2, <3>1
      <4>2. /\ NoneUp
            /\ \A j \in 1..Len(cmds) : /\ cmds[j].kind = "Connect" => j = i + 1
                                       /\ cmds[j].kind = "Disconnect" => i + 1 < j
                                       /\ cmds[j].kind = "Run" => j < i + 1
        BY <2>0, <4>1 DEF OneSession
      <4>3. ASSUME NEW j \in 1..Len(cmds')
            PROVE  /\ cmds'[j].kind = "Connect" => j = i
                   /\ cmds'[j].kind = "Disconnect" => i < j
                   /\ cmds'[j].kind = "Run" => j < i
        <5>1. j + 1 \in 1..Len(cmds) /\ cmds'[j] = cmds[j + 1]
          BY <1>2
        <5> QED BY <4>2, <5>1
      <4> QED BY <4>2, <4>3
    <3>2. Free({"ConnectionLost"}, events') \/ (NoneUp' /\ Free({"Connect"}, cmds'))
      BY <1>2, <1>7, <2>0, <2>1 DEF OneSession
    <3>3. /\ \A b \in Actors : Up(b) => b = born
          /\ \A b \in Actors : Up(b) /\ entry # b
                => pc[b] = "closing" \/ \E i \in 1..Len(mail[b]) : mail[b][i].kind = "Close"
      BY <2>0 DEF OneSession
    <3> QED BY <1>1, <2>1, <3>1, <3>2, <3>3 DEF OneSession
  <2>5. NewsInOrder'
    BY <1>1, <1>7, <2>0, <2>1, <2>2 DEF NewsInOrder
  <2>6. WorksOnShown' /\ CancelIsMeant'
    <3>1. \A i : ~Heard(i)'
      BY <1>1 DEF Heard, Up
    <3>2. NoWork'
      BY <1>1, <2>3, <3>1 DEF NoWork, InHand, Ahead
    <3> QED BY <1>9, <3>2, NoWorkKept
  <2>7. ExecutesOnce'
    <3>1. \A i \in 1..Len(events') : events'[i].kind = "ConnectionLost"
             => i \in 1..Len(events) /\ events'[i] = events[i]
      BY <1>5
    <3> QED BY <1>1, <2>0, <3>1 DEF ExecutesOnce, IsLive
  <2>8. LiveIsUnderWay'
    BY <1>5 DEF LiveIsUnderWay
  <2> QED BY <2>4, <2>5, <2>6, <2>7, <2>8 DEF Apart
<1> QED BY <1>1, <1>8, <1>9, <1>10, <1>11 DEF IInv

\* The tab's actor gets what was sent to it.
LEMMA RouteUpStep ==
  ASSUME IInv, cmds # <<>>, cmds' = Tail(cmds), cmds[1].kind \in {"Run", "Cancel", "Use"},
         NEW msg \in Msgs, msg.kind = cmds[1].kind, msg.kind = "Run" => msg = RunMsg(cmds[1].run),
         Route(msg), entry # 0, Up(entry),
         UNCHANGED <<acts, faults, uiVars, history>>
  PROVE  IInv'
<1>0. /\ TypeOK /\ WithinBounds /\ ActorsAsBorn /\ RunsApart /\ ToldAsEnded /\ ShownIsLast
      /\ OutcomeIsReal /\ (~overlap => Apart)
  BY DEF IInv
<1>1. /\ mail' = Told(entry, msg) /\ mail' = [mail EXCEPT ![entry] = Append(@, msg)]
      /\ UNCHANGED <<acts, conn, run, pending, last, follow, asked, overlap,
                     faults, events, born, entry, pc, named, cur, cancelled, flag, started, result>>
  <2>1. mail' = [mail EXCEPT ![entry] = Append(@, msg)]
    BY DEF Route, Told
  <2> QED BY <2>1 DEF Route, uiVars, history
<1>2. /\ cmds' \in Seq(Commands) /\ cmds[1] \in Commands /\ 1 \in 1..Len(cmds)
      /\ \A i \in 1..Len(cmds') : i + 1 \in 1..Len(cmds) /\ cmds'[i] = cmds[i + 1] /\ 1 < i + 1
      /\ \A k \in 1..Len(cmds) : k = 1 \/ \E i \in 1..Len(cmds') : k = i + 1 /\ cmds'[i] = cmds[k]
      /\ CountOf("Connect", cmds') \in Nat
      /\ CountOf("Connect", cmds) = CountOf("Connect", cmds') + (IF cmds[1].kind = "Connect" THEN 1 ELSE 0)
      /\ \A kinds : Free(kinds, cmds) <=> Free(kinds, cmds') /\ cmds[1].kind \notin kinds
  BY <1>0, CommandTaken
<1>3. entry \in Actors /\ Heard(1) /\ (msg.kind = "Run" => msg.run = cmds[1].run)
  <2>1. 1..1 - 1 = {}
    OBVIOUS
  <2>2. msg.kind = "Run" => msg.run = cmds[1].run
    BY MsgFacts
  <2> QED BY <1>0, <2>1, <2>2, EntryFacts DEF Heard
<1>4. /\ mail' \in [Actors -> Seq(Msgs)]
      /\ \A b \in Actors : ~Up(b) => mail'[b] = mail[b]
      /\ \A b \in Actors : \A i \in 1..Len(mail[b]) : i \in 1..Len(mail'[b]) /\ mail'[b][i] = mail[b][i]
      /\ \A b \in Actors : \A i \in 1..Len(mail'[b]) :
            \/ i \in 1..Len(mail[b]) /\ mail'[b][i] = mail[b][i]
            \/ b = entry /\ Up(entry) /\ i = Len(mail[b]) + 1 /\ mail'[b][i] = msg
      /\ \E i \in 1..Len(mail'[entry]) : mail'[entry][i] = msg
  BY <1>0, <1>1, ToldFacts
<1>5. \A b \in Actors : Up(b)' <=> Up(b)
  BY <1>1 DEF Up
<1>6. TypeOK'
  <2>1. \A b \in Actors : ~Up(b)' => mail'[b] = <<>>
    BY <1>0, <1>4, <1>5 DEF TypeOK
  <2> QED BY <1>0, <1>1, <1>2, <1>4, <2>1 DEF TypeOK
<1>7. WithinBounds'
  <2>1. CountOf("Connect", cmds') = CountOf("Connect", cmds)
    BY <1>2
  <2> QED BY <1>0, <1>1, <2>1 DEF WithinBounds
<1>8. ActorsAsBorn'
  <2>1. ASSUME NEW b \in Actors, NEW i \in 1..Len(mail'[b])
        PROVE  mail'[b][i].kind # "None" /\ (mail'[b][i].kind = "Close" => entry # b)
    <3>1. \A k \in 1..Len(mail[b]) : mail[b][k].kind # "None" /\ (mail[b][k].kind = "Close" => entry # b)
      BY <1>0 DEF ActorsAsBorn
    <3>2. (i \in 1..Len(mail[b]) /\ mail'[b][i] = mail[b][i]) \/ mail'[b][i] = msg
      BY <1>4, <2>1
    <3> QED BY <3>1, <3>2
  <2>2. /\ entry \in {0, born}
        /\ \A b \in Actors :
              /\ pc[b] = "unborn" <=> b > born
              /\ pc[b] = "checking" => cur[b].kind \in {"Run", "Use"}
              /\ pc[b] \in {"running", "ending"} => cur[b].kind = "Run"
              /\ pc[b] \notin {"checking", "running", "ending"} => cur[b].kind = "None"
    BY <1>0 DEF ActorsAsBorn
  <2> QED BY <1>1, <2>1, <2>2 DEF ActorsAsBorn
<1>9. RunsApart'
  <2>1. CASE msg.kind # "Run"
    <3>1. \A i \in 1..Len(events') : events'[i].kind = "RunDone" => \E k \in 1..Len(events) : events'[i] = events[k]
      BY <1>1
    <3>2. UNCHANGED <<acts, faults, uiVars, history, pc, cur>>
      BY <1>1
    <3> QED BY <1>1, <2>1, <3>1, <3>2, TookCommand
  <2>2. CASE msg.kind = "Run"
    <3>1. OneOfEach(cmds', mail', cur)
      <4>1. mail' = [mail EXCEPT ![entry] = Append(@, RunMsg(cmds[1].run))] /\ OneOfEach(cmds, mail, cur)
        BY <1>0, <1>1, <2>2 DEF RunsApart
      <4> QED BY <1>0, <1>3, <2>2, <4>1, OneRouted
    <3>2. \A i \in 1..Len(cmds) : cmds[i].kind = "Run" => WaitsIn(cmds[i].run)
      BY <1>0 DEF RunsApart
    <3>3. WaitsIn(msg.run)
      BY <1>2, <1>3, <2>2, <3>2
    <3>4. \A i \in 1..Len(cmds') : cmds'[i].kind = "Run" => WaitsIn(cmds'[i].run)
      BY <1>2, <3>2
    <3>5. ASSUME NEW b \in Actors, NEW i \in 1..Len(mail'[b]), mail'[b][i].kind = "Run"
          PROVE  WaitsIn(mail'[b][i].run)
      <4>1. \A k \in 1..Len(mail[b]) : mail[b][k].kind = "Run" => WaitsIn(mail[b][k].run)
        BY <1>0 DEF RunsApart
      <4>2. (i \in 1..Len(mail[b]) /\ mail'[b][i] = mail[b][i]) \/ mail'[b][i] = msg
        BY <1>4, <3>5
      <4> QED BY <3>3, <3>5, <4>1, <4>2
    <3>6. \A b \in Actors :
             /\ pc[b] \in {"checking", "running"} /\ cur[b].kind = "Run" => WaitsIn(cur[b].run)
             /\ pc[b] = "ending" => cur[b].run.id <= run.id /\ result[cur[b].run.id] # "none"
      BY <1>0 DEF RunsApart
    <3> QED BY <1>1, <3>1, <3>4, <3>5, <3>6 DEF RunsApart, WaitsIn
  <2> QED BY <2>1, <2>2
<1>10. ToldAsEnded' /\ ShownIsLast' /\ OutcomeIsReal'
  BY <1>0, <1>1 DEF ToldAsEnded, ShownIsLast, OutcomeIsReal, IsLive
<1>11. ASSUME ~overlap PROVE Apart'
  <2>0. OneSession /\ NewsInOrder /\ WorksOnShown /\ CancelIsMeant /\ ExecutesOnce /\ LiveIsUnderWay
    BY <1>0, <1>11 DEF Apart
  <2>1. /\ \A b \in Actors : Up(b) => b = entry
        /\ Free({"Connect"}, cmds) /\ Free({"ConnectionLost"}, events) /\ ~NoneUp
    BY <1>0, <1>3, <2>0, SingleUp
  <2>2. /\ Free({"Connect"}, cmds') /\ (Free({"Disconnect"}, cmds') <=> Free({"Disconnect"}, cmds))
    BY <1>2, <2>1
  <2>3. \A i \in 1..Len(cmds') : Heard(i)' <=> Heard(i + 1)
    BY <1>0, <1>1, HeardShift
  <2>4. (SessionUp' <=> SessionUp) /\ (NoneUp' <=> NoneUp) /\ (Waiting' => Waiting)
    <3>1. (SessionUp' <=> SessionUp) /\ (NoneUp' <=> NoneUp)
      BY <1>1 DEF SessionUp, NoneUp, Up
    <3>2. Waiting' => Waiting
      BY <1>1, <2>2 DEF Waiting
    <3> QED BY <3>1, <3>2
  <2>5. \A r : OnIt(r) => OnIt(r)'
    BY <1>1, <2>4 DEF OnIt, IsLive
  <2>6. OneSession'
    <3>1. \A b \in Actors : Up(b) => b = born
      BY <2>0 DEF OneSession
    <3>2. \A i \in 1..Len(cmds') : cmds'[i].kind # "Connect"
      BY <2>2 DEF Free
    <3> QED BY <1>1, <1>5, <2>1, <3>1, <3>2 DEF OneSession
  <2>7. NewsInOrder'
    BY <1>1, <2>0, <2>2, <2>4 DEF NewsInOrder
  <2>8. WorksOnShown'
    <3>1. \A i \in 1..Len(cmds) : cmds[i].kind = "Run" /\ Heard(i)
             => OnIt(cmds[i].run) /\ Free({"Disconnect"}, cmds) /\ started[run.intent] = 0
      BY <2>0 DEF WorksOnShown
    <3>2. \A b \in Actors : \A i \in 1..Len(mail[b]) : mail[b][i].kind = "Run"
             => OnIt(mail[b][i].run) /\ entry = b /\ Free({"Disconnect"}, cmds) /\ started[run.intent] = 0
      BY <2>0 DEF WorksOnShown
    <3>3. \A b \in Actors : cur[b].kind = "Run"
             => /\ OnIt(cur[b].run) /\ entry = b /\ Free({"Disconnect"}, cmds)
                /\ pc[b] = "checking" => started[run.intent] = 0
      BY <2>0 DEF WorksOnShown
    <3>4. msg.kind = "Run" => OnIt(msg.run) /\ Free({"Disconnect"}, cmds) /\ started[run.intent] = 0
      BY <1>2, <1>3, <3>1
    <3>5. ASSUME NEW i \in 1..Len(cmds'), cmds'[i].kind = "Run", Heard(i)'
          PROVE  OnIt(cmds[i].run)' /\ Free({"Disconnect"}, cmds') /\ started'[run'.intent] = 0
      <4>1. i + 1 \in 1..Len(cmds) /\ cmds'[i] = cmds[i + 1] /\ Heard(i + 1)
        BY <1>2, <2>3, <3>5
      <4>2. OnIt(cmds[i + 1].run) /\ Free({"Disconnect"}, cmds) /\ started[run.intent] = 0
        BY <3>1, <3>5, <4>1
      <4>3. PICK r : r = cmds[i + 1].run
        OBVIOUS
      <4>4. r = cmds'[i].run /\ OnIt(r)'
        BY <2>5, <4>1, <4>2, <4>3
      <4> QED BY <1>1, <2>2, <4>2, <4>4
    <3>6. ASSUME NEW b \in Actors, NEW i \in 1..Len(mail'[b]), mail'[b][i].kind = "Run"
          PROVE  OnIt(mail[b][i].run)' /\ entry' = b /\ Free({"Disconnect"}, cmds') /\ started'[run'.intent] = 0
      <4>1. PICK m : m = mail'[b][i]
        OBVIOUS
      <4>2. (i \in 1..Len(mail[b]) /\ m = mail[b][i]) \/ (b = entry /\ m = msg)
        <5>1. \/ i \in 1..Len(mail[b]) /\ mail'[b][i] = mail[b][i]
              \/ b = entry /\ mail'[b][i] = msg
          BY <1>4, <3>6
        <5> QED BY <4>1, <5>1
      <4>3. OnIt(m.run) /\ entry = b /\ Free({"Disconnect"}, cmds) /\ started[run.intent] = 0
        BY <3>2, <3>4, <3>6, <4>1, <4>2
      <4>4. PICK r : r = m.run
        OBVIOUS
      <4>5. r = mail'[b][i].run /\ OnIt(r)'
        BY <2>5, <4>1, <4>3, <4>4
      <4> QED BY <1>1, <2>2, <4>3, <4>5
    <3>7. ASSUME NEW b \in Actors, cur'[b].kind = "Run"
          PROVE  /\ OnIt(cur[b].run)' /\ entry' = b /\ Free({"Disconnect"}, cmds')
                 /\ pc'[b] = "checking" => started'[run'.intent] = 0
      <4>1. /\ OnIt(cur[b].run) /\ entry = b /\ Free({"Disconnect"}, cmds)
            /\ pc[b] = "checking" => started[run.intent] = 0
        BY <1>1, <3>3, <3>7
      <4>2. PICK r : r = cur[b].run
        OBVIOUS
      <4>3. r = cur'[b].run /\ OnIt(r)'
        BY <1>1, <2>5, <4>1, <4>2
      <4> QED BY <1>1, <2>2, <4>1, <4>3
    <3> QED BY <3>5, <3>6, <3>7 DEF WorksOnShown
  <2>9. CancelIsMeant'
    <3>1. InHand' <=> InHand
      BY <1>1 DEF InHand
    <3>2. ASSUME NEW i \in 1..Len(cmds'), cmds'[i].kind = "Cancel", run.id \notin asked
          PROVE  ~InHand' /\ ~Ahead' /\ \A j \in 1..i - 1 : cmds'[j].kind = "Run" => ~Heard(j)'
      <4>1. i + 1 \in 1..Len(cmds) /\ cmds[i + 1].kind = "Cancel" /\ 1 \in 1..(i + 1) - 1
        BY <1>2, <3>2
      <4>2. ~InHand /\ ~Ahead /\ \A j \in 1..(i + 1) - 1 : cmds[j].kind = "Run" => ~Heard(j)
        BY <2>0, <3>2, <4>1 DEF CancelIsMeant
      <4>3. msg.kind # "Run"
        BY <1>3, <4>1, <4>2
      <4>4. ~Ahead'
        <5>1. ASSUME NEW b \in Actors, NEW k \in 1..Len(mail'[b]) PROVE mail'[b][k].kind # "Run"
          <6>1. (k \in 1..Len(mail[b]) /\ mail'[b][k] = mail[b][k]) \/ mail'[b][k] = msg
            BY <1>4, <5>1
          <6> QED BY <4>2, <4>3, <6>1 DEF Ahead
        <5> QED BY <5>1 DEF Ahead
      <4>5. ASSUME NEW j \in 1..i - 1, cmds'[j].kind = "Run" PROVE ~Heard(j)'
        <5>1. j \in 1..Len(cmds') /\ j + 1 \in 1..(i + 1) - 1
          OBVIOUS
        <5>2. cmds[j + 1].kind = "Run"
          BY <1>2, <4>5, <5>1
        <5>3. ~Heard(j + 1)
          BY <4>2, <5>1, <5>2
        <5> QED BY <2>3, <5>1, <5>3
      <4> QED BY <3>1, <4>2, <4>4, <4>5
    <3>3. ASSUME NEW b \in Actors, NEW i \in 1..Len(mail'[b]), mail'[b][i].kind = "Cancel", run.id \notin asked
          PROVE  ~InHand' /\ \A j \in 1..i - 1 : mail'[b][j].kind # "Run"
      <4>1. ~InHand /\ \A j \in 1..i - 1 : j \in 1..Len(mail[b]) /\ mail[b][j].kind # "Run"
        <5>1. CASE i \in 1..Len(mail[b]) /\ mail'[b][i] = mail[b][i]
          <6>1. ~InHand /\ \A j \in 1..i - 1 : mail[b][j].kind # "Run"
            BY <2>0, <3>3, <5>1 DEF CancelIsMeant
          <6>2. \A j \in 1..i - 1 : j \in 1..Len(mail[b])
            BY <5>1
          <6> QED BY <6>1, <6>2
        <5>2. CASE i = Len(mail[b]) + 1 /\ mail'[b][i] = msg
          <6>1. cmds[1].kind = "Cancel"
            BY <3>3, <5>2
          <6>2. ~InHand /\ ~Ahead
            BY <1>2, <2>0, <3>3, <6>1 DEF CancelIsMeant
          <6>3. \A j \in 1..i - 1 : j \in 1..Len(mail[b])
            BY <1>0, <5>2, TypeFacts
          <6> QED BY <6>2, <6>3 DEF Ahead
        <5> QED BY <1>4, <3>3, <5>1, <5>2
      <4> QED BY <1>4, <3>1, <4>1
    <3>4. \A b \in Actors : pc[b] \in {"running", "ending"} /\ (cancelled[b] \/ flag[b]) => run.id \in asked
      BY <2>0 DEF CancelIsMeant
    <3> QED BY <1>1, <3>2, <3>3, <3>4 DEF CancelIsMeant
  <2>10. ExecutesOnce'
    BY <1>1, <2>0 DEF ExecutesOnce, IsLive
  <2>11. LiveIsUnderWay'
    <3>1. CASE ~IsLive(run)
      BY <1>1, <3>1 DEF LiveIsUnderWay, IsLive
    <3>2. CASE \E i \in 1..Len(cmds) : IsRunFor(cmds[i], run.id)
      <4>1. PICK k \in 1..Len(cmds) : IsRunFor(cmds[k], run.id)
        BY <3>2
      <4>2. CASE k = 1
        <5>1. IsRunFor(msg, run.id)
          BY <1>3, <4>1, <4>2 DEF IsRunFor
        <5>2. PICK i \in 1..Len(mail'[entry]) : mail'[entry][i] = msg
          BY <1>4
        <5> QED BY <1>1, <1>3, <5>1, <5>2 DEF LiveIsUnderWay
      <4>3. CASE k # 1
        <5>1. PICK i \in 1..Len(cmds') : cmds'[i] = cmds[k]
          BY <1>2, <4>3
        <5> QED BY <1>1, <4>1, <5>1 DEF LiveIsUnderWay
      <4> QED BY <4>2, <4>3
    <3>3. CASE \E b \in Actors : \/ IsRunFor(cur[b], run.id)
                                 \/ \E i \in 1..Len(mail[b]) : IsRunFor(mail[b][i], run.id)
      BY <1>1, <1>4, <3>3 DEF LiveIsUnderWay
    <3>4. CASE \E i \in 1..Len(events) :
                  \/ events[i].kind \in {"Disconnected", "ConnectionLost", "NotConnected"}
                  \/ events[i].kind = "RunDone" /\ events[i].id = run.id
      BY <1>1, <3>4 DEF LiveIsUnderWay
    <3> QED BY <2>0, <3>1, <3>2, <3>3, <3>4 DEF LiveIsUnderWay
  <2> QED BY <2>6, <2>7, <2>8, <2>9, <2>10, <2>11 DEF Apart
<1> QED BY <1>1, <1>6, <1>7, <1>8, <1>9, <1>10, <1>11 DEF IInv

LEMMA DispatchStep ==
  ASSUME IInv, Dispatch
  PROVE  IInv'
<1>1. TypeOK /\ cmds # <<>> /\ cmds' = Tail(cmds) /\ UNCHANGED <<acts, faults, uiVars, history>>
  BY DEF IInv, Dispatch
<1>2. /\ Head(cmds) = cmds[1] /\ 1 \in 1..Len(cmds)
      /\ cmds[1].kind \in {"Connect", "Disconnect", "Cancel", "Use", "Run"}
      /\ cmds[1].kind = "Run" => cmds[1].run \in RunIds
  BY <1>1, CommandTaken, CommandFacts
<1>3. PICK c : c = cmds[1]
  OBVIOUS
<1>4. CASE c.kind = "Connect"
  <2>1. DispatchConnect(cmds[1])
    BY <1>2, <1>3, <1>4 DEF Dispatch
  <2> QED BY <1>1, <1>3, <1>4, <2>1, ConnectTaken
<1>5. CASE c.kind = "Disconnect"
  <2>1. DispatchDisconnect
    BY <1>2, <1>3, <1>5 DEF Dispatch
  <2> QED BY <1>1, <1>3, <1>5, <2>1, DisconnectTaken
<1>6. CASE c.kind \in {"Run", "Cancel", "Use"}
  <2>1. PICK msg \in Msgs : /\ Route(msg) /\ msg.kind = cmds[1].kind
                            /\ msg.kind = "Run" => msg = RunMsg(cmds[1].run)
    <3>1. CASE c.kind = "Run"
      <4>1. Route(RunMsg(cmds[1].run))
        BY <1>2, <1>3, <3>1 DEF Dispatch
      <4> QED BY <1>2, <1>3, <3>1, <4>1, MsgFacts
    <3>2. CASE c.kind \in {"Cancel", "Use"}
      <4>1. Route(TabMsg(c.kind))
        BY <1>2, <1>3, <3>2 DEF Dispatch
      <4> QED BY <1>3, <3>2, <4>1, MsgFacts
    <3> QED BY <1>6, <3>1, <3>2
  <2>2. CASE entry = 0 \/ ~Up(entry)
    BY <1>1, <1>3, <1>6, <2>1, <2>2, RouteDeadStep
  <2>3. CASE entry # 0 /\ Up(entry)
    BY <1>1, <1>3, <1>6, <2>1, <2>3, RouteUpStep
  <2> QED BY <2>2, <2>3
<1> QED BY <1>2, <1>3, <1>4, <1>5, <1>6

-----------------------------------------------------------------------------
(* The user and the followups                                              *)

LEMMA BeginConnectStep ==
  ASSUME IInv, NEW other \in BOOLEAN, BeginConnect(other),
         UNCHANGED <<faults, events, born, entry, actorVars, started, result>>,
         acts' \in Nat, acts <= acts', acts' <= MaxActs,
         follow' \in Seq({"RunPending", "Reconnect", "ReconnectDefault"}),
         \/ pending' = pending /\ last' = last
         \/ /\ ~IsLive(run) /\ pending' \in Nat \ {0} /\ last' = pending' /\ pending' <= acts'
            /\ pending # 0 \/ acts' = acts + 1
            /\ ~overlap => started[pending'] = 0
  PROVE  IInv'
<1>0. /\ TypeOK /\ WithinBounds /\ ActorsAsBorn /\ RunsApart /\ ToldAsEnded /\ ShownIsLast
      /\ OutcomeIsReal /\ (~overlap => Apart)
  BY DEF IInv
<1>1. /\ UNCHANGED <<faults, events, born, entry, pc, mail, named, cur, cancelled, flag, started, result,
                     run, asked>>
      /\ born + CountOf("Connect", cmds) < MaxActors
      /\ conn' = "Connecting" /\ (~overlap' => ~overlap /\ WoundUp) /\ overlap' \in BOOLEAN
  <2>1. overlap' = (overlap \/ ~WoundUp) /\ overlap \in BOOLEAN
    BY <1>0 DEF BeginConnect, TypeOK
  <2> QED BY <2>1 DEF BeginConnect, actorVars
<1>2. PICK c \in Commands : cmds' = Append(cmds, c) /\ c.kind = "Connect"
  <2>1. cmds' = Append(cmds, Command("Connect", other))
    BY DEF BeginConnect
  <2>2. Command("Connect", other) \in Commands /\ Command("Connect", other).kind = "Connect"
    BY CommandFacts
  <2> QED BY <2>1, <2>2, Zenon
<1>3. /\ cmds' \in Seq(Commands)
      /\ \A i \in 1..Len(cmds') : \/ i \in 1..Len(cmds) /\ cmds'[i] = cmds[i]
                                  \/ i = Len(cmds) + 1 /\ cmds'[i] = c
      /\ \A i \in 1..Len(cmds) : i \in 1..Len(cmds') /\ cmds'[i] = cmds[i] /\ i < Len(cmds) + 1
  BY <1>0, <1>2, CommandSent
<1>4. CountOf("Connect", cmds') = CountOf("Connect", cmds) + 1 /\ CountOf("Connect", cmds) \in Nat
  BY <1>0, <1>2, CommandSent
<1>5. /\ pending \in Nat /\ last \in Nat /\ pending' \in 0..MaxActs /\ last' \in 0..MaxActs
      /\ acts \in Nat /\ faults \in Nat /\ born \in Nat /\ run.id \in Nat
  <2>1. /\ pending \in Nat /\ last \in Nat /\ acts \in Nat /\ faults \in Nat /\ born \in Nat /\ run.id \in Nat
    BY <1>0, TypeFacts
  <2>2. pending \in 0..MaxActs /\ last \in 0..MaxActs
    BY <1>0 DEF TypeOK
  <2> QED BY <2>1, <2>2, Bounds
<1>6. \A b \in Actors : Up(b)' <=> Up(b)
  BY <1>1 DEF Up
<1>7. TypeOK'
  <2>1. acts' \in 0..MaxActs
    BY Bounds
  <2>2. \A b \in Actors : ~Up(b)' => mail'[b] = <<>>
    BY <1>0, <1>1, <1>6 DEF TypeOK
  <2> QED BY <1>0, <1>1, <1>3, <1>5, <2>1, <2>2 DEF TypeOK
<1>8. WithinBounds'
  <2>1. born' + CountOf("Connect", cmds') <= MaxActors
    BY <1>1, <1>4, <1>5, Bounds
  <2>2. /\ CountOf("ConnectionLost", events) \in Nat
        /\ run.id + (IF pending = 0 THEN 0 ELSE 1) + CountOf("ConnectionLost", events) <= acts + faults
    <3>1. events \in Seq(Events)
      BY <1>0 DEF TypeOK
    <3> QED BY <1>0, <3>1, CountNat DEF WithinBounds
  <2>3. run.id + (IF pending' = 0 THEN 0 ELSE 1) + CountOf("ConnectionLost", events) <= acts' + faults
    <3>1. CASE pending' = pending
      BY <1>5, <2>2, <3>1
    <3>2. CASE pending' # 0 /\ (pending # 0 \/ acts' = acts + 1)
      BY <1>5, <2>2, <3>2
    <3> QED BY <3>1, <3>2
  <2> QED BY <1>1, <2>1, <2>3 DEF WithinBounds
<1>9. ActorsAsBorn'
  BY <1>0, <1>1 DEF ActorsAsBorn
<1>10. RunsApart'
  <2>1. RunsWithin(cmds', cmds)
    BY <1>0, <1>2, TypeFacts, RunsWithinFacts
  <2>2. \A b \in Actors : RunsWithin(mail'[b], mail[b])
    BY <1>0, <1>1, TypeFacts, RunsWithinFacts
  <2>3. run'.id \in Nat /\ run.id <= run'.id /\ result' = result
    BY <1>1, <1>5
  <2> QED BY <1>0, <1>1, <2>1, <2>2, <2>3, WaitKept
<1>11. ToldAsEnded' /\ OutcomeIsReal'
  BY <1>0, <1>1 DEF ToldAsEnded, OutcomeIsReal
<1>12. ShownIsLast'
  <2>1. run'.intent <= acts' /\ run.intent \in Nat
    BY <1>0, <1>1, <1>5, TypeFacts DEF ShownIsLast
  <2> QED BY <1>0, <1>1, <1>5, <2>1 DEF ShownIsLast, IsLive
<1>13. ASSUME ~overlap' PROVE Apart'
  <2>0. /\ OneSession /\ NewsInOrder /\ WorksOnShown /\ CancelIsMeant /\ ExecutesOnce /\ LiveIsUnderWay
        /\ WoundUp /\ ~overlap
    BY <1>0, <1>1, <1>13 DEF Apart
  <2>1. /\ NoneUp
        /\ \A i \in 1..Len(cmds) : cmds[i].kind \notin {"Connect", "Disconnect"}
        /\ \A i \in 1..Len(events) : events[i].kind \notin SessionEvents
    <3>1. DOMAIN cmds = 1..Len(cmds) /\ DOMAIN events = 1..Len(events)
      BY <1>0, TypeFacts
    <3> QED BY <2>0, <3>1 DEF WoundUp, NoneUp
  <2>2. NoWork /\ ~SessionUp /\ ~SessionUp' /\ NoneUp'
    BY <1>0, <1>1, <1>6, <2>1, NoneUpNoWork DEF NoneUp, SessionUp, Up
  <2>3. Free(SessionEnds, events) /\ Free({"ConnectionLost"}, events)
    BY <2>1 DEF Free, SessionEvents, SessionEnds
  <2>4. Free({"Connected", "Reconnected"}, events)
    <3>1. Followed({"Connected", "Reconnected"}, SessionEnds, events)
      BY <2>0, <2>1 DEF NewsInOrder
    <3> QED BY <2>3, <3>1 DEF Followed, Free
  <2>5. OneSession'
    <3>1. ASSUME NEW i \in 1..Len(cmds'), cmds'[i].kind = "Connect", NEW j \in 1..Len(cmds')
          PROVE  /\ cmds'[j].kind = "Connect" => j = i
                 /\ cmds'[j].kind = "Disconnect" => i < j
                 /\ cmds'[j].kind = "Run" => j < i
      <4>1. i = Len(cmds) + 1
        BY <1>3, <2>1, <3>1
      <4>2. CASE j \in 1..Len(cmds) /\ cmds'[j] = cmds[j]
        BY <1>3, <2>1, <4>1, <4>2
      <4>3. CASE j = Len(cmds) + 1 /\ cmds'[j] = c
        BY <1>2, <4>1, <4>3
      <4> QED BY <1>3, <4>2, <4>3
    <3>2. \A b \in Actors : ~Up(b)'
      BY <1>6, <2>1 DEF NoneUp
    <3> QED BY <1>1, <2>2, <2>3, <3>1, <3>2 DEF OneSession
  <2>6. NewsInOrder'
    BY <1>1, <2>0, <2>1, <2>2, <2>4 DEF NewsInOrder
  <2>7. WorksOnShown' /\ CancelIsMeant'
    <3>1. \A i : ~Heard(i)'
      BY <1>0, <1>1, <2>1, EntryFacts DEF Heard, NoneUp, Up
    <3>2. NoWork'
      BY <1>1, <2>2, <3>1 DEF NoWork, InHand, Ahead
    <3> QED BY <1>9, <3>2, NoWorkKept
  <2>8. ExecutesOnce'
    <3>1. \A i \in Intents : started'[i] <= 1 /\ (i > acts' => started'[i] = 0)
      <4>1. \A i \in Intents : i > acts' => i > acts
        BY <1>5, Bounds DEF Intents
      <4> QED BY <1>1, <2>0, <4>1 DEF ExecutesOnce
    <3>2. pending' # 0 => started'[pending'] = 0
      BY <1>1, <2>0 DEF ExecutesOnce
    <3>3. \A i \in 1..Len(events') : events'[i].kind # "ConnectionLost"
      BY <1>1, <2>3 DEF Free
    <3> QED BY <3>1, <3>2, <3>3 DEF ExecutesOnce
  <2>9. LiveIsUnderWay'
    <3>1. \A i \in 1..Len(cmds) : i \in 1..Len(cmds') /\ cmds'[i] = cmds[i]
      BY <1>3
    <3> QED BY <1>1, <2>0, <3>1 DEF LiveIsUnderWay, IsLive
  <2> QED BY <2>5, <2>6, <2>7, <2>8, <2>9 DEF Apart
<1> QED BY <1>7, <1>8, <1>9, <1>10, <1>11, <1>12, <1>13 DEF IInv

\* The press of Run goes out on the connection.
LEMMA ExecuteStep ==
  ASSUME IInv, NEW n \in Nat \ {0}, conn = "Connected", Execute(n), last' = n, ~IsLive(run),
         UNCHANGED <<faults, events, born, entry, actorVars, started, result>>,
         acts' \in Nat, acts <= acts', acts' <= MaxActs, n <= acts',
         follow' \in Seq({"RunPending", "Reconnect", "ReconnectDefault"}),
         pending # 0 \/ acts' = acts + 1, ~overlap => started[n] = 0
  PROVE  IInv'
<1>0. /\ TypeOK /\ WithinBounds /\ ActorsAsBorn /\ RunsApart /\ ToldAsEnded /\ ShownIsLast
      /\ OutcomeIsReal /\ (~overlap => Apart)
  BY DEF IInv
<1>1. /\ UNCHANGED <<faults, events, born, entry, pc, mail, named, cur, cancelled, flag, started, result,
                     conn, overlap, asked>>
      /\ pending' = 0
  BY DEF Execute, actorVars
<1>2. /\ run' = [id |-> run.id + 1, intent |-> n, state |-> "Running"]
      /\ run'.id = run.id + 1 /\ run'.intent = n /\ run'.state = "Running"
  <2>1. run' = [id |-> run.id + 1, intent |-> n, state |-> "Running"]
    BY DEF Execute
  <2> QED BY <2>1
<1>3. /\ CountOf("ConnectionLost", events) \in Nat
      /\ run.id + (IF pending = 0 THEN 0 ELSE 1) + CountOf("ConnectionLost", events) <= acts + faults
  <2>1. events \in Seq(Events)
    BY <1>0 DEF TypeOK
  <2> QED BY <1>0, <2>1, CountNat DEF WithinBounds
<1>4. acts \in Nat /\ faults \in Nat /\ pending \in Nat /\ run.id \in Nat /\ faults <= MaxFaults
  BY <1>0, TypeFacts
<1>5. run.id + 1 + CountOf("ConnectionLost", events) <= acts' + faults
  BY <1>3, <1>4
<1>6. run.id + 1 \in Runs /\ n \in Intents /\ run.id + 1 \in Nat
  <2>1. run.id + 1 \in Nat /\ run.id + 1 > 0 /\ run.id + 1 <= acts' + faults
    <3>1. CountOf("ConnectionLost", events) \in Nat
      BY <1>3
    <3> QED BY <1>4, <1>5, <3>1
  <2>2. run.id + 1 <= MaxActs + MaxFaults
    BY <1>4, <2>1, Bounds
  <2>3. run.id + 1 \in Runs
    BY <2>1, <2>2, RunFacts
  <2>4. n \in Intents
    BY Bounds DEF Intents
  <2> QED BY <2>1, <2>3, <2>4
<1>7. PICK r \in RunIds : r = [id |-> run.id + 1, intent |-> n] /\ r.id = run.id + 1
  BY <1>6, RunFacts
<1>8. PICK c \in Commands : cmds' = Append(cmds, c) /\ c = RunCommand(r) /\ c.kind = "Run" /\ c.run = r
  <2>1. cmds' = Append(cmds, RunCommand(r))
    BY <1>7 DEF Execute, RunCommand
  <2> QED BY <2>1, CommandFacts
<1>9. /\ cmds' \in Seq(Commands)
      /\ \A i \in 1..Len(cmds') : \/ i \in 1..Len(cmds) /\ cmds'[i] = cmds[i]
                                  \/ i = Len(cmds) + 1 /\ cmds'[i] = c
      /\ \A i \in 1..Len(cmds) : i \in 1..Len(cmds') /\ cmds'[i] = cmds[i] /\ i < Len(cmds) + 1
      /\ Len(cmds) + 1 \in 1..Len(cmds') /\ cmds'[Len(cmds) + 1] = c
      /\ \A kinds : Free(kinds, cmds') <=> Free(kinds, cmds) /\ c.kind \notin kinds
  BY <1>0, <1>8, CommandSent
<1>10. CountOf("Connect", cmds') = CountOf("Connect", cmds)
  BY <1>0, <1>8, CommandSent
<1>11. \A b \in Actors : Up(b)' <=> Up(b)
  BY <1>1 DEF Up
<1>12. TypeOK'
  <2>1. acts' \in 0..MaxActs /\ last' \in 0..MaxActs /\ pending' \in 0..MaxActs
    BY <1>1, Bounds
  <2>2. \A b \in Actors : ~Up(b)' => mail'[b] = <<>>
    BY <1>0, <1>1, <1>11 DEF TypeOK
  <2>3. run' \in [id : {0} \cup Runs, intent : 0..MaxActs,
                  state : {"none", "Running", "Cancelling"} \cup Outcomes]
    <3>1. n \in 0..MaxActs
      BY Bounds
    <3> QED BY <1>2, <1>6, <3>1
  <2> QED BY <1>0, <1>1, <1>9, <2>1, <2>2, <2>3 DEF TypeOK
<1>13. WithinBounds'
  BY <1>0, <1>1, <1>2, <1>5, <1>10, <1>4 DEF WithinBounds
<1>14. ActorsAsBorn'
  BY <1>0, <1>1 DEF ActorsAsBorn
<1>15. /\ \A i \in 1..Len(cmds) : cmds[i].kind = "Run" => WaitsIn(cmds[i].run)
       /\ \A b \in Actors :
             /\ \A i \in 1..Len(mail[b]) : mail[b][i].kind = "Run" => WaitsIn(mail[b][i].run)
             /\ cur[b].kind = "Run" => cur[b].run.id <= run.id
             /\ pc[b] \in {"checking", "running"} /\ cur[b].kind = "Run" => WaitsIn(cur[b].run)
             /\ pc[b] = "ending" => cur[b].run.id <= run.id /\ result[cur[b].run.id] # "none"
  BY <1>0 DEF RunsApart, ActorsAsBorn, WaitsIn
<1>16. RunsApart'
  <2>1. OneOfEach(cmds', mail, cur)
    <3>1. \A i \in 1..Len(cmds) : cmds[i].kind = "Run" => cmds[i].run.id # r.id
      <4>1. \A i \in 1..Len(cmds) : cmds[i].kind = "Run"
               => cmds[i].run.id <= run.id /\ cmds[i].run.id \in Nat
        BY <1>0, <1>15, TypeFacts, RunFacts DEF WaitsIn
      <4> QED BY <1>4, <1>7, <4>1
    <3>2. ASSUME NEW b \in Actors
          PROVE  /\ \A i \in 1..Len(mail[b]) : mail[b][i].kind = "Run" => mail[b][i].run.id # r.id
                 /\ cur[b].kind = "Run" => cur[b].run.id # r.id
      <4>1. \A i \in 1..Len(mail[b]) : mail[b][i].kind = "Run"
               => mail[b][i].run.id <= run.id /\ mail[b][i].run.id \in Nat
        BY <1>0, <1>15, TypeFacts, RunFacts DEF WaitsIn
      <4>2. cur[b].kind = "Run" => cur[b].run.id <= run.id /\ cur[b].run.id \in Nat
        BY <1>0, <1>15, TypeFacts, RunFacts
      <4> QED BY <1>4, <1>7, <4>1, <4>2
    <3>3. OneOfEach(cmds, mail, cur)
      BY <1>0 DEF RunsApart
    <3> QED BY <1>0, <1>8, <3>1, <3>2, <3>3, OneSent
  <2>2. \A q \in RunIds : WaitsIn(q) => q.id <= run'.id /\ result'[q.id] = "none"
    BY <1>1, <1>2, <1>4, RunFacts DEF WaitsIn
  <2>3. r.id <= run'.id /\ result'[r.id] = "none"
    <3>1. result[r.id] = "none"
      BY <1>0, <1>4, <1>6, <1>7 DEF ToldAsEnded
    <3> QED BY <1>1, <1>2, <1>6, <1>7, <3>1
  <2>4. ASSUME NEW i \in 1..Len(cmds'), cmds'[i].kind = "Run"
        PROVE  cmds'[i].run.id <= run'.id /\ result'[cmds'[i].run.id] = "none"
    <3>1. CASE i \in 1..Len(cmds) /\ cmds'[i] = cmds[i]
      BY <1>0, <1>15, <2>2, <2>4, <3>1, TypeFacts
    <3>2. CASE cmds'[i] = c
      BY <1>8, <2>3, <3>2
    <3> QED BY <1>9, <3>1, <3>2
  <2>5. ASSUME NEW b \in Actors
        PROVE  /\ \A i \in 1..Len(mail[b]) : mail[b][i].kind = "Run"
                     => mail[b][i].run.id <= run'.id /\ result'[mail[b][i].run.id] = "none"
               /\ pc[b] \in {"checking", "running"} /\ cur[b].kind = "Run"
                     => cur[b].run.id <= run'.id /\ result'[cur[b].run.id] = "none"
               /\ pc[b] = "ending" => cur[b].run.id <= run'.id /\ result'[cur[b].run.id] # "none"
    <3>1. \A i \in 1..Len(mail[b]) : mail[b][i].kind = "Run"
             => mail[b][i].run.id <= run'.id /\ result'[mail[b][i].run.id] = "none"
      BY <1>0, <1>15, <2>2, TypeFacts
    <3>2. pc[b] \in {"checking", "running"} /\ cur[b].kind = "Run"
             => cur[b].run.id <= run'.id /\ result'[cur[b].run.id] = "none"
      BY <1>0, <1>15, <2>2, TypeFacts
    <3>3. pc[b] = "ending" => cur[b].run.id <= run'.id /\ result'[cur[b].run.id] # "none"
      <4>1. pc[b] = "ending" => cur[b].run \in RunIds
        BY <1>0, TypeFacts DEF ActorsAsBorn
      <4>2. pc[b] = "ending" => cur[b].run.id \in Nat
        BY <4>1, RunFacts
      <4> QED BY <1>1, <1>2, <1>4, <1>15, <4>2
    <3> QED BY <3>1, <3>2, <3>3
  <2> QED BY <1>1, <2>1, <2>4, <2>5 DEF RunsApart, WaitsIn
<1>17. ToldAsEnded'
  <2>1. run'.id \in Nat /\ run.id <= run'.id /\ (run'.state = "none" <=> run'.id = 0)
    BY <1>2, <1>4
  <2>2. \A i \in 1..Len(events') : events'[i].kind = "RunDone" => \E k \in 1..Len(events) : events'[i] = events[k]
    BY <1>1
  <2>3. result' = result /\ \A b \in Actors : cur'[b] = cur[b] \/ cur'[b].kind # "Run"
    BY <1>1
  <2> QED BY <1>0, <2>1, <2>2, <2>3, ToldKept
<1>18. ShownIsLast' /\ OutcomeIsReal'
  <2>1. OutcomeIsReal'
    BY <1>2 DEF OutcomeIsReal
  <2> QED BY <1>1, <1>2, <2>1 DEF ShownIsLast
<1>19. ASSUME ~overlap PROVE Apart'
  <2>0. OneSession /\ NewsInOrder /\ WorksOnShown /\ CancelIsMeant /\ ExecutesOnce /\ LiveIsUnderWay
    BY <1>0, <1>19 DEF Apart
  <2>1. ~Waiting /\ Free({"Connect"}, cmds) /\ Free({"Connect"}, cmds')
    BY <1>8, <1>9, <2>0 DEF NewsInOrder, Waiting
  <2>2. NoWork
    BY <2>0, NoWorkFacts DEF OnIt
  <2>3. (SessionUp' <=> SessionUp) /\ (NoneUp' <=> NoneUp) /\ ~Waiting'
        /\ (Free({"Disconnect"}, cmds') <=> Free({"Disconnect"}, cmds))
    <3>1. (SessionUp' <=> SessionUp) /\ (NoneUp' <=> NoneUp)
      BY <1>1, <1>11 DEF SessionUp, NoneUp, Up
    <3>2. ~Waiting'
      BY <1>1, <2>1 DEF Waiting
    <3> QED BY <1>8, <1>9, <3>1, <3>2
  <2>4. \A i \in 1..Len(cmds) : Heard(i)' <=> Heard(i)
    <3>1. \A i \in 1..Len(cmds) : \A j \in 1..i - 1 : j \in 1..Len(cmds)
      OBVIOUS
    <3> QED BY <1>1, <1>9, <3>1 DEF Heard, Up
  <2>5. OneSession'
    <3>1. \A i \in 1..Len(cmds') : cmds'[i].kind # "Connect"
      BY <2>1 DEF Free
    <3>2. Free({"ConnectionLost"}, events) \/ (NoneUp' /\ Free({"Connect"}, cmds'))
      BY <2>0, <2>1, <2>3 DEF OneSession
    <3>3. /\ \A b \in Actors : Up(b) => b = born
          /\ \A b \in Actors : Up(b) /\ entry # b
                => pc[b] = "closing" \/ \E i \in 1..Len(mail[b]) : mail[b][i].kind = "Close"
      BY <2>0 DEF OneSession
    <3> QED BY <1>1, <1>11, <3>1, <3>2, <3>3 DEF OneSession
  <2>6. NewsInOrder'
    BY <1>1, <2>0, <2>3 DEF NewsInOrder
  <2>7. WorksOnShown'
    <3>1. ASSUME NEW i \in 1..Len(cmds'), cmds'[i].kind = "Run", Heard(i)'
          PROVE  OnIt(cmds[i].run)' /\ Free({"Disconnect"}, cmds') /\ started'[run'.intent] = 0
      <4>1. i = Len(cmds) + 1 /\ cmds'[i] = c
        BY <1>9, <2>2, <2>4, <3>1 DEF NoWork
      <4>2. \A j \in 1..Len(cmds) : j \in 1..i - 1
        BY <1>0, <4>1, TypeFacts
      <4>3. Free({"Disconnect"}, cmds')
        <5>1. Free({"Disconnect"}, cmds)
          BY <1>9, <3>1, <4>2 DEF Heard, Free
        <5> QED BY <2>3, <5>1
      <4>4. SessionUp
        <5>1. entry # 0 /\ Up(entry) /\ entry \in Actors
          BY <1>0, <1>1, <3>1, EntryFacts DEF Heard, Up
        <5> QED BY <2>1, <5>1 DEF SessionUp, Waiting
      <4>5. Free({"Connected"}, events)
        BY <2>0, <4>4 DEF NewsInOrder
      <4>6. r = [id |-> run'.id, intent |-> run'.intent] /\ IsLive(run)'
        BY <1>2, <1>7 DEF IsLive
      <4>7. OnIt(r)'
        BY <1>1, <2>3, <4>4, <4>5, <4>6 DEF OnIt
      <4>8. r = cmds'[i].run
        BY <1>8, <4>1
      <4> QED BY <1>1, <1>2, <1>19, <4>3, <4>7, <4>8
    <3>2. \A b \in Actors : cur'[b].kind # "Run" /\ \A i \in 1..Len(mail'[b]) : mail'[b][i].kind # "Run"
      BY <1>1, <2>2 DEF NoWork, InHand, Ahead
    <3> QED BY <3>1, <3>2 DEF WorksOnShown
  <2>8. CancelIsMeant'
    <3>1. ~InHand' /\ ~Ahead'
      BY <1>1, <2>2 DEF NoWork, InHand, Ahead
    <3>2. ASSUME NEW i \in 1..Len(cmds'), cmds'[i].kind = "Cancel", NEW j \in 1..i - 1, cmds'[j].kind = "Run"
          PROVE  ~Heard(j)'
      <4>1. i \in 1..Len(cmds)
        BY <1>8, <1>9, <3>2
      <4>2. j \in 1..Len(cmds) /\ cmds'[j] = cmds[j]
        BY <1>9, <4>1
      <4> QED BY <2>2, <2>4, <3>2, <4>2 DEF NoWork
    <3>3. \A b \in Actors : pc'[b] \notin {"running", "ending"}
      BY <1>14, <3>1 DEF ActorsAsBorn, InHand
    <3>4. \A b \in Actors : \A i \in 1..Len(mail'[b]) : \A j \in 1..i - 1 : mail'[b][j].kind # "Run"
      <4>1. ASSUME NEW b \in Actors, NEW i \in 1..Len(mail'[b]), NEW j \in 1..i - 1 PROVE j \in 1..Len(mail'[b])
        BY <4>1
      <4> QED BY <3>1, <4>1 DEF Ahead
    <3> QED BY <3>1, <3>2, <3>3, <3>4 DEF CancelIsMeant
  <2>9. ExecutesOnce'
    <3>1. \A i \in Intents : i > acts' => i > acts
      BY <1>4, Bounds DEF Intents
    <3> QED BY <1>1, <1>19, <2>0, <3>1 DEF ExecutesOnce
  <2>10. LiveIsUnderWay'
    <3>1. IsRunFor(cmds'[Len(cmds) + 1], run'.id)
      BY <1>2, <1>7, <1>8, <1>9 DEF IsRunFor
    <3> QED BY <1>9, <3>1 DEF LiveIsUnderWay
  <2> QED BY <2>5, <2>6, <2>7, <2>8, <2>9, <2>10 DEF Apart
<1> QED BY <1>1, <1>12, <1>13, <1>14, <1>16, <1>17, <1>18, <1>19 DEF IInv

\* What is pending changes, and nothing is sent.
LEMMA PendingStep ==
  ASSUME IInv, UNCHANGED <<faults, events, born, entry, actorVars, started, result, conn, run, cmds, overlap, asked>>,
         acts' \in Nat, acts <= acts', acts' <= MaxActs,
         follow' \in Seq({"RunPending", "Reconnect", "ReconnectDefault"}),
         \/ pending' = 0 /\ last' = last
         \/ /\ ~IsLive(run) /\ pending' \in Nat \ {0} /\ last' = pending' /\ pending' <= acts'
            /\ pending # 0 \/ acts' = acts + 1
            /\ ~overlap => started[pending'] = 0
  PROVE  IInv'
<1>0. /\ TypeOK /\ WithinBounds /\ ActorsAsBorn /\ RunsApart /\ ToldAsEnded /\ ShownIsLast
      /\ OutcomeIsReal /\ (~overlap => Apart)
  BY DEF IInv
<1>1. UNCHANGED <<faults, events, born, entry, pc, mail, named, cur, cancelled, flag, started, result,
                  conn, run, cmds, overlap, asked>>
  BY DEF actorVars
<1>2. /\ pending \in Nat /\ last \in Nat /\ pending' \in 0..MaxActs /\ last' \in 0..MaxActs
      /\ acts \in Nat /\ faults \in Nat /\ run.id \in Nat /\ run.intent \in Nat
  <2>1. pending \in Nat /\ last \in Nat /\ acts \in Nat /\ faults \in Nat /\ run.id \in Nat /\ run.intent \in Nat
    BY <1>0, TypeFacts
  <2>2. last \in 0..MaxActs
    BY <1>0 DEF TypeOK
  <2> QED BY <2>1, <2>2, Bounds
<1>3. TypeOK'
  <2>1. acts' \in 0..MaxActs
    BY Bounds
  <2> QED BY <1>0, <1>1, <1>2, <2>1 DEF TypeOK, Up
<1>4. WithinBounds'
  <2>1. /\ CountOf("ConnectionLost", events) \in Nat
        /\ run.id + (IF pending = 0 THEN 0 ELSE 1) + CountOf("ConnectionLost", events) <= acts + faults
    <3>1. events \in Seq(Events)
      BY <1>0 DEF TypeOK
    <3> QED BY <1>0, <3>1, CountNat DEF WithinBounds
  <2>2. run.id + (IF pending' = 0 THEN 0 ELSE 1) + CountOf("ConnectionLost", events) <= acts' + faults
    <3>1. CASE pending' = 0
      BY <1>2, <2>1, <3>1
    <3>2. CASE pending' # 0 /\ (pending # 0 \/ acts' = acts + 1)
      BY <1>2, <2>1, <3>2
    <3> QED BY <3>1, <3>2
  <2> QED BY <1>0, <1>1, <2>2 DEF WithinBounds
<1>5. ActorsAsBorn' /\ RunsApart' /\ ToldAsEnded' /\ OutcomeIsReal'
  BY <1>0, <1>1 DEF ActorsAsBorn, RunsApart, WaitsIn, ToldAsEnded, OutcomeIsReal
<1>6. ShownIsLast'
  BY <1>0, <1>1, <1>2 DEF ShownIsLast, IsLive
<1>7. ASSUME ~overlap PROVE Apart'
  <2>0. OneSession /\ NewsInOrder /\ WorksOnShown /\ CancelIsMeant /\ ExecutesOnce /\ LiveIsUnderWay
    BY <1>0, <1>7 DEF Apart
  <2>1. OneSession' /\ NewsInOrder'
    BY <1>1, <2>0 DEF OneSession, NoneUp, Up, NewsInOrder, Waiting, SessionUp
  <2>2. WorksOnShown' /\ CancelIsMeant'
    BY <1>1, <2>0 DEF WorksOnShown, OnIt, IsLive, SessionUp, Up, Heard, CancelIsMeant, InHand, Ahead
  <2>3. ExecutesOnce'
    <3>1. \A i \in Intents : started'[i] <= 1 /\ (i > acts' => started'[i] = 0)
      <4>1. \A i \in Intents : i > acts' => i > acts
        BY <1>2, Bounds DEF Intents
      <4> QED BY <1>1, <2>0, <4>1 DEF ExecutesOnce
    <3>2. pending' # 0 => started'[pending'] = 0
      BY <1>1, <1>7
    <3>3. /\ IsLive(run)' /\ (\E i \in 1..Len(events') : events'[i].kind = "ConnectionLost" /\ events'[i].arg)
          => started'[last'] = 0
      BY <1>1, <2>0 DEF ExecutesOnce, IsLive
    <3> QED BY <3>1, <3>2, <3>3 DEF ExecutesOnce
  <2>4. LiveIsUnderWay'
    BY <1>1, <2>0 DEF LiveIsUnderWay, IsLive
  <2> QED BY <2>1, <2>2, <2>3, <2>4 DEF Apart
<1> QED BY <1>1, <1>3, <1>4, <1>5, <1>6, <1>7 DEF IInv

\* A command that is neither a connect nor a run.
LEMMA SentStep ==
  ASSUME IInv, UNCHANGED <<faults, events, born, entry, actorVars, started, result, pending, last, follow>>,
         acts' = acts + 1, acts < MaxActs,
         NEW c \in Commands, cmds' = Append(cmds, c), c.kind \in {"Disconnect", "Cancel", "Use"},
         run' = run \/ (IsLive(run) /\ run' = [run EXCEPT !.state = "Cancelling"]),
         IF c.kind = "Disconnect" THEN conn' = "Disconnected" ELSE conn' = conn,
         asked \subseteq asked', asked' \subseteq Runs, c.kind = "Cancel" => run'.id \in asked',
         overlap' \in BOOLEAN, ~overlap' => ~overlap /\ (c.kind = "Disconnect" => ~IsLive(run))
  PROVE  IInv'
<1>0. /\ TypeOK /\ WithinBounds /\ ActorsAsBorn /\ RunsApart /\ ToldAsEnded /\ ShownIsLast
      /\ OutcomeIsReal /\ (~overlap => Apart)
  BY DEF IInv
<1>1. UNCHANGED <<faults, events, born, entry, pc, mail, named, cur, cancelled, flag, started, result,
                  pending, last, follow>>
  BY DEF actorVars
<1>2. /\ run'.id = run.id /\ run'.intent = run.intent /\ (IsLive(run)' <=> IsLive(run))
      /\ run'.state = run.state \/ (IsLive(run) /\ run'.state = "Cancelling")
      /\ run' \in [id : {0} \cup Runs, intent : 0..MaxActs,
                   state : {"none", "Running", "Cancelling"} \cup Outcomes]
  <2>1. run \in [id : {0} \cup Runs, intent : 0..MaxActs,
                 state : {"none", "Running", "Cancelling"} \cup Outcomes]
    BY <1>0 DEF TypeOK
  <2> QED BY <2>1 DEF IsLive
<1>3. /\ cmds' \in Seq(Commands)
      /\ \A i \in 1..Len(cmds') : \/ i \in 1..Len(cmds) /\ cmds'[i] = cmds[i]
                                  \/ i = Len(cmds) + 1 /\ cmds'[i] = c
      /\ \A i \in 1..Len(cmds) : i \in 1..Len(cmds') /\ cmds'[i] = cmds[i] /\ i < Len(cmds) + 1
      /\ \A kinds : Free(kinds, cmds') <=> Free(kinds, cmds) /\ c.kind \notin kinds
  BY <1>0, CommandSent
<1>4. CountOf("Connect", cmds') = CountOf("Connect", cmds)
  BY <1>0, CommandSent
<1>5. /\ \A b \in Actors : Up(b)' <=> Up(b)
      /\ acts \in Nat /\ run.id \in Nat
  BY <1>0, <1>1, TypeFacts DEF Up
<1>6. TypeOK'
  <2>1. acts' \in 0..MaxActs
    BY <1>5, Bounds
  <2>2. conn' \in {"Disconnected", "Connecting", "Connected", "Failed"}
    BY <1>0 DEF TypeOK
  <2> QED BY <1>0, <1>1, <1>2, <1>3, <2>1, <2>2 DEF TypeOK, Up
<1>7. WithinBounds'
  <2>1. /\ CountOf("ConnectionLost", events) \in Nat /\ faults \in Nat
        /\ run.id + (IF pending = 0 THEN 0 ELSE 1) + CountOf("ConnectionLost", events) <= acts + faults
    <3>1. events \in Seq(Events) /\ faults \in Nat
      BY <1>0, TypeFacts DEF TypeOK
    <3> QED BY <1>0, <3>1, CountNat DEF WithinBounds
  <2>2. run.id + (IF pending = 0 THEN 0 ELSE 1) + CountOf("ConnectionLost", events) <= acts' + faults
    BY <1>5, <2>1
  <2> QED BY <1>0, <1>1, <1>2, <1>4, <2>2 DEF WithinBounds
<1>8. ActorsAsBorn'
  BY <1>0, <1>1 DEF ActorsAsBorn
<1>9. RunsApart'
  <2>1. RunsWithin(cmds', cmds)
    BY <1>0, TypeFacts, RunsWithinFacts
  <2>2. \A b \in Actors : RunsWithin(mail'[b], mail[b])
    BY <1>0, <1>1, TypeFacts, RunsWithinFacts
  <2>3. run'.id \in Nat /\ run.id <= run'.id /\ result' = result
    BY <1>1, <1>2, <1>5
  <2> QED BY <1>0, <1>1, <2>1, <2>2, <2>3, WaitKept
<1>10. ToldAsEnded' /\ OutcomeIsReal'
  <2>1. run'.state = "none" <=> run'.id = 0
    BY <1>0, <1>2 DEF ToldAsEnded, IsLive
  <2>2. OutcomeIsReal'
    BY <1>0, <1>1, <1>2 DEF OutcomeIsReal
  <2> QED BY <1>0, <1>1, <1>2, <2>1, <2>2 DEF ToldAsEnded
<1>11. ShownIsLast'
  <2>1. run.intent \in Nat /\ last \in Nat /\ pending \in Nat
    BY <1>0, TypeFacts
  <2> QED BY <1>0, <1>1, <1>2, <1>5, <2>1 DEF ShownIsLast
<1>12. ASSUME ~overlap' PROVE Apart'
  <2>0. OneSession /\ NewsInOrder /\ WorksOnShown /\ CancelIsMeant /\ ExecutesOnce /\ LiveIsUnderWay
    BY <1>0, <1>12 DEF Apart
  <2>1. /\ (SessionUp' <=> SessionUp) /\ (NoneUp' <=> NoneUp) /\ (Waiting' <=> Waiting)
        /\ c.kind # "Disconnect" => (Free({"Disconnect"}, cmds') <=> Free({"Disconnect"}, cmds))
        /\ c.kind = "Disconnect" => ~Free({"Disconnect"}, cmds')
    <3>1. (SessionUp' <=> SessionUp) /\ (NoneUp' <=> NoneUp)
      BY <1>1, <1>5 DEF SessionUp, NoneUp, Up
    <3>2. Waiting' <=> Waiting
      BY <1>1, <1>3 DEF Waiting
    <3> QED BY <1>3, <3>1, <3>2
  <2>2. \A i \in 1..Len(cmds) : Heard(i)' <=> Heard(i)
    <3>1. \A i \in 1..Len(cmds) : \A j \in 1..i - 1 : j \in 1..Len(cmds)
      OBVIOUS
    <3> QED BY <1>1, <1>3, <3>1 DEF Heard, Up
  <2>3. \A i \in 1..Len(cmds') : cmds'[i].kind \in {"Connect", "Run"} => i \in 1..Len(cmds) /\ cmds'[i] = cmds[i]
    BY <1>3
  <2>4. OneSession'
    <3>1. ASSUME NEW i \in 1..Len(cmds'), cmds'[i].kind = "Connect"
          PROVE  /\ NoneUp
                 /\ \A j \in 1..Len(cmds') : /\ cmds'[j].kind = "Connect" => j = i
                                             /\ cmds'[j].kind = "Disconnect" => i < j
                                             /\ cmds'[j].kind = "Run" => j < i
      <4>1. i \in 1..Len(cmds) /\ cmds[i].kind = "Connect" /\ i < Len(cmds) + 1
        BY <1>3, <2>3, <3>1
      <4>2. /\ NoneUp
            /\ \A j \in 1..Len(cmds) : /\ cmds[j].kind = "Connect" => j = i
                                       /\ cmds[j].kind = "Disconnect" => i < j
                                       /\ cmds[j].kind = "Run" => j < i
        BY <2>0, <4>1 DEF OneSession
      <4> QED BY <1>3, <4>1, <4>2
    <3>2. Free({"ConnectionLost"}, events) \/ (NoneUp /\ Free({"Connect"}, cmds'))
      BY <1>3, <2>0 DEF OneSession
    <3>3. /\ \A b \in Actors : Up(b) => b = born
          /\ \A b \in Actors : Up(b) /\ entry # b
                => pc[b] = "closing" \/ \E i \in 1..Len(mail[b]) : mail[b][i].kind = "Close"
      BY <2>0 DEF OneSession
    <3> QED BY <1>1, <1>5, <2>1, <3>1, <3>2, <3>3 DEF OneSession
  <2>5. NewsInOrder'
    <3>1. CASE c.kind = "Disconnect"
      BY <1>1, <2>0, <2>1, <3>1 DEF NewsInOrder
    <3>2. CASE c.kind # "Disconnect"
      BY <1>1, <2>0, <2>1, <3>2 DEF NewsInOrder
    <3> QED BY <3>1, <3>2
  <2>6. WorksOnShown' /\ CancelIsMeant'
    <3>1. CASE ~IsLive(run)
      <4>1. NoWork
        BY <2>0, <3>1, NoWorkFacts DEF OnIt
      <4>2. NoWork'
        BY <1>1, <2>2, <2>3, <4>1 DEF NoWork, InHand, Ahead
      <4> QED BY <1>8, <4>2, NoWorkKept
    <3>2. CASE IsLive(run)
      <4>1. c.kind # "Disconnect" /\ (Free({"Disconnect"}, cmds') <=> Free({"Disconnect"}, cmds))
        BY <1>12, <2>1, <3>2
      <4>2. \A q : OnIt(q) => OnIt(q)'
        BY <1>1, <1>2, <2>1 DEF OnIt
      <4>3. WorksOnShown'
        <5>1. ASSUME NEW i \in 1..Len(cmds'), cmds'[i].kind = "Run", Heard(i)'
              PROVE  OnIt(cmds[i].run)' /\ Free({"Disconnect"}, cmds') /\ started'[run'.intent] = 0
          <6>1. i \in 1..Len(cmds) /\ cmds'[i] = cmds[i] /\ Heard(i)
            BY <2>2, <2>3, <5>1
          <6>2. OnIt(cmds[i].run) /\ Free({"Disconnect"}, cmds) /\ started[run.intent] = 0
            BY <2>0, <5>1, <6>1 DEF WorksOnShown
          <6>3. PICK q : q = cmds[i].run
            OBVIOUS
          <6>4. q = cmds'[i].run /\ OnIt(q)'
            BY <4>2, <6>1, <6>2, <6>3
          <6> QED BY <1>1, <1>2, <4>1, <6>2, <6>4
        <5>2. ASSUME NEW b \in Actors, NEW i \in 1..Len(mail'[b]), mail'[b][i].kind = "Run"
              PROVE  OnIt(mail[b][i].run)' /\ entry' = b /\ Free({"Disconnect"}, cmds') /\ started'[run'.intent] = 0
          <6>1. OnIt(mail[b][i].run) /\ entry = b /\ Free({"Disconnect"}, cmds) /\ started[run.intent] = 0
            BY <1>1, <2>0, <5>2 DEF WorksOnShown
          <6>2. PICK q : q = mail[b][i].run
            OBVIOUS
          <6>3. q = mail'[b][i].run /\ OnIt(q)'
            BY <1>1, <4>2, <6>1, <6>2
          <6> QED BY <1>1, <1>2, <4>1, <6>1, <6>3
        <5>3. ASSUME NEW b \in Actors, cur'[b].kind = "Run"
              PROVE  /\ OnIt(cur[b].run)' /\ entry' = b /\ Free({"Disconnect"}, cmds')
                     /\ pc'[b] = "checking" => started'[run'.intent] = 0
          <6>1. /\ OnIt(cur[b].run) /\ entry = b /\ Free({"Disconnect"}, cmds)
                /\ pc[b] = "checking" => started[run.intent] = 0
            BY <1>1, <2>0, <5>3 DEF WorksOnShown
          <6>2. PICK q : q = cur[b].run
            OBVIOUS
          <6>3. q = cur'[b].run /\ OnIt(q)'
            BY <1>1, <4>2, <6>1, <6>2
          <6> QED BY <1>1, <1>2, <4>1, <6>1, <6>3
        <5> QED BY <5>1, <5>2, <5>3 DEF WorksOnShown
      <4>4. CancelIsMeant'
        <5>1. (InHand' <=> InHand) /\ (Ahead' <=> Ahead)
          BY <1>1 DEF InHand, Ahead
        <5>2. run.id \in asked => run'.id \in asked'
          BY <1>2
        <5>3. ASSUME NEW i \in 1..Len(cmds'), cmds'[i].kind = "Cancel", run'.id \notin asked'
              PROVE  ~InHand' /\ ~Ahead' /\ \A j \in 1..i - 1 : cmds'[j].kind = "Run" => ~Heard(j)'
          <6>1. i \in 1..Len(cmds) /\ cmds[i].kind = "Cancel"
            BY <1>3, <5>3
          <6>2. ~InHand /\ ~Ahead /\ \A j \in 1..i - 1 : cmds[j].kind = "Run" => ~Heard(j)
            BY <2>0, <5>2, <5>3, <6>1 DEF CancelIsMeant
          <6>3. \A j \in 1..i - 1 : j \in 1..Len(cmds)
            BY <6>1
          <6> QED BY <1>3, <2>2, <5>1, <6>2, <6>3
        <5>4. \A b \in Actors :
                 /\ \A i \in 1..Len(mail[b]) : mail[b][i].kind = "Cancel"
                       => run.id \in asked \/ (~InHand /\ \A j \in 1..i - 1 : mail[b][j].kind # "Run")
                 /\ pc[b] \in {"running", "ending"} /\ (cancelled[b] \/ flag[b]) => run.id \in asked
          BY <2>0 DEF CancelIsMeant
        <5> QED BY <1>1, <5>1, <5>2, <5>3, <5>4 DEF CancelIsMeant
      <4> QED BY <4>3, <4>4
    <3> QED BY <3>1, <3>2
  <2>7. ExecutesOnce'
    <3>1. \A i \in Intents : i > acts' => i > acts
      BY <1>5, Bounds DEF Intents
    <3> QED BY <1>1, <1>2, <2>0, <3>1 DEF ExecutesOnce
  <2>8. LiveIsUnderWay'
    BY <1>1, <1>2, <1>3, <2>0 DEF LiveIsUnderWay
  <2> QED BY <2>4, <2>5, <2>6, <2>7, <2>8 DEF Apart
<1> QED BY <1>6, <1>7, <1>8, <1>9, <1>10, <1>11, <1>12 DEF IInv

\* A press of Run, now or after the connection is there.
LEMMA RunSqlStep ==
  ASSUME IInv, NEW n \in Nat \ {0}, RunSql(n), ~IsLive(run),
         UNCHANGED <<faults, events, born, entry, actorVars, started, result>>,
         acts' \in Nat, acts <= acts', acts' <= MaxActs, n <= acts',
         follow' \in Seq({"RunPending", "Reconnect", "ReconnectDefault"}),
         pending # 0 \/ acts' = acts + 1, ~overlap => started[n] = 0
  PROVE  IInv'
<1>1. CASE conn = "Connected" /\ Execute(n)
  BY <1>1, ExecuteStep DEF RunSql
<1>2. CASE conn = "Connecting" /\ pending' = n /\ UNCHANGED <<conn, run, cmds, overlap, asked>>
  BY <1>2, PendingStep DEF RunSql
<1>3. CASE pending' = n /\ \E other \in BOOLEAN : BeginConnect(other)
  <2>1. PICK other \in BOOLEAN : BeginConnect(other)
    BY <1>3
  <2> QED BY <1>3, <2>1, BeginConnectStep DEF RunSql
<1> QED BY <1>1, <1>2, <1>3 DEF RunSql

LEMMA UserStep ==
  ASSUME IInv, UserActs
  PROVE  IInv'
<1>0. /\ TypeOK /\ (~overlap => ExecutesOnce)
      /\ acts \in Nat /\ acts < MaxActs /\ acts' = acts + 1 /\ acts' <= MaxActs /\ acts' \in Nat /\ acts <= acts'
      /\ UNCHANGED <<faults, events, born, entry, actorVars, started, result>>
      /\ follow \in Seq({"RunPending", "Reconnect", "ReconnectDefault"})
  <2>1. TypeOK /\ (~overlap => ExecutesOnce)
    BY DEF IInv, Apart
  <2>2. acts \in Nat /\ follow \in Seq({"RunPending", "Reconnect", "ReconnectDefault"})
    BY <2>1, TypeFacts DEF TypeOK
  <2>3. acts < MaxActs /\ acts' = acts + 1 /\ UNCHANGED <<faults, events, born, entry, actorVars, started, result>>
    BY DEF UserActs, PressRun, CancelRun, Connect, Disconnect, ChangeDatabase, UserTurn, UiOnly
  <2> QED BY <2>1, <2>2, <2>3, Bounds
<1>1. CASE PressRun
  <2>1. PICK n \in Nat \ {0} : n = acts + 1
    BY <1>0
  <2>2. RunSql(n) /\ ~IsLive(run) /\ follow' = follow /\ n <= acts'
    BY <1>0, <1>1, <2>1 DEF PressRun
  <2>3. ~overlap => started[n] = 0
    <3>1. n \in Intents /\ n > acts
      BY <1>0, <2>1, Bounds DEF Intents
    <3> QED BY <1>0, <3>1 DEF ExecutesOnce
  <2> QED BY <1>0, <2>2, <2>3, RunSqlStep
<1>2. CASE CancelRun
  <2>1. /\ IsLive(run) /\ run' = [run EXCEPT !.state = "Cancelling"] /\ asked' = asked \cup {run.id}
        /\ UNCHANGED <<conn, pending, last, follow, overlap>>
    BY <1>2 DEF CancelRun
  <2>2. PICK c \in Commands : cmds' = Append(cmds, c) /\ c.kind = "Cancel"
    <3>1. cmds' = Append(cmds, Command("Cancel", FALSE))
      BY <1>2 DEF CancelRun
    <3>2. Command("Cancel", FALSE) \in Commands /\ Command("Cancel", FALSE).kind = "Cancel"
      BY CommandFacts
    <3> QED BY <3>1, <3>2, Zenon
  <2>3. run'.id = run.id /\ run.id \in Runs /\ asked \subseteq Runs /\ overlap \in BOOLEAN
    <3>1. /\ run \in [id : {0} \cup Runs, intent : 0..MaxActs,
                      state : {"none", "Running", "Cancelling"} \cup Outcomes]
          /\ asked \subseteq Runs /\ overlap \in BOOLEAN
      BY <1>0 DEF TypeOK
    <3>2. run.id # 0
      BY <2>1 DEF IInv, ToldAsEnded, IsLive
    <3> QED BY <2>1, <3>1, <3>2
  <2>4. asked \subseteq asked' /\ asked' \subseteq Runs /\ run'.id \in asked' /\ overlap' \in BOOLEAN
    BY <2>1, <2>3
  <2> QED BY <1>0, <2>1, <2>2, <2>4, SentStep
<1>3. CASE Connect
  <2>1. PICK other \in BOOLEAN : BeginConnect(other)
    BY <1>3 DEF Connect
  <2>2. UNCHANGED <<pending, last, follow>>
    BY <1>3 DEF Connect
  <2> QED BY <1>0, <2>1, <2>2, BeginConnectStep
<1>4. CASE Disconnect
  <2>1. /\ conn' = "Disconnected" /\ overlap' = (overlap \/ IsLive(run))
        /\ UNCHANGED <<run, pending, last, follow, asked>>
    BY <1>4 DEF Disconnect
  <2>2. PICK c \in Commands : cmds' = Append(cmds, c) /\ c.kind = "Disconnect"
    <3>1. cmds' = Append(cmds, Command("Disconnect", FALSE))
      BY <1>4 DEF Disconnect
    <3>2. Command("Disconnect", FALSE) \in Commands /\ Command("Disconnect", FALSE).kind = "Disconnect"
      BY CommandFacts
    <3> QED BY <3>1, <3>2, Zenon
  <2>3. asked \subseteq Runs /\ overlap \in BOOLEAN
    BY <1>0 DEF TypeOK
  <2>4. overlap' \in BOOLEAN /\ (~overlap' => ~overlap /\ ~IsLive(run))
    BY <2>1, <2>3
  <2>5. asked \subseteq asked' /\ asked' \subseteq Runs
    BY <2>1, <2>3
  <2> QED BY <1>0, <2>1, <2>2, <2>4, <2>5, SentStep
<1>5. CASE ChangeDatabase
  <2>1. UNCHANGED <<conn, run, pending, last, follow, asked, overlap>>
    BY <1>5 DEF ChangeDatabase, uiVars
  <2>2. PICK c \in Commands : cmds' = Append(cmds, c) /\ c.kind = "Use"
    <3>1. cmds' = Append(cmds, Command("Use", FALSE))
      BY <1>5 DEF ChangeDatabase
    <3>2. Command("Use", FALSE) \in Commands /\ Command("Use", FALSE).kind = "Use"
      BY CommandFacts
    <3> QED BY <3>1, <3>2, Zenon
  <2>3. asked \subseteq Runs /\ overlap \in BOOLEAN
    BY <1>0 DEF TypeOK
  <2>4. asked \subseteq asked' /\ asked' \subseteq Runs /\ overlap' \in BOOLEAN
    BY <2>1, <2>3
  <2> QED BY <1>0, <2>1, <2>2, <2>4, SentStep
<1> QED BY <1>1, <1>2, <1>3, <1>4, <1>5 DEF UserActs

LEMMA FollowupStep ==
  ASSUME IInv, HandleFollowup
  PROVE  IInv'
<1>0. /\ TypeOK /\ ShownIsLast /\ (~overlap => ExecutesOnce)
      /\ acts \in Nat /\ acts' = acts /\ acts' <= MaxActs /\ acts' \in Nat /\ acts <= acts'
      /\ pending \in Nat /\ pending <= acts
      /\ UNCHANGED <<faults, events, born, entry, actorVars, started, result>>
      /\ follow' \in Seq({"RunPending", "Reconnect", "ReconnectDefault"})
  <2>1. TypeOK /\ ShownIsLast /\ (~overlap => ExecutesOnce)
    BY DEF IInv, Apart
  <2>2. acts \in Nat /\ acts <= MaxActs /\ pending \in Nat /\ pending <= acts
    BY <2>1, TypeFacts DEF ShownIsLast
  <2>3. follow' \in Seq({"RunPending", "Reconnect", "ReconnectDefault"})
    <3>1. follow \in Seq({"RunPending", "Reconnect", "ReconnectDefault"}) /\ follow # <<>> /\ follow' = Tail(follow)
      BY <2>1 DEF TypeOK, HandleFollowup
    <3> QED BY <3>1
  <2>4. acts' = acts /\ UNCHANGED <<faults, events, born, entry, actorVars, started, result>>
    BY DEF HandleFollowup
  <2> QED BY <2>1, <2>2, <2>3, <2>4
<1>1. CASE pending # 0 /\ ~IsLive(run) /\ RunSql(pending)
  <2>1. ~overlap => started[pending] = 0
    BY <1>0, <1>1 DEF ExecutesOnce
  <2> QED BY <1>0, <1>1, <2>1, RunSqlStep
<1>2. CASE pending' = 0 /\ UNCHANGED <<conn, run, last, cmds, asked, overlap>>
  BY <1>0, <1>2, PendingStep
<1>3. CASE (\E other \in BOOLEAN : BeginConnect(other)) /\ UNCHANGED <<pending, last>>
  <2>1. PICK other \in BOOLEAN : BeginConnect(other)
    BY <1>3
  <2> QED BY <1>0, <1>3, <2>1, BeginConnectStep
<1>4. \/ pending # 0 /\ ~IsLive(run) /\ RunSql(pending)
      \/ pending' = 0 /\ UNCHANGED <<conn, run, last, cmds, asked, overlap>>
      \/ (\E other \in BOOLEAN : BeginConnect(other)) /\ UNCHANGED <<pending, last>>
  <2>1. FALSE \in BOOLEAN
    OBVIOUS
  <2> QED BY <2>1 DEF HandleFollowup
<1> QED BY <1>1, <1>2, <1>3, <1>4

-----------------------------------------------------------------------------
(* The events that arrive                                                  *)

Applied ==
  /\ events # <<>> /\ events' = Tail(events)
  /\ UNCHANGED <<acts, faults, last, cmds, born, entry, actorVars, history>>
  /\ conn' \in {"Disconnected", "Connecting", "Connected", "Failed"}
  /\ follow' \in Seq({"RunPending", "Reconnect", "ReconnectDefault"})
  /\ run' = run \/ (run.id # 0 /\ \E o \in Outcomes : run' = [run EXCEPT !.state = o])
  /\ run'.state \in {"Done", "Cancelled"} => result[run.id] = run'.state
  /\ \/ pending' \in {pending, 0}
     \/ pending' = last /\ events[1].kind = "ConnectionLost" /\ IsLive(run) /\ ~IsLive(run)'

LEMMA RunAfter ==
  ASSUME TypeOK, Applied
  PROVE  /\ run'.id = run.id /\ run'.intent = run.intent /\ (IsLive(run)' => run' = run)
         /\ run' \in [id : {0} \cup Runs, intent : 0..MaxActs,
                      state : {"none", "Running", "Cancelling"} \cup Outcomes]
         /\ run' = run \/ (run.id # 0 /\ run'.state \in Outcomes)
<1>1. run \in [id : {0} \cup Runs, intent : 0..MaxActs,
               state : {"none", "Running", "Cancelling"} \cup Outcomes]
  BY DEF TypeOK
<1>2. CASE run' = run
  BY <1>1, <1>2
<1>3. ASSUME NEW o \in Outcomes, run' = [run EXCEPT !.state = o], run.id # 0
      PROVE  /\ run'.id = run.id /\ run'.intent = run.intent /\ ~IsLive(run)' /\ run'.state \in Outcomes
             /\ run' \in [id : {0} \cup Runs, intent : 0..MaxActs,
                          state : {"none", "Running", "Cancelling"} \cup Outcomes]
  BY <1>1, <1>3 DEF IsLive, Outcomes
<1> QED BY <1>2, <1>3 DEF Applied

LEMMA AppliedFirst ==
  ASSUME IInv, Applied
  PROVE  /\ TypeOK' /\ WithinBounds' /\ ActorsAsBorn' /\ RunsApart' /\ ToldAsEnded' /\ ShownIsLast'
         /\ OutcomeIsReal'
<1>0. TypeOK /\ WithinBounds /\ ActorsAsBorn /\ RunsApart /\ ToldAsEnded /\ ShownIsLast /\ OutcomeIsReal
  BY DEF IInv
<1>1. UNCHANGED <<acts, faults, last, cmds, born, entry, pc, mail, named, cur, cancelled, flag, started, result,
                  asked, overlap>>
  BY DEF Applied, actorVars, history
<1>2. /\ run'.id = run.id /\ run'.intent = run.intent /\ (IsLive(run)' => run' = run)
      /\ run' \in [id : {0} \cup Runs, intent : 0..MaxActs,
                   state : {"none", "Running", "Cancelling"} \cup Outcomes]
      /\ run' = run \/ (run.id # 0 /\ run'.state \in Outcomes)
  BY <1>0, RunAfter
<1>3. events # <<>> /\ events' = Tail(events)
  BY DEF Applied
<1>4. /\ events' \in Seq(Events)
      /\ \A i \in 1..Len(events') : i + 1 \in 1..Len(events) /\ events'[i] = events[i + 1]
      /\ CountOf("ConnectionLost", events') \in Nat
      /\ CountOf("ConnectionLost", events)
            = CountOf("ConnectionLost", events') + (IF events[1].kind = "ConnectionLost" THEN 1 ELSE 0)
  BY <1>0, <1>3, EventTaken
<1>5. /\ pending \in 0..MaxActs /\ last \in 0..MaxActs /\ pending' \in 0..MaxActs
      /\ run.id \in Nat /\ acts \in Nat /\ faults \in Nat /\ run.intent \in Nat
      /\ \/ pending' \in {pending, 0}
         \/ pending' = last /\ events[1].kind = "ConnectionLost" /\ pending = 0 /\ ~IsLive(run)'
  <2>1. pending \in 0..MaxActs /\ last \in 0..MaxActs
    BY <1>0 DEF TypeOK
  <2>2. run.id \in Nat /\ acts \in Nat /\ faults \in Nat /\ run.intent \in Nat
    BY <1>0, TypeFacts
  <2>3. IsLive(run) => pending = 0
    BY <1>0 DEF ShownIsLast
  <2> QED BY <2>1, <2>2, <2>3, Bounds DEF Applied
<1>6. TypeOK'
  <2>1. /\ conn' \in {"Disconnected", "Connecting", "Connected", "Failed"}
        /\ follow' \in Seq({"RunPending", "Reconnect", "ReconnectDefault"})
    BY DEF Applied
  <2> QED BY <1>0, <1>1, <1>2, <1>4, <1>5, <2>1 DEF TypeOK, Up
<1>7. WithinBounds'
  <2>1. run.id + (IF pending = 0 THEN 0 ELSE 1) + CountOf("ConnectionLost", events) <= acts + faults
    BY <1>0 DEF WithinBounds
  <2>2. run.id + (IF pending' = 0 THEN 0 ELSE 1) + CountOf("ConnectionLost", events') <= acts + faults
    <3>1. CASE pending' \in {pending, 0}
      BY <1>4, <1>5, <2>1, <3>1
    <3>2. CASE events[1].kind = "ConnectionLost" /\ pending = 0
      BY <1>4, <1>5, <2>1, <3>2
    <3> QED BY <1>5, <3>1, <3>2
  <2> QED BY <1>0, <1>1, <1>2, <2>2 DEF WithinBounds
<1>8. ActorsAsBorn' /\ RunsApart'
  BY <1>0, <1>1, <1>2 DEF ActorsAsBorn, RunsApart, WaitsIn
<1>9. ToldAsEnded'
  <2>1. run'.state = "none" <=> run'.id = 0
    BY <1>0, <1>2 DEF ToldAsEnded, Outcomes
  <2>2. \A i \in 1..Len(events') : events'[i].kind = "RunDone" => \E k \in 1..Len(events) : events'[i] = events[k]
    BY <1>4
  <2>3. /\ run'.id \in Nat /\ run.id <= run'.id /\ result' = result
        /\ \A b \in Actors : cur'[b] = cur[b] \/ cur'[b].kind # "Run"
    BY <1>1, <1>2, <1>5
  <2> QED BY <1>0, <2>1, <2>2, <2>3, ToldKept
<1>10. ShownIsLast'
  BY <1>0, <1>1, <1>2, <1>5 DEF ShownIsLast, IsLive
<1>11. OutcomeIsReal'
  <2>1. run'.state \in {"Done", "Cancelled"} => result[run.id] = run'.state
    BY DEF Applied
  <2> QED BY <1>1, <1>2, <2>1 DEF OutcomeIsReal
<1> QED BY <1>6, <1>7, <1>8, <1>9, <1>10, <1>11

\* What must be so of an event that is applied to the tab of a single session.
LEMMA AppliedApart ==
  ASSUME IInv, Applied, ~overlap,
         Waiting => conn' # "Connected",
         SessionUp => Free({"Connected"}, events') \/ conn' # "Connected",
         SessionUp /\ Free({"Connected"}, events') /\ Free({"Disconnect"}, cmds) => conn' = "Connected",
         NoneUp /\ Free(SessionEnds, events') => conn' # "Connected",
         run' = run \/ NoWork,
         pending' # 0 => started[pending'] = 0,
         IsLive(run)' => /\ events[1].kind \notin {"Disconnected", "ConnectionLost", "NotConnected"}
                         /\ events[1].kind = "RunDone" => events[1].id # run.id
  PROVE  Apart'
<1>0. /\ TypeOK
      /\ OneSession /\ NewsInOrder /\ WorksOnShown /\ CancelIsMeant /\ ExecutesOnce /\ LiveIsUnderWay
  BY DEF IInv, Apart
<1>1. UNCHANGED <<acts, faults, last, cmds, born, entry, pc, mail, named, cur, cancelled, flag, started, result,
                  asked, overlap>>
  BY DEF Applied, actorVars, history
<1>2. run'.id = run.id /\ run'.intent = run.intent /\ (IsLive(run)' => run' = run)
  BY <1>0, RunAfter
<1>3. events # <<>> /\ events' = Tail(events)
  BY DEF Applied
<1>4. /\ \A i \in 1..Len(events') : i + 1 \in 1..Len(events) /\ events'[i] = events[i + 1]
      /\ \A k \in 1..Len(events) : k = 1 \/ \E i \in 1..Len(events') : events'[i] = events[k]
      /\ \A kinds : Free(kinds, events) <=> Free(kinds, events') /\ events[1].kind \notin kinds
      /\ \A kinds, others : Followed(kinds, others, events) => Followed(kinds, others, events')
      /\ OpenedFirst(events) => OpenedFirst(events')
  BY <1>0, <1>3, EventTaken
<1>5. /\ \A b \in Actors : Up(b)' <=> Up(b)
      /\ (SessionUp' <=> SessionUp) /\ (NoneUp' <=> NoneUp) /\ (Waiting' <=> Waiting)
      /\ \A i : Heard(i)' <=> Heard(i)
      /\ (InHand' <=> InHand) /\ (Ahead' <=> Ahead)
  BY <1>1 DEF SessionUp, NoneUp, Waiting, Heard, InHand, Ahead, Up
<1>6. OneSession'
  <2>1. Free({"ConnectionLost"}, events') \/ (NoneUp /\ Free({"Connect"}, cmds))
    BY <1>0, <1>4 DEF OneSession
  <2> QED BY <1>0, <1>1, <1>5, <2>1 DEF OneSession
<1>7. NewsInOrder'
  <2>1. Waiting => Free({"Connected", "Reconnected"}, events')
    BY <1>0, <1>4 DEF NewsInOrder
  <2>2. SessionUp => Followed(SessionEnds \cup {"NotConnected"}, {"Connected"}, events') /\ OpenedFirst(events')
    BY <1>0, <1>4 DEF NewsInOrder
  <2>3. NoneUp => Followed({"Connected", "Reconnected"}, SessionEnds, events')
    BY <1>0, <1>4 DEF NewsInOrder
  <2> QED BY <1>1, <1>5, <2>1, <2>2, <2>3 DEF NewsInOrder
<1>8. WorksOnShown'
  <2>1. CASE run' = run
    <3>1. \A q : OnIt(q) => OnIt(q)'
      <4>1. Free({"Connected"}, events) => Free({"Connected"}, events')
        BY <1>4
      <4> QED BY <1>5, <2>1, <4>1 DEF OnIt, IsLive
    <3> QED BY <1>0, <1>1, <1>5, <2>1, <3>1, WorksKept
  <2>2. CASE NoWork
    <3>1. NoWork'
      BY <1>1, <1>5, <2>2 DEF NoWork
    <3>2. ActorsAsBorn'
      BY AppliedFirst
    <3> QED BY <3>1, <3>2, NoWorkKept
  <2> QED BY <2>1, <2>2
<1>9. CancelIsMeant'
  BY <1>0, <1>1, <1>2, <1>5 DEF CancelIsMeant
<1>10. ExecutesOnce'
  <2>1. IsLive(run)' => IsLive(run)
    BY <1>2 DEF IsLive
  <2>2. (\E i \in 1..Len(events') : events'[i].kind = "ConnectionLost" /\ events'[i].arg)
           => \E i \in 1..Len(events) : events[i].kind = "ConnectionLost" /\ events[i].arg
    <3> SUFFICES ASSUME NEW i \in 1..Len(events'), events'[i].kind = "ConnectionLost", events'[i].arg
                 PROVE  \E k \in 1..Len(events) : events[k].kind = "ConnectionLost" /\ events[k].arg
      OBVIOUS
    <3>1. i + 1 \in 1..Len(events) /\ events'[i] = events[i + 1]
      BY <1>4
    <3>2. events[i + 1].kind = "ConnectionLost" /\ events[i + 1].arg
      BY <3>1
    <3> QED BY <3>1, <3>2
  <2> QED BY <1>0, <1>1, <2>1, <2>2 DEF ExecutesOnce
<1>11. LiveIsUnderWay'
  <2> SUFFICES ASSUME IsLive(run)'
               PROVE  LiveIsUnderWay'
    BY DEF LiveIsUnderWay
  <2>1. run' = run /\ IsLive(run)
    BY <1>2 DEF IsLive
  <2>2. CASE \E k \in 1..Len(events) :
                \/ events[k].kind \in {"Disconnected", "ConnectionLost", "NotConnected"}
                \/ events[k].kind = "RunDone" /\ events[k].id = run.id
    <3>1. PICK k \in 1..Len(events) :
                \/ events[k].kind \in {"Disconnected", "ConnectionLost", "NotConnected"}
                \/ events[k].kind = "RunDone" /\ events[k].id = run.id
      BY <2>2
    <3>2. k # 1
      BY <3>1
    <3>3. PICK i \in 1..Len(events') : events'[i] = events[k]
      BY <1>4, <3>2
    <3> QED BY <1>2, <3>1, <3>3 DEF LiveIsUnderWay
  <2>3. CASE \/ \E i \in 1..Len(cmds) : IsRunFor(cmds[i], run.id)
             \/ \E b \in Actors : \/ IsRunFor(cur[b], run.id)
                                  \/ \E i \in 1..Len(mail[b]) : IsRunFor(mail[b][i], run.id)
    BY <1>1, <1>2, <2>3 DEF LiveIsUnderWay
  <2> QED BY <1>0, <2>1, <2>2, <2>3 DEF LiveIsUnderWay
<1> QED BY <1>6, <1>7, <1>8, <1>9, <1>10, <1>11 DEF Apart

\* The end of a session arrives: the one that is open, if any, has not been heard of.
LEMMA EndsApplied ==
  ASSUME IInv, Applied, events[1].kind \in SessionEnds \cup {"NotConnected"}, conn' # "Connected",
         events[1].kind = "ConnectFailed" => run' = run,
         events[1].kind # "ConnectFailed" => ~IsLive(run)',
         ~overlap /\ pending' # 0 => started[pending'] = 0
  PROVE  IInv'
<1>1. ASSUME ~overlap PROVE Apart'
  <2>0. TypeOK /\ NewsInOrder /\ WorksOnShown
    BY <1>1 DEF IInv, Apart
  <2>1. SessionUp => ~Free({"Connected"}, events') /\ ~Free({"Connected"}, events)
    <3>1. events # <<>> /\ events' = Tail(events)
      BY DEF Applied
    <3>2. /\ \A kinds : Free(kinds, events) => Free(kinds, events')
          /\ \A kinds, others : Followed(kinds, others, events) /\ events[1].kind \in kinds => ~Free(others, events')
      BY <2>0, <3>1, EventTaken
    <3>3. SessionUp => Followed(SessionEnds \cup {"NotConnected"}, {"Connected"}, events)
      BY <2>0 DEF NewsInOrder
    <3>4. SessionUp => ~Free({"Connected"}, events')
      BY <3>2, <3>3
    <3> QED BY <3>2, <3>4
  <2>2. NoWork
    BY <2>0, <2>1, NoWorkFacts DEF OnIt
  <2>3. IsLive(run)' => /\ events[1].kind \notin {"Disconnected", "ConnectionLost", "NotConnected"}
                        /\ events[1].kind = "RunDone" => events[1].id # run.id
    BY DEF SessionEnds
  <2> QED BY <1>1, <2>1, <2>2, <2>3, AppliedApart
<1>2. overlap' = overlap
  BY DEF Applied, history
<1> QED BY <1>1, <1>2, AppliedFirst DEF IInv

\* A session opens, or its connection is replaced.
LEMMA OpenApplied ==
  ASSUME IInv, Applied, events[1].kind \in {"Connected", "Reconnected"}, conn' = "Connected",
         run' = run, pending' = pending
  PROVE  IInv'
<1>1. ASSUME ~overlap PROVE Apart'
  <2>0. TypeOK /\ NewsInOrder /\ ExecutesOnce
    BY <1>1 DEF IInv, Apart
  <2>1. events # <<>> /\ events' = Tail(events)
    BY DEF Applied
  <2>2. /\ \A kinds : Free(kinds, events) => events[1].kind \notin kinds
        /\ \A kinds, others : Followed(kinds, others, events) /\ events[1].kind \in kinds => ~Free(others, events')
        /\ OpenedFirst(events) /\ events[1].kind \in {"Connected", "Reconnected"} => Free({"Connected"}, events')
    BY <2>0, <2>1, EventTaken
  <2>3. ~Waiting
    <3>1. ~Free({"Connected", "Reconnected"}, events)
      BY <2>2
    <3> QED BY <2>0, <3>1 DEF NewsInOrder
  <2>4. SessionUp => Free({"Connected"}, events')
    BY <2>0, <2>2 DEF NewsInOrder
  <2>5. NoneUp => ~Free(SessionEnds, events')
    BY <2>0, <2>2 DEF NewsInOrder
  <2>6. pending' # 0 => started[pending'] = 0
    BY <2>0 DEF ExecutesOnce
  <2>7. IsLive(run)' => /\ events[1].kind \notin {"Disconnected", "ConnectionLost", "NotConnected"}
                        /\ events[1].kind = "RunDone" => events[1].id # run.id
    OBVIOUS
  <2> QED BY <1>1, <2>3, <2>4, <2>5, <2>6, <2>7, AppliedApart
<1>2. overlap' = overlap
  BY DEF Applied, history
<1> QED BY <1>1, <1>2, AppliedFirst DEF IInv

\* A run's end arrives: if it is the run on show, the session is not on it any more.
LEMMA DoneApplied ==
  ASSUME IInv, Applied, events[1].kind = "RunDone", conn' = conn, pending' = pending,
         IF run.id = events[1].id THEN ~IsLive(run)' ELSE run' = run
  PROVE  IInv'
<1>1. ASSUME ~overlap PROVE Apart'
  <2>0. TypeOK /\ RunsApart /\ ToldAsEnded /\ NewsInOrder /\ WorksOnShown /\ ExecutesOnce
    BY <1>1 DEF IInv, Apart
  <2>1. events # <<>> /\ events' = Tail(events)
    BY DEF Applied
  <2>2. /\ 1 \in 1..Len(events)
        /\ \A kinds : Free(kinds, events) <=> Free(kinds, events') /\ events[1].kind \notin kinds
    BY <2>0, <2>1, EventTaken
  <2>3. /\ Free({"Connected"}, events) <=> Free({"Connected"}, events')
        /\ Free(SessionEnds, events) <=> Free(SessionEnds, events')
    BY <2>2 DEF SessionEnds
  <2>4. run' = run \/ NoWork
    <3>1. CASE run.id # events[1].id
      BY <3>1
    <3>2. CASE run.id = events[1].id
      <4>1. /\ result[run.id] # "none"
            /\ \A b \in Actors : cur[b].kind = "Run" => cur[b].run.id # run.id
        <5>1. result[events[1].id] = events[1].outcome /\ events[1].outcome \in Outcomes
          BY <2>0, <2>2, TypeFacts DEF ToldAsEnded
        <5>2. \A b \in Actors : cur[b].kind = "Run" => cur[b].run.id # events[1].id
          BY <2>0, <2>2 DEF ToldAsEnded
        <5> QED BY <3>2, <5>1, <5>2 DEF Outcomes
      <4>2. \A q : OnIt(q) => q.id = run.id
        BY DEF OnIt
      <4>3. ASSUME NEW i \in 1..Len(cmds), cmds[i].kind = "Run" PROVE ~Heard(i)
        <5>1. result[cmds[i].run.id] = "none"
          BY <2>0, <4>3 DEF RunsApart, WaitsIn
        <5> QED BY <2>0, <4>1, <4>2, <4>3, <5>1 DEF WorksOnShown
      <4>4. ASSUME NEW b \in Actors, NEW i \in 1..Len(mail[b]) PROVE mail[b][i].kind # "Run"
        <5>1. mail[b][i].kind = "Run" => result[mail[b][i].run.id] = "none"
          BY <2>0 DEF RunsApart, WaitsIn
        <5> QED BY <2>0, <4>1, <4>2, <5>1 DEF WorksOnShown
      <4>5. \A b \in Actors : cur[b].kind # "Run"
        BY <2>0, <4>1, <4>2 DEF WorksOnShown
      <4> QED BY <4>3, <4>4, <4>5 DEF NoWork, InHand, Ahead
    <3> QED BY <3>1, <3>2
  <2>5. Waiting => conn' # "Connected"
    BY <2>0 DEF NewsInOrder
  <2>6. SessionUp => Free({"Connected"}, events') \/ conn' # "Connected"
    BY <2>0, <2>3 DEF NewsInOrder
  <2>7. SessionUp /\ Free({"Connected"}, events') /\ Free({"Disconnect"}, cmds) => conn' = "Connected"
    BY <2>0, <2>3 DEF NewsInOrder
  <2>8. NoneUp /\ Free(SessionEnds, events') => conn' # "Connected"
    BY <2>0, <2>3 DEF NewsInOrder
  <2>9. pending' # 0 => started[pending'] = 0
    BY <2>0 DEF ExecutesOnce
  <2>10. IsLive(run)' => /\ events[1].kind \notin {"Disconnected", "ConnectionLost", "NotConnected"}
                         /\ events[1].kind = "RunDone" => events[1].id # run.id
    OBVIOUS
  <2> QED BY <1>1, <2>4, <2>5, <2>6, <2>7, <2>8, <2>9, <2>10, AppliedApart
<1>2. overlap' = overlap
  BY DEF Applied, history
<1> QED BY <1>1, <1>2, AppliedFirst DEF IInv

LEMMA ApplyEventStep ==
  ASSUME IInv, ApplyEvent
  PROVE  IInv'
<1>0. /\ TypeOK /\ ToldAsEnded /\ OutcomeIsReal /\ (~overlap => ExecutesOnce)
  BY DEF IInv, Apart
<1>1. /\ events # <<>> /\ events' = Tail(events)
      /\ UNCHANGED <<acts, faults, last, cmds, born, entry, actorVars, history>>
  BY DEF ApplyEvent
<1>2. /\ Head(events) = events[1] /\ 1 \in 1..Len(events) /\ events[1] \in Events
  BY <1>0, <1>1, EventTaken
<1>3. PICK e \in Events : e = events[1]
  BY <1>2
<1>4. /\ e.kind \in EventKinds \cup {"RunDone"} /\ e.arg \in BOOLEAN
      /\ e.kind = "RunDone" => e.id \in Runs /\ e.outcome \in Outcomes /\ result[e.id] = e.outcome
  <2>1. e.kind = "RunDone" => result[e.id] = e.outcome
    BY <1>0, <1>2, <1>3 DEF ToldAsEnded
  <2> QED BY <2>1, EventFacts
<1>5. /\ conn \in {"Disconnected", "Connecting", "Connected", "Failed"}
      /\ follow \in Seq({"RunPending", "Reconnect", "ReconnectDefault"})
      /\ run \in [id : {0} \cup Runs, intent : 0..MaxActs,
                  state : {"none", "Running", "Cancelling"} \cup Outcomes]
      /\ run.id = 0 <=> run.state = "none"
  BY <1>0 DEF TypeOK, ToldAsEnded
<1>6. \A k \in {"RunPending", "Reconnect", "ReconnectDefault"} :
         Append(follow, k) \in Seq({"RunPending", "Reconnect", "ReconnectDefault"})
  BY <1>5
<1>7. run.state \in {"Done", "Cancelled"} => result[run.id] = run.state
  BY <1>0 DEF OutcomeIsReal
<1>8. ~overlap => (pending # 0 => started[pending] = 0)
  BY <1>0 DEF ExecutesOnce
\* a run that fails
<1>9. ASSUME run' = [run EXCEPT !.state = "Failed"], run.id # 0
      PROVE  /\ run.id # 0 /\ \E o \in Outcomes : run' = [run EXCEPT !.state = o]
             /\ run'.state \notin {"Done", "Cancelled"} /\ ~IsLive(run)'
  BY <1>5, <1>9 DEF Outcomes, IsLive
<1>10. ASSUME FailLiveRun
       PROVE  /\ run' = run \/ (run.id # 0 /\ \E o \in Outcomes : run' = [run EXCEPT !.state = o])
              /\ run'.state \in {"Done", "Cancelled"} => result[run.id] = run'.state
              /\ ~IsLive(run)'
  <2>1. CASE IsLive(run)
    <3>1. run' = [run EXCEPT !.state = "Failed"] /\ run.id # 0
      BY <1>5, <1>10, <2>1 DEF FailLiveRun, IsLive
    <3> QED BY <1>9, <3>1
  <2>2. CASE ~IsLive(run)
    <3>1. run' = run
      BY <1>10, <2>2 DEF FailLiveRun
    <3> QED BY <1>7, <2>2, <3>1 DEF IsLive
  <2> QED BY <2>1, <2>2
<1>11. CASE e.kind = "Connected"
  <2>1. OnConnected
    BY <1>2, <1>3, <1>11 DEF ApplyEvent
  <2>2. conn' = "Connected" /\ follow' = Append(follow, "RunPending") /\ run' = run /\ pending' = pending
    BY <2>1 DEF OnConnected
  <2>3. Applied
    BY <1>1, <1>6, <1>7, <2>2 DEF Applied
  <2> QED BY <1>3, <1>11, <2>2, <2>3, OpenApplied
<1>12. CASE e.kind = "Reconnected"
  <2>1. OnReconnected
    BY <1>2, <1>3, <1>12 DEF ApplyEvent
  <2>2. conn' = "Connected" /\ run' = run /\ pending' = pending /\ follow' = follow
    BY <2>1 DEF OnReconnected
  <2>3. Applied
    BY <1>1, <1>5, <1>7, <2>2 DEF Applied
  <2> QED BY <1>3, <1>12, <2>2, <2>3, OpenApplied
<1>13. CASE e.kind = "ConnectFailed"
  <2>1. OnConnectFailed(e.arg)
    BY <1>2, <1>3, <1>13 DEF ApplyEvent
  <2>2. /\ conn' \in {"Connecting", "Failed"} /\ run' = run /\ pending' \in {pending, 0}
        /\ follow' \in {follow, Append(follow, "ReconnectDefault")}
    BY <2>1 DEF OnConnectFailed
  <2>3. Applied
    BY <1>1, <1>5, <1>6, <1>7, <2>2 DEF Applied
  <2>4. ~overlap /\ pending' # 0 => started[pending'] = 0
    BY <1>8, <2>2
  <2> QED BY <1>3, <1>13, <2>2, <2>3, <2>4, EndsApplied DEF SessionEnds
<1>14. CASE e.kind = "Disconnected"
  <2>1. OnDisconnected
    BY <1>2, <1>3, <1>14 DEF ApplyEvent
  <2>2. conn' = "Disconnected" /\ FailLiveRun /\ pending' = pending /\ follow' = follow
    BY <2>1 DEF OnDisconnected
  <2>3. Applied /\ ~IsLive(run)'
    BY <1>1, <1>5, <1>10, <2>2 DEF Applied
  <2>4. ~overlap /\ pending' # 0 => started[pending'] = 0
    BY <1>8, <2>2
  <2> QED BY <1>3, <1>14, <2>2, <2>3, <2>4, EndsApplied DEF SessionEnds
<1>15. CASE e.kind = "ConnectionLost"
  <2>1. OnConnectionLost(e.arg)
    BY <1>2, <1>3, <1>15 DEF ApplyEvent
  <2>2. /\ conn' = "Disconnected" /\ FailLiveRun /\ follow' = Append(follow, "Reconnect")
        /\ pending' = pending \/ (e.arg /\ IsLive(run) /\ pending' = last)
    BY <2>1 DEF OnConnectionLost
  <2>3. Applied /\ ~IsLive(run)'
    BY <1>1, <1>3, <1>6, <1>10, <1>15, <2>2 DEF Applied
  <2>4. ~overlap /\ pending' # 0 => started[pending'] = 0
    <3>1. CASE pending' = pending
      BY <1>8, <3>1
    <3>2. CASE e.arg /\ IsLive(run) /\ pending' = last
      BY <1>0, <1>2, <1>3, <1>15, <3>2 DEF ExecutesOnce
    <3> QED BY <2>2, <3>1, <3>2
  <2> QED BY <1>3, <1>15, <2>2, <2>3, <2>4, EndsApplied DEF SessionEnds
<1>16. CASE e.kind = "NotConnected"
  <2>1. OnNotConnected
    BY <1>2, <1>3, <1>16 DEF ApplyEvent
  <2>2. /\ conn' = "Disconnected" /\ pending' = pending /\ follow' = follow
        /\ IF run.id = 0 THEN run' = run ELSE run' = [run EXCEPT !.state = "Failed"]
    BY <2>1 DEF OnNotConnected
  <2>3. /\ run' = run \/ (run.id # 0 /\ \E o \in Outcomes : run' = [run EXCEPT !.state = o])
        /\ run'.state \in {"Done", "Cancelled"} => result[run.id] = run'.state
        /\ ~IsLive(run)'
    <3>1. CASE run.id = 0
      BY <1>5, <1>7, <2>2, <3>1 DEF IsLive
    <3>2. CASE run.id # 0
      BY <1>9, <2>2, <3>2
    <3> QED BY <3>1, <3>2
  <2>4. Applied
    BY <1>1, <1>5, <2>2, <2>3 DEF Applied
  <2>5. ~overlap /\ pending' # 0 => started[pending'] = 0
    BY <1>8, <2>2
  <2> QED BY <1>3, <1>16, <2>2, <2>3, <2>4, <2>5, EndsApplied
<1>17. CASE e.kind = "RunDone"
  <2>1. OnRunDone(e)
    BY <1>2, <1>3, <1>17 DEF ApplyEvent
  <2>2. /\ conn' = conn /\ pending' = pending /\ follow' = follow
        /\ IF run.id = e.id THEN run' = [run EXCEPT !.state = e.outcome] ELSE run' = run
    BY <2>1 DEF OnRunDone
  <2>3. /\ e.outcome \in Outcomes /\ result[e.id] = e.outcome
        /\ run.id = e.id => run.id # 0
    BY <1>4, <1>17, RunFacts
  <2>4. /\ run' = run \/ (run.id # 0 /\ \E o \in Outcomes : run' = [run EXCEPT !.state = o])
        /\ run'.state \in {"Done", "Cancelled"} => result[run.id] = run'.state
        /\ IF run.id = e.id THEN ~IsLive(run)' ELSE run' = run
    <3>1. CASE run.id = e.id
      <4>1. run' = [run EXCEPT !.state = e.outcome] /\ run'.state = e.outcome
        BY <1>5, <2>2, <3>1
      <4> QED BY <2>3, <3>1, <4>1 DEF Outcomes, IsLive
    <3>2. CASE run.id # e.id
      BY <1>7, <2>2, <3>2
    <3> QED BY <3>1, <3>2
  <2>5. Applied
    BY <1>1, <1>5, <2>2, <2>4 DEF Applied
  <2> QED BY <1>3, <1>17, <2>2, <2>4, <2>5, DoneApplied
<1> QED
  <2>1. e.kind \in {"Connected", "Reconnected", "ConnectFailed", "Disconnected", "ConnectionLost",
                    "NotConnected", "RunDone"}
    BY <1>4 DEF EventKinds, SessionEvents, SessionEnds
  <2> QED BY <1>11, <1>12, <1>13, <1>14, <1>15, <1>16, <1>17, <2>1

-----------------------------------------------------------------------------
(* The invariant                                                           *)

LEMMA InitIInv ==
  ASSUME Init
  PROVE  IInv
<1>1. /\ acts = 0 /\ faults = 0 /\ conn = "Disconnected" /\ pending = 0 /\ last = 0 /\ follow = <<>>
      /\ run.id = 0 /\ run.intent = 0 /\ run.state = "none"
      /\ cmds = <<>> /\ events = <<>> /\ born = 0 /\ entry = 0 /\ asked = {} /\ overlap = FALSE
      /\ 1..Len(cmds) = {} /\ 1..Len(events) = {}
  BY DEF Init
<1>2. \A a \in Actors : /\ pc[a] = "unborn" /\ mail[a] = <<>> /\ 1..Len(mail[a]) = {} /\ ~Up(a)
                        /\ cur[a].kind = "None" /\ a > 0
  <2>1. \A a \in Actors : pc[a] = "unborn" /\ mail[a] = <<>> /\ cur[a] = TabMsg("None")
    BY DEF Init
  <2>2. \A a \in Actors : a > 0
    BY Bounds DEF Actors
  <2> QED BY <2>1, <2>2, MsgFacts DEF Up
<1>3. TypeOK
  <2>1. /\ run \in [id : {0} \cup Runs, intent : 0..MaxActs,
                    state : {"none", "Running", "Cancelling"} \cup Outcomes]
    BY Bounds DEF Init
  <2>2. /\ pc \in [Actors -> {"unborn", "opening", "idle", "checking", "running",
                              "ending", "closing", "gone"}]
        /\ mail \in [Actors -> Seq(Msgs)]
    BY DEF Init
  <2>3. /\ named \in [Actors -> BOOLEAN] /\ cancelled \in [Actors -> BOOLEAN] /\ flag \in [Actors -> BOOLEAN]
    BY DEF Init
  <2>4. cur \in [Actors -> Msgs]
    <3>1. TabMsg("None") \in Msgs
      BY MsgFacts
    <3> QED BY <3>1, Zenon DEF Init
  <2>5. started \in [Intents -> Nat] /\ result \in [Runs -> {"none"} \cup Outcomes]
    BY DEF Init
  <2>6. /\ acts \in 0..MaxActs /\ faults \in 0..MaxFaults /\ pending \in 0..MaxActs /\ last \in 0..MaxActs
        /\ born \in 0..MaxActors /\ entry \in 0..MaxActors
    BY <1>1, Bounds
  <2>7. /\ follow \in Seq({"RunPending", "Reconnect", "ReconnectDefault"})
        /\ cmds \in Seq(Commands) /\ events \in Seq(Events)
    BY <1>1
  <2>8. asked \subseteq Runs /\ overlap \in BOOLEAN /\ conn \in {"Disconnected", "Connecting", "Connected", "Failed"}
    BY <1>1
  <2>9. \A a \in Actors : ~Up(a) => mail[a] = <<>>
    BY <1>2
  <2> QED BY <2>1, <2>2, <2>3, <2>4, <2>5, <2>6, <2>7, <2>8, <2>9 DEF TypeOK
<1>4. WithinBounds
  <2>1. CountOf("Connect", cmds) = 0 /\ CountOf("ConnectionLost", events) = 0
    BY <1>1, CountNone
  <2> QED BY <1>1, <2>1, Bounds DEF WithinBounds
<1>5. ActorsAsBorn
  BY <1>1, <1>2 DEF ActorsAsBorn
<1>6. RunsApart
  BY <1>1, <1>2 DEF RunsApart, OneOfEach
<1>7. ToldAsEnded /\ ShownIsLast /\ OutcomeIsReal
  <2>1. \A r \in Runs : result[r] = "none"
    BY DEF Init
  <2> QED BY <1>1, <2>1 DEF ToldAsEnded, ShownIsLast, OutcomeIsReal, IsLive
<1>8. OneSession /\ NewsInOrder
  <2>1. NoneUp /\ ~SessionUp /\ ~Waiting
    BY <1>1, <1>2 DEF NoneUp, SessionUp, Waiting, Free
  <2> QED BY <1>1, <1>2, <2>1 DEF OneSession, NewsInOrder, Free, Followed
<1>9. WorksOnShown /\ CancelIsMeant
  BY <1>1, <1>2 DEF WorksOnShown, CancelIsMeant
<1>10. ExecutesOnce /\ LiveIsUnderWay
  <2>1. \A i \in Intents : started[i] = 0
    BY DEF Init
  <2> QED BY <1>1, <2>1 DEF ExecutesOnce, LiveIsUnderWay, IsLive
<1> QED BY <1>3, <1>4, <1>5, <1>6, <1>7, <1>8, <1>9, <1>10 DEF IInv, Apart

LEMMA NextIInv ==
  ASSUME IInv, [Next]_vars
  PROVE  IInv'
<1>1. CASE Next
  BY <1>1, UserStep, ApplyEventStep, FollowupStep, DispatchStep, ActorStep DEF Next
<1>2. CASE UNCHANGED vars
  <2>1. UNCHANGED <<acts, faults, conn, run, pending, last, follow, cmds, events, born, entry, pc, mail, named, cur,
                    cancelled, flag, started, result, asked, overlap>>
    BY <1>2 DEF vars, uiVars, actorVars, history
  <2>2. /\ TypeOK /\ WithinBounds /\ ActorsAsBorn /\ RunsApart /\ ToldAsEnded /\ ShownIsLast
        /\ OutcomeIsReal /\ (~overlap => Apart)
    BY DEF IInv
  <2>3. TypeOK' /\ WithinBounds' /\ ActorsAsBorn' /\ RunsApart' /\ ToldAsEnded' /\ ShownIsLast' /\ OutcomeIsReal'
    BY <2>1, <2>2 DEF TypeOK, Up, WithinBounds, ActorsAsBorn, RunsApart, WaitsIn, ToldAsEnded, ShownIsLast,
       OutcomeIsReal, IsLive
  <2>4. ASSUME Apart PROVE Apart'
    <3>1. OneSession' /\ NewsInOrder'
      BY <2>1, <2>4 DEF Apart, OneSession, NoneUp, Up, NewsInOrder, Waiting, SessionUp
    <3>2. WorksOnShown' /\ CancelIsMeant'
      BY <2>1, <2>4 DEF Apart, WorksOnShown, OnIt, IsLive, SessionUp, Up, Heard, CancelIsMeant, InHand, Ahead
    <3>3. ExecutesOnce' /\ LiveIsUnderWay'
      BY <2>1, <2>4 DEF Apart, ExecutesOnce, LiveIsUnderWay, IsLive
    <3> QED BY <3>1, <3>2, <3>3 DEF Apart
  <2> QED BY <2>1, <2>2, <2>3, <2>4 DEF IInv
<1> QED BY <1>1, <1>2

\* The inductive invariant: sessions follow one another, and what is told of
\* them arrives in that order, as long as the user does not overlap them.
THEOREM SpecIInv == Spec => []IInv
BY InitIInv, NextIInv, PTL DEF Spec

\* Every variable has its type: an actor that has returned has no mail, and
\* runs and presses stay within what was pressed and replayed.
THEOREM SpecTypeOK == Spec => []TypeOK
<1>1. IInv => TypeOK
  BY DEF IInv
<1> QED BY <1>1, SpecIInv, PTL

\* apply_event never shows a run as done or cancelled that did not end so,
\* overlapping sessions included.
THEOREM SpecOutcomeIsReal == Spec => []OutcomeIsReal
<1>1. IInv => OutcomeIsReal
  BY DEF IInv
<1> QED BY <1>1, SpecIInv, PTL

\* tab_actor cancels a run only if the user cancelled that very run.
THEOREM SpecCancelHitsItsRun == Spec => []CancelHitsItsRun
<1>1. ASSUME IInv, ~overlap, NEW a \in Actors, pc[a] = "ending", cancelled[a]
      PROVE  cur[a].run.id \in asked
  <2>1. ActorsAsBorn /\ WorksOnShown /\ CancelIsMeant
    BY <1>1 DEF IInv, Apart
  <2>2. cur[a].kind = "Run"
    BY <1>1, <2>1 DEF ActorsAsBorn
  <2>3. cur[a].run.id = run.id
    BY <2>1, <2>2 DEF WorksOnShown, OnIt
  <2> QED BY <1>1, <2>1, <2>3 DEF CancelIsMeant
<1>2. IInv => CancelHitsItsRun
  BY <1>1 DEF CancelHitsItsRun
<1> QED BY <1>2, SpecIInv, PTL

\* One press of Run executes the script at most once, its replay after
\* ConnectionLost included.
THEOREM SpecExecutedOnceApart == Spec => []ExecutedOnceApart
<1>1. IInv => ExecutedOnceApart
  BY DEF IInv, Apart, ExecutesOnce, ExecutedOnceApart, ExecutedOnce
<1> QED BY <1>1, SpecIInv, PTL

\* When nothing is on its way conn says whether the dispatcher's entry is a
\* session that is open.
THEOREM SpecSettledViewIsRight == Spec => []SettledViewIsRight
<1>1. ASSUME IInv, Settled, ~overlap PROVE conn = "Connected" <=> entry # 0 /\ Up(entry)
  <2>1. TypeOK /\ OneSession /\ NewsInOrder
    BY <1>1 DEF IInv, Apart
  <2>2. Free(SessionEnds, events) /\ Free({"Connected"}, events) /\ Free({"Disconnect"}, cmds)
    BY <1>1 DEF Settled, Free
  <2>3. ASSUME entry # 0, Up(entry) PROVE conn = "Connected"
    <3>1. SessionUp
      BY <1>1, <2>1, <2>3, EntryFacts DEF Settled, SessionUp
    <3> QED BY <2>1, <2>2, <3>1 DEF NewsInOrder
  <2>4. ASSUME entry = 0 \/ ~Up(entry) PROVE NoneUp
    <3>1. \A a \in Actors : Up(a) => entry # a
      BY <2>4 DEF Actors
    <3>2. \A a \in Actors : pc[a] # "closing" /\ 1..Len(mail[a]) = {}
      BY <1>1 DEF Settled
    <3> QED BY <2>1, <3>1, <3>2 DEF OneSession, NoneUp
  <2>5. NoneUp => conn # "Connected"
    BY <2>1, <2>2 DEF NewsInOrder
  <2> QED BY <2>3, <2>4, <2>5
<1>2. IInv => SettledViewIsRight
  BY <1>1 DEF SettledViewIsRight
<1> QED BY <1>2, SpecIInv, PTL

\* When nothing is on its way a run shown as running is in the hands of the
\* tab's own actor.
THEOREM SpecLiveRunIsExecuted == Spec => []LiveRunIsExecuted
<1>1. ASSUME IInv, Settled, ~overlap, IsLive(run)
      PROVE  /\ entry # 0 /\ pc[entry] \in {"checking", "running", "ending"}
             /\ cur[entry].run.id = run.id
  <2>1. ActorsAsBorn /\ WorksOnShown /\ LiveIsUnderWay
    BY <1>1 DEF IInv, Apart
  <2>2. /\ 1..Len(cmds) = {} /\ 1..Len(events) = {}
        /\ \A a \in Actors : 1..Len(mail[a]) = {}
    BY <1>1 DEF Settled
  <2>3. PICK a \in Actors : IsRunFor(cur[a], run.id)
    BY <1>1, <2>1, <2>2 DEF LiveIsUnderWay
  <2>4. cur[a].kind = "Run" /\ cur[a].run.id = run.id
    BY <2>3 DEF IsRunFor
  <2>5. entry = a /\ a # 0
    BY <2>1, <2>4 DEF WorksOnShown, Actors
  <2>6. pc[a] \in {"checking", "running", "ending"}
    BY <2>1, <2>4 DEF ActorsAsBorn
  <2> QED BY <2>4, <2>5, <2>6
<1>2. IInv => LiveRunIsExecuted
  BY <1>1 DEF LiveRunIsExecuted
<1> QED BY <1>2, SpecIInv, PTL
=============================================================================
