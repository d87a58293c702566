------------------------- MODULE SparkKernelProofs -------------------------
(* Theorems about the local Spark session, for any number of tabs, runs,    *)
(* presses of Stop, sessions and faults.                                    *)
EXTENDS SparkKernel, WellFoundedInduction, TLAPS

-----------------------------------------------------------------------------
(* Without keeps the requests of the other tabs, in order.  What a recursive *)
(* function returns is shown by induction on a set of numbers.              *)

LEMMA InductionOnASet ==
  ASSUME NEW S, 0 \in S, \A n \in Nat : n \in S => n + 1 \in S
  PROVE  \A n \in Nat : n \in S
<1> SUFFICES ASSUME Nat \ S # {} PROVE FALSE
  OBVIOUS
<1> DEFINE R == OpToRel(<, Nat)
<1>1. IsWellFoundedOn(R, Nat)
  BY NatLessThanWellFounded
<1> HIDE DEF R
<1>2. PICK x \in Nat \ S : \A y \in Nat \ S : ~(<<y, x>> \in R)
  BY <1>1, WFMin
<1>3. x # 0 /\ x - 1 \in Nat
  BY <1>2
<1>4. x - 1 \notin S
  BY <1>3
<1>5. <<x - 1, x>> \in R
  BY <1>3 DEF R, OpToRel
<1> QED BY <1>2, <1>3, <1>4, <1>5

\* The recursion of Without has a solution, so that Without is what it says.
LEMMA WithoutIsDefined ==
  ASSUME NEW s, Len(s) \in Nat, NEW t
  PROVE  \E f : /\ f = [n \in 0..Len(s) |->
                          IF n = 0 THEN <<>>
                          ELSE IF s[n].tab # t THEN Append(f[n - 1], s[n]) ELSE f[n - 1]]
                /\ Without(s, t) = f[Len(s)]
<1> DEFINE Extended(g, n) == IF s[n].tab # t THEN Append(g[n - 1], s[n]) ELSE g[n - 1]
           Upto(f, m) == f = [n \in 0..m |-> IF n = 0 THEN <<>> ELSE Extended(f, n)]
           S == {m \in Nat : \E f : Upto(f, m)}
<1>1. 0 \in S
  <2>1. Upto([n \in 0..0 |-> <<>>], 0)
    OBVIOUS
  <2> QED BY <2>1
<1>2. ASSUME NEW m \in Nat, m \in S PROVE m + 1 \in S
  <2>1. PICK f : Upto(f, m)
    BY <1>2
  <2> DEFINE g == [n \in 0..(m + 1) |-> IF n <= m THEN f[n] ELSE Extended(f, m + 1)]
  <2>2. \A n \in 0..(m + 1) : g[n] = (IF n = 0 THEN <<>> ELSE Extended(g, n))
    <3> SUFFICES ASSUME NEW n \in 0..(m + 1) PROVE g[n] = (IF n = 0 THEN <<>> ELSE Extended(g, n))
      OBVIOUS
    <3>1. CASE n = 0
      BY <2>1, <3>1
    <3>2. CASE n # 0 /\ n <= m
      <4>1. g[n] = f[n] /\ g[n - 1] = f[n - 1] /\ n \in 0..m
        BY <3>2
      <4>2. f[n] = Extended(f, n)
        BY <2>1, <3>2, <4>1
      <4> QED BY <3>2, <4>1, <4>2
    <3>3. CASE n = m + 1
      <4>1. g[n] = Extended(f, m + 1) /\ g[n - 1] = f[n - 1]
        BY <3>3
      <4> QED BY <3>3, <4>1
    <3> QED BY <3>1, <3>2, <3>3
  <2>3. Upto(g, m + 1)
    <3> DEFINE h == [n \in 0..(m + 1) |-> IF n = 0 THEN <<>> ELSE Extended(g, n)]
    <3>1. g = h
      BY <2>2
    <3> QED BY <3>1
  <2> HIDE DEF Upto, g
  <2> QED BY <2>3
<1>3. Len(s) \in S
  <2> HIDE DEF S
  <2> QED BY <1>1, <1>2, InductionOnASet
<1>4. Upto(CHOOSE f : Upto(f, Len(s)), Len(s))
  BY <1>3
<1>5. Without(s, t) = (CHOOSE f : Upto(f, Len(s)))[Len(s)]
  BY Zenon DEF Without
<1> QED BY <1>4, <1>5

\* w takes what it has from s, in the order of s.
Among(w, s) ==
  /\ \A i \in 1..Len(w) : \E k \in 1..Len(s) : w[i] = s[k]
  /\ \A i, j \in 1..Len(w) : i < j => \E k, l \in 1..Len(s) : k < l /\ w[i] = s[k] /\ w[j] = s[l]

LEMMA WithoutKeeps ==
  ASSUME NEW S, NEW s \in Seq(S), NEW t, NEW w, w = Without(s, t)
  PROVE  /\ w \in Seq(S) /\ Among(w, s)
         /\ \A k \in 1..Len(s) : s[k].tab # t => \E i \in 1..Len(w) : w[i] = s[k]
<1>1. Len(s) \in Nat
  OBVIOUS
<1>2. PICK f : /\ f = [n \in 0..Len(s) |->
                         IF n = 0 THEN <<>>
                         ELSE IF s[n].tab # t THEN Append(f[n - 1], s[n]) ELSE f[n - 1]]
               /\ w = f[Len(s)]
  BY <1>1, WithoutIsDefined
<1>a. \A n \in 0..Len(s) : f[n] = (IF n = 0 THEN <<>>
                                   ELSE IF s[n].tab # t THEN Append(f[n - 1], s[n]) ELSE f[n - 1])
  BY <1>2, Zenon
<1>3. f[0] = <<>>
  BY <1>1, <1>a
<1>4. ASSUME NEW n \in 1..Len(s)
      PROVE  f[n] = (IF s[n].tab # t THEN Append(f[n - 1], s[n]) ELSE f[n - 1])
  BY <1>1, <1>a
<1> DEFINE Kept(v, n) ==
      /\ v \in Seq(S)
      /\ \A i \in 1..Len(v) : \E k \in 1..n : v[i] = s[k]
      /\ \A k \in 1..n : s[k].tab # t => \E i \in 1..Len(v) : v[i] = s[k]
      /\ \A i, j \in 1..Len(v) : i < j => \E k, l \in 1..n : k < l /\ v[i] = s[k] /\ v[j] = s[l]
    N == {n \in Nat : n <= Len(s) => Kept(f[n], n)}
<1>5. 0 \in N
  <2>1. Kept(<<>>, 0)
    OBVIOUS
  <2> HIDE DEF Kept
  <2> QED BY <1>3, <2>1
<1>6. ASSUME NEW n \in Nat, n \in N PROVE n + 1 \in N
  <2> SUFFICES ASSUME n + 1 <= Len(s) PROVE Kept(f[n + 1], n + 1)
    <3> HIDE DEF Kept
    <3> QED OBVIOUS
  <2>1. Kept(f[n], n) /\ n + 1 \in 1..Len(s)
    <3> HIDE DEF Kept
    <3> QED BY <1>1, <1>6
  <2>2. f[n + 1] = (IF s[n + 1].tab # t THEN Append(f[n], s[n + 1]) ELSE f[n])
    BY <1>4, <2>1
  <2>3. CASE s[n + 1].tab = t
    BY <2>1, <2>2, <2>3
  <2>4. CASE s[n + 1].tab # t
    <3> DEFINE v == f[n]  v2 == f[n + 1]
    <3>1. v \in Seq(S) /\ s[n + 1] \in S /\ v2 = Append(v, s[n + 1])
      BY <2>1, <2>2, <2>4
    <3> HIDE DEF v, v2
    <3>2. /\ v2 \in Seq(S) /\ Len(v2) = Len(v) + 1 /\ v2[Len(v) + 1] = s[n + 1]
          /\ \A i \in 1..Len(v) : v2[i] = v[i]
          /\ Len(v) \in Nat
      BY <3>1
    <3>3. \A i \in 1..Len(v2) : \E k \in 1..(n + 1) : v2[i] = s[k]
      <4> TAKE i \in 1..Len(v2)
      <4>1. CASE i \in 1..Len(v)
        BY <2>1, <3>2, <4>1 DEF v
      <4>2. CASE i = Len(v) + 1
        BY <3>2, <4>2
      <4> QED BY <3>2, <4>1, <4>2
    <3>4. \A k \in 1..(n + 1) : s[k].tab # t => \E i \in 1..Len(v2) : v2[i] = s[k]
      <4> TAKE k \in 1..(n + 1)
      <4>1. CASE k \in 1..n
        BY <2>1, <3>2, <4>1 DEF v
      <4>2. CASE k = n + 1
        BY <3>2, <4>2
      <4> QED BY <4>1, <4>2
    <3>5. \A i, j \in 1..Len(v2) : i < j
             => \E k, l \in 1..(n + 1) : k < l /\ v2[i] = s[k] /\ v2[j] = s[l]
      <4> SUFFICES ASSUME NEW i \in 1..Len(v2), NEW j \in 1..Len(v2), i < j
                   PROVE  \E k, l \in 1..(n + 1) : k < l /\ v2[i] = s[k] /\ v2[j] = s[l]
        OBVIOUS
      <4>1. i \in 1..Len(v)
        BY <3>2
      <4>2. CASE j \in 1..Len(v)
        <5>1. PICK k \in 1..n, l \in 1..n : k < l /\ v[i] = s[k] /\ v[j] = s[l]
          BY <2>1, <4>1, <4>2 DEF v
        <5> QED BY <3>2, <4>1, <4>2, <5>1
      <4>3. CASE j = Len(v) + 1
        <5>1. PICK k \in 1..n : v[i] = s[k]
          BY <2>1, <4>1 DEF v
        <5> QED BY <3>2, <4>1, <4>3, <5>1
      <4> QED BY <3>2, <4>2, <4>3
    <3> QED BY <3>2, <3>3, <3>4, <3>5 DEF v2
  <2> QED BY <2>3, <2>4
<1>7. Len(s) \in N
  <2> HIDE DEF N
  <2> QED BY <1>1, <1>5, <1>6, InductionOnASet
<1>8. Kept(w, Len(s))
  <2> HIDE DEF Kept
  <2> QED BY <1>1, <1>2, <1>7
<1> QED BY <1>8 DEF Among

-----------------------------------------------------------------------------
(* Sequences                                                               *)

LEMMA Head1 ==
  ASSUME NEW S, NEW s \in Seq(S), s # <<>>, NEW w, w = Tail(s)
  PROVE  /\ Head(s) = s[1] /\ s[1] \in S /\ Len(s) \in Nat \ {0}
         /\ w \in Seq(S) /\ Len(w) = Len(s) - 1
         /\ \A i \in 1..Len(w) : w[i] = s[i + 1] /\ i + 1 \in 1..Len(s)
         /\ \A k \in 1..Len(s) : k = 1 \/ \E i \in 1..Len(w) : k = i + 1 /\ w[i] = s[k]
<1>1. /\ Head(s) = s[1] /\ s[1] \in S /\ Len(s) \in Nat \ {0}
      /\ w \in Seq(S) /\ Len(w) = Len(s) - 1
      /\ \A i \in 1..Len(w) : w[i] = s[i + 1] /\ i + 1 \in 1..Len(s)
  OBVIOUS
<1>2. \A k \in 1..Len(s) : k = 1 \/ (k - 1 \in 1..Len(w) /\ k = (k - 1) + 1 /\ w[k - 1] = s[k])
  BY <1>1
<1> QED BY <1>1, <1>2

LEMMA Append1 ==
  ASSUME NEW S, NEW s \in Seq(S), NEW e \in S, NEW w, w = Append(s, e)
  PROVE  /\ w \in Seq(S) /\ Len(w) = Len(s) + 1 /\ Len(s) \in Nat
         /\ w[Len(s) + 1] = e
         /\ \A i \in 1..Len(s) : w[i] = s[i]
OBVIOUS

LEMMA Joined ==
  ASSUME NEW S, NEW s \in Seq(S), NEW z \in Seq(S), NEW w, w = s \o z
  PROVE  /\ w \in Seq(S) /\ Len(w) = Len(s) + Len(z)
         /\ Len(s) \in Nat /\ Len(z) \in Nat
         /\ \A i \in 1..Len(s) : w[i] = s[i]
         /\ \A i \in 1..Len(z) : w[Len(s) + i] = z[i]
OBVIOUS

-----------------------------------------------------------------------------
(* Messages                                                                *)

LEMMA CmdFacts ==
  /\ Cmd("Start", NoReq) \in Cmds /\ Cmd("Shutdown", NoReq) \in Cmds
  /\ Cmd("Start", NoReq).kind = "Start" /\ Cmd("Shutdown", NoReq).kind = "Shutdown"
  /\ \A r \in Reqs : Cmd("Run", r) \in Cmds /\ Cmd("Run", r).kind = "Run" /\ Cmd("Run", r).req = r
  /\ \A c \in Cmds : /\ c.kind \in {"Start", "Run", "Shutdown"}
                     /\ c.kind = "Run" => c.req \in Reqs
                     /\ c.kind # "Run" => c.req = NoReq
<1>1. \A c \in Cmds : \/ c = Cmd("Start", NoReq) \/ c = Cmd("Shutdown", NoReq)
                      \/ \E r \in Reqs : c = Cmd("Run", r)
  BY Zenon DEF Cmds
<1>2. /\ Cmd("Start", NoReq) \in Cmds /\ Cmd("Shutdown", NoReq) \in Cmds
      /\ \A r \in Reqs : Cmd("Run", r) \in Cmds
  BY Zenon DEF Cmds
<1>3. \A kind, r : Cmd(kind, r).kind = kind /\ Cmd(kind, r).req = r
  BY DEF Cmd
<1> QED BY <1>1, <1>2, <1>3

LEMMA EventFacts ==
  /\ \A kind \in {"Ready", "Stopped", "Failed"} : Event(kind) \in Events /\ Event(kind).kind = kind
  /\ \A r \in Reqs, o \in Outcomes : /\ Done(r, o) \in Events /\ Done(r, o).kind = "Done"
                                     /\ Done(r, o).req = r /\ Done(r, o).outcome = o
  /\ \A e \in Events : /\ e.kind \in {"Ready", "Done", "Stopped", "Failed"}
                       /\ e.kind = "Done" => e.req \in Reqs /\ e.outcome \in Outcomes
<1>1. \A e \in Events : \/ \E kind \in {"Ready", "Stopped", "Failed"} : e = Event(kind)
                        \/ e \in [kind : {"Done"}, req : Reqs, outcome : Outcomes]
  BY Zenon DEF Events
<1>2. /\ \A kind \in {"Ready", "Stopped", "Failed"} : Event(kind) \in Events
      /\ \A r \in Reqs, o \in Outcomes : Done(r, o) \in Events
  <2>1. \A r \in Reqs, o \in Outcomes : Done(r, o) \in [kind : {"Done"}, req : Reqs, outcome : Outcomes]
    BY Zenon DEF Done
  <2> QED BY <2>1, Zenon DEF Events
<1>3. /\ \A kind : Event(kind).kind = kind
      /\ \A r, o : Done(r, o).kind = "Done" /\ Done(r, o).req = r /\ Done(r, o).outcome = o
  BY DEF Event, Done
<1> QED BY <1>1, <1>2, <1>3

LEMMA ReqFacts ==
  /\ \A r \in Reqs : r.tab \in Tabs /\ r.id \in 1..MaxRuns /\ r # NoReq
  /\ NoReq.tab = NoTab /\ NoReq.id = 0 /\ NoTab \notin Tabs
  /\ \A t \in Tabs, i \in 1..MaxRuns : Req(t, i) \in Reqs /\ Req(t, i).tab = t /\ Req(t, i).id = i
BY KernelConstants DEF Reqs, NoReq, Req, Tabs

-----------------------------------------------------------------------------
(* Types                                                                   *)

ViewRecord == [id : 0..MaxRuns, state : {"none", "Running", "Cancelling"} \cup Outcomes]
ResultRecord == [id : 0..MaxRuns, outcome : Outcomes \cup {"none"}]

LEMMA ViewFacts ==
  ASSUME NEW v \in ViewRecord, NEW s \in {"Running", "Cancelling"} \cup Outcomes,
         NEW v2, v2 = [v EXCEPT !.state = s]
  PROVE  v2 \in ViewRecord /\ v2.id = v.id /\ v2.state = s
<1>1. s \in {"none", "Running", "Cancelling"} \cup Outcomes
  OBVIOUS
<1>2. v2 \in ViewRecord
  BY <1>1, Zenon DEF ViewRecord
<1>3. v2.id = v.id /\ v2.state = s
  BY DEF ViewRecord
<1> QED BY <1>2, <1>3

LEMMA LiveFacts ==
  ASSUME TypeOK, ViewsNumbered
  PROVE  Live \subseteq 1..MaxRuns /\ Stopping \subseteq Live
         /\ \A t \in Tabs : view[t].state # "none" => view[t].id \in 1..MaxRuns
<1>1. \A t \in Tabs : view[t].id \in 0..MaxRuns /\ (view[t].state # "none" => view[t].id \in 1..MaxRuns)
  BY KernelConstants DEF TypeOK, ViewsNumbered
<1> QED BY <1>1 DEF Live, Stopping, IsLive

LEMMA LaunchFacts ==
  ASSUME Launch, TypeOK
  PROVE  /\ launches' \in 0..MaxLaunches /\ kst' = "Starting" /\ linked' = TRUE
         /\ control' \in BOOLEAN /\ interrupting' \in BOOLEAN /\ cancel' \in BOOLEAN /\ hit' \in BOOLEAN
         /\ linked' \in BOOLEAN
         /\ cmds' \in Seq(Cmds) /\ Len(cmds') = 1 /\ cmds'[1].kind = "Start"
         /\ events' = <<>> /\ intr' = <<>> /\ tpc' = "idle" /\ worker' = "none" /\ cur' = NoReq
<1>1. /\ control' \in BOOLEAN /\ interrupting' \in BOOLEAN /\ cancel' \in BOOLEAN /\ hit' \in BOOLEAN
      /\ linked' \in BOOLEAN
  BY Zenon DEF Launch
<1>2. launches' \in 0..MaxLaunches
  BY KernelConstants DEF Launch, TypeOK
<1>3. cmds' \in Seq(Cmds) /\ Len(cmds') = 1 /\ cmds'[1].kind = "Start"
  BY CmdFacts DEF Launch
<1> QED BY <1>1, <1>2, <1>3 DEF Launch

LEMMA InterruptFacts ==
  ASSUME TypeOK, ViewsNumbered, NEW t, Interrupt(t), t = busy \/ (t \in Tabs /\ IsLive(view[t]))
  PROVE  /\ waiting' = <<>> /\ interrupting' \in BOOLEAN /\ cancel' \in BOOLEAN /\ intr' \in Seq(Tabs)
         /\ missed' \subseteq 1..MaxRuns /\ missed \subseteq missed'
         /\ kst = "Starting" => cancel'
         /\ kst = "Starting" /\ worker = "up" => Live \subseteq missed'
<1>1. interrupting' \in BOOLEAN /\ cancel' \in BOOLEAN
  <2>1. interrupting \in BOOLEAN /\ cancel \in BOOLEAN
    BY DEF TypeOK
  <2> QED BY <2>1, Zenon DEF Interrupt
<1>2. intr' \in Seq(Tabs)
  <2>1. intr \in Seq(Tabs) /\ (busy # NoTab => busy \in Tabs)
    BY DEF TypeOK
  <2>2. intr' = intr \/ (busy # NoTab /\ intr' = Append(intr, busy))
    BY DEF Interrupt
  <2>3. CASE busy # NoTab /\ intr' = Append(intr, busy)
    <3>1. busy \in Tabs
      BY <2>1, <2>3
    <3> QED BY <2>1, <2>3, <3>1
  <2> QED BY <2>1, <2>2, <2>3
<1>3. /\ missed' \subseteq 1..MaxRuns /\ missed \subseteq missed'
      /\ kst = "Starting" /\ worker = "up" => Live \subseteq missed'
  <2>1. /\ missed \subseteq 1..MaxRuns
        /\ missed' = missed \cup (IF kst = "Starting" THEN (IF worker = "up" THEN Live ELSE {})
                                  ELSE IF t = busy THEN {} ELSE {view[t].id})
    BY DEF Interrupt, InterruptMisses, TypeOK
  <2>2. t # busy => view[t].id \in 1..MaxRuns
    BY LiveFacts DEF IsLive
  <2> QED BY <2>1, <2>2, LiveFacts
<1>4. waiting' = <<>> /\ (kst = "Starting" => cancel')
  BY DEF Interrupt
<1> QED BY <1>1, <1>2, <1>3, <1>4

LEMMA TypeInit == Init => TypeOK
<1> SUFFICES ASSUME Init PROVE TypeOK
  OBVIOUS
<1>1. /\ interrupting \in BOOLEAN /\ restart \in BOOLEAN /\ control \in BOOLEAN /\ linked \in BOOLEAN
      /\ cancel \in BOOLEAN /\ hit \in BOOLEAN
  BY Zenon DEF Init
<1>2. view \in [Tabs -> ViewRecord]
  BY KernelConstants DEF Init, ViewRecord
<1>3. result \in [Notebooks -> ResultRecord]
  BY KernelConstants DEF Init, ResultRecord
<1> QED BY <1>1, <1>2, <1>3, KernelConstants DEF Init, TypeOK, ViewRecord, ResultRecord

LEMMA NumberedInit == Init => ViewsNumbered
<1> SUFFICES ASSUME Init, NEW t \in Tabs PROVE view[t].id <= runs /\ (view[t].state # "none" => view[t].id # 0)
  BY DEF ViewsNumbered
<1>1. view[t] = [id |-> 0, state |-> "none"] /\ runs = 0
  BY DEF Init
<1> QED BY <1>1

LEMMA ReturnsFacts ==
  ASSUME TypeOK, NEW o \in Outcomes, NEW more \in Seq(Events), Returns(o, more), cur # NoReq
  PROVE  /\ hit' \in BOOLEAN /\ result' \in [Notebooks -> ResultRecord] /\ events' \in Seq(Events)
         /\ tpc = "running" /\ tpc' = "idle" /\ cur' = NoReq /\ cur \in Reqs
         /\ events' = Append(events, Done(cur, o)) \o more
         /\ \A t \in Notebooks : result'[t] = IF t = cur.tab THEN [id |-> cur.id, outcome |-> o]
                                              ELSE result[t]
         /\ UNCHANGED <<cmds, cancel, missed, runs, stops, launches, uiVars, intr>>
<1>1. hit' \in BOOLEAN
  BY Zenon DEF Returns
<1>2. /\ tpc = "running" /\ tpc' = "idle" /\ cur' = NoReq
      /\ UNCHANGED <<cmds, cancel, missed, runs, stops, launches, uiVars, intr>>
  BY DEF Returns, ThreadOnly
<1>3. cur \in Reqs /\ Done(cur, o) \in Events
  BY EventFacts DEF TypeOK
<1> DEFINE res == [id |-> cur.id, outcome |-> o]
<1>4. res \in ResultRecord
  <2>1. cur.id \in 0..MaxRuns /\ o \in Outcomes \cup {"none"}
    BY <1>3, ReqFacts, KernelConstants
  <2> QED BY <2>1, Zenon DEF ResultRecord
<1>5. result' = IF cur.tab \in Notebooks THEN [result EXCEPT ![cur.tab] = res] ELSE result
  BY DEF Returns
<1> HIDE DEF res
<1>6. /\ result' \in [Notebooks -> ResultRecord]
      /\ \A t \in Notebooks : result'[t] = IF t = cur.tab THEN res ELSE result[t]
  BY <1>4, <1>5 DEF TypeOK, ResultRecord
<1>7. events' = Append(events, Done(cur, o)) \o more /\ events' \in Seq(Events)
  <2>1. events \in Seq(Events) /\ events' = events \o (<<Done(cur, o)>> \o more)
    BY DEF Returns, Emit, TypeOK
  <2> QED BY <1>3, <2>1
<1> QED BY <1>1, <1>2, <1>3, <1>6, <1>7 DEF res

\* Only the state of the run a tab shows changes, or a new run is shown.
LEMMA StateChanged ==
  ASSUME TypeOK, ViewsNumbered, NEW t \in Tabs, NEW s \in {"Running", "Cancelling"} \cup Outcomes,
         view[t].state # "none" \/ view[t].id # 0, view' = [view EXCEPT ![t].state = s], runs' = runs
  PROVE  /\ view' \in [Tabs -> ViewRecord] /\ ViewsNumbered'
         /\ \A u \in Tabs : u # t => view'[u] = view[u]
         /\ view'[t].id = view[t].id /\ view'[t].state = s
<1> DEFINE v == [view[t] EXCEPT !.state = s]
<1>1. view \in [Tabs -> ViewRecord]
  BY DEF TypeOK, ViewRecord
<1>2. v \in ViewRecord /\ v.id = view[t].id /\ v.state = s
  BY <1>1, ViewFacts
<1>3. view' = [view EXCEPT ![t] = v]
  OBVIOUS
<1> HIDE DEF v
<1>4. /\ view' \in [Tabs -> ViewRecord] /\ view'[t] = v
      /\ \A u \in Tabs : u # t => view'[u] = view[u]
  BY <1>1, <1>2, <1>3
<1>5. ViewsNumbered'
  BY <1>2, <1>4 DEF ViewsNumbered
<1> QED BY <1>2, <1>4, <1>5

LEMMA Broken ==
  ASSUME TypeOK, ViewsNumbered, NEW state \in {"Stopped", "Failed"}, OnBroke(state), runs' = runs
  PROVE  /\ view' \in [Tabs -> ViewRecord] /\ ViewsNumbered'
         /\ \A u \in Tabs : view'[u].id = view[u].id
                            /\ view'[u].state = (IF IsLive(view[u]) THEN "Failed" ELSE view[u].state)
         /\ kst' = state /\ busy' = NoTab /\ waiting' = <<>> /\ cmds' = cmds
         /\ linked' \in BOOLEAN /\ control' \in BOOLEAN /\ interrupting' \in BOOLEAN
<1>1. linked' \in BOOLEAN /\ control' \in BOOLEAN /\ interrupting' \in BOOLEAN
  BY Zenon DEF OnBroke
<1>2. \A u \in Tabs : view'[u] = (IF IsLive(view[u]) THEN [view[u] EXCEPT !.state = "Failed"] ELSE view[u])
  BY DEF OnBroke
<1>3. \A u \in Tabs : /\ view'[u] \in ViewRecord /\ view'[u].id = view[u].id
                      /\ view'[u].state = (IF IsLive(view[u]) THEN "Failed" ELSE view[u].state)
  <2> TAKE u \in Tabs
  <2>1. view[u] \in ViewRecord /\ "Failed" \in {"Running", "Cancelling"} \cup Outcomes
    BY DEF TypeOK, ViewRecord, Outcomes
  <2>2. CASE IsLive(view[u])
    <3>1. view'[u] = [view[u] EXCEPT !.state = "Failed"]
      BY <1>2, <2>2
    <3> QED BY <2>1, <2>2, <3>1, ViewFacts
  <2>3. CASE ~IsLive(view[u])
    BY <1>2, <2>1, <2>3
  <2> QED BY <2>2, <2>3
<1>4. view' \in [Tabs -> ViewRecord]
  <2>1. view' = [u \in Tabs |-> IF IsLive(view[u]) THEN [view[u] EXCEPT !.state = "Failed"] ELSE view[u]]
    BY DEF OnBroke
  <2> QED BY <1>2, <1>3, <2>1
<1>5. ViewsNumbered'
  BY <1>3 DEF ViewsNumbered, IsLive
<1> QED BY <1>1, <1>3, <1>4, <1>5 DEF OnBroke

LEMMA PressFacts ==
  ASSUME TypeOK, ViewsNumbered, NEW t \in Tabs, PressRun(t)
  PROVE  /\ runs' = runs + 1 /\ runs' \in 1..MaxRuns
         /\ view' \in [Tabs -> ViewRecord] /\ ViewsNumbered'
         /\ view'[t].id = runs' /\ view'[t].state = "Running"
         /\ \A u \in Tabs : u # t => view'[u] = view[u]
         /\ Req(t, runs') \in Reqs
<1>1. runs' = runs + 1 /\ runs' \in 1..MaxRuns
  BY KernelConstants DEF PressRun, TypeOK
<1> DEFINE v == [id |-> runs', state |-> "Running"]
<1>2. v \in ViewRecord
  <2>1. runs' \in 0..MaxRuns /\ "Running" \in {"none", "Running", "Cancelling"} \cup Outcomes
    BY <1>1
  <2> QED BY <2>1, Zenon DEF ViewRecord
<1>3. v.id = runs' /\ v.state = "Running"
  OBVIOUS
<1>4. view' = [view EXCEPT ![t] = v] /\ view \in [Tabs -> ViewRecord]
  BY DEF PressRun, TypeOK, ViewRecord
<1> HIDE DEF v
<1>5. view' \in [Tabs -> ViewRecord] /\ view'[t] = v /\ \A u \in Tabs : u # t => view'[u] = view[u]
  BY <1>2, <1>4
<1>6. ViewsNumbered'
  <2>1. runs \in Nat
    BY KernelConstants DEF TypeOK
  <2>2. \A u \in Tabs : view[u].id \in Nat
    BY KernelConstants DEF TypeOK
  <2> QED BY <1>1, <1>3, <1>5, <2>1, <2>2 DEF ViewsNumbered
<1> QED BY <1>1, <1>3, <1>5, <1>6, ReqFacts

LEMMA ReadyFacts ==
  ASSUME TypeOK, OnReady
  PROVE  /\ kst' = "Ready" /\ waiting' = <<>> /\ control' \in BOOLEAN
         /\ UNCHANGED <<interrupting, view, linked>>
         /\ cmds' \in Seq(Cmds) /\ Len(cmds') = Len(cmds) + Len(waiting)
         /\ \A i \in 1..Len(cmds) : cmds'[i] = cmds[i]
         /\ \A i \in 1..Len(waiting) : /\ cmds'[Len(cmds) + i].kind = "Run"
                                       /\ cmds'[Len(cmds) + i].req = waiting[i]
         /\ busy' \in Tabs \cup {NoTab}
         /\ busy' = busy \/ (Len(waiting) # 0 /\ busy' = waiting[1].tab)
<1> DEFINE q == [i \in DOMAIN waiting |-> Cmd("Run", waiting[i])]
<1>1. waiting \in Seq(Reqs) /\ cmds \in Seq(Cmds) /\ DOMAIN waiting = 1..Len(waiting) /\ Len(waiting) \in Nat
  BY DEF TypeOK
<1>2. \A i \in 1..Len(waiting) : waiting[i] \in Reqs
  BY <1>1
<1>3. /\ q \in Seq(Cmds) /\ Len(q) = Len(waiting)
      /\ \A i \in 1..Len(waiting) : q[i] = Cmd("Run", waiting[i])
  <2>1. \A i \in 1..Len(waiting) : Cmd("Run", waiting[i]) \in Cmds
    BY <1>2, CmdFacts
  <2>2. q \in [1..Len(waiting) -> Cmds]
    BY <1>1, <2>1
  <2> QED BY <1>1, <2>2
<1>4. cmds' = cmds \o q
  BY DEF OnReady
<1> HIDE DEF q
<1>5. /\ cmds' \in Seq(Cmds) /\ Len(cmds') = Len(cmds) + Len(waiting)
      /\ \A i \in 1..Len(cmds) : cmds'[i] = cmds[i]
      /\ \A i \in 1..Len(waiting) : cmds'[Len(cmds) + i] = Cmd("Run", waiting[i])
  <2>1. cmds \in Seq(Cmds) /\ q \in Seq(Cmds)
    BY <1>1, <1>3
  <2>2. /\ cmds' \in Seq(Cmds) /\ Len(cmds') = Len(cmds) + Len(q)
        /\ \A i \in 1..Len(cmds) : cmds'[i] = cmds[i]
        /\ \A i \in 1..Len(q) : cmds'[Len(cmds) + i] = q[i]
    BY <1>4, <2>1, Joined
  <2> QED BY <1>3, <2>2
<1>6. \A i \in 1..Len(waiting) : /\ cmds'[Len(cmds) + i].kind = "Run"
                                 /\ cmds'[Len(cmds) + i].req = waiting[i]
  BY <1>2, <1>5, CmdFacts
<1>7. /\ busy' \in Tabs \cup {NoTab}
      /\ busy' = busy \/ (Len(waiting) # 0 /\ busy' = waiting[1].tab)
  <2>1. busy' = busy \/ (waiting # <<>> /\ busy' = waiting[1].tab)
    BY DEF OnReady
  <2>2. waiting # <<>> => Len(waiting) # 0 /\ waiting[1] \in Reqs
    BY <1>1
  <2> QED BY <2>1, <2>2, ReqFacts DEF TypeOK
<1>8. kst' = "Ready" /\ waiting' = <<>> /\ control' \in BOOLEAN /\ UNCHANGED <<interrupting, view, linked>>
  BY DEF OnReady
<1> QED BY <1>5, <1>6, <1>7, <1>8

LEMMA DoneFacts ==
  ASSUME TypeOK, ViewsNumbered, NEW r \in Reqs, NEW o \in Outcomes, OnDone(r, o), runs' = runs,
         view[r.tab].id # 0
  PROVE  /\ busy' = (IF busy = r.tab THEN NoTab ELSE busy) /\ interrupting' \in BOOLEAN
         /\ UNCHANGED <<kst, waiting, control, linked, cmds>>
         /\ view' \in [Tabs -> ViewRecord] /\ ViewsNumbered'
         /\ \A u \in Tabs : u # r.tab => view'[u] = view[u]
         /\ view'[r.tab].id = view[r.tab].id /\ view'[r.tab].state = o
<1>1. /\ busy' = (IF busy = r.tab THEN NoTab ELSE busy)
      /\ view' = [view EXCEPT ![r.tab].state = o]
      /\ UNCHANGED <<kst, waiting, control, linked, cmds>>
  BY DEF OnDone
<1>2. interrupting' \in BOOLEAN
  BY Zenon DEF OnDone
<1>3. r.tab \in Tabs /\ o \in {"Running", "Cancelling"} \cup Outcomes
  BY ReqFacts
<1> QED BY <1>1, <1>2, <1>3, StateChanged

-----------------------------------------------------------------------------
(* The invariant is kept: one lemma per action                             *)

LEMMA AmongFacts ==
  ASSUME NEW S, NEW s \in Seq(S), NEW w
  PROVE  /\ w = s => Among(w, s)
         /\ w = <<>> => Among(w, s)
         /\ s # <<>> /\ w = Tail(s) => Among(w, s)
<1>1. w = s => Among(w, s)
  BY DEF Among
<1>2. w = <<>> => Among(w, s)
  BY DEF Among
<1>3. ASSUME s # <<>>, w = Tail(s) PROVE Among(w, s)
  <2>1. \A i \in 1..Len(w) : w[i] = s[i + 1] /\ i + 1 \in 1..Len(s)
    BY <1>3, Head1
  <2>2. \A i, j \in 1..Len(w) : i < j => /\ w[i] = s[i + 1] /\ w[j] = s[j + 1] /\ i + 1 < j + 1
                                         /\ i + 1 \in 1..Len(s) /\ j + 1 \in 1..Len(s)
    BY <2>1
  <2> QED BY <2>1, <2>2 DEF Among
<1> QED BY <1>1, <1>2, <1>3

\* The same of the messages of one kind.
AmongOf(kind, w, s) ==
  /\ \A i \in 1..Len(w) : w[i].kind = kind => \E k \in 1..Len(s) : w[i] = s[k]
  /\ \A i, j \in 1..Len(w) : i < j /\ w[i].kind = kind /\ w[j].kind = kind
        => \E k, l \in 1..Len(s) : k < l /\ w[i] = s[k] /\ w[j] = s[l]

LEMMA AmongOfFacts ==
  ASSUME NEW S, NEW s \in Seq(S), NEW w, NEW kind
  PROVE  /\ w = s => AmongOf(kind, w, s)
         /\ Len(w) = 0 => AmongOf(kind, w, s)
         /\ Len(w) = 1 /\ w[1].kind # kind => AmongOf(kind, w, s)
         /\ s # <<>> /\ w = Tail(s) => AmongOf(kind, w, s)
         /\ Len(w) = Len(s) + 1 /\ (\A i \in 1..Len(s) : w[i] = s[i]) /\ w[Len(s) + 1].kind # kind
               => AmongOf(kind, w, s)
<1>1. Len(w) = 0 => AmongOf(kind, w, s)
  BY DEF AmongOf
<1>2. w = s => AmongOf(kind, w, s)
  BY DEF AmongOf
<1>3. s # <<>> /\ w = Tail(s) => AmongOf(kind, w, s)
  BY AmongFacts DEF AmongOf, Among
<1>4. Len(w) = 1 /\ w[1].kind # kind => AmongOf(kind, w, s)
  BY DEF AmongOf
<1>5. Len(w) = Len(s) + 1 /\ (\A i \in 1..Len(s) : w[i] = s[i]) /\ w[Len(s) + 1].kind # kind
         => AmongOf(kind, w, s)
  <2> SUFFICES ASSUME Len(w) = Len(s) + 1, \A i \in 1..Len(s) : w[i] = s[i], w[Len(s) + 1].kind # kind
               PROVE  AmongOf(kind, w, s)
    OBVIOUS
  <2>1. Len(s) \in Nat
    OBVIOUS
  <2>2. \A i \in 1..Len(w) : w[i].kind = kind => i \in 1..Len(s) /\ w[i] = s[i]
    BY <2>1
  <2> QED BY <2>2 DEF AmongOf
<1> QED BY <1>1, <1>2, <1>3, <1>4, <1>5

LEMMA TailHas ==
  ASSUME NEW S, NEW s \in Seq(S), s # <<>>, NEW w, w = Tail(s), NEW k \in 1..Len(s), k # 1
  PROVE  \E i \in 1..Len(w) : k = i + 1 /\ w[i] = s[k]
BY Head1

LEMMA TypeFacts ==
  ASSUME TypeOK
  PROVE  /\ waiting \in Seq(Reqs) /\ Len(waiting) \in Nat
         /\ \A i \in 1..Len(waiting) : waiting[i] \in Reqs /\ waiting[i].tab \in Tabs /\ waiting[i].id \in Nat
         /\ cmds \in Seq(Cmds) /\ Len(cmds) \in Nat
         /\ \A i \in 1..Len(cmds) : /\ cmds[i].kind \in {"Start", "Run", "Shutdown"}
                                    /\ cmds[i].kind = "Run" => /\ cmds[i].req \in Reqs /\ cmds[i].req.tab \in Tabs
                                                               /\ cmds[i].req.id \in Nat
         /\ events \in Seq(Events) /\ Len(events) \in Nat
         /\ \A i \in 1..Len(events) : /\ events[i].kind \in {"Ready", "Done", "Stopped", "Failed"}
                                      /\ events[i].kind = "Done" => /\ events[i].req \in Reqs
                                                                    /\ events[i].req.tab \in Tabs
                                                                    /\ events[i].req.id \in Nat
                                                                    /\ events[i].outcome \in Outcomes
         /\ runs \in Nat /\ cur.id \in Nat /\ (cur # NoReq => cur \in Reqs /\ cur.tab \in Tabs)
         /\ (waiting = <<>> <=> Len(waiting) = 0) /\ (cmds = <<>> <=> Len(cmds) = 0)
         /\ (events = <<>> <=> Len(events) = 0)
         /\ \A t \in Tabs : view[t].id \in Nat
<1>1. waiting \in Seq(Reqs) /\ cmds \in Seq(Cmds) /\ events \in Seq(Events)
  BY DEF TypeOK
<1>2. \A i \in 1..Len(waiting) : waiting[i] \in Reqs /\ waiting[i].tab \in Tabs /\ waiting[i].id \in Nat
  BY <1>1, ReqFacts, KernelConstants
<1>3. \A i \in 1..Len(cmds) : /\ cmds[i].kind \in {"Start", "Run", "Shutdown"}
                              /\ cmds[i].kind = "Run" => /\ cmds[i].req \in Reqs /\ cmds[i].req.tab \in Tabs
                                                         /\ cmds[i].req.id \in Nat
  <2>1. \A i \in 1..Len(cmds) : cmds[i] \in Cmds
    BY <1>1
  <2> QED BY <2>1, CmdFacts, ReqFacts, KernelConstants
<1>4. \A i \in 1..Len(events) : /\ events[i].kind \in {"Ready", "Done", "Stopped", "Failed"}
                                /\ events[i].kind = "Done" => /\ events[i].req \in Reqs
                                                              /\ events[i].req.tab \in Tabs
                                                              /\ events[i].req.id \in Nat
                                                              /\ events[i].outcome \in Outcomes
  <2>1. \A i \in 1..Len(events) : events[i] \in Events
    BY <1>1
  <2> QED BY <2>1, EventFacts, ReqFacts, KernelConstants
<1>5. cur.id \in Nat /\ (cur # NoReq => cur \in Reqs /\ cur.tab \in Tabs)
  BY ReqFacts, KernelConstants DEF TypeOK
<1>6. runs \in Nat /\ \A t \in Tabs : view[t].id \in Nat
  BY KernelConstants DEF TypeOK
<1>7. /\ (waiting = <<>> <=> Len(waiting) = 0) /\ (cmds = <<>> <=> Len(cmds) = 0)
      /\ (events = <<>> <=> Len(events) = 0)
  BY <1>1
<1> QED BY <1>1, <1>2, <1>3, <1>4, <1>5, <1>6, <1>7


LEMMA NotebooksAreTabs == \A t \in Notebooks : t \in Tabs
BY DEF Tabs

\* A step that takes requests away leaves the others in order.
LEMMA OrderKept ==
  ASSUME TypeOK, InPressOrder, Among(waiting', waiting), AmongOf("Run", cmds', cmds),
         AmongOf("Done", events', events),
         cur' \in {cur, NoReq}, runs' \in Nat, runs <= runs'
  PROVE  InPressOrder'
<1>1. TypeOK /\ NoReq.id = 0 /\ runs \in Nat /\ cur.id \in Nat
  BY TypeFacts, ReqFacts
<1>2. \A i \in 1..Len(waiting') : waiting'[i].id <= runs'
  <2> TAKE i \in 1..Len(waiting')
  <2>1. PICK k \in 1..Len(waiting) : waiting'[i] = waiting[k]
    BY DEF Among
  <2> QED BY <1>1, <2>1, TypeFacts DEF InPressOrder
<1>3. \A i, j \in 1..Len(waiting') : i < j => waiting'[i].id < waiting'[j].id
  <2> SUFFICES ASSUME NEW i \in 1..Len(waiting'), NEW j \in 1..Len(waiting'), i < j
               PROVE  waiting'[i].id < waiting'[j].id
    OBVIOUS
  <2>1. PICK k \in 1..Len(waiting), l \in 1..Len(waiting) :
            k < l /\ waiting'[i] = waiting[k] /\ waiting'[j] = waiting[l]
    BY DEF Among
  <2> QED BY <2>1 DEF InPressOrder
<1>4. \A i \in 1..Len(cmds') : IsRun(i)' => cmds'[i].req.id <= runs' /\ cur'.id < cmds'[i].req.id
  <2> SUFFICES ASSUME NEW i \in 1..Len(cmds'), IsRun(i)'
               PROVE  cmds'[i].req.id <= runs' /\ cur'.id < cmds'[i].req.id
    OBVIOUS
  <2>1. PICK k \in 1..Len(cmds) : cmds'[i] = cmds[k]
    BY DEF AmongOf, IsRun, IsDone
  <2>2. cmds[k].req.id <= runs /\ cur.id < cmds[k].req.id /\ cmds[k].req.id \in Nat
    BY <1>1, <2>1, TypeFacts DEF InPressOrder, IsRun
  <2> QED BY <1>1, <2>1, <2>2
<1>5. \A i, j \in 1..Len(cmds') : i < j /\ IsRun(i)' /\ IsRun(j)' => cmds'[i].req.id < cmds'[j].req.id
  <2> SUFFICES ASSUME NEW i \in 1..Len(cmds'), NEW j \in 1..Len(cmds'), i < j, IsRun(i)', IsRun(j)'
               PROVE  cmds'[i].req.id < cmds'[j].req.id
    OBVIOUS
  <2>1. PICK k \in 1..Len(cmds), l \in 1..Len(cmds) : k < l /\ cmds'[i] = cmds[k] /\ cmds'[j] = cmds[l]
    BY DEF AmongOf, IsRun, IsDone
  <2> QED BY <2>1 DEF InPressOrder, IsRun
<1>6. cur'.id <= runs'
  BY <1>1 DEF InPressOrder
<1>7. \A i \in 1..Len(events') : IsDone(i)' => events'[i].req.id <= runs'
  <2> SUFFICES ASSUME NEW i \in 1..Len(events'), IsDone(i)' PROVE events'[i].req.id <= runs'
    OBVIOUS
  <2>1. PICK k \in 1..Len(events) : events'[i] = events[k]
    BY DEF AmongOf, IsRun, IsDone
  <2>2. events[k].req.id <= runs /\ events[k].req.id \in Nat
    BY <1>1, <2>1, TypeFacts DEF InPressOrder, IsDone
  <2> QED BY <1>1, <2>1, <2>2
<1>8. \A i \in 1..Len(events'), j \in 1..Len(cmds') :
          IsDone(i)' /\ IsRun(j)' => events'[i].req.id < cmds'[j].req.id
  <2> SUFFICES ASSUME NEW i \in 1..Len(events'), NEW j \in 1..Len(cmds'), IsDone(i)', IsRun(j)'
               PROVE  events'[i].req.id < cmds'[j].req.id
    OBVIOUS
  <2>1. PICK k \in 1..Len(events) : events'[i] = events[k]
    BY DEF AmongOf, IsRun, IsDone
  <2>2. PICK l \in 1..Len(cmds) : cmds'[j] = cmds[l]
    BY DEF AmongOf, IsRun, IsDone
  <2> QED BY <2>1, <2>2 DEF InPressOrder, IsDone, IsRun
<1>9. cur' # NoReq => \A i \in 1..Len(events') : IsDone(i)' => events'[i].req.id < cur'.id
  <2> SUFFICES ASSUME cur' # NoReq, NEW i \in 1..Len(events'), IsDone(i)' PROVE events'[i].req.id < cur'.id
    OBVIOUS
  <2>1. PICK k \in 1..Len(events) : events'[i] = events[k]
    BY DEF AmongOf, IsRun, IsDone
  <2> QED BY <2>1 DEF InPressOrder, IsDone
<1>10. \A i, j \in 1..Len(events') : i < j /\ IsDone(i)' /\ IsDone(j)' => events'[i].req.id < events'[j].req.id
  <2> SUFFICES ASSUME NEW i \in 1..Len(events'), NEW j \in 1..Len(events'), i < j, IsDone(i)', IsDone(j)'
               PROVE  events'[i].req.id < events'[j].req.id
    OBVIOUS
  <2>1. PICK k \in 1..Len(events), l \in 1..Len(events) : k < l /\ events'[i] = events[k] /\ events'[j] = events[l]
    BY DEF AmongOf, IsRun, IsDone
  <2> QED BY <2>1 DEF InPressOrder, IsDone
<1> QED BY <1>2, <1>3, <1>4, <1>5, <1>6, <1>7, <1>8, <1>9, <1>10 DEF InPressOrder

\* ... and is still on behalf of the cells they are shown for.
LEMMA CellsKept ==
  ASSUME TypeOK, CellsOwnRequests, Among(waiting', waiting), AmongOf("Run", cmds', cmds),
         AmongOf("Done", events', events),
         cur' \in {cur, NoReq}, result' = result,
         \A t \in Notebooks : \/ view'[t] = view[t] /\ (kst \in {"Stopped", "Failed"} => kst' \in {"Stopped", "Failed"})
                              \/ view'[t].id = view[t].id /\ IsLive(view'[t])
  PROVE  CellsOwnRequests'
<1> DEFINE Still(r) ==
             r.tab \in Notebooks =>
                 /\ r.id = view'[r.tab].id
                 /\ \/ view'[r.tab].state \in {"Running", "Cancelling"}
                    \/ view'[r.tab].state = "Failed" /\ kst' \in {"Stopped", "Failed"}
<1>1. \A r : ShownFor(r) => Still(r)
  BY DEF ShownFor, IsLive
<1> HIDE DEF Still
<1>2. \A i \in 1..Len(waiting') : Still(waiting'[i])
  <2> TAKE i \in 1..Len(waiting')
  <2>1. PICK k \in 1..Len(waiting) : waiting'[i] = waiting[k]
    BY DEF Among
  <2>2. ShownFor(waiting[k])
    BY DEF CellsOwnRequests
  <2> QED BY <1>1, <2>1, <2>2
<1>3. \A i \in 1..Len(cmds') : IsRun(i)' => Still(cmds'[i].req)
  <2> SUFFICES ASSUME NEW i \in 1..Len(cmds'), IsRun(i)' PROVE Still(cmds'[i].req)
    OBVIOUS
  <2>1. PICK k \in 1..Len(cmds) : cmds'[i] = cmds[k]
    BY DEF AmongOf, IsRun, IsDone
  <2>2. ShownFor(cmds[k].req)
    BY <2>1 DEF CellsOwnRequests, IsRun
  <2> QED BY <1>1, <2>1, <2>2
<1>4. cur' # NoReq => Still(cur')
  BY <1>1 DEF CellsOwnRequests
<1>5. \A i \in 1..Len(events') : IsDone(i)' => Still(events'[i].req)
  <2> SUFFICES ASSUME NEW i \in 1..Len(events'), IsDone(i)' PROVE Still(events'[i].req)
    OBVIOUS
  <2>1. PICK k \in 1..Len(events) : events'[i] = events[k]
    BY DEF AmongOf, IsRun, IsDone
  <2>2. ShownFor(events[k].req)
    BY <2>1 DEF CellsOwnRequests, IsDone
  <2> QED BY <1>1, <2>1, <2>2
<1>6. \A i \in 1..Len(events') : IsDone(i)' /\ events'[i].req.tab \in Notebooks
          => \/ events'[i].outcome = "Failed"
             \/ result'[events'[i].req.tab] = [id |-> events'[i].req.id, outcome |-> events'[i].outcome]
  <2> SUFFICES ASSUME NEW i \in 1..Len(events'), IsDone(i)', events'[i].req.tab \in Notebooks
               PROVE  \/ events'[i].outcome = "Failed"
                      \/ result'[events'[i].req.tab] = [id |-> events'[i].req.id, outcome |-> events'[i].outcome]
    OBVIOUS
  <2>1. PICK k \in 1..Len(events) : events'[i] = events[k]
    BY DEF AmongOf, IsRun, IsDone
  <2> QED BY <2>1 DEF CellsOwnRequests, IsDone
<1> QED BY <1>2, <1>3, <1>4, <1>5, <1>6 DEF CellsOwnRequests, Still, ShownFor, IsLive

LEMMA TakeStartStep ==
  ASSUME IInv, TakeStart
  PROVE  IInv'
<1>0. /\ TypeOK /\ ViewsNumbered /\ Pressed /\ InPressOrder /\ CellsOwnRequests /\ CellOutcomeIsReal
      /\ StartsOnce /\ SessionAsShown /\ LiveIsHeldUp /\ BusyIsHeldUp
  BY DEF IInv
<1>1. tpc = "idle" /\ tpc' = "starting" /\ cmds # <<>> /\ cmds' = Tail(cmds) /\ Head(cmds).kind = "Start"
  BY DEF TakeStart, Takes
<1>2. /\ cmds # <<>> /\ Head(cmds) = cmds[1] /\ Len(cmds) \in Nat \ {0}
      /\ cmds' \in Seq(Cmds) /\ Len(cmds') = Len(cmds) - 1
      /\ \A i \in 1..Len(cmds') : cmds'[i] = cmds[i + 1] /\ i + 1 \in 1..Len(cmds)
      /\ \A k \in 1..Len(cmds) : k = 1 \/ \E i \in 1..Len(cmds') : k = i + 1 /\ cmds'[i] = cmds[k]
      /\ StartAhead
  BY <1>0, <1>1, TypeFacts, Head1 DEF StartAhead
<1>3. /\ cancel' = FALSE /\ missed \subseteq missed' /\ missed' \subseteq 1..MaxRuns
      /\ cancel => Live \subseteq missed'
  BY <1>0, LiveFacts DEF TakeStart, ClearCancel, TypeOK
<1>4. cancel' \in BOOLEAN
  BY <1>3, Zenon
<1>5. UNCHANGED <<runs, stops, launches, faults, kst, busy, waiting, interrupting, restart, control,
                  view, linked, events, intr, worker, cur, hit, result>>
  BY DEF TakeStart, ThreadOnly, uiVars
<1>a. Among(waiting', waiting) /\ AmongOf("Run", cmds', cmds) /\ AmongOf("Done", events', events)
  BY <1>0, <1>1, <1>5, TypeFacts, AmongFacts, AmongOfFacts
<1>c. \A k \in 1..Len(cmds) : cmds[k].kind = "Start" \/ \E i \in 1..Len(cmds') : cmds'[i] = cmds[k]
  BY <1>1, <1>2
<1>b1. \A t \in Tabs : UnderWay(t) => UnderWay(t)'
  BY <1>c, <1>5 DEF UnderWay, IsRun, IsDone
<1>b. Ending => Ending'
  BY <1>1, <1>c, <1>5 DEF Ending, Broke, Breaks
<1>20. TypeOK'
  BY <1>0, <1>1, <1>2, <1>3, <1>4, <1>5, <1>c, <1>b1, <1>b, TypeFacts, ReqFacts DEF TypeOK, ViewRecord, ResultRecord
<1>21. ViewsNumbered'
  BY <1>0, <1>1, <1>2, <1>3, <1>4, <1>5, <1>c, <1>b1, <1>b, TypeFacts, ReqFacts DEF ViewsNumbered
<1>22. Pressed'
  BY <1>0, <1>1, <1>2, <1>3, <1>4, <1>5, <1>c, <1>b1, <1>b, TypeFacts, ReqFacts DEF Pressed, IsRun, IsDone
<1>23. InPressOrder'
  BY <1>0, <1>5, <1>a, TypeFacts, OrderKept
<1>24. CellsOwnRequests'
  BY <1>0, <1>5, <1>a, CellsKept
<1>25. CellOutcomeIsReal'
  BY <1>0, <1>1, <1>2, <1>3, <1>4, <1>5, <1>c, <1>b1, <1>b, TypeFacts, ReqFacts DEF CellOutcomeIsReal
<1>26. StartsOnce'
  BY <1>0, <1>1, <1>2, <1>5, TypeFacts DEF StartsOnce, StartAhead, ReadyAhead, Broke, Breaks, IsRun, IsDone
<1>27. SessionAsShown'
  BY <1>0, <1>1, <1>2, <1>5 DEF SessionAsShown, StartsOnce, StartAhead, ReadyAhead, Ending, Broke, Breaks
<1>28. LiveIsHeldUp'
  BY <1>0, <1>2, <1>3, <1>5, <1>b1, <1>b DEF LiveIsHeldUp, IsLive, Live
<1>29. BusyIsHeldUp'
  BY <1>0, <1>2, <1>5 DEF BusyIsHeldUp, SessionAsShown, StartsOnce
<1> QED BY <1>20, <1>21, <1>22, <1>23, <1>24, <1>25, <1>26, <1>27, <1>28, <1>29 DEF IInv

LEMMA StartOkStep ==
  ASSUME IInv, StartOk
  PROVE  IInv'
<1>0. /\ TypeOK /\ ViewsNumbered /\ Pressed /\ InPressOrder /\ CellsOwnRequests /\ CellOutcomeIsReal
      /\ StartsOnce /\ SessionAsShown /\ LiveIsHeldUp /\ BusyIsHeldUp
  BY DEF IInv
<1>1. tpc = "starting" /\ tpc' = "idle" /\ worker' = "up" /\ events = <<>> /\ events' = <<Event("Ready")>>
  BY <1>0 DEF StartOk, Emit, StartsOnce
<1>2. events' \in Seq(Events) /\ Len(events') = 1 /\ events'[1].kind = "Ready"
  BY <1>1, EventFacts
<1>3. /\ missed \subseteq missed' /\ missed' \subseteq 1..MaxRuns /\ (cancel => Live \subseteq missed')
  BY <1>0, LiveFacts DEF StartOk, TypeOK
<1>4. UNCHANGED <<runs, stops, launches, faults, kst, busy, waiting, interrupting, restart, control,
                  view, linked, cmds, intr, cancel, cur, hit, result>>
  BY DEF StartOk, ThreadOnly, uiVars
<1>a. Among(waiting', waiting) /\ AmongOf("Run", cmds', cmds) /\ AmongOf("Done", events', events)
  BY <1>0, <1>2, <1>4, TypeFacts, AmongFacts, AmongOfFacts
<1>20. TypeOK'
  BY <1>0, <1>1, <1>2, <1>3, <1>4 DEF TypeOK
<1>21. ViewsNumbered'
  BY <1>0, <1>1, <1>2, <1>3, <1>4, TypeFacts, ReqFacts DEF ViewsNumbered
<1>22. Pressed'
  BY <1>0, <1>1, <1>2, <1>3, <1>4, TypeFacts, ReqFacts DEF Pressed, IsRun, IsDone
<1>23. InPressOrder'
  BY <1>0, <1>4, <1>a, TypeFacts, OrderKept
<1>24. CellsOwnRequests'
  BY <1>0, <1>2, <1>4 DEF CellsOwnRequests, ShownFor, IsLive, IsRun, IsDone
<1>25. CellOutcomeIsReal'
  BY <1>0, <1>1, <1>2, <1>3, <1>4, TypeFacts, ReqFacts DEF CellOutcomeIsReal
<1>26. StartsOnce'
  BY <1>0, <1>1, <1>2, <1>4, TypeFacts DEF StartsOnce, StartAhead, ReadyAhead, Broke, Breaks, IsRun, IsDone
<1>27. SessionAsShown'
  BY <1>0, <1>1, <1>2, <1>4 DEF SessionAsShown, StartsOnce, StartAhead, ReadyAhead, Ending, Broke, Breaks
<1>28. LiveIsHeldUp'
  BY <1>0, <1>1, <1>2, <1>3, <1>4, TypeFacts DEF LiveIsHeldUp, UnderWay, Ending, Broke, Breaks, IsLive, IsRun, IsDone, StartsOnce, StartAhead, Live
<1>29. BusyIsHeldUp'
  BY <1>0, <1>1, <1>4 DEF BusyIsHeldUp, SessionAsShown, StartsOnce
<1> QED BY <1>20, <1>21, <1>22, <1>23, <1>24, <1>25, <1>26, <1>27, <1>28, <1>29 DEF IInv

LEMMA StartBreaksStep ==
  ASSUME IInv, StartCancelled \/ StartFails
  PROVE  IInv'
<1>0. /\ TypeOK /\ ViewsNumbered /\ Pressed /\ InPressOrder /\ CellsOwnRequests /\ CellOutcomeIsReal
      /\ StartsOnce /\ SessionAsShown /\ LiveIsHeldUp /\ BusyIsHeldUp
  BY DEF IInv
<1>1. tpc = "starting" /\ tpc' = "idle" /\ worker = "none" /\ events = <<>> /\ kst = "Starting"
  BY <1>0 DEF StartCancelled, StartFails, StartsOnce
<1>2. \E kind \in {"Stopped", "Failed"} : events' = <<Event(kind)>>
  BY <1>1 DEF StartCancelled, StartFails, Emit
<1>3. events' \in Seq(Events) /\ Len(events') = 1 /\ events'[1].kind \in {"Stopped", "Failed"}
  BY <1>2, EventFacts
<1>4. faults' \in 0..MaxFaults
  BY <1>0, KernelConstants DEF StartCancelled, StartFails, TypeOK
<1>5. UNCHANGED <<runs, stops, launches, kst, busy, waiting, interrupting, restart, control,
                  view, linked, cmds, intr, cancel, worker, cur, hit, result, missed>>
  BY DEF StartCancelled, StartFails, ThreadOnly, uiVars
<1>20. TypeOK'
  BY <1>0, <1>1, <1>3, <1>4, <1>5 DEF TypeOK
<1>21. ViewsNumbered'
  BY <1>0, <1>1, <1>2, <1>3, <1>4, <1>5, TypeFacts, ReqFacts DEF ViewsNumbered
<1>22. Pressed'
  BY <1>0, <1>1, <1>2, <1>3, <1>4, <1>5, TypeFacts, ReqFacts DEF Pressed, IsRun, IsDone
<1>23. InPressOrder'
  BY <1>0, <1>1, <1>3, <1>5, TypeFacts DEF InPressOrder, IsRun, IsDone
<1>24. CellsOwnRequests'
  BY <1>0, <1>3, <1>5 DEF CellsOwnRequests, ShownFor, IsLive, IsRun, IsDone
<1>25. CellOutcomeIsReal'
  BY <1>0, <1>1, <1>2, <1>3, <1>4, <1>5, TypeFacts, ReqFacts DEF CellOutcomeIsReal
<1>26. StartsOnce'
  BY <1>0, <1>1, <1>3, <1>5, TypeFacts DEF StartsOnce, StartAhead, ReadyAhead, Broke, Breaks, IsRun, IsDone
<1>27. SessionAsShown'
  BY <1>0, <1>1, <1>3, <1>5 DEF SessionAsShown, StartsOnce, StartAhead, ReadyAhead, Ending, Broke, Breaks
<1>28. LiveIsHeldUp'
  BY <1>0, <1>1, <1>3, <1>5, TypeFacts DEF LiveIsHeldUp, Ending, Broke, Breaks, IsLive
<1>29. BusyIsHeldUp'
  BY <1>0, <1>1, <1>5 DEF BusyIsHeldUp, SessionAsShown
<1> QED BY <1>20, <1>21, <1>22, <1>23, <1>24, <1>25, <1>26, <1>27, <1>28, <1>29 DEF IInv

LEMMA TakeShutdownStep ==
  ASSUME IInv, TakeShutdown
  PROVE  IInv'
<1>0. /\ TypeOK /\ ViewsNumbered /\ Pressed /\ InPressOrder /\ CellsOwnRequests /\ CellOutcomeIsReal
      /\ StartsOnce /\ SessionAsShown /\ LiveIsHeldUp /\ BusyIsHeldUp
  BY DEF IInv
<1>1. /\ tpc = "idle" /\ tpc' = "gone" /\ worker' = "none" /\ cmds # <<>> /\ cmds' = Tail(cmds)
      /\ Head(cmds).kind = "Shutdown" /\ events' = events \o <<Event("Stopped")>>
  BY DEF TakeShutdown, Takes, Emit
<1>2. /\ cmds # <<>> /\ Head(cmds) = cmds[1] /\ Len(cmds) \in Nat \ {0}
      /\ cmds' \in Seq(Cmds) /\ Len(cmds') = Len(cmds) - 1
      /\ \A i \in 1..Len(cmds') : cmds'[i] = cmds[i + 1] /\ i + 1 \in 1..Len(cmds)
      /\ \A k \in 1..Len(cmds) : k = 1 \/ \E i \in 1..Len(cmds') : k = i + 1 /\ cmds'[i] = cmds[k]
      /\ cmds[1].kind = "Shutdown"
  BY <1>0, <1>1, TypeFacts, Head1
<1>3. /\ events' \in Seq(Events) /\ Len(events') = Len(events) + 1 /\ events'[Len(events) + 1] = Event("Stopped")
      /\ \A i \in 1..Len(events) : events'[i] = events[i]
      /\ Event("Stopped").kind = "Stopped"
  BY <1>0, <1>1, TypeFacts, EventFacts
<1>4. UNCHANGED <<runs, stops, launches, faults, kst, busy, waiting, interrupting, restart, control,
                  view, linked, cancel, intr, cur, hit, result, missed>>
  BY DEF TakeShutdown, ThreadOnly, uiVars
<1>b. Broke'
  BY <1>0, <1>3, TypeFacts DEF Broke, Breaks
<1>a. Among(waiting', waiting) /\ AmongOf("Run", cmds', cmds) /\ AmongOf("Done", events', events)
  BY <1>0, <1>1, <1>3, <1>4, TypeFacts, AmongFacts, AmongOfFacts
<1>20. TypeOK'
  BY <1>0, <1>1, <1>2, <1>3, <1>4 DEF TypeOK
<1>21. ViewsNumbered'
  BY <1>0, <1>1, <1>2, <1>3, <1>4, <1>b, TypeFacts, ReqFacts DEF ViewsNumbered
<1>22. Pressed'
  BY <1>0, <1>1, <1>2, <1>3, <1>4, <1>b, TypeFacts, ReqFacts DEF Pressed, IsRun, IsDone
<1>23. InPressOrder'
  BY <1>0, <1>4, <1>a, TypeFacts, OrderKept
<1>24. CellsOwnRequests'
  BY <1>0, <1>4, <1>a, CellsKept
<1>25. CellOutcomeIsReal'
  BY <1>0, <1>1, <1>2, <1>3, <1>4, <1>b, TypeFacts, ReqFacts DEF CellOutcomeIsReal
<1>26. StartsOnce'
  BY <1>0, <1>1, <1>2, <1>3, <1>4, <1>b, TypeFacts DEF StartsOnce, StartAhead, ReadyAhead, IsRun, IsDone
<1>27. SessionAsShown'
  BY <1>0, <1>1, <1>4, <1>b, <1>2 DEF SessionAsShown, Ending, StartsOnce
<1>28. LiveIsHeldUp'
  BY <1>0, <1>4, <1>b DEF LiveIsHeldUp, Ending, IsLive
<1>29. BusyIsHeldUp'
  BY <1>b DEF BusyIsHeldUp, Ending
<1> QED BY <1>20, <1>21, <1>22, <1>23, <1>24, <1>25, <1>26, <1>27, <1>28, <1>29 DEF IInv

LEMMA DiscardStep ==
  ASSUME IInv, Discard
  PROVE  IInv'
<1>0. /\ TypeOK /\ ViewsNumbered /\ Pressed /\ InPressOrder /\ CellsOwnRequests /\ CellOutcomeIsReal
      /\ StartsOnce /\ SessionAsShown /\ LiveIsHeldUp /\ BusyIsHeldUp
  BY DEF IInv
<1>1. tpc = "gone" /\ cmds' = <<>> /\ Len(cmds') = 0 /\ cmds' \in Seq(Cmds)
  BY DEF Discard
<1>2. UNCHANGED <<runs, stops, launches, faults, kst, busy, waiting, interrupting, restart, control,
                  view, linked, events, cancel, intr, tpc, worker, cur, hit, result, missed>>
  BY DEF Discard, ThreadOnly, uiVars, threadVars
<1>3. kst \in {"Starting", "Ready"} => Broke /\ Broke'
  BY <1>0, <1>1, <1>2 DEF SessionAsShown, Broke, Breaks
<1>20. TypeOK'
  BY <1>0, <1>1, <1>2 DEF TypeOK
<1>21. ViewsNumbered'
  BY <1>0, <1>1, <1>2, <1>3, TypeFacts, ReqFacts DEF ViewsNumbered
<1>22. Pressed'
  BY <1>0, <1>1, <1>2, <1>3, TypeFacts, ReqFacts DEF Pressed, IsRun, IsDone
<1>23. InPressOrder'
  BY <1>0, <1>1, <1>2, TypeFacts DEF InPressOrder, IsRun, IsDone
<1>24. CellsOwnRequests'
  BY <1>0, <1>1, <1>2 DEF CellsOwnRequests, ShownFor, IsLive, IsRun, IsDone
<1>25. CellOutcomeIsReal'
  BY <1>0, <1>1, <1>2, <1>3, TypeFacts, ReqFacts DEF CellOutcomeIsReal
<1>26. StartsOnce'
  BY <1>0, <1>1, <1>2, <1>3 DEF StartsOnce, StartAhead, ReadyAhead, Broke, Breaks, IsRun, IsDone
<1>27. SessionAsShown'
  BY <1>0, <1>1, <1>2 DEF SessionAsShown, Ending, ReadyAhead, Broke, Breaks
<1>28. LiveIsHeldUp'
  BY <1>0, <1>2, <1>3 DEF LiveIsHeldUp, Ending, IsLive
<1>29. BusyIsHeldUp'
  BY <1>0, <1>1, <1>2, <1>3 DEF BusyIsHeldUp, Ending, SessionAsShown, TypeOK
<1> QED BY <1>20, <1>21, <1>22, <1>23, <1>24, <1>25, <1>26, <1>27, <1>28, <1>29 DEF IInv

LEMMA DeliverInterruptStep ==
  ASSUME IInv, DeliverInterrupt
  PROVE  IInv'
<1>0. /\ TypeOK /\ ViewsNumbered /\ Pressed /\ InPressOrder /\ CellsOwnRequests /\ CellOutcomeIsReal
      /\ StartsOnce /\ SessionAsShown /\ LiveIsHeldUp /\ BusyIsHeldUp
  BY DEF IInv
<1>1. hit' \in BOOLEAN
  BY Zenon DEF DeliverInterrupt
<1>2. intr' \in Seq(Tabs)
  BY <1>0 DEF DeliverInterrupt, TypeOK
<1>3. missed \subseteq missed' /\ missed' \subseteq 1..MaxRuns
  BY <1>0, LiveFacts DEF DeliverInterrupt, TypeOK
<1>4. UNCHANGED <<runs, stops, launches, faults, kst, busy, waiting, interrupting, restart, control,
                  view, linked, cmds, events, cancel, tpc, worker, cur, result>>
  BY DEF DeliverInterrupt, uiVars
<1>20. TypeOK'
  BY <1>0, <1>1, <1>2, <1>3, <1>4 DEF TypeOK
<1>21. ViewsNumbered'
  BY <1>0, <1>4 DEF ViewsNumbered
<1>22. Pressed'
  BY <1>0, <1>4 DEF Pressed, IsRun, IsDone
<1>23. InPressOrder'
  BY <1>0, <1>4 DEF InPressOrder, IsRun, IsDone
<1>24. CellsOwnRequests'
  BY <1>0, <1>4 DEF CellsOwnRequests, ShownFor, IsLive, IsRun, IsDone
<1>25. CellOutcomeIsReal'
  BY <1>0, <1>4 DEF CellOutcomeIsReal
<1>26. StartsOnce'
  BY <1>0, <1>4 DEF StartsOnce, StartAhead, ReadyAhead, Broke, Breaks, IsRun, IsDone
<1>27. SessionAsShown'
  BY <1>0, <1>4 DEF SessionAsShown, Ending, ReadyAhead, Broke, Breaks
<1>28. LiveIsHeldUp'
  BY <1>0, <1>3, <1>4 DEF LiveIsHeldUp, UnderWay, Ending, Broke, Breaks, IsLive, IsRun, IsDone
<1>29. BusyIsHeldUp'
  BY <1>0, <1>4 DEF BusyIsHeldUp, UnderWay, Ending, Broke, Breaks, IsRun, IsDone
<1> QED BY <1>20, <1>21, <1>22, <1>23, <1>24, <1>25, <1>26, <1>27, <1>28, <1>29 DEF IInv

LEMMA TakeRunFailsStep ==
  ASSUME IInv, TakeRun, worker = "none"
  PROVE  IInv'
<1>0. /\ TypeOK /\ ViewsNumbered /\ Pressed /\ InPressOrder /\ CellsOwnRequests /\ CellOutcomeIsReal
      /\ StartsOnce /\ SessionAsShown /\ LiveIsHeldUp /\ BusyIsHeldUp
  BY DEF IInv
<1>1. /\ tpc = "idle" /\ cmds # <<>> /\ cmds' = Tail(cmds) /\ Head(cmds).kind = "Run"
      /\ events' = events \o <<Done(Head(cmds).req, "Failed")>>
  BY DEF TakeRun, Takes, Emit
<1>2. /\ cmds # <<>> /\ Head(cmds) = cmds[1] /\ Len(cmds) \in Nat \ {0}
      /\ cmds' \in Seq(Cmds) /\ Len(cmds') = Len(cmds) - 1
      /\ \A i \in 1..Len(cmds') : cmds'[i] = cmds[i + 1] /\ i + 1 \in 1..Len(cmds)
      /\ cmds[1].kind = "Run" /\ cmds[1].req \in Reqs
  BY <1>0, <1>1, TypeFacts, Head1
<1>r. /\ view[cmds[1].req.tab].id # 0 /\ ShownFor(cmds[1].req) /\ cmds[1].req.id <= runs
      /\ cmds[1].req.id \in Nat /\ cmds[1].req.tab \in Tabs
      /\ \A i \in 1..Len(cmds') : cmds'[i].kind = "Run" => cmds[1].req.id < cmds'[i].req.id
      /\ \A j \in 1..Len(events) : events[j].kind = "Done" => events[j].req.id < cmds[1].req.id
  <2>1. 1 \in 1..Len(cmds) /\ IsRun(1)
    BY <1>2 DEF IsRun
  <2>2. /\ view[cmds[1].req.tab].id # 0 /\ ShownFor(cmds[1].req) /\ cmds[1].req.id <= runs
        /\ cmds[1].req.id \in Nat /\ cmds[1].req.tab \in Tabs
    BY <1>0, <1>2, <2>1, TypeFacts DEF Pressed, CellsOwnRequests, InPressOrder
  <2>3. \A i \in 1..Len(cmds') : cmds'[i].kind = "Run" => cmds[1].req.id < cmds'[i].req.id
    BY <1>0, <1>2, <2>1 DEF InPressOrder, IsRun
  <2>4. \A j \in 1..Len(events) : events[j].kind = "Done" => events[j].req.id < cmds[1].req.id
    BY <1>0, <2>1 DEF InPressOrder, IsDone
  <2> QED BY <2>2, <2>3, <2>4
<1>3. /\ events' \in Seq(Events) /\ Len(events') = Len(events) + 1 /\ events'[Len(events) + 1] = Done(cmds[1].req, "Failed")
      /\ \A i \in 1..Len(events) : events'[i] = events[i]
  BY <1>0, <1>1, <1>2, TypeFacts, EventFacts DEF Outcomes
<1>4. /\ events'[Len(events) + 1].kind = "Done" /\ events'[Len(events) + 1].req = cmds[1].req
      /\ events'[Len(events) + 1].outcome = "Failed"
  BY <1>2, <1>3, EventFacts DEF Outcomes
<1>s. \A i \in 1..Len(events') : \/ i \in 1..Len(events) /\ events'[i] = events[i]
                                 \/ /\ i = Len(events) + 1 /\ events'[i].kind = "Done"
                                    /\ events'[i].req = cmds[1].req /\ events'[i].outcome = "Failed"
  BY <1>0, <1>3, <1>4, TypeFacts
<1>5. UNCHANGED <<runs, stops, launches, faults, kst, busy, waiting, interrupting, restart, control,
                  view, linked, cancel, intr, tpc, worker, cur, hit, result, missed>>
  BY DEF TakeRun, ThreadOnly, uiVars
<1>6. Broke => Broke'
  BY <1>0, <1>3, TypeFacts DEF Broke, Breaks
<1>7. kst # "Starting" /\ ~StartAhead
  BY <1>0, <1>2, TypeFacts DEF StartsOnce, StartAhead, IsRun
<1>8. \A k \in 1..Len(cmds) : k = 1 \/ \E i \in 1..Len(cmds') : k = i + 1 /\ cmds'[i] = cmds[k]
  BY <1>0, <1>1, TypeFacts, Head1
<1>9. \A t \in Tabs : UnderWay(t) => UnderWay(t)'
  <2> SUFFICES ASSUME NEW t \in Tabs, UnderWay(t) PROVE UnderWay(t)'
    OBVIOUS
  <2>1. CASE \E i \in 1..Len(cmds) : IsRun(i) /\ cmds[i].req.tab = t
    <3>1. PICK k \in 1..Len(cmds) : IsRun(k) /\ cmds[k].req.tab = t
      BY <2>1
    <3>2. CASE k = 1
      BY <1>0, <1>3, <1>4, <3>1, <3>2, TypeFacts DEF UnderWay, IsDone
    <3> QED BY <1>8, <3>1, <3>2 DEF UnderWay, IsRun
  <2>2. CASE \E j \in 1..Len(events) : IsDone(j) /\ events[j].req.tab = t
    <3>1. PICK j \in 1..Len(events) : IsDone(j) /\ events[j].req.tab = t
      BY <2>2
    <3>2. j \in 1..Len(events') /\ events'[j] = events[j]
      BY <1>0, <1>3, <3>1, TypeFacts
    <3> QED BY <3>1, <3>2 DEF UnderWay, IsDone
  <2> QED BY <1>5, <2>1, <2>2 DEF UnderWay
<1>10. Ending => Ending'
  BY <1>2, <1>5, <1>6, <1>8 DEF Ending
<1>u. tpc # "starting" /\ (Len(events) = 0 \/ events'[1] = events[1]) /\ Len(events) \in Nat /\ (Broke => Broke')
  BY <1>0, <1>1, <1>3, <1>6, TypeFacts
<1>20. TypeOK'
  BY <1>0, <1>2, <1>3, <1>5 DEF TypeOK
<1>21. ViewsNumbered'
  BY <1>0, <1>1, <1>2, <1>r, <1>3, <1>4, <1>s, <1>5, <1>6, <1>7, <1>8, <1>9, <1>10, <1>u, TypeFacts, ReqFacts DEF ViewsNumbered
<1>22. Pressed'
  BY <1>0, <1>2, <1>r, <1>s, <1>5 DEF Pressed, IsRun, IsDone
<1>23. InPressOrder'
  <2>1. \A i \in 1..Len(waiting') : waiting'[i].id <= runs'
    <3>1. \A i \in 1..Len(waiting) : waiting[i].id <= runs
      BY <1>0 DEF InPressOrder, IsRun, IsDone
    <3> QED BY <3>1, <1>5
  <2>2. \A i, j \in 1..Len(waiting') : i < j => waiting'[i].id < waiting'[j].id
    <3>1. \A i, j \in 1..Len(waiting) : i < j => waiting[i].id < waiting[j].id
      BY <1>0 DEF InPressOrder, IsRun, IsDone
    <3> QED BY <3>1, <1>5
  <2>3. \A i \in 1..Len(cmds') : cmds'[i].kind = "Run" => cmds'[i].req.id <= runs' /\ cur'.id < cmds'[i].req.id
    <3>1. \A i \in 1..Len(cmds) : cmds[i].kind = "Run" => cmds[i].req.id <= runs /\ cur.id < cmds[i].req.id
      BY <1>0 DEF InPressOrder, IsRun, IsDone
    <3> QED BY <3>1, <1>2, <1>5
  <2>4. \A i, j \in 1..Len(cmds') : i < j /\ cmds'[i].kind = "Run" /\ cmds'[j].kind = "Run"
              => cmds'[i].req.id < cmds'[j].req.id
    <3>1. \A i, j \in 1..Len(cmds) : i < j /\ cmds[i].kind = "Run" /\ cmds[j].kind = "Run"
                  => cmds[i].req.id < cmds[j].req.id
      BY <1>0 DEF InPressOrder, IsRun, IsDone
    <3> QED BY <3>1, <1>2
  <2>5. cur'.id <= runs'
    <3>1. cur.id <= runs
      BY <1>0 DEF InPressOrder, IsRun, IsDone
    <3> QED BY <3>1, <1>5
  <2>6. \A i \in 1..Len(events') : events'[i].kind = "Done" => events'[i].req.id <= runs'
    <3>1. \A i \in 1..Len(events) : events[i].kind = "Done" => events[i].req.id <= runs
      BY <1>0 DEF InPressOrder, IsRun, IsDone
    <3> QED BY <3>1, <1>r, <1>s, <1>5
  <2>7. \A i \in 1..Len(events'), j \in 1..Len(cmds') : events'[i].kind = "Done" /\ cmds'[j].kind = "Run"
              => events'[i].req.id < cmds'[j].req.id
    <3>1. \A i \in 1..Len(events), j \in 1..Len(cmds) : events[i].kind = "Done" /\ cmds[j].kind = "Run"
                  => events[i].req.id < cmds[j].req.id
      BY <1>0 DEF InPressOrder, IsRun, IsDone
    <3> QED BY <3>1, <1>2, <1>r, <1>s
  <2>8. cur' # NoReq => \A i \in 1..Len(events') : events'[i].kind = "Done" => events'[i].req.id < cur'.id
    BY <1>0, <1>1, <1>5 DEF SessionAsShown
  <2>9. \A i, j \in 1..Len(events') : i < j /\ events'[i].kind = "Done" /\ events'[j].kind = "Done"
              => events'[i].req.id < events'[j].req.id
    <3>1. \A i, j \in 1..Len(events) : i < j /\ events[i].kind = "Done" /\ events[j].kind = "Done"
                  => events[i].req.id < events[j].req.id
      BY <1>0 DEF InPressOrder, IsRun, IsDone
    <3> QED BY <3>1, <1>r, <1>s
  <2> QED BY <2>1, <2>2, <2>3, <2>4, <2>5, <2>6, <2>7, <2>8, <2>9 DEF InPressOrder, IsRun, IsDone
<1>24. CellsOwnRequests'
  <2> DEFINE Still(r) ==
               r.tab \in Notebooks =>
                   /\ r.id = view'[r.tab].id
                   /\ \/ view'[r.tab].state \in {"Running", "Cancelling"}
                      \/ view'[r.tab].state = "Failed" /\ kst' \in {"Stopped", "Failed"}
  <2>1. \A r : ShownFor(r) => Still(r)
    BY <1>5 DEF ShownFor, IsLive
  <2> HIDE DEF Still
  <2>2. \A i \in 1..Len(waiting') : Still(waiting'[i])
    BY <2>1, <1>0, <1>5 DEF CellsOwnRequests, IsRun, IsDone
  <2>3. \A i \in 1..Len(cmds') : cmds'[i].kind = "Run" => Still(cmds'[i].req)
    BY <2>1, <1>0, <1>2 DEF CellsOwnRequests, IsRun, IsDone
  <2>4. cur' # NoReq => Still(cur')
    BY <2>1, <1>0, <1>5 DEF CellsOwnRequests, IsRun, IsDone
  <2>5. \A i \in 1..Len(events') : events'[i].kind = "Done" => Still(events'[i].req)
    BY <2>1, <1>0, <1>r, <1>s DEF CellsOwnRequests, IsRun, IsDone
  <2>6. \A i \in 1..Len(events') : events'[i].kind = "Done" /\ events'[i].req.tab \in Notebooks
           => \/ events'[i].outcome = "Failed"
              \/ result'[events'[i].req.tab] = [id |-> events'[i].req.id, outcome |-> events'[i].outcome]
    BY <2>1, <1>0, <1>s, <1>5 DEF CellsOwnRequests, IsRun, IsDone
  <2> QED BY <2>2, <2>3, <2>4, <2>5, <2>6 DEF CellsOwnRequests, Still, ShownFor, IsLive, IsRun, IsDone
<1>25. CellOutcomeIsReal'
  BY <1>0, <1>1, <1>2, <1>r, <1>3, <1>4, <1>s, <1>5, <1>6, <1>7, <1>8, <1>9, <1>10, <1>u, TypeFacts, ReqFacts DEF CellOutcomeIsReal
<1>26. StartsOnce'
  <2>1. \A i \in 1..Len(cmds') : cmds'[i].kind # "Start"
    <3>1. \A i \in 1..Len(cmds) : cmds[i].kind = "Start" => i = 1
      BY <1>0 DEF StartsOnce
    <3> QED BY <1>2, <3>1
  <2>2. \A j \in 1..Len(events') : events'[j].kind # "Ready"
    <3>1. \A j \in 1..Len(events) : events[j].kind # "Ready"
      BY <1>0, <1>7 DEF StartsOnce, ReadyAhead
    <3> QED BY <1>s, <3>1
  <2>3. ~StartAhead' /\ ~ReadyAhead'
    BY <1>2, <1>3, <1>u, <2>1, <2>2 DEF StartAhead, ReadyAhead
  <2> QED BY <1>0, <1>5, <1>7, <1>u, <2>1, <2>2, <2>3 DEF StartsOnce
<1>27. SessionAsShown'
  BY <1>0, <1>5, <1>6, <1>7 DEF SessionAsShown
<1>28. LiveIsHeldUp'
  BY <1>0, <1>5, <1>7, <1>9, <1>10 DEF LiveIsHeldUp, IsLive
<1>29. BusyIsHeldUp'
  BY <1>0, <1>5, <1>9, <1>10 DEF BusyIsHeldUp, TypeOK
<1> QED BY <1>20, <1>21, <1>22, <1>23, <1>24, <1>25, <1>26, <1>27, <1>28, <1>29 DEF IInv

LEMMA TakeRunBeginsStep ==
  ASSUME IInv, TakeRun, worker # "none"
  PROVE  IInv'
<1>0. /\ TypeOK /\ ViewsNumbered /\ Pressed /\ InPressOrder /\ CellsOwnRequests /\ CellOutcomeIsReal
      /\ StartsOnce /\ SessionAsShown /\ LiveIsHeldUp /\ BusyIsHeldUp
  BY DEF IInv
<1>1. /\ tpc = "idle" /\ tpc' = "running" /\ cmds # <<>> /\ cmds' = Tail(cmds) /\ Head(cmds).kind = "Run"
      /\ cur' = Head(cmds).req /\ cancel' = FALSE
  BY DEF TakeRun, Takes, ClearCancel
<1>2. /\ cmds # <<>> /\ Head(cmds) = cmds[1] /\ Len(cmds) \in Nat \ {0}
      /\ cmds' \in Seq(Cmds) /\ Len(cmds') = Len(cmds) - 1
      /\ \A i \in 1..Len(cmds') : cmds'[i] = cmds[i + 1] /\ i + 1 \in 1..Len(cmds)
      /\ cmds[1].kind = "Run" /\ cmds[1].req \in Reqs /\ cur' = cmds[1].req
  BY <1>0, <1>1, TypeFacts, Head1
<1>r. /\ view[cmds[1].req.tab].id # 0 /\ ShownFor(cmds[1].req) /\ cmds[1].req.id <= runs
      /\ cmds[1].req.id \in Nat /\ cmds[1].req.tab \in Tabs
      /\ \A i \in 1..Len(cmds') : cmds'[i].kind = "Run" => cmds[1].req.id < cmds'[i].req.id
      /\ \A j \in 1..Len(events) : events[j].kind = "Done" => events[j].req.id < cmds[1].req.id
  <2>1. 1 \in 1..Len(cmds) /\ IsRun(1)
    BY <1>2 DEF IsRun
  <2>2. /\ view[cmds[1].req.tab].id # 0 /\ ShownFor(cmds[1].req) /\ cmds[1].req.id <= runs
        /\ cmds[1].req.id \in Nat /\ cmds[1].req.tab \in Tabs
    BY <1>0, <1>2, <2>1, TypeFacts DEF Pressed, CellsOwnRequests, InPressOrder
  <2>3. \A i \in 1..Len(cmds') : cmds'[i].kind = "Run" => cmds[1].req.id < cmds'[i].req.id
    BY <1>0, <1>2, <2>1 DEF InPressOrder, IsRun
  <2>4. \A j \in 1..Len(events) : events[j].kind = "Done" => events[j].req.id < cmds[1].req.id
    BY <1>0, <2>1 DEF InPressOrder, IsDone
  <2> QED BY <2>2, <2>3, <2>4
<1>3. missed \subseteq missed' /\ missed' \subseteq 1..MaxRuns
  <2>1. \A i \in DOMAIN cmds : cmds[i].req.id \in (1..MaxRuns) \cup {0}
    <3>1. \A i \in 1..Len(cmds) : cmds[i] \in Cmds
      BY <1>0, TypeFacts
    <3>2. DOMAIN cmds = 1..Len(cmds)
      BY <1>0, TypeFacts
    <3>3. \A c \in Cmds : c.req \in Reqs \cup {NoReq}
      BY CmdFacts
    <3> QED BY <3>1, <3>2, <3>3, ReqFacts
  <2>2. missed' = IF cancel THEN missed \cup ((Stopping \cup {cmds[i].req.id : i \in DOMAIN cmds}) \ {0}) ELSE missed
    BY DEF TakeRun, ClearCancel
  <2>3. missed \subseteq 1..MaxRuns
    BY <1>0 DEF TypeOK
  <2> QED BY <1>0, <2>1, <2>2, <2>3, LiveFacts
<1>4. cancel' \in BOOLEAN
  BY <1>1, Zenon
<1>5. UNCHANGED <<runs, stops, launches, faults, kst, busy, waiting, interrupting, restart, control,
                  view, linked, events, intr, worker, hit, result>>
  BY DEF TakeRun, ThreadOnly, uiVars
<1>6. worker = "up" /\ cur = NoReq /\ ~Broke
  BY <1>0, <1>1 DEF SessionAsShown, TypeOK
<1>7. kst # "Starting" /\ ~StartAhead /\ (Broke <=> Broke')
  BY <1>0, <1>2, <1>5, TypeFacts DEF StartsOnce, StartAhead, IsRun, Broke, Breaks
<1>8. \A k \in 1..Len(cmds) : k = 1 \/ \E i \in 1..Len(cmds') : k = i + 1 /\ cmds'[i] = cmds[k]
  BY <1>0, <1>1, TypeFacts, Head1
<1>9. \A t \in Tabs : UnderWay(t) => UnderWay(t)'
  <2> SUFFICES ASSUME NEW t \in Tabs, UnderWay(t) PROVE UnderWay(t)'
    OBVIOUS
  <2>1. CASE \E i \in 1..Len(cmds) : IsRun(i) /\ cmds[i].req.tab = t
    <3>1. PICK k \in 1..Len(cmds) : IsRun(k) /\ cmds[k].req.tab = t
      BY <2>1
    <3>2. CASE k = 1
      BY <1>2, <3>1, <3>2 DEF UnderWay
    <3> QED BY <1>8, <3>1, <3>2 DEF UnderWay, IsRun
  <2>2. cur.tab # t
    BY <1>6, ReqFacts
  <2> QED BY <1>5, <2>1, <2>2 DEF UnderWay, IsDone
<1>10. Ending => Ending'
  BY <1>1, <1>2, <1>5, <1>7, <1>8 DEF Ending
<1>20. TypeOK'
  BY <1>0, <1>1, <1>2, <1>3, <1>4, <1>5 DEF TypeOK
<1>21. ViewsNumbered'
  BY <1>0, <1>1, <1>2, <1>r, <1>3, <1>4, <1>5, <1>6, <1>7, <1>8, <1>9, <1>10, TypeFacts, ReqFacts DEF ViewsNumbered
<1>22. Pressed'
  BY <1>0, <1>2, <1>5 DEF Pressed, IsRun, IsDone
<1>23. InPressOrder'
  <2>1. \A i \in 1..Len(waiting') : waiting'[i].id <= runs'
    <3>1. \A i \in 1..Len(waiting) : waiting[i].id <= runs
      BY <1>0 DEF InPressOrder, IsRun, IsDone
    <3> QED BY <3>1, <1>5
  <2>2. \A i, j \in 1..Len(waiting') : i < j => waiting'[i].id < waiting'[j].id
    <3>1. \A i, j \in 1..Len(waiting) : i < j => waiting[i].id < waiting[j].id
      BY <1>0 DEF InPressOrder, IsRun, IsDone
    <3> QED BY <3>1, <1>5
  <2>3. \A i \in 1..Len(cmds') : cmds'[i].kind = "Run" => cmds'[i].req.id <= runs' /\ cur'.id < cmds'[i].req.id
    <3>1. \A i \in 1..Len(cmds) : cmds[i].kind = "Run" => cmds[i].req.id <= runs /\ cur.id < cmds[i].req.id
      BY <1>0 DEF InPressOrder, IsRun, IsDone
    <3> QED BY <3>1, <1>2, <1>r, <1>5
  <2>4. \A i, j \in 1..Len(cmds') : i < j /\ cmds'[i].kind = "Run" /\ cmds'[j].kind = "Run"
              => cmds'[i].req.id < cmds'[j].req.id
    <3>1. \A i, j \in 1..Len(cmds) : i < j /\ cmds[i].kind = "Run" /\ cmds[j].kind = "Run"
                  => cmds[i].req.id < cmds[j].req.id
      BY <1>0 DEF InPressOrder, IsRun, IsDone
    <3> QED BY <3>1, <1>2
  <2>5. cur'.id <= runs'
    BY <1>2, <1>r, <1>5
  <2>6. \A i \in 1..Len(events') : events'[i].kind = "Done" => events'[i].req.id <= runs'
    <3>1. \A i \in 1..Len(events) : events[i].kind = "Done" => events[i].req.id <= runs
      BY <1>0 DEF InPressOrder, IsRun, IsDone
    <3> QED BY <3>1, <1>5
  <2>7. \A i \in 1..Len(events'), j \in 1..Len(cmds') : events'[i].kind = "Done" /\ cmds'[j].kind = "Run"
              => events'[i].req.id < cmds'[j].req.id
    <3>1. \A i \in 1..Len(events), j \in 1..Len(cmds) : events[i].kind = "Done" /\ cmds[j].kind = "Run"
                  => events[i].req.id < cmds[j].req.id
      BY <1>0 DEF InPressOrder, IsRun, IsDone
    <3> QED BY <3>1, <1>2, <1>5
  <2>8. cur' # NoReq => \A i \in 1..Len(events') : events'[i].kind = "Done" => events'[i].req.id < cur'.id
    BY <1>2, <1>r, <1>5
  <2>9. \A i, j \in 1..Len(events') : i < j /\ events'[i].kind = "Done" /\ events'[j].kind = "Done"
              => events'[i].req.id < events'[j].req.id
    <3>1. \A i, j \in 1..Len(events) : i < j /\ events[i].kind = "Done" /\ events[j].kind = "Done"
                  => events[i].req.id < events[j].req.id
      BY <1>0 DEF InPressOrder, IsRun, IsDone
    <3> QED BY <3>1, <1>5
  <2> QED BY <2>1, <2>2, <2>3, <2>4, <2>5, <2>6, <2>7, <2>8, <2>9 DEF InPressOrder, IsRun, IsDone
<1>24. CellsOwnRequests'
  <2> DEFINE Still(r) ==
               r.tab \in Notebooks =>
                   /\ r.id = view'[r.tab].id
                   /\ \/ view'[r.tab].state \in {"Running", "Cancelling"}
                      \/ view'[r.tab].state = "Failed" /\ kst' \in {"Stopped", "Failed"}
  <2>1. \A r : ShownFor(r) => Still(r)
    BY <1>5 DEF ShownFor, IsLive
  <2> HIDE DEF Still
  <2>2. \A i \in 1..Len(waiting') : Still(waiting'[i])
    BY <2>1, <1>0, <1>5 DEF CellsOwnRequests, IsRun, IsDone
  <2>3. \A i \in 1..Len(cmds') : cmds'[i].kind = "Run" => Still(cmds'[i].req)
    BY <2>1, <1>0, <1>2 DEF CellsOwnRequests, IsRun, IsDone
  <2>4. cur' # NoReq => Still(cur')
    BY <2>1, <1>2, <1>r DEF CellsOwnRequests, IsRun, IsDone
  <2>5. \A i \in 1..Len(events') : events'[i].kind = "Done" => Still(events'[i].req)
    BY <2>1, <1>0, <1>5 DEF CellsOwnRequests, IsRun, IsDone
  <2>6. \A i \in 1..Len(events') : events'[i].kind = "Done" /\ events'[i].req.tab \in Notebooks
           => \/ events'[i].outcome = "Failed"
              \/ result'[events'[i].req.tab] = [id |-> events'[i].req.id, outcome |-> events'[i].outcome]
    BY <2>1, <1>0, <1>5 DEF CellsOwnRequests, IsRun, IsDone
  <2> QED BY <2>2, <2>3, <2>4, <2>5, <2>6 DEF CellsOwnRequests, Still, ShownFor, IsLive, IsRun, IsDone
<1>25. CellOutcomeIsReal'
  BY <1>0, <1>1, <1>2, <1>r, <1>3, <1>4, <1>5, <1>6, <1>7, <1>8, <1>9, <1>10, TypeFacts, ReqFacts DEF CellOutcomeIsReal
<1>26. StartsOnce'
  BY <1>0, <1>1, <1>2, <1>5, <1>7, TypeFacts DEF StartsOnce, StartAhead, ReadyAhead, IsRun, IsDone
<1>27. SessionAsShown'
  BY <1>0, <1>1, <1>2, <1>5, <1>6, <1>7, <1>10, ReqFacts DEF SessionAsShown
<1>28. LiveIsHeldUp'
  BY <1>0, <1>3, <1>5, <1>7, <1>9, <1>10 DEF LiveIsHeldUp, IsLive
<1>29. BusyIsHeldUp'
  BY <1>0, <1>5, <1>9, <1>10 DEF BusyIsHeldUp, TypeOK
<1> QED BY <1>20, <1>21, <1>22, <1>23, <1>24, <1>25, <1>26, <1>27, <1>28, <1>29 DEF IInv

LEMMA ReturnsStep ==
  ASSUME IInv, NEW o \in Outcomes, Returns(o, <<>>), UNCHANGED <<faults, worker>>
  PROVE  IInv'
<1>0. /\ TypeOK /\ ViewsNumbered /\ Pressed /\ InPressOrder /\ CellsOwnRequests /\ CellOutcomeIsReal
      /\ StartsOnce /\ SessionAsShown /\ LiveIsHeldUp /\ BusyIsHeldUp
  BY DEF IInv
<1>1. cur # NoReq /\ cur \in Reqs /\ worker = "up" /\ ~Broke /\ tpc = "running" /\ kst # "Starting"
  BY <1>0, TypeFacts DEF Returns, SessionAsShown, StartsOnce
<1>2. /\ hit' \in BOOLEAN /\ result' \in [Notebooks -> ResultRecord] /\ tpc' = "idle" /\ cur' = NoReq
      /\ events' = Append(events, Done(cur, o)) \o <<>>
      /\ \A t \in Notebooks : result'[t] = IF t = cur.tab THEN [id |-> cur.id, outcome |-> o] ELSE result[t]
  <2>1. <<>> \in Seq(Events)
    BY EventFacts
  <2> QED BY <1>0, <1>1, <2>1, ReturnsFacts
<1>5. UNCHANGED <<runs, stops, launches, kst, busy, waiting, interrupting, restart, control,
                  view, linked, cmds, cancel, intr, missed>>
  BY DEF Returns, ThreadOnly, uiVars
<1>3. /\ events' \in Seq(Events) /\ Len(events') = Len(events) + 1 /\ events'[Len(events) + 1] = Done(cur, o)
      /\ \A i \in 1..Len(events) : events'[i] = events[i]
  BY <1>0, <1>1, <1>2, TypeFacts, EventFacts
<1>4. /\ Done(cur, o).kind = "Done" /\ Done(cur, o).req = cur /\ Done(cur, o).outcome = o
  BY <1>1, EventFacts
<1>u0. Len(events) \in Nat
  BY <1>0, TypeFacts
<1>s. \A i \in 1..Len(events') : \/ i \in 1..Len(events) /\ events'[i] = events[i]
                                 \/ /\ i = Len(events) + 1 /\ events'[i].kind = "Done"
                                    /\ events'[i].req = cur /\ events'[i].outcome = o
  BY <1>u0, <1>3, <1>4
<1>r. /\ view[cur.tab].id # 0 /\ ShownFor(cur) /\ cur.id <= runs
      /\ cur.id \in Nat /\ cur.tab \in Tabs
      /\ \A i \in 1..Len(cmds) : cmds[i].kind = "Run" => cur.id < cmds[i].req.id /\ cmds[i].req.id \in Nat
      /\ \A j \in 1..Len(events) : events[j].kind = "Done" => events[j].req.id < cur.id
  BY <1>0, <1>1, TypeFacts DEF Pressed, CellsOwnRequests, InPressOrder, IsRun, IsDone
<1>o. \A i \in 1..Len(events) : i \in 1..Len(events') /\ events'[i] = events[i]
  BY <1>0, <1>3, TypeFacts
<1>7. ~StartAhead /\ ~ReadyAhead
  BY <1>0, <1>1, TypeFacts DEF StartsOnce, StartAhead, ReadyAhead
<1>u. Len(events) \in Nat /\ Len(events') # 0 /\ (events'[1] = events[1] \/ events'[1].kind = "Done")
  BY <1>0, <1>3, <1>4, TypeFacts
<1>9. \A t \in Tabs : UnderWay(t) => UnderWay(t)'
  <2> SUFFICES ASSUME NEW t \in Tabs, UnderWay(t) PROVE UnderWay(t)'
    OBVIOUS
  <2>1. CASE cur.tab = t
    BY <1>0, <1>3, <1>4, <1>u, <2>1 DEF UnderWay, IsDone
  <2>2. CASE \E j \in 1..Len(events) : IsDone(j) /\ events[j].req.tab = t
    BY <1>o, <2>2 DEF UnderWay, IsDone
  <2> QED BY <1>5, <2>1, <2>2 DEF UnderWay, IsRun
<1>10. worker' = worker /\ (Broke <=> Broke') /\ (Ending => Ending')
  BY <1>0, <1>1, <1>2, <1>5, <1>s, <1>o DEF Ending, Broke, Breaks
<1>20. TypeOK'
  BY <1>0, <1>2, <1>3, <1>5, <1>0 DEF TypeOK, ResultRecord
<1>21. ViewsNumbered'
  BY <1>0, <1>5 DEF ViewsNumbered
<1>22. Pressed'
  BY <1>0, <1>2, <1>5, <1>r, <1>s DEF Pressed, IsRun, IsDone
<1>23. InPressOrder'
  <2>1. \A i \in 1..Len(waiting') : waiting'[i].id <= runs'
    <3>1. \A i \in 1..Len(waiting) : waiting[i].id <= runs
      BY <1>0 DEF InPressOrder, IsRun, IsDone
    <3> QED BY <3>1, <1>5
  <2>2. \A i, j \in 1..Len(waiting') : i < j => waiting'[i].id < waiting'[j].id
    <3>1. \A i, j \in 1..Len(waiting) : i < j => waiting[i].id < waiting[j].id
      BY <1>0 DEF InPressOrder, IsRun, IsDone
    <3> QED BY <3>1, <1>5
  <2>3. \A i \in 1..Len(cmds') : cmds'[i].kind = "Run" => cmds'[i].req.id <= runs' /\ cur'.id < cmds'[i].req.id
    <3>1. \A i \in 1..Len(cmds) : cmds[i].kind = "Run" => cmds[i].req.id <= runs /\ cur.id < cmds[i].req.id
      BY <1>0 DEF InPressOrder, IsRun, IsDone
    <3> QED BY <3>1, <1>2, <1>5, <1>r, ReqFacts
  <2>4. \A i, j \in 1..Len(cmds') : i < j /\ cmds'[i].kind = "Run" /\ cmds'[j].kind = "Run"
              => cmds'[i].req.id < cmds'[j].req.id
    <3>1. \A i, j \in 1..Len(cmds) : i < j /\ cmds[i].kind = "Run" /\ cmds[j].kind = "Run"
                  => cmds[i].req.id < cmds[j].req.id
      BY <1>0 DEF InPressOrder, IsRun, IsDone
    <3> QED BY <3>1, <1>5
  <2>5. cur'.id <= runs'
    BY <1>2, <1>5, <1>0, TypeFacts, ReqFacts
  <2>6. \A i \in 1..Len(events') : events'[i].kind = "Done" => events'[i].req.id <= runs'
    <3>1. \A i \in 1..Len(events) : events[i].kind = "Done" => events[i].req.id <= runs
      BY <1>0 DEF InPressOrder, IsRun, IsDone
    <3> QED BY <3>1, <1>r, <1>s, <1>5
  <2>7. \A i \in 1..Len(events'), j \in 1..Len(cmds') : events'[i].kind = "Done" /\ cmds'[j].kind = "Run"
              => events'[i].req.id < cmds'[j].req.id
    <3>1. \A i \in 1..Len(events), j \in 1..Len(cmds) : events[i].kind = "Done" /\ cmds[j].kind = "Run"
                  => events[i].req.id < cmds[j].req.id
      BY <1>0 DEF InPressOrder, IsRun, IsDone
    <3> QED BY <3>1, <1>5, <1>r, <1>s
  <2>8. cur' # NoReq => \A i \in 1..Len(events') : events'[i].kind = "Done" => events'[i].req.id < cur'.id
    BY <1>2
  <2>9. \A i, j \in 1..Len(events') : i < j /\ events'[i].kind = "Done" /\ events'[j].kind = "Done"
              => events'[i].req.id < events'[j].req.id
    <3>1. \A i, j \in 1..Len(events) : i < j /\ events[i].kind = "Done" /\ events[j].kind = "Done"
                  => events[i].req.id < events[j].req.id
      BY <1>0 DEF InPressOrder, IsRun, IsDone
    <3> QED BY <3>1, <1>r, <1>s, <1>u
  <2> QED BY <2>1, <2>2, <2>3, <2>4, <2>5, <2>6, <2>7, <2>8, <2>9 DEF InPressOrder, IsRun, IsDone
<1>24. CellsOwnRequests'
  <2> DEFINE Still(r) ==
               r.tab \in Notebooks =>
                   /\ r.id = view'[r.tab].id
                   /\ \/ view'[r.tab].state \in {"Running", "Cancelling"}
                      \/ view'[r.tab].state = "Failed" /\ kst' \in {"Stopped", "Failed"}
  <2>1. \A r : ShownFor(r) => Still(r)
    BY <1>5 DEF ShownFor, IsLive
  <2> HIDE DEF Still
  <2>2. \A i \in 1..Len(waiting') : Still(waiting'[i])
    BY <2>1, <1>0, <1>5 DEF CellsOwnRequests, IsRun, IsDone
  <2>3. \A i \in 1..Len(cmds') : cmds'[i].kind = "Run" => Still(cmds'[i].req)
    BY <2>1, <1>0, <1>5 DEF CellsOwnRequests, IsRun, IsDone
  <2>4. cur' # NoReq => Still(cur')
    BY <2>1, <1>2 DEF CellsOwnRequests, IsRun, IsDone
  <2>5. \A i \in 1..Len(events') : events'[i].kind = "Done" => Still(events'[i].req)
    BY <2>1, <1>0, <1>r, <1>s DEF CellsOwnRequests, IsRun, IsDone
  <2>6. \A i \in 1..Len(events') : events'[i].kind = "Done" /\ events'[i].req.tab \in Notebooks
           => \/ events'[i].outcome = "Failed"
              \/ result'[events'[i].req.tab] = [id |-> events'[i].req.id, outcome |-> events'[i].outcome]
    <3> SUFFICES ASSUME NEW i \in 1..Len(events'), events'[i].kind = "Done", events'[i].req.tab \in Notebooks
                 PROVE  \/ events'[i].outcome = "Failed"
                        \/ result'[events'[i].req.tab] = [id |-> events'[i].req.id, outcome |-> events'[i].outcome]
      OBVIOUS
    <3>1. CASE i \in 1..Len(events) /\ events'[i] = events[i]
      <4>1. ShownFor(events[i].req) /\ events[i].req.id < cur.id
        BY <1>0, <1>r, <3>1 DEF CellsOwnRequests, IsDone
      <4>2. events[i].req.tab # cur.tab
        BY <1>0, <1>r, <3>1, <4>1, TypeFacts DEF ShownFor
      <4> QED BY <1>0, <1>2, <3>1, <4>2 DEF CellsOwnRequests, IsDone
    <3>2. CASE events'[i].req = cur /\ events'[i].outcome = o
      BY <1>2, <3>2
    <3> QED BY <1>s, <3>1, <3>2
  <2> QED BY <2>2, <2>3, <2>4, <2>5, <2>6 DEF CellsOwnRequests, Still, ShownFor, IsLive, IsRun, IsDone
<1>25. CellOutcomeIsReal'
  BY <1>0, <1>2, <1>5, <1>r DEF CellOutcomeIsReal, ShownFor, IsLive
<1>26. StartsOnce'
  <2>1. \A i \in 1..Len(cmds') : cmds'[i].kind # "Start"
    BY <1>0, <1>5, <1>7 DEF StartsOnce, StartAhead
  <2>2. \A j \in 1..Len(events') : events'[j].kind # "Ready"
    <3>1. \A j \in 1..Len(events) : events[j].kind # "Ready"
      BY <1>0, <1>7 DEF StartsOnce, ReadyAhead
    <3> QED BY <1>s, <3>1
  <2>3. ~StartAhead' /\ ~ReadyAhead'
    BY <1>5, <1>7, <1>u, <2>2, <1>3 DEF StartAhead, ReadyAhead
  <2> QED BY <1>0, <1>1, <1>2, <1>5, <2>1, <2>2, <2>3 DEF StartsOnce
<1>27. SessionAsShown'
  BY <1>0, <1>1, <1>2, <1>5, <1>7, <1>10 DEF SessionAsShown, Ending
<1>28. LiveIsHeldUp'
  BY <1>0, <1>1, <1>5, <1>9, <1>10 DEF LiveIsHeldUp, IsLive
<1>29. BusyIsHeldUp'
  BY <1>0, <1>5, <1>9, <1>10 DEF BusyIsHeldUp, TypeOK
<1> QED BY <1>20, <1>21, <1>22, <1>23, <1>24, <1>25, <1>26, <1>27, <1>28, <1>29 DEF IInv

LEMMA ReturnsBrokenStep ==
  ASSUME IInv, NEW o \in Outcomes, NEW kind \in {"Stopped", "Failed"}, Returns(o, <<Event(kind)>>),
         worker' = "none", faults' \in 0..MaxFaults
  PROVE  IInv'
<1>0. /\ TypeOK /\ ViewsNumbered /\ Pressed /\ InPressOrder /\ CellsOwnRequests /\ CellOutcomeIsReal
      /\ StartsOnce /\ SessionAsShown /\ LiveIsHeldUp /\ BusyIsHeldUp
  BY DEF IInv
<1>1. cur # NoReq /\ cur \in Reqs /\ worker = "up" /\ ~Broke /\ tpc = "running" /\ kst # "Starting"
  BY <1>0, TypeFacts DEF Returns, SessionAsShown, StartsOnce
<1>2. /\ hit' \in BOOLEAN /\ result' \in [Notebooks -> ResultRecord] /\ tpc' = "idle" /\ cur' = NoReq
      /\ events' = Append(events, Done(cur, o)) \o <<Event(kind)>>
      /\ \A t \in Notebooks : result'[t] = IF t = cur.tab THEN [id |-> cur.id, outcome |-> o] ELSE result[t]
  <2>1. <<Event(kind)>> \in Seq(Events)
    BY EventFacts
  <2> QED BY <1>0, <1>1, <2>1, ReturnsFacts
<1>5. UNCHANGED <<runs, stops, launches, kst, busy, waiting, interrupting, restart, control,
                  view, linked, cmds, cancel, intr, missed>>
  BY DEF Returns, ThreadOnly, uiVars
<1>3. /\ events' \in Seq(Events) /\ Len(events') = Len(events) + 2 /\ events'[Len(events) + 1] = Done(cur, o)
      /\ \A i \in 1..Len(events) : events'[i] = events[i]
      /\ events'[Len(events) + 2].kind = kind
  BY <1>0, <1>1, <1>2, TypeFacts, EventFacts
<1>4. /\ Done(cur, o).kind = "Done" /\ Done(cur, o).req = cur /\ Done(cur, o).outcome = o
  BY <1>1, EventFacts
<1>u0. Len(events) \in Nat
  BY <1>0, TypeFacts
<1>s. \A i \in 1..Len(events') : \/ i \in 1..Len(events) /\ events'[i] = events[i]
                                 \/ /\ i = Len(events) + 1 /\ events'[i].kind = "Done"
                                    /\ events'[i].req = cur /\ events'[i].outcome = o
                                 \/ events'[i].kind \in {"Stopped", "Failed"}
  BY <1>u0, <1>3, <1>4
<1>r. /\ view[cur.tab].id # 0 /\ ShownFor(cur) /\ cur.id <= runs
      /\ cur.id \in Nat /\ cur.tab \in Tabs
      /\ \A i \in 1..Len(cmds) : cmds[i].kind = "Run" => cur.id < cmds[i].req.id /\ cmds[i].req.id \in Nat
      /\ \A j \in 1..Len(events) : events[j].kind = "Done" => events[j].req.id < cur.id
  BY <1>0, <1>1, TypeFacts DEF Pressed, CellsOwnRequests, InPressOrder, IsRun, IsDone
<1>o. \A i \in 1..Len(events) : i \in 1..Len(events') /\ events'[i] = events[i]
  BY <1>0, <1>3, TypeFacts
<1>7. ~StartAhead /\ ~ReadyAhead
  BY <1>0, <1>1, TypeFacts DEF StartsOnce, StartAhead, ReadyAhead
<1>u. Len(events) \in Nat /\ Len(events') # 0 /\ (events'[1] = events[1] \/ events'[1].kind = "Done")
  BY <1>0, <1>3, <1>4, TypeFacts
<1>9. \A t \in Tabs : UnderWay(t) => UnderWay(t)'
  <2> SUFFICES ASSUME NEW t \in Tabs, UnderWay(t) PROVE UnderWay(t)'
    OBVIOUS
  <2>1. CASE cur.tab = t
    BY <1>0, <1>3, <1>4, <1>u, <2>1 DEF UnderWay, IsDone
  <2>2. CASE \E j \in 1..Len(events) : IsDone(j) /\ events[j].req.tab = t
    BY <1>o, <2>2 DEF UnderWay, IsDone
  <2> QED BY <1>5, <2>1, <2>2 DEF UnderWay, IsRun
<1>10. worker' = "none" /\ Broke' /\ Ending'
  BY <1>0, <1>3, TypeFacts DEF Ending, Broke, Breaks
<1>20. TypeOK'
  BY <1>0, <1>2, <1>3, <1>5, KernelConstants DEF TypeOK, ResultRecord
<1>21. ViewsNumbered'
  BY <1>0, <1>5 DEF ViewsNumbered
<1>22. Pressed'
  BY <1>0, <1>2, <1>5, <1>r, <1>s DEF Pressed, IsRun, IsDone
<1>23. InPressOrder'
  <2>1. \A i \in 1..Len(waiting') : waiting'[i].id <= runs'
    <3>1. \A i \in 1..Len(waiting) : waiting[i].id <= runs
      BY <1>0 DEF InPressOrder, IsRun, IsDone
    <3> QED BY <3>1, <1>5
  <2>2. \A i, j \in 1..Len(waiting') : i < j => waiting'[i].id < waiting'[j].id
    <3>1. \A i, j \in 1..Len(waiting) : i < j => waiting[i].id < waiting[j].id
      BY <1>0 DEF InPressOrder, IsRun, IsDone
    <3> QED BY <3>1, <1>5
  <2>3. \A i \in 1..Len(cmds') : cmds'[i].kind = "Run" => cmds'[i].req.id <= runs' /\ cur'.id < cmds'[i].req.id
    <3>1. \A i \in 1..Len(cmds) : cmds[i].kind = "Run" => cmds[i].req.id <= runs /\ cur.id < cmds[i].req.id
      BY <1>0 DEF InPressOrder, IsRun, IsDone
    <3> QED BY <3>1, <1>2, <1>5, <1>r, ReqFacts
  <2>4. \A i, j \in 1..Len(cmds') : i < j /\ cmds'[i].kind = "Run" /\ cmds'[j].kind = "Run"
              => cmds'[i].req.id < cmds'[j].req.id
    <3>1. \A i, j \in 1..Len(cmds) : i < j /\ cmds[i].kind = "Run" /\ cmds[j].kind = "Run"
                  => cmds[i].req.id < cmds[j].req.id
      BY <1>0 DEF InPressOrder, IsRun, IsDone
    <3> QED BY <3>1, <1>5
  <2>5. cur'.id <= runs'
    BY <1>2, <1>5, <1>0, TypeFacts, ReqFacts
  <2>6. \A i \in 1..Len(events') : events'[i].kind = "Done" => events'[i].req.id <= runs'
    <3>1. \A i \in 1..Len(events) : events[i].kind = "Done" => events[i].req.id <= runs
      BY <1>0 DEF InPressOrder, IsRun, IsDone
    <3> QED BY <3>1, <1>r, <1>s, <1>5
  <2>7. \A i \in 1..Len(events'), j \in 1..Len(cmds') : events'[i].kind = "Done" /\ cmds'[j].kind = "Run"
              => events'[i].req.id < cmds'[j].req.id
    <3>1. \A i \in 1..Len(events), j \in 1..Len(cmds) : events[i].kind = "Done" /\ cmds[j].kind = "Run"
                  => events[i].req.id < cmds[j].req.id
      BY <1>0 DEF InPressOrder, IsRun, IsDone
    <3> QED BY <3>1, <1>5, <1>r, <1>s
  <2>8. cur' # NoReq => \A i \in 1..Len(events') : events'[i].kind = "Done" => events'[i].req.id < cur'.id
    BY <1>2
  <2>9. \A i, j \in 1..Len(events') : i < j /\ events'[i].kind = "Done" /\ events'[j].kind = "Done"
              => events'[i].req.id < events'[j].req.id
    <3>1. \A i, j \in 1..Len(events) : i < j /\ events[i].kind = "Done" /\ events[j].kind = "Done"
                  => events[i].req.id < events[j].req.id
      BY <1>0 DEF InPressOrder, IsRun, IsDone
    <3> QED BY <3>1, <1>r, <1>s, <1>u
  <2> QED BY <2>1, <2>2, <2>3, <2>4, <2>5, <2>6, <2>7, <2>8, <2>9 DEF InPressOrder, IsRun, IsDone
<1>24. CellsOwnRequests'
  <2> DEFINE Still(r) ==
               r.tab \in Notebooks =>
                   /\ r.id = view'[r.tab].id
                   /\ \/ view'[r.tab].state \in {"Running", "Cancelling"}
                      \/ view'[r.tab].state = "Failed" /\ kst' \in {"Stopped", "Failed"}
  <2>1. \A r : ShownFor(r) => Still(r)
    BY <1>5 DEF ShownFor, IsLive
  <2> HIDE DEF Still
  <2>2. \A i \in 1..Len(waiting') : Still(waiting'[i])
    BY <2>1, <1>0, <1>5 DEF CellsOwnRequests, IsRun, IsDone
  <2>3. \A i \in 1..Len(cmds') : cmds'[i].kind = "Run" => Still(cmds'[i].req)
    BY <2>1, <1>0, <1>5 DEF CellsOwnRequests, IsRun, IsDone
  <2>4. cur' # NoReq => Still(cur')
    BY <2>1, <1>2 DEF CellsOwnRequests, IsRun, IsDone
  <2>5. \A i \in 1..Len(events') : events'[i].kind = "Done" => Still(events'[i].req)
    BY <2>1, <1>0, <1>r, <1>s DEF CellsOwnRequests, IsRun, IsDone
  <2>6. \A i \in 1..Len(events') : events'[i].kind = "Done" /\ events'[i].req.tab \in Notebooks
           => \/ events'[i].outcome = "Failed"
              \/ result'[events'[i].req.tab] = [id |-> events'[i].req.id, outcome |-> events'[i].outcome]
    <3> SUFFICES ASSUME NEW i \in 1..Len(events'), events'[i].kind = "Done", events'[i].req.tab \in Notebooks
                 PROVE  \/ events'[i].outcome = "Failed"
                        \/ result'[events'[i].req.tab] = [id |-> events'[i].req.id, outcome |-> events'[i].outcome]
      OBVIOUS
    <3>1. CASE i \in 1..Len(events) /\ events'[i] = events[i]
      <4>1. ShownFor(events[i].req) /\ events[i].req.id < cur.id
        BY <1>0, <1>r, <3>1 DEF CellsOwnRequests, IsDone
      <4>2. events[i].req.tab # cur.tab
        BY <1>0, <1>r, <3>1, <4>1, TypeFacts DEF ShownFor
      <4> QED BY <1>0, <1>2, <3>1, <4>2 DEF CellsOwnRequests, IsDone
    <3>2. CASE events'[i].req = cur /\ events'[i].outcome = o
      BY <1>2, <3>2
    <3> QED BY <1>s, <3>1, <3>2
  <2> QED BY <2>2, <2>3, <2>4, <2>5, <2>6 DEF CellsOwnRequests, Still, ShownFor, IsLive, IsRun, IsDone
<1>25. CellOutcomeIsReal'
  BY <1>0, <1>2, <1>5, <1>r DEF CellOutcomeIsReal, ShownFor, IsLive
<1>26. StartsOnce'
  <2>1. \A i \in 1..Len(cmds') : cmds'[i].kind # "Start"
    BY <1>0, <1>5, <1>7 DEF StartsOnce, StartAhead
  <2>2. \A j \in 1..Len(events') : events'[j].kind # "Ready"
    <3>1. \A j \in 1..Len(events) : events[j].kind # "Ready"
      BY <1>0, <1>7 DEF StartsOnce, ReadyAhead
    <3> QED BY <1>s, <3>1
  <2>3. ~StartAhead' /\ ~ReadyAhead'
    BY <1>5, <1>7, <1>u, <2>2, <1>3 DEF StartAhead, ReadyAhead
  <2> QED BY <1>0, <1>1, <1>2, <1>5, <2>1, <2>2, <2>3 DEF StartsOnce
<1>27. SessionAsShown'
  BY <1>0, <1>1, <1>2, <1>5, <1>7, <1>10 DEF SessionAsShown, Ending
<1>28. LiveIsHeldUp'
  BY <1>0, <1>1, <1>5, <1>9, <1>10 DEF LiveIsHeldUp, IsLive
<1>29. BusyIsHeldUp'
  BY <1>0, <1>5, <1>9, <1>10 DEF BusyIsHeldUp, TypeOK
<1> QED BY <1>20, <1>21, <1>22, <1>23, <1>24, <1>25, <1>26, <1>27, <1>28, <1>29 DEF IInv

LEMMA PollReadyStep ==
  ASSUME IInv, Poll, Head(events).kind = "Ready"
  PROVE  IInv'
<1>0. /\ TypeOK /\ ViewsNumbered /\ Pressed /\ InPressOrder /\ CellsOwnRequests /\ CellOutcomeIsReal
      /\ StartsOnce /\ SessionAsShown /\ LiveIsHeldUp /\ BusyIsHeldUp
  BY DEF IInv
<1>1. events # <<>> /\ events' = Tail(events) /\ OnReady
  BY DEF Poll
<1>2. /\ events # <<>> /\ Head(events) = events[1] /\ Len(events) \in Nat \ {0}
      /\ events' \in Seq(Events) /\ Len(events') = Len(events) - 1
      /\ \A i \in 1..Len(events') : events'[i] = events[i + 1] /\ i + 1 \in 1..Len(events)
      /\ events[1].kind = "Ready" /\ ReadyAhead
  BY <1>0, <1>1, TypeFacts, Head1 DEF ReadyAhead
<1>3. /\ kst = "Starting" /\ cur = NoReq /\ ~StartAhead /\ tpc # "starting" /\ (worker = "up" \/ Broke)
      /\ busy = NoTab /\ linked /\ (tpc = "gone" => Broke)
  BY <1>0, <1>2 DEF StartsOnce, SessionAsShown
<1>4. /\ \A i \in 1..Len(cmds) : cmds[i].kind \notin {"Run", "Start"}
      /\ \A j \in 1..Len(events) : events[j].kind # "Done" /\ (events[j].kind = "Ready" => j = 1)
  BY <1>0, <1>3 DEF StartsOnce, StartAhead, IsRun, IsDone
<1>5. /\ kst' = "Ready" /\ waiting' = <<>> /\ control' \in BOOLEAN /\ cmds' \in Seq(Cmds)
      /\ busy' \in Tabs \cup {NoTab} /\ UNCHANGED <<interrupting, view, linked>>
  BY <1>0, <1>1, ReadyFacts
<1>6. \A k \in 1..Len(waiting) : /\ Len(cmds) + k \in 1..Len(cmds') /\ cmds'[Len(cmds) + k].kind = "Run"
                                /\ cmds'[Len(cmds) + k].req = waiting[k]
  BY <1>0, <1>1, ReadyFacts, TypeFacts
<1>7. \A i \in 1..Len(cmds) : i \in 1..Len(cmds') /\ cmds'[i] = cmds[i]
  BY <1>0, <1>1, ReadyFacts, TypeFacts
<1>8. \A i \in 1..Len(cmds') : \/ i \in 1..Len(cmds) /\ cmds'[i] = cmds[i]
                               \/ /\ i - Len(cmds) \in 1..Len(waiting) /\ cmds'[i].kind = "Run"
                                  /\ cmds'[i].req = waiting[i - Len(cmds)]
  <2> SUFFICES ASSUME NEW i \in 1..Len(cmds'), i \notin 1..Len(cmds)
               PROVE  /\ i - Len(cmds) \in 1..Len(waiting) /\ cmds'[i].kind = "Run"
                      /\ cmds'[i].req = waiting[i - Len(cmds)]
    BY <1>7
  <2>1. i - Len(cmds) \in 1..Len(waiting) /\ i = Len(cmds) + (i - Len(cmds))
    BY <1>0, <1>1, ReadyFacts, TypeFacts
  <2> QED BY <1>6, <2>1
<1>9. busy' = NoTab \/ (Len(waiting) # 0 /\ busy' = waiting[1].tab)
  BY <1>0, <1>1, <1>3, ReadyFacts
<1>10. \A j \in 1..Len(events') : events'[j].kind \notin {"Ready", "Done"}
  BY <1>2, <1>4
<1>11. Broke => Broke'
  <2> SUFFICES ASSUME NEW j \in 1..Len(events), Breaks(j) PROVE Broke'
    BY DEF Broke
  <2>1. j # 1
    BY <1>2 DEF Breaks
  <2>2. PICK i \in 1..Len(events') : j = i + 1 /\ events'[i] = events[j]
    <3>1. events \in Seq(Events)
      BY <1>0, TypeFacts
    <3> QED BY <1>1, <2>1, <3>1, TailHas
  <2> QED BY <2>2 DEF Broke, Breaks
<1>12. UNCHANGED <<runs, stops, launches, faults, restart, cancel, intr, tpc, worker, cur, hit,
                   result, missed>>
  BY DEF Poll, threadVars
<1>n. Len(cmds) \in Nat /\ Len(waiting) \in Nat
  BY <1>0, TypeFacts
<1>14. Broke' => Broke
  BY <1>2 DEF Broke, Breaks
<1>13. ~StartAhead' /\ ~ReadyAhead'
  BY <1>2, <1>4, <1>8, <1>10, <1>n DEF StartAhead, ReadyAhead
<1>20. TypeOK'
  BY <1>0, <1>2, <1>5, <1>12 DEF TypeOK
<1>21. ViewsNumbered'
  BY <1>0, <1>5, <1>12 DEF ViewsNumbered
<1>22. Pressed'
  <2>1. \A i \in 1..Len(cmds') : cmds'[i].kind = "Run" => view[cmds'[i].req.tab].id # 0
    BY <1>0, <1>4, <1>8 DEF Pressed
  <2> QED BY <1>3, <1>5, <1>10, <1>12, <2>1 DEF Pressed, IsRun, IsDone
<1>23. InPressOrder'
  <2>1. \A i \in 1..Len(waiting') : waiting'[i].id <= runs'
    BY <1>5
  <2>2. \A i, j \in 1..Len(waiting') : i < j => waiting'[i].id < waiting'[j].id
    BY <1>5
  <2>3. \A i \in 1..Len(cmds') : cmds'[i].kind = "Run" => cmds'[i].req.id <= runs' /\ cur'.id < cmds'[i].req.id
    <3>1. \A i \in 1..Len(waiting) : waiting[i].id <= runs
      BY <1>0 DEF InPressOrder, IsRun, IsDone
    <3> QED BY <3>1, <1>0, <1>3, <1>4, <1>8, <1>12, TypeFacts, ReqFacts
  <2>4. \A i, j \in 1..Len(cmds') : i < j /\ cmds'[i].kind = "Run" /\ cmds'[j].kind = "Run"
              => cmds'[i].req.id < cmds'[j].req.id
    <3>1. \A i, j \in 1..Len(waiting) : i < j => waiting[i].id < waiting[j].id
      BY <1>0 DEF InPressOrder, IsRun, IsDone
    <3> QED BY <3>1, <1>4, <1>8, <1>n
  <2>5. cur'.id <= runs'
    <3>1. cur.id <= runs
      BY <1>0 DEF InPressOrder, IsRun, IsDone
    <3> QED BY <3>1, <1>12
  <2>6. \A i \in 1..Len(events') : events'[i].kind = "Done" => events'[i].req.id <= runs'
    BY <1>10
  <2>7. \A i \in 1..Len(events'), j \in 1..Len(cmds') : events'[i].kind = "Done" /\ cmds'[j].kind = "Run"
              => events'[i].req.id < cmds'[j].req.id
    BY <1>10
  <2>8. cur' # NoReq => \A i \in 1..Len(events') : events'[i].kind = "Done" => events'[i].req.id < cur'.id
    BY <1>10
  <2>9. \A i, j \in 1..Len(events') : i < j /\ events'[i].kind = "Done" /\ events'[j].kind = "Done"
              => events'[i].req.id < events'[j].req.id
    BY <1>10
  <2> QED BY <2>1, <2>2, <2>3, <2>4, <2>5, <2>6, <2>7, <2>8, <2>9 DEF InPressOrder, IsRun, IsDone
<1>24. CellsOwnRequests'
  <2> DEFINE Still(r) ==
               r.tab \in Notebooks =>
                   /\ r.id = view'[r.tab].id
                   /\ \/ view'[r.tab].state \in {"Running", "Cancelling"}
                      \/ view'[r.tab].state = "Failed" /\ kst' \in {"Stopped", "Failed"}
  <2>1. \A r : ShownFor(r) /\ kst = "Starting" => Still(r)
    BY <1>5 DEF ShownFor, IsLive
  <2> HIDE DEF Still
  <2>2. \A i \in 1..Len(waiting') : Still(waiting'[i])
    BY <2>1, <1>5 DEF CellsOwnRequests, IsRun, IsDone
  <2>3. \A i \in 1..Len(cmds') : cmds'[i].kind = "Run" => Still(cmds'[i].req)
    BY <2>1, <1>0, <1>3, <1>4, <1>8 DEF CellsOwnRequests, IsRun, IsDone
  <2>4. cur' # NoReq => Still(cur')
    BY <2>1, <1>3, <1>12 DEF CellsOwnRequests, IsRun, IsDone
  <2>5. \A i \in 1..Len(events') : events'[i].kind = "Done" => Still(events'[i].req)
    BY <2>1, <1>10 DEF CellsOwnRequests, IsRun, IsDone
  <2>6. \A i \in 1..Len(events') : events'[i].kind = "Done" /\ events'[i].req.tab \in Notebooks
           => \/ events'[i].outcome = "Failed"
              \/ result'[events'[i].req.tab] = [id |-> events'[i].req.id, outcome |-> events'[i].outcome]
    BY <2>1, <1>10 DEF CellsOwnRequests, IsRun, IsDone
  <2> QED BY <2>2, <2>3, <2>4, <2>5, <2>6 DEF CellsOwnRequests, Still, ShownFor, IsLive, IsRun, IsDone
<1>25. CellOutcomeIsReal'
  BY <1>0, <1>5, <1>12 DEF CellOutcomeIsReal
<1>26. StartsOnce'
  BY <1>3, <1>4, <1>5, <1>8, <1>10, <1>12, <1>13 DEF StartsOnce
<1>27. SessionAsShown'
  BY <1>0, <1>3, <1>5, <1>11, <1>12, <1>13, <1>14 DEF SessionAsShown
<1>28. LiveIsHeldUp'
  <2> SUFFICES ASSUME NEW t \in Tabs, IsLive(view[t]), view[t].id \notin missed PROVE Ending' \/ UnderWay(t)'
    BY <1>5, <1>12 DEF LiveIsHeldUp, IsLive
  <2>1. Ending \/ UnderWay(t) \/ worker = "none"
    BY <1>0 DEF LiveIsHeldUp
  <2>2. CASE Ending
    BY <1>7, <1>11, <1>12, <2>2 DEF Ending
  <2>3. CASE UnderWay(t)
    <3>1. PICK k \in 1..Len(waiting) : waiting[k].tab = t
      BY <1>3, <1>4, <2>3, ReqFacts DEF UnderWay, IsRun, IsDone
    <3> QED BY <1>6, <3>1 DEF UnderWay, IsRun
  <2>4. CASE worker = "none"
    BY <1>3, <1>11, <2>4 DEF Ending
  <2> QED BY <2>1, <2>2, <2>3, <2>4
<1>29. BusyIsHeldUp'
  <2> SUFFICES ASSUME busy' # NoTab PROVE UnderWay(busy)'
    BY DEF BusyIsHeldUp
  <2>1. 1 \in 1..Len(waiting) /\ busy' = waiting[1].tab
    BY <1>9, <1>n
  <2> QED BY <1>6, <2>1 DEF UnderWay, IsRun
<1> QED BY <1>20, <1>21, <1>22, <1>23, <1>24, <1>25, <1>26, <1>27, <1>28, <1>29 DEF IInv

LEMMA PollDoneStep ==
  ASSUME IInv, Poll, Head(events).kind = "Done"
  PROVE  IInv'
<1>0. /\ TypeOK /\ ViewsNumbered /\ Pressed /\ InPressOrder /\ CellsOwnRequests /\ CellOutcomeIsReal
      /\ StartsOnce /\ SessionAsShown /\ LiveIsHeldUp /\ BusyIsHeldUp
  BY DEF IInv
<1>1. events # <<>> /\ events' = Tail(events) /\ OnDone(Head(events).req, Head(events).outcome)
  BY DEF Poll
<1>2. /\ events # <<>> /\ Head(events) = events[1] /\ Len(events) \in Nat \ {0}
      /\ events' \in Seq(Events) /\ Len(events') = Len(events) - 1
      /\ \A i \in 1..Len(events') : events'[i] = events[i + 1] /\ i + 1 \in 1..Len(events)
      /\ events[1].kind = "Done" /\ events[1].req \in Reqs /\ events[1].outcome \in Outcomes
      /\ 1 \in 1..Len(events)
  BY <1>0, <1>1, TypeFacts, Head1
<1>p. PICK r \in Reqs, o \in Outcomes : r = events[1].req /\ o = events[1].outcome
  BY <1>2
<1>12. UNCHANGED <<runs, stops, launches, faults, restart, cancel, intr, tpc, worker, cur, hit,
                   result, missed>>
  BY DEF Poll, threadVars
<1>3. /\ view[r.tab].id # 0 /\ ShownFor(r) /\ r.tab \in Tabs /\ r.id \in Nat
      /\ r.tab \in Notebooks => o = "Failed" \/ result[r.tab] = [id |-> r.id, outcome |-> o]
      /\ \A i \in 1..Len(cmds) : cmds[i].kind = "Run" => r.id < cmds[i].req.id
      /\ cur # NoReq => r.id < cur.id
      /\ \A i \in 1..Len(events') : events'[i].kind = "Done" => r.id < events'[i].req.id
      /\ kst # "Starting"
  <2>1. IsDone(1)
    BY <1>2 DEF IsDone
  <2>2. /\ view[r.tab].id # 0 /\ ShownFor(r) /\ r.tab \in Tabs /\ r.id \in Nat
        /\ r.tab \in Notebooks => o = "Failed" \/ result[r.tab] = [id |-> r.id, outcome |-> o]
    BY <1>0, <1>2, <1>p, <2>1, TypeFacts DEF Pressed, CellsOwnRequests
  <2>3. \A i \in 1..Len(cmds) : cmds[i].kind = "Run" => r.id < cmds[i].req.id
    BY <1>0, <1>2, <1>p, <2>1 DEF InPressOrder, IsRun
  <2>4. cur # NoReq => r.id < cur.id
    BY <1>0, <1>2, <1>p, <2>1 DEF InPressOrder
  <2>5. \A i \in 1..Len(events') : events'[i].kind = "Done" => r.id < events'[i].req.id
    <3>1. \A j \in 1..Len(events) : 1 < j /\ events[j].kind = "Done" => r.id < events[j].req.id
      BY <1>0, <1>2, <1>p, <2>1 DEF InPressOrder, IsDone
    <3>2. \A i \in 1..Len(events') : 1 < i + 1 /\ i + 1 \in 1..Len(events) /\ events'[i] = events[i + 1]
      BY <1>2
    <3> QED BY <3>1, <3>2
  <2>6. kst # "Starting"
    BY <1>0, <1>2, <2>1 DEF StartsOnce
  <2> QED BY <2>2, <2>3, <2>4, <2>5, <2>6
<1>4. /\ busy' = (IF busy = r.tab THEN NoTab ELSE busy) /\ interrupting' \in BOOLEAN
      /\ UNCHANGED <<kst, waiting, control, linked, cmds>>
      /\ view' \in [Tabs -> ViewRecord] /\ ViewsNumbered'
      /\ \A u \in Tabs : u # r.tab => view'[u] = view[u]
      /\ view'[r.tab].id = view[r.tab].id /\ view'[r.tab].state = o
  BY <1>0, <1>1, <1>2, <1>p, <1>3, <1>12, DoneFacts
<1>5. waiting = <<>>
  BY <1>0, <1>3 DEF StartsOnce
<1>7. \A k \in 1..Len(events) : k = 1 \/ \E i \in 1..Len(events') : k = i + 1 /\ events'[i] = events[k]
  <2>1. events \in Seq(Events)
    BY <1>0, TypeFacts
  <2> QED BY <1>1, <2>1, TailHas
<1>6. \A t \in Tabs : t # r.tab /\ UnderWay(t) => UnderWay(t)'
  <2> SUFFICES ASSUME NEW t \in Tabs, t # r.tab, UnderWay(t) PROVE UnderWay(t)'
    OBVIOUS
  <2>1. CASE \E j \in 1..Len(events) : IsDone(j) /\ events[j].req.tab = t
    <3>1. PICK j \in 1..Len(events) : IsDone(j) /\ events[j].req.tab = t
      BY <2>1
    <3>2. j # 1
      BY <1>p, <3>1
    <3> QED BY <1>7, <3>1, <3>2 DEF UnderWay, IsDone
  <2> QED BY <1>4, <1>12, <2>1 DEF UnderWay, IsRun
<1>8. Broke <=> Broke'
  BY <1>2, <1>7 DEF Broke, Breaks
<1>9. Ending <=> Ending'
  BY <1>4, <1>8, <1>12 DEF Ending
<1>10. ~ReadyAhead /\ ~ReadyAhead' /\ (StartAhead <=> StartAhead')
  BY <1>0, <1>2, <1>4 DEF StartsOnce, StartAhead, ReadyAhead
<1>11. tpc # "starting" /\ ~StartAhead
  BY <1>0, <1>3 DEF StartsOnce
<1>13. \A j \in 1..Len(events') : events'[j].kind # "Ready"
  BY <1>0, <1>2 DEF StartsOnce
<1>a. Among(waiting', waiting) /\ AmongOf("Run", cmds', cmds) /\ AmongOf("Done", events', events)
  BY <1>0, <1>1, <1>4, TypeFacts, AmongFacts, AmongOfFacts
<1>14. \A u \in Tabs : view'[u].id = view[u].id
  BY <1>4
<1>20. TypeOK'
  BY <1>0, <1>2, <1>4, <1>12 DEF TypeOK, ViewRecord
<1>21. ViewsNumbered'
  BY <1>4
<1>22. Pressed'
  <2>1. \A i \in 1..Len(cmds) : cmds[i].kind = "Run" => view'[cmds[i].req.tab].id # 0
    BY <1>0, <1>14, TypeFacts DEF Pressed, IsRun
  <2>2. cur # NoReq => view'[cur.tab].id # 0
    BY <1>0, <1>14, TypeFacts DEF Pressed
  <2>3. \A i \in 1..Len(events') : events'[i].kind = "Done" => view'[events'[i].req.tab].id # 0
    <3>1. \A i \in 1..Len(events) : events[i].kind = "Done" => view'[events[i].req.tab].id # 0
      BY <1>0, <1>14, TypeFacts DEF Pressed, IsDone
    <3> QED BY <1>2, <3>1
  <2> QED BY <1>4, <1>5, <1>12, <2>1, <2>2, <2>3 DEF Pressed, IsRun, IsDone
<1>23. InPressOrder'
  BY <1>0, <1>12, <1>a, TypeFacts, OrderKept
<1>24. CellsOwnRequests'
  <2> DEFINE Still(x) ==
               x.tab \in Notebooks =>
                   /\ x.id = view'[x.tab].id
                   /\ \/ view'[x.tab].state \in {"Running", "Cancelling"}
                      \/ view'[x.tab].state = "Failed" /\ kst' \in {"Stopped", "Failed"}
  <2>1. \A q : ShownFor(q) /\ r.id < q.id /\ (q.tab \in Tabs) => Still(q)
    BY <1>3, <1>4 DEF ShownFor, IsLive
  <2> HIDE DEF Still
  <2>2. \A i \in 1..Len(waiting') : Still(waiting'[i])
    BY <2>1, <1>4, <1>5 DEF CellsOwnRequests, IsRun, IsDone
  <2>3. \A i \in 1..Len(cmds') : cmds'[i].kind = "Run" => Still(cmds'[i].req)
    BY <2>1, <1>0, <1>3, <1>4, TypeFacts DEF CellsOwnRequests, IsRun, IsDone
  <2>4. cur' # NoReq => Still(cur')
    BY <2>1, <1>0, <1>3, <1>12, TypeFacts DEF CellsOwnRequests, IsRun, IsDone
  <2>5. \A i \in 1..Len(events') : events'[i].kind = "Done" => Still(events'[i].req)
    <3>1. \A j \in 1..Len(events) : events[j].kind = "Done" => ShownFor(events[j].req) /\ events[j].req.tab \in Tabs
      BY <1>0, TypeFacts DEF CellsOwnRequests, IsDone
    <3> QED BY <1>2, <1>3, <2>1, <3>1
  <2>6. \A i \in 1..Len(events') : events'[i].kind = "Done" /\ events'[i].req.tab \in Notebooks
           => \/ events'[i].outcome = "Failed"
              \/ result'[events'[i].req.tab] = [id |-> events'[i].req.id, outcome |-> events'[i].outcome]
    BY <2>1, <1>0, <1>2, <1>12 DEF CellsOwnRequests, IsRun, IsDone
  <2> QED BY <2>2, <2>3, <2>4, <2>5, <2>6 DEF CellsOwnRequests, Still, ShownFor, IsLive, IsRun, IsDone
<1>25. CellOutcomeIsReal'
  <2> SUFFICES ASSUME NEW t \in Notebooks, view'[t].state \in {"Done", "Cancelled"}
               PROVE  result'[t] = [id |-> view'[t].id, outcome |-> view'[t].state]
    BY DEF CellOutcomeIsReal
  <2>1. CASE t = r.tab
    BY <1>3, <1>4, <1>12, <2>1 DEF ShownFor
  <2>2. CASE t # r.tab
    BY <1>0, <1>4, <1>12, <2>2 DEF CellOutcomeIsReal, Tabs
  <2> QED BY <2>1, <2>2
<1>26. StartsOnce'
  BY <1>0, <1>3, <1>4, <1>5, <1>10, <1>11, <1>12, <1>13 DEF StartsOnce
<1>27. SessionAsShown'
  BY <1>0, <1>3, <1>4, <1>8, <1>9, <1>10, <1>12 DEF SessionAsShown
<1>28. LiveIsHeldUp'
  BY <1>0, <1>3, <1>4, <1>6, <1>9, <1>12 DEF LiveIsHeldUp, IsLive, Outcomes
<1>29. BusyIsHeldUp'
  BY <1>0, <1>4, <1>6, <1>9 DEF BusyIsHeldUp, TypeOK
<1> QED BY <1>20, <1>21, <1>22, <1>23, <1>24, <1>25, <1>26, <1>27, <1>28, <1>29 DEF IInv

LEMMA PollBrokeStep ==
  ASSUME IInv, Poll, Head(events).kind \in {"Stopped", "Failed"}
  PROVE  IInv'
<1>0. /\ TypeOK /\ ViewsNumbered /\ Pressed /\ InPressOrder /\ CellsOwnRequests /\ CellOutcomeIsReal
      /\ StartsOnce /\ SessionAsShown /\ LiveIsHeldUp /\ BusyIsHeldUp
  BY DEF IInv
<1>1. events # <<>> /\ events' = Tail(events) /\ OnBroke(Head(events).kind)
  BY DEF Poll
<1>2. /\ events # <<>> /\ Head(events) = events[1] /\ Len(events) \in Nat \ {0}
      /\ events' \in Seq(Events) /\ Len(events') = Len(events) - 1
      /\ \A i \in 1..Len(events') : events'[i] = events[i + 1] /\ i + 1 \in 1..Len(events)
      /\ events[1].kind \in {"Stopped", "Failed"} /\ 1 \in 1..Len(events)
  BY <1>0, <1>1, TypeFacts, Head1
<1>p. PICK state \in {"Stopped", "Failed"} : state = Head(events).kind
  OBVIOUS
<1>12. UNCHANGED <<runs, stops, launches, faults, restart, cancel, intr, tpc, worker, cur, hit,
                   result, missed>>
  BY DEF Poll, threadVars
<1>4. /\ view' \in [Tabs -> ViewRecord] /\ ViewsNumbered'
      /\ \A u \in Tabs : view'[u].id = view[u].id
                         /\ view'[u].state = (IF IsLive(view[u]) THEN "Failed" ELSE view[u].state)
      /\ kst' = state /\ busy' = NoTab /\ waiting' = <<>> /\ cmds' = cmds
      /\ linked' \in BOOLEAN /\ control' \in BOOLEAN /\ interrupting' \in BOOLEAN
  BY <1>0, <1>1, <1>p, <1>12, Broken
<1>3. Broke /\ worker = "none" /\ tpc # "running" /\ cur = NoReq /\ ~StartAhead /\ tpc # "starting"
  BY <1>0, <1>2 DEF Broke, Breaks, SessionAsShown, StartsOnce, TypeOK
<1>5. \A i \in 1..Len(cmds) : cmds[i].kind # "Start"
  BY <1>0, <1>3 DEF StartsOnce, StartAhead
<1>6. \A j \in 1..Len(events') : events'[j].kind # "Ready"
  BY <1>0, <1>2 DEF StartsOnce
<1>7. ~StartAhead' /\ ~ReadyAhead'
  BY <1>2, <1>3, <1>4, <1>6 DEF StartAhead, ReadyAhead
<1>a. Among(waiting', waiting) /\ AmongOf("Run", cmds', cmds) /\ AmongOf("Done", events', events)
  BY <1>0, <1>1, <1>4, TypeFacts, AmongFacts, AmongOfFacts
<1>20. TypeOK'
  BY <1>0, <1>p, <1>2, <1>4, <1>12 DEF TypeOK, ViewRecord
<1>21. ViewsNumbered'
  BY <1>4
<1>22. Pressed'
  <2>1. \A i \in 1..Len(cmds) : cmds[i].kind = "Run" => view'[cmds[i].req.tab].id # 0
    BY <1>0, <1>4, TypeFacts DEF Pressed, IsRun
  <2>2. \A i \in 1..Len(events') : events'[i].kind = "Done" => view'[events'[i].req.tab].id # 0
    <3>1. \A i \in 1..Len(events) : events[i].kind = "Done" => view'[events[i].req.tab].id # 0
      BY <1>0, <1>4, TypeFacts DEF Pressed, IsDone
    <3> QED BY <1>2, <3>1
  <2> QED BY <1>3, <1>4, <1>12, <2>1, <2>2 DEF Pressed, IsRun, IsDone
<1>23. InPressOrder'
  BY <1>0, <1>12, <1>a, TypeFacts, OrderKept
<1>24. CellsOwnRequests'
  <2> DEFINE Still(r) ==
               r.tab \in Notebooks =>
                   /\ r.id = view'[r.tab].id
                   /\ \/ view'[r.tab].state \in {"Running", "Cancelling"}
                      \/ view'[r.tab].state = "Failed" /\ kst' \in {"Stopped", "Failed"}
  <2>1. \A q : ShownFor(q) => Still(q)
    BY <1>p, <1>4, NotebooksAreTabs DEF ShownFor, IsLive
  <2> HIDE DEF Still
  <2>2. \A i \in 1..Len(waiting') : Still(waiting'[i])
    BY <2>1, <1>4 DEF CellsOwnRequests, IsRun, IsDone
  <2>3. \A i \in 1..Len(cmds') : cmds'[i].kind = "Run" => Still(cmds'[i].req)
    BY <2>1, <1>0, <1>4 DEF CellsOwnRequests, IsRun, IsDone
  <2>4. cur' # NoReq => Still(cur')
    BY <2>1, <1>3, <1>12 DEF CellsOwnRequests, IsRun, IsDone
  <2>5. \A i \in 1..Len(events') : events'[i].kind = "Done" => Still(events'[i].req)
    <3>1. \A j \in 1..Len(events) : events[j].kind = "Done" => ShownFor(events[j].req)
      BY <1>0 DEF CellsOwnRequests, IsDone
    <3> QED BY <1>2, <2>1, <3>1
  <2>6. \A i \in 1..Len(events') : events'[i].kind = "Done" /\ events'[i].req.tab \in Notebooks
           => \/ events'[i].outcome = "Failed"
              \/ result'[events'[i].req.tab] = [id |-> events'[i].req.id, outcome |-> events'[i].outcome]
    BY <2>1, <1>0, <1>2, <1>12 DEF CellsOwnRequests, IsRun, IsDone
  <2> QED BY <2>2, <2>3, <2>4, <2>5, <2>6 DEF CellsOwnRequests, Still, ShownFor, IsLive, IsRun, IsDone
<1>25. CellOutcomeIsReal'
  BY <1>0, <1>4, <1>12, NotebooksAreTabs DEF CellOutcomeIsReal
<1>26. StartsOnce'
  BY <1>p, <1>3, <1>4, <1>5, <1>6, <1>7, <1>12 DEF StartsOnce
<1>27. SessionAsShown'
  BY <1>0, <1>p, <1>3, <1>4, <1>7, <1>12 DEF SessionAsShown, TypeOK
<1>28. LiveIsHeldUp'
  BY <1>4 DEF LiveIsHeldUp, IsLive
<1>29. BusyIsHeldUp'
  BY <1>4 DEF BusyIsHeldUp
<1> QED BY <1>20, <1>21, <1>22, <1>23, <1>24, <1>25, <1>26, <1>27, <1>28, <1>29 DEF IInv

LEMMA PressLaunchStep ==
  ASSUME IInv, NEW t \in Tabs, PressRun(t), kst \in {"Stopped", "Failed"}
  PROVE  IInv'
<1>0. /\ TypeOK /\ ViewsNumbered /\ Pressed /\ InPressOrder /\ CellsOwnRequests /\ CellOutcomeIsReal
      /\ StartsOnce /\ SessionAsShown /\ LiveIsHeldUp /\ BusyIsHeldUp
  BY DEF IInv
<1>1. Launch /\ waiting' = Append(waiting, Req(t, runs')) /\ UNCHANGED <<busy, stops, faults, restart, result, missed>>
  BY DEF PressRun
<1>2. /\ launches' \in 0..MaxLaunches /\ kst' = "Starting" /\ linked' = TRUE
      /\ control' \in BOOLEAN /\ interrupting' \in BOOLEAN /\ cancel' \in BOOLEAN /\ hit' \in BOOLEAN
      /\ linked' \in BOOLEAN /\ intr' = <<>>
      /\ cmds' \in Seq(Cmds) /\ Len(cmds') = 1 /\ cmds'[1].kind = "Start"
      /\ events' = <<>> /\ Len(events') = 0
      /\ tpc' = "idle" /\ worker' = "none" /\ cur' = NoReq
  BY <1>0, <1>1, LaunchFacts
<1>3. /\ runs' = runs + 1 /\ runs' \in 1..MaxRuns /\ view' \in [Tabs -> ViewRecord] /\ ViewsNumbered'
      /\ view'[t].id = runs' /\ view'[t].state = "Running" /\ (\A u \in Tabs : u # t => view'[u] = view[u])
      /\ Req(t, runs') \in Reqs /\ runs \in Nat
  BY <1>0, PressFacts, TypeFacts
<1>4. waiting = <<>> /\ busy = NoTab
  BY <1>0 DEF StartsOnce, SessionAsShown
<1>5. waiting' \in Seq(Reqs) /\ Len(waiting') = 1 /\ waiting'[1].tab = t /\ waiting'[1].id = runs'
  <2>1. Req(t, runs').tab = t /\ Req(t, runs').id = runs'
    BY <1>3, ReqFacts
  <2> QED BY <1>1, <1>3, <1>4, <2>1
<1>6. \A u \in Tabs : IsLive(view'[u]) => u = t \/ view'[u].id \in missed'
  BY <1>0, <1>1, <1>3 DEF LiveIsHeldUp, IsLive
<1>20. TypeOK'
  BY <1>0, <1>1, <1>2, <1>3, <1>5 DEF TypeOK, ViewRecord
<1>21. ViewsNumbered'
  BY <1>3
<1>22. Pressed'
  BY <1>2, <1>3, <1>5 DEF Pressed, IsRun, IsDone
<1>23. InPressOrder'
  BY <1>2, <1>3, <1>5, ReqFacts DEF InPressOrder, IsRun, IsDone
<1>24. CellsOwnRequests'
  BY <1>2, <1>3, <1>5 DEF CellsOwnRequests, ShownFor, IsLive, IsRun, IsDone
<1>25. CellOutcomeIsReal'
  BY <1>0, <1>1, <1>3, NotebooksAreTabs DEF CellOutcomeIsReal
<1>26. StartsOnce'
  BY <1>2 DEF StartsOnce, StartAhead, ReadyAhead, IsRun, IsDone
<1>27. SessionAsShown'
  BY <1>1, <1>2, <1>4, ReqFacts DEF SessionAsShown, Broke, ReadyAhead
<1>28. LiveIsHeldUp'
  BY <1>2, <1>5, <1>6 DEF LiveIsHeldUp, UnderWay, IsLive
<1>29. BusyIsHeldUp'
  BY <1>1, <1>4 DEF BusyIsHeldUp
<1> QED BY <1>20, <1>21, <1>22, <1>23, <1>24, <1>25, <1>26, <1>27, <1>28, <1>29 DEF IInv

LEMMA RestartStep ==
  ASSUME IInv, FinishRestart
  PROVE  IInv'
<1>0. /\ TypeOK /\ ViewsNumbered /\ Pressed /\ InPressOrder /\ CellsOwnRequests /\ CellOutcomeIsReal
      /\ StartsOnce /\ SessionAsShown /\ LiveIsHeldUp /\ BusyIsHeldUp
  BY DEF IInv
<1>1. /\ Launch /\ kst \in {"Stopped", "Failed"} /\ busy = NoTab
      /\ UNCHANGED <<runs, view, busy, stops, faults, result, missed, waiting>>
  BY DEF FinishRestart
<1>2. /\ launches' \in 0..MaxLaunches /\ kst' = "Starting" /\ linked' = TRUE
      /\ control' \in BOOLEAN /\ interrupting' \in BOOLEAN /\ cancel' \in BOOLEAN /\ hit' \in BOOLEAN
      /\ linked' \in BOOLEAN /\ intr' = <<>>
      /\ cmds' \in Seq(Cmds) /\ Len(cmds') = 1 /\ cmds'[1].kind = "Start"
      /\ events' = <<>> /\ Len(events') = 0
      /\ tpc' = "idle" /\ worker' = "none" /\ cur' = NoReq
  BY <1>0, <1>1, LaunchFacts
<1>3. restart' \in BOOLEAN
  BY Zenon DEF FinishRestart
<1>4. waiting = <<>> /\ busy = NoTab /\ Len(waiting) = 0
  BY <1>0, <1>1, TypeFacts DEF StartsOnce
<1>6. \A u \in Tabs : IsLive(view'[u]) => view'[u].id \in missed'
  BY <1>0, <1>1 DEF LiveIsHeldUp, IsLive
<1>20. TypeOK'
  BY <1>0, <1>1, <1>2, <1>3 DEF TypeOK
<1>21. ViewsNumbered'
  BY <1>0, <1>1 DEF ViewsNumbered
<1>22. Pressed'
  BY <1>1, <1>2, <1>4 DEF Pressed, IsRun, IsDone
<1>23. InPressOrder'
  BY <1>0, <1>1, <1>2, <1>4, ReqFacts, TypeFacts DEF InPressOrder, IsRun, IsDone
<1>24. CellsOwnRequests'
  BY <1>1, <1>2, <1>4 DEF CellsOwnRequests, ShownFor, IsLive, IsRun, IsDone
<1>25. CellOutcomeIsReal'
  BY <1>0, <1>1 DEF CellOutcomeIsReal
<1>26. StartsOnce'
  BY <1>1, <1>2, <1>4 DEF StartsOnce, StartAhead, ReadyAhead, IsRun, IsDone
<1>27. SessionAsShown'
  BY <1>1, <1>2, <1>4, ReqFacts DEF SessionAsShown, Broke, ReadyAhead
<1>28. LiveIsHeldUp'
  BY <1>6 DEF LiveIsHeldUp, IsLive
<1>29. BusyIsHeldUp'
  BY <1>1, <1>4 DEF BusyIsHeldUp
<1> QED BY <1>20, <1>21, <1>22, <1>23, <1>24, <1>25, <1>26, <1>27, <1>28, <1>29 DEF IInv

LEMMA PressSubmitStep ==
  ASSUME IInv, NEW t \in Tabs, PressRun(t), kst = "Ready"
  PROVE  IInv'
<1>0. /\ TypeOK /\ ViewsNumbered /\ Pressed /\ InPressOrder /\ CellsOwnRequests /\ CellOutcomeIsReal
      /\ StartsOnce /\ SessionAsShown /\ LiveIsHeldUp /\ BusyIsHeldUp
  BY DEF IInv
<1>1. /\ kst' = "Ready" /\ linked /\ ~IsLive(view[t])
      /\ cmds' = Append(cmds, Cmd("Run", Req(t, runs'))) /\ busy' = (IF busy = NoTab THEN t ELSE busy)
      /\ UNCHANGED <<stops, faults, restart, result, missed, waiting, launches, linked, control,
                      interrupting, events, cancel, intr, tpc, worker, cur, hit>>
  <2>1. linked
    BY <1>0 DEF SessionAsShown
  <2>2. Req(t, runs').tab = t
    BY DEF Req
  <2> QED BY <2>1, <2>2 DEF PressRun, Submit, threadVars
<1>3. /\ runs' = runs + 1 /\ runs' \in 1..MaxRuns /\ view' \in [Tabs -> ViewRecord] /\ ViewsNumbered'
      /\ view'[t].id = runs' /\ view'[t].state = "Running" /\ (\A u \in Tabs : u # t => view'[u] = view[u])
      /\ Req(t, runs') \in Reqs /\ runs \in Nat
  BY <1>0, PressFacts, TypeFacts
<1>4. Cmd("Run", Req(t, runs')) \in Cmds /\ Len(cmds) \in Nat
  BY <1>0, <1>3, CmdFacts, TypeFacts
<1>5. /\ cmds' \in Seq(Cmds) /\ Len(cmds') = Len(cmds) + 1 /\ cmds'[Len(cmds) + 1].kind = "Run"
      /\ cmds'[Len(cmds) + 1].req.tab = t /\ cmds'[Len(cmds) + 1].req.id = runs'
      /\ \A i \in 1..Len(cmds) : i \in 1..Len(cmds') /\ cmds'[i] = cmds[i]
      /\ \A i \in 1..Len(cmds') : i \in 1..Len(cmds) \/ i = Len(cmds) + 1
  <2>1. /\ cmds' \in Seq(Cmds) /\ Len(cmds') = Len(cmds) + 1 /\ cmds'[Len(cmds) + 1] = Cmd("Run", Req(t, runs'))
        /\ \A i \in 1..Len(cmds) : cmds'[i] = cmds[i]
    BY <1>0, <1>1, <1>4, TypeFacts
  <2> QED BY <1>3, <1>4, <2>1, CmdFacts, ReqFacts
<1>6. /\ \A i \in 1..Len(waiting) : waiting[i].tab \in Notebooks => waiting[i].tab # t
      /\ \A i \in 1..Len(cmds) : cmds[i].kind = "Run" /\ cmds[i].req.tab \in Notebooks => cmds[i].req.tab # t
      /\ cur # NoReq /\ cur.tab \in Notebooks => cur.tab # t
      /\ \A i \in 1..Len(events) : events[i].kind = "Done" /\ events[i].req.tab \in Notebooks => events[i].req.tab # t
  BY <1>0, <1>1 DEF CellsOwnRequests, ShownFor, IsRun, IsDone, PressRun
<1>n. \A i \in 1..Len(cmds) : cmds[i].kind = "Run" => cmds[i].req.id \in Nat
  BY <1>0, TypeFacts
<1>7. (StartAhead <=> StartAhead') /\ (ReadyAhead <=> ReadyAhead') /\ (Broke <=> Broke') /\ (Ending => Ending')
  BY <1>1, <1>4, <1>5 DEF StartAhead, ReadyAhead, Broke, Breaks, Ending
<1>8. \A u \in Tabs : UnderWay(u) => UnderWay(u)'
  BY <1>1, <1>5 DEF UnderWay, IsRun, IsDone
<1>9. UnderWay(t)'
  BY <1>4, <1>5 DEF UnderWay, IsRun
<1>20. TypeOK'
  BY <1>0, <1>1, <1>3, <1>5 DEF TypeOK, ViewRecord
<1>21. ViewsNumbered'
  BY <1>3
<1>22. Pressed'
  <2>1. \A u \in Tabs : view[u].id # 0 => view'[u].id # 0
    BY <1>3
  <2>2. \A i \in 1..Len(waiting) : view'[waiting[i].tab].id # 0
    BY <1>0, <2>1, TypeFacts DEF Pressed
  <2>3. \A i \in 1..Len(cmds) : cmds[i].kind = "Run" => view'[cmds[i].req.tab].id # 0
    BY <1>0, <2>1, TypeFacts DEF Pressed, IsRun
  <2>4. cur # NoReq => view'[cur.tab].id # 0
    BY <1>0, <2>1, TypeFacts DEF Pressed
  <2>5. \A i \in 1..Len(events) : events[i].kind = "Done" => view'[events[i].req.tab].id # 0
    BY <1>0, <2>1, TypeFacts DEF Pressed, IsDone
  <2> QED BY <1>1, <1>3, <1>5, <2>2, <2>3, <2>4, <2>5 DEF Pressed, IsRun, IsDone
<1>23. InPressOrder'
  <2>1. \A i \in 1..Len(waiting') : waiting'[i].id <= runs'
    BY <1>0, <1>1 DEF StartsOnce
  <2>2. \A i, j \in 1..Len(waiting') : i < j => waiting'[i].id < waiting'[j].id
    BY <1>0, <1>1 DEF StartsOnce
  <2>3. \A i \in 1..Len(cmds') : cmds'[i].kind = "Run" => cmds'[i].req.id <= runs' /\ cur'.id < cmds'[i].req.id
    <3>1. \A i \in 1..Len(cmds) : cmds[i].kind = "Run" => cmds[i].req.id <= runs /\ cur.id < cmds[i].req.id
      BY <1>0 DEF InPressOrder, IsRun, IsDone
    <3>2. cur.id <= runs
      BY <1>0 DEF InPressOrder, IsRun, IsDone
    <3> QED BY <3>1, <3>2, <1>0, <1>1, <1>3, <1>5, TypeFacts
  <2>4. \A i, j \in 1..Len(cmds') : i < j /\ cmds'[i].kind = "Run" /\ cmds'[j].kind = "Run"
              => cmds'[i].req.id < cmds'[j].req.id
    <3>1. \A i \in 1..Len(cmds) : cmds[i].kind = "Run" => cmds[i].req.id <= runs /\ cur.id < cmds[i].req.id
      BY <1>0 DEF InPressOrder, IsRun, IsDone
    <3>2. \A i, j \in 1..Len(cmds) : i < j /\ cmds[i].kind = "Run" /\ cmds[j].kind = "Run"
                  => cmds[i].req.id < cmds[j].req.id
      BY <1>0 DEF InPressOrder, IsRun, IsDone
    <3> QED BY <3>1, <3>2, <1>3, <1>4, <1>5, <1>n
  <2>5. cur'.id <= runs'
    <3>1. cur.id <= runs
      BY <1>0 DEF InPressOrder, IsRun, IsDone
    <3> QED BY <3>1, <1>0, <1>1, <1>3, TypeFacts
  <2>6. \A i \in 1..Len(events') : events'[i].kind = "Done" => events'[i].req.id <= runs'
    <3>1. \A i \in 1..Len(events) : events[i].kind = "Done" => events[i].req.id <= runs
      BY <1>0 DEF InPressOrder, IsRun, IsDone
    <3> QED BY <3>1, <1>0, <1>1, <1>3, TypeFacts
  <2>7. \A i \in 1..Len(events'), j \in 1..Len(cmds') : events'[i].kind = "Done" /\ cmds'[j].kind = "Run"
              => events'[i].req.id < cmds'[j].req.id
    <3>1. \A i \in 1..Len(events) : events[i].kind = "Done" => events[i].req.id <= runs
      BY <1>0 DEF InPressOrder, IsRun, IsDone
    <3>2. \A i \in 1..Len(events), j \in 1..Len(cmds) : events[i].kind = "Done" /\ cmds[j].kind = "Run"
                  => events[i].req.id < cmds[j].req.id
      BY <1>0 DEF InPressOrder, IsRun, IsDone
    <3> QED BY <3>1, <3>2, <1>0, <1>1, <1>3, <1>5, TypeFacts
  <2>8. cur' # NoReq => \A i \in 1..Len(events') : events'[i].kind = "Done" => events'[i].req.id < cur'.id
    <3>1. cur # NoReq => \A i \in 1..Len(events) : events[i].kind = "Done" => events[i].req.id < cur.id
      BY <1>0 DEF InPressOrder, IsRun, IsDone
    <3> QED BY <3>1, <1>1
  <2>9. \A i, j \in 1..Len(events') : i < j /\ events'[i].kind = "Done" /\ events'[j].kind = "Done"
              => events'[i].req.id < events'[j].req.id
    <3>1. \A i, j \in 1..Len(events) : i < j /\ events[i].kind = "Done" /\ events[j].kind = "Done"
                  => events[i].req.id < events[j].req.id
      BY <1>0 DEF InPressOrder, IsRun, IsDone
    <3> QED BY <3>1, <1>1
  <2> QED BY <2>1, <2>2, <2>3, <2>4, <2>5, <2>6, <2>7, <2>8, <2>9 DEF InPressOrder, IsRun, IsDone
<1>24. CellsOwnRequests'
  <2> DEFINE Still(r) ==
               r.tab \in Notebooks =>
                   /\ r.id = view'[r.tab].id
                   /\ \/ view'[r.tab].state \in {"Running", "Cancelling"}
                      \/ view'[r.tab].state = "Failed" /\ kst' \in {"Stopped", "Failed"}
  <2>1. \A q : ShownFor(q) /\ (q.tab \in Notebooks => q.tab # t) => Still(q)
    BY <1>1, <1>3, NotebooksAreTabs DEF ShownFor, IsLive
  <2> HIDE DEF Still
  <2>2. \A i \in 1..Len(waiting') : Still(waiting'[i])
    BY <2>1, <1>0, <1>1, <1>6 DEF CellsOwnRequests, IsRun, IsDone
  <2>3. \A i \in 1..Len(cmds') : cmds'[i].kind = "Run" => Still(cmds'[i].req)
    <3>1. \A i \in 1..Len(cmds) : cmds[i].kind = "Run" => Still(cmds[i].req)
      BY <1>0, <1>6, <2>1 DEF CellsOwnRequests, IsRun
    <3>2. \A q : q.tab = t /\ q.id = runs' => Still(q)
      BY <1>3 DEF Still
    <3> QED BY <1>5, <3>1, <3>2
  <2>4. cur' # NoReq => Still(cur')
    BY <2>1, <1>0, <1>1, <1>6 DEF CellsOwnRequests, IsRun, IsDone
  <2>5. \A i \in 1..Len(events') : events'[i].kind = "Done" => Still(events'[i].req)
    BY <2>1, <1>0, <1>1, <1>6 DEF CellsOwnRequests, IsRun, IsDone
  <2>6. \A i \in 1..Len(events') : events'[i].kind = "Done" /\ events'[i].req.tab \in Notebooks
           => \/ events'[i].outcome = "Failed"
              \/ result'[events'[i].req.tab] = [id |-> events'[i].req.id, outcome |-> events'[i].outcome]
    BY <2>1, <1>0, <1>1 DEF CellsOwnRequests, IsRun, IsDone
  <2> QED BY <2>2, <2>3, <2>4, <2>5, <2>6 DEF CellsOwnRequests, Still, ShownFor, IsLive, IsRun, IsDone
<1>25. CellOutcomeIsReal'
  BY <1>0, <1>1, <1>3, NotebooksAreTabs DEF CellOutcomeIsReal
<1>26. StartsOnce'
  BY <1>0, <1>1, <1>5, <1>7 DEF StartsOnce
<1>27. SessionAsShown'
  BY <1>0, <1>1, <1>7 DEF SessionAsShown
<1>28. LiveIsHeldUp'
  BY <1>0, <1>1, <1>3, <1>7, <1>8, <1>9 DEF LiveIsHeldUp, IsLive
<1>29. BusyIsHeldUp'
  BY <1>0, <1>1, <1>7, <1>8, <1>9 DEF BusyIsHeldUp, TypeOK
<1> QED BY <1>20, <1>21, <1>22, <1>23, <1>24, <1>25, <1>26, <1>27, <1>28, <1>29 DEF IInv

LEMMA PressWaitStep ==
  ASSUME IInv, NEW t \in Tabs, PressRun(t), kst = "Starting"
  PROVE  IInv'
<1>0. /\ TypeOK /\ ViewsNumbered /\ Pressed /\ InPressOrder /\ CellsOwnRequests /\ CellOutcomeIsReal
      /\ StartsOnce /\ SessionAsShown /\ LiveIsHeldUp /\ BusyIsHeldUp
  BY DEF IInv
<1>1. /\ kst' = "Starting" /\ ~IsLive(view[t]) /\ waiting' = Append(waiting, Req(t, runs'))
      /\ UNCHANGED <<stops, faults, restart, result, missed, busy, cmds, launches, linked, control,
                      interrupting, events, cancel, intr, tpc, worker, cur, hit>>
  BY DEF PressRun, Submit, threadVars
<1>3. /\ runs' = runs + 1 /\ runs' \in 1..MaxRuns /\ view' \in [Tabs -> ViewRecord] /\ ViewsNumbered'
      /\ view'[t].id = runs' /\ view'[t].state = "Running" /\ (\A u \in Tabs : u # t => view'[u] = view[u])
      /\ Req(t, runs') \in Reqs /\ runs \in Nat
  BY <1>0, PressFacts, TypeFacts
<1>4. Len(waiting) \in Nat /\ Req(t, runs').tab = t /\ Req(t, runs').id = runs'
  BY <1>0, <1>3, ReqFacts, TypeFacts
<1>5. /\ waiting' \in Seq(Reqs) /\ Len(waiting') = Len(waiting) + 1
      /\ waiting'[Len(waiting) + 1].tab = t /\ waiting'[Len(waiting) + 1].id = runs'
      /\ \A i \in 1..Len(waiting) : i \in 1..Len(waiting') /\ waiting'[i] = waiting[i]
      /\ \A i \in 1..Len(waiting') : i \in 1..Len(waiting) \/ i = Len(waiting) + 1
  <2>1. /\ waiting' \in Seq(Reqs) /\ Len(waiting') = Len(waiting) + 1 /\ waiting'[Len(waiting) + 1] = Req(t, runs')
        /\ \A i \in 1..Len(waiting) : waiting'[i] = waiting[i]
    BY <1>0, <1>1, <1>3, <1>4, TypeFacts
  <2> QED BY <1>4, <2>1
<1>6. /\ \A i \in 1..Len(waiting) : waiting[i].tab \in Notebooks => waiting[i].tab # t
      /\ \A i \in 1..Len(cmds) : cmds[i].kind = "Run" /\ cmds[i].req.tab \in Notebooks => cmds[i].req.tab # t
      /\ cur # NoReq /\ cur.tab \in Notebooks => cur.tab # t
      /\ \A i \in 1..Len(events) : events[i].kind = "Done" /\ events[i].req.tab \in Notebooks => events[i].req.tab # t
  BY <1>0, <1>1 DEF CellsOwnRequests, ShownFor, IsRun, IsDone, PressRun
<1>n. \A i \in 1..Len(waiting) : waiting[i].id \in Nat
  BY <1>0, TypeFacts
<1>7. (StartAhead <=> StartAhead') /\ (ReadyAhead <=> ReadyAhead') /\ (Broke <=> Broke') /\ (Ending <=> Ending')
  BY <1>1 DEF StartAhead, ReadyAhead, Broke, Breaks, Ending
<1>8. \A u \in Tabs : UnderWay(u) => UnderWay(u)'
  BY <1>1, <1>5 DEF UnderWay, IsRun, IsDone
<1>9. UnderWay(t)'
  BY <1>4, <1>5 DEF UnderWay
<1>10. (\A i \in 1..Len(cmds) : cmds[i].kind # "Run") /\ (\A j \in 1..Len(events) : events[j].kind # "Done") /\ cur = NoReq
  BY <1>0 DEF StartsOnce, IsRun, IsDone
<1>20. TypeOK'
  BY <1>0, <1>1, <1>3, <1>5 DEF TypeOK, ViewRecord
<1>21. ViewsNumbered'
  BY <1>3
<1>22. Pressed'
  <2>1. \A u \in Tabs : view[u].id # 0 => view'[u].id # 0
    BY <1>3
  <2>2. \A i \in 1..Len(waiting) : view'[waiting[i].tab].id # 0
    BY <1>0, <2>1, TypeFacts DEF Pressed
  <2>3. \A i \in 1..Len(cmds) : cmds[i].kind = "Run" => view'[cmds[i].req.tab].id # 0
    BY <1>0, <2>1, TypeFacts DEF Pressed, IsRun
  <2>4. cur # NoReq => view'[cur.tab].id # 0
    BY <1>0, <2>1, TypeFacts DEF Pressed
  <2>5. \A i \in 1..Len(events) : events[i].kind = "Done" => view'[events[i].req.tab].id # 0
    BY <1>0, <2>1, TypeFacts DEF Pressed, IsDone
  <2> QED BY <1>1, <1>3, <1>5, <2>2, <2>3, <2>4, <2>5 DEF Pressed, IsRun, IsDone
<1>23. InPressOrder'
  <2>1. \A i \in 1..Len(waiting') : waiting'[i].id <= runs'
    <3>1. \A i \in 1..Len(waiting) : waiting[i].id <= runs
      BY <1>0 DEF InPressOrder, IsRun, IsDone
    <3> QED BY <3>1, <1>3, <1>5, <1>n
  <2>2. \A i, j \in 1..Len(waiting') : i < j => waiting'[i].id < waiting'[j].id
    <3>1. \A i \in 1..Len(waiting) : waiting[i].id <= runs
      BY <1>0 DEF InPressOrder, IsRun, IsDone
    <3>2. \A i, j \in 1..Len(waiting) : i < j => waiting[i].id < waiting[j].id
      BY <1>0 DEF InPressOrder, IsRun, IsDone
    <3> QED BY <3>1, <3>2, <1>3, <1>4, <1>5, <1>n
  <2>3. \A i \in 1..Len(cmds') : cmds'[i].kind = "Run" => cmds'[i].req.id <= runs' /\ cur'.id < cmds'[i].req.id
    BY <1>1, <1>10
  <2>4. \A i, j \in 1..Len(cmds') : i < j /\ cmds'[i].kind = "Run" /\ cmds'[j].kind = "Run"
              => cmds'[i].req.id < cmds'[j].req.id
    BY <1>1, <1>10
  <2>5. cur'.id <= runs'
    <3>1. cur.id <= runs
      BY <1>0 DEF InPressOrder, IsRun, IsDone
    <3> QED BY <3>1, <1>0, <1>1, <1>3, TypeFacts
  <2>6. \A i \in 1..Len(events') : events'[i].kind = "Done" => events'[i].req.id <= runs'
    BY <1>1, <1>10
  <2>7. \A i \in 1..Len(events'), j \in 1..Len(cmds') : events'[i].kind = "Done" /\ cmds'[j].kind = "Run"
              => events'[i].req.id < cmds'[j].req.id
    BY <1>1, <1>10
  <2>8. cur' # NoReq => \A i \in 1..Len(events') : events'[i].kind = "Done" => events'[i].req.id < cur'.id
    BY <1>1, <1>10
  <2>9. \A i, j \in 1..Len(events') : i < j /\ events'[i].kind = "Done" /\ events'[j].kind = "Done"
              => events'[i].req.id < events'[j].req.id
    BY <1>1, <1>10
  <2> QED BY <2>1, <2>2, <2>3, <2>4, <2>5, <2>6, <2>7, <2>8, <2>9 DEF InPressOrder, IsRun, IsDone
<1>24. CellsOwnRequests'
  <2> DEFINE Still(r) ==
               r.tab \in Notebooks =>
                   /\ r.id = view'[r.tab].id
                   /\ \/ view'[r.tab].state \in {"Running", "Cancelling"}
                      \/ view'[r.tab].state = "Failed" /\ kst' \in {"Stopped", "Failed"}
  <2>1. \A q : ShownFor(q) /\ (q.tab \in Notebooks => q.tab # t) => Still(q)
    BY <1>1, <1>3, NotebooksAreTabs DEF ShownFor, IsLive
  <2> HIDE DEF Still
  <2>2. \A i \in 1..Len(waiting') : Still(waiting'[i])
    <3>1. \A i \in 1..Len(waiting) : Still(waiting[i])
      BY <1>0, <1>6, <2>1 DEF CellsOwnRequests
    <3>2. \A q : q.tab = t /\ q.id = runs' => Still(q)
      BY <1>3 DEF Still
    <3> QED BY <1>5, <3>1, <3>2
  <2>3. \A i \in 1..Len(cmds') : cmds'[i].kind = "Run" => Still(cmds'[i].req)
    BY <2>1, <1>1, <1>10 DEF CellsOwnRequests, IsRun, IsDone
  <2>4. cur' # NoReq => Still(cur')
    BY <2>1, <1>1, <1>10 DEF CellsOwnRequests, IsRun, IsDone
  <2>5. \A i \in 1..Len(events') : events'[i].kind = "Done" => Still(events'[i].req)
    BY <2>1, <1>1, <1>10 DEF CellsOwnRequests, IsRun, IsDone
  <2>6. \A i \in 1..Len(events') : events'[i].kind = "Done" /\ events'[i].req.tab \in Notebooks
           => \/ events'[i].outcome = "Failed"
              \/ result'[events'[i].req.tab] = [id |-> events'[i].req.id, outcome |-> events'[i].outcome]
    BY <2>1, <1>1, <1>10 DEF CellsOwnRequests, IsRun, IsDone
  <2> QED BY <2>2, <2>3, <2>4, <2>5, <2>6 DEF CellsOwnRequests, Still, ShownFor, IsLive, IsRun, IsDone
<1>25. CellOutcomeIsReal'
  BY <1>0, <1>1, <1>3, NotebooksAreTabs DEF CellOutcomeIsReal
<1>26. StartsOnce'
  BY <1>0, <1>1, <1>7, <1>10 DEF StartsOnce, IsRun, IsDone
<1>27. SessionAsShown'
  BY <1>0, <1>1, <1>7 DEF SessionAsShown
<1>28. LiveIsHeldUp'
  BY <1>0, <1>1, <1>3, <1>7, <1>8, <1>9 DEF LiveIsHeldUp, IsLive
<1>29. BusyIsHeldUp'
  BY <1>0, <1>1, <1>7, <1>8, <1>9 DEF BusyIsHeldUp, TypeOK
<1> QED BY <1>20, <1>21, <1>22, <1>23, <1>24, <1>25, <1>26, <1>27, <1>28, <1>29 DEF IInv

LEMMA InterruptStep ==
  ASSUME IInv, NEW t, Interrupt(t), PressOnly, stops' \in 0..MaxStops,
         t = busy \/ (t \in Tabs /\ IsLive(view[t])),
         view' = view \/ (t \in Tabs /\ IsLive(view[t]) /\ view' = [view EXCEPT ![t].state = "Cancelling"])
  PROVE  IInv'
<1>0. /\ TypeOK /\ ViewsNumbered /\ Pressed /\ InPressOrder /\ CellsOwnRequests /\ CellOutcomeIsReal
      /\ StartsOnce /\ SessionAsShown /\ LiveIsHeldUp /\ BusyIsHeldUp
  BY DEF IInv
<1>1. /\ waiting' = <<>> /\ interrupting' \in BOOLEAN /\ cancel' \in BOOLEAN /\ intr' \in Seq(Tabs)
      /\ missed' \subseteq 1..MaxRuns /\ missed \subseteq missed' /\ (kst = "Starting" => cancel')
      /\ kst = "Starting" /\ worker = "up" => Live \subseteq missed'
  BY <1>0, InterruptFacts
<1>2. /\ Len(waiting') = 0
      /\ UNCHANGED <<runs, launches, faults, kst, busy, restart, control, linked, cmds, events, tpc,
                      worker, cur, hit, result>>
  BY <1>1 DEF PressOnly, threadVars
<1>3. /\ view' \in [Tabs -> ViewRecord] /\ ViewsNumbered'
      /\ \A u \in Tabs : /\ view'[u].id = view[u].id /\ (IsLive(view'[u]) <=> IsLive(view[u]))
                         /\ view'[u] = view[u] \/ view'[u].state = "Cancelling"
  <2>1. CASE view' = view
    BY <1>0, <1>2, <2>1 DEF TypeOK, ViewRecord, ViewsNumbered
  <2>2. CASE t \in Tabs /\ IsLive(view[t]) /\ view' = [view EXCEPT ![t].state = "Cancelling"]
    <3>1. view[t].state # "none"
      BY <2>2 DEF IsLive
    <3>2. /\ view' \in [Tabs -> ViewRecord] /\ ViewsNumbered' /\ (\A u \in Tabs : u # t => view'[u] = view[u])
          /\ view'[t].id = view[t].id /\ view'[t].state = "Cancelling"
      BY <1>0, <1>2, <2>2, <3>1, StateChanged
    <3> QED BY <2>2, <3>2 DEF IsLive
  <2> QED BY <2>1, <2>2
<1>a. Among(waiting', waiting) /\ AmongOf("Run", cmds', cmds) /\ AmongOf("Done", events', events)
  BY <1>0, <1>1, <1>2, TypeFacts, AmongFacts, AmongOfFacts
<1>7. (StartAhead <=> StartAhead') /\ (ReadyAhead <=> ReadyAhead') /\ (Broke <=> Broke') /\ (Ending <=> Ending')
  BY <1>2 DEF StartAhead, ReadyAhead, Broke, Breaks, Ending
<1>8. kst # "Starting" => \A u \in Tabs : UnderWay(u) => UnderWay(u)'
  BY <1>0, <1>2 DEF StartsOnce, UnderWay, IsRun, IsDone
<1>20. TypeOK'
  BY <1>0, <1>1, <1>2, <1>3 DEF TypeOK, ViewRecord
<1>21. ViewsNumbered'
  BY <1>3
<1>22. Pressed'
  <2>1. \A u \in Tabs : view'[u].id = view[u].id
    BY <1>3
  <2>2. \A i \in 1..Len(cmds) : cmds[i].kind = "Run" => view'[cmds[i].req.tab].id # 0
    BY <1>0, <2>1, TypeFacts DEF Pressed, IsRun
  <2>3. cur # NoReq => view'[cur.tab].id # 0
    BY <1>0, <2>1, TypeFacts DEF Pressed
  <2>4. \A i \in 1..Len(events) : events[i].kind = "Done" => view'[events[i].req.tab].id # 0
    BY <1>0, <2>1, TypeFacts DEF Pressed, IsDone
  <2> QED BY <1>2, <2>2, <2>3, <2>4 DEF Pressed, IsRun, IsDone
<1>23. InPressOrder'
  BY <1>0, <1>2, <1>a, TypeFacts, OrderKept
<1>24. CellsOwnRequests'
  <2>1. \A u \in Notebooks : \/ view'[u] = view[u] /\ (kst \in {"Stopped", "Failed"} => kst' \in {"Stopped", "Failed"})
                             \/ view'[u].id = view[u].id /\ IsLive(view'[u])
    BY <1>2, <1>3, NotebooksAreTabs DEF IsLive
  <2> QED BY <1>0, <1>2, <1>a, <2>1, CellsKept
<1>25. CellOutcomeIsReal'
  BY <1>0, <1>2, <1>3, NotebooksAreTabs DEF CellOutcomeIsReal
<1>26. StartsOnce'
  BY <1>0, <1>1, <1>2, <1>7 DEF StartsOnce, IsRun, IsDone
<1>27. SessionAsShown'
  BY <1>0, <1>2, <1>7 DEF SessionAsShown
<1>28. LiveIsHeldUp'
  <2> SUFFICES ASSUME NEW u \in Tabs, IsLive(view'[u]), view'[u].id \notin missed'
               PROVE  /\ kst' \in {"Starting", "Ready"}
                      /\ Ending' \/ UnderWay(u)' \/ (kst' = "Starting" /\ worker' = "none" /\ cancel')
    BY DEF LiveIsHeldUp
  <2>1. IsLive(view[u]) /\ view[u].id \notin missed
    BY <1>1, <1>3
  <2>2. kst \in {"Starting", "Ready"} /\ (Ending \/ UnderWay(u) \/ (kst = "Starting" /\ worker = "none" /\ cancel))
    BY <1>0, <2>1 DEF LiveIsHeldUp
  <2>3. kst = "Starting" => worker = "none"
    <3>1. view[u].id \in Live
      BY <2>1 DEF Live
    <3> QED BY <1>0, <1>1, <1>3, <3>1 DEF TypeOK
  <2> QED BY <1>1, <1>2, <1>7, <1>8, <2>2, <2>3
<1>29. BusyIsHeldUp'
  BY <1>0, <1>2, <1>7, <1>8 DEF BusyIsHeldUp, SessionAsShown, TypeOK
<1> QED BY <1>20, <1>21, <1>22, <1>23, <1>24, <1>25, <1>26, <1>27, <1>28, <1>29 DEF IInv

LEMMA DropStep ==
  ASSUME IInv, NEW t \in SqlTabs, IsLive(view[t]), busy # t, PressOnly, stops' \in 0..MaxStops,
         view' = [view EXCEPT ![t].state = "Cancelled"], waiting' = Without(waiting, t),
         UNCHANGED <<interrupting, cancel, intr, missed>>
  PROVE  IInv'
<1>0. /\ TypeOK /\ ViewsNumbered /\ Pressed /\ InPressOrder /\ CellsOwnRequests /\ CellOutcomeIsReal
      /\ StartsOnce /\ SessionAsShown /\ LiveIsHeldUp /\ BusyIsHeldUp
  BY DEF IInv
<1>1. /\ waiting' \in Seq(Reqs) /\ Among(waiting', waiting)
      /\ \A k \in 1..Len(waiting) : waiting[k].tab # t => \E i \in 1..Len(waiting') : waiting'[i] = waiting[k]
  <2>1. waiting \in Seq(Reqs)
    BY <1>0, TypeFacts
  <2> QED BY <2>1, WithoutKeeps
<1>2. UNCHANGED <<runs, launches, faults, kst, busy, restart, control, linked, cmds, events, tpc,
                      worker, cur, hit, result>>
  BY DEF PressOnly, threadVars
<1>4. t \in Tabs /\ view[t].state # "none"
  BY DEF Tabs, IsLive
<1>3. /\ view' \in [Tabs -> ViewRecord] /\ ViewsNumbered' /\ (\A u \in Tabs : u # t => view'[u] = view[u])
      /\ view'[t].id = view[t].id /\ view'[t].state = "Cancelled"
  BY <1>0, <1>2, <1>4, StateChanged DEF Outcomes
<1>a. Among(waiting', waiting) /\ AmongOf("Run", cmds', cmds) /\ AmongOf("Done", events', events)
  BY <1>0, <1>1, <1>2, TypeFacts, AmongOfFacts
<1>7. (StartAhead <=> StartAhead') /\ (ReadyAhead <=> ReadyAhead') /\ (Broke <=> Broke') /\ (Ending <=> Ending')
  BY <1>2 DEF StartAhead, ReadyAhead, Broke, Breaks, Ending
<1>8. \A u \in Tabs : u # t /\ UnderWay(u) => UnderWay(u)'
  <2> SUFFICES ASSUME NEW u \in Tabs, u # t, UnderWay(u) PROVE UnderWay(u)'
    OBVIOUS
  <2>1. CASE \E i \in 1..Len(waiting) : waiting[i].tab = u
    BY <1>1, <2>1 DEF UnderWay
  <2> QED BY <1>2, <2>1 DEF UnderWay, IsRun, IsDone
<1>9. waiting = <<>> => waiting' = <<>>
  <2>1. waiting = <<>> => Len(waiting') = 0
    BY <1>1 DEF Among
  <2> QED BY <1>1, <2>1
<1>10. \A u \in Notebooks : view'[u] = view[u]
  BY <1>3, NotebooksAreTabs, KernelConstants
<1>20. TypeOK'
  BY <1>0, <1>1, <1>2, <1>3 DEF TypeOK, ViewRecord
<1>21. ViewsNumbered'
  BY <1>3
<1>22. Pressed'
  <2>1. \A u \in Tabs : view'[u].id = view[u].id
    BY <1>3
  <2>2. \A i \in 1..Len(cmds) : cmds[i].kind = "Run" => view'[cmds[i].req.tab].id # 0
    BY <1>0, <2>1, TypeFacts DEF Pressed, IsRun
  <2>3. cur # NoReq => view'[cur.tab].id # 0
    BY <1>0, <2>1, TypeFacts DEF Pressed
  <2>4. \A i \in 1..Len(events) : events[i].kind = "Done" => view'[events[i].req.tab].id # 0
    BY <1>0, <2>1, TypeFacts DEF Pressed, IsDone
  <2>5. \A i \in 1..Len(waiting') : view'[waiting'[i].tab].id # 0
    <3>1. \A i \in 1..Len(waiting) : view'[waiting[i].tab].id # 0
      BY <1>0, <2>1, TypeFacts DEF Pressed
    <3> QED BY <1>1, <3>1 DEF Among
  <2> QED BY <1>2, <2>2, <2>3, <2>4, <2>5 DEF Pressed, IsRun, IsDone
<1>23. InPressOrder'
  BY <1>0, <1>2, <1>a, TypeFacts, OrderKept
<1>24. CellsOwnRequests'
  BY <1>0, <1>2, <1>10, <1>a, CellsKept
<1>25. CellOutcomeIsReal'
  BY <1>0, <1>2, <1>10 DEF CellOutcomeIsReal
<1>26. StartsOnce'
  BY <1>0, <1>2, <1>7, <1>9 DEF StartsOnce, IsRun, IsDone
<1>27. SessionAsShown'
  BY <1>0, <1>2, <1>7 DEF SessionAsShown
<1>28. LiveIsHeldUp'
  BY <1>0, <1>2, <1>3, <1>7, <1>8 DEF LiveIsHeldUp, IsLive
<1>29. BusyIsHeldUp'
  BY <1>0, <1>2, <1>7, <1>8 DEF BusyIsHeldUp, TypeOK
<1> QED BY <1>20, <1>21, <1>22, <1>23, <1>24, <1>25, <1>26, <1>27, <1>28, <1>29 DEF IInv

LEMMA StopStep ==
  ASSUME IInv, StopSession
  PROVE  IInv'
<1>0. /\ TypeOK /\ ViewsNumbered /\ Pressed /\ InPressOrder /\ CellsOwnRequests /\ CellOutcomeIsReal
      /\ StartsOnce /\ SessionAsShown /\ LiveIsHeldUp /\ BusyIsHeldUp
  BY DEF IInv
<1>1. /\ waiting' = <<>> /\ Len(waiting') = 0
      /\ cmds' = (IF linked THEN Append(cmds, Cmd("Shutdown", NoReq)) ELSE cmds)
      /\ kst' = (IF busy = NoTab /\ kst # "Starting" THEN "Stopped" ELSE kst)
      /\ missed' = (IF kst' = "Stopped" THEN missed \cup Live ELSE missed)
  BY DEF StopSession, Stop
<1>2. UNCHANGED <<runs, launches, faults, busy, interrupting, control, view, linked, events, intr,
                  tpc, worker, cur, hit, result>>
  BY DEF StopSession, threadVars
<1>3. restart' \in BOOLEAN /\ cancel' \in BOOLEAN
  <2>1. restart \in BOOLEAN /\ cancel \in BOOLEAN
    BY <1>0 DEF TypeOK
  <2>2. restart' \in {restart, TRUE} /\ cancel' = (cancel \/ busy # NoTab \/ kst = "Starting")
    BY DEF StopSession, Stop
  <2> QED BY <2>1, <2>2, Zenon
<1>4. stops' \in 0..MaxStops
  BY <1>0, KernelConstants DEF StopSession, StopPress, TypeOK
<1>5. missed' \subseteq 1..MaxRuns /\ missed \subseteq missed'
  BY <1>0, <1>1, LiveFacts DEF TypeOK
<1>6. /\ cmds' \in Seq(Cmds) /\ Len(cmds) \in Nat
      /\ \A i \in 1..Len(cmds) : i \in 1..Len(cmds') /\ cmds'[i] = cmds[i]
      /\ \A i \in 1..Len(cmds') : i \in 1..Len(cmds) \/ (i = Len(cmds) + 1 /\ cmds'[i].kind = "Shutdown")
      /\ linked => \E i \in 1..Len(cmds') : cmds'[i].kind = "Shutdown"
  <2>1. cmds \in Seq(Cmds) /\ Len(cmds) \in Nat
    BY <1>0, TypeFacts
  <2>2. CASE linked
    <3>1. Cmd("Shutdown", NoReq) \in Cmds /\ Cmd("Shutdown", NoReq).kind = "Shutdown"
      BY CmdFacts
    <3>2. /\ cmds' \in Seq(Cmds) /\ Len(cmds') = Len(cmds) + 1 /\ cmds'[Len(cmds) + 1].kind = "Shutdown"
          /\ \A i \in 1..Len(cmds) : cmds'[i] = cmds[i]
      BY <1>1, <2>1, <2>2, <3>1, Append1
    <3> QED BY <2>1, <3>2
  <2>3. CASE ~linked
    BY <1>1, <2>1, <2>3
  <2> QED BY <2>2, <2>3
<1>n. cmds' = cmds \/ (Len(cmds') = Len(cmds) + 1 /\ (\A i \in 1..Len(cmds) : cmds'[i] = cmds[i]) /\ cmds'[Len(cmds) + 1].kind = "Shutdown")
  <2>1. cmds \in Seq(Cmds)
    BY <1>0, TypeFacts
  <2>2. Cmd("Shutdown", NoReq) \in Cmds /\ Cmd("Shutdown", NoReq).kind = "Shutdown"
    BY CmdFacts
  <2> QED BY <1>1, <2>1, <2>2, Append1
<1>a. Among(waiting', waiting) /\ AmongOf("Run", cmds', cmds) /\ AmongOf("Done", events', events)
  <2>1. AmongOf("Run", cmds', cmds)
    BY <1>0, <1>n, TypeFacts, AmongOfFacts
  <2> QED BY <1>0, <1>1, <1>2, <2>1, TypeFacts, AmongFacts, AmongOfFacts
<1>7. (ReadyAhead <=> ReadyAhead') /\ (Broke <=> Broke') /\ (Ending => Ending')
  BY <1>2, <1>6 DEF ReadyAhead, Broke, Breaks, Ending
<1>8. StartAhead <=> StartAhead'
  BY <1>6 DEF StartAhead
<1>9. kst \in {"Starting", "Ready"} => Ending'
  BY <1>0, <1>2, <1>6, <1>7 DEF SessionAsShown, Ending
<1>10. kst' = "Stopped" => Live \subseteq missed'
  BY <1>1
<1>12. kst \in {"Stopped", "Starting", "Ready", "Failed"}
  BY <1>0 DEF TypeOK
<1>11. kst \in {"Stopped", "Failed"} => kst' \in {"Stopped", "Failed"}
  BY <1>1
<1>20. TypeOK'
  BY <1>0, <1>1, <1>2, <1>3, <1>4, <1>5, <1>6 DEF TypeOK
<1>21. ViewsNumbered'
  BY <1>0, <1>2 DEF ViewsNumbered
<1>22. Pressed'
  BY <1>0, <1>1, <1>2, <1>6 DEF Pressed, IsRun, IsDone
<1>23. InPressOrder'
  BY <1>0, <1>2, <1>a, TypeFacts, OrderKept
<1>24. CellsOwnRequests'
  BY <1>0, <1>2, <1>11, <1>a, CellsKept
<1>25. CellOutcomeIsReal'
  BY <1>0, <1>2 DEF CellOutcomeIsReal
<1>26. StartsOnce'
  <2>1. \A i \in 1..Len(cmds') : cmds'[i].kind = "Start" => i = 1
    BY <1>0, <1>6 DEF StartsOnce
  <2>2. kst' = "Starting" => \A i \in 1..Len(cmds') : cmds'[i].kind # "Run"
    <3>1. kst = "Starting" => \A i \in 1..Len(cmds) : cmds[i].kind # "Run"
      BY <1>0 DEF StartsOnce, IsRun
    <3> QED BY <1>1, <1>6, <3>1
  <2> QED BY <1>0, <1>1, <1>2, <1>7, <1>8, <2>1, <2>2 DEF StartsOnce, IsRun, IsDone
<1>27. SessionAsShown'
  BY <1>0, <1>1, <1>2, <1>7, <1>9, <1>12 DEF SessionAsShown
<1>28. LiveIsHeldUp'
  <2> SUFFICES ASSUME NEW u \in Tabs, IsLive(view'[u]), view'[u].id \notin missed'
               PROVE  kst' \in {"Starting", "Ready"} /\ Ending'
    BY DEF LiveIsHeldUp
  <2>1. view[u].id \in Live /\ IsLive(view[u]) /\ view[u].id \notin missed
    BY <1>2, <1>5 DEF Live
  <2>2. kst \in {"Starting", "Ready"}
    BY <1>0, <2>1 DEF LiveIsHeldUp
  <2> QED BY <1>1, <1>2, <1>9, <1>10, <2>1, <2>2
<1>29. BusyIsHeldUp'
  BY <1>0, <1>2, <1>9 DEF BusyIsHeldUp, SessionAsShown, TypeOK
<1> QED BY <1>20, <1>21, <1>22, <1>23, <1>24, <1>25, <1>26, <1>27, <1>28, <1>29 DEF IInv

LEMMA StutterStep ==
  ASSUME IInv, UNCHANGED vars
  PROVE  IInv'
<1>0. /\ TypeOK /\ ViewsNumbered /\ Pressed /\ InPressOrder /\ CellsOwnRequests /\ CellOutcomeIsReal
      /\ StartsOnce /\ SessionAsShown /\ LiveIsHeldUp /\ BusyIsHeldUp
  BY DEF IInv
<1>1. UNCHANGED <<runs, stops, launches, faults, kst, busy, waiting, interrupting, restart, control, view,
                  linked, cmds, events, cancel, intr, tpc, worker, cur, hit, result, missed>>
  BY DEF vars, uiVars, threadVars
<1>20. TypeOK'
  BY <1>0, <1>1 DEF TypeOK
<1>21. ViewsNumbered'
  BY <1>0, <1>1 DEF ViewsNumbered
<1>22. Pressed'
  BY <1>0, <1>1 DEF Pressed, IsRun, IsDone
<1>23. InPressOrder'
  BY <1>0, <1>1 DEF InPressOrder, IsRun, IsDone
<1>24. CellsOwnRequests'
  BY <1>0, <1>1 DEF CellsOwnRequests, ShownFor, IsLive, IsRun, IsDone
<1>25. CellOutcomeIsReal'
  BY <1>0, <1>1 DEF CellOutcomeIsReal
<1>26. StartsOnce'
  BY <1>0, <1>1 DEF StartsOnce, StartAhead, ReadyAhead, Broke, Breaks, IsRun, IsDone
<1>27. SessionAsShown'
  BY <1>0, <1>1 DEF SessionAsShown, Ending, ReadyAhead, Broke, Breaks
<1>28. LiveIsHeldUp'
  BY <1>0, <1>1 DEF LiveIsHeldUp, UnderWay, Ending, Broke, Breaks, IsLive, IsRun, IsDone
<1>29. BusyIsHeldUp'
  BY <1>0, <1>1 DEF BusyIsHeldUp, UnderWay, Ending, Broke, Breaks, IsRun, IsDone
<1> QED BY <1>20, <1>21, <1>22, <1>23, <1>24, <1>25, <1>26, <1>27, <1>28, <1>29 DEF IInv


LEMMA IInvInit == Init => IInv
<1> SUFFICES ASSUME Init PROVE IInv
  OBVIOUS
<1>1. TypeOK /\ ViewsNumbered
  BY TypeInit, NumberedInit
<1>2. /\ runs = 0 /\ kst = "Stopped" /\ busy = NoTab /\ waiting = <<>> /\ cmds = <<>> /\ events = <<>>
      /\ tpc = "gone" /\ worker = "none" /\ cur = NoReq
      /\ Len(waiting) = 0 /\ Len(cmds) = 0 /\ Len(events) = 0
      /\ \A t \in Tabs : view[t].state = "none"
  BY DEF Init
<1>3. Pressed /\ InPressOrder /\ CellsOwnRequests
  BY <1>2, ReqFacts DEF Pressed, InPressOrder, CellsOwnRequests
<1>4. StartsOnce /\ SessionAsShown
  BY <1>2 DEF StartsOnce, SessionAsShown, StartAhead, ReadyAhead, Broke
<1>5. CellOutcomeIsReal /\ LiveIsHeldUp /\ BusyIsHeldUp
  BY <1>2, NotebooksAreTabs DEF CellOutcomeIsReal, LiveIsHeldUp, BusyIsHeldUp, IsLive
<1> QED BY <1>1, <1>3, <1>4, <1>5 DEF IInv

LEMMA IInvStep ==
  ASSUME IInv, [Next]_vars
  PROVE  IInv'
<1>0. TypeOK
  BY DEF IInv
<1>1. ASSUME NEW t \in Tabs, PressRun(t) PROVE IInv'
  <2>1. kst \in {"Stopped", "Failed"} \/ kst = "Ready" \/ kst = "Starting"
    BY <1>0 DEF TypeOK
  <2> QED BY <1>1, <2>1, PressLaunchStep, PressSubmitStep, PressWaitStep
<1>2. StopPress => stops' \in 0..MaxStops
  BY <1>0, KernelConstants DEF StopPress, TypeOK
<1>3. ASSUME NEW t \in Tabs, StopCell(t) PROVE IInv'
  BY <1>2, <1>3, InterruptStep DEF StopCell
<1>4. ASSUME NEW t \in Tabs, CancelSql(t) PROVE IInv'
  <2>1. CASE busy = t
    BY <1>2, <1>4, <2>1, InterruptStep DEF CancelSql
  <2>2. CASE busy # t
    BY <1>2, <1>4, <2>2, DropStep DEF CancelSql
  <2> QED BY <2>1, <2>2
<1>5. ASSUME InterruptSession PROVE IInv'
  BY <1>2, <1>5, InterruptStep DEF InterruptSession
<1>6. ASSUME Poll PROVE IInv'
  <2>1. events \in Seq(Events) /\ events # <<>>
    BY <1>0, <1>6 DEF TypeOK, Poll
  <2>2. Head(events).kind \in {"Ready", "Done", "Stopped", "Failed"}
    BY <2>1, Head1, EventFacts
  <2> QED BY <1>6, <2>2, PollReadyStep, PollDoneStep, PollBrokeStep
<1>7. ASSUME Starts PROVE IInv'
  BY <1>7, StartOkStep, StartBreaksStep DEF Starts
<1>8. ASSUME TakeRun PROVE IInv'
  BY <1>8, TakeRunFailsStep, TakeRunBeginsStep
<1>9. ASSUME Ends PROVE IInv'
  <2>1. CASE RunEnds
    <3>1. PICK o \in {"Done", "Failed"} : Returns(o, <<>>)
      BY <2>1 DEF RunEnds
    <3> QED BY <2>1, <3>1, ReturnsStep DEF RunEnds, Outcomes
  <2>2. CASE RunInterrupted
    BY <2>2, ReturnsStep DEF RunInterrupted, Outcomes
  <2>3. CASE RunKilled
    <3>1. faults' \in 0..MaxFaults
      BY <1>0, <2>3 DEF RunKilled, TypeOK
    <3> QED BY <2>3, <3>1, ReturnsBrokenStep DEF RunKilled, Outcomes
  <2>4. CASE WorkerDies
    <3>1. faults' \in 0..MaxFaults
      BY <1>0, <2>4, KernelConstants DEF WorkerDies, TypeOK
    <3> QED BY <2>4, <3>1, ReturnsBrokenStep DEF WorkerDies, Outcomes
  <2> QED BY <1>9, <2>1, <2>2, <2>3, <2>4 DEF Ends
<1>10. ASSUME Thread PROVE IInv'
  BY <1>7, <1>8, <1>10, TakeStartStep, TakeShutdownStep, DiscardStep DEF Thread
<1>11. CASE UserActs
  BY <1>1, <1>3, <1>4, <1>5, <1>11, StopStep DEF UserActs
<1>12. CASE UNCHANGED vars
  BY <1>12, StutterStep
<1> QED BY <1>6, <1>9, <1>10, <1>11, <1>12, RestartStep, DeliverInterruptStep DEF Next

LEMMA IInvHolds == Spec => []IInv
BY IInvInit, IInvStep, PTL DEF Spec

-----------------------------------------------------------------------------
(* The theorems                                                            *)

\* Whatever is queued, killed and started again meanwhile, a notebook shows a
\* cell as done or cancelled only when the worker ended it that way
\* (notebook::poll_kernel applies an outcome to the tab's run, whichever that
\* is by then).
THEOREM CellsShowTheirOutcome == Spec => []CellOutcomeIsReal
<1>1. IInv => CellOutcomeIsReal
  BY DEF IInv
<1> QED BY <1>1, IInvHolds, PTL

\* Once nothing is queued or on its way, no run is shown as live but those whose
\* stop signal was lost (kernel::poll fails what a session leaves behind).
THEOREM NoRunLeftBehind == Spec => []NothingLeftLive
<1>1. IInv => NothingLeftLive
  <2> SUFFICES ASSUME IInv, Quiet, NEW t \in Tabs, IsLive(view[t]), view[t].id \notin missed PROVE FALSE
    BY DEF NothingLeftLive, Live
  <2>1. /\ cmds = <<>> /\ events = <<>> /\ tpc \in {"idle", "gone"}
        /\ Len(cmds) = 0 /\ Len(events) = 0
    BY DEF Quiet
  <2>2. ~Ending /\ ~StartAhead /\ ~ReadyAhead
    BY <2>1 DEF Ending, Broke, StartAhead, ReadyAhead
  <2>3. TypeOK /\ StartsOnce /\ SessionAsShown /\ LiveIsHeldUp
    BY DEF IInv
  <2>4. kst # "Starting"
    BY <2>1, <2>2, <2>3 DEF StartsOnce, Ending
  <2>5. cur = NoReq /\ waiting = <<>> /\ Len(waiting) = 0
    BY <2>1, <2>3, <2>4 DEF StartsOnce, SessionAsShown
  <2>6. UnderWay(t)
    BY <2>2, <2>3, <2>4 DEF LiveIsHeldUp
  <2> QED BY <2>1, <2>5, <2>6, ReqFacts DEF UnderWay
<1> QED BY <1>1, IInvHolds, PTL

\* ... and the session is shown as it is, with no tab holding it.
THEOREM KernelSettles == Spec => []SettledKernel
<1>1. IInv => SettledKernel
  <2> SUFFICES ASSUME IInv, Quiet PROVE busy = NoTab /\ (kst = "Ready" <=> worker = "up")
    BY DEF SettledKernel
  <2>1. /\ cmds = <<>> /\ events = <<>> /\ tpc \in {"idle", "gone"}
        /\ Len(cmds) = 0 /\ Len(events) = 0
    BY DEF Quiet
  <2>2. ~Ending /\ ~Broke /\ ~StartAhead /\ ~ReadyAhead
    BY <2>1 DEF Ending, Broke, StartAhead, ReadyAhead
  <2>3. TypeOK /\ StartsOnce /\ SessionAsShown /\ BusyIsHeldUp
    BY DEF IInv
  <2>4. kst \in {"Stopped", "Ready", "Failed"}
    BY <2>1, <2>2, <2>3 DEF StartsOnce, TypeOK
  <2>5. cur = NoReq /\ waiting = <<>> /\ Len(waiting) = 0
    BY <2>1, <2>3, <2>4 DEF StartsOnce, SessionAsShown
  <2>6. busy \in Tabs => ~UnderWay(busy)
    BY <2>1, <2>5, ReqFacts DEF UnderWay
  <2>7. busy = NoTab
    BY <2>2, <2>3, <2>6 DEF BusyIsHeldUp, TypeOK
  <2> QED BY <2>2, <2>3, <2>4, <2>7 DEF SessionAsShown
<1> QED BY <1>1, IInvHolds, PTL

\* Every variable keeps its type; the queues hold only messages of their kinds.
THEOREM KernelTypes == Spec => []TypeOK
<1>1. IInv => TypeOK
  BY DEF IInv
<1> QED BY <1>1, IInvHolds, PTL
=============================================================================
