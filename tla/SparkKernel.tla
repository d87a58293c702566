----------------------------- MODULE SparkKernel -----------------------------
(***************************************************************************)
(* The local Spark session: KernelUi and its operations on the UI thread,  *)
(* the kernel thread and its one worker process (cobalt-app/src/kernel.rs) *)
(* shared by every notebook (notebook.rs) and Spark SQL tab (sparkq.rs).   *)
(*                                                                         *)
(* A tab has one run on show: a notebook's live cell, or the run of a      *)
(* Spark SQL tab.  Requests are executed one after the other by the        *)
(* thread; Stop goes to the worker on a socket of its own, past the queue, *)
(* or raises a flag the thread looks at while it waits for a reply.        *)
(*                                                                         *)
(* A launch gives the UI new channels and a new flag: a thread it replaces *)
(* can no longer be heard, and is dropped here.  Contexts, lakehouse       *)
(* bindings (SparkPrep::Wait) and the queue of cells inside one notebook   *)
(* are left out: a queued cell is one more press of Run.                   *)
(***************************************************************************)
EXTENDS Naturals, Sequences

CONSTANTS Notebooks,   \* notebook tabs on the Spark kernel
          SqlTabs,     \* Spark SQL query tabs
          MaxRuns,     \* bound: runs
          MaxStops,    \* bound: presses of Stop, Interrupt and session stops
          MaxLaunches, \* bound: sessions
          MaxFaults    \* bound: workers that do not start or die

NoTab == "none"

ASSUME KernelConstants ==
    /\ Notebooks \cap SqlTabs = {} /\ NoTab \notin Notebooks \cup SqlTabs
    /\ MaxRuns \in Nat /\ MaxStops \in Nat
    /\ MaxLaunches \in Nat /\ MaxFaults \in Nat

Tabs == Notebooks \cup SqlTabs

VARIABLES runs, stops, launches, faults,      \* counted against the bounds
          \* KernelUi, and the runs the tabs show
          kst,           \* KernelState
          busy,          \* the tab in `busy`
          waiting,       \* requests kept until the session is up
          interrupting, restart, control,
          view,          \* per tab: RunViewState and the run it belongs to
          \* channels
          linked,        \* k.tx is Some
          cmds, events, cancel,
          intr,          \* interrupts on the control socket, by tab pressed for
          \* the kernel thread
          tpc, worker, cur,
          hit,           \* the worker raised KeyboardInterrupt in the cell
          \* history: per notebook, how the last of its cells to be executed
          \* ended on the worker; runs whose stop signal was lost
          result, missed

uiVars == <<kst, busy, waiting, interrupting, restart, control, view, linked>>
threadVars == <<tpc, worker, cur, hit>>
vars == <<runs, stops, launches, faults, uiVars, cmds, events, cancel, intr,
          threadVars, result, missed>>

-----------------------------------------------------------------------------
Req(t, i) == [tab |-> t, id |-> i]
NoReq == [tab |-> NoTab, id |-> 0]
Reqs == [tab : Tabs, id : 1..MaxRuns]

Cmd(kind, r) == [kind |-> kind, req |-> r]
Outcomes == {"Done", "Failed", "Cancelled"}

Event(kind) == [kind |-> kind, req |-> NoReq, outcome |-> "none"]
Done(r, outcome) == [kind |-> "Done", req |-> r, outcome |-> outcome]

Cmds == {Cmd("Start", NoReq), Cmd("Shutdown", NoReq)} \cup {Cmd("Run", r) : r \in Reqs}
Events == {Event(kind) : kind \in {"Ready", "Stopped", "Failed"}}
              \cup [kind : {"Done"}, req : Reqs, outcome : Outcomes]

IsLive(v) == v.state \in {"Running", "Cancelling"}
Live == {view[t].id : t \in {u \in Tabs : IsLive(view[u])}}
Stopping == {view[t].id : t \in {u \in Tabs : view[u].state = "Cancelling"}}

TypeOK ==
    /\ kst \in {"Stopped", "Starting", "Ready", "Failed"}
    /\ busy \in Tabs \cup {NoTab}
    /\ waiting \in Seq(Reqs)
    /\ interrupting \in BOOLEAN /\ restart \in BOOLEAN /\ control \in BOOLEAN
    /\ view \in [Tabs -> [id : 0..MaxRuns,
                          state : {"none", "Running", "Cancelling"} \cup Outcomes]]
    /\ cmds \in Seq(Cmds) /\ events \in Seq(Events)
    /\ intr \in Seq(Tabs)
    /\ tpc \in {"idle", "starting", "running", "gone"}
    /\ worker \in {"none", "up"} /\ cur \in Reqs \cup {NoReq}
    /\ linked \in BOOLEAN /\ cancel \in BOOLEAN /\ hit \in BOOLEAN
    /\ result \in [Notebooks -> [id : 0..MaxRuns, outcome : Outcomes \cup {"none"}]]
    /\ missed \subseteq 1..MaxRuns
    /\ runs \in 0..MaxRuns /\ stops \in 0..MaxStops
    /\ launches \in 0..MaxLaunches /\ faults \in 0..MaxFaults

Init ==
    /\ runs = 0 /\ stops = 0 /\ launches = 0 /\ faults = 0
    /\ kst = "Stopped" /\ busy = NoTab /\ waiting = <<>>
    /\ interrupting = FALSE /\ restart = FALSE /\ control = FALSE
    /\ view = [t \in Tabs |-> [id |-> 0, state |-> "none"]]
    /\ linked = FALSE /\ cmds = <<>> /\ events = <<>> /\ cancel = FALSE
    /\ intr = <<>>
    /\ tpc = "gone" /\ worker = "none" /\ cur = NoReq /\ hit = FALSE
    /\ result = [t \in Notebooks |-> [id |-> 0, outcome |-> "none"]]
    /\ missed = {}

-----------------------------------------------------------------------------
(* Operations of the UI                                                    *)

\* launch: new channels, a new flag and a new thread with Start queued.
Launch ==
    /\ launches < MaxLaunches /\ launches' = launches + 1
    /\ kst' = "Starting" /\ linked' = TRUE
    /\ control' = FALSE /\ interrupting' = FALSE
    /\ cmds' = <<Cmd("Start", NoReq)>> /\ events' = <<>> /\ cancel' = FALSE
    /\ intr' = <<>>
    /\ tpc' = "idle" /\ worker' = "none" /\ cur' = NoReq /\ hit' = FALSE

\* kernel::run.  The first request sent takes `busy`.
Submit(r) ==
    IF kst = "Ready" /\ linked
    THEN /\ busy' = (IF busy = NoTab THEN r.tab ELSE busy)
         /\ cmds' = Append(cmds, Cmd("Run", r)) /\ UNCHANGED waiting
    ELSE waiting' = Append(waiting, r) /\ UNCHANGED <<busy, cmds>>

\* pump_spark, sparkq::run: a fresh view; the session is started when needed.
PressRun(t) ==
    /\ ~IsLive(view[t]) /\ runs < MaxRuns /\ runs' = runs + 1
    /\ view' = [view EXCEPT ![t] = [id |-> runs', state |-> "Running"]]
    /\ IF kst \in {"Stopped", "Failed"}
       THEN /\ Launch
            /\ waiting' = Append(waiting, Req(t, runs')) /\ UNCHANGED busy
       ELSE /\ Submit(Req(t, runs'))
            /\ UNCHANGED <<launches, kst, linked, control, interrupting, events,
                           cancel, intr, threadVars>>
    /\ UNCHANGED <<stops, faults, restart, result, missed>>

\* What was waiting is dropped while the session's Ready is on its way, or the
\* run of t is not the one that is interrupted.
InterruptMisses(t) ==
    missed' = missed \cup
        (IF kst = "Starting" THEN (IF worker = "up" THEN Live ELSE {})
         ELSE IF t = busy THEN {} ELSE {view[t].id})

\* Faulty variant: a second Stop interrupts again instead of killing.
InterruptAgain(t) ==
    /\ waiting' = <<>>
    /\ IF kst = "Starting"
       THEN cancel' = TRUE /\ UNCHANGED <<interrupting, intr>>
       ELSE IF busy = NoTab
       THEN UNCHANGED <<interrupting, cancel, intr>>
       ELSE /\ interrupting' = TRUE /\ intr' = intr /\ UNCHANGED cancel
    /\ InterruptMisses(t)

\* Faulty variant: interrupts although nothing seems to run.
InterruptUnguarded(t) ==
    /\ waiting' = <<>>
    /\ \/ /\ kst = "Starting" /\ cancel' = TRUE
          /\ UNCHANGED <<interrupting, intr>>
       \/ /\ kst # "Starting" /\ control /\ ~interrupting
          /\ interrupting' = TRUE /\ intr' = Append(intr, busy)
          /\ UNCHANGED cancel
       \/ /\ kst # "Starting" /\ ~(control /\ ~interrupting)
          /\ interrupting' = FALSE /\ cancel' = TRUE /\ UNCHANGED intr
    /\ InterruptMisses(t)

\* kernel::interrupt, pressed for the run of tab t.
Interrupt(t) ==
    /\ waiting' = <<>>
    /\ \/ /\ kst = "Starting" /\ cancel' = TRUE
          /\ UNCHANGED <<interrupting, intr>>
       \/ /\ kst # "Starting" /\ busy = NoTab
          /\ UNCHANGED <<interrupting, cancel, intr>>
       \/ /\ kst # "Starting" /\ busy # NoTab /\ control /\ ~interrupting
          /\ interrupting' = TRUE /\ intr' = Append(intr, busy)
          /\ UNCHANGED cancel
       \/ /\ kst # "Starting" /\ busy # NoTab /\ ~(control /\ ~interrupting)
          /\ interrupting' = FALSE /\ cancel' = TRUE /\ UNCHANGED intr
    /\ InterruptMisses(t)

StopPress == stops < MaxStops /\ stops' = stops + 1
PressOnly == UNCHANGED <<runs, launches, faults, kst, busy, restart, control,
                         linked, cmds, events, threadVars, result>>

\* notebook::cancel
StopCell(t) ==
    /\ StopPress /\ t \in Notebooks /\ IsLive(view[t])
    /\ view' = [view EXCEPT ![t].state = "Cancelling"]
    /\ Interrupt(t) /\ PressOnly

\* waiting.retain: the requests of the other tabs, in order
Without(s, t) ==
    LET kept[n \in 0..Len(s)] ==
            IF n = 0 THEN <<>>
            ELSE IF s[n].tab # t THEN Append(kept[n - 1], s[n]) ELSE kept[n - 1]
    IN  kept[Len(s)]

\* sparkq::cancel: a run that is not the busy one is dropped from `waiting`
\* and shown as cancelled at once.
CancelSql(t) ==
    /\ StopPress /\ t \in SqlTabs /\ IsLive(view[t])
    /\ IF busy = t
       THEN /\ view' = [view EXCEPT ![t].state = "Cancelling"]
            /\ Interrupt(t)
       ELSE /\ view' = [view EXCEPT ![t].state = "Cancelled"]
            /\ waiting' = Without(waiting, t)
            /\ UNCHANGED <<interrupting, cancel, intr, missed>>
    /\ PressOnly

\* Command::KernelInterrupt
InterruptSession ==
    /\ StopPress /\ (kst = "Starting" \/ busy # NoTab)
    /\ Interrupt(busy) /\ PressOnly /\ UNCHANGED view

\* kernel::stop.  When nothing seems to run the session is shown as stopped
\* before the thread has heard of it.
Stop ==
    /\ waiting' = <<>>
    /\ cancel' = (cancel \/ busy # NoTab \/ kst = "Starting")
    /\ cmds' = (IF linked THEN Append(cmds, Cmd("Shutdown", NoReq)) ELSE cmds)
    /\ kst' = (IF busy = NoTab /\ kst # "Starting" THEN "Stopped" ELSE kst)
    /\ missed' = (IF kst' = "Stopped" THEN missed \cup Live ELSE missed)

\* Command::KernelStop and Command::KernelRestart
StopSession ==
    /\ StopPress /\ Stop
    /\ restart' \in {restart, TRUE}
    /\ UNCHANGED <<runs, launches, faults, busy, interrupting, control, view,
                   linked, events, intr, threadVars, result>>

\* A restart finishes, in the next frame after the old session is gone.
FinishRestart ==
    /\ restart /\ kst \in {"Stopped", "Failed"} /\ busy = NoTab
    /\ restart' = FALSE /\ Launch
    /\ UNCHANGED <<runs, stops, faults, busy, waiting, view, result, missed>>

-----------------------------------------------------------------------------
(* The frame: kernel::poll and notebook::poll_kernel, event by event       *)

\* What was waiting is submitted, in order.
OnReady ==
    /\ kst' = "Ready" /\ waiting' = <<>>
    /\ control' \in BOOLEAN
    /\ cmds' = cmds \o [i \in DOMAIN waiting |-> Cmd("Run", waiting[i])]
    /\ busy' = (IF busy = NoTab /\ waiting # <<>> THEN waiting[1].tab ELSE busy)
    /\ UNCHANGED <<interrupting, view, linked>>

\* Faulty variant: a run being cancelled counts as cancelled however it ended.
OnDoneAsAsked(r, outcome) ==
    /\ busy' = (IF busy = r.tab THEN NoTab ELSE busy)
    /\ interrupting' = FALSE
    /\ view' = [view EXCEPT ![r.tab].state =
                    IF @ = "Cancelling" THEN "Cancelled" ELSE outcome]
    /\ UNCHANGED <<kst, waiting, control, linked, cmds>>

\* The outcome goes to the tab's run, whichever that is by now.
OnDone(r, outcome) ==
    /\ busy' = (IF busy = r.tab THEN NoTab ELSE busy)
    /\ interrupting' = FALSE
    /\ view' = [view EXCEPT ![r.tab].state = outcome]
    /\ UNCHANGED <<kst, waiting, control, linked, cmds>>

\* Faulty variants: only the run of the busy tab fails; `busy` stays set.
OnBrokeBusyOnly(state) ==
    /\ kst' = state /\ busy' = NoTab /\ linked' = FALSE /\ waiting' = <<>>
    /\ control' = FALSE /\ interrupting' = FALSE
    /\ view' = [t \in Tabs |-> IF IsLive(view[t]) /\ t = busy
                               THEN [view[t] EXCEPT !.state = "Failed"] ELSE view[t]]
    /\ UNCHANGED cmds

OnBrokeStaysBusy(state) ==
    /\ kst' = state /\ linked' = FALSE /\ waiting' = <<>>
    /\ control' = FALSE /\ interrupting' = FALSE
    /\ view' = [t \in Tabs |-> IF IsLive(view[t])
                               THEN [view[t] EXCEPT !.state = "Failed"] ELSE view[t]]
    /\ UNCHANGED <<busy, cmds>>

\* Stopped and Failed: every live run fails.
OnBroke(state) ==
    /\ kst' = state /\ busy' = NoTab /\ linked' = FALSE /\ waiting' = <<>>
    /\ control' = FALSE /\ interrupting' = FALSE
    /\ view' = [t \in Tabs |-> IF IsLive(view[t])
                               THEN [view[t] EXCEPT !.state = "Failed"] ELSE view[t]]
    /\ UNCHANGED cmds

Poll ==
    /\ events # <<>> /\ events' = Tail(events)
    /\ LET e == Head(events) IN
         CASE e.kind = "Ready" -> OnReady
           [] e.kind = "Done" -> OnDone(e.req, e.outcome)
           [] OTHER -> OnBroke(e.kind)
    /\ UNCHANGED <<runs, stops, launches, faults, restart, cancel, intr,
                   threadVars, result, missed>>

-----------------------------------------------------------------------------
(* The kernel thread                                                       *)

Emit(es) == events' = events \o es
ThreadOnly == UNCHANGED <<runs, stops, launches, uiVars, intr>>

\* Start and Run begin by clearing the flag: a stop that came just before is
\* lost.
ClearCancel(lost) ==
    cancel' = FALSE /\ missed' = (IF cancel THEN missed \cup lost ELSE missed)

Takes(kind) == /\ tpc = "idle" /\ cmds # <<>> /\ Head(cmds).kind = kind
               /\ cmds' = Tail(cmds)

TakeStart ==
    /\ Takes("Start") /\ tpc' = "starting" /\ ClearCancel(Live)
    /\ ThreadOnly /\ UNCHANGED <<faults, events, worker, cur, hit, result>>

\* The last reply may come before the flag is looked at again.
StartOk ==
    /\ tpc = "starting" /\ tpc' = "idle" /\ worker' = "up"
    /\ Emit(<<Event("Ready")>>)
    /\ missed' = (IF cancel THEN missed \cup Live ELSE missed)
    /\ ThreadOnly /\ UNCHANGED <<faults, cmds, cancel, cur, hit, result>>

\* Cancelled while it connects, or during the bootstrap.
StartCancelled ==
    /\ tpc = "starting" /\ cancel /\ tpc' = "idle"
    /\ \E kind \in {"Stopped", "Failed"} : Emit(<<Event(kind)>>)
    /\ ThreadOnly /\ UNCHANGED <<faults, cmds, cancel, worker, cur, hit, result, missed>>

StartFails ==
    /\ tpc = "starting" /\ faults < MaxFaults /\ faults' = faults + 1
    /\ tpc' = "idle" /\ Emit(<<Event("Failed")>>)
    /\ ThreadOnly /\ UNCHANGED <<cmds, cancel, worker, cur, hit, result, missed>>

\* Without a worker the request fails at once.
TakeRun ==
    /\ Takes("Run")
    /\ IF worker = "none"
       THEN /\ Emit(<<Done(Head(cmds).req, "Failed")>>)
            /\ UNCHANGED <<tpc, cur, cancel, missed>>
       ELSE /\ tpc' = "running" /\ cur' = Head(cmds).req
            /\ ClearCancel((Stopping \cup {cmds[i].req.id : i \in DOMAIN cmds}) \ {0})
            /\ UNCHANGED events
    /\ ThreadOnly /\ UNCHANGED <<faults, worker, hit, result>>

\* The call returned: Done with the outcome, and what else is to be told.
Returns(outcome, more) ==
    /\ tpc = "running" /\ tpc' = "idle"
    /\ result' = (IF cur.tab \in Notebooks THEN [result EXCEPT ![cur.tab] =
                      [id |-> cur.id, outcome |-> outcome]] ELSE result)
    /\ Emit(<<Done(cur, outcome)>> \o more)
    /\ cur' = NoReq /\ hit' = FALSE
    /\ ThreadOnly /\ UNCHANGED <<cmds, cancel, missed>>

\* The reply.  "Failed" also stands for a worker that closed its socket but
\* is not yet seen to be dead: the next request finds that out.
RunEnds ==
    /\ \E o \in {"Done", "Failed"} : Returns(o, <<>>)
    /\ UNCHANGED <<faults, worker>>

RunInterrupted == hit /\ Returns("Cancelled", <<>>) /\ UNCHANGED <<faults, worker>>

\* Faulty variant: the worker is killed but the session's end not announced.
RunKilledSilent ==
    /\ cancel /\ Returns("Cancelled", <<>>)
    /\ worker' = "none" /\ UNCHANGED faults

\* The flag is up: the call is given up and the worker killed.
RunKilled ==
    /\ cancel /\ Returns("Cancelled", <<Event("Stopped")>>)
    /\ worker' = "none" /\ UNCHANGED faults

WorkerDies ==
    /\ faults < MaxFaults /\ faults' = faults + 1
    /\ Returns("Failed", <<Event("Failed")>>) /\ worker' = "none"

TakeShutdown ==
    /\ Takes("Shutdown")
    /\ worker' = "none" /\ tpc' = "gone" /\ Emit(<<Event("Stopped")>>)
    /\ ThreadOnly /\ UNCHANGED <<faults, cancel, cur, hit, result, missed>>

\* Commands behind a Shutdown are never read.
Discard ==
    /\ tpc = "gone" /\ cmds # <<>> /\ cmds' = <<>>
    /\ ThreadOnly /\ UNCHANGED <<faults, events, cancel, threadVars, result, missed>>

-----------------------------------------------------------------------------
\* The control socket reaches the worker: whatever it executes now gets the
\* KeyboardInterrupt.
DeliverInterrupt ==
    /\ intr # <<>> /\ intr' = Tail(intr)
    /\ hit' = (hit \/ tpc = "running")
    /\ missed' = (IF cur.tab = Head(intr) THEN missed
                  ELSE missed \cup ({view[Head(intr)].id} \cap Stopping))
    /\ UNCHANGED <<runs, stops, launches, faults, uiVars, cmds, events, cancel,
                   tpc, worker, cur, result>>

-----------------------------------------------------------------------------
Starts == StartOk \/ StartCancelled \/ StartFails
Ends == RunEnds \/ RunInterrupted \/ RunKilled \/ WorkerDies
Thread == TakeStart \/ Starts \/ TakeRun \/ TakeShutdown \/ Discard

UserActs ==
    \/ \E t \in Tabs : PressRun(t) \/ StopCell(t) \/ CancelSql(t)
    \/ InterruptSession \/ StopSession

Next == UserActs \/ FinishRestart \/ Poll \/ Thread \/ Ends \/ DeliverInterrupt

\* Frames are drawn and the thread runs; a start has a timeout; the control
\* socket answers; a cell that is interrupted, or whose flag is up, ends.  A
\* cell nobody stops may run for ever.
Fairness ==
    /\ WF_vars(Poll) /\ WF_vars(FinishRestart) /\ WF_vars(Thread)
    /\ WF_vars(DeliverInterrupt)
    /\ WF_vars((hit \/ cancel) /\ Ends)

Spec == Init /\ [][Next]_vars /\ Fairness

-----------------------------------------------------------------------------
(* Properties.  Three of them except runs whose stop signal was lost        *)
(* (`missed`); the README lists how that happens.                          *)

Quiet == cmds = <<>> /\ events = <<>> /\ intr = <<>> /\ tpc \in {"idle", "gone"}

\* A notebook never shows a cell as done or cancelled that did not end that
\* way on the worker, whatever is queued, killed and started again meanwhile.
CellOutcomeIsReal ==
    \A t \in Notebooks :
        view[t].state \in {"Done", "Cancelled"} =>
            result[t] = [id |-> view[t].id, outcome |-> view[t].state]

\* With nothing on its way no run is shown as live: none is left behind in
\* `waiting`, in the queue of a dead thread or by a session that broke.
NothingLeftLive == Quiet => Live \subseteq missed

\* With nothing on its way the session is shown as it is, and as free.
SettledKernel == Quiet => busy = NoTab /\ (kst = "Ready" <=> worker = "up")

\* A run the user stops does not stay "Cancelling".
StopEnds ==
    \A t \in Tabs : view[t].state = "Cancelling"
                        ~> (view[t].state # "Cancelling" \/ view[t].id \in missed)

\* A session that was told to end for a restart starts again, whatever it was
\* doing.  (Also when a run pressed in the same frame starts it; the restart
\* flag then stays up and brings the session back after its next stop.)
RestartHappens ==
    (/\ restart /\ launches < MaxLaunches
     /\ \E i \in DOMAIN cmds : cmds[i].kind = "Shutdown")
        ~> (kst = "Starting" \/ ~restart \/ cur.id \in missed)

\* The doc of KernelUi::busy: it names the cell that the worker executes.
BusyIsExecuting ==
    tpc = "running" /\ events = <<>> /\ kst = "Ready" => busy = cur.tab

\* The doc of sparkq::cancel: a run that still waits is simply dropped.  No run
\* that is shown as cancelled is begun.
DroppedNeverBegins ==
    [][cur' # cur /\ cur' # NoReq /\ view[cur'.tab].id = cur'.id
          => view[cur'.tab].state # "Cancelled"]_vars

-----------------------------------------------------------------------------
(* The inductive invariant                                                 *)

\* what is queued for the thread and for the frame, by position
IsRun(i) == cmds[i].kind = "Run"
IsDone(j) == events[j].kind = "Done"
Breaks(j) == events[j].kind \in {"Stopped", "Failed"}

\* The run a tab shows has a number that was given out.
ViewsNumbered == \A t \in Tabs : view[t].id <= runs /\ (view[t].state # "none" => view[t].id # 0)

\* A request is that of a tab whose Run was pressed.
Pressed ==
    /\ \A i \in 1..Len(waiting) : view[waiting[i].tab].id # 0
    /\ \A i \in 1..Len(cmds) : IsRun(i) => view[cmds[i].req.tab].id # 0
    /\ cur # NoReq => view[cur.tab].id # 0
    /\ \A i \in 1..Len(events) : IsDone(i) => view[events[i].req.tab].id # 0

\* Requests keep the order in which Run was pressed, on the whole way from
\* `waiting` to the event that ends them.
InPressOrder ==
    /\ \A i \in 1..Len(waiting) : waiting[i].id <= runs
    /\ \A i, j \in 1..Len(waiting) : i < j => waiting[i].id < waiting[j].id
    /\ \A i \in 1..Len(cmds) : IsRun(i) => cmds[i].req.id <= runs /\ cur.id < cmds[i].req.id
    /\ \A i, j \in 1..Len(cmds) : i < j /\ IsRun(i) /\ IsRun(j) => cmds[i].req.id < cmds[j].req.id
    /\ cur.id <= runs
    /\ \A i \in 1..Len(events) : IsDone(i) => events[i].req.id <= runs
    /\ \A i \in 1..Len(events), j \in 1..Len(cmds) :
          IsDone(i) /\ IsRun(j) => events[i].req.id < cmds[j].req.id
    /\ cur # NoReq => \A i \in 1..Len(events) : IsDone(i) => events[i].req.id < cur.id
    /\ \A i, j \in 1..Len(events) : i < j /\ IsDone(i) /\ IsDone(j) => events[i].req.id < events[j].req.id

\* A request of a notebook is that of the cell it shows, and of no other: the
\* cell is live, or the session broke under it.
ShownFor(r) ==
    r.tab \in Notebooks =>
        /\ r.id = view[r.tab].id
        /\ IsLive(view[r.tab]) \/ (view[r.tab].state = "Failed" /\ kst \in {"Stopped", "Failed"})

CellsOwnRequests ==
    /\ \A i \in 1..Len(waiting) : ShownFor(waiting[i])
    /\ \A i \in 1..Len(cmds) : IsRun(i) => ShownFor(cmds[i].req)
    /\ cur # NoReq => ShownFor(cur)
    /\ \A i \in 1..Len(events) : IsDone(i) => ShownFor(events[i].req)
    /\ \A i \in 1..Len(events) : IsDone(i) /\ events[i].req.tab \in Notebooks
          => \/ events[i].outcome = "Failed"
             \/ result[events[i].req.tab] = [id |-> events[i].req.id, outcome |-> events[i].outcome]

\* The session is bound to end: the event is there, or the thread will read the
\* Shutdown that makes it.
Broke == \E j \in 1..Len(events) : Breaks(j)
Ending == Broke \/ (tpc # "gone" /\ \E i \in 1..Len(cmds) : cmds[i].kind = "Shutdown")

StartAhead == Len(cmds) # 0 /\ cmds[1].kind = "Start"
ReadyAhead == Len(events) # 0 /\ events[1].kind = "Ready"

\* A session starts once, at the head of its channels, before any request.
StartsOnce ==
    /\ \A i \in 1..Len(cmds) : cmds[i].kind = "Start" => i = 1
    /\ \A j \in 1..Len(events) : events[j].kind = "Ready" => j = 1
    /\ StartAhead => tpc = "idle"
    /\ StartAhead \/ tpc = "starting"
          => /\ kst = "Starting" /\ events = <<>> /\ worker = "none"
             /\ ~(StartAhead /\ tpc = "starting")
    /\ ReadyAhead => kst = "Starting" /\ (worker = "up" \/ Broke)
    /\ kst = "Starting" => /\ StartAhead \/ tpc = "starting" \/ ReadyAhead \/ Broke
                           /\ \A i \in 1..Len(cmds) : ~IsRun(i)
                           /\ \A j \in 1..Len(events) : ~IsDone(j)
                           /\ cur = NoReq
    /\ waiting # <<>> => kst = "Starting"

\* What the user interface takes the session for, and what it is.
SessionAsShown ==
    /\ kst \in {"Starting", "Ready"} => linked /\ (tpc = "gone" => Broke)
    /\ Broke => worker = "none"
    /\ kst = "Ready" => worker = "up" \/ Broke
    /\ worker = "up" => /\ tpc # "gone" /\ kst # "Failed"
                        /\ kst = "Starting" => ReadyAhead
                        /\ kst = "Stopped" => Ending
    /\ tpc = "running" <=> cur # NoReq
    /\ tpc = "running" => worker = "up"
    /\ kst # "Ready" => busy = NoTab

\* The tab has a request on its way to the thread or back.
UnderWay(t) ==
    \/ \E i \in 1..Len(waiting) : waiting[i].tab = t
    \/ \E i \in 1..Len(cmds) : IsRun(i) /\ cmds[i].req.tab = t
    \/ cur.tab = t
    \/ \E j \in 1..Len(events) : IsDone(j) /\ events[j].req.tab = t

\* A live run gets its end: from its request, from the end of the session, or
\* from the start that was cancelled.
LiveIsHeldUp ==
    \A t \in Tabs : IsLive(view[t]) =>
        \/ view[t].id \in missed
        \/ /\ kst \in {"Starting", "Ready"}
           /\ Ending \/ UnderWay(t) \/ (kst = "Starting" /\ worker = "none" /\ cancel)

BusyIsHeldUp == busy # NoTab => Ending \/ UnderWay(busy)

IInv == /\ TypeOK /\ ViewsNumbered /\ Pressed /\ InPressOrder /\ CellsOwnRequests /\ CellOutcomeIsReal
        /\ StartsOnce /\ SessionAsShown /\ LiveIsHeldUp /\ BusyIsHeldUp
=============================================================================
