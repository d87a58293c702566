------------------------------ MODULE TabSession ------------------------------
(***************************************************************************)
(* The SQL session behind one editor tab, end to end: the UI thread        *)
(* (state.rs apply_event, ops.rs), the command channel and the dispatcher  *)
(* (session/mod.rs), the connection actors it spawns (session/actor.rs     *)
(* tab_actor) and the event channel back.  Every Connect spawns a fresh    *)
(* actor and tells the previous one to close, without waiting for it;      *)
(* events carry the tab but not the actor that sent them.                  *)
(*                                                                         *)
(* A run is one step here (RunLoop has its inside); Import, the tabular    *)
(* route and the sign-in dialogs of begin_connect are left out.            *)
(***************************************************************************)
EXTENDS Naturals, Sequences, FiniteSets

CONSTANTS MaxActs,    \* bound: user actions
          MaxFaults,  \* bound: connections lost for good, databases missing
          MaxActors   \* bound: connects

ASSUME SessionBounds == MaxActs \in Nat /\ MaxFaults \in Nat /\ MaxActors \in Nat

Actors == 1..MaxActors
\* Only a press of Run or a replay after a fault makes a run.
Runs == 1..(MaxActs + MaxFaults)
Intents == 1..MaxActs

VARIABLES acts, faults,
          \* the UI thread's EditorTab
          conn,       \* ConnState
          run,        \* RunView: id (0 = none), the press of F5 behind it, state
          pending,    \* pending_run: the press it stands for, 0 = None
          last,       \* last_run_mode, as the last press
          follow,     \* followups of the events applied in this frame
          \* the channels and the dispatcher
          cmds, events,
          born,       \* actors spawned
          entry,      \* the tab's actor in the dispatcher's map, 0 = none
          \* the actors
          pc, mail, named, cur, cancelled, flag,
          \* history: how often a press was executed, how each run ended,
          \* which runs the user cancelled, whether sessions ever overlapped
          started, result, asked, overlap

uiVars == <<conn, run, pending, last, follow>>
actorVars == <<pc, mail, named, cur, cancelled, flag>>
history == <<started, result, asked, overlap>>
vars == <<acts, faults, uiVars, cmds, events, born, entry, actorVars, history>>

-----------------------------------------------------------------------------
NoRun == [id |-> 0, intent |-> 0]

TabMsg(kind) == [kind |-> kind, run |-> NoRun]
RunMsg(r) == [kind |-> "Run", run |-> r]
RunIds == [id : Runs, intent : Intents]
Msgs == [kind : {"Close", "Cancel", "Use", "None"}, run : {NoRun}]
            \cup [kind : {"Run"}, run : RunIds]

\* arg: Connect's "a database other than the profile's default is asked for",
\* ConnectFailed's "that database is missing", ConnectionLost's rerun.
Command(kind, arg) == [kind |-> kind, run |-> NoRun, arg |-> arg]
Event(kind, arg) == [kind |-> kind, id |-> 0, outcome |-> "none", arg |-> arg]
RunDone(id, outcome) ==
    [kind |-> "RunDone", id |-> id, outcome |-> outcome, arg |-> FALSE]

Commands == [kind : {"Connect", "Disconnect", "Cancel", "Use"}, run : {NoRun}, arg : BOOLEAN]
                \cup [kind : {"Run"}, run : RunIds, arg : {FALSE}]
\* What ends a session: its actor has returned.
SessionEnds == {"ConnectFailed", "Disconnected", "ConnectionLost"}
SessionEvents == SessionEnds \cup {"Connected"}
Outcomes == {"Done", "Failed", "Cancelled"}
Events == [kind : SessionEvents \cup {"Reconnected", "NotConnected"}, id : {0},
           outcome : {"none"}, arg : BOOLEAN]
              \cup [kind : {"RunDone"}, id : Runs, outcome : Outcomes, arg : {FALSE}]

\* How many messages of a kind are in a queue.
CountOf(kind, queue) == Cardinality({i \in 1..Len(queue) : queue[i].kind = kind})

IsLive(r) == r.state \in {"Running", "Cancelling"}

\* An actor that has not returned.
Up(a) == pc[a] \notin {"unborn", "gone"}

TypeOK ==
    /\ acts \in 0..MaxActs /\ faults \in 0..MaxFaults
    /\ conn \in {"Disconnected", "Connecting", "Connected", "Failed"}
    /\ run \in [id : {0} \cup Runs, intent : 0..MaxActs,
                state : {"none", "Running", "Cancelling"} \cup Outcomes]
    /\ pending \in 0..MaxActs /\ last \in 0..MaxActs
    /\ follow \in Seq({"RunPending", "Reconnect", "ReconnectDefault"})
    /\ cmds \in Seq(Commands) /\ events \in Seq(Events)
    /\ born \in 0..MaxActors /\ entry \in 0..MaxActors
    /\ pc \in [Actors -> {"unborn", "opening", "idle", "checking", "running",
                          "ending", "closing", "gone"}]
    /\ mail \in [Actors -> Seq(Msgs)] /\ \A a \in Actors : ~Up(a) => mail[a] = <<>>
    /\ named \in [Actors -> BOOLEAN] /\ cur \in [Actors -> Msgs]
    /\ cancelled \in [Actors -> BOOLEAN] /\ flag \in [Actors -> BOOLEAN]
    /\ started \in [Intents -> Nat] /\ result \in [Runs -> {"none"} \cup Outcomes]
    /\ asked \subseteq Runs /\ overlap \in BOOLEAN

Init ==
    /\ acts = 0 /\ faults = 0
    /\ conn = "Disconnected" /\ pending = 0 /\ last = 0 /\ follow = <<>>
    /\ run = [id |-> 0, intent |-> 0, state |-> "none"]
    /\ cmds = <<>> /\ events = <<>> /\ born = 0 /\ entry = 0
    /\ pc = [a \in Actors |-> "unborn"]
    /\ mail = [a \in Actors |-> <<>>]
    /\ named = [a \in Actors |-> FALSE]
    /\ cur = [a \in Actors |-> TabMsg("None")]
    /\ cancelled = [a \in Actors |-> FALSE]
    /\ flag = [a \in Actors |-> FALSE]
    /\ started = [i \in Intents |-> 0]
    /\ result = [i \in Runs |-> "none"]
    /\ asked = {} /\ overlap = FALSE

-----------------------------------------------------------------------------
(* What the UI sends                                                       *)

\* The tab's last session is over, and the UI knows.
WoundUp ==
    /\ \A a \in Actors : ~Up(a)
    /\ \A i \in DOMAIN cmds : cmds[i].kind \notin {"Connect", "Disconnect"}
    /\ \A i \in DOMAIN events : events[i].kind \notin SessionEvents

\* begin_connect / finish_connect, with credentials at hand
BeginConnect(other) ==
    /\ born + CountOf("Connect", cmds) < MaxActors
    /\ conn' = "Connecting"
    /\ cmds' = Append(cmds, Command("Connect", other))
    /\ overlap' = (overlap \/ ~WoundUp)
    /\ UNCHANGED <<run, asked>>

\* Faulty variant: the pending run is not cleared when it goes out.
ExecuteKeepsPending(i) ==
    LET r == [id |-> run.id + 1, intent |-> i] IN
    /\ run' = [id |-> r.id, intent |-> i, state |-> "Running"]
    /\ pending' = i
    /\ cmds' = Append(cmds, [kind |-> "Run", run |-> r, arg |-> FALSE])
    /\ UNCHANGED <<conn, overlap, asked>>

\* execute: a fresh RunView under a fresh run id
Execute(i) ==
    LET r == [id |-> run.id + 1, intent |-> i] IN
    /\ run' = [id |-> r.id, intent |-> i, state |-> "Running"]
    /\ pending' = 0
    /\ cmds' = Append(cmds, [kind |-> "Run", run |-> r, arg |-> FALSE])
    /\ UNCHANGED <<conn, overlap, asked>>

\* run_sql, past its is_running guard: on the connection, after the one on its
\* way, or after a new one.
RunSql(i) ==
    /\ last' = i
    /\ \/ conn = "Connected" /\ Execute(i)
       \/ /\ conn = "Connecting" /\ pending' = i
          /\ UNCHANGED <<conn, run, cmds, overlap, asked>>
       \/ /\ conn \in {"Disconnected", "Failed"} /\ pending' = i
          /\ \E other \in BOOLEAN : BeginConnect(other)

UserTurn == follow = <<>> /\ acts < MaxActs /\ acts' = acts + 1
UiOnly == UNCHANGED <<faults, events, born, entry, actorVars, started, result>>

PressRun ==
    /\ UserTurn /\ ~IsLive(run)
    /\ RunSql(acts + 1)
    /\ UiOnly /\ UNCHANGED follow

CancelRun ==
    /\ UserTurn /\ IsLive(run)
    /\ run' = [run EXCEPT !.state = "Cancelling"]
    /\ cmds' = Append(cmds, Command("Cancel", FALSE))
    /\ asked' = asked \cup {run.id}
    /\ UiOnly /\ UNCHANGED <<conn, pending, last, follow, overlap>>

\* Change Connection, Connect
Connect ==
    /\ UserTurn
    /\ \E other \in BOOLEAN : BeginConnect(other)
    /\ UiOnly /\ UNCHANGED <<pending, last, follow>>

\* disconnect_tab does not wait for the session to end, nor look at the run
Disconnect ==
    /\ UserTurn
    /\ conn' = "Disconnected"
    /\ cmds' = Append(cmds, Command("Disconnect", FALSE))
    /\ overlap' = (overlap \/ IsLive(run))
    /\ UiOnly /\ UNCHANGED <<run, pending, last, follow, asked>>

ChangeDatabase ==
    /\ UserTurn /\ conn = "Connected"
    /\ cmds' = Append(cmds, Command("Use", FALSE))
    /\ UiOnly /\ UNCHANGED <<uiVars, asked, overlap>>

-----------------------------------------------------------------------------
(* The UI frame: the events that have arrived are applied one by one, then *)
(* their followups are handled.                                            *)

FailLiveRun ==
    run' = IF IsLive(run) THEN [run EXCEPT !.state = "Failed"] ELSE run

OnConnected ==
    /\ conn' = "Connected" /\ follow' = Append(follow, "RunPending")
    /\ UNCHANGED <<run, pending>>

\* The fallback to the default database does not replay the pending run.
OnConnectFailed(missing) ==
    IF missing
    THEN /\ conn' = "Connecting" /\ pending' = 0
         /\ follow' = Append(follow, "ReconnectDefault")
         /\ UNCHANGED run
    ELSE conn' = "Failed" /\ UNCHANGED <<run, pending, follow>>

\* Faulty variant: the run that was live on the session stays live.
OnDisconnectedKeepsRun ==
    conn' = "Disconnected" /\ UNCHANGED <<run, pending, follow>>

OnDisconnected ==
    /\ conn' = "Disconnected" /\ FailLiveRun
    /\ UNCHANGED <<pending, follow>>

OnReconnected == conn' = "Connected" /\ UNCHANGED <<run, pending, follow>>

OnConnectionLost(rerun) ==
    /\ conn' = "Disconnected" /\ FailLiveRun
    /\ pending' = (IF rerun /\ IsLive(run) THEN last ELSE pending)
    /\ follow' = Append(follow, "Reconnect")

OnNotConnected ==
    /\ conn' = "Disconnected"
    /\ run' = (IF run.id = 0 THEN run ELSE [run EXCEPT !.state = "Failed"])
    /\ UNCHANGED <<pending, follow>>

\* Faulty variant: the run's end is not matched against the run shown.
OnRunDoneAnyRun(e) ==
    /\ run' = [run EXCEPT !.state = e.outcome]
    /\ UNCHANGED <<conn, pending, follow>>

OnRunDone(e) ==
    /\ run' = (IF run.id = e.id THEN [run EXCEPT !.state = e.outcome] ELSE run)
    /\ UNCHANGED <<conn, pending, follow>>

ApplyEvent ==
    /\ events # <<>> /\ events' = Tail(events)
    /\ LET e == Head(events) IN
         CASE e.kind = "Connected" -> OnConnected
           [] e.kind = "ConnectFailed" -> OnConnectFailed(e.arg)
           [] e.kind = "Disconnected" -> OnDisconnected
           [] e.kind = "Reconnected" -> OnReconnected
           [] e.kind = "ConnectionLost" -> OnConnectionLost(e.arg)
           [] e.kind = "NotConnected" -> OnNotConnected
           [] e.kind = "RunDone" -> OnRunDone(e)
    /\ UNCHANGED <<acts, faults, last, cmds, born, entry, actorVars, history>>

HandleFollowup ==
    /\ follow # <<>> /\ follow' = Tail(follow)
    /\ \/ /\ Head(follow) = "RunPending"
          /\ IF pending # 0 /\ ~IsLive(run)
             THEN RunSql(pending)
             ELSE /\ pending' = 0
                  /\ UNCHANGED <<conn, run, last, cmds, asked, overlap>>
       \/ /\ Head(follow) = "Reconnect" /\ (\E other \in BOOLEAN : BeginConnect(other))
          /\ UNCHANGED <<pending, last>>
       \/ /\ Head(follow) = "ReconnectDefault" /\ BeginConnect(FALSE)
          /\ UNCHANGED <<pending, last>>
    /\ UNCHANGED <<acts, faults, events, born, entry, actorVars, started, result>>

-----------------------------------------------------------------------------
(* The dispatcher                                                          *)

Told(a, msg) == IF a # 0 /\ Up(a) THEN [mail EXCEPT ![a] = Append(@, msg)] ELSE mail
Emit(e) == events' = Append(events, e)

DispatchConnect(c) ==
    /\ born' = born + 1 /\ entry' = born'
    /\ mail' = Told(entry, TabMsg("Close"))
    /\ pc' = [pc EXCEPT ![born'] = "opening"]
    /\ named' = [named EXCEPT ![born'] = c.arg]
    /\ UNCHANGED <<events, cur, cancelled, flag>>

DispatchDisconnect ==
    /\ entry' = 0
    /\ mail' = Told(entry, TabMsg("Close"))
    /\ IF entry = 0 THEN Emit(Event("Disconnected", FALSE)) ELSE UNCHANGED events
    /\ UNCHANGED <<born, pc, named, cur, cancelled, flag>>

\* Faulty variant: a mailbox nobody reads any more is not noticed.
RouteBlind(msg) ==
    /\ mail' = (IF entry = 0 THEN mail ELSE [mail EXCEPT ![entry] = Append(@, msg)])
    /\ IF entry = 0 THEN Emit(Event("NotConnected", FALSE)) ELSE UNCHANGED events
    /\ UNCHANGED <<born, entry, pc, named, cur, cancelled, flag>>

\* route_tab
Route(msg) ==
    /\ mail' = Told(entry, msg)
    /\ IF entry = 0 THEN Emit(Event("NotConnected", FALSE))
       ELSE IF ~Up(entry) THEN Emit(Event("Disconnected", FALSE))
       ELSE UNCHANGED events
    /\ UNCHANGED <<born, entry, pc, named, cur, cancelled, flag>>

Dispatch ==
    /\ cmds # <<>> /\ cmds' = Tail(cmds)
    /\ LET c == Head(cmds) IN
         CASE c.kind = "Connect" -> DispatchConnect(c)
           [] c.kind = "Disconnect" -> DispatchDisconnect
           [] c.kind = "Run" -> Route(RunMsg(c.run))
           [] OTHER -> Route(TabMsg(c.kind))
    /\ UNCHANGED <<acts, faults, uiVars, history>>

-----------------------------------------------------------------------------
(* The connection actor: tab_actor                                         *)

Goes(a, to) == pc' = [pc EXCEPT ![a] = to]
\* returning drops the mailbox, and what is in it
Returns(a) ==
    /\ Goes(a, "gone") /\ mail' = [mail EXCEPT ![a] = <<>>]
    /\ cur' = [cur EXCEPT ![a] = TabMsg("None")]
    /\ named' = [named EXCEPT ![a] = FALSE]
    /\ cancelled' = [cancelled EXCEPT ![a] = FALSE]
    /\ flag' = [flag EXCEPT ![a] = FALSE]
ActorOnly == UNCHANGED <<acts, uiVars, cmds, born, entry, asked, overlap>>

Opens(a) ==
    /\ pc[a] = "opening"
    /\ Goes(a, "idle") /\ Emit(Event("Connected", FALSE))
    /\ named' = [named EXCEPT ![a] = FALSE]
    /\ ActorOnly /\ UNCHANGED <<faults, mail, cur, cancelled, flag, started, result>>

OpenFails(a) ==
    /\ pc[a] = "opening" /\ Returns(a)
    /\ \/ Emit(Event("ConnectFailed", FALSE)) /\ UNCHANGED faults
       \/ /\ named[a] /\ faults < MaxFaults /\ faults' = faults + 1
          /\ Emit(Event("ConnectFailed", TRUE))
    /\ ActorOnly /\ UNCHANGED <<started, result>>

\* rx.recv() is ready: a message, or None once the dispatcher dropped the sender.
Ready(a) == mail[a] # <<>> \/ entry # a
NextMsg(a) == IF mail[a] = <<>> THEN TabMsg("None") ELSE Head(mail[a])
Recv(a) == mail' = [mail EXCEPT ![a] = IF @ = <<>> THEN @ ELSE Tail(@)]

\* A run or a change of database first makes sure the connection is alive.
Take(a) ==
    /\ pc[a] = "idle" /\ Ready(a) /\ Recv(a)
    /\ CASE NextMsg(a).kind \in {"Close", "None"} -> Goes(a, "closing") /\ UNCHANGED cur
         [] NextMsg(a).kind = "Cancel" -> UNCHANGED <<pc, cur>>
         [] OTHER -> Goes(a, "checking") /\ cur' = [cur EXCEPT ![a] = NextMsg(a)]
    /\ ActorOnly /\ UNCHANGED <<faults, events, named, cancelled, flag, started, result>>

\* Faulty variant: the cancel flag of the last run is still up.
BeginsNoReset(a) ==
    /\ IF cur[a].kind = "Run"
       THEN /\ Goes(a, "running") /\ UNCHANGED cur
            /\ started' = [started EXCEPT ![cur[a].run.intent] = @ + 1]
            /\ cancelled' = [cancelled EXCEPT ![a] = FALSE]
            /\ UNCHANGED flag
       ELSE /\ Goes(a, "idle") \/ Goes(a, "closing")
            /\ cur' = [cur EXCEPT ![a] = TabMsg("None")]
            /\ UNCHANGED <<started, cancelled, flag>>

\* run_script starts with cancel.reset(); a change of database is one step.
Begins(a) ==
    /\ IF cur[a].kind = "Run"
       THEN /\ Goes(a, "running") /\ UNCHANGED cur
            /\ started' = [started EXCEPT ![cur[a].run.intent] = @ + 1]
            /\ cancelled' = [cancelled EXCEPT ![a] = FALSE]
            /\ flag' = [flag EXCEPT ![a] = FALSE]
       ELSE /\ Goes(a, "idle") \/ Goes(a, "closing")
            /\ cur' = [cur EXCEPT ![a] = TabMsg("None")]
            /\ UNCHANGED <<started, cancelled, flag>>

\* ensure_live: the connection is as it was, or was replaced
Alive(a) ==
    /\ pc[a] = "checking" /\ Begins(a)
    /\ UNCHANGED events \/ Emit(Event("Reconnected", FALSE))
    /\ ActorOnly /\ UNCHANGED <<faults, mail, named, result>>

\* ensure_live: dead, and the replacement failed; the actor gives the tab up
Lost(a) ==
    /\ pc[a] = "checking" /\ faults < MaxFaults /\ faults' = faults + 1
    /\ Returns(a)
    /\ Emit(Event("ConnectionLost", cur[a].kind = "Run"))
    /\ ActorOnly /\ UNCHANGED <<started, result>>

\* Faulty variant: the cancel is noted but not passed on to the driver.
TakeWithoutSignal(a) ==
    /\ pc[a] = "running" /\ Ready(a) /\ Recv(a)
    /\ cancelled' = [cancelled EXCEPT
          ![a] = @ \/ NextMsg(a).kind \in {"Cancel", "Close", "None"}]
    /\ ActorOnly
    /\ UNCHANGED <<faults, pc, events, named, cur, flag, started, result>>

\* run_script's mailbox arm: a Cancel, a Close or the dropped sender cancels;
\* anything else is ignored.
TakeWhileRunning(a) ==
    /\ pc[a] = "running" /\ Ready(a) /\ Recv(a)
    /\ IF NextMsg(a).kind \in {"Cancel", "Close", "None"}
       THEN cancelled' = [cancelled EXCEPT ![a] = TRUE] /\ flag' = [flag EXCEPT ![a] = TRUE]
       ELSE UNCHANGED <<cancelled, flag>>
    /\ ActorOnly /\ UNCHANGED <<faults, pc, events, named, cur, started, result>>

Ends(a, outcome) ==
    /\ Goes(a, "ending")
    /\ result' = [result EXCEPT ![cur[a].run.id] = outcome]
    /\ ActorOnly /\ UNCHANGED <<faults, mail, events, named, cur, flag, started>>

\* The driver's Done is only heard while the mailbox has nothing to say; a
\* driver whose cancel flag is up answers that it cancelled.
DriverDone(a) ==
    /\ pc[a] = "running" /\ ~Ready(a)
    /\ cancelled' = [cancelled EXCEPT ![a] = @ \/ flag[a]]
    /\ IF cancelled[a] \/ flag[a]
       THEN Ends(a, "Cancelled")
       ELSE \E o \in {"Done", "Failed"} : Ends(a, o)

\* Between two batches the mailbox is not looked at: execute fails.
ExecuteFails(a) ==
    /\ pc[a] = "running" /\ ~cancelled[a]
    /\ Ends(a, "Failed") /\ UNCHANGED cancelled

\* RunDone; a connection the run left unusable ends the session.
Finish(a) ==
    /\ pc[a] = "ending"
    /\ Emit(RunDone(cur[a].run.id, result[cur[a].run.id]))
    /\ Goes(a, "idle") \/ Goes(a, "closing")
    /\ cur' = [cur EXCEPT ![a] = TabMsg("None")]
    /\ cancelled' = [cancelled EXCEPT ![a] = FALSE]
    /\ ActorOnly /\ UNCHANGED <<faults, mail, named, flag, started, result>>

\* Faulty variant: the actor ends and the UI does not hear of it.
ClosedSilent(a) ==
    /\ pc[a] = "closing" /\ Returns(a)
    /\ UNCHANGED events
    /\ ActorOnly /\ UNCHANGED <<faults, started, result>>

\* conn.close(), then Disconnected; messages that came meanwhile are lost
Closed(a) ==
    /\ pc[a] = "closing" /\ Returns(a)
    /\ Emit(Event("Disconnected", FALSE))
    /\ ActorOnly /\ UNCHANGED <<faults, started, result>>

-----------------------------------------------------------------------------
UserActs == PressRun \/ CancelRun \/ Connect \/ Disconnect \/ ChangeDatabase

Actor(a) ==
    \/ Opens(a) \/ OpenFails(a) \/ Take(a) \/ Alive(a) \/ Lost(a)
    \/ TakeWhileRunning(a) \/ DriverDone(a) \/ ExecuteFails(a)
    \/ Finish(a) \/ Closed(a)

Next ==
    \/ UserActs \/ ApplyEvent \/ HandleFollowup \/ Dispatch
    \/ \E a \in Actors : Actor(a)

\* Frames are drawn, tasks are polled, and connecting, pinging, closing and
\* answering a cancel are bounded by timeouts.  A query that nobody cancels
\* may run for ever, and the user need not do anything.
Fairness ==
    /\ WF_vars(ApplyEvent) /\ WF_vars(HandleFollowup) /\ WF_vars(Dispatch)
    /\ \A a \in Actors : WF_vars((pc[a] # "running" \/ Ready(a) \/ flag[a]) /\ Actor(a))

Spec == Init /\ [][Next]_vars /\ Fairness

-----------------------------------------------------------------------------
(* Properties.  Most are about sessions that do not overlap: the user did  *)
(* not connect again before the last session was wound up, nor disconnect  *)
(* under a run.  What happens when they do is in the README.               *)

\* While sessions do not overlap, a run ends as cancelled only if the user
\* cancelled that very run: a cancel that comes late, when its run is over,
\* does not hit the next run on the connection.  An overlapping session's
\* Disconnected fails the tab's run under the new session; the next press of
\* Run and its cancel then find the old run still on the connection, and the
\* cancel hits that one.
CancelHitsItsRun ==
    ~overlap => \A a \in Actors : pc[a] = "ending" /\ cancelled[a] => cur[a].run.id \in asked

\* The tab never shows a run as done or cancelled that did not end that way,
\* however late an earlier session's events arrive.
OutcomeIsReal ==
    run.state \in {"Done", "Cancelled"} => result[run.id] = run.state

\* One press of Run executes the script at most once, replays after a lost
\* connection included.
ExecutedOnce == \A i \in Intents : started[i] <= 1

ExecutedOnceApart == ~overlap => ExecutedOnce

\* No message is on its way, and no actor is opening or closing.
Settled ==
    /\ cmds = <<>> /\ events = <<>> /\ follow = <<>>
    /\ \A a \in Actors : mail[a] = <<>> /\ pc[a] \notin {"opening", "closing"}

\* When nothing is on its way the tab shows the state of its session.
SettledViewIsRight ==
    Settled /\ ~overlap => (conn = "Connected" <=> entry # 0 /\ Up(entry))

\* When nothing is on its way a run shown as running is being executed by the
\* tab's session: it was not left in the mailbox of an actor that is gone, nor
\* swallowed by one that was busy.
LiveRunIsExecuted ==
    Settled /\ ~overlap /\ IsLive(run)
        => /\ entry # 0 /\ pc[entry] \in {"checking", "running", "ending"}
           /\ cur[entry].run.id = run.id

\* A run the user cancels does not stay "Cancelling".
CancelSettles == run.state = "Cancelling" ~> (run.state # "Cancelling" \/ overlap)

-----------------------------------------------------------------------------
(* The inductive invariant.  The first part holds of all sessions.         *)

\* The bounds are enough: each Connect that waits gets an actor, and each press
\* of Run and each replay gets a run.
WithinBounds ==
    /\ born + CountOf("Connect", cmds) <= MaxActors
    /\ run.id + (IF pending = 0 THEN 0 ELSE 1) + CountOf("ConnectionLost", events) <= acts + faults

\* An actor has in hand what its step says, and a dispatcher's entry is the
\* actor born last; it is told to close only when the entry leaves it.
ActorsAsBorn ==
    /\ entry \in {0, born}
    /\ \A a \in Actors :
          /\ pc[a] = "unborn" <=> a > born
          /\ pc[a] = "checking" => cur[a].kind \in {"Run", "Use"}
          /\ pc[a] \in {"running", "ending"} => cur[a].kind = "Run"
          /\ pc[a] \notin {"checking", "running", "ending"} => cur[a].kind = "None"
          /\ \A i \in 1..Len(mail[a]) :
                /\ mail[a][i].kind # "None"
                /\ mail[a][i].kind = "Close" => entry # a

\* Every run that waits somewhere has not ended, and no two are the same one.
WaitsIn(r) == r.id <= run.id /\ result[r.id] = "none"
OneOfEach(c, m, u) ==
    /\ \A i, j \in 1..Len(c) : i # j /\ c[i].kind = "Run" /\ c[j].kind = "Run"
          => c[i].run.id # c[j].run.id
    /\ \A a \in Actors :
          /\ \A i \in 1..Len(m[a]), j \in 1..Len(c) : m[a][i].kind = "Run" /\ c[j].kind = "Run"
                => m[a][i].run.id # c[j].run.id
          /\ \A j \in 1..Len(c) : u[a].kind = "Run" /\ c[j].kind = "Run" => u[a].run.id # c[j].run.id
          /\ \A i, j \in 1..Len(m[a]) : i # j /\ m[a][i].kind = "Run" /\ m[a][j].kind = "Run"
                => m[a][i].run.id # m[a][j].run.id
    /\ \A a, b \in Actors :
          /\ \A i \in 1..Len(m[a]) : u[b].kind = "Run" /\ m[a][i].kind = "Run"
                => u[b].run.id # m[a][i].run.id
          /\ a # b => /\ u[a].kind = "Run" /\ u[b].kind = "Run" => u[a].run.id # u[b].run.id
                      /\ \A i \in 1..Len(m[a]), j \in 1..Len(m[b]) :
                            m[a][i].kind = "Run" /\ m[b][j].kind = "Run"
                                => m[a][i].run.id # m[b][j].run.id
RunsApart ==
    /\ OneOfEach(cmds, mail, cur)
    /\ \A i \in 1..Len(cmds) : cmds[i].kind = "Run" => WaitsIn(cmds[i].run)
    /\ \A a \in Actors :
          /\ \A i \in 1..Len(mail[a]) : mail[a][i].kind = "Run" => WaitsIn(mail[a][i].run)
          /\ pc[a] \in {"checking", "running"} /\ cur[a].kind = "Run" => WaitsIn(cur[a].run)
          /\ pc[a] = "ending" => cur[a].run.id <= run.id /\ result[cur[a].run.id] # "none"

\* What is told of a run is how it ended.
ToldAsEnded ==
    /\ \A i \in 1..Len(events) : events[i].kind = "RunDone"
          => /\ result[events[i].id] = events[i].outcome
             /\ \A a \in Actors : cur[a].kind = "Run" => cur[a].run.id # events[i].id
    /\ \A r \in Runs : r > run.id => result[r] = "none"
    /\ run.state = "none" <=> run.id = 0

\* A run on show is of the last press, and nothing is pending beside it.
ShownIsLast ==
    /\ IsLive(run) => pending = 0 /\ run.intent = last /\ last # 0
    /\ run.intent <= acts /\ last <= acts /\ pending <= acts

(* The second part is about sessions that do not overlap.                  *)
Free(kinds, queue) == \A i \in 1..Len(queue) : queue[i].kind \notin kinds
\* Behind each message of some kinds there is one of others.
Followed(kinds, others, queue) == \A i \in 1..Len(queue) :
    queue[i].kind \in kinds => \E j \in i + 1..Len(queue) : queue[j].kind \in others
OpenedFirst(queue) == \A i, j \in 1..Len(queue) :
    i < j /\ queue[j].kind = "Connected" => queue[i].kind \notin {"Connected", "Reconnected"}
NoneUp == \A a \in Actors : ~Up(a)
SessionUp == entry # 0 /\ Up(entry) /\ pc[entry] # "opening"

\* There is one session at a time: while a Connect waits there is none.
OneSession ==
    /\ \A a \in Actors : Up(a) => a = born
    /\ \A a \in Actors : Up(a) /\ entry # a
          => pc[a] = "closing" \/ \E i \in 1..Len(mail[a]) : mail[a][i].kind = "Close"
    /\ \A i \in 1..Len(cmds) : cmds[i].kind = "Connect"
          => /\ NoneUp
             /\ \A j \in 1..Len(cmds) : /\ cmds[j].kind = "Connect" => j = i
                                        /\ cmds[j].kind = "Disconnect" => i < j
                                        /\ cmds[j].kind = "Run" => j < i
    /\ Free({"ConnectionLost"}, events) \/ (NoneUp /\ Free({"Connect"}, cmds))

\* Until a session is open nothing says it is; once it is, nothing but what was
\* sent before says it is not; and when it is over, its end is the last word.
Waiting == ~Free({"Connect"}, cmds) \/ \E a \in Actors : pc[a] = "opening"
NewsInOrder ==
    /\ Waiting => conn # "Connected" /\ Free({"Connected", "Reconnected"}, events)
    /\ SessionUp => /\ Followed(SessionEnds \cup {"NotConnected"}, {"Connected"}, events)
                    /\ OpenedFirst(events)
                    /\ Free({"Connected"}, events) \/ conn # "Connected"
    /\ SessionUp /\ Free({"Connected"}, events) /\ Free({"Disconnect"}, cmds)
          => conn = "Connected"
    /\ NoneUp => /\ Followed({"Connected", "Reconnected"}, SessionEnds, events)
                 /\ Free(SessionEnds, events) => conn # "Connected"

\* The session works on the run that is shown as live, and on no other.
OnIt(r) == /\ IsLive(run) /\ r = [id |-> run.id, intent |-> run.intent]
           /\ SessionUp /\ Free({"Connected"}, events)
Heard(i) == entry # 0 /\ Up(entry) /\ \A j \in 1..i - 1 : cmds[j].kind # "Disconnect"
WorksOnShown ==
    /\ \A i \in 1..Len(cmds) : cmds[i].kind = "Run" /\ Heard(i)
          => OnIt(cmds[i].run) /\ Free({"Disconnect"}, cmds) /\ started[run.intent] = 0
    /\ \A a \in Actors :
          /\ \A i \in 1..Len(mail[a]) : mail[a][i].kind = "Run"
                => /\ OnIt(mail[a][i].run) /\ entry = a /\ Free({"Disconnect"}, cmds)
                   /\ started[run.intent] = 0
          /\ cur[a].kind = "Run"
                => /\ OnIt(cur[a].run) /\ entry = a /\ Free({"Disconnect"}, cmds)
                   /\ pc[a] = "checking" => started[run.intent] = 0

\* A cancel that the run on show could hear is meant for it.
InHand == \E a \in Actors : cur[a].kind = "Run"
Ahead == \E a \in Actors : \E i \in 1..Len(mail[a]) : mail[a][i].kind = "Run"
CancelIsMeant ==
    /\ \A i \in 1..Len(cmds) : cmds[i].kind = "Cancel"
          => \/ run.id \in asked
             \/ ~InHand /\ ~Ahead /\ \A j \in 1..i - 1 : cmds[j].kind = "Run" => ~Heard(j)
    /\ \A a \in Actors :
          /\ \A i \in 1..Len(mail[a]) : mail[a][i].kind = "Cancel"
                => \/ run.id \in asked
                   \/ ~InHand /\ \A j \in 1..i - 1 : mail[a][j].kind # "Run"
          /\ pc[a] \in {"running", "ending"} /\ (cancelled[a] \/ flag[a]) => run.id \in asked

\* What may still be executed was not.
ExecutesOnce ==
    /\ \A i \in Intents : started[i] <= 1 /\ (i > acts => started[i] = 0)
    /\ pending # 0 => started[pending] = 0
    /\ IsLive(run) /\ (\E i \in 1..Len(events) : events[i].kind = "ConnectionLost" /\ events[i].arg)
          => started[last] = 0

\* A run that is live has not been lost on the way.
IsRunFor(m, id) == m.kind = "Run" /\ m.run.id = id
LiveIsUnderWay ==
    IsLive(run) =>
        \/ \E i \in 1..Len(cmds) : IsRunFor(cmds[i], run.id)
        \/ \E a \in Actors : \/ IsRunFor(cur[a], run.id)
                             \/ \E i \in 1..Len(mail[a]) : IsRunFor(mail[a][i], run.id)
        \/ \E i \in 1..Len(events) :
              \/ events[i].kind \in {"Disconnected", "ConnectionLost", "NotConnected"}
              \/ events[i].kind = "RunDone" /\ events[i].id = run.id

Apart == OneSession /\ NewsInOrder /\ WorksOnShown /\ CancelIsMeant /\ ExecutesOnce /\ LiveIsUnderWay

IInv ==
    /\ TypeOK /\ WithinBounds /\ ActorsAsBorn /\ RunsApart /\ ToldAsEnded /\ ShownIsLast
    /\ OutcomeIsReal
    /\ ~overlap => Apart
=============================================================================
