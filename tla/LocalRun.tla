------------------------------- MODULE LocalRun -------------------------------
(***************************************************************************)
(* A run on a Local tab: run_on, cancel and fetch_more of                  *)
(* cobalt-app/src/localq.rs.  There is no mailbox here: the user interface *)
(* sets the cancel flag or the `more` slot and wakes the task through a    *)
(* Notify, which keeps one permit when nobody waits.                       *)
(*                                                                         *)
(* Abstracted: plans, the rewriting of names, messages.  A statement makes *)
(* at most MaxRows rows in batches of at most MaxChunk.                    *)
(***************************************************************************)
EXTENDS Naturals, Sequences

CONSTANTS Statements, MaxRows, MaxChunk,
          RowCap, U64Max,
          More,       \* what fetch_more asks for: rows, or U64Max for the rest
          MaxAsks     \* bound: presses of "fetch more"

VARIABLES cancel, more, permit,   \* LocalRun: the flags the task watches
          view,       \* RunView.state: "Running", "Paused", "Cancelling", "Over"
          events,     \* what the task told and the user interface has not read
          asks,
          \* the task
          pc,         \* "ready", "next", "pull", "pausing", "waiting", "close", "over"
          statement, rows, cap,
          pending,    \* rows of the batch cut at the cap
          set,        \* RunState of the open set, "none" between sets
          sent,       \* rows the engine has produced for the set
          cancelled, failed, outcome

uiVars == <<view, asks>>
flags == <<cancel, more, permit>>
taskVars == <<pc, statement, rows, cap, pending, set, sent, cancelled, failed, outcome>>
vars == <<flags, uiVars, events, taskVars>>

NoMore == 0

TypeOK ==
    /\ cancel \in BOOLEAN /\ more \in More \cup {NoMore} /\ permit \in BOOLEAN
    /\ view \in {"Running", "Paused", "Cancelling", "Over"} /\ asks \in 0..MaxAsks
    /\ events \in Seq({"Paused", "RunDone"})
    /\ pc \in {"ready", "next", "pull", "pausing", "waiting", "close", "over"}
    /\ statement \in 0..Statements /\ rows \in 0..MaxRows /\ cap \in rows..U64Max
    /\ pending \in 0..MaxRows /\ sent \in 0..MaxRows
    /\ set \in {"none", "Streaming", "Paused"}
    /\ cancelled \in BOOLEAN /\ failed \in BOOLEAN
    /\ outcome \in {"none", "done", "failed", "cancelled"}

Init ==
    /\ cancel = FALSE /\ more = NoMore /\ permit = FALSE
    /\ view = "Running" /\ asks = 0 /\ events = <<>>
    /\ pc = "ready" /\ statement = 0 /\ rows = 0 /\ cap \in {RowCap, U64Max}
    /\ pending = 0 /\ set = "none" /\ sent = 0
    /\ cancelled = FALSE /\ failed = FALSE /\ outcome = "none"

-----------------------------------------------------------------------------
(* The user interface                                                      *)

\* notify_one: the permit is kept for a task that is not waiting yet, which
\* notify_waiters would not do
NotifyWaiters == permit' = (permit \/ pc = "waiting")
Notify == permit' = TRUE

\* localq::cancel
Cancel ==
    /\ view \in {"Running", "Paused"}
    /\ view' = "Cancelling" /\ cancel' = TRUE /\ Notify
    /\ UNCHANGED <<more, asks, events, taskVars>>

\* localq::fetch_more; the button is there while the set is shown as paused
FetchMore(n) ==
    /\ view = "Paused" /\ asks < MaxAsks
    /\ view' = "Running" /\ more' = n /\ Notify /\ asks' = asks + 1
    /\ UNCHANGED <<cancel, events, taskVars>>

\* Event::Paused and Event::RunDone in apply_event
Reads ==
    /\ events # <<>>
    /\ events' = Tail(events)
    /\ view' = (IF Head(events) = "Paused" THEN "Paused" ELSE "Over")
    /\ UNCHANGED <<flags, asks, taskVars>>

-----------------------------------------------------------------------------
(* The task                                                                *)

Start ==
    /\ pc = "ready" /\ pc' = "next"
    /\ UNCHANGED <<flags, uiVars, events, statement, rows, cap, pending, set, sent,
                   cancelled, failed, outcome>>

\* the top of the loop over the statements
SeesCancelBetween ==
    /\ pc = "next" /\ cancel /\ statement < Statements /\ ~failed /\ ~cancelled
    /\ cancelled' = TRUE
    /\ UNCHANGED <<flags, uiVars, events, pc, statement, rows, cap, pending, set, sent,
                   failed, outcome>>

Finish ==
    /\ pc = "next" /\ (statement = Statements \/ failed \/ cancelled)
    /\ pc' = "over" /\ events' = Append(events, "RunDone")
    /\ outcome' = (IF cancelled THEN "cancelled" ELSE IF failed THEN "failed" ELSE "done")
    /\ UNCHANGED <<flags, uiVars, statement, rows, cap, pending, set, sent, cancelled, failed>>

\* engine.sql: a set, or an error before there is one
Statement ==
    /\ pc = "next" /\ statement < Statements /\ ~cancel /\ ~failed /\ ~cancelled
    /\ statement' = statement + 1
    /\ \/ /\ pc' = "pull" /\ set' = "Streaming" /\ rows' = 0 /\ sent' = 0 /\ pending' = 0
          /\ UNCHANGED failed
       \/ failed' = TRUE /\ UNCHANGED <<pc, set, rows, sent, pending>>
    /\ UNCHANGED <<flags, uiVars, events, cap, cancelled, outcome>>

\* what the task looks at next: the rest of a cut batch, or n rows of the stream
Batch(n) == IF pending > 0 THEN n = pending ELSE sent + n <= MaxRows

\* a batch is taken whole, and the cap looked at afterwards
RowsPastCap(n) ==
    /\ pc = "pull" /\ ~cancel /\ Batch(n) /\ rows' = rows + n /\ sent' = sent + n
    /\ IF rows + n >= cap
       THEN pc' = "pausing" /\ set' = "Paused" /\ events' = Append(events, "Paused")
       ELSE UNCHANGED <<pc, set, events>>
    /\ UNCHANGED <<flags, uiVars, statement, cap, pending, cancelled, failed, outcome>>

\* stop exactly at the cap; the remainder waits for "fetch more"
Rows(n) ==
    /\ pc = "pull" /\ ~cancel /\ Batch(n)
    /\ LET take == IF rows + n > cap THEN cap - rows ELSE n
       IN /\ rows' = rows + take /\ pending' = n - take
          /\ sent' = (IF pending > 0 THEN sent ELSE sent + n)
          /\ IF rows + take >= cap
             THEN pc' = "pausing" /\ set' = "Paused" /\ events' = Append(events, "Paused")
             ELSE UNCHANGED <<pc, set, events>>
    /\ UNCHANGED <<flags, uiVars, statement, cap, cancelled, failed, outcome>>

\* the end of the stream, which is only reached without a cut batch
EndOfStream ==
    /\ pc = "pull" /\ pending = 0 /\ pc' = "close"
    /\ UNCHANGED <<flags, uiVars, events, statement, rows, cap, pending, set, sent,
                   cancelled, failed, outcome>>

\* an item that is an error, cannot be converted or cannot be appended; the start of
\* the stream is not preceded by a look at the flag
StreamFails ==
    /\ pc = "pull" /\ (cancel => sent = 0)
    /\ pc' = "close" /\ failed' = TRUE
    /\ UNCHANGED <<flags, uiVars, events, statement, rows, cap, pending, set, sent,
                   cancelled, outcome>>

SeesCancel ==
    /\ pc = "pull" /\ cancel
    /\ pc' = "close" /\ cancelled' = TRUE
    /\ UNCHANGED <<flags, uiVars, events, statement, rows, cap, pending, set, sent,
                   failed, outcome>>

\* the loop reaches notified().await
Waits ==
    /\ pc = "pausing" /\ pc' = "waiting"
    /\ UNCHANGED <<flags, uiVars, events, statement, rows, cap, pending, set, sent,
                   cancelled, failed, outcome>>

\* the set at the cap is left on a cancel without a note of it
WakesForgetsCancel ==
    /\ pc = "waiting" /\ permit
    /\ permit' = FALSE
    /\ \/ cancel /\ pc' = "close" /\ UNCHANGED <<more, cap, set>>
       \/ /\ ~cancel /\ more # NoMore
          /\ cap' = (IF more = U64Max THEN U64Max ELSE rows + more) /\ more' = NoMore
          /\ pc' = "pull" /\ set' = "Streaming"
       \/ ~cancel /\ more = NoMore /\ UNCHANGED <<pc, more, cap, set>>
    /\ UNCHANGED <<cancel, uiVars, events, statement, rows, pending, sent, cancelled, failed, outcome>>

\* notified().await, then the cancel flag before the slot
Wakes ==
    /\ pc = "waiting" /\ permit
    /\ permit' = FALSE
    /\ \/ /\ cancel /\ pc' = "close" /\ cancelled' = TRUE
          /\ UNCHANGED <<more, cap, set>>
       \/ /\ ~cancel /\ more # NoMore
          /\ cap' = (IF more = U64Max THEN U64Max ELSE rows + more) /\ more' = NoMore
          /\ pc' = "pull" /\ set' = "Streaming" /\ UNCHANGED cancelled
       \/ ~cancel /\ more = NoMore /\ UNCHANGED <<pc, more, cap, set, cancelled>>
    /\ UNCHANGED <<cancel, uiVars, events, statement, rows, pending, sent, failed, outcome>>

\* rs.set_state, ResultSetDone, BatchDone
Close ==
    /\ pc = "close" /\ pc' = "next" /\ set' = "none" /\ pending' = 0
    /\ UNCHANGED <<flags, uiVars, events, statement, rows, cap, sent, cancelled, failed, outcome>>

Task == \/ Start \/ SeesCancelBetween \/ Finish \/ Statement \/ EndOfStream \/ StreamFails \/ SeesCancel
        \/ Waits \/ Wakes \/ Close
        \/ \E n \in 1..MaxRows : (n <= MaxChunk \/ n = pending) /\ Rows(n)

Next == Cancel \/ Reads \/ Task \/ \E n \in More : FetchMore(n)

\* the task is polled when it can run, and the user interface reads its events
Spec == Init /\ [][Next]_vars /\ WF_vars(Task) /\ WF_vars(Reads)

-----------------------------------------------------------------------------
(* Properties                                                              *)

\* A cut batch is neither lost nor shown twice, and a set that ends by itself
\* has every row the engine produced (localq.rs:632).
LocalRowsConserved ==
    /\ set # "none" => rows + pending = sent
    /\ pc = "next" /\ ~failed /\ ~cancelled => rows = sent

\* A press of Cancel or "fetch more" always gets the waiting task going, also
\* when it comes before the task waits or while another wake-up is pending
\* (localq.rs:649).
RequestsWake ==
    (pc \in {"pausing", "waiting"} /\ (cancel \/ more # NoMore)) ~> (pc \notin {"pausing", "waiting"})

\* A Local run keeps the contract of a run: rows are only added to an open set
\* that is not paused, none after the cancel, one outcome at the end.
Contract == INSTANCE RunContract WITH
    phase <- CASE pc = "ready" -> "ready" [] pc = "over" -> "over" [] OTHER -> "running",
    shown <- rows,
    cancelling <- cancelled

LocalRunsAsPromised == Contract!ContractSpec

-----------------------------------------------------------------------------
(* The inductive invariant                                                 *)

\* Where the task is tells whether a set is open, and whether it waits.
SetAtStep ==
    /\ pc \in {"ready", "next", "over"} => set = "none" /\ pending = 0
    /\ pc = "pull" => set = "Streaming" /\ ~cancelled
    /\ pc \in {"pausing", "waiting"} => set = "Paused" /\ ~cancelled
    /\ pc = "close" => set # "none" /\ (set = "Paused" => cancelled)
    /\ pc = "close" /\ ~failed /\ ~cancelled => pending = 0
    /\ pc = "ready" => ~cancelled /\ rows = sent
    /\ pc # "over" => outcome = "none"

IInv == TypeOK /\ SetAtStep /\ LocalRowsConserved
=============================================================================
