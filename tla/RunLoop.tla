------------------------------- MODULE RunLoop -------------------------------
(***************************************************************************)
(* run_script of cobalt-app/src/session/actor.rs for a run whose results   *)
(* go to the grid: the loop over the batches and, inside a batch, the      *)
(* biased select! between the tab's mailbox and the driver's stream, with  *)
(* the row cap, the rows held back past it, FetchMore and Cancel.  (Runs   *)
(* with a sink, "Run to File", are the subject of RunExport.)              *)
(*                                                                         *)
(* The driver is ItemStream.  A set's rows are counted, not stored; the    *)
(* Message and RowsAffected items pass through and change nothing here.    *)
(***************************************************************************)
EXTENDS Naturals, Sequences

CONSTANTS MaxSets, MaxRows, MaxChunk,  \* bounds of one batch, see ItemStream
          Batches,    \* number of batches split_batches made of the script
          RowCap,     \* ExecOptions::row_cap, 0 = no cap
          U64Max,     \* u64::MAX, the cap of a run without one
          Fetches,    \* what FetchMore may ask for; U64Max stands for None
          MaxPosts    \* bound: messages posted to the mailbox

VARIABLES mail,      \* TabMsg queue of the actor
          posts,     \* messages posted so far
          gone,      \* the dispatcher dropped its sender
          pc,        \* "ready", "batch" (before execute), "poll", "over"
          batch,     \* batches executed
          set,       \* `current`: "none", or the RunState of the open set
          rows,      \* rows_in_set
          held,      \* rows held back past the cap
          cap,
          cancelled,
          outcome    \* what RunDone reported

\* the driver's stream
VARIABLES open, sent, sets, told, ended, signal

S == INSTANCE ItemStream

mailVars == <<mail, posts, gone>>
loopVars == <<pc, batch, set, rows, held, cap, cancelled, outcome>>
streamVars == <<open, sent, sets, told, ended, signal>>
vars == <<mailVars, loopVars, streamVars>>

-----------------------------------------------------------------------------
Cancel == [kind |-> "Cancel", rows |-> 0]
Close == [kind |-> "Close", rows |-> 0]
\* Run, Import, ChangeDatabase, SimulateLost
Other == [kind |-> "Other", rows |-> 0]
FetchMore(r) == [kind |-> "FetchMore", rows |-> r]

TabMsg == {Cancel, Close, Other} \cup {FetchMore(r) : r \in Fetches}

InitialCap == IF RowCap = 0 THEN U64Max ELSE RowCap

TypeOK ==
    /\ mail \in Seq(TabMsg) /\ posts \in 0..MaxPosts /\ gone \in BOOLEAN
    /\ pc \in {"ready", "batch", "poll", "over"}
    /\ batch \in 0..Batches
    /\ set \in {"none", "Streaming", "Paused"}
    /\ rows \in 0..MaxRows /\ held \in 0..MaxRows
    /\ cap \in Nat
    /\ cancelled \in BOOLEAN
    /\ outcome \in {"none", "done", "failed", "cancelled"}
    /\ S!StreamTypeOK

Init ==
    /\ mail = <<>> /\ posts = 0 /\ gone = FALSE
    /\ pc = "ready" /\ batch = 0 /\ outcome = "none"
    /\ set = "none" /\ rows = 0 /\ held = 0 /\ cap = InitialCap
    /\ cancelled = FALSE
    /\ S!Fresh

-----------------------------------------------------------------------------
(* The mailbox.  The dispatcher drops the sender right after a Close.      *)

Post(m) ==
    /\ ~gone /\ pc # "over" /\ posts < MaxPosts
    /\ mail' = Append(mail, m) /\ posts' = posts + 1
    /\ gone' = (m = Close)
    /\ UNCHANGED <<loopVars, streamVars>>

\* rx.recv() is ready: with a message, or with None once the sender is gone.
Ready == mail # <<>> \/ gone
Stops == IF mail = <<>> THEN gone ELSE Head(mail) \in {Cancel, Close}
Recv == /\ mail' = (IF mail = <<>> THEN mail ELSE Tail(mail))
        /\ UNCHANGED <<posts, gone>>

\* Faulty variant: the stream is read on while the set waits at its cap.
PollsAtCap == pc = "poll" /\ ~Ready

\* The stream arm is polled only when the mailbox has nothing (`biased`; tokio's
\* select! yields before its first arm when the task's budget is used up), and
\* not while the open set is at its cap.
Polls == pc = "poll" /\ ~Ready /\ (rows < cap \/ set = "none")

-----------------------------------------------------------------------------
(* Batches                                                                 *)

Start ==
    /\ pc = "ready" /\ pc' = "batch"
    /\ signal' = FALSE
    /\ UNCHANGED <<mailVars, batch, set, rows, held, cap, cancelled, outcome,
                   open, sent, sets, told, ended>>

ExecuteOk ==
    /\ pc = "batch" /\ batch < Batches
    /\ pc' = "poll" /\ batch' = batch + 1
    /\ set' = "none" /\ rows' = 0 /\ held' = 0 /\ cap' = InitialCap
    /\ open' = FALSE /\ sent' = 0 /\ sets' = 0 /\ told' = FALSE
    /\ ended' = FALSE /\ signal' = FALSE
    /\ UNCHANGED <<mailVars, cancelled, outcome>>

RunDone(o) == pc' = "over" /\ outcome' = o

\* execute() itself fails: a server error ends the loop, any other error
\* returns at once.  Either way the run is reported failed.
ExecuteErr ==
    /\ pc = "batch" /\ batch < Batches
    /\ batch' = batch + 1
    /\ RunDone("failed")
    /\ UNCHANGED <<mailVars, set, rows, held, cap, cancelled, streamVars>>

AllDone ==
    /\ pc = "batch" /\ batch = Batches
    /\ RunDone("done")
    /\ UNCHANGED <<mailVars, batch, set, rows, held, cap, cancelled, streamVars>>

-----------------------------------------------------------------------------
(* Faulty variants of the steps below: each breaks one of the properties.  *)

\* Faulty variant: the remainder past the cap survives the cancel.
CancelKeepsHeld ==
    /\ pc = "poll" /\ Stops /\ Recv /\ S!Cancel
    /\ cancelled' = TRUE /\ cap' = U64Max
    /\ UNCHANGED <<pc, batch, set, rows, held, outcome>>

\* Faulty variant: the cap is not lifted for a cancelled run.
CancelKeepsCap ==
    /\ pc = "poll" /\ Stops /\ Recv /\ S!Cancel
    /\ cancelled' = TRUE /\ held' = 0
    /\ UNCHANGED <<pc, batch, set, rows, cap, outcome>>

\* Faulty variants: the rows past the cap are dropped; the cap is noticed one
\* row late; the room under the cap is taken to be the whole cap.
OnRowsDropsRest(n) ==
    /\ Polls /\ ~cancelled /\ S!Rows(n)
    /\ rows' = (IF rows + n > cap THEN cap ELSE rows + n)
    /\ set' = (IF rows' >= cap THEN "Paused" ELSE set)
    /\ UNCHANGED <<mailVars, pc, batch, held, cap, cancelled, outcome>>

OnRowsLateCap(n) ==
    /\ Polls /\ ~cancelled /\ S!Rows(n)
    /\ held' = (IF rows + n > cap THEN rows + n - cap ELSE held)
    /\ rows' = (IF rows + n > cap THEN cap ELSE rows + n)
    /\ set' = (IF rows' > cap THEN "Paused" ELSE set)
    /\ UNCHANGED <<mailVars, pc, batch, cap, cancelled, outcome>>

OnRowsWholeCap(n) ==
    /\ Polls /\ ~cancelled /\ S!Rows(n)
    /\ held' = (IF rows + n > cap THEN n - cap ELSE held)
    /\ rows' = (IF rows + n > cap THEN rows + cap ELSE rows + n)
    /\ set' = (IF rows' >= cap THEN "Paused" ELSE set)
    /\ UNCHANGED <<mailVars, pc, batch, cap, cancelled, outcome>>

\* Faulty variant: the set left open is not closed with the batch.
OnDoneLeavesSet(error, c) ==
    /\ Polls /\ S!Done(error, c)
    /\ cancelled' = (cancelled \/ c)
    /\ CASE cancelled \/ c -> RunDone("cancelled")
         [] ~(cancelled \/ c) /\ error -> RunDone("failed")
         [] OTHER -> pc' = "batch" /\ UNCHANGED outcome
    /\ UNCHANGED <<mailVars, batch, set, rows, held, cap>>

-----------------------------------------------------------------------------
(* The mailbox arm of the select!                                          *)

TakeCancel ==
    /\ pc = "poll" /\ Stops
    /\ Recv
    /\ S!Cancel
    /\ cancelled' = TRUE /\ held' = 0 /\ cap' = U64Max
    /\ UNCHANGED <<pc, batch, set, rows, outcome>>

\* The rows of `held` that fit under the new cap are appended at once.
TakeFetchMore ==
    /\ pc = "poll" /\ mail # <<>> /\ Head(mail).kind = "FetchMore"
    /\ Recv
    /\ LET r == Head(mail).rows
           newCap == IF r = U64Max THEN U64Max ELSE rows + r
           take == IF held <= newCap - rows THEN held ELSE newCap - rows
       IN /\ cap' = newCap
          /\ IF set = "none"
             THEN UNCHANGED <<set, rows, held>>
             ELSE /\ rows' = rows + take
                  /\ held' = held - take
                  /\ set' = IF held > 0 /\ rows + take >= newCap
                            THEN "Paused" ELSE "Streaming"
    /\ UNCHANGED <<pc, batch, cancelled, outcome, streamVars>>

TakeOther ==
    /\ pc = "poll" /\ mail # <<>> /\ Head(mail) = Other
    /\ Recv
    /\ UNCHANGED <<loopVars, streamVars>>

-----------------------------------------------------------------------------
(* The stream arm                                                          *)

OnResultSetStart ==
    /\ Polls /\ S!ResultSetStart
    /\ set' = "Streaming" /\ rows' = 0 /\ cap' = InitialCap
    /\ UNCHANGED <<mailVars, pc, batch, held, cancelled, outcome>>

\* rows still in flight after a cancel are discarded
OnRowsDiscarded(n) ==
    /\ Polls /\ cancelled /\ S!Rows(n)
    /\ UNCHANGED <<mailVars, loopVars>>

OnRows(n) ==
    /\ Polls /\ ~cancelled /\ S!Rows(n)
    /\ LET over == rows + n > cap
           take == IF over THEN cap - rows ELSE n
       IN /\ held' = IF over THEN n - take ELSE held
          /\ rows' = rows + take
          /\ set' = IF rows + take >= cap THEN "Paused" ELSE set
    /\ UNCHANGED <<mailVars, pc, batch, cap, cancelled, outcome>>

\* the remainder held past the cap is appended, then the set is complete
OnResultSetEnd(n) ==
    /\ Polls /\ S!ResultSetEnd(n)
    /\ rows' = rows + held /\ held' = 0
    /\ set' = "none"
    /\ UNCHANGED <<mailVars, pc, batch, cap, cancelled, outcome>>

OnMessage(isError) ==
    /\ Polls /\ (S!Message(isError) \/ S!RowsAffected)
    /\ UNCHANGED <<mailVars, loopVars>>

\* A set still open is closed as it is; then BatchDone, and RunDone when the
\* run is cancelled or the batch failed (stop_on_error is always set).  A stream
\* that ends without Done (a driver's worker that panicked, actor.rs:361) goes on as
\* after Done(FALSE, FALSE), but leaves the open set Streaming in the grid.
OnDone(error, c) ==
    /\ Polls /\ S!Done(error, c)
    /\ set' = "none" /\ held' = 0
    /\ cancelled' = (cancelled \/ c)
    /\ CASE cancelled \/ c -> RunDone("cancelled")
         [] ~(cancelled \/ c) /\ error -> RunDone("failed")
         [] OTHER -> pc' = "batch" /\ UNCHANGED outcome
    /\ UNCHANGED <<mailVars, batch, rows, cap>>

-----------------------------------------------------------------------------
TakesMail == TakeCancel \/ TakeFetchMore \/ TakeOther

Receives ==
    \/ OnResultSetStart
    \/ \E n \in 1..MaxChunk : OnRowsDiscarded(n) \/ OnRows(n)
    \/ \E n \in 0..MaxRows : OnResultSetEnd(n)
    \/ \E isError \in BOOLEAN : OnMessage(isError)
    \/ \E error, c \in BOOLEAN : OnDone(error, c)

Next ==
    \/ \E m \in TabMsg : Post(m)
    \/ Start \/ ExecuteOk \/ ExecuteErr \/ AllDone
    \/ TakesMail \/ Receives

\* tokio polls a task that can run, and a driver answers a cancel (its wait
\* for the acknowledgement has a timeout).  Nothing is assumed of a server
\* that was not asked to stop, nor of the user.
Fairness == WF_vars(TakesMail) /\ WF_vars(signal /\ Receives)

Spec == Init /\ [][Next]_vars /\ Fairness

-----------------------------------------------------------------------------
(* Properties                                                              *)

\* No row is lost or shown twice on the way through the cap: what the driver
\* delivered for the open set is either in the grid or held back, whatever
\* sequence of FetchMore requests cut it up.  (`held` is one slot that a new
\* Rows item overwrites.)
RowsConserved == set # "none" /\ ~cancelled => rows + held = sent

\* The grid offers "fetch more" exactly when the loop has stopped reading: a
\* set at its cap that did not say Paused would leave the run stuck with no
\* way on, and a set that said Paused below its cap would keep growing.
PausedIffBlocked ==
    pc = "poll" /\ set # "none" /\ ~cancelled
        => (set = "Paused" <=> rows >= cap)

\* A set is only ever completed with everything the driver delivered for it,
\* unless the run was cancelled: rows still held back are not dropped.
ClosedWithAllRows ==
    [][set # "none" /\ set' = "none" /\ ~cancelled' => rows' = sent']_vars

\* Once the loop has taken a cancel no row reaches the grid any more, even
\* when a FetchMore follows it in the mailbox.
NothingShownAfterCancel ==
    [][cancelled => rows' <= rows]_vars

\* Why the two hold: rows are held back only by a set that waits at its cap,
\* which the loop does not read past, and a cancel gives them up; outside the
\* polling of a batch no set is open and nothing is held.
HeldOnlyWaiting == held > 0 => set = "Paused" /\ ~cancelled

SetFollowsStream ==
    /\ pc = "poll" => /\ set # "none" <=> open
                      /\ ~ended
                      /\ signal <=> cancelled
    /\ pc # "poll" => set = "none" /\ held = 0
    /\ pc \in {"ready", "batch"} => ~cancelled /\ outcome = "none"
    /\ pc = "poll" => outcome = "none"
    /\ pc = "ready" => rows = 0

IInv == /\ TypeOK /\ RowsConserved /\ PausedIffBlocked
        /\ HeldOnlyWaiting /\ SetFollowsStream

\* The comment in run_script on the cap guard: a cancel always gets the run
\* to its end, also when it was waiting at the row cap.
CancelEnds ==
    (pc = "poll" /\ ~gone /\ \E i \in DOMAIN mail : mail[i] = Cancel)
        ~> (pc = "over" \/ gone)

\* The same comment of a Close: a tab that is disconnected or closed while a
\* run streams "keeps draining until the driver acknowledges".
CloseEnds == (pc = "poll" /\ gone) ~> (pc = "over")

\* The loop implements the contract of a run.
Contract == INSTANCE RunContract WITH
    phase <- CASE pc = "ready" -> "ready" [] pc = "over" -> "over"
               [] OTHER -> "running",
    shown <- rows,
    cancelling <- cancelled

RunsAsPromised == Contract!ContractSpec
=============================================================================
