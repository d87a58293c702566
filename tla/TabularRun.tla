------------------------------ MODULE TabularRun ------------------------------
(***************************************************************************)
(* A run of a DAX tab: run_tabular and sink_push of                        *)
(* cobalt-app/src/session/tabular.rs, the cancel flag the dispatcher keeps *)
(* for it (session/mod.rs) and Run and Cancel of the tab (tabularq.rs).    *)
(* Each wait is a biased select! that looks at the flag first.  A run to a *)
(* file also pushes every item into the writer's bounded channel.          *)
(*                                                                         *)
(* Abstracted: transports, sign-in, the text of errors; a batch is one row.*)
(***************************************************************************)
EXTENDS Naturals, Sequences

CONSTANTS MaxItems,   \* bound: items the model answers with
          Preview,    \* rows of a file's set that are also shown
          SinkRoom    \* capacity of the writer's channel

VARIABLES view,       \* RunView.state, with "NotConnected" for the Failed of that event
          events,     \* "RunDone", "NotConnected": told and not read
          flag,       \* the watch channel: TRUE once a cancel was sent
          \* the task
          at,         \* "ready", "connect", "execute", "next", "push", "close", "end", "over"
          current,    \* a set is open: "none", "Streaming"
          shown, rowsInSet, items,
          pushing,    \* the item that waits for room: "none" without one
          stopped, failed, outcome,
          \* the writer of the file
          sink,       \* the run goes to a file
          queue, writer,   \* "up", "gone"
          fileEnd     \* how the writer was told the run ended: "none", "Failed", "RunEnd"

ui == <<view, events, flag>>
file == <<queue, writer, fileEnd>>
tabularVars == <<ui, at, current, shown, rowsInSet, items, pushing, stopped, failed, outcome, sink, file>>

\* what goes to the writer: the items of the answer, and how the run ended
Messages == {"SetStart", "Batch", "SetEnd", "Failed", "RunEnd"}

TypeOK ==
    /\ view \in {"Running", "Cancelling", "Over", "NotConnected"} /\ flag \in BOOLEAN
    /\ events \in Seq({"RunDone", "NotConnected"})
    /\ at \in {"ready", "connect", "execute", "next", "push", "close", "end", "over"}
    /\ current \in {"none", "Streaming"} /\ shown \in 0..rowsInSet /\ rowsInSet \in 0..items
    /\ items \in 0..MaxItems /\ pushing \in {"none", "SetStart", "Batch", "SetEnd"}
    /\ stopped \in BOOLEAN /\ failed \in BOOLEAN /\ sink \in BOOLEAN
    /\ outcome \in {"none", "done", "failed", "cancelled"}
    /\ queue \in Seq(Messages) /\ Len(queue) <= SinkRoom
    /\ writer \in {"up", "gone"} /\ fileEnd \in {"none", "Failed", "RunEnd"}

Init ==
    /\ view = "Running" /\ events = <<>> /\ flag = FALSE
    /\ at = "ready" /\ current = "none" /\ shown = 0 /\ rowsInSet = 0 /\ items = 0
    /\ pushing = "none" /\ stopped = FALSE /\ failed = FALSE /\ outcome = "none"
    /\ sink \in BOOLEAN /\ queue = <<>> /\ writer = "up" /\ fileEnd = "none"

-----------------------------------------------------------------------------
(* The tab, the dispatcher and the writer                                  *)

\* tabularq::cancel; the dispatcher sends a cancel for a run that is over to the
\* actor of the tab, which a DAX tab has none of
Cancel ==
    /\ view = "Running" /\ view' = "Cancelling"
    /\ IF at = "over" THEN events' = Append(events, "NotConnected") /\ UNCHANGED flag
                      ELSE flag' = TRUE /\ UNCHANGED events
    /\ UNCHANGED <<at, current, shown, rowsInSet, items, pushing, stopped, failed, outcome, sink, file>>

\* Event::RunDone and Event::NotConnected
ReadsEvent ==
    /\ events # <<>> /\ events' = Tail(events)
    /\ view' = (IF Head(events) = "RunDone" THEN "Over" ELSE "NotConnected")
    /\ UNCHANGED <<flag, at, current, shown, rowsInSet, items, pushing, stopped, failed, outcome, sink, file>>

Writes ==
    /\ writer = "up" /\ queue # <<>> /\ queue' = Tail(queue)
    /\ fileEnd' = (IF fileEnd = "none" /\ Head(queue) \in {"Failed", "RunEnd"} THEN Head(queue) ELSE fileEnd)
    /\ UNCHANGED <<ui, at, current, shown, rowsInSet, items, pushing, stopped, failed, outcome, sink, writer>>

\* the disk is full, say
WriterFails ==
    /\ sink /\ writer = "up" /\ writer' = "gone"
    /\ UNCHANGED <<ui, at, current, shown, rowsInSet, items, pushing, stopped, failed, outcome, sink, queue, fileEnd>>

-----------------------------------------------------------------------------
(* The task                                                                *)

Start ==
    /\ at = "ready" /\ at' = "connect"
    /\ UNCHANGED <<ui, current, shown, rowsInSet, items, pushing, stopped, failed, outcome, sink, file>>

\* connect, then execute: the flag first, then the answer or its error
Opens ==
    /\ at \in {"connect", "execute"}
    /\ \/ flag /\ stopped' = TRUE /\ at' = "end" /\ UNCHANGED failed
       \/ ~flag /\ at' = (IF at = "connect" THEN "execute" ELSE "next") /\ UNCHANGED <<stopped, failed>>
       \/ ~flag /\ failed' = TRUE /\ at' = "end" /\ UNCHANGED stopped
    /\ UNCHANGED <<ui, current, shown, rowsInSet, items, pushing, outcome, sink, file>>

SeesCancel ==
    /\ at = "next" /\ flag
    /\ stopped' = TRUE /\ at' = "close"
    /\ UNCHANGED <<ui, current, shown, rowsInSet, items, pushing, failed, outcome, sink, file>>

\* what an item does once the writer, if there is one, has it
Took(item) ==
    /\ pushing' = "none" /\ at' = "next"
    /\ CASE item = "SetStart" -> current' = "Streaming" /\ shown' = 0 /\ rowsInSet' = 0
         [] item = "Batch" -> /\ rowsInSet' = rowsInSet + 1 /\ UNCHANGED current
                              /\ shown' = (IF sink /\ rowsInSet >= Preview THEN shown ELSE shown + 1)
         [] OTHER -> current' = "none" /\ UNCHANGED <<shown, rowsInSet>>

\* stream.next(): the items of a set come between its start and its end
Item ==
    /\ at = "next" /\ ~flag /\ items < MaxItems /\ items' = items + 1
    /\ \E item \in IF current = "none" THEN {"SetStart"} ELSE {"Batch", "SetEnd"} :
          IF sink THEN pushing' = item /\ at' = "push" /\ UNCHANGED <<current, shown, rowsInSet>>
                  ELSE Took(item)
    /\ UNCHANGED <<ui, stopped, failed, outcome, sink, file>>

\* DaxItem::Error, which replaces the set it would have been; the stream goes on
ErrorItem ==
    /\ at = "next" /\ ~flag /\ items < MaxItems /\ items' = items + 1 /\ failed' = TRUE
    /\ UNCHANGED <<ui, at, current, shown, rowsInSet, pushing, stopped, outcome, sink, file>>

\* the decoder closes the set of a body that is cut off before it reports the error, so
\* only a lost connection leaves a set open
StreamEnds ==
    /\ at = "next" /\ ~flag /\ at' = "close"
    /\ failed' \in {failed, TRUE}
    /\ current # "none" => failed'
    /\ UNCHANGED <<ui, current, shown, rowsInSet, items, pushing, stopped, outcome, sink, file>>

\* sink_push: the flag is only looked at while the channel is full; a writer
\* that is gone cancels the run
Push ==
    /\ at = "push"
    /\ \/ /\ writer = "up" /\ Len(queue) < SinkRoom
          /\ queue' = Append(queue, pushing) /\ Took(pushing) /\ UNCHANGED stopped
       \/ /\ writer = "gone" \/ (Len(queue) = SinkRoom /\ flag)
          /\ stopped' = TRUE /\ at' = "close" /\ pushing' = "none"
          /\ UNCHANGED <<current, shown, rowsInSet, queue>>
    /\ UNCHANGED <<ui, items, failed, outcome, sink, writer, fileEnd>>

\* tx.send: waits for room without looking at the flag
Tells(msg) == IF sink /\ writer = "up" THEN Len(queue) < SinkRoom /\ queue' = Append(queue, msg)
                                       ELSE UNCHANGED queue

\* a set left open is closed, and its part of the file discarded
Close ==
    /\ at = "close" /\ at' = "end" /\ current' = "none"
    /\ IF current = "none" THEN UNCHANGED queue ELSE Tells("Failed")
    /\ UNCHANGED <<ui, shown, rowsInSet, items, pushing, stopped, failed, outcome, sink, writer, fileEnd>>

\* a run whose last item was on the way when the flag was set is reported as done
Finish ==
    /\ at = "end" /\ at' = "over"
    /\ outcome' = (IF stopped THEN "cancelled" ELSE IF failed THEN "failed" ELSE "done")
    /\ Tells(IF outcome' = "done" THEN "RunEnd" ELSE "Failed")
    /\ events' = Append(events, "RunDone")
    /\ UNCHANGED <<view, flag, current, shown, rowsInSet, items, pushing, stopped, failed, sink, writer, fileEnd>>

Task == \/ Start \/ Opens \/ SeesCancel \/ Item \/ ErrorItem \/ StreamEnds \/ Push \/ Close \/ Finish

Next == Cancel \/ ReadsEvent \/ Writes \/ WriterFails \/ Task

\* the task and the user interface run, and so does the writer: the sends of Close
\* and Finish wait for it without a look at the flag
Spec == /\ Init /\ [][Next]_tabularVars
        /\ WF_tabularVars(Task) /\ WF_tabularVars(ReadsEvent) /\ WF_tabularVars(Writes)

-----------------------------------------------------------------------------
(* Properties                                                              *)

\* The writer ends a file as whole only for a run that reported no error and no
\* cancel, and it always hears of the end (tabular.rs:239).
FileEndsAsRun ==
    /\ fileEnd = "RunEnd" => outcome = "done"
    /\ fileEnd = "Failed" => at # "next" /\ outcome # "done"

\* A DAX run ends, and so does its view (tabular.rs:104).
TabularEnds == <>(at = "over" /\ view \in {"Over", "NotConnected"})

\* A DAX run keeps the contract of a run; no set of it ever waits at a cap.  A
\* set whose start the writer did not take counts as not opened.
Contract == INSTANCE RunContract WITH
    phase <- CASE at = "ready" -> "ready" [] at = "over" -> "over" [] OTHER -> "running",
    set <- current,
    cancelling <- stopped

TabularRunsAsPromised == Contract!ContractSpec

-----------------------------------------------------------------------------
(* The inductive invariant                                                 *)

\* What is on its way to the writer about the end of the run, or was read by it.
EndTold(msg) == fileEnd = msg \/ \E i \in 1..Len(queue) : queue[i] = msg

\* The outcome the task is bound to report once it has read the last item.
EndsAsHeld ==
    /\ at \notin {"end", "over"} => ~EndTold("Failed")
    /\ at # "over" => ~EndTold("RunEnd") /\ outcome = "none"
    /\ EndTold("RunEnd") => outcome = "done"
    /\ EndTold("Failed") => stopped \/ failed
    /\ outcome = "done" => ~stopped /\ ~failed
    /\ outcome = "cancelled" => stopped

\* A set is only left open by a run that failed or was stopped.
OpenForCause ==
    /\ at = "close" /\ current # "none" => stopped \/ failed
    /\ at \notin {"next", "push", "close"} => current = "none"
    /\ stopped => at \in {"close", "end", "over"}
    /\ at = "push" <=> pushing # "none"
    /\ pushing = "SetStart" => current = "none"
    /\ pushing \in {"Batch", "SetEnd"} => current = "Streaming"
    /\ pushing = "Batch" => rowsInSet < items

IInv == TypeOK /\ EndsAsHeld /\ OpenForCause /\ FileEndsAsRun
=============================================================================
