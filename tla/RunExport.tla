------------------------------ MODULE RunExport ------------------------------
(***************************************************************************)
(* Run to File: run_script of session/actor.rs with a sink, sink_push, the *)
(* bounded channel, and the export thread of ops.rs (spawn_run_export,     *)
(* run_export_set).  The actor streams every set's batches into the        *)
(* channel, waiting while it is full; the thread writes one file per set   *)
(* and keeps it only when the set's SetEnd arrives.                        *)
(*                                                                         *)
(* A batch is one row.  The row cap does not apply; FetchMore, which the   *)
(* results pane does not offer here, counts as one of the other messages.  *)
(***************************************************************************)
EXTENDS Naturals, Sequences

CONSTANTS MaxSets, MaxRows, MaxChunk,  \* bounds of one batch, see ItemStream
          Batches,    \* number of batches split_batches made of the script
          Capacity,   \* sync_channel's bound
          MaxPosts    \* bound: messages posted to the mailbox

VARIABLES mail, posts, gone,      \* the actor's mailbox, as in RunLoop
          \* run_script
          pc,         \* "batch" (before execute), "poll", "push", "over"
          batch,      \* batches executed
          set,        \* `current`: a result set is open
          rsIndex,
          pushing,    \* the message sink_push holds while pc = "push"
          then,       \* the call of sink_push, and so what follows it
          cancelled, failed,
          outcome,    \* what RunDone reports
          \* the export thread
          chan,
          writer,     \* "signin", "idle", "writing", "gone"
          index,      \* the set being written
          written,    \* rows written of it
          files,      \* rows of each file kept
          result,     \* what ExportDone reports
          \* history: rows each set had when the driver closed it and whether
          \* the server had finished it; sets open when the run was cancelled
          delivered, whole, doomed,
          dying       \* the driver closed a set because the batch failed

VARIABLES open, sent, sets, told, ended, signal   \* the driver's stream

S == INSTANCE ItemStream

mailVars == <<mail, posts, gone>>
runVars == <<pc, batch, set, rsIndex, pushing, then, cancelled, failed, outcome>>
writerVars == <<writer, index, written, files, result>>
streamVars == <<open, sent, sets, told, ended, signal>>
history == <<delivered, whole, doomed, dying>>
vars == <<mailVars, runVars, chan, writerVars, streamVars, history>>

Sets == 0..(MaxSets * Batches - 1)
TabMsgs == {"Cancel", "Close", "Other"}
Msg(kind, i) == [kind |-> kind, index |-> i]
Nothing == Msg("none", 0)

Put(f, i, n) == [k \in DOMAIN f \cup {i} |-> IF k = i THEN n ELSE f[k]]

TypeOK ==
    /\ mail \in Seq(TabMsgs) /\ posts \in 0..MaxPosts /\ gone \in BOOLEAN
    /\ pc \in {"batch", "poll", "push", "over"}
    /\ batch \in 0..Batches /\ set \in BOOLEAN /\ rsIndex \in 0..MaxSets * Batches
    /\ then \in {"set", "rows", "end", "done", "tail"}
    /\ cancelled \in BOOLEAN /\ failed \in BOOLEAN
    /\ outcome \in {"none", "done", "failed", "cancelled"}
    /\ Len(chan) <= Capacity
    /\ writer \in {"signin", "idle", "writing", "gone"}
    /\ index \in 0..MaxSets * Batches /\ written \in 0..MaxRows
    /\ DOMAIN files \subseteq Sets
    /\ result \in {"none", "ok", "error"}
    /\ S!StreamTypeOK

Init ==
    /\ mail = <<>> /\ posts = 0 /\ gone = FALSE
    /\ pc = "batch" /\ batch = 0 /\ set = FALSE /\ rsIndex = 0
    /\ pushing = Nothing /\ then = "tail"
    /\ cancelled = FALSE /\ failed = FALSE /\ outcome = "none"
    /\ chan = <<>> /\ writer = "signin" /\ index = 0 /\ written = 0
    /\ files = <<>> /\ result = "none"
    /\ delivered = <<>> /\ whole = {} /\ doomed = {} /\ dying = FALSE
    /\ S!Fresh

-----------------------------------------------------------------------------
(* The mailbox                                                             *)

Post(m) ==
    /\ ~gone /\ pc # "over" /\ posts < MaxPosts
    /\ mail' = Append(mail, m) /\ posts' = posts + 1 /\ gone' = (m = "Close")
    /\ UNCHANGED <<runVars, chan, writerVars, streamVars, history>>

Ready == mail # <<>> \/ gone
Stops == IF mail = <<>> THEN gone ELSE Head(mail) \in {"Cancel", "Close"}
Recv == /\ mail' = (IF mail = <<>> THEN mail ELSE Tail(mail))
        /\ UNCHANGED <<posts, gone>>

\* cancel.cancel(); cancelled = true
CancelNow ==
    /\ cancelled' = TRUE
    /\ doomed' = (IF set' \/ set THEN doomed \cup {rsIndex} ELSE doomed)
    /\ S!Cancel

-----------------------------------------------------------------------------
(* Batches, and the end of the run                                         *)

ExecuteOk ==
    /\ pc = "batch" /\ batch < Batches
    /\ pc' = "poll" /\ batch' = batch + 1
    /\ open' = FALSE /\ sent' = 0 /\ sets' = 0 /\ told' = FALSE
    /\ ended' = FALSE /\ signal' = FALSE /\ dying' = FALSE
    /\ UNCHANGED <<mailVars, set, rsIndex, pushing, then, cancelled, failed,
                   outcome, chan, writerVars, delivered, whole, doomed>>

Push(msg, next) == pc' = "push" /\ pushing' = msg /\ then' = next

\* The last message tells the writer how the run ended.
LastPush(c, f) ==
    Push(Msg(IF c \/ f THEN "Failed" ELSE "RunEnd", 0), "tail")

\* A server error ends the loop; any other error returns at once, without a
\* last message.
ExecuteErr ==
    /\ pc = "batch" /\ batch < Batches /\ batch' = batch + 1
    /\ failed' = TRUE
    /\ \/ LastPush(FALSE, TRUE) /\ UNCHANGED outcome
       \/ pc' = "over" /\ outcome' = "failed" /\ UNCHANGED <<pushing, then>>
    /\ UNCHANGED <<mailVars, set, rsIndex, cancelled, chan, writerVars,
                   streamVars, history>>

AllDone ==
    /\ pc = "batch" /\ batch = Batches
    /\ LastPush(cancelled, failed)
    /\ UNCHANGED <<mailVars, batch, set, rsIndex, cancelled, failed, outcome,
                   chan, writerVars, streamVars, history>>

-----------------------------------------------------------------------------
(* The select!                                                             *)

TakeStop ==
    /\ pc = "poll" /\ Stops /\ Recv
    /\ UNCHANGED set /\ CancelNow
    /\ UNCHANGED <<pc, batch, rsIndex, pushing, then, failed, outcome, chan,
                   writerVars, delivered, whole, dying>>

TakeOther ==
    /\ pc = "poll" /\ Ready /\ ~Stops /\ Recv
    /\ UNCHANGED <<runVars, chan, writerVars, streamVars, history>>

Polls == pc = "poll" /\ ~Ready

\* A driver that closed a set because its batch failed has only the message
\* and the Done left to say.
OnResultSetStart ==
    /\ Polls /\ ~dying /\ S!ResultSetStart
    /\ Push(Msg("SetStart", rsIndex), "set")
    /\ UNCHANGED <<mailVars, batch, set, rsIndex, cancelled, failed, outcome,
                   chan, writerVars, history>>

OnRows ==
    /\ Polls /\ ~dying /\ S!Rows(1)
    /\ IF cancelled THEN UNCHANGED <<pc, pushing, then>>
                    ELSE Push(Msg("Batch", rsIndex), "rows")
    /\ UNCHANGED <<mailVars, batch, set, rsIndex, cancelled, failed, outcome,
                   chan, writerVars, history>>

\* Faulty variant: the set of a cancelled run is ended as a good one.
EndMsgAnyway == Msg("SetEnd", rsIndex)

EndMsg == Msg(IF cancelled THEN "Failed" ELSE "SetEnd", rsIndex)

\* The driver ends a set when the server does (`complete`), but also when the
\* batch fails or is aborted in the middle of it.
OnResultSetEnd(n, complete) ==
    /\ Polls /\ ~dying /\ S!ResultSetEnd(n)
    /\ Push(EndMsg, "end")
    /\ delivered' = Put(delivered, rsIndex, sent)
    /\ whole' = (IF complete THEN whole \cup {rsIndex} ELSE whole)
    /\ dying' = ~complete
    /\ UNCHANGED <<mailVars, batch, set, rsIndex, cancelled, failed, outcome,
                   chan, writerVars, doomed>>

OnMessage ==
    /\ Polls /\ S!Message(TRUE)
    /\ UNCHANGED <<mailVars, runVars, chan, writerVars, history>>

\* What follows the stream's Done: the next batch, or the end of the loop.
AfterDone(c, error) ==
    IF c \/ error THEN LastPush(c, error)
    ELSE pc' = "batch" /\ pushing' = Nothing /\ then' = "tail"

\* A set still open was not ended cleanly: the writer is told to discard it.
OnDone(error, c) ==
    /\ Polls /\ S!Done(error, c) /\ (dying => error \/ c)
    /\ cancelled' = (cancelled \/ c)
    /\ failed' = (~cancelled' /\ error)
    /\ IF set
       THEN Push(Msg("Failed", rsIndex), "done") /\ doomed' = doomed \cup {rsIndex}
       ELSE AfterDone(cancelled', error) /\ UNCHANGED doomed
    /\ UNCHANGED <<mailVars, batch, set, rsIndex, outcome, chan, writerVars,
                   delivered, whole, dying>>

-----------------------------------------------------------------------------
(* sink_push                                                               *)

\* Faulty variant: a push that failed does not cancel the run.
AbortsNever(ok) == FALSE

\* A push of one of the set's messages that failed cancels the run.
Aborts(ok) == ~ok /\ ~cancelled /\ then \in {"set", "rows", "end"}

\* sink_push returned to the step that called it.
Resume(ok) ==
    /\ set' = (then = "set" \/ (set /\ then \notin {"end", "done"}))
    /\ rsIndex' = (IF then \in {"end", "done"} THEN rsIndex + 1 ELSE rsIndex)
    /\ IF then = "done" THEN AfterDone(cancelled, failed)
       ELSE /\ pc' = (IF then = "tail" THEN "over" ELSE "poll")
            /\ pushing' = Nothing /\ then' = "tail"
    /\ outcome' = (IF then # "tail" THEN outcome
                   ELSE IF cancelled THEN "cancelled"
                   ELSE IF failed THEN "failed" ELSE "done")
    /\ IF Aborts(ok) THEN CancelNow ELSE UNCHANGED <<cancelled, doomed, streamVars>>

PushStep == UNCHANGED <<batch, failed, writerVars, delivered, whole, dying>>

\* Faulty variant: the channel takes one message more than its bound.
RoomOneMore == Len(chan) <= Capacity

Room == Len(chan) < Capacity

PushOk ==
    /\ pc = "push" /\ writer # "gone" /\ Room
    /\ chan' = Append(chan, pushing)
    /\ Resume(TRUE) /\ PushStep /\ UNCHANGED mailVars

\* Faulty variant: a dead writer is only noticed on a full channel.
PushGoneWhenFull ==
    /\ pc = "push" /\ writer = "gone" /\ ~Room
    /\ Resume(FALSE) /\ PushStep /\ UNCHANGED <<mailVars, chan>>

\* the receiver was dropped
PushGone ==
    /\ pc = "push" /\ writer = "gone"
    /\ Resume(FALSE) /\ PushStep /\ UNCHANGED <<mailVars, chan>>

\* The mailbox is only looked at while the channel is full; what is not a
\* cancel or a close is dropped.
PushWaits ==
    /\ pc = "push" /\ writer # "gone" /\ ~Room /\ Ready /\ Recv
    /\ IF Stops THEN Resume(FALSE)
                ELSE UNCHANGED <<pc, set, rsIndex, pushing, then, cancelled,
                                 outcome, doomed, streamVars>>
    /\ PushStep /\ UNCHANGED chan

-----------------------------------------------------------------------------
(* The export thread                                                       *)

WriterOnly == UNCHANGED <<mailVars, runVars, streamVars, history>>

\* The thread ends: the receiver is dropped and the guard reports the outcome.
WriterEnds(error) ==
    /\ writer' = "gone" /\ chan' = <<>>
    /\ result' = (IF error \/ files = <<>> THEN "error" ELSE "ok")
    /\ index' = 0 /\ written' = 0 /\ UNCHANGED files

\* OneLake's token, or none needed
SignIn ==
    /\ writer = "signin"
    /\ \/ writer' = "idle" /\ UNCHANGED <<chan, index, written, files, result>>
       \/ WriterEnds(TRUE)
    /\ WriterOnly

\* rx.recv(): a message, or None once the run dropped its end.
Received == chan # <<>> \/ pc = "over"
NextItem == IF chan = <<>> THEN Nothing ELSE Head(chan)
Pull == chan' = IF chan = <<>> THEN chan ELSE Tail(chan)

WriterIdle ==
    /\ writer = "idle" /\ Received
    /\ CASE NextItem.kind = "SetStart" ->
              /\ writer' = "writing" /\ index' = NextItem.index /\ written' = 0
              /\ Pull /\ UNCHANGED <<files, result>>
         [] NextItem.kind = "Failed" -> WriterEnds(TRUE)
         [] NextItem.kind \in {"RunEnd", "none"} -> WriterEnds(FALSE)
         [] OTHER -> Pull /\ UNCHANGED writerVars
    /\ WriterOnly

\* Faulty variant: a channel that closed ends the set like a SetEnd.
WriterWritingLenient ==
    /\ writer = "writing" /\ Received
    /\ CASE NextItem.kind = "Batch" ->
              /\ written' = written + 1 /\ Pull
              /\ UNCHANGED <<writer, index, files, result>>
         [] NextItem.kind \in {"SetEnd", "RunEnd", "none"} ->
              /\ files' = Put(files, index, written) /\ writer' = "idle"
              /\ index' = 0 /\ written' = 0 /\ Pull /\ UNCHANGED result
         [] OTHER -> WriterEnds(TRUE)
    /\ WriterOnly

\* run_export_set: only SetEnd finishes the file and renames it into place;
\* anything else fails the set, and its temporary file is removed.
WriterWriting ==
    /\ writer = "writing" /\ Received
    /\ CASE NextItem.kind = "Batch" ->
              /\ written' = written + 1 /\ Pull
              /\ UNCHANGED <<writer, index, files, result>>
         [] NextItem.kind = "SetEnd" ->
              /\ files' = Put(files, index, written) /\ writer' = "idle"
              /\ index' = 0 /\ written' = 0 /\ Pull /\ UNCHANGED result
         [] OTHER -> WriterEnds(TRUE)
    /\ WriterOnly

\* the disk is full, the format refuses the data, the upload fails
WriteFails == writer = "writing" /\ WriterEnds(TRUE) /\ WriterOnly

-----------------------------------------------------------------------------
TakesMail == TakeStop \/ TakeOther
SinkPush == PushOk \/ PushGone \/ PushWaits

Receives ==
    \/ OnResultSetStart \/ OnRows \/ OnMessage
    \/ \E n \in 0..MaxRows, complete \in BOOLEAN : OnResultSetEnd(n, complete)
    \/ \E error, c \in BOOLEAN : OnDone(error, c)

Writes == SignIn \/ WriterIdle \/ WriterWriting \/ WriteFails

Next ==
    \/ \E m \in TabMsgs : Post(m)
    \/ ExecuteOk \/ ExecuteErr \/ AllDone
    \/ TakesMail \/ Receives \/ SinkPush \/ Writes

\* The tasks and the thread run, and a driver answers a cancel.
Fairness ==
    /\ WF_vars(TakesMail) /\ WF_vars(SinkPush) /\ WF_vars(Writes)
    /\ WF_vars(signal /\ Receives)

Spec == Init /\ [][Next]_vars /\ Fairness

-----------------------------------------------------------------------------
(* Properties                                                              *)

\* A file that is kept has exactly the rows the driver delivered between the
\* start and the end of its set: none lost to a full channel, none of another
\* set, however the pushes wait and fail.
KeptAsDelivered ==
    \A i \in DOMAIN files : i \in DOMAIN delivered /\ files[i] = delivered[i]

\* The set that is open when the run is cancelled, by the user, by the driver
\* or by a writer that failed, never leaves a file behind.
CancelDiscards == DOMAIN files \cap doomed = {}

\* When the run is reported as done and the export as successful, every set
\* of the script has its file.
DoneMeansAllWritten ==
    outcome = "done" /\ result = "ok" => DOMAIN files = DOMAIN delivered

\* A cancelled run and its export both end, whoever was waiting for whom; so
\* does the export of a run that is over.  (A Close while the driver streams
\* does not end the run, see RunLoop.)
ExportSettles ==
    (cancelled \/ pc = "over") ~> ((pc = "over" /\ writer = "gone") \/ gone)

\* SinkMsg::Failed and the comment in run_script's Done arm: a set that did not
\* end cleanly because the query failed is discarded.  SQL Server, SQLite and
\* PostgreSQL end it all the same (DuckDB does not).
KeptOnlyWhole ==
    pc = "over" /\ writer = "gone" => \A i \in DOMAIN files : i \in whole

-----------------------------------------------------------------------------
(* The inductive invariant                                                 *)

SinkMsg == [kind : {"none", "SetStart", "Batch", "SetEnd", "Failed", "RunEnd"},
            index : 0..MaxSets * Batches]

\* Where the set i begins in the channel q: at its s-th message, or (s = 0) with
\* what the writer w has in hand; only its batches are between s and j.
Begins(q, w, x, s, i) == IF s = 0 THEN w = "writing" /\ x = i ELSE q[s] = Msg("SetStart", i)
InSet(q, w, x, s, j, i) ==
    /\ s \in 0..j - 1
    /\ Begins(q, w, x, s, i)
    /\ \A k \in s + 1..j - 1 : q[k] = Msg("Batch", i)
\* rows of that set which the writer has when it comes to the j-th message
RowsBefore(n, s, j) == (IF s = 0 THEN n ELSE 0) + (j - s - 1)

\* The actor's `current` follows the driver's stream, but for the step a push is in.
SetFollowsStream ==
    /\ pc = "poll" => set = open /\ then = "tail"
    /\ pc \in {"batch", "over"} => ~set /\ then = "tail"
    /\ pc = "push" => CASE then = "set"  -> ~set /\ open /\ sent = 0
                        [] then = "rows" -> set /\ open /\ ~cancelled
                        [] then = "end"  -> set /\ ~open
                        [] then = "done" -> set
                        [] then = "tail" -> ~set

PushedInTurn ==
    pc = "push" =>
        CASE then = "set"  -> pushing = Msg("SetStart", rsIndex)
          [] then = "rows" -> pushing = Msg("Batch", rsIndex)
          [] then = "end"  -> /\ pushing = Msg(IF cancelled THEN "Failed" ELSE "SetEnd", rsIndex)
                              /\ rsIndex \in DOMAIN delivered /\ delivered[rsIndex] = sent
          [] then = "done" -> pushing = Msg("Failed", rsIndex)
          [] then = "tail" -> pushing.kind \in {"Failed", "RunEnd"}

\* What waits in the channel belongs to a set that began before it.
ChannelInOrder ==
    \A j \in DOMAIN chan :
        /\ chan[j].kind # "none"
        /\ chan[j].kind = "SetStart" => chan[j].index <= rsIndex
        /\ chan[j].kind = "Batch" =>
              \E s \in 0..j - 1 : /\ InSet(chan, writer, index, s, j, chan[j].index)
                                  /\ RowsBefore(written, s, j) < MaxRows
        /\ chan[j].kind = "SetEnd" =>
              /\ chan[j].index \in DOMAIN delivered
              /\ chan[j].index < rsIndex /\ chan[j].index \notin doomed
              /\ \E s \in 0..j - 1 : /\ InSet(chan, writer, index, s, j, chan[j].index)
                                     /\ RowsBefore(written, s, j) = delivered[chan[j].index]
        /\ chan[j].kind = "RunEnd" => pc = "over" /\ j = Len(chan)

\* All rows of the set the actor is in are with the writer, in the channel or
\* being pushed.
CurrentInChannel ==
    writer # "gone" /\ ~cancelled /\ set /\ (pc = "push" => then # "done") =>
        \E s \in 0..Len(chan) :
            /\ InSet(chan, writer, index, s, Len(chan) + 1, rsIndex)
            /\ RowsBefore(written, s, Len(chan) + 1) + (IF then = "rows" THEN 1 ELSE 0) = sent

IndexesBelow ==
    /\ pc = "poll" \/ (pc = "push" /\ then # "tail") => batch > 0
    /\ \A i \in DOMAIN delivered :
          i \in 0..rsIndex /\ (i = rsIndex => pc = "push" /\ then = "end")
    /\ \A i \in doomed : i \in 0..rsIndex /\ (i = rsIndex => cancelled \/ (pc = "push" /\ then = "done"))
    /\ \A i \in DOMAIN files : i \in 0..rsIndex /\ i < rsIndex
    /\ rsIndex + (IF set \/ (pc = "push" /\ then = "set") THEN 1 ELSE 0)
         <= IF batch = 0 THEN 0 ELSE MaxSets * (batch - 1) + sets

\* A set the driver ended is in its file or on the way, or something failed.
DeliveredOnTheWay ==
    \A i \in DOMAIN delivered :
        \/ i \in DOMAIN files
        \/ cancelled \/ result = "error"
        \/ \E j \in DOMAIN chan : chan[j] = Msg("SetEnd", i)
        \/ pc = "push" /\ then = "end" /\ i = rsIndex

Endings ==
    /\ writer = "gone" => chan = <<>>
    /\ result = "none" <=> writer # "gone"
    /\ result = "ok" => pc = "over"
    /\ outcome = "done" => pc = "over" /\ ~cancelled

IInv ==
    /\ TypeOK /\ chan \in Seq(SinkMsg) /\ pushing \in SinkMsg
    /\ SetFollowsStream /\ PushedInTurn /\ ChannelInOrder /\ CurrentInChannel
    /\ IndexesBelow /\ DeliveredOnTheWay /\ Endings
    /\ KeptAsDelivered /\ CancelDiscards
=============================================================================
