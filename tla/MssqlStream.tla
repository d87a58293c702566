----------------------------- MODULE MssqlStream -----------------------------
(***************************************************************************)
(* The SQL Server driver's stream: struct Run of                           *)
(* cobalt-driver/src/mssql/exec.rs, the state machine that turns TDS       *)
(* tokens into StreamItems.  Each call of next() first hands out what is   *)
(* pending; only then does it look at the cancel signal, the deadline and  *)
(* the next token.  Rows are gathered into batches of BatchRows; a set     *)
(* whose decimal scales must be inferred holds its ResultSetStart and its  *)
(* rows back until the scales are known.                                   *)
(*                                                                         *)
(* MssqlStream implements ItemStream: `open`, `sent`, `sets`, `told`,      *)
(* `ended` record what next() has handed out.                              *)
(***************************************************************************)
EXTENDS Naturals, Sequences

CONSTANTS BatchRows,   \* ExecOptions::batch_rows
          MaxSets,     \* bound: result sets of the batch
          MaxRows,     \* bound: rows of one set
          MaxNotes     \* bound: Info, Error and DONE-with-count tokens

NoSet == [state |-> "none", gathered |-> 0, rows |-> 0]

VARIABLES pending,   \* items not handed out yet
          current,   \* the open set: `gathered` rows not yet in an item
          error,     \* the first error of the batch was seen
          finished,
          broken,    \* the session can no longer be used
          started,   \* result sets the server announced
          notes,     \* tokens counted against MaxNotes
          deadline   \* the batch runs under a command timeout

VARIABLES open, sent, sets, told, ended, signal

S == INSTANCE ItemStream WITH MaxChunk <- BatchRows

runVars == <<pending, current, error, finished, broken, started, notes,
             deadline>>
streamVars == <<open, sent, sets, told, ended, signal>>
vars == <<runVars, streamVars>>

-----------------------------------------------------------------------------
StartItem == [item |-> "ResultSetStart"]
RowsItem(n) == [item |-> "Rows", n |-> n]
EndItem(n) == [item |-> "ResultSetEnd", n |-> n]
Affected == [item |-> "RowsAffected"]
Message(e) == [item |-> "Message", isError |-> e]
Done(e, c) == [item |-> "Done", error |-> e, cancelled |-> c]

Item == {StartItem, Affected} \cup {RowsItem(n) : n \in 1..BatchRows}
        \cup {EndItem(n) : n \in 0..MaxRows} \cup {Message(e) : e \in BOOLEAN}
        \cup {Done(e, c) : e, c \in BOOLEAN}

TypeOK ==
    /\ current \in [state : {"none", "inferring", "building"},
                    gathered : 0..BatchRows, rows : 0..MaxRows]
    /\ error \in BOOLEAN /\ finished \in BOOLEAN
    /\ broken \in BOOLEAN /\ deadline \in BOOLEAN
    /\ started \in 0..MaxSets /\ notes \in 0..MaxNotes
    /\ pending \in Seq(Item)
    /\ S!StreamTypeOK

\* execute() sent the batch and armed the (cleared) cancel signal; a session
\* option that could not be applied is told first.
Init ==
    /\ pending \in {<<>>, <<Message(TRUE)>>} /\ current = NoSet
    /\ error = FALSE /\ finished = FALSE
    /\ broken = FALSE
    /\ started = 0 /\ notes = 0 /\ deadline \in BOOLEAN
    /\ S!Fresh

-----------------------------------------------------------------------------
(* Run::start: ResultSetStart and the rows held back for the inference.    *)

StartItems(rs) ==
    <<StartItem>> \o (IF rs.gathered = BatchRows THEN <<RowsItem(BatchRows)>> ELSE <<>>)

Building(rs) ==
    [rs EXCEPT !.state = "building",
               !.gathered = IF @ = BatchRows THEN 0 ELSE @]

\* Run::close_result_set: what it appends to `pending`.  (Its warning about
\* values that could not be converted is one more Message, left out.)
CloseItems(rs) ==
    IF rs.state = "none" THEN <<>>
    ELSE LET b == IF rs.state = "inferring" THEN Building(rs) ELSE rs
         IN (IF rs.state = "inferring" THEN StartItems(rs) ELSE <<>>)
            \o (IF b.gathered > 0 THEN <<RowsItem(b.gathered)>> ELSE <<>>)
            \o <<EndItem(rs.rows)>>

-----------------------------------------------------------------------------
(* Run::next                                                               *)

\* Nothing is pending: next() goes on to the signal and the wire.
Waits == pending = <<>> /\ ~finished
\* `biased`: a signal wins over the deadline and over tokens
Reads == Waits /\ ~signal

\* next() hands out the first pending item.
Deliver ==
    /\ pending # <<>> /\ pending' = Tail(pending)
    /\ LET it == Head(pending)
           starts == it.item = "ResultSetStart"
           ends == it.item = "ResultSetEnd"
       IN /\ open' = (starts \/ (open /\ ~ends))
          /\ sets' = (IF starts THEN sets + 1 ELSE sets)
          /\ sent' = (IF starts THEN 0
                     ELSE IF it.item = "Rows" THEN sent + it.n ELSE sent)
          /\ told' = (told \/ it = Message(TRUE))
          /\ ended' = (ended \/ it.item = "Done")
    /\ UNCHANGED <<signal, current, error, finished, broken, started, notes,
                   deadline>>

\* CancelSignal::trigger, from the run loop
Trigger == /\ ~signal /\ S!Cancel /\ UNCHANGED runVars

Finishes(items) ==
    /\ pending' = pending \o CloseItems(current) \o items
    /\ current' = NoSet /\ finished' = TRUE
    /\ UNCHANGED <<error, started, notes, deadline, streamVars>>

\* abort(Cancelled): the acknowledgement arrives, fails or times out
AbortCancelled ==
    /\ Waits /\ signal
    /\ broken' \in {broken, TRUE}
    /\ Finishes(<<Done(FALSE, TRUE)>>)

AbortTimeout ==
    /\ Reads /\ deadline
    /\ broken' \in {broken, TRUE}
    /\ Finishes(<<Message(TRUE), Done(TRUE, FALSE)>>)

TransportFailure ==
    /\ Reads
    /\ broken' = TRUE
    /\ Finishes(<<Message(TRUE), Done(TRUE, FALSE)>>)

\* complete(): the response has ended
Complete ==
    /\ Reads
    /\ UNCHANGED broken
    /\ Finishes(<<Done(error, FALSE)>>)

-----------------------------------------------------------------------------
(* Run::handle: one token                                                  *)

tokenFrame == <<finished, deadline, streamVars>>

NewResultset ==
    /\ Reads /\ started < MaxSets
    /\ started' = started + 1
    /\ \/ /\ current' = [state |-> "building", gathered |-> 0, rows |-> 0]
          /\ pending' = CloseItems(current) \o <<StartItem>>
       \/ /\ current' = [state |-> "inferring", gathered |-> 0, rows |-> 0]
          /\ pending' = CloseItems(current)
    /\ UNCHANGED <<error, broken, notes, tokenFrame>>

\* Faulty variant: the batch that a full builder makes is not emitted.
RowNotFlushed ==
    /\ Reads /\ current.state # "none" /\ current.rows < MaxRows
    /\ current' = [current EXCEPT !.rows = @ + 1,
                       !.gathered = IF @ + 1 = BatchRows THEN 0 ELSE @ + 1]
    /\ UNCHANGED <<pending, error, broken, started, notes, tokenFrame>>

\* push_row: a full builder makes an item; an inferring set starts when its
\* scales are resolved (whenever the values say so) or it holds a full batch.
Row ==
    /\ Reads /\ current.state # "none" /\ current.rows < MaxRows
    /\ LET rs == [current EXCEPT !.rows = @ + 1, !.gathered = @ + 1] IN
         \/ /\ rs.state = "building" /\ rs.gathered < BatchRows
            /\ current' = rs /\ UNCHANGED pending
         \/ /\ rs.state = "building" /\ rs.gathered = BatchRows
            /\ current' = [rs EXCEPT !.gathered = 0]
            /\ pending' = <<RowsItem(BatchRows)>>
         \/ /\ rs.state = "inferring" /\ rs.gathered < BatchRows
            /\ current' = rs /\ UNCHANGED pending
         \/ /\ rs.state = "inferring"
            /\ current' = Building(rs) /\ pending' = StartItems(rs)
    /\ UNCHANGED <<error, broken, started, notes, tokenFrame>>

\* DONE, DONEINPROC, DONEPROC: an open set ends; otherwise a count may follow
\* (an attention acknowledgement, or a DONEPROC, changes nothing).
DoneToken ==
    /\ Reads
    /\ \/ /\ current.state # "none"
          /\ pending' = CloseItems(current) /\ current' = NoSet
          /\ UNCHANGED notes
       \/ /\ current.state = "none" /\ notes < MaxNotes
          /\ pending' = <<Affected>> /\ notes' = notes + 1
          /\ UNCHANGED current
    /\ UNCHANGED <<error, broken, started, tokenFrame>>

InfoToken ==
    /\ Reads /\ notes < MaxNotes
    /\ notes' = notes + 1 /\ pending' = <<Message(FALSE)>>
    /\ UNCHANGED <<current, error, broken, started, tokenFrame>>

\* Severity 20 and above ends the session.
ErrorToken ==
    /\ Reads /\ notes < MaxNotes
    /\ notes' = notes + 1 /\ pending' = <<Message(TRUE)>>
    /\ error' = TRUE
    /\ broken' \in {broken, TRUE}
    /\ UNCHANGED <<current, started, tokenFrame>>

-----------------------------------------------------------------------------
Token == NewResultset \/ Row \/ DoneToken \/ InfoToken \/ ErrorToken

Next ==
    \/ Deliver \/ Trigger
    \/ AbortCancelled \/ AbortTimeout \/ TransportFailure \/ Complete
    \/ Token

\* The run loop polls the stream, and a poll that finds work does it: what is
\* pending is handed out, and a signalled run is aborted (the wait for the
\* acknowledgement has a timeout).  The server owes nothing.
Fairness == WF_vars(Deliver) /\ WF_vars(AbortCancelled)

Spec == Init /\ [][Next]_vars /\ Fairness

-----------------------------------------------------------------------------
(* Properties                                                              *)

\* No row of the server is lost or doubled between the builder, the rows held
\* back for scale inference and the items handed out: whenever next() is about
\* to read the wire, the open set's rows are those handed out and those gathered.
EveryRowOnce ==
    pending = <<>> /\ ~finished =>
        CASE current.state = "building"  -> open /\ sent + current.gathered = current.rows
          [] current.state = "inferring" -> ~open /\ current.gathered = current.rows
          [] current.state = "none"      -> ~open

\* A triggered cancel ends the batch, whatever was pending or being gathered.
CancelAnswered == signal ~> ended

\* What ItemStream allows for an item.
Allowed(it) ==
    CASE it.item = "ResultSetStart" -> S!ResultSetStart
      [] it.item = "Rows" -> S!Rows(it.n)
      [] it.item = "ResultSetEnd" -> S!ResultSetEnd(it.n)
      [] it.item = "RowsAffected" -> S!RowsAffected
      [] it.item = "Message" -> S!Message(it.isError)
      [] it.item = "Done" -> S!DoneAsDocumented(it.error, it.cancelled)

\* The stream implements ItemStream, and each item handed out is the one that
\* ItemStream's step stands for: in the order StreamItem documents, with the
\* right row count at a set's end, an error in Done only when it was told
\* before and the batch was not cancelled, and `cancelled` only when a cancel was
\* asked for.
ItemsInOrder ==
    /\ S!StreamSpec
    /\ [][pending # <<>> /\ pending' # pending => Allowed(Head(pending))]_vars

-----------------------------------------------------------------------------
(* The inductive invariant                                                 *)

\* What ItemStream's `open`, `sent` and `told` become when the items of `items`
\* before the i-th have been handed out, from the values o, s and t.
OpenAt(o, items, i) ==
    IF i = 1 THEN o
    ELSE \/ items[i - 1].item \in {"ResultSetStart", "Rows"}
         \/ i = 2 /\ o /\ items[1].item # "ResultSetEnd"
SentBefore(s, i) == IF i = 1 THEN s ELSE 0
SentAt(s, items, i) ==
    IF i = 1 THEN s
    ELSE LET it == items[i - 1] IN
         IF it.item = "ResultSetStart" THEN 0
         ELSE IF it.item = "Rows" THEN SentBefore(s, i - 1) + it.n ELSE SentBefore(s, i - 1)
ToldBefore(t, items, i) == t \/ \E j \in 1..i - 1 : items[j] = Message(TRUE)

\* sets the server announced that hold their start back
Unstarted == IF current.state = "inferring" THEN 1 ELSE 0

\* The i-th pending item will be allowed when its turn comes.
AllowedAt(i) ==
    LET it == pending[i] IN
    /\ it.item = "ResultSetStart" => ~OpenAt(open, pending, i) /\ sets + 1 + Unstarted <= started
    /\ it.item = "Rows" => /\ OpenAt(open, pending, i)
                           /\ SentAt(sent, pending, i) + it.n <= MaxRows
                           /\ i > 1 => pending[i - 1].item = "ResultSetStart"
    /\ it.item = "ResultSetEnd" => OpenAt(open, pending, i) /\ it.n = SentAt(sent, pending, i)
    /\ it.item = "RowsAffected" => ~OpenAt(open, pending, i)
    /\ it.item = "Message" => i = 1 \/ ~OpenAt(open, pending, i)
    /\ it.item = "Done" => /\ i = Len(pending) /\ ~OpenAt(open, pending, i)
                           /\ it.error => ToldBefore(told, pending, i)
                           /\ it.cancelled => signal /\ ~it.error
PendingInOrder == \A i \in DOMAIN pending : AllowedAt(i)

\* The sets started and to be started are those the server announced.
StartsCounted ==
    /\ sets + Unstarted <= started
    /\ \A i, j \in DOMAIN pending :
          i < j /\ pending[i].item = "ResultSetStart" /\ pending[j].item = "ResultSetStart"
              => j = Len(pending) /\ sets + 2 + Unstarted <= started

\* When everything pending has been handed out, the stream is where the open set is.
CurrentFollows ==
    LET end == Len(pending) + 1 IN
    /\ current.state # "none" => current.gathered < BatchRows
    /\ CASE current.state = "building" ->
              /\ OpenAt(open, pending, end)
              /\ SentAt(sent, pending, end) + current.gathered = current.rows
         [] current.state = "inferring" ->
              ~OpenAt(open, pending, end) /\ current.gathered = current.rows
         [] current.state = "none" -> ~OpenAt(open, pending, end)

ErrorsTold == error => ToldBefore(told, pending, Len(pending) + 1)

\* Done is the last item, and once it is pending nothing more is read.
EndsOnce ==
    /\ finished => current.state = "none"
    /\ \A i \in DOMAIN pending : pending[i].item = "Done" => finished
    /\ finished => IF pending = <<>> THEN ended ELSE pending[Len(pending)].item = "Done"
    /\ ended => finished /\ pending = <<>>

IInv == /\ TypeOK /\ PendingInOrder /\ StartsCounted /\ CurrentFollows
        /\ ErrorsTold /\ EndsOnce
=============================================================================
