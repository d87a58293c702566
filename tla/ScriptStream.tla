---------------------------- MODULE ScriptStream ----------------------------
(***************************************************************************)
(* The streams of the SQLite, PostgreSQL and DuckDB drivers: one batch,    *)
(* run statement by statement on a worker (the connection's thread, or for *)
(* PostgreSQL a task), which sends StreamItems through a bounded channel   *)
(* (sqlite/mod.rs run_batch, postgres/mod.rs RunState::drive,              *)
(* duckdb/mod.rs run_script over cobalt-duckdb's Connection::run).         *)
(*                                                                         *)
(* A cancel raises a flag and interrupts the statement that runs at that   *)
(* moment; PostgreSQL's is a request on a connection of its own that       *)
(* arrives later, if need be in the next batch.  Of the database only the  *)
(* transaction is kept, and how many of the batch's changes it holds.      *)
(***************************************************************************)
EXTENDS Naturals, Sequences, FiniteSets

CONSTANTS Scripts,     \* the batches: sequences of statements
          BatchRows,   \* rows of one Rows item
          MaxSets,     \* bound: result sets of one batch
          MaxRows,     \* bound: rows of one set
          PipeRoom     \* capacity of the channel

Statements == {"begin", "change", "select", "commit"}

VARIABLES engine,
          script,     \* statements not completed yet
          at,         \* where the worker is, see TypeOK
          gathered,   \* rows read and not yet in an item
          total,      \* rows of the set as its end will report them
          begun,      \* the set's ResultSetStart was emitted
          out, pipe,  \* items the worker is sending; items in the channel
          err,        \* first_error
          lost,       \* PostgreSQL: the connection went away
          hit,        \* the statement that runs was interrupted; at the end: the ROLLBACK
          token,      \* PostgreSQL: a cancel request is on its way
          \* the database: the transaction, the changes waiting in it, and those made
          tx, undecided, written,
          \* history
          clean,      \* no transaction was open before the batch
          whole,      \* the batch is BEGIN ... COMMIT, of so many changes
          changes,
          stray,      \* a cancel request of an earlier batch is on its way
          missed,     \* the cancel came when no statement ran, or it completed
          inexact     \* DuckDB: rows were counted that could not be converted

VARIABLES open, sent, sets, told, ended, signal

S == INSTANCE ItemStream WITH MaxChunk <- BatchRows

setVars == <<gathered, total, begun>>
txVars == <<tx, undecided, written>>
cancelVars == <<hit, token, missed>>
fixed == <<engine, clean, whole, changes, stray>>
streamVars == <<open, sent, sets, told, ended, signal>>
vars == <<fixed, script, at, setVars, out, pipe, err, lost, cancelVars, txVars,
          inexact, streamVars>>

-----------------------------------------------------------------------------
StartItem == [item |-> "ResultSetStart"]
RowsItem(n) == [item |-> "Rows", n |-> n]
EndItem(n) == [item |-> "ResultSetEnd", n |-> n]
Affected == [item |-> "RowsAffected"]
Message(e) == [item |-> "Message", isError |-> e]
Done(e, c) == [item |-> "Done", error |-> e, cancelled |-> c]

Item == {StartItem, Affected} \cup {RowsItem(n) : n \in 1..BatchRows}
        \cup {EndItem(n) : n \in 0..MaxRows} \cup {Message(e) : e \in BOOLEAN}
        \cup {Done(e, c) : e, c \in BOOLEAN}

BatchTypeOK ==
    /\ engine \in {"sqlite", "postgres", "duckdb"}
    \* between statements; in a statement; in its rows; a chunk or the last rows
    \* sent; the batch is at its end; ending its transaction; over
    /\ at \in {"next", "run", "rows", "chunk", "last", "finish", "rollback", "over"}
    /\ script \in Seq(Statements)
    /\ err \in BOOLEAN /\ lost \in BOOLEAN /\ hit \in BOOLEAN /\ token \in BOOLEAN
    /\ tx \in {"none", "open", "aborted"}
    /\ changes \in Nat /\ undecided \in 0..changes /\ written \in 0..changes
    /\ (tx # "open" => undecided = 0)
    /\ clean \in BOOLEAN /\ whole \in BOOLEAN /\ stray \in BOOLEAN
    /\ missed \in BOOLEAN /\ inexact \in BOOLEAN /\ signal \in BOOLEAN

TypeOK ==
    /\ BatchTypeOK
    /\ gathered \in 0..BatchRows /\ total \in 0..MaxRows /\ begun \in BOOLEAN
    /\ out \in Seq(Item) /\ pipe \in Seq(Item) /\ Len(pipe) <= PipeRoom
    /\ S!StreamTypeOK

Count(s, kind) == Cardinality({i \in DOMAIN s : s[i] = kind})

\* One transaction: BEGIN ... COMMIT, and none of the two between.
Whole(s) ==
    /\ Len(s) >= 2 /\ s[1] = "begin" /\ s[Len(s)] = "commit"
    /\ \A i \in 2..Len(s) - 1 : s[i] \notin {"begin", "commit"}

\* execute(): the flag is reset and the batch is handed to the worker
Init ==
    /\ engine \in {"sqlite", "postgres", "duckdb"}
    /\ script \in Scripts /\ at = "next"
    /\ gathered = 0 /\ total = 0 /\ begun = FALSE
    /\ out = <<>> /\ pipe = <<>>
    /\ err = FALSE /\ lost = FALSE /\ hit = FALSE /\ missed = FALSE
    /\ token \in (IF engine = "postgres" THEN BOOLEAN ELSE {FALSE})
    /\ tx \in {"none", "open"} /\ undecided = 0 /\ written = 0
    /\ clean = (tx = "none") /\ stray = token /\ inexact = FALSE
    /\ whole = Whole(script)
    /\ changes = Count(script, "change")
    /\ S!Fresh

-----------------------------------------------------------------------------
(* The channel, and the cancel                                             *)

\* blocking_send, send().await: the worker waits while the channel is full
Push ==
    /\ out # <<>> /\ Len(pipe) < PipeRoom
    /\ pipe' = Append(pipe, Head(out)) /\ out' = Tail(out)
    /\ UNCHANGED <<fixed, script, at, setVars, err, lost, cancelVars, txVars, inexact, streamVars>>

\* stream.next() of the run loop
Deliver ==
    /\ pipe # <<>> /\ pipe' = Tail(pipe)
    /\ LET it == Head(pipe)
           starts == it.item = "ResultSetStart"
           ends == it.item = "ResultSetEnd"
       IN /\ open' = (starts \/ (open /\ ~ends))
          /\ sets' = (IF starts THEN sets + 1 ELSE sets)
          /\ sent' = (IF starts THEN 0 ELSE IF it.item = "Rows" THEN sent + it.n ELSE sent)
          /\ told' = (told \/ it = Message(TRUE))
          /\ ended' = (ended \/ it.item = "Done")
    /\ UNCHANGED <<fixed, script, at, setVars, out, err, lost, cancelVars, txVars, inexact, signal>>

\* the database executes a statement of the batch
Executing == at \in {"run", "rows", "chunk"}

\* Faulty variant: PostgreSQL's handle raises the flag and sends no request.
CancelFlagOnly ==
    /\ ~signal /\ ~ended /\ S!Cancel
    /\ hit' = (engine # "postgres" /\ Executing)
    /\ missed' = (engine # "postgres" /\ ~Executing)
    /\ UNCHANGED <<token, fixed, script, at, setVars, out, pipe, err, lost, txVars, inexact>>

\* CancelHandle::cancel: only the first one signals.  sqlite3_interrupt and
\* duckdb_interrupt do nothing when no statement runs.
Cancel ==
    /\ ~signal /\ ~ended /\ S!Cancel
    /\ IF engine = "postgres"
       THEN token' = TRUE /\ UNCHANGED <<hit, missed>>
       ELSE /\ hit' = Executing /\ missed' = ~Executing
            /\ UNCHANGED token
    /\ UNCHANGED <<fixed, script, at, setVars, out, pipe, err, lost, txVars, inexact>>

\* The request reaches the server: the query running then is cancelled, if any.
\* (It may come before the query does, or while its columns are described.)
TokenArrives ==
    /\ token /\ token' = FALSE
    /\ hit' \in (IF Executing \/ at = "rollback" THEN {hit, TRUE} ELSE {hit})
    /\ missed' = (missed \/ ~hit')
    /\ UNCHANGED <<fixed, script, at, setVars, out, pipe, err, lost, txVars, inexact, streamVars>>

-----------------------------------------------------------------------------
(* Statements.  The worker goes on when what it sends is in the channel.   *)

Works(where) == at = where /\ out = <<>>
stmtFrame == <<fixed, pipe, token, streamVars>>

\* PostgreSQL looks at the flag before each statement.
StopsBetween == engine = "postgres" /\ signal

Starts ==
    /\ Works("next") /\ ~StopsBetween /\ script # <<>>
    /\ at' = "run"
    /\ gathered' = 0 /\ total' = 0 /\ begun' = FALSE
    /\ UNCHANGED <<stmtFrame, script, out, err, lost, hit, missed, txVars, inexact>>

EndOfScript ==
    /\ Works("next") /\ (StopsBetween \/ script = <<>>)
    /\ at' = "finish"
    /\ UNCHANGED <<stmtFrame, script, setVars, out, err, lost, hit, missed, txVars, inexact>>

\* The statement is over: an interrupt that came for it is spent.
Completed ==
    /\ script' = Tail(script) /\ at' = "next"
    /\ hit' = FALSE /\ missed' = (missed \/ hit)

\* What the statement does to the transaction; BEGIN in one and COMMIT without
\* one are errors, but for PostgreSQL.
Takes(kind) ==
    CASE kind = "begin" ->
            /\ tx = "none" \/ engine = "postgres"
            /\ tx' = "open" /\ UNCHANGED <<undecided, written>>
      [] kind = "commit" ->
            /\ tx = "open" \/ engine = "postgres"
            /\ tx' = "none" /\ undecided' = 0 /\ written' = written + undecided
      [] kind = "change" ->
            /\ UNCHANGED tx
            /\ IF tx = "open" THEN undecided' = undecided + 1 /\ UNCHANGED written
               ELSE written' = written + 1 /\ UNCHANGED undecided

\* SQLite reports every statement without columns, the others those that
\* changed rows.
Reports(kind) == IF engine = "sqlite" THEN {<<Affected>>}
                 ELSE IF kind = "change" THEN {<<>>, <<Affected>>} ELSE {<<>>}

Executes ==
    /\ Works("run") /\ Head(script) # "select"
    /\ Takes(Head(script))
    /\ out' \in Reports(Head(script))
    /\ Completed
    /\ UNCHANGED <<stmtFrame, setVars, err, lost, inexact>>

\* A SELECT begins to give rows.  SQLite starts the set with its first chunk.
Selects ==
    /\ Works("run") /\ Head(script) = "select"
    /\ at' = "rows"
    /\ IF engine = "sqlite" THEN UNCHANGED <<out, begun>>
       ELSE out' = <<StartItem>> /\ begun' = TRUE
    /\ UNCHANGED <<stmtFrame, script, gathered, total, err, lost, hit, missed, txVars, inexact>>

Start == IF begun THEN <<>> ELSE <<StartItem>>
Chunk(n) == IF n = 0 THEN <<>> ELSE <<RowsItem(n)>>
\* the rows a set's end reports: SQLite counts what it converted, the others what they read
RowsNow == total + (IF engine = "sqlite" THEN gathered ELSE 0)

\* Faulty variant: the rows of a full chunk are kept for the next one.
RowKept ==
    /\ Works("rows") /\ engine # "duckdb" /\ RowsNow < MaxRows
    /\ gathered' = (IF gathered + 1 = BatchRows THEN BatchRows - 1 ELSE gathered + 1)
    /\ total' = (IF engine = "postgres" THEN total + 1
                 ELSE IF gathered + 1 = BatchRows THEN total + BatchRows ELSE total)
    /\ out' = (IF gathered + 1 = BatchRows THEN Start \o Chunk(BatchRows) ELSE <<>>)
    /\ begun' = (begun \/ gathered + 1 = BatchRows)
    /\ at' = (IF gathered + 1 = BatchRows /\ engine = "sqlite" THEN "chunk" ELSE at)
    /\ UNCHANGED <<stmtFrame, script, err, lost, hit, missed, txVars, inexact>>

\* SQLite, PostgreSQL: one row; a full chunk is sent.
Row ==
    /\ Works("rows") /\ engine # "duckdb" /\ RowsNow < MaxRows
    /\ IF gathered + 1 < BatchRows
       THEN /\ gathered' = gathered + 1 /\ UNCHANGED <<out, begun, at>>
            /\ total' = (IF engine = "postgres" THEN total + 1 ELSE total)
       ELSE /\ gathered' = 0 /\ out' = Start \o Chunk(BatchRows) /\ begun' = TRUE
            /\ total' = (IF engine = "postgres" THEN total + 1 ELSE total + BatchRows)
            /\ at' = (IF engine = "sqlite" THEN "chunk" ELSE at)
    /\ UNCHANGED <<stmtFrame, script, err, lost, hit, missed, txVars, inexact>>

\* DuckDB's chunks are sent as they come.
DuckChunk ==
    /\ Works("rows") /\ engine = "duckdb"
    /\ \E n \in 1..BatchRows :
         /\ total + n <= MaxRows
         /\ total' = total + n /\ out' = Chunk(n)
    /\ UNCHANGED <<stmtFrame, script, at, gathered, begun, err, lost, hit, missed, txVars, inexact>>

\* A chunk that cannot be converted ends the batch.  DuckDB has counted it.
Misfit ==
    /\ Works("rows") /\ engine # "postgres" /\ RowsNow < MaxRows
    /\ total' = (IF engine = "duckdb" THEN total + 1 ELSE total)
    /\ out' = Start \o <<Message(TRUE), EndItem(total')>>
    /\ inexact' = (engine = "duckdb") /\ gathered' = 0 /\ begun' = TRUE
    /\ err' = TRUE /\ at' = "finish" /\ hit' = FALSE
    /\ UNCHANGED <<stmtFrame, script, lost, missed, txVars>>

\* SQLite looks at the flag after a chunk: between a cancel and here its rows go on.
AfterChunk ==
    /\ Works("chunk")
    /\ IF signal THEN out' = <<EndItem(total)>> /\ at' = "finish" /\ hit' = FALSE
       ELSE at' = "rows" /\ UNCHANGED <<out, hit>>
    /\ UNCHANGED <<stmtFrame, script, setVars, err, lost, missed, txVars, inexact>>

\* The last row was read.  SQLite sends what it holds and then looks at the flag.
LastRow ==
    /\ Works("rows")
    /\ IF engine = "sqlite"
       THEN /\ out' = Start \o Chunk(gathered) /\ begun' = TRUE
            /\ total' = RowsNow /\ gathered' = 0 /\ at' = "last"
            /\ hit' = FALSE /\ missed' = (missed \/ hit)
            /\ UNCHANGED script
       ELSE /\ out' = Chunk(gathered) \o <<EndItem(total)>> /\ gathered' = 0
            /\ UNCHANGED <<total, begun>>
            /\ Completed
    /\ UNCHANGED <<stmtFrame, err, lost, txVars, inexact>>

AfterLast ==
    /\ Works("last")
    /\ out' = <<EndItem(total)>>
    /\ IF signal THEN at' = "finish" /\ UNCHANGED script
       ELSE script' = Tail(script) /\ at' = "next"
    /\ UNCHANGED <<stmtFrame, setVars, err, lost, hit, missed, txVars, inexact>>

\* What a failed statement leaves of an open transaction: SQLite rolls it back
\* on some errors, PostgreSQL and for most errors DuckDB refuse to go on with it.
LeftOpen ==
    IF tx # "open" THEN {tx}
    ELSE CASE engine = "sqlite" -> {"open", "none"}
           [] engine = "postgres" -> IF lost' THEN {"none"} ELSE {"aborted"}
           [] engine = "duckdb" -> {"open", "aborted"}

\* The statement fails, or notices that it was interrupted.
Fails ==
    /\ Works("run") \/ Works("rows")
    /\ lost' \in (IF engine = "postgres" THEN BOOLEAN ELSE {FALSE})
    /\ out' = CASE at = "run" \/ engine = "duckdb" -> <<Message(TRUE)>>
                [] at = "rows" /\ engine = "sqlite" -> <<Message(TRUE)>> \o Start \o Chunk(gathered) \o <<EndItem(RowsNow)>>
                [] OTHER -> Chunk(gathered) \o <<EndItem(total), Message(TRUE)>>
    /\ tx' \in LeftOpen
    /\ undecided' = (IF tx' = "open" THEN undecided ELSE 0)
    /\ err' = TRUE /\ at' = "finish" /\ hit' = FALSE
    /\ gathered' = 0 /\ total' = RowsNow
    /\ UNCHANGED <<stmtFrame, script, begun, missed, written, inexact>>

-----------------------------------------------------------------------------
(* The end of the batch                                                    *)

endFrame == <<fixed, script, setVars, pipe, err, lost, token, inexact, streamVars>>
Over(items) == out' = items \o <<Done(err, signal)>> /\ at' = "over"
RollsBack == tx' = "none" /\ undecided' = 0 /\ UNCHANGED written

\* Faulty variant: SQLite's transaction is left as it is.
FinishOpen ==
    /\ Works("finish") /\ Over(<<>>)
    /\ UNCHANGED <<endFrame, hit, missed, txVars>>

\* Faulty variant: PostgreSQL sends no ROLLBACK for a batch that was cancelled.
FinishUnlessCancelled ==
    /\ Works("finish")
    /\ CASE engine = "sqlite" /\ err /\ clean /\ tx # "none" -> RollsBack /\ Over(<<Message(FALSE)>>)
         [] engine = "postgres" /\ err /\ ~lost /\ ~signal -> at' = "rollback" /\ UNCHANGED <<out, txVars>>
         [] OTHER -> Over(<<>>) /\ UNCHANGED txVars
    /\ UNCHANGED <<endFrame, hit, missed>>

\* SQLite rolls a transaction of the failed batch's own back, PostgreSQL any;
\* DuckDB none.
Finish ==
    /\ Works("finish")
    /\ CASE engine = "sqlite" /\ err /\ clean /\ tx # "none" -> RollsBack /\ Over(<<Message(FALSE)>>)
         [] engine = "postgres" /\ err /\ ~lost -> at' = "rollback" /\ UNCHANGED <<out, txVars>>
         [] OTHER -> Over(<<>>) /\ UNCHANGED txVars
    /\ UNCHANGED <<endFrame, hit, missed>>

\* PostgreSQL's ROLLBACK, which a late cancel request may hit instead
Rollback ==
    /\ Works("rollback")
    /\ \/ RollsBack /\ hit' = FALSE /\ Over(IF tx = "none" THEN <<>> ELSE <<Message(FALSE)>>)
       \/ hit /\ Over(<<>>) /\ UNCHANGED <<hit, txVars>>
    /\ UNCHANGED <<endFrame, missed>>

-----------------------------------------------------------------------------
Next ==
    \/ Push \/ Deliver \/ Cancel \/ TokenArrives
    \/ Starts \/ EndOfScript \/ Executes \/ Selects
    \/ Row \/ DuckChunk \/ Misfit \/ AfterChunk \/ LastRow \/ AfterLast
    \/ Fails \/ Finish \/ Rollback

\* The worker goes on by itself, but for the statement it executes; one that was
\* interrupted ends.
Proceeds ==
    \/ Push \/ Starts \/ EndOfScript \/ AfterChunk \/ AfterLast \/ Finish \/ Rollback
    \/ hit /\ (Executes \/ LastRow \/ Fails)

\* After a cancel the run loop reads on whatever its row cap (actor.rs:331).
Fairness == /\ WF_vars(Proceeds)
            /\ WF_vars(signal /\ Deliver)
            /\ WF_vars(TokenArrives)

Spec == Init /\ [][Next]_vars /\ Fairness

-----------------------------------------------------------------------------
(* Properties                                                              *)

\* What ItemStream allows for an item; only a DuckDB batch that failed ends inside
\* a set.
Allowed(it) ==
    CASE it.item = "ResultSetStart" -> S!ResultSetStart
      [] it.item = "Rows" -> S!Rows(it.n)
      [] it.item = "ResultSetEnd" -> (it.n = sent \/ inexact) /\ S!ResultSetEnd(sent)
      [] it.item = "RowsAffected" -> S!RowsAffected
      [] it.item = "Message" -> S!Message(it.isError)
      [] it.item = "Done" -> /\ S!Done(it.error, it.cancelled)
                             /\ open => engine = "duckdb" /\ it.error

\* The three streams implement ItemStream, with the items in the documented order
\* (but for a DuckDB batch that fails inside a set, see EndsAsDocumented), every row read
\* once in them, and the right count at a set's end.
ScriptInOrder ==
    /\ S!StreamSpec
    /\ [][pipe # <<>> /\ Len(pipe') < Len(pipe) => Allowed(Head(pipe))]_vars

\* StreamItem's comments: "a user cancel ends with `cancelled: true` and no error"
\* (cobalt-driver/src/lib.rs:41), and a ResultSetStart has its ResultSetEnd before
\* Done (:25).
EndsAsDocumented ==
    /\ \A i \in DOMAIN pipe : pipe[i].item = "Done" => ~(pipe[i].error /\ pipe[i].cancelled)
    /\ ended => ~open

\* A cancel ends the batch, also when the worker waits for room in the channel,
\* unless it came when no statement ran (sqlite/mod.rs:290, duckdb/mod.rs:135).
ScriptCancelAnswered == signal ~> (ended \/ missed)

\* A batch that failed leaves nothing half-done: on SQLite and PostgreSQL its own
\* transaction is over unless a cancel request hit the ROLLBACK itself, nothing of
\* a BEGIN ... COMMIT that failed is written, and of one that did not fail all or,
\* when it was cancelled, nothing (sqlite/mod.rs:238, postgres/mod.rs:632).
EndsClean ==
    at = "over" /\ clean /\ ~lost =>
        /\ err /\ engine # "duckdb" => tx = "none" \/ (engine = "postgres" /\ hit)
        /\ whole /\ err => written = 0
        /\ whole /\ ~err => \/ written = changes /\ tx = "none"
                            \/ signal /\ written = 0

-----------------------------------------------------------------------------
(* The invariant behind EndsClean                                          *)

Going == at \in {"next", "run", "rows", "chunk", "last"}

\* What is written, waits and is still to come are changes of the batch.
ChangesCounted == written + undecided + Count(script, "change") <= changes

\* An error ends the batch, and only an error or a cancel leaves a part of it.
EndsForCause ==
    /\ Going => ~err
    /\ ~Going => err \/ signal \/ script = <<>>
    /\ at = "rollback" => err /\ engine = "postgres"
    /\ at \in {"run", "rows", "chunk", "last"} => script # <<>>
    /\ at \in {"rows", "chunk", "last"} => Head(script) = "select"

\* Only a cancel, of this batch or of an earlier one, interrupts a statement.
HitForCause == hit \/ token => stray \/ signal

\* Inside a transaction: its statements, up to COMMIT
Inside(s) ==
    /\ s # <<>> /\ s[Len(s)] = "commit"
    /\ \A i \in 1..Len(s) - 1 : s[i] \notin {"begin", "commit"}

\* A BEGIN ... COMMIT that was begun on a clean connection is ahead, under way or
\* written.
WholeOrNothing ==
    whole /\ clean =>
        /\ err \/ script # <<>> => written = 0
        /\ ~err /\ script # <<>> =>
             \/ tx = "none" /\ Whole(script)
             \/ tx = "open" /\ Inside(script)
        /\ ~err /\ script = <<>> => tx = "none"
        /\ ~err => written + undecided + Count(script, "change") = changes

RolledBack ==
    at = "over" /\ clean /\ ~lost /\ err /\ engine # "duckdb" =>
        tx = "none" \/ (engine = "postgres" /\ hit)

EndInv == /\ BatchTypeOK /\ ChangesCounted /\ EndsForCause /\ HitForCause
          /\ WholeOrNothing /\ RolledBack

-----------------------------------------------------------------------------
(* The invariant behind ScriptInOrder and the types of the items: what the *)
(* reader has seen, and then reads in the channel and in what the worker   *)
(* is sending, is what the worker takes it to have been told.              *)

View == [open |-> open, sent |-> sent, sets |-> sets, told |-> told, ended |-> ended]
Views == [open : BOOLEAN, sent : 0..MaxRows, sets : 0..MaxSets, told : BOOLEAN, ended : BOOLEAN]

\* What an item may depend on besides, once it holds
Now == [signal |-> signal, inexact |-> inexact, engine |-> engine]

\* The item may come next, and what the reader knows after it.
Fits(now, v, it) ==
    /\ ~v.ended
    /\ it.item = "ResultSetStart" => ~v.open /\ v.sets < MaxSets
    /\ it.item = "Rows" => v.open /\ v.sent + it.n <= MaxRows
    /\ it.item = "ResultSetEnd" => v.open /\ (it.n = v.sent \/ now.inexact)
    /\ it.item = "RowsAffected" => ~v.open
    /\ it.item = "Done" => /\ it.error => v.told
                           /\ it.cancelled => now.signal
                           /\ v.open => now.engine = "duckdb" /\ it.error

After(v, it) ==
    [open |-> it.item = "ResultSetStart" \/ (v.open /\ it.item # "ResultSetEnd"),
     sent |-> CASE it.item = "ResultSetStart" -> 0
                [] it.item = "Rows" -> v.sent + it.n
                [] OTHER -> v.sent,
     sets |-> v.sets + (IF it.item = "ResultSetStart" THEN 1 ELSE 0),
     told |-> v.told \/ it = Message(TRUE),
     ended |-> v.ended \/ it.item = "Done"]

\* The items lead from one view to the other, by the views between.
Through(now, views, v, items, w) ==
    /\ views \in [0..Len(items) -> Views] /\ views[0] = v /\ views[Len(items)] = w
    /\ \A i \in 1..Len(items) :
         Fits(now, views[i - 1], items[i]) /\ views[i] = After(views[i - 1], items[i])

Leads(now, v, items, w) == \E views : Through(now, views, v, items, w)

InSet == at \in {"rows", "chunk", "last"}

\* What the worker takes the reader to have been told
Worker(w) ==
    /\ w.ended <=> at = "over"
    /\ err => w.told
    /\ Going /\ ~InSet => ~w.open
    /\ at \in {"finish", "rollback"} /\ w.open => engine = "duckdb" /\ err
    /\ InSet => /\ w.open <=> begun
                /\ begun => w.sent + (IF engine = "postgres" THEN gathered ELSE 0) = total
    /\ Going => w.sets + Count(script, "select") <= MaxSets + (IF InSet /\ begun THEN 1 ELSE 0)

RowsGathered ==
    /\ gathered < BatchRows
    /\ engine = "sqlite" => total + gathered <= MaxRows
    /\ engine = "duckdb" => gathered = 0
    /\ at = "run" => total = 0 /\ gathered = 0 /\ ~begun
    /\ InSet => begun \/ (engine = "sqlite" /\ total = 0)
    /\ at \in {"chunk", "last"} => begun /\ engine = "sqlite"
    /\ Going => ~inexact

ItemInv ==
    /\ EndInv /\ TypeOK /\ RowsGathered
    /\ \E w \in Views : Leads(Now, View, pipe \o out, w) /\ Worker(w)
=============================================================================
