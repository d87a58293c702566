------------------------------ MODULE ImportRun ------------------------------
(***************************************************************************)
(* Import Data: a reader thread cuts a file into batches and sends them    *)
(* through a bounded channel to the actor of the tab, which loads them in  *)
(* one transaction (start_import of cobalt-app/src/ops.rs, run_import of   *)
(* cobalt-app/src/session/actor.rs and the bulk_insert of each driver).    *)
(* The dialog, the reader and the loader share one cancel flag.            *)
(*                                                                         *)
(* Abstracted: columns, conversions, the text of errors, the table that    *)
(* may be created first.                                                   *)
(***************************************************************************)
EXTENDS Naturals, Sequences

CONSTANTS Engines,   \* of "mssql", "sqlite", "postgres", "duckdb"
          Batches,   \* what the file holds
          QueueRoom  \* capacity of the channel

VARIABLES engine, cancel,
          dialog,    \* "running", then the result it shows
          reader,    \* "next", "batch" or "bad" (about to send one), "gone"
          taken,     \* batches the reader has read
          channel,   \* of "batch", "bad"
          loader,    \* where the actor is
          loaded,    \* batches in the table, seen from inside the transaction
          tx,        \* "none", "open", "committed", "rolledback"
          why,       \* the error bulk_insert returned
          told,      \* result of ImportDone: "none" before it
          doubtful   \* the connection was lost under the COMMIT

flags == <<engine, cancel>>
readerVars == <<reader, taken>>
importVars == <<flags, dialog, readerVars, channel, loader, loaded, tx, why, told, doubtful>>

TypeOK ==
    /\ engine \in Engines /\ cancel \in BOOLEAN /\ doubtful \in BOOLEAN
    /\ dialog \in {"running", "ok", "failed", "cancelled"}
    /\ reader \in {"next", "batch", "bad", "gone"} /\ taken \in 0..Batches
    /\ channel \in Seq({"batch", "bad"}) /\ Len(channel) <= QueueRoom
    /\ loader \in {"sent", "dropped", "create", "begin", "first", "load", "progress", "finish",
                   "commit", "rollback", "over"}
    /\ loaded \in 0..taken
    /\ tx \in {"none", "open", "committed", "rolledback"}
    /\ why \in {"none", "failed", "cancelled"}
    /\ told \in {"none", "ok", "failed", "cancelled"}

\* start_import: the flag is cleared and the reader started before Command::Import is sent
Init ==
    /\ engine \in Engines /\ cancel = FALSE /\ dialog = "running"
    /\ reader = "next" /\ taken = 0 /\ channel = <<>>
    /\ loader = "sent" /\ loaded = 0 /\ tx = "none"
    /\ why = "none" /\ told = "none" /\ doubtful = FALSE

-----------------------------------------------------------------------------
(* The dialog                                                              *)

CancelImport ==
    /\ dialog = "running" /\ ~cancel /\ cancel' = TRUE
    /\ UNCHANGED <<engine, dialog, readerVars, channel, loader, loaded, tx, why, told, doubtful>>

\* Event::ImportDone
ReadsResult ==
    /\ dialog = "running" /\ told # "none" /\ dialog' = told
    /\ UNCHANGED <<flags, readerVars, channel, loader, loaded, tx, why, told, doubtful>>

-----------------------------------------------------------------------------
(* The reader thread                                                       *)

\* the flag is looked at once an item is there, before it is sent
ReadItem ==
    /\ reader = "next" /\ taken < Batches /\ ~cancel
    /\ taken' = taken + 1 /\ reader' \in {"batch", "bad"}
    /\ UNCHANGED <<flags, dialog, channel, loader, loaded, tx, why, told, doubtful>>

\* the end of the file and a cancel look the same from the other end: no more senders
ReaderStops ==
    /\ reader = "next" /\ (taken = Batches \/ cancel)
    /\ reader' = "gone"
    /\ UNCHANGED <<flags, dialog, taken, channel, loader, loaded, tx, why, told, doubtful>>

ReceiverGone == loader \in {"dropped", "finish", "commit", "rollback", "over"}

\* tx.send waits for room; a bad item is the last one
SendItem ==
    /\ reader \in {"batch", "bad"}
    /\ \/ ReceiverGone /\ reader' = "gone" /\ UNCHANGED channel
       \/ /\ ~ReceiverGone /\ Len(channel) < QueueRoom
          /\ channel' = Append(channel, reader)
          /\ reader' = (IF reader = "bad" THEN "gone" ELSE "next")
    /\ UNCHANGED <<flags, dialog, taken, loader, loaded, tx, why, told, doubtful>>

Reader == ReadItem \/ ReaderStops \/ SendItem

-----------------------------------------------------------------------------
(* The actor                                                               *)

\* the actor takes the message; one that runs a script or has lost its connection drops it
Pickup ==
    /\ loader = "sent" /\ loader' \in {"create", "dropped"}
    /\ UNCHANGED <<flags, dialog, readerVars, channel, loaded, tx, why, told, doubtful>>

Ends(result) == loader' = "over" /\ told' = result

\* CREATE TABLE, for a new table
Create ==
    /\ loader = "create"
    /\ \/ loader' = "begin" /\ UNCHANGED told
       \/ Ends("failed")
    /\ UNCHANGED <<flags, dialog, readerVars, channel, loaded, tx, why, doubtful>>

BeginTransaction ==
    /\ loader = "begin"
    /\ \/ tx' = "open" /\ loader' = (IF engine = "mssql" THEN "load" ELSE "first") /\ UNCHANGED told
       \/ Ends("failed") /\ UNCHANGED tx
    /\ UNCHANGED <<flags, dialog, readerVars, channel, loaded, why, doubtful>>

GiveUp(reason) == loader' = "rollback" /\ why' = reason

\* progress answers FALSE after a cancel; all but SQL Server ask before the first batch
ReportProgress ==
    /\ loader \in {"first", "progress"}
    /\ IF cancel THEN GiveUp("cancelled") ELSE loader' = "load" /\ UNCHANGED why
    /\ UNCHANGED <<flags, dialog, readerVars, channel, loaded, tx, told, doubtful>>

\* a bad item is taken for the end of the file
BadIsTheEnd ==
    /\ loader = "load"
    /\ \/ /\ channel # <<>> /\ channel' = Tail(channel)
          /\ \/ /\ Head(channel) = "batch" /\ loaded' = loaded + 1 /\ UNCHANGED why
                /\ loader' = (IF engine = "duckdb" THEN "load" ELSE "progress")
             \/ Head(channel) = "batch" /\ GiveUp("failed") /\ UNCHANGED loaded
             \/ Head(channel) = "bad" /\ loader' = "finish" /\ UNCHANGED <<loaded, why>>
       \/ /\ channel = <<>> /\ reader = "gone" /\ loader' = "finish"
          /\ UNCHANGED <<channel, loaded, why>>
    /\ UNCHANGED <<flags, dialog, readerVars, tx, told, doubtful>>

\* rx.recv(): DuckDB reads the batches as one view and reports after the last
Receive ==
    /\ loader = "load"
    /\ \/ /\ channel # <<>> /\ channel' = Tail(channel)
          /\ \/ /\ Head(channel) = "batch" /\ loaded' = loaded + 1 /\ UNCHANGED why
                /\ loader' = (IF engine = "duckdb" THEN "load" ELSE "progress")
             \/ GiveUp("failed") /\ UNCHANGED loaded
       \/ /\ channel = <<>> /\ reader = "gone" /\ loader' = "finish"
          /\ UNCHANGED <<channel, loaded, why>>
    /\ UNCHANGED <<flags, dialog, readerVars, tx, told, doubtful>>

\* finalize of the bulk request, close of the COPY, the last progress of DuckDB
FinishLoad ==
    /\ loader = "finish"
    /\ \/ ~(engine = "duckdb" /\ cancel) /\ loader' = "commit" /\ UNCHANGED why
       \/ engine \in {"mssql", "postgres"} /\ GiveUp("failed")
       \/ engine = "duckdb" /\ cancel /\ GiveUp("cancelled")
    /\ UNCHANGED <<flags, dialog, readerVars, channel, loaded, tx, told, doubtful>>

\* DriverError::Disconnected: no rollback is sent, the server does it
ConnectionLost ==
    /\ loader \in {"load", "finish"} /\ engine \in {"mssql", "postgres"}
    /\ tx' = "rolledback" /\ Ends("failed")
    /\ UNCHANGED <<flags, dialog, readerVars, channel, loaded, why, doubtful>>

\* after a COMMIT that is refused nothing rolls back but the Postgres driver (postgres/mod.rs:630)
Commit ==
    /\ loader = "commit"
    /\ \/ tx' = "committed" /\ Ends("ok") /\ UNCHANGED doubtful
       \/ /\ tx' = (IF engine = "postgres" THEN "rolledback" ELSE "open")
          /\ Ends("failed") /\ UNCHANGED doubtful
       \/ /\ engine \in {"mssql", "postgres"} /\ doubtful' = TRUE
          /\ tx' \in {"committed", "rolledback"} /\ Ends("failed")
    /\ UNCHANGED <<flags, dialog, readerVars, channel, loaded, why>>

\* the statement for all but SQLite is T-SQL: DuckDB refuses it, and so does Postgres,
\* whose driver then ends the transaction itself
Rollback ==
    /\ loader = "rollback"
    /\ tx' = (IF engine = "duckdb" THEN "open" ELSE "rolledback")
    /\ Ends(why)
    /\ UNCHANGED <<flags, dialog, readerVars, channel, loaded, why, doubtful>>

Loader == \/ Pickup \/ Create \/ BeginTransaction \/ ReportProgress \/ Receive \/ FinishLoad
          \/ ConnectionLost \/ Commit \/ Rollback

Next == CancelImport \/ ReadsResult \/ Reader \/ Loader

\* both threads run, and the user interface reads its events
Spec == /\ Init /\ [][Next]_importVars
        /\ WF_importVars(Reader) /\ WF_importVars(Loader) /\ WF_importVars(ReadsResult)

-----------------------------------------------------------------------------
(* Properties                                                              *)

\* What the dialog is told is what happened to the table: "imported" only for
\* the whole file, or for the part read before a cancel, and "failed" and
\* "cancelled" only for nothing, unless the connection went away under the
\* COMMIT; and the transaction is over, but for a refused COMMIT and for DuckDB
\* (actor.rs:213).
ImportToldRight ==
    /\ told = "ok" => tx = "committed" /\ (loaded = Batches \/ cancel)
    /\ told \in {"failed", "cancelled"} => tx # "committed" \/ doubtful
    /\ told = "cancelled" => cancel
    /\ told # "none" /\ tx = "open" => engine = "duckdb" \/ why = "none"

\* The threads end, and a dialog whose message was not dropped gets its result,
\* with the channel full or the receiver gone too (ops.rs:2391).
ImportEnds == <>(reader = "gone" /\ (loader = "dropped" \/ dialog # "running"))

\* "a failure or cancel leaves nothing behind" (mssql/bulk.rs:2): what is
\* committed is the whole file, or nothing of it.
WholeOrNothing == tx = "committed" => loaded \in {0, Batches}

-----------------------------------------------------------------------------
(* The inductive invariant                                                 *)

Loading == loader \in {"sent", "create", "begin", "first", "load", "progress"}

\* Until the load is over every batch read is in the table, in the channel or in
\* the reader's hands.
BatchesKept ==
    Loading => loaded + Len(channel) + (IF reader \in {"batch", "bad"} THEN 1 ELSE 0) = taken

\* A reader that is gone has read the file, was cancelled, or has sent the bad
\* item it stopped at, which the loader cannot load.
GoneForCause ==
    /\ Loading /\ reader = "gone"
          => taken = Batches \/ cancel \/ (channel # <<>> /\ channel[Len(channel)] = "bad")
    /\ loader \in {"finish", "commit"} => loaded = Batches \/ cancel

\* Where the transaction is, and why it is to be rolled back.
TxAtStep ==
    /\ told = "none" <=> loader # "over"
    /\ loader \in {"sent", "dropped", "create", "begin"} => tx = "none"
    /\ loader \in {"first", "load", "progress", "finish", "commit", "rollback"} => tx = "open"
    /\ loader = "rollback" => why # "none"
    /\ loader \notin {"rollback", "over"} => why = "none"
    /\ why = "cancelled" => cancel

IInv == TypeOK /\ BatchesKept /\ GoneForCause /\ TxAtStep /\ ImportToldRight
=============================================================================
