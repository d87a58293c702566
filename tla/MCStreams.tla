------------------------------ MODULE MCStreams ------------------------------
(***************************************************************************)
(* Small instances of the drivers' streams, and of the run loop and Run to *)
(* File, which read one.  They share no state: which of the four runs is   *)
(* chosen at the start, and the others stay where they began.              *)
(***************************************************************************)
EXTENDS Naturals, Sequences, FiniteSets, TLC

CONSTANTS BatchRows, MaxSets, PipeRoom, Capacity,
          MssqlRows, MaxNotes,          \* the SQL Server stream
          Scripts, ScriptRows,          \* the SQLite, PostgreSQL and DuckDB streams
          ExportRows, Batches, MaxPosts, \* Run to File
          LoopRows, LoopChunk, RowCap, U64Max, Fetches, LoopPosts \* the run loop

ASSUME StreamConstants ==
    /\ BatchRows \in Nat \ {0} /\ PipeRoom \in Nat \ {0} /\ Capacity \in Nat \ {0}
    /\ {MaxSets, MssqlRows, MaxNotes, ScriptRows, ExportRows, Batches, MaxPosts} \subseteq Nat
    /\ {LoopRows, LoopChunk, RowCap, U64Max, LoopPosts} \subseteq Nat
    /\ LoopRows < U64Max /\ Fetches \subseteq Nat \ {0}
    /\ Scripts # {}
    /\ \A s \in Scripts : /\ s \in Seq({"begin", "change", "select", "commit"})
                          /\ Cardinality({i \in DOMAIN s : s[i] = "select"}) <= MaxSets

\* A transaction; queries around a change; a transaction the batch leaves open;
\* one that an earlier batch left open is ended.
ScriptsDef == {<<"begin", "change", "change", "commit">>, <<"select", "change", "select">>,
               <<"begin", "select", "change">>, <<"change", "commit", "begin">>}

\* FetchMore asks for one row or for the rest.
FetchesDef == {1, U64Max}

VARIABLES
    active,
    open, sent, sets, told, ended, signal, pending, current, error, finished, broken, started, notes, deadline,
    sOpen, sSent, sSets, sTold, sEnded, sSignal,
    engine, script, at, gathered, total, begun, out, pipe, err, lost, hit, token, tx,
    undecided, made, clean, oneTx, changes, stray, missed, inexact,
    eOpen, eSent, eSets, eTold, eEnded, eSignal,
    mail, posts, gone, pc, batch, set, rsIndex, pushing, then, cancelled, failed, outcome,
    chan, writer, index, written, files, result, delivered, whole, doomed, dying,
    lOpen, lSent, lSets, lTold, lEnded, lSignal,
    lMail, lPosts, lGone, lPc, lBatch, lSet, lRows, lHeld, lCap, lCancelled, lOutcome

Mssql == INSTANCE MssqlStream WITH MaxRows <- MssqlRows
Script == INSTANCE ScriptStream WITH MaxRows <- ScriptRows, written <- made, whole <- oneTx,
    open <- sOpen, sent <- sSent, sets <- sSets, told <- sTold, ended <- sEnded, signal <- sSignal
Export == INSTANCE RunExport WITH MaxRows <- ExportRows, MaxChunk <- 1,
    open <- eOpen, sent <- eSent, sets <- eSets, told <- eTold, ended <- eEnded, signal <- eSignal
Loop == INSTANCE RunLoop WITH MaxRows <- LoopRows, MaxChunk <- LoopChunk, MaxPosts <- LoopPosts,
    open <- lOpen, sent <- lSent, sets <- lSets, told <- lTold, ended <- lEnded, signal <- lSignal,
    mail <- lMail, posts <- lPosts, gone <- lGone, pc <- lPc, batch <- lBatch, set <- lSet,
    rows <- lRows, held <- lHeld, cap <- lCap, cancelled <- lCancelled, outcome <- lOutcome

mssql == <<open, sent, sets, told, ended, signal, pending, current, error, finished, broken, started, notes, deadline>>
batches == <<sOpen, sSent, sSets, sTold, sEnded, sSignal,
             engine, script, at, gathered, total, begun, out, pipe, err, lost, hit, token, tx,
             undecided, made, clean, oneTx, changes, stray, missed, inexact>>
export == <<eOpen, eSent, eSets, eTold, eEnded, eSignal,
            mail, posts, gone, pc, batch, set, rsIndex, pushing, then, cancelled, failed, outcome,
            chan, writer, index, written, files, result, delivered, whole, doomed, dying>>
loop == <<lOpen, lSent, lSets, lTold, lEnded, lSignal,
          lMail, lPosts, lGone, lPc, lBatch, lSet, lRows, lHeld, lCap, lCancelled, lOutcome>>
allVars == <<active, mssql, batches, export, loop>>

\* the first states of the parts that do not run are cut down to one
Init ==
    /\ active \in {"mssql", "script", "export", "loop"}
    /\ Mssql!Init /\ Script!Init /\ Export!Init /\ Loop!Init
    /\ active # "mssql" => pending = <<>> /\ ~deadline
    /\ active # "script" => /\ engine = "sqlite" /\ clean
                            /\ script = CHOOSE s \in Scripts : TRUE

MssqlSteps ==
    /\ active = "mssql" /\ Mssql!Next
    /\ UNCHANGED <<active, batches, export, loop>>

ScriptSteps ==
    /\ active = "script" /\ Script!Next
    /\ UNCHANGED <<active, mssql, export, loop>>

ExportSteps ==
    /\ active = "export" /\ Export!Next
    /\ UNCHANGED <<active, mssql, batches, loop>>

LoopSteps ==
    /\ active = "loop" /\ Loop!Next
    /\ UNCHANGED <<active, mssql, batches, export>>

Next == MssqlSteps \/ ScriptSteps \/ ExportSteps \/ LoopSteps

\* the fairness the modules state
Fairness ==
    /\ WF_mssql(active = "mssql" /\ Mssql!Deliver)
    /\ WF_mssql(active = "mssql" /\ Mssql!AbortCancelled)
    /\ WF_batches(active = "script" /\ Script!Proceeds)
    /\ WF_batches(active = "script" /\ sSignal /\ Script!Deliver)
    /\ WF_batches(active = "script" /\ Script!TokenArrives)
    /\ WF_export(active = "export" /\ Export!TakesMail)
    /\ WF_export(active = "export" /\ Export!SinkPush)
    /\ WF_export(active = "export" /\ Export!Writes)
    /\ WF_export(active = "export" /\ eSignal /\ Export!Receives)
    /\ WF_loop(active = "loop" /\ Loop!TakesMail)
    /\ WF_loop(active = "loop" /\ lSignal /\ Loop!Receives)

Spec == Init /\ [][Next]_allVars /\ Fairness

-----------------------------------------------------------------------------
(* The properties of the four modules.                                     *)

\* Every variable keeps its type; the channels stay within their bounds, and no
\* unsigned count of the run loop wraps (actor.rs:405).
TypeOK == Mssql!TypeOK /\ Script!TypeOK /\ Export!TypeOK /\ Loop!TypeOK

\* MssqlStream: no row is lost or doubled between the wire and the items, with
\* the rows held back for the inference of scales (exec.rs:320).
EveryRowOnce == Mssql!EveryRowOnce

\* MssqlStream, ScriptStream: the items come in the documented order, with the
\* right counts, a `cancelled` only for a cancel (lib.rs:30).  The scripts' streams
\* keep two sentences of that document only in part, see EndsAsDocumented.
ItemsInOrder == Mssql!ItemsInOrder /\ Script!ScriptInOrder

\* ScriptStream: a cancel ends with `cancelled` and no error, and no set is open at the
\* end of a batch (lib.rs:41, :25).
EndsAsDocumented == Script!EndsAsDocumented

\* MssqlStream, ScriptStream: a cancel ends the batch, but for one that meets no
\* statement on the engines that interrupt (sqlite/mod.rs:290).
CancelAnswered == Mssql!CancelAnswered /\ Script!ScriptCancelAnswered

\* ScriptStream: a failed batch leaves nothing half-done, but for a ROLLBACK that a
\* cancel request hit (sqlite/mod.rs:238, postgres/mod.rs:632).
EndsClean == Script!EndsClean

\* RunExport: a kept file has the rows the driver delivered (ops.rs:2229).
KeptAsDelivered == Export!KeptAsDelivered

\* RunExport: the set that is open when the run is cancelled leaves no file.
CancelDiscards == Export!CancelDiscards

\* RunExport: a run and an export reported as successful have all files.
DoneMeansAllWritten == Export!DoneMeansAllWritten

\* RunExport: a cancelled run and its export both end.
ExportSettles == active = "export" => Export!ExportSettles

\* RunLoop: the rows shown and the rows held back are the rows delivered, however
\* FetchMore requests cut a set up (actor.rs:405).
RowsConserved == Loop!RowsConserved

\* RunLoop: the grid says Paused exactly when the loop stopped reading (actor.rs:359).
PausedIffBlocked == Loop!PausedIffBlocked

\* RunLoop: a set of a run that was not cancelled is closed with all its rows
\* (actor.rs:433).
ClosedWithAllRows == Loop!ClosedWithAllRows

\* RunLoop: no row reaches the grid after a cancel (actor.rs:376).
NothingShownAfterCancel == Loop!NothingShownAfterCancel

\* RunLoop: a cancel ends the run, also when it waits at the row cap (actor.rs:325).
CancelEnds == active = "loop" => Loop!CancelEnds

\* RunLoop: the loop implements the contract of a run (protocol.rs:107).
RunsAsPromised == Loop!RunsAsPromised
=============================================================================
