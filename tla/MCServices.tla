----------------------------- MODULE MCServices -----------------------------
(***************************************************************************)
(* Small instances of the ten components that share no state with each     *)
(* other: the installer, a run on a Local tab, a run on a DAX tab, an      *)
(* import, a metadata session, hot exit, the result sets, the tokens of a  *)
(* profile, Edit Data and the cells of a notebook.  One of them, chosen at *)
(* the start, runs and the others stay where they began, so that the       *)
(* states are those of the ten one after another.                          *)
(***************************************************************************)
EXTENDS Naturals, Sequences, FiniteSets

CONSTANTS Spark, Sail, Whole, MaxJobs, MaxTrouble,
          Statements, MaxRows, MaxChunk, RowCap, U64Max, MaxAsks,
          MaxItems, Preview, SinkRoom,
          Engines, Batches, QueueRoom,
          MaxReqs, MaxDeaths, MaxLeaves,
          Tabs, MaxText, MaxFaults, MaxCloses,
          Sets, MaxSize, MaxChunks, MaxSpillFaults, Limits,
          Requests, Resources, Accounts, NoAccount,
          Editable, Unsorted, Views, MaxTroubles, MaxViewJobs,
          Cells, Foreign, Writing, MaxPresses

\* the bounds are numbers, and no counter of rows gets as far as u64::MAX
ASSUME ServiceConstants ==
    /\ {Statements, MaxRows, MaxChunk, RowCap, U64Max, MaxAsks, MaxItems, Preview, SinkRoom,
        Batches, QueueRoom, Whole, MaxJobs, MaxTrouble, MaxText, MaxFaults, MaxCloses,
        MaxTroubles, MaxViewJobs, MaxPresses, MaxSize, MaxChunks, MaxSpillFaults,
        MaxReqs, MaxDeaths, MaxLeaves} \subseteq Nat
    /\ RowCap <= U64Max /\ MaxRows < U64Max

\* the result sets are finitely many; a limit is a number of bytes
ASSUME SetConstants == IsFiniteSet(Sets) /\ Limits \subseteq Nat

\* sorting and filtering keep to the rows of the result; a notebook has a cell once
ASSUME GridConstants == Unsorted \in Views /\ Views \subseteq Seq({Unsorted[p] : p \in DOMAIN Unsorted})
ASSUME CellConstants ==
    LET all == {Cells[i] : i \in DOMAIN Cells}
    IN /\ Cells \in Seq(all) /\ "none" \notin all
       /\ \A i, j \in DOMAIN Cells : Cells[i] = Cells[j] => i = j

\* "fetch more": one row, or the rest
More == {1, U64Max}

\* a result of two rows, sorted both ways and filtered
UnsortedDef == <<1, 2>>
ViewsDef == {<<1, 2>>, <<2, 1>>, <<2>>}

\* a cell, one that writes and one that is skipped
CellsDef == <<"plain", "writes", "foreign">>

VARIABLES
    active,
    part, file, uvExe, jdkDir, env, saved, kind, target, jobPc, arch, next, rec, jobCancel,
    result, jobs, trouble, calm, tainted,
    runCancel, more, permit, view, events, asks, runPc, statement, rows, cap, pending, set,
    sent, cancelled, failed, outcome,
    daxView, daxEvents, flag, at, current, shown, rowsInSet, items, pushing, stopped, daxFailed,
    daxOutcome, sink, queue, writer, fileEnd,
    engine, importCancel, dialog, reader, taken, channel, loader, loaded, tx, why, told, inDoubt,
    creds, signing, list, awaited, asked, leaves, kindOf, bornIn, cmds, answers, entry, actors,
    box, life, conn, req, again, ok, deaths, dropped,
    running, open, tab, sweep, closing, snapshots, disk, faults, closes, doubtful,
    limit, used, ceiling, setLife, chunks, inMem, spilling, short, files, torn, spillFaults,
    cache, secret, step, way, resource, held, seen, out, settled,
    edEngine, large, guarded, order, edJobs, staged, edits, edRun, edConn, edPending, edDialog, reopen,
    edTarget, stuck, troubles, landed, claimed, edTold, edDropped, moved, shifted, edStopped,
    nbQueue, cell, text, nbConn, nbPending, readOnly, exec, presses, nbTroubles, owed, unasked, lost, stranded

Job == INSTANCE Installer WITH pc <- jobPc, cancel <- jobCancel
Run == INSTANCE LocalRun WITH pc <- runPc, cancel <- runCancel
Dax == INSTANCE TabularRun WITH
    view <- daxView, events <- daxEvents, failed <- daxFailed, outcome <- daxOutcome
Import == INSTANCE ImportRun WITH cancel <- importCancel, doubtful <- inDoubt
Meta == INSTANCE MetaSession
Hot == INSTANCE HotExit WITH rows <- snapshots
Res == INSTANCE ResultSets WITH life <- setLife
Auth == INSTANCE AuthTokens
Edit == INSTANCE EditData WITH
    engine <- edEngine, jobs <- edJobs, run <- edRun, conn <- edConn, pending <- edPending,
    dialog <- edDialog, target <- edTarget, told <- edTold, dropped <- edDropped, stopped <- edStopped
Nb == INSTANCE NotebookCells WITH
    queue <- nbQueue, conn <- nbConn, pending <- nbPending, guarded <- readOnly, troubles <- nbTroubles

Parts == {"job", "run", "dax", "import", "meta", "hot", "sets", "tokens", "edit", "cells"}

job == <<part, file, uvExe, jdkDir, env, saved, kind, target, jobPc, arch, next, rec, jobCancel,
         result, jobs, trouble, calm, tainted>>
run == <<runCancel, more, permit, view, events, asks, runPc, statement, rows, cap, pending, set,
         sent, cancelled, failed, outcome>>
dax == <<daxView, daxEvents, flag, at, current, shown, rowsInSet, items, pushing, stopped, daxFailed,
         daxOutcome, sink, queue, writer, fileEnd>>
import == <<engine, importCancel, dialog, reader, taken, channel, loader, loaded, tx, why, told, inDoubt>>
meta == <<creds, signing, list, awaited, asked, leaves, kindOf, bornIn, cmds, answers, entry,
          actors, box, life, conn, req, again, ok, deaths, dropped>>
hot == <<running, open, tab, sweep, closing, snapshots, disk, faults, closes, doubtful>>
sets == <<limit, used, ceiling, setLife, chunks, inMem, spilling, short, files, torn, spillFaults>>
tokens == <<cache, secret, step, way, resource, held, seen, out, settled>>
edit == <<edEngine, large, guarded, order, edJobs, staged, edits, edRun, edConn, edPending, edDialog,
          reopen, edTarget, stuck, troubles, landed, claimed, edTold, edDropped, moved, shifted, edStopped>>
cells == <<nbQueue, cell, text, nbConn, nbPending, readOnly, exec, presses, nbTroubles, owed, unasked,
           lost, stranded>>
allVars == <<active, job, run, dax, import, meta, hot, sets, tokens, edit, cells>>

\* the first states of the parts that do not run are cut down to one
Init ==
    /\ active \in Parts
    /\ Job!Init /\ Run!Init /\ Dax!Init /\ Import!Init /\ Meta!Init /\ Hot!Init /\ Res!Init /\ Auth!Init
    /\ Edit!Init /\ Nb!Init
    /\ active # "run" => cap = RowCap
    /\ active # "dax" => sink
    /\ active # "import" => engine = CHOOSE e \in Engines : TRUE
    /\ active # "sets" => limit = 1
    /\ active # "tokens" => /\ way = [q \in Requests |-> "silent"]
                           /\ resource = [q \in Requests |-> CHOOSE r \in Resources : TRUE]
    /\ IF active = "edit"
       \* what the guard asks and what the views do are apart
       THEN guarded => ~large /\ edEngine = "postgres"
       ELSE ~guarded /\ ~large /\ edEngine = CHOOSE e \in Editable : TRUE
    /\ active # "cells" => nbConn = "up" /\ ~readOnly

JobSteps ==
    /\ active = "job" /\ Job!Next
    /\ UNCHANGED <<active, run, dax, import, meta, hot, sets, tokens, edit, cells>>

RunSteps ==
    /\ active = "run" /\ Run!Next
    /\ UNCHANGED <<active, job, dax, import, meta, hot, sets, tokens, edit, cells>>

DaxSteps ==
    /\ active = "dax" /\ Dax!Next
    /\ UNCHANGED <<active, job, run, import, meta, hot, sets, tokens, edit, cells>>

ImportSteps ==
    /\ active = "import" /\ Import!Next
    /\ UNCHANGED <<active, job, run, dax, meta, hot, sets, tokens, edit, cells>>

MetaSteps ==
    /\ active = "meta" /\ Meta!Next
    /\ UNCHANGED <<active, job, run, dax, import, hot, sets, tokens, edit, cells>>

HotSteps ==
    /\ active = "hot" /\ Hot!Next
    /\ UNCHANGED <<active, job, run, dax, import, meta, sets, tokens, edit, cells>>

ResSteps ==
    /\ active = "sets" /\ Res!Next
    /\ UNCHANGED <<active, job, run, dax, import, meta, hot, tokens, edit, cells>>

AuthSteps ==
    /\ active = "tokens" /\ Auth!Next
    /\ UNCHANGED <<active, job, run, dax, import, meta, hot, sets, edit, cells>>

EditSteps ==
    /\ active = "edit" /\ Edit!Next
    /\ UNCHANGED <<active, job, run, dax, import, meta, hot, sets, tokens, cells>>

CellSteps ==
    /\ active = "cells" /\ Nb!Next
    /\ UNCHANGED <<active, job, run, dax, import, meta, hot, sets, tokens, edit>>

Next == \/ JobSteps \/ RunSteps \/ DaxSteps \/ ImportSteps \/ MetaSteps
        \/ HotSteps \/ ResSteps \/ AuthSteps \/ EditSteps \/ CellSteps

\* the fairness the modules state
Fairness ==
    /\ WF_run(active = "run" /\ Run!Task) /\ WF_run(active = "run" /\ Run!Reads)
    /\ WF_dax(active = "dax" /\ Dax!Task) /\ WF_dax(active = "dax" /\ Dax!ReadsEvent)
    /\ WF_dax(active = "dax" /\ Dax!Writes)
    /\ WF_import(active = "import" /\ Import!Reader) /\ WF_import(active = "import" /\ Import!Loader)
    /\ WF_import(active = "import" /\ Import!ReadsResult)
    /\ WF_meta(active = "meta" /\ Meta!Reads)
    /\ WF_meta(active = "meta" /\ Meta!Dispatch)
    /\ \A a \in Meta!Actors : WF_meta(active = "meta" /\ Meta!Works(a))

Spec == Init /\ [][Next]_allVars /\ Fairness

-----------------------------------------------------------------------------
(* The properties of the ten modules.                                      *)

\* Every variable keeps its type; the unsigned counters of a Local run and of
\* the memory budget never wrap (localq.rs:632).
TypeOK == /\ Job!TypeOK /\ Run!TypeOK /\ Dax!TypeOK /\ Import!TypeOK /\ Meta!TypeOK
          /\ Hot!TypeOK /\ Res!TypeOK /\ Auth!TypeOK /\ Edit!TypeOK /\ Nb!TypeOK

\* Installer: a job nobody disturbs fails only for the three known leftovers of
\* earlier ones, and runtime.json names only what is there (install.rs:130, :164, :783).
InstallsAsPromised == []Job!FailsOnlyForCause /\ Job!RecordedWhenDone

\* LocalRun, TabularRun: both implement RunContract, and a Local run neither loses
\* nor repeats the rows of a batch cut at the cap (localq.rs:632, tabular.rs:149).
EnginesAsPromised ==
    /\ Run!LocalRunsAsPromised /\ []Run!LocalRowsConserved
    /\ Dax!TabularRunsAsPromised

\* LocalRun, TabularRun, ImportRun, MetaSession: "fetch more" and Cancel get a waiting
\* Local run going; a DAX run, an import and its reader thread end; a metadata request
\* is answered unless it waited behind a failed one (localq.rs:649, ops.rs:2391,
\* actor.rs:553).
WorkEnds ==
    /\ Run!RequestsWake
    /\ active = "dax" => Dax!TabularEnds
    /\ active = "import" => Import!ImportEnds
    /\ Meta!MetaAnswered

\* ImportRun, TabularRun: what the dialog and the writer of the file are told is what
\* happened (actor.rs:213, tabular.rs:239).
ToldRight == Import!ImportToldRight /\ Dax!FileEndsAsRun

\* MetaSession: the explorer shows the latest list it has been given (mod.rs:210).
LatestListShown == Meta!LatestListShown

\* ResultSets: the budget counts what is in memory, and holds, measured by the highest
\* limit so far (lib.rs:183).
BudgetHeld == Res!BudgetHeld

\* AuthTokens: a sign-out that meets no request is for good (provider.rs:214).
SignOutSticks == Auth!SignOutSticks

\* HotExit: stored texts survive the end of the program, and a tab shown as
\* saved is on disk (ops.rs:1501).
WorkIsKept == Hot!WorkIsKept

\* EditData: what the user is told of a save is what happened (editq.rs:275).
EditsAsTold == Edit!EditsAsTold

\* NotebookCells: a cell runs only when it was asked for, and cells that are queued
\* are moved on (notebook.rs:986).
CellsAsQueued == Nb!CellsAsQueued

\* EditData: after "Saved" the changes are written (editq.rs:6).
SavedIsWritten == Edit!SavedIsWritten
=============================================================================
