------------------------------ MODULE EditData ------------------------------
(***************************************************************************)
(* Edit Data (editq.rs): changes staged over a result grid, keyed by the   *)
(* visible row, and Save, which runs them as one BEGIN ... COMMIT through  *)
(* the tab's connection while the results with their edits are kept aside  *)
(* (edit_resume) until RunDone says whether they are written.              *)
(*                                                                         *)
(* One result set of a few rows; a change of a row is one staged edit,     *)
(* whatever its cells; what another run shows while the changes are aside  *)
(* is not sorted or edited.  An event of the session is applied in the     *)
(* step that causes it (TabSession has their delays), and what the save    *)
(* script does to the database is what ScriptStream says: all, or nothing. *)
(***************************************************************************)
EXTENDS Naturals, Sequences, FiniteSets

CONSTANTS Editable,   \* engines, of sqlite, postgres and duckdb
          Unsorted,   \* the rows of the result, in its own order
          Views,      \* what sorting and filtering make of them
          MaxTroubles, \* bound: connections lost
          MaxViewJobs \* bound: views being computed

VARIABLES engine,
          large,      \* 100 000 rows or more: views are computed in the background
          guarded,    \* the profile has the read-only guard
          order,      \* view_index: the row at each visible position
          jobs,       \* views being computed
          staged,     \* the changes: at a position, meant for the row it showed
          edits,      \* "off", "grid" (of the results shown) or "aside" (edit_resume)
          run,        \* what the tab runs or shows
          conn,
          pending,    \* pending_run
          dialog,     \* ConfirmWrite asks about the save script
          reopen,     \* edit_reopen
          \* the connection
          target,     \* the rows the save script addresses
          stuck,      \* DuckDB: the transaction of a failed save is open
          troubles,
          \* history
          landed,     \* rows written since Save was last pressed
          claimed,    \* rows the last save was pressed for
          told,       \* what the last toast said of it
          dropped,    \* its script was given up for the editor's text, or not run
          moved,      \* a view was installed under the staged changes
          shifted,    \* ... before they were saved
          stopped     \* the save was cancelled, or its connection closed

gridVars == <<large, order, jobs, staged, moved>>
dbVars == <<engine, guarded, target, stuck>>
toldVars == <<landed, claimed, told, dropped, shifted, stopped>>
vars == <<gridVars, dbVars, toldVars, edits, run, conn, pending, dialog, reopen, troubles>>

Showing(what, state) == [what |-> what, state |-> state]

Live == run.state \in {"live", "cancelling"}

Rows == {Unsorted[p] : p \in DOMAIN Unsorted}

TypeOK ==
    /\ engine \in Editable /\ large \in BOOLEAN /\ guarded \in BOOLEAN
    /\ order \in Views /\ jobs \subseteq Views
    /\ \A s \in staged : s.meant \in Rows /\ s.at \in Nat
    /\ edits \in {"off", "grid", "aside"}
    /\ run \in [what : {"none", "query", "save"}, state : {"live", "cancelling", "done", "failed"}]
    /\ conn \in {"up", "connecting", "down"}
    /\ pending \in BOOLEAN /\ dialog \in BOOLEAN /\ reopen \in BOOLEAN
    /\ target \subseteq Rows /\ landed \subseteq Rows /\ claimed \subseteq Rows
    /\ stuck \in BOOLEAN /\ troubles \in 0..MaxTroubles
    /\ told \in {"none", "saved", "failed"}
    /\ dropped \in BOOLEAN /\ moved \in BOOLEAN /\ shifted \in BOOLEAN /\ stopped \in BOOLEAN
    /\ (edits = "grid" => run.what = "query" /\ ~Live)

\* The query has run and its grid is shown.
Init ==
    /\ engine \in Editable /\ large \in BOOLEAN /\ guarded \in BOOLEAN
    /\ order = Unsorted /\ jobs = {} /\ staged = {} /\ moved = FALSE
    /\ edits = "off" /\ run = Showing("query", "done") /\ conn = "up"
    /\ pending = FALSE /\ dialog = FALSE /\ reopen = FALSE
    /\ target = {} /\ stuck = FALSE /\ troubles = 0
    /\ landed = {} /\ claimed = {} /\ told = "none"
    /\ dropped = FALSE /\ shifted = FALSE /\ stopped = FALSE

\* The user goes on: the toast of the last save and its history are past.
GoesOn ==
    /\ landed' = {} /\ claimed' = {} /\ told' = "none"
    /\ dropped' = FALSE /\ shifted' = FALSE /\ stopped' = FALSE

-----------------------------------------------------------------------------
(* The grid                                                                *)

\* A modal dialog keeps the user from the grid.
OnGrid == ~dialog /\ edits = "grid"

Begin ==
    /\ ~dialog /\ ~Live /\ run.what = "query" /\ edits = "off"
    /\ edits' = "grid" /\ staged' = {} /\ moved' = FALSE
    /\ UNCHANGED <<large, order, jobs, dbVars, toldVars, run, conn, pending, dialog, reopen, troubles>>

\* set_cell: a change is kept by its position; the original value un-stages it.
Stage(p) ==
    /\ OnGrid /\ p \in DOMAIN order
    /\ LET here == {s \in staged : s.at = p}
       IN staged' = (IF here = {} THEN staged \cup {[at |-> p, meant |-> order[p]]}
                     ELSE staged \ here)
    /\ moved' = (moved /\ staged # {}) /\ GoesOn
    /\ UNCHANGED <<large, order, jobs, dbVars, edits, run, conn, pending, dialog, reopen, troubles>>

Discard(off) ==
    /\ OnGrid /\ staged' = {} /\ moved' = FALSE
    /\ edits' = (IF off THEN "off" ELSE edits) /\ GoesOn
    /\ UNCHANGED <<large, order, jobs, dbVars, run, conn, pending, dialog, reopen, troubles>>

\* ResultsAction::ApplyView waits for the staged changes; a large set's view is
\* computed on a thread and installed when it is ready.
ApplyView(v) ==
    /\ ~dialog /\ ~Live /\ run.what = "query" /\ edits # "aside"
    /\ (edits = "grid" => staged = {})
    /\ Cardinality(jobs) < MaxViewJobs
    /\ IF large THEN jobs' = jobs \cup {v} /\ UNCHANGED order
       ELSE order' = v /\ UNCHANGED jobs
    /\ UNCHANGED <<large, staged, moved, dbVars, toldVars, edits, run, conn, pending, dialog, reopen, troubles>>

ViewReady(v) ==
    /\ v \in jobs /\ jobs' = jobs \ {v} /\ order' = v
    /\ moved' = (moved \/ (staged # {} /\ v # order))
    /\ UNCHANGED <<large, staged, dbVars, toldVars, edits, run, conn, pending, dialog, reopen, troubles>>

-----------------------------------------------------------------------------
(* Running.  run_sql takes script_override at once, in front of everything *)
(* that may keep it from running it.                                       *)

Execute(script) ==
    /\ run' = Showing(script, "live") /\ pending' = FALSE
    /\ UNCHANGED <<conn, dialog>>

\* shown: what the tab keeps showing when the script does not run now.  Without a
\* connection run_sql remembers that a run is due, and not its script; the guard
\* asks before a script that writes.
RunSql(script, shown) ==
    \/ /\ conn # "up"
       /\ pending' = TRUE /\ conn' = "connecting" /\ run' = shown /\ UNCHANGED dialog
    \/ /\ conn = "up" /\ guarded /\ script = "save"
       /\ dialog' = TRUE /\ run' = shown /\ UNCHANGED <<conn, pending>>
    \/ /\ conn = "up" /\ ~(guarded /\ script = "save")
       /\ Execute(script)

\* The statements address the rows that are at the staged positions now.
Addressed == {order[s.at] : s \in {t \in staged : t.at \in DOMAIN order}}
Meant == {s.meant : s \in staged}

\* editq::save: the results go aside and the save script runs.
Save ==
    /\ OnGrid /\ ~Live /\ Addressed # {}
    /\ edits' = "aside" /\ target' = Addressed /\ RunSql("save", Showing("none", "done"))
    /\ landed' = {} /\ claimed' = Meant /\ told' = "none" /\ stopped' = FALSE
    /\ dropped' = (conn # "up") /\ shifted' = moved
    /\ UNCHANGED <<gridVars, engine, guarded, stuck, reopen, troubles>>

\* ConfirmWrite: run anyway, or not.
Confirm ==
    /\ dialog /\ dialog' = FALSE
    /\ \/ run' = Showing("save", "live") /\ pending' = FALSE /\ UNCHANGED dropped
       \/ dropped' = TRUE /\ UNCHANGED <<run, pending>>
    /\ UNCHANGED <<gridVars, dbVars, landed, claimed, told, shifted, stopped, edits, conn, reopen, troubles>>

\* Run of the editor's text, the query: the grid and what is staged on it go.
PressRun ==
    /\ ~dialog /\ ~Live /\ RunSql("query", run)
    /\ IF conn = "up" /\ edits = "grid" THEN edits' = "off" /\ staged' = {} ELSE UNCHANGED <<edits, staged>>
    /\ IF edits = "aside" THEN UNCHANGED toldVars ELSE GoesOn
    /\ UNCHANGED <<large, order, jobs, moved, dbVars, reopen, troubles>>

Cancel ==
    /\ ~dialog /\ run.state = "live"
    /\ run' = [run EXCEPT !.state = "cancelling"]
    /\ stopped' = (stopped \/ run.what = "save")
    /\ UNCHANGED <<gridVars, dbVars, landed, claimed, told, dropped, shifted, edits, conn, pending, dialog, reopen, troubles>>

-----------------------------------------------------------------------------
(* The session's events                                                    *)

\* A new run's results come in their own order.
Fresh == order' = Unsorted /\ jobs' = {}

\* after_save, when RunDone finds edit_resume
AfterSave(ok) ==
    /\ IF ok
       THEN /\ told' = "saved" /\ staged' = {} /\ edits' = "off" /\ moved' = FALSE
            /\ reopen' = TRUE /\ RunSql("query", Showing(run.what, "done"))
       ELSE /\ told' = "failed" /\ edits' = "grid" /\ run' = Showing("query", "done")
            /\ UNCHANGED <<staged, moved, reopen, conn, pending, dialog>>
    /\ UNCHANGED <<order, jobs, claimed, dropped, shifted, stopped>>

\* The query ran again: Edit Data back on.
Reopened(ok) ==
    /\ reopen' = FALSE
    /\ edits' = (IF reopen /\ ok THEN "grid" ELSE edits)
    /\ run' = Showing(run.what, IF ok THEN "done" ELSE "failed")
    /\ Fresh /\ staged' = {} /\ moved' = FALSE /\ GoesOn
    /\ UNCHANGED <<conn, pending, dialog>>

\* Faulty variant: has_error is left out of run_ok.
RunOkLenient(error) == run.state # "cancelling"

\* run_ok of RunDone
RunOk(error) == ~error /\ run.state # "cancelling"

QueryDone(error) ==
    /\ Live /\ run.what = "query"
    /\ IF edits = "aside" THEN AfterSave(RunOk(error)) /\ UNCHANGED landed
       ELSE Reopened(RunOk(error))
    /\ UNCHANGED <<large, dbVars, troubles>>

\* The save script committed; a cancel may have come too late for it.
SaveCommits ==
    /\ Live /\ run.what = "save" /\ ~stuck
    /\ landed' = target /\ target' = {} /\ AfterSave(RunOk(FALSE))
    /\ UNCHANGED <<large, engine, guarded, stuck, troubles>>

\* It failed or was interrupted, and was rolled back; not by DuckDB, whose next
\* BEGIN then fails.
SaveFails ==
    /\ Live /\ run.what = "save"
    /\ stuck' = (stuck \/ engine = "duckdb") /\ target' = {} /\ AfterSave(RunOk(TRUE))
    /\ UNCHANGED <<large, engine, guarded, landed, troubles>>

\* ConnectionLost: the run was not executed, and is repeated after the reconnect
\* with the text of the editor.
ConnectionLost ==
    /\ Live /\ engine = "postgres" /\ troubles < MaxTroubles
    /\ troubles' = troubles + 1
    /\ run' = [run EXCEPT !.state = "failed"] /\ conn' = "connecting" /\ pending' = TRUE
    /\ dropped' = (dropped \/ run.what = "save")
    /\ UNCHANGED <<gridVars, dbVars, landed, claimed, told, shifted, stopped, edits, dialog, reopen>>

\* The user disconnects the tab; a run ends without RunDone (RunLoop), and a
\* save may have committed.
Disconnected ==
    /\ ~dialog /\ conn = "up" /\ troubles < MaxTroubles
    /\ troubles' = troubles + 1 /\ conn' = "down" /\ stuck' = FALSE
    /\ IF Live
       THEN /\ run' = [run EXCEPT !.state = "failed"]
            /\ IF run.what = "save"
               THEN /\ dropped' = TRUE /\ stopped' = TRUE
                    /\ landed' \in {landed, IF stuck THEN landed ELSE target}
               ELSE UNCHANGED <<dropped, stopped, landed>>
       ELSE UNCHANGED <<run, dropped, stopped, landed>>
    /\ UNCHANGED <<gridVars, engine, guarded, target, claimed, told, shifted, edits, pending, dialog, reopen>>

\* A database that is gone: the default one is tried, and the run is not due.
ConnectFailed ==
    /\ conn = "connecting"
    /\ \/ conn' = "down" /\ UNCHANGED pending
       \/ engine = "postgres" /\ pending' = FALSE /\ UNCHANGED conn
    /\ UNCHANGED <<gridVars, dbVars, toldVars, edits, run, dialog, reopen, troubles>>

\* Connected: a run that is due runs what the editor holds.
Connected ==
    /\ conn = "connecting" /\ conn' = "up"
    /\ IF pending
       THEN /\ run' = Showing("query", "live") /\ pending' = FALSE
            /\ IF edits = "grid" THEN edits' = "off" /\ staged' = {} ELSE UNCHANGED <<edits, staged>>
       ELSE UNCHANGED <<run, pending, edits, staged>>
    /\ UNCHANGED <<large, order, jobs, moved, dbVars, toldVars, dialog, reopen, troubles>>

\* The user connects the tab again.
Connect ==
    /\ ~dialog /\ conn = "down" /\ conn' = "connecting"
    /\ UNCHANGED <<gridVars, dbVars, toldVars, edits, run, pending, dialog, reopen, troubles>>

-----------------------------------------------------------------------------
Next ==
    \/ Begin \/ \E p \in DOMAIN Unsorted : Stage(p)
    \/ \E off \in BOOLEAN : Discard(off)
    \/ \E v \in Views : ApplyView(v) \/ ViewReady(v)
    \/ Save \/ Confirm \/ PressRun \/ Cancel \/ Connect
    \/ \E error \in BOOLEAN : QueryDone(error)
    \/ SaveCommits \/ SaveFails
    \/ ConnectionLost \/ Disconnected \/ ConnectFailed \/ Connected

Spec == Init /\ [][Next]_vars

-----------------------------------------------------------------------------
(* Properties                                                              *)

\* What the user is told of a save is what happened: "Saved" means that exactly
\* the rows that were changed on the screen are written, "nothing was written"
\* that none is, and changes that are out of sight are being saved.  Excepted by
\* name: a script that was dropped, a view that moved the rows, a save that was
\* cancelled or lost its connection (editq.rs:275, state.rs:2115).
EditsAsTold ==
    /\ told = "saved" /\ ~dropped /\ ~shifted => landed = claimed
    /\ told = "failed" /\ ~stopped => landed = {}
    /\ edits = "aside" /\ ~dropped => dialog \/ (run.what = "save" /\ Live)

\* editq.rs:6: Save runs the staged statements as one script and then the query
\* again: after "Saved" they are written.
SavedIsWritten == told = "saved" /\ ~shifted => claimed \subseteq landed

-----------------------------------------------------------------------------
(* The invariant behind EditsAsTold                                        *)

\* A staged change is at the row it is meant for until a view moves the rows.
InPlace == edits # "off" /\ ~moved =>
             \A s \in staged : s.at \in DOMAIN order /\ order[s.at] = s.meant

\* Changes that are aside are not told of yet; their script addresses the rows
\* they were made for, and has written nothing unless it was stopped.
Aside ==
    edits = "aside" =>
        /\ told = "none"
        /\ ~stopped => landed = {}
        /\ ~dropped /\ ~shifted => target = claimed

\* A save that runs or that is asked about is that of the changes aside.
OneSave ==
    /\ dialog => edits = "aside" /\ ~Live /\ conn = "up"
    /\ run.what = "save" /\ Live =>
         edits = "aside" /\ conn = "up" /\ (run.state = "cancelling" => stopped)

IInv == TypeOK /\ InPlace /\ Aside /\ OneSave /\ EditsAsTold
=============================================================================
