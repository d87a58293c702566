--------------------------- MODULE NotebookCells ---------------------------
(***************************************************************************)
(* The queue of cells of a notebook whose code cells run through the tab's *)
(* connection (notebook.rs): presses queue cells, pump sends the first one *)
(* when no cell runs, and is called again by RunDone and by a connection.  *)
(*                                                                         *)
(* A cell's run is one step of the session (RunLoop has its inside), and   *)
(* an event is applied in the step that causes it (TabSession has the      *)
(* delays).  Cells on the Spark kernel are in SparkKernel.                 *)
(***************************************************************************)
EXTENDS Naturals, Sequences, FiniteSets, SequencesExt

CONSTANTS Cells,     \* the cells in the notebook's order
          Foreign,   \* cells of another language, or empty
          Writing,   \* cells a read-only connection refuses
          MaxPresses, MaxTroubles \* bounds: presses of a run button, sessions lost or refused

VARIABLES queue,
          cell,      \* RunViewState of each cell's run
          text,      \* cells that are not code now, or deleted
          conn, pending, guarded,
          exec,      \* the cell the session executes
          presses, troubles,
          \* history
          owed,      \* cells asked for, and neither run nor taken back since
          unasked,   \* cells that were run without being owed
          lost,      \* a session was lost, or busy, under a cell
          stranded   \* the queue was left when its database was gone

nbVars == <<queue, cell, text, pending>>
history == <<owed, unasked, lost, stranded>>
vars == <<nbVars, conn, guarded, exec, presses, troubles, history>>

All == {Cells[i] : i \in DOMAIN Cells}
None == "none"
Live(c) == cell[c] \in {"live", "cancelling"}

Distinct(s) == \A i, j \in DOMAIN s : s[i] = s[j] => i = j

TypeOK ==
    /\ queue \in Seq(All) /\ Distinct(queue)
    /\ cell \in [All -> {"none", "live", "cancelling", "done", "failed", "cancelled"}]
    /\ text \subseteq All /\ exec \in All \cup {None}
    /\ conn \in {"up", "connecting", "down"} /\ pending \in BOOLEAN /\ guarded \in BOOLEAN
    /\ presses \in 0..MaxPresses /\ troubles \in 0..MaxTroubles
    /\ owed \subseteq All /\ unasked \subseteq All
    /\ lost \in BOOLEAN /\ stranded \in BOOLEAN

Init ==
    /\ queue = <<>> /\ cell = [c \in All |-> "none"] /\ text = {}
    /\ conn \in {"up", "down"} /\ pending = FALSE /\ guarded \in BOOLEAN
    /\ exec = None /\ presses = 0 /\ troubles = 0
    /\ owed = {} /\ unasked = {} /\ lost = FALSE /\ stranded = FALSE

-----------------------------------------------------------------------------
(* pump                                                                    *)

\* The rest of a queue from its first cell that is not skipped.
From(q, skipped) ==
    LET passed == {i \in DOMAIN q : \A j \in 1..i : q[j] \in skipped}
    IN SubSeq(q, Cardinality(passed) + 1, Len(q))

\* These cells in the notebook's order: the one sequence of this set.
InOrder(some) ==
    {s \in [1..Cardinality(some) -> some] :
       \A i, j \in 1..Cardinality(some) : i < j =>
         \E m, n \in DOMAIN Cells : m < n /\ s[i] = Cells[m] /\ s[j] = Cells[n]}

Pumped(q, sends, connects) == [queue |-> q, sends |-> sends, connects |-> connects]

\* Cells of another language and empty ones are passed over once connected; a
\* read-only connection drops the queue at a statement that writes.
PumpConnected(q) ==
    LET r == From(q, text \cup Foreign)
    IN IF r = <<>> \/ (guarded /\ Head(r) \in Writing) THEN Pumped(<<>>, None, FALSE)
       ELSE Pumped(Tail(r), Head(r), FALSE)

\* runs: a cell is shown as running; up: the tab is connected
Pump(q, runs, failed, up) ==
    LET r == From(q, text)
    IN CASE failed -> Pumped(<<>>, None, FALSE)
         [] ~failed /\ runs -> Pumped(q, None, FALSE)
         [] ~failed /\ ~runs /\ r # <<>> /\ ~up -> Pumped(r, None, TRUE)
         [] OTHER -> PumpConnected(r)

\* What pump does to a tab that shows these runs, whose session executes busy,
\* and whose user wants these cells.  A busy session drops a Run without a word.
Pumps(p, shown, busy, wanted) ==
    /\ queue' = p.queue
    /\ cell' = (IF p.sends = None THEN shown ELSE [shown EXCEPT ![p.sends] = "live"])
    /\ exec' = (IF p.sends = None \/ busy # None THEN busy ELSE p.sends)
    /\ lost' = (lost \/ (p.sends # None /\ busy # None))
    /\ unasked' = unasked \cup ({p.sends} \ (wanted \cup {None}))
    /\ owed' = wanted \ {p.sends}

Running(shown) == \E c \in All : shown[c] \in {"live", "cancelling"}

-----------------------------------------------------------------------------
(* The user                                                                *)

\* run_cells: those that are code and not queued are queued.
RunCells(some) ==
    /\ presses < MaxPresses /\ presses' = presses + 1
    /\ \E added \in InOrder(some \ (text \cup ToSet(queue))) :
         LET p == Pump(queue \o added, Running(cell), FALSE, conn = "up")
         IN /\ Pumps(p, cell, exec, owed \cup (some \ text))
            /\ IF p.connects THEN conn' = "connecting" /\ pending' = TRUE
               ELSE pending' = (pending /\ p.sends = None) /\ UNCHANGED conn
    /\ UNCHANGED <<text, guarded, troubles, stranded>>

\* Run of the selected cell or of all; cells already queued are pumped instead.
PressRun(some) ==
    IF queue = <<>> THEN RunCells(some) ELSE RunCells({})

\* Faulty variant: Cancel leaves the queue to the cell's own end.
CancelRunOnly ==
    /\ cell' = [c \in All |-> IF Live(c) THEN "cancelling" ELSE cell[c]] /\ owed' = {}
    /\ UNCHANGED <<queue, text, pending, conn, guarded, exec, presses, troubles,
                   unasked, lost, stranded>>

\* Cancel: of all that is queued, and of the cell that runs
Cancel ==
    /\ queue' = <<>> /\ owed' = {}
    /\ cell' = [c \in All |-> IF Live(c) THEN "cancelling" ELSE cell[c]]
    /\ UNCHANGED <<text, pending, conn, guarded, exec, presses, troubles,
                   unasked, lost, stranded>>

\* of one cell: the queue has it once
Dequeue(c) ==
    /\ \E i \in DOMAIN queue : queue[i] = c /\ queue' = RemoveAt(queue, i)
    /\ owed' = owed \ {c}
    /\ UNCHANGED <<cell, text, pending, conn, guarded, exec, presses, troubles,
                   unasked, lost, stranded>>

\* set_kind, to Markdown and back: the run goes, live or not; the queue keeps the cell.
SetKind(c) ==
    /\ text' = (IF c \in text THEN text \ {c} ELSE text \cup {c})
    /\ cell' = [cell EXCEPT ![c] = "none"] /\ presses < MaxPresses /\ presses' = presses + 1
    /\ UNCHANGED <<queue, pending, conn, guarded, exec, troubles, history>>

\* A run that is closed under way does not end (RunLoop), and the cell stays live.
Disconnect ==
    /\ conn = "up" /\ troubles < MaxTroubles
    /\ conn' = "down" /\ troubles' = troubles + 1
    /\ exec' = None /\ lost' = (lost \/ exec # None)
    /\ UNCHANGED <<nbVars, guarded, presses, owed, unasked, stranded>>

Connect ==
    /\ conn = "down" /\ conn' = "connecting"
    /\ UNCHANGED <<nbVars, guarded, exec, presses, troubles, history>>

-----------------------------------------------------------------------------
(* The session's events                                                    *)

\* RunDone, of the run that the cell still shows or of one that is gone, and
\* NotebookPump; after a transport error the tab is disconnected too.
RunDone(outcome, dies) ==
    /\ exec # None /\ (dies => outcome = "failed" /\ troubles < MaxTroubles)
    /\ outcome = "cancelled" => cell[exec] = "cancelling"
    /\ LET shown == IF Live(exec) THEN [cell EXCEPT ![exec] = outcome] ELSE cell
           failed == outcome # "done"
           p == Pump(queue, Running(shown), failed, TRUE)
       IN /\ Pumps(p, shown, None, IF failed THEN {} ELSE owed)
          /\ pending' = (pending /\ p.sends = None)
    /\ conn' = (IF dies THEN "down" ELSE conn)
    /\ troubles' = troubles + (IF dies THEN 1 ELSE 0)
    /\ UNCHANGED <<text, guarded, presses, stranded>>

\* ConnectionLost is applied to the tab's own run, which a notebook has not: the
\* cell stays live.
ConnectionLost ==
    /\ exec # None /\ troubles < MaxTroubles
    /\ exec' = None /\ conn' = "connecting" /\ lost' = TRUE /\ troubles' = troubles + 1
    /\ UNCHANGED <<nbVars, guarded, presses, owed, unasked, stranded>>

\* A database that is gone: the default one is tried and the pending run dropped,
\* not the queue.
ConnectFailed(missing) ==
    /\ conn = "connecting" /\ troubles < MaxTroubles /\ troubles' = troubles + 1
    /\ IF missing
       THEN pending' = FALSE /\ stranded' = (stranded \/ queue # <<>>) /\ UNCHANGED conn
       ELSE conn' = "down" /\ UNCHANGED <<pending, stranded>>
    /\ UNCHANGED <<queue, cell, text, guarded, exec, presses, owed, unasked, lost>>

\* Connected: a pending run carries on with the queue; if that has been emptied
\* meanwhile it is a Run of all cells, which nobody asked for.
Connected ==
    LET again == pending /\ queue = <<>>
    IN /\ conn = "connecting" /\ conn' = "up" /\ pending' = FALSE
       /\ \E q \in IF again THEN InOrder(All \ text) ELSE {queue} :
            LET p == IF pending THEN Pump(q, Running(cell), FALSE, TRUE) ELSE Pumped(queue, None, FALSE)
            IN Pumps(p, cell, exec, IF again THEN owed \cup (All \ text) ELSE owed)
       /\ UNCHANGED <<text, guarded, presses, troubles, stranded>>

-----------------------------------------------------------------------------
Next ==
    \/ \E c \in All : RunCells({c}) \/ PressRun({c}) \/ Dequeue(c) \/ SetKind(c)
    \/ PressRun(All) \/ RunCells(All) \/ Cancel \/ Disconnect \/ Connect
    \/ \E outcome \in {"done", "failed", "cancelled"}, dies \in BOOLEAN : RunDone(outcome, dies)
    \/ \E missing \in BOOLEAN : ConnectFailed(missing)
    \/ ConnectionLost \/ Connected

Spec == Init /\ [][Next]_vars

-----------------------------------------------------------------------------
(* Properties                                                              *)

\* A cell is run when its run was asked for, and not when it was taken back since
\* or stands behind a cell that failed (notebook.rs:975, alpha_notes.md:241).
\* Excepted: a pending run that finds its queue emptied asks for all cells.
RunsOnlyAsked == unasked = {}

\* One cell runs at a time, the one shown as running, and while cells are queued
\* something is under way that will pump them.  Excepted: a session that was lost
\* or busy under a cell, a database that was gone.
QueueMoves ==
    ~lost =>
      /\ \A c \in All : Live(c) => c = exec
      /\ queue # <<>> /\ ~stranded => exec # None \/ pending

CellsAsQueued == RunsOnlyAsked /\ QueueMoves

-----------------------------------------------------------------------------
(* The inductive invariant: what is queued is still wanted.                *)

IInv == TypeOK /\ CellsAsQueued /\ ToSet(queue) \subseteq owed
=============================================================================
