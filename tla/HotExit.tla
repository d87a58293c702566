------------------------------- MODULE HotExit -------------------------------
(***************************************************************************)
(* Hot exit: the snapshots of the editor tabs in the table tab_snapshots   *)
(* (cobalt-store/src/store/tabs.rs), the five-second tick that writes      *)
(* them, closing and reopening a tab, a clean exit, a crash, and the       *)
(* restart that brings the tabs back (ops.rs, app.rs).                     *)
(*                                                                         *)
(* Abstracted: a text is a number, 0 the empty one, and a hash is the text *)
(* it is of; of the rest of a tab only whether it has a file is kept: its  *)
(* binding, notebooks, the caret and the layout of the groups are not.     *)
(***************************************************************************)
EXTENDS Naturals, FiniteSets

CONSTANTS Tabs, MaxText,
          MaxFaults,   \* bound: crashes and failed writes
          MaxCloses    \* bound: tabs closed

VARIABLES running,   \* "up", "exiting", "down"
          open,      \* the tabs on the screen; none while the program is down
          tab,       \* each open tab: see Blank
          sweep,     \* tabs snapshot_tabs has still to look at
          closing,   \* the tab between save_tab and close_tab, or NoTab
          rows,      \* tab_snapshots
          disk,      \* the file of each tab
          faults, closes,
          doubtful   \* tabs reopened, or whose last save failed, and not saved since

hotVars == <<running, open, tab, sweep, closing, rows, disk, faults, closes, doubtful>>

Texts == 0..MaxText
NoTab == "no tab"
NoText == MaxText + 1   \* of a file: absent, or cut short

\* saved and snap are saved_text_hash and snapshot_hash
Blank == [text |-> 0, file |-> FALSE, saved |-> 0, snap |-> 0]
NoRow == [text |-> 0, file |-> FALSE, state |-> "absent", closedAt |-> 0]

TypeOK ==
    /\ running \in {"up", "exiting", "down"} /\ open \subseteq Tabs /\ sweep \subseteq open
    /\ tab \in [Tabs -> [text : Texts, file : BOOLEAN, saved : Texts, snap : Texts]]
    /\ closing \in Tabs \cup {NoTab}
    /\ rows \in [Tabs -> [text : Texts, file : BOOLEAN,
                          state : {"absent", "open", "closed"}, closedAt : 0..MaxCloses]]
    /\ disk \in [Tabs -> Texts \cup {NoText}]
    /\ faults \in 0..MaxFaults /\ closes \in 0..MaxCloses /\ doubtful \subseteq open

Init ==
    /\ running = "up" /\ open = {} /\ tab = [t \in Tabs |-> Blank] /\ sweep = {} /\ closing = NoTab
    /\ rows = [t \in Tabs |-> NoRow] /\ disk = [t \in Tabs |-> NoText]
    /\ faults = 0 /\ closes = 0 /\ doubtful = {}

\* the program is gone, and the tabs with it
Ends ==
    /\ running' = "down"
    /\ open' = {} /\ tab' = [t \in Tabs |-> Blank] /\ doubtful' = {}

AtRest == running = "up" /\ sweep = {} /\ closing = NoTab

Fault == faults < MaxFaults /\ faults' = faults + 1

-----------------------------------------------------------------------------
(* The user                                                                *)

\* new_tab
NewTab(t) ==
    /\ AtRest /\ t \notin open /\ rows[t].state = "absent"
    /\ open' = open \cup {t}
    /\ UNCHANGED <<running, tab, sweep, closing, rows, disk, faults, closes, doubtful>>

Type(t, x) ==
    /\ AtRest /\ t \in open /\ x # tab[t].text /\ tab' = [tab EXCEPT ![t].text = x]
    /\ UNCHANGED <<running, open, sweep, closing, rows, disk, faults, closes, doubtful>>

\* save_file: fs::write, then mark_saved
SaveFile(t) ==
    /\ AtRest /\ t \in open
    /\ disk' = [disk EXCEPT ![t] = tab[t].text]
    /\ tab' = [tab EXCEPT ![t].file = TRUE, ![t].saved = tab[t].text]
    /\ doubtful' = doubtful \ {t}
    /\ UNCHANGED <<running, open, sweep, closing, rows, faults, closes>>

\* the write fails or the program dies in it: the file is cut short
SaveTorn(t) ==
    /\ AtRest /\ t \in open /\ tab[t].file /\ Fault
    /\ disk' = [disk EXCEPT ![t] = NoText]
    /\ \/ doubtful' = doubtful \cup {t} /\ UNCHANGED <<running, open, tab>>
       \/ Ends
    /\ UNCHANGED <<sweep, closing, rows, closes>>

-----------------------------------------------------------------------------
(* snapshot_tabs                                                           *)

\* every five seconds; with force when the program exits
Tick == /\ AtRest /\ sweep' = open /\ open # {}
        /\ UNCHANGED <<running, open, tab, closing, rows, disk, faults, closes, doubtful>>

Exit == /\ AtRest /\ running' = "exiting" /\ sweep' = open
        /\ UNCHANGED <<open, tab, closing, rows, disk, faults, closes, doubtful>>

Row(t) == [text |-> tab[t].text, file |-> tab[t].file, state |-> "open", closedAt |-> 0]

\* force, or a text other than the last one stored
Due(t) == running = "exiting" \/ tab[t].text # tab[t].snap

\* the hash is taken over whether or not the row was written
SnapshotAnyway(t, written) ==
    /\ t \in sweep /\ sweep' = sweep \ {t}
    /\ tab' = [tab EXCEPT ![t].snap = tab[t].text]
    /\ IF Due(t) /\ written THEN rows' = [rows EXCEPT ![t] = Row(t)] ELSE UNCHANGED rows
    /\ IF Due(t) /\ ~written THEN Fault ELSE written /\ UNCHANGED faults
    /\ UNCHANGED <<running, open, closing, disk, closes, doubtful>>

\* one tab of the loop; a failed save_tab leaves its hash for the next tick
Snapshot(t, written) ==
    /\ t \in sweep /\ sweep' = sweep \ {t}
    /\ IF Due(t) /\ written
       THEN /\ rows' = [rows EXCEPT ![t] = Row(t)]
            /\ tab' = [tab EXCEPT ![t].snap = tab[t].text]
       ELSE UNCHANGED <<rows, tab>>
    /\ IF Due(t) /\ ~written THEN Fault ELSE written /\ UNCHANGED faults
    /\ UNCHANGED <<running, open, closing, disk, closes, doubtful>>

Down == /\ running = "exiting" /\ sweep = {} /\ Ends
        /\ UNCHANGED <<sweep, closing, rows, disk, faults, closes>>

-----------------------------------------------------------------------------
(* Closing and reopening                                                   *)

\* close_tab of ops.rs up to save_tab, whose failure is not looked at
CloseTab(t, written) ==
    /\ AtRest /\ t \in open /\ closes < MaxCloses
    /\ open' = open \ {t} /\ tab' = [tab EXCEPT ![t] = Blank] /\ closing' = t
    /\ doubtful' = doubtful \ {t}
    /\ IF written THEN rows' = [rows EXCEPT ![t] = Row(t)] /\ UNCHANGED faults
       ELSE Fault /\ UNCHANGED rows
    /\ UNCHANGED <<running, sweep, disk, closes>>

\* close_tab of the store
MarkClosed(written) ==
    /\ closing # NoTab /\ closing' = NoTab /\ closes' = closes + 1
    /\ rows' = IF written /\ rows[closing].state = "open"
               THEN [rows EXCEPT ![closing].state = "closed", ![closing].closedAt = closes + 1]
               ELSE rows
    /\ IF written THEN UNCHANGED faults ELSE Fault
    /\ UNCHANGED <<running, open, tab, sweep, disk, doubtful>>

\* reopen_closed_tab: the last one closed, taken as saved
Reopen(t) ==
    /\ AtRest /\ rows[t].state = "closed"
    /\ \A u \in Tabs : rows[u].state = "closed" => rows[u].closedAt <= rows[t].closedAt
    /\ rows' = [rows EXCEPT ![t] = [@ EXCEPT !.state = "open", !.closedAt = 0]]
    /\ open' = open \cup {t} /\ doubtful' = doubtful \cup {t}
    /\ tab' = [tab EXCEPT ![t] = [text |-> rows[t].text, file |-> rows[t].file,
                                  saved |-> rows[t].text, snap |-> 0]]
    /\ UNCHANGED <<running, sweep, closing, disk, faults, closes>>

-----------------------------------------------------------------------------
(* Crash and restart                                                       *)

Crash ==
    /\ running # "down" /\ Fault /\ Ends /\ sweep' = {} /\ closing' = NoTab
    /\ UNCHANGED <<rows, disk, closes>>

\* what restore_tabs makes of a row: saved when its file has its text
Restored(r, onDisk) ==
    [text |-> r.text, file |-> r.file,
     saved |-> IF r.file /\ onDisk = r.text THEN r.text ELSE 0, snap |-> r.text]

Restore ==
    /\ running = "down" /\ running' = "up"
    /\ open' = {t \in Tabs : rows[t].state = "open"}
    /\ tab' = [t \in Tabs |-> IF t \in open' THEN Restored(rows[t], disk[t]) ELSE Blank]
    /\ UNCHANGED <<sweep, closing, rows, disk, faults, closes, doubtful>>

Next ==
    \/ \E t \in Tabs :
          \/ \E x \in Texts : Type(t, x)
          \/ \E written \in BOOLEAN : Snapshot(t, written) \/ CloseTab(t, written)
          \/ NewTab(t) \/ SaveFile(t) \/ SaveTorn(t) \/ Reopen(t)
    \/ \E written \in BOOLEAN : MarkClosed(written)
    \/ Tick \/ Exit \/ Down \/ Crash \/ Restore

Spec == Init /\ [][Next]_hotVars

-----------------------------------------------------------------------------
(* Properties                                                              *)

\* A text the tick takes for stored is in the store, in a row the next start
\* opens: a crash loses what was typed since the last tick and nothing more,
\* whatever was closed, reopened or failed to be written before (ops.rs:1501).
SnapshotIsStored ==
    \A t \in open : tab[t].text = tab[t].snap /\ tab[t].text # 0
        => rows[t].state = "open" /\ rows[t].text = tab[t].text

\* A tab with a file is shown as saved only when its file has its text, after a
\* restart on a file that was cut short too.  Two exceptions: a tab brought back
\* by "reopen closed tab" is taken as saved whatever its file holds, and a save
\* that fails leaves what it was (ops.rs:1435, :1565, :1743).
SavedIsOnDisk ==
    \A t \in open : tab[t].file /\ tab[t].text = tab[t].saved /\ tab[t].text # 0
        => disk[t] = tab[t].text \/ t \in doubtful

\* Nothing typed is lost by an end of the program or behind a tab that claims
\* to be saved.
WorkIsKept == SnapshotIsStored /\ SavedIsOnDisk

-----------------------------------------------------------------------------
(* The inductive invariant                                                 *)

\* A tab between save_tab and close_tab has left the screen; so have all tabs of
\* a program that is down.
ClosedIsGone ==
    /\ closing # NoTab => closing \notin open /\ closes < MaxCloses /\ running = "up"
    /\ running = "down" => open = {} /\ sweep = {}
    /\ \A t \in Tabs \ open : tab[t] = Blank

\* What snapshot_hash is the hash of is in the row, also while the text differs.
HashOfRow ==
    \A t \in open : tab[t].snap # 0 => rows[t].state = "open" /\ rows[t].text = tab[t].snap

\* What saved_text_hash is the hash of is in the file.
HashOfFile ==
    \A t \in open : tab[t].file /\ tab[t].saved # 0 => disk[t] = tab[t].saved \/ t \in doubtful

IInv == TypeOK /\ ClosedIsGone /\ HashOfRow /\ HashOfFile
=============================================================================
