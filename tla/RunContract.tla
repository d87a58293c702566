----------------------------- MODULE RunContract -----------------------------
(***************************************************************************)
(* What one run promises the tab that shows it: the abstract specification *)
(* of run_script (cobalt-app/src/session/actor.rs) as seen through the     *)
(* events of session/protocol.rs.  At most one result set is open; rows    *)
(* are only ever added to it; a set that waits at the row cap grows no     *)
(* more until the user asks for rows or cancels; after a cancel nothing is *)
(* added; the run ends once, with no set left open, and a set left waiting *)
(* is only given up by a cancel.                                           *)
(***************************************************************************)
EXTENDS Naturals

VARIABLES phase,       \* "ready", "running", "over"
          set,         \* the open set: "none", "Streaming", "Paused"
          shown,       \* rows in the open (or last) set
          cancelling,  \* a cancel was taken
          outcome      \* what RunDone reported: "none" before it

contractVars == <<phase, set, shown, cancelling, outcome>>

ContractInit == /\ phase = "ready" /\ set = "none" /\ shown = 0
                /\ cancelling = FALSE /\ outcome = "none"

Begin == /\ phase = "ready" /\ phase' = "running"
         /\ UNCHANGED <<set, shown, cancelling, outcome>>

OpenSet == /\ phase = "running" /\ set = "none"
           /\ set' = "Streaming" /\ shown' = 0
           /\ UNCHANGED <<phase, cancelling, outcome>>

\* Rows arrive, and may fill the set up to its cap.
Grow == /\ phase = "running" /\ set = "Streaming" /\ ~cancelling
        /\ shown' \in Nat /\ shown' >= shown
        /\ set' \in {"Streaming", "Paused"}
        /\ UNCHANGED <<phase, cancelling, outcome>>

\* The user asks for more: rows held back are shown at once.
Resume == /\ phase = "running" /\ set # "none"
          /\ set' \in {"Streaming", "Paused"}
          /\ shown' \in Nat /\ shown' >= shown
          /\ cancelling => shown' = shown
          /\ UNCHANGED <<phase, cancelling, outcome>>

TakeCancel == /\ phase = "running" /\ cancelling' = TRUE
              /\ UNCHANGED <<phase, set, shown, outcome>>

CloseSet == /\ phase = "running" /\ set # "none"
            /\ set = "Paused" => cancelling
            /\ set' = "none"
            /\ UNCHANGED <<phase, shown, cancelling, outcome>>

\* A batch can start over from zero rows once no set is open.
NextBatch == /\ phase = "running" /\ set = "none" /\ ~cancelling
             /\ shown' = 0
             /\ UNCHANGED <<phase, set, cancelling, outcome>>

Finish(o) == /\ phase = "running"
             /\ set = "Paused" => cancelling
             /\ o = "cancelled" <=> cancelling
             /\ phase' = "over" /\ set' = "none" /\ outcome' = o
             /\ UNCHANGED <<shown, cancelling>>

ContractNext ==
    \/ Begin \/ OpenSet \/ Grow \/ Resume \/ TakeCancel \/ CloseSet \/ NextBatch
    \/ \E o \in {"done", "failed", "cancelled"} : Finish(o)

ContractSpec == ContractInit /\ [][ContractNext]_contractVars
=============================================================================
