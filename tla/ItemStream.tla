----------------------------- MODULE ItemStream -----------------------------
(***************************************************************************)
(* What a driver promises about the items of ONE executed batch            *)
(* (cobalt-driver/src/lib.rs, StreamItem and QueryStream):                 *)
(*                                                                         *)
(*   (ResultSetStart, Rows*, ResultSetEnd | RowsAffected)*, Done           *)
(*                                                                         *)
(* with messages anywhere in between.  It is the abstract specification    *)
(* that the drivers' streams implement, and the environment of the run     *)
(* loops: they take one of these steps each time they poll the stream.  Of *)
(* a batch of rows only its size is kept.                                  *)
(***************************************************************************)
EXTENDS Naturals

CONSTANTS MaxSets,   \* bound: result sets of one batch
          MaxRows,   \* bound: rows of one result set
          MaxChunk   \* bound: rows of one Rows item

VARIABLES open,    \* a ResultSetStart was delivered and not yet its end
          sent,    \* rows delivered in the open (or last) set
          sets,    \* result sets started
          told,    \* an error was delivered as a Message
          ended,   \* Done was delivered
          signal   \* the cancel handle was triggered

streamVars == <<open, sent, sets, told, ended, signal>>

StreamTypeOK ==
    /\ open \in BOOLEAN /\ told \in BOOLEAN
    /\ ended \in BOOLEAN /\ signal \in BOOLEAN
    /\ sent \in 0..MaxRows
    /\ sets \in 0..MaxSets

Fresh == /\ open = FALSE /\ told = FALSE /\ ended = FALSE /\ signal = FALSE
         /\ sent = 0 /\ sets = 0

-----------------------------------------------------------------------------
ResultSetStart ==
    /\ ~ended /\ ~open /\ sets < MaxSets
    /\ open' = TRUE /\ sent' = 0 /\ sets' = sets + 1
    /\ UNCHANGED <<told, ended, signal>>

Rows(n) ==
    /\ ~ended /\ open /\ sent + n <= MaxRows
    /\ sent' = sent + n
    /\ UNCHANGED <<open, sets, told, ended, signal>>

\* `rows` of the item is what was delivered since the start of the set.
ResultSetEnd(rows) ==
    /\ ~ended /\ open /\ rows = sent
    /\ open' = FALSE
    /\ UNCHANGED <<sent, sets, told, ended, signal>>

RowsAffected ==
    /\ ~ended /\ ~open
    /\ UNCHANGED streamVars

Message(isError) ==
    /\ ~ended
    /\ told' = (told \/ isError)
    /\ UNCHANGED <<open, sent, sets, ended, signal>>

\* The batch finished.  The error repeats one already delivered as a Message;
\* `cancelled` answers a cancel request.  This is what the drivers deliver, and the
\* run loops must bear: in two places it is more than the documented
\* DoneAsDocumented.
Done(error, cancelled) ==
    /\ ~ended
    /\ error => told
    /\ cancelled => signal
    /\ ended' = TRUE
    /\ UNCHANGED <<open, sent, sets, told, signal>>

\* The end as StreamItem's comments promise it: every set has its ResultSetEnd, "a
\* user cancel ends with `cancelled: true` and no error".  DuckDB breaks the first
\* for an error inside a set, and all but SQL Server the second (ScriptStream's
\* EndsAsDocumented).
DoneAsDocumented(error, cancelled) ==
    /\ ~open /\ ~(error /\ cancelled)
    /\ Done(error, cancelled)

Cancel == signal' = TRUE /\ UNCHANGED <<open, sent, sets, told, ended>>

StreamNext ==
    \/ ResultSetStart
    \/ \E n \in 1..MaxChunk : Rows(n)
    \/ \E rows \in 0..MaxRows : ResultSetEnd(rows)
    \/ RowsAffected
    \/ \E isError \in BOOLEAN : Message(isError)
    \/ \E error, cancelled \in BOOLEAN : Done(error, cancelled)
    \/ Cancel

StreamSpec == Fresh /\ [][StreamNext]_streamVars
=============================================================================
