---------------------------- MODULE RunLoopProofs ----------------------------
(* Theorems about RunLoop, for every value of the constants of MCStreams. *)
EXTENDS MCStreams, SequenceTheorems, TLAPS

LEMMA LoopConstants ==
  /\ MaxSets \in Nat /\ LoopRows \in Nat /\ LoopChunk \in Nat
  /\ Batches \in Nat /\ LoopPosts \in Nat
  /\ RowCap \in Nat /\ U64Max \in Nat
  /\ LoopRows < U64Max
  /\ Fetches \subseteq Nat \ {0}
BY StreamConstants

\* A run starts below its cap: the cap 0 means none at all.
LEMMA LoopCapPositive == Loop!InitialCap \in Nat /\ Loop!InitialCap > 0
  BY LoopConstants DEF Loop!InitialCap

LEMMA LoopMsgFields ==
  ASSUME NEW m \in Loop!TabMsg
  PROVE  m.kind = "FetchMore" => m.rows \in Nat \ {0}
  BY LoopConstants DEF Loop!TabMsg, Loop!Cancel, Loop!Close, Loop!Other, Loop!FetchMore

\* Taking a message keeps the mailbox a sequence of messages.
LEMMA LoopRecvType ==
  ASSUME lMail \in Seq(Loop!TabMsg), lPosts \in 0..LoopPosts, lGone \in BOOLEAN, Loop!Recv
  PROVE  lMail' \in Seq(Loop!TabMsg) /\ lPosts' \in 0..LoopPosts /\ lGone' \in BOOLEAN
  BY DEF Loop!Recv

LEMMA LoopInitInv == Loop!Init => Loop!IInv
<1> SUFFICES ASSUME Loop!Init PROVE Loop!IInv
  OBVIOUS
<1> USE DEF Loop!Init, Loop!S!Fresh
<1>1. Loop!TypeOK
  <2>1. /\ lGone \in BOOLEAN /\ lCancelled \in BOOLEAN
        /\ lOpen \in BOOLEAN /\ lTold \in BOOLEAN
        /\ lEnded \in BOOLEAN /\ lSignal \in BOOLEAN
    OBVIOUS
  <2>2. /\ lMail \in Seq(Loop!TabMsg) /\ lPosts \in 0..LoopPosts
        /\ lBatch \in 0..Batches
        /\ lRows \in 0..LoopRows /\ lHeld \in 0..LoopRows
        /\ lSent \in 0..LoopRows /\ lSets \in 0..MaxSets
    BY LoopConstants
  <2>3. lCap \in Nat
    BY LoopCapPositive
  <2> QED BY <2>1, <2>2, <2>3 DEF Loop!TypeOK, Loop!S!StreamTypeOK
<1>2. Loop!RowsConserved /\ Loop!PausedIffBlocked /\ Loop!HeldOnlyWaiting
  BY DEF Loop!RowsConserved, Loop!PausedIffBlocked, Loop!HeldOnlyWaiting
<1>3. Loop!SetFollowsStream
  BY DEF Loop!SetFollowsStream
<1> QED BY <1>1, <1>2, <1>3 DEF Loop!IInv

LEMMA LoopStepInv == Loop!IInv /\ [Loop!Next]_(Loop!vars) => Loop!IInv'
<1> SUFFICES ASSUME Loop!IInv, [Loop!Next]_(Loop!vars) PROVE Loop!IInv'
  OBVIOUS
<1> USE LoopConstants, LoopCapPositive
<1> USE DEF Loop!IInv, Loop!TypeOK, Loop!RowsConserved, Loop!PausedIffBlocked, Loop!HeldOnlyWaiting,
            Loop!SetFollowsStream, Loop!S!StreamTypeOK, Loop!mailVars, Loop!loopVars, Loop!streamVars
<1>1. ASSUME NEW m \in Loop!TabMsg, Loop!Post(m) PROVE Loop!IInv'
  <2>1. lMail' \in Seq(Loop!TabMsg) /\ lPosts' \in 0..LoopPosts /\ lGone' \in BOOLEAN
    BY <1>1 DEF Loop!Post
  <2>2. UNCHANGED <<Loop!loopVars, Loop!streamVars>>
    BY <1>1 DEF Loop!Post
  <2> QED BY <2>1, <2>2
<1>2. CASE Loop!Start
  BY <1>2 DEF Loop!Start
<1>3. CASE Loop!ExecuteOk
  <2>1. Loop!TypeOK'
    <3>1. /\ lOpen' \in BOOLEAN /\ lTold' \in BOOLEAN
          /\ lEnded' \in BOOLEAN /\ lSignal' \in BOOLEAN
      BY <1>3, Zenon DEF Loop!ExecuteOk
    <3>2. /\ lBatch' \in 0..Batches /\ lRows' \in 0..LoopRows
          /\ lHeld' \in 0..LoopRows /\ lCap' \in Nat
          /\ lSent' \in 0..LoopRows /\ lSets' \in 0..MaxSets
      BY <1>3 DEF Loop!ExecuteOk
    <3>3. /\ lPc' = "poll" /\ lSet' = "none"
          /\ UNCHANGED <<Loop!mailVars, lCancelled, lOutcome>>
      BY <1>3 DEF Loop!ExecuteOk
    <3> QED BY <3>1, <3>2, <3>3
  <2>2. Loop!RowsConserved' /\ Loop!PausedIffBlocked' /\ Loop!HeldOnlyWaiting'
    BY <1>3 DEF Loop!ExecuteOk
  <2>3. Loop!SetFollowsStream'
    BY <1>3 DEF Loop!ExecuteOk
  <2> QED BY <2>1, <2>2, <2>3
<1>4. CASE Loop!ExecuteErr
  BY <1>4 DEF Loop!ExecuteErr, Loop!RunDone
<1>5. CASE Loop!AllDone
  BY <1>5 DEF Loop!AllDone, Loop!RunDone
<1>6. CASE Loop!TakeCancel
  <2>1. lMail' \in Seq(Loop!TabMsg) /\ lPosts' \in 0..LoopPosts /\ lGone' \in BOOLEAN
    BY <1>6, LoopRecvType DEF Loop!TakeCancel
  <2> QED BY <1>6, <2>1 DEF Loop!TakeCancel, Loop!S!Cancel
<1>7. CASE Loop!TakeFetchMore
  <2>1. lMail' \in Seq(Loop!TabMsg) /\ lPosts' \in 0..LoopPosts /\ lGone' \in BOOLEAN
    BY <1>7, LoopRecvType DEF Loop!TakeFetchMore
  <2>2. Head(lMail).rows \in Nat \ {0}
    BY <1>7, LoopMsgFields DEF Loop!TakeFetchMore
  <2> DEFINE r == Head(lMail).rows
             newCap == IF r = U64Max THEN U64Max ELSE lRows + r
             take == IF lHeld <= newCap - lRows THEN lHeld ELSE newCap - lRows
  <2>3. newCap \in Nat /\ newCap > lRows
    BY <2>2
  <2>4. lCap' = newCap /\ UNCHANGED <<lPc, lBatch, lCancelled, lOutcome, Loop!streamVars>>
    BY <1>7 DEF Loop!TakeFetchMore
  <2>5. CASE lSet = "none"
    <3>1. UNCHANGED <<lSet, lRows, lHeld>>
      BY <1>7, <2>5 DEF Loop!TakeFetchMore
    <3> HIDE DEF newCap
    <3> QED BY <2>1, <2>3, <2>4, <2>5, <3>1
  <2>6. CASE lSet # "none"
    <3>1. /\ lRows' = lRows + take
          /\ lHeld' = lHeld - take
          /\ lSet' = IF lHeld > 0 /\ lRows + take >= newCap
                    THEN "Paused" ELSE "Streaming"
      BY <1>7, <2>6 DEF Loop!TakeFetchMore
    <3>2. take \in 0..lHeld /\ lRows + take <= newCap
      BY <2>3
    <3>3. take < lHeld => lRows + take = newCap
      BY <2>3
    <3>4. lRows + lHeld <= LoopRows
      BY <2>6
    <3> HIDE DEF newCap, take
    <3>5. lRows' \in 0..LoopRows /\ lHeld' \in 0..LoopRows
      BY <3>1, <3>2, <3>4
    <3> QED BY <2>1, <2>3, <2>4, <2>6, <3>1, <3>2, <3>3, <3>5
  <2> QED BY <2>5, <2>6
<1>8. CASE Loop!TakeOther
  <2>1. lMail' \in Seq(Loop!TabMsg) /\ lPosts' \in 0..LoopPosts /\ lGone' \in BOOLEAN
    BY <1>8, LoopRecvType DEF Loop!TakeOther
  <2> QED BY <1>8, <2>1 DEF Loop!TakeOther
<1>9. CASE Loop!OnResultSetStart
  BY <1>9 DEF Loop!OnResultSetStart, Loop!Polls, Loop!S!ResultSetStart
<1>10. ASSUME NEW n \in 1..LoopChunk, Loop!OnRowsDiscarded(n) PROVE Loop!IInv'
  BY <1>10 DEF Loop!OnRowsDiscarded, Loop!S!Rows
<1>11. ASSUME NEW n \in 1..LoopChunk, Loop!OnRows(n) PROVE Loop!IInv'
  <2>1. /\ lPc = "poll" /\ ~lCancelled /\ lOpen /\ lSet # "none" /\ lRows < lCap
        /\ lHeld = 0 /\ lRows = lSent /\ lSet = "Streaming"
    BY <1>11 DEF Loop!OnRows, Loop!Polls, Loop!S!Rows
  <2>2. /\ lSent + n <= LoopRows /\ lSent' = lSent + n
        /\ UNCHANGED <<lOpen, lSets, lTold, lEnded, lSignal>>
    BY <1>11 DEF Loop!OnRows, Loop!S!Rows
  <2>3. UNCHANGED <<Loop!mailVars, lPc, lBatch, lCap, lCancelled, lOutcome>>
    BY <1>11 DEF Loop!OnRows
  <2>4. CASE lRows + n > lCap
    <3>1. lHeld' = n - (lCap - lRows) /\ lRows' = lCap /\ lSet' = "Paused"
      BY <1>11, <2>1, <2>4 DEF Loop!OnRows
    <3> QED BY <2>1, <2>2, <2>3, <2>4, <3>1
  <2>5. CASE ~(lRows + n > lCap)
    <3>1. /\ lHeld' = lHeld /\ lRows' = lRows + n
          /\ lSet' = IF lRows + n >= lCap THEN "Paused" ELSE lSet
      BY <1>11, <2>5 DEF Loop!OnRows
    <3> QED BY <2>1, <2>2, <2>3, <2>5, <3>1
  <2> QED BY <2>4, <2>5
<1>12. ASSUME NEW n \in 0..LoopRows, Loop!OnResultSetEnd(n) PROVE Loop!IInv'
  <2>1. /\ lPc = "poll" /\ lSet # "none" /\ lHeld = 0
    BY <1>12 DEF Loop!OnResultSetEnd, Loop!Polls, Loop!S!ResultSetEnd
  <2>2. lRows' = lRows /\ lHeld' = 0 /\ lSet' = "none"
    BY <1>12, <2>1 DEF Loop!OnResultSetEnd
  <2>3. /\ UNCHANGED <<Loop!mailVars, lPc, lBatch, lCap, lCancelled, lOutcome>>
        /\ UNCHANGED <<lSent, lSets, lTold, lEnded, lSignal>>
    BY <1>12 DEF Loop!OnResultSetEnd, Loop!S!ResultSetEnd
  <2>4. lOpen' = FALSE /\ lOpen' \in BOOLEAN
    BY <1>12, Zenon DEF Loop!OnResultSetEnd, Loop!S!ResultSetEnd
  <2> QED BY <2>1, <2>2, <2>3, <2>4
<1>13. ASSUME NEW isError \in BOOLEAN, Loop!OnMessage(isError) PROVE Loop!IInv'
  BY <1>13 DEF Loop!OnMessage, Loop!S!Message, Loop!S!RowsAffected, Loop!S!streamVars
<1>14. ASSUME NEW e \in BOOLEAN, NEW c \in BOOLEAN, Loop!OnDone(e, c)
       PROVE Loop!IInv'
  BY <1>14 DEF Loop!OnDone, Loop!Polls, Loop!RunDone, Loop!S!Done
<1>15. CASE UNCHANGED Loop!vars
  BY <1>15 DEF Loop!vars
<1> QED
  BY <1>1, <1>2, <1>3, <1>4, <1>5, <1>6, <1>7, <1>8, <1>9, <1>10, <1>11,
     <1>12, <1>13, <1>14, <1>15 DEF Loop!Next, Loop!TakesMail, Loop!Receives

\* A step of the run is a step of the loop, or leaves it alone.
LEMMA StepOfLoop == [Next]_allVars => [Loop!Next]_(Loop!vars)
  BY DEF Next, MssqlSteps, ScriptSteps, ExportSteps, LoopSteps, allVars, loop,
         Loop!vars, Loop!mailVars, Loop!loopVars, Loop!streamVars

\* The inductive invariant of the loop: where rows may be held back and how
\* the open set follows the driver's stream.
LEMMA LoopInductive == Spec => []Loop!IInv
<1>1. Init => Loop!IInv
  BY LoopInitInv DEF Init
<1>2. Loop!IInv /\ [Next]_allVars => Loop!IInv'
  BY StepOfLoop, LoopStepInv
<1> QED BY <1>1, <1>2, PTL DEF Spec

\* However FetchMore requests cut a set up, what the driver delivered is in
\* the grid or held back.
THEOREM RowsAreConserved == Spec => []RowsConserved
<1>1. Loop!IInv => RowsConserved
  BY DEF Loop!IInv, RowsConserved
<1> QED BY <1>1, LoopInductive, PTL

\* The grid says Paused exactly when the loop stopped reading at the cap.
THEOREM PausedMeansBlocked == Spec => []PausedIffBlocked
<1>1. Loop!IInv => PausedIffBlocked
  BY DEF Loop!IInv, PausedIffBlocked
<1> QED BY <1>1, LoopInductive, PTL

-----------------------------------------------------------------------------
\* One step: a set is closed with all its rows, and a cancelled run adds none.
LEMMA LoopStepCloses ==
  ASSUME Loop!IInv, [Loop!Next]_(Loop!vars)
  PROVE  /\ lSet # "none" /\ lSet' = "none" /\ ~lCancelled' => lRows' = lSent'
         /\ lCancelled => lRows' <= lRows
<1> USE LoopConstants
<1> USE DEF Loop!IInv, Loop!TypeOK, Loop!RowsConserved, Loop!PausedIffBlocked, Loop!HeldOnlyWaiting,
            Loop!SetFollowsStream, Loop!S!StreamTypeOK, Loop!mailVars, Loop!loopVars, Loop!streamVars
<1>1. ASSUME NEW m \in Loop!TabMsg, Loop!Post(m) PROVE UNCHANGED <<Loop!loopVars, Loop!streamVars>>
  BY <1>1 DEF Loop!Post
<1>2. CASE Loop!Start \/ Loop!ExecuteErr \/ Loop!AllDone \/ Loop!ExecuteOk
  BY <1>2 DEF Loop!Start, Loop!ExecuteErr, Loop!AllDone, Loop!ExecuteOk
<1>3. CASE Loop!TakeCancel \/ Loop!TakeOther
  BY <1>3 DEF Loop!TakeCancel, Loop!TakeOther
<1>4. CASE Loop!TakeFetchMore
  <2>1. lCancelled' = lCancelled /\ (lCancelled => lHeld = 0)
    BY <1>4 DEF Loop!TakeFetchMore
  <2>2. Head(lMail).rows \in Nat \ {0}
    BY <1>4, LoopMsgFields DEF Loop!TakeFetchMore
  <2>3. lSet # "none" => lSet' # "none"
    BY <1>4 DEF Loop!TakeFetchMore
  <2>4. lHeld = 0 => lRows' = lRows
    BY <1>4, <2>2 DEF Loop!TakeFetchMore
  <2> QED BY <2>1, <2>3, <2>4
<1>5. CASE Loop!OnResultSetStart
  BY <1>5 DEF Loop!OnResultSetStart, Loop!S!ResultSetStart
<1>6. ASSUME NEW n \in 1..LoopChunk, Loop!OnRowsDiscarded(n) \/ Loop!OnRows(n)
      PROVE  /\ lSet # "none" => lSet' # "none"
             /\ lCancelled => lRows' <= lRows
  BY <1>6 DEF Loop!OnRowsDiscarded, Loop!OnRows
<1>7. ASSUME NEW n \in 0..LoopRows, Loop!OnResultSetEnd(n)
      PROVE  lRows' = lRows /\ (~lCancelled' => lRows' = lSent')
  BY <1>7 DEF Loop!OnResultSetEnd, Loop!Polls, Loop!S!ResultSetEnd
<1>8. ASSUME NEW isError \in BOOLEAN, Loop!OnMessage(isError) PROVE UNCHANGED Loop!loopVars
  BY <1>8 DEF Loop!OnMessage
<1>9. ASSUME NEW e \in BOOLEAN, NEW c \in BOOLEAN, Loop!OnDone(e, c)
      PROVE  /\ lRows' = lRows
             /\ lSet # "none" /\ ~lCancelled' => lRows' = lSent'
  BY <1>9 DEF Loop!OnDone, Loop!Polls, Loop!S!Done
<1>10. CASE UNCHANGED Loop!vars
  BY <1>10 DEF Loop!vars
<1> QED
  BY <1>1, <1>2, <1>3, <1>4, <1>5, <1>6, <1>7, <1>8, <1>9, <1>10
  DEF Loop!Next, Loop!TakesMail, Loop!Receives

\* A set is only ever completed with every row the driver delivered for it,
\* unless the run was cancelled.
THEOREM SetsCloseWithAllRows == Spec => ClosedWithAllRows
<1>1. Loop!IInv /\ [Next]_allVars
        => [lSet # "none" /\ lSet' = "none" /\ ~lCancelled' => lRows' = lSent']_(Loop!vars)
  BY StepOfLoop, LoopStepCloses
<1> QED BY <1>1, LoopInductive, PTL DEF Spec, ClosedWithAllRows, Loop!ClosedWithAllRows

\* After the loop has taken a cancel the grid gets no more rows.
THEOREM CancelStopsRows == Spec => NothingShownAfterCancel
<1>1. Loop!IInv /\ [Next]_allVars => [lCancelled => lRows' <= lRows]_(Loop!vars)
  BY StepOfLoop, LoopStepCloses
<1> QED BY <1>1, LoopInductive, PTL DEF Spec, NothingShownAfterCancel, Loop!NothingShownAfterCancel

-----------------------------------------------------------------------------
(* The loop implements RunContract.                                        *)

LEMMA LoopStepContract ==
  ASSUME Loop!IInv, [Loop!Next]_(Loop!vars)
  PROVE  [Loop!Contract!ContractNext]_(Loop!Contract!contractVars)
<1> USE LoopConstants
<1> USE DEF Loop!IInv, Loop!TypeOK, Loop!RowsConserved, Loop!PausedIffBlocked, Loop!HeldOnlyWaiting,
            Loop!SetFollowsStream, Loop!S!StreamTypeOK, Loop!mailVars, Loop!loopVars, Loop!streamVars,
            Loop!Contract!contractVars
<1>1. ASSUME NEW m \in Loop!TabMsg, Loop!Post(m) PROVE UNCHANGED Loop!Contract!contractVars
  BY <1>1 DEF Loop!Post
<1>2. CASE Loop!Start
  BY <1>2 DEF Loop!Start, Loop!Contract!ContractNext, Loop!Contract!Begin
<1>3. CASE Loop!ExecuteOk
  BY <1>3 DEF Loop!ExecuteOk, Loop!Contract!ContractNext, Loop!Contract!NextBatch
<1>4. CASE Loop!ExecuteErr \/ Loop!AllDone
  BY <1>4 DEF Loop!ExecuteErr, Loop!AllDone, Loop!RunDone, Loop!Contract!ContractNext, Loop!Contract!Finish
<1>5. CASE Loop!TakeCancel
  BY <1>5 DEF Loop!TakeCancel, Loop!Contract!ContractNext, Loop!Contract!TakeCancel
<1>6. CASE Loop!TakeFetchMore
  <2>1. Head(lMail).rows \in Nat \ {0}
    BY <1>6, LoopMsgFields DEF Loop!TakeFetchMore
  <2>2. /\ lPc = "poll" /\ UNCHANGED <<lPc, lCancelled, lOutcome>>
        /\ lCancelled => lHeld = 0
    BY <1>6 DEF Loop!TakeFetchMore
  <2>3. CASE lSet = "none"
    BY <1>6, <2>2, <2>3 DEF Loop!TakeFetchMore
  <2>4. CASE lSet # "none"
    <3>1. /\ lRows' \in Nat /\ lRows' >= lRows
          /\ lHeld = 0 => lRows' = lRows
          /\ lSet' \in {"Streaming", "Paused"}
      BY <1>6, <2>1, <2>4 DEF Loop!TakeFetchMore
    <3> QED BY <2>2, <2>4, <3>1 DEF Loop!Contract!ContractNext, Loop!Contract!Resume
  <2> QED BY <2>3, <2>4
<1>7. CASE Loop!TakeOther
  BY <1>7 DEF Loop!TakeOther
<1>8. CASE Loop!OnResultSetStart
  BY <1>8 DEF Loop!OnResultSetStart, Loop!Polls, Loop!S!ResultSetStart,
              Loop!Contract!ContractNext, Loop!Contract!OpenSet
<1>9. ASSUME NEW n \in 1..LoopChunk, Loop!OnRowsDiscarded(n)
      PROVE  UNCHANGED Loop!Contract!contractVars
  BY <1>9 DEF Loop!OnRowsDiscarded
<1>10. ASSUME NEW n \in 1..LoopChunk, Loop!OnRows(n)
       PROVE  Loop!Contract!Grow
  <2>1. /\ lPc = "poll" /\ ~lCancelled /\ lSet = "Streaming" /\ lRows < lCap
        /\ UNCHANGED <<lPc, lCancelled, lOutcome>>
    BY <1>10 DEF Loop!OnRows, Loop!Polls, Loop!S!Rows
  <2>2. /\ lRows' \in Nat /\ lRows' >= lRows
        /\ lSet' \in {"Streaming", "Paused"}
    BY <1>10, <2>1 DEF Loop!OnRows
  <2> QED BY <2>1, <2>2 DEF Loop!Contract!Grow
<1>11. ASSUME NEW n \in 0..LoopRows, Loop!OnResultSetEnd(n)
       PROVE  Loop!Contract!CloseSet
  <2>1. /\ lPc = "poll" /\ lSet # "none" /\ lHeld = 0
        /\ lSet = "Paused" => lCancelled
    BY <1>11 DEF Loop!OnResultSetEnd, Loop!Polls, Loop!S!ResultSetEnd
  <2> QED BY <1>11, <2>1 DEF Loop!OnResultSetEnd, Loop!Contract!CloseSet
<1>12. ASSUME NEW isError \in BOOLEAN, Loop!OnMessage(isError)
       PROVE  UNCHANGED Loop!Contract!contractVars
  BY <1>12 DEF Loop!OnMessage
<1>13. ASSUME NEW e \in BOOLEAN, NEW c \in BOOLEAN, Loop!OnDone(e, c)
       PROVE  Loop!Contract!ContractNext \/ UNCHANGED Loop!Contract!contractVars
  <2>1. /\ lPc = "poll" /\ lOutcome = "none" /\ lRows' = lRows /\ lSet' = "none"
        /\ lCancelled' = lCancelled
        /\ lSet = "Paused" => lCancelled
    BY <1>13 DEF Loop!OnDone, Loop!Polls, Loop!S!Done
  <2>2. CASE lCancelled
    BY <1>13, <2>1, <2>2 DEF Loop!OnDone, Loop!RunDone, Loop!Contract!ContractNext, Loop!Contract!Finish
  <2>3. CASE ~lCancelled /\ e
    BY <1>13, <2>1, <2>3 DEF Loop!OnDone, Loop!RunDone, Loop!Contract!ContractNext, Loop!Contract!Finish
  <2>4. CASE ~lCancelled /\ ~e
    <3>1. lPc' = "batch" /\ lOutcome' = lOutcome
      BY <1>13, <2>1, <2>4 DEF Loop!OnDone
    <3> QED BY <2>1, <2>4, <3>1 DEF Loop!Contract!ContractNext, Loop!Contract!CloseSet
  <2> QED BY <2>2, <2>3, <2>4
<1>14. CASE UNCHANGED Loop!vars
  BY <1>14 DEF Loop!vars
<1> QED
  BY <1>1, <1>2, <1>3, <1>4, <1>5, <1>6, <1>7, <1>8, <1>9, <1>10, <1>11,
     <1>12, <1>13, <1>14
  DEF Loop!Next, Loop!TakesMail, Loop!Receives, Loop!Contract!ContractNext

\* What the tab sees of a run is a behaviour of RunContract: one set open at a
\* time, no growth of a waiting or cancelled set, one end with no set open.
THEOREM ImplementsContract == Spec => RunsAsPromised
<1>1. Init => Loop!Contract!ContractInit
  BY DEF Init, Loop!Init, Loop!Contract!ContractInit
<1>2. Loop!IInv /\ [Next]_allVars
        => [Loop!Contract!ContractNext]_(Loop!Contract!contractVars)
  BY StepOfLoop, LoopStepContract
<1> QED
  BY <1>1, <1>2, LoopInductive, PTL
  DEF Spec, RunsAsPromised, Loop!RunsAsPromised, Loop!Contract!ContractSpec
=============================================================================
