----------------------------- MODULE RunProofs -----------------------------
(* Theorems, for every value of the constants, about what the actor of a    *)
(* SQL tab does not run by itself: an import, a run on a DAX tab, a run on  *)
(* a Local tab, the saves of Edit Data, the cells of a notebook and the     *)
(* requests of the object explorer.                                         *)
EXTENDS MCServices, SequenceTheorems, FiniteSetTheorems, FunctionTheorems, TLAPS

-----------------------------------------------------------------------------
(* ImportRun                                                               *)

LEMMA ImportConstants == Batches \in Nat /\ QueueRoom \in Nat
BY ServiceConstants

LEMMA ImportInitInv == Import!Init => Import!IInv
<1> SUFFICES ASSUME Import!Init PROVE Import!IInv
  OBVIOUS
<1>1. importCancel \in BOOLEAN /\ inDoubt \in BOOLEAN
  BY Zenon DEF Import!Init
<1>2. Import!TypeOK
  BY <1>1, ImportConstants DEF Import!Init, Import!TypeOK
<1>3. /\ Import!BatchesKept /\ Import!GoneForCause /\ Import!TxAtStep /\ Import!ImportToldRight
  BY DEF Import!Init, Import!BatchesKept, Import!Loading, Import!GoneForCause, Import!TxAtStep,
         Import!ImportToldRight
<1> QED BY <1>2, <1>3 DEF Import!IInv

LEMMA ImportStepInv == Import!IInv /\ Import!Next => Import!IInv'
<1> SUFFICES ASSUME Import!IInv, Import!Next PROVE Import!IInv'
  OBVIOUS
<1> USE ImportConstants
<1> USE DEF Import!IInv, Import!TypeOK, Import!BatchesKept, Import!Loading, Import!GoneForCause,
            Import!TxAtStep, Import!ImportToldRight, Import!flags, Import!readerVars, Import!Ends,
            Import!GiveUp
<1>1. CASE Import!CancelImport
  BY <1>1 DEF Import!CancelImport
<1>2. CASE Import!ReadsResult
  BY <1>2 DEF Import!ReadsResult
<1>3. CASE Import!ReadItem
  BY <1>3 DEF Import!ReadItem
<1>4. CASE Import!ReaderStops
  BY <1>4 DEF Import!ReaderStops
<1>5. CASE Import!SendItem
  BY <1>5 DEF Import!SendItem, Import!ReceiverGone
<1>6. CASE Import!Pickup
  BY <1>6 DEF Import!Pickup
<1>7. CASE Import!Create
  BY <1>7 DEF Import!Create
<1>8. CASE Import!BeginTransaction
  BY <1>8 DEF Import!BeginTransaction
<1>9. CASE Import!ReportProgress
  BY <1>9 DEF Import!ReportProgress
<1>10. CASE Import!Receive
  <2>1. CASE channel # <<>> /\ channel' = Tail(channel)
    <3>1. /\ channel' \in Seq({"batch", "bad"}) /\ Len(channel') = Len(channel) - 1
          /\ Head(channel) = channel[1] /\ Len(channel) \in Nat \ {0}
          /\ \A i \in 1..Len(channel') : channel'[i] = channel[i + 1]
      BY <2>1
    <3>2. Len(channel') # 0 => channel'[Len(channel')] = channel[Len(channel)]
      BY <3>1
    <3>3. CASE Head(channel) = "batch" /\ loaded' = loaded + 1 /\ UNCHANGED why
      <4>1. /\ loader = "load" /\ loader' \in {"load", "progress"} /\ loaded' = loaded + 1
            /\ UNCHANGED <<engine, importCancel, dialog, reader, taken, tx, why, told, inDoubt>>
        BY <1>10, <2>1, <3>3 DEF Import!Receive
      <4>2. loaded + Len(channel) <= taken /\ loaded \in Nat /\ taken \in Nat
        BY <4>1
      <4>3. loaded' \in 0..taken /\ Len(channel') <= QueueRoom
        BY <3>1, <4>1, <4>2
      <4>4. Import!TypeOK'
        BY <3>1, <4>1, <4>3
      <4>5. Import!BatchesKept'
        <5> DEFINE inHand == IF reader \in {"batch", "bad"} THEN 1 ELSE 0
        <5>1. inHand' = inHand /\ inHand \in Nat
          BY <4>1
        <5>2. loaded + Len(channel) + inHand = taken
          BY <4>1
        <5> HIDE DEF inHand
        <5>3. Len(channel') = Len(channel) - 1 /\ Len(channel) \in Nat
          BY <3>1
        <5>4. loaded' = loaded + 1 /\ taken' = taken
          BY <4>1
        <5>5. loaded' + Len(channel') + inHand' = taken'
          BY <4>2, <5>1, <5>2, <5>3, <5>4
        <5> QED BY <5>5 DEF inHand
      <4>6. reader = "gone" => taken = Batches \/ importCancel
                               \/ (channel' # <<>> /\ channel'[Len(channel')] = "bad")
        BY <3>1, <3>2, <3>3, <4>1
      <4>7. Import!GoneForCause'
        BY <4>1, <4>6
      <4>8. Import!TxAtStep' /\ Import!ImportToldRight'
        BY <4>1
      <4> QED BY <4>4, <4>5, <4>7, <4>8
    <3>4. CASE loader' = "rollback" /\ why' = "failed" /\ UNCHANGED loaded
      BY <1>10, <2>1, <3>1, <3>4 DEF Import!Receive
    <3> QED BY <1>10, <2>1, <3>3, <3>4 DEF Import!Receive
  <2>2. CASE channel = <<>> /\ reader = "gone" /\ UNCHANGED channel /\ loader' = "finish"
             /\ UNCHANGED <<loaded, why>>
    BY <1>10, <2>2 DEF Import!Receive
  <2> QED BY <1>10, <2>1, <2>2 DEF Import!Receive
<1>11. CASE Import!FinishLoad
  BY <1>11 DEF Import!FinishLoad
<1>12. CASE Import!ConnectionLost
  BY <1>12 DEF Import!ConnectionLost
<1>13. CASE Import!Commit
  BY <1>13 DEF Import!Commit
<1>14. CASE Import!Rollback
  BY <1>14 DEF Import!Rollback
<1> QED
  BY <1>1, <1>2, <1>3, <1>4, <1>5, <1>6, <1>7, <1>8, <1>9, <1>10, <1>11, <1>12, <1>13, <1>14
  DEF Import!Next, Import!Reader, Import!Loader

-----------------------------------------------------------------------------
(* TabularRun                                                              *)

LEMMA DaxConstants == MaxItems \in Nat /\ Preview \in Nat /\ SinkRoom \in Nat
BY ServiceConstants

LEMMA DaxInitInv == Dax!Init => Dax!IInv
<1> SUFFICES ASSUME Dax!Init PROVE Dax!IInv
  OBVIOUS
<1>1. flag \in BOOLEAN /\ stopped \in BOOLEAN /\ daxFailed \in BOOLEAN
  BY Zenon DEF Dax!Init
<1>2. Dax!TypeOK
  BY <1>1, DaxConstants DEF Dax!Init, Dax!TypeOK
<1>3. Dax!EndsAsHeld /\ Dax!OpenForCause /\ Dax!FileEndsAsRun
  BY <1>1 DEF Dax!Init, Dax!EndsAsHeld, Dax!EndTold, Dax!OpenForCause, Dax!FileEndsAsRun
<1> QED BY <1>2, <1>3 DEF Dax!IInv

LEMMA DaxStepInv == Dax!IInv /\ Dax!Next => Dax!IInv'
<1> SUFFICES ASSUME Dax!IInv, Dax!Next PROVE Dax!IInv'
  OBVIOUS
<1> USE DaxConstants
<1> USE DEF Dax!IInv, Dax!TypeOK, Dax!EndsAsHeld, Dax!EndTold, Dax!OpenForCause, Dax!FileEndsAsRun,
            Dax!ui, Dax!file, Dax!Messages
<1>1. CASE Dax!Cancel
  <2>1. flag' \in BOOLEAN
    BY <1>1, Zenon DEF Dax!Cancel
  <2> QED BY <1>1, <2>1 DEF Dax!Cancel
<1>2. CASE Dax!ReadsEvent
  BY <1>2 DEF Dax!ReadsEvent
<1>3. CASE Dax!Writes
  BY <1>3 DEF Dax!Writes
<1>4. CASE Dax!WriterFails
  BY <1>4 DEF Dax!WriterFails
<1>5. CASE Dax!Start
  BY <1>5 DEF Dax!Start
<1>6. CASE Dax!Opens
  <2>1. stopped' \in BOOLEAN /\ daxFailed' \in BOOLEAN
    BY <1>6, Zenon DEF Dax!Opens
  <2> QED BY <1>6, <2>1 DEF Dax!Opens
<1>7. CASE Dax!SeesCancel
  BY <1>7 DEF Dax!SeesCancel
<1>8. CASE Dax!Item
  BY <1>8 DEF Dax!Item, Dax!Took
<1>9. CASE Dax!ErrorItem
  BY <1>9 DEF Dax!ErrorItem
<1>10. CASE Dax!StreamEnds
  BY <1>10 DEF Dax!StreamEnds
<1>11. CASE Dax!Push
  <2>1. CASE /\ writer = "up" /\ Len(queue) < SinkRoom
             /\ queue' = Append(queue, pushing) /\ Dax!Took(pushing) /\ UNCHANGED stopped
    <3>1. /\ at = "push" /\ at' = "next" /\ pushing' = "none" /\ queue' = Append(queue, pushing)
          /\ UNCHANGED <<daxView, daxEvents, flag, items, stopped, daxFailed, daxOutcome, sink, writer,
                         fileEnd>>
      BY <1>11, <2>1 DEF Dax!Push, Dax!Took
    <3>2. CASE pushing = "SetStart"
      BY <2>1, <3>1, <3>2 DEF Dax!Took
    <3>3. CASE pushing = "Batch"
      BY <2>1, <3>1, <3>3 DEF Dax!Took
    <3>4. CASE pushing = "SetEnd"
      BY <2>1, <3>1, <3>4 DEF Dax!Took
    <3> QED BY <1>11, <3>2, <3>3, <3>4 DEF Dax!Push
  <2>2. CASE /\ stopped' = TRUE /\ at' = "close" /\ pushing' = "none"
             /\ UNCHANGED <<current, shown, rowsInSet, queue>>
    <3>1. stopped' \in BOOLEAN
      BY <2>2, Zenon
    <3> QED BY <1>11, <2>2, <3>1 DEF Dax!Push
  <2> QED BY <1>11, <2>1, <2>2 DEF Dax!Push
<1>12. CASE Dax!Close
  <2>1. CASE UNCHANGED queue
    BY <1>12, <2>1 DEF Dax!Close
  <2>2. CASE current # "none" /\ Len(queue) < SinkRoom /\ queue' = Append(queue, "Failed")
    BY <1>12, <2>2 DEF Dax!Close
  <2> QED BY <1>12, <2>1, <2>2 DEF Dax!Close, Dax!Tells
<1>13. CASE Dax!Finish
  <2> DEFINE msg == IF daxOutcome' = "done" THEN "RunEnd" ELSE "Failed"
  <2>1. msg \in Dax!Messages /\ msg # "none"
    OBVIOUS
  <2>2. /\ at = "end" /\ at' = "over" /\ daxEvents' = Append(daxEvents, "RunDone")
        /\ daxOutcome' = (IF stopped THEN "cancelled" ELSE IF daxFailed THEN "failed" ELSE "done")
        /\ UNCHANGED <<daxView, flag, current, shown, rowsInSet, items, pushing, stopped, daxFailed, sink,
                       writer, fileEnd>>
    BY <1>13 DEF Dax!Finish
  <2>3. CASE UNCHANGED queue
    BY <2>2, <2>3
  <2>4. CASE Len(queue) < SinkRoom /\ queue' = Append(queue, msg)
    BY <2>1, <2>2, <2>4
  <2> QED BY <1>13, <2>3, <2>4 DEF Dax!Finish, Dax!Tells
<1> QED
  BY <1>1, <1>2, <1>3, <1>4, <1>5, <1>6, <1>7, <1>8, <1>9, <1>10, <1>11, <1>12, <1>13
  DEF Dax!Next, Dax!Task

-----------------------------------------------------------------------------
(* LocalRun                                                                *)

LEMMA RunConstants ==
  /\ Statements \in Nat /\ MaxRows \in Nat /\ MaxChunk \in Nat /\ RowCap \in Nat /\ U64Max \in Nat
  /\ MaxAsks \in Nat /\ RowCap <= U64Max /\ MaxRows < U64Max
BY ServiceConstants

LEMMA RunInitInv == Run!Init => Run!IInv
<1> SUFFICES ASSUME Run!Init PROVE Run!IInv
  OBVIOUS
<1>1. runCancel \in BOOLEAN /\ permit \in BOOLEAN /\ cancelled \in BOOLEAN /\ failed \in BOOLEAN
  BY Zenon DEF Run!Init
<1>2. Run!TypeOK
  BY <1>1, RunConstants DEF Run!Init, Run!TypeOK, Run!NoMore
<1>3. Run!SetAtStep /\ Run!LocalRowsConserved
  BY DEF Run!Init, Run!SetAtStep, Run!LocalRowsConserved
<1> QED BY <1>2, <1>3 DEF Run!IInv

LEMMA RunStepInv == Run!IInv /\ Run!Next => Run!IInv'
<1> SUFFICES ASSUME Run!IInv, Run!Next PROVE Run!IInv'
  OBVIOUS
<1> USE RunConstants
<1> USE DEF Run!IInv, Run!TypeOK, Run!SetAtStep, Run!LocalRowsConserved, Run!NoMore, Run!flags,
            Run!uiVars, Run!taskVars, Run!Notify
<1>1. CASE Run!Cancel
  BY <1>1 DEF Run!Cancel
<1>2. ASSUME NEW n \in More, Run!FetchMore(n) PROVE Run!IInv'
  BY <1>2 DEF Run!FetchMore
<1>3. CASE Run!Reads
  BY <1>3 DEF Run!Reads
<1>4. CASE Run!Start
  BY <1>4 DEF Run!Start
<1>5. CASE Run!SeesCancelBetween
  BY <1>5 DEF Run!SeesCancelBetween
<1>6. CASE Run!Finish
  BY <1>6 DEF Run!Finish
<1>7. CASE Run!Statement
  <2>1. failed' \in BOOLEAN
    BY <1>7, Zenon DEF Run!Statement
  <2> QED BY <1>7, <2>1 DEF Run!Statement
<1>8. ASSUME NEW n \in 1..MaxRows, Run!Rows(n) PROVE Run!IInv'
  BY <1>8 DEF Run!Rows, Run!Batch
<1>9. CASE Run!EndOfStream
  BY <1>9 DEF Run!EndOfStream
<1>10. CASE Run!StreamFails
  BY <1>10 DEF Run!StreamFails
<1>11. CASE Run!SeesCancel
  BY <1>11 DEF Run!SeesCancel
<1>12. CASE Run!Waits
  BY <1>12 DEF Run!Waits
<1>13. CASE Run!Wakes
  <2>1. permit' \in BOOLEAN
    BY <1>13, Zenon DEF Run!Wakes
  <2>2. CASE runCancel
    <3>1. cancelled'
      BY <1>13, <2>2 DEF Run!Wakes
    <3>2. cancelled' \in BOOLEAN
      BY <1>13, <2>2, Zenon DEF Run!Wakes
    <3> QED BY <1>13, <2>1, <2>2, <3>1, <3>2 DEF Run!Wakes
  <2>3. CASE ~runCancel /\ more # Run!NoMore
    <3>1. cap' \in rows..U64Max
      BY <1>13, <2>3 DEF Run!Wakes, More
    <3> QED BY <1>13, <2>1, <2>3, <3>1 DEF Run!Wakes
  <2>4. CASE ~runCancel /\ more = Run!NoMore
    BY <1>13, <2>1, <2>4 DEF Run!Wakes
  <2> QED BY <2>2, <2>3, <2>4
<1>14. CASE Run!Close
  BY <1>14 DEF Run!Close
<1> QED
  BY <1>1, <1>2, <1>3, <1>4, <1>5, <1>6, <1>7, <1>8, <1>9, <1>10, <1>11, <1>12, <1>13, <1>14
  DEF Run!Next, Run!Task

-----------------------------------------------------------------------------
(* The contract of a run                                                   *)

\* A step of a Local run is a step of the contract, or changes nothing of it.
LEMMA LocalStepPromised ==
  ASSUME Run!IInv, Run!IInv', Run!Next
  PROVE  [Run!Contract!ContractNext]_(Run!Contract!contractVars)
<1> USE RunConstants
<1> USE DEF Run!IInv, Run!TypeOK, Run!SetAtStep, Run!flags, Run!uiVars, Run!taskVars,
            Run!Contract!contractVars, Run!Contract!ContractNext
<1>1. CASE Run!Cancel
  BY <1>1 DEF Run!Cancel
<1>2. ASSUME NEW n \in More, Run!FetchMore(n) PROVE UNCHANGED Run!Contract!contractVars
  BY <1>2 DEF Run!FetchMore
<1>3. CASE Run!Reads
  BY <1>3 DEF Run!Reads
<1>4. CASE Run!Start
  BY <1>4 DEF Run!Start, Run!Contract!Begin
<1>5. CASE Run!SeesCancelBetween
  BY <1>5 DEF Run!SeesCancelBetween, Run!Contract!TakeCancel
<1>6. CASE Run!Finish
  BY <1>6 DEF Run!Finish, Run!Contract!Finish
<1>7. CASE Run!Statement
  BY <1>7 DEF Run!Statement, Run!Contract!OpenSet
<1>8. ASSUME NEW n \in 1..MaxRows, Run!Rows(n) PROVE Run!Contract!Grow
  <2>1. rows' = rows + (IF rows + n > cap THEN cap - rows ELSE n)
    BY <1>8 DEF Run!Rows
  <2>2. rows' \in Nat /\ rows' >= rows
    BY <2>1
  <2>3. /\ runPc = "pull" /\ runPc' \in {"pull", "pausing"} /\ set' \in {set, "Paused"}
        /\ UNCHANGED <<cancelled, outcome>>
    BY <1>8 DEF Run!Rows
  <2> QED BY <2>2, <2>3 DEF Run!Contract!Grow
<1>9. CASE Run!EndOfStream
  BY <1>9 DEF Run!EndOfStream
<1>10. CASE Run!StreamFails
  BY <1>10 DEF Run!StreamFails
<1>11. CASE Run!SeesCancel
  BY <1>11 DEF Run!SeesCancel, Run!Contract!TakeCancel
<1>12. CASE Run!Waits
  BY <1>12 DEF Run!Waits
<1>13. CASE Run!Wakes
  BY <1>13 DEF Run!Wakes, Run!Contract!TakeCancel, Run!Contract!Resume
<1>14. CASE Run!Close
  BY <1>14 DEF Run!Close, Run!Contract!CloseSet
<1> QED
  BY <1>1, <1>2, <1>3, <1>4, <1>5, <1>6, <1>7, <1>8, <1>9, <1>10, <1>11, <1>12, <1>13, <1>14
  DEF Run!Next, Run!Task

\* So is a step of a DAX run.
LEMMA DaxStepPromised ==
  ASSUME Dax!IInv, Dax!IInv', Dax!Next
  PROVE  [Dax!Contract!ContractNext]_(Dax!Contract!contractVars)
<1> USE DaxConstants
<1> USE DEF Dax!IInv, Dax!TypeOK, Dax!EndsAsHeld, Dax!OpenForCause, Dax!ui, Dax!file,
            Dax!Contract!contractVars, Dax!Contract!ContractNext
<1>1. CASE Dax!Cancel
  BY <1>1 DEF Dax!Cancel
<1>2. CASE Dax!ReadsEvent
  BY <1>2 DEF Dax!ReadsEvent
<1>3. CASE Dax!Writes
  BY <1>3 DEF Dax!Writes
<1>4. CASE Dax!WriterFails
  BY <1>4 DEF Dax!WriterFails
<1>5. CASE Dax!Start
  BY <1>5 DEF Dax!Start, Dax!Contract!Begin
<1>6. CASE Dax!Opens
  BY <1>6 DEF Dax!Opens, Dax!Contract!TakeCancel
<1>7. CASE Dax!SeesCancel
  BY <1>7 DEF Dax!SeesCancel, Dax!Contract!TakeCancel
<1>8. CASE Dax!Item
  BY <1>8 DEF Dax!Item, Dax!Took, Dax!Contract!OpenSet, Dax!Contract!Grow, Dax!Contract!CloseSet
<1>9. CASE Dax!ErrorItem
  BY <1>9 DEF Dax!ErrorItem
<1>10. CASE Dax!StreamEnds
  BY <1>10 DEF Dax!StreamEnds
<1>11. CASE Dax!Push
  BY <1>11 DEF Dax!Push, Dax!Took, Dax!Contract!OpenSet, Dax!Contract!Grow, Dax!Contract!CloseSet,
               Dax!Contract!TakeCancel
<1>12. CASE Dax!Close
  BY <1>12 DEF Dax!Close, Dax!Contract!CloseSet
<1>13. CASE Dax!Finish
  BY <1>13 DEF Dax!Finish, Dax!Contract!Finish
<1> QED
  BY <1>1, <1>2, <1>3, <1>4, <1>5, <1>6, <1>7, <1>8, <1>9, <1>10, <1>11, <1>12, <1>13
  DEF Dax!Next, Dax!Task

-----------------------------------------------------------------------------
(* The theorems                                                            *)

LEMMA ImportInductive == Spec => []Import!IInv
<1>1. Init => Import!IInv
  BY ImportInitInv DEF Init
<1>2. Import!IInv /\ [Next]_allVars => Import!IInv'
  <2> SUFFICES ASSUME Import!IInv, [Next]_allVars PROVE Import!IInv'
    OBVIOUS
  <2>1. CASE ImportSteps
    BY <2>1, ImportStepInv DEF ImportSteps
  <2>2. CASE UNCHANGED import
    BY <2>2 DEF import, Import!IInv, Import!TypeOK, Import!BatchesKept, Import!Loading, Import!GoneForCause, Import!TxAtStep, Import!ImportToldRight
  <2>3. ~ImportSteps => UNCHANGED import
    BY DEF Next, allVars, JobSteps, RunSteps, DaxSteps, MetaSteps, HotSteps, ResSteps, AuthSteps, EditSteps, CellSteps
  <2> QED BY <2>1, <2>2, <2>3
<1> QED BY <1>1, <1>2, PTL DEF Spec

LEMMA DaxInductive == Spec => []Dax!IInv
<1>1. Init => Dax!IInv
  BY DaxInitInv DEF Init
<1>2. Dax!IInv /\ [Next]_allVars => Dax!IInv'
  <2> SUFFICES ASSUME Dax!IInv, [Next]_allVars PROVE Dax!IInv'
    OBVIOUS
  <2>1. CASE DaxSteps
    BY <2>1, DaxStepInv DEF DaxSteps
  <2>2. CASE UNCHANGED dax
    BY <2>2 DEF dax, Dax!IInv, Dax!TypeOK, Dax!EndsAsHeld, Dax!EndTold, Dax!OpenForCause, Dax!FileEndsAsRun
  <2>3. ~DaxSteps => UNCHANGED dax
    BY DEF Next, allVars, JobSteps, RunSteps, ImportSteps, MetaSteps, HotSteps, ResSteps, AuthSteps, EditSteps, CellSteps
  <2> QED BY <2>1, <2>2, <2>3
<1> QED BY <1>1, <1>2, PTL DEF Spec

LEMMA RunInductive == Spec => []Run!IInv
<1>1. Init => Run!IInv
  BY RunInitInv DEF Init
<1>2. Run!IInv /\ [Next]_allVars => Run!IInv'
  <2> SUFFICES ASSUME Run!IInv, [Next]_allVars PROVE Run!IInv'
    OBVIOUS
  <2>1. CASE RunSteps
    BY <2>1, RunStepInv DEF RunSteps
  <2>2. CASE UNCHANGED run
    BY <2>2 DEF run, Run!IInv, Run!TypeOK, Run!SetAtStep, Run!LocalRowsConserved
  <2>3. ~RunSteps => UNCHANGED run
    BY DEF Next, allVars, JobSteps, DaxSteps, ImportSteps, MetaSteps, HotSteps, ResSteps, AuthSteps, EditSteps, CellSteps
  <2> QED BY <2>1, <2>2, <2>3
<1> QED BY <1>1, <1>2, PTL DEF Spec

\* What the dialog of an import and the writer of a DAX run's file are told is
\* what happened, for every number of batches and every room in the channels.
THEOREM ResultsAreTrue == Spec => []ToldRight
<1>1. Import!IInv /\ Dax!IInv => ToldRight
  BY DEF Import!IInv, Dax!IInv, ToldRight
<1> QED BY <1>1, ImportInductive, DaxInductive, PTL

\* The runs of a Local and of a DAX tab keep the contract of a run, and a Local
\* run neither loses nor repeats a row that was cut off at the cap.
THEOREM EnginesKeepContract == Spec => EnginesAsPromised
<1>1. Init => Run!Contract!ContractInit
  BY DEF Init, Run!Init, Run!Contract!ContractInit
<1>2. Init => Dax!Contract!ContractInit
  BY DEF Init, Dax!Init, Dax!Contract!ContractInit
<1>3. Run!IInv /\ Run!IInv' /\ [Next]_allVars => [Run!Contract!ContractNext]_(Run!Contract!contractVars)
  <2> SUFFICES ASSUME Run!IInv, Run!IInv', [Next]_allVars
               PROVE  [Run!Contract!ContractNext]_(Run!Contract!contractVars)
    OBVIOUS
  <2>1. CASE RunSteps
    BY <2>1, LocalStepPromised DEF RunSteps
  <2>2. CASE UNCHANGED run
    BY <2>2 DEF run, Run!Contract!contractVars
  <2>3. ~RunSteps => UNCHANGED run
    BY DEF Next, allVars, JobSteps, DaxSteps, ImportSteps, MetaSteps, HotSteps, ResSteps, AuthSteps,
           EditSteps, CellSteps
  <2> QED BY <2>1, <2>2, <2>3
<1>4. Dax!IInv /\ Dax!IInv' /\ [Next]_allVars => [Dax!Contract!ContractNext]_(Dax!Contract!contractVars)
  <2> SUFFICES ASSUME Dax!IInv, Dax!IInv', [Next]_allVars
               PROVE  [Dax!Contract!ContractNext]_(Dax!Contract!contractVars)
    OBVIOUS
  <2>1. CASE DaxSteps
    BY <2>1, DaxStepPromised DEF DaxSteps
  <2>2. CASE UNCHANGED dax
    BY <2>2 DEF dax, Dax!Contract!contractVars
  <2>3. ~DaxSteps => UNCHANGED dax
    BY DEF Next, allVars, JobSteps, RunSteps, ImportSteps, MetaSteps, HotSteps, ResSteps, AuthSteps,
           EditSteps, CellSteps
  <2> QED BY <2>1, <2>2, <2>3
<1>5. Run!IInv => Run!LocalRowsConserved
  BY DEF Run!IInv
<1>6. Spec => Run!Contract!ContractSpec
  BY <1>1, <1>3, RunInductive, PTL DEF Spec, Run!Contract!ContractSpec
<1>7. Spec => Dax!Contract!ContractSpec
  BY <1>2, <1>4, DaxInductive, PTL DEF Spec, Dax!Contract!ContractSpec
<1>8. Spec => []Run!LocalRowsConserved
  BY <1>5, RunInductive, PTL
<1> QED
  BY <1>6, <1>7, <1>8, PTL DEF EnginesAsPromised, Run!LocalRunsAsPromised, Dax!TabularRunsAsPromised

-----------------------------------------------------------------------------
(* EditData                                                                *)

LEMMA EditConstants == MaxTroubles \in Nat /\ MaxViewJobs \in Nat
BY ServiceConstants

\* A view shows rows of the result.
LEMMA ViewRows ==
  /\ Unsorted \in Views
  /\ \A v \in Views : \A p \in DOMAIN v : v[p] \in Edit!Rows /\ p \in Nat
<1>1. Unsorted \in Views /\ \A v \in Views : v \in Seq(Edit!Rows)
  BY GridConstants DEF Edit!Rows
<1>2. ASSUME NEW v \in Seq(Edit!Rows), NEW p \in DOMAIN v PROVE v[p] \in Edit!Rows /\ p \in Nat
  <2>1. DOMAIN v = 1..Len(v) /\ Len(v) \in Nat
    OBVIOUS
  <2> QED BY <2>1
<1> QED BY <1>1, <1>2

\* The types by what they are about
EditGridTyped ==
  /\ large \in BOOLEAN /\ moved \in BOOLEAN
  /\ order \in Views /\ edJobs \subseteq Views
  /\ \A s \in staged : s.meant \in Edit!Rows /\ s.at \in Nat

EditRunTyped ==
  /\ edits \in {"off", "grid", "aside"}
  /\ edRun \in [what : {"none", "query", "save"}, state : {"live", "cancelling", "done", "failed"}]
  /\ edits = "grid" => edRun.what = "query" /\ ~Edit!Live

EditTabTyped ==
  /\ edConn \in {"up", "connecting", "down"}
  /\ edPending \in BOOLEAN /\ edDialog \in BOOLEAN /\ reopen \in BOOLEAN

EditRowsTyped ==
  /\ edTarget \subseteq Edit!Rows /\ landed \subseteq Edit!Rows /\ claimed \subseteq Edit!Rows

EditToldTyped ==
  /\ edEngine \in Editable /\ guarded \in BOOLEAN /\ stuck \in BOOLEAN
  /\ troubles \in 0..MaxTroubles /\ edTold \in {"none", "saved", "failed"}
  /\ edDropped \in BOOLEAN /\ shifted \in BOOLEAN /\ edStopped \in BOOLEAN

LEMMA EditTyped ==
  Edit!TypeOK <=> EditGridTyped /\ EditRunTyped /\ EditTabTyped /\ EditRowsTyped /\ EditToldTyped
BY DEF Edit!TypeOK, EditGridTyped, EditRunTyped, EditTabTyped, EditRowsTyped, EditToldTyped

LEMMA EditInitInv == Edit!Init => Edit!IInv
<1> SUFFICES ASSUME Edit!Init PROVE Edit!IInv
  OBVIOUS
<1> USE DEF Edit!Init, Edit!Live, Edit!Showing
<1>1. EditGridTyped /\ EditRunTyped /\ EditTabTyped /\ EditRowsTyped
  BY ViewRows DEF EditGridTyped, EditRunTyped, EditTabTyped, EditRowsTyped
<1>2. EditToldTyped
  <2>1. 0 \in 0..MaxTroubles
    BY EditConstants
  <2>2. edEngine \in Editable /\ guarded \in BOOLEAN /\ troubles = 0
    BY DEF Edit!Init
  <2> QED BY <2>1, <2>2 DEF EditToldTyped
<1>3. Edit!InPlace /\ Edit!Aside /\ Edit!OneSave /\ Edit!EditsAsTold
  BY DEF Edit!InPlace, Edit!Aside, Edit!OneSave, Edit!EditsAsTold
<1> QED BY <1>1, <1>2, <1>3, EditTyped DEF Edit!IInv

LEMMA EditGridTypes ==
  ASSUME EditGridTyped, Edit!Next
  PROVE  EditGridTyped'
<1> USE DEF Edit!gridVars, Edit!dbVars, Edit!toldVars, Edit!Live, Edit!Showing, Edit!GoesOn,
            Edit!OnGrid, Edit!RunSql, Edit!Execute, Edit!AfterSave, Edit!Reopened, Edit!Fresh, Edit!RunOk
<1> USE ViewRows DEF EditGridTyped
<1>1. CASE Edit!Begin
  BY <1>1 DEF Edit!Begin
<1>2. ASSUME NEW p \in DOMAIN Unsorted, Edit!Stage(p) PROVE EditGridTyped'
  <2>1. order[p] \in Edit!Rows /\ p \in Nat
    BY <1>2 DEF Edit!Stage
  <2> QED BY <1>2, <2>1 DEF Edit!Stage
<1>3. ASSUME NEW off \in BOOLEAN, Edit!Discard(off) PROVE EditGridTyped'
  BY <1>3 DEF Edit!Discard
<1>4. ASSUME NEW v \in Views, Edit!ApplyView(v) \/ Edit!ViewReady(v) PROVE EditGridTyped'
  BY <1>4 DEF Edit!ApplyView, Edit!ViewReady
<1>5. CASE Edit!Save
  BY <1>5 DEF Edit!Save
<1>6. CASE Edit!Confirm
  BY <1>6 DEF Edit!Confirm
<1>7. CASE Edit!PressRun
  BY <1>7 DEF Edit!PressRun
<1>8. CASE Edit!Cancel \/ Edit!Connect
  BY <1>8 DEF Edit!Cancel, Edit!Connect
<1>9. ASSUME NEW error \in BOOLEAN, Edit!QueryDone(error) PROVE EditGridTyped'
  BY <1>9 DEF Edit!QueryDone
<1>10. CASE Edit!SaveCommits \/ Edit!SaveFails
  BY <1>10 DEF Edit!SaveCommits, Edit!SaveFails
<1>11. CASE Edit!ConnectionLost \/ Edit!Disconnected
  BY <1>11 DEF Edit!ConnectionLost, Edit!Disconnected
<1>12. CASE Edit!ConnectFailed \/ Edit!Connected
  BY <1>12 DEF Edit!ConnectFailed, Edit!Connected
<1> QED BY <1>1, <1>2, <1>3, <1>4, <1>5, <1>6, <1>7, <1>8, <1>9, <1>10, <1>11, <1>12 DEF Edit!Next

LEMMA EditRunTypes ==
  ASSUME EditRunTyped, Edit!OneSave, Edit!Next
  PROVE  EditRunTyped'
<1> USE DEF Edit!gridVars, Edit!dbVars, Edit!toldVars, Edit!Live, Edit!Showing, Edit!GoesOn,
            Edit!OnGrid, Edit!RunSql, Edit!Execute, Edit!AfterSave, Edit!Reopened, Edit!Fresh, Edit!RunOk
<1> USE DEF EditRunTyped
<1>1. CASE Edit!Begin
  BY <1>1 DEF Edit!Begin
<1>2. ASSUME NEW p \in DOMAIN Unsorted, Edit!Stage(p) PROVE EditRunTyped'
  BY <1>2 DEF Edit!Stage
<1>3. ASSUME NEW off \in BOOLEAN, Edit!Discard(off) PROVE EditRunTyped'
  BY <1>3 DEF Edit!Discard
<1>4. ASSUME NEW v \in Views, Edit!ApplyView(v) \/ Edit!ViewReady(v) PROVE EditRunTyped'
  BY <1>4 DEF Edit!ApplyView, Edit!ViewReady
<1>5. CASE Edit!Save
  BY <1>5 DEF Edit!Save
<1>6. CASE Edit!Confirm
  BY <1>6 DEF Edit!Confirm, Edit!OneSave
<1>7. CASE Edit!PressRun
  BY <1>7 DEF Edit!PressRun
<1>8. CASE Edit!Cancel \/ Edit!Connect
  BY <1>8 DEF Edit!Cancel, Edit!Connect
<1>9. ASSUME NEW error \in BOOLEAN, Edit!QueryDone(error) PROVE EditRunTyped'
  BY <1>9 DEF Edit!QueryDone
<1>10. CASE Edit!SaveCommits \/ Edit!SaveFails
  BY <1>10 DEF Edit!SaveCommits, Edit!SaveFails
<1>11. CASE Edit!ConnectionLost \/ Edit!Disconnected
  BY <1>11 DEF Edit!ConnectionLost, Edit!Disconnected
<1>12. CASE Edit!ConnectFailed \/ Edit!Connected
  BY <1>12 DEF Edit!ConnectFailed, Edit!Connected
<1> QED BY <1>1, <1>2, <1>3, <1>4, <1>5, <1>6, <1>7, <1>8, <1>9, <1>10, <1>11, <1>12 DEF Edit!Next

LEMMA EditTabTypes ==
  ASSUME EditTabTyped, Edit!Next
  PROVE  EditTabTyped'
<1> USE DEF Edit!gridVars, Edit!dbVars, Edit!toldVars, Edit!Live, Edit!Showing, Edit!GoesOn,
            Edit!OnGrid, Edit!RunSql, Edit!Execute, Edit!AfterSave, Edit!Reopened, Edit!Fresh, Edit!RunOk
<1> USE DEF EditTabTyped
<1>1. CASE Edit!Begin
  BY <1>1 DEF Edit!Begin
<1>2. ASSUME NEW p \in DOMAIN Unsorted, Edit!Stage(p) PROVE EditTabTyped'
  BY <1>2 DEF Edit!Stage
<1>3. ASSUME NEW off \in BOOLEAN, Edit!Discard(off) PROVE EditTabTyped'
  BY <1>3 DEF Edit!Discard
<1>4. ASSUME NEW v \in Views, Edit!ApplyView(v) \/ Edit!ViewReady(v) PROVE EditTabTyped'
  BY <1>4 DEF Edit!ApplyView, Edit!ViewReady
<1>5. CASE Edit!Save
  BY <1>5 DEF Edit!Save
<1>6. CASE Edit!Confirm
  BY <1>6 DEF Edit!Confirm
<1>7. CASE Edit!PressRun
  BY <1>7 DEF Edit!PressRun
<1>8. CASE Edit!Cancel \/ Edit!Connect
  BY <1>8 DEF Edit!Cancel, Edit!Connect
<1>9. ASSUME NEW error \in BOOLEAN, Edit!QueryDone(error) PROVE EditTabTyped'
  BY <1>9 DEF Edit!QueryDone
<1>10. CASE Edit!SaveCommits \/ Edit!SaveFails
  BY <1>10 DEF Edit!SaveCommits, Edit!SaveFails
<1>11. CASE Edit!ConnectionLost \/ Edit!Disconnected
  BY <1>11 DEF Edit!ConnectionLost, Edit!Disconnected
<1>12. CASE Edit!ConnectFailed \/ Edit!Connected
  BY <1>12 DEF Edit!ConnectFailed, Edit!Connected
<1> QED BY <1>1, <1>2, <1>3, <1>4, <1>5, <1>6, <1>7, <1>8, <1>9, <1>10, <1>11, <1>12 DEF Edit!Next

LEMMA EditRowsTypes ==
  ASSUME EditGridTyped, EditRowsTyped, Edit!Next
  PROVE  EditRowsTyped'
<1> USE DEF Edit!gridVars, Edit!dbVars, Edit!toldVars, Edit!Live, Edit!Showing, Edit!GoesOn,
            Edit!OnGrid, Edit!RunSql, Edit!Execute, Edit!AfterSave, Edit!Reopened, Edit!Fresh, Edit!RunOk
<1> USE DEF EditRowsTyped
<1>1. CASE Edit!Begin
  BY <1>1 DEF Edit!Begin
<1>2. ASSUME NEW p \in DOMAIN Unsorted, Edit!Stage(p) PROVE EditRowsTyped'
  BY <1>2 DEF Edit!Stage
<1>3. ASSUME NEW off \in BOOLEAN, Edit!Discard(off) PROVE EditRowsTyped'
  BY <1>3 DEF Edit!Discard
<1>4. ASSUME NEW v \in Views, Edit!ApplyView(v) \/ Edit!ViewReady(v) PROVE EditRowsTyped'
  BY <1>4 DEF Edit!ApplyView, Edit!ViewReady
<1>5. CASE Edit!Save
  <2>1. Edit!Addressed \subseteq Edit!Rows /\ Edit!Meant \subseteq Edit!Rows
    BY ViewRows DEF Edit!Addressed, Edit!Meant, EditGridTyped
  <2> QED BY <1>5, <2>1 DEF Edit!Save
<1>6. CASE Edit!Confirm
  BY <1>6 DEF Edit!Confirm
<1>7. CASE Edit!PressRun
  BY <1>7 DEF Edit!PressRun
<1>8. CASE Edit!Cancel \/ Edit!Connect
  BY <1>8 DEF Edit!Cancel, Edit!Connect
<1>9. ASSUME NEW error \in BOOLEAN, Edit!QueryDone(error) PROVE EditRowsTyped'
  BY <1>9 DEF Edit!QueryDone
<1>10. CASE Edit!SaveCommits \/ Edit!SaveFails
  BY <1>10 DEF Edit!SaveCommits, Edit!SaveFails
<1>11. CASE Edit!ConnectionLost \/ Edit!Disconnected
  BY <1>11 DEF Edit!ConnectionLost, Edit!Disconnected
<1>12. CASE Edit!ConnectFailed \/ Edit!Connected
  BY <1>12 DEF Edit!ConnectFailed, Edit!Connected
<1> QED BY <1>1, <1>2, <1>3, <1>4, <1>5, <1>6, <1>7, <1>8, <1>9, <1>10, <1>11, <1>12 DEF Edit!Next

LEMMA EditToldTypes ==
  ASSUME EditGridTyped, EditToldTyped, Edit!Next
  PROVE  EditToldTyped'
<1> USE DEF Edit!gridVars, Edit!dbVars, Edit!toldVars, Edit!Live, Edit!Showing, Edit!GoesOn,
            Edit!OnGrid, Edit!RunSql, Edit!Execute, Edit!AfterSave, Edit!Reopened, Edit!Fresh, Edit!RunOk
<1> USE EditConstants DEF EditToldTyped
<1>1. CASE Edit!Begin
  BY <1>1 DEF Edit!Begin
<1>2. ASSUME NEW p \in DOMAIN Unsorted, Edit!Stage(p) PROVE EditToldTyped'
  BY <1>2 DEF Edit!Stage
<1>3. ASSUME NEW off \in BOOLEAN, Edit!Discard(off) PROVE EditToldTyped'
  BY <1>3 DEF Edit!Discard
<1>4. ASSUME NEW v \in Views, Edit!ApplyView(v) \/ Edit!ViewReady(v) PROVE EditToldTyped'
  BY <1>4 DEF Edit!ApplyView, Edit!ViewReady
<1>5. CASE Edit!Save
  <2>1. moved \in BOOLEAN
    BY DEF EditGridTyped
  <2> QED BY <1>5, <2>1 DEF Edit!Save
<1>6. CASE Edit!Confirm
  BY <1>6 DEF Edit!Confirm
<1>7. CASE Edit!PressRun
  BY <1>7 DEF Edit!PressRun
<1>8. CASE Edit!Cancel \/ Edit!Connect
  BY <1>8 DEF Edit!Cancel, Edit!Connect
<1>9. ASSUME NEW error \in BOOLEAN, Edit!QueryDone(error) PROVE EditToldTyped'
  BY <1>9 DEF Edit!QueryDone
<1>10. CASE Edit!SaveCommits \/ Edit!SaveFails
  BY <1>10 DEF Edit!SaveCommits, Edit!SaveFails
<1>11. CASE Edit!ConnectionLost \/ Edit!Disconnected
  <2>1. troubles + 1 \in 0..MaxTroubles
    BY <1>11 DEF Edit!ConnectionLost, Edit!Disconnected
  <2>2. /\ troubles' = troubles + 1
        /\ edDropped' \in BOOLEAN /\ edStopped' \in BOOLEAN /\ stuck' \in BOOLEAN
    BY <1>11 DEF Edit!ConnectionLost, Edit!Disconnected
  <2>3. UNCHANGED <<edEngine, guarded, edTold, shifted>>
    BY <1>11 DEF Edit!ConnectionLost, Edit!Disconnected
  <2> QED BY <2>1, <2>2, <2>3
<1>12. CASE Edit!ConnectFailed \/ Edit!Connected
  BY <1>12 DEF Edit!ConnectFailed, Edit!Connected
<1> QED BY <1>1, <1>2, <1>3, <1>4, <1>5, <1>6, <1>7, <1>8, <1>9, <1>10, <1>11, <1>12 DEF Edit!Next

\* Where no view moved the rows, the script addresses those that were changed.
LEMMA AddressedAsMeant ==
  ASSUME Edit!InPlace, edits = "grid", ~moved
  PROVE  Edit!Addressed = Edit!Meant
<1>1. \A s \in staged : s.at \in DOMAIN order /\ order[s.at] = s.meant
  BY DEF Edit!InPlace
<1>2. {t \in staged : t.at \in DOMAIN order} = staged
  BY <1>1
<1> QED BY <1>1, <1>2 DEF Edit!Addressed, Edit!Meant

LEMMA EditStepInv == Edit!IInv /\ Edit!Next => Edit!IInv'
<1> SUFFICES ASSUME Edit!IInv, Edit!Next PROVE Edit!IInv'
  OBVIOUS
<1> DEFINE Rest == Edit!InPlace' /\ Edit!Aside' /\ Edit!OneSave' /\ Edit!EditsAsTold'
<1>0. /\ Edit!TypeOK' /\ Edit!TypeOK
      /\ Edit!InPlace /\ Edit!Aside /\ Edit!OneSave /\ Edit!EditsAsTold
  <2>1. Edit!TypeOK'
    <3>1. /\ EditGridTyped /\ EditRunTyped /\ EditTabTyped /\ EditRowsTyped /\ EditToldTyped
          /\ Edit!OneSave
      BY EditTyped DEF Edit!IInv
    <3>2. EditGridTyped' /\ EditRunTyped' /\ EditTabTyped' /\ EditRowsTyped' /\ EditToldTyped'
      BY <3>1, EditGridTypes, EditRunTypes, EditTabTypes, EditRowsTypes, EditToldTypes
    <3> QED BY <3>2 DEF Edit!TypeOK, EditGridTyped, EditRunTyped, EditTabTyped, EditRowsTyped, EditToldTyped
  <2> QED BY <2>1 DEF Edit!IInv
<1> SUFFICES Rest
  BY <1>0 DEF Edit!IInv
<1> USE DEF Edit!gridVars, Edit!dbVars, Edit!toldVars, Edit!Live, Edit!Showing, Edit!GoesOn,
            Edit!OnGrid, Edit!RunSql, Edit!Execute, Edit!AfterSave, Edit!Reopened, Edit!Fresh, Edit!RunOk
<1> USE DEF Edit!InPlace, Edit!Aside, Edit!OneSave, Edit!EditsAsTold
<1>1. CASE Edit!Begin
  BY <1>0, <1>1 DEF Edit!Begin
<1>2. ASSUME NEW p \in DOMAIN Unsorted, Edit!Stage(p) PROVE Rest
  <2>1. Edit!InPlace'
    <3>1. /\ p \in DOMAIN order /\ edits = "grid" /\ order' = order
          /\ staged' \subseteq staged \cup {[at |-> p, meant |-> order[p]]}
          /\ ~moved' => ~moved \/ staged = {}
      BY <1>2 DEF Edit!Stage
    <3>2. ASSUME ~moved', NEW s \in staged' PROVE s.at \in DOMAIN order /\ order[s.at] = s.meant
      BY <1>0, <3>1, <3>2
    <3> QED BY <3>1, <3>2
  <2>2. Edit!Aside' /\ Edit!OneSave' /\ Edit!EditsAsTold'
    BY <1>0, <1>2 DEF Edit!Stage
  <2> QED BY <2>1, <2>2
<1>3. ASSUME NEW off \in BOOLEAN, Edit!Discard(off) PROVE Rest
  BY <1>0, <1>3 DEF Edit!Discard
<1>4. ASSUME NEW v \in Views, Edit!ApplyView(v) \/ Edit!ViewReady(v) PROVE Rest
  <2>1. Edit!InPlace'
    BY <1>0, <1>4 DEF Edit!ApplyView, Edit!ViewReady, Edit!TypeOK
  <2>2. Edit!Aside' /\ Edit!OneSave' /\ Edit!EditsAsTold'
    BY <1>0, <1>4 DEF Edit!ApplyView, Edit!ViewReady
  <2> QED BY <2>1, <2>2
<1>5. CASE Edit!Save
  <2>1. /\ edits = "grid" /\ edits' = "aside" /\ UNCHANGED <<staged, order, moved>>
        /\ edTarget' = Edit!Addressed /\ claimed' = Edit!Meant /\ edTold' = "none" /\ edStopped' = FALSE
        /\ landed' = {} /\ edDropped' = (edConn # "up") /\ shifted' = moved
    BY <1>5 DEF Edit!Save
  <2>2. ~moved => edTarget' = claimed'
    BY <1>0, <2>1, AddressedAsMeant
  <2>3. Edit!InPlace' /\ Edit!Aside'
    BY <1>0, <2>1, <2>2
  <2>4. Edit!OneSave' /\ Edit!EditsAsTold'
    BY <1>0, <1>5, <2>1 DEF Edit!Save, Edit!TypeOK
  <2> QED BY <2>3, <2>4
<1>6. CASE Edit!Confirm
  BY <1>0, <1>6 DEF Edit!Confirm, Edit!TypeOK
<1>7. CASE Edit!PressRun
  BY <1>0, <1>7 DEF Edit!PressRun, Edit!TypeOK
<1>8. CASE Edit!Cancel \/ Edit!Connect
  BY <1>0, <1>8 DEF Edit!Cancel, Edit!Connect, Edit!TypeOK
<1>9. ASSUME NEW error \in BOOLEAN, Edit!QueryDone(error) PROVE Rest
  BY <1>0, <1>9 DEF Edit!QueryDone, Edit!TypeOK
<1>10. CASE Edit!SaveCommits \/ Edit!SaveFails
  BY <1>0, <1>10 DEF Edit!SaveCommits, Edit!SaveFails, Edit!TypeOK
<1>11. CASE Edit!ConnectionLost \/ Edit!Disconnected
  BY <1>0, <1>11 DEF Edit!ConnectionLost, Edit!Disconnected, Edit!TypeOK
<1>12. CASE Edit!ConnectFailed \/ Edit!Connected
  BY <1>0, <1>12 DEF Edit!ConnectFailed, Edit!Connected, Edit!TypeOK
<1> QED BY <1>1, <1>2, <1>3, <1>4, <1>5, <1>6, <1>7, <1>8, <1>9, <1>10, <1>11, <1>12 DEF Edit!Next

LEMMA EditInductive == Spec => []Edit!IInv
<1>1. Init => Edit!IInv
  BY EditInitInv DEF Init
<1>2. Edit!IInv /\ [Next]_allVars => Edit!IInv'
  <2> SUFFICES ASSUME Edit!IInv, [Next]_allVars PROVE Edit!IInv'
    OBVIOUS
  <2>1. CASE EditSteps
    BY <2>1, EditStepInv DEF EditSteps
  <2>2. CASE UNCHANGED edit
    BY <2>2 DEF edit, Edit!IInv, Edit!TypeOK, Edit!InPlace, Edit!Aside, Edit!OneSave, Edit!EditsAsTold, Edit!Live
  <2>3. ~EditSteps => UNCHANGED edit
    BY DEF Next, allVars, JobSteps, RunSteps, DaxSteps, ImportSteps, MetaSteps, HotSteps, ResSteps, AuthSteps, CellSteps
  <2> QED BY <2>1, <2>2, <2>3
<1> QED BY <1>1, <1>2, PTL DEF Spec

\* What the user of Edit Data is told of a save is what happened, for every
\* result, every set of views and every number of changes: "Saved" means that
\* the changed rows are written, "nothing was written" that none is, and changes
\* that are out of sight are being saved.
THEOREM EditsToldAsHappened == Spec => []EditsAsTold
<1>1. Edit!IInv => EditsAsTold
  BY DEF Edit!IInv, EditsAsTold
<1> QED BY <1>1, EditInductive, PTL

-----------------------------------------------------------------------------
(* NotebookCells                                                           *)

LEMMA NbConstants ==
  /\ MaxPresses \in Nat /\ MaxTroubles \in Nat
  /\ Cells \in Seq(Nb!All) /\ Nb!None \notin Nb!All
  /\ \A i, j \in DOMAIN Cells : Cells[i] = Cells[j] => i = j
BY ServiceConstants, CellConstants DEF Nb!All, Nb!None

LEMMA CellsFinite ==
  ASSUME NEW some \in SUBSET Nb!All
  PROVE  IsFiniteSet(some) /\ Cardinality(some) \in Nat
<1>1. DOMAIN Cells = 1..Len(Cells) /\ Len(Cells) \in Nat
  BY NbConstants
<1>2. IsFiniteSet(1..Len(Cells))
  BY <1>1, FS_Interval
<1>3. Cells \in Surjection(1..Len(Cells), Nb!All)
  BY <1>1, NbConstants DEF Nb!All, Surjection
<1>4. IsFiniteSet(Nb!All)
  BY <1>2, <1>3, FS_Surjection DEF ExistsSurjection
<1> QED BY <1>4, FS_Subset, FS_CardinalityType

\* What a notebook's queue is: cells, each of them once.
Queued(q) == q \in Seq(Nb!All) /\ Nb!Distinct(q)

LEMMA QueueEmpty == Queued(<<>>) /\ Nb!ToSet(<<>>) = {}
BY DEF Queued, Nb!Distinct, Nb!ToSet

\* The end of a queue is one.
LEMMA QueueEnd ==
  ASSUME NEW q, Queued(q), NEW k \in 1..(Len(q) + 1)
  PROVE  /\ Queued(SubSeq(q, k, Len(q)))
         /\ Nb!ToSet(SubSeq(q, k, Len(q))) \subseteq Nb!ToSet(q)
<1> DEFINE r == SubSeq(q, k, Len(q))
<1>1. /\ q \in Seq(Nb!All) /\ Len(q) \in Nat /\ DOMAIN q = 1..Len(q)
      /\ \A i, j \in 1..Len(q) : q[i] = q[j] => i = j
      /\ \A i \in 1..Len(q) : q[i] \in Nb!All
  BY DEF Queued, Nb!Distinct
<1>2. k \in Int /\ Len(q) \in Int /\ \A i \in k..Len(q) : q[i] \in Nb!All
  BY <1>1
<1>3. /\ r \in Seq(Nb!All) /\ Len(r) = (IF k <= Len(q) THEN Len(q) - k + 1 ELSE 0)
      /\ \A i \in 1..(Len(q) - k + 1) : r[i] = q[k + i - 1]
  BY <1>2, SubSeqProperties
<1> HIDE DEF r
<1>4. Len(r) = Len(q) - k + 1 /\ Len(r) \in Nat
  BY <1>1, <1>3
<1>5. DOMAIN r = 1..Len(r)
  BY <1>3
<1>6. \A i \in DOMAIN r : k + i - 1 \in 1..Len(q) /\ r[i] = q[k + i - 1]
  BY <1>1, <1>3, <1>4, <1>5
<1>7. Nb!Distinct(r)
  <2> SUFFICES ASSUME NEW i \in DOMAIN r, NEW j \in DOMAIN r, r[i] = r[j] PROVE i = j
    BY DEF Nb!Distinct
  <2>1. k + i - 1 = k + j - 1
    BY <1>1, <1>6
  <2>2. i \in Int /\ j \in Int
    BY <1>5
  <2> QED BY <2>1, <2>2
<1>8. Nb!ToSet(r) \subseteq Nb!ToSet(q)
  BY <1>1, <1>6 DEF Nb!ToSet
<1> QED BY <1>3, <1>7, <1>8 DEF Queued, r

\* Its first cell is not among the others.
LEMMA QueueFirst ==
  ASSUME NEW q, Queued(q), q # <<>>
  PROVE  /\ Queued(Tail(q)) /\ Nb!ToSet(Tail(q)) \subseteq Nb!ToSet(q)
         /\ Head(q) \in Nb!All /\ Head(q) \in Nb!ToSet(q) /\ Head(q) \notin Nb!ToSet(Tail(q))
<1>1. /\ q \in Seq(Nb!All) /\ Len(q) \in Nat /\ DOMAIN q = 1..Len(q)
      /\ \A i, j \in 1..Len(q) : q[i] = q[j] => i = j
  BY DEF Queued, Nb!Distinct
<1>2. Len(q) # 0
  BY <1>1, EmptySeq
<1>3. /\ Head(q) \in Nb!All /\ Tail(q) \in Seq(Nb!All) /\ Len(Tail(q)) = Len(q) - 1 /\ Head(q) = q[1]
      /\ \A i \in 1..Len(Tail(q)) : Tail(q)[i] = q[i + 1]
  BY <1>1, HeadTailProperties
<1> DEFINE r == Tail(q)
<1> HIDE DEF r
<1>4. /\ r \in Seq(Nb!All) /\ DOMAIN r = 1..(Len(q) - 1)
      /\ \A i \in DOMAIN r : r[i] = q[i + 1] /\ i + 1 \in 1..Len(q) /\ i + 1 # 1
  <2>1. r \in Seq(Nb!All) /\ Len(r) = Len(q) - 1 /\ \A i \in 1..Len(r) : r[i] = q[i + 1]
    BY <1>3 DEF r
  <2>2. DOMAIN r = 1..Len(r)
    BY <2>1
  <2> QED BY <1>1, <2>1, <2>2
<1>5. Nb!Distinct(r)
  <2> SUFFICES ASSUME NEW i \in DOMAIN r, NEW j \in DOMAIN r, r[i] = r[j] PROVE i = j
    BY DEF Nb!Distinct
  <2>1. i + 1 = j + 1
    BY <1>1, <1>4
  <2>2. i \in Int /\ j \in Int
    BY <1>4
  <2> QED BY <2>1, <2>2
<1>6. Nb!ToSet(r) \subseteq Nb!ToSet(q)
  BY <1>1, <1>4 DEF Nb!ToSet
<1>7. 1 \in 1..Len(q)
  BY <1>1, <1>2
<1>8. q[1] \in Nb!ToSet(q) /\ q[1] \notin Nb!ToSet(r)
  BY <1>1, <1>4, <1>7 DEF Nb!ToSet
<1> QED BY <1>3, <1>4, <1>5, <1>6, <1>8 DEF Queued, r

\* Cells that are not queued may join it.
LEMMA QueueJoined ==
  ASSUME NEW q, Queued(q), NEW a, Queued(a), Nb!ToSet(a) \cap Nb!ToSet(q) = {}
  PROVE  Queued(q \o a) /\ Nb!ToSet(q \o a) \subseteq Nb!ToSet(q) \cup Nb!ToSet(a)
<1>1. /\ q \in Seq(Nb!All) /\ Len(q) \in Nat /\ DOMAIN q = 1..Len(q)
      /\ a \in Seq(Nb!All) /\ Len(a) \in Nat /\ DOMAIN a = 1..Len(a)
      /\ \A i, j \in 1..Len(q) : q[i] = q[j] => i = j
      /\ \A i, j \in 1..Len(a) : a[i] = a[j] => i = j
  BY DEF Queued, Nb!Distinct
<1> DEFINE c == q \o a
<1>2. /\ c \in Seq(Nb!All) /\ Len(c) = Len(q) + Len(a)
      /\ \A i \in 1..Len(q) : c[i] = q[i]
      /\ \A i \in 1..Len(a) : c[Len(q) + i] = a[i]
  BY <1>1, ConcatProperties
<1> HIDE DEF c
<1>3. DOMAIN c = 1..(Len(q) + Len(a))
  BY <1>1, <1>2
<1>4. ASSUME NEW i \in DOMAIN c
      PROVE  \/ i \in 1..Len(q) /\ c[i] = q[i]
             \/ i - Len(q) \in 1..Len(a) /\ c[i] = a[i - Len(q)] /\ i \in Int
  <2>1. i \in 1..Len(q) \/ i - Len(q) \in 1..Len(a)
    BY <1>1, <1>3
  <2>2. i = Len(q) + (i - Len(q))
    BY <1>1, <1>3
  <2>3. i \in Int
    BY <1>3
  <2> QED BY <1>2, <2>1, <2>2, <2>3
<1>5. Nb!ToSet(c) \subseteq Nb!ToSet(q) \cup Nb!ToSet(a)
  BY <1>1, <1>4 DEF Nb!ToSet
<1>6. Nb!Distinct(c)
  <2> SUFFICES ASSUME NEW i \in DOMAIN c, NEW j \in DOMAIN c, c[i] = c[j] PROVE i = j
    BY DEF Nb!Distinct
  <2>1. CASE i \in 1..Len(q) /\ c[i] = q[i] /\ j \in 1..Len(q) /\ c[j] = q[j]
    BY <1>1, <2>1
  <2>2. CASE /\ i - Len(q) \in 1..Len(a) /\ c[i] = a[i - Len(q)] /\ i \in Int
             /\ j - Len(q) \in 1..Len(a) /\ c[j] = a[j - Len(q)] /\ j \in Int
    <3>1. i - Len(q) = j - Len(q)
      BY <1>1, <2>2
    <3> QED BY <1>1, <2>2, <3>1
  <2>3. ASSUME NEW m \in 1..Len(q), NEW n \in 1..Len(a) PROVE q[m] # a[n]
    <3>1. q[m] \in Nb!ToSet(q) /\ a[n] \in Nb!ToSet(a)
      BY <1>1 DEF Nb!ToSet
    <3> QED BY <3>1
  <2> QED BY <1>4, <2>1, <2>2, <2>3
<1> QED BY <1>2, <1>5, <1>6 DEF Queued, c

\* One of them may leave it.
LEMMA QueueLeft ==
  ASSUME NEW q, Queued(q), NEW i \in DOMAIN q
  PROVE  Queued(Nb!RemoveAt(q, i)) /\ Nb!ToSet(Nb!RemoveAt(q, i)) \subseteq Nb!ToSet(q) \ {q[i]}
<1>1. /\ q \in Seq(Nb!All) /\ Len(q) \in Nat /\ DOMAIN q = 1..Len(q)
      /\ \A m, n \in 1..Len(q) : q[m] = q[n] => m = n
      /\ \A m \in 1..Len(q) : q[m] \in Nb!All
  BY DEF Queued, Nb!Distinct
<1> DEFINE a == SubSeq(q, 1, i - 1)
           b == SubSeq(q, i + 1, Len(q))
<1>2. Queued(b) /\ Nb!ToSet(b) \subseteq Nb!ToSet(q)
  <2>1. i + 1 \in 1..(Len(q) + 1)
    BY <1>1
  <2> QED BY <2>1, QueueEnd
<1>3. /\ b \in Seq(Nb!All)
      /\ \A m \in DOMAIN b : b[m] = q[i + m] /\ i + m \in 1..Len(q) /\ i + m > i
  <2>1. /\ i + 1 \in Int /\ Len(q) \in Int /\ i \in Int
        /\ \A m \in (i + 1)..Len(q) : q[m] \in Nb!All
    BY <1>1
  <2>2. /\ b \in Seq(Nb!All) /\ Len(b) = (IF i + 1 <= Len(q) THEN Len(q) - (i + 1) + 1 ELSE 0)
        /\ \A m \in 1..(Len(q) - (i + 1) + 1) : b[m] = q[(i + 1) + m - 1]
    BY <2>1, SubSeqProperties
  <2> HIDE DEF b
  <2>3. DOMAIN b = 1..(Len(q) - i)
    <3>1. DOMAIN b = 1..Len(b)
      BY <2>2
    <3>2. Len(b) = Len(q) - i
      BY <1>1, <2>2
    <3> QED BY <3>1, <3>2
  <2>4. ASSUME NEW m \in 1..(Len(q) - i) PROVE b[m] = q[i + m] /\ i + m \in 1..Len(q) /\ i + m > i
    <3>1. (i + 1) + m - 1 = i + m /\ m \in 1..(Len(q) - (i + 1) + 1)
      BY <1>1
    <3>2. i + m \in 1..Len(q) /\ i + m > i
      BY <1>1
    <3> QED BY <2>2, <3>1, <3>2
  <2> QED BY <2>2, <2>3, <2>4
<1>4. /\ a \in Seq(Nb!All)
      /\ \A m \in DOMAIN a : a[m] = q[m] /\ m \in 1..Len(q) /\ m < i
  <2>1. /\ 1 \in Int /\ i - 1 \in Int /\ i \in Int
        /\ \A m \in 1..(i - 1) : q[m] \in Nb!All
    BY <1>1
  <2>2. /\ a \in Seq(Nb!All) /\ Len(a) = (IF 1 <= i - 1 THEN (i - 1) - 1 + 1 ELSE 0)
        /\ \A m \in 1..((i - 1) - 1 + 1) : a[m] = q[1 + m - 1]
    BY <2>1, SubSeqProperties
  <2> HIDE DEF a
  <2>3. DOMAIN a = 1..Len(a)
    BY <2>2
  <2> QED BY <1>1, <2>1, <2>2, <2>3
<1> HIDE DEF a, b
<1>5. Nb!Distinct(a)
  BY <1>1, <1>4 DEF Nb!Distinct
<1>6. Nb!ToSet(a) \cap Nb!ToSet(b) = {}
  <2> SUFFICES ASSUME NEW m \in DOMAIN a, NEW n \in DOMAIN b, a[m] = b[n] PROVE FALSE
    BY DEF Nb!ToSet
  <2>1. m = i + n
    BY <1>1, <1>3, <1>4
  <2>2. m < i /\ i + n > i /\ i \in Int /\ m \in Int
    BY <1>1, <1>3, <1>4
  <2> QED BY <2>1, <2>2
<1>7. Nb!ToSet(a) \cup Nb!ToSet(b) \subseteq Nb!ToSet(q) \ {q[i]}
  <2>1. ASSUME NEW m \in 1..Len(q), m # i PROVE q[m] \in Nb!ToSet(q) \ {q[i]}
    BY <1>1, <2>1 DEF Nb!ToSet
  <2>2. \A m \in DOMAIN a : m # i
    BY <1>1, <1>4
  <2>3. \A m \in DOMAIN b : i + m # i
    BY <1>1, <1>3
  <2>4. Nb!ToSet(a) \subseteq Nb!ToSet(q) \ {q[i]}
    <3> SUFFICES ASSUME NEW m \in DOMAIN a PROVE a[m] \in Nb!ToSet(q) \ {q[i]}
      BY DEF Nb!ToSet
    <3> QED BY <1>4, <2>1, <2>2
  <2>5. Nb!ToSet(b) \subseteq Nb!ToSet(q) \ {q[i]}
    <3> SUFFICES ASSUME NEW m \in DOMAIN b PROVE b[m] \in Nb!ToSet(q) \ {q[i]}
      BY DEF Nb!ToSet
    <3> QED BY <1>3, <2>1, <2>3
  <2> QED BY <2>4, <2>5
<1>8. Nb!RemoveAt(q, i) = a \o b
  BY DEF Nb!RemoveAt, a, b
<1>9. Queued(a \o b) /\ Nb!ToSet(a \o b) \subseteq Nb!ToSet(a) \cup Nb!ToSet(b)
  <2>1. Queued(a)
    BY <1>4, <1>5 DEF Queued
  <2> QED BY <1>2, <1>6, <2>1, QueueJoined
<1> QED BY <1>7, <1>8, <1>9

\* Cells in the notebook's order
LEMMA CellsInOrder ==
  ASSUME NEW some \in SUBSET Nb!All, NEW s \in Nb!InOrder(some)
  PROVE  Queued(s) /\ Nb!ToSet(s) \subseteq some
<1>1. PICK n \in Nat : n = Cardinality(some)
  BY CellsFinite
<1>2. /\ s \in [1..n -> some]
      /\ \A i, j \in 1..n : i < j =>
           \E k, m \in DOMAIN Cells : k < m /\ s[i] = Cells[k] /\ s[j] = Cells[m]
  BY <1>1 DEF Nb!InOrder, Nb!Cardinality, Cardinality
<1>3. s \in Seq(some) /\ s \in Seq(Nb!All) /\ DOMAIN s = 1..n
  BY <1>2
<1>4. ASSUME NEW i \in 1..n, NEW j \in 1..n, i < j PROVE s[i] # s[j]
  <2>1. PICK k \in DOMAIN Cells, m \in DOMAIN Cells : k < m /\ s[i] = Cells[k] /\ s[j] = Cells[m]
    BY <1>2, <1>4
  <2>2. DOMAIN Cells = 1..Len(Cells)
    BY NbConstants
  <2>3. k # m
    BY <2>1, <2>2
  <2> QED BY <2>1, <2>3, NbConstants
<1>5. Nb!Distinct(s)
  <2> SUFFICES ASSUME NEW i \in 1..n, NEW j \in 1..n, s[i] = s[j] PROVE i = j
    BY <1>3 DEF Nb!Distinct
  <2>1. i < j \/ j < i \/ i = j
    OBVIOUS
  <2> QED BY <1>4, <2>1
<1>6. Nb!ToSet(s) \subseteq some
  BY <1>2, <1>3 DEF Nb!ToSet
<1> QED BY <1>3, <1>5, <1>6 DEF Queued

\* What pump passes over leaves the queue.
LEMMA QueueFrom ==
  ASSUME NEW q, Queued(q), NEW skipped
  PROVE  Queued(Nb!From(q, skipped)) /\ Nb!ToSet(Nb!From(q, skipped)) \subseteq Nb!ToSet(q)
<1> DEFINE passed == {i \in DOMAIN q : \A j \in 1..i : q[j] \in skipped}
<1>1. Len(q) \in Nat /\ DOMAIN q = 1..Len(q)
  BY DEF Queued
<1>2. /\ IsFiniteSet(passed) /\ Cardinality(passed) <= Cardinality(1..Len(q))
      /\ Cardinality(passed) \in Nat /\ Cardinality(1..Len(q)) = Len(q)
  <2>1. IsFiniteSet(1..Len(q)) /\ Cardinality(1..Len(q)) = Len(q)
    <3>1. /\ IsFiniteSet(1..Len(q))
          /\ Cardinality(1..Len(q)) = (IF 1 > Len(q) THEN 0 ELSE Len(q) - 1 + 1)
      BY <1>1, FS_Interval
    <3> QED BY <1>1, <3>1
  <2>2. passed \subseteq 1..Len(q)
    BY <1>1
  <2> HIDE DEF passed
  <2>3. IsFiniteSet(passed) /\ Cardinality(passed) <= Cardinality(1..Len(q))
    BY <2>1, <2>2, FS_Subset
  <2> QED BY <2>1, <2>3, FS_CardinalityType
<1>3. Cardinality(passed) + 1 \in 1..(Len(q) + 1)
  <2> HIDE DEF passed
  <2> QED BY <1>1, <1>2
<1>4. Nb!From(q, skipped) = SubSeq(q, Cardinality(passed) + 1, Len(q))
  BY DEF Nb!From, Nb!Cardinality, Cardinality
<1> HIDE DEF passed
<1> QED BY <1>3, <1>4, QueueEnd

\* What pump leaves queued, sends and connects for
Taken(p, q, runs, up) ==
  /\ Queued(p.queue) /\ Nb!ToSet(p.queue) \subseteq Nb!ToSet(q)
  /\ p.sends # Nb!None => /\ p.sends \in Nb!All /\ p.sends \in Nb!ToSet(q) \ Nb!ToSet(p.queue)
                          /\ ~runs
  /\ p.connects \in BOOLEAN /\ (p.connects => ~up /\ p.sends = Nb!None)
  /\ p.queue # <<>> => runs \/ p.connects \/ p.sends # Nb!None

LEMMA PumpTakes ==
  ASSUME NEW q, Queued(q), NEW runs \in BOOLEAN, NEW fails \in BOOLEAN, NEW up \in BOOLEAN,
         NEW p, p = Nb!Pump(q, runs, fails, up)
  PROVE  Taken(p, q, runs, up)
<1> USE DEF Taken
<1> DEFINE r == Nb!From(q, text)
           s == Nb!From(r, text \cup Foreign)
<1>1. /\ Queued(r) /\ Nb!ToSet(r) \subseteq Nb!ToSet(q)
      /\ Queued(s) /\ Nb!ToSet(s) \subseteq Nb!ToSet(r)
  BY QueueFrom
<1> HIDE DEF r, s
<1>2. CASE fails
  <2>1. p = Nb!Pumped(<<>>, Nb!None, FALSE)
    BY <1>2 DEF Nb!Pump, r
  <2> QED BY <2>1, QueueEmpty DEF Nb!Pumped
<1>3. CASE ~fails /\ runs
  <2>1. p = Nb!Pumped(q, Nb!None, FALSE)
    BY <1>3 DEF Nb!Pump, r
  <2>2. p.queue = q /\ p.sends = Nb!None /\ p.connects = FALSE
    BY <2>1 DEF Nb!Pumped
  <2> QED BY <1>3, <2>2
<1>4. CASE ~fails /\ ~runs /\ r # <<>> /\ ~up
  <2>1. p = Nb!Pumped(r, Nb!None, TRUE)
    BY <1>4 DEF Nb!Pump, r
  <2> QED BY <1>1, <1>4, <2>1 DEF Nb!Pumped
<1>5. CASE ~fails /\ ~runs /\ ~(r # <<>> /\ ~up)
  <2>1. p = Nb!PumpConnected(r)
    BY <1>5 DEF Nb!Pump, r
  <2>2. CASE s = <<>> \/ (readOnly /\ Head(s) \in Writing)
    <3>1. p = Nb!Pumped(<<>>, Nb!None, FALSE)
      BY <2>1, <2>2 DEF Nb!PumpConnected, s
    <3> QED BY <3>1, QueueEmpty DEF Nb!Pumped
  <2>3. CASE ~(s = <<>> \/ (readOnly /\ Head(s) \in Writing))
    <3>1. p = Nb!Pumped(Tail(s), Head(s), FALSE)
      BY <2>1, <2>3 DEF Nb!PumpConnected, s
    <3>2. /\ Queued(Tail(s)) /\ Nb!ToSet(Tail(s)) \subseteq Nb!ToSet(s)
          /\ Head(s) \in Nb!All /\ Head(s) \in Nb!ToSet(s) /\ Head(s) \notin Nb!ToSet(Tail(s))
      BY <1>1, <2>3, QueueFirst
    <3>3. p.queue = Tail(s) /\ p.sends = Head(s) /\ p.connects = FALSE
      BY <3>1 DEF Nb!Pumped
    <3>4. Head(s) # Nb!None
      BY <3>2, NbConstants
    <3> QED BY <1>1, <1>5, <3>2, <3>3, <3>4
  <2> QED BY <2>2, <2>3
<1> QED BY <1>2, <1>3, <1>4, <1>5

Shown == [Nb!All -> {"none", "live", "cancelling", "done", "failed", "cancelled"}]

\* pump keeps to what is wanted, and shows the cell that the session executes.
LEMMA PumpsKeep ==
  ASSUME NEW p, NEW display \in Shown, NEW busy \in Nb!All \cup {Nb!None}, NEW wanted \in SUBSET Nb!All,
         Queued(p.queue), Nb!ToSet(p.queue) \subseteq wanted,
         p.sends # Nb!None => /\ p.sends \in Nb!All /\ p.sends \in wanted \ Nb!ToSet(p.queue)
                              /\ ~Nb!Running(display),
         ~lost => \A c \in Nb!All : display[c] \in {"live", "cancelling"} => c = busy,
         lost \in BOOLEAN, unasked = {},
         Nb!Pumps(p, display, busy, wanted)
  PROVE  /\ nbQueue' = p.queue /\ Nb!ToSet(nbQueue') \subseteq owed' /\ owed' \subseteq Nb!All
         /\ cell' \in Shown /\ exec' \in Nb!All \cup {Nb!None} /\ lost' \in BOOLEAN /\ unasked' = {}
         /\ ~lost' => /\ \A c \in Nb!All : cell'[c] \in {"live", "cancelling"} => c = exec'
                      /\ Nb!Running(display) \/ p.sends # Nb!None => exec' # Nb!None
<1>1. /\ nbQueue' = p.queue
      /\ cell' = (IF p.sends = Nb!None THEN display ELSE [display EXCEPT ![p.sends] = "live"])
      /\ exec' = (IF p.sends = Nb!None \/ busy # Nb!None THEN busy ELSE p.sends)
      /\ lost' = (lost \/ (p.sends # Nb!None /\ busy # Nb!None))
      /\ unasked' = unasked \cup ({p.sends} \ (wanted \cup {Nb!None}))
      /\ owed' = wanted \ {p.sends}
  BY DEF Nb!Pumps
<1>2. Nb!None \notin Nb!All
  BY NbConstants
<1>3. CASE p.sends = Nb!None
  <2>1. cell' = display /\ exec' = busy /\ lost' = lost /\ unasked' = {} /\ owed' = wanted
    BY <1>1, <1>2, <1>3
  <2>2. ~lost /\ Nb!Running(display) => busy # Nb!None
    BY <1>2 DEF Nb!Running
  <2> QED BY <1>1, <1>3, <2>1, <2>2
<1>4. CASE p.sends # Nb!None
  <2>1. cell' = [display EXCEPT ![p.sends] = "live"] /\ cell' \in Shown
    BY <1>1, <1>4 DEF Shown
  <2>2. ~lost' => exec' = p.sends
    BY <1>1, <1>4
  <2>3. \A c \in Nb!All : cell'[c] \in {"live", "cancelling"} => c = p.sends
    BY <1>4, <2>1 DEF Nb!Running, Shown
  <2>4. exec' \in Nb!All \cup {Nb!None} /\ lost' \in BOOLEAN /\ unasked' = {}
    BY <1>1, <1>4
  <2> QED BY <1>1, <1>4, <2>1, <2>2, <2>3, <2>4
<1> QED BY <1>3, <1>4

LEMMA NbInitInv == Nb!Init => Nb!IInv
<1> SUFFICES ASSUME Nb!Init PROVE Nb!IInv
  OBVIOUS
<1>1. nbQueue = <<>> /\ nbQueue \in Seq(Nb!All) /\ Nb!Distinct(nbQueue) /\ Nb!ToSet(nbQueue) = {}
  BY QueueEmpty DEF Nb!Init, Queued
<1>2. Nb!TypeOK
  <2>1. {} \subseteq Nb!All /\ 0 \in 0..MaxPresses /\ 0 \in 0..MaxTroubles
    BY NbConstants
  <2>2. cell \in Shown
    BY DEF Nb!Init, Shown
  <2> QED BY <1>1, <2>1, <2>2 DEF Nb!Init, Nb!TypeOK, Shown
<1>3. Nb!CellsAsQueued
  BY <1>1 DEF Nb!Init, Nb!CellsAsQueued, Nb!RunsOnlyAsked, Nb!QueueMoves, Nb!Live
<1> QED BY <1>1, <1>2, <1>3 DEF Nb!IInv

LEMMA RunCellsKeeps ==
  ASSUME Nb!IInv, NEW some \in SUBSET Nb!All, Nb!RunCells(some)
  PROVE  Nb!IInv'
<1> USE DEF Nb!IInv, Nb!TypeOK, Nb!CellsAsQueued, Nb!RunsOnlyAsked, Nb!QueueMoves, Nb!Live, Shown
<1>1. PICK added \in Nb!InOrder(some \ (text \cup Nb!ToSet(nbQueue))) :
        LET p == Nb!Pump(nbQueue \o added, Nb!Running(cell), FALSE, nbConn = "up")
        IN /\ Nb!Pumps(p, cell, exec, owed \cup (some \ text))
           /\ IF p.connects THEN nbConn' = "connecting" /\ nbPending' = TRUE
              ELSE nbPending' = (nbPending /\ p.sends = Nb!None) /\ UNCHANGED nbConn
  BY DEF Nb!RunCells
<1>2. PICK q : q = nbQueue \o added
  OBVIOUS
<1>3. PICK p : p = Nb!Pump(q, Nb!Running(cell), FALSE, nbConn = "up")
  OBVIOUS
<1>4. /\ Nb!Pumps(p, cell, exec, owed \cup (some \ text))
      /\ IF p.connects THEN nbConn' = "connecting" /\ nbPending' = TRUE
         ELSE nbPending' = (nbPending /\ p.sends = Nb!None) /\ UNCHANGED nbConn
  BY <1>1, <1>2, <1>3
<1>5. Queued(q) /\ Nb!ToSet(q) \subseteq owed \cup (some \ text)
  <2>1. some \ (text \cup Nb!ToSet(nbQueue)) \in SUBSET Nb!All
    OBVIOUS
  <2>2. Queued(added) /\ Nb!ToSet(added) \subseteq some \ (text \cup Nb!ToSet(nbQueue))
    BY <2>1, CellsInOrder
  <2>3. Queued(nbQueue)
    BY DEF Queued
  <2>4. Nb!ToSet(added) \cap Nb!ToSet(nbQueue) = {}
    BY <2>2
  <2>5. Queued(q) /\ Nb!ToSet(q) \subseteq Nb!ToSet(nbQueue) \cup Nb!ToSet(added)
    BY <1>2, <2>2, <2>3, <2>4, QueueJoined
  <2> QED BY <2>2, <2>5
<1>6. /\ Queued(p.queue) /\ Nb!ToSet(p.queue) \subseteq Nb!ToSet(q)
      /\ p.sends # Nb!None => /\ p.sends \in Nb!All /\ p.sends \in Nb!ToSet(q) \ Nb!ToSet(p.queue)
                              /\ ~Nb!Running(cell)
      /\ p.connects \in BOOLEAN /\ (p.connects => p.sends = Nb!None)
      /\ p.queue # <<>> => Nb!Running(cell) \/ p.connects \/ p.sends # Nb!None
  <2>1. Nb!Running(cell) \in BOOLEAN /\ (nbConn = "up") \in BOOLEAN /\ FALSE \in BOOLEAN
    BY DEF Nb!Running
  <2> HIDE DEF Nb!IInv, Nb!TypeOK, Nb!CellsAsQueued, Nb!RunsOnlyAsked, Nb!QueueMoves, Nb!Live, Shown
  <2>2. PICK runs \in BOOLEAN, up \in BOOLEAN : runs = Nb!Running(cell) /\ up = (nbConn = "up")
    BY <2>1
  <2>3. p = Nb!Pump(q, runs, FALSE, up)
    BY <1>3, <2>2
  <2>4. Taken(p, q, runs, up)
    BY <1>5, <2>3, PumpTakes
  <2> QED BY <2>2, <2>4 DEF Taken
<1>7. /\ nbQueue' = p.queue /\ Nb!ToSet(nbQueue') \subseteq owed' /\ owed' \subseteq Nb!All
      /\ cell' \in Shown /\ exec' \in Nb!All \cup {Nb!None} /\ lost' \in BOOLEAN /\ unasked' = {}
      /\ ~lost' => /\ \A c \in Nb!All : cell'[c] \in {"live", "cancelling"} => c = exec'
                   /\ Nb!Running(cell) \/ p.sends # Nb!None => exec' # Nb!None
  <2>1. owed \cup (some \ text) \in SUBSET Nb!All /\ exec \in Nb!All \cup {Nb!None} /\ cell \in Shown
    OBVIOUS
  <2>2. Nb!ToSet(p.queue) \subseteq owed \cup (some \ text)
    BY <1>5, <1>6
  <2>3. p.sends # Nb!None => p.sends \in (owed \cup (some \ text)) \ Nb!ToSet(p.queue)
    BY <1>5, <1>6
  <2>4. ~lost => \A c \in Nb!All : cell[c] \in {"live", "cancelling"} => c = exec
    OBVIOUS
  <2>5. lost \in BOOLEAN /\ unasked = {}
    OBVIOUS
  <2> QED BY <1>4, <1>6, <2>1, <2>2, <2>3, <2>4, <2>5, PumpsKeep
<1>8. /\ UNCHANGED <<text, readOnly, nbTroubles, stranded>>
      /\ presses' = presses + 1 /\ presses < MaxPresses
  BY DEF Nb!RunCells
<1>9. presses' \in 0..MaxPresses
  BY <1>8, NbConstants
<1>10. nbConn' \in {"up", "connecting", "down"} /\ nbPending' \in BOOLEAN
  BY <1>4, <1>6
<1>11. ~lost' /\ nbQueue' # <<>> => exec' # Nb!None \/ nbPending'
  BY <1>4, <1>6, <1>7
<1>12. nbQueue' \in Seq(Nb!All) /\ Nb!Distinct(nbQueue')
  BY <1>6, <1>7 DEF Queued
<1>13. Nb!TypeOK'
  BY <1>7, <1>8, <1>9, <1>10, <1>12
<1>14. Nb!CellsAsQueued'
  BY <1>7, <1>11
<1> QED BY <1>7, <1>13, <1>14

LEMMA RunDoneKeeps ==
  ASSUME Nb!IInv, NEW ending \in {"done", "failed", "cancelled"}, NEW dies \in BOOLEAN,
         Nb!RunDone(ending, dies)
  PROVE  Nb!IInv'
<1> USE DEF Nb!IInv, Nb!TypeOK, Nb!CellsAsQueued, Nb!RunsOnlyAsked, Nb!QueueMoves, Nb!Live, Shown
<1>1. PICK after : after = IF Nb!Live(exec) THEN [cell EXCEPT ![exec] = ending] ELSE cell
  OBVIOUS
<1>2. PICK lapsed \in BOOLEAN : lapsed <=> ending # "done"
  OBVIOUS
<1>3. PICK p : p = Nb!Pump(nbQueue, Nb!Running(after), lapsed, TRUE)
  OBVIOUS
<1>4. PICK wanted : wanted = IF lapsed THEN {} ELSE owed
  OBVIOUS
<1>5. /\ exec # Nb!None
      /\ Nb!Pumps(p, after, Nb!None, wanted)
      /\ nbPending' = (nbPending /\ p.sends = Nb!None)
      /\ nbConn' = (IF dies THEN "down" ELSE nbConn)
      /\ nbTroubles' = nbTroubles + (IF dies THEN 1 ELSE 0)
      /\ dies => nbTroubles < MaxTroubles
      /\ UNCHANGED <<text, readOnly, presses, stranded>>
  BY <1>1, <1>2, <1>3, <1>4 DEF Nb!RunDone
<1>6. Queued(nbQueue) /\ Nb!ToSet(nbQueue) \subseteq owed
  BY DEF Queued
<1>7. /\ Queued(p.queue) /\ Nb!ToSet(p.queue) \subseteq Nb!ToSet(nbQueue)
      /\ p.sends # Nb!None => /\ p.sends \in Nb!All /\ p.sends \in Nb!ToSet(nbQueue) \ Nb!ToSet(p.queue)
                              /\ ~Nb!Running(after)
      /\ ~p.connects
      /\ p.queue # <<>> => Nb!Running(after) \/ p.connects \/ p.sends # Nb!None
  <2>1. Nb!Running(after) \in BOOLEAN
    BY DEF Nb!Running
  <2> HIDE DEF Nb!IInv, Nb!TypeOK, Nb!CellsAsQueued, Nb!RunsOnlyAsked, Nb!QueueMoves, Nb!Live, Shown
  <2>2. PICK runs \in BOOLEAN, up \in BOOLEAN : runs = Nb!Running(after) /\ up = TRUE
    BY <2>1
  <2>3. p = Nb!Pump(nbQueue, runs, lapsed, up)
    BY <1>3, <2>2
  <2>4. Taken(p, nbQueue, runs, up)
    BY <1>6, <2>3, PumpTakes
  <2> QED BY <2>2, <2>4 DEF Taken
<1>8. lapsed => p.queue = <<>> /\ p.sends = Nb!None
  BY <1>3 DEF Nb!Pump, Nb!Pumped
<1>9. /\ nbQueue' = p.queue /\ Nb!ToSet(nbQueue') \subseteq owed' /\ owed' \subseteq Nb!All
      /\ cell' \in Shown /\ exec' \in Nb!All \cup {Nb!None} /\ lost' \in BOOLEAN /\ unasked' = {}
      /\ ~lost' => /\ \A c \in Nb!All : cell'[c] \in {"live", "cancelling"} => c = exec'
                   /\ Nb!Running(after) \/ p.sends # Nb!None => exec' # Nb!None
  <2>1. wanted \in SUBSET Nb!All /\ after \in Shown /\ Nb!None \in Nb!All \cup {Nb!None}
    BY <1>1, <1>4
  <2>2. Nb!ToSet(p.queue) \subseteq wanted
    BY <1>4, <1>6, <1>7, <1>8, QueueEmpty
  <2>3. p.sends # Nb!None => p.sends \in wanted \ Nb!ToSet(p.queue)
    BY <1>4, <1>6, <1>7, <1>8
  <2>4. ~lost => \A c \in Nb!All : after[c] \in {"live", "cancelling"} => c = Nb!None
    BY <1>1, <1>5
  <2>5. lost \in BOOLEAN /\ unasked = {}
    OBVIOUS
  <2> QED BY <1>5, <1>7, <2>1, <2>2, <2>3, <2>4, <2>5, PumpsKeep
<1>10. nbTroubles' \in 0..MaxTroubles
  BY <1>5, NbConstants
<1>11. nbConn' \in {"up", "connecting", "down"} /\ nbPending' \in BOOLEAN
  BY <1>5
<1>12. ~lost' /\ nbQueue' # <<>> => exec' # Nb!None
  BY <1>7, <1>9
<1>13. nbQueue' \in Seq(Nb!All) /\ Nb!Distinct(nbQueue')
  BY <1>7, <1>9 DEF Queued
<1>14. Nb!TypeOK'
  BY <1>5, <1>9, <1>10, <1>11, <1>13
<1>15. Nb!CellsAsQueued'
  BY <1>9, <1>12
<1> QED BY <1>9, <1>14, <1>15

LEMMA ConnectedKeeps ==
  ASSUME Nb!IInv, Nb!Connected
  PROVE  Nb!IInv'
<1> USE DEF Nb!IInv, Nb!TypeOK, Nb!CellsAsQueued, Nb!RunsOnlyAsked, Nb!QueueMoves, Nb!Live, Shown
<1>1. PICK anew \in BOOLEAN : anew <=> (nbPending /\ nbQueue = <<>>)
  OBVIOUS
<1>2. PICK q \in IF anew THEN Nb!InOrder(Nb!All \ text) ELSE {nbQueue} :
        LET p == IF nbPending THEN Nb!Pump(q, Nb!Running(cell), FALSE, TRUE)
                 ELSE Nb!Pumped(nbQueue, Nb!None, FALSE)
        IN Nb!Pumps(p, cell, exec, IF anew THEN owed \cup (Nb!All \ text) ELSE owed)
  <2>1. (nbPending /\ nbQueue = <<>>) = anew
    BY <1>1
  <2> QED BY <2>1 DEF Nb!Connected
<1>3. PICK p : p = IF nbPending THEN Nb!Pump(q, Nb!Running(cell), FALSE, TRUE)
                   ELSE Nb!Pumped(nbQueue, Nb!None, FALSE)
  OBVIOUS
<1>4. PICK wanted : wanted = IF anew THEN owed \cup (Nb!All \ text) ELSE owed
  OBVIOUS
<1>5. /\ Nb!Pumps(p, cell, exec, wanted)
      /\ nbConn' = "up" /\ nbPending' = FALSE
      /\ UNCHANGED <<text, readOnly, presses, nbTroubles, stranded>>
  BY <1>2, <1>3, <1>4 DEF Nb!Connected
<1>6. Queued(q) /\ Nb!ToSet(q) \subseteq wanted /\ (~anew => q = nbQueue)
  <2>1. CASE anew
    <3>1. Nb!All \ text \in SUBSET Nb!All
      OBVIOUS
    <3> QED BY <1>2, <1>4, <2>1, <3>1, CellsInOrder
  <2>2. CASE ~anew
    BY <1>2, <1>4, <2>2 DEF Queued
  <2> QED BY <2>1, <2>2
<1>7. /\ Queued(p.queue) /\ Nb!ToSet(p.queue) \subseteq wanted
      /\ p.sends # Nb!None => /\ p.sends \in Nb!All /\ p.sends \in wanted \ Nb!ToSet(p.queue)
                              /\ ~Nb!Running(cell)
      /\ p.queue # <<>> => \/ Nb!Running(cell) \/ p.sends # Nb!None
                           \/ ~nbPending /\ p.queue = nbQueue /\ p.sends = Nb!None
  <2>1. CASE nbPending
    <3>1. Nb!Running(cell) \in BOOLEAN
      BY DEF Nb!Running
    <3>2. PICK runs \in BOOLEAN, up \in BOOLEAN : runs = Nb!Running(cell) /\ up = TRUE
      BY <3>1
    <3>3. p = Nb!Pump(q, runs, FALSE, up)
      BY <1>3, <2>1, <3>2
    <3>4. Taken(p, q, runs, up)
      BY <1>6, <3>3, PumpTakes
    <3> QED BY <1>6, <3>2, <3>4 DEF Taken
  <2>2. CASE ~nbPending
    <3>1. p.queue = nbQueue /\ p.sends = Nb!None
      BY <1>3, <2>2 DEF Nb!Pumped
    <3>2. q = nbQueue
      BY <1>1, <1>6, <2>2
    <3> QED BY <1>6, <2>2, <3>1, <3>2
  <2> QED BY <2>1, <2>2
<1>8. /\ nbQueue' = p.queue /\ Nb!ToSet(nbQueue') \subseteq owed' /\ owed' \subseteq Nb!All
      /\ cell' \in Shown /\ exec' \in Nb!All \cup {Nb!None} /\ lost' \in BOOLEAN /\ unasked' = {}
      /\ ~lost' => /\ \A c \in Nb!All : cell'[c] \in {"live", "cancelling"} => c = exec'
                   /\ Nb!Running(cell) \/ p.sends # Nb!None => exec' # Nb!None
  <2>1. wanted \in SUBSET Nb!All /\ exec \in Nb!All \cup {Nb!None} /\ cell \in Shown
    BY <1>4
  <2>2. ~lost => \A c \in Nb!All : cell[c] \in {"live", "cancelling"} => c = exec
    OBVIOUS
  <2>3. lost \in BOOLEAN /\ unasked = {}
    OBVIOUS
  <2> QED BY <1>5, <1>7, <2>1, <2>2, <2>3, PumpsKeep
<1>9. ~lost' /\ ~stranded' /\ nbQueue' # <<>> => exec' # Nb!None
  <2> SUFFICES ASSUME ~lost', ~stranded', nbQueue' # <<>> PROVE exec' # Nb!None
    OBVIOUS
  <2>1. CASE Nb!Running(cell) \/ p.sends # Nb!None
    BY <1>8, <2>1
  <2>2. CASE ~nbPending /\ p.queue = nbQueue /\ p.sends = Nb!None
    <3>1. exec' = exec /\ lost' = lost
      BY <1>5, <2>2 DEF Nb!Pumps
    <3> QED BY <1>5, <1>8, <2>2, <3>1
  <2> QED BY <1>7, <1>8, <2>1, <2>2
<1>10. nbQueue' \in Seq(Nb!All) /\ Nb!Distinct(nbQueue')
  BY <1>7, <1>8 DEF Queued
<1>11. Nb!TypeOK'
  BY <1>5, <1>8, <1>10
<1>12. Nb!CellsAsQueued'
  BY <1>8, <1>9
<1> QED BY <1>8, <1>11, <1>12

LEMMA NbStepInv == Nb!IInv /\ Nb!Next => Nb!IInv'
<1> SUFFICES ASSUME Nb!IInv, Nb!Next PROVE Nb!IInv'
  OBVIOUS
<1> USE DEF Nb!IInv, Nb!TypeOK, Nb!CellsAsQueued, Nb!RunsOnlyAsked, Nb!QueueMoves, Nb!Live,
            Nb!nbVars, Nb!history
<1> USE NbConstants
<1>1. ASSUME NEW some \in SUBSET Nb!All, Nb!RunCells(some) PROVE Nb!IInv'
  BY <1>1, RunCellsKeeps
<1>2. ASSUME NEW some \in SUBSET Nb!All, Nb!PressRun(some) PROVE Nb!IInv'
  <2>1. {} \in SUBSET Nb!All
    OBVIOUS
  <2> QED BY <1>1, <1>2, <2>1 DEF Nb!PressRun
<1>3. ASSUME NEW c \in Nb!All, Nb!Dequeue(c) PROVE Nb!IInv'
  <2>1. PICK i \in DOMAIN nbQueue : nbQueue[i] = c /\ nbQueue' = Nb!RemoveAt(nbQueue, i)
    BY <1>3 DEF Nb!Dequeue
  <2>2. Queued(nbQueue)
    BY DEF Queued
  <2>3. Queued(nbQueue') /\ Nb!ToSet(nbQueue') \subseteq Nb!ToSet(nbQueue) \ {c}
    BY <2>1, <2>2, QueueLeft
  <2>4. /\ owed' = owed \ {c}
        /\ UNCHANGED <<cell, text, nbPending, nbConn, readOnly, exec, presses, nbTroubles,
                       unasked, lost, stranded>>
    BY <1>3 DEF Nb!Dequeue
  <2>5. nbQueue' # <<>> => nbQueue # <<>>
    BY <2>1, <2>2 DEF Queued
  <2>6. nbQueue' \in Seq(Nb!All) /\ Nb!Distinct(nbQueue')
    BY <2>3 DEF Queued
  <2> QED BY <2>3, <2>4, <2>5, <2>6
<1>4. ASSUME NEW c \in Nb!All, Nb!SetKind(c) PROVE Nb!IInv'
  BY <1>4 DEF Nb!SetKind
<1>5. CASE Nb!Cancel
  <2>1. /\ nbQueue' = <<>> /\ owed' = {}
        /\ cell' = [c \in Nb!All |-> IF Nb!Live(c) THEN "cancelling" ELSE cell[c]]
        /\ UNCHANGED <<text, nbPending, nbConn, readOnly, exec, presses, nbTroubles, unasked, lost, stranded>>
    BY <1>5 DEF Nb!Cancel
  <2>2. nbQueue' \in Seq(Nb!All) /\ Nb!Distinct(nbQueue') /\ Nb!ToSet(nbQueue') = {}
    BY <2>1, QueueEmpty DEF Queued
  <2> QED BY <2>1, <2>2
<1>6. CASE Nb!Disconnect \/ Nb!Connect
  <2>1. CASE Nb!Disconnect
    <3>1. nbTroubles' \in 0..MaxTroubles
      BY <2>1 DEF Nb!Disconnect
    <3>2. /\ exec' = Nb!None /\ lost' = (lost \/ exec # Nb!None) /\ nbConn' = "down"
          /\ UNCHANGED <<nbQueue, cell, text, nbPending, readOnly, presses, owed, unasked, stranded>>
      BY <2>1 DEF Nb!Disconnect
    <3>3. lost' \in BOOLEAN /\ (~lost' => exec = Nb!None /\ ~lost)
      BY <3>2
    <3> QED BY <3>1, <3>2, <3>3
  <2>2. CASE Nb!Connect
    BY <2>2 DEF Nb!Connect
  <2> QED BY <1>6, <2>1, <2>2
<1>7. ASSUME NEW ending \in {"done", "failed", "cancelled"}, NEW dies \in BOOLEAN,
             Nb!RunDone(ending, dies)
      PROVE  Nb!IInv'
  BY <1>7, RunDoneKeeps
<1>8. CASE Nb!ConnectionLost
  BY <1>8 DEF Nb!ConnectionLost
<1>9. ASSUME NEW missing \in BOOLEAN, Nb!ConnectFailed(missing) PROVE Nb!IInv'
  <2>1. /\ nbTroubles < MaxTroubles /\ nbTroubles' = nbTroubles + 1 /\ nbConn = "connecting"
        /\ UNCHANGED <<nbQueue, cell, text, readOnly, exec, presses, owed, unasked, lost>>
    BY <1>9 DEF Nb!ConnectFailed
  <2>2. nbTroubles' \in 0..MaxTroubles
    BY <2>1
  <2>3. CASE missing
    <3>1. nbPending' = FALSE /\ stranded' = (stranded \/ nbQueue # <<>>) /\ UNCHANGED nbConn
      BY <1>9, <2>3 DEF Nb!ConnectFailed
    <3>2. stranded' \in BOOLEAN /\ (~stranded' => nbQueue = <<>>)
      BY <3>1
    <3> QED BY <2>1, <2>2, <3>1, <3>2
  <2>4. CASE ~missing
    <3>1. nbConn' = "down" /\ UNCHANGED <<nbPending, stranded>>
      BY <1>9, <2>4 DEF Nb!ConnectFailed
    <3> QED BY <2>1, <2>2, <3>1
  <2> QED BY <2>3, <2>4
<1>10. CASE Nb!Connected
  BY <1>10, ConnectedKeeps
<1> QED BY <1>1, <1>2, <1>3, <1>4, <1>5, <1>6, <1>7, <1>8, <1>9, <1>10 DEF Nb!Next

LEMMA NbInductive == Spec => []Nb!IInv
<1>1. Init => Nb!IInv
  BY NbInitInv DEF Init
<1>2. Nb!IInv /\ [Next]_allVars => Nb!IInv'
  <2> SUFFICES ASSUME Nb!IInv, [Next]_allVars PROVE Nb!IInv'
    OBVIOUS
  <2>1. CASE CellSteps
    BY <2>1, NbStepInv DEF CellSteps
  <2>2. CASE UNCHANGED cells
    BY <2>2 DEF cells, Nb!IInv, Nb!TypeOK, Nb!CellsAsQueued, Nb!RunsOnlyAsked, Nb!QueueMoves, Nb!Live
  <2>3. ~CellSteps => UNCHANGED cells
    BY DEF Next, allVars, JobSteps, RunSteps, DaxSteps, ImportSteps, MetaSteps, HotSteps, ResSteps, AuthSteps, EditSteps
  <2> QED BY <2>1, <2>2, <2>3
<1> QED BY <1>1, <1>2, PTL DEF Spec

\* In every notebook, however many cells it has and however often they are asked
\* for: a cell is run only when it was asked for, one cell runs at a time, and
\* while cells are queued something is under way that will send the next.
THEOREM CellsRunAsQueued == Spec => []CellsAsQueued
<1>1. Nb!IInv => CellsAsQueued
  BY DEF Nb!IInv, CellsAsQueued
<1> QED BY <1>1, NbInductive, PTL

-----------------------------------------------------------------------------
(* MetaSession                                                             *)

LEMMA MetaConstants == MaxReqs \in Nat /\ MaxDeaths \in Nat /\ MaxLeaves \in Nat
BY ServiceConstants

Has(s, x) == \E i \in DOMAIN s : s[i] = x

\* What is read from a channel is its first item; the others keep their order.
LEMMA ChannelRead ==
  ASSUME NEW T, NEW s \in Seq(T), s # <<>>
  PROVE  /\ Tail(s) \in Seq(T) /\ Head(s) \in T /\ Head(s) = s[1] /\ 1 \in DOMAIN s
         /\ \A i \in DOMAIN Tail(s) : i \in Nat /\ i + 1 \in DOMAIN s /\ 1 < i + 1 /\ Tail(s)[i] = s[i + 1]
         /\ \A i \in DOMAIN s : i \in Nat /\ (i # 1 => i - 1 \in DOMAIN Tail(s))
         /\ \A x : Has(s, x) <=> x = Head(s) \/ Has(Tail(s), x)
<1>1. Len(s) \in Nat /\ Len(s) # 0 /\ DOMAIN s = 1..Len(s)
  BY EmptySeq
<1>2. /\ Head(s) \in T /\ Tail(s) \in Seq(T) /\ Len(Tail(s)) = Len(s) - 1 /\ Head(s) = s[1]
      /\ \A i \in 1..Len(Tail(s)) : Tail(s)[i] = s[i + 1]
  BY HeadTailProperties
<1>3. PICK t \in Seq(T) : t = Tail(s)
  BY <1>2
<1>4. Len(t) = Len(s) - 1 /\ DOMAIN t = 1..(Len(s) - 1) /\ \A i \in DOMAIN t : t[i] = s[i + 1]
  BY <1>1, <1>2, <1>3
<1>5. \A i \in DOMAIN t : i \in Nat /\ i + 1 \in DOMAIN s /\ 1 < i + 1
  BY <1>1, <1>4
<1>6. \A i \in DOMAIN s : i \in Nat /\ (i # 1 => i - 1 \in DOMAIN t /\ i = (i - 1) + 1)
  BY <1>1, <1>4
<1>7. 1 \in DOMAIN s
  BY <1>1
<1>8. ASSUME NEW x PROVE Has(s, x) <=> x = Head(s) \/ Has(t, x)
  <2>1. ASSUME NEW i \in DOMAIN s, s[i] = x PROVE x = Head(s) \/ Has(t, x)
    <3>1. CASE i = 1
      BY <1>2, <2>1, <3>1
    <3>2. CASE i # 1
      BY <1>4, <1>6, <2>1, <3>2 DEF Has
    <3> QED BY <3>1, <3>2
  <2>2. x = Head(s) \/ Has(t, x) => Has(s, x)
    BY <1>2, <1>4, <1>5, <1>7 DEF Has
  <2> QED BY <2>1, <2>2 DEF Has
<1> QED BY <1>2, <1>3, <1>4, <1>5, <1>6, <1>7, <1>8

LEMMA ChannelWritten ==
  ASSUME NEW T, NEW s \in Seq(T), NEW x \in T
  PROVE  /\ Append(s, x) \in Seq(T) /\ DOMAIN Append(s, x) = 1..(Len(s) + 1)
         /\ Len(s) \in Nat /\ DOMAIN s = 1..Len(s)
         /\ Append(s, x)[Len(s) + 1] = x /\ \A i \in DOMAIN s : Append(s, x)[i] = s[i] /\ i < Len(s) + 1
         /\ \A y : Has(Append(s, x), y) <=> Has(s, y) \/ y = x
<1>1. /\ Append(s, x) \in Seq(T) /\ Len(Append(s, x)) = Len(s) + 1
      /\ \A i \in 1..Len(s) : Append(s, x)[i] = s[i] /\ Append(s, x)[Len(s) + 1] = x
      /\ Len(s) \in Nat /\ DOMAIN s = 1..Len(s)
  BY AppendProperties
<1>2. PICK t \in Seq(T) : t = Append(s, x)
  BY <1>1
<1>3. /\ DOMAIN t = 1..(Len(s) + 1) /\ t[Len(s) + 1] = x /\ \A i \in DOMAIN s : t[i] = s[i]
  BY <1>1, <1>2
<1>4. /\ \A i : i \in DOMAIN t <=> i \in DOMAIN s \/ i = Len(s) + 1
      /\ \A i \in DOMAIN s : i < Len(s) + 1
  BY <1>1, <1>3
<1>5. \A y : Has(t, y) <=> Has(s, y) \/ y = x
  BY <1>3, <1>4 DEF Has
<1> QED BY <1>1, <1>2, <1>3, <1>4, <1>5

\* A channel that rises goes on doing so.
LEMMA RisingRead ==
  ASSUME NEW s \in Seq(0..MaxReqs), s # <<>>, Meta!Rising(s)
  PROVE  /\ Meta!Rising(Tail(s))
         /\ Head(s) # Meta!Close =>
              \A x \in 0..MaxReqs : Has(Tail(s), x) /\ x # Meta!Close => Head(s) < x
<1>1. /\ Tail(s) \in Seq(0..MaxReqs) /\ Head(s) \in 0..MaxReqs /\ Head(s) = s[1] /\ 1 \in DOMAIN s
      /\ \A i \in DOMAIN Tail(s) : i \in Nat /\ i + 1 \in DOMAIN s /\ 1 < i + 1 /\ Tail(s)[i] = s[i + 1]
  BY ChannelRead
<1>2. PICK t \in Seq(0..MaxReqs) : t = Tail(s)
  BY <1>1
<1>3. Meta!Rising(t)
  <2> SUFFICES ASSUME NEW i \in DOMAIN t, NEW j \in DOMAIN t, i < j, t[i] # Meta!Close, t[j] # Meta!Close
               PROVE  t[i] < t[j]
    BY DEF Meta!Rising
  <2>1. i + 1 \in DOMAIN s /\ j + 1 \in DOMAIN s /\ i + 1 < j + 1 /\ t[i] = s[i + 1] /\ t[j] = s[j + 1]
    BY <1>1, <1>2
  <2> QED BY <2>1 DEF Meta!Rising
<1>4. ASSUME Head(s) # Meta!Close, NEW x \in 0..MaxReqs, Has(t, x), x # Meta!Close
      PROVE  Head(s) < x
  <2>1. PICK i \in DOMAIN t : t[i] = x
    BY <1>4 DEF Has
  <2>2. i + 1 \in DOMAIN s /\ 1 < i + 1 /\ s[i + 1] = x
    BY <1>1, <1>2, <2>1
  <2> QED BY <1>1, <1>4, <2>2 DEF Meta!Rising
<1> QED BY <1>2, <1>3, <1>4

LEMMA RisingWritten ==
  ASSUME NEW s \in Seq(0..MaxReqs), Meta!Rising(s), NEW x \in 0..MaxReqs,
         x = Meta!Close \/ \A y \in 0..MaxReqs : Has(s, y) /\ y # Meta!Close => y < x
  PROVE  Meta!Rising(Append(s, x))
<1>1. /\ DOMAIN Append(s, x) = 1..(Len(s) + 1) /\ Len(s) \in Nat /\ DOMAIN s = 1..Len(s)
      /\ Append(s, x)[Len(s) + 1] = x /\ \A i \in DOMAIN s : Append(s, x)[i] = s[i]
  BY ChannelWritten
<1>2. PICK t : t = Append(s, x)
  OBVIOUS
<1> SUFFICES ASSUME NEW i \in DOMAIN t, NEW j \in DOMAIN t, i < j, t[i] # Meta!Close, t[j] # Meta!Close
             PROVE  t[i] < t[j]
  BY <1>2 DEF Meta!Rising
<1>3. i \in DOMAIN s /\ (j \in DOMAIN s \/ j = Len(s) + 1) /\ t[i] = s[i]
  BY <1>1, <1>2
<1>4. CASE j \in DOMAIN s
  BY <1>1, <1>2, <1>3, <1>4 DEF Meta!Rising
<1>5. CASE j = Len(s) + 1
  <2>1. t[j] = x
    BY <1>1, <1>2, <1>5
  <2>2. i \in 1..Len(s)
    BY <1>1, <1>3
  <2>3. s[i] \in 0..MaxReqs
    BY <2>2, ElementOfSeq
  <2>4. Has(s, s[i])
    BY <1>3 DEF Has
  <2> QED BY <1>3, <2>1, <2>3, <2>4
<1> QED BY <1>3, <1>4, <1>5

\* What request_meta adds to a channel s are the k numbers after n.
Filled(s, k, n, m) ==
  /\ m \in Seq(0..MaxReqs) /\ Len(s) \in Nat /\ DOMAIN s = 1..Len(s) /\ DOMAIN m = 1..(Len(s) + k)
  /\ \A i \in DOMAIN s : i \in DOMAIN m /\ m[i] = s[i]
  /\ \A i \in DOMAIN m : i \in Nat /\ (i \notin DOMAIN s => m[i] = n + (i - Len(s)) /\ i - Len(s) \in 1..k)
  /\ \A x : Has(m, x) <=> Has(s, x) \/ x \in n + 1 .. n + k

LEMMA ChannelFilled ==
  ASSUME NEW s \in Seq(0..MaxReqs), NEW k \in Nat, NEW n \in Nat, n + k <= MaxReqs
  PROVE  Filled(s, k, n, s \o [i \in 1..k |-> n + i])
<1>0. PICK m : m = s \o [i \in 1..k |-> n + i]
  OBVIOUS
<1>1. PICK w : w = [i \in 1..k |-> n + i]
  OBVIOUS
<1>2. w \in Seq(0..MaxReqs) /\ Len(w) = k /\ \A i \in 1..k : w[i] = n + i
  <2>1. \A i \in 1..k : n + i \in 0..MaxReqs
    BY MetaConstants
  <2>2. DOMAIN w = 1..k /\ \A i \in 1..k : w[i] = n + i /\ w[i] \in 0..MaxReqs
    BY <1>1, <2>1
  <2>3. w = [i \in 1..k |-> w[i]]
    BY <1>1, <2>2
  <2>4. w \in [1..k -> 0..MaxReqs]
    BY <2>2, <2>3
  <2>5. w \in Seq(0..MaxReqs)
    BY <2>4, SeqDef
  <2> QED BY <2>2, <2>5, LenProperties
<1>3. /\ m \in Seq(0..MaxReqs) /\ Len(m) = Len(s) + k /\ Len(s) \in Nat
      /\ \A i \in 1 .. Len(s) + k : m[i] = IF i <= Len(s) THEN s[i] ELSE w[i - Len(s)]
  BY <1>0, <1>1, <1>2, ConcatProperties, LenProperties
<1>4. DOMAIN s = 1..Len(s) /\ DOMAIN m = 1..(Len(s) + k)
  BY <1>3, LenProperties
<1>5. \A i \in DOMAIN s : i \in DOMAIN m /\ m[i] = s[i]
  BY <1>3, <1>4
<1>6. \A i \in DOMAIN m : i \in Nat /\ (i \notin DOMAIN s => m[i] = n + (i - Len(s)) /\ i - Len(s) \in 1..k)
  BY <1>2, <1>3, <1>4
<1>7. ASSUME NEW x PROVE Has(m, x) <=> Has(s, x) \/ x \in n + 1 .. n + k
  <2>1. ASSUME NEW i \in DOMAIN m, m[i] = x PROVE Has(s, x) \/ x \in n + 1 .. n + k
    <3>1. CASE i \in DOMAIN s
      BY <1>5, <2>1, <3>1 DEF Has
    <3>2. CASE i \notin DOMAIN s
      BY <1>6, <2>1, <3>2
    <3> QED BY <3>1, <3>2
  <2>2. Has(s, x) => Has(m, x)
    BY <1>5 DEF Has
  <2>3. ASSUME x \in n + 1 .. n + k PROVE Has(m, x)
    <3>1. Len(s) + (x - n) \in 1 .. Len(s) + k /\ ~(Len(s) + (x - n) <= Len(s)) /\ x - n \in 1..k
          /\ (Len(s) + (x - n)) - Len(s) = x - n /\ n + (x - n) = x
      BY <1>3, <2>3
    <3>2. m[Len(s) + (x - n)] = x
      BY <1>2, <1>3, <3>1
    <3> QED BY <1>4, <3>1, <3>2 DEF Has
  <2> QED BY <2>1, <2>2, <2>3 DEF Has
<1>8. Filled(s, k, n, m)
  BY <1>3, <1>4, <1>5, <1>6, <1>7 DEF Filled
<1> QED BY <1>0, <1>8
\* The types, in three groups.
MetaUi ==
  /\ creds \in BOOLEAN /\ signing \in BOOLEAN
  /\ list \in [state : {"NotLoaded", "Loading", "Loaded", "Failed"}, by : 0..MaxReqs]
  /\ awaited \subseteq Meta!Reqs /\ asked \in 0..MaxReqs /\ leaves \in 0..MaxLeaves
  /\ kindOf \in [Meta!Reqs -> {"probe", "list"}] /\ bornIn \in [Meta!Reqs -> 0..MaxLeaves]
MetaWays ==
  /\ cmds \in Seq(0..MaxReqs) /\ answers \in Seq([req : Meta!Reqs, ok : BOOLEAN])
  /\ actors \in 0..MaxReqs /\ entry \in 0..actors /\ box \in [Meta!Actors -> Seq(0..MaxReqs)]
MetaActors ==
  /\ life \in [Meta!Actors -> {"waiting", "looking", "serving", "telling", "ending", "ended"}]
  /\ conn \in [Meta!Actors -> {"none", "live", "gone", "broken"}]
  /\ req \in [Meta!Actors -> 0..MaxReqs] /\ again \in [Meta!Actors -> BOOLEAN] /\ ok \in [Meta!Actors -> BOOLEAN]
  /\ deaths \in 0..MaxDeaths /\ dropped \in [Meta!Actors -> SUBSET Meta!Reqs]

LEMMA MetaTypes == Meta!TypeOK <=> MetaUi /\ MetaWays /\ MetaActors
BY DEF Meta!TypeOK, MetaUi, MetaWays, MetaActors

LEMMA MetaTypesNext == (MetaUi /\ MetaWays /\ MetaActors)' => Meta!TypeOK'
BY DEF Meta!TypeOK, MetaUi, MetaWays, MetaActors

LEMMA MetaUiSame == MetaUi /\ UNCHANGED Meta!uiVars => MetaUi'
BY DEF MetaUi, Meta!uiVars

LEMMA MetaWaysSame == MetaWays /\ UNCHANGED <<cmds, answers, actors, entry, box>> => MetaWays'
BY DEF MetaWays

LEMMA MetaActorsSame ==
  MetaActors /\ UNCHANGED <<life, conn, req, again, ok, deaths, dropped>> => MetaActors'
BY DEF MetaActors

LEMMA MetaActorPut ==
  ASSUME MetaActors, NEW a \in Meta!Actors
  PROVE  /\ \A l \in {"waiting", "looking", "serving", "telling", "ending", "ended"} :
              [life EXCEPT ![a] = l] \in [Meta!Actors -> {"waiting", "looking", "serving", "telling", "ending", "ended"}]
         /\ \A c \in {"none", "live", "gone", "broken"} :
              [conn EXCEPT ![a] = c] \in [Meta!Actors -> {"none", "live", "gone", "broken"}]
         /\ \A r \in 0..MaxReqs : [req EXCEPT ![a] = r] \in [Meta!Actors -> 0..MaxReqs]
         /\ \A g \in BOOLEAN : [again EXCEPT ![a] = g] \in [Meta!Actors -> BOOLEAN]
         /\ \A o \in BOOLEAN : [ok EXCEPT ![a] = o] \in [Meta!Actors -> BOOLEAN]
<1> USE DEF MetaActors
<1>1. ASSUME NEW g \in BOOLEAN
      PROVE  [again EXCEPT ![a] = g] \in [Meta!Actors -> BOOLEAN] /\ [ok EXCEPT ![a] = g] \in [Meta!Actors -> BOOLEAN]
  BY Zenon
<1>2. ASSUME NEW r \in 0..MaxReqs PROVE [req EXCEPT ![a] = r] \in [Meta!Actors -> 0..MaxReqs]
  OBVIOUS
<1>3. ASSUME NEW l \in {"waiting", "looking", "serving", "telling", "ending", "ended"}
      PROVE  [life EXCEPT ![a] = l] \in [Meta!Actors -> {"waiting", "looking", "serving", "telling", "ending", "ended"}]
  OBVIOUS
<1>4. ASSUME NEW c \in {"none", "live", "gone", "broken"}
      PROVE  [conn EXCEPT ![a] = c] \in [Meta!Actors -> {"none", "live", "gone", "broken"}]
  OBVIOUS
<1> QED BY <1>1, <1>2, <1>3, <1>4

LEMMA MetaActorWorks ==
  ASSUME MetaActors, NEW a \in Meta!Actors, UNCHANGED dropped,
         deaths' = deaths \/ (deaths < MaxDeaths /\ deaths' = deaths + 1),
         life' = life \/ \E l \in {"waiting", "looking", "serving", "telling", "ending", "ended"} :
                           life' = [life EXCEPT ![a] = l],
         conn' = conn \/ \E c \in {"none", "live", "gone", "broken"} : conn' = [conn EXCEPT ![a] = c],
         req' = req \/ \E r \in 0..MaxReqs : req' = [req EXCEPT ![a] = r],
         again' = again \/ \E g \in BOOLEAN : again' = [again EXCEPT ![a] = g],
         ok' = ok \/ \E o \in BOOLEAN : ok' = [ok EXCEPT ![a] = o]
  PROVE  MetaActors'
<1>1. deaths' \in 0..MaxDeaths
  BY MetaConstants DEF MetaActors
<1>2. life' \in [Meta!Actors -> {"waiting", "looking", "serving", "telling", "ending", "ended"}]
  BY MetaActorPut DEF MetaActors
<1>3. conn' \in [Meta!Actors -> {"none", "live", "gone", "broken"}]
  BY MetaActorPut DEF MetaActors
<1>4. req' \in [Meta!Actors -> 0..MaxReqs]
  BY MetaActorPut DEF MetaActors
<1>5. again' \in [Meta!Actors -> BOOLEAN]
  BY MetaActorPut, Zenon DEF MetaActors
<1>6. ok' \in [Meta!Actors -> BOOLEAN]
  BY MetaActorPut, Zenon DEF MetaActors
<1> QED BY <1>1, <1>2, <1>3, <1>4, <1>5, <1>6 DEF MetaActors

LEMMA MetaRequestTyped ==
  ASSUME MetaUi, MetaWays, NEW ks \in Seq({"probe", "list"}), Meta!Request(ks), UNCHANGED <<leaves, answers, actors, entry, box>>,
         creds' \in BOOLEAN, signing' \in BOOLEAN, Meta!Loading
  PROVE  MetaUi' /\ MetaWays'
<1> USE MetaConstants
<1>1. Len(ks) \in Nat /\ DOMAIN ks = 1..Len(ks) /\ \A i \in DOMAIN ks : ks[i] \in {"probe", "list"}
  BY LenProperties, ElementOfSeq
<1>2. asked \in Nat /\ asked' = asked + Len(ks) /\ asked + Len(ks) <= MaxReqs
  BY DEF Meta!Request, MetaUi
<1>3. cmds' = cmds \o [i \in 1..Len(ks) |-> asked + i]
  BY <1>1 DEF Meta!Request
<1>4. cmds' \in Seq(0..MaxReqs)
  <2>1. PICK k \in Nat : k = Len(ks)
    BY <1>1
  <2>2. PICK n \in Nat : n = asked
    BY <1>2
  <2>3. PICK s \in Seq(0..MaxReqs) : s = cmds
    BY DEF MetaWays
  <2>4. PICK m : m = cmds'
    OBVIOUS
  <2>5. m = s \o [i \in 1..k |-> n + i] /\ n + k <= MaxReqs
    BY <1>2, <1>3, <2>1, <2>2, <2>3, <2>4
  <2>6. m \in Seq(0..MaxReqs)
    <3>1. Filled(s, k, n, m)
      BY <2>5, ChannelFilled
    <3> QED BY <3>1 DEF Filled
  <2> QED BY <2>4, <2>6
<1>5. asked' \in 0..MaxReqs
  BY <1>1, <1>2
<1>6. awaited' \subseteq Meta!Reqs
  <2>1. awaited' = awaited \cup (asked + 1 .. asked + Len(ks)) /\ awaited \subseteq 1..MaxReqs
    BY DEF Meta!Request, Meta!Reqs, MetaUi
  <2>2. asked + 1 .. asked + Len(ks) \subseteq 1..MaxReqs
    BY <1>1, <1>2
  <2> QED BY <2>1, <2>2 DEF Meta!Reqs
<1>7. kindOf' \in [Meta!Reqs -> {"probe", "list"}]
  <2>1. ASSUME NEW r \in Meta!Reqs, r \in asked + 1 .. asked + Len(ks) PROVE ks[r - asked] \in {"probe", "list"}
    BY <1>1, <1>2, <2>1
  <2> QED BY <2>1 DEF Meta!Request, MetaUi
<1>8. bornIn' \in [Meta!Reqs -> 0..MaxLeaves] /\ leaves' \in 0..MaxLeaves
  BY DEF Meta!Request, MetaUi
<1>9. list' \in [state : {"NotLoaded", "Loading", "Loaded", "Failed"}, by : 0..MaxReqs]
  BY DEF Meta!Loading
<1>10. MetaUi'
  BY <1>5, <1>6, <1>7, <1>8, <1>9 DEF MetaUi
<1>11. MetaWays'
  BY <1>4 DEF MetaWays
<1> QED BY <1>10, <1>11

LEMMA MetaKinds == <<"probe", "list">> \in Seq({"probe", "list"}) /\ <<"list">> \in Seq({"probe", "list"})
OBVIOUS
LEMMA MetaTypesKept == Meta!IInv /\ Meta!Next => Meta!TypeOK'
<1> SUFFICES ASSUME Meta!IInv, Meta!Next PROVE (MetaUi /\ MetaWays /\ MetaActors)'
  BY MetaTypesNext
<1> USE MetaConstants
<1>1. MetaUi /\ MetaWays /\ MetaActors /\ Meta!InOrder
  BY MetaTypes DEF Meta!IInv
<1>2. /\ \A a \in Meta!Actors : Meta!Busy(a) => req[a] \in Meta!Reqs
      /\ \A r \in Meta!Reqs : Meta!Sent(r) => actors < r
  BY <1>1 DEF Meta!InOrder, Meta!Mailboxes, Meta!NewestSent
<1>3. CASE Meta!ConnectServer
  <2>1. MetaUi'
    BY <1>1, <1>3 DEF Meta!ConnectServer, MetaUi
  <2> QED BY <1>1, <1>3, <2>1, MetaWaysSame, MetaActorsSame DEF Meta!ConnectServer, Meta!actorVars
<1>4. CASE Meta!SignedIn
  <2>1. creds' \in BOOLEAN /\ signing' \in BOOLEAN
    BY <1>4, Zenon DEF Meta!SignedIn
  <2>2. MetaUi' /\ MetaWays'
    BY <1>1, <1>4, <2>1, MetaKinds, MetaRequestTyped DEF Meta!SignedIn, Meta!actorVars
  <2> QED BY <1>1, <1>4, <2>2, MetaActorsSame DEF Meta!SignedIn, Meta!actorVars
<1>5. CASE Meta!SignInFails
  <2>0. list' \in [state : {"NotLoaded", "Loading", "Loaded", "Failed"}, by : 0..MaxReqs]
    BY <1>5 DEF Meta!SignInFails
  <2>1. MetaUi'
    BY <1>1, <1>5, <2>0 DEF Meta!SignInFails, MetaUi
  <2> QED BY <1>1, <1>5, <2>1, MetaWaysSame, MetaActorsSame DEF Meta!SignInFails, Meta!actorVars
<1>6. CASE Meta!Refresh
  <2>1. creds' \in BOOLEAN /\ signing' \in BOOLEAN
    BY <1>1, <1>6, Zenon DEF Meta!Refresh, MetaUi
  <2>2. MetaUi' /\ MetaWays'
    BY <1>1, <1>6, <2>1, MetaKinds, MetaRequestTyped DEF Meta!Refresh, Meta!actorVars
  <2> QED BY <1>1, <1>6, <2>2, MetaActorsSame DEF Meta!Refresh, Meta!actorVars
<1>7. CASE Meta!DisconnectServer
  <2>0. list' \in [state : {"NotLoaded", "Loading", "Loaded", "Failed"}, by : 0..MaxReqs]
    BY <1>7 DEF Meta!DisconnectServer
  <2>1. MetaUi'
    <3>1. leaves' \in 0..MaxLeaves
      BY <1>1, <1>7 DEF Meta!DisconnectServer, MetaUi
    <3>2. creds' \in BOOLEAN /\ signing' = signing
      BY <1>7, Zenon DEF Meta!DisconnectServer
    <3>3. UNCHANGED <<awaited, asked, kindOf, bornIn>>
      BY <1>7 DEF Meta!DisconnectServer
    <3> QED BY <1>1, <2>0, <3>1, <3>2, <3>3 DEF MetaUi
  <2>2. cmds' \in Seq(0..MaxReqs)
    BY <1>1, <1>7, AppendProperties DEF Meta!DisconnectServer, MetaWays, Meta!Close
  <2>3. MetaWays'
    BY <1>1, <1>7, <2>2 DEF Meta!DisconnectServer, MetaWays, Meta!actorVars
  <2> QED BY <1>1, <1>7, <2>1, <2>3, MetaActorsSame DEF Meta!DisconnectServer, Meta!actorVars
<1>8. CASE Meta!Reads
  <2>1. PICK ans : ans = Head(answers)
    OBVIOUS
  <2>2. ans \in [req : Meta!Reqs, ok : BOOLEAN] /\ answers' \in Seq([req : Meta!Reqs, ok : BOOLEAN])
    BY <1>1, <1>8, <2>1, HeadTailProperties DEF Meta!Reads, MetaWays
  <2>3. MetaWays'
    BY <1>1, <1>8, <2>2 DEF Meta!Reads, MetaWays, Meta!actorVars
  <2>4. /\ list' = list \/ list' = [state |-> "Loaded", by |-> ans.req] \/ list' = [state |-> "Failed", by |-> ans.req]
        /\ awaited' = awaited \ {ans.req}
    BY <1>8, <2>1 DEF Meta!Reads
  <2>5. ans.req \in 0..MaxReqs
    BY <2>2 DEF Meta!Reqs
  <2>6. list' \in [state : {"NotLoaded", "Loading", "Loaded", "Failed"}, by : 0..MaxReqs]
    BY <1>1, <2>4, <2>5 DEF MetaUi
  <2>7. MetaUi'
    BY <1>1, <1>8, <2>4, <2>6 DEF Meta!Reads, MetaUi
  <2> QED BY <1>1, <1>8, <2>3, <2>7, MetaActorsSame DEF Meta!Reads, Meta!actorVars
<1>9. CASE Meta!Dispatch
  <2>1. MetaUi' /\ MetaActors'
    BY <1>1, <1>9, MetaUiSame, MetaActorsSame DEF Meta!Dispatch
  <2>2. /\ cmds \in Seq(0..MaxReqs) /\ cmds # <<>> /\ answers' = answers
        /\ cmds' \in Seq(0..MaxReqs) /\ Head(cmds) \in 0..MaxReqs
    BY <1>1, <1>9, HeadTailProperties DEF Meta!Dispatch, MetaWays
  <2>3. ASSUME NEW b \in Meta!Actors, NEW x \in 0..MaxReqs
        PROVE  [box EXCEPT ![b] = Append(@, x)] \in [Meta!Actors -> Seq(0..MaxReqs)]
    <3>1. Append(box[b], x) \in Seq(0..MaxReqs)
      BY <1>1, AppendProperties DEF MetaWays
    <3> QED BY <1>1, <3>1 DEF MetaWays
  <2>4. CASE Head(cmds) = Meta!Close
    <3>1. /\ entry' = 0 /\ actors' = actors
          /\ box' = box \/ (entry # 0 /\ box' = [box EXCEPT ![entry] = Append(@, Meta!Close)])
      BY <1>9, <2>4 DEF Meta!Dispatch
    <3>2. entry # 0 => entry \in Meta!Actors
      BY <1>1 DEF MetaWays, Meta!Actors
    <3>0. Meta!Close \in 0..MaxReqs
      BY DEF Meta!Close
    <3>3. box' \in [Meta!Actors -> Seq(0..MaxReqs)]
      <4>1. CASE box' = box
        BY <1>1, <4>1 DEF MetaWays
      <4>2. CASE entry # 0 /\ box' = [box EXCEPT ![entry] = Append(@, Meta!Close)]
        <5>1. [box EXCEPT ![entry] = Append(@, Meta!Close)] \in [Meta!Actors -> Seq(0..MaxReqs)]
          BY <2>3, <3>0, <3>2, <4>2
        <5> QED BY <4>2, <5>1
      <4> QED BY <3>1, <4>1, <4>2
    <3> QED BY <1>1, <2>1, <2>2, <3>1, <3>3 DEF MetaWays
  <2>5. CASE Head(cmds) # Meta!Close
    <3>1. PICK a, r : /\ r = Head(cmds) /\ (a = actors + 1 \/ (a = entry /\ entry # 0))
                      /\ entry' = a /\ actors' = (IF a > actors THEN a ELSE actors)
                      /\ box' = [box EXCEPT ![a] = Append(@, r)]
      BY <1>9, <2>5 DEF Meta!Dispatch
    <3>2. r \in Meta!Reqs /\ Meta!Sent(r)
      <4>1. 1 \in DOMAIN cmds /\ cmds[1] = r
        BY <2>2, <3>1, ChannelRead
      <4> QED BY <2>2, <2>5, <3>1, <4>1 DEF Meta!Reqs, Meta!Close, Meta!Sent
    <3>3. actors + 1 \in Meta!Actors
      BY <1>1, <1>2, <3>2 DEF MetaWays, Meta!Reqs, Meta!Actors
    <3>4. a \in Meta!Actors /\ actors' \in 0..MaxReqs /\ entry' \in 0..actors'
      BY <1>1, <3>1, <3>3 DEF MetaWays, Meta!Actors
    <3>5. box' \in [Meta!Actors -> Seq(0..MaxReqs)]
      BY <2>2, <2>3, <3>1, <3>4
    <3> QED BY <1>1, <2>1, <2>2, <3>4, <3>5 DEF MetaWays
  <2> QED BY <2>4, <2>5
<1>10. ASSUME NEW a \in Meta!Actors, Meta!Works(a) \/ Meta!Dies(a)
       PROVE  (MetaUi /\ MetaWays /\ MetaActors)'
  <2>1. MetaUi' /\ cmds' = cmds /\ entry' = entry /\ actors' = actors
    <3>1. Meta!notActor
      BY <1>10 DEF Meta!Works, Meta!Dies, Meta!Receive, Meta!Forget, Meta!Open, Meta!Reuse, Meta!Served,
                   Meta!Disconnected, Meta!Tell, Meta!End
    <3> QED BY <1>1, <3>1, MetaUiSame DEF Meta!notActor
  <2>2. CASE Meta!Receive(a)
    <3>1. box[a] \in Seq(0..MaxReqs) /\ box[a] # <<>> /\ box' = [box EXCEPT ![a] = Tail(@)]
      BY <1>1, <2>2 DEF MetaWays, Meta!Receive
    <3>2. Tail(box[a]) \in Seq(0..MaxReqs) /\ Head(box[a]) \in 0..MaxReqs
      BY <3>1, HeadTailProperties
    <3>3. MetaWays'
      BY <1>1, <2>1, <2>2, <3>1, <3>2 DEF MetaWays, Meta!Receive
    <3>4. MetaActors'
      BY <1>1, <2>2, <3>2, MetaActorWorks DEF Meta!Receive
    <3> QED BY <2>1, <3>3, <3>4
  <2>3. CASE Meta!Forget(a)
    <3>1. MetaActors'
      <4>1. deaths' = deaths \/ (deaths < MaxDeaths /\ deaths' = deaths + 1)
        BY <1>1, <2>3 DEF Meta!Forget, MetaActors
      <4> QED BY <1>1, <2>3, <4>1, MetaActorWorks DEF Meta!Forget
    <3> QED BY <1>1, <2>1, <2>3, <3>1, MetaWaysSame DEF Meta!Forget
  <2>4. CASE Meta!Open(a)
    <3>1. MetaActors'
      BY <1>1, <2>4, MetaActorWorks DEF Meta!Open, Meta!Answer
    <3> QED BY <1>1, <2>1, <2>4, <3>1, MetaWaysSame DEF Meta!Open
  <2>5. CASE Meta!Reuse(a)
    <3>1. MetaActors'
      BY <1>1, <2>5, MetaActorWorks DEF Meta!Reuse
    <3> QED BY <1>1, <2>1, <2>5, <3>1, MetaWaysSame DEF Meta!Reuse
  <2>6. CASE Meta!Served(a)
    <3>1. PICK o \in BOOLEAN : /\ Meta!Answer(a, o) /\ (~o => deaths < MaxDeaths)
      BY <2>6 DEF Meta!Served
    <3>2. ok'[a] = o
      BY <1>1, <3>1 DEF Meta!Answer, MetaActors
    <3>3. /\ deaths' = deaths \/ (deaths < MaxDeaths /\ deaths' = deaths + 1)
          /\ conn' = conn \/ conn' = [conn EXCEPT ![a] = "broken"]
      BY <2>6, <3>1, <3>2 DEF Meta!Served
    <3>4. MetaActors'
      BY <1>1, <2>6, <3>1, <3>3, MetaActorWorks DEF Meta!Served, Meta!Answer
    <3> QED BY <1>1, <2>1, <2>6, <3>4, MetaWaysSame DEF Meta!Served
  <2>7. CASE Meta!Disconnected(a)
    <3>1. MetaActors'
      BY <1>1, <2>7, MetaActorWorks DEF Meta!Disconnected, Meta!Answer
    <3> QED BY <1>1, <2>1, <2>7, <3>1, MetaWaysSame DEF Meta!Disconnected
  <2>8. CASE Meta!Tell(a)
    <3>1. MetaActors'
      BY <1>1, <2>8, MetaActorWorks DEF Meta!Tell
    <3>2. req[a] \in Meta!Reqs /\ ok[a] \in BOOLEAN
      BY <1>1, <1>2, <2>8 DEF Meta!Tell, Meta!Busy, MetaActors
    <3>3. answers' \in Seq([req : Meta!Reqs, ok : BOOLEAN])
      BY <1>1, <2>8, <3>2, AppendProperties DEF Meta!Tell, MetaWays
    <3>4. MetaWays'
      BY <1>1, <2>1, <2>8, <3>3 DEF Meta!Tell, MetaWays
    <3> QED BY <2>1, <3>1, <3>4
  <2>9. CASE Meta!End(a)
    <3>1. box[a] \in Seq(0..MaxReqs) /\ DOMAIN box[a] = 1..Len(box[a])
      BY <1>1, LenProperties DEF MetaWays
    <3>2. {box[a][i] : i \in DOMAIN box[a]} \ {Meta!Close} \in SUBSET Meta!Reqs
      <4>1. ASSUME NEW i \in DOMAIN box[a] PROVE box[a][i] \in 0..MaxReqs
        BY <3>1, ElementOfSeq
      <4> QED BY <4>1 DEF Meta!Close, Meta!Reqs
    <3>3. dropped' \in [Meta!Actors -> SUBSET Meta!Reqs]
      BY <1>1, <2>9, <3>2 DEF Meta!End, MetaActors
    <3>4. MetaActors'
      BY <1>1, <2>9, <3>3 DEF Meta!End, MetaActors
    <3>5. MetaWays'
      BY <1>1, <2>1, <2>9, EmptySeq DEF Meta!End, MetaWays
    <3> QED BY <2>1, <3>4, <3>5
  <2>10. CASE Meta!Dies(a)
    <3>1. MetaActors'
      BY <1>1, <2>10, MetaActorWorks DEF Meta!Dies
    <3> QED BY <1>1, <2>1, <2>10, <3>1, MetaWaysSame DEF Meta!Dies
  <2> QED BY <1>10, <2>2, <2>3, <2>4, <2>5, <2>6, <2>7, <2>8, <2>9, <2>10 DEF Meta!Works
<1> QED BY <1>3, <1>4, <1>5, <1>6, <1>7, <1>8, <1>9, <1>10 DEF Meta!Next
LEMMA MetaHas ==
  /\ \A x : Meta!Sent(x) <=> Has(cmds, x)
  /\ \A a, x : Meta!InBox(a, x) <=> Has(box[a], x)
BY DEF Meta!Sent, Meta!InBox, Has

LEMMA MetaHasNext ==
  /\ \A x : Meta!Sent(x)' <=> Has(cmds', x)
  /\ \A a, x : Meta!InBox(a, x)' <=> Has(box'[a], x)
BY DEF Meta!Sent, Meta!InBox, Has

LEMMA MetaInitInv == Meta!Init => Meta!IInv
<1> SUFFICES ASSUME Meta!Init PROVE Meta!IInv
  OBVIOUS
<1> USE MetaConstants
<1>1. MetaUi /\ MetaWays /\ MetaActors
  <2>1. MetaUi
    <3>1. creds \in BOOLEAN /\ signing \in BOOLEAN
      BY Zenon DEF Meta!Init
    <3>2. list \in [state : {"NotLoaded", "Loading", "Loaded", "Failed"}, by : 0..MaxReqs]
      BY DEF Meta!Init
    <3>3. awaited \subseteq Meta!Reqs /\ asked \in 0..MaxReqs /\ leaves \in 0..MaxLeaves
      BY DEF Meta!Init
    <3>4. kindOf \in [Meta!Reqs -> {"probe", "list"}] /\ bornIn \in [Meta!Reqs -> 0..MaxLeaves]
      BY DEF Meta!Init
    <3> QED BY <3>1, <3>2, <3>3, <3>4 DEF MetaUi
  <2>2. MetaWays
    BY EmptySeq DEF Meta!Init, MetaWays
  <2>3. again \in [Meta!Actors -> BOOLEAN] /\ ok \in [Meta!Actors -> BOOLEAN]
    BY Zenon DEF Meta!Init
  <2>4. MetaActors
    BY <2>3 DEF Meta!Init, MetaActors
  <2> QED BY <2>1, <2>2, <2>4
<1>2. \A x : ~Has(<<>>, x)
  BY EmptySeq DEF Has
<1>3. \A a \in Meta!Actors : ~Meta!Busy(a) /\ box[a] = <<>> /\ life[a] = "waiting"
  BY DEF Meta!Init, Meta!Busy
<1>4. /\ \A x : ~Meta!Sent(x) /\ \A a \in Meta!Actors : ~Meta!InBox(a, x) /\ ~Meta!At(a, x)
      /\ \A i \in DOMAIN cmds : FALSE
      /\ \A i \in DOMAIN answers : FALSE
      /\ \A x : ~Meta!Told(x)
  <2>1. \A x : ~Meta!Sent(x) /\ \A a \in Meta!Actors : ~Meta!InBox(a, x)
    BY <1>2, <1>3, MetaHas DEF Meta!Init
  <2>2. DOMAIN cmds = {} /\ DOMAIN answers = {}
    BY EmptySeq DEF Meta!Init
  <2> QED BY <1>3, <2>1, <2>2 DEF Meta!At, Meta!Told
<1>5. \A a \in Meta!Actors : Meta!Rising(box[a])
  BY <1>3, EmptySeq DEF Meta!Rising
<1>6. Meta!InOrder
  <2>1. Meta!NewestSent
    <3>1. Meta!Rising(cmds)
      BY <1>4 DEF Meta!Rising
    <3>2. actors <= asked
      BY DEF Meta!Init
    <3> QED BY <1>4, <3>1, <3>2 DEF Meta!NewestSent
  <2>2. Meta!ClosesPart
    BY <1>4 DEF Meta!ClosesPart, Meta!Init, Meta!Reqs
  <2>3. Meta!Mailboxes
    BY <1>3, <1>4, <1>5 DEF Meta!Mailboxes
  <2>4. Meta!Queues /\ Meta!AnswersInOrder /\ Meta!LaterAwaited /\ Meta!LatestShown
    BY <1>4 DEF Meta!Queues, Meta!AnswersInOrder, Meta!LaterAwaited, Meta!LatestShown, Meta!OnItsWay, Meta!Init
  <2> QED BY <2>1, <2>2, <2>3, <2>4 DEF Meta!InOrder
<1> QED BY <1>1, <1>6, MetaTypes DEF Meta!IInv

\* A step at which no request moves.
LEMMA MetaQuiet ==
  ASSUME Meta!InOrder, UNCHANGED <<cmds, answers, entry, actors, box, req, asked, leaves, kindOf, bornIn, awaited>>,
         list' = list \/ list'.by = 0,
         \A a \in Meta!Actors : life'[a] = life[a] \/ (Meta!Busy(a) /\ life'[a] \in {"looking", "serving", "telling"})
  PROVE  Meta!InOrder'
<1>1. \A a \in Meta!Actors :
        (Meta!Busy(a)' <=> Meta!Busy(a)) /\ (life'[a] = "ended" => life[a] = "ended")
        /\ (life[a] = "waiting" => life'[a] = "waiting")
  BY DEF Meta!Busy
<1>2. \A x : (Meta!Sent(x)' <=> Meta!Sent(x)) /\ (Meta!Told(x)' <=> Meta!Told(x))
  BY DEF Meta!Sent, Meta!Told
<1>3. \A a \in Meta!Actors : \A x :
        (Meta!InBox(a, x)' <=> Meta!InBox(a, x)) /\ (Meta!At(a, x)' <=> Meta!At(a, x))
  BY <1>1 DEF Meta!InBox, Meta!At
<1>4. \A i, x : Meta!Behind(i, x)' <=> Meta!Behind(i, x)
  BY DEF Meta!Behind
<1>5. Meta!NewestSent'
  BY <1>2, <1>3 DEF Meta!InOrder, Meta!NewestSent, Meta!Rising
<1>6. Meta!ClosesPart'
  BY <1>4 DEF Meta!InOrder, Meta!ClosesPart
<1>7. Meta!Mailboxes'
  BY <1>1, <1>2, <1>3 DEF Meta!InOrder, Meta!Mailboxes, Meta!Rising
<1>8. Meta!Queues'
  BY <1>2, <1>3 DEF Meta!InOrder, Meta!Queues
<1>9. Meta!AnswersInOrder'
  BY DEF Meta!InOrder, Meta!AnswersInOrder
<1>10. Meta!LaterAwaited'
  BY <1>2, <1>3 DEF Meta!InOrder, Meta!LaterAwaited, Meta!OnItsWay
<1>11. Meta!LatestShown'
  BY DEF Meta!InOrder, Meta!LatestShown
<1> QED BY <1>5, <1>6, <1>7, <1>8, <1>9, <1>10, <1>11 DEF Meta!InOrder

\* The order of what the actors hold, told by where the requests are: the steps
\* of the dispatcher and of the actors leave the rest as it is.
LEMMA MetaOnward ==
  ASSUME Meta!IInv, UNCHANGED Meta!uiVars, UNCHANGED answers,
         \A r \in Meta!Reqs : Meta!OnItsWay(r)' => Meta!OnItsWay(r)
  PROVE  Meta!AnswersInOrder' /\ Meta!LaterAwaited' /\ Meta!LatestShown'
<1>1. Meta!AnswersInOrder'
  BY DEF Meta!IInv, Meta!InOrder, Meta!AnswersInOrder, Meta!uiVars
<1>2. Meta!LaterAwaited'
  BY DEF Meta!IInv, Meta!InOrder, Meta!LaterAwaited, Meta!uiVars
<1>3. Meta!LatestShown'
  BY DEF Meta!IInv, Meta!InOrder, Meta!LatestShown, Meta!uiVars
<1> QED BY <1>1, <1>2, <1>3

\* SignedIn, Refresh: the new requests are the last of all.
LEMMA MetaRequestInv ==
  ASSUME Meta!IInv, NEW ks \in Seq({"probe", "list"}), Meta!Request(ks), Meta!Loading,
         UNCHANGED <<leaves, answers, entry, actors, Meta!actorVars>>
  PROVE  Meta!InOrder'
<1> USE MetaConstants
<1>1. MetaUi /\ MetaWays /\ MetaActors /\ Meta!InOrder
  BY MetaTypes DEF Meta!IInv
<1>2. PICK n, k \in Nat : n = asked /\ k = Len(ks) /\ asked \in Nat /\ n + k <= MaxReqs /\ asked' = n + k
  <2>1. Len(ks) \in Nat /\ asked \in Nat
    BY <1>1, LenProperties DEF MetaUi
  <2>2. asked + Len(ks) <= MaxReqs /\ asked' = asked + Len(ks)
    BY DEF Meta!Request
  <2> QED BY <2>1, <2>2
<1>3. /\ awaited' = awaited \cup (n + 1 .. n + k) /\ list'.by = 0
      /\ \A r \in Meta!Reqs : /\ r <= n => bornIn'[r] = bornIn[r]
                              /\ r \in n + 1 .. n + k => bornIn'[r] = leaves
  BY <1>1, <1>2 DEF Meta!Request, MetaUi, Meta!Loading
<1>0. PICK s \in Seq(0..MaxReqs) : s = cmds
  BY <1>1 DEF MetaWays
<1>4. PICK m : s = cmds /\ m = cmds' /\ m = s \o [i \in 1..k |-> n + i]
  <2>1. DOMAIN ks = 1..k
    BY <1>2, LenProperties
  <2> QED BY <1>0, <1>2, <2>1 DEF Meta!Request
<1>5. /\ m \in Seq(0..MaxReqs) /\ Len(s) \in Nat /\ DOMAIN s = 1..Len(s) /\ DOMAIN m = 1..(Len(s) + k)
      /\ \A i \in DOMAIN s : i \in DOMAIN m /\ m[i] = s[i]
      /\ \A i \in DOMAIN m : i \in Nat /\ (i \notin DOMAIN s => m[i] = n + (i - Len(s)) /\ i - Len(s) \in 1..k)
      /\ \A x : Has(m, x) <=> Has(s, x) \/ x \in n + 1 .. n + k
  <2>1. Filled(s, k, n, m)
    BY <1>2, <1>4, ChannelFilled
  <2> QED BY <2>1 DEF Filled
<1>6. \A x : Meta!Sent(x)' <=> Meta!Sent(x) \/ x \in n + 1 .. n + k
  BY <1>4, <1>5, MetaHas, MetaHasNext
<1>7. \A x : /\ Meta!Told(x)' <=> Meta!Told(x)
             /\ \A a \in Meta!Actors : /\ Meta!InBox(a, x)' <=> Meta!InBox(a, x)
                                       /\ Meta!At(a, x)' <=> Meta!At(a, x)
                                       /\ Meta!Busy(a)' <=> Meta!Busy(a)
  BY DEF Meta!Told, Meta!InBox, Meta!At, Meta!Busy, Meta!actorVars
<1>8. /\ \A r \in Meta!Reqs : r \in Nat /\ (Meta!OnItsWay(r) => r <= n)
      /\ actors \in Nat /\ actors <= n
      /\ \A r \in Meta!Reqs : bornIn[r] \in Nat
  BY <1>1, <1>2 DEF Meta!InOrder, Meta!NewestSent, Meta!OnItsWay, Meta!Reqs, MetaWays, MetaUi
<1>9. Meta!NewestSent'
  <2>1. Meta!Rising(cmds')
    <3> SUFFICES ASSUME NEW i \in DOMAIN m, NEW j \in DOMAIN m, i < j, m[i] # Meta!Close, m[j] # Meta!Close
                 PROVE  m[i] < m[j]
      BY <1>4 DEF Meta!Rising
    <3>1. CASE i \in DOMAIN s /\ j \in DOMAIN s
      BY <1>1, <1>4, <1>5, <3>1 DEF Meta!InOrder, Meta!NewestSent, Meta!Rising
    <3>2. CASE i \in DOMAIN s /\ j \notin DOMAIN s
      <4>1. m[i] \in Meta!Reqs /\ Meta!Sent(m[i])
        <5>1. m[i] = s[i] /\ s[i] \in 0..MaxReqs
          BY <1>5, <3>2, ElementOfSeq
        <5> QED BY <1>4, <3>2, <5>1 DEF Meta!Sent, Meta!Reqs, Meta!Close
      <4> QED BY <1>5, <1>8, <3>2, <4>1 DEF Meta!OnItsWay
    <3>3. CASE i \notin DOMAIN s
      <4>1. j \notin DOMAIN s
        BY <1>5, <3>3
      <4>2. m[i] = n + (i - Len(s)) /\ m[j] = n + (j - Len(s))
        BY <1>5, <3>3, <4>1
      <4> QED BY <1>2, <1>5, <4>2
    <3> QED BY <3>1, <3>2, <3>3
  <2>2. ASSUME NEW r \in Meta!Reqs, Meta!Sent(r)'
        PROVE  actors < r /\ r <= asked' /\ \A q \in Meta!Reqs : r < q /\ q <= asked' => Meta!Sent(q)'
    BY <1>1, <1>2, <1>6, <1>8, <2>2 DEF Meta!InOrder, Meta!NewestSent
  <2>3. ASSUME NEW r \in Meta!Reqs, Meta!Told(r) \/ \E a \in Meta!Actors : Meta!At(a, r)
        PROVE  r <= asked' /\ \A q \in Meta!Reqs : Meta!Sent(q)' => r < q
    BY <1>1, <1>2, <1>6, <1>8, <2>3 DEF Meta!InOrder, Meta!NewestSent
  <2>4. actors' = actors /\ actors <= asked'
    BY <1>2, <1>8
  <2> QED BY <1>7, <2>1, <2>2, <2>3, <2>4 DEF Meta!NewestSent
<1>10. Meta!ClosesPart'
  <2>1. ASSUME NEW r \in Meta!Reqs, r <= asked' PROVE bornIn'[r] <= leaves
    <3>1. CASE r <= n
      BY <1>1, <1>2, <1>3, <3>1 DEF Meta!InOrder, Meta!ClosesPart
    <3>2. CASE ~(r <= n)
      <4>1. r \in n + 1 .. n + k /\ leaves \in Nat
        BY <1>1, <1>2, <1>8, <2>1, <3>2 DEF MetaUi
      <4> QED BY <1>3, <4>1
    <3> QED BY <3>1, <3>2
  <2>2. ASSUME NEW i \in DOMAIN cmds', cmds'[i] = Meta!Close, NEW r \in Meta!Reqs, r <= asked', ~Meta!Behind(i, r)'
        PROVE  bornIn'[r] < leaves /\ \A q \in Meta!Reqs : Meta!Behind(i, q)' => bornIn'[r] < bornIn'[q]
    <3>1. i \in DOMAIN s /\ s[i] = Meta!Close
      BY <1>2, <1>4, <1>5, <2>2 DEF Meta!Close
    <3>2. \A x : x \in n + 1 .. n + k => Meta!Behind(i, x)'
      <4>1. ASSUME NEW x \in n + 1 .. n + k PROVE Len(s) + (x - n) \in DOMAIN m /\ m[Len(s) + (x - n)] = x /\ i < Len(s) + (x - n)
        <5>1. x \in Nat /\ x - n \in 1..k
          BY <1>2, <4>1
        <5>2. Len(s) + (x - n) \in DOMAIN m /\ Len(s) + (x - n) \notin DOMAIN s /\ i < Len(s) + (x - n)
          BY <1>5, <3>1, <5>1
        <5>3. m[Len(s) + (x - n)] = n + ((Len(s) + (x - n)) - Len(s))
          BY <1>5, <5>2
        <5> QED BY <1>2, <1>5, <5>1, <5>2, <5>3
      <4> QED BY <1>4, <4>1 DEF Meta!Behind
    <3>3. \A x : Meta!Behind(i, x) => Meta!Behind(i, x)'
      BY <1>4, <1>5 DEF Meta!Behind
    <3>4. r <= n /\ ~Meta!Behind(i, r)
      BY <1>2, <1>8, <2>2, <3>2, <3>3
    <3>5. bornIn[r] < leaves /\ \A q \in Meta!Reqs : Meta!Behind(i, q) => bornIn[r] < bornIn[q]
      BY <1>1, <1>2, <1>4, <3>1, <3>4 DEF Meta!InOrder, Meta!ClosesPart
    <3>6. ASSUME NEW q \in Meta!Reqs, Meta!Behind(i, q)' PROVE bornIn'[r] < bornIn'[q]
      <4>1. CASE q \in n + 1 .. n + k
        BY <1>3, <3>4, <3>5, <4>1
      <4>2. CASE q \notin n + 1 .. n + k
        <5>1. PICK j \in DOMAIN m : i < j /\ m[j] = q
          BY <1>4, <3>6 DEF Meta!Behind
        <5>2. j \in DOMAIN s /\ s[j] = q
          <6>1. j \notin DOMAIN s => q = n + (j - Len(s)) /\ j - Len(s) \in 1..k
            BY <1>5, <5>1
          <6>2. j \in DOMAIN s
            BY <1>2, <4>2, <6>1
          <6> QED BY <1>5, <5>1, <6>2
        <5>3. Meta!Behind(i, q) /\ Meta!Sent(q)
          BY <1>4, <5>1, <5>2 DEF Meta!Behind, Meta!Sent
        <5>4. q <= n
          BY <1>8, <5>3 DEF Meta!OnItsWay
        <5> QED BY <1>3, <3>4, <3>5, <5>3, <5>4
      <4> QED BY <4>1, <4>2
    <3> QED BY <1>3, <3>4, <3>5, <3>6
  <2>3. leaves' = leaves
    OBVIOUS
  <2> QED BY <2>1, <2>2, <2>3 DEF Meta!ClosesPart
<1>11. Meta!Mailboxes'
  <2>1. UNCHANGED <<box, life, req, actors>>
    BY DEF Meta!actorVars
  <2> QED BY <1>1, <1>7, <2>1 DEF Meta!InOrder, Meta!Mailboxes, Meta!Rising
<1>12. Meta!Queues'
  <2> SUFFICES ASSUME NEW a \in Meta!Actors, NEW r \in Meta!Reqs, Meta!At(a, r)
               PROVE  /\ bornIn'[r] = leaves' => entry' = a
                      /\ \A q \in Meta!Reqs : r < q /\ q <= asked' /\ bornIn'[q] = bornIn'[r] =>
                            Meta!InBox(a, q)' \/ (Meta!Sent(q)' /\ entry' = a)
    BY <1>7 DEF Meta!Queues
  <2>1. r <= n /\ bornIn'[r] = bornIn[r] /\ (bornIn[r] = leaves => entry = a)
    BY <1>1, <1>3, <1>8 DEF Meta!OnItsWay, Meta!InOrder, Meta!Queues
  <2>2. ASSUME NEW q \in Meta!Reqs, r < q, q <= asked', bornIn'[q] = bornIn'[r]
        PROVE  Meta!InBox(a, q) \/ (Meta!Sent(q)' /\ entry = a)
    <3>1. CASE q <= n
      BY <1>1, <1>2, <1>3, <1>6, <2>1, <2>2, <3>1 DEF Meta!InOrder, Meta!Queues
    <3>2. CASE ~(q <= n)
      <4>1. q \in n + 1 .. n + k
        BY <1>2, <1>8, <2>2, <3>2
      <4> QED BY <1>3, <1>6, <2>1, <2>2, <4>1
    <3> QED BY <3>1, <3>2
  <2> QED BY <1>7, <2>1, <2>2
<1>13. Meta!AnswersInOrder'
  <2>1. ASSUME NEW i \in DOMAIN answers PROVE answers[i].req \in Meta!Reqs /\ Meta!Told(answers[i].req)
    <3>1. answers[i] \in [req : Meta!Reqs, ok : BOOLEAN]
      BY <1>1, LenProperties, ElementOfSeq DEF MetaWays
    <3> QED BY <3>1 DEF Meta!Told
  <2>2. ASSUME NEW i \in DOMAIN answers PROVE bornIn'[answers[i].req] = bornIn[answers[i].req]
    BY <1>3, <1>8, <2>1 DEF Meta!OnItsWay
  <2> QED BY <1>1, <2>2 DEF Meta!InOrder, Meta!AnswersInOrder
<1>14. Meta!LaterAwaited'
  <2> SUFFICES ASSUME NEW r \in Meta!Reqs, NEW q \in Meta!Reqs, Meta!OnItsWay(r)', r < q, q <= asked',
                      bornIn'[q] = bornIn'[r]
               PROVE  q \in awaited'
    BY DEF Meta!LaterAwaited
  <2>1. CASE q <= n
    <3>1. r <= n /\ Meta!OnItsWay(r)
      BY <1>2, <1>6, <1>7, <1>8, <2>1 DEF Meta!OnItsWay
    <3> QED BY <1>1, <1>2, <1>3, <2>1, <3>1 DEF Meta!InOrder, Meta!LaterAwaited
  <2>2. CASE ~(q <= n)
    BY <1>2, <1>3, <1>8, <2>2
  <2> QED BY <2>1, <2>2
<1>15. Meta!LatestShown'
  BY <1>3 DEF Meta!LatestShown
<1> QED BY <1>9, <1>10, <1>11, <1>12, <1>13, <1>14, <1>15 DEF Meta!InOrder
\* DisconnectServer: the Close is behind every request.
LEMMA MetaDisconnectInv ==
  ASSUME Meta!IInv, Meta!DisconnectServer
  PROVE  Meta!InOrder'
<1> USE MetaConstants
<1>1. MetaUi /\ MetaWays /\ MetaActors /\ Meta!InOrder
  BY MetaTypes DEF Meta!IInv
<1>2. /\ cmds' = Append(cmds, Meta!Close) /\ leaves' = leaves + 1 /\ list'.by = 0
      /\ UNCHANGED <<awaited, asked, kindOf, bornIn, answers, entry, actors, box, life, req>>
  BY DEF Meta!DisconnectServer, Meta!actorVars
<1>0. PICK s \in Seq(0..MaxReqs) : s = cmds
  BY <1>1 DEF MetaWays
<1>3. PICK t : s = cmds /\ t = cmds' /\ t = Append(s, 0)
  BY <1>0, <1>2 DEF Meta!Close
<1>4. /\ DOMAIN t = 1..(Len(s) + 1) /\ Len(s) \in Nat /\ DOMAIN s = 1..Len(s) /\ t[Len(s) + 1] = 0
      /\ \A i \in DOMAIN s : t[i] = s[i] /\ i < Len(s) + 1
      /\ \A y : Has(t, y) <=> Has(s, y) \/ y = 0
  BY <1>3, ChannelWritten
<1>5. \A x \in Meta!Reqs : x \in Nat /\ x # 0 /\ (Meta!Sent(x)' <=> Meta!Sent(x))
  BY <1>3, <1>4, MetaHas, MetaHasNext DEF Meta!Reqs
<1>6. \A x : /\ Meta!Told(x)' <=> Meta!Told(x)
             /\ \A a \in Meta!Actors : /\ Meta!InBox(a, x)' <=> Meta!InBox(a, x)
                                       /\ Meta!At(a, x)' <=> Meta!At(a, x)
                                       /\ Meta!Busy(a)' <=> Meta!Busy(a)
  BY <1>2 DEF Meta!Told, Meta!InBox, Meta!At, Meta!Busy
<1>7. leaves \in Nat /\ \A r \in Meta!Reqs : bornIn[r] \in Nat /\ (r <= asked => bornIn[r] <= leaves)
  BY <1>1 DEF MetaUi, Meta!InOrder, Meta!ClosesPart
<1>8. Meta!NewestSent'
  <2>1. Meta!Rising(cmds')
    <3>1. Meta!Rising(s)
      BY <1>1, <1>3 DEF Meta!InOrder, Meta!NewestSent
    <3> QED BY <1>3, <3>1, RisingWritten DEF Meta!Close
  <2> QED BY <1>1, <1>2, <1>5, <1>6, <2>1 DEF Meta!InOrder, Meta!NewestSent
<1>9. Meta!ClosesPart'
  <2>1. ASSUME NEW i \in DOMAIN t, t[i] = Meta!Close, NEW r \in Meta!Reqs, r <= asked, ~Meta!Behind(i, r)'
        PROVE  bornIn[r] < leaves + 1 /\ \A q \in Meta!Reqs : Meta!Behind(i, q)' => bornIn[r] < bornIn[q]
    <3>1. CASE i \in DOMAIN s
      <4>1. \A q \in Meta!Reqs : Meta!Behind(i, q)' <=> Meta!Behind(i, q)
        <5>1. ASSUME NEW q \in Meta!Reqs, NEW j \in DOMAIN t, i < j, t[j] = q PROVE j \in DOMAIN s /\ s[j] = q
          BY <1>4, <1>5, <5>1
        <5> QED BY <1>3, <1>4, <5>1 DEF Meta!Behind
      <4>2. s[i] = Meta!Close /\ ~Meta!Behind(i, r)
        BY <1>4, <2>1, <3>1, <4>1
      <4>3. bornIn[r] < leaves /\ \A q \in Meta!Reqs : Meta!Behind(i, q) => bornIn[r] < bornIn[q]
        BY <1>1, <1>3, <2>1, <3>1, <4>2 DEF Meta!InOrder, Meta!ClosesPart
      <4> QED BY <1>7, <4>1, <4>3
    <3>2. CASE i \notin DOMAIN s
      <4>1. \A x : ~Meta!Behind(i, x)'
        BY <1>3, <1>4, <3>2 DEF Meta!Behind
      <4> QED BY <1>7, <2>1, <4>1
    <3> QED BY <3>1, <3>2
  <2>2. \A r \in Meta!Reqs : r <= asked => bornIn[r] <= leaves + 1
    BY <1>7
  <2> QED BY <1>2, <1>3, <2>1, <2>2 DEF Meta!ClosesPart
<1>10. Meta!Mailboxes'
  BY <1>1, <1>2, <1>6 DEF Meta!InOrder, Meta!Mailboxes, Meta!Rising
<1>11. Meta!Queues'
  <2>1. ASSUME NEW a \in Meta!Actors, NEW r \in Meta!Reqs, Meta!At(a, r) PROVE bornIn[r] # leaves + 1
    BY <1>1, <1>7, <2>1 DEF Meta!InOrder, Meta!NewestSent
  <2> QED BY <1>1, <1>2, <1>5, <1>6, <2>1 DEF Meta!InOrder, Meta!Queues
<1>12. Meta!AnswersInOrder'
  BY <1>1, <1>2 DEF Meta!InOrder, Meta!AnswersInOrder
<1>13. Meta!LaterAwaited'
  BY <1>1, <1>2, <1>5, <1>6 DEF Meta!InOrder, Meta!LaterAwaited, Meta!OnItsWay
<1>14. Meta!LatestShown'
  BY <1>2 DEF Meta!LatestShown
<1> QED BY <1>8, <1>9, <1>10, <1>11, <1>12, <1>13, <1>14 DEF Meta!InOrder

\* Reads: what is read is the first answer, and none of the requests of its
\* connect that are still on their way is older.
LEMMA MetaReadInv ==
  ASSUME Meta!IInv, Meta!Reads
  PROVE  Meta!InOrder'
<1> USE MetaConstants
<1>1. MetaUi /\ MetaWays /\ MetaActors /\ Meta!InOrder
  BY MetaTypes DEF Meta!IInv
<1>2. UNCHANGED <<asked, leaves, kindOf, bornIn, cmds, entry, actors, box, life, req>>
  BY DEF Meta!Reads, Meta!actorVars
<1>3. PICK s \in Seq([req : Meta!Reqs, ok : BOOLEAN]) :
        s = answers /\ s # <<>> /\ answers' = Tail(s)
  BY <1>1 DEF Meta!Reads, MetaWays
<1>4. PICK t : t = Tail(s) /\ t = answers'
  BY <1>3
<1>5. PICK ans : ans = Head(s)
  OBVIOUS
<1>6. /\ ans \in [req : Meta!Reqs, ok : BOOLEAN] /\ ans = s[1] /\ 1 \in DOMAIN s
      /\ \A i \in DOMAIN t : i \in Nat /\ i + 1 \in DOMAIN s /\ 1 < i + 1 /\ t[i] = s[i + 1]
      /\ \A i \in DOMAIN s : i \in Nat
  BY <1>3, <1>4, <1>5, ChannelRead
<1>7. PICK y \in Meta!Reqs : y = ans.req /\ Meta!Told(y) /\ y \in Nat /\ y <= asked
  <2>1. ans.req \in Meta!Reqs /\ Meta!Told(ans.req)
    BY <1>3, <1>6 DEF Meta!Told
  <2> QED BY <1>1, <2>1 DEF Meta!InOrder, Meta!NewestSent, Meta!Reqs
<1>8. /\ awaited' = awaited \ {y}
      /\ \/ y \in awaited /\ kindOf[y] = "list" /\ list'.by = y
         \/ ~(y \in awaited /\ kindOf[y] = "list") /\ list' = list
  BY <1>3, <1>5, <1>7 DEF Meta!Reads
<1>9. \A x : Meta!Told(x)' => \E j \in DOMAIN s : 1 < j /\ s[j].req = x
  BY <1>4, <1>6 DEF Meta!Told
<1>10. \A x : /\ Meta!Told(x)' => Meta!Told(x)
              /\ Meta!Sent(x)' <=> Meta!Sent(x)
              /\ \A a \in Meta!Actors : /\ Meta!InBox(a, x)' <=> Meta!InBox(a, x)
                                        /\ Meta!At(a, x)' <=> Meta!At(a, x)
                                        /\ Meta!Busy(a)' <=> Meta!Busy(a)
  BY <1>2, <1>3, <1>9 DEF Meta!Told, Meta!Sent, Meta!InBox, Meta!At, Meta!Busy
<1>11. ASSUME NEW r \in Meta!Reqs, Meta!OnItsWay(r)', r < y, bornIn[y] = bornIn[r]
       PROVE  FALSE
  <2>1. CASE Meta!Told(r)'
    <3>1. PICK j \in DOMAIN s : 1 < j /\ s[j].req = r
      BY <1>9, <2>1
    <3>2. s[1].req <= s[j].req
      BY <1>1, <1>3, <1>6, <1>7, <1>11, <3>1 DEF Meta!InOrder, Meta!AnswersInOrder
    <3> QED BY <1>6, <1>7, <1>11, <3>1, <3>2 DEF Meta!Reqs
  <2>2. CASE Meta!Sent(r)
    BY <1>1, <1>7, <1>11, <2>2 DEF Meta!InOrder, Meta!NewestSent, Meta!Reqs
  <2>3. ASSUME NEW a \in Meta!Actors, Meta!At(a, r) PROVE FALSE
    <3>1. Meta!InBox(a, y) \/ Meta!Sent(y)
      BY <1>1, <1>7, <1>11, <2>3 DEF Meta!InOrder, Meta!Queues
    <3>2. ~Meta!InBox(a, y)
      BY <1>1, <1>7 DEF Meta!InOrder, Meta!Mailboxes, Meta!At
    <3>3. ~Meta!Sent(y)
      BY <1>1, <1>7 DEF Meta!InOrder, Meta!NewestSent
    <3> QED BY <3>1, <3>2, <3>3
  <2> QED BY <1>10, <1>11, <2>1, <2>2, <2>3 DEF Meta!OnItsWay
<1>12. Meta!NewestSent'
  BY <1>1, <1>2, <1>10 DEF Meta!InOrder, Meta!NewestSent, Meta!Rising
<1>13. Meta!ClosesPart'
  BY <1>1, <1>2 DEF Meta!InOrder, Meta!ClosesPart, Meta!Behind
<1>14. Meta!Mailboxes'
  BY <1>1, <1>2, <1>10 DEF Meta!InOrder, Meta!Mailboxes, Meta!Rising
<1>15. Meta!Queues'
  BY <1>1, <1>2, <1>10 DEF Meta!InOrder, Meta!Queues
<1>16. Meta!AnswersInOrder'
  <2> SUFFICES ASSUME NEW i \in DOMAIN t, NEW j \in DOMAIN t, i < j, bornIn[t[i].req] = bornIn[t[j].req]
               PROVE  t[i].req <= t[j].req
    BY <1>2, <1>4 DEF Meta!AnswersInOrder
  <2>1. i + 1 \in DOMAIN s /\ j + 1 \in DOMAIN s /\ i + 1 < j + 1 /\ t[i] = s[i + 1] /\ t[j] = s[j + 1]
    BY <1>6
  <2> QED BY <1>1, <1>3, <2>1 DEF Meta!InOrder, Meta!AnswersInOrder
<1>17. Meta!LaterAwaited'
  <2> SUFFICES ASSUME NEW r \in Meta!Reqs, NEW q \in Meta!Reqs, Meta!OnItsWay(r)', r < q, q <= asked,
                      bornIn[q] = bornIn[r]
               PROVE  q \in awaited'
    BY <1>2 DEF Meta!LaterAwaited
  <2>1. Meta!OnItsWay(r)
    BY <1>10 DEF Meta!OnItsWay
  <2>2. q \in awaited
    BY <1>1, <2>1 DEF Meta!InOrder, Meta!LaterAwaited
  <2>3. q # y
    BY <1>11
  <2> QED BY <1>8, <2>2, <2>3
<1>18. Meta!LatestShown'
  <2>1. CASE y \in awaited /\ kindOf[y] = "list" /\ list'.by = y
    <3>1. Meta!OnItsWay(y)
      BY <1>7 DEF Meta!OnItsWay
    <3>2. ASSUME NEW q \in y + 1 .. asked, bornIn[q] = bornIn[y] PROVE q \in awaited /\ q # y
      <4>1. q \in Meta!Reqs /\ y < q /\ q <= asked
        BY <1>1, <1>7 DEF MetaUi, Meta!Reqs
      <4> QED BY <1>1, <1>7, <3>1, <3>2, <4>1 DEF Meta!InOrder, Meta!LaterAwaited
    <3> QED BY <1>2, <1>8, <2>1, <3>2 DEF Meta!LatestShown
  <2>2. CASE ~(y \in awaited /\ kindOf[y] = "list") /\ list' = list
    BY <1>1, <1>2, <1>8, <2>2 DEF Meta!InOrder, Meta!LatestShown
  <2> QED BY <1>8, <2>1, <2>2
<1> QED BY <1>12, <1>13, <1>14, <1>15, <1>16, <1>17, <1>18 DEF Meta!InOrder
\* Where a request is, the dispatcher having read it or a Close: the rest of the
\* commands keep their places.
LEMMA MetaDispatched ==
  ASSUME Meta!IInv, cmds # <<>>, cmds' = Tail(cmds)
  PROVE  /\ \A x \in Meta!Reqs : /\ x \in Nat /\ x # 0
                                 /\ Meta!Sent(x)' => Meta!Sent(x)
                                 /\ Meta!Sent(x) => Meta!Sent(x)' \/ x = Head(cmds)
                                 /\ Meta!Sent(x)' => Meta!Behind(1, x)
                                 /\ Meta!Behind(1, x) => Meta!Sent(x)
                                 /\ Head(cmds) # Meta!Close /\ Meta!Sent(x)' => Head(cmds) < x
         /\ Meta!Rising(cmds')
         /\ \A i \in DOMAIN cmds' : /\ i + 1 \in DOMAIN cmds /\ cmds'[i] = cmds[i + 1]
                                    /\ \A x : Meta!Behind(i, x)' <=> Meta!Behind(i + 1, x)
         /\ 1 \in DOMAIN cmds /\ cmds[1] = Head(cmds) /\ Head(cmds) \in 0..MaxReqs
<1> USE MetaConstants
<1>1. PICK s \in Seq(0..MaxReqs) : s = cmds /\ s # <<>> /\ Meta!Rising(s) /\ cmds' = Tail(s)
  BY MetaTypes DEF Meta!IInv, Meta!InOrder, Meta!NewestSent, MetaWays
<1>2. PICK t : t = Tail(s) /\ t = cmds'
  BY <1>1
<1>3. /\ Head(s) \in 0..MaxReqs /\ Head(s) = s[1] /\ 1 \in DOMAIN s
      /\ \A i \in DOMAIN t : i \in Nat /\ i + 1 \in DOMAIN s /\ 1 < i + 1 /\ t[i] = s[i + 1]
      /\ \A i \in DOMAIN s : i \in Nat /\ (i # 1 => i - 1 \in DOMAIN t)
      /\ \A x : Has(s, x) <=> x = Head(s) \/ Has(t, x)
  BY <1>1, <1>2, ChannelRead
<1>4. /\ Meta!Rising(t)
      /\ Head(s) # Meta!Close => \A x \in 0..MaxReqs : Has(t, x) /\ x # Meta!Close => Head(s) < x
  BY <1>1, <1>2, RisingRead
<1>5. ASSUME NEW x \in Meta!Reqs
      PROVE  /\ x \in Nat /\ x # 0 /\ x \in 0..MaxReqs
             /\ Meta!Sent(x)' => Meta!Sent(x)
             /\ Meta!Sent(x) => Meta!Sent(x)' \/ x = Head(cmds)
             /\ Head(cmds) # Meta!Close /\ Meta!Sent(x)' => Head(cmds) < x
  <2>1. x \in Nat /\ x # 0 /\ x \in 0..MaxReqs
    BY DEF Meta!Reqs
  <2>2. (Meta!Sent(x) <=> Has(s, x)) /\ (Meta!Sent(x)' <=> Has(t, x))
    BY <1>1, <1>2, MetaHas, MetaHasNext
  <2> QED BY <1>1, <1>3, <1>4, <2>1, <2>2 DEF Meta!Close
<1>6. ASSUME NEW i \in DOMAIN t, NEW x
      PROVE  Meta!Behind(i, x)' <=> Meta!Behind(i + 1, x)
  <2>1. ASSUME NEW j \in DOMAIN t, i < j, t[j] = x PROVE Meta!Behind(i + 1, x)
    <3>1. j + 1 \in DOMAIN s /\ i + 1 < j + 1 /\ s[j + 1] = x
      BY <1>3, <2>1
    <3> QED BY <1>1, <3>1 DEF Meta!Behind
  <2>2. ASSUME NEW j \in DOMAIN s, i + 1 < j, s[j] = x PROVE Meta!Behind(i, x)'
    <3>1. j - 1 \in DOMAIN t /\ i < j - 1 /\ (j - 1) + 1 = j
      BY <1>3, <2>2
    <3>2. t[j - 1] = x
      BY <1>3, <2>2, <3>1
    <3> QED BY <1>2, <3>1, <3>2 DEF Meta!Behind
  <2> QED BY <1>1, <1>2, <2>1, <2>2 DEF Meta!Behind
<1>7. ASSUME NEW x \in Meta!Reqs
      PROVE  (Meta!Sent(x)' => Meta!Behind(1, x)) /\ (Meta!Behind(1, x) => Meta!Sent(x))
  <2>1. ASSUME NEW j \in DOMAIN t, t[j] = x PROVE Meta!Behind(1, x)
    BY <1>1, <1>3, <2>1 DEF Meta!Behind
  <2> QED BY <1>2, <2>1 DEF Meta!Behind, Meta!Sent
<1> QED BY <1>1, <1>2, <1>3, <1>4, <1>5, <1>6, <1>7

\* A Close parts what is behind the next command as it did before.
LEMMA MetaClosesPart ==
  ASSUME Meta!IInv, cmds # <<>>, cmds' = Tail(cmds), UNCHANGED Meta!uiVars
  PROVE  Meta!ClosesPart'
<1>1. Meta!ClosesPart
  BY DEF Meta!IInv, Meta!InOrder
<1>2. \A i \in DOMAIN cmds' : /\ i + 1 \in DOMAIN cmds /\ cmds'[i] = cmds[i + 1]
                              /\ \A x : Meta!Behind(i, x)' <=> Meta!Behind(i + 1, x)
  BY MetaDispatched
<1> QED BY <1>1, <1>2 DEF Meta!ClosesPart, Meta!uiVars

\* Dispatch of a request: there is a new actor only if no actor holds a request
\* of the same connect.
LEMMA MetaDispatchInv ==
  ASSUME Meta!IInv, Meta!Dispatch, Head(cmds) # Meta!Close
  PROVE  Meta!InOrder'
<1> USE MetaConstants
<1>1. MetaUi /\ MetaWays /\ MetaActors /\ Meta!InOrder
  BY MetaTypes DEF Meta!IInv
<1>2. /\ cmds # <<>> /\ cmds' = Tail(cmds) /\ UNCHANGED <<Meta!uiVars, answers, life, req>>
      /\ UNCHANGED <<list, awaited, asked, leaves, kindOf, bornIn>>
  BY DEF Meta!Dispatch, Meta!uiVars
<1>3. PICK r : r = Head(cmds)
  OBVIOUS
<1>4. PICK a : /\ a = (IF entry = 0 \/ (entry # 0 /\ life[entry] = "ended") THEN actors + 1 ELSE entry)
               /\ entry' = a /\ actors' = (IF a > actors THEN a ELSE actors)
               /\ box' = [box EXCEPT ![a] = Append(@, r)]
  BY <1>3 DEF Meta!Dispatch
<1>5. /\ \A x \in Meta!Reqs : /\ x \in Nat /\ x # 0
                              /\ Meta!Sent(x)' => Meta!Sent(x)
                              /\ Meta!Sent(x) => Meta!Sent(x)' \/ x = r
                              /\ Meta!Sent(x)' => r < x
      /\ Meta!Rising(cmds')
      /\ 1 \in DOMAIN cmds /\ cmds[1] = r /\ r \in 0..MaxReqs
  BY <1>2, <1>3, MetaDispatched
<1>6. r \in Meta!Reqs /\ Meta!Sent(r) /\ r \in Nat
  BY <1>3, <1>5 DEF Meta!Close, Meta!Reqs, Meta!Sent
<1>7. actors < r /\ r <= asked /\ \A q \in Meta!Reqs : r < q /\ q <= asked => Meta!Sent(q)
  BY <1>1, <1>6 DEF Meta!InOrder, Meta!NewestSent
<1>8. \A x \in Meta!Reqs : Meta!Told(x) \/ (\E b \in Meta!Actors : Meta!At(b, x)) =>
        x < r /\ x <= asked
  BY <1>1, <1>6 DEF Meta!InOrder, Meta!NewestSent
<1>9. /\ actors \in Nat /\ entry \in 0..actors /\ asked \in Nat
      /\ a \in Meta!Actors /\ actors <= actors' /\ actors' \in Nat /\ a <= actors' /\ actors' <= actors + 1
      /\ (a = actors + 1 /\ (entry = 0 \/ life[entry] = "ended")) \/ (a = entry /\ life[a] # "ended")
  <2>1. actors \in Nat /\ entry \in 0..actors /\ asked \in Nat /\ asked <= MaxReqs
    BY <1>1 DEF MetaWays, MetaUi
  <2>2. actors + 1 <= MaxReqs
    BY <1>6, <1>7, <2>1
  <2>3. CASE a = actors + 1 /\ (entry = 0 \/ life[entry] = "ended")
    <3>1. a \in Meta!Actors
      BY <2>1, <2>2, <2>3 DEF Meta!Actors
    <3>2. actors' = actors + 1
      BY <1>4, <2>1, <2>3
    <3> QED BY <2>1, <2>3, <3>1, <3>2
  <2>4. CASE a = entry /\ entry # 0 /\ life[a] # "ended"
    <3>1. a \in Meta!Actors
      BY <2>1, <2>2, <2>4 DEF Meta!Actors
    <3>2. actors' = actors
      BY <1>4, <2>1, <2>4
    <3> QED BY <2>1, <2>4, <3>1, <3>2
  <2> QED BY <1>4, <2>3, <2>4
<1>10. \A b \in Meta!Actors : b \in Nat /\ b # 0 /\ (Meta!Busy(b)' <=> Meta!Busy(b)) /\ box'[b] = (IF b = a THEN Append(box[a], r) ELSE box[b])
  BY <1>1, <1>2, <1>4 DEF Meta!Busy, MetaWays, Meta!Actors
<1>11. PICK s \in Seq(0..MaxReqs) : s = box[a] /\ box'[a] = Append(s, r)
  BY <1>1, <1>9, <1>10 DEF MetaWays
<1>12. \A x \in Meta!Reqs, b \in Meta!Actors :
         /\ Meta!InBox(b, x)' <=> Meta!InBox(b, x) \/ (b = a /\ x = r)
         /\ Meta!At(b, x)' <=> Meta!At(b, x) \/ (b = a /\ x = r)
  <2>1. \A y : Has(Append(s, r), y) <=> Has(s, y) \/ y = r
    BY <1>5, <1>11, ChannelWritten
  <2>2. ASSUME NEW x \in Meta!Reqs, NEW b \in Meta!Actors
        PROVE  Meta!InBox(b, x)' <=> Meta!InBox(b, x) \/ (b = a /\ x = r)
    <3>1. (Meta!InBox(b, x)' <=> Has(box'[b], x)) /\ (Meta!InBox(b, x) <=> Has(box[b], x))
      BY MetaHas, MetaHasNext
    <3> QED BY <1>10, <1>11, <2>1, <3>1
  <2> QED BY <1>2, <1>10, <2>2 DEF Meta!At
<1>13. \A x : Meta!Told(x)' <=> Meta!Told(x)
  BY <1>2 DEF Meta!Told
<1>14. Meta!NewestSent'
  <2>1. actors' <= asked
    BY <1>6, <1>7, <1>9
  <2>2. ASSUME NEW x \in Meta!Reqs, Meta!Sent(x)'
        PROVE  actors' < x /\ x <= asked /\ \A q \in Meta!Reqs : x < q /\ q <= asked => Meta!Sent(q)'
    <3>1. Meta!Sent(x) /\ r < x
      BY <1>5, <2>2
    <3> QED BY <1>1, <1>5, <1>6, <1>7, <1>9, <3>1 DEF Meta!InOrder, Meta!NewestSent
  <2>3. ASSUME NEW x \in Meta!Reqs, Meta!Told(x)' \/ \E b \in Meta!Actors : Meta!At(b, x)'
        PROVE  x <= asked /\ \A q \in Meta!Reqs : Meta!Sent(q)' => x < q
    <3>1. x = r \/ (x < r /\ x <= asked)
      BY <1>8, <1>12, <1>13, <2>3
    <3> QED BY <1>5, <1>6, <1>7, <3>1
  <2> QED BY <1>2, <1>5, <2>1, <2>2, <2>3 DEF Meta!NewestSent
<1>15. Meta!ClosesPart'
  BY <1>2, MetaClosesPart
<1>16. Meta!Mailboxes'
  <2>1. ASSUME NEW b \in Meta!Actors
        PROVE  /\ Meta!Rising(box'[b])
               /\ Meta!Busy(b)' => req[b] \in Meta!Reqs /\ \A x \in Meta!Reqs : Meta!InBox(b, x)' => req[b] < x
               /\ life[b] = "ended" => box'[b] = <<>>
               /\ b > actors' => life[b] = "waiting" /\ box'[b] = <<>>
    <3>1. /\ Meta!Rising(box[b])
          /\ Meta!Busy(b) => req[b] \in Meta!Reqs /\ \A x \in Meta!Reqs : Meta!InBox(b, x) => req[b] < x
          /\ life[b] = "ended" => box[b] = <<>>
          /\ b > actors => life[b] = "waiting" /\ box[b] = <<>>
      BY <1>1 DEF Meta!InOrder, Meta!Mailboxes
    <3>2. Meta!Rising(box'[b])
      <4>1. CASE b = a
        <5>1. \A y \in 0..MaxReqs : Has(s, y) /\ y # Meta!Close => y < r
          <6>1. ASSUME NEW y \in 0..MaxReqs, Has(s, y), y # Meta!Close PROVE y \in Meta!Reqs /\ Meta!At(a, y)
            BY <1>9, <1>11, <6>1, MetaHas DEF Meta!At, Meta!Reqs, Meta!Close
          <6> QED BY <1>8, <1>9, <6>1
        <5>2. Meta!Rising(s)
          BY <1>11, <3>1, <4>1
        <5>3. Meta!Rising(Append(s, r))
          BY <1>5, <5>1, <5>2, RisingWritten
        <5> QED BY <1>11, <4>1, <5>3
      <4> QED BY <1>10, <3>1, <4>1
    <3>3. ASSUME Meta!Busy(b)' PROVE req[b] \in Meta!Reqs /\ \A x \in Meta!Reqs : Meta!InBox(b, x)' => req[b] < x
      <4>1. Meta!Busy(b) /\ req[b] \in Meta!Reqs /\ Meta!At(b, req[b])
        BY <1>10, <3>1, <3>3 DEF Meta!At
      <4> QED BY <1>8, <1>12, <3>1, <4>1
    <3>4. (life[b] = "ended" \/ b > actors') => b # a /\ (b > actors' => b > actors)
      <4>1. CASE a = actors + 1
        <5>1. life[a] = "waiting"
          BY <1>1, <1>9, <4>1 DEF Meta!InOrder, Meta!Mailboxes
        <5> QED BY <1>9, <1>10, <4>1, <5>1
      <4> QED BY <1>9, <1>10, <4>1
    <3> QED BY <1>10, <3>1, <3>2, <3>3, <3>4
  <2>2. ASSUME NEW b \in Meta!Actors, NEW c \in Meta!Actors, NEW x \in Meta!Reqs, Meta!At(b, x)', Meta!At(c, x)'
        PROVE  b = c
    <3>1. x = r => ~Meta!At(b, x) /\ ~Meta!At(c, x)
      BY <1>6, <1>8
    <3> QED BY <1>1, <1>12, <2>2, <3>1 DEF Meta!InOrder, Meta!Mailboxes
  <2>3. ASSUME NEW b \in Meta!Actors, NEW x \in Meta!Reqs, Meta!At(b, x)' PROVE ~Meta!Told(x)
    <3>1. x = r => ~Meta!Told(x)
      BY <1>6, <1>8
    <3> QED BY <1>1, <1>12, <2>3, <3>1 DEF Meta!InOrder, Meta!Mailboxes
  <2> QED BY <1>2, <1>13, <2>1, <2>2, <2>3 DEF Meta!Mailboxes
<1>17. Meta!Queues'
  <2> SUFFICES ASSUME NEW b \in Meta!Actors, NEW x \in Meta!Reqs, Meta!At(b, x)'
               PROVE  /\ bornIn[x] = leaves => a = b
                      /\ \A q \in Meta!Reqs : x < q /\ q <= asked /\ bornIn[q] = bornIn[x] =>
                            Meta!InBox(b, q)' \/ (Meta!Sent(q)' /\ a = b)
    BY <1>2, <1>4 DEF Meta!Queues
  <2>1. CASE b = a /\ x = r
    <3>1. ASSUME NEW q \in Meta!Reqs, r < q, q <= asked PROVE Meta!Sent(q)'
      BY <1>5, <1>6, <1>7, <3>1
    <3> QED BY <2>1, <3>1
  <2>2. CASE Meta!At(b, x)
    <3>1. entry = b => a = b
      <4>1. life[b] # "ended"
        <5>1. life[b] = "ended" => ~Meta!Busy(b) /\ box[b] = <<>>
          BY <1>1 DEF Meta!InOrder, Meta!Mailboxes, Meta!Busy
        <5>2. box[b] = <<>> => ~Meta!InBox(b, x)
          BY EmptySeq DEF Meta!InBox
        <5> QED BY <2>2, <5>1, <5>2 DEF Meta!At
      <4> QED BY <1>9, <1>10, <4>1
    <3>2. /\ bornIn[x] = leaves => entry = b
          /\ \A q \in Meta!Reqs : x < q /\ q <= asked /\ bornIn[q] = bornIn[x] =>
                Meta!InBox(b, q) \/ (Meta!Sent(q) /\ entry = b)
      BY <1>1, <2>2 DEF Meta!InOrder, Meta!Queues
    <3>3. ASSUME NEW q \in Meta!Reqs, Meta!Sent(q), a = b PROVE Meta!InBox(b, q)' \/ Meta!Sent(q)'
      BY <1>5, <1>12, <3>3
    <3> QED BY <1>12, <3>1, <3>2, <3>3
  <2> QED BY <1>12, <2>1, <2>2
<1>18. \A x \in Meta!Reqs : Meta!OnItsWay(x)' => Meta!OnItsWay(x)
  BY <1>5, <1>6, <1>12, <1>13 DEF Meta!OnItsWay
<1>19. Meta!AnswersInOrder' /\ Meta!LaterAwaited' /\ Meta!LatestShown'
  BY <1>2, <1>18, MetaOnward
<1> QED BY <1>14, <1>15, <1>16, <1>17, <1>19 DEF Meta!InOrder

\* Dispatch of a Close: the requests behind it are of another connect.
LEMMA MetaCloseInv ==
  ASSUME Meta!IInv, Meta!Dispatch, Head(cmds) = Meta!Close
  PROVE  Meta!InOrder'
<1> USE MetaConstants
<1>1. MetaUi /\ MetaWays /\ MetaActors /\ Meta!InOrder
  BY MetaTypes DEF Meta!IInv
<1>2. /\ cmds # <<>> /\ cmds' = Tail(cmds) /\ UNCHANGED <<Meta!uiVars, answers, life, req>>
      /\ UNCHANGED <<list, awaited, asked, leaves, kindOf, bornIn>>
      /\ entry' = 0 /\ actors' = actors
  BY DEF Meta!Dispatch, Meta!uiVars
<1>3. \/ box' = box
      \/ entry # 0 /\ life[entry] # "ended" /\ box' = [box EXCEPT ![entry] = Append(@, Meta!Close)]
  BY DEF Meta!Dispatch
<1>4. /\ \A x \in Meta!Reqs : /\ x \in Nat /\ x # 0
                              /\ Meta!Sent(x)' => Meta!Sent(x)
                              /\ Meta!Sent(x) => Meta!Sent(x)'
                              /\ Meta!Sent(x) => Meta!Behind(1, x)
                              /\ Meta!Behind(1, x) => Meta!Sent(x)
      /\ Meta!Rising(cmds')
      /\ 1 \in DOMAIN cmds /\ cmds[1] = Meta!Close
  <2>1. \A x \in Meta!Reqs : Meta!Sent(x) => Meta!Sent(x)'
    BY <1>2, MetaDispatched DEF Meta!Close
  <2> QED BY <1>2, <2>1, MetaDispatched
<1>5. /\ actors \in Nat /\ entry \in 0..actors
      /\ \A b \in Meta!Actors : b \in Nat /\ b # 0 /\ (Meta!Busy(b)' <=> Meta!Busy(b))
  BY <1>1, <1>2 DEF MetaWays, Meta!Actors, Meta!Busy
<1>6. ASSUME NEW b \in Meta!Actors
      PROVE  \/ box'[b] = box[b]
             \/ entry = b /\ life[b] # "ended" /\ box'[b] = Append(box[b], 0)
  BY <1>1, <1>3 DEF MetaWays, Meta!Close
<1>7. ASSUME NEW b \in Meta!Actors
      PROVE  /\ Meta!Rising(box'[b])
             /\ \A x \in Meta!Reqs : Meta!InBox(b, x)' <=> Meta!InBox(b, x)
  <2>1. PICK s \in Seq(0..MaxReqs) : s = box[b] /\ Meta!Rising(s)
    BY <1>1 DEF MetaWays, Meta!InOrder, Meta!Mailboxes
  <2>2. CASE box'[b] = box[b]
    BY <2>1, <2>2 DEF Meta!InBox
  <2>3. CASE box'[b] = Append(box[b], 0)
    <3>1. Meta!Rising(Append(s, 0))
      BY <2>1, RisingWritten DEF Meta!Close
    <3>2. \A y : Has(Append(s, 0), y) <=> Has(s, y) \/ y = 0
      BY ChannelWritten
    <3>3. \A x : (Meta!InBox(b, x)' <=> Has(box'[b], x)) /\ (Meta!InBox(b, x) <=> Has(box[b], x))
      BY MetaHas, MetaHasNext
    <3> QED BY <1>4, <2>1, <2>3, <3>1, <3>2, <3>3
  <2> QED BY <1>6, <2>2, <2>3
<1>8. \A x \in Meta!Reqs, b \in Meta!Actors : Meta!At(b, x)' <=> Meta!At(b, x)
  BY <1>2, <1>5, <1>7 DEF Meta!At
<1>9. \A x : Meta!Told(x)' <=> Meta!Told(x)
  BY <1>2 DEF Meta!Told
<1>10. Meta!NewestSent'
  BY <1>1, <1>2, <1>4, <1>8, <1>9 DEF Meta!InOrder, Meta!NewestSent
<1>11. Meta!ClosesPart'
  BY <1>2, MetaClosesPart
<1>12. Meta!Mailboxes'
  <2>1. ASSUME NEW b \in Meta!Actors
        PROVE  /\ Meta!Rising(box'[b])
               /\ Meta!Busy(b)' => req[b] \in Meta!Reqs /\ \A x \in Meta!Reqs : Meta!InBox(b, x)' => req[b] < x
               /\ life[b] = "ended" => box'[b] = <<>>
               /\ b > actors => life[b] = "waiting" /\ box'[b] = <<>>
    <3>1. /\ Meta!Busy(b) => req[b] \in Meta!Reqs /\ \A x \in Meta!Reqs : Meta!InBox(b, x) => req[b] < x
          /\ life[b] = "ended" => box[b] = <<>>
          /\ b > actors => life[b] = "waiting" /\ box[b] = <<>>
      BY <1>1 DEF Meta!InOrder, Meta!Mailboxes
    <3>2. life[b] = "ended" \/ b > actors => box'[b] = box[b]
      BY <1>5, <1>6
    <3> QED BY <1>5, <1>7, <3>1, <3>2
  <2> QED BY <1>1, <1>2, <1>8, <1>9, <2>1 DEF Meta!InOrder, Meta!Mailboxes
<1>13. Meta!Queues'
  <2> SUFFICES ASSUME NEW b \in Meta!Actors, NEW x \in Meta!Reqs, Meta!At(b, x)
               PROVE  /\ bornIn[x] # leaves
                      /\ \A q \in Meta!Reqs : x < q /\ q <= asked /\ bornIn[q] = bornIn[x] => Meta!InBox(b, q)'
    BY <1>2, <1>8 DEF Meta!Queues
  <2>1. x <= asked /\ ~Meta!Sent(x)
    BY <1>1, <1>4 DEF Meta!InOrder, Meta!NewestSent
  <2>2. bornIn[x] < leaves /\ \A q \in Meta!Reqs : Meta!Behind(1, q) => bornIn[x] < bornIn[q]
    BY <1>1, <1>4, <2>1 DEF Meta!InOrder, Meta!ClosesPart
  <2>3. leaves \in Nat /\ \A q \in Meta!Reqs : bornIn[q] \in Nat
    BY <1>1 DEF MetaUi
  <2>4. ASSUME NEW q \in Meta!Reqs, x < q, q <= asked, bornIn[q] = bornIn[x] PROVE Meta!InBox(b, q)
    <3>1. ~Meta!Sent(q)
      BY <1>4, <2>2, <2>3, <2>4
    <3> QED BY <1>1, <2>4, <3>1 DEF Meta!InOrder, Meta!Queues
  <2> QED BY <1>7, <2>2, <2>3, <2>4
<1>14. \A x \in Meta!Reqs : Meta!OnItsWay(x)' => Meta!OnItsWay(x)
  BY <1>4, <1>8, <1>9 DEF Meta!OnItsWay
<1>15. Meta!AnswersInOrder' /\ Meta!LaterAwaited' /\ Meta!LatestShown'
  BY <1>2, <1>14, MetaOnward
<1> QED BY <1>10, <1>11, <1>12, <1>13, <1>15 DEF Meta!InOrder
\* Receive: the actor holds what it held.
LEMMA MetaReceiveInv ==
  ASSUME Meta!IInv, NEW a \in Meta!Actors, Meta!Receive(a)
  PROVE  Meta!InOrder'
<1> USE MetaConstants
<1>1. MetaUi /\ MetaWays /\ MetaActors /\ Meta!InOrder
  BY MetaTypes DEF Meta!IInv
<1>2. /\ UNCHANGED <<Meta!uiVars, answers, cmds, entry, actors>>
      /\ UNCHANGED <<list, awaited, asked, leaves, kindOf, bornIn>>
      /\ life[a] = "waiting" /\ box[a] # <<>> /\ box' = [box EXCEPT ![a] = Tail(@)]
  BY DEF Meta!Receive, Meta!notActor, Meta!uiVars
<1>3. PICK s \in Seq(0..MaxReqs) : s = box[a] /\ s # <<>>
  BY <1>1, <1>2 DEF MetaWays
<1>4. PICK y : y = Head(s)
  OBVIOUS
<1>5. \/ y = Meta!Close /\ life' = [life EXCEPT ![a] = "ending"] /\ req' = req
      \/ y # Meta!Close /\ life' = [life EXCEPT ![a] = "looking"] /\ req' = [req EXCEPT ![a] = y]
  BY <1>3, <1>4 DEF Meta!Receive
<1>6. \A b \in Meta!Actors :
        /\ b # a => box'[b] = box[b] /\ life'[b] = life[b] /\ req'[b] = req[b] /\ (Meta!Busy(b)' <=> Meta!Busy(b))
        /\ b = a => box'[b] = Tail(s)
  BY <1>1, <1>2, <1>3, <1>5 DEF Meta!Busy, MetaWays, MetaActors
<1>7. /\ ~Meta!Busy(a)
      /\ life'[a] # "ended" /\ (y = Meta!Close => ~Meta!Busy(a)')
      /\ y # Meta!Close => Meta!Busy(a)' /\ req'[a] = y
  BY <1>1, <1>2, <1>5 DEF Meta!Busy, MetaActors
<1>8. /\ Tail(s) \in Seq(0..MaxReqs) /\ y \in 0..MaxReqs
      /\ \A x : Has(s, x) <=> x = y \/ Has(Tail(s), x)
  BY <1>3, <1>4, ChannelRead
<1>9. /\ Meta!Rising(Tail(s))
      /\ y # Meta!Close => \A x \in 0..MaxReqs : Has(Tail(s), x) /\ x # Meta!Close => y < x
  <2>1. Meta!Rising(s)
    BY <1>1, <1>3 DEF Meta!InOrder, Meta!Mailboxes
  <2> QED BY <1>3, <1>4, <2>1, RisingRead
<1>10. ASSUME NEW x \in Meta!Reqs
       PROVE  /\ x \in Nat /\ x # Meta!Close
              /\ Meta!InBox(a, x)' => Meta!InBox(a, x) /\ (y # Meta!Close => y < x)
              /\ Meta!InBox(a, x) => Meta!InBox(a, x)' \/ x = y
              /\ y = x => Meta!InBox(a, x)
  <2>1. x \in Nat /\ x # Meta!Close /\ x \in 0..MaxReqs
    BY DEF Meta!Reqs, Meta!Close
  <2>2. (Meta!InBox(a, x) <=> Has(s, x)) /\ (Meta!InBox(a, x)' <=> Has(Tail(s), x))
    BY <1>3, <1>6, MetaHas, MetaHasNext
  <2> QED BY <1>8, <1>9, <2>1, <2>2
<1>11. ASSUME NEW x \in Meta!Reqs, NEW b \in Meta!Actors
       PROVE  /\ Meta!At(b, x)' <=> Meta!At(b, x)
              /\ b # a => (Meta!InBox(b, x)' <=> Meta!InBox(b, x))
  <2>1. CASE b = a
    <3>1. Meta!At(a, x) <=> Meta!InBox(a, x)
      BY <1>7 DEF Meta!At
    <3>2. Meta!At(a, x)' <=> Meta!InBox(a, x)' \/ x = y
      BY <1>7, <1>10 DEF Meta!At
    <3> QED BY <1>10, <2>1, <3>1, <3>2
  <2>2. CASE b # a
    BY <1>6, <2>2 DEF Meta!At, Meta!InBox
  <2> QED BY <2>1, <2>2
<1>12. \A x : (Meta!Sent(x)' <=> Meta!Sent(x)) /\ (Meta!Told(x)' <=> Meta!Told(x))
  BY <1>2 DEF Meta!Sent, Meta!Told
<1>13. Meta!NewestSent'
  BY <1>1, <1>2, <1>11, <1>12 DEF Meta!InOrder, Meta!NewestSent, Meta!Rising
<1>14. Meta!ClosesPart'
  BY <1>1, <1>2 DEF Meta!InOrder, Meta!ClosesPart, Meta!Behind
<1>15. Meta!Mailboxes'
  <2>1. ASSUME NEW b \in Meta!Actors
        PROVE  /\ Meta!Rising(box'[b])
               /\ Meta!Busy(b)' => req'[b] \in Meta!Reqs /\ \A x \in Meta!Reqs : Meta!InBox(b, x)' => req'[b] < x
               /\ life'[b] = "ended" => box'[b] = <<>>
               /\ b > actors => life'[b] = "waiting" /\ box'[b] = <<>>
    <3>1. /\ Meta!Rising(box[b])
          /\ Meta!Busy(b) => req[b] \in Meta!Reqs /\ \A x \in Meta!Reqs : Meta!InBox(b, x) => req[b] < x
          /\ life[b] = "ended" => box[b] = <<>>
          /\ b > actors => life[b] = "waiting" /\ box[b] = <<>>
      BY <1>1 DEF Meta!InOrder, Meta!Mailboxes
    <3>2. CASE b = a
      <4>1. ~(b > actors)
        BY <1>2, <3>1, <3>2
      <4>2. y # Meta!Close => y \in Meta!Reqs
        BY <1>8 DEF Meta!Reqs, Meta!Close
      <4> QED BY <1>6, <1>7, <1>9, <1>10, <3>2, <4>1, <4>2
    <3>3. CASE b # a
      BY <1>6, <1>11, <3>1, <3>3
    <3> QED BY <3>2, <3>3
  <2> QED BY <1>1, <1>2, <1>11, <1>12, <2>1 DEF Meta!InOrder, Meta!Mailboxes
<1>16. Meta!Queues'
  <2> SUFFICES ASSUME NEW b \in Meta!Actors, NEW x \in Meta!Reqs, Meta!At(b, x)
               PROVE  /\ bornIn[x] = leaves => entry = b
                      /\ \A q \in Meta!Reqs : x < q /\ q <= asked /\ bornIn[q] = bornIn[x] =>
                            Meta!InBox(b, q)' \/ (Meta!Sent(q) /\ entry = b)
    BY <1>2, <1>11, <1>12 DEF Meta!Queues
  <2>1. /\ bornIn[x] = leaves => entry = b
        /\ \A q \in Meta!Reqs : x < q /\ q <= asked /\ bornIn[q] = bornIn[x] =>
              Meta!InBox(b, q) \/ (Meta!Sent(q) /\ entry = b)
    BY <1>1 DEF Meta!InOrder, Meta!Queues
  <2>2. ASSUME NEW q \in Meta!Reqs, x < q, Meta!InBox(b, q) PROVE Meta!InBox(b, q)'
    <3>1. CASE b = a
      <4>1. Meta!InBox(a, x)
        BY <1>7, <3>1 DEF Meta!At
      <4>2. q # y
        BY <1>10, <2>2, <4>1
      <4> QED BY <1>10, <2>2, <3>1, <4>2
    <3> QED BY <1>11, <2>2, <3>1
  <2> QED BY <2>1, <2>2
<1>17. \A x \in Meta!Reqs : Meta!OnItsWay(x)' => Meta!OnItsWay(x)
  BY <1>11, <1>12 DEF Meta!OnItsWay
<1>18. Meta!AnswersInOrder' /\ Meta!LaterAwaited' /\ Meta!LatestShown'
  BY <1>2, <1>17, MetaOnward
<1> QED BY <1>13, <1>14, <1>15, <1>16, <1>18 DEF Meta!InOrder

\* Tell: no later request of the same connect has been answered.
LEMMA MetaTellInv ==
  ASSUME Meta!IInv, NEW a \in Meta!Actors, Meta!Tell(a)
  PROVE  Meta!InOrder'
<1> USE MetaConstants
<1>1. MetaUi /\ MetaWays /\ MetaActors /\ Meta!InOrder
  BY MetaTypes DEF Meta!IInv
<1>2. /\ UNCHANGED <<Meta!uiVars, cmds, entry, actors, box, req>>
      /\ UNCHANGED <<list, awaited, asked, leaves, kindOf, bornIn>>
      /\ life[a] = "telling" /\ answers' = Append(answers, [req |-> req[a], ok |-> ok[a]])
      /\ life' = [life EXCEPT ![a] = "ending"] \/ life' = [life EXCEPT ![a] = "waiting"]
  BY DEF Meta!Tell, Meta!notActor, Meta!uiVars
<1>3. \A b \in Meta!Actors : (b # a => life'[b] = life[b]) /\ (Meta!Busy(b)' <=> Meta!Busy(b) /\ b # a)
  BY <1>1, <1>2 DEF Meta!Busy, MetaActors
<1>4. Meta!Busy(a) /\ life'[a] # "ended"
  BY <1>1, <1>2 DEF Meta!Busy, MetaActors
<1>5. PICK y \in Meta!Reqs : y = req[a] /\ Meta!At(a, y) /\ ~Meta!InBox(a, y) /\ y \in Nat
  <2>1. req[a] \in Meta!Reqs /\ \A x \in Meta!Reqs : Meta!InBox(a, x) => req[a] < x
    BY <1>1, <1>4 DEF Meta!InOrder, Meta!Mailboxes
  <2> QED BY <1>4, <2>1 DEF Meta!At, Meta!Reqs
<1>6. PICK s \in Seq([req : Meta!Reqs, ok : BOOLEAN]) : s = answers
  BY <1>1 DEF MetaWays
<1>7. PICK z \in [req : Meta!Reqs, ok : BOOLEAN] : z = [req |-> req[a], ok |-> ok[a]] /\ z.req = y
  <2>1. ok[a] \in BOOLEAN
    BY <1>1, Zenon DEF MetaActors
  <2>2. PICK o \in BOOLEAN : o = ok[a]
    BY <2>1
  <2>3. [req |-> y, ok |-> o] \in [req : Meta!Reqs, ok : BOOLEAN] /\ [req |-> y, ok |-> o].req = y
    OBVIOUS
  <2>4. [req |-> y, ok |-> o] = [req |-> req[a], ok |-> ok[a]]
    BY <1>5, <2>2
  <2> QED BY <2>3, <2>4
<1>8. PICK t : t = Append(s, z) /\ t = answers'
  BY <1>2, <1>6, <1>7
<1>9. /\ DOMAIN t = 1..(Len(s) + 1) /\ Len(s) \in Nat /\ DOMAIN s = 1..Len(s)
      /\ t[Len(s) + 1] = z /\ \A i \in DOMAIN s : t[i] = s[i] /\ i < Len(s) + 1
  <2>1. PICK T : T = [req : Meta!Reqs, ok : BOOLEAN]
    OBVIOUS
  <2>2. s \in Seq(T) /\ z \in T
    BY <2>1
  <2> HIDE <2>1
  <2>3. /\ DOMAIN Append(s, z) = 1..(Len(s) + 1) /\ Len(s) \in Nat /\ DOMAIN s = 1..Len(s)
        /\ Append(s, z)[Len(s) + 1] = z /\ \A i \in DOMAIN s : Append(s, z)[i] = s[i] /\ i < Len(s) + 1
    BY <2>2, ChannelWritten
  <2> QED BY <1>8, <2>3
<1>10. \A x : Meta!Told(x)' <=> Meta!Told(x) \/ x = y
  <2>1. ASSUME NEW x, NEW i \in DOMAIN t, t[i].req = x PROVE Meta!Told(x) \/ x = y
    <3>1. CASE i \in DOMAIN s
      BY <1>6, <1>9, <2>1, <3>1 DEF Meta!Told
    <3>2. CASE i \notin DOMAIN s
      <4>1. i = Len(s) + 1
        BY <1>9, <3>2
      <4> QED BY <1>7, <1>9, <2>1, <4>1
    <3> QED BY <3>1, <3>2
  <2>2. ASSUME NEW x, NEW i \in DOMAIN s, s[i].req = x PROVE Meta!Told(x)'
    <3>1. i \in DOMAIN t /\ t[i] = s[i]
      BY <1>9, <2>2
    <3> QED BY <1>8, <2>2, <3>1 DEF Meta!Told
  <2>3. Meta!Told(y)'
    <3>1. Len(s) + 1 \in DOMAIN t
      BY <1>9
    <3> QED BY <1>7, <1>8, <1>9, <3>1 DEF Meta!Told
  <2> QED BY <1>6, <1>8, <2>1, <2>2, <2>3 DEF Meta!Told
<1>11. \A x : /\ Meta!Sent(x)' <=> Meta!Sent(x)
              /\ \A b \in Meta!Actors : Meta!InBox(b, x)' <=> Meta!InBox(b, x)
  BY <1>2 DEF Meta!Sent, Meta!InBox
<1>12. \A x, b : b \in Meta!Actors => /\ Meta!At(b, x)' => Meta!At(b, x)
                                      /\ ~(Meta!At(b, x)' /\ x = y /\ b = a)
  BY <1>2, <1>3, <1>5, <1>11 DEF Meta!At
<1>13. Meta!NewestSent'
  <2>1. ASSUME NEW x \in Meta!Reqs, Meta!Told(x)' \/ \E b \in Meta!Actors : Meta!At(b, x)'
        PROVE  x <= asked /\ \A q \in Meta!Reqs : Meta!Sent(q) => x < q
    <3>1. Meta!Told(x) \/ \E b \in Meta!Actors : Meta!At(b, x)
      BY <1>5, <1>10, <1>12, <2>1
    <3> QED BY <1>1, <3>1 DEF Meta!InOrder, Meta!NewestSent
  <2> QED BY <1>1, <1>2, <1>11, <2>1 DEF Meta!InOrder, Meta!NewestSent, Meta!Rising
<1>14. Meta!ClosesPart'
  BY <1>1, <1>2 DEF Meta!InOrder, Meta!ClosesPart, Meta!Behind
<1>15. Meta!Mailboxes'
  <2>1. ASSUME NEW b \in Meta!Actors
        PROVE  /\ Meta!Rising(box[b])
               /\ Meta!Busy(b)' => req[b] \in Meta!Reqs /\ \A x \in Meta!Reqs : Meta!InBox(b, x) => req[b] < x
               /\ life'[b] = "ended" => box[b] = <<>>
               /\ b > actors => life'[b] = "waiting" /\ box[b] = <<>>
    <3>1. /\ Meta!Rising(box[b])
          /\ Meta!Busy(b) => req[b] \in Meta!Reqs /\ \A x \in Meta!Reqs : Meta!InBox(b, x) => req[b] < x
          /\ life[b] = "ended" => box[b] = <<>>
          /\ b > actors => life[b] = "waiting" /\ box[b] = <<>>
      BY <1>1 DEF Meta!InOrder, Meta!Mailboxes
    <3>2. b = a => ~(b > actors)
      BY <1>2, <3>1
    <3> QED BY <1>3, <1>4, <3>1, <3>2
  <2>2. ASSUME NEW b \in Meta!Actors, NEW x \in Meta!Reqs, Meta!At(b, x)' PROVE ~Meta!Told(x)'
    <3>1. Meta!At(b, x) /\ ~Meta!Told(x)
      BY <1>1, <1>12, <2>2 DEF Meta!InOrder, Meta!Mailboxes
    <3>2. x # y
      BY <1>1, <1>5, <1>12, <2>2, <3>1 DEF Meta!InOrder, Meta!Mailboxes
    <3> QED BY <1>10, <3>1, <3>2
  <2>3. ASSUME NEW b \in Meta!Actors, NEW c \in Meta!Actors, NEW x \in Meta!Reqs, Meta!At(b, x)', Meta!At(c, x)'
        PROVE  b = c
    BY <1>1, <1>12, <2>3 DEF Meta!InOrder, Meta!Mailboxes
  <2> QED BY <1>2, <1>11, <2>1, <2>2, <2>3 DEF Meta!Mailboxes
<1>16. Meta!Queues'
  BY <1>1, <1>2, <1>11, <1>12 DEF Meta!InOrder, Meta!Queues
<1>17. Meta!AnswersInOrder'
  <2>1. ASSUME NEW i \in DOMAIN s, bornIn[s[i].req] = bornIn[y] PROVE s[i].req <= y
    <3>1. PICK x \in Meta!Reqs : x = s[i].req /\ Meta!Told(x) /\ x \in Nat
      <4>1. s[i] \in [req : Meta!Reqs, ok : BOOLEAN]
        BY <1>9, ElementOfSeq
      <4>2. s[i].req \in Meta!Reqs /\ Meta!Told(s[i].req)
        BY <1>6, <4>1 DEF Meta!Told
      <4> QED BY <4>2 DEF Meta!Reqs
    <3>2. x <= asked /\ ~Meta!Sent(x)
      BY <1>1, <3>1 DEF Meta!InOrder, Meta!NewestSent
    <3>3. ~Meta!InBox(a, x)
      BY <1>1, <3>1 DEF Meta!InOrder, Meta!Mailboxes, Meta!At
    <3>4. ~(y < x)
      BY <1>1, <1>5, <2>1, <3>1, <3>2, <3>3 DEF Meta!InOrder, Meta!Queues
    <3> QED BY <1>5, <3>1, <3>4
  <2> SUFFICES ASSUME NEW i \in DOMAIN t, NEW j \in DOMAIN t, i < j, bornIn[t[i].req] = bornIn[t[j].req]
               PROVE  t[i].req <= t[j].req
    BY <1>2, <1>8 DEF Meta!AnswersInOrder
  <2>2. i \in DOMAIN s
    BY <1>9
  <2>3. CASE j \in DOMAIN s
    BY <1>1, <1>6, <1>9, <2>2, <2>3 DEF Meta!InOrder, Meta!AnswersInOrder
  <2>4. CASE j \notin DOMAIN s
    <3>1. j = Len(s) + 1
      BY <1>9, <2>4
    <3> QED BY <1>7, <1>9, <2>1, <2>2, <3>1
  <2> QED BY <2>3, <2>4
<1>18. Meta!LaterAwaited'
  <2>1. \A x : Meta!OnItsWay(x)' => Meta!OnItsWay(x)
    BY <1>5, <1>10, <1>11, <1>12 DEF Meta!OnItsWay
  <2> QED BY <1>1, <1>2, <2>1 DEF Meta!InOrder, Meta!LaterAwaited
<1>19. Meta!LatestShown'
  BY <1>1, <1>2 DEF Meta!InOrder, Meta!LatestShown
<1> QED BY <1>13, <1>14, <1>15, <1>16, <1>17, <1>18, <1>19 DEF Meta!InOrder

\* End: what the actor held is nowhere.
LEMMA MetaEndInv ==
  ASSUME Meta!IInv, NEW a \in Meta!Actors, Meta!End(a)
  PROVE  Meta!InOrder'
<1> USE MetaConstants
<1>1. MetaUi /\ MetaWays /\ MetaActors /\ Meta!InOrder
  BY MetaTypes DEF Meta!IInv
<1>2. /\ UNCHANGED <<Meta!uiVars, answers, cmds, entry, actors, req>>
      /\ UNCHANGED <<list, awaited, asked, leaves, kindOf, bornIn>>
      /\ life[a] = "ending" /\ life' = [life EXCEPT ![a] = "ended"] /\ box' = [box EXCEPT ![a] = <<>>]
  BY DEF Meta!End, Meta!notActor, Meta!uiVars
<1>3. \A b \in Meta!Actors :
        /\ b # a => box'[b] = box[b] /\ life'[b] = life[b]
        /\ b = a => box'[b] = <<>>
        /\ Meta!Busy(b)' <=> Meta!Busy(b)
  BY <1>1, <1>2 DEF Meta!Busy, MetaWays, MetaActors
<1>4. \A x : ~Meta!InBox(a, x)' /\ ~Meta!At(a, x)'
  <2>1. \A x : ~Meta!InBox(a, x)'
    BY <1>3, EmptySeq DEF Meta!InBox
  <2>2. ~Meta!Busy(a)'
    BY <1>2, <1>3 DEF Meta!Busy
  <2> QED BY <2>1, <2>2 DEF Meta!At
<1>5. \A x, b : b \in Meta!Actors /\ b # a =>
        (Meta!InBox(b, x)' <=> Meta!InBox(b, x)) /\ (Meta!At(b, x)' <=> Meta!At(b, x))
  BY <1>2, <1>3 DEF Meta!InBox, Meta!At
<1>6. \A x : (Meta!Sent(x)' <=> Meta!Sent(x)) /\ (Meta!Told(x)' <=> Meta!Told(x))
  BY <1>2 DEF Meta!Sent, Meta!Told
<1>7. Meta!NewestSent'
  BY <1>1, <1>2, <1>4, <1>5, <1>6 DEF Meta!InOrder, Meta!NewestSent, Meta!Rising
<1>8. Meta!ClosesPart'
  BY <1>1, <1>2 DEF Meta!InOrder, Meta!ClosesPart, Meta!Behind
<1>9. Meta!Mailboxes'
  <2>1. ASSUME NEW b \in Meta!Actors
        PROVE  /\ Meta!Rising(box'[b])
               /\ Meta!Busy(b)' => req[b] \in Meta!Reqs /\ \A x \in Meta!Reqs : Meta!InBox(b, x)' => req[b] < x
               /\ life'[b] = "ended" => box'[b] = <<>>
               /\ b > actors => life'[b] = "waiting" /\ box'[b] = <<>>
    <3>1. /\ Meta!Rising(box[b])
          /\ Meta!Busy(b) => req[b] \in Meta!Reqs /\ \A x \in Meta!Reqs : Meta!InBox(b, x) => req[b] < x
          /\ life[b] = "ended" => box[b] = <<>>
          /\ b > actors => life[b] = "waiting" /\ box[b] = <<>>
      BY <1>1 DEF Meta!InOrder, Meta!Mailboxes
    <3>2. CASE b = a
      <4>1. ~(b > actors) /\ ~Meta!Busy(b)'
        BY <1>2, <1>3, <3>1, <3>2 DEF Meta!Busy
      <4>2. Meta!Rising(box'[b])
        BY <1>3, <3>2, EmptySeq DEF Meta!Rising
      <4> QED BY <1>3, <3>2, <4>1, <4>2
    <3>3. CASE b # a
      BY <1>3, <1>5, <3>1, <3>3
    <3> QED BY <3>2, <3>3
  <2> QED BY <1>1, <1>2, <1>4, <1>5, <1>6, <2>1 DEF Meta!InOrder, Meta!Mailboxes
<1>10. Meta!Queues'
  BY <1>1, <1>2, <1>4, <1>5, <1>6 DEF Meta!InOrder, Meta!Queues
<1>11. \A x \in Meta!Reqs : Meta!OnItsWay(x)' => Meta!OnItsWay(x)
  BY <1>4, <1>5, <1>6 DEF Meta!OnItsWay
<1>12. Meta!AnswersInOrder' /\ Meta!LaterAwaited' /\ Meta!LatestShown'
  BY <1>2, <1>11, MetaOnward
<1> QED BY <1>7, <1>8, <1>9, <1>10, <1>12 DEF Meta!InOrder

LEMMA MetaStepInv == Meta!IInv /\ Meta!Next => Meta!IInv'
<1> SUFFICES ASSUME Meta!IInv, Meta!Next PROVE Meta!InOrder'
  BY MetaTypesKept DEF Meta!IInv
<1>1. Meta!InOrder /\ MetaActors
  BY MetaTypes DEF Meta!IInv
<1>2. CASE Meta!ConnectServer
  BY <1>1, <1>2, MetaQuiet DEF Meta!ConnectServer, Meta!actorVars
<1>3. CASE Meta!SignedIn
  BY <1>3, MetaKinds, MetaRequestInv DEF Meta!SignedIn
<1>4. CASE Meta!SignInFails
  BY <1>1, <1>4, MetaQuiet DEF Meta!SignInFails, Meta!actorVars
<1>5. CASE Meta!Refresh
  BY <1>5, MetaKinds, MetaRequestInv DEF Meta!Refresh
<1>6. CASE Meta!DisconnectServer
  BY <1>6, MetaDisconnectInv
<1>7. CASE Meta!Reads
  BY <1>7, MetaReadInv
<1>8. CASE Meta!Dispatch
  BY <1>8, MetaDispatchInv, MetaCloseInv
<1>9. ASSUME NEW a \in Meta!Actors, Meta!Works(a) \/ Meta!Dies(a)
      PROVE  Meta!InOrder'
  <2>1. CASE Meta!Receive(a)
    BY <2>1, MetaReceiveInv
  <2>2. CASE Meta!Tell(a)
    BY <2>2, MetaTellInv
  <2>3. CASE Meta!End(a)
    BY <2>3, MetaEndInv
  <2>4. CASE Meta!Forget(a) \/ Meta!Open(a) \/ Meta!Reuse(a) \/ Meta!Served(a) \/ Meta!Disconnected(a) \/ Meta!Dies(a)
    <3>1. /\ UNCHANGED <<Meta!uiVars, cmds, entry, actors, answers, box, req>>
          /\ \/ life' = life
             \/ life[a] \in {"looking", "serving"} /\ \E l \in {"looking", "serving", "telling"} : life' = [life EXCEPT ![a] = l]
      <4>1. CASE Meta!Forget(a)
        BY <4>1 DEF Meta!Forget, Meta!notActor
      <4>2. CASE Meta!Open(a)
        BY <4>2 DEF Meta!Open, Meta!notActor, Meta!Answer
      <4>3. CASE Meta!Reuse(a)
        BY <4>3 DEF Meta!Reuse, Meta!notActor
      <4>4. CASE Meta!Served(a)
        BY <4>4 DEF Meta!Served, Meta!notActor, Meta!Answer
      <4>5. CASE Meta!Disconnected(a)
        BY <4>5 DEF Meta!Disconnected, Meta!notActor, Meta!Answer
      <4>6. CASE Meta!Dies(a)
        BY <4>6 DEF Meta!Dies, Meta!notActor
      <4> QED BY <2>4, <4>1, <4>2, <4>3, <4>4, <4>5, <4>6
    <3>2. \A b \in Meta!Actors : life'[b] = life[b] \/ (Meta!Busy(b) /\ life'[b] \in {"looking", "serving", "telling"})
      BY <1>1, <3>1 DEF Meta!Busy, MetaActors
    <3> QED BY <1>1, <3>1, <3>2, MetaQuiet DEF Meta!uiVars
  <2> QED BY <1>9, <2>1, <2>2, <2>3, <2>4 DEF Meta!Works
<1> QED BY <1>2, <1>3, <1>4, <1>5, <1>6, <1>7, <1>8, <1>9 DEF Meta!Next

LEMMA MetaSame == Meta!IInv /\ UNCHANGED Meta!metaVars => Meta!IInv'
<1> SUFFICES ASSUME Meta!IInv, UNCHANGED Meta!metaVars PROVE Meta!IInv'
  OBVIOUS
<1>1. MetaUi /\ MetaWays /\ MetaActors /\ Meta!InOrder
  BY MetaTypes DEF Meta!IInv
<1>2. Meta!InOrder'
  BY <1>1, MetaQuiet DEF Meta!metaVars, Meta!uiVars, Meta!actorVars
<1>3. MetaUi' /\ MetaWays' /\ MetaActors'
  BY <1>1, MetaUiSame, MetaWaysSame, MetaActorsSame DEF Meta!metaVars, Meta!actorVars
<1> QED BY <1>2, <1>3, MetaTypesNext DEF Meta!IInv

LEMMA MetaInductive == Spec => []Meta!IInv
<1>1. Init => Meta!IInv
  BY MetaInitInv DEF Init
<1>2. Meta!IInv /\ [Next]_allVars => Meta!IInv'
  <2> SUFFICES ASSUME Meta!IInv, [Next]_allVars PROVE Meta!IInv'
    OBVIOUS
  <2>1. CASE MetaSteps
    BY <2>1, MetaStepInv DEF MetaSteps
  <2>2. CASE UNCHANGED meta
    BY <2>2, MetaSame DEF meta, Meta!metaVars, Meta!uiVars, Meta!actorVars
  <2>3. ~MetaSteps => UNCHANGED meta
    BY DEF Next, allVars, JobSteps, RunSteps, DaxSteps, ImportSteps, HotSteps, ResSteps, AuthSteps,
           EditSteps, CellSteps
  <2> QED BY <2>1, <2>2, <2>3
<1> QED BY <1>1, <1>2, PTL DEF Spec

\* Between two disconnects the explorer never shows an older list than one it has
\* been given, for any number of requests, deaths of connections and disconnects:
\* the requests of one connect are answered in their order, whichever actors they
\* go through (mod.rs:210, state.rs:2187).
THEOREM LatestListWins == Spec => LatestListShown
<1> DEFINE Latest == list'.by # 0 => \A q \in list'.by + 1 .. asked' :
             kindOf'[q] = "list" /\ bornIn'[q] = bornIn'[list'.by] => q \in awaited'
<1>1. Meta!IInv' => [Latest]_(Meta!metaVars)
  BY DEF Meta!IInv, Meta!InOrder, Meta!LatestShown
<1>2. []Meta!IInv => [][Latest]_(Meta!metaVars)
  BY <1>1, PTL
<1>3. LatestListShown <=> [][Latest]_(Meta!metaVars)
  BY DEF LatestListShown, Meta!LatestListShown
<1> QED BY <1>2, <1>3, MetaInductive
=============================================================================
