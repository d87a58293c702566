---------------------------- MODULE ExportProofs ----------------------------
(* Theorems about RunExport, for every value of its constants. *)
EXTENDS MCStreams, SequenceTheorems, TLAPS

LEMMA ExportConstants ==
  /\ ExportRows \in Nat /\ Batches \in Nat /\ MaxSets \in Nat /\ MaxPosts \in Nat
  /\ Capacity \in Nat \ {0} /\ MaxSets * Batches \in Nat
BY StreamConstants

LEMMA PutFacts ==
  ASSUME NEW f, NEW i, NEW n
  PROVE  /\ DOMAIN Export!Put(f, i, n) = DOMAIN f \cup {i}
         /\ Export!Put(f, i, n)[i] = n
         /\ \A k \in DOMAIN f : k # i => Export!Put(f, i, n)[k] = f[k]
BY DEF Export!Put

-----------------------------------------------------------------------------
(* The channel                                                             *)

\* A message that joins the channel leaves the sets before it as they are.
LEMMA AppendInSet ==
  ASSUME NEW q \in Seq(Export!SinkMsg), NEW m \in Export!SinkMsg,
         NEW w, NEW x, NEW i, NEW j \in 1..Len(q) + 1, NEW s \in 0..j - 1
  PROVE  Export!InSet(Append(q, m), w, x, s, j, i) <=> Export!InSet(q, w, x, s, j, i)
<1>1. \A k \in 1..Len(q) : Append(q, m)[k] = q[k]
  OBVIOUS
<1>2. s # 0 => s \in 1..Len(q)
  OBVIOUS
<1>3. \A k \in s + 1..j - 1 : k \in 1..Len(q)
  OBVIOUS
<1> QED BY <1>1, <1>2, <1>3 DEF Export!InSet, Export!Begins

\* How the writer takes the first message of the channel q, having w, x and n in
\* hand before and w2, x2 and n2 after it.
Takes(q, w, x, n, w2, x2, n2) ==
  \/ q[1].kind = "Batch" /\ w2 = w /\ x2 = x /\ n2 = n + 1
  \/ q[1].kind = "SetStart" /\ w = "idle" /\ w2 = "writing" /\ x2 = q[1].index /\ n2 = 0
  \/ q[1].kind = "SetEnd"

\* What the writer takes from the channel is what it then has in hand.
LEMMA TakeInSet ==
  ASSUME NEW q \in Seq(Export!SinkMsg), q # <<>>,
         NEW w, NEW x, NEW n \in Nat, NEW w2, NEW x2, NEW n2 \in Nat,
         Takes(q, w, x, n, w2, x2, n2),
         NEW i, NEW j \in 2..Len(q) + 1, NEW s \in 0..j - 1,
         Export!InSet(q, w, x, s, j, i)
  PROVE  \E t \in 0..(j - 1) - 1 :
            /\ Export!InSet(Tail(q), w2, x2, t, j - 1, i)
            /\ Export!RowsBefore(n2, t, j - 1) = Export!RowsBefore(n, s, j)
<1>1. Len(q) \in Nat /\ Len(q) > 0
  OBVIOUS
<1>2. \A k \in 1..Len(q) - 1 : Tail(q)[k] = q[k + 1]
  OBVIOUS
<1>3. \A k \in s + 1..j - 1 : q[k] = Export!Msg("Batch", i)
  BY DEF Export!InSet
<1>5. CASE s >= 2
  <2>1. /\ s - 1 \in 0..(j - 1) - 1 /\ s - 1 \in Nat /\ (s - 1) + 1 = s
        /\ s - 1 # 0 /\ s - 1 \in 1..Len(q) - 1
    BY <1>1, <1>5
  <2>2. Tail(q)[s - 1] = Export!Msg("SetStart", i)
    BY <1>2, <1>5, <2>1 DEF Export!InSet, Export!Begins
  <2>3. \A k \in (s - 1) + 1..(j - 1) - 1 : Tail(q)[k] = Export!Msg("Batch", i)
    <3> SUFFICES ASSUME NEW k \in s..(j - 1) - 1 PROVE Tail(q)[k] = Export!Msg("Batch", i)
      BY <2>1
    <3>1. k \in 1..Len(q) - 1 /\ k + 1 \in s + 1..j - 1
      BY <1>1, <1>5
    <3> QED BY <1>2, <1>3, <3>1
  <2>4. Export!InSet(Tail(q), w2, x2, s - 1, j - 1, i)
    BY <2>1, <2>2, <2>3 DEF Export!InSet, Export!Begins
  <2>5. Export!RowsBefore(n2, s - 1, j - 1) = Export!RowsBefore(n, s, j)
    BY <1>5, <2>1 DEF Export!RowsBefore
  <2> QED BY <2>1, <2>4, <2>5
<1>6. CASE s = 1
  <2>1. q[1] = Export!Msg("SetStart", i)
    BY <1>6 DEF Export!InSet, Export!Begins
  <2>2. w2 = "writing" /\ x2 = i /\ n2 = 0
    BY <2>1 DEF Takes, Export!Msg
  <2>3. 0 \in 0..(j - 1) - 1 /\ \A k \in 0 + 1..(j - 1) - 1 : Tail(q)[k] = Export!Msg("Batch", i)
    <3>1. 0 \in 0..(j - 1) - 1
      OBVIOUS
    <3> SUFFICES ASSUME NEW k \in 1..(j - 1) - 1 PROVE Tail(q)[k] = Export!Msg("Batch", i)
      BY <3>1
    <3>2. k \in 1..Len(q) - 1 /\ k + 1 \in s + 1..j - 1
      BY <1>1, <1>6
    <3> QED BY <1>2, <1>3, <3>2
  <2>4. Export!InSet(Tail(q), w2, x2, 0, j - 1, i)
    BY <2>2, <2>3 DEF Export!InSet, Export!Begins
  <2>5. Export!RowsBefore(n2, 0, j - 1) = Export!RowsBefore(n, s, j)
    BY <1>6, <2>2 DEF Export!RowsBefore
  <2> QED BY <2>3, <2>4, <2>5
<1>7. CASE s = 0
  <2>1. q[1] = Export!Msg("Batch", i)
    <3>1. 1 \in s + 1..j - 1
      BY <1>7
    <3> QED BY <1>3, <3>1
  <2>2. w2 = w /\ x2 = x /\ n2 = n + 1 /\ w = "writing" /\ x = i
    BY <1>7, <2>1 DEF Takes, Export!Msg, Export!InSet, Export!Begins
  <2>3. 0 \in 0..(j - 1) - 1 /\ \A k \in 0 + 1..(j - 1) - 1 : Tail(q)[k] = Export!Msg("Batch", i)
    <3>1. 0 \in 0..(j - 1) - 1
      OBVIOUS
    <3> SUFFICES ASSUME NEW k \in 1..(j - 1) - 1 PROVE Tail(q)[k] = Export!Msg("Batch", i)
      BY <3>1
    <3>2. k \in 1..Len(q) - 1 /\ k + 1 \in s + 1..j - 1
      BY <1>1, <1>7
    <3> QED BY <1>2, <1>3, <3>2
  <2>4. Export!InSet(Tail(q), w2, x2, 0, j - 1, i)
    BY <2>2, <2>3 DEF Export!InSet, Export!Begins
  <2>5. Export!RowsBefore(n2, 0, j - 1) = Export!RowsBefore(n, s, j)
    BY <1>7, <2>2 DEF Export!RowsBefore
  <2> QED BY <2>3, <2>4, <2>5
<1>8. s >= 2 \/ s = 1 \/ s = 0
  OBVIOUS
<1> QED BY <1>5, <1>6, <1>7, <1>8

-----------------------------------------------------------------------------
(* What the steps of the actor leave as it was                             *)

\* The actor moved on without touching the channel: no set comes back, none is
\* doomed but the one it was in, and a closed set keeps its count.
ActorMovesOn ==
  /\ rsIndex' \in Nat /\ rsIndex <= rsIndex'
  /\ doomed' \subseteq doomed \cup {rsIndex}
  /\ \A i \in DOMAIN delivered :
        i < rsIndex => i \in DOMAIN delivered' /\ delivered'[i] = delivered[i]

LEMMA ChannelKept ==
  ASSUME Export!IInv, ActorMovesOn, UNCHANGED <<chan, writer, index, written>>, pc # "over"
  PROVE  Export!ChannelInOrder'
<1>1. /\ rsIndex \in Nat
      /\ \A j \in DOMAIN chan : chan[j] \in Export!SinkMsg
  BY ExportConstants DEF Export!IInv, Export!TypeOK
<1> SUFFICES ASSUME NEW j \in DOMAIN chan
             PROVE  /\ chan[j].kind # "none"
                    /\ chan[j].kind = "SetStart" => chan[j].index <= rsIndex'
                    /\ chan[j].kind = "Batch" =>
                        \E s \in 0..j - 1 : /\ Export!InSet(chan, writer, index, s, j, chan[j].index)
                                            /\ Export!RowsBefore(written, s, j) < ExportRows
                    /\ chan[j].kind = "SetEnd" =>
                        /\ chan[j].index \in DOMAIN delivered'
                        /\ chan[j].index < rsIndex' /\ chan[j].index \notin doomed'
                        /\ \E s \in 0..j - 1 :
                              /\ Export!InSet(chan, writer, index, s, j, chan[j].index)
                              /\ Export!RowsBefore(written, s, j) = delivered'[chan[j].index]
                    /\ chan[j].kind # "RunEnd"
  BY DEF Export!ChannelInOrder
<1>2. /\ chan[j].kind # "none" /\ chan[j].kind # "RunEnd"
      /\ chan[j].kind = "SetStart" => chan[j].index <= rsIndex
      /\ chan[j].kind = "Batch" =>
           \E s \in 0..j - 1 : /\ Export!InSet(chan, writer, index, s, j, chan[j].index)
                               /\ Export!RowsBefore(written, s, j) < ExportRows
  BY DEF Export!IInv, Export!ChannelInOrder
<1>3. chan[j].index \in Nat
  BY <1>1, ExportConstants DEF Export!SinkMsg
<1>4. CASE chan[j].kind = "SetEnd"
  <2>1. /\ chan[j].index \in DOMAIN delivered
        /\ chan[j].index < rsIndex /\ chan[j].index \notin doomed
        /\ \E s \in 0..j - 1 : /\ Export!InSet(chan, writer, index, s, j, chan[j].index)
                               /\ Export!RowsBefore(written, s, j) = delivered[chan[j].index]
    BY <1>4 DEF Export!IInv, Export!ChannelInOrder
  <2>2. chan[j].index \in DOMAIN delivered' /\ delivered'[chan[j].index] = delivered[chan[j].index]
    BY <2>1 DEF ActorMovesOn
  <2>3. chan[j].index < rsIndex' /\ chan[j].index \notin doomed'
    BY <1>1, <1>3, <2>1 DEF ActorMovesOn
  <2> QED BY <1>4, <2>1, <2>2, <2>3
<1>5. chan[j].kind = "SetStart" => chan[j].index <= rsIndex'
  BY <1>1, <1>2, <1>3 DEF ActorMovesOn
<1> QED BY <1>2, <1>4, <1>5

\* So do the files: each is of an earlier set.
LEMMA FilesKept ==
  ASSUME Export!IInv, ActorMovesOn, UNCHANGED files
  PROVE  /\ Export!KeptAsDelivered' /\ Export!CancelDiscards'
         /\ \A i \in DOMAIN files' : i \in 0..rsIndex' /\ i < rsIndex'
<1>1. rsIndex \in Nat
  BY ExportConstants DEF Export!IInv, Export!TypeOK
<1> SUFFICES ASSUME NEW i \in DOMAIN files
             PROVE  /\ i \in DOMAIN delivered' /\ files[i] = delivered'[i] /\ i \notin doomed'
                    /\ i \in 0..rsIndex' /\ i < rsIndex'
  BY DEF Export!KeptAsDelivered, Export!CancelDiscards
<1>2. i \in DOMAIN delivered /\ files[i] = delivered[i] /\ i \notin doomed
  BY DEF Export!IInv, Export!KeptAsDelivered, Export!CancelDiscards
<1>3. i \in 0..rsIndex /\ i < rsIndex
  BY DEF Export!IInv, Export!IndexesBelow
<1> QED BY <1>1, <1>2, <1>3 DEF ActorMovesOn

\* The batches executed so far have no more sets than the files' numbers allow.
LEMMA SetsBound ==
  ASSUME NEW b \in 1..Batches, NEW n \in 0..MaxSets
  PROVE  /\ MaxSets * (b - 1) + n \in Nat
         /\ MaxSets * (b - 1) + n <= MaxSets * b
         /\ MaxSets * b <= MaxSets * Batches
<1>1. MaxSets \in Nat /\ b \in Nat /\ n \in Nat /\ b - 1 \in Nat /\ Batches \in Nat
  BY ExportConstants
<1>2. MaxSets * (b - 1) \in Nat /\ MaxSets * b \in Nat
  BY <1>1
<1>3. MaxSets * (b - 1) + MaxSets = MaxSets * b
  BY <1>1
<1>4. MaxSets * b <= MaxSets * Batches
  BY <1>1
<1> QED BY <1>1, <1>2, <1>3, <1>4

\* A set that is open, or about to be, is numbered within the bound.
LEMMA NextSetFits ==
  ASSUME Export!IInv, pc = "push", set
  PROVE  rsIndex + 1 \in 0..MaxSets * Batches
<1>1. batch \in 0..Batches /\ eSets \in 0..MaxSets /\ rsIndex \in Nat
  BY ExportConstants DEF Export!IInv, Export!TypeOK, Export!S!StreamTypeOK
<1>2. rsIndex + 1 <= IF batch = 0 THEN 0 ELSE MaxSets * (batch - 1) + eSets
  BY DEF Export!IInv, Export!IndexesBelow
<1>3. batch \in 1..Batches
  BY <1>1, <1>2, ExportConstants
<1>4. rsIndex + 1 <= MaxSets * (batch - 1) + eSets
  BY <1>2, <1>3
<1> DEFINE a == MaxSets * (batch - 1) + eSets
           b == MaxSets * batch
           c == MaxSets * Batches
<1>5. a \in Nat /\ a <= b /\ b <= c /\ c \in Nat
  BY <1>1, <1>3, SetsBound, ExportConstants
<1>6. b \in Nat
  BY <1>1, ExportConstants
<1>7. rsIndex + 1 <= a
  BY <1>4
<1> HIDE DEF a, b, c
<1>8. rsIndex + 1 \in 0..c
  BY <1>1, <1>5, <1>6, <1>7
<1> QED BY <1>8 DEF c

-----------------------------------------------------------------------------
(* sink_push returns                                                       *)

\* What a push that returned means for the loop, for each step that calls it.
LEMMA Resumed ==
  ASSUME Export!IInv, pc = "push", NEW ok \in BOOLEAN, Export!Resume(ok)
  PROVE  /\ then = "set" => pc' = "poll" /\ set' = TRUE /\ rsIndex' = rsIndex /\ then' = "tail"
         /\ then = "rows" => pc' = "poll" /\ set' = TRUE /\ rsIndex' = rsIndex /\ then' = "tail"
         /\ then = "end" => pc' = "poll" /\ set' = FALSE /\ rsIndex' = rsIndex + 1 /\ then' = "tail"
         /\ then = "done" => /\ set' = FALSE /\ rsIndex' = rsIndex + 1 /\ then' = "tail"
                             /\ \/ pc' = "batch" /\ pushing' = Export!Nothing
                                \/ pc' = "push" /\ pushing' \in {Export!Msg("Failed", 0), Export!Msg("RunEnd", 0)}
         /\ then = "tail" => pc' = "over" /\ set' = FALSE /\ rsIndex' = rsIndex /\ then' = "tail"
         /\ then # "done" => pushing' = Export!Nothing
         /\ then # "tail" => outcome' = outcome
         /\ then = "tail" => outcome' = IF cancelled THEN "cancelled" ELSE IF failed THEN "failed" ELSE "done"
<1>1. then \in {"set", "rows", "end", "done", "tail"} /\ set \in BOOLEAN
      /\ (then = "rows" => set) /\ (then = "tail" => ~set)
  BY DEF Export!IInv, Export!TypeOK, Export!SetFollowsStream
<1>2. CASE then = "done"
  BY <1>1, <1>2 DEF Export!Resume, Export!AfterDone, Export!LastPush, Export!Push
<1>3. CASE then # "done"
  BY <1>1, <1>3 DEF Export!Resume
<1> QED BY <1>2, <1>3

\* What it means for the cancel, the sets doomed by it and the driver.
LEMMA ResumedCancel ==
  ASSUME Export!IInv, pc = "push", NEW ok \in BOOLEAN, Export!Resume(ok)
  PROVE  /\ ~Export!Aborts(ok) => cancelled' = cancelled /\ doomed' = doomed /\ eSignal' = eSignal
         /\ Export!Aborts(ok) => cancelled' = TRUE /\ doomed' = doomed \cup {rsIndex} /\ eSignal' = TRUE
         /\ eOpen' = eOpen /\ eSent' = eSent /\ eSets' = eSets /\ eTold' = eTold /\ eEnded' = eEnded
<1>1. then \in {"set", "rows", "end"} => set' \/ set
  BY Resumed DEF Export!IInv, Export!TypeOK, Export!SetFollowsStream
<1>2. CASE Export!Aborts(ok)
  BY <1>1, <1>2 DEF Export!Resume, Export!CancelNow, Export!S!Cancel, Export!Aborts
<1>3. CASE ~Export!Aborts(ok)
  BY <1>3 DEF Export!Resume, Export!streamVars
<1> QED BY <1>2, <1>3

\* The part of the type invariant that the steps of the actor write.
RunTyped ==
  /\ pc \in {"batch", "poll", "push", "over"}
  /\ batch \in 0..Batches /\ set \in BOOLEAN /\ rsIndex \in 0..MaxSets * Batches
  /\ then \in {"set", "rows", "end", "done", "tail"}
  /\ cancelled \in BOOLEAN /\ failed \in BOOLEAN
  /\ outcome \in {"none", "done", "failed", "cancelled"}
  /\ pushing \in Export!SinkMsg
  /\ Export!S!StreamTypeOK

LEMMA Messages ==
  /\ Export!Nothing \in Export!SinkMsg
  /\ \A i \in 0..MaxSets * Batches :
       \A k \in {"SetStart", "Batch", "SetEnd", "Failed", "RunEnd"} : Export!Msg(k, i) \in Export!SinkMsg
  /\ 0 \in 0..MaxSets * Batches
BY ExportConstants DEF Export!Nothing, Export!Msg, Export!SinkMsg

LEMMA MessageKinds ==
  ASSUME NEW k, NEW i
  PROVE  Export!Msg(k, i).kind = k /\ Export!Msg(k, i).index = i
BY DEF Export!Msg

LEMMA ResumeTyped ==
  ASSUME Export!IInv, pc = "push", NEW ok \in BOOLEAN, Export!Resume(ok), Export!PushStep
  PROVE  RunTyped'
<1>1. RunTyped
  BY DEF Export!IInv, Export!TypeOK, RunTyped
<1>2. rsIndex' \in 0..MaxSets * Batches
  <2>1. then \in {"end", "done"} => set
    BY DEF Export!IInv, Export!SetFollowsStream
  <2> QED BY <1>1, <2>1, Resumed, NextSetFits DEF RunTyped
<1>3. batch' = batch /\ failed' = failed
  BY DEF Export!PushStep
<1>4. /\ set' \in BOOLEAN /\ then' \in {"set", "rows", "end", "done", "tail"}
      /\ pc' \in {"batch", "poll", "push", "over"}
      /\ outcome' \in {"none", "done", "failed", "cancelled"}
  BY <1>1, Resumed DEF RunTyped
<1>5. pushing' \in Export!SinkMsg
  BY <1>1, Resumed, Messages DEF RunTyped
<1>6. cancelled' \in BOOLEAN /\ Export!S!StreamTypeOK'
  BY <1>1, ResumedCancel DEF RunTyped, Export!S!StreamTypeOK
<1> QED BY <1>1, <1>2, <1>3, <1>4, <1>5, <1>6 DEF RunTyped

LEMMA ResumeInTurn ==
  ASSUME Export!IInv, pc = "push", NEW ok \in BOOLEAN, Export!Resume(ok), Export!PushStep
  PROVE  Export!SetFollowsStream' /\ Export!PushedInTurn'
<1>1. /\ then = "set" => ~set /\ eOpen /\ eSent = 0
      /\ then = "rows" => set /\ eOpen /\ ~cancelled
      /\ then = "end" => set /\ ~eOpen
      /\ then = "tail" => ~set
      /\ then \in {"set", "rows", "end", "done", "tail"} /\ eOpen \in BOOLEAN
  BY DEF Export!IInv, Export!SetFollowsStream, Export!TypeOK, Export!S!StreamTypeOK
<1>2. Export!SetFollowsStream'
  BY <1>1, Resumed, ResumedCancel DEF Export!SetFollowsStream
<1>3. pc' = "push" => then' = "tail" /\ pushing' \in {Export!Msg("Failed", 0), Export!Msg("RunEnd", 0)}
  BY <1>1, Resumed
<1>4. Export!PushedInTurn'
  BY <1>3, MessageKinds DEF Export!PushedInTurn
<1> QED BY <1>2, <1>4

LEMMA ResumeMovesOn ==
  ASSUME Export!IInv, pc = "push", NEW ok \in BOOLEAN, Export!Resume(ok), Export!PushStep
  PROVE  ActorMovesOn
<1>1. rsIndex \in Nat /\ then \in {"set", "rows", "end", "done", "tail"}
  BY ExportConstants DEF Export!IInv, Export!TypeOK
<1>2. rsIndex' \in {rsIndex, rsIndex + 1}
  BY <1>1, Resumed
<1>3. doomed' \subseteq doomed \cup {rsIndex}
  BY ResumedCancel
<1>4. delivered' = delivered
  BY DEF Export!PushStep
<1>5. rsIndex' \in Nat /\ rsIndex <= rsIndex'
  BY <1>1, <1>2
<1> QED BY <1>3, <1>4, <1>5 DEF ActorMovesOn

LEMMA ResumeBelow ==
  ASSUME Export!IInv, pc = "push", NEW ok \in BOOLEAN, Export!Resume(ok), Export!PushStep
  PROVE  Export!IndexesBelow'
<1>1. rsIndex \in Nat /\ then \in {"set", "rows", "end", "done", "tail"} /\ set \in BOOLEAN
      /\ (then = "set" => ~set) /\ (then \in {"rows", "end", "done"} => set)
      /\ (then = "tail" => ~set)
  <2>1. rsIndex \in Nat
    BY ExportConstants DEF Export!IInv, Export!TypeOK
  <2>2. then \in {"set", "rows", "end", "done", "tail"} /\ set \in BOOLEAN
    BY DEF Export!IInv, Export!TypeOK
  <2>3. /\ then = "set" => ~set
        /\ then \in {"rows", "end", "done"} => set
        /\ then = "tail" => ~set
    BY DEF Export!IInv, Export!SetFollowsStream
  <2> QED BY <2>1, <2>2, <2>3
<1>2. /\ delivered' = delivered /\ files' = files /\ batch' = batch
      /\ eSets' = eSets
  BY ResumedCancel DEF Export!PushStep, Export!writerVars
<1>3. \/ then \in {"end", "done"} /\ rsIndex' = rsIndex + 1 /\ set' = FALSE
      \/ then \in {"set", "rows"} /\ rsIndex' = rsIndex /\ set' = TRUE
      \/ then = "tail" /\ rsIndex' = rsIndex /\ set' = FALSE
  BY <1>1, Resumed
<1>4. pc' = "poll" \/ (pc' = "push" /\ then' # "tail") => batch' > 0
  <2>1. pc' = "poll" \/ (pc' = "push" /\ then' # "tail") => then # "tail"
    BY <1>1, Resumed
  <2> QED BY <1>2, <2>1 DEF Export!IInv, Export!IndexesBelow
<1>5. ASSUME NEW i \in DOMAIN delivered'
      PROVE  i \in 0..rsIndex' /\ (i = rsIndex' => pc' = "push" /\ then' = "end")
  <2>1. i \in 0..rsIndex /\ (i = rsIndex => then = "end")
    BY <1>2, <1>5 DEF Export!IInv, Export!IndexesBelow
  <2> QED BY <1>1, <1>3, <2>1
<1>6. ASSUME NEW i \in doomed'
      PROVE  i \in 0..rsIndex' /\ (i = rsIndex' => cancelled' \/ (pc' = "push" /\ then' = "done"))
  <2>1. CASE i \in doomed
    <3>1. i \in 0..rsIndex /\ (i = rsIndex => cancelled \/ then = "done")
      BY <2>1 DEF Export!IInv, Export!IndexesBelow
    <3>2. cancelled => cancelled'
      BY ResumedCancel
    <3> QED BY <1>1, <1>3, <3>1, <3>2
  <2>2. CASE i \notin doomed
    <3>1. i = rsIndex /\ cancelled'
      BY <1>6, <2>2, ResumedCancel
    <3> QED BY <1>1, <1>3, <3>1
  <2> QED BY <2>1, <2>2
<1>7. \A i \in DOMAIN files' : i \in 0..rsIndex' /\ i < rsIndex'
  <2>1. UNCHANGED files
    BY <1>2
  <2> QED BY <2>1, ResumeMovesOn, FilesKept
<1>8. rsIndex' + (IF set' \/ (pc' = "push" /\ then' = "set") THEN 1 ELSE 0)
        <= IF batch' = 0 THEN 0 ELSE MaxSets * (batch' - 1) + eSets'
  <2>1. rsIndex + (IF set \/ then = "set" THEN 1 ELSE 0)
          <= IF batch = 0 THEN 0 ELSE MaxSets * (batch - 1) + eSets
    BY DEF Export!IInv, Export!IndexesBelow
  <2>2. rsIndex' + (IF set' \/ (pc' = "push" /\ then' = "set") THEN 1 ELSE 0)
          = rsIndex + (IF set \/ then = "set" THEN 1 ELSE 0)
    <3>1. ~(pc' = "push" /\ then' = "set")
      BY <1>1, Resumed
    <3> QED BY <1>1, <1>3, <3>1
  <2> QED BY <1>2, <2>1, <2>2
<1> QED BY <1>4, <1>5, <1>6, <1>7, <1>8 DEF Export!IndexesBelow

-----------------------------------------------------------------------------
(* sink_push                                                               *)

\* The part of the type invariant that the steps of the writer write.
WriterTyped ==
  /\ chan \in Seq(Export!SinkMsg) /\ Len(chan) <= Capacity
  /\ writer \in {"signin", "idle", "writing", "gone"}
  /\ index \in 0..MaxSets * Batches /\ written \in 0..ExportRows
  /\ DOMAIN files \subseteq Export!Sets
  /\ result \in {"none", "ok", "error"}

MailTyped == mail \in Seq(Export!TabMsgs) /\ posts \in 0..MaxPosts /\ gone \in BOOLEAN

LEMMA Typed == Export!IInv => RunTyped /\ WriterTyped /\ MailTyped
BY DEF Export!IInv, Export!TypeOK, RunTyped, WriterTyped, MailTyped

LEMMA TypedNext ==
  ASSUME RunTyped', WriterTyped', MailTyped'
  PROVE  Export!TypeOK' /\ chan' \in Seq(Export!SinkMsg) /\ pushing' \in Export!SinkMsg
BY DEF Export!TypeOK, RunTyped, WriterTyped, MailTyped

LEMMA Received ==
  ASSUME Export!IInv, Export!Recv
  PROVE  MailTyped'
BY DEF Export!IInv, Export!TypeOK, Export!Recv, MailTyped

\* The pushed message is the last of the channel, the others stay.
LEMMA Appended ==
  ASSUME Export!IInv, chan' = Append(chan, pushing)
  PROVE  /\ Len(chan') = Len(chan) + 1 /\ Len(chan) \in Nat
         /\ chan'[Len(chan) + 1] = pushing
         /\ \A j \in 1..Len(chan) : chan'[j] = chan[j]
         /\ \A j \in 1..Len(chan) : chan[j] \in Export!SinkMsg
         /\ DOMAIN chan' = 1..Len(chan) + 1 /\ DOMAIN chan = 1..Len(chan)
BY DEF Export!IInv

LEMMA AppendedInSet ==
  ASSUME Export!IInv, chan' = Append(chan, pushing),
         NEW i, NEW j \in 1..Len(chan) + 1, NEW s \in 0..j - 1
  PROVE  Export!InSet(chan', writer, index, s, j, i) <=> Export!InSet(chan, writer, index, s, j, i)
<1>1. chan \in Seq(Export!SinkMsg) /\ pushing \in Export!SinkMsg
  BY DEF Export!IInv
<1> QED BY <1>1, AppendInSet

\* A message that was in the channel keeps its place in its set.
LEMMA PushedOldInOrder ==
  ASSUME Export!IInv, pc = "push", ActorMovesOn, UNCHANGED <<writer, index, written>>,
         chan' = Append(chan, pushing), NEW j \in 1..Len(chan)
  PROVE  /\ chan'[j].kind \notin {"none", "RunEnd"}
         /\ chan'[j].kind = "SetStart" => chan'[j].index <= rsIndex'
         /\ chan'[j].kind = "Batch" =>
             \E s \in 0..j - 1 : /\ Export!InSet(chan', writer', index', s, j, chan'[j].index)
                                 /\ Export!RowsBefore(written', s, j) < ExportRows
         /\ chan'[j].kind = "SetEnd" =>
             /\ chan'[j].index \in DOMAIN delivered'
             /\ chan'[j].index < rsIndex' /\ chan'[j].index \notin doomed'
             /\ \E s \in 0..j - 1 :
                   /\ Export!InSet(chan', writer', index', s, j, chan'[j].index)
                   /\ Export!RowsBefore(written', s, j) = delivered'[chan'[j].index]
<1>1. chan'[j] = chan[j] /\ j \in 1..Len(chan) + 1 /\ j \in DOMAIN chan
  BY Appended
<1>2. \A s \in 0..j - 1 : \A i : Export!InSet(chan', writer', index', s, j, i)
                                 <=> Export!InSet(chan, writer, index, s, j, i)
  BY <1>1, AppendedInSet
<1>3. rsIndex \in Nat /\ chan[j].index \in Nat
  BY <1>1, Appended, ExportConstants DEF Export!IInv, Export!TypeOK, Export!SinkMsg
<1>4. /\ chan[j].kind \notin {"none", "RunEnd"}
      /\ chan[j].kind = "SetStart" => chan[j].index <= rsIndex
      /\ chan[j].kind = "Batch" =>
           \E s \in 0..j - 1 : /\ Export!InSet(chan, writer, index, s, j, chan[j].index)
                               /\ Export!RowsBefore(written, s, j) < ExportRows
  BY <1>1 DEF Export!IInv, Export!ChannelInOrder
<1>5. CASE chan[j].kind = "SetEnd"
  <2>1. /\ chan[j].index \in DOMAIN delivered
        /\ chan[j].index < rsIndex /\ chan[j].index \notin doomed
        /\ \E s \in 0..j - 1 : /\ Export!InSet(chan, writer, index, s, j, chan[j].index)
                               /\ Export!RowsBefore(written, s, j) = delivered[chan[j].index]
    BY <1>1, <1>5 DEF Export!IInv, Export!ChannelInOrder
  <2>2. chan[j].index \in DOMAIN delivered' /\ delivered'[chan[j].index] = delivered[chan[j].index]
    BY <2>1 DEF ActorMovesOn
  <2>3. chan[j].index < rsIndex' /\ chan[j].index \notin doomed'
    BY <1>3, <2>1 DEF ActorMovesOn
  <2> QED BY <1>1, <1>2, <1>5, <2>1, <2>2, <2>3
<1>6. chan[j].kind = "SetStart" => chan[j].index <= rsIndex'
  BY <1>3, <1>4 DEF ActorMovesOn
<1>7. CASE chan[j].kind # "SetEnd"
  BY <1>1, <1>2, <1>4, <1>6, <1>7
<1> QED BY <1>5, <1>7

\* So has the pushed message.
LEMMA PushedNewInOrder ==
  ASSUME Export!IInv, pc = "push", Export!Resume(TRUE), Export!PushStep,
         writer # "gone", chan' = Append(chan, pushing), NEW j, j = Len(chan) + 1
  PROVE  /\ chan'[j].kind # "none"
         /\ chan'[j].kind = "SetStart" => chan'[j].index <= rsIndex'
         /\ chan'[j].kind = "Batch" =>
             \E s \in 0..j - 1 : /\ Export!InSet(chan', writer', index', s, j, chan'[j].index)
                                 /\ Export!RowsBefore(written', s, j) < ExportRows
         /\ chan'[j].kind = "SetEnd" =>
             /\ chan'[j].index \in DOMAIN delivered'
             /\ chan'[j].index < rsIndex' /\ chan'[j].index \notin doomed'
             /\ \E s \in 0..j - 1 :
                   /\ Export!InSet(chan', writer', index', s, j, chan'[j].index)
                   /\ Export!RowsBefore(written', s, j) = delivered'[chan'[j].index]
         /\ chan'[j].kind = "RunEnd" => pc' = "over"
<1>1. chan'[j] = pushing /\ j \in 1..Len(chan) + 1 /\ Len(chan) \in Nat /\ j - 1 = Len(chan)
  BY Appended
<1>2. UNCHANGED <<writer, index, written, delivered>>
  BY DEF Export!PushStep, Export!writerVars
<1>3. \A s \in 0..j - 1 : \A i : Export!InSet(chan', writer', index', s, j, i)
                                 <=> Export!InSet(chan, writer, index, s, j, i)
  BY <1>1, <1>2, AppendedInSet
<1>4. /\ then \in {"set", "rows", "end", "done", "tail"} /\ eSent \in 0..ExportRows /\ rsIndex \in Nat
      /\ ExportRows \in Nat /\ written \in Nat
  BY ExportConstants DEF Export!IInv, Export!TypeOK, Export!S!StreamTypeOK
<1>5. CASE then = "set"
  <2>1. pushing = Export!Msg("SetStart", rsIndex) /\ rsIndex' = rsIndex
    BY <1>5, Resumed DEF Export!IInv, Export!PushedInTurn
  <2>2. pushing.kind = "SetStart" /\ pushing.index = rsIndex
    BY <2>1, MessageKinds
  <2> QED BY <1>1, <1>4, <2>1, <2>2
<1>6. CASE then = "rows"
  <2>1. pushing.kind = "Batch" /\ pushing.index = rsIndex
    <3>1. pushing = Export!Msg("Batch", rsIndex)
      BY <1>6 DEF Export!IInv, Export!PushedInTurn
    <3> QED BY <3>1, MessageKinds
  <2>2. set /\ ~cancelled
    BY <1>6 DEF Export!IInv, Export!SetFollowsStream
  <2>3. PICK s \in 0..Len(chan) :
          /\ Export!InSet(chan, writer, index, s, Len(chan) + 1, rsIndex)
          /\ Export!RowsBefore(written, s, Len(chan) + 1) + 1 = eSent
    BY <1>6, <2>2 DEF Export!IInv, Export!CurrentInChannel
  <2>4. Export!RowsBefore(written, s, j) + 1 = eSent /\ Export!RowsBefore(written, s, j) \in Nat
    BY <1>1, <1>4, <2>3 DEF Export!RowsBefore
  <2>5. Export!RowsBefore(written, s, j) < ExportRows
    BY <1>4, <2>4
  <2>6. Export!InSet(chan', writer', index', s, j, rsIndex) /\ s \in 0..j - 1
    BY <1>1, <1>3, <2>3
  <2>7. Export!RowsBefore(written', s, j) < ExportRows
    BY <1>2, <2>5
  <2> QED BY <1>1, <2>1, <2>6, <2>7
<1>7. CASE then = "end"
  <2>1. /\ pushing = Export!Msg(IF cancelled THEN "Failed" ELSE "SetEnd", rsIndex)
        /\ rsIndex \in DOMAIN delivered /\ delivered[rsIndex] = eSent
    BY <1>7 DEF Export!IInv, Export!PushedInTurn
  <2>2. CASE cancelled
    <3>1. pushing.kind = "Failed"
      BY <2>1, <2>2, MessageKinds
    <3> QED BY <1>1, <3>1
  <2>3. CASE ~cancelled
    <3>1. pushing.kind = "SetEnd" /\ pushing.index = rsIndex
      BY <2>1, <2>3, MessageKinds
    <3>2. set
      BY <1>7 DEF Export!IInv, Export!SetFollowsStream
    <3>3. PICK s \in 0..Len(chan) :
            /\ Export!InSet(chan, writer, index, s, Len(chan) + 1, rsIndex)
            /\ Export!RowsBefore(written, s, Len(chan) + 1) + 0 = eSent
      BY <1>7, <2>3, <3>2 DEF Export!IInv, Export!CurrentInChannel
    <3>4. Export!RowsBefore(written, s, j) = eSent
      BY <1>1, <1>4, <3>3 DEF Export!RowsBefore
    <3>5. Export!InSet(chan', writer', index', s, j, rsIndex) /\ s \in 0..j - 1
      BY <1>1, <1>3, <3>3
    <3>6. rsIndex \notin doomed
      BY <1>7, <2>3 DEF Export!IInv, Export!IndexesBelow
    <3>7. doomed' = doomed
      BY ResumedCancel DEF Export!Aborts
    <3>8. rsIndex < rsIndex'
      <4>1. rsIndex' = rsIndex + 1
        BY <1>7, Resumed
      <4> QED BY <1>4, <4>1
    <3>9. /\ rsIndex \in DOMAIN delivered' /\ Export!RowsBefore(written', s, j) = delivered'[rsIndex]
      BY <1>2, <2>1, <3>4
    <3> QED BY <1>1, <3>1, <3>5, <3>6, <3>7, <3>8, <3>9
  <2> QED BY <2>2, <2>3
<1>8. CASE then = "done"
  <2>1. pushing.kind = "Failed"
    BY <1>8, MessageKinds DEF Export!IInv, Export!PushedInTurn
  <2> QED BY <1>1, <2>1
<1>9. CASE then = "tail"
  <2>1. pushing.kind \in {"Failed", "RunEnd"} /\ pc' = "over"
    BY <1>9, Resumed DEF Export!IInv, Export!PushedInTurn
  <2> QED BY <1>1, <2>1
<1> QED BY <1>4, <1>5, <1>6, <1>7, <1>8, <1>9

LEMMA PushOkInv ==
  ASSUME Export!IInv, Export!PushOk
  PROVE  Export!IInv'
<1>1. /\ pc = "push" /\ writer # "gone" /\ Len(chan) < Capacity
      /\ chan' = Append(chan, pushing) /\ Export!Resume(TRUE) /\ Export!PushStep
      /\ UNCHANGED <<mail, posts, gone>>
  BY DEF Export!PushOk, Export!Room, Export!mailVars
<1>2. UNCHANGED <<batch, failed, writer, index, written, files, result, delivered>>
  BY <1>1 DEF Export!PushStep, Export!writerVars
<1>3. ActorMovesOn /\ RunTyped' /\ Export!SetFollowsStream' /\ Export!PushedInTurn' /\ Export!IndexesBelow'
  BY <1>1, ResumeMovesOn, ResumeTyped, ResumeInTurn, ResumeBelow
<1>4. Export!TypeOK' /\ chan' \in Seq(Export!SinkMsg) /\ pushing' \in Export!SinkMsg
  <2>1. WriterTyped'
    <3>1. chan \in Seq(Export!SinkMsg) /\ pushing \in Export!SinkMsg
      BY DEF Export!IInv
    <3>2. chan' \in Seq(Export!SinkMsg) /\ Len(chan') <= Capacity
      BY <1>1, <3>1, ExportConstants
    <3> QED BY <1>2, <3>2, Typed DEF WriterTyped
  <2>2. MailTyped'
    BY <1>1, Typed DEF MailTyped
  <2> QED BY <1>3, <2>1, <2>2, TypedNext
<1>5. Export!KeptAsDelivered' /\ Export!CancelDiscards'
  BY <1>2, <1>3, FilesKept
<1>6. Export!ChannelInOrder'
  <2> SUFFICES ASSUME NEW j \in 1..Len(chan) + 1
               PROVE  /\ chan'[j].kind # "none"
                      /\ chan'[j].kind = "SetStart" => chan'[j].index <= rsIndex'
                      /\ chan'[j].kind = "Batch" =>
                          \E s \in 0..j - 1 : /\ Export!InSet(chan', writer', index', s, j, chan'[j].index)
                                              /\ Export!RowsBefore(written', s, j) < ExportRows
                      /\ chan'[j].kind = "SetEnd" =>
                          /\ chan'[j].index \in DOMAIN delivered'
                          /\ chan'[j].index < rsIndex' /\ chan'[j].index \notin doomed'
                          /\ \E s \in 0..j - 1 :
                                /\ Export!InSet(chan', writer', index', s, j, chan'[j].index)
                                /\ Export!RowsBefore(written', s, j) = delivered'[chan'[j].index]
                      /\ chan'[j].kind = "RunEnd" => pc' = "over" /\ j = Len(chan')
    BY <1>1, Appended DEF Export!ChannelInOrder
  <2>1. Len(chan) \in Nat /\ Len(chan') = Len(chan) + 1
    BY <1>1, Appended
  <2>2. CASE j \in 1..Len(chan)
    BY <1>1, <1>2, <1>3, <2>2, PushedOldInOrder
  <2>3. CASE j = Len(chan) + 1
    BY <1>1, <2>1, <2>3, PushedNewInOrder
  <2> QED BY <2>1, <2>2, <2>3
<1>7. Export!CurrentInChannel'
  <2> SUFFICES ASSUME ~cancelled', set', pc' = "push" => then' # "done"
               PROVE  \E s \in 0..Len(chan') :
                        /\ Export!InSet(chan', writer', index', s, Len(chan') + 1, rsIndex')
                        /\ Export!RowsBefore(written', s, Len(chan') + 1)
                             + (IF then' = "rows" THEN 1 ELSE 0) = eSent'
    BY DEF Export!CurrentInChannel
  <2>1. /\ Len(chan) \in Nat /\ Len(chan') = Len(chan) + 1 /\ chan'[Len(chan) + 1] = pushing
        /\ \A k \in 1..Len(chan) : chan'[k] = chan[k]
    BY <1>1, Appended
  <2>2. then \in {"set", "rows"} /\ then' = "tail" /\ rsIndex' = rsIndex /\ eSent' = eSent
    BY <1>1, Resumed, ResumedCancel DEF Export!IInv, Export!TypeOK
  <2>3. eSent \in Nat /\ written \in Nat
    BY ExportConstants DEF Export!IInv, Export!TypeOK, Export!S!StreamTypeOK
  <2> DEFINE n == Len(chan)
  <2>4. CASE then = "set"
    <3>1. pushing = Export!Msg("SetStart", rsIndex) /\ eSent = 0
      BY <1>1, <2>4 DEF Export!IInv, Export!PushedInTurn, Export!SetFollowsStream
    <3>2. Export!InSet(chan', writer', index', n + 1, (n + 1) + 1, rsIndex)
      BY <2>1, <3>1 DEF Export!InSet, Export!Begins
    <3>3. Export!RowsBefore(written', n + 1, (n + 1) + 1) = 0
      BY <2>1 DEF Export!RowsBefore
    <3> QED BY <2>1, <2>2, <3>1, <3>2, <3>3
  <2>5. CASE then = "rows"
    <3>1. set /\ ~cancelled /\ pushing = Export!Msg("Batch", rsIndex)
      BY <1>1, <2>5 DEF Export!IInv, Export!SetFollowsStream, Export!PushedInTurn
    <3>2. PICK s \in 0..n :
            /\ Export!InSet(chan, writer, index, s, n + 1, rsIndex)
            /\ Export!RowsBefore(written, s, n + 1) + 1 = eSent
      BY <1>1, <2>5, <3>1 DEF Export!IInv, Export!CurrentInChannel
    <3>3. Export!InSet(chan', writer', index', s, n + 1, rsIndex)
      <4>1. n + 1 \in 1..Len(chan) + 1 /\ s \in 0..(n + 1) - 1
        BY <2>1
      <4> QED BY <1>1, <1>2, <3>2, <4>1, AppendedInSet
    <3>4. Export!InSet(chan', writer', index', s, (n + 1) + 1, rsIndex)
      <4>1. \A k \in s + 1..((n + 1) + 1) - 1 : k \in s + 1..(n + 1) - 1 \/ k = n + 1
        BY <2>1
      <4>2. s \in 0..((n + 1) + 1) - 1
        BY <2>1
      <4> QED BY <2>1, <3>1, <3>3, <4>1, <4>2 DEF Export!InSet
    <3>5. Export!RowsBefore(written', s, (n + 1) + 1) = eSent
      BY <1>2, <2>1, <2>3, <3>2 DEF Export!RowsBefore
    <3>6. s \in 0..n + 1
      BY <2>1
    <3> QED BY <2>1, <2>2, <2>3, <3>4, <3>5, <3>6
  <2> QED BY <2>2, <2>4, <2>5
<1>8. Export!DeliveredOnTheWay'
  <2> SUFFICES ASSUME NEW i \in DOMAIN delivered, i \notin DOMAIN files, ~cancelled', result # "error"
               PROVE  \E j \in DOMAIN chan' : chan'[j] = Export!Msg("SetEnd", i)
    BY <1>2 DEF Export!DeliveredOnTheWay
  <2>1. /\ DOMAIN chan' = 1..Len(chan) + 1 /\ Len(chan) \in Nat /\ DOMAIN chan = 1..Len(chan)
        /\ chan'[Len(chan) + 1] = pushing /\ \A k \in 1..Len(chan) : chan'[k] = chan[k]
    BY <1>1, Appended
  <2>2. ~cancelled
    BY <1>1, ResumedCancel
  <2>3. CASE \E j \in DOMAIN chan : chan[j] = Export!Msg("SetEnd", i)
    BY <2>1, <2>3
  <2>4. CASE then = "end" /\ i = rsIndex
    <3>1. pushing = Export!Msg("SetEnd", i)
      BY <1>1, <2>2, <2>4 DEF Export!IInv, Export!PushedInTurn
    <3>2. Len(chan) + 1 \in DOMAIN chan'
      BY <2>1
    <3> QED BY <2>1, <3>1, <3>2
  <2> QED BY <2>2, <2>3, <2>4 DEF Export!IInv, Export!DeliveredOnTheWay
<1>9. Export!Endings'
  BY <1>1, <1>2, Resumed, ResumedCancel DEF Export!IInv, Export!Endings, Export!TypeOK, Export!Aborts
<1> QED BY <1>3, <1>4, <1>5, <1>6, <1>7, <1>8, <1>9 DEF Export!IInv

\* A push that failed leaves the channel alone and cancels the run, unless its
\* writer is gone with an error already.
LEMMA PushFailsInv ==
  ASSUME Export!IInv, pc = "push", Export!Resume(FALSE), Export!PushStep, UNCHANGED chan, MailTyped'
  PROVE  Export!IInv'
<1>1. UNCHANGED <<batch, failed, writer, index, written, files, result, delivered>>
  BY DEF Export!PushStep, Export!writerVars
<1>2. ActorMovesOn /\ RunTyped' /\ Export!SetFollowsStream' /\ Export!PushedInTurn' /\ Export!IndexesBelow'
  BY ResumeMovesOn, ResumeTyped, ResumeInTurn, ResumeBelow
<1>3. Export!TypeOK' /\ chan' \in Seq(Export!SinkMsg) /\ pushing' \in Export!SinkMsg
  <2>1. WriterTyped'
    BY <1>1, Typed DEF WriterTyped
  <2> QED BY <1>2, <2>1, TypedNext
<1>4. Export!KeptAsDelivered' /\ Export!CancelDiscards'
  BY <1>1, <1>2, FilesKept
<1>5. Export!ChannelInOrder'
  BY <1>1, <1>2, ChannelKept
<1>6. then \in {"set", "rows", "end"} => cancelled'
  BY ResumedCancel DEF Export!Aborts, Export!IInv, Export!TypeOK
<1>7. Export!CurrentInChannel'
  <2>1. set' => cancelled'
    BY <1>6, Resumed DEF Export!IInv, Export!TypeOK
  <2> QED BY <2>1 DEF Export!CurrentInChannel
<1>8. Export!DeliveredOnTheWay'
  <2> SUFFICES ASSUME NEW i \in DOMAIN delivered, i \notin DOMAIN files, ~cancelled', result # "error"
               PROVE  \E j \in DOMAIN chan : chan[j] = Export!Msg("SetEnd", i)
    BY <1>1 DEF Export!DeliveredOnTheWay
  <2>1. ~cancelled /\ then # "end"
    BY <1>6, ResumedCancel
  <2> QED BY <2>1 DEF Export!IInv, Export!DeliveredOnTheWay
<1>9. Export!Endings'
  BY <1>1, Resumed, ResumedCancel DEF Export!IInv, Export!Endings, Export!TypeOK, Export!Aborts
<1> QED BY <1>2, <1>3, <1>4, <1>5, <1>7, <1>8, <1>9 DEF Export!IInv

\* A step that only touches the mailbox.
LEMMA OnlyMail ==
  ASSUME Export!IInv, MailTyped',
         UNCHANGED <<pc, set, rsIndex, pushing, then, cancelled, outcome, doomed,
                     eOpen, eSent, eSets, eTold, eEnded, eSignal,
                     batch, failed, writer, index, written, files, result, delivered, chan>>
  PROVE  Export!IInv'
<1>1. Export!TypeOK' /\ chan' \in Seq(Export!SinkMsg) /\ pushing' \in Export!SinkMsg
  <2>1. RunTyped' /\ WriterTyped'
    BY Typed DEF RunTyped, WriterTyped, Export!S!StreamTypeOK
  <2> QED BY <2>1, TypedNext
<1>2. Export!SetFollowsStream' /\ Export!PushedInTurn' /\ Export!IndexesBelow'
  BY DEF Export!IInv, Export!SetFollowsStream, Export!PushedInTurn, Export!IndexesBelow
<1>3. Export!ChannelInOrder' /\ Export!CurrentInChannel'
  BY DEF Export!IInv, Export!ChannelInOrder, Export!CurrentInChannel
<1>4. Export!DeliveredOnTheWay' /\ Export!Endings' /\ Export!KeptAsDelivered' /\ Export!CancelDiscards'
  BY DEF Export!IInv, Export!DeliveredOnTheWay, Export!Endings, Export!KeptAsDelivered, Export!CancelDiscards
<1> QED BY <1>1, <1>2, <1>3, <1>4 DEF Export!IInv

LEMMA SinkPushInv ==
  ASSUME Export!IInv, Export!SinkPush
  PROVE  Export!IInv'
<1>1. CASE Export!PushOk
  BY <1>1, PushOkInv
<1>2. CASE Export!PushGone
  <2>1. MailTyped'
    BY <1>2, Typed DEF Export!PushGone, Export!mailVars, MailTyped
  <2> QED BY <1>2, <2>1, PushFailsInv DEF Export!PushGone
<1>3. CASE Export!PushWaits
  <2>1. MailTyped'
    BY <1>3, Received DEF Export!PushWaits
  <2>2. CASE Export!Stops
    BY <1>3, <2>1, <2>2, PushFailsInv DEF Export!PushWaits
  <2>3. CASE ~Export!Stops
    <3>1. UNCHANGED <<pc, set, rsIndex, pushing, then, cancelled, outcome, doomed,
                      eOpen, eSent, eSets, eTold, eEnded, eSignal,
                      batch, failed, writer, index, written, files, result, delivered, chan>>
      BY <1>3, <2>3 DEF Export!PushWaits, Export!PushStep, Export!writerVars, Export!streamVars
    <3> QED BY <2>1, <3>1, OnlyMail
  <2> QED BY <2>2, <2>3
<1> QED BY <1>1, <1>2, <1>3 DEF Export!SinkPush

-----------------------------------------------------------------------------
(* The export thread                                                       *)

\* What a step of the writer leaves to the actor.
LEMMA WriterLeaves ==
  ASSUME Export!IInv, Export!WriterOnly
  PROVE  /\ Export!SetFollowsStream' /\ Export!PushedInTurn' /\ RunTyped' /\ MailTyped'
         /\ UNCHANGED <<pc, set, rsIndex, then, cancelled, outcome, batch, delivered, doomed, eSent, eSets>>
<1>1. UNCHANGED <<mail, posts, gone, pc, batch, set, rsIndex, pushing, then, cancelled, failed,
                  outcome, eOpen, eSent, eSets, eTold, eEnded, eSignal, delivered, whole, doomed, dying>>
  BY DEF Export!WriterOnly, Export!mailVars, Export!runVars, Export!streamVars, Export!history
<1>2. RunTyped' /\ MailTyped'
  BY <1>1, Typed DEF RunTyped, MailTyped, Export!S!StreamTypeOK
<1>3. Export!SetFollowsStream' /\ Export!PushedInTurn'
  BY <1>1 DEF Export!IInv, Export!SetFollowsStream, Export!PushedInTurn
<1> QED BY <1>1, <1>2, <1>3

LEMMA WriterEndsInv ==
  ASSUME Export!IInv, Export!WriterOnly, writer # "gone",
         NEW e \in BOOLEAN, Export!WriterEnds(e), e \/ pc = "over",
         ~e => chan = <<>> \/ chan[1].kind = "RunEnd"
  PROVE  Export!IInv'
<1>1. /\ writer' = "gone" /\ chan' = <<>> /\ result' = (IF e \/ files = <<>> THEN "error" ELSE "ok")
      /\ index' = 0 /\ written' = 0 /\ files' = files
  BY DEF Export!WriterEnds
<1>2. UNCHANGED <<pc, set, rsIndex, then, cancelled, outcome, batch, delivered, doomed, eSets>>
  BY WriterLeaves
<1>3. Export!TypeOK' /\ chan' \in Seq(Export!SinkMsg) /\ pushing' \in Export!SinkMsg
  <2>1. WriterTyped'
    <3>1. chan' \in Seq(Export!SinkMsg) /\ Len(chan') <= Capacity
      BY <1>1, ExportConstants
    <3>2. index' \in 0..MaxSets * Batches /\ written' \in 0..ExportRows
      BY <1>1, ExportConstants
    <3>3. result' \in {"none", "ok", "error"}
      BY <1>1
    <3> QED BY <1>1, <3>1, <3>2, <3>3, Typed DEF WriterTyped
  <2> QED BY <2>1, TypedNext, WriterLeaves
<1>4. Export!IndexesBelow' /\ Export!KeptAsDelivered' /\ Export!CancelDiscards'
  BY <1>1, <1>2 DEF Export!IInv, Export!IndexesBelow, Export!KeptAsDelivered, Export!CancelDiscards
<1>5. Export!ChannelInOrder' /\ Export!CurrentInChannel'
  BY <1>1 DEF Export!ChannelInOrder, Export!CurrentInChannel
<1>6. Export!DeliveredOnTheWay'
  <2> SUFFICES ASSUME NEW i \in DOMAIN delivered, i \notin DOMAIN files, ~cancelled, result' # "error"
               PROVE  FALSE
    BY <1>1, <1>2 DEF Export!DeliveredOnTheWay
  <2>1. ~e /\ pc = "over"
    BY <1>1
  <2>2. result # "error"
    BY DEF Export!IInv, Export!Endings
  <2>3. PICK j \in DOMAIN chan : chan[j] = Export!Msg("SetEnd", i)
    BY <2>1, <2>2 DEF Export!IInv, Export!DeliveredOnTheWay
  <2>4. chan[j].kind = "SetEnd"
    BY <2>3, MessageKinds
  <2>5. chan \in Seq(Export!SinkMsg) /\ chan # <<>>
    BY <2>3 DEF Export!IInv
  <2>6. 1 \in DOMAIN chan /\ chan[1].kind = "RunEnd"
    BY <2>1, <2>5
  <2>7. 1 = Len(chan)
    BY <2>6 DEF Export!IInv, Export!ChannelInOrder
  <2>8. j = 1
    BY <2>3, <2>5, <2>7
  <2> QED BY <2>4, <2>6, <2>8
<1>7. Export!Endings'
  BY <1>1, <1>2 DEF Export!IInv, Export!Endings
<1> QED BY <1>3, <1>4, <1>5, <1>6, <1>7, WriterLeaves DEF Export!IInv

\* What is left in the channel when the writer takes its first message.
LEMMA TailFacts ==
  ASSUME NEW q \in Seq(Export!SinkMsg), q # <<>>
  PROVE  /\ Len(q) \in Nat /\ Len(q) > 0 /\ Tail(q) \in Seq(Export!SinkMsg) /\ Len(Tail(q)) = Len(q) - 1
         /\ DOMAIN Tail(q) = 1..Len(q) - 1 /\ DOMAIN q = 1..Len(q)
         /\ \A k \in 1..Len(q) - 1 : Tail(q)[k] = q[k + 1]
         /\ q[1] \in Export!SinkMsg /\ Head(q) = q[1]
OBVIOUS

LEMMA TakeChannel ==
  ASSUME Export!IInv, chan # <<>>, chan' = Tail(chan), written' \in Nat, Export!WriterOnly,
         Takes(chan, writer, index, written, writer', index', written'), writer # "gone"
  PROVE  Export!ChannelInOrder' /\ Export!CurrentInChannel'
<1>1. chan \in Seq(Export!SinkMsg) /\ written \in Nat
  BY ExportConstants DEF Export!IInv, Export!TypeOK
<1>2. UNCHANGED <<pc, set, rsIndex, then, cancelled, delivered, doomed, eSent>>
  BY WriterLeaves
<1>3. /\ Len(chan) \in Nat /\ Len(chan) > 0 /\ Len(chan') = Len(chan) - 1
      /\ DOMAIN chan' = 1..Len(chan) - 1 /\ DOMAIN chan = 1..Len(chan)
      /\ \A k \in 1..Len(chan) - 1 : chan'[k] = chan[k + 1]
  BY <1>1, TailFacts
<1>4. ASSUME NEW i, NEW j \in 2..Len(chan) + 1, NEW s \in 0..j - 1,
             Export!InSet(chan, writer, index, s, j, i)
      PROVE  \E t \in 0..(j - 1) - 1 :
               /\ Export!InSet(chan', writer', index', t, j - 1, i)
               /\ Export!RowsBefore(written', t, j - 1) = Export!RowsBefore(written, s, j)
  BY <1>1, <1>4, TakeInSet
<1>5. Export!ChannelInOrder'
  <2> SUFFICES ASSUME NEW k \in 1..Len(chan) - 1
               PROVE  /\ chan'[k].kind # "none"
                      /\ chan'[k].kind = "SetStart" => chan'[k].index <= rsIndex'
                      /\ chan'[k].kind = "Batch" =>
                          \E s \in 0..k - 1 : /\ Export!InSet(chan', writer', index', s, k, chan'[k].index)
                                              /\ Export!RowsBefore(written', s, k) < ExportRows
                      /\ chan'[k].kind = "SetEnd" =>
                          /\ chan'[k].index \in DOMAIN delivered'
                          /\ chan'[k].index < rsIndex' /\ chan'[k].index \notin doomed'
                          /\ \E s \in 0..k - 1 :
                                /\ Export!InSet(chan', writer', index', s, k, chan'[k].index)
                                /\ Export!RowsBefore(written', s, k) = delivered'[chan'[k].index]
                      /\ chan'[k].kind = "RunEnd" => pc' = "over" /\ k = Len(chan')
    BY <1>3 DEF Export!ChannelInOrder
  <2> DEFINE j == k + 1
  <2>1. /\ j \in 2..Len(chan) + 1 /\ j \in DOMAIN chan /\ j - 1 = k /\ chan'[k] = chan[j]
        /\ (j - 1) - 1 = k - 1 /\ (j = Len(chan) => k = Len(chan'))
    <3>1. Len(chan) \in Nat /\ Len(chan') = Len(chan) - 1 /\ k \in Nat
      BY <1>3
    <3>2. j \in 2..Len(chan) + 1 /\ j \in 1..Len(chan) /\ j - 1 = k /\ (j - 1) - 1 = k - 1
          /\ (j = Len(chan) => k = Len(chan'))
      <4>1. j - 1 = k /\ (j - 1) - 1 = k - 1
        BY <3>1
      <4>2. j \in 2..Len(chan) + 1 /\ j \in 1..Len(chan)
        BY <3>1
      <4>3. j = Len(chan) => k = Len(chan')
        <5>1. ASSUME j = Len(chan) PROVE k = Len(chan) - 1
          BY <4>1, <5>1
        <5> QED BY <3>1, <5>1
      <4> QED BY <4>1, <4>2, <4>3
    <3>3. chan'[k] = chan[j] /\ j \in DOMAIN chan
      BY <1>3, <3>2
    <3> QED BY <3>2, <3>3
  <2> HIDE DEF j
  <2>2. /\ chan[j].kind # "none" /\ (chan[j].kind = "SetStart" => chan[j].index <= rsIndex)
        /\ chan[j].kind = "RunEnd" => pc = "over" /\ j = Len(chan)
    BY <2>1 DEF Export!IInv, Export!ChannelInOrder
  <2>3. ASSUME chan[j].kind = "Batch"
        PROVE  \E s \in 0..k - 1 : /\ Export!InSet(chan', writer', index', s, k, chan[j].index)
                                   /\ Export!RowsBefore(written', s, k) < ExportRows
    <3>1. PICK s \in 0..j - 1 : /\ Export!InSet(chan, writer, index, s, j, chan[j].index)
                                /\ Export!RowsBefore(written, s, j) < ExportRows
      BY <2>1, <2>3 DEF Export!IInv, Export!ChannelInOrder
    <3> QED BY <1>4, <2>1, <3>1
  <2>4. ASSUME chan[j].kind = "SetEnd"
        PROVE  /\ chan[j].index \in DOMAIN delivered
               /\ chan[j].index < rsIndex /\ chan[j].index \notin doomed
               /\ \E s \in 0..k - 1 :
                     /\ Export!InSet(chan', writer', index', s, k, chan[j].index)
                     /\ Export!RowsBefore(written', s, k) = delivered[chan[j].index]
    <3>1. /\ chan[j].index \in DOMAIN delivered
          /\ chan[j].index < rsIndex /\ chan[j].index \notin doomed
      BY <2>1, <2>4 DEF Export!IInv, Export!ChannelInOrder
    <3>2. PICK s \in 0..j - 1 : /\ Export!InSet(chan, writer, index, s, j, chan[j].index)
                                /\ Export!RowsBefore(written, s, j) = delivered[chan[j].index]
      BY <2>1, <2>4 DEF Export!IInv, Export!ChannelInOrder
    <3> QED BY <1>4, <2>1, <3>1, <3>2
  <2> QED BY <1>2, <2>1, <2>2, <2>3, <2>4
<1>6. Export!CurrentInChannel'
  <2> SUFFICES ASSUME ~cancelled, set, pc = "push" => then # "done"
               PROVE  \E t \in 0..Len(chan') :
                        /\ Export!InSet(chan', writer', index', t, Len(chan') + 1, rsIndex)
                        /\ Export!RowsBefore(written', t, Len(chan') + 1)
                             + (IF then = "rows" THEN 1 ELSE 0) = eSent
    BY <1>2 DEF Export!CurrentInChannel
  <2>1. PICK s \in 0..Len(chan) :
           /\ Export!InSet(chan, writer, index, s, Len(chan) + 1, rsIndex)
           /\ Export!RowsBefore(written, s, Len(chan) + 1) + (IF then = "rows" THEN 1 ELSE 0) = eSent
    BY DEF Export!IInv, Export!CurrentInChannel
  <2> DEFINE j == Len(chan) + 1
  <2>2. j \in 2..Len(chan) + 1 /\ s \in 0..j - 1 /\ j - 1 = Len(chan') + 1 /\ (j - 1) - 1 = Len(chan')
    <3>1. Len(chan) \in Nat /\ Len(chan) > 0 /\ Len(chan') = Len(chan) - 1
      BY <1>3
    <3> QED BY <3>1
  <2>3. Export!InSet(chan, writer, index, s, j, rsIndex)
    BY <2>1
  <2>4. Export!RowsBefore(written, s, j) + (IF then = "rows" THEN 1 ELSE 0) = eSent
    BY <2>1
  <2> HIDE DEF j
  <2>5. PICK t \in 0..(j - 1) - 1 :
          /\ Export!InSet(chan', writer', index', t, j - 1, rsIndex)
          /\ Export!RowsBefore(written', t, j - 1) = Export!RowsBefore(written, s, j)
    BY <1>4, <2>2, <2>3
  <2> QED BY <2>2, <2>4, <2>5
<1> QED BY <1>5, <1>6

\* The writer takes what is not the end of a set.
LEMMA TakeInv ==
  ASSUME Export!IInv, Export!WriterOnly, chan # <<>>, chan' = Tail(chan), chan[1].kind \in {"Batch", "SetStart"},
         Takes(chan, writer, index, written, writer', index', written'), writer # "gone",
         writer' \in {"idle", "writing"}, index' \in 0..MaxSets * Batches, written' \in 0..ExportRows,
         UNCHANGED <<files, result>>
  PROVE  Export!IInv'
<1>1. chan \in Seq(Export!SinkMsg) /\ Len(chan) <= Capacity
  BY DEF Export!IInv, Export!TypeOK
<1>2. UNCHANGED <<pc, set, rsIndex, then, cancelled, outcome, batch, delivered, doomed, eSets>>
  BY WriterLeaves
<1>3. Export!TypeOK' /\ chan' \in Seq(Export!SinkMsg) /\ pushing' \in Export!SinkMsg
  <2>1. chan' \in Seq(Export!SinkMsg) /\ Len(chan') <= Capacity
    BY <1>1, ExportConstants
  <2>2. WriterTyped'
    BY <2>1, Typed DEF WriterTyped
  <2> QED BY <2>2, TypedNext, WriterLeaves
<1>4. Export!IndexesBelow' /\ Export!KeptAsDelivered' /\ Export!CancelDiscards'
  BY <1>2 DEF Export!IInv, Export!IndexesBelow, Export!KeptAsDelivered, Export!CancelDiscards
<1>5. Export!ChannelInOrder' /\ Export!CurrentInChannel'
  BY ExportConstants, TakeChannel
<1>6. Export!DeliveredOnTheWay'
  <2> SUFFICES ASSUME NEW i \in DOMAIN delivered, NEW j \in DOMAIN chan, chan[j] = Export!Msg("SetEnd", i)
               PROVE  \E k \in DOMAIN chan' : chan'[k] = Export!Msg("SetEnd", i)
    BY <1>2 DEF Export!IInv, Export!DeliveredOnTheWay
  <2>1. chan[j].kind = "SetEnd"
    BY MessageKinds
  <2>2. j # 1
    BY <2>1
  <2>3. j - 1 \in DOMAIN chan' /\ (j - 1) + 1 = j /\ chan'[j - 1] = chan[(j - 1) + 1]
    BY <1>1, <2>2, TailFacts
  <2> QED BY <2>3
<1>7. Export!Endings'
  BY <1>2 DEF Export!IInv, Export!Endings
<1> QED BY <1>3, <1>4, <1>5, <1>6, <1>7, WriterLeaves DEF Export!IInv

\* The writer takes the end of its set: the file has the rows delivered.
LEMMA FinishInv ==
  ASSUME Export!IInv, Export!WriterOnly, chan # <<>>, chan' = Tail(chan), chan[1].kind = "SetEnd",
         writer = "writing", writer' = "idle", index' = 0, written' = 0,
         files' = Export!Put(files, index, written), UNCHANGED result
  PROVE  Export!IInv'
<1>1. chan \in Seq(Export!SinkMsg) /\ Len(chan) <= Capacity /\ written \in Nat /\ rsIndex \in 0..MaxSets * Batches
  BY ExportConstants DEF Export!IInv, Export!TypeOK
<1>2. UNCHANGED <<pc, set, rsIndex, then, cancelled, outcome, batch, delivered, doomed, eSets>>
  BY WriterLeaves
<1>3. /\ chan[1].index = index
      /\ index \in DOMAIN delivered /\ index < rsIndex /\ index \notin doomed
      /\ delivered[index] = written
  <2>1. 1 \in DOMAIN chan
    BY <1>1
  <2>2. /\ chan[1].index \in DOMAIN delivered
        /\ chan[1].index < rsIndex /\ chan[1].index \notin doomed
        /\ \E s \in 0..1 - 1 : /\ Export!InSet(chan, writer, index, s, 1, chan[1].index)
                               /\ Export!RowsBefore(written, s, 1) = delivered[chan[1].index]
    BY <2>1 DEF Export!IInv, Export!ChannelInOrder
  <2>3. /\ Export!InSet(chan, writer, index, 0, 1, chan[1].index)
        /\ Export!RowsBefore(written, 0, 1) = delivered[chan[1].index]
    BY <2>2
  <2>4. index = chan[1].index
    BY <2>3 DEF Export!InSet, Export!Begins
  <2>5. Export!RowsBefore(written, 0, 1) = written
    BY <1>1 DEF Export!RowsBefore
  <2> QED BY <2>2, <2>3, <2>4, <2>5
<1>4. /\ DOMAIN files' = DOMAIN files \cup {index}
      /\ files'[index] = written
      /\ \A k \in DOMAIN files : k # index => files'[k] = files[k]
  BY DEF Export!Put
<1>5. index \in 0..MaxSets * Batches /\ index \in 0..rsIndex
  BY <1>1, <1>3, ExportConstants DEF Export!IInv, Export!TypeOK
<1>6. Export!TypeOK' /\ chan' \in Seq(Export!SinkMsg) /\ pushing' \in Export!SinkMsg
  <2>1. chan' \in Seq(Export!SinkMsg) /\ Len(chan') <= Capacity
    BY <1>1, ExportConstants
  <2>2. index \in Export!Sets
    <3> DEFINE m == MaxSets * Batches
    <3>1. m \in Nat /\ rsIndex \in 0..m /\ index \in 0..m
      BY <1>1, <1>5, ExportConstants
    <3> HIDE DEF m
    <3>2. index \in 0..m - 1
      BY <1>3, <3>1
    <3> QED BY <3>2 DEF m, Export!Sets
  <2>3. DOMAIN files' \subseteq Export!Sets
    BY <1>4, <2>2, Typed DEF WriterTyped
  <2>4. index' \in 0..MaxSets * Batches /\ written' \in 0..ExportRows
    BY ExportConstants
  <2>5. WriterTyped'
    BY <2>1, <2>3, <2>4, Typed DEF WriterTyped
  <2> QED BY <2>5, TypedNext, WriterLeaves
<1>7. Export!IndexesBelow'
  <2>1. \A i \in DOMAIN files' : i \in 0..rsIndex /\ i < rsIndex
    BY <1>3, <1>4, <1>5 DEF Export!IInv, Export!IndexesBelow
  <2> QED BY <1>2, <2>1 DEF Export!IInv, Export!IndexesBelow
<1>8. Export!KeptAsDelivered' /\ Export!CancelDiscards'
  BY <1>2, <1>3, <1>4 DEF Export!IInv, Export!KeptAsDelivered, Export!CancelDiscards
<1>9. Export!ChannelInOrder' /\ Export!CurrentInChannel'
  <2>1. Takes(chan, writer, index, written, writer', index', written')
    BY DEF Takes
  <2> QED BY <2>1, TakeChannel
<1>10. Export!DeliveredOnTheWay'
  <2> SUFFICES ASSUME NEW i \in DOMAIN delivered, NEW j \in DOMAIN chan, chan[j] = Export!Msg("SetEnd", i)
               PROVE  i \in DOMAIN files' \/ \E k \in DOMAIN chan' : chan'[k] = Export!Msg("SetEnd", i)
    BY <1>2, <1>4 DEF Export!IInv, Export!DeliveredOnTheWay
  <2>1. CASE j = 1
    BY <1>3, <1>4, <2>1, MessageKinds
  <2>2. CASE j # 1
    <3>1. j - 1 \in DOMAIN chan' /\ (j - 1) + 1 = j /\ chan'[j - 1] = chan[(j - 1) + 1]
      BY <1>1, <2>2, TailFacts
    <3> QED BY <3>1
  <2> QED BY <2>1, <2>2
<1>11. Export!Endings'
  BY <1>2 DEF Export!IInv, Export!Endings
<1> QED BY <1>6, <1>7, <1>8, <1>9, <1>10, <1>11, WriterLeaves DEF Export!IInv

LEMMA SignedInInv ==
  ASSUME Export!IInv, Export!WriterOnly, writer = "signin", writer' = "idle",
         UNCHANGED <<chan, index, written, files, result>>
  PROVE  Export!IInv'
<1>1. UNCHANGED <<pc, set, rsIndex, then, cancelled, outcome, batch, delivered, doomed, eSent, eSets>>
  BY WriterLeaves
<1>2. Export!TypeOK' /\ chan' \in Seq(Export!SinkMsg) /\ pushing' \in Export!SinkMsg
  <2>1. WriterTyped'
    BY Typed DEF WriterTyped
  <2> QED BY <2>1, TypedNext, WriterLeaves
\* no set is in hand, before or after
<1>3. \A s, j, i : Export!InSet(chan, writer, index, s, j, i) => Export!InSet(chan', writer', index', s, j, i)
  BY DEF Export!InSet, Export!Begins
<1>4. Export!ChannelInOrder'
  BY <1>1, <1>3 DEF Export!IInv, Export!ChannelInOrder
<1>5. Export!CurrentInChannel'
  BY <1>1, <1>3 DEF Export!IInv, Export!CurrentInChannel
<1>6. Export!IndexesBelow' /\ Export!DeliveredOnTheWay' /\ Export!KeptAsDelivered' /\ Export!CancelDiscards'
  BY <1>1 DEF Export!IInv, Export!IndexesBelow, Export!DeliveredOnTheWay, Export!KeptAsDelivered, Export!CancelDiscards
<1>7. Export!Endings'
  BY <1>1 DEF Export!IInv, Export!Endings
<1> QED BY <1>2, <1>4, <1>5, <1>6, <1>7, WriterLeaves DEF Export!IInv

LEMMA WriterInv ==
  ASSUME Export!IInv, Export!Writes
  PROVE  Export!IInv'
<1> DEFINE m == Export!NextItem
<1>1. /\ chan \in Seq(Export!SinkMsg) /\ written \in 0..ExportRows /\ ExportRows \in Nat
      /\ writer \in {"signin", "idle", "writing", "gone"} /\ index \in 0..MaxSets * Batches
  BY ExportConstants DEF Export!IInv, Export!TypeOK
\* the first message of the channel
<1>2. ASSUME chan # <<>>
      PROVE  /\ m = chan[1] /\ 1 \in DOMAIN chan
             /\ m.kind \in {"SetStart", "Batch", "SetEnd", "Failed", "RunEnd"}
             /\ m.index \in 0..MaxSets * Batches
             /\ m.kind = "RunEnd" => pc = "over"
             /\ m.kind = "Batch" => writer = "writing" /\ written < ExportRows
             /\ m.kind = "SetEnd" => writer = "writing"
  <2>1. m = chan[1] /\ 1 \in DOMAIN chan /\ chan[1] \in Export!SinkMsg
    BY <1>1, <1>2, TailFacts DEF Export!NextItem
  <2>2. chan[1].kind # "none" /\ (chan[1].kind = "RunEnd" => pc = "over")
    BY <2>1 DEF Export!IInv, Export!ChannelInOrder
  <2>3. ASSUME chan[1].kind = "Batch" PROVE writer = "writing" /\ written < ExportRows
    <3>1. \E s \in 0..1 - 1 : /\ Export!InSet(chan, writer, index, s, 1, chan[1].index)
                              /\ Export!RowsBefore(written, s, 1) < ExportRows
      BY <2>1, <2>3 DEF Export!IInv, Export!ChannelInOrder
    <3>2. /\ Export!InSet(chan, writer, index, 0, 1, chan[1].index)
          /\ Export!RowsBefore(written, 0, 1) < ExportRows
      BY <3>1
    <3>3. writer = "writing"
      BY <3>2 DEF Export!InSet, Export!Begins
    <3>4. Export!RowsBefore(written, 0, 1) = written
      BY <1>1 DEF Export!RowsBefore
    <3> QED BY <3>2, <3>3, <3>4
  <2>4. ASSUME chan[1].kind = "SetEnd" PROVE writer = "writing"
    <3>1. \E s \in 0..1 - 1 : Export!InSet(chan, writer, index, s, 1, chan[1].index)
      BY <2>1, <2>4 DEF Export!IInv, Export!ChannelInOrder
    <3>2. Export!InSet(chan, writer, index, 0, 1, chan[1].index)
      BY <3>1
    <3> QED BY <3>2 DEF Export!InSet, Export!Begins
  <2> QED BY <2>1, <2>2, <2>3, <2>4 DEF Export!SinkMsg
<1>3. chan = <<>> => m.kind = "none"
  BY MessageKinds DEF Export!NextItem, Export!Nothing
<1> HIDE DEF m
<1>4. CASE Export!SignIn
  <2>1. writer = "signin" /\ Export!WriterOnly
    BY <1>4 DEF Export!SignIn
  <2>2. CASE Export!WriterEnds(TRUE)
    BY <2>1, <2>2, WriterEndsInv
  <2>3. CASE writer' = "idle" /\ UNCHANGED <<chan, index, written, files, result>>
    BY <2>1, <2>3, SignedInInv
  <2> QED BY <1>4, <2>2, <2>3 DEF Export!SignIn
<1>5. CASE Export!WriterIdle
  <2>1. /\ writer = "idle" /\ Export!WriterOnly /\ (chan # <<>> \/ pc = "over")
        /\ CASE m.kind = "SetStart" ->
                  /\ writer' = "writing" /\ index' = m.index /\ written' = 0
                  /\ Export!Pull /\ UNCHANGED <<files, result>>
             [] m.kind = "Failed" -> Export!WriterEnds(TRUE)
             [] m.kind \in {"RunEnd", "none"} -> Export!WriterEnds(FALSE)
             [] OTHER -> Export!Pull /\ UNCHANGED Export!writerVars
    BY <1>5 DEF Export!WriterIdle, Export!Received, m
  <2>2. CASE m.kind = "SetStart"
    <3>1. /\ writer' = "writing" /\ index' = m.index /\ written' = 0
          /\ Export!Pull /\ UNCHANGED <<files, result>>
      BY <2>1, <2>2
    <3>2. chan # <<>>
      BY <1>3, <2>2
    <3>3. chan' = Tail(chan)
      BY <3>1, <3>2 DEF Export!Pull
    <3>4. /\ index' \in 0..MaxSets * Batches /\ written' \in 0..ExportRows
          /\ chan[1].kind = "SetStart" /\ index' = chan[1].index
      BY <1>1, <1>2, <2>2, <3>1, <3>2
    <3>5. Takes(chan, writer, index, written, writer', index', written')
      BY <2>1, <3>1, <3>4 DEF Takes
    <3> QED BY <2>1, <3>1, <3>2, <3>3, <3>4, <3>5, TakeInv
  <2>3. CASE m.kind = "Failed"
    BY <2>1, <2>3, WriterEndsInv
  <2>4. CASE m.kind \in {"RunEnd", "none"}
    <3>1. Export!WriterEnds(FALSE)
      BY <2>1, <2>4
    <3>2. pc = "over" /\ (chan = <<>> \/ chan[1].kind = "RunEnd")
      BY <1>2, <2>1, <2>4
    <3> QED BY <2>1, <3>1, <3>2, WriterEndsInv
  <2>5. m.kind \in {"SetStart", "Failed", "RunEnd", "none"}
    BY <1>2, <1>3, <2>1
  <2> QED BY <2>2, <2>3, <2>4, <2>5
<1>6. CASE Export!WriterWriting
  <2>1. /\ writer = "writing" /\ Export!WriterOnly
        /\ CASE m.kind = "Batch" ->
                  /\ written' = written + 1 /\ Export!Pull
                  /\ UNCHANGED <<writer, index, files, result>>
             [] m.kind = "SetEnd" ->
                  /\ files' = Export!Put(files, index, written) /\ writer' = "idle"
                  /\ index' = 0 /\ written' = 0 /\ Export!Pull /\ UNCHANGED result
             [] OTHER -> Export!WriterEnds(TRUE)
    BY <1>6 DEF Export!WriterWriting, m
  <2>2. CASE m.kind = "Batch"
    <3>1. /\ written' = written + 1 /\ Export!Pull
          /\ UNCHANGED <<writer, index, files, result>>
      BY <2>1, <2>2
    <3>2. chan # <<>>
      BY <1>3, <2>2
    <3>3. chan' = Tail(chan) /\ chan[1].kind = "Batch"
      BY <1>2, <2>2, <3>1, <3>2 DEF Export!Pull
    <3>4. written' \in 0..ExportRows
      BY <1>1, <1>2, <2>2, <3>1, <3>2
    <3>5. Takes(chan, writer, index, written, writer', index', written')
      BY <3>1, <3>3 DEF Takes
    <3> QED BY <1>1, <2>1, <3>1, <3>2, <3>3, <3>4, <3>5, TakeInv
  <2>3. CASE m.kind = "SetEnd"
    <3>1. /\ files' = Export!Put(files, index, written) /\ writer' = "idle"
          /\ index' = 0 /\ written' = 0 /\ Export!Pull /\ UNCHANGED result
      BY <2>1, <2>3
    <3>2. chan # <<>>
      BY <1>3, <2>3
    <3>3. chan' = Tail(chan) /\ chan[1].kind = "SetEnd"
      BY <1>2, <2>3, <3>1, <3>2 DEF Export!Pull
    <3> QED BY <2>1, <3>1, <3>2, <3>3, FinishInv
  <2>4. CASE m.kind \notin {"Batch", "SetEnd"}
    BY <2>1, <2>4, WriterEndsInv
  <2> QED BY <2>2, <2>3, <2>4
<1>7. CASE Export!WriteFails
  <2>1. writer = "writing" /\ Export!WriterOnly /\ Export!WriterEnds(TRUE)
    BY <1>7 DEF Export!WriteFails
  <2> QED BY <2>1, WriterEndsInv
<1> QED BY <1>4, <1>5, <1>6, <1>7 DEF Export!Writes

-----------------------------------------------------------------------------
(* The steps of the actor outside sink_push                                *)

LEMMA Moves ==
  ASSUME Export!IInv, rsIndex' = rsIndex, doomed' \subseteq doomed \cup {rsIndex},
         \/ delivered' = delivered
         \/ delivered' = Export!Put(delivered, rsIndex, eSent)
  PROVE  ActorMovesOn
<1>1. rsIndex \in Nat
  BY ExportConstants DEF Export!IInv, Export!TypeOK
<1>2. ASSUME NEW i \in DOMAIN delivered, i < rsIndex
      PROVE  i \in DOMAIN delivered' /\ delivered'[i] = delivered[i]
  <2>1. i # rsIndex
    BY <1>1, <1>2
  <2> QED BY <2>1 DEF Export!Put
<1> QED BY <1>1, <1>2 DEF ActorMovesOn

LEMMA StepBelow ==
  ASSUME Export!IInv, pc \in {"batch", "poll"}, rsIndex' = rsIndex, files' = files,
         \/ delivered' = delivered
         \/ DOMAIN delivered' = DOMAIN delivered \cup {rsIndex} /\ pc' = "push" /\ then' = "end",
         cancelled => cancelled',
         \/ doomed' = doomed
         \/ doomed' = doomed \cup {rsIndex} /\ (cancelled' \/ (pc' = "push" /\ then' = "done")),
         batch' > 0 \/ ~(pc' = "poll" \/ (pc' = "push" /\ then' # "tail")),
         rsIndex + (IF set' \/ (pc' = "push" /\ then' = "set") THEN 1 ELSE 0)
           <= IF batch' = 0 THEN 0 ELSE MaxSets * (batch' - 1) + eSets'
  PROVE  Export!IndexesBelow'
<1>1. rsIndex \in Nat /\ rsIndex \in 0..rsIndex
  BY ExportConstants DEF Export!IInv, Export!TypeOK
<1>2. ASSUME NEW i \in DOMAIN delivered'
      PROVE  i \in 0..rsIndex' /\ (i = rsIndex' => pc' = "push" /\ then' = "end")
  BY <1>1, <1>2 DEF Export!IInv, Export!IndexesBelow
<1>3. ASSUME NEW i \in doomed'
      PROVE  i \in 0..rsIndex' /\ (i = rsIndex' => cancelled' \/ (pc' = "push" /\ then' = "done"))
  BY <1>1, <1>3 DEF Export!IInv, Export!IndexesBelow
<1>4. \A i \in DOMAIN files' : i \in 0..rsIndex' /\ i < rsIndex'
  BY DEF Export!IInv, Export!IndexesBelow
<1> QED BY <1>2, <1>3, <1>4 DEF Export!IndexesBelow

\* What is left to prove of such a step.
LEMMA ActorInv ==
  ASSUME Export!IInv, pc \in {"batch", "poll"}, UNCHANGED <<chan, writer, index, written, files, result>>,
         ActorMovesOn, RunTyped', MailTyped',
         Export!SetFollowsStream', Export!PushedInTurn', Export!IndexesBelow', Export!CurrentInChannel',
         \A i \in DOMAIN delivered' :
            i \in DOMAIN delivered \/ (pc' = "push" /\ then' = "end" /\ i = rsIndex'),
         cancelled => cancelled', outcome' # "done"
  PROVE  Export!IInv'
<1>1. Export!TypeOK' /\ chan' \in Seq(Export!SinkMsg) /\ pushing' \in Export!SinkMsg
  <2>1. WriterTyped'
    BY Typed DEF WriterTyped
  <2> QED BY <2>1, TypedNext
<1>2. Export!KeptAsDelivered' /\ Export!CancelDiscards'
  BY FilesKept
<1>3. Export!ChannelInOrder'
  BY ChannelKept
<1>4. Export!DeliveredOnTheWay'
  BY DEF Export!IInv, Export!DeliveredOnTheWay
<1>5. Export!Endings'
  BY DEF Export!IInv, Export!Endings
<1> QED BY <1>1, <1>2, <1>3, <1>4, <1>5 DEF Export!IInv

\* What such a step finds.
LEMMA ActorFinds ==
  ASSUME Export!IInv, pc \in {"batch", "poll"}
  PROVE  /\ pc = "poll" => set = eOpen /\ batch > 0
         /\ pc = "batch" => ~set
         /\ then = "tail" /\ outcome # "done"
         /\ rsIndex \in Nat /\ batch \in 0..Batches /\ set \in BOOLEAN /\ eSets \in 0..MaxSets
         /\ eSent \in 0..ExportRows /\ ExportRows \in Nat
         /\ rsIndex + (IF set THEN 1 ELSE 0) <= IF batch = 0 THEN 0 ELSE MaxSets * (batch - 1) + eSets
<1>1. /\ pc = "poll" => set = eOpen
      /\ pc = "batch" => ~set
      /\ then = "tail"
  BY DEF Export!IInv, Export!SetFollowsStream
<1>2. outcome # "done"
  BY DEF Export!IInv, Export!Endings
<1>3. rsIndex \in Nat /\ batch \in 0..Batches /\ set \in BOOLEAN /\ eSets \in 0..MaxSets
      /\ eSent \in 0..ExportRows /\ ExportRows \in Nat
  BY ExportConstants DEF Export!IInv, Export!TypeOK, Export!S!StreamTypeOK
<1>4. /\ pc = "poll" => batch > 0
      /\ rsIndex + (IF set THEN 1 ELSE 0) <= IF batch = 0 THEN 0 ELSE MaxSets * (batch - 1) + eSets
  BY DEF Export!IInv, Export!IndexesBelow
<1> QED BY <1>1, <1>2, <1>3, <1>4

LEMMA BatchInv ==
  ASSUME Export!IInv, Export!ExecuteOk
  PROVE  Export!IInv'
<1>1. /\ pc = "batch" /\ batch < Batches /\ pc' = "poll" /\ batch' = batch + 1
      /\ eOpen' = FALSE /\ eSent' = 0 /\ eSets' = 0 /\ eTold' = FALSE /\ eEnded' = FALSE /\ eSignal' = FALSE
      /\ UNCHANGED <<mail, posts, gone, set, rsIndex, pushing, then, cancelled, failed, outcome,
                     chan, writer, index, written, files, result, delivered, doomed>>
  BY DEF Export!ExecuteOk, Export!mailVars, Export!writerVars
<1>2. ActorMovesOn
  BY <1>1, Moves
<1>3. RunTyped' /\ MailTyped'
  <2>1. batch' \in 0..Batches
    BY <1>1, ActorFinds, ExportConstants
  <2>2. Export!S!StreamTypeOK'
    <3>1. eSent' \in 0..ExportRows /\ eSets' \in 0..MaxSets
      BY <1>1, ExportConstants
    <3> QED BY <1>1, <3>1, Zenon DEF Export!S!StreamTypeOK
  <2>3. MailTyped'
    BY <1>1, Typed DEF MailTyped
  <2> QED BY <1>1, <2>1, <2>2, <2>3, Typed DEF RunTyped
<1>4. ~set /\ then = "tail"
  BY <1>1, ActorFinds
<1>5. Export!SetFollowsStream' /\ Export!PushedInTurn' /\ Export!CurrentInChannel'
  BY <1>1, <1>4, Typed DEF RunTyped, Export!SetFollowsStream, Export!PushedInTurn, Export!CurrentInChannel
<1>6. Export!IndexesBelow'
  <2>1. rsIndex <= IF batch' = 0 THEN 0 ELSE MaxSets * (batch' - 1) + eSets'
    <3>1. rsIndex \in Nat /\ batch \in 0..Batches /\ eSets \in 0..MaxSets /\ MaxSets \in Nat
          /\ rsIndex <= IF batch = 0 THEN 0 ELSE MaxSets * (batch - 1) + eSets
      BY <1>1, <1>4, ActorFinds, ExportConstants
    <3>2. batch' - 1 = batch /\ batch' # 0 /\ eSets' = 0
      BY <1>1, <3>1
    <3>3. rsIndex <= MaxSets * batch
      <4>1. CASE batch = 0
        BY <3>1, <4>1
      <4>2. CASE batch # 0
        <5>1. batch \in 1..Batches
          BY <3>1, <4>2, ExportConstants
        <5> DEFINE x == MaxSets * (batch - 1) + eSets
                   y == MaxSets * batch
        <5>2. x \in Nat /\ x <= y /\ y \in Nat /\ rsIndex <= x
          BY <3>1, <4>2, <5>1, SetsBound
        <5> HIDE DEF x, y
        <5>3. rsIndex <= y
          BY <3>1, <5>2
        <5> QED BY <5>3 DEF y
      <4> QED BY <4>1, <4>2
    <3>4. MaxSets * batch \in Nat
      BY <3>1
    <3>5. MaxSets * (batch' - 1) + eSets' = MaxSets * batch
      BY <3>2, <3>4
    <3> QED BY <3>2, <3>3, <3>5
  <2>2. batch' > 0
    BY <1>1, ActorFinds, ExportConstants
  <2>3. rsIndex + (IF set' \/ (pc' = "push" /\ then' = "set") THEN 1 ELSE 0) = rsIndex
    BY <1>1, <1>4, ActorFinds
  <2> QED BY <1>1, <2>1, <2>2, <2>3, StepBelow
<1>7. outcome' # "done"
  BY <1>1, ActorFinds
<1> QED BY <1>1, <1>2, <1>3, <1>5, <1>6, <1>7, ActorInv

LEMMA LastPushed ==
  ASSUME NEW c \in BOOLEAN, NEW f \in BOOLEAN, Export!LastPush(c, f)
  PROVE  /\ pc' = "push" /\ then' = "tail" /\ pushing' \in Export!SinkMsg
         /\ pushing'.kind \in {"Failed", "RunEnd"}
BY Messages, MessageKinds DEF Export!LastPush, Export!Push

LEMMA EndInv ==
  ASSUME Export!IInv, Export!ExecuteErr \/ Export!AllDone
  PROVE  Export!IInv'
<1>1. /\ pc = "batch" /\ batch' \in 0..Batches /\ batch' \in {batch, batch + 1} /\ batch \in 0..Batches
      /\ failed' \in BOOLEAN
      /\ UNCHANGED <<mail, posts, gone, set, rsIndex, cancelled, chan, writer, index, written, files, result,
                     delivered, doomed, eOpen, eSent, eSets, eTold, eEnded, eSignal>>
  <2>1. /\ pc = "batch" /\ (batch' = batch \/ (batch < Batches /\ batch' = batch + 1))
        /\ failed' = TRUE \/ failed' = failed
        /\ UNCHANGED <<mail, posts, gone, set, rsIndex, cancelled, chan, writer, index, written, files, result,
                       delivered, doomed, eOpen, eSent, eSets, eTold, eEnded, eSignal>>
    BY DEF Export!ExecuteErr, Export!AllDone, Export!mailVars, Export!writerVars, Export!streamVars, Export!history
  <2>2. batch \in 0..Batches /\ failed \in BOOLEAN
    BY Typed DEF RunTyped
  <2>3. batch' \in 0..Batches /\ batch' \in {batch, batch + 1}
    BY <2>1, <2>2, ExportConstants
  <2>4. failed' \in BOOLEAN
    BY <2>1, <2>2
  <2> QED BY <2>1, <2>2, <2>3, <2>4
<1>2. /\ pc' \in {"push", "over"} /\ then' = "tail" /\ pushing' \in Export!SinkMsg
      /\ pc' = "push" => pushing'.kind \in {"Failed", "RunEnd"}
      /\ outcome' \in {"none", "failed", "cancelled"}
  <2>0. then = "tail" /\ outcome \in {"none", "failed", "cancelled"} /\ pushing \in Export!SinkMsg
        /\ cancelled \in BOOLEAN /\ failed \in BOOLEAN
    BY <1>1, ActorFinds, Typed DEF RunTyped
  <2>1. CASE Export!LastPush(FALSE, TRUE) /\ UNCHANGED outcome
    BY <2>0, <2>1, LastPushed
  <2>2. CASE pc' = "over" /\ outcome' = "failed" /\ UNCHANGED <<pushing, then>>
    BY <2>0, <2>2
  <2>3. CASE Export!LastPush(cancelled, failed) /\ UNCHANGED outcome
    BY <2>0, <2>3, LastPushed
  <2> QED BY <2>1, <2>2, <2>3 DEF Export!ExecuteErr, Export!AllDone
<1>3. ActorMovesOn
  BY <1>1, Moves
<1>4. RunTyped' /\ MailTyped'
  <2>1. Export!S!StreamTypeOK' /\ MailTyped'
    BY <1>1, Typed DEF RunTyped, Export!S!StreamTypeOK, MailTyped
  <2> QED BY <1>1, <1>2, <2>1, Typed DEF RunTyped
<1>5. ~set
  BY <1>1, ActorFinds
<1>6. Export!SetFollowsStream' /\ Export!PushedInTurn' /\ Export!CurrentInChannel'
  BY <1>1, <1>2, <1>5 DEF Export!SetFollowsStream, Export!PushedInTurn, Export!CurrentInChannel
<1>7. Export!IndexesBelow'
  <2>1. rsIndex <= IF batch' = 0 THEN 0 ELSE MaxSets * (batch' - 1) + eSets
    <3>1. rsIndex \in Nat /\ batch \in Nat /\ eSets \in Nat /\ MaxSets \in Nat
          /\ rsIndex <= IF batch = 0 THEN 0 ELSE MaxSets * (batch - 1) + eSets
      BY <1>1, <1>5, ActorFinds, ExportConstants
    <3>2. CASE batch' = batch
      BY <3>1, <3>2
    <3>3. CASE batch' = batch + 1
      <4>1. batch' # 0 /\ batch' - 1 = batch
        BY <3>1, <3>3
      <4>2. MaxSets * batch \in Nat
        BY <3>1
      <4>3. CASE batch = 0
        <5>1. rsIndex = 0
          BY <3>1, <4>3
        <5> QED BY <3>1, <4>1, <4>2, <5>1
      <4>4. CASE batch # 0
        <5> DEFINE x == MaxSets * (batch - 1)
                   y == MaxSets * batch
        <5>1. x \in Nat /\ y \in Nat /\ y = x + MaxSets
          BY <3>1, <4>4
        <5>2. rsIndex <= x + eSets
          BY <3>1, <4>4
        <5> HIDE DEF x, y
        <5>3. rsIndex <= y + eSets
          BY <3>1, <5>1, <5>2
        <5> QED BY <4>1, <5>3 DEF y
      <4> QED BY <4>3, <4>4
    <3> QED BY <1>1, <3>2, <3>3
  <2>2. rsIndex + (IF set' \/ (pc' = "push" /\ then' = "set") THEN 1 ELSE 0) = rsIndex
    BY <1>1, <1>2, <1>5, ActorFinds
  <2> QED BY <1>1, <1>2, <2>1, <2>2, StepBelow
<1> QED BY <1>1, <1>2, <1>3, <1>4, <1>6, <1>7, ActorInv

\* A step inside a batch that opens no set keeps the number of sets in its bound.
LEMMA SameSets ==
  ASSUME Export!IInv, pc = "poll", UNCHANGED <<rsIndex, set, batch, eSets>>, ~(pc' = "push" /\ then' = "set")
  PROVE  /\ rsIndex + (IF set' \/ (pc' = "push" /\ then' = "set") THEN 1 ELSE 0)
              <= IF batch' = 0 THEN 0 ELSE MaxSets * (batch' - 1) + eSets'
         /\ batch' > 0
<1>1. rsIndex + (IF set THEN 1 ELSE 0) <= IF batch = 0 THEN 0 ELSE MaxSets * (batch - 1) + eSets
  BY ActorFinds
<1>2. batch > 0
  BY ActorFinds
<1> QED BY <1>1, <1>2

LEMMA MailInv ==
  ASSUME Export!IInv, (\E m \in Export!TabMsgs : Export!Post(m)) \/ Export!TakeOther \/ Export!OnMessage
  PROVE  Export!IInv'
<1>1. CASE \E m \in Export!TabMsgs : Export!Post(m)
  <2>1. MailTyped'
    <3>1. PICK m \in Export!TabMsgs : Export!Post(m)
      BY <1>1
    <3>2. mail' = Append(mail, m) /\ posts < MaxPosts /\ posts' = posts + 1 /\ gone' = (m = "Close")
      BY <3>1 DEF Export!Post
    <3>3. mail' \in Seq(Export!TabMsgs) /\ posts' \in 0..MaxPosts
      BY <3>2, Typed, ExportConstants DEF MailTyped
    <3>4. gone' \in BOOLEAN
      BY <3>2
    <3> QED BY <3>3, <3>4 DEF MailTyped
  <2>2. UNCHANGED <<pc, set, rsIndex, pushing, then, cancelled, outcome, doomed,
                    eOpen, eSent, eSets, eTold, eEnded, eSignal,
                    batch, failed, writer, index, written, files, result, delivered, chan>>
    BY <1>1 DEF Export!Post, Export!runVars, Export!writerVars, Export!streamVars, Export!history
  <2> QED BY <2>1, <2>2, OnlyMail
<1>2. CASE Export!TakeOther
  <2>1. MailTyped'
    BY <1>2, Received DEF Export!TakeOther
  <2>2. UNCHANGED <<pc, set, rsIndex, pushing, then, cancelled, outcome, doomed,
                    eOpen, eSent, eSets, eTold, eEnded, eSignal,
                    batch, failed, writer, index, written, files, result, delivered, chan>>
    BY <1>2 DEF Export!TakeOther, Export!runVars, Export!writerVars, Export!streamVars, Export!history
  <2> QED BY <2>1, <2>2, OnlyMail
<1>3. CASE Export!OnMessage
  <2>1. /\ pc = "poll" /\ eTold' = (eTold \/ TRUE)
        /\ UNCHANGED <<mail, posts, gone, pc, batch, set, rsIndex, pushing, then, cancelled, failed, outcome, doomed,
                       eOpen, eSent, eSets, eEnded, eSignal,
                       writer, index, written, files, result, delivered, chan>>
    BY <1>3 DEF Export!OnMessage, Export!Polls, Export!S!Message, Export!mailVars, Export!runVars,
                Export!writerVars, Export!history
  <2>2. RunTyped' /\ MailTyped'
    <3>1. eTold' \in BOOLEAN
      BY <2>1, Zenon
    <3>2. Export!S!StreamTypeOK'
      BY <2>1, <3>1, Typed DEF RunTyped, Export!S!StreamTypeOK
    <3> QED BY <2>1, <3>2, Typed DEF RunTyped, MailTyped
  <2>3. Export!SetFollowsStream' /\ Export!PushedInTurn'
    BY <2>1 DEF Export!IInv, Export!SetFollowsStream, Export!PushedInTurn
  <2>4. Export!IndexesBelow'
    BY <2>1 DEF Export!IInv, Export!IndexesBelow
  <2>5. Export!CurrentInChannel'
    BY <2>1 DEF Export!IInv, Export!CurrentInChannel
  <2>6. ActorMovesOn /\ outcome' # "done"
    BY <2>1, Moves, ActorFinds
  <2> QED BY <2>1, <2>2, <2>3, <2>4, <2>5, <2>6, ActorInv
<1> QED BY <1>1, <1>2, <1>3

LEMMA StopInv ==
  ASSUME Export!IInv, Export!TakeStop
  PROVE  Export!IInv'
<1>1. /\ pc = "poll" /\ Export!Recv /\ cancelled' = TRUE /\ eSignal' = TRUE
      /\ doomed' = (IF set THEN doomed \cup {rsIndex} ELSE doomed)
      /\ UNCHANGED <<pc, batch, set, rsIndex, pushing, then, failed, outcome,
                     eOpen, eSent, eSets, eTold, eEnded,
                     writer, index, written, files, result, delivered, chan>>
  BY DEF Export!TakeStop, Export!CancelNow, Export!S!Cancel, Export!writerVars
<1>2. RunTyped' /\ MailTyped'
  <2>1. eSignal' \in BOOLEAN /\ cancelled' \in BOOLEAN
    BY <1>1, Zenon
  <2>2. Export!S!StreamTypeOK'
    BY <1>1, <2>1, Typed DEF RunTyped, Export!S!StreamTypeOK
  <2>3. MailTyped'
    BY <1>1, Received
  <2> QED BY <1>1, <2>1, <2>2, <2>3, Typed DEF RunTyped
<1>3. Export!SetFollowsStream' /\ Export!PushedInTurn' /\ Export!CurrentInChannel'
  BY <1>1 DEF Export!IInv, Export!SetFollowsStream, Export!PushedInTurn, Export!CurrentInChannel
<1>4. Export!IndexesBelow'
  <2>1. /\ rsIndex + (IF set' \/ (pc' = "push" /\ then' = "set") THEN 1 ELSE 0)
             <= IF batch' = 0 THEN 0 ELSE MaxSets * (batch' - 1) + eSets'
        /\ batch' > 0
    BY <1>1, SameSets
  <2> QED BY <1>1, <2>1, StepBelow
<1>5. ActorMovesOn /\ outcome' # "done"
  BY <1>1, Moves, ActorFinds
<1> QED BY <1>1, <1>2, <1>3, <1>4, <1>5, ActorInv

LEMMA SetStartInv ==
  ASSUME Export!IInv, Export!OnResultSetStart
  PROVE  Export!IInv'
<1>1. /\ pc = "poll" /\ ~eOpen /\ eSets < MaxSets /\ eOpen' = TRUE /\ eSent' = 0 /\ eSets' = eSets + 1
      /\ pc' = "push" /\ pushing' = Export!Msg("SetStart", rsIndex) /\ then' = "set"
      /\ UNCHANGED <<mail, posts, gone, batch, set, rsIndex, cancelled, failed, outcome, doomed,
                     eTold, eEnded, eSignal, writer, index, written, files, result, delivered, chan>>
  BY DEF Export!OnResultSetStart, Export!Polls, Export!Push, Export!S!ResultSetStart,
         Export!mailVars, Export!writerVars, Export!history
<1>2. /\ ~set /\ batch > 0 /\ rsIndex \in Nat /\ batch \in 0..Batches /\ eSets \in 0..MaxSets
      /\ rsIndex + (IF set THEN 1 ELSE 0) <= IF batch = 0 THEN 0 ELSE MaxSets * (batch - 1) + eSets
  BY <1>1, ActorFinds
<1>3. RunTyped' /\ MailTyped'
  <2>1. eSent' \in 0..ExportRows /\ eSets' \in 0..MaxSets
    BY <1>1, <1>2, ExportConstants
  <2>2. eOpen' \in BOOLEAN
    BY <1>1, Zenon
  <2>3. Export!S!StreamTypeOK'
    BY <1>1, <2>1, <2>2, Typed DEF RunTyped, Export!S!StreamTypeOK
  <2>4. pushing' \in Export!SinkMsg
    BY <1>1, Messages, Typed DEF RunTyped
  <2> QED BY <1>1, <2>3, <2>4, Typed DEF RunTyped, MailTyped
<1>4. Export!SetFollowsStream' /\ Export!PushedInTurn'
  BY <1>1, <1>2 DEF Export!SetFollowsStream, Export!PushedInTurn
<1>5. Export!CurrentInChannel'
  BY <1>1, <1>2 DEF Export!CurrentInChannel
<1>6. Export!IndexesBelow'
  <2>1. rsIndex + 1 <= MaxSets * (batch - 1) + (eSets + 1)
    <3> DEFINE x == MaxSets * (batch - 1)
    <3>1. x \in Nat /\ rsIndex <= x + eSets /\ eSets \in Nat
      BY <1>2, ExportConstants
    <3> HIDE DEF x
    <3>2. rsIndex + 1 <= x + (eSets + 1)
      BY <1>2, <3>1
    <3> QED BY <3>2 DEF x
  <2>2. rsIndex + (IF set' \/ (pc' = "push" /\ then' = "set") THEN 1 ELSE 0)
             <= IF batch' = 0 THEN 0 ELSE MaxSets * (batch' - 1) + eSets'
    BY <1>1, <1>2, <2>1
  <2>3. batch' > 0
    BY <1>1, <1>2
  <2> QED BY <1>1, <2>2, <2>3, StepBelow
<1>7. ActorMovesOn /\ outcome' # "done"
  BY <1>1, Moves, ActorFinds
<1> QED BY <1>1, <1>3, <1>4, <1>5, <1>6, <1>7, ActorInv

LEMMA RowsInv ==
  ASSUME Export!IInv, Export!OnRows
  PROVE  Export!IInv'
<1>1. /\ pc = "poll" /\ eOpen /\ eSent + 1 <= ExportRows /\ eSent' = eSent + 1
      /\ UNCHANGED <<mail, posts, gone, batch, set, rsIndex, cancelled, failed, outcome, doomed,
                     eOpen, eSets, eTold, eEnded, eSignal, writer, index, written, files, result, delivered, chan>>
  BY DEF Export!OnRows, Export!Polls, Export!S!Rows, Export!mailVars, Export!writerVars, Export!history
<1>2. /\ set /\ then = "tail" /\ eSent \in 0..ExportRows /\ ExportRows \in Nat /\ eSets \in 0..MaxSets
  BY <1>1, ActorFinds
<1>3. \/ cancelled /\ UNCHANGED <<pc, pushing, then>>
      \/ ~cancelled /\ pc' = "push" /\ pushing' = Export!Msg("Batch", rsIndex) /\ then' = "rows"
  BY Typed DEF RunTyped, Export!OnRows, Export!Push
<1>4. RunTyped' /\ MailTyped'
  <2>1. eSent' \in 0..ExportRows
    BY <1>1, <1>2
  <2>2. Export!S!StreamTypeOK'
    BY <1>1, <2>1, Typed DEF RunTyped, Export!S!StreamTypeOK
  <2>3. pushing' \in Export!SinkMsg
    BY <1>3, Messages, Typed DEF RunTyped
  <2>4. pc' \in {"batch", "poll", "push", "over"} /\ then' \in {"set", "rows", "end", "done", "tail"}
    BY <1>3, Typed DEF RunTyped
  <2> QED BY <1>1, <2>2, <2>3, <2>4, Typed DEF RunTyped, MailTyped
<1>5. Export!SetFollowsStream' /\ Export!PushedInTurn'
  BY <1>1, <1>2, <1>3, ActorFinds DEF Export!SetFollowsStream, Export!PushedInTurn
<1>6. Export!CurrentInChannel'
  <2>1. CASE cancelled
    BY <1>1, <2>1 DEF Export!CurrentInChannel
  <2>2. CASE ~cancelled /\ writer = "gone"
    BY <1>1, <2>2 DEF Export!CurrentInChannel
  <2>3. CASE ~cancelled /\ writer # "gone"
    <3>1. PICK s \in 0..Len(chan) :
             /\ Export!InSet(chan, writer, index, s, Len(chan) + 1, rsIndex)
             /\ Export!RowsBefore(written, s, Len(chan) + 1) + 0 = eSent
      BY <1>1, <1>2, <2>3 DEF Export!IInv, Export!CurrentInChannel
    <3>2. Export!RowsBefore(written, s, Len(chan) + 1) \in Int
      BY Typed, ExportConstants DEF WriterTyped, Export!RowsBefore
    <3>3. Export!RowsBefore(written, s, Len(chan) + 1) + 1 = eSent + 1
      BY <1>2, <3>1, <3>2
    <3>4. then' = "rows"
      BY <1>3, <2>3
    <3> QED BY <1>1, <3>1, <3>3, <3>4 DEF Export!CurrentInChannel
  <2> QED BY <2>1, <2>2, <2>3
<1>7. Export!IndexesBelow'
  <2>1. /\ rsIndex + (IF set' \/ (pc' = "push" /\ then' = "set") THEN 1 ELSE 0)
             <= IF batch' = 0 THEN 0 ELSE MaxSets * (batch' - 1) + eSets'
        /\ batch' > 0
    BY <1>1, <1>2, <1>3, SameSets
  <2> QED BY <1>1, <2>1, StepBelow
<1>8. ActorMovesOn /\ outcome' # "done"
  BY <1>1, Moves, ActorFinds
<1> QED BY <1>1, <1>4, <1>5, <1>6, <1>7, <1>8, ActorInv

LEMMA SetEndInv ==
  ASSUME Export!IInv, NEW n \in 0..ExportRows, NEW complete \in BOOLEAN, Export!OnResultSetEnd(n, complete)
  PROVE  Export!IInv'
<1>1. /\ pc = "poll" /\ eOpen /\ eOpen' = FALSE
      /\ pc' = "push" /\ pushing' = Export!Msg(IF cancelled THEN "Failed" ELSE "SetEnd", rsIndex) /\ then' = "end"
      /\ delivered' = Export!Put(delivered, rsIndex, eSent)
      /\ UNCHANGED <<mail, posts, gone, batch, set, rsIndex, cancelled, failed, outcome, doomed,
                     eSent, eSets, eTold, eEnded, eSignal, writer, index, written, files, result, chan>>
  BY DEF Export!OnResultSetEnd, Export!Polls, Export!Push, Export!EndMsg, Export!S!ResultSetEnd,
         Export!mailVars, Export!writerVars
<1>2. set /\ then = "tail" /\ eSent \in 0..ExportRows /\ ExportRows \in Nat
  BY <1>1, ActorFinds
<1>3. DOMAIN delivered' = DOMAIN delivered \cup {rsIndex} /\ delivered'[rsIndex] = eSent
  BY <1>1 DEF Export!Put
<1>4. RunTyped' /\ MailTyped'
  <2>1. eOpen' \in BOOLEAN
    BY <1>1, Zenon
  <2>2. Export!S!StreamTypeOK'
    BY <1>1, <2>1, Typed DEF RunTyped, Export!S!StreamTypeOK
  <2>3. pushing' \in Export!SinkMsg
    BY <1>1, Messages, Typed DEF RunTyped
  <2> QED BY <1>1, <2>2, <2>3, Typed DEF RunTyped, MailTyped
<1>5. Export!SetFollowsStream' /\ Export!PushedInTurn'
  BY <1>1, <1>2, <1>3 DEF Export!SetFollowsStream, Export!PushedInTurn
<1>6. Export!CurrentInChannel'
  BY <1>1, <1>2 DEF Export!IInv, Export!CurrentInChannel
<1>7. Export!IndexesBelow'
  <2>1. /\ rsIndex + (IF set' \/ (pc' = "push" /\ then' = "set") THEN 1 ELSE 0)
             <= IF batch' = 0 THEN 0 ELSE MaxSets * (batch' - 1) + eSets'
        /\ batch' > 0
    BY <1>1, SameSets
  <2> QED BY <1>1, <1>3, <2>1, StepBelow
<1>8. ActorMovesOn /\ outcome' # "done"
  BY <1>1, Moves, ActorFinds
<1> QED BY <1>1, <1>3, <1>4, <1>5, <1>6, <1>7, <1>8, ActorInv

LEMMA DoneInv ==
  ASSUME Export!IInv, NEW e \in BOOLEAN, NEW c \in BOOLEAN, Export!OnDone(e, c)
  PROVE  Export!IInv'
<1>1. /\ pc = "poll" /\ eEnded' = TRUE /\ cancelled' = (cancelled \/ c) /\ failed' = (~cancelled' /\ e)
      /\ UNCHANGED <<mail, posts, gone, batch, set, rsIndex, outcome,
                     eOpen, eSent, eSets, eTold, eSignal, writer, index, written, files, result, chan, delivered>>
  BY DEF Export!OnDone, Export!Polls, Export!S!Done, Export!mailVars, Export!writerVars
<1>2. set \in BOOLEAN /\ then = "tail" /\ cancelled \in BOOLEAN
  BY <1>1, ActorFinds, Typed DEF RunTyped
<1>3. cancelled' \in BOOLEAN /\ failed' \in BOOLEAN /\ eEnded' \in BOOLEAN /\ (cancelled => cancelled')
  BY <1>1, <1>2, Zenon
<1>4. CASE set
  <2>1. /\ pc' = "push" /\ pushing' = Export!Msg("Failed", rsIndex) /\ then' = "done"
        /\ doomed' = doomed \cup {rsIndex}
    BY <1>4 DEF Export!OnDone, Export!Push
  <2>2. RunTyped' /\ MailTyped'
    <3>1. Export!S!StreamTypeOK'
      BY <1>1, <1>3, Typed DEF RunTyped, Export!S!StreamTypeOK
    <3>2. pushing' \in Export!SinkMsg
      BY <2>1, Messages, Typed DEF RunTyped
    <3> QED BY <1>1, <1>3, <2>1, <3>1, <3>2, Typed DEF RunTyped, MailTyped
  <2>3. Export!SetFollowsStream' /\ Export!PushedInTurn' /\ Export!CurrentInChannel'
    BY <1>1, <1>4, <2>1 DEF Export!SetFollowsStream, Export!PushedInTurn, Export!CurrentInChannel
  <2>4. Export!IndexesBelow'
    <3>1. /\ rsIndex + (IF set' \/ (pc' = "push" /\ then' = "set") THEN 1 ELSE 0)
               <= IF batch' = 0 THEN 0 ELSE MaxSets * (batch' - 1) + eSets'
          /\ batch' > 0
      BY <1>1, <2>1, SameSets
    <3> QED BY <1>1, <1>3, <2>1, <3>1, StepBelow
  <2>5. ActorMovesOn /\ outcome' # "done"
    BY <1>1, <2>1, Moves, ActorFinds
  <2> QED BY <1>1, <1>3, <2>1, <2>2, <2>3, <2>4, <2>5, ActorInv
<1>5. CASE ~set
  <2>1. Export!AfterDone(cancelled', e) /\ doomed' = doomed
    BY <1>5 DEF Export!OnDone
  <2>2. /\ pc' \in {"push", "batch"} /\ then' = "tail" /\ pushing' \in Export!SinkMsg
        /\ pc' = "push" => pushing'.kind \in {"Failed", "RunEnd"}
    BY <1>3, <2>1, LastPushed, Messages DEF Export!AfterDone
  <2>3. RunTyped' /\ MailTyped'
    <3>1. Export!S!StreamTypeOK'
      BY <1>1, <1>3, Typed DEF RunTyped, Export!S!StreamTypeOK
    <3> QED BY <1>1, <1>3, <2>2, <3>1, Typed DEF RunTyped, MailTyped
  <2>4. Export!SetFollowsStream' /\ Export!PushedInTurn' /\ Export!CurrentInChannel'
    BY <1>1, <1>5, <2>2 DEF Export!SetFollowsStream, Export!PushedInTurn, Export!CurrentInChannel
  <2>5. Export!IndexesBelow'
    <3>1. /\ rsIndex + (IF set' \/ (pc' = "push" /\ then' = "set") THEN 1 ELSE 0)
               <= IF batch' = 0 THEN 0 ELSE MaxSets * (batch' - 1) + eSets'
          /\ batch' > 0
      BY <1>1, <2>2, SameSets
    <3> QED BY <1>1, <1>3, <2>1, <3>1, StepBelow
  <2>6. ActorMovesOn /\ outcome' # "done"
    BY <1>1, <2>1, Moves, ActorFinds
  <2> QED BY <1>1, <1>3, <2>2, <2>3, <2>4, <2>5, <2>6, ActorInv
<1> QED BY <1>2, <1>4, <1>5

-----------------------------------------------------------------------------
(* The inductive invariant                                                 *)

LEMMA ExportInitInv == Export!Init => Export!IInv
<1> SUFFICES ASSUME Export!Init PROVE Export!IInv
  OBVIOUS
<1>1. /\ mail = <<>> /\ posts = 0 /\ gone = FALSE
      /\ pc = "batch" /\ batch = 0 /\ set = FALSE /\ rsIndex = 0
      /\ pushing = Export!Nothing /\ then = "tail"
      /\ cancelled = FALSE /\ failed = FALSE /\ outcome = "none"
      /\ chan = <<>> /\ writer = "signin" /\ index = 0 /\ written = 0
      /\ files = <<>> /\ result = "none"
      /\ delivered = <<>> /\ doomed = {}
      /\ eOpen = FALSE /\ eTold = FALSE /\ eEnded = FALSE /\ eSignal = FALSE /\ eSent = 0 /\ eSets = 0
  BY DEF Export!Init, Export!S!Fresh
<1>2. Export!TypeOK /\ chan \in Seq(Export!SinkMsg) /\ pushing \in Export!SinkMsg
  <2>1. gone \in BOOLEAN /\ set \in BOOLEAN /\ cancelled \in BOOLEAN /\ failed \in BOOLEAN
        /\ eOpen \in BOOLEAN /\ eTold \in BOOLEAN /\ eEnded \in BOOLEAN /\ eSignal \in BOOLEAN
    BY <1>1, Zenon
  <2>2. /\ posts \in 0..MaxPosts /\ batch \in 0..Batches /\ rsIndex \in 0..MaxSets * Batches
        /\ index \in 0..MaxSets * Batches /\ written \in 0..ExportRows /\ eSent \in 0..ExportRows
        /\ eSets \in 0..MaxSets
    BY <1>1, ExportConstants
  <2>3. mail \in Seq(Export!TabMsgs) /\ chan \in Seq(Export!SinkMsg) /\ Len(chan) <= Capacity
    BY <1>1, ExportConstants
  <2>4. pushing \in Export!SinkMsg
    BY <1>1, Messages
  <2>5. DOMAIN files \subseteq Export!Sets
    BY <1>1
  <2> QED BY <1>1, <2>1, <2>2, <2>3, <2>4, <2>5 DEF Export!TypeOK, Export!S!StreamTypeOK
<1>3. Export!SetFollowsStream /\ Export!PushedInTurn /\ Export!CurrentInChannel
  BY <1>1 DEF Export!SetFollowsStream, Export!PushedInTurn, Export!CurrentInChannel
<1>4. Export!ChannelInOrder /\ Export!DeliveredOnTheWay
  BY <1>1 DEF Export!ChannelInOrder, Export!DeliveredOnTheWay
<1>5. Export!IndexesBelow
  BY <1>1 DEF Export!IndexesBelow
<1>6. Export!Endings /\ Export!KeptAsDelivered /\ Export!CancelDiscards
  BY <1>1 DEF Export!Endings, Export!KeptAsDelivered, Export!CancelDiscards
<1> QED BY <1>2, <1>3, <1>4, <1>5, <1>6 DEF Export!IInv

LEMMA ExportStepInv == Export!IInv /\ Export!Next => Export!IInv'
<1> SUFFICES ASSUME Export!IInv, Export!Next PROVE Export!IInv'
  OBVIOUS
<1>1. CASE (\E m \in Export!TabMsgs : Export!Post(m)) \/ Export!TakeOther \/ Export!OnMessage
  BY <1>1, MailInv
<1>2. CASE Export!ExecuteOk
  BY <1>2, BatchInv
<1>3. CASE Export!ExecuteErr \/ Export!AllDone
  BY <1>3, EndInv
<1>4. CASE Export!TakeStop
  BY <1>4, StopInv
<1>5. CASE Export!OnResultSetStart
  BY <1>5, SetStartInv
<1>6. CASE Export!OnRows
  BY <1>6, RowsInv
<1>7. CASE \E n \in 0..ExportRows, complete \in BOOLEAN : Export!OnResultSetEnd(n, complete)
  BY <1>7, SetEndInv
<1>8. CASE \E e, c \in BOOLEAN : Export!OnDone(e, c)
  BY <1>8, DoneInv
<1>9. CASE Export!SinkPush
  BY <1>9, SinkPushInv
<1>10. CASE Export!Writes
  BY <1>10, WriterInv
<1> QED BY <1>1, <1>2, <1>3, <1>4, <1>5, <1>6, <1>7, <1>8, <1>9, <1>10
        DEF Export!Next, Export!TakesMail, Export!Receives

\* Run to File: what the writer has in hand and the channel holds always joins
\* up with what the driver delivered.
LEMMA ExportInductive == Spec => []Export!IInv
<1>1. Init => Export!IInv
  BY ExportInitInv DEF Init
<1>2. Export!IInv /\ [Next]_allVars => Export!IInv'
  <2> SUFFICES ASSUME Export!IInv, [Next]_allVars PROVE Export!IInv'
    OBVIOUS
  <2>1. CASE ExportSteps
    BY <2>1, ExportStepInv DEF ExportSteps
  <2>2. CASE UNCHANGED export
    <3>1. UNCHANGED <<eOpen, eSent, eSets, eTold, eEnded, eSignal,
                      mail, posts, gone, pc, batch, set, rsIndex, pushing, then, cancelled, failed, outcome,
                      chan, writer, index, written, files, result, delivered, doomed>>
      BY <2>2 DEF export
    <3>2. MailTyped'
      BY <3>1, Typed DEF MailTyped
    <3> QED BY <3>1, <3>2, OnlyMail
  <2>3. CASE MssqlSteps \/ ScriptSteps \/ LoopSteps
    BY <2>2, <2>3 DEF MssqlSteps, ScriptSteps, LoopSteps
  <2>4. CASE UNCHANGED allVars
    BY <2>2, <2>4 DEF allVars
  <2> QED BY <2>1, <2>3, <2>4 DEF Next
<1> QED BY <1>1, <1>2, PTL DEF Spec

\* A file that Run to File keeps has exactly the rows the driver delivered for
\* its set, however many sets and rows there are, whatever the bound of the
\* channel, and wherever pushes wait, fail or are given up.
THEOREM FilesAsDelivered == Spec => []KeptAsDelivered
<1>1. Export!IInv => KeptAsDelivered
  BY DEF Export!IInv, KeptAsDelivered
<1> QED BY <1>1, ExportInductive, PTL

\* The set that is open when a run to file is cancelled never becomes a file.
THEOREM CancelKeepsNoFile == Spec => []CancelDiscards
<1>1. Export!IInv => CancelDiscards
  BY DEF Export!IInv, CancelDiscards
<1> QED BY <1>1, ExportInductive, PTL

\* A run and an export that both report success have written every set.
THEOREM SuccessIsComplete == Spec => []DoneMeansAllWritten
<1>1. Export!IInv => DoneMeansAllWritten
  <2> SUFFICES ASSUME Export!IInv, outcome = "done", result = "ok"
               PROVE  DOMAIN files = DOMAIN delivered
    BY DEF DoneMeansAllWritten, Export!DoneMeansAllWritten
  <2>1. pc = "over" /\ ~cancelled /\ writer = "gone" /\ chan = <<>>
    BY DEF Export!IInv, Export!Endings, Export!TypeOK
  <2>2. DOMAIN delivered \subseteq DOMAIN files
    BY <2>1 DEF Export!IInv, Export!DeliveredOnTheWay
  <2>3. DOMAIN files \subseteq DOMAIN delivered
    BY DEF Export!IInv, Export!KeptAsDelivered
  <2> QED BY <2>2, <2>3
<1> QED BY <1>1, ExportInductive, PTL
=============================================================================
