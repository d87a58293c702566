---------------------------- MODULE StreamProofs ----------------------------
(* Theorems about the streams, for every value of their constants.          *)
EXTENDS MCStreams, SequenceTheorems, TLAPS

LEMMA Constants == /\ BatchRows \in Nat /\ BatchRows > 0 /\ MssqlRows \in Nat
                   /\ MaxNotes \in Nat /\ MaxSets \in Nat
  BY StreamConstants

ResultSet == [state : {"none", "inferring", "building"},
              gathered : 0..BatchRows, rows : 0..MssqlRows]

\* A sequence given by its length and its elements.
Spells1(s, a) == s \in Seq(Mssql!Item) /\ Len(s) = 1 /\ s[1] = a
Spells2(s, a, b) == s \in Seq(Mssql!Item) /\ Len(s) = 2 /\ s[1] = a /\ s[2] = b
Spells3(s, a, b, c) ==
  s \in Seq(Mssql!Item) /\ Len(s) = 3 /\ s[1] = a /\ s[2] = b /\ s[3] = c

LEMMA Items ==
  /\ Mssql!StartItem \in Mssql!Item /\ Mssql!Affected \in Mssql!Item
  /\ \A n \in 1..BatchRows : Mssql!RowsItem(n) \in Mssql!Item
  /\ \A n \in 0..MssqlRows : Mssql!EndItem(n) \in Mssql!Item
  /\ \A e \in BOOLEAN : Mssql!Message(e) \in Mssql!Item
  /\ \A e, c \in BOOLEAN : Mssql!Done(e, c) \in Mssql!Item
BY DEF Mssql!Item

\* What close_result_set appends, item by item.
LEMMA CloseShape ==
  ASSUME NEW rs \in ResultSet, rs.state # "none" => rs.gathered < BatchRows
  PROVE  LET c == Mssql!CloseItems(rs)
             start == Mssql!StartItem
             rows == Mssql!RowsItem(rs.gathered)
             end == Mssql!EndItem(rs.rows)
         IN /\ rs.state = "none" => c = <<>>
            /\ rs.state = "building" /\ rs.gathered = 0 => Spells1(c, end)
            /\ rs.state = "building" /\ rs.gathered > 0 => Spells2(c, rows, end)
            /\ rs.state = "inferring" /\ rs.gathered = 0 => Spells2(c, start, end)
            /\ rs.state = "inferring" /\ rs.gathered > 0 => Spells3(c, start, rows, end)
<1> USE Constants DEF ResultSet
<1> DEFINE start == Mssql!StartItem
           rows == Mssql!RowsItem(rs.gathered)
           end == Mssql!EndItem(rs.rows)
<1>1. start \in Mssql!Item /\ end \in Mssql!Item
      /\ (rs.gathered > 0 => rows \in Mssql!Item)
  BY Items
<1>2. CASE rs.state = "none"
  BY <1>2 DEF Mssql!CloseItems
<1>3. CASE rs.state = "building"
  <2>1. Mssql!CloseItems(rs)
          = (<<>> \o (IF rs.gathered > 0 THEN <<rows>> ELSE <<>>)) \o <<end>>
    BY <1>3 DEF Mssql!CloseItems
  <2> HIDE DEF rows, end
  <2> QED BY <1>1, <1>3, <2>1 DEF Spells1, Spells2, rows, end
<1>4. CASE rs.state = "inferring"
  <2>1. Mssql!CloseItems(rs)
          = ((<<start>> \o <<>>) \o (IF rs.gathered > 0 THEN <<rows>> ELSE <<>>)) \o <<end>>
    BY <1>4 DEF Mssql!CloseItems, Mssql!StartItems, Mssql!Building
  <2> HIDE DEF rows, end, start
  <2> QED BY <1>1, <1>4, <2>1 DEF Spells2, Spells3, rows, end, start
<1> QED BY <1>2, <1>3, <1>4

LEMMA CloseType ==
  ASSUME NEW rs \in ResultSet, rs.state # "none" => rs.gathered < BatchRows
  PROVE  /\ Mssql!CloseItems(rs) \in Seq(Mssql!Item)
         /\ Len(Mssql!CloseItems(rs)) \in 0..3
<1> DEFINE c == Mssql!CloseItems(rs)
<1>1. rs.state \in {"none", "inferring", "building"} /\ (rs.gathered = 0 \/ rs.gathered > 0)
  BY Constants DEF ResultSet
<1>2. CASE rs.state = "none"
  <2>1. c = <<>>
    BY <1>2, CloseShape
  <2> QED BY <2>1
<1>3. CASE rs.state = "building"
  BY <1>1, <1>3, CloseShape DEF Spells1, Spells2
<1>4. CASE rs.state = "inferring"
  BY <1>1, <1>4, CloseShape DEF Spells2, Spells3
<1> QED BY <1>1, <1>2, <1>3, <1>4

-----------------------------------------------------------------------------
(* MssqlStream: one step                                                   *)

\* What the proof reads of the invariant when nothing is pending.
LEMMA Reading ==
  ASSUME Mssql!IInv, Mssql!Waits
  PROVE  /\ current \in ResultSet /\ (current.state # "none" => current.gathered < BatchRows)
         /\ current.state = "none" => ~open
         /\ current.state = "building" => open /\ sent + current.gathered = current.rows
         /\ current.state = "inferring" => ~open /\ current.gathered = current.rows
                                          /\ sets + 1 <= started
         /\ sets <= started
         /\ error => told
         /\ ~ended
         /\ open \in BOOLEAN /\ sent \in 0..MssqlRows /\ sets \in 0..MaxSets
         /\ started \in 0..MaxSets /\ notes \in 0..MaxNotes
<1> USE DEF Mssql!IInv, Mssql!Waits, Mssql!TypeOK, Mssql!S!StreamTypeOK
<1>1. Len(pending) + 1 = 1
  OBVIOUS
<1>2. /\ current \in ResultSet /\ open \in BOOLEAN /\ sent \in 0..MssqlRows /\ sets \in 0..MaxSets
      /\ started \in 0..MaxSets /\ notes \in 0..MaxNotes
  BY DEF ResultSet
<1>3. error => told
  BY <1>1 DEF Mssql!ErrorsTold, Mssql!ToldBefore
<1>4. ~ended /\ (current.state # "none" => current.gathered < BatchRows)
  BY DEF Mssql!EndsOnce, Mssql!CurrentFollows
<1>5. /\ current.state = "none" => ~open
      /\ current.state = "building" => open /\ sent + current.gathered = current.rows
      /\ current.state = "inferring" => ~open /\ current.gathered = current.rows
  BY <1>1 DEF Mssql!CurrentFollows, Mssql!OpenAt, Mssql!SentAt
<1>6. sets <= started /\ (current.state = "inferring" => sets + 1 <= started)
  BY <1>2 DEF Mssql!StartsCounted, Mssql!Unstarted
<1> QED BY <1>2, <1>3, <1>4, <1>5, <1>6

\* Where the stream is after the first items of the next `pending`.
LEMMA First ==
  /\ (Mssql!OpenAt(open', pending', 1) <=> open') /\ Mssql!SentAt(sent', pending', 1) = sent'
  /\ Mssql!SentBefore(sent', 1) = sent' /\ Mssql!SentBefore(sent', 2) = 0
BY DEF Mssql!OpenAt, Mssql!SentAt, Mssql!SentBefore

LEMMA AfterStart ==
  /\ pending'[1].item = "ResultSetStart" => Mssql!OpenAt(open', pending', 2) /\ Mssql!SentAt(sent', pending', 2) = 0
  /\ pending'[2].item = "ResultSetStart" => Mssql!OpenAt(open', pending', 3) /\ Mssql!SentAt(sent', pending', 3) = 0
BY DEF Mssql!OpenAt, Mssql!SentAt, Mssql!SentBefore

LEMMA AfterRows ==
  /\ pending'[1].item = "Rows" => Mssql!OpenAt(open', pending', 2) /\ Mssql!SentAt(sent', pending', 2) = sent' + pending'[1].n
  /\ pending'[2].item = "Rows" => Mssql!OpenAt(open', pending', 3) /\ Mssql!SentAt(sent', pending', 3) = 0 + pending'[2].n
BY DEF Mssql!OpenAt, Mssql!SentAt, Mssql!SentBefore

\* After anything but a start or rows, no set is open.
LEMMA Shut ==
  ASSUME NEW i \in Nat \ {0},
         i > 1 => pending'[i - 1].item \notin {"ResultSetStart", "Rows"},
         \/ ~open'
         \/ i > 2
         \/ i = 2 /\ pending'[1].item = "ResultSetEnd"
  PROVE  ~Mssql!OpenAt(open', pending', i)
BY DEF Mssql!OpenAt

\* Closing the open set puts its items, in order, before what follows it.
LEMMA Closing ==
  ASSUME Mssql!IInv, Mssql!Waits, NEW after \in Seq(Mssql!Item),
         pending' = Mssql!CloseItems(current) \o after,
         UNCHANGED <<open, sent, sets>>,
         NEW u \in {0, 1}, Mssql!Unstarted' = u,
         started' \in Nat, started + u <= started'
  PROVE  \E k \in 0..3 :
           /\ pending' \in Seq(Mssql!Item) /\ Len(pending') = k + Len(after)
           /\ \A i \in 1..Len(after) : pending'[k + i] = after[i]
           /\ \A i \in 1..k : /\ Mssql!AllowedAt(i)'
                              /\ pending'[i].item \in {"ResultSetStart", "Rows", "ResultSetEnd"}
                              /\ pending'[i].item = "ResultSetStart" => i = 1 /\ sets + 1 <= started
           /\ IF k = 0 THEN ~open ELSE pending'[k].item = "ResultSetEnd"
           /\ ~Mssql!OpenAt(open', pending', k + 1)
<1> USE Constants DEF ResultSet
<1>r. /\ current \in ResultSet /\ (current.state # "none" => current.gathered < BatchRows)
      /\ current.state = "none" => ~open
      /\ current.state = "building" => open /\ sent + current.gathered = current.rows
      /\ current.state = "inferring" => ~open /\ current.gathered = current.rows
                                       /\ sets + 1 <= started
      /\ open \in BOOLEAN /\ sent \in 0..MssqlRows /\ sets \in 0..MaxSets /\ started \in 0..MaxSets
  BY Reading
<1>s. current.state = "inferring" => sets' + 1 + u <= started'
  <2> SUFFICES ASSUME current.state = "inferring"
               PROVE  sets' + 1 + u <= started'
    OBVIOUS
  <2>1. sets \in Nat /\ started \in Nat /\ sets' = sets /\ sets + 1 <= started
    BY <1>r
  <2> QED BY <2>1
<1> DEFINE c == Mssql!CloseItems(current)
           start == Mssql!StartItem
           rows == Mssql!RowsItem(current.gathered)
           end == Mssql!EndItem(current.rows)
           k == Len(c)
<1>0. /\ start.item = "ResultSetStart" /\ rows.item = "Rows" /\ rows.n = current.gathered
      /\ end.item = "ResultSetEnd" /\ end.n = current.rows
  BY DEF Mssql!StartItem, Mssql!RowsItem, Mssql!EndItem
<1>1. /\ current.state = "none" => c = <<>>
      /\ current.state = "building" /\ current.gathered = 0 => Spells1(c, end)
      /\ current.state = "building" /\ current.gathered > 0 => Spells2(c, rows, end)
      /\ current.state = "inferring" /\ current.gathered = 0 => Spells2(c, start, end)
      /\ current.state = "inferring" /\ current.gathered > 0 => Spells3(c, start, rows, end)
  BY <1>r, CloseShape
<1> HIDE DEF c, start, rows, end
<1>2. c \in Seq(Mssql!Item) /\ k \in 0..3
  BY <1>r, CloseType DEF c
<1>3. /\ pending' \in Seq(Mssql!Item) /\ Len(pending') = k + Len(after)
      /\ \A i \in 1..k : pending'[i] = c[i]
      /\ \A i \in 1..Len(after) : pending'[k + i] = after[i]
  BY <1>2 DEF c
<1>4. /\ \A i \in 1..k : /\ Mssql!AllowedAt(i)'
                         /\ c[i].item \in {"ResultSetStart", "Rows", "ResultSetEnd"}
                         /\ c[i].item = "ResultSetStart" => i = 1 /\ sets + 1 <= started
      /\ IF k = 0 THEN ~open ELSE c[k].item = "ResultSetEnd"
  <2> USE <1>r, <1>0, <1>3
  <2>1. CASE current.state = "none"
    BY <1>1, <2>1
  <2>2. CASE current.state = "building" /\ current.gathered = 0
    <3>1. k = 1 /\ c[1] = end
      BY <1>1, <2>2 DEF Spells1
    <3>2. pending'[1] = end
      BY <1>3, <3>1
    <3>3. Mssql!OpenAt(open', pending', 1) /\ Mssql!SentAt(sent', pending', 1) = current.rows
      BY <2>2, <3>2 DEF Mssql!OpenAt, Mssql!SentAt, Mssql!SentBefore
    <3>4. Mssql!AllowedAt(1)'
      BY <2>2, <3>2, <3>3 DEF Mssql!AllowedAt
    <3> QED BY <3>1, <3>4, <2>2
  <2>3. CASE current.state = "building" /\ current.gathered > 0
    <3>1. k = 2 /\ c[1] = rows /\ c[2] = end
      BY <1>1, <2>3 DEF Spells2
    <3>2. pending'[1] = rows /\ pending'[2] = end
      BY <1>3, <3>1
    <3>3. Mssql!OpenAt(open', pending', 1) /\ Mssql!SentAt(sent', pending', 1) = sent
      BY <2>3, <3>2, First, AfterStart, AfterRows
    <3>4. Mssql!AllowedAt(1)'
      <4>1. pending'[1].item = "Rows" /\ pending'[1].n = current.gathered
        BY <3>2
      <4>2. sent + current.gathered <= MssqlRows
        BY <2>3
      <4> QED BY <3>3, <4>1, <4>2 DEF Mssql!AllowedAt
    <3>5. Mssql!OpenAt(open', pending', 2) /\ Mssql!SentAt(sent', pending', 2) = current.rows
      BY <2>3, <3>2, First, AfterStart, AfterRows
    <3>6. Mssql!AllowedAt(2)'
      BY <2>3, <3>2, <3>5 DEF Mssql!AllowedAt
    <3> QED BY <3>1, <3>4, <3>6, <2>3
  <2>4. CASE current.state = "inferring" /\ current.gathered = 0
    <3>1. k = 2 /\ c[1] = start /\ c[2] = end
      BY <1>1, <2>4 DEF Spells2
    <3>2. pending'[1] = start /\ pending'[2] = end
      BY <1>3, <3>1
    <3>3. ~Mssql!OpenAt(open', pending', 1)
      BY <2>4, <3>2, First, AfterStart, AfterRows
    <3>4. Mssql!AllowedAt(1)'
      BY <1>s, <2>4, <3>2, <3>3 DEF Mssql!AllowedAt
    <3>5. Mssql!OpenAt(open', pending', 2) /\ Mssql!SentAt(sent', pending', 2) = 0
      BY <2>4, <3>2, First, AfterStart, AfterRows
    <3>6. Mssql!AllowedAt(2)'
      BY <2>4, <3>2, <3>5 DEF Mssql!AllowedAt
    <3> QED BY <3>1, <3>4, <3>6, <2>4
  <2>5. CASE current.state = "inferring" /\ current.gathered > 0
    <3>1. k = 3 /\ c[1] = start /\ c[2] = rows /\ c[3] = end
      BY <1>1, <2>5 DEF Spells3
    <3>2. pending'[1] = start /\ pending'[2] = rows /\ pending'[3] = end
      BY <1>3, <3>1
    <3>3. ~Mssql!OpenAt(open', pending', 1)
      BY <2>5, <3>2, First, AfterStart, AfterRows
    <3>4. Mssql!AllowedAt(1)'
      BY <1>s, <2>5, <3>2, <3>3 DEF Mssql!AllowedAt
    <3>5. Mssql!OpenAt(open', pending', 2) /\ Mssql!SentAt(sent', pending', 2) = 0
      BY <2>5, <3>2, First, AfterStart, AfterRows
    <3>6. Mssql!AllowedAt(2)'
      <4>0. 2 - 1 = 1
        OBVIOUS
      <4>2. pending'[1].item = "ResultSetStart"
        BY <3>2
      <4>1. pending'[2 - 1].item = "ResultSetStart"
        BY <4>0, <4>2
      <4>3. pending'[2].item = "Rows" /\ pending'[2].n = current.rows /\ current.rows <= MssqlRows
        BY <2>5, <3>2
      <4> QED BY <3>5, <4>1, <4>3 DEF Mssql!AllowedAt
    <3>7. Mssql!OpenAt(open', pending', 3) /\ Mssql!SentAt(sent', pending', 3) = current.rows
      BY <2>5, <3>2, First, AfterStart, AfterRows
    <3>8. Mssql!AllowedAt(3)'
      BY <2>5, <3>2, <3>7 DEF Mssql!AllowedAt
    <3> QED BY <3>1, <3>4, <3>6, <3>8, <2>5
  <2> QED BY <1>r, <2>1, <2>2, <2>3, <2>4, <2>5
<1> HIDE DEF k
<1> QED
  <2>1. \A i \in 1..k : pending'[i] = c[i]
    BY <1>3
  <2>2. \A i \in 1..k : /\ Mssql!AllowedAt(i)'
                        /\ pending'[i].item \in {"ResultSetStart", "Rows", "ResultSetEnd"}
                        /\ pending'[i].item = "ResultSetStart" => i = 1 /\ sets + 1 <= started
    BY <1>4, <2>1
  <2>3. IF k = 0 THEN ~open ELSE pending'[k].item = "ResultSetEnd"
    <3>1. CASE k = 0
      BY <1>4, <3>1
    <3>2. CASE k # 0
      <4>1. k \in 1..k
        BY <1>2, <3>2
      <4> QED BY <1>4, <2>1, <3>2, <4>1
    <3> QED BY <3>1, <3>2
  <2>4. k \in 0..3
    BY <1>2
  <2>5. ~Mssql!OpenAt(open', pending', k + 1)
    <3>1. k + 1 \in Nat \ {0} /\ (k + 1) - 1 = k /\ (k = 0 \/ k + 1 > 1) /\ (k \in {0, 1} \/ k + 1 > 2)
      BY <2>4
    <3>2. k + 1 > 1 => pending'[(k + 1) - 1].item = "ResultSetEnd"
      <4>1. ASSUME k + 1 > 1 PROVE k # 0
        BY <2>4, <4>1
      <4> QED BY <2>3, <3>1, <4>1
    <3>3. ~open' \/ k + 1 > 2 \/ (k + 1 = 2 /\ pending'[1].item = "ResultSetEnd")
      <4>1. CASE k = 0
        BY <2>3, <4>1
      <4>2. CASE k = 1
        <5>1. k # 0 /\ k + 1 = 2
          BY <4>2
        <5>2. pending'[k].item = "ResultSetEnd"
          BY <2>3, <5>1
        <5> QED BY <4>2, <5>1, <5>2
      <4> QED BY <3>1, <4>1, <4>2
    <3> QED BY <3>1, <3>2, <3>3, Shut
  <2> USE <2>4
  <2> WITNESS k \in 0..3
  <2> QED BY <1>3, <2>2, <2>3, <2>5

\* The batch finishes: the open set is closed, and what follows ends with Done.
LEMMA Finishing ==
  ASSUME Mssql!IInv, Mssql!Waits, broken' \in BOOLEAN, NEW after \in Seq(Mssql!Item),
         Mssql!Finishes(after),
         NEW n \in {1, 2}, Len(after) = n,
         after[n].item = "Done",
         after[n].error => told \/ n = 2,
         after[n].cancelled => signal /\ ~after[n].error,
         n = 2 => after[1] = Mssql!Message(TRUE)
  PROVE  Mssql!IInv'
<1>m. n = 2 => after[1].item = "Message"
  BY DEF Mssql!Message
<1>r. /\ current \in ResultSet /\ (error => told) /\ ~ended
      /\ open \in BOOLEAN /\ sent \in 0..MssqlRows /\ sets \in 0..MaxSets
      /\ started \in 0..MaxSets /\ notes \in 0..MaxNotes /\ sets <= started
      /\ (current.state = "none" => ~open) /\ (current.state # "none" => current.gathered < BatchRows)
  BY Reading
<1>t. Mssql!TypeOK
  BY DEF Mssql!IInv
<1>1. /\ pending' = Mssql!CloseItems(current) \o after
      /\ current' = Mssql!NoSet /\ finished' = TRUE
      /\ UNCHANGED <<error, started, notes, deadline, open, sent, sets, told, ended, signal>>
  <2>1. Mssql!CloseItems(current) \in Seq(Mssql!Item)
    BY CloseType, <1>r
  <2> QED BY <2>1 DEF Mssql!Finishes, Mssql!Waits, Mssql!streamVars
<1>2. Mssql!Unstarted' = 0
  BY <1>1 DEF Mssql!Unstarted, Mssql!NoSet
<1>u. started' \in Nat /\ started + 0 <= started' /\ UNCHANGED <<open, sent, sets>>
  BY <1>r, <1>1
<1>3. PICK k \in 0..3 :
           /\ pending' \in Seq(Mssql!Item) /\ Len(pending') = k + Len(after)
           /\ \A i \in 1..Len(after) : pending'[k + i] = after[i]
           /\ \A i \in 1..k : /\ Mssql!AllowedAt(i)'
                              /\ pending'[i].item \in {"ResultSetStart", "Rows", "ResultSetEnd"}
                              /\ pending'[i].item = "ResultSetStart" => i = 1 /\ sets + 1 <= started
           /\ IF k = 0 THEN ~open ELSE pending'[k].item = "ResultSetEnd"
           /\ ~Mssql!OpenAt(open', pending', k + 1)
  <2> HIDE DEF Mssql!IInv
  <2> QED BY <1>u, <1>1, <1>2, Closing
<1>c. \A i \in 1..k : /\ pending'[i].item \in {"ResultSetStart", "Rows", "ResultSetEnd"}
                      /\ pending'[i].item = "ResultSetStart" => i = 1 /\ sets + 1 <= started
  BY <1>3
<1>4. /\ Len(pending') = k + n /\ pending'[k + n].item = "Done"
      /\ n = 2 => pending'[k + 1] = Mssql!Message(TRUE) /\ pending'[k + 1].item = "Message"
      /\ pending'[k + n].error => (told \/ n = 2)
      /\ pending'[k + n].cancelled => signal /\ ~pending'[k + n].error
  <2>1. n \in 1..Len(after) /\ 1 \in 1..Len(after)
    OBVIOUS
  <2>2. pending'[k + n] = after[n] /\ pending'[k + 1] = after[1]
    BY <1>3, <2>1
  <2> QED BY <1>m, <1>3, <2>2
<1>5. /\ ~Mssql!OpenAt(open', pending', k + 1) /\ ~Mssql!OpenAt(open', pending', k + 2)
      /\ n = 2 => ~Mssql!OpenAt(open', pending', k + 3)
  <2>1. ~Mssql!OpenAt(open', pending', k + 1)
    BY <1>3
  <2>2. pending'[k + 1].item \notin {"ResultSetStart", "Rows"} /\ (k = 0 => ~open')
    BY <1>1, <1>3, <1>4
  <2>3. ~Mssql!OpenAt(open', pending', k + 2)
    <3>1. k + 2 \in Nat \ {0} /\ (k + 2) - 1 = k + 1 /\ (k + 2 > 2 \/ ~open')
      BY <2>2
    <3> QED BY <2>2, <3>1, Shut
  <2>4. ASSUME n = 2 PROVE ~Mssql!OpenAt(open', pending', k + 3)
    <3>1. k + 3 \in Nat \ {0} /\ (k + 3) - 1 = k + 2 /\ k + 3 > 2
      OBVIOUS
    <3> QED BY <1>4, <2>4, <3>1, Shut
  <2> QED BY <2>1, <2>3, <2>4
<1>6. ASSUME NEW i \in 1..(k + n) PROVE Mssql!AllowedAt(i)'
  <2>1. CASE i <= k
    <3>1. i \in 1..k
      BY <2>1
    <3> QED BY <1>3, <3>1 DEF Mssql!AllowedAt
  <2>2. CASE i = k + 1 /\ n = 2
    BY <1>4, <1>5, <2>2 DEF Mssql!AllowedAt
  <2>3. CASE i = k + n
    <3>1. pending'[i].item = "Done" /\ i = Len(pending') /\ ~Mssql!OpenAt(open', pending', i)
      BY <1>4, <1>5, <2>3
    <3>2. pending'[i].error => Mssql!ToldBefore(told', pending', i)
      <4>1. CASE n = 1
        BY <1>1, <1>4, <2>3, <4>1 DEF Mssql!ToldBefore
      <4>2. CASE n = 2
        <5>1. k + 1 \in 1..i - 1
          BY <2>3, <4>2
        <5> QED BY <1>4, <4>2, <5>1 DEF Mssql!ToldBefore
      <4> QED BY <4>1, <4>2
    <3>3. pending'[i].cancelled => signal' /\ ~pending'[i].error
      BY <1>1, <1>4, <2>3
    <3> QED BY <3>1, <3>2, <3>3 DEF Mssql!AllowedAt
  <2> QED BY <2>1, <2>2, <2>3
<1>7. ASSUME NEW i \in 1..(k + n) PROVE /\ pending'[i].item = "ResultSetStart" => i = 1
                                        /\ pending'[i].item = "Done" => i = k + n
  <2>1. CASE i <= k
    <3>1. i \in 1..k
      BY <2>1
    <3>2. pending'[i].item \in {"ResultSetStart", "Rows", "ResultSetEnd"}
          /\ (pending'[i].item = "ResultSetStart" => i = 1)
      BY <1>c, <3>1
    <3> QED BY <3>2
  <2>2. CASE i = k + 1 /\ n = 2
    BY <1>4, <2>2
  <2>3. CASE i = k + n
    BY <1>4, <2>3
  <2> QED BY <2>1, <2>2, <2>3
<1>8. Mssql!TypeOK'
  <2>1. current' \in [state : {"none", "inferring", "building"},
                      gathered : 0..BatchRows, rows : 0..MssqlRows]
    BY <1>1, Constants DEF Mssql!NoSet
  <2>2. open' \in BOOLEAN /\ told' \in BOOLEAN /\ ended' \in BOOLEAN /\ signal' \in BOOLEAN
    BY <1>t, <1>1, Zenon DEF Mssql!TypeOK, Mssql!S!StreamTypeOK
  <2> QED BY <1>t, <1>1, <1>3, <2>1, <2>2 DEF Mssql!TypeOK, Mssql!S!StreamTypeOK
<1>9. Mssql!StartsCounted'
  <2>1. \A i, j \in DOMAIN pending' :
           ~(i < j /\ pending'[i].item = "ResultSetStart" /\ pending'[j].item = "ResultSetStart")
    BY <1>4, <1>7
  <2> QED BY <1>r, <1>1, <1>2, <2>1 DEF Mssql!StartsCounted
<1>10. Mssql!CurrentFollows'
  BY <1>1, <1>4, <1>5 DEF Mssql!CurrentFollows, Mssql!NoSet
<1>11. Mssql!ErrorsTold' /\ Mssql!EndsOnce'
  <2>1. Mssql!ErrorsTold'
    BY <1>r, <1>1, <1>4 DEF Mssql!ErrorsTold, Mssql!ToldBefore
  <2>2. Len(pending') = k + n /\ pending' # <<>> /\ DOMAIN pending' = 1..(k + n)
    BY <1>4, <1>3
  <2> QED BY <1>r, <1>1, <1>4, <1>7, <2>1, <2>2 DEF Mssql!EndsOnce, Mssql!NoSet
<1>12. Mssql!PendingInOrder'
  BY <1>4, <1>6 DEF Mssql!PendingInOrder
<1> QED BY <1>8, <1>9, <1>10, <1>11, <1>12 DEF Mssql!IInv

\* The open set is closed and nothing follows, but for a set that holds its
\* start back.
LEMMA Closed ==
  ASSUME Mssql!IInv, Mssql!Waits, pending' = Mssql!CloseItems(current),
         UNCHANGED <<open, sent, sets, told, ended, error, finished>>,
         current' \in ResultSet, current'.state \in {"none", "inferring"},
         current'.gathered = 0, current'.rows = 0,
         NEW u \in {0, 1}, Mssql!Unstarted' = u,
         started' \in 0..MaxSets, started' = started + u,
         pending' \in Seq(Mssql!Item) => Mssql!TypeOK'
  PROVE  Mssql!IInv'
<1>r. /\ current \in ResultSet /\ (error => told) /\ ~ended
      /\ open \in BOOLEAN /\ sent \in 0..MssqlRows /\ sets \in 0..MaxSets
      /\ started \in 0..MaxSets /\ sets <= started
      /\ (current.state # "none" => current.gathered < BatchRows)
      /\ (current.state = "inferring" => sets + 1 <= started)
  BY Reading
<1>2. pending' = Mssql!CloseItems(current) \o <<>> /\ <<>> \in Seq(Mssql!Item)
  BY <1>r, CloseType
<1>u. started' \in Nat /\ started + u <= started' /\ UNCHANGED <<open, sent, sets>>
  BY <1>r
<1>3. PICK k \in 0..3 :
           /\ pending' \in Seq(Mssql!Item) /\ Len(pending') = k + Len(<<>>)
           /\ \A i \in 1..Len(<<>>) : pending'[k + i] = <<>>[i]
           /\ \A i \in 1..k : /\ Mssql!AllowedAt(i)'
                              /\ pending'[i].item \in {"ResultSetStart", "Rows", "ResultSetEnd"}
                              /\ pending'[i].item = "ResultSetStart" => i = 1 /\ sets + 1 <= started
           /\ IF k = 0 THEN ~open ELSE pending'[k].item = "ResultSetEnd"
           /\ ~Mssql!OpenAt(open', pending', k + 1)
  BY <1>u, <1>2, Closing
<1>4. Len(pending') = k /\ ~Mssql!OpenAt(open', pending', k + 1) /\ DOMAIN pending' = 1..k
  BY <1>3
<1>5. Mssql!PendingInOrder'
  BY <1>3, <1>4 DEF Mssql!PendingInOrder
<1>6. \A i \in 1..k : /\ pending'[i].item = "ResultSetStart" => i = 1
                      /\ pending'[i].item # "Done"
  BY <1>3
<1>7. Mssql!StartsCounted'
  <2>1. \A i, j \in DOMAIN pending' :
           ~(i < j /\ pending'[i].item = "ResultSetStart" /\ pending'[j].item = "ResultSetStart")
    BY <1>4, <1>6
  <2>2. sets' + Mssql!Unstarted' <= started'
    BY <1>r, <1>u
  <2> QED BY <2>1, <2>2 DEF Mssql!StartsCounted
<1>8. Mssql!CurrentFollows'
  BY <1>r, <1>4, Constants DEF Mssql!CurrentFollows
<1>9. Mssql!ErrorsTold' /\ Mssql!EndsOnce'
  BY <1>r, <1>4, <1>6 DEF Mssql!ErrorsTold, Mssql!ToldBefore, Mssql!EndsOnce, Mssql!Waits
<1> QED BY <1>3, <1>5, <1>7, <1>8, <1>9 DEF Mssql!IInv

\* One item becomes pending while a set may be open.
LEMMA OneItem ==
  ASSUME Mssql!IInv, Mssql!Waits, NEW it, pending' = <<it>>,
         UNCHANGED <<open, sent, sets, told, ended, finished, current, started>>,
         it = Mssql!Message(TRUE) \/ (it = Mssql!Message(FALSE) /\ error' = error)
           \/ (it = Mssql!Affected /\ error' = error /\ ~open),
         Mssql!TypeOK'
  PROVE  Mssql!IInv'
<1>r. /\ current \in ResultSet /\ (error => told) /\ ~ended
      /\ open \in BOOLEAN /\ sent \in 0..MssqlRows /\ sets \in 0..MaxSets
      /\ started \in 0..MaxSets /\ sets <= started
      /\ (current.state = "none" => ~open)
      /\ (current.state = "building" => open /\ sent + current.gathered = current.rows)
      /\ (current.state = "inferring" => ~open /\ current.gathered = current.rows)
      /\ (current.state # "none" => current.gathered < BatchRows)
  BY Reading
<1>1. it.item \in {"Message", "RowsAffected"}
  BY DEF Mssql!Message, Mssql!Affected
<1>2. /\ Len(pending') = 1 /\ DOMAIN pending' = 1..1 /\ pending'[1] = it /\ pending' # <<>>
  OBVIOUS
<1>3. Mssql!AllowedAt(1)'
  <2>1. it.item = "RowsAffected" => ~open
    BY DEF Mssql!Message
  <2> QED BY <1>1, <1>2, <2>1 DEF Mssql!AllowedAt, Mssql!OpenAt
<1>4. Mssql!PendingInOrder'
  BY <1>2, <1>3 DEF Mssql!PendingInOrder
<1>5. Mssql!StartsCounted'
  BY <1>1, <1>2 DEF Mssql!StartsCounted, Mssql!IInv, Mssql!Unstarted
<1>6. (Mssql!OpenAt(open', pending', 2) <=> open) /\ Mssql!SentAt(sent', pending', 2) = sent
  BY <1>1, <1>2, <1>r DEF Mssql!OpenAt, Mssql!SentAt, Mssql!SentBefore
<1>7. Mssql!CurrentFollows'
  <2>1. Len(pending') + 1 = 2
    BY <1>2
  <2>2. current.state \in {"none", "inferring", "building"}
    BY <1>r DEF ResultSet
  <2> QED BY <1>r, <1>6, <2>1, <2>2 DEF Mssql!CurrentFollows
<1>8. Mssql!ErrorsTold'
  <2>1. CASE it = Mssql!Message(TRUE)
    <3>1. 1 \in 1..(Len(pending') + 1) - 1
      BY <1>2
    <3> QED BY <1>2, <2>1, <3>1 DEF Mssql!ErrorsTold, Mssql!ToldBefore
  <2>2. CASE error' = error
    BY <1>r, <2>2 DEF Mssql!ErrorsTold, Mssql!ToldBefore
  <2> QED BY <2>1, <2>2
<1>9. Mssql!EndsOnce'
  BY <1>r, <1>1, <1>2 DEF Mssql!EndsOnce, Mssql!Waits
<1> QED BY <1>4, <1>5, <1>7, <1>8, <1>9 DEF Mssql!IInv

LEMMA ItemKinds ==
  ASSUME NEW it \in Mssql!Item
  PROVE  /\ it.item \in {"ResultSetStart", "RowsAffected", "Rows", "ResultSetEnd", "Message", "Done"}
         /\ it.item = "Rows" => it.n \in 1..BatchRows
         /\ it.item = "ResultSetEnd" => it.n \in 0..MssqlRows
         /\ it.item = "Message" => it.isError \in BOOLEAN
         /\ it.item = "Done" => it.error \in BOOLEAN /\ it.cancelled \in BOOLEAN
BY DEF Mssql!Item, Mssql!StartItem, Mssql!Affected, Mssql!RowsItem, Mssql!EndItem,
       Mssql!Message, Mssql!Done

\* Handing the first item out moves the others up: each meets the stream as the
\* invariant foresaw it.
LEMMA DeliverInv ==
  ASSUME Mssql!IInv, Mssql!Deliver
  PROVE  Mssql!IInv'
<1> DEFINE it == pending[1]
           n == Len(pending)
<1>1. /\ pending # <<>> /\ pending \in Seq(Mssql!Item) /\ Head(pending) = it /\ n \in Nat \ {0}
      /\ \A i \in 1..n : pending[i] \in Mssql!Item
  BY DEF Mssql!Deliver, Mssql!IInv, Mssql!TypeOK
<1>2. /\ pending' \in Seq(Mssql!Item) /\ Len(pending') = n - 1 /\ DOMAIN pending' = 1..n - 1
      /\ \A i \in 1..n - 1 : pending'[i] = pending[i + 1]
  BY <1>1 DEF Mssql!Deliver
<1>3. /\ open' = (it.item = "ResultSetStart" \/ (open /\ ~(it.item = "ResultSetEnd")))
      /\ sets' = (IF it.item = "ResultSetStart" THEN sets + 1 ELSE sets)
      /\ sent' = (IF it.item = "ResultSetStart" THEN 0
                  ELSE IF it.item = "Rows" THEN sent + it.n ELSE sent)
      /\ told' = (told \/ it = Mssql!Message(TRUE))
      /\ ended' = (ended \/ it.item = "Done")
      /\ UNCHANGED <<signal, current, error, finished, broken, started, notes, deadline>>
  BY <1>1 DEF Mssql!Deliver
<1>4. \A i \in 1..n : Mssql!AllowedAt(i)
  BY <1>1 DEF Mssql!IInv, Mssql!PendingInOrder
<1>t. /\ open \in BOOLEAN /\ sent \in 0..MssqlRows /\ sets \in 0..MaxSets
      /\ started \in 0..MaxSets
      /\ Mssql!StartsCounted /\ Mssql!EndsOnce /\ Mssql!ErrorsTold /\ Mssql!CurrentFollows
      /\ current \in ResultSet
  BY DEF Mssql!IInv, Mssql!TypeOK, Mssql!S!StreamTypeOK, ResultSet
<1> HIDE DEF it, n
<1>k. \A i \in 1..n : pending[i].item \in {"ResultSetStart", "RowsAffected", "Rows", "ResultSetEnd", "Message", "Done"}
  BY <1>1, ItemKinds
<1>f. /\ it = pending[1] /\ 1 \in 1..n /\ n = Len(pending)
  BY <1>1 DEF it, n
<1>a. \A i \in 1..n :
        LET x == pending[i] IN
        /\ x.item = "Rows" => /\ Mssql!OpenAt(open, pending, i)
                              /\ Mssql!SentAt(sent, pending, i) + x.n <= MssqlRows
                              /\ i > 1 => pending[i - 1].item = "ResultSetStart"
        /\ x.item \in {"RowsAffected", "Done"} => ~Mssql!OpenAt(open, pending, i)
        /\ x.item = "Message" => i = 1 \/ ~Mssql!OpenAt(open, pending, i)
  BY <1>4 DEF Mssql!AllowedAt
<1>o1. Mssql!OpenAt(open', pending', 1) <=> Mssql!OpenAt(open, pending, 2)
  <2>1. it.item = "Rows" => open
    BY <1>a, <1>f DEF Mssql!OpenAt
  <2>2. open' <=> it.item \in {"ResultSetStart", "Rows"} \/ (open /\ it.item # "ResultSetEnd")
    BY <1>3, <2>1
  <2> QED BY <2>2, <1>f DEF Mssql!OpenAt
<1>o2. n >= 2 => (Mssql!OpenAt(open', pending', 2) <=> pending[2].item \in {"ResultSetStart", "Rows"})
  <2> SUFFICES ASSUME n >= 2
               PROVE  Mssql!OpenAt(open', pending', 2) <=> pending[2].item \in {"ResultSetStart", "Rows"}
    OBVIOUS
  <2>1. 2 \in 1..n /\ 1 \in 1..n - 1 /\ 1 + 1 = 2
    BY <1>1, <1>f
  <2>2. pending'[1] = pending[2]
    BY <2>1, <1>2, <1>f
  <2>3. pending[2].item \in {"RowsAffected", "Done", "Message"} => ~Mssql!OpenAt(open, pending, 2)
    BY <1>a, <2>1
  <2>4. open' <=> Mssql!OpenAt(open, pending, 2)
    BY <1>o1 DEF Mssql!OpenAt
  <2>5. pending[2].item \in {"ResultSetStart", "RowsAffected", "Rows", "ResultSetEnd", "Message", "Done"}
    BY <1>k, <2>1
  <2> QED BY <2>2, <2>3, <2>4, <2>5 DEF Mssql!OpenAt
<1>5. ASSUME NEW i \in 1..n
      PROVE  Mssql!OpenAt(open', pending', i) <=> Mssql!OpenAt(open, pending, i + 1)
  <2>1. CASE i = 1
    BY <1>o1, <2>1
  <2>2. CASE i = 2
    BY <1>o2, <2>2 DEF Mssql!OpenAt
  <2>3. CASE i > 2
    <3>1. i - 1 \in 1..n - 1 /\ (i - 1) + 1 = i /\ (i + 1) - 1 = i
      BY <1>1, <1>f, <2>3
    <3>2. pending'[i - 1] = pending[i]
      BY <1>2, <1>f, <3>1
    <3> QED BY <2>3, <3>1, <3>2 DEF Mssql!OpenAt
  <2> QED BY <2>1, <2>2, <2>3
<1>6. ASSUME NEW i \in 1..n, Mssql!OpenAt(open, pending, i + 1)
      PROVE  Mssql!SentAt(sent', pending', i) = Mssql!SentAt(sent, pending, i + 1)
  <2>1. CASE i = 1
    BY <1>3, <1>f, <2>1 DEF Mssql!SentAt, Mssql!SentBefore
  <2>2. CASE i = 2
    <3>1. 2 \in 1..n /\ 1 \in 1..n - 1 /\ 1 + 1 = 2
      BY <1>1, <1>f, <2>2
    <3>2. pending'[1] = pending[2] /\ pending[2].item \in {"ResultSetStart", "Rows"}
      BY <1>2, <1>6, <1>f, <2>2, <3>1 DEF Mssql!OpenAt
    <3>3. pending[2].item = "Rows" => pending[1].item = "ResultSetStart"
      BY <1>a, <3>1
    <3> QED BY <1>3, <1>f, <2>2, <3>2, <3>3 DEF Mssql!SentAt, Mssql!SentBefore
  <2>3. CASE i > 2
    <3>1. i - 1 \in 1..n - 1 /\ (i - 1) + 1 = i /\ (i + 1) - 1 = i
      BY <1>1, <1>f, <2>3
    <3>2. pending'[i - 1] = pending[i]
      BY <1>2, <1>f, <3>1
    <3> QED BY <2>3, <3>1, <3>2 DEF Mssql!SentAt, Mssql!SentBefore
  <2> QED BY <2>1, <2>2, <2>3
<1>7. ASSUME NEW i \in 1..n, Mssql!ToldBefore(told, pending, i + 1)
      PROVE  Mssql!ToldBefore(told', pending', i)
  <2>1. CASE told
    BY <1>3, <2>1 DEF Mssql!ToldBefore
  <2>2. ASSUME NEW j \in 1..i, pending[j] = Mssql!Message(TRUE)
        PROVE  Mssql!ToldBefore(told', pending', i)
    <3>1. CASE j = 1
      BY <1>3, <1>f, <2>2, <3>1 DEF Mssql!ToldBefore
    <3>2. CASE j # 1
      <4>1. j - 1 \in 1..n - 1 /\ (j - 1) + 1 = j /\ j - 1 \in 1..i - 1
        BY <1>1, <1>f, <3>2
      <4>2. pending'[j - 1] = Mssql!Message(TRUE)
        BY <1>2, <1>f, <2>2, <4>1
      <4> QED BY <4>1, <4>2 DEF Mssql!ToldBefore
    <3> QED BY <3>1, <3>2
  <2>3. (i + 1) - 1 = i
    OBVIOUS
  <2> QED BY <1>7, <2>1, <2>2, <2>3 DEF Mssql!ToldBefore
<1>s. \A i \in 2..n : pending[1].item = "ResultSetStart" /\ pending[i].item = "ResultSetStart"
                         => i = n /\ sets + 2 + Mssql!Unstarted <= started
  <2> SUFFICES ASSUME NEW i \in 2..n, pending[1].item = "ResultSetStart", pending[i].item = "ResultSetStart"
               PROVE  i = n /\ sets + 2 + Mssql!Unstarted <= started
    OBVIOUS
  <2>1. 1 \in DOMAIN pending /\ i \in DOMAIN pending /\ 1 < i
    BY <1>1, <1>f
  <2> QED BY <1>t, <1>f, <2>1 DEF Mssql!StartsCounted
<1>u. Mssql!Unstarted \in {0, 1} /\ Mssql!Unstarted' = Mssql!Unstarted
  BY <1>3 DEF Mssql!Unstarted
<1>8. ASSUME NEW i \in 1..n - 1 PROVE Mssql!AllowedAt(i)'
  <2>1. i + 1 \in 2..n /\ i + 1 \in 1..n /\ i \in 1..n /\ i + 1 > 1
    BY <1>1, <1>f
  <2> DEFINE x == pending[i + 1]
  <2>2. pending'[i] = x
    BY <1>2, <1>f
  <2>3. Mssql!AllowedAt(i + 1)
    BY <1>4, <1>f, <2>1
  <2>4. Mssql!OpenAt(open', pending', i) <=> Mssql!OpenAt(open, pending, i + 1)
    BY <1>5, <2>1
  <2>5. Mssql!OpenAt(open, pending, i + 1)
          => Mssql!SentAt(sent', pending', i) = Mssql!SentAt(sent, pending, i + 1)
    BY <1>6, <2>1
  <2>6. CASE x.item = "ResultSetStart"
    <3>1. ~Mssql!OpenAt(open, pending, i + 1) /\ sets + 1 + Mssql!Unstarted <= started
      BY <2>3, <2>6 DEF Mssql!AllowedAt
    <3>2. sets' + 1 + Mssql!Unstarted' <= started'
      <4>1. CASE it.item = "ResultSetStart"
        <5>1. sets + 2 + Mssql!Unstarted <= started
          BY <1>s, <1>f, <2>1, <2>6, <4>1
        <5>2. sets' = sets + 1 /\ started' = started
          BY <1>3, <4>1
        <5> QED BY <1>t, <1>u, <5>1, <5>2
      <4>2. CASE it.item # "ResultSetStart"
        BY <1>3, <1>u, <3>1, <4>2
      <4> QED BY <4>1, <4>2
    <3> QED BY <2>2, <2>4, <2>6, <3>1, <3>2 DEF Mssql!AllowedAt
  <2>7. CASE x.item = "Rows"
    <3>1. /\ Mssql!OpenAt(open, pending, i + 1)
          /\ Mssql!SentAt(sent, pending, i + 1) + x.n <= MssqlRows
          /\ pending[(i + 1) - 1].item = "ResultSetStart"
      BY <2>1, <2>3, <2>7 DEF Mssql!AllowedAt
    <3>2. i > 1 => pending'[i - 1].item = "ResultSetStart"
      <4> SUFFICES ASSUME i > 1 PROVE pending'[i - 1].item = "ResultSetStart"
        OBVIOUS
      <4>1. i - 1 \in 1..n - 1 /\ (i - 1) + 1 = i /\ (i + 1) - 1 = i
        BY <1>1, <1>f
      <4> QED BY <1>2, <1>f, <3>1, <4>1
    <3> QED BY <2>2, <2>4, <2>5, <2>7, <3>1, <3>2 DEF Mssql!AllowedAt
  <2>8. CASE x.item \in {"ResultSetEnd", "RowsAffected", "Message"}
    BY <2>1, <2>2, <2>3, <2>4, <2>5, <2>8 DEF Mssql!AllowedAt
  <2>9. CASE x.item = "Done"
    <3>1. /\ i + 1 = n /\ ~Mssql!OpenAt(open, pending, i + 1)
          /\ x.error => Mssql!ToldBefore(told, pending, i + 1)
          /\ x.cancelled => signal /\ ~x.error
      BY <1>f, <2>3, <2>9 DEF Mssql!AllowedAt
    <3>2. x.error => Mssql!ToldBefore(told', pending', i)
      BY <1>7, <2>1, <3>1
    <3>3. i = Len(pending') /\ signal' = signal
      BY <1>2, <1>3, <1>f, <1>1, <3>1
    <3> QED BY <2>2, <2>4, <2>9, <3>1, <3>2, <3>3 DEF Mssql!AllowedAt
  <2>10. x.item \in {"ResultSetStart", "RowsAffected", "Rows", "ResultSetEnd", "Message", "Done"}
    BY <1>k, <2>1
  <2> QED BY <2>6, <2>7, <2>8, <2>9, <2>10
<1>9. Mssql!PendingInOrder'
  BY <1>2, <1>8, <1>f DEF Mssql!PendingInOrder
<1>10. Mssql!StartsCounted'
  <2>1. sets' + Mssql!Unstarted' <= started'
    <3>1. CASE it.item = "ResultSetStart"
      <4>1. sets + 1 + Mssql!Unstarted <= started
        BY <1>4, <1>f, <3>1 DEF Mssql!AllowedAt
      <4>2. sets' = sets + 1 /\ started' = started
        BY <1>3, <3>1
      <4> QED BY <1>t, <1>u, <4>1, <4>2
    <3>2. CASE it.item # "ResultSetStart"
      BY <1>3, <1>t, <1>u, <3>2 DEF Mssql!StartsCounted
    <3> QED BY <3>1, <3>2
  <2>2. ASSUME NEW i \in 1..n - 1, NEW j \in 1..n - 1, i < j,
               pending'[i].item = "ResultSetStart", pending'[j].item = "ResultSetStart"
        PROVE  j = Len(pending') /\ sets' + 2 + Mssql!Unstarted' <= started'
    <3>1. /\ i + 1 \in 1..n /\ j + 1 \in 1..n /\ i + 1 < j + 1 /\ i + 1 \in 2..n
          /\ DOMAIN pending = 1..n
      BY <1>1, <1>f, <2>2
    <3>2. pending[i + 1].item = "ResultSetStart" /\ pending[j + 1].item = "ResultSetStart"
      BY <1>2, <1>f, <2>2
    <3>3. j + 1 = n /\ sets + 2 + Mssql!Unstarted <= started
      BY <1>t, <1>f, <3>1, <3>2 DEF Mssql!StartsCounted
    <3>4. it.item # "ResultSetStart"
      <4>1. ASSUME it.item = "ResultSetStart" PROVE i + 1 = n
        BY <1>s, <1>f, <3>1, <3>2, <4>1
      <4> QED BY <4>1, <3>1, <3>3, <2>2
    <3> QED BY <1>1, <1>2, <1>3, <1>u, <3>3, <3>4
  <2> QED BY <1>2, <1>f, <2>1, <2>2 DEF Mssql!StartsCounted
<1>11. n \in 1..n /\ Len(pending') + 1 = n /\ current' = current
  BY <1>1, <1>2, <1>3, <1>f
<1>12. Mssql!CurrentFollows'
  <2>1. /\ Mssql!OpenAt(open', pending', n) <=> Mssql!OpenAt(open, pending, n + 1)
        /\ Mssql!OpenAt(open, pending, n + 1)
             => Mssql!SentAt(sent', pending', n) = Mssql!SentAt(sent, pending, n + 1)
    BY <1>5, <1>6, <1>11
  <2>2. current.state \in {"none", "inferring", "building"}
    BY <1>t DEF ResultSet
  <2> QED BY <1>t, <1>f, <1>11, <2>1, <2>2 DEF Mssql!CurrentFollows
<1>13. Mssql!ErrorsTold'
  BY <1>t, <1>3, <1>f, <1>7, <1>11 DEF Mssql!ErrorsTold
<1>14. Mssql!EndsOnce'
  <2>1. ~ended
    BY <1>t, <1>1 DEF Mssql!EndsOnce
  <2>2. it.item = "Done" => n = 1 /\ finished
    BY <1>4, <1>f, <1>1, <1>t DEF Mssql!AllowedAt, Mssql!EndsOnce
  <2>3. n = 1 <=> pending' = <<>>
    BY <1>2, <1>1, <1>f
  <2>4. \A i \in 1..n - 1 : pending'[i].item = "Done" => finished
    <3> SUFFICES ASSUME NEW i \in 1..n - 1, pending'[i].item = "Done" PROVE finished
      OBVIOUS
    <3>1. i + 1 \in DOMAIN pending /\ pending[i + 1].item = "Done"
      BY <1>1, <1>2, <1>f
    <3> QED BY <1>t, <3>1 DEF Mssql!EndsOnce
  <2>5. finished => pending[n].item = "Done"
    BY <1>t, <1>1, <1>f DEF Mssql!EndsOnce
  <2>6. n > 1 => pending'[n - 1] = pending[n]
    <3> SUFFICES ASSUME n > 1 PROVE pending'[n - 1] = pending[n]
      OBVIOUS
    <3>1. n - 1 \in 1..n - 1 /\ (n - 1) + 1 = n
      BY <1>1, <1>f
    <3> QED BY <1>2, <1>f, <3>1
  <2>7. finished' => current'.state = "none"
    BY <1>t, <1>3 DEF Mssql!EndsOnce
  <2>8. finished' => IF pending' = <<>> THEN ended' ELSE pending'[Len(pending')].item = "Done"
    <3>1. n = 1 \/ n > 1
      BY <1>1, <1>f
    <3>2. CASE n = 1
      BY <1>3, <1>f, <2>3, <2>5, <3>2
    <3>3. CASE n > 1
      <4>1. Len(pending') = n - 1 /\ pending' # <<>>
        BY <1>2, <1>f, <2>3, <3>3
      <4> QED BY <1>3, <2>5, <2>6, <3>3, <4>1
    <3> QED BY <3>1, <3>2, <3>3
  <2>9. ended' => finished' /\ pending' = <<>>
    BY <1>3, <2>1, <2>2, <2>3
  <2> QED BY <1>2, <1>3, <1>f, <2>4, <2>7, <2>8, <2>9 DEF Mssql!EndsOnce
<1>15. Mssql!TypeOK'
  <2>1. open' \in BOOLEAN /\ told' \in BOOLEAN /\ ended' \in BOOLEAN /\ signal' \in BOOLEAN
    BY <1>3 DEF Mssql!IInv, Mssql!TypeOK, Mssql!S!StreamTypeOK
  <2>2. sets' \in 0..MaxSets
    <3>1. it.item = "ResultSetStart" => sets + 1 + Mssql!Unstarted <= started
      BY <1>4, <1>f DEF Mssql!AllowedAt
    <3>2. it.item = "ResultSetStart" => sets + 1 \in 0..MaxSets
      BY <1>t, <1>u, <3>1, Constants
    <3> QED BY <1>3, <1>t, <3>2
  <2>3. sent' \in 0..MssqlRows
    <3>1. it.item = "Rows" => sent + it.n <= MssqlRows /\ it.n \in 1..BatchRows
      BY <1>1, <1>a, <1>f, ItemKinds DEF Mssql!SentAt
    <3> QED BY <1>3, <1>t, <3>1, Constants
  <2> QED BY <1>2, <1>3, <2>1, <2>2, <2>3 DEF Mssql!IInv, Mssql!TypeOK, Mssql!S!StreamTypeOK
<1> QED BY <1>9, <1>10, <1>12, <1>13, <1>14, <1>15 DEF Mssql!IInv

\* A set that the server announces ends the one before it.
LEMMA NewResultsetInv ==
  ASSUME Mssql!IInv, Mssql!NewResultset
  PROVE  Mssql!IInv'
<1>w. Mssql!Waits /\ started < MaxSets /\ started' = started + 1
      /\ UNCHANGED <<error, broken, notes, finished, deadline, open, sent, sets, told, ended, signal>>
  BY DEF Mssql!NewResultset, Mssql!Reads, Mssql!tokenFrame, Mssql!streamVars
<1>r. /\ current \in ResultSet /\ (error => told) /\ ~ended
      /\ open \in BOOLEAN /\ sent \in 0..MssqlRows /\ sets \in 0..MaxSets
      /\ started \in 0..MaxSets /\ sets <= started
      /\ (current.state # "none" => current.gathered < BatchRows)
      /\ (current.state = "inferring" => sets + 1 <= started)
  BY <1>w, Reading
<1>s. started' \in 0..MaxSets /\ started' \in Nat /\ started + 0 <= started' /\ started + 1 <= started'
  BY <1>w, <1>r, Constants
<1>1. CASE current' = [state |-> "building", gathered |-> 0, rows |-> 0]
           /\ pending' = Mssql!CloseItems(current) \o <<Mssql!StartItem>>
  <2> DEFINE after == <<Mssql!StartItem>>
  <2>1. after \in Seq(Mssql!Item) /\ Len(after) = 1 /\ after[1] = Mssql!StartItem
    BY Items
  <2>2. /\ Mssql!Unstarted' = 0
        /\ current'.state = "building" /\ current'.gathered = 0 /\ current'.rows = 0
        /\ current' \in ResultSet
    BY <1>1, Constants DEF Mssql!Unstarted, ResultSet
  <2> HIDE DEF after
  <2>3. PICK k \in 0..3 :
             /\ pending' \in Seq(Mssql!Item) /\ Len(pending') = k + Len(after)
             /\ \A i \in 1..Len(after) : pending'[k + i] = after[i]
             /\ \A i \in 1..k : /\ Mssql!AllowedAt(i)'
                                /\ pending'[i].item \in {"ResultSetStart", "Rows", "ResultSetEnd"}
                                /\ pending'[i].item = "ResultSetStart" => i = 1 /\ sets + 1 <= started
             /\ IF k = 0 THEN ~open ELSE pending'[k].item = "ResultSetEnd"
             /\ ~Mssql!OpenAt(open', pending', k + 1)
    <3>1. pending' = Mssql!CloseItems(current) \o after
      BY <1>1 DEF after
    <3> QED BY <1>w, <1>s, <2>1, <2>2, <3>1, Closing
  <2>4. /\ Len(pending') = k + 1 /\ DOMAIN pending' = 1..k + 1 /\ pending' # <<>>
        /\ pending'[k + 1].item = "ResultSetStart"
    <3>1. 1 \in 1..Len(after)
      BY <2>1
    <3>2. pending'[k + 1] = Mssql!StartItem
      BY <2>1, <2>3, <3>1
    <3> QED BY <2>1, <2>3, <3>2 DEF Mssql!StartItem
  <2>5. Mssql!AllowedAt(k + 1)'
    <3>1. sets' + 1 + 0 <= started'
      BY <1>r, <1>w
    <3> QED BY <2>2, <2>3, <2>4, <3>1 DEF Mssql!AllowedAt
  <2>6. Mssql!PendingInOrder'
    <3> SUFFICES ASSUME NEW i \in 1..k + 1 PROVE Mssql!AllowedAt(i)'
      BY <2>4 DEF Mssql!PendingInOrder
    <3>1. i \in 1..k \/ i = k + 1
      OBVIOUS
    <3> QED BY <2>3, <2>5, <3>1
  <2>7. Mssql!StartsCounted'
    <3>1. sets' + Mssql!Unstarted' <= started'
      BY <1>r, <1>w, <2>2
    <3>2. ASSUME NEW i \in 1..k + 1, NEW j \in 1..k + 1, i < j,
                 pending'[i].item = "ResultSetStart", pending'[j].item = "ResultSetStart"
          PROVE  j = Len(pending') /\ sets' + 2 + Mssql!Unstarted' <= started'
      <4>1. i \in 1..k /\ (j \in 1..k \/ j = k + 1)
        BY <3>2
      <4>2. i = 1 /\ sets + 1 <= started
        BY <2>3, <3>2, <4>1
      <4>3. j = k + 1
        BY <2>3, <3>2, <4>1, <4>2
      <4> QED BY <1>r, <1>w, <2>2, <2>4, <4>2, <4>3
    <3> QED BY <2>4, <3>1, <3>2 DEF Mssql!StartsCounted
  <2>8. Mssql!OpenAt(open', pending', k + 2) /\ Mssql!SentAt(sent', pending', k + 2) = 0
    <3>1. (k + 2) - 1 = k + 1 /\ k + 2 # 1
      OBVIOUS
    <3> QED BY <2>4, <3>1 DEF Mssql!OpenAt, Mssql!SentAt
  <2>9. Mssql!CurrentFollows'
    <3>1. Len(pending') + 1 = k + 2
      BY <2>4
    <3> QED BY <2>2, <2>8, <3>1, Constants DEF Mssql!CurrentFollows
  <2>10. Mssql!ErrorsTold'
    BY <1>r, <1>w DEF Mssql!ErrorsTold, Mssql!ToldBefore
  <2>11. Mssql!EndsOnce'
    <3>1. \A i \in 1..k + 1 : pending'[i].item # "Done"
      <4> SUFFICES ASSUME NEW i \in 1..k + 1 PROVE pending'[i].item # "Done"
        OBVIOUS
      <4>1. i \in 1..k \/ i = k + 1
        OBVIOUS
      <4> QED BY <2>3, <2>4, <4>1
    <3> QED BY <1>r, <1>w, <2>4, <3>1 DEF Mssql!EndsOnce, Mssql!Waits
  <2>12. Mssql!TypeOK'
    BY <1>w, <1>s, <2>2, <2>3 DEF Mssql!IInv, Mssql!TypeOK, Mssql!S!StreamTypeOK, ResultSet
  <2> QED BY <2>6, <2>7, <2>9, <2>10, <2>11, <2>12 DEF Mssql!IInv
<1>2. CASE current' = [state |-> "inferring", gathered |-> 0, rows |-> 0]
           /\ pending' = Mssql!CloseItems(current)
  <2>1. /\ Mssql!Unstarted' = 1
        /\ current'.state = "inferring" /\ current'.gathered = 0 /\ current'.rows = 0
        /\ current' \in ResultSet
    BY <1>2, Constants DEF Mssql!Unstarted, ResultSet
  <2>2. pending' \in Seq(Mssql!Item) => Mssql!TypeOK'
    BY <1>w, <1>s, <2>1 DEF Mssql!IInv, Mssql!TypeOK, Mssql!S!StreamTypeOK, ResultSet
  <2> QED BY <1>w, <1>s, <1>2, <2>1, <2>2, Closed
<1> QED BY <1>1, <1>2 DEF Mssql!NewResultset

LEMMA DoneTokenInv ==
  ASSUME Mssql!IInv, Mssql!DoneToken
  PROVE  Mssql!IInv'
<1>w. Mssql!Waits
      /\ UNCHANGED <<error, broken, started, finished, deadline, open, sent, sets, told, ended, signal>>
  BY DEF Mssql!DoneToken, Mssql!Reads, Mssql!tokenFrame, Mssql!streamVars
<1>r. started \in 0..MaxSets /\ (current.state = "none" => ~open)
  BY <1>w, Reading
<1>1. CASE pending' = Mssql!CloseItems(current) /\ current' = Mssql!NoSet /\ UNCHANGED notes
  <2>1. /\ Mssql!Unstarted' = 0
        /\ current'.state = "none" /\ current'.gathered = 0 /\ current'.rows = 0
        /\ current' \in ResultSet
    BY <1>1, Constants DEF Mssql!Unstarted, ResultSet, Mssql!NoSet
  <2>2. started' = started + 0 /\ started' \in 0..MaxSets
    BY <1>w, <1>r
  <2>3. pending' \in Seq(Mssql!Item) => Mssql!TypeOK'
    BY <1>w, <1>1, <2>1 DEF Mssql!IInv, Mssql!TypeOK, Mssql!S!StreamTypeOK, ResultSet
  <2> QED BY <1>w, <1>1, <2>1, <2>2, <2>3, Closed
<1>2. CASE current.state = "none" /\ notes < MaxNotes
           /\ pending' = <<Mssql!Affected>> /\ notes' = notes + 1 /\ UNCHANGED current
  <2>1. notes' \in 0..MaxNotes /\ pending' \in Seq(Mssql!Item)
    BY <1>2, Constants, Items DEF Mssql!IInv, Mssql!TypeOK
  <2>2. Mssql!TypeOK'
    BY <1>w, <1>2, <2>1 DEF Mssql!IInv, Mssql!TypeOK, Mssql!S!StreamTypeOK
  <2> QED BY <1>w, <1>r, <1>2, <2>2, OneItem
<1> QED BY <1>1, <1>2 DEF Mssql!DoneToken

LEMMA InfoTokenInv ==
  ASSUME Mssql!IInv, Mssql!InfoToken
  PROVE  Mssql!IInv'
<1>1. Mssql!Waits /\ pending' = <<Mssql!Message(FALSE)>>
      /\ UNCHANGED <<error, broken, started, current, finished, deadline, open, sent, sets, told, ended, signal>>
  BY DEF Mssql!InfoToken, Mssql!Reads, Mssql!tokenFrame, Mssql!streamVars
<1>2. notes' \in 0..MaxNotes /\ pending' \in Seq(Mssql!Item)
  <2>1. notes \in 0..MaxNotes /\ notes < MaxNotes /\ notes' = notes + 1
    BY DEF Mssql!InfoToken, Mssql!IInv, Mssql!TypeOK
  <2> DEFINE it == Mssql!Message(FALSE)
  <2>2. it \in Mssql!Item /\ pending' = <<it>>
    BY <1>1, Items
  <2> HIDE DEF it
  <2>3. notes' \in 0..MaxNotes
    BY <2>1, Constants
  <2>5. pending' \in Seq(Mssql!Item)
    BY <2>2
  <2> QED BY <2>3, <2>5
<1>3. Mssql!TypeOK'
  BY <1>1, <1>2 DEF Mssql!IInv, Mssql!TypeOK, Mssql!S!StreamTypeOK
<1> QED BY <1>1, <1>3, OneItem

LEMMA ErrorTokenInv ==
  ASSUME Mssql!IInv, Mssql!ErrorToken
  PROVE  Mssql!IInv'
<1>1. Mssql!Waits /\ pending' = <<Mssql!Message(TRUE)>> /\ error' = TRUE
      /\ UNCHANGED <<started, current, finished, deadline, open, sent, sets, told, ended, signal>>
  BY DEF Mssql!ErrorToken, Mssql!Reads, Mssql!tokenFrame, Mssql!streamVars
<1>2. notes' \in 0..MaxNotes /\ pending' \in Seq(Mssql!Item) /\ broken' \in BOOLEAN
  <2>1. notes \in 0..MaxNotes /\ notes < MaxNotes /\ notes' = notes + 1 /\ broken \in BOOLEAN
    BY DEF Mssql!ErrorToken, Mssql!IInv, Mssql!TypeOK
  <2> DEFINE it == Mssql!Message(TRUE)
  <2>2. it \in Mssql!Item /\ pending' = <<it>>
    BY <1>1, Items
  <2> HIDE DEF it
  <2>3. broken' \in BOOLEAN
    BY <2>1 DEF Mssql!ErrorToken
  <2>4. notes' \in 0..MaxNotes
    BY <2>1, Constants
  <2>5. pending' \in Seq(Mssql!Item)
    BY <2>2
  <2> QED BY <2>3, <2>4, <2>5
<1>3. Mssql!TypeOK'
  BY <1>1, <1>2 DEF Mssql!IInv, Mssql!TypeOK, Mssql!S!StreamTypeOK
<1> QED BY <1>1, <1>3, OneItem

\* A row joins the builder; a full builder, or an inferring set that starts,
\* makes items.
LEMMA RowInv ==
  ASSUME Mssql!IInv, Mssql!Row
  PROVE  Mssql!IInv'
<1> DEFINE rs == [current EXCEPT !.rows = @ + 1, !.gathered = @ + 1]
<1>w. /\ Mssql!Waits /\ current.state # "none" /\ current.rows < MssqlRows /\ pending = <<>> /\ ~finished
      /\ UNCHANGED <<error, broken, started, notes, finished, deadline, open, sent, sets, told, ended, signal>>
  BY DEF Mssql!Row, Mssql!Reads, Mssql!Waits, Mssql!tokenFrame, Mssql!streamVars
<1>r. /\ current \in ResultSet /\ (error => told) /\ ~ended
      /\ open \in BOOLEAN /\ sent \in 0..MssqlRows /\ sets \in 0..MaxSets
      /\ started \in 0..MaxSets /\ sets <= started
      /\ (current.state = "building" => open /\ sent + current.gathered = current.rows)
      /\ (current.state = "inferring" => ~open /\ current.gathered = current.rows /\ sets + 1 <= started)
      /\ current.gathered < BatchRows
  BY <1>w, Reading
<1>s. /\ rs.state = current.state /\ rs.gathered = current.gathered + 1 /\ rs.rows = current.rows + 1
      /\ rs.state \in {"inferring", "building"}
      /\ current.gathered \in Nat /\ current.rows \in Nat /\ rs.rows \in 0..MssqlRows
      /\ rs.gathered \in 1..BatchRows /\ rs \in ResultSet
  <2>1. /\ rs.state = current.state /\ rs.gathered = current.gathered + 1 /\ rs.rows = current.rows + 1
        /\ rs.state \in {"inferring", "building"}
        /\ current.gathered \in Nat /\ current.rows \in Nat
    BY <1>r, <1>w, Constants DEF ResultSet
  <2>2. rs.rows \in 0..MssqlRows /\ rs.gathered \in 1..BatchRows
    BY <1>r, <1>w, <2>1, Constants
  <2>3. rs \in ResultSet
    <3>1. rs = [current EXCEPT !.rows = rs.rows, !.gathered = rs.gathered]
      BY <1>r, <2>1 DEF ResultSet
    <3>2. rs.gathered \in 0..BatchRows
      BY <2>2
    <3> HIDE DEF rs
    <3> QED BY <1>r, <2>2, <3>1, <3>2 DEF ResultSet
  <2> QED BY <2>1, <2>2, <2>3
<1>d. \/ /\ rs.gathered < BatchRows /\ current' = rs /\ UNCHANGED pending
      \/ /\ rs.state = "building" /\ rs.gathered = BatchRows
         /\ current' = [rs EXCEPT !.gathered = 0]
         /\ pending' = <<Mssql!RowsItem(BatchRows)>>
      \/ /\ rs.state = "inferring"
         /\ current' = Mssql!Building(rs) /\ pending' = Mssql!StartItems(rs)
  BY DEF Mssql!Row
<1> HIDE DEF rs
<1>t. Mssql!TypeOK
  BY DEF Mssql!IInv
<1>1. CASE rs.gathered < BatchRows /\ current' = rs /\ UNCHANGED pending
  <2>1. pending' = <<>> /\ Len(pending') = 0 /\ Len(pending') + 1 = 1 /\ DOMAIN pending' = {}
    BY <1>1, <1>w
  <2>2. Mssql!TypeOK'
    BY <1>1, <1>w, <1>s, <1>t DEF Mssql!TypeOK, Mssql!S!StreamTypeOK, ResultSet
  <2>3. Mssql!CurrentFollows'
    <3>1. /\ current'.state = "building" => open' /\ sent' + current'.gathered = current'.rows
          /\ current'.state = "inferring" => ~open' /\ current'.gathered = current'.rows
          /\ current'.state \in {"inferring", "building"} /\ current'.gathered < BatchRows
      BY <1>1, <1>w, <1>r, <1>s
    <3> QED BY <2>1, <3>1 DEF Mssql!CurrentFollows, Mssql!OpenAt, Mssql!SentAt
  <2>4. Mssql!Unstarted' = Mssql!Unstarted
    BY <1>1, <1>s DEF Mssql!Unstarted
  <2>5. Mssql!StartsCounted'
    BY <1>w, <2>1, <2>4 DEF Mssql!IInv, Mssql!StartsCounted
  <2>6. Mssql!PendingInOrder'
    BY <2>1 DEF Mssql!PendingInOrder
  <2>7. Mssql!ErrorsTold' /\ Mssql!EndsOnce'
    BY <1>w, <1>r, <2>1 DEF Mssql!ErrorsTold, Mssql!ToldBefore, Mssql!EndsOnce
  <2> QED BY <2>2, <2>3, <2>5, <2>6, <2>7 DEF Mssql!IInv
<1>2. CASE /\ rs.state = "building" /\ rs.gathered = BatchRows
           /\ current' = [rs EXCEPT !.gathered = 0]
           /\ pending' = <<Mssql!RowsItem(BatchRows)>>
  <2>1. /\ Len(pending') = 1 /\ Len(pending') + 1 = 2 /\ DOMAIN pending' = 1..1 /\ pending' # <<>>
        /\ pending'[1].item = "Rows" /\ pending'[1].n = BatchRows
        /\ pending' \in Seq(Mssql!Item)
    <3>1. Mssql!RowsItem(BatchRows) \in Mssql!Item
      BY Items, Constants
    <3> QED BY <1>2, <3>1 DEF Mssql!RowsItem
  <2>2. /\ current'.state = "building" /\ current'.gathered = 0 /\ current'.rows = rs.rows
        /\ current' \in ResultSet
    BY <1>2, <1>s, Constants DEF ResultSet
  <2>3. open /\ sent + BatchRows = rs.rows
    BY <1>2, <1>r, <1>s
  <2>4. Mssql!TypeOK'
    BY <1>w, <1>t, <2>1, <2>2 DEF Mssql!TypeOK, Mssql!S!StreamTypeOK, ResultSet
  <2>5. Mssql!PendingInOrder'
    <3>1. sent' + BatchRows <= MssqlRows /\ open'
      BY <1>w, <1>s, <2>3
    <3>2. Mssql!AllowedAt(1)'
      BY <2>1, <3>1 DEF Mssql!AllowedAt, Mssql!OpenAt, Mssql!SentAt
    <3> QED BY <2>1, <3>2 DEF Mssql!PendingInOrder
  <2>6. Mssql!CurrentFollows'
    <3>1. Mssql!OpenAt(open', pending', 2)
      BY <2>1 DEF Mssql!OpenAt
    <3>2. Mssql!SentAt(sent', pending', 2) = sent + BatchRows
      BY <1>w, <2>1 DEF Mssql!SentAt, Mssql!SentBefore
    <3> QED BY <1>s, <2>1, <2>2, <2>3, <3>1, <3>2, Constants DEF Mssql!CurrentFollows
  <2>7. Mssql!StartsCounted'
    <3>1. Mssql!Unstarted' = 0
      BY <2>2 DEF Mssql!Unstarted
    <3> QED BY <1>w, <1>r, <2>1, <3>1 DEF Mssql!StartsCounted
  <2>8. Mssql!ErrorsTold' /\ Mssql!EndsOnce'
    <3>1. Mssql!ErrorsTold'
      BY <1>w, <1>r DEF Mssql!ErrorsTold, Mssql!ToldBefore
    <3>2. ~finished' /\ ~ended' /\ \A i \in DOMAIN pending' : pending'[i].item # "Done"
      BY <1>w, <1>r, <2>1
    <3> QED BY <3>1, <3>2 DEF Mssql!EndsOnce
  <2> QED BY <2>4, <2>5, <2>6, <2>7, <2>8 DEF Mssql!IInv
<1>3. CASE rs.state = "inferring" /\ current' = Mssql!Building(rs) /\ pending' = Mssql!StartItems(rs)
  <2> DEFINE m == IF rs.gathered = BatchRows THEN 2 ELSE 1
  <2>1. /\ Len(pending') = m /\ DOMAIN pending' = 1..m /\ pending' # <<>>
        /\ pending'[1].item = "ResultSetStart"
        /\ rs.gathered = BatchRows => pending'[2].item = "Rows" /\ pending'[2].n = BatchRows
        /\ pending' \in Seq(Mssql!Item)
    <3>1. Mssql!RowsItem(BatchRows) \in Mssql!Item /\ Mssql!StartItem \in Mssql!Item
      BY Items, Constants
    <3>2. Mssql!StartItem.item = "ResultSetStart" /\ Mssql!RowsItem(BatchRows).item = "Rows"
          /\ Mssql!RowsItem(BatchRows).n = BatchRows
      BY DEF Mssql!StartItem, Mssql!RowsItem
    <3>3. CASE rs.gathered = BatchRows
      BY <1>3, <3>1, <3>2, <3>3 DEF Mssql!StartItems
    <3>4. CASE rs.gathered # BatchRows
      BY <1>3, <3>1, <3>2, <3>4 DEF Mssql!StartItems
    <3> QED BY <3>3, <3>4
  <2>2. /\ current'.state = "building" /\ current'.rows = rs.rows /\ current' \in ResultSet
        /\ current'.gathered = (IF rs.gathered = BatchRows THEN 0 ELSE rs.gathered)
    <3>1. Mssql!Building(rs)
            = [rs EXCEPT !.state = "building",
                         !.gathered = IF rs.gathered = BatchRows THEN 0 ELSE rs.gathered]
      BY DEF Mssql!Building
    <3>2. CASE rs.gathered = BatchRows
      <4>1. current' = [rs EXCEPT !.state = "building", !.gathered = 0]
        BY <1>3, <3>1, <3>2
      <4>2. 0 \in 0..BatchRows
        BY Constants
      <4> QED BY <1>s, <3>2, <4>1, <4>2 DEF ResultSet
    <3>3. CASE rs.gathered # BatchRows
      BY <1>3, <1>s, <3>1, <3>3, Constants DEF ResultSet
    <3> QED BY <3>2, <3>3
  <2>3. ~open /\ rs.gathered = rs.rows /\ sets + 1 <= started /\ Mssql!Unstarted' = 0
    BY <1>3, <1>r, <1>s, <2>2 DEF Mssql!Unstarted
  <2>4. Mssql!TypeOK'
    BY <1>w, <1>t, <2>1, <2>2 DEF Mssql!TypeOK, Mssql!S!StreamTypeOK, ResultSet
  <2>5. /\ ~Mssql!OpenAt(open', pending', 1) /\ Mssql!OpenAt(open', pending', 2)
        /\ Mssql!SentAt(sent', pending', 2) = 0
        /\ m = 2 => /\ Mssql!OpenAt(open', pending', 3)
                    /\ Mssql!SentAt(sent', pending', 3) = BatchRows
    BY <1>w, <2>1, <2>3, Constants DEF Mssql!OpenAt, Mssql!SentAt, Mssql!SentBefore
  <2>6. Mssql!PendingInOrder'
    <3>1. sets' + 1 + 0 <= started'
      BY <1>w, <1>r, <2>3
    <3>2. Mssql!AllowedAt(1)'
      BY <2>1, <2>3, <2>5, <3>1 DEF Mssql!AllowedAt
    <3>3. ASSUME rs.gathered = BatchRows PROVE Mssql!AllowedAt(2)'
      <4>1. 0 + BatchRows <= MssqlRows /\ 2 - 1 = 1
        BY <1>s, <2>3, <3>3, Constants
      <4> QED BY <2>1, <2>5, <3>3, <4>1 DEF Mssql!AllowedAt
    <3> QED BY <2>1, <3>2, <3>3 DEF Mssql!PendingInOrder
  <2>7. Mssql!CurrentFollows'
    <3>1. CASE rs.gathered = BatchRows
      <4>1. Len(pending') + 1 = 3 /\ m = 2
        BY <2>1, <3>1
      <4> QED BY <1>s, <2>2, <2>3, <2>5, <3>1, <4>1, Constants DEF Mssql!CurrentFollows
    <3>2. CASE rs.gathered # BatchRows
      <4>1. Len(pending') + 1 = 2
        BY <2>1, <3>2
      <4>2. current'.gathered < BatchRows /\ 0 + current'.gathered = current'.rows
        BY <1>s, <2>2, <2>3, <3>2, Constants
      <4> QED BY <2>2, <2>5, <4>1, <4>2 DEF Mssql!CurrentFollows
    <3> QED BY <3>1, <3>2
  <2>8. Mssql!StartsCounted'
    <3>1. sets' + Mssql!Unstarted' <= started'
      BY <1>w, <1>r, <2>3
    <3> QED BY <2>1, <3>1 DEF Mssql!StartsCounted
  <2>9. Mssql!ErrorsTold' /\ Mssql!EndsOnce'
    <3>1. Mssql!ErrorsTold'
      BY <1>w, <1>r DEF Mssql!ErrorsTold, Mssql!ToldBefore
    <3>2. ~finished' /\ ~ended' /\ \A i \in DOMAIN pending' : pending'[i].item # "Done"
      BY <1>w, <1>r, <2>1
    <3> QED BY <3>1, <3>2 DEF Mssql!EndsOnce
  <2> QED BY <2>4, <2>6, <2>7, <2>8, <2>9 DEF Mssql!IInv
<1> QED BY <1>d, <1>1, <1>2, <1>3

LEMMA MssqlInitInv == Mssql!Init => Mssql!IInv
<1> SUFFICES ASSUME Mssql!Init PROVE Mssql!IInv
  OBVIOUS
<1> USE Constants
<1>1. /\ current.state = "none" /\ current.gathered = 0 /\ current.rows = 0 /\ current \in ResultSet
      /\ ~error /\ ~finished /\ broken \in BOOLEAN /\ started = 0 /\ notes = 0 /\ deadline \in BOOLEAN
      /\ ~open /\ ~told /\ ~ended /\ ~signal /\ sent = 0 /\ sets = 0
      /\ open \in BOOLEAN /\ told \in BOOLEAN /\ ended \in BOOLEAN /\ signal \in BOOLEAN
      /\ error \in BOOLEAN /\ finished \in BOOLEAN
  <2>1. current = [state |-> "none", gathered |-> 0, rows |-> 0]
    BY DEF Mssql!Init, Mssql!NoSet
  <2>2. current \in ResultSet
    BY <2>1 DEF ResultSet
  <2>3. /\ ~error /\ ~finished /\ broken \in BOOLEAN /\ started = 0 /\ notes = 0 /\ deadline \in BOOLEAN
        /\ ~open /\ ~told /\ ~ended /\ ~signal /\ sent = 0 /\ sets = 0
        /\ open \in BOOLEAN /\ told \in BOOLEAN /\ ended \in BOOLEAN /\ signal \in BOOLEAN
        /\ error \in BOOLEAN /\ finished \in BOOLEAN
    BY DEF Mssql!Init, Mssql!S!Fresh
  <2> QED BY <2>1, <2>2, <2>3
<1> DEFINE it == Mssql!Message(TRUE)
<1>2. it \in Mssql!Item /\ it.item = "Message"
  <2>1. it \in Mssql!Item
    BY Items
  <2> QED BY <2>1 DEF Mssql!Message
<1>3. pending = <<>> \/ pending = <<it>>
  BY DEF Mssql!Init
<1> HIDE DEF it
<1>4. pending \in Seq(Mssql!Item)
  <2>1. <<>> \in Seq(Mssql!Item) /\ <<it>> \in Seq(Mssql!Item)
    BY <1>2
  <2> QED BY <1>3, <2>1
<1>5. /\ Len(pending) \in {0, 1} /\ DOMAIN pending = 1..Len(pending)
      /\ \A i \in DOMAIN pending : i = 1 /\ pending[i].item = "Message"
  BY <1>2, <1>3
<1>6. Mssql!TypeOK
  BY <1>1, <1>4 DEF Mssql!TypeOK, Mssql!S!StreamTypeOK, ResultSet
<1>7. Mssql!PendingInOrder
  BY <1>5 DEF Mssql!PendingInOrder, Mssql!AllowedAt
<1>8. Mssql!StartsCounted
  BY <1>1, <1>5 DEF Mssql!StartsCounted, Mssql!Unstarted
<1>9. Mssql!CurrentFollows
  <2>1. ~Mssql!OpenAt(open, pending, Len(pending) + 1)
    BY <1>1, <1>5 DEF Mssql!OpenAt
  <2> QED BY <1>1, <2>1 DEF Mssql!CurrentFollows
<1>10. Mssql!ErrorsTold /\ Mssql!EndsOnce
  BY <1>1, <1>5 DEF Mssql!ErrorsTold, Mssql!EndsOnce
<1> QED BY <1>6, <1>7, <1>8, <1>9, <1>10 DEF Mssql!IInv

LEMMA MssqlStepInv == Mssql!IInv /\ [Mssql!Next]_mssql => Mssql!IInv'
<1> SUFFICES ASSUME Mssql!IInv, [Mssql!Next]_mssql PROVE Mssql!IInv'
  OBVIOUS
<1>t. Mssql!TypeOK
  BY DEF Mssql!IInv
<1>1. CASE Mssql!Deliver
  BY <1>1, DeliverInv
<1>2. CASE Mssql!Trigger
  BY <1>2 DEF Mssql!Trigger, Mssql!S!Cancel, Mssql!runVars, Mssql!IInv, Mssql!TypeOK, Mssql!S!StreamTypeOK,
     Mssql!PendingInOrder, Mssql!AllowedAt, Mssql!StartsCounted, Mssql!Unstarted, Mssql!CurrentFollows,
     Mssql!ErrorsTold, Mssql!EndsOnce
<1>3. CASE Mssql!AbortCancelled
  <2> DEFINE d == Mssql!Done(FALSE, TRUE)
             after == <<d>>
  <2>1. d \in Mssql!Item /\ d.item = "Done" /\ ~d.error
    BY Items DEF Mssql!Done
  <2>2. Mssql!Waits /\ signal /\ broken' \in BOOLEAN /\ Mssql!Finishes(after)
    BY <1>3, <1>t DEF Mssql!AbortCancelled, Mssql!TypeOK
  <2> HIDE DEF d
  <2>3. after \in Seq(Mssql!Item) /\ Len(after) = 1 /\ after[1] = d
    BY <2>1
  <2> HIDE DEF after
  <2>4. /\ 1 \in {1, 2} /\ after[1].item = "Done" /\ (after[1].error => told \/ 1 = 2)
        /\ after[1].cancelled => signal /\ ~after[1].error
        /\ 1 = 2 => after[1] = Mssql!Message(TRUE)
    BY <2>1, <2>2, <2>3
  <2> QED BY <2>2, <2>3, <2>4, Finishing
<1>4. CASE Mssql!AbortTimeout \/ Mssql!TransportFailure
  <2> DEFINE m == Mssql!Message(TRUE)
             d == Mssql!Done(TRUE, FALSE)
             after == <<m, d>>
  <2>1. m \in Mssql!Item /\ d \in Mssql!Item /\ d.item = "Done" /\ ~d.cancelled
    BY Items DEF Mssql!Done
  <2>2. Mssql!Waits /\ broken' \in BOOLEAN /\ Mssql!Finishes(after)
    BY <1>4, <1>t DEF Mssql!AbortTimeout, Mssql!TransportFailure, Mssql!Reads, Mssql!TypeOK
  <2>m. m = Mssql!Message(TRUE)
    OBVIOUS
  <2> HIDE DEF d, m
  <2>3. after \in Seq(Mssql!Item) /\ Len(after) = 2 /\ after[2] = d /\ after[1] = m
    BY <2>1
  <2> HIDE DEF after
  <2> QED BY <2>1, <2>2, <2>3, <2>m, Finishing
<1>5. CASE Mssql!Complete
  <2> DEFINE d == Mssql!Done(error, FALSE)
             after == <<d>>
  <2>1. d \in Mssql!Item /\ d.item = "Done" /\ ~d.cancelled /\ d.error = error
    BY <1>t, Items DEF Mssql!Done, Mssql!TypeOK
  <2>2. Mssql!Waits /\ broken' \in BOOLEAN /\ Mssql!Finishes(after)
    BY <1>5, <1>t DEF Mssql!Complete, Mssql!Reads, Mssql!TypeOK
  <2> HIDE DEF d
  <2>3. after \in Seq(Mssql!Item) /\ Len(after) = 1 /\ after[1] = d
    BY <2>1
  <2>4. error => told
    BY <2>2, Reading
  <2> HIDE DEF after
  <2>5. /\ 1 \in {1, 2} /\ after[1].item = "Done" /\ (after[1].error => told \/ 1 = 2)
        /\ after[1].cancelled => signal /\ ~after[1].error
        /\ 1 = 2 => after[1] = Mssql!Message(TRUE)
    BY <2>1, <2>2, <2>3, <2>4
  <2> QED BY <2>2, <2>3, <2>5, Finishing
<1>6. CASE Mssql!Token
  BY <1>6, NewResultsetInv, RowInv, DoneTokenInv, InfoTokenInv, ErrorTokenInv DEF Mssql!Token
<1>7. CASE UNCHANGED mssql
  BY <1>7 DEF mssql, Mssql!IInv, Mssql!TypeOK, Mssql!S!StreamTypeOK,
     Mssql!PendingInOrder, Mssql!AllowedAt, Mssql!StartsCounted, Mssql!Unstarted, Mssql!CurrentFollows,
     Mssql!ErrorsTold, Mssql!EndsOnce
<1> QED BY <1>1, <1>2, <1>3, <1>4, <1>5, <1>6, <1>7 DEF Mssql!Next

\* MCStreams runs one of its three parts; the others stand still.
LEMMA MssqlInductive == Spec => []Mssql!IInv
<1>1. Init => Mssql!IInv
  BY MssqlInitInv DEF Init
<1>2. Mssql!IInv /\ [Next]_allVars => Mssql!IInv'
  <2> SUFFICES ASSUME Mssql!IInv, [Next]_allVars PROVE Mssql!IInv'
    OBVIOUS
  <2>1. [Mssql!Next]_mssql
    BY DEF Next, MssqlSteps, ScriptSteps, ExportSteps, LoopSteps, allVars
  <2> QED BY <2>1, MssqlStepInv
<1> QED BY <1>1, <1>2, PTL DEF Spec

\* Between the wire and the items no row of an open set is lost or doubled, and
\* the rows held back for the inference of scales are not handed out early.
THEOREM RowsOnce == Spec => []EveryRowOnce
<1>1. Mssql!IInv => EveryRowOnce
  <2> SUFFICES ASSUME Mssql!IInv, pending = <<>> /\ ~finished
               PROVE  CASE current.state = "building"  -> open /\ sent + current.gathered = current.rows
                        [] current.state = "inferring" -> ~open /\ current.gathered = current.rows
                        [] current.state = "none"      -> ~open
    BY DEF EveryRowOnce, Mssql!EveryRowOnce
  <2>1. /\ current.state \in {"none", "inferring", "building"}
        /\ current.state = "none" => ~open
        /\ current.state = "building" => open /\ sent + current.gathered = current.rows
        /\ current.state = "inferring" => ~open /\ current.gathered = current.rows
    BY Reading DEF Mssql!Waits, ResultSet
  <2> QED BY <2>1
<1> QED BY <1>1, MssqlInductive, PTL

-----------------------------------------------------------------------------
(* MssqlStream implements ItemStream.                                      *)

\* An item that the invariant allows is one that ItemStream may take now.
LEMMA DeliverAllowed ==
  ASSUME Mssql!IInv, Mssql!Deliver
  PROVE  Mssql!Allowed(Head(pending)) /\ Mssql!S!StreamNext
<1> DEFINE it == Head(pending)
<1>1. /\ pending # <<>> /\ it = pending[1] /\ it \in Mssql!Item /\ 1 \in DOMAIN pending
  BY DEF Mssql!Deliver, Mssql!IInv, Mssql!TypeOK
<1>2. Mssql!AllowedAt(1)
  BY <1>1 DEF Mssql!IInv, Mssql!PendingInOrder
<1>3. ~ended
  BY <1>1 DEF Mssql!IInv, Mssql!EndsOnce
<1>4. /\ open \in BOOLEAN /\ told \in BOOLEAN /\ sent \in 0..MssqlRows /\ sets \in 0..MaxSets
      /\ started \in 0..MaxSets /\ ended \in BOOLEAN
  BY DEF Mssql!IInv, Mssql!TypeOK, Mssql!S!StreamTypeOK
<1>5. /\ open' = (it.item = "ResultSetStart" \/ (open /\ ~(it.item = "ResultSetEnd")))
      /\ sets' = (IF it.item = "ResultSetStart" THEN sets + 1 ELSE sets)
      /\ sent' = (IF it.item = "ResultSetStart" THEN 0
                  ELSE IF it.item = "Rows" THEN sent + it.n ELSE sent)
      /\ told' = (told \/ it = Mssql!Message(TRUE))
      /\ ended' = (ended \/ it.item = "Done")
      /\ UNCHANGED signal
  BY DEF Mssql!Deliver
<1>6. /\ it.item \in {"ResultSetStart", "RowsAffected", "Rows", "ResultSetEnd", "Message", "Done"}
      /\ it.item = "Rows" => it.n \in 1..BatchRows
      /\ it.item = "ResultSetEnd" => it.n \in 0..MssqlRows
      /\ it.item = "Message" => it.isError \in BOOLEAN
      /\ it.item = "Done" => it.error \in BOOLEAN /\ it.cancelled \in BOOLEAN
  BY <1>1, ItemKinds
<1>7. /\ it.item = "ResultSetStart" => ~open /\ sets + 1 + Mssql!Unstarted <= started
      /\ it.item = "Rows" => open /\ sent + it.n <= MssqlRows
      /\ it.item = "ResultSetEnd" => open /\ it.n = sent
      /\ it.item = "RowsAffected" => ~open
      /\ it.item = "Done" => ~open /\ (it.error => told) /\ (it.cancelled => signal /\ ~it.error)
  BY <1>1, <1>2 DEF Mssql!AllowedAt, Mssql!OpenAt, Mssql!SentAt, Mssql!ToldBefore
<1>8. it.item = "Message" => (it = Mssql!Message(TRUE) <=> it.isError)
  <2>1. it.item = "Message" => it = Mssql!Message(TRUE) \/ it = Mssql!Message(FALSE)
    BY <1>1 DEF Mssql!Item, Mssql!StartItem, Mssql!Affected, Mssql!RowsItem, Mssql!EndItem,
                Mssql!Message, Mssql!Done
  <2> QED BY <2>1 DEF Mssql!Message
<1>9. it.item # "Message" => it # Mssql!Message(TRUE)
  BY DEF Mssql!Message
<1> HIDE DEF it
<1>10. CASE it.item = "ResultSetStart"
  <2>1. sets < MaxSets
    <3>1. Mssql!Unstarted = 0 \/ Mssql!Unstarted = 1
      BY DEF Mssql!Unstarted
    <3> QED BY <1>4, <1>7, <1>10, <3>1, Constants
  <2>2. Mssql!S!ResultSetStart
    BY <1>3, <1>4, <1>5, <1>7, <1>9, <1>10, <2>1 DEF Mssql!S!ResultSetStart
  <2> QED BY <1>10, <2>2 DEF it, Mssql!Allowed, Mssql!S!StreamNext
<1>11. CASE it.item = "Rows"
  <2>1. Mssql!S!Rows(it.n)
    BY <1>3, <1>4, <1>5, <1>7, <1>9, <1>11 DEF Mssql!S!Rows
  <2> QED BY <1>6, <1>11, <2>1 DEF it, Mssql!Allowed, Mssql!S!StreamNext
<1>12. CASE it.item = "ResultSetEnd"
  <2>1. Mssql!S!ResultSetEnd(it.n)
    BY <1>3, <1>4, <1>5, <1>7, <1>9, <1>12 DEF Mssql!S!ResultSetEnd
  <2> QED BY <1>6, <1>12, <2>1 DEF it, Mssql!Allowed, Mssql!S!StreamNext
<1>13. CASE it.item = "RowsAffected"
  <2>1. Mssql!S!RowsAffected
    BY <1>3, <1>4, <1>5, <1>7, <1>9, <1>13 DEF Mssql!S!RowsAffected, Mssql!S!streamVars
  <2> QED BY <1>13, <2>1 DEF it, Mssql!Allowed, Mssql!S!StreamNext
<1>14. CASE it.item = "Message"
  <2>1. Mssql!S!Message(it.isError)
    BY <1>3, <1>4, <1>5, <1>6, <1>8, <1>14 DEF Mssql!S!Message
  <2> QED BY <1>6, <1>14, <2>1 DEF it, Mssql!Allowed, Mssql!S!StreamNext
<1>15. CASE it.item = "Done"
  <2>1. Mssql!S!Done(it.error, it.cancelled)
    BY <1>3, <1>4, <1>5, <1>7, <1>9, <1>15 DEF Mssql!S!Done
  <2>2. Mssql!S!DoneAsDocumented(it.error, it.cancelled)
    BY <1>7, <1>15, <2>1 DEF Mssql!S!DoneAsDocumented
  <2> QED BY <1>6, <1>15, <2>1, <2>2 DEF it, Mssql!Allowed, Mssql!S!StreamNext
<1> QED BY <1>6, <1>10, <1>11, <1>12, <1>13, <1>14, <1>15

LEMMA MssqlStepsAsItems ==
  ASSUME Mssql!IInv, [Mssql!Next]_mssql
  PROVE  /\ [Mssql!S!StreamNext]_(Mssql!S!streamVars)
         /\ pending # <<>> /\ pending' # pending => Mssql!Allowed(Head(pending))
<1>1. CASE Mssql!Deliver
  BY <1>1, DeliverAllowed
<1>2. CASE Mssql!Trigger
  BY <1>2 DEF Mssql!Trigger, Mssql!runVars, Mssql!S!StreamNext
<1>3. CASE Mssql!AbortCancelled \/ Mssql!AbortTimeout \/ Mssql!TransportFailure \/ Mssql!Complete
  <2>1. pending = <<>> /\ UNCHANGED <<open, sent, sets, told, ended, signal>>
    BY <1>3 DEF Mssql!AbortCancelled, Mssql!AbortTimeout, Mssql!TransportFailure, Mssql!Complete,
       Mssql!Finishes, Mssql!Reads, Mssql!Waits, Mssql!streamVars
  <2> QED BY <2>1 DEF Mssql!S!streamVars
<1>4. CASE Mssql!Token
  <2>1. pending = <<>> /\ UNCHANGED <<open, sent, sets, told, ended, signal>>
    BY <1>4 DEF Mssql!Token, Mssql!NewResultset, Mssql!Row, Mssql!DoneToken, Mssql!InfoToken, Mssql!ErrorToken,
       Mssql!Reads, Mssql!Waits, Mssql!tokenFrame, Mssql!streamVars
  <2> QED BY <2>1 DEF Mssql!S!streamVars
<1>5. CASE UNCHANGED mssql
  BY <1>5 DEF mssql, Mssql!S!streamVars
<1> QED BY <1>1, <1>2, <1>3, <1>4, <1>5 DEF Mssql!Next

\* The SQL Server stream hands out what ItemStream describes, in its order, with
\* the right counts, every set ended before Done, `cancelled` only for a cancel, and
\* then without an error.
THEOREM MssqlImplementsItemStream == Spec => Mssql!ItemsInOrder
<1>1. Init => Mssql!S!Fresh
  BY DEF Init, Mssql!Init
<1>2. Mssql!IInv /\ [Next]_allVars
        => /\ [Mssql!S!StreamNext]_(Mssql!S!streamVars)
           /\ [pending # <<>> /\ pending' # pending => Mssql!Allowed(Head(pending))]_(Mssql!vars)
  <2> SUFFICES ASSUME Mssql!IInv, [Next]_allVars
               PROVE  /\ [Mssql!S!StreamNext]_(Mssql!S!streamVars)
                      /\ [pending # <<>> /\ pending' # pending => Mssql!Allowed(Head(pending))]_(Mssql!vars)
    OBVIOUS
  <2>1. [Mssql!Next]_mssql
    BY DEF Next, MssqlSteps, ScriptSteps, ExportSteps, LoopSteps, allVars
  <2> QED BY <2>1, MssqlStepsAsItems
<1> QED BY <1>1, <1>2, MssqlInductive, PTL DEF Spec, Mssql!ItemsInOrder, Mssql!S!StreamSpec
=============================================================================
