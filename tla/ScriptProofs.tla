---------------------------- MODULE ScriptProofs ----------------------------
(***************************************************************************)
(* Theorems about the SQLite, PostgreSQL and DuckDB streams, and with      *)
(* StreamProofs and ExportProofs those about all of MCStreams, for every   *)
(* value of their constants.                                               *)
(***************************************************************************)
EXTENDS StreamProofs, ExportProofs, RunLoopProofs, FiniteSetTheorems, FunctionTheorems

-----------------------------------------------------------------------------
(* Statements still to come                                                *)

LEMMA CountIs ==
  ASSUME NEW s, NEW kind
  PROVE  Script!Count(s, kind) = Cardinality({i \in DOMAIN s : s[i] = kind})
BY DEF Script!Count, Script!Cardinality, Cardinality

LEMMA CountType ==
  ASSUME NEW S, NEW s \in Seq(S), NEW kind
  PROVE  /\ IsFiniteSet({i \in DOMAIN s : s[i] = kind})
         /\ Script!Count(s, kind) \in Nat
<1>1. DOMAIN s = 1..Len(s) /\ Len(s) \in Nat
  OBVIOUS
<1>2. IsFiniteSet(1..Len(s))
  BY <1>1, FS_Interval
<1>3. IsFiniteSet({i \in DOMAIN s : s[i] = kind})
  BY <1>1, <1>2, FS_Subset
<1> QED BY <1>3, FS_CardinalityType, CountIs

LEMMA CountEmpty == ASSUME NEW kind PROVE Script!Count(<<>>, kind) = 0
<1>1. {i \in DOMAIN <<>> : <<>>[i] = kind} = {}
  OBVIOUS
<1> QED BY <1>1, FS_EmptySet, CountIs

\* A statement that is through is counted no more.
LEMMA CountTail ==
  ASSUME NEW S, NEW s \in Seq(S), s # <<>>, NEW kind
  PROVE  Script!Count(s, kind) = Script!Count(Tail(s), kind) + (IF Head(s) = kind THEN 1 ELSE 0)
<1> DEFINE A == {i \in DOMAIN s : s[i] = kind}
           B == {i \in DOMAIN Tail(s) : Tail(s)[i] = kind}
           f == [i \in B |-> i + 1]
<1>1. /\ Tail(s) \in Seq(S) /\ Len(Tail(s)) = Len(s) - 1 /\ Head(s) = s[1]
      /\ \A i \in 1..Len(Tail(s)) : Tail(s)[i] = s[i + 1]
      /\ Len(s) \in Nat \ {0} /\ DOMAIN s = 1..Len(s) /\ DOMAIN Tail(s) = 1..(Len(s) - 1)
  BY HeadTailProperties
<1>2. IsFiniteSet(A) /\ IsFiniteSet(B)
  BY <1>1, CountType
<1>3. f \in Bijection(B, A \ {1})
  <2>1. \A i \in B : i \in Nat /\ i + 1 \in A \ {1}
    BY <1>1
  <2>2. \A j \in A \ {1} : j - 1 \in B /\ f[j - 1] = j
    BY <1>1
  <2>3. f \in [B -> A \ {1}]
    BY <2>1
  <2>4. \A i, j \in B : f[i] = f[j] => i = j
    BY <2>1
  <2>5. \A j \in A \ {1} : \E i \in B : f[i] = j
    BY <2>2
  <2> HIDE DEF f, A, B
  <2> QED BY <2>3, <2>4, <2>5, Fun_IsBij
<1>4. Cardinality(A \ {1}) = Cardinality(B)
  BY <1>2, <1>3, FS_Bijection DEF ExistsBijection
<1>5. Cardinality(A \ {1}) = IF 1 \in A THEN Cardinality(A) - 1 ELSE Cardinality(A)
  BY <1>2, FS_RemoveElement
<1>6. 1 \in A <=> Head(s) = kind
  BY <1>1
<1>7. Cardinality(A) \in Nat /\ Cardinality(B) \in Nat
  BY <1>2, FS_CardinalityType
<1>8. Script!Count(s, kind) = Cardinality(A) /\ Script!Count(Tail(s), kind) = Cardinality(B)
  BY CountIs
<1> HIDE DEF A, B
<1> QED BY <1>4, <1>5, <1>6, <1>7, <1>8

-----------------------------------------------------------------------------
(* ScriptStream: what is left of a transaction                             *)

LEMMA NameScripts == Script!Statements = {"begin", "change", "select", "commit"}
BY DEF Script!Statements

\* The first statement of a transaction opens it; inside, COMMIT is the last one.
LEMMA WholeThenInside ==
  ASSUME NEW s \in Seq(Script!Statements), Script!Whole(s)
  PROVE  s # <<>> /\ Head(s) = "begin" /\ Script!Inside(Tail(s))
<1>1. Len(s) \in Nat /\ Len(s) >= 2 /\ s # <<>> /\ Head(s) = s[1]
  BY DEF Script!Whole
<1>2. \A i \in 1..Len(Tail(s)) : Tail(s)[i] = s[i + 1]
  BY <1>1, HeadTailProperties
<1>l. Tail(s) \in Seq(Script!Statements) /\ Len(Tail(s)) = Len(s) - 1
  BY <1>1, HeadTailProperties
<1>3. Tail(s) # <<>>
  <2>1. Len(Tail(s)) # 0
    BY <1>1, <1>l
  <2> QED BY <2>1, EmptySeq
<1>4. Tail(s)[Len(Tail(s))] = s[Len(s)]
  <2> DEFINE n == Len(s)
             m == Len(Tail(s))
  <2>1. n \in Nat /\ n >= 2 /\ m = n - 1
    BY <1>1, <1>l
  <2> HIDE DEF n, m
  <2>2. m \in 1..m /\ m + 1 = n
    BY <2>1
  <2> QED BY <1>2, <2>2 DEF n, m
<1>5. \A i \in 1..Len(Tail(s)) - 1 : i + 1 \in 2..Len(s) - 1 /\ Tail(s)[i] = s[i + 1]
  BY <1>1, <1>2, <1>l
<1> QED BY <1>1, <1>3, <1>4, <1>5 DEF Script!Whole, Script!Inside

LEMMA InsideGoesOn ==
  ASSUME NEW s \in Seq(Script!Statements), Script!Inside(s)
  PROVE  /\ s # <<>> /\ Head(s) # "begin"
         /\ IF Head(s) = "commit" THEN Tail(s) = <<>> ELSE Script!Inside(Tail(s))
<1>1. Len(s) \in Nat /\ Len(s) >= 1 /\ s # <<>> /\ Head(s) = s[1]
  BY DEF Script!Inside
<1>2. /\ Tail(s) \in Seq(Script!Statements) /\ Len(Tail(s)) = Len(s) - 1
      /\ \A i \in 1..Len(Tail(s)) : Tail(s)[i] = s[i + 1]
  BY <1>1, HeadTailProperties
<1>3. CASE Len(s) = 1
  <2>1. Head(s) = "commit"
    BY <1>1, <1>3 DEF Script!Inside
  <2>2. Len(Tail(s)) = 0
    BY <1>2, <1>3
  <2>3. Tail(s) = <<>>
    BY <1>2, <2>2, EmptySeq
  <2> QED BY <1>1, <2>1, <2>3
<1>4. CASE Len(s) > 1
  <2>1. Head(s) \notin {"begin", "commit"}
    <3>1. 1 \in 1..Len(s) - 1
      BY <1>1, <1>4
    <3> QED BY <1>1, <3>1 DEF Script!Inside
  <2>2. Tail(s) # <<>>
    <3>1. Len(Tail(s)) # 0
      BY <1>1, <1>2, <1>4
    <3>2. ASSUME Tail(s) = <<>> PROVE Len(Tail(s)) = 0
      <4>1. Len(<<>>) = 0
        OBVIOUS
      <4> QED BY <3>2, <4>1
    <3> QED BY <3>1, <3>2
  <2>3. Tail(s)[Len(Tail(s))] = s[Len(s)]
    BY <1>1, <1>2, <1>4
  <2>4. \A i \in 1..Len(Tail(s)) - 1 : i + 1 \in 1..Len(s) - 1 /\ Tail(s)[i] = s[i + 1]
    BY <1>1, <1>2
  <2> QED BY <1>1, <2>1, <2>2, <2>3, <2>4 DEF Script!Inside
<1>5. Len(s) = 1 \/ Len(s) > 1
  <2> DEFINE n == Len(s)
  <2>1. n \in Nat /\ n >= 1
    BY <1>1
  <2> HIDE DEF n
  <2>2. n = 1 \/ n > 1
    BY <2>1
  <2> QED BY <2>2 DEF n
<1> QED BY <1>3, <1>4, <1>5

\* A step that leaves the database and the statements to come as they are.
LEMMA DatabaseKept ==
  ASSUME Script!EndInv,
         UNCHANGED <<engine, oneTx, clean, changes, stray, script, err, lost, tx, undecided, made>>,
         at' \in {"next", "run", "rows", "chunk", "last", "finish", "rollback", "over"},
         hit' \in BOOLEAN, token' \in BOOLEAN, missed' \in BOOLEAN, inexact' \in BOOLEAN,
         sSignal' \in BOOLEAN, sSignal => sSignal',
         Script!EndsForCause', Script!HitForCause',
         at' = "over" => \/ at = "over" /\ (engine = "postgres" /\ hit => hit')
                         \/ tx = "none" \/ ~err \/ lost \/ engine = "duckdb" \/ ~clean
                         \/ (engine = "postgres" /\ hit')
  PROVE  Script!EndInv'
<1> USE DEF Script!EndInv
<1>1. Script!BatchTypeOK'
  BY DEF Script!BatchTypeOK
<1>2. Script!ChangesCounted'
  BY DEF Script!ChangesCounted
<1>3. Script!WholeOrNothing'
  BY DEF Script!WholeOrNothing
<1>4. Script!RolledBack'
  BY DEF Script!RolledBack, Script!BatchTypeOK
<1> QED BY <1>1, <1>2, <1>3, <1>4

LEMMA EndInit == Script!Init => Script!EndInv
<1> SUFFICES ASSUME Script!Init PROVE Script!EndInv
  OBVIOUS
<1>1. script \in Seq(Script!Statements)
  BY StreamConstants, NameScripts DEF Script!Init
<1>2. changes = Script!Count(script, "change") /\ changes \in Nat
  BY <1>1, CountType DEF Script!Init
<1>3. oneTx = Script!Whole(script) /\ oneTx \in BOOLEAN
  BY DEF Script!Init, Script!Whole
<1> USE DEF Script!Init
<1>4. Script!BatchTypeOK
  <2>1. undecided \in 0..changes /\ made \in 0..changes /\ undecided = 0
    BY <1>2
  <2>2. token \in BOOLEAN /\ stray \in BOOLEAN /\ clean \in BOOLEAN /\ sSignal \in BOOLEAN
    BY DEF Script!S!Fresh
  <2> QED BY <1>1, <1>2, <1>3, <2>1, <2>2 DEF Script!BatchTypeOK
<1>5. Script!ChangesCounted
  BY <1>2 DEF Script!ChangesCounted
<1>6. Script!EndsForCause /\ Script!HitForCause /\ Script!RolledBack
  BY DEF Script!EndsForCause, Script!HitForCause, Script!RolledBack, Script!Going
<1>7. Script!WholeOrNothing
  <2> SUFFICES ASSUME oneTx, clean
               PROVE  script # <<>> /\ made = 0 /\ tx = "none" /\ Script!Whole(script)
                      /\ made + undecided + Script!Count(script, "change") = changes
    BY DEF Script!WholeOrNothing
  <2>1. script # <<>>
    BY <1>1, <1>3, WholeThenInside
  <2>2. Script!Whole(script)
    BY <1>3
  <2>3. tx = "none"
    OBVIOUS
  <2>4. made + undecided + Script!Count(script, "change") = changes
    BY <1>2
  <2> QED BY <2>1, <2>2, <2>3, <2>4
<1> QED BY <1>4, <1>5, <1>6, <1>7 DEF Script!EndInv

\* A statement that completes moves its change from what is to come to what is made.
LEMMA CountsOn ==
  ASSUME Script!BatchTypeOK, script # <<>>, script' = Tail(script),
         undecided' \in Nat, made' \in Nat,
         made' + undecided' = made + undecided + (IF Head(script) = "change" THEN 1 ELSE 0)
  PROVE  /\ script' \in Seq(Script!Statements)
         /\ Script!Count(script', "change") \in Nat
         /\ made' + undecided' + Script!Count(script', "change")
              = made + undecided + Script!Count(script, "change")
<1> DEFINE n == Script!Count(script, "change")
           m == Script!Count(script', "change")
           d == IF Head(script) = "change" THEN 1 ELSE 0
<1>1. script' \in Seq(Script!Statements) /\ m \in Nat /\ n = m + d
  <2>1. script \in Seq(Script!Statements)
    BY DEF Script!BatchTypeOK
  <2>2. script' \in Seq(Script!Statements)
    BY <2>1, HeadTailProperties
  <2> QED BY <2>1, <2>2, CountType, CountTail
<1>2. d \in Nat /\ made' + undecided' = made + undecided + d
  OBVIOUS
<1> HIDE DEF n, m, d
<1>3. PICK x \in Nat, y \in Nat, a \in Nat, b \in Nat :
           x = made' /\ y = undecided' /\ a = made /\ b = undecided
  BY DEF Script!BatchTypeOK
<1>4. x + y = a + b + d
  BY <1>2, <1>3
<1>5. d \in Nat /\ m \in Nat
  BY <1>1, <1>2
<1>6. x + y + m = a + b + (m + d)
  BY <1>4, <1>5
<1>7. x + y + m = a + b + n
  BY <1>1, <1>6
<1> QED BY <1>1, <1>3, <1>7 DEF n, m

\* What a completed statement leaves to come.
LEMMA StatementDone ==
  ASSUME Script!EndInv, script # <<>>, script' = Tail(script), at' = "next", ~err,
         UNCHANGED <<engine, oneTx, clean, changes, stray, err, lost, token, sSignal>>,
         hit' \in BOOLEAN, hit' => hit, missed' \in BOOLEAN, inexact' \in BOOLEAN,
         tx' \in {"none", "open"} \/ tx' = tx, undecided' \in Nat, made' \in Nat,
         tx' # "open" => undecided' = 0,
         made' + undecided' = made + undecided + (IF Head(script) = "change" THEN 1 ELSE 0),
         oneTx /\ clean => /\ script' # <<>> => made' = 0 /\ tx' = "open" /\ Script!Inside(script')
                           /\ script' = <<>> => tx' = "none"
  PROVE  Script!EndInv'
<1> USE DEF Script!EndInv
<1> DEFINE m == Script!Count(script', "change")
<1>1. /\ script' \in Seq(Script!Statements) /\ m \in Nat
      /\ made' + undecided' + m = made + undecided + Script!Count(script, "change")
  BY CountsOn
<1>2. changes \in Nat /\ made + undecided + Script!Count(script, "change") <= changes
  BY DEF Script!BatchTypeOK, Script!ChangesCounted
<1>3. made' + undecided' + m <= changes
  <2> HIDE DEF m
  <2> QED BY <1>1, <1>2
<1>4. undecided' \in 0..changes /\ made' \in 0..changes
  <2> HIDE DEF m
  <2>1. PICK x \in Nat, y \in Nat : x = made' /\ y = undecided'
    OBVIOUS
  <2>2. x + y + m <= changes /\ m \in Nat /\ changes \in Nat
    BY <1>1, <1>2, <1>3, <2>1
  <2>3. x \in 0..changes /\ y \in 0..changes
    BY <2>2
  <2> QED BY <2>1, <2>3
<1>5. Script!BatchTypeOK'
  BY <1>1, <1>4 DEF Script!BatchTypeOK
<1>6. Script!ChangesCounted'
  BY <1>3 DEF Script!ChangesCounted
<1>7. Script!EndsForCause' /\ Script!HitForCause' /\ Script!RolledBack'
  BY DEF Script!EndsForCause, Script!HitForCause, Script!RolledBack, Script!Going
<1>8. Script!WholeOrNothing'
  <2> SUFFICES ASSUME oneTx, clean PROVE Script!WholeOrNothing'
    BY DEF Script!WholeOrNothing
  <2>1. made + undecided + Script!Count(script, "change") = changes
    BY DEF Script!WholeOrNothing
  <2>2. (made + undecided + Script!Count(script, "change"))' = changes'
    BY <1>1, <2>1
  <2>3. script' # <<>> => Script!Inside(script)' /\ tx' = "open" /\ made' = 0
    BY DEF Script!Inside
  <2> QED BY <2>2, <2>3 DEF Script!WholeOrNothing
<1> QED BY <1>5, <1>6, <1>7, <1>8

\* A SELECT changes nothing.
LEMMA SelectDone ==
  ASSUME Script!EndInv, script # <<>>, Head(script) = "select", script' = Tail(script), at' = "next", ~err,
         UNCHANGED <<engine, oneTx, clean, changes, stray, err, lost, token, sSignal, tx, undecided, made>>,
         hit' \in BOOLEAN, hit' => hit, missed' \in BOOLEAN, inexact' \in BOOLEAN
  PROVE  Script!EndInv'
<1>1. /\ script \in Seq(Script!Statements) /\ made \in Nat /\ undecided \in Nat
      /\ changes \in Nat /\ (tx # "open" => undecided = 0)
  BY DEF Script!EndInv, Script!BatchTypeOK
<1>2. oneTx /\ clean => made = 0 /\ tx = "open" /\ script' # <<>> /\ Script!Inside(script')
  <2> SUFFICES ASSUME oneTx, clean
               PROVE  made = 0 /\ tx = "open" /\ script' # <<>> /\ Script!Inside(script')
    OBVIOUS
  <2>1. /\ made = 0
        /\ (tx = "none" /\ Script!Whole(script)) \/ (tx = "open" /\ Script!Inside(script))
    BY DEF Script!EndInv, Script!WholeOrNothing
  <2>2. tx = "open" /\ Script!Inside(script)
    BY <1>1, <2>1, WholeThenInside
  <2>3. script' # <<>> /\ Script!Inside(script')
    BY <1>1, <2>2, InsideGoesOn DEF Script!Inside
  <2> QED BY <2>1, <2>2, <2>3
<1>3. made' + undecided' = made + undecided + 0
  BY <1>1
<1> QED BY <1>1, <1>2, <1>3, StatementDone

LEMMA ExecutesEnd == Script!EndInv /\ Script!Executes => Script!EndInv'
<1> SUFFICES ASSUME Script!EndInv, Script!Executes PROVE Script!EndInv'
  OBVIOUS
<1> USE DEF Script!EndInv
<1>1. /\ at = "run" /\ ~err /\ script # <<>> /\ Head(script) # "select"
      /\ script' = Tail(script) /\ at' = "next" /\ hit' = FALSE
      /\ missed' = (missed \/ hit)
      /\ UNCHANGED <<engine, oneTx, clean, changes, stray, err, lost, token, sSignal, inexact>>
      /\ Script!Takes(Head(script))
  BY DEF Script!Executes, Script!Works, Script!Completed, Script!stmtFrame, Script!fixed, Script!streamVars,
         Script!EndsForCause, Script!Going
<1>2. /\ script \in Seq(Script!Statements) /\ made \in Nat /\ undecided \in Nat /\ changes \in Nat
      /\ (tx # "open" => undecided = 0) /\ tx \in {"none", "open", "aborted"}
      /\ missed \in BOOLEAN /\ hit \in BOOLEAN /\ inexact \in BOOLEAN
  BY DEF Script!BatchTypeOK
<1>3. Head(script) \in {"begin", "change", "commit"}
  BY <1>1, <1>2, HeadTailProperties, NameScripts
<1>4. oneTx /\ clean => /\ made = 0
                        /\ (tx = "none" /\ Script!Whole(script)) \/ (tx = "open" /\ Script!Inside(script))
  BY <1>1 DEF Script!WholeOrNothing
<1>5. CASE Head(script) = "begin"
  <2>1. tx' = "open" /\ undecided' = undecided /\ made' = made
    BY <1>1, <1>5 DEF Script!Takes
  <2>2. oneTx /\ clean => made' = 0 /\ script' # <<>> /\ Script!Inside(script')
    <3> SUFFICES ASSUME oneTx, clean PROVE script' # <<>> /\ Script!Inside(script') /\ made = 0
      BY <2>1
    <3>1. Script!Whole(script)
      BY <1>2, <1>4, <1>5, InsideGoesOn
    <3>2. Script!Inside(Tail(script))
      BY <1>2, <3>1, WholeThenInside
    <3> QED BY <1>1, <1>4, <3>2 DEF Script!Inside
  <2>3. made' + undecided' = made + undecided + 0
    BY <1>2, <2>1
  <2> QED BY <1>1, <1>2, <1>5, <2>1, <2>2, <2>3, StatementDone
<1>6. CASE Head(script) = "commit"
  <2>1. tx' = "none" /\ undecided' = 0 /\ made' = made + undecided
    BY <1>1, <1>6 DEF Script!Takes
  <2>2. oneTx /\ clean => script' = <<>>
    BY <1>1, <1>2, <1>4, <1>6, InsideGoesOn, WholeThenInside
  <2>3. made' + undecided' = made + undecided + 0 /\ made' \in Nat
    BY <1>2, <2>1
  <2> QED BY <1>1, <1>2, <1>6, <2>1, <2>2, <2>3, StatementDone
<1>7. CASE Head(script) = "change"
  <2>1. tx' = tx /\ IF tx = "open" THEN undecided' = undecided + 1 /\ made' = made
                    ELSE made' = made + 1 /\ undecided' = undecided
    BY <1>1, <1>7 DEF Script!Takes
  <2>2. oneTx /\ clean => tx' = "open" /\ made' = 0 /\ script' # <<>> /\ Script!Inside(script')
    <3> SUFFICES ASSUME oneTx, clean
                 PROVE  tx' = "open" /\ made' = 0 /\ script' # <<>> /\ Script!Inside(script')
      OBVIOUS
    <3>1. tx = "open" /\ Script!Inside(script) /\ made = 0
      BY <1>2, <1>4, <1>7, WholeThenInside
    <3>2. Script!Inside(Tail(script))
      BY <1>2, <1>7, <3>1, InsideGoesOn
    <3> QED BY <1>1, <2>1, <3>1, <3>2 DEF Script!Inside
  <2>3. /\ made' + undecided' = made + undecided + 1 /\ made' \in Nat /\ undecided' \in Nat
        /\ (tx' # "open" => undecided' = 0)
    BY <1>2, <2>1
  <2> QED BY <1>1, <1>2, <1>7, <2>1, <2>2, <2>3, StatementDone
<1> QED BY <1>3, <1>5, <1>6, <1>7

\* A statement fails: what it leaves of a transaction goes with the changes in it.
LEMMA Failing ==
  ASSUME Script!EndInv, at \in {"run", "rows"}, at' = "finish", err' = TRUE,
         UNCHANGED <<engine, oneTx, clean, changes, stray, script, made, token, sSignal>>,
         lost' \in BOOLEAN, hit' = FALSE, inexact' \in BOOLEAN, missed' = missed,
         tx' \in {"none", "open", "aborted"},
         undecided' = (IF tx' = "open" THEN undecided ELSE 0)
  PROVE  Script!EndInv'
<1> USE DEF Script!EndInv
<1>1. made \in 0..changes /\ undecided \in 0..changes /\ changes \in Nat
      /\ script \in Seq(Script!Statements)
  BY DEF Script!BatchTypeOK
<1>2. undecided' \in 0..changes /\ undecided' <= undecided /\ (tx' # "open" => undecided' = 0)
  BY <1>1
<1>3. Script!BatchTypeOK'
  BY <1>2 DEF Script!BatchTypeOK
<1>4. Script!ChangesCounted'
  <2> DEFINE n == Script!Count(script, "change")
  <2>1. n \in Nat
    BY <1>1, CountType
  <2>2. made + undecided + n <= changes
    BY DEF Script!ChangesCounted
  <2>3. PICK y \in Nat : y = undecided'
    BY <1>1, <1>2
  <2>4. y <= undecided
    BY <1>2, <2>3
  <2> HIDE DEF n
  <2>5. made + y + n <= changes
    BY <1>1, <2>1, <2>2, <2>3, <2>4
  <2> QED BY <2>3, <2>5 DEF Script!ChangesCounted, n
<1>5. Script!EndsForCause' /\ Script!HitForCause' /\ Script!RolledBack'
  BY DEF Script!EndsForCause, Script!HitForCause, Script!RolledBack, Script!Going
<1>6. Script!WholeOrNothing'
  <2> SUFFICES ASSUME oneTx, clean PROVE made = 0
    BY DEF Script!WholeOrNothing
  <2> QED BY DEF Script!WholeOrNothing, Script!EndsForCause
<1> QED BY <1>3, <1>4, <1>5, <1>6

LEMMA LeftOpenType ==
  ASSUME Script!BatchTypeOK PROVE Script!LeftOpen \subseteq {"none", "open", "aborted"}
BY DEF Script!LeftOpen, Script!BatchTypeOK

LEMMA MisfitEnd == Script!EndInv /\ (Script!Misfit \/ Script!Fails) => Script!EndInv'
<1> USE DEF Script!Works, Script!stmtFrame, Script!fixed, Script!streamVars, Script!txVars
<1>1. Script!EndInv => /\ lost \in BOOLEAN /\ tx \in {"none", "open", "aborted"}
                       /\ inexact \in BOOLEAN /\ (tx # "open" => undecided = 0)
  BY DEF Script!EndInv, Script!BatchTypeOK
<1>2. ASSUME Script!EndInv, Script!Misfit PROVE Script!EndInv'
  BY <1>1, <1>2, Failing DEF Script!Misfit
<1>3. ASSUME Script!EndInv, Script!Fails PROVE Script!EndInv'
  <2>1. tx' \in {"none", "open", "aborted"}
    BY <1>3, LeftOpenType DEF Script!Fails, Script!EndInv
  <2>2. lost' \in BOOLEAN
    BY <1>3 DEF Script!Fails
  <2> QED BY <1>1, <1>3, <2>1, <2>2, Failing DEF Script!Fails
<1> QED BY <1>2, <1>3

\* A transaction that is rolled back takes its changes along.
LEMMA RolledBackEnd ==
  ASSUME Script!EndInv, err, ~Script!Going, at' = "over", Script!RollsBack,
         UNCHANGED <<engine, oneTx, clean, changes, stray, script, err, lost, token, sSignal, inexact, missed>>,
         hit' \in BOOLEAN, hit' => hit
  PROVE  Script!EndInv'
<1> USE DEF Script!EndInv, Script!RollsBack
<1>1. /\ made \in 0..changes /\ undecided \in 0..changes /\ changes \in Nat
      /\ script \in Seq(Script!Statements)
  BY DEF Script!BatchTypeOK
<1>2. Script!BatchTypeOK'
  <2>1. undecided' \in 0..changes
    BY <1>1
  <2> QED BY <2>1 DEF Script!BatchTypeOK
<1>3. Script!ChangesCounted'
  <2> DEFINE n == Script!Count(script, "change")
  <2>1. n \in Nat /\ made + undecided + n <= changes
    BY <1>1, CountType DEF Script!ChangesCounted
  <2> HIDE DEF n
  <2>2. made + 0 + n <= changes
    BY <1>1, <2>1
  <2> QED BY <2>2 DEF Script!ChangesCounted, n
<1>4. Script!EndsForCause' /\ Script!HitForCause' /\ Script!RolledBack'
  BY DEF Script!EndsForCause, Script!HitForCause, Script!RolledBack, Script!Going
<1>5. Script!WholeOrNothing'
  BY DEF Script!WholeOrNothing
<1> QED BY <1>2, <1>3, <1>4, <1>5

LEMMA FinishEnd == Script!EndInv /\ Script!Finish => Script!EndInv'
<1> SUFFICES ASSUME Script!EndInv, Script!Finish PROVE Script!EndInv'
  OBVIOUS
<1> USE DEF Script!Works, Script!endFrame, Script!fixed, Script!streamVars, Script!txVars
<1>1. /\ at = "finish" /\ (err \/ sSignal \/ script = <<>>)
      /\ UNCHANGED <<engine, oneTx, clean, changes, stray, script, err, lost, token, sSignal, inexact, hit, missed>>
      /\ hit \in BOOLEAN /\ token \in BOOLEAN /\ missed \in BOOLEAN /\ inexact \in BOOLEAN /\ sSignal \in BOOLEAN
      /\ engine \in {"sqlite", "postgres", "duckdb"} /\ err \in BOOLEAN /\ lost \in BOOLEAN
  BY DEF Script!Finish, Script!EndInv, Script!BatchTypeOK, Script!EndsForCause, Script!Going
<1>2. Script!HitForCause'
  BY <1>1 DEF Script!EndInv, Script!HitForCause
<1>3. CASE engine = "sqlite" /\ err /\ clean /\ tx # "none"
  <2>1. Script!RollsBack /\ at' = "over"
    BY <1>3 DEF Script!Finish, Script!Over
  <2> QED BY <1>1, <1>3, <2>1, RolledBackEnd DEF Script!Going
<1>4. CASE engine = "postgres" /\ err /\ ~lost
  <2>1. at' = "rollback" /\ UNCHANGED <<tx, undecided, made>>
    BY <1>4 DEF Script!Finish
  <2>2. Script!EndsForCause'
    BY <1>1, <1>4, <2>1 DEF Script!EndsForCause, Script!Going
  <2> QED BY <1>1, <1>2, <2>1, <2>2, DatabaseKept
<1>5. CASE ~(engine = "sqlite" /\ err /\ clean /\ tx # "none") /\ ~(engine = "postgres" /\ err /\ ~lost)
  <2>1. at' = "over" /\ UNCHANGED <<tx, undecided, made>>
    BY <1>5 DEF Script!Finish, Script!Over
  <2>2. Script!EndsForCause'
    BY <1>1, <2>1 DEF Script!EndsForCause, Script!Going
  <2>3. tx = "none" \/ ~err \/ lost \/ engine = "duckdb" \/ ~clean
    BY <1>1, <1>5
  <2> QED BY <1>1, <1>2, <2>1, <2>2, <2>3, DatabaseKept
<1> QED BY <1>3, <1>4, <1>5

LEMMA RollbackEnd == Script!EndInv /\ Script!Rollback => Script!EndInv'
<1> SUFFICES ASSUME Script!EndInv, Script!Rollback PROVE Script!EndInv'
  OBVIOUS
<1> USE DEF Script!Works, Script!endFrame, Script!fixed, Script!streamVars, Script!txVars
<1>1. /\ at = "rollback" /\ err /\ engine = "postgres" /\ at' = "over"
      /\ UNCHANGED <<engine, oneTx, clean, changes, stray, script, err, lost, token, sSignal, inexact, missed>>
      /\ hit \in BOOLEAN /\ token \in BOOLEAN /\ missed \in BOOLEAN /\ inexact \in BOOLEAN /\ sSignal \in BOOLEAN
  BY DEF Script!Rollback, Script!EndInv, Script!BatchTypeOK, Script!EndsForCause, Script!Going, Script!Over
<1>2. CASE Script!RollsBack /\ hit' = FALSE
  BY <1>1, <1>2, RolledBackEnd DEF Script!Going
<1>3. CASE hit /\ UNCHANGED <<hit, tx, undecided, made>>
  <2>1. stray \/ sSignal
    BY <1>3 DEF Script!EndInv, Script!HitForCause
  <2>2. Script!EndsForCause' /\ Script!HitForCause'
    BY <1>1, <2>1 DEF Script!EndsForCause, Script!HitForCause, Script!Going
  <2> QED BY <1>1, <1>3, <2>1, <2>2, DatabaseKept
<1> QED BY <1>2, <1>3 DEF Script!Rollback

\* The steps that leave the database alone.
LEMMA QuietEnd ==
  Script!EndInv /\ \/ Script!Push \/ Script!Deliver \/ Script!Cancel \/ Script!TokenArrives
                   \/ Script!Starts \/ Script!EndOfScript \/ Script!Selects
                   \/ Script!Row \/ Script!DuckChunk \/ Script!AfterChunk
    => Script!EndInv'
<1> SUFFICES ASSUME Script!EndInv
             PROVE  \/ Script!Push \/ Script!Deliver \/ Script!Cancel \/ Script!TokenArrives
                    \/ Script!Starts \/ Script!EndOfScript \/ Script!Selects
                    \/ Script!Row \/ Script!DuckChunk \/ Script!AfterChunk
                  => Script!EndInv'
  OBVIOUS
<1>t. /\ engine \in {"sqlite", "postgres", "duckdb"}
      /\ at \in {"next", "run", "rows", "chunk", "last", "finish", "rollback", "over"}
      /\ hit \in BOOLEAN /\ token \in BOOLEAN /\ missed \in BOOLEAN /\ inexact \in BOOLEAN
      /\ sSignal \in BOOLEAN /\ stray \in BOOLEAN /\ err \in BOOLEAN
  BY DEF Script!EndInv, Script!BatchTypeOK
<1>c. Script!EndsForCause /\ Script!HitForCause
  BY DEF Script!EndInv
<1> USE <1>t, <1>c DEF Script!EndsForCause, Script!HitForCause, Script!Going, Script!Works,
        Script!stmtFrame, Script!fixed, Script!streamVars, Script!txVars, Script!cancelVars, Script!setVars
<1>1. ASSUME Script!Push PROVE Script!EndInv'
  BY <1>1, DatabaseKept DEF Script!Push
<1>2. ASSUME Script!Deliver PROVE Script!EndInv'
  BY <1>2, DatabaseKept DEF Script!Deliver
<1>3. ASSUME Script!Cancel PROVE Script!EndInv'
  <2>1. hit' \in BOOLEAN /\ token' \in BOOLEAN /\ missed' \in BOOLEAN /\ sSignal' = TRUE
    <3>1. CASE engine = "postgres"
      BY <1>3, <3>1 DEF Script!Cancel, Script!S!Cancel
    <3>2. CASE engine # "postgres"
      <4>1. hit' = Script!Executing /\ missed' = ~Script!Executing /\ token' = token /\ sSignal' = TRUE
        BY <1>3, <3>2 DEF Script!Cancel, Script!S!Cancel
      <4>2. Script!Executing \in BOOLEAN
        BY DEF Script!Executing
      <4> QED BY <4>1, <4>2
    <3> QED BY <3>1, <3>2
  <2> QED BY <1>3, <2>1, DatabaseKept DEF Script!Cancel
<1>4. ASSUME Script!TokenArrives PROVE Script!EndInv'
  <2>1. hit' \in BOOLEAN /\ (hit => hit') /\ missed' \in BOOLEAN /\ token /\ token' = FALSE
    BY <1>4 DEF Script!TokenArrives
  <2> QED BY <1>4, <2>1, DatabaseKept DEF Script!TokenArrives
<1>5. ASSUME Script!Starts PROVE Script!EndInv'
  BY <1>5, DatabaseKept DEF Script!Starts
<1>6. ASSUME Script!EndOfScript PROVE Script!EndInv'
  BY <1>6, DatabaseKept DEF Script!EndOfScript, Script!StopsBetween
<1>7. ASSUME Script!Selects PROVE Script!EndInv'
  BY <1>7, DatabaseKept DEF Script!Selects
<1>8. ASSUME Script!Row PROVE Script!EndInv'
  <2>1. at = "rows" /\ at' \in {"rows", "chunk"}
    BY <1>8 DEF Script!Row
  <2> QED BY <1>8, <2>1, DatabaseKept DEF Script!Row
<1>9. ASSUME Script!DuckChunk PROVE Script!EndInv'
  BY <1>9, DatabaseKept DEF Script!DuckChunk
<1>10. ASSUME Script!AfterChunk PROVE Script!EndInv'
  <2>1. at = "chunk" /\ hit' \in BOOLEAN /\ (hit' => hit)
        /\ (at' = "rows" \/ (at' = "finish" /\ sSignal))
    BY <1>10 DEF Script!AfterChunk
  <2> QED BY <1>10, <2>1, DatabaseKept DEF Script!AfterChunk
<1> QED BY <1>1, <1>2, <1>3, <1>4, <1>5, <1>6, <1>7, <1>8, <1>9, <1>10

LEMMA LastRowEnd == Script!EndInv /\ (Script!LastRow \/ Script!AfterLast) => Script!EndInv'
<1> SUFFICES ASSUME Script!EndInv PROVE Script!LastRow \/ Script!AfterLast => Script!EndInv'
  OBVIOUS
<1>t. /\ hit \in BOOLEAN /\ token \in BOOLEAN /\ missed \in BOOLEAN /\ inexact \in BOOLEAN
      /\ sSignal \in BOOLEAN /\ err \in BOOLEAN
  BY DEF Script!EndInv, Script!BatchTypeOK
<1>c. Script!EndsForCause /\ Script!HitForCause
  BY DEF Script!EndInv
<1> USE <1>t, <1>c DEF Script!EndsForCause, Script!HitForCause, Script!Going, Script!Works,
        Script!stmtFrame, Script!fixed, Script!streamVars, Script!txVars, Script!cancelVars, Script!setVars
<1>1. ASSUME Script!LastRow PROVE Script!EndInv'
  <2>1. at = "rows" /\ ~err /\ script # <<>> /\ Head(script) = "select"
    BY <1>1 DEF Script!LastRow
  <2>2. CASE engine = "sqlite"
    BY <1>1, <2>1, <2>2, DatabaseKept DEF Script!LastRow
  <2>3. CASE engine # "sqlite"
    <3>1. script' = Tail(script) /\ at' = "next" /\ hit' = FALSE /\ missed' = (missed \/ hit)
      BY <1>1, <2>3 DEF Script!LastRow, Script!Completed
    <3> QED BY <1>1, <2>1, <3>1, SelectDone DEF Script!LastRow
  <2> QED BY <2>2, <2>3
<1>2. ASSUME Script!AfterLast PROVE Script!EndInv'
  <2>1. at = "last" /\ ~err /\ script # <<>> /\ Head(script) = "select"
    BY <1>2 DEF Script!AfterLast
  <2>2. CASE sSignal
    BY <1>2, <2>1, <2>2, DatabaseKept DEF Script!AfterLast
  <2>3. CASE ~sSignal
    BY <1>2, <2>1, <2>3, SelectDone DEF Script!AfterLast
  <2> QED BY <2>2, <2>3
<1> QED BY <1>1, <1>2

LEMMA EndStep == Script!EndInv /\ [Script!Next]_batches => Script!EndInv'
<1> SUFFICES ASSUME Script!EndInv, [Script!Next]_batches PROVE Script!EndInv'
  OBVIOUS
<1>1. CASE Script!Next
  BY <1>1, QuietEnd, LastRowEnd, ExecutesEnd, MisfitEnd, FinishEnd, RollbackEnd DEF Script!Next
<1>2. CASE UNCHANGED batches
  <2>1. Script!EndsForCause' /\ Script!HitForCause' /\ Script!BatchTypeOK
    BY <1>2 DEF batches, Script!EndInv, Script!EndsForCause, Script!HitForCause, Script!Going
  <2> QED BY <1>2, <2>1, DatabaseKept DEF batches, Script!EndInv, Script!BatchTypeOK
<1> QED BY <1>1, <1>2

LEMMA EndInductive == Spec => []Script!EndInv
<1>1. Init => Script!EndInv
  BY EndInit DEF Init
<1>2. Script!EndInv /\ [Next]_allVars => Script!EndInv'
  <2>1. [Next]_allVars => [Script!Next]_batches
    BY DEF Next, MssqlSteps, ScriptSteps, ExportSteps, LoopSteps, allVars
  <2> QED BY <2>1, EndStep
<1> QED BY <1>1, <1>2, PTL DEF Spec

\* A batch that failed leaves nothing half-done: its own transaction is rolled
\* back, unless a cancel request hit the ROLLBACK itself; of a BEGIN ... COMMIT
\* nothing is written, or all of it (sqlite/mod.rs:238, postgres/mod.rs:632).
THEOREM BatchesEndClean == Spec => []EndsClean
<1>1. Script!EndInv => EndsClean
  <2> SUFFICES ASSUME Script!EndInv, at = "over", clean, ~lost
               PROVE  /\ err /\ engine # "duckdb" => tx = "none" \/ (engine = "postgres" /\ hit)
                      /\ oneTx /\ err => made = 0
                      /\ oneTx /\ ~err => \/ made = changes /\ tx = "none"
                                          \/ sSignal /\ made = 0
    BY DEF EndsClean, Script!EndsClean
  <2>1. err /\ engine # "duckdb" => tx = "none" \/ (engine = "postgres" /\ hit)
    BY DEF Script!EndInv, Script!RolledBack
  <2>2. oneTx /\ err => made = 0
    BY DEF Script!EndInv, Script!WholeOrNothing
  <2>3. ASSUME oneTx, ~err, script # <<>> PROVE sSignal /\ made = 0
    BY <2>3 DEF Script!EndInv, Script!EndsForCause, Script!Going, Script!WholeOrNothing
  <2>4. ASSUME oneTx, ~err, script = <<>> PROVE made = changes /\ tx = "none"
    <3>1. script = <<>>
      BY <2>4
    <3>2. tx = "none" /\ made + undecided + Script!Count(script, "change") = changes
      BY <2>4 DEF Script!EndInv, Script!WholeOrNothing
    <3>3. undecided = 0 /\ made \in Nat /\ Script!Count(script, "change") = 0
      BY <3>1, <3>2, CountEmpty DEF Script!EndInv, Script!BatchTypeOK
    <3> QED BY <3>2, <3>3
  <2> QED BY <2>1, <2>2, <2>3, <2>4
<1> QED BY <1>1, EndInductive, PTL

-----------------------------------------------------------------------------
(* ScriptStream: what the items lead to                                    *)

LEMMA Bounds == /\ BatchRows \in Nat \ {0} /\ ScriptRows \in Nat /\ MaxSets \in Nat
                /\ PipeRoom \in Nat \ {0}
BY StreamConstants

LEMMA ScriptItems ==
  /\ Script!StartItem \in Script!Item /\ Script!Affected \in Script!Item
  /\ \A n \in 1..BatchRows : Script!RowsItem(n) \in Script!Item
  /\ \A n \in 0..ScriptRows : Script!EndItem(n) \in Script!Item
  /\ \A e \in BOOLEAN : Script!Message(e) \in Script!Item
  /\ \A e, c \in BOOLEAN : Script!Done(e, c) \in Script!Item
BY DEF Script!Item

\* An item is one of six kinds.
LEMMA ScriptItemKinds ==
  ASSUME NEW it \in Script!Item
  PROVE  \/ it = Script!StartItem
         \/ it = Script!Affected
         \/ \E n \in 1..BatchRows : it = Script!RowsItem(n)
         \/ \E n \in 0..ScriptRows : it = Script!EndItem(n)
         \/ \E e \in BOOLEAN : it = Script!Message(e)
         \/ \E e, c \in BOOLEAN : it = Script!Done(e, c)
BY DEF Script!Item

LEMMA AfterType ==
  ASSUME NEW now, NEW v \in Script!Views, NEW it \in Script!Item, Script!Fits(now, v, it)
  PROVE  Script!After(v, it) \in Script!Views
<1> USE Bounds
<1>1. /\ v.open \in BOOLEAN /\ v.told \in BOOLEAN /\ v.ended \in BOOLEAN
      /\ v.sent \in 0..ScriptRows /\ v.sets \in 0..MaxSets
  BY DEF Script!Views
<1> DEFINE s == CASE it.item = "ResultSetStart" -> 0
                  [] it.item = "Rows" -> v.sent + it.n
                  [] OTHER -> v.sent
           k == v.sets + (IF it.item = "ResultSetStart" THEN 1 ELSE 0)
<1>2. s \in 0..ScriptRows
  <2>1. CASE it.item = "Rows"
    <3>1. \E n \in 1..BatchRows : it.n = n
      BY <2>1, ScriptItemKinds DEF Script!StartItem, Script!Affected, Script!RowsItem, Script!EndItem, Script!Message, Script!Done
    <3>2. v.sent + it.n <= ScriptRows
      BY <2>1 DEF Script!Fits
    <3>3. s = v.sent + it.n
      BY <2>1
    <3> QED BY <1>1, <3>1, <3>2, <3>3
  <2>2. CASE it.item # "Rows"
    BY <1>1, <2>2
  <2> QED BY <2>1, <2>2
<1>3. k \in 0..MaxSets
  BY <1>1 DEF Script!Fits
<1>4. Script!After(v, it) =
        [open |-> it.item = "ResultSetStart" \/ (v.open /\ it.item # "ResultSetEnd"),
         sent |-> s, sets |-> k, told |-> v.told \/ it = Script!Message(TRUE),
         ended |-> v.ended \/ it.item = "Done"]
  BY DEF Script!After
<1> HIDE DEF s, k
<1> QED BY <1>2, <1>3, <1>4 DEF Script!Views

\* No item leads nowhere; one that fits leads to what is known after it.
LEMMA LeadsNowhere ==
  ASSUME NEW now, NEW v \in Script!Views
  PROVE  Script!Leads(now, v, <<>>, v)
<1> DEFINE views == [i \in 0..0 |-> v]
<1>1. Script!Through(now, views, v, <<>>, v)
  BY DEF Script!Through
<1> QED BY <1>1 DEF Script!Leads

LEMMA LeadsOne ==
  ASSUME NEW now, NEW v \in Script!Views, NEW it \in Script!Item, Script!Fits(now, v, it)
  PROVE  Script!Leads(now, v, <<it>>, Script!After(v, it)) /\ Script!After(v, it) \in Script!Views
<1> DEFINE w == Script!After(v, it)
           views == [i \in 0..1 |-> IF i = 0 THEN v ELSE w]
<1>1. w \in Script!Views
  BY AfterType
<1>2. views \in [0..1 -> Script!Views] /\ views[0] = v /\ views[1] = w
  BY <1>1
<1>3. Len(<<it>>) = 1 /\ <<it>>[1] = it
  OBVIOUS
<1>4. \A i \in 1..1 : i = 1 /\ i - 1 = 0
  OBVIOUS
<1> HIDE DEF views
<1>5. Script!Through(now, views, v, <<it>>, w)
  BY <1>2, <1>3, <1>4 DEF Script!Through
<1> QED BY <1>1, <1>5 DEF Script!Leads

\* Where some items lead, others may go on.
LEMMA LeadsOn ==
  ASSUME NEW now, NEW S, NEW s \in Seq(S), NEW t \in Seq(S), NEW v, NEW w, NEW x,
         Script!Leads(now, v, s, w), Script!Leads(now, w, t, x)
  PROVE  Script!Leads(now, v, s \o t, x)
<1>1. PICK f : Script!Through(now, f, v, s, w)
  BY DEF Script!Leads
<1>2. PICK g : Script!Through(now, g, w, t, x)
  BY DEF Script!Leads
<1> DEFINE m == Len(s)
           n == Len(t)
           h == [i \in 0..(m + n) |-> IF i <= m THEN f[i] ELSE g[i - m]]
<1>3. /\ m \in Nat /\ n \in Nat /\ Len(s \o t) = m + n
      /\ \A i \in 1..m : (s \o t)[i] = s[i]
      /\ \A i \in 1..n : (s \o t)[m + i] = t[i]
  BY ConcatProperties
<1>4. /\ f \in [0..m -> Script!Views] /\ f[0] = v /\ f[m] = w
      /\ g \in [0..n -> Script!Views] /\ g[0] = w /\ g[n] = x
  BY <1>1, <1>2 DEF Script!Through
<1>5. /\ \A i \in 0..m : h[i] = f[i]
      /\ \A i \in 0..n : h[m + i] = g[i]
  <2> HIDE DEF m, n
  <2>1. \A i \in 0..m : h[i] = f[i]
    BY <1>3
  <2>2. \A i \in 1..n : h[m + i] = g[i]
    BY <1>3
  <2>3. h[m + 0] = g[0]
    BY <1>3, <1>4, <2>1
  <2>4. \A i \in 0..n : i = 0 \/ i \in 1..n
    BY <1>3
  <2> HIDE DEF h
  <2> QED BY <2>1, <2>2, <2>3, <2>4
<1>6. h \in [0..(m + n) -> Script!Views]
  <2> HIDE DEF m, n
  <2> QED BY <1>3, <1>4
<1>7. h[0] = v /\ h[m + n] = x
  <2> HIDE DEF m, n, h
  <2> QED BY <1>3, <1>4, <1>5
<1>8. \A i \in 1..(m + n) : Script!Fits(now, h[i - 1], (s \o t)[i]) /\ h[i] = Script!After(h[i - 1], (s \o t)[i])
  <2> SUFFICES ASSUME NEW i \in 1..(m + n)
               PROVE  Script!Fits(now, h[i - 1], (s \o t)[i]) /\ h[i] = Script!After(h[i - 1], (s \o t)[i])
    OBVIOUS
  <2>a. /\ \A j \in 1..m : Script!Fits(now, f[j - 1], s[j]) /\ f[j] = Script!After(f[j - 1], s[j])
        /\ \A j \in 1..n : Script!Fits(now, g[j - 1], t[j]) /\ g[j] = Script!After(g[j - 1], t[j])
    BY <1>1, <1>2 DEF Script!Through
  <2> HIDE DEF m, n, h
  <2>1. CASE i <= m
    <3>1. i \in 1..m /\ i \in 0..m /\ i - 1 \in 0..m
      BY <1>3, <2>1
    <3> QED BY <1>3, <1>5, <2>a, <3>1
  <2>2. CASE i > m
    <3>1. PICK j \in 1..n : i = m + j
      <4>1. i - m \in 1..n /\ i = m + (i - m)
        BY <1>3, <2>2
      <4> QED BY <4>1
    <3>2. j \in 0..n /\ j - 1 \in 0..n /\ i - 1 = m + (j - 1)
      BY <1>3, <3>1
    <3>3. h[i - 1] = g[j - 1] /\ h[i] = g[j]
      <4>1. h[m + j] = g[j] /\ h[m + (j - 1)] = g[j - 1]
        BY <1>5, <3>2
      <4> QED BY <3>1, <3>2, <4>1
    <3>4. (s \o t)[i] = t[j]
      BY <1>3, <3>1
    <3> QED BY <2>a, <3>3, <3>4
  <2> QED BY <1>3, <2>1, <2>2
<1> HIDE DEF h
<1>9. Script!Through(now, h, v, s \o t, x)
  BY <1>3, <1>6, <1>7, <1>8 DEF Script!Through
<1> QED BY <1>9 DEF Script!Leads

\* The first item fits, and the others lead on from what is known after it.
LEMMA LeadsFirst ==
  ASSUME NEW now, NEW S, NEW s \in Seq(S), s # <<>>, NEW v, NEW w, Script!Leads(now, v, s, w)
  PROVE  /\ Script!Fits(now, v, Head(s))
         /\ Script!Leads(now, Script!After(v, Head(s)), Tail(s), w)
<1>1. PICK f : Script!Through(now, f, v, s, w)
  BY DEF Script!Leads
<1> DEFINE n == Len(s) - 1
           g == [i \in 0..n |-> f[i + 1]]
<1>2. /\ n \in Nat /\ Len(s) = n + 1 /\ Head(s) = s[1] /\ Len(Tail(s)) = n
      /\ \A i \in 1..n : Tail(s)[i] = s[i + 1]
  BY EmptySeq, HeadTailProperties
<1>3. /\ f \in [0..(n + 1) -> Script!Views] /\ f[0] = v /\ f[n + 1] = w
      /\ \A i \in 1..(n + 1) : Script!Fits(now, f[i - 1], s[i]) /\ f[i] = Script!After(f[i - 1], s[i])
  BY <1>1, <1>2 DEF Script!Through
<1> HIDE DEF n
<1>4. Script!Fits(now, v, s[1]) /\ f[1] = Script!After(v, s[1])
  <2>1. 1 \in 1..(n + 1) /\ 1 - 1 = 0
    BY <1>2
  <2> QED BY <1>3, <2>1
<1>5. /\ g \in [0..n -> Script!Views] /\ g[0] = f[1] /\ g[n] = w
  <2>1. \A i \in 0..n : i + 1 \in 0..(n + 1)
    BY <1>2
  <2>2. 0 \in 0..n /\ n \in 0..n
    BY <1>2
  <2> QED BY <1>3, <2>1, <2>2
<1>6. \A i \in 1..n : Script!Fits(now, g[i - 1], Tail(s)[i]) /\ g[i] = Script!After(g[i - 1], Tail(s)[i])
  <2> SUFFICES ASSUME NEW i \in 1..n
               PROVE  Script!Fits(now, g[i - 1], Tail(s)[i]) /\ g[i] = Script!After(g[i - 1], Tail(s)[i])
    OBVIOUS
  <2>1. i - 1 \in 0..n /\ i \in 0..n /\ (i - 1) + 1 = i /\ i + 1 \in 1..(n + 1) /\ (i + 1) - 1 = i
    BY <1>2
  <2>2. g[i - 1] = f[i] /\ g[i] = f[i + 1] /\ Tail(s)[i] = s[i + 1]
    BY <1>2, <2>1
  <2> HIDE DEF g
  <2> QED BY <1>3, <2>1, <2>2
<1> HIDE DEF g
<1>7. Script!Through(now, g, f[1], Tail(s), w)
  BY <1>2, <1>5, <1>6 DEF Script!Through
<1> QED BY <1>2, <1>4, <1>7 DEF Script!Leads

\* What fits goes on to fit while the cancel and the inexact count only come and
\* the engine is the same.
LEMMA LeadsStill ==
  ASSUME NEW now, NEW later, NEW v, NEW s, NEW w, Script!Leads(now, v, s, w),
         now.signal => later.signal, now.inexact => later.inexact, now.engine = later.engine
  PROVE  Script!Leads(later, v, s, w)
<1>1. PICK f : Script!Through(now, f, v, s, w)
  BY DEF Script!Leads
<1>2. ASSUME NEW x, NEW it, Script!Fits(now, x, it) PROVE Script!Fits(later, x, it)
  BY <1>2 DEF Script!Fits
<1>3. Script!Through(later, f, v, s, w)
  BY <1>1, <1>2 DEF Script!Through
<1> QED BY <1>3 DEF Script!Leads

\* What a started set, a chunk, the end of a set, a message and the end lead to.
StartSeen(v) == [open |-> TRUE, sent |-> 0, sets |-> v.sets + 1, told |-> v.told, ended |-> v.ended]
RowsSeen(v, n) == [open |-> v.open, sent |-> v.sent + n, sets |-> v.sets, told |-> v.told, ended |-> v.ended]
EndSeen(v) == [open |-> FALSE, sent |-> v.sent, sets |-> v.sets, told |-> v.told, ended |-> v.ended]
MessageSeen(v, e) == [open |-> v.open, sent |-> v.sent, sets |-> v.sets, told |-> v.told \/ e, ended |-> v.ended]
DoneSeen(v) == [open |-> v.open, sent |-> v.sent, sets |-> v.sets, told |-> v.told, ended |-> TRUE]

LEMMA ViewFields ==
  ASSUME NEW v \in Script!Views
  PROVE  /\ v = [open |-> v.open, sent |-> v.sent, sets |-> v.sets, told |-> v.told, ended |-> v.ended]
         /\ v.open \in BOOLEAN /\ v.told \in BOOLEAN /\ v.ended \in BOOLEAN
         /\ v.sent \in 0..ScriptRows /\ v.sets \in 0..MaxSets /\ v.sent \in Nat /\ v.sets \in Nat
BY Bounds DEF Script!Views

\* The same for each kind of an item.
LEMMA AfterKinds ==
  ASSUME NEW v \in Script!Views, NEW it
  PROVE  /\ it.item \in {"Rows", "RowsAffected", "Message", "Done"} =>
              (it.item = "ResultSetStart" \/ (v.open /\ it.item # "ResultSetEnd")) = v.open
         /\ it.item = "ResultSetEnd" =>
              (it.item = "ResultSetStart" \/ (v.open /\ it.item # "ResultSetEnd")) = FALSE
         /\ it # Script!Message(TRUE) => (v.told \/ it = Script!Message(TRUE)) = v.told
         /\ it.item # "Done" => (v.ended \/ it.item = "Done") = v.ended
         /\ it.item # "ResultSetStart" =>
              v.sets + (IF it.item = "ResultSetStart" THEN 1 ELSE 0) = v.sets
<1>1. v.open \in {TRUE, FALSE} /\ v.told \in {TRUE, FALSE} /\ v.ended \in {TRUE, FALSE} /\ v.sets \in Nat
  BY ViewFields
<1>2. /\ it.item \in {"Rows", "RowsAffected", "Message", "Done"} =>
           (it.item = "ResultSetStart" \/ (v.open /\ it.item # "ResultSetEnd")) = v.open
      /\ it.item = "ResultSetEnd" =>
           (it.item = "ResultSetStart" \/ (v.open /\ it.item # "ResultSetEnd")) = FALSE
  <2>1. CASE v.open = TRUE
    BY <2>1
  <2>2. CASE v.open = FALSE
    BY <2>2
  <2> QED BY <1>1, <2>1, <2>2
<1>3. it # Script!Message(TRUE) => (v.told \/ it = Script!Message(TRUE)) = v.told
  <2>1. CASE v.told = TRUE
    BY <2>1
  <2>2. CASE v.told = FALSE
    BY <2>2
  <2> QED BY <1>1, <2>1, <2>2
<1>4. it.item # "Done" => (v.ended \/ it.item = "Done") = v.ended
  <2>1. CASE v.ended = TRUE
    BY <2>1
  <2>2. CASE v.ended = FALSE
    BY <2>2
  <2> QED BY <1>1, <2>1, <2>2
<1>5. it.item # "ResultSetStart" =>
        v.sets + (IF it.item = "ResultSetStart" THEN 1 ELSE 0) = v.sets
  BY <1>1
<1> QED BY <1>2, <1>3, <1>4, <1>5

LEMMA LeadsStart ==
  ASSUME NEW now, NEW v \in Script!Views, ~v.ended, ~v.open, v.sets < MaxSets
  PROVE  StartSeen(v) \in Script!Views /\ Script!Leads(now, v, <<Script!StartItem>>, StartSeen(v))
<1> DEFINE it == Script!StartItem
<1>1. it \in Script!Item /\ it.item = "ResultSetStart"
  BY ScriptItems DEF Script!StartItem
<1>2. Script!Fits(now, v, it)
  BY <1>1 DEF Script!Fits
<1>3. it # Script!Message(TRUE)
  BY DEF Script!StartItem, Script!Message
<1>4. Script!After(v, it) = StartSeen(v)
  BY <1>1, <1>3, ViewFields DEF Script!After, StartSeen
<1> QED BY <1>1, <1>2, <1>4, LeadsOne

LEMMA LeadsRows ==
  ASSUME NEW now, NEW v \in Script!Views, ~v.ended, v.open, NEW n \in 0..BatchRows, v.sent + n <= ScriptRows
  PROVE  RowsSeen(v, n) \in Script!Views /\ Script!Leads(now, v, Script!Chunk(n), RowsSeen(v, n))
<1>1. CASE n = 0
  <2>1. RowsSeen(v, n) = v
    BY <1>1, ViewFields DEF RowsSeen
  <2> QED BY <1>1, <2>1, LeadsNowhere DEF Script!Chunk
<1>2. CASE n # 0
  <2> DEFINE it == Script!RowsItem(n)
  <2>1. it \in Script!Item /\ it.item = "Rows" /\ it.n = n
    BY <1>2, Bounds, ScriptItems DEF Script!RowsItem
  <2>2. Script!Fits(now, v, it)
    BY <2>1 DEF Script!Fits
  <2>3. it # Script!Message(TRUE)
    BY DEF Script!RowsItem, Script!Message
  <2>4. Script!After(v, it) = RowsSeen(v, n)
    BY <2>1, <2>3, ViewFields, AfterKinds DEF Script!After, RowsSeen
  <2> QED BY <1>2, <2>1, <2>2, <2>4, LeadsOne DEF Script!Chunk
<1> QED BY <1>1, <1>2

LEMMA LeadsEnd ==
  ASSUME NEW now, NEW v \in Script!Views, ~v.ended, v.open, NEW n \in 0..ScriptRows, n = v.sent \/ now.inexact
  PROVE  EndSeen(v) \in Script!Views /\ Script!Leads(now, v, <<Script!EndItem(n)>>, EndSeen(v))
<1> DEFINE it == Script!EndItem(n)
<1>1. it \in Script!Item /\ it.item = "ResultSetEnd" /\ it.n = n
  BY ScriptItems DEF Script!EndItem
<1>2. Script!Fits(now, v, it)
  BY <1>1 DEF Script!Fits
<1>3. it # Script!Message(TRUE)
  BY DEF Script!EndItem, Script!Message
<1>4. Script!After(v, it) = EndSeen(v)
  BY <1>1, <1>3, ViewFields, AfterKinds DEF Script!After, EndSeen
<1> QED BY <1>1, <1>2, <1>4, LeadsOne

LEMMA LeadsAffected ==
  ASSUME NEW now, NEW v \in Script!Views, ~v.ended, ~v.open
  PROVE  Script!Leads(now, v, <<Script!Affected>>, v)
<1> DEFINE it == Script!Affected
<1>1. it \in Script!Item /\ it.item = "RowsAffected"
  BY ScriptItems DEF Script!Affected
<1>2. Script!Fits(now, v, it)
  BY <1>1 DEF Script!Fits
<1>3. it # Script!Message(TRUE)
  BY DEF Script!Affected, Script!Message
<1>4. Script!After(v, it) = v
  BY <1>1, <1>3, ViewFields, AfterKinds DEF Script!After
<1> QED BY <1>1, <1>2, <1>4, LeadsOne

LEMMA LeadsMessage ==
  ASSUME NEW now, NEW v \in Script!Views, ~v.ended, NEW e \in BOOLEAN
  PROVE  MessageSeen(v, e) \in Script!Views /\ Script!Leads(now, v, <<Script!Message(e)>>, MessageSeen(v, e))
<1> DEFINE it == Script!Message(e)
<1>1. it \in Script!Item /\ it.item = "Message"
  BY ScriptItems DEF Script!Message
<1>2. Script!Fits(now, v, it)
  BY <1>1 DEF Script!Fits
<1>3. it = Script!Message(TRUE) <=> e
  BY DEF Script!Message
<1>4. Script!After(v, it) = MessageSeen(v, e)
  <2>1. (v.told \/ it = Script!Message(TRUE)) = (v.told \/ e)
    BY <1>3, ViewFields
  <2> QED BY <1>1, <2>1, ViewFields, AfterKinds DEF Script!After, MessageSeen
<1> QED BY <1>1, <1>2, <1>4, LeadsOne

LEMMA LeadsDone ==
  ASSUME NEW now, NEW v \in Script!Views, ~v.ended, NEW e \in BOOLEAN, NEW c \in BOOLEAN,
         e => v.told, c => now.signal, v.open => now.engine = "duckdb" /\ e
  PROVE  DoneSeen(v) \in Script!Views /\ Script!Leads(now, v, <<Script!Done(e, c)>>, DoneSeen(v))
<1> DEFINE it == Script!Done(e, c)
<1>1. it \in Script!Item /\ it.item = "Done" /\ it.error = e /\ it.cancelled = c
  BY ScriptItems DEF Script!Done
<1>2. Script!Fits(now, v, it)
  BY <1>1 DEF Script!Fits
<1>3. it # Script!Message(TRUE)
  BY DEF Script!Done, Script!Message
<1>4. Script!After(v, it) = DoneSeen(v)
  BY <1>1, <1>3, ViewFields, AfterKinds DEF Script!After, DoneSeen
<1> QED BY <1>1, <1>2, <1>4, LeadsOne

-----------------------------------------------------------------------------
(* ScriptStream: one step of the worker                                    *)

LEMMA SelectsLeft ==
  ASSUME Script!BatchTypeOK
  PROVE  /\ Script!Count(script, "select") \in Nat
         /\ script # <<>> =>
              /\ Tail(script) \in Seq(Script!Statements)
              /\ Script!Count(Tail(script), "select") \in Nat
              /\ Script!Count(script, "select")
                   = Script!Count(Tail(script), "select") + (IF Head(script) = "select" THEN 1 ELSE 0)
<1>1. script \in Seq(Script!Statements)
  BY DEF Script!BatchTypeOK
<1>2. script # <<>> => Tail(script) \in Seq(Script!Statements)
  BY <1>1, HeadTailProperties
<1> QED BY <1>1, <1>2, CountType, CountTail

\* What the worker sends leads on from what it takes the reader to have been told.
LEMMA Emits ==
  ASSUME NEW w, Script!Leads(Script!Now, Script!View, pipe \o out, w),
         pipe \in Seq(Script!Item), out = <<>>, out' \in Seq(Script!Item),
         UNCHANGED <<engine, pipe, sOpen, sSent, sSets, sTold, sEnded, sSignal>>, inexact => inexact',
         NEW x, Script!Leads(Script!Now', w, out', x)
  PROVE  Script!Leads(Script!Now, Script!View, pipe \o out, x)'
<1>1. pipe \o out = pipe
  BY ConcatEmptySeq
<1>2. Script!Leads(Script!Now', Script!View, pipe, w)
  <2>1. ((Script!Now).signal => (Script!Now').signal) /\ (Script!Now).engine = (Script!Now').engine
    BY DEF Script!Now
  <2>2. (Script!Now).inexact => (Script!Now').inexact
    BY DEF Script!Now
  <2>3. Script!Leads(Script!Now, Script!View, pipe, w)
    BY <1>1
  <2> HIDE DEF Script!Now
  <2> QED BY <2>1, <2>2, <2>3, LeadsStill
<1>3. Script!Leads(Script!Now', Script!View, pipe \o out', x)
  BY <1>2, LeadsOn
<1>4. Script!View' = Script!View /\ pipe' = pipe
  BY DEF Script!View
<1>5. Script!Leads(Script!Now', Script!View', pipe' \o out', x)
  BY <1>3, <1>4
<1> QED BY <1>5

LEMMA Working ==
  ASSUME Script!ItemInv, Script!EndInv', out = <<>>,
         UNCHANGED <<engine, pipe, sOpen, sSent, sSets, sTold, sEnded, sSignal>>, inexact => inexact',
         gathered' \in 0..BatchRows, total' \in 0..ScriptRows, begun' \in BOOLEAN,
         Script!RowsGathered', out' \in Seq(Script!Item),
         NEW w, Script!Leads(Script!Now, Script!View, pipe \o out, w),
         NEW x \in Script!Views, Script!Leads(Script!Now', w, out', x), Script!Worker(x)'
  PROVE  Script!ItemInv'
<1>1. Script!TypeOK'
  BY DEF Script!ItemInv, Script!TypeOK, Script!EndInv, Script!S!StreamTypeOK
<1>2. Script!Leads(Script!Now, Script!View, pipe \o out, x)'
  <2>1. pipe \in Seq(Script!Item)
    BY DEF Script!ItemInv, Script!TypeOK
  <2> QED BY <2>1, Emits
<1>3. \E y \in Script!Views : Script!Leads(Script!Now, Script!View, pipe \o out, y)' /\ Script!Worker(y)'
  BY <1>2
<1> QED BY <1>1, <1>3 DEF Script!ItemInv, Script!Views

\* What holds while the worker is at it
LEMMA AtWork ==
  ASSUME Script!ItemInv
  PROVE  /\ engine \in {"sqlite", "postgres", "duckdb"}
         /\ at \in {"next", "run", "rows", "chunk", "last", "finish", "rollback", "over"}
         /\ gathered \in 0..BatchRows /\ gathered < BatchRows /\ total \in 0..ScriptRows
         /\ gathered \in Nat /\ total \in Nat
         /\ begun \in BOOLEAN /\ err \in BOOLEAN /\ sSignal \in BOOLEAN /\ inexact \in BOOLEAN
         /\ Script!RowsGathered /\ Script!EndsForCause /\ Script!BatchTypeOK
BY Bounds DEF Script!ItemInv, Script!TypeOK, Script!EndInv, Script!BatchTypeOK, Script!RowsGathered

LEMMA TwoItems ==
  ASSUME NEW a \in Script!Item, NEW b \in Script!Item
  PROVE  <<a>> \o <<b>> = <<a, b>> /\ <<a, b>> \in Seq(Script!Item)
<1>1. <<a>> \in Seq(Script!Item) /\ <<b>> \in Seq(Script!Item) /\ <<a, b>> \in Seq(Script!Item)
  OBVIOUS
<1>2. <<a>> \o <<b>> \in Seq(Script!Item) /\ Len(<<a>> \o <<b>>) = 2
  BY <1>1
<1>3. (<<a>> \o <<b>>)[1] = a /\ (<<a>> \o <<b>>)[2] = b
  BY <1>1
<1>4. \A i \in 1..2 : i = 1 \/ i = 2
  OBVIOUS
<1>5. Len(<<a, b>>) = 2 /\ <<a, b>>[1] = a /\ <<a, b>>[2] = b
  OBVIOUS
<1>6. ASSUME NEW s, NEW t, s \in Seq(Script!Item), t \in Seq(Script!Item), Len(s) = 2, Len(t) = 2,
             s[1] = t[1], s[2] = t[2]
      PROVE  s = t
  <2>1. \A i \in 1..Len(s) : s[i] = t[i]
    BY <1>4, <1>6
  <2> QED BY <1>6, <2>1, SeqEqual
<1> QED BY <1>1, <1>2, <1>3, <1>5, <1>6

LEMMA Sequences ==
  /\ <<>> \in Seq(Script!Item)
  /\ \A it \in Script!Item : <<it>> \in Seq(Script!Item)
  /\ Script!Start \in Seq(Script!Item)
  /\ \A n \in 0..BatchRows : Script!Chunk(n) \in Seq(Script!Item)
<1>1. \A it \in Script!Item : <<it>> \in Seq(Script!Item)
  OBVIOUS
<1>2. Script!Start \in Seq(Script!Item)
  BY <1>1, ScriptItems DEF Script!Start
<1>3. ASSUME NEW n \in 0..BatchRows PROVE Script!Chunk(n) \in Seq(Script!Item)
  BY <1>1, Bounds, ScriptItems DEF Script!Chunk
<1> QED BY <1>1, <1>2, <1>3

\* What the worker takes the reader to have been told
LEMMA Told ==
  ASSUME Script!ItemInv
  PROVE  \E w \in Script!Views :
           Script!Leads(Script!Now, Script!View, pipe \o out, w) /\ Script!Worker(w)
BY DEF Script!ItemInv

LEMMA StartsItems ==
  Script!ItemInv /\ Script!EndInv' /\ (Script!Starts \/ Script!EndOfScript) => Script!ItemInv'
<1> SUFFICES ASSUME Script!ItemInv, Script!EndInv', Script!Starts \/ Script!EndOfScript
             PROVE  Script!ItemInv'
  OBVIOUS
<1> USE DEF Script!Works, Script!stmtFrame, Script!fixed, Script!streamVars, Script!setVars, Script!Going, Script!InSet
<1>1. PICK w \in Script!Views :
           Script!Leads(Script!Now, Script!View, pipe \o out, w) /\ Script!Worker(w)
  BY Told
<1>2. /\ at = "next" /\ out = <<>> /\ out' = <<>> /\ at' \in {"run", "finish"}
      /\ UNCHANGED <<pipe, sOpen, sSent, sSets, sTold, sEnded, sSignal, script, err, inexact, engine>>
      /\ at' = "run" => gathered' = 0 /\ total' = 0 /\ begun' = FALSE
      /\ at' = "finish" => UNCHANGED <<gathered, total, begun>>
  BY DEF Script!Starts, Script!EndOfScript
<1>3. /\ gathered' \in 0..BatchRows /\ total' \in 0..ScriptRows /\ begun' \in BOOLEAN
      /\ gathered' < BatchRows
  <2>1. CASE at' = "run"
    <3>1. gathered' = 0 /\ total' = 0 /\ begun' = FALSE
      BY <1>2, <2>1
    <3>2. 0 \in 0..BatchRows /\ 0 \in 0..ScriptRows /\ 0 < BatchRows
      BY Bounds
    <3> QED BY <3>1, <3>2
  <2>2. CASE at' = "finish"
    BY <1>2, <2>2, AtWork
  <2> QED BY <1>2, <2>1, <2>2
<1>4. Script!RowsGathered'
  <2>1. engine = "sqlite" => total' + gathered' <= ScriptRows
    BY <1>2, AtWork, Bounds DEF Script!RowsGathered
  <2> QED BY <1>2, <1>3, <2>1, AtWork DEF Script!RowsGathered
<1>5. Script!Worker(w)'
  BY <1>1, <1>2, AtWork DEF Script!Worker
<1>6. Script!Leads(Script!Now', w, out', w)
  BY <1>2, LeadsNowhere
<1> QED BY <1>1, <1>2, <1>3, <1>4, <1>5, <1>6, Sequences, Working

LEMMA ExecutesItems ==
  Script!ItemInv /\ Script!EndInv' /\ Script!Executes => Script!ItemInv'
<1> SUFFICES ASSUME Script!ItemInv, Script!EndInv', Script!Executes PROVE Script!ItemInv'
  OBVIOUS
<1> USE DEF Script!Works, Script!stmtFrame, Script!fixed, Script!streamVars, Script!setVars, Script!Going, Script!InSet
<1>1. PICK w \in Script!Views :
           Script!Leads(Script!Now, Script!View, pipe \o out, w) /\ Script!Worker(w)
  BY Told
<1>2. /\ at = "run" /\ out = <<>> /\ at' = "next" /\ script' = Tail(script)
      /\ UNCHANGED <<pipe, sOpen, sSent, sSets, sTold, sEnded, sSignal, err, inexact, engine, gathered, total, begun>>
      /\ Head(script) # "select" /\ out' \in {<<>>, <<Script!Affected>>}
  BY DEF Script!Executes, Script!Completed, Script!Reports
<1>3. script # <<>>
  BY <1>2, AtWork DEF Script!EndsForCause
<1>4. Script!RowsGathered'
  BY <1>2, AtWork DEF Script!RowsGathered
<1>5. ~w.ended /\ ~w.open
  BY <1>1, <1>2 DEF Script!Worker
<1>6. Script!Worker(w)'
  <2>1. Script!Count(script', "select") = Script!Count(script, "select")
    BY <1>2, <1>3, AtWork, SelectsLeft
  <2> QED BY <1>1, <1>2, <2>1 DEF Script!Worker
<1>7. out' \in Seq(Script!Item) /\ Script!Leads(Script!Now', w, out', w)
  <2>1. CASE out' = <<>>
    BY <2>1, LeadsNowhere, Sequences
  <2>2. CASE out' = <<Script!Affected>>
    BY <1>5, <2>2, LeadsAffected, Sequences, ScriptItems
  <2> QED BY <1>2, <2>1, <2>2
<1> QED BY <1>1, <1>2, <1>4, <1>6, <1>7, AtWork, Working

LEMMA SelectsItems ==
  Script!ItemInv /\ Script!EndInv' /\ Script!Selects => Script!ItemInv'
<1> SUFFICES ASSUME Script!ItemInv, Script!EndInv', Script!Selects PROVE Script!ItemInv'
  OBVIOUS
<1> USE DEF Script!Works, Script!stmtFrame, Script!fixed, Script!streamVars, Script!setVars, Script!Going, Script!InSet
<1>1. PICK w \in Script!Views :
           Script!Leads(Script!Now, Script!View, pipe \o out, w) /\ Script!Worker(w)
  BY Told
<1>2. /\ at = "run" /\ out = <<>> /\ at' = "rows" /\ Head(script) = "select"
      /\ UNCHANGED <<pipe, sOpen, sSent, sSets, sTold, sEnded, sSignal, err, inexact, engine, gathered, total, script>>
      /\ IF engine = "sqlite" THEN out' = <<>> /\ begun' = begun
         ELSE out' = <<Script!StartItem>> /\ begun' = TRUE
  BY DEF Script!Selects
<1>3. script # <<>> /\ total = 0 /\ gathered = 0 /\ ~begun /\ ~inexact /\ begun \in BOOLEAN
  BY <1>2, AtWork DEF Script!EndsForCause, Script!RowsGathered
<1>4. Script!RowsGathered' /\ begun' \in BOOLEAN
  BY <1>2, <1>3, AtWork, Bounds DEF Script!RowsGathered
<1>5. ~w.ended /\ ~w.open /\ w.sets + Script!Count(script, "select") <= MaxSets
  <2>1. w.sets + Script!Count(script, "select") <= MaxSets + 0 /\ MaxSets \in Nat
    BY <1>1, <1>2, Bounds DEF Script!Worker
  <2> QED BY <1>1, <1>2, <2>1 DEF Script!Worker
<1>6. CASE engine = "sqlite"
  <2>1. Script!Worker(w)'
    BY <1>1, <1>2, <1>3, <1>5, <1>6 DEF Script!Worker
  <2>2. Script!Leads(Script!Now', w, out', w)
    BY <1>2, <1>6, LeadsNowhere
  <2> QED BY <1>1, <1>2, <1>4, <1>6, <2>1, <2>2, AtWork, Working, Sequences
<1>7. CASE engine # "sqlite"
  <2> DEFINE x == StartSeen(w)
  <2>1. w.sets < MaxSets
    <3>1. Script!Count(Tail(script), "select") \in Nat
          /\ Script!Count(script, "select") = Script!Count(Tail(script), "select") + 1
      BY <1>2, <1>3, AtWork, SelectsLeft
    <3> QED BY <1>5, <3>1, ViewFields, Bounds
  <2>2. x \in Script!Views /\ Script!Leads(Script!Now', w, out', x)
    BY <1>2, <1>5, <1>7, <2>1, LeadsStart
  <2>3. x.open = TRUE /\ x.sent = 0 /\ x.sets = w.sets + 1 /\ x.told = w.told /\ x.ended = w.ended
    BY DEF StartSeen
  <2>4. x.sets + Script!Count(script, "select") <= MaxSets + 1
    <3>1. Script!Count(script, "select") \in Nat
      BY AtWork, SelectsLeft
    <3> QED BY <1>5, <2>3, <3>1, ViewFields, Bounds
  <2> HIDE DEF x
  <2>5. Script!Worker(x)'
    BY <1>1, <1>2, <1>3, <1>7, <2>3, <2>4 DEF Script!Worker
  <2> QED BY <1>1, <1>2, <1>4, <1>7, <2>2, <2>5, AtWork, Working, Sequences, ScriptItems
<1> QED BY <1>6, <1>7

\* In the rows of a set: what was shown of it, and room for another set
LEMMA InRows ==
  ASSUME Script!ItemInv, Script!InSet, NEW w \in Script!Views, Script!Worker(w)
  PROVE  /\ ~w.ended /\ (w.open <=> begun) /\ (begun \/ (engine = "sqlite" /\ total = 0))
         /\ begun => w.sent + (IF engine = "postgres" THEN gathered ELSE 0) = total
         /\ ~begun => w.sets < MaxSets
         /\ script # <<>> /\ Head(script) = "select" /\ ~err /\ ~inexact
         /\ w.sets + Script!Count(script, "select") <= MaxSets + (IF begun THEN 1 ELSE 0)
<1> USE DEF Script!InSet, Script!Going
<1>1. /\ ~w.ended /\ (w.open <=> begun) /\ (begun \/ (engine = "sqlite" /\ total = 0))
      /\ begun => w.sent + (IF engine = "postgres" THEN gathered ELSE 0) = total
      /\ script # <<>> /\ Head(script) = "select" /\ ~err /\ ~inexact
  BY AtWork DEF Script!Worker, Script!RowsGathered, Script!EndsForCause
<1>2. w.sets + Script!Count(script, "select") <= MaxSets + (IF begun THEN 1 ELSE 0)
  BY DEF Script!Worker
<1>3. ~begun => w.sets < MaxSets
  <2>1. Script!Count(Tail(script), "select") \in Nat
        /\ Script!Count(script, "select") = Script!Count(Tail(script), "select") + 1
    BY <1>1, AtWork, SelectsLeft
  <2>2. ~begun => w.sets + Script!Count(script, "select") <= MaxSets
    BY <1>2, Bounds
  <2> QED BY <2>1, <2>2, ViewFields, Bounds
<1> QED BY <1>1, <1>2, <1>3

\* The start of the set, if it is not shown yet
LEMMA LeadsMaybeStart ==
  ASSUME NEW now, NEW w \in Script!Views, ~w.ended, w.open <=> begun, ~begun => w.sets < MaxSets
  PROVE  \E x \in Script!Views :
           /\ Script!Leads(now, w, Script!Start, x)
           /\ x.open /\ ~x.ended /\ x.told = w.told
           /\ IF begun THEN x.sent = w.sent /\ x.sets = w.sets
              ELSE x.sent = 0 /\ x.sets = w.sets + 1
<1>1. CASE begun
  BY <1>1, LeadsNowhere DEF Script!Start
<1>2. CASE ~begun
  BY <1>2, LeadsStart DEF Script!Start, StartSeen
<1> QED BY <1>1, <1>2

LEMMA RowItems ==
  Script!ItemInv /\ Script!EndInv' /\ Script!Row => Script!ItemInv'
<1> SUFFICES ASSUME Script!ItemInv, Script!EndInv', Script!Row PROVE Script!ItemInv'
  OBVIOUS
<1> USE DEF Script!Works, Script!stmtFrame, Script!fixed, Script!streamVars, Script!setVars, Script!Going, Script!InSet
<1>1. PICK w \in Script!Views :
           Script!Leads(Script!Now, Script!View, pipe \o out, w) /\ Script!Worker(w)
  BY Told
<1>2. /\ at = "rows" /\ out = <<>> /\ engine # "duckdb" /\ Script!RowsNow < ScriptRows
      /\ UNCHANGED <<pipe, sOpen, sSent, sSets, sTold, sEnded, sSignal, err, inexact, engine, script>>
  BY DEF Script!Row
<1>3. /\ ~w.ended /\ (w.open <=> begun) /\ (begun \/ (engine = "sqlite" /\ total = 0))
      /\ begun => w.sent + (IF engine = "postgres" THEN gathered ELSE 0) = total
      /\ ~begun => w.sets < MaxSets
      /\ script # <<>> /\ Head(script) = "select" /\ ~err /\ ~inexact
      /\ w.sets + Script!Count(script, "select") <= MaxSets + (IF begun THEN 1 ELSE 0)
  BY <1>1, <1>2, InRows
<1>4. /\ engine = "sqlite" => total + gathered < ScriptRows
      /\ engine = "postgres" => total < ScriptRows
  BY <1>2, AtWork DEF Script!RowsNow
<1>5. CASE gathered + 1 < BatchRows
  <2>1. /\ gathered' = gathered + 1 /\ out' = <<>> /\ begun' = begun /\ at' = "rows"
        /\ total' = (IF engine = "postgres" THEN total + 1 ELSE total)
    BY <1>2, <1>5 DEF Script!Row
  <2>2. gathered' \in 0..BatchRows /\ gathered' < BatchRows /\ total' \in 0..ScriptRows
    BY <1>4, <1>5, <2>1, AtWork, Bounds
  <2>3. Script!RowsGathered'
    <3>1. engine = "sqlite" => total' + gathered' <= ScriptRows
      BY <1>4, <2>1, AtWork, Bounds
    <3> QED BY <1>2, <1>3, <2>1, <2>2, <3>1, AtWork DEF Script!RowsGathered
  <2>4. begun' => w.sent + (IF engine = "postgres" THEN gathered' ELSE 0) = total'
    BY <1>3, <2>1, AtWork, ViewFields
  <2>5. Script!Worker(w)'
    BY <1>1, <1>2, <1>3, <2>1, <2>4 DEF Script!Worker
  <2>6. Script!Leads(Script!Now', w, out', w)
    BY <2>1, LeadsNowhere
  <2> QED BY <1>1, <1>2, <2>1, <2>2, <2>3, <2>5, <2>6, AtWork, Working, Sequences
<1>6. CASE ~(gathered + 1 < BatchRows)
  <2>1. /\ gathered' = 0 /\ out' = Script!Start \o Script!Chunk(BatchRows) /\ begun' = TRUE
        /\ total' = (IF engine = "postgres" THEN total + 1 ELSE total + BatchRows)
        /\ at' = (IF engine = "sqlite" THEN "chunk" ELSE at)
    BY <1>6 DEF Script!Row
  <2>2. gathered + 1 = BatchRows
    BY <1>6, AtWork, Bounds
  <2>3. total' \in 0..ScriptRows /\ gathered' \in 0..BatchRows /\ gathered' < BatchRows
    BY <1>2, <1>4, <2>1, <2>2, AtWork, Bounds
  <2>4. Script!RowsGathered'
    <3>1. engine = "sqlite" => total' + gathered' <= ScriptRows
      BY <2>1, <2>3, Bounds
    <3> QED BY <1>2, <1>3, <2>1, <2>3, <3>1, AtWork, Bounds DEF Script!RowsGathered
  <2>5. PICK x \in Script!Views :
           /\ Script!Leads(Script!Now', w, Script!Start, x)
           /\ x.open /\ ~x.ended /\ x.told = w.told
           /\ IF begun THEN x.sent = w.sent /\ x.sets = w.sets
              ELSE x.sent = 0 /\ x.sets = w.sets + 1
    BY <1>3, LeadsMaybeStart
  <2>6. x.sent + BatchRows = total'
    <3>1. CASE begun
      BY <1>2, <1>3, <2>1, <2>2, <2>5, <3>1, AtWork, ViewFields, Bounds
    <3>2. CASE ~begun
      BY <1>3, <2>1, <2>5, <3>2, Bounds
    <3> QED BY <3>1, <3>2
  <2> DEFINE y == RowsSeen(x, BatchRows)
  <2>7. y \in Script!Views /\ Script!Leads(Script!Now', x, Script!Chunk(BatchRows), y)
    BY <2>3, <2>5, <2>6, LeadsRows, Bounds
  <2>8. out' \in Seq(Script!Item) /\ Script!Leads(Script!Now', w, out', y)
    <3>1. Script!Start \in Seq(Script!Item) /\ Script!Chunk(BatchRows) \in Seq(Script!Item)
      BY Sequences, Bounds
    <3> HIDE DEF y
    <3> QED BY <2>1, <2>5, <2>7, <3>1, LeadsOn
  <2>9. /\ y.open = x.open /\ y.sent = x.sent + BatchRows /\ y.sets = x.sets
        /\ y.told = x.told /\ y.ended = x.ended
    BY DEF RowsSeen
  <2>10. y.sets + Script!Count(script, "select") <= MaxSets + 1
    <3>1. Script!Count(script, "select") \in Nat
      BY AtWork, SelectsLeft
    <3> QED BY <1>3, <2>5, <2>9, <3>1, ViewFields, Bounds
  <2> HIDE DEF y
  <2>11. Script!Worker(y)'
    <3>1. y.sent + 0 = total'
      BY <2>6, <2>9, <2>7, ViewFields
    <3> QED BY <1>1, <1>2, <1>3, <2>1, <2>5, <2>6, <2>9, <2>10, <3>1 DEF Script!Worker
  <2> QED BY <1>1, <1>2, <2>1, <2>3, <2>4, <2>7, <2>8, <2>11, Working
<1> QED BY <1>5, <1>6

LEMMA DuckItems ==
  Script!ItemInv /\ Script!EndInv' /\ Script!DuckChunk => Script!ItemInv'
<1> SUFFICES ASSUME Script!ItemInv, Script!EndInv', Script!DuckChunk PROVE Script!ItemInv'
  OBVIOUS
<1> USE DEF Script!Works, Script!stmtFrame, Script!fixed, Script!streamVars, Script!setVars, Script!Going, Script!InSet
<1>1. PICK w \in Script!Views :
           Script!Leads(Script!Now, Script!View, pipe \o out, w) /\ Script!Worker(w)
  BY Told
<1>2. /\ at = "rows" /\ out = <<>> /\ engine = "duckdb"
      /\ UNCHANGED <<pipe, sOpen, sSent, sSets, sTold, sEnded, sSignal, err, inexact, engine, script,
                     at, gathered, begun>>
  BY DEF Script!DuckChunk
<1>3. PICK n \in 1..BatchRows : total + n <= ScriptRows /\ total' = total + n /\ out' = Script!Chunk(n)
  BY DEF Script!DuckChunk
<1>4. ~w.ended /\ w.open /\ begun /\ w.sent = total /\ gathered = 0
  BY <1>1, <1>2, InRows, AtWork, ViewFields DEF Script!RowsGathered
<1> DEFINE x == RowsSeen(w, n)
<1>5. n \in 0..BatchRows /\ n \in Nat /\ total' \in 0..ScriptRows
  BY <1>3, AtWork, Bounds
<1>6. x \in Script!Views /\ Script!Leads(Script!Now', w, out', x)
  BY <1>3, <1>4, <1>5, LeadsRows
<1>7. x.open = w.open /\ x.sent = total' /\ x.sets = w.sets /\ x.told = w.told /\ x.ended = w.ended
  BY <1>3, <1>4 DEF RowsSeen
<1> HIDE DEF x
<1>8. Script!Worker(x)'
  <2>1. x.sent + 0 = total'
    <3>1. x.sent + 0 = x.sent
      BY <1>6, ViewFields
    <3> QED BY <1>7, <3>1
  <2> QED BY <1>1, <1>2, <1>4, <1>7, <2>1 DEF Script!Worker
<1>9. Script!RowsGathered'
  BY <1>2, <1>4, AtWork DEF Script!RowsGathered
<1>10. out' \in Seq(Script!Item)
  BY <1>3, <1>5, Sequences
<1> QED BY <1>1, <1>2, <1>5, <1>6, <1>8, <1>9, <1>10, AtWork, Working

LEMMA MisfitItems ==
  Script!ItemInv /\ Script!EndInv' /\ Script!Misfit => Script!ItemInv'
<1> SUFFICES ASSUME Script!ItemInv, Script!EndInv', Script!Misfit PROVE Script!ItemInv'
  OBVIOUS
<1> USE DEF Script!Works, Script!stmtFrame, Script!fixed, Script!streamVars, Script!setVars, Script!Going, Script!InSet
<1>1. PICK w \in Script!Views :
           Script!Leads(Script!Now, Script!View, pipe \o out, w) /\ Script!Worker(w)
  BY Told
<1>2. /\ at = "rows" /\ out = <<>> /\ engine # "postgres" /\ Script!RowsNow < ScriptRows
      /\ UNCHANGED <<pipe, sOpen, sSent, sSets, sTold, sEnded, sSignal, engine, script>>
      /\ total' = (IF engine = "duckdb" THEN total + 1 ELSE total)
      /\ out' = Script!Start \o <<Script!Message(TRUE), Script!EndItem(total')>>
      /\ inexact' = (engine = "duckdb") /\ gathered' = 0 /\ begun' = TRUE
      /\ err' = TRUE /\ at' = "finish"
  BY DEF Script!Misfit
<1>3. /\ ~w.ended /\ (w.open <=> begun) /\ (begun \/ (engine = "sqlite" /\ total = 0))
      /\ begun => w.sent = total
      /\ ~begun => w.sets < MaxSets
      /\ ~inexact
  BY <1>1, <1>2, InRows, ViewFields
<1>4. total' \in 0..ScriptRows /\ (engine = "sqlite" => total' = total)
  BY <1>2, AtWork, Bounds DEF Script!RowsNow
<1>5. PICK x \in Script!Views :
         /\ Script!Leads(Script!Now', w, Script!Start, x)
         /\ x.open /\ ~x.ended /\ x.told = w.told
         /\ IF begun THEN x.sent = w.sent /\ x.sets = w.sets
            ELSE x.sent = 0 /\ x.sets = w.sets + 1
  BY <1>3, LeadsMaybeStart
<1> DEFINE y == MessageSeen(x, TRUE)
           z == EndSeen(y)
           message == <<Script!Message(TRUE)>>
           end == <<Script!EndItem(total')>>
<1>6. y \in Script!Views /\ Script!Leads(Script!Now', x, message, y)
  BY <1>5, LeadsMessage
<1>7. y.open = x.open /\ y.sent = x.sent /\ y.ended = x.ended /\ y.told = TRUE
  BY <1>5, ViewFields DEF MessageSeen
<1>8. total' = y.sent \/ (Script!Now').inexact
  <2>1. CASE engine = "duckdb"
    BY <1>2, <2>1 DEF Script!Now
  <2>2. CASE engine = "sqlite"
    <3>1. CASE begun
      BY <1>3, <1>4, <1>5, <1>7, <2>2, <3>1, ViewFields
    <3>2. CASE ~begun
      BY <1>3, <1>4, <1>5, <1>7, <2>2, <3>2
    <3> QED BY <3>1, <3>2
  <2> QED BY <1>2, <2>1, <2>2, AtWork
<1>9. z \in Script!Views /\ Script!Leads(Script!Now', y, end, z)
  <2> HIDE DEF y, Script!Now
  <2> QED BY <1>4, <1>5, <1>6, <1>7, <1>8, LeadsEnd
<1>10. z.ended = FALSE /\ z.told = TRUE /\ z.open = FALSE
  <2>1. z.ended = y.ended /\ z.told = y.told /\ z.open = FALSE
    BY DEF EndSeen
  <2> QED BY <1>5, <1>6, <1>7, <2>1, ViewFields
<1>11. out' \in Seq(Script!Item) /\ Script!Leads(Script!Now', w, out', z)
  <2>1. /\ message \in Seq(Script!Item) /\ end \in Seq(Script!Item)
        /\ Script!Start \in Seq(Script!Item)
    BY <1>4, Sequences, ScriptItems
  <2>2. message \o end = <<Script!Message(TRUE), Script!EndItem(total')>>
    BY <1>4, TwoItems, ScriptItems
  <2> HIDE DEF message, end, y, z
  <2>3. message \o end \in Seq(Script!Item) /\ Script!Leads(Script!Now', x, message \o end, z)
    BY <1>6, <1>9, <2>1, LeadsOn
  <2>4. out' = Script!Start \o (message \o end)
    BY <1>2, <2>2
  <2>5. Script!Leads(Script!Now', w, Script!Start \o (message \o end), z)
    BY <1>5, <2>1, <2>3, LeadsOn
  <2>6. Script!Start \o (message \o end) \in Seq(Script!Item)
    BY <2>1, <2>3, ConcatProperties
  <2> QED BY <2>4, <2>5, <2>6
<1> HIDE DEF y, z
<1>12. Script!Worker(z)'
  BY <1>2, <1>10 DEF Script!Worker
<1>13. Script!RowsGathered'
  <2>1. 0 < BatchRows
    BY Bounds
  <2>2. total' + 0 <= ScriptRows
    <3>1. PICK k \in 0..ScriptRows : k = total'
      BY <1>4
    <3>2. k + 0 <= ScriptRows
      BY Bounds
    <3> QED BY <3>1, <3>2
  <2> QED BY <1>2, <2>1, <2>2 DEF Script!RowsGathered
<1>14. gathered' \in 0..BatchRows /\ begun' \in BOOLEAN
  BY <1>2, Bounds
<1> QED BY <1>1, <1>2, <1>3, <1>4, <1>9, <1>11, <1>12, <1>13, <1>14, Working

LEMMA AfterChunkItems ==
  Script!ItemInv /\ Script!EndInv' /\ Script!AfterChunk => Script!ItemInv'
<1> SUFFICES ASSUME Script!ItemInv, Script!EndInv', Script!AfterChunk PROVE Script!ItemInv'
  OBVIOUS
<1> USE DEF Script!Works, Script!stmtFrame, Script!fixed, Script!streamVars, Script!setVars, Script!Going, Script!InSet
<1>1. PICK w \in Script!Views :
           Script!Leads(Script!Now, Script!View, pipe \o out, w) /\ Script!Worker(w)
  BY Told
<1>2. /\ at = "chunk" /\ out = <<>>
      /\ UNCHANGED <<pipe, sOpen, sSent, sSets, sTold, sEnded, sSignal, err, inexact, engine, script,
                     gathered, total, begun>>
      /\ IF sSignal THEN out' = <<Script!EndItem(total)>> /\ at' = "finish"
         ELSE at' = "rows" /\ out' = out
  BY DEF Script!AfterChunk
<1>3. begun /\ engine = "sqlite"
  BY <1>2, AtWork DEF Script!RowsGathered
<1>4. ~w.ended /\ w.open /\ w.sent = total /\ ~err
  BY <1>1, <1>2, <1>3, InRows, ViewFields
<1>5. Script!RowsGathered'
  BY <1>2, <1>3, AtWork DEF Script!RowsGathered
<1>6. CASE sSignal
  <2> DEFINE x == EndSeen(w)
  <2>1. x \in Script!Views /\ Script!Leads(Script!Now', w, out', x)
    BY <1>2, <1>4, <1>6, AtWork, LeadsEnd
  <2>2. x.ended = w.ended /\ x.open = FALSE
    BY DEF EndSeen
  <2> HIDE DEF x
  <2>3. Script!Worker(x)'
    BY <1>2, <1>4, <1>6, <2>2 DEF Script!Worker
  <2>4. out' \in Seq(Script!Item)
    BY <1>2, <1>6, AtWork, Sequences, ScriptItems
  <2> QED BY <1>1, <1>2, <1>5, <2>1, <2>3, <2>4, AtWork, Working
<1>7. CASE ~sSignal
  <2>1. Script!Worker(w)'
    BY <1>1, <1>2, <1>7 DEF Script!Worker
  <2>2. out' = <<>> /\ Script!Leads(Script!Now', w, out', w)
    BY <1>2, <1>7, LeadsNowhere
  <2> QED BY <1>1, <1>2, <1>5, <2>1, <2>2, AtWork, Working, Sequences
<1> QED BY <1>6, <1>7

LEMMA LastRowItems ==
  Script!ItemInv /\ Script!EndInv' /\ Script!LastRow => Script!ItemInv'
<1> SUFFICES ASSUME Script!ItemInv, Script!EndInv', Script!LastRow PROVE Script!ItemInv'
  OBVIOUS
<1> USE DEF Script!Works, Script!stmtFrame, Script!fixed, Script!streamVars, Script!setVars, Script!Going, Script!InSet
<1>1. PICK w \in Script!Views :
           Script!Leads(Script!Now, Script!View, pipe \o out, w) /\ Script!Worker(w)
  BY Told
<1>2. /\ at = "rows" /\ out = <<>>
      /\ UNCHANGED <<pipe, sOpen, sSent, sSets, sTold, sEnded, sSignal, err, inexact, engine>>
  BY DEF Script!LastRow
<1>3. /\ ~w.ended /\ (w.open <=> begun) /\ (begun \/ (engine = "sqlite" /\ total = 0))
      /\ begun => w.sent + (IF engine = "postgres" THEN gathered ELSE 0) = total
      /\ ~begun => w.sets < MaxSets
      /\ script # <<>> /\ Head(script) = "select" /\ ~err /\ ~inexact
      /\ w.sets + Script!Count(script, "select") <= MaxSets + (IF begun THEN 1 ELSE 0)
  BY <1>1, <1>2, InRows
<1>g. PICK g \in 0..BatchRows : g = gathered
  BY AtWork
<1>4. CASE engine = "sqlite"
  <2>1. /\ out' = Script!Start \o Script!Chunk(gathered) /\ begun' = TRUE
        /\ total' = total + gathered /\ gathered' = 0 /\ at' = "last" /\ script' = script
    BY <1>4 DEF Script!LastRow, Script!RowsNow
  <2>2. total' \in 0..ScriptRows /\ gathered' \in 0..BatchRows
    BY <1>4, <2>1, AtWork, Bounds DEF Script!RowsGathered
  <2>3. Script!RowsGathered'
    <3>1. 0 < BatchRows
      BY Bounds
    <3>2. total' + 0 <= ScriptRows
      <4>1. PICK k \in 0..ScriptRows : k = total'
        BY <2>2
      <4>2. k + 0 <= ScriptRows
        BY Bounds
      <4> QED BY <4>1, <4>2
    <3> QED BY <1>2, <1>3, <1>4, <2>1, <3>1, <3>2 DEF Script!RowsGathered
  <2>4. PICK x \in Script!Views :
           /\ Script!Leads(Script!Now', w, Script!Start, x)
           /\ x.open /\ ~x.ended /\ x.told = w.told
           /\ IF begun THEN x.sent = w.sent /\ x.sets = w.sets
              ELSE x.sent = 0 /\ x.sets = w.sets + 1
    BY <1>3, LeadsMaybeStart
  <2>5. x.sent + gathered = total'
    <3>1. x.sent = total
      BY <1>3, <1>4, <2>4, AtWork, ViewFields
    <3> QED BY <2>1, <3>1
  <2> DEFINE y == RowsSeen(x, g)
  <2>6. y \in Script!Views /\ Script!Leads(Script!Now', x, Script!Chunk(g), y)
    BY <1>g, <2>2, <2>4, <2>5, LeadsRows, AtWork
  <2>7. out' \in Seq(Script!Item) /\ Script!Leads(Script!Now', w, out', y)
    <3>1. Script!Start \in Seq(Script!Item) /\ Script!Chunk(g) \in Seq(Script!Item)
      BY Sequences
    <3> HIDE DEF y
    <3> QED BY <1>g, <2>1, <2>4, <2>6, <3>1, LeadsOn
  <2>8. /\ y.open = x.open /\ y.sent = x.sent + gathered /\ y.sets = x.sets
        /\ y.told = x.told /\ y.ended = x.ended
    BY <1>g DEF RowsSeen
  <2>9. y.sets + Script!Count(script, "select") <= MaxSets + 1
    <3>1. Script!Count(script, "select") \in Nat
      BY AtWork, SelectsLeft
    <3> QED BY <1>3, <2>4, <2>8, <3>1, ViewFields, Bounds
  <2> HIDE DEF y
  <2>10. Script!Worker(y)'
    <3>1. y.sent + 0 = total'
      BY <2>5, <2>6, <2>8, ViewFields
    <3> QED BY <1>1, <1>2, <1>3, <1>4, <2>1, <2>4, <2>8, <2>9, <3>1 DEF Script!Worker
  <2> QED BY <1>1, <1>2, <2>1, <2>2, <2>3, <2>6, <2>7, <2>10, Working
<1>5. CASE engine # "sqlite"
  <2>1. /\ out' = Script!Chunk(gathered) \o <<Script!EndItem(total)>> /\ gathered' = 0
        /\ total' = total /\ begun' = begun /\ script' = Tail(script) /\ at' = "next"
    BY <1>5 DEF Script!LastRow, Script!Completed
  <2>2. w.open /\ begun /\ w.sent + gathered = total
    <3>1. engine = "duckdb" => gathered = 0
      BY AtWork DEF Script!RowsGathered
    <3> QED BY <1>3, <1>5, <3>1, AtWork
  <2> DEFINE x == RowsSeen(w, g)
             y == EndSeen(x)
  <2>3. x \in Script!Views /\ Script!Leads(Script!Now', w, Script!Chunk(g), x)
    BY <1>3, <1>g, <2>2, LeadsRows, AtWork, ViewFields
  <2>4. x.open = w.open /\ x.sent = total /\ x.ended = w.ended /\ x.sets = w.sets /\ x.told = w.told
    BY <1>g, <2>2 DEF RowsSeen
  <2>5. y \in Script!Views /\ Script!Leads(Script!Now', x, <<Script!EndItem(total)>>, y)
    <3> HIDE DEF x
    <3> QED BY <1>3, <2>2, <2>3, <2>4, LeadsEnd, AtWork
  <2>6. y.open = FALSE /\ y.ended = x.ended /\ y.sets = x.sets /\ y.told = x.told
    BY DEF EndSeen
  <2> HIDE DEF x, y
  <2>7. out' \in Seq(Script!Item) /\ Script!Leads(Script!Now', w, out', y)
    <3>1. <<Script!EndItem(total)>> \in Seq(Script!Item) /\ Script!Chunk(g) \in Seq(Script!Item)
      BY AtWork, Sequences, ScriptItems
    <3>2. out' = Script!Chunk(g) \o <<Script!EndItem(total)>>
      BY <1>g, <2>1
    <3>3. Script!Leads(Script!Now', w, Script!Chunk(g) \o <<Script!EndItem(total)>>, y)
      BY <2>3, <2>5, <3>1, LeadsOn
    <3>4. Script!Chunk(g) \o <<Script!EndItem(total)>> \in Seq(Script!Item)
      BY <3>1, ConcatProperties
    <3> QED BY <3>2, <3>3, <3>4
  <2>8. y.sets + Script!Count(script', "select") <= MaxSets
    <3>1. /\ Script!Count(script', "select") \in Nat
          /\ Script!Count(script, "select") = Script!Count(script', "select") + 1
      BY <1>3, <2>1, AtWork, SelectsLeft
    <3>2. w.sets + Script!Count(script, "select") <= MaxSets + 1
      BY <1>3, <2>2
    <3>3. PICK k \in Nat : k = Script!Count(script', "select")
      BY <3>1
    <3>4. w.sets + (k + 1) <= MaxSets + 1
      BY <3>1, <3>2, <3>3
    <3>5. w.sets + k <= MaxSets
      BY <3>4, ViewFields, Bounds
    <3> QED BY <2>4, <2>6, <3>3, <3>5
  <2>9. Script!Worker(y)'
    <3>1. (y.sets + Script!Count(script, "select"))' <= MaxSets + 0
      BY <2>8, Bounds
    <3> QED BY <1>1, <1>2, <1>3, <2>1, <2>4, <2>6, <3>1 DEF Script!Worker
  <2>10. Script!RowsGathered'
    BY <1>2, <1>3, <1>5, <2>1, AtWork, Bounds DEF Script!RowsGathered
  <2>11. gathered' \in 0..BatchRows
    BY <2>1, Bounds
  <2> QED BY <1>1, <1>2, <2>1, <2>5, <2>7, <2>9, <2>10, <2>11, AtWork, Working
<1> QED BY <1>4, <1>5

LEMMA AfterLastItems ==
  Script!ItemInv /\ Script!EndInv' /\ Script!AfterLast => Script!ItemInv'
<1> SUFFICES ASSUME Script!ItemInv, Script!EndInv', Script!AfterLast PROVE Script!ItemInv'
  OBVIOUS
<1> USE DEF Script!Works, Script!stmtFrame, Script!fixed, Script!streamVars, Script!setVars, Script!Going, Script!InSet
<1>1. PICK w \in Script!Views :
           Script!Leads(Script!Now, Script!View, pipe \o out, w) /\ Script!Worker(w)
  BY Told
<1>2. /\ at = "last" /\ out = <<>> /\ out' = <<Script!EndItem(total)>>
      /\ UNCHANGED <<pipe, sOpen, sSent, sSets, sTold, sEnded, sSignal, err, inexact, engine,
                     gathered, total, begun>>
      /\ IF sSignal THEN at' = "finish" /\ script' = script ELSE script' = Tail(script) /\ at' = "next"
  BY DEF Script!AfterLast
<1>3. begun /\ engine = "sqlite"
  BY <1>2, AtWork DEF Script!RowsGathered
<1>4. /\ ~w.ended /\ w.open /\ w.sent = total /\ ~err /\ script # <<>> /\ Head(script) = "select"
      /\ w.sets + Script!Count(script, "select") <= MaxSets + 1
  BY <1>1, <1>2, <1>3, InRows, ViewFields
<1>5. Script!RowsGathered'
  BY <1>2, <1>3, AtWork DEF Script!RowsGathered
<1> DEFINE x == EndSeen(w)
<1>6. x \in Script!Views /\ Script!Leads(Script!Now', w, out', x)
  BY <1>2, <1>4, AtWork, LeadsEnd
<1>7. x.open = FALSE /\ x.ended = w.ended /\ x.sets = w.sets
  BY DEF EndSeen
<1> HIDE DEF x
<1>8. Script!Worker(x)'
  <2>1. CASE sSignal
    BY <1>2, <1>4, <1>7, <2>1 DEF Script!Worker
  <2>2. CASE ~sSignal
    <3>1. /\ Script!Count(script', "select") \in Nat
          /\ Script!Count(script, "select") = Script!Count(script', "select") + 1
      BY <1>2, <1>4, <2>2, AtWork, SelectsLeft
    <3>2. PICK k \in Nat : k = Script!Count(script', "select")
      BY <3>1
    <3>3. w.sets + (k + 1) <= MaxSets + 1
      BY <1>4, <3>1, <3>2
    <3>4. x.sets + k <= MaxSets + 0
      BY <1>7, <3>3, ViewFields, Bounds
    <3>5. (x.sets + Script!Count(script, "select"))' <= MaxSets + 0
      BY <3>2, <3>4
    <3> QED BY <1>2, <1>4, <1>7, <2>2, <3>5 DEF Script!Worker
  <2> QED BY <2>1, <2>2
<1>9. out' \in Seq(Script!Item)
  BY <1>2, AtWork, Sequences, ScriptItems
<1> QED BY <1>1, <1>2, <1>5, <1>6, <1>8, <1>9, AtWork, Working

LEMMA ItemsOn ==
  ASSUME NEW now, NEW s \in Seq(Script!Item), NEW t \in Seq(Script!Item), NEW v, NEW w, NEW x,
         Script!Leads(now, v, s, w), Script!Leads(now, w, t, x)
  PROVE  s \o t \in Seq(Script!Item) /\ Script!Leads(now, v, s \o t, x)
<1>1. s \o t \in Seq(Script!Item)
  BY ConcatProperties
<1>2. Script!Leads(now, v, s \o t, x)
  BY LeadsOn
<1> QED BY <1>1, <1>2

\* A failed statement leaves no rows gathered.
LEMMA FailsItems ==
  Script!ItemInv /\ Script!EndInv' /\ Script!Fails => Script!ItemInv'
<1> SUFFICES ASSUME Script!ItemInv, Script!EndInv', Script!Fails PROVE Script!ItemInv'
  OBVIOUS
<1> USE DEF Script!Works, Script!stmtFrame, Script!fixed, Script!streamVars, Script!setVars, Script!Going, Script!InSet
<1>1. PICK w \in Script!Views :
           Script!Leads(Script!Now, Script!View, pipe \o out, w) /\ Script!Worker(w)
  BY Told
<1>2. /\ at \in {"run", "rows"} /\ out = <<>> /\ at' = "finish" /\ err' = TRUE
      /\ UNCHANGED <<pipe, sOpen, sSent, sSets, sTold, sEnded, sSignal, inexact, engine, script, begun>>
      /\ gathered' = 0 /\ total' = Script!RowsNow
  BY DEF Script!Fails
<1>3. total' \in 0..ScriptRows /\ gathered' \in 0..BatchRows /\ begun' \in BOOLEAN
  BY <1>2, AtWork, Bounds DEF Script!RowsNow, Script!RowsGathered
<1>4. Script!RowsGathered'
  <2>1. 0 < BatchRows
    BY Bounds
  <2>2. total' + 0 <= ScriptRows
    <3>1. PICK k \in 0..ScriptRows : k = total'
      BY <1>3
    <3>2. k + 0 <= ScriptRows
      BY Bounds
    <3> QED BY <3>1, <3>2
  <2> QED BY <1>2, <2>1, <2>2 DEF Script!RowsGathered
<1>5. ~w.ended
  BY <1>1, <1>2 DEF Script!Worker
<1>6. SUFFICES \E x \in Script!Views :
                 /\ out' \in Seq(Script!Item) /\ Script!Leads(Script!Now', w, out', x)
                 /\ x.told = TRUE /\ ~x.ended /\ (x.open => engine = "duckdb")
  <2>1. PICK x \in Script!Views : /\ out' \in Seq(Script!Item) /\ Script!Leads(Script!Now', w, out', x)
                                  /\ x.told = TRUE /\ ~x.ended /\ (x.open => engine = "duckdb")
    BY <1>6
  <2>2. Script!Worker(x)'
    BY <1>2, <2>1 DEF Script!Worker
  <2> QED BY <1>1, <1>2, <1>3, <1>4, <2>1, <2>2, Working
<1> DEFINE message == <<Script!Message(TRUE)>>
<1>m. message \in Seq(Script!Item)
  BY Sequences, ScriptItems
<1>7. ASSUME NEW v \in Script!Views, ~v.ended
      PROVE  \E x \in Script!Views : /\ Script!Leads(Script!Now', v, message, x)
                                     /\ x.open = v.open /\ x.sent = v.sent /\ x.sets = v.sets
                                     /\ x.told = TRUE /\ x.ended = v.ended
  <2>1. MessageSeen(v, TRUE) \in Script!Views /\ Script!Leads(Script!Now', v, message, MessageSeen(v, TRUE))
    BY <1>7, LeadsMessage
  <2> QED BY <2>1, ViewFields DEF MessageSeen
<1>8. CASE at = "run" \/ engine = "duckdb"
  <2>1. out' = message
    <3>1. /\ at = "run" \/ engine = "duckdb" => out' = <<Script!Message(TRUE)>>
      BY DEF Script!Fails
    <3> QED BY <1>8, <3>1
  <2>2. w.open => engine = "duckdb"
    BY <1>1, <1>8 DEF Script!Worker
  <2>3. PICK x \in Script!Views : /\ Script!Leads(Script!Now', w, message, x)
                                  /\ x.open = w.open /\ x.told = TRUE /\ x.ended = w.ended
    BY <1>5, <1>7
  <2> HIDE DEF message
  <2>4. (x.open => engine = "duckdb") /\ ~x.ended
    BY <1>5, <2>2, <2>3
  <2> QED BY <1>m, <2>1, <2>3, <2>4
<1>9. CASE at = "rows" /\ engine # "duckdb"
  <2>r. /\ ~w.ended /\ (w.open <=> begun) /\ (begun \/ (engine = "sqlite" /\ total = 0))
        /\ begun => w.sent + (IF engine = "postgres" THEN gathered ELSE 0) = total
        /\ ~begun => w.sets < MaxSets
    BY <1>1, <1>9, InRows
  <2>g. PICK g \in 0..BatchRows, r \in 0..ScriptRows : g = gathered /\ r = Script!RowsNow
    BY <1>2, <1>3, AtWork
  <2> DEFINE chunk == Script!Chunk(g)
             end == <<Script!EndItem(r)>>
             start == Script!Start
  <2>s. chunk \in Seq(Script!Item) /\ end \in Seq(Script!Item) /\ start \in Seq(Script!Item)
    BY Sequences, ScriptItems
  <2>1. CASE engine = "sqlite"
    <3>1. r = total + g
      BY <2>1, <2>g DEF Script!RowsNow
    <3>2. out' = ((message \o start) \o chunk) \o end
      BY <1>2, <1>9, <2>1, <2>g DEF Script!Fails
    <3>3. PICK u \in Script!Views : /\ Script!Leads(Script!Now', w, message, u)
                                    /\ u.open = w.open /\ u.sent = w.sent /\ u.sets = w.sets
                                    /\ u.told = TRUE /\ u.ended = w.ended
      BY <1>5, <1>7
    <3>4. PICK x \in Script!Views :
             /\ Script!Leads(Script!Now', u, start, x)
             /\ x.open /\ ~x.ended /\ x.told = u.told
             /\ IF begun THEN x.sent = u.sent /\ x.sets = u.sets
                ELSE x.sent = 0 /\ x.sets = u.sets + 1
      <4>1. ~u.ended /\ (u.open <=> begun) /\ (~begun => u.sets < MaxSets)
        BY <1>5, <2>r, <3>3
      <4> QED BY <4>1, LeadsMaybeStart
    <3>5. x.sent = total
      BY <2>r, <2>1, <3>3, <3>4, AtWork, ViewFields
    <3> DEFINE y == RowsSeen(x, g)
               z == EndSeen(y)
    <3>6. y \in Script!Views /\ Script!Leads(Script!Now', x, chunk, y)
      <4>1. x.sent + g <= ScriptRows
        BY <2>g, <3>1, <3>5
      <4> QED BY <3>4, <4>1, LeadsRows
    <3>7. y.open = x.open /\ y.sent = r /\ y.ended = x.ended /\ y.told = x.told
      BY <3>1, <3>5 DEF RowsSeen
    <3>8. z \in Script!Views /\ Script!Leads(Script!Now', y, end, z)
      <4> HIDE DEF y
      <4> QED BY <3>4, <3>6, <3>7, LeadsEnd
    <3>9. z.ended = y.ended /\ z.told = y.told /\ z.open = FALSE
      BY DEF EndSeen
    <3> HIDE DEF y, z, chunk, end, start, message
    <3>10. message \o start \in Seq(Script!Item) /\ Script!Leads(Script!Now', w, message \o start, x)
      BY <1>m, <2>s, <3>3, <3>4, ItemsOn
    <3>11. /\ (message \o start) \o chunk \in Seq(Script!Item)
           /\ Script!Leads(Script!Now', w, (message \o start) \o chunk, y)
      BY <2>s, <3>6, <3>10, ItemsOn
    <3>12. /\ ((message \o start) \o chunk) \o end \in Seq(Script!Item)
           /\ Script!Leads(Script!Now', w, ((message \o start) \o chunk) \o end, z)
      BY <2>s, <3>8, <3>11, ItemsOn
    <3>13. z.told = TRUE /\ ~z.ended /\ ~z.open
      BY <3>3, <3>4, <3>7, <3>9
    <3> QED BY <3>2, <3>8, <3>12, <3>13
  <2>2. CASE engine = "postgres"
    <3>1. r = total
      BY <2>2, <2>g, AtWork DEF Script!RowsNow
    <3>2. out' = chunk \o (end \o message)
      <4>1. out' = Script!Chunk(gathered) \o <<Script!EndItem(total), Script!Message(TRUE)>>
        BY <1>9, <2>2 DEF Script!Fails
      <4>2. end \o message = <<Script!EndItem(r), Script!Message(TRUE)>>
        BY ScriptItems, TwoItems
      <4> QED BY <2>g, <3>1, <4>1, <4>2
    <3>3. w.open /\ w.sent + g = total
      BY <2>r, <2>2, <2>g
    <3> DEFINE y == RowsSeen(w, g)
               z == EndSeen(y)
    <3>4. y \in Script!Views /\ Script!Leads(Script!Now', w, chunk, y)
      <4>1. w.sent + g <= ScriptRows
        BY <3>1, <3>3
      <4> QED BY <1>5, <3>3, <4>1, LeadsRows
    <3>5. y.open = w.open /\ y.sent = r /\ y.ended = w.ended /\ y.told = w.told
      BY <3>1, <3>3 DEF RowsSeen
    <3>6. z \in Script!Views /\ Script!Leads(Script!Now', y, end, z)
      <4> HIDE DEF y
      <4> QED BY <1>5, <3>3, <3>4, <3>5, LeadsEnd
    <3>7. z.ended = y.ended /\ z.open = FALSE
      BY DEF EndSeen
    <3>8. PICK x \in Script!Views : /\ Script!Leads(Script!Now', z, message, x)
                                    /\ x.told = TRUE /\ x.ended = z.ended /\ x.open = z.open
      BY <1>5, <1>7, <3>5, <3>6, <3>7
    <3> HIDE DEF y, z, chunk, end, start, message
    <3>9. end \o message \in Seq(Script!Item) /\ Script!Leads(Script!Now', y, end \o message, x)
      BY <1>m, <2>s, <3>6, <3>8, ItemsOn
    <3>10. /\ chunk \o (end \o message) \in Seq(Script!Item)
           /\ Script!Leads(Script!Now', w, chunk \o (end \o message), x)
      BY <2>s, <3>4, <3>9, ItemsOn
    <3>11. x.told = TRUE /\ ~x.ended /\ ~x.open
      BY <1>5, <3>5, <3>7, <3>8
    <3> QED BY <3>2, <3>10, <3>11
  <2> QED BY <1>9, <2>1, <2>2, AtWork
<1> QED BY <1>2, <1>8, <1>9

\* The end of a batch: what is said of its transaction, and Done.
LEMMA OverItems ==
  ASSUME Script!ItemInv, Script!EndInv', out = <<>>, at \in {"finish", "rollback"},
         at' = "over", out' \in Seq(Script!Item),
         UNCHANGED <<pipe, sOpen, sSent, sSets, sTold, sEnded, sSignal, err, inexact, engine, script,
                     gathered, total, begun>>,
         \/ out' = <<Script!Done(err, sSignal)>>
         \/ out' = <<Script!Message(FALSE)>> \o <<Script!Done(err, sSignal)>>
  PROVE  Script!ItemInv'
<1> USE DEF Script!Going, Script!InSet
<1>1. PICK w \in Script!Views :
           Script!Leads(Script!Now, Script!View, pipe \o out, w) /\ Script!Worker(w)
  BY Told
<1>2. ~w.ended /\ (err => w.told) /\ (w.open => engine = "duckdb" /\ err)
  BY <1>1 DEF Script!Worker
<1>3. err \in BOOLEAN /\ sSignal \in BOOLEAN
  BY AtWork
<1>4. (Script!Now').signal = sSignal /\ (Script!Now').engine = engine
  BY DEF Script!Now
<1>5. ASSUME NEW v \in Script!Views, ~v.ended, err => v.told, v.open => engine = "duckdb" /\ err
      PROVE  /\ DoneSeen(v) \in Script!Views
             /\ Script!Leads(Script!Now', v, <<Script!Done(err, sSignal)>>, DoneSeen(v))
  BY <1>3, <1>4, <1>5, LeadsDone
<1>6. PICK x \in Script!Views : Script!Leads(Script!Now', w, out', x) /\ x.ended = TRUE /\ (err => x.told)
  <2>1. CASE out' = <<Script!Done(err, sSignal)>>
    <3>1. DoneSeen(w).ended = TRUE /\ DoneSeen(w).told = w.told
      BY DEF DoneSeen
    <3> QED BY <1>2, <1>5, <2>1, <3>1
  <2>2. CASE out' = <<Script!Message(FALSE)>> \o <<Script!Done(err, sSignal)>>
    <3> DEFINE v == MessageSeen(w, FALSE)
    <3>1. v \in Script!Views /\ Script!Leads(Script!Now', w, <<Script!Message(FALSE)>>, v)
      BY <1>2, LeadsMessage
    <3>2. ~v.ended /\ (err => v.told) /\ (v.open => engine = "duckdb" /\ err)
      BY <1>2 DEF MessageSeen
    <3> HIDE DEF v
    <3>3. DoneSeen(v).ended = TRUE /\ DoneSeen(v).told = v.told
      BY DEF DoneSeen
    <3>4. /\ <<Script!Message(FALSE)>> \in Seq(Script!Item)
          /\ <<Script!Done(err, sSignal)>> \in Seq(Script!Item)
      BY <1>3, ScriptItems, Sequences
    <3>5. Script!Leads(Script!Now', w, out', DoneSeen(v))
      BY <1>5, <2>2, <3>1, <3>2, <3>4, ItemsOn
    <3> QED BY <1>5, <3>1, <3>2, <3>3, <3>5
  <2> QED BY <2>1, <2>2
<1>7. Script!Worker(x)'
  BY <1>6 DEF Script!Worker
<1>8. Script!RowsGathered'
  BY AtWork DEF Script!RowsGathered
<1> QED BY <1>1, <1>6, <1>7, <1>8, AtWork, Working

LEMMA FinishItems ==
  Script!ItemInv /\ Script!EndInv' /\ Script!Finish => Script!ItemInv'
<1> SUFFICES ASSUME Script!ItemInv, Script!EndInv', Script!Finish PROVE Script!ItemInv'
  OBVIOUS
<1> USE DEF Script!Works, Script!endFrame, Script!fixed, Script!streamVars, Script!setVars, Script!Going, Script!InSet
<1>1. /\ at = "finish" /\ out = <<>>
      /\ UNCHANGED <<pipe, sOpen, sSent, sSets, sTold, sEnded, sSignal, err, inexact, engine, script,
                     gathered, total, begun>>
      /\ \/ at' = "rollback" /\ out' = out
         \/ Script!Over(<<>>)
         \/ Script!Over(<<Script!Message(FALSE)>>)
  BY DEF Script!Finish
<1>2. /\ <<Script!Message(FALSE)>> \in Seq(Script!Item)
      /\ <<Script!Done(err, sSignal)>> \in Seq(Script!Item)
  BY AtWork, ScriptItems, Sequences
<1>3. CASE at' = "rollback" /\ out' = out
  <2>1. PICK w \in Script!Views :
             Script!Leads(Script!Now, Script!View, pipe \o out, w) /\ Script!Worker(w)
    BY Told
  <2>2. Script!Worker(w)'
    BY <1>1, <1>3, <2>1 DEF Script!Worker
  <2>3. Script!RowsGathered'
    BY <1>1, <1>3, AtWork DEF Script!RowsGathered
  <2>4. Script!Leads(Script!Now', w, out', w)
    BY <1>1, <1>3, LeadsNowhere
  <2> QED BY <1>1, <1>3, <2>1, <2>2, <2>3, <2>4, AtWork, Sequences, Working
<1>4. CASE Script!Over(<<>>)
  <2>1. out' = <<Script!Done(err, sSignal)>> /\ at' = "over"
    BY <1>2, <1>4, ConcatEmptySeq DEF Script!Over
  <2> QED BY <1>1, <1>2, <2>1, OverItems
<1>5. CASE Script!Over(<<Script!Message(FALSE)>>)
  <2>1. out' = <<Script!Message(FALSE)>> \o <<Script!Done(err, sSignal)>> /\ at' = "over"
    BY <1>5 DEF Script!Over
  <2>2. out' \in Seq(Script!Item)
    BY <1>2, <2>1, ConcatProperties
  <2> QED BY <1>1, <2>1, <2>2, OverItems
<1> QED BY <1>1, <1>3, <1>4, <1>5

LEMMA RollbackItems ==
  Script!ItemInv /\ Script!EndInv' /\ Script!Rollback => Script!ItemInv'
<1> SUFFICES ASSUME Script!ItemInv, Script!EndInv', Script!Rollback PROVE Script!ItemInv'
  OBVIOUS
<1> USE DEF Script!Works, Script!endFrame, Script!fixed, Script!streamVars, Script!setVars, Script!Going, Script!InSet
<1>1. /\ at = "rollback" /\ out = <<>>
      /\ UNCHANGED <<pipe, sOpen, sSent, sSets, sTold, sEnded, sSignal, err, inexact, engine, script,
                     gathered, total, begun>>
      /\ \/ Script!Over(<<>>)
         \/ Script!Over(<<Script!Message(FALSE)>>)
  BY DEF Script!Rollback
<1>2. /\ <<Script!Message(FALSE)>> \in Seq(Script!Item)
      /\ <<Script!Done(err, sSignal)>> \in Seq(Script!Item)
  BY AtWork, ScriptItems, Sequences
<1>3. CASE Script!Over(<<>>)
  <2>1. out' = <<Script!Done(err, sSignal)>> /\ at' = "over"
    BY <1>2, <1>3, ConcatEmptySeq DEF Script!Over
  <2> QED BY <1>1, <1>2, <2>1, OverItems
<1>4. CASE Script!Over(<<Script!Message(FALSE)>>)
  <2>1. out' = <<Script!Message(FALSE)>> \o <<Script!Done(err, sSignal)>> /\ at' = "over"
    BY <1>4 DEF Script!Over
  <2>2. out' \in Seq(Script!Item)
    BY <1>2, <2>1, ConcatProperties
  <2> QED BY <1>1, <2>1, <2>2, OverItems
<1> QED BY <1>1, <1>3, <1>4

-----------------------------------------------------------------------------
(* ScriptStream: the channel and the cancel                                *)

\* What is sent, in the channel or still with the worker, in one sequence
LEMMA Pushed ==
  ASSUME NEW I, NEW p \in Seq(I), NEW o \in Seq(I), o # <<>>
  PROVE  /\ Append(p, Head(o)) \o Tail(o) = p \o o
         /\ Append(p, Head(o)) \in Seq(I) /\ Tail(o) \in Seq(I) /\ Len(Append(p, Head(o))) = Len(p) + 1
<1>1. /\ Len(o) \in Nat /\ Len(o) # 0 /\ Len(p) \in Nat /\ Head(o) = o[1] /\ Head(o) \in I
      /\ Tail(o) \in Seq(I) /\ Len(Tail(o)) = Len(o) - 1
      /\ \A i \in 1..Len(Tail(o)) : Tail(o)[i] = o[i + 1]
  BY EmptySeq, HeadTailProperties
<1> DEFINE a == Append(p, Head(o))
<1>2. /\ a \in Seq(I) /\ Len(a) = Len(p) + 1
      /\ \A i \in 1..Len(p) : a[i] = p[i]
      /\ a[Len(p) + 1] = o[1]
  BY <1>1, AppendProperties
<1> DEFINE t == Tail(o)
<1> HIDE DEF a, t
<1>3. t \in Seq(I) /\ Len(t) = Len(o) - 1 /\ \A i \in 1..Len(t) : t[i] = o[i + 1]
  BY <1>1 DEF t
<1>4. /\ a \o t \in Seq(I) /\ Len(a \o t) = Len(p) + Len(o)
      /\ \A i \in 1..Len(a) : (a \o t)[i] = a[i]
      /\ \A i \in 1..Len(t) : (a \o t)[Len(a) + i] = t[i]
  <2>1. Len(a) + Len(t) = Len(p) + Len(o)
    BY <1>1, <1>2, <1>3
  <2>2. a \in Seq(I) /\ t \in Seq(I)
    BY <1>2, <1>3
  <2>3. /\ a \o t \in Seq(I) /\ Len(a \o t) = Len(a) + Len(t)
        /\ \A i \in 1..Len(a) : (a \o t)[i] = a[i]
        /\ \A i \in 1..Len(t) : (a \o t)[Len(a) + i] = t[i]
    BY <2>2, ConcatProperties
  <2> QED BY <2>1, <2>3
<1>5. /\ p \o o \in Seq(I) /\ Len(p \o o) = Len(p) + Len(o)
      /\ \A i \in 1..Len(p) : (p \o o)[i] = p[i]
      /\ \A i \in 1..Len(o) : (p \o o)[Len(p) + i] = o[i]
  BY ConcatProperties
<1>6. ASSUME NEW i \in 1..(Len(p) + Len(o)) PROVE (a \o t)[i] = (p \o o)[i]
  <2>1. CASE i <= Len(p)
    <3>1. i \in 1..Len(p) /\ i \in 1..Len(a)
      BY <1>1, <1>2, <2>1
    <3> QED BY <1>2, <1>4, <1>5, <3>1
  <2>2. CASE i = Len(p) + 1
    <3>1. i \in 1..Len(a) /\ 1 \in 1..Len(o) /\ i = Len(p) + 1
      BY <1>1, <1>2, <2>2
    <3> QED BY <1>2, <1>4, <1>5, <3>1
  <2>3. CASE i > Len(p) + 1
    <3>1. PICK j \in 1..Len(t) : i = Len(a) + j
      <4>1. i - (Len(p) + 1) \in 1..Len(t) /\ i = Len(a) + (i - (Len(p) + 1))
        BY <1>1, <1>2, <1>3, <2>3
      <4> QED BY <4>1
    <3>2. j + 1 \in 1..Len(o) /\ i = Len(p) + (j + 1)
      BY <1>1, <1>2, <1>3, <3>1
    <3> QED BY <1>3, <1>4, <1>5, <3>1, <3>2
  <2>4. i \in Int /\ Len(p) \in Int
    BY <1>1
  <2>5. i <= Len(p) \/ i = Len(p) + 1 \/ i > Len(p) + 1
    BY <2>4
  <2> QED BY <2>1, <2>2, <2>3, <2>5
<1>7. a \o t = p \o o
  BY <1>4, <1>5, <1>6, SeqEqual
<1> QED BY <1>1, <1>2, <1>7 DEF a, t

LEMMA Taken ==
  ASSUME NEW I, NEW p \in Seq(I), NEW o \in Seq(I), p # <<>>
  PROVE  /\ p \o o \in Seq(I) /\ p \o o # <<>>
         /\ Head(p \o o) = Head(p) /\ Tail(p \o o) = Tail(p) \o o
         /\ Tail(p) \in Seq(I) /\ Head(p) \in I
<1>1. /\ Len(p) \in Nat /\ Len(p) # 0 /\ Len(o) \in Nat /\ Head(p) = p[1] /\ Head(p) \in I
      /\ Tail(p) \in Seq(I) /\ Len(Tail(p)) = Len(p) - 1
      /\ \A i \in 1..Len(Tail(p)) : Tail(p)[i] = p[i + 1]
  BY EmptySeq, HeadTailProperties
<1> DEFINE t == Tail(p)
           c == p \o o
<1>2. /\ c \in Seq(I) /\ Len(c) = Len(p) + Len(o)
      /\ \A i \in 1..Len(p) : c[i] = p[i]
      /\ \A i \in 1..Len(o) : c[Len(p) + i] = o[i]
  BY ConcatProperties
<1>3. t \in Seq(I) /\ Len(t) = Len(p) - 1 /\ \A i \in 1..Len(t) : t[i] = p[i + 1]
  BY <1>1
<1> HIDE DEF t, c
<1>4. c # <<>> /\ Head(c) = Head(p)
  <2>1. Len(c) # 0 /\ 1 \in 1..Len(p)
    BY <1>1, <1>2
  <2>2. c # <<>>
    BY <1>2, <2>1, EmptySeq
  <2>3. Head(c) = c[1]
    BY <1>2, <2>2, HeadTailProperties
  <2> QED BY <1>1, <1>2, <2>1, <2>2, <2>3
<1>5. /\ Tail(c) \in Seq(I) /\ Len(Tail(c)) = Len(p) + Len(o) - 1
      /\ \A i \in 1..Len(Tail(c)) : Tail(c)[i] = c[i + 1]
  BY <1>1, <1>2, <1>4, HeadTailProperties
<1>6. /\ t \o o \in Seq(I) /\ Len(t \o o) = Len(p) + Len(o) - 1
      /\ \A i \in 1..Len(t) : (t \o o)[i] = t[i]
      /\ \A i \in 1..Len(o) : (t \o o)[Len(t) + i] = o[i]
  <2>1. Len(t) + Len(o) = Len(p) + Len(o) - 1
    BY <1>1, <1>3
  <2>2. t \in Seq(I)
    BY <1>3
  <2>3. /\ t \o o \in Seq(I) /\ Len(t \o o) = Len(t) + Len(o)
        /\ \A i \in 1..Len(t) : (t \o o)[i] = t[i]
        /\ \A i \in 1..Len(o) : (t \o o)[Len(t) + i] = o[i]
    BY <2>2, ConcatProperties
  <2> QED BY <2>1, <2>3
<1>7. ASSUME NEW i \in 1..(Len(p) + Len(o) - 1) PROVE Tail(c)[i] = (t \o o)[i]
  <2>0. Tail(c)[i] = c[i + 1]
    BY <1>5
  <2>1. CASE i <= Len(t)
    <3>1. i \in 1..Len(t) /\ i + 1 \in 1..Len(p)
      BY <1>1, <1>3, <2>1
    <3> QED BY <1>2, <1>3, <1>6, <2>0, <3>1
  <2>2. CASE i > Len(t)
    <3>1. PICK j \in 1..Len(o) : i = Len(t) + j
      <4>1. i - Len(t) \in 1..Len(o) /\ i = Len(t) + (i - Len(t))
        BY <1>1, <1>3, <2>2
      <4> QED BY <4>1
    <3>2. i + 1 = Len(p) + j
      BY <1>1, <1>3, <3>1
    <3> QED BY <1>2, <1>6, <2>0, <3>1, <3>2
  <2>3. i \in Int /\ Len(t) \in Int
    BY <1>1, <1>3
  <2>4. i <= Len(t) \/ i > Len(t)
    BY <2>3
  <2> QED BY <2>1, <2>2, <2>4
<1>8. Tail(c) = t \o o
  BY <1>5, <1>6, <1>7, SeqEqual
<1> QED BY <1>1, <1>2, <1>4, <1>8 DEF t, c

\* Only the reader sees another view; the rest goes by what the worker did.
LEMMA PushItems ==
  Script!ItemInv /\ Script!EndInv' /\ Script!Push => Script!ItemInv'
<1> SUFFICES ASSUME Script!ItemInv, Script!EndInv', Script!Push PROVE Script!ItemInv'
  OBVIOUS
<1> USE DEF Script!fixed, Script!streamVars, Script!setVars, Script!cancelVars, Script!txVars
<1>1. PICK w \in Script!Views :
           Script!Leads(Script!Now, Script!View, pipe \o out, w) /\ Script!Worker(w)
  BY Told
<1>2. /\ out # <<>> /\ Len(pipe) < PipeRoom
      /\ pipe' = Append(pipe, Head(out)) /\ out' = Tail(out)
      /\ UNCHANGED <<engine, script, at, gathered, total, begun, err, inexact,
                     sOpen, sSent, sSets, sTold, sEnded, sSignal>>
  BY DEF Script!Push
<1>3. pipe \in Seq(Script!Item) /\ out \in Seq(Script!Item)
  BY DEF Script!ItemInv, Script!TypeOK
<1>4. /\ pipe' \o out' = pipe \o out /\ pipe' \in Seq(Script!Item) /\ out' \in Seq(Script!Item)
      /\ Len(pipe') = Len(pipe) + 1
  BY <1>2, <1>3, Pushed
<1>5. Len(pipe') <= PipeRoom
  BY <1>2, <1>3, <1>4, Bounds
<1>6. Script!TypeOK'
  BY <1>2, <1>4, <1>5 DEF Script!ItemInv, Script!TypeOK, Script!EndInv, Script!S!StreamTypeOK
<1>7. Script!RowsGathered'
  BY <1>2, AtWork DEF Script!RowsGathered, Script!Going, Script!InSet
<1>8. Script!Worker(w)'
  BY <1>1, <1>2 DEF Script!Worker, Script!Going, Script!InSet
<1>9. Script!Leads(Script!Now', Script!View', pipe' \o out', w)
  <2>1. Script!Now' = Script!Now /\ Script!View' = Script!View
    BY <1>2 DEF Script!Now, Script!View
  <2> QED BY <1>1, <1>4, <2>1
<1>10. \E y \in Script!Views : Script!Leads(Script!Now', Script!View', pipe' \o out', y) /\ Script!Worker(y)'
  BY <1>1, <1>8, <1>9
<1> QED BY <1>6, <1>7, <1>10 DEF Script!ItemInv, Script!Views

\* The item that is handed out fits, and the reader's view is the one after it.
LEMMA DeliverFits ==
  ASSUME Script!ItemInv, Script!Deliver
  PROVE  /\ Head(pipe) \in Script!Item
         /\ Script!View \in Script!Views
         /\ Script!Fits(Script!Now, Script!View, Head(pipe))
         /\ Script!View' = Script!After(Script!View, Head(pipe))
         /\ Script!View' \in Script!Views
<1>1. pipe # <<>> /\ pipe \in Seq(Script!Item) /\ out \in Seq(Script!Item)
  BY DEF Script!ItemInv, Script!TypeOK, Script!Deliver
<1>2. PICK w \in Script!Views : Script!Leads(Script!Now, Script!View, pipe \o out, w)
  BY Told
<1>3. /\ Head(pipe) \in Script!Item
      /\ pipe \o out \in Seq(Script!Item) /\ pipe \o out # <<>> /\ Head(pipe \o out) = Head(pipe)
  BY <1>1, Taken
<1>4. Script!Fits(Script!Now, Script!View, Head(pipe))
  BY <1>2, <1>3, LeadsFirst
<1>5. Script!View \in Script!Views
  BY DEF Script!View, Script!Views, Script!ItemInv, Script!TypeOK, Script!S!StreamTypeOK
<1>6. sSets \in Nat
  BY Bounds DEF Script!ItemInv, Script!TypeOK, Script!S!StreamTypeOK
<1>7. Script!View' = Script!After(Script!View, Head(pipe))
  <2> DEFINE it == Head(pipe)
  <2>1. /\ sOpen' = (it.item = "ResultSetStart" \/ (sOpen /\ ~(it.item = "ResultSetEnd")))
        /\ sSets' = (IF it.item = "ResultSetStart" THEN sSets + 1 ELSE sSets)
        /\ sSent' = (IF it.item = "ResultSetStart" THEN 0
                     ELSE IF it.item = "Rows" THEN sSent + it.n ELSE sSent)
        /\ sTold' = (sTold \/ it = Script!Message(TRUE))
        /\ sEnded' = (sEnded \/ it.item = "Done")
    BY DEF Script!Deliver
  <2> HIDE DEF it
  <2>2. sSets' = sSets + (IF it.item = "ResultSetStart" THEN 1 ELSE 0)
    BY <1>6, <2>1
  <2>3. sSent' = CASE it.item = "ResultSetStart" -> 0
                   [] it.item = "Rows" -> sSent + it.n
                   [] OTHER -> sSent
    BY <2>1
  <2> QED BY <2>1, <2>2, <2>3 DEF Script!View, Script!After, it
<1> QED BY <1>3, <1>4, <1>5, <1>7, AfterType

LEMMA DeliverItems ==
  Script!ItemInv /\ Script!EndInv' /\ Script!Deliver => Script!ItemInv'
<1> SUFFICES ASSUME Script!ItemInv, Script!EndInv', Script!Deliver PROVE Script!ItemInv'
  OBVIOUS
<1> USE DEF Script!fixed, Script!streamVars, Script!setVars, Script!cancelVars, Script!txVars
<1>1. PICK w \in Script!Views :
           Script!Leads(Script!Now, Script!View, pipe \o out, w) /\ Script!Worker(w)
  BY Told
<1>2. /\ pipe # <<>> /\ pipe' = Tail(pipe)
      /\ UNCHANGED <<out, engine, script, at, gathered, total, begun, err, inexact, sSignal>>
  BY DEF Script!Deliver
<1>3. pipe \in Seq(Script!Item) /\ out \in Seq(Script!Item) /\ Len(pipe) \in Nat /\ Len(pipe) <= PipeRoom
  BY DEF Script!ItemInv, Script!TypeOK
<1>4. /\ pipe \o out \in Seq(Script!Item) /\ pipe \o out # <<>> /\ Head(pipe \o out) = Head(pipe)
      /\ Tail(pipe \o out) = pipe' \o out'
      /\ pipe' \in Seq(Script!Item)
  BY <1>2, <1>3, Taken
<1>5. Len(pipe') <= PipeRoom
  <2>1. Len(pipe') = Len(pipe) - 1
    BY <1>2, <1>3, HeadTailProperties
  <2> QED BY <1>3, <2>1, Bounds
<1>6. /\ Script!View' = Script!After(Script!View, Head(pipe))
      /\ Script!View' \in Script!Views
  BY DeliverFits
<1>7. Script!S!StreamTypeOK'
  <2>1. Script!View' = [open |-> sOpen', sent |-> sSent', sets |-> sSets', told |-> sTold', ended |-> sEnded']
    BY DEF Script!View
  <2>2. /\ (Script!View').open = sOpen' /\ (Script!View').sent = sSent' /\ (Script!View').sets = sSets'
        /\ (Script!View').told = sTold' /\ (Script!View').ended = sEnded'
    BY <2>1
  <2>3. sOpen' \in BOOLEAN /\ sSent' \in 0..ScriptRows /\ sSets' \in 0..MaxSets /\ sTold' \in BOOLEAN /\ sEnded' \in BOOLEAN
    BY <1>6, <2>2, ViewFields
  <2>4. sSignal' \in BOOLEAN
    BY <1>2, AtWork
  <2> QED BY <2>3, <2>4 DEF Script!S!StreamTypeOK
<1>8. Script!TypeOK'
  BY <1>2, <1>4, <1>5, <1>7 DEF Script!ItemInv, Script!TypeOK, Script!EndInv
<1>9. Script!RowsGathered'
  BY <1>2, AtWork DEF Script!RowsGathered, Script!Going, Script!InSet
<1>10. Script!Worker(w)'
  BY <1>1, <1>2 DEF Script!Worker, Script!Going, Script!InSet
<1>11. Script!Leads(Script!Now', Script!View', pipe' \o out', w)
  <2>1. Script!Now' = Script!Now
    BY <1>2 DEF Script!Now
  <2>2. Script!Leads(Script!Now, Script!After(Script!View, Head(pipe \o out)), Tail(pipe \o out), w)
    BY <1>1, <1>4, LeadsFirst
  <2> QED BY <1>4, <1>6, <2>1, <2>2
<1>12. \E y \in Script!Views : Script!Leads(Script!Now', Script!View', pipe' \o out', y) /\ Script!Worker(y)'
  BY <1>1, <1>10, <1>11
<1> QED BY <1>8, <1>9, <1>12 DEF Script!ItemInv, Script!Views

\* A cancel only adds to what items may say.
LEMMA CancelItems ==
  Script!ItemInv /\ Script!EndInv' /\ (Script!Cancel \/ Script!TokenArrives \/ UNCHANGED batches)
    => Script!ItemInv'
<1> SUFFICES ASSUME Script!ItemInv, Script!EndInv', Script!Cancel \/ Script!TokenArrives \/ UNCHANGED batches
             PROVE  Script!ItemInv'
  OBVIOUS
<1> USE DEF Script!fixed, Script!streamVars, Script!setVars, Script!cancelVars, Script!txVars
<1>1. PICK w \in Script!Views :
           Script!Leads(Script!Now, Script!View, pipe \o out, w) /\ Script!Worker(w)
  BY Told
<1>2. /\ sSignal => sSignal'
      /\ UNCHANGED <<out, pipe, engine, script, at, gathered, total, begun, err, inexact,
                     sOpen, sSent, sSets, sTold, sEnded>>
  <2>1. CASE Script!Cancel
    BY <2>1 DEF Script!Cancel, Script!S!Cancel
  <2>2. CASE Script!TokenArrives
    BY <2>2 DEF Script!TokenArrives
  <2>3. CASE UNCHANGED batches
    BY <2>3 DEF batches
  <2> QED BY <2>1, <2>2, <2>3
<1>3. Script!TypeOK'
  BY <1>2 DEF Script!ItemInv, Script!TypeOK, Script!EndInv, Script!BatchTypeOK, Script!S!StreamTypeOK
<1>4. Script!RowsGathered'
  BY <1>2, AtWork DEF Script!RowsGathered, Script!Going, Script!InSet
<1>5. Script!Worker(w)'
  BY <1>1, <1>2 DEF Script!Worker, Script!Going, Script!InSet
<1>6. Script!Leads(Script!Now', Script!View', pipe' \o out', w)
  <2>1. Script!View' = Script!View
    BY <1>2 DEF Script!View
  <2>2. /\ (Script!Now).signal => (Script!Now').signal
        /\ (Script!Now).inexact => (Script!Now').inexact
        /\ (Script!Now).engine = (Script!Now').engine
    BY <1>2 DEF Script!Now
  <2> HIDE DEF Script!Now
  <2>3. Script!Leads(Script!Now', Script!View, pipe \o out, w)
    BY <1>1, <2>2, LeadsStill
  <2> QED BY <1>2, <2>1, <2>3
<1>7. \E y \in Script!Views : Script!Leads(Script!Now', Script!View', pipe' \o out', y) /\ Script!Worker(y)'
  BY <1>1, <1>5, <1>6
<1> QED BY <1>3, <1>4, <1>7 DEF Script!ItemInv, Script!Views

-----------------------------------------------------------------------------
LEMMA ItemStep == Script!ItemInv /\ [Script!Next]_batches => Script!ItemInv'
<1> SUFFICES ASSUME Script!ItemInv, [Script!Next]_batches PROVE Script!ItemInv'
  OBVIOUS
<1>1. Script!EndInv'
  BY EndStep DEF Script!ItemInv
<1>2. CASE UNCHANGED batches
  BY <1>1, <1>2, CancelItems
<1>3. CASE Script!Push \/ Script!Deliver \/ Script!Cancel \/ Script!TokenArrives
  BY <1>1, <1>3, PushItems, DeliverItems, CancelItems
<1>4. CASE Script!Starts \/ Script!EndOfScript \/ Script!Executes \/ Script!Selects \/ Script!Fails
           \/ Script!Finish \/ Script!Rollback
  BY <1>1, <1>4, StartsItems, ExecutesItems, SelectsItems, FailsItems, FinishItems, RollbackItems
<1>5. CASE Script!Row \/ Script!DuckChunk \/ Script!Misfit \/ Script!AfterChunk \/ Script!LastRow
           \/ Script!AfterLast
  BY <1>1, <1>5, RowItems, DuckItems, MisfitItems, AfterChunkItems, LastRowItems, AfterLastItems
<1> QED BY <1>2, <1>3, <1>4, <1>5 DEF Script!Next

LEMMA ItemInit == Init => Script!ItemInv
<1> SUFFICES ASSUME Init PROVE Script!ItemInv
  OBVIOUS
<1>1. /\ at = "next" /\ gathered = 0 /\ total = 0 /\ begun = FALSE /\ out = <<>> /\ pipe = <<>>
      /\ err = FALSE /\ inexact = FALSE /\ script \in Scripts
      /\ sOpen = FALSE /\ sTold = FALSE /\ sEnded = FALSE /\ sSignal = FALSE /\ sSent = 0 /\ sSets = 0
  BY DEF Init, Script!Init, Script!S!Fresh
<1>2. Script!EndInv
  BY EndInit DEF Init
<1>3. Script!View \in Script!Views
  <2>1. Script!View = [open |-> FALSE, sent |-> 0, sets |-> 0, told |-> FALSE, ended |-> FALSE]
    BY <1>1 DEF Script!View
  <2>2. 0 \in 0..ScriptRows /\ 0 \in 0..MaxSets
    BY Bounds
  <2> QED BY <2>1, <2>2 DEF Script!Views
<1>4. Script!TypeOK
  <2>1. <<>> \in Seq(Script!Item) /\ Len(pipe) = 0
    BY <1>1
  <2>2. 0 \in 0..BatchRows /\ 0 \in 0..ScriptRows /\ 0 \in 0..MaxSets /\ 0 <= PipeRoom
    BY Bounds
  <2>3. Script!S!StreamTypeOK
    BY <1>1, <2>2 DEF Script!S!StreamTypeOK
  <2> QED BY <1>1, <1>2, <2>1, <2>2, <2>3 DEF Script!TypeOK, Script!EndInv
<1>5. Script!RowsGathered
  BY <1>1, Bounds DEF Script!RowsGathered, Script!Going, Script!InSet
<1>6. Script!Count(script, "select") <= MaxSets
  BY <1>1, StreamConstants DEF Script!Count, Script!Cardinality, Cardinality
<1>7. Script!Worker(Script!View)
  <2> DEFINE v == Script!View
  <2>1. v.open = FALSE /\ v.told = FALSE /\ v.ended = FALSE /\ v.sets = 0
    BY <1>1 DEF Script!View
  <2>2. Script!Count(script, "select") \in Nat
    BY <1>2, SelectsLeft DEF Script!EndInv
  <2>3. PICK k \in Nat : k = Script!Count(script, "select")
    BY <2>2
  <2>4. v.sets + k <= MaxSets + 0
    BY <1>6, <2>1, <2>3, Bounds
  <2> HIDE DEF v
  <2>5. Script!Worker(v)
    BY <1>1, <2>1, <2>3, <2>4 DEF Script!Worker, Script!Going, Script!InSet
  <2> QED BY <2>5 DEF v
<1>8. Script!Leads(Script!Now, Script!View, pipe \o out, Script!View)
  <2>1. pipe \o out = <<>>
    BY <1>1
  <2> QED BY <1>3, <2>1, LeadsNowhere
<1> QED BY <1>2, <1>3, <1>4, <1>5, <1>7, <1>8 DEF Script!ItemInv

LEMMA ItemInductive == Spec => []Script!ItemInv
<1>1. Script!ItemInv /\ [Next]_allVars => Script!ItemInv'
  <2>1. [Next]_allVars => [Script!Next]_batches
    BY DEF Next, MssqlSteps, ScriptSteps, ExportSteps, LoopSteps, allVars
  <2> QED BY <2>1, ItemStep
<1> QED BY <1>1, ItemInit, PTL DEF Spec

-----------------------------------------------------------------------------
(* ScriptStream implements ItemStream                                      *)

LEMMA ScriptDeliverAllowed ==
  ASSUME Script!ItemInv, Script!Deliver
  PROVE  Script!Allowed(Head(pipe)) /\ Script!S!StreamNext
<1> DEFINE it == Head(pipe)
<1>1. /\ it \in Script!Item /\ Script!View \in Script!Views
      /\ Script!Fits(Script!Now, Script!View, it)
  BY DeliverFits
<1>2. /\ sOpen' = (it.item = "ResultSetStart" \/ (sOpen /\ ~(it.item = "ResultSetEnd")))
      /\ sSets' = (IF it.item = "ResultSetStart" THEN sSets + 1 ELSE sSets)
      /\ sSent' = (IF it.item = "ResultSetStart" THEN 0
                   ELSE IF it.item = "Rows" THEN sSent + it.n ELSE sSent)
      /\ sTold' = (sTold \/ it = Script!Message(TRUE))
      /\ sEnded' = (sEnded \/ it.item = "Done")
      /\ UNCHANGED sSignal
  BY DEF Script!Deliver
<1>3. /\ sOpen \in BOOLEAN /\ sTold \in BOOLEAN /\ sSent \in 0..ScriptRows /\ sEnded \in BOOLEAN
  BY DEF Script!ItemInv, Script!TypeOK, Script!S!StreamTypeOK
<1>4. /\ (Script!View).open = sOpen /\ (Script!View).sent = sSent /\ (Script!View).sets = sSets
      /\ (Script!View).told = sTold /\ (Script!View).ended = sEnded
      /\ (Script!Now).signal = sSignal /\ (Script!Now).inexact = inexact /\ (Script!Now).engine = engine
  BY DEF Script!View, Script!Now
<1>5. /\ ~sEnded
      /\ it.item = "ResultSetStart" => ~sOpen /\ sSets < MaxSets
      /\ it.item = "Rows" => sOpen /\ sSent + it.n <= ScriptRows
      /\ it.item = "ResultSetEnd" => sOpen /\ (it.n = sSent \/ inexact)
      /\ it.item = "RowsAffected" => ~sOpen
      /\ it.item = "Done" => /\ (it.error => sTold) /\ (it.cancelled => sSignal)
                             /\ sOpen => engine = "duckdb" /\ it.error
  BY <1>1, <1>4 DEF Script!Fits
<1>6. /\ it.item \in {"ResultSetStart", "RowsAffected", "Rows", "ResultSetEnd", "Message", "Done"}
      /\ it.item = "Rows" => it.n \in 1..BatchRows
      /\ it.item = "Message" => it.isError \in BOOLEAN
      /\ it.item = "Done" => it.error \in BOOLEAN /\ it.cancelled \in BOOLEAN
  BY <1>1, ScriptItemKinds DEF Script!StartItem, Script!Affected, Script!RowsItem, Script!EndItem,
     Script!Message, Script!Done
<1>7. it.item = "Message" => (it = Script!Message(TRUE) <=> it.isError)
  <2>1. it.item = "Message" => it = Script!Message(TRUE) \/ it = Script!Message(FALSE)
    BY <1>1, ScriptItemKinds DEF Script!StartItem, Script!Affected, Script!RowsItem, Script!EndItem,
       Script!Message, Script!Done
  <2> QED BY <2>1 DEF Script!Message
<1>8. it.item # "Message" => it # Script!Message(TRUE)
  BY DEF Script!Message
<1> HIDE DEF it
<1>9. CASE it.item = "ResultSetStart"
  <2>1. Script!S!ResultSetStart
    BY <1>2, <1>3, <1>5, <1>8, <1>9 DEF Script!S!ResultSetStart
  <2> QED BY <1>9, <2>1 DEF Script!Allowed, Script!S!StreamNext, it
<1>10. CASE it.item = "Rows"
  <2>1. Script!S!Rows(it.n)
    BY <1>2, <1>3, <1>5, <1>8, <1>10 DEF Script!S!Rows
  <2> QED BY <1>6, <1>10, <2>1 DEF Script!Allowed, Script!S!StreamNext, it
<1>11. CASE it.item = "ResultSetEnd"
  <2>1. Script!S!ResultSetEnd(sSent)
    BY <1>2, <1>3, <1>5, <1>8, <1>11 DEF Script!S!ResultSetEnd
  <2> QED BY <1>3, <1>5, <1>11, <2>1 DEF Script!Allowed, Script!S!StreamNext, it
<1>12. CASE it.item = "RowsAffected"
  <2>1. Script!S!RowsAffected
    BY <1>2, <1>3, <1>5, <1>8, <1>12 DEF Script!S!RowsAffected, Script!S!streamVars
  <2> QED BY <1>12, <2>1 DEF Script!Allowed, Script!S!StreamNext, it
<1>13. CASE it.item = "Message"
  <2>1. Script!S!Message(it.isError)
    BY <1>2, <1>3, <1>5, <1>6, <1>7, <1>13 DEF Script!S!Message
  <2> QED BY <1>6, <1>13, <2>1 DEF Script!Allowed, Script!S!StreamNext, it
<1>14. CASE it.item = "Done"
  <2>1. Script!S!Done(it.error, it.cancelled)
    BY <1>2, <1>3, <1>5, <1>8, <1>14 DEF Script!S!Done
  <2> QED BY <1>5, <1>6, <1>14, <2>1 DEF Script!Allowed, Script!S!StreamNext, it
<1> QED BY <1>6, <1>9, <1>10, <1>11, <1>12, <1>13, <1>14

\* Every step of a driver is a step of ItemStream, or none of its variables'.
LEMMA ScriptStepsAsItems ==
  ASSUME Script!ItemInv, [Script!Next]_batches
  PROVE  /\ [Script!S!StreamNext]_(Script!S!streamVars)
         /\ pipe # <<>> /\ Len(pipe') < Len(pipe) => Script!Allowed(Head(pipe))
<1> USE DEF Script!fixed, Script!streamVars, Script!setVars, Script!cancelVars, Script!txVars, Script!stmtFrame,
            Script!endFrame
<1>1. CASE Script!Deliver
  BY <1>1, ScriptDeliverAllowed
<1>2. pipe \in Seq(Script!Item) /\ out \in Seq(Script!Item) /\ Len(pipe) \in Nat
  BY DEF Script!ItemInv, Script!TypeOK
<1>3. CASE Script!Push
  <2>1. Len(pipe') = Len(pipe) + 1
    <3>1. pipe' = Append(pipe, Head(out)) /\ out # <<>>
      BY <1>3 DEF Script!Push
    <3> QED BY <1>2, <3>1, Pushed
  <2>2. UNCHANGED <<sOpen, sSent, sSets, sTold, sEnded, sSignal>>
    BY <1>3 DEF Script!Push
  <2> QED BY <1>2, <2>1, <2>2 DEF Script!S!streamVars
<1>4. CASE Script!Cancel
  <2>1. pipe' = pipe /\ Script!S!Cancel
    BY <1>4 DEF Script!Cancel
  <2> QED BY <1>2, <2>1 DEF Script!S!StreamNext
<1>5. ASSUME UNCHANGED <<pipe, sOpen, sSent, sSets, sTold, sEnded, sSignal>>
      PROVE  /\ [Script!S!StreamNext]_(Script!S!streamVars)
             /\ pipe # <<>> /\ Len(pipe') < Len(pipe) => Script!Allowed(Head(pipe))
  BY <1>2, <1>5 DEF Script!S!streamVars
<1>6. CASE Script!TokenArrives \/ Script!Starts \/ Script!EndOfScript \/ Script!Executes \/ Script!Selects \/ Script!Fails
  <2>1. UNCHANGED <<pipe, sOpen, sSent, sSets, sTold, sEnded, sSignal>>
    BY <1>6 DEF Script!TokenArrives, Script!Starts, Script!EndOfScript, Script!Executes, Script!Selects, Script!Fails
  <2> QED BY <1>5, <2>1
<1>7. CASE Script!Row \/ Script!DuckChunk \/ Script!Misfit \/ Script!AfterChunk \/ Script!LastRow \/ Script!AfterLast
  <2>1. UNCHANGED <<pipe, sOpen, sSent, sSets, sTold, sEnded, sSignal>>
    BY <1>7 DEF Script!Row, Script!DuckChunk, Script!Misfit, Script!AfterChunk, Script!LastRow, Script!AfterLast
  <2> QED BY <1>5, <2>1
<1>8. CASE Script!Finish \/ Script!Rollback
  <2>1. UNCHANGED <<pipe, sOpen, sSent, sSets, sTold, sEnded, sSignal>>
    BY <1>8 DEF Script!Finish, Script!Rollback
  <2> QED BY <1>5, <2>1
<1>9. CASE UNCHANGED batches
  <2>1. UNCHANGED <<pipe, sOpen, sSent, sSets, sTold, sEnded, sSignal>>
    BY <1>9 DEF batches
  <2> QED BY <1>5, <2>1
<1> QED BY <1>1, <1>3, <1>4, <1>6, <1>7, <1>8, <1>9 DEF Script!Next

\* The SQLite, PostgreSQL and DuckDB streams hand out what ItemStream describes, and
\* end inside a set only when a DuckDB batch failed there.
LEMMA ScriptImplementsItemStream == Spec => Script!ScriptInOrder
<1>1. Init => Script!S!Fresh
  BY DEF Init, Script!Init
<1>2. Script!ItemInv /\ [Next]_allVars
        => /\ [Script!S!StreamNext]_(Script!S!streamVars)
           /\ [pipe # <<>> /\ Len(pipe') < Len(pipe) => Script!Allowed(Head(pipe))]_(Script!vars)
  <2> SUFFICES ASSUME Script!ItemInv, [Next]_allVars
               PROVE  /\ [Script!S!StreamNext]_(Script!S!streamVars)
                      /\ [pipe # <<>> /\ Len(pipe') < Len(pipe) => Script!Allowed(Head(pipe))]_(Script!vars)
    OBVIOUS
  <2>1. [Script!Next]_batches
    BY DEF Next, MssqlSteps, ScriptSteps, ExportSteps, LoopSteps, allVars
  <2> QED BY <2>1, ScriptStepsAsItems
<1> QED BY <1>1, <1>2, ItemInductive, PTL DEF Spec, Script!ScriptInOrder, Script!S!StreamSpec

\* The drivers' streams hand out what ItemStream describes: the items in the
\* documented order (a set without its end only when a DuckDB batch failed inside
\* it), every set with the rows it says, an error in Done only when it was told
\* before, and `cancelled` only for a cancel (lib.rs:30); on SQL Server never both.
THEOREM StreamsInOrder == Spec => ItemsInOrder
BY MssqlImplementsItemStream, ScriptImplementsItemStream DEF ItemsInOrder

-----------------------------------------------------------------------------
(* The types of all of them                                                *)

\* Every variable keeps its type, and the channels between the drivers' workers,
\* the run loop and the export's writer stay within their capacity.
THEOREM StreamTypes == Spec => []TypeOK
<1>1. Mssql!IInv /\ Script!ItemInv /\ Export!IInv /\ Loop!IInv => TypeOK
  BY DEF Mssql!IInv, Script!ItemInv, Export!IInv, Loop!IInv, TypeOK
<1> QED BY <1>1, MssqlInductive, ItemInductive, ExportInductive, LoopInductive, PTL
=============================================================================
