---------------------------- MODULE StoreProofs ----------------------------
(* Theorems about what is kept between sessions, for every value of the     *)
(* constants: the tokens of a profile, the snapshots of the tabs and the    *)
(* runtimes the installer has put on disk; and about the memory the result  *)
(* sets of all tabs share.                                                  *)
EXTENDS RunProofs, WellFoundedInduction

-----------------------------------------------------------------------------
(* AuthTokens                                                              *)

LEMMA NoToken == Auth!Nothing \in Auth!Tokens /\ ~Auth!Nothing.valid /\ Auth!Nothing.account = NoAccount
BY DEF Auth!Nothing, Auth!Tokens

LEMMA AuthInitInv == Auth!Init => Auth!IInv
<1> SUFFICES ASSUME Auth!Init PROVE Auth!IInv
  OBVIOUS
<1>1. settled \in BOOLEAN /\ ~settled
  BY Zenon DEF Auth!Init
<1>2. Auth!TypeOK
  BY <1>1, NoToken DEF Auth!Init, Auth!TypeOK
<1>3. Auth!SignedOut /\ Auth!SignOutSticks
  BY <1>1 DEF Auth!Init, Auth!SignedOut, Auth!SignOutSticks
<1> QED BY <1>2, <1>3 DEF Auth!IInv

LEMMA AuthStepInv == Auth!IInv /\ Auth!Next => Auth!IInv'
<1> SUFFICES ASSUME Auth!IInv, Auth!Next PROVE Auth!IInv'
  OBVIOUS
<1> USE DEF Auth!IInv, Auth!TypeOK, Auth!SignedOut, Auth!SignOutSticks, Auth!Nothing, Auth!Tokens,
            Auth!UnderWay, Auth!Goto, Auth!reqVars
<1>1. ASSUME NEW q \in Requests, Auth!Begin(q) PROVE Auth!IInv'
  BY <1>1 DEF Auth!Begin
<1>2. ASSUME NEW q \in Requests, Auth!Look(q) PROVE Auth!IInv'
  BY <1>2 DEF Auth!Look
<1>3. ASSUME NEW q \in Requests, Auth!ReadSecret(q) PROVE Auth!IInv'
  BY <1>3 DEF Auth!ReadSecret
<1>4. ASSUME NEW q \in Requests, Auth!Refreshed(q) PROVE Auth!IInv'
  <2>1. /\ step[q] = "refresh"
        /\ \/ step' = [step EXCEPT ![q] = "store"] /\ cache' = cache
           \/ step' = [step EXCEPT ![q] = "over"] /\ cache' = cache
           \/ step' = [step EXCEPT ![q] = "browser"] /\ cache' = [cache EXCEPT ![resource[q]] = Auth!Nothing]
        /\ UNCHANGED <<secret, way, resource, held, seen, out, settled>>
    BY <1>4 DEF Auth!Refreshed
  <2>2. cache' \in [Resources -> Auth!Tokens]
    <3>1. cache \in [Resources -> Auth!Tokens] /\ resource[q] \in Resources /\ Auth!Nothing \in Auth!Tokens
      BY NoToken
    <3>2. [cache EXCEPT ![resource[q]] = Auth!Nothing] \in [Resources -> Auth!Tokens]
      BY <3>1, Zenon
    <3> QED BY <2>1, <3>1, <3>2
  <2>3. out # "half" /\ ~settled
    BY <2>1
  <2> QED BY <2>1, <2>2, <2>3
<1>5. ASSUME NEW q \in Requests, Auth!SignsIn(q) PROVE Auth!IInv'
  <2>1. CASE step' = [step EXCEPT ![q] = "over"] /\ UNCHANGED <<held, cache, settled>>
    BY <1>5, <2>1 DEF Auth!SignsIn
  <2>2. CASE /\ \E a \in Accounts : held' = [held EXCEPT ![q] = a]
             /\ step' = [step EXCEPT ![q] = "store"] /\ settled' = FALSE
             /\ cache' = (IF way[q] = "again" THEN [r \in Resources |-> Auth!Nothing] ELSE cache)
    <3>1. settled' \in BOOLEAN /\ ~settled'
      BY <2>2, Zenon
    <3>2. cache' \in [Resources -> Auth!Tokens]
      BY <2>2, NoToken
    <3>3. /\ step[q] = "browser" /\ UNCHANGED <<secret, way, resource, seen, out>>
      BY <1>5 DEF Auth!SignsIn
    <3> QED BY <2>2, <3>1, <3>2, <3>3
  <2> QED BY <1>5, <2>1, <2>2 DEF Auth!SignsIn
<1>6. ASSUME NEW q \in Requests, Auth!Store(q) PROVE Auth!IInv'
  BY <1>6 DEF Auth!Store
<1>7. ASSUME NEW q \in Requests, Auth!Keep(q) PROVE Auth!IInv'
  BY <1>7 DEF Auth!Keep
<1>8. ASSUME NEW r \in Resources, Auth!Expires(r) PROVE Auth!IInv'
  <2>1. /\ cache[r].valid /\ cache' = [cache EXCEPT ![r].valid = FALSE]
        /\ UNCHANGED <<secret, step, way, resource, held, seen, out, settled>>
    BY <1>8 DEF Auth!Expires
  <2>2. cache' \in [Resources -> Auth!Tokens]
    <3>1. [cache[r] EXCEPT !.valid = FALSE] \in Auth!Tokens
      BY Zenon
    <3> QED BY <2>1, <3>1
  <2>3. cache[r] # Auth!Nothing
    BY <2>1, NoToken
  <2> QED BY <2>1, <2>2, <2>3
<1>9. ASSUME NEW r \in Resources, Auth!ForgetResource(r) PROVE Auth!IInv'
  BY <1>9 DEF Auth!ForgetResource
<1>10. CASE Auth!ForgetCache
  BY <1>10 DEF Auth!ForgetCache, Auth!SignsOut
<1>11. CASE Auth!ForgetSecret
  <2>1. /\ out \in {"half", "met"} /\ out' = "done" /\ secret' \in {NoAccount, secret}
        /\ settled' \in {settled, out = "half"} /\ (out = "half" /\ settled' => secret' = NoAccount \/ settled)
        /\ UNCHANGED <<cache, step, way, resource, held, seen>>
    BY <1>11 DEF Auth!ForgetSecret
  <2>2. ~settled
    BY <2>1
  <2>3. settled' \in BOOLEAN
    BY <2>1
  <2> QED BY <2>1, <2>2, <2>3
<1> QED
  BY <1>1, <1>2, <1>3, <1>4, <1>5, <1>6, <1>7, <1>8, <1>9, <1>10, <1>11 DEF Auth!Next

LEMMA AuthInductive == Spec => []Auth!IInv
<1>1. Init => Auth!IInv
  BY AuthInitInv DEF Init
<1>2. Auth!IInv /\ [Next]_allVars => Auth!IInv'
  <2> SUFFICES ASSUME Auth!IInv, [Next]_allVars PROVE Auth!IInv'
    OBVIOUS
  <2>1. CASE AuthSteps
    BY <2>1, AuthStepInv DEF AuthSteps
  <2>2. CASE UNCHANGED tokens
    BY <2>2 DEF tokens, Auth!IInv, Auth!TypeOK, Auth!SignedOut, Auth!SignOutSticks, Auth!UnderWay
  <2>3. ~AuthSteps => UNCHANGED tokens
    BY DEF Next, allVars, JobSteps, RunSteps, DaxSteps, ImportSteps, MetaSteps, HotSteps, ResSteps,
           EditSteps, CellSteps
  <2> QED BY <2>1, <2>2, <2>3
<1> QED BY <1>1, <1>2, PTL DEF Spec

\* A sign-out that met no request under way is for good, however many requests
\* and resources there are: nothing but a new sign-in brings a token back.
THEOREM SignedOutForGood == Spec => []SignOutSticks
<1>1. Auth!IInv => SignOutSticks
  BY DEF Auth!IInv, SignOutSticks
<1> QED BY <1>1, AuthInductive, PTL

-----------------------------------------------------------------------------
(* HotExit                                                                 *)

LEMMA HotConstants == MaxText \in Nat /\ MaxFaults \in Nat /\ MaxCloses \in Nat
BY ServiceConstants

TabRecord == [text : Hot!Texts, file : BOOLEAN, saved : Hot!Texts, snap : Hot!Texts]
RowRecord == [text : Hot!Texts, file : BOOLEAN,
              state : {"absent", "open", "closed"}, closedAt : 0..MaxCloses]

LEMMA Blanks ==
  /\ Hot!Blank \in TabRecord /\ Hot!Blank.snap = 0 /\ ~Hot!Blank.file /\ Hot!Blank.saved = 0
  /\ Hot!NoRow \in RowRecord /\ 0 \in Hot!Texts
<1>1. 0 \in Hot!Texts /\ 0 \in 0..MaxCloses
  BY HotConstants DEF Hot!Texts
<1>2. FALSE \in BOOLEAN
  OBVIOUS
<1>3. Hot!Blank \in TabRecord /\ Hot!NoRow \in RowRecord
  BY <1>1, <1>2, Zenon DEF Hot!Blank, Hot!NoRow, TabRecord, RowRecord
<1> QED BY <1>1, <1>3, Zenon DEF Hot!Blank

LEMMA HotInitInv == Hot!Init => Hot!IInv
<1> SUFFICES ASSUME Hot!Init PROVE Hot!IInv
  OBVIOUS
<1>1. Hot!TypeOK
  BY Blanks, HotConstants DEF Hot!Init, Hot!TypeOK, TabRecord, RowRecord
<1>2. Hot!ClosedIsGone /\ Hot!HashOfRow /\ Hot!HashOfFile
  BY DEF Hot!Init, Hot!ClosedIsGone, Hot!HashOfRow, Hot!HashOfFile
<1> QED BY <1>1, <1>2 DEF Hot!IInv

LEMMA HotStepInv == Hot!IInv /\ Hot!Next => Hot!IInv'
<1> SUFFICES ASSUME Hot!IInv, Hot!Next PROVE Hot!IInv'
  OBVIOUS
<1> USE HotConstants, Blanks
<1> USE DEF Hot!IInv, Hot!TypeOK, Hot!ClosedIsGone, Hot!HashOfRow, Hot!HashOfFile, Hot!AtRest, Hot!Fault,
            TabRecord, RowRecord
<1>1. ASSUME NEW t \in Tabs, NEW x \in Hot!Texts, Hot!Type(t, x) PROVE Hot!IInv'
  BY <1>1 DEF Hot!Type
<1>2. ASSUME NEW t \in Tabs, NEW written \in BOOLEAN, Hot!Snapshot(t, written) PROVE Hot!IInv'
  <2>1. t \in open /\ tab[t] \in TabRecord
    BY <1>2 DEF Hot!Snapshot
  <2>2. Hot!Row(t) \in RowRecord /\ Hot!Row(t).state = "open" /\ Hot!Row(t).text = tab[t].text
    BY <2>1 DEF Hot!Row
  <2>3. CASE Hot!Due(t) /\ written
    <3>1. /\ sweep' = sweep \ {t} /\ snapshots' = [snapshots EXCEPT ![t] = Hot!Row(t)]
          /\ tab' = [tab EXCEPT ![t].snap = tab[t].text]
          /\ UNCHANGED <<running, open, closing, disk, closes, doubtful, faults>>
      BY <1>2, <2>3 DEF Hot!Snapshot
    <3>2. snapshots' \in [Tabs -> RowRecord]
      BY <2>2, <3>1
    <3>3. /\ tab' \in [Tabs -> TabRecord]
          /\ \A u \in Tabs : u # t => tab'[u] = tab[u]
          /\ tab'[t].snap = tab[t].text /\ tab'[t].file = tab[t].file
          /\ tab'[t].saved = tab[t].saved
      BY <2>1, <3>1
    <3>4. Hot!TypeOK' /\ Hot!ClosedIsGone'
      BY <2>1, <3>1, <3>2, <3>3
    <3>5. Hot!HashOfRow' /\ Hot!HashOfFile'
      BY <2>1, <2>2, <3>1, <3>3
    <3> QED BY <3>4, <3>5
  <2>4. CASE ~(Hot!Due(t) /\ written)
    BY <1>2, <2>4 DEF Hot!Snapshot
  <2> QED BY <2>3, <2>4
<1>3. ASSUME NEW t \in Tabs, NEW written \in BOOLEAN, Hot!CloseTab(t, written) PROVE Hot!IInv'
  BY <1>3 DEF Hot!CloseTab, Hot!Row
<1>4. ASSUME NEW t \in Tabs, Hot!NewTab(t) PROVE Hot!IInv'
  BY <1>4 DEF Hot!NewTab
<1>5. ASSUME NEW t \in Tabs, Hot!SaveFile(t) PROVE Hot!IInv'
  <2>1. /\ running = "up" /\ sweep = {} /\ closing = Hot!NoTab /\ t \in open
        /\ disk' = [disk EXCEPT ![t] = tab[t].text]
        /\ tab' = [tab EXCEPT ![t].file = TRUE, ![t].saved = tab[t].text]
        /\ doubtful' = doubtful \ {t}
        /\ UNCHANGED <<running, open, sweep, closing, snapshots, faults, closes>>
    BY <1>5 DEF Hot!SaveFile
  <2>2. tab[t] \in TabRecord
    OBVIOUS
  <2> DEFINE saved2 == [tab[t] EXCEPT !.file = TRUE, !.saved = tab[t].text]
  <2>3. saved2 \in TabRecord /\ saved2.snap = tab[t].snap /\ saved2.saved = tab[t].text /\ tab[t].text \in Hot!Texts
    BY <2>2, Zenon
  <2>4. tab' = [tab EXCEPT ![t] = saved2]
    BY <2>1
  <2> HIDE DEF saved2
  <2>5. /\ tab' \in [Tabs -> TabRecord] /\ tab'[t] = saved2
        /\ \A u \in Tabs : u # t => tab'[u] = tab[u]
    BY <2>3, <2>4
  <2>6. /\ disk' \in [Tabs -> Hot!Texts \cup {Hot!NoText}] /\ disk'[t] = tab[t].text
        /\ \A u \in Tabs : u # t => disk'[u] = disk[u]
    BY <2>1, <2>3
  <2>7. Hot!TypeOK' /\ Hot!ClosedIsGone'
    BY <2>1, <2>5, <2>6
  <2>8. Hot!HashOfRow'
    BY <2>1, <2>3, <2>5
  <2>9. Hot!HashOfFile'
    BY <2>1, <2>3, <2>5, <2>6
  <2> QED BY <2>7, <2>8, <2>9
<1>6. ASSUME NEW t \in Tabs, Hot!SaveTorn(t) PROVE Hot!IInv'
  BY <1>6 DEF Hot!SaveTorn, Hot!Ends
<1>7. ASSUME NEW t \in Tabs, Hot!Reopen(t) PROVE Hot!IInv'
  <2>1. /\ running = "up" /\ sweep = {} /\ closing = Hot!NoTab
        /\ snapshots' = [snapshots EXCEPT ![t] = [@ EXCEPT !.state = "open", !.closedAt = 0]]
        /\ open' = open \cup {t} /\ doubtful' = doubtful \cup {t}
        /\ tab' = [tab EXCEPT ![t] = [text |-> snapshots[t].text, file |-> snapshots[t].file,
                                      saved |-> snapshots[t].text, snap |-> 0]]
        /\ UNCHANGED <<running, sweep, closing, disk, faults, closes>>
    BY <1>7 DEF Hot!Reopen
  <2> DEFINE back == [text |-> snapshots[t].text, file |-> snapshots[t].file,
                      saved |-> snapshots[t].text, snap |-> 0]
             row == [snapshots[t] EXCEPT !.state = "open", !.closedAt = 0]
  <2>2. snapshots[t] \in RowRecord
    OBVIOUS
  <2>3. back \in TabRecord /\ back.snap = 0 /\ row \in RowRecord
    <3>1. 0 \in Hot!Texts /\ 0 \in 0..MaxCloses
      BY DEF Hot!Texts
    <3> QED BY <2>2, <3>1, Zenon
  <2>4. tab' = [tab EXCEPT ![t] = back] /\ snapshots' = [snapshots EXCEPT ![t] = row]
    BY <2>1
  <2> HIDE DEF back, row
  <2>5. /\ tab' \in [Tabs -> TabRecord] /\ tab'[t] = back
        /\ \A u \in Tabs : u # t => tab'[u] = tab[u]
        /\ snapshots' \in [Tabs -> RowRecord]
        /\ \A u \in Tabs : u # t => snapshots'[u] = snapshots[u]
    BY <2>3, <2>4
  <2>6. Hot!TypeOK' /\ Hot!ClosedIsGone'
    BY <2>1, <2>5
  <2>7. Hot!HashOfRow' /\ Hot!HashOfFile'
    BY <2>1, <2>3, <2>5
  <2> QED BY <2>6, <2>7
<1>8. ASSUME NEW written \in BOOLEAN, Hot!MarkClosed(written) PROVE Hot!IInv'
  BY <1>8 DEF Hot!MarkClosed
<1>9. CASE Hot!Tick \/ Hot!Exit
  BY <1>9 DEF Hot!Tick, Hot!Exit
<1>10. CASE Hot!Down
  BY <1>10 DEF Hot!Down, Hot!Ends
<1>11. CASE Hot!Crash
  BY <1>11 DEF Hot!Crash, Hot!Ends
<1>12. CASE Hot!Restore
  BY <1>12 DEF Hot!Restore, Hot!Restored
<1> QED
  BY <1>1, <1>2, <1>3, <1>4, <1>5, <1>6, <1>7, <1>8, <1>9, <1>10, <1>11, <1>12 DEF Hot!Next

LEMMA HotInductive == Spec => []Hot!IInv
<1>1. Init => Hot!IInv
  BY HotInitInv DEF Init
<1>2. Hot!IInv /\ [Next]_allVars => Hot!IInv'
  <2> SUFFICES ASSUME Hot!IInv, [Next]_allVars PROVE Hot!IInv'
    OBVIOUS
  <2>1. CASE HotSteps
    BY <2>1, HotStepInv DEF HotSteps
  <2>2. CASE UNCHANGED hot
    BY <2>2 DEF hot, Hot!IInv, Hot!TypeOK, Hot!ClosedIsGone, Hot!HashOfRow, Hot!HashOfFile
  <2>3. ~HotSteps => UNCHANGED hot
    BY DEF Next, allVars, JobSteps, RunSteps, DaxSteps, ImportSteps, MetaSteps, AuthSteps, ResSteps,
           EditSteps, CellSteps
  <2> QED BY <2>1, <2>2, <2>3
<1> QED BY <1>1, <1>2, PTL DEF Spec

\* A text the tick takes for stored is stored, and a tab shown as saved is saved,
\* for any number of tabs, texts, crashes and failed writes.
THEOREM WorkSurvives == Spec => []WorkIsKept
<1>1. Hot!IInv => WorkIsKept
  BY DEF WorkIsKept, Hot!WorkIsKept, Hot!SnapshotIsStored, Hot!SavedIsOnDisk, Hot!IInv, Hot!HashOfRow,
         Hot!HashOfFile
<1> QED BY <1>1, HotInductive, PTL

-----------------------------------------------------------------------------
(* Installer                                                               *)

LEMMA JobConstants == Whole \in Nat /\ MaxJobs \in Nat /\ MaxTrouble \in Nat
BY ServiceConstants

\* what a finished step writes into the record
LEMMA UvRecorded ==
  ASSUME NEW r \in Job!Record, NEW r2, r2 = [r EXCEPT !.uv = TRUE]
  PROVE  r2 \in Job!Record /\ r2.uv /\ r2.jdk = r.jdk /\ r2.envs = r.envs /\ r2.warm = r.warm
<1>1. TRUE \in BOOLEAN
  OBVIOUS
<1>2. r2 \in Job!Record
  BY <1>1, Zenon DEF Job!Record
<1>3. r2.jdk = r.jdk /\ r2.envs = r.envs /\ r2.warm = r.warm
  BY DEF Job!Record
<1>4. r2.uv
  BY DEF Job!Record
<1> QED BY <1>2, <1>3, <1>4

LEMMA JdkRecorded ==
  ASSUME NEW r \in Job!Record, NEW r2, r2 = [r EXCEPT !.jdk = TRUE]
  PROVE  r2 \in Job!Record /\ r2.jdk /\ r2.uv = r.uv /\ r2.envs = r.envs /\ r2.warm = r.warm
<1>1. TRUE \in BOOLEAN
  OBVIOUS
<1>2. r2 \in Job!Record
  BY <1>1, Zenon DEF Job!Record
<1>3. r2.uv = r.uv /\ r2.envs = r.envs /\ r2.warm = r.warm
  BY DEF Job!Record
<1>4. r2.jdk
  BY DEF Job!Record
<1> QED BY <1>2, <1>3, <1>4

LEMMA EnvRecorded ==
  ASSUME NEW r \in Job!Record, NEW e \in Job!Envs, NEW r2, r2 = [r EXCEPT !.envs = @ \cup {e}]
  PROVE  r2 \in Job!Record /\ r2.uv = r.uv /\ r2.jdk = r.jdk /\ r2.envs = r.envs \cup {e} /\ r2.warm = r.warm
<1>1. r2 = [r EXCEPT !.envs = r.envs \cup {e}]
  OBVIOUS
<1>2. r.envs \cup {e} \in SUBSET Job!Envs
  BY DEF Job!Record
<1>3. r2 \in Job!Record
  BY <1>1, <1>2, Zenon DEF Job!Record
<1>4. r2.uv = r.uv /\ r2.jdk = r.jdk /\ r2.envs = r.envs \cup {e} /\ r2.warm = r.warm
  BY DEF Job!Record
<1> QED BY <1>3, <1>4

LEMMA WarmRecorded ==
  ASSUME NEW r \in Job!Record, NEW e \in Job!Envs, NEW r2, r2 = [r EXCEPT !.warm = @ \cup {e}]
  PROVE  r2 \in Job!Record /\ r2.uv = r.uv /\ r2.jdk = r.jdk /\ r2.envs = r.envs /\ r2.warm = r.warm \cup {e}
<1>1. r2 = [r EXCEPT !.warm = r.warm \cup {e}]
  OBVIOUS
<1>2. r.warm \cup {e} \in SUBSET Job!Envs
  BY DEF Job!Record
<1>3. r2 \in Job!Record
  BY <1>1, <1>2, Zenon DEF Job!Record
<1>4. r2.uv = r.uv /\ r2.jdk = r.jdk /\ r2.envs = r.envs /\ r2.warm = r.warm \cup {e}
  BY DEF Job!Record
<1> QED BY <1>3, <1>4

LEMMA SailForgotten ==
  ASSUME NEW r \in Job!Record, NEW r2, r2 = [r EXCEPT !.envs = @ \ {Sail}, !.warm = @ \ {Sail}]
  PROVE  /\ r2 \in Job!Record /\ r2.uv = r.uv /\ r2.jdk = r.jdk
         /\ r2.envs \subseteq r.envs /\ r2.warm \subseteq r.warm
<1>1. r.envs \ {Sail} \in SUBSET Job!Envs /\ r.warm \ {Sail} \in SUBSET Job!Envs
  BY DEF Job!Record
<1>2. r2 = [r EXCEPT !.envs = r.envs \ {Sail}, !.warm = r.warm \ {Sail}]
  BY DEF Job!Record
<1>3. r2 \in Job!Record
  BY <1>1, <1>2, Zenon DEF Job!Record
<1>4. r2.uv = r.uv /\ r2.jdk = r.jdk /\ r2.envs = r.envs \ {Sail} /\ r2.warm = r.warm \ {Sail}
  BY <1>2 DEF Job!Record
<1> QED BY <1>3, <1>4

LEMMA NoPartTyped == Job!NoPart \in [len : 0..Whole, bad : BOOLEAN]
<1>1. FALSE \in BOOLEAN /\ 0 \in 0..Whole
  BY JobConstants
<1> QED BY <1>1, Zenon DEF Job!NoPart

LEMMA NoRecordTyped == Job!NoRecord \in Job!Record
<1>1. FALSE \in BOOLEAN /\ {} \in SUBSET Job!Envs
  OBVIOUS
<1> QED BY <1>1, Zenon DEF Job!NoRecord, Job!Record

LEMMA JobInitInv == Job!Init => Job!IInv
<1> SUFFICES ASSUME Job!Init PROVE Job!IInv
  OBVIOUS
<1> USE JobConstants
<1>1. jobCancel \in BOOLEAN /\ calm \in BOOLEAN /\ tainted \in BOOLEAN
  BY Zenon DEF Job!Init
<1>4. Job!TypeOK
  BY <1>1, NoPartTyped, NoRecordTyped DEF Job!Init, Job!TypeOK, Job!Archives, Job!Envs
<1>5. Job!ErrorIsTheEnd /\ Job!BuiltSoFar /\ Job!RecordIsTrue /\ Job!FailsOnlyForCause
  BY DEF Job!Init, Job!ErrorIsTheEnd, Job!Ahead, Job!Fetching, Job!BuiltSoFar, Job!RecordIsTrue,
         Job!FailsOnlyForCause, Job!Working
<1> QED BY <1>4, <1>5 DEF Job!IInv

LEMMA JobStepInv == Job!IInv /\ Job!Next => Job!IInv'
<1> SUFFICES ASSUME Job!IInv, Job!Next PROVE Job!IInv'
  OBVIOUS
<1> USE JobConstants
<1> USE DEF Job!IInv, Job!TypeOK, Job!ErrorIsTheEnd, Job!Ahead, Job!Fetching, Job!BuiltSoFar,
            Job!RecordIsTrue, Job!FailsOnlyForCause, Job!Working, Job!diskVars, Job!jobVars, Job!Goto,
            Job!Did, Job!Fail, Job!Ends, Job!Abandon, Job!jobKept, Job!After, Job!Fits, Job!Starts
<1>1. ASSUME NEW k \in {"install", "smoke", "libraries"}, NEW e \in Job!Envs, Job!Start(k, e)
      PROVE  Job!IInv'
  <2>1. jobCancel' \in BOOLEAN /\ calm' \in BOOLEAN /\ tainted' \in BOOLEAN
    BY <1>1, Zenon DEF Job!Start
  <2>2. Job!TypeOK'
    BY <1>1, <2>1 DEF Job!Start
  <2>3. Job!ErrorIsTheEnd'
    BY <1>1, <2>1 DEF Job!Start
  <2>4. Job!BuiltSoFar'
    BY <1>1, <2>1 DEF Job!Start
  <2>5. Job!RecordIsTrue'
    BY <1>1, <2>1 DEF Job!Start
  <2>6. Job!FailsOnlyForCause'
    BY <1>1, <2>1 DEF Job!Start
  <2> QED BY <2>2, <2>3, <2>4, <2>5, <2>6
<1>2. CASE Job!Skip
  BY <1>2 DEF Job!Skip, Job!Wanted
<1>3. CASE Job!Save
  BY <1>3 DEF Job!Save
<1>4. CASE Job!Cancel
  <2>1. jobCancel' \in BOOLEAN /\ calm' \in BOOLEAN /\ tainted' \in BOOLEAN
    BY <1>4, Zenon DEF Job!Cancel
  <2>2. Job!TypeOK'
    BY <1>4, <2>1 DEF Job!Cancel
  <2>3. Job!ErrorIsTheEnd'
    BY <1>4, <2>1 DEF Job!Cancel
  <2>4. Job!BuiltSoFar'
    BY <1>4, <2>1 DEF Job!Cancel
  <2>5. Job!RecordIsTrue'
    BY <1>4, <2>1 DEF Job!Cancel
  <2>6. Job!FailsOnlyForCause'
    BY <1>4, <2>1 DEF Job!Cancel
  <2> QED BY <2>2, <2>3, <2>4, <2>5, <2>6
<1>5. CASE Job!Cancelled
  BY <1>5 DEF Job!Cancelled
<1>6. CASE Job!Trouble
  <2>1. jobCancel' \in BOOLEAN /\ calm' \in BOOLEAN /\ tainted' \in BOOLEAN
    BY <1>6, Zenon DEF Job!Trouble
  <2>2. Job!TypeOK'
    BY <1>6, <2>1 DEF Job!Trouble
  <2>3. Job!ErrorIsTheEnd'
    BY <1>6, <2>1 DEF Job!Trouble
  <2>4. Job!BuiltSoFar'
    BY <1>6, <2>1 DEF Job!Trouble
  <2>5. Job!RecordIsTrue'
    BY <1>6, <2>1 DEF Job!Trouble
  <2>6. Job!FailsOnlyForCause'
    BY <1>6, <2>1 DEF Job!Trouble
  <2> QED BY <2>2, <2>3, <2>4, <2>5, <2>6
<1>7. CASE Job!Crash
  <2>1. jobCancel' \in BOOLEAN /\ calm' \in BOOLEAN /\ tainted' \in BOOLEAN
    BY <1>7, Zenon DEF Job!Crash
  <2>2. Job!TypeOK'
    BY <1>7, <2>1, NoRecordTyped DEF Job!Crash
  <2>3. Job!ErrorIsTheEnd'
    BY <1>7, <2>1 DEF Job!Crash
  <2>4. Job!BuiltSoFar'
    BY <1>7, <2>1 DEF Job!Crash
  <2>5. Job!RecordIsTrue'
    BY <1>7, <2>1 DEF Job!Crash
  <2>6. Job!FailsOnlyForCause'
    BY <1>7, <2>1 DEF Job!Crash
  <2> QED BY <2>2, <2>3, <2>4, <2>5, <2>6
<1>8. CASE Job!AlreadyThere
  BY <1>8 DEF Job!AlreadyThere
<1>9. CASE Job!NotSatisfiable
  BY <1>9 DEF Job!NotSatisfiable
<1>10. ASSUME NEW from \in {0, part[arch].len}, NEW wrong \in BOOLEAN, Job!Answered(from, wrong)
      PROVE  Job!IInv'
  <2>1. jobCancel' \in BOOLEAN /\ calm' \in BOOLEAN /\ tainted' \in BOOLEAN
    BY <1>10, Zenon DEF Job!Answered
  <2>2. Job!TypeOK'
    <3> DEFINE p2 == [len |-> from, bad |-> wrong \/ (from # 0 /\ part[arch].bad)]
    <3>1. part[arch] \in [len : 0..Whole, bad : BOOLEAN]
      OBVIOUS
    <3>2. from \in 0..Whole
      BY <3>1
    <3>3. (wrong \/ (from # 0 /\ part[arch].bad)) \in BOOLEAN
      BY Zenon
    <3>4. p2 \in [len : 0..Whole, bad : BOOLEAN]
      BY <3>2, <3>3, Zenon
    <3>5. part' = [part EXCEPT ![arch] = p2]
      BY <1>10 DEF Job!Answered
    <3> HIDE DEF p2
    <3>7. part' \in [Job!Archives -> [len : 0..Whole, bad : BOOLEAN]]
      BY <3>4, <3>5
    <3>8. file' \in [Job!Archives -> {"none", "good"}]
      BY <1>10 DEF Job!Answered
    <3>9. /\ jobPc' = "read" /\ trouble' = trouble + (IF wrong THEN 1 ELSE 0) /\ (wrong => trouble < MaxTrouble)
          /\ UNCHANGED <<next, rec, uvExe, jdkDir, env, saved, kind, target, arch, jobCancel, result, jobs>>
      BY <1>10 DEF Job!Answered
    <3>10. trouble' \in 0..MaxTrouble
      BY <3>9
    <3> QED BY <2>1, <3>7, <3>8, <3>9, <3>10
  <2>3. Job!ErrorIsTheEnd'
    BY <1>10, <2>1 DEF Job!Answered
  <2>4. Job!BuiltSoFar'
    BY <1>10, <2>1 DEF Job!Answered
  <2>5. Job!RecordIsTrue'
    BY <1>10, <2>1 DEF Job!Answered
  <2>6. Job!FailsOnlyForCause'
    BY <1>10, <2>1 DEF Job!Answered
  <2> QED BY <2>2, <2>3, <2>4, <2>5, <2>6
<1>11. CASE Job!Read
  BY <1>11 DEF Job!Read
<1>12. CASE Job!Verify
  <2>1. Job!TypeOK'
    <3>1. part' \in [Job!Archives -> [len : 0..Whole, bad : BOOLEAN]]
      BY <1>12, NoPartTyped DEF Job!Verify
    <3>2. file' \in [Job!Archives -> {"none", "good"}]
      BY <1>12 DEF Job!Verify
    <3>3. /\ jobPc' \in {"save", "unpack"} /\ next' \in {next, "over"} /\ rec' = rec
          /\ result' \in {"error", result}
          /\ UNCHANGED <<uvExe, jdkDir, env, calm, tainted, saved, kind, target, arch, jobCancel, jobs, trouble>>
      BY <1>12 DEF Job!Verify
    <3> QED BY <3>1, <3>2, <3>3
  <2>2. Job!ErrorIsTheEnd'
    BY <1>12 DEF Job!Verify
  <2>3. Job!BuiltSoFar'
    BY <1>12 DEF Job!Verify
  <2>4. Job!RecordIsTrue'
    BY <1>12 DEF Job!Verify
  <2>5. Job!FailsOnlyForCause'
    BY <1>12 DEF Job!Verify
  <2> QED BY <2>1, <2>2, <2>3, <2>4, <2>5
<1>13. CASE Job!StepUv
  <2>1. CASE uvExe = "ok"
    <3>1. /\ jobPc = "uv" /\ jobPc' = "save" /\ next' = "python" /\ rec' = [rec EXCEPT !.uv = TRUE]
          /\ UNCHANGED <<part, file, uvExe, jdkDir, env, saved, kind, target, arch, jobCancel, result, jobs,
                         trouble, calm, tainted>>
      BY <1>13, <2>1 DEF Job!StepUv
    <3>2. rec' \in Job!Record /\ rec'.uv /\ rec'.jdk = rec.jdk /\ rec'.envs = rec.envs /\ rec'.warm = rec.warm
      BY <3>1, UvRecorded
    <3>3. rec = saved
      BY <3>1
    <3> QED BY <2>1, <3>1, <3>2, <3>3
  <2>2. CASE uvExe # "ok"
    BY <1>13, <2>2 DEF Job!StepUv, Job!Archives
  <2> QED BY <2>1, <2>2
<1>14. CASE Job!Unpack
  <2>1. CASE arch = "uv"
    BY <1>14, <2>1 DEF Job!Unpack
  <2>2. CASE arch # "uv" /\ jdkDir = "whole"
    <3>1. /\ jobPc = "unpack" /\ jobPc' = "save" /\ next' = "warm" /\ rec' = [rec EXCEPT !.jdk = TRUE]
          /\ file' = [file EXCEPT !["jdk"] = "none"]
          /\ UNCHANGED <<part, uvExe, jdkDir, env, saved, kind, target, arch, jobCancel, result, jobs,
                         trouble, calm, tainted>>
      BY <1>14, <2>2 DEF Job!Unpack
    <3>2. rec' \in Job!Record /\ rec'.jdk /\ rec'.uv = rec.uv /\ rec'.envs = rec.envs /\ rec'.warm = rec.warm
      BY <3>1, JdkRecorded
    <3>3. rec = saved
      BY <3>1
    <3>4. file' \in [Job!Archives -> {"none", "good"}]
      BY <3>1
    <3>5. Job!TypeOK'
      BY <3>1, <3>2, <3>4
    <3>6. arch = "jdk"
      BY <2>2 DEF Job!Archives
    <3>7. Job!ErrorIsTheEnd' /\ Job!BuiltSoFar'
      BY <2>2, <3>1, <3>6
    <3>8. Job!RecordIsTrue' /\ Job!FailsOnlyForCause'
      BY <2>2, <3>1, <3>2, <3>3
    <3> QED BY <3>5, <3>7, <3>8
  <2>3. CASE arch # "uv" /\ jdkDir # "whole"
    BY <1>14, <2>3 DEF Job!Unpack
  <2> QED BY <2>1, <2>2, <2>3
<1>15. CASE Job!Copy
  <2>1. CASE uvExe = "torn"
    <3>1. /\ jobPc = "copy" /\ jobPc' = "save" /\ next' = "python" /\ rec' = [rec EXCEPT !.uv = TRUE]
          /\ uvExe' = "ok" /\ file' = [file EXCEPT !["uv"] = "none"]
          /\ UNCHANGED <<part, jdkDir, env, saved, kind, target, arch, jobCancel, result, jobs, trouble, calm, tainted>>
      BY <1>15, <2>1 DEF Job!Copy
    <3>2. rec' \in Job!Record /\ rec'.uv /\ rec'.jdk = rec.jdk /\ rec'.envs = rec.envs /\ rec'.warm = rec.warm
      BY <3>1, UvRecorded
    <3>3. rec = saved
      BY <3>1
    <3>4. file' \in [Job!Archives -> {"none", "good"}]
      BY <3>1
    <3> QED BY <2>1, <3>1, <3>2, <3>3, <3>4
  <2>2. CASE uvExe # "torn"
    BY <1>15, <2>2 DEF Job!Copy
  <2> QED BY <2>1, <2>2
<1>16. CASE Job!StepPython
  BY <1>16 DEF Job!StepPython, Job!Wanted
<1>17. CASE Job!StepEnv
  BY <1>17 DEF Job!StepEnv, Job!Wanted
<1>18. CASE Job!StepPip
  <2>1. CASE env[target] = "ready" /\ env' = [env EXCEPT ![target] = "venv"] /\ UNCHANGED <<jobPc, next, rec>>
    BY <1>18, <2>1 DEF Job!StepPip
  <2>2. CASE /\ env[target] = "venv" /\ env' = [env EXCEPT ![target] = "ready"]
             /\ rec' = [rec EXCEPT !.envs = @ \cup {target}]
    <3>1. /\ jobPc = "pip" /\ jobPc' = "save" /\ next' = "roster"
          /\ UNCHANGED <<part, file, uvExe, jdkDir, saved, kind, target, arch, jobCancel, result, jobs,
                         trouble, calm, tainted>>
      BY <1>18, <2>2 DEF Job!StepPip
    <3>2. /\ rec' \in Job!Record /\ rec'.uv = rec.uv /\ rec'.jdk = rec.jdk
          /\ rec'.envs = rec.envs \cup {target} /\ rec'.warm = rec.warm
      BY <2>2, EnvRecorded
    <3>3. rec = saved
      BY <3>1
    <3>4. env' \in [Job!Envs -> {"none", "venv", "ready"}] /\ env'[target] = "ready"
      BY <2>2
    <3> QED BY <3>1, <3>2, <3>3, <3>4
  <2> QED BY <1>18, <2>1, <2>2 DEF Job!StepPip
<1>19. CASE Job!StepRoster
  BY <1>19 DEF Job!StepRoster, Job!Wanted
<1>20. CASE Job!StepJdk
  <2>1. CASE Job!Fits(jdkDir)
    <3>1. /\ jobPc = "jdk" /\ jobPc' = "save" /\ next' = "warm" /\ rec' = [rec EXCEPT !.jdk = TRUE]
          /\ UNCHANGED <<part, file, uvExe, jdkDir, env, saved, kind, target, arch, jobCancel, result, jobs,
                         trouble, calm, tainted>>
      BY <1>20, <2>1 DEF Job!StepJdk
    <3>2. rec' \in Job!Record /\ rec'.jdk /\ rec'.uv = rec.uv /\ rec'.envs = rec.envs /\ rec'.warm = rec.warm
      BY <3>1, JdkRecorded
    <3>3. rec = saved
      BY <3>1
    <3> QED BY <2>1, <3>1, <3>2, <3>3
  <2>2. CASE ~Job!Fits(jdkDir)
    BY <1>20, <2>2 DEF Job!StepJdk, Job!Archives
  <2> QED BY <2>1, <2>2
<1>21. CASE Job!StepWarm
  <2>1. CASE Job!Starts
    <3>1. /\ jobPc = "warm" /\ jobPc' = "save" /\ next' = "over" /\ rec' = [rec EXCEPT !.warm = @ \cup {target}]
          /\ UNCHANGED <<part, file, uvExe, jdkDir, env, saved, kind, target, arch, jobCancel, result, jobs,
                         trouble, calm, tainted>>
      BY <1>21, <2>1 DEF Job!StepWarm
    <3>2. /\ rec' \in Job!Record /\ rec'.uv = rec.uv /\ rec'.jdk = rec.jdk /\ rec'.envs = rec.envs
          /\ rec'.warm = rec.warm \cup {target}
      BY <3>1, WarmRecorded
    <3>3. rec = saved
      BY <3>1
    <3> QED BY <2>1, <3>1, <3>2, <3>3
  <2>2. CASE ~Job!Starts
    BY <1>21, <2>2 DEF Job!StepWarm
  <2> QED BY <2>1, <2>2
<1>22. CASE Job!Libraries
  <2>1. Job!TypeOK'
    BY <1>22 DEF Job!Libraries
  <2>2. Job!ErrorIsTheEnd'
    BY <1>22 DEF Job!Libraries
  <2>3. Job!BuiltSoFar'
    BY <1>22 DEF Job!Libraries
  <2>4. Job!RecordIsTrue'
    BY <1>22 DEF Job!Libraries
  <2>5. Job!FailsOnlyForCause'
    BY <1>22 DEF Job!Libraries
  <2> QED BY <2>1, <2>2, <2>3, <2>4, <2>5
<1>23. CASE Job!RemoveSail
  <2>1. /\ jobPc = "idle" /\ jobPc' = "save" /\ next' = "over" /\ result' = "none"
        /\ env' = [env EXCEPT ![Sail] = "none"]
        /\ rec' = [saved EXCEPT !.envs = @ \ {Sail}, !.warm = @ \ {Sail}]
        /\ UNCHANGED <<part, file, uvExe, jdkDir, saved, kind, target, arch, jobCancel, jobs, trouble, calm, tainted>>
    BY <1>23 DEF Job!RemoveSail
  <2>2. /\ rec' \in Job!Record /\ rec'.uv = saved.uv /\ rec'.jdk = saved.jdk
        /\ rec'.envs \subseteq saved.envs /\ rec'.warm \subseteq saved.warm
    BY <2>1, SailForgotten
  <2>3. env' \in [Job!Envs -> {"none", "venv", "ready"}]
    BY <2>1
  <2> QED BY <2>1, <2>2, <2>3
<1>24. CASE Job!RemoveAll
  BY <1>24 DEF Job!RemoveAll
<1>25. CASE Job!RemoveEntry
  <2>1. Job!TypeOK'
    BY <1>25, NoRecordTyped DEF Job!RemoveEntry
  <2>2. Job!ErrorIsTheEnd'
    BY <1>25 DEF Job!RemoveEntry
  <2>3. Job!BuiltSoFar'
    BY <1>25 DEF Job!RemoveEntry
  <2>4. Job!RecordIsTrue'
    BY <1>25 DEF Job!RemoveEntry
  <2>5. Job!FailsOnlyForCause'
    BY <1>25 DEF Job!RemoveEntry
  <2> QED BY <2>1, <2>2, <2>3, <2>4, <2>5
<1>26. CASE Job!RemovedAll
  <2>1. Job!TypeOK'
    BY <1>26, NoPartTyped DEF Job!RemovedAll
  <2>2. Job!ErrorIsTheEnd'
    BY <1>26 DEF Job!RemovedAll
  <2>3. Job!BuiltSoFar'
    BY <1>26 DEF Job!RemovedAll
  <2>4. Job!RecordIsTrue'
    BY <1>26 DEF Job!RemovedAll
  <2>5. Job!FailsOnlyForCause'
    BY <1>26 DEF Job!RemovedAll
  <2> QED BY <2>1, <2>2, <2>3, <2>4, <2>5
<1> QED
  BY <1>1, <1>2, <1>3, <1>4, <1>5, <1>6, <1>7, <1>8, <1>9, <1>10, <1>11, <1>12, <1>13,
     <1>14, <1>15, <1>16, <1>17, <1>18, <1>19, <1>20, <1>21, <1>22, <1>23, <1>24, <1>25,
     <1>26
  DEF Job!Next, Job!Fetch

\* a record is only written by Save, and torn by a crash in it
LEMMA JobStepRecords ==
  ASSUME Job!IInv, Job!Next, jobPc = "save"
  PROVE  /\ saved'.uv /\ ~saved.uv => uvExe = "ok"
         /\ saved'.jdk /\ ~saved.jdk => jdkDir \in {"torn", "whole"}
         /\ \A e \in saved'.envs \ saved.envs : env[e] = "ready"
         /\ \A e \in saved'.warm \ saved.warm : Job!Starts
<1>1. saved' = rec \/ saved' = saved \/ saved' = Job!NoRecord
  BY DEF Job!Next, Job!Start, Job!Skip, Job!Save, Job!Cancel, Job!Cancelled, Job!Trouble, Job!Crash,
         Job!Fetch, Job!AlreadyThere, Job!NotSatisfiable, Job!Answered, Job!Read, Job!Verify,
         Job!StepUv, Job!Unpack, Job!Copy, Job!StepPython, Job!StepEnv, Job!StepPip, Job!StepRoster,
         Job!StepJdk, Job!StepWarm, Job!Libraries, Job!RemoveSail, Job!RemoveAll, Job!RemoveEntry,
         Job!RemovedAll, Job!Working
<1>2. CASE saved' = rec
  BY <1>2 DEF Job!IInv, Job!RecordIsTrue, Job!Fits
<1>3. CASE saved' = saved
  BY <1>3
<1>4. CASE saved' = Job!NoRecord
  BY <1>4 DEF Job!NoRecord
<1> QED BY <1>1, <1>2, <1>3, <1>4

LEMMA JobInductive == Spec => []Job!IInv
<1>1. Init => Job!IInv
  BY JobInitInv DEF Init
<1>2. Job!IInv /\ [Next]_allVars => Job!IInv'
  <2> SUFFICES ASSUME Job!IInv, [Next]_allVars PROVE Job!IInv'
    OBVIOUS
  <2>1. CASE JobSteps
    BY <2>1, JobStepInv DEF JobSteps
  <2>2. CASE UNCHANGED job
    BY <2>2 DEF job, Job!IInv, Job!TypeOK, Job!ErrorIsTheEnd, Job!Ahead, Job!Fetching,
           Job!BuiltSoFar, Job!RecordIsTrue, Job!FailsOnlyForCause, Job!Fits, Job!Starts,
           Job!Working
  <2>3. ~JobSteps => UNCHANGED job
    BY DEF Next, allVars, RunSteps, DaxSteps, ImportSteps, MetaSteps, HotSteps, ResSteps,
           AuthSteps, EditSteps, CellSteps
  <2> QED BY <2>1, <2>2, <2>3
<1> QED BY <1>1, <1>2, PTL DEF Spec

\* An install that is left alone fails only for one of three leftovers, and runtime.json names only what is there,
\* after any number of jobs, crashes and other trouble and for archives of any size.
THEOREM InstallerPromises == Spec => InstallsAsPromised
<1> DEFINE Recorded ==
      jobPc = "save" =>
          /\ saved'.uv /\ ~saved.uv => uvExe = "ok"
          /\ saved'.jdk /\ ~saved.jdk => jdkDir \in {"torn", "whole"}
          /\ \A e \in saved'.envs \ saved.envs : env[e] = "ready"
          /\ \A e \in saved'.warm \ saved.warm : Job!Starts
<1>1. Job!IInv /\ [Next]_allVars => [Recorded]_(Job!vars)
  <2> SUFFICES ASSUME Job!IInv, [Next]_allVars PROVE Recorded \/ UNCHANGED Job!vars
    OBVIOUS
  <2>1. CASE JobSteps
    BY <2>1, JobStepRecords DEF JobSteps
  <2>2. CASE UNCHANGED job
    BY <2>2 DEF job, Job!vars, Job!diskVars, Job!jobVars
  <2>3. ~JobSteps => UNCHANGED job
    BY DEF Next, allVars, RunSteps, DaxSteps, ImportSteps, MetaSteps, HotSteps, ResSteps, AuthSteps,
           EditSteps, CellSteps
  <2> QED BY <2>1, <2>2, <2>3
<1>2. Job!IInv => Job!FailsOnlyForCause
  BY DEF Job!IInv
<1>3. Spec => [][Recorded]_(Job!vars)
  BY <1>1, JobInductive, PTL DEF Spec
<1> HIDE DEF Recorded
<1>4. Spec => []Job!FailsOnlyForCause
  BY <1>2, JobInductive, PTL
<1> QED
  BY <1>3, <1>4, PTL DEF InstallsAsPromised, Job!RecordedWhenDone, Recorded

-----------------------------------------------------------------------------
(* ResultSets                                                              *)

LEMMA ResConstants ==
  /\ MaxSize \in Nat /\ MaxChunks \in Nat /\ MaxSpillFaults \in Nat
  /\ IsFiniteSet(Sets) /\ Limits \subseteq Nat
BY ServiceConstants, SetConstants

\* A set of numbers has a first one: no 0..m is strictly below all others.
LEMMA FirstNumber ==
  ASSUME NEW some \in SUBSET Nat, some # {}
  PROVE  Res!Min(some) \in some /\ \A n \in some : Res!Min(some) <= n
<1> DEFINE Below == {0..n : n \in some}
<1>1. Below \subseteq FiniteSubsetsOf(Nat) /\ Below # {}
  <2>1. ASSUME NEW n \in some PROVE 0..n \in SUBSET Nat /\ IsFiniteSet(0..n)
    BY FS_Interval
  <2> QED BY <2>1 DEF FiniteSubsetsOf
<1>2. PICK b \in Below : \A c \in Below : ~ (<<c, b>> \in StrictSubsetOrdering(Nat))
  <2> HIDE DEF Below
  <2> QED BY <1>1, FS_StrictSubsetOrderingWellFounded, WFMin
<1>3. PICK m \in some : b = 0..m
  BY <1>2
<1>4. ASSUME NEW n \in some PROVE m <= n
  <2>1. m \in Nat /\ n \in Nat
    OBVIOUS
  <2>2. CASE n < m
    <3>1. 0..n \subseteq 0..m /\ 0..n # 0..m /\ 0..n \in SUBSET Nat /\ 0..m \in SUBSET Nat
      <4>1. m \in 0..m /\ m \notin 0..n
        BY <2>1, <2>2
      <4> QED BY <2>1, <2>2, <4>1
    <3>2. <<0..n, 0..m>> \in StrictSubsetOrdering(Nat)
      BY <3>1 DEF StrictSubsetOrdering
    <3>3. 0..n \in Below
      OBVIOUS
    <3> HIDE DEF Below
    <3> QED BY <1>2, <1>3, <3>2, <3>3
  <2> QED BY <2>1, <2>2
<1> QED BY <1>3, <1>4 DEF Res!Min

\* What the loop of append does next
LEMMA LoopHead ==
  ASSUME NEW cs, cs \in Seq([size : Res!Sizes, at : {"mem", "disk"}]), Len(cs) <= MaxChunks,
         NEW bytes \in Nat, NEW total \in Nat, limit \in Nat,
         NEW spills, spills = Res!Next2Spill(cs, bytes, total)
  PROVE  /\ spills \in 0..MaxChunks
         /\ spills > 0 => spills \in Res!InMemory(cs)
         /\ spills = 0 => \/ total <= limit \/ bytes = 0
                         \/ \A i \in Res!InMemory(cs) : i = Len(cs)
<1> DEFINE mem == Res!InMemory(cs)
<1>1. Len(cs) \in Nat /\ mem \subseteq 1..Len(cs)
  BY DEF Res!InMemory
<1>2. spills = IF total > limit /\ bytes > 0 /\ mem # {} /\ (Res!Min(mem) < Len(cs) \/ Len(cs) = 1)
              THEN Res!Min(mem) ELSE 0
  BY DEF Res!Next2Spill
<1>3. mem # {} => Res!Min(mem) \in mem /\ \A n \in mem : Res!Min(mem) <= n
  <2>1. mem \in SUBSET Nat
    BY <1>1
  <2> HIDE DEF mem
  <2> QED BY <2>1, FirstNumber
<1> HIDE DEF mem
<1>4. mem # {} => Res!Min(mem) \in 1..Len(cs)
  BY <1>1, <1>3
<1>5. CASE total > limit /\ bytes > 0 /\ mem # {} /\ (Res!Min(mem) < Len(cs) \/ Len(cs) = 1)
  <2>1. spills = Res!Min(mem)
    BY <1>2, <1>5
  <2> QED BY <1>1, <1>3, <1>4, <1>5, <2>1, ResConstants DEF mem
<1>6. CASE ~(total > limit /\ bytes > 0 /\ mem # {} /\ (Res!Min(mem) < Len(cs) \/ Len(cs) = 1))
  <2>1. spills = 0
    BY <1>2, <1>6
  <2>2. ASSUME total > limit, bytes > 0, NEW i \in mem PROVE i = Len(cs)
    <3>1. ~(Res!Min(mem) < Len(cs))
      BY <1>6, <2>2
    <3> QED BY <1>1, <1>3, <1>4, <2>2, <3>1
  <2> QED BY <2>1, <2>2, ResConstants DEF mem
<1> QED BY <1>5, <1>6

-----------------------------------------------------------------------------
\* All the bytes there may be
Bytes == Sets \X (1..MaxChunks) \X Res!Sizes

LEMMA BytesFinite == IsFiniteSet(Bytes)
<1>1. IsFiniteSet(1..MaxChunks) /\ IsFiniteSet(Res!Sizes)
  BY ResConstants, FS_Interval DEF Res!Sizes
<1> DEFINE nested == Sets \X ((1..MaxChunks) \X Res!Sizes)
           turn == [p \in nested |-> <<p[1], p[2][1], p[2][2]>>]
<1>2. IsFiniteSet(nested)
  BY <1>1, ResConstants, FS_Product
<1>3. turn \in Surjection(nested, Bytes)
  <2>1. turn \in [nested -> Bytes]
    BY DEF Bytes
  <2>2. ASSUME NEW b \in Bytes PROVE \E p \in nested : turn[p] = b
    <3>1. <<b[1], <<b[2], b[3]>>>> \in nested
      BY DEF Bytes
    <3>2. turn[<<b[1], <<b[2], b[3]>>>>] = b
      BY <3>1 DEF Bytes
    <3> QED BY <3>1, <3>2
  <2> HIDE DEF turn, nested
  <2> QED BY <2>1, <2>2 DEF Surjection
<1> HIDE DEF turn, nested
<1> QED BY <1>2, <1>3, FS_Surjection

\* A chunk has as many bytes as its size says.
ChunkBytes(s, i, n) == {<<s, i, b>> : b \in 1..n}

LEMMA ByteCount ==
  ASSUME NEW s, NEW i, NEW n \in Nat
  PROVE  IsFiniteSet(ChunkBytes(s, i, n)) /\ Cardinality(ChunkBytes(s, i, n)) = n
<1> DEFINE some == ChunkBytes(s, i, n)
           place == [b \in 1..n |-> <<s, i, b>>]
<1>1. IsFiniteSet(1..n) /\ Cardinality(1..n) = n
  <2>1. IsFiniteSet(1..n) /\ Cardinality(1..n) = (IF 1 > n THEN 0 ELSE n - 1 + 1)
    BY FS_Interval
  <2> QED BY <2>1
<1>2. place \in Bijection(1..n, some)
  <2>1. place \in [1..n -> some] /\ \A x \in some : \E b \in 1..n : place[b] = x
    BY DEF ChunkBytes
  <2>2. \A a, b \in 1..n : place[a] = place[b] => a = b
    OBVIOUS
  <2> HIDE DEF place, some
  <2> QED BY <2>1, <2>2 DEF Bijection, Injection, IsInjective, Surjection
<1> HIDE DEF place, some
<1>3. ExistsBijection(1..n, some)
  BY <1>2 DEF ExistsBijection
<1> QED BY <1>1, <1>3, FS_Bijection DEF some

LEMMA HeldFinite ==
  ASSUME NEW some, some \subseteq Bytes
  PROVE  IsFiniteSet(some) /\ Cardinality(some) \in Nat
BY BytesFinite, FS_Subset, FS_CardinalityType

LEMMA SameCount == \A some : Res!Cardinality(some) = Cardinality(some)
BY DEF Res!Cardinality, Cardinality

Chunks == Seq([size : Res!Sizes, at : {"mem", "disk"}])

\* What a set's chunks are
LEMMA ChunkFacts ==
  ASSUME NEW cs \in Chunks
  PROVE  /\ Len(cs) \in Nat /\ DOMAIN cs = 1..Len(cs)
         /\ \A i \in 1..Len(cs) : cs[i].size \in 1..MaxSize /\ cs[i].size \in Nat /\ cs[i].at \in {"mem", "disk"}
<1>1. PICK kinds : kinds = [size : 1..MaxSize, at : {"mem", "disk"}]
  OBVIOUS
<1>2. cs \in Seq(kinds)
  BY <1>1 DEF Chunks, Res!Sizes
<1>3. Len(cs) \in Nat /\ DOMAIN cs = 1..Len(cs) /\ \A i \in 1..Len(cs) : cs[i] \in kinds
  BY <1>2
<1>4. \A n \in 1..MaxSize : n \in Nat
  BY ResConstants
<1> QED BY <1>1, <1>3, <1>4

LEMMA HeldBytes ==
  Res!Held \subseteq Bytes /\ Res!OldHeld \subseteq Res!Held /\ \A some : Res!HeldBy(some) \subseteq Res!Held
BY DEF Res!Held, Res!OldHeld, Res!HeldBy, Bytes

LEMMA CountGrows ==
  ASSUME NEW some, some \subseteq Bytes, NEW fresh, fresh \subseteq Bytes, some \cap fresh = {}
  PROVE  Cardinality(some \cup fresh) = Cardinality(some) + Cardinality(fresh)
<1>1. IsFiniteSet(some) /\ Cardinality(some) \in Nat /\ IsFiniteSet(fresh) /\ Cardinality(fresh) \in Nat
  BY HeldFinite
<1>2. Cardinality(some \cup fresh) = Cardinality(some) + Cardinality(fresh) - Cardinality(some \cap fresh)
  BY <1>1, FS_Union
<1>3. Cardinality(some \cap fresh) = 0
  BY FS_EmptySet
<1> QED BY <1>1, <1>2, <1>3

LEMMA CountShrinks ==
  ASSUME NEW some, some \subseteq Bytes, NEW less, less \subseteq some
  PROVE  /\ Cardinality(some \ less) = Cardinality(some) - Cardinality(less)
         /\ Cardinality(less) <= Cardinality(some)
<1>1. IsFiniteSet(some) /\ Cardinality(some) \in Nat
  BY HeldFinite
<1>2. Cardinality(some \ less) = Cardinality(some) - Cardinality(some \cap less)
  BY <1>1, FS_Difference
<1>3. some \cap less = less
  OBVIOUS
<1>4. Cardinality(less) <= Cardinality(some)
  BY <1>1, FS_Subset
<1> QED BY <1>2, <1>3, <1>4

\* After the loop of append what is held besides the newest chunks is within the
\* limit, as it was before.
LEMMA LoopKeeps ==
  ASSUME Res!TypeOK, Res!OldKept, NEW s \in Sets,
         chunks' \in [Sets -> Chunks], Len(chunks'[s]) <= MaxChunks, inMem' \in [Sets -> Nat], used' \in Nat,
         used' = Cardinality(Res!Held'), inMem'[s] = Cardinality(Res!HeldBy({s})'),
         spilling' = [spilling EXCEPT ![s] = Res!Next2Spill(chunks'[s], inMem'[s], used')],
         UNCHANGED <<limit, ceiling>>,
         \A t \in Sets : t # s => chunks'[t] = chunks[t] /\ (t \in short => t \in short')
  PROVE  /\ Res!OldKept' /\ spilling' \in [Sets -> 0..MaxChunks]
         /\ spilling'[s] > 0 => spilling'[s] \in Res!InMemory(chunks'[s])
<1>0. PICK cs \in Chunks, bytes \in Nat, total \in Nat :
        cs = chunks'[s] /\ bytes = inMem'[s] /\ total = used'
  OBVIOUS
<1>1. PICK spills : /\ spills = Res!Next2Spill(cs, bytes, total)
                   /\ cs = chunks'[s] /\ bytes = inMem'[s] /\ total = used'
  BY <1>0
<1>2. /\ spills \in 0..MaxChunks
      /\ spills > 0 => spills \in Res!InMemory(cs)
      /\ spills = 0 => total <= limit \/ bytes = 0 \/ \A i \in Res!InMemory(cs) : i = Len(cs)
  <2>1. limit \in Nat /\ cs \in Seq([size : Res!Sizes, at : {"mem", "disk"}]) /\ Len(cs) <= MaxChunks
    BY <1>1, ResConstants DEF Res!TypeOK, Chunks
  <2> QED BY <1>1, <2>1, LoopHead
<1>3. /\ spilling' = [spilling EXCEPT ![s] = spills]
      /\ spilling \in [Sets -> 0..MaxChunks]
  BY <1>1 DEF Res!TypeOK
<1>4. /\ spilling' \in [Sets -> 0..MaxChunks] /\ spilling'[s] = spills
      /\ \A t \in Sets : t # s => spilling'[t] = spilling[t]
  BY <1>2, <1>3
<1>5. ASSUME spills > 0 \/ bytes = 0 \/ \A i \in Res!InMemory(cs) : i = Len(cs)
      PROVE  Res!OldHeld' \subseteq Res!OldHeld
  <2> SUFFICES ASSUME NEW b \in Res!OldHeld' PROVE b \in Res!OldHeld
    OBVIOUS
  <2>1. /\ b \in Res!Held' /\ b[1] \notin short' /\ spilling'[b[1]] = 0 /\ b[2] # Len(chunks'[b[1]])
        /\ b \in Sets \X (1..MaxChunks) \X Res!Sizes /\ b[1] \in Sets
        /\ b[2] \in Res!InMemory(chunks'[b[1]]) /\ b[3] <= chunks'[b[1]][b[2]].size
    BY DEF Res!OldHeld, Res!Held
  <2>2. CASE b[1] = s
    <3>1. spills = 0
      BY <1>2, <1>4, <2>1, <2>2
    <3>2. bytes # 0
      <4>1. Res!HeldBy({s})' # {} /\ Res!HeldBy({s})' \subseteq Bytes
        BY <2>1, <2>2 DEF Res!HeldBy, Res!Held, Bytes
      <4>2. IsFiniteSet(Res!HeldBy({s})')
        BY <4>1, HeldFinite
      <4>3. Cardinality(Res!HeldBy({s})') # 0
        BY <4>1, <4>2, FS_EmptySet
      <4> QED BY <1>1, <4>3
    <3> QED BY <1>1, <1>5, <2>1, <2>2, <3>1, <3>2
  <2>3. CASE b[1] # s
    BY <1>4, <2>1, <2>3 DEF Res!OldHeld, Res!Held
  <2> QED BY <2>2, <2>3
<1>6. /\ Res!OldHeld \subseteq Bytes /\ Res!OldHeld' \subseteq Res!Held' /\ Res!Held' \subseteq Bytes
  BY DEF Res!OldHeld, Res!Held, Bytes
<1>7. Cardinality(Res!OldHeld') <= ceiling
  <2>0. /\ ceiling \in Nat /\ limit \in Nat /\ limit <= ceiling /\ Cardinality(Res!OldHeld) <= ceiling
        /\ Cardinality(Res!OldHeld) \in Nat /\ Cardinality(Res!OldHeld') \in Nat
        /\ IsFiniteSet(Res!OldHeld) /\ IsFiniteSet(Res!Held')
    BY <1>6, HeldFinite, SameCount, ResConstants DEF Res!TypeOK, Res!OldKept
  <2>1. CASE spills > 0 \/ bytes = 0 \/ \A i \in Res!InMemory(cs) : i = Len(cs)
    <3>1. Cardinality(Res!OldHeld') <= Cardinality(Res!OldHeld)
      BY <1>5, <2>0, <2>1, FS_Subset
    <3> QED BY <2>0, <3>1
  <2>2. CASE total <= limit
    <3>1. Cardinality(Res!OldHeld') <= Cardinality(Res!Held')
      BY <1>6, <2>0, FS_Subset
    <3> QED BY <1>1, <2>0, <2>2, <3>1
  <2>3. spills > 0 \/ spills = 0
    BY <1>2
  <2> QED BY <1>2, <2>1, <2>2, <2>3
<1>8. Res!OldKept'
  <2>1. limit' <= ceiling' /\ Cardinality(Res!OldHeld') <= ceiling'
    BY <1>7 DEF Res!OldKept
  <2> QED BY <2>1, SameCount DEF Res!OldKept
<1> QED BY <1>1, <1>2, <1>4, <1>8

LEMMA ResAdd ==
  ASSUME Res!IInv, NEW s \in Sets, NEW n \in Res!Sizes, Res!Add(s, n)
  PROVE  Res!IInv'
<1>1. /\ setLife[s] = "live" /\ spilling[s] = 0 /\ Len(chunks[s]) < MaxChunks
      /\ chunks' = [chunks EXCEPT ![s] = Append(@, [size |-> n, at |-> "mem"])]
      /\ inMem' = [inMem EXCEPT ![s] = @ + n] /\ used' = used + n
      /\ spilling' = [spilling EXCEPT ![s] = Res!Next2Spill(chunks'[s], inMem'[s], used')]
      /\ short' = short \ {s}
      /\ UNCHANGED <<limit, ceiling, setLife, files, torn, spillFaults>>
  BY DEF Res!Add
<1>2. /\ chunks \in [Sets -> Chunks] /\ inMem \in [Sets -> Nat] /\ used \in Nat /\ n \in Nat /\ n \in 1..MaxSize
  <2>1. chunks \in [Sets -> Chunks] /\ inMem \in [Sets -> Nat] /\ used \in Nat
    BY DEF Res!IInv, Res!TypeOK, Chunks
  <2>2. n \in 1..MaxSize /\ n \in Nat
    BY ResConstants DEF Res!Sizes
  <2> QED BY <2>1, <2>2
<1>3. PICK last \in Nat : last = Len(chunks[s])
  BY <1>2, ChunkFacts
<1>4. PICK new : new = ChunkBytes(s, last + 1, n)
  OBVIOUS
<1>5. /\ chunks' \in [Sets -> Chunks] /\ \A t \in Sets : t # s => chunks'[t] = chunks[t]
      /\ Len(chunks'[s]) = last + 1 /\ chunks'[s][last + 1] = [size |-> n, at |-> "mem"]
      /\ \A i \in 1..last : chunks'[s][i] = chunks[s][i]
  <2>1. [size |-> n, at |-> "mem"] \in [size : Res!Sizes, at : {"mem", "disk"}]
    OBVIOUS
  <2>2. chunks[s] \in Seq([size : Res!Sizes, at : {"mem", "disk"}])
    BY <1>2 DEF Chunks
  <2>3. chunks'[s] = Append(chunks[s], [size |-> n, at |-> "mem"])
    BY <1>1, <1>2
  <2>4. chunks'[s] \in Chunks
    BY <2>1, <2>2, <2>3 DEF Chunks
  <2>5. chunks' \in [Sets -> Chunks] /\ \A t \in Sets : t # s => chunks'[t] = chunks[t]
    BY <1>1, <1>2, <2>3, <2>4
  <2>6. /\ Len(chunks'[s]) = last + 1 /\ chunks'[s][last + 1] = [size |-> n, at |-> "mem"]
        /\ \A i \in 1..last : chunks'[s][i] = chunks[s][i]
    BY <1>3, <2>1, <2>2, <2>3
  <2> QED BY <2>5, <2>6
<1>6. /\ \A i : i \in Res!InMemory(chunks'[s]) <=> i \in Res!InMemory(chunks[s]) \/ i = last + 1
      /\ last + 1 \notin Res!InMemory(chunks[s]) /\ last + 1 \in 1..MaxChunks
      /\ Res!InMemory(chunks[s]) \subseteq 1..last
  <2>1. DOMAIN chunks[s] = 1..last /\ DOMAIN chunks'[s] = 1..(last + 1)
    BY <1>2, <1>3, <1>5, ChunkFacts
  <2>2. \A i : i \in 1..(last + 1) <=> i \in 1..last \/ i = last + 1
    OBVIOUS
  <2>3. last + 1 \notin 1..last
    OBVIOUS
  <2> QED BY <1>1, <1>3, <1>5, <2>1, <2>2, <2>3, ResConstants DEF Res!InMemory
<1>7. /\ new \subseteq Bytes /\ Cardinality(new) = n /\ new \cap Res!Held = {}
      /\ \A b \in new : b[1] = s
  <2>1. 1..n \subseteq Res!Sizes
    BY <1>2, ResConstants DEF Res!Sizes
  <2>2. new \subseteq Bytes /\ \A b \in new : b[1] = s /\ b[2] = last + 1
    BY <1>4, <1>6, <2>1 DEF Bytes, ChunkBytes
  <2>3. Cardinality(new) = n
    BY <1>2, <1>4, ByteCount
  <2> QED BY <1>6, <2>2, <2>3 DEF Res!Held
<1>8. Res!Held' = Res!Held \cup new
  <2>1. ASSUME NEW b \in Bytes PROVE b \in Res!Held' <=> b \in Res!Held \/ b \in new
    <3>1. /\ b \in Res!Held' <=> b[2] \in Res!InMemory(chunks'[b[1]]) /\ b[3] <= chunks'[b[1]][b[2]].size
          /\ b \in Res!Held <=> b[2] \in Res!InMemory(chunks[b[1]]) /\ b[3] <= chunks[b[1]][b[2]].size
          /\ b[1] \in Sets /\ b[2] \in 1..MaxChunks /\ b[3] \in 1..MaxSize /\ b = <<b[1], b[2], b[3]>>
      BY DEF Res!Held, Bytes, Res!Sizes
    <3>2. CASE b[1] # s
      BY <1>5, <1>7, <3>1, <3>2
    <3>3. CASE b[1] = s /\ b[2] # last + 1
      <4>1. b \notin new
        BY <1>4, <3>3 DEF ChunkBytes
      <4> QED BY <1>5, <1>6, <3>1, <3>3, <4>1
    <3>4. CASE b[1] = s /\ b[2] = last + 1
      <4>1. b \in new <=> b[3] \in 1..n
        BY <1>4, <3>1, <3>4 DEF ChunkBytes
      <4>2. b[3] <= n <=> b[3] \in 1..n
        BY <1>2, <3>1, ResConstants
      <4> QED BY <1>5, <1>6, <3>1, <3>4, <4>1, <4>2
    <3> QED BY <3>2, <3>3, <3>4
  <2>2. Res!Held' \subseteq Bytes /\ Res!Held \subseteq Bytes
    BY DEF Res!Held, Bytes
  <2> QED BY <1>7, <2>1, <2>2
<1>9. used' = Cardinality(Res!Held')
  <2>1. used = Cardinality(Res!Held)
    BY SameCount DEF Res!IInv, Res!Accounted
  <2>2. Cardinality(Res!Held \cup new) = Cardinality(Res!Held) + Cardinality(new)
    BY <1>7, HeldBytes, CountGrows
  <2> QED BY <1>1, <1>7, <1>8, <2>1, <2>2
<1>10. \A t \in Sets : inMem'[t] = Cardinality(Res!HeldBy({t})')
  <2> SUFFICES ASSUME NEW t \in Sets PROVE inMem'[t] = Cardinality(Res!HeldBy({t})')
    OBVIOUS
  <2>1. inMem[t] = Cardinality(Res!HeldBy({t}))
    BY SameCount DEF Res!IInv, Res!Accounted
  <2>2. CASE t = s
    <3>1. Res!HeldBy({t})' = Res!HeldBy({t}) \cup new /\ Res!HeldBy({t}) \cap new = {}
      BY <1>7, <1>8, <2>2 DEF Res!HeldBy
    <3>2. Cardinality(Res!HeldBy({t}) \cup new) = Cardinality(Res!HeldBy({t})) + Cardinality(new)
      BY <1>7, <3>1, HeldBytes, CountGrows
    <3> QED BY <1>1, <1>2, <1>7, <2>1, <2>2, <3>1, <3>2
  <2>3. CASE t # s
    <3>1. Res!HeldBy({t})' = Res!HeldBy({t})
      BY <1>7, <1>8, <2>3 DEF Res!HeldBy
    <3> QED BY <1>1, <1>2, <2>1, <2>3, <3>1
  <2> QED BY <2>2, <2>3
<1>11. inMem' \in [Sets -> Nat] /\ used' \in Nat
  BY <1>1, <1>2
<1>12. /\ Res!OldKept' /\ spilling' \in [Sets -> 0..MaxChunks]
       /\ spilling'[s] > 0 => spilling'[s] \in Res!InMemory(chunks'[s])
  <2>1. Len(chunks'[s]) <= MaxChunks
    BY <1>1, <1>3, <1>5, ResConstants
  <2>2. \A t \in Sets : t # s => chunks'[t] = chunks[t] /\ (t \in short => t \in short')
    BY <1>1, <1>5
  <2>3. Res!TypeOK /\ Res!OldKept /\ limit' = limit /\ ceiling' = ceiling
    BY <1>1 DEF Res!IInv
  <2> QED BY <1>1, <1>5, <1>9, <1>10, <1>11, <2>1, <2>2, <2>3, LoopKeeps
<1>13. Res!Writes'
  <2> SUFFICES ASSUME NEW t \in Sets
               PROVE  /\ Len(chunks'[t]) <= MaxChunks
                      /\ spilling'[t] > 0 => spilling'[t] \in Res!InMemory(chunks'[t])
    BY DEF Res!Writes
  <2>1. CASE t = s
    BY <1>1, <1>3, <1>5, <1>12, <2>1, ResConstants
  <2>2. CASE t # s
    BY <1>1, <1>5, <2>2 DEF Res!IInv, Res!Writes, Res!TypeOK
  <2> QED BY <2>1, <2>2
<1>14. files' = {f \in Res!Room : f[2] \in DOMAIN chunks'[f[1]] /\ chunks'[f[1]][f[2]].at = "disk"}
  <2>1. ASSUME NEW f \in Res!Room
        PROVE  (f[2] \in DOMAIN chunks'[f[1]] /\ chunks'[f[1]][f[2]].at = "disk")
                 <=> (f[2] \in DOMAIN chunks[f[1]] /\ chunks[f[1]][f[2]].at = "disk")
    <3>1. DOMAIN chunks[s] = 1..last /\ DOMAIN chunks'[s] = 1..(last + 1)
      BY <1>2, <1>3, <1>5, ChunkFacts
    <3>2. f[1] \in Sets
      BY DEF Res!Room
    <3>3. CASE f[1] # s
      BY <1>5, <3>2, <3>3
    <3>4. CASE f[1] = s /\ f[2] = last + 1
      BY <1>5, <3>1, <3>4
    <3>5. CASE f[1] = s /\ f[2] # last + 1
      <4>1. f[2] \in 1..(last + 1) <=> f[2] \in 1..last
        BY <3>5
      <4> QED BY <1>5, <3>1, <3>5, <4>1
    <3> QED BY <3>3, <3>4, <3>5
  <2>2. files = {f \in Res!Room : f[2] \in DOMAIN chunks[f[1]] /\ chunks[f[1]][f[2]].at = "disk"}
    BY DEF Res!IInv, Res!Accounted
  <2>3. files' = files
    BY <1>1
  <2> QED BY <2>1, <2>2, <2>3
<1>15. Res!TypeOK'
  BY <1>1, <1>5, <1>11, <1>12 DEF Res!IInv, Res!TypeOK, Chunks
<1>16. Res!Accounted'
  BY <1>9, <1>10, <1>14, SameCount DEF Res!Accounted
<1> QED BY <1>12, <1>13, <1>15, <1>16 DEF Res!IInv

LEMMA ResSpilled ==
  ASSUME Res!IInv, NEW s \in Sets, Res!Spilled(s)
  PROVE  Res!IInv'
<1>1. PICK i \in Nat, freed \in Nat : i = spilling[s] /\ freed = chunks[s][i].size
  <2>1. spilling[s] \in Nat /\ spilling[s] \in Res!InMemory(chunks[s]) /\ chunks[s] \in Chunks
    <3>1. spilling[s] > 0 /\ spilling \in [Sets -> 0..MaxChunks] /\ chunks \in [Sets -> Chunks]
      BY DEF Res!IInv, Res!TypeOK, Res!Spilled, Chunks
    <3>2. spilling[s] \in Res!InMemory(chunks[s])
      BY <3>1 DEF Res!IInv, Res!Writes
    <3> QED BY <3>1, <3>2, ResConstants
  <2>2. spilling[s] \in 1..Len(chunks[s])
    BY <2>1, ChunkFacts DEF Res!InMemory
  <2>3. chunks[s][spilling[s]].size \in Nat
    BY <2>1, <2>2, ChunkFacts
  <2> QED BY <2>1, <2>3
<1>2. /\ spilling[s] > 0 /\ files' = files \cup {<<s, i>>}
      /\ chunks' = [chunks EXCEPT ![s][i].at = "disk"]
      /\ inMem' = [inMem EXCEPT ![s] = Res!Less(@, freed)] /\ used' = Res!Less(used, freed)
      /\ spilling' = [spilling EXCEPT ![s] = Res!Next2Spill(chunks'[s], inMem'[s], used')]
      /\ UNCHANGED <<limit, ceiling, setLife, short, torn, spillFaults>>
  BY <1>1 DEF Res!Spilled
<1>3. /\ chunks \in [Sets -> Chunks] /\ inMem \in [Sets -> Nat] /\ used \in Nat
  BY DEF Res!IInv, Res!TypeOK, Chunks
<1>4. PICK last \in Nat : last = Len(chunks[s]) /\ last <= MaxChunks
  BY <1>3, ChunkFacts DEF Res!IInv, Res!Writes
<1>5. /\ i \in 1..last /\ i \in 1..MaxChunks /\ freed \in 1..MaxSize
      /\ chunks[s][i].at = "mem" /\ i \in Res!InMemory(chunks[s])
  <2>1. i \in Res!InMemory(chunks[s])
    BY <1>1, <1>2 DEF Res!IInv, Res!Writes
  <2>2. i \in 1..last /\ chunks[s][i].at = "mem"
    BY <1>3, <1>4, <2>1, ChunkFacts DEF Res!InMemory
  <2>3. freed \in 1..MaxSize
    BY <1>1, <1>3, <1>4, <2>2, ChunkFacts
  <2> QED BY <1>4, <2>1, <2>2, <2>3, ResConstants
<1>6. /\ chunks' \in [Sets -> Chunks] /\ \A t \in Sets : t # s => chunks'[t] = chunks[t]
      /\ Len(chunks'[s]) = last /\ DOMAIN chunks'[s] = 1..last /\ DOMAIN chunks[s] = 1..last
      /\ chunks'[s][i].at = "disk"
      /\ \A j \in 1..last : j # i => chunks'[s][j] = chunks[s][j]
  <2>1. PICK kinds : kinds = [size : Res!Sizes, at : {"mem", "disk"}]
    OBVIOUS
  <2>2. PICK cs \in Seq(kinds) : cs = chunks[s]
    BY <1>3, <2>1 DEF Chunks
  <2>3. DOMAIN cs = 1..last /\ cs[i] \in kinds
    BY <1>4, <1>5, <2>2
  <2>4. PICK chunk : chunk = [cs[i] EXCEPT !.at = "disk"]
    OBVIOUS
  <2>5. chunk \in kinds /\ chunk.at = "disk"
    BY <2>1, <2>3, <2>4
  <2>6. chunks'[s] = [cs EXCEPT ![i] = chunk]
    BY <1>2, <1>3, <2>2, <2>4
  <2>7. PICK ds : ds = [cs EXCEPT ![i] = chunk]
    OBVIOUS
  <2>8. ds \in Seq(kinds) /\ Len(ds) = last
    <3>1. Len(cs) = last /\ cs \in [1..last -> kinds]
      BY <1>4, <2>2, <2>3
    <3>2. ds \in [1..last -> kinds]
      BY <2>5, <2>7, <3>1
    <3> QED BY <3>2
  <2>9. DOMAIN ds = 1..last /\ ds[i] = chunk /\ \A j \in 1..last : j # i => ds[j] = cs[j]
    BY <1>5, <2>3, <2>7
  <2>10. ds \in Chunks
    BY <2>1, <2>8 DEF Chunks
  <2>11. chunks' \in [Sets -> Chunks] /\ \A t \in Sets : t # s => chunks'[t] = chunks[t]
    BY <1>2, <1>3, <2>6, <2>7, <2>10
  <2> QED BY <2>2, <2>3, <2>5, <2>6, <2>7, <2>8, <2>9, <2>11
<1>7. \A j : j \in Res!InMemory(chunks'[s]) <=> j \in Res!InMemory(chunks[s]) /\ j # i
  BY <1>5, <1>6 DEF Res!InMemory
<1>8. PICK gone : gone = ChunkBytes(s, i, freed)
  OBVIOUS
<1>9. gone \subseteq Res!Held /\ Cardinality(gone) = freed /\ \A b \in gone : b[1] = s
  <2>1. Cardinality(gone) = freed
    BY <1>8, ByteCount
  <2>2. ASSUME NEW b \in gone PROVE b \in Res!Held /\ b[1] = s
    <3>1. PICK c \in 1..freed : b = <<s, i, c>>
      BY <1>8 DEF ChunkBytes
    <3>2. c \in Res!Sizes /\ c <= freed
      BY <1>5, ResConstants DEF Res!Sizes
    <3> QED BY <1>1, <1>5, <3>1, <3>2 DEF Res!Held
  <2> QED BY <2>1, <2>2
<1>10. Res!Held' = Res!Held \ gone
  <2>1. ASSUME NEW b \in Bytes PROVE b \in Res!Held' <=> b \in Res!Held /\ b \notin gone
    <3>1. /\ b \in Res!Held' <=> b[2] \in Res!InMemory(chunks'[b[1]]) /\ b[3] <= chunks'[b[1]][b[2]].size
          /\ b \in Res!Held <=> b[2] \in Res!InMemory(chunks[b[1]]) /\ b[3] <= chunks[b[1]][b[2]].size
          /\ b[1] \in Sets /\ b[2] \in 1..MaxChunks /\ b[3] \in 1..MaxSize /\ b = <<b[1], b[2], b[3]>>
      BY DEF Res!Held, Bytes, Res!Sizes
    <3>2. CASE b[1] # s
      BY <1>6, <1>9, <3>1, <3>2
    <3>3. CASE b[1] = s /\ b[2] # i
      <4>1. b \notin gone
        BY <1>8, <3>3 DEF ChunkBytes
      <4>2. b[2] \in Res!InMemory(chunks[s]) => b[2] \in 1..last
        BY <1>6 DEF Res!InMemory
      <4> QED BY <1>6, <1>7, <3>1, <3>3, <4>1, <4>2
    <3>4. CASE b[1] = s /\ b[2] = i
      <4>1. b \in gone <=> b[3] \in 1..freed
        BY <1>8, <3>1, <3>4 DEF ChunkBytes
      <4>2. b[3] <= freed <=> b[3] \in 1..freed
        BY <3>1, ResConstants
      <4> QED BY <1>1, <1>7, <3>1, <3>4, <4>1, <4>2
    <3> QED BY <3>2, <3>3, <3>4
  <2>2. Res!Held' \subseteq Bytes /\ Res!Held \subseteq Bytes
    BY DEF Res!Held, Bytes
  <2> QED BY <2>1, <2>2
<1>11. used' = Cardinality(Res!Held') /\ used' \in Nat
  <2>1. used = Cardinality(Res!Held)
    BY SameCount DEF Res!IInv, Res!Accounted
  <2>2. /\ Cardinality(Res!Held \ gone) = Cardinality(Res!Held) - Cardinality(gone)
        /\ Cardinality(gone) <= Cardinality(Res!Held)
    BY <1>9, HeldBytes, CountShrinks
  <2>3. used' = used - freed /\ freed <= used
    BY <1>2, <1>3, <1>9, <2>1, <2>2 DEF Res!Less
  <2> QED BY <1>3, <1>9, <1>10, <2>1, <2>2, <2>3
<1>12. \A t \in Sets : inMem'[t] = Cardinality(Res!HeldBy({t})') /\ inMem'[t] \in Nat
  <2> SUFFICES ASSUME NEW t \in Sets PROVE inMem'[t] = Cardinality(Res!HeldBy({t})') /\ inMem'[t] \in Nat
    OBVIOUS
  <2>1. inMem[t] = Cardinality(Res!HeldBy({t})) /\ inMem[t] \in Nat
    BY <1>3, SameCount DEF Res!IInv, Res!Accounted
  <2>2. CASE t = s
    <3>1. Res!HeldBy({t})' = Res!HeldBy({t}) \ gone /\ gone \subseteq Res!HeldBy({t})
      BY <1>9, <1>10, <2>2 DEF Res!HeldBy
    <3>2. /\ Cardinality(Res!HeldBy({t}) \ gone) = Cardinality(Res!HeldBy({t})) - Cardinality(gone)
          /\ Cardinality(gone) <= Cardinality(Res!HeldBy({t}))
      <4>1. Res!HeldBy({t}) \subseteq Bytes
        BY HeldBytes
      <4> QED BY <3>1, <4>1, CountShrinks
    <3>3. inMem'[t] = inMem[t] - freed /\ freed <= inMem[t]
      BY <1>2, <1>3, <1>9, <2>1, <2>2, <3>2 DEF Res!Less
    <3>4. Cardinality(Res!HeldBy({t})') = inMem[t] - freed
      BY <1>9, <2>1, <3>1, <3>2
    <3>5. inMem[t] - freed \in Nat
      BY <2>1, <3>3
    <3> QED BY <2>2, <3>3, <3>4, <3>5
  <2>3. CASE t # s
    <3>1. Res!HeldBy({t})' = Res!HeldBy({t})
      BY <1>9, <1>10, <2>3 DEF Res!HeldBy
    <3> QED BY <1>2, <1>3, <2>1, <2>3, <3>1
  <2> QED BY <2>2, <2>3
<1>13. inMem' \in [Sets -> Nat]
  BY <1>2, <1>3, <1>12
<1>14. /\ Res!OldKept' /\ spilling' \in [Sets -> 0..MaxChunks]
       /\ spilling'[s] > 0 => spilling'[s] \in Res!InMemory(chunks'[s])
  <2>1. Len(chunks'[s]) <= MaxChunks
    BY <1>4, <1>6
  <2>2. \A t \in Sets : t # s => chunks'[t] = chunks[t] /\ (t \in short => t \in short')
    BY <1>2, <1>6
  <2>3. Res!TypeOK /\ Res!OldKept /\ limit' = limit /\ ceiling' = ceiling
    BY <1>2 DEF Res!IInv
  <2> QED BY <1>2, <1>6, <1>11, <1>12, <1>13, <2>1, <2>2, <2>3, LoopKeeps
<1>15. Res!Writes'
  <2> SUFFICES ASSUME NEW t \in Sets
               PROVE  /\ Len(chunks'[t]) <= MaxChunks
                      /\ spilling'[t] > 0 => spilling'[t] \in Res!InMemory(chunks'[t])
    BY DEF Res!Writes
  <2>1. CASE t = s
    BY <1>4, <1>6, <1>14, <2>1
  <2>2. CASE t # s
    BY <1>2, <1>6, <2>2 DEF Res!IInv, Res!Writes, Res!TypeOK
  <2> QED BY <2>1, <2>2
<1>16. files' = {f \in Res!Room : f[2] \in DOMAIN chunks'[f[1]] /\ chunks'[f[1]][f[2]].at = "disk"}
  <2>1. ASSUME NEW f \in Res!Room
        PROVE  (f[2] \in DOMAIN chunks'[f[1]] /\ chunks'[f[1]][f[2]].at = "disk")
                 <=> f = <<s, i>> \/ (f[2] \in DOMAIN chunks[f[1]] /\ chunks[f[1]][f[2]].at = "disk")
    <3>1. f[1] \in Sets /\ f = <<f[1], f[2]>>
      BY DEF Res!Room
    <3>2. CASE f[1] # s
      BY <1>6, <3>1, <3>2
    <3>3. CASE f[1] = s /\ f[2] = i
      BY <1>5, <1>6, <3>1, <3>3
    <3>4. CASE f[1] = s /\ f[2] # i
      BY <1>6, <3>1, <3>4
    <3> QED BY <3>2, <3>3, <3>4
  <2>2. files = {f \in Res!Room : f[2] \in DOMAIN chunks[f[1]] /\ chunks[f[1]][f[2]].at = "disk"}
    BY DEF Res!IInv, Res!Accounted
  <2>3. files' = files \cup {<<s, i>>} /\ <<s, i>> \in Res!Room
    BY <1>2, <1>5 DEF Res!Room
  <2> QED BY <2>1, <2>2, <2>3
<1>17. files' \subseteq Res!Room
  BY <1>16
<1>18. Res!TypeOK'
  BY <1>2, <1>6, <1>11, <1>13, <1>14, <1>17 DEF Res!IInv, Res!TypeOK, Chunks
<1>19. Res!Accounted'
  BY <1>11, <1>12, <1>16, SameCount DEF Res!Accounted
<1> QED BY <1>14, <1>15, <1>18, <1>19 DEF Res!IInv

\* Where fewer sets count and no byte is added, no more is held besides.
LEMMA OldShrinks ==
  ASSUME Res!OldKept, Res!TypeOK, Res!OldHeld' \subseteq Res!OldHeld,
         ceiling' \in Nat, ceiling <= ceiling', limit' <= ceiling'
  PROVE  Res!OldKept'
<1>1. /\ IsFiniteSet(Res!OldHeld) /\ Cardinality(Res!OldHeld) \in Nat
      /\ Cardinality(Res!OldHeld') \in Nat /\ Res!OldHeld \subseteq Bytes
  BY HeldBytes, HeldFinite
<1>2. Cardinality(Res!OldHeld') <= Cardinality(Res!OldHeld)
  BY <1>1, FS_Subset
<1>3. Cardinality(Res!OldHeld) <= ceiling /\ ceiling \in Nat
  BY SameCount, ResConstants DEF Res!OldKept, Res!TypeOK
<1>4. Cardinality(Res!OldHeld') <= ceiling'
  BY <1>1, <1>2, <1>3
<1> QED BY <1>4, SameCount DEF Res!OldKept

LEMMA ResDrop ==
  ASSUME Res!IInv, NEW s \in Sets, Res!DropSet(s)
  PROVE  Res!IInv'
<1>1. /\ spilling[s] = 0
      /\ setLife' = [setLife EXCEPT ![s] = "gone"] /\ chunks' = [chunks EXCEPT ![s] = <<>>]
      /\ used' = Res!Less(used, inMem[s]) /\ inMem' = [inMem EXCEPT ![s] = 0]
      /\ files' = {f \in files : f[1] # s} /\ short' = short \ {s}
      /\ UNCHANGED <<limit, ceiling, spilling, torn, spillFaults>>
  BY DEF Res!DropSet
<1>2. chunks \in [Sets -> Chunks] /\ inMem \in [Sets -> Nat] /\ used \in Nat
  BY DEF Res!IInv, Res!TypeOK, Chunks
<1>3. /\ chunks' \in [Sets -> Chunks] /\ chunks'[s] = <<>>
      /\ \A t \in Sets : t # s => chunks'[t] = chunks[t]
  <2>1. <<>> \in Chunks
    BY DEF Chunks
  <2> QED BY <1>1, <1>2, <2>1
<1>4. Res!InMemory(chunks'[s]) = {} /\ DOMAIN chunks'[s] = {} /\ Len(chunks'[s]) = 0
  BY <1>3 DEF Res!InMemory
<1>5. Res!Held' = Res!Held \ Res!HeldBy({s})
  BY <1>3, <1>4 DEF Res!Held, Res!HeldBy
<1>6. /\ used = Cardinality(Res!Held) /\ \A t \in Sets : inMem[t] = Cardinality(Res!HeldBy({t}))
      /\ files = {f \in Res!Room : f[2] \in DOMAIN chunks[f[1]] /\ chunks[f[1]][f[2]].at = "disk"}
  BY SameCount DEF Res!IInv, Res!Accounted
<1>7. used' = Cardinality(Res!Held') /\ used' \in Nat
  <2>1. /\ Cardinality(Res!Held \ Res!HeldBy({s})) = Cardinality(Res!Held) - Cardinality(Res!HeldBy({s}))
        /\ Cardinality(Res!HeldBy({s})) <= Cardinality(Res!Held)
    BY HeldBytes, CountShrinks
  <2>2. inMem[s] \in Nat
    BY <1>2
  <2>3. used' = used - inMem[s] /\ inMem[s] <= used
    BY <1>1, <1>2, <1>6, <2>1, <2>2 DEF Res!Less
  <2> QED BY <1>2, <1>5, <1>6, <2>1, <2>2, <2>3
<1>8. \A t \in Sets : inMem'[t] = Cardinality(Res!HeldBy({t})')
  <2> SUFFICES ASSUME NEW t \in Sets PROVE inMem'[t] = Cardinality(Res!HeldBy({t})')
    OBVIOUS
  <2>1. CASE t = s
    <3>1. Res!HeldBy({t})' = {}
      BY <1>5, <2>1 DEF Res!HeldBy
    <3> QED BY <1>1, <1>2, <2>1, <3>1, FS_EmptySet
  <2>2. CASE t # s
    <3>1. Res!HeldBy({t})' = Res!HeldBy({t})
      BY <1>5, <2>2 DEF Res!HeldBy
    <3> QED BY <1>1, <1>2, <1>6, <2>2, <3>1
  <2> QED BY <2>1, <2>2
<1>9. files' = {f \in Res!Room : f[2] \in DOMAIN chunks'[f[1]] /\ chunks'[f[1]][f[2]].at = "disk"}
  <2>1. ASSUME NEW f \in Res!Room
        PROVE  (f[2] \in DOMAIN chunks'[f[1]] /\ chunks'[f[1]][f[2]].at = "disk")
                 <=> f[1] # s /\ f[2] \in DOMAIN chunks[f[1]] /\ chunks[f[1]][f[2]].at = "disk"
    BY <1>3, <1>4 DEF Res!Room
  <2> QED BY <1>1, <1>6, <2>1
<1>10. Res!OldKept'
  <2>1. Res!OldHeld' \subseteq Res!OldHeld
    <3> SUFFICES ASSUME NEW b \in Res!OldHeld' PROVE b \in Res!OldHeld
      OBVIOUS
    <3>1. /\ b \in Res!Held' /\ b[1] \notin short' /\ spilling'[b[1]] = 0 /\ b[2] # Len(chunks'[b[1]])
          /\ b[1] \in Sets
      BY DEF Res!OldHeld, Res!Held
    <3>2. b \in Res!Held /\ b[1] # s
      BY <1>5, <3>1 DEF Res!HeldBy
    <3> QED BY <1>1, <1>3, <3>1, <3>2 DEF Res!OldHeld
  <2>2. ceiling' = ceiling /\ limit' = limit /\ limit <= ceiling /\ ceiling \in Nat
    BY <1>1, ResConstants DEF Res!IInv, Res!OldKept, Res!TypeOK
  <2> QED BY <2>1, <2>2, OldShrinks DEF Res!IInv
<1>11. Res!Writes'
  <2> SUFFICES ASSUME NEW t \in Sets
               PROVE  /\ Len(chunks'[t]) <= MaxChunks
                      /\ spilling'[t] > 0 => spilling'[t] \in Res!InMemory(chunks'[t])
    BY DEF Res!Writes
  <2>1. CASE t = s
    BY <1>1, <1>4, <2>1, ResConstants
  <2>2. CASE t # s
    BY <1>1, <1>3, <2>2 DEF Res!IInv, Res!Writes
  <2> QED BY <2>1, <2>2
<1>12. Res!TypeOK'
  <2>1. inMem' \in [Sets -> Nat] /\ files' \subseteq Res!Room /\ short' \subseteq Sets
    BY <1>1, <1>2, <1>9 DEF Res!IInv, Res!TypeOK
  <2>2. setLife' \in [Sets -> {"new", "live", "gone"}]
    BY <1>1 DEF Res!IInv, Res!TypeOK
  <2> QED BY <1>1, <1>3, <1>7, <2>1, <2>2 DEF Res!IInv, Res!TypeOK, Chunks
<1>13. Res!Accounted'
  BY <1>7, <1>8, <1>9, SameCount DEF Res!Accounted
<1> QED BY <1>10, <1>11, <1>12, <1>13 DEF Res!IInv

LEMMA ResInitInv == Res!Init => Res!IInv
<1> SUFFICES ASSUME Res!Init PROVE Res!IInv
  OBVIOUS
<1>1. \A s \in Sets : chunks[s] = <<>> /\ inMem[s] = 0 /\ spilling[s] = 0
  BY DEF Res!Init
<1>2. Res!Held = {} /\ Res!OldHeld = {} /\ \A some : Res!HeldBy(some) = {}
  BY <1>1 DEF Res!Held, Res!OldHeld, Res!HeldBy, Res!InMemory
<1>3. Cardinality({}) = 0
  BY FS_EmptySet
<1>4. <<>> \in Chunks /\ DOMAIN <<>> = {} /\ Len(<<>>) = 0
  BY DEF Chunks
<1>5. Res!TypeOK
  <2>1. /\ chunks \in [Sets -> Chunks] /\ inMem \in [Sets -> Nat]
        /\ spilling \in [Sets -> 0..MaxChunks] /\ 0 \in 0..MaxSpillFaults
    BY <1>4, ResConstants DEF Res!Init
  <2> QED BY <2>1 DEF Res!Init, Res!TypeOK, Chunks
<1>6. Res!Accounted
  <2>1. files = {f \in Res!Room : f[2] \in DOMAIN chunks[f[1]] /\ chunks[f[1]][f[2]].at = "disk"}
    BY <1>1, <1>4 DEF Res!Init, Res!Room
  <2>2. used = 0
    BY DEF Res!Init
  <2> QED BY <1>1, <1>2, <1>3, <2>1, <2>2, SameCount DEF Res!Accounted
<1>7. Res!Writes
  BY <1>1, <1>4, ResConstants DEF Res!Writes
<1>8. Res!OldKept
  <2>1. limit \in Nat /\ ceiling = limit
    BY ResConstants DEF Res!Init
  <2> QED BY <1>2, <1>3, <2>1, SameCount DEF Res!OldKept
<1> QED BY <1>5, <1>6, <1>7, <1>8 DEF Res!IInv

LEMMA ResStepInv == Res!IInv /\ Res!Next => Res!IInv'
<1> SUFFICES ASSUME Res!IInv, Res!Next PROVE Res!IInv'
  OBVIOUS
<1>0. Res!TypeOK /\ Res!Accounted /\ Res!Writes /\ Res!OldKept
  BY DEF Res!IInv
<1>1. ASSUME NEW s \in Sets, Res!New(s) PROVE Res!IInv'
  <2>1. /\ setLife' = [setLife EXCEPT ![s] = "live"]
        /\ UNCHANGED <<limit, used, ceiling, chunks, inMem, spilling, short, files, torn, spillFaults>>
    BY <1>1 DEF Res!New
  <2>2. setLife' \in [Sets -> {"new", "live", "gone"}]
    BY <1>0, <2>1 DEF Res!TypeOK
  <2>3. Res!TypeOK'
    BY <1>0, <2>1, <2>2 DEF Res!TypeOK
  <2>4. Res!Held' = Res!Held /\ Res!OldHeld' = Res!OldHeld
    BY <2>1 DEF Res!Held, Res!OldHeld
  <2>5. \A t \in Sets : Res!HeldBy({t})' = Res!HeldBy({t})
    BY <2>4 DEF Res!HeldBy
  <2>6. Res!Accounted'
    BY <1>0, <2>1, <2>4, <2>5, SameCount DEF Res!Accounted
  <2>7. Res!Writes' /\ Res!OldKept'
    BY <1>0, <2>1, <2>4, SameCount DEF Res!Writes, Res!OldKept
  <2> QED BY <2>3, <2>6, <2>7 DEF Res!IInv
<1>2. ASSUME NEW s \in Sets, NEW n \in Res!Sizes, Res!Add(s, n) PROVE Res!IInv'
  BY <1>2, ResAdd
<1>3. ASSUME NEW s \in Sets, Res!Spilled(s) PROVE Res!IInv'
  BY <1>3, ResSpilled
<1>4. ASSUME NEW s \in Sets, Res!SpillFails(s) PROVE Res!IInv'
  <2>1. /\ spilling[s] > 0 /\ spillFaults < MaxSpillFaults /\ spillFaults' = spillFaults + 1
        /\ torn' \in {torn, torn \cup {<<s, spilling[s]>>}}
        /\ spilling' = [spilling EXCEPT ![s] = 0] /\ short' = short \cup {s}
        /\ UNCHANGED <<limit, used, ceiling, setLife, chunks, inMem, files>>
    BY <1>4 DEF Res!SpillFails
  <2>2. spilling' \in [Sets -> 0..MaxChunks] /\ spillFaults' \in 0..MaxSpillFaults
    BY <1>0, <2>1, ResConstants DEF Res!TypeOK
  <2>3. torn' \subseteq Res!Room
    <3>1. spilling[s] \in 1..MaxChunks
      BY <1>0, <2>1, ResConstants DEF Res!TypeOK
    <3> QED BY <1>0, <2>1, <3>1 DEF Res!TypeOK, Res!Room
  <2>4. Res!TypeOK'
    BY <1>0, <2>1, <2>2, <2>3 DEF Res!TypeOK
  <2>5. Res!Held' = Res!Held
    BY <2>1 DEF Res!Held
  <2>6. \A t \in Sets : Res!HeldBy({t})' = Res!HeldBy({t})
    BY <2>5 DEF Res!HeldBy
  <2>7. Res!Accounted'
    BY <1>0, <2>1, <2>5, <2>6, SameCount DEF Res!Accounted
  <2>8. Res!OldHeld' \subseteq Res!OldHeld
    <3> SUFFICES ASSUME NEW b \in Res!OldHeld' PROVE b \in Res!OldHeld
      OBVIOUS
    <3>1. /\ b \in Res!Held /\ b[1] \notin short' /\ spilling'[b[1]] = 0 /\ b[2] # Len(chunks[b[1]])
          /\ b[1] \in Sets
      BY <2>1, <2>5 DEF Res!OldHeld, Res!Held
    <3>2. b[1] # s /\ b[1] \notin short /\ spilling[b[1]] = 0
      BY <1>0, <2>1, <3>1 DEF Res!TypeOK
    <3> QED BY <3>1, <3>2 DEF Res!OldHeld
  <2>9. Res!OldKept'
    <3>1. ceiling' = ceiling /\ limit' = limit /\ limit <= ceiling /\ ceiling \in Nat
      BY <1>0, <2>1, ResConstants DEF Res!OldKept, Res!TypeOK
    <3> QED BY <1>0, <2>8, <3>1, OldShrinks
  <2>10. Res!Writes'
    BY <1>0, <2>1 DEF Res!Writes, Res!TypeOK
  <2> QED BY <2>4, <2>7, <2>9, <2>10 DEF Res!IInv
<1>5. ASSUME NEW s \in Sets, Res!DropSet(s) PROVE Res!IInv'
  BY <1>5, ResDrop
<1>6. ASSUME NEW n \in Limits, Res!SetLimit(n) PROVE Res!IInv'
  <2>1. /\ limit' = n /\ ceiling' = (IF n > ceiling THEN n ELSE ceiling)
        /\ UNCHANGED <<used, setLife, chunks, inMem, spilling, short, files, torn, spillFaults>>
    BY <1>6 DEF Res!SetLimit
  <2>2. n \in Nat /\ ceiling \in Nat /\ limit' \in Limits /\ ceiling' \in Limits
    BY <1>0, <2>1, ResConstants DEF Res!TypeOK
  <2>3. ceiling' \in Nat /\ ceiling <= ceiling' /\ limit' <= ceiling'
    BY <2>1, <2>2
  <2>4. Res!TypeOK'
    BY <1>0, <2>1, <2>2 DEF Res!TypeOK
  <2>5. Res!Held' = Res!Held /\ Res!OldHeld' = Res!OldHeld
    BY <2>1 DEF Res!Held, Res!OldHeld
  <2>6. \A t \in Sets : Res!HeldBy({t})' = Res!HeldBy({t})
    BY <2>5 DEF Res!HeldBy
  <2>7. Res!Accounted'
    BY <1>0, <2>1, <2>5, <2>6, SameCount DEF Res!Accounted
  <2>8. Res!OldKept'
    BY <1>0, <2>3, <2>5, OldShrinks
  <2>9. Res!Writes'
    BY <1>0, <2>1 DEF Res!Writes
  <2> QED BY <2>4, <2>7, <2>8, <2>9 DEF Res!IInv
<1> QED BY <1>1, <1>2, <1>3, <1>4, <1>5, <1>6 DEF Res!Next

\* When nobody is writing, what is held besides is of a set's newest chunk, or of
\* a set the disk refused.
LEMMA ResWithinLimit == Res!IInv => Res!WithinLimit
<1> SUFFICES ASSUME Res!IInv, \A s \in Sets : spilling[s] = 0
             PROVE  used <= ceiling + Cardinality(Res!HeldBy(short))
                              + Cardinality({s \in Sets \ short : chunks[s] # <<>>} \X Res!Sizes)
  BY SameCount DEF Res!WithinLimit
<1>0. chunks \in [Sets -> Chunks] /\ short \subseteq Sets /\ ceiling \in Nat
  BY ResConstants DEF Res!IInv, Res!TypeOK, Chunks
<1> DEFINE newest == (Res!Held \ Res!HeldBy(short)) \ Res!OldHeld
           room == {s \in Sets \ short : chunks[s] # <<>>} \X Res!Sizes
           slot == [b \in newest |-> <<b[1], b[3]>>]
<1>1. IsFiniteSet(room) /\ Cardinality(room) \in Nat
  <2>1. IsFiniteSet(Res!Sizes)
    BY ResConstants, FS_Interval DEF Res!Sizes
  <2>2. IsFiniteSet({s \in Sets \ short : chunks[s] # <<>>})
    BY ResConstants, FS_Subset
  <2> QED BY <2>1, <2>2, FS_Product, FS_CardinalityType
<1>2. \A b \in newest : /\ b \in Sets \X (1..MaxChunks) \X Res!Sizes /\ b[1] \notin short
                        /\ b[2] = Len(chunks[b[1]]) /\ b[2] \in DOMAIN chunks[b[1]]
  BY DEF Res!Held, Res!HeldBy, Res!OldHeld, Res!InMemory
<1>3. slot \in Injection(newest, room)
  <2>1. ASSUME NEW b \in newest PROVE <<b[1], b[3]>> \in room
    <3>1. b[1] \in Sets \ short /\ b[3] \in Res!Sizes /\ b[2] \in DOMAIN chunks[b[1]]
      BY <1>2
    <3>2. chunks[b[1]] # <<>>
      BY <3>1
    <3> QED BY <3>1, <3>2
  <2>2. ASSUME NEW b \in newest, NEW c \in newest, <<b[1], b[3]>> = <<c[1], c[3]>> PROVE b = c
    <3>1. b[1] = c[1] /\ b[3] = c[3] /\ b[2] = c[2]
      BY <1>2, <2>2
    <3>2. b = <<b[1], b[2], b[3]>> /\ c = <<c[1], c[2], c[3]>>
      BY <1>2
    <3> QED BY <3>1, <3>2
  <2> HIDE DEF newest, room
  <2>3. slot \in [newest -> room]
    BY <2>1
  <2> QED BY <2>2, <2>3 DEF Injection, IsInjective
<1>4. Cardinality(newest) <= Cardinality(room)
  <2> HIDE DEF newest, room, slot
  <2> QED BY <1>1, <1>3, FS_Injection
<1>5. /\ Cardinality(Res!Held \ Res!HeldBy(short)) = Cardinality(Res!Held) - Cardinality(Res!HeldBy(short))
      /\ Res!OldHeld \subseteq Res!Held \ Res!HeldBy(short)
  <2>1. Res!Held \subseteq Bytes /\ Res!HeldBy(short) \subseteq Res!Held
    BY HeldBytes
  <2>2. Cardinality(Res!Held \ Res!HeldBy(short)) = Cardinality(Res!Held) - Cardinality(Res!HeldBy(short))
    BY <2>1, CountShrinks
  <2>3. Res!OldHeld \subseteq Res!Held \ Res!HeldBy(short)
    BY DEF Res!OldHeld, Res!HeldBy
  <2> QED BY <2>2, <2>3
<1>6. Cardinality(newest) = Cardinality(Res!Held \ Res!HeldBy(short)) - Cardinality(Res!OldHeld)
  <2>1. Res!Held \ Res!HeldBy(short) \subseteq Bytes
    BY HeldBytes
  <2> QED BY <1>5, <2>1, CountShrinks
<1>7. used = Cardinality(Res!Held) /\ Cardinality(Res!OldHeld) <= ceiling
  BY SameCount DEF Res!IInv, Res!Accounted, Res!OldKept
<1>8. /\ Cardinality(Res!Held) \in Nat /\ Cardinality(Res!HeldBy(short)) \in Nat
      /\ Cardinality(Res!OldHeld) \in Nat /\ Cardinality(newest) \in Nat
  <2>1. newest \subseteq Bytes /\ Res!HeldBy(short) \subseteq Bytes /\ Res!OldHeld \subseteq Bytes
    BY HeldBytes
  <2> QED BY <2>1, HeldBytes, HeldFinite
<1> HIDE DEF newest, room, slot
<1>9. used <= ceiling + Cardinality(Res!HeldBy(short)) + Cardinality(room)
  BY <1>0, <1>1, <1>4, <1>5, <1>6, <1>7, <1>8
<1> QED BY <1>9 DEF room

LEMMA ResInductive == Spec => []Res!IInv
<1>1. Init => Res!IInv
  BY ResInitInv DEF Init
<1>2. Res!IInv /\ [Next]_allVars => Res!IInv'
  <2> SUFFICES ASSUME Res!IInv, [Next]_allVars PROVE Res!IInv'
    OBVIOUS
  <2>1. CASE ResSteps
    BY <2>1, ResStepInv DEF ResSteps
  <2>2. CASE UNCHANGED sets
    <3>1. Res!TypeOK' /\ Res!Writes'
      BY <2>2 DEF sets, Res!IInv, Res!TypeOK, Res!Writes
    <3>2. Res!Held' = Res!Held /\ Res!OldHeld' = Res!OldHeld
      BY <2>2 DEF sets, Res!Held, Res!OldHeld
    <3>3. \A t \in Sets : Res!HeldBy({t})' = Res!HeldBy({t})
      BY <3>2 DEF Res!HeldBy
    <3>4. Res!Accounted' /\ Res!OldKept'
      BY <2>2, <3>2, <3>3 DEF sets, Res!IInv, Res!Accounted, Res!OldKept
    <3> QED BY <3>1, <3>4 DEF Res!IInv
  <2>3. ~ResSteps => UNCHANGED sets
    BY DEF Next, allVars, JobSteps, RunSteps, DaxSteps, ImportSteps, MetaSteps, HotSteps, AuthSteps, EditSteps, CellSteps
  <2> QED BY <2>1, <2>2, <2>3
<1> QED BY <1>1, <1>2, PTL DEF Spec

\* The result sets of all tabs, however many and however large: the counters of
\* the memory budget are what is in memory, whatever is spilled, refused by the
\* disk or dropped in between, and when nobody is writing the sets exceed the
\* highest limit by at most one chunk each.
THEOREM MemoryAccounted == Spec => []BudgetHeld
<1>1. Res!IInv => BudgetHeld
  BY ResWithinLimit DEF Res!IInv, BudgetHeld, Res!BudgetHeld
<1> QED BY <1>1, ResInductive, PTL

-----------------------------------------------------------------------------
(* All together                                                            *)

\* Every variable of the ten components keeps its type, so that no unsigned counter
\* wraps, for every value of the constants (localq.rs:632, lib.rs:183).
THEOREM ServiceTypes == Spec => []TypeOK
<1>1. Job!IInv /\ Run!IInv /\ Dax!IInv /\ Import!IInv => Job!TypeOK /\ Run!TypeOK /\ Dax!TypeOK /\ Import!TypeOK
  BY DEF Job!IInv, Run!IInv, Dax!IInv, Import!IInv
<1>2. Meta!IInv /\ Hot!IInv /\ Res!IInv => Meta!TypeOK /\ Hot!TypeOK /\ Res!TypeOK
  BY DEF Meta!IInv, Hot!IInv, Res!IInv
<1>3. Auth!IInv /\ Edit!IInv /\ Nb!IInv => Auth!TypeOK /\ Edit!TypeOK /\ Nb!TypeOK
  BY DEF Auth!IInv, Edit!IInv, Nb!IInv
<1>4. Job!IInv /\ Run!IInv /\ Dax!IInv /\ Import!IInv /\ Meta!IInv /\ Hot!IInv /\ Res!IInv
      /\ Auth!IInv /\ Edit!IInv /\ Nb!IInv => TypeOK
  BY <1>1, <1>2, <1>3 DEF TypeOK
<1> QED BY <1>4, JobInductive, RunInductive, DaxInductive, ImportInductive, MetaInductive,
           HotInductive, ResInductive, AuthInductive, EditInductive, NbInductive, PTL
=============================================================================
