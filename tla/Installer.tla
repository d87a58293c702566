------------------------------ MODULE Installer ------------------------------
(***************************************************************************)
(* The runtime installer: provision, provision_sail and the steps of       *)
(* cobalt-runtime/src/install.rs, the record runtime.json (status.rs), and *)
(* the one job the settings page lets run (cobalt-app/src/runtime.rs).     *)
(* The application may die at any point; what is on disk is found again by *)
(* the next job.                                                           *)
(*                                                                         *)
(* Abstracted: uv's own work and its Python are one tool call each, a tool *)
(* that dies leaves its environment as the last finished step left it,     *)
(* nothing is adopted from the machine, and of the record only what it     *)
(* says is installed is kept: rosters of packages, versions and the last   *)
(* error are not.                                                          *)
(***************************************************************************)
EXTENDS Naturals, FiniteSets

CONSTANTS Spark, Sail,  \* the profile's environment, LakeSail's environment
          Whole,        \* chunks of an archive
          MaxJobs, MaxTrouble  \* bounds: jobs started; crashes, errors, cancels

VARIABLES part,     \* downloads/<archive>.part: its length and whether its bytes are wrong
          file,     \* downloads/<archive>: "none" or "good"
          uvExe,    \* "none", "torn", "ok"
          jdkDir,   \* "none", "bare" (no launcher yet), "torn" (launcher, not all), "whole"
          env,      \* per environment: "none", "venv" (a Python, no package), "ready"
          saved,    \* runtime.json
          \* the job
          kind, target, pc,
          arch,     \* the archive being fetched
          next,     \* where the job goes on after a save
          rec,      \* the record the job holds
          cancel, result,
          \* bounds and history
          jobs, trouble,
          calm,     \* nothing was done to this job from outside
          tainted   \* it goes on with a .part whose bytes were wrong before it

diskVars == <<part, file, uvExe, jdkDir, env>>
jobVars == <<kind, target, arch>>
vars == <<diskVars, saved, jobVars, pc, next, rec, cancel, result, jobs, trouble, calm, tainted>>

Envs == {Spark, Sail}
Archives == {"uv", "jdk"}
NoPart == [len |-> 0, bad |-> FALSE]
\* Installed::default(), also what a torn runtime.json is read as
NoRecord == [uv |-> FALSE, jdk |-> FALSE, envs |-> {}, warm |-> {}]
Record == [uv : BOOLEAN, jdk : BOOLEAN, envs : SUBSET Envs, warm : SUBSET Envs]

Working == {"uv", "fetch", "read", "verify", "unpack", "copy", "python", "env", "pip",
            "roster", "jdk", "warm", "libraries"}

TypeOK ==
    /\ part \in [Archives -> [len : 0..Whole, bad : BOOLEAN]]
    /\ file \in [Archives -> {"none", "good"}]
    /\ uvExe \in {"none", "torn", "ok"} /\ jdkDir \in {"none", "bare", "torn", "whole"}
    /\ env \in [Envs -> {"none", "venv", "ready"}]
    /\ saved \in Record /\ rec \in Record
    /\ kind \in {"install", "smoke", "libraries"} /\ target \in Envs /\ arch \in Archives
    /\ pc \in Working \cup {"idle", "save", "removing"} /\ next \in Working \cup {"over"}
    /\ cancel \in BOOLEAN /\ result \in {"none", "ok", "error"}
    /\ jobs \in 0..MaxJobs /\ trouble \in 0..MaxTrouble /\ calm \in BOOLEAN /\ tainted \in BOOLEAN

Init ==
    /\ part = [a \in Archives |-> NoPart] /\ file = [a \in Archives |-> "none"]
    /\ uvExe = "none" /\ jdkDir = "none" /\ env = [e \in Envs |-> "none"]
    /\ saved = NoRecord /\ rec = NoRecord
    /\ kind = "install" /\ target = Spark /\ pc = "idle" /\ arch = "uv" /\ next = "over"
    /\ cancel = FALSE /\ result = "none" /\ jobs = 0 /\ trouble = 0 /\ calm = TRUE /\ tainted = FALSE

-----------------------------------------------------------------------------
(* The job's course                                                        *)

\* spawn_job, spawn_libraries_job; Installed::load at the head of provision
Start(k, e) ==
    /\ pc = "idle" /\ jobs < MaxJobs
    /\ jobs' = jobs + 1 /\ kind' = k /\ target' = e /\ rec' = saved
    /\ pc' = (IF k = "libraries" THEN "libraries" ELSE "uv")
    /\ cancel' = FALSE /\ result' = "none" /\ calm' = TRUE /\ tainted' = FALSE
    /\ UNCHANGED <<diskVars, saved, arch, next, trouble>>

\* the order of provision and provision_sail, and the steps a job does not take
After == [uv |-> "python", python |-> "env", env |-> "roster", roster |-> "jdk",
          jdk |-> "warm", warm |-> "over"]
Wanted(p) == \/ kind = "install" /\ (p = "jdk" => target = Spark)
             \/ p = "python" /\ target = Sail
             \/ p = "env" /\ target = Sail /\ env[Sail] = "none"
             \/ p = "jdk" /\ target = Spark /\ ~rec.jdk

Skip ==
    /\ pc \in {"python", "env", "roster", "jdk"} /\ ~Wanted(pc)
    /\ pc' = After[pc]
    /\ UNCHANGED <<diskVars, saved, jobVars, next, rec, cancel, result, jobs, trouble, calm, tainted>>

\* A step has done its work: rec.save follows
Did(p) == pc' = "save" /\ next' = After[p]

Goto(p) == pc' = p /\ UNCHANGED <<next, rec>>

Fail == pc' = "save" /\ next' = "over" /\ result' = "error" /\ UNCHANGED rec

\* a libraries job that fails leaves the record alone
Ends(r) == pc' = "idle" /\ result' = r /\ UNCHANGED <<next, rec>>

Save ==
    /\ pc = "save" /\ saved' = rec
    /\ IF next = "over"
       THEN pc' = "idle" /\ result' = (IF result = "error" THEN "error" ELSE "ok")
       ELSE pc' = next /\ UNCHANGED result
    /\ UNCHANGED <<diskVars, jobVars, next, rec, cancel, jobs, trouble, calm, tainted>>

\* RuntimeAction::Cancel
Cancel ==
    /\ pc \notin {"idle", "removing"} /\ ~cancel /\ trouble < MaxTrouble
    /\ cancel' = TRUE /\ trouble' = trouble + 1 /\ calm' = FALSE
    /\ UNCHANGED <<diskVars, saved, jobVars, pc, next, rec, result, jobs, tainted>>

Abandon == IF kind = "libraries" THEN Ends("error") ELSE Fail

\* check_cancel, which every step but the copy of uv meets
Cancelled ==
    /\ cancel /\ pc \in Working \ {"copy"}
    /\ Abandon
    /\ UNCHANGED <<diskVars, saved, jobVars, cancel, jobs, trouble, calm, tainted>>

\* the network, the disk or a tool fails under the step
Trouble ==
    /\ pc \in Working /\ trouble < MaxTrouble
    /\ Abandon
    /\ trouble' = trouble + 1 /\ calm' = FALSE
    /\ UNCHANGED <<diskVars, saved, jobVars, cancel, jobs, tainted>>

\* The process dies; fs::write may have truncated runtime.json
Crash ==
    /\ pc # "idle" /\ trouble < MaxTrouble
    /\ pc' = "idle" /\ result' = "none" /\ trouble' = trouble + 1
    /\ saved' \in (IF pc = "save" THEN {saved, NoRecord} ELSE {saved})
    /\ UNCHANGED <<diskVars, jobVars, next, rec, cancel, jobs, calm, tainted>>

-----------------------------------------------------------------------------
(* download                                                                *)

jobKept == UNCHANGED <<saved, jobVars, cancel, jobs, trouble>>

AlreadyThere ==
    /\ pc = "fetch" /\ ~cancel /\ file[arch] = "good"
    /\ Goto("unpack")
    /\ UNCHANGED <<diskVars, result, calm, tainted>> /\ jobKept

\* 206: append; another success: from the beginning; wrong: the answer's bytes
\* are not the pinned ones
Answered(from, wrong) ==
    /\ pc = "fetch" /\ ~cancel /\ file[arch] # "good" /\ (wrong => trouble < MaxTrouble)
    /\ part[arch].len < Whole \/ from = 0
    /\ part' = [part EXCEPT ![arch] = [len |-> from, bad |-> wrong \/ (from # 0 /\ part[arch].bad)]]
    /\ file' = [file EXCEPT ![arch] = "none"]
    /\ Goto("read")
    /\ trouble' = trouble + (IF wrong THEN 1 ELSE 0)
    /\ calm' = (calm /\ ~wrong)
    /\ tainted' = (tainted \/ (from # 0 /\ part[arch].bad))
    /\ UNCHANGED <<uvExe, jdkDir, env, saved, jobVars, cancel, result, jobs>>

\* the range starts at the end of the file: 416, which is not a success
NotSatisfiable ==
    /\ pc = "fetch" /\ ~cancel /\ file[arch] # "good" /\ part[arch].len = Whole
    /\ file' = [file EXCEPT ![arch] = "none"]
    /\ Fail
    /\ UNCHANGED <<part, uvExe, jdkDir, env, calm, tainted>> /\ jobKept

Fetch == \/ AlreadyThere \/ NotSatisfiable
         \/ \E from \in {0, part[arch].len}, wrong \in BOOLEAN : Answered(from, wrong)

Read ==
    /\ pc = "read" /\ ~cancel
    /\ IF part[arch].len < Whole
       THEN part' = [part EXCEPT ![arch].len = @ + 1] /\ UNCHANGED pc
       ELSE pc' = "verify" /\ UNCHANGED part
    /\ UNCHANGED <<file, uvExe, jdkDir, env, next, rec, result, calm, tainted>> /\ jobKept

\* the SHA-256, and the rename
Verify ==
    /\ pc = "verify"
    /\ part' = [part EXCEPT ![arch] = NoPart]
    /\ IF part[arch].bad
       THEN Fail /\ UNCHANGED file
       ELSE /\ file' = [file EXCEPT ![arch] = "good"]
            /\ Goto("unpack") /\ UNCHANGED result
    /\ UNCHANGED <<uvExe, jdkDir, env, calm, tainted>> /\ jobKept

-----------------------------------------------------------------------------
(* The steps                                                               *)

\* find_uv runs what is there
StepUv ==
    /\ pc = "uv"
    /\ IF uvExe = "ok"
       THEN rec' = [rec EXCEPT !.uv = TRUE] /\ Did("uv") /\ UNCHANGED arch
       ELSE pc' = "fetch" /\ arch' = "uv" /\ UNCHANGED <<next, rec>>
    /\ UNCHANGED <<diskVars, saved, kind, target, cancel, result, jobs, trouble, calm, tainted>>

\* extract empties its target first; check_jdk sees a launcher and a release file
Unpack ==
    /\ pc = "unpack" /\ ~cancel
    /\ IF arch = "uv"
       THEN Goto("copy") /\ UNCHANGED <<file, jdkDir>>
       ELSE IF jdkDir = "whole"
       THEN file' = [file EXCEPT !["jdk"] = "none"]
            /\ rec' = [rec EXCEPT !.jdk = TRUE] /\ Did("jdk") /\ UNCHANGED jdkDir
       ELSE /\ jdkDir' = (CASE jdkDir = "bare" -> "torn" [] jdkDir = "torn" -> "whole"
                            [] OTHER -> "bare")
            /\ UNCHANGED <<file, pc, next, rec>>
    /\ UNCHANGED <<part, uvExe, env, result, calm, tainted>> /\ jobKept

Copy ==
    /\ pc = "copy"
    /\ IF uvExe = "torn"
       THEN /\ uvExe' = "ok" /\ file' = [file EXCEPT !["uv"] = "none"]
            /\ rec' = [rec EXCEPT !.uv = TRUE] /\ Did("uv")
       ELSE uvExe' = "torn" /\ UNCHANGED <<file, pc, next, rec>>
    /\ UNCHANGED <<part, jdkDir, env, result, calm, tainted>> /\ jobKept

\* uv python install, uv python find
StepPython ==
    /\ pc = "python" /\ Wanted("python") /\ ~cancel
    /\ Did("python")
    /\ UNCHANGED <<diskVars, rec, result, calm, tainted>> /\ jobKept

\* uv venv, unless there is a Python
StepEnv ==
    /\ pc = "env" /\ Wanted("env") /\ ~cancel
    /\ env' = [env EXCEPT ![target] = IF @ = "none" THEN "venv" ELSE @]
    /\ Goto("pip")
    /\ UNCHANGED <<part, file, uvExe, jdkDir, result, calm, tainted>> /\ jobKept

\* uv pip install --reinstall-package takes the old package out first
StepPip ==
    /\ pc = "pip" /\ ~cancel
    /\ \/ env[target] = "ready" /\ env' = [env EXCEPT ![target] = "venv"]
          /\ UNCHANGED <<pc, next, rec>>
       \/ env[target] = "venv" /\ env' = [env EXCEPT ![target] = "ready"]
          /\ rec' = [rec EXCEPT !.envs = @ \cup {target}] /\ Did("env")
    /\ UNCHANGED <<part, file, uvExe, jdkDir, result, calm, tainted>> /\ jobKept

\* packages that do not install are named, never fatal
StepRoster ==
    /\ pc = "roster" /\ Wanted("roster") /\ ~cancel
    /\ Did("roster")
    /\ UNCHANGED <<diskVars, rec, result, calm, tainted>> /\ jobKept

\* any folder is taken for a JDK
FitsAnyFolder(j) == j # "none"

\* find_jdks under the managed folder: a launcher and a release file are enough
Fits(j) == j \in {"torn", "whole"}

\* a managed JDK that fits is kept
StepJdk ==
    /\ pc = "jdk" /\ Wanted("jdk")
    /\ IF Fits(jdkDir)
       THEN rec' = [rec EXCEPT !.jdk = TRUE] /\ Did("jdk") /\ UNCHANGED arch
       ELSE pc' = "fetch" /\ arch' = "jdk" /\ UNCHANGED <<next, rec>>
    /\ UNCHANGED <<diskVars, saved, kind, target, cancel, result, jobs, trouble, calm, tainted>>

\* a session can be started on what is there
Starts == env[target] = "ready" /\ (target = Spark => jdkDir = "whole")

StepWarm ==
    /\ pc = "warm" /\ ~cancel
    /\ IF Starts
       THEN rec' = [rec EXCEPT !.warm = @ \cup {target}] /\ Did("warm") /\ UNCHANGED result
       ELSE Fail
    /\ UNCHANGED <<diskVars, calm, tainted>> /\ jobKept

\* libraries::install and install_roster into every environment there is; the
\* record is loaded again when they are done
Libraries ==
    /\ pc = "libraries" /\ ~cancel
    /\ IF uvExe # "ok" \/ env[target] = "none"
       THEN Ends("error")
       ELSE rec' = saved /\ pc' = "save" /\ next' = "over" /\ UNCHANGED result
    /\ UNCHANGED <<diskVars, calm, tainted>> /\ jobKept

-----------------------------------------------------------------------------
(* Remove, on the user interface's thread and only without a job           *)

RemoveSail ==
    /\ pc = "idle"
    /\ env' = [env EXCEPT ![Sail] = "none"]
    /\ rec' = [saved EXCEPT !.envs = @ \ {Sail}, !.warm = @ \ {Sail}]
    /\ pc' = "save" /\ next' = "over" /\ result' = "none"
    /\ UNCHANGED <<part, file, uvExe, jdkDir, saved, jobVars, cancel, jobs, trouble, calm, tainted>>

RemoveAll ==
    /\ pc = "idle"
    /\ pc' = "removing" /\ result' = "none"
    /\ UNCHANGED <<diskVars, saved, jobVars, next, rec, cancel, jobs, trouble, calm, tainted>>

\* remove_dir_all takes the folder's entries in any order
RemoveEntry ==
    /\ pc = "removing"
    /\ \/ /\ jdkDir # "none"
          /\ jdkDir' \in {"none"} \cup (IF jdkDir = "whole" THEN {"torn"} ELSE {})
          /\ UNCHANGED <<uvExe, env, saved>>
       \/ uvExe # "none" /\ uvExe' = "none" /\ UNCHANGED <<jdkDir, env, saved>>
       \/ \E e \in Envs : /\ env[e] # "none" /\ env' = [env EXCEPT ![e] = "none"]
                          /\ UNCHANGED <<jdkDir, uvExe, saved>>
       \/ saved # NoRecord /\ saved' = NoRecord /\ UNCHANGED <<jdkDir, uvExe, env>>
    /\ UNCHANGED <<part, file, jobVars, pc, next, rec, cancel, result, jobs, trouble, calm, tainted>>

RemovedAll ==
    /\ pc = "removing" /\ jdkDir = "none" /\ uvExe = "none" /\ saved = NoRecord
    /\ \A e \in Envs : env[e] = "none"
    /\ part' = [a \in Archives |-> NoPart] /\ file' = [a \in Archives |-> "none"]
    /\ pc' = "idle"
    /\ UNCHANGED <<uvExe, jdkDir, env, saved, jobVars, next, rec, cancel, result, jobs, trouble, calm, tainted>>

Next ==
    \/ \E k \in {"install", "smoke", "libraries"}, e \in Envs : Start(k, e)
    \/ Skip \/ Save \/ Cancel \/ Cancelled \/ Trouble \/ Crash
    \/ Fetch \/ Read \/ Verify
    \/ StepUv \/ Unpack \/ Copy \/ StepPython \/ StepEnv \/ StepPip \/ StepRoster
    \/ StepJdk \/ StepWarm \/ Libraries
    \/ RemoveSail \/ RemoveAll \/ RemoveEntry \/ RemovedAll

Spec == Init /\ [][Next]_vars

-----------------------------------------------------------------------------
(* Properties                                                              *)

\* A job writes into runtime.json only what is there: after a failed step, a
\* crash or a lost record too (install.rs:783).
RecordedWhenDone ==
    [][pc = "save" =>
          /\ saved'.uv /\ ~saved.uv => uvExe = "ok"
          /\ saved'.jdk /\ ~saved.jdk => jdkDir \in {"torn", "whole"}
          /\ \A e \in saved'.envs \ saved.envs : env[e] = "ready"
          /\ \A e \in saved'.warm \ saved.warm : Starts]_vars

\* An install that nobody disturbs succeeds on whatever earlier jobs, crashes
\* and removals left behind, but for three leftovers: a .part that is whole
\* (install.rs:130), one whose bytes are wrong, which is resumed (:134) and refused
\* by its checksum (:164), and a JDK that was cut short after its launcher (:412).
FailsOnlyForCause ==
    result = "error" /\ calm /\ kind = "install"
        => jdkDir = "torn" \/ tainted \/ \E a \in Archives : part[a].len = Whole

-----------------------------------------------------------------------------
(* The inductive invariant                                                 *)

\* the step the job is at, or goes on with once the record is written
Ahead == IF pc = "save" THEN next ELSE pc

Fetching == pc \in {"fetch", "read", "verify", "unpack"}

\* An error is only reported on the way out, and a cancel counts as trouble.
ErrorIsTheEnd ==
    /\ pc \in Working \cup {"removing"} \/ (pc = "save" /\ next # "over") => result = "none"
    /\ cancel => ~calm
    /\ pc \in {"read", "verify"} /\ calm /\ part[arch].bad => tainted
    /\ next \in {"python", "env", "roster", "jdk", "warm", "over"}
    /\ pc = "copy" => arch = "uv"
    /\ pc = "libraries" => kind = "libraries"

\* What the steps behind an install have made is there for the ones ahead.
BuiltSoFar ==
    kind = "install" =>
        /\ Ahead \in {"roster", "jdk", "warm"} \/ (Fetching /\ arch = "jdk") => env[target] = "ready"
        /\ Ahead = "warm" /\ target = Spark => Fits(jdkDir)

\* The record the job holds differs from the one on disk only while it is being
\* written, and then by what is there.
RecordIsTrue ==
    /\ pc \in Working => rec = saved
    /\ pc = "save" =>
          /\ rec.uv /\ ~saved.uv => uvExe = "ok"
          /\ rec.jdk /\ ~saved.jdk => Fits(jdkDir)
          /\ \A e \in rec.envs \ saved.envs : env[e] = "ready"
          /\ \A e \in rec.warm \ saved.warm : Starts

IInv == TypeOK /\ ErrorIsTheEnd /\ BuiltSoFar /\ RecordIsTrue /\ FailsOnlyForCause
=============================================================================
