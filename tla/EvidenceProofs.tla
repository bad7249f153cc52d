--------------------------- MODULE EvidenceProofs ---------------------------
(***************************************************************************)
(* What holds of EvidencePipeline for any tests, commits, times, results   *)
(* and stale files, and of NativeSmoke for any number of invocations.      *)
(***************************************************************************)
EXTENDS EvidencePipeline, NativeSmoke, TLAPS

(* What the pipeline keeps between its steps: while a process runs, what   *)
(* it has checked still holds, and no record is from the future.           *)
Reading ==
  /\ writing = "aggregate" => loadable
  /\ writing = "report" => asked.sha = commit /\ ~releaseReport.certified
  /\ asked.hour <= hour

NoFuture ==
  /\ \A r \in results : r.observed_at = UnknownTime \/ r.observed_at <= hour
  /\ \A r \in manifestRecords : r.observed_at <= hour

PipelineInv == PipelineTypeOK /\ Reading /\ NoFuture /\ CertifiedIsEarned

USE EvidenceAssumption DEF Hours, UnknownTime

LEMMA NoReportType ==
  NoReport \in [certified : BOOLEAN, sha : Commits, hour : Hours, of : SUBSET EvidenceRecords]
  /\ NoReport.certified = FALSE
BY DEF NoReport

LEMMA PipelineInitInv == PipelineInit => PipelineInv
BY NoReportType DEF PipelineInit, PipelineInv, PipelineTypeOK, Reading, NoFuture, CertifiedIsEarned

(* What aggregation writes is well typed, not empty and not from the       *)
(* future.                                                                 *)
LEMMA LoadedRecords ==
  ASSUME results \subseteq ResultFiles, loadable,
         \A r \in results : r.observed_at = UnknownTime \/ r.observed_at <= hour
  PROVE  /\ load_results \subseteq EvidenceRecords /\ load_results # {}
         /\ \A r \in load_results : r.observed_at <= hour
<1>1. ASSUME NEW r \in results
      PROVE  /\ [r EXCEPT !.status = canonical(r.status)] \in EvidenceRecords
             /\ [r EXCEPT !.status = canonical(r.status)].observed_at <= hour
  <2>1. r \in ResultFiles /\ r.observed_at \in Hours /\ r.observed_at <= hour
    BY <1>1 DEF loadable, ResultFiles
  <2>2. canonical(r.status) \in ManifestStatuses
    BY <2>1 DEF canonical, ResultFiles, ResultStatuses, ManifestStatuses
  <2> QED BY <2>1, <2>2 DEF ResultFiles, EvidenceRecords
<1>2. results # {}
  BY DEF loadable
<1> QED BY <1>1, <1>2 DEF load_results

LEMMA ExecutePreserves ==
  ASSUME PipelineInv, NEW t \in TestIds, NEW s \in Outcomes, NEW o \in Hours \cup {UnknownTime},
         Execute(t, s, o)
  PROVE  PipelineInv'
<1>1. [id |-> t, status |-> s, tested_sha |-> commit, observed_at |-> o] \in ResultFiles
  BY DEF ResultFiles, PipelineInv, PipelineTypeOK
<1>2. PipelineTypeOK'
  BY <1>1 DEF PipelineInv, PipelineTypeOK, Execute
<1>3. Reading'
  BY DEF PipelineInv, Reading, Execute
<1>4. NoFuture'
  BY DEF PipelineInv, PipelineTypeOK, NoFuture, Execute
<1>5. CertifiedIsEarned'
  BY DEF PipelineInv, CertifiedIsEarned, Execute
<1> QED BY <1>2, <1>3, <1>4, <1>5 DEF PipelineInv

LEMMA PassTimePreserves == PipelineInv /\ PassTime => PipelineInv'
<1> SUFFICES ASSUME PipelineInv, PassTime PROVE PipelineInv'
  OBVIOUS
<1>1. PipelineTypeOK'
  BY DEF PipelineInv, PipelineTypeOK, PassTime
<1>2. Reading'
  BY DEF PipelineInv, PipelineTypeOK, Reading, PassTime, loadable
<1>3. ASSUME NEW r \in results PROVE r.observed_at = UnknownTime \/ r.observed_at <= hour + 1
  BY <1>3 DEF PipelineInv, PipelineTypeOK, ResultFiles, NoFuture
<1>4. ASSUME NEW r \in manifestRecords PROVE r.observed_at <= hour + 1
  BY <1>4 DEF PipelineInv, PipelineTypeOK, EvidenceRecords, NoFuture
<1>5. NoFuture'
  BY <1>3, <1>4 DEF NoFuture, PassTime
<1>6. CertifiedIsEarned'
  BY DEF PipelineInv, CertifiedIsEarned, PassTime
<1> QED BY <1>1, <1>2, <1>5, <1>6 DEF PipelineInv

(* A report that is certified rests on what the manifest holds now.        *)
LEMMA EndReportPreserves == PipelineInv /\ EndReport => PipelineInv'
<1> SUFFICES ASSUME PipelineInv, EndReport PROVE PipelineInv'
  OBVIOUS
<1> DEFINE new == [certified |-> mandatory_ok(manifestRecords), sha |-> commit, hour |-> hour,
                   of |-> manifestRecords]
<1>1. mandatory_ok(manifestRecords) \in BOOLEAN
  BY DEF mandatory_ok
<1>2. new \in [certified : BOOLEAN, sha : Commits, hour : Hours, of : SUBSET EvidenceRecords]
  BY <1>1 DEF PipelineInv, PipelineTypeOK
<1>3. PipelineTypeOK'
  BY <1>2 DEF PipelineInv, PipelineTypeOK, EndReport
<1>4. Reading' /\ NoFuture'
  BY DEF PipelineInv, Reading, NoFuture, EndReport
<1>5. CertifiedIsEarned'
  <2>1. CASE verify_manifest /\ provenance(manifestRecords)
    <3>1. releaseReport' = new
      BY <2>1 DEF EndReport
    <3>2. manifestRecords # {}
      BY <2>1 DEF PipelineInv, PipelineTypeOK, verify_manifest
    <3>3. ASSUME NEW r \in manifestRecords, mandatory_ok(manifestRecords)
          PROVE  /\ r.status = "PASS" /\ r.tested_sha = commit
                 /\ r.observed_at <= hour /\ hour <= r.observed_at + MaxAge
      <4>1. r.observed_at \in Nat /\ hour \in Nat /\ MaxAge \in Nat
        BY <3>3 DEF PipelineInv, PipelineTypeOK, EvidenceRecords
      <4>2. hour - r.observed_at <= MaxAge /\ r.tested_sha = commit
        BY <2>1, <3>3 DEF provenance
      <4> QED BY <4>1, <4>2, <3>3 DEF PipelineInv, NoFuture, mandatory_ok
    <3>4. asked' = asked /\ asked.sha = commit /\ asked.hour <= hour
      BY DEF PipelineInv, Reading, EndReport
    <3> QED BY <3>1, <3>2, <3>3, <3>4 DEF CertifiedIsEarned
  <2>2. CASE ~(verify_manifest /\ provenance(manifestRecords))
    BY <2>2 DEF PipelineInv, Reading, EndReport, CertifiedIsEarned
  <2> QED BY <2>1, <2>2
<1> QED BY <1>3, <1>4, <1>5 DEF PipelineInv

LEMMA PipelineStepInv == PipelineInv /\ [PipelineNext]_pipelineVars => PipelineInv'
<1> SUFFICES ASSUME PipelineInv, [PipelineNext]_pipelineVars PROVE PipelineInv'
  OBVIOUS
<1>1. CASE \E t \in TestIds, s \in Outcomes, o \in Hours \cup {UnknownTime} : Execute(t, s, o)
  BY <1>1, ExecutePreserves
<1>2. CASE PassTime
  BY <1>2, PassTimePreserves
<1>3. CASE \E c \in Commits : Checkout(c)
  BY <1>3 DEF PipelineInv, PipelineTypeOK, Reading, NoFuture, CertifiedIsEarned, Checkout
<1>4. CASE BeginAggregate
  BY <1>4 DEF PipelineInv, PipelineTypeOK, Reading, NoFuture, CertifiedIsEarned, BeginAggregate, loadable
<1>5. CASE EndAggregate
  <2>1. /\ load_results \subseteq EvidenceRecords /\ load_results # {}
        /\ \A r \in load_results : r.observed_at <= hour
    BY <1>5, LoadedRecords DEF PipelineInv, PipelineTypeOK, Reading, NoFuture, EndAggregate
  <2> QED BY <1>5, <2>1 DEF PipelineInv, PipelineTypeOK, Reading, NoFuture, CertifiedIsEarned, EndAggregate
<1>6. CASE BeginReport
  BY <1>6, NoReportType DEF PipelineInv, PipelineTypeOK, Reading, NoFuture, CertifiedIsEarned, BeginReport
<1>7. CASE EndReport
  BY <1>7, EndReportPreserves
<1>8. CASE Die
  BY <1>8 DEF PipelineInv, PipelineTypeOK, Reading, NoFuture, CertifiedIsEarned, Die
<1>9. CASE UNCHANGED pipelineVars
  BY <1>9 DEF PipelineInv, PipelineTypeOK, Reading, NoFuture, CertifiedIsEarned, pipelineVars, loadable
<1> QED BY <1>1, <1>2, <1>3, <1>4, <1>5, <1>6, <1>7, <1>8, <1>9 DEF PipelineNext

LEMMA PipelineInvariant == PipelineSpec => []PipelineInv
BY PipelineInitInv, PipelineStepInv, PTL DEF PipelineSpec

(* Every state of the evidence pipeline is well typed, for any tests,      *)
(* commits, times and results.                                             *)
THEOREM PipelineTypes == PipelineSpec => []PipelineTypeOK
BY PipelineInvariant, PTL DEF PipelineInv

(* A release report that certifies a commit rests on fresh results of that *)
(* commit that all passed, whatever stayed in the workspace and whatever   *)
(* died (saqa/result_aggregation.py, scripts/generate_release_report.py).  *)
THEOREM CertificationEarned == PipelineSpec => []CertifiedIsEarned
BY PipelineInvariant, PTL DEF PipelineInv

HIDE EvidenceAssumption DEF Hours, UnknownTime

-----------------------------------------------------------------------------
Asked == {"digest", "bundle", "metadata", "install", "launch", "alive"}

(* What runs of an app is what is installed of it; what the device has is  *)
(* what the questions so far came to.  The output file is not this         *)
(* invocation's before it is written.                                      *)
Running ==
  /\ DOMAIN apps = AppIds /\ DOMAIN processes = AppIds
  /\ package_id \in AppIds /\ file_id \in AppIds
  /\ \A x \in AppIds : processes[x] \in {apps[x], NoRun}

OnDevice ==
  /\ stage \in {"metadata", "install", "launch"} /\ platform = "ios" => package_id = file_id
  /\ stage \in {"launch", "alive"} => apps[file_id] = smokeRun
  /\ stage = "write" /\ (\A r \in rows : r.status = "PASS") =>
       /\ apps[file_id] = smokeRun /\ processes[package_id] # NoRun
       /\ platform = "ios" => package_id = file_id

InFile ==
  /\ evidence.run \in smokeRuns \cup {NoRun}
  /\ evidence.run = NoRun => evidence.status # "PASS"
  /\ stage \in Asked \cup {"unlink", "write"} => evidence.run # smokeRun
  /\ stage = "fallback" /\ evidence.run = smokeRun => evidence.status # "PASS"

Invoked ==
  /\ platform \in {"android", "ios"}
  /\ stage \in Asked \cup {"unlink", "write", "fallback", "end"}
  /\ smokeRuns \subseteq SmokeRuns
  /\ smokeRun \in smokeRuns \cup {NoRun}
  /\ stage # "end" => smokeRun \in smokeRuns /\ exit = 3

SmokeInv == Invoked /\ Running /\ OnDevice /\ InFile /\ EvidenceIsOfThisRun

USE SmokeAssumption DEF Asked

(* The order in which the questions are asked.                             *)
LEMMA Positions ==
  ASSUME NEW p \in {"android", "ios"}
  PROVE  /\ Len(Questions[p]) = 5 /\ DOMAIN Questions[p] = 1..5
         /\ \A i \in 1..5 : Questions[p][i] \in Asked
         /\ \A i, j \in 1..5 : Questions[p][i] = Questions[p][j] => i = j
         /\ \A i \in 1..5 : Questions[p][i] = "alive" => i = 5
         /\ \A i \in 1..4 : Questions[p][i + 1] = "launch" => Questions[p][i] = "install"
         /\ \A i \in 1..4 : Questions[p][i + 1] = "install" => Questions[p][i] = "metadata"
         /\ p = "ios" => \A i \in 1..4 : Questions[p][i + 1] = "metadata" => Questions[p][i] = "bundle"
         /\ \A i \in 1..4 : Questions[p][i + 1] = "alive" => Questions[p][i] = "launch" /\ p = "android"
         /\ Questions[p][5] = IF p = "android" THEN "alive" ELSE "launch"
<1>1. CASE p = "android"
  <2>1. Questions[p] = <<"digest", "metadata", "install", "launch", "alive">>
    BY <1>1 DEF Questions
  <2> QED BY <1>1, <2>1
<1>2. CASE p = "ios"
  <2>1. Questions[p] = <<"digest", "bundle", "metadata", "install", "launch">>
    BY <1>2 DEF Questions
  <2> QED BY <1>2, <2>1
<1> QED BY <1>1, <1>2

(* What Ask does to the stage and, when the answer is not a yes, the rows. *)
LEMMA Asking ==
  ASSUME Invoked, NEW answer \in {"yes", "no", "unknown"}, Ask(answer)
  PROVE  /\ stage \in Asked /\ stage' \in Asked \cup {"write"}
         /\ answer # "yes" => stage' = "write" /\ \E r \in rows' : r.status # "PASS"
         /\ stage' \in {"metadata", "install", "launch", "alive"} => answer = "yes"
         /\ stage' = "metadata" /\ platform = "ios" => stage = "bundle"
         /\ stage' = "install" => stage = "metadata"
         /\ stage' = "launch" => stage = "install"
         /\ stage' = "alive" => stage = "launch" /\ platform = "android"
         /\ stage' = "write" /\ answer = "yes" =>
              IF platform = "android" THEN stage = "alive" ELSE stage = "launch"
         /\ Device(stage, answer)
         /\ UNCHANGED <<platform, smokeRun, smokeRuns, evidence, exit, unlinked, package_id, file_id>>
<1> DEFINE qs == Questions[platform]
           n  == CHOOSE i \in DOMAIN qs : qs[i] = stage
<1>1. platform \in {"android", "ios"}
  BY DEF Invoked
<1>2. stage \in {qs[i] : i \in DOMAIN qs}
  BY DEF Ask
<1>3. n \in 1..5 /\ qs[n] = stage /\ Len(qs) = 5
  BY <1>1, <1>2, Positions
<1>4. RowStatus(answer) = "PASS" <=> answer = "yes"
  BY DEF RowStatus
<1>5. stage' = IF answer = "yes" /\ n < 5 THEN qs[n + 1] ELSE "write"
  BY <1>3, <1>4 DEF Ask
<1>6. /\ Device(stage, answer)
      /\ UNCHANGED <<platform, smokeRun, smokeRuns, evidence, exit, unlinked, package_id, file_id>>
  BY DEF Ask
<1>7. answer # "yes" => \E r \in rows' : r.status # "PASS"
  <2> SUFFICES ASSUME answer # "yes" PROVE \E r \in rows' : r.status # "PASS"
    OBVIOUS
  <2>1. [id |-> row_of(stage), status |-> RowStatus(answer)] \in rows'
    BY DEF Ask
  <2>2. [id |-> row_of(stage), status |-> RowStatus(answer)].status # "PASS"
    BY <1>4
  <2> QED BY <2>1, <2>2
<1>8. CASE answer = "yes" /\ n < 5
  <2>a. stage' = qs[n + 1]
    BY <1>5, <1>8
  <2>b. n \in 1..4 /\ n + 1 \in 1..5
    <3> HIDE DEF n
    <3> QED BY <1>3, <1>8
  <2>1. n \in 1..4 /\ n + 1 \in 1..5 /\ stage' = qs[n + 1]
    BY <2>a, <2>b
  <2>2. stage \in Asked /\ stage' \in Asked
    BY <1>1, <1>3, <2>1, Positions
  <2>3. /\ stage' = "metadata" /\ platform = "ios" => stage = "bundle"
        /\ stage' = "install" => stage = "metadata"
        /\ stage' = "launch" => stage = "install"
    BY <1>1, <1>3, <2>1, Positions
  <2>4. stage' = "alive" => stage = "launch" /\ platform = "android"
    BY <1>1, <1>3, <2>1, Positions
  <2> QED BY <1>6, <1>8, <2>2, <2>3, <2>4
<1>9. CASE ~(answer = "yes" /\ n < 5)
  <2>1. stage' = "write" /\ stage \in Asked
    BY <1>1, <1>3, <1>5, <1>9, Positions
  <2>2. answer = "yes" => n = 5
    BY <1>3, <1>9
  <2>3. answer = "yes" => stage = IF platform = "android" THEN "alive" ELSE "launch"
    BY <1>1, <1>3, <2>2, Positions
  <2> QED BY <1>1, <1>6, <1>7, <2>1, <2>3
<1> QED BY <1>8, <1>9

LEMMA SmokeInitInv == SmokeInit => SmokeInv
BY DEF SmokeInit, SmokeInv, Invoked, Running, OnDevice, InFile, EvidenceIsOfThisRun, PassRanThisApp,
       NoStaleEvidence, NoEvidence

(* What a question leaves on the device.                                   *)
LEMMA DeviceSteps ==
  ASSUME Running, NEW q, NEW answer, Device(q, answer), smokeRun # NoRun, UNCHANGED <<package_id, file_id>>
  PROVE  /\ Running'
         /\ q # "install" => apps' = apps
         /\ q = "install" /\ answer = "yes" => apps'[file_id] = smokeRun
         /\ q \notin {"install", "launch"} => processes' = processes
         /\ q = "alive" /\ answer = "yes" => processes[package_id] # NoRun
         /\ q = "bundle" /\ answer = "yes" => package_id = file_id
         /\ q = "launch" /\ answer = "yes" /\ platform = "ios" => processes'[package_id] # NoRun
<1>1. CASE q = "install"
  BY <1>1 DEF Device, Install, Running, deviceVars
<1>2. CASE q = "launch"
  <2>1. /\ answer = "yes" => apps[package_id] # NoRun
        /\ apps' = apps
        /\ \/ processes' = [processes EXCEPT ![package_id] = apps[package_id]]
           \/ answer = "yes" /\ platform = "android" /\ processes' = [processes EXCEPT ![package_id] = NoRun]
           \/ answer # "yes" /\ processes' = processes
    BY <1>2 DEF Device, Launch
  <2> QED BY <1>2, <2>1 DEF Running
<1>3. CASE q \notin {"install", "launch"}
  <2>1. /\ apps' = apps /\ processes' = processes
        /\ q = "alive" /\ answer = "yes" => processes[package_id] # NoRun
        /\ q = "bundle" /\ answer = "yes" => package_id = file_id
    BY <1>3 DEF Device, deviceVars
  <2> QED BY <1>3, <2>1 DEF Running
<1> QED BY <1>1, <1>2, <1>3

LEMMA AskPreserves ==
  ASSUME SmokeInv, NEW answer \in {"yes", "no", "unknown"}, Ask(answer)
  PROVE  SmokeInv'
<1>1. /\ stage \in Asked /\ stage' \in Asked \cup {"write"}
      /\ answer # "yes" => stage' = "write" /\ \E r \in rows' : r.status # "PASS"
      /\ stage' \in {"metadata", "install", "launch", "alive"} => answer = "yes"
      /\ stage' = "metadata" /\ platform = "ios" => stage = "bundle"
      /\ stage' = "install" => stage = "metadata"
      /\ stage' = "launch" => stage = "install"
      /\ stage' = "alive" => stage = "launch" /\ platform = "android"
      /\ stage' = "write" /\ answer = "yes" =>
           IF platform = "android" THEN stage = "alive" ELSE stage = "launch"
      /\ Device(stage, answer)
      /\ UNCHANGED <<platform, smokeRun, smokeRuns, evidence, exit, unlinked, package_id, file_id>>
  BY Asking DEF SmokeInv
<1>2. smokeRun # NoRun
  BY <1>1 DEF SmokeInv, Invoked
<1>3. /\ Running'
      /\ stage # "install" => apps' = apps
      /\ stage = "install" /\ answer = "yes" => apps'[file_id] = smokeRun
      /\ stage \notin {"install", "launch"} => processes' = processes
      /\ stage = "alive" /\ answer = "yes" => processes[package_id] # NoRun
      /\ stage = "bundle" /\ answer = "yes" => package_id = file_id
      /\ stage = "launch" /\ answer = "yes" /\ platform = "ios" => processes'[package_id] # NoRun
  BY <1>1, <1>2, DeviceSteps DEF SmokeInv
<1>4. Invoked'
  BY <1>1 DEF SmokeInv, Invoked
<1>5. OnDevice'
  <2>1. stage' \in {"metadata", "install", "launch"} /\ platform' = "ios" => package_id' = file_id'
    BY <1>1, <1>3 DEF SmokeInv, OnDevice
  <2>2. stage' \in {"launch", "alive"} => apps'[file_id'] = smokeRun'
    BY <1>1, <1>3 DEF SmokeInv, OnDevice
  <2>3. ASSUME stage' = "write", \A r \in rows' : r.status = "PASS"
        PROVE  /\ apps'[file_id'] = smokeRun' /\ processes'[package_id'] # NoRun
               /\ platform' = "ios" => package_id' = file_id'
    <3>1. answer = "yes"
      BY <1>1, <2>3
    <3>2. CASE platform = "android"
      BY <1>1, <1>3, <2>3, <3>1, <3>2 DEF SmokeInv, OnDevice
    <3>3. CASE platform = "ios"
      BY <1>1, <1>3, <2>3, <3>1, <3>3 DEF SmokeInv, OnDevice
    <3> QED BY <3>2, <3>3 DEF SmokeInv, Invoked
  <2> QED BY <2>1, <2>2, <2>3 DEF OnDevice
<1>6. InFile'
  BY <1>1 DEF SmokeInv, Invoked, InFile
<1>7. EvidenceIsOfThisRun'
  BY <1>1 DEF SmokeInv, InFile, EvidenceIsOfThisRun, PassRanThisApp, NoStaleEvidence
<1> QED BY <1>3, <1>4, <1>5, <1>6, <1>7 DEF SmokeInv

LEMMA WriteResultPreserves ==
  ASSUME SmokeInv, NEW ok \in BOOLEAN, WriteResult(ok)
  PROVE  SmokeInv'
<1>1. /\ stage = "write" /\ smokeRun \in smokeRuns /\ smokeRun \in SmokeRuns /\ smokeRun # NoRun /\ exit = 3
      /\ evidence.run # smokeRun
      /\ UNCHANGED <<platform, smokeRun, smokeRuns, rows, unlinked, package_id, file_id, apps, processes>>
  BY DEF SmokeInv, Invoked, InFile, WriteResult, deviceVars
<1>2. CASE ok
  <2>1. /\ evidence' = [run |-> smokeRun, status |-> evidence_status(rows)] /\ stage' = "end"
        /\ evidence_status(rows) = "PASS" => exit' = 0
    BY <1>2 DEF WriteResult
  <2>2. evidence_status(rows) = "PASS" => \A r \in rows : r.status = "PASS"
    BY DEF evidence_status
  <2>3. Invoked' /\ Running' /\ OnDevice' /\ InFile'
    BY <1>1, <2>1 DEF SmokeInv, Invoked, Running, OnDevice, InFile
  <2>4. EvidenceIsOfThisRun'
    BY <1>1, <2>1, <2>2 DEF SmokeInv, Running, OnDevice, EvidenceIsOfThisRun, PassRanThisApp, NoStaleEvidence
  <2> QED BY <2>3, <2>4 DEF SmokeInv
<1>3. CASE ~ok
  <2>1. /\ evidence' \in {evidence, [run |-> smokeRun, status |-> "torn"]}
        /\ stage' = "fallback" /\ exit' = exit
    BY <1>3 DEF WriteResult
  <2>2. Invoked' /\ Running' /\ OnDevice' /\ InFile'
    BY <1>1, <2>1 DEF SmokeInv, Invoked, Running, OnDevice, InFile
  <2>3. EvidenceIsOfThisRun'
    BY <1>1, <2>1 DEF SmokeInv, InFile, EvidenceIsOfThisRun, PassRanThisApp, NoStaleEvidence
  <2> QED BY <2>2, <2>3 DEF SmokeInv
<1> QED BY <1>2, <1>3

LEMMA SmokeStepInv == SmokeInv /\ [SmokeNext]_smokeVars => SmokeInv'
<1> SUFFICES ASSUME SmokeInv, [SmokeNext]_smokeVars PROVE SmokeInv'
  OBVIOUS
<1> USE DEF Invoked, Running, OnDevice, InFile, deviceVars, EvidenceIsOfThisRun, PassRanThisApp, NoStaleEvidence
<1>1. ASSUME NEW r \in SmokeRuns, InvokeSmoke(r) PROVE SmokeInv'
  BY <1>1 DEF SmokeInv, InvokeSmoke
<1>2. ASSUME NEW ok \in BOOLEAN, UnlinkOutput(ok) PROVE SmokeInv'
  BY <1>2 DEF SmokeInv, UnlinkOutput, NoEvidence
<1>3. ASSUME NEW ok \in BOOLEAN, ArchiveFails(ok) PROVE SmokeInv'
  BY <1>3 DEF SmokeInv, ArchiveFails
<1>4. ASSUME NEW ok \in BOOLEAN, WriteFallback(ok) PROVE SmokeInv'
  BY <1>4 DEF SmokeInv, WriteFallback
<1>5. CASE KillSmoke
  BY <1>5 DEF SmokeInv, KillSmoke
<1>6. CASE UNCHANGED smokeVars
  BY <1>6 DEF SmokeInv, smokeVars
<1> QED BY <1>1, <1>2, <1>3, <1>4, <1>5, <1>6, AskPreserves, WriteResultPreserves DEF SmokeNext

(* Whatever a device keeps, whatever times out, fails to be written or is  *)
(* killed, a PASS of an invocation says that its app is installed and that *)
(* the package it asked for runs, which is this app where the package is   *)
(* the file's -- on iOS it is --; and no evidence of another invocation    *)
(* stays once this one removed the file (run_native_android_smoke.py,      *)
(* run_native_ios_smoke.py).                                               *)
THEOREM EvidenceOfThisRun == SmokeSpec => []EvidenceIsOfThisRun
<1>1. SmokeInv => EvidenceIsOfThisRun
  BY DEF SmokeInv
<1> QED BY <1>1, SmokeInitInv, SmokeStepInv, PTL DEF SmokeSpec

(* Types: a row is written once.  While questions are left to ask, no row  *)
(* is of one of them.                                                      *)
RowsAreOld ==
  /\ stage = "unlink" => rows = {}
  /\ \A i \in 1..5 : Questions[platform][i] = stage =>
       \A r \in rows, j \in i..5 : r.id # row_of(Questions[platform][j])

LEMMA AskTypes ==
  ASSUME SmokeTypeOK, RowsAreOld, NEW answer \in {"yes", "no", "unknown"}, Ask(answer)
  PROVE  SmokeTypeOK' /\ RowsAreOld'
<1> DEFINE qs == Questions[platform]
           n == CHOOSE i \in DOMAIN qs : qs[i] = stage
           silent == answer = "yes" /\ platform = "android" /\ stage \in {"metadata", "launch"}
           answered == IF silent THEN {} ELSE {[id |-> row_of(stage), status |-> RowStatus(answer)]}
           later == {row_of(qs[i]) : i \in (n + 1)..Len(qs)} \ {row_of(stage)}
           goes_on == RowStatus(answer) = "PASS"
           blocked == IF goes_on THEN {} ELSE {[id |-> q, status |-> "BLOCKED"] : q \in later}
<1>1. platform \in {"android", "ios"}
  BY DEF SmokeTypeOK
<1>2. /\ Len(qs) = 5 /\ DOMAIN qs = 1..5 /\ \A i \in 1..5 : qs[i] \in Asked
      /\ \A i, j \in 1..5 : qs[i] = qs[j] => i = j
      /\ \A i \in 1..5 : qs[i] = "alive" => i = 5
      /\ \A i \in 1..4 : qs[i + 1] = "alive" => qs[i] = "launch" /\ platform = "android"
  BY <1>1, Positions
<1>3. /\ stage \in {qs[i] : i \in DOMAIN qs} /\ Device(stage, answer)
      /\ rows' = rows \cup answered \cup blocked
      /\ stage' = (IF goes_on /\ n < Len(qs) THEN qs[n + 1] ELSE "write")
      /\ UNCHANGED <<platform, smokeRun, smokeRuns, evidence, exit, unlinked, package_id, file_id>>
  BY DEF Ask
<1> HIDE DEF qs
<1>4. n \in 1..5 /\ qs[n] = stage
  BY <1>2, <1>3
<1> HIDE DEF n
<1>5. RowStatus(answer) \in RowStatuses /\ (goes_on <=> answer = "yes")
  BY DEF RowStatus, RowStatuses
<1>6. \A i \in 1..5 : row_of(qs[i]) \in RowIds
  BY <1>2 DEF row_of, RowIds, Asked
<1>7. ASSUME NEW r \in rows, NEW j \in n..5 PROVE r.id # row_of(qs[j])
  BY <1>4 DEF RowsAreOld, qs
<1>8. answered \subseteq [id : {row_of(stage)}, status : RowStatuses] /\ \A r, s \in answered : r = s
  BY <1>5
<1>9. blocked \subseteq [id : later, status : {"BLOCKED"}] /\ \A r, s \in blocked : r.id = s.id => r = s
  <2>1. \A q \in later : [id |-> q, status |-> "BLOCKED"].id = q
    OBVIOUS
  <2> HIDE DEF later
  <2> QED BY <2>1
<1>10. later \subseteq {row_of(qs[i]) : i \in n..5} \ {row_of(stage)}
  BY <1>2, <1>4
<1>11. row_of(stage) \in RowIds /\ later \subseteq RowIds
  <2>1. \A i \in n..5 : i \in 1..5
    BY <1>4
  <2> QED BY <1>4, <1>6, <1>10, <2>1
<1> HIDE DEF later, answered, blocked
<1>12. \A r \in answered : r.id = row_of(stage)
  BY <1>8
<1>13. \A r \in blocked : r.id \in later
  BY <1>9
<1>14. rows' \subseteq [id : RowIds, status : RowStatuses]
  <2>1. answered \subseteq [id : RowIds, status : RowStatuses]
    BY <1>8, <1>11
  <2>2. blocked \subseteq [id : RowIds, status : RowStatuses]
    BY <1>9, <1>11 DEF RowStatuses
  <2> QED BY <1>3, <2>1, <2>2 DEF SmokeTypeOK
<1>15. ASSUME NEW r \in rows', NEW s \in rows', r.id = s.id PROVE r = s
  <2>1. \A x \in rows, y \in answered \cup blocked : x.id # y.id
    <3> SUFFICES ASSUME NEW x \in rows, NEW y \in answered \cup blocked PROVE x.id # y.id
      OBVIOUS
    <3>1. \E j \in n..5 : y.id = row_of(qs[j])
      BY <1>4, <1>10, <1>12, <1>13
    <3> QED BY <1>7, <3>1
  <2>2. \A x \in answered, y \in blocked : x.id # y.id
    BY <1>10, <1>12, <1>13
  <2>3. \A x, y \in rows : x.id = y.id => x = y
    BY DEF SmokeTypeOK
  <2>4. r \in rows \cup answered \cup blocked /\ s \in rows \cup answered \cup blocked
    BY <1>3
  <2> QED BY <1>8, <1>9, <1>15, <2>1, <2>2, <2>3, <2>4
<1>16. stage' \in Asked \cup {"write"}
  BY <1>2, <1>3, <1>4
<1>17. apps' \in [AppIds -> Origins] /\ processes' \in [AppIds -> Origins]
  <2>1. smokeRun \in Origins /\ NoRun \in Origins
    BY DEF SmokeTypeOK, Origins
  <2>2. apps \in [AppIds -> Origins] /\ processes \in [AppIds -> Origins] /\ package_id \in AppIds
    BY DEF SmokeTypeOK
  <2>3. Install(answer) \/ Launch(answer) \/ (apps' = apps /\ processes' = processes)
    BY <1>3 DEF Device, deviceVars
  <2>4. apps[package_id] \in Origins
    BY <2>2
  <2> QED BY <2>1, <2>2, <2>3, <2>4 DEF Install, Launch, deviceVars
<1>18. SmokeTypeOK'
  BY <1>3, <1>14, <1>15, <1>16, <1>17 DEF SmokeTypeOK, RowIds, Asked
<1>19. RowsAreOld'
  <2> SUFFICES ASSUME stage' \in Asked PROVE RowsAreOld'
    BY <1>1, <1>2, <1>3, <1>16 DEF RowsAreOld, Asked, qs
  <2>1. answer = "yes" /\ n \in 1..4 /\ n + 1 \in 1..5 /\ stage' = qs[n + 1]
    BY <1>2, <1>3, <1>4, <1>5 DEF Asked
  <2>2. blocked = {} /\ rows' = rows \cup answered
    BY <1>3, <1>5, <2>1 DEF blocked
  <2>3. ASSUME NEW r \in rows', NEW j \in (n + 1)..5 PROVE r.id # row_of(qs[j])
    <3>1. j \in n..5 /\ j \in 1..5 /\ j # n
      BY <2>1
    <3>2. CASE r \in rows
      BY <1>7, <3>1, <3>2
    <3>3. CASE r \in answered
      <4>1. r.id = row_of(stage) /\ ~silent
        BY <1>12, <3>3 DEF answered
      <4>2. qs[j] # stage
        BY <1>2, <1>4, <3>1
      <4>3. stage # "alive"
        BY <1>2, <1>4, <2>1
      <4>4. stage = "launch" => platform = "ios"
        BY <1>1, <2>1, <4>1
      <4>5. platform = "ios" => qs[j] # "alive"
        <5>1. platform = "ios" => qs = <<"digest", "bundle", "metadata", "install", "launch">>
          BY DEF qs, Questions
        <5> QED BY <3>1, <5>1
      <4> QED BY <4>1, <4>2, <4>3, <4>4, <4>5 DEF row_of
    <3> QED BY <2>2, <3>2, <3>3
  <2>4. stage' # "unlink"
    BY DEF Asked
  <2>5. \A i \in 1..5 : qs[i] = stage' => i = n + 1
    BY <1>2, <2>1
  <2> QED BY <1>3, <2>3, <2>4, <2>5 DEF RowsAreOld, qs
<1> QED BY <1>18, <1>19

LEMMA EvidenceStatuses == evidence_status(rows) \in {"PASS", "FAIL", "UNVERIFIED"}
BY DEF evidence_status

(* What the smoke runs keep is well typed; each row is written once, a     *)
(* launch on Android with its process (run_native_android_smoke.py,        *)
(* run_native_ios_smoke.py).                                               *)
THEOREM SmokeTypes == SmokeSpec => []SmokeTypeOK
<1>1. SmokeInit => SmokeTypeOK /\ RowsAreOld
  <2> SUFFICES ASSUME SmokeInit PROVE SmokeTypeOK /\ RowsAreOld
    OBVIOUS
  <2>1. rows = {}
    BY DEF SmokeInit
  <2>2. RowsAreOld
    BY <2>1 DEF RowsAreOld
  <2>3. evidence \in [run : SmokeRuns \cup {NoRun}, status : {"none", "torn", "PASS", "FAIL", "UNVERIFIED"}]
    BY DEF SmokeInit, NoEvidence
  <2>4. rows \subseteq [id : RowIds, status : RowStatuses] /\ \A r, s \in rows : r.id = s.id => r = s
    BY <2>1
  <2>5. stage \in RowIds \cup {"unlink", "alive", "write", "fallback", "end"} /\ exit \in 0..3
    BY DEF SmokeInit
  <2>6. unlinked \in BOOLEAN
    BY DEF SmokeInit
  <2>7. /\ {package_id, file_id} \subseteq AppIds
        /\ apps \in [AppIds -> Origins] /\ processes \in [AppIds -> Origins]
    BY DEF SmokeInit, Origins
  <2>8. platform \in {"android", "ios"} /\ smokeRun \in SmokeRuns \cup {NoRun} /\ smokeRuns \subseteq SmokeRuns
    BY DEF SmokeInit
  <2>9. SmokeTypeOK
    BY <2>3, <2>4, <2>5, <2>6, <2>7, <2>8, Zenon DEF SmokeTypeOK
  <2> QED BY <2>2, <2>9
<1>2. ASSUME SmokeTypeOK, RowsAreOld, [SmokeNext]_smokeVars PROVE SmokeTypeOK' /\ RowsAreOld'
  <2>1. platform \in {"android", "ios"} /\ \A i \in 1..5 : Questions[platform][i] \in Asked
    BY <1>2, Positions DEF SmokeTypeOK
  <2>2. ASSUME UNCHANGED <<platform, rows>>, stage' \notin Asked \cup {"unlink"} PROVE RowsAreOld'
    BY <2>1, <2>2 DEF RowsAreOld, Asked
  <2>3. ASSUME NEW r \in SmokeRuns, InvokeSmoke(r) PROVE SmokeTypeOK' /\ RowsAreOld'
    <3>1. rows' = {} /\ smokeRun' = r /\ smokeRuns' = smokeRuns \cup {r} /\ stage' = "unlink" /\ exit' = 3
          /\ unlinked' = FALSE /\ UNCHANGED <<platform, evidence, apps, processes>> /\ {package_id', file_id'} \subseteq AppIds
      BY <2>3 DEF InvokeSmoke, deviceVars
    <3>2. rows' \subseteq [id : RowIds, status : RowStatuses] /\ \A x, y \in rows' : x.id = y.id => x = y
      BY <3>1
    <3>3. stage' \in RowIds \cup {"unlink", "alive", "write", "fallback", "end"} /\ exit' \in 0..3
      BY <3>1
    <3>4. unlinked' \in BOOLEAN
      BY <3>1
    <3>5. smokeRun' \in SmokeRuns \cup {NoRun} /\ smokeRuns' \subseteq SmokeRuns
      BY <1>2, <3>1 DEF SmokeTypeOK
    <3>6. SmokeTypeOK'
      BY <1>2, <3>1, <3>2, <3>3, <3>4, <3>5 DEF SmokeTypeOK
    <3> QED BY <3>1, <3>6 DEF RowsAreOld
  <2>4. ASSUME NEW ok \in BOOLEAN, UnlinkOutput(ok) PROVE SmokeTypeOK' /\ RowsAreOld'
    <3>1. /\ stage = "unlink" /\ stage' \in {"digest", "fallback"} /\ unlinked' = ok
          /\ evidence' \in {NoEvidence, evidence}
          /\ UNCHANGED <<platform, smokeRun, smokeRuns, rows, exit, package_id, file_id, apps, processes>>
      BY <2>4 DEF UnlinkOutput, deviceVars
    <3>2. rows' = {}
      BY <1>2, <3>1 DEF RowsAreOld
    <3>3. evidence' \in [run : SmokeRuns \cup {NoRun}, status : {"none", "torn", "PASS", "FAIL", "UNVERIFIED"}]
      BY <1>2, <3>1 DEF NoEvidence, SmokeTypeOK
    <3>4. SmokeTypeOK'
      BY <1>2, <3>1, <3>3 DEF SmokeTypeOK, RowIds
    <3> QED BY <3>2, <3>4 DEF RowsAreOld
  <2>5. ASSUME NEW ok \in BOOLEAN, ArchiveFails(ok) PROVE SmokeTypeOK' /\ RowsAreOld'
    BY <1>2, <2>2, <2>5 DEF SmokeTypeOK, ArchiveFails, Asked, deviceVars
  <2>6. ASSUME NEW ok \in BOOLEAN, WriteResult(ok) PROVE SmokeTypeOK' /\ RowsAreOld'
    <3>1. stage' \in {"end", "fallback"} /\ UNCHANGED <<platform, smokeRun, smokeRuns, rows, unlinked, package_id, file_id, apps, processes>>
      BY <2>6 DEF WriteResult, deviceVars
    <3>2. evidence' \in [run : SmokeRuns \cup {NoRun}, status : {"none", "torn", "PASS", "FAIL", "UNVERIFIED"}]
      BY <1>2, <2>6, EvidenceStatuses DEF WriteResult, SmokeTypeOK
    <3>3. exit' \in 0..3
      BY <1>2, <2>6 DEF WriteResult, SmokeTypeOK
    <3>4. SmokeTypeOK'
      BY <1>2, <3>1, <3>2, <3>3 DEF SmokeTypeOK
    <3> QED BY <2>2, <3>1, <3>4 DEF Asked
  <2>7. ASSUME NEW ok \in BOOLEAN, WriteFallback(ok) PROVE SmokeTypeOK' /\ RowsAreOld'
    BY <1>2, <2>2, <2>7 DEF SmokeTypeOK, WriteFallback, Asked, deviceVars
  <2>8. CASE KillSmoke
    BY <1>2, <2>2, <2>8 DEF SmokeTypeOK, KillSmoke, Asked, deviceVars
  <2>9. CASE UNCHANGED smokeVars
    BY <1>2, <2>9 DEF SmokeTypeOK, RowsAreOld, smokeVars, deviceVars
  <2> QED BY <1>2, <2>3, <2>4, <2>5, <2>6, <2>7, <2>8, <2>9, AskTypes DEF SmokeNext
<1> QED BY <1>1, <1>2, PTL DEF SmokeSpec
=============================================================================
