---------------------------- MODULE CiJobsProofs ----------------------------
(***************************************************************************)
(* Every job keeps its own specification in the composition, so that what  *)
(* is proved of one of them holds of all of them side by side; and what    *)
(* the policies promise, for any images, tests, entries and dates.         *)
(***************************************************************************)
EXTENDS CiJobs, EvidenceProofs, TestDataScopeProofs, GateProofs, FiniteSetTheorems

-----------------------------------------------------------------------------
(* A sealed manifest is one chain.                                         *)
LEMMA NothingSealed == ChainInit => SealedIsOneChain
BY DEF ChainInit, SealedIsOneChain, Unsealed

LEMMA ManifestStays ==
  ASSUME SealedIsOneChain, security_manifest' = security_manifest
  PROVE  SealedIsOneChain'
BY DEF SealedIsOneChain

(* Report-only is the training image's alone: what is decided that way is  *)
(* about it.                                                               *)
ReportOnlyIsTraining ==
  policy_result.status = "REPORT_ONLY" => policy_result.image = TrainingImage /\ ~policy_result.eligible

ChainInv == SealedIsOneChain /\ ReportOnlyIsTraining

LEMMA BuildSeals ==
  ASSUME SealedIsOneChain, ReportOnlyIsTraining, NEW image \in Images, NEW written \in BOOLEAN,
         build_manifest(image, written)
  PROVE  SealedIsOneChain'
<1>1. CASE ~written
  BY <1>1, ManifestStays DEF build_manifest
<1>2. CASE written /\ ~chain_holds(image)
  BY <1>2 DEF build_manifest, Unsealed, SealedIsOneChain
<1>3. CASE written /\ chain_holds(image)
  <2>1. security_manifest' =
          [status |-> "PASS", raw |-> trivy.sha, summary |-> trivy_summary, policy |-> policy_result,
           sbom |-> sbom.sha, validation |-> sbom_validation]
    BY <1>3 DEF build_manifest
  <2>2. /\ trivy.sha # 0 /\ trivy_summary.source = trivy.sha /\ policy_result.source = trivy.sha
        /\ sbom_validation = sbom.sha /\ sbom.sha # 0 /\ trivy_summary.image = TrainingImage
        /\ policy_result.status = "REPORT_ONLY" /\ ~policy_result.eligible
    BY <1>3 DEF chain_holds, ReportOnlyIsTraining
  <2> QED BY <2>1, <2>2 DEF SealedIsOneChain
<1> QED BY <1>1, <1>2, <1>3

LEMMA DecisionIsTraining ==
  ASSUME ReportOnlyIsTraining,
         NEW report_only \in BOOLEAN, NEW usable \in BOOLEAN, NEW blocking \in BOOLEAN, NEW written \in BOOLEAN,
         evaluate_container_policy(report_only, usable, blocking, written)
  PROVE  ReportOnlyIsTraining'
<1>1. CASE ~written
  BY <1>1 DEF evaluate_container_policy, ReportOnlyIsTraining
<1>2. CASE written /\ ~may_decide(report_only, usable)
  BY <1>2 DEF evaluate_container_policy, ReportOnlyIsTraining, Undecided
<1>3. CASE written /\ may_decide(report_only, usable)
  <2>1. policy_result' =
          [status |-> IF report_only THEN "REPORT_ONLY" ELSE IF blocking THEN "FAIL" ELSE "PASS",
           source |-> trivy_summary.source, image |-> trivy_summary.image, eligible |-> ~report_only]
    BY <1>3 DEF evaluate_container_policy
  <2>2. report_only => trivy_summary.image = TrainingImage
    BY <1>3 DEF may_decide
  <2>3. CASE report_only
    BY <2>1, <2>2, <2>3 DEF ReportOnlyIsTraining
  <2>4. CASE ~report_only
    BY <2>1, <2>4 DEF ReportOnlyIsTraining
  <2> QED BY <2>3, <2>4
<1> QED BY <1>1, <1>2, <1>3

LEMMA ChainStepInv == ChainInv /\ [ChainNext]_chainVars => ChainInv'
<1> SUFFICES ASSUME ChainInv, [ChainNext]_chainVars PROVE ChainInv'
  OBVIOUS
<1>1. ASSUME NEW image \in Images, NEW ok \in BOOLEAN, ScanImage(image, ok) \/ summarize_file(image, ok)
      PROVE  ChainInv'
  BY <1>1 DEF ChainInv, SealedIsOneChain, ReportOnlyIsTraining, ScanImage, summarize_file
<1>2. ASSUME NEW image \in Images, NEW ok \in BOOLEAN, build_manifest(image, ok)
      PROVE  ChainInv'
  <2>1. ReportOnlyIsTraining'
    BY <1>2 DEF ChainInv, ReportOnlyIsTraining, build_manifest
  <2>2. SealedIsOneChain'
    BY <1>2, BuildSeals DEF ChainInv
  <2> QED BY <2>1, <2>2 DEF ChainInv
<1>3. ASSUME NEW ok \in BOOLEAN, GenerateSbom(ok) \/ validate_file(ok)
      PROVE  ChainInv'
  BY <1>3 DEF ChainInv, SealedIsOneChain, ReportOnlyIsTraining, GenerateSbom, validate_file
<1>4. ASSUME NEW report_only \in BOOLEAN, NEW usable \in BOOLEAN, NEW blocking \in BOOLEAN, NEW written \in BOOLEAN,
             evaluate_container_policy(report_only, usable, blocking, written)
      PROVE  ChainInv'
  <2>1. security_manifest' = security_manifest
    BY <1>4 DEF evaluate_container_policy
  <2> QED BY <1>4, <2>1, ManifestStays, DecisionIsTraining DEF ChainInv
<1>5. CASE UNCHANGED chainVars
  BY <1>5 DEF ChainInv, SealedIsOneChain, ReportOnlyIsTraining, chainVars
<1> QED BY <1>1, <1>2, <1>3, <1>4, <1>5 DEF ChainNext

LEMMA ChainInvariant == ChainSpec => []ChainInv
<1>1. ChainInit => ChainInv
  BY NothingSealed DEF ChainInit, ChainInv, ReportOnlyIsTraining, Undecided
<1> QED BY <1>1, ChainStepInv, PTL DEF ChainSpec

-----------------------------------------------------------------------------
(* The test step: a crash leaves a gap before an attempt that will be      *)
(* reported, and without one every attempt that ended is remembered.       *)

Reported(w, t, a) == records[w][t][a] # Unreported
Busy(t) == t \in pending \/ \E w \in Workers : running[w] = t
NoCrash == \A t \in Tests, a \in Attempts : outcome[t][a] # "crash"

AssignedOK ==
  \A w \in Workers : running[w] # NoTest =>
    /\ worker[w] = "up" /\ running[w] \notin pending
    /\ \A v \in Workers : running[v] = running[w] => v = w

OutcomesOK ==
  \A t \in Tests :
    /\ \A a \in Attempts : a < attempt(t) => outcome[t][a] \in {"FAIL", "crash"}
    /\ \A a \in Attempts : a > attempt(t) => outcome[t][a] = "none"
    /\ Busy(t) => outcome[t][attempt(t)] = "none"
    /\ ~Busy(t) => outcome[t][attempt(t)] \in {"PASS", "SKIP"} \/ pytest = "failed"

RecordsOK ==
  /\ \A w \in Workers : worker[w] \in {"unused", "gone"} => records[w] = NoRecords
  /\ \A w \in Workers, t \in Tests, a \in Attempts :
       Reported(w, t, a) => a <= attempt(t) /\ (a = attempt(t) /\ Busy(t) => running[w] = t)

Remembered(t, a) ==
  outcome[t][a] \in STATUSES =>
    \E w \in Workers : Reported(w, t, a) /\ attempt_status(records[w][t][a]) = outcome[t][a]

(* The attempt died with its worker, and a later one is or will be there. *)
Gap(t, a) ==
  /\ a < attempt(t)
  /\ \A w \in Workers : ~Reported(w, t, a)
  /\ Busy(t) \/ \E w \in Workers, b \in Attempts : b > a /\ Reported(w, t, b)

CrashesOK ==
  IF NoCrash THEN \A t \in Tests, a \in Attempts : Remembered(t, a)
  ELSE pytest = "failed" \/ \E t \in Tests, a \in Attempts : Gap(t, a)

EndOK ==
  /\ (\E w \in Workers : worker[w] = "up") \/ pending = {} \/ shards = {}
  /\ report # "none" => report = summary_status /\ \A w \in Workers : worker[w] # "up"

TelemetryInv == TelemetryTypeOK /\ AssignedOK /\ OutcomesOK /\ RecordsOK /\ CrashesOK /\ EndOK

LEMMA AttemptFacts ==
  ASSUME TelemetryTypeOK, NEW t \in Tests
  PROVE  attempt(t) \in Nat /\ attempt(t) \in 1..(Reruns + 1) /\ attempt(t) = failures[t] + 1
BY TelemetryAssumption DEF TelemetryTypeOK, attempt

LEMMA StatusIsOne == \A phases : attempt_status(phases) \in STATUSES
BY DEF attempt_status, STATUSES

LEMMA TelemetryStarts == TelemetryInit => TelemetryInv
<1> SUFFICES ASSUME TelemetryInit PROVE TelemetryInv
  OBVIOUS
<1>1. TelemetryTypeOK
  BY TelemetryAssumption DEF TelemetryInit, TelemetryTypeOK, NoRecords, Unreported, Attempts
<1>2. AssignedOK
  BY DEF TelemetryInit, AssignedOK
<1>3. /\ \A t \in Tests : attempt(t) = 1 /\ Busy(t)
      /\ \A t \in Tests, a \in Attempts : outcome[t][a] = "none"
      /\ \A w \in Workers, t \in Tests, a \in Attempts : ~Reported(w, t, a)
  BY DEF TelemetryInit, attempt, Busy, Reported, NoRecords
<1>4. OutcomesOK
  <2>1. \A t \in Tests : attempt(t) \in Attempts
    BY <1>3, TelemetryAssumption DEF Attempts
  <2>2. \A a \in Attempts : ~(a < 1)
    BY DEF Attempts
  <2> QED BY <1>3, <2>1, <2>2 DEF OutcomesOK
<1>5. RecordsOK
  <2>1. \A w \in Workers : records[w] = NoRecords
    BY DEF TelemetryInit
  <2> QED BY <1>3, <2>1 DEF RecordsOK
<1>6. CrashesOK
  BY <1>3 DEF CrashesOK, NoCrash, Remembered, STATUSES
<1>7. EndOK
  BY DEF TelemetryInit, EndOK
<1> QED BY <1>1, <1>2, <1>4, <1>5, <1>6, <1>7 DEF TelemetryInv

(* While workers are up there is no report, and no other step than the     *)
(* last worker's end takes that away.                                      *)
LEMMA StillOpen ==
  ASSUME EndOK, NEW w \in Workers, worker[w] = "up", report' = report,
         (\E v \in Workers : worker'[v] = "up") \/ pending' = {}
  PROVE  EndOK'
BY DEF EndOK

LEMMA BeginKeeps ==
  ASSUME TelemetryInv, NEW w \in Workers, NEW t \in Tests, Begin(w, t)
  PROVE  TelemetryInv'
<1>1. /\ worker[w] = "up" /\ running[w] = NoTest /\ t \in pending
      /\ pending' = pending \ {t}
      /\ UNCHANGED <<failures, worker, records, shards, outcome, pytest, report>>
  BY DEF Begin
<1>2. \A v \in Workers : running'[v] = IF v = w THEN t ELSE running[v]
  BY DEF Begin, TelemetryInv, TelemetryTypeOK
<1>3. TelemetryTypeOK'
  BY DEF Begin, TelemetryInv, TelemetryTypeOK
<1>4. \A v \in Workers : running[v] # t
  BY <1>1, TelemetryAssumption DEF TelemetryInv, AssignedOK
<1>5. AssignedOK'
  <2> SUFFICES ASSUME NEW v \in Workers, running'[v] # NoTest
               PROVE  /\ worker'[v] = "up" /\ running'[v] \notin pending'
                      /\ \A u \in Workers : running'[u] = running'[v] => u = v
    BY DEF AssignedOK
  <2> QED BY <1>1, <1>2, <1>4 DEF TelemetryInv, AssignedOK
<1>6. \A u \in Tests : Busy(u)' <=> Busy(u)
  BY <1>1, <1>2, TelemetryAssumption DEF Busy
<1>7. \A u \in Tests : attempt(u)' = attempt(u)
  BY <1>1 DEF attempt
<1>8. OutcomesOK'
  BY <1>1, <1>6, <1>7 DEF TelemetryInv, OutcomesOK
<1>9. RecordsOK'
  <2>1. ASSUME NEW v \in Workers, NEW u \in Tests, NEW a \in Attempts, Reported(v, u, a)'
        PROVE  a <= attempt(u)' /\ (a = attempt(u)' /\ Busy(u)' => running'[v] = u)
    <3>1. Reported(v, u, a)
      BY <1>1, <2>1 DEF Reported
    <3>2. a <= attempt(u) /\ (a = attempt(u) /\ Busy(u) => running[v] = u)
      BY <3>1 DEF TelemetryInv, RecordsOK
    <3>3. running[v] = u => running'[v] = u
      BY <1>1, <1>2, TelemetryAssumption
    <3> QED BY <1>6, <1>7, <3>2, <3>3
  <2>2. \A v \in Workers : worker'[v] \in {"unused", "gone"} => records'[v] = NoRecords
    BY <1>1 DEF TelemetryInv, RecordsOK
  <2> QED BY <2>1, <2>2 DEF RecordsOK
<1>10. CrashesOK'
  BY <1>1, <1>6, <1>7 DEF TelemetryInv, CrashesOK, NoCrash, Remembered, Gap, Reported
<1>11. EndOK'
  BY <1>1, StillOpen DEF TelemetryInv
<1> QED BY <1>3, <1>5, <1>8, <1>9, <1>10, <1>11 DEF TelemetryInv

LEMMA MakereportKeeps ==
  ASSUME TelemetryInv, NEW w \in Workers, NEW phase \in PHASES, NEW result \in STATUSES,
         pytest_runtest_makereport(w, phase, result)
  PROVE  TelemetryInv'
<1>1. PICK t, k : t = running[w] /\ k = attempt(t)
  OBVIOUS
<1>2. /\ worker[w] = "up" /\ t \in Tests /\ k \in Attempts
      /\ UNCHANGED <<pending, running, failures, worker, shards, outcome, pytest, report>>
  <2>1. worker[w] = "up" /\ t # NoTest
    BY <1>1 DEF pytest_runtest_makereport
  <2>2. t \in Tests
    BY <1>1, <2>1 DEF TelemetryInv, TelemetryTypeOK
  <2>3. k \in Attempts
    BY <1>1, <2>2, AttemptFacts DEF TelemetryInv, Attempts
  <2> QED BY <2>1, <2>2, <2>3 DEF pytest_runtest_makereport
<1>3. PICK new : new = [records[w][t][k] EXCEPT ![phase] = IF @ # "FAIL" THEN result ELSE @]
  OBVIOUS
<1>4. records' = [records EXCEPT ![w][t][k] = new]
  BY <1>1, <1>3 DEF pytest_runtest_makereport
<1>5. records[w][t][k] \in [PHASES -> STATUSES \cup {"none"}]
  BY <1>2 DEF TelemetryInv, TelemetryTypeOK
<1>6. new \in [PHASES -> STATUSES \cup {"none"}] /\ new # Unreported
  <2>1. new[phase] \in STATUSES
    BY <1>3, <1>5 DEF STATUSES
  <2> QED BY <1>3, <1>5, <2>1 DEF Unreported, STATUSES
<1>7. \A v \in Workers, u \in Tests, a \in Attempts :
        records'[v][u][a] = IF v = w /\ u = t /\ a = k THEN new ELSE records[v][u][a]
  BY <1>2, <1>4 DEF TelemetryInv, TelemetryTypeOK
<1>8. TelemetryTypeOK'
  <2>1. records' \in [Workers -> [Tests -> [Attempts -> [PHASES -> STATUSES \cup {"none"}]]]]
    BY <1>2, <1>4, <1>6 DEF TelemetryInv, TelemetryTypeOK
  <2> QED BY <1>2, <2>1 DEF TelemetryInv, TelemetryTypeOK
<1>9. AssignedOK'
  BY <1>2 DEF TelemetryInv, AssignedOK
<1>10. /\ \A u \in Tests : (Busy(u)' <=> Busy(u)) /\ attempt(u)' = attempt(u)
       /\ Busy(t) /\ outcome[t][k] = "none"
  <2>1. \A u \in Tests : (Busy(u)' <=> Busy(u)) /\ attempt(u)' = attempt(u)
    BY <1>2 DEF Busy, attempt
  <2>2. Busy(t)
    BY <1>1 DEF Busy
  <2> QED BY <1>1, <1>2, <2>1, <2>2 DEF TelemetryInv, OutcomesOK
<1>11. OutcomesOK'
  BY <1>2, <1>10 DEF TelemetryInv, OutcomesOK
<1>12. \A v \in Workers, u \in Tests, a \in Attempts :
         Reported(v, u, a)' <=> Reported(v, u, a) \/ (v = w /\ u = t /\ a = k)
  BY <1>6, <1>7 DEF Reported
<1>13. RecordsOK'
  <2>1. ASSUME NEW v \in Workers, worker'[v] \in {"unused", "gone"} PROVE records'[v] = NoRecords
    <3>1. v # w
      BY <1>2, <2>1
    <3>2. records'[v] = records[v]
      BY <1>4, <3>1 DEF TelemetryInv, TelemetryTypeOK
    <3> QED BY <1>2, <2>1, <3>2 DEF TelemetryInv, RecordsOK
  <2>2. ASSUME NEW v \in Workers, NEW u \in Tests, NEW a \in Attempts, Reported(v, u, a)'
        PROVE  a <= attempt(u)' /\ (a = attempt(u)' /\ Busy(u)' => running'[v] = u)
    <3>1. CASE Reported(v, u, a)
      BY <1>2, <1>10, <3>1 DEF TelemetryInv, RecordsOK
    <3>2. CASE v = w /\ u = t /\ a = k
      BY <1>1, <1>2, <1>10, <3>2, AttemptFacts DEF TelemetryInv
    <3> QED BY <1>12, <2>2, <3>1, <3>2
  <2> QED BY <2>1, <2>2 DEF RecordsOK
<1>14. CrashesOK'
  <2>1. CASE NoCrash
    <3>1. NoCrash'
      BY <1>2, <2>1 DEF NoCrash
    <3>2. ASSUME NEW u \in Tests, NEW a \in Attempts, outcome'[u][a] \in STATUSES
          PROVE  \E v \in Workers : /\ Reported(v, u, a)'
                                    /\ attempt_status(records'[v][u][a]) = outcome'[u][a]
      <4>1. PICK v \in Workers : Reported(v, u, a) /\ attempt_status(records[v][u][a]) = outcome[u][a]
        BY <1>2, <2>1, <3>2 DEF TelemetryInv, CrashesOK, Remembered
      <4>2. ~(u = t /\ a = k)
        BY <1>2, <1>10, <3>2 DEF STATUSES
      <4>3. records'[v][u][a] = records[v][u][a]
        BY <1>7, <4>2
      <4> QED BY <1>2, <1>12, <4>1, <4>3
    <3>3. \A u \in Tests, a \in Attempts : Remembered(u, a)'
      BY <3>2, StatusIsOne DEF Remembered
    <3> QED BY <3>1, <3>3 DEF CrashesOK
  <2>2. CASE ~NoCrash
    <3>1. ~NoCrash'
      BY <1>2, <2>2 DEF NoCrash
    <3>2. CASE pytest = "failed"
      BY <1>2, <3>1, <3>2 DEF CrashesOK
    <3>3. ASSUME NEW u \in Tests, NEW a \in Attempts, Gap(u, a) PROVE Gap(u, a)'
      <4>1. ~(u = t /\ a = k)
        BY <1>1, <1>2, <3>3, AttemptFacts DEF Gap, TelemetryInv
      <4> QED BY <1>10, <1>12, <3>3, <4>1 DEF Gap
    <3> QED BY <2>2, <3>1, <3>2, <3>3 DEF TelemetryInv, CrashesOK
  <2> QED BY <2>1, <2>2
<1>15. EndOK'
  BY <1>2, StillOpen DEF TelemetryInv
<1> QED BY <1>8, <1>9, <1>11, <1>13, <1>14, <1>15 DEF TelemetryInv

LEMMA EndAttemptKeeps ==
  ASSUME TelemetryInv, NEW w \in Workers, EndAttempt(w)
  PROVE  TelemetryInv'
<1>1. PICK t, k, s : t = running[w] /\ k = attempt(t) /\ s = attempt_status(records[w][t][k])
  OBVIOUS
<1>2. /\ worker[w] = "up" /\ t \in Tests /\ k \in Attempts /\ k \in Nat /\ k = failures[t] + 1
      /\ records[w][t][k]["teardown"] # "none"
      /\ UNCHANGED <<pending, worker, records, shards, report>>
  <2>1. worker[w] = "up" /\ t # NoTest
    BY <1>1 DEF EndAttempt
  <2>2. t \in Tests
    BY <1>1, <2>1 DEF TelemetryInv, TelemetryTypeOK
  <2>3. k \in Attempts /\ k \in Nat /\ k = failures[t] + 1
    BY <1>1, <2>2, AttemptFacts DEF TelemetryInv, Attempts
  <2> QED BY <1>1, <2>1, <2>2, <2>3 DEF EndAttempt
<1>3. \/ /\ s = "FAIL" /\ failures[t] < Reruns
         /\ failures' = [failures EXCEPT ![t] = @ + 1] /\ running' = running /\ pytest' = pytest
      \/ /\ failures' = failures /\ running' = [running EXCEPT ![w] = NoTest]
         /\ pytest' = IF s = "FAIL" THEN "failed" ELSE pytest
  BY <1>1 DEF EndAttempt
<1>4. outcome' = [outcome EXCEPT ![t][k] = s] /\ s \in STATUSES
  BY <1>1, StatusIsOne DEF EndAttempt
<1>5. \A u \in Tests, a \in Attempts : outcome'[u][a] = IF u = t /\ a = k THEN s ELSE outcome[u][a]
  BY <1>2, <1>4 DEF TelemetryInv, TelemetryTypeOK
<1>6. Reported(w, t, k)
  BY <1>2 DEF Reported, Unreported, PHASES
<1>7. /\ Busy(t) /\ outcome[t][k] = "none" /\ t \notin pending
      /\ \A v \in Workers : running[v] = t => v = w
  <2>1. Busy(t)
    BY <1>1 DEF Busy
  <2> QED BY <1>1, <1>2, <2>1, TelemetryAssumption DEF TelemetryInv, OutcomesOK, AssignedOK
<1>8. \A u \in Tests \ {t} : attempt(u)' = attempt(u) /\ (Busy(u)' <=> Busy(u))
  <2>1. \A u \in Tests \ {t} : failures'[u] = failures[u]
    BY <1>3 DEF TelemetryInv, TelemetryTypeOK
  <2>2. \A u \in Tests \ {t}, v \in Workers : running'[v] = u <=> running[v] = u
    BY <1>1, <1>3, TelemetryAssumption DEF TelemetryInv, TelemetryTypeOK
  <2> QED BY <1>2, <2>1, <2>2 DEF attempt, Busy
<1>9. \/ s = "FAIL" /\ attempt(t)' = k + 1 /\ k + 1 \in Attempts /\ Busy(t)' /\ pytest' = pytest
      \/ attempt(t)' = k /\ ~Busy(t)' /\ (s \in {"PASS", "SKIP"} \/ pytest' = "failed")
  <2>1. CASE /\ s = "FAIL" /\ failures[t] < Reruns
             /\ failures' = [failures EXCEPT ![t] = @ + 1] /\ running' = running /\ pytest' = pytest
    <3>1. attempt(t)' = k + 1 /\ k + 1 \in Attempts
      BY <1>2, <2>1, TelemetryAssumption DEF attempt, TelemetryInv, TelemetryTypeOK, Attempts
    <3>2. Busy(t)'
      BY <1>2, <1>7, <2>1 DEF Busy
    <3> QED BY <2>1, <3>1, <3>2
  <2>2. CASE /\ failures' = failures /\ running' = [running EXCEPT ![w] = NoTest]
             /\ pytest' = IF s = "FAIL" THEN "failed" ELSE pytest
    <3>1. attempt(t)' = k
      BY <1>1, <2>2 DEF attempt
    <3>2. \A v \in Workers : running'[v] # t
      BY <1>2, <1>7, <2>2, TelemetryAssumption DEF TelemetryInv, TelemetryTypeOK
    <3>3. ~Busy(t)'
      BY <1>2, <1>7, <3>2 DEF Busy
    <3> QED BY <1>4, <2>2, <3>1, <3>3 DEF STATUSES
  <2> QED BY <1>3, <2>1, <2>2
<1>10. pytest = "failed" => pytest' = "failed"
  BY <1>3
<1>11. TelemetryTypeOK'
  <2>1. failures' \in [Tests -> 0..Reruns] /\ running' \in [Workers -> Tests \cup {NoTest}]
    <3>1. failures \in [Tests -> 0..Reruns] /\ running \in [Workers -> Tests \cup {NoTest}]
      BY DEF TelemetryInv, TelemetryTypeOK
    <3>2. failures[t] < Reruns => failures[t] + 1 \in 0..Reruns
      BY <1>2, <3>1, TelemetryAssumption
    <3> QED BY <1>3, <3>1, <3>2
  <2>2. outcome' \in [Tests -> [Attempts -> STATUSES \cup {"none", "crash"}]]
    BY <1>2, <1>4 DEF TelemetryInv, TelemetryTypeOK
  <2>3. pytest' \in {"passed", "failed"}
    BY <1>3 DEF TelemetryInv, TelemetryTypeOK
  <2> QED BY <1>2, <2>1, <2>2, <2>3 DEF TelemetryInv, TelemetryTypeOK
<1>12. AssignedOK'
  BY <1>2, <1>3, <1>11 DEF TelemetryInv, AssignedOK, TelemetryTypeOK
<1>13. OutcomesOK'
  <2>1. ASSUME NEW u \in Tests \ {t}
        PROVE  /\ \A a \in Attempts : a < attempt(u)' => outcome'[u][a] \in {"FAIL", "crash"}
               /\ \A a \in Attempts : a > attempt(u)' => outcome'[u][a] = "none"
               /\ Busy(u)' => outcome'[u][attempt(u)'] = "none"
               /\ ~Busy(u)' => outcome'[u][attempt(u)'] \in {"PASS", "SKIP"} \/ pytest' = "failed"
    <3>1. \A a \in Attempts : outcome'[u][a] = outcome[u][a]
      BY <1>5
    <3>2. attempt(u)' = attempt(u) /\ attempt(u) \in Attempts /\ (Busy(u)' <=> Busy(u))
      BY <1>8, AttemptFacts DEF TelemetryInv, Attempts
    <3> QED BY <1>10, <3>1, <3>2 DEF TelemetryInv, OutcomesOK
  <2>2. /\ \A a \in Attempts : a < attempt(t)' => outcome'[t][a] \in {"FAIL", "crash"}
        /\ \A a \in Attempts : a > attempt(t)' => outcome'[t][a] = "none"
        /\ Busy(t)' => outcome'[t][attempt(t)'] = "none"
        /\ ~Busy(t)' => outcome'[t][attempt(t)'] \in {"PASS", "SKIP"} \/ pytest' = "failed"
    <3>1. /\ \A a \in Attempts : a < k => outcome[t][a] \in {"FAIL", "crash"}
          /\ \A a \in Attempts : a > k => outcome[t][a] = "none"
      <4>1. k = attempt(t)
        BY <1>1
      <4>2. /\ \A a \in Attempts : a < attempt(t) => outcome[t][a] \in {"FAIL", "crash"}
            /\ \A a \in Attempts : a > attempt(t) => outcome[t][a] = "none"
        BY <1>2 DEF TelemetryInv, OutcomesOK
      <4> QED BY <4>1, <4>2
    <3>9. k \in Nat /\ \A a \in Attempts : a \in Nat
      BY <1>2 DEF Attempts
    <3>2. CASE s = "FAIL" /\ attempt(t)' = k + 1 /\ k + 1 \in Attempts /\ Busy(t)'
      <4>1. \A a \in Attempts : a < k + 1 => a = k \/ a < k
        BY <3>9
      <4>2. \A a \in Attempts : a < k + 1 => outcome'[t][a] \in {"FAIL", "crash"}
        BY <1>2, <1>5, <3>1, <3>2, <4>1
      <4>3. \A a \in Attempts : a >= k + 1 => outcome'[t][a] = "none"
        <5>1. \A a \in Attempts : a >= k + 1 => a # k /\ a > k
          BY <3>9
        <5>2. t \in Tests
          BY <1>2
        <5> QED BY <1>5, <3>1, <5>1, <5>2
      <4> QED
        <5>1. \A a \in Attempts : a > k + 1 => a >= k + 1
          BY <3>9
        <5>2. k + 1 >= k + 1
          BY <3>9
        <5> QED BY <3>2, <4>2, <4>3, <5>1, <5>2
    <3>3. CASE attempt(t)' = k /\ ~Busy(t)' /\ (s \in {"PASS", "SKIP"} \/ pytest' = "failed")
      BY <1>2, <1>5, <3>9, <3>1, <3>3
    <3> QED BY <1>9, <3>2, <3>3
  <2> QED BY <2>1, <2>2 DEF OutcomesOK
<1>14. \A v \in Workers, u \in Tests, a \in Attempts : Reported(v, u, a)' <=> Reported(v, u, a)
  BY <1>2 DEF Reported
<1>15. RecordsOK'
  <2>1. ASSUME NEW v \in Workers, NEW u \in Tests, NEW a \in Attempts, Reported(v, u, a)
        PROVE  a <= attempt(u)' /\ (a = attempt(u)' /\ Busy(u)' => running'[v] = u)
    <3>1. a <= attempt(u) /\ (a = attempt(u) /\ Busy(u) => running[v] = u) /\ a \in Nat
      BY <2>1 DEF TelemetryInv, RecordsOK, Attempts
    <3>2. CASE u = t
      <4>1. CASE attempt(t)' = k + 1
        <5>1. a <= k
          BY <1>1, <3>1, <3>2
        <5>2. a <= k + 1 /\ a # k + 1
          BY <1>2, <3>1, <5>1
        <5> QED BY <3>2, <4>1, <5>2
      <4>2. CASE attempt(t)' = k /\ ~Busy(t)'
        BY <1>1, <3>1, <3>2, <4>2
      <4> QED BY <1>9, <4>1, <4>2
    <3>3. CASE u # t
      <4>1. running[v] = u => running'[v] = u
        BY <1>1, <1>3, <3>3 DEF TelemetryInv, TelemetryTypeOK
      <4> QED BY <1>8, <3>1, <3>3, <4>1
    <3> QED BY <3>2, <3>3
  <2> QED BY <1>2, <1>14, <2>1 DEF TelemetryInv, RecordsOK
<1>16. CrashesOK'
  <2>1. NoCrash' <=> NoCrash
    BY <1>2, <1>4, <1>5, <1>7 DEF NoCrash, STATUSES
  <2>2. CASE NoCrash
    <3>1. ASSUME NEW u \in Tests, NEW a \in Attempts, outcome'[u][a] \in STATUSES
          PROVE  \E v \in Workers : /\ Reported(v, u, a)'
                                    /\ attempt_status(records'[v][u][a]) = outcome'[u][a]
      <4>1. CASE u = t /\ a = k
        BY <1>1, <1>2, <1>5, <1>6, <1>14, <4>1
      <4>2. CASE ~(u = t /\ a = k)
        <5>1. PICK v \in Workers : Reported(v, u, a) /\ attempt_status(records[v][u][a]) = outcome[u][a]
          BY <1>5, <2>2, <3>1, <4>2 DEF TelemetryInv, CrashesOK, Remembered
        <5> QED BY <1>2, <1>5, <1>14, <4>2, <5>1
      <4> QED BY <4>1, <4>2
    <3> QED BY <2>1, <2>2, <3>1 DEF CrashesOK, Remembered
  <2>3. CASE ~NoCrash
    <3>1. ASSUME NEW u \in Tests, NEW a \in Attempts, Gap(u, a) PROVE Gap(u, a)'
      <4>1. CASE u # t
        BY <1>8, <1>14, <3>1, <4>1 DEF Gap
      <4>2. CASE u = t
        <5>1. a < k /\ a \in Nat
          BY <1>1, <3>1, <4>2 DEF Gap, Attempts
        <5>2. a < attempt(t)' /\ (\E v \in Workers, b \in Attempts : b > a /\ Reported(v, t, b))
          BY <1>2, <1>6, <1>9, <5>1
        <5> QED BY <1>14, <3>1, <4>2, <5>2 DEF Gap
      <4> QED BY <4>1, <4>2
    <3> QED BY <1>10, <2>1, <2>3, <3>1 DEF TelemetryInv, CrashesOK
  <2> QED BY <2>2, <2>3
<1>17. EndOK'
  BY <1>2, StillOpen DEF TelemetryInv
<1> QED BY <1>11, <1>12, <1>13, <1>15, <1>16, <1>17 DEF TelemetryInv

LEMMA CrashKeeps ==
  ASSUME TelemetryInv, NEW w \in Workers, NEW v \in Workers, Crash(w, v)
  PROVE  TelemetryInv'
<1>1. PICK t, k : t = running[w] /\ k = attempt(t)
  OBVIOUS
<1>0. k = attempt(t)
  BY <1>1
<1>2. /\ worker[w] = "up" /\ worker[v] = "unused" /\ t \in Tests
      /\ k \in Attempts /\ k \in Nat /\ k = failures[t] + 1
      /\ UNCHANGED <<shards, report>>
      /\ worker' = [worker EXCEPT ![w] = "gone", ![v] = "up"]
      /\ running' = [running EXCEPT ![w] = NoTest]
      /\ records' = [records EXCEPT ![w] = NoRecords]
      /\ outcome' = [outcome EXCEPT ![t][k] = "crash"]
  <2>1. worker[w] = "up" /\ t # NoTest
    BY <1>1 DEF Crash
  <2>2. t \in Tests
    BY <1>1, <2>1 DEF TelemetryInv, TelemetryTypeOK
  <2>3. k \in Attempts /\ k \in Nat /\ k = failures[t] + 1
    BY <1>0, <2>2, AttemptFacts DEF TelemetryInv, Attempts
  <2> QED BY <1>1, <2>1, <2>2, <2>3 DEF Crash
<1>3. \/ /\ failures[t] < Reruns /\ failures' = [failures EXCEPT ![t] = @ + 1]
         /\ pending' = pending \cup {t} /\ pytest' = pytest
      \/ failures' = failures /\ pending' = pending /\ pytest' = "failed"
  BY <1>1 DEF Crash
<1>4. \A u \in Tests, a \in Attempts :
        outcome'[u][a] = IF u = t /\ a = k THEN "crash" ELSE outcome[u][a]
  BY <1>2 DEF TelemetryInv, TelemetryTypeOK
<1>5. /\ \A x \in Workers : worker'[x] = IF x = v THEN "up" ELSE IF x = w THEN "gone" ELSE worker[x]
      /\ \A x \in Workers : running'[x] = IF x = w THEN NoTest ELSE running[x]
      /\ \A x \in Workers : records'[x] = IF x = w THEN NoRecords ELSE records[x]
  BY <1>2 DEF TelemetryInv, TelemetryTypeOK
<1>6. /\ Busy(t) /\ t \notin pending /\ \A x \in Workers : running[x] = t => x = w
  <2>1. Busy(t)
    BY <1>1 DEF Busy
  <2> QED BY <1>1, <1>2, <2>1, TelemetryAssumption DEF TelemetryInv, AssignedOK
<1>7. NoTest \notin Tests
  BY TelemetryAssumption
<1>8. \A u \in Tests \ {t} : attempt(u)' = attempt(u) /\ (Busy(u)' <=> Busy(u))
  <2>1. \A u \in Tests \ {t} : failures'[u] = failures[u] /\ (u \in pending' <=> u \in pending)
    BY <1>3 DEF TelemetryInv, TelemetryTypeOK
  <2>2. \A u \in Tests \ {t}, x \in Workers : running'[x] = u <=> running[x] = u
    BY <1>1, <1>5, <1>7
  <2> QED BY <2>1, <2>2 DEF attempt, Busy
<1>9. \/ attempt(t)' = k + 1 /\ k + 1 \in Attempts /\ Busy(t)' /\ pytest' = pytest
      \/ attempt(t)' = k /\ ~Busy(t)' /\ pytest' = "failed"
  <2>1. CASE /\ failures[t] < Reruns /\ failures' = [failures EXCEPT ![t] = @ + 1]
             /\ pending' = pending \cup {t} /\ pytest' = pytest
    <3>1. attempt(t)' = k + 1 /\ k + 1 \in Attempts
      BY <1>2, <2>1, TelemetryAssumption DEF attempt, TelemetryInv, TelemetryTypeOK, Attempts
    <3>2. Busy(t)'
      BY <2>1 DEF Busy
    <3> QED BY <2>1, <3>1, <3>2
  <2>2. CASE failures' = failures /\ pending' = pending /\ pytest' = "failed"
    <3>1. attempt(t)' = k
      BY <1>0, <2>2 DEF attempt
    <3>2. ~Busy(t)'
      BY <1>2, <1>5, <1>6, <1>7, <2>2 DEF Busy
    <3> QED BY <2>2, <3>1, <3>2
  <2> QED BY <1>3, <2>1, <2>2
<1>10. pytest = "failed" => pytest' = "failed"
  BY <1>3
<1>11. TelemetryTypeOK'
  <2>1. failures' \in [Tests -> 0..Reruns]
    <3>1. failures \in [Tests -> 0..Reruns]
      BY DEF TelemetryInv, TelemetryTypeOK
    <3>2. failures[t] < Reruns => failures[t] + 1 \in 0..Reruns
      BY <1>2, <3>1, TelemetryAssumption
    <3> QED BY <1>3, <3>1, <3>2
  <2>2. outcome' \in [Tests -> [Attempts -> STATUSES \cup {"none", "crash"}]]
    BY <1>2 DEF TelemetryInv, TelemetryTypeOK
  <2>3. running' \in [Workers -> Tests \cup {NoTest}] /\ pytest' \in {"passed", "failed"}
    BY <1>2, <1>3 DEF TelemetryInv, TelemetryTypeOK
  <2>4. worker' \in [Workers -> {"unused", "up", "gone", "finished"}] /\ pending' \subseteq Tests
    BY <1>2, <1>3 DEF TelemetryInv, TelemetryTypeOK
  <2>5. records' \in [Workers -> [Tests -> [Attempts -> [PHASES -> STATUSES \cup {"none"}]]]]
    <3>1. NoRecords \in [Tests -> [Attempts -> [PHASES -> STATUSES \cup {"none"}]]]
      BY DEF NoRecords, Unreported
    <3> QED BY <1>2, <3>1 DEF TelemetryInv, TelemetryTypeOK
  <2> QED BY <1>2, <2>1, <2>2, <2>3, <2>4, <2>5 DEF TelemetryInv, TelemetryTypeOK
<1>12. AssignedOK'
  <2> SUFFICES ASSUME NEW x \in Workers, running'[x] # NoTest
               PROVE  /\ worker'[x] = "up" /\ running'[x] \notin pending'
                      /\ \A y \in Workers : running'[y] = running'[x] => y = x
    BY DEF AssignedOK
  <2>1. x # w /\ running'[x] = running[x]
    BY <1>5
  <2>2. /\ worker[x] = "up" /\ running[x] \notin pending
        /\ \A y \in Workers : running[y] = running[x] => y = x
    BY <2>1 DEF TelemetryInv, AssignedOK
  <2>3. worker'[x] = "up"
    BY <1>5, <2>1, <2>2
  <2>4. running'[x] \notin pending'
    BY <1>3, <1>6, <2>1, <2>2
  <2> QED BY <1>5, <2>1, <2>2, <2>3, <2>4
<1>13. OutcomesOK'
  <2>1. ASSUME NEW u \in Tests \ {t}
        PROVE  /\ \A a \in Attempts : a < attempt(u)' => outcome'[u][a] \in {"FAIL", "crash"}
               /\ \A a \in Attempts : a > attempt(u)' => outcome'[u][a] = "none"
               /\ Busy(u)' => outcome'[u][attempt(u)'] = "none"
               /\ ~Busy(u)' => outcome'[u][attempt(u)'] \in {"PASS", "SKIP"} \/ pytest' = "failed"
    <3>1. \A a \in Attempts : outcome'[u][a] = outcome[u][a]
      BY <1>4
    <3>2. attempt(u)' = attempt(u) /\ attempt(u) \in Attempts /\ (Busy(u)' <=> Busy(u))
      BY <1>8, AttemptFacts DEF TelemetryInv, Attempts
    <3> QED BY <1>10, <3>1, <3>2 DEF TelemetryInv, OutcomesOK
  <2>2. /\ \A a \in Attempts : a < attempt(t)' => outcome'[t][a] \in {"FAIL", "crash"}
        /\ \A a \in Attempts : a > attempt(t)' => outcome'[t][a] = "none"
        /\ Busy(t)' => outcome'[t][attempt(t)'] = "none"
        /\ ~Busy(t)' => outcome'[t][attempt(t)'] \in {"PASS", "SKIP"} \/ pytest' = "failed"
    <3>1. /\ \A a \in Attempts : a < k => outcome[t][a] \in {"FAIL", "crash"}
          /\ \A a \in Attempts : a > k => outcome[t][a] = "none"
      <4>1. /\ \A a \in Attempts : a < attempt(t) => outcome[t][a] \in {"FAIL", "crash"}
            /\ \A a \in Attempts : a > attempt(t) => outcome[t][a] = "none"
        BY <1>2 DEF TelemetryInv, OutcomesOK
      <4> QED BY <1>0, <4>1
    <3>2. k \in Nat /\ \A a \in Attempts : a \in Nat
      BY <1>2 DEF Attempts
    <3>3. CASE attempt(t)' = k + 1 /\ k + 1 \in Attempts /\ Busy(t)'
      <4>1. \A a \in Attempts : a < k + 1 => a = k \/ a < k
        BY <3>2
      <4>2. \A a \in Attempts : a < k + 1 => outcome'[t][a] \in {"FAIL", "crash"}
        BY <1>2, <1>4, <3>1, <3>3, <4>1
      <4>3. \A a \in Attempts : a >= k + 1 => outcome'[t][a] = "none"
        BY <1>2, <1>4, <3>1, <3>2
      <4> QED
        <5>1. \A a \in Attempts : a > k + 1 => a >= k + 1
          BY <3>2
        <5>2. k + 1 >= k + 1
          BY <3>2
        <5> QED BY <3>3, <4>2, <4>3, <5>1, <5>2
    <3>4. CASE attempt(t)' = k /\ ~Busy(t)' /\ pytest' = "failed"
      BY <1>2, <1>4, <3>1, <3>2, <3>4
    <3> QED BY <1>9, <3>3, <3>4
  <2> QED BY <2>1, <2>2 DEF OutcomesOK
<1>14. \A x \in Workers, u \in Tests, a \in Attempts : Reported(x, u, a)' <=> x # w /\ Reported(x, u, a)
  <2>1. \A u \in Tests, a \in Attempts : NoRecords[u][a] = Unreported
    BY DEF NoRecords
  <2> QED BY <1>5, <2>1 DEF Reported
<1>15. RecordsOK'
  <2>1. ASSUME NEW x \in Workers, NEW u \in Tests, NEW a \in Attempts, Reported(x, u, a), x # w
        PROVE  a <= attempt(u)' /\ (a = attempt(u)' /\ Busy(u)' => running'[x] = u)
    <3>1. a <= attempt(u) /\ (a = attempt(u) /\ Busy(u) => running[x] = u) /\ a \in Nat
      BY <2>1 DEF TelemetryInv, RecordsOK, Attempts
    <3>2. CASE u = t
      <4>1. CASE attempt(t)' = k + 1
        <5>1. a <= k
          BY <1>0, <3>1, <3>2
        <5>2. a <= k + 1 /\ a # k + 1
          BY <1>2, <3>1, <5>1
        <5> QED BY <3>2, <4>1, <5>2
      <4>2. CASE attempt(t)' = k /\ ~Busy(t)'
        BY <1>0, <3>1, <3>2, <4>2
      <4> QED BY <1>9, <4>1, <4>2
    <3>3. CASE u # t
      BY <1>5, <1>8, <2>1, <3>1, <3>3
    <3> QED BY <3>2, <3>3
  <2>2. ASSUME NEW x \in Workers, worker'[x] \in {"unused", "gone"} PROVE records'[x] = NoRecords
    BY <1>5, <2>2 DEF TelemetryInv, RecordsOK
  <2> QED BY <1>14, <2>1, <2>2 DEF RecordsOK
<1>16. CrashesOK'
  <2>1. ~NoCrash'
    BY <1>2, <1>4 DEF NoCrash
  <2>2. CASE attempt(t)' = k + 1 /\ Busy(t)'
    <3>1. \A x \in Workers : ~Reported(x, t, k)'
      <4> SUFFICES ASSUME NEW x \in Workers, x # w, Reported(x, t, k) PROVE FALSE
        BY <1>2, <1>14
      <4>1. k = attempt(t) /\ Busy(t) => running[x] = t
        BY <1>2 DEF TelemetryInv, RecordsOK
      <4> QED BY <1>0, <1>6, <4>1
    <3>2. k < attempt(t)'
      BY <1>2, <2>2
    <3>3. Gap(t, k)'
      BY <2>2, <3>1, <3>2 DEF Gap
    <3> QED BY <1>2, <2>1, <3>3 DEF CrashesOK
  <2>3. CASE pytest' = "failed"
    BY <2>1, <2>3 DEF CrashesOK
  <2> QED BY <1>9, <2>2, <2>3
<1>17. EndOK'
  BY <1>2, <1>5, StillOpen DEF TelemetryInv
<1> QED BY <1>11, <1>12, <1>13, <1>15, <1>16, <1>17 DEF TelemetryInv

LEMMA FinishKeeps ==
  ASSUME TelemetryInv, NEW w \in Workers, NEW written \in BOOLEAN, pytest_sessionfinish(w, written)
  PROVE  TelemetryInv'
<1>1. /\ worker[w] = "up" /\ pending = {} /\ \A v \in Workers : running[v] = NoTest
      /\ worker' = [worker EXCEPT ![w] = "finished"]
      /\ shards' \in {shards, shards \cup {w}}
      /\ UNCHANGED <<pending, running, failures, records, outcome, pytest, report>>
  BY DEF pytest_sessionfinish
<1>2. TelemetryTypeOK'
  BY <1>1 DEF TelemetryInv, TelemetryTypeOK
<1>3. AssignedOK'
  BY <1>1 DEF AssignedOK
<1>4. \A u \in Tests : attempt(u)' = attempt(u) /\ (Busy(u)' <=> Busy(u))
  BY <1>1 DEF attempt, Busy
<1>5. OutcomesOK'
  BY <1>1, <1>4 DEF TelemetryInv, OutcomesOK
<1>6. RecordsOK'
  <2>1. \A v \in Workers : worker'[v] \in {"unused", "gone"} => worker[v] = worker'[v]
    BY <1>1 DEF TelemetryInv, TelemetryTypeOK
  <2> QED BY <1>1, <1>4, <2>1 DEF TelemetryInv, RecordsOK, Reported
<1>7. CrashesOK'
  BY <1>1, <1>4 DEF TelemetryInv, CrashesOK, NoCrash, Remembered, Gap, Reported
<1>8. EndOK'
  BY <1>1, StillOpen DEF TelemetryInv
<1> QED BY <1>2, <1>3, <1>5, <1>6, <1>7, <1>8 DEF TelemetryInv

LEMMA FrozenKeeps ==
  ASSUME TelemetryInv, EndOK', report' \in {"none", "BLOCKED", "RETRY_OUTCOME_VARIATION", "FINAL_FAILURES", "CLEAN"},
         UNCHANGED <<pending, running, failures, worker, records, shards, outcome, pytest>>
  PROVE  TelemetryInv'
<1>1. TelemetryTypeOK'
  BY DEF TelemetryInv, TelemetryTypeOK
<1>2. AssignedOK'
  BY DEF TelemetryInv, AssignedOK
<1>3. \A u \in Tests : attempt(u)' = attempt(u) /\ (Busy(u)' <=> Busy(u))
  BY DEF attempt, Busy
<1>4. OutcomesOK'
  BY <1>3 DEF TelemetryInv, OutcomesOK
<1>5. RecordsOK'
  BY <1>3 DEF TelemetryInv, RecordsOK, Reported
<1>6. CrashesOK'
  BY <1>3 DEF TelemetryInv, CrashesOK, NoCrash, Remembered, Gap, Reported
<1> QED BY <1>1, <1>2, <1>4, <1>5, <1>6 DEF TelemetryInv

LEMMA SummaryStays ==
  ASSUME UNCHANGED <<records, shards>>
  PROVE  summary_status' = summary_status
BY DEF summary_status, consecutive, indexes, attempts_by_test, retry_outcome_variation,
       final_failure, status_of

LEMMA SummarizeKeeps ==
  ASSUME TelemetryInv, Summarize
  PROVE  TelemetryInv'
<1>1. /\ UNCHANGED <<pending, running, failures, worker, records, shards, outcome, pytest>>
      /\ report' = summary_status /\ \A w \in Workers : worker[w] # "up"
  BY DEF Summarize
<1>2. summary_status \in {"BLOCKED", "RETRY_OUTCOME_VARIATION", "FINAL_FAILURES", "CLEAN"}
  BY DEF summary_status
<1>3. EndOK'
  BY <1>1, SummaryStays DEF TelemetryInv, EndOK
<1> QED BY <1>1, <1>2, <1>3, FrozenKeeps

LEMMA TelemetryInvariant == TelemetrySpec => []TelemetryInv
<1>1. ASSUME TelemetryInv, UNCHANGED telemetryVars PROVE TelemetryInv'
  <2>1. UNCHANGED <<pending, running, failures, worker, records, shards, outcome, pytest, report>>
    BY <1>1 DEF telemetryVars
  <2>2. EndOK'
    BY <1>1, <2>1, SummaryStays DEF TelemetryInv, EndOK
  <2> QED BY <1>1, <2>1, <2>2, FrozenKeeps DEF TelemetryInv, TelemetryTypeOK
<1>2. TelemetryInv /\ [TelemetryNext]_telemetryVars => TelemetryInv'
  BY <1>1, BeginKeeps, MakereportKeeps, EndAttemptKeeps, CrashKeeps, FinishKeeps, SummarizeKeeps
  DEF TelemetryNext
<1> QED BY <1>2, TelemetryStarts, PTL DEF TelemetrySpec

(* Where every shard was written, what is remembered was summarized.       *)
LEMMA AllSummarized ==
  ASSUME TelemetryInv, AllWritten, report # "none",
         NEW w \in Workers, NEW t \in Tests, NEW a \in Attempts, Reported(w, t, a)
  PROVE  w \in shards /\ <<w, a>> \in attempts_by_test(t) /\ a \in indexes(t)
<1>1. records[w] # NoRecords
  BY DEF Reported, NoRecords
<1>2. worker[w] = "finished"
  BY <1>1 DEF TelemetryInv, RecordsOK, EndOK, TelemetryTypeOK
<1>3. w \in shards
  BY <1>1, <1>2 DEF AllWritten
<1>4. <<w, a>> \in attempts_by_test(t)
  BY <1>3 DEF attempts_by_test, Reported
<1> QED BY <1>3, <1>4 DEF indexes

LEMMA StatusIsRead ==
  ASSUME NEW w \in shards, NEW t \in Tests, NEW a \in Attempts, consecutive(t),
         <<w, a>> \in attempts_by_test(t)
  PROVE  status_of(t, a) = attempt_status(records[w][t][a])
<1> DEFINE x == CHOOSE v \in shards : <<v, a>> \in attempts_by_test(t)
<1>1. x \in shards /\ <<x, a>> \in attempts_by_test(t)
  OBVIOUS
<1>2. x = w
  BY <1>1 DEF consecutive
<1> HIDE DEF x
<1>3. status_of(t, a) = attempt_status(records[x][t][a])
  BY DEF status_of, x
<1> QED BY <1>2, <1>3

LEMMA TelemetryShows == TelemetryInv => GreenStepHidesNothing
<1> SUFFICES ASSUME TelemetryInv, green, AllWritten PROVE GreenStepHidesNothing
  BY DEF GreenStepHidesNothing, GreenHidesNoRetry, CrashIsNeverGreen
<1>1. /\ pytest = "passed" /\ report = "CLEAN" /\ summary_status = "CLEAN"
      /\ \A w \in Workers : worker[w] # "up"
  BY DEF green, TelemetryInv, EndOK
<1>2. /\ shards # {} /\ \A t \in Tests : consecutive(t) /\ ~retry_outcome_variation(t)
  BY <1>1 DEF summary_status
<1>3. \A t \in Tests : ~Busy(t)
  <2>1. pending = {}
    BY <1>1, <1>2 DEF TelemetryInv, EndOK
  <2>2. \A w \in Workers : running[w] = NoTest
    BY <1>1 DEF TelemetryInv, AssignedOK
  <2> QED BY <2>1, <2>2, TelemetryAssumption DEF Busy
<1>4. NoCrash
  <2> SUFFICES ASSUME ~NoCrash PROVE FALSE
    OBVIOUS
  <2>1. PICK t \in Tests, a \in Attempts : Gap(t, a)
    BY <1>1 DEF TelemetryInv, CrashesOK
  <2>2. PICK w \in Workers, b \in Attempts : b > a /\ Reported(w, t, b)
    BY <1>3, <2>1 DEF Gap
  <2>3. b \in indexes(t)
    BY <1>1, <2>2, AllSummarized
  <2>4. a \in indexes(t)
    BY <1>2, <2>2, <2>3 DEF consecutive, Attempts
  <2>5. PICK x \in attempts_by_test(t) : x[2] = a
    BY <2>4 DEF indexes
  <2>6. x[1] \in Workers /\ Reported(x[1], t, a)
    BY <2>5 DEF attempts_by_test, Reported, TelemetryInv, TelemetryTypeOK
  <2> QED BY <2>1, <2>6 DEF Gap
<1>5. ASSUME NEW t \in Tests, NEW a \in Attempts, outcome[t][a] = "FAIL"
      PROVE  \E b \in Attempts : b > a /\ outcome[t][b] = "SKIP"
  <2>1. PICK b : b = attempt(t)
    OBVIOUS
  <2>2. b \in Attempts /\ b \in Nat /\ a \in Nat /\ outcome[t][b] \in {"PASS", "SKIP"}
    <3>1. outcome[t][attempt(t)] \in {"PASS", "SKIP"}
      BY <1>1, <1>3 DEF TelemetryInv, OutcomesOK
    <3> QED BY <2>1, <3>1, AttemptFacts DEF TelemetryInv, Attempts
  <2>3. b > a
    <3>1. ~(a > b)
      BY <1>5, <2>1 DEF TelemetryInv, OutcomesOK
    <3>2. a # b
      BY <1>5, <2>2
    <3> QED BY <2>2, <3>1, <3>2
  <2>4. ASSUME NEW c \in Attempts, outcome[t][c] \in STATUSES
        PROVE  c \in indexes(t) /\ status_of(t, c) = outcome[t][c]
    <3>1. PICK w \in Workers : Reported(w, t, c) /\ attempt_status(records[w][t][c]) = outcome[t][c]
      BY <1>4, <2>4 DEF TelemetryInv, CrashesOK, Remembered
    <3>2. w \in shards /\ <<w, c>> \in attempts_by_test(t) /\ c \in indexes(t)
      BY <1>1, <3>1, AllSummarized
    <3> QED BY <1>2, <3>1, <3>2, StatusIsRead
  <2>5. outcome[t][b] # "PASS"
    <3> SUFFICES ASSUME outcome[t][b] = "PASS" PROVE FALSE
      OBVIOUS
    <3>1. retry_outcome_variation(t)
      BY <1>5, <2>2, <2>4 DEF retry_outcome_variation, STATUSES
    <3> QED BY <1>2, <3>1
  <2> QED BY <2>2, <2>3, <2>5
<1> QED BY <1>4, <1>5 DEF GreenStepHidesNothing, GreenHidesNoRetry, CrashIsNeverGreen, NoCrash

-----------------------------------------------------------------------------
(* The audit: what it was told stays true of the runs' identities, and the *)
(* artifact that a PASS rests on stays where it is.                        *)
AnyRuns == [domain : Domains, sha : Nat, event : Events, attempt : Nat, concluded : Conclusions]

ListingOK ==
  /\ day \in Nat /\ main \in Nat
  /\ runs \in Seq(AnyRuns) /\ listed_runs \in Seq(AnyRuns)
  /\ Len(listed_runs) <= Len(runs)
  /\ \A i \in DOMAIN listed_runs : /\ listed_runs[i].domain = runs[i].domain
                                   /\ listed_runs[i].sha = runs[i].sha
  /\ listed_artifacts \subseteq artifacts
  /\ \A a \in artifacts : a.expires \in Nat

Kept(d, a) ==
  /\ a.run \in DOMAIN listed_runs
  /\ _eligible_run(a.run, d)
  /\ listed_runs[a.run].concluded = "success" /\ a.attempt >= listed_runs[a.run].attempt
  /\ \A j \in (a.run + 1)..Len(listed_runs) : ~_eligible_run(j, d)
  /\ a.expires > audit_day + MinRetention

AuditInv ==
  /\ ListingOK /\ audit_day \in Nat
  /\ audit = "PASS" => listing = "all"
  /\ audit = "PASS" => \A d \in Domains : \E a \in artifacts : Kept(d, a)

LEMMA AuditKeeps ==
  ASSUME AuditInv
  PROVE  ReadyIsRetained
<1>1. ReadyHasOwnEvidence
  BY DEF AuditInv, Kept, ReadyHasOwnEvidence
<1>2. ASSUME audit = "PASS", day <= audit_day + MinRetention, NEW d \in Domains
      PROVE  \E a \in artifacts : runs[a.run].domain = d /\ runs[a.run].sha = main_sha /\ a.expires > day
  <2>1. PICK a \in artifacts : Kept(d, a)
    BY <1>2 DEF AuditInv
  <2>2. runs[a.run].domain = d /\ runs[a.run].sha = main_sha
    BY <2>1 DEF Kept, AuditInv, ListingOK, _eligible_run
  <2>3. a.expires > day
    <3>1. a.expires \in Nat /\ audit_day \in Nat /\ day \in Nat /\ MinRetention \in Nat
      BY RetentionAssumption DEF AuditInv, ListingOK
    <3> QED BY <1>2, <2>1, <3>1 DEF Kept
  <2> QED BY <2>2, <2>3
<1> QED BY <1>1, <1>2 DEF ReadyIsRetained, ReadyOutlivesWindow

(* Runs come at the end, keep their domain and commit, and artifacts stay. *)
LEMMA RunsGrow ==
  ASSUME ListingOK, listed_runs' = listed_runs, listed_artifacts' = listed_artifacts,
         day' \in Nat, main' \in Nat, runs' \in Seq(AnyRuns), Len(runs) <= Len(runs'),
         \A i \in DOMAIN runs : runs'[i].domain = runs[i].domain /\ runs'[i].sha = runs[i].sha,
         artifacts \subseteq artifacts', \A a \in artifacts' : a.expires \in Nat
  PROVE  ListingOK'
<1>1. \A i \in DOMAIN listed_runs : i \in DOMAIN runs
  BY DEF ListingOK
<1>2. Len(listed_runs) <= Len(runs')
  BY DEF ListingOK
<1> QED BY <1>1, <1>2 DEF ListingOK

(* What is not the audit's doing leaves its report alone. *)
LEMMA OutsideAudit ==
  ASSUME AuditInv, UNCHANGED auditorVars, day' \in Nat, main' \in Nat,
         runs' \in Seq(AnyRuns), Len(runs) <= Len(runs'),
         \A i \in DOMAIN runs : runs'[i].domain = runs[i].domain /\ runs'[i].sha = runs[i].sha,
         artifacts \subseteq artifacts', \A a \in artifacts' : a.expires \in Nat
  PROVE  AuditInv'
<1>1. /\ listing' = listing /\ main_sha' = main_sha /\ listed_runs' = listed_runs
      /\ listed_artifacts' = listed_artifacts /\ audit' = audit /\ audit_day' = audit_day
  BY DEF auditorVars
<1>2. ListingOK'
  BY <1>1, RunsGrow DEF AuditInv
<1>3. audit_day' \in Nat /\ (audit' = "PASS" => listing' = "all")
  BY <1>1 DEF AuditInv
<1>4. ASSUME audit' = "PASS", NEW d \in Domains PROVE \E a \in artifacts' : Kept(d, a)'
  <2>1. PICK a \in artifacts : Kept(d, a)
    BY <1>1, <1>4 DEF AuditInv
  <2>2. Kept(d, a)'
    BY <1>1, <2>1 DEF Kept, _eligible_run
  <2> QED BY <2>2
<1> QED BY <1>2, <1>3, <1>4 DEF AuditInv

LEMMA GitHubSteps ==
  ASSUME AuditInv
  PROVE  /\ NextDay \/ PushMain => AuditInv'
         /\ \A d \in Domains, event \in Events : StartRun(d, event) => AuditInv'
         /\ \A i \in DOMAIN runs :
              /\ StartAttempt(i) => AuditInv'
              /\ UploadArtifact(i) => AuditInv'
              /\ \A c \in {"success", "failure"} : Conclude(i, c) => AuditInv'
<1>1. /\ day \in Nat /\ main \in Nat /\ runs \in Seq(AnyRuns)
      /\ \A a \in artifacts : a.expires \in Nat
      /\ Retention \in Nat
  BY RetentionAssumption DEF AuditInv, ListingOK
<1>2. ASSUME NextDay \/ PushMain PROVE AuditInv'
  <2>1. UNCHANGED <<runs, artifacts, auditorVars>> /\ day' \in Nat /\ main' \in Nat
    BY <1>1, <1>2 DEF NextDay, PushMain
  <2> QED BY <1>1, <2>1, OutsideAudit
<1>3. ASSUME NEW d \in Domains, NEW event \in Events, StartRun(d, event) PROVE AuditInv'
  <2>1. PICK run \in AnyRuns : runs' = Append(runs, run)
    <3>1. [domain |-> d, sha |-> main, event |-> event, attempt |-> 1, concluded |-> "running"] \in AnyRuns
      BY <1>1 DEF AnyRuns, Conclusions
    <3> QED BY <1>3, <3>1 DEF StartRun
  <2>2. /\ runs' \in Seq(AnyRuns) /\ Len(runs) <= Len(runs')
        /\ \A i \in DOMAIN runs : runs'[i] = runs[i]
    BY <1>1, <2>1
  <2>3. UNCHANGED <<day, main, artifacts, auditorVars>>
    BY <1>3 DEF StartRun
  <2> QED BY <1>1, <2>2, <2>3, OutsideAudit
<1>4. ASSUME NEW i \in DOMAIN runs, NEW run \in AnyRuns,
             run.domain = runs[i].domain, run.sha = runs[i].sha, runs' = [runs EXCEPT ![i] = run],
             UNCHANGED <<day, main, artifacts, auditorVars>>
      PROVE  AuditInv'
  <2>1. /\ runs' \in Seq(AnyRuns) /\ Len(runs) = Len(runs')
        /\ \A j \in DOMAIN runs : runs'[j] = IF j = i THEN run ELSE runs[j]
    BY <1>1, <1>4
  <2>2. Len(runs) <= Len(runs')
    BY <1>1, <2>1
  <2>3. \A j \in DOMAIN runs : runs'[j].domain = runs[j].domain /\ runs'[j].sha = runs[j].sha
    BY <1>4, <2>1
  <2> QED BY <1>1, <1>4, <2>1, <2>2, <2>3, OutsideAudit
<1>5. \A i \in DOMAIN runs : runs[i] \in AnyRuns
  BY <1>1
<1>6. ASSUME NEW i \in DOMAIN runs, StartAttempt(i) PROVE AuditInv'
  <2>1. PICK old, n : old = runs[i] /\ n = runs[i].attempt + 1
    OBVIOUS
  <2>2. old \in AnyRuns /\ n \in Nat
    BY <1>5, <2>1 DEF AnyRuns
  <2>3. PICK run : run = [old EXCEPT !.attempt = n, !.concluded = "running"]
    OBVIOUS
  <2>4. run \in AnyRuns /\ run.domain = runs[i].domain /\ run.sha = runs[i].sha
    BY <2>1, <2>2, <2>3 DEF AnyRuns, Conclusions
  <2>5. runs' = [runs EXCEPT ![i] = run]
    BY <1>6, <2>1, <2>3 DEF StartAttempt
  <2> QED BY <1>4, <1>6, <2>4, <2>5 DEF StartAttempt
<1>7. ASSUME NEW i \in DOMAIN runs, NEW c \in {"success", "failure"}, Conclude(i, c) PROVE AuditInv'
  <2>1. PICK run : run = [runs[i] EXCEPT !.concluded = c]
    OBVIOUS
  <2>2. run \in AnyRuns /\ run.domain = runs[i].domain /\ run.sha = runs[i].sha
    BY <1>5, <2>1 DEF AnyRuns, Conclusions
  <2>3. runs' = [runs EXCEPT ![i] = run]
    BY <1>7, <2>1 DEF Conclude
  <2> QED BY <1>4, <1>7, <2>2, <2>3 DEF Conclude
<1>8. ASSUME NEW i \in DOMAIN runs, UploadArtifact(i) PROVE AuditInv'
  <2>1. /\ artifacts' = artifacts \cup {[run |-> i, attempt |-> runs[i].attempt, expires |-> day + Retention]}
        /\ UNCHANGED <<day, main, runs, auditorVars>>
    BY <1>8 DEF UploadArtifact
  <2>2. artifacts \subseteq artifacts' /\ \A a \in artifacts' : a.expires \in Nat
    BY <1>1, <2>1
  <2>3. Len(runs) <= Len(runs') /\ runs' = runs
    BY <1>1, <2>1
  <2> QED BY <1>1, <2>1, <2>2, <2>3, OutsideAudit
<1> QED BY <1>2, <1>3, <1>6, <1>7, <1>8

LEMMA AuditReports ==
  ASSUME AuditInv, Audit
  PROVE  AuditInv'
<1>1. /\ UNCHANGED <<day, main, runs, artifacts, main_sha, listed_runs>>
      /\ listed_artifacts' = {} /\ listing' = "all" /\ audit_day' = day
      /\ audit' = "PASS" => \A d \in Domains : domain_passes(d)
  BY DEF Audit
<1>2. ListingOK' /\ day \in Nat /\ listed_artifacts \subseteq artifacts
  BY <1>1 DEF AuditInv, ListingOK
<1>3. ASSUME NEW d \in Domains, domain_passes(d) PROVE \E a \in artifacts' : Kept(d, a)'
  <2>1. PICK i \in DOMAIN listed_runs, a \in listed_artifacts :
          /\ _eligible_run(i, d)
          /\ \A j \in DOMAIN listed_runs : _eligible_run(j, d) => j <= i
          /\ listed_runs[i].concluded = "success"
          /\ a.run = i /\ a.attempt >= listed_runs[i].attempt /\ a.expires > day + MinRetention
    BY <1>3 DEF domain_passes, artifact_of, artifact_kept
  <2>2. ASSUME NEW j \in (i + 1)..Len(listed_runs)
        PROVE  ~_eligible_run(j, d)
    <3>1. i \in Nat /\ j \in DOMAIN listed_runs /\ ~(j <= i)
      BY DEF AuditInv, ListingOK
    <3> QED BY <2>1, <3>1
  <2>3. Kept(d, a)'
    BY <1>1, <2>1, <2>2 DEF Kept, _eligible_run
  <2> QED BY <1>1, <1>2, <2>3
<1> QED BY <1>1, <1>2, <1>3 DEF AuditInv

LEMMA Listings ==
  ASSUME AuditInv, ListMain \/ ListRuns \/ ListArtifacts \/ ListingFails
  PROVE  AuditInv'
<1>1. /\ UNCHANGED <<day, main, runs, artifacts, audit, audit_day>> /\ listing # "all"
      /\ listed_runs' \in {listed_runs, runs, <<>>} /\ listed_artifacts' \in {listed_artifacts, artifacts}
  BY DEF ListMain, ListRuns, ListArtifacts, ListingFails
<1>2. audit' # "PASS" /\ audit_day' \in Nat
  BY <1>1 DEF AuditInv
<1>3. ListingOK'
  <2>1. Len(runs) \in Nat /\ Len(runs) <= Len(runs) /\ Len(<<>>) <= Len(runs)
        /\ <<>> \in Seq(AnyRuns) /\ DOMAIN <<>> = {}
    BY DEF AuditInv, ListingOK
  <2>2. CASE listed_runs' = listed_runs
    BY <1>1, <2>2 DEF AuditInv, ListingOK
  <2>3. CASE listed_runs' = runs
    BY <1>1, <2>1, <2>3 DEF AuditInv, ListingOK
  <2>4. CASE listed_runs' = <<>>
    BY <1>1, <2>1, <2>4 DEF AuditInv, ListingOK
  <2> QED BY <1>1, <2>2, <2>3, <2>4
<1> QED BY <1>2, <1>3 DEF AuditInv

LEMMA AuditInvariant == AuditSpec => []AuditInv
<1>1. AuditInit => AuditInv
  BY RetentionAssumption DEF AuditInit, AuditInv, ListingOK
<1>2. ASSUME AuditInv, [AuditNext]_auditVars PROVE AuditInv'
  <2>1. CASE UNCHANGED auditVars
    BY <1>2, <2>1 DEF auditVars, AuditInv, ListingOK, Kept, _eligible_run
  <2> QED BY <1>2, <2>1, GitHubSteps, Listings, AuditReports DEF AuditNext
<1> QED BY <1>1, <1>2, PTL DEF AuditSpec

-----------------------------------------------------------------------------
(* The stability report: once it is written nothing it was built from      *)
(* changes.                                                                *)
StabilityInv ==
  /\ ci_runs \in Seq(CiRuns)
  /\ downloaded \subseteq DOMAIN ci_runs /\ selected \subseteq DOMAIN ci_runs
  /\ stability # "none" => selected # {}
  /\ VariationIsReal

LEMMA ReportStays ==
  ASSUME VariationIsReal, UNCHANGED <<ci_runs, downloaded, stability>>
  PROVE  VariationIsReal'
BY DEF VariationIsReal, QuietMeansComplete, SameCommitIsIntermittent

LEMMA NoReportYet ==
  ASSUME stability' = "none"
  PROVE  VariationIsReal'
BY DEF VariationIsReal, QuietMeansComplete, SameCommitIsIntermittent

LEMMA HistoryIsRead ==
  ASSUME StabilityInv, build_history
  PROVE  VariationIsReal'
<1>1. /\ UNCHANGED <<ci_runs, downloaded>>
      /\ stability' = "NO_VARIATION_OBSERVED" =>
           ~cross_commit_variation /\ artifact_gaps = {} /\ cohorts_sufficient
      /\ stability' = "SAME_COMMIT_OUTCOME_VARIATION" => same_commit_variation
  BY DEF build_history
<1>2. ASSUME stability' = "NO_VARIATION_OBSERVED", NEW v \in Versions
      PROVE  LET outcomes == {ci_runs[i].junit[v] : i \in downloaded}
             IN /\ Cardinality(downloaded) >= MinRuns
                /\ "unreadable" \notin outcomes /\ ~varies(outcomes)
  <2>1. ~cross_commit_variation /\ artifact_gaps = {} /\ cohorts_sufficient
    BY <1>1, <1>2
  <2>2. observations = downloaded \X Versions
    BY <2>1 DEF observations
  <2>3. \A i \in downloaded : ci_runs[i].junit[v] # "unreadable"
    <3>1. \A i \in downloaded : <<i, v>> \notin artifact_gaps
      BY <2>1
    <3> QED BY <3>1 DEF artifact_gaps
  <2>4. statuses_of(v, downloaded) = {ci_runs[i].junit[v] : i \in downloaded}
    <3> DEFINE read == {y \in observations : y[2] = v /\ y[1] \in downloaded}
               outcomes == {ci_runs[i].junit[v] : i \in downloaded}
    <3>1. \A i \in downloaded : <<i, v>> \in read
      BY <2>2
    <3>2. \A x \in read : x[1] \in downloaded /\ x[2] = v
      OBVIOUS
    <3>3. statuses_of(v, downloaded) = {ci_runs[x[1]].junit[x[2]] : x \in read}
      BY DEF statuses_of
    <3> HIDE DEF read
    <3>4. statuses_of(v, downloaded) \subseteq outcomes
      BY <3>2, <3>3
    <3>5. ASSUME NEW i \in downloaded PROVE ci_runs[i].junit[v] \in statuses_of(v, downloaded)
      <4>1. PICK x \in read : x = <<i, v>>
        BY <3>1
      <4>2. ci_runs[x[1]].junit[x[2]] \in statuses_of(v, downloaded)
        BY <3>3
      <4> QED BY <4>1, <4>2
    <3> QED BY <3>4, <3>5
  <2>5. Cardinality(downloaded) >= MinRuns
    <3>1. PICK u \in Versions : Cardinality(runs_of(u)) >= MinRuns
      BY <2>1 DEF cohorts_sufficient
    <3>2. runs_of(u) \subseteq downloaded
      BY <2>2 DEF runs_of
    <3>3. IsFiniteSet(downloaded)
      <4>1. DOMAIN ci_runs = 1..Len(ci_runs) /\ Len(ci_runs) \in Nat
        BY DEF StabilityInv
      <4>2. IsFiniteSet(DOMAIN ci_runs)
        BY <4>1, FS_Interval
      <4> QED BY <4>2, FS_Subset DEF StabilityInv
    <3>4. /\ Cardinality(runs_of(u)) \in Nat /\ Cardinality(downloaded) \in Nat
          /\ Cardinality(runs_of(u)) <= Cardinality(downloaded)
      BY <3>2, <3>3, FS_Subset, FS_CardinalityType
    <3> QED BY <3>1, <3>4, StabilityAssumption
  <2>6. ~varies(statuses_of(v, downloaded))
    BY <2>1 DEF cross_commit_variation
  <2> QED BY <2>3, <2>4, <2>5, <2>6
<1>3. ASSUME stability' = "SAME_COMMIT_OUTCOME_VARIATION"
      PROVE  \E v \in Versions, i, j \in downloaded :
               /\ ci_runs[i].sha = ci_runs[j].sha
               /\ ci_runs[i].junit[v] = "PASS" /\ ci_runs[j].junit[v] \in {"FAIL", "ERROR"}
  <2>1. PICK v \in Versions, sha \in TestedShas : varies(statuses_of(v, runs_at(sha)))
    BY <1>1, <1>3 DEF same_commit_variation
  <2>2. \A s \in statuses_of(v, runs_at(sha)) :
          \E i \in runs_at(sha) : ci_runs[i].junit[v] = s
    BY DEF statuses_of
  <2>3. PICK i, j \in runs_at(sha) :
          ci_runs[i].junit[v] = "PASS" /\ ci_runs[j].junit[v] \in {"FAIL", "ERROR"}
    BY <2>1, <2>2 DEF varies
  <2> QED BY <2>3 DEF runs_at
<1> QED BY <1>1, <1>2, <1>3 DEF VariationIsReal, QuietMeansComplete, SameCommitIsIntermittent

LEMMA StabilityInvariant == StabilitySpec => []StabilityInv
<1>1. StabilityInit => StabilityInv
  BY DEF StabilityInit, StabilityInv, VariationIsReal, QuietMeansComplete, SameCommitIsIntermittent
<1>2. ASSUME StabilityInv, [StabilityNext]_stabilityVars PROVE StabilityInv'
  <2>1. CASE UNCHANGED stabilityVars
    BY <1>2, <2>1, ReportStays DEF stabilityVars, StabilityInv
  <2>2. ASSUME NEW run \in CiRuns, CiRunEnds(run) PROVE StabilityInv'
    <3>1. stability = "none" /\ stability' = stability
      BY <1>2, <2>2 DEF CiRunEnds, StabilityInv
    <3>2. ci_runs' \in Seq(CiRuns) /\ DOMAIN ci_runs \subseteq DOMAIN ci_runs'
      BY <1>2, <2>2 DEF CiRunEnds, StabilityInv
    <3> QED BY <1>2, <2>2, <3>1, <3>2, NoReportYet DEF CiRunEnds, StabilityInv
  <2>3. ASSUME NEW x \in RunIds \X Versions, ArtifactExpires(x) PROVE StabilityInv'
    BY <1>2, <2>3, ReportStays DEF ArtifactExpires, StabilityInv
  <2>4. CASE ListCiRuns
    BY <1>2, <2>4, NoReportYet DEF ListCiRuns, StabilityInv
  <2>5. ASSUME NEW i \in RunIds, Download(i) PROVE StabilityInv'
    BY <1>2, <2>5, NoReportYet DEF Download, StabilityInv
  <2>6. CASE build_history
    BY <1>2, <2>6, HistoryIsRead DEF build_history, StabilityInv
  <2> QED BY <1>2, <2>1, <2>2, <2>3, <2>4, <2>5, <2>6 DEF StabilityNext
<1> QED BY <1>1, <1>2, PTL DEF StabilitySpec

-----------------------------------------------------------------------------
(* The policies: types, and from them what a decision says of any day.     *)
USE PolicyAssumption DEF Days, NoEntry

LEMMA PolicyInvariant == PolicySpec => []PolicyTypeOK
<1>1. PolicyInit => PolicyTypeOK
  <2> SUFFICES ASSUME PolicyInit PROVE PolicyTypeOK
    OBVIOUS
  <2>1. /\ today \in Days /\ image_exception \in Days \cup {NoEntry}
        /\ exceptions \in [Vulnerabilities -> Days \cup {NoEntry}]
        /\ quarantines \in [SuiteTests -> Days \cup {NoEntry}]
    BY DEF PolicyInit
  <2>2. image_finding \in BOOLEAN
    BY DEF PolicyInit
  <2>3. /\ known \subseteq Vulnerabilities /\ scan \in {"report", "skipped", "none"}
        /\ junit \in [SuiteTests -> JUnitOutcomes4]
    BY DEF PolicyInit, JUnitOutcomes4
  <2> QED BY <2>1, <2>2, <2>3, Zenon DEF PolicyTypeOK
<1>2. PolicyTypeOK /\ [PolicyNext]_policyVars => PolicyTypeOK'
  <2> SUFFICES ASSUME PolicyTypeOK, [PolicyNext]_policyVars PROVE PolicyTypeOK'
    OBVIOUS
  <2>1. CASE Tomorrow
    BY <2>1 DEF PolicyTypeOK, Tomorrow
  <2>2. ASSUME NEW expires \in Days \cup {NoEntry}, EditPolicy(expires) PROVE PolicyTypeOK'
    BY <2>2 DEF PolicyTypeOK, EditPolicy
  <2>3. ASSUME NEW found \in SUBSET Vulnerabilities, NEW wrote \in {"report", "skipped", "none"},
               ScanDependencies(found, wrote)
        PROVE  PolicyTypeOK'
    BY <2>3 DEF PolicyTypeOK, ScanDependencies
  <2>4. ASSUME NEW found \in BOOLEAN, FindInImage(found) PROVE PolicyTypeOK'
    BY <2>4 DEF PolicyTypeOK, FindInImage
  <2>5. ASSUME NEW t \in SuiteTests, NEW o \in JUnitOutcomes4, RunTests(t, o) PROVE PolicyTypeOK'
    BY <2>5 DEF PolicyTypeOK, RunTests
  <2>6. CASE UNCHANGED policyVars
    BY <2>6 DEF PolicyTypeOK, policyVars
  <2> QED BY <2>1, <2>2, <2>3, <2>4, <2>5, <2>6 DEF PolicyNext
<1> QED BY <1>1, <1>2, PTL DEF PolicySpec

LEMMA WaitingIsNoReview == PolicyTypeOK => WaitingNeverGreens
<1> SUFFICES ASSUME PolicyTypeOK, NEW later \in today..LastDate, NEW i \in 1..3,
                    Decisions(later)[i] = "PASS"
             PROVE  Decisions(today)[i] = "PASS"
  BY DEF WaitingNeverGreens
<1>1. /\ today \in Nat /\ later \in Nat /\ today <= later /\ later <= LastDate /\ LastDate \in Nat
      /\ \A v \in Vulnerabilities : exceptions[v] \in Nat
      /\ \A t \in SuiteTests : quarantines[t] \in Nat
      /\ image_exception \in Nat
  BY DEF PolicyTypeOK
<1>2. evaluate_dependencies(later) = "PASS" => evaluate_dependencies(today) = "PASS"
  <2> SUFFICES ASSUME evaluate_dependencies(later) = "PASS" PROVE evaluate_dependencies(today) = "PASS"
    OBVIOUS
  <2>1. scan = "report" /\ expired_exceptions(later) = {} /\ \A v \in known : excepted(v, later)
    BY DEF evaluate_dependencies
  <2>2. expired_exceptions(today) = {}
    BY <1>1, <2>1 DEF expired_exceptions
  <2>3. \A v \in known : excepted(v, today)
    <3> SUFFICES ASSUME NEW v \in known PROVE excepted(v, today)
      OBVIOUS
    <3>1. PICK x \in {v} \cup Aliases[v] : exceptions[x] # NoEntry /\ exceptions[x] >= later
      BY <2>1 DEF excepted
    <3>2. x \in Vulnerabilities
      BY DEF PolicyTypeOK
    <3> QED BY <1>1, <3>1, <3>2 DEF excepted
  <2> QED BY <2>1, <2>2, <2>3 DEF evaluate_dependencies
<1>3. evaluate_image(later) = "PASS" => evaluate_image(today) = "PASS"
  BY <1>1 DEF evaluate_image
<1>4. summarize_junit(later) = "PASS" => summarize_junit(today) = "PASS"
  BY <1>1 DEF summarize_junit
<1>5. CASE i = 1
  BY <1>2, <1>5 DEF Decisions
<1>6. CASE i = 2
  BY <1>3, <1>6 DEF Decisions
<1>7. CASE i = 3
  BY <1>4, <1>7 DEF Decisions
<1> QED BY <1>5, <1>6, <1>7

LEMMA GreenReviewed == PolicyTypeOK => GreenIsReviewed
<1> SUFFICES ASSUME PolicyTypeOK, \A i \in 1..3 : Decisions(today)[i] = "PASS"
             PROVE  /\ scan = "report" /\ \A t \in SuiteTests : junit[t] # "FAIL"
                    /\ \A v \in Vulnerabilities : exceptions[v] >= today
                    /\ image_exception > today /\ \A t \in SuiteTests : quarantines[t] > today
                    /\ \A v \in known : \E x \in {v} \cup Aliases[v] : exceptions[x] \in today..LastDate
                    /\ image_finding => image_exception \in today..LastDate
  BY DEF GreenIsReviewed
<1>1. /\ today \in Nat /\ LastDate \in Nat
      /\ \A v \in Vulnerabilities : exceptions[v] \in Nat /\ exceptions[v] <= LastDate + 1
      /\ \A t \in SuiteTests : quarantines[t] \in Nat
      /\ image_exception \in Nat /\ image_exception <= LastDate + 1
  BY DEF PolicyTypeOK
<1>2. evaluate_dependencies(today) = "PASS" /\ evaluate_image(today) = "PASS" /\ summarize_junit(today) = "PASS"
  BY DEF Decisions
<1>3. scan = "report" /\ expired_exceptions(today) = {} /\ \A v \in known : excepted(v, today)
  BY <1>2 DEF evaluate_dependencies
<1>4. \A v \in Vulnerabilities : exceptions[v] >= today
  BY <1>1, <1>3 DEF expired_exceptions
<1>5. image_exception > today /\ (image_finding => image_exception \in today..LastDate)
  BY <1>1, <1>2 DEF evaluate_image
<1>6. \A t \in SuiteTests : junit[t] # "FAIL" /\ quarantines[t] > today
  BY <1>1, <1>2 DEF summarize_junit
<1>7. \A v \in known : \E x \in {v} \cup Aliases[v] : exceptions[x] \in today..LastDate
  <2> SUFFICES ASSUME NEW v \in known PROVE \E x \in {v} \cup Aliases[v] : exceptions[x] \in today..LastDate
    OBVIOUS
  <2>1. PICK x \in {v} \cup Aliases[v] : exceptions[x] # NoEntry /\ exceptions[x] >= today
    BY <1>3 DEF excepted
  <2>2. x \in Vulnerabilities
    BY DEF PolicyTypeOK
  <2> QED BY <1>1, <2>1, <2>2
<1> QED BY <1>3, <1>4, <1>5, <1>6, <1>7

-----------------------------------------------------------------------------
(* The types of the container chain, the stability report and the audit.   *)
LEMMA ChainTypes == ChainSpec => []ChainTypeOK
<1> USE ChainAssumption DEF Shas
<1>1. ASSUME NEW s \in PolicyStatuses PROVE Undecided(s) \in PolicyResults
  BY DEF Undecided, PolicyResults
<1>2. NoSummary \in Summaries /\ Undecided("none") \in PolicyResults /\ Undecided("BLOCKED") \in PolicyResults
  BY <1>1 DEF NoSummary, Summaries, PolicyStatuses
<1>3. ASSUME NEW s \in {"none", "UNVERIFIED"}
      PROVE  Unsealed(s) \in [status : {"none", "UNVERIFIED", "PASS"}, raw : Shas, summary : Summaries,
                                   policy : PolicyResults, sbom : Shas, validation : Shas]
  BY <1>2 DEF Unsealed
<1>4. ChainInit => ChainTypeOK
  BY <1>2, <1>3 DEF ChainInit, ChainTypeOK
<1>5. ASSUME ChainTypeOK, [ChainNext]_chainVars PROVE ChainTypeOK'
  <2>1. ASSUME NEW image \in Images, NEW ok \in BOOLEAN, ScanImage(image, ok) PROVE ChainTypeOK'
    BY <1>5, <2>1 DEF ChainTypeOK, ScanImage
  <2>2. ASSUME NEW image \in Images, NEW ok \in BOOLEAN, summarize_file(image, ok) PROVE ChainTypeOK'
    <3>1. trivy_summary' \in Summaries
      BY <1>2, <1>5, <2>2 DEF ChainTypeOK, summarize_file, Summaries
    <3> QED BY <1>5, <2>2, <3>1 DEF ChainTypeOK, summarize_file
  <2>3. ASSUME NEW image \in Images, NEW ok \in BOOLEAN, build_manifest(image, ok) PROVE ChainTypeOK'
    <3>1. security_manifest' \in [status : {"none", "UNVERIFIED", "PASS"}, raw : Shas, summary : Summaries,
                                  policy : PolicyResults, sbom : Shas, validation : Shas]
      BY <1>3, <1>5, <2>3 DEF ChainTypeOK, build_manifest
    <3> QED BY <1>5, <2>3, <3>1 DEF ChainTypeOK, build_manifest
  <2>4. ASSUME NEW ok \in BOOLEAN, GenerateSbom(ok) \/ validate_file(ok) PROVE ChainTypeOK'
    BY <1>5, <2>4 DEF ChainTypeOK, GenerateSbom, validate_file
  <2>5. ASSUME NEW report_only \in BOOLEAN, NEW usable \in BOOLEAN, NEW blocking \in BOOLEAN, NEW written \in BOOLEAN,
               evaluate_container_policy(report_only, usable, blocking, written)
        PROVE  ChainTypeOK'
    <3>1. [status |-> IF report_only THEN "REPORT_ONLY" ELSE IF blocking THEN "FAIL" ELSE "PASS",
           source |-> trivy_summary.source, image |-> trivy_summary.image, eligible |-> ~report_only] \in PolicyResults
      BY <1>5 DEF ChainTypeOK, PolicyResults, PolicyStatuses, Summaries
    <3>2. policy_result' \in PolicyResults
      BY <1>2, <1>5, <2>5, <3>1 DEF evaluate_container_policy, ChainTypeOK
    <3> QED BY <1>5, <2>5, <3>2 DEF ChainTypeOK, evaluate_container_policy
  <2>6. CASE UNCHANGED chainVars
    BY <1>5, <2>6 DEF ChainTypeOK, chainVars
  <2> QED BY <1>5, <2>1, <2>2, <2>3, <2>4, <2>5, <2>6 DEF ChainNext
<1> QED BY <1>4, <1>5, PTL DEF ChainSpec

LEMMA StabilityTypes == StabilitySpec => []StabilityTypeOK
<1> USE StabilityAssumption
<1>1. StabilityInit => StabilityTypeOK
  <2> SUFFICES ASSUME StabilityInit PROVE StabilityTypeOK
    OBVIOUS
  <2>1. Cardinality({}) = 0
    BY FS_EmptySet
  <2>2. ci_runs = <<>> /\ retained = {} /\ selected = {} /\ downloaded = {} /\ input = {} /\ stability = "none"
    BY DEF StabilityInit
  <2>3. ci_runs \in Seq(CiRuns) /\ Len(ci_runs) <= MaxCiRuns
    BY <2>2
  <2> QED BY <2>1, <2>2, <2>3 DEF StabilityTypeOK, StabilityStatuses
<1>2. ASSUME StabilityTypeOK, [StabilityNext]_stabilityVars PROVE StabilityTypeOK'
  <2>1. ci_runs \in Seq(CiRuns) /\ Len(ci_runs) \in Nat /\ DOMAIN ci_runs = 1..Len(ci_runs)
    BY <1>2 DEF StabilityTypeOK
  <2>2. ASSUME NEW run \in CiRuns, CiRunEnds(run) PROVE StabilityTypeOK'
    <3>1. /\ ci_runs' \in Seq(CiRuns) /\ Len(ci_runs') = Len(ci_runs) + 1 /\ Len(ci_runs) < MaxCiRuns
          /\ DOMAIN ci_runs' = 1..(Len(ci_runs) + 1)
      BY <2>1, <2>2 DEF CiRunEnds
    <3>2. /\ retained' = retained \cup {<<Len(ci_runs) + 1, v>> : v \in Versions}
          /\ UNCHANGED <<selected, downloaded, input, stability>>
      BY <2>2 DEF CiRunEnds
    <3>3. DOMAIN ci_runs \subseteq DOMAIN ci_runs' /\ Len(ci_runs) + 1 \in DOMAIN ci_runs'
      BY <2>1, <3>1
    <3>4. retained' \subseteq (DOMAIN ci_runs') \X Versions
      <4>1. retained \subseteq (DOMAIN ci_runs') \X Versions
        BY <1>2, <3>3 DEF StabilityTypeOK
      <4> QED BY <3>2, <3>3, <4>1
    <3> QED BY <1>2, <2>1, <3>1, <3>2, <3>3, <3>4 DEF StabilityTypeOK
  <2>3. ASSUME NEW x \in RunIds \X Versions, ArtifactExpires(x) PROVE StabilityTypeOK'
    BY <1>2, <2>3 DEF StabilityTypeOK, ArtifactExpires
  <2>4. CASE ListCiRuns
    <3>1. selected' = {i \in DOMAIN ci_runs : i + Window > Len(ci_runs)} /\ downloaded = {}
          /\ UNCHANGED <<ci_runs, retained, downloaded, input, stability>>
      BY <1>2, <2>4 DEF ListCiRuns, StabilityTypeOK
    <3>2. Cardinality(selected') <= Window
      <4> DEFINE newest == (Len(ci_runs) - Window + 1)..Len(ci_runs)
      <4>1. selected' \in SUBSET newest
        BY <2>1, <3>1
      <4>2. IsFiniteSet(newest) /\ Cardinality(newest) <= Window
        <5>1. Len(ci_runs) - Window + 1 \in Int /\ Len(ci_runs) \in Int /\ Window \in Nat
          BY <2>1
        <5>2. IsFiniteSet(newest) /\ Cardinality(newest) =
                IF Len(ci_runs) - Window + 1 > Len(ci_runs) THEN 0
                ELSE Len(ci_runs) - (Len(ci_runs) - Window + 1) + 1
          BY <5>1, FS_Interval
        <5> HIDE DEF newest
        <5> QED BY <5>1, <5>2
      <4>3. Cardinality(selected') <= Cardinality(newest) /\ Cardinality(selected') \in Nat
            /\ Cardinality(newest) \in Nat
        BY <4>1, <4>2, FS_Subset, FS_CardinalityType
      <4> HIDE DEF newest
      <4> QED BY <4>2, <4>3
    <3> QED BY <1>2, <3>1, <3>2 DEF StabilityTypeOK
  <2>5. ASSUME NEW i \in RunIds, Download(i) PROVE StabilityTypeOK'
    <3>1. /\ i \in selected /\ downloaded' = downloaded \cup {i} /\ input' = input \cup {x \in retained : x[1] = i}
          /\ UNCHANGED <<ci_runs, retained, selected, stability>>
      BY <2>5 DEF Download
    <3>2. input' \subseteq downloaded' \X Versions
      BY <1>2, <3>1 DEF StabilityTypeOK
    <3> QED BY <1>2, <3>1, <3>2 DEF StabilityTypeOK
  <2>6. CASE build_history
    <3>1. stability' \in StabilityStatuses /\ UNCHANGED <<ci_runs, retained, selected, downloaded, input>>
      BY <2>6 DEF build_history, StabilityStatuses
    <3> QED BY <1>2, <3>1 DEF StabilityTypeOK
  <2>7. CASE UNCHANGED stabilityVars
    BY <1>2, <2>7 DEF StabilityTypeOK, stabilityVars
  <2> QED BY <1>2, <2>2, <2>3, <2>4, <2>5, <2>6, <2>7 DEF StabilityNext
<1> QED BY <1>1, <1>2, PTL DEF StabilitySpec

LEMMA AuditTypes == AuditSpec => []AuditTypeOK
<1> USE RetentionAssumption
<1>1. AuditInit => AuditTypeOK
  <2> SUFFICES ASSUME AuditInit PROVE AuditTypeOK
    OBVIOUS
  <2>1. runs = <<>> /\ listed_runs = <<>> /\ artifacts = {} /\ listed_artifacts = {}
    BY DEF AuditInit
  <2>2. runs \in Seq(WorkflowRuns) /\ listed_runs \in Seq(WorkflowRuns) /\ Len(runs) = 0 /\ Len(listed_runs) = 0
    BY <2>1
  <2>3. day = 0 /\ main = 0 /\ main_sha = 0 /\ audit_day = 0 /\ listing = "nothing" /\ audit = "UNVERIFIED"
    BY DEF AuditInit
  <2>4. day \in 0..MaxDay /\ main \in 0..MaxMain /\ main_sha \in 0..main /\ audit_day \in 0..day
    BY <2>3
  <2> QED BY <2>1, <2>2, <2>3, <2>4 DEF AuditTypeOK
<1>2. ASSUME AuditTypeOK, [AuditNext]_auditVars PROVE AuditTypeOK'
  <2>1. /\ runs \in Seq(WorkflowRuns) /\ Len(runs) \in Nat /\ DOMAIN runs = 1..Len(runs) /\ Len(runs) <= MaxRuns
        /\ listed_runs \in Seq(WorkflowRuns) /\ Len(listed_runs) \in Nat /\ Len(listed_runs) <= Len(runs)
        /\ \A i \in DOMAIN runs : runs[i] \in WorkflowRuns
        /\ day \in 0..MaxDay /\ main \in 0..MaxMain
    BY <1>2 DEF AuditTypeOK
  \* The runs change, and what is known of artifacts still fits them.
  <2>2. ASSUME UNCHANGED <<day, main, artifacts, auditorVars>>, runs' \in Seq(WorkflowRuns),
               Len(runs) <= Len(runs'), Len(runs') <= MaxRuns,
               \A i \in DOMAIN runs : runs'[i].attempt >= runs[i].attempt
        PROVE  AuditTypeOK'
    <3>1. UNCHANGED <<listing, main_sha, listed_runs, listed_artifacts, audit, audit_day, day, main, artifacts>>
      BY <2>2 DEF auditorVars
    <3>2. DOMAIN runs' = 1..Len(runs') /\ Len(runs') \in Nat /\ \A i \in DOMAIN runs' : runs'[i] \in WorkflowRuns
      BY <2>2
    <3>3. ASSUME NEW a \in artifacts PROVE a.run \in DOMAIN runs' /\ a.attempt <= runs'[a.run].attempt
      <4>1. a.run \in DOMAIN runs /\ a.attempt <= runs[a.run].attempt /\ a.attempt \in Nat
        BY <1>2 DEF AuditTypeOK, Artifacts
      <4>2. a.run \in DOMAIN runs'
        BY <2>1, <2>2, <3>2, <4>1
      <4>3. runs[a.run].attempt \in Nat /\ runs'[a.run].attempt \in Nat /\ runs'[a.run].attempt >= runs[a.run].attempt
        <5>1. runs[a.run] \in WorkflowRuns /\ runs'[a.run] \in WorkflowRuns
          BY <2>1, <3>2, <4>1, <4>2
        <5>2. runs[a.run].attempt \in Nat /\ runs'[a.run].attempt \in Nat
          BY <5>1 DEF WorkflowRuns
        <5> QED BY <2>2, <4>1, <5>2
      <4> QED BY <4>1, <4>2, <4>3
    <3>4. Len(listed_runs) <= Len(runs')
      BY <2>1, <2>2, <3>2
    <3> QED BY <1>2, <2>2, <3>1, <3>3, <3>4 DEF AuditTypeOK
  <2>3. ASSUME NEW i \in DOMAIN runs, NEW run \in WorkflowRuns, run.attempt >= runs[i].attempt,
               runs' = [runs EXCEPT ![i] = run], UNCHANGED <<day, main, artifacts, auditorVars>>
        PROVE  AuditTypeOK'
    <3>1. /\ runs' \in Seq(WorkflowRuns) /\ Len(runs') = Len(runs)
          /\ \A j \in DOMAIN runs : runs'[j] = IF j = i THEN run ELSE runs[j]
      BY <2>1, <2>3
    <3>2. \A j \in DOMAIN runs : runs'[j].attempt >= runs[j].attempt
      <4> TAKE j \in DOMAIN runs
      <4>1. runs[j].attempt \in Nat
        BY <2>1 DEF WorkflowRuns
      <4> QED BY <2>3, <3>1, <4>1
    <3>3. Len(runs) <= Len(runs') /\ Len(runs') <= MaxRuns
      BY <2>1, <3>1
    <3> QED BY <2>2, <2>3, <3>1, <3>2, <3>3
  <2>4. CASE NextDay \/ PushMain
    <3>1. /\ day' \in 0..MaxDay /\ main' \in 0..MaxMain /\ day' >= day /\ main' >= main
          /\ UNCHANGED <<runs, artifacts, listing, main_sha, listed_runs, listed_artifacts, audit, audit_day>>
      BY <2>1, <2>4 DEF NextDay, PushMain, auditorVars
    <3>2. main_sha' \in 0..main' /\ audit_day' \in 0..day'
      BY <1>2, <2>1, <3>1 DEF AuditTypeOK
    <3> QED BY <1>2, <3>1, <3>2 DEF AuditTypeOK
  <2>5. ASSUME NEW d \in Domains, NEW event \in Events, StartRun(d, event) PROVE AuditTypeOK'
    <3>1. PICK run : run = [domain |-> d, sha |-> main, event |-> event, attempt |-> 1, concluded |-> "running"]
      OBVIOUS
    <3>2. run \in WorkflowRuns
      BY <2>1, <3>1 DEF WorkflowRuns, Conclusions
    <3>3. runs' = Append(runs, run) /\ Len(runs) < MaxRuns /\ UNCHANGED <<day, main, artifacts, auditorVars>>
      BY <2>5, <3>1 DEF StartRun
    <3>4. /\ runs' \in Seq(WorkflowRuns) /\ Len(runs') = Len(runs) + 1 /\ \A i \in DOMAIN runs : runs'[i] = runs[i]
      BY <2>1, <3>2, <3>3
    <3>5. \A i \in DOMAIN runs : runs'[i].attempt >= runs[i].attempt
      <4> TAKE i \in DOMAIN runs
      <4>1. runs[i].attempt \in Nat
        BY <2>1 DEF WorkflowRuns
      <4> QED BY <3>4, <4>1
    <3>6. Len(runs) <= Len(runs') /\ Len(runs') <= MaxRuns
      BY <2>1, <3>3, <3>4
    <3> QED BY <2>2, <3>3, <3>4, <3>5, <3>6
  <2>6. ASSUME NEW i \in DOMAIN runs, StartAttempt(i) PROVE AuditTypeOK'
    <3>1. PICK old, n : old = runs[i] /\ n = runs[i].attempt + 1
      OBVIOUS
    <3>2. old \in WorkflowRuns /\ n \in 1..MaxAttempts /\ n >= old.attempt
      BY <2>1, <2>6, <3>1 DEF WorkflowRuns, StartAttempt
    <3>3. PICK run : run = [old EXCEPT !.attempt = n, !.concluded = "running"]
      OBVIOUS
    <3>4. run \in WorkflowRuns /\ run.attempt >= runs[i].attempt
      BY <3>1, <3>2, <3>3 DEF WorkflowRuns, Conclusions
    <3>5. runs' = [runs EXCEPT ![i] = run]
      BY <2>6, <3>1, <3>3 DEF StartAttempt
    <3> QED BY <2>3, <2>6, <3>4, <3>5 DEF StartAttempt
  <2>7. ASSUME NEW i \in DOMAIN runs, NEW c \in {"success", "failure"}, Conclude(i, c) PROVE AuditTypeOK'
    <3>1. PICK old, run : old = runs[i] /\ run = [old EXCEPT !.concluded = c]
      OBVIOUS
    <3>2. old \in WorkflowRuns
      BY <2>1, <3>1
    <3>3. run \in WorkflowRuns /\ run.attempt >= runs[i].attempt
      BY <3>1, <3>2 DEF WorkflowRuns, Conclusions
    <3>4. runs' = [runs EXCEPT ![i] = run]
      BY <2>7, <3>1 DEF Conclude
    <3> QED BY <2>3, <2>7, <3>3, <3>4 DEF Conclude
  <2>8. ASSUME NEW i \in DOMAIN runs, UploadArtifact(i) PROVE AuditTypeOK'
    <3>1. PICK n : n = runs[i].attempt
      OBVIOUS
    <3>2. n \in 1..MaxAttempts /\ n <= runs[i].attempt
      BY <2>1, <3>1 DEF WorkflowRuns
    <3>3. PICK new : new = [run |-> i, attempt |-> n, expires |-> day + Retention]
      OBVIOUS
    <3>4. new \in Artifacts /\ new.run \in DOMAIN runs /\ new.attempt <= runs[new.run].attempt
      BY <2>1, <3>2, <3>3 DEF Artifacts
    <3>5. /\ artifacts' = artifacts \cup {new}
          /\ UNCHANGED <<day, main, runs, listing, main_sha, listed_runs, listed_artifacts, audit, audit_day>>
      BY <2>8, <3>1, <3>3 DEF UploadArtifact, auditorVars
    <3> QED BY <1>2, <3>4, <3>5 DEF AuditTypeOK
  <2>9. CASE ListMain \/ ListRuns \/ ListArtifacts \/ ListingFails
    <3>1. /\ listing' \in {"main", "runs", "artifacts", "all"} /\ main_sha' \in {0, main_sha, main}
          /\ listed_runs' \in {<<>>, listed_runs, runs} /\ listed_artifacts' \in {listed_artifacts, artifacts}
          /\ UNCHANGED <<day, main, runs, artifacts, audit, audit_day>>
      BY <2>9 DEF ListMain, ListRuns, ListArtifacts, ListingFails
    <3>2. listed_runs' \in Seq(WorkflowRuns) /\ Len(listed_runs') <= Len(runs)
      <4>1. CASE listed_runs' = <<>>
        BY <2>1, <4>1
      <4>2. CASE listed_runs' = listed_runs
        BY <2>1, <4>2
      <4>3. CASE listed_runs' = runs
        BY <2>1, <4>3
      <4> QED BY <3>1, <4>1, <4>2, <4>3
    <3>3. main_sha' \in 0..main
      BY <1>2, <2>1, <3>1 DEF AuditTypeOK
    <3> QED BY <1>2, <3>1, <3>2, <3>3 DEF AuditTypeOK
  <2>10. CASE Audit
    <3>1. /\ listing' = "all" /\ listed_artifacts' = {} /\ audit' \in {"PASS", "FAIL"} /\ audit_day' = day
          /\ UNCHANGED <<day, main, runs, artifacts, main_sha, listed_runs>>
      BY <2>10 DEF Audit
    <3>2. audit_day' \in 0..day'
      BY <2>1, <3>1
    <3> QED BY <1>2, <3>1, <3>2 DEF AuditTypeOK
  <2>11. CASE UNCHANGED auditVars
    BY <1>2, <2>11 DEF AuditTypeOK, auditVars
  <2> QED BY <1>2, <2>4, <2>5, <2>6, <2>7, <2>8, <2>9, <2>10, <2>11 DEF AuditNext
<1> QED BY <1>1, <1>2, PTL DEF AuditSpec

-----------------------------------------------------------------------------
(* The composition: a step of another job is a stutter for each one.       *)
LEMMA JobsKeepTheirSpecs ==
  Spec => /\ TelemetrySpec /\ SmokeSpec /\ GateSpec /\ PerfSpec /\ PipelineSpec /\ ScopeSpec
          /\ AuditSpec /\ StabilitySpec /\ ChainSpec /\ PolicySpec
<1>1. Init => /\ TelemetryInit /\ SmokeInit /\ GateInit /\ PerfInit /\ PipelineInit /\ ScopeInit
              /\ AuditInit /\ StabilityInit /\ ChainInit /\ PolicyInit
  BY Zenon DEF Init
<1>2. ASSUME [Next]_jobVars
      PROVE  /\ [TelemetryNext]_telemetryVars /\ [SmokeNext]_smokeVars
             /\ [GateNext]_gateVars /\ [PerfNext]_perfVars
             /\ [PipelineNext]_pipelineVars /\ [ScopeNext]_scopeVars
             /\ [AuditNext]_auditVars /\ [StabilityNext]_stabilityVars
             /\ [ChainNext]_chainVars /\ [PolicyNext]_policyVars
  <2>1. CASE UNCHANGED jobVars
    <3>1. UNCHANGED <<telemetryVars, smokeVars, gateVars, perfVars, pipelineVars, scopeVars, auditVars,
                      stabilityVars, chainVars, policyVars>>
      BY <2>1, Zenon DEF jobVars
    <3> QED BY <3>1, Zenon
  <2>2. CASE Next
    BY <2>2, Zenon DEF Next, Rest
  <2> QED BY <1>2, <2>1, <2>2
<1> QED BY <1>1, <1>2, PTL
  DEF Spec, TelemetrySpec, SmokeSpec, GateSpec, PerfSpec, PipelineSpec, ScopeSpec, AuditSpec, StabilitySpec,
      ChainSpec, PolicySpec

(* Each job's variables keep their types, whatever the others do: what the *)
(* scripts of CI read is what the ones before them can have written.       *)
THEOREM JobTypes == Spec => []TypeOK
<1>1. Init => job \in JobNames
  BY DEF Init
<1>2. job \in JobNames /\ [Next]_jobVars => (job \in JobNames)'
  <2>1. [Next]_jobVars => job' = job
    BY Zenon DEF Next, Rest, jobVars
  <2> QED BY <2>1 DEF JobNames
<1>3. Spec => [](job \in JobNames)
  BY <1>1, <1>2, PTL DEF Spec
<1>4. Spec => []TelemetryTypeOK /\ []GateTypeOK /\ []PerfTypeOK
  <2>1. (TelemetryInv => TelemetryTypeOK) /\ (GateInv => GateTypeOK) /\ (PerfInv => PerfTypeOK)
    BY DEF TelemetryInv, GateInv, PerfInv
  <2> QED BY <2>1, JobsKeepTheirSpecs, TelemetryInvariant, GateInvariant, PerfInvariant, PTL
<1>5. /\ job \in JobNames
      /\ TelemetryTypeOK /\ SmokeTypeOK /\ GateTypeOK /\ PerfTypeOK /\ PipelineTypeOK
      /\ ScopeTypeOK /\ AuditTypeOK /\ StabilityTypeOK /\ ChainTypeOK /\ PolicyTypeOK
      => TypeOK
  BY Zenon DEF TypeOK
<1> QED BY <1>3, <1>4, <1>5, JobsKeepTheirSpecs, SmokeTypes, PipelineTypes, ScopeIsTyped, AuditTypes,
           StabilityTypes, ChainTypes, PolicyInvariant, PTL

(* In the gate and in the samples' job: a gate's exit and its artifact     *)
(* agree, and a worse measurement never turns a comparison green           *)
(* (run_k6_gate.py and the other gate scripts,                             *)
(* compare_performance_baseline.py).                                       *)
THEOREM JobVerdictsHold == Spec => [](ExitMatchesEvidence /\ ComparisonIsSound)
BY JobsKeepTheirSpecs, GateExitMatches, ComparisonSound, PTL

(* In every job, the evidence of a device is of this run and of the app    *)
(* its id names, a certificate is earned, and a scope has cleaned up       *)
(* (run_native_android_smoke.py, generate_release_report.py, test_data.py).*)
THEOREM JobsAreSound == Spec => [](EvidenceIsOfThisRun /\ CertifiedIsEarned /\ CleanupIsComplete)
BY JobsKeepTheirSpecs, EvidenceOfThisRun, CertificationEarned, CleanupComplete, PTL

(* Neither a retry nor a crash hides behind a green test step, for any     *)
(* tests, workers and reruns (pytest_attempt_telemetry.py,                 *)
(* summarize_test_attempts.py).                                            *)
THEOREM GreenHidesNothing == Spec => []GreenStepHidesNothing
<1>1. TelemetryInv => GreenStepHidesNothing
  BY TelemetryShows
<1> QED BY <1>1, JobsKeepTheirSpecs, TelemetryInvariant, PTL

(* An audit that passes promises evidence that lasts the required window,  *)
(* of the newest attempts it was told of, while main moves, runs start     *)
(* again and artifacts expire (audit_artifact_retention.py).               *)
THEOREM ReadyLasts == Spec => []ReadyIsRetained
<1>1. AuditInv => ReadyIsRetained
  BY AuditKeeps
<1> QED BY <1>1, JobsKeepTheirSpecs, AuditInvariant, PTL

(* The stability report neither misses a variation nor makes one up, with  *)
(* whatever artifacts lost or refused (test_stability_history.py).         *)
THEOREM VariationsAreReal == Spec => []VariationIsReal
<1>1. StabilityInv => VariationIsReal
  BY DEF StabilityInv
<1> QED BY <1>1, JobsKeepTheirSpecs, StabilityInvariant, PTL

(* The policies' promises, for any images, findings, tests, entries and    *)
(* dates: a sealed manifest is one chain, waiting greens nothing, and what *)
(* is green is reviewed (build_container_security_manifest.py,             *)
(* evaluate_vulnerability_policy.py, test_quality_report.py).              *)
THEOREM PoliciesSound == Spec => []PoliciesHold
<1>1. ChainInv /\ PolicyTypeOK => PoliciesHold
  BY WaitingIsNoReview, GreenReviewed DEF PoliciesHold, ChainInv
<1> QED BY <1>1, JobsKeepTheirSpecs, ChainInvariant, PolicyInvariant, PTL
=============================================================================
