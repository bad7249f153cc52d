------------------------ MODULE JiraControlPlaneProofs ------------------------
(***************************************************************************)
(* Proofs about JiraControlPlane for any workflows, issues, commits, runs  *)
(* and outcomes, with any number of events, re-runs, expiries and kills.   *)
(***************************************************************************)
EXTENDS JiraControlPlane, FiniteSetTheorems, TLAPS

-----------------------------------------------------------------------------
(* A bounded set of numbers has a greatest: of the intervals from them to  *)
(* the bound one is minimal.  And a least.                                 *)
LEMMA GreatestExists ==
  ASSUME NEW M \in Nat, NEW S \in SUBSET (0..M), S # {}
  PROVE  \E m \in S : \A x \in S : x <= m
<1> DEFINE above == {n..M : n \in S}
           less == StrictSubsetOrdering(0..M)
<1>1. IsWellFoundedOn(less, SUBSET (0..M))
  <2>1. IsFiniteSet(0..M)
    BY FS_Interval
  <2> QED BY <2>1, FS_StrictSubsetOrderingWellFounded, FS_FiniteSubsetsOfFinite
<1>2. above \subseteq SUBSET (0..M) /\ above # {}
  <2>1. \A n \in S : n..M \in SUBSET (0..M)
    OBVIOUS
  <2>2. \A i \in above : i \in SUBSET (0..M)
    BY <2>1
  <2>3. above # {}
    OBVIOUS
  <2> QED BY <2>2, <2>3
<1>3. PICK i \in above : \A y \in above : <<y, i>> \notin less
  <2> HIDE DEF above, less
  <2> QED BY <1>1, <1>2, WFMin
<1>4. PICK m \in S : i = m..M
  BY <1>3
<1>5. ASSUME NEW x \in S PROVE x <= m
  <2> SUFFICES ASSUME x > m PROVE FALSE
    OBVIOUS
  <2>1. <<x..M, i>> \notin less
    BY <1>3
  <2>2. x..M \subseteq 0..M /\ i \subseteq 0..M /\ x..M \subseteq i /\ m \in i /\ m \notin x..M
    BY <1>4
  <2> QED BY <2>1, <2>2 DEF StrictSubsetOrdering
<1> QED BY <1>5

LEMMA MaxIsGreatest ==
  ASSUME NEW M \in Nat, NEW S \in SUBSET (0..M), S # {}
  PROVE  Max(S) \in S /\ \A x \in S : x <= Max(S)
<1>1. PICK m \in S : \A x \in S : m >= x
  BY GreatestExists
<1> QED BY <1>1 DEF Max

LEMMA MinIsLeast ==
  ASSUME NEW M \in Nat, NEW S \in SUBSET (0..M), S # {}
  PROVE  Min(S) \in S
<1> DEFINE T == {M - x : x \in S}
<1>1. T \in SUBSET (0..M) /\ T # {}
  OBVIOUS
<1>2. PICK t \in T : \A x \in T : x <= t
  <2> HIDE DEF T
  <2> QED BY <1>1, GreatestExists
<1>3. PICK m \in S : t = M - m
  BY <1>2
<1>4. \A x \in S : m <= x
  BY <1>2, <1>3
<1> QED BY <1>4 DEF Min

USE DEF RunIds

LEMMA ConstantFacts ==
  9 \in Keys /\ Keys \subseteq 1..9 /\ Monitored \subseteq WORKFLOWS /\ Commits \subseteq Nat
BY ConstantsAssumption, Zenon

LEMMA LatestExists ==
  ASSUME NEW ids \in SUBSET RunIds, ids # {}
  PROVE  Latest(ids) \in ids
<1> DEFINE S == {id[3] : id \in ids}
<1>1. MaxRunsPerCommit \in Nat
  BY ConstantsAssumption
<1>2. S \in SUBSET (0..MaxRunsPerCommit) /\ S # {}
  BY <1>1
<1>3. PICK m \in S : \A x \in S : x <= m
  <2> HIDE DEF S
  <2> QED BY <1>1, <1>2, GreatestExists
<1>4. PICK id \in ids : m = id[3]
  BY <1>3
<1>5. \A other \in ids : other[3] <= id[3]
  BY <1>3, <1>4
<1> QED BY <1>5 DEF Latest

-----------------------------------------------------------------------------
(* The runs: an attempt that has not ended has no outcome yet, and a       *)
(* contract gate that succeeded recorded PASS.                             *)
RunStates == [status : {"absent", "in_progress", "completed"}, outcome : AllOutcomes,
              past : SUBSET AllOutcomes, expired : BOOLEAN]

RunsOK ==
  /\ head \in MainCommits
  /\ runs \in [RunIds -> RunStates]
  /\ \A id \in RunIds :
       /\ runs[id].status # "completed" => runs[id].outcome = NoOutcome
       /\ id[1] = "Contract" /\ runs[id].outcome.conclusion = "success"
          => runs[id].outcome.evidence = "PASS"

(* What a run has come to in some attempt is not forgotten. *)
Present(id) == runs[id].status # "absent"
Held(id, o) == Present(id) /\ (o \in runs[id].past \/ o = runs[id].outcome)

RunsEvolve ==
  \A id \in RunIds :
    /\ Present(id) => Present(id)'
    /\ \A o : Held(id, o) /\ o # NoOutcome => Held(id, o)'

LEMMA ConcludedIsHeld ==
  ASSUME NEW w, NEW c, NEW o
  PROVE  o \in Concluded(w, c) <=> \E id \in RunIds : id[1] = w /\ id[2] = c /\ Held(id, o)
BY DEF Concluded, RunsOn, Held, Present

LEMMA OutcomeFacts ==
  /\ NoOutcome \in AllOutcomes /\ Cancelled \in AllOutcomes
  /\ NoOutcome.conclusion = "" /\ NoOutcome.evidence = "none"
  /\ NoOutcome.jobs = [name \in JobNames |-> ""]
  /\ Cancelled.conclusion = "cancelled"
  /\ \A w \in Monitored : Outcomes(w) \subseteq AllOutcomes
<1>1. NoOutcome \in AllOutcomes /\ Cancelled \in AllOutcomes
  BY DEF AllOutcomes
<1>2. \A w \in Monitored : Outcomes(w) \subseteq AllOutcomes
  BY DEF AllOutcomes
<1>3. \A c : /\ Plain(c).conclusion = c /\ Plain(c).evidence = "none"
             /\ Plain(c).jobs = [name \in JobNames |-> c]
  BY DEF Plain, AllJobs
<1> QED BY <1>1, <1>2, <1>3 DEF NoOutcome, Cancelled

LEMMA ContractOutcome ==
  ASSUME NEW o \in Outcomes("Contract"), o.conclusion = "success"
  PROVE  o.evidence = "PASS"
<1>1. PICK e \in ContractOutcomes :
        o = [Plain(IF e = "PASS" THEN "success" ELSE "failure") EXCEPT !.evidence = e]
  BY DEF Outcomes
<1>2. CASE e = "PASS"
  BY <1>1, <1>2 DEF Plain
<1>3. CASE e # "PASS"
  BY <1>1, <1>3 DEF Plain
<1> QED BY <1>2, <1>3

LEMMA AbsentState == Absent \in RunStates
<1>1. Absent.status = "absent" /\ Absent.outcome \in AllOutcomes /\ Absent.past = {}
  BY OutcomeFacts DEF Absent
<1>2. Absent.expired \in BOOLEAN
  BY DEF Absent
<1> QED BY <1>1, <1>2, OutcomeFacts DEF Absent, RunStates

(* Starting runs keeps what they came to, and what those they cancel did. *)
LEMMA StartedRuns ==
  ASSUME RunsOK, NEW ids \in SUBSET RunIds, StartRuns(ids), head' \in MainCommits
  PROVE  RunsOK' /\ RunsEvolve
<1>1. \A id \in RunIds : runs[id] \in RunStates
  BY DEF RunsOK
<1>2. ASSUME NEW id \in RunIds
      PROVE  /\ runs'[id] \in RunStates
             /\ runs'[id].status # "completed" => runs'[id].outcome = NoOutcome
             /\ id[1] = "Contract" /\ runs'[id].outcome.conclusion = "success"
                => runs'[id].outcome.evidence = "PASS"
             /\ runs[id].status # "absent" =>
                  /\ runs'[id].status # "absent"
                  /\ \A o : (o \in runs[id].past \/ o = runs[id].outcome) /\ o # NoOutcome =>
                       o \in runs'[id].past \/ o = runs'[id].outcome
  <2>1. CASE id \in ids
    <3>1. runs'[id] = Fresh(id)
      BY <2>1 DEF StartRuns
    <3>2. /\ Fresh(id).status = "in_progress" /\ Fresh(id).outcome = NoOutcome
          /\ Fresh(id).past = (IF runs[id].status = "absent" THEN {}
                               ELSE runs[id].past \cup {runs[id].outcome})
          /\ Fresh(id) \in RunStates
      BY <1>1, AbsentState DEF Fresh, Started, Absent, RunStates
    <3> QED BY <3>1, <3>2, OutcomeFacts
  <2>2. CASE id \notin ids /\ runs'[id] = runs[id]
    BY <1>1, <2>2 DEF RunsOK
  <2>3. CASE /\ runs[id].status = "in_progress"
             /\ runs'[id] = [runs[id] EXCEPT !.status = "completed", !.outcome = Cancelled]
    <3>1. /\ runs'[id] \in RunStates /\ runs'[id].status = "completed"
          /\ runs'[id].outcome = Cancelled /\ runs'[id].past = runs[id].past
      BY <1>1, <2>3, OutcomeFacts DEF RunStates
    <3>2. runs[id].outcome = NoOutcome
      BY <2>3 DEF RunsOK
    <3> QED BY <3>1, <3>2, OutcomeFacts
  <2> QED BY <2>1, <2>2, <2>3 DEF StartRuns
<1>3. runs' \in [RunIds -> RunStates]
  BY <1>2 DEF StartRuns
<1> QED BY <1>2, <1>3 DEF RunsOK, RunsEvolve, Present, Held

LEMMA SameRuns ==
  ASSUME RunsOK, runs' = runs, head' = head
  PROVE  RunsOK' /\ RunsEvolve
BY DEF RunsOK, RunsEvolve, Present, Held

LEMMA NextRuns ==
  ASSUME RunsOK, [Next]_vars
  PROVE  RunsOK' /\ RunsEvolve
<1>1. ASSUME NEW c \in Commits, Push(c) PROVE RunsOK' /\ RunsEvolve
  <2>1. head' \in MainCommits
    BY <1>1 DEF Push, RunsOK
  <2>2. {id \in RunIds : CommitOf(id) = c /\ id[3] = 1} \in SUBSET RunIds
    OBVIOUS
  <2> QED BY <1>1, <2>1, <2>2, StartedRuns DEF Push
<1>2. ASSUME NEW id \in RunIds, RunAgain(id) \/ Rerun(id) PROVE RunsOK' /\ RunsEvolve
  <2>1. head' \in MainCommits /\ StartRuns({id}) /\ {id} \in SUBSET RunIds
    BY <1>2 DEF RunAgain, Rerun, RunsOK
  <2> QED BY <2>1, StartedRuns
<1>3. ASSUME NEW id \in RunIds, Complete(id) PROVE RunsOK' /\ RunsEvolve
  <2>1. PICK o \in Outcomes(WorkflowOf(id)) :
          runs' = [runs EXCEPT ![id].status = "completed", ![id].outcome = o]
    BY <1>3 DEF Complete
  <2>2. /\ runs[id].status = "in_progress" /\ runs[id].outcome = NoOutcome
        /\ runs[id] \in RunStates /\ runs \in [RunIds -> RunStates] /\ head' = head
        /\ o \in AllOutcomes
    BY <1>3, OutcomeFacts DEF Complete, RunsOK, WorkflowOf
  <2>3. id[1] = "Contract" /\ o.conclusion = "success" => o.evidence = "PASS"
    BY ContractOutcome DEF WorkflowOf
  <2>4. /\ runs'[id] \in RunStates /\ runs'[id].status = "completed" /\ runs'[id].outcome = o
        /\ runs'[id].past = runs[id].past
        /\ \A other \in RunIds : other # id => runs'[other] = runs[other]
    BY <2>1, <2>2 DEF RunStates
  <2>5. runs' \in [RunIds -> RunStates]
    BY <2>1, <2>2, <2>4
  <2> QED BY <2>2, <2>3, <2>4, <2>5 DEF RunsOK, RunsEvolve, Present, Held
<1>4. ASSUME NEW id \in RunIds, Expire(id) PROVE RunsOK' /\ RunsEvolve
  <2>1. /\ runs[id] \in RunStates /\ runs \in [RunIds -> RunStates] /\ head' = head
        /\ runs' = [runs EXCEPT ![id].expired = TRUE]
    BY <1>4 DEF Expire, RunsOK
  <2>2. /\ runs'[id] = [runs[id] EXCEPT !.expired = TRUE]
        /\ \A other \in RunIds : other # id => runs'[other] = runs[other]
    BY <2>1
  <2>3. /\ runs'[id].status = runs[id].status /\ runs'[id].outcome = runs[id].outcome
        /\ runs'[id].past = runs[id].past
    BY <2>1, <2>2 DEF RunStates
  <2>4. runs'[id] \in RunStates
    BY <2>1, <2>2 DEF RunStates
  <2>5. runs' \in [RunIds -> RunStates]
    BY <2>1, <2>4
  <2> QED BY <2>1, <2>2, <2>3, <2>5 DEF RunsOK, RunsEvolve, Present, Held
<1>5. ASSUME UNCHANGED <<runs, head>> PROVE RunsOK' /\ RunsEvolve
  BY <1>5, SameRuns
<1> QED
  BY <1>1, <1>2, <1>3, <1>4, <1>5
     DEF Next, vars, Announce, NightlyArrives, Start, JobStep, Validate, CollectEvent,
         SelectCommonRun, CollectNightly, Write, Kill

-----------------------------------------------------------------------------
(* What a result shown for commit c may rest on. *)
Succeeded(w, c) == \E o \in Concluded(w, c) : o.conclusion = "success"
Verified(c)     == \E o \in Concluded("Contract", c) : o.evidence = "PASS"
Performed(c)    == /\ \E o \in Concluded("CI", c) : o.jobs["performance"] = "success"
                   /\ Succeeded("k6", c)
Certified(c)    == Verified(c) /\ \A w \in Monitored : Succeeded(w, c)

(* It stays so: what a run has concluded is not forgotten. *)
LEMMA BackingStays ==
  ASSUME RunsEvolve
  PROVE  /\ \A w, c : Succeeded(w, c) => Succeeded(w, c)'
         /\ \A c : (Verified(c) => Verified(c)') /\ (Performed(c) => Performed(c)')
                   /\ (Certified(c) => Certified(c)')
<1>1. ASSUME NEW w, NEW c, NEW o \in Concluded(w, c), o # NoOutcome
      PROVE  o \in Concluded(w, c)'
  <2>1. PICK id \in RunIds : id[1] = w /\ id[2] = c /\ Held(id, o)
    BY ConcludedIsHeld
  <2>2. Held(id, o)'
    BY <1>1, <2>1 DEF RunsEvolve
  <2>3. (o \in Concluded(w, c))' <=> \E x \in RunIds : x[1] = w /\ x[2] = c /\ Held(x, o)'
    BY DEF Concluded, RunsOn, Held, Present
  <2> QED BY <2>1, <2>2, <2>3
<1>2. \A o : (o.conclusion = "success" \/ o.evidence = "PASS" \/ o.jobs["performance"] = "success")
             => o # NoOutcome
  BY OutcomeFacts DEF JobNames
<1>3. \A w, c : Succeeded(w, c) => Succeeded(w, c)'
  BY <1>1, <1>2 DEF Succeeded
<1>4. \A c : Verified(c) => Verified(c)'
  BY <1>1, <1>2 DEF Verified
<1>5. \A c : Performed(c) => Performed(c)'
  BY <1>1, <1>2, <1>3 DEF Performed
<1> QED BY <1>3, <1>4, <1>5 DEF Certified

(* Results, and what a PASS among them says. *)
LEMMA ClassifyFacts ==
  ASSUME NEW st, NEW conclusion
  PROVE  /\ classify_run(st, conclusion) \in Results
         /\ classify_run(st, conclusion) = "PASS" => conclusion = "success"
BY DEF classify_run, Results, PASS_CONCLUSIONS, FAIL_CONCLUSIONS, BLOCKED_CONCLUSIONS

LEMMA JobResultFacts ==
  ASSUME NEW matched
  PROVE  /\ job_result(matched) \in Results
         /\ job_result(matched) = "PASS" => \A j \in matched : j.conclusion = "success"
<1> DEFINE conclusions == {j.conclusion : j \in matched}
<1>1. job_result(matched) \in Results
  BY DEF job_result, Results
<1>2. job_result(matched) = "PASS" => conclusions = {"success"}
  BY DEF job_result
<1> QED BY <1>1, <1>2

LEMMA OverallFacts ==
  ASSUME NEW current, NEW contractRun, NEW contract
  PROVE  /\ certification_overall(current, contractRun, contract) \in Results
         /\ certification_overall(current, contractRun, contract) = "PASS" =>
              current = {"PASS"} /\ (contractRun = "PASS" => contract = "PASS")
BY DEF certification_overall, Results

LEMMA PerformanceFacts ==
  ASSUME NEW values
  PROVE  /\ aggregate_performance_result(values) \in Results
         /\ aggregate_performance_result(values) = "PASS" => values = {"PASS"}
BY DEF aggregate_performance_result, Results

LEMMA ApiType ==
  ASSUME NEW ci, NEW contract
  PROVE  api_overall(ci, contract) \in Results
BY DEF api_overall, Results

LEMMA ResultFacts ==
  ASSUME NEW id \in RunIds, Present(id)
  PROVE  /\ ResultOf(id) \in Results
         /\ ResultOf(id) = "PASS" => Succeeded(id[1], id[2])
         /\ RunsOK /\ ResultOf(id) = "PASS" /\ id[1] = "Contract" => Verified(id[2])
         /\ contract_evidence_result(id) = "PASS" /\ id[1] = "Contract" => Verified(id[2])
<1>1. runs[id].outcome \in Concluded(id[1], id[2])
  BY ConcludedIsHeld DEF Held
<1>2. /\ ResultOf(id) \in Results
      /\ ResultOf(id) = "PASS" => runs[id].outcome.conclusion = "success"
  BY ClassifyFacts DEF ResultOf
<1>3. contract_evidence_result(id) = "PASS" => runs[id].outcome.evidence = "PASS"
  BY DEF contract_evidence_result
<1> QED BY <1>1, <1>2, <1>3 DEF Succeeded, Verified, RunsOK

LEMMA PerformanceJob ==
  ASSUME NEW id \in RunIds, Present(id), id[1] = "CI", JobsResult(id, 7) = "PASS"
  PROVE  \E o \in Concluded("CI", id[2]) : o.jobs["performance"] = "success"
<1> DEFINE j == [name |-> "performance", status |-> runs[id].status,
                 conclusion |-> runs[id].outcome.jobs["performance"]]
<1>1. runs[id].outcome \in Concluded("CI", id[2])
  BY ConcludedIsHeld DEF Held
<1>2. j \in {[name |-> name, status |-> runs[id].status,
             conclusion |-> runs[id].outcome.jobs[name]] : name \in MatchedBy(7)}
  BY DEF MatchedBy
<1>3. j.conclusion = "success"
  <2> HIDE DEF j
  <2> QED BY <1>2, JobResultFacts DEF JobsResult
<1> QED BY <1>1, <1>3

LEMMA RunsOnFacts ==
  ASSUME NEW w, NEW c, RunsOn(w, c) # {}
  PROVE  /\ Latest(RunsOn(w, c)) \in RunIds /\ Present(Latest(RunsOn(w, c)))
         /\ Latest(RunsOn(w, c))[1] = w /\ Latest(RunsOn(w, c))[2] = c
<1>1. RunsOn(w, c) \in SUBSET RunIds
  BY DEF RunsOn
<1>2. Latest(RunsOn(w, c)) \in RunsOn(w, c)
  BY <1>1, LatestExists
<1> QED BY <1>2 DEF RunsOn, Present

-----------------------------------------------------------------------------
(* What a sync of one run makes of what it read. *)
LEMMA DomainFacts ==
  ASSUME NEW w \in Monitored
  PROVE  Domain(w) \subseteq Keys /\ Domain(w) \subseteq 1..9 /\ 9 \in Domain(w)
<1>1. w \in WORKFLOWS /\ 9 \in Keys /\ Keys \subseteq 1..9
  BY ConstantsAssumption
<1> QED BY <1>1 DEF Domain, WORKFLOWS

Backed(c, view, perf, kind) ==
  /\ \A w \in Monitored : /\ view[w] \in Results \cup {"none"}
                          /\ view[w] = "PASS" => Succeeded(w, c)
  /\ kind = "nightly" /\ view["Contract"] = "PASS" => Verified(c)
  /\ perf = {"PASS"} => Performed(c)

PlanBacked(plan, c) ==
  /\ DOMAIN plan \subseteq Keys /\ DOMAIN plan # {}
  /\ \A k \in DOMAIN plan : plan[k] \in Results
  /\ 9 \in DOMAIN plan /\ plan[9] = "PASS" => Certified(c)
  /\ 7 \in DOMAIN plan /\ plan[7] = "PASS" => Performed(c)

LEMMA DomainResults ==
  ASSUME NEW id \in RunIds, Present(id), NEW result \in Results, NEW view, NEW perf,
         NEW kind \in {"event", "nightly"}, Backed(id[2], view, perf, kind)
  PROVE  PlanBacked(domain_results(id, result, view, perf, kind), id[2])
<1> DEFINE w == WorkflowOf(id)
           contract == ContractResult(id, view, kind)
           current == {OrElse(view[m], "PENDING") : m \in Monitored}
           plan == domain_results(id, result, view, perf, kind)
<1>1. w \in Monitored /\ {"CI", "Contract"} \subseteq Monitored
  BY ConstantsAssumption DEF WorkflowOf
<1>2. Domain(w) \subseteq Keys /\ Domain(w) \subseteq 1..9 /\ 9 \in Domain(w)
  BY <1>1, DomainFacts
<1>3. DOMAIN plan = Domain(w)
  BY DEF domain_results
<1>4. 9 \in Domain(w) => plan[9] = certification_overall(current, view["Contract"], contract)
  BY DEF domain_results
<1>5. 7 \in Domain(w) => plan[7] = aggregate_performance_result(perf)
  BY DEF domain_results
<1>6. ASSUME NEW k \in Domain(w) PROVE plan[k] \in Results
  <2>1. CASE k = 1
    BY <2>1, <1>6 DEF domain_results, Results
  <2>2. CASE k = 4
    BY <2>2, <1>6, ApiType DEF domain_results
  <2>3. CASE k = 7
    BY <2>3, <1>5, <1>6, PerformanceFacts
  <2>4. CASE k = 9
    BY <2>4, <1>4, <1>6, OverallFacts
  <2>5. CASE k \in {2, 5, 8}
    <3>1. plan[k] = JobsResult(id, k)
      BY <2>5, <1>6 DEF domain_results
    <3> QED BY <3>1, JobResultFacts DEF JobsResult
  <2>6. CASE k \in {3, 6}
    <3>1. plan[k] = IF w = "CI" THEN JobsResult(id, k) ELSE result
      BY <2>6, <1>6 DEF domain_results
    <3> QED BY <3>1, JobResultFacts DEF JobsResult
  <2> QED BY <1>2, <1>6, <2>1, <2>2, <2>3, <2>4, <2>5, <2>6
<1>7. ASSUME plan[9] = "PASS" PROVE Certified(id[2])
  <2>1. current = {"PASS"} /\ (view["Contract"] = "PASS" => contract = "PASS")
    BY <1>2, <1>4, <1>7, OverallFacts
  <2>2. \A m \in Monitored : view[m] = "PASS"
    BY <2>1 DEF OrElse
  <2>3. contract = "PASS"
    BY <1>1, <2>1, <2>2
  <2>4. CASE w = "Contract"
    <3>1. contract_evidence_result(id) = "PASS" /\ id[1] = "Contract"
      BY <2>3, <2>4 DEF ContractResult, WorkflowOf
    <3> QED BY <2>2, <3>1, ResultFacts DEF Certified, Backed
  <2>5. CASE w # "Contract"
    <3>1. kind = "nightly"
      BY <2>3, <2>5 DEF ContractResult
    <3> QED BY <1>1, <2>2, <3>1 DEF Certified, Backed
  <2> QED BY <2>4, <2>5
<1>8. ASSUME 7 \in Domain(w), plan[7] = "PASS" PROVE Performed(id[2])
  BY <1>5, <1>8, PerformanceFacts DEF Backed
<1> HIDE DEF w, plan
<1> QED BY <1>2, <1>3, <1>6, <1>7, <1>8 DEF PlanBacked, plan

-----------------------------------------------------------------------------
(* The job of the group: at each stage, what it knows already.             *)
Fields == {"kind", "stage", "run", "result", "view", "perf", "selected", "todo", "plan"}

JobTyped ==
  /\ DOMAIN job = Fields
  /\ job.kind \in {"idle", "event", "nightly"}
  /\ job.stage \in {"idle", "validate", "select", "collect", "write"}
  /\ job.run \in RunIds \cup {NoRun}
  /\ job.result \in Results \cup {"none"}
  /\ job.todo \subseteq Monitored
  /\ job.plan = <<>> \/ (DOMAIN job.plan \subseteq Keys /\ \A k \in DOMAIN job.plan : job.plan[k] \in Results)

(* The nightly works on runs of one commit. *)
SelectedOn(c) ==
  /\ c \in Commits
  /\ \A w \in Monitored :
       /\ job.selected[w] \in RunIds /\ Present(job.selected[w])
       /\ job.selected[w][1] = w /\ job.selected[w][2] = c
       /\ job.view[w] \in Results
  /\ Backed(c, job.view, job.perf, "nightly")

JobOK ==
  /\ JobTyped
  /\ job.kind = "event" => job.todo = {}
  /\ job.stage = "validate" => job.kind = "event" /\ job.run \in RunIds
  /\ job.stage = "select" => job.kind = "nightly"
  /\ job.stage \in {"collect", "write"} =>
       /\ job.kind # "idle"
       /\ job.kind = "event" => job.run \in RunIds /\ Present(job.run)
       /\ job.kind = "event" => job.result \in Results
       /\ job.kind = "nightly" => \E c \in Commits : SelectedOn(c)
  /\ job.kind = "nightly" /\ job.stage = "collect" => job.todo # {}
  /\ job.stage = "write" => job.run \in RunIds /\ PlanBacked(job.plan, job.run[2])

IssuesOK ==
  /\ issue \in [Keys -> [result : Results \cup {"none"}, commit : Commits \cup {0}]]
  /\ issue[9].result = "PASS" => Certified(issue[9].commit)
  /\ 7 \in Keys /\ issue[7].result = "PASS" => Performed(issue[7].commit)

CountersOK ==
  /\ pending \in RunIds \cup {NoRun, NIGHTLY}
  /\ announcements \in Nat /\ reruns \in Nat /\ expiries \in Nat /\ kills \in Nat

ControlInv == RunsOK /\ JobOK /\ IssuesOK /\ CountersOK

LEMMA IdleFacts ==
  /\ DOMAIN IdleJob = Fields
  /\ IdleJob.kind = "idle" /\ IdleJob.stage = "idle" /\ IdleJob.run = NoRun /\ IdleJob.result = "none"
  /\ IdleJob.todo = {} /\ IdleJob.plan = <<>>
BY DEF IdleJob, Fields

LEMMA NoneInTheGroup ==
  ASSUME job = IdleJob
  PROVE  JobOK
BY IdleFacts DEF JobOK, JobTyped

LEMMA InitControl == Init => ControlInv
<1> SUFFICES ASSUME Init PROVE ControlInv
  OBVIOUS
<1>1. RunsOK
  <2>1. head \in MainCommits
    BY ConstantsAssumption DEF Init, MainCommits
  <2>2. \A id \in RunIds : runs[id] = Started \/ runs[id] = Absent
    BY DEF Init
  <2>3. Started \in RunStates /\ Started.outcome = NoOutcome /\ Absent.outcome = NoOutcome
    BY AbsentState DEF Started, RunStates, Absent
  <2>4. runs \in [RunIds -> RunStates]
    BY <2>3, AbsentState DEF Init
  <2>5. \A id \in RunIds : runs[id].outcome = NoOutcome
    BY <2>2, <2>3
  <2> QED BY <2>1, <2>4, <2>5, OutcomeFacts DEF RunsOK
<1>2. JobOK
  BY NoneInTheGroup DEF Init
<1>3. IssuesOK
  BY ConstantsAssumption DEF Init, IssuesOK
<1>4. CountersOK
  BY DEF Init, CountersOK
<1> QED BY <1>1, <1>2, <1>3, <1>4 DEF ControlInv

(* A step of the others leaves the job what it knows. *)
LEMMA PlanStays ==
  ASSUME RunsEvolve, NEW plan, NEW c, PlanBacked(plan, c)
  PROVE  PlanBacked(plan, c)'
BY BackingStays DEF PlanBacked

LEMMA SelectionStays ==
  ASSUME RunsEvolve, NEW c \in Commits, SelectedOn(c),
         job'.selected = job.selected, job'.view = job.view, job'.perf = job.perf
  PROVE  SelectedOn(c)'
<1>1. Backed(c, job.view, job.perf, "nightly")'
  BY BackingStays DEF SelectedOn, Backed
<1> QED BY <1>1 DEF SelectedOn, RunsEvolve

LEMMA JobStays ==
  ASSUME RunsEvolve, JobOK, job' = job
  PROVE  JobOK'
<1>1. JobTyped'
  BY DEF JobOK, JobTyped
<1>2. ASSUME job.kind = "nightly", job.stage \in {"collect", "write"}
      PROVE  \E c \in Commits : SelectedOn(c)'
  <2>1. PICK c \in Commits : SelectedOn(c)
    BY <1>2 DEF JobOK
  <2> QED BY <2>1, SelectionStays
<1>3. job.stage = "write" => PlanBacked(job.plan, job.run[2])'
  BY PlanStays DEF JobOK
<1>4. job.run \in RunIds /\ Present(job.run) => Present(job.run)'
  BY DEF RunsEvolve
<1> QED BY <1>1, <1>2, <1>3, <1>4 DEF JobOK

LEMMA IssuesStay ==
  ASSUME RunsEvolve, IssuesOK, issue' = issue
  PROVE  IssuesOK'
BY BackingStays DEF IssuesOK

(* The steps of the job. *)
LEMMA StartControl ==
  ASSUME ControlInv, Start
  PROVE  JobOK'
<1>1. CASE pending = NIGHTLY
  <2>1. job' = [IdleJob EXCEPT !.kind = "nightly", !.stage = "select"]
    BY <1>1 DEF Start
  <2>2. /\ DOMAIN job' = Fields /\ job'.kind = "nightly" /\ job'.stage = "select"
        /\ job'.run = NoRun /\ job'.result = "none" /\ job'.todo = {} /\ job'.plan = <<>>
    BY <2>1, IdleFacts DEF Fields
  <2> QED BY <2>2 DEF JobOK, JobTyped
<1>2. CASE pending # NIGHTLY
  <2>1. job' = [IdleJob EXCEPT !.kind = "event", !.stage = "validate", !.run = pending]
    BY <1>2 DEF Start
  <2>2. /\ DOMAIN job' = Fields /\ job'.kind = "event" /\ job'.stage = "validate"
        /\ job'.run = pending /\ job'.result = "none" /\ job'.todo = {} /\ job'.plan = <<>>
    BY <2>1, IdleFacts DEF Fields
  <2>3. pending \in RunIds
    BY <1>2 DEF Start, ControlInv, CountersOK
  <2> QED BY <2>2, <2>3 DEF JobOK, JobTyped
<1> QED BY <1>1, <1>2

LEMMA ValidateControl ==
  ASSUME ControlInv, Validate
  PROVE  JobOK'
<1>1. CASE job' = IdleJob
  BY <1>1, IdleFacts DEF JobOK, JobTyped
<1>2. CASE /\ runs[job.run].status = "completed"
           /\ job' = [job EXCEPT !.stage = "collect", !.result = ResultOf(job.run)]
  <2>1. JobTyped /\ job.kind = "event" /\ job.run \in RunIds /\ job.todo = {} /\ runs' = runs
    BY DEF Validate, ControlInv, JobOK
  <2>2. /\ DOMAIN job' = Fields /\ job'.kind = "event" /\ job'.stage = "collect"
        /\ job'.run = job.run /\ job'.result = ResultOf(job.run) /\ job'.todo = {} /\ job'.plan = job.plan
    BY <1>2, <2>1 DEF JobTyped, Fields
  <2>3. Present(job.run) /\ Present(job.run)' /\ ResultOf(job.run) \in Results
    BY <1>2, <2>1, ResultFacts DEF Present
  <2>4. JobTyped'
    BY <2>1, <2>2, <2>3 DEF JobTyped
  <2> QED BY <2>1, <2>2, <2>3, <2>4 DEF JobOK, Present
<1> QED BY <1>1, <1>2 DEF Validate

LEMMA CollectEventControl ==
  ASSUME ControlInv, RunsEvolve, CollectEvent
  PROVE  JobOK'
<1> DEFINE id == job.run
           view == current_results(id[2])
           perf == performance_records(id[2])
           plan == domain_results(id, job.result, view, perf, "event")
<1>1. /\ JobTyped /\ job.kind = "event" /\ job.stage = "collect" /\ job.todo = {}
      /\ id \in RunIds /\ Present(id) /\ job.result \in Results
  BY DEF CollectEvent, ControlInv, JobOK
<1>2. job' = [job EXCEPT !.stage = "write", !.plan = plan] /\ runs' = runs
  BY DEF CollectEvent, CommitOf
<1>3. Backed(id[2], view, perf, "event")
  <2>1. ASSUME NEW w \in Monitored
        PROVE  view[w] \in Results \cup {"none"} /\ (view[w] = "PASS" => Succeeded(w, id[2]))
    <3>1. view[w] = IF RunsOn(w, id[2]) = {} THEN "none" ELSE ResultOf(Latest(RunsOn(w, id[2])))
      BY DEF current_results
    <3> QED BY <3>1, RunsOnFacts, ResultFacts
  <2>2. ASSUME perf = {"PASS"} PROVE Performed(id[2])
    <3> DEFINE ci == RunsOn("CI", id[2])
               k6 == IF "k6" \in Monitored THEN RunsOn("k6", id[2]) ELSE {}
    <3>1. perf = {IF ci = {} THEN "UNVERIFIED" ELSE JobsResult(Latest(ci), 7),
                  IF k6 = {} THEN "UNVERIFIED" ELSE ResultOf(Latest(k6))}
      BY DEF performance_records
    <3>2. ci # {} /\ JobsResult(Latest(ci), 7) = "PASS"
      BY <2>2, <3>1
    <3>3. k6 # {} /\ ResultOf(Latest(k6)) = "PASS"
      BY <2>2, <3>1
    <3>4. \E o \in Concluded("CI", id[2]) : o.jobs["performance"] = "success"
      BY <3>2, RunsOnFacts, PerformanceJob
    <3>5. Succeeded("k6", id[2])
      <4>1. RunsOn("k6", id[2]) # {} /\ ResultOf(Latest(RunsOn("k6", id[2]))) = "PASS"
        BY <3>3
      <4> QED BY <4>1, RunsOnFacts, ResultFacts
    <3> QED BY <3>4, <3>5 DEF Performed
  <2> HIDE DEF id, view, perf
  <2> QED BY <2>1, <2>2 DEF Backed
<1>4. PlanBacked(plan, id[2])
  BY <1>1, <1>3, DomainResults
<1>5. PICK p, c : p = plan /\ c = id[2] /\ PlanBacked(p, c) /\ PlanBacked(p, c)'
  <2>1. PICK p, c : p = plan /\ c = id[2]
    OBVIOUS
  <2>2. PlanBacked(p, c)
    BY <1>4, <2>1
  <2>3. PlanBacked(p, c)'
    BY <2>2, PlanStays
  <2> QED BY <2>1, <2>2, <2>3
<1> HIDE DEF plan
<1>6. /\ DOMAIN job' = Fields /\ job'.kind = "event" /\ job'.stage = "write" /\ job'.run = id
      /\ job'.result = job.result /\ job'.todo = {} /\ job'.plan = p
  BY <1>1, <1>2, <1>5 DEF JobTyped, Fields
<1>7. JobTyped'
  BY <1>1, <1>5, <1>6 DEF JobTyped, PlanBacked
<1>8. Present(job.run)'
  BY <1>1, <1>2, <1>6 DEF Present
<1> QED BY <1>1, <1>5, <1>6, <1>7, <1>8 DEF JobOK

(* One commit on which every workflow completed, and its runs. *)
LEMMA CommonFacts ==
  ASSUME RunsOK, CommonCommits # {}
  PROVE  /\ Max(CommonCommits) \in Commits /\ Max(CommonCommits) <= head
         /\ \A w \in Monitored : LET id == select_common_run[w] IN
              id \in RunIds /\ Present(id) /\ id[1] = w /\ id[2] = Max(CommonCommits)
<1>1. head \in Nat /\ CommonCommits \in SUBSET (0..head)
  <2>1. head \in Nat /\ \A c \in CommonCommits : c \in Nat /\ c <= head
    BY ConstantFacts DEF RunsOK, CommonCommits, MainCommits
  <2> QED BY <2>1
<1>2. Max(CommonCommits) \in CommonCommits
  BY <1>1, MaxIsGreatest
<1>3. PICK c : /\ c = Max(CommonCommits) /\ c \in Commits /\ c <= head
               /\ \A w \in Monitored : CompletedOn(w, c) # {}
  BY <1>2 DEF CommonCommits, MainCommits
<1>4. ASSUME NEW w \in Monitored
      PROVE  LET id == select_common_run[w] IN
               id \in RunIds /\ Present(id) /\ id[1] = w /\ id[2] = c
  <2>1. select_common_run[w] = Latest(CompletedOn(w, c))
    BY <1>3 DEF select_common_run
  <2>2. CompletedOn(w, c) \in SUBSET RunIds /\ CompletedOn(w, c) # {}
    BY <1>3 DEF CompletedOn, RunsOn
  <2>3. Latest(CompletedOn(w, c)) \in CompletedOn(w, c)
    BY <2>2, LatestExists
  <2> QED BY <2>1, <2>3 DEF CompletedOn, RunsOn, Present
<1> QED BY <1>3, <1>4

LEMMA SelectedShareOne ==
  ASSUME RunsOK, CommonCommits # {}
  PROVE  ShareOneCommit(select_common_run)
<1> DEFINE shas == {CommitOf(select_common_run[w]) : w \in Monitored}
<1>1. "CI" \in Monitored
  BY ConstantsAssumption
<1>2. \A w \in Monitored : CommitOf(select_common_run[w]) = Max(CommonCommits)
  BY CommonFacts DEF CommitOf
<1>3. shas = {Max(CommonCommits)}
  BY <1>1, <1>2
<1>4. Cardinality(shas) = 1
  BY <1>3, FS_Singleton
<1> QED BY <1>4 DEF ShareOneCommit

LEMMA SelectControl ==
  ASSUME ControlInv, SelectCommonRun
  PROVE  JobOK'
<1>1. CASE CommonCommits = {}
  <2>1. job' = IdleJob
    BY <1>1 DEF SelectCommonRun
  <2> QED BY <2>1, IdleFacts DEF JobOK, JobTyped
<1>2. CASE CommonCommits # {}
  <2> DEFINE k6 == IF "k6" \in Monitored THEN ResultOf(select_common_run["k6"]) ELSE "UNVERIFIED"
  <2>1. PICK c, selected, view, perf :
          /\ c = Max(CommonCommits) /\ selected = select_common_run
          /\ view = [w \in Monitored |-> ResultOf(selected[w])]
          /\ perf = {JobsResult(selected["CI"], 7), k6}
    OBVIOUS
  <2>2. /\ job' = [job EXCEPT !.stage = "collect", !.selected = selected, !.view = view,
                              !.perf = perf, !.todo = Monitored]
        /\ runs' = runs
    BY <1>2, <2>1, SelectedShareOne DEF SelectCommonRun, ControlInv
  <2>3. JobTyped /\ job.kind = "nightly"
    BY DEF ControlInv, JobOK, SelectCommonRun
  <2>4. /\ DOMAIN job' = Fields /\ job'.kind = "nightly" /\ job'.stage = "collect" /\ job'.run = job.run
        /\ job'.result = job.result /\ job'.todo = Monitored /\ job'.plan = job.plan
        /\ job'.selected = selected /\ job'.view = view /\ job'.perf = perf
    BY <2>2, <2>3 DEF JobTyped, Fields
  <2>5. /\ c \in Commits
        /\ \A w \in Monitored : /\ selected[w] \in RunIds /\ Present(selected[w])
                                /\ selected[w][1] = w /\ selected[w][2] = c
    BY <1>2, <2>1, CommonFacts DEF ControlInv
  <2>6. ASSUME NEW w \in Monitored
        PROVE  /\ view[w] \in Results /\ (view[w] = "PASS" => Succeeded(w, c))
               /\ w = "Contract" /\ view[w] = "PASS" => Verified(c)
    <3>1. view[w] = ResultOf(selected[w])
      BY <2>1
    <3> QED BY <2>5, <3>1, ResultFacts DEF ControlInv
  <2>7. {"CI", "Contract"} \subseteq Monitored
    BY ConstantsAssumption
  <2>8. ASSUME perf = {"PASS"} PROVE Performed(c)
    <3>1. JobsResult(selected["CI"], 7) = "PASS"
      BY <2>1, <2>8
    <3>2. k6 = "PASS"
      BY <2>1, <2>8
    <3>3. "k6" \in Monitored /\ ResultOf(selected["k6"]) = "PASS"
      BY <2>1, <3>2
    <3>4. \E o \in Concluded("CI", c) : o.jobs["performance"] = "success"
      BY <2>5, <2>7, <3>1, PerformanceJob
    <3>5. Succeeded("k6", c)
      BY <2>5, <3>3, ResultFacts
    <3> QED BY <3>4, <3>5 DEF Performed
  <2>9. Backed(c, view, perf, "nightly")
    BY <2>6, <2>7, <2>8 DEF Backed
  <2>10. Backed(c, view, perf, "nightly")'
    <3>1. \A w : Succeeded(w, c) => Succeeded(w, c)'
      BY <2>2 DEF Succeeded, Concluded, RunsOn
    <3>2. (Verified(c) => Verified(c)') /\ (Performed(c) => Performed(c)')
      BY <2>2, <3>1 DEF Verified, Performed, Concluded, RunsOn
    <3> QED BY <2>9, <3>1, <3>2 DEF Backed
  <2>11. SelectedOn(c)'
    BY <2>2, <2>4, <2>5, <2>6, <2>10 DEF SelectedOn, Present
  <2>12. JobTyped'
    BY <2>3, <2>4 DEF JobTyped
  <2> QED BY <2>4, <2>5, <2>7, <2>11, <2>12 DEF JobOK
<1> QED BY <1>1, <1>2

LEMMA FirstOfTodo ==
  ASSUME NEW todo \in SUBSET Monitored, todo # {}
  PROVE  FirstOf(todo) \in todo
<1> DEFINE S == {i \in 1..5 : Order[i] \in todo}
<1>1. \A w \in WORKFLOWS : \E i \in 1..5 : Order[i] = w
  BY DEF WORKFLOWS, Order
<1>2. S \in SUBSET (0..5) /\ S # {}
  <2>1. S # {}
    BY <1>1, ConstantFacts
  <2> QED BY <2>1
<1>3. Min(S) \in S
  <2> HIDE DEF S
  <2> QED BY <1>2, MinIsLeast
<1> QED BY <1>3 DEF FirstOf

LEMMA CollectNightlyControl ==
  ASSUME ControlInv, RunsEvolve, CollectNightly
  PROVE  JobOK'
<1>1. PICK c \in Commits : SelectedOn(c)
  BY DEF ControlInv, JobOK, CollectNightly
<1>2. PICK w, id : w = FirstOf(job.todo) /\ id = job.selected[w]
  OBVIOUS
<1>3. /\ JobTyped /\ job.kind = "nightly" /\ w \in Monitored /\ w \in job.todo
      /\ id \in RunIds /\ Present(id) /\ id[2] = c /\ job.view[w] \in Results
  BY <1>1, <1>2, FirstOfTodo DEF ControlInv, JobOK, JobTyped, CollectNightly, SelectedOn
<1>4. PICK plan : plan = domain_results(id, job.view[w], job.view, job.perf, "nightly")
  OBVIOUS
<1>5. PlanBacked(plan, c)
  BY <1>1, <1>3, <1>4, DomainResults DEF SelectedOn
<1>6. PlanBacked(plan, c)'
  BY <1>5, PlanStays
<1>7. /\ job' = [job EXCEPT !.stage = "write", !.run = id, !.todo = @ \ {w}, !.plan = plan]
      /\ runs' = runs
  BY <1>2, <1>4 DEF CollectNightly
<1>8. /\ DOMAIN job' = Fields /\ job'.kind = "nightly" /\ job'.stage = "write" /\ job'.run = id
      /\ job'.result = job.result /\ job'.todo = job.todo \ {w} /\ job'.plan = plan
      /\ job'.selected = job.selected /\ job'.view = job.view /\ job'.perf = job.perf
  BY <1>3, <1>7 DEF JobTyped, Fields
<1>9. SelectedOn(c)'
  BY <1>1, <1>8, SelectionStays
<1>10. JobTyped'
  BY <1>3, <1>5, <1>8 DEF JobTyped, PlanBacked
<1> QED BY <1>3, <1>6, <1>8, <1>9, <1>10 DEF JobOK

(* One issue is written: what it shows was in the plan. *)
LEMMA WriteFacts ==
  ASSUME ControlInv, Write
  PROVE  /\ Min(DOMAIN job.plan) \in DOMAIN job.plan
         /\ DOMAIN job.plan \subseteq Keys
         /\ job.run \in RunIds /\ PlanBacked(job.plan, job.run[2]) /\ job.kind # "idle"
<1>1. PlanBacked(job.plan, job.run[2]) /\ job.run \in RunIds /\ job.kind # "idle"
  BY DEF ControlInv, JobOK, Write
<1>2. PICK D : D = DOMAIN job.plan /\ D # {} /\ D \subseteq Keys
  BY <1>1 DEF PlanBacked
<1>2a. D \in SUBSET (0..9)
  <2>1. \A k \in D : k \in 1..9
    BY <1>2, ConstantFacts
  <2> QED BY <2>1
<1>3. Min(DOMAIN job.plan) \in DOMAIN job.plan
  BY <1>2, <1>2a, MinIsLeast
<1> QED BY <1>1, <1>3 DEF PlanBacked

LEMMA WriteIssues ==
  ASSUME ControlInv, RunsEvolve, Write
  PROVE  IssuesOK'
<1>1. PICK k, c, v : k = Min(DOMAIN job.plan) /\ c = job.run[2] /\ v = job.plan[k]
  OBVIOUS
<1>2. k \in DOMAIN job.plan /\ k \in Keys /\ c \in Commits /\ v \in Results /\ PlanBacked(job.plan, c)
  BY <1>1, WriteFacts DEF PlanBacked
<1>3. issue' = [issue EXCEPT ![k] = [result |-> v, commit |-> c]]
  BY <1>1 DEF Write, CommitOf
<1>4. issue' \in [Keys -> [result : Results \cup {"none"}, commit : Commits \cup {0}]]
  BY <1>2, <1>3 DEF ControlInv, IssuesOK
<1>5. \A m \in Keys : issue'[m] = IF m = k THEN [result |-> v, commit |-> c] ELSE issue[m]
  BY <1>2, <1>3 DEF ControlInv, IssuesOK
<1>6. (k = 9 /\ v = "PASS" => Certified(c)) /\ (k = 7 /\ v = "PASS" => Performed(c))
  BY <1>1, <1>2 DEF PlanBacked
<1>7. issue'[9].result = "PASS" => Certified(issue'[9].commit)
  BY <1>5, <1>6, ConstantFacts DEF ControlInv, IssuesOK
<1>8. 7 \in Keys /\ issue'[7].result = "PASS" => Performed(issue'[7].commit)
  BY <1>5, <1>6 DEF ControlInv, IssuesOK
<1>9. PICK c9 : c9 = issue'[9].commit
  OBVIOUS
<1>10. PICK c7 : c7 = issue'[7].commit
  OBVIOUS
<1>11. (Certified(c9) => Certified(c9)') /\ (Performed(c7) => Performed(c7)')
  BY BackingStays
<1> QED BY <1>4, <1>7, <1>8, <1>9, <1>10, <1>11 DEF IssuesOK

LEMMA WriteControl ==
  ASSUME ControlInv, RunsEvolve, Write
  PROVE  JobOK'
<1>1. JobTyped /\ job.stage = "write" /\ runs' = runs
  BY DEF ControlInv, JobOK, Write
<1>2. PICK rest, k : k = Min(DOMAIN job.plan) /\ rest = Restrict(job.plan, DOMAIN job.plan \ {k})
  OBVIOUS
<1>3. /\ k \in DOMAIN job.plan /\ DOMAIN rest = DOMAIN job.plan \ {k}
      /\ \A m \in DOMAIN rest : rest[m] = job.plan[m]
  BY <1>2, WriteFacts DEF Restrict
<1>4. job' = IF DOMAIN rest # {} THEN [job EXCEPT !.plan = rest]
             ELSE IF job.todo = {} THEN IdleJob
             ELSE [job EXCEPT !.stage = "collect", !.plan = <<>>]
  BY <1>2 DEF Write
<1>5. ASSUME job.kind = "nightly", job'.selected = job.selected, job'.view = job.view, job'.perf = job.perf
      PROVE  \E c \in Commits : SelectedOn(c)'
  <2>1. PICK c \in Commits : SelectedOn(c)
    BY <1>5 DEF ControlInv, JobOK, Write
  <2> QED BY <1>5, <2>1, SelectionStays
<1>6. CASE DOMAIN rest # {}
  <2>1. /\ DOMAIN job' = Fields /\ job'.kind = job.kind /\ job'.stage = "write" /\ job'.run = job.run
        /\ job'.result = job.result /\ job'.todo = job.todo /\ job'.plan = rest
        /\ job'.selected = job.selected /\ job'.view = job.view /\ job'.perf = job.perf
    BY <1>1, <1>4, <1>6 DEF JobTyped, Fields
  <2>2. PICK c : c = job.run[2]
    OBVIOUS
  <2>3. PlanBacked(rest, c)
    BY <1>3, <1>6, <2>2, WriteFacts DEF PlanBacked
  <2>4. PlanBacked(rest, c)'
    BY <2>3, PlanStays
  <2>5. JobTyped'
    BY <1>1, <2>1, <2>3 DEF JobTyped, PlanBacked
  <2>6. Present(job.run) => Present(job.run)'
    BY <1>1, <2>1 DEF Present
  <2> QED BY <1>5, <2>1, <2>2, <2>4, <2>5, <2>6 DEF JobOK, ControlInv, Write
<1>7. CASE DOMAIN rest = {} /\ job.todo = {}
  <2>1. job' = IdleJob
    BY <1>4, <1>7
  <2> QED BY <2>1, IdleFacts DEF JobOK, JobTyped
<1>8. CASE DOMAIN rest = {} /\ job.todo # {}
  <2>1. /\ DOMAIN job' = Fields /\ job'.kind = job.kind /\ job'.stage = "collect" /\ job'.run = job.run
        /\ job'.result = job.result /\ job'.todo = job.todo /\ job'.plan = <<>>
        /\ job'.selected = job.selected /\ job'.view = job.view /\ job'.perf = job.perf
    BY <1>1, <1>4, <1>8 DEF JobTyped, Fields
  <2>2. job.kind = "nightly"
    BY <1>8, WriteFacts DEF ControlInv, JobOK, JobTyped
  <2>3. JobTyped'
    BY <1>1, <2>1 DEF JobTyped
  <2> QED BY <1>5, <1>8, <2>1, <2>2, <2>3 DEF JobOK
<1> QED BY <1>6, <1>7, <1>8

LEMMA NextCounters ==
  ASSUME CountersOK, [Next]_vars
  PROVE  CountersOK'
<1>1. CASE UNCHANGED <<pending, counters>>
  BY <1>1 DEF CountersOK, counters
<1>2. ASSUME NEW id \in RunIds, RunAgain(id) \/ Rerun(id) \/ Expire(id) \/ Announce(id) PROVE CountersOK'
  BY <1>2 DEF CountersOK, RunAgain, Rerun, Expire, Announce
<1>3. CASE NightlyArrives \/ Start \/ Kill
  BY <1>3 DEF CountersOK, NightlyArrives, Start, Kill, counters
<1> QED BY <1>1, <1>2, <1>3
  DEF Next, vars, Push, Complete, JobStep, Validate, CollectEvent, SelectCommonRun, CollectNightly, Write

LEMMA NextControl == ControlInv /\ [Next]_vars => ControlInv'
<1> SUFFICES ASSUME ControlInv, [Next]_vars PROVE ControlInv'
  OBVIOUS
<1>1. RunsOK' /\ RunsEvolve /\ CountersOK'
  BY NextRuns, NextCounters DEF ControlInv
<1>2. CASE UNCHANGED <<job, issue>>
  BY <1>1, <1>2, JobStays, IssuesStay DEF ControlInv
<1>3. CASE Start
  BY <1>1, <1>3, StartControl, IssuesStay DEF ControlInv, Start
<1>4. CASE Validate
  BY <1>1, <1>4, ValidateControl, IssuesStay DEF ControlInv, Validate
<1>5. CASE CollectEvent
  BY <1>1, <1>5, CollectEventControl, IssuesStay DEF ControlInv, CollectEvent
<1>6. CASE SelectCommonRun
  BY <1>1, <1>6, SelectControl, IssuesStay DEF ControlInv, SelectCommonRun
<1>7. CASE CollectNightly
  BY <1>1, <1>7, CollectNightlyControl, IssuesStay DEF ControlInv, CollectNightly
<1>8. CASE Write
  BY <1>1, <1>8, WriteControl, WriteIssues DEF ControlInv
<1>9. CASE Kill
  <2>1. job' = IdleJob /\ issue' = issue
    BY <1>9 DEF Kill
  <2>2. JobOK'
    BY <2>1, IdleFacts DEF JobOK, JobTyped
  <2> QED BY <1>1, <2>1, <2>2, IssuesStay DEF ControlInv
<1> QED BY <1>2, <1>3, <1>4, <1>5, <1>6, <1>7, <1>8, <1>9
  DEF Next, vars, Push, RunAgain, Complete, Rerun, Expire, Announce, NightlyArrives, JobStep

LEMMA ControlInvariant == Spec => []ControlInv
BY InitControl, NextControl, PTL DEF Spec

(* Every reachable state is well typed, for any runs, events and kills.    *)
THEOREM ControlTypes == Spec => []TypeOK
<1>1. ControlInv => TypeOK
  <2> SUFFICES ASSUME ControlInv PROVE TypeOK
    OBVIOUS
  <2>1. DOMAIN job.plan \subseteq Keys /\ Range(job.plan) \subseteq Results
    BY DEF ControlInv, JobOK, JobTyped, Range
  <2>2. runs \in [RunIds -> [status : {"absent", "in_progress", "completed"}, outcome : AllOutcomes,
                            past : SUBSET AllOutcomes, expired : BOOLEAN]]
    BY DEF ControlInv, RunsOK, RunStates
  <2> QED BY <2>1, <2>2 DEF TypeOK, ControlInv, RunsOK, JobOK, JobTyped, IssuesOK, CountersOK
<1> QED BY <1>1, ControlInvariant, PTL

(* QA-9 shows PASS only for a commit on which every monitored workflow has *)
(* succeeded and the contract gate recorded PASS, in whatever order events,*)
(* re-runs, expiries, nights and kills come (certification_overall).       *)
THEOREM CertificationBacked == Spec => []CertificationIsBacked
<1>1. ControlInv => CertificationIsBacked
  BY DEF ControlInv, IssuesOK, CertificationIsBacked, Certified, Succeeded, Verified
<1> QED BY <1>1, ControlInvariant, PTL

(* QA-7 shows PASS only if both performance signals were once green on the *)
(* commit (aggregate_performance_result), where QA-7 is followed.          *)
THEOREM PerformanceBacked == Spec => []PerformanceIsBacked
<1>1. ControlInv => PerformanceIsBacked
  BY DEF ControlInv, IssuesOK, PerformanceIsBacked, Performed, Succeeded
<1> QED BY <1>1, ControlInvariant, PTL

-----------------------------------------------------------------------------
(* What the nightly has gone past shows its one commit. *)
PastOn(c) ==
  \A w \in Monitored \ job.todo : \A k \in Domain(w) : k \in DOMAIN job.plan \/ issue[k].commit = c

NightOn(c) ==
  /\ \A w \in Monitored : job.selected[w][2] = c
  /\ job.stage = "write" => job.run[2] = c
  /\ PastOn(c)

NightOK ==
  job.kind = "nightly" =>
    /\ job.stage \in {"select", "collect"} => job.plan = <<>>
    /\ job.stage \in {"collect", "write"} => \E c \in Commits : NightOn(c)

LEMMA NightKnows ==
  ASSUME NightOK, job.kind = "nightly", job.stage \in {"collect", "write"}
  PROVE  \E c \in Commits : NightOn(c)
BY Zenon DEF NightOK

LEMMA WriteFunction ==
  ASSUME ControlInv, Write
  PROVE  \A m \in Keys : issue'[m] = IF m = Min(DOMAIN job.plan)
                                     THEN [result |-> job.plan[m], commit |-> job.run[2]] ELSE issue[m]
BY WriteFacts DEF Write, CommitOf, ControlInv, IssuesOK

LEMMA WriteLeaves ==
  ASSUME ControlInv, Write
  PROVE  \/ /\ DOMAIN job'.plan = DOMAIN job.plan \ {Min(DOMAIN job.plan)}
            /\ job'.kind = job.kind /\ job'.stage = "write" /\ job'.run = job.run
            /\ job'.selected = job.selected /\ job'.todo = job.todo
         \/ /\ DOMAIN job.plan = {Min(DOMAIN job.plan)} /\ job.todo # {}
            /\ job'.kind = job.kind /\ job'.stage = "collect" /\ job'.plan = <<>> /\ job'.run = job.run
            /\ job'.selected = job.selected /\ job'.todo = job.todo
         \/ DOMAIN job.plan = {Min(DOMAIN job.plan)} /\ job.todo = {} /\ job' = IdleJob
<1> DEFINE k == Min(DOMAIN job.plan)
           rest == Restrict(job.plan, DOMAIN job.plan \ {k})
<1>1. DOMAIN rest = DOMAIN job.plan \ {k} /\ k \in DOMAIN job.plan
  BY WriteFacts DEF Restrict
<1>2. DOMAIN job = Fields
  BY DEF ControlInv, JobOK, JobTyped
<1>3. job' = IF DOMAIN rest # {} THEN [job EXCEPT !.plan = rest]
             ELSE IF job.todo = {} THEN IdleJob
             ELSE [job EXCEPT !.stage = "collect", !.plan = <<>>]
  BY DEF Write
<1>4. job.stage = "write"
  BY DEF Write
<1> HIDE DEF rest, k
<1>5. CASE DOMAIN rest # {}
  <2>1. job' = [job EXCEPT !.plan = rest]
    BY <1>3, <1>5
  <2> QED BY <1>1, <1>2, <1>4, <2>1 DEF Fields, k
<1>6. CASE DOMAIN rest = {} /\ job.todo = {}
  BY <1>1, <1>3, <1>6 DEF k
<1>7. CASE DOMAIN rest = {} /\ job.todo # {}
  <2>1. job' = [job EXCEPT !.stage = "collect", !.plan = <<>>]
    BY <1>3, <1>7
  <2> QED BY <1>1, <1>2, <1>7, <2>1 DEF Fields, k
<1> QED BY <1>5, <1>6, <1>7

(* The last write of a night: everything it went past is on its commit.    *)
LEMMA WritePast ==
  ASSUME ControlInv, NightOK, Write, job.kind = "nightly", NEW c \in Commits,
         job.run[2] = c, PastOn(c)
  PROVE  \A w \in Monitored \ job.todo : \A k \in Domain(w) :
           k \in DOMAIN job.plan \ {Min(DOMAIN job.plan)} \/ issue'[k].commit = c
<1> SUFFICES ASSUME NEW w \in Monitored \ job.todo, NEW k \in Domain(w),
                    k \notin DOMAIN job.plan \ {Min(DOMAIN job.plan)}
             PROVE  issue'[k].commit = c
  OBVIOUS
<1>1. k \in Keys
  BY DomainFacts
<1>2. CASE k = Min(DOMAIN job.plan)
  <2>1. issue'[k] = [result |-> job.plan[k], commit |-> job.run[2]]
    BY <1>1, <1>2, WriteFunction
  <2> QED BY <2>1
<1>3. CASE k # Min(DOMAIN job.plan)
  <2>1. issue'[k] = issue[k]
    BY <1>1, <1>3, WriteFunction
  <2>2. k \notin DOMAIN job.plan
    BY <1>3
  <2> QED BY <2>1, <2>2 DEF PastOn
<1> QED BY <1>2, <1>3

LEMMA NextNight ==
  ASSUME ControlInv, NightOK, [Next]_vars
  PROVE  NightOK'
<1>1. CASE UNCHANGED <<job, issue>>
  BY <1>1 DEF NightOK, NightOn, PastOn
<1>2. CASE Start
  <2>1. CASE pending = NIGHTLY
    <3>1. job' = [IdleJob EXCEPT !.kind = "nightly", !.stage = "select"]
      BY <1>2, <2>1 DEF Start
    <3>2. job'.stage = "select" /\ job'.plan = <<>>
      BY <3>1, IdleFacts DEF Fields
    <3> QED BY <3>2 DEF NightOK
  <2>2. CASE pending # NIGHTLY
    <3>1. job' = [IdleJob EXCEPT !.kind = "event", !.stage = "validate", !.run = pending]
      BY <1>2, <2>2 DEF Start
    <3>2. job'.kind = "event"
      BY <3>1, IdleFacts DEF Fields
    <3> QED BY <3>2 DEF NightOK
  <2> QED BY <2>1, <2>2
<1>3. CASE Validate
  <2>1. job.kind = "event" /\ DOMAIN job = Fields
    BY <1>3 DEF Validate, ControlInv, JobOK, JobTyped
  <2>2. job'.kind # "nightly"
    BY <1>3, <2>1, IdleFacts DEF Validate, Fields
  <2> QED BY <2>2 DEF NightOK
<1>4. CASE CollectEvent
  <2>1. job.kind = "event" /\ DOMAIN job = Fields
    BY <1>4 DEF CollectEvent, ControlInv, JobOK, JobTyped
  <2>2. job'.kind = "event"
    BY <1>4, <2>1 DEF CollectEvent, Fields
  <2> QED BY <2>2 DEF NightOK
<1>5. CASE SelectCommonRun
  <2>1. CASE CommonCommits = {}
    <3>1. job' = IdleJob
      BY <1>5, <2>1 DEF SelectCommonRun
    <3> QED BY <3>1, IdleFacts DEF NightOK
  <2>2. CASE CommonCommits # {}
    <3>1. PICK view, perf :
            job' = [job EXCEPT !.stage = "collect", !.selected = select_common_run, !.view = view,
                               !.perf = perf, !.todo = Monitored]
      BY <1>5, <2>2, SelectedShareOne DEF SelectCommonRun, ControlInv
    <3>2. DOMAIN job = Fields /\ job.kind = "nightly" /\ job.plan = <<>>
      BY <1>5 DEF ControlInv, JobOK, JobTyped, SelectCommonRun, NightOK
    <3>3. /\ job'.stage = "collect" /\ job'.plan = <<>> /\ job'.todo = Monitored
          /\ job'.selected = select_common_run
      BY <3>1, <3>2 DEF Fields
    <3>4. PICK c \in Commits : \A w \in Monitored : select_common_run[w][2] = c
      BY <2>2, CommonFacts DEF ControlInv
    <3>5. PastOn(c)'
      BY <3>3 DEF PastOn
    <3>6. \A w \in Monitored : job'.selected[w][2] = c
      BY <3>3, <3>4
    <3> QED BY <3>3, <3>5, <3>6 DEF NightOK, NightOn
  <2> QED BY <2>1, <2>2
<1>6. CASE CollectNightly
  <2>1. PICK c \in Commits : NightOn(c)
    <3>1. job.kind = "nightly" /\ job.stage = "collect"
      BY <1>6 DEF CollectNightly
    <3> QED BY <3>1, NightKnows
  <2>2. PICK w, id, plan :
          /\ w = FirstOf(job.todo) /\ id = job.selected[w]
          /\ plan = domain_results(id, job.view[w], job.view, job.perf, "nightly")
    OBVIOUS
  <2>3. DOMAIN job = Fields /\ job.plan = <<>> /\ job.kind = "nightly" /\ w \in Monitored
        /\ job.todo \subseteq Monitored
    BY <1>6, <2>2, FirstOfTodo DEF ControlInv, JobOK, JobTyped, CollectNightly, NightOK
  <2>4. /\ job' = [job EXCEPT !.stage = "write", !.run = id, !.todo = @ \ {w}, !.plan = plan]
        /\ issue' = issue
    BY <1>6, <2>2 DEF CollectNightly
  <2>5. /\ job'.stage = "write" /\ job'.run = id /\ job'.todo = job.todo \ {w} /\ job'.plan = plan
        /\ job'.selected = job.selected
    BY <2>3, <2>4 DEF Fields
  <2>6. id[2] = c
    BY <2>1, <2>2, <2>3 DEF NightOn
  <2>7. DOMAIN plan = Domain(w)
    <3>1. SelectedOn(c) \/ \E d \in Commits : SelectedOn(d)
      BY <1>6 DEF ControlInv, JobOK, CollectNightly
    <3>2. WorkflowOf(id) = w
      BY <2>2, <2>3, <3>1 DEF SelectedOn, WorkflowOf
    <3> QED BY <2>2, <3>2 DEF domain_results
  <2>8. PastOn(c)'
    <3> SUFFICES ASSUME NEW x \in Monitored \ job'.todo, NEW k \in Domain(x)
                 PROVE  k \in DOMAIN job'.plan \/ issue'[k].commit = c
      BY DEF PastOn
    <3>1. CASE x = w
      BY <2>5, <2>7, <3>1
    <3>2. CASE x # w
      <4>1. x \in Monitored \ job.todo /\ DOMAIN job.plan = {}
        BY <2>3, <2>5, <3>2
      <4>2. issue[k].commit = c
        BY <2>1, <4>1 DEF NightOn, PastOn
      <4> QED BY <2>4, <4>2
    <3> QED BY <3>1, <3>2
  <2>9. \A x \in Monitored : job'.selected[x][2] = c
    BY <2>1, <2>5 DEF NightOn
  <2> QED BY <2>5, <2>6, <2>8, <2>9 DEF NightOK, NightOn
<1>7. CASE Write
  <2>1. CASE job'.kind # "nightly"
    BY <2>1 DEF NightOK
  <2>2. CASE job'.kind = "nightly"
    <3>1. job.kind = "nightly" /\ job'.selected = job.selected /\ job'.todo = job.todo
      BY <1>7, <2>2, WriteLeaves, IdleFacts
    <3>2. PICK c \in Commits : NightOn(c)
      <4>1. job.stage = "write"
        BY <1>7 DEF Write
      <4> QED BY <3>1, <4>1, NightKnows
    <3>3. \A w \in Monitored \ job.todo : \A k \in Domain(w) :
            k \in DOMAIN job.plan \ {Min(DOMAIN job.plan)} \/ issue'[k].commit = c
      BY <1>7, <3>1, <3>2, WritePast DEF NightOn, Write
    <3>4. CASE job'.stage = "write"
      <4>1. DOMAIN job'.plan = DOMAIN job.plan \ {Min(DOMAIN job.plan)} /\ job'.run = job.run
        BY <1>7, <3>4, WriteLeaves, IdleFacts
      <4>2. PastOn(c)'
        BY <3>1, <3>3, <4>1 DEF PastOn
      <4>3. job.run[2] = c
        BY <1>7, <3>2 DEF NightOn, Write
      <4> QED BY <3>1, <3>2, <3>4, <4>1, <4>2, <4>3 DEF NightOK, NightOn
    <3>5. CASE job'.stage = "collect" /\ job'.plan = <<>>
      <4>1. DOMAIN job.plan = {Min(DOMAIN job.plan)}
        BY <1>7, <3>5, WriteLeaves, IdleFacts
      <4>2. PastOn(c)'
        BY <3>1, <3>3, <4>1 DEF PastOn
      <4> QED BY <3>1, <3>2, <3>5, <4>2 DEF NightOK, NightOn
    <3> QED BY <1>7, <2>2, <3>4, <3>5, WriteLeaves, IdleFacts
  <2> QED BY <2>1, <2>2
<1>8. CASE Kill
  <2>1. job' = IdleJob
    BY <1>8 DEF Kill
  <2> QED BY <2>1, IdleFacts DEF NightOK
<1> QED BY <1>1, <1>2, <1>3, <1>4, <1>5, <1>6, <1>7, <1>8
  DEF Next, vars, Push, RunAgain, Complete, Rerun, Expire, Announce, NightlyArrives, JobStep

LEMMA NightInvariant == Spec => []NightOK
<1>1. Init => NightOK
  BY IdleFacts DEF Init, NightOK
<1> QED BY <1>1, NextNight, ControlInvariant, PTL DEF Spec

(* However main moves while it writes, a nightly reconciliation that ends  *)
(* normally leaves every issue on one commit (select_common_run).          *)
THEOREM NightOnOneCommit == Spec => NightlyLeavesOneCommit
<1>1. ASSUME ControlInv, NightOK, [Next]_vars,
             job.kind = "nightly", job.stage = "write", job'.kind = "idle", kills' = kills
      PROVE  \A k, m \in UNION {Domain(w) : w \in Monitored} : issue'[k].commit = issue'[m].commit
  <2>1. kills \in Nat /\ DOMAIN job = Fields
    BY <1>1 DEF ControlInv, CountersOK, JobOK, JobTyped
  <2>2. Write
    <3>1. job' # job
      BY <1>1
    <3>2. ~Start /\ ~Validate /\ ~CollectEvent /\ ~SelectCommonRun /\ ~CollectNightly
      BY <1>1 DEF Start, Validate, CollectEvent, SelectCommonRun, CollectNightly
    <3>3. ~Kill
      BY <1>1, <2>1 DEF Kill
    <3> QED BY <1>1, <3>1, <3>2, <3>3
          DEF Next, vars, Push, RunAgain, Complete, Rerun, Expire, Announce, NightlyArrives, JobStep
  <2>3. DOMAIN job.plan = {Min(DOMAIN job.plan)} /\ job.todo = {}
    BY <1>1, <2>2, WriteLeaves
  <2>4. PICK c \in Commits : NightOn(c)
    BY <1>1, NightKnows
  <2>5. \A w \in Monitored : \A k \in Domain(w) : issue'[k].commit = c
    BY <1>1, <2>2, <2>3, <2>4, WritePast DEF NightOn
  <2> QED BY <2>5
<1>2. ControlInv /\ NightOK /\ [Next]_vars =>
        [job.kind = "nightly" /\ job.stage = "write" /\ job'.kind = "idle" /\ kills' = kills =>
           \A k, m \in UNION {Domain(w) : w \in Monitored} : issue'[k].commit = issue'[m].commit]_vars
  BY <1>1
<1> QED BY <1>2, ControlInvariant, NightInvariant, PTL DEF Spec, NightlyLeavesOneCommit

-----------------------------------------------------------------------------
(* Nothing of main that Jira shows is newer than main, nor than the commit *)
(* of main whose run an event's job is writing; and the nightly writes     *)
(* nothing newer than main.                                                *)
ShownUpTo(c) == \A k \in Keys : issue[k].commit \in MainCommits => issue[k].commit <= c

WritingForward ==
  job.kind = "event" /\ job.stage \in {"collect", "write"} /\ job.run[2] \in MainCommits =>
    job.run[2] <= head /\ ShownUpTo(job.run[2])

NightUpTo(c) ==
  job.kind = "nightly" =>
    /\ job.stage \in {"collect", "write"} =>
         \A w \in Monitored : job.selected[w][2] \in Nat /\ job.selected[w][2] <= c
    /\ job.stage = "write" => job.run[2] \in Nat /\ job.run[2] <= c

ForwardOK == ShownUpTo(head) /\ WritingForward /\ NightUpTo(head)

LEMMA MainIsNat == \A c \in MainCommits : c \in Nat
BY ConstantFacts DEF MainCommits

LEMMA HeadFacts ==
  ASSUME RunsOK, [Next]_vars
  PROVE  head \in Nat /\ head' \in Nat /\ head <= head'
<1>1. head \in Nat
  BY ConstantFacts DEF RunsOK, MainCommits
<1>2. CASE head' = head
  BY <1>1, <1>2
<1>3. ASSUME NEW c \in Commits, Push(c) PROVE head' \in Nat /\ head <= head'
  BY <1>1, <1>3, ConstantFacts DEF Push
<1> QED BY <1>1, <1>2, <1>3
  DEF Next, vars, RunAgain, Complete, Rerun, Expire, Announce, NightlyArrives, Start,
      JobStep, Validate, CollectEvent, SelectCommonRun, CollectNightly, Write, Kill

LEMMA ShownStays ==
  ASSUME IssuesOK, issue' = issue, NEW c \in Nat, NEW d \in Nat, c <= d, ShownUpTo(c)
  PROVE  ShownUpTo(d)'
<1> SUFFICES ASSUME NEW k \in Keys, issue[k].commit \in MainCommits PROVE issue[k].commit <= d
  BY DEF ShownUpTo
<1>1. issue[k].commit \in Nat /\ issue[k].commit <= c
  BY MainIsNat DEF ShownUpTo
<1> QED BY <1>1

(* While the issues stay, it is enough that an event's job that goes on    *)
(* writing keeps its run, or takes one of main's commit.                   *)
LEMMA ForwardStays ==
  ASSUME ControlInv, ForwardOK, [Next]_vars, issue' = issue,
         \E c \in Nat : c <= head' /\ NightUpTo(c)',
         job'.kind = "event" /\ job'.stage \in {"collect", "write"} /\ job'.run[2] \in MainCommits =>
           \/ job.kind = "event" /\ job.stage \in {"collect", "write"} /\ job'.run = job.run
           \/ job'.run[2] = head
  PROVE  ForwardOK'
<1>1. head \in Nat /\ head' \in Nat /\ head <= head' /\ IssuesOK
  BY HeadFacts DEF ControlInv
<1>2. PICK h : h = head'
  OBVIOUS
<1>3. ShownUpTo(h)'
  BY <1>1, <1>2, ShownStays DEF ForwardOK
<1>4. ShownUpTo(head)'
  BY <1>2, <1>3 DEF ShownUpTo
<1>5. PICK c : c = job'.run[2]
  OBVIOUS
<1>6. ASSUME job'.kind = "event", job'.stage \in {"collect", "write"}, c \in MainCommits
      PROVE  c <= head' /\ ShownUpTo(c)'
  <2>1. CASE job.kind = "event" /\ job.stage \in {"collect", "write"} /\ job'.run = job.run
    <3>1. c \in Nat /\ c <= head /\ c <= c /\ ShownUpTo(c)
      BY <1>5, <1>6, <2>1, MainIsNat DEF ForwardOK, WritingForward, ShownUpTo
    <3> QED BY <1>1, <3>1, ShownStays
  <2>2. CASE c = head
    BY <1>1, <1>2, <1>3, <1>4, <2>2, ShownStays DEF ForwardOK
  <2> QED BY <1>5, <1>6, <2>1, <2>2
<1>7. NightUpTo(head)'
  BY <1>1 DEF NightUpTo
<1> QED BY <1>4, <1>5, <1>6, <1>7 DEF ForwardOK, WritingForward, ShownUpTo

LEMMA WriteForward ==
  ASSUME ControlInv, ForwardOK, Write
  PROVE  ForwardOK'
<1>1. PICK c, k : c = job.run[2] /\ k = Min(DOMAIN job.plan)
  OBVIOUS
<1>2. /\ head' = head /\ job.stage = "write" /\ job.kind \in {"event", "nightly"}
      /\ c \in MainCommits => c \in Nat /\ c <= head
      /\ c \in MainCommits /\ job.kind = "event" => ShownUpTo(c)
  BY <1>1, MainIsNat DEF Write, ControlInv, JobOK, JobTyped, ForwardOK, WritingForward, NightUpTo, ShownUpTo
<1>3. ASSUME NEW m \in Keys, issue'[m].commit \in MainCommits
      PROVE  /\ issue'[m].commit <= head
             /\ c \in MainCommits /\ job.kind = "event" => issue'[m].commit <= c
  <2>1. CASE m = k
    <3>1. issue'[m] = [result |-> job.plan[m], commit |-> c]
      BY <1>1, <2>1, WriteFunction
    <3> QED BY <1>2, <1>3, <3>1
  <2>2. CASE m # k
    <3>1. issue'[m] = issue[m]
      BY <1>1, <2>2, WriteFunction
    <3> QED BY <1>2, <1>3, <3>1 DEF ForwardOK, ShownUpTo
  <2> QED BY <2>1, <2>2
<1>4. \/ job'.kind = "idle"
      \/ job'.kind = job.kind /\ job'.run = job.run /\ job'.selected = job.selected
  BY WriteLeaves, IdleFacts
<1>5. NightUpTo(head)'
  BY <1>2, <1>4 DEF ForwardOK, NightUpTo
<1> QED BY <1>1, <1>2, <1>3, <1>4, <1>5 DEF ForwardOK, WritingForward, ShownUpTo

LEMMA NextForward ==
  ASSUME ControlInv, ForwardOK, [Next]_vars
  PROVE  ForwardOK'
<1>1. DOMAIN job = Fields /\ head \in Nat /\ head' \in Nat /\ head <= head'
  BY HeadFacts DEF ControlInv, JobOK, JobTyped
<1>2. ASSUME NightUpTo(head)' PROVE \E c \in Nat : c <= head' /\ NightUpTo(c)'
  BY <1>1, <1>2 DEF NightUpTo
<1>3. ASSUME job'.kind # "nightly" PROVE \E c \in Nat : c <= head' /\ NightUpTo(c)'
  BY <1>1, <1>3 DEF NightUpTo
<1>4. CASE job' = job /\ issue' = issue
  <2>1. NightUpTo(head)'
    BY <1>1, <1>4 DEF ForwardOK, NightUpTo
  <2> QED BY <1>2, <1>4, <2>1, ForwardStays
<1>5. CASE Start
  <2>1. issue' = issue /\ job'.stage \in {"select", "validate"}
    BY <1>5, IdleFacts DEF Start, Fields
  <2>2. NightUpTo(head)'
    BY <2>1 DEF NightUpTo
  <2> QED BY <1>2, <2>1, <2>2, ForwardStays
<1>6. CASE Validate
  <2>1. issue' = issue /\ job.kind = "event"
    BY <1>6 DEF Validate, ControlInv, JobOK
  <2>2. CASE job' = IdleJob
    BY <1>3, <2>1, <2>2, IdleFacts, ForwardStays
  <2>3. CASE /\ ~IsStale(job.run)
             /\ job' = [job EXCEPT !.stage = "collect", !.result = ResultOf(job.run)]
    <3>1. job'.kind = "event" /\ job'.run = job.run
      BY <1>1, <2>1, <2>3 DEF Fields
    <3>2. job.run[2] \in MainCommits => job.run[2] = head
      BY <2>3 DEF IsStale, CommitOf
    <3> QED BY <1>3, <2>1, <3>1, <3>2, ForwardStays
  <2> QED BY <1>6, <2>2, <2>3 DEF Validate
<1>7. CASE CollectEvent
  <2>1. /\ issue' = issue /\ job.kind = "event" /\ job.stage = "collect"
        /\ \E plan : job' = [job EXCEPT !.stage = "write", !.plan = plan]
    BY <1>7 DEF CollectEvent
  <2>2. job'.kind = "event" /\ job'.run = job.run
    BY <1>1, <2>1 DEF Fields
  <2> QED BY <1>3, <2>1, <2>2, ForwardStays
<1>8. CASE SelectCommonRun
  <2>1. issue' = issue /\ job.kind = "nightly" /\ head' = head
    BY <1>8 DEF SelectCommonRun, ControlInv, JobOK
  <2>2. CASE CommonCommits = {}
    <3>1. job' = IdleJob
      BY <1>8, <2>2 DEF SelectCommonRun
    <3> QED BY <1>3, <2>1, <3>1, IdleFacts, ForwardStays
  <2>3. CASE CommonCommits # {}
    <3>1. PICK view, perf :
            job' = [job EXCEPT !.stage = "collect", !.selected = select_common_run, !.view = view,
                               !.perf = perf, !.todo = Monitored]
      BY <1>8, <2>3, SelectedShareOne DEF SelectCommonRun, ControlInv
    <3>2. job'.kind = "nightly" /\ job'.stage = "collect" /\ job'.selected = select_common_run
      BY <1>1, <2>1, <3>1 DEF Fields
    <3>3. Max(CommonCommits) \in Nat /\ Max(CommonCommits) <= head
          /\ \A w \in Monitored : select_common_run[w][2] = Max(CommonCommits)
      BY <2>3, CommonFacts, ConstantFacts DEF ControlInv
    <3>4. NightUpTo(head)'
      BY <2>1, <3>2, <3>3 DEF NightUpTo
    <3> QED BY <1>2, <2>1, <3>2, <3>4, ForwardStays
  <2> QED BY <2>2, <2>3
<1>9. CASE CollectNightly
  <2>1. PICK w, id : w = FirstOf(job.todo) /\ id = job.selected[w]
    OBVIOUS
  <2>2. /\ issue' = issue /\ head' = head /\ job.kind = "nightly" /\ job.stage = "collect"
        /\ \E plan : job' = [job EXCEPT !.stage = "write", !.run = id, !.todo = @ \ {w}, !.plan = plan]
    BY <1>9, <2>1 DEF CollectNightly
  <2>3. job'.kind = "nightly" /\ job'.stage = "write" /\ job'.run = id /\ job'.selected = job.selected
    BY <1>1, <2>2 DEF Fields
  <2>4. w \in Monitored
    BY <2>1, <2>2, FirstOfTodo DEF ControlInv, JobOK, JobTyped
  <2>5. NightUpTo(head)'
    BY <2>1, <2>2, <2>3, <2>4 DEF ForwardOK, NightUpTo
  <2> QED BY <1>2, <2>2, <2>3, <2>5, ForwardStays
<1>10. CASE Write
  BY <1>10, WriteForward
<1>11. CASE Kill
  <2>1. job' = IdleJob /\ issue' = issue
    BY <1>11 DEF Kill
  <2> QED BY <1>3, <2>1, IdleFacts, ForwardStays
<1> QED BY <1>4, <1>5, <1>6, <1>7, <1>8, <1>9, <1>10, <1>11
  DEF Next, vars, Push, RunAgain, Complete, Rerun, Expire, Announce, NightlyArrives, JobStep

LEMMA ForwardInvariant == Spec => []ForwardOK
<1>1. Init => ForwardOK
  <2> SUFFICES ASSUME Init PROVE ForwardOK
    OBVIOUS
  <2>1. \A k \in Keys : issue[k].commit = 0
    BY DEF Init
  <2>2. ShownUpTo(head)
    BY <2>1 DEF Init, ShownUpTo
  <2> QED BY <2>2, IdleFacts DEF Init, ForwardOK, WritingForward, NightUpTo
<1>2. ControlInv /\ ForwardOK /\ [Next]_vars => ForwardOK'
  BY NextForward
<1> QED BY <1>1, <1>2, ControlInvariant, PTL DEF Spec

(* No event takes an issue back to an older commit of main, even when main *)
(* moves after the stale check, and whatever the nightly wrote before      *)
(* (validate workflow run).                                                *)
THEOREM MainForward == Spec => MainNeverMovesBack
<1>1. ASSUME ControlInv, ForwardOK, [Next]_vars, job.kind = "event", NEW k \in Keys,
             issue[k].commit \in MainCommits, issue'[k].commit \in MainCommits
      PROVE  issue'[k].commit >= issue[k].commit
  <2>1. issue[k].commit \in Nat
    BY <1>1, MainIsNat
  <2>2. CASE issue' = issue
    BY <2>1, <2>2
  <2>3. CASE Write
    <3>1. CASE k = Min(DOMAIN job.plan)
      <4>1. issue'[k] = [result |-> job.plan[k], commit |-> job.run[2]]
        BY <1>1, <2>3, <3>1, WriteFunction
      <4>2. ShownUpTo(job.run[2])
        BY <1>1, <2>3, <4>1 DEF Write, ForwardOK, WritingForward
      <4>3. job.run[2] \in Nat
        BY <1>1, <4>1, MainIsNat
      <4> QED BY <1>1, <2>1, <4>1, <4>2, <4>3 DEF ShownUpTo
    <3>2. CASE k # Min(DOMAIN job.plan)
      <4>1. issue'[k] = issue[k]
        BY <1>1, <2>3, <3>2, WriteFunction
      <4> QED BY <2>1, <4>1
    <3> QED BY <3>1, <3>2
  <2> QED BY <1>1, <2>2, <2>3
        DEF Next, vars, Push, RunAgain, Complete, Rerun, Expire, Announce, NightlyArrives, Start,
            JobStep, Validate, CollectEvent, SelectCommonRun, CollectNightly, Kill
<1>2. ASSUME ControlInv, ForwardOK, [Next]_vars
      PROVE  job.kind = "event" =>
               \A k \in Keys : issue[k].commit \in MainCommits /\ issue'[k].commit \in MainCommits
                 => issue'[k].commit >= issue[k].commit
  BY <1>1, <1>2
<1>3. ControlInv /\ ForwardOK /\ [Next]_vars =>
        [job.kind = "event" => \A k \in Keys :
           /\ issue[k].commit \in MainCommits /\ issue'[k].commit \in MainCommits
           => issue'[k].commit >= issue[k].commit]_issue
  BY <1>2
<1>4. Spec => []ForwardOK
  BY ForwardInvariant
<1> QED BY <1>3, <1>4, ControlInvariant, PTL DEF Spec, MainNeverMovesBack
=============================================================================
