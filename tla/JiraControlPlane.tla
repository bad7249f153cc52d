--------------------------- MODULE JiraControlPlane ---------------------------
(***************************************************************************)
(* How GitHub evidence reaches Jira: commits and their workflow runs, the  *)
(* concurrency group jira-qa-sync with its single pending entry, the       *)
(* event-driven sync (jira-qa-automation.yml calling sync_jira_ci.py) and  *)
(* the nightly reconciliation (reconcile_jira.py calling it five times).   *)
(*                                                                         *)
(* JiraSync shows what one sync does request by request; here a sync       *)
(* writes one issue per step, and an issue is the result it shows and the  *)
(* commit it shows it for.  The group runs one job at a time, so one job   *)
(* variable is enough.                                                     *)
(***************************************************************************)
EXTENDS SaqaResults, Integers, FiniteSetsExt, Functions

CONSTANTS
  Monitored,        \* MONITORED_WORKFLOWS, or a part of them
  Keys,             \* managed issues QA-n that are followed
  Commits,          \* 1..n, in the order they are pushed
  BranchCommits,    \* those of saqa/** branches; the others are main's
  MaxRunsPerCommit, \* bound: runs of one workflow on one commit
  JobOutcomes,      \* what the jobs of a CI run may conclude
  ContractOutcomes, \* what the contract gate may record: evidence statuses
  OtherConclusions, \* what the runs of the other workflows may conclude
  Nightly,          \* the nightly reconciliation is scheduled
  MaxAnnouncements, \* bound: events delivered, redelivered or dispatched
  MaxReruns,        \* bound: re-runs of completed runs, and extra runs
  MaxExpiries,      \* bound: contract artifacts that expire
  MaxKills          \* bound: jobs of the group killed

WORKFLOWS == {"CI", "Contract", "Accessibility", "Mobile", "k6"}

(* The jobs of a CI run that some pattern is meant for. *)
JobNames == {"browser", "e2e", "dependency", "authorization", "docker",
             "performance", "aggregation"}

RunIds == Monitored \X Commits \X (1..MaxRunsPerCommit)
WorkflowOf(id) == id[1]
CommitOf(id)   == id[2]
MainCommits == Commits \ BranchCommits
NoRun == <<>>
NIGHTLY == <<"nightly">>

ASSUME ConstantsAssumption ==
  /\ {"CI", "Contract"} \subseteq Monitored /\ Monitored \subseteq WORKFLOWS
  /\ Keys \subseteq 1..9 /\ 9 \in Keys
  /\ 1 \in Commits /\ Commits \subseteq Nat /\ Commits = 1..Max(Commits)
  /\ BranchCommits \subseteq Commits \ {1}
  /\ MaxRunsPerCommit \in Nat \ {0}
  /\ JobOutcomes \subseteq [JobNames -> Conclusions]
  /\ ContractOutcomes \subseteq {"PASS", "FAIL", "BLOCKED"}
  /\ OtherConclusions \subseteq Conclusions \ {""}
  /\ Nightly \in BOOLEAN
  /\ {MaxAnnouncements, MaxReruns, MaxExpiries, MaxKills} \subseteq Nat

VARIABLES
  head,      \* the commit of main
  runs,      \* runs[id]: status, outcome, outcomes of earlier attempts, artifact expired
  pending,   \* the entry waiting for the group: a run, NIGHTLY or NoRun
  job,       \* the job that holds the group
  issue,     \* Jira: the result each issue shows and its commit (0: none)
  announcements, reruns, expiries, kills

counters == <<announcements, reruns, expiries, kills>>
vars == <<head, runs, pending, job, issue, counters>>

-----------------------------------------------------------------------------
(* Outcomes of runs.  The contract gate exits 0 only after recording PASS, *)
(* and its evidence is uploaded whatever it records.                       *)
AllJobs(conclusion) == [name \in JobNames |-> conclusion]
Plain(conclusion) ==
  [conclusion |-> conclusion, jobs |-> AllJobs(conclusion), evidence |-> "none"]
NoOutcome == Plain("")
Cancelled == Plain("cancelled")

CIConclusion(jobs) ==
  IF Range(jobs) = {"success"} THEN "success"
  ELSE IF "failure" \in Range(jobs) THEN "failure" ELSE "cancelled"

Outcomes(w) ==
  CASE w = "CI" ->
         {[conclusion |-> CIConclusion(jobs), jobs |-> jobs, evidence |-> "none"] :
            jobs \in JobOutcomes}
    [] w = "Contract" ->
         {[Plain(IF e = "PASS" THEN "success" ELSE "failure") EXCEPT !.evidence = e] :
            e \in ContractOutcomes}
    [] OTHER -> {Plain(c) : c \in OtherConclusions}

AllOutcomes == (UNION {Outcomes(w) : w \in Monitored}) \cup {NoOutcome, Cancelled}

Absent == [status |-> "absent", outcome |-> NoOutcome, past |-> {}, expired |-> FALSE]
Started == [Absent EXCEPT !.status = "in_progress"]

IdleJob == [kind |-> "idle", stage |-> "idle", run |-> NoRun, result |-> "none",
            view |-> <<>>, perf |-> {}, selected |-> <<>>, todo |-> {}, plan |-> <<>>]

TypeOK ==
  /\ head \in MainCommits
  /\ runs \in [RunIds -> [status : {"absent", "in_progress", "completed"},
                          outcome : AllOutcomes, past : SUBSET AllOutcomes,
                          expired : BOOLEAN]]
  /\ pending \in RunIds \cup {NoRun, NIGHTLY}
  /\ job.kind \in {"idle", "event", "nightly"}
  /\ job.stage \in {"idle", "validate", "select", "collect", "write"}
  /\ job.run \in RunIds \cup {NoRun}
  /\ job.result \in Results \cup {"none"}
  /\ job.todo \subseteq Monitored
  /\ DOMAIN job.plan \subseteq Keys /\ Range(job.plan) \subseteq Results
  /\ issue \in [Keys -> [result : Results \cup {"none"}, commit : Commits \cup {0}]]
  /\ announcements \in Nat /\ reruns \in Nat /\ expiries \in Nat /\ kills \in Nat

Init ==
  /\ head = 1
  /\ runs = [id \in RunIds |-> IF CommitOf(id) = 1 /\ id[3] = 1 THEN Started ELSE Absent]
  /\ pending = NoRun
  /\ job = IdleJob
  /\ issue = [k \in Keys |-> [result |-> "none", commit |-> 0]]
  /\ announcements = 0 /\ reruns = 0 /\ expiries = 0 /\ kills = 0

-----------------------------------------------------------------------------
(***************************************************************************)
(* GitHub.                                                                 *)
(***************************************************************************)

(* cancel-in-progress: a run that starts cancels the run of its workflow   *)
(* on its ref.  The weekly CI run has a group of its own.                  *)
Scheduled(id) == WorkflowOf(id) = "CI" /\ id[3] > 1
SameGroup(id, other) ==
  /\ id # other /\ WorkflowOf(id) = WorkflowOf(other)
  /\ {CommitOf(id), CommitOf(other)} \subseteq MainCommits
  /\ ~Scheduled(id) /\ ~Scheduled(other)

Fresh(id) == [Started EXCEPT !.past =
                IF runs[id].status = "absent" THEN {} ELSE runs[id].past \cup {runs[id].outcome}]
StartRuns(ids) ==
  runs' = [id \in RunIds |->
    IF id \in ids THEN Fresh(id)
    ELSE IF runs[id].status = "in_progress" /\ \E other \in ids : SameGroup(id, other)
         THEN [runs[id] EXCEPT !.status = "completed", !.outcome = Cancelled]
         ELSE runs[id]]

(* A push starts every workflow on the commit. *)
Push(c) ==
  /\ runs[<<"CI", c, 1>>].status = "absent"
  /\ IF c \in MainCommits
     THEN /\ c > head /\ \A m \in MainCommits : m > head => c <= m
          /\ head' = c
     ELSE UNCHANGED head
  /\ StartRuns({id \in RunIds : CommitOf(id) = c /\ id[3] = 1})
  /\ UNCHANGED <<pending, job, issue, counters>>

(* The weekly schedule or a manual dispatch runs a workflow on main again. *)
RunAgain(id) ==
  /\ reruns < MaxReruns
  /\ CommitOf(id) = head /\ id[3] > 1
  /\ WorkflowOf(id) \in {"CI", "Contract", "k6"}
  /\ runs[id].status = "absent"
  /\ runs[[id EXCEPT ![3] = @ - 1]].status # "absent"
  /\ StartRuns({id})
  /\ reruns' = reruns + 1
  /\ UNCHANGED <<head, pending, job, issue, announcements, expiries, kills>>

Complete(id) ==
  /\ runs[id].status = "in_progress"
  /\ \E o \in Outcomes(WorkflowOf(id)) :
       runs' = [runs EXCEPT ![id].status = "completed", ![id].outcome = o]
  /\ UNCHANGED <<head, pending, job, issue, counters>>

(* A re-run keeps the run id; its earlier attempt is superseded. *)
Rerun(id) ==
  /\ reruns < MaxReruns
  /\ runs[id].status = "completed"
  /\ StartRuns({id})
  /\ reruns' = reruns + 1
  /\ UNCHANGED <<head, pending, job, issue, announcements, expiries, kills>>

(* retention-days of saqa-contract-evidence. *)
Expire(id) ==
  /\ expiries < MaxExpiries
  /\ WorkflowOf(id) = "Contract" /\ runs[id].status = "completed" /\ ~runs[id].expired
  /\ runs' = [runs EXCEPT ![id].expired = TRUE]
  /\ expiries' = expiries + 1
  /\ UNCHANGED <<head, pending, job, issue, announcements, reruns, kills>>

(* A workflow_run event, its redelivery or a manual dispatch: the new      *)
(* entry takes the place of the one that waits.  Not announcing a run is   *)
(* the loss of its event.                                                  *)
Announce(id) ==
  /\ announcements < MaxAnnouncements
  /\ runs[id].status = "completed"
  /\ pending' = id
  /\ announcements' = announcements + 1
  /\ UNCHANGED <<head, runs, job, issue, reruns, expiries, kills>>

NightlyArrives ==
  /\ Nightly
  /\ pending # NIGHTLY
  /\ pending' = NIGHTLY
  /\ UNCHANGED <<head, runs, job, issue, counters>>

-----------------------------------------------------------------------------
(***************************************************************************)
(* What a sync reads and what it makes of it.                              *)
(***************************************************************************)
ResultOf(id) == classify_run(runs[id].status, runs[id].outcome.conclusion)

(* Run ids grow: the latest run of w on c has the largest. *)
RunsOn(w, c) == {id \in RunIds : id[1] = w /\ id[2] = c /\ runs[id].status # "absent"}
Latest(ids) == CHOOSE id \in ids : \A other \in ids : other[3] <= id[3]

current_results(c) ==
  [w \in Monitored |-> IF RunsOn(w, c) = {} THEN "none" ELSE ResultOf(Latest(RunsOn(w, c)))]

(* dict.get(name, default) *)
OrElse(value, default) == IF value = "none" THEN default ELSE value

(* The jobs whose name contains a pattern of the issue.  QA-5's pattern    *)
(* "Dependency and secret hygiene" is in no job name: the job is called    *)
(* "Dependency, SBOM, and secret hygiene".                                 *)
MatchedBy(k) ==
  CASE k = 2 -> {"e2e"}
    [] k = 3 -> {"browser", "e2e"}
    [] k = 5 -> {"authorization", "docker"}
    [] k = 7 -> {"performance"}
    [] k = 8 -> {"aggregation"}

JobsResult(id, k) ==
  job_result({[name |-> name, status |-> runs[id].status,
               conclusion |-> runs[id].outcome.jobs[name]] : name \in MatchedBy(k)})

(* QA-7's two signals on commit c, from the latest runs there. *)
performance_records(c) ==
  LET ci == RunsOn("CI", c)
      k6 == IF "k6" \in Monitored THEN RunsOn("k6", c) ELSE {}
  IN  {IF ci = {} THEN "UNVERIFIED" ELSE JobsResult(Latest(ci), 7),
       IF k6 = {} THEN "UNVERIFIED" ELSE ResultOf(Latest(k6))}

(* contract_evidence_result on the artifact of a contract run, if any. *)
contract_evidence_result(id) ==
  IF runs[id].expired \/ runs[id].outcome.evidence = "none" THEN "UNVERIFIED"
  ELSE runs[id].outcome.evidence

(* Mutant: without an evidence file the contract is never verified. *)
ContractResultEvidenceOnly(id, view, kind) ==
  IF WorkflowOf(id) = "Contract" THEN contract_evidence_result(id) ELSE "UNVERIFIED"

(* The contract result of a sync of run id.  The event-driven workflow     *)
(* always names an evidence file and fills it only for a contract run; the *)
(* nightly names one only for the contract run, and otherwise the run's    *)
(* conclusion stands.                                                      *)
ContractResult(id, view, kind) ==
  CASE WorkflowOf(id) = "Contract" -> contract_evidence_result(id)
    [] WorkflowOf(id) # "Contract" /\ kind = "event" -> "UNVERIFIED"
    [] OTHER -> OrElse(view["Contract"], "UNVERIFIED")

Domain(w) ==
  Keys \cap (CASE w = "CI" -> 1..9 \ {6}
               [] w = "Contract" -> {1, 4, 9}
               [] w = "Accessibility" -> {1, 3, 6, 9}
               [] w = "k6" -> {1, 7, 9}
               [] w = "Mobile" -> {1, 3, 9})

(* domain_results of main(): result is the run's own, view the results of  *)
(* the workflows on its commit, perf QA-7's signals.                       *)
domain_results(id, result, view, perf, kind) ==
  LET w == WorkflowOf(id)
      contract == ContractResult(id, view, kind)
  IN  [k \in Domain(w) |->
        CASE k = 1 -> "PASS"
          [] k = 4 -> api_overall(OrElse(view["CI"], "PENDING"), contract)
          [] k = 7 -> aggregate_performance_result(perf)
          [] k = 9 -> certification_overall({OrElse(view[m], "PENDING") : m \in Monitored},
                                            view["Contract"], contract)
          [] k \in {2, 5, 8} -> JobsResult(id, k)
          [] k \in {3, 6} -> IF w = "CI" THEN JobsResult(id, k) ELSE result]

-----------------------------------------------------------------------------
(***************************************************************************)
(* The jobs of the group.                                                  *)
(***************************************************************************)
Start ==
  /\ job.kind = "idle" /\ pending # NoRun
  /\ pending' = NoRun
  /\ job' = IF pending = NIGHTLY
            THEN [IdleJob EXCEPT !.kind = "nightly", !.stage = "select"]
            ELSE [IdleJob EXCEPT !.kind = "event", !.stage = "validate", !.run = pending]
  /\ UNCHANGED <<head, runs, issue, counters>>

(* Mutant: no stale check. *)
IsStaleNever(id) == FALSE

(* A run of main for a commit main has left. *)
IsStale(id) == CommitOf(id) \in MainCommits /\ CommitOf(id) # head

(* "Resolve and validate workflow run": the run's result is read here. *)
Validate ==
  /\ job.stage = "validate"
  /\ IF runs[job.run].status # "completed" \/ IsStale(job.run)
     THEN job' = IdleJob
     ELSE job' = [job EXCEPT !.stage = "collect", !.result = ResultOf(job.run)]
  /\ UNCHANGED <<head, runs, pending, issue, counters>>

(* The collecting steps of the event-driven workflow, and main() up to its *)
(* first request to Jira.                                                  *)
CollectEvent ==
  /\ job.kind = "event" /\ job.stage = "collect"
  /\ LET c == CommitOf(job.run) IN
     job' = [job EXCEPT !.stage = "write",
                        !.plan = domain_results(job.run, job.result, current_results(c),
                                                performance_records(c), "event")]
  /\ UNCHANGED <<head, runs, pending, issue, counters>>

(* select_common_run: the newest commit of main on which every workflow    *)
(* has a completed run, and the latest completed run of each there.        *)
CompletedOn(w, c) == {id \in RunsOn(w, c) : runs[id].status = "completed"}
CommonCommits == {c \in MainCommits : c <= head /\ \A w \in Monitored : CompletedOn(w, c) # {}}

(* Mutant: the oldest common commit. *)
select_oldest == [w \in Monitored |-> Latest(CompletedOn(w, Min(CommonCommits)))]

select_common_run == [w \in Monitored |-> Latest(CompletedOn(w, Max(CommonCommits)))]

(* len(shas) = 1, checked again before anything is written. *)
ShareOneCommit(selected) == Cardinality({CommitOf(selected[w]) : w \in Monitored}) = 1

SelectCommonRun ==
  /\ job.stage = "select"
  /\ IF CommonCommits = {} \/ ~ShareOneCommit(select_common_run)
     THEN job' = IdleJob
     ELSE LET selected == select_common_run IN
          job' = [job EXCEPT
            !.stage = "collect",
            !.selected = selected,
            !.view = [w \in Monitored |-> ResultOf(selected[w])],
            !.perf = {JobsResult(selected["CI"], 7),
                      IF "k6" \in Monitored THEN ResultOf(selected["k6"]) ELSE "UNVERIFIED"},
            !.todo = Monitored]
  /\ UNCHANGED <<head, runs, pending, issue, counters>>

(* One round of the nightly loop: the jobs and the contract artifact are   *)
(* read now, the rest was read when the runs were selected.                *)
Order == <<"CI", "Contract", "Accessibility", "Mobile", "k6">>
FirstOf(todo) == Order[Min({i \in 1..5 : Order[i] \in todo})]

\* Mutant: a round looks up its workflow's newest completed run once more.
CollectNewest ==
  /\ job.kind = "nightly" /\ job.stage = "collect"
  /\ LET w == FirstOf(job.todo)
         c == Max({m \in MainCommits : m <= head /\ CompletedOn(w, m) # {}})
         id == Latest(CompletedOn(w, c))
     IN  job' = [job EXCEPT !.stage = "write", !.run = id, !.todo = @ \ {w},
                   !.plan = domain_results(id, job.view[w], job.view, job.perf, "nightly")]
  /\ UNCHANGED <<head, runs, pending, issue, counters>>

CollectNightly ==
  /\ job.kind = "nightly" /\ job.stage = "collect"
  /\ LET w == FirstOf(job.todo)
         id == job.selected[w]
     IN  job' = [job EXCEPT !.stage = "write", !.run = id, !.todo = @ \ {w},
                   !.plan = domain_results(id, job.view[w], job.view, job.perf, "nightly")]
  /\ UNCHANGED <<head, runs, pending, issue, counters>>

(* One iteration of the loop of main(): sync_issue.  After the last one    *)
(* the event job ends, the nightly goes on to its next workflow.           *)
Write ==
  /\ job.stage = "write"
  /\ LET k == Min(DOMAIN job.plan)
         rest == Restrict(job.plan, DOMAIN job.plan \ {k})
     IN  /\ issue' = [issue EXCEPT ![k] = [result |-> job.plan[k], commit |-> CommitOf(job.run)]]
         /\ job' = IF DOMAIN rest # {} THEN [job EXCEPT !.plan = rest]
                   ELSE IF job.todo = {} THEN IdleJob
                   ELSE [job EXCEPT !.stage = "collect", !.plan = <<>>]
  /\ UNCHANGED <<head, runs, pending, counters>>

(* Timeout, lost runner, HTTP error, failed script: the job ends.          *)
Kill ==
  /\ job.kind # "idle"
  /\ kills < MaxKills
  /\ kills' = kills + 1
  /\ job' = IdleJob
  /\ UNCHANGED <<head, runs, pending, issue, announcements, reruns, expiries>>

JobStep == Validate \/ CollectEvent \/ SelectCommonRun \/ CollectNightly \/ Write

Next ==
  \/ \E c \in Commits : Push(c)
  \/ \E id \in RunIds :
       RunAgain(id) \/ Complete(id) \/ Rerun(id) \/ Expire(id) \/ Announce(id)
  \/ NightlyArrives
  \/ Start \/ JobStep \/ Kill

Spec == Init /\ [][Next]_vars

(* Runs end (timeout-minutes), the schedule fires every day, the group's   *)
(* next job starts and goes on.  Events may all be lost.                   *)
FairSpec ==
  /\ Spec
  /\ \A id \in RunIds : WF_vars(Complete(id))
  /\ WF_vars(NightlyArrives)
  /\ WF_vars(Start)
  /\ WF_vars(JobStep)

-----------------------------------------------------------------------------
(***************************************************************************)
(* Properties.                                                             *)
(***************************************************************************)

(* Everything that a run of w on commit c has ever concluded. *)
Concluded(w, c) ==
  UNION {runs[id].past \cup {runs[id].outcome} : id \in RunsOn(w, c)}

(* QA-9 shows PASS only for a commit on which every monitored workflow     *)
(* succeeded and the contract gate recorded PASS, whatever the order of    *)
(* events, re-runs and expiries (certification_overall, fail-closed).      *)
CertificationIsBacked ==
  issue[9].result = "PASS" =>
    /\ \A w \in Monitored :
         \E o \in Concluded(w, issue[9].commit) : o.conclusion = "success"
    /\ \E o \in Concluded("Contract", issue[9].commit) : o.evidence = "PASS"

(* QA-7 shows PASS only if both performance signals were once green on the *)
(* commit (aggregate_performance_result over exact-SHA evidence).          *)
PerformanceIsBacked ==
  7 \in Keys /\ issue[7].result = "PASS" =>
    /\ \E o \in Concluded("CI", issue[7].commit) : o.jobs["performance"] = "success"
    /\ \E o \in Concluded("k6", issue[7].commit) : o.conclusion = "success"

(* An event never replaces the results of a commit of main by those of an  *)
(* older one, however main moves and the nightly writes in between (the    *)
(* stale check, made before the sync starts writing).                      *)
MainNeverMovesBack ==
  [][job.kind = "event" => \A k \in Keys :
       /\ issue[k].commit \in MainCommits /\ issue'[k].commit \in MainCommits
       => issue'[k].commit >= issue[k].commit]_issue

(* A nightly reconciliation that ends normally leaves every issue on one   *)
(* commit: the selection is one common commit, not one per workflow.       *)
NightlyLeavesOneCommit ==
  [][job.kind = "nightly" /\ job.stage = "write" /\ job'.kind = "idle" /\ kills' = kills =>
       \A k, m \in UNION {Domain(w) : w \in Monitored} :
          issue'[k].commit = issue'[m].commit]_vars

(* After a nightly reconciliation QA-9 is not PASS over a QA-4 that is not *)
(* (the contract evidence is downloaded, the conclusion is not enough).    *)
NightlyCertificationNeedsApi ==
  [][job.kind = "nightly" /\ job.stage = "write" /\ job'.kind = "idle" /\ kills' = kills =>
       (issue'[9].result = "PASS" => issue'[4].result = "PASS")]_vars

(* QA-5 shows PASS only if a CI run of the commit passed its dependency,   *)
(* SBOM and secret job.                                                    *)
SecurityIsBacked ==
  issue[5].result = "PASS" =>
    \E o \in Concluded("CI", issue[5].commit) : o.jobs["dependency"] = "success"

(* Once main stops moving, every issue comes to show main's commit, even   *)
(* if every event was lost and syncs were killed half way (nightly).       *)
MissedEventsAreRepaired == <>[](\A k \in Keys : issue[k].commit = head)

(* A commit of main that stays green becomes certified and stays so.       *)
AllGreen ==
  /\ \A w \in Monitored : current_results(head)[w] = "PASS"
  /\ ~runs[Latest(RunsOn("Contract", head))].expired
GreenMainIsCertified ==
  <>[]AllGreen => <>[](issue[9] = [result |-> "PASS", commit |-> head])
=============================================================================
