------------------------------- MODULE JiraSync -------------------------------
(***************************************************************************)
(* The Jira synchronization engine (scripts/sync_jira_ci.py on top of      *)
(* src/saqa/jira.py) run by the jobs of the GitHub concurrency group       *)
(* "jira-qa-sync".  One action per HTTP request that reads or writes Jira; *)
(* a job may be killed between any two of them, and any delivery may be    *)
(* repeated.                                                               *)
(*                                                                         *)
(* The evidence of a run is abstracted to the domain results it implies;   *)
(* how they are computed is the subject of JiraControlPlane.  Issue QA-n   *)
(* is the number n: every domain_results literal of main() lists its keys  *)
(* in ascending order, so "next key" is "smallest key left".               *)
(***************************************************************************)
EXTENDS SaqaResults, Naturals

CONSTANTS
  Jobs,           \* workflow jobs that may hold a runner
  Runs,           \* completed CI workflow runs, by immutable run id
  NoRun,          \* "no run": an empty pending slot, an idle job
  Keys,           \* managed issues QA-n that are followed
  DomainOf,       \* DomainOf[r]: the issues a sync of run r writes
  Evidence,       \* the maps [Keys -> Results] the evidence of a run may imply
  Statuses,       \* Jira statuses of a managed issue
  Available,      \* Available[s]: destinations Jira offers from status s
  InitialStatus,  \* status of a freshly bootstrapped issue
  LargeProject,   \* more issues than find_project_issues returns (max_results)
  LateWrites,     \* Jira may apply a request after the job that sent it died
  MaxDeliveries,  \* bound: events delivered, redelivered or dispatched
  MaxReruns,      \* bound: re-runs that change the evidence of a run id
  MaxKills        \* bound: jobs killed

(* QA-1 and QA-9 never get a bug. *)
BugExempt == {1, 9}

ASSUME ConstantsAssumption ==
  /\ NoRun \notin Runs
  /\ Keys \subseteq Nat
  /\ DomainOf \in [Runs -> SUBSET Keys]
  /\ \A r \in Runs : DomainOf[r] # {}
  /\ Evidence \subseteq [Keys -> Results]
  /\ Evidence # {}
  /\ InitialStatus \in Statuses
  /\ Available \in [Statuses -> SUBSET Statuses]
  /\ LargeProject \in BOOLEAN
  /\ LateWrites \in BOOLEAN
  /\ MaxDeliveries \in Nat /\ MaxReruns \in Nat /\ MaxKills \in Nat

VARIABLES
  evidence,   \* evidence[r]: the domain results run r implies now
  pending,    \* the one delivery waiting for the concurrency group
  pc,         \* pc[j]: the next request of job j
  run,        \* run[j]: the run job j synchronizes
  res,        \* res[j]: domain_results, computed when the job started
  todo,       \* todo[j]: keys of the loop of main() not finished yet
  cur,        \* cur[j]: the key being synchronized (0: none)
  seen,       \* seen[j]: status labels returned by get_issue_state
  managed,    \* Jira: the managed issues that exist
  labels,     \* Jira: the SAQA status labels of each issue
  status,     \* Jira: the workflow status of each issue
  comments,   \* Jira: comments[k][r]: comments on k marked with run r
  bugs,       \* Jira: bugs[k][r]: bugs named after k and run r
  wire,       \* requests of killed jobs that Jira has yet to apply
  deliveries, reruns, kills   \* counters of the three bounds

jobVars  == <<pc, run, res, todo, cur, seen>>
jiraVars == <<managed, labels, status, comments, bugs>>
counters == <<deliveries, reruns, kills>>
vars == <<evidence, pending, jobVars, jiraVars, wire, counters>>

-----------------------------------------------------------------------------
(* Where a job can be: idle; about to resolve the managed issues; and, for *)
(* the current issue, about to read its state, write its labels, look for  *)
(* the marker, add the comment, transition, look for the bug, create it;   *)
(* "done" is the exit of the script, before the runner is released.        *)
Locations == {"idle", "ensure", "state", "labels", "find", "comment",
              "transition", "search", "create", "done"}

(* A write a killed job may have left in flight. *)
Requests ==
  [kind : {"labels"}, key : Keys, run : Runs,
   add : SUBSET STATUS_LABELS, remove : SUBSET STATUS_LABELS]
  \cup [kind : {"comment", "create"}, key : Keys, run : Runs]

TypeOK ==
  /\ evidence \in [Runs -> Evidence]
  /\ pending \in Runs \cup {NoRun}
  /\ pc \in [Jobs -> Locations]
  /\ run \in [Jobs -> Runs \cup {NoRun}]
  /\ res \in [Jobs -> [Keys -> Results]]
  /\ todo \in [Jobs -> SUBSET Keys]
  /\ cur \in [Jobs -> Keys \cup {0}]
  /\ seen \in [Jobs -> SUBSET STATUS_LABELS]
  /\ managed \in SUBSET Keys
  /\ labels \in [Keys -> SUBSET STATUS_LABELS]
  /\ status \in [Keys -> Statuses]
  /\ comments \in [Keys -> [Runs -> Nat]]
  /\ bugs \in [Keys -> [Runs -> Nat]]
  /\ wire \subseteq Requests
  /\ deliveries \in Nat /\ reruns \in Nat /\ kills \in Nat

NoEvidence == [k \in Keys |-> "UNVERIFIED"]

Init ==
  /\ evidence \in [Runs -> Evidence]
  /\ pending = NoRun
  /\ pc = [j \in Jobs |-> "idle"]
  /\ run = [j \in Jobs |-> NoRun]
  /\ res = [j \in Jobs |-> NoEvidence]
  /\ todo = [j \in Jobs |-> {}]
  /\ cur = [j \in Jobs |-> 0]
  /\ seen = [j \in Jobs |-> {}]
  /\ managed \in {{}, Keys}
  /\ labels = [k \in Keys |-> {}]
  /\ status = [k \in Keys |-> InitialStatus]
  /\ comments = [k \in Keys |-> [r \in Runs |-> 0]]
  /\ bugs = [k \in Keys |-> [r \in Runs |-> 0]]
  /\ wire = {}
  /\ deliveries = 0 /\ reruns = 0 /\ kills = 0

-----------------------------------------------------------------------------
(* What Jira does with each write. *)
PutLabels(k, add, remove) == labels' = [labels EXCEPT ![k] = (@ \ remove) \cup add]
PostComment(k, r) == comments' = [comments EXCEPT ![k][r] = @ + 1]
PostBug(k, r)     == bugs' = [bugs EXCEPT ![k][r] = @ + 1]

(* What find_project_issues may return.  In a project larger than          *)
(* max_results any issue may be missing from the answer; otherwise the     *)
(* answer is complete, and two issues with one managed summary raise.      *)
DuplicateSummary == \E k \in Keys, r \in Runs : bugs[k][r] > 1
SearchRaises == DuplicateSummary
SearchAnswers == DuplicateSummary => LargeProject
SearchMayMiss(k, r) == bugs[k][r] = 0 \/ LargeProject
SearchMayFind(k, r) == bugs[k][r] > 0

(* Job j has exited, normally or not, and left no local state. *)
Release(j) ==
  /\ pc' = [pc EXCEPT ![j] = "idle"]
  /\ run' = [run EXCEPT ![j] = NoRun]
  /\ res' = [res EXCEPT ![j] = NoEvidence]
  /\ todo' = [todo EXCEPT ![j] = {}]
  /\ cur' = [cur EXCEPT ![j] = 0]
  /\ seen' = [seen EXCEPT ![j] = {}]

Goto(j, location) ==
  /\ pc' = [pc EXCEPT ![j] = location]
  /\ UNCHANGED <<run, res, todo, cur>>

(* The loop of main() moves on with the keys of "left". *)
Continue(j, left) ==
  /\ todo' = [todo EXCEPT ![j] = left]
  /\ seen' = [seen EXCEPT ![j] = {}]
  /\ \/ /\ left = {}
        /\ cur' = [cur EXCEPT ![j] = 0]
        /\ pc' = [pc EXCEPT ![j] = "done"]
     \/ \E k \in left :
          /\ \A m \in left : k <= m
          /\ cur' = [cur EXCEPT ![j] = k]
          /\ pc' = [pc EXCEPT ![j] = "state"]
  /\ UNCHANGED <<run, res>>

NextKey(j) == Continue(j, todo[j] \ {cur[j]})

Result(j) == res[j][cur[j]]
LabelsToAdd(j)    == {run_label(Result(j))} \ seen[j]

(* Mutant: labels are only ever added. *)
LabelsToRemoveNone(j) == {}

LabelsToRemove(j) == seen[j] \ {run_label(Result(j))}

(* Mutant: a bug only when the issue turns to FAIL. *)
NeedsBugOnChange(j) ==
  Result(j) = "FAIL" /\ cur[j] \notin BugExempt /\ "saqa-ci-fail" \notin seen[j]

NeedsBug(j) == Result(j) = "FAIL" /\ cur[j] \notin BugExempt

-----------------------------------------------------------------------------
(* A completed run is announced to the concurrency group: by its           *)
(* workflow_run event, a manual dispatch, or the nightly job.  The group   *)
(* keeps one pending entry; a newer one cancels it.                        *)
Deliver(r) ==
  /\ deliveries < MaxDeliveries
  /\ pending' = r
  /\ deliveries' = deliveries + 1
  /\ UNCHANGED <<evidence, jobVars, jiraVars, wire, reruns, kills>>

(* A re-run keeps the run id and may change every domain result. *)
Rerun(r) ==
  /\ reruns < MaxReruns
  /\ \E e \in Evidence : evidence' = [evidence EXCEPT ![r] = e]
  /\ reruns' = reruns + 1
  /\ UNCHANGED <<pending, jobVars, jiraVars, wire, deliveries, kills>>

(* bootstrap_jira_ci.py creates a managed issue that does not exist. *)
Bootstrap(k) ==
  /\ k \notin managed
  /\ managed' = managed \cup {k}
  /\ UNCHANGED <<evidence, pending, jobVars, labels, status, comments, bugs,
                 wire, counters>>

(* Mutant: no concurrency group; every delivery gets a runner at once. *)
GroupFreeAlways == TRUE

(* "concurrency: group: jira-qa-sync": no other job of the group holds a   *)
(* runner.                                                                 *)
GroupFree == \A i \in Jobs : pc[i] = "idle"

Start(j) ==
  /\ pending # NoRun
  /\ GroupFree
  /\ pending' = NoRun
  /\ pc' = [pc EXCEPT ![j] = "ensure"]
  /\ run' = [run EXCEPT ![j] = pending]
  /\ res' = [res EXCEPT ![j] = evidence[pending]]
  /\ todo' = [todo EXCEPT ![j] = DomainOf[pending]]
  /\ UNCHANGED <<evidence, cur, seen, jiraVars, wire, counters>>

(* Mutant: the sync writes what it finds and does not insist on the rest. *)
EnsureManagedLenient(j) ==
  /\ pc[j] = "ensure"
  /\ SearchAnswers
  /\ Continue(j, todo[j])
  /\ UNCHANGED <<evidence, pending, jiraVars, wire, counters>>

(* ensure_managed_issues: every managed issue must be found, or nothing is *)
(* written.                                                                *)
EnsureManaged(j) ==
  /\ pc[j] = "ensure"
  /\ managed = Keys
  /\ SearchAnswers
  /\ Continue(j, todo[j])
  /\ UNCHANGED <<evidence, pending, jiraVars, wire, counters>>

(* Mutant: the job waits for the missing issues instead of exiting. *)
EnsureManagedWaits(j) ==
  /\ pc[j] = "ensure"
  /\ managed # Keys \/ SearchRaises \/ LargeProject
  /\ UNCHANGED vars

EnsureManagedRaises(j) ==
  /\ pc[j] = "ensure"
  /\ managed # Keys \/ SearchRaises \/ LargeProject
  /\ Release(j)
  /\ UNCHANGED <<evidence, pending, jiraVars, wire, counters>>

(***************************************************************************)
(* sync_issue, one request at a time.                                      *)
(***************************************************************************)

(* Mutant: an issue that carries a status label is left alone. *)
GetIssueStateFirstLabelOnly(j) ==
  /\ pc[j] = "state"
  /\ seen' = [seen EXCEPT ![j] = labels[cur[j]]]
  /\ Goto(j, IF labels[cur[j]] # {} THEN "find" ELSE "labels")
  /\ UNCHANGED <<evidence, pending, jiraVars, wire, counters>>

(* get_issue_state: the labels to add and to remove are computed from this *)
(* answer; nothing to change means no PUT.                                 *)
GetIssueState(j) ==
  /\ pc[j] = "state"
  /\ seen' = [seen EXCEPT ![j] = labels[cur[j]]]
  /\ Goto(j, IF labels[cur[j]] = {run_label(Result(j))} THEN "find" ELSE "labels")
  /\ UNCHANGED <<evidence, pending, jiraVars, wire, counters>>

UpdateLabels(j) ==
  /\ pc[j] = "labels"
  /\ PutLabels(cur[j], LabelsToAdd(j), LabelsToRemove(j))
  /\ Goto(j, "find")
  /\ UNCHANGED <<evidence, pending, seen, managed, status, comments, bugs,
                 wire, counters>>

(* Mutant: the comment is posted without looking for the marker. *)
FindMarkerBlind(j) ==
  /\ pc[j] = "find"
  /\ Goto(j, "comment")
  /\ UNCHANGED <<evidence, pending, seen, jiraVars, wire, counters>>

(* add_comment_once: read the comments, then post if the marker is absent. *)
FindMarker(j) ==
  /\ pc[j] = "find"
  /\ Goto(j, IF comments[cur[j]][run[j]] > 0 THEN "transition" ELSE "comment")
  /\ UNCHANGED <<evidence, pending, seen, jiraVars, wire, counters>>

AddComment(j) ==
  /\ pc[j] = "comment"
  /\ PostComment(cur[j], run[j])
  /\ Goto(j, "transition")
  /\ UNCHANGED <<evidence, pending, seen, managed, labels, status, bugs,
                 wire, counters>>

(* transition_to_any takes the first wanted destination Jira lists, in     *)
(* Jira's order.  It looks at the current status only to recognise that    *)
(* destination.  Its two GETs and its POST are one step: statuses have no  *)
(* other writer while the job holds the group.                             *)
TransitionToAny(j) ==
  LET wanted == Available[status[cur[j]]] \cap transition_targets(Result(j)) IN
  /\ pc[j] = "transition"
  /\ \/ /\ wanted = {}
        /\ UNCHANGED status
     \/ \E destination \in wanted :
          status' = [status EXCEPT ![cur[j]] = destination]
  /\ \/ /\ NeedsBug(j)
        /\ Goto(j, "search")
        /\ UNCHANGED seen
     \/ /\ ~NeedsBug(j)
        /\ NextKey(j)
  /\ UNCHANGED <<evidence, pending, managed, labels, comments, bugs, wire,
                 counters>>

(* Mutant: the bug is created without searching for it. *)
FindBugBlind(j) ==
  /\ pc[j] = "search"
  /\ Goto(j, "create")
  /\ UNCHANGED <<evidence, pending, seen, jiraVars, wire, counters>>

(* create_failure_bug_once: search the project for the bug's summary, then *)
(* create it if the search did not return it.                              *)
FindBug(j) ==
  /\ pc[j] = "search"
  /\ SearchAnswers
  /\ \/ /\ SearchMayFind(cur[j], run[j])
        /\ NextKey(j)
     \/ /\ SearchMayMiss(cur[j], run[j])
        /\ Goto(j, "create")
        /\ UNCHANGED seen
  /\ UNCHANGED <<evidence, pending, jiraVars, wire, counters>>

FindBugRaises(j) ==
  /\ pc[j] = "search"
  /\ SearchRaises
  /\ Release(j)
  /\ UNCHANGED <<evidence, pending, jiraVars, wire, counters>>

CreateBug(j) ==
  /\ pc[j] = "create"
  /\ PostBug(cur[j], run[j])
  /\ NextKey(j)
  /\ UNCHANGED <<evidence, pending, managed, labels, status, comments, wire,
                 counters>>

Finish(j) ==
  /\ pc[j] = "done"
  /\ Release(j)
  /\ UNCHANGED <<evidence, pending, jiraVars, wire, counters>>

-----------------------------------------------------------------------------
(* The request a job is waiting for when it is killed. *)
InFlight(j) ==
  CASE pc[j] = "labels" ->
         {[kind |-> "labels", key |-> cur[j], run |-> run[j],
           add |-> LabelsToAdd(j), remove |-> LabelsToRemove(j)]}
    [] pc[j] \in {"comment", "create"} ->
         {[kind |-> pc[j], key |-> cur[j], run |-> run[j]]}
    [] OTHER -> {}

(* timeout-minutes, a lost runner, an HTTP error or timeout: the job ends. *)
(* Its last request was never applied, was applied already (the step was   *)
(* taken before the kill), or, with LateWrites, will be applied later.     *)
Kill(j) ==
  /\ pc[j] # "idle"
  /\ kills < MaxKills
  /\ kills' = kills + 1
  /\ Release(j)
  /\ wire' \in IF LateWrites THEN {wire, wire \cup InFlight(j)} ELSE {wire}
  /\ UNCHANGED <<evidence, pending, jiraVars, deliveries, reruns>>

ApplyLate(q) ==
  /\ wire' = wire \ {q}
  /\ \/ /\ q.kind = "labels"
        /\ PutLabels(q.key, q.add, q.remove)
        /\ UNCHANGED <<comments, bugs>>
     \/ /\ q.kind = "comment"
        /\ PostComment(q.key, q.run)
        /\ UNCHANGED <<labels, bugs>>
     \/ /\ q.kind = "create"
        /\ PostBug(q.key, q.run)
        /\ UNCHANGED <<labels, comments>>
  /\ UNCHANGED <<evidence, pending, jobVars, managed, status, counters>>

Step(j) ==
  \/ EnsureManaged(j) \/ EnsureManagedRaises(j)
  \/ GetIssueState(j) \/ UpdateLabels(j)
  \/ FindMarker(j) \/ AddComment(j)
  \/ TransitionToAny(j)
  \/ FindBug(j) \/ FindBugRaises(j) \/ CreateBug(j)
  \/ Finish(j)

Next ==
  \/ \E r \in Runs : Deliver(r) \/ Rerun(r)
  \/ \E k \in Keys : Bootstrap(k)
  \/ \E j \in Jobs : Start(j) \/ Step(j) \/ Kill(j)
  \/ \E q \in wire : ApplyLate(q)

Spec == Init /\ [][Next]_vars

(* GitHub starts the pending job once the group is free, and a running job *)
(* keeps running until it exits.  Deliveries, kills and re-runs are not    *)
(* obliged to happen.                                                      *)
FairSpec ==
  /\ Spec
  /\ WF_vars(\E j \in Jobs : Start(j))
  /\ \A j \in Jobs : WF_vars(Step(j))

-----------------------------------------------------------------------------
(***************************************************************************)
(* Properties.                                                             *)
(***************************************************************************)

(* An issue never carries two SAQA status labels: the removals sync_issue  *)
(* computes from get_issue_state are still right when its PUT is applied.  *)
SingleStatusLabel == \A k \in Keys : \A a, b \in labels[k] : a = b

(* One bug per managed issue and run, however often the run is delivered,  *)
(* re-run, or its sync killed (create_failure_bug_once).                   *)
BugCreatedOnce == \A k \in Keys, r \in Runs : bugs[k][r] <= 1

(* One comment per managed issue and run (add_comment_once).               *)
CommentAddedOnce == \A k \in Keys, r \in Runs : comments[k][r] <= 1

(* A request that outlives its job costs at most one duplicate: nothing    *)
(* but a kill ever produces a second bug or comment, and a duplicate found *)
(* stops the syncs instead of breeding more (find_project_issues raises).  *)
DuplicatesBoundedByKills ==
  \A k \in Keys, r \in Runs : bugs[k][r] <= 1 + kills /\ comments[k][r] <= 1 + kills

(* Before every managed issue has been bootstrapped no sync leaves a trace *)
(* on any of them (ensure_managed_issues).                                 *)
NothingBeforeBootstrap ==
  managed # Keys =>
    \A k \in Keys : /\ labels[k] = {} /\ status[k] = InitialStatus
                    /\ \A r \in Runs : comments[k][r] = 0 /\ bugs[k][r] = 0

(* Whatever earlier syncs left behind, killed half way or not, the issues  *)
(* a running sync has gone past show exactly its results: the label, the   *)
(* run's comment, and a bug if the result is FAIL (sync_issue).            *)
ProcessedIssuesReflectEvidence ==
  \A j \in Jobs : pc[j] \notin {"idle", "ensure"} =>
    \A k \in DomainOf[run[j]] \ todo[j] :
      /\ labels[k] = {run_label(res[j][k])}
      /\ comments[k][run[j]] = 1
      /\ res[j][k] = "FAIL" /\ k \notin BugExempt => bugs[k][run[j]] = 1

(* A bug appears only on an issue that already shows FAIL and carries the  *)
(* comment naming the run (order of the calls in sync_issue).              *)
DefectFollowsVerifiedFailure ==
  [][\A k \in Keys, r \in Runs : bugs'[k][r] # bugs[k][r] =>
       labels[k] = {"saqa-ci-fail"} /\ comments[k][r] > 0]_bugs

(* The pending delivery always gets its runner: no job of the group, not   *)
(* even one that raised or was killed, keeps the others out forever.       *)
PendingDrains == pending # NoRun ~> pending = NoRun

(* What the engine promises, see IssueLedger. *)
Ledger == INSTANCE IssueLedger WITH label <- labels, comment <- comments, bug <- bugs
ImplementsLedger == Ledger!Spec
=============================================================================
