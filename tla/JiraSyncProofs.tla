---------------------------- MODULE JiraSyncProofs ----------------------------
(***************************************************************************)
(* Proofs about JiraSync, for any set of jobs, runs and issues, any        *)
(* evidence and any Jira workflow.                                         *)
(***************************************************************************)
EXTENDS JiraSync, TLAPS

(* A job that is not idle has a run, and keys left of that run's domain;   *)
(* inside sync_issue it works on one of them.                              *)
InIssue == {"state", "labels", "find", "comment", "transition", "search", "create"}

Located ==
  \A j \in Jobs :
    /\ pc[j] # "idle" => run[j] \in Runs /\ todo[j] \subseteq DomainOf[run[j]]
    /\ pc[j] = "ensure" => todo[j] = DomainOf[run[j]]
    /\ pc[j] \in InIssue => cur[j] \in todo[j]
    /\ pc[j] = "done" => todo[j] = {}

LEMMA LabelType ==
  ASSUME NEW r \in Results
  PROVE  run_label(r) \in STATUS_LABELS
BY DEF Results, run_label, STATUS_LABELS

LEMMA LabelInjective ==
  ASSUME NEW r \in Results, run_label(r) = run_label("FAIL")
  PROVE  r = "FAIL"
BY DEF Results, run_label

LEMMA NoEvidenceType == NoEvidence \in [Keys -> Results]
BY DEF NoEvidence, Results

LEMMA InitTypeLocated == Init => TypeOK /\ Located
BY ConstantsAssumption, NoEvidenceType
   DEF Init, TypeOK, Located, Locations, InIssue

(* The facts about one job that the steps of the proofs below share. *)
LEMMA JobFacts ==
  ASSUME TypeOK, Located, NEW j \in Jobs, pc[j] \in InIssue
  PROVE  /\ cur[j] \in Keys /\ run[j] \in Runs
         /\ Result(j) \in Results
         /\ LabelsToAdd(j) \subseteq STATUS_LABELS
         /\ LabelsToRemove(j) \subseteq STATUS_LABELS
<1>1. cur[j] \in Keys /\ run[j] \in Runs
  BY DEF TypeOK, Located, InIssue
<1>2. Result(j) \in Results
  BY <1>1 DEF Result, TypeOK
<1>3. QED
  BY <1>1, <1>2, LabelType DEF LabelsToAdd, LabelsToRemove, TypeOK

LEMMA ReleaseTypeLocated ==
  ASSUME TypeOK, Located, NEW j \in Jobs, Release(j),
         UNCHANGED <<evidence, pending, jiraVars>>,
         wire' \subseteq Requests, deliveries' \in Nat, reruns' \in Nat, kills' \in Nat
  PROVE  TypeOK' /\ Located'
BY NoEvidenceType DEF Release, TypeOK, Located, InIssue, Locations, jiraVars

LEMMA GotoTypeLocated ==
  ASSUME TypeOK, Located, NEW j \in Jobs, pc[j] \in InIssue,
         NEW location \in InIssue, Goto(j, location)
  PROVE  /\ pc' \in [Jobs -> Locations] /\ run' \in [Jobs -> Runs \cup {NoRun}]
         /\ res' \in [Jobs -> [Keys -> Results]] /\ todo' \in [Jobs -> SUBSET Keys]
         /\ cur' \in [Jobs -> Keys \cup {0}]
         /\ Located'
BY DEF Goto, TypeOK, Located, InIssue, Locations

LEMMA ContinueTypeLocated ==
  ASSUME TypeOK, Located, NEW j \in Jobs, pc[j] # "idle",
         NEW left \in SUBSET todo[j], Continue(j, left)
  PROVE  /\ pc' \in [Jobs -> Locations] /\ run' \in [Jobs -> Runs \cup {NoRun}]
         /\ res' \in [Jobs -> [Keys -> Results]] /\ todo' \in [Jobs -> SUBSET Keys]
         /\ cur' \in [Jobs -> Keys \cup {0}] /\ seen' \in [Jobs -> SUBSET STATUS_LABELS]
         /\ Located'
<1>1. todo[j] \subseteq Keys /\ todo' = [todo EXCEPT ![j] = left] /\ UNCHANGED <<run, res>>
  BY DEF TypeOK, Continue
<1>2. seen' \in [Jobs -> SUBSET STATUS_LABELS]
  BY DEF TypeOK, Continue
<1>3. CASE left = {} /\ cur' = [cur EXCEPT ![j] = 0] /\ pc' = [pc EXCEPT ![j] = "done"]
  BY <1>1, <1>2, <1>3 DEF TypeOK, Located, InIssue, Locations
<1>4. ASSUME NEW k \in left, cur' = [cur EXCEPT ![j] = k], pc' = [pc EXCEPT ![j] = "state"]
      PROVE  /\ pc' \in [Jobs -> Locations] /\ cur' \in [Jobs -> Keys \cup {0}] /\ Located'
             /\ todo' \in [Jobs -> SUBSET Keys]
  BY <1>1, <1>4 DEF TypeOK, Located, InIssue, Locations
<1>5. QED
  BY <1>1, <1>2, <1>3, <1>4 DEF Continue, TypeOK

(* The writes keep Jira's types. *)
LEMMA PutLabelsType ==
  ASSUME TypeOK, NEW k \in Keys, NEW add \in SUBSET STATUS_LABELS, NEW remove,
         PutLabels(k, add, remove)
  PROVE  labels' \in [Keys -> SUBSET STATUS_LABELS]
BY DEF TypeOK, PutLabels

LEMMA PostCommentType ==
  ASSUME TypeOK, NEW k \in Keys, NEW r \in Runs, PostComment(k, r)
  PROVE  comments' \in [Keys -> [Runs -> Nat]]
BY DEF TypeOK, PostComment

LEMMA PostBugType ==
  ASSUME TypeOK, NEW k \in Keys, NEW r \in Runs, PostBug(k, r)
  PROVE  bugs' \in [Keys -> [Runs -> Nat]]
BY DEF TypeOK, PostBug

LEMMA InFlightType ==
  ASSUME TypeOK, Located, NEW j \in Jobs
  PROVE  InFlight(j) \subseteq Requests
<1>1. CASE pc[j] = "labels"
  BY <1>1, JobFacts DEF InFlight, Requests, InIssue
<1>2. CASE pc[j] \in {"comment", "create"}
  BY <1>2, JobFacts DEF InFlight, Requests, InIssue
<1>3. CASE pc[j] \notin {"labels", "comment", "create"}
  BY <1>3 DEF InFlight
<1>4. QED
  BY <1>1, <1>2, <1>3

LEMMA StepTypeLocated ==
  ASSUME TypeOK, Located, NEW j \in Jobs, Step(j)
  PROVE  TypeOK' /\ Located'
<1> USE DEF counters, jiraVars
<1>1. CASE EnsureManaged(j)
  BY <1>1, ContinueTypeLocated DEF EnsureManaged, TypeOK
<1>2. CASE EnsureManagedRaises(j)
  BY <1>2, ReleaseTypeLocated DEF EnsureManagedRaises, TypeOK
<1>3. CASE GetIssueState(j)
  <2>1. pc[j] \in InIssue /\ cur[j] \in Keys
    BY <1>3, JobFacts DEF GetIssueState, InIssue
  <2>2. PICK location \in InIssue : Goto(j, location)
    BY <1>3 DEF GetIssueState, InIssue
  <2>3. QED
    BY <1>3, <2>1, <2>2, GotoTypeLocated DEF GetIssueState, TypeOK
<1>4. CASE UpdateLabels(j)
  <2>1. pc[j] \in InIssue /\ Goto(j, "find") /\ "find" \in InIssue
    BY <1>4 DEF UpdateLabels, InIssue
  <2>2. labels' \in [Keys -> SUBSET STATUS_LABELS]
    BY <1>4, <2>1, JobFacts DEF UpdateLabels, PutLabels, TypeOK
  <2>3. QED
    BY <1>4, <2>1, <2>2, GotoTypeLocated DEF UpdateLabels, TypeOK
<1>5. CASE FindMarker(j)
  <2>1. pc[j] \in InIssue
    BY <1>5 DEF FindMarker, InIssue
  <2>2. PICK location \in InIssue : Goto(j, location)
    BY <1>5 DEF FindMarker, InIssue
  <2>3. QED
    BY <1>5, <2>1, <2>2, GotoTypeLocated DEF FindMarker, TypeOK
<1>6. CASE AddComment(j)
  <2>1. pc[j] \in InIssue /\ Goto(j, "transition") /\ "transition" \in InIssue
    BY <1>6 DEF AddComment, InIssue
  <2>2. comments' \in [Keys -> [Runs -> Nat]]
    BY <1>6, <2>1, JobFacts DEF AddComment, PostComment, TypeOK
  <2>3. QED
    BY <1>6, <2>1, <2>2, GotoTypeLocated DEF AddComment, TypeOK
<1>7. CASE TransitionToAny(j)
  <2>1. pc[j] \in InIssue /\ pc[j] # "idle" /\ cur[j] \in Keys
    BY <1>7, JobFacts DEF TransitionToAny, InIssue
  <2>2. status' \in [Keys -> Statuses]
    <3>1. status[cur[j]] \in Statuses /\ Available[status[cur[j]]] \subseteq Statuses
      BY <2>1, ConstantsAssumption DEF TypeOK
    <3>2. ASSUME NEW s \in Statuses, status' = [status EXCEPT ![cur[j]] = s]
          PROVE  status' \in [Keys -> Statuses]
      BY <3>2 DEF TypeOK
    <3>3. status' = status \/ \E s \in Statuses : status' = [status EXCEPT ![cur[j]] = s]
      BY <1>7, <3>1 DEF TransitionToAny
    <3>4. QED
      BY <3>2, <3>3 DEF TypeOK
  <2> UNCHANGED <<evidence, pending, managed, labels, comments, bugs, wire, counters>>
    BY <1>7 DEF TransitionToAny
  <2>3. CASE Goto(j, "search") /\ UNCHANGED seen
    <3>1. "search" \in InIssue
      BY DEF InIssue
    <3>2. QED
      BY <2>1, <2>2, <2>3, <3>1, GotoTypeLocated DEF TypeOK
  <2>4. CASE NextKey(j)
    BY <2>1, <2>2, <2>4, ContinueTypeLocated DEF NextKey, TypeOK
  <2>5. QED
    BY <1>7, <2>3, <2>4 DEF TransitionToAny
<1>8. CASE FindBug(j)
  <2>1. pc[j] \in InIssue /\ pc[j] # "idle"
    BY <1>8 DEF FindBug, InIssue
  <2>2. CASE NextKey(j)
    BY <1>8, <2>1, <2>2, ContinueTypeLocated DEF FindBug, NextKey, TypeOK
  <2>3. CASE Goto(j, "create") /\ UNCHANGED seen
    BY <1>8, <2>1, <2>3, GotoTypeLocated DEF FindBug, TypeOK, InIssue
  <2>4. QED
    BY <1>8, <2>2, <2>3 DEF FindBug
<1>9. CASE FindBugRaises(j)
  BY <1>9, ReleaseTypeLocated DEF FindBugRaises, TypeOK
<1>10. CASE CreateBug(j)
  <2>1. pc[j] \in InIssue /\ pc[j] # "idle" /\ NextKey(j)
    BY <1>10 DEF CreateBug, InIssue
  <2>2. bugs' \in [Keys -> [Runs -> Nat]]
    BY <1>10, <2>1, JobFacts DEF CreateBug, PostBug, TypeOK
  <2>3. QED
    BY <1>10, <2>1, <2>2, ContinueTypeLocated DEF CreateBug, NextKey, TypeOK
<1>11. CASE Finish(j)
  BY <1>11, ReleaseTypeLocated DEF Finish, TypeOK
<1>12. QED
  BY <1>1, <1>2, <1>3, <1>4, <1>5, <1>6, <1>7, <1>8, <1>9, <1>10, <1>11 DEF Step

LEMMA NextTypeLocated ==
  ASSUME TypeOK, Located, [Next]_vars
  PROVE  TypeOK' /\ Located'
<1> USE DEF counters, jobVars, jiraVars
<1>1. CASE UNCHANGED vars
  BY <1>1 DEF vars, TypeOK, Located
<1>2. ASSUME NEW r \in Runs, Deliver(r)
      PROVE  TypeOK' /\ Located'
  BY <1>2 DEF Deliver, TypeOK, Located
<1>3. ASSUME NEW r \in Runs, Rerun(r)
      PROVE  TypeOK' /\ Located'
  BY <1>3 DEF Rerun, TypeOK, Located
<1>4. ASSUME NEW k \in Keys, Bootstrap(k)
      PROVE  TypeOK' /\ Located'
  BY <1>4 DEF Bootstrap, TypeOK, Located
<1>5. ASSUME NEW j \in Jobs, Start(j)
      PROVE  TypeOK' /\ Located'
  <2>1. pending \in Runs /\ evidence[pending] \in [Keys -> Results]
    BY <1>5, ConstantsAssumption DEF Start, TypeOK
  <2>2. DomainOf[pending] \in SUBSET Keys
    BY <2>1, ConstantsAssumption
  <2>3. QED
    BY <1>5, <2>1, <2>2 DEF Start, TypeOK, Located, Locations, InIssue
<1>6. ASSUME NEW j \in Jobs, Step(j)
      PROVE  TypeOK' /\ Located'
  BY <1>6, StepTypeLocated
<1>7. ASSUME NEW j \in Jobs, Kill(j)
      PROVE  TypeOK' /\ Located'
  <2>1. wire' \subseteq Requests
    BY <1>7, InFlightType DEF Kill, TypeOK
  <2>2. QED
    BY <1>7, <2>1, ReleaseTypeLocated DEF Kill, TypeOK
<1>8. ASSUME NEW q \in wire, ApplyLate(q)
      PROVE  TypeOK' /\ Located'
  <2>1. q.key \in Keys /\ q.run \in Runs
    BY <1>8 DEF TypeOK, Requests
  <2>2. labels' \in [Keys -> SUBSET STATUS_LABELS]
    <3>1. CASE q.kind = "labels"
      <4>1. q.add \in SUBSET STATUS_LABELS /\ PutLabels(q.key, q.add, q.remove)
        BY <1>8, <3>1 DEF ApplyLate, TypeOK, Requests
      <4>2. QED
        BY <2>1, <4>1, PutLabelsType
    <3>2. CASE UNCHANGED labels
      BY <3>2 DEF TypeOK
    <3>3. QED
      BY <1>8, <3>1, <3>2 DEF ApplyLate
  <2>3. comments' \in [Keys -> [Runs -> Nat]]
    <3>1. UNCHANGED comments \/ PostComment(q.key, q.run)
      BY <1>8 DEF ApplyLate
    <3>2. QED
      BY <2>1, <3>1, PostCommentType DEF TypeOK
  <2>4. bugs' \in [Keys -> [Runs -> Nat]]
    <3>1. UNCHANGED bugs \/ PostBug(q.key, q.run)
      BY <1>8 DEF ApplyLate
    <3>2. QED
      BY <2>1, <3>1, PostBugType DEF TypeOK
  <2>5. wire' \subseteq Requests /\ UNCHANGED <<evidence, pending, jobVars, managed, status, counters>>
    BY <1>8 DEF ApplyLate, TypeOK
  <2>6. QED
    BY <2>2, <2>3, <2>4, <2>5 DEF TypeOK, Located
<1>9. QED
  BY <1>1, <1>2, <1>3, <1>4, <1>5, <1>6, <1>7, <1>8 DEF Next

(* Every variable of the engine and of Jira keeps its type, and a job's    *)
(* local state is consistent with its place in the script.                 *)
THEOREM TypeCorrect == Spec => [](TypeOK /\ Located)
<1>1. QED
  BY InitTypeLocated, NextTypeLocated, PTL DEF Spec

-----------------------------------------------------------------------------
(***************************************************************************)
(* Safety of the engine when no request outlives the job that sent it.     *)
(* The invariant says what a job may rely on at each place of the script:  *)
(* since the group runs one job at a time, what it has read of the current *)
(* issue is still true when it writes.  In a project too large for the     *)
(* search all of it stays true but the number of bugs.                     *)
(***************************************************************************)
MutualExclusion ==
  \A i, j \in Jobs : pc[i] # "idle" /\ pc[j] # "idle" => i = j

Published == {"find", "comment", "transition", "search", "create"}
Recorded  == {"transition", "search", "create"}

(* What job j knows of the issue it is working on. *)
ReadsHold(j) ==
  /\ pc[j] = "labels"    => seen[j] = labels[cur[j]]
  /\ pc[j] \in Published => labels[cur[j]] = {run_label(Result(j))}
  /\ pc[j] = "comment"   => comments[cur[j]][run[j]] = 0
  /\ pc[j] \in Recorded  => comments[cur[j]][run[j]] = 1
  /\ pc[j] \in {"search", "create"} => NeedsBug(j)
  /\ pc[j] = "create" /\ ~LargeProject => bugs[cur[j]][run[j]] = 0

(* What job j has shown of the issues it is done with. *)
Reflects(j) ==
  pc[j] \notin {"idle", "ensure"} =>
    \A k \in DomainOf[run[j]] \ todo[j] :
      /\ labels[k] = {run_label(res[j][k])}
      /\ comments[k][run[j]] = 1
      /\ res[j][k] = "FAIL" /\ k \notin BugExempt => bugs[k][run[j]] > 0

BugsFound == ~LargeProject => BugCreatedOnce

Consistent ==
  /\ wire = {}
  /\ MutualExclusion
  /\ SingleStatusLabel
  /\ BugsFound
  /\ CommentAddedOnce
  /\ \A j \in Jobs : ReadsHold(j) /\ Reflects(j)

LEMMA InitConsistent == Init => Consistent
BY ConstantsAssumption
   DEF Init, Consistent, MutualExclusion, SingleStatusLabel, BugsFound, BugCreatedOnce,
       CommentAddedOnce, ReadsHold, Reflects, Published, Recorded

LEMMA OthersIdle ==
  ASSUME Consistent, NEW j \in Jobs, pc[j] # "idle", NEW i \in Jobs, i # j
  PROVE  pc[i] = "idle"
BY DEF Consistent, MutualExclusion

(* A job that is idle knows nothing and has shown nothing. *)
LEMMA IdleHolds ==
  ASSUME NEW i \in Jobs, pc[i] = "idle"
  PROVE  ReadsHold(i) /\ Reflects(i)
BY DEF ReadsHold, Reflects, Published, Recorded

LEMMA ReleaseConsistent ==
  ASSUME TypeOK, Consistent, NEW j \in Jobs, pc[j] # "idle", Release(j),
         UNCHANGED <<labels, comments, bugs, wire>>
  PROVE  Consistent'
<1>1. \A i \in Jobs : pc'[i] = "idle"
  BY OthersIdle DEF Release, TypeOK
<1>2. \A i \in Jobs : ReadsHold(i)' /\ Reflects(i)'
  BY <1>1 DEF ReadsHold, Reflects, Published, Recorded
<1>3. QED
  BY <1>1, <1>2 DEF Consistent, MutualExclusion, SingleStatusLabel,
                    BugsFound, BugCreatedOnce, CommentAddedOnce

(* A step of job j that keeps the others idle: only what j knows and has   *)
(* shown must be proved again.                                             *)
LEMMA OneJobConsistent ==
  ASSUME TypeOK, Consistent, NEW j \in Jobs, pc[j] # "idle",
         \A i \in Jobs : i # j => pc'[i] = pc[i],
         UNCHANGED wire, SingleStatusLabel', BugsFound', CommentAddedOnce',
         ReadsHold(j)', Reflects(j)'
  PROVE  Consistent'
<1>1. \A i \in Jobs : i # j => pc'[i] = "idle"
  BY OthersIdle
<1>2. MutualExclusion'
  BY <1>1 DEF MutualExclusion
<1>3. \A i \in Jobs : ReadsHold(i)' /\ Reflects(i)'
  BY <1>1 DEF ReadsHold, Reflects, Published, Recorded
<1>4. QED
  BY <1>2, <1>3 DEF Consistent

(* Moving on after the current issue shows the job's result. *)
LEMMA NextKeyConsistent ==
  ASSUME TypeOK, Located, Consistent, NEW j \in Jobs, pc[j] \in Recorded, NextKey(j),
         UNCHANGED <<labels, comments, wire>>,
         BugsFound',
         \A k \in Keys, r \in Runs :
           <<k, r>> # <<cur[j], run[j]>> => bugs'[k][r] = bugs[k][r],
         NeedsBug(j) => bugs'[cur[j]][run[j]] > 0
  PROVE  Consistent'
<1>1. /\ pc[j] \in InIssue /\ pc[j] # "idle"
      /\ cur[j] \in Keys /\ run[j] \in Runs /\ cur[j] \in todo[j]
      /\ DomainOf[run[j]] \subseteq Keys
  BY JobFacts, ConstantsAssumption DEF Recorded, InIssue, Located
<1>2. /\ todo'[j] = todo[j] \ {cur[j]}
      /\ pc'[j] \in {"state", "done"}
      /\ \A i \in Jobs : i # j => pc'[i] = pc[i]
      /\ UNCHANGED <<run, res>>
  BY DEF NextKey, Continue, TypeOK
<1>3. SingleStatusLabel' /\ CommentAddedOnce'
  BY DEF Consistent, SingleStatusLabel, CommentAddedOnce
<1>4. ReadsHold(j)'
  BY <1>2 DEF ReadsHold, Published, Recorded
<1>5. Reflects(j)'
  <2> SUFFICES ASSUME NEW k \in DomainOf[run[j]] \ (todo[j] \ {cur[j]})
               PROVE  /\ labels[k] = {run_label(res[j][k])}
                      /\ comments[k][run[j]] = 1
                      /\ res[j][k] = "FAIL" /\ k \notin BugExempt => bugs'[k][run[j]] > 0
    BY <1>2 DEF Reflects
  <2>1. CASE k = cur[j]
    BY <2>1 DEF Consistent, ReadsHold, Published, Recorded, Result, NeedsBug
  <2>2. CASE k # cur[j]
    <3>1. k \in DomainOf[run[j]] \ todo[j] /\ k \in Keys
      BY <1>1, <2>2
    <3>2. bugs'[k][run[j]] = bugs[k][run[j]]
      BY <1>1, <2>2, <3>1
    <3>3. QED
      BY <1>1, <3>1, <3>2 DEF Consistent, Reflects, InIssue
  <2>3. QED
    BY <2>1, <2>2
<1>6. QED
  BY <1>1, <1>2, <1>3, <1>4, <1>5, OneJobConsistent

(* A step inside the current issue that leaves its place in the loop: what *)
(* the job has shown stays shown if the issues behind it are not touched.  *)
LEMMA GotoConsistent ==
  ASSUME TypeOK, Located, Consistent, NEW j \in Jobs, pc[j] \in InIssue,
         NEW location \in InIssue, Goto(j, location), UNCHANGED wire,
         SingleStatusLabel', BugsFound', CommentAddedOnce', ReadsHold(j)',
         \A k \in Keys : k # cur[j] =>
           labels'[k] = labels[k] /\ comments'[k] = comments[k] /\ bugs'[k] = bugs[k]
  PROVE  Consistent'
<1>1. /\ cur[j] \in todo[j] /\ run[j] \in Runs /\ DomainOf[run[j]] \subseteq Keys
      /\ pc[j] # "idle"
  BY JobFacts, ConstantsAssumption DEF InIssue, Located
<1>2. /\ \A i \in Jobs : i # j => pc'[i] = pc[i]
      /\ UNCHANGED <<run, res, todo, cur>>
  BY DEF Goto, TypeOK
<1>3. Reflects(j)'
  <2> SUFFICES ASSUME NEW k \in DomainOf[run[j]] \ todo[j]
               PROVE  /\ labels'[k] = {run_label(res[j][k])}
                      /\ comments'[k][run[j]] = 1
                      /\ res[j][k] = "FAIL" /\ k \notin BugExempt => bugs'[k][run[j]] > 0
    BY <1>2 DEF Reflects
  <2>1. k \in Keys /\ k # cur[j]
    BY <1>1
  <2>2. /\ labels[k] = {run_label(res[j][k])} /\ comments[k][run[j]] = 1
        /\ res[j][k] = "FAIL" /\ k \notin BugExempt => bugs[k][run[j]] > 0
    BY DEF Consistent, Reflects, InIssue
  <2>3. QED
    BY <2>1, <2>2
<1>4. QED
  BY <1>1, <1>2, <1>3, OneJobConsistent

LEMMA StepConsistent ==
  ASSUME TypeOK, Located, Consistent, NEW j \in Jobs, Step(j)
  PROVE  Consistent'
<1> USE DEF counters, jiraVars
<1>1. CASE EnsureManaged(j)
  <2>1. /\ pc[j] = "ensure" /\ todo[j] = DomainOf[run[j]]
        /\ pc'[j] \in {"state", "done"} /\ todo' = todo /\ run' = run
        /\ \A i \in Jobs : i # j => pc'[i] = pc[i]
        /\ UNCHANGED <<labels, comments, bugs, wire>>
    BY <1>1 DEF EnsureManaged, Continue, Located, TypeOK
  <2>2. ReadsHold(j)' /\ Reflects(j)'
    BY <2>1 DEF ReadsHold, Reflects, Published, Recorded
  <2>3. SingleStatusLabel' /\ BugsFound' /\ CommentAddedOnce'
    BY <2>1 DEF Consistent, SingleStatusLabel, BugsFound, BugCreatedOnce, CommentAddedOnce
  <2>4. QED
    BY <2>1, <2>2, <2>3, OneJobConsistent
<1>2. CASE EnsureManagedRaises(j)
  BY <1>2, ReleaseConsistent DEF EnsureManagedRaises
<1>3. CASE GetIssueState(j)
  <2>1. PICK location \in {"find", "labels"} :
          /\ Goto(j, location)
          /\ location = "find" => labels[cur[j]] = {run_label(Result(j))}
    BY <1>3 DEF GetIssueState
  <2>2. /\ pc[j] \in InIssue /\ location \in InIssue
        /\ seen' = [seen EXCEPT ![j] = labels[cur[j]]]
        /\ UNCHANGED <<labels, comments, bugs, wire>>
    BY <1>3 DEF GetIssueState, InIssue
  <2>3. ReadsHold(j)'
    BY <2>1, <2>2 DEF Goto, ReadsHold, Published, Recorded, Result, TypeOK
  <2>4. SingleStatusLabel' /\ BugsFound' /\ CommentAddedOnce'
    BY <2>2 DEF Consistent, SingleStatusLabel, BugsFound, BugCreatedOnce, CommentAddedOnce
  <2>5. QED
    BY <2>1, <2>2, <2>3, <2>4, GotoConsistent
<1>4. CASE UpdateLabels(j)
  <2>1. /\ pc[j] = "labels" /\ pc[j] \in InIssue /\ "find" \in InIssue
        /\ Goto(j, "find") /\ UNCHANGED <<comments, bugs, wire>>
        /\ PutLabels(cur[j], LabelsToAdd(j), LabelsToRemove(j))
    BY <1>4 DEF UpdateLabels, InIssue
  <2>2. cur[j] \in Keys /\ seen[j] = labels[cur[j]]
    BY <2>1, JobFacts DEF Consistent, ReadsHold
  <2>3. labels' = [labels EXCEPT ![cur[j]] = {run_label(Result(j))}]
    BY <2>1, <2>2 DEF PutLabels, LabelsToAdd, LabelsToRemove, TypeOK
  <2>4. ReadsHold(j)'
    BY <2>1, <2>2, <2>3 DEF Goto, ReadsHold, Published, Recorded, Result, TypeOK
  <2>5. SingleStatusLabel'
    BY <2>2, <2>3 DEF Consistent, SingleStatusLabel, TypeOK
  <2>6. BugsFound' /\ CommentAddedOnce'
    BY <2>1 DEF Consistent, BugsFound, BugCreatedOnce, CommentAddedOnce
  <2>7. \A k \in Keys : k # cur[j] => labels'[k] = labels[k]
    BY <2>3 DEF TypeOK
  <2>8. QED
    BY <2>1, <2>4, <2>5, <2>6, <2>7, GotoConsistent
<1>5. CASE FindMarker(j)
  <2>1. PICK location \in {"transition", "comment"} :
          /\ Goto(j, location)
          /\ location = "transition" <=> comments[cur[j]][run[j]] > 0
    BY <1>5 DEF FindMarker
  <2>2. /\ pc[j] = "find" /\ pc[j] \in InIssue /\ location \in InIssue
        /\ UNCHANGED <<labels, comments, bugs, wire>>
    BY <1>5 DEF FindMarker, InIssue
  <2>3. cur[j] \in Keys /\ run[j] \in Runs
    BY <2>2, JobFacts
  <2>4. comments[cur[j]][run[j]] \in Nat /\ comments[cur[j]][run[j]] <= 1
    BY <2>3 DEF TypeOK, Consistent, CommentAddedOnce
  <2>5. labels[cur[j]] = {run_label(Result(j))}
    BY <2>2 DEF Consistent, ReadsHold, Published
  <2>6. comments[cur[j]][run[j]] = IF location = "transition" THEN 1 ELSE 0
    BY <2>1, <2>4
  <2>7. ReadsHold(j)'
    BY <2>1, <2>2, <2>5, <2>6 DEF Goto, ReadsHold, Published, Recorded, Result, TypeOK
  <2>8. SingleStatusLabel' /\ BugsFound' /\ CommentAddedOnce'
    BY <2>2 DEF Consistent, SingleStatusLabel, BugsFound, BugCreatedOnce, CommentAddedOnce
  <2>9. QED
    BY <2>1, <2>2, <2>7, <2>8, GotoConsistent
<1>6. CASE AddComment(j)
  <2>1. /\ pc[j] = "comment" /\ pc[j] \in InIssue /\ "transition" \in InIssue
        /\ Goto(j, "transition") /\ UNCHANGED <<labels, bugs, wire>>
        /\ PostComment(cur[j], run[j])
    BY <1>6 DEF AddComment, InIssue
  <2>2. cur[j] \in Keys /\ run[j] \in Runs
    BY <2>1, JobFacts
  <2>3. comments[cur[j]][run[j]] = 0 /\ labels[cur[j]] = {run_label(Result(j))}
    BY <2>1 DEF Consistent, ReadsHold, Published
  <2>4. comments' = [comments EXCEPT ![cur[j]][run[j]] = 1]
    BY <2>1, <2>2, <2>3 DEF PostComment, TypeOK
  <2>5. ReadsHold(j)'
    BY <2>1, <2>2, <2>3, <2>4 DEF Goto, ReadsHold, Published, Recorded, Result, TypeOK
  <2>6. CommentAddedOnce'
    BY <2>2, <2>4 DEF Consistent, CommentAddedOnce, TypeOK
  <2>7. SingleStatusLabel' /\ BugsFound'
    BY <2>1 DEF Consistent, SingleStatusLabel, BugsFound, BugCreatedOnce
  <2>8. \A k \in Keys : k # cur[j] => comments'[k] = comments[k]
    BY <2>4 DEF TypeOK
  <2>9. QED
    BY <2>1, <2>5, <2>6, <2>7, <2>8, GotoConsistent
<1>7. CASE TransitionToAny(j)
  <2>1. /\ pc[j] = "transition" /\ pc[j] \in InIssue /\ pc[j] \in Recorded
        /\ UNCHANGED <<labels, comments, bugs, wire>>
    BY <1>7 DEF TransitionToAny, InIssue, Recorded
  <2>2. SingleStatusLabel' /\ BugsFound' /\ CommentAddedOnce'
    BY <2>1 DEF Consistent, SingleStatusLabel, BugsFound, BugCreatedOnce, CommentAddedOnce
  <2>3. CASE NeedsBug(j) /\ Goto(j, "search")
    <3>1. labels[cur[j]] = {run_label(Result(j))} /\ comments[cur[j]][run[j]] = 1
      BY <2>1 DEF Consistent, ReadsHold, Published, Recorded
    <3>2. ReadsHold(j)' /\ "search" \in InIssue
      BY <2>1, <2>3, <3>1
         DEF Goto, ReadsHold, Published, Recorded, Result, NeedsBug, TypeOK, InIssue
    <3>3. QED
      BY <2>1, <2>2, <2>3, <3>2, GotoConsistent
  <2>4. CASE ~NeedsBug(j) /\ NextKey(j)
    BY <2>1, <2>2, <2>4, NextKeyConsistent
  <2>5. QED
    BY <1>7, <2>3, <2>4 DEF TransitionToAny
<1>8. CASE FindBug(j)
  <2>1. /\ pc[j] = "search" /\ pc[j] \in InIssue /\ pc[j] \in Recorded
        /\ UNCHANGED <<labels, comments, bugs, wire>>
    BY <1>8 DEF FindBug, InIssue, Recorded
  <2>2. SingleStatusLabel' /\ BugsFound' /\ CommentAddedOnce'
    BY <2>1 DEF Consistent, SingleStatusLabel, BugsFound, BugCreatedOnce, CommentAddedOnce
  <2>3. cur[j] \in Keys /\ run[j] \in Runs
    BY <2>1, JobFacts
  <2>5. CASE SearchMayFind(cur[j], run[j]) /\ NextKey(j)
    <3>1. bugs[cur[j]][run[j]] > 0
      BY <2>5 DEF SearchMayFind
    <3>2. QED
      BY <2>1, <2>2, <2>5, <3>1, NextKeyConsistent
  <2>6. CASE SearchMayMiss(cur[j], run[j]) /\ Goto(j, "create")
    <3>1. ~LargeProject => bugs[cur[j]][run[j]] = 0
      BY <2>6 DEF SearchMayMiss
    <3>2. /\ labels[cur[j]] = {run_label(Result(j))} /\ comments[cur[j]][run[j]] = 1
          /\ NeedsBug(j)
      BY <2>1 DEF Consistent, ReadsHold, Published, Recorded
    <3>3. ReadsHold(j)' /\ "create" \in InIssue
      BY <2>1, <2>6, <3>1, <3>2
         DEF Goto, ReadsHold, Published, Recorded, Result, NeedsBug, TypeOK, InIssue
    <3>4. QED
      BY <2>1, <2>2, <2>6, <3>3, GotoConsistent
  <2>7. QED
    BY <1>8, <2>5, <2>6 DEF FindBug
<1>9. CASE FindBugRaises(j)
  BY <1>9, ReleaseConsistent DEF FindBugRaises
<1>10. CASE CreateBug(j)
  <2>1. /\ pc[j] = "create" /\ pc[j] \in InIssue /\ pc[j] \in Recorded
        /\ PostBug(cur[j], run[j]) /\ NextKey(j)
        /\ UNCHANGED <<labels, comments, wire>>
    BY <1>10 DEF CreateBug, InIssue, Recorded
  <2>2. cur[j] \in Keys /\ run[j] \in Runs
    BY <2>1, JobFacts
  <2>3. /\ ~LargeProject => bugs[cur[j]][run[j]] = 0
        /\ bugs[cur[j]][run[j]] \in Nat
    BY <2>1, <2>2 DEF Consistent, ReadsHold, TypeOK
  <2>4. \A k \in Keys, r \in Runs :
          bugs'[k][r] = IF k = cur[j] /\ r = run[j] THEN bugs[k][r] + 1 ELSE bugs[k][r]
    BY <2>1, <2>2 DEF PostBug, TypeOK
  <2>5. BugsFound'
    BY <2>2, <2>3, <2>4 DEF Consistent, BugsFound, BugCreatedOnce
  <2>6. \A k \in Keys, r \in Runs :
          <<k, r>> # <<cur[j], run[j]>> => bugs'[k][r] = bugs[k][r]
    BY <2>4
  <2>7. bugs'[cur[j]][run[j]] > 0
    BY <2>2, <2>3, <2>4
  <2>8. QED
    BY <2>1, <2>5, <2>6, <2>7, NextKeyConsistent
<1>11. CASE Finish(j)
  BY <1>11, ReleaseConsistent DEF Finish
<1>12. QED
  BY <1>1, <1>2, <1>3, <1>4, <1>5, <1>6, <1>7, <1>8, <1>9, <1>10, <1>11 DEF Step

LEMMA NextConsistent ==
  ASSUME TypeOK, Located, Consistent, ~LateWrites, [Next]_vars
  PROVE  Consistent'
<1> USE DEF counters, jobVars, jiraVars
<1>1. ASSUME UNCHANGED <<jobVars, labels, comments, bugs, wire>>
      PROVE  Consistent'
  <2>1. \A j \in Jobs : ReadsHold(j)' /\ Reflects(j)'
    BY <1>1 DEF Consistent, ReadsHold, Reflects, Result, NeedsBug
  <2>2. QED
    BY <1>1, <2>1 DEF Consistent, MutualExclusion, SingleStatusLabel,
                      BugsFound, BugCreatedOnce, CommentAddedOnce
<1>2. CASE UNCHANGED vars
  BY <1>1, <1>2 DEF vars
<1>3. ASSUME NEW r \in Runs, Deliver(r) \/ Rerun(r)
      PROVE  Consistent'
  BY <1>1, <1>3 DEF Deliver, Rerun
<1>4. ASSUME NEW k \in Keys, Bootstrap(k)
      PROVE  Consistent'
  BY <1>1, <1>4 DEF Bootstrap
<1>5. ASSUME NEW j \in Jobs, Start(j)
      PROVE  Consistent'
  <2>1. /\ \A i \in Jobs : i # j => pc'[i] = "idle"
        /\ pc'[j] = "ensure"
        /\ UNCHANGED <<labels, comments, bugs, wire>>
    BY <1>5 DEF Start, GroupFree, TypeOK
  <2>2. \A i \in Jobs : ReadsHold(i)' /\ Reflects(i)'
    BY <2>1 DEF ReadsHold, Reflects, Published, Recorded
  <2>3. QED
    BY <2>1, <2>2 DEF Consistent, MutualExclusion, SingleStatusLabel,
                      BugsFound, BugCreatedOnce, CommentAddedOnce
<1>6. ASSUME NEW j \in Jobs, Step(j)
      PROVE  Consistent'
  BY <1>6, StepConsistent
<1>7. ASSUME NEW j \in Jobs, Kill(j)
      PROVE  Consistent'
  BY <1>7, ReleaseConsistent DEF Kill
<1>8. ASSUME NEW q \in wire, ApplyLate(q)
      PROVE  Consistent'
  BY <1>8 DEF Consistent
<1>9. QED
  BY <1>2, <1>3, <1>4, <1>5, <1>6, <1>7, <1>8 DEF Next

(* The inductive invariant of the engine holds in every reachable state.   *)
THEOREM ConsistentAlways ==
  ASSUME ~LateWrites
  PROVE  Spec => [](TypeOK /\ Located /\ Consistent)
<1>1. Init => TypeOK /\ Located /\ Consistent
  BY InitTypeLocated, InitConsistent
<1>2. TypeOK /\ Located /\ Consistent /\ [Next]_vars => (TypeOK /\ Located /\ Consistent)'
  BY NextTypeLocated, NextConsistent
<1>3. QED
  BY <1>1, <1>2, PTL DEF Spec

(* Removals computed from an earlier read leave one status label, because  *)
(* no other job of the group writes between the read and the PUT.          *)
THEOREM OneStatusLabel ==
  ASSUME ~LateWrites
  PROVE  Spec => []SingleStatusLabel
<1>1. Consistent => SingleStatusLabel
  BY DEF Consistent
<1>2. QED
  BY <1>1, ConsistentAlways, PTL

(* A run has at most one bug on an issue, for any number of deliveries,    *)
(* re-runs and kills.                                                      *)
THEOREM OneBug ==
  ASSUME ~LargeProject, ~LateWrites
  PROVE  Spec => []BugCreatedOnce
<1>1. Consistent => BugCreatedOnce
  BY DEF Consistent, BugsFound
<1>2. QED
  BY <1>1, ConsistentAlways, PTL

(* A run has at most one comment on an issue.                              *)
THEOREM OneComment ==
  ASSUME ~LateWrites
  PROVE  Spec => []CommentAddedOnce
<1>1. Consistent => CommentAddedOnce
  BY DEF Consistent
<1>2. QED
  BY <1>1, ConsistentAlways, PTL

(* The issues a sync has gone past show exactly its results.               *)
THEOREM ProcessedReflect ==
  ASSUME ~LargeProject, ~LateWrites
  PROVE  Spec => []ProcessedIssuesReflectEvidence
<1>1. TypeOK /\ Located /\ Consistent => ProcessedIssuesReflectEvidence
  <2> SUFFICES ASSUME TypeOK, Located, Consistent, NEW j \in Jobs, pc[j] \notin {"idle", "ensure"},
                      NEW k \in DomainOf[run[j]] \ todo[j]
               PROVE  /\ labels[k] = {run_label(res[j][k])}
                      /\ comments[k][run[j]] = 1
                      /\ res[j][k] = "FAIL" /\ k \notin BugExempt => bugs[k][run[j]] = 1
    BY DEF ProcessedIssuesReflectEvidence
  <2>1. run[j] \in Runs /\ k \in Keys
    BY ConstantsAssumption DEF Located
  <2>2. bugs[k][run[j]] \in Nat /\ bugs[k][run[j]] <= 1
    BY <2>1 DEF TypeOK, Consistent, BugsFound, BugCreatedOnce
  <2> QED BY <2>2 DEF Consistent, Reflects
<1>2. QED
  BY <1>1, ConsistentAlways, PTL

(* The same in a project the search does not cover: the label and the      *)
(* comment of the results are there, and for a failure there is a bug, if  *)
(* maybe more than one (sync_issue, ensure_bug).                           *)
THEOREM ProcessedShow ==
  ASSUME ~LateWrites
  PROVE  Spec => []\A j \in Jobs : Reflects(j)
<1>1. Consistent => \A j \in Jobs : Reflects(j)
  BY DEF Consistent
<1>2. QED
  BY <1>1, ConsistentAlways, PTL

-----------------------------------------------------------------------------
(***************************************************************************)
(* Refinement.  Only three actions touch what the ledger shows.            *)
(***************************************************************************)
LEMMA InitLedger == Init => Ledger!Init
BY DEF Init, Ledger!Init

LEMMA UpdateLabelsPublishes ==
  ASSUME TypeOK, Located, Consistent, NEW j \in Jobs, UpdateLabels(j)
  PROVE  \E k \in Keys : \E result \in Results : Ledger!Publish(k, result)
<1>1. cur[j] \in Keys /\ Result(j) \in Results
  BY JobFacts DEF UpdateLabels, InIssue
<1>2. labels' = [labels EXCEPT ![cur[j]] = {run_label(Result(j))}]
  BY <1>1 DEF UpdateLabels, PutLabels, LabelsToAdd, LabelsToRemove,
              Consistent, ReadsHold, TypeOK
<1>3. Ledger!Publish(cur[j], Result(j))
  BY <1>2 DEF Ledger!Publish, UpdateLabels, run_label, Ledger!run_label
<1>4. QED
  BY <1>1, <1>3

LEMMA AddCommentRecords ==
  ASSUME TypeOK, Located, Consistent, NEW j \in Jobs, AddComment(j)
  PROVE  \E k \in Keys : \E r \in Runs : Ledger!Record(k, r)
<1>1. cur[j] \in Keys /\ run[j] \in Runs
  BY JobFacts DEF AddComment, InIssue
<1>2. /\ comments[cur[j]][run[j]] = 0
      /\ labels[cur[j]] = {run_label(Result(j))}
  BY DEF AddComment, Consistent, ReadsHold, Published
<1>3. comments' = [comments EXCEPT ![cur[j]][run[j]] = 1]
  BY <1>1, <1>2 DEF AddComment, PostComment, TypeOK
<1>4. Ledger!Record(cur[j], run[j])
  BY <1>2, <1>3 DEF Ledger!Record, AddComment
<1>5. QED
  BY <1>1, <1>4

LEMMA CreateBugReports ==
  ASSUME TypeOK, Located, Consistent, ~LargeProject, NEW j \in Jobs, CreateBug(j)
  PROVE  \E k \in Keys : \E r \in Runs : Ledger!Report(k, r)
<1>1. cur[j] \in Keys /\ run[j] \in Runs
  BY JobFacts DEF CreateBug, InIssue
<1>2. /\ bugs[cur[j]][run[j]] = 0
      /\ comments[cur[j]][run[j]] = 1
      /\ labels[cur[j]] = {run_label("FAIL")}
  BY DEF CreateBug, Consistent, ReadsHold, Published, Recorded, NeedsBug
<1>3. bugs' = [bugs EXCEPT ![cur[j]][run[j]] = 1]
  BY <1>1, <1>2 DEF CreateBug, PostBug, TypeOK
<1>4. Ledger!Report(cur[j], run[j])
  BY <1>2, <1>3 DEF Ledger!Report, CreateBug, run_label, Ledger!run_label
<1>5. QED
  BY <1>1, <1>4

LEMMA NextLedger ==
  ASSUME TypeOK, Located, Consistent, ~LargeProject, [Next]_vars
  PROVE  [Ledger!Next]_<<labels, comments, bugs>>
<1> USE DEF counters, jobVars, jiraVars
<1>1. CASE UNCHANGED vars
  BY <1>1 DEF vars
<1>2. ASSUME NEW r \in Runs, Deliver(r) \/ Rerun(r)
      PROVE  UNCHANGED <<labels, comments, bugs>>
  BY <1>2 DEF Deliver, Rerun
<1>3. ASSUME NEW k \in Keys, Bootstrap(k)
      PROVE  UNCHANGED <<labels, comments, bugs>>
  BY <1>3 DEF Bootstrap
<1>4. ASSUME NEW j \in Jobs, Start(j) \/ Kill(j)
      PROVE  UNCHANGED <<labels, comments, bugs>>
  BY <1>4 DEF Start, Kill
<1>5. ASSUME NEW j \in Jobs, Step(j)
      PROVE  [Ledger!Next]_<<labels, comments, bugs>>
  <2>1. CASE UpdateLabels(j)
    BY <2>1, UpdateLabelsPublishes DEF Ledger!Next, Results, Ledger!Results
  <2>2. CASE AddComment(j)
    BY <2>2, AddCommentRecords DEF Ledger!Next
  <2>3. CASE CreateBug(j)
    BY <2>3, CreateBugReports DEF Ledger!Next
  <2>4. CASE ~(UpdateLabels(j) \/ AddComment(j) \/ CreateBug(j))
    BY <1>5, <2>4
       DEF Step, EnsureManaged, EnsureManagedRaises, GetIssueState, FindMarker,
           TransitionToAny, FindBug, FindBugRaises, Finish
  <2>5. QED
    BY <2>1, <2>2, <2>3, <2>4
<1>6. ASSUME NEW q \in wire, ApplyLate(q)
      PROVE  UNCHANGED <<labels, comments, bugs>>
  BY <1>6 DEF Consistent
<1>7. QED
  BY <1>1, <1>2, <1>3, <1>4, <1>5, <1>6 DEF Next

(* The engine implements the ledger.                                       *)
THEOREM RefinesLedger ==
  ASSUME ~LargeProject, ~LateWrites
  PROVE  Spec => ImplementsLedger
<1>1. Init => Ledger!Init
  BY InitLedger
<1>2. TypeOK /\ Located /\ Consistent /\ [Next]_vars
        => [Ledger!Next]_(Ledger!ledgerVars)
  BY NextLedger DEF Ledger!ledgerVars
<1>3. QED
  BY <1>1, <1>2, ConsistentAlways, PTL DEF Spec, ImplementsLedger, Ledger!Spec

(* A bug is created only on an issue that shows FAIL and carries the run's *)
(* comment.                                                                *)
THEOREM DefectsFollowFailures ==
  ASSUME ~LateWrites
  PROVE  Spec => DefectFollowsVerifiedFailure
<1>1. ASSUME TypeOK, Located, Consistent, [Next]_vars
      PROVE  \A k \in Keys, r \in Runs : bugs'[k][r] # bugs[k][r] =>
               labels[k] = {"saqa-ci-fail"} /\ comments[k][r] > 0
  <2>1. ASSUME NEW j \in Jobs, CreateBug(j)
        PROVE  \A k \in Keys, r \in Runs : bugs'[k][r] # bugs[k][r] =>
                 labels[k] = {"saqa-ci-fail"} /\ comments[k][r] > 0
    <3>1. /\ comments[cur[j]][run[j]] = 1 /\ labels[cur[j]] = {"saqa-ci-fail"}
      BY <1>1, <2>1 DEF CreateBug, Consistent, ReadsHold, Published, Recorded, NeedsBug, run_label
    <3>2. \A k \in Keys, r \in Runs : bugs'[k][r] # bugs[k][r] => k = cur[j] /\ r = run[j]
      BY <1>1, <2>1 DEF CreateBug, PostBug, TypeOK
    <3> QED BY <3>1, <3>2
  <2>2. CASE ~\E j \in Jobs : CreateBug(j)
    <3>1. wire = {}
      BY <1>1 DEF Consistent
    <3>2. UNCHANGED bugs
      BY <1>1, <2>2, <3>1
         DEF Next, vars, jiraVars, Deliver, Rerun, Bootstrap, Start, Kill, Step, EnsureManaged,
             EnsureManagedRaises, GetIssueState, UpdateLabels, FindMarker, AddComment,
             TransitionToAny, FindBug, FindBugRaises, Finish
    <3> QED BY <3>2
  <2> QED BY <2>1, <2>2
<1>2. TypeOK /\ Located /\ Consistent /\ [Next]_vars =>
        [\A k \in Keys, r \in Runs : bugs'[k][r] # bugs[k][r] =>
           labels[k] = {"saqa-ci-fail"} /\ comments[k][r] > 0]_bugs
  BY <1>1
<1>3. QED
  BY <1>2, ConsistentAlways, PTL DEF Spec, DefectFollowsVerifiedFailure

-----------------------------------------------------------------------------
(***************************************************************************)
(* Before the bootstrap is complete every job raises in                    *)
(* ensure_managed_issues, so nothing is written and nothing is in flight.  *)
(***************************************************************************)
Untouched ==
  /\ NothingBeforeBootstrap
  /\ managed # Keys => /\ wire = {}
                       /\ \A j \in Jobs : pc[j] \in {"idle", "ensure"}

LEMMA NextUntouched ==
  ASSUME TypeOK, Located, Untouched, [Next]_vars
  PROVE  Untouched'
<1> USE DEF counters, jobVars, jiraVars
<1>1. managed' = Keys => Untouched'
  BY DEF Untouched, NothingBeforeBootstrap
<1>2. CASE managed = Keys
  <2>1. managed' = Keys
    BY <1>2 DEF Next, vars, Deliver, Rerun, Bootstrap, Start, Kill, ApplyLate, Step,
                EnsureManaged, EnsureManagedRaises, GetIssueState, UpdateLabels,
                FindMarker, AddComment, TransitionToAny, FindBug, FindBugRaises,
                CreateBug, Finish
  <2>2. QED
    BY <1>1, <2>1
<1>3. CASE managed # Keys
  <2>1. wire = {} /\ \A j \in Jobs : pc[j] \in {"idle", "ensure"}
    BY <1>3 DEF Untouched
  <2>2. /\ UNCHANGED <<labels, status, comments, bugs>>
        /\ managed' # Keys => wire' = {} /\ \A j \in Jobs : pc'[j] \in {"idle", "ensure"}
    <3>1. CASE UNCHANGED vars
      BY <2>1, <3>1 DEF vars
    <3>2. ASSUME NEW r \in Runs, Deliver(r) \/ Rerun(r)
          PROVE  UNCHANGED <<pc, wire, labels, status, comments, bugs>>
      BY <3>2 DEF Deliver, Rerun
    <3>3. ASSUME NEW k \in Keys, Bootstrap(k)
          PROVE  UNCHANGED <<pc, wire, labels, status, comments, bugs>>
      BY <3>3 DEF Bootstrap
    <3>4. ASSUME NEW j \in Jobs, Start(j)
          PROVE  /\ UNCHANGED <<wire, labels, status, comments, bugs>>
                 /\ \A i \in Jobs : pc'[i] \in {"idle", "ensure"}
      BY <2>1, <3>4 DEF Start, TypeOK
    <3>5. ASSUME NEW j \in Jobs, Step(j)
          PROVE  /\ UNCHANGED <<wire, labels, status, comments, bugs>>
                 /\ \A i \in Jobs : pc'[i] \in {"idle", "ensure"}
      <4>1. EnsureManagedRaises(j)
        BY <1>3, <2>1, <3>5
           DEF Step, EnsureManaged, GetIssueState, UpdateLabels, FindMarker,
               AddComment, TransitionToAny, FindBug, FindBugRaises, CreateBug, Finish
      <4>2. QED
        BY <2>1, <4>1 DEF EnsureManagedRaises, Release, TypeOK
    <3>6. ASSUME NEW j \in Jobs, Kill(j)
          PROVE  /\ wire' = {} /\ UNCHANGED <<labels, status, comments, bugs>>
                 /\ \A i \in Jobs : pc'[i] \in {"idle", "ensure"}
      <4>1. InFlight(j) = {}
        BY <2>1 DEF InFlight
      <4>2. QED
        BY <2>1, <3>6, <4>1 DEF Kill, Release, TypeOK
    <3>7. QED
      BY <2>1, <3>1, <3>2, <3>3, <3>4, <3>5, <3>6 DEF Next
  <2>3. QED
    BY <1>3, <2>2 DEF Untouched, NothingBeforeBootstrap
<1>4. QED
  BY <1>2, <1>3

(* No trace is left on any issue before all of them exist, whatever the    *)
(* size of the project and however late Jira applies a request.            *)
THEOREM NothingBefore == Spec => []NothingBeforeBootstrap
<1>1. Init => Untouched
  BY DEF Init, Untouched, NothingBeforeBootstrap
<1>2. Untouched => NothingBeforeBootstrap
  BY DEF Untouched
<1>3. TypeOK /\ Located /\ Untouched /\ [Next]_vars => Untouched'
  BY NextUntouched
<1>4. QED
  BY <1>1, <1>2, <1>3, TypeCorrect, PTL DEF Spec

-----------------------------------------------------------------------------
(***************************************************************************)
(* What late writes cost.  A second bug or comment needs a request that    *)
(* outlived its job; each such request has a kill of its own.  n counts    *)
(* what Jira has, Sending that a job is about to post one more, Flying     *)
(* that a request for one more is still on its way.                        *)
(***************************************************************************)
Sending(kind, k, r) == \E j \in Jobs : pc[j] = kind /\ cur[j] = k /\ run[j] = r
Flying(kind, k, r)  == [kind |-> kind, key |-> k, run |-> r] \in wire

Paid(n, kind, k, r) ==
  /\ n <= 1 + kills
  /\ Sending(kind, k, r) => n <= kills
  /\ Flying(kind, k, r) => n <= kills
  /\ Sending(kind, k, r) /\ Flying(kind, k, r) => n < kills

Bounded ==
  /\ wire # {} => kills > 0
  /\ \A k \in Keys, r \in Runs :
       /\ ~LargeProject => Paid(bugs[k][r], "create", k, r)
       /\ Paid(comments[k][r], "comment", k, r)

(* One job of the group at a time, whatever Jira does. *)
LEMMA NextExclusive ==
  ASSUME TypeOK, MutualExclusion, [Next]_vars
  PROVE  MutualExclusion'
<1>1. CASE UNCHANGED pc
  BY <1>1 DEF MutualExclusion
<1>2. ASSUME NEW j \in Jobs, Start(j) PROVE MutualExclusion'
  BY <1>2 DEF Start, GroupFree, MutualExclusion, TypeOK
<1>3. ASSUME NEW j \in Jobs, NEW location, pc[j] # "idle", pc' = [pc EXCEPT ![j] = location]
      PROVE  MutualExclusion'
  BY <1>3 DEF MutualExclusion, TypeOK
<1>4. ASSUME NEW j \in Jobs, Step(j) \/ Kill(j) PROVE MutualExclusion'
  <2>1. pc[j] # "idle" /\ \E location : pc' = [pc EXCEPT ![j] = location]
    BY <1>4 DEF Step, Kill, EnsureManaged, EnsureManagedRaises, GetIssueState, UpdateLabels,
                FindMarker, AddComment, TransitionToAny, FindBug, FindBugRaises, CreateBug,
                Finish, Release, Goto, NextKey, Continue
  <2> QED BY <1>3, <2>1
<1> QED BY <1>1, <1>2, <1>4 DEF Next, vars, jobVars, Deliver, Rerun, Bootstrap, ApplyLate

(* A step after which no more is sent, on its way, or there. *)
LEMMA QuietStep ==
  ASSUME Bounded, UNCHANGED <<bugs, comments, wire, kills>>,
         \A i \in Jobs : pc'[i] \in {"comment", "create"} =>
           pc'[i] = pc[i] /\ cur'[i] = cur[i] /\ run'[i] = run[i]
  PROVE  Bounded'
<1>1. \A k \in Keys, r \in Runs, kind \in {"comment", "create"} :
        (Sending(kind, k, r))' => Sending(kind, k, r)
  BY DEF Sending
<1>2. \A k \in Keys, r \in Runs, kind \in {"comment", "create"} :
        (Flying(kind, k, r))' <=> Flying(kind, k, r)
  BY DEF Flying
<1> QED BY <1>1, <1>2 DEF Bounded, Paid

LEMMA StepBounded ==
  ASSUME TypeOK, Located, MutualExclusion, Bounded, NEW j \in Jobs, Step(j)
  PROVE  Bounded'
<1> USE DEF jiraVars, counters
<1>1. CASE \/ EnsureManaged(j) \/ EnsureManagedRaises(j) \/ GetIssueState(j) \/ UpdateLabels(j)
           \/ TransitionToAny(j) \/ FindBugRaises(j) \/ Finish(j)
  <2>1. /\ UNCHANGED <<bugs, comments, wire, kills>> /\ pc'[j] \notin {"comment", "create"}
        /\ \A i \in Jobs : i # j => pc'[i] = pc[i] /\ cur'[i] = cur[i] /\ run'[i] = run[i]
    BY <1>1 DEF EnsureManaged, EnsureManagedRaises, GetIssueState, UpdateLabels, TransitionToAny,
                FindBugRaises, Finish, Release, Goto, NextKey, Continue, TypeOK
  <2> QED BY <2>1, QuietStep
<1>2. ASSUME FindMarker(j) \/ FindBug(j), pc'[j] \notin {"comment", "create"} PROVE Bounded'
  <2>1. /\ UNCHANGED <<bugs, comments, wire, kills>>
        /\ \A i \in Jobs : i # j => pc'[i] = pc[i] /\ cur'[i] = cur[i] /\ run'[i] = run[i]
    BY <1>2 DEF FindMarker, FindBug, Goto, NextKey, Continue, TypeOK
  <2> QED BY <1>2, <2>1, QuietStep
<1>3. ASSUME FindMarker(j) \/ FindBug(j), pc'[j] \in {"comment", "create"} PROVE Bounded'
  <2>1. /\ UNCHANGED <<bugs, comments, wire, kills, run, cur>>
        /\ \A i \in Jobs : i # j => pc'[i] = pc[i]
        /\ cur[j] \in Keys /\ run[j] \in Runs
    BY <1>3, JobFacts DEF FindMarker, FindBug, Goto, NextKey, Continue, TypeOK, InIssue
  <2>2. /\ pc'[j] = "comment" => comments[cur[j]][run[j]] = 0
        /\ pc'[j] = "create" /\ ~LargeProject => bugs[cur[j]][run[j]] = 0
    BY <1>3, <2>1 DEF FindMarker, FindBug, SearchMayMiss, Goto, NextKey, Continue, TypeOK
  <2>3. \A k \in Keys, r \in Runs, kind \in {"comment", "create"} :
          /\ (Flying(kind, k, r))' <=> Flying(kind, k, r)
          /\ Flying(kind, k, r) => kills > 0
    BY <2>1 DEF Flying, Bounded
  <2>4. \A k \in Keys, r \in Runs, kind \in {"comment", "create"} :
          (Sending(kind, k, r))' =>
            Sending(kind, k, r) \/ (kind = pc'[j] /\ k = cur[j] /\ r = run[j])
    BY <2>1 DEF Sending
  <2>5. kills \in Nat
    BY DEF TypeOK
  <2> QED BY <2>1, <2>2, <2>3, <2>4, <2>5 DEF Bounded, Paid
<1>4. CASE AddComment(j) \/ CreateBug(j)
  <2> DEFINE kind == pc[j]
  <2>1. /\ kind \in {"comment", "create"} /\ cur[j] \in Keys /\ run[j] \in Runs
        /\ pc'[j] \notin {"comment", "create"} /\ UNCHANGED <<wire, kills>>
        /\ \A i \in Jobs : i # j => pc[i] = "idle" /\ pc'[i] = "idle"
    BY <1>4, JobFacts DEF AddComment, CreateBug, Goto, NextKey, Continue, TypeOK, InIssue, MutualExclusion
  <2>2. \A k \in Keys, r \in Runs, x \in {"comment", "create"} :
          ~(Sending(x, k, r))' /\ ((Flying(x, k, r))' <=> Flying(x, k, r))
    BY <2>1 DEF Sending, Flying
  <2>3. Sending(kind, cur[j], run[j])
    BY DEF Sending
  <2>4. \A k \in Keys, r \in Runs : comments[k][r] \in Nat /\ bugs[k][r] \in Nat
    BY DEF TypeOK
  <2>5. kills \in Nat
    BY DEF TypeOK
  <2>6. CASE AddComment(j)
    <3>1. /\ kind = "comment" /\ bugs' = bugs
          /\ \A k \in Keys, r \in Runs :
               comments'[k][r] = IF k = cur[j] /\ r = run[j] THEN comments[k][r] + 1 ELSE comments[k][r]
      BY <2>1, <2>6 DEF AddComment, PostComment, TypeOK
    <3> QED BY <2>1, <2>2, <2>3, <2>4, <2>5, <3>1 DEF Bounded, Paid
  <2>7. CASE CreateBug(j)
    <3>1. /\ kind = "create" /\ comments' = comments
          /\ \A k \in Keys, r \in Runs :
               bugs'[k][r] = IF k = cur[j] /\ r = run[j] THEN bugs[k][r] + 1 ELSE bugs[k][r]
      BY <2>1, <2>7 DEF CreateBug, PostBug, TypeOK
    <3> QED BY <2>1, <2>2, <2>3, <2>4, <2>5, <3>1 DEF Bounded, Paid
  <2> QED BY <1>4, <2>6, <2>7
<1> QED BY <1>1, <1>2, <1>3, <1>4 DEF Step

(* A killed job sends nothing more, and at most one request outlives it. *)
LEMMA KillBounded ==
  ASSUME TypeOK, Located, MutualExclusion, Bounded, NEW j \in Jobs, Kill(j)
  PROVE  Bounded'
<1>1. /\ kills \in Nat /\ kills' = kills + 1 /\ UNCHANGED <<bugs, comments>>
      /\ \A k \in Keys, r \in Runs : comments[k][r] \in Nat /\ bugs[k][r] \in Nat
  BY DEF Kill, TypeOK, jiraVars
<1>2. \A i \in Jobs : pc'[i] = "idle"
  BY DEF Kill, Release, MutualExclusion, TypeOK
<1>3. \A k \in Keys, r \in Runs, kind \in {"comment", "create"} : ~(Sending(kind, k, r))'
  BY <1>2 DEF Sending
<1> QED BY <1>1, <1>3 DEF Bounded, Paid

(* What arrives late was paid for when its job was killed. *)
LEMMA LateBounded ==
  ASSUME TypeOK, Bounded, NEW q \in wire, ApplyLate(q)
  PROVE  Bounded'
<1>1. /\ kills \in Nat /\ UNCHANGED <<kills, pc, cur, run>> /\ wire' = wire \ {q}
      /\ \A k \in Keys, r \in Runs : comments[k][r] \in Nat /\ bugs[k][r] \in Nat
  BY DEF ApplyLate, TypeOK, counters, jobVars
<1>2. \A k \in Keys, r \in Runs, kind \in {"comment", "create"} :
        /\ (Sending(kind, k, r))' <=> Sending(kind, k, r)
        /\ (Flying(kind, k, r))' => Flying(kind, k, r)
        /\ q = [kind |-> kind, key |-> k, run |-> r] => ~(Flying(kind, k, r))'
  BY <1>1 DEF Sending, Flying
<1>3. CASE q.kind = "labels"
  <2>1. UNCHANGED <<comments, bugs>>
    BY <1>3 DEF ApplyLate
  <2> QED BY <1>1, <1>2, <2>1 DEF Bounded, Paid
<1>4. CASE q.kind = "comment"
  <2>1. q \in [kind : {"comment", "create"}, key : Keys, run : Runs]
    BY <1>4 DEF TypeOK, Requests
  <2>2. q = [kind |-> "comment", key |-> q.key, run |-> q.run] /\ q.key \in Keys /\ q.run \in Runs
    BY <1>4, <2>1
  <2>3. /\ bugs' = bugs
        /\ \A k \in Keys, r \in Runs :
             comments'[k][r] = IF k = q.key /\ r = q.run THEN comments[k][r] + 1 ELSE comments[k][r]
    BY <1>4, <2>2 DEF ApplyLate, PostComment, TypeOK
  <2>4. Flying("comment", q.key, q.run) /\ ~(Flying("comment", q.key, q.run))'
    BY <1>2, <2>2 DEF Flying
  <2> QED BY <1>1, <1>2, <2>2, <2>3, <2>4 DEF Bounded, Paid
<1>5. CASE q.kind = "create"
  <2>1. q \in [kind : {"comment", "create"}, key : Keys, run : Runs]
    BY <1>5 DEF TypeOK, Requests
  <2>2. q = [kind |-> "create", key |-> q.key, run |-> q.run] /\ q.key \in Keys /\ q.run \in Runs
    BY <1>5, <2>1
  <2>3. /\ comments' = comments
        /\ \A k \in Keys, r \in Runs :
             bugs'[k][r] = IF k = q.key /\ r = q.run THEN bugs[k][r] + 1 ELSE bugs[k][r]
    BY <1>5, <2>2 DEF ApplyLate, PostBug, TypeOK
  <2>4. Flying("create", q.key, q.run) /\ ~(Flying("create", q.key, q.run))'
    BY <1>2, <2>2 DEF Flying
  <2> QED BY <1>1, <1>2, <2>2, <2>3, <2>4 DEF Bounded, Paid
<1> QED BY <1>3, <1>4, <1>5 DEF ApplyLate

LEMMA NextBounded ==
  ASSUME TypeOK, Located, MutualExclusion, Bounded, [Next]_vars
  PROVE  Bounded'
<1> USE DEF jobVars, jiraVars, counters
<1>1. CASE UNCHANGED vars
  BY <1>1, QuietStep DEF vars
<1>2. ASSUME NEW r \in Runs, Deliver(r) \/ Rerun(r) PROVE Bounded'
  BY <1>2, QuietStep DEF Deliver, Rerun
<1>3. ASSUME NEW k \in Keys, Bootstrap(k) PROVE Bounded'
  BY <1>3, QuietStep DEF Bootstrap
<1>4. ASSUME NEW j \in Jobs, Start(j) PROVE Bounded'
  <2>1. /\ UNCHANGED <<bugs, comments, wire, kills>>
        /\ \A i \in Jobs : pc'[i] \in {"idle", "ensure"}
    BY <1>4 DEF Start, GroupFree, TypeOK
  <2> QED BY <2>1, QuietStep
<1>5. ASSUME NEW j \in Jobs, Step(j) PROVE Bounded'
  BY <1>5, StepBounded
<1>6. ASSUME NEW j \in Jobs, Kill(j) PROVE Bounded'
  BY <1>6, KillBounded
<1>7. ASSUME NEW q \in wire, ApplyLate(q) PROVE Bounded'
  BY <1>7, LateBounded
<1> QED BY <1>1, <1>2, <1>3, <1>4, <1>5, <1>6, <1>7 DEF Next

(* However late Jira applies the requests of killed jobs, and however      *)
(* large the project, a run has on an issue at most one comment more than  *)
(* jobs were killed, for any number of deliveries; and at most so many     *)
(* bugs, as long as the search returns the whole project                   *)
(* (find_project_issues, add_comment_once).                                *)
THEOREM CostOfKills ==
  Spec => [](\A k \in Keys, r \in Runs :
               comments[k][r] <= 1 + kills /\ (~LargeProject => bugs[k][r] <= 1 + kills))
<1>1. Init => MutualExclusion /\ Bounded
  BY DEF Init, MutualExclusion, Bounded, Paid, Sending, Flying
<1>2. /\ TypeOK /\ Located /\ MutualExclusion /\ Bounded /\ [Next]_vars
      => MutualExclusion' /\ Bounded'
  BY NextExclusive, NextBounded
<1>3. Bounded => \A k \in Keys, r \in Runs :
                   comments[k][r] <= 1 + kills /\ (~LargeProject => bugs[k][r] <= 1 + kills)
  BY DEF Bounded, Paid
<1>4. QED
  BY <1>1, <1>2, <1>3, TypeCorrect, PTL DEF Spec

(* So nothing but kills breeds duplicates while the search is complete.    *)
THEOREM DuplicatesBounded ==
  ASSUME ~LargeProject
  PROVE  Spec => []DuplicatesBoundedByKills
<1>1. (\A k \in Keys, r \in Runs :
         comments[k][r] <= 1 + kills /\ (~LargeProject => bugs[k][r] <= 1 + kills))
      => DuplicatesBoundedByKills
  BY DEF DuplicatesBoundedByKills
<1>2. QED
  BY <1>1, CostOfKills, PTL
=============================================================================
