------------------------- MODULE ReleaseCertification -------------------------
(***************************************************************************)
(* qa-release-certification.yml and scripts/qa_release_gate.py: when CI of *)
(* main completes, or by hand, a readiness job waits for the mandatory     *)
(* workflows of the commit and checks their artifacts; a certify job then  *)
(* lists the runs again and evaluates the gate.  Meanwhile main moves,     *)
(* runs start, end and are re-run, and time passes.                        *)
(*                                                                         *)
(* An artifact is the time it was uploaded; a certificate is what the      *)
(* attested release-certification.json says.                               *)
(***************************************************************************)
EXTENDS Integers, FiniteSets

CONSTANTS
  Mandatory,         \* MANDATORY, or a part of it
  Commits,           \* the commits of main that are followed, in the order of their push
  LastCommit,        \* bound: the last push to main
  MaxRunsPerCommit,  \* bound: runs of one workflow on one commit
  RunConclusions,    \* how a run may end by itself
  MaxAge,            \* SAQA_RELEASE_MAX_AGE_HOURS
  MAX_ATTEMPTS,      \* rounds of the readiness job
  Horizon,           \* bound: the last instant
  MaxReruns,         \* bound: extra runs and re-runs
  MaxRequests,       \* bound: certifications requested
  MaxKills           \* bound: certification jobs that die or fail

RunIds == Mandatory \X Commits \X (1..MaxRunsPerCommit)
WorkflowOf(id) == id[1]
CommitOf(id)   == id[2]
None == -1

ASSUME ConstantsAssumption ==
  /\ Mandatory # {}
  /\ Mandatory \subseteq {"CI", "Contract", "Accessibility", "Mobile", "k6"}
  /\ LastCommit \in Nat \ {0} /\ Commits \subseteq 1..LastCommit
  /\ MaxRunsPerCommit \in Nat \ {0}
  /\ RunConclusions \subseteq STRING
  /\ {MaxAge, MAX_ATTEMPTS, Horizon, MaxReruns, MaxRequests, MaxKills} \subseteq Nat

(* The first run of a workflow on a commit is the push's; CI is run again  *)
(* by its weekly schedule, the contract gate and k6 by hand.               *)
EventOf(id) ==
  IF id[3] = 1 THEN "push"
  ELSE IF WorkflowOf(id) = "CI" THEN "schedule" ELSE "workflow_dispatch"
ALLOWED_RELEASE_EVENTS == {"push", "workflow_dispatch"}

VARIABLES
  head,          \* the commit of main
  clock,
  runs,          \* runs[id]: the latest attempt of a run, and its newest artifact
  past,          \* past[id]: its completed attempts
  waiting,       \* waiting[c]: a certification of c waits for its group
  cert,          \* cert[c]: the certification of c that runs, or what is left of it
  certificates,
  reruns, requests, kills

github == <<head, runs, past>>
counters == <<reruns, requests, kills>>
vars == <<head, clock, runs, past, waiting, cert, certificates, counters>>

-----------------------------------------------------------------------------
Times == 0..Horizon
Statuses == {"absent", "in_progress", "completed"}
Conclusions == RunConclusions \cup {"cancelled"}
Absent == [status |-> "absent", conclusion |-> "", attempt |-> 0, started |-> 0,
           artifact |-> None]
RunStates == [status : Statuses, conclusion : Conclusions \cup {""}, attempt : Nat,
              started : Times, artifact : Times \cup {None}]
Attempts == [attempt : Nat, started : Times, conclusion : Conclusions,
             artifact : Times \cup {None}]

(* What a job keeps of a listing: the latest run of each workflow. *)
NoRun == [id |-> <<>>, run |-> Absent]
Listed == [id : RunIds, run : RunStates] \cup {NoRun}
NoListing == [w \in Mandatory |-> NoRun]

(* "ready" is the readiness job's output, "refused" a certification whose  *)
(* certify job has failed and may be run again on that output.             *)
Stages == {"idle", "resolve", "poll", "list", "final", "artifacts", "ready", "gate", "refused"}
IdleCert == [stage |-> "idle", polls |-> 0, listing |-> NoListing, todo |-> {},
             listed |-> 0, main |-> 1]
CertStates ==
  [stage : Stages, polls : Nat, listing : [Mandatory -> Listed], todo : SUBSET Mandatory,
   listed : Times, main : 1..LastCommit]
Certificates ==
  [commit : Commits, at : Times, listed : Times, main : 1..LastCommit,
   evidence : [Mandatory -> RunIds \X Nat]]

TypeOK ==
  /\ head \in 1..LastCommit
  /\ clock \in Times
  /\ runs \in [RunIds -> RunStates]
  /\ past \in [RunIds -> SUBSET Attempts]
  /\ waiting \in [Commits -> BOOLEAN]
  /\ cert \in [Commits -> CertStates]
  /\ certificates \subseteq Certificates
  /\ reruns \in Nat /\ requests \in Nat /\ kills \in Nat

FirstRuns(c) == {id \in RunIds : CommitOf(id) = c /\ id[3] = 1}

Started(attempt, artifact) ==
  [status |-> "in_progress", conclusion |-> "", attempt |-> attempt, started |-> clock,
   artifact |-> artifact]

Init ==
  /\ head = 1 /\ clock = 0
  /\ \E ids \in SUBSET FirstRuns(1) :
       runs = [id \in RunIds |-> IF id \in ids THEN Started(1, None) ELSE Absent]
  /\ past = [id \in RunIds |-> {}]
  /\ waiting = [c \in Commits |-> FALSE]
  /\ cert = [c \in Commits |-> IdleCert]
  /\ certificates = {}
  /\ reruns = 0 /\ requests = 0 /\ kills = 0

-----------------------------------------------------------------------------
(***************************************************************************)
(* GitHub.                                                                 *)
(***************************************************************************)
AttemptOf(run, conclusion) ==
  [attempt |-> run.attempt, started |-> run.started, conclusion |-> conclusion,
   artifact |-> run.artifact]

(* The runs of ids start; a re-run keeps the artifacts of the run.  They   *)
(* cancel what runs in their groups: one group per workflow on main, but   *)
(* for the scheduled CI run, which has a group of its own.                 *)
StartRuns(ids, groups) ==
  LET cancelled == {id \in RunIds \ ids :
                      /\ runs[id].status = "in_progress"
                      /\ WorkflowOf(id) \in groups /\ EventOf(id) # "schedule"}
  IN  /\ runs' = [id \in RunIds |->
                    IF id \in ids THEN Started(runs[id].attempt + 1, runs[id].artifact)
                    ELSE IF id \in cancelled
                         THEN [runs[id] EXCEPT !.status = "completed", !.conclusion = "cancelled"]
                         ELSE runs[id]]
      /\ past' = [id \in RunIds |->
                    IF id \in cancelled THEN past[id] \cup {AttemptOf(runs[id], "cancelled")}
                    ELSE past[id]]

StartRun(id) ==
  StartRuns({id}, IF EventOf(id) = "schedule" THEN {} ELSE {WorkflowOf(id)})

(* A push starts the mandatory workflows, but for one that is disabled.   *)
Push ==
  /\ head < LastCommit
  /\ head' = head + 1
  /\ \E ids \in SUBSET FirstRuns(head + 1) : StartRuns(ids, Mandatory)
  /\ UNCHANGED <<clock, waiting, cert, certificates, counters>>

(* A scheduled or dispatched run of main's commit. *)
RunAgain(id) ==
  /\ reruns < MaxReruns
  /\ CommitOf(id) = head /\ id[3] > 1
  /\ WorkflowOf(id) \in {"CI", "Contract", "k6"}
  /\ runs[id].status = "absent"
  /\ id[3] > 2 => runs[[id EXCEPT ![3] = @ - 1]].status # "absent"
  /\ StartRun(id)
  /\ reruns' = reruns + 1
  /\ UNCHANGED <<head, clock, waiting, cert, certificates, requests, kills>>

Rerun(id) ==
  /\ reruns < MaxReruns
  /\ runs[id].status = "completed"
  /\ StartRun(id)
  /\ reruns' = reruns + 1
  /\ UNCHANGED <<head, clock, waiting, cert, certificates, requests, kills>>

(* A run that passes has uploaded its artifact (if-no-files-found: error), *)
(* but a re-run of the failed jobs alone leaves the old one in place.      *)
Complete(id) ==
  /\ runs[id].status = "in_progress"
  /\ \E conclusion \in RunConclusions, artifact \in {clock, runs[id].artifact} :
       /\ conclusion = "success" /\ runs[id].attempt = 1 => artifact = clock
       /\ LET run == [runs[id] EXCEPT !.artifact = artifact] IN
          /\ runs' = [runs EXCEPT ![id] = [run EXCEPT !.status = "completed",
                                                      !.conclusion = conclusion]]
          /\ past' = [past EXCEPT ![id] = @ \cup {AttemptOf(run, conclusion)}]
  /\ UNCHANGED <<head, clock, waiting, cert, certificates, counters>>

Tick ==
  /\ clock < Horizon
  /\ clock' = clock + 1
  /\ UNCHANGED <<github, waiting, cert, certificates, counters>>

(* CI of main has completed, or somebody asks; a certification that waits  *)
(* for the group of its commit is replaced by the new one.                 *)
Request(c) ==
  /\ requests < MaxRequests
  /\ c <= head
  /\ waiting' = [waiting EXCEPT ![c] = TRUE]
  /\ requests' = requests + 1
  /\ UNCHANGED <<github, clock, cert, certificates, reruns, kills>>

-----------------------------------------------------------------------------
(***************************************************************************)
(* What the jobs read: the latest run of each workflow on the commit, of   *)
(* main and of an allowed event (select_runs, latest_by_workflow).         *)
(***************************************************************************)

Eligible(w, c) ==
  {id \in RunIds : /\ WorkflowOf(id) = w /\ CommitOf(id) = c
                   /\ EventOf(id) \in ALLOWED_RELEASE_EVENTS
                   /\ runs[id].status # "absent"}

(* Mutant: the first run instead of the last. *)
oldest_by_workflow(c) ==
  [w \in Mandatory |->
     IF Eligible(w, c) = {} THEN NoRun
     ELSE LET oldest == CHOOSE id \in Eligible(w, c) : \A o \in Eligible(w, c) : id[3] <= o[3]
          IN  [id |-> oldest, run |-> runs[oldest]]]

newest(ids) == CHOOSE id \in ids : \A o \in ids : o[3] <= id[3]

latest_by_workflow(c) ==
  [w \in Mandatory |->
     IF Eligible(w, c) = {} THEN NoRun
     ELSE [id |-> newest(Eligible(w, c)), run |-> runs[newest(Eligible(w, c))]]]

(* Mutant: a run as old as allowed is too old. *)
result_early(run) ==
  IF /\ run.status = "completed" /\ run.conclusion = "success"
     /\ clock - run.started < MaxAge
  THEN "PASS" ELSE "UNVERIFIED"

(* Mutant: a run of any age passes. *)
result_ageless(run) ==
  IF run.status = "completed" /\ run.conclusion = "success" THEN "PASS" ELSE "UNVERIFIED"

(* result(), and run_ok of the readiness job, which is result() = "PASS":  *)
(* the clocks of GitHub and of the runner are one here.                    *)
result(run) ==
  CASE run.status = "absent" -> "UNVERIFIED"
    [] run.status = "in_progress" -> "PENDING"
    [] OTHER ->
         IF run.conclusion \in {"failure", "timed_out", "startup_failure"} THEN "FAIL"
         ELSE IF run.conclusion \in {"cancelled", "action_required", "stale"} THEN "BLOCKED"
         ELSE IF run.conclusion # "success" THEN "UNVERIFIED"
         ELSE IF clock - run.started > MaxAge THEN "STALE" ELSE "PASS"

decide(listing) == \A w \in Mandatory : result(listing[w].run) = "PASS"

-----------------------------------------------------------------------------
(***************************************************************************)
(* The certification of commit c.                                          *)
(***************************************************************************)
At(c, stage) == cert[c].stage = stage
Goto(c, stage) == cert' = [cert EXCEPT ![c].stage = stage]
NotReady(c) == cert' = [cert EXCEPT ![c] = IdleCert]

(* A job that starts, or is over, knows nothing of what was listed. *)
Afresh(c, stage) == cert' = [cert EXCEPT ![c] = [IdleCert EXCEPT !.stage = stage]]
JobOnly == UNCHANGED <<github, clock, waiting, certificates, counters>>

(* concurrency: group: saqa-certification-<sha>, nothing is cancelled. *)
Start(c) ==
  /\ waiting[c]
  /\ cert[c].stage \in {"idle", "refused"}
  /\ waiting' = [waiting EXCEPT ![c] = FALSE]
  /\ Afresh(c, "resolve")
  /\ UNCHANGED <<github, clock, certificates, counters>>

(* Each reading of commits/main: a stale commit ends the readiness job.    *)
Resolve(c) ==
  /\ At(c, "resolve")
  /\ IF c = head THEN Goto(c, "poll") ELSE NotReady(c)
  /\ JobOnly

PollMain(c) ==
  /\ At(c, "poll")
  /\ IF c = head THEN Goto(c, "list") ELSE NotReady(c)
  /\ JobOnly

(* Mutant: rounds are not counted. *)
PollRunsUncounted(c) ==
  LET listing == latest_by_workflow(c) IN
  /\ At(c, "list")
  /\ cert' = [cert EXCEPT
       ![c].listing = listing,
       ![c].stage = IF \A w \in Mandatory : listing[w].run.status = "completed"
                    THEN "final" ELSE "poll"]
  /\ JobOnly

(* One round: until every workflow has completed or the rounds are over.   *)
PollRuns(c) ==
  LET listing == latest_by_workflow(c)
      polls == cert[c].polls + 1
      done == \A w \in Mandatory : listing[w].run.status = "completed"
  IN  /\ At(c, "list")
      /\ cert' = [cert EXCEPT ![c] =
                    IF done \/ polls >= MAX_ATTEMPTS
                    THEN [@ EXCEPT !.stage = "final", !.polls = polls, !.listing = listing]
                    ELSE [@ EXCEPT !.stage = "poll", !.polls = polls]]
      /\ JobOnly

(* The last look at main, and the runs' conclusions and ages. *)
FinalCheck(c) ==
  /\ At(c, "final")
  /\ IF c = head /\ decide(cert[c].listing)
     THEN cert' = [cert EXCEPT ![c].stage = "artifacts", ![c].todo = Mandatory]
     ELSE NotReady(c)
  /\ JobOnly

(* Mutant: an artifact of any attempt will do. *)
artifact_ok_any(listed) == listed # NoRun /\ runs[listed.id].artifact # None

(* The artifact belongs to the attempt that was listed, or to a later one. *)
(* The order in which the loop visits the workflows makes no difference.   *)
artifact_ok(listed) == listed # NoRun /\ runs[listed.id].artifact >= listed.run.started

CheckArtifact(c, w) ==
  /\ At(c, "artifacts") /\ w \in cert[c].todo
  /\ IF artifact_ok(cert[c].listing[w])
     THEN IF cert[c].todo = {w} THEN Afresh(c, "ready")
          ELSE cert' = [cert EXCEPT ![c].todo = @ \ {w}]
     ELSE NotReady(c)
  /\ JobOnly

(* The certify job, on another runner: "Collect exact-commit workflow      *)
(* evidence".  The job does not look at main; "main" is kept to say so.    *)
Collect(c) ==
  /\ At(c, "ready")
  /\ cert' = [cert EXCEPT ![c].stage = "gate", ![c].listing = latest_by_workflow(c),
                          ![c].listed = clock, ![c].main = head]
  /\ JobOnly

(* Mutant: the report does not say which attempt. *)
evidence_ids(listing) == [w \in Mandatory |-> <<listing[w].id>>]

evidence(listing) == [w \in Mandatory |-> <<listing[w].id, listing[w].run.attempt>>]

(* qa_release_gate.py: main(), and the attestation of its report. *)
Gate(c) ==
  /\ At(c, "gate")
  /\ LET listing == cert[c].listing IN
     IF decide(listing)
     THEN /\ certificates' = certificates \cup
               {[commit |-> c, at |-> clock, listed |-> cert[c].listed, main |-> cert[c].main,
                 evidence |-> evidence(listing)]}
          /\ NotReady(c)
     ELSE /\ Afresh(c, "refused")
          /\ UNCHANGED certificates
  /\ UNCHANGED <<github, clock, waiting, counters>>

(* "Re-run failed jobs": the certify job again, on the old output.         *)
RerunCertify(c) ==
  /\ At(c, "refused") /\ ~waiting[c]
  /\ reruns < MaxReruns
  /\ reruns' = reruns + 1
  /\ Goto(c, "ready")
  /\ UNCHANGED <<github, clock, waiting, certificates, requests, kills>>

(* timeout-minutes, a lost runner, a GitHub request or an attestation that *)
(* fails.  A certify job that failed may be run again.                     *)
Kill(c) ==
  /\ cert[c].stage \notin {"idle", "refused"}
  /\ kills < MaxKills
  /\ kills' = kills + 1
  /\ IF cert[c].stage \in {"ready", "gate"} THEN Afresh(c, "refused") ELSE NotReady(c)
  /\ UNCHANGED <<github, clock, waiting, certificates, reruns, requests>>

Step(c) ==
  \/ Resolve(c) \/ PollMain(c) \/ PollRuns(c) \/ FinalCheck(c)
  \/ \E w \in Mandatory : CheckArtifact(c, w)
  \/ Collect(c) \/ Gate(c)

Next ==
  \/ Push
  \/ \E c \in Commits : Request(c) \/ Start(c) \/ Step(c) \/ RerunCertify(c) \/ Kill(c)
  \/ \E id \in RunIds : RunAgain(id) \/ Rerun(id) \/ Complete(id)
  \/ Tick

Spec == Init /\ [][Next]_vars

(* A certification that waits gets its group when it is free, and a job    *)
(* goes on.  Runs need not end: the rounds of the readiness job do.        *)
FairSpec ==
  /\ Spec
  /\ \A c \in Commits : WF_vars(Start(c)) /\ WF_vars(Step(c))

-----------------------------------------------------------------------------
(* A certificate names, for every mandatory workflow, an attempt that ran  *)
(* for the commit on main by an allowed event, passed, and had started at  *)
(* most MaxAge before the certificate was given (qa_release_gate.py).      *)
CertificateIsBacked ==
  \A x \in certificates : \A w \in Mandatory :
    LET id == x.evidence[w][1] IN
    /\ WorkflowOf(id) = w /\ CommitOf(id) = x.commit
    /\ EventOf(id) \in ALLOWED_RELEASE_EVENTS
    /\ \E a \in past[id] : /\ a.attempt = x.evidence[w][2]
                           /\ a.conclusion = "success"
                           /\ x.at - a.started <= MaxAge

(* No newer verdict is passed over: an eligible run or attempt newer than  *)
(* the one a certificate names began no earlier than the certify job's     *)
(* listing (latest_by_workflow).                                           *)
NewestVerdictCounts ==
  \A x \in certificates : \A w \in Mandatory :
    LET id == x.evidence[w][1] IN
    \A o \in Eligible(w, x.commit) :
      /\ o[3] > id[3] => \A a \in past[o] : a.started >= x.listed
      /\ \A a \in past[id] : a.attempt > x.evidence[w][2] => a.started >= x.listed

(* A certified commit has, for every mandatory workflow, a passed attempt  *)
(* and an artifact that is not from before that attempt: the evidence that *)
(* the readiness job found is not an older attempt's leftover.             *)
CertifiedHasOwnArtifacts ==
  \A x \in certificates : \A w \in Mandatory :
    \E id \in Eligible(w, x.commit) :
      /\ \E a \in past[id] : /\ a.conclusion = "success"
                             /\ runs[id].artifact >= a.started

(* The certify job saw the certified commit at the head of main            *)
(* (docs/ARTIFACT_RETENTION_AND_RECOVERY.md:17: the gate independently     *)
(* checks current main).                                                   *)
CertifiedIsCurrentMain == \A x \in certificates : x.main = x.commit

(* Every certification that waits is started and comes to its end, also if *)
(* the workflows it waits for never do (MAX_ATTEMPTS).                     *)
RequestIsDecided ==
  \A c \in Commits : waiting[c] ~> ~waiting[c] /\ cert[c].stage \in {"idle", "refused"}

(* Fail-closed is not never: a commit that stays at the head of main with  *)
(* fresh passing runs and their artifacts is certified when asked for,     *)
(* unless a job dies.                                                      *)
Settled(c) ==
  /\ c = head
  /\ \A w \in Mandatory :
       \E id \in Eligible(w, c) :
         /\ \A o \in Eligible(w, c) : o[3] <= id[3]
         /\ runs[id].status = "completed" /\ runs[id].conclusion = "success"
         /\ clock - runs[id].started <= MaxAge
         /\ runs[id].artifact >= runs[id].started
SettledIsCertified ==
  \A c \in Commits, k \in 0..MaxKills :
    waiting[c] /\ Settled(c) /\ kills = k
      ~> ~Settled(c) \/ kills > k \/ \E x \in certificates : x.commit = c
=============================================================================
