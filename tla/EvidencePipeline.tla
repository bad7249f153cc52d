-------------------------- MODULE EvidencePipeline --------------------------
(***************************************************************************)
(* From the results of executors to a release report, in one workspace:    *)
(* the aggregation of results into a manifest with a digest                *)
(* (saqa/result_aggregation.py, saqa/evidence.py) and the report that      *)
(* certifies a commit from the manifest (scripts/generate_release_report.  *)
(* py).  Results stay when the commit changes, writes are not atomic, and  *)
(* a process may die between any two of its steps.                         *)
(***************************************************************************)
EXTENDS Naturals, FiniteSets

CONSTANTS
  TestIds,     \* test_id of a result
  Commits,     \* commits that are tested one after the other
  Outcomes,    \* the statuses that executors report
  MaxAge,      \* SAQA_MAX_EVIDENCE_AGE_HOURS
  MaxHour,     \* bound on the clock
  MaxResults   \* bound on the results that executors leave

ResultStatuses == {"PASS", "FAIL", "BLOCKED", "UNVERIFIED", "N/A"}

ASSUME EvidenceAssumption ==
  /\ Outcomes \subseteq ResultStatuses
  /\ IsFiniteSet(TestIds) /\ IsFiniteSet(Commits) /\ Commits # {}
  /\ {MaxAge, MaxHour, MaxResults} \subseteq Nat

VARIABLES
  hour,        \* the clock
  commit,      \* the tested commit
  executed,    \* how many results executors left so far
  results,     \* files of the executors: [id, status, tested_sha, observed_at]
  manifest,    \* "none", "torn" or "written"
  manifestRecords,  \* what a written manifest holds
  writing,     \* the process that runs: "none", "aggregate", "report"
  asked,       \* commit and hour of the last report that was begun
  releaseReport     \* the release report: [certified, sha, hour, of], or NoReport

pipelineVars == <<hour, commit, executed, results, manifest, manifestRecords, writing, asked, releaseReport>>

\* The last: a result without a time, which no manifest takes.
Hours == 0..MaxHour
UnknownTime == MaxHour + 1
ManifestStatuses == {"PASS", "FAIL", "BLOCKED", "UNVERIFIED", "NOT_APPLICABLE"}
ResultFiles == [id : TestIds, status : ResultStatuses, tested_sha : Commits, observed_at : Hours \cup {UnknownTime}]
EvidenceRecords == [id : TestIds, status : ManifestStatuses, tested_sha : Commits, observed_at : Hours]
NoReport == [certified |-> FALSE, sha |-> CHOOSE c \in Commits : TRUE, hour |-> 0, of |-> {}]

PipelineTypeOK ==
  /\ hour \in Hours
  /\ commit \in Commits
  /\ executed \in 0..MaxResults
  /\ results \subseteq ResultFiles
  /\ manifest \in {"none", "torn", "written"}
  /\ manifestRecords \subseteq EvidenceRecords
  /\ manifest = "written" => manifestRecords # {}
  /\ writing \in {"none", "aggregate", "report"}
  /\ asked \in [sha : Commits, hour : Hours]
  /\ releaseReport \in [certified : BOOLEAN, sha : Commits, hour : Hours, of : SUBSET EvidenceRecords]

PipelineInit ==
  /\ hour = 0 /\ commit \in Commits
  /\ executed = 0 /\ results = {} /\ manifest = "none" /\ manifestRecords = {} /\ writing = "none"
  /\ asked = [sha |-> commit, hour |-> 0] /\ releaseReport = NoReport

-----------------------------------------------------------------------------
(* An executor overwrites the file of its test. *)
Execute(t, s, observed) ==
  /\ writing = "none"
  /\ observed \in {hour, UnknownTime}
  /\ executed < MaxResults /\ executed' = executed + 1
  /\ results' = {r \in results : r.id # t}
                  \cup {[id |-> t, status |-> s, tested_sha |-> commit, observed_at |-> observed]}
  /\ UNCHANGED <<hour, commit, manifest, manifestRecords, writing, asked, releaseReport>>

PassTime ==
  /\ hour < MaxHour /\ hour' = hour + 1
  /\ UNCHANGED <<commit, executed, results, manifest, manifestRecords, writing, asked, releaseReport>>

Checkout(c) ==
  /\ writing = "none" /\ c # commit /\ commit' = c
  /\ UNCHANGED <<hour, executed, results, manifest, manifestRecords, writing, asked, releaseReport>>

(* N/A becomes NOT_APPLICABLE; one result without a time refuses them all. *)
canonical(s) == IF s = "N/A" THEN "NOT_APPLICABLE" ELSE s
load_results == {[r EXCEPT !.status = canonical(r.status)] : r \in results}
loadable == results # {} /\ \A r \in results : r.observed_at # UnknownTime

(* aggregate: read everything, then write in place. *)
BeginAggregate ==
  /\ writing = "none" /\ loadable
  /\ writing' = "aggregate" /\ manifest' = "torn"
  /\ UNCHANGED <<hour, commit, executed, results, manifestRecords, asked, releaseReport>>

EndAggregate ==
  /\ writing = "aggregate"
  /\ writing' = "none" /\ manifest' = "written" /\ manifestRecords' = load_results
  /\ UNCHANGED <<hour, commit, executed, results, asked, releaseReport>>

verify_manifest == manifest = "written"

\* Mutant: the report of an earlier run stays until there is a new one.
BeginReportOver ==
  /\ writing = "none"
  /\ writing' = "report" /\ asked' = [sha |-> commit, hour |-> hour]
  /\ UNCHANGED <<hour, commit, executed, results, manifest, manifestRecords, releaseReport>>

(* The old report goes first. *)
BeginReport ==
  /\ writing = "none"
  /\ writing' = "report" /\ asked' = [sha |-> commit, hour |-> hour]
  /\ releaseReport' = NoReport
  /\ UNCHANGED <<hour, commit, executed, results, manifest, manifestRecords>>

(* Certified only if every record is a PASS. *)
mandatory_ok(rs) == \A r \in rs : r.status = "PASS"

(* No report at all for records of another commit or too old. *)
provenance(rs) == \A r \in rs : r.tested_sha = commit /\ hour - r.observed_at <= MaxAge

EndReport ==
  /\ writing = "report"
  /\ writing' = "none"
  /\ releaseReport' = IF verify_manifest /\ provenance(manifestRecords)
               THEN [certified |-> mandatory_ok(manifestRecords), sha |-> commit, hour |-> hour, of |-> manifestRecords]
               ELSE releaseReport
  /\ UNCHANGED <<hour, commit, executed, results, manifest, manifestRecords, asked>>

Die ==
  /\ writing # "none" /\ writing' = "none"
  /\ UNCHANGED <<hour, commit, executed, results, manifest, manifestRecords, asked, releaseReport>>

PipelineNext ==
  \/ \E t \in TestIds, s \in Outcomes, o \in Hours \cup {UnknownTime} : Execute(t, s, o)
  \/ PassTime
  \/ \E c \in Commits : Checkout(c)
  \/ BeginAggregate \/ EndAggregate \/ BeginReport \/ EndReport \/ Die

PipelineSpec == PipelineInit /\ [][PipelineNext]_pipelineVars

-----------------------------------------------------------------------------
(* A certified report rests on results that were all PASS, of the commit   *)
(* it names and observed within the age limit before it -- whatever stayed *)
(* in the workspace from other commits, earlier runs and dead processes -- *)
(* and it is the report of the last generation that was begun: one that    *)
(* fails or dies leaves no certificate of an earlier one.                  *)
CertifiedIsEarned ==
  releaseReport.certified =>
    /\ releaseReport.of # {}
    /\ \A r \in releaseReport.of :
         /\ r.status = "PASS" /\ r.tested_sha = releaseReport.sha
         /\ r.observed_at <= releaseReport.hour /\ releaseReport.hour <= r.observed_at + MaxAge
    /\ releaseReport.sha = asked.sha /\ asked.hour <= releaseReport.hour
=============================================================================
