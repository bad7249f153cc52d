--------------------------- MODULE RetentionAudit ---------------------------
(***************************************************************************)
(* The daily audit of retained evidence (saqa-artifact-retention.yml,      *)
(* scripts/audit_artifact_retention.py) beside the runs it audits (GitHub, *)
(* external).  Main, its runs and their artifacts are asked for in three   *)
(* calls; in between main may move, a run may be started again, an         *)
(* artifact may be uploaded, and time passes.  One audit is enough: each   *)
(* starts with nothing on a runner of its own.                             *)
(***************************************************************************)
EXTENDS Naturals, Sequences

CONSTANTS
  Domains,       \* the mandatory workflows
  Retention,     \* days an artifact is kept
  MinRetention,  \* --min-retention-hours, in days
  MaxDay, MaxMain, MaxRuns, MaxAttempts  \* bounds on days, commits, runs and attempts

ASSUME RetentionAssumption ==
  /\ {Retention, MinRetention, MaxDay, MaxMain, MaxRuns} \subseteq Nat
  /\ MaxAttempts \in Nat \ {0}

VARIABLES
  day,        \* the clock
  main,       \* the commit of main
  runs,       \* by run id: [domain, sha, event, attempt, concluded]
  artifacts,  \* [run, attempt, expires]
  listing,    \* what the audit has so far: "nothing", "main", "runs", "artifacts" or "all"
  main_sha, listed_runs, listed_artifacts,  \* what it was told
  audit,      \* the status of its report
  audit_day   \* the day of its report

auditVars == <<day, main, runs, artifacts, listing, main_sha, listed_runs, listed_artifacts, audit, audit_day>>

Conclusions == {"running", "success", "failure"}
ALLOWED_EVENTS == {"push"}
\* "push" stands for both events allowed, "schedule" for any other and for other branches.
Events == {"push", "schedule"}
WorkflowRuns == [domain : Domains, sha : 0..MaxMain, event : Events, attempt : 1..MaxAttempts, concluded : Conclusions]
Artifacts == [run : 1..MaxRuns, attempt : 1..MaxAttempts, expires : 0..(MaxDay + Retention)]

AuditTypeOK ==
  /\ day \in 0..MaxDay /\ main \in 0..MaxMain
  /\ runs \in Seq(WorkflowRuns) /\ Len(runs) <= MaxRuns
  /\ artifacts \subseteq Artifacts
  /\ \A a \in artifacts : a.run \in DOMAIN runs /\ a.attempt <= runs[a.run].attempt
  /\ listing \in {"nothing", "main", "runs", "artifacts", "all"}
  /\ main_sha \in 0..main
  /\ listed_runs \in Seq(WorkflowRuns) /\ Len(listed_runs) <= Len(runs)
  /\ listed_artifacts \subseteq artifacts
  /\ audit \in {"PASS", "FAIL", "UNVERIFIED"} /\ audit_day \in 0..day

AuditInit ==
  /\ day = 0 /\ main = 0 /\ runs = <<>> /\ artifacts = {}
  /\ listing = "nothing" /\ main_sha = 0 /\ listed_runs = <<>> /\ listed_artifacts = {}
  /\ audit = "UNVERIFIED" /\ audit_day = 0

auditorVars == <<listing, main_sha, listed_runs, listed_artifacts, audit, audit_day>>

-----------------------------------------------------------------------------
(* Bound: after the report only time goes on.  Runs add artifacts and      *)
(* never take one away, so nothing that held of the report stops holding.  *)
Watched == listing # "all"

NextDay ==
  /\ day < MaxDay /\ (Watched \/ audit = "PASS")
  /\ day' = day + 1
  /\ UNCHANGED <<main, runs, artifacts, auditorVars>>

PushMain ==
  /\ Watched /\ main < MaxMain /\ main' = main + 1
  /\ UNCHANGED <<day, runs, artifacts, auditorVars>>

StartRun(d, event) ==
  /\ Watched /\ Len(runs) < MaxRuns
  /\ runs' = Append(runs, [domain |-> d, sha |-> main, event |-> event, attempt |-> 1, concluded |-> "running"])
  /\ UNCHANGED <<day, main, artifacts, auditorVars>>

(* Bound: of the events that do not count no run is run again. *)
StartAttempt(i) ==
  /\ Watched /\ runs[i].concluded # "running" /\ runs[i].attempt < MaxAttempts
  /\ runs[i].event \in ALLOWED_EVENTS
  /\ runs' = [runs EXCEPT ![i].attempt = @ + 1, ![i].concluded = "running"]
  /\ UNCHANGED <<day, main, artifacts, auditorVars>>

UploadArtifact(i) ==
  /\ Watched /\ runs[i].concluded = "running"
  /\ ~\E a \in artifacts : a.run = i /\ a.attempt = runs[i].attempt
  /\ artifacts' = artifacts \cup {[run |-> i, attempt |-> runs[i].attempt, expires |-> day + Retention]}
  /\ UNCHANGED <<day, main, runs, auditorVars>>

Conclude(i, conclusion) ==
  /\ Watched /\ runs[i].concluded = "running"
  /\ runs' = [runs EXCEPT ![i].concluded = conclusion]
  /\ UNCHANGED <<day, main, artifacts, auditorVars>>

(* The collection: main's commit, the runs of that commit, all artifacts. *)
ListMain ==
  /\ listing = "nothing"
  /\ listing' = "main" /\ main_sha' = main
  /\ UNCHANGED <<day, main, runs, artifacts, listed_runs, listed_artifacts, audit, audit_day>>

ListRuns ==
  /\ listing = "main"
  /\ listing' = "runs" /\ listed_runs' = runs
  /\ UNCHANGED <<day, main, runs, artifacts, main_sha, listed_artifacts, audit, audit_day>>

ListArtifacts ==
  /\ listing = "runs"
  /\ listing' = "artifacts" /\ listed_artifacts' = artifacts
  /\ UNCHANGED <<day, main, runs, artifacts, main_sha, listed_runs, audit, audit_day>>

(* A call that fails leaves a report that says UNVERIFIED. *)
ListingFails ==
  /\ listing \in {"nothing", "main", "runs"} /\ listing' = "all"
  /\ main_sha' = 0 /\ listed_runs' = <<>>
  /\ UNCHANGED <<day, main, runs, artifacts, listed_artifacts, audit, audit_day>>

_eligible_run(i, d) ==
  listed_runs[i].domain = d /\ listed_runs[i].sha = main_sha /\ listed_runs[i].event \in ALLOWED_EVENTS

\* Mutant: an artifact only has to exist still.
artifact_kept_today(a) == a.expires > day

(* An artifact counts if it outlives the required window. *)
artifact_kept(a) == a.expires > day + MinRetention

(* It must not predate the listed attempt of its run. *)
artifact_of(a, i) == a.run = i /\ a.attempt >= listed_runs[i].attempt

(* The newest eligible run of a domain must have succeeded, and one of its *)
(* artifacts must count.                                                   *)
domain_passes(d) ==
  \E i \in DOMAIN listed_runs :
    /\ _eligible_run(i, d)
    /\ \A j \in DOMAIN listed_runs : _eligible_run(j, d) => j <= i
    /\ listed_runs[i].concluded = "success"
    /\ \E a \in listed_artifacts : artifact_of(a, i) /\ artifact_kept(a)

Audit ==
  /\ listing = "artifacts"
  /\ listing' = "all" /\ listed_artifacts' = {}
  /\ audit' = IF \A d \in Domains : domain_passes(d) THEN "PASS" ELSE "FAIL"
  /\ audit_day' = day
  /\ UNCHANGED <<day, main, runs, artifacts, main_sha, listed_runs>>

AuditNext ==
  \/ NextDay \/ PushMain
  \/ \E d \in Domains, event \in Events : StartRun(d, event)
  \/ \E i \in DOMAIN runs :
       StartAttempt(i) \/ UploadArtifact(i) \/ \E c \in {"success", "failure"} : Conclude(i, c)
  \/ ListMain \/ ListRuns \/ ListArtifacts \/ ListingFails \/ Audit

AuditSpec == AuditInit /\ [][AuditNext]_auditVars

-----------------------------------------------------------------------------
(* What a PASS promises lasts: for the days of the window each domain      *)
(* still has an artifact of the audited commit that has not expired.       *)
ReadyOutlivesWindow ==
  audit = "PASS" /\ day <= audit_day + MinRetention =>
    \A d \in Domains : \E a \in artifacts :
      runs[a.run].domain = d /\ runs[a.run].sha = main_sha /\ a.expires > day

(* A PASS never rests on evidence that a failed attempt left before the    *)
(* successful one, on a scheduled run, nor on a run that a newer one of    *)
(* the same commit and an allowed event had replaced when the runs were    *)
(* listed.  An artifact of an attempt newer than the listed one counts.    *)
ReadyHasOwnEvidence ==
  audit = "PASS" =>
    \A d \in Domains : \E a \in artifacts :
      /\ a.run \in DOMAIN listed_runs
      /\ _eligible_run(a.run, d)
      /\ listed_runs[a.run].concluded = "success" /\ a.attempt >= listed_runs[a.run].attempt
      /\ \A j \in (a.run + 1)..Len(listed_runs) : ~_eligible_run(j, d)

(* A PASS rests on evidence of its own that lasts. *)
ReadyIsRetained == ReadyOutlivesWindow /\ ReadyHasOwnEvidence
=============================================================================
