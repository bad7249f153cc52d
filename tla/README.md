# A verification project for the SAQA Professional Framework

TLA+ models of the parts of this repository whose correctness depends on order:
deliveries, retries, re-runs, concurrent jobs, crashes, time.  TLC checks small
instances, TLAPS proves theorems for every value of the constants.

`src/...` below is a path of the repository.  `PROJECT.json` maps every
definition of a module to the lines it models.

## 1. Inventory

The framework is a Python package (`src/src/saqa`), a set of scripts
(`src/scripts`) and twenty GitHub Actions workflows (`src/.github/workflows`).
The workflows run tests, the scripts turn what they conclude into evidence, and
the evidence is shown in Jira, in a release certificate and in a quality history.

| component | state | operations | interacts with |
|---|---|---|---|
| Jira synchronization engine: `scripts/sync_jira_ci.py`, `src/saqa/jira.py` | labels, status, comments and bugs of the managed issues QA-1..QA-9 (in Jira) | find the managed issues, update labels, add a comment once, transition, create a bug once | Jira over HTTP; called by both control-plane jobs |
| Jira control plane: `jira-qa-automation.yml`, `jira-nightly-reconciliation.yml`, `scripts/reconcile_jira.py` | the concurrency group `jira-qa-sync` (one running job, one pending) | validate the announced run, collect evidence of its commit, compute domain results; nightly: select a common commit, sync five runs | GitHub runs, jobs and artifacts; the engine |
| Jira bootstrap: `scripts/bootstrap_jira_ci.py` | managed issues | create or repair a managed issue | Jira |
| Quality history: `src/saqa/history.py`, `scripts/generate_qe_observability.py` | one JSON-lines file, one lock file | append, verify | several processes of one machine |
| Release certification: `scripts/qa_release_gate.py`, `qa-release-certification.yml`, `scripts/generate_release_report.py`, `src/saqa/certification.py` | the head of main, five mandatory workflows' runs and artifacts, the certificate | poll until ready, gate, attest | GitHub |
| Artifact retention audit: `scripts/audit_artifact_retention.py`, `saqa-artifact-retention.yml` | none of its own; main, runs and artifacts of GitHub | list main, runs and artifacts, audit | GitHub |
| Test attempt telemetry: `scripts/pytest_attempt_telemetry.py`, `scripts/summarize_test_attempts.py` | the attempts in the memory of a worker, one shard file per worker | record an attempt, write the shard, merge the shards | pytest workers, the rerun plugin, the test step of `saqa-ci.yml` |
| Test stability history: `scripts/test_stability_history.py`, `saqa-test-stability.yml`, `src/saqa/flaky.py` | downloaded JUnit artifacts | select runs, download, build the report | GitHub, artifacts of CI |
| Evidence and aggregation: `evidence.py`, `result_aggregation.py`, `generate_release_report.py`, `ci_evidence.py`, `allure.py`, `contracts.py` | result files, a manifest with its digest, the release report | write, aggregate, verify, report | executors, CI jobs |
| Test data scope: `src/saqa/test_data.py` | registered cleanups | register, close | tests |
| Retry: `src/saqa/retry.py` | none | call again | used by no workflow |
| Native mobile smoke runs: `run_native_android_smoke.py`, `run_native_ios_smoke.py`, `native_mobile.py` | an app on a device, one evidence file | ask the device to install, start and show an app; write the evidence | emulator, simulator |
| Performance gates and baselines: `k6_gate.py`, `build_performance_run_set.py`, `compare_performance_baseline.py`, `performance_run_provenance.py` and two workflows | samples, run sets, artifacts of a run | collect, build, compare; compare collected runs | k6, GitHub artifacts |
| Contract gate and mock service: `api_contract_smoke.py` and others | evidence file | one request, validate the answer | the control plane reads its evidence |
| Security and supply-chain policies: `summarize_trivy_report.py`, `validate_spdx_sbom.py`, `evaluate_container_security_policy.py`, `build_container_security_manifest.py`, `evaluate_vulnerability_policy.py`, `validate_pip_audit_report.py`, `test_quality_report.py` | files about an image; policies whose entries expire | scan, summarize, decide, seal | trivy, syft, pip-audit |
| Accessibility checks: `juice_shop_accessibility_gate.py` | evidence file | drive a browser, judge findings | a target application |
| Browser, API and E2E smoke; database quality gate: `juice_shop_e2e.py`, `webgoat_e2e.py`, `real_web_smoke.py`, `database_quality_gate.py` and others | evidence file | drive one target | a target application |
| Branch protection audit: `audit_branch_protection.py` | none | compare one answer with a policy | GitHub |
| Observability and dashboards | none | append to the history, print reports | quality history |
| CI workflow: `saqa-ci.yml` | runs, jobs, artifacts | trigger, run its jobs | everything above |

What is hard, and the property each component stands or falls with:

* **Engine.** GitHub delivers a run's event any number of times, a run can be
  re-run under the same id, a job can be killed between two requests, and every
  write is "read, then write" without a precondition.  One status label, one
  comment and one bug per issue and run must survive that, a bug must come after
  the label and the comment that explain it, and a sync that gets through must
  leave the issues showing its evidence, whatever it found.
* **Control plane.** Events are lost when the group's pending entry is replaced,
  arrive in any order, and speak of commits main has left.  QA-9 may say PASS
  only if everything on that commit passed; what was lost must come back with
  the nightly; and the nightly must not mix commits.
* **Quality history.** Several processes append to one file; any of them may die
  in the middle of a line.  The chain must stay one chain, and what a caller was
  told is recorded must be found there, or the file must say that it is damaged.
* **Release certification.** The head of main and the runs move while a job
  polls for forty rounds and while a second job attests what the first checked.
* **Attempt telemetry.**  A worker that dies takes the attempts it remembers with
  it, another one passes the rerun: neither a retry nor a crash may end in a
  clean pass.
* **Native smoke.**  A command that timed out may have taken effect, the device
  still has the app of an earlier run and the disk its evidence, and what is
  launched goes by an id: PASS must be about the app of this run.
* **Gates.**  Any step of a script that drives a target may fail, also the orderly
  close after every check passed and the write of the evidence: exit status and
  evidence must agree.
* **Performance.**  Medians at exactly the allowed change, in both directions, and
  medians of zero; an unhealthy baseline must not hide a regression; and what one workflow collects
  another one has to find.
* **Evidence.**  Results outlive the commit they are about, a process dies between
  truncating a file and writing it: a certificate rests on fresh results of its
  own commit.
* **Test data scope.**  Every registered cleanup runs once, in reverse order,
  even if some fail, are interrupted or register others.
* **Retention audit.**  Main, runs and artifacts are listed one after the other
  while all of them change: what was found ready must stay so for the window.
* **Stability history.**  The report is always built, also from half of the
  downloads: what is missing must not look quiet.
* **Container evidence and expiring policies.**  Steps run again leave files of
  different scans side by side; entries expire, findings come and go.

`PROJECT.json` lists every hazard with its line under `hazards`.

## 2. Modules

| module | what it is |
|---|---|
| `SaqaResults` | the pure classification functions of `sync_jira_ci.py`: conclusions to results, results to labels and transitions, the aggregation rules of QA-4, QA-7 and QA-9 |
| `JiraSync` | the engine, one action per HTTP request |
| `IssueLedger` | what `docs/JIRA_CI.md` promises of an issue; `JiraSync` implements it |
| `JiraSyncProofs` | theorems about `JiraSync` |
| `JiraControlPlane` | commits, runs, the concurrency group, the event job and the nightly job |
| `QualityHistory` | append and verify, line by line and partly line by line |
| `HistoryLog` | an append-only log; `QualityHistory` implements it |
| `QualityHistoryProofs` | theorems about `QualityHistory` |
| `ReleaseCertification` | the readiness job, the certify job and the gate; main, runs, artifacts and time around them |
| `ReleaseCertificationProofs` | theorems about `ReleaseCertification` |
| `JiraControlPlaneProofs` | theorems about `JiraControlPlane` |
| `AttemptTelemetry` | the test step: workers, crashes, reruns, shards, their summary |
| `NativeSmoke` | the Android and the iOS smoke run on a device that keeps its apps |
| `GateRun` | ten gate scripts as sequences of steps that may fault |
| `PerformanceSamples` | collecting, building and comparing k6 run sets, and comparing two collected runs |
| `EvidencePipeline` | results, aggregation, manifest and release report in one workspace |
| `TestDataScope` | registering cleanups and closing the scope |
| `RetentionAudit` | the audit beside the runs and artifacts it audits |
| `StabilityHistory` | selection, downloads and the report |
| `ContainerChain` | the files about one image and the manifest that seals them |
| `ExpiringPolicies` | three policies with entries that expire |
| `CiJobs` | the ten jobs above in one specification |
| `EvidenceProofs` | theorems about `EvidencePipeline` and `NativeSmoke` |
| `TestDataScopeProofs` | theorems about `TestDataScope` |
| `GateProofs` | theorems about `GateRun` and `PerformanceSamples` |
| `CiJobsProofs` | theorems about the other jobs and about `CiJobs` |
| `MCJiraSync`, `MCJiraControlPlane`, `MCQualityHistory`, `MCPerformanceSamples`, `MCCiJobs` | the constants of the TLC instances |

Definitions whose comment begins "Mutant:" are plausible bugs of the definition
that follows them.  Nothing uses them; they exist to show that the properties
notice the difference.

### JiraSync

A job's `pc` is the request it is about to make: `ensure` (resolve the managed
issues), then for each key of its loop `state`, `labels`, `find`, `comment`,
`transition`, `search`, `create`, and `done`.  `seen` is what `get_issue_state`
returned, which is stale by the time the PUT is applied; `res` are the domain
results the job computed when it started, `evidence` what they would be now.
`bugs[k][r]` counts the issues whose summary names k and run r, because "create
once" is a statement about a count.

* `Deliver` puts a run into the single pending slot of the group, in place of
  whatever waits there; `Start` is a job taking it; `GroupFree` is the group.
  There is more than one job in the model so that the group is something the
  properties depend on and not something the state space grants.
* `Kill` covers `timeout-minutes`, a lost runner and any exception of the HTTP
  client.  With `LateWrites`, the request in flight may be applied by Jira
  afterwards (`wire`, `ApplyLate`).
* `find_project_issues` reads at most `max_results` summaries: with
  `LargeProject` any issue may be missing from its answer.  Two issues with one
  managed summary make it raise, so a duplicate stops every later sync.

Abstracted: the repair of the `saqa-automation` and `saqa-bootstrap` labels, the
text of comments and bugs, the pages of searches, and the 2000 newest comments
among which the marker is looked for (all comments are searched in the model).
The three requests of `transition_to_any` are one step.

### JiraControlPlane

A run is its status, what it concluded, what earlier attempts concluded, and
whether its contract artifact has expired.  `Push`, `RunAgain`, `Complete`,
`Rerun`, `Expire` are GitHub's; a run that starts cancels the running one of its
group (`SameGroup`), and the weekly CI run has a group of its own.  An issue is
the result it shows and the commit it shows it for, and a sync writes one issue
per step, so that a kill leaves some issues of a plan written and others not.

The event job goes through `Validate` (the run's conclusion is read here, and a
run of main that is no longer main's head ends the job), `CollectEvent` (the
other runs of the commit are read here, possibly later) and `Write`.  The nightly
goes through `SelectCommonRun` (all results and QA-7's signals are read here, after
the check `ShareOneCommit`, which no selection fails) and, for each workflow, `CollectNightly` (the jobs and the contract artifact are read
here) and `Write`.  The places where something is read and where it is used are
separate actions because everything else can move in between.

Abstracted: the jobs of a run complete with it; a cancelled run has all its jobs
cancelled and uploads no evidence; the GETs of one collecting step see one state
of GitHub; a push starts all workflows at once; runs of `pull_request` events do
not exist; every commit of a `saqa/**` branch is on a branch of its own.

### QualityHistory

The file is a sequence of lines plus whether the last one has its newline.  An
append locks, checks, reads the last digest, and writes in three parts
(`WriteHead`, `WriteTail`, `WriteEnd`), between which another process may read
and this one may die.  `open("a")` writes to the end of the file, so a line
without a newline is continued by whoever appends next: it becomes `corrupt`.
SHA-256 is ideal: the digest of an entry is the sequence of payloads it
commits to.  Without `HasFcntl` nothing is locked, as in the code.

### ReleaseCertification

A certification of a commit goes through the stages of its two jobs, one for
each request to GitHub whose answer it keeps: `Resolve` and `PollMain` read
main's head, `PollRuns` lists the runs and counts the round, `FinalCheck` reads
the head for the last time and looks at conclusions and ages, `CheckArtifact`
reads the artifacts of one run.  That ends the readiness job; its output is all
the certify job (`Collect`, `Gate`) has, which lists the runs again and evaluates
`result`, `latest_by_workflow` and `decide` of `qa_release_gate.py`.  In
between, `Push`, `RunAgain`, `Rerun`, `Complete` and `Tick` are GitHub's and
time's.  `NotReady` ends a certification; `refused` is one whose certify job
failed, which GitHub lets one run again without the readiness job
(`RerunCertify`).  The concurrency group is per commit and cancels nothing
(`Start`).

A run keeps its latest attempt and the time of its newest artifact: an attempt
that passes for the first time has uploaded one, a re-run of the failed jobs may
leave the old one in place.  `past` remembers completed attempts for the
properties only.

Abstracted: a listing is one step and has no malformed runs or workflows under a
foreign path; artifacts are not deleted and do not expire within the horizon;
GitHub's and the runner's clock are one; a failed request, upload or attestation
is `Kill`.

### AttemptTelemetry

What an attempt really came to (`outcome`) is kept beside what the memory of a
worker has of it (`records`), which a crash empties.  pytest-xdist and the rerun
plugin are external: a test whose worker dies counts as failed and, while a rerun
is left, goes to the replacement as its next attempt.  `pytest_sessionfinish`
writes the shard or fails to, `Summarize` is `summarize_test_attempts.py`, and a
step is `green` if both pytest and the summary are.

### NativeSmoke

`Questions` are the questions each script asks of the device, in order; `Device`
is what a question may have done to it whatever the answer was, so a command that
times out (`unknown`) may have installed or started the app.  An installation goes
by the id inside the file (`file_id`), the launch and the look at the process by the
id the script was given (`package_id`); only the iOS script compares the two
(`bundle`).  `apps` and `processes` say for each id what brought the app and the
running process: an invocation, or something before the first one (`Preinstalled`).
The device keeps them from one invocation to the next, and so does the disk the
output file `evidence`.  `KillSmoke` may come before any step.

### GateRun

A script is a record: its steps, the faults that block rather than fail, those
that end it without evidence and those that are only recorded.  The actions are
the same for all ten; `Redirect` is `real_web_smoke`'s own.  The records are where
the scripts differ, and each maps to the `main` of its script.  `PrepareFails` and
`WriteFails` are the file operations outside of every handler: the first leaves the
output of an earlier run, the second that or half a file.

### PerformanceSamples

One `Collect` is one k6 run on a fresh target; `Finish` builds both run sets,
compares them and uploads everything, and only then decides, as the workflow does.
A measurement has the six metrics of the code: the median and two percentiles of
latency, throughput, error rate and check pass rate.  `evaluate_summary` has the five
limits of the policy, `comparison_checks` the six checks of the comparison, and a
baseline whose median latency or throughput is zero is BLOCKED.  The median is twice
the median, so that it stays a number.  `Request` is the other workflow, which
compares the artifacts of two collected runs.

Abstracted: the code computes with floats, so that a change of exactly ten per cent
may round to either side; the model compares whole numbers exactly (rates per
thousand), multiplied out instead of divided.

### EvidencePipeline

A result file is `[id, status, tested_sha, observed_at]`; `Checkout` changes the
commit and leaves the files.  The manifest and the report are written in two steps
(`Begin`, `End`), and `Die` may come between them.

### TestDataScope

The `for` loop of `close` runs over a reversed iterator, so `cursor` is fixed when
the loop begins and what is appended later is behind it.  `Interrupt` is an
exception that `except Exception` does not catch: it leaves the scope open, and
one more `close` starts over.

### RetentionAudit

`ListMain`, `ListRuns` and `ListArtifacts` are the three calls; everything of
GitHub may move between them.  `listed_runs` and `listed_artifacts` are what the
audit was told, `runs` and `artifacts` what there is.  Of the runs of the audited
commit only those of an allowed event are eligible (`ALLOWED_EVENTS`); `schedule`
stands for every event, branch or path that is not.

### StabilityHistory

`ListCiRuns` selects the newest runs, `Download` fetches one after the other,
`ArtifactExpires` takes any artifact away before its turn.  `build_history` may
come at any time after the selection, since the step runs always.  A test is one
outcome per Python version: the report adds the tests up.  A run whose download stops
between two versions is one whose later artifacts have expired: its metadata come
first.  A selected run that was never begun leaves no directory, and neither the
report nor the properties speak of it.

### ContainerChain

A number stands for the bytes of a file, so that a digest is that number: every
`ScanImage` and `GenerateSbom` is a new one.  Each further step reads what is in
the directory, in whatever order the steps are run again.

### ExpiringPolicies

`Tomorrow`, `EditPolicy`, `ScanDependencies`, `FindInImage` and `RunTests` change
what a policy looks at; what it decides on a day is an operator of the day, so
that decisions of different days can be compared.

### CiJobs

Each of these jobs runs on a runner of its own and shares no file or process with
the others; what they exchange are the artifacts and runs of the other modules.
So `Init` chooses the `job`, and `Rest(j)` says that the others stand still:
`TypeOK` and the properties of all ten are checked in one run, and a mutant of one
job cannot hide behind another.

## 3. Runs

| run | expects | what it shows |
|---|---|---|
| `jira_sync` | pass | three deliveries, a re-run with other evidence, two kills, two runs that write the same two issues |
| `jira_sync_late` | pass | requests that outlive their job: at most one duplicate per kill; the pending delivery always gets its turn |
| `control_plane_events` | pass | two commits of main, second runs, re-runs and an expiry, events in any order |
| `control_plane_nightly` | pass | the nightly over two commits of main and one of a branch, with an event and a kill: one commit, repaired and certified in the end, and no event sync that goes back |
| `control_plane_nightly_fallback` | violation | finding 1 |
| `control_plane_security` | violation | finding 2 |
| `quality_history` | pass | three processes, no crash: one chain, nothing lost, the log is implemented |
| `quality_history_crash` | pass | two processes, two crashes: damage stays last, a loss shows, nobody waits for ever |
| `release_certification` | pass | two requests for one commit; two workflows, second runs, a re-run, a push, a death: certificates are backed by the newest verdicts, requests are decided |
| `release_certification_main` | violation | finding 3 |
| `ci_jobs` | pass | each of the ten jobs with its crashes, faults, stale files, reruns, expiries and partial downloads |
| `performance_compare` | violation | finding 4 |

Deadlock is not checked: every one of these systems may come to rest, when the
bounded events have happened.

**Bounds.** `MaxDeliveries`, `MaxReruns`, `MaxKills`, `MaxAnnouncements`,
`MaxExpiries`, `MaxRunsPerCommit`, `MaxAppends` and `MaxCrashes` appear only in
guards of the environment's actions.  Three deliveries are one more than it takes
to meet a half-finished sync of another run and then of the same run; two runs on
the same two issues are what it takes for one to undo the other's label; two
commits of main are what it takes to be stale, a third commit (on a branch) to
tell "the newest commit" from "the newest common commit of main".  The monitored
workflows are two or three of the five: CI and the contract gate have rules of
their own and the others only differ in the issues they write.  The passing runs
of the control plane follow QA-7 (two signals), QA-8 and QA-9 (all workflows),
and QA-4, whose rule is part of QA-9's, is in the run of finding 1.  The release
model has one followed commit and one push that makes it stale, two workflows
(`CI` is run again by its schedule, an event the gate does not accept, `k6` by
hand, which it does), an age limit of one tick out of two, so that evidence goes
stale while a job runs, and two rounds of polling in place of forty.
`CiJobs` has two tests on two workers with one replacement and one rerun (a crash,
and a retry on another worker); two invocations of a smoke script (the second
finds the app and the output of the first) and two app ids, so that the one asked
about may not be the file's; two redirects; three samples of four measurements in
place of five (`MIN_SAMPLES`), among them exactly the allowed change, a little more
and a throughput of zero; two test ids, two commits and three results in one
workspace, over two hours with an age limit of zero; three cleanups; one audited
domain with two runs of two attempts, an artifact kept for two days and a window
of one, where runs of other events are not run again; two Python versions and two runs; two images and two versions of each
file; two vulnerabilities of which one is an alias of the other, one test and
three days.  `Watched` bounds the audit: after the report only time goes on, since
runs add artifacts and take none away.

The theorems remove the bounds from every invariant and action property of the
passing runs, and from both refinements (section 4 says under which assumptions).

**Fairness.** `JiraSync`: GitHub starts the pending job when the group is free,
and a job that runs comes to its end (every request has a timeout, and the job a
`timeout-minutes`).  `JiraControlPlane`: runs end for the same reason, the
schedule fires again and again, the group's jobs go on.  Events, kills, re-runs
and pushes are never obliged to happen.  `QualityHistory`: a process keeps
running and `flock` is eventually granted to one that keeps asking (strong
fairness of `Lock`: the lock is free again and again, not continuously).
`ReleaseCertification`: a waiting certification gets its group, and its jobs go
on; nothing obliges a run to end, which is why `RequestIsDecided` depends on the
rounds being counted.  `CiJobs` states no fairness: what is asked of the jobs is
safety, and a job may stop at any point.

### Findings

1. **The nightly certifies from a conclusion.**  `reconcile_jira.py:216` names
   the contract evidence file only for the sync of the contract run.  In the
   other four syncs `sync_jira_ci.py` falls back to the contract run's
   conclusion.  If the artifact has expired, the contract sync sets QA-4 to
   UNVERIFIED, a later one sets QA-9 to PASS.  `README.md:353` says the nightly
   does not silently fall back to the conclusion.
2. **QA-5 does not see the dependency job.**  The pattern at
   `sync_jira_ci.py:289` is not in the job name of `saqa-ci.yml:77`, so the job's
   failure does not reach the issue.
3. **The certify job does not look at main.**  The readiness job reads main's
   head, the certify job lists the runs of the commit and evaluates the gate
   (`qa_release_gate.py:242`).  If main moves in between, or before a certify job
   that failed is run again, a commit main has left is certified.
   `docs/ARTIFACT_RETENTION_AND_RECOVERY.md:17` says the gate independently checks
   current `main`.

4. **Collected runs cannot be compared.**  `saqa-performance-compare.yml:90` looks
   for `measured-run-set.json` in both artifacts; `saqa-performance-samples.yml:96`
   and `:97` only build `baseline-run-set.json` and `candidate-run-set.json`.  Every
   run that passes the provenance check is turned away, although
   `saqa-performance-compare.yml:11` describes the artifact as one containing that
   file.

Met on the way and not kept as runs: what the code does, and what the properties
therefore do not ask of it.

* *Engine.*  `BugCreatedOnce` fails with `LargeProject`, where the search may miss
  the bug, and by one with `LateWrites`; repeating a sync may move an issue around
  in a Jira workflow that offers both "To Do" and "In Progress".
* *Control plane.*  The nightly may put an older commit's results over the head's
  until the head's runs have completed.
* *History.*  `generate_qe_observability.py:40` verifies without the lock and may
  see half a line of another process.
* *Telemetry.*  The summary has no expected number of shards: a worker whose write
  fails vanishes with its attempts, which is why `GreenStepHidesNothing` has the
  premise `AllWritten`.  A failed attempt whose rerun is skipped is CLEAN.
* *Gates.*  No gate removes its output first, so one that cannot write leaves the
  older PASS beside its exit status.  `webgoat_e2e.py:118` uses `context`
  and `api_contract_smoke.py:66` uses `response` in handlers that run before either
  is bound, so an early fault ends the script without evidence and with an older
  PASS in place.  Where the driver fails to stop after PASS was set, PASS stays
  (`juice_shop_e2e.py:120`, and likewise in the mobile and accessibility gates).
* *Native smoke.*  The Android script launches and looks for `package_id`
  (`run_native_android_smoke.py:91`, `:103`), which nothing compares with the APK it
  installed; iOS compares the bundle's id (`run_native_ios_smoke.py:117`).  With a
  `package_id` that is not the APK's, an app that was on the device before is what
  runs, and PASS is about that one.  `PassRanThisApp` therefore asks of Android that
  the APK was installed and the package runs, and that they are the same app only
  where the ids agree.  An encrypted archive ends the iOS script with an exception that
  nothing catches, and without evidence.  Unlike Android, iOS does not ask
  whether the app is still alive after the launch.  If the old output can be neither
  removed nor overwritten it stays.
* *Performance.*  An improved baseline sample can turn BLOCKED into PASS, where it
  lifts a median from zero (`compare_performance_baseline.py:209`); it never turns a
  FAIL into PASS.
* *Test data.*  A cleanup registered while the scope closes is never called.
* *Evidence.*  A failed aggregation leaves the old manifest; the report checks the
  commit and the age of its records, so it is refused unless still valid.  A
  matrix leg that left no result file is not missed.
* *Audit.*  Runs are listed before artifacts, so an artifact of a newer attempt than
  the listed one counts for the listed one: `ReadyHasOwnEvidence` rules out those of
  earlier attempts only.
* *Stability.*  A job that ends while downloading still builds its report, and the
  runs it had not come to are neither gaps nor missed.  Malformed observations (`issues`) do not keep the report from saying
  that no variation was observed, only gaps do.  A doubled backslash at
  `saqa-test-stability.yml:72` splits the `find` that prunes copied files (not
  modelled).
* *Container evidence.*  Nothing checks that the SBOM is of the scanned image.
* *Expiring policies.*  An exception for a dependency is valid on the day it names,
  one for an image and a quarantine have expired on it.  pip-audit's exit status
  is not looked at.

## 4. Proofs

Checked by TLAPS with Z3, Zenon and LS4; no step is assumed.

**JiraSyncProofs**, for any number of jobs, runs, issues, deliveries, re-runs
and kills.

* `TypeCorrect`: `[]TypeOK`, for every value of the constants.
* `NothingBefore`: `[]NothingBeforeBootstrap`, for every value of the constants.
* With `~LateWrites`, in a project of any size: `OneStatusLabel`, `OneComment`,
  `DefectsFollowFailures` and `ProcessedShow` (what a sync has gone past carries its
  label, its comment and, for a failure, a bug).  What the search misses can only
  cost a second bug, so `OneBug`, `ProcessedReflect` (exactly one bug) and
  `RefinesLedger` (`Spec => Ledger!Spec`) assume `~LargeProject` as well.
* `CostOfKills`, for every value of the constants: a run has on an issue at most one
  comment more than jobs were killed, and where the search is complete at most one
  bug more.  `DuplicatesBounded` is the same as the property of the run.

The properties are not inductive.  The reason a bug is created once is that the
job that is about to create it has searched, that nobody else has created it
since, and that nobody can: another job would have to hold the group.  The
inductive invariant has two parts: `Located` says where every job is in its loop,
and `Consistent` that at most one job is not idle (`MutualExclusion`), that what a
job has just read still holds when it is about to write (`ReadsHold`), that the
issues it has gone past show its results (`Reflects`), and that nobody has two
status labels, two comments or, where the search is complete, two bugs.  One lemma
per action shows it preserved, then temporal logic.

With late writes those read-then-write facts fail.  What remains (`Bounded`,
`Paid`) is a count: a request that outlives its job came from a job that was
killed, there is at most one of them for each kill, and the copies that exist
together with those that may still arrive exceed one by no more than the kills.

The assumptions are needed where they are stated: TLC finds the counterexamples
without them (see section 3).

**QualityHistoryProofs**, for any number of processes and appends.

* `HistoryTypes`: `[]TypeOK`, without any assumption.
* Where `HasFcntl`, for any number of crashes: `DamageStaysLast`, `LossShows`, and
  `KeptUntilCrash`: until the first of them a history that nobody writes verifies and
  holds every returned digest.
* Where `HasFcntl` and nothing crashes: `QuietVerifies`, `AcknowledgedStays` and
  `RefinesLog` (`Spec => Log!Spec`).  The first two are what `KeptUntilCrash` says of
  a system without crashes, in the words of the run's properties.

`Undamaged` says that a process in the critical section holds the lock, that a
process about to extend the file has seen it valid and it still is, and that a
line being written has no newline.  `Noticed` adds, for `LossShows`: either the
last line is spoiled, and then no process gets past its check again, or
everything acknowledged is there and the line of the process that writes is its
own.  `Sound` is the crash-free case, where the file is one chain but for the
line being written; `UntilCrash` says that it holds as long as nothing has crashed.

**ReleaseCertificationProofs**, for any workflows, commits, runs, requests,
re-runs, deaths and times, without any assumption but those on the constants.

* `CertificationTypes`: `[]TypeOK`.
* `CertificatesBacked`, `NewestCounts`, `ArtifactsOwn`: the three safety
  properties of the passing run.

What a job knows is old when it acts, so the invariant `Sound` says of every
record a job keeps only what stays true while runs go on: the attempt it saw is
among the completed attempts of that run, what is newer began after the listing,
and an artifact that was found can only be replaced by a newer one.  `Evolves`
is what any step may do to a run (no attempt is forgotten, a new one starts now,
artifacts get newer); one group of lemmas shows that every step evolves the
runs, one that the facts survive evolution (`CertStays`, `CertificateStays`), and
one per stage that what it adds is so when it is added.  That a listing has a
newest run (`NewestExists`) follows from the well-foundedness of strict inclusion.

**JiraControlPlaneProofs**, for any workflows, commits, runs, announcements,
re-runs, expiries and kills.

* `ControlTypes`: `[]TypeOK`, and `CertificationBacked`: a PASS on QA-9 is backed
  by the runs of its commit.
* `PerformanceBacked`, the same for QA-7.
* `NightOnOneCommit`: a nightly that is not killed leaves one commit.
* `MainForward`: an event sync never replaces what an issue shows by the results of
  an older commit of main, although main moves between its stale check and its
  writes and the nightly writes in between.  The nightly itself may (see above).

A job reads conclusions, plans, and writes one issue at a time while runs go on.
`ControlInv` says that a plan in progress was computed from conclusions that are
still among those its commit's runs ever had (`PlanBacked`), and that the issues
have been written from such plans; `RunsEvolve` is that no conclusion is
forgotten, `BackingStays` that what was backed stays so.  `NightOK` adds that
what the nightly has gone past shows its commit.  `ForwardOK` says that nothing
shown of main is newer than its head, that the commit an event sync is writing was
the head when it was checked, so that nothing shown can be newer than it while it
holds the group, and that the nightly's commits are no newer than the head either.

**The jobs**, each for any values of its constants, without further assumption.

* `EvidenceProofs`: `PipelineTypes`, and `CertificationEarned`
  (`[]CertifiedIsEarned`).  `PipelineInv` adds that no record is from the future and
  that the commit of a report being written is the commit of the workspace.
* `TestDataScopeProofs`: `ScopeIsTyped`, and `CleanupComplete`
  (`[]CleanupIsComplete`).  `ScopeInv` splits the registered cleanups at the cursor:
  what a close has gone past was called once more than what is before it.
* `EvidenceProofs` again: `SmokeTypes`, and `EvidenceOfThisRun`
  (`[]EvidenceIsOfThisRun`).  `SmokeInv` says what the device must have for the
  script to be at its stage, and that the output is not of this invocation before it
  is written.  `OnDevice` is that part: once installed, the app of the file's id is
  this invocation's, and a process is of the app under its id, so that what runs under
  `package_id` is this invocation's app if the ids agree, which on iOS they do from
  the `bundle` question on.
* `GateProofs`: `GateExitMatches` (`[]ExitMatchesEvidence`).  The proof does not go
  through ten scripts: `WellFormed` states what it needs of one (the pass is last but
  for the exit of the driver, only a close is merely recorded, nothing has been
  recorded where a fault loses the evidence), `EveryScriptWellFormed` checks the
  records against it, and `GateInv` says of any such script that its faults lie
  behind it and that a PASS comes of the pass alone.
* `GateProofs`: `ComparisonSound` (`[]ComparisonIsSound`), for any measurements, limits
  and numbers of samples.  It rests on facts about order statistics: every rank has
  a value (`RankExists`), ranks are monotone in the samples (`RankIsMonotone`), the
  median is the sum of two of them (`MedianIsOfRanks`) and so is monotone too.  Then
  every comparison that a candidate with one worse sample passes is passed by the
  `Better` one without it, zero medians included, and a baseline with one improved
  sample passes nothing that fails without the improvement.  `Collected` says
  that a sample beyond the policy is remembered until the collection ends.
* `CiJobsProofs`: first `JobsKeepTheirSpecs`, that a behaviour of `CiJobs` is one of
  each job's own specification (a step of another job is a stutter), which carries
  the above over (`JobsAreSound`, `JobVerdictsHold`).  `JobTypes` (`[]TypeOK`) puts the
  type invariants of the ten together.  Then:
  * `PoliciesSound` (`[]PoliciesHold`): `ChainInv` says that a decision is
    report-only for the training image alone; the rest holds of any day.
  * `GreenHidesNothing` (`[]GreenStepHidesNothing`): by `TelemetryInv`,
    where no worker died every attempt that ended is remembered by a worker, and
    where one did either pytest has failed or there is a gap before an attempt that
    is or will be reported.
  * `ReadyLasts` (`[]ReadyIsRetained`): `AuditInv` says that the
    listed runs still have their workflow and commit, the listed artifacts are still
    there, and a PASS has in each domain one that outlives the window.
  * `VariationsAreReal` (`[]VariationIsReal`): the statement is inductive but
    for the types, since nothing the report was built from changes afterwards.

Proofs use the assumptions the modules state of their constants (finite sets where
they are counted, bounds in `Nat`, limits that compare measurements); TLC evaluates
them on every instance.

Only model-checked: liveness, since fairness is out of the prover's reach
(`PendingDrains`, `AppendsEnd`, `MissedEventsAreRepaired`, `GreenMainIsCertified`,
`RequestIsDecided`, `SettledIsCertified`), and the four runs that show a
disagreement, which are counterexamples.

## 5. Not modelled, and why

* Retry (`resilience.py`): a loop over a callable which no workflow uses.
  `flaky.py` and `certification.py` are used by no script either.
* Branch protection audit, action pins (`validate_github_actions_pins.py`), the
  security regression, the manual accessibility form, the validators of native
  evidence: each looks once at one answer or file and compares it field by field.
* What a check asserts about a page, a response or a row: the gates have it as one
  step that may fault.
* Rejection of malformed input.  The validators refuse it before any state changes;
  where a refusal has an effect (a report that stays, a gap that appears) it is in the
  model.
* Dashboards, metrics, the Allure files and the text of comments and reports:
  formatting.
* Runs of `pull_request` events in the control plane.  They would give a run its
  event as one more dimension.
* The preflight scripts and the steps of the Appium workflows: commands in a fixed
  order whose first failure ends the job.
