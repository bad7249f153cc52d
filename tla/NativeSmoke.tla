---------------------------- MODULE NativeSmoke ----------------------------
(***************************************************************************)
(* The smoke runs of a released app on an Android emulator and an iOS      *)
(* simulator (scripts/run_native_android_smoke.py, run_native_ios_smoke.py)*)
(* and the status they derive (saqa/native_mobile.py).  Each run asks one  *)
(* question after the other of a device that keeps its apps; a command     *)
(* may time out after it took effect.  The file goes to the device under   *)
(* the id of the app inside it; what is launched and looked for is the id  *)
(* the invocation was given.  Evidence goes to one output file.            *)
(***************************************************************************)
EXTENDS Naturals, Sequences

CONSTANTS
  SmokeRuns,     \* invocations of the script, one after the other
  NoRun,         \* no invocation
  AppIds,        \* package and bundle identifiers
  Preinstalled   \* stands for what brought an app before the first invocation

ASSUME SmokeAssumption ==
  /\ {NoRun, Preinstalled} \cap SmokeRuns = {} /\ NoRun # Preinstalled
  /\ AppIds # {}

VARIABLES
  platform,   \* the script that runs
  smokeRun,   \* the current invocation, or NoRun
  smokeRuns,  \* invocations so far
  stage,      \* "unlink", a question, "write", "fallback" or "end"
  rows,       \* rows of the payload: a set of test ids with statuses
  evidence,   \* the output file: [run, status], run NoRun when there is none
  exit,       \* exit status: 0, 1, 2 or 3 for a process that is still running or was killed
  unlinked,   \* the old output was removed by this invocation
  package_id, \* the app the invocation was asked to launch
  file_id,    \* the app its file holds
  apps,       \* the apps on the device: what brought each, NoRun where there is none
  processes   \* their processes: what brought the app that runs, NoRun where none does

deviceVars == <<apps, processes>>
smokeVars == <<platform, smokeRun, smokeRuns, stage, rows, evidence, exit, unlinked, package_id, file_id, deviceVars>>

\* The questions of each script, in order.
Questions == [android |-> <<"digest", "metadata", "install", "launch", "alive">>,
              ios     |-> <<"digest", "bundle", "metadata", "install", "launch">>]

\* Mutant: each question has a row of its own.
row_of_own(q) == q

\* The row a question is answered in; a launch on Android is only reported with its process.
row_of(q) == IF q = "alive" THEN "launch" ELSE q
RowIds == {"digest", "bundle", "metadata", "install", "launch"}
RowStatuses == {"PASS", "FAIL", "BLOCKED"}
Origins == SmokeRuns \cup {NoRun, Preinstalled}
NoEvidence == [run |-> NoRun, status |-> "none"]

SmokeTypeOK ==
  /\ platform \in {"android", "ios"}
  /\ smokeRun \in SmokeRuns \cup {NoRun}
  /\ smokeRuns \subseteq SmokeRuns
  /\ stage \in RowIds \cup {"unlink", "alive", "write", "fallback", "end"}
  /\ rows \subseteq [id : RowIds, status : RowStatuses]
  /\ \A r, s \in rows : r.id = s.id => r = s
  /\ evidence \in [run : SmokeRuns \cup {NoRun}, status : {"none", "torn", "PASS", "FAIL", "UNVERIFIED"}]
  /\ exit \in 0..3
  /\ unlinked \in BOOLEAN
  /\ {package_id, file_id} \subseteq AppIds
  /\ apps \in [AppIds -> Origins] /\ processes \in [AppIds -> Origins]

SmokeInit ==
  /\ platform \in {"android", "ios"}
  /\ smokeRun = NoRun /\ smokeRuns = {} /\ stage = "end" /\ rows = {}
  /\ evidence = NoEvidence /\ exit = 3 /\ unlinked = FALSE
  /\ package_id = (CHOOSE x \in AppIds : TRUE) /\ file_id = package_id
  /\ apps \in [AppIds -> {NoRun, Preinstalled}] /\ processes \in [AppIds -> {NoRun, Preinstalled}]
  /\ \A x \in AppIds : processes[x] \in {apps[x], NoRun}

-----------------------------------------------------------------------------
evidence_status(payload) ==
  IF \E r \in payload : r.status = "FAIL" THEN "FAIL"
  ELSE IF \A r \in payload : r.status = "PASS" THEN "PASS"
  ELSE "UNVERIFIED"

(* The id is an argument of its own: nothing derives it from the file. *)
InvokeSmoke(r) ==
  /\ stage = "end"
  /\ r \notin smokeRuns
  /\ smokeRun' = r /\ smokeRuns' = smokeRuns \cup {r}
  /\ stage' = "unlink" /\ rows' = {} /\ exit' = 3 /\ unlinked' = FALSE
  /\ package_id' \in AppIds /\ file_id' \in AppIds
  /\ UNCHANGED <<platform, evidence, deviceVars>>

(* The old output goes first; the arguments, the file and, on iOS, the     *)
(* archive may be bad.                                                     *)
UnlinkOutput(ok) ==
  /\ stage = "unlink"
  /\ unlinked' = ok
  /\ stage' \in IF ok THEN {"digest", "fallback"} ELSE {"fallback"}
  /\ evidence' = IF ok THEN NoEvidence ELSE evidence
  /\ UNCHANGED <<platform, smokeRun, smokeRuns, rows, exit, package_id, file_id, deviceVars>>

\* Mutant: a command that timed out is taken for a success.
RowStatusHopeful(answer) == IF answer = "no" THEN "FAIL" ELSE "PASS"

RowStatus(answer) == CASE answer = "yes" -> "PASS" [] answer = "no" -> "FAIL" [] OTHER -> "BLOCKED"

(* What a question can come to on the device, with its answer.  An         *)
(* installation replaces the app of the file's id and ends its process; a  *)
(* launch, and the look at its process, go by the id that was given.  Only *)
(* iOS compares the two.                                                   *)
Install(answer) ==
  \/ /\ answer # "no"
     /\ apps' = [apps EXCEPT ![file_id] = smokeRun]
     /\ processes' = [processes EXCEPT ![file_id] = NoRun]
  \/ answer # "yes" /\ UNCHANGED deviceVars

Launch(answer) ==
  /\ answer = "yes" => apps[package_id] # NoRun
  /\ UNCHANGED apps
  /\ \/ processes' = [processes EXCEPT ![package_id] = apps[package_id]]
     \/ answer = "yes" /\ platform = "android" /\ processes' = [processes EXCEPT ![package_id] = NoRun]
     \/ answer # "yes" /\ UNCHANGED processes

Device(q, answer) ==
  CASE q = "install" -> Install(answer)
    [] q = "launch"  -> Launch(answer)
    [] q = "alive"   -> /\ answer = "yes" => processes[package_id] # NoRun
                        /\ answer = "no" => processes[package_id] = NoRun
                        /\ UNCHANGED deviceVars
    [] q = "bundle"  -> (answer = "yes" <=> package_id = file_id) /\ UNCHANGED deviceVars
    [] OTHER         -> UNCHANGED deviceVars

Answers(q) == CASE q \in {"digest", "bundle"} -> {"yes", "no"}
                [] q = "metadata"             -> {"yes", "unknown"}
                [] OTHER                      -> {"yes", "no", "unknown"}

(* run_smoke: a question that is not answered by yes blocks the later      *)
(* ones.  Android reports metadata only when they are missing and a launch *)
(* only with its process.                                                  *)
Ask(answer) ==
  LET qs == Questions[platform]
      n  == CHOOSE i \in DOMAIN qs : qs[i] = stage
      silent == answer = "yes" /\ platform = "android" /\ stage \in {"metadata", "launch"}
      goes_on == RowStatus(answer) = "PASS"
      answered == IF silent THEN {} ELSE {[id |-> row_of(stage), status |-> RowStatus(answer)]}
      later == {row_of(qs[i]) : i \in (n + 1)..Len(qs)} \ {row_of(stage)}
      blocked == IF goes_on THEN {} ELSE {[id |-> q, status |-> "BLOCKED"] : q \in later}
  IN
  /\ stage \in {qs[i] : i \in DOMAIN qs}
  /\ answer \in Answers(stage)
  /\ Device(stage, answer)
  /\ rows' = rows \cup answered \cup blocked
  /\ stage' = IF goes_on /\ n < Len(qs) THEN qs[n + 1] ELSE "write"
  /\ UNCHANGED <<platform, smokeRun, smokeRuns, evidence, exit, unlinked, package_id, file_id>>

(* iOS opens the archive after its digest: a bad one ends in the fallback, *)
(* an encrypted one raises what main does not catch.                       *)
ArchiveFails(caught) ==
  /\ platform = "ios" /\ stage = "bundle"
  /\ stage' = IF caught THEN "fallback" ELSE "end"
  /\ exit' = IF caught THEN exit ELSE 1
  /\ UNCHANGED <<platform, smokeRun, smokeRuns, rows, evidence, unlinked, package_id, file_id, deviceVars>>

(* The result is written in place; an error half way falls back. *)
WriteResult(ok) ==
  /\ stage = "write"
  /\ evidence' \in IF ok THEN {[run |-> smokeRun, status |-> evidence_status(rows)]}
                   ELSE {evidence, [run |-> smokeRun, status |-> "torn"]}
  /\ stage' = IF ok THEN "end" ELSE "fallback"
  /\ exit' = IF ok THEN (CASE evidence_status(rows) = "PASS" -> 0 [] evidence_status(rows) = "FAIL" -> 1 [] OTHER -> 2)
             ELSE exit
  /\ UNCHANGED <<platform, smokeRun, smokeRuns, rows, unlinked, package_id, file_id, deviceVars>>

WriteFallback(ok) ==
  /\ stage = "fallback"
  /\ evidence' = IF ok THEN [run |-> smokeRun, status |-> "UNVERIFIED"] ELSE evidence
  /\ stage' = "end" /\ exit' = 2
  /\ UNCHANGED <<platform, smokeRun, smokeRuns, rows, unlinked, package_id, file_id, deviceVars>>

KillSmoke ==
  /\ stage # "end"
  /\ stage' = "end"
  /\ UNCHANGED <<platform, smokeRun, smokeRuns, rows, evidence, exit, unlinked, package_id, file_id, deviceVars>>

SmokeNext ==
  \/ \E r \in SmokeRuns : InvokeSmoke(r)
  \/ \E ok \in BOOLEAN : UnlinkOutput(ok) \/ ArchiveFails(ok) \/ WriteResult(ok) \/ WriteFallback(ok)
  \/ \E answer \in {"yes", "no", "unknown"} : Ask(answer)
  \/ KillSmoke

SmokeSpec == SmokeInit /\ [][SmokeNext]_smokeVars

-----------------------------------------------------------------------------
(* PASS in the output says that this invocation's app is on the device and *)
(* that the package it was asked about runs.  What runs is this app and    *)
(* none that was there before, and no command that timed out stands for    *)
(* it, wherever the package asked about is the file's: always on iOS; on   *)
(* Android nothing compares the two, and an app that was there before can  *)
(* be what runs when the caller's package_id is not the file's.            *)
PassRanThisApp ==
  evidence.status = "PASS" /\ evidence.run = smokeRun =>
    /\ apps[file_id] = smokeRun
    /\ processes[package_id] # NoRun
    /\ platform = "ios" \/ package_id = file_id => processes[file_id] = smokeRun

(* Once an invocation removed the old output, whatever ends it -- an       *)
(* error, a kill, a disk that takes no more -- leaves no evidence of       *)
(* another invocation, and no PASS beside a failing exit status.           *)
NoStaleEvidence ==
  unlinked => /\ evidence.run \in {NoRun, smokeRun}
              /\ evidence.status = "PASS" => exit \notin {1, 2}

(* What the output says is of this invocation and of its app. *)
EvidenceIsOfThisRun == PassRanThisApp /\ NoStaleEvidence
=============================================================================
