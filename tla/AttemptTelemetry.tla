-------------------------- MODULE AttemptTelemetry --------------------------
(***************************************************************************)
(* The test step of saqa-ci.yml: pytest with xdist workers and one rerun   *)
(* (both external), the plugin that keeps every attempt in the memory of   *)
(* its worker and writes it as one shard when the session ends             *)
(* (scripts/pytest_attempt_telemetry.py), and the summary of the shards    *)
(* that decides the step with pytest (scripts/summarize_test_attempts.py). *)
(*                                                                         *)
(* A worker may die in the middle of a test: its memory is gone, xdist     *)
(* replaces it, and the rerun plugin gives the test to another worker as   *)
(* its next attempt.  A worker may fail to write its shard.                *)
(***************************************************************************)
EXTENDS Naturals, Sequences, FiniteSets

CONSTANTS
  Tests,        \* node ids
  Workers,      \* ids of workers, the replacements too
  FirstWorkers, \* the workers a session begins with
  NoTest,       \* no test
  Reruns        \* --reruns

ASSUME TelemetryAssumption ==
  /\ NoTest \notin Tests
  /\ FirstWorkers \subseteq Workers
  /\ Reruns \in Nat

VARIABLES
  pending,   \* tests no worker is running and none has finished
  running,   \* running[w]: the test of w, or NoTest
  failures,  \* failures[t]: failed attempts the rerun plugin has counted
  worker,    \* worker[w]: "unused", "up", "gone" or "finished"
  records,   \* records[w][t][a][phase]: statuses in the memory of w
  shards,    \* workers whose shard is in the directory
  outcome,   \* outcome[t][a]: what attempt a of t really came to, "none" if not run
  pytest,    \* exit status of pytest
  report     \* status of the summary

telemetryVars == <<pending, running, failures, worker, records, shards, outcome, pytest, report>>

Attempts == 1..(Reruns + 1)
PHASES   == {"setup", "call", "teardown"}
STATUSES == {"PASS", "FAIL", "SKIP"}
Unreported == [p \in PHASES |-> "none"]
NoRecords  == [t \in Tests |-> [a \in Attempts |-> Unreported]]

TelemetryTypeOK ==
  /\ pending \subseteq Tests
  /\ running \in [Workers -> Tests \cup {NoTest}]
  /\ failures \in [Tests -> 0..Reruns]
  /\ worker \in [Workers -> {"unused", "up", "gone", "finished"}]
  /\ records \in [Workers -> [Tests -> [Attempts -> [PHASES -> STATUSES \cup {"none"}]]]]
  /\ shards \subseteq Workers
  /\ outcome \in [Tests -> [Attempts -> STATUSES \cup {"none", "crash"}]]
  /\ pytest \in {"passed", "failed"}
  /\ report \in {"none", "BLOCKED", "RETRY_OUTCOME_VARIATION", "FINAL_FAILURES", "CLEAN"}

TelemetryInit ==
  /\ pending = Tests
  /\ running = [w \in Workers |-> NoTest]
  /\ failures = [t \in Tests |-> 0]
  /\ worker = [w \in Workers |-> IF w \in FirstWorkers THEN "up" ELSE "unused"]
  /\ records = [w \in Workers |-> NoRecords]
  /\ shards = {}
  /\ outcome = [t \in Tests |-> [a \in Attempts |-> "none"]]
  /\ pytest = "passed"
  /\ report = "none"

-----------------------------------------------------------------------------
(* The attempt a test is in: execution_count. *)
attempt(t) == failures[t] + 1

attempt_status(phases) ==
  CASE \E p \in PHASES : phases[p] = "FAIL" -> "FAIL"
    [] ~(\E p \in PHASES : phases[p] = "FAIL") /\ (\E p \in PHASES : phases[p] = "SKIP") -> "SKIP"
    [] OTHER -> "PASS"

(* pytest's order: call only after a setup that passed, teardown last. *)
due(phases, phase) ==
  /\ phases[phase] = "none"
  /\ CASE phase = "setup"    -> TRUE
       [] phase = "call"     -> phases["setup"] = "PASS"
       [] phase = "teardown" -> /\ phases["setup"] # "none"
                                /\ phases["setup"] = "PASS" => phases["call"] # "none"
       [] OTHER -> FALSE

Begin(w, t) ==
  /\ worker[w] = "up" /\ running[w] = NoTest /\ t \in pending
  /\ running' = [running EXCEPT ![w] = t]
  /\ pending' = pending \ {t}
  /\ UNCHANGED <<failures, worker, records, shards, outcome, pytest, report>>

(* The plugin's hook: a phase reported again keeps its failure. *)
pytest_runtest_makereport(w, phase, status) ==
  LET t == running[w] IN
  /\ worker[w] = "up" /\ t # NoTest
  /\ due(records[w][t][attempt(t)], phase)
  /\ phase = "teardown" => status # "SKIP"
  /\ records' = [records EXCEPT ![w][t][attempt(t)][phase] = IF @ # "FAIL" THEN status ELSE @]
  /\ UNCHANGED <<pending, running, failures, worker, shards, outcome, pytest, report>>

(* The rerun plugin: after a failed attempt the same worker tries again,   *)
(* until the reruns are used up and the test counts as failed.             *)
EndAttempt(w) ==
  LET t == running[w]
      phases == records[w][t][attempt(t)]
      failed == attempt_status(phases) = "FAIL"
      again  == failed /\ failures[t] < Reruns
  IN
  /\ worker[w] = "up" /\ t # NoTest
  /\ phases["teardown"] # "none"
  /\ outcome' = [outcome EXCEPT ![t][attempt(t)] = attempt_status(phases)]
  /\ failures' = IF again THEN [failures EXCEPT ![t] = @ + 1] ELSE failures
  /\ running' = IF again THEN running ELSE [running EXCEPT ![w] = NoTest]
  /\ pytest' = IF failed /\ ~again THEN "failed" ELSE pytest
  /\ UNCHANGED <<pending, worker, records, shards, report>>

(* A worker dies in a test (a crash, the timeout of pytest-timeout): the   *)
(* attempt counts as failed, and the replacement gets the test if a rerun  *)
(* is left.  What the plugin had in memory is lost.                        *)
Crash(w, v) ==
  LET t == running[w]
      again == failures[t] < Reruns
  IN
  /\ worker[w] = "up" /\ t # NoTest
  /\ worker[v] = "unused"
  /\ worker' = [worker EXCEPT ![w] = "gone", ![v] = "up"]
  /\ running' = [running EXCEPT ![w] = NoTest]
  /\ records' = [records EXCEPT ![w] = NoRecords]
  /\ outcome' = [outcome EXCEPT ![t][attempt(t)] = "crash"]
  /\ failures' = IF again THEN [failures EXCEPT ![t] = @ + 1] ELSE failures
  /\ pending' = IF again THEN pending \cup {t} ELSE pending
  /\ pytest' = IF again THEN pytest ELSE "failed"
  /\ UNCHANGED <<shards, report>>

(* A worker's session ends when no test is left.  The shard is written     *)
(* beside its name and renamed, so it is there as a whole or not at all; a *)
(* worker without records writes none, and a write that fails fails alone. *)
pytest_sessionfinish(w, written) ==
  /\ worker[w] = "up"
  /\ pending = {} /\ \A v \in Workers : running[v] = NoTest
  /\ worker' = [worker EXCEPT ![w] = "finished"]
  /\ shards' = IF written /\ records[w] # NoRecords THEN shards \cup {w} ELSE shards
  /\ UNCHANGED <<pending, running, failures, records, outcome, pytest, report>>

-----------------------------------------------------------------------------
(* The attempts of a test that the shards hold, with the worker of each. *)
attempts_by_test(t) ==
  {x \in shards \X Attempts : records[x[1]][t][x[2]] # Unreported}

indexes(t) == {x[2] : x \in attempts_by_test(t)}

status_of(t, a) ==
  attempt_status(records[CHOOSE w \in shards : <<w, a>> \in attempts_by_test(t)][t][a])

\* Mutant: gaps in the attempts are tolerated.
consecutive_distinct(t) == Cardinality(indexes(t)) = Cardinality(attempts_by_test(t))

(* Attempt indexes must be 1..n, and each of one worker. *)
consecutive(t) ==
  /\ \A x, y \in attempts_by_test(t) : x[2] = y[2] => x = y
  /\ \A a \in indexes(t) : \A b \in Attempts : b < a => b \in indexes(t)

retry_outcome_variation(t) ==
  /\ \E a \in indexes(t) : status_of(t, a) = "PASS"
  /\ \E a \in indexes(t) : status_of(t, a) = "FAIL"

final_failure(t) ==
  \E a \in indexes(t) : status_of(t, a) = "FAIL" /\ a + 1 \notin indexes(t)

summary_status ==
  CASE shards = {} \/ (\E t \in Tests : ~consecutive(t)) -> "BLOCKED"
    [] ~(shards = {} \/ (\E t \in Tests : ~consecutive(t)))
         /\ (\E t \in Tests : retry_outcome_variation(t)) -> "RETRY_OUTCOME_VARIATION"
    [] OTHER -> IF \E t \in Tests : final_failure(t) THEN "FINAL_FAILURES" ELSE "CLEAN"

Summarize ==
  /\ report = "none"
  /\ \A w \in Workers : worker[w] # "up"
  /\ report' = summary_status
  /\ UNCHANGED <<pending, running, failures, worker, records, shards, outcome, pytest>>

TelemetryNext ==
  \/ \E w \in Workers, t \in Tests : Begin(w, t)
  \/ \E w \in Workers, phase \in PHASES, status \in STATUSES :
       pytest_runtest_makereport(w, phase, status)
  \/ \E w \in Workers : EndAttempt(w)
  \/ \E w, v \in Workers : Crash(w, v)
  \/ \E w \in Workers, written \in BOOLEAN : pytest_sessionfinish(w, written)
  \/ Summarize

TelemetrySpec == TelemetryInit /\ [][TelemetryNext]_telemetryVars

-----------------------------------------------------------------------------
green == pytest = "passed" /\ report = "CLEAN"

(* Every worker that ended with records wrote them. *)
AllWritten == \A w \in Workers : worker[w] = "finished" /\ records[w] # NoRecords => w \in shards

(* A green test step hides no retry: where every shard was written, no     *)
(* test failed and passed in another attempt, and none ended in a failure; *)
(* a failure that is not seen is one whose last rerun was skipped.         *)
GreenHidesNoRetry ==
  green /\ AllWritten =>
    \A t \in Tests, a \in Attempts :
      outcome[t][a] = "FAIL" => \E b \in Attempts : b > a /\ outcome[t][b] = "SKIP"

(* A worker that died in a test turns the step red even when the rerun on  *)
(* the replacement passed: the attempt that died with it is missing from   *)
(* the shards, and its successor is not the first.                         *)
CrashIsNeverGreen ==
  green /\ AllWritten => \A t \in Tests, a \in Attempts : outcome[t][a] # "crash"

(* Neither a retry nor a crash hides behind a green test step. *)
GreenStepHidesNothing == GreenHidesNoRetry /\ CrashIsNeverGreen
=============================================================================
