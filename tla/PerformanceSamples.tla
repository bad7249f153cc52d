------------------------- MODULE PerformanceSamples -------------------------
(***************************************************************************)
(* Repeated k6 samples and their comparison: the workflow that collects    *)
(* two sets of samples and compares them on one runner                     *)
(* (saqa-performance-samples.yml, scripts/k6_gate.py,                      *)
(* build_performance_run_set.py, compare_performance_baseline.py), and the *)
(* one that compares the artifacts of two collected runs                   *)
(* (saqa-performance-compare.yml, performance_run_provenance.py).          *)
(* Measures are whole numbers here: rates per thousand, the others in any  *)
(* unit.  Any of them may be zero.                                         *)
(***************************************************************************)
EXTENDS Naturals, Integers, Sequences, FiniteSets

CONSTANTS
  MIN_SAMPLES,   \* samples a run set needs
  Measurements,  \* what k6 can measure of one sample
  WorseThan,     \* pairs <<worse, better>> of measurements
  PolicyLimits   \* the limits of the policy for one sample

Worse(m, n) ==
  /\ m.median >= n.median /\ m.p95 >= n.p95 /\ m.p99 >= n.p99
  /\ m.throughput <= n.throughput /\ m.errors >= n.errors /\ m.checks <= n.checks

\* k6 computes the three latencies of one sample from the same requests, so they are ordered.
ASSUME PerformanceAssumption ==
  /\ MIN_SAMPLES \in Nat \ {0}
  /\ Measurements \subseteq [median : Nat, p95 : Nat, p99 : Nat, throughput : Nat,
                            errors : 0..1000, checks : 0..1000]
  /\ \A m \in Measurements : m.median <= m.p95 /\ m.p95 <= m.p99
  /\ WorseThan \subseteq Measurements \X Measurements
  /\ \A p \in WorseThan : Worse(p[1], p[2])

VARIABLES
  origin,      \* [event, branch] of the collecting run
  summaries,   \* the raw summaries so far: [digest, m] in order
  run_failed,  \* a sample failed its guardrails
  comparison,  \* result of the comparison on the runner
  conclusion,  \* of the collecting run
  artifact,    \* names of the files its artifact holds
  requested    \* what the comparison of collected runs came to

perfVars == <<origin, summaries, run_failed, comparison, conclusion, artifact, requested>>

Verdicts == {"PASS", "FAIL", "BLOCKED"}

PerfTypeOK ==
  /\ origin \in [event : {"push", "schedule", "workflow_dispatch"}, branch : {"main", "performance"}]
  /\ summaries \in Seq([digest : Nat, m : Measurements])
  /\ Len(summaries) <= 2 * MIN_SAMPLES
  /\ run_failed \in BOOLEAN
  /\ comparison \in Verdicts \cup {"none"}
  /\ conclusion \in {"none", "success", "failure"}
  /\ artifact \subseteq {"raw-runs", "baseline-run-set.json", "candidate-run-set.json", "repeatability-result.json"}
  /\ requested \in {"none", "refused", "missing", "compared"}

PerfInit ==
  /\ origin \in [event : {"push", "schedule", "workflow_dispatch"}, branch : {"main", "performance"}]
  /\ origin.event = "push" => origin.branch = "performance"
  /\ origin.event = "schedule" => origin.branch = "main"
  /\ summaries = <<>> /\ run_failed = FALSE /\ comparison = "none"
  /\ conclusion = "none" /\ artifact = {} /\ requested = "none"

-----------------------------------------------------------------------------
(* k6_gate: the five limits of the policy, for one summary. *)
evaluate_summary(m) ==
  /\ m.p95 <= PolicyLimits.p95 /\ m.p99 <= PolicyLimits.p99
  /\ m.errors <= PolicyLimits.errors
  /\ m.throughput >= PolicyLimits.throughput
  /\ m.checks >= PolicyLimits.checks

(* A run set: enough samples, all of different files with different bytes. *)
build_run_set(raw) ==
  IF Len(raw) >= MIN_SAMPLES /\ \A i, j \in DOMAIN raw : raw[i].digest = raw[j].digest => i = j
  THEN raw ELSE <<>>

(* Twice the median of a measure over a run set: the sum of the two middle *)
(* values, which are one for an odd number.                                *)
median2(run_set, field) ==
  LET Below(v) == {i \in DOMAIN run_set : run_set[i].m[field] < v}
      UpTo(v)  == {i \in DOMAIN run_set : run_set[i].m[field] <= v}
      ranked(k) == CHOOSE v \in {run_set[i].m[field] : i \in DOMAIN run_set} :
                     Cardinality(Below(v)) < k /\ k <= Cardinality(UpTo(v))
  IN ranked((Len(run_set) + 1) \div 2) + ranked((Len(run_set) + 2) \div 2)

Latencies == {"median", "p95", "p99"}

\* Mutant: a rise of the throughput is taken for a drop.
comparison_checks_swapped(before, after) ==
  /\ \A l \in Latencies : 10 * (median2(after, l) - median2(before, l)) <= median2(before, l)
  /\ 10 * (median2(after, "throughput") - median2(before, "throughput")) <= median2(before, "throughput")
  /\ median2(after, "errors") - median2(before, "errors") <= 10
  /\ \A i \in DOMAIN after : after[i].m.checks = 1000

(* The checks of the comparison, of medians: each latency at most 10% up,  *)
(* throughput at most 10% down, errors at most 5 per thousand up; and      *)
(* every sample of the candidate passed all its checks.                    *)
comparison_checks(before, after) ==
  /\ \A l \in Latencies : 10 * (median2(after, l) - median2(before, l)) <= median2(before, l)
  /\ 10 * (median2(before, "throughput") - median2(after, "throughput")) <= median2(before, "throughput")
  /\ median2(after, "errors") - median2(before, "errors") <= 10
  /\ \A i \in DOMAIN after : after[i].m.checks = 1000

(* Sets that are too small or share a file cannot be compared, nor can a   *)
(* change be measured from a median of zero.                               *)
compare_run_sets(before, after) ==
  IF \/ Len(before) < MIN_SAMPLES \/ Len(after) < MIN_SAMPLES
     \/ \E i \in DOMAIN before, j \in DOMAIN after : before[i].digest = after[j].digest
     \/ \E field \in Latencies \cup {"throughput"} : median2(before, field) = 0
  THEN "BLOCKED"
  ELSE IF comparison_checks(before, after) THEN "PASS" ELSE "FAIL"

baseline_set  == build_run_set(SubSeq(summaries, 1, MIN_SAMPLES))
candidate_set == build_run_set(SubSeq(summaries, MIN_SAMPLES + 1, 2 * MIN_SAMPLES))

(* One sample on a fresh target: a failure of the gate, by the policy or by *)
(* the exit status of k6, is remembered, and the sample counts.             *)
Collect(m, exited) ==
  /\ conclusion = "none" /\ Len(summaries) < 2 * MIN_SAMPLES
  /\ summaries' = Append(summaries, [digest |-> Len(summaries) + 1, m |-> m])
  /\ run_failed' = (run_failed \/ exited # 0 \/ ~evaluate_summary(m))
  /\ UNCHANGED <<origin, comparison, conclusion, artifact, requested>>

(* The target is not ready, k6 left no summary -- its evidence is in the   *)
(* directory by then --, a set cannot be built, or the job times out.      *)
CollectFails ==
  /\ conclusion = "none" /\ conclusion' = "failure"
  /\ artifact' \in IF summaries = <<>> THEN {{}, {"raw-runs"}}
                  ELSE {{"raw-runs"}}
                       \cup IF Len(summaries) < 2 * MIN_SAMPLES THEN {}
                            ELSE {{"raw-runs", "baseline-run-set.json"}}
  /\ UNCHANGED <<origin, summaries, run_failed, comparison, requested>>

(* Both sets are built and compared, everything is uploaded, and only then *)
(* the guardrails and the comparison decide.                               *)
Finish ==
  /\ conclusion = "none" /\ Len(summaries) = 2 * MIN_SAMPLES
  /\ comparison' = compare_run_sets(baseline_set, candidate_set)
  /\ artifact' = {"raw-runs", "baseline-run-set.json", "candidate-run-set.json", "repeatability-result.json"}
  /\ conclusion' = IF ~run_failed /\ comparison' = "PASS" THEN "success" ELSE "failure"
  /\ UNCHANGED <<origin, summaries, run_failed, requested>>

(* The provenance a collected run needs to be compared. *)
validate_sample_run ==
  /\ conclusion = "success"
  /\ origin.branch = "main" /\ origin.event \in {"workflow_dispatch", "schedule"}

(* The comparison of collected runs, asked for by hand: first their        *)
(* provenance, then the files it reads.                                    *)
Request ==
  /\ conclusion # "none" /\ requested = "none"
  /\ requested' = IF ~validate_sample_run THEN "refused"
                  ELSE IF ~({"measured-run-set.json", "raw-runs"} \subseteq artifact) THEN "missing"
                  ELSE "compared"
  /\ UNCHANGED <<origin, summaries, run_failed, comparison, conclusion, artifact>>

PerfNext ==
  \/ \E m \in Measurements, exited \in {0, 99} : Collect(m, exited)
  \/ CollectFails
  \/ Finish
  \/ Request

PerfSpec == PerfInit /\ [][PerfNext]_perfVars

-----------------------------------------------------------------------------
(* A sample that gets worse never turns the comparison of its set as the   *)
(* candidate into a PASS, whatever the other samples are; and one of the   *)
(* baseline that gets better never turns a FAIL into one.  It can turn     *)
(* BLOCKED into a PASS, where it lifts the median from zero.               *)
WorseNeverPasses ==
  conclusion = "none" /\ Len(summaries) = 2 * MIN_SAMPLES =>
    \A p \in WorseThan :
      /\ \A i \in DOMAIN candidate_set :
           candidate_set[i].m = p[2]
           /\ compare_run_sets(baseline_set, [candidate_set EXCEPT ![i].m = p[1]]) = "PASS"
             => compare_run_sets(baseline_set, candidate_set) = "PASS"
      /\ \A i \in DOMAIN baseline_set :
           baseline_set[i].m = p[1]
           /\ compare_run_sets([baseline_set EXCEPT ![i].m = p[2]], candidate_set) = "PASS"
             => compare_run_sets(baseline_set, candidate_set) # "FAIL"

(* Samples that others may be compared with are all within the policy, the *)
(* first set's too: an unhealthy baseline never hides a regression.        *)
CollectedAreHealthy ==
  conclusion = "success" =>
    /\ Len(summaries) = 2 * MIN_SAMPLES
    /\ \A i \in DOMAIN summaries : evaluate_summary(summaries[i].m)

(* Worse never passes, and what is collected as a success is healthy. *)
ComparisonIsSound == WorseNeverPasses /\ CollectedAreHealthy

(* saqa-performance-compare.yml takes the "exact artifact name containing  *)
(* measured-run-set.json and raw-runs/ (from a reviewed run)": what a      *)
(* successful run on main left can be compared.                            *)
CollectedCanBeCompared == requested # "missing"
=============================================================================
