------------------------------- MODULE CiJobs -------------------------------
(***************************************************************************)
(* The jobs around the synchronization and the gates.  A job has a runner  *)
(* of its own and shares no file, process or variable with the others --   *)
(* what they exchange are the artifacts and runs of the other modules --   *)
(* so a behaviour is the behaviour of one job, and the others stand still. *)
(***************************************************************************)
EXTENDS AttemptTelemetry, NativeSmoke, GateRun, PerformanceSamples, EvidencePipeline,
        TestDataScope, RetentionAudit, StabilityHistory, ContainerChain, ExpiringPolicies

VARIABLE job  \* the job

JobNames == {"tests", "smoke", "gate", "samples", "evidence", "scope", "audit", "stability", "image", "policies"}

jobVars == <<job, telemetryVars, smokeVars, gateVars, perfVars, pipelineVars, scopeVars, auditVars,
             stabilityVars, chainVars, policyVars>>

TypeOK ==
  /\ job \in JobNames
  /\ TelemetryTypeOK /\ SmokeTypeOK /\ GateTypeOK /\ PerfTypeOK /\ PipelineTypeOK
  /\ ScopeTypeOK /\ AuditTypeOK /\ StabilityTypeOK /\ ChainTypeOK /\ PolicyTypeOK

Init ==
  /\ job \in JobNames
  /\ TelemetryInit /\ SmokeInit /\ GateInit /\ PerfInit /\ PipelineInit
  /\ ScopeInit /\ AuditInit /\ StabilityInit /\ ChainInit /\ PolicyInit
  \* Of the jobs that stand still one initial state is enough.
  /\ job # "smoke" => platform = "android" /\ \A x \in AppIds : apps[x] = NoRun
  /\ job # "gate" => gate = "k6_gate" /\ output = "none"
  /\ job # "samples" => origin = [event |-> "schedule", branch |-> "main"]
  /\ job # "evidence" => commit = NoReport.sha

(* The jobs other than j. *)
Rest(j) ==
  /\ job = j /\ job' = job
  /\ j # "tests"     => UNCHANGED telemetryVars
  /\ j # "smoke"     => UNCHANGED smokeVars
  /\ j # "gate"      => UNCHANGED gateVars
  /\ j # "samples"   => UNCHANGED perfVars
  /\ j # "evidence"  => UNCHANGED pipelineVars
  /\ j # "scope"     => UNCHANGED scopeVars
  /\ j # "audit"     => UNCHANGED auditVars
  /\ j # "stability" => UNCHANGED stabilityVars
  /\ j # "image"     => UNCHANGED chainVars
  /\ j # "policies"  => UNCHANGED policyVars

Next ==
  \/ Rest("tests") /\ TelemetryNext
  \/ Rest("smoke") /\ SmokeNext
  \/ Rest("gate") /\ GateNext
  \/ Rest("samples") /\ PerfNext
  \/ Rest("evidence") /\ PipelineNext
  \/ Rest("scope") /\ ScopeNext
  \/ Rest("audit") /\ AuditNext
  \/ Rest("stability") /\ StabilityNext
  \/ Rest("image") /\ ChainNext
  \/ Rest("policies") /\ PolicyNext

Spec == Init /\ [][Next]_jobVars

-----------------------------------------------------------------------------
(* The policies decide on what they are about: the sealed evidence of the  *)
(* image is one chain, and an entry that expires never turns a decision    *)
(* green (scripts/build_container_security_manifest.py,                    *)
(* evaluate_vulnerability_policy.py, test_quality_report.py).              *)
PoliciesHold == SealedIsOneChain /\ WaitingNeverGreens /\ GreenIsReviewed
=============================================================================
