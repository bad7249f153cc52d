------------------------ MODULE MCPerformanceSamples ------------------------
(***************************************************************************)
(* Four measurements for PerformanceSamples: a plain one; one at every     *)
(* limit of the policy and exactly ten per cent and five errors per        *)
(* thousand from it; one a little beyond; and a target that answers        *)
(* nothing and fails a check.                                              *)
(***************************************************************************)
EXTENDS PerformanceSamples

Measured(latencies, throughput, errors, checks) ==
  [median |-> latencies[1], p95 |-> latencies[2], p99 |-> latencies[3],
   throughput |-> throughput, errors |-> errors, checks |-> checks]

MCMeasurements ==
  {Measured(<<80, 100, 120>>, 100, 0, 1000), Measured(<<88, 110, 132>>, 90, 5, 1000),
   Measured(<<88, 110, 133>>, 89, 6, 1000), Measured(<<80, 100, 120>>, 0, 0, 990)}

MCWorseThan == {p \in MCMeasurements \X MCMeasurements : p[1] # p[2] /\ Worse(p[1], p[2])}

MCPolicyLimits == [p95 |-> 110, p99 |-> 132, errors |-> 5, throughput |-> 90, checks |-> 1000]
=============================================================================
