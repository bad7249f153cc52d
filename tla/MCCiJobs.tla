------------------------------ MODULE MCCiJobs ------------------------------
(***************************************************************************)
(* A small instance of every job: two vulnerabilities of which the one may *)
(* also be excepted by the identifier of the other.                        *)
(***************************************************************************)
EXTENDS CiJobs, MCPerformanceSamples

MCAliases == [v \in {"CVE", "GHSA"} |-> IF v = "CVE" THEN {"GHSA"} ELSE {}]
=============================================================================
