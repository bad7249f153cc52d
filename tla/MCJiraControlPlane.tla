-------------------------- MODULE MCJiraControlPlane --------------------------
(***************************************************************************)
(* Small instances of JiraControlPlane: CI, the contract gate and at most  *)
(* one more of the five workflows, with CI runs that pass or fail in one   *)
(* job.                                                                    *)
(***************************************************************************)
EXTENDS JiraControlPlane

Green == AllJobs("success")
Failing(name) == [Green EXCEPT ![name] = "failure"]

MCBrowserOutcomes == {Green, Failing("browser")}
MCPerformanceOutcomes == {Green, Failing("performance")}
MCSecurityOutcomes == {Green, Failing("dependency")}
=============================================================================
