----------------------------- MODULE IssueLedger -----------------------------
(***************************************************************************)
(* What docs/JIRA_CI.md promises of the managed Jira issues, with no word  *)
(* of jobs, requests or failures: an issue shows one result at a time, a   *)
(* run is recorded on it at most once, and a run that failed it gets at    *)
(* most one bug, after the issue shows FAIL and the run is recorded.       *)
(* JiraSync is shown to implement it.                                      *)
(***************************************************************************)
EXTENDS SaqaResults, Naturals

CONSTANTS Keys, Runs
VARIABLES label, comment, bug

ledgerVars == <<label, comment, bug>>

Init ==
  /\ label = [k \in Keys |-> {}]
  /\ comment = [k \in Keys |-> [r \in Runs |-> 0]]
  /\ bug = [k \in Keys |-> [r \in Runs |-> 0]]

(* The issue shows a new result, and no other. *)
Publish(k, result) ==
  /\ label' = [label EXCEPT ![k] = {run_label(result)}]
  /\ UNCHANGED <<comment, bug>>

(* The run is recorded on an issue that shows a result. *)
Record(k, r) ==
  /\ label[k] # {}
  /\ comment[k][r] = 0
  /\ comment' = [comment EXCEPT ![k][r] = 1]
  /\ UNCHANGED <<label, bug>>

(* The failure of the run is reported. *)
Report(k, r) ==
  /\ label[k] = {run_label("FAIL")}
  /\ comment[k][r] = 1
  /\ bug[k][r] = 0
  /\ bug' = [bug EXCEPT ![k][r] = 1]
  /\ UNCHANGED <<label, comment>>

Next ==
  \E k \in Keys :
    \/ \E result \in Results : Publish(k, result)
    \/ \E r \in Runs : Record(k, r) \/ Report(k, r)

Spec == Init /\ [][Next]_ledgerVars
=============================================================================
