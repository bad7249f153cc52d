----------------------------- MODULE MCJiraSync -----------------------------
(***************************************************************************)
(* Small instances of JiraSync: two runs that write the same control issue *)
(* (QA-4) and the certification issue (QA-9, exempt from bugs), and a      *)
(* Jira workflow To Do <-> In Progress -> Done -> In Progress that, like   *)
(* Jira's, never offers the status an issue is already in.                 *)
(***************************************************************************)
EXTENDS JiraSync, TLC

CONSTANTS r1, r2, j1, j2

MCKeys == {4, 9}
MCDomainOf == (r1 :> {4, 9}) @@ (r2 :> {4, 9})
MCOutcomes == {"PASS", "FAIL", "UNVERIFIED"}
(* QA-9 never does better than QA-4; it may do worse. *)
MCEvidence ==
  {(4 :> a) @@ (9 :> b) : a \in MCOutcomes, b \in {"PASS", "FAIL"}}
    \ {(4 :> a) @@ (9 :> "PASS") : a \in {"FAIL", "UNVERIFIED"}}
MCStatuses == {"To Do", "In Progress", "Done"}
MCAvailable ==
  ("To Do" :> {"In Progress"})
    @@ ("In Progress" :> {"To Do", "Done"})
    @@ ("Done" :> {"In Progress"})
=============================================================================
