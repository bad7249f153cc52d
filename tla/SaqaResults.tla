----------------------------- MODULE SaqaResults -----------------------------
(***************************************************************************)
(* The pure classification functions of scripts/sync_jira_ci.py: how the   *)
(* conclusion of a GitHub run, of a set of jobs, of the contract evidence  *)
(* and of several workflows become one SAQA result, and what a result      *)
(* means in Jira.  Strings GitHub and Jira exchange are kept verbatim      *)
(* because the code compares them; everything else is a set or a function. *)
(***************************************************************************)

Results == {"PASS", "FAIL", "BLOCKED", "PENDING", "UNVERIFIED"}

PASS_CONCLUSIONS    == {"success"}
FAIL_CONCLUSIONS    == {"failure", "timed_out"}
BLOCKED_CONCLUSIONS == {"cancelled", "action_required", "stale"}

(* What GitHub can report: the three classes above, the conclusions the    *)
(* code does not name, and "" for a run that has not concluded.            *)
Conclusions == PASS_CONCLUSIONS \cup FAIL_CONCLUSIONS \cup BLOCKED_CONCLUSIONS
                 \cup {"skipped", "neutral", "startup_failure", ""}

(* Mutant: the conclusion itself is taken for a result. *)
classify_run_raw(status, conclusion) ==
  IF status # "completed" THEN "PENDING" ELSE conclusion

classify_run(status, conclusion) ==
  CASE status # "completed"                -> "PENDING"
    [] status = "completed" /\ conclusion \in PASS_CONCLUSIONS    -> "PASS"
    [] status = "completed" /\ conclusion \in FAIL_CONCLUSIONS    -> "FAIL"
    [] status = "completed" /\ conclusion \in BLOCKED_CONCLUSIONS -> "BLOCKED"
    [] OTHER -> "UNVERIFIED"

(***************************************************************************)
(* The jobs of a run are records [name, status, conclusion]; "matched" is  *)
(* the subset whose name contains one of the caller's patterns.            *)
(***************************************************************************)
job_result(matched) ==
  LET conclusions == {job.conclusion : job \in matched} IN
  CASE matched = {} -> "UNVERIFIED"
    [] matched # {} /\ \E job \in matched : job.status # "completed" -> "PENDING"
    [] OTHER ->
         IF conclusions = {"success"} THEN "PASS"
         ELSE IF conclusions \cap FAIL_CONCLUSIONS # {} THEN "FAIL"
         ELSE IF conclusions \cap BLOCKED_CONCLUSIONS # {} THEN "BLOCKED"
         ELSE "UNVERIFIED"

(* Mutant: one green signal is enough. *)
aggregate_performance_any(values) ==
  IF "FAIL" \in values THEN "FAIL"
  ELSE IF "BLOCKED" \in values THEN "BLOCKED"
  ELSE IF "PASS" \in values THEN "PASS"
  ELSE IF "PENDING" \in values THEN "PENDING" ELSE "UNVERIFIED"

(* QA-7: the CI performance job and the k6 workflow. *)
aggregate_performance_result(values) ==
  IF "FAIL" \in values THEN "FAIL"
  ELSE IF "BLOCKED" \in values THEN "BLOCKED"
  ELSE IF "PENDING" \in values THEN "PENDING"
  ELSE IF values = {"PASS"} THEN "PASS" ELSE "UNVERIFIED"

(* QA-4: the latest CI run and the contract result. *)
api_overall(ci, contract) ==
  LET values == {ci, contract} IN
  IF "FAIL" \in values THEN "FAIL"
  ELSE IF "BLOCKED" \in values THEN "BLOCKED"
  ELSE IF values = {"PASS"} THEN "PASS"
  ELSE IF "PENDING" \in values THEN "PENDING" ELSE "UNVERIFIED"

(* Mutant: workflows still running do not stand in the way. *)
certification_ignoring_pending(current, contractRun, contract) ==
  IF "FAIL" \in current THEN "FAIL"
  ELSE IF "BLOCKED" \in current THEN "BLOCKED"
  ELSE IF contractRun = "PASS" /\ contract # "PASS" THEN "UNVERIFIED"
  ELSE IF current \ {"PENDING"} = {"PASS"} THEN "PASS" ELSE "UNVERIFIED"

(***************************************************************************)
(* QA-9.  current is the set of the monitored workflows' latest results on *)
(* the commit, PENDING among them if one has no run there; contract is the *)
(* verified contract result, contractRun the result of the contract        *)
(* workflow's run.                                                         *)
(***************************************************************************)
certification_overall(current, contractRun, contract) ==
  IF "FAIL" \in current THEN "FAIL"
  ELSE IF "BLOCKED" \in current THEN "BLOCKED"
  ELSE IF "PENDING" \in current THEN "PENDING"
  ELSE IF contractRun = "PASS" /\ contract # "PASS" THEN "UNVERIFIED"
  ELSE IF current = {"PASS"} THEN "PASS" ELSE "UNVERIFIED"

STATUS_LABELS == {"saqa-ci-pass", "saqa-ci-fail", "saqa-ci-blocked",
                  "saqa-ci-pending", "saqa-ci-unverified"}

(* Mutant: the result itself is used as the label. *)
run_label_raw(result) == result

run_label(result) ==
  [PASS |-> "saqa-ci-pass", FAIL |-> "saqa-ci-fail", BLOCKED |-> "saqa-ci-blocked",
   PENDING |-> "saqa-ci-pending", UNVERIFIED |-> "saqa-ci-unverified"][result]

transition_targets(result) ==
  CASE result = "PASS"    -> {"Done", "Closed"}
    [] result = "FAIL"    -> {"In Progress", "Reopened"}
    [] result = "BLOCKED" -> {"Blocked", "In Progress"}
    [] OTHER -> {"In Progress", "Open", "To Do"}
=============================================================================
