--------------------------- MODULE ContainerChain ---------------------------
(***************************************************************************)
(* The evidence about the pinned training image: the steps of              *)
(* saqa-container-security.yml in one artifact directory.  A scan and an   *)
(* SBOM (external tools), their summary and validation                     *)
(* (scripts/summarize_trivy_report.py, validate_spdx_sbom.py), the policy's*)
(* decision (evaluate_container_security_policy.py) and the manifest that  *)
(* seals the chain (build_container_security_manifest.py).  The workflow   *)
(* runs them in order; by hand any step may be run again at any time.      *)
(***************************************************************************)
EXTENDS Naturals

CONSTANTS
  Images,        \* images that are scanned
  TrainingImage, \* TRAINING_IMAGE_DIGEST
  MaxVersions    \* bound on the scans and on the SBOMs: a number stands for their bytes

ASSUME ChainAssumption ==
  /\ TrainingImage \in Images
  /\ MaxVersions \in Nat

VARIABLES
  trivy,           \* the raw report: [sha, image, valid]
  trivy_summary,   \* its summary: [source, image]
  sbom,            \* [sha, valid]
  sbom_validation, \* the SHA the validation passed, 0 when there is none
  policy_result,   \* [status, source, image, eligible]
  security_manifest \* [status, raw, summary, policy, sbom, validation]

chainVars == <<trivy, trivy_summary, sbom, sbom_validation, policy_result, security_manifest>>

Shas == 0..MaxVersions  \* 0: no file
PolicyStatuses == {"none", "BLOCKED", "FAIL", "PASS", "REPORT_ONLY"}
Summaries == [source : Shas, image : Images]
PolicyResults == [status : PolicyStatuses, source : Shas, image : Images, eligible : BOOLEAN]
NoSummary == [source |-> 0, image |-> TrainingImage]
Undecided(status) == [status |-> status, source |-> 0, image |-> TrainingImage, eligible |-> FALSE]
Unsealed(status) == [status |-> status, raw |-> 0, summary |-> NoSummary, policy |-> Undecided("none"), sbom |-> 0, validation |-> 0]

ChainTypeOK ==
  /\ trivy \in [sha : Shas, image : Images, valid : BOOLEAN]
  /\ trivy_summary \in Summaries
  /\ sbom \in [sha : Shas, valid : BOOLEAN]
  /\ sbom_validation \in Shas
  /\ policy_result \in PolicyResults
  /\ security_manifest \in [status : {"none", "UNVERIFIED", "PASS"}, raw : Shas, summary : Summaries,
                   policy : PolicyResults, sbom : Shas, validation : Shas]

ChainInit ==
  /\ trivy = [sha |-> 0, image |-> TrainingImage, valid |-> FALSE] /\ trivy_summary = NoSummary
  /\ sbom = [sha |-> 0, valid |-> FALSE] /\ sbom_validation = 0
  /\ policy_result = Undecided("none") /\ security_manifest = Unsealed("none")

-----------------------------------------------------------------------------
(* A new scan or SBOM replaces the file in place, whole and valid or not. *)
ScanImage(image, valid) ==
  /\ trivy.sha < MaxVersions
  /\ trivy' = [sha |-> trivy.sha + 1, image |-> image, valid |-> valid]
  /\ UNCHANGED <<trivy_summary, sbom, sbom_validation, policy_result, security_manifest>>

GenerateSbom(valid) ==
  /\ sbom.sha < MaxVersions
  /\ sbom' = [sha |-> sbom.sha + 1, valid |-> valid]
  /\ UNCHANGED <<trivy, trivy_summary, sbom_validation, policy_result, security_manifest>>

(* The old summary goes first; a report that is missing, malformed or of   *)
(* another image than the requested one leaves none; so does a full disk.  *)
summarize_file(image, written) ==
  /\ trivy_summary' = IF written /\ trivy.valid /\ trivy.image = image
                      THEN [source |-> trivy.sha, image |-> image] ELSE NoSummary
  /\ UNCHANGED <<trivy, sbom, sbom_validation, policy_result, security_manifest>>

(* The same for the validation of the SBOM. *)
validate_file(written) ==
  /\ sbom_validation' = IF written /\ sbom.valid THEN sbom.sha ELSE 0
  /\ UNCHANGED <<trivy, trivy_summary, sbom, policy_result, security_manifest>>

(* Report-only is for the training image alone; a policy that is malformed *)
(* or has expired entries decides nothing, in that mode neither.           *)
may_decide(report_only, usable) ==
  /\ trivy_summary.source # 0 /\ usable
  /\ report_only => trivy_summary.image = TrainingImage

(* The decision is written over the last one; what cannot be decided is    *)
(* written as BLOCKED, and what cannot be written leaves the last.         *)
evaluate_container_policy(report_only, usable, blocking, written) ==
  /\ policy_result' =
       IF ~written THEN policy_result
       ELSE IF ~may_decide(report_only, usable) THEN Undecided("BLOCKED")
       ELSE [status |-> IF report_only THEN "REPORT_ONLY" ELSE IF blocking THEN "FAIL" ELSE "PASS",
             source |-> trivy_summary.source, image |-> trivy_summary.image, eligible |-> ~report_only]
  /\ UNCHANGED <<trivy, trivy_summary, sbom, sbom_validation, security_manifest>>

\* Mutant: the decision is not compared with the raw report.
chain_holds_unbound(image) ==
  /\ trivy.sha # 0 /\ sbom.sha # 0
  /\ trivy_summary.source = trivy.sha /\ trivy_summary.image = image
  /\ sbom_validation = sbom.sha
  /\ policy_result.status = "REPORT_ONLY" /\ ~policy_result.eligible
  /\ policy_result.image = image

(* Every file is there, for the image, and bound to the bytes of the file  *)
(* it was made from.                                                       *)
chain_holds(image) ==
  /\ trivy.sha # 0 /\ sbom.sha # 0
  /\ trivy_summary.source = trivy.sha /\ trivy_summary.image = image
  /\ sbom_validation = sbom.sha
  /\ policy_result.status = "REPORT_ONLY" /\ ~policy_result.eligible
  /\ policy_result.source = trivy.sha /\ policy_result.image = image

build_manifest(image, written) ==
  /\ security_manifest' =
       IF ~written THEN security_manifest
       ELSE IF ~chain_holds(image) THEN Unsealed("UNVERIFIED")
       ELSE [status |-> "PASS", raw |-> trivy.sha, summary |-> trivy_summary, policy |-> policy_result,
             sbom |-> sbom.sha, validation |-> sbom_validation]
  /\ UNCHANGED <<trivy, trivy_summary, sbom, sbom_validation, policy_result>>

ChainNext ==
  \/ \E image \in Images, ok \in BOOLEAN :
       ScanImage(image, ok) \/ summarize_file(image, ok) \/ build_manifest(image, ok)
  \/ \E ok \in BOOLEAN : GenerateSbom(ok) \/ validate_file(ok)
  \/ \E report_only, usable, blocking, written \in BOOLEAN :
       evaluate_container_policy(report_only, usable, blocking, written)

ChainSpec == ChainInit /\ [][ChainNext]_chainVars

-----------------------------------------------------------------------------
(* A sealed manifest is one chain: the summary and the decision come from  *)
(* the one scan it names, the validation from its SBOM, and the decision   *)
(* is the training image's, never one a release could use -- whatever was  *)
(* run again, and in whatever order, before it was built.                  *)
SealedIsOneChain ==
  security_manifest.status = "PASS" =>
    /\ security_manifest.raw # 0
    /\ security_manifest.summary.source = security_manifest.raw /\ security_manifest.policy.source = security_manifest.raw
    /\ security_manifest.validation = security_manifest.sbom /\ security_manifest.sbom # 0
    /\ security_manifest.summary.image = TrainingImage
    /\ security_manifest.policy.status = "REPORT_ONLY" /\ ~security_manifest.policy.eligible

=============================================================================
