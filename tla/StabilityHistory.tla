-------------------------- MODULE StabilityHistory --------------------------
(***************************************************************************)
(* The weekly report on the stability of tests: saqa-test-stability.yml    *)
(* downloads the JUnit artifacts of the newest runs of main one by one,    *)
(* while artifacts expire, and scripts/test_stability_history.py looks for *)
(* a test that passed in one run and failed in another.  A test is one     *)
(* outcome for each Python version here: the report adds its tests up.     *)
(***************************************************************************)
EXTENDS Naturals, Sequences, FiniteSets

CONSTANTS
  Versions,   \* EXPECTED_PYTHON_VERSIONS
  TestedShas, \* commits of main
  JUnits,     \* what the JUnit of an artifact can hold
  Window,     \* runs the workflow looks back
  MinRuns,    \* --min-runs
  MaxCiRuns   \* bound on the runs of main

JUnitOutcomes == {"PASS", "FAIL", "ERROR", "SKIP", "unreadable"}

ASSUME StabilityAssumption ==
  /\ JUnits \subseteq JUnitOutcomes
  /\ {Window, MaxCiRuns} \subseteq Nat /\ MinRuns \in Nat \ {0, 1}

VARIABLES
  ci_runs,    \* completed push and schedule runs of main: [sha, valid, junit]
  retained,   \* <<run, version>> whose artifact can be downloaded
  selected,   \* ids of the runs to download, once they are listed
  downloaded, \* ids whose download has ended
  input,      \* <<run, version>> with a JUnit in the input directory
  stability   \* status of the report

stabilityVars == <<ci_runs, retained, selected, downloaded, input, stability>>

CiRuns == [sha : TestedShas, valid : BOOLEAN, junit : [Versions -> JUnits]]
RunIds == 1..MaxCiRuns
StabilityStatuses == {"none", "SAME_COMMIT_OUTCOME_VARIATION", "CROSS_COMMIT_OUTCOME_VARIATION",
                      "INCOMPLETE_ARTIFACT_COVERAGE", "NO_VARIATION_OBSERVED", "INSUFFICIENT_HISTORY"}

StabilityTypeOK ==
  /\ ci_runs \in Seq(CiRuns) /\ Len(ci_runs) <= MaxCiRuns
  /\ retained \subseteq (DOMAIN ci_runs) \X Versions
  /\ downloaded \subseteq selected /\ selected \subseteq DOMAIN ci_runs
  /\ Cardinality(selected) <= Window
  /\ input \subseteq downloaded \X Versions
  /\ stability \in StabilityStatuses

StabilityInit ==
  /\ ci_runs = <<>> /\ retained = {} /\ selected = {} /\ downloaded = {} /\ input = {}
  /\ stability = "none"

-----------------------------------------------------------------------------
(* A CI run of main ends; its metadata may be something the report refuses. *)
CiRunEnds(run) ==
  /\ selected = {} /\ Len(ci_runs) < MaxCiRuns
  /\ ci_runs' = Append(ci_runs, run)
  /\ retained' = retained \cup {<<Len(ci_runs) + 1, v>> : v \in Versions}
  /\ UNCHANGED <<selected, downloaded, input, stability>>

(* It expired, was deleted, cannot be downloaded or never was there. *)
ArtifactExpires(x) ==
  /\ x \in retained /\ stability = "none" /\ x[1] \notin downloaded
  /\ retained' = retained \ {x}
  /\ UNCHANGED <<ci_runs, selected, downloaded, input, stability>>

ListCiRuns ==
  /\ selected = {} /\ stability = "none"
  /\ selected' = {i \in DOMAIN ci_runs : i + Window > Len(ci_runs)} /\ selected' # {}
  /\ UNCHANGED <<ci_runs, retained, downloaded, input, stability>>

(* A version that cannot be downloaded leaves a gap and nothing else. *)
Download(i) ==
  /\ i \in selected \ downloaded /\ stability = "none"
  /\ \A j \in selected : j > i => j \in downloaded
  /\ downloaded' = downloaded \cup {i}
  /\ input' = input \cup {x \in retained : x[1] = i}
  /\ UNCHANGED <<ci_runs, retained, selected, stability>>

-----------------------------------------------------------------------------
\* Mutant: what was not downloaded is no gap.
artifact_gaps_lost == {x \in input : ci_runs[x[1]].junit[x[2]] = "unreadable"}

(* Downloaded runs and versions without an observation: no JUnit, one that *)
(* does not parse, or metadata that are refused.                           *)
artifact_gaps ==
  {x \in downloaded \X Versions :
     x \notin input \/ ~ci_runs[x[1]].valid \/ ci_runs[x[1]].junit[x[2]] = "unreadable"}

observations == (downloaded \X Versions) \ artifact_gaps

(* The outcomes that a version had in some runs. *)
statuses_of(v, ids) == {ci_runs[x[1]].junit[x[2]] : x \in {y \in observations : y[2] = v /\ y[1] \in ids}}
varies(statuses) == "PASS" \in statuses /\ statuses \cap {"FAIL", "ERROR"} # {}

runs_at(sha) == {i \in downloaded : ci_runs[i].sha = sha}

same_commit_variation == \E v \in Versions, sha \in TestedShas : varies(statuses_of(v, runs_at(sha)))
cross_commit_variation == \E v \in Versions : varies(statuses_of(v, downloaded))

runs_of(v) == {x[1] : x \in {y \in observations : y[2] = v}}
cohorts_sufficient ==
  LET cohorts == {v \in Versions : runs_of(v) # {}}
  IN cohorts # {} /\ \A v \in cohorts : Cardinality(runs_of(v)) >= MinRuns

(* A step that fails while downloading does not keep the report from being *)
(* built from what is there: the report runs always.                       *)
build_history ==
  /\ selected # {} /\ stability = "none"
  /\ stability' = IF same_commit_variation THEN "SAME_COMMIT_OUTCOME_VARIATION"
                  ELSE IF cross_commit_variation THEN "CROSS_COMMIT_OUTCOME_VARIATION"
                  ELSE IF artifact_gaps # {} THEN "INCOMPLETE_ARTIFACT_COVERAGE"
                  ELSE IF cohorts_sufficient THEN "NO_VARIATION_OBSERVED"
                  ELSE "INSUFFICIENT_HISTORY"
  /\ UNCHANGED <<ci_runs, retained, selected, downloaded, input>>

StabilityNext ==
  \/ \E run \in CiRuns : CiRunEnds(run)
  \/ \E x \in RunIds \X Versions : ArtifactExpires(x)
  \/ ListCiRuns
  \/ \E i \in RunIds : Download(i)
  \/ build_history

StabilitySpec == StabilityInit /\ [][StabilityNext]_stabilityVars

-----------------------------------------------------------------------------
(* Nothing that was lost passes for a quiet test: the report observes no   *)
(* variation only if of each run it downloaded every version was read, and *)
(* what the runs really came to does not vary in any version.  Of a        *)
(* selected run that the download never came to nothing is known.          *)
QuietMeansComplete ==
  stability = "NO_VARIATION_OBSERVED" =>
    \A v \in Versions :
      LET outcomes == {ci_runs[i].junit[v] : i \in downloaded}
      IN /\ Cardinality(downloaded) >= MinRuns
         /\ "unreadable" \notin outcomes /\ ~varies(outcomes)

(* A commit is said to vary only if one version of Python passed in one of *)
(* its runs and failed in another one of them.                             *)
SameCommitIsIntermittent ==
  stability = "SAME_COMMIT_OUTCOME_VARIATION" =>
    \E v \in Versions, i, j \in downloaded :
      /\ ci_runs[i].sha = ci_runs[j].sha
      /\ ci_runs[i].junit[v] = "PASS" /\ ci_runs[j].junit[v] \in {"FAIL", "ERROR"}

(* The report neither misses a variation nor makes one up. *)
VariationIsReal == QuietMeansComplete /\ SameCommitIsIntermittent
=============================================================================
