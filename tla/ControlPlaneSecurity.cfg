CONSTANTS
  Monitored = {"CI", "Contract"}
  Keys = {5, 9}
  Commits = {1}
  BranchCommits = {}
  MaxRunsPerCommit = 1
  JobOutcomes <- MCSecurityOutcomes
  ContractOutcomes = {"PASS", "FAIL"}
  OtherConclusions = {"success"}
  Nightly = FALSE
  MaxAnnouncements = 1
  MaxReruns = 0
  MaxExpiries = 0
  MaxKills = 0
SPECIFICATION Spec
INVARIANTS
  SecurityIsBacked
CHECK_DEADLOCK FALSE
