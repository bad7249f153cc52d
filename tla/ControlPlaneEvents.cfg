CONSTANTS
  Monitored = {"CI", "Contract", "k6"}
  Keys = {7, 9}
  Commits = {1, 2}
  BranchCommits = {}
  MaxRunsPerCommit = 2
  JobOutcomes <- MCPerformanceOutcomes
  ContractOutcomes = {"PASS"}
  OtherConclusions = {"success"}
  Nightly = FALSE
  MaxAnnouncements = 2
  MaxReruns = 1
  MaxExpiries = 1
  MaxKills = 0
SPECIFICATION Spec
INVARIANTS
  TypeOK
  CertificationIsBacked
  PerformanceIsBacked
CHECK_DEADLOCK FALSE
