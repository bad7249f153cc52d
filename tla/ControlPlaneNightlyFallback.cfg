CONSTANTS
  Monitored = {"CI", "Contract", "Accessibility"}
  Keys = {4, 9}
  Commits = {1}
  BranchCommits = {}
  MaxRunsPerCommit = 1
  JobOutcomes <- MCBrowserOutcomes
  ContractOutcomes = {"PASS", "FAIL"}
  OtherConclusions = {"success"}
  Nightly = TRUE
  MaxAnnouncements = 0
  MaxReruns = 0
  MaxExpiries = 1
  MaxKills = 0
SPECIFICATION Spec
PROPERTIES
  NightlyCertificationNeedsApi
CHECK_DEADLOCK FALSE
