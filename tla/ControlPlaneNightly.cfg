CONSTANTS
  Monitored = {"CI", "Contract"}
  Keys = {8, 9}
  Commits = {1, 2, 3}
  BranchCommits = {2}
  MaxRunsPerCommit = 1
  JobOutcomes <- MCBrowserOutcomes
  ContractOutcomes = {"PASS"}
  OtherConclusions = {"success"}
  Nightly = TRUE
  MaxAnnouncements = 1
  MaxReruns = 0
  MaxExpiries = 0
  MaxKills = 1
SPECIFICATION FairSpec
PROPERTIES
  MainNeverMovesBack
  NightlyLeavesOneCommit
  MissedEventsAreRepaired
  GreenMainIsCertified
CHECK_DEADLOCK FALSE
