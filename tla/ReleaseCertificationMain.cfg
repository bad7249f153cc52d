CONSTANTS
  Mandatory = {"CI", "k6"}
  Commits = {1}
  LastCommit = 2
  MaxRunsPerCommit = 2
  RunConclusions = {"success", "failure"}
  MaxAge = 1
  MAX_ATTEMPTS = 2
  Horizon = 2
  MaxReruns = 0
  MaxRequests = 1
  MaxKills = 0
SPECIFICATION Spec
INVARIANTS
  CertifiedIsCurrentMain
CHECK_DEADLOCK FALSE
