CONSTANTS
  Mandatory = {"CI", "k6"}
  Commits = {1}
  LastCommit = 2
  MaxRunsPerCommit = 2
  RunConclusions = {"success", "failure"}
  MaxAge = 1
  MAX_ATTEMPTS = 2
  Horizon = 2
  MaxReruns = 1
  MaxRequests = 2
  MaxKills = 1
SPECIFICATION FairSpec
INVARIANTS
  TypeOK
  CertificateIsBacked
  NewestVerdictCounts
  CertifiedHasOwnArtifacts
PROPERTIES
  RequestIsDecided
  SettledIsCertified
CHECK_DEADLOCK FALSE
