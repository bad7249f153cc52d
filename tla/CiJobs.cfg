CONSTANTS
  Tests = {t1, t2}
  Workers = {g0, g1, g2}
  FirstWorkers = {g0, g1}
  NoTest = NoTest
  Reruns = 1
  SmokeRuns = {s1, s2}
  NoRun = NoRun
  AppIds = {a1, a2}
  Preinstalled = Preinstalled
  MaxRedirects = 2
  MIN_SAMPLES = 3
  Measurements <- MCMeasurements
  WorseThan <- MCWorseThan
  PolicyLimits <- MCPolicyLimits
  TestIds = {e1, e2}
  Commits = {k1, k2}
  Outcomes = {"PASS", "N/A"}
  MaxAge = 0
  MaxHour = 1
  MaxResults = 3
  Cleanups = {c1, c2, c3}
  Domains = {d1}
  Retention = 2
  MinRetention = 1
  MaxDay = 2
  MaxMain = 1
  MaxRuns = 2
  MaxAttempts = 2
  Versions = {v1, v2}
  TestedShas = {h1, h2}
  JUnits = {"PASS", "FAIL", "unreadable"}
  Window = 2
  MinRuns = 2
  MaxCiRuns = 2
  Images = {i1, i2}
  TrainingImage = i1
  MaxVersions = 2
  Vulnerabilities = {"CVE", "GHSA"}
  Aliases <- MCAliases
  SuiteTests = {q1}
  LastDate = 2
SPECIFICATION Spec
INVARIANTS
  TypeOK
  GreenStepHidesNothing
  EvidenceIsOfThisRun
  ExitMatchesEvidence
  ComparisonIsSound
  CertifiedIsEarned
  CleanupIsComplete
  ReadyIsRetained
  VariationIsReal
  PoliciesHold
CHECK_DEADLOCK FALSE
