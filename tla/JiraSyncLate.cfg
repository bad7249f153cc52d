CONSTANTS
  r1 = r1
  r2 = r2
  j1 = j1
  j2 = j2
  Jobs = {j1, j2}
  Runs = {r1, r2}
  NoRun = NoRun
  Keys <- MCKeys
  DomainOf <- MCDomainOf
  Evidence <- MCEvidence
  Statuses <- MCStatuses
  Available <- MCAvailable
  InitialStatus = "To Do"
  LargeProject = FALSE
  LateWrites = TRUE
  MaxDeliveries = 3
  MaxReruns = 0
  MaxKills = 1
SPECIFICATION FairSpec
INVARIANTS
  DuplicatesBoundedByKills
PROPERTIES
  PendingDrains
CHECK_DEADLOCK FALSE
