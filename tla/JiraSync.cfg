CONSTANTS
  r1 = r1
  r2 = r2
  j1 = j1
  j2 = j2
  Jobs = {j1, j2}
  Runs = {r1, r2}
  NoRun = NoRun
  Keys <- MCKeys
  DomainOf <- MCDomainOf
  Evidence <- MCEvidence
  Statuses <- MCStatuses
  Available <- MCAvailable
  InitialStatus = "To Do"
  LargeProject = FALSE
  LateWrites = FALSE
  MaxDeliveries = 3
  MaxReruns = 1
  MaxKills = 2
SPECIFICATION Spec
INVARIANTS
  TypeOK
  SingleStatusLabel
  BugCreatedOnce
  CommentAddedOnce
  NothingBeforeBootstrap
  ProcessedIssuesReflectEvidence
PROPERTIES
  DefectFollowsVerifiedFailure
  ImplementsLedger
CHECK_DEADLOCK FALSE
