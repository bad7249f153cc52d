CONSTANTS
  w1 = w1
  w2 = w2
  w3 = w3
  Writers = {w1, w2}
  Nobody = Nobody
  Payloads = {"a", "b"}
  HasFcntl = TRUE
  MaxAppends = 4
  MaxCrashes = 2
SPECIFICATION FairSpec
INVARIANTS
  NothingFollowsDamage
  LossIsNoticed
PROPERTIES
  AppendsEnd
CHECK_DEADLOCK FALSE
