CONSTANTS
  w1 = w1
  w2 = w2
  w3 = w3
  Writers = {w1, w2, w3}
  Nobody = Nobody
  Payloads = {"a", "b"}
  HasFcntl = TRUE
  MaxAppends = 3
  MaxCrashes = 0
SPECIFICATION Spec
INVARIANTS
  TypeOK
  QuietHistoryVerifies
  AcknowledgedIsRecorded
PROPERTIES
  ImplementsLog
CHECK_DEADLOCK FALSE
