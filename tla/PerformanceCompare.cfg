CONSTANTS
  MIN_SAMPLES = 3
  Measurements <- MCMeasurements
  WorseThan <- MCWorseThan
  PolicyLimits <- MCPolicyLimits
SPECIFICATION PerfSpec
INVARIANTS
  CollectedCanBeCompared
CHECK_DEADLOCK FALSE
