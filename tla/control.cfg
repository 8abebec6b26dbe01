SPECIFICATION OperatorSpec
CHECK_DEADLOCK FALSE
CONSTANTS
  Starters = {"s1", "s2"}
  Stoppers = {"p1"}
  Savers = {"v1"}
  Readers = {"r1"}
  MaxEngines = 2
  Keys = {"intrinsic", "extrinsic"}
  MaxJobs = 3
INVARIANTS ControlInv JobsInv
PROPERTIES StartsObey CycleReturns JobsEnd
