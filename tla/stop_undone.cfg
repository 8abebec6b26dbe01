SPECIFICATION ControlSpec
CHECK_DEADLOCK FALSE
CONSTANTS
  Starters = {"s1"}
  Stoppers = {"p1"}
  Savers = {}
  Readers = {}
  MaxEngines = 2
PROPERTY StopStays
