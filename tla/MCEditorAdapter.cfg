CONSTANTS
  a = a
  b = b
  c = c
  n1 = n1
  n2 = n2
  Ids = {a, b, c}
  Numbers = {n1, n2}
  Nullable = {"stats"}
  Absent = Absent
  Null = Null
  NumSources = 2
  Tombstones = {}
  Clients = {"editor", "cli"}
  Faults = {"write", "rollback", "crash"}
  MaxFaults = 2
  MaxSteps = 3
SPECIFICATION MCSpec
INVARIANTS CleanMeansUnchanged
PROPERTIES ImplementsPackage SaveLosesOnlyItsWindow
CHECK_DEADLOCK FALSE
