SPECIFICATION Spec
CONSTANTS
  Addresses = {0, 1}
  Values = {0, 1}
  Tuned = {1}
  MaxHandle = 2
  MaxPoints = 2
  MaxClock = 2
  MaxIgnore = 1
INVARIANTS
  TypeOK
  ManagerInv
  FiredAreReported
PROPERTY
  ImplementsDebuggerStops
