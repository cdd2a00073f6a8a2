SPECIFICATION Spec
CONSTANTS
  Runs = {r1, r2}
  after_lease = after_lease
  normal = normal
  Cases <- MCCases
  InjectedAfter <- MCInjectedAfter
  Duration = 1
  MaxClock = 2
  MaxFaults = 2
  None = None
INVARIANT
  NothingLeftBehind
PROPERTY
  ForeignUntouched
SYMMETRY Symmetry
CHECK_DEADLOCK FALSE
