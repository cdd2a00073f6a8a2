SPECIFICATION Spec
CONSTANTS
  None = None
  Namespaces = {n1, n2}
  RunIds = {r1, r2}
  Identities = {i1, i2}
  AttemptIds = {a1, a2, a3}
  Owners = {o1, o2}
  Preparations = {p1}
  MaxFence = 4
SYMMETRY Symmetry
INVARIANTS
  TypeOK
  SingleHistory
  DurableReplay
  OneCommitPerRun
  ActiveOwnership
  NewestFenceOwns
PROPERTIES
  HistoryOnlyGrows
  TerminalForever
  KeepsPromise
