SPECIFICATION Spec
CONSTANTS
  None = None
  Namespaces = {n1}
  RunIds = {r1, r2}
  Identities = {i1, i2}
  AttemptIds = {a1}
  Owners = {o1}
  Preparations = {p1}
  Callers = {c1, c2}
  MaxFence = 2
  MaxDelayed = 1
  MaxAncestry = 1
SYMMETRY Symmetry
INVARIANTS
  AcknowledgedIsFinal
PROPERTIES
  KeepsPromise
