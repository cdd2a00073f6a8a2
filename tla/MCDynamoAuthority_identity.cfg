SPECIFICATION Spec
CONSTANTS
  None = None
  Namespaces = {n1, n2}
  RunIds = {r1}
  Identities = {i1, i2}
  AttemptIds = {a1}
  Owners = {o1}
  Preparations = {p1}
  Callers = {c1, c2}
  MaxFence = 1
  MaxDelayed = 1
  MaxAncestry = 2
SYMMETRY Symmetry
INVARIANTS
  ActiveOwnership
PROPERTIES
  KeepsPromise
