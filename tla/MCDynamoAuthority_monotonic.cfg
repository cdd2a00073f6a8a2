SPECIFICATION Spec
CONSTANTS
  None = None
  Namespaces = {n1}
  RunIds = {r1}
  Identities = {i1}
  AttemptIds = {a1, a2}
  Owners = {o1}
  Preparations = {p1}
  Callers = {c1, c2}
  MaxFence = 2
  MaxDelayed = 0
  MaxAncestry = 2
SYMMETRY Symmetry
INVARIANTS
  MonotonicFencing
