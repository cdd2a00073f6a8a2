SPECIFICATION Spec
CONSTANTS
  None = None
  Namespaces = {n1}
  RunIds = {r1}
  Identities = {i1}
  AttemptIds = {a1, a2}
  Owners = {o1}
  Preparations = {p1}
  Callers = {c1, c2}
  MaxFence = 3
  MaxDelayed = 1
  MaxAncestry = 2
SYMMETRY Symmetry
INVARIANTS
  TypeOK
  OneFencePerAttempt
  ConfirmedFailureIsFinal
  ActiveOwnership
