SPECIFICATION Spec
CONSTANTS
  None = None
  k1 = k1
  k2 = k2
  m1 = m1
  m2 = m2
  n1 = n1
  n2 = n2
  n3 = n3
  c1 = c1
  c2 = c2
  AttemptIds = {a1, a2, a3}
  Keys = {k1, k2}
  Manifests = {m1, m2}
  Runs = {n1, n2, n3}
  Corrections = {c1, c2}
  Works <- MCWorks
  MaxCommits = 3
SYMMETRY Symmetry
INVARIANTS
  TypeOK
  HistoryVerifies
  AtMostOnce
  ReceiptsStand
  CaseFollowsProof
PROPERTIES
  HeadOnlyExtends
