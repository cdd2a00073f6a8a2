SPECIFICATION Spec
CONSTANTS
  None = None
  n1 = n1
  e1 = e1
  e2 = e2
  e3 = e3
  e4 = e4
  d1 = d1
  d2 = d2
  d3 = d3
  r1 = r1
  r2 = r2
  Executions = {e1}
  Deployments = {d1}
  Namespaces = {n1}
  RunIds = {r1}
  Fences = {f1}
  DeploymentOf <- MCDeploymentOf
  RunOf <- MCRunOf
  NamespaceOf <- MCNamespaceOf
  LambdaRetries = 1
  AthenaRetries = 1
  MaxPending = 0
INVARIANTS
  OwnedFailuresRecordable
CHECK_DEADLOCK FALSE
