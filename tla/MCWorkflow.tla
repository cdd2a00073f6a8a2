----------------------------- MODULE MCWorkflow -----------------------------
(* Instances of Workflow for TLC: e1 and e2 run the same input d1 of run r1, *)
(* e3 runs d2 of run r2, e4 runs d3, a second input that names r1.           *)
EXTENDS Workflow, TLC

CONSTANTS e1, e2, e3, e4, d1, d2, d3, r1, r2, n1

Inputs == e1 :> d1 @@ e2 :> d1 @@ e3 :> d2 @@ e4 :> d3
MCDeploymentOf == [e \in Executions |-> Inputs[e]]
MCRunOf == [d \in Deployments |-> IF d = d2 THEN r2 ELSE r1]
MCNamespaceOf == [d \in Deployments |-> n1]
FenceSymmetry == Permutations(Fences)
=============================================================================
