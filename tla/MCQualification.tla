--------------------------- MODULE MCQualification --------------------------
(* Instance of Qualification for TLC: two runs of two cases each, one with an *)
(* injected fault and the normal one.                                         *)
EXTENDS Qualification, TLC

CONSTANTS after_lease, normal

MCCases == <<after_lease, normal>>
MCInjectedAfter == (after_lease :> "compete") @@ (normal :> None)

Symmetry == Permutations(Runs)
=============================================================================
