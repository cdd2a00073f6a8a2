------------------------- MODULE MCDynamoAuthority --------------------------
(* Small instances of DynamoAuthority for TLC. *)
EXTENDS DynamoAuthority, TLC

Symmetry ==
  Permutations(Callers) \cup Permutations(RunIds) \cup Permutations(AttemptIds)
    \cup Permutations(Owners) \cup Permutations(Namespaces) \cup Permutations(Identities)
=============================================================================
