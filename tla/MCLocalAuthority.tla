-------------------------- MODULE MCLocalAuthority --------------------------
(* Small instances of LocalAuthority for TLC. *)
EXTENDS LocalAuthority, TLC

\* The names carry no order and no call tells two of them apart.
Symmetry ==
  Permutations(Namespaces) \cup Permutations(RunIds)
    \cup Permutations(AttemptIds) \cup Permutations(Owners)
    \cup Permutations(Identities)
=============================================================================
