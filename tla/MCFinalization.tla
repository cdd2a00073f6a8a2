--------------------------- MODULE MCFinalization ---------------------------
(* Instances of Finalization for TLC.  Two runs report key k1, one of them   *)
(* also under a second manifest, and one reports k2 as well.  A correction   *)
(* c1 of k1 leaves it open or, under the same name, resolves it; c2 is a     *)
(* second correction.                                                        *)
EXTENDS Finalization, TLC

CONSTANTS k1, k2, m1, m2, n1, n2, n3, c1, c2

Plain(run, manifest, updates) ==
  [run |-> run, manifest |-> manifest, updates |-> updates,
   correction |-> None, items |-> {}]

Correcting(run, c, status) ==
  [run |-> run, manifest |-> m1, updates |-> k1 :> status, correction |-> c,
   items |-> {k1}]

MCWorks ==
  {Plain(n1, m1, k1 :> "EXCEPTION" @@ k2 :> "MATCHED"), Plain(n1, m2, k1 :> "MATCHED"),
   Plain(n2, m2, k1 :> "MATCHED"), Correcting(n2, c1, "EXCEPTION"),
   Correcting(n3, c1, "MATCHED"), Correcting(n3, c2, "MATCHED")}

Symmetry == Permutations(AttemptIds)
=============================================================================
