------------------------------- MODULE MCMvcc -------------------------------
(* Instances of Mvcc for TLC.                                               *)
EXTENDS Mvcc, TLC

CONSTANTS r1, r2, p1, p2

\* Both handles in one process, one in each, a single one.
Together == (r1 :> p1) @@ (r2 :> p1)
Apart == (r1 :> p1) @@ (r2 :> p2)
Alone == r1 :> p1

Symmetry == Permutations({r1, r2})
=============================================================================
