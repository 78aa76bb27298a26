---------------------------- MODULE MCMvccClone ----------------------------
(* Instances of MvccClone for TLC.                                          *)
EXTENDS MvccClone, TLC

CONSTANTS r1, r2, p1

Together == (r1 :> p1) @@ (r2 :> p1)
=============================================================================
