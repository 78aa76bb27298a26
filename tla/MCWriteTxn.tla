----------------------------- MODULE MCWriteTxn -----------------------------
(* Instances of module WriteTxn for TLC.                                   *)
EXTENDS WriteTxn

=============================================================================
