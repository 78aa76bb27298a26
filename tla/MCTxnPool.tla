----------------------------- MODULE MCTxnPool -----------------------------
(* Instances of TxnPool for TLC.                                            *)
EXTENDS TxnPool, TLC

\* The zero value, HandleAll, and HandleOutstanding with HandleRenew.
Complete == {{}, {"Outstanding", "Idle"}, {"Outstanding", "Renew"}}
=============================================================================
