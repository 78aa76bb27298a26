------------------------------- MODULE MCDbi -------------------------------
(***************************************************************************)
(* Two threads, two slots, two names that are interchangeable.             *)
(***************************************************************************)
EXTENDS Dbi

SameNames == Permutations(Names)
=============================================================================
