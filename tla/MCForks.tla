------------------------------- MODULE MCForks -------------------------------
(* Forks on small instances. *)
EXTENDS Forks, TLC

Interchangeable == Permutations(ForkNames)
=============================================================================
