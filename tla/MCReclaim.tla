------------------------------ MODULE MCReclaim ------------------------------
(***************************************************************************)
(* Instances of Reclaim for TLC.                                           *)
(***************************************************************************)
EXTENDS Reclaim, TLC

CONSTANTS w1, w2

Symmetry == Permutations({w1, w2})

(* A crash and a snapshot are not looked at together. *)
OneFault == crashes = 0 \/ pins = {}
=============================================================================
