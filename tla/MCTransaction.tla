---------------------------- MODULE MCTransaction ----------------------------
(***************************************************************************)
(* Instances of Transaction for TLC: two tables, ordinary commits of       *)
(* either and transactions over both.                                      *)
(***************************************************************************)
EXTENDS Transaction, TLC

CONSTANTS k1, k2, p1, p2

(* Two calls in the one process that is open, or one in each of two. *)
MCSettings ==
    {[alone |-> TRUE, writeBack |-> TRUE, ids |-> 3, procOf |-> (k1 :> p1) @@ (k2 :> p1)],
     [alone |-> FALSE, writeBack |-> FALSE, ids |-> 2, procOf |-> (k1 :> p1) @@ (k2 :> p2)]}

TxnAndTable == {{"a"}, {"a", "b"}}
=============================================================================
