---------------------------- MODULE MCLocalCommit ----------------------------
(***************************************************************************)
(* Instances of LocalCommit for TLC: the calls the writers make in each    *)
(* run.                                                                    *)
(***************************************************************************)
EXTENDS LocalCommit, TLC

CONSTANTS w1, w2

Symmetry == Permutations({w1, w2})

Call(op, payload, keyed, expected, left) ==
    [op |-> op, payload |-> payload, keyed |-> keyed, expected |-> expected,
     left |-> left, auto |-> "allowed"]

(* Every operation, one of them with an expected_version. *)
MixedCalls == {Call("write", "p", FALSE, NoKey, 0),
               Call("append", "q", FALSE, NoKey, 0),
               Call("replace", "p", FALSE, 1, 0),
               Call("compact", "p", FALSE, NoKey, 0),
               Call("restore", "p", FALSE, NoKey, 0)}

(* An ingest loop: keyed appends through append_with_retry. *)
IngestCalls == {Call("append", "p", TRUE, NoKey, 1),
                Call("append", "q", FALSE, NoKey, 0)}
=============================================================================
