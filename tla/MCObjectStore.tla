---------------------------- MODULE MCObjectStore ----------------------------
(***************************************************************************)
(* Instances of ObjectStoreCommit for TLC.                                 *)
(***************************************************************************)
EXTENDS ObjectStoreCommit

(* A keyed append with retries, beside it a full write, a restore or an       *)
(* evolution, one at a time.                                                  *)
EveryCall == {[op |-> "append", payload |-> "a"], [op |-> "write", payload |-> "c"],
              [op |-> "restore", payload |-> "c"], [op |-> "evolve", payload |-> "c"]}

(* Each schema adds a column to the one before. *)
AddColumn == {<<"s1", "s2">>, <<"s1", "s3">>, <<"s2", "s3">>}
=============================================================================
