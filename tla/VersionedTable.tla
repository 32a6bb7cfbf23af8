--------------------------- MODULE VersionedTable ---------------------------
(***************************************************************************)
(* What one table of h5i-db promises its callers, whichever backend and    *)
(* whichever interleaving of writers, crashes and power losses implements  *)
(* it: a list of immutable versions 0..top that grows one version at a     *)
(* time, each derived from the version just below it by the operation that *)
(* is recorded in it, and a prefix of which (0..durable) survives a power  *)
(* loss.  LocalCommit is shown to implement this specification.            *)
(***************************************************************************)
EXTENDS Integers

CONSTANTS Payloads      \* the row batches callers write

VARIABLES version,      \* [0..top -> [op, rows]]: the committed versions
          top,          \* the latest visible version
          durable       \* the latest version a power loss cannot take back

vars == <<version, top, durable>>

Version == [op : {"create", "write", "append", "replace", "compact", "restore",
                  "evolve"},
            rows : SUBSET Payloads]

TypeOK ==
    /\ top \in Nat
    /\ durable \in 0..top
    /\ version \in [0..top -> Version]

Init ==
    /\ top = 0
    /\ durable = 0
    /\ version = [i \in {0} |-> [op |-> "create", rows |-> {}]]

(***************************************************************************)
(* The version an operation may add on top of the current one.             *)
(***************************************************************************)
Derived(op, rows) ==
    LET latest == version[top].rows
    IN  \/ op = "write"   /\ \E p \in Payloads : rows = {p}
        \/ op = "append"  /\ \E p \in Payloads : rows = latest \cup {p}
        \/ op = "replace" /\ \E gone \in SUBSET latest :
                                \/ rows = latest \ gone
                                \/ \E p \in Payloads : rows = (latest \ gone) \cup {p}
        \/ op \in {"compact", "evolve"} /\ rows = latest
        \/ op = "restore" /\ \E v \in 0..top : rows = version[v].rows

(* What a commit adds is durable at once, or later. *)
Commit ==
    /\ top' = top + 1
    /\ durable' \in {durable, top + 1}
    /\ \E new \in Version :
          /\ Derived(new.op, new.rows)
          /\ version' = [i \in 0..top + 1 |-> IF i <= top THEN version[i] ELSE new]

(* A commit is acknowledged only after everything up to it is durable. *)
Harden ==
    /\ durable' \in durable..top
    /\ UNCHANGED <<version, top>>

PowerLoss ==
    \E k \in durable..top :
       /\ top' = k
       /\ durable' = k
       /\ version' = [i \in 0..k |-> version[i]]

Next == Commit \/ Harden \/ PowerLoss

Spec == Init /\ [][Next]_vars
=============================================================================
