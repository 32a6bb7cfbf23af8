---------------------------- MODULE AtomicTables ----------------------------
(***************************************************************************)
(* What multi-table transactions promise: a commit, of one table or of     *)
(* several, is one step for all its tables; a power loss may take back     *)
(* commits nobody was told about, but always from all of their tables.     *)
(* Transaction is shown to implement this specification.                   *)
(***************************************************************************)
EXTENDS Integers, Sequences

CONSTANTS Tables,
          Ids       \* commits

VARIABLES log,      \* [Tables -> Seq(commits)]: the committed versions above version 0
          acked     \* commits whose callers got Ok

vars == <<log, acked>>

In(x, l) == \E s \in DOMAIN l : l[s] = x

Init == log = [t \in Tables |-> <<>>] /\ acked = {}

Commit(x, ts) ==
    /\ \A t \in Tables : ~In(x, log[t])
    /\ log' = [t \in Tables |-> IF t \in ts THEN Append(log[t], x) ELSE log[t]]
    /\ UNCHANGED acked

Ack(x) ==
    /\ \E t \in Tables : In(x, log[t])
    /\ acked' = acked \cup {x}
    /\ UNCHANGED log

PowerLoss ==
    /\ \E kept \in [Tables -> UNION {0..Len(log[t]) : t \in Tables}] :
          /\ \A t \in Tables : kept[t] <= Len(log[t])
          /\ log' = [t \in Tables |-> SubSeq(log[t], 1, kept[t])]
    /\ \A t, u \in Tables : \A s \in DOMAIN log[t] :
          In(log[t][s], log'[u]) => In(log[t][s], log'[t])
    /\ \A t \in Tables : \A s \in DOMAIN log[t] :
          log[t][s] \in acked => In(log[t][s], log'[t])
    /\ UNCHANGED acked

Next ==
    \/ \E ts \in (SUBSET Tables) \ {{}}, x \in Ids : Commit(x, ts)
    \/ \E x \in Ids : Ack(x)
    \/ PowerLoss

Spec == Init /\ [][Next]_vars
=============================================================================
