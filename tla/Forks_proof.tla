----------------------------- MODULE Forks_proof -----------------------------
(***************************************************************************)
(* Proofs about Forks, for every set of names and forks and any number of  *)
(* tables, segments, versions, operations and crashes.                     *)
(***************************************************************************)
EXTENDS Forks, SequenceTheorems, WellFoundedInduction, TLAPS

-----------------------------------------------------------------------------
(***************************************************************************)
(* The index: IndexInv is inductive as long as nothing is made again at    *)
(* the size the stored index has for its name.                             *)
(***************************************************************************)

(* What a refresh reports about the pins. *)
LEMMA PinsReported ==
    ASSUME IndexInv, NEW f \in ForkNames, forks[f] # None
    PROVE  IndexedPins(f) = {<<p.table, p.seq>> : p \in forks[f].pins}
BY DEF IndexInv, SizesOK, IndexedPins

(* What a refresh reports about a table of a fork. *)
LEMMA EntryReported ==
    ASSUME IndexInv, NEW f \in ForkNames, NEW n \in Names
    PROVE  /\ IndexedOwned(f, n) = None <=> entries[f][n] = None
           /\ entries[f][n] # None =>
                 /\ IndexedOwned(f, n).table = entries[f][n].table
                 /\ IndexedOwned(f, n).size = entries[f][n].size
<1>1. CASE entries[f][n] = None
  BY <1>1 DEF IndexedOwned
<1>2. CASE entries[f][n] # None
  <2> DEFINE new == [table |-> entries[f][n].table, size |-> entries[f][n].size]
  <2>1. entries[f][n].table \in Tables /\ entries[f][n].size \in Nat
    BY <1>2 DEF IndexInv, IndexTypes
  <2>2. new \in IndexedEntries /\ new.table = entries[f][n].table /\ new.size = entries[f][n].size
    BY <2>1 DEF IndexedEntries
  <2>3. new # None
    BY <2>2, NoneAssumption
  <2>4. IndexedOwned(f, n) = IF index[f] # None /\ index[f].owned[n] # None
                                /\ index[f].owned[n].size = entries[f][n].size
                             THEN index[f].owned[n] ELSE new
    BY <1>2 DEF IndexedOwned
  <2> HIDE DEF new
  <2>5. QED
    BY <1>2, <2>2, <2>3, <2>4 DEF IndexInv, SizesOK
<1>3. QED
  BY <1>1, <1>2

(* The whole report. *)
LEMMA Reported ==
    ASSUME IndexInv, NEW f \in ForkNames
    PROVE  /\ DOMAIN Refreshed = ForkNames
           /\ forks[f] = None => Refreshed[f] = None
           /\ forks[f] # None =>
                 /\ Refreshed[f] = [size |-> forks[f].size, pins |-> IndexedPins(f),
                                    owned |-> [n \in Names |-> IndexedOwned(f, n)]]
                 /\ Refreshed[f].size = forks[f].size
                 /\ Refreshed[f].pins = {<<p.table, p.seq>> : p \in forks[f].pins}
                 /\ \A n \in Names : Refreshed[f].owned[n] = IndexedOwned(f, n)
BY PinsReported DEF Refreshed

(* IndexInv is all that IndexExact needs. *)
LEMMA ReportExact == ASSUME IndexInv PROVE IndexExact
<1> SUFFICES ASSUME NEW f \in ForkNames, forks[f] # None
             PROVE  /\ Refreshed[f].pins = {<<p.table, p.seq>> : p \in forks[f].pins}
                    /\ OwnedBy(f) = Owned(f)
  BY DEF IndexExact
<1>1. /\ Refreshed[f].pins = {<<p.table, p.seq>> : p \in forks[f].pins}
      /\ \A n \in Names : Refreshed[f].owned[n] = IndexedOwned(f, n)
  BY Reported
<1>2. \A n \in Names : /\ IndexedOwned(f, n) = None <=> entries[f][n] = None
                       /\ entries[f][n] # None => IndexedOwned(f, n).table = entries[f][n].table
  BY EntryReported
<1>3. OwnedBy(f) = Owned(f)
  BY <1>1, <1>2 DEF OwnedBy, Owned
<1>4. QED
  BY <1>1, <1>3

(* A fork object or an entry that is there after a step was there before, or
   the stored index tells it from the one it has a row of. *)
ForksFresh ==
    /\ DOMAIN forks' = ForkNames
    /\ \A f \in ForkNames : forks'[f] # None =>
          \/ forks'[f] = forks[f]
          \/ /\ index' = index
             /\ forks'[f].size \in Nat /\ ForkTold(f, forks'[f].size, forks'[f].pins)
FreshEntry(f, n, e) ==
    /\ index' = index
    /\ e.table \in Tables /\ e.size \in Nat /\ EntryTold(f, n, e)
EntriesFresh ==
    /\ DOMAIN entries' = ForkNames
    /\ \A f \in ForkNames : DOMAIN entries'[f] = Names
    /\ \A f \in ForkNames, n \in Names : entries'[f][n] # None =>
          entries'[f][n] = entries[f][n] \/ FreshEntry(f, n, entries'[f][n])

(* Such a step keeps the index true, whether it refreshes it or not. *)
LEMMA FreshKeepsIndex ==
    ASSUME IndexInv, "same_size" \notin Allowed, ForksFresh, EntriesFresh,
           ops' \in {ops, ops + 1}, lastTable' \in Nat, index' = index \/ index' = Refreshed
    PROVE  IndexInv'
<1>1. IndexTypes /\ SizesOK /\ ops' \in Nat
  BY DEF IndexInv, IndexTypes
<1>2. \A f \in ForkNames : forks'[f] # None => forks'[f].size \in Nat
  BY <1>1 DEF ForksFresh, IndexTypes
<1>3. \A f \in ForkNames, n \in Names : entries'[f][n] # None =>
         entries'[f][n].table \in Tables /\ entries'[f][n].size \in Nat
  BY <1>1 DEF EntriesFresh, FreshEntry, IndexTypes
<1>4. ASSUME NEW f \in ForkNames, index'[f] # None
      PROVE  /\ forks[f] # None /\ forks[f].size = index'[f].size =>
                   index'[f].pins = {<<p.table, p.seq>> : p \in forks[f].pins}
             /\ \A n \in Names :
                   index'[f].owned[n] # None /\ entries[f][n] # None
                      /\ entries[f][n].size = index'[f].owned[n].size =>
                   index'[f].owned[n].table = entries[f][n].table
  <2>1. CASE index' = index
    BY <1>1, <1>4, <2>1 DEF SizesOK
  <2>2. CASE index' = Refreshed
    <3>1. forks[f] # None
      BY <1>4, <2>2, Reported
    <3>2. /\ index'[f].size = forks[f].size
          /\ index'[f].pins = {<<p.table, p.seq>> : p \in forks[f].pins}
          /\ \A n \in Names : index'[f].owned[n] = IndexedOwned(f, n)
      BY <2>2, <3>1, Reported
    <3>3. \A n \in Names : index'[f].owned[n] # None =>
             /\ entries[f][n] # None /\ index'[f].owned[n].table = entries[f][n].table
             /\ index'[f].owned[n].size = entries[f][n].size
      BY <3>2, EntryReported
    <3>4. QED
      BY <3>1, <3>2, <3>3
  <2>3. QED
    BY <2>1, <2>2
<1>5. ASSUME NEW f \in ForkNames, index'[f] # None,
             forks'[f] # None, forks'[f].size = index'[f].size
      PROVE  index'[f].pins = {<<p.table, p.seq>> : p \in forks'[f].pins}
  <2>1. CASE forks'[f] = forks[f]
    BY <1>4, <1>5, <2>1
  <2>2. CASE index' = index /\ ForkTold(f, forks'[f].size, forks'[f].pins)
    BY <1>5, <2>2 DEF ForkTold
  <2>3. QED
    BY <1>5, <2>1, <2>2 DEF ForksFresh
<1>6. ASSUME NEW f \in ForkNames, index'[f] # None, NEW n \in Names, index'[f].owned[n] # None,
             entries'[f][n] # None, entries'[f][n].size = index'[f].owned[n].size
      PROVE  index'[f].owned[n].table = entries'[f][n].table
  <2>1. CASE entries'[f][n] = entries[f][n]
    BY <1>4, <1>6, <2>1
  <2>2. CASE FreshEntry(f, n, entries'[f][n])
    BY <1>6, <2>2 DEF FreshEntry, EntryTold
  <2>3. QED
    BY <1>6, <2>1, <2>2 DEF EntriesFresh
<1>7. DOMAIN index' = ForkNames
  BY <1>1 DEF IndexTypes, Refreshed
<1>8. IndexTypes'
  BY <1>1, <1>2, <1>3, <1>7 DEF IndexTypes, ForksFresh, EntriesFresh, Tables
<1>9. SizesOK'
  BY <1>5, <1>6 DEF SizesOK
<1>10. QED
  BY <1>8, <1>9 DEF IndexInv

(* Objects as they were. *)
LEMMA SameFresh ==
    ASSUME IndexInv
    PROVE  (forks' = forks => ForksFresh) /\ (entries' = entries => EntriesFresh)
BY DEF IndexInv, IndexTypes, ForksFresh, EntriesFresh

(* An entry is registered. *)
LEMMA RegisterFresh ==
    ASSUME IndexInv, NEW f \in ForkNames, NEW n \in Names, NEW origin,
           Register(f, n, origin), lastTable < MaxTable, index' = index
    PROVE  EntriesFresh
<1> DEFINE e == [table |-> lastTable + 1, origin |-> origin, size |-> EntrySize(origin)]
<1>1. entries' = [entries EXCEPT ![f][n] = e] /\ EntryTold(f, n, e)
  BY DEF Register
<1>2. lastTable + 1 \in Tables
  <2>1. lastTable \in Nat
    BY DEF IndexInv, IndexTypes
  <2>2. QED
    BY <2>1, BoundsAssumption DEF Tables
<1>3. FreshEntry(f, n, e)
  BY <1>1, <1>2 DEF FreshEntry, EntrySize
<1> HIDE DEF e
<1>4. /\ DOMAIN entries' = ForkNames /\ \A g \in ForkNames : DOMAIN entries'[g] = Names
      /\ \A g \in ForkNames, m \in Names : entries'[g][m] = IF g = f /\ m = n THEN e ELSE entries[g][m]
  BY <1>1 DEF IndexInv, IndexTypes
<1>5. QED
  BY <1>3, <1>4 DEF EntriesFresh

(* A fork is created. *)
LEMMA CreateForkFresh ==
    ASSUME IndexInv, NEW f \in ForkNames, NEW parent, CreateFork(f, parent)
    PROVE  ForksFresh
<1>1. PICK back \in {0, 1}, size \in ForkSizes :
         /\ ForkTold(f, size, PinSet(parent, back))
         /\ forks' = [forks EXCEPT ![f] = [parent |-> parent, pins |-> PinSet(parent, back),
                                           size |-> size]]
  BY DEF CreateFork
<1>2. size \in Nat /\ index' = index
  BY BoundsAssumption DEF CreateFork, ForkSizes
<1>3. QED
  BY <1>1, <1>2 DEF IndexInv, IndexTypes, ForksFresh

(* Entries go. *)
LEMMA FewerFresh ==
    ASSUME IndexInv, DOMAIN entries' = ForkNames,
           \A f \in ForkNames : DOMAIN entries'[f] = Names
              /\ \A n \in Names : entries'[f][n] \in {entries[f][n], None}
    PROVE  EntriesFresh
BY DEF EntriesFresh

(* A table created in a fork moves one level up. *)
LEMMA PromoteCreatedFresh ==
    ASSUME IndexInv, NEW f \in ForkNames, NEW n \in Names, PromoteCreated(f, n)
    PROVE  EntriesFresh
<1> DEFINE e == entries[f][n]
           parent == forks[f].parent
<1>1. e # None /\ index' = index
  BY DEF PromoteCreated
<1>2. IndexTypes /\ e.table \in Tables /\ e.size \in Nat
  BY <1>1 DEF IndexInv, IndexTypes
<1>4. CASE /\ entries' = [[entries EXCEPT ![parent][n] = e] EXCEPT ![f][n] = None]
           /\ EntryTold(parent, n, e)
  <2>1. FreshEntry(parent, n, e)
    BY <1>1, <1>2, <1>4 DEF FreshEntry
  <2> HIDE DEF e, parent
  <2>2. /\ DOMAIN entries' = ForkNames /\ \A g \in ForkNames : DOMAIN entries'[g] = Names
        /\ \A g \in ForkNames, m \in Names :
              entries'[g][m] \in {entries[g][m], None} \/ (g = parent /\ m = n /\ entries'[g][m] = e)
    BY <1>2, <1>4 DEF IndexTypes
  <2>3. QED
    BY <2>1, <2>2 DEF EntriesFresh
<1>5. CASE entries' = [entries EXCEPT ![f][n] = None] \/ entries' = entries
  <2>1. DOMAIN entries = ForkNames /\ \A g \in ForkNames : DOMAIN entries[g] = Names
    BY <1>2 DEF IndexTypes
  <2>2. /\ DOMAIN entries' = ForkNames /\ \A g \in ForkNames : DOMAIN entries'[g] = Names
        /\ \A g \in ForkNames, m \in Names : entries'[g][m] \in {entries[g][m], None}
    <3>1. CASE entries' = entries
      BY <2>1, <3>1
    <3>2. CASE entries' = [entries EXCEPT ![f][n] = None]
      BY <2>1, <3>2
    <3>3. QED
      BY <1>5, <3>1, <3>2
  <2>3. QED
    BY <2>2, FewerFresh
<1>6. QED
  BY <1>4, <1>5 DEF PromoteCreated

(* A drop of a fork, whole or cut off by a crash. *)
LEMMA DropForkFresh ==
    ASSUME IndexInv, NEW f \in ForkNames, DropFork(f)
    PROVE  ForksFresh /\ EntriesFresh
<1>1. /\ DOMAIN forks = ForkNames /\ DOMAIN entries = ForkNames
      /\ \A g \in ForkNames : DOMAIN entries[g] = Names
  BY DEF IndexInv, IndexTypes
<1>2. \/ entries' = [entries EXCEPT ![f] = NoEntries]
      \/ \E done : entries' = [entries EXCEPT ![f] = [n \in Names |->
                                  IF n \in done THEN None ELSE entries[f][n]]]
  BY DEF DropFork
<1>3. /\ DOMAIN entries' = ForkNames /\ \A g \in ForkNames : DOMAIN entries'[g] = Names
      /\ \A g \in ForkNames, n \in Names : entries'[g][n] \in {entries[g][n], None}
  BY <1>1, <1>2 DEF NoEntries
<1>4. forks' = forks \/ forks' = [forks EXCEPT ![f] = None]
  BY DEF DropFork
<1>5. ForksFresh
  BY <1>1, <1>4 DEF ForksFresh
<1>6. QED
  BY <1>3, <1>5, FewerFresh

(* Every step keeps the index true. *)
LEMMA NextKeepsIndex ==
    ASSUME IndexInv, "same_size" \notin Allowed, [Next]_vars PROVE IndexInv'
<1>0. lastTable \in Nat /\ ops \in Nat
  BY DEF IndexInv, IndexTypes
<1>1. lastTable \in Nat /\ ops \in Nat /\ lastTable + 1 \in Nat
  BY <1>0
<1>2. CASE UNCHANGED vars
  BY <1>1, <1>2, SameFresh, FreshKeepsIndex DEF vars, rootVars
<1>3. CASE Vacuum
  <2>1. UNCHANGED <<rootVars, lastTable, ops>> /\ (index' = index \/ index' = Refreshed)
    BY <1>3 DEF Vacuum, VacuumScan, VacuumDelete, VacuumIndex, VacuumSweep
  <2>2. QED
    BY <1>1, <2>1, SameFresh, FreshKeepsIndex DEF rootVars
<1>4. ASSUME NEW t, Commit(t) PROVE IndexInv'
  BY <1>1, <1>4, SameFresh, FreshKeepsIndex DEF Commit, Step, rootVars
<1>5. ASSUME NEW n \in Names, CreateTable(n) PROVE IndexInv'
  BY <1>1, <1>5, SameFresh, FreshKeepsIndex DEF CreateTable, Make, Step
<1>6. ASSUME NEW n \in Names, DropTable(n) PROVE IndexInv'
  BY <1>1, <1>6, SameFresh, FreshKeepsIndex DEF DropTable, Step
<1>7. ASSUME NEW n \in Names, NEW m \in Names, RenameTable(n, m) PROVE IndexInv'
  BY <1>1, <1>7, SameFresh, FreshKeepsIndex DEF RenameTable, Step
<1>8. ASSUME NEW n \in Names, NEW target, SetRetention(n, target) PROVE IndexInv'
  BY <1>1, <1>8, SameFresh, FreshKeepsIndex DEF SetRetention, Step, rootVars
<1>9. ASSUME NEW f \in ForkNames, DropFork(f) PROVE IndexInv'
  BY <1>1, <1>9, DropForkFresh, FreshKeepsIndex DEF DropFork, Step
<1>10. ASSUME NEW f \in ForkNames, NEW parent, CreateFork(f, parent) PROVE IndexInv'
  <2>1. ForksFresh
    BY <1>10, CreateForkFresh
  <2>2. QED
    BY <1>1, <1>10, <2>1, SameFresh, FreshKeepsIndex DEF CreateFork, Step
<1>11. ASSUME NEW f \in ForkNames, NEW n \in Names,
              CreateForkTable(f, n) \/ MaterializeShadow(f, n) \/ CreateCrash(f, n)
       PROVE  IndexInv'
  <2>1. lastTable < MaxTable /\ lastTable' = lastTable + 1
    BY <1>11 DEF CreateForkTable, MaterializeShadow, CreateCrash, Make
  <2>2. Step /\ forks' = forks /\ index' = index
    BY <1>11 DEF CreateForkTable, MaterializeShadow, CreateCrash, rootVars
  <2>3. entries' = entries \/ \E origin : Register(f, n, origin)
    BY <1>11 DEF CreateForkTable, MaterializeShadow, CreateCrash, rootVars
  <2>4. EntriesFresh
    BY <2>1, <2>2, <2>3, SameFresh, RegisterFresh
  <2>5. QED
    BY <1>1, <2>1, <2>2, <2>4, SameFresh, FreshKeepsIndex DEF Step
<1>12. ASSUME NEW f \in ForkNames, NEW n \in Names, DropForkTable(f, n) PROVE IndexInv'
  <2>1. DOMAIN entries = ForkNames /\ \A g \in ForkNames : DOMAIN entries[g] = Names
    BY DEF IndexInv, IndexTypes
  <2>2. /\ entries' = [entries EXCEPT ![f][n] = None] /\ Step /\ index' = Refreshed
        /\ forks' = forks /\ lastTable' = lastTable
    BY <1>12 DEF DropForkTable
  <2>3. /\ DOMAIN entries' = ForkNames /\ \A g \in ForkNames : DOMAIN entries'[g] = Names
        /\ \A g \in ForkNames, m \in Names : entries'[g][m] \in {entries[g][m], None}
    BY <2>1, <2>2
  <2>4. QED
    BY <1>1, <2>2, <2>3, SameFresh, FewerFresh, FreshKeepsIndex DEF Step
<1>13. ASSUME NEW f \in ForkNames, NEW n \in Names, Promote(f, n) PROVE IndexInv'
  BY <1>1, <1>13, SameFresh, FreshKeepsIndex DEF Promote, Step, rootVars
<1>14. ASSUME NEW f \in ForkNames, NEW n \in Names, PromoteCreated(f, n) PROVE IndexInv'
  <2>1. EntriesFresh
    BY <1>14, PromoteCreatedFresh
  <2>2. QED
    BY <1>1, <1>14, <2>1, SameFresh, FreshKeepsIndex DEF PromoteCreated, Step
<1>15. QED
  BY <1>2, <1>3, <1>4, <1>5, <1>6, <1>7, <1>8, <1>9, <1>10, <1>11, <1>12, <1>13, <1>14
     DEF Next, Operation, BaseCommit, ForkCommit

(* At first nothing is indexed. *)
LEMMA InitIndex == ASSUME Init PROVE IndexInv
<1>1. PICK first \in ForkNames, stage \in {"base", "fork", "shadow"} :
        /\ forks = [f \in ForkNames |-> IF f = first /\ stage # "base"
             THEN [parent |-> None, size |-> 1,
                   pins |-> {[table |-> 1, name |-> First, seq |-> Versions]}] ELSE None]
        /\ entries = [f \in ForkNames |-> [n \in Names |->
             IF f = first /\ stage = "shadow" /\ n = First
             THEN [table |-> 2, origin |-> [table |-> 1, seq |-> Versions], size |-> 2] ELSE None]]
        /\ index = [f \in ForkNames |-> None] /\ ops = 0 /\ lastTable \in {1, 2}
  BY DEF Init
<1>2. 2 \in Tables
  BY BoundsAssumption DEF Tables
<1>3. IndexTypes
  BY <1>1, <1>2 DEF IndexTypes
<1>4. SizesOK
  BY <1>1 DEF SizesOK
<1>5. QED
  BY <1>3, <1>4 DEF IndexInv

-----------------------------------------------------------------------------
(***************************************************************************)
(* The invariant as a predicate of values: T, O, R for the store, C, F, E  *)
(* for the roots, before a step or after it.                               *)
(***************************************************************************)
HeadOf(T, t) == Len(T[t].vers) - 1
At(T, t, s) == T[t].vers[s + 1].segs
OpAt(T, t, s) == T[t].vers[s + 1].op
RowsIn(R, segs) == UNION {R[o[2]] : o \in segs}

TablesIn(T) ==
    /\ T \in [Tables -> TableRecs \cup {None}]
    /\ \A t \in Tables : T[t] # None =>
          /\ Len(T[t].vers) \in 1..MaxSeq + 1
          /\ T[t].floor < Len(T[t].vers) /\ T[t].kept <= T[t].floor
HomedIn(C, E, t) == (\E n \in Names : C[n] = t) \/
                    \E f \in ForkNames, n \in Names : E[f][n] # None /\ E[f][n].table = t
OneHomeIn(C, E) ==
    /\ \A n, m \in Names : C[n] # None /\ C[n] = C[m] => n = m
    /\ \A f, g \in ForkNames, n, m \in Names :
          E[f][n] # None /\ E[g][m] # None /\ E[f][n].table = E[g][m].table => f = g /\ n = m
    /\ \A f \in ForkNames, n, m \in Names : E[f][n] # None => C[m] # E[f][n].table
HomesIn(T, C, F, E, last) ==
    /\ \A n \in Names : C[n] # None => C[n] <= last /\ T[C[n]] # None
    /\ \A f \in ForkNames, n \in Names : E[f][n] # None =>
          /\ F[f] # None /\ E[f][n].table <= last
          /\ T[E[f][n].table] # None /\ T[E[f][n].table].floor = 0
PinIn(T, C, E, f, p) ==
    /\ HomedIn(C, E, p.table) /\ p.seq >= T[p.table].floor /\ p.seq <= HeadOf(T, p.table)
    /\ \A n \in Names : E[f][n] # None => E[f][n].table # p.table
PinsIn(T, C, F, E) ==
    \A f \in ForkNames : F[f] # None => \A p \in F[f].pins : PinIn(T, C, E, f, p)
InsideIn(T, t, segs) == \A s \in 0..HeadOf(T, t) : At(T, t, s) \subseteq Own(t) \cup segs
EntryIn(T, fork, e) ==
    IF e.origin = None THEN InsideIn(T, e.table, {})
    ELSE /\ InsideIn(T, e.table, At(T, e.origin.table, e.origin.seq))
         /\ e.origin.table < e.table
         /\ \E p \in fork.pins : p.table = e.origin.table /\ p.seq = e.origin.seq
SegmentsIn(T, C, F, E) ==
    /\ \A n \in Names : C[n] # None => InsideIn(T, C[n], {})
    /\ \A f \in ForkNames, n \in Names : E[f][n] # None => EntryIn(T, F[f], E[f][n])
PresentIn(T, O, t) == \A s \in T[t].floor..HeadOf(T, t) : At(T, t, s) \subseteq O
AllPresentIn(T, C, E, O) == \A t \in Tables : HomedIn(C, E, t) => PresentIn(T, O, t)
RowsKeptIn(T, R, last, t) ==
    /\ \A s \in 0..HeadOf(T, t) : \A o \in At(T, t, s) : o[2] <= last
    /\ \A s, u \in 0..HeadOf(T, t) :
          s <= u /\ (\A k \in s + 1..u : OpAt(T, t, k) = "compact") =>
             RowsIn(R, At(T, t, u)) = RowsIn(R, At(T, t, s))
AllRowsKeptIn(T, R, last) == \A t \in Tables : T[t] # None => RowsKeptIn(T, R, last, t)
ScannedIn(T, v, t) ==
    /\ v.floors[t] <= T[t].floor
    /\ t \in v.roots => \A s \in v.floors[t]..HeadOf(T, t) :
          \A o \in At(T, t, s) : o \in v.ref \/ o[2] > v.seg
ScanIn(T, C, E, pc, v, lastT, lastS) ==
    /\ v.seg <= lastS /\ v.table <= lastT
    /\ pc # "idle" => \A n \in Names : C[n] # None => C[n] > v.table \/ C[n] \in v.roots
    /\ pc = "sweep" => \A f \in ForkNames, n \in Names : E[f][n] # None =>
          E[f][n].table > v.table \/ E[f][n].table \in v.roots
    /\ pc = "delete" =>
          /\ \A t \in v.roots : t <= v.table
          /\ \A f \in ForkNames, n \in Names : E[f][n] # None => E[f][n].table \notin v.roots
          /\ \A t \in Tables : T[t] # None => ScannedIn(T, v, t)
          /\ \A t \in Tables : t > v.table => v.floors[t] = 0

(* What the store and the roots satisfy, and with it vacuum. *)
WorldIn(T, C, F, E, O, R, lastT, lastS) ==
    /\ OneHomeIn(C, E) /\ HomesIn(T, C, F, E, lastT) /\ PinsIn(T, C, F, E) /\ SegmentsIn(T, C, F, E)
    /\ AllPresentIn(T, C, E, O) /\ AllRowsKeptIn(T, R, lastS)

(* The invariant before a step. *)
LEMMA Before ==
    IInv <=> /\ TypeOK /\ IndexInv
             /\ WorldIn(tables, catalog, forks, entries, objects, rows, lastTable, lastSeg)
             /\ ScanIn(tables, catalog, entries, vpc, vscan, lastTable, lastSeg)
<1>1. OneHome <=> OneHomeIn(catalog, entries)
  BY DEF OneHome, OneHomeIn
<1>2. HomesExist <=> HomesIn(tables, catalog, forks, entries, lastTable)
  BY DEF HomesExist, HomesIn
<1>3. PinsOK <=> PinsIn(tables, catalog, forks, entries)
  BY DEF PinsOK, PinsIn, PinIn, Homed, HomedIn, HeadSeq, HeadOf
<1>4. SegmentsOK <=> SegmentsIn(tables, catalog, forks, entries)
  BY DEF SegmentsOK, SegmentsIn, Inside, InsideIn, EntryIn, HeadSeq, HeadOf, Version, At
<1>5. AllPresent <=> AllPresentIn(tables, catalog, entries, objects)
  BY DEF AllPresent, AllPresentIn, Present, PresentIn, Homed, HomedIn, HeadSeq, HeadOf, Version, At
<1>6. AllRowsKept <=> AllRowsKeptIn(tables, rows, lastSeg)
  BY DEF AllRowsKept, AllRowsKeptIn, RowsKept, RowsKeptIn, RowsOf, RowsIn, HeadSeq, HeadOf, Version,
         At, OpAt
<1>7. ScanOK <=> ScanIn(tables, catalog, entries, vpc, vscan, lastTable, lastSeg)
  BY DEF ScanOK, ScanIn, ScannedIn, Young, HeadSeq, HeadOf, Version, At
<1>8. QED
  BY <1>1, <1>2, <1>3, <1>4, <1>5, <1>6, <1>7 DEF IInv, WorldIn

(* And after it. *)
LEMMA After ==
    IInv' <=> /\ TypeOK' /\ IndexInv'
              /\ WorldIn(tables', catalog', forks', entries', objects', rows', lastTable', lastSeg')
              /\ ScanIn(tables', catalog', entries', vpc', vscan', lastTable', lastSeg')
<1>1. OneHome' <=> OneHomeIn(catalog', entries')
  BY DEF OneHome, OneHomeIn
<1>2. HomesExist' <=> HomesIn(tables', catalog', forks', entries', lastTable')
  BY DEF HomesExist, HomesIn
<1>3. PinsOK' <=> PinsIn(tables', catalog', forks', entries')
  BY DEF PinsOK, PinsIn, PinIn, Homed, HomedIn, HeadSeq, HeadOf
<1>4. SegmentsOK' <=> SegmentsIn(tables', catalog', forks', entries')
  BY DEF SegmentsOK, SegmentsIn, Inside, InsideIn, EntryIn, HeadSeq, HeadOf, Version, At
<1>5. AllPresent' <=> AllPresentIn(tables', catalog', entries', objects')
  BY DEF AllPresent, AllPresentIn, Present, PresentIn, Homed, HomedIn, HeadSeq, HeadOf, Version, At
<1>6. AllRowsKept' <=> AllRowsKeptIn(tables', rows', lastSeg')
  BY DEF AllRowsKept, AllRowsKeptIn, RowsKept, RowsKeptIn, RowsOf, RowsIn, HeadSeq, HeadOf, Version,
         At, OpAt
<1>7. ScanOK' <=> ScanIn(tables', catalog', entries', vpc', vscan', lastTable', lastSeg')
  BY DEF ScanOK, ScanIn, ScannedIn, Young, HeadSeq, HeadOf, Version, At
<1>8. QED
  BY <1>1, <1>2, <1>3, <1>4, <1>5, <1>6, <1>7 DEF IInv, WorldIn

-----------------------------------------------------------------------------
(***************************************************************************)
(* Tables and their versions.                                              *)
(***************************************************************************)

(* What is known of a table that exists. *)
LEMMA TableFacts ==
    ASSUME NEW T, TablesIn(T), NEW t \in Tables, T[t] # None
    PROVE  /\ T[t] \in TableRecs /\ T[t].vers \in Seq(VersionRec)
           /\ T[t].floor \in Nat /\ T[t].kept \in Nat /\ T[t].kept <= T[t].floor
           /\ HeadOf(T, t) \in 0..MaxSeq /\ T[t].floor <= HeadOf(T, t)
           /\ HeadOf(T, t) \in Nat /\ Len(T[t].vers) = HeadOf(T, t) + 1
           /\ \A s \in 0..HeadOf(T, t) : At(T, t, s) \subseteq Objects
<1>1. T[t] \in TableRecs /\ Len(T[t].vers) \in 1..MaxSeq + 1
      /\ T[t].floor < Len(T[t].vers) /\ T[t].kept <= T[t].floor
  BY DEF TablesIn
<1>2. T[t].vers \in Seq(VersionRec) /\ T[t].floor \in Nat /\ T[t].kept \in Nat
  BY <1>1 DEF TableRecs
<1>3. MaxSeq \in Nat
  BY BoundsAssumption
<1>4. /\ HeadOf(T, t) \in 0..MaxSeq /\ T[t].floor <= HeadOf(T, t)
      /\ HeadOf(T, t) \in Nat /\ Len(T[t].vers) = HeadOf(T, t) + 1
  BY <1>1, <1>2, <1>3 DEF HeadOf
<1>5. ASSUME NEW s \in 0..HeadOf(T, t) PROVE At(T, t, s) \subseteq Objects
  <2>1. s + 1 \in 1..Len(T[t].vers)
    BY <1>4
  <2>2. T[t].vers[s + 1] \in VersionRec
    BY <1>2, <2>1
  <2>3. QED
    BY <2>2 DEF At, VersionRec
<1>6. QED
  BY <1>1, <1>2, <1>4, <1>5

(* Nothing that was recorded in a table changes. *)
Stays(T, U, t) ==
    /\ U[t] # None /\ HeadOf(T, t) <= HeadOf(U, t)
    /\ \A s \in 0..HeadOf(T, t) : At(U, t, s) = At(T, t, s) /\ OpAt(U, t, s) = OpAt(T, t, s)

(* Nothing at all. *)
LEMMA SameStays ==
    ASSUME NEW T, NEW U, NEW t, T[t] # None, U[t] = T[t], HeadOf(T, t) \in Nat
    PROVE  Stays(T, U, t) /\ HeadOf(U, t) = HeadOf(T, t) /\ \A s : At(U, t, s) = At(T, t, s)
BY DEF Stays, HeadOf, At, OpAt

(* A version is committed to a table. *)
With(T, t, v) == [T EXCEPT ![t].vers = Append(@, v)]

(* What that leaves as it was. *)
LEMMA Grown ==
    ASSUME NEW T, TablesIn(T), NEW t \in Tables, T[t] # None, NEW v \in VersionRec,
           HeadOf(T, t) < MaxSeq, NEW U, U = With(T, t, v)
    PROVE  /\ TablesIn(U)
           /\ \A u \in Tables : /\ u # t => U[u] = T[u]
                                /\ T[u] # None => Stays(T, U, u) /\ U[u].floor = T[u].floor
           /\ HeadOf(U, t) = HeadOf(T, t) + 1
           /\ At(U, t, HeadOf(T, t) + 1) = v.segs /\ OpAt(U, t, HeadOf(T, t) + 1) = v.op
<1> DEFINE r == [T[t] EXCEPT !.vers = Append(@, v)]
           w == Append(T[t].vers, v)
           h == HeadOf(T, t)
<1>1. /\ T[t] \in TableRecs /\ T[t].vers \in Seq(VersionRec)
      /\ T[t].floor \in Nat /\ T[t].kept \in Nat /\ T[t].kept <= T[t].floor
      /\ h \in 0..MaxSeq /\ T[t].floor <= h /\ h \in Nat /\ Len(T[t].vers) = h + 1
  BY TableFacts
<1>2. /\ w \in Seq(VersionRec) /\ Len(w) = Len(T[t].vers) + 1
      /\ \A i \in 1..Len(T[t].vers) : w[i] = T[t].vers[i]
      /\ w[Len(T[t].vers) + 1] = v
  BY <1>1
<1>3. r \in TableRecs /\ r.vers = w /\ r.floor = T[t].floor /\ r.kept = T[t].kept
  BY <1>1, <1>2 DEF TableRecs
<1>4. U = [T EXCEPT ![t] = r] /\ T \in [Tables -> TableRecs \cup {None}]
  BY DEF TablesIn, With
<1> HIDE DEF r, w
<1>5. /\ U \in [Tables -> TableRecs \cup {None}] /\ U[t] = r
      /\ \A u \in Tables : u # t => U[u] = T[u]
  BY <1>3, <1>4
<1>6. r # None
  BY <1>3, NoneAssumption
<1>7. Len(U[t].vers) = h + 2
  BY <1>1, <1>2, <1>3, <1>5
<1>8. HeadOf(U, t) = h + 1
  BY <1>1, <1>7 DEF HeadOf
<1>9. At(U, t, h + 1) = v.segs /\ OpAt(U, t, h + 1) = v.op
  <2>1. U[t].vers[h + 1 + 1] = v
    BY <1>1, <1>2, <1>3, <1>5
  <2> HIDE DEF h
  <2>2. QED
    BY <2>1 DEF At, OpAt
<1>10. ASSUME NEW s \in 0..h PROVE At(U, t, s) = At(T, t, s) /\ OpAt(U, t, s) = OpAt(T, t, s)
  <2>1. s + 1 \in 1..Len(T[t].vers)
    BY <1>1
  <2>2. U[t].vers[s + 1] = T[t].vers[s + 1]
    BY <1>2, <1>3, <1>5, <2>1
  <2>3. QED
    BY <2>2 DEF At, OpAt
<1> HIDE DEF h
<1>11. h <= HeadOf(U, t)
  BY <1>1, <1>8
<1>12. Stays(T, U, t)
  BY <1>5, <1>6, <1>10, <1>11 DEF Stays, h
<1>13. ASSUME NEW u \in Tables, u # t, T[u] # None PROVE Stays(T, U, u) /\ U[u].floor = T[u].floor
  <2>1. U[u] = T[u] /\ HeadOf(T, u) \in Nat
    BY <1>5, <1>13, TableFacts
  <2>2. QED
    BY <1>13, <2>1, SameStays
<1>14. Len(r.vers) \in 1..MaxSeq + 1 /\ r.floor < Len(r.vers) /\ r.kept <= r.floor
  <2>1. h < MaxSeq /\ Len(r.vers) = h + 2
    BY <1>5, <1>7 DEF h
  <2>2. QED
    BY <1>1, <1>3, <2>1, BoundsAssumption
<1>15. TablesIn(U)
  BY <1>5, <1>14 DEF TablesIn
<1>16. QED
  BY <1>3, <1>5, <1>8, <1>9, <1>12, <1>13, <1>15 DEF h

-----------------------------------------------------------------------------
(***************************************************************************)
(* Roots: where tables are registered, what pins and origins refer to.     *)
(***************************************************************************)
RootsIn(C, F, E) ==
    /\ C \in [Names -> Tables \cup {None}]
    /\ F \in [ForkNames -> Forks \cup {None}]
    /\ E \in [ForkNames -> [Names -> Entries \cup {None}]]

(* Table numbers. *)
LEMMA TablesNat == Tables \subseteq Nat /\ None \notin Tables /\ \A t \in Tables : t > 0
<1>1. Tables \subseteq Nat /\ \A t \in Tables : t > 0
  BY BoundsAssumption DEF Tables
<1>2. QED
  BY <1>1, NoneAssumption

(* An entry of a fork. *)
LEMMA EntryFacts ==
    ASSUME NEW C, NEW F, NEW E, RootsIn(C, F, E), NEW f \in ForkNames, NEW n \in Names, E[f][n] # None
    PROVE  /\ E[f][n] \in Entries /\ E[f][n].table \in Tables /\ E[f][n].origin \in Origins \cup {None}
           /\ E[f][n].origin # None => E[f][n].origin.table \in Tables /\ E[f][n].origin.seq \in Nat
           /\ E[f][n].origin # None => E[f][n].origin.seq \in 0..MaxSeq
<1>1. E[f][n] \in Entries
  BY DEF RootsIn
<1>2. E[f][n].table \in Tables /\ E[f][n].origin \in Origins \cup {None}
  BY <1>1 DEF Entries
<1>3. ASSUME E[f][n].origin # None
      PROVE  E[f][n].origin.table \in Tables /\ E[f][n].origin.seq \in 0..MaxSeq
  BY <1>2, <1>3 DEF Origins
<1>4. \A s \in 0..MaxSeq : s \in Nat
  BY BoundsAssumption
<1>5. QED
  BY <1>1, <1>2, <1>3, <1>4

(* A registered table exists. *)
LEMMA HomedExists ==
    ASSUME NEW T, NEW C, NEW F, NEW E, NEW last, RootsIn(C, F, E), HomesIn(T, C, F, E, last),
           NEW t \in Tables, HomedIn(C, E, t)
    PROVE  T[t] # None /\ t <= last
BY TablesNat DEF HomedIn, HomesIn

(* A pin. *)
LEMMA PinFacts ==
    ASSUME NEW T, NEW C, NEW F, NEW E, NEW last, RootsIn(C, F, E), TablesIn(T),
           HomesIn(T, C, F, E, last), PinsIn(T, C, F, E),
           NEW f \in ForkNames, F[f] # None, NEW p \in F[f].pins
    PROVE  /\ p.table \in Tables /\ p.seq \in Nat /\ p.seq \in 0..MaxSeq /\ p.name \in Names
           /\ T[p.table] # None /\ p.table <= last
           /\ HomedIn(C, E, p.table)
           /\ p.seq \in 0..HeadOf(T, p.table) /\ p.seq \in T[p.table].floor..HeadOf(T, p.table)
           /\ PinIn(T, C, E, f, p)
<1>1. F[f] \in Forks
  BY DEF RootsIn
<1>2. p \in Pins
  BY <1>1 DEF Forks
<1>3. p.table \in Tables /\ p.seq \in 0..MaxSeq /\ p.name \in Names
  BY <1>2 DEF Pins
<1>4. p.seq \in Nat
  BY <1>3, BoundsAssumption
<1>5. PinIn(T, C, E, f, p)
  BY DEF PinsIn
<1>6. HomedIn(C, E, p.table) /\ p.seq >= T[p.table].floor /\ p.seq <= HeadOf(T, p.table)
  BY <1>5 DEF PinIn
<1>7. T[p.table] # None /\ p.table <= last
  BY <1>3, <1>6, HomedExists
<1>8. HeadOf(T, p.table) \in Nat /\ T[p.table].floor \in Nat
  BY <1>3, <1>7, TableFacts
<1>9. QED
  BY <1>3, <1>4, <1>5, <1>6, <1>7, <1>8

(* The version a shadow was cut from. *)
LEMMA OriginFacts ==
    ASSUME NEW T, NEW C, NEW F, NEW E, NEW last, RootsIn(C, F, E), TablesIn(T),
           HomesIn(T, C, F, E, last), PinsIn(T, C, F, E), SegmentsIn(T, C, F, E),
           NEW f \in ForkNames, NEW n \in Names, E[f][n] # None, E[f][n].origin # None
    PROVE  LET o == E[f][n].origin
           IN  /\ o.table \in Tables /\ o.seq \in Nat
               /\ T[o.table] # None /\ HomedIn(C, E, o.table)
               /\ o.seq \in 0..HeadOf(T, o.table) /\ o.seq \in T[o.table].floor..HeadOf(T, o.table)
               /\ InsideIn(T, E[f][n].table, At(T, o.table, o.seq))
               /\ o.table < E[f][n].table
               /\ \E p \in F[f].pins : p.table = o.table /\ p.seq = o.seq
<1>1. EntryIn(T, F[f], E[f][n]) /\ F[f] # None
  BY DEF SegmentsIn, HomesIn
<1>2. PICK p \in F[f].pins : p.table = E[f][n].origin.table /\ p.seq = E[f][n].origin.seq
  BY <1>1 DEF EntryIn
<1>3. /\ p.table \in Tables /\ p.seq \in Nat /\ T[p.table] # None /\ HomedIn(C, E, p.table)
      /\ p.seq \in 0..HeadOf(T, p.table) /\ p.seq \in T[p.table].floor..HeadOf(T, p.table)
  BY <1>1, PinFacts
<1>4. InsideIn(T, E[f][n].table, At(T, E[f][n].origin.table, E[f][n].origin.seq))
      /\ E[f][n].origin.table < E[f][n].table
  BY <1>1 DEF EntryIn
<1>5. QED
  BY <1>2, <1>3, <1>4

(* An entry whose own table and whose origin stay. *)
LEMMA EntryStays ==
    ASSUME NEW T, NEW U, NEW fork, NEW e, EntryIn(T, fork, e),
           \A segs : InsideIn(T, e.table, segs) => InsideIn(U, e.table, segs),
           e.origin # None => At(U, e.origin.table, e.origin.seq) = At(T, e.origin.table, e.origin.seq)
    PROVE  EntryIn(U, fork, e)
BY DEF EntryIn

(* The segments a table lists stay inside what they were inside of. *)
LEMMA InsideStays ==
    ASSUME NEW T, NEW U, NEW t, Stays(T, U, t), HeadOf(U, t) = HeadOf(T, t)
    PROVE  \A segs : InsideIn(T, t, segs) => InsideIn(U, t, segs)
BY DEF InsideIn, Stays

-----------------------------------------------------------------------------
(***************************************************************************)
(* A commit or a promote: one registered table has one version more, whose *)
(* segments are its own or were in one of its versions.                    *)
(***************************************************************************)

(* The rows of segments that were there. *)
LEMMA RowsSame ==
    ASSUME NEW R, NEW Q, NEW last, NEW segs \in SUBSET Objects, \A o \in segs : o[2] <= last,
           \A i \in Segs : i <= last => Q[i] = R[i]
    PROVE  RowsIn(Q, segs) = RowsIn(R, segs)
<1>1. \A o \in segs : Q[o[2]] = R[o[2]]
  BY DEF Objects
<1>2. QED
  BY <1>1 DEF RowsIn

(* The rows along the versions of a table. *)
LEMMA RowsStay ==
    ASSUME NEW T, TablesIn(T), NEW t \in Tables, T[t] # None, NEW R, NEW Q, NEW last \in Nat,
           NEW next \in Nat, last <= next, RowsKeptIn(T, R, last, t),
           \A i \in Segs : i <= last => Q[i] = R[i]
    PROVE  RowsKeptIn(T, Q, next, t)
<1>1. \A s \in 0..HeadOf(T, t) : At(T, t, s) \subseteq Objects /\ \A o \in At(T, t, s) : o[2] <= last
  BY TableFacts DEF RowsKeptIn
<1>2. \A s \in 0..HeadOf(T, t) : RowsIn(Q, At(T, t, s)) = RowsIn(R, At(T, t, s))
  <2> SUFFICES ASSUME NEW s \in 0..HeadOf(T, t)
               PROVE  RowsIn(Q, At(T, t, s)) = RowsIn(R, At(T, t, s))
    OBVIOUS
  <2>1. At(T, t, s) \in SUBSET Objects /\ \A o \in At(T, t, s) : o[2] <= last
    BY <1>1
  <2>2. QED
    BY <2>1, RowsSame
<1>3. \A s \in 0..HeadOf(T, t) : \A o \in At(T, t, s) : o[2] <= next
  <2> SUFFICES ASSUME NEW s \in 0..HeadOf(T, t), NEW o \in At(T, t, s) PROVE o[2] <= next
    OBVIOUS
  <2>1. o \in Objects /\ o[2] <= last
    BY <1>1
  <2>2. o[2] \in Nat
    BY <2>1, BoundsAssumption DEF Objects, Segs
  <2>3. QED
    BY <2>1, <2>2
<1>4. QED
  BY <1>2, <1>3 DEF RowsKeptIn

(* The same for a table that stays as it was. *)
LEMMA RowsKeptSame ==
    ASSUME NEW T, NEW U, NEW t, U[t] = T[t], NEW R, NEW last, RowsKeptIn(T, R, last, t)
    PROVE  RowsKeptIn(U, R, last, t)
<1>1. HeadOf(U, t) = HeadOf(T, t) /\ \A s : At(U, t, s) = At(T, t, s) /\ OpAt(U, t, s) = OpAt(T, t, s)
  BY DEF HeadOf, At, OpAt
<1>2. QED
  BY <1>1 DEF RowsKeptIn

(* One version more. *)
LEMMA RowsGrow ==
    ASSUME NEW T, NEW U, NEW t, NEW Q, NEW last, HeadOf(T, t) \in Nat, Stays(T, U, t),
           HeadOf(U, t) = HeadOf(T, t) + 1, RowsKeptIn(T, Q, last, t),
           \A o \in At(U, t, HeadOf(T, t) + 1) : o[2] <= last,
           OpAt(U, t, HeadOf(T, t) + 1) = "compact" =>
              RowsIn(Q, At(U, t, HeadOf(T, t) + 1)) = RowsIn(Q, At(T, t, HeadOf(T, t)))
    PROVE  RowsKeptIn(U, Q, last, t)
<1> DEFINE h == HeadOf(T, t)
<1>1. h \in Nat /\ \A s \in 0..h + 1 : s \in 0..h \/ s = h + 1
  OBVIOUS
<1>2. \A s \in 0..h : At(U, t, s) = At(T, t, s) /\ OpAt(U, t, s) = OpAt(T, t, s)
  BY DEF Stays
<1> HIDE DEF h
<1>3. \A s \in 0..h + 1 : \A o \in At(U, t, s) : o[2] <= last
  BY <1>1, <1>2 DEF RowsKeptIn, h
<1>4. ASSUME NEW s \in 0..h + 1, NEW u \in 0..h + 1, s <= u,
             \A k \in s + 1..u : OpAt(U, t, k) = "compact"
      PROVE  RowsIn(Q, At(U, t, u)) = RowsIn(Q, At(U, t, s))
  <2>1. CASE u \in 0..h
    <3>1. s \in 0..h
      BY <1>1, <1>4, <2>1
    <3>2. \A k \in s + 1..u : k \in 0..h
      BY <1>1, <2>1, <3>1
    <3>3. \A k \in s + 1..u : OpAt(T, t, k) = "compact"
      BY <1>2, <1>4, <3>2
    <3>4. RowsIn(Q, At(T, t, u)) = RowsIn(Q, At(T, t, s))
      BY <1>4, <2>1, <3>1, <3>3 DEF RowsKeptIn, h
    <3>5. QED
      BY <1>2, <2>1, <3>1, <3>4
  <2>2. CASE u = h + 1 /\ s = h + 1
    BY <2>2
  <2>3. CASE u = h + 1 /\ s \in 0..h
    <3>1. h + 1 \in s + 1..u /\ h \in 0..h /\ s <= h
      BY <1>1, <2>3
    <3>2. RowsIn(Q, At(U, t, h + 1)) = RowsIn(Q, At(T, t, h))
      BY <1>4, <3>1 DEF h
    <3>3. \A k \in s + 1..h : k \in s + 1..u /\ k \in 0..h
      BY <1>1, <2>3
    <3>4. \A k \in s + 1..h : OpAt(T, t, k) = "compact"
      BY <1>2, <1>4, <3>3
    <3>5. RowsIn(Q, At(T, t, h)) = RowsIn(Q, At(T, t, s))
      BY <2>3, <3>1, <3>4 DEF RowsKeptIn, h
    <3>6. QED
      BY <1>2, <2>3, <3>2, <3>5
  <2>4. QED
    BY <1>1, <2>1, <2>2, <2>3
<1>5. QED
  BY <1>3, <1>4 DEF RowsKeptIn, h

(* The world after it. *)
LEMMA GrownWorld ==
    ASSUME NEW T, NEW C, NEW F, NEW E, NEW O, NEW R, NEW lastT, NEW last \in Nat,
           TablesIn(T), RootsIn(C, F, E), WorldIn(T, C, F, E, O, R, lastT, last),
           NEW t \in Tables, HomedIn(C, E, t), NEW v \in VersionRec, HeadOf(T, t) < MaxSeq,
           NEW U, U = With(T, t, v),
           NEW P, O \subseteq P, v.segs \subseteq P,
           NEW k \in 0..HeadOf(T, t), v.segs \subseteq Own(t) \cup At(T, t, k),
           NEW Q, NEW next \in Nat, last <= next, \A i \in Segs : i <= last => Q[i] = R[i],
           \A o \in v.segs : o[2] <= next,
           v.op = "compact" => RowsIn(Q, v.segs) = RowsIn(R, At(T, t, HeadOf(T, t)))
    PROVE  TablesIn(U) /\ WorldIn(U, C, F, E, P, Q, lastT, next)
<1>1. /\ OneHomeIn(C, E) /\ HomesIn(T, C, F, E, lastT) /\ PinsIn(T, C, F, E)
      /\ SegmentsIn(T, C, F, E) /\ AllPresentIn(T, C, E, O) /\ AllRowsKeptIn(T, R, last)
  BY DEF WorldIn
<1>2. T[t] # None
  BY <1>1, HomedExists
<1>3. /\ TablesIn(U)
      /\ \A u \in Tables : /\ u # t => U[u] = T[u]
                           /\ T[u] # None => Stays(T, U, u) /\ U[u].floor = T[u].floor
      /\ HeadOf(U, t) = HeadOf(T, t) + 1
      /\ At(U, t, HeadOf(T, t) + 1) = v.segs /\ OpAt(U, t, HeadOf(T, t) + 1) = v.op
  BY <1>2, Grown
<1>4. \A u \in Tables : T[u] # None => /\ U[u] # None /\ HeadOf(T, u) <= HeadOf(U, u)
                                       /\ HeadOf(T, u) \in Nat /\ HeadOf(U, u) \in Nat
                                       /\ u # t => HeadOf(U, u) = HeadOf(T, u)
  <2> SUFFICES ASSUME NEW u \in Tables, T[u] # None
               PROVE  /\ U[u] # None /\ HeadOf(T, u) <= HeadOf(U, u)
                      /\ HeadOf(T, u) \in Nat /\ HeadOf(U, u) \in Nat
                      /\ u # t => HeadOf(U, u) = HeadOf(T, u)
    OBVIOUS
  <2>1. U[u] # None /\ HeadOf(T, u) <= HeadOf(U, u)
    BY <1>3 DEF Stays
  <2>2. HeadOf(T, u) \in Nat /\ HeadOf(U, u) \in Nat
    BY <1>3, <2>1, TableFacts
  <2>3. u # t => HeadOf(U, u) = HeadOf(T, u)
    BY <1>3 DEF HeadOf
  <2>4. QED
    BY <2>1, <2>2, <2>3
<1>5. HomesIn(U, C, F, E, lastT)
  <2>1. \A n \in Names : C[n] # None => U[C[n]] # None
    BY <1>1, <1>4 DEF HomesIn, RootsIn
  <2>2. \A f \in ForkNames, n \in Names : E[f][n] # None =>
           U[E[f][n].table] # None /\ U[E[f][n].table].floor = 0
    BY <1>1, <1>3, <1>4, EntryFacts DEF HomesIn
  <2>3. QED
    BY <1>1, <2>1, <2>2 DEF HomesIn
<1>6. PinsIn(U, C, F, E)
  <2> SUFFICES ASSUME NEW f \in ForkNames, F[f] # None, NEW p \in F[f].pins
               PROVE  PinIn(U, C, E, f, p)
    BY DEF PinsIn
  <2>1. /\ p.table \in Tables /\ T[p.table] # None /\ PinIn(T, C, E, f, p) /\ p.seq \in Nat
    BY <1>1, PinFacts
  <2>2. /\ U[p.table].floor = T[p.table].floor /\ HeadOf(T, p.table) <= HeadOf(U, p.table)
        /\ HeadOf(T, p.table) \in Nat /\ HeadOf(U, p.table) \in Nat
    BY <1>3, <1>4, <2>1
  <2>3. p.seq <= HeadOf(T, p.table)
    BY <2>1 DEF PinIn
  <2>4. p.seq <= HeadOf(U, p.table)
    BY <2>1, <2>2, <2>3
  <2>5. QED
    BY <2>1, <2>2, <2>4 DEF PinIn
<1>7. ASSUME NEW u \in Tables, T[u] # None, NEW segs, InsideIn(T, u, segs) PROVE InsideIn(U, u, segs)
  <2>1. \A s \in 0..HeadOf(T, u) : At(U, u, s) \subseteq Own(u) \cup segs
    BY <1>3, <1>7 DEF InsideIn, Stays
  <2>2. CASE u # t
    BY <1>4, <1>7, <2>1, <2>2 DEF InsideIn
  <2>3. CASE u = t
    <3>1. v.segs \subseteq Own(u) \cup segs
      BY <1>7, <2>3 DEF InsideIn
    <3>2. HeadOf(U, u) = HeadOf(T, u) + 1 /\ At(U, u, HeadOf(T, u) + 1) = v.segs
          /\ HeadOf(T, u) \in Nat
      BY <1>3, <1>4, <1>7, <2>3
    <3>3. \A s \in 0..HeadOf(U, u) : s \in 0..HeadOf(T, u) \/ s = HeadOf(T, u) + 1
      BY <3>2
    <3>4. QED
      BY <2>1, <3>1, <3>2, <3>3 DEF InsideIn
  <2>4. QED
    BY <2>2, <2>3
<1>8. SegmentsIn(U, C, F, E)
  <2>1. ASSUME NEW n \in Names, C[n] # None PROVE InsideIn(U, C[n], {})
    <3>1. C[n] \in Tables /\ T[C[n]] # None /\ InsideIn(T, C[n], {})
      BY <1>1, <2>1 DEF RootsIn, HomesIn, SegmentsIn
    <3>2. QED
      BY <1>7, <3>1
  <2>2. ASSUME NEW f \in ForkNames, NEW n \in Names, E[f][n] # None PROVE EntryIn(U, F[f], E[f][n])
    <3>1. EntryIn(T, F[f], E[f][n]) /\ T[E[f][n].table] # None /\ E[f][n].table \in Tables
      BY <1>1, <2>2, EntryFacts DEF SegmentsIn, HomesIn
    <3>2. \A segs : InsideIn(T, E[f][n].table, segs) => InsideIn(U, E[f][n].table, segs)
      BY <1>7, <3>1
    <3>3. ASSUME E[f][n].origin # None
          PROVE  At(U, E[f][n].origin.table, E[f][n].origin.seq)
                   = At(T, E[f][n].origin.table, E[f][n].origin.seq)
      <4>1. /\ E[f][n].origin.table \in Tables /\ T[E[f][n].origin.table] # None
            /\ E[f][n].origin.seq \in 0..HeadOf(T, E[f][n].origin.table)
        BY <1>1, <2>2, <3>3, OriginFacts
      <4>2. QED
        BY <1>3, <4>1 DEF Stays
    <3>4. QED
      BY <3>1, <3>2, <3>3, EntryStays
  <2>3. QED
    BY <2>1, <2>2 DEF SegmentsIn
<1>9. AllPresentIn(U, C, E, P)
  <2> SUFFICES ASSUME NEW u \in Tables, HomedIn(C, E, u), NEW s \in U[u].floor..HeadOf(U, u)
               PROVE  At(U, u, s) \subseteq P
    BY DEF AllPresentIn, PresentIn
  <2>1. T[u] # None /\ U[u].floor = T[u].floor /\ T[u].floor \in Nat /\ HeadOf(T, u) \in Nat
        /\ Stays(T, U, u)
    BY <1>1, <1>3, HomedExists, TableFacts
  <2>2. CASE s <= HeadOf(T, u)
    <3>1. s \in T[u].floor..HeadOf(T, u) /\ s \in 0..HeadOf(T, u)
      BY <2>1, <2>2
    <3>2. At(T, u, s) \subseteq O
      BY <1>1, <3>1 DEF AllPresentIn, PresentIn
    <3>3. QED
      BY <2>1, <3>1, <3>2 DEF Stays
  <2>3. CASE ~(s <= HeadOf(T, u))
    <3>0. U[u].floor \in Nat /\ HeadOf(U, u) \in Nat /\ s <= HeadOf(U, u)
      BY <1>4, <2>1
    <3>1. u = t
      BY <1>4, <2>1, <2>3, <3>0
    <3>2. HeadOf(U, u) = HeadOf(T, u) + 1 /\ At(U, u, HeadOf(T, u) + 1) = v.segs
      BY <1>3, <3>1
    <3>3. s = HeadOf(T, u) + 1
      BY <2>1, <2>3, <3>2
    <3>4. QED
      BY <3>2, <3>3
  <2>4. QED
    BY <2>2, <2>3
<1>10. AllRowsKeptIn(U, Q, next)
  <2> SUFFICES ASSUME NEW u \in Tables, U[u] # None PROVE RowsKeptIn(U, Q, next, u)
    BY DEF AllRowsKeptIn
  <2>1. T[u] # None
    BY <1>2, <1>3
  <2>2. RowsKeptIn(T, R, last, u)
    BY <1>1, <2>1 DEF AllRowsKeptIn
  <2>3. RowsKeptIn(T, Q, next, u)
    BY <2>1, <2>2, RowsStay
  <2>4. CASE u # t
    BY <1>3, <2>3, <2>4, RowsKeptSame
  <2>5. CASE u = t
    <3>1. HeadOf(T, u) \in Nat /\ Stays(T, U, u)
      BY <1>3, <2>1, TableFacts
    <3>2. At(T, u, HeadOf(T, u)) \in SUBSET Objects /\ \A o \in At(T, u, HeadOf(T, u)) : o[2] <= last
      BY <2>1, <2>2, <3>1, TableFacts DEF RowsKeptIn
    <3>3. RowsIn(Q, At(T, u, HeadOf(T, u))) = RowsIn(R, At(T, u, HeadOf(T, u)))
      BY <3>2, RowsSame
    <3>4. /\ HeadOf(U, u) = HeadOf(T, u) + 1
          /\ \A o \in At(U, u, HeadOf(T, u) + 1) : o[2] <= next
          /\ OpAt(U, u, HeadOf(T, u) + 1) = "compact" =>
                RowsIn(Q, At(U, u, HeadOf(T, u) + 1)) = RowsIn(Q, At(T, u, HeadOf(T, u)))
      BY <1>3, <2>5, <3>3
    <3>5. QED
      BY <2>3, <3>1, <3>4, RowsGrow
  <2>6. QED
    BY <2>4, <2>5
<1>11. QED
  BY <1>1, <1>3, <1>5, <1>6, <1>8, <1>9, <1>10 DEF WorldIn

(* What vacuum has read. *)
LEMMA ScanFacts ==
    ASSUME NEW w \in Scans
    PROVE  /\ w.seg \in Nat /\ w.table \in Nat /\ w.roots \subseteq Tables /\ w.ref \subseteq Objects
           /\ \A t \in Tables : w.floors[t] \in Nat /\ w.floors[t] \in 0..MaxSeq
<1>1. /\ w.seg \in 0..MaxSeg /\ w.table \in 0..MaxTable /\ w.roots \subseteq Tables
      /\ w.ref \subseteq Objects /\ w.floors \in [Tables -> 0..MaxSeq]
  BY DEF Scans
<1>2. \A i \in 0..MaxSeg : i \in Nat
  BY BoundsAssumption
<1>3. \A i \in 0..MaxTable : i \in Nat
  BY BoundsAssumption
<1>4. \A i \in 0..MaxSeq : i \in Nat
  BY BoundsAssumption
<1>5. \A t \in Tables : w.floors[t] \in 0..MaxSeq
  BY <1>1
<1>6. QED
  BY <1>1, <1>2, <1>3, <1>4, <1>5

(* One version more, of which vacuum knows the segments or they are young. *)
LEMMA GrownScan ==
    ASSUME NEW T, NEW C, NEW E, NEW pc, NEW w \in Scans, NEW lastT, NEW last \in Nat, TablesIn(T),
           ScanIn(T, C, E, pc, w, lastT, last), NEW t \in Tables, T[t] # None, NEW v \in VersionRec,
           HeadOf(T, t) < MaxSeq, NEW U, U = With(T, t, v), NEW next \in Nat, last <= next,
           pc = "delete" /\ t \in w.roots => \A o \in v.segs : o \in w.ref \/ o[2] > w.seg
    PROVE  ScanIn(U, C, E, pc, w, lastT, next)
<1>1. /\ TablesIn(U)
      /\ \A u \in Tables : /\ u # t => U[u] = T[u]
                           /\ T[u] # None => Stays(T, U, u) /\ U[u].floor = T[u].floor
      /\ HeadOf(U, t) = HeadOf(T, t) + 1 /\ At(U, t, HeadOf(T, t) + 1) = v.segs
  BY Grown
<1>2. w.seg \in Nat /\ \A u \in Tables : w.floors[u] \in Nat
  BY ScanFacts
<1>3. w.seg <= next
  BY <1>2 DEF ScanIn
<1>4. ASSUME pc = "delete", NEW u \in Tables, U[u] # None PROVE ScannedIn(U, w, u)
  <2>1. T[u] # None /\ U[u].floor = T[u].floor /\ Stays(T, U, u)
    BY <1>1, <1>4
  <2>2. ScannedIn(T, w, u)
    BY <1>4, <2>1 DEF ScanIn
  <2>3. HeadOf(T, u) \in Nat /\ HeadOf(U, u) \in Nat /\ w.floors[u] \in Nat
    BY <1>1, <1>2, <1>4, <2>1, TableFacts
  <2>4. ASSUME u \in w.roots, NEW s \in w.floors[u]..HeadOf(U, u), NEW o \in At(U, u, s)
        PROVE  o \in w.ref \/ o[2] > w.seg
    <3>1. CASE s <= HeadOf(T, u)
      <4>1. s \in w.floors[u]..HeadOf(T, u) /\ s \in 0..HeadOf(T, u)
        BY <2>3, <3>1
      <4>2. o \in At(T, u, s)
        BY <2>1, <2>4, <4>1 DEF Stays
      <4>3. QED
        BY <2>2, <2>4, <4>1, <4>2 DEF ScannedIn
    <3>2. CASE ~(s <= HeadOf(T, u))
      <4>1. s <= HeadOf(U, u) /\ s \in Nat
        BY <2>3
      <4>2. u # t => HeadOf(U, u) = HeadOf(T, u)
        BY <1>1 DEF HeadOf
      <4>3. u = t
        BY <2>3, <3>2, <4>1, <4>2
      <4>4. s = HeadOf(T, u) + 1
        BY <1>1, <2>3, <3>2, <4>1, <4>3
      <4>5. QED
        BY <1>1, <1>4, <2>4, <4>3, <4>4
    <3>3. QED
      BY <3>1, <3>2
  <2>5. QED
    BY <2>1, <2>2, <2>4 DEF ScannedIn
<1>5. QED
  BY <1>3, <1>4 DEF ScanIn

-----------------------------------------------------------------------------
(***************************************************************************)
(* Steps.  The types of the variables a step does not touch.               *)
(***************************************************************************)

(* The parts of the type invariant, as predicates of values. *)
LEMMA Typed ==
    ASSUME TypeOK
    PROVE  /\ TablesIn(tables) /\ RootsIn(catalog, forks, entries) /\ vscan \in Scans
           /\ lastTable \in Nat /\ lastSeg \in Nat /\ ops \in Nat /\ crashes \in Nat
           /\ lastTable <= MaxTable /\ lastSeg <= MaxSeg
           /\ objects \subseteq Objects /\ rows \in [Segs -> SUBSET Segs]
<1>1. TablesIn(tables) /\ RootsIn(catalog, forks, entries)
  BY DEF TypeOK, TablesOK, TablesIn, RootsOK, RootsIn
<1>2. /\ lastTable \in 0..MaxTable /\ lastSeg \in 0..MaxSeg /\ ops \in 0..MaxOps
      /\ crashes \in 0..MaxCrash /\ vscan \in Scans
  BY DEF TypeOK, CountersOK, VacuumOK
<1>3. /\ lastTable \in Nat /\ lastSeg \in Nat /\ ops \in Nat /\ crashes \in Nat
      /\ lastTable <= MaxTable /\ lastSeg <= MaxSeg
  BY <1>2, BoundsAssumption
<1>4. QED
  BY <1>1, <1>2, <1>3 DEF TypeOK, StoreOK

(* The same after a step. *)
LEMMA TypedAfter ==
    (TablesOK' <=> TablesIn(tables')) /\ (RootsOK' <=> RootsIn(catalog', forks', entries'))
BY DEF TablesOK, TablesIn, RootsOK, RootsIn

(* Counters count. *)
LEMMA CountersStep ==
    ASSUME TypeOK, ops' = ops \/ Step,
           crashes' = crashes \/ (crashes < MaxCrash /\ crashes' = crashes + 1),
           lastTable' = lastTable \/ (lastTable < MaxTable /\ lastTable' = lastTable + 1),
           lastSeg' = lastSeg \/ (lastSeg < MaxSeg /\ lastSeg' = lastSeg + 1)
    PROVE  CountersOK'
<1>1. /\ lastTable \in 0..MaxTable /\ lastSeg \in 0..MaxSeg /\ ops \in 0..MaxOps
      /\ crashes \in 0..MaxCrash
  BY DEF TypeOK, CountersOK
<1>2. lastTable' \in 0..MaxTable
  BY <1>1, BoundsAssumption
<1>3. lastSeg' \in 0..MaxSeg
  BY <1>1, BoundsAssumption
<1>4. ops' \in 0..MaxOps
  BY <1>1, BoundsAssumption DEF Step
<1>5. crashes' \in 0..MaxCrash
  BY <1>1, BoundsAssumption
<1>6. QED
  BY <1>2, <1>3, <1>4, <1>5 DEF CountersOK

(* What a refresh stores for a fork. *)
LEMMA RefreshedTyped ==
    ASSUME TypeOK, IndexInv, NEW f \in ForkNames, forks[f] # None
    PROVE  Refreshed[f] \in IndexedForks
<1>1. index \in [ForkNames -> IndexedForks \cup {None}] /\ RootsIn(catalog, forks, entries)
  BY Typed DEF TypeOK
<1>2. forks[f] \in Forks
  BY <1>1 DEF RootsIn
<1>3. forks[f].size \in Nat /\ forks[f].pins \subseteq Pins
  BY <1>2 DEF Forks
<1>4. {<<p.table, p.seq>> : p \in forks[f].pins} \subseteq Tables \X (0..MaxSeq)
  BY <1>3 DEF Pins
<1>5. ASSUME NEW n \in Names PROVE IndexedOwned(f, n) \in IndexedEntries \cup {None}
  <2>1. CASE entries[f][n] = None
    BY <2>1 DEF IndexedOwned
  <2>2. CASE entries[f][n] # None
    <3>1. entries[f][n].table \in Tables /\ entries[f][n].size \in Nat
      BY <2>2 DEF IndexInv, IndexTypes
    <3>2. index[f] # None => index[f].owned[n] \in IndexedEntries \cup {None}
      BY <1>1 DEF IndexedForks
    <3>3. QED
      BY <2>2, <3>1, <3>2 DEF IndexedOwned, IndexedEntries
  <2>3. QED
    BY <2>1, <2>2
<1>6. IndexedPins(f) \subseteq Tables \X (0..MaxSeq)
  BY <1>4, PinsReported
<1>7. Refreshed[f] = [size |-> forks[f].size, pins |-> IndexedPins(f),
                      owned |-> [n \in Names |-> IndexedOwned(f, n)]]
  BY Reported
<1>8. QED
  BY <1>3, <1>5, <1>6, <1>7 DEF IndexedForks

(* The index keeps its type. *)
LEMMA IndexTyped ==
    ASSUME TypeOK, IndexInv, index' = index \/ index' = Refreshed
    PROVE  index' \in [ForkNames -> IndexedForks \cup {None}]
<1>1. index \in [ForkNames -> IndexedForks \cup {None}]
  BY DEF TypeOK
<1>2. \A f \in ForkNames : forks[f] # None => Refreshed[f] \in IndexedForks
  BY RefreshedTyped
<1>3. Refreshed \in [ForkNames -> IndexedForks \cup {None}]
  BY <1>2 DEF Refreshed
<1>4. QED
  BY <1>1, <1>3

-----------------------------------------------------------------------------
(***************************************************************************)
(* What a step has to establish: the invariant but for the counters and    *)
(* the index, which every step keeps alike.                                *)
(***************************************************************************)
HoldsAfter ==
    /\ TablesIn(tables') /\ RootsIn(catalog', forks', entries')
    /\ objects' \subseteq Objects /\ rows' \in [Segs -> SUBSET Segs] /\ VacuumOK'
    /\ WorldIn(tables', catalog', forks', entries', objects', rows', lastTable', lastSeg')
    /\ ScanIn(tables', catalog', entries', vpc', vscan', lastTable', lastSeg')

(* What a step may use. *)
LEMMA Facts ==
    ASSUME IInv
    PROVE  /\ TypeOK /\ IndexInv
           /\ TablesIn(tables) /\ RootsIn(catalog, forks, entries) /\ vscan \in Scans
           /\ lastTable \in Nat /\ lastSeg \in Nat /\ ops \in Nat /\ crashes \in Nat
           /\ lastTable <= MaxTable /\ lastSeg <= MaxSeg
           /\ objects \subseteq Objects /\ rows \in [Segs -> SUBSET Segs] /\ VacuumOK
           /\ WorldIn(tables, catalog, forks, entries, objects, rows, lastTable, lastSeg)
           /\ OneHomeIn(catalog, entries) /\ HomesIn(tables, catalog, forks, entries, lastTable)
           /\ PinsIn(tables, catalog, forks, entries) /\ SegmentsIn(tables, catalog, forks, entries)
           /\ AllPresentIn(tables, catalog, entries, objects) /\ AllRowsKeptIn(tables, rows, lastSeg)
           /\ ScanIn(tables, catalog, entries, vpc, vscan, lastTable, lastSeg)
<1>1. /\ TypeOK /\ IndexInv
      /\ WorldIn(tables, catalog, forks, entries, objects, rows, lastTable, lastSeg)
      /\ ScanIn(tables, catalog, entries, vpc, vscan, lastTable, lastSeg)
  BY Before
<1>2. /\ OneHomeIn(catalog, entries) /\ HomesIn(tables, catalog, forks, entries, lastTable)
      /\ PinsIn(tables, catalog, forks, entries) /\ SegmentsIn(tables, catalog, forks, entries)
      /\ AllPresentIn(tables, catalog, entries, objects) /\ AllRowsKeptIn(tables, rows, lastSeg)
  BY <1>1 DEF WorldIn
<1>3. VacuumOK
  BY <1>1 DEF TypeOK
<1>4. QED
  BY <1>1, <1>2, <1>3, Typed

(* A commit to a registered table. *)
LEMMA CommitHolds ==
    ASSUME IInv, NEW t \in Tables, HomedIn(catalog, entries, t), Commit(t)
    PROVE  HoldsAfter
<1> DEFINE new == lastSeg + 1
           h == HeadOf(tables, t)
<1>1. /\ TablesIn(tables) /\ RootsIn(catalog, forks, entries) /\ lastSeg \in Nat
      /\ HomesIn(tables, catalog, forks, entries, lastTable)
      /\ WorldIn(tables, catalog, forks, entries, objects, rows, lastTable, lastSeg)
      /\ ScanIn(tables, catalog, entries, vpc, vscan, lastTable, lastSeg)
      /\ objects \subseteq Objects /\ rows \in [Segs -> SUBSET Segs] /\ vscan \in Scans
      /\ VacuumOK /\ AllRowsKeptIn(tables, rows, lastSeg)
      /\ AllPresentIn(tables, catalog, entries, objects)
  BY Facts
<1>2. PICK v \in Rewrites(t, HeadVersion(t).segs) :
        /\ tables' = [tables EXCEPT ![t].vers = Append(@, [op |-> v.op, segs |-> v.segs])]
        /\ rows' = [rows EXCEPT ![lastSeg + 1] = v.rows]
  BY DEF Commit
<1>3. /\ lastSeg < MaxSeg /\ HeadSeq(t) < MaxSeq /\ objects' = objects \cup {<<t, new>>}
      /\ lastSeg' = new
      /\ UNCHANGED <<catalog, forks, entries, lastTable, vpc, vscan>>
  BY DEF Commit, rootVars, vacuumVars
<1>4. tables[t] # None
  BY <1>1, HomedExists
<1>5. /\ h \in Nat /\ tables[t].floor \in Nat /\ tables[t].floor <= h
      /\ \A s \in 0..h : At(tables, t, s) \subseteq Objects
  BY <1>1, <1>4, TableFacts
<1>6. HeadVersion(t).segs = At(tables, t, h) /\ HeadSeq(t) = h
  BY DEF HeadVersion, Version, HeadSeq, HeadOf, At
<1>7. new \in Nat /\ new \in Segs /\ new > lastSeg
  BY <1>1, <1>3, BoundsAssumption DEF Segs
<1> DEFINE old == At(tables, t, h)
           w == [op |-> v.op, segs |-> v.segs]
<1>8. old \subseteq Objects /\ h \in 0..h /\ h \in tables[t].floor..h
  BY <1>5
<1>9. old \subseteq objects
  BY <1>1, <1>8 DEF AllPresentIn, PresentIn
<1>10. \A o \in old : o[2] <= lastSeg
  BY <1>1, <1>4, <1>8 DEF AllRowsKeptIn, RowsKeptIn
<1>11. RowsOf(old) \subseteq Segs
  <2>1. \A o \in old : rows[o[2]] \subseteq Segs
    BY <1>1, <1>8 DEF Objects
  <2>2. QED
    BY <2>1 DEF RowsOf
<1> HIDE DEF old, new, h
<1>12. /\ v.op \in {"write", "compact"} /\ v.segs \subseteq old \cup {<<t, new>>}
       /\ v.rows \subseteq Segs
       /\ v.op = "compact" => v.segs = {<<t, new>>} /\ v.rows = RowsOf(old)
  <2>1. v \in Rewrites(t, old)
    BY <1>2, <1>6 DEF old
  <2>2. \/ \E kept \in {old, {}} :
              v = [op |-> "write", segs |-> kept \cup {<<t, new>>}, rows |-> {new}]
        \/ v = [op |-> "compact", segs |-> {<<t, new>>}, rows |-> RowsOf(old)]
    BY <2>1 DEF Rewrites, new
  <2>3. QED
    BY <1>7, <1>11, <2>2
<1>13. <<t, new>> \in Objects /\ <<t, new>> \in Own(t)
  BY <1>7 DEF Objects, Own
<1>14. w \in VersionRec /\ w.segs = v.segs /\ w.op = v.op
  BY <1>8, <1>12, <1>13 DEF VersionRec, OpKinds, old
<1>15. tables' = With(tables, t, w)
  BY <1>2 DEF With
<1>16. /\ objects \subseteq objects' /\ w.segs \subseteq objects' /\ objects' \subseteq Objects
       /\ w.segs \subseteq Own(t) \cup At(tables, t, h)
  BY <1>1, <1>3, <1>9, <1>12, <1>13, <1>14 DEF old
<1>17. /\ rows' \in [Segs -> SUBSET Segs] /\ rows'[new] = v.rows
       /\ \A i \in Segs : i # new => rows'[i] = rows[i]
  BY <1>1, <1>2, <1>7, <1>12 DEF new
<1>18. \A i \in Segs : i <= lastSeg => rows'[i] = rows[i]
  <2>1. \A i \in Segs : i <= lastSeg => i # new
    BY <1>1, <1>7, BoundsAssumption DEF Segs
  <2>2. QED
    BY <1>17, <2>1
<1>19. \A o \in w.segs : o[2] <= new
  <2>1. \A o \in old : o[2] \in Nat
    BY <1>8, BoundsAssumption DEF Objects, Segs, old
  <2>2. \A o \in old : o[2] <= new
    BY <1>1, <1>7, <1>10, <2>1
  <2>3. \A o \in {<<t, new>>} : o[2] <= new
    BY <1>7
  <2>4. QED
    BY <1>12, <1>14, <2>2, <2>3
<1>20. w.op = "compact" => RowsIn(rows', w.segs) = RowsIn(rows, At(tables, t, h))
  <2>1. RowsIn(rows', {<<t, new>>}) = rows'[new]
    BY DEF RowsIn
  <2>2. RowsOf(old) = RowsIn(rows, At(tables, t, h))
    BY DEF RowsOf, RowsIn, old
  <2>3. QED
    BY <1>12, <1>14, <1>17, <2>1, <2>2
<1>21. lastSeg <= new /\ h < MaxSeq
  BY <1>1, <1>3, <1>6, <1>7
<1>22. /\ TablesIn(tables')
       /\ WorldIn(tables', catalog, forks, entries, objects', rows', lastTable, new)
  BY <1>1, <1>7, <1>8, <1>14, <1>15, <1>16, <1>18, <1>19, <1>20, <1>21, GrownWorld DEF h
<1>23. ASSUME vpc = "delete", t \in vscan.roots, NEW o \in w.segs
       PROVE  o \in vscan.ref \/ o[2] > vscan.seg
  <2>1. vscan.seg \in Nat /\ vscan.floors[t] \in Nat /\ vscan.seg <= lastSeg
    BY <1>1, ScanFacts DEF ScanIn
  <2>2. ScannedIn(tables, vscan, t)
    BY <1>1, <1>4, <1>23 DEF ScanIn
  <2>3. h \in vscan.floors[t]..h
    <3>1. vscan.floors[t] <= tables[t].floor
      BY <2>2 DEF ScannedIn
    <3>2. QED
      BY <1>5, <2>1, <3>1 DEF h
  <2>4. CASE o \in old
    BY <1>23, <2>2, <2>3, <2>4 DEF ScannedIn, old, h
  <2>5. CASE o = <<t, new>>
    <3>1. o[2] = new
      BY <2>5
    <3>2. QED
      BY <1>1, <1>7, <2>1, <3>1
  <2>6. QED
    BY <1>12, <1>14, <2>4, <2>5
<1>24. ScanIn(tables', catalog, entries, vpc, vscan, lastTable, new)
  BY <1>1, <1>4, <1>7, <1>14, <1>15, <1>21, <1>23, GrownScan DEF h
<1>25. RootsIn(catalog', forks', entries') /\ VacuumOK'
  BY <1>1, <1>3 DEF VacuumOK
<1>26. QED
  BY <1>3, <1>16, <1>17, <1>22, <1>24, <1>25 DEF HoldsAfter

(* An object more takes nothing from anybody. *)
LEMMA MoreObjects ==
    ASSUME NEW T, NEW C, NEW F, NEW E, NEW O, NEW R, NEW lastT, NEW last, NEW P, O \subseteq P,
           WorldIn(T, C, F, E, O, R, lastT, last)
    PROVE  WorldIn(T, C, F, E, P, R, lastT, last)
<1>1. AllPresentIn(T, C, E, O)
  BY DEF WorldIn
<1>2. AllPresentIn(T, C, E, P)
  BY <1>1 DEF AllPresentIn, PresentIn
<1>3. QED
  BY <1>2 DEF WorldIn

(* What a promote links and records. *)
LEMMA PromotedFacts ==
    ASSUME IInv, NEW f \in ForkNames, NEW n \in Names, entries[f][n] # None,
           entries[f][n].origin # None, Promotable(entries[f][n])
    PROVE  LET e == entries[f][n]
               o == e.origin.table
           IN  /\ o \in Tables /\ HomedIn(catalog, entries, o) /\ tables[o] # None
               /\ Linked(e) \subseteq Own(o) /\ Linked(e) \subseteq Objects
               /\ Promoted(e) \subseteq objects \cup Linked(e)
               /\ \A s \in Promoted(e) : s[2] <= lastSeg
               /\ \E k \in 0..HeadOf(tables, o) : Promoted(e) \subseteq Own(o) \cup At(tables, o, k)
<1> DEFINE e == entries[f][n]
           o == e.origin.table
           q == e.origin.seq
           mine == At(tables, e.table, HeadOf(tables, e.table))
           base == At(tables, o, HeadOf(tables, o))
<1>1. /\ TablesIn(tables) /\ RootsIn(catalog, forks, entries) /\ lastSeg \in Nat
      /\ HomesIn(tables, catalog, forks, entries, lastTable)
      /\ PinsIn(tables, catalog, forks, entries) /\ SegmentsIn(tables, catalog, forks, entries)
      /\ AllPresentIn(tables, catalog, entries, objects) /\ AllRowsKeptIn(tables, rows, lastSeg)
  BY Facts
<1>2. /\ o \in Tables /\ q \in Nat /\ tables[o] # None /\ HomedIn(catalog, entries, o)
      /\ q \in 0..HeadOf(tables, o) /\ InsideIn(tables, e.table, At(tables, o, q))
  BY <1>1, OriginFacts
<1>3. e.table \in Tables /\ tables[e.table] # None /\ HomedIn(catalog, entries, e.table)
  BY <1>1, EntryFacts DEF HomesIn, HomedIn
<1>4. ASSUME NEW t \in Tables, tables[t] # None, HomedIn(catalog, entries, t)
      PROVE  /\ HeadOf(tables, t) \in 0..HeadOf(tables, t)
             /\ At(tables, t, HeadOf(tables, t)) \subseteq objects
             /\ At(tables, t, HeadOf(tables, t)) \subseteq Objects
             /\ \A s \in At(tables, t, HeadOf(tables, t)) : s[2] <= lastSeg
  <2>1. /\ HeadOf(tables, t) \in Nat /\ tables[t].floor \in Nat
        /\ tables[t].floor <= HeadOf(tables, t)
        /\ \A s \in 0..HeadOf(tables, t) : At(tables, t, s) \subseteq Objects
    BY <1>1, <1>4, TableFacts
  <2>2. /\ HeadOf(tables, t) \in 0..HeadOf(tables, t)
        /\ HeadOf(tables, t) \in tables[t].floor..HeadOf(tables, t)
    BY <2>1
  <2>3. At(tables, t, HeadOf(tables, t)) \subseteq objects
    BY <1>1, <1>4, <2>2 DEF AllPresentIn, PresentIn
  <2>4. \A s \in At(tables, t, HeadOf(tables, t)) : s[2] <= lastSeg
    BY <1>1, <1>4, <2>2 DEF AllRowsKeptIn, RowsKeptIn
  <2>5. QED
    BY <2>1, <2>2, <2>3, <2>4
<1>5. /\ mine \subseteq objects /\ mine \subseteq Objects /\ \A s \in mine : s[2] <= lastSeg
      /\ base \subseteq objects /\ \A s \in base : s[2] <= lastSeg
      /\ HeadOf(tables, o) \in 0..HeadOf(tables, o)
      /\ HeadOf(tables, e.table) \in 0..HeadOf(tables, e.table)
  BY <1>2, <1>3, <1>4
<1>6. mine \subseteq Own(e.table) \cup At(tables, o, q)
  BY <1>2, <1>5 DEF InsideIn
<1>7. /\ HeadVersion(e.table).segs = mine /\ HeadVersion(o).segs = base
      /\ HeadSeq(o) = HeadOf(tables, o)
  BY DEF HeadVersion, Version, HeadSeq, HeadOf, At
<1> HIDE DEF mine, base, q, o, e
<1>8. Linked(e) = {<<o, s[2]>> : s \in mine \cap Own(e.table)}
  BY <1>7 DEF Linked, o
<1>9. \A s \in mine : s[2] \in Segs
  BY <1>5 DEF Objects
<1>10. Linked(e) \subseteq Objects /\ Linked(e) \subseteq Own(o) /\ \A s \in Linked(e) : s[2] <= lastSeg
  BY <1>2, <1>5, <1>8, <1>9 DEF Objects, Own
<1>11. \/ Promoted(e) = (mine \ Own(e.table)) \cup Linked(e)
       \/ Promoted(e) = base \cup Linked(e)
  BY <1>7 DEF Promoted, o
<1>12. Promoted(e) \subseteq objects \cup Linked(e) /\ \A s \in Promoted(e) : s[2] <= lastSeg
  BY <1>5, <1>10, <1>11
<1>13. \E k \in 0..HeadOf(tables, o) : Promoted(e) \subseteq Own(o) \cup At(tables, o, k)
  <2>1. CASE Promoted(e) = (mine \ Own(e.table)) \cup Linked(e)
    BY <1>2, <1>6, <1>10, <2>1
  <2>2. CASE Promoted(e) = base \cup Linked(e)
    BY <1>5, <1>10, <2>2 DEF base
  <2>3. QED
    BY <1>11, <2>1, <2>2
<1>14. QED
  BY <1>2, <1>10, <1>12, <1>13 DEF e, o

(* A promote of a shadow, with vacuum not at work. *)
LEMMA PromoteHolds ==
    ASSUME IInv, "overlap" \notin Allowed, NEW f \in ForkNames, NEW n \in Names, Promote(f, n)
    PROVE  HoldsAfter
<1> DEFINE e == entries[f][n]
           o == e.origin.table
           v == [op |-> "promote", segs |-> Promoted(e)]
<1>1. /\ TablesIn(tables) /\ RootsIn(catalog, forks, entries) /\ lastSeg \in Nat
      /\ WorldIn(tables, catalog, forks, entries, objects, rows, lastTable, lastSeg)
      /\ ScanIn(tables, catalog, entries, vpc, vscan, lastTable, lastSeg)
      /\ objects \subseteq Objects /\ rows \in [Segs -> SUBSET Segs] /\ vscan \in Scans /\ VacuumOK
  BY Facts
<1>2. /\ e # None /\ e.origin # None /\ Promotable(e) /\ vpc = "idle"
      /\ HeadSeq(o) < MaxSeq /\ objects' = objects \cup Linked(e)
      /\ UNCHANGED <<catalog, forks, entries, rows, lastTable, lastSeg, vpc, vscan>>
  BY DEF Promote, MayPromote, rootVars, vacuumVars
<1>3. /\ o \in Tables /\ HomedIn(catalog, entries, o) /\ tables[o] # None
      /\ Linked(e) \subseteq Own(o) /\ Linked(e) \subseteq Objects
      /\ Promoted(e) \subseteq objects \cup Linked(e)
      /\ \A s \in Promoted(e) : s[2] <= lastSeg
  BY <1>2, PromotedFacts
<1>4. PICK k \in 0..HeadOf(tables, o) : Promoted(e) \subseteq Own(o) \cup At(tables, o, k)
  BY <1>2, PromotedFacts
<1>5. tables' = With(tables, o, v) \/ tables' = tables
  BY DEF Promote, With
<1>6. RootsIn(catalog', forks', entries') /\ VacuumOK' /\ rows' \in [Segs -> SUBSET Segs]
  BY <1>1, <1>2 DEF VacuumOK
<1> HIDE DEF e, o, v
<1>7. objects \subseteq objects' /\ objects' \subseteq Objects
  BY <1>1, <1>2, <1>3
<1>8. CASE tables' = tables
  <2>1. WorldIn(tables, catalog, forks, entries, objects', rows, lastTable, lastSeg)
    BY <1>1, <1>7, MoreObjects
  <2>2. QED
    BY <1>1, <1>2, <1>6, <1>7, <1>8, <2>1 DEF HoldsAfter
<1>9. CASE tables' = With(tables, o, v)
  <2>1. /\ v \in VersionRec /\ v.segs = Promoted(e) /\ v.op = "promote"
    BY <1>1, <1>3 DEF VersionRec, OpKinds, v
  <2>2. HeadOf(tables, o) < MaxSeq
    BY <1>2 DEF HeadSeq, HeadOf
  <2>3. /\ v.segs \subseteq objects' /\ v.segs \subseteq Own(o) \cup At(tables, o, k)
        /\ \A s \in v.segs : s[2] <= lastSeg
        /\ v.op = "compact" => RowsIn(rows, v.segs) = RowsIn(rows, At(tables, o, HeadOf(tables, o)))
    BY <1>2, <1>3, <1>4, <2>1
  <2>4. lastSeg <= lastSeg /\ \A i \in Segs : i <= lastSeg => rows[i] = rows[i]
    BY <1>1
  <2>5. /\ TablesIn(tables')
        /\ WorldIn(tables', catalog, forks, entries, objects', rows, lastTable, lastSeg)
    BY <1>1, <1>3, <1>7, <1>9, <2>1, <2>2, <2>3, <2>4, GrownWorld
  <2>6. ScanIn(tables', catalog, entries, vpc, vscan, lastTable, lastSeg)
    BY <1>1, <1>2, <1>3, <1>9, <2>1, <2>2, <2>4, GrownScan
  <2>7. QED
    BY <1>2, <1>6, <1>7, <2>5, <2>6 DEF HoldsAfter
<1>10. QED
  BY <1>5, <1>8, <1>9

-----------------------------------------------------------------------------
(***************************************************************************)
(* A fresh table directory, registered under one name or left without one. *)
(***************************************************************************)
Made(T, t, segs) == [T EXCEPT ![t] = NewTable(segs)]

(* The store with it. *)
LEMMA MadeTables ==
    ASSUME NEW T, TablesIn(T), NEW t \in Tables, NEW segs \in SUBSET Objects,
           NEW U, U = Made(T, t, segs)
    PROVE  /\ TablesIn(U) /\ U[t] # None /\ U[t].floor = 0 /\ HeadOf(U, t) = 0
           /\ At(U, t, 0) = segs /\ \A u \in Tables : u # t => U[u] = T[u]
<1> DEFINE r == NewTable(segs)
<1>1. r.vers = <<[op |-> "create", segs |-> segs]>> /\ r.floor = 0 /\ r.kept = 0
  BY DEF NewTable
<1>2. [op |-> "create", segs |-> segs] \in VersionRec
  BY DEF VersionRec, OpKinds
<1>3. r.vers \in Seq(VersionRec) /\ Len(r.vers) = 1 /\ r.vers[1] = [op |-> "create", segs |-> segs]
  BY <1>1, <1>2
<1>4. r \in TableRecs
  <2>1. \A x \in Seq(VersionRec) : [vers |-> x, floor |-> 0, kept |-> 0] \in TableRecs
    BY DEF TableRecs
  <2>2. r = [vers |-> <<[op |-> "create", segs |-> segs]>>, floor |-> 0, kept |-> 0]
    BY DEF NewTable
  <2>3. QED
    BY <1>1, <1>3, <2>1, <2>2
<1>5. r # None
  BY <1>4, NoneAssumption
<1>6. T \in [Tables -> TableRecs \cup {None}]
  BY DEF TablesIn
<1>7. U = [T EXCEPT ![t] = r]
  BY DEF Made
<1> HIDE DEF r
<1>8. /\ U \in [Tables -> TableRecs \cup {None}] /\ U[t] = r /\ \A u \in Tables : u # t => U[u] = T[u]
  BY <1>4, <1>6, <1>7
<1>9. Len(r.vers) \in 1..MaxSeq + 1 /\ r.floor < Len(r.vers) /\ r.kept <= r.floor
  BY <1>1, <1>3, BoundsAssumption
<1>10. TablesIn(U)
  BY <1>8, <1>9 DEF TablesIn
<1>11. HeadOf(U, t) = 0
  BY <1>3, <1>8 DEF HeadOf
<1>12. U[t].vers[0 + 1].segs = segs
  BY <1>3, <1>8
<1>13. At(U, t, 0) = segs
  BY <1>12 DEF At
<1>14. QED
  BY <1>1, <1>5, <1>8, <1>10, <1>11, <1>13

(* Where it is registered: nowhere, in the base, or in a fork, there as a
   table of the fork's own or as the shadow of a pin. *)
MadeEntry(T, fork, e, t, segs) ==
    /\ e # None /\ e \in Entries /\ e.table = t
    /\ e.origin = None => segs = {}
    /\ e.origin # None => \E p \in fork.pins : /\ p.table = e.origin.table /\ p.seq = e.origin.seq
                                               /\ segs = At(T, p.table, p.seq)
MadeBase(C, E, D, G, t, segs) ==
    /\ G = E /\ segs = {}
    /\ \E n \in Names : C[n] = None /\ D = [C EXCEPT ![n] = t]
MadeFork(T, C, F, E, D, G, t, segs) ==
    /\ D = C
    /\ \E f \in ForkNames, n \in Names, e \in Entries :
          /\ E[f][n] = None /\ F[f] # None /\ MadeEntry(T, F[f], e, t, segs)
          /\ G = [E EXCEPT ![f][n] = e]
MadeRoots(T, C, F, E, D, G, t, segs) ==
    \/ D = C /\ G = E
    \/ MadeBase(C, E, D, G, t, segs)
    \/ MadeFork(T, C, F, E, D, G, t, segs)

(* Name by name: one place at the most is new. *)
BasePlaces(C, E, D, G, t, segs) ==
    \A n \in Names : D[n] = C[n] \/ /\ D[n] = t /\ G = E /\ segs = {}
                                      /\ \A m \in Names : m # n => D[m] = C[m]
ForkPlaces(T, C, F, E, D, G, t, segs) ==
    \A f \in ForkNames, n \in Names :
       \/ G[f][n] = E[f][n]
       \/ /\ F[f] # None /\ MadeEntry(T, F[f], G[f][n], t, segs) /\ D = C
          /\ \A g \in ForkNames, m \in Names : g # f \/ m # n => G[g][m] = E[g][m]

(* So it is. *)
LEMMA MadePlaces ==
    ASSUME NEW T, NEW C, NEW F, NEW E, NEW D, NEW G, NEW t \in Tables, NEW segs,
           RootsIn(C, F, E), MadeRoots(T, C, F, E, D, G, t, segs)
    PROVE  /\ RootsIn(D, F, G) /\ BasePlaces(C, E, D, G, t, segs)
           /\ ForkPlaces(T, C, F, E, D, G, t, segs)
<1>1. /\ C \in [Names -> Tables \cup {None}] /\ E \in [ForkNames -> [Names -> Entries \cup {None}]]
      /\ F \in [ForkNames -> Forks \cup {None}]
  BY DEF RootsIn
<1>2. CASE D = C /\ G = E
  BY <1>2 DEF BasePlaces, ForkPlaces
<1>3. CASE MadeBase(C, E, D, G, t, segs)
  <2>1. PICK n \in Names : D = [C EXCEPT ![n] = t]
    BY <1>3 DEF MadeBase
  <2>2. G = E /\ segs = {}
    BY <1>3 DEF MadeBase
  <2>3. /\ D \in [Names -> Tables \cup {None}] /\ D[n] = t
        /\ \A m \in Names : m # n => D[m] = C[m]
    BY <1>1, <2>1
  <2>4. QED
    BY <1>1, <2>2, <2>3 DEF RootsIn, BasePlaces, ForkPlaces
<1>4. CASE MadeFork(T, C, F, E, D, G, t, segs)
  <2>1. D = C
    BY <1>4 DEF MadeFork
  <2>2. PICK f \in ForkNames, n \in Names, e \in Entries :
          F[f] # None /\ MadeEntry(T, F[f], e, t, segs) /\ G = [E EXCEPT ![f][n] = e]
    BY <1>4 DEF MadeFork
  <2>3. /\ G \in [ForkNames -> [Names -> Entries \cup {None}]] /\ G[f][n] = e
        /\ \A g \in ForkNames, m \in Names : g # f \/ m # n => G[g][m] = E[g][m]
    BY <1>1, <2>2
  <2>4. \A g \in ForkNames, m \in Names : G[g][m] # E[g][m] => g = f /\ m = n
    BY <2>3
  <2>5. QED
    BY <1>1, <2>1, <2>2, <2>3, <2>4 DEF RootsIn, BasePlaces, ForkPlaces
<1>5. QED
  BY <1>2, <1>3, <1>4 DEF MadeRoots

(* The world with it. *)
LEMMA MadeWorld ==
    ASSUME NEW T, NEW C, NEW F, NEW E, NEW O, NEW R, NEW lastT \in Nat, NEW last,
           TablesIn(T), RootsIn(C, F, E), WorldIn(T, C, F, E, O, R, lastT, last),
           lastT < MaxTable, NEW segs \in SUBSET Objects, segs \subseteq O,
           \A o \in segs : o[2] <= last,
           NEW D, NEW G, MadeRoots(T, C, F, E, D, G, lastT + 1, segs),
           NEW U, U = Made(T, lastT + 1, segs)
    PROVE  /\ TablesIn(U) /\ RootsIn(D, F, G)
           /\ WorldIn(U, D, F, G, O, R, lastT + 1, last)
<1> DEFINE new == lastT + 1
<1>1. /\ OneHomeIn(C, E) /\ HomesIn(T, C, F, E, lastT) /\ PinsIn(T, C, F, E)
      /\ SegmentsIn(T, C, F, E) /\ AllPresentIn(T, C, E, O) /\ AllRowsKeptIn(T, R, last)
  BY DEF WorldIn
<1>2. new \in Tables /\ new \in Nat /\ new > lastT
  BY BoundsAssumption DEF Tables
<1>3. \A t \in Tables : t <= lastT => t # new /\ t <= new
  BY <1>2, TablesNat
<1>21. MadeRoots(T, C, F, E, D, G, new, segs) /\ U = Made(T, new, segs)
  OBVIOUS
<1> HIDE DEF new
<1>4. /\ TablesIn(U) /\ U[new] # None /\ U[new].floor = 0 /\ HeadOf(U, new) = 0
      /\ At(U, new, 0) = segs /\ \A u \in Tables : u # new => U[u] = T[u]
  BY <1>2, <1>21, MadeTables
<1>5. /\ RootsIn(D, F, G) /\ BasePlaces(C, E, D, G, new, segs)
      /\ ForkPlaces(T, C, F, E, D, G, new, segs)
  BY <1>2, <1>21, MadePlaces
<1>6. \A n \in Names : D[n] = C[n] \/ /\ D[n] = new /\ G = E /\ segs = {}
                                      /\ \A m \in Names : m # n => D[m] = C[m]
  BY <1>5 DEF BasePlaces
<1>7. \A f \in ForkNames, n \in Names :
         \/ G[f][n] = E[f][n]
         \/ /\ F[f] # None /\ MadeEntry(T, F[f], G[f][n], new, segs) /\ D = C
            /\ \A g \in ForkNames, m \in Names : g # f \/ m # n => G[g][m] = E[g][m]
  BY <1>5 DEF ForkPlaces
<1>8. \A n \in Names : C[n] # None =>
         C[n] \in Tables /\ C[n] <= lastT /\ C[n] # new /\ C[n] <= new /\ T[C[n]] # None
  BY <1>1, <1>3 DEF RootsIn, HomesIn
<1>9. \A f \in ForkNames, n \in Names : E[f][n] # None =>
         /\ E[f][n].table \in Tables /\ E[f][n].table <= lastT /\ E[f][n].table # new
         /\ E[f][n].table <= new
         /\ F[f] # None /\ T[E[f][n].table] # None /\ T[E[f][n].table].floor = 0
  BY <1>1, <1>3, EntryFacts DEF HomesIn
<1>10. \A f \in ForkNames, n \in Names :
          \/ G[f][n] = E[f][n]
          \/ G[f][n] # None /\ G[f][n].table = new /\ F[f] # None
  BY <1>7 DEF MadeEntry
<1>11. OneHomeIn(D, G)
  <2>1. \A n, m \in Names : D[n] # None /\ D[n] = D[m] => n = m
    BY <1>1, <1>6, <1>8 DEF OneHomeIn
  <2>2. \A f, g \in ForkNames, n, m \in Names :
           G[f][n] # None /\ G[g][m] # None /\ G[f][n].table = G[g][m].table => f = g /\ n = m
    <3> SUFFICES ASSUME NEW f \in ForkNames, NEW g \in ForkNames, NEW n \in Names, NEW m \in Names,
                        G[f][n] # None, G[g][m] # None, G[f][n].table = G[g][m].table
                 PROVE  f = g /\ n = m
      OBVIOUS
    <3>1. CASE G[f][n] = E[f][n] /\ G[g][m] = E[g][m]
      BY <1>1, <3>1 DEF OneHomeIn
    <3>2. CASE G[f][n] # E[f][n]
      <4>1. /\ G[f][n].table = new
            /\ \A k \in ForkNames, l \in Names : k # f \/ l # n => G[k][l] = E[k][l]
        BY <1>7, <3>2 DEF MadeEntry
      <4>2. ASSUME g # f \/ m # n PROVE FALSE
        <5>1. G[g][m] = E[g][m]
          BY <4>1, <4>2
        <5>2. G[g][m].table # new
          BY <1>9, <5>1
        <5>3. QED
          BY <4>1, <5>2
      <4>3. QED
        BY <4>2
    <3>3. CASE G[g][m] # E[g][m]
      <4>1. /\ G[g][m].table = new
            /\ \A k \in ForkNames, l \in Names : k # g \/ l # m => G[k][l] = E[k][l]
        BY <1>7, <3>3 DEF MadeEntry
      <4>2. ASSUME g # f \/ m # n PROVE FALSE
        <5>1. G[f][n] = E[f][n]
          BY <4>1, <4>2
        <5>2. G[f][n].table # new
          BY <1>9, <5>1
        <5>3. QED
          BY <4>1, <5>2
      <4>3. QED
        BY <4>2
    <3>4. QED
      BY <3>1, <3>2, <3>3
  <2>3. ASSUME NEW f \in ForkNames, NEW n \in Names, NEW m \in Names, G[f][n] # None
        PROVE  D[m] # G[f][n].table
    <3>1. CASE G[f][n] = E[f][n] /\ D[m] = C[m]
      BY <1>1, <2>3, <3>1 DEF OneHomeIn
    <3>2. CASE G[f][n] # E[f][n]
      BY <1>2, <1>7, <1>8, <1>10, <3>2, TablesNat
    <3>3. CASE D[m] # C[m]
      BY <1>6, <1>9, <2>3, <3>3
    <3>4. QED
      BY <3>1, <3>2, <3>3
  <2>4. QED
    BY <2>1, <2>2, <2>3 DEF OneHomeIn
<1>12. HomesIn(U, D, F, G, new)
  <2>1. new <= new
    BY <1>2
  <2>2. \A n \in Names : D[n] # None => D[n] <= new /\ U[D[n]] # None
    BY <1>4, <1>6, <1>8, <2>1
  <2>3. \A f \in ForkNames, n \in Names : G[f][n] # None =>
           /\ F[f] # None /\ G[f][n].table <= new
           /\ U[G[f][n].table] # None /\ U[G[f][n].table].floor = 0
    BY <1>4, <1>9, <1>10, <2>1
  <2>4. QED
    BY <2>2, <2>3 DEF HomesIn
<1>13. \A t \in Tables : HomedIn(C, E, t) => HomedIn(D, G, t) /\ t # new
  <2> SUFFICES ASSUME NEW t \in Tables, HomedIn(C, E, t) PROVE HomedIn(D, G, t) /\ t # new
    OBVIOUS
  <2>1. CASE \E n \in Names : C[n] = t
    <3>1. PICK n \in Names : C[n] = t
      BY <2>1
    <3>2. t # new /\ C[n] # None
      BY <1>8, <3>1, TablesNat
    <3>3. D[n] = t
      <4>1. CASE \E f \in ForkNames, m \in Names : G[f][m] # E[f][m]
        BY <1>7, <3>1, <4>1
      <4>2. CASE D = C
        BY <3>1, <4>2
      <4>3. CASE MadeBase(C, E, D, G, new, segs)
        <5>1. PICK m \in Names : C[m] = None /\ D = [C EXCEPT ![m] = new]
          BY <4>3 DEF MadeBase
        <5>2. m # n
          BY <3>1, <3>2, <5>1
        <5>3. QED
          BY <3>1, <5>1, <5>2 DEF RootsIn
      <4>4. QED
        BY <4>2, <4>3 DEF MadeRoots, MadeFork, new
    <3>4. QED
      BY <3>2, <3>3 DEF HomedIn
  <2>2. CASE \E f \in ForkNames, n \in Names : E[f][n] # None /\ E[f][n].table = t
    <3>1. PICK f \in ForkNames, n \in Names : E[f][n] # None /\ E[f][n].table = t
      BY <2>2
    <3>2. t # new
      BY <1>9, <3>1
    <3>3. G[f][n] = E[f][n]
      <4>1. CASE G = E
        BY <4>1
      <4>2. CASE MadeFork(T, C, F, E, D, G, new, segs)
        <5>1. PICK g \in ForkNames, m \in Names, e \in Entries :
                E[g][m] = None /\ G = [E EXCEPT ![g][m] = e]
          BY <4>2 DEF MadeFork
        <5>2. f # g \/ n # m
          BY <3>1, <5>1
        <5>3. QED
          BY <5>1, <5>2 DEF RootsIn
      <4>3. QED
        BY <4>1, <4>2 DEF MadeRoots, MadeBase, new
    <3>4. QED
      BY <3>1, <3>2, <3>3 DEF HomedIn
  <2>3. QED
    BY <2>1, <2>2 DEF HomedIn
<1>14. PinsIn(U, D, F, G)
  <2> SUFFICES ASSUME NEW f \in ForkNames, F[f] # None, NEW p \in F[f].pins
               PROVE  PinIn(U, D, G, f, p)
    BY DEF PinsIn
  <2>1. p.table \in Tables /\ PinIn(T, C, E, f, p) /\ HomedIn(C, E, p.table)
    BY <1>1, PinFacts
  <2>2. HomedIn(D, G, p.table) /\ p.table # new
    BY <1>13, <2>1
  <2>3. U[p.table] = T[p.table]
    BY <1>4, <2>1, <2>2
  <2>4. \A n \in Names : G[f][n] # None => G[f][n].table # p.table
    BY <1>10, <2>1, <2>2 DEF PinIn
  <2>5. QED
    BY <2>1, <2>2, <2>3, <2>4 DEF PinIn, HeadOf
<1>15. \A t \in Tables : t # new =>
          HeadOf(U, t) = HeadOf(T, t) /\ \A s : At(U, t, s) = At(T, t, s)
  BY <1>4 DEF HeadOf, At
<1>16. \A t \in Tables : \A x : t # new /\ InsideIn(T, t, x) => InsideIn(U, t, x)
  BY <1>15 DEF InsideIn
<1>17. \A x : segs \subseteq x => InsideIn(U, new, x)
  BY <1>4 DEF InsideIn
<1>18. SegmentsIn(U, D, F, G)
  <2>1. \A n \in Names : D[n] # None => InsideIn(U, D[n], {})
    <3> SUFFICES ASSUME NEW n \in Names, D[n] # None PROVE InsideIn(U, D[n], {})
      OBVIOUS
    <3>1. CASE D[n] = C[n]
      BY <1>1, <1>8, <1>16, <3>1 DEF SegmentsIn
    <3>2. CASE D[n] # C[n]
      BY <1>6, <1>17, <3>2
    <3>3. QED
      BY <3>1, <3>2
  <2>2. ASSUME NEW f \in ForkNames, NEW n \in Names, G[f][n] # None
        PROVE  EntryIn(U, F[f], G[f][n])
    <3>1. CASE G[f][n] = E[f][n]
      <4>1. EntryIn(T, F[f], E[f][n]) /\ E[f][n].table \in Tables /\ E[f][n].table # new
        BY <1>1, <1>9, <2>2, <3>1 DEF SegmentsIn
      <4>2. \A x : InsideIn(T, E[f][n].table, x) => InsideIn(U, E[f][n].table, x)
        BY <1>16, <4>1
      <4>3. ASSUME E[f][n].origin # None
            PROVE  At(U, E[f][n].origin.table, E[f][n].origin.seq)
                     = At(T, E[f][n].origin.table, E[f][n].origin.seq)
        <5>1. E[f][n].origin.table \in Tables /\ HomedIn(C, E, E[f][n].origin.table)
          BY <1>1, <2>2, <3>1, <4>3, OriginFacts
        <5>2. QED
          BY <1>13, <1>15, <5>1
      <4>4. QED
        BY <3>1, <4>1, <4>2, <4>3, EntryStays
    <3>2. CASE G[f][n] # E[f][n]
      <4> DEFINE e == G[f][n]
      <4>1. MadeEntry(T, F[f], e, new, segs) /\ F[f] # None
        BY <1>7, <3>2
      <4>2. e.table = new
        BY <4>1 DEF MadeEntry
      <4> HIDE DEF e
      <4>3. CASE e.origin = None
        <5>1. segs = {}
          BY <4>1, <4>3 DEF MadeEntry
        <5>2. QED
          BY <1>17, <4>2, <4>3, <5>1 DEF EntryIn, e
      <4>4. CASE e.origin # None
        <5>1. PICK p \in F[f].pins : /\ p.table = e.origin.table /\ p.seq = e.origin.seq
                                     /\ segs = At(T, p.table, p.seq)
          BY <4>1, <4>4 DEF MadeEntry
        <5>2. p.table \in Tables /\ HomedIn(C, E, p.table) /\ p.table <= lastT
          BY <1>1, <4>1, PinFacts
        <5>3. p.table < new
          BY <1>2, <5>2, TablesNat
        <5>4. At(U, p.table, p.seq) = segs
          BY <1>13, <1>15, <5>1, <5>2
        <5>5. InsideIn(U, new, segs)
          BY <1>17
        <5>6. QED
          BY <4>2, <4>4, <5>1, <5>3, <5>4, <5>5 DEF EntryIn, e
      <4>5. QED
        BY <4>3, <4>4
    <3>3. QED
      BY <3>1, <3>2
  <2>3. QED
    BY <2>1, <2>2 DEF SegmentsIn
<1>19. AllPresentIn(U, D, G, O)
  <2> SUFFICES ASSUME NEW t \in Tables, HomedIn(D, G, t) PROVE PresentIn(U, O, t)
    BY DEF AllPresentIn
  <2>1. CASE t = new
    BY <1>4, <2>1 DEF PresentIn
  <2>2. CASE t # new
    <3>1. HomedIn(C, E, t)
      BY <1>6, <1>10, <2>2 DEF HomedIn
    <3>2. PresentIn(T, O, t) /\ U[t] = T[t]
      BY <1>1, <1>4, <2>2, <3>1 DEF AllPresentIn
    <3>3. QED
      BY <3>2 DEF PresentIn, HeadOf, At
  <2>3. QED
    BY <2>1, <2>2
<1>20. AllRowsKeptIn(U, R, last)
  <2> SUFFICES ASSUME NEW t \in Tables, U[t] # None PROVE RowsKeptIn(U, R, last, t)
    BY DEF AllRowsKeptIn
  <2>1. CASE t = new
    <3>1. \A s \in 0..HeadOf(U, t) : s = 0
      BY <1>4, <2>1
    <3>2. QED
      BY <1>4, <2>1, <3>1 DEF RowsKeptIn
  <2>2. CASE t # new
    BY <1>1, <1>4, <2>2, RowsKeptSame DEF AllRowsKeptIn
  <2>3. QED
    BY <2>1, <2>2
<1>22. QED
  BY <1>4, <1>5, <1>11, <1>12, <1>14, <1>18, <1>19, <1>20 DEF WorldIn, new

(* Vacuum, which has not seen it. *)
LEMMA MadeScan ==
    ASSUME NEW T, NEW C, NEW F, NEW E, NEW lastT \in Nat, NEW last, TablesIn(T), RootsIn(C, F, E),
           lastT < MaxTable, NEW segs \in SUBSET Objects, NEW pc, NEW w \in Scans,
           ScanIn(T, C, E, pc, w, lastT, last),
           NEW D, NEW G, MadeRoots(T, C, F, E, D, G, lastT + 1, segs),
           NEW U, U = Made(T, lastT + 1, segs)
    PROVE  ScanIn(U, D, G, pc, w, lastT + 1, last)
<1> DEFINE new == lastT + 1
<1>1. new \in Tables /\ new \in Nat /\ new > lastT
  BY BoundsAssumption DEF Tables
<1>2. MadeRoots(T, C, F, E, D, G, new, segs) /\ U = Made(T, new, segs)
  OBVIOUS
<1>3. /\ w.seg \in Nat /\ w.table \in Nat /\ w.roots \subseteq Tables
      /\ \A t \in Tables : w.floors[t] \in Nat
  BY ScanFacts
<1>4. w.table <= lastT /\ w.seg <= last
  BY DEF ScanIn
<1>5. w.table <= new /\ new > w.table
  BY <1>1, <1>3, <1>4
<1> HIDE DEF new
<1>6. /\ TablesIn(U) /\ U[new] # None /\ U[new].floor = 0 /\ HeadOf(U, new) = 0
      /\ At(U, new, 0) = segs /\ \A u \in Tables : u # new => U[u] = T[u]
  BY <1>1, <1>2, MadeTables
<1>7. /\ BasePlaces(C, E, D, G, new, segs) /\ ForkPlaces(T, C, F, E, D, G, new, segs)
  BY <1>1, <1>2, MadePlaces
<1>8. \A n \in Names : D[n] = C[n] \/ D[n] = new
  BY <1>7 DEF BasePlaces
<1>9. \A f \in ForkNames, n \in Names : G[f][n] = E[f][n] \/ (G[f][n] # None /\ G[f][n].table = new)
  BY <1>7 DEF ForkPlaces, MadeEntry
<1>10. ASSUME pc = "delete"
       PROVE  /\ \A t \in w.roots : t <= w.table
              /\ \A f \in ForkNames, n \in Names : G[f][n] # None => G[f][n].table \notin w.roots
              /\ \A t \in Tables : U[t] # None => ScannedIn(U, w, t)
              /\ \A t \in Tables : t > w.table => w.floors[t] = 0
  <2>1. /\ \A t \in w.roots : t <= w.table
        /\ \A f \in ForkNames, n \in Names : E[f][n] # None => E[f][n].table \notin w.roots
        /\ \A t \in Tables : T[t] # None => ScannedIn(T, w, t)
        /\ \A t \in Tables : t > w.table => w.floors[t] = 0
    BY <1>10 DEF ScanIn
  <2>2. new \notin w.roots
    BY <1>1, <1>3, <1>5, <2>1
  <2>3. ScannedIn(U, w, new)
    <3>1. w.floors[new] = 0
      BY <1>1, <1>5, <2>1
    <3>2. w.floors[new] <= U[new].floor
      BY <1>6, <3>1
    <3>3. QED
      BY <2>2, <3>2 DEF ScannedIn
  <2>4. \A t \in Tables : U[t] # None => ScannedIn(U, w, t)
    <3> SUFFICES ASSUME NEW t \in Tables, U[t] # None PROVE ScannedIn(U, w, t)
      OBVIOUS
    <3>1. CASE t = new
      BY <2>3, <3>1
    <3>2. CASE t # new
      <4>1. U[t] = T[t] /\ ScannedIn(T, w, t)
        BY <1>6, <2>1, <3>2
      <4>2. QED
        BY <4>1 DEF ScannedIn, HeadOf, At
    <3>3. QED
      BY <3>1, <3>2
  <2>5. QED
    BY <1>9, <2>1, <2>2, <2>4
<1>11. pc # "idle" => \A n \in Names : D[n] # None => D[n] > w.table \/ D[n] \in w.roots
  BY <1>5, <1>8 DEF ScanIn
<1>12. pc = "sweep" => \A f \in ForkNames, n \in Names : G[f][n] # None =>
          G[f][n].table > w.table \/ G[f][n].table \in w.roots
  BY <1>5, <1>9 DEF ScanIn
<1>13. QED
  BY <1>4, <1>5, <1>10, <1>11, <1>12 DEF ScanIn, new

(* Every step that makes a directory. *)
LEMMA MakeHolds ==
    ASSUME IInv, NEW segs \in SUBSET Objects, segs \subseteq objects, \A o \in segs : o[2] <= lastSeg,
           Make(NewTable(segs)), forks' = forks,
           MadeRoots(tables, catalog, forks, entries, catalog', entries', lastTable + 1, segs)
    PROVE  HoldsAfter
<1>1. /\ TablesIn(tables) /\ RootsIn(catalog, forks, entries) /\ lastTable \in Nat
      /\ WorldIn(tables, catalog, forks, entries, objects, rows, lastTable, lastSeg)
      /\ ScanIn(tables, catalog, entries, vpc, vscan, lastTable, lastSeg)
      /\ objects \subseteq Objects /\ rows \in [Segs -> SUBSET Segs] /\ vscan \in Scans /\ VacuumOK
  BY Facts
<1>2. /\ lastTable < MaxTable /\ lastTable' = lastTable + 1
      /\ tables' = Made(tables, lastTable + 1, segs)
      /\ UNCHANGED <<objects, rows, lastSeg, vpc, vscan>>
  BY DEF Make, Made, vacuumVars
<1>3. /\ TablesIn(tables') /\ RootsIn(catalog', forks, entries')
      /\ WorldIn(tables', catalog', forks, entries', objects, rows, lastTable + 1, lastSeg)
  BY <1>1, <1>2, MadeWorld
<1>4. ScanIn(tables', catalog', entries', vpc, vscan, lastTable + 1, lastSeg)
  BY <1>1, <1>2, MadeScan
<1>5. VacuumOK'
  BY <1>1, <1>2 DEF VacuumOK
<1>6. QED
  BY <1>1, <1>2, <1>3, <1>4, <1>5 DEF HoldsAfter

(* The pin a shadow is cut from. *)
LEMMA ShadowFacts ==
    ASSUME IInv, NEW f \in ForkNames, NEW n \in Names, Inherits(f, n)
    PROVE  LET p == PinNamed(f, n)
           IN  /\ forks[f] # None /\ p \in forks[f].pins /\ entries[f][n] = None
               /\ p.table \in Tables /\ p.seq \in 0..MaxSeq
               /\ Shadow(f, n) = NewTable(At(tables, p.table, p.seq))
               /\ At(tables, p.table, p.seq) \in SUBSET Objects
               /\ At(tables, p.table, p.seq) \subseteq objects
               /\ \A o \in At(tables, p.table, p.seq) : o[2] <= lastSeg
<1> DEFINE p == PinNamed(f, n)
<1>1. /\ TablesIn(tables) /\ RootsIn(catalog, forks, entries)
      /\ HomesIn(tables, catalog, forks, entries, lastTable) /\ PinsIn(tables, catalog, forks, entries)
      /\ AllPresentIn(tables, catalog, entries, objects) /\ AllRowsKeptIn(tables, rows, lastSeg)
  BY Facts
<1>2. forks[f] # None /\ entries[f][n] = None /\ Visible(f, n) # None
  BY DEF Inherits
<1>3. f # None
  BY NoneAssumption
<1>4. \E q \in forks[f].pins : q.name = n
  BY <1>2, <1>3 DEF Visible
<1>5. p \in forks[f].pins
  BY <1>4 DEF PinNamed
<1>6. Shadow(f, n) = NewTable(At(tables, p.table, p.seq))
  BY DEF Shadow, Version, At
<1> HIDE DEF p
<1>7. /\ p.table \in Tables /\ p.seq \in 0..MaxSeq /\ tables[p.table] # None
      /\ HomedIn(catalog, entries, p.table)
      /\ p.seq \in 0..HeadOf(tables, p.table)
      /\ p.seq \in tables[p.table].floor..HeadOf(tables, p.table)
  BY <1>1, <1>2, <1>5, PinFacts
<1>8. At(tables, p.table, p.seq) \in SUBSET Objects
  BY <1>1, <1>7, TableFacts
<1>9. At(tables, p.table, p.seq) \subseteq objects
  BY <1>1, <1>7 DEF AllPresentIn, PresentIn
<1>10. \A o \in At(tables, p.table, p.seq) : o[2] <= lastSeg
  BY <1>1, <1>7 DEF AllRowsKeptIn, RowsKeptIn
<1>11. QED
  BY <1>2, <1>5, <1>6, <1>7, <1>8, <1>9, <1>10 DEF p

(* create_table on the base. *)
LEMMA CreateTableHolds ==
    ASSUME IInv, NEW n \in Names, CreateTable(n) PROVE HoldsAfter
<1>1. /\ Make(NewTable({})) /\ forks' = forks /\ entries' = entries /\ catalog[n] = None
      /\ catalog' = [catalog EXCEPT ![n] = lastTable + 1]
  BY DEF CreateTable
<1>2. MadeRoots(tables, catalog, forks, entries, catalog', entries', lastTable + 1, {})
  BY <1>1 DEF MadeRoots, MadeBase
<1>3. {} \in SUBSET Objects /\ {} \subseteq objects /\ \A o \in {} : o[2] <= lastSeg
  OBVIOUS
<1>4. QED
  BY <1>1, <1>2, <1>3, MakeHolds

(* create_table in a fork. *)
LEMMA CreateForkTableHolds ==
    ASSUME IInv, NEW f \in ForkNames, NEW n \in Names, CreateForkTable(f, n) PROVE HoldsAfter
<1> DEFINE e == [table |-> lastTable + 1, origin |-> None, size |-> EntrySize(None)]
<1>1. /\ Make(NewTable({})) /\ forks' = forks /\ catalog' = catalog /\ forks[f] # None
      /\ Visible(f, n) = None /\ Register(f, n, None) /\ lastTable < MaxTable
  BY DEF CreateForkTable, Make
<1>2. lastTable \in Nat /\ ops \in Nat /\ RootsIn(catalog, forks, entries)
  BY Facts
<1>3. entries[f][n] = None
  <2>1. ASSUME entries[f][n] # None PROVE FALSE
    <3>1. Visible(f, n) = entries[f][n].table
      BY <2>1, NoneAssumption DEF Visible
    <3>2. entries[f][n].table \in Tables
      BY <1>2, <2>1, EntryFacts
    <3>3. QED
      BY <1>1, <3>1, <3>2, TablesNat
  <2>2. QED
    BY <2>1
<1>4. lastTable + 1 \in Tables /\ EntrySize(None) \in Nat
  BY <1>1, <1>2, BoundsAssumption DEF Tables, EntrySize
<1>5. e \in Entries
  BY <1>4 DEF Entries
<1>6. e # None /\ e.table = lastTable + 1 /\ e.origin = None
  BY <1>5, NoneAssumption
<1>7. entries' = [entries EXCEPT ![f][n] = e]
  BY <1>1 DEF Register
<1> HIDE DEF e
<1>8. MadeEntry(tables, forks[f], e, lastTable + 1, {})
  BY <1>5, <1>6 DEF MadeEntry
<1>9. MadeFork(tables, catalog, forks, entries, catalog', entries', lastTable + 1, {})
  BY <1>1, <1>3, <1>5, <1>7, <1>8 DEF MadeFork
<1>10. {} \in SUBSET Objects /\ {} \subseteq objects /\ \A o \in {} : o[2] <= lastSeg
  OBVIOUS
<1>11. QED
  BY <1>1, <1>9, <1>10, MakeHolds DEF MadeRoots

(* The first write to a pinned name. *)
LEMMA MaterializeShadowHolds ==
    ASSUME IInv, NEW f \in ForkNames, NEW n \in Names, MaterializeShadow(f, n) PROVE HoldsAfter
<1> DEFINE p == PinNamed(f, n)
           o == [table |-> p.table, seq |-> p.seq]
           e == [table |-> lastTable + 1, origin |-> o, size |-> EntrySize(o)]
           segs == At(tables, p.table, p.seq)
<1>1. /\ Inherits(f, n) /\ Make(Shadow(f, n)) /\ forks' = forks /\ catalog' = catalog
      /\ Register(f, n, o) /\ lastTable < MaxTable
  BY DEF MaterializeShadow, Make
<1>2. /\ forks[f] # None /\ p \in forks[f].pins /\ entries[f][n] = None
      /\ p.table \in Tables /\ p.seq \in 0..MaxSeq
      /\ Shadow(f, n) = NewTable(segs) /\ segs \in SUBSET Objects
      /\ segs \subseteq objects /\ \A s \in segs : s[2] <= lastSeg
  BY <1>1, ShadowFacts
<1>3. lastTable \in Nat /\ ops \in Nat
  BY Facts
<1>4. lastTable + 1 \in Tables /\ EntrySize(o) \in Nat
  BY <1>1, <1>3, BoundsAssumption DEF Tables, EntrySize
<1> HIDE DEF p
<1>5. o \in Origins /\ o.table = p.table /\ o.seq = p.seq
  BY <1>2 DEF Origins
<1>6. o # None
  BY <1>5, NoneAssumption
<1> HIDE DEF o
<1>7. e \in Entries /\ e.table = lastTable + 1 /\ e.origin = o
  BY <1>4, <1>5 DEF Entries
<1>8. e # None
  BY <1>7, NoneAssumption
<1>9. entries' = [entries EXCEPT ![f][n] = e]
  BY <1>1 DEF Register
<1> HIDE DEF e, segs
<1>10. MadeEntry(tables, forks[f], e, lastTable + 1, segs)
  BY <1>2, <1>5, <1>6, <1>7, <1>8 DEF MadeEntry, segs
<1>11. MadeFork(tables, catalog, forks, entries, catalog', entries', lastTable + 1, segs)
  BY <1>1, <1>2, <1>7, <1>9, <1>10 DEF MadeFork
<1>12. QED
  BY <1>1, <1>2, <1>11, MakeHolds DEF MadeRoots

(* A directory a crash leaves without a name. *)
LEMMA CreateCrashHolds ==
    ASSUME IInv, NEW f \in ForkNames, NEW n \in Names, CreateCrash(f, n) PROVE HoldsAfter
<1>1. /\ UNCHANGED <<catalog, forks, entries>>
      /\ (Inherits(f, n) /\ Make(Shadow(f, n))) \/ Make(NewTable({}))
  BY DEF CreateCrash, rootVars
<1>2. \A segs : MadeRoots(tables, catalog, forks, entries, catalog', entries', lastTable + 1, segs)
  BY <1>1 DEF MadeRoots
<1>3. CASE Make(NewTable({}))
  <2>1. {} \in SUBSET Objects /\ {} \subseteq objects /\ \A o \in {} : o[2] <= lastSeg
    OBVIOUS
  <2>2. QED
    BY <1>1, <1>2, <1>3, <2>1, MakeHolds
<1>4. CASE Inherits(f, n) /\ Make(Shadow(f, n))
  <2> DEFINE segs == At(tables, PinNamed(f, n).table, PinNamed(f, n).seq)
  <2>1. /\ Shadow(f, n) = NewTable(segs) /\ segs \in SUBSET Objects
        /\ segs \subseteq objects /\ \A s \in segs : s[2] <= lastSeg
    BY <1>4, ShadowFacts
  <2> HIDE DEF segs
  <2>2. QED
    BY <1>1, <1>2, <1>4, <2>1, MakeHolds
<1>5. QED
  BY <1>1, <1>3, <1>4

-----------------------------------------------------------------------------
(***************************************************************************)
(* Names that move and forks that are cut: the store stays as it is.       *)
(***************************************************************************)

(* The tables that are registered stay so, under other names or by other forks. *)
LEMMA MovedWorld ==
    ASSUME NEW T, NEW C, NEW F, NEW E, NEW O, NEW R, NEW lastT, NEW last, NEW D, NEW G,
           TablesIn(T), RootsIn(C, F, E), WorldIn(T, C, F, E, O, R, lastT, last),
           OneHomeIn(D, G), HomesIn(T, D, F, G, lastT),
           \A t \in Tables : HomedIn(D, G, t) <=> HomedIn(C, E, t), SegmentsIn(T, D, F, G),
           \A f \in ForkNames, n \in Names : F[f] # None /\ G[f][n] # None =>
              \A p \in F[f].pins : G[f][n].table # p.table
    PROVE  WorldIn(T, D, F, G, O, R, lastT, last)
<1>1. /\ PinsIn(T, C, F, E) /\ AllPresentIn(T, C, E, O) /\ AllRowsKeptIn(T, R, last)
      /\ HomesIn(T, C, F, E, lastT)
  BY DEF WorldIn
<1>2. PinsIn(T, D, F, G)
  <2> SUFFICES ASSUME NEW f \in ForkNames, F[f] # None, NEW p \in F[f].pins
               PROVE  PinIn(T, D, G, f, p)
    BY DEF PinsIn
  <2>1. p.table \in Tables /\ PinIn(T, C, E, f, p)
    BY <1>1, PinFacts
  <2>2. QED
    BY <2>1 DEF PinIn
<1>3. AllPresentIn(T, D, G, O)
  BY <1>1 DEF AllPresentIn
<1>4. QED
  BY <1>1, <1>2, <1>3 DEF WorldIn

(* rename_table. *)
LEMMA RenameTableHolds ==
    ASSUME IInv, "crash_in_move" \notin Allowed, NEW n \in Names, NEW m \in Names, RenameTable(n, m)
    PROVE  HoldsAfter
<1>1. /\ TablesIn(tables) /\ RootsIn(catalog, forks, entries)
      /\ WorldIn(tables, catalog, forks, entries, objects, rows, lastTable, lastSeg)
      /\ OneHomeIn(catalog, entries) /\ HomesIn(tables, catalog, forks, entries, lastTable)
      /\ PinsIn(tables, catalog, forks, entries) /\ SegmentsIn(tables, catalog, forks, entries)
      /\ ScanIn(tables, catalog, entries, vpc, vscan, lastTable, lastSeg)
      /\ objects \subseteq Objects /\ rows \in [Segs -> SUBSET Segs] /\ VacuumOK
  BY Facts
<1>2. /\ catalog[n] # None /\ catalog[m] = None
      /\ catalog' = [catalog EXCEPT ![m] = catalog[n], ![n] = None]
      /\ UNCHANGED <<tables, objects, rows, forks, entries, lastTable, lastSeg, vpc, vscan>>
  BY DEF RenameTable, storeVars, vacuumVars
<1>3. catalog \in [Names -> Tables \cup {None}]
  BY <1>1 DEF RootsIn
<1>4. n # m
  BY <1>2
<1>5. /\ catalog' \in [Names -> Tables \cup {None}] /\ catalog'[m] = catalog[n] /\ catalog'[n] = None
      /\ \A k \in Names : k # m /\ k # n => catalog'[k] = catalog[k]
  BY <1>2, <1>3, <1>4
<1>6. RootsIn(catalog', forks, entries)
  BY <1>1, <1>5 DEF RootsIn
<1>7. \A k \in Names : catalog'[k] # None =>
         \E l \in Names : catalog'[k] = catalog[l] /\ catalog[l] # None
  BY <1>2, <1>5
<1>8. OneHomeIn(catalog', entries)
  <2>1. \A k, l \in Names : catalog'[k] # None /\ catalog'[k] = catalog'[l] => k = l
    BY <1>1, <1>2, <1>5 DEF OneHomeIn
  <2>2. \A f \in ForkNames, k, l \in Names : entries[f][k] # None => catalog'[l] # entries[f][k].table
    <3> SUFFICES ASSUME NEW f \in ForkNames, NEW k \in Names, NEW l \in Names, entries[f][k] # None
                 PROVE  catalog'[l] # entries[f][k].table
      OBVIOUS
    <3>1. entries[f][k].table \in Tables
      BY <1>1, EntryFacts
    <3>2. entries[f][k].table # None /\ \A i \in Names : catalog[i] # entries[f][k].table
      BY <1>1, <3>1, TablesNat DEF OneHomeIn
    <3>3. QED
      BY <1>7, <3>2
  <2>3. QED
    BY <1>1, <2>1, <2>2 DEF OneHomeIn
<1>9. HomesIn(tables, catalog', forks, entries, lastTable)
  BY <1>1, <1>7 DEF HomesIn
<1>10. SegmentsIn(tables, catalog', forks, entries)
  BY <1>1, <1>7 DEF SegmentsIn
<1>11. \A t \in Tables : (\E k \in Names : catalog'[k] = t) <=> \E k \in Names : catalog[k] = t
  BY <1>2, <1>5, TablesNat
<1>12. \A t \in Tables : HomedIn(catalog', entries, t) <=> HomedIn(catalog, entries, t)
  BY <1>11 DEF HomedIn
<1>13. \A f \in ForkNames, k \in Names : forks[f] # None /\ entries[f][k] # None =>
          \A p \in forks[f].pins : entries[f][k].table # p.table
  BY <1>1 DEF PinsIn, PinIn
<1>14. WorldIn(tables, catalog', forks, entries, objects, rows, lastTable, lastSeg)
  BY <1>1, <1>8, <1>9, <1>10, <1>12, <1>13, MovedWorld
<1>15. ScanIn(tables, catalog', entries, vpc, vscan, lastTable, lastSeg)
  BY <1>1, <1>7 DEF ScanIn
<1>16. VacuumOK'
  BY <1>1, <1>2 DEF VacuumOK
<1>17. QED
  BY <1>1, <1>2, <1>6, <1>14, <1>15, <1>16 DEF HoldsAfter

(* Vacuum at rest knows nothing. *)
LEMMA IdleScan ==
    ASSUME NEW T, NEW C, NEW E, NEW w, NEW lastT, NEW last, NEW U, NEW D, NEW G,
           ScanIn(T, C, E, "idle", w, lastT, last)
    PROVE  ScanIn(U, D, G, "idle", w, lastT, last)
BY DEF ScanIn

(* promote of a table the fork created, into the base. *)
LEMMA PromoteBaseHolds ==
    ASSUME IInv, NEW f \in ForkNames, NEW n \in Names, forks[f] # None, entries[f][n] # None,
           entries[f][n].origin = None, vpc = "idle", catalog[n] = None,
           catalog' = [catalog EXCEPT ![n] = entries[f][n].table],
           entries' = [entries EXCEPT ![f][n] = None],
           UNCHANGED <<tables, objects, rows, forks, lastTable, lastSeg, vpc, vscan>>
    PROVE  HoldsAfter
<1> DEFINE e == entries[f][n]
<1>1. /\ TablesIn(tables) /\ RootsIn(catalog, forks, entries)
      /\ WorldIn(tables, catalog, forks, entries, objects, rows, lastTable, lastSeg)
      /\ OneHomeIn(catalog, entries) /\ HomesIn(tables, catalog, forks, entries, lastTable)
      /\ PinsIn(tables, catalog, forks, entries) /\ SegmentsIn(tables, catalog, forks, entries)
      /\ ScanIn(tables, catalog, entries, vpc, vscan, lastTable, lastSeg)
      /\ objects \subseteq Objects /\ rows \in [Segs -> SUBSET Segs] /\ VacuumOK
  BY Facts
<1>2. catalog \in [Names -> Tables \cup {None}] /\ entries \in [ForkNames -> [Names -> Entries \cup {None}]]
  BY <1>1 DEF RootsIn
<1>3. e.table \in Tables /\ e.table # None
  BY <1>1, EntryFacts, TablesNat
<1>4. /\ catalog' \in [Names -> Tables \cup {None}] /\ catalog'[n] = e.table
      /\ \A k \in Names : k # n => catalog'[k] = catalog[k]
  BY <1>2, <1>3
<1>5. /\ entries' \in [ForkNames -> [Names -> Entries \cup {None}]] /\ entries'[f][n] = None
      /\ \A g \in ForkNames, k \in Names : g # f \/ k # n => entries'[g][k] = entries[g][k]
  BY <1>2
<1>6. \A g \in ForkNames, k \in Names : entries'[g][k] # None =>
         entries'[g][k] = entries[g][k] /\ (g # f \/ k # n)
  BY <1>5
<1>7. RootsIn(catalog', forks, entries')
  BY <1>1, <1>4, <1>5 DEF RootsIn
<1>8. OneHomeIn(catalog', entries')
  <2>1. \A k, l \in Names : catalog'[k] # None /\ catalog'[k] = catalog'[l] => k = l
    BY <1>1, <1>4 DEF OneHomeIn
  <2>2. \A g, h \in ForkNames, k, l \in Names :
           entries'[g][k] # None /\ entries'[h][l] # None /\ entries'[g][k].table = entries'[h][l].table
             => g = h /\ k = l
    BY <1>1, <1>6 DEF OneHomeIn
  <2>3. ASSUME NEW g \in ForkNames, NEW k \in Names, NEW l \in Names, entries'[g][k] # None
        PROVE  catalog'[l] # entries'[g][k].table
    <3>1. entries'[g][k] = entries[g][k] /\ (g # f \/ k # n)
      BY <1>6, <2>3
    <3>2. CASE l = n
      BY <1>1, <1>4, <2>3, <3>1, <3>2 DEF OneHomeIn
    <3>3. CASE l # n
      BY <1>1, <1>4, <2>3, <3>1, <3>3 DEF OneHomeIn
    <3>4. QED
      BY <3>2, <3>3
  <2>4. QED
    BY <2>1, <2>2, <2>3 DEF OneHomeIn
<1>9. HomesIn(tables, catalog', forks, entries', lastTable)
  <2>1. \A k \in Names : catalog'[k] # None =>
           catalog'[k] <= lastTable /\ tables[catalog'[k]] # None
    BY <1>1, <1>4 DEF HomesIn
  <2>2. QED
    BY <1>1, <1>6, <2>1 DEF HomesIn
<1>10. SegmentsIn(tables, catalog', forks, entries')
  <2>1. InsideIn(tables, e.table, {})
    BY <1>1 DEF SegmentsIn, EntryIn
  <2>2. \A k \in Names : catalog'[k] # None => InsideIn(tables, catalog'[k], {})
    BY <1>1, <1>4, <2>1 DEF SegmentsIn
  <2>3. QED
    BY <1>1, <1>6, <2>2 DEF SegmentsIn
<1>11. \A t \in Tables : HomedIn(catalog', entries', t) <=> HomedIn(catalog, entries, t)
  <2>1. ASSUME NEW t \in Tables, HomedIn(catalog', entries', t) PROVE HomedIn(catalog, entries, t)
    BY <1>4, <1>6, <2>1 DEF HomedIn
  <2>2. ASSUME NEW t \in Tables, HomedIn(catalog, entries, t) PROVE HomedIn(catalog', entries', t)
    <3>1. CASE \E k \in Names : catalog[k] = t
      <4>1. PICK k \in Names : catalog[k] = t
        BY <3>1
      <4>2. k # n
        BY <4>1, TablesNat
      <4>3. QED
        BY <1>4, <4>1, <4>2 DEF HomedIn
    <3>2. CASE \E g \in ForkNames, k \in Names : entries[g][k] # None /\ entries[g][k].table = t
      <4>1. PICK g \in ForkNames, k \in Names : entries[g][k] # None /\ entries[g][k].table = t
        BY <3>2
      <4>2. CASE g = f /\ k = n
        BY <1>4, <4>1, <4>2 DEF HomedIn
      <4>3. CASE g # f \/ k # n
        BY <1>5, <4>1, <4>3 DEF HomedIn
      <4>4. QED
        BY <4>2, <4>3
    <3>3. QED
      BY <2>2, <3>1, <3>2 DEF HomedIn
  <2>3. QED
    BY <2>1, <2>2
<1>12. \A g \in ForkNames, k \in Names : forks[g] # None /\ entries'[g][k] # None =>
          \A p \in forks[g].pins : entries'[g][k].table # p.table
  BY <1>1, <1>6 DEF PinsIn, PinIn
<1>13. WorldIn(tables, catalog', forks, entries', objects, rows, lastTable, lastSeg)
  BY <1>1, <1>8, <1>9, <1>10, <1>11, <1>12, MovedWorld
<1>14. ScanIn(tables, catalog', entries', vpc, vscan, lastTable, lastSeg)
  BY <1>1, IdleScan
<1>15. VacuumOK'
  BY <1>1 DEF VacuumOK
<1>16. QED
  BY <1>1, <1>7, <1>13, <1>14, <1>15 DEF HoldsAfter

(* Into the parent fork, which is there and does not pin the table. *)
MovedTo(E, f, h, n, x) == [[E EXCEPT ![h][n] = x] EXCEPT ![f][n] = None]

(* Nothing else moves. *)
LEMMA MovedEntries ==
    ASSUME NEW E \in [ForkNames -> [Names -> Entries \cup {None}]], NEW f \in ForkNames,
           NEW h \in ForkNames, NEW n \in Names, NEW x \in Entries, h # f,
           NEW G, G = MovedTo(E, f, h, n, x)
    PROVE  /\ G \in [ForkNames -> [Names -> Entries \cup {None}]] /\ G[f][n] = None
           /\ G[h][n] = x
           /\ \A g \in ForkNames, k \in Names :
                 (g # f \/ k # n) /\ (g # h \/ k # n) => G[g][k] = E[g][k]
<1> DEFINE moved == [E EXCEPT ![h][n] = x]
<1>1. /\ moved \in [ForkNames -> [Names -> Entries \cup {None}]] /\ moved[h][n] = x
      /\ \A g \in ForkNames, k \in Names : g # h \/ k # n => moved[g][k] = E[g][k]
  OBVIOUS
<1>2. G = [moved EXCEPT ![f][n] = None]
  BY DEF MovedTo
<1> HIDE DEF moved
<1>3. /\ G \in [ForkNames -> [Names -> Entries \cup {None}]] /\ G[f][n] = None
      /\ \A g \in ForkNames, k \in Names : g # f \/ k # n => G[g][k] = moved[g][k]
  BY <1>1, <1>2
<1>4. QED
  BY <1>1, <1>3

(* The world then. *)
LEMMA PromoteParentHolds ==
    ASSUME IInv, NEW f \in ForkNames, NEW n \in Names, NEW h \in ForkNames, NEW x \in Entries,
           forks[f] # None, entries[f][n] # None,
           entries[f][n].origin = None, vpc = "idle", entries[h][n] = None, Stands(h, x.table),
           x.table = entries[f][n].table, x.origin = None,
           entries' = MovedTo(entries, f, h, n, x),
           UNCHANGED <<tables, objects, rows, catalog, forks, lastTable, lastSeg, vpc, vscan>>
    PROVE  HoldsAfter
<1> DEFINE e == entries[f][n]
<1>1. /\ TablesIn(tables) /\ RootsIn(catalog, forks, entries)
      /\ WorldIn(tables, catalog, forks, entries, objects, rows, lastTable, lastSeg)
      /\ OneHomeIn(catalog, entries) /\ HomesIn(tables, catalog, forks, entries, lastTable)
      /\ PinsIn(tables, catalog, forks, entries) /\ SegmentsIn(tables, catalog, forks, entries)
      /\ ScanIn(tables, catalog, entries, vpc, vscan, lastTable, lastSeg)
      /\ objects \subseteq Objects /\ rows \in [Segs -> SUBSET Segs] /\ VacuumOK
  BY Facts
<1>2. entries \in [ForkNames -> [Names -> Entries \cup {None}]]
  BY <1>1 DEF RootsIn
<1>3. x # None /\ h # f
  BY NoneAssumption
<1>4. /\ entries' \in [ForkNames -> [Names -> Entries \cup {None}]] /\ entries'[f][n] = None
      /\ entries'[h][n] = x
      /\ \A g \in ForkNames, k \in Names :
            (g # f \/ k # n) /\ (g # h \/ k # n) => entries'[g][k] = entries[g][k]
  BY <1>2, <1>3, MovedEntries
<1>5. \A g \in ForkNames, k \in Names : entries'[g][k] # None =>
         \/ entries'[g][k] = entries[g][k] /\ (g # f \/ k # n)
         \/ g = h /\ k = n /\ entries'[g][k] = x
  BY <1>3, <1>4
<1>6. RootsIn(catalog, forks, entries')
  BY <1>1, <1>4 DEF RootsIn
<1>7. OneHomeIn(catalog, entries')
  <2>1. ASSUME NEW g \in ForkNames, NEW i \in ForkNames, NEW k \in Names, NEW l \in Names,
               entries'[g][k] # None, entries'[i][l] # None,
               entries'[g][k].table = entries'[i][l].table
        PROVE  g = i /\ k = l
    BY <1>1, <1>5, <2>1 DEF OneHomeIn
  <2>2. \A g \in ForkNames, k, l \in Names : entries'[g][k] # None => catalog[l] # entries'[g][k].table
    BY <1>1, <1>5 DEF OneHomeIn
  <2>3. QED
    BY <1>1, <2>1, <2>2 DEF OneHomeIn
<1>8. forks[h] # None /\ \A p \in forks[h].pins : p.table # x.table
  BY DEF Stands
<1>9. HomesIn(tables, catalog, forks, entries', lastTable)
  BY <1>1, <1>5, <1>8 DEF HomesIn
<1>10. SegmentsIn(tables, catalog, forks, entries')
  <2>1. InsideIn(tables, e.table, {})
    BY <1>1 DEF SegmentsIn, EntryIn
  <2>2. EntryIn(tables, forks[h], x)
    BY <2>1 DEF EntryIn
  <2>3. QED
    BY <1>1, <1>5, <2>2 DEF SegmentsIn
<1>11. \A t \in Tables : HomedIn(catalog, entries', t) <=> HomedIn(catalog, entries, t)
  <2>1. ASSUME NEW t \in Tables, HomedIn(catalog, entries', t) PROVE HomedIn(catalog, entries, t)
    BY <1>5, <2>1 DEF HomedIn
  <2>2. ASSUME NEW t \in Tables, NEW g \in ForkNames, NEW k \in Names, entries[g][k] # None,
               entries[g][k].table = t
        PROVE  HomedIn(catalog, entries', t)
    <3>1. CASE g = f /\ k = n
      BY <1>3, <1>4, <2>2, <3>1 DEF HomedIn
    <3>2. CASE g # f \/ k # n
      <4>1. entries'[g][k] = entries[g][k]
        BY <1>4, <2>2, <3>2
      <4>2. QED
        BY <2>2, <4>1 DEF HomedIn
    <3>3. QED
      BY <3>1, <3>2
  <2>3. QED
    BY <2>1, <2>2 DEF HomedIn
<1>12. \A g \in ForkNames, k \in Names : forks[g] # None /\ entries'[g][k] # None =>
          \A p \in forks[g].pins : entries'[g][k].table # p.table
  BY <1>1, <1>5, <1>8 DEF PinsIn, PinIn
<1>13. WorldIn(tables, catalog, forks, entries', objects, rows, lastTable, lastSeg)
  BY <1>1, <1>7, <1>9, <1>10, <1>11, <1>12, MovedWorld
<1>14. ScanIn(tables, catalog, entries', vpc, vscan, lastTable, lastSeg)
  BY <1>1, IdleScan
<1>15. VacuumOK'
  BY <1>1 DEF VacuumOK
<1>16. QED
  BY <1>1, <1>6, <1>13, <1>14, <1>15 DEF HoldsAfter

(* promote of a table the fork created. *)
LEMMA PromoteCreatedHolds ==
    ASSUME IInv, Allowed = {}, NEW f \in ForkNames, NEW n \in Names, PromoteCreated(f, n)
    PROVE  HoldsAfter
<1> DEFINE e == entries[f][n]
           h == forks[f].parent
<1>1. /\ forks[f] # None /\ e # None /\ e.origin = None /\ vpc = "idle"
      /\ UNCHANGED <<tables, objects, rows, forks, lastTable, lastSeg, vpc, vscan>>
  BY DEF PromoteCreated, MayPromote, storeVars, vacuumVars
<1>2. \/ /\ catalog[n] = None
         /\ catalog' = [catalog EXCEPT ![n] = e.table]
         /\ entries' = [entries EXCEPT ![f][n] = None]
      \/ /\ h # None /\ entries[h][n] = None /\ Stands(h, e.table)
         /\ entries' = MovedTo(entries, f, h, n, e)
         /\ catalog' = catalog
  BY DEF PromoteCreated, MovedTo
<1>3. CASE catalog[n] = None /\ catalog' = [catalog EXCEPT ![n] = e.table]
           /\ entries' = [entries EXCEPT ![f][n] = None]
  BY <1>1, <1>3, PromoteBaseHolds
<1>4. CASE /\ h # None /\ entries[h][n] = None /\ Stands(h, e.table)
           /\ entries' = MovedTo(entries, f, h, n, e)
           /\ catalog' = catalog
  <2>1. RootsIn(catalog, forks, entries) /\ ops \in Nat
    BY Facts
  <2>2. forks[f] \in Forks /\ e \in Entries
    BY <1>1, <2>1, EntryFacts DEF RootsIn
  <2>3. h \in ForkNames
    BY <1>4, <2>2 DEF Forks
  <2>4. QED
    BY <1>1, <1>4, <2>2, <2>3, PromoteParentHolds
<1>5. QED
  BY <1>2, <1>3, <1>4

(* A fork more, which owns nothing yet. *)
LEMMA CutWorld ==
    ASSUME NEW T, NEW C, NEW F, NEW E, NEW O, NEW R, NEW lastT, NEW last,
           RootsIn(C, F, E), WorldIn(T, C, F, E, O, R, lastT, last),
           NEW f \in ForkNames, F[f] = None, NEW r \in Forks, NEW K, K = [F EXCEPT ![f] = r],
           \A p \in r.pins : /\ HomedIn(C, E, p.table)
                             /\ p.seq >= T[p.table].floor /\ p.seq <= HeadOf(T, p.table)
    PROVE  RootsIn(C, K, E) /\ WorldIn(T, C, K, E, O, R, lastT, last)
<1>1. /\ HomesIn(T, C, F, E, lastT) /\ PinsIn(T, C, F, E) /\ SegmentsIn(T, C, F, E)
  BY DEF WorldIn
<1>2. F \in [ForkNames -> Forks \cup {None}]
  BY DEF RootsIn
<1>3. /\ K \in [ForkNames -> Forks \cup {None}] /\ K[f] = r
      /\ \A g \in ForkNames : g # f => K[g] = F[g]
  BY <1>2
<1>4. RootsIn(C, K, E)
  BY <1>3 DEF RootsIn
<1>5. \A n \in Names : E[f][n] = None
  BY <1>1 DEF HomesIn
<1>6. \A g \in ForkNames, n \in Names : E[g][n] # None => K[g] = F[g]
  BY <1>3, <1>5
<1>7. HomesIn(T, C, K, E, lastT)
  BY <1>1, <1>6 DEF HomesIn
<1>8. SegmentsIn(T, C, K, E)
  BY <1>1, <1>6 DEF SegmentsIn
<1>9. PinsIn(T, C, K, E)
  <2> SUFFICES ASSUME NEW g \in ForkNames, K[g] # None, NEW p \in K[g].pins
               PROVE  PinIn(T, C, E, g, p)
    BY DEF PinsIn
  <2>1. CASE g = f
    BY <1>3, <1>5, <2>1 DEF PinIn
  <2>2. CASE g # f
    BY <1>1, <1>3, <2>2 DEF PinsIn
  <2>3. QED
    BY <2>1, <2>2
<1>10. QED
  BY <1>4, <1>7, <1>8, <1>9 DEF WorldIn

(* What a name resolves to is registered. *)
LEMMA VisibleFacts ==
    ASSUME IInv, NEW f, f = None \/ (f \in ForkNames /\ forks[f] # None), NEW n \in Names,
           Visible(f, n) # None
    PROVE  Visible(f, n) \in Tables /\ HomedIn(catalog, entries, Visible(f, n))
<1>1. /\ TablesIn(tables) /\ RootsIn(catalog, forks, entries)
      /\ HomesIn(tables, catalog, forks, entries, lastTable) /\ PinsIn(tables, catalog, forks, entries)
  BY Facts
<1>2. CASE f = None
  BY <1>1, <1>2 DEF Visible, RootsIn, HomedIn
<1>3. CASE f # None /\ f \in ForkNames /\ forks[f] # None /\ entries[f][n] # None
  <2>1. Visible(f, n) = entries[f][n].table
    BY <1>3 DEF Visible
  <2>2. QED
    BY <1>1, <1>3, <2>1, EntryFacts DEF HomedIn
<1>4. CASE f # None /\ f \in ForkNames /\ forks[f] # None /\ entries[f][n] = None
  <2>1. \E p \in forks[f].pins : p.name = n
    BY <1>4 DEF Visible
  <2>2. Visible(f, n) = PinNamed(f, n).table
    BY <1>4, <2>1 DEF Visible
  <2>3. PinNamed(f, n) \in forks[f].pins
    BY <2>1 DEF PinNamed
  <2>4. QED
    BY <1>1, <1>4, <2>2, <2>3, PinFacts
<1>5. QED
  BY <1>2, <1>3, <1>4

(* The version a handle reads as latest is one of the table's. *)
LEMMA EffectiveFacts ==
    ASSUME IInv, NEW f, f = None \/ (f \in ForkNames /\ forks[f] # None), NEW t \in Tables,
           tables[t] # None
    PROVE  EffectiveHead(f, t) \in 0..HeadOf(tables, t)
<1>1. /\ TablesIn(tables) /\ RootsIn(catalog, forks, entries)
      /\ HomesIn(tables, catalog, forks, entries, lastTable) /\ PinsIn(tables, catalog, forks, entries)
  BY Facts
<1>2. CASE f # None /\ \E p \in forks[f].pins : p.table = t
  <2> DEFINE p == CHOOSE q \in forks[f].pins : q.table = t
  <2>1. p \in forks[f].pins /\ p.table = t
    BY <1>2
  <2>2. EffectiveHead(f, t) = p.seq
    BY <1>2 DEF EffectiveHead
  <2> HIDE DEF p
  <2>3. QED
    BY <1>1, <1>2, <2>1, <2>2, PinFacts
<1>3. CASE ~(f # None /\ \E p \in forks[f].pins : p.table = t)
  <2>1. EffectiveHead(f, t) = HeadOf(tables, t)
    BY <1>3 DEF EffectiveHead, HeadSeq, HeadOf
  <2>2. HeadOf(tables, t) \in Nat
    BY <1>1, TableFacts
  <2>3. QED
    BY <2>1, <2>2
<1>4. QED
  BY <1>2, <1>3

(* What a new fork pins. *)
LEMMA PinSetFacts ==
    ASSUME IInv, NEW f, f = None \/ (f \in ForkNames /\ forks[f] # None), NEW back \in {0, 1},
           NEW p \in PinSet(f, back)
    PROVE  /\ p \in Pins /\ HomedIn(catalog, entries, p.table)
           /\ p.seq >= tables[p.table].floor /\ p.seq <= HeadOf(tables, p.table)
<1>1. /\ TablesIn(tables) /\ RootsIn(catalog, forks, entries)
      /\ HomesIn(tables, catalog, forks, entries, lastTable)
  BY Facts
<1>2. PICK n \in Names :
        LET t == Visible(f, n)
            s == IF back = 0 THEN HeadSeq(t) ELSE EffectiveHead(f, t) - back
        IN  /\ t # None /\ p = [table |-> t, name |-> n, seq |-> s]
            /\ back = 0 \/ s >= tables[t].floor
  BY DEF PinSet
<1> DEFINE t == Visible(f, n)
           s == IF back = 0 THEN HeadSeq(t) ELSE EffectiveHead(f, t) - back
<1>3. t # None /\ p.table = t /\ p.name = n /\ p.seq = s /\ (back = 0 \/ s >= tables[t].floor)
      /\ p = [table |-> t, name |-> n, seq |-> s]
  BY <1>2
<1>4. t \in Tables /\ HomedIn(catalog, entries, t)
  BY <1>3, VisibleFacts
<1> HIDE DEF t
<1>5. tables[t] # None
  BY <1>1, <1>4, HomedExists
<1>6. /\ HeadOf(tables, t) \in 0..MaxSeq /\ HeadOf(tables, t) \in Nat /\ tables[t].floor \in Nat
      /\ tables[t].floor <= HeadOf(tables, t)
  BY <1>1, <1>4, <1>5, TableFacts
<1>7. EffectiveHead(f, t) \in 0..HeadOf(tables, t)
  BY <1>4, <1>5, EffectiveFacts
<1>8. s >= tables[t].floor /\ s <= HeadOf(tables, t) /\ s \in 0..MaxSeq
  <2>1. CASE back = 0
    <3>1. s = HeadOf(tables, t)
      BY <2>1 DEF HeadSeq, HeadOf
    <3>2. QED
      BY <1>6, <3>1
  <2>2. CASE back = 1
    <3>1. s = EffectiveHead(f, t) - 1 /\ s >= tables[t].floor
      BY <1>3, <2>2
    <3>2. QED
      BY <1>6, <1>7, <3>1, BoundsAssumption
  <2>3. QED
    BY <2>1, <2>2
<1> HIDE DEF s
<1>9. p \in Pins
  BY <1>3, <1>4, <1>8 DEF Pins
<1>10. QED
  BY <1>3, <1>4, <1>8, <1>9

(* create_fork. *)
LEMMA CreateForkHolds ==
    ASSUME IInv, NEW f \in ForkNames, NEW parent \in ForkNames \cup {None}, CreateFork(f, parent)
    PROVE  HoldsAfter
<1>1. /\ TablesIn(tables) /\ RootsIn(catalog, forks, entries) /\ ops \in Nat
      /\ WorldIn(tables, catalog, forks, entries, objects, rows, lastTable, lastSeg)
      /\ ScanIn(tables, catalog, entries, vpc, vscan, lastTable, lastSeg)
      /\ objects \subseteq Objects /\ rows \in [Segs -> SUBSET Segs] /\ VacuumOK
  BY Facts
<1>2. /\ parent = None \/ (parent \in ForkNames /\ forks[parent] # None)
      /\ UNCHANGED <<tables, objects, rows, catalog, entries, lastTable, lastSeg, vpc, vscan>>
  BY DEF CreateFork, storeVars, vacuumVars
<1>3. PICK back \in {0, 1}, size \in ForkSizes :
        forks' = [forks EXCEPT ![f] = [parent |-> parent, pins |-> PinSet(parent, back),
                                       size |-> size]]
  BY DEF CreateFork
<1> DEFINE pins == PinSet(parent, back)
           r == [parent |-> parent, pins |-> pins, size |-> size]
<1>4. \A p \in pins : /\ p \in Pins /\ HomedIn(catalog, entries, p.table)
                      /\ p.seq >= tables[p.table].floor /\ p.seq <= HeadOf(tables, p.table)
  BY <1>2, PinSetFacts
<1>5. size \in Nat
  BY BoundsAssumption DEF ForkSizes
<1>6. forks' = [forks EXCEPT ![f] = r]
  BY <1>3
<1> HIDE DEF pins
<1>7. r \in Forks /\ r.pins = pins
  BY <1>4, <1>5 DEF Forks
<1> HIDE DEF r
<1>8. forks[f] = None
  BY DEF CreateFork
<1>9. /\ RootsIn(catalog, forks', entries)
      /\ WorldIn(tables, catalog, forks', entries, objects, rows, lastTable, lastSeg)
  BY <1>1, <1>4, <1>6, <1>7, <1>8, CutWorld
<1>10. VacuumOK'
  BY <1>1, <1>2 DEF VacuumOK
<1>11. QED
  BY <1>1, <1>2, <1>9, <1>10 DEF HoldsAfter

-----------------------------------------------------------------------------
(***************************************************************************)
(* Whose objects the retained versions list.  A shadow inherits from a     *)
(* table made before it, so the chain of origins ends: every object that a *)
(* retained version of a registered table lists lies in the directory of a *)
(* registered table and is listed by a retained version of that table.     *)
(***************************************************************************)

(* A set of tables that is not empty has a least one. *)
LEMMA LeastTable ==
    ASSUME NEW B \in SUBSET Tables, B # {}
    PROVE  \E x \in B : \A y \in B : ~(y < x)
<1>1. B \subseteq Nat
  BY TablesNat
<1>2. PICK x \in B : \A y \in B : <<y, x>> \notin OpToRel(<, Nat)
  <2> HIDE DEF OpToRel
  <2>1. QED
    BY <1>1, WFMin, NatLessThanWellFounded
<1>3. \A y \in B : ~(y < x)
  BY <1>1, <1>2 DEF OpToRel
<1>4. QED
  BY <1>3

(* The objects of retained versions, and those that lie where they are listed. *)
Retained(T, t, o) == \E s \in T[t].floor..HeadOf(T, t) : o \in At(T, t, s)
OwnedAt(T, C, E, o) == o[1] \in Tables /\ HomedIn(C, E, o[1]) /\ Retained(T, o[1], o)

(* The argument. *)
LEMMA SegmentOwner ==
    ASSUME NEW T, NEW C, NEW F, NEW E, NEW last, TablesIn(T), RootsIn(C, F, E),
           HomesIn(T, C, F, E, last), PinsIn(T, C, F, E), SegmentsIn(T, C, F, E)
    PROVE  \A t \in Tables : HomedIn(C, E, t) => \A o : Retained(T, t, o) => OwnedAt(T, C, E, o)
<1> DEFINE Bad == {t \in Tables : HomedIn(C, E, t) /\ \E o : Retained(T, t, o) /\ ~OwnedAt(T, C, E, o)}
<1> SUFFICES ASSUME Bad # {} PROVE FALSE
  OBVIOUS
<1>1. PICK t \in Bad : \A y \in Bad : ~(y < t)
  BY LeastTable
<1>2. t \in Tables /\ HomedIn(C, E, t) /\ \E o : Retained(T, t, o) /\ ~OwnedAt(T, C, E, o)
  OBVIOUS
<1>3. PICK o : Retained(T, t, o) /\ ~OwnedAt(T, C, E, o)
  BY <1>2
<1>4. \A y \in Tables : HomedIn(C, E, y) /\ y < t => \A x : Retained(T, y, x) => OwnedAt(T, C, E, x)
  BY <1>1
<1> HIDE DEF Bad
<1>5. T[t] # None
  BY <1>2, HomedExists
<1>6. T[t].floor \in Nat /\ HeadOf(T, t) \in Nat
  BY <1>2, <1>5, TableFacts
<1>7. PICK s \in T[t].floor..HeadOf(T, t) : o \in At(T, t, s)
  BY <1>3 DEF Retained
<1>8. s \in 0..HeadOf(T, t)
  BY <1>6
<1>9. o[1] # t
  BY <1>2, <1>3 DEF OwnedAt
<1>10. \A segs : InsideIn(T, t, segs) => o \in segs
  BY <1>7, <1>8, <1>9 DEF InsideIn, Own
<1>11. CASE \E n \in Names : C[n] = t
  <2>1. InsideIn(T, t, {})
    BY <1>2, <1>11, TablesNat DEF SegmentsIn
  <2>2. QED
    BY <1>10, <2>1
<1>12. CASE \E f \in ForkNames, n \in Names : E[f][n] # None /\ E[f][n].table = t
  <2>1. PICK f \in ForkNames, n \in Names : E[f][n] # None /\ E[f][n].table = t
    BY <1>12
  <2>2. CASE E[f][n].origin = None
    <3>1. InsideIn(T, t, {})
      BY <2>1, <2>2 DEF SegmentsIn, EntryIn
    <3>2. QED
      BY <1>10, <3>1
  <2>3. CASE E[f][n].origin # None
    <3> DEFINE u == E[f][n].origin.table
               q == E[f][n].origin.seq
    <3>1. /\ u \in Tables /\ HomedIn(C, E, u) /\ q \in T[u].floor..HeadOf(T, u)
          /\ InsideIn(T, t, At(T, u, q)) /\ u < t
      BY <2>1, <2>3, OriginFacts
    <3>2. o \in At(T, u, q)
      BY <1>10, <3>1
    <3>3. Retained(T, u, o)
      BY <3>1, <3>2 DEF Retained
    <3>4. QED
      BY <1>3, <1>4, <3>1, <3>3
  <2>4. QED
    BY <2>2, <2>3
<1>13. QED
  BY <1>2, <1>11, <1>12 DEF HomedIn

-----------------------------------------------------------------------------
(***************************************************************************)
(* Drops and the sweep: some roots less, and directories gone that nothing *)
(* names any more.                                                         *)
(***************************************************************************)
Erased(T, gone) == [t \in Tables |-> IF t \in gone THEN None ELSE T[t]]
Fewer(C, F, E, D, K, G) ==
    /\ RootsIn(D, K, G)
    /\ \A n \in Names : D[n] # None => D[n] = C[n]
    /\ \A f \in ForkNames : K[f] # None => K[f] = F[f]
    /\ \A f \in ForkNames, n \in Names : G[f][n] # None => G[f][n] = E[f][n] /\ K[f] # None
Unnamed(D, K, G, gone) ==
    /\ \A t \in Tables : HomedIn(D, G, t) => t \notin gone
    /\ \A f \in ForkNames : K[f] # None => \A p \in K[f].pins : HomedIn(D, G, p.table)

(* The world without them. *)
LEMMA ErasedWorld ==
    ASSUME NEW T, NEW C, NEW F, NEW E, NEW O, NEW R, NEW lastT, NEW last,
           TablesIn(T), RootsIn(C, F, E), WorldIn(T, C, F, E, O, R, lastT, last),
           NEW D, NEW K, NEW G, Fewer(C, F, E, D, K, G), NEW gone, Unnamed(D, K, G, gone),
           NEW U, U = Erased(T, gone), NEW P, \A o \in O : o[1] \notin gone => o \in P
    PROVE  TablesIn(U) /\ WorldIn(U, D, K, G, P, R, lastT, last)
<1>1. /\ OneHomeIn(C, E) /\ HomesIn(T, C, F, E, lastT) /\ PinsIn(T, C, F, E)
      /\ SegmentsIn(T, C, F, E) /\ AllPresentIn(T, C, E, O) /\ AllRowsKeptIn(T, R, last)
  BY DEF WorldIn
<1>2. /\ RootsIn(D, K, G)
      /\ \A n \in Names : D[n] # None => D[n] = C[n]
      /\ \A f \in ForkNames : K[f] # None => K[f] = F[f]
      /\ \A f \in ForkNames, n \in Names : G[f][n] # None => G[f][n] = E[f][n] /\ K[f] # None
  BY DEF Fewer
<1>3. /\ \A t \in Tables : HomedIn(D, G, t) => t \notin gone
      /\ \A f \in ForkNames : K[f] # None => \A p \in K[f].pins : HomedIn(D, G, p.table)
  BY DEF Unnamed
<1>4. /\ T \in [Tables -> TableRecs \cup {None}] /\ U \in [Tables -> TableRecs \cup {None}]
      /\ \A t \in Tables : U[t] = IF t \in gone THEN None ELSE T[t]
  BY DEF Erased, TablesIn
<1>5. TablesIn(U)
  BY <1>4 DEF TablesIn
<1>6. \A t \in Tables : U[t] # None => U[t] = T[t]
  BY <1>4
<1>7. OneHomeIn(D, G)
  <2>1. \A n, m \in Names : D[n] # None /\ D[n] = D[m] => n = m
    BY <1>1, <1>2 DEF OneHomeIn
  <2>2. \A f, g \in ForkNames, n, m \in Names :
           G[f][n] # None /\ G[g][m] # None /\ G[f][n].table = G[g][m].table => f = g /\ n = m
    BY <1>1, <1>2 DEF OneHomeIn
  <2>3. ASSUME NEW f \in ForkNames, NEW n \in Names, NEW m \in Names, G[f][n] # None
        PROVE  D[m] # G[f][n].table
    <3>1. G[f][n] = E[f][n] /\ G[f][n].table \in Tables
      BY <1>2, <2>3, EntryFacts
    <3>2. C[m] # G[f][n].table /\ G[f][n].table # None
      BY <1>1, <2>3, <3>1, TablesNat DEF OneHomeIn
    <3>3. QED
      BY <1>2, <3>2
  <2>4. QED
    BY <2>1, <2>2, <2>3 DEF OneHomeIn
<1>8. \A t \in Tables : HomedIn(D, G, t) => HomedIn(C, E, t) /\ U[t] = T[t]
  <2> SUFFICES ASSUME NEW t \in Tables, HomedIn(D, G, t) PROVE HomedIn(C, E, t) /\ U[t] = T[t]
    OBVIOUS
  <2>1. HomedIn(C, E, t)
    BY <1>2, TablesNat DEF HomedIn
  <2>2. QED
    BY <1>3, <1>4, <2>1
<1>9. \A n \in Names : D[n] # None => D[n] \in Tables /\ HomedIn(D, G, D[n]) /\ U[D[n]] = T[D[n]]
  BY <1>2, <1>8 DEF HomedIn, RootsIn
<1>10. \A f \in ForkNames, n \in Names : G[f][n] # None =>
          /\ G[f][n].table \in Tables /\ HomedIn(D, G, G[f][n].table)
          /\ U[G[f][n].table] = T[G[f][n].table]
  BY <1>2, <1>8, EntryFacts DEF HomedIn
<1>11. HomesIn(T, D, K, G, lastT)
  BY <1>1, <1>2 DEF HomesIn
<1>12. HomesIn(U, D, K, G, lastT)
  <2>1. \A n \in Names : D[n] # None => D[n] <= lastT /\ U[D[n]] # None
    BY <1>9, <1>11 DEF HomesIn
  <2>2. \A f \in ForkNames, n \in Names : G[f][n] # None =>
           /\ K[f] # None /\ G[f][n].table <= lastT
           /\ U[G[f][n].table] # None /\ U[G[f][n].table].floor = 0
    BY <1>10, <1>11 DEF HomesIn
  <2>3. QED
    BY <2>1, <2>2 DEF HomesIn
<1>13. ASSUME NEW f \in ForkNames, K[f] # None, NEW p \in K[f].pins
       PROVE  /\ PinIn(T, D, G, f, p) /\ p.table \in Tables /\ U[p.table] = T[p.table]
  <2>1. F[f] # None /\ p \in F[f].pins
    BY <1>2, <1>13
  <2>2. p.table \in Tables /\ PinIn(T, C, E, f, p)
    BY <1>1, <2>1, PinFacts
  <2>3. HomedIn(D, G, p.table)
    BY <1>3, <1>13
  <2>4. QED
    BY <1>2, <1>8, <2>2, <2>3 DEF PinIn
<1>14. PinsIn(T, D, K, G)
  BY <1>13 DEF PinsIn
<1>15. PinsIn(U, D, K, G)
  BY <1>13 DEF PinsIn, PinIn, HeadOf
<1>16. SegmentsIn(T, D, K, G)
  BY <1>1, <1>2 DEF SegmentsIn
<1>17. \A t \in Tables : U[t] = T[t] =>
          HeadOf(U, t) = HeadOf(T, t) /\ \A s : At(U, t, s) = At(T, t, s)
  BY DEF HeadOf, At
<1>18. \A t \in Tables : \A x : U[t] = T[t] /\ InsideIn(T, t, x) => InsideIn(U, t, x)
  BY <1>17 DEF InsideIn
<1>19. SegmentsIn(U, D, K, G)
  <2>1. \A n \in Names : D[n] # None => InsideIn(U, D[n], {})
    BY <1>9, <1>16, <1>18 DEF SegmentsIn
  <2>2. ASSUME NEW f \in ForkNames, NEW n \in Names, G[f][n] # None
        PROVE  EntryIn(U, K[f], G[f][n])
    <3>1. EntryIn(T, K[f], G[f][n]) /\ K[f] # None
      BY <1>2, <1>16, <2>2 DEF SegmentsIn
    <3>2. \A x : InsideIn(T, G[f][n].table, x) => InsideIn(U, G[f][n].table, x)
      BY <1>10, <1>18, <2>2
    <3>3. ASSUME G[f][n].origin # None
          PROVE  At(U, G[f][n].origin.table, G[f][n].origin.seq)
                   = At(T, G[f][n].origin.table, G[f][n].origin.seq)
      <4>1. \E p \in K[f].pins : p.table = G[f][n].origin.table
        BY <3>1, <3>3 DEF EntryIn
      <4>2. QED
        BY <1>13, <1>17, <3>1, <4>1
    <3>4. QED
      BY <3>1, <3>2, <3>3, EntryStays
  <2>3. QED
    BY <2>1, <2>2 DEF SegmentsIn
<1>20. AllPresentIn(U, D, G, P)
  <2> SUFFICES ASSUME NEW t \in Tables, HomedIn(D, G, t), NEW s \in U[t].floor..HeadOf(U, t),
                      NEW o \in At(U, t, s)
               PROVE  o \in P
    BY DEF AllPresentIn, PresentIn
  <2>1. s \in T[t].floor..HeadOf(T, t) /\ o \in At(T, t, s) /\ HomedIn(C, E, t)
    BY <1>8, <1>17
  <2>2. o \in O
    BY <1>1, <2>1 DEF AllPresentIn, PresentIn
  <2>3. OwnedAt(T, D, G, o)
    BY <1>2, <1>11, <1>14, <1>16, <2>1, SegmentOwner DEF Retained
  <2>4. o[1] \notin gone
    BY <1>3, <2>3 DEF OwnedAt
  <2>5. QED
    BY <2>2, <2>4
<1>21. AllRowsKeptIn(U, R, last)
  <2> SUFFICES ASSUME NEW t \in Tables, U[t] # None PROVE RowsKeptIn(U, R, last, t)
    BY DEF AllRowsKeptIn
  <2>1. U[t] = T[t] /\ RowsKeptIn(T, R, last, t)
    BY <1>1, <1>6 DEF AllRowsKeptIn
  <2>2. QED
    BY <2>1, RowsKeptSame
<1>22. QED
  BY <1>5, <1>7, <1>12, <1>15, <1>19, <1>20, <1>21 DEF WorldIn

(* Vacuum meanwhile. *)
LEMMA ErasedScan ==
    ASSUME NEW T, NEW C, NEW F, NEW E, NEW lastT, NEW last, NEW pc, NEW w,
           ScanIn(T, C, E, pc, w, lastT, last),
           NEW D, NEW K, NEW G, Fewer(C, F, E, D, K, G), NEW gone, NEW U, U = Erased(T, gone)
    PROVE  ScanIn(U, D, G, pc, w, lastT, last)
<1>1. /\ \A n \in Names : D[n] # None => D[n] = C[n]
      /\ \A f \in ForkNames, n \in Names : G[f][n] # None => G[f][n] = E[f][n]
  BY DEF Fewer
<1>2. \A t \in Tables : U[t] # None => U[t] = T[t]
  BY DEF Erased
<1>3. \A t \in Tables : U[t] # None /\ ScannedIn(T, w, t) => ScannedIn(U, w, t)
  BY <1>2 DEF ScannedIn, HeadOf, At
<1>4. pc = "delete" => \A t \in Tables : U[t] # None => ScannedIn(U, w, t)
  BY <1>2, <1>3 DEF ScanIn
<1>5. QED
  BY <1>1, <1>4 DEF ScanIn

(* Every step that erases directories and leaves vacuum where it is. *)
LEMMA EraseHolds ==
    ASSUME IInv, NEW gone, Erase(gone),
           Fewer(catalog, forks, entries, catalog', forks', entries'),
           Unnamed(catalog', forks', entries', gone),
           UNCHANGED <<lastTable, lastSeg, vpc, vscan>>
    PROVE  HoldsAfter
<1>1. /\ TablesIn(tables) /\ RootsIn(catalog, forks, entries)
      /\ WorldIn(tables, catalog, forks, entries, objects, rows, lastTable, lastSeg)
      /\ ScanIn(tables, catalog, entries, vpc, vscan, lastTable, lastSeg)
      /\ objects \subseteq Objects /\ rows \in [Segs -> SUBSET Segs] /\ VacuumOK
  BY Facts
<1>2. /\ tables' = Erased(tables, gone) /\ objects' = {o \in objects : o[1] \notin gone}
      /\ rows' = rows
  BY DEF Erase, Erased
<1>3. objects' \subseteq Objects /\ \A o \in objects : o[1] \notin gone => o \in objects'
  BY <1>1, <1>2
<1>4. /\ TablesIn(tables')
      /\ WorldIn(tables', catalog', forks', entries', objects', rows, lastTable, lastSeg)
  BY <1>1, <1>2, <1>3, ErasedWorld
<1>5. ScanIn(tables', catalog', entries', vpc, vscan, lastTable, lastSeg)
  BY <1>1, <1>2, ErasedScan
<1>6. RootsIn(catalog', forks', entries') /\ VacuumOK'
  BY <1>1 DEF Fewer, VacuumOK
<1>7. QED
  BY <1>1, <1>2, <1>3, <1>4, <1>5, <1>6 DEF HoldsAfter

(* A pin that is there is reported. *)
LEMMA PinSeen ==
    ASSUME IInv, NEW f \in ForkNames, forks[f] # None
    PROVE  /\ f \in IndexedForkNames
           /\ \A p \in forks[f].pins : <<p.table, p.seq>> \in Refreshed[f].pins
           /\ \A p \in forks[f].pins : Pinned(p.table)
<1>1. TypeOK /\ IndexInv
  BY Facts
<1>2. f \in IndexedForkNames
  BY <1>1, RefreshedTyped, NoneAssumption DEF IndexedForkNames
<1>3. \A p \in forks[f].pins : <<p.table, p.seq>> \in Refreshed[f].pins
  BY <1>1, Reported
<1>4. \A p \in forks[f].pins : Pinned(p.table)
  <2> SUFFICES ASSUME NEW p \in forks[f].pins PROVE Pinned(p.table)
    OBVIOUS
  <2>1. <<p.table, p.seq>>[1] = p.table /\ <<p.table, p.seq>> \in Refreshed[f].pins
    BY <1>3
  <2>2. QED
    BY <1>2, <2>1 DEF Pinned
<1>5. QED
  BY <1>2, <1>3, <1>4

(* drop_table. *)
LEMMA DropTableHolds ==
    ASSUME IInv, NEW n \in Names, DropTable(n) PROVE HoldsAfter
<1> DEFINE t == catalog[n]
<1>1. /\ TablesIn(tables) /\ RootsIn(catalog, forks, entries) /\ OneHomeIn(catalog, entries)
      /\ HomesIn(tables, catalog, forks, entries, lastTable) /\ PinsIn(tables, catalog, forks, entries)
  BY Facts
<1>2. /\ t # None /\ ~Pinned(t) /\ catalog' = [catalog EXCEPT ![n] = None] /\ Erase({t})
      /\ UNCHANGED <<forks, entries, lastTable, lastSeg, vpc, vscan>>
  BY DEF DropTable, vacuumVars
<1>3. catalog \in [Names -> Tables \cup {None}]
  BY <1>1 DEF RootsIn
<1>4. /\ catalog' \in [Names -> Tables \cup {None}] /\ catalog'[n] = None
      /\ \A m \in Names : m # n => catalog'[m] = catalog[m]
  BY <1>2, <1>3
<1>5. Fewer(catalog, forks, entries, catalog', forks', entries')
  <2>1. RootsIn(catalog', forks', entries')
    BY <1>1, <1>2, <1>4 DEF RootsIn
  <2>2. \A m \in Names : catalog'[m] # None => catalog'[m] = catalog[m]
    BY <1>4
  <2>3. \A f \in ForkNames, m \in Names : entries'[f][m] # None =>
           entries'[f][m] = entries[f][m] /\ forks'[f] # None
    BY <1>1, <1>2 DEF HomesIn
  <2>4. QED
    BY <1>2, <2>1, <2>2, <2>3 DEF Fewer
<1>6. \A u \in Tables : HomedIn(catalog, entries, u) /\ u # t => HomedIn(catalog', entries', u)
  BY <1>2, <1>4 DEF HomedIn
<1>7. \A u \in Tables : HomedIn(catalog', entries', u) => u # t
  BY <1>1, <1>2, <1>4, TablesNat DEF HomedIn, OneHomeIn
<1>8. \A f \in ForkNames : forks'[f] # None => \A p \in forks'[f].pins : HomedIn(catalog', entries', p.table)
  <2> SUFFICES ASSUME NEW f \in ForkNames, forks[f] # None, NEW p \in forks[f].pins
               PROVE  HomedIn(catalog', entries', p.table)
    BY <1>2
  <2>1. p.table \in Tables /\ HomedIn(catalog, entries, p.table)
    BY <1>1, PinFacts
  <2>2. p.table # t
    BY <1>2, PinSeen
  <2>3. QED
    BY <1>6, <2>1, <2>2
<1>9. Unnamed(catalog', forks', entries', {t})
  BY <1>7, <1>8 DEF Unnamed
<1>10. QED
  BY <1>2, <1>5, <1>9, EraseHolds

(* Entries of a fork that go with their directories: one, all, or those a crash
   in between has got to.  Nothing else pins what the fork owns. *)
LEMMA DropEntriesHolds ==
    ASSUME IInv, NEW f \in ForkNames, NEW done \in SUBSET {n \in Names : entries[f][n] # None},
           NEW gone \in SUBSET {entries[f][n].table : n \in done}, Erase(gone),
           \A g \in ForkNames : forks[g] # None => \A p \in forks[g].pins : \A n \in done :
              forks'[g] # None => p.table # entries[f][n].table,
           RootsIn(catalog', forks', entries'),
           \A g \in ForkNames : forks'[g] # None => forks'[g] = forks[g],
           \A g \in ForkNames, n \in Names : entries'[g][n] # None => forks'[g] # None,
           \A g \in ForkNames, n \in Names : entries'[g][n] =
              IF g = f /\ n \in done THEN None ELSE entries[g][n],
           UNCHANGED <<catalog, lastTable, lastSeg, vpc, vscan>>
    PROVE  HoldsAfter
<1>1. /\ TablesIn(tables) /\ RootsIn(catalog, forks, entries) /\ OneHomeIn(catalog, entries)
      /\ HomesIn(tables, catalog, forks, entries, lastTable) /\ PinsIn(tables, catalog, forks, entries)
  BY Facts
<1>2. Fewer(catalog, forks, entries, catalog', forks', entries')
  BY DEF Fewer
<1>3. \A u \in Tables : HomedIn(catalog', entries', u) => u \notin gone
  <2> SUFFICES ASSUME NEW u \in Tables, HomedIn(catalog', entries', u), NEW n \in done,
                      entries[f][n].table = u
               PROVE  FALSE
    OBVIOUS
  <2>1. entries[f][n] # None /\ n \in Names
    OBVIOUS
  <2>2. \A m \in Names : catalog[m] # u
    BY <1>1, <2>1 DEF OneHomeIn
  <2>3. PICK g \in ForkNames, m \in Names : entries'[g][m] # None /\ entries'[g][m].table = u
    BY <2>2 DEF HomedIn
  <2>4. entries'[g][m] = entries[g][m] /\ ~(g = f /\ m \in done)
    BY <2>3
  <2>5. g = f /\ m = n
    BY <1>1, <2>1, <2>3, <2>4 DEF OneHomeIn
  <2>6. QED
    BY <2>4, <2>5
<1>4. \A g \in ForkNames : forks'[g] # None => \A p \in forks'[g].pins : HomedIn(catalog', entries', p.table)
  <2> SUFFICES ASSUME NEW g \in ForkNames, forks'[g] # None, NEW p \in forks'[g].pins
               PROVE  HomedIn(catalog', entries', p.table)
    OBVIOUS
  <2>1. forks[g] # None /\ p \in forks[g].pins
    OBVIOUS
  <2>2. p.table \in Tables /\ HomedIn(catalog, entries, p.table)
    BY <1>1, <2>1, PinFacts
  <2>3. CASE \E m \in Names : catalog[m] = p.table
    BY <2>3 DEF HomedIn
  <2>4. CASE \E h \in ForkNames, m \in Names : entries[h][m] # None /\ entries[h][m].table = p.table
    <3>1. PICK h \in ForkNames, m \in Names : entries[h][m] # None /\ entries[h][m].table = p.table
      BY <2>4
    <3>2. ~(h = f /\ m \in done)
      BY <2>1, <3>1
    <3>3. entries'[h][m] = entries[h][m]
      BY <3>2
    <3>4. QED
      BY <3>1, <3>3 DEF HomedIn
  <2>5. QED
    BY <2>2, <2>3, <2>4 DEF HomedIn
<1>5. Unnamed(catalog', forks', entries', gone)
  BY <1>3, <1>4 DEF Unnamed
<1>6. QED
  BY <1>2, <1>5, EraseHolds

(* drop_table in a fork. *)
LEMMA DropForkTableHolds ==
    ASSUME IInv, NEW f \in ForkNames, NEW n \in Names, DropForkTable(f, n) PROVE HoldsAfter
<1>1. /\ RootsIn(catalog, forks, entries)
      /\ HomesIn(tables, catalog, forks, entries, lastTable)
  BY Facts
<1>2. /\ forks[f] # None /\ entries[f][n] # None /\ ~Pinned(entries[f][n].table)
      /\ Erase({entries[f][n].table})
      /\ UNCHANGED <<catalog, forks, lastTable, lastSeg, vpc, vscan>>
  BY DEF DropForkTable, vacuumVars
<1>3. entries' = [entries EXCEPT ![f][n] = None]
  BY DEF DropForkTable
<1>4. entries \in [ForkNames -> [Names -> Entries \cup {None}]]
  BY <1>1 DEF RootsIn
<1>5. /\ entries' \in [ForkNames -> [Names -> Entries \cup {None}]]
      /\ \A g \in ForkNames, m \in Names : entries'[g][m] =
            IF g = f /\ m \in {n} THEN None ELSE entries[g][m]
  BY <1>3, <1>4
<1>6. RootsIn(catalog', forks', entries')
  BY <1>1, <1>2, <1>5 DEF RootsIn
<1>7. \A g \in ForkNames : forks[g] # None => \A p \in forks[g].pins : \A m \in {n} :
         forks'[g] # None => p.table # entries[f][m].table
  BY <1>2, PinSeen
<1>8. \A g \in ForkNames, m \in Names : entries'[g][m] # None => forks'[g] # None
  BY <1>1, <1>2, <1>5 DEF HomesIn
<1>9. /\ {n} \in SUBSET {m \in Names : entries[f][m] # None}
      /\ {entries[f][n].table} \in SUBSET {entries[f][m].table : m \in {n}}
  BY <1>2
<1>10. QED
  BY <1>2, <1>5, <1>6, <1>7, <1>8, <1>9, DropEntriesHolds

(* No other fork pins what a fork without dependants owns, nor does it itself. *)
LEMMA NoDependants ==
    ASSUME IInv, NEW f \in ForkNames, forks[f] # None, DependOn(f) = {},
           NEW g \in ForkNames, forks[g] # None, NEW p \in forks[g].pins,
           NEW n \in Names, entries[f][n] # None
    PROVE  p.table # entries[f][n].table
<1>1. IndexInv /\ PinsIn(tables, catalog, forks, entries)
  BY Facts
<1>2. CASE g = f
  BY <1>1, <1>2 DEF PinsIn, PinIn
<1>3. CASE g # f
  <2>1. g \in IndexedForkNames /\ <<p.table, p.seq>> \in Refreshed[g].pins
    BY PinSeen
  <2>2. OwnedBy(f) = Owned(f)
    BY <1>1, ReportExact DEF IndexExact
  <2>3. entries[f][n].table \in OwnedBy(f)
    BY <2>2 DEF Owned
  <2>4. ASSUME p.table = entries[f][n].table PROVE FALSE
    <3>1. <<p.table, p.seq>>[1] \in OwnedBy(f)
      BY <2>3, <2>4
    <3>2. g \in DependOn(f)
      BY <1>3, <2>1, <3>1 DEF DependOn
    <3>3. QED
      BY <3>2
  <2>5. QED
    BY <2>4
<1>4. QED
  BY <1>2, <1>3

(* drop_fork, to its end or to a crash. *)
LEMMA DropForkHolds ==
    ASSUME IInv, NEW f \in ForkNames, DropFork(f) PROVE HoldsAfter
<1> DEFINE owned == {n \in Names : entries[f][n] # None}
<1>1. /\ RootsIn(catalog, forks, entries)
      /\ HomesIn(tables, catalog, forks, entries, lastTable)
  BY Facts
<1>2. /\ forks \in [ForkNames -> Forks \cup {None}]
      /\ entries \in [ForkNames -> [Names -> Entries \cup {None}]]
  BY <1>1 DEF RootsIn
<1>3. /\ forks[f] # None /\ DependOn(f) = {}
      /\ UNCHANGED <<catalog, lastTable, lastSeg, vpc, vscan>>
  BY DEF DropFork, vacuumVars
<1>4. \A g \in ForkNames : forks[g] # None => \A p \in forks[g].pins : \A n \in owned :
         p.table # entries[f][n].table
  BY <1>3, NoDependants
<1>5. CASE /\ Erase({entries[f][n].table : n \in owned})
           /\ entries' = [entries EXCEPT ![f] = NoEntries]
           /\ forks' = [forks EXCEPT ![f] = None]
  <2>1. NoEntries \in [Names -> Entries \cup {None}] /\ \A n \in Names : NoEntries[n] = None
    BY DEF NoEntries
  <2>2. /\ entries' \in [ForkNames -> [Names -> Entries \cup {None}]]
        /\ \A g \in ForkNames, n \in Names : entries'[g][n] =
              IF g = f /\ n \in owned THEN None ELSE entries[g][n]
    <3>1. /\ entries' \in [ForkNames -> [Names -> Entries \cup {None}]]
          /\ entries'[f] = NoEntries /\ \A g \in ForkNames : g # f => entries'[g] = entries[g]
      BY <1>2, <1>5, <2>1
    <3>2. QED
      BY <2>1, <3>1
  <2>3. /\ forks' \in [ForkNames -> Forks \cup {None}]
        /\ \A g \in ForkNames : forks'[g] # None => forks'[g] = forks[g]
        /\ \A g \in ForkNames : g # f => forks'[g] = forks[g]
    BY <1>2, <1>5
  <2>4. RootsIn(catalog', forks', entries')
    BY <1>1, <1>3, <2>2, <2>3 DEF RootsIn
  <2>5. \A g \in ForkNames, n \in Names : entries'[g][n] # None => forks'[g] # None
    BY <1>1, <2>2, <2>3 DEF HomesIn
  <2> DEFINE gone == {entries[f][n].table : n \in owned}
  <2>6. owned \in SUBSET owned /\ gone \in SUBSET {entries[f][n].table : n \in owned}
    OBVIOUS
  <2>7. Erase(gone)
    BY <1>5
  <2> HIDE DEF gone
  <2>8. \A g \in ForkNames : forks[g] # None => \A p \in forks[g].pins : \A n \in owned :
           forks'[g] # None => p.table # entries[f][n].table
    BY <1>4
  <2>9. QED
    BY <1>3, <2>2, <2>3, <2>4, <2>5, <2>6, <2>7, <2>8, DropEntriesHolds
<1>6. CASE /\ \E done \in SUBSET owned :
                 /\ entries' = [entries EXCEPT ![f] = [n \in Names |->
                                   IF n \in done THEN None ELSE entries[f][n]]]
                 /\ \E last \in done \cup {None} :
                       Erase({entries[f][n].table : n \in done \ {last}})
           /\ forks' = forks
  <2>1. PICK done \in SUBSET owned :
           /\ entries' = [entries EXCEPT ![f] = [n \in Names |->
                             IF n \in done THEN None ELSE entries[f][n]]]
           /\ \E last \in done \cup {None} :
                 Erase({entries[f][n].table : n \in done \ {last}})
    BY <1>6
  <2>2. PICK last \in done \cup {None} : Erase({entries[f][n].table : n \in done \ {last}})
    BY <2>1
  <2> DEFINE left == [n \in Names |-> IF n \in done THEN None ELSE entries[f][n]]
             gone == {entries[f][n].table : n \in done \ {last}}
  <2>3. /\ left \in [Names -> Entries \cup {None}]
        /\ \A n \in Names : left[n] = IF n \in done THEN None ELSE entries[f][n]
    BY <1>2
  <2>4. entries' = [entries EXCEPT ![f] = left] /\ Erase(gone)
    BY <2>1, <2>2
  <2> HIDE DEF left
  <2>5. /\ entries' \in [ForkNames -> [Names -> Entries \cup {None}]]
        /\ entries'[f] = left /\ \A g \in ForkNames : g # f => entries'[g] = entries[g]
    BY <1>2, <2>3, <2>4
  <2>6. \A g \in ForkNames, n \in Names : entries'[g][n] =
              IF g = f /\ n \in done THEN None ELSE entries[g][n]
    BY <2>3, <2>5
  <2>7. RootsIn(catalog', forks', entries')
    BY <1>1, <1>3, <1>6, <2>5 DEF RootsIn
  <2>8. \A g \in ForkNames, n \in Names : entries'[g][n] # None => forks'[g] # None
    BY <1>1, <1>6, <2>6 DEF HomesIn
  <2>9. gone \in SUBSET {entries[f][n].table : n \in done}
    OBVIOUS
  <2> HIDE DEF gone
  <2>10. \A g \in ForkNames : forks[g] # None => \A p \in forks[g].pins : \A n \in done :
            forks'[g] # None => p.table # entries[f][n].table
    BY <1>4
  <2>11. \A g \in ForkNames : forks'[g] # None => forks'[g] = forks[g]
    BY <1>6
  <2>12. QED
    BY <1>3, <2>4, <2>6, <2>7, <2>8, <2>9, <2>10, <2>11, DropEntriesHolds
<1>7. QED
  BY <1>5, <1>6 DEF DropFork

(* The sweep: directories that nothing named when vacuum looked. *)
LEMMA VacuumSweepHolds ==
    ASSUME IInv, VacuumSweep PROVE HoldsAfter
<1> DEFINE gone == {t \in 1..vscan.table :
                       t \notin vscan.roots /\ ~\E o \in objects : o[1] = t /\ Young(o)}
<1>1. /\ TablesIn(tables) /\ RootsIn(catalog, forks, entries) /\ vscan \in Scans
      /\ WorldIn(tables, catalog, forks, entries, objects, rows, lastTable, lastSeg)
      /\ HomesIn(tables, catalog, forks, entries, lastTable) /\ PinsIn(tables, catalog, forks, entries)
      /\ ScanIn(tables, catalog, entries, vpc, vscan, lastTable, lastSeg)
      /\ objects \subseteq Objects /\ rows \in [Segs -> SUBSET Segs] /\ VacuumOK
      /\ lastTable \in Nat /\ lastSeg \in Nat
  BY Facts
<1>2. /\ vpc = "sweep" /\ vpc' = "idle" /\ vscan' = NoScan /\ Erase(gone)
      /\ UNCHANGED <<catalog, forks, entries, lastTable, lastSeg>>
  BY DEF VacuumSweep, rootVars
<1>3. vscan.table \in Nat
  BY <1>1, ScanFacts
<1>4. \A t \in gone : t <= vscan.table /\ t \notin vscan.roots /\ t \in Nat
  BY <1>3
<1> HIDE DEF gone
<1>5. \A t \in Tables : HomedIn(catalog', entries', t) => t \notin gone
  <2> SUFFICES ASSUME NEW t \in Tables, HomedIn(catalog, entries, t) PROVE t \notin gone
    BY <1>2
  <2>1. t > vscan.table \/ t \in vscan.roots
    BY <1>1, <1>2, TablesNat DEF HomedIn, ScanIn
  <2>2. QED
    BY <1>3, <1>4, <2>1, TablesNat
<1>6. \A f \in ForkNames : forks'[f] # None => \A p \in forks'[f].pins : HomedIn(catalog', entries', p.table)
  BY <1>1, <1>2, PinFacts
<1>7. Unnamed(catalog', forks', entries', gone)
  BY <1>5, <1>6 DEF Unnamed
<1>8. Fewer(catalog, forks, entries, catalog', forks', entries')
  BY <1>1, <1>2 DEF Fewer, HomesIn
<1>9. /\ tables' = Erased(tables, gone) /\ objects' = {o \in objects : o[1] \notin gone}
      /\ rows' = rows
  BY <1>2 DEF Erase, Erased
<1>10. objects' \subseteq Objects /\ \A o \in objects : o[1] \notin gone => o \in objects'
  BY <1>1, <1>9
<1>11. /\ TablesIn(tables')
       /\ WorldIn(tables', catalog', forks', entries', objects', rows, lastTable, lastSeg)
  BY <1>1, <1>7, <1>8, <1>9, <1>10, ErasedWorld
<1>12. NoScan \in Scans /\ NoScan.seg = 0 /\ NoScan.table = 0
  BY BoundsAssumption DEF NoScan, Scans
<1>13. ScanIn(tables', catalog', entries', vpc', vscan', lastTable', lastSeg')
  BY <1>1, <1>2, <1>12 DEF ScanIn
<1>14. VacuumOK'
  BY <1>2, <1>12 DEF VacuumOK
<1>15. RootsIn(catalog', forks', entries')
  BY <1>8 DEF Fewer
<1>16. QED
  BY <1>1, <1>2, <1>9, <1>10, <1>11, <1>13, <1>14, <1>15 DEF HoldsAfter

-----------------------------------------------------------------------------
(***************************************************************************)
(* Retention and vacuum's deletions: versions stay what they are, floors   *)
(* may rise, objects go that no retained version lists.                    *)
(***************************************************************************)
Raised(T, U, t) ==
    /\ U[t] = None <=> T[t] = None
    /\ T[t] # None => U[t].vers = T[t].vers /\ T[t].floor <= U[t].floor

(* The world then. *)
LEMMA RaisedWorld ==
    ASSUME NEW T, NEW C, NEW F, NEW E, NEW O, NEW R, NEW lastT, NEW last, NEW U, NEW P,
           TablesIn(T), TablesIn(U), RootsIn(C, F, E), WorldIn(T, C, F, E, O, R, lastT, last),
           \A t \in Tables : Raised(T, U, t),
           \A f \in ForkNames, n \in Names : E[f][n] # None =>
              U[E[f][n].table].floor = T[E[f][n].table].floor,
           \A f \in ForkNames : F[f] # None => \A p \in F[f].pins : p.seq >= U[p.table].floor,
           \A t \in Tables : HomedIn(C, E, t) => \A o : Retained(U, t, o) => o \in P
    PROVE  WorldIn(U, C, F, E, P, R, lastT, last)
<1>1. /\ OneHomeIn(C, E) /\ HomesIn(T, C, F, E, lastT) /\ PinsIn(T, C, F, E)
      /\ SegmentsIn(T, C, F, E) /\ AllRowsKeptIn(T, R, last)
  BY DEF WorldIn
<1>2. \A t \in Tables : T[t] # None =>
         /\ U[t] # None /\ HeadOf(U, t) = HeadOf(T, t)
         /\ \A s : At(U, t, s) = At(T, t, s) /\ OpAt(U, t, s) = OpAt(T, t, s)
  BY DEF Raised, HeadOf, At, OpAt
<1>3. HomesIn(U, C, F, E, lastT)
  <2>1. \A n \in Names : C[n] # None => C[n] <= lastT /\ U[C[n]] # None
    BY <1>1, <1>2 DEF HomesIn, RootsIn
  <2>2. \A f \in ForkNames, n \in Names : E[f][n] # None =>
           /\ F[f] # None /\ E[f][n].table <= lastT
           /\ U[E[f][n].table] # None /\ U[E[f][n].table].floor = 0
    BY <1>1, <1>2, EntryFacts DEF HomesIn
  <2>3. QED
    BY <2>1, <2>2 DEF HomesIn
<1>4. PinsIn(U, C, F, E)
  <2> SUFFICES ASSUME NEW f \in ForkNames, F[f] # None, NEW p \in F[f].pins
               PROVE  PinIn(U, C, E, f, p)
    BY DEF PinsIn
  <2>1. p.table \in Tables /\ T[p.table] # None /\ PinIn(T, C, E, f, p)
    BY <1>1, PinFacts
  <2>2. QED
    BY <1>2, <2>1 DEF PinIn
<1>5. \A t \in Tables : \A x : T[t] # None /\ InsideIn(T, t, x) => InsideIn(U, t, x)
  BY <1>2 DEF InsideIn
<1>6. SegmentsIn(U, C, F, E)
  <2>1. \A n \in Names : C[n] # None => InsideIn(U, C[n], {})
    BY <1>1, <1>5 DEF SegmentsIn, HomesIn, RootsIn
  <2>2. ASSUME NEW f \in ForkNames, NEW n \in Names, E[f][n] # None PROVE EntryIn(U, F[f], E[f][n])
    <3>1. EntryIn(T, F[f], E[f][n]) /\ T[E[f][n].table] # None /\ E[f][n].table \in Tables
      BY <1>1, <2>2, EntryFacts DEF SegmentsIn, HomesIn
    <3>2. \A x : InsideIn(T, E[f][n].table, x) => InsideIn(U, E[f][n].table, x)
      BY <1>5, <3>1
    <3>3. ASSUME E[f][n].origin # None
          PROVE  At(U, E[f][n].origin.table, E[f][n].origin.seq)
                   = At(T, E[f][n].origin.table, E[f][n].origin.seq)
      <4>1. E[f][n].origin.table \in Tables /\ T[E[f][n].origin.table] # None
        BY <1>1, <2>2, <3>3, OriginFacts
      <4>2. QED
        BY <1>2, <4>1
    <3>4. QED
      BY <3>1, <3>2, <3>3, EntryStays
  <2>3. QED
    BY <2>1, <2>2 DEF SegmentsIn
<1>7. AllPresentIn(U, C, E, P)
  BY DEF AllPresentIn, PresentIn, Retained
<1>8. AllRowsKeptIn(U, R, last)
  <2> SUFFICES ASSUME NEW t \in Tables, U[t] # None PROVE RowsKeptIn(U, R, last, t)
    BY DEF AllRowsKeptIn
  <2>1. T[t] # None
    BY DEF Raised
  <2>2. RowsKeptIn(T, R, last, t)
    BY <1>1, <2>1 DEF AllRowsKeptIn
  <2>3. HeadOf(U, t) = HeadOf(T, t) /\ \A s : At(U, t, s) = At(T, t, s) /\ OpAt(U, t, s) = OpAt(T, t, s)
    BY <1>2, <2>1
  <2>4. QED
    BY <2>2, <2>3 DEF RowsKeptIn
<1>9. QED
  BY <1>1, <1>3, <1>4, <1>6, <1>7, <1>8 DEF WorldIn

(* What is retained after floors rose was retained before. *)
LEMMA RaisedRetained ==
    ASSUME NEW T, NEW U, TablesIn(T), TablesIn(U), NEW t \in Tables, T[t] # None, Raised(T, U, t),
           NEW o, Retained(U, t, o)
    PROVE  Retained(T, t, o)
<1>1. PICK s \in U[t].floor..HeadOf(U, t) : o \in At(U, t, s)
  BY DEF Retained
<1>2. U[t] # None /\ HeadOf(U, t) = HeadOf(T, t) /\ At(U, t, s) = At(T, t, s) /\ T[t].floor <= U[t].floor
  BY DEF Raised, HeadOf, At
<1>3. T[t].floor \in Nat /\ U[t].floor \in Nat /\ HeadOf(T, t) \in Nat
  BY <1>2, TableFacts
<1>4. s \in T[t].floor..HeadOf(T, t)
  BY <1>2, <1>3
<1>5. QED
  BY <1>1, <1>2, <1>4 DEF Retained

(* A higher floor. *)
AtFloor(T, t, floor) == [T EXCEPT ![t].floor = floor]

(* What a higher floor leaves as it was. *)
LEMMA FloorTables ==
    ASSUME NEW T, TablesIn(T), NEW t \in Tables, T[t] # None, NEW floor \in Nat,
           T[t].floor <= floor, floor <= HeadOf(T, t), NEW U, U = AtFloor(T, t, floor)
    PROVE  /\ TablesIn(U) /\ \A u \in Tables : Raised(T, U, u)
           /\ U[t].floor = floor /\ \A u \in Tables : u # t => U[u] = T[u]
<1> DEFINE r == [T[t] EXCEPT !.floor = floor]
<1>1. /\ T[t] \in TableRecs /\ T[t].vers \in Seq(VersionRec) /\ HeadOf(T, t) \in 0..MaxSeq
      /\ T[t].floor \in Nat /\ T[t].kept \in Nat /\ T[t].kept <= T[t].floor
      /\ HeadOf(T, t) \in Nat /\ Len(T[t].vers) = HeadOf(T, t) + 1
  BY TableFacts
<1>2. r \in TableRecs /\ r.vers = T[t].vers /\ r.floor = floor /\ r.kept = T[t].kept
  BY <1>1 DEF TableRecs
<1>3. U = [T EXCEPT ![t] = r] /\ T \in [Tables -> TableRecs \cup {None}]
  BY DEF AtFloor, TablesIn
<1> HIDE DEF r
<1>4. /\ U \in [Tables -> TableRecs \cup {None}] /\ U[t] = r
      /\ \A u \in Tables : u # t => U[u] = T[u]
  BY <1>2, <1>3
<1>5. r # None
  BY <1>2, NoneAssumption
<1>6. r.floor < Len(r.vers) /\ r.kept <= r.floor /\ Len(r.vers) \in 1..MaxSeq + 1
  BY <1>1, <1>2, BoundsAssumption
<1>7. TablesIn(U)
  BY <1>4, <1>6 DEF TablesIn
<1>8. ASSUME NEW u \in Tables PROVE Raised(T, U, u)
  <2>1. CASE u = t
    BY <1>2, <1>4, <1>5, <2>1 DEF Raised
  <2>2. CASE u # t
    <3>1. U[u] = T[u] /\ (T[u] # None => T[u].floor \in Nat)
      BY <1>4, <2>2, TableFacts
    <3>2. QED
      BY <3>1 DEF Raised
  <2>3. QED
    BY <2>1, <2>2
<1>9. QED
  BY <1>2, <1>4, <1>7, <1>8

(* set_retention. *)
LEMMA SetRetentionHolds ==
    ASSUME IInv, NEW n \in Names, NEW target \in 1..MaxSeq, SetRetention(n, target) PROVE HoldsAfter
<1> DEFINE t == catalog[n]
<1>1. /\ TablesIn(tables) /\ RootsIn(catalog, forks, entries) /\ vscan \in Scans
      /\ WorldIn(tables, catalog, forks, entries, objects, rows, lastTable, lastSeg)
      /\ OneHomeIn(catalog, entries) /\ HomesIn(tables, catalog, forks, entries, lastTable)
      /\ PinsIn(tables, catalog, forks, entries)
      /\ AllPresentIn(tables, catalog, entries, objects)
      /\ ScanIn(tables, catalog, entries, vpc, vscan, lastTable, lastSeg)
      /\ objects \subseteq Objects /\ rows \in [Segs -> SUBSET Segs] /\ VacuumOK
  BY Facts
<1>2. /\ t # None /\ target > tables[t].floor /\ target <= HeadSeq(t) /\ ~PinnedBelow(t, target)
      /\ tables' = AtFloor(tables, t, target)
      /\ UNCHANGED <<objects, rows, catalog, forks, entries, lastTable, lastSeg, vpc, vscan>>
  BY DEF SetRetention, AtFloor, rootVars, vacuumVars
<1>3. t \in Tables /\ tables[t] # None
  BY <1>1, <1>2 DEF RootsIn, HomesIn
<1> HIDE DEF t
<1>4. target \in Nat /\ target <= HeadOf(tables, t) /\ tables[t].floor <= target
  <2>1. target \in Nat /\ tables[t].floor \in Nat
    BY <1>1, <1>3, TableFacts, BoundsAssumption
  <2>2. QED
    BY <1>2, <2>1 DEF HeadSeq, HeadOf
<1>5. /\ TablesIn(tables') /\ \A u \in Tables : Raised(tables, tables', u)
      /\ tables'[t].floor = target /\ \A u \in Tables : u # t => tables'[u] = tables[u]
  BY <1>1, <1>2, <1>3, <1>4, FloorTables
<1>6. \A f \in ForkNames, m \in Names : entries[f][m] # None =>
         tables'[entries[f][m].table].floor = tables[entries[f][m].table].floor
  <2> SUFFICES ASSUME NEW f \in ForkNames, NEW m \in Names, entries[f][m] # None
               PROVE  tables'[entries[f][m].table] = tables[entries[f][m].table]
    OBVIOUS
  <2>1. entries[f][m].table # t
    BY <1>1 DEF OneHomeIn, t
  <2>2. entries[f][m].table \in Tables
    BY <1>1, EntryFacts
  <2>3. QED
    BY <1>5, <2>1, <2>2
<1>7. \A f \in ForkNames : forks[f] # None => \A p \in forks[f].pins : p.seq >= tables'[p.table].floor
  <2> SUFFICES ASSUME NEW f \in ForkNames, forks[f] # None, NEW p \in forks[f].pins
               PROVE  p.seq >= tables'[p.table].floor
    OBVIOUS
  <2>1. p.table \in Tables /\ p.seq \in Nat /\ PinIn(tables, catalog, entries, f, p)
    BY <1>1, PinFacts
  <2>2. CASE p.table = t
    <3>1. f \in IndexedForkNames /\ <<p.table, p.seq>> \in Refreshed[f].pins
      BY PinSeen
    <3>2. ~(p.seq < target)
      <4>1. <<p.table, p.seq>>[1] = p.table /\ <<p.table, p.seq>>[2] = p.seq
        OBVIOUS
      <4>2. QED
        BY <1>2, <2>2, <3>1, <4>1 DEF PinnedBelow
    <3>3. QED
      BY <1>4, <1>5, <2>1, <2>2, <3>2
  <2>3. CASE p.table # t
    <3>1. tables'[p.table] = tables[p.table]
      BY <1>5, <2>1, <2>3
    <3>2. QED
      BY <2>1, <3>1 DEF PinIn
  <2>4. QED
    BY <2>2, <2>3
<1>8. \A u \in Tables : HomedIn(catalog, entries, u) => \A o : Retained(tables', u, o) => o \in objects
  <2> SUFFICES ASSUME NEW u \in Tables, HomedIn(catalog, entries, u), NEW o, Retained(tables', u, o)
               PROVE  o \in objects
    OBVIOUS
  <2>1. tables[u] # None
    BY <1>1, HomedExists
  <2>2. Retained(tables, u, o)
    BY <1>1, <1>5, <2>1, RaisedRetained
  <2>3. QED
    BY <1>1, <2>2 DEF AllPresentIn, PresentIn, Retained
<1>9. WorldIn(tables', catalog, forks, entries, objects, rows, lastTable, lastSeg)
  BY <1>1, <1>5, <1>6, <1>7, <1>8, RaisedWorld
<1>10. \A u \in Tables : tables'[u] # None /\ ScannedIn(tables, vscan, u) => ScannedIn(tables', vscan, u)
  <2> SUFFICES ASSUME NEW u \in Tables, tables'[u] # None, ScannedIn(tables, vscan, u)
               PROVE  ScannedIn(tables', vscan, u)
    OBVIOUS
  <2>1. /\ tables[u] # None /\ tables'[u].vers = tables[u].vers
        /\ tables[u].floor <= tables'[u].floor
    BY <1>5 DEF Raised
  <2>2. vscan.floors[u] \in Nat /\ tables[u].floor \in Nat /\ tables'[u].floor \in Nat
    BY <1>1, <1>5, <2>1, ScanFacts, TableFacts
  <2>3. vscan.floors[u] <= tables'[u].floor
    BY <2>1, <2>2 DEF ScannedIn
  <2>4. QED
    BY <2>1, <2>3 DEF ScannedIn, HeadOf, At
<1>11. vpc = "delete" => \A u \in Tables : tables'[u] # None => ScannedIn(tables', vscan, u)
  BY <1>1, <1>5, <1>10 DEF ScanIn, Raised
<1>12. ScanIn(tables', catalog, entries, vpc, vscan, lastTable, lastSeg)
  BY <1>1, <1>11 DEF ScanIn
<1>13. RootsIn(catalog', forks', entries') /\ VacuumOK'
  BY <1>1, <1>2 DEF VacuumOK
<1>14. QED
  BY <1>1, <1>2, <1>5, <1>9, <1>12, <1>13 DEF HoldsAfter

(* Vacuum reads the base tables. *)
LEMMA VacuumScanHolds ==
    ASSUME IInv, VacuumScan PROVE HoldsAfter
<1> DEFINE ref == UNION {UNION {Version(t, s).segs : s \in tables[t].floor..HeadSeq(t)} :
                            t \in Cataloged}
           floors == [t \in Tables |-> IF t \in Cataloged THEN tables[t].floor ELSE 0]
<1>1. /\ TablesIn(tables) /\ RootsIn(catalog, forks, entries)
      /\ WorldIn(tables, catalog, forks, entries, objects, rows, lastTable, lastSeg)
      /\ OneHomeIn(catalog, entries) /\ HomesIn(tables, catalog, forks, entries, lastTable)
      /\ objects \subseteq Objects /\ rows \in [Segs -> SUBSET Segs]
      /\ lastTable \in Nat /\ lastSeg \in Nat /\ lastTable <= MaxTable /\ lastSeg <= MaxSeg
  BY Facts
<1>2. /\ vpc' = "delete"
      /\ vscan' = [ref |-> ref, floors |-> floors, roots |-> Cataloged, table |-> lastTable,
                   seg |-> lastSeg]
      /\ UNCHANGED <<tables, objects, rows, catalog, forks, entries, lastTable, lastSeg>>
  BY DEF VacuumScan, storeVars, rootVars
<1>3. Cataloged \subseteq Tables /\ \A n \in Names : catalog[n] # None => catalog[n] \in Cataloged
  BY <1>1 DEF Cataloged, RootsIn
<1>4. \A t \in Cataloged : /\ t \in Tables /\ tables[t] # None /\ t <= lastTable
                           /\ \E n \in Names : catalog[n] = t
  BY <1>1, <1>3 DEF Cataloged, HomesIn
<1>5. \A t \in Tables : tables[t] # None =>
         /\ tables[t].floor \in Nat /\ HeadOf(tables, t) \in Nat /\ tables[t].floor \in 0..MaxSeq
         /\ \A s \in tables[t].floor..HeadOf(tables, t) :
               s \in 0..HeadOf(tables, t) /\ At(tables, t, s) \subseteq Objects
  <2> SUFFICES ASSUME NEW t \in Tables, tables[t] # None
               PROVE  /\ tables[t].floor \in Nat /\ HeadOf(tables, t) \in Nat
                      /\ tables[t].floor \in 0..MaxSeq
                      /\ \A s \in tables[t].floor..HeadOf(tables, t) :
                            s \in 0..HeadOf(tables, t) /\ At(tables, t, s) \subseteq Objects
    OBVIOUS
  <2>1. /\ tables[t].floor \in Nat /\ HeadOf(tables, t) \in Nat /\ HeadOf(tables, t) \in 0..MaxSeq
        /\ tables[t].floor <= HeadOf(tables, t)
        /\ \A s \in 0..HeadOf(tables, t) : At(tables, t, s) \subseteq Objects
    BY <1>1, TableFacts
  <2>2. tables[t].floor \in 0..MaxSeq
    BY <2>1, BoundsAssumption
  <2>3. \A s \in tables[t].floor..HeadOf(tables, t) : s \in 0..HeadOf(tables, t)
    BY <2>1
  <2>4. QED
    BY <2>1, <2>2, <2>3
<1>6. \A t, s : Version(t, s).segs = At(tables, t, s) /\ HeadSeq(t) = HeadOf(tables, t)
  BY DEF Version, At, HeadSeq, HeadOf
<1>7. ref \subseteq Objects
  BY <1>4, <1>5, <1>6
<1>8. \A t \in Cataloged : \A s \in tables[t].floor..HeadOf(tables, t) : At(tables, t, s) \subseteq ref
  BY <1>6
<1>9. /\ floors \in [Tables -> 0..MaxSeq]
      /\ \A t \in Tables : floors[t] = IF t \in Cataloged THEN tables[t].floor ELSE 0
  BY <1>4, <1>5, BoundsAssumption
<1> HIDE DEF ref, floors
<1>10. lastTable \in 0..MaxTable /\ lastSeg \in 0..MaxSeg
  BY <1>1, BoundsAssumption
<1>11. /\ vscan' \in Scans /\ vscan'.ref = ref /\ vscan'.floors = floors
       /\ vscan'.roots = Cataloged /\ vscan'.table = lastTable /\ vscan'.seg = lastSeg
  BY <1>2, <1>3, <1>7, <1>9, <1>10 DEF Scans
<1>12. \A t \in Tables : tables[t] # None => ScannedIn(tables, vscan', t)
  <2> SUFFICES ASSUME NEW t \in Tables, tables[t] # None PROVE ScannedIn(tables, vscan', t)
    OBVIOUS
  <2>1. tables[t].floor \in Nat
    BY <1>5
  <2>2. CASE t \in Cataloged
    <3>1. vscan'.floors[t] = tables[t].floor
      BY <1>9, <1>11, <2>2
    <3>2. \A s \in vscan'.floors[t]..HeadOf(tables, t) : At(tables, t, s) \subseteq vscan'.ref
      BY <1>8, <1>11, <2>2, <3>1
    <3>3. vscan'.floors[t] <= tables[t].floor
      BY <2>1, <3>1
    <3>4. QED
      BY <3>2, <3>3 DEF ScannedIn
  <2>3. CASE t \notin Cataloged
    <3>1. vscan'.floors[t] = 0 /\ t \notin vscan'.roots
      BY <1>9, <1>11, <2>3
    <3>2. vscan'.floors[t] <= tables[t].floor
      BY <2>1, <3>1
    <3>3. QED
      BY <3>1, <3>2 DEF ScannedIn
  <2>4. QED
    BY <2>2, <2>3
<1>13. \A f \in ForkNames, n \in Names : entries[f][n] # None => entries[f][n].table \notin vscan'.roots
  BY <1>1, <1>4, <1>11 DEF OneHomeIn
<1>14. \A t \in Tables : t > vscan'.table => vscan'.floors[t] = 0
  <2> SUFFICES ASSUME NEW t \in Tables, t > lastTable PROVE floors[t] = 0
    BY <1>11
  <2>1. t \notin Cataloged
    <3>1. ~(t <= lastTable)
      BY <1>1, TablesNat
    <3>2. QED
      BY <1>4, <3>1
  <2>2. QED
    BY <1>9, <2>1
<1>15. vscan'.seg <= lastSeg /\ vscan'.table <= lastTable
  BY <1>1, <1>11
<1>16. ScanIn(tables, catalog, entries, "delete", vscan', lastTable, lastSeg)
  BY <1>3, <1>4, <1>11, <1>12, <1>13, <1>14, <1>15 DEF ScanIn
<1>17. VacuumOK'
  BY <1>2, <1>11 DEF VacuumOK
<1>18. QED
  BY <1>1, <1>2, <1>16, <1>17 DEF HoldsAfter

(* Vacuum deletes: what a retained version lists is in the scan or young,
   or lies in a directory vacuum does not look into. *)
LEMMA VacuumDeleteHolds ==
    ASSUME IInv, VacuumDelete PROVE HoldsAfter
<1>1. /\ TablesIn(tables) /\ RootsIn(catalog, forks, entries) /\ vscan \in Scans
      /\ WorldIn(tables, catalog, forks, entries, objects, rows, lastTable, lastSeg)
      /\ HomesIn(tables, catalog, forks, entries, lastTable)
      /\ PinsIn(tables, catalog, forks, entries) /\ SegmentsIn(tables, catalog, forks, entries)
      /\ AllPresentIn(tables, catalog, entries, objects)
      /\ ScanIn(tables, catalog, entries, vpc, vscan, lastTable, lastSeg)
      /\ objects \subseteq Objects /\ rows \in [Segs -> SUBSET Segs] /\ VacuumOK
  BY Facts
<1>2. /\ vpc = "delete" /\ vpc' = "index"
      /\ objects' = {o \in objects : o[1] \notin vscan.roots \/ o \in vscan.ref \/ Young(o)}
      /\ tables' = [t \in Tables |->
                      IF tables[t] # None /\ vscan.floors[t] > tables[t].kept
                      THEN [tables[t] EXCEPT !.kept = vscan.floors[t]]
                      ELSE tables[t]]
      /\ UNCHANGED <<rows, catalog, forks, entries, lastTable, lastSeg, vscan>>
  BY DEF VacuumDelete, rootVars
<1>3. \A t \in Tables : vscan.floors[t] \in Nat
  BY <1>1, ScanFacts
<1>4. \A t \in Tables : tables[t] # None => ScannedIn(tables, vscan, t)
  BY <1>1, <1>2 DEF ScanIn
<1>5. ASSUME NEW t \in Tables
      PROVE  /\ tables'[t] \in TableRecs \cup {None} /\ Raised(tables, tables', t)
             /\ tables[t] # None => /\ tables'[t].floor = tables[t].floor
                                    /\ tables'[t].kept <= tables'[t].floor
  <2> DEFINE r == [tables[t] EXCEPT !.kept = vscan.floors[t]]
  <2>1. tables'[t] = IF tables[t] # None /\ vscan.floors[t] > tables[t].kept THEN r ELSE tables[t]
    BY <1>2
  <2>2. CASE tables[t] = None
    BY <2>1, <2>2 DEF Raised
  <2>3. CASE tables[t] # None
    <3>1. /\ tables[t] \in TableRecs /\ tables[t].floor \in Nat /\ tables[t].kept \in Nat
          /\ tables[t].kept <= tables[t].floor
      BY <1>1, <2>3, TableFacts
    <3>2. vscan.floors[t] <= tables[t].floor
      BY <1>4, <2>3 DEF ScannedIn
    <3>3. /\ r \in TableRecs /\ r.vers = tables[t].vers /\ r.floor = tables[t].floor
          /\ r.kept = vscan.floors[t]
      BY <1>3, <3>1 DEF TableRecs
    <3> HIDE DEF r
    <3>4. r # None /\ tables[t].floor <= tables[t].floor
      BY <3>1, <3>3, NoneAssumption
    <3>5. CASE tables'[t] = r
      BY <2>3, <3>2, <3>3, <3>4, <3>5 DEF Raised
    <3>6. CASE tables'[t] = tables[t]
      BY <2>3, <3>1, <3>4, <3>6 DEF Raised
    <3>7. QED
      BY <2>1, <3>5, <3>6
  <2>4. QED
    BY <2>2, <2>3
<1>6. TablesIn(tables')
  <2>1. tables' \in [Tables -> TableRecs \cup {None}]
    BY <1>2, <1>5
  <2>2. ASSUME NEW t \in Tables, tables'[t] # None
        PROVE  /\ Len(tables'[t].vers) \in 1..MaxSeq + 1
               /\ tables'[t].floor < Len(tables'[t].vers) /\ tables'[t].kept <= tables'[t].floor
    <3>1. /\ tables[t] # None /\ tables'[t].vers = tables[t].vers /\ tables'[t].floor = tables[t].floor
          /\ tables'[t].kept <= tables'[t].floor
      BY <1>5, <2>2 DEF Raised
    <3>2. Len(tables[t].vers) \in 1..MaxSeq + 1 /\ tables[t].floor < Len(tables[t].vers)
      BY <1>1, <3>1 DEF TablesIn
    <3>3. QED
      BY <3>1, <3>2
  <2>3. QED
    BY <2>1, <2>2 DEF TablesIn
<1>7. \A f \in ForkNames, n \in Names : entries[f][n] # None =>
         tables'[entries[f][n].table].floor = tables[entries[f][n].table].floor
  BY <1>1, <1>5, EntryFacts DEF HomesIn
<1>8. \A f \in ForkNames : forks[f] # None => \A p \in forks[f].pins : p.seq >= tables'[p.table].floor
  <2> SUFFICES ASSUME NEW f \in ForkNames, forks[f] # None, NEW p \in forks[f].pins
               PROVE  p.seq >= tables'[p.table].floor
    OBVIOUS
  <2>1. p.table \in Tables /\ tables[p.table] # None /\ PinIn(tables, catalog, entries, f, p)
    BY <1>1, PinFacts
  <2>2. QED
    BY <1>5, <2>1 DEF PinIn
<1>9. \A t \in Tables : HomedIn(catalog, entries, t) => \A o : Retained(tables', t, o) => o \in objects'
  <2> SUFFICES ASSUME NEW t \in Tables, HomedIn(catalog, entries, t), NEW o, Retained(tables', t, o)
               PROVE  o \in objects'
    OBVIOUS
  <2>1. tables[t] # None
    BY <1>1, HomedExists
  <2>2. Retained(tables, t, o)
    BY <1>1, <1>5, <1>6, <2>1, RaisedRetained
  <2>3. o \in objects
    BY <1>1, <2>2 DEF AllPresentIn, PresentIn, Retained
  <2>4. OwnedAt(tables, catalog, entries, o)
    BY <1>1, <2>2, SegmentOwner
  <2> DEFINE u == o[1]
  <2>5. u \in Tables /\ HomedIn(catalog, entries, u) /\ Retained(tables, u, o)
    BY <2>4 DEF OwnedAt
  <2>6. CASE u \notin vscan.roots
    BY <1>2, <2>3, <2>6
  <2>7. CASE u \in vscan.roots
    <3>1. PICK s \in tables[u].floor..HeadOf(tables, u) : o \in At(tables, u, s)
      BY <2>5 DEF Retained
    <3>2. tables[u] # None
      BY <1>1, <2>5, HomedExists
    <3>3. ScannedIn(tables, vscan, u)
      BY <1>4, <2>5, <3>2
    <3>4. s \in vscan.floors[u]..HeadOf(tables, u)
      <4>1. vscan.floors[u] <= tables[u].floor
        BY <3>3 DEF ScannedIn
      <4>2. vscan.floors[u] \in Nat /\ tables[u].floor \in Nat /\ HeadOf(tables, u) \in Nat
        BY <1>1, <1>3, <2>5, <3>2, TableFacts
      <4>3. QED
        BY <4>1, <4>2
    <3>5. o \in vscan.ref \/ o[2] > vscan.seg
      BY <2>7, <3>1, <3>3, <3>4 DEF ScannedIn
    <3>6. QED
      BY <1>2, <2>3, <3>5 DEF Young
  <2>8. QED
    BY <2>6, <2>7
<1>10. WorldIn(tables', catalog, forks, entries, objects', rows, lastTable, lastSeg)
  BY <1>1, <1>5, <1>6, <1>7, <1>8, <1>9, RaisedWorld
<1>11. ScanIn(tables', catalog, entries, "index", vscan, lastTable, lastSeg)
  BY <1>1, <1>2 DEF ScanIn
<1>12. objects' \subseteq Objects
  BY <1>1, <1>2
<1>13. VacuumOK'
  BY <1>1, <1>2 DEF VacuumOK
<1>14. QED
  BY <1>1, <1>2, <1>6, <1>10, <1>11, <1>12, <1>13 DEF HoldsAfter

(* Vacuum reads the fork index. *)
LEMMA VacuumIndexHolds ==
    ASSUME IInv, VacuumIndex PROVE HoldsAfter
<1> DEFINE one == UNION {OwnedBy(f) : f \in IndexedForkNames}
           two == {t \in Tables : Pinned(t)}
           more == one \cup two
<1>1. /\ TablesIn(tables) /\ RootsIn(catalog, forks, entries) /\ vscan \in Scans
      /\ TypeOK /\ IndexInv
      /\ WorldIn(tables, catalog, forks, entries, objects, rows, lastTable, lastSeg)
      /\ HomesIn(tables, catalog, forks, entries, lastTable)
      /\ ScanIn(tables, catalog, entries, vpc, vscan, lastTable, lastSeg)
      /\ objects \subseteq Objects /\ rows \in [Segs -> SUBSET Segs] /\ VacuumOK
  BY Facts
<1>2. /\ vpc = "index" /\ vpc' = "sweep"
      /\ vscan' = [vscan EXCEPT !.roots = @ \cup one \cup two]
      /\ UNCHANGED <<tables, objects, rows, catalog, forks, entries, lastTable, lastSeg>>
  BY DEF VacuumIndex, storeVars, rootVars
<1>3. \A f \in IndexedForkNames : f \in ForkNames /\ forks[f] # None /\ OwnedBy(f) = Owned(f)
  BY <1>1, Reported, ReportExact DEF IndexedForkNames, IndexExact
<1>4. \A f \in ForkNames : Owned(f) \subseteq Tables
  BY <1>1, EntryFacts DEF Owned
<1>5. more \subseteq Tables
  <2>1. \A f \in IndexedForkNames : OwnedBy(f) \subseteq Tables
    BY <1>3, <1>4
  <2>2. one \subseteq Tables
    BY <2>1
  <2>3. QED
    BY <2>2
<1>6. \A f \in ForkNames, n \in Names : entries[f][n] # None => entries[f][n].table \in more
  <2> SUFFICES ASSUME NEW f \in ForkNames, NEW n \in Names, entries[f][n] # None
               PROVE  entries[f][n].table \in more
    OBVIOUS
  <2>1. forks[f] # None
    BY <1>1 DEF HomesIn
  <2>2. f \in IndexedForkNames
    BY <2>1, PinSeen
  <2>3. entries[f][n].table \in OwnedBy(f)
    BY <1>3, <2>2 DEF Owned
  <2>4. QED
    BY <2>2, <2>3
<1> HIDE DEF one, two
<1>7. vscan' = [vscan EXCEPT !.roots = vscan.roots \cup more]
  <2>1. vscan.roots \cup one \cup two = vscan.roots \cup more
    OBVIOUS
  <2>2. QED
    BY <1>2, <2>1
<1> HIDE DEF more
<1>8. vscan.roots \cup more \in SUBSET Tables
  BY <1>1, <1>5, ScanFacts
<1>9. /\ vscan' \in Scans /\ vscan'.roots = vscan.roots \cup more /\ vscan'.table = vscan.table
      /\ vscan'.seg = vscan.seg
  BY <1>1, <1>7, <1>8 DEF Scans
<1>10. ScanIn(tables, catalog, entries, "sweep", vscan', lastTable, lastSeg)
  BY <1>1, <1>2, <1>6, <1>9 DEF ScanIn
<1>11. VacuumOK'
  BY <1>2, <1>9 DEF VacuumOK
<1>12. QED
  BY <1>1, <1>2, <1>10, <1>11 DEF HoldsAfter

-----------------------------------------------------------------------------
(***************************************************************************)
(* All steps.  What each does to the counters and the index.               *)
(***************************************************************************)
Counted ==
    /\ ops' = ops \/ Step
    /\ crashes' = crashes \/ (crashes < MaxCrash /\ crashes' = crashes + 1)
    /\ lastTable' = lastTable \/ (lastTable < MaxTable /\ lastTable' = lastTable + 1)
    /\ lastSeg' = lastSeg \/ (lastSeg < MaxSeg /\ lastSeg' = lastSeg + 1)
    /\ index' = index \/ index' = Refreshed

(* A step that keeps the rest of the invariant keeps it all. *)
LEMMA CountedKeeps ==
    ASSUME IInv, IndexInv', HoldsAfter, Counted PROVE IInv'
<1>1. TypeOK /\ IndexInv
  BY Facts
<1>2. CountersOK'
  BY <1>1, CountersStep DEF Counted
<1>3. index' \in [ForkNames -> IndexedForks \cup {None}]
  BY <1>1, IndexTyped DEF Counted
<1>4. TablesOK' /\ RootsOK'
  BY TypedAfter DEF HoldsAfter
<1>5. StoreOK' /\ VacuumOK'
  BY DEF HoldsAfter, StoreOK
<1>6. TypeOK'
  BY <1>2, <1>3, <1>4, <1>5 DEF TypeOK
<1>7. QED
  BY <1>6, After DEF HoldsAfter

(* Every step of the database keeps the invariant. *)
LEMMA NextKeeps ==
    ASSUME IInv, Allowed = {}, [Next]_vars PROVE IInv'
<1>1. /\ "same_size" \notin Allowed /\ "overlap" \notin Allowed /\ "crash_in_move" \notin Allowed
  OBVIOUS
<1>2. /\ TypeOK /\ IndexInv /\ RootsIn(catalog, forks, entries)
  BY Facts
<1>3. IndexInv'
  BY <1>1, <1>2, NextKeepsIndex
<1>4. CASE UNCHANGED vars
  <2>1. UNCHANGED <<tables, objects, rows, catalog, forks, entries, index, lastTable, lastSeg, ops,
                    crashes, vpc, vscan>>
    BY <1>4 DEF vars, storeVars, rootVars, vacuumVars
  <2>2. HoldsAfter
    <3>1. VacuumOK'
      BY <2>1, Facts DEF VacuumOK
    <3>2. QED
      BY <2>1, <3>1, Facts DEF HoldsAfter
  <2>3. Counted
    BY <2>1 DEF Counted
  <2>4. QED
    BY <1>3, <2>2, <2>3, CountedKeeps
<1>5. ASSUME NEW t \in Tables, HomedIn(catalog, entries, t), Commit(t) PROVE IInv'
  <2>1. Counted
    BY <1>5 DEF Counted, Commit
  <2>2. QED
    BY <1>3, <1>5, <2>1, CommitHolds, CountedKeeps
<1>6. ASSUME NEW n \in Names, BaseCommit(n) PROVE IInv'
  <2>1. catalog[n] \in Tables /\ HomedIn(catalog, entries, catalog[n]) /\ Commit(catalog[n])
    BY <1>2, <1>6 DEF BaseCommit, RootsIn, HomedIn
  <2>2. QED
    BY <1>5, <2>1
<1>7. ASSUME NEW f \in ForkNames, NEW n \in Names, ForkCommit(f, n) PROVE IInv'
  <2>1. entries[f][n] # None /\ Commit(entries[f][n].table)
    BY <1>7 DEF ForkCommit
  <2>2. entries[f][n].table \in Tables /\ HomedIn(catalog, entries, entries[f][n].table)
    BY <1>2, <2>1, EntryFacts DEF HomedIn
  <2>3. QED
    BY <1>5, <2>1, <2>2
<1>8. ASSUME NEW n \in Names, CreateTable(n) PROVE IInv'
  <2>1. Counted
    BY <1>8 DEF Counted, CreateTable, Make
  <2>2. QED
    BY <1>3, <1>8, <2>1, CreateTableHolds, CountedKeeps
<1>9. ASSUME NEW n \in Names, DropTable(n) PROVE IInv'
  <2>1. Counted
    BY <1>9 DEF Counted, DropTable
  <2>2. QED
    BY <1>3, <1>9, <2>1, DropTableHolds, CountedKeeps
<1>10. ASSUME NEW n \in Names, NEW m \in Names, RenameTable(n, m) PROVE IInv'
  <2>1. Counted
    BY <1>10 DEF Counted, RenameTable
  <2>2. QED
    BY <1>1, <1>3, <1>10, <2>1, RenameTableHolds, CountedKeeps
<1>11. ASSUME NEW n \in Names, NEW target \in 1..MaxSeq, SetRetention(n, target) PROVE IInv'
  <2>1. Counted
    BY <1>11 DEF Counted, SetRetention
  <2>2. QED
    BY <1>3, <1>11, <2>1, SetRetentionHolds, CountedKeeps
<1>12. ASSUME NEW f \in ForkNames, DropFork(f) PROVE IInv'
  <2>1. Counted
    BY <1>12 DEF Counted, DropFork
  <2>2. QED
    BY <1>3, <1>12, <2>1, DropForkHolds, CountedKeeps
<1>13. ASSUME NEW f \in ForkNames, NEW parent \in ForkNames \cup {None}, CreateFork(f, parent)
       PROVE  IInv'
  <2>1. Counted
    BY <1>13 DEF Counted, CreateFork
  <2>2. QED
    BY <1>3, <1>13, <2>1, CreateForkHolds, CountedKeeps
<1>14. ASSUME NEW f \in ForkNames, NEW n \in Names,
              CreateForkTable(f, n) \/ MaterializeShadow(f, n) \/ CreateCrash(f, n)
       PROVE  IInv'
  <2>1. Counted
    BY <1>14 DEF Counted, CreateForkTable, MaterializeShadow, CreateCrash, Make
  <2>2. HoldsAfter
    BY <1>14, CreateForkTableHolds, MaterializeShadowHolds, CreateCrashHolds
  <2>3. QED
    BY <1>3, <2>1, <2>2, CountedKeeps
<1>15. ASSUME NEW f \in ForkNames, NEW n \in Names, DropForkTable(f, n) PROVE IInv'
  <2>1. Counted
    BY <1>15 DEF Counted, DropForkTable
  <2>2. QED
    BY <1>3, <1>15, <2>1, DropForkTableHolds, CountedKeeps
<1>16. ASSUME NEW f \in ForkNames, NEW n \in Names, Promote(f, n) PROVE IInv'
  <2>1. Counted
    BY <1>16 DEF Counted, Promote
  <2>2. QED
    BY <1>1, <1>3, <1>16, <2>1, PromoteHolds, CountedKeeps
<1>17. ASSUME NEW f \in ForkNames, NEW n \in Names, PromoteCreated(f, n) PROVE IInv'
  <2>1. Counted
    BY <1>17 DEF Counted, PromoteCreated
  <2>2. QED
    BY <1>3, <1>17, <2>1, PromoteCreatedHolds, CountedKeeps
<1>18. CASE Vacuum
  <2>1. Counted
    BY <1>18 DEF Counted, Vacuum, VacuumScan, VacuumDelete, VacuumIndex, VacuumSweep
  <2>2. HoldsAfter
    BY <1>18, VacuumScanHolds, VacuumDeleteHolds, VacuumIndexHolds, VacuumSweepHolds DEF Vacuum
  <2>3. QED
    BY <1>3, <2>1, <2>2, CountedKeeps
<1>19. CASE Operation
  BY <1>19, <1>6, <1>7, <1>8, <1>9, <1>10, <1>11, <1>12, <1>13, <1>14, <1>15, <1>16, <1>17
     DEF Operation
<1>20. QED
  BY <1>4, <1>18, <1>19 DEF Next

-----------------------------------------------------------------------------
(***************************************************************************)
(* The first state: the base table, and the shadow of a fork of it.        *)
(***************************************************************************)
BaseAtFirst ==
    [vers |-> <<[op |-> "create", segs |-> {}]>> \o
              [k \in 1..Versions |-> [op |-> "write", segs |-> {1} \X (1..k)]],
     floor |-> 0, kept |-> 0]
ShadowAtFirst ==
    [vers |-> Append(<<[op |-> "create", segs |-> {1} \X (1..Versions)]>>,
                     [op |-> "write", segs |-> {1} \X (1..Versions) \cup {<<2, Versions + 1>>}]),
     floor |-> 0, kept |-> 0]

(* Segments that are there at first. *)
LEMMA FirstSegs ==
    /\ 1 \in Tables /\ 2 \in Tables /\ Versions \in Nat /\ Versions <= MaxSeq
    /\ <<2, Versions + 1>> \in Objects
    /\ \A k \in 0..Versions : {1} \X (1..k) \subseteq Objects /\ 1..k \subseteq Segs
<1>1. 1 \in Tables /\ 2 \in Tables /\ Versions \in Nat /\ Versions <= MaxSeq
  BY BoundsAssumption DEF Tables
<1>2. Versions + 1 \in Segs
  BY BoundsAssumption DEF Segs
<1>3. \A k \in 0..Versions : 1..k \subseteq Segs
  BY BoundsAssumption DEF Segs
<1>4. QED
  BY <1>1, <1>2, <1>3 DEF Objects

(* The base table has Versions appends behind it. *)
LEMMA BaseFirst ==
    /\ BaseAtFirst \in TableRecs /\ Len(BaseAtFirst.vers) = Versions + 1
    /\ BaseAtFirst.floor = 0 /\ BaseAtFirst.kept = 0
    /\ \A s \in 0..Versions : BaseAtFirst.vers[s + 1].segs = {1} \X (1..s)
    /\ \A s \in 1..Versions : BaseAtFirst.vers[s + 1].op = "write"
<1> DEFINE one == <<[op |-> "create", segs |-> {}]>>
           more == [k \in 1..Versions |-> [op |-> "write", segs |-> {1} \X (1..k)]]
<1>1. Versions \in Nat
  BY FirstSegs
<1>2. \A k \in 1..Versions : more[k] \in VersionRec
  BY <1>1, FirstSegs DEF VersionRec, OpKinds
<1>3. more \in Seq(VersionRec) /\ Len(more) = Versions
  BY <1>1, <1>2
<1>4. one \in Seq(VersionRec) /\ Len(one) = 1 /\ one[1].segs = {}
  BY DEF VersionRec, OpKinds
<1>5. \A k \in 1..Versions : more[k].segs = {1} \X (1..k) /\ more[k].op = "write"
  OBVIOUS
<1>6. BaseAtFirst.vers = one \o more /\ BaseAtFirst = [vers |-> one \o more, floor |-> 0, kept |-> 0]
  BY DEF BaseAtFirst
<1> HIDE DEF one, more
<1>7. /\ one \o more \in Seq(VersionRec) /\ Len(one \o more) = Versions + 1
      /\ (one \o more)[1] = one[1]
      /\ \A s \in 1..Versions : (one \o more)[s + 1] = more[s]
  <2>1. /\ one \o more \in Seq(VersionRec) /\ Len(one \o more) = Len(one) + Len(more)
        /\ \A i \in 1..Len(one) + Len(more) :
              (one \o more)[i] = IF i <= Len(one) THEN one[i] ELSE more[i - Len(one)]
    BY <1>3, <1>4, ConcatProperties
  <2>2. /\ one \o more \in Seq(VersionRec) /\ Len(one \o more) = 1 + Versions
        /\ \A i \in 1..1 + Versions : (one \o more)[i] = IF i <= 1 THEN one[i] ELSE more[i - 1]
    BY <1>3, <1>4, <2>1
  <2>3. QED
    BY <1>1, <2>2
<1>8. BaseAtFirst \in TableRecs
  BY <1>6, <1>7 DEF TableRecs
<1>9. ASSUME NEW s \in 0..Versions PROVE BaseAtFirst.vers[s + 1].segs = {1} \X (1..s)
  <2>1. CASE s = 0
    <3>1. 1..s = {}
      BY <2>1
    <3>2. QED
      BY <1>4, <1>6, <1>7, <2>1, <3>1
  <2>2. CASE s \in 1..Versions
    BY <1>5, <1>6, <1>7, <2>2
  <2>3. QED
    BY <1>1, <2>1, <2>2
<1>10. QED
  BY <1>5, <1>6, <1>7, <1>8, <1>9

(* The shadow has one append. *)
LEMMA ShadowFirst ==
    /\ ShadowAtFirst \in TableRecs /\ Len(ShadowAtFirst.vers) = 2
    /\ ShadowAtFirst.floor = 0 /\ ShadowAtFirst.kept = 0
    /\ ShadowAtFirst.vers[1].segs = {1} \X (1..Versions)
    /\ ShadowAtFirst.vers[2].segs = {1} \X (1..Versions) \cup {<<2, Versions + 1>>}
    /\ ShadowAtFirst.vers[2].op = "write"
<1> DEFINE old == {1} \X (1..Versions)
           one == [op |-> "create", segs |-> old]
           two == [op |-> "write", segs |-> old \cup {<<2, Versions + 1>>}]
<1>1. old \subseteq Objects /\ <<2, Versions + 1>> \in Objects
  BY FirstSegs
<1> HIDE DEF old
<1>2. one \in VersionRec /\ two \in VersionRec
  BY <1>1 DEF VersionRec, OpKinds
<1>3. /\ two.segs = old \cup {<<2, Versions + 1>>} /\ one.segs = old /\ two.op = "write"
  OBVIOUS
<1>4. ShadowAtFirst = [vers |-> Append(<<one>>, two), floor |-> 0, kept |-> 0]
  BY DEF ShadowAtFirst, old
<1> HIDE DEF one, two
<1>5. /\ Append(<<one>>, two) \in Seq(VersionRec) /\ Len(Append(<<one>>, two)) = 2
      /\ Append(<<one>>, two)[1] = one /\ Append(<<one>>, two)[2] = two
  BY <1>2
<1>6. ShadowAtFirst \in TableRecs
  BY <1>4, <1>5 DEF TableRecs
<1>7. QED
  BY <1>3, <1>4, <1>5, <1>6 DEF old

(* The rest of the first state. *)
FirstPin == [table |-> 1, name |-> First, seq |-> Versions]
FirstEntry == [table |-> 2, origin |-> [table |-> 1, seq |-> Versions], size |-> 2]
AtFirst(first, stage) ==
    /\ catalog = [n \in Names |-> IF n = First THEN 1 ELSE None]
    /\ tables = [t \in Tables |-> IF t = 1 THEN BaseAtFirst
                                  ELSE IF t = 2 /\ stage = "shadow" THEN ShadowAtFirst ELSE None]
    /\ objects = {1} \X (1..Versions) \cup (IF stage = "shadow" THEN {<<2, Versions + 1>>} ELSE {})
    /\ lastTable = IF stage = "shadow" THEN 2 ELSE 1
    /\ lastSeg = IF stage = "shadow" THEN Versions + 1 ELSE Versions
    /\ rows = [s \in Segs |-> IF s <= lastSeg THEN {s} ELSE {}]
    /\ forks = [f \in ForkNames |-> IF f = first /\ stage # "base"
                   THEN [parent |-> None, size |-> 1, pins |-> {FirstPin}] ELSE None]
    /\ entries = [f \in ForkNames |-> [n \in Names |->
                     IF f = first /\ stage = "shadow" /\ n = First THEN FirstEntry ELSE None]]
    /\ index = [f \in ForkNames |-> None]
    /\ ops = 0 /\ crashes = 0 /\ vpc = "idle" /\ vscan = NoScan

(* Which is what Init says. *)
LEMMA InitAtFirst ==
    ASSUME Init
    PROVE  \E first \in ForkNames, stage \in {"base", "fork", "shadow"} : AtFirst(first, stage)
<1>1. \A segs : \A v : [NewTable(segs) EXCEPT !.vers = v] = [vers |-> v, floor |-> 0, kept |-> 0]
  BY DEF NewTable
<1>2. \A segs : NewTable(segs).vers = <<[op |-> "create", segs |-> segs]>>
  BY DEF NewTable
<1>3. BaseAtFirst = [NewTable({}) EXCEPT !.vers = NewTable({}).vers \o [k \in 1..Versions |->
                       [op |-> "write", segs |-> {1} \X (1..k)]]]
  BY <1>1, <1>2 DEF BaseAtFirst
<1> DEFINE old == {1} \X (1..Versions)
           last == [op |-> "write", segs |-> old \cup {<<2, Versions + 1>>}]
<1>4. ShadowAtFirst = [vers |-> Append(<<[op |-> "create", segs |-> old]>>, last),
                       floor |-> 0, kept |-> 0]
  BY DEF ShadowAtFirst
<1>5. ShadowAtFirst = [NewTable(old) EXCEPT !.vers = Append(NewTable(old).vers, last)]
  <2> HIDE DEF old, last
  <2>1. QED
    BY <1>1, <1>2, <1>4
<1>6. PICK first \in ForkNames, stage \in {"base", "fork", "shadow"} :
        /\ catalog = [n \in Names |-> IF n = First THEN 1 ELSE None]
        /\ tables = [t \in Tables |-> IF t = 1
                        THEN [NewTable({}) EXCEPT !.vers = @ \o [k \in 1..Versions |->
                                [op |-> "write", segs |-> {1} \X (1..k)]]]
                        ELSE IF t = 2 /\ stage = "shadow"
                        THEN [NewTable({1} \X (1..Versions)) EXCEPT !.vers =
                                Append(@, [op |-> "write",
                                           segs |-> {1} \X (1..Versions) \cup {<<2, Versions + 1>>}])]
                        ELSE None]
        /\ objects = {1} \X (1..Versions) \cup
                        (IF stage = "shadow" THEN {<<2, Versions + 1>>} ELSE {})
        /\ lastTable = IF stage = "shadow" THEN 2 ELSE 1
        /\ lastSeg = IF stage = "shadow" THEN Versions + 1 ELSE Versions
        /\ rows = [s \in Segs |-> IF s <= lastSeg THEN {s} ELSE {}]
        /\ forks = [f \in ForkNames |-> IF f = first /\ stage # "base"
                       THEN [parent |-> None, size |-> 1, pins |-> {FirstPin}] ELSE None]
        /\ entries = [f \in ForkNames |-> [n \in Names |->
                         IF f = first /\ stage = "shadow" /\ n = First THEN FirstEntry ELSE None]]
        /\ index = [f \in ForkNames |-> None]
        /\ ops = 0 /\ crashes = 0 /\ vpc = "idle" /\ vscan = NoScan
  BY Zenon DEF Init, FirstPin, FirstEntry
<1>7. tables = [t \in Tables |-> IF t = 1 THEN BaseAtFirst
                  ELSE IF t = 2 /\ stage = "shadow" THEN ShadowAtFirst ELSE None]
  BY <1>3, <1>5, <1>6, Zenon
<1>8. AtFirst(first, stage)
  BY <1>6, <1>7, Zenon DEF AtFirst
<1>9. QED
  BY <1>6, <1>8

(* Everything is in place at first. *)
LEMMA InitInv == ASSUME Init PROVE IInv
<1> DEFINE old == {1} \X (1..Versions)
           own == <<2, Versions + 1>>
<1>1. PICK first \in ForkNames, stage \in {"base", "fork", "shadow"} : AtFirst(first, stage)
  BY InitAtFirst
<1>2. /\ 1 \in Tables /\ 2 \in Tables /\ Versions \in Nat /\ Versions <= MaxSeq /\ own \in Objects
      /\ old \subseteq Objects /\ Tables \subseteq Nat /\ None \notin Tables
      /\ First \in Names /\ None \notin Entries /\ None \notin Forks /\ None \notin TableRecs
      /\ None \notin Origins
  BY FirstSegs, TablesNat, ConstantsAssumption, NoneAssumption
<1>3. /\ \A n \in Names : catalog[n] = IF n = First THEN 1 ELSE None
      /\ catalog \in [Names -> Tables \cup {None}]
  BY <1>1, <1>2 DEF AtFirst
<1>4. FirstPin \in Pins /\ FirstEntry \in Entries
  BY <1>2 DEF FirstPin, Pins, FirstEntry, Entries, Origins
<1>5. /\ \A f \in ForkNames : forks[f] # None =>
            forks[f].pins = {FirstPin} /\ forks[f] \in Forks /\ stage # "base" /\ f = first
      /\ stage # "base" => forks[first] # None /\ forks[first].pins = {FirstPin}
      /\ forks \in [ForkNames -> Forks \cup {None}]
  <2> DEFINE fork == [parent |-> None, size |-> 1, pins |-> {FirstPin}]
  <2>1. fork \in Forks /\ fork.pins = {FirstPin}
    BY <1>4 DEF Forks
  <2>2. forks = [f \in ForkNames |-> IF f = first /\ stage # "base" THEN fork ELSE None]
    BY <1>1 DEF AtFirst
  <2> HIDE DEF fork
  <2>3. fork # None
    BY <1>2, <2>1
  <2>4. QED
    BY <2>1, <2>2, <2>3
<1>6. /\ \A f \in ForkNames, n \in Names : entries[f][n] # None =>
            entries[f][n] = FirstEntry /\ f = first /\ n = First /\ stage = "shadow"
      /\ entries \in [ForkNames -> [Names -> Entries \cup {None}]]
  BY <1>1, <1>4 DEF AtFirst
<1>7. /\ FirstPin.table = 1 /\ FirstPin.seq = Versions /\ FirstEntry.table = 2
      /\ FirstEntry.origin.table = 1 /\ FirstEntry.origin.seq = Versions /\ FirstEntry.origin # None
  <2>1. [table |-> 1, seq |-> Versions] \in Origins
    BY <1>2 DEF Origins
  <2>2. QED
    BY <1>2, <2>1 DEF FirstPin, FirstEntry
<1>8. /\ tables[1] = BaseAtFirst /\ tables[2] = (IF stage = "shadow" THEN ShadowAtFirst ELSE None)
      /\ \A t \in Tables : tables[t] # None => t = 1 \/ (t = 2 /\ stage = "shadow")
      /\ tables \in [Tables -> TableRecs \cup {None}] /\ tables[1] # None
      /\ stage = "shadow" => tables[2] # None
  BY <1>1, <1>2, BaseFirst, ShadowFirst DEF AtFirst
<1>9. /\ HeadOf(tables, 1) = Versions /\ tables[1].floor = 0 /\ tables[1].kept = 0
      /\ Len(tables[1].vers) = Versions + 1
      /\ \A s \in 0..Versions : At(tables, 1, s) = {1} \X (1..s)
      /\ \A s \in 1..Versions : OpAt(tables, 1, s) = "write"
  <2>1. tables[1] = BaseAtFirst
    BY <1>8
  <2>2. /\ \A s \in 0..Versions : At(tables, 1, s) = {1} \X (1..s)
        /\ \A s \in 1..Versions : OpAt(tables, 1, s) = "write"
    BY <2>1, BaseFirst, Zenon DEF At, OpAt
  <2>3. /\ tables[1].floor = 0 /\ tables[1].kept = 0 /\ Len(tables[1].vers) = Versions + 1
    BY <2>1, BaseFirst, Zenon
  <2>4. Versions \in Nat
    BY <1>2
  <2>5. HeadOf(tables, 1) = Versions
    BY <2>3, <2>4 DEF HeadOf
  <2>6. QED
    BY <2>2, <2>3, <2>5, Zenon
<1>10. stage = "shadow" =>
         /\ HeadOf(tables, 2) = 1 /\ tables[2].floor = 0 /\ tables[2].kept = 0
         /\ Len(tables[2].vers) = 2
         /\ At(tables, 2, 0) = old /\ At(tables, 2, 1) = old \cup {own} /\ OpAt(tables, 2, 1) = "write"
  BY <1>8, ShadowFirst DEF HeadOf, At, OpAt
<1>11. /\ objects \subseteq Objects /\ old \subseteq objects
       /\ stage = "shadow" => own \in objects
  BY <1>1, <1>2 DEF AtFirst
<1>12. /\ lastTable \in {1, 2} /\ lastTable >= 1
       /\ stage = "shadow" => lastTable = 2
       /\ lastSeg \in Nat /\ lastSeg >= Versions /\ lastSeg <= Versions + 1
       /\ stage = "shadow" => lastSeg = Versions + 1
  BY <1>1, <1>2 DEF AtFirst
<1>13. rows \in [Segs -> SUBSET Segs]
  BY <1>1 DEF AtFirst
<1>14. TypeOK
  <2>1. TablesOK
    <3>1. ASSUME NEW t \in Tables, tables[t] # None
          PROVE  /\ Len(tables[t].vers) \in 1..MaxSeq + 1
                 /\ tables[t].floor < Len(tables[t].vers) /\ tables[t].kept <= tables[t].floor
      <4>1. CASE t = 1
        BY <1>2, <1>9, <4>1, BoundsAssumption
      <4>2. CASE t = 2 /\ stage = "shadow"
        <5>1. Len(tables[t].vers) = 2 /\ tables[t].floor = 0 /\ tables[t].kept = 0
          BY <1>10, <4>2
        <5>2. 2 \in 1..MaxSeq + 1
          BY BoundsAssumption
        <5>3. QED
          BY <5>1, <5>2
      <4>3. QED
        BY <1>8, <3>1, <4>1, <4>2
    <3>2. QED
      BY <1>8, <3>1 DEF TablesOK
  <2>2. CountersOK
    BY <1>1, <1>2, <1>12, BoundsAssumption DEF CountersOK, AtFirst
  <2>3. NoScan \in Scans
    BY BoundsAssumption DEF NoScan, Scans
  <2>4. VacuumOK
    BY <1>1, <2>3 DEF VacuumOK, AtFirst
  <2>5. index \in [ForkNames -> IndexedForks \cup {None}]
    BY <1>1 DEF AtFirst
  <2>6. QED
    BY <1>3, <1>5, <1>6, <1>11, <1>13, <2>1, <2>2, <2>4, <2>5 DEF TypeOK, StoreOK, RootsOK
<1>15. OneHomeIn(catalog, entries)
  <2>1. \A f \in ForkNames, n, m \in Names : entries[f][n] # None => catalog[m] # entries[f][n].table
    BY <1>2, <1>3, <1>6, <1>7
  <2>2. \A n, m \in Names : catalog[n] # None /\ catalog[n] = catalog[m] => n = m
    BY <1>3
  <2>3. QED
    BY <1>6, <2>1, <2>2 DEF OneHomeIn
<1>16. HomesIn(tables, catalog, forks, entries, lastTable)
  <2>1. \A n \in Names : catalog[n] # None => catalog[n] <= lastTable /\ tables[catalog[n]] # None
    BY <1>3, <1>8, <1>12
  <2>2. ASSUME NEW f \in ForkNames, NEW n \in Names, entries[f][n] # None
        PROVE  /\ forks[f] # None /\ entries[f][n].table <= lastTable
               /\ tables[entries[f][n].table] # None /\ tables[entries[f][n].table].floor = 0
    <3>1. entries[f][n] = FirstEntry /\ f = first /\ stage = "shadow"
      BY <1>6, <2>2
    <3>2. QED
      BY <1>5, <1>7, <1>8, <1>10, <1>12, <3>1
  <2>3. QED
    BY <2>1, <2>2 DEF HomesIn
<1>17. HomedIn(catalog, entries, 1)
  BY <1>2, <1>3 DEF HomedIn
<1>18. PinsIn(tables, catalog, forks, entries)
  <2>1. ASSUME NEW f \in ForkNames, forks[f] # None, NEW p \in forks[f].pins
        PROVE  PinIn(tables, catalog, entries, f, p)
    <3>1. p = FirstPin
      BY <1>5, <2>1
    <3>2. QED
      BY <1>2, <1>6, <1>7, <1>9, <1>17, <3>1 DEF PinIn
  <2>2. QED
    BY <2>1 DEF PinsIn
<1>19. \A s \in 0..Versions : At(tables, 1, s) \subseteq Own(1) /\ At(tables, 1, s) \subseteq old
  BY <1>2, <1>9 DEF Own
<1>20. SegmentsIn(tables, catalog, forks, entries)
  <2>1. \A n \in Names : catalog[n] # None => InsideIn(tables, catalog[n], {})
    BY <1>3, <1>9, <1>19 DEF InsideIn
  <2>2. ASSUME NEW f \in ForkNames, NEW n \in Names, entries[f][n] # None
        PROVE  EntryIn(tables, forks[f], entries[f][n])
    <3>1. entries[f][n] = FirstEntry /\ f = first /\ stage = "shadow"
      BY <1>6, <2>2
    <3>2. forks[f].pins = {FirstPin}
      BY <1>5, <3>1
    <3>3. At(tables, 1, Versions) = old
      BY <1>2, <1>9
    <3>4. own \in Own(2)
      BY <1>2 DEF Own
    <3>5. InsideIn(tables, 2, At(tables, 1, Versions))
      <4>1. \A s \in 0..1 : s = 0 \/ s = 1
        OBVIOUS
      <4> HIDE DEF old, own
      <4>2. QED
        BY <1>10, <3>1, <3>3, <3>4, <4>1 DEF InsideIn
    <3>6. QED
      BY <1>7, <3>1, <3>2, <3>5 DEF EntryIn
  <2>3. QED
    BY <2>1, <2>2 DEF SegmentsIn
<1>21. AllPresentIn(tables, catalog, entries, objects)
  <2>1. ASSUME NEW t \in Tables, HomedIn(catalog, entries, t) PROVE PresentIn(tables, objects, t)
    <3>1. t = 1 \/ (t = 2 /\ stage = "shadow")
      BY <1>2, <1>3, <1>6, <1>7, <2>1 DEF HomedIn
    <3>2. CASE t = 1
      BY <1>9, <1>11, <1>19, <3>2 DEF PresentIn
    <3>3. CASE t = 2 /\ stage = "shadow"
      <4>1. \A s \in 0..1 : s = 0 \/ s = 1
        OBVIOUS
      <4> HIDE DEF old, own
      <4>2. QED
        BY <1>10, <1>11, <3>3, <4>1 DEF PresentIn
    <3>4. QED
      BY <3>1, <3>2, <3>3
  <2>2. QED
    BY <2>1 DEF AllPresentIn
<1>22. AllRowsKeptIn(tables, rows, lastSeg)
  <2>1. \A o \in old : o[2] <= lastSeg
    BY <1>2, <1>12
  <2>2. stage = "shadow" => own[2] <= lastSeg
    BY <1>2, <1>12
  <2>3. RowsKeptIn(tables, rows, lastSeg, 1)
    <3>1. \A s \in 0..Versions : \A o \in At(tables, 1, s) : o[2] <= lastSeg
      BY <1>19, <2>1
    <3>2. ASSUME NEW s \in 0..Versions, NEW u \in 0..Versions, s <= u,
                 \A k \in s + 1..u : OpAt(tables, 1, k) = "compact"
          PROVE  s = u
      <4>1. CASE s < u
        <5>1. u \in s + 1..u /\ u \in 1..Versions
          BY <1>2, <4>1
        <5>2. QED
          BY <1>9, <3>2, <5>1
      <4>2. QED
        BY <1>2, <3>2, <4>1
    <3>3. QED
      BY <1>9, <3>1, <3>2 DEF RowsKeptIn
  <2>4. ASSUME stage = "shadow" PROVE RowsKeptIn(tables, rows, lastSeg, 2)
    <3>1. \A s \in 0..1 : s = 0 \/ s = 1
      OBVIOUS
    <3> HIDE DEF old, own
    <3>2. \A s \in 0..1 : \A o \in At(tables, 2, s) : o[2] <= lastSeg
      BY <1>10, <2>1, <2>2, <2>4, <3>1
    <3>3. ASSUME NEW s \in 0..1, NEW u \in 0..1, s <= u,
                 \A k \in s + 1..u : OpAt(tables, 2, k) = "compact"
          PROVE  s = u
      <4>1. CASE s = 0 /\ u = 1
        <5>1. 1 \in s + 1..u
          BY <4>1
        <5>2. QED
          BY <1>10, <2>4, <3>3, <5>1
      <4>2. QED
        BY <3>1, <3>3, <4>1
    <3>4. QED
      BY <1>10, <2>4, <3>2, <3>3 DEF RowsKeptIn
  <2>5. QED
    BY <1>8, <2>3, <2>4 DEF AllRowsKeptIn
<1>23. ScanIn(tables, catalog, entries, vpc, vscan, lastTable, lastSeg)
  BY <1>1, <1>12 DEF ScanIn, AtFirst, NoScan
<1>24. QED
  BY <1>14, <1>15, <1>16, <1>18, <1>20, <1>21, <1>22, <1>23, InitIndex, Before DEF WorldIn

-----------------------------------------------------------------------------
(***************************************************************************)
(* The theorems.  The hypothesis Allowed = {} is what the design asks of   *)
(* its environment (see Forks and the README).                             *)
(***************************************************************************)

(* The invariant of the fork machinery: every variable has its type, every
   table has one home, every pin is of a retained version of a registered
   table, and every segment a registered table lists is there. *)
THEOREM InvariantHolds ==
    ASSUME Allowed = {} PROVE Spec => []IInv
<1>1. Init => IInv
  BY InitInv
<1>2. IInv /\ [Next]_vars => IInv'
  BY NextKeeps
<1>3. QED
  BY <1>1, <1>2, PTL DEF Spec

(* Every table, pin, entry and index row keeps its type. *)
THEOREM TypeCorrect ==
    ASSUME Allowed = {} PROVE Spec => []TypeOK
<1>1. IInv => TypeOK
  BY DEF IInv
<1>2. QED
  BY <1>1, InvariantHolds, PTL

(* A version of a registered table that is not below its floor is readable. *)
LEMMA HomedReadable ==
    ASSUME IInv, NEW t \in Tables, Homed(t), NEW seqs, seqs \subseteq tables[t].floor..HeadSeq(t)
    PROVE  Readable(t, seqs)
<1>1. /\ RootsIn(catalog, forks, entries) /\ HomesIn(tables, catalog, forks, entries, lastTable)
  BY Facts
<1>2. HomedIn(catalog, entries, t)
  BY DEF Homed, HomedIn
<1>3. tables[t] # None
  BY <1>1, <1>2, HomedExists
<1>4. Present(t)
  BY DEF IInv, AllPresent
<1>5. QED
  BY <1>3, <1>4 DEF Present, Readable

(* What may be read is there. *)
LEMMA InvReadable == ASSUME IInv PROVE ViewsReadable
<1>1. /\ RootsIn(catalog, forks, entries) /\ HomesIn(tables, catalog, forks, entries, lastTable)
      /\ TablesIn(tables) /\ PinsIn(tables, catalog, forks, entries)
  BY Facts
<1>2. ASSUME NEW t \in Cataloged PROVE Readable(t, tables[t].floor..HeadSeq(t))
  <2>1. t \in Tables /\ Homed(t)
    BY <1>1 DEF Cataloged, Homed, RootsIn
  <2>2. QED
    BY <2>1, HomedReadable
<1>3. ASSUME NEW f \in ForkNames, forks[f] # None, NEW p \in forks[f].pins
      PROVE  Readable(p.table, {p.seq}) /\ p.seq >= tables[p.table].kept
  <2>1. p.table \in Tables /\ p.seq \in Nat /\ tables[p.table] # None
    BY <1>1, <1>3, PinFacts
  <2>2. Homed(p.table) /\ p.seq >= tables[p.table].floor /\ p.seq <= HeadSeq(p.table)
    BY <1>3 DEF IInv, PinsOK
  <2>3. /\ tables[p.table].floor \in Nat /\ tables[p.table].kept \in Nat
        /\ tables[p.table].kept <= tables[p.table].floor /\ HeadSeq(p.table) \in Nat
    BY <1>1, <2>1, TableFacts DEF HeadSeq, HeadOf
  <2>4. p.seq \in tables[p.table].floor..HeadSeq(p.table)
    BY <2>1, <2>2, <2>3
  <2>5. Readable(p.table, {p.seq})
    BY <2>1, <2>2, <2>4, HomedReadable
  <2>6. QED
    BY <2>1, <2>2, <2>3, <2>5
<1>4. ASSUME NEW f \in ForkNames, forks[f] # None, NEW t \in Owned(f)
      PROVE  Readable(t, 0..HeadSeq(t))
  <2>1. PICK n \in Names : entries[f][n] # None /\ t = entries[f][n].table
    BY <1>4 DEF Owned
  <2>2. t \in Tables /\ Homed(t)
    BY <1>1, <2>1, EntryFacts DEF Homed
  <2>3. tables[t].floor = 0
    BY <1>1, <2>1 DEF HomesIn
  <2>4. QED
    BY <2>2, <2>3, HomedReadable
<1>5. QED
  BY <1>2, <1>3, <1>4 DEF ViewsReadable

(* Drops, retention, promotes and vacuum never take what somebody may still
   ask for: the retained versions of base tables, every version a live fork
   pins and every version of the tables it owns have their manifests and all
   their segments, whatever drop_fork was cut short in and wherever vacuum
   stood when a fork was cut, a table promoted or a floor raised. *)
THEOREM ViewsStay ==
    ASSUME Allowed = {} PROVE Spec => []ViewsReadable
<1>1. IInv => ViewsReadable
  BY InvReadable
<1>2. QED
  BY <1>1, InvariantHolds, PTL

(* A shadow lists its own segments and those of the version it was cut from. *)
LEMMA InvRefines == ASSUME IInv PROVE Refinement
<1>1. SUFFICES ASSUME NEW f \in ForkNames, NEW n \in Names, forks[f] # None, entries[f][n] # None
               PROVE  LET e == entries[f][n]
                          foreign == (UNION {Version(e.table, s).segs : s \in 0..HeadSeq(e.table)})
                                        \ Own(e.table)
                      IN  IF e.origin = None THEN foreign = {}
                          ELSE /\ foreign \subseteq Version(e.origin.table, e.origin.seq).segs
                               /\ \E p \in forks[f].pins :
                                     p.table = e.origin.table /\ p.seq = e.origin.seq
  BY DEF Refinement
<1> DEFINE e == entries[f][n]
           listed == UNION {Version(e.table, s).segs : s \in 0..HeadSeq(e.table)}
<1>2. IF e.origin = None THEN Inside(e.table, {})
      ELSE /\ Inside(e.table, Version(e.origin.table, e.origin.seq).segs)
           /\ \E p \in forks[f].pins : p.table = e.origin.table /\ p.seq = e.origin.seq
  BY <1>1 DEF IInv, SegmentsOK
<1> HIDE DEF e
<1>3. ASSUME NEW segs, Inside(e.table, segs) PROVE listed \ Own(e.table) \subseteq segs
  BY <1>3 DEF Inside
<1>4. CASE e.origin = None
  BY <1>2, <1>3, <1>4 DEF e
<1>5. CASE e.origin # None
  BY <1>2, <1>3, <1>5 DEF e
<1>6. QED
  BY <1>4, <1>5

(* What a shadow reads and did not write is of the version its fork pins,
   and the pin is still there, after every promote, drop and compaction of
   the table it was cut from. *)
THEOREM ShadowsRefine ==
    ASSUME Allowed = {} PROVE Spec => []Refinement
<1>1. IInv => Refinement
  BY InvRefines
<1>2. QED
  BY <1>1, InvariantHolds, PTL

(* The rows of a union. *)
LEMMA RowsJoin ==
    ASSUME NEW R, NEW A, NEW B
    PROVE  RowsIn(R, A \cup B) = RowsIn(R, A) \cup RowsIn(R, B)
<1>1. \A r : r \in RowsIn(R, A \cup B) <=> r \in RowsIn(R, A) \/ r \in RowsIn(R, B)
  BY DEF RowsIn
<1>2. QED
  BY <1>1

(* Segments linked under another table. *)
LinkedUnder(t, A) == {<<t, o[2]>> : o \in A}

(* Their rows. *)
LEMMA RowsMoved ==
    ASSUME NEW R, NEW A, NEW t PROVE RowsIn(R, LinkedUnder(t, A)) = RowsIn(R, A)
<1> DEFINE moved == {<<t, o[2]>> : o \in A}
<1>1. \A o \in A : <<t, o[2]>> \in moved /\ <<t, o[2]>>[2] = o[2]
  OBVIOUS
<1>2. \A m \in moved : \E o \in A : m[2] = o[2]
  OBVIOUS
<1> HIDE DEF moved
<1>3. ASSUME NEW r PROVE (\E m \in moved : r \in R[m[2]]) <=> \E o \in A : r \in R[o[2]]
  BY <1>1, <1>2
<1>4. \A r : r \in RowsIn(R, moved) <=> r \in RowsIn(R, A)
  BY <1>3 DEF RowsIn
<1>5. RowsIn(R, moved) = RowsIn(R, A)
  BY <1>4
<1>6. QED
  BY <1>5 DEF moved, LinkedUnder

(* The version a promote records has the rows of the shadow. *)
LEMMA PromotedRows ==
    ASSUME IInv, NEW f \in ForkNames, NEW n \in Names, entries[f][n] # None,
           entries[f][n].origin # None, Promotable(entries[f][n])
    PROVE  LET e == entries[f][n]
           IN  RowsIn(rows, Promoted(e)) = RowsIn(rows, HeadVersion(e.table).segs)
<1> DEFINE e == entries[f][n]
           o == e.origin.table
           q == e.origin.seq
           h == HeadOf(tables, o)
           mine == At(tables, e.table, HeadOf(tables, e.table))
           own == mine \cap Own(e.table)
           pinned == At(tables, o, q)
           base == At(tables, o, h)
<1>1. /\ TablesIn(tables) /\ RootsIn(catalog, forks, entries)
      /\ HomesIn(tables, catalog, forks, entries, lastTable)
      /\ PinsIn(tables, catalog, forks, entries) /\ SegmentsIn(tables, catalog, forks, entries)
      /\ AllRowsKeptIn(tables, rows, lastSeg)
  BY Facts
<1>2. /\ o \in Tables /\ q \in Nat /\ tables[o] # None
      /\ q \in 0..h /\ InsideIn(tables, e.table, pinned)
  BY <1>1, OriginFacts
<1>3. e.table \in Tables /\ tables[e.table] # None
  BY <1>1, EntryFacts DEF HomesIn
<1>4. h \in Nat /\ HeadOf(tables, e.table) \in 0..HeadOf(tables, e.table)
  BY <1>1, <1>2, <1>3, TableFacts
<1>5. mine \subseteq Own(e.table) \cup pinned
  BY <1>2, <1>4 DEF InsideIn
<1>6. /\ HeadVersion(e.table).segs = mine /\ HeadVersion(o).segs = base /\ HeadSeq(o) = h
      /\ Version(o, q).segs = pinned
  BY DEF HeadVersion, Version, HeadSeq, HeadOf, At
<1>7. \A s : Version(o, s).op = OpAt(tables, o, s)
  BY DEF Version, OpAt
<1> HIDE DEF mine, base, pinned, h, q, o, e
<1>8. Linked(e) = LinkedUnder(o, own)
  BY <1>6 DEF Linked, LinkedUnder, o
<1>9. RowsIn(rows, Linked(e)) = RowsIn(rows, own)
  <2> HIDE DEF own
  <2>1. QED
    BY <1>8, RowsMoved
<1>10. Promotable(e) /\ e.origin.table = o /\ e.origin.seq = q
  BY DEF e, o, q
<1>11. CASE h = q
  <2>1. Promoted(e) = (mine \ Own(e.table)) \cup Linked(e)
    BY <1>6, <1>10, <1>11 DEF Promoted
  <2>2. mine = (mine \ Own(e.table)) \cup own
    OBVIOUS
  <2> HIDE DEF own
  <2>3. RowsIn(rows, Promoted(e)) = RowsIn(rows, mine \ Own(e.table)) \cup RowsIn(rows, own)
    BY <1>9, <2>1, RowsJoin
  <2>4. RowsIn(rows, mine) = RowsIn(rows, mine \ Own(e.table)) \cup RowsIn(rows, own)
    BY <2>2, RowsJoin
  <2>5. QED
    BY <1>6, <2>3, <2>4 DEF e
<1>12. CASE h # q
  <2>1. CompactedSince(o, q) /\ pinned \subseteq mine
    BY <1>6, <1>10, <1>12 DEF Promotable
  <2>2. Promoted(e) = base \cup Linked(e)
    BY <1>6, <1>10, <1>12 DEF Promoted
  <2>3. RowsIn(rows, base) = RowsIn(rows, pinned)
    <3>1. RowsKeptIn(tables, rows, lastSeg, o)
      BY <1>1, <1>2 DEF AllRowsKeptIn
    <3>2. \A k \in q + 1..h : OpAt(tables, o, k) = "compact"
      BY <1>6, <1>7, <2>1 DEF CompactedSince
    <3>3. q \in 0..h /\ h \in 0..h /\ q <= h
      BY <1>2, <1>4
    <3>4. QED
      BY <3>1, <3>2, <3>3 DEF RowsKeptIn, h, base, pinned
  <2>4. mine = pinned \cup own
    BY <1>5, <2>1
  <2> HIDE DEF own
  <2>5. RowsIn(rows, Promoted(e)) = RowsIn(rows, pinned) \cup RowsIn(rows, own)
    BY <1>9, <2>2, <2>3, RowsJoin
  <2>6. RowsIn(rows, mine) = RowsIn(rows, pinned) \cup RowsIn(rows, own)
    BY <2>4, RowsJoin
  <2>7. QED
    BY <1>6, <2>5, <2>6 DEF e
<1>13. QED
  BY <1>11, <1>12

(* A promote that is not cut short makes that version the head of the base. *)
LEMMA PromoteStep ==
    ASSUME IInv, NEW f \in ForkNames, NEW n \in Names, Promote(f, n), crashes' = crashes
    PROVE  RowsOf(HeadVersion(entries[f][n].origin.table)'.segs)
              = RowsOf(HeadVersion(entries[f][n].table).segs)
<1> DEFINE e == entries[f][n]
           o == e.origin.table
           v == [op |-> "promote", segs |-> Promoted(e)]
<1>1. /\ e # None /\ e.origin # None /\ Promotable(e) /\ HeadSeq(o) < MaxSeq /\ entries' = entries
  BY DEF Promote, rootVars
<1>2. TablesIn(tables) /\ crashes \in Nat /\ objects \subseteq Objects
  BY Facts
<1>3. /\ o \in Tables /\ tables[o] # None /\ Linked(e) \subseteq Objects
      /\ Promoted(e) \subseteq objects \cup Linked(e)
  BY <1>1, PromotedFacts
<1>4. RowsIn(rows, Promoted(e)) = RowsIn(rows, HeadVersion(e.table).segs)
  BY <1>1, PromotedRows, Zenon
<1>5. tables' = With(tables, o, v)
  <2>1. tables' = With(tables, o, v) \/ crashes' = crashes + 1
    BY Zenon DEF Promote, With
  <2>2. crashes' # crashes + 1
    BY <1>2
  <2>3. QED
    BY <2>1, <2>2, Zenon
<1>6. HeadVersion(entries[f][n].origin.table)' = tables'[o].vers[HeadOf(tables', o) + 1]
  BY <1>1 DEF HeadVersion, Version, HeadSeq, HeadOf
<1> HIDE DEF e, o, v
<1>7. v \in VersionRec /\ v.segs = Promoted(e)
  BY <1>2, <1>3 DEF VersionRec, OpKinds, v
<1>8. HeadOf(tables, o) < MaxSeq
  BY <1>1 DEF HeadSeq, HeadOf
<1>9. /\ HeadOf(tables', o) = HeadOf(tables, o) + 1
      /\ At(tables', o, HeadOf(tables, o) + 1) = v.segs
  BY <1>2, <1>3, <1>5, <1>7, <1>8, Grown
<1>10. HeadVersion(entries[f][n].origin.table)'.segs = Promoted(e)
  BY <1>6, <1>7, <1>9 DEF At
<1>11. QED
  BY <1>4, <1>10 DEF RowsOf, RowsIn, e

(* A promote makes the base table read exactly as the shadow read: over the
   version it was cut from it puts the shadow's segments, over compactions
   of it the shadow's own segments beside what the base has become, and in
   both cases the rows are the rows the fork saw. *)
THEOREM PromotesExact ==
    ASSUME Allowed = {} PROVE Spec => PromoteExact
<1> DEFINE Exact == \A f \in ForkNames : \A n \in Names :
              Promote(f, n) /\ crashes' = crashes =>
                  RowsOf(HeadVersion(entries[f][n].origin.table)'.segs)
                      = RowsOf(HeadVersion(entries[f][n].table).segs)
<1>1. IInv => Exact
  BY PromoteStep
<1>2. IInv /\ [Next]_vars => [Exact]_vars
  BY <1>1
<1>3. QED
  BY <1>2, InvariantHolds, PTL DEF Spec, PromoteExact
=============================================================================
