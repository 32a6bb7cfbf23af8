-------------------------------- MODULE Forks --------------------------------
(***************************************************************************)
(* Forks over a base database: the catalog, pins, copy-on-write shadows,   *)
(* promotion, the fork index that guards drops and retention, and vacuum.  *)
(*                                                                         *)
(* Everything here but vacuum holds the metadata lock from its first check *)
(* to its last write, so it is one step; a crash may leave any prefix of   *)
(* its writes.  Vacuum takes no lock and is four steps.  A commit is one   *)
(* step (LocalCommit and Reclaim are about its inside), and so is a        *)
(* resolution of a name, which fork handles repeat on every call.          *)
(*                                                                         *)
(* A table directory is a number (its UUID); a segment is a number, and an *)
(* object is the pair of the directory it lies in and the segment, because *)
(* promote links one segment under a second table.                         *)
(***************************************************************************)
EXTENDS Integers, Sequences, FiniteSets

CONSTANTS Names,            \* table names
          ForkNames,
          None,             \* no table, no fork, no entry
          First, Versions,  \* the base table there is at first, and how often it was appended to
          MaxTable,         \* bound: table directories ever made
          MaxSeg,           \* bound: segments ever written
          MaxSeq,           \* bound: highest version of a table
          MaxOps,           \* bound: operations, vacuum apart
          MaxCrash,         \* bound: crashes inside an operation
          MaxSize,          \* bound: sizes of a fork object told apart
          Allowed           \* what the environment may do that the design does not survive

VARIABLES
    tables,     \* table directories: their versions, retention floor, oldest manifest kept
    objects,    \* segment objects that exist
    rows,       \* the rows of each segment
    catalog,    \* catalog/tables: name -> table
    forks,      \* forks/<name>.json: parent and pins
    entries,    \* catalog/forks/<fork>/<name>: the tables a fork owns
    index,      \* FORK_INDEX.json
    lastTable, lastSeg, ops, crashes,
    vpc, vscan  \* vacuum: where it is, what it has read

storeVars == <<tables, objects, rows>>
rootVars == <<catalog, forks, entries>>
vacuumVars == <<vpc, vscan>>
vars == <<storeVars, rootVars, index, lastTable, lastSeg, ops, crashes, vacuumVars>>

-----------------------------------------------------------------------------
Tables == 1..MaxTable
Segs == 1..MaxSeg
Objects == Tables \X Segs
OpKinds == {"create", "write", "compact", "promote"}
VersionRec == [op : OpKinds, segs : SUBSET Objects]
TableRecs == [vers : Seq(VersionRec), floor : Nat, kept : Nat]
Pins == [table : Tables, name : Names, seq : 0..MaxSeq]
Forks == [parent : ForkNames \cup {None}, pins : SUBSET Pins, size : Nat]
Origins == [table : Tables, seq : 0..MaxSeq]
Entries == [table : Tables, origin : Origins \cup {None}, size : Nat]
IndexedEntries == [table : Tables, size : Nat]
IndexedForks == [size : Nat, pins : SUBSET (Tables \X (0..MaxSeq)),
                 owned : [Names -> IndexedEntries \cup {None}]]
Scans == [ref : SUBSET Objects, floors : [Tables -> 0..MaxSeq], roots : SUBSET Tables,
          table : 0..MaxTable, seg : 0..MaxSeg]
NoScan == [ref |-> {}, floors |-> [t \in Tables |-> 0], roots |-> {}, table |-> 0, seg |-> 0]

ASSUME ConstantsAssumption ==
    /\ First \in Names
    /\ Allowed \subseteq {"same_size", "overlap", "dead_parent", "crash_in_move"}

ASSUME BoundsAssumption ==
    /\ MaxTable \in Nat /\ MaxTable >= 2
    /\ Versions \in Nat /\ MaxSeg \in Nat /\ MaxSeq \in Nat
    /\ Versions < MaxSeg /\ Versions <= MaxSeq /\ MaxSeq >= 1
    /\ MaxOps \in Nat /\ MaxCrash \in Nat
    /\ MaxSize \in Nat /\ MaxSize >= 1

ASSUME NoneAssumption ==
    /\ None \notin Names /\ None \notin ForkNames /\ None \notin Nat
    /\ None \notin TableRecs /\ None \notin Forks /\ None \notin Origins /\ None \notin Entries
    /\ None \notin IndexedForks /\ None \notin IndexedEntries

TablesOK ==
    /\ tables \in [Tables -> TableRecs \cup {None}]
    /\ \A t \in Tables : tables[t] # None =>
          /\ Len(tables[t].vers) \in 1..MaxSeq + 1
          /\ tables[t].floor < Len(tables[t].vers) /\ tables[t].kept <= tables[t].floor
StoreOK == objects \subseteq Objects /\ rows \in [Segs -> SUBSET Segs]
RootsOK ==
    /\ catalog \in [Names -> Tables \cup {None}]
    /\ forks \in [ForkNames -> Forks \cup {None}]
    /\ entries \in [ForkNames -> [Names -> Entries \cup {None}]]
CountersOK ==
    /\ lastTable \in 0..MaxTable /\ lastSeg \in 0..MaxSeg /\ ops \in 0..MaxOps
    /\ crashes \in 0..MaxCrash
VacuumOK == vpc \in {"idle", "delete", "index", "sweep"} /\ vscan \in Scans

TypeOK ==
    /\ TablesOK /\ StoreOK /\ RootsOK /\ CountersOK /\ VacuumOK
    /\ index \in [ForkNames -> IndexedForks \cup {None}]

-----------------------------------------------------------------------------
HeadSeq(t) == Len(tables[t].vers) - 1
Version(t, seq) == tables[t].vers[seq + 1]
HeadVersion(t) == Version(t, HeadSeq(t))
RowsOf(segs) == UNION {rows[o[2]] : o \in segs}
Own(t) == {o \in Objects : o[1] = t}
NoEntries == [n \in Names |-> None]

(* A fresh table directory with its version 0. *)
NewTable(segs) == [vers |-> <<[op |-> "create", segs |-> segs]>>, floor |-> 0, kept |-> 0]

(* How long the objects are that the index rows are keyed by.  A fork object *)
(* holds a note and parameters of the caller's, so it may have any size; an  *)
(* entry is longer when it has an origin, and is otherwise UUIDs, checksums  *)
(* and times, which have one length.                                         *)
ForkSizes == 1..MaxSize
EntrySize(origin) == IF origin = None THEN 1 ELSE 2

(* The base table has Versions appends behind it; perhaps a fork has been     *)
(* cut at its HEAD, perhaps the fork has appended to its shadow, table 2.     *)
Init ==
    \E first \in ForkNames : \E stage \in {"base", "fork", "shadow"} :
    LET base == [NewTable({}) EXCEPT !.vers = @ \o [k \in 1..Versions |->
                    [op |-> "write", segs |-> {1} \X (1..k)]]]
        own == <<2, Versions + 1>>
        shadow == [NewTable({1} \X (1..Versions)) EXCEPT !.vers =
                    Append(@, [op |-> "write", segs |-> {1} \X (1..Versions) \cup {own}])]
        pin == [table |-> 1, name |-> First, seq |-> Versions]
        entry == [table |-> 2, origin |-> [table |-> 1, seq |-> Versions], size |-> 2]
        written == stage = "shadow"
    IN  /\ catalog = [n \in Names |-> IF n = First THEN 1 ELSE None]
        /\ tables = [t \in Tables |-> IF t = 1 THEN base
                                      ELSE IF t = 2 /\ written THEN shadow ELSE None]
        /\ objects = {1} \X (1..Versions) \cup (IF written THEN {own} ELSE {})
        /\ lastTable = IF written THEN 2 ELSE 1
        /\ lastSeg = IF written THEN Versions + 1 ELSE Versions
        /\ rows = [s \in Segs |-> IF s <= lastSeg THEN {s} ELSE {}]
        /\ forks = [f \in ForkNames |-> IF f = first /\ stage # "base"
                       THEN [parent |-> None, size |-> 1, pins |-> {pin}] ELSE None]
        /\ entries = [f \in ForkNames |-> [n \in Names |->
                         IF f = first /\ written /\ n = First THEN entry ELSE None]]
        /\ index = [f \in ForkNames |-> None]
        /\ ops = 0 /\ crashes = 0
        /\ vpc = "idle" /\ vscan = NoScan

-----------------------------------------------------------------------------
(***************************************************************************)
(* The fork index.  refresh lists the fork objects and the fork catalog,   *)
(* keeps what the stored index has for an object that is still there at    *)
(* the same size, reads the others, and stores the result.                 *)
(***************************************************************************)
IndexedOwned(f, n) ==
    IF entries[f][n] = None THEN None
    ELSE IF /\ index[f] # None
            /\ index[f].owned[n] # None
            /\ index[f].owned[n].size = entries[f][n].size
         THEN index[f].owned[n]
         ELSE [table |-> entries[f][n].table, size |-> entries[f][n].size]

IndexedPins(f) ==
    IF index[f] # None /\ index[f].size = forks[f].size
    THEN index[f].pins
    ELSE {<<p.table, p.seq>> : p \in forks[f].pins}

Refreshed ==
    [f \in ForkNames |->
        IF forks[f] = None THEN None
        ELSE [size |-> forks[f].size, pins |-> IndexedPins(f),
              owned |-> [n \in Names |-> IndexedOwned(f, n)]]]

(* The size is all that refresh compares: a fork or an entry made again at   *)
(* the size the stored index still has for its name is reported as the old   *)
(* one was.  The design does not survive that, whoever does it.              *)
ForkTold(f, size, pins) ==
    \/ "same_size" \in Allowed
    \/ index[f] # None /\ index[f].size = size => index[f].pins = {<<p.table, p.seq>> : p \in pins}
EntryTold(f, n, e) ==
    \/ "same_size" \in Allowed
    \/ index[f] # None /\ index[f].owned[n] # None /\ index[f].owned[n].size = e.size =>
          index[f].owned[n].table = e.table

IndexedForkNames == {f \in ForkNames : Refreshed[f] # None}
Pinned(t) == \E f \in IndexedForkNames : \E p \in Refreshed[f].pins : p[1] = t
(* Mutant: the pin may be one below the floor. *)
PinnedBelowByTwo(t, seq) == \E f \in IndexedForkNames : \E p \in Refreshed[f].pins :
                               p[1] = t /\ p[2] < seq - 1
PinnedBelow(t, seq) == \E f \in IndexedForkNames : \E p \in Refreshed[f].pins :
                          p[1] = t /\ p[2] < seq
OwnedBy(f) == {Refreshed[f].owned[n].table : n \in {m \in Names : Refreshed[f].owned[m] # None}}
DependOn(f) == {g \in IndexedForkNames \ {f} : \E p \in Refreshed[g].pins : p[1] \in OwnedBy(f)}

-----------------------------------------------------------------------------
(***************************************************************************)
(* Names.  A fork sees its own tables over the tables it pins (entry_opt,  *)
(* list_tables); the base sees the catalog.                                *)
(***************************************************************************)
PinNamed(f, n) == CHOOSE p \in forks[f].pins : p.name = n
Visible(f, n) ==
    IF f = None THEN catalog[n]
    ELSE IF entries[f][n] # None THEN entries[f][n].table
    ELSE IF \E p \in forks[f].pins : p.name = n THEN PinNamed(f, n).table
    ELSE None

(* The version a handle reads as latest: the pin of a pinned table, or HEAD. *)
EffectiveHead(f, t) ==
    IF f # None /\ \E p \in forks[f].pins : p.table = t
    THEN (CHOOSE p \in forks[f].pins : p.table = t).seq
    ELSE HeadSeq(t)

Step == ops < MaxOps /\ ops' = ops + 1

(***************************************************************************)
(* What an ordinary commit may make of a version: add a segment, put one   *)
(* in the place of all, or merge all into one.                             *)
(***************************************************************************)
Rewrites(t, segs) ==
    LET new == lastSeg + 1
    IN  {[op |-> "write", segs |-> kept \cup {<<t, new>>}, rows |-> {new}] : kept \in {segs, {}}}
        \cup (IF Cardinality(segs) >= 2
              THEN {[op |-> "compact", segs |-> {<<t, new>>}, rows |-> RowsOf(segs)]} ELSE {})

Commit(t) ==
    /\ Step
    /\ lastSeg < MaxSeg
    /\ HeadSeq(t) < MaxSeq
    /\ \E v \in Rewrites(t, HeadVersion(t).segs) :
          /\ tables' = [tables EXCEPT ![t].vers = Append(@, [op |-> v.op, segs |-> v.segs])]
          /\ rows' = [rows EXCEPT ![lastSeg + 1] = v.rows]
    /\ objects' = objects \cup {<<t, lastSeg + 1>>}
    /\ lastSeg' = lastSeg + 1
    /\ UNCHANGED <<rootVars, index, lastTable, crashes, vacuumVars>>

BaseCommit(n) == catalog[n] # None /\ Commit(catalog[n])
ForkCommit(f, n) == forks[f] # None /\ entries[f][n] # None /\ Commit(entries[f][n].table)

-----------------------------------------------------------------------------
(* The table directories that are created, and where they are registered last. *)
Make(table) ==
    /\ lastTable < MaxTable
    /\ lastTable' = lastTable + 1
    /\ tables' = [tables EXCEPT ![lastTable + 1] = table]
    /\ UNCHANGED <<objects, rows, lastSeg, vacuumVars>>

Register(f, n, origin) ==
    LET e == [table |-> lastTable + 1, origin |-> origin, size |-> EntrySize(origin)]
    IN  /\ EntryTold(f, n, e)
        /\ entries' = [entries EXCEPT ![f][n] = e]

(* create_table on the base and in a fork; registration is the last write. *)
CreateTable(n) ==
    /\ Step
    /\ catalog[n] = None
    /\ Make(NewTable({}))
    /\ catalog' = [catalog EXCEPT ![n] = lastTable + 1]
    /\ UNCHANGED <<forks, entries, index, crashes>>

CreateForkTable(f, n) ==
    /\ Step
    /\ forks[f] # None
    /\ Visible(f, n) = None
    /\ Make(NewTable({}))
    /\ Register(f, n, None)
    /\ UNCHANGED <<catalog, forks, index, crashes>>

(* entry_for_write: the first write to a pinned name makes its shadow. *)
(* Mutant: the shadow starts from the base table's HEAD, not from the pin. *)
ShadowAtHead(f, n) == NewTable(HeadVersion(PinNamed(f, n).table).segs)
Shadow(f, n) ==
    LET pin == PinNamed(f, n)
    IN  NewTable(Version(pin.table, pin.seq).segs)
Inherits(f, n) == /\ forks[f] # None
                  /\ entries[f][n] = None
                  /\ Visible(f, n) # None
                  /\ tables[Visible(f, n)] # None
                  /\ PinNamed(f, n).seq >= tables[Visible(f, n)].kept

MaterializeShadow(f, n) ==
    /\ Step
    /\ Inherits(f, n)
    /\ Make(Shadow(f, n))
    /\ Register(f, n, [table |-> PinNamed(f, n).table, seq |-> PinNamed(f, n).seq])
    /\ UNCHANGED <<catalog, forks, index, crashes>>

(* A crash before the registration leaves a directory no catalog names. *)
CreateCrash(f, n) ==
    /\ Step
    /\ crashes < MaxCrash
    /\ crashes' = crashes + 1
    /\ \/ Inherits(f, n) /\ Make(Shadow(f, n))
       \/ Visible(f, n) = None /\ Make(NewTable({}))
    /\ UNCHANGED <<rootVars, index>>

(* rename_table: the new name first, then the old one away. *)
RenameTable(n, m) ==
    /\ Step
    /\ catalog[n] # None
    /\ catalog[m] = None
    /\ \/ catalog' = [catalog EXCEPT ![m] = catalog[n], ![n] = None]
       \/ "crash_in_move" \in Allowed /\ catalog' = [catalog EXCEPT ![m] = catalog[n]]
    /\ UNCHANGED <<storeVars, forks, entries, index, lastTable, lastSeg, crashes, vacuumVars>>

-----------------------------------------------------------------------------
(* The directory goes with all its objects. *)
Erase(gone) ==
    /\ tables' = [t \in Tables |-> IF t \in gone THEN None ELSE tables[t]]
    /\ objects' = {o \in objects : o[1] \notin gone}
    /\ UNCHANGED rows

(* drop_table, refused while a fork pins the table. *)
DropTable(n) ==
    /\ Step
    /\ catalog[n] # None
    /\ index' = Refreshed
    /\ ~Pinned(catalog[n])
    /\ catalog' = [catalog EXCEPT ![n] = None]
    /\ Erase({catalog[n]})
    /\ UNCHANGED <<forks, entries, lastTable, lastSeg, crashes, vacuumVars>>

DropForkTable(f, n) ==
    /\ Step
    /\ forks[f] # None
    /\ entries[f][n] # None
    /\ index' = Refreshed
    /\ ~Pinned(entries[f][n].table)
    /\ entries' = [entries EXCEPT ![f][n] = None]
    /\ Erase({entries[f][n].table})
    /\ UNCHANGED <<catalog, forks, lastTable, lastSeg, crashes, vacuumVars>>

(* create_fork: the pins of the parent's view, at HEAD or one version back.  *)
(* As of a past time the pin is a retained version at or below the effective *)
(* head, and a table without one is not pinned.                              *)
PinSet(parent, back) ==
    LET seen == {n \in Names : Visible(parent, n) # None}
        at(n) == LET t == Visible(parent, n)
                 IN  IF back = 0 THEN HeadSeq(t) ELSE EffectiveHead(parent, t) - back
    IN  {[table |-> Visible(parent, n), name |-> n, seq |-> at(n)] :
            n \in {m \in seen : back = 0 \/ at(m) >= tables[Visible(parent, m)].floor}}

CreateFork(f, parent) ==
    /\ Step
    /\ forks[f] = None
    /\ parent # f
    /\ parent \in {None} \cup {g \in ForkNames : forks[g] # None}
    /\ \E back \in {0, 1}, size \in ForkSizes :
          /\ ForkTold(f, size, PinSet(parent, back))
          /\ forks' = [forks EXCEPT ![f] = [parent |-> parent, pins |-> PinSet(parent, back),
                                            size |-> size]]
    /\ UNCHANGED <<storeVars, catalog, entries, index, lastTable, lastSeg, crashes, vacuumVars>>

(* drop_fork, refused while another fork pins a table this one owns; entries *)
(* and directories first, the fork object with its pins last.                *)
DropFork(f) ==
    LET owned == {n \in Names : entries[f][n] # None}
    IN  /\ Step
        /\ forks[f] # None
        /\ index' = Refreshed
        /\ DependOn(f) = {}
        /\ \/ /\ Erase({entries[f][n].table : n \in owned})
              /\ entries' = [entries EXCEPT ![f] = NoEntries]
              /\ forks' = [forks EXCEPT ![f] = None]
              /\ UNCHANGED crashes
           \/ /\ crashes < MaxCrash
              /\ crashes' = crashes + 1
              /\ \E done \in SUBSET owned :
                    /\ entries' = [entries EXCEPT ![f] = [n \in Names |->
                                      IF n \in done THEN None ELSE entries[f][n]]]
                    /\ \E last \in done \cup {None} :
                          Erase({entries[f][n].table : n \in done \ {last}})
              /\ UNCHANGED forks
        /\ UNCHANGED <<catalog, lastTable, lastSeg, vacuumVars>>

-----------------------------------------------------------------------------
(***************************************************************************)
(* promote of a shadow: a compare-and-swap on the version it was cut from, *)
(* or, when the base has only been compacted since and the shadow still    *)
(* has every inherited segment, on the base as it is now.  The shadow's    *)
(* own segments are linked under the base table, keeping their age.        *)
(***************************************************************************)
CompactedSince(t, seq) ==
    \A s \in seq + 1..HeadSeq(t) : s >= tables[t].floor /\ Version(t, s).op = "compact"

(* Mutant: a compacted base takes the shadow whatever it inherits no more. *)
PromotableCompacted(e) == \/ HeadSeq(e.origin.table) = e.origin.seq
                          \/ /\ HeadSeq(e.origin.table) > e.origin.seq
                             /\ CompactedSince(e.origin.table, e.origin.seq)
Promotable(e) ==
    LET base == e.origin.table
        pinned == Version(base, e.origin.seq).segs
        mine == HeadVersion(e.table).segs
    IN  \/ HeadSeq(base) = e.origin.seq
        \/ /\ HeadSeq(base) > e.origin.seq
           /\ CompactedSince(base, e.origin.seq)
           /\ pinned \subseteq mine

Linked(e) == {<<e.origin.table, o[2]>> : o \in HeadVersion(e.table).segs \cap Own(e.table)}
Promoted(e) ==
    LET kept == IF HeadSeq(e.origin.table) = e.origin.seq
                THEN HeadVersion(e.table).segs \ Own(e.table)
                ELSE HeadVersion(e.origin.table).segs
    IN  kept \cup Linked(e)

(* A promote that vacuum overlaps is not safe: a link is old at birth, and a *)
(* moved table is in neither of the catalogs vacuum reads one after another. *)
MayPromote == "overlap" \in Allowed \/ vpc = "idle"

Promote(f, n) ==
    LET e == entries[f][n]
    IN  /\ Step
        /\ forks[f] # None
        /\ e # None
        /\ e.origin # None
        /\ MayPromote
        /\ Promotable(e)
        /\ HeadSeq(e.origin.table) < MaxSeq
        /\ objects' = objects \cup Linked(e)
        /\ \/ /\ tables' = [tables EXCEPT ![e.origin.table].vers =
                               Append(@, [op |-> "promote", segs |-> Promoted(e)])]
              /\ UNCHANGED crashes
           \/ /\ crashes < MaxCrash
              /\ crashes' = crashes + 1
              /\ UNCHANGED tables
        /\ UNCHANGED <<rows, rootVars, index, lastTable, lastSeg, vacuumVars>>

(* promote of a table the fork created: registered one level up, then        *)
(* released.  Nothing looks whether the parent fork is still there, or has   *)
(* been dropped and cut again from this very fork and so pins the table.     *)
Stands(parent, t) == forks[parent] # None /\ \A p \in forks[parent].pins : p.table # t

PromoteCreated(f, n) ==
    LET e == entries[f][n]
        parent == forks[f].parent
        moved == [entries EXCEPT ![parent][n] = e]
    IN  /\ Step
        /\ forks[f] # None
        /\ e # None
        /\ e.origin = None
        /\ MayPromote
        /\ \/ /\ parent = None /\ catalog[n] = None
              /\ catalog' = [catalog EXCEPT ![n] = e.table]
              /\ entries' = [entries EXCEPT ![f][n] = None]
           \/ /\ parent # None /\ entries[parent][n] = None
              /\ Stands(parent, e.table) \/ "dead_parent" \in Allowed
              /\ EntryTold(parent, n, e)
              /\ entries' = [moved EXCEPT ![f][n] = None]
              /\ UNCHANGED catalog
           \/ /\ "crash_in_move" \in Allowed
              /\ parent = None /\ catalog[n] = None
              /\ catalog' = [catalog EXCEPT ![n] = e.table]
              /\ UNCHANGED entries
        /\ UNCHANGED <<storeVars, forks, index, lastTable, lastSeg, crashes, vacuumVars>>

-----------------------------------------------------------------------------
(* set_retention: the floor rises, never past HEAD or a fork's pin. *)
SetRetention(n, target) ==
    /\ Step
    /\ catalog[n] # None
    /\ target > tables[catalog[n]].floor
    /\ target <= HeadSeq(catalog[n])
    /\ index' = Refreshed
    /\ ~PinnedBelow(catalog[n], target)
    /\ tables' = [tables EXCEPT ![catalog[n]].floor = target]
    /\ UNCHANGED <<objects, rows, rootVars, lastTable, lastSeg, crashes, vacuumVars>>

(***************************************************************************)
(* vacuum over the whole database: per base table the versions from the    *)
(* floor to HEAD are referenced; then old unreferenced objects and expired *)
(* manifests go; then the fork index is read; then table directories that  *)
(* no catalog and no pin names go, unless something in them is young.      *)
(* What is younger than the grace period is what was written since the     *)
(* scan; a link made by promote is as old as the segment it links.         *)
(***************************************************************************)
Young(o) == o[2] > vscan.seg
Cataloged == {catalog[n] : n \in Names} \ {None}

VacuumScan ==
    /\ vpc = "idle"
    /\ vpc' = "delete"
    /\ vscan' = [ref |-> UNION {UNION {Version(t, s).segs : s \in tables[t].floor..HeadSeq(t)} :
                                  t \in Cataloged},
                 floors |-> [t \in Tables |-> IF t \in Cataloged THEN tables[t].floor ELSE 0],
                 roots |-> Cataloged, table |-> lastTable, seg |-> lastSeg]
    /\ UNCHANGED <<storeVars, rootVars, index, lastTable, lastSeg, ops, crashes>>

VacuumDelete ==
    /\ vpc = "delete"
    /\ vpc' = "index"
    /\ objects' = {o \in objects : o[1] \notin vscan.roots \/ o \in vscan.ref \/ Young(o)}
    /\ tables' = [t \in Tables |->
                    IF tables[t] # None /\ vscan.floors[t] > tables[t].kept
                    THEN [tables[t] EXCEPT !.kept = vscan.floors[t]]
                    ELSE tables[t]]
    /\ UNCHANGED <<rows, rootVars, index, lastTable, lastSeg, ops, crashes, vscan>>

VacuumIndex ==
    /\ vpc = "index"
    /\ vpc' = "sweep"
    /\ index' = Refreshed
    /\ vscan' = [vscan EXCEPT !.roots = @ \cup (UNION {OwnedBy(f) : f \in IndexedForkNames})
                                          \cup {t \in Tables : Pinned(t)}]
    /\ UNCHANGED <<storeVars, rootVars, lastTable, lastSeg, ops, crashes>>

VacuumSweep ==
    /\ vpc = "sweep"
    /\ vpc' = "idle"
    /\ vscan' = NoScan
    /\ Erase({t \in 1..vscan.table :
                 t \notin vscan.roots /\ ~\E o \in objects : o[1] = t /\ Young(o)})
    /\ UNCHANGED <<rootVars, index, lastTable, lastSeg, ops, crashes>>

-----------------------------------------------------------------------------
Operation ==
    \/ \E n \in Names :
          \/ BaseCommit(n) \/ CreateTable(n) \/ DropTable(n)
          \/ \E m \in Names : RenameTable(n, m)
          \/ \E target \in 1..MaxSeq : SetRetention(n, target)
    \/ \E f \in ForkNames :
          \/ DropFork(f)
          \/ \E parent \in ForkNames \cup {None} : CreateFork(f, parent)
          \/ \E n \in Names :
                \/ ForkCommit(f, n) \/ CreateForkTable(f, n) \/ MaterializeShadow(f, n)
                \/ DropForkTable(f, n) \/ Promote(f, n) \/ PromoteCreated(f, n)
                \/ forks[f] # None /\ CreateCrash(f, n)

Vacuum == VacuumScan \/ VacuumDelete \/ VacuumIndex \/ VacuumSweep

Next == Operation \/ Vacuum

Spec == Init /\ [][Next]_vars

-----------------------------------------------------------------------------
Readable(t, seqs) == /\ tables[t] # None
                     /\ \A s \in seqs : Version(t, s).segs \subseteq objects
Owned(f) == {entries[f][n].table : n \in {m \in Names : entries[f][m] # None}}

(* Every version anybody may still ask for has its manifest and all its      *)
(* segments: the retained versions of base tables, each version a live fork  *)
(* pins, and every version of the tables a live fork owns.  Drops, retention *)
(* and vacuum never take what a fork still reads.                            *)
ViewsReadable ==
    /\ \A t \in Cataloged : Readable(t, tables[t].floor..HeadSeq(t))
    /\ \A f \in ForkNames : forks[f] # None =>
          /\ \A p \in forks[f].pins : /\ Readable(p.table, {p.seq})
                                      /\ p.seq >= tables[p.table].kept
          /\ \A t \in Owned(f) : Readable(t, 0..HeadSeq(t))

(* What a shadow reads that it did not write itself is a segment some pin    *)
(* of its fork, or of the fork its parent is, still protects (the trace-     *)
(* refinement discipline of the fork module).                                *)
Refinement ==
    \A f \in ForkNames : \A n \in Names :
        forks[f] # None /\ entries[f][n] # None =>
            LET e == entries[f][n]
                foreign == (UNION {Version(e.table, s).segs : s \in 0..HeadSeq(e.table)})
                              \ Own(e.table)
            IN  IF e.origin = None THEN foreign = {}
                ELSE /\ foreign \subseteq Version(e.origin.table, e.origin.seq).segs
                     /\ \E p \in forks[f].pins : p.table = e.origin.table /\ p.seq = e.origin.seq

(* A promote makes the base table read exactly as the shadow read: a         *)
(* compaction of the base in between is not undone and loses no row.         *)
PromoteExact ==
    [][\A f \in ForkNames : \A n \in Names :
          Promote(f, n) /\ crashes' = crashes =>
              RowsOf(HeadVersion(entries[f][n].origin.table)'.segs)
                  = RowsOf(HeadVersion(entries[f][n].table).segs)]_vars

-----------------------------------------------------------------------------
(***************************************************************************)
(* The inductive invariant behind the three properties.                    *)
(***************************************************************************)

(* What the stored index has at an object's size is what the object says,    *)
(* so a refresh reports what is on disk.                                     *)
SizesOK ==
    \A f \in ForkNames : index[f] # None =>
        /\ forks[f] # None /\ forks[f].size = index[f].size =>
              index[f].pins = {<<p.table, p.seq>> : p \in forks[f].pins}
        /\ \A n \in Names :
              index[f].owned[n] # None /\ entries[f][n] # None
                 /\ entries[f][n].size = index[f].owned[n].size =>
              index[f].owned[n].table = entries[f][n].table
IndexExact ==
    \A f \in ForkNames : forks[f] # None =>
        /\ Refreshed[f].pins = {<<p.table, p.seq>> : p \in forks[f].pins}
        /\ OwnedBy(f) = Owned(f)

(* What IndexExact rests on: none of it says what the tables hold.           *)
IndexTypes ==
    /\ DOMAIN forks = ForkNames /\ DOMAIN entries = ForkNames /\ DOMAIN index = ForkNames
    /\ ops \in Nat /\ lastTable \in Nat
    /\ \A f \in ForkNames : forks[f] # None => forks[f].size \in Nat
    /\ \A f \in ForkNames : DOMAIN entries[f] = Names
    /\ \A f \in ForkNames, n \in Names : entries[f][n] # None =>
          entries[f][n].table \in Tables /\ entries[f][n].size \in Nat
IndexInv == IndexTypes /\ SizesOK

(* A table is registered in one place, by a name of the base or of a fork    *)
(* that is there, and then it exists.                                        *)
OneHome ==
    /\ \A n, m \in Names : catalog[n] # None /\ catalog[n] = catalog[m] => n = m
    /\ \A f, g \in ForkNames, n, m \in Names :
          entries[f][n] # None /\ entries[g][m] # None /\ entries[f][n].table = entries[g][m].table
             => f = g /\ n = m
    /\ \A f \in ForkNames, n, m \in Names :
          entries[f][n] # None => catalog[m] # entries[f][n].table
HomesExist ==
    /\ \A n \in Names : catalog[n] # None => catalog[n] <= lastTable /\ tables[catalog[n]] # None
    /\ \A f \in ForkNames, n \in Names : entries[f][n] # None =>
          /\ forks[f] # None /\ entries[f][n].table <= lastTable
          /\ tables[entries[f][n].table] # None /\ tables[entries[f][n].table].floor = 0
Homed(t) == (\E n \in Names : catalog[n] = t) \/
            \E f \in ForkNames, n \in Names : entries[f][n] # None /\ entries[f][n].table = t

(* A pin is of a retained version of a registered table the fork does not    *)
(* own itself.                                                               *)
PinsOK ==
    \A f \in ForkNames : forks[f] # None => \A p \in forks[f].pins :
        /\ Homed(p.table)
        /\ p.seq >= tables[p.table].floor /\ p.seq <= HeadSeq(p.table)
        /\ \A n \in Names : entries[f][n] # None => entries[f][n].table # p.table

(* Whose segments the versions of a table list.                              *)
Inside(t, segs) == \A s \in 0..HeadSeq(t) : Version(t, s).segs \subseteq Own(t) \cup segs
SegmentsOK ==
    /\ \A n \in Names : catalog[n] # None => Inside(catalog[n], {})
    /\ \A f \in ForkNames, n \in Names : entries[f][n] # None =>
          LET e == entries[f][n]
          IN  IF e.origin = None THEN Inside(e.table, {})
              ELSE /\ Inside(e.table, Version(e.origin.table, e.origin.seq).segs)
                   /\ e.origin.table < e.table
                   /\ \E p \in forks[f].pins : p.table = e.origin.table /\ p.seq = e.origin.seq

(* The retained versions of registered tables have their segments.           *)
Present(t) == \A s \in tables[t].floor..HeadSeq(t) : Version(t, s).segs \subseteq objects
AllPresent == \A t \in Tables : Homed(t) => Present(t)

(* Segments are written before they are listed, and compactions keep rows.   *)
RowsKept(t) ==
    /\ \A s \in 0..HeadSeq(t) : \A o \in Version(t, s).segs : o[2] <= lastSeg
    /\ \A s, u \in 0..HeadSeq(t) :
          s <= u /\ (\A k \in s + 1..u : Version(t, k).op = "compact") =>
             RowsOf(Version(t, u).segs) = RowsOf(Version(t, s).segs)
AllRowsKept == \A t \in Tables : tables[t] # None => RowsKept(t)

(* What vacuum has read protects what is registered until it is done.        *)
ScanOK ==
    /\ vscan.seg <= lastSeg /\ vscan.table <= lastTable
    /\ vpc # "idle" => \A n \in Names : catalog[n] # None =>
          catalog[n] > vscan.table \/ catalog[n] \in vscan.roots
    /\ vpc = "sweep" => \A f \in ForkNames, n \in Names : entries[f][n] # None =>
          entries[f][n].table > vscan.table \/ entries[f][n].table \in vscan.roots
    /\ vpc = "delete" =>
          /\ \A t \in vscan.roots : t <= vscan.table
          /\ \A f \in ForkNames, n \in Names : entries[f][n] # None =>
                entries[f][n].table \notin vscan.roots
          /\ \A t \in Tables : tables[t] # None =>
                /\ vscan.floors[t] <= tables[t].floor
                /\ t \in vscan.roots => \A s \in vscan.floors[t]..HeadSeq(t) :
                      \A o \in Version(t, s).segs : o \in vscan.ref \/ Young(o)
          /\ \A t \in Tables : t > vscan.table => vscan.floors[t] = 0

IInv ==
    /\ TypeOK /\ IndexInv /\ OneHome /\ HomesExist /\ PinsOK /\ SegmentsOK
    /\ AllPresent /\ AllRowsKept /\ ScanOK
=============================================================================
