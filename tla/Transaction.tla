----------------------------- MODULE Transaction -----------------------------
(***************************************************************************)
(* Multi-table transactions on the local backend: the journaled multi-head *)
(* swap of commit_staged_transaction, the recovery scan every read-write   *)
(* open runs, and the single-table commits that race both.                 *)
(*                                                                         *)
(* Tasks are calls in flight inside a process; a process that is not open  *)
(* has none.  A commit, of one table or several, is known by its number:   *)
(* it is the content of the manifests it puts and the checksum in the      *)
(* HEADs it swaps in.  Segment objects, idempotency keys and the rest of a *)
(* single-table commit are LocalCommit's; here it keeps the steps that     *)
(* other processes can observe.  As there, each file has a visible content *)
(* and the contents a power loss may leave.                                *)
(***************************************************************************)
EXTENDS Integers, Sequences, FiniteSets

CONSTANTS Tables,           \* the tables of the database
          Tasks,            \* concurrent calls
          Procs,            \* processes with a read-write handle
          NoOne,            \* a free lock, no journal, an empty slot
          Groups,           \* the table sets calls commit; single tables are ordinary commits
          MaxId,            \* bound: commits in a behaviour
          MaxSeq,           \* bound: highest version of a table
          MaxCrash,         \* bound: process crashes
          MaxPowerLoss,     \* bound: power losses
          Settings          \* what a behaviour may assume, see setting

VARIABLES
    setting,        \* procOf, the process each task runs in; alone, one process at a time and
                    \* no I/O error once a journal is put; writeBack, the kernel has written
                    \* everything back before the next open; ids, its bound on commits
    head,           \* the HEAD file of each table
    headDisk,       \* ... and the HEADs a power loss may leave
    slot,           \* the manifest slots of each table
    slotDisk,       \* ... and the contents a power loss may leave
    journal,        \* txn/<id>.json: "none", "torn" or "whole"
    journalDisk,    \* ... and what a power loss may leave of it
    entries,        \* the HEADs each journal lists
    meta,           \* holder of CATALOG.lock
    lock,           \* holder of each table's HEAD.lock
    phase,          \* where each task is
    call,           \* each task's call: its number and the HEADs it staged on
    todo,           \* tables a task's current loop has left
    db,             \* each process: "closed", "recover", "swap", "sync" or "open"
    queue,          \* journals its recovery scan listed and has left
    left,           \* tables of the journal it is rolling forward
    seen,           \* the table and the HEAD recovery read before taking the lock
    lastId, acked, refused, crashes, powerLosses

diskVars == <<head, headDisk, slot, slotDisk>>
journalVars == <<journal, journalDisk, entries>>
lockVars == <<meta, lock>>
taskVars == <<phase, call, todo>>
procVars == <<db, queue, left, seen>>
boundVars == <<crashes, powerLosses>>
auxVars == <<lastId, acked, refused, boundVars>>
vars == <<setting, diskVars, journalVars, lockVars, taskVars, procVars, auxVars>>

-----------------------------------------------------------------------------
Seqs == 0..MaxSeq
Ids == 1..MaxId
Heads == [seq : Seqs, sum : Ids \cup {0}]
Head0 == [seq |-> 0, sum |-> 0]
NoCall == [id |-> 0, base |-> [t \in {} |-> Head0]]
NoSeen == [table |-> NoOne, head |-> Head0]

Phases == {"idle", "staged", "put", "sync", "journal", "jsync", "lock", "swap",
           "dirsync", "delete", "publish", "harden"}
JournalStates == {"none", "torn", "whole"}
Bases == UNION {[ts -> Heads] : ts \in SUBSET Tables}

ASSUME ConstantsAssumption ==
    /\ NoOne \notin Tables \cup Tasks \cup Procs \cup Nat
    /\ Tasks \cap Procs = {}
    /\ IsFiniteSet(Tables) /\ Groups \subseteq (SUBSET Tables) \ {{}}
    /\ MaxId \in Nat /\ MaxSeq \in Nat /\ MaxCrash \in Nat /\ MaxPowerLoss \in Nat
    /\ Settings \subseteq [alone : BOOLEAN, writeBack : BOOLEAN, ids : Ids,
                              procOf : [Tasks -> Procs]]

TypeOK ==
    /\ setting \in Settings
    /\ head \in [Tables -> Heads]
    /\ headDisk \in [Tables -> SUBSET Heads]
    /\ slot \in [Tables -> [Seqs -> Ids \cup {0, NoOne}]]
    /\ slotDisk \in [Tables -> [Seqs -> SUBSET (Ids \cup {0, NoOne})]]
    /\ journal \in [Ids -> JournalStates]
    /\ journalDisk \in [Ids -> SUBSET JournalStates]
    /\ entries \in [Ids -> Bases]
    /\ meta \in Tasks \cup {NoOne}
    /\ lock \in [Tables -> Tasks \cup Procs \cup {NoOne}]
    /\ phase \in [Tasks -> Phases]
    /\ call \in [Tasks -> [id : Ids \cup {0}, base : Bases]]
    /\ todo \in [Tasks -> SUBSET Tables]
    /\ db \in [Procs -> {"closed", "recover", "swap", "sync", "open"}]
    /\ queue \in [Procs -> SUBSET Ids]
    /\ left \in [Procs -> SUBSET Tables]
    /\ seen \in [Procs -> [table : Tables \cup {NoOne}, head : Heads]]
    /\ lastId \in Ids \cup {0}
    /\ acked \subseteq Ids
    /\ refused \subseteq Ids
    /\ crashes \in 0..MaxCrash
    /\ powerLosses \in 0..MaxPowerLoss

Init ==
    /\ setting \in Settings
    /\ head = [t \in Tables |-> Head0]
    /\ headDisk = [t \in Tables |-> {Head0}]
    /\ slot = [t \in Tables |-> [s \in Seqs |-> IF s = 0 THEN 0 ELSE NoOne]]
    /\ slotDisk = [t \in Tables |-> [s \in Seqs |-> {slot[t][s]}]]
    /\ journal = [x \in Ids |-> "none"]
    /\ journalDisk = [x \in Ids |-> {"none"}]
    /\ entries = [x \in Ids |-> NoCall.base]
    /\ meta = NoOne
    /\ lock = [t \in Tables |-> NoOne]
    /\ phase = [k \in Tasks |-> "idle"]
    /\ call = [k \in Tasks |-> NoCall]
    /\ todo = [k \in Tasks |-> {}]
    /\ db = [p \in Procs |-> "closed"]
    /\ queue = [p \in Procs |-> {}]
    /\ left = [p \in Procs |-> {}]
    /\ seen = [p \in Procs |-> NoSeen]
    /\ lastId = 0
    /\ acked = {}
    /\ refused = {}
    /\ crashes = 0
    /\ powerLosses = 0

-----------------------------------------------------------------------------
(***************************************************************************)
(* A call: what it commits to, and how it ends.                            *)
(***************************************************************************)
TablesOf(k) == DOMAIN call[k].base
IsTxn(k) == Cardinality(TablesOf(k)) > 1
Base(k, t) == call[k].base[t]
NewHead(k, t) == [seq |-> Base(k, t).seq + 1, sum |-> call[k].id]

Goto(k, ph, ts) ==
    /\ phase' = [phase EXCEPT ![k] = ph]
    /\ todo' = [todo EXCEPT ![k] = ts]
    /\ UNCHANGED call

(* The answer: the call is over and every guard it held is dropped. *)
Return(k) ==
    /\ phase' = [phase EXCEPT ![k] = "idle"]
    /\ call' = [call EXCEPT ![k] = NoCall]
    /\ todo' = [todo EXCEPT ![k] = {}]
    /\ meta' = IF meta = k THEN NoOne ELSE meta
    /\ lock' = [t \in Tables |-> IF lock[t] = k THEN NoOne ELSE lock[t]]

(* VersionConflict or LockTimeout, which callers treat as "nothing done". *)
Refuse(k) ==
    /\ Return(k)
    /\ refused' = refused \cup {call[k].id}
    /\ UNCHANGED <<lastId, acked, boundVars>>

(* Validate, read every HEAD, upload segments, build the manifests. *)
Stage(k) ==
    /\ phase[k] = "idle"
    /\ db[setting.procOf[k]] = "open"
    /\ lastId < setting.ids
    /\ lastId' = lastId + 1
    /\ \E ts \in Groups :
          /\ \A t \in ts : head[t].seq < MaxSeq
          /\ call' = [call EXCEPT ![k] = [id |-> lastId + 1, base |-> [t \in ts |-> head[t]]]]
    /\ phase' = [phase EXCEPT ![k] = "staged"]
    /\ UNCHANGED <<setting, diskVars, journalVars, lockVars, todo, procVars, acked, refused,
                   boundVars>>

(* The wait for CATALOG.lock or, in an ordinary commit, for HEAD.lock. *)
Timeout(k) ==
    /\ phase[k] = "staged"
    /\ meta # NoOne \/ \E t \in TablesOf(k) : ~IsTxn(k) /\ lock[t] # NoOne
    /\ Refuse(k)
    /\ UNCHANGED <<setting, diskVars, journalVars, procVars>>

-----------------------------------------------------------------------------
(***************************************************************************)
(* An ordinary commit: both locks, revalidate, put the manifest; fsync it  *)
(* and rename HEAD; fsync the directory and answer.                        *)
(***************************************************************************)
PutSlot(k, t) ==
    LET s == NewHead(k, t).seq
    IN  /\ slot' = [slot EXCEPT ![t][s] = call[k].id]
        /\ slotDisk' = [slotDisk EXCEPT ![t][s] = @ \cup {call[k].id}]

Enter(k) ==
    /\ phase[k] = "staged"
    /\ ~IsTxn(k)
    /\ meta = NoOne
    /\ \E t \in TablesOf(k) :
          /\ lock[t] = NoOne
          /\ \/ /\ head[t] = Base(k, t)
                /\ meta' = k
                /\ lock' = [lock EXCEPT ![t] = k]
                /\ PutSlot(k, t)
                /\ Goto(k, "publish", {})
                /\ UNCHANGED <<head, headDisk, auxVars>>
             \/ /\ head[t] # Base(k, t)
                /\ Refuse(k)
                /\ UNCHANGED diskVars
    /\ UNCHANGED <<setting, journalVars, procVars>>

Rename(t, h) ==
    /\ head' = [head EXCEPT ![t] = h]
    /\ headDisk' = [headDisk EXCEPT ![t] = @ \cup {h}]

Publish(k) ==
    /\ phase[k] = "publish"
    /\ \E t \in TablesOf(k) :
          /\ slotDisk' = [slotDisk EXCEPT ![t][NewHead(k, t).seq] = {call[k].id}]
          /\ Rename(t, NewHead(k, t))
    /\ Goto(k, "harden", {})
    /\ UNCHANGED <<setting, slot, journalVars, lockVars, procVars, auxVars>>

SyncDirs(ts) == headDisk' = [t \in Tables |-> IF t \in ts THEN {head[t]} ELSE headDisk[t]]

Harden(k) ==
    /\ phase[k] = "harden"
    /\ SyncDirs(TablesOf(k))
    /\ acked' = acked \cup {call[k].id}
    /\ Return(k)
    /\ UNCHANGED <<setting, head, slot, slotDisk, journalVars, procVars, lastId, refused,
                   boundVars>>

-----------------------------------------------------------------------------
(***************************************************************************)
(* commit_staged_transaction_inner.  Under the metadata lock: validate     *)
(* every base, put every manifest, fsync them ...                          *)
(***************************************************************************)
Validate(k) ==
    /\ phase[k] = "staged"
    /\ IsTxn(k)
    /\ meta = NoOne
    /\ \/ /\ \A t \in TablesOf(k) : head[t] = Base(k, t)
          /\ meta' = k
          /\ Goto(k, "put", TablesOf(k))
          /\ UNCHANGED <<lock, auxVars>>
       \/ /\ \E t \in TablesOf(k) : head[t] # Base(k, t)
          /\ Refuse(k)
    /\ UNCHANGED <<setting, diskVars, journalVars, procVars>>

PutManifests(k) ==
    /\ phase[k] = "put"
    /\ \E t \in todo[k] :
          /\ PutSlot(k, t)
          /\ IF todo[k] = {t} THEN Goto(k, "sync", {}) ELSE Goto(k, "put", todo[k] \ {t})
    /\ UNCHANGED <<setting, head, headDisk, journalVars, lockVars, procVars, auxVars>>

(* Mutant: HEADs are swapped without a journal. *)
SyncManifestsNoJournal(k) ==
    /\ phase[k] = "sync"
    /\ slotDisk' = [t \in Tables |->
                      IF t \in TablesOf(k)
                      THEN [slotDisk[t] EXCEPT ![NewHead(k, t).seq] = {slot[t][NewHead(k, t).seq]}]
                      ELSE slotDisk[t]]
    /\ Goto(k, "lock", TablesOf(k))
    /\ UNCHANGED <<setting, head, headDisk, slot, journalVars, lockVars, procVars, auxVars>>

SyncManifests(k) ==
    /\ phase[k] = "sync"
    /\ slotDisk' = [t \in Tables |->
                      IF t \in TablesOf(k)
                      THEN [slotDisk[t] EXCEPT ![NewHead(k, t).seq] = {slot[t][NewHead(k, t).seq]}]
                      ELSE slotDisk[t]]
    /\ Goto(k, "journal", {})
    /\ UNCHANGED <<setting, head, headDisk, slot, journalVars, lockVars, procVars, auxVars>>

(* ... put the journal and fsync it: the commit point ... *)
PutJournal(k) ==
    /\ phase[k] = "journal"
    /\ journal' = [journal EXCEPT ![call[k].id] = "whole"]
    /\ journalDisk' = [journalDisk EXCEPT ![call[k].id] = JournalStates]
    /\ entries' = [entries EXCEPT ![call[k].id] = [t \in TablesOf(k) |-> NewHead(k, t)]]
    /\ Goto(k, "jsync", {})
    /\ UNCHANGED <<setting, diskVars, lockVars, procVars, auxVars>>

SyncJournal(k) ==
    /\ phase[k] = "jsync"
    /\ journalDisk' = [journalDisk EXCEPT ![call[k].id] = {journal[call[k].id]}]
    /\ Goto(k, "lock", TablesOf(k))
    /\ UNCHANGED <<setting, diskVars, journal, entries, lockVars, procVars, auxVars>>

(* ... commit_batch: enter every writer section and revalidate, which can  *)
(* still end in VersionConflict or LockTimeout ...                         *)
LockTable(k) ==
    /\ phase[k] = "lock"
    /\ \E t \in todo[k] :
          \/ /\ lock[t] = NoOne
             /\ head[t] = Base(k, t)
             /\ lock' = [lock EXCEPT ![t] = k]
             /\ IF todo[k] = {t} THEN Goto(k, "swap", TablesOf(k))
                ELSE Goto(k, "lock", todo[k] \ {t})
             /\ UNCHANGED <<meta, auxVars>>
          \/ /\ lock[t] # NoOne \/ head[t] # Base(k, t)
             /\ Refuse(k)
    /\ UNCHANGED <<setting, diskVars, journalVars, procVars>>

(* Mutant: directories are not fsynced before the journal is deleted. *)
SwapHeadUnsynced(k) ==
    /\ phase[k] = "swap"
    /\ \E t \in todo[k] :
          /\ Rename(t, NewHead(k, t))
          /\ IF todo[k] = {t} THEN Goto(k, "delete", {})
             ELSE Goto(k, "swap", todo[k] \ {t})
    /\ UNCHANGED <<setting, slot, slotDisk, journalVars, lockVars, procVars, auxVars>>

(* ... rename every HEAD, fsync the directories one by one ... *)
SwapHead(k) ==
    /\ phase[k] = "swap"
    /\ \E t \in todo[k] :
          /\ Rename(t, NewHead(k, t))
          /\ IF todo[k] = {t} THEN Goto(k, "dirsync", TablesOf(k))
             ELSE Goto(k, "swap", todo[k] \ {t})
    /\ UNCHANGED <<setting, slot, slotDisk, journalVars, lockVars, procVars, auxVars>>

SyncHead(k) ==
    /\ phase[k] = "dirsync"
    /\ \E t \in todo[k] :
          /\ SyncDirs({t})
          /\ IF todo[k] = {t} THEN Goto(k, "delete", {})
             ELSE Goto(k, "dirsync", todo[k] \ {t})
    /\ UNCHANGED <<setting, head, slot, slotDisk, journalVars, lockVars, procVars, auxVars>>

(* ... delete the journal (not fsynced: it may come back), and answer. *)
DeleteJournal(x) ==
    /\ journal' = [journal EXCEPT ![x] = "none"]
    /\ journalDisk' = [journalDisk EXCEPT ![x] = @ \cup {"none"}]
    /\ UNCHANGED entries

Finish(k) ==
    /\ phase[k] = "delete"
    /\ DeleteJournal(call[k].id)
    /\ acked' = acked \cup {call[k].id}
    /\ Return(k)
    /\ UNCHANGED <<setting, diskVars, procVars, lastId, refused, boundVars>>

-----------------------------------------------------------------------------
(***************************************************************************)
(* Database::open, read-write: the recovery scan.  It holds no metadata    *)
(* lock.  It lists the journals once; an unreadable or vanished one, or a  *)
(* HEAD that moves under it, fails the open.                               *)
(***************************************************************************)
Closed(p) ==
    /\ db' = [db EXCEPT ![p] = "closed"]
    /\ queue' = [queue EXCEPT ![p] = {}]
    /\ left' = [left EXCEPT ![p] = {}]
    /\ seen' = [seen EXCEPT ![p] = NoSeen]

(* left = {}: between two journals; the journal in hand is the smallest of *)
(* the queue, as a listing returns them in one order.                      *)
First(xs) == CHOOSE x \in xs : \A y \in xs : x <= y

Open(p) ==
    /\ db[p] = "closed"
    /\ \E k \in Tasks : setting.procOf[k] = p
    /\ setting.alone => \A q \in Procs : db[q] = "closed"
    /\ setting.writeBack =>
          /\ \A x \in Ids : journalDisk[x] = {journal[x]}
          /\ \A t \in Tables : headDisk[t] = {head[t]}
    /\ LET found == {x \in Ids : journal[x] # "none"}
       IN  /\ queue' = [queue EXCEPT ![p] = found]
           /\ db' = [db EXCEPT ![p] = IF found = {} THEN "open" ELSE "recover"]
    /\ UNCHANGED <<setting, diskVars, journalVars, lockVars, taskVars, left, seen, auxVars>>

ReadJournal(p) ==
    /\ db[p] = "recover"
    /\ left[p] = {}
    /\ LET x == First(queue[p])
       IN  \/ /\ journal[x] = "whole"
              /\ left' = [left EXCEPT ![p] = DOMAIN entries[x]]
              /\ UNCHANGED <<db, queue, seen>>
           \/ /\ journal[x] # "whole"
              /\ Closed(p)
    /\ UNCHANGED <<setting, diskVars, journalVars, lockVars, taskVars, auxVars>>

(* One entry is done; after the last one the journal is deleted. *)
EntryDone(p, t) ==
    LET x == First(queue[p])
    IN  /\ left' = [left EXCEPT ![p] = @ \ {t}]
        /\ seen' = [seen EXCEPT ![p] = NoSeen]
        /\ IF left[p] = {t}
           THEN /\ DeleteJournal(x)
                /\ queue' = [queue EXCEPT ![p] = @ \ {x}]
                /\ db' = [db EXCEPT ![p] = IF queue[p] = {x} THEN "open" ELSE "recover"]
           ELSE /\ db' = [db EXCEPT ![p] = "recover"]
                /\ UNCHANGED <<queue, journalVars>>

RecoverRead(p) ==
    /\ db[p] = "recover"
    /\ \E t \in left[p] :
          LET new == entries[First(queue[p])][t]
          IN  \/ /\ head[t].seq < new.seq
                 /\ seen' = [seen EXCEPT ![p] = [table |-> t, head |-> head[t]]]
                 /\ db' = [db EXCEPT ![p] = "swap"]
                 /\ UNCHANGED <<queue, left, journalVars>>
              \/ /\ head[t].seq >= new.seq
                 /\ EntryDone(p, t)
    /\ UNCHANGED <<setting, diskVars, lockVars, taskVars, auxVars>>

RecoverSwap(p) ==
    /\ db[p] = "swap"
    /\ LET t == seen[p].table
       IN  \/ /\ lock[t] = NoOne
              /\ head[t] = seen[p].head
              /\ lock' = [lock EXCEPT ![t] = p]
              /\ Rename(t, entries[First(queue[p])][t])
              /\ db' = [db EXCEPT ![p] = "sync"]
              /\ UNCHANGED <<queue, left, seen>>
           \/ /\ lock[t] # NoOne \/ head[t] # seen[p].head
              /\ Closed(p)
              /\ UNCHANGED <<head, headDisk, lock>>
    /\ UNCHANGED <<setting, slot, slotDisk, journalVars, meta, taskVars, auxVars>>

RecoverSync(p) ==
    /\ db[p] = "sync"
    /\ SyncDirs({seen[p].table})
    /\ lock' = [lock EXCEPT ![seen[p].table] = NoOne]
    /\ EntryDone(p, seen[p].table)
    /\ UNCHANGED <<setting, head, slot, slotDisk, meta, taskVars, auxVars>>

-----------------------------------------------------------------------------
(***************************************************************************)
(* Failures.                                                               *)
(***************************************************************************)

(* An I/O error ends the call, not the process. *)
Journaled == {"jsync", "lock", "swap", "dirsync", "delete"}

IoError(k) ==
    /\ phase[k] # "idle"
    /\ crashes < MaxCrash
    /\ setting.alone => phase[k] \notin Journaled
    /\ crashes' = crashes + 1
    /\ Return(k)
    /\ UNCHANGED <<setting, diskVars, journalVars, procVars, lastId, acked, refused, powerLosses>>

Crash(p) ==
    /\ db[p] # "closed"
    /\ crashes < MaxCrash
    /\ crashes' = crashes + 1
    /\ LET gone == {k \in Tasks : setting.procOf[k] = p}
       IN  /\ phase' = [k \in Tasks |-> IF k \in gone THEN "idle" ELSE phase[k]]
           /\ call' = [k \in Tasks |-> IF k \in gone THEN NoCall ELSE call[k]]
           /\ todo' = [k \in Tasks |-> IF k \in gone THEN {} ELSE todo[k]]
           /\ meta' = IF meta \in gone THEN NoOne ELSE meta
           /\ lock' = [t \in Tables |-> IF lock[t] \in gone \cup {p} THEN NoOne ELSE lock[t]]
    /\ Closed(p)
    /\ UNCHANGED <<setting, diskVars, journalVars, lastId, acked, refused, powerLosses>>

(* The kernel writes what a dead process left unflushed back on its own. *)
Flush ==
    /\ \A k \in Tasks : phase[k] = "idle"
    /\ journalDisk' = [x \in Ids |-> {journal[x]}]
    /\ headDisk' = [t \in Tables |-> {head[t]}]
    /\ <<journalDisk, headDisk>>' # <<journalDisk, headDisk>>
    /\ UNCHANGED <<setting, head, slot, slotDisk, journal, entries, lockVars, taskVars, procVars,
                   auxVars>>

Choices(possible) ==
    {f \in [DOMAIN possible -> UNION {possible[i] : i \in DOMAIN possible}] :
        \A i \in DOMAIN possible : f[i] \in possible[i]}

PowerLoss ==
    /\ powerLosses < MaxPowerLoss
    /\ powerLosses' = powerLosses + 1
    /\ head' \in Choices(headDisk)
    /\ headDisk' = [t \in Tables |-> {head'[t]}]
    /\ slot' \in Choices([t \in Tables |-> Choices(slotDisk[t])])
    /\ slotDisk' = [t \in Tables |-> [s \in Seqs |-> {slot'[t][s]}]]
    /\ journal' \in Choices(journalDisk)
    /\ journalDisk' = [x \in Ids |-> {journal'[x]}]
    /\ meta' = NoOne
    /\ lock' = [t \in Tables |-> NoOne]
    /\ phase' = [k \in Tasks |-> "idle"]
    /\ call' = [k \in Tasks |-> NoCall]
    /\ todo' = [k \in Tasks |-> {}]
    /\ db' = [p \in Procs |-> "closed"]
    /\ queue' = [p \in Procs |-> {}]
    /\ left' = [p \in Procs |-> {}]
    /\ seen' = [p \in Procs |-> NoSeen]
    /\ UNCHANGED <<setting, entries, lastId, acked, refused, crashes>>

-----------------------------------------------------------------------------
TaskStep(k) ==
    \/ Timeout(k) \/ Enter(k) \/ Publish(k) \/ Harden(k)
    \/ Validate(k) \/ PutManifests(k) \/ SyncManifests(k) \/ PutJournal(k) \/ SyncJournal(k)
    \/ LockTable(k) \/ SwapHead(k) \/ SyncHead(k) \/ Finish(k)

ProcStep(p) == ReadJournal(p) \/ RecoverRead(p) \/ RecoverSwap(p) \/ RecoverSync(p)

Next ==
    \/ \E k \in Tasks : Stage(k) \/ TaskStep(k) \/ IoError(k)
    \/ \E p \in Procs : Open(p) \/ ProcStep(p) \/ Crash(p)
    \/ Flush
    \/ PowerLoss

Spec == Init /\ [][Next]_vars

-----------------------------------------------------------------------------
(***************************************************************************)
(* Properties                                                              *)
(***************************************************************************)
Applied(x, t) == \E s \in 1..head[t].seq : slot[t][s] = x

(* A caller told VersionConflict or LockTimeout, which it may answer by    *)
(* running the transaction again, does not find it applied then or later.  *)
RefusedUnapplied == \A x \in refused : \A t \in Tables : ~Applied(x, t)

(* An acknowledged commit, of one table or of several, stays in every one  *)
(* of its tables whatever other processes do and whatever a power loss     *)
(* leaves.                                                                 *)
Safe(x, t) ==
    \E s \in Seqs : slotDisk[t][s] = {x} /\ \A h \in headDisk[t] : s <= h.seq

AckedApplied ==
    \A x \in acked : /\ \E t \in Tables : Safe(x, t)
                     /\ \A t \in DOMAIN entries[x] : Safe(x, t)

(* The answers callers get are true (commit_staged_transaction, recover):   *)
(* what was acknowledged stays, whichever processes recover at whatever     *)
(* moment, and what was refused is not applied, one process at a time.      *)
AnswersTrue == AckedApplied /\ (setting.alone => RefusedUnapplied)

(***************************************************************************)
(* Transaction implements AtomicTables: a whole journal has committed its  *)
(* transaction in all its tables although their HEADs have yet to move.    *)
(* Claimed for one process at a time: with others, see README section 5.   *)
(***************************************************************************)
Pending(t) == {x \in Ids : /\ journal[x] = "whole"
                           /\ t \in DOMAIN entries[x]
                           /\ entries[x][t].seq > head[t].seq}
Top(t) == IF Pending(t) = {} THEN head[t].seq ELSE entries[First(Pending(t))][t].seq
commits == [t \in Tables |-> IF setting.alone THEN [s \in 1..Top(t) |-> slot[t][s]] ELSE <<>>]
told == IF setting.alone THEN acked ELSE {}

Atomic == INSTANCE AtomicTables WITH log <- commits, acked <- told

(* Every commit, of one table or of several, is one atomic step that only  *)
(* a power loss before its acknowledgement can take back, and then whole.  *)
ImplementsAtomic == Atomic!Spec
-----------------------------------------------------------------------------
(***************************************************************************)
(* The inductive invariant behind AnswersTrue.                             *)
(***************************************************************************)
Active(k) == phase[k] \notin {"idle", "staged"}
NewSeq(k, t) == Base(k, t).seq + 1

(* Whose numbers are in use, and that nobody has journaled a number before  *)
(* its journal is put.                                                      *)
Unwritten(x) == \A t \in Tables : \A s \in Seqs : x \notin slotDisk[t][s] /\ slot[t][s] # x
Seen(x) == journal[x] # "none" \/ journalDisk[x] # {"none"} \/ \E p \in Procs : x \in queue[p]
IdOK(k) ==
    /\ phase[k] = "idle" => call[k] = NoCall /\ todo[k] = {}
    /\ phase[k] # "idle" =>
          /\ call[k].id \in 1..lastId /\ call[k].id \notin acked \cup refused
          /\ TablesOf(k) # {} /\ \A t \in TablesOf(k) : Base(k, t).seq < MaxSeq
          /\ db[setting.procOf[k]] = "open"
    /\ phase[k] = "staged" => Unwritten(call[k].id)
    /\ phase[k] \notin Journaled \cup {"idle"} =>
          ~Seen(call[k].id) /\ DOMAIN entries[call[k].id] = {}
IdInv ==
    /\ \A k \in Tasks : IdOK(k)
    /\ \A j, k \in Tasks : phase[j] # "idle" /\ call[j].id = call[k].id => j = k
    /\ acked \cup refused \subseteq 1..lastId
    /\ \A x \in Ids : x > lastId => Unwritten(x) /\ ~Seen(x) /\ DOMAIN entries[x] = {}

(* Who holds which lock. *)
LockInv ==
    /\ \A k \in Tasks : Active(k) <=> meta = k
    /\ \A t \in Tables : /\ lock[t] \in Tasks => meta = lock[t]
                         /\ lock[t] \in Procs => db[lock[t]] = "sync" /\ seen[lock[t]].table = t
    /\ \A p \in Procs : db[p] = "sync" => seen[p].table \in Tables /\ lock[seen[p].table] = p

(* What a call that holds CATALOG.lock has done so far. *)
PutOK(k, t) == slot[t][NewSeq(k, t)] = call[k].id
DurableOK(k, t) == slotDisk[t][NewSeq(k, t)] = {call[k].id}
SwappedOK(k, t) == head[t] = NewHead(k, t)
ProgressOK(k) ==
    LET ph == phase[k]
    IN  /\ todo[k] \subseteq TablesOf(k)
        /\ ph \in {"publish", "harden"} => \E t \in Tables : TablesOf(k) = {t} /\ lock[t] = k
        /\ \A t \in Tables : lock[t] = k =>
              \/ ph \in {"publish", "harden", "swap", "dirsync", "delete"}
              \/ ph = "lock" /\ t \notin todo[k]
        /\ \A t \in TablesOf(k) :
              /\ (ph = "put" /\ t \notin todo[k]) \/ ph = "sync" => PutOK(k, t)
              /\ ph \in Journaled \cup {"journal", "harden"} => DurableOK(k, t)
              /\ \/ ph = "lock" /\ t \notin todo[k]
                 \/ ph \in {"swap", "dirsync", "delete"}
                 => lock[t] = k
              /\ \/ ph = "swap" /\ t \notin todo[k]
                 \/ ph \in {"dirsync", "delete", "harden"}
                 => SwappedOK(k, t)
              /\ (ph = "dirsync" /\ t \notin todo[k]) \/ ph = "delete" => headDisk[t] = {head[t]}
        /\ ph \in Journaled => DOMAIN entries[call[k].id] = TablesOf(k)
ProgressInv == \A k \in Tasks : ProgressOK(k)

(* A recovery moves a HEAD forward only. *)
RecoverOK(p) ==
    LET x == First(queue[p])
    IN  /\ db[p] \in {"recover", "swap", "sync"} => queue[p] # {}
        /\ db[p] \in {"closed", "open"} => left[p] = {}
        /\ left[p] # {} => queue[p] # {} /\ left[p] \subseteq DOMAIN entries[x]
        /\ db[p] \in {"swap", "sync"} => seen[p].table \in left[p]
        /\ db[p] = "swap" => seen[p].head.seq < entries[x][seen[p].table].seq
RecoverInv == \A p \in Procs : RecoverOK(p)

(* Acknowledged commits are below every HEAD a power loss may leave, and    *)
(* below the slot the holder of CATALOG.lock is about to overwrite.         *)
Below(t, s) == meta \in Tasks /\ t \in TablesOf(meta) => s <= Base(meta, t).seq
KeptSafe(x, t) ==
    \E s \in Seqs : slotDisk[t][s] = {x} /\ Below(t, s) /\ \A h \in headDisk[t] : s <= h.seq
AckInv ==
    /\ \A t \in Tables : head[t] \in headDisk[t]
    /\ \A x \in acked : /\ \E t \in Tables : KeptSafe(x, t)
                        /\ \A t \in DOMAIN entries[x] : KeptSafe(x, t)

(* With one process at a time nobody moves the HEADs a transaction has      *)
(* validated, so that it is refused before it has put anything or never.    *)
AloneInv ==
    setting.alone =>
       /\ \A p, q \in Procs : db[p] # "closed" /\ db[q] # "closed" => p = q
       /\ \A k \in Tasks : phase[k] \in {"put", "sync", "journal", "jsync", "lock"} =>
             \A t \in TablesOf(k) : head[t] = Base(k, t)
       /\ \A x \in refused : Unwritten(x)

IInv == TypeOK /\ IdInv /\ LockInv /\ ProgressInv /\ RecoverInv /\ AckInv /\ AloneInv
-----------------------------------------------------------------------------
(***************************************************************************)
(* The inductive invariant behind ImplementsAtomic, for one process at a   *)
(* time.  A journal is Done once no HEAD a power loss may leave is below   *)
(* an entry of it, and Live while it is neither Done nor out of reach:     *)
(* there is at most one, and it decides what a power loss takes back.      *)
(***************************************************************************)
Done(x) == \A t \in DOMAIN entries[x] : \A h \in headDisk[t] : h.seq >= entries[x][t].seq
Live(x) == "whole" \in journalDisk[x] \cup {journal[x]} /\ ~Done(x)

(* No HEAD or manifest on disk is ahead of what is visible. *)
StoreInv ==
    \A t \in Tables :
       /\ slot[t][0] = 0 /\ slotDisk[t][0] = {0}
       /\ \A s \in Seqs : slot[t][s] \in slotDisk[t][s]
       /\ \A h \in headDisk[t] : h.seq <= head[t].seq

(* What the live journal lists is durable up to its HEADs, no HEAD moves    *)
(* before the journal is durable, and whoever is open is completing it.     *)
Completing(p, x) ==
    \/ db[p] = "closed"
    \/ db[p] = "open" /\ \E k \in Tasks : phase[k] \in Journaled /\ call[k].id = x
    \/ db[p] \notin {"closed", "open"} /\ x \in queue[p] /\ journalDisk[x] = {"whole"}
LiveOK(x) ==
    /\ journal[x] = "whole"
    /\ \A t \in DOMAIN entries[x] :
          /\ slotDisk[t][entries[x][t].seq] = {x}
          /\ \A h \in headDisk[t] :
                /\ h.seq <= entries[x][t].seq
                /\ journalDisk[x] # {"whole"} => h.seq < entries[x][t].seq
    /\ \A p \in Procs : Completing(p, x)
LiveInv ==
    /\ \A x \in Ids : Live(x) => LiveOK(x)
    /\ \A x, y \in Ids : Live(x) /\ Live(y) => x = y

(* The log of a table holds commits only, each durable; a transaction is   *)
(* where its journal says, and no other commit is in two tables.           *)
Logged(x, t) == \E s \in 1..Top(t) : slot[t][s] = x
LogOK(t, s) ==
    LET x == slot[t][s]
    IN  /\ x \in 1..lastId /\ slotDisk[t][s] = {x}
        /\ DOMAIN entries[x] # {} =>
              t \in DOMAIN entries[x] /\ entries[x][t].seq = s /\ (Live(x) \/ Done(x))
        /\ DOMAIN entries[x] = {} => \A u \in Tables \ {t} : ~Logged(x, u)
LogInv == \A t \in Tables : \A s \in 1..Top(t) : LogOK(t, s)

(* A call is in no log before its commit point, and its journal lists what *)
(* it will swap in.                                                        *)
CallOK(k) ==
    LET x == call[k].id
    IN  /\ phase[k] \in {"staged", "put", "sync", "journal", "publish"} =>
              \A t \in Tables : ~Logged(x, t)
        /\ \A t \in TablesOf(k) :
              /\ phase[k] = "publish" => head[t] = Base(k, t) /\ PutOK(k, t)
              /\ phase[k] = "swap" /\ t \in todo[k] => head[t] = Base(k, t)
        /\ phase[k] \in Journaled =>
              /\ journal[x] = "whole" /\ entries[x] = [t \in TablesOf(k) |-> NewHead(k, t)]
              /\ phase[k] # "jsync" => journalDisk[x] = {"whole"}
CallInv == \A k \in Tasks : CallOK(k)

(* A recovery finds the HEADs it reads on disk, and the entries it is past *)
(* are done.                                                               *)
ScanOK(p) ==
    LET x == First(queue[p])
    IN  /\ \A t \in Tables : headDisk[t] = {head[t]} \/ (db[p] = "sync" /\ t = seen[p].table)
        /\ left[p] # {} =>
              /\ journal[x] = "whole"
              /\ \A t \in DOMAIN entries[x] \ left[p] :
                    \A h \in headDisk[t] : h.seq >= entries[x][t].seq
        /\ db[p] = "sync" => head[seen[p].table].seq >= entries[x][seen[p].table].seq
ScanInv == \A p \in Procs : db[p] \notin {"closed", "open"} => ScanOK(p)

AtomInv == setting.alone => StoreInv /\ LiveInv /\ LogInv /\ CallInv /\ ScanInv
=============================================================================
