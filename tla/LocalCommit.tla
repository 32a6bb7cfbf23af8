----------------------------- MODULE LocalCommit -----------------------------
(***************************************************************************)
(* The commit protocol of one table on the local backend.  Writers (tasks  *)
(* or processes holding a read-write handle) run write, append,            *)
(* replace_range, compact and restore concurrently; each call checks its   *)
(* idempotency key, reads HEAD, stages immutable segment objects, and then *)
(* publishes a manifest and swaps HEAD inside two nested flocks.           *)
(*                                                                         *)
(* Every file has a visible state and the states a power loss may leave:   *)
(* an fsync makes the two agree.  A crash of a process loses only its      *)
(* memory and its flocks; a power loss also loses what was not fsynced.    *)
(*                                                                         *)
(* A commit attempt is a number: it names the segment objects the attempt  *)
(* uploads (fresh UUIDs), and it is the checksum of the manifest it builds *)
(* (BLAKE3 of bytes that contain those UUIDs and the commit time).         *)
(***************************************************************************)
EXTENDS Integers, FiniteSets

CONSTANTS Writers,          \* concurrent callers
          Payloads,         \* row batches; a keyed call uses its payload's name as key
          NoKey,            \* no idempotency key
          NoSum,            \* parent checksum of version 0, absent manifest
          MaxId,            \* bound: commit attempts in a behaviour
          MaxSeq,           \* bound: highest version
          MaxPowerLoss,     \* bound: power losses in a behaviour
          MaxCrash,         \* bound: process crashes and I/O errors in a behaviour
          Lookback,         \* IDEMPOTENCY_LOOKBACK
          SegLimit,         \* max_segments_per_manifest
          MaxRetries,       \* append_with_retry's max_retries
          Calls,            \* the calls callers make: operation and options
          Clock,            \* readings the wall clock may give a commit
          SharedKeys        \* may a key be presented while a call with it is in flight

VARIABLES
    head,           \* the HEAD file: [seq, sum]
    headDisk,       \* HEAD values a power loss may leave
    manifest,       \* the manifest slots
    manifestDisk,   \* per slot, the contents a power loss may leave
    segs,           \* segment objects that exist
    segsDisk,       \* segment objects that survive a power loss
    content,        \* rows of each segment object
    meta,           \* holder of CATALOG.lock
    lock,           \* holder of the table's HEAD.lock
    pc,             \* where each writer is in its call
    req,            \* each writer's call: operation and options
    base,           \* HEAD as each writer's prologue read it
    draft,          \* the manifest each writer is about to publish
    lastId,         \* attempts so far
    acked,          \* attempts whose caller got Ok from the commit itself
    replayed,       \* attempts returned by an idempotent replay
    refused,        \* attempts whose caller got VersionConflict or LockTimeout
    powerLosses,    \* bound counter
    crashes         \* bound counter

diskVars == <<headDisk, manifestDisk, segsDisk>>
storeVars == <<head, manifest, segs, content, diskVars>>
lockVars == <<meta, lock>>
callVars == <<pc, req, base, draft>>
auxVars == <<acked, replayed, refused, powerLosses, crashes>>
vars == <<storeVars, lockVars, callVars, lastId, auxVars>>

-----------------------------------------------------------------------------
Seqs == 0..MaxSeq
Ids == 1..MaxId
Heads == [seq : Seqs, sum : Ids \cup {0}]
CallOps == {"write", "append", "replace", "compact", "restore"}
Manifests == [id : Ids \cup {0}, parent : Ids \cup {0, NoSum},
              op : CallOps \cup {"create"}, segs : SUBSET Ids,
              key : Payloads \cup {NoKey}, ts : Nat]
Requests == [op : CallOps, payload : Payloads, keyed : BOOLEAN,
             expected : Seqs \cup {NoKey}, left : 0..MaxRetries,
             auto : {"allowed", "compacting", "spent"}]
ASSUME ConstantsAssumption ==
    /\ Payloads # {}
    /\ NoKey \notin Payloads \cup Writers
    /\ NoSum \notin Manifests \cup Nat
    /\ MaxId \in Nat
    /\ MaxSeq \in Nat
    /\ MaxPowerLoss \in Nat
    /\ MaxCrash \in Nat
    /\ Lookback \in Nat
    /\ SegLimit \in Nat
    /\ MaxRetries \in Nat
    /\ Calls \subseteq Requests
    /\ \A c \in Calls : c.auto = "allowed" /\ (c.op # "append" => c.left = 0)
    /\ Clock \subseteq Nat
    /\ SharedKeys \in BOOLEAN

PCs == {"idle", "replay", "prologue", "stage", "meta", "lock", "put", "sync",
        "swap", "dirsync"}

(* Program points inside commit_manifest: the manifest is drafted. *)
Drafted == {"meta", "lock", "put", "sync", "swap", "dirsync"}
(* ... inside the metadata lock, inside the writer lock. *)
InMeta == {"lock", "put", "sync", "swap", "dirsync"}
InLock == {"put", "sync", "swap", "dirsync"}

TypeOK ==
    /\ head \in Heads
    /\ headDisk \subseteq Heads
    /\ manifest \in [Seqs -> Manifests \cup {NoSum}]
    /\ manifestDisk \in [Seqs -> SUBSET (Manifests \cup {NoSum})]
    /\ segs \subseteq Ids
    /\ segsDisk \subseteq Ids
    /\ content \in [Ids -> SUBSET Payloads]
    /\ meta \in Writers \cup {NoKey}
    /\ lock \in Writers \cup {NoKey}
    /\ pc \in [Writers -> PCs]
    /\ req \in [Writers -> Requests]
    /\ base \in [Writers -> Heads]
    /\ draft \in [Writers -> Manifests]
    /\ lastId \in 0..MaxId
    /\ acked \subseteq Ids \cup {0}
    /\ replayed \subseteq Ids \cup {0}
    /\ refused \subseteq Ids \cup {0}
    /\ powerLosses \in Nat
    /\ crashes \in Nat

-----------------------------------------------------------------------------
(* Version 0, committed by create_table: no segments, no parent. *)
Version0 == [id |-> 0, parent |-> NoSum, op |-> "create", segs |-> {},
             key |-> NoKey, ts |-> 0]
Head0 == [seq |-> 0, sum |-> 0]
NoCall == [op |-> "write", payload |-> CHOOSE p \in Payloads : TRUE, keyed |-> FALSE,
           expected |-> NoKey, left |-> 0, auto |-> "allowed"]

Init ==
    /\ head = Head0
    /\ headDisk = {Head0}
    /\ manifest = [s \in Seqs |-> IF s = 0 THEN Version0 ELSE NoSum]
    /\ manifestDisk = [s \in Seqs |-> IF s = 0 THEN {Version0} ELSE {NoSum}]
    /\ segs = {}
    /\ segsDisk = {}
    /\ content = [i \in Ids |-> {}]
    /\ meta = NoKey
    /\ lock = NoKey
    /\ pc = [w \in Writers |-> "idle"]
    /\ req = [w \in Writers |-> NoCall]
    /\ base = [w \in Writers |-> Head0]
    /\ draft = [w \in Writers |-> Version0]
    /\ lastId = 0
    /\ acked = {}
    /\ replayed = {}
    /\ refused = {}
    /\ powerLosses = 0
    /\ crashes = 0

-----------------------------------------------------------------------------
(***************************************************************************)
(* How a call ends, and how append_with_retry goes round again.            *)
(***************************************************************************)
MaxOf(a, b) == IF a >= b THEN a ELSE b

Rows(m) == UNION {content[s] : s \in m.segs}

(* The caller has its answer; the handle keeps nothing of the call. *)
Forget(w) ==
    /\ pc' = [pc EXCEPT ![w] = "idle"]
    /\ req' = [req EXCEPT ![w] = NoCall]
    /\ base' = [base EXCEPT ![w] = Head0]
    /\ draft' = [draft EXCEPT ![w] = Version0]

(* A fresh Database::append starts with its idempotency check, if keyed. *)
Entry(keyed) == IF keyed THEN "replay" ELSE "prologue"

(* VersionConflict or LockTimeout: append_with_retry calls append again,   *)
(* every other caller gets the error.                                      *)
Refuse(w) ==
    IF req[w].left > 0
    THEN /\ pc' = [pc EXCEPT ![w] = Entry(req[w].keyed)]
         /\ req' = [req EXCEPT ![w] = [req[w] EXCEPT !.left = @ - 1, !.auto = "allowed"]]
         /\ base' = [base EXCEPT ![w] = Head0]
         /\ draft' = [draft EXCEPT ![w] = Version0]
    ELSE Forget(w)

(* The operation a writer is on: an append at the segment budget first     *)
(* runs one compaction of its own.                                         *)
Doing(w) == IF req[w].auto = "compacting" THEN "compact" ELSE req[w].op

-----------------------------------------------------------------------------
(***************************************************************************)
(* A caller starts an operation.  With SharedKeys FALSE a key is presented *)
(* again only once the earlier call with it has ended (returned, failed or *)
(* crashed).                                                               *)
(***************************************************************************)
KeyFree(w, p) ==
    SharedKeys \/ \A v \in Writers \ {w} :
                     ~(pc[v] # "idle" /\ req[v].keyed /\ req[v].payload = p)

Begin(w) ==
    /\ pc[w] = "idle"
    /\ lastId < MaxId
    /\ \E c \in Calls :
          /\ c.keyed => KeyFree(w, c.payload)
          /\ pc' = [pc EXCEPT ![w] = Entry(c.keyed)]
          /\ req' = [req EXCEPT ![w] = c]
    /\ UNCHANGED <<storeVars, lockVars, base, draft, lastId, auxVars>>

(***************************************************************************)
(* idempotent_replay: walk back from HEAD over at most Lookback versions   *)
(* for a commit that carries the key.                                      *)
(***************************************************************************)
(* Mutant: the walk stops one version early. *)
WindowShort(h) == {s \in Seqs : s <= h /\ s + Lookback > h}

Window(h) == {s \in Seqs : s <= h /\ s + Lookback >= h}

Replay(w) ==
    /\ pc[w] = "replay"
    /\ LET found == {s \in Window(head.seq) : manifest[s] # NoSum
                                              /\ manifest[s].key = req[w].payload}
       IN  \/ \E s \in found :
                 /\ \A t \in found : t <= s
                 /\ replayed' = replayed \cup {manifest[s].id}
                 /\ Forget(w)
           \/ /\ found = {}
              /\ pc' = [pc EXCEPT ![w] = "prologue"]
              /\ UNCHANGED <<req, base, draft, replayed>>
    /\ UNCHANGED <<storeVars, lockVars, lastId, acked, refused, powerLosses, crashes>>

(***************************************************************************)
(* write_prologue and, for an append, the segment budget: read HEAD, check *)
(* expected_version, and decide whether to compact first.                  *)
(***************************************************************************)
AtBudget(m) == Cardinality(m.segs) >= SegLimit

Prologue(w) ==
    /\ pc[w] = "prologue"
    /\ head.seq < MaxSeq
    /\ \/ req[w].expected = NoKey
       \/ Doing(w) = "compact" /\ req[w].op = "append"
       \/ req[w].expected = head.seq
    /\ base' = [base EXCEPT ![w] = head]
    /\ \/ /\ Doing(w) = "append"
          /\ AtBudget(manifest[head.seq])
          /\ req[w].auto = "allowed"
          /\ req[w].expected = NoKey
          /\ req' = [req EXCEPT ![w] = [req[w] EXCEPT !.auto = "compacting"]]
          /\ UNCHANGED pc
       \/ /\ Doing(w) = "append" => ~AtBudget(manifest[head.seq])
          /\ pc' = [pc EXCEPT ![w] = "stage"]
          /\ UNCHANGED req
    /\ UNCHANGED <<storeVars, lockVars, draft, lastId, auxVars>>

(* expected_version does not match: VersionConflict, nothing staged. *)
ExpectedMismatch(w) ==
    /\ pc[w] = "prologue"
    /\ Doing(w) = req[w].op
    /\ req[w].expected # NoKey
    /\ req[w].expected # head.seq
    /\ Refuse(w)
    /\ UNCHANGED <<storeVars, lockVars, lastId, auxVars>>

(* Validation fails (schema, sort order, data policy, unknown version), the *)
(* append is at the budget with no compaction left, or an upload fails: an *)
(* error that is not retried, and the manifest is never drafted.           *)
Reject(w) ==
    /\ pc[w] \in {"prologue", "stage"}
    /\ Forget(w)
    /\ UNCHANGED <<storeVars, lockVars, lastId, auxVars>>

(***************************************************************************)
(* Stage: upload the new segment objects and draft the child manifest.     *)
(* The attempt's number stands for all the objects it uploads, and a       *)
(* manifest's segment list is the set of the objects it references (an     *)
(* append deduplicated against its parent lists one of them twice).        *)
(***************************************************************************)
Draft(w, id, op, kept, key) ==
    [id |-> id, parent |-> base[w].sum, op |-> op, segs |-> kept, key |-> key, ts |-> 0]

KeyOf(w) == IF req[w].keyed /\ Doing(w) = req[w].op THEN req[w].payload ELSE NoKey

(* Mutant: a duplicate is deleted and the parent's object not referenced. *)
UploadDropsDuplicate(w, id, op, kept, rows, parent) ==
    LET same == {s \in parent.segs : content[s] = rows}
    IN  \/ /\ op # "compact" /\ same # {}
           /\ draft' = [draft EXCEPT ![w] = Draft(w, id, op, kept, KeyOf(w))]
           /\ UNCHANGED <<segs, content>>
        \/ /\ op = "compact" \/ same = {}
           /\ segs' = segs \cup {id}
           /\ content' = [content EXCEPT ![id] = rows]
           /\ draft' = [draft EXCEPT ![w] = Draft(w, id, op, kept \cup {id}, KeyOf(w))]

(* dedup_segments: a new object equal to one of the parent's is deleted    *)
(* again and the parent's object referenced instead.                       *)
Upload(w, id, op, kept, rows, parent) ==
    LET same == {s \in parent.segs : content[s] = rows}
    IN  \/ /\ op # "compact" /\ same # {}
           /\ \E s \in same :
                 draft' = [draft EXCEPT ![w] = Draft(w, id, op, kept \cup {s}, KeyOf(w))]
           /\ UNCHANGED <<segs, content>>
        \/ /\ op = "compact" \/ same = {}
           /\ segs' = segs \cup {id}
           /\ content' = [content EXCEPT ![id] = rows]
           /\ draft' = [draft EXCEPT ![w] = Draft(w, id, op, kept \cup {id}, KeyOf(w))]

NoUpload(w, id, op, kept) ==
    /\ draft' = [draft EXCEPT ![w] = Draft(w, id, op, kept, KeyOf(w))]
    /\ UNCHANGED <<segs, content>>

(* write replaces everything: only the new object is referenced. *)
StageWrite(w, id, parent) ==
    /\ Doing(w) = "write"
    /\ Upload(w, id, "write", {}, {req[w].payload}, parent)

StageAppend(w, id, parent) ==
    /\ Doing(w) = "append"
    /\ Upload(w, id, "append", parent.segs, {req[w].payload}, parent)

(* replace_range and delete_range: segments outside the range are carried  *)
(* over, covered ones dropped, straddling ones rewritten with the new rows.*)
StageReplace(w, id, parent) ==
    /\ Doing(w) = "replace"
    /\ \E gone \in SUBSET Rows(parent), new \in {{}, {req[w].payload}} :
          LET kept == {s \in parent.segs : content[s] \cap gone = {}}
              boundary == {s \in parent.segs \ kept : ~(content[s] \subseteq gone)}
              rows == ((UNION {content[s] : s \in boundary}) \ gone) \cup new
          IN  IF rows = {} THEN NoUpload(w, id, "replace", kept)
              ELSE Upload(w, id, "replace", kept, rows, parent)

(* compact rewrites the small segments it groups and never deduplicates. *)
StageCompact(w, id, parent) ==
    /\ Doing(w) = "compact"
    /\ \E group \in SUBSET parent.segs :
          /\ Cardinality(group) > 1
          /\ Upload(w, id, "compact", parent.segs \ group,
                    UNION {content[s] : s \in group}, parent)

(* restore references an old version's segments again. *)
StageRestore(w, id) ==
    /\ Doing(w) = "restore"
    /\ \E v \in 0..base[w].seq : NoUpload(w, id, "restore", manifest[v].segs)

Stage(w) ==
    /\ pc[w] = "stage"
    /\ lastId < MaxId
    /\ lastId' = lastId + 1
    /\ LET id == lastId + 1
           parent == manifest[base[w].seq]
       IN  \/ StageWrite(w, id, parent)
           \/ StageAppend(w, id, parent)
           \/ StageReplace(w, id, parent)
           \/ StageCompact(w, id, parent)
           \/ StageRestore(w, id)
    /\ pc' = [pc EXCEPT ![w] = "meta"]
    /\ UNCHANGED <<head, manifest, diskVars, lockVars, req, base, auxVars>>

(* Mutant: the append may compact for room again and again. *)
NothingToCompactAgain(w) ==
    /\ pc[w] = "stage"
    /\ Doing(w) = "compact"
    /\ IF req[w].op = "append"
       THEN /\ pc' = [pc EXCEPT ![w] = "prologue"]
            /\ req' = [req EXCEPT ![w] = [req[w] EXCEPT !.auto = "allowed"]]
            /\ base' = [base EXCEPT ![w] = Head0]
            /\ UNCHANGED draft
       ELSE Forget(w)
    /\ UNCHANGED <<storeVars, lockVars, lastId, auxVars>>

(* compact finds no group of small segments: it reports the current head.  *)
(* An append that compacted for room restarts and finds the budget spent.  *)
NothingToCompact(w) ==
    /\ pc[w] = "stage"
    /\ Doing(w) = "compact"
    /\ IF req[w].op = "append"
       THEN /\ pc' = [pc EXCEPT ![w] = "prologue"]
            /\ req' = [req EXCEPT ![w] = [req[w] EXCEPT !.auto = "spent"]]
            /\ base' = [base EXCEPT ![w] = Head0]
            /\ UNCHANGED draft
       ELSE Forget(w)
    /\ UNCHANGED <<storeVars, lockVars, lastId, auxVars>>

-----------------------------------------------------------------------------
(***************************************************************************)
(* commit_manifest: the metadata lock, the segment-count guard, and the    *)
(* commit timestamp, strictly above the parent's whatever the wall clock.  *)
(***************************************************************************)
(* Mutant: the wall clock alone. *)
CommitTsWall(wall, parentTs) == wall

CommitTs(wall, parentTs) == MaxOf(wall, parentTs + 1)

AcquireMeta(w) ==
    /\ pc[w] = "meta"
    /\ meta = NoKey
    /\ \/ /\ Cardinality(draft[w].segs) > SegLimit      \* LimitExceeded
          /\ Forget(w)
          /\ UNCHANGED meta
       \/ /\ Cardinality(draft[w].segs) <= SegLimit
          /\ meta' = w
          /\ pc' = [pc EXCEPT ![w] = "lock"]
          /\ \E wall \in Clock :
                draft' = [draft EXCEPT ![w] =
                             [draft[w] EXCEPT !.ts = CommitTs(wall, manifest[base[w].seq].ts)]]
          /\ UNCHANGED <<req, base>>
    /\ UNCHANGED <<storeVars, lock, lastId, auxVars>>

(* Ten seconds of waiting for CATALOG.lock: LockTimeout. *)
MetaTimeout(w) ==
    /\ pc[w] = "meta"
    /\ meta # NoKey
    /\ refused' = refused \cup {draft[w].id}
    /\ Refuse(w)
    /\ UNCHANGED <<storeVars, lockVars, lastId, acked, replayed, powerLosses, crashes>>

(* Mutant: no revalidation of HEAD under the lock. *)
AcquireLockUnchecked(w) ==
    /\ pc[w] = "lock"
    /\ lock = NoKey
    /\ lock' = w
    /\ pc' = [pc EXCEPT ![w] = "put"]
    /\ UNCHANGED <<meta, req, base, draft>>
    /\ UNCHANGED <<storeVars, lastId, auxVars>>

(* Mutant: the manifest is put before HEAD is revalidated. *)
AcquireLockPutsFirst(w) ==
    /\ pc[w] = "lock"
    /\ lock = NoKey
    /\ LET slot == base[w].seq + 1
       IN  /\ manifest' = [manifest EXCEPT ![slot] = draft[w]]
           /\ manifestDisk' = [manifestDisk EXCEPT ![slot] = @ \cup {draft[w]}]
    /\ \/ /\ head = base[w]
          /\ lock' = w
          /\ pc' = [pc EXCEPT ![w] = "put"]
          /\ UNCHANGED <<meta, req, base, draft, refused>>
       \/ /\ head # base[w]
          /\ meta' = NoKey
          /\ refused' = refused \cup {draft[w].id}
          /\ Refuse(w)
          /\ UNCHANGED lock
    /\ UNCHANGED <<head, headDisk, segs, segsDisk, content, lastId, acked, replayed,
                   powerLosses, crashes>>

(* LocalHeadStore::commit enters the writer critical section and           *)
(* revalidates HEAD against the tag the prologue read.                     *)
AcquireLock(w) ==
    /\ pc[w] = "lock"
    /\ lock = NoKey
    /\ \/ /\ head = base[w]
          /\ lock' = w
          /\ pc' = [pc EXCEPT ![w] = "put"]
          /\ UNCHANGED <<meta, req, base, draft, refused>>
       \/ /\ head # base[w]                             \* VersionConflict
          /\ meta' = NoKey
          /\ refused' = refused \cup {draft[w].id}
          /\ Refuse(w)
          /\ UNCHANGED lock
    /\ UNCHANGED <<storeVars, lastId, acked, replayed, powerLosses, crashes>>

(* publish: put the manifest in its slot (over whatever an interrupted     *)
(* commit left there) ...                                                  *)
PutManifest(w) ==
    /\ pc[w] = "put"
    /\ LET slot == base[w].seq + 1
       IN  /\ manifest' = [manifest EXCEPT ![slot] = draft[w]]
           /\ manifestDisk' = [manifestDisk EXCEPT ![slot] = @ \cup {draft[w]}]
    /\ pc' = [pc EXCEPT ![w] = "sync"]
    /\ UNCHANGED <<head, headDisk, segs, segsDisk, content, lockVars, req, base, draft,
                   lastId, auxVars>>

(* Mutant: only the manifest is fsynced. *)
SyncManifestOnly(w) ==
    /\ pc[w] = "sync"
    /\ manifestDisk' = [manifestDisk EXCEPT ![base[w].seq + 1] = {draft[w]}]
    /\ pc' = [pc EXCEPT ![w] = "swap"]
    /\ UNCHANGED <<head, headDisk, manifest, segs, segsDisk, content, lockVars, req, base,
                   draft, lastId, auxVars>>

(* ... and fsync it together with the segments this version introduces. *)
SyncObjects(w) ==
    /\ pc[w] = "sync"
    /\ segsDisk' = segsDisk \cup ({draft[w].id} \cap draft[w].segs)
    /\ manifestDisk' = [manifestDisk EXCEPT ![base[w].seq + 1] = {draft[w]}]
    /\ pc' = [pc EXCEPT ![w] = "swap"]
    /\ UNCHANGED <<head, headDisk, manifest, segs, content, lockVars, req, base, draft,
                   lastId, auxVars>>

(* write_head_file: rename the fsynced temporary file over HEAD ... *)
SwapHead(w) ==
    /\ pc[w] = "swap"
    /\ LET new == [seq |-> base[w].seq + 1, sum |-> draft[w].id]
       IN  /\ head' = new
           /\ headDisk' = headDisk \cup {new}
    /\ pc' = [pc EXCEPT ![w] = "dirsync"]
    /\ UNCHANGED <<manifest, manifestDisk, segs, segsDisk, content, lockVars, req, base,
                   draft, lastId, auxVars>>

(* ... fsync the directory, leave both locks and answer Ok.  The commit of *)
(* an automatic compaction returns to the append it makes room for.        *)
SyncHead(w) ==
    /\ pc[w] = "dirsync"
    /\ headDisk' = {head}
    /\ lock' = NoKey
    /\ meta' = NoKey
    /\ acked' = acked \cup {draft[w].id}
    /\ IF req[w].auto = "compacting"
       THEN /\ pc' = [pc EXCEPT ![w] = "prologue"]
            /\ req' = [req EXCEPT ![w] = [req[w] EXCEPT !.auto = "spent"]]
            /\ base' = [base EXCEPT ![w] = Head0]
            /\ draft' = [draft EXCEPT ![w] = Version0]
       ELSE Forget(w)
    /\ UNCHANGED <<head, manifest, manifestDisk, segs, segsDisk, content, lastId,
                   replayed, refused, powerLosses, crashes>>

-----------------------------------------------------------------------------
(***************************************************************************)
(* Failures.  A call can end at any point, because its process dies (its   *)
(* flocks go with it) or because a hook or an I/O step inside the critical *)
(* section fails (the guards are dropped): the steps already taken stay.   *)
(***************************************************************************)
Release(owner, w) == IF owner = w THEN NoKey ELSE owner

Crash(w) ==
    /\ pc[w] # "idle"
    /\ crashes < MaxCrash
    /\ crashes' = crashes + 1
    /\ Forget(w)
    /\ meta' = Release(meta, w)
    /\ lock' = Release(lock, w)
    /\ UNCHANGED <<storeVars, lastId, acked, replayed, refused, powerLosses>>

(* What is left on disk: one of the possible contents of every file. *)
PowerLoss ==
    /\ powerLosses < MaxPowerLoss
    /\ powerLosses' = powerLosses + 1
    /\ \E h \in headDisk : head' = h /\ headDisk' = {h}
    /\ \E left \in {f \in [Seqs -> UNION {manifestDisk[s] : s \in Seqs}] :
                       \A s \in Seqs : f[s] \in manifestDisk[s]} :
          /\ manifest' = left
          /\ manifestDisk' = [s \in Seqs |-> {left[s]}]
    /\ \E left \in SUBSET (segs \ segsDisk) :
          /\ segs' = segsDisk \cup left
          /\ segsDisk' = segsDisk \cup left
    /\ meta' = NoKey
    /\ lock' = NoKey
    /\ pc' = [w \in Writers |-> "idle"]
    /\ req' = [w \in Writers |-> NoCall]
    /\ base' = [w \in Writers |-> Head0]
    /\ draft' = [w \in Writers |-> Version0]
    /\ UNCHANGED <<content, lastId, acked, replayed, refused, crashes>>

-----------------------------------------------------------------------------
Step(w) ==
    \/ Replay(w) \/ Prologue(w) \/ ExpectedMismatch(w) \/ Reject(w)
    \/ Stage(w) \/ NothingToCompact(w)
    \/ AcquireMeta(w) \/ MetaTimeout(w) \/ AcquireLock(w)
    \/ PutManifest(w) \/ SyncObjects(w) \/ SwapHead(w) \/ SyncHead(w)

Next ==
    \/ \E w \in Writers : Begin(w) \/ Step(w) \/ Crash(w)
    \/ PowerLoss

Spec == Init /\ [][Next]_vars

(* The runtime keeps polling a started call, and a lock wait ends in the   *)
(* lock or in LockTimeout; callers, crashes and power losses owe nothing.  *)
FairSpec == Spec /\ \A w \in Writers : WF_vars(Step(w))

-----------------------------------------------------------------------------
(***************************************************************************)
(* Properties                                                              *)
(***************************************************************************)

(* What a HEAD value must find if a power loss leaves it on disk: its      *)
(* manifest and every manifest below it fsynced, checksum-chained, and all *)
(* their segment objects fsynced.                                          *)
Intact(h) ==
    /\ manifest[h.seq] # NoSum
    /\ manifest[h.seq].id = h.sum
    /\ \A s \in 0..h.seq :
          /\ manifest[s] # NoSum
          /\ manifestDisk[s] = {manifest[s]}
          /\ manifest[s].segs \subseteq segsDisk
          /\ segsDisk \subseteq segs
          /\ s > 0 => manifest[s].parent = manifest[s - 1].id

(* A HEAD that is visible, or that a power loss could leave on disk at any *)
(* moment of any commit, never references a torn, missing or foreign       *)
(* object ("a committed HEAD can never reference torn or unflushed Parquet *)
(* objects after power loss", commit_manifest_locked).                     *)
HeadIntact == \A h \in headDisk \cup {head} : Intact(h)

(* A commit whose caller got Ok is in the history for good: it stays at a  *)
(* version that every HEAD a power loss may leave includes.                *)
NoLostAck ==
    \A id \in acked :
       \E s \in Seqs :
          /\ \A h \in headDisk : s <= h.seq
          /\ manifestDisk[s] # {NoSum}
          /\ \A m \in manifestDisk[s] : m.id = id

(* VersionConflict and LockTimeout mean nothing was published: the attempt *)
(* is in no manifest slot, committed or orphaned, so retrying is safe.     *)
RefusedUnpublished ==
    \A s \in Seqs : \A m \in manifestDisk[s] \cup {manifest[s]} :
       m # NoSum => m.id \notin refused

(* Retrying with an idempotency key after the first call ended, however it *)
(* ended, applies the mutation once: two versions with the same key are    *)
(* further apart than the lookback window.                                 *)
KeyOnce ==
    \A s, t \in 0..head.seq :
       /\ s < t
       /\ manifest[s].key # NoKey
       /\ manifest[s].key = manifest[t].key
       => t - s > Lookback + 1

(* Commit timestamps strictly increase along the history although the wall *)
(* clock does not: as_of resolution is a binary search over them.          *)
TimestampsIncrease ==
    \A s, t \in 0..head.seq : s < t => manifest[s].ts < manifest[t].ts

(* Every call that began comes back to its caller: no lock is leaked on an *)
(* error path and no retry loop is endless.                                *)
CallsReturn == \A w \in Writers : pc[w] # "idle" ~> pc[w] = "idle"

(***************************************************************************)
(* The inductive invariant the proofs use.                                 *)
(***************************************************************************)

(* Who is inside a critical section holds its flock. *)
LockInv ==
    \A w \in Writers : /\ pc[w] \in InMeta => meta = w
                       /\ pc[w] \in InLock => lock = w

(* The committed history is complete, chained and fsynced up to HEAD. *)
HistoryInv ==
    /\ head \in headDisk
    /\ \A h \in headDisk : h.seq <= head.seq /\ manifest[h.seq].id = h.sum
    /\ segsDisk \subseteq segs
    /\ \A s \in Seqs : manifest[s] \in manifestDisk[s]
    /\ \A s \in 0..head.seq :
          /\ manifest[s] # NoSum
          /\ manifestDisk[s] = {manifest[s]}
          /\ manifest[s].segs \subseteq segsDisk
          /\ s > 0 => manifest[s].parent = manifest[s - 1].id

(* What a writer knows at each point of its commit. *)
CallOK(w) ==
    /\ pc[w] \in {"stage"} \cup Drafted =>
          base[w].seq < MaxSeq /\ base[w].seq <= head.seq
    /\ pc[w] \in Drafted =>
          /\ draft[w].parent = base[w].sum
          /\ draft[w].segs \subseteq segs
          /\ draft[w].segs \subseteq segsDisk \cup {draft[w].id}
    /\ pc[w] \in {"put", "sync", "swap"} => base[w] = head
    /\ pc[w] \in {"sync", "swap"} => manifest[base[w].seq + 1] = draft[w]
    /\ pc[w] = "swap" => /\ manifestDisk[base[w].seq + 1] = {draft[w]}
                         /\ draft[w].segs \subseteq segsDisk
    /\ pc[w] = "dirsync" => head = [seq |-> base[w].seq + 1, sum |-> draft[w].id]

CallInv == \A w \in Writers : CallOK(w)

(* Attempts are numbered apart: a manifest in a slot, an attempt in        *)
(* flight and a refused attempt are never confused.                        *)
IdInv ==
    /\ refused \subseteq 1..lastId
    /\ \A s \in Seqs : \A m \in manifestDisk[s] :
          m # NoSum => m.id <= lastId /\ m.id \notin refused
    /\ \A w \in Writers : pc[w] \in Drafted =>
          /\ draft[w].id \in 1..lastId
          /\ draft[w].id \notin refused
          /\ \A v \in Writers \ {w} : pc[v] \in Drafted => draft[v].id # draft[w].id
    /\ \A w \in Writers : pc[w] \in {"meta", "lock", "put"} =>
          \A s \in Seqs : \A m \in manifestDisk[s] : m # NoSum => m.id # draft[w].id

IInv == TypeOK /\ LockInv /\ HistoryInv /\ CallInv /\ IdInv /\ NoLostAck

(* A stamped draft is above the version it is based on. *)
StampInv ==
    /\ TimestampsIncrease
    /\ \A w \in Writers : pc[w] \in {"lock", "put", "sync", "swap"} =>
          manifest[base[w].seq].ts < draft[w].ts

(* A call past its replay has a key that is not in the window behind HEAD  *)
(* and that no other call in flight has.                                   *)
KeyAbsent(p) == \A s \in 0..head.seq : manifest[s].key = p => s + Lookback < head.seq
CallKey(w) ==
    /\ req[w].auto = "compacting" => req[w].op = "append"
    /\ pc[w] \in Drafted => draft[w].key \in {NoKey, req[w].payload}
    /\ pc[w] \in Drafted /\ draft[w].key # NoKey => req[w].keyed
    /\ pc[w] \in Drafted /\ req[w].auto = "compacting" => draft[w].key = NoKey
    /\ /\ pc[w] \notin {"idle", "replay"} /\ req[w].keyed
       /\ pc[w] = "dirsync" => draft[w].key = NoKey
       => KeyAbsent(req[w].payload)
    /\ \A v \in Writers \ {w} :
          /\ pc[w] # "idle" /\ req[w].keyed
          /\ pc[v] # "idle" /\ req[v].keyed
          => req[v].payload # req[w].payload
KeyInv == KeyOnce /\ \A w \in Writers : CallKey(w)

(* A draft's rows follow from its base; attempts in the store are below    *)
(* lastId; one of the HEADs a power loss may leave is the lowest.          *)
FollowsBase(w) ==
    LET m == draft[w]
        latest == Rows(manifest[base[w].seq])
    IN  \/ m.op = "write" /\ \E p \in Payloads : Rows(m) = {p}
        \/ m.op = "append" /\ \E p \in Payloads : Rows(m) = latest \cup {p}
        \/ m.op = "replace" /\ \E gone \in SUBSET latest :
              \/ Rows(m) = latest \ gone
              \/ \E p \in Payloads : Rows(m) = (latest \ gone) \cup {p}
        \/ m.op = "compact" /\ Rows(m) = latest
        \/ m.op = "restore" /\ \E v \in 0..base[w].seq : Rows(m) = Rows(manifest[v])
TableInv ==
    /\ segs \subseteq 1..lastId
    /\ \E low \in headDisk : \A h \in headDisk : low.seq <= h.seq
    /\ \A w \in Writers : pc[w] \in {"meta", "lock", "put", "sync", "swap"} => FollowsBase(w)

(***************************************************************************)
(* The table as its callers see it: LocalCommit implements VersionedTable. *)
(* A version is what its manifest says; versions up to the lowest HEAD a   *)
(* power loss may leave are durable.                                       *)
(***************************************************************************)
visible == [s \in 0..head.seq |-> [op |-> manifest[s].op, rows |-> Rows(manifest[s])]]
hardened == CHOOSE k \in {h.seq : h \in headDisk} : \A h \in headDisk : k <= h.seq

Table == INSTANCE VersionedTable WITH version <- visible, top <- head.seq,
                                      durable <- hardened

(* Each HEAD swap is one abstract commit derived from the version below    *)
(* it, versions never change, and only unacknowledged ones can vanish.     *)
ImplementsTable == Table!Spec
=============================================================================
