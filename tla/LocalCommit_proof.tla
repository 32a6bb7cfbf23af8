-------------------------- MODULE LocalCommit_proof --------------------------
(***************************************************************************)
(* Proofs about LocalCommit, for every set of writers and payloads and     *)
(* every value of the bounds.                                              *)
(***************************************************************************)
EXTENDS LocalCommit, TLAPS

(* The values an idle writer is reset to, and HEAD at version 0, are well  *)
(* typed.                                                                  *)
LEMMA DefaultTypes ==
    /\ Head0 \in Heads
    /\ Version0 \in Manifests
    /\ NoCall \in Requests
    /\ 0 \in Seqs
<1>1. Head0 \in Heads
  BY ConstantsAssumption DEF Head0, Heads, Seqs
<1>2. Version0 \in Manifests
  BY DEF Version0, Manifests
<1>3. NoCall \in Requests
  BY ConstantsAssumption DEF NoCall, Requests, CallOps
<1>4. QED
  BY <1>1, <1>2, <1>3, ConstantsAssumption DEF Seqs

(* The four per-call variables, as TypeOK constrains them. *)
CallTypes ==
    /\ pc \in [Writers -> PCs]
    /\ req \in [Writers -> Requests]
    /\ base \in [Writers -> Heads]
    /\ draft \in [Writers -> Manifests]

(* Returning to the caller keeps the per-call variables well typed. *)
LEMMA ForgetTypes ==
    ASSUME CallTypes, NEW w \in Writers, Forget(w)
    PROVE  CallTypes'
BY DefaultTypes DEF Forget, CallTypes, PCs

(* So does going round append_with_retry. *)
LEMMA RefuseTypes ==
    ASSUME CallTypes, NEW w \in Writers, Refuse(w)
    PROVE  CallTypes'
<1>1. CASE req[w].left > 0
  <2>1. req[w] \in Requests
    BY DEF CallTypes
  <2>2. req[w].left - 1 \in 0..MaxRetries
    BY <1>1, <2>1, ConstantsAssumption DEF Requests
  <2>3. [req[w] EXCEPT !.left = @ - 1, !.auto = "allowed"] \in Requests
    BY <2>1, <2>2 DEF Requests
  <2>4. Entry(req[w].keyed) \in PCs
    BY DEF Entry, PCs
  <2>5. QED
    BY <1>1, <2>3, <2>4, DefaultTypes DEF Refuse, CallTypes
<1>2. CASE ~(req[w].left > 0)
  BY <1>2, ForgetTypes DEF Refuse
<1>3. QED
  BY <1>1, <1>2

(* The rest of the variables, as TypeOK constrains them. *)
StoreTypes ==
    /\ head \in Heads
    /\ headDisk \subseteq Heads
    /\ manifest \in [Seqs -> Manifests \cup {NoSum}]
    /\ manifestDisk \in [Seqs -> SUBSET (Manifests \cup {NoSum})]
    /\ segs \subseteq Ids
    /\ segsDisk \subseteq Ids
    /\ content \in [Ids -> SUBSET Payloads]
    /\ meta \in Writers \cup {NoKey}
    /\ lock \in Writers \cup {NoKey}
    /\ lastId \in 0..MaxId

AuxTypes ==
    /\ acked \subseteq Ids \cup {0}
    /\ replayed \subseteq Ids \cup {0}
    /\ refused \subseteq Ids \cup {0}
    /\ powerLosses \in Nat
    /\ crashes \in Nat

(* The type invariant in three parts. *)
LEMMA TypeParts == TypeOK <=> StoreTypes /\ CallTypes /\ AuxTypes
BY DEF TypeOK, StoreTypes, CallTypes, AuxTypes

-----------------------------------------------------------------------------
(* A staged manifest is well typed whatever it keeps of its parent. *)
LEMMA DraftType ==
    ASSUME CallTypes, NEW w \in Writers, NEW id \in Ids, NEW op \in CallOps,
           NEW kept \in SUBSET Ids, NEW key \in Payloads \cup {NoKey}
    PROVE  Draft(w, id, op, kept, key) \in Manifests
<1>1. base[w].sum \in Ids \cup {0}
  BY DEF CallTypes, Heads
<1>2. QED
  BY <1>1 DEF Draft, Manifests

(* The invariant without its history of acknowledgements. *)
Core == StoreTypes /\ CallTypes /\ AuxTypes /\ LockInv /\ HistoryInv /\ CallInv /\ IdInv

(* The state create_table leaves satisfies the invariant. *)
LEMMA InitCore == Init => Core /\ NoLostAck
<1> SUFFICES ASSUME Init PROVE Core /\ NoLostAck
  OBVIOUS
<1>1. StoreTypes
  BY DefaultTypes, ConstantsAssumption DEF Init, StoreTypes
<1>2. CallTypes
  BY DefaultTypes DEF Init, CallTypes, PCs
<1>3. AuxTypes
  BY DEF Init, AuxTypes
<1>4. LockInv
  BY DEF Init, LockInv, InMeta, InLock
<1>5. HistoryInv
  <2>1. Version0 # NoSum
    BY DefaultTypes, ConstantsAssumption
  <2>2. QED
    BY <2>1, DefaultTypes, ConstantsAssumption DEF Init, HistoryInv, Head0, Version0, Seqs
<1>6. CallInv
  BY DEF Init, CallInv, CallOK, Drafted
<1>7. IdInv
  <2>1. Version0.id = 0
    BY DEF Version0
  <2>2. QED
    BY <2>1, DefaultTypes DEF Init, IdInv, Drafted
<1>8. NoLostAck
  BY DEF Init, NoLostAck
<1>9. QED
  BY <1>1, <1>2, <1>3, <1>4, <1>5, <1>6, <1>7, <1>8 DEF Core

-----------------------------------------------------------------------------
(***************************************************************************)
(* Most steps of a call only end it or send it back to an earlier point:   *)
(* the files stay as they are and at most this writer's locks are dropped. *)
(***************************************************************************)
Early == {"idle", "replay", "prologue"}

Leaves(w) ==
    /\ UNCHANGED <<storeVars, lastId>>
    /\ CallTypes'
    /\ pc'[w] \in Early
    /\ \A v \in Writers \ {w} : /\ pc'[v] = pc[v]
                                /\ base'[v] = base[v]
                                /\ draft'[v] = draft[v]
    /\ meta' \in {meta, Release(meta, w)}
    /\ lock' \in {lock, Release(lock, w)}
    /\ \/ refused' = refused
       \/ pc[w] \in {"meta", "lock"} /\ refused' = refused \cup {draft[w].id}

(* Ending a call, or sending it back, preserves the invariant. *)
LEMMA LeavesCore ==
    ASSUME Core, NEW w \in Writers, Leaves(w), AuxTypes'
    PROVE  Core'
<1> USE DEF Core
<1>1. StoreTypes'
  BY DEF Leaves, Release, StoreTypes, storeVars, diskVars
<1>2. HistoryInv'
  BY DEF Leaves, HistoryInv, storeVars, diskVars
<1>3. LockInv'
  BY ConstantsAssumption DEF Leaves, Release, LockInv, InMeta, InLock, Early
<1>4. CallInv'
  BY DEF Leaves, CallInv, CallOK, Drafted, Early, storeVars, diskVars
<1>5. IdInv'
  <2>1. UNCHANGED <<manifestDisk, lastId>>
    BY DEF Leaves, storeVars, diskVars
  <2>2. ASSUME NEW v \in Writers, pc'[v] \in Drafted
        PROVE  v # w /\ pc[v] = pc'[v] /\ draft'[v] = draft[v]
    BY <2>2 DEF Leaves, Early, Drafted
  <2>3. CASE refused' = refused
    BY <2>1, <2>2, <2>3 DEF IdInv, Drafted
  <2>4. CASE pc[w] \in {"meta", "lock"} /\ refused' = refused \cup {draft[w].id}
    <3>1. draft[w].id \in 1..lastId
      BY <2>4 DEF IdInv, Drafted
    <3>2. \A s \in Seqs : \A m \in manifestDisk[s] : m # NoSum => m.id # draft[w].id
      BY <2>4 DEF IdInv
    <3>3. \A v \in Writers \ {w} : pc[v] \in Drafted => draft[v].id # draft[w].id
      BY <2>4 DEF IdInv, Drafted
    <3>4. (refused \subseteq 1..lastId)'
      BY <2>1, <2>4, <3>1 DEF IdInv
    <3>5. (\A s \in Seqs : \A m \in manifestDisk[s] :
              m # NoSum => m.id <= lastId /\ m.id \notin refused)'
      BY <2>1, <2>4, <3>2 DEF IdInv
    <3>6. (\A v \in Writers : pc[v] \in Drafted =>
              /\ draft[v].id \in 1..lastId
              /\ draft[v].id \notin refused
              /\ \A u \in Writers \ {v} : pc[u] \in Drafted => draft[u].id # draft[v].id)'
      BY <2>1, <2>2, <2>4, <3>3 DEF IdInv
    <3>7. (\A v \in Writers : pc[v] \in {"meta", "lock", "put"} =>
              \A s \in Seqs : \A m \in manifestDisk[s] : m # NoSum => m.id # draft[v].id)'
      BY <2>1, <2>2 DEF IdInv, Drafted
    <3>8. QED
      BY <3>4, <3>5, <3>6, <3>7 DEF IdInv
  <2>5. QED
    BY <2>3, <2>4 DEF Leaves
<1>6. QED
  BY <1>1, <1>2, <1>3, <1>4, <1>5 DEF Leaves

(* Forget and Refuse do leave. *)
LEMMA ForgetLeaves ==
    ASSUME CallTypes, NEW w \in Writers, Forget(w) \/ Refuse(w)
    PROVE  /\ CallTypes'
           /\ pc'[w] \in Early
           /\ \A v \in Writers \ {w} : /\ pc'[v] = pc[v]
                                       /\ base'[v] = base[v]
                                       /\ draft'[v] = draft[v]
<1>1. CallTypes'
  BY ForgetTypes, RefuseTypes
<1>2. CASE Forget(w)
  BY <1>1, <1>2 DEF Forget, CallTypes, Early
<1>3. CASE Refuse(w)
  <2>1. Entry(req[w].keyed) \in Early
    BY DEF Entry, Early
  <2>2. QED
    BY <1>1, <1>2, <1>3, <2>1 DEF Refuse, CallTypes
<1>4. QED
  BY <1>2, <1>3

-----------------------------------------------------------------------------
(***************************************************************************)
(* The actions that leave, one lemma each.                                 *)
(***************************************************************************)
(* A caller starting an operation. *)
LEMMA BeginCore == ASSUME Core, NEW w \in Writers, Begin(w) PROVE Core'
<1>1. PICK c \in Calls : /\ pc' = [pc EXCEPT ![w] = Entry(c.keyed)]
                         /\ req' = [req EXCEPT ![w] = c]
  BY DEF Begin
<1>2. Entry(c.keyed) \in Early \cap PCs
  BY DEF Entry, Early, PCs
<1>3. c \in Requests
  BY ConstantsAssumption
<1>4. CallTypes'
  BY <1>1, <1>2, <1>3 DEF Core, CallTypes, Begin
<1>5. Leaves(w)
  BY <1>1, <1>2, <1>4 DEF Core, CallTypes, Begin, Leaves, lockVars, auxVars
<1>6. AuxTypes'
  BY DEF Core, AuxTypes, Begin, auxVars
<1>7. QED
  BY <1>5, <1>6, LeavesCore

(* idempotent_replay. *)
LEMMA ReplayCore == ASSUME Core, NEW w \in Writers, Replay(w) PROVE Core'
<1>1. UNCHANGED <<storeVars, lockVars, lastId, acked, refused, powerLosses, crashes>>
  BY DEF Replay
<1>2. CASE \E s \in Seqs : /\ manifest[s] # NoSum
                           /\ replayed' = replayed \cup {manifest[s].id}
                           /\ Forget(w)
  <2>1. AuxTypes'
    BY <1>1, <1>2 DEF Core, AuxTypes, StoreTypes, Manifests
  <2>2. Leaves(w)
    BY <1>1, <1>2, ForgetLeaves DEF Core, Leaves, lockVars
  <2>3. QED
    BY <2>1, <2>2, LeavesCore
<1>3. CASE pc' = [pc EXCEPT ![w] = "prologue"] /\ UNCHANGED <<req, base, draft, replayed>>
  <2>1. AuxTypes'
    BY <1>1, <1>3 DEF Core, AuxTypes
  <2>2. CallTypes'
    BY <1>3 DEF Core, CallTypes, PCs
  <2>3. Leaves(w)
    BY <1>1, <1>3, <2>2 DEF Core, CallTypes, Leaves, Early, lockVars
  <2>4. QED
    BY <2>1, <2>3, LeavesCore
<1>4. QED
  BY <1>2, <1>3 DEF Replay, Window

(* An expected_version that does not match. *)
LEMMA ExpectedMismatchCore == ASSUME Core, NEW w \in Writers, ExpectedMismatch(w) PROVE Core'
<1>1. Leaves(w)
  BY ForgetLeaves DEF Core, ExpectedMismatch, Leaves, lockVars, auxVars
<1>2. AuxTypes'
  BY DEF Core, AuxTypes, ExpectedMismatch, auxVars
<1>3. QED
  BY <1>1, <1>2, LeavesCore

(* A validation or upload error. *)
LEMMA RejectCore == ASSUME Core, NEW w \in Writers, Reject(w) PROVE Core'
<1>1. Leaves(w)
  BY ForgetLeaves DEF Core, Reject, Leaves, lockVars, auxVars
<1>2. AuxTypes'
  BY DEF Core, AuxTypes, Reject, auxVars
<1>3. QED
  BY <1>1, <1>2, LeavesCore

(* compact with nothing to do. *)
LEMMA NothingToCompactCore == ASSUME Core, NEW w \in Writers, NothingToCompact(w) PROVE Core'
<1>1. AuxTypes' /\ UNCHANGED <<storeVars, lockVars, lastId, refused>>
  BY DEF Core, AuxTypes, NothingToCompact, auxVars
<1>2. CASE Forget(w)
  BY <1>1, <1>2, ForgetLeaves, LeavesCore DEF Core, Leaves, lockVars
<1>3. CASE /\ pc' = [pc EXCEPT ![w] = "prologue"]
           /\ req' = [req EXCEPT ![w] = [req[w] EXCEPT !.auto = "spent"]]
           /\ base' = [base EXCEPT ![w] = Head0]
           /\ UNCHANGED draft
  <2>1. [req[w] EXCEPT !.auto = "spent"] \in Requests
    BY DEF Core, CallTypes, Requests
  <2>2. CallTypes'
    BY <1>3, <2>1, DefaultTypes DEF Core, CallTypes, PCs
  <2>3. Leaves(w)
    BY <1>1, <1>3, <2>2 DEF Core, CallTypes, Leaves, Early, lockVars
  <2>4. QED
    BY <1>1, <2>3, LeavesCore
<1>4. QED
  BY <1>2, <1>3 DEF NothingToCompact

(* LockTimeout on the metadata lock. *)
LEMMA MetaTimeoutCore == ASSUME Core, NEW w \in Writers, MetaTimeout(w) PROVE Core'
<1>1. Leaves(w)
  BY ForgetLeaves DEF Core, MetaTimeout, Leaves, lockVars
<1>2. draft[w].id \in Ids \cup {0}
  BY DEF Core, CallTypes, Manifests
<1>3. AuxTypes'
  BY <1>2 DEF Core, AuxTypes, MetaTimeout
<1>4. QED
  BY <1>1, <1>3, LeavesCore

(* A process crash or an I/O error. *)
LEMMA CrashCore == ASSUME Core, NEW w \in Writers, Crash(w) PROVE Core'
<1>1. Leaves(w)
  BY ForgetLeaves DEF Core, Crash, Leaves
<1>2. AuxTypes'
  BY DEF Core, AuxTypes, Crash
<1>3. QED
  BY <1>1, <1>2, LeavesCore

-----------------------------------------------------------------------------
(***************************************************************************)
(* The actions that advance a call.                                        *)
(***************************************************************************)
(* write_prologue: the writer now knows a HEAD. *)
LEMMA PrologueCore == ASSUME Core, NEW w \in Writers, Prologue(w) PROVE Core'
<1> USE DEF Core
<1>1. /\ UNCHANGED <<storeVars, lockVars, draft, lastId, auxVars>>
      /\ base' = [base EXCEPT ![w] = head]
      /\ pc[w] = "prologue"
      /\ head.seq < MaxSeq
  BY DEF Prologue
<1>2. pc' = pc \/ pc' = [pc EXCEPT ![w] = "stage"]
  BY DEF Prologue
<1>3. req' \in [Writers -> Requests]
  <2>1. [req[w] EXCEPT !.auto = "compacting"] \in Requests
    BY DEF CallTypes, Requests
  <2>2. QED
    BY <2>1 DEF Prologue, CallTypes
<1>4. CallTypes'
  BY <1>1, <1>2, <1>3 DEF CallTypes, StoreTypes, PCs
<1>5. StoreTypes' /\ AuxTypes' /\ HistoryInv'
  BY <1>1 DEF StoreTypes, AuxTypes, HistoryInv, storeVars, diskVars, lockVars, auxVars
<1>6. LockInv'
  BY <1>1, <1>2 DEF LockInv, InMeta, InLock, lockVars, CallTypes
<1>7. CallInv'
  <2>1. head.seq \in Int
    BY DEF StoreTypes, Heads, Seqs
  <2>2. ASSUME NEW v \in Writers, v # w PROVE CallOK(v)'
    BY <1>1, <1>2, <2>2 DEF CallInv, CallOK, Drafted, storeVars, diskVars, CallTypes
  <2>3. pc'[w] \in {"prologue", "stage"} /\ base'[w] = head
    BY <1>1, <1>2 DEF CallTypes
  <2>4. CallOK(w)'
    BY <1>1, <2>1, <2>3 DEF CallOK, Drafted, storeVars
  <2>5. QED
    BY <2>2, <2>4 DEF CallInv
<1>8. IdInv'
  BY <1>1, <1>2 DEF IdInv, Drafted, storeVars, diskVars, auxVars, CallTypes
<1>9. QED
  BY <1>4, <1>5, <1>6, <1>7, <1>8

(* The metadata lock, and the timestamp stamped under it. *)
LEMMA AcquireMetaCore == ASSUME Core, NEW w \in Writers, AcquireMeta(w) PROVE Core'
<1> USE DEF Core
<1>1. UNCHANGED <<storeVars, lock, lastId, auxVars>> /\ pc[w] = "meta" /\ meta = NoKey
  BY DEF AcquireMeta
<1>2. AuxTypes'
  BY <1>1 DEF AuxTypes, auxVars
<1>3. CASE Forget(w) /\ UNCHANGED meta
  BY <1>1, <1>2, <1>3, ForgetLeaves, LeavesCore DEF Leaves, auxVars
<1>4. CASE /\ meta' = w
           /\ pc' = [pc EXCEPT ![w] = "lock"]
           /\ \E wall \in Clock :
                draft' = [draft EXCEPT ![w] =
                             [draft[w] EXCEPT !.ts = CommitTs(wall, manifest[base[w].seq].ts)]]
           /\ UNCHANGED <<req, base>>
  <2>1. PICK wall \in Clock :
           draft' = [draft EXCEPT ![w] =
                        [draft[w] EXCEPT !.ts = CommitTs(wall, manifest[base[w].seq].ts)]]
    BY <1>4
  <2> DEFINE m == manifest[base[w].seq]
  <2>2. m \in Manifests
    <3>1. base[w].seq <= head.seq
      BY <1>1 DEF CallInv, CallOK, Drafted
    <3>2. base[w].seq \in Seqs
      BY DEF CallTypes, Heads
    <3>3. base[w].seq \in 0..head.seq
      BY <3>1, <3>2 DEF Seqs, StoreTypes, Heads
    <3>4. QED
      BY <3>2, <3>3 DEF HistoryInv, StoreTypes
  <2>3. CommitTs(wall, m.ts) \in Nat
    BY <2>2, ConstantsAssumption DEF CommitTs, MaxOf, Manifests
  <2> DEFINE d == [draft[w] EXCEPT !.ts = CommitTs(wall, m.ts)]
  <2>4. d \in Manifests /\ d.id = draft[w].id /\ d.parent = draft[w].parent
        /\ d.segs = draft[w].segs
    BY <2>3 DEF CallTypes, Manifests
  <2> HIDE DEF d
  <2>5. draft' = [draft EXCEPT ![w] = d]
    BY <2>1 DEF d
  <2>6. CallTypes'
    BY <1>4, <2>4, <2>5 DEF CallTypes, PCs
  <2>7. StoreTypes' /\ HistoryInv'
    BY <1>1, <1>4 DEF StoreTypes, HistoryInv, storeVars, diskVars
  <2>8. LockInv'
    BY <1>1, <1>4, ConstantsAssumption DEF LockInv, InMeta, InLock, CallTypes
  <2>9. CallInv'
    BY <1>1, <1>4, <2>4, <2>5 DEF CallInv, CallOK, Drafted, storeVars, diskVars, CallTypes
  <2>10. IdInv'
    BY <1>1, <1>4, <2>4, <2>5 DEF IdInv, Drafted, storeVars, diskVars, auxVars, CallTypes
  <2>11. QED
    BY <1>2, <2>6, <2>7, <2>8, <2>9, <2>10
<1>5. QED
  BY <1>3, <1>4 DEF AcquireMeta

(* The writer lock, and the revalidation of HEAD under it. *)
LEMMA AcquireLockCore == ASSUME Core, NEW w \in Writers, AcquireLock(w) PROVE Core'
<1> USE DEF Core
<1>1. /\ UNCHANGED <<storeVars, lastId, acked, replayed, powerLosses, crashes>>
      /\ pc[w] = "lock"
      /\ lock = NoKey
  BY DEF AcquireLock
<1>2. CASE /\ head = base[w]
           /\ lock' = w
           /\ pc' = [pc EXCEPT ![w] = "put"]
           /\ UNCHANGED <<meta, req, base, draft, refused>>
  <2>1. StoreTypes' /\ AuxTypes' /\ HistoryInv' /\ CallTypes'
    BY <1>1, <1>2 DEF StoreTypes, AuxTypes, HistoryInv, storeVars, diskVars, CallTypes, PCs
  <2>2. LockInv'
    BY <1>1, <1>2, ConstantsAssumption DEF LockInv, InMeta, InLock, CallTypes
  <2>3. CallInv'
    BY <1>1, <1>2 DEF CallInv, CallOK, Drafted, storeVars, diskVars, CallTypes
  <2>4. IdInv'
    BY <1>1, <1>2 DEF IdInv, Drafted, storeVars, diskVars, CallTypes
  <2>5. QED
    BY <2>1, <2>2, <2>3, <2>4
<1>3. CASE /\ meta' = NoKey
           /\ refused' = refused \cup {draft[w].id}
           /\ Refuse(w)
           /\ UNCHANGED lock
  <2>1. meta = w
    BY <1>1 DEF LockInv, InMeta
  <2>2. Leaves(w)
    BY <1>1, <1>3, <2>1, ForgetLeaves DEF Leaves, Release
  <2>3. draft[w].id \in Ids \cup {0}
    BY DEF CallTypes, Manifests
  <2>4. AuxTypes'
    BY <1>1, <1>3, <2>3 DEF AuxTypes
  <2>5. QED
    BY <2>2, <2>4, LeavesCore
<1>4. QED
  BY <1>2, <1>3 DEF AcquireLock

(* The parent a staged manifest derives from is a committed version. *)
LEMMA CommittedManifest ==
    ASSUME Core, NEW s \in Seqs, s <= head.seq
    PROVE  manifest[s] \in Manifests /\ manifest[s].segs \in SUBSET Ids
           /\ manifest[s].segs \subseteq segsDisk
<1>1. s \in 0..head.seq
  BY DEF Core, StoreTypes, Heads, Seqs
<1>2. manifest[s] \in Manifests
  BY <1>1 DEF Core, HistoryInv, StoreTypes
<1>3. QED
  BY <1>1, <1>2 DEF Core, HistoryInv, Manifests

(* What staging leaves: a draft made of durable objects and the attempt's  *)
(* own, and at most one new object.                                        *)
Staged(w, id) ==
    \E op \in CallOps, kept \in SUBSET Ids, key \in Payloads \cup {NoKey} :
       /\ draft' = [draft EXCEPT ![w] = Draft(w, id, op, kept, key)]
       /\ kept \subseteq segsDisk \cup {id}
       /\ kept \subseteq segs'
       /\ segs' \in {segs, segs \cup {id}}
       /\ content' \in [Ids -> SUBSET Payloads]

(* An upload, deduplicated or not, leaves a draft of that kind. *)
LEMMA UploadStaged ==
    ASSUME Core, NEW w \in Writers, NEW id \in Ids, NEW op \in CallOps,
           NEW parent \in Manifests, parent.segs \subseteq segsDisk,
           NEW kept \in SUBSET parent.segs, NEW rows \in SUBSET Payloads,
           Upload(w, id, op, kept, rows, parent)
    PROVE  Staged(w, id)
<1> USE DEF Core
<1>1. KeyOf(w) \in Payloads \cup {NoKey}
  BY DEF KeyOf, CallTypes, Requests
<1>2. parent.segs \subseteq Ids /\ segsDisk \subseteq segs
  BY DEF StoreTypes, HistoryInv
<1>3. CASE /\ \E s \in parent.segs :
                 draft' = [draft EXCEPT ![w] = Draft(w, id, op, kept \cup {s}, KeyOf(w))]
           /\ UNCHANGED <<segs, content>>
  <2>1. PICK s \in parent.segs :
                 draft' = [draft EXCEPT ![w] = Draft(w, id, op, kept \cup {s}, KeyOf(w))]
    BY <1>3
  <2>2. kept \cup {s} \in SUBSET Ids /\ kept \cup {s} \subseteq segsDisk
    BY <1>2
  <2>3. content' \in [Ids -> SUBSET Payloads]
    BY <1>3 DEF StoreTypes
  <2>4. QED
    BY <1>1, <1>2, <1>3, <2>1, <2>2, <2>3 DEF Staged
<1>4. CASE /\ segs' = segs \cup {id}
           /\ content' = [content EXCEPT ![id] = rows]
           /\ draft' = [draft EXCEPT ![w] = Draft(w, id, op, kept \cup {id}, KeyOf(w))]
  <2>1. kept \cup {id} \in SUBSET Ids /\ kept \cup {id} \subseteq segsDisk \cup {id}
    BY <1>2
  <2>2. content' \in [Ids -> SUBSET Payloads]
    BY <1>4 DEF StoreTypes
  <2>3. QED
    BY <1>1, <1>2, <1>4, <2>1, <2>2 DEF Staged
<1>5. QED
  BY <1>3, <1>4 DEF Upload

(* So does a version that only references existing objects. *)
LEMMA NoUploadStaged ==
    ASSUME Core, NEW w \in Writers, NEW id \in Ids, NEW op \in CallOps,
           NEW kept \in SUBSET segsDisk, NoUpload(w, id, op, kept)
    PROVE  Staged(w, id)
<1> USE DEF Core
<1>1. KeyOf(w) \in Payloads \cup {NoKey}
  BY DEF KeyOf, CallTypes, Requests
<1>2. kept \in SUBSET Ids /\ kept \subseteq segs
  BY DEF StoreTypes, HistoryInv
<1>3. content' \in [Ids -> SUBSET Payloads]
  BY DEF NoUpload, StoreTypes
<1>4. QED
  BY <1>1, <1>2, <1>3 DEF Staged, NoUpload

(* Every operation stages such a draft. *)
LEMMA StageStaged ==
    ASSUME Core, NEW w \in Writers, Stage(w)
    PROVE  lastId + 1 \in Ids /\ Staged(w, lastId + 1)
<1> USE DEF Core
<1> DEFINE id == lastId + 1
           parent == manifest[base[w].seq]
           p == req[w].payload
<1>1. id \in Ids
  BY ConstantsAssumption DEF Stage, StoreTypes, Ids
<1>2. base[w].seq \in Seqs /\ base[w].seq <= head.seq
  BY DEF Stage, CallInv, CallOK, CallTypes, Heads
<1>3. parent \in Manifests /\ parent.segs \subseteq segsDisk /\ parent.segs \subseteq Ids
  BY <1>2, CommittedManifest
<1>4. {p} \in SUBSET Payloads
  BY DEF CallTypes, Requests
<1>5. \A s \in parent.segs : content[s] \in SUBSET Payloads
  BY <1>3 DEF StoreTypes
<1> HIDE DEF id, parent, p
<1>6. CASE Upload(w, id, "write", {}, {p}, parent)
  BY <1>1, <1>3, <1>4, <1>6, UploadStaged DEF CallOps, id
<1>7. CASE Upload(w, id, "append", parent.segs, {p}, parent)
  BY <1>1, <1>3, <1>4, <1>7, UploadStaged DEF CallOps, id
<1>8. CASE \E gone \in SUBSET Rows(parent), new \in {{}, {p}} :
              LET kept == {s \in parent.segs : content[s] \cap gone = {}}
                  boundary == {s \in parent.segs \ kept : ~(content[s] \subseteq gone)}
                  rows == ((UNION {content[s] : s \in boundary}) \ gone) \cup new
              IN  IF rows = {} THEN NoUpload(w, id, "replace", kept)
                  ELSE Upload(w, id, "replace", kept, rows, parent)
  <2>1. PICK gone \in SUBSET Rows(parent), new \in {{}, {p}} :
              LET kept == {s \in parent.segs : content[s] \cap gone = {}}
                  boundary == {s \in parent.segs \ kept : ~(content[s] \subseteq gone)}
                  rows == ((UNION {content[s] : s \in boundary}) \ gone) \cup new
              IN  IF rows = {} THEN NoUpload(w, id, "replace", kept)
                  ELSE Upload(w, id, "replace", kept, rows, parent)
    BY <1>8
  <2> DEFINE kept == {s \in parent.segs : content[s] \cap gone = {}}
             boundary == {s \in parent.segs \ kept : ~(content[s] \subseteq gone)}
             rows == ((UNION {content[s] : s \in boundary}) \ gone) \cup new
  <2>2. NoUpload(w, id, "replace", kept) \/ Upload(w, id, "replace", kept, rows, parent)
    BY <2>1
  <2>3. kept \in SUBSET parent.segs
    OBVIOUS
  <2>4. rows \in SUBSET Payloads
    BY <1>4, <1>5
  <2>5. kept \in SUBSET segsDisk
    BY <1>3, <2>3
  <2> HIDE DEF kept, rows
  <2>6. QED
    BY <1>1, <1>3, <2>2, <2>3, <2>4, <2>5, UploadStaged, NoUploadStaged DEF CallOps, id
<1>9. CASE \E group \in SUBSET parent.segs :
              Upload(w, id, "compact", parent.segs \ group,
                     UNION {content[s] : s \in group}, parent)
  <2>1. PICK group \in SUBSET parent.segs :
              Upload(w, id, "compact", parent.segs \ group,
                     UNION {content[s] : s \in group}, parent)
    BY <1>9
  <2> DEFINE rows == UNION {content[s] : s \in group}
             kept == parent.segs \ group
  <2>2. rows \in SUBSET Payloads
    BY <1>5
  <2>3. kept \in SUBSET parent.segs
    OBVIOUS
  <2>4. Upload(w, id, "compact", kept, rows, parent)
    BY <2>1
  <2> HIDE DEF rows, kept
  <2>5. QED
    BY <1>1, <1>3, <2>2, <2>3, <2>4, UploadStaged DEF CallOps, id
<1>10. CASE \E v \in 0..base[w].seq : NoUpload(w, id, "restore", manifest[v].segs)
  <2>1. PICK v \in 0..base[w].seq : NoUpload(w, id, "restore", manifest[v].segs)
    BY <1>10
  <2>2. v \in Seqs /\ v <= head.seq
    BY <1>2, ConstantsAssumption DEF Seqs, StoreTypes, Heads
  <2>3. manifest[v].segs \in SUBSET segsDisk
    BY <2>2, CommittedManifest
  <2>4. QED
    BY <1>1, <2>1, <2>3, NoUploadStaged DEF CallOps, id
<1>11. QED
  BY <1>1, <1>6, <1>7, <1>8, <1>9, <1>10 DEF Stage, StageWrite, StageAppend,
     StageReplace, StageCompact, StageRestore, id, parent, p

(* Staging: a fresh attempt number, a draft over durable objects. *)
LEMMA StageCore == ASSUME Core, NEW w \in Writers, Stage(w) PROVE Core'
<1> USE DEF Core
<1> DEFINE id == lastId + 1
<1>1. /\ UNCHANGED <<head, manifest, diskVars, lockVars, req, base, auxVars>>
      /\ pc[w] = "stage" /\ pc' = [pc EXCEPT ![w] = "meta"]
      /\ lastId < MaxId /\ lastId' = id
  BY DEF Stage
<1>2. id \in Ids /\ Staged(w, id)
  BY StageStaged
<1>3. lastId \in Nat /\ lastId' \in 0..MaxId
  BY <1>1, ConstantsAssumption DEF StoreTypes
<1>4. PICK op \in CallOps, kept \in SUBSET Ids, key \in Payloads \cup {NoKey} :
       /\ draft' = [draft EXCEPT ![w] = Draft(w, id, op, kept, key)]
       /\ kept \subseteq segsDisk \cup {id}
       /\ kept \subseteq segs'
       /\ segs' \in {segs, segs \cup {id}}
       /\ content' \in [Ids -> SUBSET Payloads]
  BY <1>2 DEF Staged
<1> DEFINE d == Draft(w, id, op, kept, key)
<1>5. d \in Manifests /\ d.id = id /\ d.parent = base[w].sum /\ d.segs = kept
  <2>1. d \in Manifests
    BY <1>2, DraftType
  <2>2. QED
    BY <2>1 DEF Draft
<1> HIDE DEF d
<1>6. draft' = [draft EXCEPT ![w] = d] /\ segs \subseteq segs'
  BY <1>4 DEF d
<1>7. CallTypes'
  BY <1>1, <1>5, <1>6 DEF CallTypes, PCs
<1>8. StoreTypes'
  BY <1>1, <1>2, <1>3, <1>4 DEF StoreTypes, diskVars, lockVars
<1>9. AuxTypes'
  BY <1>1 DEF AuxTypes, auxVars
<1>10. LockInv'
  BY <1>1 DEF LockInv, InMeta, InLock, lockVars, CallTypes
<1>11. HistoryInv'
  BY <1>1, <1>6 DEF HistoryInv, diskVars
<1>12. CallInv'
  <2>1. ASSUME NEW v \in Writers, v # w PROVE CallOK(v)'
    <3>1. pc'[v] = pc[v] /\ base'[v] = base[v] /\ draft'[v] = draft[v]
      BY <1>1, <1>6, <2>1 DEF CallTypes
    <3>2. CallOK(v)
      BY DEF CallInv
    <3>3. QED
      BY <1>1, <1>6, <3>1, <3>2 DEF CallOK, diskVars
  <2>2. pc'[w] = "meta" /\ base'[w] = base[w] /\ draft'[w] = d
    BY <1>1, <1>6 DEF CallTypes
  <2>3. base[w].seq < MaxSeq /\ base[w].seq <= head.seq
    BY <1>1 DEF CallInv, CallOK
  <2>4. CallOK(w)'
    BY <1>1, <1>4, <1>5, <2>2, <2>3 DEF CallOK, diskVars
  <2>5. QED
    BY <2>1, <2>4 DEF CallInv
<1>13. IdInv'
  <2>1. \A v \in Writers \ {w} : pc'[v] = pc[v] /\ draft'[v] = draft[v]
    BY <1>1, <1>6 DEF CallTypes
  <2>2. pc'[w] = "meta" /\ draft'[w].id = id
    BY <1>1, <1>5, <1>6 DEF CallTypes
  <2>3. refused' = refused /\ manifestDisk' = manifestDisk
    BY <1>1 DEF auxVars, diskVars
  <2>4. (refused \subseteq 1..lastId)'
    BY <1>1, <1>3, <2>3 DEF IdInv
  <2>5. \A s \in Seqs : \A m \in manifestDisk[s] : m # NoSum => m.id \in Int
    BY DEF StoreTypes, Manifests, Ids
  <2>6. (\A s \in Seqs : \A m \in manifestDisk[s] :
            m # NoSum => m.id <= lastId /\ m.id \notin refused)'
    BY <1>1, <1>3, <2>3, <2>5 DEF IdInv
  <2>7. id \in 1..lastId' /\ id \notin refused
    BY <1>1, <1>3 DEF IdInv
  <2>8. \A v \in Writers : pc[v] \in Drafted => draft[v].id \in 1..lastId
    BY DEF IdInv
  <2>9. \A v \in Writers : pc[v] \in Drafted => draft[v].id # id
    BY <1>3, <2>8
  <2>10. (\A v \in Writers : pc[v] \in Drafted =>
              /\ draft[v].id \in 1..lastId
              /\ draft[v].id \notin refused
              /\ \A u \in Writers \ {v} : pc[u] \in Drafted => draft[u].id # draft[v].id)'
    <3> SUFFICES ASSUME NEW v \in Writers, pc'[v] \in Drafted
                 PROVE  /\ draft'[v].id \in 1..lastId'
                        /\ draft'[v].id \notin refused'
                        /\ \A u \in Writers \ {v} :
                              pc'[u] \in Drafted => draft'[u].id # draft'[v].id
      OBVIOUS
    <3>1. CASE v = w
      BY <2>1, <2>2, <2>3, <2>7, <2>9, <3>1
    <3>2. CASE v # w
      <4>1. pc[v] \in Drafted /\ draft'[v] = draft[v]
        BY <2>1, <3>2
      <4>2. draft[v].id \in 1..lastId'
        BY <1>1, <1>3, <2>8, <4>1
      <4>3. \A u \in Writers \ {v} : pc'[u] \in Drafted => draft'[u].id # draft[v].id
        BY <2>1, <2>2, <2>9, <4>1 DEF IdInv
      <4>4. QED
        BY <2>3, <4>1, <4>2, <4>3 DEF IdInv
    <3>3. QED
      BY <3>1, <3>2
  <2>11. (\A v \in Writers : pc[v] \in {"meta", "lock", "put"} =>
              \A s \in Seqs : \A m \in manifestDisk[s] : m # NoSum => m.id # draft[v].id)'
    <3>1. \A s \in Seqs : \A m \in manifestDisk[s] : m # NoSum => m.id # id
      BY <1>3, <2>5 DEF IdInv
    <3>2. QED
      BY <2>1, <2>2, <2>3, <3>1 DEF IdInv
  <2>12. QED
    BY <2>4, <2>6, <2>10, <2>11 DEF IdInv
<1>14. QED
  BY <1>7, <1>8, <1>9, <1>10, <1>11, <1>12, <1>13
-----------------------------------------------------------------------------
(***************************************************************************)
(* The critical section.  Only its holder is in it, so the step of one     *)
(* writer leaves every other writer's knowledge of the slot alone.         *)
(***************************************************************************)
(* While one writer is in the critical section, no other is. *)
LEMMA OthersOutside ==
    ASSUME Core, NEW w \in Writers, pc[w] \in InLock, NEW v \in Writers, v # w
    PROVE  pc[v] \notin InMeta /\ pc[v] \notin InLock
BY DEF Core, LockInv, InMeta, InLock

(* A slot above HEAD: no committed version lives there. *)
LEMMA NextSlot ==
    ASSUME Core, NEW w \in Writers, pc[w] \in {"put", "sync", "swap"}
    PROVE  /\ base[w] = head
           /\ head.seq \in Nat
           /\ base[w].seq + 1 \in Seqs
           /\ \A s \in 0..head.seq : s \in Seqs /\ s # base[w].seq + 1
<1> USE DEF Core
<1>1. base[w] = head /\ base[w].seq < MaxSeq
  BY DEF CallInv, CallOK, Drafted
<1>2. QED
  BY <1>1, ConstantsAssumption DEF StoreTypes, Heads, Seqs

(* The put of the manifest: only the slot above HEAD changes. *)
LEMMA PutManifestCore == ASSUME Core, NEW w \in Writers, PutManifest(w) PROVE Core'
<1> USE DEF Core
<1> DEFINE slot == base[w].seq + 1
<1>1. /\ pc[w] = "put" /\ pc' = [pc EXCEPT ![w] = "sync"]
      /\ manifest' = [manifest EXCEPT ![slot] = draft[w]]
      /\ manifestDisk' = [manifestDisk EXCEPT ![slot] = @ \cup {draft[w]}]
      /\ UNCHANGED <<head, headDisk, segs, segsDisk, content, lockVars, req, base, draft,
                     lastId, auxVars>>
  BY DEF PutManifest
<1>2. base[w] = head /\ slot \in Seqs /\ \A s \in 0..head.seq : s \in Seqs /\ s # slot
  BY <1>1, NextSlot
<1>3. draft[w] \in Manifests
  BY DEF CallTypes
<1> HIDE DEF slot
<1>4. \A s \in 0..head.seq : manifest'[s] = manifest[s] /\ manifestDisk'[s] = manifestDisk[s]
  BY <1>1, <1>2 DEF StoreTypes
<1>5. manifest'[slot] = draft[w] /\ manifestDisk'[slot] = manifestDisk[slot] \cup {draft[w]}
  BY <1>1, <1>2 DEF StoreTypes
<1>6. \A s \in Seqs : s # slot => manifest'[s] = manifest[s] /\ manifestDisk'[s] = manifestDisk[s]
  BY <1>1, <1>2 DEF StoreTypes
<1>7. CallTypes' /\ AuxTypes'
  BY <1>1 DEF CallTypes, PCs, AuxTypes, auxVars
<1>8. StoreTypes'
  BY <1>1, <1>2, <1>3 DEF StoreTypes, lockVars
<1>9. LockInv'
  BY <1>1 DEF LockInv, InMeta, InLock, lockVars, CallTypes
<1>10. HistoryInv'
  <2>1. \A h \in headDisk : h.seq \in 0..head.seq
    BY DEF HistoryInv, StoreTypes, Heads, Seqs
  <2>2. \A s \in Seqs : manifest'[s] \in manifestDisk'[s]
    BY <1>5, <1>6 DEF HistoryInv
  <2>3. \A s \in 0..head.seq : s > 0 => s - 1 \in 0..head.seq
    BY DEF StoreTypes, Heads, Seqs
  <2>4. \A s \in 0..head.seq :
          /\ manifest'[s] # NoSum
          /\ manifestDisk'[s] = {manifest'[s]}
          /\ manifest'[s].segs \subseteq segsDisk
          /\ s > 0 => manifest'[s].parent = manifest'[s - 1].id
    BY <1>4, <2>3 DEF HistoryInv
  <2>5. QED
    BY <1>1, <1>4, <2>1, <2>2, <2>4 DEF HistoryInv
<1>11. CallInv'
  <2>1. ASSUME NEW v \in Writers, v # w PROVE CallOK(v)'
    <3>1. pc'[v] = pc[v] /\ pc[v] \notin InLock
      BY <1>1, <2>1, OthersOutside DEF InLock, CallTypes
    <3>2. QED
      BY <1>1, <3>1 DEF CallInv, CallOK, Drafted, InLock
  <2>2. pc'[w] = "sync"
    BY <1>1 DEF CallTypes
  <2>3. CallOK(w)'
    BY <1>1, <1>5, <2>2 DEF CallInv, CallOK, Drafted, slot
  <2>4. QED
    BY <2>1, <2>3 DEF CallInv
<1>12. IdInv'
  <2>1. \A v \in Writers : pc'[v] \in Drafted <=> pc[v] \in Drafted
    BY <1>1 DEF Drafted, CallTypes
  <2>2. \A v \in Writers : pc'[v] \in {"meta", "lock", "put"} => v # w /\ pc[v] = pc'[v]
    BY <1>1 DEF CallTypes
  <2>3. refused' = refused /\ draft' = draft /\ lastId' = lastId
    BY <1>1 DEF auxVars
  <2>4. draft[w].id \in 1..lastId /\ draft[w].id \notin refused
    BY <1>1 DEF IdInv, Drafted
  <2>5. (\A s \in Seqs : \A m \in manifestDisk[s] :
            m # NoSum => m.id <= lastId /\ m.id \notin refused)'
    BY <1>5, <1>6, <2>3, <2>4 DEF IdInv
  <2>6. (\A v \in Writers : pc[v] \in {"meta", "lock", "put"} =>
            \A s \in Seqs : \A m \in manifestDisk[s] : m # NoSum => m.id # draft[v].id)'
    BY <1>1, <1>5, <1>6, <2>2, <2>3 DEF IdInv, Drafted
  <2>7. QED
    BY <2>1, <2>3, <2>5, <2>6 DEF IdInv
<1>13. QED
  BY <1>7, <1>8, <1>9, <1>10, <1>11, <1>12

(* The fsync of the manifest and of the new segments. *)
LEMMA SyncObjectsCore == ASSUME Core, NEW w \in Writers, SyncObjects(w) PROVE Core'
<1> USE DEF Core
<1> DEFINE slot == base[w].seq + 1
           new == {draft[w].id} \cap draft[w].segs
<1>1. /\ pc[w] = "sync" /\ pc' = [pc EXCEPT ![w] = "swap"]
      /\ segsDisk' = segsDisk \cup new
      /\ manifestDisk' = [manifestDisk EXCEPT ![slot] = {draft[w]}]
      /\ UNCHANGED <<head, headDisk, manifest, segs, content, lockVars, req, base, draft,
                     lastId, auxVars>>
  BY DEF SyncObjects
<1>2. base[w] = head /\ slot \in Seqs /\ \A s \in 0..head.seq : s \in Seqs /\ s # slot
  BY <1>1, NextSlot
<1>3. /\ draft[w] \in Manifests
      /\ manifest[slot] = draft[w]
      /\ draft[w].segs \subseteq segs
      /\ draft[w].segs \subseteq segsDisk'
  BY <1>1 DEF CallTypes, CallInv, CallOK, Drafted
<1>4. new \subseteq segs /\ new \subseteq Ids
  BY <1>3 DEF StoreTypes
<1> HIDE DEF slot, new
<1>5. manifestDisk'[slot] = {draft[w]}
      /\ \A s \in Seqs : s # slot => manifestDisk'[s] = manifestDisk[s]
  BY <1>1, <1>2 DEF StoreTypes
<1>6. CallTypes' /\ AuxTypes'
  BY <1>1 DEF CallTypes, PCs, AuxTypes, auxVars
<1>7. StoreTypes'
  BY <1>1, <1>2, <1>3, <1>4 DEF StoreTypes, lockVars
<1>8. LockInv'
  BY <1>1 DEF LockInv, InMeta, InLock, lockVars, CallTypes
<1>9. HistoryInv'
  <2>1. \A s \in Seqs : manifest'[s] \in manifestDisk'[s]
    BY <1>1, <1>3, <1>5 DEF HistoryInv
  <2>2. \A s \in 0..head.seq : manifestDisk'[s] = manifestDisk[s]
    BY <1>2, <1>5
  <2>3. segsDisk \subseteq segsDisk' /\ segsDisk' \subseteq segs
    BY <1>1, <1>4 DEF HistoryInv
  <2>4. QED
    BY <1>1, <2>1, <2>2, <2>3 DEF HistoryInv
<1>10. CallInv'
  <2>1. ASSUME NEW v \in Writers, v # w PROVE CallOK(v)'
    <3>1. pc'[v] = pc[v] /\ pc[v] \notin InLock
      BY <1>1, <2>1, OthersOutside DEF InLock, CallTypes
    <3>2. QED
      BY <1>1, <3>1 DEF CallInv, CallOK, Drafted, InLock
  <2>2. pc'[w] = "swap"
    BY <1>1 DEF CallTypes
  <2>3. CallOK(w)'
    BY <1>1, <1>3, <1>5, <2>2 DEF CallInv, CallOK, Drafted, slot
  <2>4. QED
    BY <2>1, <2>3 DEF CallInv
<1>11. IdInv'
  <2>1. \A v \in Writers : pc'[v] \in Drafted <=> pc[v] \in Drafted
    BY <1>1 DEF Drafted, CallTypes
  <2>2. \A v \in Writers : pc'[v] \in {"meta", "lock", "put"} => pc[v] = pc'[v]
    BY <1>1 DEF CallTypes
  <2>3. refused' = refused /\ draft' = draft /\ lastId' = lastId
    BY <1>1 DEF auxVars
  <2>4. \A s \in Seqs : manifestDisk'[s] \subseteq manifestDisk[s]
    BY <1>3, <1>5 DEF HistoryInv
  <2>5. QED
    BY <2>1, <2>2, <2>3, <2>4 DEF IdInv
<1>12. QED
  BY <1>6, <1>7, <1>8, <1>9, <1>10, <1>11

(* The rename of HEAD: the history grows by the fsynced version. *)
LEMMA SwapHeadCore == ASSUME Core, NEW w \in Writers, SwapHead(w) PROVE Core'
<1> USE DEF Core
<1> DEFINE slot == base[w].seq + 1
           new == [seq |-> slot, sum |-> draft[w].id]
<1>1. /\ pc[w] = "swap" /\ pc' = [pc EXCEPT ![w] = "dirsync"]
      /\ head' = new /\ headDisk' = headDisk \cup {new}
      /\ UNCHANGED <<manifest, manifestDisk, segs, segsDisk, content, lockVars, req, base,
                     draft, lastId, auxVars>>
  BY DEF SwapHead
<1>2. base[w] = head /\ head.seq \in Nat /\ slot \in Seqs
  BY <1>1, NextSlot
<1>3. /\ draft[w] \in Manifests
      /\ manifest[slot] = draft[w]
      /\ manifestDisk[slot] = {draft[w]}
      /\ draft[w].segs \subseteq segsDisk
      /\ draft[w].parent = head.sum
  BY <1>1, <1>2 DEF CallTypes, CallInv, CallOK, Drafted
<1>4. new \in Heads /\ new.seq = slot /\ new.sum = draft[w].id
  BY <1>2, <1>3 DEF Heads, Manifests
<1>5. slot = head.seq + 1
  BY <1>2
<1> HIDE DEF slot, new
<1>6. CallTypes' /\ AuxTypes' /\ StoreTypes'
  BY <1>1, <1>4 DEF CallTypes, PCs, AuxTypes, auxVars, StoreTypes, lockVars
<1>7. LockInv'
  BY <1>1 DEF LockInv, InMeta, InLock, lockVars, CallTypes
<1>8. HistoryInv'
  <2>1. manifest[head.seq].id = head.sum
    BY DEF HistoryInv
  <2>2. draft[w] # NoSum
    BY <1>3, ConstantsAssumption
  <2>3. \A s \in 0..slot : s \in 0..head.seq \/ s = slot
    BY <1>2, <1>5
  <2>4. \A s \in 0..slot :
          /\ manifest[s] # NoSum
          /\ manifestDisk[s] = {manifest[s]}
          /\ manifest[s].segs \subseteq segsDisk
          /\ s > 0 => manifest[s].parent = manifest[s - 1].id
    <3>1. ASSUME NEW s \in 0..slot, s = slot
          PROVE  /\ manifest[s] # NoSum
                 /\ manifestDisk[s] = {manifest[s]}
                 /\ manifest[s].segs \subseteq segsDisk
                 /\ s > 0 => manifest[s].parent = manifest[s - 1].id
      <4>1. s - 1 = head.seq
        BY <1>2, <1>5, <3>1
      <4>2. QED
        BY <1>3, <2>1, <2>2, <3>1, <4>1
    <3>2. QED
      BY <2>3, <3>1 DEF HistoryInv
  <2>5. \A h \in headDisk : h.seq <= slot
    BY <1>2, <1>5 DEF HistoryInv, StoreTypes, Heads, Seqs
  <2>6. slot <= slot
    BY <1>2, <1>5
  <2>7. QED
    BY <1>1, <1>3, <1>4, <2>4, <2>5, <2>6 DEF HistoryInv
<1>9. CallInv'
  <2>1. head.seq <= slot
    BY <1>2, <1>5
  <2>2. ASSUME NEW v \in Writers, v # w PROVE CallOK(v)'
    <3>1. pc'[v] = pc[v] /\ pc[v] \notin InLock
      BY <1>1, <2>2, OthersOutside DEF InLock, CallTypes
    <3>2. pc[v] \in {"stage"} \cup Drafted =>
             base[v].seq < MaxSeq /\ base[v].seq <= head'.seq
      <4>1. base[v].seq \in Int
        BY DEF CallTypes, Heads, Seqs
      <4>2. head'.seq = slot /\ slot \in Int /\ head.seq \in Int
        BY <1>1, <1>2, <1>4, <1>5
      <4>3. QED
        BY <2>1, <4>1, <4>2 DEF CallInv, CallOK
    <3>3. QED
      BY <1>1, <3>1, <3>2 DEF CallInv, CallOK, Drafted, InLock
  <2>3. pc'[w] = "dirsync"
    BY <1>1 DEF CallTypes
  <2>4. CallOK(w)'
    <3>1. base[w].seq < MaxSeq /\ base[w].seq <= head'.seq
      BY <1>1, <1>2, <1>4, <2>1 DEF CallInv, CallOK, Drafted
    <3>2. head' = [seq |-> base[w].seq + 1, sum |-> draft[w].id]
      BY <1>1 DEF new, slot
    <3>3. QED
      BY <1>1, <2>3, <3>1, <3>2 DEF CallInv, CallOK, Drafted
  <2>5. QED
    BY <2>2, <2>4 DEF CallInv
<1>10. IdInv'
  BY <1>1 DEF IdInv, Drafted, auxVars, CallTypes
<1>11. QED
  BY <1>6, <1>7, <1>8, <1>9, <1>10

(* The directory fsync and the answer. *)
LEMMA SyncHeadCore == ASSUME Core, NEW w \in Writers, SyncHead(w) PROVE Core'
<1> USE DEF Core
<1>1. /\ pc[w] = "dirsync"
      /\ headDisk' = {head}
      /\ lock' = NoKey /\ meta' = NoKey
      /\ acked' = acked \cup {draft[w].id}
      /\ UNCHANGED <<head, manifest, manifestDisk, segs, segsDisk, content, lastId,
                     replayed, refused, powerLosses, crashes>>
  BY DEF SyncHead
<1>2. /\ CallTypes'
      /\ pc'[w] \in Early
      /\ \A v \in Writers \ {w} : /\ pc'[v] = pc[v]
                                  /\ base'[v] = base[v]
                                  /\ draft'[v] = draft[v]
  <2>1. CASE Forget(w)
    BY <2>1, ForgetLeaves
  <2>2. CASE /\ pc' = [pc EXCEPT ![w] = "prologue"]
             /\ req' = [req EXCEPT ![w] = [req[w] EXCEPT !.auto = "spent"]]
             /\ base' = [base EXCEPT ![w] = Head0]
             /\ draft' = [draft EXCEPT ![w] = Version0]
    <3>1. [req[w] EXCEPT !.auto = "spent"] \in Requests
      BY DEF CallTypes, Requests
    <3>2. CallTypes'
      BY <2>2, <3>1, DefaultTypes DEF CallTypes, PCs
    <3>3. QED
      BY <2>2, <3>2 DEF CallTypes, Early
  <2>3. QED
    BY <2>1, <2>2 DEF SyncHead
<1>3. \A v \in Writers : pc'[v] \in InMeta \cup InLock => v # w /\ pc'[v] = pc[v]
  BY <1>2 DEF Early, InMeta, InLock
<1>4. \A v \in Writers : pc'[v] \notin InMeta \cup InLock
  BY <1>1, <1>3, OthersOutside DEF InLock
<1>5. StoreTypes'
  BY <1>1 DEF StoreTypes
<1>6. AuxTypes'
  <2>1. draft[w].id \in Ids \cup {0}
    BY DEF CallTypes, Manifests
  <2>2. QED
    BY <1>1, <2>1 DEF AuxTypes
<1>7. LockInv'
  BY <1>4 DEF LockInv
<1>8. HistoryInv'
  BY <1>1 DEF HistoryInv
<1>9. CallInv'
  BY <1>1, <1>2 DEF CallInv, CallOK, Drafted, Early
<1>10. IdInv'
  <2>1. \A v \in Writers : pc'[v] \in Drafted => v # w
    BY <1>2 DEF Early, Drafted
  <2>2. \A v \in Writers : pc'[v] \in {"meta", "lock", "put"} => v # w
    BY <2>1 DEF Drafted
  <2>3. QED
    BY <1>1, <1>2, <2>1, <2>2 DEF IdInv
<1>11. QED
  BY <1>2, <1>5, <1>6, <1>7, <1>8, <1>9, <1>10

(* What a power loss leaves of the committed history: all of it, up to the *)
(* HEAD that survives.                                                     *)
LEMMA PowerLossLeaves ==
    ASSUME Core, PowerLoss
    PROVE  /\ head' \in headDisk /\ headDisk' = {head'}
           /\ head'.seq \in 0..head.seq
           /\ \A s \in Seqs : manifest'[s] \in manifestDisk[s]
                             /\ manifestDisk'[s] = {manifest'[s]}
           /\ manifest' \in [Seqs -> Manifests \cup {NoSum}]
           /\ manifestDisk' \in [Seqs -> SUBSET (Manifests \cup {NoSum})]
           /\ \A s \in 0..head.seq : manifest'[s] = manifest[s]
           /\ segsDisk \subseteq segsDisk' /\ segs' = segsDisk' /\ segs' \subseteq segs
<1> USE DEF Core
<1>1. head' \in headDisk /\ headDisk' = {head'}
  BY DEF PowerLoss
<1>2. head'.seq \in 0..head.seq
  BY <1>1 DEF HistoryInv, StoreTypes, Heads, Seqs
<1>3. PICK left \in [Seqs -> UNION {manifestDisk[s] : s \in Seqs}] :
          /\ \A s \in Seqs : left[s] \in manifestDisk[s]
          /\ manifest' = left
          /\ manifestDisk' = [s \in Seqs |-> {left[s]}]
  BY DEF PowerLoss
<1>4. \A s \in Seqs : left[s] \in Manifests \cup {NoSum}
  BY <1>3 DEF StoreTypes
<1>5. \A s \in Seqs : manifest'[s] \in manifestDisk[s] /\ manifestDisk'[s] = {manifest'[s]}
  BY <1>3
<1>6. /\ manifest' \in [Seqs -> Manifests \cup {NoSum}]
      /\ manifestDisk' \in [Seqs -> SUBSET (Manifests \cup {NoSum})]
  BY <1>3, <1>4
<1>7. \A s \in 0..head.seq : s \in Seqs
  BY ConstantsAssumption DEF StoreTypes, Heads, Seqs
<1>8. \A s \in 0..head.seq : manifest'[s] = manifest[s]
  BY <1>5, <1>7 DEF HistoryInv
<1>9. segsDisk \subseteq segsDisk' /\ segs' = segsDisk' /\ segs' \subseteq segs
  BY DEF PowerLoss, HistoryInv
<1>10. QED
  BY <1>1, <1>2, <1>5, <1>6, <1>8, <1>9

(* A power loss. *)
LEMMA PowerLossCore == ASSUME Core, PowerLoss PROVE Core'
<1> USE DEF Core
<1>1. /\ pc' = [w \in Writers |-> "idle"]
      /\ meta' = NoKey /\ lock' = NoKey
      /\ UNCHANGED <<content, lastId, acked, replayed, refused, crashes>>
  BY DEF PowerLoss
<1>2. CallTypes'
  BY DefaultTypes DEF PowerLoss, CallTypes, PCs
<1>3. AuxTypes'
  BY DEF PowerLoss, AuxTypes
<1>4. StoreTypes'
  BY <1>1, PowerLossLeaves DEF StoreTypes
<1>5. LockInv' /\ CallInv'
  BY <1>1 DEF LockInv, CallInv, CallOK, InMeta, InLock, Drafted
<1>6. HistoryInv'
  <2>1. \A s \in 0..head'.seq : s \in 0..head.seq /\ s \in Seqs
    BY PowerLossLeaves, ConstantsAssumption DEF StoreTypes, Heads, Seqs
  <2>2. \A s \in 0..head.seq : s > 0 => s - 1 \in 0..head.seq
    BY DEF StoreTypes, Heads, Seqs
  <2>3. \A s \in 0..head'.seq :
          /\ manifest'[s] # NoSum
          /\ manifestDisk'[s] = {manifest'[s]}
          /\ manifest'[s].segs \subseteq segsDisk'
          /\ s > 0 => manifest'[s].parent = manifest'[s - 1].id
    BY <2>1, <2>2, PowerLossLeaves DEF HistoryInv
  <2>4. head'.seq <= head'.seq
    BY PowerLossLeaves DEF StoreTypes, Heads, Seqs
  <2>5. manifest'[head'.seq].id = head'.sum
    BY PowerLossLeaves DEF HistoryInv
  <2>6. QED
    BY <2>3, <2>4, <2>5, PowerLossLeaves DEF HistoryInv
<1>7. IdInv'
  BY <1>1, PowerLossLeaves DEF IdInv, Drafted
<1>8. QED
  BY <1>2, <1>3, <1>4, <1>5, <1>6, <1>7

(* Core is preserved by every step. *)
LEMMA NextCore == ASSUME Core, [Next]_vars PROVE Core'
<1>1. CASE UNCHANGED vars
  <2>1. UNCHANGED <<head, headDisk, manifest, manifestDisk, segs, segsDisk, content, meta,
                    lock, pc, req, base, draft, lastId, acked, replayed, refused,
                    powerLosses, crashes>>
    BY <1>1 DEF vars, storeVars, diskVars, lockVars, callVars, auxVars
  <2>2. StoreTypes' /\ CallTypes' /\ AuxTypes' /\ LockInv'
    BY <2>1 DEF Core, StoreTypes, CallTypes, AuxTypes, LockInv
  <2>3. HistoryInv'
    BY <2>1 DEF Core, HistoryInv
  <2>4. CallInv'
    BY <2>1 DEF Core, CallInv, CallOK
  <2>5. IdInv'
    BY <2>1 DEF Core, IdInv
  <2>6. QED
    BY <2>2, <2>3, <2>4, <2>5 DEF Core
<1>2. ASSUME NEW w \in Writers, Begin(w) \/ Step(w) \/ Crash(w) PROVE Core'
  BY <1>2, BeginCore, CrashCore, ReplayCore, PrologueCore, ExpectedMismatchCore, RejectCore,
     StageCore, NothingToCompactCore, AcquireMetaCore, MetaTimeoutCore, AcquireLockCore,
     PutManifestCore, SyncObjectsCore, SwapHeadCore, SyncHeadCore DEF Step
<1>3. CASE PowerLoss
  BY <1>3, PowerLossCore
<1>4. QED
  BY <1>1, <1>2, <1>3 DEF Next

-----------------------------------------------------------------------------
(***************************************************************************)
(* Acknowledged commits.                                                   *)
(***************************************************************************)

(* An acknowledged version lies at or below HEAD, where nothing is         *)
(* overwritten.                                                            *)
LEMMA AckBelowHead ==
    ASSUME Core, NEW s \in Seqs, \A h \in headDisk : s <= h.seq
    PROVE  s \in 0..head.seq
BY DEF Core, HistoryInv, StoreTypes, Heads, Seqs

(* Steps that leave HEAD, manifests and answers alone keep acknowledgements. *)
LEMMA QuietAck ==
    ASSUME NoLostAck, UNCHANGED <<acked, headDisk, manifestDisk>>
    PROVE  NoLostAck'
BY DEF NoLostAck

(* No step takes an acknowledged commit back. *)
LEMMA StepAck == ASSUME Core, NoLostAck, [Next]_vars PROVE NoLostAck'
<1> USE DEF Core
<1>1. ASSUME NEW w \in Writers, PutManifest(w) \/ SyncObjects(w) PROVE NoLostAck'
  <2> DEFINE slot == base[w].seq + 1
  <2>1. /\ pc[w] \in {"put", "sync"}
        /\ UNCHANGED <<headDisk, acked>>
        /\ \E ms : manifestDisk' = [manifestDisk EXCEPT ![slot] = ms]
    BY <1>1 DEF PutManifest, SyncObjects, auxVars
  <2>2. \A s \in 0..head.seq : s # slot
    BY <2>1, NextSlot
  <2> HIDE DEF slot
  <2>3. \A s \in Seqs : (\A h \in headDisk : s <= h.seq) => manifestDisk'[s] = manifestDisk[s]
    BY <2>1, <2>2, AckBelowHead DEF StoreTypes
  <2>4. QED
    BY <2>1, <2>3 DEF NoLostAck
<1>2. ASSUME NEW w \in Writers, SwapHead(w) PROVE NoLostAck'
  <2>1. /\ pc[w] = "swap"
        /\ headDisk' = headDisk \cup {[seq |-> base[w].seq + 1, sum |-> draft[w].id]}
        /\ UNCHANGED <<manifestDisk, acked>>
    BY <1>2 DEF SwapHead, auxVars
  <2>2. base[w] = head /\ head.seq \in Nat
    BY <2>1, NextSlot
  <2>3. \A s \in Seqs : (\A h \in headDisk : s <= h.seq) => \A h \in headDisk' : s <= h.seq
    BY <2>1, <2>2, AckBelowHead
  <2>4. QED
    BY <2>1, <2>3 DEF NoLostAck
<1>3. ASSUME NEW w \in Writers, SyncHead(w) PROVE NoLostAck'
  <2>1. /\ pc[w] = "dirsync"
        /\ headDisk' = {head}
        /\ acked' = acked \cup {draft[w].id}
        /\ UNCHANGED manifestDisk
    BY <1>3 DEF SyncHead
  <2>2. head.sum = draft[w].id
    BY <2>1 DEF CallInv, CallOK
  <2>3. head.seq \in Seqs /\ head.seq \in 0..head.seq
    BY DEF StoreTypes, Heads, Seqs
  <2>4. manifestDisk[head.seq] # {NoSum} /\ \A m \in manifestDisk[head.seq] : m.id = draft[w].id
    BY <2>2, <2>3 DEF HistoryInv
  <2>5. \A s \in Seqs : (\A h \in headDisk : s <= h.seq) => \A h \in headDisk' : s <= h.seq
    BY <2>1 DEF HistoryInv
  <2>6. \A h \in headDisk' : head.seq <= h.seq
    BY <2>1, <2>3
  <2>7. QED
    BY <2>1, <2>3, <2>4, <2>5, <2>6 DEF NoLostAck
<1>4. ASSUME PowerLoss PROVE NoLostAck'
  <2>1. acked' = acked
    BY <1>4 DEF PowerLoss
  <2>2. SUFFICES ASSUME NEW id \in acked
                 PROVE  \E s \in Seqs :
                           /\ \A h \in headDisk' : s <= h.seq
                           /\ manifestDisk'[s] # {NoSum}
                           /\ \A m \in manifestDisk'[s] : m.id = id
    BY <2>1 DEF NoLostAck
  <2>3. PICK s \in Seqs : /\ \A h \in headDisk : s <= h.seq
                          /\ manifestDisk[s] # {NoSum}
                          /\ \A m \in manifestDisk[s] : m.id = id
    BY DEF NoLostAck
  <2>4. s \in 0..head.seq
    BY <2>3, AckBelowHead
  <2>5. manifestDisk'[s] = manifestDisk[s]
    <3>1. manifestDisk[s] = {manifest[s]}
      BY <2>4 DEF HistoryInv
    <3>2. manifestDisk'[s] = {manifest'[s]}
      BY <1>4, PowerLossLeaves
    <3>3. manifest'[s] = manifest[s]
      BY <1>4, <2>4, PowerLossLeaves
    <3>4. QED
      BY <3>1, <3>2, <3>3
  <2>6. \A h \in headDisk' : s <= h.seq
    BY <1>4, <2>3, PowerLossLeaves
  <2>7. QED
    BY <2>3, <2>5, <2>6
<1>5. ASSUME NEW w \in Writers,
             \/ Begin(w) \/ Crash(w) \/ Replay(w) \/ Prologue(w) \/ ExpectedMismatch(w)
             \/ Reject(w) \/ Stage(w) \/ NothingToCompact(w) \/ AcquireMeta(w)
             \/ MetaTimeout(w) \/ AcquireLock(w)
      PROVE  NoLostAck'
  <2>1. UNCHANGED <<acked, headDisk, manifestDisk>>
    BY <1>5 DEF Begin, Crash, Replay, Prologue, ExpectedMismatch, Reject, Stage,
       NothingToCompact, AcquireMeta, MetaTimeout, AcquireLock, storeVars, diskVars, auxVars
  <2>2. QED
    BY <2>1, QuietAck
<1>6. CASE UNCHANGED vars
  BY <1>6, QuietAck DEF vars, storeVars, diskVars, auxVars
<1>7. QED
  BY <1>1, <1>2, <1>3, <1>4, <1>5, <1>6 DEF Next, Step

-----------------------------------------------------------------------------
(***************************************************************************)
(* The theorems.                                                           *)
(***************************************************************************)

(* IInv, the inductive invariant, holds in every reachable state. *)
THEOREM InvariantHolds == Spec => []IInv
<1>1. IInv <=> Core /\ NoLostAck
  BY TypeParts DEF IInv, Core
<1>2. Init => IInv
  BY <1>1, InitCore
<1>3. IInv /\ [Next]_vars => IInv'
  <2> SUFFICES ASSUME IInv, [Next]_vars PROVE IInv'
    OBVIOUS
  <2>1. Core /\ NoLostAck
    BY <1>1
  <2>2. Core' /\ NoLostAck'
    BY <2>1, NextCore, StepAck
  <2>3. TypeOK' <=> (StoreTypes /\ CallTypes /\ AuxTypes)'
    BY DEF TypeOK, StoreTypes, CallTypes, AuxTypes
  <2>4. QED
    BY <2>2, <2>3 DEF IInv, Core
<1>4. QED
  BY <1>2, <1>3, PTL DEF Spec

(* Every variable of the commit protocol keeps its type. *)
THEOREM TypeCorrect == Spec => []TypeOK
<1>1. IInv => TypeOK
  BY DEF IInv
<1>2. QED
  BY <1>1, InvariantHolds, PTL

(* commit_manifest_locked's promise, for any number of writers, versions,  *)
(* crashes and power losses: a HEAD on disk never references a missing,    *)
(* torn or foreign manifest or segment object.                             *)
THEOREM HistorySafe == Spec => []HeadIntact
<1>1. IInv => HeadIntact
  <2> SUFFICES ASSUME IInv, NEW h \in headDisk \cup {head} PROVE Intact(h)
    BY DEF HeadIntact
  <2>1. HistoryInv /\ StoreTypes
    BY TypeParts DEF IInv
  <2>2. h \in headDisk
    BY <2>1 DEF HistoryInv
  <2>3. h.seq \in Nat /\ head.seq \in Nat /\ h.seq <= head.seq
    BY <2>1, <2>2 DEF HistoryInv, StoreTypes, Heads, Seqs
  <2>4. \A s \in 0..h.seq : s \in 0..head.seq
    BY <2>3
  <2>5. h.seq \in 0..head.seq
    BY <2>3
  <2>6. QED
    BY <2>1, <2>2, <2>4, <2>5 DEF HistoryInv, Intact
<1>2. QED
  BY <1>1, InvariantHolds, PTL

(* A commit that was acknowledged is never lost: not to a racing writer,   *)
(* not to a crash between any two steps, not to a power loss.              *)
THEOREM AckDurable == Spec => []NoLostAck
<1>1. IInv => NoLostAck
  BY DEF IInv
<1>2. QED
  BY <1>1, InvariantHolds, PTL

(* A commit refused with VersionConflict or LockTimeout left no manifest   *)
(* behind, so append_with_retry may run it again.                          *)
THEOREM RefusedSafe == Spec => []RefusedUnpublished
<1>1. IInv => RefusedUnpublished
  BY DEF IInv, IdInv, HistoryInv, RefusedUnpublished
<1>2. QED
  BY <1>1, InvariantHolds, PTL
=============================================================================
