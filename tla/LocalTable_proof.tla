-------------------------- MODULE LocalTable_proof --------------------------
(***************************************************************************)
(* Proofs about LocalCommit that build on its inductive invariant: commit  *)
(* timestamps, idempotency keys, and the table that its commits implement. *)
(***************************************************************************)
EXTENDS LocalCommit_proof

(* The committed history only grows by a HEAD swap and only shrinks in a   *)
(* power loss, and a version never changes.                                *)
LEMMA StepHistory ==
    ASSUME Core, [Next]_vars
    PROVE  /\ head.seq \in Nat /\ head.seq \in 0..head.seq
           /\ \A s \in 0..head.seq : s \in Seqs /\ manifest'[s] = manifest[s]
                                     /\ manifest[s] \in Manifests
           /\ \/ UNCHANGED <<head, headDisk>>
              \/ \E w \in Writers : SwapHead(w)
              \/ \E w \in Writers : SyncHead(w)
              \/ PowerLoss
<1> USE DEF Core
<1>1. /\ head.seq \in Nat /\ head.seq \in 0..head.seq
      /\ \A s \in 0..head.seq : s \in Seqs /\ manifest[s] \in Manifests
  BY ConstantsAssumption DEF StoreTypes, HistoryInv, Heads, Seqs
<1>2. ASSUME NEW w \in Writers,
             \/ Begin(w) \/ Crash(w) \/ Replay(w) \/ Prologue(w) \/ ExpectedMismatch(w)
             \/ Reject(w) \/ Stage(w) \/ NothingToCompact(w) \/ AcquireMeta(w)
             \/ MetaTimeout(w) \/ AcquireLock(w) \/ SyncObjects(w)
      PROVE  UNCHANGED <<head, headDisk, manifest>>
  BY <1>2 DEF Begin, Crash, Replay, Prologue, ExpectedMismatch, Reject, Stage,
     NothingToCompact, AcquireMeta, MetaTimeout, AcquireLock, SyncObjects, storeVars, diskVars
<1>3. ASSUME NEW w \in Writers, SwapHead(w) \/ SyncHead(w) PROVE UNCHANGED manifest
  BY <1>3 DEF SwapHead, SyncHead
<1>4. ASSUME NEW w \in Writers, PutManifest(w)
      PROVE  UNCHANGED <<head, headDisk>> /\ \A s \in 0..head.seq : manifest'[s] = manifest[s]
  <2>1. \A s \in 0..head.seq : s # base[w].seq + 1
    BY <1>4, NextSlot DEF PutManifest
  <2>2. QED
    BY <1>1, <1>4, <2>1 DEF PutManifest, StoreTypes
<1>5. CASE PowerLoss
  BY <1>1, <1>5, PowerLossLeaves
<1>6. CASE UNCHANGED vars
  BY <1>1, <1>6 DEF vars, storeVars, diskVars
<1>7. QED
  BY <1>1, <1>2, <1>3, <1>4, <1>5, <1>6 DEF Next, Step

(* A call that a step leaves as it is. *)
Same(u) == pc'[u] = pc[u] /\ req'[u] = req[u] /\ base'[u] = base[u] /\ draft'[u] = draft[u]

(* Ending a call, or going round again, touches no other call. *)
LEMMA ForgetSame ==
    ASSUME CallTypes, NEW w \in Writers, Forget(w) \/ Refuse(w), NEW u \in Writers, u # w
    PROVE  Same(u)
BY DEF Forget, Refuse, CallTypes, Same

(* A step is a step of one call: the others stay or are all lost. *)
LEMMA StepCall ==
    ASSUME CallTypes, [Next]_vars, NEW u \in Writers
    PROVE  Same(u) \/ pc'[u] = "idle" \/ Begin(u) \/ Step(u)
<1> USE DEF CallTypes
<1>1. ASSUME NEW w \in Writers, u # w, Begin(w) \/ Step(w) \/ Crash(w) PROVE Same(u)
  <2>1. CASE Begin(w) \/ Prologue(w) \/ PutManifest(w) \/ SyncObjects(w) \/ SwapHead(w)
    BY <1>1, <2>1 DEF Begin, Prologue, PutManifest, SyncObjects, SwapHead, Same
  <2>2. CASE Replay(w) \/ ExpectedMismatch(w) \/ Reject(w) \/ MetaTimeout(w) \/ Crash(w)
    BY <1>1, <2>2, ForgetSame DEF Replay, ExpectedMismatch, Reject, MetaTimeout, Crash, Same
  <2>3. CASE NothingToCompact(w) \/ SyncHead(w)
    BY <1>1, <2>3, ForgetSame DEF NothingToCompact, SyncHead, Same
  <2>4. CASE AcquireMeta(w) \/ AcquireLock(w)
    BY <1>1, <2>4, ForgetSame DEF AcquireMeta, AcquireLock, Same
  <2>5. CASE Stage(w)
    <3>1. \E d : draft' = [draft EXCEPT ![w] = d]
      BY <2>5 DEF Stage, StageWrite, StageAppend, StageReplace, StageCompact, StageRestore,
                  Upload, NoUpload
    <3>2. QED
      BY <1>1, <2>5, <3>1 DEF Stage, Same
  <2>6. QED
    BY <1>1, <2>1, <2>2, <2>3, <2>4, <2>5 DEF Step
<1>2. ASSUME Crash(u) PROVE pc'[u] = "idle"
  BY <1>2 DEF Crash, Forget
<1>3. CASE PowerLoss
  BY <1>3 DEF PowerLoss
<1>4. CASE UNCHANGED vars
  BY <1>4 DEF vars, callVars, Same
<1>5. QED
  BY <1>1, <1>2, <1>3, <1>4 DEF Next

(* Where a call goes when it ends or goes round again. *)
LEMMA RefuseCall ==
    ASSUME CallTypes, NEW u \in Writers, Forget(u) \/ Refuse(u)
    PROVE  /\ pc'[u] \in {"idle", "replay", "prologue"}
           /\ pc'[u] # "idle" => /\ req'[u].keyed = req[u].keyed
                                 /\ req'[u].payload = req[u].payload
           /\ pc'[u] = "prologue" => ~req[u].keyed
<1>1. CASE Forget(u)
  BY <1>1 DEF Forget, CallTypes
<1>2. CASE req[u].left > 0 /\ Refuse(u)
  <2>1. req[u] \in Requests
    BY DEF CallTypes
  <2>2. req'[u] = [req[u] EXCEPT !.left = @ - 1, !.auto = "allowed"]
    BY <1>2 DEF Refuse, CallTypes
  <2>3. req'[u].keyed = req[u].keyed /\ req'[u].payload = req[u].payload
    BY <2>1, <2>2 DEF Requests
  <2>4. pc'[u] = Entry(req[u].keyed)
    BY <1>2 DEF Refuse, CallTypes
  <2>5. QED
    BY <2>3, <2>4 DEF Entry
<1>3. QED
  BY <1>1, <1>2 DEF Refuse

(* The ways a draft comes to be or stays. *)
Kept(u) ==
    /\ pc[u] \in Drafted /\ base'[u] = base[u] /\ req'[u] = req[u]
    /\ pc'[u] # "dirsync" => pc[u] # "dirsync"
    /\ \/ draft'[u] = draft[u] /\ (pc'[u] \in InMeta => pc[u] \in InMeta)
       \/ AcquireMeta(u) /\ \E wall \in Clock :
             draft'[u] = [draft[u] EXCEPT !.ts = CommitTs(wall, manifest[base[u].seq].ts)]

(* Whoever has a draft staged it in this step or had it before. *)
LEMMA StepDraft ==
    ASSUME CallTypes, [Next]_vars, NEW u \in Writers, pc'[u] \in Drafted
    PROVE  Stage(u) \/ Kept(u)
<1> USE DEF CallTypes
<1>1. CASE Same(u)
  BY <1>1 DEF Same, Kept
<1>2. ASSUME Forget(u) \/ Refuse(u) PROVE FALSE
  BY <1>2, RefuseCall DEF Drafted
<1>3. CASE Begin(u) \/ Prologue(u) \/ ExpectedMismatch(u) \/ Reject(u) \/ Replay(u) \/ MetaTimeout(u)
  BY <1>2, <1>3 DEF Begin, Prologue, ExpectedMismatch, Reject, Replay, MetaTimeout, Entry, Drafted
<1>4. CASE PutManifest(u) \/ SyncObjects(u) \/ SwapHead(u)
  BY <1>4 DEF PutManifest, SyncObjects, SwapHead, Drafted, InMeta, Kept
<1>5. CASE NothingToCompact(u) \/ SyncHead(u)
  BY <1>2, <1>5 DEF NothingToCompact, SyncHead, Drafted
<1>6. CASE AcquireMeta(u)
  <2>1. PICK wall \in Clock :
          draft' = [draft EXCEPT ![u] =
                      [draft[u] EXCEPT !.ts = CommitTs(wall, manifest[base[u].seq].ts)]]
    BY <1>2, <1>6 DEF AcquireMeta
  <2>2. pc[u] = "meta" /\ UNCHANGED <<req, base>>
    BY <1>2, <1>6 DEF AcquireMeta
  <2>3. QED
    BY <1>6, <2>1, <2>2 DEF Kept, Drafted
<1>7. CASE AcquireLock(u)
  BY <1>2, <1>7 DEF AcquireLock, Kept, Drafted, InMeta
<1>8. QED
  BY <1>1, <1>3, <1>4, <1>5, <1>6, <1>7, StepCall DEF Step, Drafted

-----------------------------------------------------------------------------
(***************************************************************************)
(* Timestamps.                                                             *)
(***************************************************************************)
(* Every step keeps timestamps increasing. *)
LEMMA NextStamps == ASSUME Core, StampInv, [Next]_vars PROVE StampInv'
<1> USE DEF Core
<1>1. /\ head.seq \in Nat /\ head.seq \in 0..head.seq
      /\ \A s \in 0..head.seq : s \in Seqs /\ manifest'[s] = manifest[s]
                                /\ manifest[s] \in Manifests
  BY StepHistory
<1>2. \A s \in 0..head.seq : manifest[s].ts \in Nat
  BY <1>1 DEF Manifests
<1>3. ASSUME NEW u \in Writers, pc'[u] \in {"lock", "put", "sync", "swap"}
      PROVE  (manifest[base[u].seq].ts < draft[u].ts)'
  <2>1. pc'[u] \in Drafted /\ pc'[u] \in InMeta
    BY <1>3 DEF Drafted, InMeta
  <2>2. ~Stage(u)
    BY <1>3 DEF Stage, CallTypes
  <2>3. Kept(u)
    BY <2>1, <2>2, StepDraft
  <2>4. base'[u] = base[u] /\ base[u].seq \in 0..head.seq
    BY <2>3 DEF Kept, CallInv, CallOK, CallTypes, StoreTypes, Heads, Seqs
  <2>5. manifest'[base'[u].seq] = manifest[base[u].seq] /\ manifest[base[u].seq].ts \in Nat
    BY <1>1, <1>2, <2>4
  <2>6. CASE draft'[u] = draft[u] /\ pc[u] \in InMeta
    <3>1. pc[u] \in {"lock", "put", "sync", "swap"}
      BY <1>3, <2>3, <2>6 DEF Kept, InMeta
    <3>2. QED
      BY <2>5, <2>6, <3>1 DEF StampInv
  <2>7. ASSUME NEW wall \in Clock,
               draft'[u] = [draft[u] EXCEPT !.ts = CommitTs(wall, manifest[base[u].seq].ts)]
        PROVE  manifest[base[u].seq].ts < draft'[u].ts
    <3>1. draft[u] \in Manifests
      BY DEF CallTypes
    <3>2. draft'[u].ts = CommitTs(wall, manifest[base[u].seq].ts)
      BY <2>7, <3>1 DEF Manifests
    <3>3. wall \in Nat
      BY <2>7, ConstantsAssumption
    <3>4. QED
      BY <2>5, <3>2, <3>3 DEF CommitTs, MaxOf
  <2>8. QED
    BY <2>1, <2>3, <2>5, <2>6, <2>7 DEF Kept
<1>4. TimestampsIncrease'
  <2>1. CASE UNCHANGED head
    BY <1>1, <2>1 DEF StampInv, TimestampsIncrease
  <2>2. ASSUME NEW w \in Writers, SwapHead(w) PROVE TimestampsIncrease'
    <3>1. pc[w] = "swap" /\ UNCHANGED manifest /\ head' = [seq |-> base[w].seq + 1, sum |-> draft[w].id]
      BY <2>2 DEF SwapHead
    <3>2. base[w] = head /\ manifest[head.seq + 1] = draft[w] /\ manifest[head.seq].ts < draft[w].ts
      BY <3>1 DEF CallInv, CallOK, StampInv
    <3>3. head'.seq = head.seq + 1 /\ draft[w].ts \in Nat
      BY <3>1, <3>2 DEF CallTypes, Manifests
    <3>4. \A s \in 0..head.seq : manifest[s].ts <= manifest[head.seq].ts
      BY <1>1, <1>2 DEF StampInv, TimestampsIncrease
    <3>5. \A s \in 0..head.seq : manifest[s].ts < draft[w].ts
      BY <1>1, <1>2, <3>2, <3>3, <3>4
    <3>6. \A s, t \in 0..head.seq + 1 : s < t =>
             s \in 0..head.seq /\ (t \in 0..head.seq \/ t = head.seq + 1)
      BY <1>1
    <3>7. QED
      BY <3>1, <3>2, <3>3, <3>5, <3>6 DEF StampInv, TimestampsIncrease
  <2>3. ASSUME PowerLoss PROVE TimestampsIncrease'
    <3>1. 0..head'.seq \subseteq 0..head.seq
      BY <1>1, <2>3, PowerLossLeaves
    <3>2. QED
      BY <1>1, <3>1 DEF StampInv, TimestampsIncrease
  <2>4. ASSUME NEW w \in Writers, SyncHead(w) PROVE UNCHANGED head
    BY <2>4 DEF SyncHead
  <2>5. QED
    BY <2>1, <2>2, <2>3, <2>4, StepHistory
<1>5. QED
  BY <1>3, <1>4 DEF StampInv

(* Commit timestamps increase along the history whatever the wall clock    *)
(* gives each commit, however commits, crashes and power losses interleave:*)
(* as_of may search them by bisection.                                     *)
THEOREM StampsIncrease == Spec => []TimestampsIncrease
<1>1. Init => Core /\ StampInv
  <2> SUFFICES ASSUME Init PROVE StampInv
    BY InitCore
  <2>1. \A s \in 0..head.seq : s = 0
    BY DEF Init, Head0
  <2>2. QED
    BY <2>1 DEF StampInv, TimestampsIncrease, Init
<1>2. Core /\ StampInv /\ [Next]_vars => (Core /\ StampInv)'
  BY NextCore, NextStamps
<1>3. StampInv => TimestampsIncrease
  BY DEF StampInv
<1>4. QED
  BY <1>1, <1>2, <1>3, PTL DEF Spec

-----------------------------------------------------------------------------
(***************************************************************************)
(* Idempotency keys.                                                       *)
(***************************************************************************)
(* A call in flight began in this step or was in flight with the same key. *)
LEMMA StepKey ==
    ASSUME CallTypes, [Next]_vars, NEW u \in Writers, pc'[u] # "idle"
    PROVE  \/ Begin(u)
           \/ /\ pc[u] # "idle"
              /\ req'[u].keyed = req[u].keyed /\ req'[u].payload = req[u].payload
<1> USE DEF CallTypes
<1>1. CASE Same(u)
  BY <1>1 DEF Same
<1>2. CASE Forget(u) \/ Refuse(u)
  <2>1. ASSUME Forget(u) PROVE FALSE
    BY <2>1 DEF Forget
  <2>2. Refuse(u) /\ ~Forget(u)
    BY <1>2, <2>1
  <2>3. CASE pc[u] # "idle"
    BY <1>2, <2>3, RefuseCall
  <2>4. CASE pc[u] = "idle"
    BY <2>2, <2>4, StepCall, <1>1, RefuseCall DEF Step, Replay, Prologue, ExpectedMismatch, Reject, Stage,
       NothingToCompact, AcquireMeta, MetaTimeout, AcquireLock, PutManifest, SyncObjects,
       SwapHead, SyncHead
  <2>5. QED
    BY <2>3, <2>4
<1>3. CASE Replay(u) \/ ExpectedMismatch(u) \/ Reject(u) \/ MetaTimeout(u) \/ AcquireMeta(u)
           \/ AcquireLock(u)
  BY <1>2, <1>3 DEF Replay, ExpectedMismatch, Reject, MetaTimeout, AcquireMeta, AcquireLock
<1>4. CASE PutManifest(u) \/ SyncObjects(u) \/ SwapHead(u) \/ Stage(u)
  BY <1>4 DEF PutManifest, SyncObjects, SwapHead, Stage
<1>5. ASSUME NEW a \in {"compacting", "spent"},
             req' = [req EXCEPT ![u] = [req[u] EXCEPT !.auto = a]]
      PROVE  req'[u].keyed = req[u].keyed /\ req'[u].payload = req[u].payload
  BY <1>5 DEF Requests
<1>6. CASE Prologue(u)
  BY <1>5, <1>6 DEF Prologue
<1>7. CASE NothingToCompact(u) \/ SyncHead(u)
  BY <1>2, <1>5, <1>7 DEF NothingToCompact, SyncHead
<1>8. QED
  BY <1>1, <1>3, <1>4, <1>6, <1>7, StepCall DEF Step

(* A call is past its replay because it was, because it has no key, or     *)
(* because the walk it just made found nothing.                            *)
LEMMA StepPast ==
    ASSUME Core, KeyInv, [Next]_vars, NEW u \in Writers, pc'[u] \notin {"idle", "replay"},
           req'[u].keyed, pc'[u] = "dirsync" => draft'[u].key = NoKey
    PROVE  KeyAbsent(req'[u].payload)
<1> USE DEF Core, CallTypes
<1>1. ASSUME Forget(u) \/ Refuse(u) PROVE ~req'[u].keyed
  BY <1>1, RefuseCall
<1>2. CASE Begin(u)
  <2>1. PICK c \in Calls : pc' = [pc EXCEPT ![u] = Entry(c.keyed)] /\ req' = [req EXCEPT ![u] = c]
    BY <1>2 DEF Begin
  <2>2. QED
    BY <2>1 DEF Entry
<1>3. CASE Replay(u)
  <2>1. {s \in Window(head.seq) : manifest[s] # NoSum /\ manifest[s].key = req[u].payload} = {}
    BY <1>1, <1>3 DEF Replay
  <2>2. req'[u] = req[u]
    BY <1>1, <1>3 DEF Replay
  <2>3. ASSUME NEW s \in 0..head.seq, manifest[s].key = req[u].payload
        PROVE  s + Lookback < head.seq
    <3>1. s \in Seqs /\ manifest[s] # NoSum
      BY ConstantsAssumption DEF StoreTypes, HistoryInv, Heads, Seqs
    <3>2. s \notin Window(head.seq)
      BY <2>1, <2>3, <3>1
    <3>3. QED
      BY <2>3, <3>1, <3>2, ConstantsAssumption DEF Window, StoreTypes, Heads, Seqs
  <2>4. QED
    BY <2>2, <2>3 DEF KeyAbsent
<1>4. CASE pc[u] \notin {"idle", "replay"} /\ ~Begin(u)
  <2>1. req'[u].keyed = req[u].keyed /\ req'[u].payload = req[u].payload
    BY <1>4, StepKey
  <2>2. ASSUME pc[u] = "dirsync" PROVE draft[u].key = NoKey
    <3>1. CASE Same(u)
      BY <2>2, <3>1 DEF Same
    <3>2. CASE SyncHead(u)
      <4>1. req[u].auto = "compacting"
        BY <1>1, <3>2 DEF SyncHead
      <4>2. QED
        BY <2>2, <4>1 DEF KeyInv, CallKey, Drafted
    <3>3. QED
      BY <1>4, <2>2, <3>1, <3>2, StepCall DEF Step, Replay, Prologue, ExpectedMismatch, Reject,
         Stage, NothingToCompact, AcquireMeta, MetaTimeout, AcquireLock, PutManifest,
         SyncObjects, SwapHead
  <2>3. QED
    BY <1>4, <2>1, <2>2 DEF KeyInv, CallKey
<1>5. CASE pc[u] \in {"idle", "replay"} /\ ~Begin(u) /\ ~Replay(u)
  <2>1. Same(u)
    BY <1>5, StepCall DEF Step, Prologue, ExpectedMismatch, Reject,
       Stage, NothingToCompact, AcquireMeta, MetaTimeout, AcquireLock, PutManifest,
       SyncObjects, SwapHead, SyncHead
  <2>2. QED
    BY <1>5, <2>1 DEF Same
<1>6. QED
  BY <1>2, <1>3, <1>4, <1>5

(* A staged manifest carries the key of its call, unless it is the         *)
(* compaction an append makes room with.                                   *)
LEMMA StageKey ==
    ASSUME CallTypes, NEW w \in Writers, Stage(w)
    PROVE  draft'[w].key = KeyOf(w) /\ req'[w] = req[w]
<1>1. \E id, op, kept : draft' = [draft EXCEPT ![w] = Draft(w, id, op, kept, KeyOf(w))]
  BY DEF Stage, StageWrite, StageAppend, StageReplace, StageCompact, StageRestore,
         Upload, NoUpload
<1>2. \A id, op, kept : Draft(w, id, op, kept, KeyOf(w)).key = KeyOf(w)
  BY DEF Draft
<1>3. QED
  BY <1>1, <1>2 DEF Stage, CallTypes

(* A call compacts for room only on behalf of an append. *)
LEMMA StepAuto ==
    ASSUME CallTypes, [Next]_vars, NEW u \in Writers, req[u].auto = "compacting" => req[u].op = "append"
    PROVE  req'[u].auto = "compacting" => req'[u].op = "append"
<1> USE DEF CallTypes
<1>1. CASE req'[u] = req[u]
  BY <1>1
<1>2. CASE Forget(u)
  BY <1>2 DEF Forget, NoCall
<1>3. CASE Refuse(u)
  <2>1. CASE req[u].left > 0
    <3>1. req'[u] = [req[u] EXCEPT !.left = @ - 1, !.auto = "allowed"]
      BY <1>3, <2>1 DEF Refuse
    <3>2. req[u] \in Requests
      OBVIOUS
    <3>3. req'[u].auto = "allowed"
      BY <3>1, <3>2 DEF Requests
    <3>4. QED
      BY <3>3
  <2>2. QED
    BY <1>2, <1>3, <2>1 DEF Refuse
<1>4. CASE Begin(u)
  BY <1>4, ConstantsAssumption DEF Begin
<1>5. ASSUME req' = [req EXCEPT ![u] = [req[u] EXCEPT !.auto = "spent"]]
      PROVE  req'[u].auto # "compacting"
  BY <1>5 DEF Requests
<1>6. CASE Prologue(u) /\ req' # req
  <2>1. Doing(u) = "append" /\ req[u].auto = "allowed"
    BY <1>6 DEF Prologue
  <2>2. req'[u] = [req[u] EXCEPT !.auto = "compacting"]
    BY <1>6 DEF Prologue
  <2>3. QED
    BY <2>1, <2>2 DEF Doing, Requests
<1>7. CASE Replay(u) \/ ExpectedMismatch(u) \/ Reject(u) \/ MetaTimeout(u) \/ AcquireMeta(u)
           \/ AcquireLock(u)
  BY <1>1, <1>2, <1>3, <1>7
     DEF Replay, ExpectedMismatch, Reject, MetaTimeout, AcquireMeta, AcquireLock
<1>8. CASE PutManifest(u) \/ SyncObjects(u) \/ SwapHead(u) \/ Stage(u)
  BY <1>1, <1>8 DEF PutManifest, SyncObjects, SwapHead, Stage
<1>9. CASE NothingToCompact(u) \/ SyncHead(u)
  BY <1>2, <1>5, <1>9 DEF NothingToCompact, SyncHead
<1>10. CASE Step(u)
  BY <1>1, <1>6, <1>7, <1>8, <1>9, <1>10 DEF Step
<1>11. ASSUME NEW w \in Writers, w # u, Begin(w) \/ Step(w) \/ Crash(w) PROVE req'[u] = req[u]
  <2>1. CASE Begin(w) \/ Prologue(w) \/ PutManifest(w) \/ SyncObjects(w) \/ SwapHead(w) \/ Stage(w)
    BY <1>11, <2>1 DEF Begin, Prologue, PutManifest, SyncObjects, SwapHead, Stage
  <2>2. CASE Replay(w) \/ ExpectedMismatch(w) \/ Reject(w) \/ MetaTimeout(w) \/ Crash(w)
    BY <1>11, <2>2, ForgetSame DEF Replay, ExpectedMismatch, Reject, MetaTimeout, Crash, Same
  <2>3. CASE NothingToCompact(w) \/ SyncHead(w) \/ AcquireMeta(w) \/ AcquireLock(w)
    BY <1>11, <2>3, ForgetSame DEF NothingToCompact, SyncHead, AcquireMeta, AcquireLock, Same
  <2>4. QED
    BY <1>11, <2>1, <2>2, <2>3 DEF Step
<1>12. CASE PowerLoss
  BY <1>12 DEF PowerLoss, NoCall
<1>13. CASE UNCHANGED vars
  BY <1>1, <1>13 DEF vars, callVars
<1>14. QED
  BY <1>2, <1>4, <1>10, <1>11, <1>12, <1>13 DEF Next, Crash

(* Every step keeps keys apart, as long as no key is presented twice at a  *)
(* time.                                                                   *)
LEMMA NextKeys ==
    ASSUME Core, KeyInv, SharedKeys = FALSE, [Next]_vars PROVE KeyInv'
<1> USE DEF Core
<1>1. /\ head.seq \in Nat /\ head.seq \in 0..head.seq
      /\ \A s \in 0..head.seq : s \in Seqs /\ manifest'[s] = manifest[s]
  BY StepHistory
<1>2. ASSUME NEW w \in Writers, SwapHead(w)
      PROVE  /\ head'.seq = head.seq + 1 /\ manifest'[head.seq + 1] = draft[w]
             /\ pc[w] = "swap" /\ pc[w] \in Drafted /\ UNCHANGED draft
             /\ pc' = [pc EXCEPT ![w] = "dirsync"]
             /\ \A s \in 0..head'.seq : s \in 0..head.seq \/ s = head.seq + 1
  <2>1. /\ pc[w] = "swap" /\ UNCHANGED <<manifest, draft>>
        /\ head' = [seq |-> base[w].seq + 1, sum |-> draft[w].id]
        /\ pc' = [pc EXCEPT ![w] = "dirsync"]
    BY <1>2 DEF SwapHead
  <2>2. base[w] = head /\ manifest[head.seq + 1] = draft[w]
    BY <2>1 DEF CallInv, CallOK
  <2>3. QED
    BY <1>1, <2>1, <2>2 DEF Drafted
<1>3. ASSUME NEW w \in Writers, SyncHead(w) PROVE UNCHANGED head
  BY <1>3 DEF SyncHead
<1>4. KeyOnce'
  <2>1. CASE UNCHANGED head
    BY <1>1, <2>1 DEF KeyInv, KeyOnce
  <2>2. ASSUME NEW w \in Writers, SwapHead(w) PROVE KeyOnce'
    <3>1. draft[w].key # NoKey => KeyAbsent(draft[w].key)
      BY <1>2, <2>2 DEF KeyInv, CallKey
    <3>2. SUFFICES ASSUME NEW s \in 0..head'.seq, NEW t \in 0..head'.seq, s < t,
                          manifest'[s].key # NoKey, manifest'[s].key = manifest'[t].key
                   PROVE  t - s > Lookback + 1
      BY DEF KeyOnce
    <3>3. s \in 0..head.seq /\ (t \in 0..head.seq \/ t = head.seq + 1)
      BY <1>1, <1>2, <2>2, <3>2
    <3>4. CASE t \in 0..head.seq
      BY <1>1, <3>2, <3>3, <3>4 DEF KeyInv, KeyOnce
    <3>5. CASE t = head.seq + 1
      <4>1. manifest[s].key = draft[w].key
        BY <1>1, <1>2, <2>2, <3>2, <3>3, <3>5
      <4>2. s + Lookback < head.seq
        BY <1>1, <3>1, <3>2, <3>3, <4>1 DEF KeyAbsent
      <4>3. QED
        BY <1>1, <3>3, <3>5, <4>2, ConstantsAssumption
    <3>6. QED
      BY <3>3, <3>4, <3>5
  <2>3. ASSUME PowerLoss PROVE KeyOnce'
    <3>1. 0..head'.seq \subseteq 0..head.seq
      BY <1>1, <2>3, PowerLossLeaves
    <3>2. QED
      BY <1>1, <3>1 DEF KeyInv, KeyOnce
  <2>4. QED
    BY <1>3, <2>1, <2>2, <2>3, StepHistory
<1>5. ASSUME NEW u \in Writers PROVE CallKey(u)'
  <2>1. req'[u].auto = "compacting" => req'[u].op = "append"
    BY StepAuto DEF KeyInv, CallKey
  <2>2. ASSUME pc'[u] \in Drafted
        PROVE  /\ draft'[u].key \in {NoKey, req'[u].payload}
               /\ draft'[u].key # NoKey => req'[u].keyed
               /\ req'[u].auto = "compacting" => draft'[u].key = NoKey
    <3>1. CASE Stage(u)
      BY <2>1, <3>1, StageKey DEF KeyOf, Doing
    <3>2. CASE Kept(u)
      <4>1. draft'[u].key = draft[u].key
        BY <3>2 DEF Kept, CallTypes, Manifests
      <4>2. QED
        BY <3>2, <4>1 DEF Kept, KeyInv, CallKey
    <3>3. QED
      BY <2>2, <3>1, <3>2, StepDraft
  <2>3. ASSUME pc'[u] \notin {"idle", "replay"}, req'[u].keyed,
               pc'[u] = "dirsync" => draft'[u].key = NoKey
        PROVE  KeyAbsent(req[u].payload)'
    <3>1. KeyAbsent(req'[u].payload)
      BY <2>3, StepPast
    <3>2. CASE UNCHANGED head
      BY <1>1, <3>1, <3>2 DEF KeyAbsent
    <3>3. ASSUME NEW w \in Writers, SwapHead(w) PROVE draft[w].key # req'[u].payload
      <4>1. CASE u = w
        <5>1. pc'[u] = "dirsync" /\ draft'[u] = draft[u]
          BY <1>2, <3>3, <4>1 DEF CallTypes
        <5>2. draft[u].key = NoKey
          BY <2>3, <5>1
        <5>3. req'[u].payload \in Payloads
          BY NextCore DEF CallTypes, Requests
        <5>4. QED
          BY <4>1, <5>2, <5>3, ConstantsAssumption
      <4>2. CASE u # w
        <5>1. ~Begin(u)
          BY <3>3 DEF SwapHead, Begin, CallTypes, storeVars, StoreTypes, HistoryInv, CallInv, CallOK, Heads, Seqs
        <5>2. pc[u] # "idle" /\ req[u].keyed /\ req'[u].payload = req[u].payload
          BY <2>3, <5>1, StepKey
        <5>3. req[u].payload \in Payloads
          BY DEF CallTypes, Requests
        <5>4. CASE draft[w].key = NoKey
          BY <5>2, <5>3, <5>4, ConstantsAssumption
        <5>5. CASE draft[w].key # NoKey
          BY <1>2, <3>3, <4>2, <5>2, <5>5 DEF KeyInv, CallKey
        <5>6. QED
          BY <5>4, <5>5
      <4>3. QED
        BY <4>1, <4>2
    <3>4. ASSUME NEW w \in Writers, SwapHead(w) PROVE KeyAbsent(req[u].payload)'
      <4>1. SUFFICES ASSUME NEW s \in 0..head'.seq, manifest'[s].key = req'[u].payload
                     PROVE  s + Lookback < head'.seq
        BY DEF KeyAbsent
      <4>2. s \in 0..head.seq
        BY <1>2, <3>3, <3>4, <4>1
      <4>3. s + Lookback < head.seq
        BY <1>1, <3>1, <4>1, <4>2 DEF KeyAbsent
      <4>4. QED
        BY <1>1, <1>2, <3>4, <4>2, <4>3, ConstantsAssumption
    <3>5. ~PowerLoss
      BY <2>3 DEF PowerLoss
    <3>6. QED
      BY <1>3, <3>2, <3>4, <3>5, StepHistory
  <2>4. ASSUME NEW v \in Writers \ {u}, pc'[u] # "idle", req'[u].keyed,
               pc'[v] # "idle", req'[v].keyed
        PROVE  req'[v].payload # req'[u].payload
    <3>1. ASSUME NEW x \in Writers, NEW y \in Writers, x # y, Begin(x), req'[x].keyed,
                 pc'[y] # "idle", req'[y].keyed
          PROVE  req'[y].payload # req'[x].payload
      <4>1. PICK c \in Calls : (c.keyed => KeyFree(x, c.payload)) /\ req' = [req EXCEPT ![x] = c]
        BY <3>1 DEF Begin
      <4>2. req'[x] = c /\ req'[y] = req[y] /\ pc'[y] = pc[y]
        BY <3>1, <4>1 DEF Begin, CallTypes
      <4>3. QED
        BY <3>1, <4>1, <4>2 DEF KeyFree
    <3>2. CASE Begin(u)
      BY <2>4, <3>1, <3>2
    <3>3. CASE Begin(v)
      BY <2>4, <3>1, <3>3
    <3>4. CASE ~Begin(u) /\ ~Begin(v)
      <4>1. /\ pc[u] # "idle" /\ req[u].keyed /\ req'[u].payload = req[u].payload
            /\ pc[v] # "idle" /\ req[v].keyed /\ req'[v].payload = req[v].payload
        BY <2>4, <3>4, StepKey
      <4>2. QED
        BY <2>4, <4>1 DEF KeyInv, CallKey
    <3>5. QED
      BY <3>2, <3>3, <3>4
  <2>5. QED
    BY <2>1, <2>2, <2>3, <2>4 DEF CallKey
<1>6. QED
  BY <1>4, <1>5 DEF KeyInv

(* A key is applied once within the lookback window, whichever way each    *)
(* call with it ended and whatever other writers commit in between, as     *)
(* long as the caller presents it again only when its last call is over.   *)
THEOREM KeysOnce == ASSUME SharedKeys = FALSE PROVE Spec => []KeyOnce
<1>1. Init => Core /\ KeyInv
  <2> SUFFICES ASSUME Init PROVE KeyInv
    BY InitCore
  <2>1. \A s \in 0..head.seq : s = 0
    BY DEF Init, Head0
  <2>2. QED
    BY <2>1 DEF KeyInv, CallKey, KeyOnce, Init, NoCall, Drafted
<1>2. Core /\ KeyInv /\ [Next]_vars => (Core /\ KeyInv)'
  BY NextCore, NextKeys
<1>3. KeyInv => KeyOnce
  BY DEF KeyInv
<1>4. QED
  BY <1>1, <1>2, <1>3, PTL DEF Spec

-----------------------------------------------------------------------------
(***************************************************************************)
(* The refinement.                                                         *)
(***************************************************************************)
(* The rows of a segment object never change once an attempt has its       *)
(* number, and only staging takes numbers and uploads objects.             *)
LEMMA StepContent ==
    ASSUME Core, TableInv, [Next]_vars
    PROVE  /\ \A i \in 1..lastId : content'[i] = content[i]
           /\ segs' \subseteq 1..lastId'
           /\ lastId' >= lastId
<1> USE DEF Core
<1>1. lastId \in Nat /\ segs \subseteq 1..lastId
  BY DEF StoreTypes, TableInv
<1>2. ASSUME NEW w \in Writers, Stage(w)
      PROVE  /\ \A i \in 1..lastId : content'[i] = content[i]
             /\ segs' \subseteq 1..lastId' /\ lastId' = lastId + 1
  <2>1. \/ UNCHANGED <<segs, content>>
        \/ segs' = segs \cup {lastId + 1} /\ \E r : content' = [content EXCEPT ![lastId + 1] = r]
    BY <1>2, Zenon DEF Stage, StageWrite, StageAppend, StageReplace, StageCompact, StageRestore,
                Upload, NoUpload
  <2>2. lastId' = lastId + 1
    BY <1>2 DEF Stage
  <2>3. \A i \in 1..lastId : i \in Ids /\ i # lastId + 1
    BY <1>1, ConstantsAssumption DEF Ids, StoreTypes
  <2>4. lastId + 1 \in 1..lastId + 1 /\ 1..lastId \subseteq 1..lastId + 1
    BY <1>1
  <2>5. segs' \subseteq 1..lastId + 1
    BY <1>1, <2>1, <2>4
  <2>6. \A i \in 1..lastId : content'[i] = content[i]
    BY <2>1, <2>3 DEF StoreTypes
  <2>7. QED
    BY <2>2, <2>5, <2>6
<1>3. ASSUME NEW w \in Writers,
             \/ Begin(w) \/ Crash(w) \/ Replay(w) \/ Prologue(w) \/ ExpectedMismatch(w)
             \/ Reject(w) \/ NothingToCompact(w) \/ AcquireMeta(w)
             \/ MetaTimeout(w) \/ AcquireLock(w) \/ SyncObjects(w) \/ PutManifest(w)
             \/ SwapHead(w) \/ SyncHead(w)
      PROVE  UNCHANGED <<segs, content, lastId>>
  BY <1>3 DEF Begin, Crash, Replay, Prologue, ExpectedMismatch, Reject,
     NothingToCompact, AcquireMeta, MetaTimeout, AcquireLock, SyncObjects, PutManifest,
     SwapHead, SyncHead, storeVars
<1>4. ASSUME PowerLoss PROVE UNCHANGED <<content, lastId>> /\ segs' \subseteq segs
  BY <1>4, PowerLossLeaves DEF PowerLoss
<1>5. CASE UNCHANGED vars
  BY <1>1, <1>5 DEF vars, storeVars
<1>6. lastId + 1 >= lastId /\ lastId >= lastId
  BY <1>1
<1>7. QED
  BY <1>1, <1>2, <1>3, <1>4, <1>5, <1>6 DEF Next, Step

(* The rows of a set of objects, and what the proofs use of them. *)
RowsOf(c, ids) == UNION {c[s] : s \in ids}

(* A row is there when an object has it. *)
LEMMA RowsIn ==
    ASSUME NEW c, NEW ids PROVE \A x : x \in RowsOf(c, ids) <=> \E s \in ids : x \in c[s]
BY DEF RowsOf

(* Objects that agree have the same rows. *)
LEMMA RowsAgree ==
    ASSUME NEW c, NEW d, NEW ids, \A s \in ids : c[s] = d[s] PROVE RowsOf(c, ids) = RowsOf(d, ids)
<1>1. \A x : x \in RowsOf(c, ids) <=> x \in RowsOf(d, ids)
  BY RowsIn
<1>2. QED
  BY <1>1

(* One more object adds its rows. *)
LEMMA RowsAdd ==
    ASSUME NEW c, NEW ids, NEW s PROVE RowsOf(c, ids \cup {s}) = RowsOf(c, ids) \cup c[s]
<1>1. \A x : x \in RowsOf(c, ids \cup {s}) <=> x \in RowsOf(c, ids) \cup c[s]
  BY RowsIn
<1>2. QED
  BY <1>1

(* Grouping objects loses no rows. *)
LEMMA RowsGroup ==
    ASSUME NEW c, NEW ids, NEW group, group \subseteq ids
    PROVE  RowsOf(c, ids \ group) \cup RowsOf(c, group) = RowsOf(c, ids)
<1>1. \A x : x \in RowsOf(c, ids \ group) \cup RowsOf(c, group) <=> x \in RowsOf(c, ids)
  BY RowsIn
<1>2. QED
  BY <1>1

(* A replaced range loses its rows and no others. *)
LEMMA RowsReplace ==
    ASSUME NEW c, NEW ids, NEW gone, NEW added, NEW kept, NEW boundary,
           kept \subseteq ids, boundary \subseteq ids,
           \A s \in kept : c[s] \cap gone = {},
           \A s \in ids : s \in kept \/ s \in boundary \/ c[s] \subseteq gone
    PROVE  RowsOf(c, kept) \cup ((RowsOf(c, boundary) \ gone) \cup added)
             = (RowsOf(c, ids) \ gone) \cup added
<1> DEFINE L == RowsOf(c, kept) \cup ((RowsOf(c, boundary) \ gone) \cup added)
           R == (RowsOf(c, ids) \ gone) \cup added
<1>1. ASSUME NEW x, x \in L PROVE x \in R
  <2>1. CASE x \in RowsOf(c, kept)
    <3>1. PICK s \in kept : x \in c[s]
      BY <2>1, RowsIn
    <3>2. s \in ids /\ x \notin gone
      BY <3>1
    <3>3. QED
      BY <3>1, <3>2, RowsIn
  <2>2. CASE x \in RowsOf(c, boundary) /\ x \notin gone
    <3>1. PICK s \in boundary : x \in c[s]
      BY <2>2, RowsIn
    <3>2. QED
      BY <2>2, <3>1, RowsIn
  <2>3. QED
    BY <1>1, <2>1, <2>2
<1>2. ASSUME NEW x, x \in R PROVE x \in L
  <2>1. CASE x \in added
    BY <2>1
  <2>2. CASE x \in RowsOf(c, ids) /\ x \notin gone
    <3>1. PICK s \in ids : x \in c[s]
      BY <2>2, RowsIn
    <3>2. s \in kept \/ s \in boundary
      BY <2>2, <3>1
    <3>3. QED
      BY <2>2, <3>1, <3>2, RowsIn
  <2>3. QED
    BY <1>2, <2>1, <2>2
<1> HIDE DEF L, R
<1>3. L = R
  BY <1>1, <1>2
<1>4. QED
  BY <1>3 DEF L, R

(* So the rows of a manifest over existing objects do not change. *)
LEMMA RowsKept ==
    ASSUME Core, TableInv, [Next]_vars, NEW m, NEW n, m.segs \subseteq segs, n.segs = m.segs
    PROVE  Rows(n)' = Rows(m)
<1>1. \A s \in m.segs : content'[s] = content[s]
  BY StepContent DEF TableInv
<1>2. RowsOf(content', m.segs) = RowsOf(content, m.segs)
  BY <1>1, RowsAgree
<1>3. QED
  BY <1>2 DEF Rows, RowsOf

(* What an upload adds to the rows of what a draft keeps. *)
LEMMA UploadRows ==
    ASSUME Core, TableInv, NEW w \in Writers, NEW op, NEW kept, NEW rows, NEW parent,
           lastId < MaxId, parent.segs \subseteq segs, kept \subseteq parent.segs,
           Upload(w, lastId + 1, op, kept, rows, parent)
    PROVE  /\ draft'[w].op = op
           /\ Rows(draft[w])' = RowsOf(content, kept) \cup rows
<1> DEFINE id == lastId + 1
<1>1. id \in Ids /\ \A s \in segs : s \in Ids /\ s # id
  BY ConstantsAssumption DEF Ids, StoreTypes, Core, TableInv
<1>2. \A seg : Draft(w, id, op, seg, KeyOf(w)).op = op /\ Draft(w, id, op, seg, KeyOf(w)).segs = seg
  BY DEF Draft
<1>3. CASE /\ \E s \in parent.segs : content[s] = rows
                 /\ draft' = [draft EXCEPT ![w] = Draft(w, id, op, kept \cup {s}, KeyOf(w))]
           /\ UNCHANGED <<segs, content>>
  <2>1. PICK s \in parent.segs : content[s] = rows
                 /\ draft' = [draft EXCEPT ![w] = Draft(w, id, op, kept \cup {s}, KeyOf(w))]
    BY <1>3
  <2>2. draft'[w].op = op /\ draft'[w].segs = kept \cup {s}
    BY <1>2, <2>1 DEF CallTypes, Core
  <2>3. Rows(draft[w])' = RowsOf(content, kept \cup {s})
    BY <1>3, <2>2 DEF Rows, RowsOf
  <2>4. RowsOf(content, kept \cup {s}) = RowsOf(content, kept) \cup content[s]
    BY RowsAdd
  <2>5. RowsOf(content, kept \cup {s}) = RowsOf(content, kept) \cup rows
    BY <2>1, <2>4
  <2>6. QED
    BY <2>2, <2>3, <2>5
<1>4. CASE /\ content' = [content EXCEPT ![id] = rows]
           /\ draft' = [draft EXCEPT ![w] = Draft(w, id, op, kept \cup {id}, KeyOf(w))]
  <2>1. draft'[w].op = op /\ draft'[w].segs = kept \cup {id}
    BY <1>2, <1>4 DEF CallTypes, Core
  <2>2. content'[id] = rows /\ \A s \in kept : content'[s] = content[s]
    BY <1>1, <1>4 DEF StoreTypes, Core
  <2>3. Rows(draft[w])' = RowsOf(content', kept \cup {id})
    BY <2>1 DEF Rows, RowsOf
  <2>4. RowsOf(content', kept) = RowsOf(content, kept)
    BY <2>2, RowsAgree
  <2>5. RowsOf(content', kept \cup {id}) = RowsOf(content', kept) \cup content'[id]
    BY RowsAdd
  <2>6. RowsOf(content', kept \cup {id}) = RowsOf(content, kept) \cup rows
    BY <2>2, <2>4, <2>5
  <2>7. QED
    BY <2>1, <2>3, <2>6
<1>5. QED
  BY <1>3, <1>4 DEF Upload

(* A version that uploads nothing has the rows of what it references. *)
LEMMA NoUploadRows ==
    ASSUME Core, NEW w \in Writers, NEW id, NEW op, NEW kept, NoUpload(w, id, op, kept)
    PROVE  /\ draft'[w].op = op
           /\ Rows(draft[w])' = RowsOf(content, kept)
<1>1. draft'[w] = Draft(w, id, op, kept, KeyOf(w))
  BY DEF NoUpload, Core, CallTypes
<1>2. draft'[w].op = op /\ draft'[w].segs = kept
  BY <1>1 DEF Draft
<1>3. QED
  BY <1>2 DEF NoUpload, Rows, RowsOf

(* Every operation stages a manifest derived from the version it read. *)
LEMMA StageFollows == ASSUME Core, TableInv, [Next]_vars, NEW w \in Writers, Stage(w) PROVE FollowsBase(w)'
<1> USE DEF Core
<1> DEFINE parent == manifest[base[w].seq]
           p == req[w].payload
           new == draft'[w]
           rows == Rows(draft[w])'
<1>1. /\ base[w].seq \in Seqs /\ base[w].seq <= head.seq
      /\ UNCHANGED <<manifest, base>> /\ lastId < MaxId
  BY DEF Stage, CallInv, CallOK, CallTypes, Heads
<1>2. parent.segs \subseteq segs
  BY <1>1, CommittedManifest DEF HistoryInv
<1>3. p \in Payloads
  BY DEF CallTypes, Requests
<1>4. Rows(manifest[base[w].seq])' = Rows(parent)
  BY <1>1, <1>2, RowsKept DEF Rows
<1>5. CASE Upload(w, lastId + 1, "write", {}, {p}, parent)
  <2>1. new.op = "write" /\ rows = RowsOf(content, {}) \cup {p}
    BY <1>1, <1>2, <1>5, UploadRows
  <2>2. rows = {p}
    BY <2>1, RowsIn
  <2>3. QED
    BY <1>3, <2>1, <2>2 DEF FollowsBase
<1>6. CASE Upload(w, lastId + 1, "append", parent.segs, {p}, parent)
  <2>1. new.op = "append" /\ rows = RowsOf(content, parent.segs) \cup {p}
    BY <1>1, <1>2, <1>6, UploadRows
  <2>2. QED
    BY <1>3, <1>4, <2>1 DEF FollowsBase, Rows, RowsOf
<1>7. CASE StageReplace(w, lastId + 1, parent)
  <2>1. PICK gone \in SUBSET Rows(parent), added \in {{}, {p}} :
              LET kept == {s \in parent.segs : content[s] \cap gone = {}}
                  boundary == {s \in parent.segs \ kept : ~(content[s] \subseteq gone)}
                  left == ((UNION {content[s] : s \in boundary}) \ gone) \cup added
              IN  IF left = {} THEN NoUpload(w, lastId + 1, "replace", kept)
                  ELSE Upload(w, lastId + 1, "replace", kept, left, parent)
    BY <1>7 DEF StageReplace
  <2> DEFINE kept == {s \in parent.segs : content[s] \cap gone = {}}
             boundary == {s \in parent.segs \ kept : ~(content[s] \subseteq gone)}
             left == ((UNION {content[s] : s \in boundary}) \ gone) \cup added
             outside == RowsOf(content, kept)
  <2>2. \/ NoUpload(w, lastId + 1, "replace", kept) /\ left = {}
        \/ Upload(w, lastId + 1, "replace", kept, left, parent)
    BY <2>1
  <2>3. new.op = "replace" /\ rows = outside \cup left
    <3>1. CASE NoUpload(w, lastId + 1, "replace", kept) /\ left = {}
      <4>1. new.op = "replace" /\ rows = outside
        BY <3>1, NoUploadRows
      <4>2. QED
        BY <3>1, <4>1
    <3>2. CASE Upload(w, lastId + 1, "replace", kept, left, parent)
      <4>1. kept \subseteq parent.segs
        OBVIOUS
      <4> HIDE DEF kept, left
      <4>2. QED
        BY <1>1, <1>2, <3>2, <4>1, UploadRows
    <3>3. QED
      BY <2>2, <3>1, <3>2
  <2>4. outside \cup left = (Rows(parent) \ gone) \cup added
    <3>1. Rows(parent) = RowsOf(content, parent.segs)
      BY DEF Rows, RowsOf
    <3>2. left = (RowsOf(content, boundary) \ gone) \cup added
      BY DEF RowsOf
    <3>3. /\ kept \subseteq parent.segs /\ boundary \subseteq parent.segs
          /\ \A s \in kept : content[s] \cap gone = {}
          /\ \A s \in parent.segs : s \in kept \/ s \in boundary \/ content[s] \subseteq gone
      OBVIOUS
    <3> HIDE DEF kept, boundary, left
    <3>4. RowsOf(content, kept) \cup ((RowsOf(content, boundary) \ gone) \cup added)
             = (RowsOf(content, parent.segs) \ gone) \cup added
      BY <3>3, RowsReplace
    <3>5. QED
      BY <3>1, <3>2, <3>4
  <2>5. rows = Rows(parent) \ gone \/ rows = (Rows(parent) \ gone) \cup {p}
    <3>1. added = {} \/ added = {p}
      OBVIOUS
    <3> HIDE DEF rows, outside, left
    <3>2. QED
      BY <2>3, <2>4, <3>1
  <2> HIDE DEF rows, kept, boundary, left, outside
  <2>6. QED
    BY <1>3, <1>4, <2>3, <2>5 DEF FollowsBase, rows
<1>8. CASE StageCompact(w, lastId + 1, parent)
  <2>1. PICK group \in SUBSET parent.segs :
              Upload(w, lastId + 1, "compact", parent.segs \ group,
                     UNION {content[s] : s \in group}, parent)
    BY <1>8 DEF StageCompact
  <2>2. /\ new.op = "compact"
        /\ rows = RowsOf(content, parent.segs \ group) \cup RowsOf(content, group)
    <3>1. parent.segs \ group \subseteq parent.segs
      OBVIOUS
    <3>2. QED
      BY <1>1, <1>2, <2>1, <3>1, UploadRows DEF RowsOf
  <2>3. RowsOf(content, parent.segs \ group) \cup RowsOf(content, group) = Rows(parent)
    BY RowsGroup DEF Rows, RowsOf
  <2>4. QED
    BY <1>4, <2>2, <2>3 DEF FollowsBase
<1>9. CASE StageRestore(w, lastId + 1)
  <2>1. PICK v \in 0..base[w].seq : NoUpload(w, lastId + 1, "restore", manifest[v].segs)
    BY <1>9 DEF StageRestore
  <2>2. new.op = "restore" /\ rows = Rows(manifest[v])
    BY <2>1, NoUploadRows DEF Rows, RowsOf
  <2>3. v \in Seqs /\ v <= head.seq
    BY <1>1, ConstantsAssumption DEF Seqs, StoreTypes, Heads
  <2>4. Rows(manifest[v])' = Rows(manifest[v])
    BY <1>1, <2>3, CommittedManifest, RowsKept DEF HistoryInv, Rows
  <2>5. QED
    BY <1>1, <2>1, <2>2, <2>4 DEF FollowsBase
<1>10. QED
  BY <1>5, <1>6, <1>7, <1>8, <1>9 DEF Stage, StageWrite, StageAppend

(* Every step keeps drafts derived from their bases, and a lowest HEAD. *)
LEMMA NextTable == ASSUME Core, TableInv, [Next]_vars PROVE TableInv'
<1> USE DEF Core
<1>1. segs' \subseteq 1..lastId'
  BY StepContent
<1>2. \E low \in headDisk' : \A h \in headDisk' : low.seq <= h.seq
  <2>1. CASE UNCHANGED headDisk
    BY <2>1 DEF TableInv
  <2>2. ASSUME NEW w \in Writers, SwapHead(w)
        PROVE  \E low \in headDisk' : \A h \in headDisk' : low.seq <= h.seq
    <3>1. PICK low \in headDisk : \A h \in headDisk : low.seq <= h.seq
      BY DEF TableInv
    <3>2. headDisk' = headDisk \cup {[seq |-> base[w].seq + 1, sum |-> draft[w].id]}
      BY <2>2 DEF SwapHead
    <3>3. base[w] = head /\ head.seq \in Nat
      BY <2>2, NextSlot DEF SwapHead
    <3>4. low.seq \in Nat /\ low.seq <= head.seq
      BY DEF HistoryInv, StoreTypes, Heads, Seqs
    <3>5. \A h \in headDisk' : low.seq <= h.seq
      BY <3>1, <3>2, <3>3, <3>4
    <3>6. QED
      BY <3>2, <3>5
  <2>3. ASSUME (\E w \in Writers : SyncHead(w)) \/ PowerLoss
        PROVE  \E h \in Heads : headDisk' = {h}
    BY <2>3 DEF SyncHead, PowerLoss, StoreTypes
  <2>4. \A h \in Heads : h.seq <= h.seq
    BY DEF Heads, Seqs
  <2>5. QED
    BY <2>1, <2>2, <2>3, <2>4, StepHistory
<1>3. ASSUME NEW u \in Writers, pc'[u] \in {"meta", "lock", "put", "sync", "swap"}
      PROVE  FollowsBase(u)'
  <2>1. CASE Stage(u)
    BY <2>1, StageFollows
  <2>2. CASE Kept(u)
    <3>1. /\ pc[u] \in Drafted /\ pc[u] # "dirsync" /\ base'[u] = base[u]
          /\ draft'[u].op = draft[u].op /\ draft'[u].segs = draft[u].segs
      BY <1>3, <2>2 DEF Kept, CallTypes, Manifests
    <3>2. FollowsBase(u)
      BY <3>1 DEF TableInv, Drafted
    <3>3. draft[u].segs \subseteq segs /\ base[u].seq \in 0..head.seq
      BY <3>1 DEF CallInv, CallOK, CallTypes, StoreTypes, Heads, Seqs
    <3>4. Rows(draft[u])' = Rows(draft[u])
      BY <3>1, <3>3, RowsKept DEF Rows
    <3>5. ASSUME NEW v \in 0..base[u].seq PROVE Rows(manifest[v])' = Rows(manifest[v])
      <4>1. v \in 0..head.seq
        BY <3>3, StepHistory
      <4>2. manifest'[v] = manifest[v] /\ manifest[v].segs \subseteq segs
        BY <4>1, StepHistory DEF HistoryInv
      <4>3. QED
        BY <4>2, RowsKept DEF Rows
    <3>6. base[u].seq \in 0..base[u].seq
      BY <3>3, StepHistory
    <3>7. Rows(manifest[base[u].seq])' = Rows(manifest[base[u].seq])
      BY <3>1, <3>5, <3>6 DEF Rows
    <3>8. QED
      BY <3>1, <3>2, <3>4, <3>5, <3>7 DEF FollowsBase
  <2>3. QED
    BY <1>3, <2>1, <2>2, StepDraft DEF Drafted
<1>4. QED
  BY <1>1, <1>2, <1>3 DEF TableInv

(* The lowest HEAD a power loss may leave is what is durable. *)
LEMMA HardenedLow ==
    ASSUME Core, TableInv
    PROVE  /\ hardened \in 0..head.seq
           /\ \A low \in headDisk : (\A h \in headDisk : low.seq <= h.seq) => hardened = low.seq
<1> USE DEF Core
<1>1. \A h \in headDisk : h.seq \in 0..head.seq /\ h.seq \in Nat
  BY DEF HistoryInv, StoreTypes, Heads, Seqs
<1>2. PICK low \in headDisk : \A h \in headDisk : low.seq <= h.seq
  BY DEF TableInv
<1>3. /\ hardened \in {h.seq : h \in headDisk}
      /\ \A h \in headDisk : hardened <= h.seq
  BY <1>2 DEF hardened
<1>4. QED
  BY <1>1, <1>3

(* A version is what its manifest says. *)
LEMMA VisibleVersion ==
    ASSUME NEW s \in 0..head.seq
    PROVE  visible[s] = [op |-> manifest[s].op, rows |-> Rows(manifest[s])]
BY DEF visible

(* A step that leaves HEAD alone leaves every version alone; one that     *)
(* takes HEAD back leaves the versions below it.                          *)
LEMMA VisibleKept ==
    ASSUME Core, TableInv, [Next]_vars, head'.seq \in 0..head.seq
    PROVE  visible' = [i \in 0..head'.seq |-> visible[i]]
<1> USE DEF Core
<1>1. ASSUME NEW s \in 0..head'.seq
      PROVE  /\ s \in 0..head.seq
             /\ manifest'[s].op = manifest[s].op /\ Rows(manifest[s])' = Rows(manifest[s])
  <2>1. s \in 0..head.seq
    BY StepHistory
  <2>2. manifest'[s] = manifest[s] /\ manifest[s].segs \subseteq segs
    BY <2>1, StepHistory DEF HistoryInv
  <2>3. QED
    BY <2>1, <2>2, RowsKept DEF Rows
<1>2. visible' = [s \in 0..head'.seq |-> [op |-> manifest'[s].op, rows |-> Rows(manifest[s])']]
  BY DEF visible
<1>3. \A s \in 0..head'.seq :
         visible[s] = [op |-> manifest'[s].op, rows |-> Rows(manifest[s])']
  BY <1>1, VisibleVersion
<1>4. QED
  BY <1>2, <1>3

(* A step of the protocol is a step of the table, or invisible. *)
LEMMA StepRefines ==
    ASSUME Core, TableInv, [Next]_vars PROVE [Table!Next]_(Table!vars)
<1> USE DEF Core
<1>1. head.seq \in Nat /\ head.seq \in 0..head.seq
  BY StepHistory
<1>2. Core' /\ TableInv'
  BY NextCore, NextTable
<1>3. visible = [i \in 0..head.seq |-> visible[i]]
  BY DEF visible
<1>4. CASE UNCHANGED <<head, headDisk>>
  <2>1. visible' = visible
    BY <1>1, <1>3, <1>4, VisibleKept
  <2>2. hardened' = hardened
    BY <1>4 DEF hardened
  <2>3. QED
    BY <1>4, <2>1, <2>2 DEF Table!vars
<1>5. ASSUME NEW w \in Writers, SyncHead(w) PROVE Table!Next
  <2>1. headDisk' = {head} /\ UNCHANGED head
    BY <1>5 DEF SyncHead
  <2>2. visible' = visible
    BY <1>1, <1>3, <2>1, VisibleKept
  <2>3. hardened' = head.seq
    BY <1>1, <2>1 DEF hardened
  <2>4. hardened \in 0..head.seq
    BY HardenedLow
  <2>5. hardened' \in hardened..head.seq
    BY <1>1, <2>3, <2>4
  <2>6. QED
    BY <2>1, <2>2, <2>5 DEF Table!Next, Table!Harden
<1>6. ASSUME PowerLoss PROVE Table!Next
  <2>1. head' \in headDisk /\ headDisk' = {head'} /\ head'.seq \in 0..head.seq
    BY <1>6, PowerLossLeaves
  <2>2. visible' = [i \in 0..head'.seq |-> visible[i]]
    BY <2>1, VisibleKept
  <2>3. hardened' = head'.seq
    BY <2>1, <1>1 DEF hardened
  <2>4. hardened \in 0..head.seq /\ hardened <= head'.seq
    <3>1. PICK low \in headDisk : \A h \in headDisk : low.seq <= h.seq
      BY DEF TableInv
    <3>2. QED
      BY <2>1, <3>1, HardenedLow
  <2>5. head'.seq \in hardened..head.seq
    BY <1>1, <2>1, <2>4
  <2>6. QED
    BY <2>2, <2>3, <2>5 DEF Table!Next, Table!PowerLoss
<1>7. ASSUME NEW w \in Writers, SwapHead(w) PROVE Table!Next
  <2>1. /\ pc[w] = "swap" /\ UNCHANGED manifest
        /\ head' = [seq |-> base[w].seq + 1, sum |-> draft[w].id]
        /\ headDisk' = headDisk \cup {head'}
    BY <1>7 DEF SwapHead
  <2>2. /\ base[w] = head /\ manifest[head.seq + 1] = draft[w] /\ draft[w].segs \subseteq segs
        /\ FollowsBase(w)
    BY <2>1 DEF CallInv, CallOK, TableInv, Drafted
  <2>3. head'.seq = head.seq + 1
    BY <2>1, <2>2
  <2> DEFINE m == draft[w]
             new == [op |-> m.op, rows |-> Rows(m)]
  <2>4. new \in Table!Version
    <3>1. m \in Manifests
      BY DEF CallTypes
    <3>2. \A s \in m.segs : content[s] \in SUBSET Payloads
      BY <2>2 DEF StoreTypes
    <3>3. Rows(m) \in SUBSET Payloads
      BY <3>2 DEF Rows
    <3> HIDE DEF m
    <3>4. QED
      BY <3>1, <3>3 DEF Table!Version, Manifests, CallOps
  <2>5. Rows(draft[w])' = Rows(m) /\ content' = content
    BY <1>7 DEF SwapHead, Rows
  <2>6. visible' = [i \in 0..head.seq + 1 |-> IF i <= head.seq THEN visible[i] ELSE new]
    <3>1. \A i \in 0..head.seq + 1 : i <= head.seq => i \in 0..head.seq
      BY <1>1
    <3>2. \A i \in 0..head.seq + 1 : ~(i <= head.seq) => i = head.seq + 1
      BY <1>1
    <3>3. visible' = [i \in 0..head.seq + 1 |-> [op |-> manifest[i].op, rows |-> Rows(manifest[i])]]
      BY <2>1, <2>3, <2>5 DEF visible, Rows
    <3>4. \A i \in 0..head.seq + 1 :
             [op |-> manifest[i].op, rows |-> Rows(manifest[i])]
               = IF i <= head.seq THEN visible[i] ELSE new
      BY <2>2, <3>1, <3>2, VisibleVersion
    <3>5. QED
      BY <3>3, <3>4
  <2>7. Table!Derived(m.op, Rows(m))
    <3>1. ASSUME NEW t \in 0..head.seq PROVE visible[t].rows = Rows(manifest[t])
      <4>1. visible[t] = [op |-> manifest[t].op, rows |-> Rows(manifest[t])]
        BY <3>1, VisibleVersion
      <4>2. QED
        BY <4>1
    <3>2. visible[head.seq].rows = Rows(manifest[head.seq])
      BY <1>1, <3>1
    <3>3. QED
      BY <2>2, <3>1, <3>2 DEF FollowsBase, Table!Derived
  <2>8. hardened' = hardened
    <3>1. PICK low \in headDisk : \A h \in headDisk : low.seq <= h.seq
      BY DEF TableInv
    <3>2. low.seq \in Nat /\ low.seq <= head.seq
      BY DEF HistoryInv, StoreTypes, Heads, Seqs
    <3>3. low \in headDisk' /\ \A h \in headDisk' : low.seq <= h.seq
      BY <1>1, <2>1, <2>3, <3>1, <3>2
    <3>4. hardened' \in {h.seq : h \in headDisk'} /\ \A h \in headDisk' : hardened' <= h.seq
      BY <3>3 DEF hardened
    <3>5. hardened = low.seq
      BY <3>1, HardenedLow
    <3>6. \A h \in headDisk' : h.seq \in Nat
      BY <1>1, <2>1, <2>3 DEF StoreTypes, Heads, Seqs
    <3>7. QED
      BY <3>2, <3>3, <3>4, <3>5, <3>6
  <2>9. new.op = m.op /\ new.rows = Rows(m)
    OBVIOUS
  <2> HIDE DEF new, m
  <2>10. Table!Commit
    BY <2>3, <2>4, <2>6, <2>7, <2>8, <2>9 DEF Table!Commit
  <2>11. QED
    BY <2>10 DEF Table!Next
<1>8. QED
  BY <1>4, <1>5, <1>6, <1>7, StepHistory

(* Local commits implement the abstract table for any number of writers,   *)
(* crashes and power losses: each HEAD swap adds one version derived from  *)
(* the one below it, versions never change, and a power loss takes back    *)
(* only versions above the durable one.                                    *)
THEOREM ImplementsTableProved == Spec => ImplementsTable
<1>1. Init => Core /\ TableInv
  <2> SUFFICES ASSUME Init PROVE TableInv
    BY InitCore
  <2>1. Head0.seq <= Head0.seq
    BY DEF Head0
  <2>2. QED
    BY <2>1 DEF TableInv, Init
<1>2. Init => Table!Init
  <2> SUFFICES ASSUME Init PROVE Table!Init
    OBVIOUS
  <2>1. head.seq = 0 /\ headDisk = {Head0} /\ Head0.seq = 0 /\ manifest[0] = Version0
    BY DefaultTypes DEF Init, Head0
  <2>2. 0..0 = {0}
    OBVIOUS
  <2>3. Rows(manifest[0]) = {}
    BY <2>1 DEF Rows, Version0
  <2>4. manifest[0].op = "create"
    BY <2>1 DEF Version0
  <2>5. visible = [i \in {0} |-> [op |-> "create", rows |-> {}]]
    BY <2>1, <2>2, <2>3, <2>4 DEF visible
  <2>6. hardened = 0
    BY <2>1 DEF hardened
  <2>7. QED
    BY <2>1, <2>5, <2>6 DEF Table!Init
<1>3. Core /\ TableInv /\ [Next]_vars => Core' /\ TableInv' /\ [Table!Next]_(Table!vars)
  BY NextCore, NextTable, StepRefines
<1>4. QED
  BY <1>1, <1>2, <1>3, PTL DEF Spec, ImplementsTable, Table!Spec
=============================================================================
