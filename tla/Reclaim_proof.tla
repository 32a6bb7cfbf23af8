---------------------------- MODULE Reclaim_proof ----------------------------
(***************************************************************************)
(* Proofs about Reclaim, for every set of writers, every bound and every   *)
(* grace period and time to live, where vacuum does not overlap with       *)
(* publishing.                                                             *)
(***************************************************************************)
EXTENDS Reclaim, TLAPS

(* The values variables are reset to are well typed. *)
LEMMA DefaultTypes == NoCall \in Calls /\ NoScan \in Scans /\ 0 \in Seqs /\ 0 \in Times
<1> USE ConstantsAssumption
<1>1. 0 \in Seqs /\ 0 \in Times
  BY DEF Seqs, Times
<1>2. NoCall \in Calls
  BY <1>1 DEF NoCall, Calls
<1>3. NoScan \in Scans
  BY <1>1 DEF NoScan, Scans
<1>4. QED
  BY <1>1, <1>2, <1>3

(* The types in four parts. *)
StoreTypes ==
    /\ now \in Times
    /\ head \in Seqs
    /\ slots \in [Seqs -> {None} \cup SUBSET Segs]
    /\ slotTime \in [Seqs -> Times]
    /\ segTime \in [Segs -> Times \cup {None}]
    /\ floor \in Seqs
    /\ pins \subseteq Seqs
    /\ lastSeg \in Segs \cup {0}
    /\ crashes \in 0..MaxCrash
ProtectTypes == leases \subseteq Leases /\ plans \subseteq Plans
CallTypes == pc \in [Writers -> PCs] /\ call \in [Writers -> Calls]
ScanTypes == vpc \in VPCs /\ scan \in Scans

(* The type invariant is their conjunction. *)
LEMMA TypeParts == TypeOK <=> StoreTypes /\ ProtectTypes /\ CallTypes /\ ScanTypes
BY DEF TypeOK, StoreTypes, ProtectTypes, CallTypes, ScanTypes

Core == StoreTypes /\ ProtectTypes /\ CallTypes /\ ScanTypes /\ RootInv /\ CallInv /\ ScanInv

(* The state create_table leaves satisfies the invariant. *)
LEMMA InitCore == Init => Core
<1> SUFFICES ASSUME Init PROVE Core
  OBVIOUS
<1> USE DefaultTypes, ConstantsAssumption DEF Init
<1>1. StoreTypes
  BY DEF StoreTypes
<1>2. ProtectTypes /\ CallTypes /\ ScanTypes
  BY DEF ProtectTypes, CallTypes, ScanTypes, PCs, VPCs
<1>3. RootInv
  <2>1. floor..head = {0} /\ slots[0] = {}
    OBVIOUS
  <2>2. QED
    BY <2>1 DEF RootInv, RetainedReadable, Readable, Present
<1>4. CallInv
  BY DEF CallInv, CallOK, Publishing
<1>5. ScanInv
  BY DEF ScanInv
<1>6. QED
  BY <1>1, <1>2, <1>3, <1>4, <1>5 DEF Core

-----------------------------------------------------------------------------
(***************************************************************************)
(* Steps of calls.                                                         *)
(***************************************************************************)
(* HEAD and the floor as numbers. *)
LEMMA Numbers ==
    ASSUME Core
    PROVE  /\ head \in Nat /\ floor \in Nat /\ floor <= head /\ head <= MaxSeq
           /\ head \in floor..head
           /\ \A s \in floor..head : s \in Seqs
           /\ \A s \in floor..head : slots[s] \in SUBSET Segs /\ slots[s] # None /\ Present(slots[s])
<1> USE DEF Core
<1>1. head \in Nat /\ floor \in Nat /\ floor <= head /\ head <= MaxSeq
  BY DEF StoreTypes, Seqs, RootInv
<1>2. head \in floor..head /\ \A s \in floor..head : s \in Seqs
  BY <1>1, ConstantsAssumption DEF Seqs
<1>3. QED
  BY <1>1, <1>2 DEF RootInv, RetainedReadable, Readable, StoreTypes

(* Nothing the invariant is about is taken away, and nothing is published. *)
Harmless ==
    /\ UNCHANGED <<rootVars, vacuumVars>>
    /\ now' = now
    /\ slots' = slots
    /\ \A i \in Segs : Exists(i) => Exists(i)'
    /\ \A p \in plans' : p \in plans \/ (vpc = "idle" /\ p.base < MaxSeq)

(* Such a step keeps the roots and the scan as good as they were. *)
LEMMA HarmlessInv == ASSUME Core, Harmless PROVE RootInv' /\ ScanInv'
<1> USE DEF Core, Harmless, rootVars, vacuumVars
<1>1. \A s \in floor..head : Present(slots[s])'
  BY Numbers DEF Present
<1>2. RootInv'
  BY <1>1, Numbers DEF RootInv, RetainedReadable, Readable
<1>3. ScanInv'
  BY DEF ScanInv, Covers
<1>4. QED
  BY <1>2, <1>3

(* ... and the calls that do not take it. *)
LEMMA OtherCall ==
    ASSUME Core, NEW u \in Writers, pc'[u] = pc[u], call'[u] = call[u],
           UNCHANGED <<head, vpc>>, slots'[head] = slots[head],
           pc[u] \in {"sync", "swap"} => slots'[head + 1] = slots[head + 1],
           \A i \in Segs : Exists(i) => Exists(i)',
           \A v \in Writers : pc'[v] \in {"sync", "swap"} =>
              pc[v] \in {"sync", "swap"} \/ pc[u] \notin {"sync", "swap"}
    PROVE  CallOK(u)'
<1> USE DEF Core
<1>1. CallOK(u) /\ call[u] \in Calls
  BY DEF CallInv, CallTypes
<1>2. \A segs \in SUBSET Segs : Present(segs) => Present(segs)'
  BY DEF Present
<1>3. call[u].segs \in SUBSET Segs /\ call[u].segs \ {call[u].new} \in SUBSET Segs
  BY <1>1 DEF Calls
<1>4. QED
  BY <1>1, <1>2, <1>3 DEF CallOK, Publishing

(* Ending a call keeps the types and leaves it nowhere. *)
LEMMA ReturnTypes ==
    ASSUME CallTypes, NEW w \in Writers, Return(w)
    PROVE  /\ CallTypes' /\ pc'[w] = "idle"
           /\ \A u \in Writers \ {w} : pc'[u] = pc[u] /\ call'[u] = call[u]
BY DefaultTypes DEF Return, CallTypes, PCs

(* An idle call owes nothing. *)
LEMMA IdleCall == ASSUME NEW w \in Writers, pc'[w] = "idle" PROVE CallOK(w)'
BY DEF CallOK, Publishing

(* A harmless step that ends a call keeps the invariant. *)
LEMMA ReturnCore ==
    ASSUME Core, NEW w \in Writers, Return(w), Harmless, StoreTypes', ProtectTypes'
    PROVE  Core'
<1>1. /\ CallTypes' /\ pc'[w] = "idle"
      /\ \A u \in Writers \ {w} : pc'[u] = pc[u] /\ call'[u] = call[u]
  BY ReturnTypes DEF Core
<1>2. ASSUME NEW u \in Writers PROVE CallOK(u)'
  <2>1. CASE u = w
    BY <1>1, <2>1, IdleCall
  <2>2. CASE u # w
    BY <1>1, <2>2, OtherCall DEF Harmless, rootVars, vacuumVars
  <2>3. QED
    BY <2>1, <2>2
<1>3. ScanTypes'
  BY DEF Core, Harmless, vacuumVars, ScanTypes
<1>4. QED
  BY <1>1, <1>2, <1>3, HarmlessInv DEF Core, CallInv

(* A harmless step that moves a call, given what it knows where it is. *)
LEMMA MoveCore ==
    ASSUME Core, NEW w \in Writers, NEW p \in PCs, NEW c \in Calls, Harmless,
           StoreTypes', ProtectTypes',
           pc' = [pc EXCEPT ![w] = p], call' = [call EXCEPT ![w] = c],
           p \in {"sync", "swap"} => pc[w] \in {"sync", "swap"}, CallOK(w)'
    PROVE  Core'
<1> USE DEF Core
<1>1. CallTypes' /\ \A u \in Writers \ {w} : pc'[u] = pc[u] /\ call'[u] = call[u]
  BY DEF CallTypes
<1>2. ASSUME NEW u \in Writers, u # w PROVE CallOK(u)'
  <2>1. pc'[u] = pc[u] /\ call'[u] = call[u]
    BY <1>1, <1>2
  <2>2. \A v \in Writers : pc'[v] \in {"sync", "swap"} => pc[v] \in {"sync", "swap"}
    BY <1>1 DEF CallTypes
  <2>3. QED
    BY <2>1, <2>2, OtherCall DEF Harmless, rootVars, vacuumVars
<1>3. ScanTypes'
  BY DEF Harmless, vacuumVars, ScanTypes
<1>4. QED
  BY <1>1, <1>2, <1>3, HarmlessInv DEF CallInv

(* Staging. *)
LEMMA BeginCore == ASSUME Core, NEW w \in Writers, Begin(w) PROVE Core'
<1> USE DEF Core
<1>1. PICK kept \in SUBSET slots[head] :
         call' = [call EXCEPT ![w] = [base |-> head, segs |-> kept \cup {lastSeg + 1},
                                      new |-> lastSeg + 1, planned |-> FALSE]]
  BY DEF Begin
<1> DEFINE c == [base |-> head, segs |-> kept \cup {lastSeg + 1},
                 new |-> lastSeg + 1, planned |-> FALSE]
<1>2. lastSeg + 1 \in Segs
  BY ConstantsAssumption DEF Begin, StoreTypes, Segs
<1>3. c \in Calls
  <2>1. kept \cup {lastSeg + 1} \in SUBSET Segs
    BY <1>2, Numbers
  <2>2. head \in Seqs
    BY DEF StoreTypes
  <2> HIDE DEF Core
  <2>3. QED
    BY <1>2, <2>1, <2>2 DEF Calls
<1>4. Harmless
  BY DEF Begin, Harmless, objectVars, protectVars, Exists
<1>5. StoreTypes' /\ ProtectTypes'
  BY <1>2 DEF Begin, StoreTypes, ProtectTypes, objectVars, rootVars, protectVars
<1>6. pc'[w] = "lease" /\ call'[w] = c
  BY <1>1 DEF Begin, CallTypes
<1>7. CallOK(w)'
  <2>1. c.new \in Segs /\ c.base = head /\ c.segs \ {c.new} \subseteq slots[head]
    BY <1>2
  <2> HIDE DEF c
  <2>2. QED
    BY <1>6, <2>1, Numbers DEF Begin, CallOK, Publishing, objectVars, rootVars
<1> HIDE DEF c
<1>8. QED
  BY <1>1, <1>3, <1>4, <1>5, <1>7, MoveCore DEF Begin, PCs, c

(* The lease. *)
LEMMA RecordStagedCore == ASSUME Core, NEW w \in Writers, RecordStaged(w) PROVE Core'
<1> USE DEF Core
<1>1. CallOK(w) /\ call[w] \in Calls /\ pc[w] = "lease"
  BY DEF CallInv, CallTypes, RecordStaged
<1>2. Harmless /\ StoreTypes'
  BY DEF RecordStaged, Harmless, objectVars, rootVars, Exists, StoreTypes
<1>3. ProtectTypes'
  <2>1. now + LeaseTtl \in Nat
    BY ConstantsAssumption DEF StoreTypes, Times
  <2>2. [seg |-> call[w].new, until |-> now + LeaseTtl] \in Leases
    BY <1>1, <2>1 DEF CallOK, Leases
  <2>3. QED
    BY <2>2 DEF RecordStaged, ProtectTypes
<1>4. pc' = [pc EXCEPT ![w] = "upload"] /\ call' = [call EXCEPT ![w] = call[w]]
  BY DEF RecordStaged, Goto, CallTypes
<1>5. CallOK(w)'
  BY <1>1, <1>4 DEF CallOK, Publishing, RecordStaged, objectVars, rootVars, CallTypes
<1>6. QED
  BY <1>1, <1>2, <1>3, <1>4, <1>5, MoveCore DEF PCs

(* The upload. *)
LEMMA UploadCore == ASSUME Core, NEW w \in Writers, Upload(w) PROVE Core'
<1> USE DEF Core
<1>1. CallOK(w) /\ call[w] \in Calls /\ pc[w] = "upload"
  BY DEF CallInv, CallTypes, Upload
<1>2. segTime' = [segTime EXCEPT ![call[w].new] = now] /\ now \in Times /\ now # None
  BY ConstantsAssumption DEF Upload, StoreTypes, Times
<1>3. \A i \in Segs : Exists(i) => Exists(i)'
  BY <1>2 DEF Exists, StoreTypes
<1>4. Harmless /\ StoreTypes' /\ ProtectTypes'
  BY <1>2, <1>3 DEF Upload, Harmless, rootVars, protectVars, StoreTypes, ProtectTypes
<1>5. pc' = [pc EXCEPT ![w] = "staged"] /\ call' = [call EXCEPT ![w] = call[w]]
  BY DEF Upload, Goto, CallTypes
<1>6. CallOK(w)'
  BY <1>1, <1>5 DEF CallOK, Publishing, Upload, rootVars, CallTypes
<1>7. QED
  BY <1>1, <1>4, <1>5, <1>6, MoveCore DEF PCs

(* A restore references a version that is retained, hence readable. *)
LEMMA RestoreCore == ASSUME Core, Overlap = FALSE, NEW w \in Writers, Restore(w) PROVE Core'
<1> USE DEF Core
<1>1. PICK v \in floor..head :
         call' = [call EXCEPT ![w] = [base |-> head, segs |-> slots[v], new |-> None,
                                      planned |-> FALSE]]
  BY DEF Restore
<1> DEFINE c == [base |-> head, segs |-> slots[v], new |-> None, planned |-> FALSE]
<1>2. c \in Calls /\ c.base = head /\ c.segs = slots[v]
  <2>1. slots[v] \in SUBSET Segs /\ head \in Seqs
    BY Numbers DEF StoreTypes
  <2>2. QED
    BY <2>1 DEF Calls
<1>3. Harmless /\ StoreTypes' /\ ProtectTypes'
  BY DEF Restore, Harmless, Exists, StoreTypes, ProtectTypes, objectVars, rootVars, protectVars
<1>4. pc'[w] = "commit" /\ call'[w] = c
  BY <1>1 DEF Restore, CallTypes
<1>5. Present(slots[v])'
  BY Numbers DEF Present, Restore, objectVars, Exists
<1> HIDE DEF c
<1>6. CallOK(w)'
  BY <1>2, <1>4, <1>5, Numbers DEF CallOK, Publishing, Restore, MayPublish, objectVars,
     rootVars, vacuumVars, Present, Exists
<1>7. QED
  BY <1>1, <1>2, <1>3, <1>6, MoveCore DEF Restore, PCs, c

(* A commit that conflicts or finds its segment gone ends, with or without *)
(* its lease.                                                              *)
LEMMA AbandonCore ==
    ASSUME Core, NEW w \in Writers, Abandon(w),
           UNCHANGED <<now, objectVars, rootVars, plans, lastSeg, vacuumVars, crashes>>
    PROVE  Core'
<1> USE DEF Core
<1>1. Return(w) /\ leases' \subseteq leases
  BY DEF Abandon, Release
<1>2. Harmless /\ StoreTypes'
  BY DEF Harmless, objectVars, rootVars, Exists, StoreTypes
<1>3. ProtectTypes'
  BY <1>1 DEF ProtectTypes
<1>4. QED
  BY <1>1, <1>2, <1>3, ReturnCore

(* The manifest goes into the slot above HEAD, which no root covers, while *)
(* nobody else is in the section.                                          *)
LEMMA PutManifestCore ==
    ASSUME Core, Overlap = FALSE, NEW w \in Writers, PutManifest(w) PROVE Core'
<1> USE DEF Core
<1>1. CASE head # call[w].base
  BY <1>1, AbandonCore DEF PutManifest, objectVars
<1>2. CASE head = call[w].base
  <2>1. /\ slots' = [slots EXCEPT ![head + 1] = call[w].segs]
        /\ slotTime' = [slotTime EXCEPT ![head + 1] = now]
        /\ pc' = [pc EXCEPT ![w] = "sync"] /\ call' = call /\ leases' = leases
        /\ UNCHANGED <<now, segTime, rootVars, plans, lastSeg, vacuumVars, crashes>>
    BY <1>2 DEF PutManifest, Goto
  <2>2. CallOK(w) /\ call[w] \in Calls /\ pc[w] \in {"staged", "commit"} /\ vpc = "idle"
    BY DEF CallInv, CallTypes, PutManifest, MayPublish, CallOK, Publishing
  <2>3. call[w].segs \in SUBSET Segs /\ call[w].base < MaxSeq /\ head + 1 \in Seqs
    BY <1>2, <2>2, Numbers, ConstantsAssumption DEF CallOK, Calls, Seqs
  <2>4. StoreTypes' /\ ProtectTypes' /\ CallTypes' /\ ScanTypes'
    BY <2>1, <2>3 DEF StoreTypes, ProtectTypes, CallTypes, ScanTypes, rootVars, vacuumVars, PCs
  <2>5. \A s \in floor..head : slots'[s] = slots[s]
    BY <2>1, Numbers DEF StoreTypes
  <2>6. RootInv'
    BY <2>1, <2>5, Numbers DEF RootInv, RetainedReadable, Readable, Present, Exists, rootVars
  <2>7. ScanInv'
    BY <2>1, <2>2 DEF ScanInv, vacuumVars
  <2>8. Present(call[w].segs \ {call[w].new})
    <3>1. CASE pc[w] = "staged"
      BY <1>2, <2>2, <3>1, Numbers DEF CallOK, Present
    <3>2. CASE pc[w] = "commit"
      BY <2>2, <3>2 DEF CallOK, Present
    <3>3. QED
      BY <2>2, <3>1, <3>2
  <2>9. \A u \in Writers : u # w => pc[u] \notin {"sync", "swap"} /\ pc'[u] = pc[u]
    BY <2>1 DEF PutManifest, Conflict, CallTypes
  <2>10. CallOK(w)'
    <3>1. pc'[w] = "sync" /\ call'[w] = call[w] /\ slots'[head + 1] = call[w].segs
      BY <2>1, <2>3 DEF CallTypes, StoreTypes
    <3>2. Present(call[w].segs \ {call[w].new})'
      BY <2>1, <2>8 DEF Present, Exists
    <3>3. QED
      BY <1>2, <2>1, <2>2, <2>3, <2>9, <3>1, <3>2, Numbers
         DEF CallOK, Publishing, rootVars, vacuumVars
  <2>11. ASSUME NEW u \in Writers, u # w PROVE CallOK(u)'
    <3>1. slots'[head] = slots[head]
      BY <2>5, Numbers
    <3>2. QED
      BY <2>1, <2>9, <2>11, <3>1, OtherCall DEF rootVars, vacuumVars, Exists
  <2>12. QED
    BY <2>4, <2>6, <2>7, <2>10, <2>11 DEF CallInv
<1>3. QED
  BY <1>1, <1>2

(* The fsync proves the new segment is there. *)
LEMMA SyncObjectsCore == ASSUME Core, NEW w \in Writers, SyncObjects(w) PROVE Core'
<1> USE DEF Core
<1>1. CASE Abandon(w)
  BY <1>1, AbandonCore DEF SyncObjects
<1>2. CASE ~Abandon(w)
  <2>1. /\ call[w].new # None => Exists(call[w].new)
        /\ Goto(w, "swap") /\ leases' = leases
    BY <1>2 DEF SyncObjects
  <2>2. CallOK(w) /\ call[w] \in Calls /\ pc[w] = "sync"
    BY DEF CallInv, CallTypes, SyncObjects
  <2>3. Harmless /\ StoreTypes' /\ ProtectTypes'
    BY <2>1 DEF SyncObjects, Harmless, objectVars, rootVars, Exists, StoreTypes, ProtectTypes
  <2>4. pc' = [pc EXCEPT ![w] = "swap"] /\ call' = [call EXCEPT ![w] = call[w]]
    BY <2>1 DEF Goto, CallTypes
  <2>5. Present(call[w].segs)
    <3>1. call[w].segs \in SUBSET Segs /\ None \notin Segs
      BY <2>2, ConstantsAssumption DEF Calls, Segs
    <3>2. QED
      BY <2>1, <2>2, <3>1 DEF CallOK, Present
  <2>6. pc'[w] = "swap" /\ call'[w] = call[w]
        /\ \A u \in Writers : u # w => pc'[u] = pc[u]
    BY <2>4 DEF CallTypes
  <2>7. CallOK(w)'
    BY <2>2, <2>5, <2>6 DEF CallOK, Publishing, SyncObjects, objectVars, rootVars, vacuumVars,
       Present, Exists
  <2>8. QED
    BY <2>2, <2>3, <2>4, <2>7, MoveCore DEF PCs
<1>3. QED
  BY <1>1, <1>2

(* The swap makes a readable version HEAD while vacuum is not running.     *)
LEMMA SwapHeadCore == ASSUME Core, NEW w \in Writers, SwapHead(w) PROVE Core'
<1> USE DEF Core
<1> DEFINE c == [NoCall EXCEPT !.new = call[w].new, !.planned = call[w].planned]
<1>1. CallOK(w) /\ call[w] \in Calls /\ pc[w] = "swap" /\ vpc = "idle"
  BY DEF CallInv, CallTypes, SwapHead, CallOK, Publishing
<1>2. /\ head = call[w].base /\ head < MaxSeq /\ slots[head + 1] = call[w].segs
      /\ Present(call[w].segs) /\ call[w].segs \in SUBSET Segs
      /\ \A u \in Writers \ {w} : pc[u] \notin {"sync", "swap"}
  BY <1>1 DEF CallOK, Calls
<1>3. c \in Calls
  BY <1>1, DefaultTypes DEF Calls, NoCall
<1>4. head' \in Seqs /\ head' = head + 1
  BY <1>2, Numbers, ConstantsAssumption DEF SwapHead, Seqs
<1>5. StoreTypes' /\ ProtectTypes' /\ CallTypes' /\ ScanTypes'
  <2>1. StoreTypes' /\ ProtectTypes'
    BY <1>4 DEF SwapHead, StoreTypes, ProtectTypes, objectVars, protectVars
  <2>2. CallTypes' /\ ScanTypes'
    BY <1>3 DEF SwapHead, CallTypes, ScanTypes, vacuumVars, PCs
  <2>3. QED
    BY <2>1, <2>2
<1>6. RootInv'
  <2>1. \A s \in floor..(head + 1) : s \in floor..head \/ s = head + 1
    BY Numbers
  <2>2. \A s \in floor..(head + 1) : slots[s] # None /\ Present(slots[s])
    BY <1>2, <2>1, Numbers, ConstantsAssumption
  <2>3. \A s \in floor..(head + 1) : Readable(s)'
    BY <2>2 DEF SwapHead, objectVars, Readable, Present, Exists
  <2>4. floor' = floor /\ pins' = pins /\ plans' = plans
    BY DEF SwapHead, protectVars
  <2>5. pins \subseteq floor..(head + 1) /\ floor <= head + 1
    BY Numbers DEF RootInv
  <2>6. QED
    BY <1>4, <2>3, <2>4, <2>5 DEF RootInv, RetainedReadable
<1>7. ScanInv'
  BY <1>1 DEF ScanInv, SwapHead, vacuumVars
<1>8. ASSUME NEW u \in Writers PROVE CallOK(u)'
  <2>1. CASE u = w
    BY <1>1, <2>1 DEF SwapHead, CallOK, Publishing, CallTypes, vacuumVars
  <2>2. CASE u # w
    <3>1. pc'[u] = pc[u] /\ call'[u] = call[u] /\ CallOK(u) /\ pc[u] \notin {"sync", "swap"}
      BY <1>2, <2>2 DEF SwapHead, CallTypes, CallInv
    <3>2. call[u].base \in Nat /\ (pc[u] \in {"lease", "upload", "staged", "commit"} =>
             call[u].base <= head)
      BY <3>1 DEF CallOK, CallTypes, Calls, Seqs
    <3>3. QED
      BY <1>4, <3>1, <3>2, Numbers DEF SwapHead, CallOK, Publishing, Present, Exists,
         objectVars, vacuumVars
  <2>3. QED
    BY <2>1, <2>2
<1>9. QED
  BY <1>5, <1>6, <1>7, <1>8 DEF CallInv

(* A committed call ends without its lease or its plan. *)
LEMMA ReleaseStagingCore == ASSUME Core, NEW w \in Writers, ReleaseStaging(w) PROVE Core'
<1> USE DEF Core
<1>1. leases' \subseteq leases /\ plans' \subseteq plans
  BY DEF ReleaseStaging, Release
<1>2. Harmless /\ StoreTypes' /\ ProtectTypes'
  BY <1>1 DEF ReleaseStaging, Harmless, objectVars, rootVars, Exists, StoreTypes, ProtectTypes
<1>3. QED
  BY <1>2, ReturnCore DEF ReleaseStaging

-----------------------------------------------------------------------------
(***************************************************************************)
(* Plans.                                                                  *)
(***************************************************************************)
(* A plan is stored while vacuum is not running. *)
LEMMA StorePlanCore ==
    ASSUME Core, Overlap = FALSE, NEW w \in Writers, StorePlan(w) PROVE Core'
<1> USE DEF Core
<1> DEFINE p == [base |-> call[w].base, segs |-> call[w].segs, new |-> call[w].new,
                 until |-> now + PlanTtl]
<1>1. CallOK(w) /\ call[w] \in Calls /\ pc[w] = "staged" /\ vpc = "idle"
  BY DEF CallInv, CallTypes, StorePlan, MayPublish
<1>2. p \in Plans /\ p.base < MaxSeq
  <2>1. now + PlanTtl \in Nat
    BY ConstantsAssumption DEF StoreTypes, Times
  <2>2. call[w].new \in Segs /\ call[w].base \in Seqs /\ call[w].segs \in SUBSET Segs
        /\ call[w].base < MaxSeq
    BY <1>1 DEF CallOK, Calls
  <2>3. QED
    BY <2>1, <2>2 DEF Plans
<1>3. plans' = plans \cup {p}
  BY DEF StorePlan
<1> HIDE DEF p
<1>4. Harmless /\ StoreTypes' /\ ProtectTypes'
  BY <1>1, <1>2, <1>3 DEF StorePlan, Harmless, objectVars, rootVars, Exists, StoreTypes,
     ProtectTypes
<1>5. pc' = [pc EXCEPT ![w] = "planned"] /\ call' = [call EXCEPT ![w] = call[w]]
  BY DEF StorePlan, Goto, CallTypes
<1>6. CallOK(w)'
  BY <1>1, <1>5 DEF CallOK, Publishing, StorePlan, rootVars, CallTypes, vacuumVars
<1>7. QED
  BY <1>1, <1>4, <1>5, <1>6, MoveCore DEF PCs

(* The lease of a stored plan. *)
LEMMA DropLeaseCore == ASSUME Core, NEW w \in Writers, DropLease(w) PROVE Core'
<1> USE DEF Core
<1>1. leases' \subseteq leases
  BY DEF DropLease, Release
<1>2. Harmless /\ StoreTypes' /\ ProtectTypes'
  BY <1>1 DEF DropLease, Harmless, objectVars, rootVars, Exists, StoreTypes, ProtectTypes
<1>3. QED
  BY <1>2, ReturnCore DEF DropLease

(* A plan is applied after its segments were found. *)
LEMMA ApplyPlanCore ==
    ASSUME Core, Overlap = FALSE, NEW w \in Writers, ApplyPlan(w) PROVE Core'
<1> USE DEF Core
<1>1. PICK p \in plans :
         /\ Present(p.segs) /\ head = p.base
         /\ call' = [call EXCEPT ![w] = [base |-> p.base, segs |-> p.segs, new |-> p.new,
                                         planned |-> TRUE]]
  BY DEF ApplyPlan
<1> DEFINE c == [base |-> p.base, segs |-> p.segs, new |-> p.new, planned |-> TRUE]
<1>2. c \in Calls /\ c.base = head /\ c.segs = p.segs /\ head < MaxSeq
  BY <1>1 DEF ProtectTypes, Plans, Calls, RootInv
<1>3. Harmless /\ StoreTypes' /\ ProtectTypes'
  BY DEF ApplyPlan, Harmless, Exists, StoreTypes, ProtectTypes, objectVars, rootVars, protectVars
<1>4. pc'[w] = "commit" /\ call'[w] = c
  BY <1>1 DEF ApplyPlan, CallTypes
<1> HIDE DEF c
<1>5. CallOK(w)'
  BY <1>1, <1>2, <1>4, Numbers DEF CallOK, Publishing, ApplyPlan, MayPublish, objectVars,
     rootVars, vacuumVars, Present, Exists
<1>6. QED
  BY <1>1, <1>2, <1>3, <1>5, MoveCore DEF ApplyPlan, PCs, c

-----------------------------------------------------------------------------
(***************************************************************************)
(* Steps of the roots, of vacuum and of the environment.                   *)
(***************************************************************************)
(* Calls that do not move keep what they know when the objects stay, or    *)
(* when none of them is publishing.                                        *)
LEMMA QuietCalls ==
    ASSUME Core, UNCHANGED <<callVars, head>>, slots'[head] = slots[head],
           \/ vpc' \in {vpc, "idle"} /\ UNCHANGED <<slots, segTime>>
           \/ \A w \in Writers : ~Publishing(w)
    PROVE  CallTypes' /\ CallInv'
<1> USE DEF Core, callVars
<1>1. CallTypes'
  BY DEF CallTypes
<1>2. ASSUME NEW u \in Writers PROVE CallOK(u)'
  <2>1. CallOK(u)
    BY DEF CallInv
  <2>2. CASE vpc' \in {vpc, "idle"} /\ UNCHANGED <<slots, segTime>>
    BY <2>1, <2>2 DEF CallOK, Publishing, Present, Exists
  <2>3. CASE ~Publishing(u)
    BY <2>1, <2>3 DEF CallOK, Publishing
  <2>4. QED
    BY <2>2, <2>3
<1>3. QED
  BY <1>1, <1>2 DEF CallInv

(* While vacuum runs nobody is publishing. *)
LEMMA VacuumAlone == ASSUME Core, vpc # "idle" PROVE \A w \in Writers : ~Publishing(w)
BY DEF Core, CallInv, CallOK

(* A plan is dropped, the clock moves. *)
LEMMA DiscardPlanCore == ASSUME Core, DiscardPlan PROVE Core'
<1> USE DEF Core
<1>1. Harmless /\ StoreTypes' /\ ProtectTypes' /\ ScanTypes'
  BY DEF DiscardPlan, Harmless, Exists, StoreTypes, ProtectTypes, ScanTypes, objectVars, rootVars,
     vacuumVars
<1>2. CallTypes' /\ CallInv'
  BY QuietCalls DEF DiscardPlan, objectVars, rootVars, vacuumVars
<1>3. QED
  BY <1>1, <1>2, HarmlessInv

(* Time passes: leases and plans may run out. *)
LEMMA TickCore == ASSUME Core, Tick PROVE Core'
<1> USE DEF Core
<1>1. StoreTypes' /\ ProtectTypes' /\ ScanTypes'
  BY ConstantsAssumption DEF Tick, StoreTypes, ProtectTypes, ScanTypes, objectVars, rootVars,
     protectVars, vacuumVars, Times
<1>2. CallTypes' /\ CallInv'
  BY QuietCalls DEF Tick, objectVars, rootVars, vacuumVars
<1>3. RootInv'
  BY DEF RootInv, RetainedReadable, Readable, Present, Exists, Tick, objectVars, rootVars,
     protectVars
<1>4. now \in Nat /\ \A p \in plans : p.until \in Nat
  BY DEF StoreTypes, Times, ProtectTypes, Plans
<1>5. ScanInv'
  BY <1>4 DEF ScanInv, Covers, Tick, objectVars, rootVars, protectVars, vacuumVars
<1>6. QED
  BY <1>1, <1>2, <1>3, <1>5

(* The floor rises, but not past a snapshot. *)
LEMMA SetRetentionCore == ASSUME Core, SetRetention PROVE Core'
<1> USE DEF Core
<1>1. PICK target \in floor + 1..head : (\A p \in pins : p >= target) /\ floor' = target
  BY DEF SetRetention
<1>2. floor' \in Nat /\ floor < floor' /\ floor' <= head /\ floor' \in Seqs
      /\ \A s \in floor'..head : s \in floor..head
  BY <1>1, Numbers DEF Seqs
<1>3. StoreTypes' /\ ProtectTypes' /\ ScanTypes'
  BY <1>2 DEF SetRetention, StoreTypes, ProtectTypes, ScanTypes, objectVars, protectVars,
     vacuumVars
<1>4. CallTypes' /\ CallInv'
  BY QuietCalls DEF SetRetention, objectVars, vacuumVars
<1>5. pins \subseteq floor'..head
  BY <1>1, <1>2, Numbers DEF RootInv
<1>6. RootInv'
  BY <1>2, <1>5 DEF RootInv, RetainedReadable, Readable, Present, Exists, SetRetention, objectVars,
     protectVars
<1>7. scan.floor \in Nat
  BY DEF ScanTypes, Scans, Seqs
<1>8. scan.floor <= floor => scan.floor <= floor'
  BY <1>2, <1>7, Numbers
<1>9. ScanInv'
  BY <1>2, <1>8 DEF ScanInv, Covers, SetRetention, objectVars, protectVars, vacuumVars
<1>10. QED
  BY <1>3, <1>4, <1>6, <1>9

(* Snapshots pin HEAD. *)
LEMMA CreateSnapshotCore == ASSUME Core, CreateSnapshot PROVE Core'
<1> USE DEF Core
<1>1. StoreTypes' /\ ProtectTypes' /\ ScanTypes'
  BY DEF CreateSnapshot, StoreTypes, ProtectTypes, ScanTypes, objectVars, protectVars, vacuumVars
<1>2. CallTypes' /\ CallInv'
  BY QuietCalls DEF CreateSnapshot, objectVars, vacuumVars
<1>3. RootInv' /\ ScanInv'
  BY Numbers DEF RootInv, RetainedReadable, Readable, Present, Exists, CreateSnapshot, objectVars,
     protectVars, ScanInv, Covers, vacuumVars
<1>4. QED
  BY <1>1, <1>2, <1>3

(* A deleted snapshot pins less. *)
LEMMA DeleteSnapshotCore == ASSUME Core, DeleteSnapshot PROVE Core'
<1> USE DEF Core
<1>1. pins' \subseteq pins
  BY DEF DeleteSnapshot
<1>2. StoreTypes' /\ ProtectTypes' /\ ScanTypes'
  BY <1>1 DEF DeleteSnapshot, StoreTypes, ProtectTypes, ScanTypes, objectVars, protectVars,
     vacuumVars
<1>3. CallTypes' /\ CallInv'
  BY QuietCalls DEF DeleteSnapshot, objectVars, vacuumVars
<1>4. RootInv' /\ ScanInv'
  BY <1>1, Numbers DEF RootInv, RetainedReadable, Readable, Present, Exists, DeleteSnapshot,
     objectVars, protectVars, ScanInv, Covers, vacuumVars
<1>5. QED
  BY <1>2, <1>3, <1>4

(* Where vacuum only reads, its own state is all that changes. *)
LEMMA VacuumReads ==
    ASSUME Core, UNCHANGED <<now, objectVars, rootVars, protectVars, callVars, lastSeg, crashes>>,
           ScanTypes', ScanInv',
           vpc' = "idle" \/ \A w \in Writers : ~Publishing(w)
    PROVE  Core'
<1> USE DEF Core
<1>1. StoreTypes' /\ ProtectTypes'
  BY DEF StoreTypes, ProtectTypes, objectVars, rootVars, protectVars
<1>2. CallTypes' /\ CallInv'
  BY QuietCalls DEF objectVars, rootVars
<1>3. RootInv'
  BY DEF RootInv, RetainedReadable, Readable, Present, Exists, objectVars, rootVars, protectVars
<1>4. QED
  BY <1>1, <1>2, <1>3

(* Vacuum starts from every retained manifest. *)
LEMMA VacuumStartCore == ASSUME Core, Overlap = FALSE, VacuumStart PROVE Core'
<1> USE DEF Core
<1> DEFINE ref == UNION {slots[s] : s \in floor..head}
           v == [NoScan EXCEPT !.now = now, !.head = head, !.floor = floor, !.ref = ref]
<1>1. ref \in SUBSET Segs /\ \A s \in floor..head : slots[s] \subseteq ref
  BY Numbers
<1>2. now \in Times /\ head \in Seqs /\ floor \in Seqs
  BY DEF StoreTypes
<1>3. scan' = v
  BY DEF VacuumStart
<1> HIDE DEF ref
<1>4. v \in Scans /\ v.ref = ref /\ v.head = head /\ v.floor = floor
  BY <1>1, <1>2, DefaultTypes DEF Scans, NoScan
<1> HIDE DEF v
<1>5. ScanTypes'
  BY <1>3, <1>4 DEF ScanTypes, VacuumStart, VPCs
<1>6. ScanInv'
  BY <1>1, <1>3, <1>4, Numbers DEF ScanInv, Covers, VacuumStart, objectVars, rootVars
<1>7. QED
  BY <1>5, <1>6, VacuumReads DEF VacuumStart

(* It adds the segments of the live plans, *)
LEMMA VacuumPlansCore == ASSUME Core, VacuumPlans PROVE Core'
<1> USE DEF Core
<1> DEFINE more == UNION {p.segs : p \in {q \in plans : now <= q.until}}
<1>1. more \in SUBSET Segs /\ \A p \in plans : now <= p.until => p.segs \subseteq more
  BY DEF ProtectTypes, Plans
<1>2. scan' = [scan EXCEPT !.ref = @ \cup more] /\ vpc = "plans" /\ vpc' = "leases"
  BY DEF VacuumPlans
<1> HIDE DEF more
<1>3. /\ scan' \in Scans /\ scan'.ref = scan.ref \cup more
      /\ scan'.head = scan.head /\ scan'.floor = scan.floor
  BY <1>1, <1>2 DEF ScanTypes, Scans
<1>4. ScanTypes'
  BY <1>2, <1>3 DEF ScanTypes, VPCs
<1>5. ScanInv'
  BY <1>1, <1>2, <1>3 DEF ScanInv, Covers, VacuumPlans, objectVars, rootVars, protectVars
<1>6. QED
  BY <1>2, <1>4, <1>5, VacuumReads, VacuumAlone DEF VacuumPlans

(* and those of the live leases. *)
LEMMA VacuumLeasesCore == ASSUME Core, VacuumLeases PROVE Core'
<1> USE DEF Core
<1> DEFINE more == {l.seg : l \in {k \in leases : now <= k.until}}
           gone == {l \in leases : now > l.until}
<1>1. more \in SUBSET Segs /\ gone \in SUBSET Leases
  BY DEF ProtectTypes, Leases
<1>2. scan' = [scan EXCEPT !.ref = @ \cup more, !.old = gone] /\ vpc = "leases" /\ vpc' = "list"
  BY DEF VacuumLeases
<1> HIDE DEF more, gone
<1>3. /\ scan' \in Scans /\ scan'.ref = scan.ref \cup more
      /\ scan'.head = scan.head /\ scan'.floor = scan.floor
  BY <1>1, <1>2 DEF ScanTypes, Scans
<1>4. ScanTypes'
  BY <1>2, <1>3 DEF ScanTypes, VPCs
<1>5. ScanInv'
  BY <1>2, <1>3 DEF ScanInv, Covers, VacuumLeases, objectVars, rootVars, protectVars
<1>6. QED
  BY <1>2, <1>4, <1>5, VacuumReads, VacuumAlone DEF VacuumLeases

(* What it lists for deletion is outside of all that. *)
LEMMA VacuumListCore == ASSUME Core, VacuumList PROVE Core'
<1> USE DEF Core
<1> DEFINE segs == {i \in Segs : Exists(i) /\ Aged(segTime[i]) /\ i \notin scan.ref}
           dead == {s \in Seqs : /\ slots[s] # None
                                 /\ Aged(slotTime[s])
                                 /\ s > scan.head \/ s < scan.floor}
           old == {l \in scan.old : Aged(l.until - LeaseTtl)}
<1>1. segs \in SUBSET Segs /\ dead \in SUBSET Seqs /\ old \in SUBSET Leases
  BY DEF ScanTypes, Scans
<1>2. /\ scan' = [NoScan EXCEPT !.deadSegs = segs, !.deadSlots = dead, !.deadLeases = old]
      /\ vpc = "list" /\ vpc' = "delete"
  BY DEF VacuumList
<1>3. scan.head = head /\ scan.floor <= floor /\ scan.floor \in Nat
  BY <1>2 DEF ScanInv, ScanTypes, Scans, Seqs
<1>4. dead \cap (floor..head) = {}
  <2>1. ASSUME NEW s \in floor..head PROVE ~(s > scan.head \/ s < scan.floor)
    BY <1>3, Numbers
  <2>2. QED
    BY <2>1
<1>5. Covers(scan.ref)
  BY <1>2 DEF ScanInv
<1>6. \A x \in SUBSET Segs : x \subseteq scan.ref => x \subseteq Segs \ segs
  OBVIOUS
<1> HIDE DEF segs, dead, old
<1>7. scan' \in Scans /\ scan'.deadSegs = segs /\ scan'.deadSlots = dead
  BY <1>1, <1>2, DefaultTypes DEF NoScan, Scans
<1>8. ScanTypes'
  BY <1>2, <1>7 DEF ScanTypes, VPCs
<1>9. /\ \A s \in floor..head : slots[s] \subseteq Segs \ segs
      /\ \A p \in plans : now <= p.until => p.segs \subseteq Segs \ segs
  BY <1>2, <1>5, <1>6, Numbers DEF Covers, ProtectTypes, Plans
<1>10. ScanInv'
  <2>1. Covers(Segs \ scan.deadSegs)'
    BY <1>7, <1>9 DEF Covers, VacuumList, objectVars, rootVars, protectVars
  <2>2. QED
    BY <1>2, <1>4, <1>7, <2>1 DEF ScanInv, VacuumList, rootVars
<1>11. QED
  BY <1>2, <1>8, <1>10, VacuumReads, VacuumAlone DEF VacuumList

(* A deletion takes a segment, a slot or a lease nothing depends on.       *)
LEMMA VacuumDeleteCore == ASSUME Core, VacuumDelete PROVE Core'
<1> USE DEF Core
<1>1. /\ vpc = "delete" /\ vpc' = vpc
      /\ UNCHANGED <<now, rootVars, plans, callVars, lastSeg, vpc, crashes>>
  BY DEF VacuumDelete
<1>2. /\ \A s \in floor..head : slots[s] \subseteq Segs \ scan.deadSegs
      /\ \A p \in plans : now <= p.until => p.segs \subseteq Segs \ scan.deadSegs
      /\ scan.deadSlots \cap (floor..head) = {}
  BY <1>1 DEF ScanInv, Covers
<1>3. scan \in Scans
  BY DEF ScanTypes
<1>4. CASE \E i \in scan.deadSegs :
             /\ segTime' = [segTime EXCEPT ![i] = None]
             /\ scan' = [scan EXCEPT !.deadSegs = @ \ {i}]
             /\ UNCHANGED <<slots, slotTime, leases>>
  <2>1. PICK i \in scan.deadSegs :
             /\ segTime' = [segTime EXCEPT ![i] = None]
             /\ scan' = [scan EXCEPT !.deadSegs = @ \ {i}]
             /\ UNCHANGED <<slots, slotTime, leases>>
    BY <1>4
  <2>2. StoreTypes' /\ ProtectTypes'
    BY <1>1, <2>1 DEF StoreTypes, ProtectTypes, rootVars
  <2>3. scan' \in Scans /\ scan'.deadSegs = scan.deadSegs \ {i}
        /\ scan'.deadSlots = scan.deadSlots
    BY <1>3, <2>1 DEF Scans
  <2>4. ScanTypes'
    BY <1>1, <2>3 DEF ScanTypes
  <2>5. CallTypes' /\ CallInv'
    BY <1>1, <2>1, QuietCalls, VacuumAlone DEF rootVars
  <2>6. \A s \in floor..head : \A j \in slots[s] : Exists(j)'
    BY <1>2, <2>1, Numbers DEF Present, Exists, StoreTypes
  <2>7. RootInv'
    BY <1>1, <2>1, <2>6 DEF RootInv, RetainedReadable, Readable, Present, rootVars
  <2>8. ScanInv'
    BY <1>1, <1>2, <2>1, <2>3 DEF ScanInv, Covers, rootVars
  <2>9. QED
    BY <2>2, <2>4, <2>5, <2>7, <2>8
<1>5. CASE \E s \in scan.deadSlots :
             /\ slots' = [slots EXCEPT ![s] = None]
             /\ slotTime' = [slotTime EXCEPT ![s] = 0]
             /\ scan' = [scan EXCEPT !.deadSlots = @ \ {s}]
             /\ UNCHANGED <<segTime, leases>>
  <2>1. PICK s \in scan.deadSlots :
             /\ slots' = [slots EXCEPT ![s] = None]
             /\ slotTime' = [slotTime EXCEPT ![s] = 0]
             /\ scan' = [scan EXCEPT !.deadSlots = @ \ {s}]
             /\ UNCHANGED <<segTime, leases>>
    BY <1>5
  <2>2. StoreTypes' /\ ProtectTypes'
    BY <1>1, <2>1, DefaultTypes DEF StoreTypes, ProtectTypes, rootVars
  <2>3. scan' \in Scans /\ scan'.deadSegs = scan.deadSegs
        /\ scan'.deadSlots = scan.deadSlots \ {s}
    BY <1>3, <2>1 DEF Scans
  <2>4. ScanTypes'
    BY <1>1, <2>3 DEF ScanTypes
  <2>5. \A t \in floor..head : slots'[t] = slots[t]
    BY <1>2, <2>1, Numbers DEF StoreTypes
  <2>6. CallTypes' /\ CallInv'
    BY <1>1, <2>5, QuietCalls, VacuumAlone, Numbers DEF rootVars
  <2>7. RootInv'
    BY <1>1, <2>1, <2>5, Numbers DEF RootInv, RetainedReadable, Readable, Present, Exists, rootVars
  <2>8. ScanInv'
    BY <1>1, <1>2, <2>1, <2>3, <2>5 DEF ScanInv, Covers, rootVars
  <2>9. QED
    BY <2>2, <2>4, <2>6, <2>7, <2>8
<1>6. CASE \E l \in scan.deadLeases :
             /\ leases' = leases \ {l}
             /\ scan' = [scan EXCEPT !.deadLeases = @ \ {l}]
             /\ UNCHANGED objectVars
  <2>1. PICK l \in scan.deadLeases :
             /\ leases' = leases \ {l}
             /\ scan' = [scan EXCEPT !.deadLeases = @ \ {l}]
             /\ UNCHANGED objectVars
    BY <1>6
  <2>2. StoreTypes' /\ ProtectTypes'
    BY <1>1, <2>1 DEF StoreTypes, ProtectTypes, rootVars, objectVars
  <2>3. scan' \in Scans /\ scan'.deadSegs = scan.deadSegs /\ scan'.deadSlots = scan.deadSlots
    BY <1>3, <2>1 DEF Scans
  <2>4. ScanTypes'
    BY <1>1, <2>3 DEF ScanTypes
  <2>5. CallTypes' /\ CallInv'
    BY <1>1, <2>1, QuietCalls DEF rootVars, objectVars
  <2>6. RootInv'
    BY <1>1, <2>1 DEF RootInv, RetainedReadable, Readable, Present, Exists, rootVars, objectVars
  <2>7. ScanInv'
    BY <1>1, <1>2, <2>1, <2>3 DEF ScanInv, Covers, rootVars, objectVars
  <2>8. QED
    BY <2>2, <2>4, <2>5, <2>6, <2>7
<1>7. QED
  BY <1>4, <1>5, <1>6 DEF VacuumDelete

(* Vacuum ends. *)
LEMMA VacuumDoneCore == ASSUME Core, VacuumDone PROVE Core'
<1>1. ScanTypes' /\ ScanInv'
  BY DefaultTypes DEF VacuumDone, ScanTypes, ScanInv, VPCs
<1>2. QED
  BY <1>1, VacuumReads DEF VacuumDone

(* A call or vacuum dies. *)
LEMMA CrashCore == ASSUME Core, Crash PROVE Core'
<1> USE DEF Core
<1>1. StoreTypes' /\ ProtectTypes'
  BY ConstantsAssumption DEF Crash, StoreTypes, ProtectTypes, objectVars, rootVars, protectVars
<1>2. CASE \E w \in Writers : Return(w) /\ UNCHANGED vacuumVars
  <2>1. Harmless
    BY <1>2 DEF Crash, Harmless, Exists, objectVars, rootVars, protectVars
  <2>2. QED
    BY <1>1, <1>2, <2>1, ReturnCore
<1>3. CASE vpc' = "idle" /\ scan' = NoScan /\ UNCHANGED callVars
  <2>1. ScanTypes' /\ ScanInv'
    BY <1>3, DefaultTypes DEF ScanTypes, ScanInv, VPCs
  <2>2. CallTypes' /\ CallInv'
    BY <1>3, QuietCalls DEF Crash, objectVars, rootVars
  <2>3. RootInv'
    BY DEF Crash, RootInv, RetainedReadable, Readable, Present, Exists, objectVars, rootVars,
       protectVars
  <2>4. QED
    BY <1>1, <2>1, <2>2, <2>3
<1>4. QED
  BY <1>2, <1>3 DEF Crash

-----------------------------------------------------------------------------
(***************************************************************************)
(* The theorems.                                                           *)
(***************************************************************************)
(* Every step keeps the invariant. *)
LEMMA NextCore == ASSUME Core, Overlap = FALSE, [Next]_vars PROVE Core'
<1>1. ASSUME NEW w \in Writers, WriterStep(w) PROVE Core'
  BY <1>1, BeginCore, RecordStagedCore, UploadCore, RestoreCore, PutManifestCore, SyncObjectsCore,
     SwapHeadCore, ReleaseStagingCore, StorePlanCore, DropLeaseCore, ApplyPlanCore DEF WriterStep
<1>2. CASE VacuumStep
  BY <1>2, VacuumStartCore, VacuumPlansCore, VacuumLeasesCore, VacuumListCore, VacuumDeleteCore,
     VacuumDoneCore DEF VacuumStep
<1>3. CASE DiscardPlan \/ SetRetention \/ CreateSnapshot \/ DeleteSnapshot \/ Crash \/ Tick
  BY <1>3, DiscardPlanCore, SetRetentionCore, CreateSnapshotCore, DeleteSnapshotCore, CrashCore,
     TickCore
<1>4. CASE UNCHANGED vars
  BY <1>4 DEF vars, objectVars, rootVars, protectVars, callVars, vacuumVars, Core, StoreTypes,
     ProtectTypes, CallTypes, ScanTypes, RootInv, RetainedReadable, Readable, Present, Exists,
     CallInv, CallOK, Publishing, ScanInv, Covers
<1>5. QED
  BY <1>1, <1>2, <1>3, <1>4 DEF Next

(* The invariant always holds where vacuum and publishing do not overlap.  *)
THEOREM CoreHolds == ASSUME Overlap = FALSE PROVE Spec => []Core
<1>1. Init => Core
  BY InitCore
<1>2. Core /\ [Next]_vars => Core'
  BY NextCore
<1>3. QED
  BY <1>1, <1>2, PTL DEF Spec

(* Every variable of the reclamation model keeps its type. *)
THEOREM TypeCorrect == ASSUME Overlap = FALSE PROVE Spec => []TypeOK
<1>1. Core => TypeOK
  BY TypeParts DEF Core
<1>2. QED
  BY <1>1, CoreHolds, PTL

(* vacuum never deletes an object a retained version needs, whatever       *)
(* writers staged, planned, restored or crashed over.                      *)
THEOREM RetainedStays == ASSUME Overlap = FALSE PROVE Spec => []RetainedReadable
<1>1. Core => RetainedReadable
  BY DEF Core, RootInv
<1>2. QED
  BY <1>1, CoreHolds, PTL

(* A snapshot's version stays readable: set_retention does not pass it and *)
(* vacuum does not reach it.                                               *)
THEOREM SnapshotStays == ASSUME Overlap = FALSE PROVE Spec => []SnapshotReadable
<1>1. Core => SnapshotReadable
  BY DEF Core, RootInv, RetainedReadable, SnapshotReadable
<1>2. QED
  BY <1>1, CoreHolds, PTL

(* Segments disappear in vacuum's deletions only, and those spare the      *)
(* segments of a plan that has not expired.                                *)
LEMMA PlanStep ==
    ASSUME Core, [Next]_vars, NEW p \in plans \cap plans', Present(p.segs), now' <= p.until
    PROVE  Present(p.segs)'
<1>1. now \in Nat /\ p.segs \in SUBSET Segs
  BY DEF Core, StoreTypes, ProtectTypes, Times, Plans
<1>2. CASE VacuumDelete
  <2>1. p.segs \subseteq Segs \ scan.deadSegs /\ now' = now
    BY <1>2 DEF Core, ScanInv, Covers, VacuumDelete
  <2>2. QED
    BY <1>1, <1>2, <2>1 DEF VacuumDelete, Present, Exists, objectVars, Core, StoreTypes
<1>3. CASE ~VacuumDelete
  <2>1. CASE segTime' = segTime
    BY <2>1 DEF Present, Exists
  <2>2. CASE segTime' # segTime
    <3>1. PICK w \in Writers : Upload(w)
      BY <1>3, <2>2 DEF Next, WriterStep, VacuumStep, Begin, RecordStaged, Restore, PutManifest,
         SyncObjects, SwapHead, ReleaseStaging, StorePlan, DropLease, ApplyPlan, DiscardPlan,
         SetRetention, CreateSnapshot, DeleteSnapshot, VacuumStart, VacuumPlans, VacuumLeases,
         VacuumList, VacuumDone, Crash, Tick, objectVars, vars
    <3>2. now # None
      BY <1>1, ConstantsAssumption
    <3>3. QED
      BY <1>1, <3>1, <3>2 DEF Upload, Present, Exists, Core, StoreTypes
  <2>3. QED
    BY <2>1, <2>2
<1>4. QED
  BY <1>2, <1>3

(* What apply_plan could publish it still can: vacuum takes no segment of  *)
(* a live plan.                                                            *)
THEOREM PlansStay == ASSUME Overlap = FALSE PROVE Spec => PlanKept
<1>1. Core /\ [Next]_vars =>
         [\A p \in plans \cap plans' :
             Present(p.segs) /\ now' <= p.until => Present(p.segs)']_vars
  BY PlanStep
<1>2. QED
  BY <1>1, CoreHolds, PTL DEF Spec, PlanKept
=============================================================================
