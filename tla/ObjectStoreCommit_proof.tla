----------------------- MODULE ObjectStoreCommit_proof -----------------------
(***************************************************************************)
(* Proofs about ObjectStoreCommit, for every set of writers, calls and     *)
(* schemas and every value of the bounds.                                  *)
(***************************************************************************)
EXTENDS ObjectStoreCommit, TLAPS

(* The values variables are reset to are well typed. *)
LEMMA DefaultTypes ==
    /\ Head0 \in Heads /\ Head0.seq = 0 /\ Head0.sum = 0
    /\ Version0 \in Manifests
    /\ NoCall \in Requests
    /\ NoScan \in Scans
    /\ None \notin Ids
    /\ 0 \in Seqs /\ 0 \in Ids
<1> USE ConstantsAssumption
<1>1. Head0 \in Heads /\ Head0.seq = 0 /\ Head0.sum = 0
  BY DEF Head0, Heads, Seqs, Ids
<1>2. Version0 \in Manifests
  BY DEF Version0, Manifests, Ops, Revs
<1>3. NoCall \in Requests
  BY DEF NoCall, Requests, Ops
<1>4. NoScan \in Scans
  BY DEF NoScan, Scans, Seqs
<1>5. QED
  BY <1>1, <1>2, <1>3, <1>4 DEF Ids, Seqs

(* The four per-call variables, as TypeOK constrains them. *)
CallTypes ==
    /\ pc \in [Writers -> PCs]
    /\ req \in [Writers -> Requests]
    /\ base \in [Writers -> Heads]
    /\ draft \in [Writers -> Ids]

(* The step takes w out of its commit and leaves the other calls alone. *)
Leaves(w) ==
    /\ CallTypes'
    /\ pc'[w] \in {"idle", "replay"}
    /\ \A u \in Writers \ {w} : /\ pc'[u] = pc[u] /\ req'[u] = req[u]
                                /\ base'[u] = base[u] /\ draft'[u] = draft[u]

(* Returning to the caller does, ... *)
LEMMA ReturnLeaves ==
    ASSUME CallTypes, NEW w \in Writers, Return(w)
    PROVE  Leaves(w) /\ pc'[w] = "idle"
BY DefaultTypes DEF CallTypes, Return, Goto, Leaves, PCs

(* ... and so does a VersionConflict, retried or not. *)
LEMMA ConflictLeaves ==
    ASSUME CallTypes, refused \subseteq Ids, NEW w \in Writers, Conflict(w)
    PROVE  /\ Leaves(w)
           /\ refused' \subseteq Ids
           /\ pc'[w] # "idle" => req'[w].op = req[w].op /\ req'[w].payload = req[w].payload
<1>1. refused' \subseteq Ids
  BY DEF Conflict, CallTypes
<1>2. CASE Return(w)
  BY <1>1, <1>2, ReturnLeaves
<1>3. CASE ~Return(w)
  <2>1. /\ req[w].left > 0
        /\ pc' = [pc EXCEPT ![w] = "replay"]
        /\ req' = [req EXCEPT ![w].left = @ - 1]
        /\ base' = [base EXCEPT ![w] = Head0]
        /\ draft' = [draft EXCEPT ![w] = 0]
    BY <1>3 DEF Conflict, Goto
  <2>2. req[w] \in Requests /\ req[w].left - 1 \in 0..MaxRetries
    BY <2>1, ConstantsAssumption DEF CallTypes, Requests
  <2>3. [req[w] EXCEPT !.left = @ - 1] \in Requests
    BY <2>2 DEF Requests
  <2>4. req'[w] = [req[w] EXCEPT !.left = @ - 1]
    BY <2>1 DEF CallTypes
  <2>5. /\ req'[w].op = req[w].op /\ req'[w].payload = req[w].payload
        /\ req' \in [Writers -> Requests]
    BY <2>1, <2>2, <2>3, <2>4 DEF CallTypes, Requests
  <2>6. QED
    BY <1>1, <2>1, <2>5, DefaultTypes DEF CallTypes, Leaves, PCs
<1>4. QED
  BY <1>2, <1>3

(* What HEAD covers are slots, and what is in them are attempts. *)
LEMMA HistoryType == ASSUME TypeOK PROVE History \subseteq Ids /\ 0..head.seq \subseteq Seqs
<1>1. head.seq \in 0..MaxSeq
  BY DEF TypeOK, Heads, Seqs
<1>2. 0..head.seq \subseteq Seqs
  BY <1>1, ConstantsAssumption DEF Seqs
<1>3. QED
  BY <1>2 DEF History, TypeOK

(* The invariant without the types. *)
Core == HistoryInv /\ CallInv /\ VacuumInv /\ AckedKept

(* A step that only takes a call out keeps the invariant. *)
LEMMA LeavesCore ==
    ASSUME TypeOK, Core, NEW w \in Writers, Leaves(w),
           UNCHANGED <<storeVars, lastId, vacuumVars>>, acked' \subseteq History
    PROVE  Core'
<1> USE DEF Core, storeVars, vacuumVars
<1>1. HistoryInv'
  BY DEF HistoryInv
<1>2. CallInv'
  <2> SUFFICES ASSUME NEW u \in Writers PROVE CallOK(u)'
    BY DEF CallInv
  <2>1. CASE u = w
    BY <2>1 DEF CallOK, Leaves, Drafted
  <2>2. CASE u # w
    BY <2>2 DEF CallInv, CallOK, Leaves, Drafted
  <2>3. QED
    BY <2>1, <2>2
<1>3. VacuumInv'
  BY DEF VacuumInv, ScanOK, Leaves, Drafted
<1>4. AckedKept'
  BY DEF AckedKept, History
<1>5. QED
  BY <1>1, <1>2, <1>3, <1>4

-----------------------------------------------------------------------------
(* create_tables leaves the invariant true. *)
LEMMA InitIInv == Init => IInv
<1> SUFFICES ASSUME Init PROVE IInv
  OBVIOUS
<1> USE ConstantsAssumption, DefaultTypes
<1>1. TypeOK
  BY DEF Init, TypeOK, Seqs, Ids, Revs, PCs, VPCs
<1>2. HistoryInv
  BY DEF Init, HistoryInv, Version0, Seqs, Ids, Revs
<1>3. CallInv
  BY DEF Init, CallInv, CallOK, Drafted
<1>4. VacuumInv
  BY DEF Init, VacuumInv, ScanOK
<1>5. AckedKept
  BY DEF Init, AckedKept, History, Seqs
<1>6. QED
  BY <1>1, <1>2, <1>3, <1>4, <1>5 DEF IInv

(* What the variables of a call that leaves no trace in the store contribute. *)
LEMMA LeavesIInv ==
    ASSUME IInv, NEW w \in Writers, Leaves(w),
           UNCHANGED <<storeVars, lastId, vacuumVars>>, acked' \subseteq History,
           refused' \subseteq Ids, faults' \in 0..MaxFault
    PROVE  IInv'
<1>1. TypeOK /\ Core
  BY DEF IInv, Core
<1>2. Core'
  BY <1>1, LeavesCore
<1>3. acked' \subseteq Ids
  BY <1>1, HistoryType DEF TypeOK
<1>4. TypeOK'
  BY <1>1, <1>3 DEF TypeOK, Leaves, CallTypes, storeVars, vacuumVars
<1>5. QED
  BY <1>2, <1>4 DEF IInv, Core

(* A caller starting a call. *)
LEMMA BeginIInv == ASSUME IInv, NEW w \in Writers, Begin(w) PROVE IInv'
<1> USE DEF IInv
<1>1. PICK c \in Calls, target \in Schemas :
        /\ req' = [req EXCEPT ![w] = [op |-> c.op, payload |-> c.payload,
                                      left |-> IF c.op = "append" THEN MaxRetries ELSE 0,
                                      schema |-> target]]
        /\ pc' = [pc EXCEPT ![w] = IF c.op = "evolve" THEN "prologue" ELSE "replay"]
  BY DEF Begin, Goto
<1>2. [op |-> c.op, payload |-> c.payload,
       left |-> IF c.op = "append" THEN MaxRetries ELSE 0, schema |-> target] \in Requests
  BY ConstantsAssumption DEF Requests
<1>3. UNCHANGED <<storeVars, base, draft, lastId, resultVars, vacuumVars, faults>>
  BY DEF Begin
<1>4. TypeOK'
  BY <1>1, <1>2, <1>3 DEF TypeOK, PCs, storeVars, resultVars, vacuumVars
<1>5. CallInv'
  <2> SUFFICES ASSUME NEW u \in Writers PROVE CallOK(u)'
    BY DEF CallInv
  <2>1. CASE u = w
    BY <1>1, <2>1 DEF CallOK, TypeOK, Drafted
  <2>2. CASE u # w
    BY <1>1, <1>3, <2>2 DEF CallInv, CallOK, TypeOK, Drafted, storeVars
  <2>3. QED
    BY <2>1, <2>2
<1>6. VacuumInv'
  BY <1>1, <1>3 DEF VacuumInv, ScanOK, TypeOK, Drafted, storeVars, vacuumVars
<1>7. HistoryInv' /\ AckedKept'
  BY <1>3 DEF HistoryInv, AckedKept, History, storeVars, resultVars
<1>8. QED
  BY <1>4, <1>5, <1>6, <1>7

(* A writer moves on in its call and touches nothing else; it may be on    *)
(* its way to publish only if it was, and to swap only if it did.          *)
LEMMA GotoIInv ==
    ASSUME IInv, NEW w \in Writers, NEW p \in PCs, pc' = [pc EXCEPT ![w] = p],
           p \in Drafted => pc[w] \in Drafted, p # "swap",
           p \in SpecPut => pc[w] \in SpecPut,
           UNCHANGED <<storeVars, req, base, draft, lastId, resultVars, vacuumVars, faults>>
    PROVE  IInv'
<1> USE DEF IInv, storeVars, resultVars, vacuumVars
<1>1. TypeOK'
  BY DEF TypeOK
<1>2. CallInv'
  <2> SUFFICES ASSUME NEW u \in Writers, pc'[u] \in Drafted PROVE CallOK(u)'
    BY DEF CallInv, CallOK
  <2>1. pc[u] \in Drafted /\ (pc'[u] = "swap" => pc[u] = "swap")
        /\ (pc'[u] \in SpecPut => pc[u] \in SpecPut)
    BY DEF TypeOK
  <2>2. \A v \in Writers : pc'[v] \in Drafted => pc[v] \in Drafted
    BY DEF TypeOK
  <2>3. QED
    BY <2>1, <2>2 DEF CallInv, CallOK
<1>3. VacuumInv'
  BY DEF VacuumInv, ScanOK, TypeOK
<1>4. HistoryInv' /\ AckedKept'
  BY DEF HistoryInv, AckedKept, History
<1>5. QED
  BY <1>1, <1>2, <1>3, <1>4

(* idempotent_replay. *)
LEMMA ReplayIInv == ASSUME IInv, NEW w \in Writers, Replay(w) PROVE IInv'
<1> USE DEF IInv
<1>1. CASE Return(w) /\ acked' = acked \cup {CHOOSE i \in KeyedBy(req[w].payload) : TRUE}
              /\ KeyedBy(req[w].payload) # {}
  <2>1. acked' \subseteq History
    BY <1>1 DEF KeyedBy, AckedKept
  <2>2. Leaves(w)
    BY <1>1, ReturnLeaves DEF TypeOK, CallTypes
  <2>3. QED
    BY <2>1, <2>2, LeavesIInv DEF Replay, TypeOK
<1>2. CASE pc' = [pc EXCEPT ![w] = "prologue"] /\ UNCHANGED <<acked, req, base, draft>>
  BY <1>2, GotoIInv DEF Replay, resultVars, Drafted, SpecPut, PCs
<1>3. QED
  BY <1>1, <1>2 DEF Replay, Goto

(* A call that fails before it publishes. *)
LEMMA PrologueFailsIInv == ASSUME IInv, NEW w \in Writers, PrologueFails(w) PROVE IInv'
<1> USE DEF IInv
<1>1. Leaves(w)
  BY ReturnLeaves DEF TypeOK, CallTypes, PrologueFails
<1>2. QED
  BY <1>1, LeavesIInv DEF PrologueFails, TypeOK, AckedKept, resultVars

(* VersionConflict, wherever a writer meets it. *)
LEMMA ConflictIInv ==
    ASSUME IInv, NEW w \in Writers, Conflict(w),
           UNCHANGED <<storeVars, lastId, acked, vacuumVars, faults>>
    PROVE  IInv'
<1> USE DEF IInv
<1>1. Leaves(w) /\ refused' \subseteq Ids
  BY ConflictLeaves DEF TypeOK, CallTypes
<1>2. QED
  BY <1>1, LeavesIInv DEF TypeOK, AckedKept

(* evolve_schema comparing HEAD again. *)
LEMMA RecheckIInv == ASSUME IInv, NEW w \in Writers, Recheck(w) PROVE IInv'
<1>1. CASE Conflict(w)
  BY <1>1, ConflictIInv DEF Recheck
<1>2. CASE ~Conflict(w)
  <2>1. pc' = [pc EXCEPT ![w] = "spec"] /\ UNCHANGED <<req, base, draft, refused>>
    BY <1>2 DEF Recheck, Goto
  <2>2. QED
    BY <2>1, GotoIInv DEF Recheck, resultVars, Drafted, SpecPut, PCs
<1>3. QED
  BY <1>1, <1>2

(* commit comparing HEAD again. *)
LEMMA RevalidateIInv == ASSUME IInv, NEW w \in Writers, Revalidate(w) PROVE IInv'
<1>1. CASE Conflict(w)
  BY <1>1, ConflictIInv DEF Revalidate
<1>2. CASE ~Conflict(w)
  <2>1. pc' = [pc EXCEPT ![w] = "slot"] /\ UNCHANGED <<req, base, draft, refused>>
    BY <1>2 DEF Revalidate, Goto
  <2>2. QED
    BY <2>1, GotoIInv DEF Revalidate, resultVars, Drafted, SpecPut, PCs
<1>3. QED
  BY <1>1, <1>2

-----------------------------------------------------------------------------
(***************************************************************************)
(* The steps that write to the store.                                      *)
(***************************************************************************)
(* The manifest the prologue builds is well typed, and its revision is at  *)
(* most one above the latest version's.                                    *)
LEMMA DerivedType ==
    ASSUME IInv, NEW w \in Writers, head.seq < MaxSeq, NEW m \in Derived(w)
    PROVE  /\ m \in Manifests /\ m.op = req[w].op
           /\ m.rev <= head.seq + 2
           /\ req[w].op # "evolve" => spec[m.rev] # None
<1> USE DEF IInv
<1> DEFINE parent == manifest[slots[head.seq]]
           child == [op |-> req[w].op, parent |-> head.sum, rows |-> parent.rows,
                     key |-> req[w].payload, rev |-> parent.rev, made |-> spec[parent.rev]]
<1>1. /\ head.seq \in Nat /\ head.seq \in 0..head.seq /\ head.sum \in Ids
      /\ slots[head.seq] \in Ids
  BY HistoryType DEF TypeOK, Heads, Seqs, HistoryInv
<1>2. req[w] \in Requests
  BY DEF TypeOK
<1>3. \A s \in 0..head.seq :
        /\ slots[s] \in Ids
        /\ manifest[slots[s]] \in Manifests
        /\ manifest[slots[s]].rev <= s + 1
        /\ spec[manifest[slots[s]].rev] \in Schemas
  <2> SUFFICES ASSUME NEW s \in 0..head.seq
               PROVE  /\ slots[s] \in Ids
                      /\ manifest[slots[s]] \in Manifests
                      /\ manifest[slots[s]].rev <= s + 1
                      /\ spec[manifest[slots[s]].rev] \in Schemas
    OBVIOUS
  <2>1. slots[s] \in Ids
    BY HistoryType DEF TypeOK, HistoryInv
  <2>2. manifest[slots[s]].rev \in Revs
    BY <2>1 DEF TypeOK, Manifests
  <2>3. QED
    BY <2>1, <2>2 DEF TypeOK, HistoryInv
<1>4. parent \in Manifests /\ parent.rev <= head.seq + 1 /\ spec[parent.rev] \in Schemas
  BY <1>1, <1>3
<1>5. child \in Manifests
  BY <1>1, <1>2, <1>4 DEF Manifests, Requests
<1>6. CASE req[w].op = "append"
  <2>1. m = [child EXCEPT !.rows = Appended(@, req[w].payload)]
    BY <1>6 DEF Derived
  <2>2. Appended(child.rows, req[w].payload) \in SUBSET Payloads
    BY <1>2, <1>5 DEF Appended, Manifests, Requests
  <2>3. m = [op |-> req[w].op, parent |-> head.sum, rows |-> Appended(parent.rows, req[w].payload),
             key |-> req[w].payload, rev |-> parent.rev, made |-> spec[parent.rev]]
    BY <2>1
  <2>4. QED
    BY <1>1, <1>2, <1>4, <2>2, <2>3, ConstantsAssumption DEF Manifests, Requests, Revs
<1>7. CASE req[w].op = "write"
  <2>1. m = [child EXCEPT !.rows = {req[w].payload}]
    BY <1>7 DEF Derived
  <2>2. m = [op |-> req[w].op, parent |-> head.sum, rows |-> {req[w].payload},
             key |-> req[w].payload, rev |-> parent.rev, made |-> spec[parent.rev]]
    BY <2>1
  <2>3. QED
    BY <1>1, <1>2, <1>4, <2>2, ConstantsAssumption DEF Manifests, Requests, Revs
<1>8. CASE req[w].op = "restore"
  <2>1. PICK s \in 0..head.seq :
          m = [child EXCEPT !.rows = manifest[slots[s]].rows, !.rev = manifest[slots[s]].rev,
                            !.made = manifest[slots[s]].made]
    BY <1>8 DEF Derived
  <2>2. m = [op |-> req[w].op, parent |-> head.sum, rows |-> manifest[slots[s]].rows,
             key |-> req[w].payload, rev |-> manifest[slots[s]].rev,
             made |-> manifest[slots[s]].made]
    BY <2>1
  <2>3. manifest[slots[s]] \in Manifests /\ manifest[slots[s]].rev <= s + 1
        /\ spec[manifest[slots[s]].rev] \in Schemas
    BY <1>3
  <2>4. QED
    BY <1>1, <1>2, <2>2, <2>3, ConstantsAssumption DEF Manifests, Requests, Revs
<1>9. CASE req[w].op = "evolve"
  <2>1. m = [child EXCEPT !.key = None, !.rev = NextRev(@), !.made = req[w].schema]
    BY <1>9 DEF Derived
  <2>2. m = [op |-> req[w].op, parent |-> head.sum, rows |-> parent.rows,
             key |-> None, rev |-> parent.rev + 1, made |-> req[w].schema]
    BY <2>1 DEF NextRev
  <2>3. parent.rev + 1 \in Revs
    BY <1>1, <1>4, ConstantsAssumption DEF Manifests, Revs
  <2>4. QED
    BY <1>1, <1>2, <1>4, <1>9, <2>2, <2>3, ConstantsAssumption DEF Manifests, Requests, Revs
<1>10. QED
  BY <1>2, <1>6, <1>7, <1>8, <1>9 DEF Requests, Ops

(* write_prologue and the manifest it leads to. *)
LEMMA PrologueIInv == ASSUME IInv, NEW w \in Writers, Prologue(w) PROVE IInv'
<1> USE DEF IInv
<1>1. PICK m \in Derived(w) : manifest' = [manifest EXCEPT ![lastId + 1] = m]
  BY DEF Prologue
<1>2. m \in Manifests /\ m.rev <= head.seq + 2 /\ (req[w].op # "evolve" => spec[m.rev] # None)
  BY DerivedType DEF Prologue
<1>3. lastId + 1 \in Ids /\ lastId \in Nat /\ lastId' = lastId + 1
  BY ConstantsAssumption DEF Prologue, TypeOK, Ids
<1>4. /\ draft' = [draft EXCEPT ![w] = lastId + 1]
      /\ base' = [base EXCEPT ![w] = head]
      /\ pc' = [pc EXCEPT ![w] = IF req[w].op = "evolve" THEN "recheck" ELSE "revalidate"]
      /\ UNCHANGED <<head, slots, spec, req, acked, refused, vpc, scan, faults>>
      /\ head.seq < MaxSeq
  BY DEF Prologue, Goto, resultVars, vacuumVars
<1>5. TypeOK'
  BY <1>1, <1>2, <1>3, <1>4 DEF TypeOK, PCs
<1>6. \A i \in 0..lastId : manifest'[i] = manifest[i]
  BY <1>1, <1>3 DEF TypeOK, Ids
<1>7. \A s \in 0..head.seq : slots[s] \in 0..lastId
  BY <1>3, HistoryType DEF TypeOK, HistoryInv, Ids
<1>8. HistoryInv'
  BY <1>3, <1>4, <1>6, <1>7 DEF HistoryInv, TypeOK, Ids
<1>9. CallInv'
  <2> SUFFICES ASSUME NEW u \in Writers, pc'[u] \in Drafted PROVE CallOK(u)'
    BY DEF CallInv, CallOK
  <2>1. CASE u = w
    <3>1. manifest'[draft'[u]] = m
      BY <1>1, <1>3, <1>4, <2>1 DEF TypeOK
    <3>2. \A v \in Writers \ {w} : pc[v] \in Drafted => draft'[v] # draft'[w]
      BY <1>3, <1>4 DEF CallInv, CallOK, TypeOK
    <3>3. \A v \in Writers \ {w} : pc'[v] = pc[v]
      BY <1>4 DEF TypeOK
    <3>4. head.seq \in Nat /\ base'[u] = head /\ draft'[u] = lastId + 1
      BY <1>4, <2>1 DEF TypeOK, Heads, Seqs
    <3>5. pc'[u] # "swap" /\ (pc'[u] \in SpecPut => req[w].op # "evolve")
      BY <1>4, <2>1 DEF TypeOK, SpecPut
    <3>6. QED
      BY <1>2, <1>3, <1>4, <2>1, <3>1, <3>2, <3>3, <3>4, <3>5 DEF CallOK
  <2>2. CASE u # w
    <3>1. pc'[u] = pc[u] /\ draft'[u] = draft[u] /\ base'[u] = base[u] /\ CallOK(u)
      BY <1>4, <2>2 DEF TypeOK, CallInv
    <3>2. draft[u] \in 1..lastId
      BY <3>1 DEF CallOK
    <3>3. manifest'[draft[u]] = manifest[draft[u]]
      BY <1>6, <3>2
    <3>4. \A v \in Writers \ {u} : pc'[v] \in Drafted => draft'[v] # draft'[u]
      BY <1>3, <1>4, <2>2, <3>1, <3>2 DEF CallOK, TypeOK
    <3>5. QED
      BY <1>3, <1>4, <3>1, <3>2, <3>3, <3>4 DEF CallOK
  <2>3. QED
    BY <2>1, <2>2
<1>10. VacuumInv'
  <2> SUFFICES ASSUME NEW v \in Vacuums PROVE ScanOK(v)'
    BY DEF VacuumInv
  <2>1. \A u \in Writers : pc'[u] \in Drafted =>
           \/ draft'[u] = lastId + 1
           \/ pc[u] \in Drafted /\ draft'[u] = draft[u]
    BY <1>4 DEF TypeOK
  <2>2. vpc[v] # "idle" => lastId + 1 \notin scan[v].aged
    BY <1>3 DEF VacuumInv, ScanOK
  <2>3. scan[v].aged \subseteq Ids
    BY DEF TypeOK, Scans
  <2>4. QED
    BY <1>3, <1>4, <2>1, <2>2, <2>3 DEF VacuumInv, ScanOK, Ids
<1>11. AckedKept'
  BY <1>4 DEF AckedKept, History
<1>12. QED
  BY <1>5, <1>8, <1>9, <1>10, <1>11

(* The step leaves the other calls alone, and w out of its commit or at p. *)
Moves(w, p) ==
    \/ Leaves(w)
    \/ /\ CallTypes'
       /\ pc'[w] = p /\ base'[w] = base[w] /\ draft'[w] = draft[w]
       /\ \A u \in Writers \ {w} : /\ pc'[u] = pc[u] /\ req'[u] = req[u]
                                   /\ base'[u] = base[u] /\ draft'[u] = draft[u]

(* Going to p does that. *)
LEMMA GotoMoves ==
    ASSUME TypeOK, NEW w \in Writers, NEW p \in PCs, Goto(w, p), UNCHANGED <<req, base, draft>>
    PROVE  Moves(w, p) /\ CallTypes'
BY DEF TypeOK, Goto, Moves, CallTypes

(* Whoever is drafted after such a step was drafted before it. *)
LEMMA MovesDrafted ==
    ASSUME CallInv, NEW w \in Writers, NEW p \in Drafted, pc[w] \in Drafted, Moves(w, p)
    PROVE  \A u \in Writers : pc'[u] \in Drafted =>
              /\ pc[u] \in Drafted /\ base'[u] = base[u] /\ draft'[u] = draft[u]
              /\ pc'[u] = IF u = w THEN p ELSE pc[u]
              /\ \A x \in Writers \ {u} : pc'[x] \in Drafted => draft'[x] # draft'[u]
BY DEF Moves, Leaves, Drafted, CallInv, CallOK

(* The spec object of a revision is written. *)
LEMMA SpecIInv ==
    ASSUME IInv, NEW w \in Writers, pc[w] = "spec", Moves(w, "revalidate"),
           spec' = [spec EXCEPT ![manifest[draft[w]].rev] = req[w].schema],
           UNCHANGED <<head, slots, manifest, lastId, resultVars, vacuumVars>>,
           faults' \in 0..MaxFault
    PROVE  IInv'
<1> USE DEF IInv, resultVars, vacuumVars
<1>1. manifest[draft[w]].rev \in Revs /\ req[w].schema \in Schemas
  BY DEF TypeOK, Manifests, Requests
<1>2. TypeOK'
  BY <1>1 DEF TypeOK, Moves, Leaves, CallTypes
<1>3. None \notin Schemas
  BY ConstantsAssumption
<1>4. /\ \A r \in Revs : spec[r] # None => spec'[r] # None
      /\ spec'[manifest[draft[w]].rev] # None
  BY <1>1, <1>3 DEF TypeOK
<1>5. \A i \in Ids : manifest[i].rev \in Revs
  BY DEF TypeOK, Manifests
<1>6. HistoryInv'
  <2>1. \A s \in 0..head.seq : slots[s] \in Ids
    BY HistoryType DEF TypeOK, HistoryInv
  <2>2. QED
    BY <1>4, <1>5, <2>1 DEF HistoryInv
<1>7. CallInv'
  <2> SUFFICES ASSUME NEW u \in Writers, pc'[u] \in Drafted PROVE CallOK(u)'
    BY DEF CallInv, CallOK
  <2>1. /\ pc[u] \in Drafted /\ base'[u] = base[u] /\ draft'[u] = draft[u]
        /\ pc'[u] = IF u = w THEN "revalidate" ELSE pc[u]
        /\ \A x \in Writers \ {u} : pc'[x] \in Drafted => draft'[x] # draft'[u]
    BY MovesDrafted DEF Drafted
  <2>2. draft[u] \in Ids
    BY DEF TypeOK
  <2>3. pc'[u] \in SpecPut => spec'[manifest[draft[u]].rev] # None
    BY <1>4, <1>5, <2>1, <2>2 DEF CallInv, CallOK
  <2>4. QED
    BY <2>1, <2>3 DEF CallInv, CallOK
<1>8. VacuumInv'
  <2>1. \A u \in Writers : pc'[u] \in Drafted => pc[u] \in Drafted /\ draft'[u] = draft[u]
    BY MovesDrafted DEF Drafted
  <2>2. QED
    BY <2>1 DEF VacuumInv, ScanOK
<1>9. AckedKept'
  BY DEF AckedKept, History
<1>10. QED
  BY <1>2, <1>6, <1>7, <1>8, <1>9

(* The slot above a writer's base is created: nobody has passed the base,  *)
(* so HEAD is still there.                                                 *)
LEMMA SlotIInv ==
    ASSUME IInv, NEW w \in Writers, pc[w] = "slot", Moves(w, "swap"),
           slots[base[w].seq + 1] = None,
           slots' = [slots EXCEPT ![base[w].seq + 1] = draft[w]],
           UNCHANGED <<head, manifest, spec, lastId, resultVars, vacuumVars>>,
           faults' \in 0..MaxFault
    PROVE  IInv'
<1> USE DEF IInv, resultVars, vacuumVars
<1> DEFINE slot == base[w].seq + 1
<1>1. /\ draft[w] \in 1..lastId /\ base[w].seq < MaxSeq /\ base[w].seq <= head.seq
      /\ base[w].seq = head.seq => base[w] = head
      /\ spec[manifest[draft[w]].rev] # None
  BY DEF CallInv, CallOK, Drafted, SpecPut
<1>2. base[w].seq \in Nat /\ head.seq \in Nat /\ slot \in Seqs
  BY <1>1, ConstantsAssumption DEF TypeOK, Heads, Seqs
<1>3. head = base[w]
  <2>1. ~(slot <= head.seq)
    BY <1>2 DEF HistoryInv
  <2>2. QED
    BY <1>1, <1>2, <2>1
<1>4. TypeOK'
  BY <1>2 DEF TypeOK, Moves, Leaves, CallTypes
<1>5. \A s \in Seqs : slots'[s] = IF s = slot THEN draft[w] ELSE slots[s]
  BY <1>2 DEF TypeOK
<1>6. \A s \in 0..head.seq : slots'[s] = slots[s]
  BY <1>2, <1>3, <1>5, HistoryType
<1>7. HistoryInv'
  <2>1. \A s \in Seqs : slots'[s] # None => slots'[s] <= lastId
    BY <1>1, <1>5 DEF HistoryInv
  <2>2. head.seq \in 0..head.seq
    BY <1>2
  <2>3. QED
    BY <1>6, <2>1, <2>2 DEF HistoryInv
<1>8. CallInv'
  <2> SUFFICES ASSUME NEW u \in Writers, pc'[u] \in Drafted PROVE CallOK(u)'
    BY DEF CallInv, CallOK
  <2>1. /\ pc[u] \in Drafted /\ base'[u] = base[u] /\ draft'[u] = draft[u]
        /\ pc'[u] = IF u = w THEN "swap" ELSE pc[u]
        /\ \A x \in Writers \ {u} : pc'[x] \in Drafted => draft'[x] # draft'[u]
    BY MovesDrafted DEF Drafted
  <2>2. pc'[u] = "swap" => head = base[u] /\ slots'[base[u].seq + 1] = draft[u]
    <3>1. CASE u = w
      BY <1>2, <1>3, <1>5, <3>1
    <3>2. CASE u # w
      <4>1. pc[u] = "swap" => head = base[u] /\ slots[head.seq + 1] = draft[u]
        BY <2>1 DEF CallInv, CallOK
      <4>2. draft[u] # None
        BY DefaultTypes DEF TypeOK
      <4>3. QED
        BY <1>3, <2>1, <3>2, <4>1, <4>2
    <3>3. QED
      BY <3>1, <3>2
  <2>3. CASE u = w
    BY <1>1, <2>1, <2>2, <2>3 DEF CallInv, CallOK
  <2>4. CASE u # w
    BY <2>1, <2>2, <2>4 DEF CallInv, CallOK
  <2>5. QED
    BY <2>3, <2>4
<1>9. VacuumInv'
  <2> SUFFICES ASSUME NEW v \in Vacuums, vpc[v] # "idle" PROVE ScanOK(v)'
    BY DEF VacuumInv, ScanOK
  <2>1. \A u \in Writers : pc'[u] \in Drafted => pc[u] \in Drafted /\ draft'[u] = draft[u]
    BY MovesDrafted DEF Drafted
  <2>2. draft[w] \notin scan[v].aged
    BY DEF VacuumInv, ScanOK, Drafted
  <2>3. scan[v].aged \subseteq Ids /\ scan[v].doomed \subseteq Seqs
    BY DEF TypeOK, Scans
  <2>4. \A s \in Seqs : slots'[s] \in scan[v].aged => slots'[s] = slots[s]
    BY <1>5, <2>2
  <2>5. vpc[v] = "delete" => slot \notin scan[v].doomed
    BY <2>3, DefaultTypes DEF VacuumInv, ScanOK
  <2>6. \A s \in Seqs : s # slot => slots'[s] = slots[s]
    BY <1>5
  <2>7. vpc[v] = "list" => \A s \in Seqs :
           slots'[s] \in scan[v].aged /\ s > scan[v].head => s > head.seq
    BY <2>4 DEF VacuumInv, ScanOK
  <2>8. vpc[v] = "delete" => \A s \in scan[v].doomed :
           slots'[s] \in scan[v].aged /\ s > head.seq
    BY <2>3, <2>5, <2>6 DEF VacuumInv, ScanOK
  <2>9. QED
    BY <2>1, <2>7, <2>8 DEF VacuumInv, ScanOK
<1>10. AckedKept'
  BY <1>6 DEF AckedKept, History
<1>11. QED
  BY <1>4, <1>7, <1>8, <1>9, <1>10

(* HEAD is swapped by the writer whose slot is above it: the version joins *)
(* the history, and the slot was not one vacuum looks at.                  *)
LEMMA SwapIInv ==
    ASSUME IInv, NEW w \in Writers, pc[w] = "swap", Leaves(w),
           head' = [seq |-> base[w].seq + 1, sum |-> draft[w]],
           acked' \subseteq acked \cup {draft[w]},
           UNCHANGED <<slots, manifest, spec, lastId, refused, vacuumVars>>,
           faults' \in 0..MaxFault
    PROVE  IInv'
<1> USE DEF IInv, vacuumVars
<1>1. /\ draft[w] \in 1..lastId /\ base[w].seq < MaxSeq /\ head = base[w]
      /\ spec[manifest[draft[w]].rev] # None /\ slots[base[w].seq + 1] = draft[w]
      /\ manifest[draft[w]].rev <= base[w].seq + 2
  BY DEF CallInv, CallOK, Drafted, SpecPut
<1>2. /\ head.seq \in Nat /\ head.seq + 1 \in Seqs /\ head'.seq = head.seq + 1
      /\ head'.sum = draft[w] /\ draft[w] \in Ids
  BY <1>1, ConstantsAssumption DEF TypeOK, Heads, Seqs
<1>3. TypeOK'
  BY <1>2 DEF TypeOK, Leaves, CallTypes, Heads
<1>4. \A s \in 0..head'.seq : s \in 0..head.seq \/ s = head.seq + 1
  BY <1>2
<1>5. HistoryInv'
  <2>1. \A s \in 0..head'.seq :
          /\ slots[s] # None
          /\ manifest[slots[s]].rev <= s + 1
          /\ spec[manifest[slots[s]].rev] # None
    BY <1>1, <1>2, <1>4, DefaultTypes DEF HistoryInv, Ids
  <2>2. QED
    BY <1>1, <1>2, <2>1 DEF HistoryInv
<1>6. CallInv'
  <2> SUFFICES ASSUME NEW u \in Writers, pc'[u] \in Drafted PROVE CallOK(u)'
    BY DEF CallInv, CallOK
  <2>1. /\ pc[u] \in Drafted /\ base'[u] = base[u] /\ draft'[u] = draft[u] /\ u # w
        /\ pc'[u] = pc[u]
        /\ \A x \in Writers \ {u} : pc'[x] \in Drafted => draft'[x] # draft'[u]
    BY DEF Leaves, Drafted, CallInv, CallOK
  <2>2. pc[u] # "swap"
    BY <1>1, <2>1 DEF CallInv, CallOK, Drafted
  <2>3. base[u].seq \in Nat
    BY DEF TypeOK, Heads, Seqs
  <2>4. QED
    BY <1>2, <2>1, <2>2, <2>3 DEF CallInv, CallOK
<1>7. VacuumInv'
  <2> SUFFICES ASSUME NEW v \in Vacuums, vpc[v] # "idle" PROVE ScanOK(v)'
    BY DEF VacuumInv, ScanOK
  <2>1. \A u \in Writers : pc'[u] \in Drafted => pc[u] \in Drafted /\ draft'[u] = draft[u]
    BY DEF Leaves, Drafted
  <2>2. slots[head.seq + 1] \notin scan[v].aged
    BY <1>1 DEF VacuumInv, ScanOK, Drafted
  <2>3. scan[v].doomed \subseteq Seqs
    BY DEF TypeOK, Scans
  <2>4. \A s \in Seqs : s > head.seq /\ slots[s] \in scan[v].aged => s > head'.seq
    BY <1>2, <2>2 DEF Seqs
  <2>5. QED
    BY <2>1, <2>3, <2>4 DEF VacuumInv, ScanOK
<1>8. AckedKept'
  <2>1. History \cup {draft[w]} \subseteq History'
    BY <1>1, <1>2, DefaultTypes DEF History
  <2>2. QED
    BY <2>1 DEF AckedKept
<1>9. QED
  BY <1>3, <1>5, <1>6, <1>7, <1>8

(* evolve_schema putting its spec. *)
LEMMA PutSpecIInv == ASSUME IInv, NEW w \in Writers, PutSpec(w) PROVE IInv'
<1>1. Moves(w, "revalidate") /\ faults' \in 0..MaxFault
  BY GotoMoves DEF PutSpec, IInv, TypeOK, PCs
<1>2. QED
  BY <1>1, SpecIInv DEF PutSpec

(* create_manifest_slot. *)
LEMMA CreateSlotIInv == ASSUME IInv, NEW w \in Writers, CreateSlot(w) PROVE IInv'
<1>1. CASE Conflict(w) /\ UNCHANGED slots
  BY <1>1, ConflictIInv DEF CreateSlot, storeVars
<1>2. CASE /\ slots[base[w].seq + 1] = None
           /\ slots' = [slots EXCEPT ![base[w].seq + 1] = draft[w]]
           /\ Goto(w, "swap") /\ UNCHANGED <<req, base, draft, refused>>
  <2>1. Moves(w, "swap") /\ faults' \in 0..MaxFault
    BY <1>2, GotoMoves DEF CreateSlot, IInv, TypeOK, PCs
  <2>2. QED
    BY <1>2, <2>1, SlotIInv DEF CreateSlot, resultVars
<1>3. QED
  BY <1>1, <1>2 DEF CreateSlot

(* The conditional put of HEAD. *)
LEMMA SwapHeadIInv == ASSUME IInv, NEW w \in Writers, SwapHead(w) PROVE IInv'
<1>1. CASE Conflict(w) /\ UNCHANGED <<head, acked>>
  BY <1>1, ConflictIInv DEF SwapHead, storeVars
<1>2. CASE /\ head' = [seq |-> base[w].seq + 1, sum |-> draft[w]]
           /\ acked' = acked \cup {draft[w]} /\ Return(w) /\ UNCHANGED refused
  <2>1. Leaves(w) /\ faults' \in 0..MaxFault
    BY <1>2, ReturnLeaves DEF SwapHead, IInv, TypeOK, CallTypes
  <2>2. QED
    BY <1>2, <2>1, SwapIInv DEF SwapHead
<1>3. QED
  BY <1>1, <1>2 DEF SwapHead

(* A dead writer, or a lost response: each request had its effect or not. *)
LEMMA FaultIInv == ASSUME IInv, NEW w \in Writers, Fault(w) PROVE IInv'
<1>1. Leaves(w) /\ Moves(w, "revalidate") /\ Moves(w, "swap") /\ faults' \in 0..MaxFault
  <2>1. Leaves(w)
    BY ReturnLeaves DEF Fault, IInv, TypeOK, CallTypes
  <2>2. faults' \in 0..MaxFault
    BY ConstantsAssumption DEF Fault, IInv, TypeOK
  <2>3. QED
    BY <2>1, <2>2 DEF Moves
<1>2. CASE UNCHANGED storeVars
  BY <1>1, <1>2, LeavesIInv DEF Fault, IInv, TypeOK, AckedKept, resultVars
<1>3. CASE /\ pc[w] = "slot" /\ slots[base[w].seq + 1] = None
           /\ slots' = [slots EXCEPT ![base[w].seq + 1] = draft[w]]
           /\ UNCHANGED <<head, manifest, spec>>
  BY <1>1, <1>3, SlotIInv DEF Fault
<1>4. CASE /\ pc[w] = "swap"
           /\ head' = [seq |-> base[w].seq + 1, sum |-> draft[w]]
           /\ UNCHANGED <<slots, manifest, spec>>
  BY <1>1, <1>4, SwapIInv DEF Fault, resultVars
<1>5. CASE /\ pc[w] = "spec"
           /\ spec' = [spec EXCEPT ![manifest[draft[w]].rev] = req[w].schema]
           /\ UNCHANGED <<head, slots, manifest>>
  BY <1>1, <1>5, SpecIInv DEF Fault
<1>6. QED
  BY <1>2, <1>3, <1>4, <1>5 DEF Fault

-----------------------------------------------------------------------------
(***************************************************************************)
(* Vacuum.                                                                 *)
(***************************************************************************)
(* A step of vacuum v that only reads keeps the rest of the invariant. *)
LEMMA ScanIInv ==
    ASSUME IInv, NEW v \in Vacuums, NEW p \in VPCs, NEW sc \in Scans,
           vpc' = [vpc EXCEPT ![v] = p], scan' = [scan EXCEPT ![v] = sc],
           UNCHANGED <<storeVars, callVars, lastId, resultVars, faults>>, ScanOK(v)'
    PROVE  IInv'
<1> USE DEF IInv, storeVars, callVars, resultVars
<1>1. TypeOK'
  BY DEF TypeOK
<1>2. HistoryInv' /\ CallInv' /\ AckedKept'
  BY DEF HistoryInv, CallInv, CallOK, AckedKept, History
<1>3. VacuumInv'
  <2> SUFFICES ASSUME NEW u \in Vacuums, u # v PROVE ScanOK(u)'
    BY DEF VacuumInv
  <2>1. vpc'[u] = vpc[u] /\ scan'[u] = scan[u]
    BY DEF TypeOK
  <2>2. QED
    BY <2>1 DEF VacuumInv, ScanOK
<1>4. QED
  BY <1>1, <1>2, <1>3

(* It reads the clock: what is old now belongs to calls that are over. *)
LEMMA VacuumStartIInv == ASSUME IInv, NEW v \in Vacuums, VacuumStart(v) PROVE IInv'
<1> USE DEF IInv
<1> DEFINE sc == [NoScan EXCEPT !.aged = Aged]
<1>1. sc \in Scans /\ sc.aged = Aged
  BY DefaultTypes DEF NoScan, Scans, Aged
<1>2. /\ vpc' = [vpc EXCEPT ![v] = "head"] /\ scan' = [scan EXCEPT ![v] = sc]
      /\ UNCHANGED <<storeVars, callVars, lastId, resultVars, faults>>
  BY DEF VacuumStart
<1>3. vpc'[v] = "head" /\ scan'[v] = sc
  BY <1>2 DEF TypeOK
<1>4. \A w \in Writers : pc[w] \in Drafted => draft[w] \notin Aged
  BY DEF Aged, Live, Drafted
<1>5. \A id \in Aged : id <= lastId
  BY DefaultTypes DEF Aged, HistoryInv
<1>6. ScanOK(v)'
  BY <1>1, <1>2, <1>3, <1>4, <1>5 DEF ScanOK, callVars
<1>7. QED
  BY <1>1, <1>2, <1>6, ScanIInv DEF VPCs

(* It reads HEAD. *)
LEMMA VacuumHeadIInv == ASSUME IInv, NEW v \in Vacuums, VacuumHead(v) PROVE IInv'
<1> USE DEF IInv
<1> DEFINE sc == [scan[v] EXCEPT !.head = head.seq]
<1>1. sc \in Scans /\ sc.aged = scan[v].aged /\ sc.head = head.seq
  BY DEF TypeOK, Scans, Heads
<1>2. /\ vpc' = [vpc EXCEPT ![v] = "list"] /\ scan' = [scan EXCEPT ![v] = sc]
      /\ UNCHANGED <<storeVars, callVars, lastId, resultVars, faults>>
  BY DEF VacuumHead
<1>3. vpc'[v] = "list" /\ scan'[v] = sc /\ vpc[v] = "head"
  BY <1>2 DEF TypeOK, VacuumHead
<1>4. ScanOK(v)'
  BY <1>1, <1>2, <1>3 DEF VacuumInv, ScanOK, callVars, storeVars
<1>5. QED
  BY <1>1, <1>2, <1>4, ScanIInv DEF VPCs

(* It lists what is old above that HEAD. *)
LEMMA VacuumListIInv == ASSUME IInv, NEW v \in Vacuums, VacuumList(v) PROVE IInv'
<1> USE DEF IInv
<1> DEFINE sc == [scan[v] EXCEPT !.doomed = Debris(v)]
<1>1. sc \in Scans /\ sc.aged = scan[v].aged /\ sc.doomed = Debris(v)
  BY DEF TypeOK, Scans, Debris
<1>2. /\ vpc' = [vpc EXCEPT ![v] = "delete"] /\ scan' = [scan EXCEPT ![v] = sc]
      /\ UNCHANGED <<storeVars, callVars, lastId, resultVars, faults>>
  BY DEF VacuumList
<1>3. vpc'[v] = "delete" /\ scan'[v] = sc /\ vpc[v] = "list"
  BY <1>2 DEF TypeOK, VacuumList
<1>4. ScanOK(v)'
  BY <1>1, <1>2, <1>3 DEF VacuumInv, ScanOK, Debris, callVars, storeVars
<1>5. QED
  BY <1>1, <1>2, <1>4, ScanIInv DEF VPCs

(* It deletes by path.  The paths still hold what was listed, because no   *)
(* other vacuum has cleared one for a writer to take.                      *)
LEMMA VacuumDeleteIInv ==
    ASSUME OneVacuum, IInv, NEW v \in Vacuums, VacuumDelete(v) PROVE IInv'
<1> USE DEF IInv, callVars, resultVars
<1>1. /\ vpc[v] = "delete" /\ vpc' = [vpc EXCEPT ![v] = "idle"]
      /\ scan' = [scan EXCEPT ![v] = NoScan]
      /\ slots' = [s \in Seqs |-> IF s \in scan[v].doomed THEN None ELSE slots[s]]
      /\ UNCHANGED <<head, manifest, spec, callVars, lastId, resultVars, faults>>
  BY DEF VacuumDelete
<1>2. TypeOK'
  BY <1>1, DefaultTypes DEF TypeOK, VPCs
<1>3. \A s \in Seqs : slots'[s] # None => slots'[s] = slots[s]
  BY <1>1
<1>4. \A s \in Seqs : s <= head.seq => slots'[s] = slots[s]
  <2>1. head.seq \in Nat
    BY DEF TypeOK, Heads, Seqs
  <2>2. \A s \in scan[v].doomed : s > head.seq
    BY <1>1 DEF VacuumInv, ScanOK
  <2>3. QED
    BY <1>1, <2>1, <2>2 DEF Seqs
<1>5. \A s \in 0..head.seq : slots'[s] = slots[s]
  BY <1>4, HistoryType
<1>6. HistoryInv'
  <2>1. head.seq \in 0..head.seq
    BY DEF TypeOK, Heads, Seqs
  <2>2. QED
    BY <1>1, <1>3, <1>5, <2>1 DEF HistoryInv
<1>7. CallInv'
  <2> SUFFICES ASSUME NEW w \in Writers, pc[w] = "swap"
               PROVE  slots'[base[w].seq + 1] = draft[w]
    BY <1>1 DEF CallInv, CallOK
  <2>1. slots[base[w].seq + 1] = draft[w] /\ base[w].seq < MaxSeq /\ pc[w] \in Drafted
    BY DEF CallInv, CallOK, Drafted
  <2>2. base[w].seq + 1 \in Seqs
    BY <2>1, ConstantsAssumption DEF TypeOK, Heads, Seqs
  <2>3. base[w].seq + 1 \notin scan[v].doomed
    BY <1>1, <2>1 DEF VacuumInv, ScanOK
  <2>4. QED
    BY <1>1, <2>1, <2>2, <2>3
<1>8. VacuumInv'
  <2> SUFFICES ASSUME NEW u \in Vacuums PROVE vpc'[u] = "idle"
    BY DEF VacuumInv, ScanOK
  <2>1. QED
    BY <1>1 DEF OneVacuum, TypeOK
<1>9. AckedKept'
  BY <1>1, <1>5 DEF AckedKept, History
<1>10. QED
  BY <1>2, <1>6, <1>7, <1>8, <1>9

-----------------------------------------------------------------------------
(* Every step keeps the invariant. *)
LEMMA NextIInv == ASSUME OneVacuum, IInv, [Next]_vars PROVE IInv'
<1>1. ASSUME NEW w \in Writers, Begin(w) \/ Step(w) \/ Fault(w) PROVE IInv'
  BY <1>1, BeginIInv, ReplayIInv, PrologueIInv, PrologueFailsIInv, RecheckIInv, PutSpecIInv,
     RevalidateIInv, CreateSlotIInv, SwapHeadIInv, FaultIInv DEF Step
<1>2. ASSUME NEW v \in Vacuums, VacuumStart(v) \/ Vacuum(v) PROVE IInv'
  BY <1>2, VacuumStartIInv, VacuumHeadIInv, VacuumListIInv, VacuumDeleteIInv DEF Vacuum
<1>3. CASE UNCHANGED vars
  BY <1>3 DEF vars, storeVars, callVars, resultVars, vacuumVars, IInv, TypeOK, HistoryInv,
              CallInv, CallOK, VacuumInv, ScanOK, AckedKept, History
<1>4. QED
  BY <1>1, <1>2, <1>3 DEF Next

(* The invariant holds of every reachable state while vacuums of the table *)
(* do not overlap.                                                         *)
THEOREM InvariantHolds == ASSUME OneVacuum PROVE Spec => []IInv
<1>1. Init => IInv
  BY InitIInv
<1>2. IInv /\ [Next]_vars => IInv'
  BY NextIInv
<1>3. QED
  BY <1>1, <1>2, PTL DEF Spec

(* A commit whose caller got Ok stays in the history, whichever responses  *)
(* are lost, whichever writers die and whatever vacuum clears.             *)
THEOREM AckedStays == ASSUME OneVacuum PROVE Spec => []AckedKept
<1>1. IInv => AckedKept
  BY DEF IInv
<1>2. QED
  BY <1>1, InvariantHolds, PTL

-----------------------------------------------------------------------------
(***************************************************************************)
(* The history is immutable and grows by swaps, one version at a time.     *)
(***************************************************************************)
SwapOf(w) ==
    /\ pc[w] = "swap"
    /\ head' = [seq |-> base[w].seq + 1, sum |-> draft[w]]
    /\ UNCHANGED <<slots, manifest, spec>>

(* u keeps the draft it has, and has a spec in place once it put it. *)
HasDraft(u) ==
    /\ pc[u] \in Drafted /\ base'[u] = base[u] /\ draft'[u] = draft[u] /\ req'[u] = req[u]
    /\ pc'[u] \in {"recheck", "spec"} => pc[u] \in {"recheck", "spec"}
    /\ pc'[u] \in SpecPut => pc[u] \in SpecPut \/ PutSpec(u)

(* What a call's step is to the calls: w drafts, keeps its draft or leaves. *)
Keeps(w) ==
    \A u \in Writers : pc'[u] \in Drafted =>
       \/ u = w /\ Prologue(w)
       \/ HasDraft(u)

(* Every step of a writer keeps the other drafts. *)
LEMMA WriterKeeps ==
    ASSUME TypeOK, NEW w \in Writers, Begin(w) \/ Step(w) \/ Fault(w)
    PROVE  Keeps(w)
<1> USE DEF TypeOK, Keeps, HasDraft, Drafted, SpecPut
<1>1. CASE Begin(w)
  BY <1>1 DEF Begin, Goto
<1>2. ASSUME Leaves(w) PROVE Keeps(w)
  BY <1>2 DEF Leaves
<1>3. ASSUME NEW p \in PCs, Goto(w, p), UNCHANGED <<req, base, draft>>,
             p \in Drafted => pc[w] \in Drafted,
             p \in {"recheck", "spec"} => pc[w] \in {"recheck", "spec"},
             p \in SpecPut => pc[w] \in SpecPut \/ PutSpec(w)
      PROVE  Keeps(w)
  BY <1>3 DEF Goto
<1>4. ASSUME Return(w) PROVE Leaves(w)
  BY <1>4, ReturnLeaves DEF CallTypes
<1>5. ASSUME Conflict(w) PROVE Leaves(w)
  BY <1>5, ConflictLeaves DEF CallTypes
<1>6. CASE Replay(w) \/ PrologueFails(w) \/ Fault(w)
  BY <1>2, <1>3, <1>4, <1>6 DEF Replay, PrologueFails, Fault, PCs
<1>7. CASE Recheck(w) \/ Revalidate(w) \/ CreateSlot(w) \/ SwapHead(w) \/ PutSpec(w)
  BY <1>2, <1>3, <1>4, <1>5, <1>7
     DEF Recheck, Revalidate, CreateSlot, SwapHead, PutSpec, PCs
<1>8. CASE Prologue(w)
  BY <1>8 DEF Prologue, Goto
<1>9. QED
  BY <1>1, <1>6, <1>7, <1>8 DEF Step

(* The slots HEAD covers hold attempts made so far. *)
LEMMA SlotType == ASSUME IInv PROVE \A s \in 0..head.seq : slots[s] \in 0..lastId
<1> SUFFICES ASSUME NEW s \in 0..head.seq PROVE slots[s] \in 0..lastId
  OBVIOUS
<1>1. s \in Seqs /\ slots[s] # None
  BY HistoryType DEF IInv, HistoryInv
<1>2. slots[s] \in Nat /\ lastId \in Nat
  BY <1>1 DEF IInv, TypeOK, Ids
<1>3. QED
  BY <1>1, <1>2 DEF IInv, HistoryInv

(* Versions, and the manifests of attempts, never change. *)
LEMMA StepHistory ==
    ASSUME OneVacuum, IInv, [Next]_vars
    PROVE  /\ \A s \in 0..head.seq : slots'[s] = slots[s]
           /\ \A i \in 0..lastId : manifest'[i] = manifest[i]
           /\ head' = head \/ \E w \in Writers : SwapOf(w)
<1> USE DEF IInv
<1>1. CASE UNCHANGED vars
  BY <1>1 DEF vars, storeVars
<1>2. ASSUME NEW w \in Writers, Begin(w) \/ Replay(w) \/ PrologueFails(w) \/ Recheck(w)
                                \/ PutSpec(w) \/ Revalidate(w)
      PROVE  UNCHANGED <<head, slots, manifest>>
  BY <1>2 DEF Begin, Replay, PrologueFails, Recheck, PutSpec, Revalidate, storeVars
<1>3. ASSUME NEW w \in Writers, Prologue(w)
      PROVE  UNCHANGED <<head, slots>> /\ \A i \in 0..lastId : manifest'[i] = manifest[i]
  BY <1>3 DEF Prologue, TypeOK, Ids
<1>4. ASSUME NEW w \in Writers, SwapHead(w) PROVE UNCHANGED <<head, slots, manifest>> \/ SwapOf(w)
  BY <1>4 DEF SwapHead, SwapOf
<1>5. ASSUME NEW w \in Writers, pc[w] = "slot", slots[base[w].seq + 1] = None,
             slots' = [slots EXCEPT ![base[w].seq + 1] = draft[w]]
      PROVE  \A s \in 0..head.seq : slots'[s] = slots[s]
  <2>1. \A s \in 0..head.seq : s # base[w].seq + 1
    BY <1>5 DEF HistoryInv
  <2>2. QED
    BY <1>5, <2>1, HistoryType DEF TypeOK
<1>6. ASSUME NEW w \in Writers, CreateSlot(w)
      PROVE  UNCHANGED <<head, manifest>> /\ \A s \in 0..head.seq : slots'[s] = slots[s]
  BY <1>5, <1>6 DEF CreateSlot
<1>7. ASSUME NEW w \in Writers, Fault(w)
      PROVE  /\ \A s \in 0..head.seq : slots'[s] = slots[s]
             /\ UNCHANGED manifest /\ (UNCHANGED head \/ SwapOf(w))
  BY <1>5, <1>7 DEF Fault, SwapOf, storeVars
<1>8. ASSUME NEW v \in Vacuums, VacuumStart(v) \/ VacuumHead(v) \/ VacuumList(v)
      PROVE  UNCHANGED <<head, slots, manifest>>
  BY <1>8 DEF VacuumStart, VacuumHead, VacuumList, storeVars
<1>9. ASSUME NEW v \in Vacuums, VacuumDelete(v)
      PROVE  UNCHANGED <<head, manifest>> /\ \A s \in 0..head.seq : slots'[s] = slots[s]
  <2>1. \A s \in scan[v].doomed : s > head.seq
    BY <1>9 DEF VacuumInv, ScanOK, VacuumDelete
  <2>2. \A s \in 0..head.seq : s \notin scan[v].doomed
    BY <2>1 DEF TypeOK, Heads, Seqs
  <2>3. QED
    BY <1>9, <2>2, HistoryType DEF VacuumDelete
<1>10. QED
  BY <1>1, <1>2, <1>3, <1>4, <1>6, <1>7, <1>8, <1>9 DEF Next, Step, Vacuum, SwapOf

(* A step of vacuum, or none, leaves the calls alone. *)
LEMMA VacuumKeeps ==
    ASSUME NEW v \in Vacuums, VacuumStart(v) \/ Vacuum(v) PROVE UNCHANGED <<callVars, lastId, spec>>
BY DEF VacuumStart, Vacuum, VacuumHead, VacuumList, VacuumDelete, storeVars

(* Whoever has a draft after a step drafted it in the step or had it before. *)
LEMMA StepKeeps ==
    ASSUME TypeOK, [Next]_vars
    PROVE  \A u \in Writers : pc'[u] \in Drafted =>
              Prologue(u) \/ HasDraft(u)
<1>1. CASE UNCHANGED callVars
  BY <1>1 DEF callVars, HasDraft
<1>2. CASE \E w \in Writers : Begin(w) \/ Step(w) \/ Fault(w)
  BY <1>2, WriterKeeps DEF Keeps
<1>3. QED
  BY <1>1, <1>2, VacuumKeeps DEF Next, vars

-----------------------------------------------------------------------------
(***************************************************************************)
(* The refinement.                                                         *)
(***************************************************************************)
(* The prologue derives its manifest from the version HEAD names. *)
LEMMA PrologueFollows == ASSUME IInv, NEW w \in Writers, Prologue(w) PROVE FollowsBase(w)'
<1> USE DEF IInv
<1> DEFINE parent == manifest[slots[head.seq]]
           child == [op |-> req[w].op, parent |-> head.sum, rows |-> parent.rows,
                     key |-> req[w].payload, rev |-> parent.rev, made |-> spec[parent.rev]]
<1>1. PICK m \in Derived(w) : manifest' = [manifest EXCEPT ![lastId + 1] = m]
  BY DEF Prologue
<1>2. /\ manifest'[draft'[w]] = m /\ base'[w] = head /\ slots' = slots
      /\ \A s \in 0..head.seq : manifest'[slots'[s]] = manifest[slots[s]]
  <2>1. lastId + 1 \in Ids /\ lastId \in Nat
    BY ConstantsAssumption DEF Prologue, TypeOK, Ids
  <2>2. \A s \in 0..head.seq : slots[s] \in Ids /\ slots[s] # lastId + 1
    BY <2>1, HistoryType DEF HistoryInv, TypeOK
  <2>3. QED
    BY <1>1, <2>1, <2>2 DEF Prologue, TypeOK
<1>3. req[w].payload \in Payloads /\ req[w].op \in Ops
  BY DEF TypeOK, Requests
<1>4. head.seq \in 0..head.seq
  BY DEF TypeOK, Heads, Seqs
<1>5. CASE req[w].op = "append"
  <2>1. m = [child EXCEPT !.rows = Appended(@, req[w].payload)]
    BY <1>5 DEF Derived
  <2>2. m.op = "append" /\ m.rows = parent.rows \cup {req[w].payload}
    BY <1>5, <2>1 DEF Appended
  <2>3. QED
    BY <1>2, <1>3, <1>4, <2>2 DEF FollowsBase
<1>6. CASE req[w].op = "write"
  <2>1. m = [child EXCEPT !.rows = {req[w].payload}]
    BY <1>6 DEF Derived
  <2>2. m.op = "write" /\ m.rows = {req[w].payload}
    BY <1>6, <2>1
  <2>3. QED
    BY <1>2, <1>3, <1>4, <2>2 DEF FollowsBase
<1>7. CASE req[w].op = "restore"
  <2>1. PICK s \in 0..head.seq :
          m = [child EXCEPT !.rows = manifest[slots[s]].rows, !.rev = manifest[slots[s]].rev,
                            !.made = manifest[slots[s]].made]
    BY <1>7 DEF Derived
  <2>2. m.op = "restore" /\ m.rows = manifest[slots[s]].rows
    BY <1>7, <2>1
  <2>3. QED
    BY <1>2, <1>3, <1>4, <2>2 DEF FollowsBase
<1>8. CASE req[w].op = "evolve"
  <2>1. m = [child EXCEPT !.key = None, !.rev = NextRev(@), !.made = req[w].schema]
    BY <1>8 DEF Derived
  <2>2. m.op = "evolve" /\ m.rows = parent.rows
    BY <1>8, <2>1
  <2>3. QED
    BY <1>2, <1>3, <1>4, <2>2 DEF FollowsBase
<1>9. QED
  BY <1>3, <1>5, <1>6, <1>7, <1>8 DEF Ops

(* So every draft follows its base: neither ever changes. *)
LEMMA NextDerived ==
    ASSUME OneVacuum, IInv, DerivedInv, [Next]_vars PROVE DerivedInv'
<1> SUFFICES ASSUME NEW u \in Writers, pc'[u] \in Drafted PROVE FollowsBase(u)'
  BY DEF DerivedInv
<1> USE DEF IInv
<1>1. CASE Prologue(u)
  BY <1>1, PrologueFollows
<1>2. CASE pc[u] \in Drafted /\ base'[u] = base[u] /\ draft'[u] = draft[u]
  <2>1. draft[u] \in 0..lastId /\ base[u].seq <= head.seq
    BY <1>2 DEF CallInv, CallOK
  <2>2. base[u].seq \in Nat /\ head.seq \in Nat /\ lastId \in Nat
    BY ConstantsAssumption DEF TypeOK, Heads, Seqs, Ids
  <2>3. base[u].seq \in 0..base[u].seq /\ 0..base[u].seq \subseteq 0..head.seq
    BY <2>1, <2>2
  <2>4. \A s \in 0..base[u].seq : slots'[s] = slots[s] /\ slots[s] \in 0..lastId
    BY <2>3, StepHistory, SlotType
  <2>5. /\ manifest'[draft'[u]] = manifest[draft[u]]
        /\ \A s \in 0..base[u].seq : manifest'[slots'[s]] = manifest[slots[s]]
    BY <1>2, <2>1, <2>4, StepHistory
  <2>6. FollowsBase(u)
    BY <1>2 DEF DerivedInv
  <2>7. QED
    BY <1>2, <2>3, <2>5, <2>6 DEF FollowsBase
<1>3. QED
  BY <1>1, <1>2, StepKeeps DEF HasDraft

(* A step of the protocol is a commit of the table, or invisible. *)
LEMMA StepRefines ==
    ASSUME OneVacuum, IInv, DerivedInv, [Next]_vars PROVE [Table!Next]_(Table!vars)
<1> USE DEF IInv
<1>1. head.seq \in Nat /\ head.seq \in 0..head.seq
  BY DEF TypeOK, Heads, Seqs
<1>2. \A s \in 0..head.seq : slots[s] \in 0..lastId /\ slots'[s] = slots[s]
                             /\ manifest'[slots'[s]] = manifest[slots[s]]
  BY StepHistory, SlotType
<1>3. CASE head' = head
  <2>1. Visible' = Visible
    BY <1>2, <1>3 DEF Visible
  <2>2. QED
    BY <1>3, <2>1 DEF Table!vars
<1>4. CASE \E w \in Writers : SwapOf(w)
  <2>1. PICK w \in Writers : SwapOf(w)
    BY <1>4
  <2>2. /\ head = base[w] /\ slots[head.seq + 1] = draft[w] /\ draft[w] \in Ids
        /\ FollowsBase(w)
    BY <2>1 DEF SwapOf, CallInv, CallOK, DerivedInv, Drafted, TypeOK
  <2>3. head'.seq = head.seq + 1
    BY <2>1, <2>2 DEF SwapOf
  <2> DEFINE m == manifest[draft[w]]
             new == [op |-> m.op, rows |-> m.rows]
  <2>4. m \in Manifests
    BY <2>2 DEF TypeOK
  <2>5. new \in Table!Version
    BY <2>4 DEF Table!Version, Manifests, Ops
  <2>6. \A s \in 0..head.seq : Visible[s] = [op |-> manifest[slots[s]].op,
                                             rows |-> manifest[slots[s]].rows]
    BY DEF Visible
  <2>7. Visible' = [i \in 0..head.seq + 1 |-> IF i <= head.seq THEN Visible[i] ELSE new]
    <3>1. \A i \in 0..head.seq + 1 : ~(i <= head.seq) => i = head.seq + 1
      BY <1>1
    <3>2. \A i \in 0..head.seq + 1 : i <= head.seq => i \in 0..head.seq
      BY <1>1
    <3>3. slots' = slots /\ manifest' = manifest
      BY <2>1 DEF SwapOf
    <3>4. Visible' = [i \in 0..head.seq + 1 |-> [op |-> manifest[slots[i]].op,
                                                 rows |-> manifest[slots[i]].rows]]
      BY <2>3, <3>3 DEF Visible
    <3>5. \A i \in 0..head.seq + 1 :
             [op |-> manifest[slots[i]].op, rows |-> manifest[slots[i]].rows]
               = IF i <= head.seq THEN Visible[i] ELSE new
      BY <2>2, <2>6, <3>1, <3>2
    <3>6. QED
      BY <3>4, <3>5
  <2>8. Table!Derived(m.op, m.rows)
    <3>1. ASSUME NEW t \in 0..head.seq PROVE Visible[t].rows = manifest[slots[t]].rows
      BY DEF Visible
    <3>2. Visible[head.seq].rows = manifest[slots[head.seq]].rows
      BY <1>1, <3>1
    <3>3. QED
      BY <2>2, <3>1, <3>2 DEF FollowsBase, Table!Derived
  <2>9. Table!Commit
    BY <2>3, <2>5, <2>7, <2>8 DEF Table!Commit
  <2>10. QED
    BY <2>9 DEF Table!Next
<1>5. QED
  BY <1>3, <1>4, StepHistory

(* Commits on an object store implement the abstract table: each HEAD swap *)
(* adds one version derived from the one below it, and no version ever     *)
(* changes or goes away.                                                   *)
THEOREM ImplementsTableProved == ASSUME OneVacuum PROVE Spec => ImplementsTable
<1>1. Init => IInv /\ DerivedInv
  BY InitIInv DEF Init, DerivedInv, Drafted
<1>2. Init => Table!Init
  <2> SUFFICES ASSUME Init PROVE Table!Init
    OBVIOUS
  <2>1. head.seq = 0 /\ slots[0] = 0 /\ manifest[0] = Version0
    BY DefaultTypes DEF Init
  <2>2. 0..0 = {0}
    OBVIOUS
  <2>3. Visible = [i \in {0} |-> [op |-> "create", rows |-> {}]]
    BY <2>1, <2>2 DEF Visible, Version0
  <2>4. QED
    BY <2>1, <2>3 DEF Table!Init
<1>3. IInv /\ DerivedInv /\ [Next]_vars => IInv' /\ DerivedInv' /\ [Table!Next]_(Table!vars)
  BY NextIInv, NextDerived, StepRefines
<1>4. QED
  BY <1>1, <1>2, <1>3, PTL DEF Spec, ImplementsTable, Table!Spec

-----------------------------------------------------------------------------
(***************************************************************************)
(* Schemas.                                                                *)
(***************************************************************************)
(* Who is in a call after a step was in it before, or has just begun it.   *)
LEMMA StepCalls ==
    ASSUME TypeOK, [Next]_vars
    PROVE  \A u \in Writers : pc'[u] # "idle" =>
              \/ Begin(u)
              \/ pc[u] # "idle" /\ req'[u].op = req[u].op /\ req'[u].payload = req[u].payload
<1> USE DEF TypeOK
<1>1. CASE UNCHANGED callVars
  BY <1>1 DEF callVars
<1>2. ASSUME NEW w \in Writers, Begin(w) \/ Step(w) \/ Fault(w),
             NEW u \in Writers, pc'[u] # "idle"
      PROVE  \/ Begin(u)
             \/ pc[u] # "idle" /\ req'[u].op = req[u].op /\ req'[u].payload = req[u].payload
  <2>1. CASE Begin(w)
    <3>1. CASE u = w
      BY <2>1, <3>1
    <3>2. CASE u # w
      <4>1. pc'[u] = pc[u] /\ req'[u] = req[u]
        BY <2>1, <3>2 DEF Begin, Goto
      <4>2. QED
        BY <1>2, <4>1
    <3>3. QED
      BY <3>1, <3>2
  <2>2. ASSUME Return(w) PROVE u # w /\ pc'[u] = pc[u] /\ req'[u] = req[u]
    BY <1>2, <2>2, ReturnLeaves DEF Leaves, CallTypes
  <2>3. ASSUME Conflict(w), pc[w] # "idle"
        PROVE  pc[u] # "idle" /\ req'[u].op = req[u].op /\ req'[u].payload = req[u].payload
    BY <1>2, <2>3, ConflictLeaves DEF Leaves, CallTypes
  <2>4. ASSUME NEW p \in PCs, Goto(w, p), UNCHANGED req, pc[w] # "idle"
        PROVE  pc[u] # "idle" /\ req'[u] = req[u]
    BY <1>2, <2>4 DEF Goto
  <2>5. CASE Replay(w) \/ PrologueFails(w) \/ Fault(w) \/ Prologue(w)
    BY <1>2, <2>2, <2>4, <2>5 DEF Replay, PrologueFails, Fault, Prologue, PCs
  <2>6. CASE Recheck(w) \/ Revalidate(w) \/ CreateSlot(w) \/ SwapHead(w) \/ PutSpec(w)
    BY <1>2, <2>2, <2>3, <2>4, <2>6
       DEF Recheck, Revalidate, CreateSlot, SwapHead, PutSpec, PCs
  <2>7. QED
    BY <1>2, <2>1, <2>5, <2>6 DEF Step
<1>3. QED
  BY <1>1, <1>2, VacuumKeeps DEF Next, vars

(* Keys stay apart. *)
LEMMA NextKeys == ASSUME TypeOK, KeyInv, [Next]_vars PROVE KeyInv'
<1>1. CASE \E w \in Writers : Begin(w)
  <2>1. PICK w \in Writers : Begin(w)
    BY <1>1
  <2>2. PICK c \in Calls, target \in Schemas :
          /\ \A x \in Writers : pc[x] # "idle" => req[x].payload # c.payload
          /\ req' = [req EXCEPT ![w] = [op |-> c.op, payload |-> c.payload,
                                        left |-> IF c.op = "append" THEN MaxRetries ELSE 0,
                                        schema |-> target]]
    BY <2>1 DEF Begin
  <2>3. req'[w].op = c.op /\ req'[w].payload = c.payload
    BY <2>2 DEF TypeOK
  <2>4. [op |-> c.op, payload |-> c.payload] = c
    BY ConstantsAssumption
  <2>5. \A u \in Writers \ {w} : pc'[u] = pc[u] /\ req'[u] = req[u]
    BY <2>1, <2>2 DEF Begin, Goto, TypeOK
  <2>6. QED
    BY <2>2, <2>3, <2>4, <2>5 DEF KeyInv
<1>2. CASE \A w \in Writers : ~Begin(w)
  <2>1. \A u \in Writers : pc'[u] # "idle" =>
           pc[u] # "idle" /\ req'[u].op = req[u].op /\ req'[u].payload = req[u].payload
    BY <1>2, StepCalls
  <2>2. QED
    BY <2>1 DEF KeyInv
<1>3. QED
  BY <1>1, <1>2

(* So at most one evolution is in flight. *)
LEMMA OneEvolving ==
    ASSUME OneEvolution, KeyInv, NEW u \in Writers, NEW w \in Writers,
           pc[u] # "idle", pc[w] # "idle", req[u].op = "evolve", req[w].op = "evolve"
    PROVE  u = w
<1>1. /\ [op |-> "evolve", payload |-> req[u].payload] \in Calls
      /\ [op |-> "evolve", payload |-> req[w].payload] \in Calls
  BY DEF KeyInv
<1>2. req[u].payload = req[w].payload
  BY <1>1 DEF OneEvolution
<1>3. QED
  BY <1>2 DEF KeyInv

(* A call that puts its spec object, acknowledged or not. *)
WritesSpec(w) ==
    /\ pc[w] = "spec"
    /\ spec' = [spec EXCEPT ![manifest[draft[w]].rev] = req[w].schema]
    /\ UNCHANGED <<head, slots, manifest>>

(* Spec objects change by that step alone. *)
LEMMA StepSpec ==
    ASSUME [Next]_vars PROVE UNCHANGED spec \/ \E w \in Writers : WritesSpec(w)
<1>1. ASSUME NEW w \in Writers, Begin(w) \/ Step(w) PROVE UNCHANGED spec \/ WritesSpec(w)
  BY <1>1 DEF Begin, Step, Replay, Prologue, PrologueFails, Recheck, PutSpec, Revalidate,
              CreateSlot, SwapHead, WritesSpec, storeVars
<1>2. ASSUME NEW w \in Writers, Fault(w) PROVE UNCHANGED spec \/ WritesSpec(w)
  BY <1>2 DEF Fault, WritesSpec, storeVars
<1>3. QED
  BY <1>1, <1>2, VacuumKeeps DEF Next, vars, storeVars

(* A new draft has the revision of HEAD and its schema, or the next revision. *)
LEMMA PrologueSchema ==
    ASSUME IInv, SchemaInv, RestoreAcross = FALSE, NEW w \in Writers, Prologue(w)
    PROVE  SchemaOK(w)'
<1> USE DEF IInv
<1> DEFINE parent == manifest[slots[head.seq]]
           child == [op |-> req[w].op, parent |-> head.sum, rows |-> parent.rows,
                     key |-> req[w].payload, rev |-> parent.rev, made |-> spec[parent.rev]]
<1>1. PICK m \in Derived(w) : manifest' = [manifest EXCEPT ![lastId + 1] = m]
  BY DEF Prologue
<1>2. /\ manifest'[draft'[w]] = m /\ base'[w] = head /\ UNCHANGED <<slots, head, spec, req>>
      /\ manifest'[slots'[head.seq]] = parent
  <2>1. lastId + 1 \in Ids /\ lastId \in Nat
    BY ConstantsAssumption DEF Prologue, TypeOK, Ids
  <2>2. slots[head.seq] \in Ids /\ slots[head.seq] # lastId + 1
    BY <2>1, HistoryType DEF HistoryInv, TypeOK, Heads, Seqs
  <2>3. QED
    BY <1>1, <2>1, <2>2 DEF Prologue, TypeOK
<1>3. req[w].op \in Ops
  BY DEF TypeOK, Requests
<1>4. pc'[w] = IF req[w].op = "evolve" THEN "recheck" ELSE "revalidate"
  BY DEF Prologue, Goto, TypeOK
<1>5. CASE req[w].op = "append" \/ req[w].op = "write"
  <2>1. m.rev = parent.rev /\ m.made = spec[parent.rev]
    <3>1. CASE req[w].op = "append"
      BY <3>1 DEF Derived
    <3>2. CASE req[w].op = "write"
      BY <3>2 DEF Derived
    <3>3. QED
      BY <1>5, <3>1, <3>2
  <2>2. QED
    BY <1>2, <1>4, <1>5, <2>1 DEF SchemaOK, RevOf, Drafted, SpecPut
<1>6. CASE req[w].op = "restore"
  <2>1. PICK s \in 0..head.seq :
          /\ manifest[slots[s]].rev = parent.rev
          /\ m = [child EXCEPT !.rows = manifest[slots[s]].rows, !.rev = manifest[slots[s]].rev,
                               !.made = manifest[slots[s]].made]
    BY <1>6 DEF Derived
  <2>2. m.rev = parent.rev /\ m.made = manifest[slots[s]].made
    BY <2>1
  <2>3. spec[parent.rev] = manifest[slots[s]].made
    BY <2>1 DEF SchemaInv, RevOf
  <2>4. QED
    BY <1>2, <1>4, <1>6, <2>2, <2>3 DEF SchemaOK, RevOf, Drafted, SpecPut
<1>7. CASE req[w].op = "evolve"
  <2>1. m = [child EXCEPT !.key = None, !.rev = NextRev(@), !.made = req[w].schema]
    BY <1>7 DEF Derived
  <2>2. m.rev = parent.rev + 1 /\ m.made = req[w].schema
    BY <2>1 DEF NextRev
  <2>3. QED
    BY <1>2, <1>4, <1>7, <2>2 DEF SchemaOK, RevOf, Drafted, SpecPut
<1>8. QED
  BY <1>3, <1>5, <1>6, <1>7 DEF Ops

(* The revision of HEAD after a step: the draft's, if the step is a swap. *)
LEMMA SwapRevision ==
    ASSUME OneVacuum, IInv, SchemaInv, NEW w \in Writers, SwapOf(w), [Next]_vars
    PROVE  /\ head'.seq = head.seq + 1
           /\ RevOf(head.seq)' = manifest[draft[w]].rev
           /\ manifest'[slots'[head'.seq]] = manifest[draft[w]]
           /\ RevOf(head.seq) <= manifest[draft[w]].rev
           /\ req[w].op # "evolve" => manifest[draft[w]].rev = RevOf(head.seq)
           /\ spec[manifest[draft[w]].rev] = manifest[draft[w]].made
<1> USE DEF IInv
<1>1. head = base[w] /\ slots[head.seq + 1] = draft[w]
  BY DEF SwapOf, CallInv, CallOK, Drafted
<1>2. SchemaOK(w) /\ pc[w] \in Drafted /\ pc[w] \in SpecPut
  BY DEF SchemaInv, SwapOf, Drafted, SpecPut
<1>3. head.seq \in 0..head.seq
  BY DEF TypeOK, Heads, Seqs
<1>4. RevOf(head.seq) \in Nat
  <2>1. slots[head.seq] \in Ids
    BY <1>3, HistoryType DEF HistoryInv, TypeOK
  <2>2. QED
    BY <2>1 DEF RevOf, TypeOK, Manifests, Revs
<1>5. QED
  BY <1>1, <1>2, <1>4 DEF SwapOf, RevOf, SchemaOK

(* Every step keeps revisions in order and their spec objects as they were. *)
LEMMA NextSchema ==
    ASSUME OneVacuum, OneEvolution, RestoreAcross = FALSE, IInv, SchemaInv, KeyInv, [Next]_vars
    PROVE  SchemaInv'
<1> USE DEF IInv
<1>1. /\ head.seq \in Nat /\ head.seq \in 0..head.seq
      /\ \A s \in 0..head.seq : slots[s] \in 0..lastId /\ slots'[s] = slots[s]
                                /\ manifest'[slots'[s]] = manifest[slots[s]]
                                /\ RevOf(s)' = RevOf(s)
                                /\ RevOf(s) \in Revs /\ RevOf(s) \in Nat
  <2>1. \A s \in 0..head.seq : slots[s] \in 0..lastId /\ slots'[s] = slots[s]
                               /\ manifest'[slots'[s]] = manifest[slots[s]]
    BY StepHistory, SlotType
  <2>2. 0..lastId \subseteq Ids
    BY ConstantsAssumption DEF TypeOK, Ids
  <2>3. \A s \in 0..head.seq : RevOf(s) \in Revs /\ RevOf(s) \in Nat
    BY <2>1, <2>2 DEF RevOf, TypeOK, Manifests, Revs
  <2>4. QED
    BY <2>1, <2>3 DEF RevOf, TypeOK, Heads, Seqs
<1>2. ASSUME NEW u \in Writers, pc[u] \in Drafted
      PROVE  /\ manifest'[draft[u]] = manifest[draft[u]]
             /\ base[u].seq \in 0..head.seq
             /\ manifest[draft[u]].rev \in Revs
  <2>1. draft[u] \in 1..lastId /\ base[u].seq <= head.seq
    BY <1>2 DEF CallInv, CallOK
  <2>2. draft[u] \in 0..lastId /\ lastId \in Nat
    BY <2>1 DEF TypeOK, Ids
  <2>3. QED
    BY <2>1, <2>2, StepHistory DEF TypeOK, Heads, Seqs, Manifests
<1>3. ASSUME NEW w \in Writers, WritesSpec(w)
      PROVE  /\ \A s \in 0..head.seq : spec'[RevOf(s)] = spec[RevOf(s)]
             /\ \A u \in Writers \ {w} : pc[u] \in SpecPut =>
                   spec'[manifest[draft[u]].rev] = spec[manifest[draft[u]].rev]
             /\ spec'[manifest[draft[w]].rev] = req[w].schema
             /\ manifest[draft[w]].made = req[w].schema
  <2>1. /\ req[w].op = "evolve" /\ manifest[draft[w]].rev = RevOf(head.seq) + 1
        /\ manifest[draft[w]].made = req[w].schema
    BY <1>3 DEF SchemaInv, SchemaOK, WritesSpec, Drafted
  <2>2. \A s \in 0..head.seq : RevOf(s) <= RevOf(head.seq)
    BY DEF SchemaInv
  <2>3. \A s \in 0..head.seq : RevOf(s) # manifest[draft[w]].rev
    BY <1>1, <2>1, <2>2
  <2>4. \A r \in Revs : r # manifest[draft[w]].rev => spec'[r] = spec[r]
    BY <1>3 DEF WritesSpec, TypeOK
  <2>5. ASSUME NEW u \in Writers \ {w}, pc[u] \in SpecPut
        PROVE  spec'[manifest[draft[u]].rev] = spec[manifest[draft[u]].rev]
    <3>1. pc[u] \in Drafted /\ pc[u] # "idle" /\ pc[w] # "idle"
      BY <1>3, <2>5 DEF Drafted, SpecPut, WritesSpec
    <3>2. req[u].op # "evolve"
      BY <2>1, <3>1, OneEvolving
    <3>3. manifest[draft[u]].rev = RevOf(base[u].seq)
      BY <3>1, <3>2 DEF SchemaInv, SchemaOK
    <3>4. QED
      BY <1>1, <1>2, <2>3, <2>4, <3>1, <3>3
  <2>6. manifest[draft[w]].rev \in Revs
    BY <1>2, <1>3 DEF WritesSpec, Drafted
  <2>7. QED
    BY <1>1, <1>3, <2>1, <2>3, <2>4, <2>5, <2>6 DEF WritesSpec, TypeOK
<1>4. \A s \in 0..head.seq : spec'[RevOf(s)] = spec[RevOf(s)]
  BY <1>3, StepSpec
<1>5. \A s \in 0..head'.seq :
         RevOf(s)' <= RevOf(head.seq)' /\ spec'[RevOf(s)'] = manifest'[slots'[s]].made
  <2>1. CASE head' = head
    <3>1. RevOf(head.seq)' = RevOf(head.seq)
      BY <1>1, <2>1 DEF RevOf
    <3>2. QED
      BY <1>1, <1>4, <2>1, <3>1 DEF SchemaInv
  <2>2. ASSUME NEW w \in Writers, SwapOf(w), NEW s \in 0..head'.seq
        PROVE  RevOf(s)' <= RevOf(head.seq)' /\ spec'[RevOf(s)'] = manifest'[slots'[s]].made
    <3>1. /\ head'.seq = head.seq + 1
          /\ RevOf(head.seq)' = manifest[draft[w]].rev
          /\ manifest'[slots'[head'.seq]] = manifest[draft[w]]
          /\ RevOf(head.seq) <= manifest[draft[w]].rev
          /\ spec[manifest[draft[w]].rev] = manifest[draft[w]].made
      BY <2>2, SwapRevision
    <3>2. spec' = spec /\ manifest[draft[w]].rev \in Nat
      BY <1>2, <2>2 DEF SwapOf, Drafted, Revs
    <3>3. CASE s = head'.seq
      BY <3>1, <3>2, <3>3
    <3>4. CASE s # head'.seq
      <4>1. s \in 0..head.seq
        BY <1>1, <2>2, <3>1, <3>4
      <4>2. RevOf(s) <= RevOf(head.seq) /\ spec[RevOf(s)] = manifest[slots[s]].made
        BY <4>1 DEF SchemaInv
      <4>3. QED
        BY <1>1, <3>1, <3>2, <4>1, <4>2
    <3>5. QED
      BY <3>3, <3>4
  <2>3. QED
    BY <2>1, <2>2, StepHistory
<1>6. ASSUME NEW u \in Writers, HasDraft(u), pc'[u] \in Drafted PROVE SchemaOK(u)'
  <2>1. /\ SchemaOK(u) /\ pc[u] \in Drafted /\ pc[u] # "idle"
        /\ req'[u] = req[u] /\ base'[u] = base[u] /\ draft'[u] = draft[u]
        /\ manifest'[draft'[u]] = manifest[draft[u]]
        /\ RevOf(base[u].seq)' = RevOf(base[u].seq)
    BY <1>1, <1>2, <1>6 DEF HasDraft, SchemaInv, Drafted
  <2>2. req[u].op = "evolve" => RevOf(head.seq)' = RevOf(head.seq)
    <3>1. CASE head' = head
      BY <1>1, <3>1 DEF RevOf
    <3>2. ASSUME NEW w \in Writers, SwapOf(w), w # u, req[u].op = "evolve"
          PROVE  RevOf(head.seq)' = RevOf(head.seq)
      <4>1. req[w].op # "evolve"
        BY <2>1, <3>2, OneEvolving DEF SwapOf
      <4>2. QED
        BY <3>2, <4>1, SwapRevision
    <3>3. ASSUME SwapOf(u) PROVE FALSE
      <4>1. pc[u] = "swap" /\ head' # head /\ head = base[u]
        BY <3>3 DEF SwapOf, CallInv, CallOK, Drafted, TypeOK, Heads, Seqs
      <4>2. pc'[u] = "idle"
        <5>1. ASSUME NEW x \in Writers, Begin(x) \/ Replay(x) \/ PrologueFails(x) \/ Recheck(x)
                        \/ PutSpec(x) \/ Revalidate(x) \/ Prologue(x) \/ CreateSlot(x)
              PROVE  FALSE
          BY <4>1, <5>1 DEF Begin, Replay, PrologueFails, Recheck, PutSpec, Revalidate,
                            Prologue, CreateSlot, storeVars
        <5>2. ASSUME NEW x \in Writers, SwapHead(x) \/ Fault(x), x # u PROVE FALSE
          <6>1. pc[x] = "swap" /\ pc[x] \in Drafted
            BY <4>1, <5>2 DEF SwapHead, Fault, storeVars, Drafted
          <6>2. /\ slots[base[x].seq + 1] = draft[x] /\ head = base[x]
                /\ slots[base[u].seq + 1] = draft[u]
            BY <4>1, <6>1 DEF CallInv, CallOK, Drafted
          <6>3. draft[x] # draft[u]
            BY <2>1, <5>2, <6>1 DEF CallInv, CallOK
          <6>4. QED
            BY <4>1, <6>2, <6>3
        <5>3. ASSUME SwapHead(u) \/ Fault(u) PROVE pc'[u] = "idle"
          BY <4>1, <5>3 DEF SwapHead, Fault, Return, Goto, TypeOK
        <5>4. ASSUME NEW v \in Vacuums, VacuumStart(v) \/ Vacuum(v) PROVE FALSE
          BY <4>1, <5>4 DEF VacuumStart, Vacuum, VacuumHead, VacuumList, VacuumDelete, storeVars
        <5>5. QED
          BY <4>1, <5>1, <5>2, <5>3, <5>4 DEF Next, Step, vars, storeVars
      <4>3. QED
        BY <1>6, <4>2 DEF Drafted
    <3>4. QED
      BY <3>1, <3>2, <3>3, StepHistory
  <2>3. pc'[u] \in SpecPut => spec'[manifest[draft[u]].rev] = manifest[draft[u]].made
    <3>1. ASSUME pc[u] \in SpecPut PROVE spec'[manifest[draft[u]].rev] = manifest[draft[u]].made
      <4>1. spec[manifest[draft[u]].rev] = manifest[draft[u]].made
        BY <2>1, <3>1 DEF SchemaOK
      <4>2. ASSUME NEW w \in Writers, WritesSpec(w) PROVE w # u
        BY <3>1, <4>2 DEF WritesSpec, SpecPut
      <4>3. QED
        BY <1>3, <3>1, <4>1, <4>2, StepSpec
    <3>2. ASSUME PutSpec(u) PROVE spec'[manifest[draft[u]].rev] = manifest[draft[u]].made
      <4>1. WritesSpec(u)
        BY <3>2 DEF PutSpec, WritesSpec
      <4>2. QED
        BY <1>3, <4>1
    <3>3. QED
      BY <1>6, <3>1, <3>2 DEF HasDraft
  <2>4. pc'[u] \in {"recheck", "spec"} => req[u].op = "evolve"
    BY <1>6, <2>1 DEF HasDraft, SchemaOK
  <2>5. QED
    BY <2>1, <2>2, <2>3, <2>4 DEF SchemaOK
<1>7. ASSUME NEW u \in Writers PROVE SchemaOK(u)'
  <2>1. CASE pc'[u] \notin Drafted
    BY <2>1 DEF SchemaOK, Drafted, SpecPut
  <2>2. QED
    BY <1>6, <2>1, StepKeeps, PrologueSchema
<1>8. QED
  BY <1>5, <1>7 DEF SchemaInv

(* Every version is read with the schema it was committed with, as long as *)
(* evolutions do not overlap and restore stays within a revision:          *)
(* evolve_schema only ever overwrites the spec of a revision above every   *)
(* committed one.                                                          *)
THEOREM SchemaKept ==
    ASSUME OneVacuum, OneEvolution, RestoreAcross = FALSE PROVE Spec => []SchemaStable
<1>1. Init => IInv /\ SchemaInv /\ KeyInv
  <2> SUFFICES ASSUME Init PROVE SchemaInv /\ KeyInv
    BY InitIInv
  <2>1. head.seq = 0 /\ slots[0] = 0 /\ manifest[0] = Version0 /\ spec[1] = InitSchema
    BY DefaultTypes, ConstantsAssumption DEF Init, Revs
  <2>2. \A s \in 0..head.seq : s = 0
    BY <2>1
  <2>3. \A w \in Writers : pc[w] = "idle"
    BY DEF Init
  <2>4. QED
    BY <2>1, <2>2, <2>3 DEF SchemaInv, SchemaOK, KeyInv, RevOf, Version0, Drafted, SpecPut
<1>2. IInv /\ SchemaInv /\ KeyInv /\ [Next]_vars => (IInv /\ SchemaInv /\ KeyInv)'
  <2>1. IInv => TypeOK
    BY DEF IInv
  <2>2. QED
    BY <2>1, NextIInv, NextSchema, NextKeys
<1>3. SchemaInv => SchemaStable
  BY DEF SchemaInv, SchemaStable, History, RevOf
<1>4. QED
  BY <1>1, <1>2, <1>3, PTL DEF Spec
=============================================================================
