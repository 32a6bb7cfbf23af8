-------------------------- MODULE ObjectStoreCommit --------------------------
(***************************************************************************)
(* The commit protocol of one table on an object store.  There are no      *)
(* locks (meta_lock is a no-op guard): a manifest slot is created only if  *)
(* absent, and HEAD is swapped on the ETag its reader saw.  Writers run    *)
(* append (with retries), write, restore and evolve_schema concurrently, a *)
(* response of the store may be lost after the request took effect, and    *)
(* vacuum clears the slots that dead writers left above HEAD.              *)
(*                                                                         *)
(* A commit attempt is a number, which is the checksum of the manifest it  *)
(* publishes (the manifest has the attempt's fresh segment names in it).   *)
(* A PUT is durable when the store acknowledges it, so there is no power   *)
(* loss here.  HEAD's ETag changes with every put, and a HEAD content      *)
(* never comes back, so the content stands for the tag.                    *)
(***************************************************************************)
EXTENDS Integers, FiniteSets

CONSTANTS Writers,          \* concurrent callers
          Vacuums,          \* concurrent runs of vacuum
          None,             \* no object
          Payloads,         \* row batches; an append uses its payload's name as key
          Calls,            \* the calls callers make: operation and payload
          Schemas,          \* the schemas a table may have; the first is InitSchema
          InitSchema,
          Evolutions,       \* <<old, new>>: what validate_evolution accepts and calls a change
          MaxId,            \* bound: commit attempts
          MaxSeq,           \* bound: highest version
          MaxFault,         \* bound: crashes and lost responses
          MaxRetries,       \* append_with_retry's max_retries
          RestoreAcross     \* may restore go back to another schema revision

VARIABLES
    head,           \* the HEAD object: [seq, sum]
    slots,          \* the manifest slots
    manifest,       \* manifests by attempt
    spec,           \* spec objects by revision
    pc, req, base, draft,   \* each writer's place, call, HEAD it read, attempt
    lastId,
    acked,          \* attempts whose caller got Ok
    refused,        \* attempts whose caller got VersionConflict
    vpc, scan,      \* each vacuum's place and what it has read
    faults

storeVars == <<head, slots, manifest, spec>>
callVars == <<pc, req, base, draft>>
resultVars == <<acked, refused>>
vacuumVars == <<vpc, scan>>
vars == <<storeVars, callVars, lastId, resultVars, vacuumVars, faults>>

-----------------------------------------------------------------------------
Seqs == 0..MaxSeq
Ids == 0..MaxId
Revs == 1..MaxSeq + 1
Ops == {"append", "write", "restore", "evolve"}

ASSUME ConstantsAssumption ==
    /\ Payloads # {}
    /\ None \notin Payloads \cup Schemas \cup Nat
    /\ InitSchema \in Schemas
    /\ Evolutions \subseteq Schemas \X Schemas
    /\ Calls \subseteq [op : Ops, payload : Payloads]
    /\ MaxId \in Nat /\ MaxSeq \in Nat \ {0} /\ MaxFault \in Nat
    /\ MaxRetries \in Nat
    /\ RestoreAcross \in BOOLEAN

Heads == [seq : Seqs, sum : Ids]
Manifests == [op : Ops \cup {"create"}, parent : Ids \cup {None}, rows : SUBSET Payloads,
              key : Payloads \cup {None}, rev : Revs, made : Schemas]
Requests == [op : Ops, payload : Payloads, left : 0..MaxRetries, schema : Schemas]
Scans == [aged : SUBSET Ids, head : Seqs, doomed : SUBSET Seqs]
PCs == {"idle", "replay", "prologue", "recheck", "spec", "revalidate", "slot", "swap"}
VPCs == {"idle", "head", "list", "delete"}

TypeOK ==
    /\ head \in Heads
    /\ slots \in [Seqs -> Ids \cup {None}]
    /\ manifest \in [Ids -> Manifests]
    /\ spec \in [Revs -> Schemas \cup {None}]
    /\ pc \in [Writers -> PCs]
    /\ req \in [Writers -> Requests]
    /\ base \in [Writers -> Heads]
    /\ draft \in [Writers -> Ids]
    /\ lastId \in Ids
    /\ acked \subseteq Ids
    /\ refused \subseteq Ids
    /\ vpc \in [Vacuums -> VPCs]
    /\ scan \in [Vacuums -> Scans]
    /\ faults \in 0..MaxFault

Version0 == [op |-> "create", parent |-> None, rows |-> {}, key |-> None, rev |-> 1,
             made |-> InitSchema]
Head0 == [seq |-> 0, sum |-> 0]
NoCall == [op |-> "append", payload |-> CHOOSE p \in Payloads : TRUE, left |-> 0,
           schema |-> InitSchema]
NoScan == [aged |-> {}, head |-> 0, doomed |-> {}]

(* create_tables has published version 0: slot, HEAD, spec revision 1. *)
Init ==
    /\ head = Head0
    /\ slots = [s \in Seqs |-> IF s = 0 THEN 0 ELSE None]
    /\ manifest = [i \in Ids |-> Version0]
    /\ spec = [r \in Revs |-> IF r = 1 THEN InitSchema ELSE None]
    /\ pc = [w \in Writers |-> "idle"]
    /\ req = [w \in Writers |-> NoCall]
    /\ base = [w \in Writers |-> Head0]
    /\ draft = [w \in Writers |-> 0]
    /\ lastId = 0
    /\ acked = {0}
    /\ refused = {}
    /\ vpc = [v \in Vacuums |-> "idle"]
    /\ scan = [v \in Vacuums |-> NoScan]
    /\ faults = 0

-----------------------------------------------------------------------------
Goto(w, p) == pc' = [pc EXCEPT ![w] = p]

(* The call returns, with whatever result: its memory is gone. *)
Return(w) ==
    /\ Goto(w, "idle")
    /\ req' = [req EXCEPT ![w] = NoCall]
    /\ base' = [base EXCEPT ![w] = Head0]
    /\ draft' = [draft EXCEPT ![w] = 0]

(* VersionConflict: append_with_retry runs append again, others return it. *)
Conflict(w) ==
    /\ refused' = IF draft[w] = 0 THEN refused ELSE refused \cup {draft[w]}
    /\ \/ /\ req[w].left > 0
          /\ Goto(w, "replay")
          /\ req' = [req EXCEPT ![w].left = @ - 1]
          /\ base' = [base EXCEPT ![w] = Head0]
          /\ draft' = [draft EXCEPT ![w] = 0]
       \/ req[w].left = 0 /\ Return(w)

Live(id) == \E w \in Writers : pc[w] # "idle" /\ draft[w] = id

(***************************************************************************)
(* A caller starts a call.  Its key is not in use by a call in flight, and *)
(* evolve_schema asks for a schema the table does not have yet.            *)
(***************************************************************************)
Begin(w) ==
    /\ pc[w] = "idle"
    /\ lastId < MaxId
    /\ \E c \in Calls, target \in Schemas :
          /\ \A x \in Writers : pc[x] # "idle" => req[x].payload # c.payload
          /\ (c.op = "evolve") = (target # InitSchema)
          /\ req' = [req EXCEPT ![w] = [op |-> c.op, payload |-> c.payload,
                                        left |-> IF c.op = "append" THEN MaxRetries ELSE 0,
                                        schema |-> target]]
          /\ Goto(w, IF c.op = "evolve" THEN "prologue" ELSE "replay")
    /\ UNCHANGED <<storeVars, base, draft, lastId, resultVars, vacuumVars, faults>>

(* The committed versions, by the slots HEAD covers. *)
History == {slots[s] : s \in 0..head.seq} \ {None}
KeyedBy(p) == {i \in History : manifest[i].key = p}

(* idempotent_replay: the key is in the history, and the call returns that commit. *)
Replay(w) ==
    /\ pc[w] = "replay"
    /\ \/ /\ KeyedBy(req[w].payload) # {}
          /\ acked' = acked \cup {CHOOSE i \in KeyedBy(req[w].payload) : TRUE}
          /\ Return(w)
       \/ /\ KeyedBy(req[w].payload) = {}
          /\ Goto(w, "prologue")
          /\ UNCHANGED <<acked, req, base, draft>>
    /\ UNCHANGED <<storeVars, lastId, refused, vacuumVars, faults>>

(* Mutant: an append writes its batch alone. *)
AppendedAlone(rows, payload) == {payload}
Appended(rows, payload) == rows \cup {payload}

(* Mutant: the evolved schema takes the current revision's place. *)
SameRev(rev) == rev
NextRev(rev) == rev + 1

(***************************************************************************)
(* write_prologue reads HEAD, its manifest and its spec; the operation     *)
(* then builds the manifest that follows it.                               *)
(***************************************************************************)
Derived(w) ==
    LET parent == manifest[slots[head.seq]]
        child == [op |-> req[w].op, parent |-> head.sum, rows |-> parent.rows,
                  key |-> req[w].payload, rev |-> parent.rev, made |-> spec[parent.rev]]
    IN  CASE req[w].op = "append" -> {[child EXCEPT !.rows = Appended(@, req[w].payload)]}
          [] req[w].op = "write" -> {[child EXCEPT !.rows = {req[w].payload}]}
          [] req[w].op = "restore" ->
                {[child EXCEPT !.rows = manifest[slots[s]].rows,
                               !.rev = manifest[slots[s]].rev,
                               !.made = manifest[slots[s]].made] :
                    s \in {t \in 0..head.seq :
                            /\ slots[t] # None
                            /\ RestoreAcross \/ manifest[slots[t]].rev = parent.rev}}
          [] req[w].op = "evolve" ->
                {[child EXCEPT !.key = None, !.rev = NextRev(@), !.made = req[w].schema]}

(* validate_evolution, of the schema HEAD is read with. *)
Evolves(w) == <<spec[manifest[slots[head.seq]].rev], req[w].schema>> \in Evolutions

Prologue(w) ==
    /\ pc[w] = "prologue"
    /\ slots[head.seq] # None
    /\ head.seq < MaxSeq
    /\ lastId < MaxId
    /\ req[w].op = "evolve" => Evolves(w)
    /\ \E m \in Derived(w) :
          manifest' = [manifest EXCEPT ![lastId + 1] = m]
    /\ lastId' = lastId + 1
    /\ draft' = [draft EXCEPT ![w] = lastId + 1]
    /\ base' = [base EXCEPT ![w] = head]
    /\ Goto(w, IF req[w].op = "evolve" THEN "recheck" ELSE "revalidate")
    /\ UNCHANGED <<head, slots, spec, req, resultVars, vacuumVars, faults>>

(* The call fails before it publishes: the manifest of HEAD is missing, the *)
(* evolution is refused, or a bound of the model is reached.                *)
PrologueFails(w) ==
    /\ pc[w] = "prologue"
    /\ \/ slots[head.seq] = None
       \/ head.seq = MaxSeq
       \/ lastId = MaxId
       \/ req[w].op = "evolve" /\ ~Evolves(w)
    /\ Return(w)
    /\ UNCHANGED <<storeVars, lastId, resultVars, vacuumVars, faults>>

(* evolve_schema compares HEAD again, under a metadata lock that locks nothing. *)
Recheck(w) ==
    /\ pc[w] = "recheck"
    /\ \/ /\ head = base[w]
          /\ Goto(w, "spec")
          /\ UNCHANGED <<req, base, draft, refused>>
       \/ head # base[w] /\ Conflict(w)
    /\ UNCHANGED <<storeVars, lastId, acked, vacuumVars, faults>>

(* ... and puts the spec of the next revision, whatever is there. *)
PutSpec(w) ==
    /\ pc[w] = "spec"
    /\ spec' = [spec EXCEPT ![manifest[draft[w]].rev] = req[w].schema]
    /\ Goto(w, "revalidate")
    /\ UNCHANGED <<head, slots, manifest, req, base, draft, lastId, resultVars, vacuumVars, faults>>

(* commit: a stale caller aborts before it publishes anything. *)
Revalidate(w) ==
    /\ pc[w] = "revalidate"
    /\ \/ /\ head = base[w]
          /\ Goto(w, "slot")
          /\ UNCHANGED <<req, base, draft, refused>>
       \/ head # base[w] /\ Conflict(w)
    /\ UNCHANGED <<storeVars, lastId, acked, vacuumVars, faults>>

(* Mutant: the slot is put whatever is there. *)
CreateSlotOver(w) ==
    /\ pc[w] = "slot"
    /\ slots' = [slots EXCEPT ![base[w].seq + 1] = draft[w]]
    /\ Goto(w, "swap")
    /\ UNCHANGED <<head, manifest, spec, req, base, draft, lastId, resultVars, vacuumVars, faults>>

(* create_manifest_slot: create if absent. *)
CreateSlot(w) ==
    LET seq == base[w].seq + 1
    IN  /\ pc[w] = "slot"
        /\ \/ /\ slots[seq] = None
              /\ slots' = [slots EXCEPT ![seq] = draft[w]]
              /\ Goto(w, "swap")
              /\ UNCHANGED <<req, base, draft, refused>>
           \/ /\ slots[seq] # None
              /\ Conflict(w)
              /\ UNCHANGED slots
        /\ UNCHANGED <<head, manifest, spec, lastId, acked, vacuumVars, faults>>

(* The conditional put of HEAD, and Ok or VersionConflict to the caller. *)
SwapHead(w) ==
    /\ pc[w] = "swap"
    /\ \/ /\ head = base[w]
          /\ head' = [seq |-> base[w].seq + 1, sum |-> draft[w]]
          /\ acked' = acked \cup {draft[w]}
          /\ Return(w)
          /\ UNCHANGED refused
       \/ /\ head # base[w]
          /\ Conflict(w)
          /\ UNCHANGED <<head, acked>>
    /\ UNCHANGED <<slots, manifest, spec, lastId, vacuumVars, faults>>

-----------------------------------------------------------------------------
(***************************************************************************)
(* The process dies, or the store answers with an error that is neither    *)
(* AlreadyExists nor Precondition (a timeout): the caller learns nothing,  *)
(* and the request in flight may have taken effect.                        *)
(***************************************************************************)
Fault(w) ==
    /\ pc[w] \in {"revalidate", "slot", "swap", "spec"}
    /\ faults < MaxFault
    /\ faults' = faults + 1
    /\ Return(w)
    /\ \/ UNCHANGED storeVars
       \/ /\ pc[w] = "slot" /\ slots[base[w].seq + 1] = None
          /\ slots' = [slots EXCEPT ![base[w].seq + 1] = draft[w]]
          /\ UNCHANGED <<head, manifest, spec>>
       \/ /\ pc[w] = "swap" /\ head = base[w]
          /\ head' = [seq |-> base[w].seq + 1, sum |-> draft[w]]
          /\ UNCHANGED <<slots, manifest, spec>>
       \/ /\ pc[w] = "spec"
          /\ spec' = [spec EXCEPT ![manifest[draft[w]].rev] = req[w].schema]
          /\ UNCHANGED <<head, slots, manifest>>
    /\ UNCHANGED <<lastId, resultVars, vacuumVars>>

-----------------------------------------------------------------------------
(***************************************************************************)
(* vacuum --apply: the time, then HEAD, then the listing, then the         *)
(* deletions by path.  An object is a candidate when it is older than the  *)
(* grace period at the first step.  The grace period outlives every call,  *)
(* so an aged slot belongs to a call that is over.                         *)
(***************************************************************************)
Aged == {id \in Ids : ~Live(id) /\ \E s \in Seqs : slots[s] = id}

VacuumStart(v) ==
    /\ vpc[v] = "idle"
    /\ vpc' = [vpc EXCEPT ![v] = "head"]
    /\ scan' = [scan EXCEPT ![v] = [NoScan EXCEPT !.aged = Aged]]
    /\ UNCHANGED <<storeVars, callVars, lastId, resultVars, faults>>

VacuumHead(v) ==
    /\ vpc[v] = "head"
    /\ vpc' = [vpc EXCEPT ![v] = "list"]
    /\ scan' = [scan EXCEPT ![v].head = head.seq]
    /\ UNCHANGED <<storeVars, callVars, lastId, resultVars, faults>>

(* Manifests above the HEAD it read are debris. *)
(* Mutant: the slot right above HEAD is not looked at. *)
DebrisFarAbove(v) == {s \in Seqs : slots[s] \in scan[v].aged /\ s > scan[v].head + 1}
Debris(v) == {s \in Seqs : slots[s] \in scan[v].aged /\ s > scan[v].head}

VacuumList(v) ==
    /\ vpc[v] = "list"
    /\ vpc' = [vpc EXCEPT ![v] = "delete"]
    /\ scan' = [scan EXCEPT ![v].doomed = Debris(v)]
    /\ UNCHANGED <<storeVars, callVars, lastId, resultVars, faults>>

VacuumDelete(v) ==
    /\ vpc[v] = "delete"
    /\ vpc' = [vpc EXCEPT ![v] = "idle"]
    /\ slots' = [s \in Seqs |-> IF s \in scan[v].doomed THEN None ELSE slots[s]]
    /\ scan' = [scan EXCEPT ![v] = NoScan]
    /\ UNCHANGED <<head, manifest, spec, callVars, lastId, resultVars, faults>>

Step(w) ==
    \/ Replay(w) \/ Prologue(w) \/ PrologueFails(w) \/ Recheck(w) \/ PutSpec(w)
    \/ Revalidate(w) \/ CreateSlot(w) \/ SwapHead(w)
Vacuum(v) == VacuumHead(v) \/ VacuumList(v) \/ VacuumDelete(v)

Next ==
    \/ \E w \in Writers : Begin(w) \/ Step(w) \/ Fault(w)
    \/ \E v \in Vacuums : VacuumStart(v) \/ Vacuum(v)

Spec == Init /\ [][Next]_vars

(* A started call and a started vacuum are polled until they return, and the *)
(* operator does what the error's hint says: vacuum is run again.            *)
FairSpec ==
    /\ Spec
    /\ \A w \in Writers : WF_vars(Step(w))
    /\ \A v \in Vacuums : WF_vars(VacuumStart(v) \/ Vacuum(v))

-----------------------------------------------------------------------------
(* A commit whose caller got Ok, from the swap or from a replay, stays in the *)
(* history (ObjectStoreHeadStore::commit, idempotent_replay).                 *)
AckedKept == acked \subseteq History

(* Every version is read with the schema it was committed with, although       *)
(* evolve_schema overwrites the spec object of the next revision, perhaps with *)
(* another schema than a dead or refused evolution left there, before it knows *)
(* that it wins (evolve_schema, resolve_entry).                                *)
SchemaStable == \A i \in History : spec[manifest[i].rev] = manifest[i].made

(* A slot left above HEAD by a dead writer blocks every commit until vacuum    *)
(* clears it, and vacuum does clear it (vacuum, is_uncommitted_manifest).      *)
Orphan(s) == s > head.seq /\ slots[s] # None /\ ~Live(slots[s])
OrphanCleared == \A s \in Seqs : Orphan(s) ~> ~Orphan(s)

(* The table as its callers see it.  Everything acknowledged is durable.       *)
Visible == [s \in 0..head.seq |-> [op |-> manifest[slots[s]].op, rows |-> manifest[slots[s]].rows]]
Table == INSTANCE VersionedTable WITH version <- Visible, top <- head.seq, durable <- head.seq

(* Object-store commits implement the same VersionedTable as local commits,    *)
(* without its power losses.                                                   *)
ImplementsTable == Table!Spec

-----------------------------------------------------------------------------
(***************************************************************************)
(* The inductive invariants the proofs use, and what they assume.          *)
(***************************************************************************)
Drafted == {"recheck", "spec", "revalidate", "slot", "swap"}
SpecPut == {"revalidate", "slot", "swap"}       \* ... and its spec object is there

(* The slots HEAD covers are filled and HEAD names the last of them.       *)
HistoryInv ==
    /\ slots[head.seq] = head.sum
    /\ \A s \in 0..head.seq :
          /\ slots[s] # None
          /\ manifest[slots[s]].rev <= s + 1
          /\ spec[manifest[slots[s]].rev] # None
    /\ \A s \in Seqs : slots[s] # None => slots[s] <= lastId

(* HEAD has passed a writer's base or is still it, and who created the     *)
(* slot above HEAD is the one who may swap.                                *)
CallOK(w) ==
    pc[w] \in Drafted =>
       /\ draft[w] \in 1..lastId
       /\ base[w].seq < MaxSeq /\ base[w].seq <= head.seq
       /\ base[w].seq = head.seq => base[w] = head
       /\ manifest[draft[w]].rev <= base[w].seq + 2
       /\ pc[w] \in SpecPut => spec[manifest[draft[w]].rev] # None
       /\ pc[w] = "swap" => head = base[w] /\ slots[base[w].seq + 1] = draft[w]
       /\ \A u \in Writers \ {w} : pc[u] \in Drafted => draft[u] # draft[w]
CallInv == \A w \in Writers : CallOK(w)

(* What vacuum takes for a dead writer's is: no call in flight has it, and *)
(* HEAD never gets to its slot.                                            *)
ScanOK(v) ==
    vpc[v] # "idle" =>
       /\ \A id \in scan[v].aged : id <= lastId
       /\ \A w \in Writers : pc[w] \in Drafted => draft[w] \notin scan[v].aged
       /\ vpc[v] = "list" => \A s \in Seqs :
             slots[s] \in scan[v].aged /\ s > scan[v].head => s > head.seq
       /\ vpc[v] = "delete" => \A s \in scan[v].doomed :
             slots[s] \in scan[v].aged /\ s > head.seq
VacuumInv == \A v \in Vacuums : ScanOK(v)

IInv == TypeOK /\ HistoryInv /\ CallInv /\ VacuumInv /\ AckedKept

(* A manifest in flight is derived from the version it was based on. *)
FollowsBase(w) ==
    LET m == manifest[draft[w]]
        latest == manifest[slots[base[w].seq]].rows
    IN  \/ m.op = "write" /\ \E p \in Payloads : m.rows = {p}
        \/ m.op = "append" /\ \E p \in Payloads : m.rows = latest \cup {p}
        \/ m.op = "evolve" /\ m.rows = latest
        \/ m.op = "restore" /\ \E t \in 0..base[w].seq : m.rows = manifest[slots[t]].rows
DerivedInv == \A w \in Writers : pc[w] \in Drafted => FollowsBase(w)

(* Revisions never go down along the history, and the one evolution in     *)
(* flight is writing the revision above the latest.                        *)
RevOf(s) == manifest[slots[s]].rev
SchemaOK(w) ==
    LET m == manifest[draft[w]]
    IN  /\ pc[w] \in {"recheck", "spec"} => req[w].op = "evolve"
        /\ pc[w] \in Drafted /\ req[w].op # "evolve" => m.rev = RevOf(base[w].seq)
        /\ pc[w] \in Drafted /\ req[w].op = "evolve" =>
              m.rev = RevOf(head.seq) + 1 /\ m.made = req[w].schema
        /\ pc[w] \in SpecPut => spec[m.rev] = m.made
SchemaInv ==
    /\ \A s \in 0..head.seq : RevOf(s) <= RevOf(head.seq) /\ spec[RevOf(s)] = manifest[slots[s]].made
    /\ \A w \in Writers : SchemaOK(w)

(* No two calls in flight have the same key. *)
KeyInv ==
    \A w \in Writers : pc[w] # "idle" =>
       /\ [op |-> req[w].op, payload |-> req[w].payload] \in Calls
       /\ \A u \in Writers \ {w} : pc[u] # "idle" => req[u].payload # req[w].payload

(* Vacuums of a table do not overlap, evolutions do not, and restore stays *)
(* within a schema revision: README section 5 tells what happens otherwise. *)
OneVacuum == \A u, v \in Vacuums : u = v
OneEvolution == \A c, d \in Calls : c.op = "evolve" /\ d.op = "evolve" => c.payload = d.payload
=============================================================================
