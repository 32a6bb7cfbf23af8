------------------------------- MODULE Reclaim -------------------------------
(***************************************************************************)
(* Storage reclamation of one table: what vacuum may delete while writers  *)
(* stage, plan, commit and restore, retention raises the floor, snapshots  *)
(* pin versions and time passes.                                           *)
(*                                                                         *)
(* Vacuum takes no lock.  It reads HEAD, the floor and the manifests, then *)
(* the plans, then the staging leases, then lists the table's objects, and *)
(* then deletes: each of these is a step.  A commit is LocalCommit's       *)
(* critical section, of which this module keeps the put of the manifest,   *)
(* the fsync (which needs the new segment to exist), the HEAD swap and the *)
(* release of the lease or plan.                                           *)
(***************************************************************************)
EXTENDS Integers, FiniteSets

CONSTANTS Writers,          \* concurrent callers
          None,             \* no object
          Grace,            \* vacuum's grace_seconds
          LeaseTtl,         \* STAGING_LEASE_TTL_SECONDS
          PlanTtl,          \* PLAN_TTL_SECONDS
          MaxTime,          \* bound: clock readings
          MaxSeq,           \* bound: highest version
          MaxSeg,           \* bound: segment objects uploaded
          MaxCrash,         \* bound: crashed calls and vacuums
          MaxPins,          \* bound: snapshots of distinct versions at a time
          Overlap           \* may vacuum run while commits and plans are being published

VARIABLES
    now,            \* the wall clock
    head,           \* HEAD's sequence
    slots,          \* manifest slots: the segments a manifest references
    slotTime,       \* last_modified of the slots
    segTime,        \* last_modified of the segment objects that exist
    floor,          \* RETENTION.json
    pins,           \* versions pinned by snapshots
    leases,         \* staging leases
    plans,          \* stored mutation plans
    pc, call,       \* where each writer is, and the version it is about to publish
    lastSeg,        \* segment objects named so far
    vpc, scan,      \* where vacuum is, and what it has read
    crashes

objectVars == <<slots, slotTime, segTime>>
rootVars == <<head, floor, pins>>
protectVars == <<leases, plans>>
callVars == <<pc, call>>
vacuumVars == <<vpc, scan>>
vars == <<now, objectVars, rootVars, protectVars, callVars, lastSeg, vacuumVars, crashes>>

-----------------------------------------------------------------------------
Seqs == 0..MaxSeq
Segs == 1..MaxSeg
Times == 0..MaxTime

ASSUME ConstantsAssumption ==
    /\ None \notin Nat /\ \A segs \in SUBSET Segs : None # segs
    /\ Grace \in Nat /\ LeaseTtl \in Nat /\ PlanTtl \in Nat
    /\ MaxTime \in Nat /\ MaxSeq \in Nat /\ MaxSeg \in Nat /\ MaxCrash \in Nat
    /\ MaxPins \in Nat
    /\ Overlap \in BOOLEAN

Calls == [base : Seqs, segs : SUBSET Segs, new : Segs \cup {None}, planned : BOOLEAN]
NoCall == [base |-> 0, segs |-> {}, new |-> None, planned |-> FALSE]
Leases == [seg : Segs, until : Nat]
Plans == [base : Seqs, segs : SUBSET Segs, new : Segs, until : Nat]
Scans == [now : Times, head : Seqs, floor : Seqs, ref : SUBSET Segs, old : SUBSET Leases,
          deadSegs : SUBSET Segs, deadSlots : SUBSET Seqs, deadLeases : SUBSET Leases]
NoScan == [now |-> 0, head |-> 0, floor |-> 0, ref |-> {}, old |-> {},
           deadSegs |-> {}, deadSlots |-> {}, deadLeases |-> {}]

PCs == {"idle", "lease", "upload", "staged", "commit", "sync", "swap", "release", "planned"}
VPCs == {"idle", "plans", "leases", "list", "delete"}

TypeOK ==
    /\ now \in Times
    /\ head \in Seqs
    /\ slots \in [Seqs -> {None} \cup SUBSET Segs]
    /\ slotTime \in [Seqs -> Times]
    /\ segTime \in [Segs -> Times \cup {None}]
    /\ floor \in Seqs
    /\ pins \subseteq Seqs
    /\ leases \subseteq Leases
    /\ plans \subseteq Plans
    /\ pc \in [Writers -> PCs]
    /\ call \in [Writers -> Calls]
    /\ lastSeg \in Segs \cup {0}
    /\ vpc \in VPCs
    /\ scan \in Scans
    /\ crashes \in 0..MaxCrash

Init ==
    /\ now = 0
    /\ head = 0
    /\ slots = [s \in Seqs |-> IF s = 0 THEN {} ELSE None]
    /\ slotTime = [s \in Seqs |-> 0]
    /\ segTime = [i \in Segs |-> None]
    /\ floor = 0
    /\ pins = {}
    /\ leases = {}
    /\ plans = {}
    /\ pc = [w \in Writers |-> "idle"]
    /\ call = [w \in Writers |-> NoCall]
    /\ lastSeg = 0
    /\ vpc = "idle"
    /\ scan = NoScan
    /\ crashes = 0

-----------------------------------------------------------------------------
Exists(i) == segTime[i] # None
Present(segs) == \A i \in segs : Exists(i)

(* Writers that are publishing: a version, a plan, or a restored version.  *)
(* With Overlap FALSE these do not run during a vacuum, only staging does. *)
Publishing(w) == pc[w] \in {"commit", "sync", "swap", "release", "planned"}
MayPublish == Overlap \/ vpc = "idle"

Goto(w, p) == pc' = [pc EXCEPT ![w] = p] /\ UNCHANGED call
Return(w) == pc' = [pc EXCEPT ![w] = "idle"] /\ call' = [call EXCEPT ![w] = NoCall]

Tick ==
    /\ now < MaxTime
    /\ now' = now + 1
    /\ UNCHANGED <<objectVars, rootVars, protectVars, callVars, lastSeg, vacuumVars, crashes>>

-----------------------------------------------------------------------------
(***************************************************************************)
(* Staging: read HEAD, record the segment in a lease, upload it.  A write  *)
(* keeps none of the parent's segments, an append all, a range replacement *)
(* some.                                                                   *)
(***************************************************************************)
Begin(w) ==
    /\ pc[w] = "idle"
    /\ lastSeg < MaxSeg
    /\ head < MaxSeq
    /\ lastSeg' = lastSeg + 1
    /\ \E kept \in SUBSET slots[head] :
          call' = [call EXCEPT ![w] = [base |-> head, segs |-> kept \cup {lastSeg + 1},
                                       new |-> lastSeg + 1, planned |-> FALSE]]
    /\ pc' = [pc EXCEPT ![w] = "lease"]
    /\ UNCHANGED <<now, objectVars, rootVars, protectVars, vacuumVars, crashes>>

RecordStaged(w) ==
    /\ pc[w] = "lease"
    /\ leases' = leases \cup {[seg |-> call[w].new, until |-> now + LeaseTtl]}
    /\ Goto(w, "upload")
    /\ UNCHANGED <<now, objectVars, rootVars, plans, lastSeg, vacuumVars, crashes>>

Upload(w) ==
    /\ pc[w] = "upload"
    /\ segTime' = [segTime EXCEPT ![call[w].new] = now]
    /\ Goto(w, "staged")
    /\ UNCHANGED <<now, slots, slotTime, rootVars, protectVars, lastSeg, vacuumVars, crashes>>

(* restore: no segment of its own, no lease, and no look at the floor.     *)
(* Here callers only restore versions they can read.                       *)
Restore(w) ==
    /\ pc[w] = "idle"
    /\ MayPublish
    /\ head < MaxSeq
    /\ \E v \in floor..head :
          /\ slots[v] # None
          /\ call' = [call EXCEPT ![w] = [base |-> head, segs |-> slots[v], new |-> None,
                                          planned |-> FALSE]]
    /\ pc' = [pc EXCEPT ![w] = "commit"]
    /\ UNCHANGED <<now, objectVars, rootVars, protectVars, lastSeg, vacuumVars, crashes>>

-----------------------------------------------------------------------------
(***************************************************************************)
(* Committing: HEAD must still be the base; the manifest is put in the     *)
(* slot above it.                                                          *)
(***************************************************************************)
Conflict(w) == \E u \in Writers \ {w} : pc[u] \in {"sync", "swap"}   \* u is in the section

Release(w) == leases' = {l \in leases : l.seg # call[w].new}

(* A commit that failed: write and append release the lease, replace_range *)
(* and compact leave it to expire, an applied plan has none of its own.    *)
Abandon(w) ==
    /\ Return(w)
    /\ \/ ~call[w].planned /\ Release(w)
       \/ UNCHANGED leases

PutManifest(w) ==
    /\ \/ pc[w] = "commit"
       \/ pc[w] = "staged" /\ MayPublish
    /\ ~Conflict(w)
    /\ \/ /\ head = call[w].base
          /\ slots' = [slots EXCEPT ![head + 1] = call[w].segs]
          /\ slotTime' = [slotTime EXCEPT ![head + 1] = now]
          /\ Goto(w, "sync")
          /\ UNCHANGED leases
       \/ /\ head # call[w].base                        \* VersionConflict
          /\ Abandon(w)
          /\ UNCHANGED <<slots, slotTime>>
    /\ UNCHANGED <<now, segTime, rootVars, plans, lastSeg, vacuumVars, crashes>>

(* sync_objects fsyncs the segment this version introduces: it fails when  *)
(* the object is gone.                                                     *)
SyncObjects(w) ==
    /\ pc[w] = "sync"
    /\ \/ /\ call[w].new # None => Exists(call[w].new)
          /\ Goto(w, "swap")
          /\ UNCHANGED leases
       \/ /\ call[w].new # None /\ ~Exists(call[w].new)
          /\ Abandon(w)
    /\ UNCHANGED <<now, objectVars, rootVars, plans, lastSeg, vacuumVars, crashes>>

SwapHead(w) ==
    /\ pc[w] = "swap"
    /\ head' = head + 1
    /\ pc' = [pc EXCEPT ![w] = "release"]
    /\ call' = [call EXCEPT ![w] = [NoCall EXCEPT !.new = call[w].new, !.planned = call[w].planned]]
    /\ UNCHANGED <<now, objectVars, floor, pins, protectVars, lastSeg, vacuumVars, crashes>>

(* release_staging, or the deletion of the consumed plan. *)
ReleaseStaging(w) ==
    /\ pc[w] = "release"
    /\ IF call[w].planned
       THEN plans' = {p \in plans : p.new # call[w].new} /\ UNCHANGED leases
       ELSE Release(w) /\ UNCHANGED plans
    /\ Return(w)
    /\ UNCHANGED <<now, objectVars, rootVars, lastSeg, vacuumVars, crashes>>

-----------------------------------------------------------------------------
(***************************************************************************)
(* Plans: stored instead of committed, then the lease is dropped (so end   *)
(* plan_write and plan_replace_range alike); applied                       *)
(* later, after checking expiry and that every segment still exists.       *)
(***************************************************************************)
StorePlan(w) ==
    /\ pc[w] = "staged"
    /\ MayPublish
    /\ plans' = plans \cup {[base |-> call[w].base, segs |-> call[w].segs,
                             new |-> call[w].new, until |-> now + PlanTtl]}
    /\ Goto(w, "planned")
    /\ UNCHANGED <<now, objectVars, rootVars, leases, lastSeg, vacuumVars, crashes>>

DropLease(w) ==
    /\ pc[w] = "planned"
    /\ Release(w)
    /\ Return(w)
    /\ UNCHANGED <<now, objectVars, rootVars, plans, lastSeg, vacuumVars, crashes>>

ApplyPlan(w) ==
    /\ pc[w] = "idle"
    /\ MayPublish
    /\ \E p \in plans :
          /\ now <= p.until
          /\ Present(p.segs)
          /\ head = p.base
          /\ call' = [call EXCEPT ![w] = [base |-> p.base, segs |-> p.segs, new |-> p.new,
                                          planned |-> TRUE]]
    /\ pc' = [pc EXCEPT ![w] = "commit"]
    /\ UNCHANGED <<now, objectVars, rootVars, protectVars, lastSeg, vacuumVars, crashes>>

DiscardPlan ==
    /\ \E p \in plans : plans' = plans \ {p}
    /\ UNCHANGED <<now, objectVars, rootVars, leases, callVars, lastSeg, vacuumVars, crashes>>

-----------------------------------------------------------------------------
(***************************************************************************)
(* Roots: the retention floor and snapshots, under the metadata lock that  *)
(* commits hold too.                                                       *)
(***************************************************************************)
SectionFree == \A w \in Writers : pc[w] \notin {"sync", "swap"}

(* Mutant: the floor may pass a snapshot. *)
SetRetentionUnpinned ==
    /\ SectionFree
    /\ \E target \in floor + 1..head : floor' = target
    /\ UNCHANGED <<now, objectVars, head, pins, protectVars, callVars, lastSeg, vacuumVars,
                   crashes>>

SetRetention ==
    /\ SectionFree
    /\ \E target \in floor + 1..head :
          /\ \A p \in pins : p >= target
          /\ floor' = target
    /\ UNCHANGED <<now, objectVars, head, pins, protectVars, callVars, lastSeg, vacuumVars,
                   crashes>>

CreateSnapshot ==
    /\ SectionFree
    /\ pins' = pins \cup {head}
    /\ head \notin pins
    /\ Cardinality(pins) < MaxPins
    /\ UNCHANGED <<now, objectVars, head, floor, protectVars, callVars, lastSeg, vacuumVars,
                   crashes>>

DeleteSnapshot ==
    /\ SectionFree
    /\ \E p \in pins : pins' = pins \ {p}
    /\ UNCHANGED <<now, objectVars, head, floor, protectVars, callVars, lastSeg, vacuumVars,
                   crashes>>

-----------------------------------------------------------------------------
(***************************************************************************)
(* Vacuum.                                                                 *)
(***************************************************************************)
(* Mutant: only HEAD's manifest is read. *)
VacuumStartHeadOnly ==
    /\ vpc = "idle"
    /\ Overlap \/ \A w \in Writers : ~Publishing(w)
    /\ scan' = [NoScan EXCEPT !.now = now, !.head = head, !.floor = floor, !.ref = slots[head]]
    /\ vpc' = "plans"
    /\ UNCHANGED <<now, objectVars, rootVars, protectVars, callVars, lastSeg, crashes>>

VacuumStart ==
    /\ vpc = "idle"
    /\ Overlap \/ \A w \in Writers : ~Publishing(w)
    /\ \A s \in floor..head : slots[s] # None
    /\ scan' = [NoScan EXCEPT !.now = now, !.head = head, !.floor = floor,
                              !.ref = UNION {slots[s] : s \in floor..head}]
    /\ vpc' = "plans"
    /\ UNCHANGED <<now, objectVars, rootVars, protectVars, callVars, lastSeg, crashes>>

(* Mutant: plans are not read. *)
VacuumPlansSkipped ==
    /\ vpc = "plans"
    /\ vpc' = "leases"
    /\ UNCHANGED <<now, objectVars, rootVars, protectVars, callVars, lastSeg, scan, crashes>>

VacuumPlans ==
    /\ vpc = "plans"
    /\ scan' = [scan EXCEPT !.ref = @ \cup UNION {p.segs : p \in {q \in plans : now <= q.until}}]
    /\ vpc' = "leases"
    /\ UNCHANGED <<now, objectVars, rootVars, protectVars, callVars, lastSeg, crashes>>

VacuumLeases ==
    /\ vpc = "leases"
    /\ scan' = [scan EXCEPT !.ref = @ \cup {l.seg : l \in {k \in leases : now <= k.until}},
                            !.old = {l \in leases : now > l.until}]
    /\ vpc' = "list"
    /\ UNCHANGED <<now, objectVars, rootVars, protectVars, callVars, lastSeg, crashes>>

(* Objects at least Grace old, by the clock read at the start. *)
Aged(t) == scan.now - t >= Grace

VacuumList ==
    /\ vpc = "list"
    /\ scan' = [NoScan EXCEPT
                  !.deadSegs = {i \in Segs : Exists(i) /\ Aged(segTime[i]) /\ i \notin scan.ref},
                  !.deadSlots = {s \in Seqs : /\ slots[s] # None
                                              /\ Aged(slotTime[s])
                                              /\ s > scan.head \/ s < scan.floor},
                  !.deadLeases = {l \in scan.old : Aged(l.until - LeaseTtl)}]
    /\ vpc' = "delete"
    /\ UNCHANGED <<now, objectVars, rootVars, protectVars, callVars, lastSeg, crashes>>

(* delete_many, one object at a time in any order. *)
VacuumDelete ==
    /\ vpc = "delete"
    /\ \/ \E i \in scan.deadSegs :
             /\ segTime' = [segTime EXCEPT ![i] = None]
             /\ scan' = [scan EXCEPT !.deadSegs = @ \ {i}]
             /\ UNCHANGED <<slots, slotTime, leases>>
       \/ \E s \in scan.deadSlots :
             /\ slots' = [slots EXCEPT ![s] = None]
             /\ slotTime' = [slotTime EXCEPT ![s] = 0]
             /\ scan' = [scan EXCEPT !.deadSlots = @ \ {s}]
             /\ UNCHANGED <<segTime, leases>>
       \/ \E l \in scan.deadLeases :
             /\ leases' = leases \ {l}
             /\ scan' = [scan EXCEPT !.deadLeases = @ \ {l}]
             /\ UNCHANGED objectVars
    /\ UNCHANGED <<now, rootVars, plans, callVars, lastSeg, vpc, crashes>>

VacuumDone ==
    /\ vpc = "delete"
    /\ scan.deadSegs = {} /\ scan.deadSlots = {} /\ scan.deadLeases = {}
    /\ vpc' = "idle"
    /\ scan' = NoScan
    /\ UNCHANGED <<now, objectVars, rootVars, protectVars, callVars, lastSeg, crashes>>

-----------------------------------------------------------------------------
(* A call or a vacuum dies where it is; its lease, plan and orphaned       *)
(* objects stay.                                                           *)
Crash ==
    /\ crashes < MaxCrash
    /\ crashes' = crashes + 1
    /\ \/ /\ \E w \in Writers : pc[w] # "idle" /\ Return(w)
          /\ UNCHANGED vacuumVars
       \/ /\ vpc # "idle"
          /\ vpc' = "idle"
          /\ scan' = NoScan
          /\ UNCHANGED callVars
    /\ UNCHANGED <<now, objectVars, rootVars, protectVars, lastSeg>>

WriterStep(w) ==
    \/ Begin(w) \/ RecordStaged(w) \/ Upload(w) \/ Restore(w)
    \/ PutManifest(w) \/ SyncObjects(w) \/ SwapHead(w) \/ ReleaseStaging(w)
    \/ StorePlan(w) \/ DropLease(w) \/ ApplyPlan(w)

VacuumStep == VacuumStart \/ VacuumPlans \/ VacuumLeases \/ VacuumList \/ VacuumDelete
              \/ VacuumDone

Next ==
    \/ \E w \in Writers : WriterStep(w)
    \/ DiscardPlan \/ SetRetention \/ CreateSnapshot \/ DeleteSnapshot
    \/ VacuumStep \/ Crash \/ Tick

Spec == Init /\ [][Next]_vars

-----------------------------------------------------------------------------
(***************************************************************************)
(* Properties                                                              *)
(***************************************************************************)
Readable(s) == slots[s] # None /\ Present(slots[s])

(* Vacuum removes unreachable objects only: every retained version, HEAD   *)
(* first, finds its manifest and all its segments, whatever was staged,    *)
(* planned, restored, expired or left by crashed calls and vacuums.        *)
RetainedReadable == \A s \in floor..head : Readable(s)

(* A snapshot keeps its version readable until it is deleted: neither      *)
(* retention nor vacuum get below it.                                      *)
SnapshotReadable == \A p \in pins : Readable(p)

(* No step takes a segment away from a live plan, although its lease was   *)
(* dropped when it was stored, it may be older than the grace period, and  *)
(* retention may have passed the versions it builds on: what apply_plan    *)
(* could publish it still can.                                             *)
PlanKept ==
    [][\A p \in plans \cap plans' :
          Present(p.segs) /\ now' <= p.until => Present(p.segs)']_vars

-----------------------------------------------------------------------------
(***************************************************************************)
(* The inductive invariant the proofs use, where vacuum does not overlap   *)
(* with publishing.                                                        *)
(***************************************************************************)
(* The roots are versions that exist. *)
RootInv ==
    /\ floor <= head
    /\ pins \subseteq floor..head
    /\ RetainedReadable
    /\ \A p \in plans : p.base < MaxSeq

(* What a call is about to reference: versions HEAD still has until it     *)
(* publishes, and then objects that nobody deletes while it does.          *)
CallOK(w) ==
    LET c == call[w]
    IN  /\ Publishing(w) => vpc = "idle"
        /\ pc[w] \in {"lease", "upload", "staged", "planned"} => c.new \in Segs
        /\ pc[w] \in {"lease", "upload", "staged", "commit", "sync", "swap"} =>
              c.base < MaxSeq /\ c.base <= head
        /\ pc[w] \in {"lease", "upload", "staged"} /\ head = c.base =>
              c.segs \ {c.new} \subseteq slots[head]
        /\ pc[w] = "commit" => Present(c.segs)
        /\ pc[w] \in {"sync", "swap"} =>
              /\ head = c.base
              /\ slots[head + 1] = c.segs
              /\ Present(c.segs \ {c.new})
              /\ \A u \in Writers \ {w} : pc[u] \notin {"sync", "swap"}
        /\ pc[w] = "swap" => Present(c.segs)
CallInv == \A w \in Writers : CallOK(w)

(* What vacuum has read covers what is retained and planned, now too.      *)
Covers(protected) ==
    /\ \A s \in floor..head : slots[s] \subseteq protected
    /\ vpc # "plans" => \A p \in plans : now <= p.until => p.segs \subseteq protected
ScanInv ==
    /\ vpc \in {"plans", "leases", "list"} =>
          Covers(scan.ref) /\ scan.head = head /\ scan.floor <= floor
    /\ vpc = "delete" =>
          Covers(Segs \ scan.deadSegs) /\ scan.deadSlots \cap (floor..head) = {}

IInv == TypeOK /\ RootInv /\ CallInv /\ ScanInv
=============================================================================
