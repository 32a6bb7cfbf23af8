--------------------------- MODULE Transaction_proof ---------------------------
(***************************************************************************)
(* Proofs about Transaction, for every set of tables, calls and processes, *)
(* any number of commits, crashes and power losses.                        *)
(***************************************************************************)
EXTENDS Transaction, FiniteSetTheorems, WellFoundedInduction, TLAPS

-----------------------------------------------------------------------------
(***************************************************************************)
(* The operators of the model.                                             *)
(***************************************************************************)
(* A recovery takes a journal of its queue. *)
LEMMA FirstIn == ASSUME NEW xs, xs \subseteq Ids, xs # {} PROVE First(xs) \in xs
<1>1. Ids \subseteq Nat
  BY ConstantsAssumption DEF Ids
<1>2. PICK x \in xs : \A y \in xs : <<y, x>> \notin OpToRel(<, Nat)
  <2>1. xs \subseteq Nat
    BY <1>1
  <2> HIDE DEF OpToRel
  <2>2. QED
    BY <2>1, WFMin, NatLessThanWellFounded
<1>3. \A y \in xs : x <= y
  <2> SUFFICES ASSUME NEW y \in xs PROVE x <= y
    OBVIOUS
  <2>1. x \in Nat /\ y \in Nat
    BY <1>1
  <2>2. ~(y < x)
    BY <1>2, <2>1 DEF OpToRel
  <2>3. QED
    BY <2>1, <2>2
<1>4. QED
  BY <1>3 DEF First

(* What a power loss leaves of a file is one of the contents it may leave. *)
LEMMA Chosen ==
    ASSUME NEW possible, NEW f \in Choices(possible)
    PROVE  /\ f = [i \in DOMAIN possible |-> f[i]] /\ DOMAIN f = DOMAIN possible
           /\ \A i \in DOMAIN possible : f[i] \in possible[i]
BY DEF Choices

(* HEADs by table. *)
LEMMA BasesType ==
    ASSUME NEW b PROVE b \in Bases <=> DOMAIN b \subseteq Tables /\ b \in [DOMAIN b -> Heads]
BY DEF Bases

(* A call that is not a transaction has one table. *)
LEMMA OneTable ==
    ASSUME NEW k, TablesOf(k) \subseteq Tables, ~IsTxn(k), NEW t \in TablesOf(k)
    PROVE  TablesOf(k) = {t}
<1>1. IsFiniteSet(TablesOf(k))
  BY ConstantsAssumption, FS_Subset
<1>2. ASSUME NEW u \in TablesOf(k), u # t PROVE FALSE
  <2> DEFINE rest == TablesOf(k) \ {t}
  <2>1. /\ IsFiniteSet(rest) /\ Cardinality(rest) = Cardinality(TablesOf(k)) - 1
        /\ Cardinality(TablesOf(k)) \in Nat /\ Cardinality(rest) \in Nat
    BY <1>1, FS_RemoveElement, FS_CardinalityType
  <2>2. Cardinality(rest) # 0
    BY <1>2, <2>1, FS_EmptySet
  <2>3. QED
    BY <2>1, <2>2 DEF IsTxn
<1>3. QED
  BY <1>2

-----------------------------------------------------------------------------
(***************************************************************************)
(* Types.                                                                  *)
(***************************************************************************)
Calls == [id : Ids \cup {0}, base : Bases]
Contents == Ids \cup {0, NoOne}

SettingTypes == setting \in Settings
DiskTypes ==
    /\ head \in [Tables -> Heads]
    /\ headDisk \in [Tables -> SUBSET Heads]
    /\ slot \in [Tables -> [Seqs -> Contents]]
    /\ slotDisk \in [Tables -> [Seqs -> SUBSET Contents]]
JournalTypes ==
    /\ journal \in [Ids -> JournalStates]
    /\ journalDisk \in [Ids -> SUBSET JournalStates]
    /\ entries \in [Ids -> Bases]
LockTypes ==
    /\ meta \in Tasks \cup {NoOne}
    /\ lock \in [Tables -> Tasks \cup Procs \cup {NoOne}]
TaskTypes ==
    /\ phase \in [Tasks -> Phases]
    /\ call \in [Tasks -> Calls]
    /\ todo \in [Tasks -> SUBSET Tables]
ProcTypes ==
    /\ db \in [Procs -> {"closed", "recover", "swap", "sync", "open"}]
    /\ queue \in [Procs -> SUBSET Ids]
    /\ left \in [Procs -> SUBSET Tables]
    /\ seen \in [Procs -> [table : Tables \cup {NoOne}, head : Heads]]
AuxTypes ==
    /\ lastId \in Ids \cup {0} /\ acked \subseteq Ids /\ refused \subseteq Ids
    /\ crashes \in 0..MaxCrash /\ powerLosses \in 0..MaxPowerLoss

(* The parts of the type invariant. *)
LEMMA TypeParts ==
    TypeOK <=> /\ SettingTypes /\ DiskTypes /\ JournalTypes /\ LockTypes /\ TaskTypes /\ ProcTypes
               /\ AuxTypes
BY DEF TypeOK, SettingTypes, DiskTypes, JournalTypes, LockTypes, TaskTypes, ProcTypes, AuxTypes,
   Calls, Contents

(* Version 0 and the empty call. *)
LEMMA Zeros ==
    /\ 0 \in Seqs /\ Head0 \in Heads /\ NoCall \in Calls /\ NoCall.base \in Bases
    /\ DOMAIN NoCall.base = {} /\ NoCall.id = 0
    /\ NoSeen \in [table : Tables \cup {NoOne}, head : Heads]
<1>1. 0 \in Seqs
  BY ConstantsAssumption DEF Seqs
<1>2. Head0 \in Heads
  BY <1>1 DEF Head0, Heads
<1>3. DOMAIN NoCall.base = {} /\ NoCall.base = [t \in {} |-> Head0] /\ NoCall.id = 0
  BY DEF NoCall
<1>4. NoCall.base \in Bases
  BY <1>3, BasesType
<1>5. NoCall \in Calls
  BY <1>3, <1>4 DEF Calls, NoCall
<1>6. NoSeen \in [table : Tables \cup {NoOne}, head : Heads]
  BY <1>2 DEF NoSeen
<1>7. QED
  BY <1>1, <1>2, <1>3, <1>4, <1>5, <1>6

(* The types hold at first. *)
LEMMA InitType == Init => TypeOK
<1> SUFFICES ASSUME Init PROVE TypeOK
  OBVIOUS
<1>1. SettingTypes /\ LockTypes
  BY DEF Init, SettingTypes, LockTypes
<1>2. DiskTypes
  <2>1. slot \in [Tables -> [Seqs -> Contents]]
    BY DEF Init, Contents
  <2>2. slotDisk \in [Tables -> [Seqs -> SUBSET Contents]]
    BY <2>1 DEF Init
  <2>3. QED
    BY <2>1, <2>2, Zeros DEF Init, DiskTypes
<1>3. JournalTypes
  BY Zeros DEF Init, JournalTypes, JournalStates
<1>4. TaskTypes
  BY Zeros DEF Init, TaskTypes, Phases
<1>5. ProcTypes
  BY Zeros DEF Init, ProcTypes
<1>6. AuxTypes
  BY ConstantsAssumption DEF Init, AuxTypes
<1>7. QED
  BY <1>1, <1>2, <1>3, <1>4, <1>5, <1>6, TypeParts

(* The fields of a call. *)
LEMMA CallFields ==
    ASSUME TaskTypes, NEW k \in Tasks
    PROVE  /\ call[k].id \in Ids \cup {0} /\ TablesOf(k) \subseteq Tables
           /\ \A t \in TablesOf(k) : /\ Base(k, t) \in Heads /\ Base(k, t).seq \in Seqs
                                     /\ NewHead(k, t).seq = NewSeq(k, t)
                                     /\ NewHead(k, t).sum = call[k].id
<1>1. call[k] \in Calls
  BY DEF TaskTypes
<1>2. call[k].id \in Ids \cup {0} /\ call[k].base \in Bases
  BY <1>1 DEF Calls
<1>3. DOMAIN call[k].base \subseteq Tables /\ call[k].base \in [DOMAIN call[k].base -> Heads]
  BY <1>2, BasesType
<1>4. \A t \in DOMAIN call[k].base : call[k].base[t] \in Heads /\ call[k].base[t].seq \in Seqs
  BY <1>3 DEF Heads
<1>5. QED
  BY <1>2, <1>3, <1>4 DEF TablesOf, Base, NewHead, NewSeq

(* The HEADs a call swaps in, where its bases have room above them. *)
LEMMA NewHeads ==
    ASSUME TaskTypes, NEW k \in Tasks, call[k].id # 0, NEW t \in TablesOf(k),
           Base(k, t).seq < MaxSeq
    PROVE  NewHead(k, t) \in Heads /\ NewSeq(k, t) \in Seqs /\ NewSeq(k, t) > Base(k, t).seq
<1>1. call[k].id \in Ids /\ Base(k, t).seq \in Seqs
  BY CallFields
<1>2. NewSeq(k, t) \in Seqs /\ NewSeq(k, t) > Base(k, t).seq
  BY <1>1, ConstantsAssumption DEF NewSeq, Seqs
<1>3. QED
  BY <1>1, <1>2 DEF NewHead, NewSeq, Heads

(* What is known of a call that is not over. *)
LEMMA CallFacts ==
    ASSUME TypeOK, IdInv, NEW k \in Tasks, phase[k] # "idle"
    PROVE  /\ call[k].id \in Ids /\ call[k].id # 0 /\ call[k].id \in 1..lastId
           /\ call[k].id # NoOne /\ TablesOf(k) # {} /\ TablesOf(k) \subseteq Tables
           /\ \A t \in TablesOf(k) :
                 /\ NewHead(k, t) \in Heads /\ NewHead(k, t).seq = NewSeq(k, t)
                 /\ NewSeq(k, t) \in Seqs /\ Base(k, t).seq \in Seqs
                 /\ NewSeq(k, t) > Base(k, t).seq
<1>1. TaskTypes /\ lastId \in Ids \cup {0}
  BY TypeParts DEF AuxTypes
<1>2. /\ call[k].id \in 1..lastId /\ TablesOf(k) # {}
      /\ \A t \in TablesOf(k) : Base(k, t).seq < MaxSeq
  BY DEF IdInv, IdOK
<1>3. call[k].id \in Ids /\ call[k].id # 0 /\ call[k].id # NoOne
  BY <1>1, <1>2, CallFields, ConstantsAssumption DEF Ids
<1>4. QED
  BY <1>1, <1>2, <1>3, CallFields, NewHeads

(* Steps of a call: on to the next phase, or over. *)
LEMMA GotoTypes ==
    ASSUME TaskTypes, NEW k \in Tasks, NEW ph \in Phases, NEW ts \in SUBSET Tables, Goto(k, ph, ts)
    PROVE  TaskTypes'
BY DEF TaskTypes, Goto

(* A call that returns leaves its task idle and its locks free. *)
LEMMA ReturnTypes ==
    ASSUME TaskTypes, LockTypes, NEW k \in Tasks, Return(k) PROVE TaskTypes' /\ LockTypes'
<1>1. "idle" \in Phases /\ NoCall \in Calls
  BY Zeros DEF Phases
<1>2. TaskTypes'
  BY <1>1 DEF TaskTypes, Return
<1>3. LockTypes'
  BY DEF LockTypes, Return
<1>4. QED
  BY <1>2, <1>3

(* A manifest is written to its slot. *)
LEMMA PutSlotTypes ==
    ASSUME DiskTypes, NEW k \in Tasks, NEW t \in Tables, NewHead(k, t).seq \in Seqs,
           call[k].id \in Ids, PutSlot(k, t), UNCHANGED <<head, headDisk>>
    PROVE  DiskTypes'
<1> DEFINE s == NewHead(k, t).seq
           x == call[k].id
<1>1. slot' = [slot EXCEPT ![t][s] = x] /\ slotDisk' = [slotDisk EXCEPT ![t][s] = slotDisk[t][s] \cup {x}]
  BY DEF PutSlot, DiskTypes
<1>2. s \in Seqs /\ x \in Contents
  BY DEF Contents
<1> HIDE DEF s, x
<1>3. slot' \in [Tables -> [Seqs -> Contents]]
  BY <1>1, <1>2 DEF DiskTypes
<1>4. slotDisk[t] \in [Seqs -> SUBSET Contents] /\ slotDisk[t][s] \cup {x} \in SUBSET Contents
  BY <1>2 DEF DiskTypes
<1>5. [slotDisk[t] EXCEPT ![s] = slotDisk[t][s] \cup {x}] \in [Seqs -> SUBSET Contents]
  BY <1>2, <1>4
<1>6. slotDisk' \in [Tables -> [Seqs -> SUBSET Contents]]
  BY <1>1, <1>5 DEF DiskTypes
<1>7. QED
  BY <1>3, <1>6 DEF DiskTypes

(* A HEAD is renamed into place. *)
LEMMA RenameTypes ==
    ASSUME DiskTypes, NEW t, NEW h \in Heads, Rename(t, h)
    PROVE  head' \in [Tables -> Heads] /\ headDisk' \in [Tables -> SUBSET Heads]
<1>1. /\ head' = [head EXCEPT ![t] = h]
      /\ headDisk' = [headDisk EXCEPT ![t] = headDisk[t] \cup {h}]
  BY DEF Rename
<1>2. head' \in [Tables -> Heads]
  BY <1>1 DEF DiskTypes
<1>3. t \in Tables => headDisk[t] \cup {h} \in SUBSET Heads
  BY DEF DiskTypes
<1>4. headDisk' \in [Tables -> SUBSET Heads]
  BY <1>1, <1>3 DEF DiskTypes
<1>5. QED
  BY <1>2, <1>4

(* Table directories are synced. *)
LEMMA SyncTypes ==
    ASSUME DiskTypes, NEW ts, SyncDirs(ts) PROVE headDisk' \in [Tables -> SUBSET Heads]
BY DEF DiskTypes, SyncDirs

(* The manifests of a transaction are synced. *)
LEMMA SyncManifestsTypes ==
    ASSUME DiskTypes, NEW k \in Tasks, SyncManifests(k), \A t \in TablesOf(k) : NewSeq(k, t) \in Seqs,
           \A t \in TablesOf(k) : NewHead(k, t).seq = NewSeq(k, t)
    PROVE  DiskTypes'
<1>1. /\ UNCHANGED <<head, headDisk, slot>>
      /\ slotDisk' = [t \in Tables |->
                        IF t \in TablesOf(k)
                        THEN [slotDisk[t] EXCEPT ![NewHead(k, t).seq] = {slot[t][NewHead(k, t).seq]}]
                        ELSE slotDisk[t]]
  BY DEF SyncManifests
<1>2. ASSUME NEW t \in Tables PROVE slotDisk'[t] \in [Seqs -> SUBSET Contents]
  <2>1. slotDisk[t] \in [Seqs -> SUBSET Contents] /\ slot[t] \in [Seqs -> Contents]
    BY DEF DiskTypes
  <2>2. CASE t \in TablesOf(k)
    <3>1. slotDisk'[t] = [slotDisk[t] EXCEPT ![NewSeq(k, t)] = {slot[t][NewSeq(k, t)]}]
      BY <1>1, <2>2
    <3>2. NewSeq(k, t) \in Seqs /\ {slot[t][NewSeq(k, t)]} \in SUBSET Contents
      BY <2>1, <2>2
    <3>3. QED
      BY <2>1, <3>1, <3>2
  <2>3. CASE t \notin TablesOf(k)
    BY <1>1, <2>1, <2>3
  <2>4. QED
    BY <2>2, <2>3
<1>3. QED
  BY <1>1, <1>2 DEF DiskTypes

(* A journal is deleted. *)
LEMMA DeleteTypes ==
    ASSUME JournalTypes, NEW x, DeleteJournal(x) PROVE JournalTypes'
<1>1. "none" \in JournalStates
  BY DEF JournalStates
<1>2. /\ journal' = [journal EXCEPT ![x] = "none"] /\ entries' = entries
      /\ journalDisk' = [journalDisk EXCEPT ![x] = journalDisk[x] \cup {"none"}]
  BY DEF DeleteJournal
<1>3. x \in Ids => journalDisk[x] \cup {"none"} \in SUBSET JournalStates
  BY <1>1 DEF JournalTypes
<1>4. QED
  BY <1>1, <1>2, <1>3 DEF JournalTypes

(* A journal is written with the heads it means. *)
LEMMA PutJournalTypes ==
    ASSUME JournalTypes, TaskTypes, NEW k \in Tasks, PutJournal(k), call[k].id \in Ids,
           \A t \in TablesOf(k) : NewHead(k, t) \in Heads
    PROVE  JournalTypes' /\ TaskTypes'
<1> DEFINE x == call[k].id
           f == [t \in TablesOf(k) |-> NewHead(k, t)]
<1>1. /\ journal' = [journal EXCEPT ![x] = "whole"]
      /\ journalDisk' = [journalDisk EXCEPT ![x] = JournalStates]
      /\ entries' = [entries EXCEPT ![x] = f] /\ Goto(k, "jsync", {})
  BY DEF PutJournal
<1>2. f \in Bases
  <2>1. DOMAIN f = TablesOf(k) /\ f \in [TablesOf(k) -> Heads] /\ TablesOf(k) \subseteq Tables
    BY CallFields
  <2> HIDE DEF f
  <2>2. QED
    BY <2>1, BasesType
<1>3. "whole" \in JournalStates /\ "jsync" \in Phases
  BY DEF JournalStates, Phases
<1> HIDE DEF x, f
<1>4. JournalTypes'
  BY <1>1, <1>2, <1>3 DEF JournalTypes
<1>5. QED
  BY <1>1, <1>3, <1>4, GotoTypes

(* Calls keep the types. *)
LEMMA TaskType ==
    ASSUME TypeOK, IdInv, ProgressInv, NEW k \in Tasks, Stage(k) \/ TaskStep(k) \/ IoError(k)
    PROVE  TypeOK'
<1> USE DEF journalVars, procVars, lockVars, diskVars, taskVars, auxVars, boundVars
<1>1. /\ SettingTypes /\ DiskTypes /\ JournalTypes /\ LockTypes /\ TaskTypes /\ ProcTypes /\ AuxTypes
  BY TypeParts
<1>2. ASSUME SettingTypes', DiskTypes', JournalTypes', LockTypes', TaskTypes', ProcTypes', AuxTypes'
      PROVE  TypeOK'
  BY <1>2 DEF TypeOK, SettingTypes, DiskTypes, JournalTypes, LockTypes, TaskTypes, ProcTypes, AuxTypes,
     Calls, Contents
<1>3. UNCHANGED <<setting, procVars>> => SettingTypes' /\ ProcTypes'
  BY <1>1 DEF SettingTypes, ProcTypes
<1>4. UNCHANGED diskVars => DiskTypes'
  BY <1>1 DEF DiskTypes
<1>5. UNCHANGED journalVars => JournalTypes'
  BY <1>1 DEF JournalTypes
<1>6. UNCHANGED auxVars => AuxTypes'
  BY <1>1 DEF AuxTypes
<1>7. UNCHANGED lockVars => LockTypes'
  BY <1>1 DEF LockTypes
<1>8. phase[k] # "idle" => /\ call[k].id \in Ids /\ TablesOf(k) \subseteq Tables
                           /\ \A t \in TablesOf(k) : /\ NewHead(k, t) \in Heads
                                                     /\ NewHead(k, t).seq = NewSeq(k, t)
                                                     /\ NewSeq(k, t) \in Seqs
  BY CallFacts
<1>9. Phases = {"idle", "staged", "put", "sync", "journal", "jsync", "lock", "swap",
                "dirsync", "delete", "publish", "harden"}
  BY DEF Phases
<1>10. todo[k] \subseteq Tables /\ {} \in SUBSET Tables /\ todo[k] \subseteq TablesOf(k)
  BY <1>1 DEF TaskTypes, ProgressInv, ProgressOK
<1>11. ASSUME Refuse(k), phase[k] # "idle" PROVE LockTypes' /\ TaskTypes' /\ AuxTypes'
  <2>1. Return(k) /\ refused' = refused \cup {call[k].id} /\ UNCHANGED <<lastId, acked, boundVars>>
    BY <1>11 DEF Refuse
  <2>2. QED
    BY <1>1, <1>8, <1>11, <2>1, ReturnTypes DEF AuxTypes
<1>12. CASE Stage(k)
  <2>1. PICK ts \in Groups :
          call' = [call EXCEPT ![k] = [id |-> lastId + 1, base |-> [t \in ts |-> head[t]]]]
    BY <1>12 DEF Stage
  <2> DEFINE b == [t \in ts |-> head[t]]
  <2>2. b \in Bases
    <3>1. ts \subseteq Tables
      BY ConstantsAssumption
    <3>2. DOMAIN b = ts /\ b \in [ts -> Heads]
      BY <1>1, <3>1 DEF DiskTypes
    <3> HIDE DEF b
    <3>3. QED
      BY <3>1, <3>2, BasesType
  <2>3. lastId + 1 \in Ids
    <3>1. setting.ids \in Ids /\ lastId \in Ids \cup {0} /\ lastId < setting.ids
      BY <1>1, <1>12, ConstantsAssumption DEF Stage, SettingTypes, AuxTypes
    <3>2. QED
      BY <3>1, ConstantsAssumption DEF Ids
  <2>4. [id |-> lastId + 1, base |-> b] \in Calls
    BY <2>2, <2>3 DEF Calls
  <2> HIDE DEF b
  <2>5. TaskTypes'
    BY <1>1, <1>9, <1>12, <2>1, <2>4 DEF Stage, TaskTypes, b
  <2>6. AuxTypes'
    BY <1>1, <1>12, <2>3 DEF Stage, AuxTypes
  <2>7. QED
    BY <1>2, <1>3, <1>4, <1>5, <1>7, <1>12, <2>5, <2>6 DEF Stage
<1>13. CASE Timeout(k)
  BY <1>2, <1>3, <1>4, <1>5, <1>11, <1>13 DEF Timeout
<1>14. CASE Enter(k)
  <2>1. phase[k] = "staged" /\ UNCHANGED <<setting, journalVars, procVars>>
    BY <1>14 DEF Enter
  <2>2. CASE Refuse(k) /\ UNCHANGED diskVars
    BY <1>2, <1>3, <1>4, <1>5, <1>11, <2>1, <2>2
  <2>3. ASSUME NEW t \in TablesOf(k), meta' = k, lock' = [lock EXCEPT ![t] = k], PutSlot(k, t),
               Goto(k, "publish", {}), UNCHANGED <<head, headDisk, auxVars>>
        PROVE  TypeOK'
    <3>1. t \in Tables /\ NewHead(k, t).seq \in Seqs /\ call[k].id \in Ids
      BY <1>8, <2>1
    <3>2. DiskTypes'
      BY <1>1, <2>3, <3>1, PutSlotTypes
    <3>3. TaskTypes'
      BY <1>1, <1>9, <1>10, <2>3, GotoTypes
    <3>4. LockTypes'
      BY <1>1, <2>3 DEF LockTypes
    <3>5. QED
      BY <1>2, <1>3, <1>5, <1>6, <2>1, <2>3, <3>2, <3>3, <3>4
  <2>4. QED
    BY <1>14, <2>2, <2>3 DEF Enter
<1>15. CASE Publish(k)
  <2>1. PICK t \in TablesOf(k) :
          /\ slotDisk' = [slotDisk EXCEPT ![t][NewHead(k, t).seq] = {call[k].id}]
          /\ Rename(t, NewHead(k, t))
    BY <1>15 DEF Publish
  <2>2. /\ phase[k] = "publish" /\ Goto(k, "harden", {})
        /\ UNCHANGED <<setting, slot, journalVars, lockVars, procVars, auxVars>>
    BY <1>15 DEF Publish
  <2>3. t \in Tables /\ NewHead(k, t) \in Heads /\ NewHead(k, t).seq \in Seqs /\ call[k].id \in Ids
    BY <1>8, <2>2
  <2>4. slotDisk' \in [Tables -> [Seqs -> SUBSET Contents]]
    <3>1. {call[k].id} \in SUBSET Contents /\ slotDisk[t] \in [Seqs -> SUBSET Contents]
      BY <1>1, <2>3 DEF Contents, DiskTypes
    <3>2. [slotDisk[t] EXCEPT ![NewHead(k, t).seq] = {call[k].id}] \in [Seqs -> SUBSET Contents]
      BY <2>3, <3>1
    <3>3. QED
      BY <1>1, <2>1, <3>2 DEF DiskTypes
  <2>5. DiskTypes'
    BY <1>1, <2>1, <2>2, <2>3, <2>4, RenameTypes DEF DiskTypes
  <2>6. TaskTypes'
    BY <1>1, <1>9, <1>10, <2>2, GotoTypes
  <2>7. QED
    BY <1>2, <1>3, <1>5, <1>6, <1>7, <2>2, <2>5, <2>6
<1>16. CASE Harden(k)
  <2>1. /\ SyncDirs(TablesOf(k)) /\ Return(k) /\ phase[k] = "harden"
        /\ acked' = acked \cup {call[k].id}
        /\ UNCHANGED <<setting, head, slot, slotDisk, journalVars, procVars, lastId, refused, boundVars>>
    BY <1>16 DEF Harden
  <2>2. DiskTypes'
    BY <1>1, <2>1, SyncTypes DEF DiskTypes
  <2>3. AuxTypes'
    BY <1>1, <1>8, <2>1 DEF AuxTypes
  <2>4. QED
    BY <1>1, <1>2, <1>3, <1>5, <2>1, <2>2, <2>3, ReturnTypes
<1>17. CASE Validate(k)
  <2>1. phase[k] = "staged" /\ UNCHANGED <<setting, diskVars, journalVars, procVars>>
    BY <1>17 DEF Validate
  <2>2. CASE Refuse(k)
    BY <1>2, <1>3, <1>4, <1>5, <1>11, <2>1, <2>2
  <2>3. CASE meta' = k /\ Goto(k, "put", TablesOf(k)) /\ UNCHANGED <<lock, auxVars>>
    <3>1. TaskTypes'
      BY <1>1, <1>8, <1>9, <2>1, <2>3, GotoTypes
    <3>2. LockTypes'
      BY <1>1, <2>3 DEF LockTypes
    <3>3. QED
      BY <1>2, <1>3, <1>4, <1>5, <1>6, <2>1, <2>3, <3>1, <3>2
  <2>4. QED
    BY <1>17, <2>2, <2>3 DEF Validate
<1>18. CASE PutManifests(k)
  <2>1. /\ phase[k] = "put"
        /\ UNCHANGED <<setting, head, headDisk, journalVars, lockVars, procVars, auxVars>>
    BY <1>18 DEF PutManifests
  <2>2. PICK t \in todo[k] :
          /\ PutSlot(k, t)
          /\ IF todo[k] = {t} THEN Goto(k, "sync", {}) ELSE Goto(k, "put", todo[k] \ {t})
    BY <1>18 DEF PutManifests
  <2>3. TaskTypes'
    BY <1>1, <1>9, <1>10, <2>2, GotoTypes
  <2>4. DiskTypes'
    <3>1. t \in Tables /\ NewHead(k, t).seq \in Seqs /\ call[k].id \in Ids
      BY <1>8, <1>10, <2>1
    <3>2. QED
      BY <1>1, <1>10, <2>1, <2>2, <3>1, PutSlotTypes
  <2>5. QED
    BY <1>2, <1>3, <1>5, <1>6, <1>7, <2>1, <2>3, <2>4
<1>19. CASE SyncManifests(k)
  <2>1. /\ phase[k] = "sync" /\ Goto(k, "journal", {})
        /\ UNCHANGED <<setting, head, headDisk, slot, journalVars, lockVars, procVars, auxVars>>
    BY <1>19 DEF SyncManifests
  <2>2. DiskTypes'
    BY <1>1, <1>8, <1>19, <2>1, SyncManifestsTypes
  <2>3. TaskTypes'
    BY <1>1, <1>9, <1>10, <2>1, GotoTypes
  <2>4. QED
    BY <1>2, <1>3, <1>5, <1>6, <1>7, <2>1, <2>2, <2>3
<1>20. CASE PutJournal(k)
  <2>1. phase[k] = "journal" /\ UNCHANGED <<setting, diskVars, lockVars, procVars, auxVars>>
    BY <1>20 DEF PutJournal
  <2>2. JournalTypes' /\ TaskTypes'
    BY <1>1, <1>8, <1>20, <2>1, PutJournalTypes
  <2>3. QED
    BY <1>2, <1>3, <1>4, <1>6, <1>7, <2>1, <2>2
<1>21. CASE SyncJournal(k)
  <2>1. /\ phase[k] = "jsync" /\ Goto(k, "lock", TablesOf(k))
        /\ journalDisk' = [journalDisk EXCEPT ![call[k].id] = {journal[call[k].id]}]
        /\ UNCHANGED <<setting, diskVars, journal, entries, lockVars, procVars, auxVars>>
    BY <1>21 DEF SyncJournal
  <2>2. JournalTypes'
    <3>1. {journal[call[k].id]} \in SUBSET JournalStates
      BY <1>1, <1>8, <2>1 DEF JournalTypes
    <3>2. QED
      BY <1>1, <2>1, <3>1 DEF JournalTypes
  <2>3. TaskTypes'
    BY <1>1, <1>8, <1>9, <2>1, GotoTypes
  <2>4. QED
    BY <1>2, <1>3, <1>4, <1>6, <1>7, <2>1, <2>2, <2>3
<1>22. CASE LockTable(k)
  <2>1. phase[k] = "lock" /\ UNCHANGED <<setting, diskVars, journalVars, procVars>>
    BY <1>22 DEF LockTable
  <2>2. CASE Refuse(k)
    BY <1>2, <1>3, <1>4, <1>5, <1>11, <2>1, <2>2
  <2>3. ASSUME NEW t \in todo[k], lock' = [lock EXCEPT ![t] = k],
               IF todo[k] = {t} THEN Goto(k, "swap", TablesOf(k)) ELSE Goto(k, "lock", todo[k] \ {t}),
               UNCHANGED <<meta, auxVars>>
        PROVE  TypeOK'
    <3>1. TaskTypes'
      BY <1>1, <1>8, <1>9, <1>10, <2>1, <2>3, GotoTypes
    <3>2. LockTypes'
      BY <1>1, <2>3 DEF LockTypes
    <3>3. QED
      BY <1>2, <1>3, <1>4, <1>5, <1>6, <2>1, <2>3, <3>1, <3>2
  <2>4. QED
    BY <1>22, <2>2, <2>3 DEF LockTable
<1>23. CASE SwapHead(k)
  <2>1. /\ phase[k] = "swap" /\ UNCHANGED <<setting, slot, slotDisk, journalVars, lockVars, procVars, auxVars>>
    BY <1>23 DEF SwapHead
  <2>2. PICK t \in todo[k] :
          /\ Rename(t, NewHead(k, t))
          /\ IF todo[k] = {t} THEN Goto(k, "dirsync", TablesOf(k)) ELSE Goto(k, "swap", todo[k] \ {t})
    BY <1>23 DEF SwapHead
  <2>3. TaskTypes'
    BY <1>1, <1>8, <1>9, <1>10, <2>1, <2>2, GotoTypes
  <2>4. NewHead(k, t) \in Heads
    BY <1>8, <1>10, <2>1, <2>2
  <2>5. DiskTypes'
    BY <1>1, <2>1, <2>2, <2>4, RenameTypes DEF DiskTypes
  <2>6. QED
    BY <1>2, <1>3, <1>5, <1>6, <1>7, <2>1, <2>3, <2>5
<1>24. CASE SyncHead(k)
  <2>1. /\ phase[k] = "dirsync"
        /\ UNCHANGED <<setting, head, slot, slotDisk, journalVars, lockVars, procVars, auxVars>>
    BY <1>24 DEF SyncHead
  <2>2. PICK t \in todo[k] :
          /\ SyncDirs({t})
          /\ IF todo[k] = {t} THEN Goto(k, "delete", {}) ELSE Goto(k, "dirsync", todo[k] \ {t})
    BY <1>24 DEF SyncHead
  <2>3. TaskTypes'
    BY <1>1, <1>9, <1>10, <2>2, GotoTypes
  <2>4. DiskTypes'
    BY <1>1, <2>1, <2>2, SyncTypes DEF DiskTypes
  <2>5. QED
    BY <1>2, <1>3, <1>5, <1>6, <1>7, <2>1, <2>3, <2>4
<1>25. CASE Finish(k)
  <2>1. /\ DeleteJournal(call[k].id) /\ Return(k) /\ phase[k] = "delete"
        /\ acked' = acked \cup {call[k].id}
        /\ UNCHANGED <<setting, diskVars, procVars, lastId, refused, boundVars>>
    BY <1>25 DEF Finish
  <2>2. AuxTypes'
    BY <1>1, <1>8, <2>1 DEF AuxTypes
  <2>3. QED
    BY <1>1, <1>2, <1>3, <1>4, <2>1, <2>2, ReturnTypes, DeleteTypes
<1>26. CASE IoError(k)
  <2>1. /\ Return(k) /\ crashes < MaxCrash /\ crashes' = crashes + 1
        /\ UNCHANGED <<setting, diskVars, journalVars, procVars, lastId, acked, refused, powerLosses>>
    BY <1>26 DEF IoError
  <2>2. AuxTypes'
    BY <1>1, <2>1, ConstantsAssumption DEF AuxTypes
  <2>3. QED
    BY <1>1, <1>2, <1>3, <1>4, <1>5, <2>1, <2>2, ReturnTypes
<1>27. QED
  BY <1>12, <1>13, <1>14, <1>15, <1>16, <1>17, <1>18, <1>19, <1>20, <1>21, <1>22, <1>23, <1>24,
     <1>25, <1>26 DEF TaskStep

(* What recovery has in hand. *)
LEMMA JournalInHand ==
    ASSUME TypeOK, RecoverInv, NEW p \in Procs, NEW t,
           t \in left[p] \/ (db[p] \in {"swap", "sync"} /\ t = seen[p].table)
    PROVE  LET x == First(queue[p])
           IN  /\ x \in queue[p] /\ x \in Ids /\ queue[p] \subseteq Ids
               /\ t \in DOMAIN entries[x] /\ t \in left[p] /\ t \in Tables
               /\ entries[x][t] \in Heads /\ entries[x][t].seq \in Seqs
<1> DEFINE x == First(queue[p])
<1>1. JournalTypes /\ ProcTypes
  BY TypeParts
<1>2. t \in left[p] /\ queue[p] # {} /\ t \in DOMAIN entries[x]
  BY DEF RecoverInv, RecoverOK
<1>3. queue[p] \subseteq Ids /\ left[p] \subseteq Tables
  BY <1>1 DEF ProcTypes
<1>4. x \in queue[p] /\ x \in Ids
  BY <1>2, <1>3, FirstIn
<1> HIDE DEF x
<1>5. entries[x] \in Bases
  BY <1>1, <1>4 DEF JournalTypes
<1>6. entries[x] \in [DOMAIN entries[x] -> Heads]
  BY <1>5, BasesType
<1>7. entries[x][t] \in Heads
  BY <1>2, <1>6
<1>8. entries[x][t].seq \in Seqs
  BY <1>7 DEF Heads
<1>9. QED
  BY <1>2, <1>3, <1>4, <1>7, <1>8 DEF x

(* A process that gives up its open, and one that is done with an entry. *)
LEMMA ClosedTypes == ASSUME ProcTypes, NEW p \in Procs, Closed(p) PROVE ProcTypes'
BY Zeros DEF ProcTypes, Closed

(* Recovery is done with one entry of a journal. *)
LEMMA EntryDoneTypes ==
    ASSUME ProcTypes, JournalTypes, NEW p \in Procs, NEW t, EntryDone(p, t)
    PROVE  ProcTypes' /\ JournalTypes'
<1>1. seen' = [seen EXCEPT ![p] = NoSeen] /\ left' = [left EXCEPT ![p] = left[p] \ {t}]
  BY DEF EntryDone
<1>2. CASE left[p] = {t}
  <2>1. /\ DeleteJournal(First(queue[p]))
        /\ queue' = [queue EXCEPT ![p] = queue[p] \ {First(queue[p])}]
        /\ db' = [db EXCEPT ![p] = IF queue[p] = {First(queue[p])} THEN "open" ELSE "recover"]
    BY <1>2 DEF EntryDone
  <2>2. QED
    BY <1>1, <2>1, DeleteTypes, Zeros DEF ProcTypes
<1>3. CASE left[p] # {t}
  BY <1>1, <1>3, Zeros DEF EntryDone, ProcTypes, JournalTypes, journalVars
<1>4. QED
  BY <1>2, <1>3

(* Processes keep the types. *)
LEMMA ProcType ==
    ASSUME TypeOK, RecoverInv, NEW p \in Procs, Open(p) \/ ProcStep(p) \/ Crash(p) PROVE TypeOK'
<1> USE DEF journalVars, procVars, lockVars, diskVars, taskVars, auxVars, boundVars
<1>1. /\ SettingTypes /\ DiskTypes /\ JournalTypes /\ LockTypes /\ TaskTypes /\ ProcTypes /\ AuxTypes
  BY TypeParts
<1>2. ASSUME SettingTypes', DiskTypes', JournalTypes', LockTypes', TaskTypes', ProcTypes', AuxTypes'
      PROVE  TypeOK'
  BY <1>2 DEF TypeOK, SettingTypes, DiskTypes, JournalTypes, LockTypes, TaskTypes, ProcTypes, AuxTypes,
     Calls, Contents
<1>3. UNCHANGED setting => SettingTypes'
  BY <1>1 DEF SettingTypes
<1>4. UNCHANGED diskVars => DiskTypes'
  BY <1>1 DEF DiskTypes
<1>5. UNCHANGED journalVars => JournalTypes'
  BY <1>1 DEF JournalTypes
<1>6. UNCHANGED auxVars => AuxTypes'
  BY <1>1 DEF AuxTypes
<1>7. UNCHANGED lockVars => LockTypes'
  BY <1>1 DEF LockTypes
<1>8. UNCHANGED taskVars => TaskTypes'
  BY <1>1 DEF TaskTypes
<1>9. CASE Open(p)
  <2>1. ProcTypes'
    BY <1>1, <1>9 DEF Open, ProcTypes
  <2>2. QED
    BY <1>2, <1>3, <1>4, <1>5, <1>6, <1>7, <1>8, <1>9, <2>1 DEF Open
<1>10. CASE ReadJournal(p)
  <2>1. UNCHANGED <<setting, diskVars, journalVars, lockVars, taskVars, auxVars>>
    BY <1>10 DEF ReadJournal
  <2>2. CASE Closed(p)
    BY <1>1, <1>2, <1>3, <1>4, <1>5, <1>6, <1>7, <1>8, <2>1, <2>2, ClosedTypes
  <2>3. CASE /\ left' = [left EXCEPT ![p] = DOMAIN entries[First(queue[p])]]
             /\ UNCHANGED <<db, queue, seen>> /\ db[p] = "recover"
    <3>1. DOMAIN entries[First(queue[p])] \subseteq Tables
      <4>1. queue[p] # {} /\ queue[p] \subseteq Ids
        BY <1>1, <2>3 DEF RecoverInv, RecoverOK, ProcTypes
      <4>2. entries[First(queue[p])] \in Bases
        BY <1>1, <4>1, FirstIn DEF JournalTypes
      <4>3. QED
        BY <4>2, BasesType
    <3>2. ProcTypes'
      BY <1>1, <2>3, <3>1 DEF ProcTypes
    <3>3. QED
      BY <1>2, <1>3, <1>4, <1>5, <1>6, <1>7, <1>8, <2>1, <3>2
  <2>4. QED
    BY <1>10, <2>2, <2>3 DEF ReadJournal
<1>11. CASE RecoverRead(p)
  <2>1. UNCHANGED <<setting, diskVars, lockVars, taskVars, auxVars>>
    BY <1>11 DEF RecoverRead
  <2>2. CASE \E t \in left[p] : EntryDone(p, t)
    BY <1>1, <1>2, <1>3, <1>4, <1>6, <1>7, <1>8, <2>1, <2>2, EntryDoneTypes
  <2>3. CASE \E t \in left[p] : /\ seen' = [seen EXCEPT ![p] = [table |-> t, head |-> head[t]]]
                                /\ db' = [db EXCEPT ![p] = "swap"]
                                /\ UNCHANGED <<queue, left, journalVars>>
    <3>1. ProcTypes'
      <4>1. PICK t \in left[p] : /\ seen' = [seen EXCEPT ![p] = [table |-> t, head |-> head[t]]]
                                 /\ db' = [db EXCEPT ![p] = "swap"]
                                 /\ UNCHANGED <<queue, left, journalVars>>
        BY <2>3
      <4>2. t \in Tables /\ head[t] \in Heads
        BY <1>1 DEF ProcTypes, DiskTypes
      <4>3. [table |-> t, head |-> head[t]] \in [table : Tables \cup {NoOne}, head : Heads]
        BY <4>2
      <4>4. QED
        BY <1>1, <4>1, <4>3 DEF ProcTypes
    <3>2. QED
      BY <1>2, <1>3, <1>4, <1>5, <1>6, <1>7, <1>8, <2>1, <2>3, <3>1
  <2>4. QED
    BY <1>11, <2>2, <2>3 DEF RecoverRead
<1>12. CASE RecoverSwap(p)
  <2> DEFINE t == seen[p].table
             h == entries[First(queue[p])][t]
  <2>1. UNCHANGED <<setting, slot, slotDisk, journalVars, meta, taskVars, auxVars>> /\ db[p] = "swap"
    BY <1>12 DEF RecoverSwap
  <2>2. CASE Closed(p) /\ UNCHANGED <<head, headDisk, lock>>
    BY <1>1, <1>2, <1>3, <1>4, <1>5, <1>6, <1>7, <1>8, <2>1, <2>2, ClosedTypes
  <2>3. CASE /\ lock' = [lock EXCEPT ![t] = p] /\ Rename(t, h)
             /\ db' = [db EXCEPT ![p] = "sync"] /\ UNCHANGED <<queue, left, seen>>
    <3>1. h \in Heads
      BY <2>1, JournalInHand
    <3>2. DiskTypes'
      BY <1>1, <2>1, <2>3, <3>1, RenameTypes DEF DiskTypes
    <3>3. ProcTypes'
      BY <1>1, <2>3 DEF ProcTypes
    <3>4. LockTypes'
      BY <1>1, <2>1, <2>3 DEF LockTypes
    <3>5. QED
      BY <1>2, <1>3, <1>5, <1>6, <1>8, <2>1, <3>2, <3>3, <3>4
  <2>4. QED
    BY <1>12, <2>2, <2>3 DEF RecoverSwap
<1>13. CASE RecoverSync(p)
  <2>1. /\ SyncDirs({seen[p].table}) /\ lock' = [lock EXCEPT ![seen[p].table] = NoOne]
        /\ EntryDone(p, seen[p].table)
        /\ UNCHANGED <<setting, head, slot, slotDisk, meta, taskVars, auxVars>>
    BY <1>13 DEF RecoverSync
  <2>2. DiskTypes'
    BY <1>1, <2>1, SyncTypes DEF DiskTypes
  <2>3. LockTypes'
    BY <1>1, <2>1 DEF LockTypes
  <2>4. QED
    BY <1>1, <1>2, <1>3, <1>6, <1>8, <2>1, <2>2, <2>3, EntryDoneTypes
<1>14. CASE Crash(p)
  <2> DEFINE gone == {k \in Tasks : setting.procOf[k] = p}
  <2>1. /\ phase' = [k \in Tasks |-> IF k \in gone THEN "idle" ELSE phase[k]]
        /\ call' = [k \in Tasks |-> IF k \in gone THEN NoCall ELSE call[k]]
        /\ todo' = [k \in Tasks |-> IF k \in gone THEN {} ELSE todo[k]]
        /\ meta' = (IF meta \in gone THEN NoOne ELSE meta)
        /\ lock' = [t \in Tables |-> IF lock[t] \in gone \cup {p} THEN NoOne ELSE lock[t]]
        /\ Closed(p) /\ crashes < MaxCrash /\ crashes' = crashes + 1
        /\ UNCHANGED <<setting, diskVars, journalVars, lastId, acked, refused, powerLosses>>
    BY <1>14 DEF Crash
  <2>2. TaskTypes'
    <3>1. "idle" \in Phases
      BY DEF Phases
    <3>2. QED
      BY <1>1, <2>1, <3>1, Zeros DEF TaskTypes
  <2>3. LockTypes'
    BY <1>1, <2>1 DEF LockTypes
  <2>4. AuxTypes'
    BY <1>1, <2>1, ConstantsAssumption DEF AuxTypes
  <2>5. QED
    BY <1>1, <1>2, <1>3, <1>4, <1>5, <2>1, <2>2, <2>3, <2>4, ClosedTypes
<1>15. QED
  BY <1>9, <1>10, <1>11, <1>12, <1>13, <1>14 DEF ProcStep

(* Power comes and goes. *)
LEMMA PowerType == ASSUME TypeOK, Flush \/ PowerLoss PROVE TypeOK'
<1> USE DEF journalVars, procVars, lockVars, diskVars, taskVars, auxVars, boundVars
<1>1. /\ SettingTypes /\ DiskTypes /\ JournalTypes /\ LockTypes /\ TaskTypes /\ ProcTypes /\ AuxTypes
  BY TypeParts
<1>2. ASSUME SettingTypes', DiskTypes', JournalTypes', LockTypes', TaskTypes', ProcTypes', AuxTypes'
      PROVE  TypeOK'
  BY <1>2 DEF TypeOK, SettingTypes, DiskTypes, JournalTypes, LockTypes, TaskTypes, ProcTypes, AuxTypes,
     Calls, Contents
<1>3. CASE Flush
  <2>1. DiskTypes' /\ JournalTypes'
    BY <1>1, <1>3 DEF Flush, DiskTypes, JournalTypes
  <2>2. QED
    BY <1>1, <1>2, <1>3, <2>1 DEF Flush, SettingTypes, LockTypes, TaskTypes, ProcTypes, AuxTypes
<1>4. CASE PowerLoss
  <2>1. DiskTypes'
    <3>1. head' \in Choices(headDisk) /\ headDisk' = [t \in Tables |-> {head'[t]}]
      BY <1>4 DEF PowerLoss
    <3>2. head' \in [Tables -> Heads]
      <4>1. DOMAIN headDisk = Tables /\ \A t \in Tables : headDisk[t] \subseteq Heads
        BY <1>1 DEF DiskTypes
      <4>2. head' = [t \in Tables |-> head'[t]] /\ \A t \in Tables : head'[t] \in headDisk[t]
        BY <3>1, <4>1, Chosen
      <4>3. QED
        BY <4>1, <4>2
    <3>3. slot' \in [Tables -> [Seqs -> Contents]]
      <4> DEFINE all == [t \in Tables |-> Choices(slotDisk[t])]
      <4>1. slot' \in Choices(all) /\ DOMAIN all = Tables
        BY <1>4 DEF PowerLoss
      <4> HIDE DEF all
      <4>2. slot' = [t \in Tables |-> slot'[t]] /\ \A t \in Tables : slot'[t] \in all[t]
        BY <4>1, Chosen
      <4>3. ASSUME NEW t \in Tables PROVE slot'[t] \in [Seqs -> Contents]
        <5>1. DOMAIN slotDisk[t] = Seqs /\ \A s \in Seqs : slotDisk[t][s] \subseteq Contents
          BY <1>1 DEF DiskTypes
        <5>2. slot'[t] \in Choices(slotDisk[t])
          BY <4>2 DEF all
        <5>3. slot'[t] = [s \in Seqs |-> slot'[t][s]] /\ \A s \in Seqs : slot'[t][s] \in slotDisk[t][s]
          BY <5>1, <5>2, Chosen
        <5>4. QED
          BY <5>1, <5>3
      <4>4. QED
        BY <4>2, <4>3
    <3>4. slotDisk' = [t \in Tables |-> [s \in Seqs |-> {slot'[t][s]}]]
      BY <1>4 DEF PowerLoss
    <3>5. QED
      BY <3>1, <3>2, <3>3, <3>4 DEF DiskTypes
  <2>2. JournalTypes'
    <3>1. journal' \in Choices(journalDisk) /\ journalDisk' = [x \in Ids |-> {journal'[x]}]
          /\ entries' = entries
      BY <1>4 DEF PowerLoss
    <3>2. journal' \in [Ids -> JournalStates]
      <4>1. DOMAIN journalDisk = Ids /\ \A x \in Ids : journalDisk[x] \subseteq JournalStates
        BY <1>1 DEF JournalTypes
      <4>2. journal' = [x \in Ids |-> journal'[x]] /\ \A x \in Ids : journal'[x] \in journalDisk[x]
        BY <3>1, <4>1, Chosen
      <4>3. QED
        BY <4>1, <4>2
    <3>3. QED
      BY <1>1, <3>1, <3>2 DEF JournalTypes
  <2>3. TaskTypes' /\ LockTypes'
    <3>1. "idle" \in Phases
      BY DEF Phases
    <3>2. QED
      BY <1>4, <3>1, Zeros DEF PowerLoss, TaskTypes, LockTypes
  <2>4. ProcTypes'
    BY <1>4, Zeros DEF PowerLoss, ProcTypes
  <2>5. SettingTypes' /\ AuxTypes'
    BY <1>1, <1>4, ConstantsAssumption DEF PowerLoss, SettingTypes, AuxTypes
  <2>6. QED
    BY <1>2, <2>1, <2>2, <2>3, <2>4, <2>5
<1>5. QED
  BY <1>3, <1>4

(* ... and leaves of every file one of the contents it might leave. *)
LEMMA AfterPowerLoss ==
    ASSUME TypeOK, PowerLoss
    PROVE  /\ \A t \in Tables : head'[t] \in headDisk[t] /\ headDisk'[t] = {head'[t]}
           /\ \A t \in Tables : \A s \in Seqs :
                 slot'[t][s] \in slotDisk[t][s] /\ slotDisk'[t][s] = {slot'[t][s]}
           /\ \A x \in Ids : journal'[x] \in journalDisk[x] /\ journalDisk'[x] = {journal'[x]}
<1>1. DiskTypes /\ JournalTypes
  BY TypeParts
<1>2. \A t \in Tables : head'[t] \in headDisk[t] /\ headDisk'[t] = {head'[t]}
  <2>1. head' \in Choices(headDisk) /\ headDisk' = [t \in Tables |-> {head'[t]}]
    BY DEF PowerLoss
  <2>2. DOMAIN headDisk = Tables
    BY <1>1 DEF DiskTypes
  <2>3. QED
    BY <2>1, <2>2, Chosen
<1>3. ASSUME NEW t \in Tables, NEW s \in Seqs
      PROVE  slot'[t][s] \in slotDisk[t][s] /\ slotDisk'[t][s] = {slot'[t][s]}
  <2> DEFINE all == [u \in Tables |-> Choices(slotDisk[u])]
  <2>1. slot' \in Choices(all) /\ DOMAIN all = Tables /\ all[t] = Choices(slotDisk[t])
        /\ slotDisk' = [u \in Tables |-> [v \in Seqs |-> {slot'[u][v]}]]
    BY DEF PowerLoss
  <2> HIDE DEF all
  <2>2. slot'[t] \in Choices(slotDisk[t])
    BY <2>1, Chosen
  <2>3. DOMAIN slotDisk[t] = Seqs
    BY <1>1 DEF DiskTypes
  <2>4. slot'[t][s] \in slotDisk[t][s]
    BY <2>2, <2>3, Chosen
  <2>5. QED
    BY <2>1, <2>4
<1>4. \A x \in Ids : journal'[x] \in journalDisk[x] /\ journalDisk'[x] = {journal'[x]}
  <2>1. journal' \in Choices(journalDisk) /\ journalDisk' = [x \in Ids |-> {journal'[x]}]
    BY DEF PowerLoss
  <2>2. DOMAIN journalDisk = Ids
    BY <1>1 DEF JournalTypes
  <2>3. QED
    BY <2>1, <2>2, Chosen
<1>5. QED
  BY <1>2, <1>3, <1>4

-----------------------------------------------------------------------------
(***************************************************************************)
(* What the steps of a call leave alone.                                   *)
(***************************************************************************)
(* Other calls, every process, the numbers given out. *)
Frame(k) ==
    /\ \A j \in Tasks \ {k} : phase'[j] = phase[j] /\ call'[j] = call[j] /\ todo'[j] = todo[j]
    /\ UNCHANGED <<setting, db, queue, left, seen>>

(* The call is over and holds nothing. *)
Ended(k) ==
    /\ phase'[k] = "idle" /\ call'[k] = NoCall /\ todo'[k] = {}
    /\ meta' = IF meta = k THEN NoOne ELSE meta
    /\ \A t \in Tables : lock'[t] = IF lock[t] = k THEN NoOne ELSE lock[t]
    /\ acked' \subseteq acked \cup {call[k].id} /\ refused' \subseteq refused \cup {call[k].id}

(* The call goes on under CATALOG.lock. *)
Advanced(k) ==
    /\ phase'[k] \in Phases \ {"idle", "staged"} /\ call'[k] = call[k]
    /\ phase[k] \in Journaled => phase'[k] \in Journaled
    /\ meta' = k /\ meta \in {k, NoOne}
    /\ UNCHANGED <<acked, refused>>
    /\ \A t \in Tables : lock'[t] = lock[t] \/ (lock[t] = NoOne /\ lock'[t] = k)

(* Only its own number is written, to its own journal. *)
Writes(k) ==
    /\ \A t \in Tables : \A s \in Seqs : \A x :
          x \in slotDisk'[t][s] \/ x = slot'[t][s] =>
             x = call[k].id \/ x \in slotDisk[t][s] \/ x = slot[t][s]
    /\ \A x \in Ids : x # call[k].id \/ phase'[k] \notin Journaled \cup {"idle"} =>
          journal'[x] = journal[x] /\ journalDisk'[x] = journalDisk[x] /\ entries'[x] = entries[x]
    /\ meta \notin {k, NoOne} => UNCHANGED <<diskVars, journalVars>>

TaskEffect(k) ==
    phase[k] # "idle" /\ lastId' = lastId /\ Frame(k) /\ (Ended(k) \/ Advanced(k)) /\ Writes(k)

(* Going on, and answering. *)
LEMMA GotoFrame ==
    ASSUME TaskTypes, NEW k \in Tasks, NEW ph, NEW ts, Goto(k, ph, ts), UNCHANGED <<setting, procVars>>
    PROVE  Frame(k) /\ phase'[k] = ph /\ todo'[k] = ts /\ call' = call
BY DEF TaskTypes, Goto, Frame, procVars

(* A call that returns touches no other call. *)
LEMMA ReturnFrame ==
    ASSUME TaskTypes, NEW k \in Tasks, Return(k), UNCHANGED <<setting, procVars>>,
           acked' \subseteq acked \cup {call[k].id}, refused' \subseteq refused \cup {call[k].id}
    PROVE  Frame(k) /\ Ended(k)
BY DEF TaskTypes, Return, Frame, Ended, procVars

(* A step that touches no file. *)
LEMMA WritesNothing ==
    ASSUME NEW k, UNCHANGED <<diskVars, journalVars>> PROVE Writes(k)
BY DEF Writes, diskVars, journalVars

(* A call that gives up without touching a file. *)
LEMMA QuietEffect ==
    ASSUME TypeOK, NEW k \in Tasks, phase[k] # "idle", Return(k), lastId' = lastId,
           acked' = acked, refused' \subseteq refused \cup {call[k].id},
           UNCHANGED <<setting, procVars, diskVars, journalVars>>
    PROVE  TaskEffect(k) /\ Ended(k)
<1>1. TaskTypes
  BY TypeParts
<1>2. Frame(k) /\ Ended(k)
  BY <1>1, ReturnFrame
<1>3. QED
  BY <1>2, WritesNothing DEF TaskEffect

(* A phase under CATALOG.lock. *)
LEMMA Holder == ASSUME LockInv, NEW k \in Tasks, Active(k) PROVE meta = k
BY DEF LockInv

(* A step under CATALOG.lock that answers nothing. *)
LEMMA AdvanceEffect ==
    ASSUME TypeOK, NEW k \in Tasks, NEW ph \in Phases \ {"idle", "staged"}, NEW ts, Goto(k, ph, ts),
           phase[k] # "idle", phase[k] \in Journaled => ph \in Journaled,
           UNCHANGED <<setting, procVars, auxVars>>, meta' = k, meta \in {k, NoOne}, Writes(k),
           \A t \in Tables : lock'[t] = lock[t] \/ (lock[t] = NoOne /\ lock'[t] = k)
    PROVE  TaskEffect(k) /\ Advanced(k) /\ phase'[k] = ph /\ todo'[k] = ts /\ call' = call
<1>1. TaskTypes
  BY TypeParts
<1>2. Frame(k) /\ phase'[k] = ph /\ todo'[k] = ts /\ call' = call
  BY <1>1, GotoFrame
<1>3. UNCHANGED <<lastId, acked, refused>>
  BY DEF auxVars
<1>4. Advanced(k)
  BY <1>2, <1>3 DEF Advanced
<1>5. QED
  BY <1>2, <1>3, <1>4 DEF TaskEffect

(* Putting a manifest. *)
LEMMA PutSlotWrites ==
    ASSUME TypeOK, NEW k \in Tasks, NEW t \in Tables, NewHead(k, t).seq = NewSeq(k, t),
           NewSeq(k, t) \in Seqs, PutSlot(k, t), UNCHANGED <<head, headDisk, journalVars>>,
           meta \in {k, NoOne}
    PROVE  /\ Writes(k) /\ slot'[t][NewSeq(k, t)] = call[k].id
           /\ \A u \in Tables : \A s \in Seqs : u # t \/ s # NewSeq(k, t) =>
                 slot'[u][s] = slot[u][s] /\ slotDisk'[u][s] = slotDisk[u][s]
           /\ \A x : x \in slotDisk'[t][NewSeq(k, t)] => x = call[k].id \/ x \in slotDisk[t][NewSeq(k, t)]
<1>1. DiskTypes
  BY TypeParts
<1> DEFINE n == NewSeq(k, t)
           i == call[k].id
<1>2. /\ slot' = [slot EXCEPT ![t][n] = i]
      /\ slotDisk' = [slotDisk EXCEPT ![t][n] = slotDisk[t][n] \cup {i}]
  BY <1>1 DEF PutSlot, DiskTypes
<1>3. n \in Seqs
  OBVIOUS
<1> HIDE DEF n, i
<1>4. slot'[t][n] = i /\ slotDisk'[t][n] = slotDisk[t][n] \cup {i}
  BY <1>1, <1>2, <1>3 DEF DiskTypes
<1>5. \A u \in Tables : \A s \in Seqs : u # t \/ s # n =>
                 slot'[u][s] = slot[u][s] /\ slotDisk'[u][s] = slotDisk[u][s]
  BY <1>1, <1>2, <1>3 DEF DiskTypes
<1>6. Writes(k)
  BY <1>4, <1>5 DEF Writes, i, journalVars
<1>7. QED
  BY <1>4, <1>5, <1>6 DEF n, i

(* The numbers stay in order under a call's steps. *)
LEMMA EffectId ==
    ASSUME TypeOK, IdInv, NEW k \in Tasks, TaskEffect(k) PROVE IdInv'
<1>1. /\ phase[k] # "idle" /\ lastId' = lastId /\ Frame(k) /\ Writes(k) /\ (Ended(k) \/ Advanced(k))
  BY DEF TaskEffect
<1>2. call[k].id \in Ids /\ call[k].id \in 1..lastId
  BY <1>1, CallFacts
<1>3. UNCHANGED <<setting, db, queue, left, seen>>
  BY <1>1 DEF Frame
<1>4. \A x \in Ids : x # call[k].id /\ Unwritten(x) =>
         \A t \in Tables : \A s \in Seqs : x \notin slotDisk'[t][s] /\ slot'[t][s] # x
  BY <1>1 DEF Writes, Unwritten
<1>5. \A x \in Ids : (x # call[k].id \/ phase'[k] \notin Journaled \cup {"idle"}) /\ ~Seen(x) =>
         journal'[x] = "none" /\ journalDisk'[x] = {"none"} /\ \A p \in Procs : x \notin queue'[p]
  BY <1>1, <1>3 DEF Writes, Seen
<1>6. \A x \in Ids : x # call[k].id \/ phase'[k] \notin Journaled \cup {"idle"} => entries'[x] = entries[x]
  BY <1>1 DEF Writes
<1>7. acked' \cup refused' \subseteq acked \cup refused \cup {call[k].id}
  BY <1>1 DEF Ended, Advanced
<1>8. ASSUME NEW j \in Tasks PROVE IdOK(j)'
  <2>1. CASE j # k
    <3>1. phase'[j] = phase[j] /\ call'[j] = call[j] /\ todo'[j] = todo[j] /\ IdOK(j)
      BY <1>1, <2>1 DEF Frame, IdInv
    <3>2. CASE phase[j] = "idle"
      BY <3>1, <3>2 DEF IdOK
    <3>3. CASE phase[j] # "idle"
      <4>1. call[j].id # call[k].id /\ call[j].id \in Ids
        BY <2>1, <3>3, CallFacts DEF IdInv
      <4>2. /\ call[j].id \in 1..lastId /\ call[j].id \notin acked' \cup refused'
            /\ TablesOf(j) # {} /\ \A t \in TablesOf(j) : Base(j, t).seq < MaxSeq
            /\ db[setting.procOf[j]] = "open"
        BY <1>7, <3>1, <3>3, <4>1 DEF IdOK
      <4>3. phase[j] = "staged" =>
               \A t \in Tables : \A s \in Seqs : call[j].id \notin slotDisk'[t][s] /\ slot'[t][s] # call[j].id
        BY <1>4, <3>1, <4>1 DEF IdOK
      <4>4. phase[j] \notin Journaled \cup {"idle"} =>
               /\ journal'[call[j].id] = "none" /\ journalDisk'[call[j].id] = {"none"}
               /\ \A p \in Procs : call[j].id \notin queue'[p]
               /\ DOMAIN entries'[call[j].id] = {}
        BY <1>5, <1>6, <3>1, <4>1 DEF IdOK
      <4>5. QED
        BY <1>1, <1>3, <3>1, <3>3, <4>2, <4>3, <4>4 DEF IdOK, Unwritten, Seen, TablesOf, Base
    <3>4. QED
      BY <3>2, <3>3
  <2>2. CASE j = k
    <3>1. CASE Ended(k)
      BY <2>2, <3>1 DEF Ended, IdOK
    <3>2. CASE Advanced(k)
      <4>1. /\ phase'[k] # "idle" /\ phase'[k] # "staged" /\ call'[k] = call[k] /\ IdOK(k)
            /\ acked' = acked /\ refused' = refused /\ (phase[k] \in Journaled => phase'[k] \in Journaled)
        BY <3>2 DEF Advanced, IdInv
      <4>2. /\ call[k].id \notin acked \cup refused
            /\ TablesOf(k) # {} /\ \A t \in TablesOf(k) : Base(k, t).seq < MaxSeq
            /\ db[setting.procOf[k]] = "open"
        BY <1>1, <4>1 DEF IdOK
      <4>3. phase'[k] \notin Journaled \cup {"idle"} =>
               /\ journal'[call[k].id] = "none" /\ journalDisk'[call[k].id] = {"none"}
               /\ \A p \in Procs : call[k].id \notin queue'[p]
               /\ DOMAIN entries'[call[k].id] = {}
        BY <1>1, <1>2, <1>5, <1>6, <4>1 DEF IdOK
      <4>4. QED
        BY <1>1, <1>2, <1>3, <2>2, <4>1, <4>2, <4>3 DEF IdOK, TablesOf, Base, Seen
    <3>3. QED
      BY <1>1, <3>1, <3>2
  <2>3. QED
    BY <2>1, <2>2
<1>9. ASSUME NEW i \in Tasks, NEW j \in Tasks, phase'[i] # "idle", call'[i].id = call'[j].id PROVE i = j
  <2>1. phase[i] # "idle" /\ call'[i] = call[i]
    BY <1>1, <1>9 DEF Frame, Ended, Advanced
  <2>2. call[i].id # 0 /\ call[i].id # NoCall.id
    BY <2>1, CallFacts, Zeros
  <2>3. call'[j] = call[j] \/ call'[j] = NoCall
    BY <1>1 DEF Frame, Ended, Advanced
  <2>4. QED
    BY <1>9, <2>1, <2>2, <2>3 DEF IdInv
<1>10. acked' \cup refused' \subseteq 1..lastId'
  BY <1>1, <1>2, <1>7 DEF IdInv
<1>11. ASSUME NEW x \in Ids, x > lastId'
       PROVE  /\ \A t \in Tables : \A s \in Seqs : x \notin slotDisk'[t][s] /\ slot'[t][s] # x
              /\ journal'[x] = "none" /\ journalDisk'[x] = {"none"} /\ \A p \in Procs : x \notin queue'[p]
              /\ DOMAIN entries'[x] = {}
  <2>1. lastId \in Nat /\ x \in Nat
    BY TypeParts, ConstantsAssumption DEF AuxTypes, Ids
  <2>2. x # call[k].id /\ x > lastId
    BY <1>1, <1>2, <1>11, <2>1
  <2>3. Unwritten(x) /\ ~Seen(x) /\ DOMAIN entries[x] = {}
    BY <2>2 DEF IdInv
  <2>4. QED
    BY <1>4, <1>5, <1>6, <2>2, <2>3
<1>12. QED
  BY <1>8, <1>9, <1>10, <1>11 DEF IdInv, Unwritten, Seen

(* The locks. *)
LEMMA EffectLock ==
    ASSUME TypeOK, LockInv, NEW k \in Tasks, TaskEffect(k) PROVE LockInv'
<1>1. /\ phase[k] # "idle" /\ Frame(k) /\ (Ended(k) \/ Advanced(k))
  BY DEF TaskEffect
<1>2. UNCHANGED <<setting, db, queue, left, seen>>
  BY <1>1 DEF Frame
<1>3. NoOne \notin Tasks /\ NoOne \notin Procs /\ Tasks \cap Procs = {}
  BY ConstantsAssumption
<1>4. ASSUME NEW j \in Tasks PROVE (phase'[j] \notin {"idle", "staged"}) <=> meta' = j
  <2>1. CASE j = k
    BY <1>1, <1>3, <2>1 DEF Ended, Advanced
  <2>2. CASE j # k
    <3>1. phase'[j] = phase[j] /\ ((phase[j] \notin {"idle", "staged"}) <=> meta = j)
      BY <1>1, <2>2 DEF Frame, LockInv, Active
    <3>2. meta' = j <=> meta = j
      BY <1>1, <1>3, <2>2 DEF Ended, Advanced
    <3>3. QED
      BY <3>1, <3>2
  <2>3. QED
    BY <2>1, <2>2
<1>5. ASSUME NEW t \in Tables
      PROVE  /\ lock'[t] \in Tasks => meta' = lock'[t]
             /\ lock'[t] \in Procs => db'[lock'[t]] = "sync" /\ seen'[lock'[t]].table = t
  <2>1. /\ lock[t] \in Tasks => meta = lock[t]
        /\ lock[t] \in Procs => db[lock[t]] = "sync" /\ seen[lock[t]].table = t
    BY DEF LockInv
  <2>2. CASE Ended(k)
    BY <1>2, <1>3, <2>1, <2>2 DEF Ended
  <2>3. CASE Advanced(k)
    BY <1>2, <1>3, <2>1, <2>3 DEF Advanced
  <2>4. QED
    BY <1>1, <2>2, <2>3
<1>6. ASSUME NEW p \in Procs, db'[p] = "sync"
      PROVE  seen'[p].table \in Tables /\ lock'[seen'[p].table] = p
  <2>1. seen[p].table \in Tables /\ lock[seen[p].table] = p
    BY <1>2, <1>6 DEF LockInv
  <2>2. lock'[seen[p].table] = p
    BY <1>1, <1>3, <2>1 DEF Ended, Advanced
  <2>3. QED
    BY <1>2, <2>1, <2>2
<1>7. QED
  BY <1>4, <1>5, <1>6 DEF LockInv, Active

(* Recoveries: a call writes no journal that one of them has listed. *)
LEMMA EffectRecover ==
    ASSUME TypeOK, IdInv, RecoverInv, NEW k \in Tasks, TaskEffect(k),
           call[k].id \in Ids => entries'[call[k].id] = entries[call[k].id] \/ ~Seen(call[k].id)
    PROVE  RecoverInv'
<1>1. phase[k] # "idle" /\ Frame(k) /\ Writes(k)
  BY DEF TaskEffect
<1>2. UNCHANGED <<setting, db, queue, left, seen>>
  BY <1>1 DEF Frame
<1>3. call[k].id \in Ids
  BY <1>1, CallFacts
<1>4. ASSUME NEW p \in Procs PROVE RecoverOK(p)'
  <2>1. RecoverOK(p) /\ queue[p] \subseteq Ids
    BY TypeParts DEF RecoverInv, ProcTypes
  <2>2. CASE queue[p] = {}
    BY <1>2, <2>1, <2>2 DEF RecoverOK
  <2>3. CASE queue[p] # {}
    <3>1. First(queue[p]) \in queue[p] /\ First(queue[p]) \in Ids
      BY <2>1, <2>3, FirstIn
    <3>2. entries'[First(queue[p])] = entries[First(queue[p])]
      BY <1>1, <1>3, <3>1 DEF Writes, Seen
    <3>3. QED
      BY <1>2, <2>1, <3>2 DEF RecoverOK, First
  <2>4. QED
    BY <2>2, <2>3
<1>5. QED
  BY <1>4 DEF RecoverInv

(* A call that holds nothing, and one whose files and locks did not change. *)
LEMMA IdleProgress ==
    ASSUME NEW j \in Tasks, phase'[j] \in {"idle", "staged"}, todo'[j] \subseteq DOMAIN call'[j].base,
           \A t \in Tables : lock'[t] # j
    PROVE  ProgressOK(j)'
BY DEF ProgressOK, TablesOf, Journaled

(* A call whose tables and manifests a step leaves alone is where it was. *)
LEMMA SameProgress ==
    ASSUME NEW j \in Tasks, ProgressOK(j), phase'[j] = phase[j], call'[j] = call[j], todo'[j] = todo[j],
           DOMAIN call[j].base \subseteq Tables,
           \A t \in Tables : lock[t] = j <=> lock'[t] = j,
           \A t \in Tables : lock[t] = j =>
              head'[t] = head[t] /\ (headDisk[t] = {head[t]} => headDisk'[t] = {head[t]}),
           \A t \in Tables : slot'[t] = slot[t] /\ slotDisk'[t] = slotDisk[t],
           DOMAIN entries'[call[j].id] = DOMAIN entries[call[j].id]
    PROVE  ProgressOK(j)'
<1>1. \A t \in DOMAIN call[j].base :
         \/ phase[j] \in {"swap", "dirsync", "delete", "publish", "harden"}
         \/ phase[j] = "lock" /\ t \notin todo[j]
         => lock[t] = j
  BY DEF ProgressOK, TablesOf
<1>2. /\ todo'[j] \subseteq DOMAIN call'[j].base
      /\ phase'[j] \in {"publish", "harden"} => \E t \in Tables : DOMAIN call'[j].base = {t} /\ lock'[t] = j
      /\ \A t \in Tables : lock'[t] = j =>
            \/ phase'[j] \in {"publish", "harden", "swap", "dirsync", "delete"}
            \/ phase'[j] = "lock" /\ t \notin todo'[j]
      /\ phase'[j] \in Journaled => DOMAIN entries'[call'[j].id] = DOMAIN call'[j].base
  BY DEF ProgressOK, TablesOf
<1>3. ASSUME NEW t \in DOMAIN call'[j].base
      PROVE  /\ (phase'[j] = "put" /\ t \notin todo'[j]) \/ phase'[j] = "sync" =>
                   slot'[t][call'[j].base[t].seq + 1] = call'[j].id
             /\ phase'[j] \in Journaled \cup {"journal", "harden"} =>
                   slotDisk'[t][call'[j].base[t].seq + 1] = {call'[j].id}
             /\ \/ phase'[j] = "lock" /\ t \notin todo'[j]
                \/ phase'[j] \in {"swap", "dirsync", "delete"}
                => lock'[t] = j
             /\ \/ phase'[j] = "swap" /\ t \notin todo'[j]
                \/ phase'[j] \in {"dirsync", "delete", "harden"}
                => head'[t] = [seq |-> call'[j].base[t].seq + 1, sum |-> call'[j].id]
             /\ (phase'[j] = "dirsync" /\ t \notin todo'[j]) \/ phase'[j] = "delete" =>
                   headDisk'[t] = {head'[t]}
  <2>1. t \in Tables /\ t \in DOMAIN call[j].base
    OBVIOUS
  <2>2. /\ (phase[j] = "put" /\ t \notin todo[j]) \/ phase[j] = "sync" =>
              slot[t][call[j].base[t].seq + 1] = call[j].id
        /\ phase[j] \in Journaled \cup {"journal", "harden"} =>
              slotDisk[t][call[j].base[t].seq + 1] = {call[j].id}
        /\ \/ phase[j] = "lock" /\ t \notin todo[j]
           \/ phase[j] \in {"swap", "dirsync", "delete"}
           => lock[t] = j
    BY <2>1 DEF ProgressOK, TablesOf, PutOK, DurableOK, NewSeq, Base
  <2>3. /\ \/ phase[j] = "swap" /\ t \notin todo[j]
           \/ phase[j] \in {"dirsync", "delete", "harden"}
           => head[t] = [seq |-> call[j].base[t].seq + 1, sum |-> call[j].id]
        /\ (phase[j] = "dirsync" /\ t \notin todo[j]) \/ phase[j] = "delete" => headDisk[t] = {head[t]}
    BY <2>1 DEF ProgressOK, TablesOf, SwappedOK, NewHead, Base
  <2>4. \/ phase[j] = "swap" /\ t \notin todo[j]
        \/ phase[j] \in {"dirsync", "delete", "harden"}
        => head'[t] = head[t] /\ (headDisk[t] = {head[t]} => headDisk'[t] = {head[t]})
    BY <1>1, <2>1
  <2>5. slot'[t] = slot[t] /\ slotDisk'[t] = slotDisk[t] /\ (lock[t] = j => lock'[t] = j)
    BY <2>1
  <2>6. QED
    BY <2>2, <2>3, <2>4, <2>5
<1>4. QED
  BY <1>2, <1>3 DEF ProgressOK, TablesOf, PutOK, DurableOK, SwappedOK, NewSeq, NewHead, Base

(* Other calls keep what they have done. *)
LEMMA EffectOthers ==
    ASSUME TypeOK, IdInv, LockInv, ProgressInv, NEW k \in Tasks, TaskEffect(k), NEW j \in Tasks, j # k
    PROVE  ProgressOK(j)'
<1>1. /\ phase[k] # "idle" /\ Frame(k) /\ Writes(k) /\ (Ended(k) \/ Advanced(k))
  BY DEF TaskEffect
<1>2. phase'[j] = phase[j] /\ call'[j] = call[j] /\ todo'[j] = todo[j] /\ ProgressOK(j)
  BY <1>1 DEF Frame, ProgressInv
<1>3. NoOne \notin Tasks
  BY ConstantsAssumption
<1>4. \A t \in Tables : lock[t] = j <=> lock'[t] = j
  BY <1>1, <1>3 DEF Ended, Advanced
<1>5. CASE ~Active(j)
  <2>1. \A t \in Tables : lock'[t] # j
    BY <1>4, <1>5 DEF LockInv
  <2>2. todo'[j] \subseteq DOMAIN call'[j].base
    BY <1>2 DEF ProgressOK, TablesOf
  <2>3. QED
    BY <1>2, <1>5, <2>1, <2>2, IdleProgress DEF Active
<1>6. CASE Active(j)
  <2>1. meta \notin {k, NoOne}
    BY <1>3, <1>6 DEF LockInv
  <2>2. UNCHANGED <<diskVars, journalVars>>
    BY <1>1, <2>1 DEF Writes
  <2>3. TablesOf(j) \subseteq Tables
    BY <1>6, CallFacts DEF Active
  <2>4. QED
    BY <1>2, <1>4, <2>2, <2>3, SameProgress DEF TablesOf, diskVars, journalVars
<1>7. QED
  BY <1>5, <1>6

(* Acknowledged commits stay safe while the holder of CATALOG.lock goes on. *)
LEMMA AckAdvance ==
    ASSUME TypeOK, IdInv, AckInv, NEW k \in Tasks, phase[k] # "idle",
           meta = k \/ \A t \in TablesOf(k) : head[t] = Base(k, t),
           meta' = k, call'[k] = call[k], acked' = acked,
           \A t \in Tables : \A s \in Seqs :
              slotDisk'[t][s] = slotDisk[t][s] \/ (t \in TablesOf(k) /\ s = NewSeq(k, t)),
           \A t \in Tables : head'[t] \in headDisk'[t],
           \A t \in Tables : \A h \in headDisk'[t] :
              h \in headDisk[t] \/ (t \in TablesOf(k) /\ h = NewHead(k, t)),
           \A x \in Ids : entries'[x] = entries[x] \/ x = call[k].id
    PROVE  AckInv'
<1>1. acked \subseteq Ids /\ call[k].id \notin acked
  BY TypeParts DEF AuxTypes, IdInv, IdOK
<1>2. \A t \in TablesOf(k) : /\ NewHead(k, t).seq = NewSeq(k, t) /\ NewSeq(k, t) > Base(k, t).seq
                             /\ NewSeq(k, t) \in Seqs /\ Base(k, t).seq \in Seqs
  BY CallFacts
<1>3. ASSUME NEW x, NEW t \in Tables, KeptSafe(x, t)
      PROVE  \E s \in Seqs : /\ slotDisk'[t][s] = {x}
                             /\ k \in Tasks /\ t \in TablesOf(k) => s <= Base(k, t).seq
                             /\ \A h \in headDisk'[t] : s <= h.seq
  <2>1. PICK s \in Seqs : slotDisk[t][s] = {x} /\ Below(t, s) /\ \A h \in headDisk[t] : s <= h.seq
    BY <1>3 DEF KeptSafe
  <2>2. t \in TablesOf(k) => s <= Base(k, t).seq
    BY <2>1 DEF Below, AckInv
  <2>3. s \in Nat /\ \A n \in Seqs : n \in Nat
    BY ConstantsAssumption DEF Seqs
  <2>4. t \in TablesOf(k) => s # NewSeq(k, t) /\ s <= NewSeq(k, t)
    <3>1. SUFFICES ASSUME t \in TablesOf(k) PROVE s # NewSeq(k, t) /\ s <= NewSeq(k, t)
      OBVIOUS
    <3>2. /\ s <= Base(k, t).seq /\ NewSeq(k, t) > Base(k, t).seq
          /\ NewSeq(k, t) \in Nat /\ Base(k, t).seq \in Nat
      BY <1>2, <2>2, <2>3, <3>1
    <3>3. QED
      BY <2>3, <3>2
  <2>5. \A h \in headDisk'[t] : s <= h.seq
    BY <1>2, <2>1, <2>4
  <2>6. QED
    BY <2>1, <2>2, <2>4, <2>5
<1>4. ASSUME NEW x, NEW t \in Tables, KeptSafe(x, t) PROVE KeptSafe(x, t)'
  BY <1>3, <1>4 DEF KeptSafe, Below, TablesOf, Base
<1>5. \A t \in Tables : head'[t] \in headDisk'[t]
  OBVIOUS
<1>6. ASSUME NEW x \in acked'
      PROVE  /\ \E t \in Tables : KeptSafe(x, t)'
             /\ \A t \in DOMAIN entries'[x] : KeptSafe(x, t)'
  <2>1. entries'[x] = entries[x] /\ x \in Ids /\ x \in acked
    BY <1>1
  <2>2. DOMAIN entries[x] \subseteq Tables
    BY <2>1, TypeParts, BasesType DEF JournalTypes
  <2>3. QED
    BY <1>4, <2>1, <2>2 DEF AckInv
<1>7. QED
  BY <1>5, <1>6 DEF AckInv

(* A step that ends a call, or touches nothing of the files. *)
LEMMA AckSame ==
    ASSUME TypeOK, AckInv, acked' = acked, UNCHANGED <<head, headDisk, slotDisk, entries>>,
           meta' \in Tasks => meta' = meta /\ call'[meta] = call[meta]
    PROVE  AckInv'
<1>1. \A t \in Tables : \A s \in Seqs : Below(t, s) => (meta' \in Tasks /\ t \in DOMAIN call'[meta'].base => s <= call'[meta'].base[t].seq)
  BY DEF Below, TablesOf, Base
<1>2. ASSUME NEW x, NEW t \in Tables, KeptSafe(x, t) PROVE KeptSafe(x, t)'
  BY <1>1, <1>2 DEF KeptSafe, Below, TablesOf, Base
<1>3. acked \subseteq Ids
  BY TypeParts DEF AuxTypes
<1>4. ASSUME NEW x \in acked PROVE DOMAIN entries[x] \subseteq Tables
  BY <1>3, TypeParts, BasesType DEF JournalTypes
<1>5. QED
  BY <1>2, <1>4 DEF AckInv

(* One process at a time. *)
LEMMA EffectAlone ==
    ASSUME TypeOK, IdInv, LockInv, AloneInv, NEW k \in Tasks, TaskEffect(k),
           setting.alone /\ phase'[k] \in {"put", "sync", "journal", "jsync", "lock"} =>
              \A t \in TablesOf(k) : head'[t] = Base(k, t),
           setting.alone /\ call[k].id \in refused' => Unwritten(call[k].id) /\ UNCHANGED <<slot, slotDisk>>
    PROVE  AloneInv'
<1>1. /\ phase[k] # "idle" /\ Frame(k) /\ Writes(k) /\ (Ended(k) \/ Advanced(k))
  BY DEF TaskEffect
<1>2. UNCHANGED <<setting, db>>
  BY <1>1 DEF Frame
<1>3. NoOne \notin Tasks
  BY ConstantsAssumption
<1>4. SUFFICES ASSUME setting.alone
               PROVE  /\ \A p, q \in Procs : db'[p] # "closed" /\ db'[q] # "closed" => p = q
                      /\ \A j \in Tasks : phase'[j] \in {"put", "sync", "journal", "jsync", "lock"} =>
                            \A t \in DOMAIN call'[j].base : head'[t] = call'[j].base[t]
                      /\ \A x \in refused' : \A t \in Tables : \A s \in Seqs :
                            x \notin slotDisk'[t][s] /\ slot'[t][s] # x
  BY <1>2 DEF AloneInv, TablesOf, Base, Unwritten
<1>5. \A p, q \in Procs : db'[p] # "closed" /\ db'[q] # "closed" => p = q
  BY <1>2, <1>4 DEF AloneInv
<1>6. ASSUME NEW j \in Tasks, phase'[j] \in {"put", "sync", "journal", "jsync", "lock"}
      PROVE  \A t \in DOMAIN call'[j].base : head'[t] = call'[j].base[t]
  <2>1. CASE j = k
    BY <1>1, <1>4, <1>6, <2>1 DEF Ended, Advanced, TablesOf, Base
  <2>2. CASE j # k
    <3>1. phase'[j] = phase[j] /\ call'[j] = call[j]
      BY <1>1, <2>2 DEF Frame
    <3>2. Active(j)
      BY <1>6, <3>1 DEF Active
    <3>3. meta \notin {k, NoOne}
      BY <1>3, <2>2, <3>2 DEF LockInv
    <3>4. head' = head
      BY <1>1, <3>3 DEF Writes, diskVars
    <3>5. QED
      BY <1>4, <1>6, <3>1, <3>4 DEF AloneInv, TablesOf, Base
  <2>3. QED
    BY <2>1, <2>2
<1>7. ASSUME NEW x \in refused', NEW t \in Tables, NEW s \in Seqs
      PROVE  x \notin slotDisk'[t][s] /\ slot'[t][s] # x
  <2>1. CASE x = call[k].id
    BY <1>4, <2>1 DEF Unwritten
  <2>2. CASE x # call[k].id
    <3>2. x \in refused
      BY <1>1, <2>2 DEF Ended, Advanced
    <3>3. QED
      BY <1>1, <1>4, <2>2, <3>2 DEF AloneInv, Unwritten, Writes
  <2>3. QED
    BY <2>1, <2>2
<1>8. QED
  BY <1>5, <1>6, <1>7

(* What remains to be shown of a call's step. *)
LEMMA TaskKeeps ==
    ASSUME IInv, NEW k \in Tasks, TaskEffect(k), TypeOK', ProgressOK(k)', AckInv', AloneInv',
           call[k].id \in Ids => entries'[call[k].id] = entries[call[k].id] \/ ~Seen(call[k].id)
    PROVE  IInv'
<1>1. IdInv' /\ LockInv' /\ RecoverInv'
  BY EffectId, EffectLock, EffectRecover DEF IInv
<1>2. \A j \in Tasks : j # k => ProgressOK(j)'
  BY EffectOthers DEF IInv
<1>3. ProgressInv'
  BY <1>2 DEF ProgressInv
<1>4. QED
  BY <1>1, <1>3 DEF IInv

(* A call that has ended holds nothing. *)
LEMMA EndedProgress == ASSUME NEW k \in Tasks, Ended(k) PROVE ProgressOK(k)'
<1>1. \A t \in Tables : lock'[t] # k
  BY ConstantsAssumption DEF Ended
<1>2. QED
  BY <1>1, IdleProgress DEF Ended

(* A call that gives up. *)
LEMMA QuietKeeps ==
    ASSUME IInv, TypeOK', NEW k \in Tasks, phase[k] # "idle", Return(k), lastId' = lastId,
           acked' = acked, refused' \subseteq refused \cup {call[k].id},
           UNCHANGED <<setting, procVars, diskVars, journalVars>>,
           setting.alone /\ call[k].id \in refused' => Unwritten(call[k].id)
    PROVE  IInv'
<1>1. TaskEffect(k) /\ Ended(k)
  BY QuietEffect DEF IInv
<1>2. ProgressOK(k)'
  BY <1>1, EndedProgress
<1>3. AckInv'
  <2>1. \A j \in Tasks : j # k => call'[j] = call[j]
    BY <1>1 DEF TaskEffect, Frame
  <2>2. meta' \in Tasks => meta' = meta /\ meta # k
    BY <1>1, ConstantsAssumption DEF Ended
  <2>3. QED
    BY <2>1, <2>2, AckSame DEF IInv, diskVars, journalVars
<1>4. AloneInv'
  BY <1>1, EffectAlone DEF IInv, Ended, diskVars
<1>5. QED
  BY <1>1, <1>2, <1>3, <1>4, TaskKeeps DEF journalVars

(* A transaction is refused before it wrote anything that counts. *)
LEMMA RefuseKeeps ==
    ASSUME IInv, TypeOK', NEW k \in Tasks, phase[k] # "idle", Refuse(k),
           UNCHANGED <<setting, procVars, diskVars, journalVars>>,
           setting.alone => Unwritten(call[k].id)
    PROVE  IInv'
<1>1. Return(k) /\ refused' = refused \cup {call[k].id} /\ UNCHANGED <<lastId, acked>>
  BY DEF Refuse
<1>2. QED
  BY <1>1, QuietKeeps

(* A lock is not had in time. *)
LEMMA TimeoutKeeps == ASSUME IInv, TypeOK', NEW k \in Tasks, Timeout(k) PROVE IInv'
<1>1. /\ phase[k] = "staged" /\ Refuse(k) /\ UNCHANGED <<setting, diskVars, journalVars, procVars>>
  BY DEF Timeout
<1>2. Unwritten(call[k].id)
  BY <1>1 DEF IInv, IdInv, IdOK
<1>3. QED
  BY <1>1, <1>2, RefuseKeeps

(* A write fails: the call ends without an answer. *)
LEMMA IoErrorKeeps == ASSUME IInv, TypeOK', NEW k \in Tasks, IoError(k) PROVE IInv'
<1>1. /\ phase[k] # "idle" /\ Return(k)
      /\ UNCHANGED <<setting, diskVars, journalVars, procVars, lastId, acked, refused>>
  BY DEF IoError
<1>2. call[k].id \notin refused
  BY <1>1 DEF IInv, IdInv, IdOK
<1>3. QED
  BY <1>1, <1>2, QuietKeeps

(* An ordinary commit. *)
LEMMA EnterKeeps == ASSUME IInv, TypeOK', NEW k \in Tasks, Enter(k) PROVE IInv'
<1>1. /\ phase[k] = "staged" /\ ~IsTxn(k) /\ meta = NoOne /\ UNCHANGED <<setting, journalVars, procVars>>
  BY DEF Enter
<1>2. /\ TypeOK /\ IdInv /\ LockInv /\ AckInv /\ AloneInv
  BY DEF IInv
<1>3. CASE Refuse(k) /\ UNCHANGED diskVars
  <2>1. Unwritten(call[k].id)
    BY <1>1, <1>2 DEF IdInv, IdOK
  <2>2. QED
    BY <1>1, <1>3, <2>1, RefuseKeeps
<1>4. CASE \E t \in TablesOf(k) : /\ lock[t] = NoOne /\ head[t] = Base(k, t) /\ meta' = k
                                  /\ lock' = [lock EXCEPT ![t] = k] /\ PutSlot(k, t)
                                  /\ Goto(k, "publish", {}) /\ UNCHANGED <<head, headDisk, auxVars>>
  <2>1. PICK t \in TablesOf(k) : /\ lock[t] = NoOne /\ head[t] = Base(k, t) /\ meta' = k
                                 /\ lock' = [lock EXCEPT ![t] = k] /\ PutSlot(k, t)
                                 /\ Goto(k, "publish", {}) /\ UNCHANGED <<head, headDisk, auxVars>>
    BY <1>4
  <2>2. /\ TablesOf(k) = {t} /\ t \in Tables /\ NewHead(k, t).seq = NewSeq(k, t) /\ NewSeq(k, t) \in Seqs
    <3>1. TablesOf(k) \subseteq Tables /\ NewHead(k, t).seq = NewSeq(k, t) /\ NewSeq(k, t) \in Seqs
      BY <1>1, <1>2, CallFacts
    <3>2. QED
      BY <1>1, <3>1, OneTable
  <2>3. /\ Writes(k)
        /\ \A u \in Tables : \A s \in Seqs : u # t \/ s # NewSeq(k, t) => slotDisk'[u][s] = slotDisk[u][s]
    BY <1>1, <1>2, <2>1, <2>2, PutSlotWrites
  <2>4. lock'[t] = k /\ \A u \in Tables : u # t => lock'[u] = lock[u]
    BY <1>2, <2>1, <2>2, TypeParts DEF LockTypes
  <2>5. /\ TaskEffect(k) /\ Advanced(k) /\ phase'[k] = "publish" /\ todo'[k] = {} /\ call' = call
    <3>1. "publish" \in Phases \ {"idle", "staged"} /\ "staged" \notin Journaled
      BY DEF Phases, Journaled
    <3>2. \A u \in Tables : lock'[u] = lock[u] \/ (lock[u] = NoOne /\ lock'[u] = k)
      BY <2>1, <2>4
    <3>3. QED
      BY <1>1, <1>2, <2>1, <2>3, <3>1, <3>2, AdvanceEffect
  <2>6. ProgressOK(k)'
    <3>1. \A u \in Tables : lock[u] # k
      BY <1>1, <1>2, ConstantsAssumption DEF LockInv
    <3>2. DOMAIN call'[k].base = {t} /\ t \in Tables
      BY <2>2, <2>5 DEF TablesOf
    <3>3. QED
      BY <2>4, <2>5, <3>2 DEF ProgressOK, TablesOf, Journaled
  <2>7. AckInv'
    <3>1. \A u \in Tables : \A s \in Seqs :
              slotDisk'[u][s] = slotDisk[u][s] \/ (u \in TablesOf(k) /\ s = NewSeq(k, u))
      BY <2>2, <2>3
    <3>2. \A u \in TablesOf(k) : head[u] = Base(k, u)
      BY <2>1, <2>2
    <3>3. entries' = entries /\ head' = head /\ headDisk' = headDisk /\ acked' = acked
      BY <1>1, <2>1 DEF journalVars, auxVars
    <3>4. \A u \in Tables : head'[u] \in headDisk'[u]
      BY <1>2, <3>3 DEF AckInv
    <3>5. QED
      BY <1>1, <1>2, <2>1, <2>5, <3>1, <3>2, <3>3, <3>4, AckAdvance
  <2>8. AloneInv'
    <3>1. call[k].id \notin refused'
      BY <1>1, <1>2, <2>1 DEF IdInv, IdOK, auxVars
    <3>2. QED
      BY <1>2, <2>5, <3>1, EffectAlone
  <2>9. QED
    BY <1>1, <2>5, <2>6, <2>7, <2>8, TaskKeeps DEF journalVars
<1>5. QED
  BY <1>3, <1>4 DEF Enter

(* The parts of the invariant at a call that holds CATALOG.lock. *)
LEMMA ActiveFacts ==
    ASSUME IInv, NEW k \in Tasks, Active(k)
    PROVE  /\ TypeOK /\ IdInv /\ LockInv /\ AckInv /\ AloneInv /\ ProgressOK(k)
           /\ meta = k /\ phase[k] # "idle" /\ call[k].id \in Ids /\ call[k].id \notin acked \cup refused
           /\ TablesOf(k) # {} /\ TablesOf(k) \subseteq Tables
           /\ \A t \in TablesOf(k) :
                 /\ NewHead(k, t) \in Heads /\ NewHead(k, t).seq = NewSeq(k, t) /\ NewSeq(k, t) \in Seqs
<1>1. TypeOK /\ IdInv /\ LockInv /\ AckInv /\ AloneInv /\ ProgressInv
  BY DEF IInv
<1>2. phase[k] # "idle" /\ meta = k
  BY <1>1, Holder DEF Active
<1>3. call[k].id \notin acked \cup refused
  BY <1>1, <1>2 DEF IdInv, IdOK
<1>4. QED
  BY <1>1, <1>2, <1>3, CallFacts DEF ProgressInv

(* The HEAD of a table is renamed, or its directory fsynced. *)
LEMMA RenameEffect ==
    ASSUME TypeOK, NEW t \in Tables, NEW h, Rename(t, h)
    PROVE  /\ head'[t] = h /\ headDisk'[t] = headDisk[t] \cup {h}
           /\ \A u \in Tables : u # t => head'[u] = head[u] /\ headDisk'[u] = headDisk[u]
BY TypeParts DEF Rename, DiskTypes

(* Files untouched but for the HEADs. *)
LEMMA HeadWrites ==
    ASSUME NEW k, UNCHANGED <<slot, slotDisk, journalVars>>, meta = k PROVE Writes(k)
BY DEF Writes, journalVars

(* The HEAD of a one-table transaction is renamed and not synced yet. *)
LEMMA PublishKeeps == ASSUME IInv, TypeOK', NEW k \in Tasks, Publish(k) PROVE IInv'
<1>1. /\ phase[k] = "publish" /\ Goto(k, "harden", {})
      /\ UNCHANGED <<setting, slot, journalVars, lockVars, procVars, auxVars>>
  BY DEF Publish
<1>2. Active(k)
  BY <1>1 DEF Active
<1>3. /\ TypeOK /\ IdInv /\ LockInv /\ AckInv /\ AloneInv /\ ProgressOK(k)
      /\ meta = k /\ phase[k] # "idle" /\ call[k].id \notin acked \cup refused
  BY <1>2, ActiveFacts
<1>4. PICK t \in Tables : TablesOf(k) = {t} /\ lock[t] = k
  BY <1>1, <1>3 DEF ProgressOK
<1>5. NewHead(k, t).seq = NewSeq(k, t) /\ NewSeq(k, t) \in Seqs
  BY <1>2, <1>4, ActiveFacts
<1>6. /\ slotDisk' = [slotDisk EXCEPT ![t][NewSeq(k, t)] = {call[k].id}] /\ Rename(t, NewHead(k, t))
  BY <1>4, <1>5 DEF Publish
<1>7. slotDisk \in [Tables -> [Seqs -> SUBSET Contents]]
  BY <1>3, TypeParts DEF DiskTypes
<1>8. /\ slotDisk'[t][NewSeq(k, t)] = {call[k].id}
      /\ \A u \in Tables : \A s \in Seqs : u # t \/ s # NewSeq(k, t) => slotDisk'[u][s] = slotDisk[u][s]
  BY <1>5, <1>6, <1>7
<1>9. Writes(k)
  BY <1>1, <1>3, <1>8 DEF Writes, journalVars
<1>10. TaskEffect(k) /\ Advanced(k) /\ phase'[k] = "harden" /\ todo'[k] = {} /\ call' = call
  <2>1. "harden" \in Phases \ {"idle", "staged"} /\ "publish" \notin Journaled
    BY DEF Phases, Journaled
  <2>2. QED
    BY <1>1, <1>3, <1>9, <2>1, AdvanceEffect DEF lockVars
<1>11. /\ head'[t] = NewHead(k, t) /\ headDisk'[t] = headDisk[t] \cup {NewHead(k, t)}
       /\ \A u \in Tables : u # t => head'[u] = head[u] /\ headDisk'[u] = headDisk[u]
  BY <1>3, <1>6, RenameEffect
<1>12. ProgressOK(k)'
  <2>1. lock' = lock
    BY <1>1 DEF lockVars
  <2>2. QED
    BY <1>4, <1>8, <1>10, <1>11, <2>1
    DEF ProgressOK, TablesOf, Journaled, DurableOK, SwappedOK, NewSeq, NewHead, Base
<1>13. AckInv'
  <2>1. entries' = entries /\ acked' = acked /\ meta' = k
    BY <1>1, <1>3 DEF journalVars, auxVars, lockVars
  <2>2. \A u \in Tables : head'[u] \in headDisk'[u]
    BY <1>3, <1>11 DEF AckInv
  <2>3. \A u \in Tables : \A s \in Seqs :
              slotDisk'[u][s] = slotDisk[u][s] \/ (u \in TablesOf(k) /\ s = NewSeq(k, u))
    BY <1>4, <1>8
  <2>4. \A u \in Tables : \A h \in headDisk'[u] :
              h \in headDisk[u] \/ (u \in TablesOf(k) /\ h = NewHead(k, u))
    BY <1>4, <1>11
  <2>5. QED
    BY <1>3, <1>10, <2>1, <2>2, <2>3, <2>4, AckAdvance
<1>14. AloneInv'
  BY <1>1, <1>3, <1>10, EffectAlone DEF auxVars
<1>15. QED
  BY <1>1, <1>10, <1>12, <1>13, <1>14, TaskKeeps DEF journalVars

(* The answer of a commit whose manifests and HEADs are on disk. *)
LEMMA AckAnswer ==
    ASSUME TypeOK, IdInv, AckInv, NEW k \in Tasks, phase[k] # "idle", meta = k, meta' = NoOne,
           acked' = acked \cup {call[k].id}, UNCHANGED <<head, slotDisk, entries>>,
           \A t \in TablesOf(k) : DurableOK(k, t) /\ head[t] = NewHead(k, t) /\ headDisk'[t] = {head[t]},
           \A t \in Tables : headDisk'[t] = headDisk[t] \/ headDisk'[t] = {head[t]},
           DOMAIN entries[call[k].id] \subseteq TablesOf(k)
    PROVE  AckInv'
<1>1. /\ TablesOf(k) # {} /\ TablesOf(k) \subseteq Tables
      /\ \A t \in TablesOf(k) : NewHead(k, t).seq = NewSeq(k, t) /\ NewSeq(k, t) \in Seqs
  BY CallFacts
<1>2. NoOne \notin Tasks /\ \A n \in Seqs : n \in Nat
  BY ConstantsAssumption DEF Seqs
<1>3. \A t \in Tables : head'[t] \in headDisk'[t] /\ \A h \in headDisk'[t] : h \in headDisk[t]
  BY DEF AckInv
<1>4. ASSUME NEW x, NEW t \in Tables, NEW s \in Seqs, slotDisk'[t][s] = {x}, \A h \in headDisk'[t] : s <= h.seq
      PROVE  KeptSafe(x, t)'
  BY <1>2, <1>4 DEF KeptSafe, Below
<1>5. ASSUME NEW x, NEW t \in Tables, KeptSafe(x, t) PROVE KeptSafe(x, t)'
  <2>1. PICK s \in Seqs : slotDisk[t][s] = {x} /\ \A h \in headDisk[t] : s <= h.seq
    BY <1>5 DEF KeptSafe
  <2>2. QED
    BY <1>3, <1>4, <2>1
<1>6. ASSUME NEW t \in TablesOf(k), NEW x, x = call[k].id PROVE KeptSafe(x, t)'
  <2>1. slotDisk'[t][NewSeq(k, t)] = {x} /\ headDisk'[t] = {head[t]} /\ head[t].seq = NewSeq(k, t)
    BY <1>1, <1>6 DEF DurableOK
  <2>2. NewSeq(k, t) <= NewSeq(k, t)
    BY <1>1, <1>2
  <2>3. QED
    BY <1>1, <1>4, <2>1, <2>2
<1>7. ASSUME NEW x \in acked'
      PROVE  (\E t \in Tables : KeptSafe(x, t)') /\ \A t \in DOMAIN entries'[x] : KeptSafe(x, t)'
  <2>1. CASE x = call[k].id
    BY <1>1, <1>6, <2>1
  <2>2. CASE x # call[k].id
    <3>1. x \in acked /\ x \in Ids
      BY <2>2, TypeParts DEF AuxTypes
    <3>2. DOMAIN entries[x] \subseteq Tables
      BY <3>1, TypeParts, BasesType DEF JournalTypes
    <3>3. QED
      BY <1>5, <3>1, <3>2 DEF AckInv
  <2>3. QED
    BY <2>1, <2>2
<1>8. QED
  BY <1>3, <1>7 DEF AckInv

(* The directories are synced and the transaction is acknowledged. *)
LEMMA HardenKeeps == ASSUME IInv, TypeOK', NEW k \in Tasks, Harden(k) PROVE IInv'
<1>1. /\ phase[k] = "harden" /\ SyncDirs(TablesOf(k)) /\ acked' = acked \cup {call[k].id} /\ Return(k)
      /\ UNCHANGED <<setting, head, slot, slotDisk, journalVars, procVars, lastId, refused>>
  BY DEF Harden
<1>2. Active(k)
  BY <1>1 DEF Active
<1>3. /\ TypeOK /\ IdInv /\ LockInv /\ AckInv /\ AloneInv /\ ProgressOK(k) /\ TaskTypes
      /\ meta = k /\ phase[k] # "idle" /\ call[k].id \notin acked \cup refused
      /\ TablesOf(k) \subseteq Tables
  BY <1>2, ActiveFacts, TypeParts
<1>4. TaskEffect(k) /\ Ended(k)
  <2>1. Frame(k) /\ Ended(k)
    BY <1>1, <1>3, ReturnFrame
  <2>2. QED
    BY <1>1, <1>3, <2>1, HeadWrites DEF TaskEffect
<1>5. AckInv'
  <2>1. meta' = NoOne /\ entries' = entries
    BY <1>1, <1>3, <1>4 DEF Ended, journalVars
  <2>2. \A t \in TablesOf(k) : DurableOK(k, t) /\ head[t] = NewHead(k, t)
    BY <1>1, <1>3 DEF ProgressOK, SwappedOK
  <2>3. \A t \in Tables : headDisk'[t] = (IF t \in TablesOf(k) THEN {head[t]} ELSE headDisk[t])
    BY <1>1 DEF SyncDirs
  <2>4. DOMAIN entries[call[k].id] = {}
    <3>1. "harden" \notin Journaled \cup {"idle"}
      BY DEF Journaled
    <3>2. QED
      BY <1>1, <1>3, <3>1 DEF IdInv, IdOK
  <2>5. QED
    BY <1>1, <1>3, <2>1, <2>2, <2>3, <2>4, AckAnswer
<1>6. AloneInv'
  BY <1>1, <1>3, <1>4, EffectAlone DEF Ended
<1>7. QED
  BY <1>1, <1>4, <1>5, <1>6, EndedProgress, TaskKeeps DEF journalVars

(* A transaction: validate, put, fsync ... *)
LEMMA ValidateKeeps == ASSUME IInv, TypeOK', NEW k \in Tasks, Validate(k) PROVE IInv'
<1>1. /\ phase[k] = "staged" /\ meta = NoOne /\ UNCHANGED <<setting, diskVars, journalVars, procVars>>
  BY DEF Validate
<1>2. /\ TypeOK /\ IdInv /\ LockInv /\ AckInv /\ AloneInv
  BY DEF IInv
<1>3. CASE Refuse(k)
  <2>1. Unwritten(call[k].id)
    BY <1>1, <1>2 DEF IdInv, IdOK
  <2>2. QED
    BY <1>1, <1>3, <2>1, RefuseKeeps
<1>4. CASE /\ \A t \in TablesOf(k) : head[t] = Base(k, t)
           /\ meta' = k /\ Goto(k, "put", TablesOf(k)) /\ UNCHANGED <<lock, auxVars>>
  <2>1. TaskEffect(k) /\ Advanced(k) /\ phase'[k] = "put" /\ todo'[k] = TablesOf(k) /\ call' = call
    <3>1. "put" \in Phases \ {"idle", "staged"} /\ "staged" \notin Journaled
      BY DEF Phases, Journaled
    <3>2. QED
      BY <1>1, <1>2, <1>4, <3>1, AdvanceEffect, WritesNothing
  <2>2. ProgressOK(k)'
    <3>1. \A u \in Tables : lock'[u] # k
      BY <1>1, <1>2, <1>4, ConstantsAssumption DEF LockInv
    <3>2. QED
      BY <2>1, <3>1 DEF ProgressOK, TablesOf, Journaled
  <2>3. AckInv'
    <3>1. UNCHANGED <<head, headDisk, slotDisk, entries, acked>>
      BY <1>1, <1>4 DEF diskVars, journalVars, auxVars
    <3>2. \A u \in Tables : head'[u] \in headDisk'[u]
      BY <1>2, <3>1 DEF AckInv
    <3>3. QED
      BY <1>1, <1>2, <1>4, <2>1, <3>1, <3>2, AckAdvance
  <2>4. AloneInv'
    <3>1. call[k].id \notin refused'
      BY <1>1, <1>2, <1>4 DEF IdInv, IdOK, auxVars
    <3>2. \A t \in TablesOf(k) : head'[t] = Base(k, t)
      BY <1>1, <1>4 DEF diskVars
    <3>3. QED
      BY <1>2, <2>1, <3>1, <3>2, EffectAlone
  <2>5. QED
    BY <1>1, <2>1, <2>2, <2>3, <2>4, TaskKeeps DEF journalVars
<1>5. QED
  BY <1>3, <1>4 DEF Validate

(* The manifest of one more table is written. *)
LEMMA PutManifestsKeeps == ASSUME IInv, TypeOK', NEW k \in Tasks, PutManifests(k) PROVE IInv'
<1>1. /\ phase[k] = "put"
      /\ UNCHANGED <<setting, head, headDisk, journalVars, lockVars, procVars, auxVars>>
  BY DEF PutManifests
<1>2. PICK t \in todo[k] :
        /\ PutSlot(k, t)
        /\ IF todo[k] = {t} THEN Goto(k, "sync", {}) ELSE Goto(k, "put", todo[k] \ {t})
  BY DEF PutManifests
<1>3. /\ TypeOK /\ IdInv /\ LockInv /\ AckInv /\ AloneInv /\ ProgressOK(k)
      /\ meta = k /\ phase[k] # "idle" /\ call[k].id \notin acked \cup refused
      /\ TablesOf(k) \subseteq Tables
  BY <1>1, ActiveFacts DEF Active
<1>4. t \in TablesOf(k) /\ t \in Tables /\ NewHead(k, t).seq = NewSeq(k, t) /\ NewSeq(k, t) \in Seqs
      /\ todo[k] \subseteq TablesOf(k)
  <2>1. t \in TablesOf(k) /\ todo[k] \subseteq TablesOf(k)
    BY <1>3 DEF ProgressOK
  <2>2. QED
    BY <1>1, <1>3, <2>1, ActiveFacts DEF Active
<1>5. /\ Writes(k) /\ slot'[t][NewSeq(k, t)] = call[k].id
      /\ \A u \in Tables : \A s \in Seqs : u # t \/ s # NewSeq(k, t) =>
            slot'[u][s] = slot[u][s] /\ slotDisk'[u][s] = slotDisk[u][s]
  BY <1>1, <1>2, <1>3, <1>4, PutSlotWrites
<1>6. lock' = lock /\ meta' = k /\ acked' = acked /\ refused' = refused /\ entries' = entries
  BY <1>1, <1>3 DEF lockVars, auxVars, journalVars
<1>7. PICK ph \in {"put", "sync"} : Goto(k, ph, todo[k] \ {t}) /\ (ph = "sync" => todo[k] = {t})
  <2>1. todo[k] = {t} => todo[k] \ {t} = {}
    OBVIOUS
  <2>2. QED
    BY <1>2, <2>1
<1>8. TaskEffect(k) /\ phase'[k] = ph /\ todo'[k] = todo[k] \ {t} /\ call' = call
  <2>1. ph \in Phases \ {"idle", "staged"} /\ "put" \notin Journaled
    BY DEF Phases, Journaled
  <2>2. QED
    BY <1>1, <1>3, <1>5, <1>6, <1>7, <2>1, AdvanceEffect
<1>9. ProgressOK(k)'
  <2>1. \A u \in TablesOf(k) : u \notin todo'[k] => slot'[u][NewSeq(k, u)] = call[k].id
    <3> SUFFICES ASSUME NEW u \in TablesOf(k), u \notin todo'[k]
                 PROVE  slot'[u][NewSeq(k, u)] = call[k].id
      OBVIOUS
    <3>1. CASE u = t
      BY <1>5, <3>1
    <3>2. CASE u # t
      <4>1. slot[u][NewSeq(k, u)] = call[k].id /\ u \in Tables /\ NewSeq(k, u) \in Seqs
        BY <1>1, <1>3, <1>8, <3>2, ActiveFacts DEF ProgressOK, PutOK, Active
      <4>2. QED
        BY <1>5, <3>2, <4>1
    <3>3. QED
      BY <3>1, <3>2
  <2>2. \A u \in Tables : lock'[u] # k
    BY <1>1, <1>3, <1>6 DEF ProgressOK
  <2>3. phase'[k] = "sync" => todo'[k] = {}
    BY <1>7, <1>8
  <2>4. todo'[k] \subseteq DOMAIN call'[k].base
    BY <1>4, <1>8 DEF TablesOf
  <2>5. phase'[k] \in {"put", "sync"}
    BY <1>8
  <2>6. QED
    BY <1>8, <2>1, <2>2, <2>3, <2>4, <2>5 DEF ProgressOK, TablesOf, Journaled, PutOK, NewSeq, Base
<1>10. AckInv'
  <2>1. \A u \in Tables : head'[u] \in headDisk'[u] /\ headDisk'[u] = headDisk[u]
    BY <1>1, <1>3 DEF AckInv
  <2>2. \A u \in Tables : \A s \in Seqs :
              slotDisk'[u][s] = slotDisk[u][s] \/ (u \in TablesOf(k) /\ s = NewSeq(k, u))
    BY <1>4, <1>5
  <2>3. QED
    BY <1>3, <1>6, <1>8, <2>1, <2>2, AckAdvance
<1>11. AloneInv'
  <2>1. setting.alone => \A u \in TablesOf(k) : head'[u] = Base(k, u)
    BY <1>1, <1>3 DEF AloneInv
  <2>2. QED
    BY <1>3, <1>6, <1>8, <2>1, EffectAlone
<1>12. QED
  BY <1>6, <1>8, <1>9, <1>10, <1>11, TaskKeeps

(* All manifests are synced. *)
LEMMA SyncManifestsKeeps == ASSUME IInv, TypeOK', NEW k \in Tasks, SyncManifests(k) PROVE IInv'
<1>1. /\ phase[k] = "sync" /\ Goto(k, "journal", {})
      /\ UNCHANGED <<setting, head, headDisk, slot, journalVars, lockVars, procVars, auxVars>>
      /\ slotDisk' = [t \in Tables |->
                        IF t \in TablesOf(k)
                        THEN [slotDisk[t] EXCEPT ![NewHead(k, t).seq] = {slot[t][NewHead(k, t).seq]}]
                        ELSE slotDisk[t]]
  BY DEF SyncManifests
<1>2. Active(k)
  BY <1>1 DEF Active
<1>3. /\ TypeOK /\ IdInv /\ LockInv /\ AckInv /\ AloneInv /\ ProgressOK(k)
      /\ meta = k /\ phase[k] # "idle" /\ call[k].id \notin acked \cup refused
      /\ TablesOf(k) \subseteq Tables
      /\ \A t \in TablesOf(k) : NewHead(k, t).seq = NewSeq(k, t) /\ NewSeq(k, t) \in Seqs
  BY <1>2, ActiveFacts
<1>4. \A t \in TablesOf(k) : slot[t][NewSeq(k, t)] = call[k].id
  BY <1>1, <1>3 DEF ProgressOK, PutOK
<1>5. slotDisk \in [Tables -> [Seqs -> SUBSET Contents]]
  BY <1>3, TypeParts DEF DiskTypes
<1>6. ASSUME NEW t \in TablesOf(k)
      PROVE  /\ slotDisk'[t][NewSeq(k, t)] = {call[k].id}
             /\ \A s \in Seqs : s # NewSeq(k, t) => slotDisk'[t][s] = slotDisk[t][s]
  <2>1. slotDisk'[t] = [slotDisk[t] EXCEPT ![NewSeq(k, t)] = {call[k].id}]
    BY <1>1, <1>3, <1>4
  <2>2. slotDisk[t] \in [Seqs -> SUBSET Contents] /\ NewSeq(k, t) \in Seqs
    BY <1>3, <1>5
  <2>3. QED
    BY <2>1, <2>2
<1>7. \A t \in Tables : t \notin TablesOf(k) => slotDisk'[t] = slotDisk[t]
  BY <1>1
<1>8. lock' = lock /\ meta' = k /\ acked' = acked /\ refused' = refused /\ entries' = entries
  BY <1>1, <1>3 DEF lockVars, auxVars, journalVars
<1>9. Writes(k)
  <2>1. ASSUME NEW t \in Tables, NEW s \in Seqs, NEW x, x \in slotDisk'[t][s]
        PROVE  x = call[k].id \/ x \in slotDisk[t][s]
    <3>1. CASE t \in TablesOf(k) /\ s = NewSeq(k, t)
      BY <1>6, <2>1, <3>1
    <3>2. CASE ~(t \in TablesOf(k) /\ s = NewSeq(k, t))
      BY <1>6, <1>7, <2>1, <3>2
    <3>3. QED
      BY <3>1, <3>2
  <2>2. QED
    BY <1>1, <1>3, <2>1 DEF Writes, journalVars
<1>10. TaskEffect(k) /\ phase'[k] = "journal" /\ todo'[k] = {} /\ call' = call
  <2>1. "journal" \in Phases \ {"idle", "staged"} /\ "sync" \notin Journaled
    BY DEF Phases, Journaled
  <2>2. QED
    BY <1>1, <1>3, <1>8, <1>9, <2>1, AdvanceEffect
<1>11. ProgressOK(k)'
  <2>1. \A u \in Tables : lock'[u] # k
    BY <1>1, <1>3, <1>8 DEF ProgressOK
  <2>2. \A u \in TablesOf(k) : slotDisk'[u][NewSeq(k, u)] = {call[k].id}
    BY <1>6
  <2>3. QED
    BY <1>10, <2>1, <2>2 DEF ProgressOK, TablesOf, Journaled, DurableOK, NewSeq, Base
<1>12. AckInv'
  <2>1. \A u \in Tables : head'[u] \in headDisk'[u] /\ headDisk'[u] = headDisk[u]
    BY <1>1, <1>3 DEF AckInv
  <2>2. \A u \in Tables : \A s \in Seqs :
              slotDisk'[u][s] = slotDisk[u][s] \/ (u \in TablesOf(k) /\ s = NewSeq(k, u))
    BY <1>6, <1>7
  <2>3. QED
    BY <1>3, <1>8, <1>10, <2>1, <2>2, AckAdvance
<1>13. AloneInv'
  <2>1. setting.alone => \A u \in TablesOf(k) : head'[u] = Base(k, u)
    BY <1>1, <1>3 DEF AloneInv
  <2>2. QED
    BY <1>3, <1>8, <1>10, <2>1, EffectAlone
<1>14. QED
  BY <1>8, <1>10, <1>11, <1>12, <1>13, TaskKeeps

(* ... put and fsync the journal, whose number nobody has listed ... *)
LEMMA PutJournalKeeps == ASSUME IInv, TypeOK', NEW k \in Tasks, PutJournal(k) PROVE IInv'
<1> DEFINE i == call[k].id
<1>1. /\ phase[k] = "journal" /\ Goto(k, "jsync", {})
      /\ UNCHANGED <<setting, diskVars, lockVars, procVars, auxVars>>
      /\ journal' = [journal EXCEPT ![i] = "whole"]
      /\ journalDisk' = [journalDisk EXCEPT ![i] = JournalStates]
      /\ entries' = [entries EXCEPT ![i] = [t \in TablesOf(k) |-> NewHead(k, t)]]
  BY DEF PutJournal
<1>2. /\ TypeOK /\ IdInv /\ LockInv /\ AckInv /\ AloneInv /\ ProgressOK(k)
      /\ meta = k /\ phase[k] # "idle" /\ i \notin acked \cup refused /\ i \in Ids
      /\ TablesOf(k) \subseteq Tables
  BY <1>1, ActiveFacts DEF Active
<1>3. JournalTypes
  BY <1>2, TypeParts
<1>4. lock' = lock /\ meta' = k /\ acked' = acked /\ refused' = refused
      /\ UNCHANGED <<head, headDisk, slot, slotDisk>>
  BY <1>1, <1>2 DEF lockVars, auxVars, diskVars
<1>5. ~Seen(i) /\ "jsync" \in Journaled /\ "journal" \notin Journaled \cup {"idle"}
  <2>1. "jsync" \in Journaled /\ "journal" \notin Journaled \cup {"idle"}
    BY DEF Journaled
  <2>2. QED
    BY <1>1, <1>2, <2>1 DEF IdInv, IdOK
<1>6. /\ DOMAIN entries'[i] = TablesOf(k)
      /\ \A x \in Ids : x # i =>
            journal'[x] = journal[x] /\ journalDisk'[x] = journalDisk[x] /\ entries'[x] = entries[x]
  BY <1>1, <1>2, <1>3 DEF JournalTypes
<1>7. phase'[k] = "jsync"
  BY <1>1, <1>2, TypeParts DEF Goto, TaskTypes
<1>8. Writes(k)
  BY <1>2, <1>4, <1>5, <1>6, <1>7 DEF Writes, diskVars
<1>9. TaskEffect(k) /\ todo'[k] = {} /\ call' = call
  <2>1. "jsync" \in Phases \ {"idle", "staged"}
    BY DEF Phases
  <2>2. QED
    BY <1>1, <1>2, <1>4, <1>5, <1>8, <2>1, AdvanceEffect
<1>10. ProgressOK(k)'
  <2>1. \A u \in Tables : lock'[u] # k
    BY <1>1, <1>2, <1>4 DEF ProgressOK
  <2>2. \A u \in TablesOf(k) : slotDisk'[u][NewSeq(k, u)] = {i}
    BY <1>1, <1>2, <1>4 DEF ProgressOK, DurableOK
  <2>3. QED
    BY <1>6, <1>7, <1>9, <2>1, <2>2 DEF ProgressOK, TablesOf, DurableOK, NewSeq, Base
<1>11. AckInv'
  <2>1. \A u \in Tables : head'[u] \in headDisk'[u] /\ headDisk'[u] = headDisk[u]
    BY <1>2, <1>4 DEF AckInv
  <2>2. QED
    BY <1>2, <1>4, <1>6, <1>9, <2>1, AckAdvance
<1>12. AloneInv'
  <2>1. setting.alone => \A u \in TablesOf(k) : head'[u] = Base(k, u)
    BY <1>1, <1>2, <1>4 DEF AloneInv
  <2>2. QED
    BY <1>2, <1>4, <1>9, <2>1, EffectAlone
<1>13. QED
  BY <1>5, <1>9, <1>10, <1>11, <1>12, TaskKeeps

(* The journal is durable before the first HEAD moves. *)
LEMMA SyncJournalKeeps == ASSUME IInv, TypeOK', NEW k \in Tasks, SyncJournal(k) PROVE IInv'
<1> DEFINE i == call[k].id
<1>1. /\ phase[k] = "jsync" /\ Goto(k, "lock", TablesOf(k))
      /\ journalDisk' = [journalDisk EXCEPT ![i] = {journal[i]}]
      /\ UNCHANGED <<setting, diskVars, journal, entries, lockVars, procVars, auxVars>>
  BY DEF SyncJournal
<1>2. /\ TypeOK /\ IdInv /\ LockInv /\ AckInv /\ AloneInv /\ ProgressOK(k)
      /\ meta = k /\ phase[k] # "idle" /\ i \notin acked \cup refused /\ i \in Ids
      /\ TablesOf(k) \subseteq Tables
  BY <1>1, ActiveFacts DEF Active
<1>3. JournalTypes
  BY <1>2, TypeParts
<1>4. lock' = lock /\ meta' = k /\ acked' = acked /\ refused' = refused
      /\ UNCHANGED <<head, headDisk, slot, slotDisk>>
  BY <1>1, <1>2 DEF lockVars, auxVars, diskVars
<1>5. "lock" \in Journaled /\ "jsync" \in Journaled
  BY DEF Journaled
<1>6. \A x \in Ids : x # i => journalDisk'[x] = journalDisk[x]
  BY <1>1, <1>2, <1>3 DEF JournalTypes
<1>7. phase'[k] = "lock"
  BY <1>1, <1>2, TypeParts DEF Goto, TaskTypes
<1>8. Writes(k)
  BY <1>1, <1>2, <1>4, <1>5, <1>6, <1>7 DEF Writes
<1>9. TaskEffect(k) /\ todo'[k] = TablesOf(k) /\ call' = call
  <2>1. "lock" \in Phases \ {"idle", "staged"}
    BY DEF Phases
  <2>2. QED
    BY <1>1, <1>2, <1>4, <1>5, <1>8, <2>1, AdvanceEffect
<1>10. ProgressOK(k)'
  <2>1. \A u \in Tables : lock'[u] # k
    BY <1>1, <1>2, <1>4 DEF ProgressOK
  <2>2. \A u \in TablesOf(k) : slotDisk'[u][NewSeq(k, u)] = {i}
    BY <1>1, <1>2, <1>4, <1>5 DEF ProgressOK, DurableOK
  <2>3. DOMAIN entries'[i] = TablesOf(k)
    BY <1>1, <1>2, <1>5 DEF ProgressOK
  <2>4. QED
    BY <1>7, <1>9, <2>1, <2>2, <2>3 DEF ProgressOK, TablesOf, DurableOK, NewSeq, Base
<1>11. AckInv'
  <2>1. \A u \in Tables : head'[u] \in headDisk'[u] /\ headDisk'[u] = headDisk[u]
    BY <1>2, <1>4 DEF AckInv
  <2>2. QED
    BY <1>1, <1>2, <1>4, <1>9, <2>1, AckAdvance
<1>12. AloneInv'
  <2>1. setting.alone => \A u \in TablesOf(k) : head'[u] = Base(k, u)
    BY <1>1, <1>2, <1>4 DEF AloneInv
  <2>2. QED
    BY <1>2, <1>4, <1>9, <2>1, EffectAlone
<1>13. QED
  BY <1>1, <1>9, <1>10, <1>11, <1>12, TaskKeeps

(* ... take every HEAD.lock; with one process at a time none is refused ... *)
LEMMA LockTableKeeps == ASSUME IInv, TypeOK', NEW k \in Tasks, LockTable(k) PROVE IInv'
<1>1. /\ phase[k] = "lock" /\ UNCHANGED <<setting, diskVars, journalVars, procVars>>
  BY DEF LockTable
<1>2. /\ TypeOK /\ IdInv /\ LockInv /\ AckInv /\ AloneInv /\ ProgressOK(k)
      /\ meta = k /\ phase[k] # "idle" /\ call[k].id \notin acked \cup refused
      /\ TablesOf(k) \subseteq Tables /\ todo[k] \subseteq TablesOf(k)
  BY <1>1, ActiveFacts DEF Active, ProgressOK
<1>3. ASSUME NEW t \in todo[k], lock[t] # NoOne \/ head[t] # Base(k, t), Refuse(k) PROVE IInv'
  <2>1. ASSUME setting.alone PROVE FALSE
    <3>1. head[t] = Base(k, t) /\ t \in Tables
      BY <1>1, <1>2, <2>1 DEF AloneInv
    <3>2. lock[t] \in Tasks \cup Procs
      BY <1>2, <1>3, <3>1, TypeParts DEF LockTypes
    <3>3. lock[t] # k
      BY <1>1, <1>2, <3>1 DEF ProgressOK
    <3>4. lock[t] \in Procs /\ db[lock[t]] = "sync"
      BY <1>2, <3>1, <3>2, <3>3 DEF LockInv
    <3>5. db[setting.procOf[k]] = "open" /\ setting.procOf[k] \in Procs
      BY <1>2, TypeParts, ConstantsAssumption DEF IdInv, IdOK, SettingTypes
    <3>6. lock[t] = setting.procOf[k]
      BY <1>2, <2>1, <3>4, <3>5 DEF AloneInv
    <3>7. QED
      BY <3>4, <3>5, <3>6
  <2>2. QED
    BY <1>1, <1>2, <1>3, <2>1, RefuseKeeps
<1>4. ASSUME NEW t \in todo[k], lock[t] = NoOne, lock' = [lock EXCEPT ![t] = k],
             IF todo[k] = {t} THEN Goto(k, "swap", TablesOf(k)) ELSE Goto(k, "lock", todo[k] \ {t}),
             UNCHANGED <<meta, auxVars>>
      PROVE  IInv'
  <2>1. meta' = k /\ acked' = acked /\ refused' = refused
        /\ UNCHANGED <<head, headDisk, slot, slotDisk, journal, journalDisk, entries>>
    BY <1>1, <1>2, <1>4 DEF auxVars, diskVars, journalVars
  <2>2. t \in Tables /\ lock'[t] = k /\ \A u \in Tables : u # t => lock'[u] = lock[u]
    BY <1>2, <1>4, TypeParts DEF LockTypes
  <2>3. PICK ph \in {"lock", "swap"}, ts \in SUBSET TablesOf(k) :
           /\ Goto(k, ph, ts) /\ (ph = "swap" => todo[k] = {t} /\ ts = TablesOf(k))
           /\ (ph = "lock" => ts = todo[k] \ {t})
    <3>1. TablesOf(k) \in SUBSET TablesOf(k) /\ todo[k] \ {t} \in SUBSET TablesOf(k)
      BY <1>2
    <3>2. CASE todo[k] = {t}
      BY <1>4, <3>1, <3>2
    <3>3. CASE todo[k] # {t}
      BY <1>4, <3>1, <3>3
    <3>4. QED
      BY <3>2, <3>3
  <2>4. "lock" \in Journaled /\ "swap" \in Journaled
    BY DEF Journaled
  <2>5. TaskEffect(k) /\ phase'[k] = ph /\ todo'[k] = ts /\ call' = call
    <3>1. ph \in Phases \ {"idle", "staged"} /\ ph \in Journaled
      BY <2>4 DEF Phases
    <3>2. \A u \in Tables : lock'[u] = lock[u] \/ (lock[u] = NoOne /\ lock'[u] = k)
      BY <1>4, <2>2
    <3>3. QED
      BY <1>1, <1>2, <1>4, <2>1, <2>3, <2>4, <3>1, <3>2, WritesNothing, AdvanceEffect
  <2>6. ProgressOK(k)'
    <3>1. \A u \in Tables : lock[u] = k => u \notin todo[k]
      BY <1>1, <1>2 DEF ProgressOK
    <3>2. \A u \in TablesOf(k) : u \notin todo[k] => lock[u] = k
      BY <1>1, <1>2 DEF ProgressOK
    <3>3. \A u \in TablesOf(k) : slotDisk'[u][NewSeq(k, u)] = {call[k].id}
      BY <1>1, <1>2, <2>1, <2>4 DEF ProgressOK, DurableOK
    <3>4. DOMAIN entries'[call[k].id] = TablesOf(k)
      BY <1>1, <1>2, <2>1, <2>4 DEF ProgressOK
    <3>5. \A u \in Tables : lock'[u] = k /\ ph = "lock" => u \notin ts
      BY <2>2, <2>3, <3>1
    <3>6. \A u \in TablesOf(k) : (ph = "lock" /\ u \notin ts) \/ ph = "swap" => lock'[u] = k
      BY <1>2, <2>2, <2>3, <3>2
    <3>7. ph = "swap" => ts = TablesOf(k)
      BY <2>3
    <3>8. QED
      BY <2>5, <3>3, <3>4, <3>5, <3>6, <3>7 DEF ProgressOK, TablesOf, DurableOK, NewSeq, Base
  <2>7. AckInv'
    <3>1. \A u \in Tables : head'[u] \in headDisk'[u] /\ headDisk'[u] = headDisk[u]
      BY <1>2, <2>1 DEF AckInv
    <3>2. QED
      BY <1>1, <1>2, <2>1, <2>5, <3>1, AckAdvance
  <2>8. AloneInv'
    <3>1. setting.alone => \A u \in TablesOf(k) : head'[u] = Base(k, u)
      BY <1>1, <1>2, <2>1 DEF AloneInv
    <3>2. QED
      BY <1>2, <2>1, <2>5, <3>1, EffectAlone
  <2>9. QED
    BY <2>1, <2>5, <2>6, <2>7, <2>8, TaskKeeps
<1>5. QED
  BY <1>3, <1>4 DEF LockTable

(* ... rename the HEADs and fsync their directories under those locks ... *)
LEMMA SwapHeadKeeps == ASSUME IInv, TypeOK', NEW k \in Tasks, SwapHead(k) PROVE IInv'
<1>1. /\ phase[k] = "swap"
      /\ UNCHANGED <<setting, slot, slotDisk, journalVars, lockVars, procVars, auxVars>>
  BY DEF SwapHead
<1>2. PICK t \in todo[k] :
        /\ Rename(t, NewHead(k, t))
        /\ IF todo[k] = {t} THEN Goto(k, "dirsync", TablesOf(k)) ELSE Goto(k, "swap", todo[k] \ {t})
  BY DEF SwapHead
<1>3. /\ TypeOK /\ IdInv /\ LockInv /\ AckInv /\ AloneInv /\ ProgressOK(k)
      /\ meta = k /\ phase[k] # "idle" /\ call[k].id \notin acked \cup refused
      /\ TablesOf(k) \subseteq Tables /\ todo[k] \subseteq TablesOf(k)
  BY <1>1, ActiveFacts DEF Active, ProgressOK
<1>4. t \in TablesOf(k) /\ t \in Tables
  BY <1>3
<1>5. /\ head'[t] = NewHead(k, t) /\ headDisk'[t] = headDisk[t] \cup {NewHead(k, t)}
      /\ \A u \in Tables : u # t => head'[u] = head[u] /\ headDisk'[u] = headDisk[u]
  BY <1>2, <1>3, <1>4, RenameEffect
<1>6. lock' = lock /\ meta' = k /\ acked' = acked /\ refused' = refused /\ entries' = entries
  BY <1>1, <1>3 DEF lockVars, auxVars, journalVars
<1>7. PICK ph \in {"swap", "dirsync"}, ts \in SUBSET TablesOf(k) :
         /\ Goto(k, ph, ts) /\ (ph = "dirsync" => todo[k] = {t} /\ ts = TablesOf(k))
         /\ (ph = "swap" => ts = todo[k] \ {t})
  <2>1. TablesOf(k) \in SUBSET TablesOf(k) /\ todo[k] \ {t} \in SUBSET TablesOf(k)
    BY <1>3
  <2>2. CASE todo[k] = {t}
    BY <1>2, <2>1, <2>2
  <2>3. CASE todo[k] # {t}
    BY <1>2, <2>1, <2>3
  <2>4. QED
    BY <2>2, <2>3
<1>8. TaskEffect(k) /\ phase'[k] = ph /\ todo'[k] = ts /\ call' = call
  <2>1. ph \in Phases \ {"idle", "staged"} /\ ph \in Journaled
    BY DEF Phases, Journaled
  <2>2. QED
    BY <1>1, <1>3, <1>6, <1>7, <2>1, HeadWrites, AdvanceEffect
<1>9. ProgressOK(k)'
  <2>1. \A u \in TablesOf(k) : lock'[u] = k /\ slotDisk'[u][NewSeq(k, u)] = {call[k].id}
    BY <1>1, <1>3, <1>6 DEF ProgressOK, DurableOK, Journaled
  <2>2. DOMAIN entries'[call[k].id] = TablesOf(k)
    BY <1>1, <1>3, <1>6 DEF ProgressOK, Journaled
  <2>3. \A u \in TablesOf(k) : (ph = "swap" /\ u \notin ts) \/ ph = "dirsync" => head'[u] = NewHead(k, u)
    BY <1>1, <1>3, <1>5, <1>7 DEF ProgressOK, SwappedOK
  <2>4. ph = "dirsync" => ts = TablesOf(k)
    BY <1>7
  <2>5. QED
    BY <1>8, <2>1, <2>2, <2>3, <2>4
    DEF ProgressOK, TablesOf, DurableOK, SwappedOK, NewHead, NewSeq, Base, Journaled
<1>10. AckInv'
  <2>1. \A u \in Tables : head'[u] \in headDisk'[u]
    BY <1>3, <1>5 DEF AckInv
  <2>2. \A u \in Tables : \A h \in headDisk'[u] :
              h \in headDisk[u] \/ (u \in TablesOf(k) /\ h = NewHead(k, u))
    BY <1>4, <1>5
  <2>3. QED
    BY <1>1, <1>3, <1>6, <1>8, <2>1, <2>2, AckAdvance
<1>11. AloneInv'
  BY <1>3, <1>6, <1>8, EffectAlone
<1>12. QED
  BY <1>6, <1>8, <1>9, <1>10, <1>11, TaskKeeps

(* One more HEAD is durable. *)
LEMMA SyncHeadKeeps == ASSUME IInv, TypeOK', NEW k \in Tasks, SyncHead(k) PROVE IInv'
<1>1. /\ phase[k] = "dirsync"
      /\ UNCHANGED <<setting, head, slot, slotDisk, journalVars, lockVars, procVars, auxVars>>
  BY DEF SyncHead
<1>2. PICK t \in todo[k] :
        /\ SyncDirs({t})
        /\ IF todo[k] = {t} THEN Goto(k, "delete", {}) ELSE Goto(k, "dirsync", todo[k] \ {t})
  BY DEF SyncHead
<1>3. /\ TypeOK /\ IdInv /\ LockInv /\ AckInv /\ AloneInv /\ ProgressOK(k)
      /\ meta = k /\ phase[k] # "idle" /\ call[k].id \notin acked \cup refused
      /\ TablesOf(k) \subseteq Tables /\ todo[k] \subseteq TablesOf(k)
  BY <1>1, ActiveFacts DEF Active, ProgressOK
<1>4. \A u \in Tables : headDisk'[u] = (IF u = t THEN {head[u]} ELSE headDisk[u])
  BY <1>2 DEF SyncDirs
<1>5. lock' = lock /\ meta' = k /\ acked' = acked /\ refused' = refused /\ entries' = entries
  BY <1>1, <1>3 DEF lockVars, auxVars, journalVars
<1>6. PICK ph \in {"dirsync", "delete"} :
         Goto(k, ph, todo[k] \ {t}) /\ (ph = "delete" => todo[k] = {t})
  <2>1. todo[k] = {t} => todo[k] \ {t} = {}
    OBVIOUS
  <2>2. QED
    BY <1>2, <2>1
<1>7. TaskEffect(k) /\ phase'[k] = ph /\ todo'[k] = todo[k] \ {t} /\ call' = call
  <2>1. ph \in Phases \ {"idle", "staged"} /\ ph \in Journaled
    BY DEF Phases, Journaled
  <2>2. QED
    BY <1>1, <1>3, <1>5, <1>6, <2>1, HeadWrites, AdvanceEffect
<1>8. ProgressOK(k)'
  <2>1. \A u \in TablesOf(k) : /\ lock'[u] = k /\ slotDisk'[u][NewSeq(k, u)] = {call[k].id}
                               /\ head'[u] = NewHead(k, u)
    BY <1>1, <1>3, <1>5 DEF ProgressOK, DurableOK, SwappedOK, Journaled
  <2>2. DOMAIN entries'[call[k].id] = TablesOf(k)
    BY <1>1, <1>3, <1>5 DEF ProgressOK, Journaled
  <2>3. \A u \in TablesOf(k) : u \notin todo'[k] \/ ph = "delete" => headDisk'[u] = {head'[u]}
    BY <1>1, <1>3, <1>4, <1>6, <1>7 DEF ProgressOK
  <2>4. todo'[k] \subseteq TablesOf(k)
    BY <1>3, <1>7
  <2>5. QED
    BY <1>7, <2>1, <2>2, <2>3, <2>4
    DEF ProgressOK, TablesOf, DurableOK, SwappedOK, NewHead, NewSeq, Base, Journaled
<1>9. AckInv'
  <2>1. \A u \in Tables : head'[u] \in headDisk'[u] /\ \A h \in headDisk'[u] : h \in headDisk[u]
    BY <1>1, <1>3, <1>4 DEF AckInv
  <2>2. QED
    BY <1>1, <1>3, <1>5, <1>7, <2>1, AckAdvance
<1>10. AloneInv'
  BY <1>3, <1>5, <1>7, EffectAlone
<1>11. QED
  BY <1>5, <1>7, <1>8, <1>9, <1>10, TaskKeeps

(* ... and answer once every HEAD is on disk. *)
LEMMA FinishKeeps == ASSUME IInv, TypeOK', NEW k \in Tasks, Finish(k) PROVE IInv'
<1> DEFINE i == call[k].id
<1>1. /\ phase[k] = "delete" /\ acked' = acked \cup {i} /\ Return(k)
      /\ journal' = [journal EXCEPT ![i] = "none"]
      /\ journalDisk' = [journalDisk EXCEPT ![i] = journalDisk[i] \cup {"none"}]
      /\ entries' = entries
      /\ UNCHANGED <<setting, diskVars, procVars, lastId, refused>>
  BY DEF Finish, DeleteJournal
<1>2. /\ TypeOK /\ IdInv /\ LockInv /\ AckInv /\ AloneInv /\ ProgressOK(k) /\ TaskTypes /\ JournalTypes
      /\ meta = k /\ phase[k] # "idle" /\ i \notin acked \cup refused /\ i \in Ids
  BY <1>1, ActiveFacts, TypeParts DEF Active
<1>3. TaskEffect(k) /\ Ended(k)
  <2>1. Frame(k) /\ Ended(k)
    BY <1>1, <1>2, ReturnFrame
  <2>2. \A x \in Ids : x # i => journal'[x] = journal[x] /\ journalDisk'[x] = journalDisk[x]
    BY <1>1, <1>2 DEF JournalTypes
  <2>3. Writes(k)
    BY <1>1, <1>2, <2>1, <2>2 DEF Writes, diskVars, Ended
  <2>4. QED
    BY <1>1, <1>2, <2>1, <2>3 DEF TaskEffect
<1>4. AckInv'
  <2>1. meta' = NoOne /\ UNCHANGED <<head, headDisk, slotDisk>>
    BY <1>1, <1>2, <1>3 DEF Ended, diskVars
  <2>2. \A t \in TablesOf(k) : DurableOK(k, t) /\ head[t] = NewHead(k, t) /\ headDisk'[t] = {head[t]}
    BY <1>1, <1>2, <2>1 DEF ProgressOK, SwappedOK, Journaled
  <2>3. DOMAIN entries[i] = TablesOf(k)
    BY <1>1, <1>2 DEF ProgressOK, Journaled
  <2>4. QED
    BY <1>1, <1>2, <2>1, <2>2, <2>3, AckAnswer
<1>5. AloneInv'
  BY <1>1, <1>2, <1>3, EffectAlone DEF Ended
<1>6. QED
  BY <1>1, <1>3, <1>4, <1>5, EndedProgress, TaskKeeps

(* A new call stages on the HEADs it reads, under a number of its own. *)
LEMMA StageKeeps == ASSUME IInv, TypeOK', NEW k \in Tasks, Stage(k) PROVE IInv'
<1> DEFINE n == lastId + 1
<1>1. /\ phase[k] = "idle" /\ db[setting.procOf[k]] = "open" /\ lastId' = n
      /\ phase' = [phase EXCEPT ![k] = "staged"]
      /\ UNCHANGED <<setting, diskVars, journalVars, lockVars, todo, procVars, acked, refused>>
  BY DEF Stage
<1>2. PICK ts \in Groups :
        /\ \A t \in ts : head[t].seq < MaxSeq
        /\ call' = [call EXCEPT ![k] = [id |-> n, base |-> [t \in ts |-> head[t]]]]
  BY DEF Stage
<1>3. TypeOK /\ IdInv /\ LockInv /\ ProgressInv /\ RecoverInv /\ AckInv /\ AloneInv /\ TaskTypes
  BY TypeParts DEF IInv
<1>4. /\ UNCHANGED <<setting, head, headDisk, slot, slotDisk, journal, journalDisk, entries, meta, lock,
                     todo, db, queue, left, seen, acked, refused>>
      /\ phase'[k] = "staged" /\ call'[k] = [id |-> n, base |-> [t \in ts |-> head[t]]]
      /\ \A j \in Tasks : j # k => phase'[j] = phase[j] /\ call'[j] = call[j]
  BY <1>1, <1>2, <1>3 DEF diskVars, journalVars, lockVars, procVars, TaskTypes
<1>5. /\ call'[k].id = n /\ DOMAIN call'[k].base = ts /\ ts # {} /\ ts \subseteq Tables
      /\ \A t \in ts : call'[k].base[t] = head[t]
  BY <1>4, ConstantsAssumption
<1>6. n \in Ids /\ n > lastId /\ lastId \in Nat /\ n = lastId + 1
  <2>1. lastId \in Ids \cup {0} /\ lastId < setting.ids /\ setting.ids \in Ids
    BY <1>3, TypeParts, ConstantsAssumption DEF AuxTypes, SettingTypes, Stage
  <2>2. QED
    BY <2>1, ConstantsAssumption DEF Ids
<1> HIDE DEF n
<1>7. Unwritten(n) /\ ~Seen(n) /\ DOMAIN entries[n] = {}
  BY <1>3, <1>6 DEF IdInv
<1>8. n \notin acked \cup refused /\ n \in 1..lastId' /\ 1..lastId \subseteq 1..lastId' /\ n \notin 1..lastId /\ n # 0
  <2>1. n \in 1..lastId' /\ 1..lastId \subseteq 1..lastId' /\ n \notin 1..lastId /\ n # 0
    BY <1>1, <1>6
  <2>2. QED
    BY <1>3, <2>1 DEF IdInv
<1>9. IdInv'
  <2>1. ASSUME NEW j \in Tasks PROVE IdOK(j)'
    <3>1. CASE j # k
      <4>1. IdOK(j) /\ phase'[j] = phase[j] /\ call'[j] = call[j]
        BY <1>3, <1>4, <3>1 DEF IdInv
      <4>2. QED
        BY <1>4, <1>8, <4>1 DEF IdOK, Unwritten, Seen, TablesOf, Base
    <3>2. CASE j = k
      BY <1>1, <1>2, <1>4, <1>5, <1>7, <1>8, <3>2 DEF IdOK, Unwritten, Seen, TablesOf, Base
    <3>3. QED
      BY <3>1, <3>2
  <2>2. ASSUME NEW i \in Tasks, NEW j \in Tasks, phase'[i] # "idle", call'[i].id = call'[j].id PROVE i = j
    <3>1. ASSUME NEW l \in Tasks, l # k PROVE call[l].id # n
      <4>1. CASE phase[l] = "idle"
        BY <1>3, <1>8, <4>1, Zeros DEF IdInv, IdOK
      <4>2. CASE phase[l] # "idle"
        BY <1>3, <1>8, <4>2 DEF IdInv, IdOK
      <4>3. QED
        BY <4>1, <4>2
    <3>2. CASE i = k \/ j = k
      BY <1>4, <1>5, <2>2, <3>1, <3>2
    <3>3. CASE i # k /\ j # k
      BY <1>3, <1>4, <2>2, <3>3 DEF IdInv
    <3>4. QED
      BY <3>2, <3>3
  <2>3. acked' \cup refused' \subseteq 1..lastId'
    BY <1>3, <1>4, <1>8 DEF IdInv
  <2>4. ASSUME NEW x \in Ids, x > lastId' PROVE Unwritten(x) /\ ~Seen(x) /\ DOMAIN entries[x] = {}
    <3>1. x > lastId
      BY <1>1, <1>6, <2>4, ConstantsAssumption DEF Ids
    <3>2. QED
      BY <1>3, <3>1 DEF IdInv
  <2>5. QED
    BY <1>4, <2>1, <2>2, <2>3, <2>4 DEF IdInv, Unwritten, Seen
<1>10. LockInv'
  BY <1>1, <1>3, <1>4 DEF LockInv, Active
<1>11. ProgressInv'
  <2>1. ASSUME NEW j \in Tasks PROVE ProgressOK(j)'
    <3>1. CASE j # k
      <4>1. ProgressOK(j) /\ DOMAIN call[j].base \subseteq Tables
        BY <1>3, CallFields DEF ProgressInv, TablesOf
      <4>2. QED
        BY <1>4, <3>1, <4>1, SameProgress
    <3>2. CASE j = k
      <4>1. \A t \in Tables : lock'[t] # k
        BY <1>1, <1>3, <1>4 DEF LockInv, Active
      <4>2. todo'[k] = {}
        BY <1>1, <1>3, <1>4 DEF IdInv, IdOK
      <4>3. QED
        BY <1>4, <3>2, <4>1, <4>2, IdleProgress
    <3>3. QED
      BY <3>1, <3>2
  <2>2. QED
    BY <2>1 DEF ProgressInv
<1>12. RecoverInv'
  BY <1>3, <1>4 DEF RecoverInv, RecoverOK, First
<1>13. AckInv'
  <2>1. meta # k
    BY <1>1, <1>3 DEF LockInv, Active
  <2>2. QED
    BY <1>3, <1>4, <2>1, AckSame
<1>14. AloneInv'
  BY <1>3, <1>4 DEF AloneInv, TablesOf, Base, Unwritten
<1>15. QED
  BY <1>9, <1>10, <1>11, <1>12, <1>13, <1>14 DEF IInv

-----------------------------------------------------------------------------
(***************************************************************************)
(* Recovery.                                                               *)
(***************************************************************************)
(* What a step of a recovery may change: its own bookkeeping, journals it  *)
(* deletes, HEADs nobody has locked, which it moves forward.               *)
ProcEffect(p) ==
    /\ UNCHANGED <<setting, slot, slotDisk, entries, meta, taskVars, auxVars>>
    /\ \A q \in Procs \ {p} :
          db'[q] = db[q] /\ queue'[q] = queue[q] /\ left'[q] = left[q] /\ seen'[q] = seen[q]
    /\ db[p] # "open" /\ queue'[p] \subseteq queue[p] \cup {x \in Ids : journal[x] # "none"}
    /\ \A x \in Ids : /\ journal[x] = "none" => journal'[x] = "none"
                      /\ journalDisk[x] = {"none"} => journalDisk'[x] = {"none"}
    /\ \A t \in Tables :
          /\ \/ head'[t] = head[t]
             \/ lock[t] = NoOne /\ head[t].seq < head'[t].seq /\ db[p] = "swap"
          /\ head'[t] \in headDisk'[t] /\ headDisk'[t] \subseteq headDisk[t] \cup {head'[t]}
          /\ \/ lock'[t] = lock[t] /\ (lock[t] = p => db'[p] = "sync" /\ seen'[p] = seen[p])
             \/ lock[t] = NoOne /\ lock'[t] = p /\ db'[p] = "sync" /\ seen'[p].table = t
             \/ lock[t] = p /\ lock'[t] = NoOne
    /\ db'[p] = "sync" => seen'[p].table \in Tables /\ lock'[seen'[p].table] = p
    /\ setting.alone /\ db'[p] # "closed" => \A q \in Procs : db[q] # "closed" => p = q

(* Recovery, once its own bookkeeping is known to be right. *)
LEMMA ProcKeeps ==
    ASSUME IInv, TypeOK', NEW p \in Procs, ProcEffect(p), RecoverOK(p)' PROVE IInv'
<1>1. TypeOK /\ IdInv /\ LockInv /\ ProgressInv /\ RecoverInv /\ AckInv /\ AloneInv
  BY DEF IInv
<1>2. /\ UNCHANGED <<setting, slot, slotDisk, entries, meta, phase, call, todo, lastId, acked, refused>>
      /\ \A q \in Procs : q # p =>
            db'[q] = db[q] /\ queue'[q] = queue[q] /\ left'[q] = left[q] /\ seen'[q] = seen[q]
  BY DEF ProcEffect, taskVars, auxVars
<1>3. NoOne \notin Tasks /\ NoOne \notin Procs /\ Tasks \cap Procs = {}
  BY ConstantsAssumption
<1>4. \A k \in Tasks : setting.procOf[k] \in Procs
  BY <1>1, TypeParts, ConstantsAssumption DEF SettingTypes
<1>5. \A x \in Ids : ~Seen(x) =>
         journal'[x] = "none" /\ journalDisk'[x] = {"none"} /\ \A q \in Procs : x \notin queue'[q]
  BY <1>2 DEF ProcEffect, Seen
<1>6. IdInv'
  <2>1. ASSUME NEW k \in Tasks PROVE IdOK(k)'
    <3>1. IdOK(k)
      BY <1>1 DEF IdInv
    <3>2. CASE phase[k] = "idle"
      BY <1>2, <3>1, <3>2 DEF IdOK
    <3>3. CASE phase[k] # "idle"
      <4>1. call[k].id \in Ids
        BY <1>1, <3>3, CallFacts
      <4>2. db'[setting.procOf[k]] = "open"
        BY <1>2, <1>4, <3>1, <3>3 DEF IdOK, ProcEffect
      <4>3. QED
        BY <1>2, <1>5, <3>1, <3>3, <4>1, <4>2 DEF IdOK, Unwritten, Seen, TablesOf, Base
    <3>4. QED
      BY <3>2, <3>3
  <2>2. QED
    BY <1>1, <1>2, <1>5, <2>1 DEF IdInv, Unwritten, Seen
<1>7. LockInv'
  <2>1. \A k \in Tasks : (phase'[k] \notin {"idle", "staged"}) <=> meta' = k
    BY <1>1, <1>2 DEF LockInv, Active
  <2>2. ASSUME NEW t \in Tables
        PROVE  /\ lock'[t] \in Tasks => meta' = lock'[t]
               /\ lock'[t] \in Procs => db'[lock'[t]] = "sync" /\ seen'[lock'[t]].table = t
    <3>1. /\ lock[t] \in Tasks => meta = lock[t]
          /\ lock[t] \in Procs => db[lock[t]] = "sync" /\ seen[lock[t]].table = t
      BY <1>1 DEF LockInv
    <3>2. \/ lock'[t] = lock[t] /\ (lock[t] = p => db'[p] = "sync" /\ seen'[p] = seen[p])
          \/ lock[t] = NoOne /\ lock'[t] = p /\ db'[p] = "sync" /\ seen'[p].table = t
          \/ lock[t] = p /\ lock'[t] = NoOne
      BY DEF ProcEffect
    <3>3. QED
      BY <1>2, <1>3, <3>1, <3>2
  <2>3. ASSUME NEW q \in Procs, db'[q] = "sync" PROVE seen'[q].table \in Tables /\ lock'[seen'[q].table] = q
    <3>1. CASE q = p
      BY <2>3, <3>1 DEF ProcEffect
    <3>2. CASE q # p
      <4>1. seen'[q] = seen[q] /\ seen[q].table \in Tables /\ lock[seen[q].table] = q
        BY <1>1, <1>2, <2>3, <3>2 DEF LockInv
      <4>2. lock'[seen[q].table] = q
        BY <1>3, <3>2, <4>1 DEF ProcEffect
      <4>3. QED
        BY <4>1, <4>2
    <3>3. QED
      BY <3>1, <3>2
  <2>4. QED
    BY <2>1, <2>2, <2>3 DEF LockInv, Active
<1>8. ProgressInv'
  <2>1. ASSUME NEW k \in Tasks PROVE ProgressOK(k)'
    <3>1. ProgressOK(k) /\ DOMAIN call[k].base \subseteq Tables
      BY <1>1, TypeParts, CallFields DEF ProgressInv, TablesOf
    <3>2. \A t \in Tables : lock[t] = k <=> lock'[t] = k
      BY <1>3 DEF ProcEffect
    <3>3. \A t \in Tables : lock[t] = k =>
              head'[t] = head[t] /\ (headDisk[t] = {head[t]} => headDisk'[t] = {head[t]})
      BY <1>3 DEF ProcEffect
    <3>4. QED
      BY <1>2, <3>1, <3>2, <3>3, SameProgress
  <2>2. QED
    BY <2>1 DEF ProgressInv
<1>9. RecoverInv'
  <2>1. ASSUME NEW q \in Procs, q # p PROVE RecoverOK(q)'
    BY <1>1, <1>2, <2>1 DEF RecoverInv, RecoverOK, First
  <2>2. QED
    BY <2>1 DEF RecoverInv
<1>10. AckInv'
  <2>1. ASSUME NEW x, NEW t \in Tables, KeptSafe(x, t) PROVE KeptSafe(x, t)'
    <3>1. PICK s \in Seqs : slotDisk[t][s] = {x} /\ Below(t, s) /\ \A h \in headDisk[t] : s <= h.seq
      BY <2>1 DEF KeptSafe
    <3>2. s <= head[t].seq /\ head[t].seq \in Int /\ head'[t].seq \in Int /\ s \in Int
      <4>1. head[t] \in Heads /\ head'[t] \in Heads
        BY <1>1, TypeParts DEF TypeOK
      <4>2. QED
        BY <1>1, <3>1, <4>1, ConstantsAssumption DEF AckInv, Heads, Seqs
    <3>3. head'[t] = head[t] \/ head[t].seq < head'[t].seq
      BY DEF ProcEffect
    <3>4. s <= head'[t].seq
      BY <3>2, <3>3
    <3>5. \A h \in headDisk'[t] : s <= h.seq
      BY <3>1, <3>4 DEF ProcEffect
    <3>6. QED
      BY <1>2, <3>1, <3>5 DEF KeptSafe, Below, TablesOf, Base
  <2>2. \A x \in acked : DOMAIN entries[x] \subseteq Tables
    BY <1>1, TypeParts, BasesType DEF JournalTypes, AuxTypes
  <2>3. \A t \in Tables : head'[t] \in headDisk'[t]
    BY DEF ProcEffect
  <2>4. QED
    BY <1>1, <1>2, <2>1, <2>2, <2>3 DEF AckInv
<1>11. AloneInv'
  <2>1. ASSUME setting.alone, NEW k \in Tasks, phase[k] # "idle", NEW t \in Tables PROVE head'[t] = head[t]
    <3>1. db[setting.procOf[k]] = "open"
      BY <1>1, <2>1 DEF IdInv, IdOK
    <3>2. db[p] # "swap"
      BY <1>1, <1>4, <2>1, <3>1 DEF AloneInv
    <3>3. QED
      BY <3>2 DEF ProcEffect
  <2>2. ASSUME setting.alone, NEW q \in Procs, NEW r \in Procs, db'[q] # "closed", db'[r] # "closed"
        PROVE  q = r
    <3>1. CASE q # p /\ r # p
      BY <1>1, <1>2, <2>2, <3>1 DEF AloneInv
    <3>2. CASE q = p
      BY <1>2, <2>2, <3>2 DEF ProcEffect
    <3>3. CASE r = p
      BY <1>2, <2>2, <3>3 DEF ProcEffect
    <3>4. QED
      BY <3>1, <3>2, <3>3
  <2>3. \A k \in Tasks : TablesOf(k) \subseteq Tables
    BY <1>1, TypeParts, CallFields
  <2>4. ASSUME setting.alone, NEW k \in Tasks, phase'[k] \in {"put", "sync", "journal", "jsync", "lock"},
               NEW t \in DOMAIN call'[k].base
        PROVE  head'[t] = call'[k].base[t]
    <3>1. head[t] = call[k].base[t] /\ phase[k] # "idle"
      BY <1>1, <1>2, <2>4 DEF AloneInv, TablesOf, Base
    <3>2. t \in Tables
      BY <1>2, <2>3 DEF TablesOf
    <3>3. QED
      BY <1>2, <2>1, <2>4, <3>1, <3>2
  <2>5. QED
    BY <1>1, <1>2, <2>2, <2>4 DEF AloneInv, TablesOf, Base, Unwritten
<1>12. QED
  BY <1>6, <1>7, <1>8, <1>9, <1>10, <1>11 DEF IInv

(* A process that is recovering holds a lock only while it fsyncs. *)
LEMMA LockOfProc ==
    ASSUME LockInv, NEW p \in Procs, NEW t \in Tables, lock[t] = p
    PROVE  db[p] = "sync" /\ seen[p].table = t
BY DEF LockInv

(* A process opens the database and lists the journals it finds. *)
LEMMA OpenKeeps == ASSUME IInv, TypeOK', NEW p \in Procs, Open(p) PROVE IInv'
<1> DEFINE found == {x \in Ids : journal[x] # "none"}
<1>1. /\ db[p] = "closed" /\ (setting.alone => \A q \in Procs : db[q] = "closed")
      /\ queue' = [queue EXCEPT ![p] = found]
      /\ db' = [db EXCEPT ![p] = IF found = {} THEN "open" ELSE "recover"]
      /\ UNCHANGED <<setting, diskVars, journalVars, lockVars, taskVars, left, seen, auxVars>>
  BY DEF Open
<1>2. /\ TypeOK /\ LockInv /\ RecoverInv /\ AckInv /\ ProcTypes
  BY TypeParts DEF IInv
<1>3. /\ queue'[p] = found /\ db'[p] = (IF found = {} THEN "open" ELSE "recover")
      /\ \A q \in Procs : q # p => db'[q] = db[q] /\ queue'[q] = queue[q]
      /\ UNCHANGED <<setting, head, headDisk, slot, slotDisk, journal, journalDisk, entries, meta, lock,
                     taskVars, left, seen, auxVars>>
  BY <1>1, <1>2 DEF ProcTypes, diskVars, journalVars, lockVars
<1>4. ProcEffect(p)
  <2>1. \A t \in Tables : lock[t] # p
    BY <1>1, <1>2, LockOfProc
  <2>2. \A t \in Tables : head[t] \in headDisk[t]
    BY <1>2 DEF AckInv
  <2>3. QED
    BY <1>1, <1>3, <2>1, <2>2 DEF ProcEffect
<1>5. RecoverOK(p)'
  <2>1. left[p] = {}
    BY <1>1, <1>2 DEF RecoverInv, RecoverOK
  <2>2. QED
    BY <1>3, <2>1 DEF RecoverOK
<1>6. QED
  BY <1>4, <1>5, ProcKeeps

(* An open that fails. *)
LEMMA ClosedKeeps ==
    ASSUME IInv, TypeOK', NEW p \in Procs, Closed(p), db[p] \in {"recover", "swap"},
           UNCHANGED <<setting, diskVars, journalVars, lockVars, taskVars, auxVars>>
    PROVE  IInv'
<1>1. /\ TypeOK /\ LockInv /\ RecoverInv /\ AckInv /\ ProcTypes
  BY TypeParts DEF IInv
<1>2. /\ queue'[p] = {} /\ db'[p] = "closed" /\ left'[p] = {} /\ seen'[p] = NoSeen
      /\ \A q \in Procs : q # p =>
            db'[q] = db[q] /\ queue'[q] = queue[q] /\ left'[q] = left[q] /\ seen'[q] = seen[q]
      /\ UNCHANGED <<setting, head, headDisk, slot, slotDisk, journal, journalDisk, entries, meta, lock,
                     taskVars, auxVars>>
  BY <1>1 DEF ProcTypes, diskVars, journalVars, lockVars, Closed
<1>3. ProcEffect(p)
  <2>1. \A t \in Tables : lock[t] # p
    BY <1>1, LockOfProc
  <2>2. \A t \in Tables : head[t] \in headDisk[t]
    BY <1>1 DEF AckInv
  <2>3. QED
    BY <1>2, <2>1, <2>2 DEF ProcEffect
<1>4. RecoverOK(p)'
  BY <1>2 DEF RecoverOK
<1>5. QED
  BY <1>3, <1>4, ProcKeeps

(* Recovery reads a journal: whole, torn or gone. *)
LEMMA ReadJournalKeeps == ASSUME IInv, TypeOK', NEW p \in Procs, ReadJournal(p) PROVE IInv'
<1> DEFINE x == First(queue[p])
<1>1. /\ db[p] = "recover" /\ UNCHANGED <<setting, diskVars, journalVars, lockVars, taskVars, auxVars>>
  BY DEF ReadJournal
<1>2. CASE Closed(p)
  BY <1>1, <1>2, ClosedKeeps
<1>3. CASE left' = [left EXCEPT ![p] = DOMAIN entries[x]] /\ UNCHANGED <<db, queue, seen>>
  <2>1. /\ TypeOK /\ LockInv /\ RecoverInv /\ AckInv /\ AloneInv /\ ProcTypes
    BY TypeParts DEF IInv
  <2>2. /\ left'[p] = DOMAIN entries[x] /\ UNCHANGED <<db, queue, seen>>
        /\ \A q \in Procs : q # p => left'[q] = left[q]
        /\ UNCHANGED <<setting, head, headDisk, slot, slotDisk, journal, journalDisk, entries, meta, lock,
                       taskVars, auxVars>>
    BY <1>1, <1>3, <2>1 DEF ProcTypes, diskVars, journalVars, lockVars
  <2>3. ProcEffect(p)
    <3>1. \A t \in Tables : lock[t] # p
      BY <1>1, <2>1, LockOfProc
    <3>2. \A t \in Tables : head[t] \in headDisk[t]
      BY <2>1 DEF AckInv
    <3>3. setting.alone /\ db'[p] # "closed" => \A q \in Procs : db[q] # "closed" => p = q
      BY <2>1, <2>2 DEF AloneInv
    <3>4. QED
      BY <1>1, <2>2, <3>1, <3>2, <3>3 DEF ProcEffect
  <2>4. RecoverOK(p)'
    <3>1. queue[p] # {}
      BY <1>1, <2>1 DEF RecoverInv, RecoverOK
    <3>2. First(queue'[p]) = x
      BY <2>2
    <3>3. QED
      BY <1>1, <2>2, <3>1, <3>2 DEF RecoverOK
  <2>5. QED
    BY <2>3, <2>4, ProcKeeps
<1>4. QED
  BY <1>2, <1>3 DEF ReadJournal

(* One entry done: the process is between two entries, or two journals, or *)
(* open.                                                                   *)
LEMMA EntryDoneEffect ==
    ASSUME TypeOK, RecoverInv, NEW p \in Procs, NEW t, EntryDone(p, t), entries' = entries,
           t \in left[p] \/ (db[p] \in {"swap", "sync"} /\ t = seen[p].table)
    PROVE  /\ RecoverOK(p)' /\ queue'[p] \subseteq queue[p] /\ db'[p] \in {"open", "recover"}
           /\ \A q \in Procs : q # p =>
                 db'[q] = db[q] /\ queue'[q] = queue[q] /\ left'[q] = left[q] /\ seen'[q] = seen[q]
           /\ \A y \in Ids : /\ journal[y] = "none" => journal'[y] = "none"
                             /\ journalDisk[y] = {"none"} => journalDisk'[y] = {"none"}
<1> DEFINE x == First(queue[p])
<1>1. ProcTypes /\ JournalTypes /\ RecoverOK(p)
  BY TypeParts DEF RecoverInv
<1>2. x \in queue[p] /\ x \in Ids /\ t \in left[p]
  BY JournalInHand
<1>3. /\ left' = [left EXCEPT ![p] = left[p] \ {t}] /\ seen' = [seen EXCEPT ![p] = NoSeen]
  BY DEF EntryDone
<1>4. CASE left[p] = {t}
  <2>1. /\ journal' = [journal EXCEPT ![x] = "none"]
        /\ journalDisk' = [journalDisk EXCEPT ![x] = journalDisk[x] \cup {"none"}]
        /\ queue' = [queue EXCEPT ![p] = queue[p] \ {x}]
        /\ db' = [db EXCEPT ![p] = IF queue[p] = {x} THEN "open" ELSE "recover"]
    BY <1>4 DEF EntryDone, DeleteJournal
  <2>2. /\ queue'[p] = queue[p] \ {x} /\ left'[p] = {}
        /\ db'[p] = IF queue[p] = {x} THEN "open" ELSE "recover"
    BY <1>1, <1>3, <1>4, <2>1 DEF ProcTypes
  <2>3. RecoverOK(p)'
    BY <1>2, <2>2 DEF RecoverOK
  <2>4. \A y \in Ids : /\ journal[y] = "none" => journal'[y] = "none"
                       /\ journalDisk[y] = {"none"} => journalDisk'[y] = {"none"}
    BY <1>1, <1>2, <2>1 DEF JournalTypes
  <2>5. \A q \in Procs : q # p =>
                 db'[q] = db[q] /\ queue'[q] = queue[q] /\ left'[q] = left[q] /\ seen'[q] = seen[q]
    BY <1>1, <1>3, <2>1 DEF ProcTypes
  <2>6. QED
    BY <2>2, <2>3, <2>4, <2>5
<1>5. CASE left[p] # {t}
  <2>1. db' = [db EXCEPT ![p] = "recover"] /\ UNCHANGED <<queue, journal, journalDisk>>
    BY <1>5 DEF EntryDone, journalVars
  <2>2. left'[p] = left[p] \ {t} /\ db'[p] = "recover" /\ First(queue'[p]) = x
    BY <1>1, <1>3, <2>1 DEF ProcTypes
  <2>3. queue[p] # {} /\ left[p] \subseteq DOMAIN entries[x]
    BY <1>1, <1>2 DEF RecoverOK
  <2>4. RecoverOK(p)'
    BY <2>1, <2>2, <2>3 DEF RecoverOK
  <2>5. \A q \in Procs : q # p =>
                 db'[q] = db[q] /\ queue'[q] = queue[q] /\ left'[q] = left[q] /\ seen'[q] = seen[q]
    BY <1>1, <1>3, <2>1 DEF ProcTypes
  <2>6. QED
    BY <2>1, <2>2, <2>4, <2>5
<1>6. QED
  BY <1>4, <1>5

(* Recovery reads a HEAD under the table's lock and decides. *)
LEMMA RecoverReadKeeps == ASSUME IInv, TypeOK', NEW p \in Procs, RecoverRead(p) PROVE IInv'
<1> DEFINE x == First(queue[p])
<1>1. /\ db[p] = "recover" /\ UNCHANGED <<setting, diskVars, lockVars, taskVars, auxVars>>
  BY DEF RecoverRead
<1>2. /\ TypeOK /\ LockInv /\ RecoverInv /\ AckInv /\ AloneInv /\ ProcTypes
  BY TypeParts DEF IInv
<1>3. /\ \A t \in Tables : lock[t] # p /\ head[t] \in headDisk[t]
      /\ setting.alone => \A q \in Procs : db[q] # "closed" => p = q
  BY <1>1, <1>2, LockOfProc DEF AckInv, AloneInv
<1>4. UNCHANGED <<setting, head, headDisk, slot, slotDisk, meta, lock, taskVars, auxVars>>
  BY <1>1 DEF diskVars, lockVars
<1>5. ASSUME NEW t \in left[p], EntryDone(p, t) PROVE IInv'
  <2>1. entries' = entries
    BY <1>5 DEF EntryDone, DeleteJournal, journalVars
  <2>2. /\ RecoverOK(p)' /\ queue'[p] \subseteq queue[p] /\ db'[p] \in {"open", "recover"}
        /\ \A q \in Procs : q # p =>
              db'[q] = db[q] /\ queue'[q] = queue[q] /\ left'[q] = left[q] /\ seen'[q] = seen[q]
        /\ \A y \in Ids : /\ journal[y] = "none" => journal'[y] = "none"
                          /\ journalDisk[y] = {"none"} => journalDisk'[y] = {"none"}
    BY <1>2, <1>5, <2>1, EntryDoneEffect
  <2>3. ProcEffect(p)
    BY <1>1, <1>3, <1>4, <2>1, <2>2 DEF ProcEffect
  <2>4. QED
    BY <2>2, <2>3, ProcKeeps
<1>6. ASSUME NEW t \in left[p], head[t].seq < entries[x][t].seq,
             seen' = [seen EXCEPT ![p] = [table |-> t, head |-> head[t]]],
             db' = [db EXCEPT ![p] = "swap"], UNCHANGED <<queue, left, journalVars>>
      PROVE  IInv'
  <2>1. /\ db'[p] = "swap" /\ seen'[p].table = t /\ seen'[p].head = head[t]
        /\ \A q \in Procs : q # p => db'[q] = db[q] /\ seen'[q] = seen[q]
        /\ UNCHANGED <<queue, left, journal, journalDisk, entries>> /\ First(queue'[p]) = x
    BY <1>2, <1>6 DEF ProcTypes, journalVars
  <2>2. ProcEffect(p)
    BY <1>1, <1>3, <1>4, <2>1 DEF ProcEffect
  <2>3. RecoverOK(p)'
    <3>1. queue[p] # {} /\ left[p] \subseteq DOMAIN entries[x]
      BY <1>1, <1>2 DEF RecoverInv, RecoverOK
    <3>2. QED
      BY <1>6, <2>1, <3>1 DEF RecoverOK
  <2>4. QED
    BY <2>2, <2>3, ProcKeeps
<1>7. QED
  BY <1>5, <1>6 DEF RecoverRead

(* The HEAD is moved only if it is the one that was read. *)
LEMMA RecoverSwapKeeps == ASSUME IInv, TypeOK', NEW p \in Procs, RecoverSwap(p) PROVE IInv'
<1> DEFINE x == First(queue[p])
           t == seen[p].table
<1>1. /\ db[p] = "swap" /\ UNCHANGED <<setting, slot, slotDisk, journalVars, meta, taskVars, auxVars>>
  BY DEF RecoverSwap
<1>2. CASE Closed(p) /\ UNCHANGED <<head, headDisk, lock>>
  BY <1>1, <1>2, ClosedKeeps DEF diskVars, lockVars
<1>3. CASE /\ lock[t] = NoOne /\ head[t] = seen[p].head /\ lock' = [lock EXCEPT ![t] = p]
           /\ Rename(t, entries[x][t]) /\ db' = [db EXCEPT ![p] = "sync"]
           /\ UNCHANGED <<queue, left, seen>>
  <2>1. /\ TypeOK /\ LockInv /\ RecoverInv /\ AckInv /\ AloneInv /\ ProcTypes /\ LockTypes
    BY TypeParts DEF IInv
  <2>2. t \in Tables /\ t \in left[p]
    BY <1>1, <2>1, JournalInHand
  <2>3. /\ head'[t] = entries[x][t] /\ headDisk'[t] = headDisk[t] \cup {entries[x][t]}
        /\ \A u \in Tables : u # t => head'[u] = head[u] /\ headDisk'[u] = headDisk[u]
    BY <1>3, <2>1, <2>2, RenameEffect
  <2>4. head[t].seq < head'[t].seq
    BY <1>1, <1>3, <2>1, <2>3 DEF RecoverInv, RecoverOK
  <2>5. /\ lock'[t] = p /\ \A u \in Tables : u # t => lock'[u] = lock[u]
    BY <1>3, <2>1, <2>2 DEF LockTypes
  <2>6. /\ db'[p] = "sync" /\ \A q \in Procs : q # p => db'[q] = db[q]
        /\ First(queue'[p]) = x /\ UNCHANGED <<queue, left, seen, journal, journalDisk, entries>>
    BY <1>1, <1>3, <2>1 DEF ProcTypes, journalVars
  <2>7. \A u \in Tables : lock[u] # p /\ head[u] \in headDisk[u]
    BY <1>1, <2>1, LockOfProc DEF AckInv
  <2>8. setting.alone => \A q \in Procs : db[q] # "closed" => p = q
    BY <1>1, <2>1 DEF AloneInv
  <2>9. ProcEffect(p)
    BY <1>1, <1>3, <2>2, <2>3, <2>4, <2>5, <2>6, <2>7, <2>8 DEF ProcEffect
  <2>10. RecoverOK(p)'
    <3>1. queue[p] # {} /\ left[p] \subseteq DOMAIN entries[x]
      BY <1>1, <2>1, <2>2 DEF RecoverInv, RecoverOK
    <3>2. QED
      BY <2>2, <2>6, <3>1 DEF RecoverOK
  <2>11. QED
    BY <2>9, <2>10, ProcKeeps
<1>4. QED
  BY <1>2, <1>3 DEF RecoverSwap

(* Recovery makes a HEAD it moved durable and releases the table. *)
LEMMA RecoverSyncKeeps == ASSUME IInv, TypeOK', NEW p \in Procs, RecoverSync(p) PROVE IInv'
<1> DEFINE t == seen[p].table
<1>1. /\ db[p] = "sync" /\ SyncDirs({t}) /\ lock' = [lock EXCEPT ![t] = NoOne] /\ EntryDone(p, t)
      /\ UNCHANGED <<setting, head, slot, slotDisk, meta, taskVars, auxVars>>
  BY DEF RecoverSync
<1>2. /\ TypeOK /\ LockInv /\ RecoverInv /\ AckInv /\ AloneInv /\ LockTypes
  BY TypeParts DEF IInv
<1>3. entries' = entries
  BY <1>1 DEF EntryDone, DeleteJournal, journalVars
<1>4. /\ RecoverOK(p)' /\ queue'[p] \subseteq queue[p] /\ db'[p] \in {"open", "recover"}
      /\ \A q \in Procs : q # p =>
            db'[q] = db[q] /\ queue'[q] = queue[q] /\ left'[q] = left[q] /\ seen'[q] = seen[q]
      /\ \A y \in Ids : /\ journal[y] = "none" => journal'[y] = "none"
                        /\ journalDisk[y] = {"none"} => journalDisk'[y] = {"none"}
  BY <1>1, <1>2, <1>3, EntryDoneEffect
<1>5. t \in Tables /\ lock[t] = p
  BY <1>1, <1>2 DEF LockInv
<1>6. lock'[t] = NoOne /\ \A u \in Tables : u # t => lock'[u] = lock[u] /\ lock[u] # p
  BY <1>1, <1>2, <1>5, LockOfProc DEF LockTypes
<1>7. \A u \in Tables : head'[u] \in headDisk'[u] /\ headDisk'[u] \subseteq headDisk[u] \cup {head'[u]}
  <2>1. \A u \in Tables : headDisk'[u] = IF u = t THEN {head[u]} ELSE headDisk[u]
    BY <1>1 DEF SyncDirs
  <2>2. QED
    BY <1>1, <1>2, <2>1 DEF AckInv
<1>8. setting.alone => \A q \in Procs : db[q] # "closed" => p = q
  BY <1>1, <1>2 DEF AloneInv
<1>9. ProcEffect(p)
  BY <1>1, <1>3, <1>4, <1>5, <1>6, <1>7, <1>8 DEF ProcEffect
<1>10. QED
  BY <1>4, <1>9, ProcKeeps

-----------------------------------------------------------------------------
(***************************************************************************)
(* Failures.                                                               *)
(***************************************************************************)

(* A process dies: its calls and locks go, the files stay. *)
LEMMA CrashKeeps == ASSUME IInv, TypeOK', NEW p \in Procs, Crash(p) PROVE IInv'
<1> DEFINE gone == {k \in Tasks : setting.procOf[k] = p}
<1>1. /\ phase' = [k \in Tasks |-> IF k \in gone THEN "idle" ELSE phase[k]]
      /\ call' = [k \in Tasks |-> IF k \in gone THEN NoCall ELSE call[k]]
      /\ todo' = [k \in Tasks |-> IF k \in gone THEN {} ELSE todo[k]]
      /\ meta' = (IF meta \in gone THEN NoOne ELSE meta)
      /\ lock' = [t \in Tables |-> IF lock[t] \in gone \cup {p} THEN NoOne ELSE lock[t]]
      /\ Closed(p)
      /\ UNCHANGED <<setting, diskVars, journalVars, lastId, acked, refused, powerLosses>>
  BY DEF Crash
<1>2. TypeOK /\ IdInv /\ LockInv /\ ProgressInv /\ RecoverInv /\ AckInv /\ AloneInv /\ ProcTypes
  BY TypeParts DEF IInv
<1>3. UNCHANGED <<setting, head, headDisk, slot, slotDisk, journal, journalDisk, entries, lastId, acked, refused>>
  BY <1>1 DEF diskVars, journalVars
<1>4. /\ queue'[p] = {} /\ db'[p] = "closed" /\ left'[p] = {}
      /\ \A q \in Procs : q # p =>
            db'[q] = db[q] /\ queue'[q] = queue[q] /\ left'[q] = left[q] /\ seen'[q] = seen[q]
  BY <1>1, <1>2 DEF ProcTypes, Closed
<1>5. /\ gone \subseteq Tasks
      /\ \A k \in Tasks : /\ k \in gone => phase'[k] = "idle" /\ call'[k] = NoCall /\ todo'[k] = {}
                          /\ k \notin gone =>
                                /\ phase'[k] = phase[k] /\ call'[k] = call[k] /\ todo'[k] = todo[k]
                                /\ setting.procOf[k] # p
  BY <1>1
<1>6. NoOne \notin Tasks /\ NoOne \notin Procs /\ Tasks \cap Procs = {}
  BY ConstantsAssumption
<1>7. \A k \in Tasks : setting.procOf[k] \in Procs
  BY <1>2, TypeParts, ConstantsAssumption DEF SettingTypes
<1>8. \A t \in Tables : lock'[t] = IF lock[t] \in gone \cup {p} THEN NoOne ELSE lock[t]
  BY <1>1
<1>9. meta' = IF meta \in gone THEN NoOne ELSE meta
  BY <1>1
<1> HIDE DEF gone
<1>10. IdInv'
  <2>1. \A x \in Ids : ~Seen(x) => \A q \in Procs : x \notin queue'[q]
    BY <1>4 DEF Seen
  <2>2. ASSUME NEW k \in Tasks PROVE IdOK(k)'
    <3>1. CASE k \in gone
      BY <1>5, <3>1 DEF IdOK
    <3>2. CASE k \notin gone /\ phase[k] = "idle"
      BY <1>2, <1>5, <3>2 DEF IdOK, IdInv
    <3>3. CASE k \notin gone /\ phase[k] # "idle"
      <4>1. IdOK(k) /\ call[k].id \in Ids
        BY <1>2, <3>3, CallFacts DEF IdInv
      <4>2. db'[setting.procOf[k]] = "open"
        BY <1>4, <1>5, <1>7, <3>3, <4>1 DEF IdOK
      <4>3. QED
        BY <1>3, <1>5, <2>1, <3>3, <4>1, <4>2 DEF IdOK, Unwritten, Seen, TablesOf, Base
    <3>4. QED
      BY <3>1, <3>2, <3>3
  <2>3. ASSUME NEW i \in Tasks, NEW j \in Tasks, phase'[i] # "idle", call'[i].id = call'[j].id PROVE i = j
    <3>1. phase[i] # "idle" /\ call'[i] = call[i]
      BY <1>5, <2>3
    <3>2. call[i].id # 0
      BY <1>2, <3>1, CallFacts
    <3>3. call'[j] = call[j]
      BY <1>5, <2>3, <3>1, <3>2, Zeros
    <3>4. QED
      BY <1>2, <2>3, <3>1, <3>3 DEF IdInv
  <2>4. QED
    BY <1>2, <1>3, <2>1, <2>2, <2>3 DEF IdInv, Unwritten, Seen
<1>11. LockInv'
  <2>1. ASSUME NEW k \in Tasks PROVE (phase'[k] \notin {"idle", "staged"}) <=> meta' = k
    <3>1. (phase[k] \notin {"idle", "staged"}) <=> meta = k
      BY <1>2 DEF LockInv, Active
    <3>2. CASE k \in gone
      BY <1>5, <1>6, <1>9, <3>1, <3>2
    <3>3. CASE k \notin gone
      BY <1>5, <1>6, <1>9, <3>1, <3>3
    <3>4. QED
      BY <3>2, <3>3
  <2>2. ASSUME NEW t \in Tables
        PROVE  /\ lock'[t] \in Tasks => meta' = lock'[t]
               /\ lock'[t] \in Procs => db'[lock'[t]] = "sync" /\ seen'[lock'[t]].table = t
    <3>1. /\ lock[t] \in Tasks => meta = lock[t]
          /\ lock[t] \in Procs => db[lock[t]] = "sync" /\ seen[lock[t]].table = t
      BY <1>2 DEF LockInv
    <3>2. CASE lock[t] \in gone \cup {p}
      BY <1>6, <1>8, <3>2
    <3>3. CASE lock[t] \notin gone \cup {p}
      BY <1>4, <1>8, <1>9, <3>1, <3>3
    <3>4. QED
      BY <3>2, <3>3
  <2>3. ASSUME NEW q \in Procs, db'[q] = "sync" PROVE seen'[q].table \in Tables /\ lock'[seen'[q].table] = q
    <3>1. q # p /\ seen'[q] = seen[q] /\ db[q] = "sync"
      BY <1>4, <2>3
    <3>2. seen[q].table \in Tables /\ lock[seen[q].table] = q /\ q \notin gone
      BY <1>2, <1>5, <1>6, <3>1 DEF LockInv
    <3>3. QED
      BY <1>8, <3>1, <3>2
  <2>4. QED
    BY <2>1, <2>2, <2>3 DEF LockInv, Active
<1>12. ProgressInv'
  <2>1. ASSUME NEW k \in Tasks PROVE ProgressOK(k)'
    <3>1. CASE k \in gone
      <4>1. \A t \in Tables : lock'[t] # k
        BY <1>6, <1>8, <3>1
      <4>2. QED
        BY <1>5, <3>1, <4>1, IdleProgress
    <3>2. CASE k \notin gone
      <4>1. ProgressOK(k) /\ DOMAIN call[k].base \subseteq Tables
        BY <1>2, TypeParts, CallFields DEF ProgressInv, TablesOf
      <4>2. \A t \in Tables : lock[t] = k <=> lock'[t] = k
        BY <1>6, <1>8, <3>2
      <4>3. QED
        BY <1>3, <1>5, <3>2, <4>1, <4>2, SameProgress
    <3>3. QED
      BY <3>1, <3>2
  <2>2. QED
    BY <2>1 DEF ProgressInv
<1>13. RecoverInv'
  <2>1. ASSUME NEW q \in Procs PROVE RecoverOK(q)'
    <3>1. CASE q = p
      BY <1>4, <3>1 DEF RecoverOK
    <3>2. CASE q # p
      <4>1. First(queue'[q]) = First(queue[q])
        BY <1>4, <3>2
      <4>2. QED
        BY <1>2, <1>3, <1>4, <3>2, <4>1 DEF RecoverInv, RecoverOK
    <3>3. QED
      BY <3>1, <3>2
  <2>2. QED
    BY <2>1 DEF RecoverInv
<1>14. AckInv'
  <2>1. meta' \in Tasks => meta' = meta /\ call'[meta] = call[meta]
    BY <1>5, <1>6, <1>9
  <2>2. QED
    BY <1>2, <1>3, <2>1, AckSame
<1>15. AloneInv'
  <2>1. ASSUME setting.alone, NEW q \in Procs, NEW r \in Procs, db'[q] # "closed", db'[r] # "closed"
        PROVE  q = r
    BY <1>2, <1>4, <2>1 DEF AloneInv
  <2>2. ASSUME setting.alone, NEW k \in Tasks, phase'[k] \in {"put", "sync", "journal", "jsync", "lock"},
               NEW t \in DOMAIN call'[k].base
        PROVE  head'[t] = call'[k].base[t]
    <3>1. k \notin gone
      BY <1>5, <2>2
    <3>2. QED
      BY <1>2, <1>3, <1>5, <2>2, <3>1 DEF AloneInv, TablesOf, Base
  <2>3. QED
    BY <1>2, <1>3, <2>1, <2>2 DEF AloneInv, TablesOf, Base, Unwritten
<1>16. QED
  BY <1>10, <1>11, <1>12, <1>13, <1>14, <1>15 DEF IInv

(* The kernel writes back while no call runs. *)
LEMMA FlushKeeps == ASSUME IInv, TypeOK', Flush PROVE IInv'
<1>1. /\ \A k \in Tasks : phase[k] = "idle"
      /\ journalDisk' = [x \in Ids |-> {journal[x]}] /\ headDisk' = [t \in Tables |-> {head[t]}]
      /\ UNCHANGED <<setting, head, slot, slotDisk, journal, entries, meta, lock, phase, call, todo,
                     db, queue, left, seen, lastId, acked, refused>>
  BY DEF Flush, lockVars, taskVars, procVars, auxVars
<1>2. TypeOK /\ IdInv /\ LockInv /\ ProgressInv /\ RecoverInv /\ AckInv /\ AloneInv
  BY DEF IInv
<1>3. IdInv'
  <2>1. \A x \in Ids : ~Seen(x) => journalDisk'[x] = {"none"}
    BY <1>1 DEF Seen
  <2>2. \A k \in Tasks : IdOK(k)'
    BY <1>1, <1>2 DEF IdInv, IdOK
  <2>3. QED
    BY <1>1, <1>2, <2>1, <2>2 DEF IdInv, Unwritten, Seen
<1>4. LockInv'
  BY <1>1, <1>2 DEF LockInv, Active
<1>5. ProgressInv'
  <2>1. ASSUME NEW k \in Tasks PROVE ProgressOK(k)'
    <3>1. ProgressOK(k) /\ DOMAIN call[k].base \subseteq Tables
      BY <1>2, TypeParts, CallFields DEF ProgressInv, TablesOf
    <3>2. \A t \in Tables : headDisk'[t] = {head[t]}
      BY <1>1
    <3>3. QED
      BY <1>1, <3>1, <3>2, SameProgress
  <2>2. QED
    BY <2>1 DEF ProgressInv
<1>6. RecoverInv'
  BY <1>1, <1>2 DEF RecoverInv, RecoverOK, First
<1>7. AckInv'
  <2>1. \A t \in Tables : /\ head'[t] \in headDisk'[t] /\ \A h \in headDisk'[t] : h \in headDisk[t]
    BY <1>1, <1>2 DEF AckInv
  <2>2. ASSUME NEW x, NEW t \in Tables, KeptSafe(x, t) PROVE KeptSafe(x, t)'
    <3>1. PICK s \in Seqs : slotDisk[t][s] = {x} /\ Below(t, s) /\ \A h \in headDisk[t] : s <= h.seq
      BY <2>2 DEF KeptSafe
    <3>2. \A h \in headDisk'[t] : s <= h.seq
      BY <2>1, <3>1
    <3>3. QED
      BY <1>1, <3>1, <3>2 DEF KeptSafe, Below, TablesOf, Base
  <2>3. \A x \in acked : DOMAIN entries[x] \subseteq Tables
    BY <1>2, TypeParts, BasesType DEF JournalTypes, AuxTypes
  <2>4. QED
    BY <1>1, <1>2, <2>1, <2>2, <2>3 DEF AckInv
<1>8. AloneInv'
  BY <1>1, <1>2 DEF AloneInv, TablesOf, Base, Unwritten
<1>9. QED
  BY <1>3, <1>4, <1>5, <1>6, <1>7, <1>8 DEF IInv

(* A power loss leaves of every acknowledged commit what was on disk. *)
LEMMA PowerLossKeeps == ASSUME IInv, TypeOK', PowerLoss PROVE IInv'
<1>1. /\ UNCHANGED <<setting, entries, lastId, acked, refused>> /\ meta' = NoOne
      /\ \A t \in Tables : lock'[t] = NoOne
      /\ \A k \in Tasks : phase'[k] = "idle" /\ call'[k] = NoCall /\ todo'[k] = {}
      /\ \A p \in Procs : db'[p] = "closed" /\ queue'[p] = {} /\ left'[p] = {}
  BY DEF PowerLoss
<1>2. TypeOK /\ IdInv /\ AckInv /\ AloneInv
  BY DEF IInv
<1>3. /\ \A t \in Tables : head'[t] \in headDisk[t] /\ headDisk'[t] = {head'[t]}
      /\ \A t \in Tables : \A s \in Seqs :
            slot'[t][s] \in slotDisk[t][s] /\ slotDisk'[t][s] = {slot'[t][s]}
      /\ \A x \in Ids : journal'[x] \in journalDisk[x] /\ journalDisk'[x] = {journal'[x]}
  BY <1>2, AfterPowerLoss
<1>4. \A x : Unwritten(x) => \A t \in Tables : \A s \in Seqs : x \notin slotDisk'[t][s] /\ slot'[t][s] # x
  BY <1>3 DEF Unwritten
<1>5. NoOne \notin Tasks /\ NoOne \notin Procs
  BY ConstantsAssumption
<1>6. IdInv'
  <2>1. \A k \in Tasks : IdOK(k)'
    BY <1>1 DEF IdOK
  <2>2. \A x \in Ids : ~Seen(x) =>
           journal'[x] = "none" /\ journalDisk'[x] = {"none"} /\ \A p \in Procs : x \notin queue'[p]
    BY <1>1, <1>3 DEF Seen
  <2>3. QED
    BY <1>1, <1>2, <1>4, <2>1, <2>2 DEF IdInv, Unwritten, Seen
<1>7. LockInv'
  BY <1>1, <1>5 DEF LockInv, Active
<1>8. ProgressInv'
  BY <1>1, <1>5, IdleProgress DEF ProgressInv
<1>9. RecoverInv'
  BY <1>1 DEF RecoverInv, RecoverOK
<1>10. AckInv'
  <2>1. ASSUME NEW x, NEW t \in Tables, KeptSafe(x, t) PROVE KeptSafe(x, t)'
    <3>1. PICK s \in Seqs : slotDisk[t][s] = {x} /\ \A h \in headDisk[t] : s <= h.seq
      BY <2>1 DEF KeptSafe
    <3>2. slotDisk'[t][s] = {x} /\ \A h \in headDisk'[t] : s <= h.seq
      BY <1>3, <3>1
    <3>3. QED
      BY <1>1, <1>5, <3>2 DEF KeptSafe, Below
  <2>2. \A x \in acked : DOMAIN entries[x] \subseteq Tables
    BY <1>2, TypeParts, BasesType DEF JournalTypes, AuxTypes
  <2>3. \A t \in Tables : head'[t] \in headDisk'[t]
    BY <1>3
  <2>4. QED
    BY <1>1, <1>2, <2>1, <2>2, <2>3 DEF AckInv
<1>11. AloneInv'
  BY <1>1, <1>2, <1>4 DEF AloneInv, Unwritten
<1>12. QED
  BY <1>6, <1>7, <1>8, <1>9, <1>10, <1>11 DEF IInv

-----------------------------------------------------------------------------
(***************************************************************************)
(* The theorems.                                                           *)
(***************************************************************************)

(* The invariant holds at first. *)
LEMMA InitInvariant == Init => IInv
<1> SUFFICES ASSUME Init PROVE IInv
  OBVIOUS
<1>1. TypeOK
  BY InitType
<1>2. /\ \A k \in Tasks : phase[k] = "idle" /\ call[k] = NoCall /\ todo[k] = {}
      /\ \A p \in Procs : db[p] = "closed" /\ queue[p] = {} /\ left[p] = {}
      /\ \A t \in Tables : lock[t] = NoOne /\ headDisk[t] = {head[t]}
      /\ \A t \in Tables : \A s \in Seqs : slot[t][s] \in {0, NoOne} /\ slotDisk[t][s] = {slot[t][s]}
      /\ \A x \in Ids : journal[x] = "none" /\ journalDisk[x] = {"none"} /\ entries[x] = NoCall.base
      /\ meta = NoOne /\ acked = {} /\ refused = {}
  BY DEF Init
<1>3. NoOne \notin Tasks /\ NoOne \notin Procs /\ NoOne \notin Nat /\ Ids \subseteq Nat /\ 0 \notin Ids
  BY ConstantsAssumption DEF Ids
<1>4. IdInv
  <2>1. \A k \in Tasks : IdOK(k)
    BY <1>2 DEF IdOK
  <2>2. \A x \in Ids : Unwritten(x) /\ ~Seen(x) /\ DOMAIN entries[x] = {}
    BY <1>2, <1>3, Zeros DEF Unwritten, Seen
  <2>3. QED
    BY <1>2, <2>1, <2>2 DEF IdInv
<1>5. LockInv
  BY <1>2, <1>3 DEF LockInv, Active
<1>6. ProgressInv
  BY <1>2, <1>3 DEF ProgressInv, ProgressOK, Journaled, TablesOf
<1>7. RecoverInv
  BY <1>2 DEF RecoverInv, RecoverOK
<1>8. AckInv /\ AloneInv
  BY <1>2 DEF AckInv, AloneInv
<1>9. QED
  BY <1>1, <1>4, <1>5, <1>6, <1>7, <1>8 DEF IInv

(* Every step keeps the invariant. *)
LEMMA StepKeeps == IInv /\ [Next]_vars => IInv'
<1> SUFFICES ASSUME IInv, [Next]_vars PROVE IInv'
  OBVIOUS
<1>1. TypeOK /\ IdInv /\ ProgressInv /\ RecoverInv
  BY DEF IInv
<1>2. ASSUME NEW k \in Tasks, Stage(k) \/ TaskStep(k) \/ IoError(k) PROVE IInv'
  <2>1. TypeOK'
    BY <1>1, <1>2, TaskType
  <2>2. QED
    BY <1>2, <2>1, StageKeeps, IoErrorKeeps, TimeoutKeeps, EnterKeeps, PublishKeeps, HardenKeeps,
       ValidateKeeps, PutManifestsKeeps, SyncManifestsKeeps, PutJournalKeeps, SyncJournalKeeps,
       LockTableKeeps, SwapHeadKeeps, SyncHeadKeeps, FinishKeeps
    DEF TaskStep
<1>3. ASSUME NEW p \in Procs, Open(p) \/ ProcStep(p) \/ Crash(p) PROVE IInv'
  <2>1. TypeOK'
    BY <1>1, <1>3, ProcType
  <2>2. QED
    BY <1>3, <2>1, OpenKeeps, ReadJournalKeeps, RecoverReadKeeps, RecoverSwapKeeps, RecoverSyncKeeps,
       CrashKeeps
    DEF ProcStep
<1>4. CASE Flush \/ PowerLoss
  <2>1. TypeOK'
    BY <1>1, <1>4, PowerType
  <2>2. QED
    BY <1>4, <2>1, FlushKeeps, PowerLossKeeps
<1>5. CASE UNCHANGED vars
  <2>1. UNCHANGED <<setting, head, headDisk, slot, slotDisk, journal, journalDisk, entries, meta, lock,
                    phase, call, todo, db, queue, left, seen, lastId, acked, refused, crashes,
                    powerLosses>>
    BY <1>5 DEF vars, diskVars, journalVars, lockVars, taskVars, procVars, auxVars, boundVars
  <2>2. TypeOK' /\ LockInv'
    BY <2>1 DEF IInv, TypeOK, LockInv, Active
  <2>3. IdInv'
    BY <2>1 DEF IInv, IdInv, IdOK, Unwritten, Seen, TablesOf, Base
  <2>4. ProgressInv'
    <3>1. \A k \in Tasks : ProgressOK(k) /\ DOMAIN call[k].base \subseteq Tables
      BY <1>1, TypeParts, CallFields DEF ProgressInv, TablesOf
    <3>2. QED
      BY <2>1, <3>1, SameProgress DEF ProgressInv
  <2>5. RecoverInv'
    BY <2>1 DEF IInv, RecoverInv, RecoverOK, First
  <2>6. AckInv'
    BY <2>1, AckSame DEF IInv
  <2>7. AloneInv'
    BY <2>1 DEF IInv, AloneInv, TablesOf, Base, Unwritten
  <2>8. QED
    BY <2>2, <2>3, <2>4, <2>5, <2>6, <2>7 DEF IInv
<1>6. QED
  BY <1>2, <1>3, <1>4, <1>5 DEF Next

(* The invariant holds in every behaviour: any tables, calls, processes,   *)
(* number of commits, crashes and power losses.                            *)
THEOREM InvariantHolds == Spec => []IInv
BY InitInvariant, StepKeeps, PTL DEF Spec

(* Every file, lock and call keeps its type.                               *)
THEOREM TypeCorrect == Spec => []TypeOK
<1>1. IInv => TypeOK
  BY DEF IInv
<1>2. QED
  BY <1>1, InvariantHolds, PTL

(* The answers callers get are true: an acknowledged commit is in the      *)
(* manifests and below the HEADs of all its tables whatever a power loss   *)
(* leaves and whichever processes recover at whatever moment, and with one *)
(* process at a time a commit refused with VersionConflict or LockTimeout  *)
(* is not applied, then or later (commit_staged_transaction, recover).     *)
THEOREM AnswersHold == Spec => []AnswersTrue
<1>1. IInv => AnswersTrue
  <2> SUFFICES ASSUME IInv PROVE AnswersTrue
    OBVIOUS
  <2>1. TypeOK /\ AckInv /\ AloneInv
    BY DEF IInv
  <2>2. AckedApplied
    BY <2>1 DEF AckInv, AckedApplied, KeptSafe, Safe
  <2>3. ASSUME setting.alone PROVE RefusedUnapplied
    <3>1. \A t \in Tables : \A s \in 1..head[t].seq : s \in Seqs
      <4>1. \A t \in Tables : head[t].seq \in Seqs
        BY <2>1, TypeParts DEF DiskTypes, Heads
      <4>2. QED
        BY <4>1, ConstantsAssumption DEF Seqs
    <3>2. \A x \in refused : Unwritten(x)
      BY <2>1, <2>3 DEF AloneInv
    <3>3. QED
      BY <3>1, <3>2 DEF RefusedUnapplied, Applied, Unwritten
  <2>4. QED
    BY <2>2, <2>3 DEF AnswersTrue
<1>2. QED
  BY <1>1, InvariantHolds, PTL
-----------------------------------------------------------------------------
(***************************************************************************)
(* The refinement of AtomicTables, for one process at a time.  AtomInv     *)
(* says what decides which commits a power loss takes back; every step     *)
(* keeps it, and is one of Stutters, Answers, Commits and Loses, which are *)
(* the steps of AtomicTables and its stuttering.                           *)
(***************************************************************************)
(* Versions are numbers. *)
VersionsOK ==
    /\ \A t \in Tables : /\ head[t].seq \in Nat /\ head[t].seq \in Seqs
                         /\ \A h \in headDisk[t] : h.seq \in Nat
    /\ \A x \in Ids : /\ DOMAIN entries[x] \subseteq Tables
                      /\ \A t \in DOMAIN entries[x] :
                            entries[x][t].seq \in Nat /\ entries[x][t].seq \in Seqs

(* Every HEAD, visible or on disk, and every journal entry has a version. *)
LEMMA Versions == TypeOK => VersionsOK
<1> SUFFICES ASSUME TypeOK PROVE VersionsOK
  OBVIOUS
<1>1. DiskTypes /\ JournalTypes
  BY TypeParts
<1>2. Seqs \subseteq Nat
  BY ConstantsAssumption DEF Seqs
<1>3. \A h \in Heads : h.seq \in Nat /\ h.seq \in Seqs
  BY <1>2 DEF Heads
<1>4. \A t \in Tables : head[t] \in Heads /\ headDisk[t] \subseteq Heads
  BY <1>1 DEF DiskTypes
<1>5. \A x \in Ids : DOMAIN entries[x] \subseteq Tables /\ entries[x] \in [DOMAIN entries[x] -> Heads]
  BY <1>1, BasesType DEF JournalTypes
<1>6. QED
  BY <1>3, <1>4, <1>5 DEF VersionsOK

(* The same after a step. *)
LEMMA VersionsNext == TypeOK' => VersionsOK'
BY Versions, PTL

(* The top of a table's log is the entry of the live journal if that      *)
(* lists the table, and its HEAD otherwise.                                *)
TopsOK ==
    \A t \in Tables :
       /\ Top(t) \in Nat /\ Top(t) \in Seqs /\ head[t].seq <= Top(t)
       /\ \A x \in Ids : Live(x) /\ t \in DOMAIN entries[x] => Top(t) = entries[x][t].seq
       /\ (\A x \in Ids : Live(x) => t \notin DOMAIN entries[x]) => Top(t) = head[t].seq

(* With at most one live journal, no other can be pending. *)
LEMMA TopIs == TypeOK /\ AckInv /\ StoreInv /\ LiveInv => TopsOK
<1> SUFFICES ASSUME TypeOK, AckInv, StoreInv, LiveInv, NEW t \in Tables
             PROVE  /\ Top(t) \in Nat /\ Top(t) \in Seqs /\ head[t].seq <= Top(t)
                    /\ \A x \in Ids : Live(x) /\ t \in DOMAIN entries[x] => Top(t) = entries[x][t].seq
                    /\ (\A x \in Ids : Live(x) => t \notin DOMAIN entries[x]) => Top(t) = head[t].seq
  BY DEF TopsOK
<1>1. /\ head[t].seq \in Nat /\ head[t].seq \in Seqs /\ head[t] \in headDisk[t]
      /\ \A x \in Ids : t \in DOMAIN entries[x] =>
            entries[x][t].seq \in Nat /\ entries[x][t].seq \in Seqs
  BY Versions DEF VersionsOK, AckInv
<1>2. \A x \in Pending(t) : x \in Ids /\ Live(x) /\ t \in DOMAIN entries[x] /\ entries[x][t].seq > head[t].seq
  BY <1>1 DEF Pending, Live, Done
<1>3. ASSUME NEW x \in Ids, Live(x), t \in DOMAIN entries[x], x \notin Pending(t)
      PROVE  entries[x][t].seq = head[t].seq
  <2>1. LiveOK(x)
    BY <1>3 DEF LiveInv
  <2>2. journal[x] = "whole" /\ head[t].seq <= entries[x][t].seq
    BY <1>1, <1>3, <2>1 DEF LiveOK
  <2>3. ~(entries[x][t].seq > head[t].seq)
    BY <1>3, <2>2 DEF Pending
  <2>4. QED
    BY <1>1, <1>3, <2>2, <2>3
<1>4. CASE Pending(t) = {}
  BY <1>1, <1>3, <1>4 DEF Top
<1>5. CASE Pending(t) # {}
  <2> DEFINE y == First(Pending(t))
  <2>1. y \in Pending(t)
    BY <1>2, <1>5, FirstIn
  <2>2. Top(t) = entries[y][t].seq
    BY <1>5 DEF Top
  <2> HIDE DEF y
  <2>3. \A x \in Ids : Live(x) => x = y
    BY <1>2, <2>1 DEF LiveInv
  <2>4. QED
    BY <1>1, <1>2, <2>1, <2>2, <2>3
<1>6. QED
  BY <1>4, <1>5

(* The same after a step. *)
LEMMA TopNext == TypeOK' /\ AckInv' /\ StoreInv' /\ LiveInv' => TopsOK'
BY TopIs, PTL

-----------------------------------------------------------------------------
(* What a step that commits nothing does to the files: manifests change    *)
(* above the log, HEADs move to the entries of the live journal, and only  *)
(* a journal that is done is deleted.                                      *)
SlotsKept ==
    \A t \in Tables : \A s \in Seqs :
       /\ slot'[t][s] \in slotDisk'[t][s]
       /\ s <= Top(t) => slot'[t][s] = slot[t][s] /\ slotDisk'[t][s] = slotDisk[t][s]
HeadsKept ==
    \A t \in Tables :
       \/ head'[t] = head[t] /\ headDisk'[t] \subseteq headDisk[t]
       \/ /\ headDisk'[t] = headDisk[t] \cup {head'[t]}
          /\ \E x \in Ids : /\ Live(x) /\ journalDisk[x] = {"whole"}
                            /\ t \in DOMAIN entries[x] /\ head'[t] = entries[x][t]
JournalsKept ==
    \A x \in Ids :
       \/ Done(x)'
       \/ journal'[x] = journal[x] /\ journalDisk'[x] \in {journalDisk[x], {journal[x]}}
FilesKept ==
    /\ setting' = setting /\ entries' = entries /\ lastId' \in {lastId, lastId + 1}
    /\ SlotsKept /\ HeadsKept /\ JournalsKept

LogParts == StoreInv /\ LiveInv /\ LogInv
LogSame ==
    \A t \in Tables : Top(t)' = Top(t) /\ \A s \in 1..Top(t) : slot'[t][s] = slot[t][s]

(* No journal becomes live, and one that is no longer live is done. *)
LEMMA LiveKept ==
    ASSUME IInv, StoreInv, LiveInv, TypeOK', FilesKept, NEW x \in Ids
    PROVE  /\ Live(x)' => Live(x)
           /\ Done(x) => Done(x)'
           /\ Live(x) => Live(x)' \/ Done(x)'
<1>1. /\ TypeOK /\ AckInv /\ entries' = entries /\ HeadsKept /\ JournalsKept
  BY DEF IInv, FilesKept
<1>2. \A t \in Tables : head[t].seq \in Nat /\ head[t] \in headDisk[t] /\ \A h \in headDisk[t] : h.seq \in Nat
  BY <1>1, Versions DEF VersionsOK, AckInv
<1>3. \A y \in Ids : /\ DOMAIN entries[y] \subseteq Tables
                     /\ \A t \in DOMAIN entries[y] : entries[y][t].seq \in Nat
  BY <1>1, Versions DEF VersionsOK
<1>4. ASSUME Done(x) PROVE Done(x)'
  <2> SUFFICES ASSUME NEW t \in DOMAIN entries[x], NEW h \in headDisk'[t]
               PROVE  h.seq >= entries[x][t].seq
    BY <1>1 DEF Done
  <2>1. t \in Tables /\ \A g \in headDisk[t] : g.seq >= entries[x][t].seq
    BY <1>3, <1>4 DEF Done
  <2>2. CASE h \in headDisk[t]
    BY <2>1, <2>2
  <2>3. CASE h \notin headDisk[t]
    <3>1. PICK y \in Ids : Live(y) /\ t \in DOMAIN entries[y] /\ h = entries[y][t]
      BY <1>1, <2>1, <2>3 DEF HeadsKept
    <3>2. head[t].seq <= h.seq
      BY <1>2, <2>1, <3>1 DEF LiveInv, LiveOK
    <3>3. head[t].seq >= entries[x][t].seq /\ h.seq \in Nat
      BY <1>2, <1>3, <2>1, <3>1
    <3>4. QED
      BY <1>2, <1>3, <2>1, <3>2, <3>3
  <2>4. QED
    BY <2>2, <2>3
<1>5. ASSUME ~Done(x)' PROVE ("whole" \in journalDisk'[x] \cup {journal'[x]}) => "whole" \in journalDisk[x] \cup {journal[x]}
  BY <1>1, <1>5 DEF JournalsKept
<1>6. Live(x)' => Live(x)
  BY <1>4, <1>5 DEF Live
<1>7. ASSUME Live(x), ~Done(x)' PROVE Live(x)'
  <2>1. journal[x] = "whole"
    BY <1>7 DEF LiveInv, LiveOK
  <2>2. journal'[x] = "whole"
    BY <1>1, <1>7, <2>1 DEF JournalsKept
  <2>3. QED
    BY <1>7, <2>2 DEF Live
<1>8. QED
  BY <1>4, <1>6, <1>7

(* A slot of the log after a step. *)
LEMMA LogOKNext ==
    ASSUME NEW t, NEW s, NEW x, slot'[t][s] = x, x \in 1..lastId', slotDisk'[t][s] = {x},
           DOMAIN entries'[x] # {} =>
              t \in DOMAIN entries'[x] /\ entries'[x][t].seq = s /\ (Live(x)' \/ Done(x)'),
           DOMAIN entries'[x] = {} => \A u \in Tables \ {t} : ~Logged(x, u)'
    PROVE  LogOK(t, s)'
BY DEF LogOK, Live, Done, Logged

(* Such a step leaves the logs as they are. *)
LEMMA FilesKeep ==
    ASSUME IInv, LogParts, TypeOK', AckInv', FilesKept,
           \A x \in Ids : Live(x)' => \A p \in Procs : Completing(p, x)'
    PROVE  /\ LogParts' /\ commits' = commits
           /\ LogSame
<1>1. /\ TypeOK /\ AckInv /\ StoreInv /\ LiveInv /\ LogInv
      /\ setting' = setting /\ entries' = entries /\ lastId' \in {lastId, lastId + 1}
      /\ SlotsKept /\ HeadsKept /\ JournalsKept
  BY DEF IInv, FilesKept, LogParts
<1>2. \A x \in Ids : (Live(x)' => Live(x)) /\ (Done(x) => Done(x)') /\ (Live(x) => Live(x)' \/ Done(x)')
  BY <1>1, LiveKept
<1>3. /\ \A t \in Tables : /\ head[t].seq \in Nat /\ head[t] \in headDisk[t] /\ Top(t) \in Nat
                            /\ \A h \in headDisk[t] : h.seq \in Nat
                            /\ 0 <= Top(t) /\ \A s \in 1..Top(t) : s \in Seqs /\ s <= Top(t)
      /\ \A x \in Ids : /\ DOMAIN entries[x] \subseteq Tables
                        /\ \A t \in DOMAIN entries[x] : entries[x][t].seq \in Nat /\ entries[x][t].seq \in Seqs
  <2>1. \A t \in Tables : Top(t) \in Nat /\ Top(t) \in Seqs
    BY <1>1, TopIs DEF TopsOK
  <2>2. \A t \in Tables : 0 <= Top(t) /\ \A s \in 1..Top(t) : s \in Seqs /\ s <= Top(t)
    BY <2>1, ConstantsAssumption DEF Seqs
  <2>3. QED
    BY <1>1, <2>1, <2>2, Versions DEF VersionsOK, AckInv
<1>4. \A t \in Tables : head'[t].seq \in Nat /\ head'[t] \in headDisk'[t]
  BY VersionsNext DEF VersionsOK, AckInv
<1>5. StoreInv'
  <2>1. ASSUME NEW t \in Tables PROVE \A h \in headDisk'[t] : h.seq <= head'[t].seq
    <3>1. \A h \in headDisk[t] : h.seq <= head[t].seq
      BY <1>1 DEF StoreInv
    <3>2. CASE head'[t] = head[t] /\ headDisk'[t] \subseteq headDisk[t]
      BY <3>1, <3>2
    <3>3. ASSUME headDisk'[t] = headDisk[t] \cup {head'[t]}, NEW x \in Ids, Live(x),
                 t \in DOMAIN entries[x], head'[t] = entries[x][t]
          PROVE  \A h \in headDisk'[t] : h.seq <= head'[t].seq
      <4>1. \A h \in headDisk[t] : h.seq <= head'[t].seq
        BY <1>1, <3>3 DEF LiveInv, LiveOK
      <4>2. QED
        BY <1>4, <3>3, <4>1
    <3>4. QED
      BY <1>1, <3>2, <3>3 DEF HeadsKept
  <2>2. ASSUME NEW t \in Tables PROVE slot'[t][0] = 0 /\ slotDisk'[t][0] = {0}
    <3>1. 0 \in Seqs /\ 0 <= Top(t)
      BY <1>3, Zeros
    <3>2. slot[t][0] = 0 /\ slotDisk[t][0] = {0}
      BY <1>1 DEF StoreInv
    <3>3. QED
      BY <1>1, <3>1, <3>2 DEF SlotsKept
  <2>3. QED
    BY <1>1, <2>1, <2>2 DEF StoreInv, SlotsKept
<1>6. LiveInv'
  <2>1. ASSUME NEW x \in Ids, Live(x)' PROVE LiveOK(x)'
    <3>1. Live(x) /\ LiveOK(x) /\ ~Done(x)'
      BY <1>1, <1>2, <2>1 DEF LiveInv, Live
    <3>2. journal'[x] = "whole" /\ journalDisk'[x] \in {journalDisk[x], {"whole"}}
      BY <1>1, <3>1 DEF JournalsKept, LiveOK
    <3>3. ASSUME NEW t \in DOMAIN entries[x] PROVE slotDisk'[t][entries[x][t].seq] = {x}
      <4>1. Top(t) = entries[x][t].seq /\ t \in Tables
        BY <1>1, <1>3, <3>1, TopIs DEF TopsOK
      <4>2. entries[x][t].seq \in Seqs /\ slotDisk[t][entries[x][t].seq] = {x}
        BY <1>3, <3>1 DEF LiveOK
      <4>3. entries[x][t].seq \in Nat /\ entries[x][t].seq <= Top(t)
        BY <1>3, <4>1
      <4>4. slotDisk'[t][entries[x][t].seq] = slotDisk[t][entries[x][t].seq]
        BY <1>1, <4>1, <4>2, <4>3 DEF SlotsKept
      <4>5. QED
        BY <4>2, <4>4
    <3>4. ASSUME NEW t \in DOMAIN entries[x], NEW h \in headDisk'[t]
          PROVE  /\ h.seq <= entries[x][t].seq
                 /\ journalDisk'[x] # {"whole"} => h.seq < entries[x][t].seq
      <4>1. t \in Tables
        BY <1>3
      <4>2. CASE h \in headDisk[t]
        BY <3>1, <3>2, <4>2 DEF LiveOK
      <4>3. CASE h \notin headDisk[t]
        <5>1. PICK y \in Ids : Live(y) /\ journalDisk[y] = {"whole"} /\ h = entries[y][t]
          BY <1>1, <4>1, <4>3 DEF HeadsKept
        <5>2. y = x
          BY <1>1, <3>1, <5>1 DEF LiveInv
        <5>3. QED
          BY <1>3, <3>2, <5>1, <5>2
      <4>4. QED
        BY <4>2, <4>3
    <3>5. QED
      BY <1>1, <2>1, <3>2, <3>3, <3>4 DEF LiveOK
  <2>2. QED
    BY <1>1, <1>2, <2>1 DEF LiveInv
<1>7. ASSUME NEW t \in Tables PROVE Top(t)' = Top(t)
  <2>1. /\ \A x \in Ids : Live(x) /\ t \in DOMAIN entries[x] => Top(t) = entries[x][t].seq
        /\ (\A x \in Ids : Live(x) => t \notin DOMAIN entries[x]) => Top(t) = head[t].seq
    BY <1>1, TopIs DEF TopsOK
  <2>2. /\ \A x \in Ids : Live(x)' /\ t \in DOMAIN entries[x] => Top(t)' = entries[x][t].seq
        /\ (\A x \in Ids : Live(x)' => t \notin DOMAIN entries[x]) => Top(t)' = head'[t].seq
    BY <1>1, <1>5, <1>6, TopNext DEF TopsOK
  <2>3. CASE \A x \in Ids : Live(x) => t \notin DOMAIN entries[x]
    <3>1. head'[t] = head[t]
      BY <1>1, <2>3 DEF HeadsKept
    <3>2. QED
      BY <1>2, <2>1, <2>2, <2>3, <3>1
  <2>4. ASSUME NEW x \in Ids, Live(x), t \in DOMAIN entries[x] PROVE Top(t)' = Top(t)
    <3>1. CASE Live(x)'
      BY <2>1, <2>2, <2>4, <3>1
    <3>2. CASE Done(x)' /\ ~Live(x)'
      <4>1. \A y \in Ids : ~Live(y)'
        BY <1>1, <1>2, <2>4, <3>2 DEF LiveInv
      <4>2. Top(t)' = head'[t].seq
        BY <2>2, <4>1
      <4>3. head'[t].seq >= entries[x][t].seq
        BY <1>1, <1>4, <2>4, <3>2 DEF Done
      <4>4. head'[t].seq <= entries[x][t].seq
        <5>1. head[t].seq <= entries[x][t].seq
          BY <1>1, <1>3, <2>4 DEF LiveInv, LiveOK
        <5>2. CASE head'[t] = head[t]
          BY <5>1, <5>2
        <5>3. ASSUME NEW y \in Ids, Live(y), head'[t] = entries[y][t] PROVE head'[t] = entries[x][t]
          BY <1>1, <2>4, <5>3 DEF LiveInv
        <5>4. QED
          BY <1>1, <1>3, <2>4, <5>2, <5>3 DEF HeadsKept
      <4>5. QED
        BY <1>3, <1>4, <2>1, <2>4, <4>2, <4>3, <4>4
    <3>3. QED
      BY <1>2, <2>4, <3>1, <3>2
  <2>5. QED
    BY <2>3, <2>4
<1>8. ASSUME NEW t \in Tables, NEW s \in 1..Top(t)
      PROVE  slot'[t][s] = slot[t][s] /\ slotDisk'[t][s] = slotDisk[t][s]
  BY <1>1, <1>3 DEF SlotsKept
<1>9. \A x : \A t \in Tables : Logged(x, t)' <=> Logged(x, t)
  BY <1>7, <1>8 DEF Logged
<1>10. commits' = commits
  BY <1>1, <1>7, <1>8 DEF commits
<1>11. LogInv'
  <2> SUFFICES ASSUME NEW t \in Tables, NEW s \in 1..Top(t) PROVE LogOK(t, s)'
    BY <1>7 DEF LogInv
  <2>1. LogOK(t, s)
    BY <1>1 DEF LogInv
  <2>2. lastId \in Nat /\ 1..lastId \subseteq Ids
    BY <1>1, TypeParts, ConstantsAssumption DEF AuxTypes, Ids
  <2>3. PICK x \in Ids : x = slot[t][s]
    BY <2>1, <2>2 DEF LogOK
  <2>4. x \in 1..lastId /\ x \in 1..lastId' /\ slotDisk[t][s] = {x}
    BY <1>1, <2>1, <2>2, <2>3 DEF LogOK
  <2>5. slot'[t][s] = x /\ slotDisk'[t][s] = {x}
    BY <1>8, <2>3, <2>4
  <2>6. DOMAIN entries[x] # {} =>
           t \in DOMAIN entries[x] /\ entries[x][t].seq = s /\ (Live(x) \/ Done(x))
    BY <2>1, <2>3 DEF LogOK
  <2>7. DOMAIN entries[x] = {} => \A u \in Tables \ {t} : ~Logged(x, u)
    BY <2>1, <2>3 DEF LogOK
  <2>8. DOMAIN entries[x] # {} => Live(x)' \/ Done(x)'
    BY <1>2, <2>6
  <2>9. DOMAIN entries[x] = {} => \A u \in Tables \ {t} : ~Logged(x, u)'
    BY <1>9, <2>7
  <2>10. QED
    BY <1>1, <2>4, <2>5, <2>6, <2>8, <2>9, LogOKNext
<1>12. QED
  BY <1>5, <1>6, <1>7, <1>8, <1>10, <1>11 DEF LogParts, LogSame
-----------------------------------------------------------------------------
(* With one process at a time, nobody recovers while a call is running. *)
LEMMA NoScan ==
    ASSUME IInv, setting.alone, NEW k \in Tasks, db[setting.procOf[k]] = "open"
    PROVE  \A p \in Procs : db[p] \in {"closed", "open"}
<1>1. setting.procOf[k] \in Procs
  BY TypeParts, ConstantsAssumption DEF IInv, SettingTypes
<1>2. QED
  BY <1>1 DEF IInv, AloneInv

(* ... and no call runs, nor is another process open, while one recovers. *)
LEMMA ScanAlone ==
    ASSUME IInv, setting.alone, NEW p \in Procs, db[p] \notin {"closed", "open"}
    PROVE  /\ \A k \in Tasks : phase[k] = "idle"
           /\ \A q \in Procs : q # p => db[q] = "closed"
<1>1. \A q \in Procs : q # p => db[q] = "closed"
  BY DEF IInv, AloneInv
<1>2. ASSUME NEW k \in Tasks PROVE phase[k] = "idle"
  <2>1. setting.procOf[k] \in Procs
    BY TypeParts, ConstantsAssumption DEF IInv, SettingTypes
  <2>2. phase[k] # "idle" => db[setting.procOf[k]] = "open"
    BY DEF IInv, IdInv, IdOK
  <2>3. QED
    BY <1>1, <2>1, <2>2
<1>3. QED
  BY <1>1, <1>2

(* A call that is over, and one before its commit point. *)
LEMMA IdleCall == ASSUME NEW k, phase'[k] = "idle" PROVE CallOK(k)'
BY DEF CallOK, Journaled

Early == {"staged", "put", "sync", "journal", "publish"}

(* A call that is not yet committed stays out of the logs. *)
LEMMA EarlyCall ==
    ASSUME LogSame, NEW k, call'[k] = call[k], phase'[k] \in Early, phase'[k] # "publish",
           \A t \in Tables : ~Logged(call[k].id, t)
    PROVE  CallOK(k)'
BY DEF CallOK, Journaled, Early, Logged, LogSame

(* A call that did not step. *)
LEMMA SameCall ==
    ASSUME LogSame, TaskTypes, NEW k \in Tasks, CallOK(k), UNCHANGED <<diskVars, journalVars>>,
           phase'[k] = phase[k], call'[k] = call[k], todo'[k] = todo[k]
    PROVE  CallOK(k)'
<1>1. UNCHANGED <<head, slot, journal, journalDisk, entries>>
  BY DEF diskVars, journalVars
<1>2. QED
  BY <1>1 DEF CallOK, Logged, LogSame, TablesOf, Base, NewHead, PutOK, NewSeq

(* A step of a call that commits nothing, once what it says of the call    *)
(* itself is known to be right.                                            *)
LEMMA CallKeeps ==
    ASSUME IInv, IInv', setting.alone, AtomInv, NEW k \in Tasks, db[setting.procOf[k]] = "open",
           Frame(k), FilesKept, meta = k \/ meta' = k \/ UNCHANGED <<diskVars, journalVars>>,
           \/ phase[k] \notin Journaled
           \/ phase'[k] \in Journaled /\ call'[k] = call[k]
           \/ \A x \in Ids : x = call[k].id => Done(x)',
           LogSame => CallOK(k)'
    PROVE  AtomInv' /\ commits' = commits
<1>1. /\ StoreInv /\ LiveInv /\ LogInv /\ CallInv /\ LogParts /\ TypeOK' /\ AckInv'
      /\ UNCHANGED <<setting, db, queue, left, seen>>
      /\ \A j \in Tasks \ {k} : phase'[j] = phase[j] /\ call'[j] = call[j] /\ todo'[j] = todo[j]
  BY DEF AtomInv, LogParts, IInv, Frame
<1>2. \A p \in Procs : db[p] \in {"closed", "open"}
  BY NoScan
<1>3. ASSUME NEW x \in Ids, Live(x)', NEW p \in Procs PROVE Completing(p, x)'
  <2>1. Live(x) /\ ~Done(x)'
    BY <1>1, <1>3, LiveKept DEF Live
  <2>2. CASE db[p] = "closed"
    BY <1>1, <2>2 DEF Completing
  <2>3. CASE db[p] = "open"
    <3>1. PICK j \in Tasks : phase[j] \in Journaled /\ call[j].id = x
      BY <1>1, <2>1, <2>3 DEF LiveInv, LiveOK, Completing
    <3>2. phase'[j] \in Journaled /\ call'[j].id = x
      BY <1>1, <2>1, <3>1
    <3>3. QED
      BY <1>1, <2>3, <3>2 DEF Completing
  <2>4. QED
    BY <1>2, <2>2, <2>3
<1>4. LogParts' /\ commits' = commits /\ LogSame
  BY <1>1, <1>3, FilesKeep
<1>5. CallInv'
  <2>1. ASSUME NEW j \in Tasks, j # k PROVE CallOK(j)'
    <3>1. CallOK(j) /\ TaskTypes /\ LockInv /\ LockInv'
      BY <1>1, TypeParts DEF CallInv, IInv
    <3>2. CASE UNCHANGED <<diskVars, journalVars>>
      BY <1>1, <1>4, <2>1, <3>1, <3>2, SameCall
    <3>3. CASE meta = k \/ meta' = k
      <4>1. phase'[j] \in {"idle", "staged"}
        BY <1>1, <2>1, <3>1, <3>3 DEF LockInv, Active
      <4>2. CASE phase'[j] = "idle"
        BY <4>2, IdleCall
      <4>3. CASE phase'[j] = "staged"
        <5>1. \A t \in Tables : ~Logged(call[j].id, t)
          BY <1>1, <2>1, <3>1, <4>3 DEF CallOK
        <5>2. QED
          BY <1>1, <1>4, <2>1, <4>3, <5>1, EarlyCall DEF Early
      <4>4. QED
        BY <4>1, <4>2, <4>3
    <3>4. QED
      BY <3>2, <3>3
  <2>2. QED
    BY <1>4, <2>1 DEF CallInv
<1>6. ScanInv'
  BY <1>1, <1>2 DEF ScanInv
<1>7. QED
  BY <1>4, <1>5, <1>6 DEF LogParts, AtomInv
-----------------------------------------------------------------------------
(* What a step is in AtomicTables: nothing, an answer or a commit. *)
Stutters == commits' = commits /\ acked' = acked /\ setting' = setting
Answers(x) ==
    /\ commits' = commits /\ acked' = acked \cup {x} /\ setting' = setting
    /\ \E t \in Tables : Logged(x, t)

(* Files untouched. *)
LEMMA SlotsSame == ASSUME StoreInv, UNCHANGED <<slot, slotDisk>> PROVE SlotsKept
BY DEF StoreInv, SlotsKept

(* A step that touches no file keeps them all. *)
LEMMA FilesSame ==
    ASSUME StoreInv, UNCHANGED <<setting, diskVars, journalVars>>, lastId' \in {lastId, lastId + 1}
    PROVE  FilesKept
<1>1. UNCHANGED <<head, headDisk, slot, slotDisk, journal, journalDisk, entries>>
  BY DEF diskVars, journalVars
<1>2. QED
  BY <1>1, SlotsSame DEF FilesKept, HeadsKept, JournalsKept

(* The process of a call is open. *)
LEMMA CallerOpen ==
    ASSUME IInv, NEW k \in Tasks, phase[k] # "idle" PROVE db[setting.procOf[k]] = "open"
BY DEF IInv, IdInv, IdOK

(* A manifest put above the log. *)
LEMMA PutAbove ==
    ASSUME TypeOK, StoreInv, NEW k \in Tasks, NEW t \in Tables, NewHead(k, t).seq = NewSeq(k, t),
           NewSeq(k, t) \in Seqs, PutSlot(k, t), Top(t) \in Nat, NewSeq(k, t) > Top(t)
    PROVE  SlotsKept /\ slot'[t][NewSeq(k, t)] = call[k].id
<1>1. DiskTypes
  BY TypeParts
<1> DEFINE n == NewSeq(k, t)
           i == call[k].id
<1>2. /\ slot' = [slot EXCEPT ![t][n] = i]
      /\ slotDisk' = [slotDisk EXCEPT ![t][n] = slotDisk[t][n] \cup {i}]
  BY <1>1 DEF PutSlot, DiskTypes
<1>3. n \in Seqs /\ n \in Nat /\ n > Top(t)
  BY ConstantsAssumption DEF Seqs
<1> HIDE DEF n, i
<1>4. slot'[t][n] = i /\ slotDisk'[t][n] = slotDisk[t][n] \cup {i}
  BY <1>1, <1>2, <1>3 DEF DiskTypes
<1>5. \A u \in Tables : \A s \in Seqs : u # t \/ s # n =>
                 slot'[u][s] = slot[u][s] /\ slotDisk'[u][s] = slotDisk[u][s]
  BY <1>1, <1>2, <1>3 DEF DiskTypes
<1>6. ASSUME NEW u \in Tables, NEW s \in Seqs
      PROVE  /\ slot'[u][s] \in slotDisk'[u][s]
             /\ s <= Top(u) => slot'[u][s] = slot[u][s] /\ slotDisk'[u][s] = slotDisk[u][s]
  <2>1. CASE u # t \/ s # n
    BY <1>5, <2>1 DEF StoreInv
  <2>2. CASE u = t /\ s = n
    BY <1>3, <1>4, <2>2
  <2>3. QED
    BY <2>1, <2>2
<1>7. QED
  BY <1>4, <1>6 DEF SlotsKept, n, i

(* Nothing is left to complete when no call has a journal out: the log of  *)
(* a table ends at its HEAD.                                               *)
LEMMA NoneLive ==
    ASSUME IInv, setting.alone, AtomInv, NEW k \in Tasks, db[setting.procOf[k]] = "open",
           \A j \in Tasks : phase[j] \notin Journaled
    PROVE  /\ \A x \in Ids : ~Live(x)
           /\ \A t \in Tables : Top(t) = head[t].seq /\ Top(t) \in Nat
<1>1. StoreInv /\ LiveInv /\ TypeOK /\ AckInv
  BY DEF AtomInv, IInv
<1>2. setting.procOf[k] \in Procs
  BY <1>1, TypeParts, ConstantsAssumption DEF SettingTypes
<1>3. ASSUME NEW x \in Ids, Live(x) PROVE FALSE
  <2>1. Completing(setting.procOf[k], x)
    BY <1>1, <1>2, <1>3 DEF LiveInv, LiveOK
  <2>2. QED
    BY <2>1 DEF Completing
<1>4. QED
  BY <1>1, <1>3, TopIs DEF TopsOK

(* A call that gives up, or is refused, before its commit point. *)
LEMMA QuietAtom ==
    ASSUME IInv, IInv', setting.alone, AtomInv, NEW k \in Tasks, phase[k] \notin Journaled \cup {"idle"},
           Return(k), lastId' = lastId, acked' = acked, refused' \subseteq refused \cup {call[k].id},
           UNCHANGED <<setting, procVars, diskVars, journalVars>>
    PROVE  AtomInv' /\ Stutters
<1>1. TaskTypes /\ StoreInv /\ db[setting.procOf[k]] = "open"
  BY TypeParts, CallerOpen DEF IInv, AtomInv
<1>2. Frame(k) /\ Ended(k)
  BY <1>1, ReturnFrame
<1>3. FilesKept
  BY <1>1, FilesSame
<1>4. CallOK(k)'
  BY <1>2, IdleCall DEF Ended
<1>5. AtomInv' /\ commits' = commits
  BY <1>1, <1>2, <1>3, <1>4, CallKeeps
<1>6. QED
  BY <1>5 DEF Stutters

(* ... by a lock timeout or an I/O error. *)
LEMMA TimeoutAtom ==
    ASSUME IInv, IInv', setting.alone, AtomInv, NEW k \in Tasks, Timeout(k) \/ IoError(k)
    PROVE  AtomInv' /\ Stutters
<1>1. CASE Timeout(k)
  <2>1. phase[k] \notin Journaled \cup {"idle"}
    BY <1>1 DEF Timeout, Journaled
  <2>2. QED
    BY <1>1, <2>1, QuietAtom DEF Timeout, Refuse
<1>2. CASE IoError(k)
  <2>1. phase[k] \notin Journaled \cup {"idle"}
    BY <1>2 DEF IoError
  <2>2. QED
    BY <1>2, <2>1, QuietAtom DEF IoError
<1>3. QED
  BY <1>1, <1>2

(* A call stages: its number is new. *)
LEMMA StageAtom ==
    ASSUME IInv, IInv', setting.alone, AtomInv, NEW k \in Tasks, Stage(k)
    PROVE  AtomInv' /\ Stutters
<1>1. /\ phase[k] = "idle" /\ db[setting.procOf[k]] = "open" /\ lastId' = lastId + 1
      /\ phase' = [phase EXCEPT ![k] = "staged"] /\ acked' = acked
      /\ UNCHANGED <<setting, diskVars, journalVars, todo, procVars>>
  BY DEF Stage
<1>2. PICK b : call' = [call EXCEPT ![k] = [id |-> lastId + 1, base |-> b]]
  BY DEF Stage
<1>3. TaskTypes /\ StoreInv /\ LogInv /\ lastId \in Nat
  BY TypeParts, ConstantsAssumption DEF IInv, AtomInv, AuxTypes, Ids
<1>4. Frame(k) /\ phase'[k] = "staged" /\ call'[k].id = lastId + 1
  BY <1>1, <1>2, <1>3 DEF Frame, TaskTypes, procVars
<1>5. FilesKept
  BY <1>1, <1>3, FilesSame
<1>6. ASSUME LogSame PROVE CallOK(k)'
  <2>1. \A t \in Tables : ~Logged(lastId + 1, t)
    BY <1>3 DEF LogInv, LogOK, Logged
  <2>2. QED
    BY <1>4, <1>6, <2>1 DEF CallOK, Journaled, Logged, LogSame
<1>7. phase[k] \notin Journaled
  BY <1>1 DEF Journaled
<1>8. AtomInv' /\ commits' = commits
  BY <1>1, <1>4, <1>5, <1>6, <1>7, CallKeeps
<1>9. QED
  BY <1>1, <1>8 DEF Stutters

(* An ordinary commit puts its manifest above the log. *)
LEMMA EnterAtom ==
    ASSUME IInv, IInv', setting.alone, AtomInv, NEW k \in Tasks, Enter(k)
    PROVE  AtomInv' /\ Stutters
<1>1. /\ phase[k] = "staged" /\ ~IsTxn(k) /\ meta = NoOne
      /\ UNCHANGED <<setting, journalVars, procVars>>
  BY DEF Enter
<1>2. /\ TypeOK /\ IdInv /\ LockInv /\ TaskTypes /\ StoreInv /\ CallOK(k)
      /\ db[setting.procOf[k]] = "open"
  BY <1>1, TypeParts, CallerOpen DEF IInv, AtomInv, CallInv
<1>3. phase[k] \notin Journaled \cup {"idle"}
  BY <1>1 DEF Journaled
<1>4. CASE Refuse(k) /\ UNCHANGED diskVars
  BY <1>1, <1>3, <1>4, QuietAtom DEF Refuse
<1>5. ASSUME NEW t \in TablesOf(k), head[t] = Base(k, t), meta' = k, PutSlot(k, t),
             Goto(k, "publish", {}), UNCHANGED <<head, headDisk, auxVars>>
      PROVE  AtomInv' /\ Stutters
  <2>1. /\ t \in Tables /\ NewHead(k, t).seq = NewSeq(k, t) /\ NewSeq(k, t) \in Seqs
        /\ NewSeq(k, t) > head[t].seq /\ TablesOf(k) = {t}
    BY <1>1, <1>2, <1>5, CallFacts, OneTable
  <2>2. \A j \in Tasks : phase[j] \notin Journaled
    BY <1>1, <1>2, ConstantsAssumption DEF LockInv, Active, Journaled
  <2>3. Top(t) = head[t].seq /\ Top(t) \in Nat
    BY <1>2, <2>1, <2>2, NoneLive
  <2>4. SlotsKept /\ slot'[t][NewSeq(k, t)] = call[k].id
    BY <1>2, <1>5, <2>1, <2>3, PutAbove
  <2>5. Frame(k) /\ phase'[k] = "publish" /\ call' = call
    BY <1>1, <1>2, <1>5, GotoFrame
  <2>6. FilesKept
    BY <1>1, <1>5, <2>4 DEF FilesKept, HeadsKept, JournalsKept, journalVars, auxVars
  <2>7. ASSUME LogSame PROVE CallOK(k)'
    <3>1. \A u \in Tables : ~Logged(call[k].id, u)
      BY <1>1, <1>2 DEF CallOK
    <3>2. QED
      BY <1>5, <2>1, <2>4, <2>5, <2>7, <3>1
      DEF CallOK, Journaled, Logged, LogSame, TablesOf, Base, PutOK, NewSeq
  <2>8. AtomInv' /\ commits' = commits
    BY <1>2, <1>3, <1>5, <2>5, <2>6, <2>7, CallKeeps
  <2>9. QED
    BY <1>1, <1>5, <2>8 DEF Stutters, auxVars
<1>6. QED
  BY <1>4, <1>5 DEF Enter
(* A transaction validates its bases. *)
LEMMA ValidateAtom ==
    ASSUME IInv, IInv', setting.alone, AtomInv, NEW k \in Tasks, Validate(k)
    PROVE  AtomInv' /\ Stutters
<1>1. phase[k] = "staged" /\ UNCHANGED <<setting, diskVars, journalVars, procVars>>
  BY DEF Validate
<1>2. TaskTypes /\ StoreInv /\ CallOK(k) /\ db[setting.procOf[k]] = "open"
  BY <1>1, TypeParts, CallerOpen DEF IInv, AtomInv, CallInv
<1>3. phase[k] \notin Journaled \cup {"idle"}
  BY <1>1 DEF Journaled
<1>4. CASE Refuse(k)
  BY <1>1, <1>3, <1>4, QuietAtom DEF Refuse
<1>5. CASE Goto(k, "put", TablesOf(k)) /\ UNCHANGED auxVars
  <2>1. Frame(k) /\ phase'[k] = "put" /\ call' = call
    BY <1>1, <1>2, <1>5, GotoFrame
  <2>2. FilesKept
    BY <1>1, <1>2, <1>5, FilesSame DEF auxVars
  <2>3. LogSame => CallOK(k)'
    BY <1>1, <1>2, <2>1, EarlyCall DEF CallOK, Early
  <2>4. AtomInv' /\ commits' = commits
    BY <1>1, <1>2, <1>3, <2>1, <2>2, <2>3, CallKeeps
  <2>5. QED
    BY <1>1, <1>5, <2>4 DEF Stutters, auxVars
<1>6. QED
  BY <1>4, <1>5 DEF Validate

(* What a call that holds CATALOG.lock knows with one process at a time. *)
LEMMA HolderFacts ==
    ASSUME IInv, setting.alone, AtomInv, NEW k \in Tasks, Active(k)
    PROVE  /\ TypeOK /\ TaskTypes /\ AckInv /\ AloneInv /\ StoreInv /\ LiveInv /\ CallOK(k) /\ ProgressOK(k)
           /\ db[setting.procOf[k]] = "open" /\ meta = k /\ call[k].id \in Ids
           /\ TablesOf(k) # {} /\ TablesOf(k) \subseteq Tables /\ todo[k] \subseteq TablesOf(k)
           /\ \A t \in TablesOf(k) : /\ NewHead(k, t).seq = NewSeq(k, t) /\ NewSeq(k, t) \in Seqs
                                     /\ NewSeq(k, t) \in Nat /\ Base(k, t).seq \in Nat
                                     /\ NewSeq(k, t) > Base(k, t).seq
           /\ \A j \in Tasks : j # k => phase[j] \in {"idle", "staged"}
<1>1. /\ TypeOK /\ IdInv /\ LockInv /\ AckInv /\ AloneInv /\ ProgressOK(k)
      /\ meta = k /\ phase[k] # "idle" /\ call[k].id \in Ids
      /\ TablesOf(k) # {} /\ TablesOf(k) \subseteq Tables
  BY ActiveFacts
<1>2. TaskTypes /\ StoreInv /\ LiveInv /\ CallOK(k)
  BY <1>1, TypeParts DEF AtomInv, CallInv
<1>3. Seqs \subseteq Nat
  BY ConstantsAssumption DEF Seqs
<1>4. \A t \in TablesOf(k) : /\ NewHead(k, t).seq = NewSeq(k, t) /\ NewSeq(k, t) \in Seqs
                             /\ NewSeq(k, t) \in Nat /\ Base(k, t).seq \in Nat
                             /\ NewSeq(k, t) > Base(k, t).seq
  BY <1>1, <1>3, CallFacts
<1>5. \A j \in Tasks : j # k => phase[j] \in {"idle", "staged"}
  BY <1>1 DEF LockInv, Active
<1>6. todo[k] \subseteq TablesOf(k) /\ db[setting.procOf[k]] = "open"
  BY <1>1, CallerOpen DEF ProgressOK
<1>7. QED
  BY <1>1, <1>2, <1>4, <1>5, <1>6

(* A transaction puts a manifest above the log. *)
LEMMA PutManifestsAtom ==
    ASSUME IInv, IInv', setting.alone, AtomInv, NEW k \in Tasks, PutManifests(k)
    PROVE  AtomInv' /\ Stutters
<1>1. phase[k] = "put" /\ UNCHANGED <<setting, head, headDisk, journalVars, lockVars, procVars, auxVars>>
  BY DEF PutManifests
<1>2. Active(k) /\ phase[k] \notin Journaled
  BY <1>1 DEF Active, Journaled
<1>3. /\ TypeOK /\ TaskTypes /\ AloneInv /\ StoreInv /\ CallOK(k)
      /\ db[setting.procOf[k]] = "open" /\ meta = k
      /\ TablesOf(k) \subseteq Tables /\ todo[k] \subseteq TablesOf(k)
      /\ \A t \in TablesOf(k) : /\ NewHead(k, t).seq = NewSeq(k, t) /\ NewSeq(k, t) \in Seqs
                                /\ NewSeq(k, t) > Base(k, t).seq
  BY <1>2, HolderFacts
<1>4. PICK t \in todo[k] :
        PutSlot(k, t) /\ \E ph \in {"sync", "put"} : \E ts : Goto(k, ph, ts)
  BY DEF PutManifests
<1>5. t \in Tables /\ t \in TablesOf(k) /\ head[t] = Base(k, t)
  BY <1>1, <1>3 DEF AloneInv
<1>6. \A j \in Tasks : phase[j] \notin Journaled
  BY <1>2, HolderFacts DEF Journaled
<1>7. Top(t) = head[t].seq /\ Top(t) \in Nat
  BY <1>3, <1>5, <1>6, NoneLive
<1>8. SlotsKept
  BY <1>3, <1>4, <1>5, <1>7, PutAbove
<1>9. Frame(k) /\ phase'[k] \in {"sync", "put"} /\ call' = call
  BY <1>1, <1>3, <1>4, GotoFrame
<1>10. FilesKept
  BY <1>1, <1>8 DEF FilesKept, HeadsKept, JournalsKept, journalVars, auxVars
<1>11. LogSame => CallOK(k)'
  BY <1>1, <1>3, <1>9, EarlyCall DEF CallOK, Early
<1>12. AtomInv' /\ commits' = commits
  BY <1>2, <1>3, <1>9, <1>10, <1>11, CallKeeps
<1>13. QED
  BY <1>1, <1>12 DEF Stutters, auxVars

(* ... and fsyncs them all. *)
LEMMA SyncManifestsAtom ==
    ASSUME IInv, IInv', setting.alone, AtomInv, NEW k \in Tasks, SyncManifests(k)
    PROVE  AtomInv' /\ Stutters
<1>1. /\ phase[k] = "sync" /\ Goto(k, "journal", {})
      /\ UNCHANGED <<setting, head, headDisk, slot, journalVars, lockVars, procVars, auxVars>>
      /\ slotDisk' = [t \in Tables |->
                      IF t \in TablesOf(k)
                      THEN [slotDisk[t] EXCEPT ![NewHead(k, t).seq] = {slot[t][NewHead(k, t).seq]}]
                      ELSE slotDisk[t]]
  BY DEF SyncManifests
<1>2. Active(k) /\ phase[k] \notin Journaled
  BY <1>1 DEF Active, Journaled
<1>3. /\ TypeOK /\ TaskTypes /\ AloneInv /\ StoreInv /\ CallOK(k)
      /\ db[setting.procOf[k]] = "open" /\ meta = k
      /\ TablesOf(k) \subseteq Tables
      /\ \A t \in TablesOf(k) : /\ NewHead(k, t).seq = NewSeq(k, t) /\ NewSeq(k, t) \in Seqs
                                /\ NewSeq(k, t) > Base(k, t).seq /\ NewSeq(k, t) \in Nat
  BY <1>2, HolderFacts
<1>4. \A t \in Tables : slotDisk[t] \in [Seqs -> SUBSET Contents]
  BY <1>3, TypeParts DEF DiskTypes
<1>5. \A j \in Tasks : phase[j] \notin Journaled
  BY <1>2, HolderFacts DEF Journaled
<1>6. \A t \in Tables : Top(t) = head[t].seq /\ Top(t) \in Nat
  BY <1>3, <1>5, NoneLive
<1>7. ASSUME NEW t \in Tables, NEW s \in Seqs
      PROVE  /\ slot'[t][s] \in slotDisk'[t][s]
             /\ s <= Top(t) => slot'[t][s] = slot[t][s] /\ slotDisk'[t][s] = slotDisk[t][s]
  <2>1. slot' = slot /\ slot[t][s] \in slotDisk[t][s]
    BY <1>1, <1>3 DEF StoreInv
  <2>2. CASE t \notin TablesOf(k)
    BY <1>1, <2>1, <2>2
  <2>3. CASE t \in TablesOf(k)
    <3>1. head[t] = Base(k, t)
      BY <1>1, <1>3, <2>3 DEF AloneInv
    <3>2. slotDisk'[t] = [slotDisk[t] EXCEPT ![NewSeq(k, t)] = {slot[t][NewSeq(k, t)]}]
      BY <1>1, <1>3, <2>3
    <3>3. /\ s # NewSeq(k, t) => slotDisk'[t][s] = slotDisk[t][s]
          /\ s = NewSeq(k, t) => slotDisk'[t][s] = {slot[t][s]}
      BY <1>3, <1>4, <2>3, <3>2
    <3>4. s = NewSeq(k, t) => ~(s <= Top(t))
      BY <1>3, <1>6, <2>3, <3>1
    <3>5. QED
      BY <2>1, <3>3, <3>4
  <2>4. QED
    BY <2>2, <2>3
<1>8. FilesKept
  BY <1>1, <1>7 DEF FilesKept, SlotsKept, HeadsKept, JournalsKept, journalVars, auxVars
<1>9. Frame(k) /\ phase'[k] = "journal" /\ call' = call
  BY <1>1, <1>3, GotoFrame
<1>10. LogSame => CallOK(k)'
  BY <1>1, <1>3, <1>9, EarlyCall DEF CallOK, Early
<1>11. AtomInv' /\ commits' = commits
  BY <1>2, <1>3, <1>8, <1>9, <1>10, CallKeeps
<1>12. QED
  BY <1>1, <1>11 DEF Stutters, auxVars
(* A journaled call goes on with its journal, its HEADs moving to it. *)
LEMMA JournaledCall ==
    ASSUME NEW k, CallOK(k), phase[k] \in Journaled, phase'[k] \in Journaled \ {"jsync"},
           call' = call, UNCHANGED <<journal, entries>>,
           \A x : x = call[k].id => journalDisk'[x] = {"whole"},
           phase'[k] = "swap" => \A t \in todo'[k] \cap TablesOf(k) : head'[t] = Base(k, t)
    PROVE  CallOK(k)'
<1>1. /\ journal'[call'[k].id] = "whole" /\ journalDisk'[call'[k].id] = {"whole"}
      /\ entries'[call'[k].id] = [t \in TablesOf(k) |-> NewHead(k, t)]
  BY DEF CallOK
<1>2. phase'[k] \notin {"staged", "put", "sync", "journal", "publish"}
  BY DEF Journaled
<1>3. QED
  BY <1>1, <1>2 DEF CallOK, TablesOf, NewHead, Base

(* The journal is fsynced. *)
LEMMA SyncJournalAtom ==
    ASSUME IInv, IInv', setting.alone, AtomInv, NEW k \in Tasks, SyncJournal(k)
    PROVE  AtomInv' /\ Stutters
<1>1. /\ phase[k] = "jsync" /\ Goto(k, "lock", TablesOf(k))
      /\ journalDisk' = [journalDisk EXCEPT ![call[k].id] = {journal[call[k].id]}]
      /\ UNCHANGED <<setting, diskVars, journal, entries, lockVars, procVars, auxVars>>
  BY DEF SyncJournal
<1>2. Active(k) /\ phase[k] \in Journaled
  BY <1>1 DEF Active, Journaled
<1>3. /\ TypeOK /\ TaskTypes /\ StoreInv /\ CallOK(k)
      /\ db[setting.procOf[k]] = "open" /\ meta = k /\ call[k].id \in Ids
  BY <1>2, HolderFacts
<1>4. journalDisk \in [Ids -> SUBSET JournalStates]
  BY <1>3, TypeParts DEF JournalTypes
<1>5. /\ journalDisk'[call[k].id] = {"whole"}
      /\ \A x \in Ids : journalDisk'[x] \in {journalDisk[x], {journal[x]}}
  BY <1>1, <1>2, <1>3, <1>4 DEF CallOK
<1>6. FilesKept
  BY <1>1, <1>3, <1>5, SlotsSame DEF FilesKept, HeadsKept, JournalsKept, diskVars, auxVars
<1>7. Frame(k) /\ phase'[k] = "lock" /\ call' = call
  BY <1>1, <1>3, GotoFrame
<1>8. CallOK(k)'
  <2>1. "lock" \in Journaled \ {"jsync"}
    BY DEF Journaled
  <2>2. QED
    BY <1>1, <1>2, <1>3, <1>5, <1>7, <2>1, JournaledCall
<1>9. AtomInv' /\ commits' = commits
  <2>1. phase'[k] \in Journaled
    BY <1>7 DEF Journaled
  <2>2. QED
    BY <1>3, <1>6, <1>7, <1>8, <2>1, CallKeeps
<1>10. QED
  BY <1>1, <1>9 DEF Stutters, auxVars

(* Every writer section is free and every base still valid: with one       *)
(* process at a time commit_batch is not refused.                          *)
LEMMA LockTableAtom ==
    ASSUME IInv, IInv', setting.alone, AtomInv, NEW k \in Tasks, LockTable(k)
    PROVE  AtomInv' /\ Stutters
<1>1. phase[k] = "lock" /\ UNCHANGED <<setting, diskVars, journalVars, procVars>>
  BY DEF LockTable
<1>2. Active(k) /\ phase[k] \in Journaled
  BY <1>1 DEF Active, Journaled
<1>3. /\ TypeOK /\ TaskTypes /\ StoreInv /\ CallOK(k) /\ AloneInv /\ ProgressOK(k)
      /\ db[setting.procOf[k]] = "open" /\ meta = k /\ todo[k] \subseteq TablesOf(k)
      /\ TablesOf(k) \subseteq Tables
  BY <1>2, HolderFacts
<1>4. ASSUME NEW t \in todo[k] PROVE lock[t] = NoOne /\ head[t] = Base(k, t)
  <2>1. t \in Tables /\ head[t] = Base(k, t)
    BY <1>1, <1>3, <1>4 DEF AloneInv
  <2>2. lock[t] \in Tasks \cup Procs \cup {NoOne} /\ LockInv
    BY <1>3, <2>1, TypeParts DEF LockTypes, IInv
  <2>3. lock[t] \notin Tasks
    BY <1>1, <1>3, <1>4, <2>1, <2>2 DEF LockInv, ProgressOK
  <2>4. lock[t] \notin Procs
    <3>1. \A p \in Procs : db[p] \in {"closed", "open"}
      BY <1>3, NoScan
    <3>2. QED
      BY <2>1, <2>2, <3>1 DEF LockInv
  <2>5. QED
    BY <2>1, <2>2, <2>3, <2>4
<1>5. PICK t \in todo[k] :
        /\ \E ph \in {"swap", "lock"} : \E ts : Goto(k, ph, ts)
        /\ UNCHANGED <<meta, auxVars>>
  BY <1>4 DEF LockTable
<1>6. Frame(k) /\ phase'[k] \in {"swap", "lock"} /\ call' = call
  BY <1>1, <1>3, <1>5, GotoFrame
<1>7. FilesKept
  BY <1>1, <1>3, <1>5, FilesSame DEF auxVars
<1>8. phase'[k] \in Journaled \ {"jsync"}
  BY <1>6 DEF Journaled
<1>9. CallOK(k)'
  <2>1. UNCHANGED <<journal, journalDisk, entries, head>>
    BY <1>1 DEF journalVars, diskVars
  <2>2. \A u \in TablesOf(k) : head'[u] = Base(k, u)
    BY <1>1, <1>3, <2>1 DEF AloneInv
  <2>3. \A x : x = call[k].id => journalDisk'[x] = {"whole"}
    BY <1>1, <1>2, <1>3, <2>1 DEF CallOK
  <2>4. QED
    BY <1>2, <1>3, <1>6, <1>8, <2>1, <2>2, <2>3, JournaledCall
<1>10. AtomInv' /\ commits' = commits
  BY <1>1, <1>3, <1>6, <1>7, <1>8, <1>9, CallKeeps
<1>11. QED
  BY <1>1, <1>5, <1>10 DEF Stutters, auxVars

(* A HEAD moves to its entry of the call's journal, which is live. *)
LEMMA SwapHeadAtom ==
    ASSUME IInv, IInv', setting.alone, AtomInv, NEW k \in Tasks, SwapHead(k)
    PROVE  AtomInv' /\ Stutters
<1>1. phase[k] = "swap" /\ UNCHANGED <<setting, slot, slotDisk, journalVars, lockVars, procVars, auxVars>>
  BY DEF SwapHead
<1>2. Active(k) /\ phase[k] \in Journaled
  BY <1>1 DEF Active, Journaled
<1>3. /\ TypeOK /\ TaskTypes /\ StoreInv /\ AckInv /\ CallOK(k) /\ call[k].id \in Ids
      /\ db[setting.procOf[k]] = "open" /\ meta = k /\ todo[k] \subseteq TablesOf(k)
      /\ TablesOf(k) \subseteq Tables
      /\ \A t \in TablesOf(k) : /\ NewHead(k, t).seq = NewSeq(k, t) /\ NewSeq(k, t) \in Nat
                                /\ NewSeq(k, t) > Base(k, t).seq /\ Base(k, t).seq \in Nat
  BY <1>2, HolderFacts
<1>4. PICK t \in todo[k] :
        /\ Rename(t, NewHead(k, t))
        /\ \E ph \in {"dirsync", "swap"} : \E ts : Goto(k, ph, ts) /\ (ph = "swap" => ts = todo[k] \ {t})
  BY DEF SwapHead
<1>5. t \in Tables /\ t \in TablesOf(k)
  BY <1>3
<1>6. /\ head'[t] = NewHead(k, t) /\ headDisk'[t] = headDisk[t] \cup {NewHead(k, t)}
      /\ \A u \in Tables : u # t => head'[u] = head[u] /\ headDisk'[u] = headDisk[u]
  BY <1>3, <1>4, <1>5, RenameEffect
<1>7. PICK x \in Ids : x = call[k].id
  BY <1>3
<1>8. /\ journal[x] = "whole" /\ journalDisk[x] = {"whole"}
      /\ entries[x] = [u \in TablesOf(k) |-> NewHead(k, u)]
      /\ \A u \in todo[k] : head[u] = Base(k, u)
  BY <1>1, <1>2, <1>3, <1>7 DEF CallOK
<1>9. Live(x) /\ t \in DOMAIN entries[x] /\ head'[t] = entries[x][t]
  <2>1. t \in DOMAIN entries[x] /\ entries[x][t] = NewHead(k, t) /\ head[t] \in headDisk[t]
    BY <1>3, <1>5, <1>8 DEF AckInv
  <2>2. ~(head[t].seq >= entries[x][t].seq)
    BY <1>3, <1>5, <1>8, <2>1
  <2>3. QED
    BY <1>6, <1>8, <2>1, <2>2 DEF Live, Done
<1>10. FilesKept
  <2>1. HeadsKept
    BY <1>6, <1>8, <1>9 DEF HeadsKept
  <2>2. QED
    BY <1>1, <1>3, <2>1, SlotsSame DEF FilesKept, JournalsKept, journalVars, auxVars
<1>11. /\ Frame(k) /\ phase'[k] \in {"dirsync", "swap"} /\ call' = call
       /\ phase'[k] = "swap" => todo'[k] = todo[k] \ {t}
  BY <1>1, <1>3, <1>4, GotoFrame
<1>12. phase'[k] \in Journaled \ {"jsync"}
  BY <1>11 DEF Journaled
<1>13. CallOK(k)'
  <2>1. UNCHANGED <<journal, journalDisk, entries>>
    BY <1>1 DEF journalVars
  <2>2. phase'[k] = "swap" => \A u \in todo'[k] \cap TablesOf(k) : head'[u] = Base(k, u)
    BY <1>3, <1>6, <1>8, <1>11
  <2>3. \A y : y = call[k].id => journalDisk'[y] = {"whole"}
    BY <1>7, <1>8, <2>1
  <2>4. QED
    BY <1>2, <1>3, <1>11, <1>12, <2>1, <2>2, <2>3, JournaledCall
<1>14. AtomInv' /\ commits' = commits
  BY <1>3, <1>10, <1>11, <1>12, <1>13, CallKeeps
<1>15. QED
  BY <1>1, <1>14 DEF Stutters, auxVars

(* A directory is fsynced. *)
LEMMA SyncHeadAtom ==
    ASSUME IInv, IInv', setting.alone, AtomInv, NEW k \in Tasks, SyncHead(k)
    PROVE  AtomInv' /\ Stutters
<1>1. /\ phase[k] = "dirsync"
      /\ UNCHANGED <<setting, head, slot, slotDisk, journalVars, lockVars, procVars, auxVars>>
  BY DEF SyncHead
<1>2. Active(k) /\ phase[k] \in Journaled
  BY <1>1 DEF Active, Journaled
<1>3. /\ TypeOK /\ TaskTypes /\ StoreInv /\ AckInv /\ CallOK(k)
      /\ db[setting.procOf[k]] = "open" /\ meta = k
  BY <1>2, HolderFacts
<1>4. PICK t \in todo[k] :
        SyncDirs({t}) /\ \E ph \in {"delete", "dirsync"} : \E ts : Goto(k, ph, ts)
  BY DEF SyncHead
<1>5. \A u \in Tables : headDisk'[u] \subseteq headDisk[u]
  BY <1>3, <1>4 DEF SyncDirs, AckInv
<1>6. FilesKept
  BY <1>1, <1>3, <1>5, SlotsSame DEF FilesKept, HeadsKept, JournalsKept, journalVars, auxVars
<1>7. Frame(k) /\ phase'[k] \in {"delete", "dirsync"} /\ call' = call
  BY <1>1, <1>3, <1>4, GotoFrame
<1>8. phase'[k] \in Journaled \ {"jsync"} /\ phase'[k] # "swap"
  BY <1>7 DEF Journaled
<1>9. CallOK(k)'
  <2>1. UNCHANGED <<journal, journalDisk, entries>>
    BY <1>1 DEF journalVars
  <2>2. \A y : y = call[k].id => journalDisk'[y] = {"whole"}
    BY <1>1, <1>2, <1>3, <2>1 DEF CallOK
  <2>3. QED
    BY <1>2, <1>3, <1>7, <1>8, <2>1, <2>2, JournaledCall
<1>10. AtomInv' /\ commits' = commits
  BY <1>3, <1>6, <1>7, <1>8, <1>9, CallKeeps
<1>11. QED
  BY <1>1, <1>10 DEF Stutters, auxVars
(* What a call has swapped in, durably, is in the log. *)
LEMMA SwappedLogged ==
    ASSUME IInv, setting.alone, AtomInv, NEW k \in Tasks, Active(k), NEW t \in TablesOf(k),
           SwappedOK(k, t), DurableOK(k, t)
    PROVE  Logged(call[k].id, t)
<1>1. /\ TypeOK /\ AckInv /\ StoreInv /\ LiveInv /\ t \in Tables
      /\ NewHead(k, t).seq = NewSeq(k, t) /\ NewSeq(k, t) \in Seqs
      /\ NewSeq(k, t) \in Nat /\ Base(k, t).seq \in Nat /\ NewSeq(k, t) > Base(k, t).seq
  BY HolderFacts
<1>2. Top(t) \in Nat /\ head[t].seq <= Top(t)
  BY <1>1, TopIs DEF TopsOK
<1>3. slot[t][NewSeq(k, t)] = call[k].id
  BY <1>1 DEF DurableOK, StoreInv
<1>4. NewSeq(k, t) \in 1..Top(t)
  BY <1>1, <1>2 DEF SwappedOK
<1>5. QED
  BY <1>3, <1>4 DEF Logged

(* An ordinary commit is answered. *)
LEMMA HardenAtom ==
    ASSUME IInv, IInv', setting.alone, AtomInv, NEW k \in Tasks, Harden(k)
    PROVE  AtomInv' /\ \E x \in Ids : Answers(x)
<1>1. /\ phase[k] = "harden" /\ SyncDirs(TablesOf(k)) /\ Return(k) /\ acked' = acked \cup {call[k].id}
      /\ UNCHANGED <<setting, head, slot, slotDisk, journalVars, procVars, lastId, refused>>
  BY DEF Harden
<1>2. Active(k) /\ phase[k] \notin Journaled
  BY <1>1 DEF Active, Journaled
<1>3. /\ TypeOK /\ TaskTypes /\ StoreInv /\ AckInv /\ ProgressOK(k) /\ call[k].id \in Ids
      /\ db[setting.procOf[k]] = "open" /\ meta = k
      /\ TablesOf(k) # {} /\ TablesOf(k) \subseteq Tables
  BY <1>2, HolderFacts
<1>4. PICK t \in TablesOf(k) : t \in Tables
  BY <1>3
<1>5. Logged(call[k].id, t)
  <2>1. SwappedOK(k, t) /\ DurableOK(k, t)
    BY <1>1, <1>3 DEF ProgressOK
  <2>2. QED
    BY <1>2, <2>1, SwappedLogged
<1>6. \A u \in Tables : headDisk'[u] \subseteq headDisk[u]
  BY <1>1, <1>3 DEF SyncDirs, AckInv
<1>7. FilesKept
  BY <1>1, <1>3, <1>6, SlotsSame DEF FilesKept, HeadsKept, JournalsKept, journalVars
<1>8. Frame(k) /\ Ended(k)
  BY <1>1, <1>3, ReturnFrame
<1>9. CallOK(k)'
  BY <1>8, IdleCall DEF Ended
<1>10. AtomInv' /\ commits' = commits
  BY <1>2, <1>3, <1>7, <1>8, <1>9, CallKeeps
<1>11. PICK x \in Ids : x = call[k].id
  BY <1>3
<1>12. Answers(x)
  BY <1>1, <1>4, <1>5, <1>10, <1>11 DEF Answers
<1>13. QED
  BY <1>10, <1>12

(* A transaction deletes its journal, which is done, and is answered. *)
LEMMA FinishAtom ==
    ASSUME IInv, IInv', setting.alone, AtomInv, NEW k \in Tasks, Finish(k)
    PROVE  AtomInv' /\ \E x \in Ids : Answers(x)
<1>1. /\ phase[k] = "delete" /\ DeleteJournal(call[k].id) /\ Return(k) /\ acked' = acked \cup {call[k].id}
      /\ UNCHANGED <<setting, head, headDisk, slot, slotDisk, procVars, lastId, refused>>
  BY DEF Finish, diskVars
<1>2. Active(k) /\ phase[k] \in Journaled
  BY <1>1 DEF Active, Journaled
<1>3. /\ TypeOK /\ TaskTypes /\ StoreInv /\ AckInv /\ ProgressOK(k) /\ CallOK(k) /\ call[k].id \in Ids
      /\ db[setting.procOf[k]] = "open" /\ meta = k
      /\ TablesOf(k) # {} /\ TablesOf(k) \subseteq Tables
      /\ \A t \in TablesOf(k) : NewHead(k, t).seq = NewSeq(k, t) /\ NewSeq(k, t) \in Nat
  BY <1>2, HolderFacts
<1>4. PICK x \in Ids : x = call[k].id
  BY <1>3
<1>5. /\ journal' = [journal EXCEPT ![x] = "none"] /\ entries' = entries
      /\ journalDisk' = [journalDisk EXCEPT ![x] = journalDisk[x] \cup {"none"}]
  BY <1>1, <1>4 DEF DeleteJournal
<1>6. \A t \in TablesOf(k) : SwappedOK(k, t) /\ DurableOK(k, t) /\ headDisk[t] = {head[t]}
  BY <1>1, <1>2, <1>3 DEF ProgressOK
<1>7. Done(x)'
  <2>1. entries[x] = [t \in TablesOf(k) |-> NewHead(k, t)]
    BY <1>2, <1>3, <1>4 DEF CallOK
  <2>2. \A t \in TablesOf(k) : \A h \in headDisk[t] : h = entries[x][t] /\ h.seq \in Nat
    BY <1>3, <1>6, <2>1 DEF SwappedOK
  <2>3. \A t \in DOMAIN entries[x] : \A h \in headDisk[t] : h.seq >= entries[x][t].seq
    BY <2>1, <2>2
  <2>4. QED
    BY <1>1, <1>5, <2>3 DEF Done
<1>8. PICK t \in TablesOf(k) : t \in Tables
  BY <1>3
<1>9. Logged(call[k].id, t)
  BY <1>2, <1>6, SwappedLogged
<1>10. FilesKept
  <2>1. JournalTypes
    BY <1>3, TypeParts
  <2>2. \A y \in Ids : y # x => journal'[y] = journal[y] /\ journalDisk'[y] = journalDisk[y]
    BY <1>5, <2>1 DEF JournalTypes
  <2>3. JournalsKept
    BY <1>7, <2>2 DEF JournalsKept
  <2>4. QED
    BY <1>1, <1>3, <1>5, <2>3, SlotsSame DEF FilesKept, HeadsKept
<1>11. Frame(k) /\ Ended(k)
  BY <1>1, <1>3, ReturnFrame
<1>12. CallOK(k)'
  BY <1>11, IdleCall DEF Ended
<1>13. \A y \in Ids : y = call[k].id => Done(y)'
  BY <1>4, <1>7
<1>14. AtomInv' /\ commits' = commits
  BY <1>3, <1>10, <1>11, <1>12, <1>13, CallKeeps
<1>15. Answers(x)
  BY <1>1, <1>4, <1>8, <1>9, <1>14 DEF Answers
<1>16. QED
  BY <1>14, <1>15

-----------------------------------------------------------------------------
(* A commit: every table of it gets one more version, which is its own. *)
Commits(x, ts) ==
    /\ ts # {} /\ ts \subseteq Tables /\ acked' = acked /\ setting' = setting
    /\ \A t \in Tables :
          /\ ~Logged(x, t) /\ Top(t) \in Nat
          /\ Top(t)' = IF t \in ts THEN Top(t) + 1 ELSE Top(t)
          /\ t \in ts => slot'[t][Top(t) + 1] = x /\ slotDisk'[t][Top(t) + 1] = {x}
          /\ \A s \in 1..Top(t) : slot'[t][s] = slot[t][s] /\ slotDisk'[t][s] = slotDisk[t][s]

(* What the commit point of a call leaves right. *)
LEMMA CommitKeeps ==
    ASSUME IInv, IInv', setting.alone, AtomInv, NEW k \in Tasks, Active(k), Frame(k), lastId' = lastId,
           NEW x \in Ids, x = call[k].id, NEW ts, Commits(x, ts), StoreInv', LiveInv', CallOK(k)',
           \A y \in Ids : ~Live(y) /\ (Done(y) /\ y # x => Done(y)' /\ entries'[y] = entries[y]),
           \/ DOMAIN entries'[x] = {} /\ \E t \in Tables : ts = {t}
           \/ DOMAIN entries'[x] = ts /\ Live(x)' /\ \A t \in ts : entries'[x][t].seq = Top(t) + 1
    PROVE  AtomInv'
<1>1. /\ TypeOK /\ StoreInv /\ LogInv /\ CallInv /\ lastId \in Nat /\ 1..lastId \subseteq Ids
      /\ UNCHANGED <<setting, db, queue, left, seen>>
      /\ \A j \in Tasks \ {k} : phase'[j] = phase[j] /\ call'[j] = call[j] /\ todo'[j] = todo[j]
  BY TypeParts, ConstantsAssumption DEF AtomInv, IInv, Frame, AuxTypes, Ids
<1>2. \A y : \A t \in Tables : Logged(y, t)' => Logged(y, t) \/ (y = x /\ t \in ts)
  <2> SUFFICES ASSUME NEW y, NEW t \in Tables, NEW s \in 1..(Top(t)'), slot'[t][s] = y
               PROVE  Logged(y, t) \/ (y = x /\ t \in ts)
    BY DEF Logged
  <2>1. s \in 1..Top(t) \/ (t \in ts /\ s = Top(t) + 1)
    BY DEF Commits
  <2>2. QED
    BY <2>1 DEF Commits, Logged
<1>3. ASSUME NEW t \in Tables, NEW s \in 1..Top(t) PROVE LogOK(t, s)'
  <2>1. LogOK(t, s)
    BY <1>1, <1>3 DEF LogInv
  <2>2. PICK y \in Ids : y = slot[t][s]
    BY <1>1, <2>1 DEF LogOK
  <2>3. /\ y \in 1..lastId /\ slotDisk[t][s] = {y} /\ y # x
        /\ DOMAIN entries[y] # {} => t \in DOMAIN entries[y] /\ entries[y][t].seq = s /\ (Live(y) \/ Done(y))
        /\ DOMAIN entries[y] = {} => \A u \in Tables \ {t} : ~Logged(y, u)
    BY <1>3, <2>1, <2>2 DEF LogOK, Commits, Logged
  <2>4. entries'[y] = entries[y] /\ (DOMAIN entries[y] # {} => Done(y)')
    <3>1. Done(y)
      BY <2>3 DEF Done
    <3>2. QED
      BY <2>3, <3>1
  <2>5. slot'[t][s] = y /\ slotDisk'[t][s] = {y} /\ y \in 1..lastId'
    BY <1>3, <2>2, <2>3 DEF Commits
  <2>6. \A u \in Tables : Logged(y, u)' => Logged(y, u)
    BY <1>2, <2>3
  <2>7. DOMAIN entries'[y] # {} =>
           t \in DOMAIN entries'[y] /\ entries'[y][t].seq = s /\ (Live(y)' \/ Done(y)')
    BY <2>3, <2>4
  <2>8. DOMAIN entries'[y] = {} => \A u \in Tables \ {t} : ~Logged(y, u)'
    BY <2>3, <2>4, <2>6
  <2>9. QED
    BY <2>5, <2>7, <2>8, LogOKNext
<1>4. ASSUME NEW t \in ts, NEW s, s = Top(t) + 1 PROVE LogOK(t, s)'
  <2>1. x \in 1..lastId' /\ t \in Tables
    <3>1. phase[k] # "idle"
      BY DEF Active
    <3>2. QED
      BY <1>1, <3>1, CallFacts DEF IInv, Commits
  <2>2. slot'[t][s] = x /\ slotDisk'[t][s] = {x}
    BY <1>4, <2>1 DEF Commits
  <2>3. DOMAIN entries'[x] # {} =>
           t \in DOMAIN entries'[x] /\ entries'[x][t].seq = s /\ (Live(x)' \/ Done(x)')
    BY <1>4
  <2>4. DOMAIN entries'[x] = {} => \A u \in Tables \ {t} : ~Logged(x, u)'
    BY <1>2, <1>4 DEF Commits
  <2>5. QED
    BY <2>1, <2>2, <2>3, <2>4, LogOKNext
<1>5. LogInv'
  <2> SUFFICES ASSUME NEW t \in Tables, NEW s \in 1..(Top(t)') PROVE LogOK(t, s)'
    BY DEF LogInv
  <2>1. s \in 1..Top(t) \/ (t \in ts /\ s = Top(t) + 1)
    BY DEF Commits
  <2>2. QED
    BY <1>3, <1>4, <2>1
<1>6. CallInv'
  <2>1. ASSUME NEW j \in Tasks, j # k PROVE CallOK(j)'
    <3>1. phase'[j] \in {"idle", "staged"} /\ phase'[j] = phase[j] /\ call'[j] = call[j] /\ CallOK(j)
      BY <1>1, <2>1, HolderFacts DEF CallInv
    <3>2. CASE phase'[j] = "idle"
      BY <3>2, IdleCall
    <3>3. CASE phase'[j] = "staged"
      <4>1. call[j].id # x
        BY <2>1, <3>1, <3>3 DEF IInv, IdInv
      <4>2. \A t \in Tables : ~Logged(call[j].id, t)
        BY <3>1, <3>3 DEF CallOK
      <4>3. PICK y : y = call[j].id
        OBVIOUS
      <4>4. \A t \in Tables : ~Logged(y, t)'
        BY <1>2, <4>1, <4>2, <4>3
      <4>5. QED
        BY <3>1, <3>3, <4>3, <4>4 DEF CallOK, Journaled, Logged
    <3>4. QED
      BY <3>1, <3>2, <3>3
  <2>2. QED
    BY <2>1 DEF CallInv
<1>7. ScanInv'
  <2>1. \A p \in Procs : db[p] \in {"closed", "open"}
    BY HolderFacts, NoScan
  <2>2. QED
    BY <1>1, <2>1 DEF ScanInv
<1>8. QED
  BY <1>5, <1>6, <1>7 DEF AtomInv
(* The rename of HEAD is the commit point of an ordinary commit. *)
LEMMA PublishAtom ==
    ASSUME IInv, IInv', setting.alone, AtomInv, NEW k \in Tasks, Publish(k)
    PROVE  AtomInv' /\ \E x \in Ids : \E ts : Commits(x, ts)
<1>1. /\ phase[k] = "publish" /\ Goto(k, "harden", {})
      /\ UNCHANGED <<setting, slot, journalVars, lockVars, procVars, auxVars>>
  BY DEF Publish
<1>2. Active(k) /\ phase[k] \notin Journaled \cup {"idle"}
  BY <1>1 DEF Active, Journaled
<1>3. /\ TypeOK /\ TaskTypes /\ StoreInv /\ AckInv /\ ProgressOK(k) /\ CallOK(k) /\ call[k].id \in Ids
      /\ db[setting.procOf[k]] = "open"
      /\ \A t \in TablesOf(k) : /\ NewHead(k, t).seq = NewSeq(k, t) /\ NewSeq(k, t) \in Seqs
                                /\ NewSeq(k, t) \in Nat /\ NewSeq(k, t) > Base(k, t).seq
  BY <1>2, HolderFacts
<1>4. PICK t \in Tables : TablesOf(k) = {t}
  BY <1>1, <1>3 DEF ProgressOK
<1>5. PICK x \in Ids : x = call[k].id
  BY <1>3
<1>6. PICK n \in Seqs : n = NewSeq(k, t) /\ n \in Nat
  BY <1>3, <1>4
<1>7. slotDisk' = [slotDisk EXCEPT ![t][n] = {x}] /\ Rename(t, NewHead(k, t))
  BY <1>3, <1>4, <1>5, <1>6 DEF Publish
<1>8. /\ slotDisk'[t][n] = {x}
      /\ \A u \in Tables : \A s \in Seqs : u # t \/ s # n => slotDisk'[u][s] = slotDisk[u][s]
  BY <1>3, <1>7, TypeParts DEF DiskTypes
<1>9. /\ head'[t].seq = n /\ headDisk'[t] = headDisk[t] \cup {head'[t]}
      /\ \A u \in Tables : u # t => head'[u] = head[u] /\ headDisk'[u] = headDisk[u]
  BY <1>3, <1>4, <1>6, <1>7, RenameEffect
<1>10. head[t] = Base(k, t) /\ slot[t][n] = x /\ \A u \in Tables : ~Logged(x, u)
  BY <1>1, <1>3, <1>4, <1>5, <1>6 DEF CallOK, PutOK
<1>11. n = head[t].seq + 1
  BY <1>6, <1>10 DEF NewSeq
<1>12. /\ \A u \in Tables : /\ head[u].seq \in Nat /\ head[u] \in headDisk[u]
                            /\ \A h \in headDisk[u] : h.seq \in Nat /\ h.seq <= head[u].seq
       /\ \A y \in Ids : /\ DOMAIN entries[y] \subseteq Tables
                         /\ \A u \in DOMAIN entries[y] : entries[y][u].seq \in Nat
  BY <1>3, Versions DEF VersionsOK, AckInv, StoreInv
<1>13. /\ \A y \in Ids : ~Live(y)
       /\ \A u \in Tables : Top(u) = head[u].seq /\ Top(u) \in Nat
  <2>1. \A j \in Tasks : phase[j] \notin Journaled
    BY <1>2, HolderFacts DEF Journaled
  <2>2. QED
    BY <1>3, <2>1, NoneLive
<1>14. UNCHANGED <<journal, journalDisk, entries, lastId, acked>>
  BY <1>1 DEF journalVars, auxVars
<1>15. ASSUME NEW y \in Ids, Done(y) PROVE Done(y)'
  <2> SUFFICES ASSUME NEW u \in DOMAIN entries[y], NEW h \in headDisk'[u]
               PROVE  h.seq >= entries[y][u].seq
    BY <1>14 DEF Done
  <2>1. u \in Tables /\ \A g \in headDisk[u] : g.seq >= entries[y][u].seq
    BY <1>12, <1>15 DEF Done
  <2>2. h \in headDisk[u] \/ h.seq = head[u].seq + 1
    BY <1>9, <1>11, <2>1
  <2>3. QED
    BY <1>12, <2>1, <2>2
<1>16. \A y \in Ids : ~Live(y)'
  BY <1>13, <1>14, <1>15 DEF Live
<1>17. StoreInv'
  <2>1. ASSUME NEW u \in Tables PROVE \A h \in headDisk'[u] : h.seq <= head'[u].seq
    BY <1>6, <1>9, <1>11, <1>12
  <2>2. ASSUME NEW u \in Tables, NEW s \in Seqs PROVE slot'[u][s] \in slotDisk'[u][s]
    BY <1>1, <1>3, <1>8, <1>10 DEF StoreInv
  <2>3. ASSUME NEW u \in Tables PROVE slot'[u][0] = 0 /\ slotDisk'[u][0] = {0}
    BY <1>1, <1>3, <1>8, <1>11, <1>12, Zeros DEF StoreInv
  <2>4. QED
    BY <2>1, <2>2, <2>3 DEF StoreInv
<1>18. LiveInv'
  BY <1>16 DEF LiveInv
<1>19. \A u \in Tables : Top(u)' = head'[u].seq
  BY <1>16, <1>17, <1>18, TopNext DEF TopsOK, IInv
<1>20. Commits(x, {t})
  <2>1. ASSUME NEW u \in Tables
        PROVE  /\ ~Logged(x, u) /\ Top(u) \in Nat
               /\ Top(u)' = IF u \in {t} THEN Top(u) + 1 ELSE Top(u)
               /\ u \in {t} => slot'[u][Top(u) + 1] = x /\ slotDisk'[u][Top(u) + 1] = {x}
    BY <1>1, <1>8, <1>9, <1>10, <1>11, <1>13, <1>19
  <2>2. ASSUME NEW u \in Tables, NEW s \in 1..Top(u)
        PROVE  slot'[u][s] = slot[u][s] /\ slotDisk'[u][s] = slotDisk[u][s]
    <3>1. head[u].seq \in Seqs
      BY <1>3, Versions DEF VersionsOK
    <3>2. s \in Seqs /\ s <= head[u].seq
      BY <1>12, <1>13, <3>1, ConstantsAssumption DEF Seqs
    <3>3. QED
      BY <1>1, <1>8, <1>11, <1>12, <3>2
  <2>3. QED
    BY <1>1, <1>14, <2>1, <2>2 DEF Commits
<1>21. Frame(k) /\ phase'[k] = "harden"
  BY <1>1, <1>3, GotoFrame
<1>22. CallOK(k)'
  BY <1>21 DEF CallOK, Journaled
<1>23. DOMAIN entries'[x] = {}
  BY <1>2, <1>5, <1>14 DEF IInv, IdInv, IdOK
<1>24. AtomInv'
  BY <1>2, <1>5, <1>13, <1>14, <1>15, <1>17, <1>18, <1>20, <1>21, <1>22, <1>23, CommitKeeps
<1>25. QED
  BY <1>20, <1>24

(* The journal is the commit point of a transaction, in all its tables. *)
LEMMA PutJournalAtom ==
    ASSUME IInv, IInv', setting.alone, AtomInv, NEW k \in Tasks, PutJournal(k)
    PROVE  AtomInv' /\ \E x \in Ids : \E ts : Commits(x, ts)
<1>1. /\ phase[k] = "journal" /\ Goto(k, "jsync", {})
      /\ UNCHANGED <<setting, diskVars, lockVars, procVars, auxVars>>
  BY DEF PutJournal
<1>2. Active(k) /\ phase[k] \notin Journaled \cup {"idle"}
  BY <1>1 DEF Active, Journaled
<1>3. /\ TypeOK /\ TaskTypes /\ StoreInv /\ AckInv /\ ProgressOK(k) /\ CallOK(k) /\ call[k].id \in Ids
      /\ db[setting.procOf[k]] = "open" /\ TablesOf(k) # {} /\ TablesOf(k) \subseteq Tables
      /\ AloneInv
      /\ \A t \in TablesOf(k) : /\ NewHead(k, t).seq = NewSeq(k, t) /\ NewSeq(k, t) \in Seqs
                                /\ NewSeq(k, t) \in Nat /\ NewSeq(k, t) > Base(k, t).seq
  BY <1>2, HolderFacts
<1>4. PICK x \in Ids : x = call[k].id
  BY <1>3
<1>5. PICK ts : ts = TablesOf(k)
  OBVIOUS
<1> DEFINE f == [t \in TablesOf(k) |-> NewHead(k, t)]
<1>6. /\ journal'[x] = "whole" /\ entries'[x] = f
      /\ \A y \in Ids : y # x => /\ journal'[y] = journal[y] /\ journalDisk'[y] = journalDisk[y]
                                 /\ entries'[y] = entries[y]
  <2>1. /\ journal' = [journal EXCEPT ![x] = "whole"]
        /\ journalDisk' = [journalDisk EXCEPT ![x] = JournalStates]
        /\ entries' = [entries EXCEPT ![x] = f]
    BY <1>4 DEF PutJournal
  <2> HIDE DEF f
  <2>2. QED
    BY <1>3, <2>1, TypeParts DEF JournalTypes
<1>7. DOMAIN entries'[x] = ts /\ \A t \in ts : t \in Tables /\ entries'[x][t].seq = NewSeq(k, t)
  BY <1>3, <1>5, <1>6
<1> HIDE DEF f
<1>8. UNCHANGED <<head, headDisk, slot, slotDisk, lastId, acked>>
  BY <1>1 DEF diskVars, auxVars
<1>9. \A t \in ts : head[t] = Base(k, t) /\ slotDisk[t][NewSeq(k, t)] = {x}
  BY <1>1, <1>3, <1>4, <1>5 DEF AloneInv, ProgressOK, DurableOK
<1>10. \A t \in ts : NewSeq(k, t) = head[t].seq + 1 /\ NewSeq(k, t) \in Seqs
  BY <1>3, <1>5, <1>9 DEF NewSeq
<1>11. \A u \in Tables : /\ head[u].seq \in Nat /\ head[u].seq \in Seqs /\ head[u] \in headDisk[u]
                         /\ \A h \in headDisk[u] : h.seq \in Nat /\ h.seq <= head[u].seq
  BY <1>3, Versions DEF VersionsOK, AckInv, StoreInv
<1>12. /\ \A y \in Ids : ~Live(y)
       /\ \A u \in Tables : Top(u) = head[u].seq /\ Top(u) \in Nat
  <2>1. \A j \in Tasks : phase[j] \notin Journaled
    BY <1>2, HolderFacts DEF Journaled
  <2>2. QED
    BY <1>3, <2>1, NoneLive
<1>13. Live(x)'
  <2>1. PICK t \in ts : t \in Tables
    BY <1>3, <1>5
  <2>2. ~(head[t].seq >= entries'[x][t].seq)
    BY <1>7, <1>10, <1>11, <2>1
  <2>3. QED
    BY <1>6, <1>7, <1>8, <1>11, <2>1, <2>2 DEF Live, Done
<1>14. \A y \in Ids : y # x => ~Live(y)' /\ (Done(y) => Done(y)')
  BY <1>6, <1>8, <1>12 DEF Live, Done
<1>15. StoreInv'
  BY <1>3, <1>8 DEF StoreInv
<1>16. Frame(k) /\ phase'[k] = "jsync" /\ call' = call /\ UNCHANGED db
  BY <1>1, <1>3, GotoFrame DEF procVars
<1>17. LiveOK(x)'
  <2>1. ASSUME NEW p \in Procs PROVE Completing(p, x)'
    <3>1. db[p] \in {"closed", "open"}
      BY <1>3, NoScan
    <3>2. phase'[k] \in Journaled /\ call'[k].id = x
      BY <1>4, <1>16 DEF Journaled
    <3>3. QED
      BY <1>16, <3>1, <3>2 DEF Completing
  <2>2. ASSUME NEW t \in ts
        PROVE  /\ slotDisk'[t][entries'[x][t].seq] = {x}
               /\ \A h \in headDisk'[t] : h.seq <= entries'[x][t].seq /\ h.seq < entries'[x][t].seq
    BY <1>7, <1>8, <1>9, <1>10, <1>11
  <2>3. QED
    BY <1>6, <1>7, <2>1, <2>2 DEF LiveOK
<1>18. LiveInv'
  BY <1>14, <1>17 DEF LiveInv
<1>19. \A u \in Tables : Top(u)' = IF u \in ts THEN Top(u) + 1 ELSE Top(u)
  <2>1. TopsOK'
    BY <1>15, <1>18, TopNext DEF IInv
  <2>2. \A u \in ts : Top(u)' = entries'[x][u].seq
    BY <1>7, <1>13, <2>1 DEF TopsOK
  <2>3. \A u \in Tables \ ts : Top(u)' = head'[u].seq
    BY <1>7, <1>14, <2>1 DEF TopsOK
  <2>4. QED
    BY <1>7, <1>8, <1>10, <1>12, <2>2, <2>3
<1>20. Commits(x, ts)
  <2>1. ASSUME NEW u \in ts PROVE slot'[u][Top(u) + 1] = x /\ slotDisk'[u][Top(u) + 1] = {x}
    <3>1. u \in Tables /\ Top(u) + 1 \in Seqs /\ slotDisk[u][Top(u) + 1] = {x}
      BY <1>7, <1>9, <1>10, <1>12
    <3>2. QED
      BY <1>3, <1>8, <3>1 DEF StoreInv
  <2>2. \A u \in Tables : ~Logged(x, u)
    BY <1>1, <1>3, <1>4 DEF CallOK
  <2>3. QED
    BY <1>1, <1>3, <1>5, <1>8, <1>12, <1>19, <2>1, <2>2 DEF Commits
<1>21. CallOK(k)'
  <2>1. "jsync" \in Journaled
    BY DEF Journaled
  <2>2. journal'[call'[k].id] = "whole" /\ entries'[call'[k].id] = f
    BY <1>4, <1>6, <1>16
  <2>3. QED
    BY <1>16, <2>1, <2>2 DEF CallOK, f, TablesOf, NewHead, Base
<1>22. \A t \in ts : entries'[x][t].seq = Top(t) + 1
  BY <1>7, <1>10, <1>12
<1>23. AtomInv'
  BY <1>2, <1>4, <1>6, <1>7, <1>8, <1>12, <1>13, <1>14, <1>15, <1>16, <1>18, <1>20, <1>21, <1>22, CommitKeeps
<1>24. QED
  BY <1>20, <1>23
-----------------------------------------------------------------------------
(* A step while no call runs, once the scan is known to be right. *)
LEMMA ScanKeeps ==
    ASSUME IInv, IInv', setting.alone, AtomInv, FilesKept, ScanInv', acked' = acked,
           \A k \in Tasks : phase'[k] = "idle",
           \A x \in Ids : Live(x) /\ Live(x)' => \A p \in Procs : Completing(p, x)'
    PROVE  AtomInv' /\ Stutters
<1>1. StoreInv /\ LiveInv /\ LogInv /\ LogParts /\ TypeOK' /\ AckInv' /\ setting' = setting
  BY DEF AtomInv, LogParts, IInv, FilesKept
<1>2. \A x \in Ids : Live(x)' => \A p \in Procs : Completing(p, x)'
  BY <1>1, LiveKept
<1>3. LogParts' /\ commits' = commits
  BY <1>1, <1>2, FilesKeep
<1>4. CallInv'
  BY IdleCall DEF CallInv
<1>5. QED
  BY <1>1, <1>3, <1>4 DEF LogParts, AtomInv, Stutters

(* A step of the one process that is recovering or opens. *)
LEMMA ProcAtom ==
    ASSUME IInv, IInv', setting.alone, AtomInv, NEW p \in Procs, FilesKept, acked' = acked, phase' = phase,
           \A k \in Tasks : phase[k] = "idle",
           \A q \in Procs : q # p => db'[q] = "closed",
           \A x \in Ids : Live(x) /\ Live(x)' => Completing(p, x)',
           db'[p] \notin {"closed", "open"} => ScanOK(p)'
    PROVE  AtomInv' /\ Stutters
<1>1. ScanInv'
  BY DEF ScanInv
<1>2. \A x \in Ids : Live(x) /\ Live(x)' => \A q \in Procs : Completing(q, x)'
  BY DEF Completing
<1>3. QED
  BY <1>1, <1>2, ScanKeeps

(* An open lists every live journal, written back: the process opens with  *)
(* nothing to complete or recovers it.                                     *)
LEMMA OpenAtom ==
    ASSUME IInv, IInv', setting.alone, setting.writeBack, AtomInv, NEW p \in Procs, Open(p)
    PROVE  AtomInv' /\ Stutters
<1> DEFINE found == {x \in Ids : journal[x] # "none"}
<1>1. /\ \A q \in Procs : db[q] = "closed"
      /\ \A x \in Ids : journalDisk[x] = {journal[x]}
      /\ \A t \in Tables : headDisk[t] = {head[t]}
      /\ queue' = [queue EXCEPT ![p] = found]
      /\ db' = [db EXCEPT ![p] = IF found = {} THEN "open" ELSE "recover"]
      /\ UNCHANGED <<setting, diskVars, journalVars, taskVars, left, auxVars>>
  BY DEF Open
<1>2. TypeOK /\ ProcTypes /\ StoreInv /\ LiveInv
  BY TypeParts DEF IInv, AtomInv
<1>3. UNCHANGED <<head, headDisk, journal, journalDisk, entries, phase, lastId, acked>>
  BY <1>1 DEF diskVars, journalVars, taskVars, auxVars
<1>4. /\ queue'[p] = found /\ db'[p] = IF found = {} THEN "open" ELSE "recover"
      /\ \A q \in Procs : q # p => db'[q] = "closed"
  BY <1>1, <1>2 DEF ProcTypes
<1>5. FilesKept
  BY <1>1, <1>2, <1>3, FilesSame
<1>6. \A k \in Tasks : phase[k] = "idle"
  <2>1. \A k \in Tasks : setting.procOf[k] \in Procs
    BY <1>2, TypeParts, ConstantsAssumption DEF SettingTypes
  <2>2. QED
    BY <1>1, <2>1, CallerOpen
<1>7. ASSUME NEW x \in Ids, Live(x) PROVE Completing(p, x)'
  <2>1. journal[x] = "whole"
    BY <1>2, <1>7 DEF LiveInv, LiveOK
  <2>2. x \in found /\ journalDisk'[x] = {"whole"}
    BY <1>1, <1>3, <2>1
  <2>3. QED
    BY <1>4, <2>2 DEF Completing
<1>8. ScanOK(p)'
  <2>1. left'[p] = {} /\ db'[p] # "sync"
    BY <1>1, <1>4 DEF IInv, RecoverInv, RecoverOK
  <2>2. QED
    BY <1>1, <1>3, <2>1 DEF ScanOK
<1>9. QED
  BY <1>3, <1>4, <1>5, <1>6, <1>7, <1>8, ProcAtom

(* An open that fails leaves what it found. *)
LEMMA ClosedAtom ==
    ASSUME IInv, IInv', setting.alone, AtomInv, NEW p \in Procs, db[p] \notin {"closed", "open"}, Closed(p),
           UNCHANGED <<setting, diskVars, journalVars, taskVars, auxVars>>
    PROVE  AtomInv' /\ Stutters
<1>1. TypeOK /\ ProcTypes /\ StoreInv
  BY TypeParts DEF IInv, AtomInv
<1>2. db'[p] = "closed" /\ \A q \in Procs : q # p => db'[q] = db[q]
  BY <1>1 DEF Closed, ProcTypes
<1>3. FilesKept /\ acked' = acked /\ phase' = phase
  BY <1>1, FilesSame DEF auxVars, taskVars
<1>4. (\A k \in Tasks : phase[k] = "idle") /\ \A q \in Procs : q # p => db[q] = "closed"
  BY ScanAlone
<1>5. \A x \in Ids : Completing(p, x)'
  BY <1>2 DEF Completing
<1>6. QED
  BY <1>2, <1>3, <1>4, <1>5, ProcAtom

(* What the process that recovers knows with one process at a time. *)
LEMMA ScanFacts ==
    ASSUME IInv, setting.alone, AtomInv, NEW p \in Procs, db[p] \notin {"closed", "open"}
    PROVE  /\ TypeOK /\ ProcTypes /\ AckInv /\ RecoverInv /\ StoreInv /\ LiveInv /\ ScanOK(p)
           /\ \A k \in Tasks : phase[k] = "idle"
           /\ \A q \in Procs : q # p => db[q] = "closed"
           /\ \A x \in Ids : Live(x) => x \in queue[p] /\ journalDisk[x] = {"whole"}
<1>1. /\ TypeOK /\ ProcTypes /\ AckInv /\ RecoverInv /\ StoreInv /\ LiveInv /\ ScanOK(p)
  BY TypeParts DEF IInv, AtomInv, ScanInv
<1>2. \A x \in Ids : Live(x) => x \in queue[p] /\ journalDisk[x] = {"whole"}
  BY <1>1 DEF LiveInv, LiveOK, Completing
<1>3. QED
  BY <1>1, <1>2, ScanAlone

(* A journal is taken in hand, or the open fails. *)
LEMMA ReadJournalAtom ==
    ASSUME IInv, IInv', setting.alone, AtomInv, NEW p \in Procs, ReadJournal(p)
    PROVE  AtomInv' /\ Stutters
<1> DEFINE x == First(queue[p])
<1>1. db[p] = "recover" /\ UNCHANGED <<setting, diskVars, journalVars, taskVars, auxVars>>
  BY DEF ReadJournal
<1>2. CASE Closed(p)
  BY <1>1, <1>2, ClosedAtom
<1>3. CASE /\ journal[x] = "whole" /\ left' = [left EXCEPT ![p] = DOMAIN entries[x]]
           /\ UNCHANGED <<db, queue, seen>>
  <2>1. /\ TypeOK /\ ProcTypes /\ StoreInv /\ ScanOK(p)
        /\ \A k \in Tasks : phase[k] = "idle"
        /\ \A q \in Procs : q # p => db[q] = "closed"
        /\ \A y \in Ids : Live(y) => y \in queue[p] /\ journalDisk[y] = {"whole"}
    BY <1>1, ScanFacts
  <2>2. UNCHANGED <<head, headDisk, journal, journalDisk, entries, phase, lastId, acked>>
    BY <1>1 DEF diskVars, journalVars, taskVars, auxVars
  <2>3. FilesKept
    BY <1>1, <2>1, <2>2, FilesSame
  <2>4. left'[p] = DOMAIN entries[x] /\ First(queue'[p]) = x
    BY <1>3, <2>1 DEF ProcTypes
  <2>5. ScanOK(p)'
    <3>1. \A t \in Tables : headDisk'[t] = {head'[t]}
      BY <1>1, <2>1, <2>2 DEF ScanOK
    <3>2. db'[p] # "sync" /\ DOMAIN entries'[x] \ left'[p] = {} /\ journal'[x] = "whole"
      BY <1>1, <1>3, <2>2, <2>4
    <3> HIDE DEF x
    <3>3. QED
      BY <2>4, <3>1, <3>2 DEF ScanOK
  <2>6. \A y \in Ids : Live(y) => Completing(p, y)'
    BY <1>1, <1>3, <2>1, <2>2 DEF Completing
  <2>7. QED
    BY <1>3, <2>1, <2>2, <2>3, <2>5, <2>6, ProcAtom
<1>4. QED
  BY <1>2, <1>3 DEF ReadJournal

(* One entry is durably at or above what the journal lists; after the last *)
(* one the journal is done, and deleted.                                   *)
LEMMA EntryDoneAtom ==
    ASSUME IInv, IInv', setting.alone, AtomInv, NEW p \in Procs, db[p] \notin {"closed", "open"},
           NEW t \in left[p], EntryDone(p, t), head[t].seq >= entries[First(queue[p])][t].seq,
           \A u \in Tables : headDisk'[u] = {head[u]},
           UNCHANGED <<setting, head, slot, slotDisk, taskVars, auxVars>>
    PROVE  AtomInv' /\ Stutters
<1>1. PICK x : x = First(queue[p])
  OBVIOUS
<1>2. /\ TypeOK /\ ProcTypes /\ AckInv /\ RecoverInv /\ StoreInv /\ LiveInv /\ ScanOK(p)
      /\ \A k \in Tasks : phase[k] = "idle"
      /\ \A q \in Procs : q # p => db[q] = "closed"
      /\ \A y \in Ids : Live(y) => y \in queue[p] /\ journalDisk[y] = {"whole"}
  BY ScanFacts
<1>3. /\ x \in queue[p] /\ x \in Ids /\ t \in DOMAIN entries[x] /\ t \in Tables
  BY <1>1, <1>2, JournalInHand
<1>4. UNCHANGED <<phase, lastId, acked, entries>>
  BY DEF taskVars, auxVars, EntryDone, DeleteJournal, journalVars
<1>5. \A u \in DOMAIN entries[x] \ (left[p] \ {t}) : u \in Tables /\ head[u].seq >= entries[x][u].seq
  <2>1. DOMAIN entries[x] \subseteq Tables
    BY <1>2, <1>3, Versions DEF VersionsOK
  <2>2. \A u \in DOMAIN entries[x] \ left[p] : \A h \in headDisk[u] : h.seq >= entries[x][u].seq
    BY <1>1, <1>2 DEF ScanOK
  <2>3. \A u \in Tables : head[u] \in headDisk[u]
    BY <1>2 DEF AckInv
  <2>4. QED
    BY <1>1, <2>1, <2>2, <2>3
<1>6. HeadsKept /\ SlotsKept
  BY <1>2, SlotsSame DEF HeadsKept, AckInv
<1>7. journal[x] = "whole"
  BY <1>1, <1>2 DEF ScanOK
<1>8. left' = [left EXCEPT ![p] = left[p] \ {t}]
  BY DEF EntryDone
<1>9. CASE left[p] = {t}
  <2>1. /\ journal' = [journal EXCEPT ![x] = "none"]
        /\ journalDisk' = [journalDisk EXCEPT ![x] = journalDisk[x] \cup {"none"}]
        /\ queue' = [queue EXCEPT ![p] = queue[p] \ {x}]
        /\ db' = [db EXCEPT ![p] = IF queue[p] = {x} THEN "open" ELSE "recover"]
    BY <1>1, <1>9 DEF EntryDone, DeleteJournal
  <2>2. Done(x)'
    BY <1>4, <1>5, <1>9 DEF Done
  <2>3. \A y \in Ids : y # x => journal'[y] = journal[y] /\ journalDisk'[y] = journalDisk[y]
    BY <1>2, <2>1, TypeParts DEF JournalTypes
  <2>4. FilesKept
    BY <1>4, <1>6, <2>2, <2>3 DEF FilesKept, JournalsKept
  <2>5. /\ queue'[p] = queue[p] \ {x} /\ left'[p] = {}
        /\ db'[p] = IF queue[p] = {x} THEN "open" ELSE "recover"
        /\ \A q \in Procs : q # p => db'[q] = "closed"
    BY <1>2, <1>8, <1>9, <2>1 DEF ProcTypes
  <2>6. ASSUME NEW y \in Ids, Live(y), Live(y)' PROVE Completing(p, y)'
    <3>1. y # x
      BY <2>2, <2>6 DEF Live
    <3>2. y \in queue'[p] /\ db'[p] = "recover" /\ journalDisk'[y] = {"whole"}
      BY <1>2, <2>3, <2>5, <2>6, <3>1
    <3>3. QED
      BY <3>2 DEF Completing
  <2>7. ScanOK(p)'
    BY <2>5 DEF ScanOK
  <2>8. QED
    BY <1>2, <1>4, <2>4, <2>5, <2>6, <2>7, ProcAtom
<1>10. CASE left[p] # {t}
  <2>1. db' = [db EXCEPT ![p] = "recover"] /\ UNCHANGED <<queue, journal, journalDisk>>
    BY <1>10 DEF EntryDone, journalVars
  <2>2. FilesKept
    BY <1>4, <1>6, <2>1 DEF FilesKept, JournalsKept
  <2>3. /\ left'[p] = left[p] \ {t} /\ db'[p] = "recover" /\ First(queue'[p]) = x
        /\ \A q \in Procs : q # p => db'[q] = "closed"
    BY <1>1, <1>2, <1>8, <2>1 DEF ProcTypes
  <2>4. \A y \in Ids : Live(y) => Completing(p, y)'
    BY <1>2, <2>1, <2>3 DEF Completing
  <2>5. ScanOK(p)'
    BY <1>4, <1>5, <1>7, <2>1, <2>3 DEF ScanOK
  <2>6. QED
    BY <1>2, <1>4, <2>2, <2>3, <2>4, <2>5, ProcAtom
<1>11. QED
  BY <1>9, <1>10
(* Recovery reads a HEAD that is on disk, and decides. *)
LEMMA RecoverReadAtom ==
    ASSUME IInv, IInv', setting.alone, AtomInv, NEW p \in Procs, RecoverRead(p)
    PROVE  AtomInv' /\ Stutters
<1>1. db[p] = "recover" /\ UNCHANGED <<setting, diskVars, taskVars, auxVars>>
  BY DEF RecoverRead
<1>2. UNCHANGED <<head, headDisk, slot, slotDisk, phase, lastId, acked>>
  BY <1>1 DEF diskVars, taskVars, auxVars
<1>3. /\ TypeOK /\ ProcTypes /\ StoreInv /\ ScanOK(p)
      /\ \A k \in Tasks : phase[k] = "idle"
      /\ \A q \in Procs : q # p => db[q] = "closed"
      /\ \A y \in Ids : Live(y) => y \in queue[p] /\ journalDisk[y] = {"whole"}
  BY <1>1, ScanFacts
<1>4. \A u \in Tables : headDisk[u] = {head[u]}
  BY <1>1, <1>3 DEF ScanOK
<1>5. ASSUME NEW t \in left[p], head[t].seq >= entries[First(queue[p])][t].seq, EntryDone(p, t)
      PROVE  AtomInv' /\ Stutters
  BY <1>1, <1>2, <1>4, <1>5, EntryDoneAtom
<1>6. ASSUME NEW t \in left[p], seen' = [seen EXCEPT ![p] = [table |-> t, head |-> head[t]]],
             db' = [db EXCEPT ![p] = "swap"], UNCHANGED <<queue, left, journalVars>>
      PROVE  AtomInv' /\ Stutters
  <2>1. db'[p] = "swap" /\ \A q \in Procs : q # p => db'[q] = "closed"
    BY <1>3, <1>6 DEF ProcTypes
  <2>2. UNCHANGED <<journal, journalDisk, entries>>
    BY <1>6 DEF journalVars
  <2>3. FilesKept
    BY <1>1, <1>2, <1>3, <1>6, FilesSame
  <2>4. \A y \in Ids : Live(y) => Completing(p, y)'
    BY <1>3, <1>6, <2>1, <2>2 DEF Completing
  <2>5. ScanOK(p)'
    BY <1>2, <1>3, <1>4, <1>6, <2>1, <2>2 DEF ScanOK, First
  <2>6. QED
    BY <1>2, <1>3, <2>1, <2>3, <2>4, <2>5, ProcAtom
<1>7. QED
  BY <1>5, <1>6 DEF RecoverRead

(* Recovery moves a HEAD to the entry of the live journal. *)
LEMMA RecoverSwapAtom ==
    ASSUME IInv, IInv', setting.alone, AtomInv, NEW p \in Procs, RecoverSwap(p)
    PROVE  AtomInv' /\ Stutters
<1>1. /\ db[p] = "swap" /\ UNCHANGED <<setting, slot, slotDisk, journalVars, taskVars, auxVars>>
  BY DEF RecoverSwap
<1>2. CASE Closed(p) /\ UNCHANGED <<head, headDisk>>
  BY <1>1, <1>2, ClosedAtom DEF diskVars
<1>3. PICK t : t = seen[p].table
  OBVIOUS
<1>4. PICK x : x = First(queue[p])
  OBVIOUS
<1>5. CASE /\ head[t] = seen[p].head /\ Rename(t, entries[x][t])
           /\ db' = [db EXCEPT ![p] = "sync"] /\ UNCHANGED <<queue, left, seen>>
  <2>1. /\ TypeOK /\ ProcTypes /\ AckInv /\ RecoverInv /\ StoreInv /\ ScanOK(p)
        /\ \A k \in Tasks : phase[k] = "idle"
        /\ \A q \in Procs : q # p => db[q] = "closed"
        /\ \A y \in Ids : Live(y) => y \in queue[p] /\ journalDisk[y] = {"whole"}
    BY <1>1, ScanFacts
  <2>2. /\ x \in Ids /\ t \in DOMAIN entries[x] /\ t \in left[p] /\ t \in Tables
        /\ entries[x][t].seq \in Seqs
    BY <1>1, <1>3, <1>4, <2>1, JournalInHand
  <2>3. /\ head'[t] = entries[x][t] /\ headDisk'[t] = headDisk[t] \cup {entries[x][t]}
        /\ \A u \in Tables : u # t => head'[u] = head[u] /\ headDisk'[u] = headDisk[u]
    BY <1>5, <2>1, <2>2, RenameEffect
  <2>4. Live(x)
    <3>1. journal[x] = "whole" /\ head[t].seq < entries[x][t].seq /\ head[t] \in headDisk[t]
      BY <1>1, <1>3, <1>4, <1>5, <2>1, <2>2 DEF ScanOK, RecoverInv, RecoverOK, AckInv
    <3>2. head[t].seq \in Nat /\ entries[x][t].seq \in Nat
      BY <2>1, <2>2, Versions DEF VersionsOK
    <3>3. QED
      BY <2>2, <3>1, <3>2 DEF Live, Done
  <2>5. UNCHANGED <<journal, journalDisk, entries, phase, lastId, acked>>
    BY <1>1 DEF journalVars, taskVars, auxVars
  <2>6. FilesKept
    <3>1. HeadsKept
      BY <2>1, <2>2, <2>3, <2>4 DEF HeadsKept
    <3>2. QED
      BY <1>1, <2>1, <2>5, <3>1, SlotsSame DEF FilesKept, JournalsKept
  <2>7. db'[p] = "sync" /\ \A q \in Procs : q # p => db'[q] = "closed"
    BY <1>5, <2>1 DEF ProcTypes
  <2>8. \A y \in Ids : Live(y) => Completing(p, y)'
    BY <1>5, <2>1, <2>5, <2>7 DEF Completing
  <2>9. ScanOK(p)'
    <3>1. \A u \in Tables : headDisk'[u] = {head'[u]} \/ u = t
      BY <1>1, <2>1, <2>3 DEF ScanOK
    <3>2. /\ journal[x] = "whole"
          /\ \A u \in DOMAIN entries[x] \ left[p] : \A h \in headDisk[u] : h.seq >= entries[x][u].seq
      BY <1>4, <2>1, <2>2 DEF ScanOK
    <3>3. \A u \in DOMAIN entries[x] \ left[p] : headDisk'[u] = headDisk[u]
      <4>1. DOMAIN entries[x] \subseteq Tables
        BY <2>1, <2>2, Versions DEF VersionsOK
      <4>2. QED
        BY <2>2, <2>3, <4>1
    <3>4. head'[t].seq >= entries[x][t].seq
      BY <2>2, <2>3, ConstantsAssumption DEF Seqs
    <3>5. seen'[p].table = t /\ First(queue'[p]) = x /\ left'[p] = left[p]
      BY <1>3, <1>4, <1>5
    <3>6. QED
      BY <2>5, <2>7, <3>1, <3>2, <3>3, <3>4, <3>5 DEF ScanOK
  <2>10. QED
    BY <2>1, <2>5, <2>6, <2>7, <2>8, <2>9, ProcAtom
<1>6. QED
  BY <1>2, <1>3, <1>4, <1>5 DEF RecoverSwap

(* ... and fsyncs its directory. *)
LEMMA RecoverSyncAtom ==
    ASSUME IInv, IInv', setting.alone, AtomInv, NEW p \in Procs, RecoverSync(p)
    PROVE  AtomInv' /\ Stutters
<1>1. PICK t : t = seen[p].table
  OBVIOUS
<1>2. /\ db[p] = "sync" /\ SyncDirs({t}) /\ EntryDone(p, t)
      /\ UNCHANGED <<setting, head, slot, slotDisk, taskVars, auxVars>>
  BY <1>1 DEF RecoverSync
<1>3. TypeOK /\ RecoverInv /\ ScanOK(p)
  BY <1>2, ScanFacts
<1>4. t \in left[p]
  BY <1>1, <1>2, <1>3, JournalInHand
<1>5. \A u \in Tables : headDisk'[u] = {head[u]}
  BY <1>1, <1>2, <1>3 DEF SyncDirs, ScanOK
<1>6. head[t].seq >= entries[First(queue[p])][t].seq
  BY <1>1, <1>2, <1>3 DEF ScanOK
<1>7. QED
  BY <1>2, <1>4, <1>5, <1>6, EntryDoneAtom

(* The process dies, and its calls with it. *)
LEMMA CrashAtom ==
    ASSUME IInv, IInv', setting.alone, AtomInv, NEW p \in Procs, Crash(p)
    PROVE  AtomInv' /\ Stutters
<1>1. /\ db[p] # "closed" /\ Closed(p) /\ UNCHANGED <<setting, diskVars, journalVars, lastId, acked>>
  BY DEF Crash
<1>2. TypeOK /\ ProcTypes /\ StoreInv /\ AloneInv
  BY TypeParts DEF IInv, AtomInv
<1>3. \A q \in Procs : db'[q] = "closed"
  BY <1>1, <1>2 DEF Closed, ProcTypes, AloneInv
<1>4. \A k \in Tasks : phase'[k] = "idle"
  <2>1. \A k \in Tasks : setting'.procOf[k] \in Procs
    BY <1>1, <1>2, TypeParts, ConstantsAssumption DEF SettingTypes
  <2>2. \A k \in Tasks : phase'[k] # "idle" => db'[setting'.procOf[k]] = "open"
    BY DEF IInv, IdInv, IdOK
  <2>3. QED
    BY <1>3, <2>1, <2>2
<1>5. FilesKept
  BY <1>1, <1>2, FilesSame
<1>6. ScanInv' /\ \A x \in Ids : \A q \in Procs : Completing(q, x)'
  BY <1>3 DEF ScanInv, Completing
<1>7. QED
  BY <1>1, <1>4, <1>5, <1>6, ScanKeeps

(* The kernel writes everything back. *)
LEMMA FlushAtom ==
    ASSUME IInv, IInv', setting.alone, AtomInv, Flush
    PROVE  AtomInv' /\ Stutters
<1>1. /\ \A k \in Tasks : phase[k] = "idle"
      /\ \A x \in Ids : journalDisk'[x] = {journal[x]}
      /\ \A t \in Tables : headDisk'[t] = {head[t]}
      /\ UNCHANGED <<setting, head, slot, slotDisk, journal, entries, phase, db, queue, left, seen, lastId,
                     acked>>
  BY DEF Flush, taskVars, procVars, auxVars
<1>2. TypeOK /\ StoreInv /\ LiveInv /\ AckInv /\ ScanInv
  BY DEF IInv, AtomInv
<1>3. FilesKept
  BY <1>1, <1>2, SlotsSame DEF FilesKept, HeadsKept, JournalsKept, AckInv
<1>4. ASSUME NEW x \in Ids, Live(x), NEW p \in Procs PROVE Completing(p, x)'
  <2>1. Completing(p, x) /\ journal[x] = "whole"
    BY <1>2, <1>4 DEF LiveInv, LiveOK
  <2>2. QED
    BY <1>1, <2>1 DEF Completing, Journaled
<1>5. ASSUME NEW p \in Procs, db'[p] \notin {"closed", "open"} PROVE ScanOK(p)'
  <2>1. ScanOK(p) /\ \A t \in Tables : head[t] \in headDisk[t]
    BY <1>1, <1>2, <1>5 DEF ScanInv, AckInv
  <2>2. PICK x : x = First(queue[p])
    OBVIOUS
  <2>3. left[p] # {} =>
          /\ journal[x] = "whole"
          /\ \A t \in DOMAIN entries[x] \ left[p] : \A h \in headDisk'[t] : h.seq >= entries[x][t].seq
    <3>1. left[p] # {} => x \in Ids /\ DOMAIN entries[x] \subseteq Tables
      <4> SUFFICES ASSUME NEW t \in left[p] PROVE x \in Ids /\ DOMAIN entries[x] \subseteq Tables
        OBVIOUS
      <4>1. x \in Ids
        BY <1>2, <2>2, JournalInHand DEF IInv
      <4>2. QED
        BY <1>2, <4>1, Versions DEF VersionsOK
    <3>2. QED
      BY <1>1, <2>1, <2>2, <3>1 DEF ScanOK
  <2>4. db[p] = "sync" => head[seen[p].table].seq >= entries[x][seen[p].table].seq
    BY <2>1, <2>2 DEF ScanOK
  <2>5. First(queue'[p]) = x /\ \A t \in Tables : headDisk'[t] = {head'[t]}
    BY <1>1, <2>2
  <2>6. QED
    BY <1>1, <2>3, <2>4, <2>5 DEF ScanOK
<1>6. QED
  BY <1>1, <1>3, <1>4, <1>5, ScanKeeps DEF ScanInv
-----------------------------------------------------------------------------
(* What a power loss may take back: the ends of logs, of all tables of a   *)
(* commit or of none, and nothing that was answered.                       *)
Loses ==
    /\ acked' = acked /\ setting' = setting
    /\ \A t \in Tables : /\ Top(t) \in Nat /\ Top(t)' \in 0..Top(t)
                         /\ \A s \in 1..(Top(t)') : slot'[t][s] = slot[t][s]
    /\ \A x : \A t, u \in Tables : Logged(x, t) /\ Logged(x, u)' => Logged(x, t)'
    /\ \A x \in acked : \A t \in Tables : Logged(x, t) => Logged(x, t)'

(* A power loss takes the live journal or leaves it whole. *)
LEMMA PowerLossAtom ==
    ASSUME IInv, IInv', setting.alone, AtomInv, PowerLoss
    PROVE  AtomInv' /\ Loses
<1>1. /\ \A p \in Procs : db'[p] = "closed"
      /\ \A k \in Tasks : phase'[k] = "idle"
      /\ UNCHANGED <<setting, entries, lastId, acked>>
  BY DEF PowerLoss
<1>2. /\ TypeOK /\ AckInv /\ StoreInv /\ LiveInv /\ LogInv /\ TopsOK
      /\ TypeOK' /\ AckInv' /\ lastId \in Nat /\ 1..lastId \subseteq Ids
  BY TopIs, TypeParts, ConstantsAssumption DEF IInv, AtomInv, AuxTypes, Ids
<1>3. /\ \A t \in Tables : head'[t] \in headDisk[t] /\ headDisk'[t] = {head'[t]}
      /\ \A t \in Tables : \A s \in Seqs :
            slot'[t][s] \in slotDisk[t][s] /\ slotDisk'[t][s] = {slot'[t][s]}
      /\ \A x \in Ids : journal'[x] \in journalDisk[x] /\ journalDisk'[x] = {journal'[x]}
  BY <1>2, AfterPowerLoss
<1>4. /\ \A t \in Tables : /\ head[t].seq \in Nat /\ head'[t].seq \in Nat /\ Top(t) \in Nat
                           /\ head'[t].seq <= head[t].seq /\ head[t].seq <= Top(t)
                           /\ \A s \in 1..Top(t) : s \in Seqs /\ s \in Nat
      /\ \A x \in Ids : /\ DOMAIN entries[x] \subseteq Tables
                        /\ \A t \in DOMAIN entries[x] : entries[x][t].seq \in Nat /\ entries[x][t].seq \in Seqs
  <2>1. \A t \in Tables : Top(t) \in Nat /\ Top(t) \in Seqs /\ head[t].seq <= Top(t)
    BY <1>2 DEF TopsOK
  <2>2. \A t \in Tables : \A s \in 1..Top(t) : s \in Seqs /\ s \in Nat
    BY <2>1, ConstantsAssumption DEF Seqs
  <2>3. \A t \in Tables : head'[t].seq <= head[t].seq
    BY <1>2, <1>3 DEF StoreInv
  <2>4. VersionsOK /\ VersionsOK'
    BY <1>2, Versions, VersionsNext
  <2>5. QED
    BY <2>1, <2>2, <2>3, <2>4 DEF VersionsOK
<1>5. \A x \in Ids : Done(x) => Done(x)'
  BY <1>1, <1>3, <1>4 DEF Done
<1>6. \A x \in Ids : Live(x)' => Live(x) /\ journal'[x] = "whole"
  BY <1>3, <1>5 DEF Live
<1>7. StoreInv'
  <2>1. \A t \in Tables : slot'[t][0] = 0 /\ slotDisk'[t][0] = {0}
    BY <1>2, <1>3, Zeros DEF StoreInv
  <2>2. \A t \in Tables : \A h \in headDisk'[t] : h.seq <= head'[t].seq
    BY <1>3, <1>4
  <2>3. QED
    BY <1>3, <2>1, <2>2 DEF StoreInv
<1>8. LiveInv'
  <2>1. ASSUME NEW x \in Ids, Live(x)' PROVE LiveOK(x)'
    <3>1. LiveOK(x) /\ journal'[x] = "whole" /\ journalDisk'[x] = {"whole"}
      BY <1>2, <1>3, <1>6, <2>1 DEF LiveInv
    <3>2. \A t \in DOMAIN entries[x] : /\ slotDisk'[t][entries[x][t].seq] = {x}
                                       /\ \A h \in headDisk'[t] : h.seq <= entries[x][t].seq
      <4> SUFFICES ASSUME NEW t \in DOMAIN entries[x]
                   PROVE  /\ slotDisk'[t][entries[x][t].seq] = {x}
                          /\ \A h \in headDisk'[t] : h.seq <= entries[x][t].seq
        OBVIOUS
      <4>1. PICK e \in Seqs : e = entries[x][t].seq /\ t \in Tables
        BY <1>4
      <4>2. slotDisk[t][e] = {x} /\ \A h \in headDisk[t] : h.seq <= e
        BY <3>1, <4>1 DEF LiveOK
      <4>3. QED
        BY <1>3, <4>1, <4>2
    <3>3. \A p \in Procs : Completing(p, x)'
      BY <1>1 DEF Completing
    <3>4. QED
      BY <1>1, <3>1, <3>2, <3>3 DEF LiveOK
  <2>2. QED
    BY <1>2, <1>6, <2>1 DEF LiveInv
<1>9. TopsOK'
  BY <1>2, <1>7, <1>8, TopNext
<1>10. \A t \in Tables : Top(t)' \in Nat /\ head'[t].seq <= Top(t)' /\ Top(t)' <= Top(t)
  <2> SUFFICES ASSUME NEW t \in Tables
               PROVE  Top(t)' \in Nat /\ head'[t].seq <= Top(t)' /\ Top(t)' <= Top(t)
    OBVIOUS
  <2>1. Top(t)' \in Nat /\ head'[t].seq <= Top(t)'
    BY <1>9 DEF TopsOK
  <2>2. ASSUME NEW x \in Ids, Live(x)', t \in DOMAIN entries[x] PROVE Top(t)' = Top(t)
    BY <1>1, <1>2, <1>6, <1>9, <2>2 DEF TopsOK
  <2>3. CASE \A x \in Ids : Live(x)' => t \notin DOMAIN entries[x]
    <3>1. Top(t)' = head'[t].seq
      BY <1>1, <1>9, <2>3 DEF TopsOK
    <3>2. QED
      BY <1>4, <2>1, <3>1
  <2>4. QED
    BY <1>4, <2>1, <2>2, <2>3
<1>11. \A t \in Tables : \A s \in 1..Top(t) :
          slot'[t][s] = slot[t][s] /\ slotDisk'[t][s] = {slot[t][s]}
  BY <1>2, <1>3, <1>4 DEF LogInv, LogOK
<1>12. \A x : \A t \in Tables : Logged(x, t)' => Logged(x, t)
  BY <1>4, <1>10, <1>11 DEF Logged
<1>13. ASSUME NEW x \in Ids, DOMAIN entries[x] # {}, NEW u \in Tables, Logged(x, u)'
       PROVE  /\ Live(x)' \/ Done(x)'
              /\ \A t \in DOMAIN entries[x] : entries[x][t].seq <= Top(t)'
  <2>1. PICK s \in 1..(Top(u)') : slot'[u][s] = x
    BY <1>13 DEF Logged
  <2>2. s \in 1..Top(u) /\ s \in Nat /\ s <= Top(u)'
    BY <1>4, <1>10, <2>1
  <2>3. slot[u][s] = x
    BY <1>11, <2>1, <2>2
  <2>4. u \in DOMAIN entries[x] /\ entries[x][u].seq = s /\ (Live(x) \/ Done(x))
    BY <1>2, <1>13, <2>2, <2>3 DEF LogInv, LogOK
  <2>5. Done(x)' => \A t \in DOMAIN entries[x] : entries[x][t].seq <= Top(t)'
    <3> SUFFICES ASSUME Done(x)', NEW t \in DOMAIN entries[x] PROVE entries[x][t].seq <= Top(t)'
      OBVIOUS
    <3>1. t \in Tables /\ head'[t].seq >= entries[x][t].seq
      BY <1>1, <1>3, <1>4 DEF Done
    <3>2. QED
      BY <1>4, <1>10, <3>1
  <2>6. Live(x)' => \A t \in DOMAIN entries[x] : entries[x][t].seq <= Top(t)'
    <3> SUFFICES ASSUME Live(x)', NEW t \in DOMAIN entries[x] PROVE entries[x][t].seq <= Top(t)'
      OBVIOUS
    <3>1. t \in Tables /\ Top(t)' = entries[x][t].seq
      BY <1>1, <1>4, <1>9 DEF TopsOK
    <3>2. QED
      BY <1>10, <3>1
  <2>7. ASSUME ~Live(x)', ~Done(x)' PROVE FALSE
    <3>1. Live(x) /\ LiveOK(x)
      BY <1>2, <1>5, <2>4, <2>7 DEF LiveInv
    <3>2. journal'[x] # "whole" /\ journalDisk[x] # {"whole"}
      BY <1>3, <2>7 DEF Live
    <3>3. head'[u].seq < entries[x][u].seq
      BY <1>3, <2>4, <3>1, <3>2 DEF LiveOK
    <3>4. \A y \in Ids : ~Live(y)'
      BY <1>2, <1>6, <2>7, <3>1 DEF LiveInv
    <3>5. Top(u)' = head'[u].seq
      BY <1>9, <3>4 DEF TopsOK
    <3>6. QED
      BY <1>4, <2>2, <2>4, <3>3, <3>5
  <2>8. QED
    BY <2>5, <2>6, <2>7
<1>14. ASSUME NEW x, NEW t \in Tables, NEW s \in 1..Top(t), slot[t][s] = x
       PROVE  /\ x \in Ids /\ x \in 1..lastId
              /\ DOMAIN entries[x] # {} => t \in DOMAIN entries[x] /\ entries[x][t].seq = s
              /\ DOMAIN entries[x] = {} => \A u \in Tables \ {t} : ~Logged(x, u)
  BY <1>2, <1>14 DEF LogInv, LogOK
<1>15. LogInv'
  <2> SUFFICES ASSUME NEW t \in Tables, NEW s \in 1..(Top(t)') PROVE LogOK(t, s)'
    BY DEF LogInv
  <2>1. s \in 1..Top(t)
    BY <1>4, <1>10
  <2>2. PICK x : x = slot[t][s]
    OBVIOUS
  <2>3. slot'[t][s] = x /\ slotDisk'[t][s] = {x}
    BY <1>11, <2>1, <2>2
  <2>4. /\ x \in Ids /\ x \in 1..lastId
        /\ DOMAIN entries[x] # {} => t \in DOMAIN entries[x] /\ entries[x][t].seq = s
        /\ DOMAIN entries[x] = {} => \A u \in Tables \ {t} : ~Logged(x, u)'
    BY <1>12, <1>14, <2>1, <2>2
  <2>5. Logged(x, t)'
    BY <2>3 DEF Logged
  <2>6. DOMAIN entries[x] # {} => Live(x)' \/ Done(x)'
    BY <1>13, <2>4, <2>5
  <2>7. QED
    BY <1>1, <2>3, <2>4, <2>6, LogOKNext
<1>16. AtomInv'
  <2>1. CallInv' /\ ScanInv'
    BY <1>1, IdleCall DEF CallInv, ScanInv
  <2>2. QED
    BY <1>7, <1>8, <1>15, <2>1 DEF AtomInv
<1>17. ASSUME NEW x, NEW t \in Tables, NEW u \in Tables, Logged(x, t), Logged(x, u)' PROVE Logged(x, t)'
  <2>1. PICK s \in 1..Top(t) : slot[t][s] = x
    BY <1>17 DEF Logged
  <2>2. Logged(x, u)
    BY <1>12, <1>17
  <2>3. CASE DOMAIN entries[x] = {}
    BY <1>14, <1>17, <2>1, <2>2, <2>3
  <2>4. CASE DOMAIN entries[x] # {}
    <3>1. x \in Ids /\ t \in DOMAIN entries[x] /\ entries[x][t].seq = s
      BY <1>14, <2>1, <2>4
    <3>2. s <= Top(t)'
      BY <1>13, <1>17, <2>4, <3>1
    <3>3. s \in 1..(Top(t)') /\ slot'[t][s] = x
      BY <1>4, <1>10, <1>11, <2>1, <3>2
    <3>4. QED
      BY <3>3 DEF Logged
  <2>5. QED
    BY <2>3, <2>4
<1>18. ASSUME NEW x \in acked, NEW t \in Tables, Logged(x, t) PROVE Logged(x, t)'
  <2>1. x \in Ids /\ x # 0
    BY <1>2, TypeParts, ConstantsAssumption DEF AuxTypes, Ids
  <2>2. ASSUME NEW u \in Tables, KeptSafe(x, u) PROVE Logged(x, u)'
    <3>1. PICK s \in Seqs : slotDisk[u][s] = {x} /\ \A h \in headDisk[u] : s <= h.seq
      BY <2>2 DEF KeptSafe
    <3>2. s # 0 /\ s <= head'[u].seq
      BY <1>2, <1>3, <2>1, <3>1 DEF StoreInv
    <3>3. s \in 1..(Top(u)')
      BY <1>4, <1>10, <3>2, ConstantsAssumption DEF Seqs
    <3>4. slot'[u][s] = x
      BY <1>3, <3>1
    <3>5. QED
      BY <3>3, <3>4 DEF Logged
  <2>3. PICK s \in 1..Top(t) : slot[t][s] = x
    BY <1>18 DEF Logged
  <2>4. CASE DOMAIN entries[x] = {}
    <3>1. PICK u \in Tables : KeptSafe(x, u)
      BY <1>2, <1>18 DEF AckInv
    <3>2. Logged(x, u)' /\ Logged(x, u)
      BY <1>12, <2>2, <3>1
    <3>3. u = t
      BY <1>14, <2>3, <2>4, <3>2
    <3>4. QED
      BY <3>2, <3>3
  <2>5. CASE DOMAIN entries[x] # {}
    <3>1. t \in DOMAIN entries[x]
      BY <1>14, <2>3, <2>5
    <3>2. QED
      BY <1>2, <1>18, <2>2, <3>1 DEF AckInv
  <2>6. QED
    BY <2>4, <2>5
<1>19. Loses
  <2>1. \A t \in Tables : Top(t)' \in 0..Top(t)
    BY <1>4, <1>10
  <2>2. \A t \in Tables : \A s \in 1..(Top(t)') : slot'[t][s] = slot[t][s]
    BY <1>4, <1>10, <1>11
  <2>3. QED
    BY <1>1, <1>4, <1>17, <1>18, <2>1, <2>2 DEF Loses
<1>20. QED
  BY <1>16, <1>19
-----------------------------------------------------------------------------
(* Logs as sequences: one more version, and the first ones only. *)
LEMMA AppendLog ==
    ASSUME NEW n \in Nat, NEW f, NEW g, \A s \in 1..n : g[s] = f[s]
    PROVE  [s \in 1..(n + 1) |-> g[s]] = Append([s \in 1..n |-> f[s]], g[n + 1])
<1> DEFINE l == [s \in 1..n |-> f[s]]
<1>1. Len(l) = n /\ \A s \in 1..n : l[s] = g[s]
  OBVIOUS
<1> HIDE DEF l
<1>2. QED
  BY <1>1

(* A log cut short. *)
LEMMA CutLog ==
    ASSUME NEW n \in Nat, NEW m \in 0..n, NEW f, NEW g, \A s \in 1..m : g[s] = f[s]
    PROVE  [s \in 1..m |-> g[s]] = SubSeq([s \in 1..n |-> f[s]], 1, m)
<1> DEFINE l == [s \in 1..n |-> f[s]]
<1>1. \A s \in 1..m : l[s] = g[s]
  OBVIOUS
<1> HIDE DEF l
<1>2. SubSeq(l, 1, m) = [s \in 1..m |-> l[s]]
  OBVIOUS
<1>3. QED
  BY <1>1, <1>2

(* Each kind of step is one of AtomicTables, or none. *)
LEMMA LogOfTable ==
    ASSUME setting.alone, NEW t \in Tables
    PROVE  /\ commits[t] = [s \in 1..Top(t) |-> slot[t][s]]
           /\ DOMAIN commits[t] = 1..Top(t)
           /\ \A x : Atomic!In(x, commits[t]) <=> Logged(x, t)
<1>1. commits[t] = [s \in 1..Top(t) |-> slot[t][s]]
  BY DEF commits
<1>2. QED
  BY <1>1 DEF Atomic!In, Logged

(* The same after a step. *)
LEMMA LogOfTableNext ==
    ASSUME setting'.alone, NEW t \in Tables
    PROVE  /\ commits'[t] = [s \in 1..(Top(t)') |-> slot'[t][s]]
           /\ \A x : Atomic!In(x, commits'[t]) <=> Logged(x, t)'
<1>1. commits'[t] = [s \in 1..(Top(t)') |-> slot'[t][s]]
  BY DEF commits
<1>2. QED
  BY <1>1 DEF Atomic!In, Logged

(* A step that commits and answers nothing. *)
LEMMA StutterMaps == ASSUME Stutters PROVE UNCHANGED Atomic!vars
BY DEF Stutters, Atomic!vars, told

(* An answer. *)
LEMMA AnswerMaps ==
    ASSUME setting.alone, NEW x \in Ids, Answers(x) PROVE Atomic!Ack(x)
<1>1. /\ commits' = commits /\ told' = told \cup {x} /\ \E t \in Tables : Logged(x, t)
  BY DEF Answers, told
<1>2. \E t \in Tables : Atomic!In(x, commits[t])
  BY <1>1, LogOfTable
<1>3. QED
  BY <1>1, <1>2 DEF Atomic!Ack

(* A commit. *)
LEMMA CommitMaps ==
    ASSUME setting.alone, NEW x \in Ids, NEW ts, Commits(x, ts)
    PROVE  ts \in (SUBSET Tables) \ {{}} /\ Atomic!Commit(x, ts)
<1>1. /\ ts # {} /\ ts \subseteq Tables /\ setting'.alone /\ told' = told
  BY DEF Commits, told
<1>2. \A t \in Tables : ~Atomic!In(x, commits[t])
  BY LogOfTable DEF Commits
<1>3. ASSUME NEW t \in Tables PROVE commits'[t] = IF t \in ts THEN Append(commits[t], x) ELSE commits[t]
  <2>1. /\ commits[t] = [s \in 1..Top(t) |-> slot[t][s]]
        /\ commits'[t] = [s \in 1..(Top(t)') |-> slot'[t][s]]
    BY <1>1, LogOfTable, LogOfTableNext
  <2>2. /\ Top(t) \in Nat /\ \A s \in 1..Top(t) : slot'[t][s] = slot[t][s]
        /\ Top(t)' = IF t \in ts THEN Top(t) + 1 ELSE Top(t)
        /\ t \in ts => slot'[t][Top(t) + 1] = x
    BY DEF Commits
  <2>3. CASE t \in ts
    <3>1. [s \in 1..(Top(t) + 1) |-> slot'[t][s]]
             = Append([s \in 1..Top(t) |-> slot[t][s]], slot'[t][Top(t) + 1])
      BY <2>2, AppendLog
    <3>2. QED
      BY <2>1, <2>2, <2>3, <3>1
  <2>4. CASE t \notin ts
    BY <2>1, <2>2, <2>4
  <2>5. QED
    BY <2>3, <2>4
<1>4. commits' = [t \in Tables |-> IF t \in ts THEN Append(commits[t], x) ELSE commits[t]]
  <2>1. commits' = [t \in Tables |-> commits'[t]]
    BY DEF commits
  <2>2. QED
    BY <1>3, <2>1
<1>5. ts \in (SUBSET Tables) \ {{}}
  BY <1>1
<1>6. QED
  BY <1>1, <1>2, <1>4, <1>5 DEF Atomic!Commit

(* A power loss. *)
LEMMA LossMaps == ASSUME setting.alone, Loses PROVE Atomic!PowerLoss
<1>1. setting'.alone /\ told' = told
  BY DEF Loses, told
<1>2. \A t \in Tables : Top(t) \in Nat /\ Top(t)' \in 0..Top(t) /\ Len(commits[t]) = Top(t)
  <2> TAKE t \in Tables
  <2>1. Top(t) \in Nat /\ Top(t)' \in 0..Top(t)
    BY DEF Loses
  <2>2. commits[t] = [s \in 1..Top(t) |-> slot[t][s]]
    BY LogOfTable
  <2>3. QED
    BY <2>1, <2>2
<1>3. PICK kept : kept = [t \in Tables |-> Top(t)']
  OBVIOUS
<1>4. /\ kept \in [Tables -> UNION {0..Len(commits[t]) : t \in Tables}]
      /\ \A t \in Tables : kept[t] = Top(t)' /\ kept[t] <= Len(commits[t])
  BY <1>2, <1>3
<1>5. commits' = [t \in Tables |-> SubSeq(commits[t], 1, kept[t])]
  <2>1. ASSUME NEW t \in Tables PROVE commits'[t] = SubSeq(commits[t], 1, kept[t])
    <3>1. /\ commits[t] = [s \in 1..Top(t) |-> slot[t][s]]
          /\ commits'[t] = [s \in 1..(Top(t)') |-> slot'[t][s]]
      BY <1>1, LogOfTable, LogOfTableNext
    <3>2. \A s \in 1..(Top(t)') : slot'[t][s] = slot[t][s]
      BY DEF Loses
    <3>3. [s \in 1..(Top(t)') |-> slot'[t][s]] = SubSeq([s \in 1..Top(t) |-> slot[t][s]], 1, Top(t)')
      BY <1>2, <3>2, CutLog
    <3>4. QED
      BY <1>4, <3>1, <3>3
  <2>2. commits' = [t \in Tables |-> commits'[t]]
    BY DEF commits
  <2>3. QED
    BY <2>1, <2>2
<1>6. ASSUME NEW t \in Tables, NEW s \in DOMAIN commits[t]
      PROVE  /\ Logged(commits[t][s], t)
             /\ \A u \in Tables : Atomic!In(commits[t][s], commits'[u]) => Atomic!In(commits[t][s], commits'[t])
             /\ commits[t][s] \in told => Atomic!In(commits[t][s], commits'[t])
  <2>1. PICK x : x = commits[t][s]
    OBVIOUS
  <2>2. Logged(x, t)
    <3>1. commits[t] = [i \in 1..Top(t) |-> slot[t][i]] /\ s \in 1..Top(t)
      BY <1>6, LogOfTable
    <3>2. x = slot[t][s]
      BY <2>1, <3>1
    <3>3. QED
      BY <3>1, <3>2 DEF Logged
  <2>3. \A u \in Tables : Logged(x, u)' => Logged(x, t)'
    BY <2>2 DEF Loses
  <2>4. x \in told => Logged(x, t)'
    BY <2>2 DEF Loses, told
  <2>5. \A u \in Tables : Atomic!In(x, commits'[u]) <=> Logged(x, u)'
    BY <1>1, LogOfTableNext
  <2>6. QED
    BY <2>1, <2>2, <2>3, <2>4, <2>5
<1>7. QED
  BY <1>1, <1>4, <1>5, <1>6 DEF Atomic!PowerLoss

(* What a behaviour assumes does not change. *)
LEMMA SettingKept == [Next]_vars => setting' = setting
BY DEF Next, vars, Stage, TaskStep, IoError, Timeout, Enter, Publish, Harden, Validate, PutManifests,
       SyncManifests, PutJournal, SyncJournal, LockTable, SwapHead, SyncHead, Finish, Open, ProcStep, Crash,
       ReadJournal, RecoverRead, RecoverSwap, RecoverSync, Flush, PowerLoss

(* With one process at a time and everything written back before the next  *)
(* open, every step keeps the invariant and is one of AtomicTables.        *)
LEMMA AloneStep ==
    ASSUME IInv, IInv', AtomInv, Next, setting.alone, setting.writeBack
    PROVE  AtomInv' /\ (Atomic!Next \/ UNCHANGED Atomic!vars)
<1>1. ASSUME NEW k \in Tasks, Stage(k) \/ TaskStep(k) \/ IoError(k)
      PROVE  AtomInv' /\ \/ Stutters
                         \/ \E x \in Ids : Answers(x) \/ \E ts : Commits(x, ts)
  <2>1. CASE Harden(k) \/ Finish(k)
    BY <2>1, HardenAtom, FinishAtom
  <2>2. CASE Publish(k) \/ PutJournal(k)
    BY <2>2, PublishAtom, PutJournalAtom
  <2>3. CASE Stage(k) \/ Timeout(k) \/ IoError(k) \/ Enter(k) \/ Validate(k)
    BY <2>3, StageAtom, TimeoutAtom, EnterAtom, ValidateAtom
  <2>4. CASE \/ PutManifests(k) \/ SyncManifests(k) \/ SyncJournal(k) \/ LockTable(k) \/ SwapHead(k)
             \/ SyncHead(k)
    BY <2>4, PutManifestsAtom, SyncManifestsAtom, SyncJournalAtom, LockTableAtom, SwapHeadAtom, SyncHeadAtom
  <2>5. QED
    BY <1>1, <2>1, <2>2, <2>3, <2>4 DEF TaskStep
<1>2. ASSUME NEW p \in Procs, Open(p) \/ ProcStep(p) \/ Crash(p) PROVE AtomInv' /\ Stutters
  BY <1>2, OpenAtom, ReadJournalAtom, RecoverReadAtom, RecoverSwapAtom, RecoverSyncAtom, CrashAtom DEF ProcStep
<1>3. AtomInv' /\ \/ Stutters \/ Loses
                  \/ \E x \in Ids : Answers(x) \/ \E ts : Commits(x, ts)
  BY <1>1, <1>2, FlushAtom, PowerLossAtom DEF Next
<1>4. ASSUME NEW x \in Ids, NEW ts, Commits(x, ts) PROVE Atomic!Next
  BY <1>4, CommitMaps DEF Atomic!Next
<1>5. ASSUME NEW x \in Ids, Answers(x) PROVE Atomic!Next
  BY <1>5, AnswerMaps DEF Atomic!Next
<1>6. ASSUME Loses PROVE Atomic!Next
  BY <1>6, LossMaps DEF Atomic!Next
<1>7. QED
  BY <1>3, <1>4, <1>5, <1>6, StutterMaps

(* The invariant behind the refinement holds at first, over empty logs. *)
LEMMA InitAtom == Init => AtomInv /\ Atomic!Init
<1> SUFFICES ASSUME Init PROVE AtomInv /\ Atomic!Init
  OBVIOUS
<1>1. /\ \A k \in Tasks : phase[k] = "idle"
      /\ \A p \in Procs : db[p] = "closed"
      /\ \A t \in Tables : head[t] = Head0 /\ headDisk[t] = {Head0}
      /\ \A t \in Tables : slot[t][0] = 0 /\ \A s \in Seqs : slotDisk[t][s] = {slot[t][s]}
      /\ \A x \in Ids : journal[x] = "none" /\ journalDisk[x] = {"none"}
      /\ acked = {}
  BY Zeros DEF Init
<1>2. StoreInv
  BY <1>1, Zeros DEF StoreInv, Head0
<1>3. \A x \in Ids : ~Live(x)
  BY <1>1 DEF Live
<1>4. LiveInv
  BY <1>3 DEF LiveInv
<1>5. \A t \in Tables : Top(t) = 0
  <2>1. TopsOK
    BY <1>2, <1>4, InitInvariant, TopIs DEF IInv
  <2>2. QED
    BY <1>1, <1>3, <2>1 DEF TopsOK, Head0
<1>6. LogInv /\ CallInv /\ ScanInv
  <2>1. LogInv
    BY <1>5 DEF LogInv
  <2>2. ASSUME NEW k \in Tasks PROVE CallOK(k)
    BY <1>1 DEF CallOK, Journaled
  <2>3. ScanInv
    BY <1>1 DEF ScanInv
  <2>4. QED
    BY <2>1, <2>2, <2>3 DEF CallInv
<1>7. Atomic!Init
  BY <1>1, <1>5 DEF Atomic!Init, commits, told
<1>8. QED
  BY <1>2, <1>4, <1>6, <1>7 DEF AtomInv

(* Transaction implements AtomicTables: every commit, of one table or of   *)
(* several, is one step in all its tables, and only a power loss before    *)
(* its acknowledgement takes it back, and then whole                       *)
(* (commit_staged_transaction, recover).  As in the run, behaviours with   *)
(* one process at a time have the previous one's writes on disk before the *)
(* next open; the claim is empty for the others (README section 5).        *)
THEOREM ImplementsAtomicHolds ==
    ASSUME \A s \in Settings : s.alone => s.writeBack
    PROVE  Spec => ImplementsAtomic
<1>1. Init => AtomInv /\ Atomic!Init
  BY InitAtom
<1>2. IInv /\ IInv' /\ AtomInv /\ [Next]_vars => AtomInv' /\ [Atomic!Next]_(Atomic!vars)
  <2> SUFFICES ASSUME IInv, IInv', AtomInv, [Next]_vars
               PROVE  AtomInv' /\ (Atomic!Next \/ UNCHANGED Atomic!vars)
    OBVIOUS
  <2>1. setting' = setting /\ (setting.alone => setting.writeBack)
    BY SettingKept, TypeParts DEF IInv, SettingTypes
  <2>2. CASE ~setting.alone
    BY <2>1, <2>2 DEF AtomInv, Atomic!vars, commits, told
  <2>3. CASE setting.alone /\ Next
    BY <2>1, <2>3, AloneStep
  <2>4. CASE UNCHANGED vars
    <3>1. UNCHANGED <<setting, head, headDisk, slot, slotDisk, journal, journalDisk, entries,
                      phase, call, todo, db, queue, left, seen, lastId, acked>>
      BY <2>4 DEF vars, diskVars, journalVars, lockVars, taskVars, procVars, auxVars
    <3>2. UNCHANGED Atomic!vars
      BY <3>1 DEF Atomic!vars, commits, told, Top, Pending, First
    <3>3. AtomInv'
      <4>1. StoreInv => StoreInv'
        BY <3>1 DEF StoreInv
      <4>2. LiveInv => LiveInv'
        BY <3>1 DEF LiveInv, LiveOK, Live, Done, Completing
      <4>3. LogInv => LogInv'
        <5>1. \A t \in Tables : Top(t)' = Top(t)
          BY <3>1 DEF Top, Pending, First
        <5>2. \A x : (Live(x)' <=> Live(x)) /\ (Done(x)' <=> Done(x))
          BY <3>1 DEF Live, Done
        <5>3. \A x : \A t \in Tables : Logged(x, t)' <=> Logged(x, t)
          BY <3>1, <5>1 DEF Logged
        <5>4. QED
          BY <3>1, <5>1, <5>2, <5>3 DEF LogInv, LogOK
      <4>4. CallInv => CallInv'
        <5>1. LogSame
          BY <3>1 DEF LogSame, Top, Pending, First
        <5>2. TaskTypes /\ UNCHANGED <<diskVars, journalVars>>
          BY <2>4, TypeParts DEF IInv, vars
        <5>3. QED
          BY <3>1, <5>1, <5>2, SameCall DEF CallInv
      <4>5. ScanInv => ScanInv'
        BY <3>1 DEF ScanInv, ScanOK, First
      <4>6. QED
        BY <3>1, <4>1, <4>2, <4>3, <4>4, <4>5 DEF AtomInv
    <3>4. QED
      BY <3>2, <3>3
  <2>5. QED
    BY <2>2, <2>3, <2>4
<1>3. QED
  BY <1>1, <1>2, InvariantHolds, PTL DEF Spec, ImplementsAtomic, Atomic!Spec
=============================================================================
