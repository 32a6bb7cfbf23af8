----------------------------- MODULE Kernel_proof -----------------------------
(***************************************************************************)
(* Proofs about Kernel, for every set of sessions and kernels, any cells   *)
(* and any number of crashes, deaths and interrupts: no kernel outlives    *)
(* its session unseen.                                                     *)
(***************************************************************************)
EXTENDS Kernel, WellFoundedInduction, TLAPS

-----------------------------------------------------------------------------
(* The least kernel name not used yet is one. *)
LEMMA LeastUnused == ASSUME Unused # {} PROVE Min(Unused) \in Unused
<1>1. Unused \subseteq Nat
  BY KernelAssumption DEF Unused
<1>2. PICK x \in Unused : \A y \in Unused : <<y, x>> \notin OpToRel(<, Nat)
  <2> HIDE DEF OpToRel
  <2>1. QED
    BY <1>1, WFMin, NatLessThanWellFounded
<1>3. \A y \in Unused : x =< y
  <2> SUFFICES ASSUME NEW y \in Unused PROVE x =< y
    OBVIOUS
  <2>1. x \in Nat /\ y \in Nat
    BY <1>1
  <2>2. ~(y < x)
    BY <1>2, <2>1 DEF OpToRel
  <2>3. QED
    BY <2>1, <2>2
<1>4. QED
  BY <1>3 DEF Min

(* The fields of the records. *)
LEMMA Fields ==
    /\ DOMAIN NewSession = {"pc", "kernel", "flag", "cell", "call", "todo", "at", "restart"}
    /\ DOMAIN NewKernel = {"pc", "queue", "running", "left", "asking", "replied", "broken", "sigint"}
    /\ NoKernel \notin Kernels
BY KernelAssumption DEF NewSession, NewKernel, NoKernel

-----------------------------------------------------------------------------
(***************************************************************************)
(* What steps do to the kernels.                                           *)
(***************************************************************************)
(* No kernel comes back, none is unmade. *)
Aged ==
    /\ DOMAIN kernel' = Kernels
    /\ \A k \in Kernels :
          /\ DOMAIN kernel'[k] = DOMAIN NewKernel
          /\ kernel'[k].pc \in {"boot", "ready"} => kernel[k].pc \in {"boot", "ready"}
          /\ kernel[k].pc # "none" => kernel'[k].pc # "none"

(* Running kernels keep their sidecars. *)
Filed ==
    /\ DOMAIN files' = Kernels
    /\ \A k \in Kernels :
          /\ kernel'[k].pc \in {"boot", "ready"} => files'[k] \in {files[k], "owned"}
          /\ files'[k] = "owned" => files[k] = "owned" \/ kernel'[k].pc # "none"

(* The other sessions. *)
Others(c) ==
    /\ DOMAIN session' = Sessions /\ DOMAIN session'[c] = DOMAIN NewSession
    /\ \A d \in Sessions : d # c => session'[d] = session[d]

(* A session that has not changed still fits. *)
LEMMA SameSession ==
    ASSUME OwnInv, Aged, Filed, NEW c \in Sessions, session'[c] = session[c] PROVE SessionOK(c)'
<1>1. SessionOK(c) /\ FieldsOK
  BY DEF OwnInv
<1>2. NoKernel \notin Kernels
  BY Fields
<1>3. QED
  BY <1>1, <1>2 DEF SessionOK, Alive, Aged, Filed

(* Kernels that run, wait, answer or die. *)
LEMMA KernelKeeps ==
    ASSUME OwnInv, Aged, Filed, UNCHANGED <<session, owner>> PROVE OwnInv'
<1>1. \A c \in Sessions : SessionOK(c)'
  BY SameSession
<1>2. FieldsOK'
  BY DEF OwnInv, FieldsOK, Aged, Filed
<1>3. KernelsOwned'
  BY DEF OwnInv, KernelsOwned, FieldsOK, Aged, Filed, Alive, Live
<1>4. \A k \in Kernels : files'[k] = "owned" => kernel'[k].pc # "none"
  BY DEF OwnInv, Aged, Filed
<1>5. QED
  BY <1>1, <1>2, <1>3, <1>4 DEF OwnInv

(* Steps of a live session that starts no kernel. *)
LEMMA SessionKeeps ==
    ASSUME OwnInv, Aged, Filed, owner' = owner, NEW c \in Sessions, Others(c),
           session[c].pc # "dead", session'[c].pc # "dead",
           session'[c].kernel \in {session[c].kernel, NoKernel},
           session'[c].kernel # session[c].kernel =>
              kernel'[session[c].kernel].pc \notin {"boot", "ready"},
           session'[c].pc \in {"reap", "unlink"} /\ session'[c].kernel # NoKernel =>
              kernel'[session'[c].kernel].pc \notin {"boot", "ready"},
           session'[c].pc = "unlink" => session'[c].at \in Kernels /\ kernel'[session'[c].at].pc \notin {"none", "boot", "ready"},
           session'[c].pc = "spawned" => session[c].pc = "spawned",
           session'[c].pc # "spawned" /\ session[c].pc = "spawned" /\ session'[c].kernel # NoKernel =>
              files'[session[c].kernel] = "owned"
    PROVE  OwnInv'
<1>1. /\ FieldsOK /\ KernelsOwned /\ SessionOK(c) /\ NoKernel \notin Kernels
      /\ \A k \in Kernels : files[k] = "owned" => kernel[k].pc # "none"
  BY Fields DEF OwnInv
<1>2. FieldsOK'
  <2>1. \A d \in Sessions : DOMAIN session'[d] = DOMAIN NewSession
    BY <1>1 DEF FieldsOK, Others
  <2>2. QED
    BY <1>1, <2>1 DEF FieldsOK, Others, Aged, Filed
<1>3. SessionOK(c)'
  <2>1. session[c].kernel # NoKernel => session[c].kernel \in Kernels /\ kernel[session[c].kernel].pc # "none"
    BY <1>1 DEF SessionOK
  <2>2. session'[c].kernel # NoKernel => session'[c].kernel = session[c].kernel
    OBVIOUS
  <2>3. session[c].pc # "spawned" /\ session[c].kernel # NoKernel /\ kernel[session[c].kernel].pc \in {"boot", "ready"}
           => files[session[c].kernel] = "owned"
    BY <1>1 DEF SessionOK, Alive
  <2>4. ASSUME session'[c].pc # "spawned", session'[c].kernel # NoKernel,
               kernel'[session'[c].kernel].pc \in {"boot", "ready"}
        PROVE  files'[session'[c].kernel] = "owned"
    <3>1. CASE session[c].pc = "spawned"
      BY <2>2, <2>4, <3>1
    <3>2. CASE session[c].pc # "spawned"
      BY <2>1, <2>2, <2>3, <2>4, <3>2 DEF Aged, Filed
    <3>3. QED
      BY <3>1, <3>2
  <2>5. session'[c].kernel # NoKernel => session'[c].kernel \in Kernels /\ kernel'[session'[c].kernel].pc # "none"
    BY <2>1, <2>2 DEF Aged
  <2>6. QED
    BY <2>4, <2>5 DEF SessionOK, Alive
<1>4. \A d \in Sessions : d # c => SessionOK(d)'
  BY SameSession DEF Others
<1>5. KernelsOwned'
  <2>1. SUFFICES ASSUME NEW k \in Kernels, k # NoKernel, kernel'[k].pc \in {"boot", "ready"}
                 PROVE  IF session'[owner[k]].pc # "dead" THEN session'[owner[k]].kernel = k
                        ELSE files'[k] = "owned"
    BY DEF KernelsOwned, Alive, Live
  <2>2. IF session[owner[k]].pc # "dead" THEN session[owner[k]].kernel = k ELSE files[k] = "owned"
    BY <1>1, <2>1 DEF KernelsOwned, Alive, Live, Aged
  <2>3. owner[k] \in Sessions
    BY <1>1 DEF FieldsOK
  <2>4. CASE owner[k] = c
    BY <2>1, <2>2, <2>4
  <2>5. CASE owner[k] # c
    BY <2>1, <2>2, <2>3, <2>5 DEF Others, Filed
  <2>6. QED
    BY <2>4, <2>5
<1>6. \A k \in Kernels : files'[k] = "owned" => kernel'[k].pc # "none"
  BY <1>1 DEF Aged, Filed
<1>7. QED
  BY <1>2, <1>3, <1>4, <1>5, <1>6 DEF OwnInv

(* Kernels and files as they were. *)
LEMMA NothingAges ==
    ASSUME FieldsOK, UNCHANGED <<kernel, files>> PROVE Aged /\ Filed
BY DEF FieldsOK, Aged, Filed

(* A kernel killed is gone for good, and no other changes. *)
LEMMA KilledAges ==
    ASSUME FieldsOK, NEW k, kernel' = Killed(k)
    PROVE  /\ Aged
           /\ k \in Kernels => kernel'[k].pc \notin {"boot", "ready"}
           /\ k \in Kernels /\ kernel[k].pc # "none" => kernel'[k].pc = "gone"
           /\ \A j \in Kernels : kernel'[j].pc \in {kernel[j].pc, "gone"}
<1> DEFINE dead == [NewKernel EXCEPT !.pc = "gone"]
<1>1. DOMAIN dead = DOMAIN NewKernel /\ dead.pc = "gone"
  BY Fields
<1> HIDE DEF dead
<1>2. kernel' = [kernel EXCEPT ![k] = IF kernel[k].pc = "none" THEN kernel[k] ELSE dead]
  BY DEF Killed, dead
<1>3. /\ DOMAIN kernel' = Kernels
      /\ \A j \in Kernels : kernel'[j] = IF j # k \/ kernel[j].pc = "none" THEN kernel[j] ELSE dead
  BY <1>2 DEF FieldsOK
<1>4. QED
  BY <1>1, <1>3 DEF FieldsOK, Aged

(* A kernel that does something else than start or die. *)
LEMMA BusyAges ==
    ASSUME FieldsOK, NEW k, NEW r, kernel' = [kernel EXCEPT ![k] = r],
           k \in Kernels => DOMAIN r = DOMAIN NewKernel /\ r.pc = kernel[k].pc
    PROVE  Aged /\ \A j \in Kernels : kernel'[j].pc = kernel[j].pc
<1>1. DOMAIN kernel' = Kernels /\ \A j \in Kernels : kernel'[j] = IF j = k THEN r ELSE kernel[j]
  BY DEF FieldsOK
<1>2. QED
  BY <1>1 DEF FieldsOK, Aged

(* The sidecars as they were. *)
LEMMA FilesStay ==
    ASSUME FieldsOK, Aged, files' = files PROVE Filed
BY DEF FieldsOK, Filed

(* What Set does. *)
LEMMA SetOthers ==
    ASSUME FieldsOK, NEW c \in Sessions, NEW s, Set(c, s), DOMAIN s = DOMAIN NewSession
    PROVE  Others(c) /\ session'[c] = s
BY DEF FieldsOK, Set, Others

(* A session that goes on with its kernel, on neither side of a start. *)
LEMMA GoesOn ==
    ASSUME OwnInv, Aged, files' = files, owner' = owner, NEW c \in Sessions, NEW s,
           Set(c, s), DOMAIN s = DOMAIN NewSession, s.kernel = session[c].kernel,
           session[c].pc \notin {"dead", "spawned"},
           s.pc \notin {"dead", "spawned", "reap", "unlink"}
    PROVE  OwnInv'
<1>1. FieldsOK
  BY DEF OwnInv
<1>2. Others(c) /\ session'[c] = s
  BY <1>1, SetOthers
<1>3. QED
  BY <1>1, <1>2, FilesStay, SessionKeeps

(* A session whose phase and kernel stay. *)
LEMMA StaysPut ==
    ASSUME OwnInv, Aged, files' = files, owner' = owner, NEW c \in Sessions, NEW s,
           Set(c, s), DOMAIN s = DOMAIN NewSession, s.kernel = session[c].kernel,
           s.pc = session[c].pc, s.at = session[c].at, s.pc # "dead"
    PROVE  OwnInv'
<1>1. FieldsOK /\ SessionOK(c)
  BY DEF OwnInv
<1>2. Others(c) /\ session'[c] = s
  BY <1>1, SetOthers
<1>3. s.pc = "unlink" => s.at \in Kernels /\ kernel'[s.at].pc \notin {"none", "boot", "ready"}
  BY <1>1 DEF SessionOK, Aged
<1>4. s.pc \in {"reap", "unlink"} /\ s.kernel # NoKernel => kernel'[s.kernel].pc \notin {"boot", "ready"}
  BY <1>1 DEF SessionOK, Alive, Aged
<1>5. QED
  BY <1>1, <1>2, <1>3, <1>4, FilesStay, SessionKeeps

-----------------------------------------------------------------------------
(***************************************************************************)
(* The steps of a session.                                                 *)
(***************************************************************************)

(* A session's record has its fields. *)
LEMMA SessionFields ==
    ASSUME OwnInv, NEW c \in Sessions
    PROVE  /\ FieldsOK /\ SessionOK(c) /\ KernelsOwned /\ NoKernel \notin Kernels
           /\ DOMAIN session[c] = {"pc", "kernel", "flag", "cell", "call", "todo", "at", "restart"}
BY Fields DEF OwnInv, FieldsOK

(* A cell starts. *)
LEMMA RunCellKeeps ==
    ASSUME OwnInv, NEW c \in Sessions, NEW job, RunCell(c, job) PROVE OwnInv'
<1> DEFINE id == Cardinality(Started) + 1
           s == [session[c] EXCEPT !.pc = IF job.kind = "python" THEN "ensure" ELSE "query",
                                   !.flag = @ /\ job.kind = "python",
                                   !.cell = [NoCell EXCEPT !.id = id, !.job = job]]
<1>1. Set(c, s) /\ session[c].pc = "idle" /\ UNCHANGED <<kernel, files, owner>>
  BY DEF RunCell
<1>2. DOMAIN s = DOMAIN session[c] /\ s.kernel = session[c].kernel /\ s.pc \in {"ensure", "query"}
  BY SessionFields
<1> HIDE DEF s
<1>3. QED
  BY <1>1, <1>2, SessionFields, NothingAges, GoesOn, Fields

(* The end of a cell. *)
LEMMA RecordKeeps ==
    ASSUME OwnInv, Aged, files' = files, owner' = owner, NEW c \in Sessions, NEW s, NEW outcome,
           Record(c, s, outcome), DOMAIN s = DOMAIN NewSession, s.kernel = session[c].kernel,
           session[c].pc \notin {"dead", "spawned"}
    PROVE  OwnInv'
<1> DEFINE t == [s EXCEPT !.pc = "idle", !.cell = NoCell, !.call = NoCall]
<1>1. Set(c, t)
  BY DEF Record
<1>2. DOMAIN t = DOMAIN NewSession /\ t.kernel = s.kernel /\ t.pc = "idle"
  BY Fields
<1> HIDE DEF t
<1>3. QED
  BY <1>1, <1>2, GoesOn

(* A query ends. *)
LEMMA SqlEndsKeeps ==
    ASSUME OwnInv, NEW c \in Sessions, NEW how, SqlEnds(c, how) PROVE OwnInv'
<1> DEFINE shown == CASE how = "ok" -> <<Rows>> [] how = "error" -> <<ErrorItem>> [] OTHER -> <<>>
           teed == [session[c] EXCEPT !.cell.tee = FoldLeft(Apply, @, shown)]
           handed == [teed EXCEPT !.pc = "ensure", !.cell.handing = TRUE]
           ended == [teed EXCEPT !.flag = IF how = "interrupted" THEN FALSE ELSE @]
<1>1. /\ session[c].pc = "query" /\ UNCHANGED <<kernel, files, owner>>
      /\ Set(c, handed) \/ Record(c, ended, how)
  BY DEF SqlEnds
<1>2. DOMAIN teed = DOMAIN NewSession /\ teed.kernel = session[c].kernel
  BY SessionFields, Fields
<1> HIDE DEF teed, shown
<1>3. /\ DOMAIN handed = DOMAIN NewSession /\ handed.kernel = session[c].kernel /\ handed.pc = "ensure"
      /\ DOMAIN ended = DOMAIN NewSession /\ ended.kernel = session[c].kernel
  BY <1>2, Fields
<1> HIDE DEF handed, ended
<1>4. Aged
  BY <1>1, SessionFields, NothingAges
<1>5. QED
  BY <1>1, <1>3, <1>4, GoesOn, RecordKeeps

(* A request is sent, or a kernel has to be started first. *)
LEMMA EnsureKeeps ==
    ASSUME OwnInv, NEW c \in Sessions, Ensure(c) PROVE OwnInv'
<1> DEFINE s == session[c]
           run == [s EXCEPT !.pc = "running", !.flag = FALSE, !.call = NoCall]
           reap == [s EXCEPT !.pc = "reap", !.todo = Sidecars]
           r == [kernel[s.kernel] EXCEPT !.queue =
                   Append(@, [id |-> s.cell.id, items |-> s.cell.job.program])]
<1>1. s.pc = "ensure" /\ UNCHANGED <<files, owner>> /\ FieldsOK /\ SessionOK(c)
  BY SessionFields DEF Ensure
<1>2. /\ DOMAIN run = DOMAIN NewSession /\ run.kernel = s.kernel /\ run.pc = "running"
      /\ DOMAIN reap = DOMAIN NewSession /\ reap.kernel = s.kernel /\ reap.pc = "reap"
  BY SessionFields, Fields
<1>3. CASE Alive(s.kernel)
  <2>1. Set(c, run) /\ kernel' = [kernel EXCEPT ![s.kernel] = r]
    BY <1>3 DEF Ensure
  <2>2. s.kernel \in Kernels => DOMAIN r = DOMAIN NewKernel /\ r.pc = kernel[s.kernel].pc
    BY <1>1, Fields DEF FieldsOK
  <2> HIDE DEF run, r
  <2>3. Aged
    BY <1>1, <2>1, <2>2, BusyAges
  <2>4. QED
    BY <1>1, <1>2, <2>1, <2>3, GoesOn
<1>4. CASE ~Alive(s.kernel)
  <2>1. Set(c, reap) /\ kernel' = kernel
    BY <1>4 DEF Ensure
  <2> HIDE DEF run, reap
  <2>2. Aged /\ Filed
    BY <1>1, <2>1, NothingAges
  <2>3. Others(c) /\ session'[c] = reap
    BY <1>1, <1>2, <2>1, SetOthers
  <2>4. reap.kernel # NoKernel => kernel'[reap.kernel].pc \notin {"boot", "ready"}
    BY <1>2, <1>4, <2>1 DEF Alive
  <2>5. QED
    BY <1>1, <1>2, <2>2, <2>3, <2>4, SessionKeeps
<1>5. QED
  BY <1>3, <1>4

(* The reaper kills a kernel whose owner is dead. *)
LEMMA ReapKillKeeps ==
    ASSUME OwnInv, NEW c \in Sessions, NEW k \in Kernels, ReapKill(c, k) PROVE OwnInv'
<1> DEFINE s == [session[c] EXCEPT !.pc = "unlink", !.at = k]
<1>1. /\ session[c].pc = "reap" /\ files[k] = "owned" /\ Set(c, s)
      /\ kernel' = IF StillKernel(k) THEN Killed(k) ELSE kernel
      /\ UNCHANGED <<files, owner>> /\ FieldsOK /\ SessionOK(c)
  BY SessionFields DEF ReapKill
<1>2. DOMAIN s = DOMAIN NewSession /\ s.kernel = session[c].kernel /\ s.pc = "unlink" /\ s.at = k
  BY SessionFields, Fields
<1> HIDE DEF s
<1>3. Aged /\ kernel'[k].pc \notin {"none", "boot", "ready"}
  <2>1. kernel[k].pc # "none"
    BY <1>1 DEF OwnInv
  <2>2. CASE StillKernel(k)
    BY <1>1, <2>1, <2>2, KilledAges
  <2>3. CASE ~StillKernel(k)
    BY <1>1, <2>1, <2>3, NothingAges, Fields DEF StillKernel, Alive
  <2>4. QED
    BY <2>2, <2>3
<1>4. Others(c) /\ session'[c] = s
  BY <1>1, <1>2, SetOthers
<1>5. s.kernel # NoKernel => kernel'[s.kernel].pc \notin {"boot", "ready"}
  BY <1>1, <1>2, <1>3 DEF SessionOK, Alive, Aged
<1>6. QED
  BY <1>1, <1>2, <1>3, <1>4, <1>5, FilesStay, SessionKeeps

(* And removes its files. *)
LEMMA ReapUnlinkKeeps ==
    ASSUME OwnInv, NEW c \in Sessions, ReapUnlink(c) PROVE OwnInv'
<1> DEFINE k == session[c].at
           s == [session[c] EXCEPT !.pc = "reap", !.todo = @ \ {k}]
<1>1. /\ session[c].pc = "unlink" /\ Set(c, s) /\ files' = [files EXCEPT ![k] = "none"]
      /\ UNCHANGED <<kernel, owner>> /\ FieldsOK /\ SessionOK(c)
  BY SessionFields DEF ReapUnlink
<1>2. DOMAIN s = DOMAIN NewSession /\ s.kernel = session[c].kernel /\ s.pc = "reap"
  BY SessionFields, Fields
<1> HIDE DEF s
<1>3. k \in Kernels /\ kernel[k].pc \notin {"none", "boot", "ready"}
  BY <1>1 DEF SessionOK
<1>4. Aged
  BY <1>1 DEF FieldsOK, Aged
<1>5. Filed
  BY <1>1, <1>3 DEF FieldsOK, Filed
<1>6. Others(c) /\ session'[c] = s
  BY <1>1, <1>2, SetOthers
<1>7. s.kernel # NoKernel => kernel'[s.kernel].pc \notin {"boot", "ready"}
  BY <1>1, <1>2 DEF SessionOK, Alive
<1>8. QED
  BY <1>1, <1>2, <1>4, <1>5, <1>6, <1>7, SessionKeeps

(* The sidecar is written. *)
LEMMA WriteOwnerKeeps ==
    ASSUME OwnInv, NEW c \in Sessions, WriteOwner(c) PROVE OwnInv'
<1> DEFINE k == session[c].kernel
           s == [session[c] EXCEPT !.pc = "handshake"]
<1>1. /\ session[c].pc = "spawned" /\ Set(c, s) /\ files' = [files EXCEPT ![k] = "owned"]
      /\ UNCHANGED <<kernel, owner>> /\ FieldsOK /\ SessionOK(c)
  BY SessionFields DEF WriteOwner
<1>2. DOMAIN s = DOMAIN NewSession /\ s.kernel = k /\ s.pc = "handshake"
  BY SessionFields, Fields
<1> HIDE DEF s
<1>3. k # NoKernel => k \in Kernels /\ kernel[k].pc # "none" /\ files'[k] = "owned"
  BY <1>1 DEF SessionOK, FieldsOK
<1>4. NoKernel \notin Kernels
  BY Fields
<1>5. Aged
  BY <1>1 DEF FieldsOK, Aged
<1>6. Filed
  BY <1>1, <1>3, <1>4 DEF FieldsOK, Filed
<1>7. Others(c) /\ session'[c] = s
  BY <1>1, <1>2, SetOthers
<1>8. QED
  BY <1>1, <1>2, <1>3, <1>5, <1>6, <1>7, SessionKeeps

(* The handshake is answered. *)
LEMMA HandshakeKeeps ==
    ASSUME OwnInv, NEW c \in Sessions, Handshake(c) PROVE OwnInv'
<1> DEFINE s == [session[c] EXCEPT !.pc = "settle"]
<1>1. session[c].pc = "handshake" /\ Set(c, s) /\ UNCHANGED <<kernel, files, owner>>
  BY DEF Handshake
<1>2. DOMAIN s = DOMAIN NewSession /\ s.kernel = session[c].kernel /\ s.pc = "settle"
  BY SessionFields, Fields
<1> HIDE DEF s
<1>3. QED
  BY <1>1, <1>2, SessionFields, NothingAges, GoesOn

(* The start is over. *)
LEMMA SettleKeeps ==
    ASSUME OwnInv, NEW c \in Sessions, Settle(c) PROVE OwnInv'
<1> DEFINE s == AfterStart(session[c])
<1>1. session[c].pc = "settle" /\ Set(c, s) /\ UNCHANGED <<kernel, files, owner>>
  BY DEF Settle
<1>2. DOMAIN s = DOMAIN NewSession /\ s.kernel = session[c].kernel /\ s.pc \in {"idle", "ensure"}
  BY SessionFields, Fields DEF AfterStart
<1> HIDE DEF s
<1>3. QED
  BY <1>1, <1>2, SessionFields, NothingAges, GoesOn

(* The start failed: the kernel is killed and forgotten. *)
LEMMA StartFailsKeeps ==
    ASSUME OwnInv, NEW c \in Sessions, StartFails(c) PROVE OwnInv'
<1> DEFINE s == session[c]
           after == [s EXCEPT !.kernel = NoKernel, !.restart = FALSE]
           failed == [after EXCEPT !.pc = "idle", !.cell = NoCell, !.call = NoCall]
           refused == [after EXCEPT !.pc = "idle", !.cell = NoCell]
<1>1. /\ s.pc = "handshake" /\ kernel' = Killed(s.kernel) /\ UNCHANGED <<files, owner>>
      /\ Set(c, failed) \/ Set(c, refused)
      /\ FieldsOK /\ SessionOK(c)
  BY SessionFields DEF StartFails, Record
<1>2. DOMAIN after = DOMAIN NewSession /\ after.kernel = NoKernel
  BY SessionFields, Fields
<1> HIDE DEF after
<1>3. /\ DOMAIN failed = DOMAIN NewSession /\ failed.kernel = NoKernel /\ failed.pc = "idle"
      /\ DOMAIN refused = DOMAIN NewSession /\ refused.kernel = NoKernel /\ refused.pc = "idle"
  BY <1>2, Fields
<1> HIDE DEF failed, refused
<1>4. Aged /\ (s.kernel # NoKernel => kernel'[s.kernel].pc \notin {"boot", "ready"})
  BY <1>1, KilledAges DEF SessionOK
<1>5. PICK t \in {failed, refused} : Set(c, t)
  BY <1>1
<1>6. Others(c) /\ session'[c] = t
  BY <1>1, <1>3, <1>5, SetOthers
<1>7. QED
  BY <1>1, <1>3, <1>4, <1>5, <1>6, FilesStay, SessionKeeps

(* A message is read, for the call or for nobody. *)
LEMMA DeliveredKeeps ==
    ASSUME OwnInv, NEW c \in Sessions, NEW message, Reading(c), Set(c, Delivered(session[c], message)),
           UNCHANGED <<kernel, files, owner>>
    PROVE  OwnInv'
<1> DEFINE s == Delivered(session[c], message)
<1>1. /\ DOMAIN s = DOMAIN NewSession /\ s.kernel = session[c].kernel
      /\ s.pc = session[c].pc /\ s.at = session[c].at /\ s.pc # "dead"
  BY SessionFields, Fields DEF Delivered, Reading, Live
<1> HIDE DEF s
<1>2. Set(c, s) /\ Aged
  BY SessionFields, NothingAges DEF s
<1>3. QED
  BY <1>1, <1>2, StaysPut

(* A message is handled. *)
LEMMA HandleKeeps ==
    ASSUME OwnInv, NEW c \in Sessions, Handle(c) PROVE OwnInv'
<1> DEFINE s       == session[c]
           message == Head(s.call.rx)
           item    == [kind |-> message.kind, name |-> message.name, text |-> message.text]
           call    == [s.call EXCEPT !.rx = Tail(@), !.deaf = FALSE,
                                     !.idle = @ \/ item = IdleStatus,
                                     !.reply = IF item.kind = "reply" THEN item.name ELSE @]
           after   == [s EXCEPT !.call = call, !.cell.tee = Tee(@, item)]
           r       == [kernel[s.kernel] EXCEPT !.asking = FALSE]
<1>1. /\ s.pc = "running" /\ UNCHANGED <<files, owner>> /\ FieldsOK
      /\ kernel' = [kernel EXCEPT ![s.kernel] = r] \/ kernel' = kernel
      /\ Record(c, after, Outcome(call)) \/ Set(c, after)
  BY SessionFields DEF Handle
<1>2. s.kernel \in Kernels => DOMAIN r = DOMAIN NewKernel /\ r.pc = kernel[s.kernel].pc
  BY <1>1, Fields DEF FieldsOK
<1> HIDE DEF r, call, item, message
<1>3. DOMAIN after = DOMAIN NewSession /\ after.kernel = s.kernel /\ after.pc = "running"
  BY <1>1, SessionFields, Fields
<1> HIDE DEF after
<1>4. Aged
  <2>1. CASE kernel' = [kernel EXCEPT ![s.kernel] = r]
    BY <1>1, <1>2, <2>1, BusyAges
  <2>2. CASE kernel' = kernel
    BY <1>1, <2>2 DEF FieldsOK, Aged
  <2>3. QED
    BY <1>1, <2>1, <2>2
<1>5. QED
  BY <1>1, <1>3, <1>4, GoesOn, RecordKeeps

(* The process's exit is noticed. *)
LEMMA ExitedKeeps ==
    ASSUME OwnInv, NEW c \in Sessions, Exited(c) PROVE OwnInv'
<1> DEFINE s == [session[c] EXCEPT !.call.exited = TRUE, !.call.deaf = FALSE]
<1>1. session[c].pc = "running" /\ Set(c, s) /\ UNCHANGED <<kernel, files, owner>>
  BY DEF Exited, Waiting
<1>2. DOMAIN s = DOMAIN NewSession /\ s.kernel = session[c].kernel /\ s.pc = "running"
  BY <1>1, SessionFields, Fields
<1> HIDE DEF s
<1>3. QED
  BY <1>1, <1>2, SessionFields, NothingAges, GoesOn

(* A signal to a kernel. *)
LEMMA SignalledAges ==
    ASSUME FieldsOK, NEW k, kernel' = Signalled(k) PROVE Aged
<1> DEFINE r == [kernel[k] EXCEPT !.sigint = @ \/ Alive(k)]
<1>1. kernel' = [kernel EXCEPT ![k] = r]
  BY DEF Signalled
<1>2. k \in Kernels => DOMAIN r = DOMAIN NewKernel /\ r.pc = kernel[k].pc
  BY Fields DEF FieldsOK
<1> HIDE DEF r
<1>3. QED
  BY <1>1, <1>2, BusyAges

(* A wait has run out. *)
LEMMA DeadlineKeeps ==
    ASSUME OwnInv, NEW c \in Sessions, Deadline(c) PROVE OwnInv'
<1> DEFINE s == session[c]
           t == [s EXCEPT !.call.interrupted = TRUE, !.call.deaf = FALSE]
<1>1. /\ s.pc = "running" /\ UNCHANGED <<files, owner>> /\ FieldsOK
      /\ kernel' = kernel \/ kernel' = Signalled(s.kernel)
      /\ (\E outcome : Record(c, s, outcome)) \/ Set(c, t)
  BY SessionFields DEF Deadline, Waiting
<1>2. /\ DOMAIN t = DOMAIN NewSession /\ t.kernel = s.kernel /\ t.pc = "running"
      /\ DOMAIN s = DOMAIN NewSession
  BY <1>1, SessionFields, Fields
<1> HIDE DEF t
<1>3. Aged
  BY <1>1, SignalledAges, NothingAges
<1>4. QED
  BY <1>1, <1>2, <1>3, GoesOn, RecordKeeps

(* The interrupt is noticed. *)
LEMMA WakeInterruptedKeeps ==
    ASSUME OwnInv, NEW c \in Sessions, WakeInterrupted(c) PROVE OwnInv'
<1> DEFINE s == [session[c] EXCEPT !.call.interrupted = TRUE, !.call.byUser = TRUE]
<1>1. /\ session[c].pc = "running" /\ Set(c, s) /\ kernel' = Signalled(session[c].kernel)
      /\ UNCHANGED <<files, owner>>
  BY DEF WakeInterrupted, Waiting
<1>2. DOMAIN s = DOMAIN NewSession /\ s.kernel = session[c].kernel /\ s.pc = "running"
  BY <1>1, SessionFields, Fields
<1> HIDE DEF s
<1>3. QED
  BY <1>1, <1>2, SessionFields, SignalledAges, GoesOn

(* A user interrupts. *)
LEMMA InterruptKeeps ==
    ASSUME OwnInv, NEW c \in Sessions, NEW missed, Interrupt(c, missed) PROVE OwnInv'
<1> DEFINE s == [session[c] EXCEPT !.flag = TRUE, !.call.deaf = missed]
<1>1. session[c].pc # "dead" /\ Set(c, s) /\ UNCHANGED <<kernel, files, owner>>
  BY DEF Interrupt, Live
<1>2. /\ DOMAIN s = DOMAIN NewSession /\ s.kernel = session[c].kernel
      /\ s.pc = session[c].pc /\ s.at = session[c].at
  BY SessionFields, Fields
<1> HIDE DEF s
<1>3. QED
  BY <1>1, <1>2, SessionFields, NothingAges, StaysPut

(* A restart or a shutdown begins. *)
LEMMA StopKeeps ==
    ASSUME OwnInv, NEW c \in Sessions, NEW restart, Stop(c, restart) PROVE OwnInv'
<1> DEFINE s == session[c]
           stopping == [s EXCEPT !.pc = "stopping", !.restart = restart]
           fresh == [s EXCEPT !.pc = "reap", !.kernel = NoKernel, !.todo = Sidecars]
<1>1. /\ s.pc = "idle" /\ UNCHANGED <<kernel, files, owner>> /\ FieldsOK
      /\ Set(c, stopping) \/ (Set(c, fresh) /\ ~Alive(s.kernel))
      /\ s.kernel # NoKernel
  BY SessionFields DEF Stop
<1>2. /\ DOMAIN stopping = DOMAIN NewSession /\ stopping.kernel = s.kernel /\ stopping.pc = "stopping"
      /\ DOMAIN fresh = DOMAIN NewSession /\ fresh.kernel = NoKernel /\ fresh.pc = "reap"
  BY SessionFields, Fields
<1> HIDE DEF stopping, fresh
<1>3. Aged /\ Filed
  BY <1>1, NothingAges
<1>4. CASE Set(c, stopping)
  BY <1>1, <1>2, <1>3, <1>4, GoesOn
<1>5. CASE Set(c, fresh) /\ ~Alive(s.kernel)
  <2>1. Others(c) /\ session'[c] = fresh
    BY <1>1, <1>2, <1>5, SetOthers
  <2>2. kernel'[s.kernel].pc \notin {"boot", "ready"}
    BY <1>1, <1>5 DEF Alive
  <2>3. QED
    BY <1>1, <1>2, <1>3, <2>1, <2>2, SessionKeeps
<1>6. QED
  BY <1>1, <1>4, <1>5

(* And ends. *)
LEMMA TeardownKeeps ==
    ASSUME OwnInv, NEW c \in Sessions, Teardown(c) PROVE OwnInv'
<1> DEFINE k == session[c].kernel
           s == [session[c] EXCEPT !.pc = IF session[c].restart THEN "reap" ELSE "idle",
                   !.kernel = NoKernel,
                   !.todo = IF session[c].restart THEN Sidecars \ {k} ELSE {}]
<1>1. /\ session[c].pc = "stopping" /\ kernel' = Killed(k) /\ files' = [files EXCEPT ![k] = "none"]
      /\ Set(c, s) /\ owner' = owner /\ FieldsOK /\ SessionOK(c)
  BY SessionFields DEF Teardown
<1>2. DOMAIN s = DOMAIN NewSession /\ s.kernel = NoKernel /\ s.pc \in {"reap", "idle"}
  BY SessionFields, Fields
<1> HIDE DEF s
<1>3. Aged /\ (k # NoKernel => kernel'[k].pc \notin {"boot", "ready"})
  BY <1>1, KilledAges DEF SessionOK
<1>4. Filed
  BY <1>1, <1>3, Fields DEF FieldsOK, SessionOK, Filed
<1>5. Others(c) /\ session'[c] = s
  BY <1>1, <1>2, SetOthers
<1>6. QED
  BY <1>1, <1>2, <1>3, <1>4, <1>5, SessionKeeps

(* A kernel is spawned under a name nothing refers to; the one before it does
   not run. *)
LEMMA SpawnKeeps ==
    ASSUME OwnInv, NEW c \in Sessions, NEW k \in Kernels, Spawn(c, k) PROVE OwnInv'
<1> DEFINE s == [session[c] EXCEPT !.pc = "spawned", !.kernel = k, !.todo = {}]
           r == [kernel[k] EXCEPT !.pc = "boot"]
<1>1. /\ session[c].pc = "reap" /\ Unused # {} /\ k = Min(Unused) /\ Set(c, s)
      /\ kernel' = [kernel EXCEPT ![k] = r] /\ files' = [files EXCEPT ![k] = "connection"]
      /\ owner' = [owner EXCEPT ![k] = c]
  BY DEF Spawn
<1>2. /\ FieldsOK /\ KernelsOwned /\ SessionOK(c) /\ NoKernel \notin Kernels
      /\ \A j \in Kernels : files[j] = "owned" => kernel[j].pc # "none"
      /\ \A d \in Sessions : SessionOK(d)
  BY SessionFields DEF OwnInv
<1>3. kernel[k].pc = "none" /\ files[k] = "none" /\ \A d \in Sessions : session[d].kernel # k
  BY <1>1, LeastUnused DEF Unused
<1>4. DOMAIN s = DOMAIN NewSession /\ s.kernel = k /\ s.pc = "spawned"
  BY SessionFields, Fields
<1>5. DOMAIN r = DOMAIN NewKernel /\ r.pc = "boot"
  BY <1>2, Fields DEF FieldsOK
<1> HIDE DEF s, r
<1>6. /\ DOMAIN session' = Sessions /\ session'[c] = s
      /\ \A d \in Sessions : d # c => session'[d] = session[d]
  BY <1>1, <1>2, <1>4, SetOthers DEF Others
<1>7. /\ DOMAIN kernel' = Kernels /\ DOMAIN files' = Kernels /\ owner' \in [Kernels -> Sessions]
      /\ kernel'[k] = r /\ files'[k] = "connection" /\ owner'[k] = c
      /\ \A j \in Kernels : j # k =>
            kernel'[j] = kernel[j] /\ files'[j] = files[j] /\ owner'[j] = owner[j]
  BY <1>1, <1>2 DEF FieldsOK
<1>8. FieldsOK'
  BY <1>2, <1>4, <1>5, <1>6, <1>7 DEF FieldsOK
<1>9. ASSUME NEW d \in Sessions PROVE SessionOK(d)'
  <2>1. CASE d = c
    BY <1>4, <1>5, <1>6, <1>7, <2>1 DEF SessionOK
  <2>2. CASE d # c
    <3>1. /\ session'[d] = session[d] /\ session[d].kernel # k
          /\ session[d].pc = "unlink" => session[d].at # k
      BY <1>2, <1>3, <1>6, <2>2 DEF SessionOK
    <3>2. QED
      BY <1>2, <1>7, <3>1 DEF SessionOK, Alive
  <2>3. QED
    BY <2>1, <2>2
<1>10. KernelsOwned'
  <2>1. SUFFICES ASSUME NEW j \in Kernels, j # NoKernel, kernel'[j].pc \in {"boot", "ready"}
                 PROVE  IF session'[owner'[j]].pc # "dead" THEN session'[owner'[j]].kernel = j
                        ELSE files'[j] = "owned"
    BY DEF KernelsOwned, Alive, Live
  <2>2. CASE j = k
    BY <1>4, <1>6, <1>7, <2>2
  <2>3. CASE j # k
    <3>1. /\ owner'[j] = owner[j] /\ owner[j] \in Sessions /\ files'[j] = files[j]
          /\ kernel[j].pc \in {"boot", "ready"}
      BY <1>2, <1>7, <2>1, <2>3 DEF FieldsOK
    <3>2. IF session[owner[j]].pc # "dead" THEN session[owner[j]].kernel = j ELSE files[j] = "owned"
      BY <1>2, <2>1, <3>1 DEF KernelsOwned, Alive, Live
    <3>3. session[c].kernel # j
      BY <1>1, <1>2, <2>1, <3>1 DEF SessionOK, Alive
    <3>4. CASE owner[j] = c
      BY <1>1, <3>2, <3>3, <3>4
    <3>5. CASE owner[j] # c
      BY <1>6, <3>1, <3>2, <3>5
    <3>6. QED
      BY <3>4, <3>5
  <2>4. QED
    BY <2>2, <2>3
<1>11. \A j \in Kernels : files'[j] = "owned" => kernel'[j].pc # "none"
  BY <1>2, <1>7
<1>12. QED
  BY <1>8, <1>9, <1>10, <1>11 DEF OwnInv

(* A session killed leaves its kernel running with its sidecar, for it was not
   in the middle of a spawn. *)
LEMMA CrashKeeps ==
    ASSUME OwnInv, "crash in spawn" \notin Allowed, NEW c \in Sessions, Crash(c) PROVE OwnInv'
<1> DEFINE s == [NewSession EXCEPT !.pc = "dead", !.cell.id = session[c].cell.id]
<1>1. /\ session[c].pc \notin {"dead", "spawned"} /\ Set(c, s)
      /\ kernel' = [k \in Kernels |-> IF k = session[c].kernel /\ Alive(k)
                                      THEN [NewKernel EXCEPT !.pc = kernel[k].pc] ELSE kernel[k]]
      /\ UNCHANGED <<files, owner>>
  BY DEF Crash, Live
<1>2. /\ FieldsOK /\ KernelsOwned /\ SessionOK(c) /\ NoKernel \notin Kernels
      /\ \A k \in Kernels : files[k] = "owned" => kernel[k].pc # "none"
  BY SessionFields DEF OwnInv
<1>3. DOMAIN s = DOMAIN NewSession /\ s.kernel = NoKernel /\ s.pc = "dead"
  BY Fields DEF NewSession
<1> HIDE DEF s
<1>4. Others(c) /\ session'[c] = s
  BY <1>1, <1>2, <1>3, SetOthers
<1>5. DOMAIN kernel' = Kernels /\ \A k \in Kernels : DOMAIN kernel'[k] = DOMAIN NewKernel
                                                     /\ kernel'[k].pc = kernel[k].pc
  BY <1>1, <1>2, Fields DEF FieldsOK
<1>6. Aged /\ Filed
  BY <1>1, <1>2, <1>5 DEF Aged, Filed, FieldsOK
<1>7. FieldsOK'
  <2>1. \A d \in Sessions : DOMAIN session'[d] = DOMAIN NewSession
    BY <1>2, <1>4 DEF FieldsOK, Others
  <2>2. QED
    BY <1>1, <1>2, <1>4, <1>5, <2>1 DEF FieldsOK, Others
<1>8. ASSUME NEW d \in Sessions PROVE SessionOK(d)'
  <2>1. CASE d = c
    BY <1>3, <1>4, <2>1 DEF SessionOK
  <2>2. CASE d # c
    BY <1>4, <1>6, <2>2, SameSession DEF Others
  <2>3. QED
    BY <2>1, <2>2
<1>9. KernelsOwned'
  <2>1. SUFFICES ASSUME NEW j \in Kernels, j # NoKernel, kernel'[j].pc \in {"boot", "ready"}
                 PROVE  IF session'[owner[j]].pc # "dead" THEN session'[owner[j]].kernel = j
                        ELSE files[j] = "owned"
    BY <1>1 DEF KernelsOwned, Alive, Live
  <2>2. owner[j] \in Sessions /\ kernel[j].pc \in {"boot", "ready"}
    BY <1>2, <1>5, <2>1 DEF FieldsOK
  <2>3. IF session[owner[j]].pc # "dead" THEN session[owner[j]].kernel = j ELSE files[j] = "owned"
    BY <1>2, <2>1, <2>2 DEF KernelsOwned, Alive, Live
  <2>4. CASE owner[j] = c
    <3>1. session[c].kernel = j
      BY <1>1, <2>3, <2>4
    <3>2. files[j] = "owned"
      BY <1>1, <1>2, <2>1, <2>2, <3>1 DEF SessionOK, Alive
    <3>3. QED
      BY <1>3, <1>4, <2>4, <3>2
  <2>5. CASE owner[j] # c
    BY <1>4, <2>2, <2>3, <2>5 DEF Others
  <2>6. QED
    BY <2>4, <2>5
<1>10. \A k \in Kernels : files'[k] = "owned" => kernel'[k].pc # "none"
  BY <1>1, <1>2, <1>5
<1>11. QED
  BY <1>7, <1>8, <1>9, <1>10 DEF OwnInv

-----------------------------------------------------------------------------
(***************************************************************************)
(* The steps of a kernel.                                                  *)
(***************************************************************************)

(* A kernel that works: its phase stays. *)
LEMMA WorksKeeps ==
    ASSUME OwnInv, NEW k \in Kernels, NEW r, kernel' = [kernel EXCEPT ![k] = r],
           DOMAIN r = DOMAIN NewKernel, r.pc = kernel[k].pc, UNCHANGED <<session, files, owner>>
    PROVE  OwnInv'
<1>1. FieldsOK
  BY DEF OwnInv
<1>2. Aged
  BY <1>1, BusyAges
<1>3. QED
  BY <1>1, <1>2, FilesStay, KernelKeeps

(* Every step of a kernel process, its death included. *)
LEMMA KernelStepKeeps ==
    ASSUME OwnInv, NEW k \in Kernels, KernelStep(k) PROVE OwnInv'
<1>1. FieldsOK /\ DOMAIN kernel[k] = DOMAIN NewKernel
  BY DEF OwnInv, FieldsOK
<1>2. CASE KernelBoots(k)
  <2>1. /\ kernel[k].pc = "boot" /\ kernel' = [kernel EXCEPT ![k].pc = "ready"]
        /\ UNCHANGED <<session, files, owner>>
    BY <1>2 DEF KernelBoots
  <2>2. /\ DOMAIN kernel' = Kernels /\ DOMAIN kernel'[k] = DOMAIN NewKernel /\ kernel'[k].pc = "ready"
        /\ \A j \in Kernels : j # k => kernel'[j] = kernel[j]
    BY <1>1, <2>1, Fields DEF FieldsOK
  <2>3. Aged
    BY <1>1, <2>1, <2>2 DEF Aged, FieldsOK
  <2>4. QED
    BY <1>1, <2>1, <2>3, FilesStay, KernelKeeps
<1>3. CASE Subscribed(k)
  BY <1>1, <1>3, NothingAges, KernelKeeps DEF Subscribed
<1>4. CASE KernelTakes(k)
  <2> DEFINE request == Head(kernel[k].queue)
             r == [kernel[k] EXCEPT !.running = request.id, !.left = request.items,
                     !.queue = Tail(@), !.replied = FALSE, !.broken = FALSE, !.sigint = FALSE]
  <2>1. kernel' = [kernel EXCEPT ![k] = r] /\ UNCHANGED <<session, files, owner>>
    BY <1>1, <1>4 DEF KernelTakes, FieldsOK
  <2>2. DOMAIN r = DOMAIN NewKernel /\ r.pc = kernel[k].pc
    BY <1>1, Fields
  <2> HIDE DEF r
  <2>3. QED
    BY <2>1, <2>2, WorksKeeps
<1>5. CASE KernelPublishes(k)
  <2> DEFINE r == [kernel[k] EXCEPT !.left = Tail(@), !.asking = Head(kernel[k].left).kind = "ask"]
  <2>1. kernel' = [kernel EXCEPT ![k] = r] /\ UNCHANGED <<session, files, owner>>
    BY <1>1, <1>5 DEF KernelPublishes, FieldsOK
  <2>2. DOMAIN r = DOMAIN NewKernel /\ r.pc = kernel[k].pc
    BY <1>1, Fields
  <2> HIDE DEF r
  <2>3. QED
    BY <2>1, <2>2, WorksKeeps
<1>6. CASE KernelStops(k)
  <2> DEFINE r == [kernel[k] EXCEPT !.left = <<ErrorItem>>, !.asking = FALSE, !.sigint = FALSE,
                                    !.broken = TRUE]
  <2>1. kernel' = [kernel EXCEPT ![k] = r] /\ UNCHANGED <<session, files, owner>>
    BY <1>1, <1>6 DEF KernelStops, FieldsOK
  <2>2. DOMAIN r = DOMAIN NewKernel /\ r.pc = kernel[k].pc
    BY <1>1, Fields
  <2> HIDE DEF r
  <2>3. QED
    BY <2>1, <2>2, WorksKeeps
<1>7. CASE KernelReplies(k)
  <2> DEFINE r == [kernel[k] EXCEPT !.replied = TRUE]
  <2>1. kernel' = [kernel EXCEPT ![k] = r] /\ UNCHANGED <<session, files, owner>>
    BY <1>1, <1>7 DEF KernelReplies, FieldsOK
  <2>2. DOMAIN r = DOMAIN NewKernel /\ r.pc = kernel[k].pc
    BY <1>1, Fields
  <2> HIDE DEF r
  <2>3. QED
    BY <2>1, <2>2, WorksKeeps
<1>8. CASE KernelIdles(k)
  <2> DEFINE r == [kernel[k] EXCEPT !.running = 0, !.replied = FALSE]
  <2>1. kernel' = [kernel EXCEPT ![k] = r] /\ UNCHANGED <<session, files, owner>>
    BY <1>1, <1>8 DEF KernelIdles, FieldsOK
  <2>2. DOMAIN r = DOMAIN NewKernel /\ r.pc = kernel[k].pc
    BY <1>1, Fields
  <2> HIDE DEF r
  <2>3. QED
    BY <2>1, <2>2, WorksKeeps
<1>9. CASE KernelDies(k)
  <2>1. kernel' = Killed(k) /\ UNCHANGED <<session, files, owner>>
    BY <1>9 DEF KernelDies
  <2>2. QED
    BY <1>1, <2>1, KilledAges, FilesStay, KernelKeeps
<1>10. QED
  BY <1>2, <1>3, <1>4, <1>5, <1>6, <1>7, <1>8, <1>9 DEF KernelStep

-----------------------------------------------------------------------------
(***************************************************************************)
(* The theorem.                                                            *)
(***************************************************************************)

(* No session and no kernel at first. *)
LEMMA InitOwned == ASSUME Init PROVE OwnInv
<1>1. /\ \A c \in Sessions : session[c] = NewSession
      /\ \A k \in Kernels : kernel[k] = NewKernel /\ files[k] = "none"
  BY DEF Init
<1>2. NewSession.kernel = NoKernel /\ NewSession.pc = "idle" /\ NewKernel.pc = "none"
  BY DEF NewSession, NewKernel
<1>3. FieldsOK
  BY <1>1, KernelAssumption DEF Init, FieldsOK
<1>4. KernelsOwned
  BY <1>1, <1>2 DEF KernelsOwned, Alive
<1>5. \A c \in Sessions : SessionOK(c)
  BY <1>1, <1>2 DEF SessionOK, Alive
<1>6. QED
  BY <1>1, <1>3, <1>4, <1>5 DEF OwnInv

(* Every step. *)
LEMMA NextOwned ==
    ASSUME OwnInv, "crash in spawn" \notin Allowed, [Next]_vars PROVE OwnInv'
<1>1. CASE UNCHANGED vars
  BY <1>1 DEF vars, OwnInv, FieldsOK, KernelsOwned, SessionOK, Alive, Live
<1>2. ASSUME NEW k \in Kernels, KernelStep(k) PROVE OwnInv'
  BY <1>2, KernelStepKeeps
<1>3. ASSUME NEW c \in Sessions, SessionStep(c) PROVE OwnInv'
  <2>1. ASSUME NEW how, SqlEnds(c, how) PROVE OwnInv'
    BY <2>1, SqlEndsKeeps
  <2>2. ASSUME NEW k \in Kernels, ReapKill(c, k) \/ Spawn(c, k) PROVE OwnInv'
    BY <2>2, ReapKillKeeps, SpawnKeeps
  <2>3. CASE ReadIopub(c) \/ ReadShell(c)
    BY <2>3, DeliveredKeeps DEF ReadIopub, ReadShell
  <2>4. QED
    BY <1>3, <2>1, <2>2, <2>3, EnsureKeeps, ReapUnlinkKeeps, WriteOwnerKeeps, HandshakeKeeps,
       SettleKeeps, HandleKeeps, ExitedKeeps, DeadlineKeeps, WakeInterruptedKeeps, TeardownKeeps
       DEF SessionStep
<1>4. ASSUME NEW c \in Sessions, NEW job, RunCell(c, job) PROVE OwnInv'
  BY <1>4, RunCellKeeps
<1>5. ASSUME NEW c \in Sessions, NEW b,
             StartFails(c) \/ Crash(c) \/ Interrupt(c, b) \/ Stop(c, b) PROVE OwnInv'
  BY <1>5, StartFailsKeeps, CrashKeeps, InterruptKeeps, StopKeeps
<1>6. QED
  BY <1>1, <1>2, <1>3, <1>4, <1>5 DEF Next

(* No kernel outlives its session unseen, whatever cells run, kernels die,
   users interrupt and sessions are killed: a running kernel is the one its
   living session uses, or the sidecar that lets the next start reap it is on
   disk.  A session killed between spawn_kernel and the sidecar's write is
   left out: the code has that window, and there the property is false. *)
THEOREM KernelsNeverLost ==
    ASSUME "crash in spawn" \notin Allowed
    PROVE  Spec => []KernelsOwned
<1>1. Init => OwnInv
  BY InitOwned
<1>2. OwnInv /\ [Next]_vars => OwnInv'
  BY NextOwned
<1>3. OwnInv => KernelsOwned
  BY DEF OwnInv
<1>4. QED
  BY <1>1, <1>2, <1>3, PTL DEF Spec
=============================================================================
