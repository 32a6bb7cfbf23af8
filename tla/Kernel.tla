------------------------------- MODULE Kernel -------------------------------
(***************************************************************************)
(* Running a cell (h5i-db-notebook: kernel/jupyter.rs, kernel/sql.rs,      *)
(* kernel/mod.rs, session.rs).  A session starts a Jupyter kernel as a     *)
(* process of its own, records beside the connection file who owns it,     *)
(* sends one execute request at a time and folds what comes back on two    *)
(* channels into the cell's outputs, while a user may interrupt, a timer   *)
(* may fire and the kernel may die.  SQL cells run in the session itself   *)
(* and may hand their result to the Python kernel.  Sessions killed hard   *)
(* leave kernels behind, which the next start of any session reaps.        *)
(*                                                                         *)
(* A kernel is known by the name of its connection file; names are never   *)
(* used twice.  Timeouts are steps that may be taken whenever the wait     *)
(* they bound is on.                                                       *)
(***************************************************************************)
EXTENDS Naturals, Sequences, FiniteSets, SequencesExt

CONSTANTS
  Sessions,
  First,        \* the session of the first cell; they are all alike
  Kernels,      \* 1 .. the number of kernels that may be started
  Jobs,         \* cell -> what it may be: "python", "sql" or "into" (a query
                \* bound in Python), what its Python publishes, with a timeout?
  MaxCells,
  MaxActive,    \* sessions that do something at the same time
  MaxFaults,    \* kernels dying or not starting, sessions killed, interrupts
  Allowed       \* of Hazardous, what may also happen

(***************************************************************************)
(* What breaks the properties below, as the README tells: a session killed *)
(* between spawning its kernel and recording it; an interrupt between the  *)
(* look at the flag and the wait for a notification; an iopub subscription *)
(* not yet up when the first cell runs.                                    *)
(***************************************************************************)
Hazardous == {"crash in spawn", "lost wakeup", "late subscription"}

ASSUME KernelAssumption ==
  /\ Allowed \subseteq Hazardous /\ First \in Sessions /\ Kernels \subseteq Nat \ {0}
  /\ MaxCells \in Nat /\ MaxActive \in Nat /\ MaxFaults \in Nat

VARIABLES
  session,    \* what each session is doing
  kernel,     \* the kernel processes
  wire,       \* what each kernel has sent and its session's readers have not read
  files,      \* kernel -> "none", "connection", or "owned" with the sidecar too
  owner,      \* kernel -> the session that started it
  said,       \* history: cell -> everything published for it
  recorded,   \* cell -> the outputs and outcome written to the notebook
  faults      \* so far

vars == <<session, kernel, wire, files, owner, said, recorded, faults>>

Cells == 1 .. MaxCells

------------------------------------------------------------------------------
(* OutputCollector.                                                         *)

NoOutputs == [outputs |-> <<>>, ids |-> {}, clearing |-> FALSE]

\* push: a pending clear first, then a stream joins the one before it.
Push(collector, item) ==
  LET kept == IF collector.clearing THEN NoOutputs ELSE collector
      last == Len(kept.outputs)
      joins == /\ item.kind = "stream" /\ last > 0
               /\ kept.outputs[last].kind = "stream" /\ kept.outputs[last].name = item.name
  IN  IF joins THEN [kept EXCEPT !.outputs[last].text = @ \o item.text]
      ELSE [kept EXCEPT !.outputs = Append(@, item)]

\* update: rewrites every output published under the id.
Update(collector, item) ==
  [collector EXCEPT !.outputs = [i \in DOMAIN @ |->
     IF <<item.name, i>> \in collector.ids THEN [@[i] EXCEPT !.text = item.text] ELSE @[i]]]

Apply(collector, item) ==
  CASE item.kind = "update" -> Update(collector, item)
    [] item.kind = "clear" -> IF item.text = <<"wait">> THEN [collector EXCEPT !.clearing = TRUE]
                              ELSE NoOutputs
    [] OTHER -> Push(collector, item)

\* handle_execution_message tags the output it just pushed; the session's Tee
\* sees the events only, which do not carry the id.
ApplyTagged(collector, item) ==
  LET after == Apply(collector, item)
  IN  IF item.kind = "display" THEN [after EXCEPT !.ids = @ \cup {<<item.name, Len(after.outputs)>>}]
      ELSE after

Tee(collector, item) ==
  IF item.kind \in {"status", "reply", "ask"} THEN collector ELSE Apply(collector, item)

Collected(items) == FoldLeft(ApplyTagged, NoOutputs, items).outputs

ErrorItem == [kind |-> "error", name |-> "error", text |-> <<"error">>]

------------------------------------------------------------------------------
(* State.                                                                   *)

NoKernel == 0

\* The state of one execute call.
NoCall == [rx |-> <<>>, idle |-> FALSE, reply |-> "none", interrupted |-> FALSE,
           byUser |-> FALSE, exited |-> FALSE, deaf |-> FALSE]

NoJob == [kind |-> "none", program |-> <<>>, timed |-> FALSE]

NoCell == [id |-> 0, job |-> NoJob, tee |-> NoOutputs, handing |-> FALSE]

NewSession == [pc |-> "idle", kernel |-> NoKernel, flag |-> FALSE,
               cell |-> NoCell, call |-> NoCall, todo |-> {}, at |-> NoKernel, restart |-> FALSE]

NewKernel == [pc |-> "none", queue |-> <<>>, running |-> 0, left |-> <<>>, asking |-> FALSE,
              replied |-> FALSE, broken |-> FALSE, sigint |-> FALSE]

Unrecorded(outcome) == [outcome |-> outcome, outputs |-> <<>>, unbound |-> FALSE]

NoWire == [subscribed |-> FALSE, iopub |-> <<>>, shell |-> <<>>]

Alive(k) == k # NoKernel /\ kernel[k].pc \in {"boot", "ready"}

Live(c) == session[c].pc # "dead"

Init ==
  /\ session = [c \in Sessions |-> NewSession]
  /\ kernel = [k \in Kernels |-> NewKernel]
  /\ wire = [k \in Kernels |-> NoWire]
  /\ files = [k \in Kernels |-> "none"]
  /\ owner = [k \in Kernels |-> First]
  /\ said = [i \in Cells |-> <<>>]
  /\ recorded = [i \in Cells |-> Unrecorded("none")]
  /\ faults = 0

Set(c, s) == session' = [session EXCEPT ![c] = s]

Unused == {k \in Kernels : kernel[k].pc = "none" /\ files[k] = "none"
                           /\ \A c \in Sessions : session[c].kernel # k}

Started == {i \in Cells : \E c \in Sessions : session[c].cell.id = i}
           \cup {i \in Cells : recorded[i].outcome # "none"}

Active == {c \in Sessions : session[c].pc \notin {"idle", "dead"}}

Sidecars == {k \in Kernels : files[k] = "owned"}

Killed(k) == [kernel EXCEPT ![k] = IF @.pc = "none" THEN @ ELSE [NewKernel EXCEPT !.pc = "gone"]]

------------------------------------------------------------------------------
(* Session: run_cell and what it ends in.                                   *)

RunCell(c, job) ==
  LET id == Cardinality(Started) + 1
  IN  /\ session[c].pc = "idle" /\ id \in Cells /\ job \in Jobs[id]
      /\ Cardinality(Active) < MaxActive /\ (id = 1 => c = First)
      /\ Set(c, [session[c] EXCEPT !.pc = IF job.kind = "python" THEN "ensure" ELSE "query",
                                   !.flag = @ /\ job.kind = "python",
                                   !.cell = [NoCell EXCEPT !.id = id, !.job = job]])
      /\ UNCHANGED <<kernel, wire, files, owner, said, recorded, faults>>

\* The end of run_cell: the outputs the Tee saw go to the notebook whatever
\* the outcome; a failed handoff is an error output of its own.
Record(c, s, outcome) ==
  LET cell == s.cell
      failed == cell.handing /\ outcome # "ok"
      outputs == IF failed THEN Push(cell.tee, ErrorItem).outputs ELSE cell.tee.outputs
  IN  /\ Set(c, [s EXCEPT !.pc = "idle", !.cell = NoCell, !.call = NoCall])
      /\ recorded' = [recorded EXCEPT ![cell.id] =
                        [outcome |-> IF failed THEN "error" ELSE outcome, outputs |-> outputs,
                         unbound |-> failed]]

\* SqlKernel::execute: the query, its deadline and the interrupt race, and the
\* losers are dropped.
Rows == [kind |-> "result", name |-> "rows", text |-> <<"rows">>]

SqlEnds(c, how) ==
  LET s     == session[c]
      shown == CASE how = "ok" -> <<Rows>> [] how = "error" -> <<ErrorItem>> [] OTHER -> <<>>
      teed  == [s EXCEPT !.cell.tee = FoldLeft(Apply, @, shown)]
  IN  /\ s.pc = "query"
      /\ how = "interrupted" => s.flag
      /\ how = "timeout" => s.cell.job.timed
      /\ said' = [said EXCEPT ![s.cell.id] = @ \o shown]
      /\ IF how = "ok" /\ s.cell.job.kind = "into"
         THEN /\ Set(c, [teed EXCEPT !.pc = "ensure", !.cell.handing = TRUE])
              /\ UNCHANGED recorded
         ELSE Record(c, [teed EXCEPT !.flag = IF how = "interrupted" THEN FALSE ELSE @], how)
      /\ UNCHANGED <<kernel, wire, files, owner, faults>>

\* ensure_kernel, then execute up to its send: a fresh registration, the flag
\* of an earlier cell cleared.
Ensure(c) ==
  LET s  == session[c]
      id == s.cell.id
      items == s.cell.job.program
  IN  /\ s.pc = "ensure"
      /\ IF Alive(s.kernel)
         THEN /\ Set(c, [s EXCEPT !.pc = "running", !.flag = FALSE, !.call = NoCall])
              /\ kernel' = [kernel EXCEPT ![s.kernel].queue =
                              Append(@, [id |-> id, items |-> items])]
         ELSE /\ Set(c, [s EXCEPT !.pc = "reap", !.todo = Sidecars])
              /\ UNCHANGED kernel
      /\ UNCHANGED <<wire, files, owner, said, recorded, faults>>

------------------------------------------------------------------------------
(* JupyterKernel::start.                                                    *)

ReapKillSpared(c, k) ==
  /\ session[c].pc = "reap" /\ k \in session[c].todo
  /\ files[k] = "owned" /\ ~Live(owner[k])
  /\ Set(c, [session[c] EXCEPT !.pc = "unlink", !.at = k])
  /\ UNCHANGED <<kernel, wire, files, owner, said, recorded, faults>>

\* command_line_of: the process under the recorded pid still is this kernel
\* (its command line names the connection file).
StillKernel(k) == Alive(k)

\* reap_orphaned_kernels: a kernel whose recorded owner is gone is killed if
\* it still runs, then its files are removed either way.
ReapKill(c, k) ==
  /\ session[c].pc = "reap" /\ k \in session[c].todo
  /\ files[k] = "owned" /\ ~Live(owner[k])
  /\ Set(c, [session[c] EXCEPT !.pc = "unlink", !.at = k])
  /\ kernel' = IF StillKernel(k) THEN Killed(k) ELSE kernel
  /\ UNCHANGED <<wire, files, owner, said, recorded, faults>>

ReapUnlink(c) ==
  LET k == session[c].at
  IN  /\ session[c].pc = "unlink"
      /\ Set(c, [session[c] EXCEPT !.pc = "reap", !.todo = @ \ {k}])
      /\ files' = [files EXCEPT ![k] = "none"]
      /\ UNCHANGED <<kernel, wire, owner, said, recorded, faults>>

Orphaned(k) == files[k] = "owned" /\ ~Live(owner[k])

\* The sweep is over: write_connection_file, then spawn_kernel.  The kernel
\* held until now is dropped, which kills a process still running.
Spawn(c, k) ==
  LET s == session[c]
  IN  /\ Unused # {} /\ s.pc = "reap" /\ \A j \in s.todo : ~Orphaned(j)
      /\ k = Min(Unused)
      /\ Set(c, [s EXCEPT !.pc = "spawned", !.kernel = k, !.todo = {}])
      /\ kernel' = [kernel EXCEPT ![k].pc = "boot"]
      /\ files' = [files EXCEPT ![k] = "connection"]
      /\ owner' = [owner EXCEPT ![k] = c]
      /\ UNCHANGED <<wire, said, recorded, faults>>

\* The sidecar names the owner and the kernel, and so comes after the spawn.
WriteOwner(c) ==
  /\ session[c].pc = "spawned"
  /\ Set(c, [session[c] EXCEPT !.pc = "handshake"])
  /\ files' = [files EXCEPT ![session[c].kernel] = "owned"]
  /\ UNCHANGED <<kernel, wire, owner, said, recorded, faults>>

\* The iopub subscription takes effect.
Subscribed(k) ==
  /\ Alive(k) /\ ~wire[k].subscribed
  /\ \E c \in Sessions : session[c].kernel = k
  /\ wire' = [wire EXCEPT ![k].subscribed = TRUE]
  /\ UNCHANGED <<session, kernel, files, owner, said, recorded, faults>>

\* What a kernel publishes before the subscription is up is lost.
Publish(k, messages) ==
  IF wire[k].subscribed THEN [wire EXCEPT ![k].iopub = @ \o messages] ELSE wire

\* A kernel_info_request of the handshake that was answered.
Handshake(c) ==
  LET k == session[c].kernel
  IN  /\ session[c].pc = "handshake" /\ kernel[k].pc = "ready"
      /\ Set(c, [session[c] EXCEPT !.pc = "settle"])
      /\ UNCHANGED <<kernel, wire, files, owner, said, recorded, faults>>

\* A restart drops an interrupt meant for the kernel before.
AfterStart(s) == [s EXCEPT !.pc = IF s.cell.id = 0 THEN "idle" ELSE "ensure", !.restart = FALSE,
                           !.flag = @ /\ ~s.restart]

\* settle_to_idle: iopub said idle, or two seconds have passed.
Settle(c) ==
  LET s == session[c]
  IN  /\ s.pc = "settle"
      /\ wire[s.kernel].subscribed \/ "late subscription" \in Allowed
      /\ Set(c, AfterStart(s))
      /\ UNCHANGED <<kernel, wire, files, owner, said, recorded, faults>>

\* The handshake found the process gone or ran out of time: start fails, its
\* Process is dropped, and a cell waiting for the kernel is not recorded
\* unless it had queried already.
StartFails(c) ==
  LET s == session[c]
      after == [s EXCEPT !.kernel = NoKernel, !.restart = FALSE]
  IN  /\ s.pc = "handshake" /\ faults < MaxFaults
      /\ faults' = faults + 1
      /\ kernel' = Killed(s.kernel)
      /\ IF s.cell.handing THEN Record(c, after, "failed")
         ELSE /\ Set(c, [after EXCEPT !.pc = "idle", !.cell = NoCell])
              /\ recorded' = [i \in Cells |-> IF i = s.cell.id
                                THEN Unrecorded("refused") ELSE recorded[i]]
      /\ UNCHANGED <<wire, files, owner, said>>

------------------------------------------------------------------------------
(* The kernel process (external), as far as its client relies on it.        *)

\* The status that ends a request; the others only move a status line.
IdleStatus == [kind |-> "status", name |-> "idle", text |-> <<>>]

Stamp(item, id) == [kind |-> item.kind, name |-> item.name, text |-> item.text, id |-> id]

KernelBoots(k) ==
  /\ kernel[k].pc = "boot"
  /\ kernel' = [kernel EXCEPT ![k].pc = "ready"]
  /\ UNCHANGED <<session, wire, files, owner, said, recorded, faults>>

KernelTakes(k) ==
  LET request == Head(kernel[k].queue)
  IN  /\ kernel[k].pc = "ready" /\ kernel[k].running = 0 /\ kernel[k].queue # <<>>
      /\ kernel' = [kernel EXCEPT ![k].running = request.id, ![k].left = request.items,
                                  ![k].queue = Tail(@), ![k].replied = FALSE, ![k].broken = FALSE,
                                  ![k].sigint = FALSE]
      /\ UNCHANGED <<session, wire, files, owner, said, recorded, faults>>

\* An item of the program, or a question, after which it waits for an answer.
KernelPublishes(k) ==
  LET item == Head(kernel[k].left)
      id   == kernel[k].running
  IN  /\ kernel[k].pc = "ready" /\ id # 0 /\ kernel[k].left # <<>> /\ ~kernel[k].asking
      /\ kernel' = [kernel EXCEPT ![k].left = Tail(@), ![k].asking = item.kind = "ask"]
      /\ wire' = IF item.kind = "ask" THEN [wire EXCEPT ![k].shell = Append(@, Stamp(item, id))]
                 ELSE Publish(k, <<Stamp(item, id)>>)
      /\ said' = IF item.kind = "ask" THEN said ELSE [said EXCEPT ![id] = Append(@, item)]
      /\ UNCHANGED <<session, files, owner, recorded, faults>>

\* SIGINT stops the program with a traceback; a kernel may also ignore it.
KernelStops(k) ==
  /\ kernel[k].pc = "ready" /\ kernel[k].running # 0 /\ kernel[k].sigint
  /\ ~kernel[k].replied
  /\ kernel' = [kernel EXCEPT ![k].left = <<ErrorItem>>, ![k].asking = FALSE,
                              ![k].sigint = FALSE, ![k].broken = TRUE]
  /\ UNCHANGED <<session, wire, files, owner, said, recorded, faults>>

\* The reply goes out on the shell channel, then idle on iopub.
KernelReplies(k) ==
  LET id == kernel[k].running
      status == IF kernel[k].broken THEN "error" ELSE "ok"
  IN  /\ kernel[k].pc = "ready" /\ id # 0
      /\ kernel[k].left = <<>> /\ ~kernel[k].asking /\ ~kernel[k].replied
      /\ kernel' = [kernel EXCEPT ![k].replied = TRUE]
      /\ wire' = [wire EXCEPT ![k].shell =
                    Append(@, [kind |-> "reply", name |-> status, text |-> <<>>, id |-> id])]
      /\ UNCHANGED <<session, files, owner, said, recorded, faults>>

KernelIdles(k) ==
  /\ kernel[k].pc = "ready" /\ kernel[k].running # 0 /\ kernel[k].replied
  /\ kernel' = [kernel EXCEPT ![k].running = 0, ![k].replied = FALSE]
  /\ wire' = Publish(k, <<Stamp(IdleStatus, kernel[k].running)>>)
  /\ UNCHANGED <<session, files, owner, said, recorded, faults>>

KernelDies(k) ==
  /\ Alive(k) /\ faults < MaxFaults
  /\ faults' = faults + 1
  /\ kernel' = Killed(k)
  /\ UNCHANGED <<session, wire, files, owner, said, recorded>>

------------------------------------------------------------------------------
(* The reader tasks and the execute loop.                                   *)

\* Router::deliver: to the call registered under the parent, or nowhere.
Delivered(s, message) ==
  IF s.pc = "running" /\ message.id = s.cell.id
  THEN [s EXCEPT !.call.rx = Append(@, message)] ELSE s

Reading(c) == session[c].kernel # NoKernel /\ Live(c)

ReadIopub(c) ==
  LET k == session[c].kernel
      message == Head(wire[k].iopub)
  IN  /\ Reading(c) /\ wire[k].iopub # <<>>
      /\ Set(c, Delivered(session[c], message))
      /\ wire' = [wire EXCEPT ![k].iopub = Tail(@)]
      /\ UNCHANGED <<kernel, files, owner, said, recorded, faults>>

ReadShell(c) ==
  LET k == session[c].kernel
  IN  /\ Reading(c) /\ wire[k].shell # <<>>
      /\ Set(c, Delivered(session[c], Head(wire[k].shell)))
      /\ wire' = [wire EXCEPT ![k].shell = Tail(@)]
      /\ UNCHANGED <<kernel, files, owner, said, recorded, faults>>

DoneOnReply(call) == call.reply # "none"

\* Both the reply and the closing idle.
Done(call) == call.idle /\ call.reply # "none"

Outcome(call) ==
  IF call.interrupted /\ ~call.byUser THEN "timeout" ELSE call.reply

\* One message: folded into the outputs, a question answered at once.
Handle(c) ==
  LET s       == session[c]
      message == Head(s.call.rx)
      item    == [kind |-> message.kind, name |-> message.name, text |-> message.text]
      call    == [s.call EXCEPT !.rx = Tail(@), !.deaf = FALSE,
                                !.idle = @ \/ item = IdleStatus,
                                !.reply = IF item.kind = "reply" THEN item.name ELSE @]
      after   == [s EXCEPT !.call = call,
                    !.cell.tee = Tee(@, item)]
  IN  /\ s.pc = "running" /\ s.call.rx # <<>>
      /\ kernel' = IF item.kind = "ask" THEN [kernel EXCEPT ![s.kernel].asking = FALSE] ELSE kernel
      /\ IF Done(call) THEN Record(c, after, Outcome(call))
         ELSE Set(c, after) /\ UNCHANGED recorded
      /\ UNCHANGED <<wire, files, owner, said, faults>>

\* The select is biased: nothing else is looked at while a message waits.
Waiting(c) == session[c].pc = "running" /\ session[c].call.rx = <<>>

Signalled(k) == [kernel EXCEPT ![k].sigint = @ \/ Alive(k)]

ExitedUnwatched(c) ==
  /\ Waiting(c) /\ ~Alive(session[c].kernel) /\ ~session[c].call.exited
  /\ session[c].call.interrupted
  /\ Set(c, [session[c] EXCEPT !.call.exited = TRUE, !.call.deaf = FALSE])
  /\ UNCHANGED <<kernel, wire, files, owner, said, recorded, faults>>

\* Wake::Exited: what was sent before may still arrive.
Exited(c) ==
  /\ Waiting(c) /\ ~Alive(session[c].kernel) /\ ~session[c].call.exited
  /\ Set(c, [session[c] EXCEPT !.call.exited = TRUE, !.call.deaf = FALSE])
  /\ UNCHANGED <<kernel, wire, files, owner, said, recorded, faults>>

\* Wake::Deadline: the drain after an interrupt or an exit, else the caller's
\* timeout, which interrupts rather than abandons.
Deadline(c) ==
  LET s == session[c]
      call == s.call
  IN  /\ Waiting(c)
      /\ call.interrupted \/ call.exited \/ s.cell.job.timed
      /\ \/ /\ call.exited /\ ~call.byUser
            /\ Record(c, s, "died")
            /\ UNCHANGED kernel
         \/ /\ call.interrupted /\ ~(call.exited /\ ~call.byUser)
            /\ Record(c, s, IF call.byUser THEN "interrupted" ELSE "timeout")
            /\ UNCHANGED kernel
         \/ /\ ~call.interrupted /\ ~call.exited
            /\ Set(c, [s EXCEPT !.call.interrupted = TRUE, !.call.deaf = FALSE])
            /\ kernel' = Signalled(s.kernel)
            /\ UNCHANGED recorded
      /\ UNCHANGED <<wire, files, owner, said, faults>>

\* Wake::Interrupted.
WakeInterrupted(c) ==
  LET s == session[c]
  IN  /\ Waiting(c) /\ s.flag /\ ~s.call.interrupted /\ ~s.call.deaf
      /\ Set(c, [s EXCEPT !.call.interrupted = TRUE, !.call.byUser = TRUE])
      /\ kernel' = Signalled(s.kernel)
      /\ UNCHANGED <<wire, files, owner, said, recorded, faults>>

\* InterruptHandle::interrupt, from another task at any time.
Interrupt(c, missed) ==
  /\ Live(c) /\ faults < MaxFaults
  /\ missed => "lost wakeup" \in Allowed /\ Waiting(c)
  /\ faults' = faults + 1
  /\ Set(c, [session[c] EXCEPT !.flag = TRUE, !.call.deaf = missed])
  /\ UNCHANGED <<kernel, wire, files, owner, said, recorded>>

------------------------------------------------------------------------------
(* Restart, shutdown, the death of a session.                               *)

\* Session::restart and Session::shutdown: a kernel that is alive is asked to
\* exit, terminated, killed; a restart without one only starts one.
Stop(c, restart) ==
  LET s == session[c]
  IN  /\ s.pc = "idle" /\ s.kernel # NoKernel /\ Cardinality(Active) < MaxActive
      /\ Set(c, IF Alive(s.kernel) \/ ~restart
                THEN [s EXCEPT !.pc = "stopping", !.restart = restart]
                ELSE [s EXCEPT !.pc = "reap", !.kernel = NoKernel, !.todo = Sidecars])
      /\ UNCHANGED <<kernel, wire, files, owner, said, recorded, faults>>

\* stop_process returns once the process has exited; teardown ends the readers
\* and removes the files.
Teardown(c) ==
  LET s == session[c]
      k == s.kernel
  IN  /\ s.pc = "stopping"
      /\ kernel' = Killed(k)
      /\ files' = [files EXCEPT ![k] = "none"]
      /\ wire' = [wire EXCEPT ![k] = NoWire]
      /\ Set(c, [s EXCEPT !.pc = IF s.restart THEN "reap" ELSE "idle", !.kernel = NoKernel,
                          !.todo = IF s.restart THEN Sidecars \ {k} ELSE {}])
      /\ UNCHANGED <<owner, said, recorded, faults>>

\* The session's process is killed: nothing runs, not even a Drop.  What its
\* kernel goes on to do, nobody hears.
Crash(c) ==
  /\ Live(c) /\ faults < MaxFaults
  /\ session[c].pc = "spawned" => "crash in spawn" \in Allowed
  /\ faults' = faults + 1
  /\ Set(c, [NewSession EXCEPT !.pc = "dead", !.cell.id = session[c].cell.id])
  /\ kernel' = [k \in Kernels |-> IF k = session[c].kernel /\ Alive(k)
                                  THEN [NewKernel EXCEPT !.pc = kernel[k].pc] ELSE kernel[k]]
  /\ wire' = [k \in Kernels |-> IF k = session[c].kernel THEN NoWire ELSE wire[k]]
  /\ UNCHANGED <<files, owner, said, recorded>>

SessionStep(c) ==
  \/ \E how \in {"ok", "error", "interrupted", "timeout"} : SqlEnds(c, how)
  \/ Ensure(c)
  \/ \E k \in Kernels : ReapKill(c, k) \/ Spawn(c, k)
  \/ ReapUnlink(c) \/ WriteOwner(c) \/ Handshake(c) \/ Settle(c)
  \/ ReadIopub(c) \/ ReadShell(c) \/ Handle(c)
  \/ Exited(c) \/ Deadline(c) \/ WakeInterrupted(c) \/ Teardown(c)

KernelStep(k) ==
  \/ KernelBoots(k) \/ Subscribed(k) \/ KernelTakes(k) \/ KernelPublishes(k) \/ KernelStops(k)
  \/ KernelReplies(k) \/ KernelIdles(k) \/ KernelDies(k)

Next ==
  \/ \E c \in Sessions :
       \/ \E job \in UNION Range(Jobs) : RunCell(c, job)
       \/ SessionStep(c) \/ StartFails(c) \/ Crash(c)
       \/ \E missed \in BOOLEAN : Interrupt(c, missed)
       \/ \E restart \in BOOLEAN : Stop(c, restart)
  \/ \E k \in Kernels : KernelStep(k)

Spec == Init /\ [][Next]_vars

\* The tasks of a session run and timers fire; a kernel owes nothing.
FairSpec == Spec /\ \A c \in Sessions : WF_vars(SessionStep(c))

------------------------------------------------------------------------------
(* Properties.                                                              *)

\* Recorded exactly (jupyter.rs execute, session.rs run_cell): a cell whose
\* run ended in a reply holds everything its kernels published for it and
\* nothing published for another cell; one cut short holds a beginning of it,
\* and a result that could not be bound says so at the end.
CellExact ==
  \A i \in Cells :
    LET r == recorded[i]
        ends == IF r.unbound THEN <<ErrorItem>> ELSE <<>>
    IN  IF r.outcome \in {"ok", "error"} /\ ~r.unbound THEN r.outputs = Collected(said[i])
        ELSE \E n \in 0 .. Len(said[i]) : r.outputs = Collected(SubSeq(said[i], 1, n) \o ends)

\* No kernel outlives its session unseen (jupyter.rs start, restart, shutdown,
\* reap_orphaned_kernels): a running kernel is the one its living session
\* uses, or its session is dead and the sidecar the next sweep looks for is
\* there.
KernelsOwned ==
  \A k \in Kernels : Alive(k) =>
    IF Live(owner[k]) THEN session[owner[k]].kernel = k ELSE files[k] = "owned"

\* A call returns (jupyter.rs execute): with a timeout, after an interrupt, or
\* once its kernel is gone, whatever the kernel does.
CallReturns ==
  \A c \in Sessions :
    (session[c].pc = "running"
       /\ (session[c].cell.job.timed \/ session[c].flag \/ ~Alive(session[c].kernel)))
      ~> session[c].pc # "running"

------------------------------------------------------------------------------
(* The inductive invariant behind KernelsOwned.                             *)

\* The records' fields; what is in a cell or a call does not matter here.
FieldsOK ==
  /\ DOMAIN session = Sessions /\ \A c \in Sessions : DOMAIN session[c] = DOMAIN NewSession
  /\ DOMAIN kernel = Kernels /\ \A k \in Kernels : DOMAIN kernel[k] = DOMAIN NewKernel
  /\ DOMAIN files = Kernels /\ owner \in [Kernels -> Sessions]

\* A session's kernel was spawned; it has a sidecar but in the middle of a
\* start, and does not run while its successor is prepared.
SessionOK(c) ==
  LET s == session[c]
  IN  /\ s.kernel # NoKernel => s.kernel \in Kernels /\ kernel[s.kernel].pc # "none"
      /\ s.pc \in {"reap", "unlink"} => ~Alive(s.kernel)
      /\ s.pc = "unlink" => s.at \in Kernels /\ kernel[s.at].pc \notin {"none", "boot", "ready"}
      /\ s.pc \notin {"dead", "spawned"} /\ Alive(s.kernel) => files[s.kernel] = "owned"

OwnInv ==
  /\ FieldsOK /\ KernelsOwned
  /\ \A c \in Sessions : SessionOK(c)
  /\ \A k \in Kernels : files[k] = "owned" => kernel[k].pc # "none"

=============================================================================
