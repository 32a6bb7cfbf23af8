----------------------------- MODULE Supervisor -----------------------------
(***************************************************************************)
(* One notebook's session across CLI invocations (h5i-db-notebook,         *)
(* supervisor/ and session.rs): every command is a process of its own that *)
(* talks to a supervisor over a unix socket, starts one if nobody listens, *)
(* and retries a request that a departing supervisor lost.  A supervisor   *)
(* owns the notebook while it holds an flock on the lock file, keeps the   *)
(* notebook in memory and rewrites the whole file after every cell.        *)
(*                                                                         *)
(* The session sits behind a tokio mutex, which is first come first served *)
(* and hands itself to the next waiter: it is the queue of the tasks that  *)
(* hold it (the head) or wait for it.  Timeouts are steps that may be      *)
(* taken whenever the wait they bound is on.                               *)
(***************************************************************************)
EXTENDS Naturals, Sequences, FiniteSets, SequencesExt

CONSTANTS Clients,  \* the CLI processes, each runs one command
          Mixes,    \* the commands they may run together: functions on Clients
          Sups,     \* the supervisor processes that may be started
          None,
          MaxCrash, \* supervisors killed
          Allowed   \* of Hazardous, what may also happen

(***************************************************************************)
(* What breaks the properties below, as the README tells: `ls` removing    *)
(* files of a supervisor that starts between its look and its removal; an  *)
(* edit written to the file while a session has it in memory; an insertion *)
(* between a detached cell's being queued and its run; a task that goes on *)
(* after serve has returned and given up the lock.  Where one of them is   *)
(* not allowed, the steps it would interleave wait for each other.         *)
(***************************************************************************)
Hazardous == {"sweep", "edit file", "shift", "late"}

Kinds == {"exec", "detach", "run", "edit", "restart", "ask", "status", "interrupt", "stop", "ls",
          "nothing"}

ASSUME SupervisorAssumption ==
  /\ Allowed \subseteq Hazardous /\ MaxCrash \in Nat
  /\ None \notin Clients \cup Sups
  /\ Mixes \subseteq [Clients -> Kinds]

VARIABLES client,    \* the commands
          sup,       \* the supervisors
          task,      \* the connection of each client, as its supervisor has it
          back,      \* the background run of a detached cell
          queue,     \* the session mutex of each supervisor
          sockFile,  \* who bound the socket path, if it exists
          lockFile,  \* the inode at the lock path, 0 if it does not exist
          inodes,    \* lock files created so far
          file,      \* the notebook on disk
          applied,   \* history: times the command changed or ran something
          crashes

vars == <<client, sup, task, back, queue, sockFile, lockFile, inodes, file, applied, crashes>>

fs == <<sockFile, lockFile, inodes>>

------------------------------------------------------------------------------
(* Supervisors and what they hold.                                          *)

\* SupervisorLock is held from here to serve's return.
Owning == {"own", "opened", "serving", "drain", "interrupting"}

\* The notebook is in memory.
Holding == {"opened", "serving", "drain", "interrupting"}

\* The tasks of the process may run.
Alive(s) == \/ sup[s].pc \in {"serving", "drain", "interrupting"}
            \/ sup[s].pc = "returned" /\ "late" \in Allowed

Listening == sockFile # None /\ sup[sockFile].pc = "serving"

Free(inode) == \A s \in Sups : sup[s].pc \in Owning => sup[s].inode # inode

\* A waiter leaves its place.
Drop(q, t) == IF Contains(q, t) THEN RemoveAt(q, CHOOSE i \in 1..Len(q) : q[i] = t) ELSE q

Idle(s) == queue[s] = <<>>

Conn(c) == <<"conn", c>>
Back(c) == <<"back", c>>
Main(s) == <<"main", s>>

------------------------------------------------------------------------------
(* The client.                                                              *)

\* Mutant: a request whose answer was lost is sent again whatever it was.
RepeatableAlways(kind) == TRUE

\* Request::is_repeatable
Repeatable(kind) == kind \in {"ask", "status", "interrupt", "stop"}

\* Request policy: an edit or a listing never starts a supervisor.
StartsOne(kind) == kind \notin {"edit", "ls"}

Finish(c, result) == client' = [client EXCEPT ![c].pc = "done", ![c].result = result]

\* A failed attempt is repeated once, if it was not delivered or may be
\* delivered twice.
Retry(c, delivered) ==
  IF client[c].attempt = 1 /\ (~delivered \/ Repeatable(client[c].kind))
  THEN client' = [client EXCEPT ![c].pc = "connect", ![c].attempt = 2]
  ELSE Finish(c, "lost")

\* `kernel stop`, `kernel status` and `kernel interrupt` look first.
Begin(c) ==
  /\ client[c].pc = "idle" /\ client[c].kind # "nothing"
  /\ IF client[c].kind \in {"stop", "interrupt"} /\ ~Listening
     THEN Finish(c, "none")
     ELSE client' = [client EXCEPT ![c].pc = "connect"]
  /\ UNCHANGED <<sup, task, back, queue, fs, file, applied, crashes>>

Connect(c) ==
  /\ client[c].pc = "connect" /\ Listening
  /\ client' = [client EXCEPT ![c].pc = "write"]
  /\ task' = [task EXCEPT ![c] = [sup |-> sockFile, stage |-> "backlog", index |-> 0]]
  /\ UNCHANGED <<sup, back, queue, fs, file, applied, crashes>>

\* spawn_supervisor: the process, and the wait for its socket.
Spawn(c) ==
  /\ client[c].pc = "connect" /\ ~Listening /\ StartsOne(client[c].kind)
  /\ LET off == {s \in Sups : sup[s].pc = "off"}
     IN  \E s \in off :
           /\ s = CHOOSE t \in off : TRUE
           /\ sup' = [sup EXCEPT ![s].pc = "start"]
  /\ client' = [client EXCEPT ![c].pc = "spawned"]
  /\ UNCHANGED <<task, back, queue, fs, file, applied, crashes>>

\* The probe that ends the wait is one connection, the request another.
Spawned(c) ==
  /\ client[c].pc = "spawned"
  /\ IF Listening THEN client' = [client EXCEPT ![c].pc = "reconnect"]
     ELSE Finish(c, "timeout")
  /\ UNCHANGED <<sup, task, back, queue, fs, file, applied, crashes>>

Reconnect(c) ==
  /\ client[c].pc = "reconnect"
  /\ IF Listening
     THEN /\ client' = [client EXCEPT ![c].pc = "write"]
          /\ task' = [task EXCEPT ![c] = [sup |-> sockFile, stage |-> "backlog", index |-> 0]]
     ELSE Retry(c, FALSE) /\ UNCHANGED task
  /\ UNCHANGED <<sup, back, queue, fs, file, applied, crashes>>

\* The connection is gone: reset with the listener, or with the process.
Gone(c) == task[c].stage = "reset"

Write(c) ==
  /\ client[c].pc = "write"
  /\ IF Gone(c) THEN Retry(c, FALSE) ELSE client' = [client EXCEPT ![c].pc = "read"]
  /\ UNCHANGED <<sup, task, back, queue, fs, file, applied, crashes>>

\* The terminal frame, or the end of the stream without one.
Read(c) ==
  /\ client[c].pc = "read"
  /\ \/ task[c].stage \in {"ok", "error", "busy"} /\ Finish(c, task[c].stage)
     \/ Gone(c) /\ Retry(c, TRUE)
  /\ UNCHANGED <<sup, task, back, queue, fs, file, applied, crashes>>

------------------------------------------------------------------------------
(* The notebook: cells named for the command that made them.                *)

Cell(c) == [id |-> c, out |-> "none"]

SetOut(cells, k, out) == [cells EXCEPT ![k].out = out]

ClearOutputs(cells) ==
  [k \in DOMAIN cells |-> IF cells[k].out = "none" THEN cells[k]
                          ELSE [cells[k] EXCEPT !.out = "cleared"]]

Count(c) == applied' = [applied EXCEPT ![c] = @ + 1]

\* Mutant: the session is saved when it ends.
SaveInMemory(s, cells) == sup' = [sup EXCEPT ![s].mem = cells] /\ UNCHANGED file

\* Session::save: the whole file, from memory.
Save(s, cells) == sup' = [sup EXCEPT ![s].mem = cells] /\ file' = cells

Doing(pcs) == \E c \in Clients : client[c].pc \in pcs

\* apply_edit_to_file, without a session: read, change, write.
ReadForEdit(c) ==
  /\ client[c].pc = "connect" /\ client[c].kind = "edit" /\ ~Listening
  /\ \/ "edit file" \in Allowed
     \/ ~Doing({"edit"}) /\ \A s \in Sups : sup[s].pc \notin Holding \cup {"returned"}
  /\ client' = [client EXCEPT ![c].pc = "edit", ![c].copy = <<Cell(c)>> \o file]
  /\ UNCHANGED <<sup, task, back, queue, fs, file, applied, crashes>>

WriteEdit(c) ==
  /\ client[c].pc = "edit"
  /\ file' = client[c].copy /\ Finish(c, "ok") /\ Count(c)
  /\ UNCHANGED <<sup, task, back, queue, fs, crashes>>

------------------------------------------------------------------------------
(* `ls` sweeps what a dead supervisor left: a socket nobody answers on and  *)
(* whose lock nobody holds.                                                 *)

\* SupervisorLock::is_unowned; it opens the lock file, so it creates one.
Unowned == lockFile = 0 \/ Free(lockFile)

\* session_at: connect and ask for the status, for two seconds.
List(c) ==
  /\ client[c].pc = "connect" /\ client[c].kind = "ls"
  /\ IF sockFile # None /\ ~Listening /\ Unowned
     THEN /\ \/ "sweep" \in Allowed
             \/ \A s \in Sups : sup[s].pc \notin {"flock", "poll", "own"}
          /\ client' = [client EXCEPT ![c].pc = "unlink socket"]
     ELSE Finish(c, "ok")
  /\ UNCHANGED <<sup, task, back, queue, fs, file, applied, crashes>>

UnlinkSocket(c) ==
  /\ client[c].pc = "unlink socket"
  /\ sockFile' = None
  /\ client' = [client EXCEPT ![c].pc = "unlink lock"]
  /\ UNCHANGED <<sup, task, back, queue, lockFile, inodes, file, applied, crashes>>

UnlinkLock(c) ==
  /\ client[c].pc = "unlink lock"
  /\ lockFile' = 0 /\ Finish(c, "ok")
  /\ UNCHANGED <<sup, task, back, queue, sockFile, inodes, file, applied, crashes>>

------------------------------------------------------------------------------
(* A supervisor starts: claim, open, bind.                                  *)

Move(s, pc) == sup' = [sup EXCEPT ![s].pc = pc]

\* try_acquire, the open: it creates the lock file if there is none.
OpenLock(s) ==
  /\ sup[s].pc \in {"start", "handover"}
  /\ "sweep" \in Allowed \/ ~Doing({"unlink socket", "unlink lock"})
  /\ IF lockFile = 0 THEN inodes' = inodes + 1 /\ lockFile' = inodes + 1
     ELSE UNCHANGED <<inodes, lockFile>>
  /\ sup' = [sup EXCEPT ![s].pc = IF @ = "start" THEN "flock" ELSE "poll",
                        ![s].inode = lockFile']
  /\ UNCHANGED <<client, task, back, queue, sockFile, file, applied, crashes>>

\* Mutant: the lock is not waited for, nor looked at.
FlockIgnored(s) ==
  /\ sup[s].pc \in {"flock", "poll"}
  /\ Move(s, "own")
  /\ UNCHANGED <<client, task, back, queue, fs, file, applied, crashes>>

Flock(s) ==
  /\ sup[s].pc \in {"flock", "poll"}
  /\ Move(s, IF Free(sup[s].inode) THEN "own"
             ELSE IF sup[s].pc = "flock" THEN "probe" ELSE "handover")
  /\ UNCHANGED <<client, task, back, queue, fs, file, applied, crashes>>

\* Somebody holds it: a duplicate start gives up, a replacement waits.
Probe(s) ==
  /\ sup[s].pc = "probe"
  /\ Move(s, IF Listening THEN "exited" ELSE "handover")
  /\ UNCHANGED <<client, task, back, queue, fs, file, applied, crashes>>

HandoverTimeout(s) ==
  /\ sup[s].pc = "handover"
  /\ Move(s, "exited")
  /\ UNCHANGED <<client, task, back, queue, fs, file, applied, crashes>>

OpenSession(s) ==
  /\ sup[s].pc = "own"
  /\ "edit file" \in Allowed \/ ~Doing({"edit"})
  /\ sup' = [sup EXCEPT ![s].pc = "opened", ![s].mem = file]
  /\ UNCHANGED <<client, task, back, queue, fs, file, applied, crashes>>

\* Whatever is at the path is a leftover: unlink it and bind.
Bind(s) ==
  /\ sup[s].pc = "opened"
  /\ Move(s, "serving") /\ sockFile' = s
  /\ UNCHANGED <<client, task, back, queue, lockFile, inodes, file, applied, crashes>>

------------------------------------------------------------------------------
(* A supervisor serves: one task per connection.                            *)

Answer(c, stage) == task' = [task EXCEPT ![c].stage = stage]

At(c, stage) == task[c].stage = stage /\ Alive(task[c].sup)

Accept(c) ==
  /\ At(c, "backlog") /\ sup[task[c].sup].pc = "serving"
  /\ Answer(c, "accepted")
  /\ UNCHANGED <<client, sup, back, queue, fs, file, applied, crashes>>

Asked(c) == At(c, "accepted") /\ client[c].pc # "write"

\* Status and interrupt never take the session's lock; neither does stop,
\* which is a message to the accept loop.
DispatchAtOnce(c) ==
  /\ Asked(c) /\ client[c].kind \in {"status", "interrupt", "stop", "ls"}
  /\ sup' = [sup EXCEPT ![task[c].sup].stop = @ \/ client[c].kind = "stop"]
  /\ Answer(c, "ok")
  /\ UNCHANGED <<client, back, queue, fs, file, applied, crashes>>

\* A cell is refused while the session is busy, rather than queued.
DispatchBusy(c) ==
  /\ Asked(c) /\ client[c].kind \in {"exec", "detach", "run"} /\ ~Idle(task[c].sup)
  /\ Answer(c, "busy")
  /\ UNCHANGED <<client, sup, back, queue, fs, file, applied, crashes>>

\* Everything else waits its turn, an edit not longer than EDIT_LOCK_WAIT.
DispatchWait(c) ==
  /\ Asked(c) /\ client[c].kind \in {"edit", "ask", "restart"}
  /\ queue' = [queue EXCEPT ![task[c].sup] = Append(@, Conn(c))]
  /\ Answer(c, "queued")
  /\ UNCHANGED <<client, sup, back, fs, file, applied, crashes>>

EditTimeout(c) ==
  /\ At(c, "queued") /\ client[c].kind = "edit" /\ Head(queue[task[c].sup]) # Conn(c)
  /\ queue' = [queue EXCEPT ![task[c].sup] = Drop(@, Conn(c))]
  /\ Answer(c, "busy")
  /\ UNCHANGED <<client, sup, back, fs, file, applied, crashes>>

\* Detached cells of s that have not run yet.
Pending(s) == {d \in Clients : task[d].sup = s /\ back[d] \in {"spawned", "queued"}}

\* An edit inserts a cell at the top and saves; a restart clears what is
\* recorded, if the kernel comes up; a question changes nothing.
Granted(c) ==
  LET s    == task[c].sup
      kind == client[c].kind
  IN  /\ At(c, "queued") /\ Head(queue[s]) = Conn(c)
      /\ kind = "edit" => Pending(s) = {} \/ "shift" \in Allowed
      /\ \/ /\ kind = "edit" /\ Save(s, <<Cell(c)>> \o sup[s].mem) /\ Count(c)
            /\ Answer(c, "ok")
         \/ /\ kind = "restart" /\ Save(s, ClearOutputs(sup[s].mem)) /\ Count(c)
            /\ Answer(c, "ok")
         \/ /\ kind = "ask" /\ Answer(c, "ok") /\ UNCHANGED <<sup, file, applied>>
         \/ /\ kind # "edit" /\ Answer(c, "error") /\ UNCHANGED <<sup, file, applied>>
      /\ queue' = [queue EXCEPT ![s] = Tail(@)]
      /\ UNCHANGED <<client, back, fs, crashes>>

\* exec: the cell is appended and saved before it runs, under one lock;
\* run: the cells are there.
DispatchRun(c) ==
  LET s == task[c].sup
  IN  /\ Asked(c) /\ client[c].kind \in {"exec", "run"} /\ Idle(s)
      /\ IF client[c].kind = "exec"
         THEN /\ Save(s, Append(sup[s].mem, Cell(c))) /\ Count(c)
              /\ task' = [task EXCEPT ![c].stage = "running", ![c].index = Len(sup[s].mem) + 1]
              /\ queue' = [queue EXCEPT ![s] = <<Conn(c)>>]
         ELSE IF sup[s].mem = <<>>
         THEN Answer(c, "error") /\ UNCHANGED <<sup, file, applied, queue>>
         ELSE /\ task' = [task EXCEPT ![c].stage = "running", ![c].index = 1]
              /\ queue' = [queue EXCEPT ![s] = <<Conn(c)>>]
              /\ Count(c) /\ UNCHANGED <<sup, file>>
      /\ UNCHANGED <<client, back, fs, crashes>>

\* The cell ends: with its outputs recorded whatever they are, or without
\* any when the kernel would not start.
CellEnds(c) ==
  LET s == task[c].sup
  IN  /\ At(c, "running")
      /\ \/ Save(s, SetOut(sup[s].mem, task[c].index, "out")) /\ Answer(c, "ok")
         \/ Answer(c, "error") /\ UNCHANGED <<sup, file>>
      /\ queue' = [queue EXCEPT ![s] = Tail(@)]
      /\ UNCHANGED <<client, back, fs, applied, crashes>>

\* A detached cell is appended, its index is answered, and it runs later.
DispatchDetached(c) ==
  LET s == task[c].sup
  IN  /\ Asked(c) /\ client[c].kind = "detach" /\ Idle(s)
      /\ Save(s, Append(sup[s].mem, Cell(c)))
      /\ task' = [task EXCEPT ![c].stage = "ok", ![c].index = Len(sup[s].mem) + 1]
      /\ back' = [back EXCEPT ![c] = "spawned"]
      /\ UNCHANGED <<client, queue, fs, applied, crashes>>

BackgroundLock(c) ==
  /\ back[c] = "spawned" /\ Alive(task[c].sup)
  /\ queue' = [queue EXCEPT ![task[c].sup] = Append(@, Back(c))]
  /\ back' = [back EXCEPT ![c] = "queued"]
  /\ UNCHANGED <<client, sup, task, fs, file, applied, crashes>>

BackgroundRun(c) ==
  LET s == task[c].sup
  IN  /\ back[c] = "queued" /\ Alive(s) /\ Head(queue[s]) = Back(c)
      /\ back' = [back EXCEPT ![c] = "running"]
      \* whose cell is at the index now
      /\ applied' = [applied EXCEPT ![sup[s].mem[task[c].index].id] = @ + 1]
      /\ UNCHANGED <<client, sup, task, queue, fs, file, crashes>>

\* A failure is recorded in the cell: nobody is waiting for the answer.
BackgroundEnds(c) ==
  LET s == task[c].sup
  IN  /\ back[c] = "running" /\ Alive(s)
      /\ Save(s, SetOut(sup[s].mem, task[c].index, "out"))
      /\ back' = [back EXCEPT ![c] = "done"]
      /\ queue' = [queue EXCEPT ![s] = Tail(@)]
      /\ UNCHANGED <<client, task, fs, applied, crashes>>

------------------------------------------------------------------------------
(* A supervisor leaves.                                                     *)

\* Connections nobody accepted are reset with the listener.
Reset(s, stages) ==
  [c \in Clients |-> IF task[c].sup = s /\ task[c].stage \in stages
                     THEN [task[c] EXCEPT !.stage = "reset"] ELSE task[c]]

\* Told to, or idle for its time to live; the socket goes first.
Leave(s) ==
  /\ sup[s].pc = "serving"
  /\ sup[s].stop \/ Idle(s)
  /\ Move(s, "drain") /\ sockFile' = None
  /\ task' = Reset(s, {"backlog"})
  /\ queue' = [queue EXCEPT ![s] = Append(@, Main(s))]
  /\ UNCHANGED <<client, back, lockFile, inodes, file, applied, crashes>>

\* The running cell did not let go: interrupt it and wait once more, at the
\* back of the queue.
DrainTimeout(s) ==
  /\ sup[s].pc = "drain" /\ Head(queue[s]) # Main(s)
  /\ Move(s, "interrupting")
  /\ queue' = [queue EXCEPT ![s] = Append(Drop(@, Main(s)), Main(s))]
  /\ UNCHANGED <<client, task, back, fs, file, applied, crashes>>

\* Mutant: a cell that will not yield the session is waited for.
ReturnWhenDrained(s) ==
  /\ sup[s].pc \in {"drain", "interrupting"}
  /\ Head(queue[s]) = Main(s)
  /\ Move(s, "returned")
  /\ queue' = [queue EXCEPT ![s] = Drop(@, Main(s))]
  /\ UNCHANGED <<client, task, back, fs, file, applied, crashes>>

\* serve returns, with the session drained or after the second wait, and the
\* lock goes with it.
Return(s) ==
  /\ sup[s].pc \in {"drain", "interrupting"}
  /\ Head(queue[s]) = Main(s) \/ sup[s].pc = "interrupting"
  /\ Move(s, "returned")
  /\ queue' = [queue EXCEPT ![s] = Drop(@, Main(s))]
  /\ UNCHANGED <<client, task, back, fs, file, applied, crashes>>

Unanswered == {"backlog", "accepted", "queued", "running"}

\* The process ends and its tasks with it; an answer not yet read may or may
\* not have been written.
Die(s) ==
  /\ sup' = [sup EXCEPT ![s].pc = "exited", ![s].mem = <<>>, ![s].inode = 0]
  /\ \/ task' = Reset(s, Unanswered)
     \/ task' = Reset(s, Unanswered \cup {"ok", "error", "busy"})
  /\ back' = [c \in Clients |-> IF task[c].sup = s THEN "none" ELSE back[c]]
  /\ queue' = [queue EXCEPT ![s] = <<>>]
  /\ UNCHANGED <<client, fs, file, applied>>

Exit(s) == sup[s].pc = "returned" /\ Die(s) /\ UNCHANGED crashes

Crash(s) ==
  /\ sup[s].pc \in Owning \cup {"start", "flock", "handover"} /\ crashes < MaxCrash
  /\ Die(s) /\ crashes' = crashes + 1

------------------------------------------------------------------------------

Init ==
  /\ \E mix \in Mixes :
       client = [c \in Clients |-> [kind |-> mix[c], pc |-> "idle", attempt |-> 1,
                                    result |-> "none", copy |-> <<>>]]
  /\ sup = [s \in Sups |-> [pc |-> "off", inode |-> 0, mem |-> <<>>, stop |-> FALSE]]
  /\ task = [c \in Clients |-> [sup |-> None, stage |-> "none", index |-> 0]]
  /\ back = [c \in Clients |-> "none"]
  /\ queue = [s \in Sups |-> <<>>]
  /\ sockFile = None /\ lockFile = 0 /\ inodes = 0 /\ file = <<>>
  /\ applied = [c \in Clients |-> 0] /\ crashes = 0

ClientStep(c) ==
  \/ Begin(c) \/ Connect(c) \/ Spawn(c) \/ Spawned(c) \/ Reconnect(c) \/ Write(c) \/ Read(c)
  \/ ReadForEdit(c) \/ WriteEdit(c) \/ List(c) \/ UnlinkSocket(c) \/ UnlinkLock(c)

TaskStep(c) ==
  \/ Accept(c) \/ DispatchAtOnce(c) \/ DispatchBusy(c) \/ DispatchWait(c) \/ EditTimeout(c)
  \/ Granted(c) \/ DispatchRun(c) \/ CellEnds(c) \/ DispatchDetached(c)
  \/ BackgroundLock(c) \/ BackgroundRun(c) \/ BackgroundEnds(c)

SupStep(s) ==
  \/ OpenLock(s) \/ Flock(s) \/ Probe(s) \/ HandoverTimeout(s) \/ OpenSession(s) \/ Bind(s)
  \/ Leave(s) \/ DrainTimeout(s) \/ Return(s) \/ Exit(s)

Next ==
  \/ \E c \in Clients : ClientStep(c) \/ TaskStep(c)
  \/ \E s \in Sups : SupStep(s) \/ Crash(s)

Spec == Init /\ [][Next]_vars

\* The supervisor's own steps are a running task's and timers'; nothing is
\* assumed of the cells, which may run for ever, or of the clients.
Fairness ==
  \A s \in Sups : /\ WF_vars(Leave(s)) /\ WF_vars(DrainTimeout(s))
                  /\ WF_vars(Return(s)) /\ WF_vars(Exit(s))

FairSpec == Spec /\ Fairness

------------------------------------------------------------------------------
(* Properties.                                                              *)

Cells == [id : Clients, out : {"none", "out", "cleared"}]
ClientPCs == {"idle", "connect", "spawned", "reconnect", "write", "read", "edit", "unlink socket",
              "unlink lock", "done"}
Results == {"none", "ok", "error", "busy", "lost", "timeout"}
SupPCs == Owning \cup {"off", "start", "flock", "poll", "probe", "handover", "returned", "exited"}
Stages == Unanswered \cup {"none", "ok", "error", "busy", "reset"}

\* The types of the state.
TypeOK ==
  /\ client \in [Clients -> [kind : Kinds, pc : ClientPCs, attempt : 1..2, result : Results,
                             copy : Seq(Cells)]]
  /\ sup \in [Sups -> [pc : SupPCs, inode : Nat, mem : Seq(Cells), stop : BOOLEAN]]
  /\ task \in [Clients -> [sup : Sups \cup {None}, stage : Stages, index : Nat]]
  /\ back \in [Clients -> {"none", "spawned", "queued", "running", "done"}]
  /\ queue \in [Sups -> Seq({"conn", "back", "main"} \X (Clients \cup Sups))]
  /\ sockFile \in Sups \cup {None} /\ inodes \in Nat /\ lockFile \in 0..inodes
  /\ file \in Seq(Cells)
  /\ applied \in [Clients -> Nat]
  /\ crashes \in 0..MaxCrash

\* One supervisor has the notebook in memory at a time, and the one that
\* serves it can be reached: the socket path leads to it.  Two of them would
\* each rewrite the whole file and erase the other's cells; one that nobody
\* can reach keeps every later client out.
OneOwner ==
  /\ \A s, t \in Sups : sup[s].pc \in Holding /\ sup[t].pc \in Holding => s = t
  /\ \A s \in Sups : sup[s].pc = "serving" => sockFile = s

\* No command acts twice, whatever is retried, lost or handed over, and a
\* detached cell is the one that runs: not the cell that took its place.
ActsOnce == \A c \in Clients : applied[c] <= 1

\* What a client was told happened is in the file, whichever supervisors come
\* and go and whoever else edits: the cell it appended or inserted, with the
\* outputs of an execution that has ended.
AnsweredKept ==
  \A c \in Clients :
    client[c].result = "ok" /\ client[c].kind \in {"exec", "detach", "edit"} =>
      \E k \in DOMAIN file :
        /\ file[k].id = c
        /\ client[c].kind = "exec" \/ back[c] = "done" => file[k].out # "none"

\* A supervisor that was told to stop does stop, also under a cell that
\* never ends.
StopStops == \A s \in Sups : sup[s].stop ~> sup[s].pc = "exited"

------------------------------------------------------------------------------
(* The inductive invariants the proofs use.                                 *)

\* Whoever has or wants the flock has it on the file that is at the path, and
\* that file is not swept meanwhile.
Locking == Owning \cup {"flock", "poll"}
OwnerInv ==
  /\ \A s \in Sups : sup[s].pc \in Locking => sup[s].inode = lockFile /\ lockFile # 0
  /\ \A s, t \in Sups : sup[s].pc \in Owning /\ sup[t].pc \in Owning => s = t
  /\ \A s \in Sups : sup[s].pc = "serving" => sockFile = s
  /\ Doing({"unlink socket", "unlink lock"}) => \A s \in Sups : sup[s].pc \notin Locking

\* Only a listing sweeps.
SweepInv == \A c \in Clients : client[c].pc \in {"unlink socket", "unlink lock"} => client[c].kind = "ls"

\* How far a command has come: it has not acted before its request was read,
\* nor while it waits, nor is it sent again once it may have acted.
CommandOK(c) ==
  LET pc    == client[c].pc
      kind  == client[c].kind
      stage == task[c].stage
  IN  /\ pc \notin {"write", "read", "done"} => stage \in {"none", "reset"}
      /\ pc = "write" => stage \in {"backlog", "accepted", "reset"}
      /\ pc \notin {"read", "done"} \/ stage \in {"backlog", "accepted", "queued"} =>
            applied[c] = 0 /\ back[c] = "none"
      /\ back[c] \in {"spawned", "queued"} => applied[c] = 0
      /\ back[c] # "none" => kind = "detach" /\ stage = "ok"
      /\ stage = "running" => kind \in {"exec", "run"}
      /\ applied[c] # 0 => kind \in {"exec", "detach", "run", "edit", "restart"}
      /\ pc = "edit" => kind = "edit"
      /\ applied[c] <= 1
CommandInv == \A c \in Clients : CommandOK(c)

\* Where a task stands in the queue of its supervisor, and where its cell is.
Waits(c, t, waiting, running) ==
  LET s == task[c].sup
  IN  /\ waiting \/ running => s \in Sups /\ sup[s].pc \in {"serving", "drain", "interrupting",
                                                            "returned"}
      /\ waiting => Contains(queue[s], t)
      /\ running => queue[s] # <<>> /\ Head(queue[s]) = t
CellAt(c) ==
  LET cells == sup[task[c].sup].mem
  IN  task[c].index \in DOMAIN cells /\ cells[task[c].index].id = c
PlaceOK(c) ==
  /\ task[c].stage # "none" => task[c].sup \in Sups
  /\ Waits(c, Conn(c), task[c].stage = "queued", task[c].stage = "running")
  /\ Waits(c, Back(c), back[c] = "queued", back[c] = "running")
  /\ back[c] = "spawned" => sup[task[c].sup].pc \in {"serving", "drain", "interrupting", "returned"}
  /\ \/ task[c].stage = "running" /\ client[c].kind = "exec"
     \/ back[c] \in {"spawned", "queued", "running"}
     => CellAt(c)
PlaceInv == \A c \in Clients : PlaceOK(c)

\* The file is what the supervisor has in memory or what an edit builds on,
\* and keeps the cells of those who were answered or are about to be.
Has(c) == \E k \in DOMAIN file : file[k].id = c
HasOut(c) == \E k \in DOMAIN file : file[k].id = c /\ file[k].out # "none"
FileInv ==
  /\ \A s \in Sups : sup[s].pc \in Holding => file = sup[s].mem /\ ~Doing({"edit"})
  /\ \A c, d \in Clients : client[c].pc = "edit" =>
        client[c].copy = <<Cell(c)>> \o file /\ (client[d].pc = "edit" => c = d)
  /\ \A c \in Clients :
        /\ "ok" \in {task[c].stage, client[c].result} =>
              /\ client[c].kind = "exec" => HasOut(c)
              /\ client[c].kind \in {"detach", "edit"} => Has(c)
        /\ back[c] = "done" => HasOut(c)

IInv == TypeOK /\ OwnerInv /\ SweepInv /\ CommandInv /\ PlaceInv /\ FileInv
=============================================================================
