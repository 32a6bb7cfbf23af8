--------------------------- MODULE Supervisor_proof ---------------------------
(***************************************************************************)
(* Proofs about Supervisor, for every set of clients, commands and         *)
(* supervisors and any number of crashes.                                  *)
(***************************************************************************)
EXTENDS Supervisor, TLAPS

-----------------------------------------------------------------------------
(***************************************************************************)
(* The operators on the queue and on the notebook.                         *)
(***************************************************************************)
(* A waiter that leaves takes nobody else along and does not pass the one  *)
(* in front.                                                               *)
LEMMA DropKeeps ==
    ASSUME NEW S, NEW q \in Seq(S), NEW t
    PROVE  /\ Drop(q, t) \in Seq(S)
           /\ \A u : u # t /\ Contains(q, u) => Contains(Drop(q, t), u)
           /\ q # <<>> /\ Head(q) # t => Drop(q, t) # <<>> /\ Head(Drop(q, t)) = Head(q)
<1>1. CASE ~Contains(q, t)
  BY <1>1 DEF Drop
<1>2. CASE Contains(q, t)
  <2> DEFINE i == CHOOSE j \in 1..Len(q) : q[j] = t
             a == SubSeq(q, 1, i - 1)
             b == SubSeq(q, i + 1, Len(q))
  <2>1. i \in 1..Len(q) /\ q[i] = t /\ Len(q) \in Nat
    BY <1>2 DEF Contains
  <2>2. Drop(q, t) = a \o b
    BY <1>2 DEF Drop, RemoveAt
  <2> HIDE DEF i
  <2>3. a \in Seq(S) /\ Len(a) = i - 1 /\ \A j \in 1..(i - 1) : a[j] = q[j]
    BY <2>1
  <2>4. b \in Seq(S) /\ Len(b) = Len(q) - i /\ \A j \in 1..(Len(q) - i) : b[j] = q[i + j]
    BY <2>1
  <2> HIDE DEF a, b
  <2>5. /\ a \o b \in Seq(S) /\ Len(a \o b) = Len(q) - 1
        /\ \A j \in 1..(i - 1) : (a \o b)[j] = q[j]
        /\ \A j \in i..(Len(q) - 1) : (a \o b)[j] = q[j + 1]
    <3>1. a \o b \in Seq(S) /\ Len(a \o b) = Len(q) - 1
      <4>1. a \in Seq(S) /\ b \in Seq(S)
        BY <2>3, <2>4
      <4>2. a \o b \in Seq(S) /\ Len(a \o b) = Len(a) + Len(b)
        BY <4>1
      <4>3. QED
        BY <2>1, <2>3, <2>4, <4>2
    <3>2. ASSUME NEW j \in 1..(i - 1) PROVE (a \o b)[j] = q[j]
      <4>1. j \in 1..Len(a) /\ j \in 1..(Len(a) + Len(b))
        BY <2>1, <2>3, <2>4
      <4>2. (a \o b)[j] = a[j]
        BY <2>3, <2>4, <4>1
      <4>3. QED
        BY <2>3, <4>2
    <3>3. ASSUME NEW j \in i..(Len(q) - 1) PROVE (a \o b)[j] = q[j + 1]
      <4>1. j - (i - 1) \in 1..(Len(q) - i) /\ i + (j - (i - 1)) = j + 1 /\ j \in 1..(Len(q) - 1)
        BY <2>1
      <4>2. (a \o b)[j] = b[j - (i - 1)]
        BY <2>1, <2>3, <2>4, <4>1
      <4>3. QED
        BY <2>4, <4>1, <4>2
    <3>4. QED
      BY <3>1, <3>2, <3>3
  <2>6. ASSUME NEW u, u # t, Contains(q, u) PROVE Contains(a \o b, u)
    <3>1. PICK j \in 1..Len(q) : q[j] = u
      BY <2>6 DEF Contains
    <3>2. CASE j < i
      <4>1. j \in 1..(i - 1) /\ j \in 1..(Len(q) - 1)
        BY <2>1, <3>2
      <4>2. (a \o b)[j] = u /\ j \in 1..Len(a \o b)
        BY <2>5, <3>1, <4>1
      <4>3. QED
        BY <4>2 DEF Contains
    <3>3. CASE j > i
      <4>1. j - 1 \in i..(Len(q) - 1) /\ j - 1 \in 1..(Len(q) - 1) /\ j - 1 + 1 = j
        BY <2>1, <3>3
      <4>2. (a \o b)[j - 1] = u
        BY <2>5, <3>1, <4>1
      <4>3. QED
        BY <2>5, <4>1, <4>2 DEF Contains
    <3>4. QED
      BY <2>1, <2>6, <3>1, <3>2, <3>3
  <2>7. ASSUME q # <<>>, Head(q) # t PROVE a \o b # <<>> /\ Head(a \o b) = Head(q)
    <3>1. i # 1 /\ Head(q) = q[1]
      BY <2>1, <2>7
    <3>2. (a \o b)[1] = q[1] /\ Len(a \o b) >= 1
      BY <2>1, <2>5, <3>1
    <3>3. QED
      BY <2>5, <3>1, <3>2
  <2>8. QED
    BY <2>2, <2>5, <2>6, <2>7
<1>3. QED
  BY <1>1, <1>2

(* The tail of a queue has all but its first waiter. *)
LEMMA TailKeeps ==
    ASSUME NEW S, NEW q \in Seq(S), q # <<>>
    PROVE  Tail(q) \in Seq(S) /\ \A u : u # Head(q) /\ Contains(q, u) => Contains(Tail(q), u)
<1>1. Tail(q) \in Seq(S) /\ Len(Tail(q)) = Len(q) - 1 /\ Head(q) = q[1]
      /\ \A j \in 1..(Len(q) - 1) : Tail(q)[j] = q[j + 1]
  OBVIOUS
<1>2. ASSUME NEW u, u # Head(q), Contains(q, u) PROVE Contains(Tail(q), u)
  <2>1. PICK j \in 1..Len(q) : q[j] = u
    BY <1>2 DEF Contains
  <2>2. j - 1 \in 1..(Len(q) - 1) /\ j - 1 + 1 = j
    BY <1>1, <1>2, <2>1
  <2>3. QED
    BY <1>1, <2>1, <2>2 DEF Contains
<1>3. QED
  BY <1>1, <1>2

(* A new waiter goes behind the others. *)
LEMMA AppendKeeps ==
    ASSUME NEW S, NEW q \in Seq(S), NEW t \in S
    PROVE  /\ Append(q, t) \in Seq(S) /\ Contains(Append(q, t), t)
           /\ \A u : Contains(q, u) => Contains(Append(q, t), u)
           /\ q # <<>> => Append(q, t) # <<>> /\ Head(Append(q, t)) = Head(q)
<1>1. /\ Append(q, t) \in Seq(S) /\ Len(Append(q, t)) = Len(q) + 1
      /\ Append(q, t)[Len(q) + 1] = t /\ \A j \in 1..Len(q) : Append(q, t)[j] = q[j]
  OBVIOUS
<1>2. Contains(Append(q, t), t) /\ \A u : Contains(q, u) => Contains(Append(q, t), u)
  BY <1>1 DEF Contains
<1>3. q # <<>> => Append(q, t) # <<>> /\ Head(Append(q, t)) = Head(q)
  BY <1>1
<1>4. QED
  BY <1>1, <1>2, <1>3

(* g has the cells of f, at the same places from the front, and no fewer   *)
(* outputs.                                                                *)
Extends(f, g) ==
    /\ DOMAIN f \subseteq DOMAIN g
    /\ \A k \in DOMAIN f : g[k].id = f[k].id /\ (f[k].out # "none" => g[k].out # "none")

(* A cell with other outputs is the same cell. *)
LEMMA CellOut ==
    ASSUME NEW r \in Cells, NEW o \in {"none", "out", "cleared"}
    PROVE  /\ [r EXCEPT !.out = o] \in Cells
           /\ [r EXCEPT !.out = o].id = r.id /\ [r EXCEPT !.out = o].out = o
BY DEF Cells

(* Outputs are recorded or cleared, a cell is appended: the others stay.   *)
LEMMA SetOutCells ==
    ASSUME NEW f \in Seq(Cells), NEW k \in Nat
    PROVE  /\ SetOut(f, k, "out") \in Seq(Cells) /\ Extends(f, SetOut(f, k, "out"))
           /\ k \in DOMAIN f => /\ SetOut(f, k, "out")[k].id = f[k].id
                                /\ SetOut(f, k, "out")[k].out = "out"
<1> DEFINE g == SetOut(f, k, "out")
<1>1. Len(f) \in Nat /\ DOMAIN f = 1..Len(f) /\ DOMAIN g = 1..Len(f)
  BY DEF SetOut
<1>2. ASSUME NEW j \in 1..Len(f)
      PROVE  g[j] \in Cells /\ g[j].id = f[j].id /\ g[j].out = IF j = k THEN "out" ELSE f[j].out
  <2>1. f[j] \in Cells
    BY <1>1
  <2>2. g[j] = IF j = k THEN [f[j] EXCEPT !.out = "out"] ELSE f[j]
    BY <1>1 DEF SetOut
  <2>3. QED
    BY <2>1, <2>2, CellOut
<1>3. g \in [1..Len(f) -> Cells]
  BY <1>1, <1>2 DEF SetOut
<1>4. g \in Seq(Cells)
  BY <1>1, <1>3
<1> HIDE DEF g
<1>5. QED
  BY <1>1, <1>2, <1>4 DEF Extends, g

(* Clearing outputs leaves every cell in its place. *)
LEMMA ClearCells ==
    ASSUME NEW f \in Seq(Cells)
    PROVE  ClearOutputs(f) \in Seq(Cells) /\ Extends(f, ClearOutputs(f))
<1> DEFINE g == ClearOutputs(f)
<1>1. Len(f) \in Nat /\ DOMAIN f = 1..Len(f)
  OBVIOUS
<1>2. ASSUME NEW k \in 1..Len(f)
      PROVE  g[k] \in Cells /\ g[k].id = f[k].id /\ (f[k].out # "none" => g[k].out # "none")
  <2>1. f[k] \in Cells
    BY <1>1
  <2>2. g[k] = IF f[k].out = "none" THEN f[k] ELSE [f[k] EXCEPT !.out = "cleared"]
    BY <1>1 DEF ClearOutputs
  <2>3. QED
    BY <2>1, <2>2, CellOut
<1>3. g \in Seq(Cells) /\ DOMAIN g = 1..Len(f)
  <2>1. DOMAIN g = 1..Len(f) /\ g = [k \in 1..Len(f) |-> g[k]]
    BY <1>1 DEF ClearOutputs
  <2>2. g \in [1..Len(f) -> Cells]
    BY <1>2, <2>1
  <2>3. QED
    BY <1>1, <2>1, <2>2
<1> HIDE DEF g
<1>4. QED
  BY <1>1, <1>2, <1>3 DEF Extends, g

(* A cell added at the end leaves the others in their places. *)
LEMMA AppendCells ==
    ASSUME NEW f \in Seq(Cells), NEW c \in Clients
    PROVE  /\ Append(f, Cell(c)) \in Seq(Cells) /\ Extends(f, Append(f, Cell(c)))
           /\ Len(f) + 1 \in DOMAIN Append(f, Cell(c)) /\ Len(f) + 1 \in Nat
           /\ Append(f, Cell(c))[Len(f) + 1].id = c
<1>1. Cell(c) \in Cells /\ Cell(c).id = c
  BY DEF Cell, Cells
<1>2. QED
  BY <1>1 DEF Extends

(* A cell is inserted at the top: the others move down. *)
LEMMA InsertCells ==
    ASSUME NEW f \in Seq(Cells), NEW c \in Clients
    PROVE  LET g == <<Cell(c)>> \o f
           IN  /\ g \in Seq(Cells) /\ 1 \in DOMAIN g /\ g[1].id = c
               /\ \A k \in DOMAIN f : k + 1 \in DOMAIN g /\ g[k + 1] = f[k]
<1> DEFINE g == <<Cell(c)>> \o f
<1>1. Cell(c) \in Cells /\ Cell(c).id = c
  BY DEF Cell, Cells
<1>2. Len(f) \in Nat /\ DOMAIN f = 1..Len(f)
  OBVIOUS
<1>3. g \in Seq(Cells) /\ Len(g) = Len(f) + 1 /\ g[1] = Cell(c)
      /\ \A k \in 1..Len(f) : g[k + 1] = f[k]
  BY <1>1, <1>2
<1>4. QED
  BY <1>1, <1>2, <1>3

-----------------------------------------------------------------------------
(***************************************************************************)
(* Types.  The queues are left to PlaceInv: a tail has a type where the    *)
(* queue is known not to be empty.                                         *)
(***************************************************************************)
ClientRecs == [kind : Kinds, pc : ClientPCs, attempt : 1..2, result : Results, copy : Seq(Cells)]
SupRecs == [pc : SupPCs, inode : Nat, mem : Seq(Cells), stop : BOOLEAN]
TaskRecs == [sup : Sups \cup {None}, stage : Stages, index : Nat]
Backs == {"none", "spawned", "queued", "running", "done"}
Waiters == {"conn", "back", "main"} \X (Clients \cup Sups)

ClientTypes == client \in [Clients -> ClientRecs]
SupTypes == sup \in [Sups -> SupRecs]
TaskTypes ==
    /\ task \in [Clients -> TaskRecs]
    /\ \A c \in Clients : task[c].stage # "none" => task[c].sup \in Sups
    /\ \A c \in Clients : back[c] # "none" => task[c].stage # "none"
    /\ back \in [Clients -> Backs]
    /\ applied \in [Clients -> Nat]
FileTypes ==
    /\ sockFile \in Sups \cup {None} /\ inodes \in Nat /\ lockFile \in 0..inodes
    /\ file \in Seq(Cells)
    /\ crashes \in 0..MaxCrash
StateTypes == ClientTypes /\ SupTypes /\ TaskTypes /\ FileTypes
QueueTypes == queue \in [Sups -> Seq(Waiters)]

(* The type invariant follows. *)
LEMMA TypeParts == StateTypes /\ QueueTypes => TypeOK
BY DEF StateTypes, QueueTypes, ClientTypes, SupTypes, TaskTypes, FileTypes, TypeOK, ClientRecs,
   SupRecs, TaskRecs, Backs, Waiters

(* The stages and results that occur. *)
LEMMA Names ==
    /\ {"ok", "error", "busy", "lost", "timeout", "none"} \subseteq Results
    /\ {"none", "ok", "error", "busy", "reset", "backlog", "accepted", "queued", "running"}
          \subseteq Stages
    /\ {"off", "start", "flock", "poll", "probe", "handover", "own", "opened", "serving", "drain",
        "interrupting", "returned", "exited"} \subseteq SupPCs
BY DEF Results, Stages, Unanswered, SupPCs, Owning

(* The initial types. *)
LEMMA InitTypes == Init => StateTypes /\ QueueTypes
<1> SUFFICES ASSUME Init PROVE StateTypes /\ QueueTypes
  OBVIOUS
<1>1. <<>> \in Seq(Cells) /\ <<>> \in Seq(Waiters)
  OBVIOUS
<1>2. ClientTypes
  <2>1. PICK mix \in Mixes :
          client = [c \in Clients |-> [kind |-> mix[c], pc |-> "idle", attempt |-> 1,
                                       result |-> "none", copy |-> <<>>]]
    BY DEF Init
  <2>2. mix \in [Clients -> Kinds]
    BY SupervisorAssumption
  <2>3. QED
    BY <1>1, <2>1, <2>2 DEF ClientTypes, ClientRecs, ClientPCs, Results
<1>3. SupTypes
  BY <1>1, Names DEF Init, SupTypes, SupRecs
<1>4. TaskTypes
  BY Names DEF Init, TaskTypes, TaskRecs, Backs
<1>5. FileTypes /\ QueueTypes
  BY <1>1, SupervisorAssumption DEF Init, FileTypes, QueueTypes
<1>6. QED
  BY <1>2, <1>3, <1>4, <1>5 DEF StateTypes

(* A client's record moves within its type. *)
LEMMA GotoTypes ==
    ASSUME ClientTypes, NEW c \in Clients, NEW p \in ClientPCs,
           client' = [client EXCEPT ![c].pc = p]
    PROVE  ClientTypes'
<1>1. [client[c] EXCEPT !.pc = p] \in ClientRecs
  BY DEF ClientTypes, ClientRecs
<1>2. client' = [client EXCEPT ![c] = [client[c] EXCEPT !.pc = p]]
  OBVIOUS
<1>3. QED
  BY <1>1, <1>2 DEF ClientTypes

(* A client whose call is over, with its result. *)
LEMMA FinishTypes ==
    ASSUME ClientTypes, NEW c \in Clients, NEW r \in Results, Finish(c, r) PROVE ClientTypes'
<1>1. [client[c] EXCEPT !.pc = "done", !.result = r] \in ClientRecs
  BY DEF ClientTypes, ClientRecs, ClientPCs
<1>2. client' = [client EXCEPT ![c] = [client[c] EXCEPT !.pc = "done", !.result = r]]
  BY DEF Finish
<1>3. QED
  BY <1>1, <1>2 DEF ClientTypes

(* A client that connects again, or gives up. *)
LEMMA RetryTypes ==
    ASSUME ClientTypes, NEW c \in Clients, NEW delivered, Retry(c, delivered) PROVE ClientTypes'
<1>1. CASE client' = [client EXCEPT ![c].pc = "connect", ![c].attempt = 2]
  <2>1. [client[c] EXCEPT !.pc = "connect", !.attempt = 2] \in ClientRecs
    <3>1. 2 \in 1..2
      OBVIOUS
    <3>2. QED
      BY <3>1 DEF ClientTypes, ClientRecs, ClientPCs
  <2>2. client' = [client EXCEPT ![c] = [client[c] EXCEPT !.pc = "connect", !.attempt = 2]]
    BY <1>1
  <2>3. QED
    BY <2>1, <2>2 DEF ClientTypes
<1>2. CASE Finish(c, "lost")
  BY <1>2, FinishTypes, Names
<1>3. QED
  BY <1>1, <1>2 DEF Retry

(* A step that leaves the supervisors alone; then the tasks, and the files. *)
LEMMA SupsKept == ASSUME SupTypes, UNCHANGED sup PROVE SupTypes'
BY DEF SupTypes

(* Tasks and what was written back for them. *)
LEMMA TasksKept == ASSUME TaskTypes, UNCHANGED <<task, back, applied>> PROVE TaskTypes'
BY DEF TaskTypes

(* The socket, the lock and the notebook file. *)
LEMMA FilesKept == ASSUME FileTypes, UNCHANGED <<fs, file, crashes>> PROVE FileTypes'
BY DEF FileTypes, fs

(* A client that connects has a task at a supervisor. *)
LEMMA ConnectTypes ==
    ASSUME StateTypes, NEW c \in Clients, Listening, UNCHANGED <<back, applied>>,
           task' = [task EXCEPT ![c] = [sup |-> sockFile, stage |-> "backlog", index |-> 0]]
    PROVE  TaskTypes'
<1> USE DEF StateTypes
<1>1. sockFile \in Sups
  BY DEF Listening, FileTypes
<1>2. [sup |-> sockFile, stage |-> "backlog", index |-> 0] \in TaskRecs
  BY <1>1, Names DEF TaskRecs
<1>3. task' \in [Clients -> TaskRecs]
  BY <1>2 DEF TaskTypes
<1>4. \A d \in Clients : task'[d] = IF d = c THEN [sup |-> sockFile, stage |-> "backlog", index |-> 0]
                                    ELSE task[d]
  BY DEF TaskTypes
<1>5. QED
  BY <1>1, <1>3, <1>4 DEF TaskTypes

(* A client's step. *)
LEMMA ClientStepTypes ==
    ASSUME StateTypes, NEW c \in Clients, ClientStep(c) PROVE StateTypes'
<1> USE DEF StateTypes
<1>1. client[c] \in ClientRecs
  BY DEF ClientTypes
<1>2. {"connect", "reconnect", "spawned", "write", "read", "edit", "unlink socket", "unlink lock"}
         \subseteq ClientPCs
  BY DEF ClientPCs
<1>3. ASSUME ClientTypes', UNCHANGED <<sup, task, back, fs, file, applied, crashes>> PROVE StateTypes'
  BY <1>3, SupsKept, TasksKept, FilesKept
<1>5. CASE Begin(c)
  <2>1. ClientTypes'
    BY <1>2, <1>5, Names, FinishTypes, GotoTypes DEF Begin
  <2>2. QED
    BY <1>3, <1>5, <2>1 DEF Begin
<1>6. CASE Connect(c)
  <2>1. ClientTypes'
    BY <1>2, <1>6, GotoTypes DEF Connect
  <2>2. TaskTypes'
    BY <1>6, ConnectTypes DEF Connect
  <2>3. QED
    BY <1>6, <2>1, <2>2, SupsKept, FilesKept DEF Connect
<1>7. CASE Spawn(c)
  <2>1. ClientTypes'
    BY <1>2, <1>7, GotoTypes DEF Spawn
  <2>2. PICK s \in Sups : sup' = [sup EXCEPT ![s].pc = "start"]
    BY <1>7 DEF Spawn
  <2>3. SupTypes'
    BY <2>2 DEF SupTypes, SupRecs, SupPCs
  <2>4. QED
    BY <1>7, <2>1, <2>3, TasksKept, FilesKept DEF Spawn
<1>8. CASE Spawned(c)
  <2>1. ClientTypes'
    BY <1>2, <1>8, Names, FinishTypes, GotoTypes DEF Spawned
  <2>2. QED
    BY <1>3, <1>8, <2>1 DEF Spawned
<1>9. CASE Reconnect(c)
  <2>1. CASE Listening
    <3>1. ClientTypes'
      BY <1>2, <1>9, <2>1, GotoTypes DEF Reconnect
    <3>2. TaskTypes'
      BY <1>9, <2>1, ConnectTypes DEF Reconnect
    <3>3. QED
      BY <1>9, <3>1, <3>2, SupsKept, FilesKept DEF Reconnect
  <2>2. CASE ~Listening
    <3>1. ClientTypes'
      BY <1>9, <2>2, RetryTypes DEF Reconnect
    <3>2. QED
      BY <1>3, <1>9, <2>2, <3>1 DEF Reconnect
  <2>3. QED
    BY <2>1, <2>2
<1>10. CASE Write(c)
  <2>1. ClientTypes'
    BY <1>2, <1>10, RetryTypes, GotoTypes DEF Write
  <2>2. QED
    BY <1>3, <1>10, <2>1 DEF Write
<1>11. CASE Read(c)
  <2>1. ClientTypes'
    BY <1>11, RetryTypes, FinishTypes, Names DEF Read
  <2>2. QED
    BY <1>3, <1>11, <2>1 DEF Read
<1>12. CASE ReadForEdit(c)
  <2>1. <<Cell(c)>> \o file \in Seq(Cells)
    BY InsertCells DEF FileTypes
  <2>2. ClientTypes'
    <3> DEFINE r == [client[c] EXCEPT !.pc = "edit", !.copy = <<Cell(c)>> \o file]
    <3>1. r \in ClientRecs
      BY <1>1, <2>1 DEF ClientRecs, ClientPCs
    <3>2. client' = [client EXCEPT ![c] = r]
      BY <1>12 DEF ReadForEdit
    <3>3. QED
      BY <3>1, <3>2 DEF ClientTypes
  <2>3. QED
    BY <1>3, <1>12, <2>2 DEF ReadForEdit
<1>13. CASE WriteEdit(c)
  <2>1. file' \in Seq(Cells)
    BY <1>1, <1>13 DEF WriteEdit, ClientRecs
  <2>2. FileTypes'
    BY <1>13, <2>1 DEF WriteEdit, FileTypes, fs
  <2>3. applied' \in [Clients -> Nat]
    BY <1>13 DEF WriteEdit, Count, TaskTypes
  <2>4. TaskTypes'
    BY <1>13, <2>3 DEF WriteEdit, TaskTypes
  <2>5. ClientTypes'
    BY <1>13, FinishTypes, Names DEF WriteEdit
  <2>6. QED
    BY <1>13, <2>2, <2>4, <2>5, SupsKept DEF WriteEdit
<1>14. CASE List(c)
  <2>1. ClientTypes'
    BY <1>2, <1>14, FinishTypes, GotoTypes, Names DEF List
  <2>2. QED
    BY <1>3, <1>14, <2>1 DEF List
<1>15. CASE UnlinkSocket(c)
  <2>1. ClientTypes'
    BY <1>2, <1>15, GotoTypes DEF UnlinkSocket
  <2>2. FileTypes'
    BY <1>15 DEF UnlinkSocket, FileTypes
  <2>3. QED
    BY <1>15, <2>1, <2>2, SupsKept, TasksKept DEF UnlinkSocket
<1>16. CASE UnlinkLock(c)
  <2>1. FileTypes'
    <3>1. 0 \in 0..inodes
      BY DEF FileTypes
    <3>2. QED
      BY <1>16, <3>1 DEF UnlinkLock, FileTypes
  <2>2. ClientTypes'
    BY <1>16, FinishTypes, Names DEF UnlinkLock
  <2>3. QED
    BY <1>16, <2>1, <2>2, SupsKept, TasksKept DEF UnlinkLock
<1>17. QED
  BY <1>5, <1>6, <1>7, <1>8, <1>9, <1>10, <1>11, <1>12, <1>13, <1>14, <1>15, <1>16 DEF ClientStep

(* Saving cells keeps the types of memory and file. *)
LEMMA SaveTypes ==
    ASSUME SupTypes, NEW s \in Sups, NEW cells \in Seq(Cells), Save(s, cells)
    PROVE  SupTypes' /\ file' \in Seq(Cells)
BY DEF SupTypes, SupRecs, Save

(* Moving a task keeps its type. *)
LEMMA AnswerTypes ==
    ASSUME TaskTypes, NEW c \in Clients, NEW stage \in Stages \ {"none"}, Answer(c, stage),
           task[c].sup \in Sups, UNCHANGED <<back, applied>>
    PROVE  TaskTypes'
BY DEF TaskTypes, TaskRecs, Answer

(* A task's step. *)
LEMMA TaskStepTypes ==
    ASSUME StateTypes, NEW c \in Clients, TaskStep(c) PROVE StateTypes'
<1> USE DEF StateTypes, fs
<1> DEFINE s == task[c].sup
<1>1. /\ task[c] \in TaskRecs /\ client[c] \in ClientRecs
      /\ s \in Sups => sup[s] \in SupRecs /\ sup[s].mem \in Seq(Cells)
  BY DEF TaskTypes, ClientTypes, SupTypes, SupRecs
<1>2. \A g \in Stages : At(c, g) /\ g # "none" => s \in Sups
  BY DEF At, TaskTypes
<1>3. task[c].index \in Nat
  BY <1>1 DEF TaskRecs
<1>4. Count(c) => applied' \in [Clients -> Nat]
  BY DEF Count, TaskTypes
<1> HIDE DEF s
<1>5. CASE Accept(c)
  <2>1. s \in Sups
    BY <1>2, <1>5, Names DEF Accept
  <2>2. QED
    BY <1>5, <2>1, AnswerTypes, Names DEF Accept, s, ClientTypes, SupTypes, FileTypes
<1>6. CASE DispatchAtOnce(c)
  <2>1. s \in Sups
    BY <1>2, <1>6, Names DEF DispatchAtOnce, Asked
  <2>2. TaskTypes'
    BY <1>6, <2>1, AnswerTypes, Names DEF DispatchAtOnce, s
  <2>3. sup[s].stop \in BOOLEAN
    BY <1>1, <2>1 DEF SupRecs
  <2>4. (sup[s].stop \/ client[c].kind = "stop") \in BOOLEAN
    OBVIOUS
  <2>5. SupTypes'
    BY <1>6, <2>1, <2>4 DEF DispatchAtOnce, SupTypes, SupRecs, s
  <2>6. QED
    BY <1>6, <2>2, <2>5 DEF DispatchAtOnce, ClientTypes, FileTypes
<1>7. CASE DispatchBusy(c)
  <2>1. s \in Sups
    BY <1>2, <1>7, Names DEF DispatchBusy, Asked
  <2>2. QED
    BY <1>7, <2>1, AnswerTypes, Names DEF DispatchBusy, s, ClientTypes, SupTypes, FileTypes
<1>8. CASE DispatchWait(c)
  <2>1. s \in Sups
    BY <1>2, <1>8, Names DEF DispatchWait, Asked
  <2>2. QED
    BY <1>8, <2>1, AnswerTypes, Names DEF DispatchWait, s, ClientTypes, SupTypes, FileTypes
<1>9. CASE EditTimeout(c)
  <2>1. s \in Sups
    BY <1>2, <1>9, Names DEF EditTimeout
  <2>2. QED
    BY <1>9, <2>1, AnswerTypes, Names DEF EditTimeout, s, ClientTypes, SupTypes, FileTypes
<1>10. CASE Granted(c)
  <2>1. s \in Sups
    BY <1>2, <1>10, Names DEF Granted
  <2>2. CASE Save(s, <<Cell(c)>> \o sup[s].mem) /\ Count(c) /\ Answer(c, "ok")
    <3>1. SupTypes' /\ file' \in Seq(Cells)
      BY <1>1, <2>1, <2>2, InsertCells, SaveTypes
    <3>2. TaskTypes'
      BY <1>4, <1>10, <2>1, <2>2, Names DEF Granted, TaskTypes, TaskRecs, Answer, s
    <3>3. QED
      BY <1>10, <3>1, <3>2 DEF Granted, ClientTypes, FileTypes
  <2>3. CASE Save(s, ClearOutputs(sup[s].mem)) /\ Count(c) /\ Answer(c, "ok")
    <3>1. SupTypes' /\ file' \in Seq(Cells)
      BY <1>1, <2>1, <2>3, ClearCells, SaveTypes
    <3>2. TaskTypes'
      BY <1>4, <1>10, <2>1, <2>3, Names DEF Granted, TaskTypes, TaskRecs, Answer, s
    <3>3. QED
      BY <1>10, <3>1, <3>2 DEF Granted, ClientTypes, FileTypes
  <2>4. ASSUME NEW g \in {"ok", "error"}, Answer(c, g), UNCHANGED <<sup, file, applied>>
        PROVE  StateTypes'
    <3>1. TaskTypes'
      BY <1>10, <2>1, <2>4, AnswerTypes, Names DEF Granted, s
    <3>2. QED
      BY <1>10, <2>4, <3>1 DEF Granted, ClientTypes, SupTypes, FileTypes
  <2>5. QED
    BY <1>10, <2>2, <2>3, <2>4 DEF Granted, s
<1>11. CASE DispatchRun(c)
  <2>1. s \in Sups
    BY <1>2, <1>11, Names DEF DispatchRun, Asked
  <2>2. CASE client[c].kind = "exec"
    <3>1. /\ Save(s, Append(sup[s].mem, Cell(c))) /\ Count(c)
          /\ task' = [task EXCEPT ![c].stage = "running", ![c].index = Len(sup[s].mem) + 1]
          /\ UNCHANGED <<client, back, fs, crashes>>
      BY <1>11, <2>2 DEF DispatchRun, s
    <3>2. SupTypes' /\ file' \in Seq(Cells) /\ Len(sup[s].mem) + 1 \in Nat
      BY <1>1, <2>1, <3>1, AppendCells, SaveTypes
    <3>3. TaskTypes'
      BY <1>4, <2>1, <3>1, <3>2, Names DEF TaskTypes, TaskRecs, s
    <3>4. QED
      BY <3>1, <3>2, <3>3 DEF ClientTypes, FileTypes
  <2>3. CASE client[c].kind # "exec" /\ sup[s].mem = <<>>
    <3>1. TaskTypes'
      BY <1>11, <2>1, <2>3, AnswerTypes, Names DEF DispatchRun, s
    <3>2. QED
      BY <1>11, <2>3, <3>1 DEF DispatchRun, s, ClientTypes, SupTypes, FileTypes
  <2>4. CASE client[c].kind # "exec" /\ sup[s].mem # <<>>
    <3>1. /\ task' = [task EXCEPT ![c].stage = "running", ![c].index = 1]
          /\ Count(c) /\ UNCHANGED <<client, back, fs, crashes, sup, file>>
      BY <1>11, <2>4 DEF DispatchRun, s
    <3>2. TaskTypes'
      BY <1>4, <2>1, <3>1, Names DEF TaskTypes, TaskRecs, s
    <3>3. QED
      BY <3>1, <3>2 DEF ClientTypes, SupTypes, FileTypes
  <2>5. QED
    BY <2>2, <2>3, <2>4
<1>12. CASE CellEnds(c)
  <2>1. s \in Sups
    BY <1>2, <1>12, Names DEF CellEnds
  <2>2. TaskTypes'
    BY <1>12, <2>1, AnswerTypes, Names DEF CellEnds, s
  <2>3. SupTypes' /\ file' \in Seq(Cells)
    <3>1. CASE Save(s, SetOut(sup[s].mem, task[c].index, "out"))
      BY <1>1, <1>3, <2>1, <3>1, SetOutCells, SaveTypes
    <3>2. CASE UNCHANGED <<sup, file>>
      BY <3>2 DEF SupTypes, FileTypes
    <3>3. QED
      BY <1>12, <3>1, <3>2 DEF CellEnds, s
  <2>4. QED
    BY <1>12, <2>2, <2>3 DEF CellEnds, ClientTypes, FileTypes
<1>13. CASE DispatchDetached(c)
  <2>1. s \in Sups
    BY <1>2, <1>13, Names DEF DispatchDetached, Asked
  <2>2. /\ Save(s, Append(sup[s].mem, Cell(c)))
        /\ task' = [task EXCEPT ![c].stage = "ok", ![c].index = Len(sup[s].mem) + 1]
        /\ back' = [back EXCEPT ![c] = "spawned"]
        /\ UNCHANGED <<client, queue, fs, applied, crashes>>
    BY <1>13 DEF DispatchDetached, s
  <2>3. SupTypes' /\ file' \in Seq(Cells) /\ Len(sup[s].mem) + 1 \in Nat
    BY <1>1, <2>1, <2>2, AppendCells, SaveTypes
  <2>4. TaskTypes'
    BY <2>1, <2>2, <2>3, Names DEF TaskTypes, TaskRecs, Backs, s
  <2>5. QED
    BY <2>2, <2>3, <2>4 DEF ClientTypes, FileTypes
<1>14. CASE BackgroundLock(c)
  BY <1>14 DEF BackgroundLock, TaskTypes, Backs, ClientTypes, SupTypes, FileTypes
<1>15. CASE BackgroundRun(c)
  <2>1. applied' \in [Clients -> Nat]
    <3>1. PICK x : applied' = [applied EXCEPT ![x] = applied[x] + 1]
      BY <1>15 DEF BackgroundRun
    <3>2. x \in Clients => applied[x] + 1 \in Nat
      BY DEF TaskTypes
    <3>3. QED
      BY <3>1, <3>2 DEF TaskTypes
  <2>2. TaskTypes'
    BY <1>15, <2>1 DEF BackgroundRun, TaskTypes, Backs
  <2>3. QED
    BY <1>15, <2>2 DEF BackgroundRun, ClientTypes, SupTypes, FileTypes
<1>16. CASE BackgroundEnds(c)
  <2>1. s \in Sups
    BY <1>16 DEF BackgroundEnds, TaskTypes, s
  <2>2. SupTypes' /\ file' \in Seq(Cells)
    BY <1>1, <1>3, <1>16, <2>1, SetOutCells, SaveTypes DEF BackgroundEnds, s
  <2>3. TaskTypes'
    BY <1>16 DEF BackgroundEnds, TaskTypes, Backs
  <2>4. QED
    BY <1>16, <2>2, <2>3 DEF BackgroundEnds, ClientTypes, FileTypes
<1>17. QED
  BY <1>5, <1>6, <1>7, <1>8, <1>9, <1>10, <1>11, <1>12, <1>13, <1>14, <1>15, <1>16 DEF TaskStep

(* Connections that are reset. *)
LEMMA ResetTypes ==
    ASSUME TaskTypes, NEW s \in Sups, NEW stages, "none" \notin stages
    PROVE  /\ Reset(s, stages) \in [Clients -> TaskRecs]
           /\ \A c \in Clients : /\ Reset(s, stages)[c].sup = task[c].sup
                                 /\ Reset(s, stages)[c].index = task[c].index
                                 /\ Reset(s, stages)[c].stage =
                                       IF task[c].sup = s /\ task[c].stage \in stages THEN "reset"
                                       ELSE task[c].stage
<1>1. ASSUME NEW c \in Clients
      PROVE  /\ [task[c] EXCEPT !.stage = "reset"] \in TaskRecs
             /\ [task[c] EXCEPT !.stage = "reset"].sup = task[c].sup
             /\ [task[c] EXCEPT !.stage = "reset"].index = task[c].index
             /\ [task[c] EXCEPT !.stage = "reset"].stage = "reset"
  <2>1. task[c] \in TaskRecs
    BY DEF TaskTypes
  <2>2. QED
    BY <2>1, Names DEF TaskRecs
<1>2. QED
  BY <1>1 DEF Reset, TaskTypes

(* A supervisor moves. *)
LEMMA MoveTypes ==
    ASSUME SupTypes, NEW s \in Sups, NEW p \in SupPCs, Move(s, p) PROVE SupTypes'
BY DEF SupTypes, SupRecs, Move

(* The end of a process. *)
LEMMA DieTypes ==
    ASSUME StateTypes, NEW s \in Sups, Die(s), crashes' \in 0..MaxCrash PROVE StateTypes'
<1> USE DEF StateTypes, fs
<1>1. SupTypes'
  <2>1. <<>> \in Seq(Cells) /\ 0 \in Nat
    OBVIOUS
  <2>2. QED
    BY <2>1, Names DEF Die, SupTypes, SupRecs
<1>2. TaskTypes'
  <2>1. PICK stages : "none" \notin stages /\ task' = Reset(s, stages)
    BY DEF Die, Unanswered
  <2>2. /\ task' \in [Clients -> TaskRecs]
        /\ \A c \in Clients : /\ task'[c].sup = task[c].sup
                              /\ task'[c].stage = "none" <=> task[c].stage = "none"
    BY <2>1, ResetTypes
  <2>3. back' \in [Clients -> Backs] /\ \A c \in Clients : back'[c] \in {"none", back[c]}
    BY DEF Die, TaskTypes, Backs
  <2>4. QED
    BY <2>2, <2>3 DEF TaskTypes, Die
<1>3. QED
  BY <1>1, <1>2 DEF Die, ClientTypes, FileTypes

(* A supervisor's step. *)
LEMMA SupStepTypes ==
    ASSUME StateTypes, NEW s \in Sups, SupStep(s) \/ Crash(s) PROVE StateTypes'
<1> USE DEF StateTypes, fs
<1>1. CASE OpenLock(s)
  <2>1. inodes' \in Nat /\ lockFile' \in 0..inodes' /\ lockFile' \in Nat
    <3>1. inodes \in Nat /\ lockFile \in 0..inodes
      BY DEF FileTypes
    <3>2. \/ inodes' = inodes + 1 /\ lockFile' = inodes + 1
          \/ inodes' = inodes /\ lockFile' = lockFile
      BY <1>1 DEF OpenLock
    <3>3. QED
      BY <3>1, <3>2
  <2>2. PICK p \in {"flock", "poll"} : sup' = [sup EXCEPT ![s].pc = p, ![s].inode = lockFile']
    <3>1. sup' = [sup EXCEPT ![s].pc = IF sup[s].pc = "start" THEN "flock" ELSE "poll",
                             ![s].inode = lockFile']
      BY <1>1 DEF OpenLock, SupTypes
    <3>2. QED
      BY <3>1
  <2>3. SupTypes'
    BY <2>1, <2>2, Names DEF SupTypes, SupRecs
  <2>4. QED
    BY <1>1, <2>1, <2>3 DEF OpenLock, ClientTypes, TaskTypes, FileTypes
<1>2. CASE Flock(s)
  BY <1>2, MoveTypes, Names DEF Flock, ClientTypes, TaskTypes, FileTypes
<1>3. CASE Probe(s)
  BY <1>3, MoveTypes, Names DEF Probe, ClientTypes, TaskTypes, FileTypes
<1>4. CASE HandoverTimeout(s)
  BY <1>4, MoveTypes, Names DEF HandoverTimeout, ClientTypes, TaskTypes, FileTypes
<1>5. CASE OpenSession(s)
  <2>1. SupTypes'
    BY <1>5, Names DEF OpenSession, SupTypes, SupRecs, FileTypes
  <2>2. QED
    BY <1>5, <2>1 DEF OpenSession, ClientTypes, TaskTypes, FileTypes
<1>6. CASE Bind(s)
  BY <1>6, MoveTypes, Names DEF Bind, ClientTypes, TaskTypes, FileTypes
<1>7. CASE Leave(s)
  <2>1. task' = Reset(s, {"backlog"})
    BY <1>7 DEF Leave
  <2>2. TaskTypes'
    BY <1>7, <2>1, ResetTypes DEF Leave, TaskTypes
  <2>3. QED
    BY <1>7, <2>2, MoveTypes, Names DEF Leave, ClientTypes, FileTypes
<1>8. CASE DrainTimeout(s)
  BY <1>8, MoveTypes, Names DEF DrainTimeout, ClientTypes, TaskTypes, FileTypes
<1>9. CASE Return(s)
  BY <1>9, MoveTypes, Names DEF Return, ClientTypes, TaskTypes, FileTypes
<1>10. CASE Exit(s)
  BY <1>10, DieTypes DEF Exit, FileTypes
<1>11. CASE Crash(s)
  <2>1. crashes' \in 0..MaxCrash
    BY <1>11, SupervisorAssumption DEF Crash, FileTypes
  <2>2. QED
    BY <1>11, <2>1, DieTypes DEF Crash
<1>12. QED
  BY <1>1, <1>2, <1>3, <1>4, <1>5, <1>6, <1>7, <1>8, <1>9, <1>10, <1>11 DEF SupStep

(* Every step keeps the types. *)
LEMMA NextTypes == StateTypes /\ [Next]_vars => StateTypes'
<1> SUFFICES ASSUME StateTypes, [Next]_vars PROVE StateTypes'
  OBVIOUS
<1>1. CASE UNCHANGED vars
  BY <1>1 DEF vars, StateTypes, ClientTypes, SupTypes, TaskTypes, FileTypes
<1>2. CASE Next
  BY <1>2, ClientStepTypes, TaskStepTypes, SupStepTypes DEF Next
<1>3. QED
  BY <1>1, <1>2

(* The types always hold. *)
LEMMA TypesHold == Spec => []StateTypes
<1>1. Init => StateTypes
  BY InitTypes
<1>2. QED
  BY <1>1, NextTypes, PTL DEF Spec

-----------------------------------------------------------------------------
(***************************************************************************)
(* One owner.                                                              *)
(***************************************************************************)
(* The supervisors stay where they are. *)
SamePlaces == \A t \in Sups : sup'[t].pc = sup[t].pc /\ sup'[t].inode = sup[t].inode

(* Save changes the memory of one supervisor, and the file. *)
LEMMA SavePlaces ==
    ASSUME SupTypes, NEW s, NEW cells, Save(s, cells)
    PROVE  /\ SamePlaces
           /\ \A t \in Sups : sup'[t].mem = IF t = s THEN cells ELSE sup[t].mem
           /\ file' = cells
BY DEF SupTypes, SupRecs, Save, SamePlaces

(* ... and so do the steps of tasks. *)
LEMMA TaskPlaces ==
    ASSUME StateTypes, NEW c \in Clients, TaskStep(c)
    PROVE  UNCHANGED <<client, fs, crashes>> /\ SamePlaces
<1> USE DEF StateTypes
<1>1. CASE Accept(c) \/ DispatchBusy(c) \/ DispatchWait(c) \/ EditTimeout(c) \/ BackgroundLock(c)
           \/ BackgroundRun(c)
  BY <1>1 DEF Accept, DispatchBusy, DispatchWait, EditTimeout, BackgroundLock, BackgroundRun,
     SamePlaces, fs
<1>2. CASE DispatchAtOnce(c)
  <2>1. sup' = [sup EXCEPT ![task[c].sup].stop = sup[task[c].sup].stop \/ client[c].kind = "stop"]
    BY <1>2 DEF DispatchAtOnce
  <2>2. SamePlaces
    BY <2>1 DEF SupTypes, SupRecs, SamePlaces
  <2>3. QED
    BY <1>2, <2>2 DEF DispatchAtOnce, fs
<1>3. CASE Granted(c)
  BY <1>3, SavePlaces DEF Granted, SamePlaces, fs
<1>4. CASE DispatchRun(c)
  BY <1>4, SavePlaces DEF DispatchRun, SamePlaces, fs
<1>5. CASE CellEnds(c) \/ DispatchDetached(c) \/ BackgroundEnds(c)
  BY <1>5, SavePlaces DEF CellEnds, DispatchDetached, BackgroundEnds, SamePlaces, fs
<1>6. QED
  BY <1>1, <1>2, <1>3, <1>4, <1>5 DEF TaskStep

Sweeping == {"unlink socket", "unlink lock"}

(* Steps that leave the supervisors where they are and sweep nothing.      *)
LEMMA QuietOwner ==
    ASSUME OwnerInv, SamePlaces, UNCHANGED <<sockFile, lockFile>>,
           \A d \in Clients : client'[d].pc \in Sweeping => client[d].pc \in Sweeping
    PROVE  OwnerInv'
BY DEF OwnerInv, SamePlaces, Doing, Sweeping

(* A client's step other than a sweep's. *)
LEMMA ClientOwner ==
    ASSUME StateTypes, OwnerInv, "sweep" \notin Allowed, NEW c \in Clients, ClientStep(c)
    PROVE  OwnerInv'
<1> USE DEF StateTypes
<1>2. ASSUME NEW r, Finish(c, r)
      PROVE  \A d \in Clients : client'[d].pc \in Sweeping => client[d].pc \in Sweeping
  BY <1>2 DEF Finish, ClientTypes, ClientRecs, Sweeping
<1>3. ASSUME NEW p \in {"connect", "write", "read", "spawned", "reconnect"},
             client' = [client EXCEPT ![c].pc = p]
      PROVE  \A d \in Clients : client'[d].pc \in Sweeping => client[d].pc \in Sweeping
  BY <1>3 DEF ClientTypes, ClientRecs, Sweeping
<1>4. ASSUME NEW delivered, Retry(c, delivered)
      PROVE  \A d \in Clients : client'[d].pc \in Sweeping => client[d].pc \in Sweeping
  <2>1. CASE client' = [client EXCEPT ![c].pc = "connect", ![c].attempt = 2]
    BY <2>1 DEF ClientTypes, ClientRecs, Sweeping
  <2>2. CASE Finish(c, "lost")
    BY <1>2, <2>2
  <2>3. QED
    BY <1>4, <2>1, <2>2 DEF Retry
<1>5. CASE Begin(c)
  BY <1>2, <1>3, <1>5, QuietOwner DEF Begin, SamePlaces, fs
<1>6. CASE Connect(c)
  BY <1>3, <1>6, QuietOwner DEF Connect, SamePlaces, fs
<1>7. CASE Spawn(c)
  <2>1. PICK s \in Sups : sup[s].pc = "off" /\ sup' = [sup EXCEPT ![s].pc = "start"]
    BY <1>7 DEF Spawn
  <2>2. \A t \in Sups : /\ sup'[t].inode = sup[t].inode
                        /\ sup'[t].pc = sup[t].pc \/ sup'[t].pc \notin Locking
    BY <2>1 DEF SupTypes, SupRecs, Locking, Owning
  <2>3. \A d \in Clients : client'[d].pc \in Sweeping => client[d].pc \in Sweeping
    BY <1>3, <1>7 DEF Spawn
  <2>4. QED
    BY <1>7, <2>2, <2>3 DEF Spawn, OwnerInv, Doing, Sweeping, fs, Locking, Owning
<1>8. CASE Spawned(c)
  BY <1>2, <1>3, <1>8, QuietOwner DEF Spawned, SamePlaces, fs
<1>9. CASE Reconnect(c)
  BY <1>3, <1>4, <1>9, QuietOwner DEF Reconnect, SamePlaces, fs
<1>10. CASE Write(c)
  BY <1>3, <1>4, <1>10, QuietOwner DEF Write, SamePlaces, fs
<1>11. CASE Read(c)
  BY <1>2, <1>4, <1>11, QuietOwner DEF Read, SamePlaces, fs
<1>12. CASE ReadForEdit(c)
  <2>1. \A d \in Clients : client'[d].pc \in Sweeping => client[d].pc \in Sweeping
    BY <1>12 DEF ReadForEdit, ClientTypes, ClientRecs, Sweeping
  <2>2. QED
    BY <1>12, <2>1, QuietOwner DEF ReadForEdit, SamePlaces, fs
<1>13. CASE WriteEdit(c)
  BY <1>2, <1>13, QuietOwner DEF WriteEdit, SamePlaces, fs
<1>14. CASE List(c)
  <2>1. CASE Finish(c, "ok")
    BY <1>2, <1>14, <2>1, QuietOwner DEF List, SamePlaces, fs
  <2>2. CASE ~Finish(c, "ok")
    <3>1. Unowned /\ \A s \in Sups : sup[s].pc \notin {"flock", "poll", "own"}
      BY <1>14, <2>2 DEF List
    <3>2. \A s \in Sups : sup[s].pc \notin Owning
      BY <3>1 DEF Unowned, Free, OwnerInv, Locking
    <3>3. QED
      BY <1>14, <3>1, <3>2 DEF List, OwnerInv, Locking, fs
  <2>3. QED
    BY <2>1, <2>2
<1>15. CASE UnlinkSocket(c)
  <2>1. \A s \in Sups : sup[s].pc \notin Locking
    BY <1>15 DEF UnlinkSocket, OwnerInv, Doing
  <2>2. QED
    BY <1>15, <2>1 DEF UnlinkSocket, OwnerInv, Locking, Owning
<1>16. CASE UnlinkLock(c)
  <2>1. \A s \in Sups : sup[s].pc \notin Locking
    BY <1>16 DEF UnlinkLock, OwnerInv, Doing
  <2>2. QED
    BY <1>16, <2>1 DEF UnlinkLock, OwnerInv, Locking, Owning
<1>17. QED
  BY <1>5, <1>6, <1>7, <1>8, <1>9, <1>10, <1>11, <1>12, <1>13, <1>14, <1>15, <1>16 DEF ClientStep

(* Steps of one supervisor that do not take the lock. *)
LEMMA LessOwner ==
    ASSUME OwnerInv, NEW s \in Sups, UNCHANGED <<client, lockFile>>,
           \A t \in Sups : t # s => sup'[t].pc = sup[t].pc /\ sup'[t].inode = sup[t].inode,
           sup'[s].inode = sup[s].inode \/ sup'[s].pc \notin Locking,
           sup'[s].pc \in Locking => sup[s].pc \in Locking,
           sup'[s].pc \in Owning => sup[s].pc \in Owning,
           \A t \in Sups : sup'[t].pc = "serving" => sockFile' = t
    PROVE  OwnerInv'
<1>1. \A t \in Sups : sup'[t].pc \in Locking => sup'[t].inode = lockFile /\ lockFile # 0
  BY DEF OwnerInv
<1>2. \A t, u \in Sups : sup'[t].pc \in Owning /\ sup'[u].pc \in Owning => t = u
  BY DEF OwnerInv
<1>3. Doing(Sweeping)' => \A t \in Sups : sup'[t].pc \notin Locking
  BY DEF OwnerInv, Doing, Sweeping
<1>4. QED
  BY <1>1, <1>2, <1>3 DEF OwnerInv, Sweeping

(* A supervisor's step. *)
LEMMA SupOwner ==
    ASSUME StateTypes, OwnerInv, "sweep" \notin Allowed, NEW s \in Sups, SupStep(s) \/ Crash(s)
    PROVE  OwnerInv'
<1> USE DEF StateTypes, Locking, Owning
<1>1. ASSUME NEW p, Move(s, p)
      PROVE  \A t \in Sups : /\ sup'[t].inode = sup[t].inode
                             /\ sup'[t].pc = IF t = s THEN p ELSE sup[t].pc
  BY <1>1 DEF Move, SupTypes, SupRecs
<1>2. CASE OpenLock(s)
  <2>1. ~Doing(Sweeping) /\ sup[s].pc \in {"start", "handover"}
    BY <1>2 DEF OpenLock, Sweeping
  <2>2. \A t \in Sups : /\ sup'[t].inode = IF t = s THEN lockFile' ELSE sup[t].inode
                        /\ sup'[t].pc = IF t # s THEN sup[t].pc
                                        ELSE IF sup[s].pc = "start" THEN "flock" ELSE "poll"
    BY <1>2 DEF OpenLock, SupTypes, SupRecs
  <2>3. lockFile' # 0 /\ (lockFile # 0 => lockFile' = lockFile)
    <3>1. inodes \in Nat
      BY DEF FileTypes
    <3>2. lockFile = 0 => lockFile' = inodes + 1
      BY <1>2 DEF OpenLock
    <3>3. lockFile # 0 => lockFile' = lockFile
      BY <1>2 DEF OpenLock
    <3>4. QED
      BY <3>1, <3>2, <3>3
  <2>4. ~Doing(Sweeping)'
    BY <1>2, <2>1 DEF OpenLock, Doing, Sweeping
  <2>5. \A t \in Sups : sup'[t].pc \in Locking => sup'[t].inode = lockFile'
    BY <2>2, <2>3 DEF OwnerInv
  <2>6. \A t \in Sups : /\ sup'[t].pc \in Owning <=> sup[t].pc \in Owning
                        /\ sup'[t].pc = "serving" => sup[t].pc = "serving"
    BY <2>1, <2>2
  <2>7. sockFile' = sockFile
    BY <1>2 DEF OpenLock
  <2> HIDE DEF Locking, Owning
  <2>8. QED
    BY <2>3, <2>4, <2>5, <2>6, <2>7 DEF OwnerInv, Sweeping
<1>3. CASE Flock(s)
  <2>1. PICK p : Move(s, p) /\ p \in {"own", "probe", "handover"}
                 /\ (p = "own" => Free(sup[s].inode))
    BY <1>3 DEF Flock
  <2>2. sup[s].pc \in {"flock", "poll"} /\ UNCHANGED <<client, sockFile, lockFile>>
    BY <1>3 DEF Flock, fs
  <2>3. \A t \in Sups : sup'[t].pc = "serving" => sockFile' = t
    BY <1>1, <2>1, <2>2 DEF OwnerInv
  <2>4. CASE p # "own"
    BY <1>1, <2>1, <2>2, <2>3, <2>4, LessOwner
  <2>5. CASE p = "own"
    <3>1. \A t \in Sups : sup[t].pc \notin Owning
      BY <2>1, <2>2, <2>5 DEF OwnerInv, Free
    <3>2. \A t, u \in Sups : sup'[t].pc \in Owning /\ sup'[u].pc \in Owning => t = u
      BY <1>1, <2>1, <3>1
    <3>3. \A t \in Sups : sup'[t].pc \in Locking => sup'[t].inode = lockFile /\ lockFile # 0
      BY <1>1, <2>1, <2>2 DEF OwnerInv
    <3>4. ~Doing(Sweeping)'
      BY <2>2 DEF OwnerInv, Doing, Sweeping
    <3> HIDE DEF Locking, Owning
    <3>5. QED
      BY <2>2, <2>3, <3>2, <3>3, <3>4 DEF OwnerInv, Sweeping
  <2>6. QED
    BY <2>4, <2>5
<1>4. CASE Probe(s) \/ HandoverTimeout(s)
  <2>1. PICK p \in {"exited", "handover"} : Move(s, p)
    BY <1>4 DEF Probe, HandoverTimeout
  <2>2. UNCHANGED <<client, sockFile, lockFile>>
    BY <1>4 DEF Probe, HandoverTimeout, fs
  <2>3. \A t \in Sups : sup'[t].pc = "serving" => sockFile' = t
    BY <1>1, <2>1, <2>2 DEF OwnerInv
  <2>4. QED
    BY <1>1, <2>1, <2>2, <2>3, LessOwner
<1>5. CASE OpenSession(s)
  <2>1. \A t \in Sups : /\ sup'[t].inode = sup[t].inode
                        /\ sup'[t].pc = IF t = s THEN "opened" ELSE sup[t].pc
    BY <1>5 DEF OpenSession, SupTypes, SupRecs
  <2>2. sup[s].pc = "own" /\ UNCHANGED <<client, sockFile, lockFile>>
    BY <1>5 DEF OpenSession, fs
  <2>3. \A t \in Sups : sup'[t].pc = "serving" => sockFile' = t
    BY <2>1, <2>2 DEF OwnerInv
  <2>4. QED
    BY <2>1, <2>2, <2>3, LessOwner
<1>6. CASE Bind(s)
  <2>1. sup[s].pc = "opened" /\ UNCHANGED <<client, lockFile>> /\ sockFile' = s
        /\ Move(s, "serving")
    BY <1>6 DEF Bind
  <2>2. \A t \in Sups : sup'[t].pc = "serving" => t = s
    BY <1>1, <2>1 DEF OwnerInv
  <2>3. QED
    BY <1>1, <2>1, <2>2, LessOwner
<1>7. CASE Leave(s)
  <2>1. sup[s].pc = "serving" /\ UNCHANGED <<client, lockFile>> /\ Move(s, "drain")
    BY <1>7 DEF Leave
  <2>2. \A t \in Sups : sup'[t].pc # "serving"
    BY <1>1, <2>1 DEF OwnerInv
  <2>3. QED
    BY <1>1, <2>1, <2>2, LessOwner
<1>8. CASE DrainTimeout(s) \/ Return(s)
  <2>1. PICK p \in {"interrupting", "returned"} : Move(s, p)
    BY <1>8 DEF DrainTimeout, Return
  <2>2. sup[s].pc \in {"drain", "interrupting"} /\ UNCHANGED <<client, sockFile, lockFile>>
    BY <1>8 DEF DrainTimeout, Return, fs
  <2>3. \A t \in Sups : sup'[t].pc = "serving" => sockFile' = t
    BY <1>1, <2>1, <2>2 DEF OwnerInv
  <2>4. QED
    BY <1>1, <2>1, <2>2, <2>3, LessOwner
<1>9. CASE Die(s)
  <2>1. \A t \in Sups : /\ t # s => sup'[t].inode = sup[t].inode
                        /\ sup'[t].pc = IF t = s THEN "exited" ELSE sup[t].pc
    BY <1>9 DEF Die, SupTypes, SupRecs
  <2>2. UNCHANGED <<client, sockFile, lockFile>>
    BY <1>9 DEF Die, fs
  <2>3. \A t \in Sups : sup'[t].pc = "serving" => sockFile' = t
    BY <2>1, <2>2 DEF OwnerInv
  <2>4. QED
    BY <2>1, <2>2, <2>3, LessOwner
<1>10. QED
  BY <1>2, <1>3, <1>4, <1>5, <1>6, <1>7, <1>8, <1>9 DEF SupStep, Exit, Crash

(* The lock file that is flocked is the one at the path. *)
LEMMA OwnerHolds == ASSUME "sweep" \notin Allowed PROVE Spec => []OwnerInv
<1>1. Init => OwnerInv
  <2> SUFFICES ASSUME Init PROVE OwnerInv
    OBVIOUS
  <2>1. \A c \in Clients : client[c].pc = "idle"
    BY DEF Init
  <2>2. \A s \in Sups : sup[s].pc = "off"
    BY DEF Init
  <2>3. QED
    BY <2>1, <2>2 DEF OwnerInv, Locking, Owning, Doing
<1>2. StateTypes /\ OwnerInv /\ [Next]_vars => OwnerInv'
  <2> SUFFICES ASSUME StateTypes, OwnerInv, [Next]_vars PROVE OwnerInv'
    OBVIOUS
  <2>1. CASE UNCHANGED vars
    BY <2>1 DEF vars, OwnerInv, Doing
  <2>2. ASSUME NEW c \in Clients, TaskStep(c) PROVE OwnerInv'
    BY <2>2, TaskPlaces, QuietOwner DEF fs
  <2>3. CASE Next
    BY <2>2, <2>3, ClientOwner, SupOwner DEF Next
  <2>4. QED
    BY <2>1, <2>3
<1>3. QED
  BY <1>1, <1>2, TypesHold, PTL DEF Spec

(* At most one supervisor has the notebook open, and the socket leads to   *)
(* the one that serves (claim_notebook, SupervisorLock, serve), where `ls` *)
(* does not sweep the files of a supervisor that is starting.              *)
THEOREM SingleOwner == ASSUME "sweep" \notin Allowed PROVE Spec => []OneOwner
<1>1. OwnerInv => OneOwner
  BY DEF OwnerInv, OneOwner, Owning, Holding
<1>2. QED
  BY <1>1, OwnerHolds, PTL

-----------------------------------------------------------------------------
(***************************************************************************)
(* No command acts twice.                                                  *)
(***************************************************************************)
Busy == {"serving", "drain", "interrupting", "returned"}

Core == StateTypes /\ QueueTypes /\ CommandInv /\ PlaceInv

(* Whose cell has to be where the task's index says. *)
NeedsCell(c) ==
    \/ task[c].stage = "running" /\ client[c].kind = "exec"
    \/ back[c] \in {"spawned", "queued", "running"}

(* A client keeps its places in the queues. *)
QueueKept(c) ==
    \A s \in Sups : \A t \in {Conn(c), Back(c)} :
        /\ Contains(queue[s], t) => Contains(queue'[s], t)
        /\ queue[s] # <<>> /\ Head(queue[s]) = t => queue'[s] # <<>> /\ Head(queue'[s]) = t

(* Clients the step is not about. *)
LEMMA CommandSame ==
    ASSUME NEW d \in Clients, CommandOK(d), client'[d] = client[d], task'[d] = task[d],
           back'[d] = back[d], applied'[d] = applied[d]
    PROVE  CommandOK(d)'
BY DEF CommandOK

(* A command that a step does not touch keeps its place. *)
LEMMA PlaceSame ==
    ASSUME NEW d \in Clients, PlaceOK(d), client'[d].kind = client[d].kind, task'[d] = task[d],
           back'[d] = back[d], QueueKept(d),
           back[d] # "none" => task[d].sup \in Sups,
           \A s \in Sups : sup[s].pc \in Busy => sup'[s].pc \in Busy,
           NeedsCell(d) /\ CellAt(d) => CellAt(d)'
    PROVE  PlaceOK(d)'
BY DEF PlaceOK, Waits, QueueKept, Busy, NeedsCell

(* Names of waiters differ. *)
LEMMA WaiterNames ==
    /\ \A c \in Clients : Conn(c) \in Waiters /\ Back(c) \in Waiters
    /\ \A s \in Sups : Main(s) \in Waiters
    /\ \A c, d \in Clients : Conn(c) # Back(d) /\ (c # d => Conn(c) # Conn(d) /\ Back(c) # Back(d))
    /\ \A c \in Clients, s \in Sups : Main(s) # Conn(c) /\ Main(s) # Back(c)
BY DEF Conn, Back, Main, Waiters

(* What queues do to those who wait in them. *)
LEMMA QueueSame == ASSUME queue' = queue, NEW d \in Clients PROVE QueueKept(d)
BY DEF QueueKept

(* A waiter joins a queue at its end. *)
LEMMA QueueAppend ==
    ASSUME QueueTypes, NEW s \in Sups, NEW t \in Waiters,
           queue' = [queue EXCEPT ![s] = Append(queue[s], t)]
    PROVE  QueueTypes' /\ Contains(queue'[s], t) /\ \A d \in Clients : QueueKept(d)
<1>1. queue[s] \in Seq(Waiters) /\ queue'[s] = Append(queue[s], t)
      /\ \A u \in Sups : u # s => queue'[u] = queue[u]
  BY DEF QueueTypes
<1>2. Append(queue[s], t) \in Seq(Waiters) /\ Contains(Append(queue[s], t), t)
  BY <1>1, AppendKeeps
<1>3. ASSUME NEW d \in Clients, NEW u \in Sups, NEW v \in {Conn(d), Back(d)}
      PROVE  /\ Contains(queue[u], v) => Contains(queue'[u], v)
             /\ queue[u] # <<>> /\ Head(queue[u]) = v => queue'[u] # <<>> /\ Head(queue'[u]) = v
  BY <1>1, AppendKeeps
<1>4. QED
  BY <1>1, <1>2, <1>3 DEF QueueTypes, QueueKept

(* The first waiter leaves a queue. *)
LEMMA QueueTail ==
    ASSUME QueueTypes, NEW s \in Sups, queue[s] # <<>>, queue' = [queue EXCEPT ![s] = Tail(queue[s])]
    PROVE  /\ QueueTypes'
           /\ \A d \in Clients : Head(queue[s]) \notin {Conn(d), Back(d)} => QueueKept(d)
<1>1. queue[s] \in Seq(Waiters) /\ queue'[s] = Tail(queue[s])
      /\ \A u \in Sups : u # s => queue'[u] = queue[u]
  BY DEF QueueTypes
<1>2. Tail(queue[s]) \in Seq(Waiters)
  BY <1>1, TailKeeps
<1>3. ASSUME NEW d \in Clients, Head(queue[s]) \notin {Conn(d), Back(d)},
             NEW u \in Sups, NEW v \in {Conn(d), Back(d)}
      PROVE  /\ Contains(queue[u], v) => Contains(queue'[u], v)
             /\ queue[u] # <<>> /\ Head(queue[u]) = v => queue'[u] # <<>> /\ Head(queue'[u]) = v
  BY <1>1, <1>3, TailKeeps
<1>4. QED
  BY <1>1, <1>2, <1>3 DEF QueueTypes, QueueKept

(* A waiter leaves a queue from wherever it stands. *)
LEMMA QueueDrop ==
    ASSUME QueueTypes, NEW s \in Sups, NEW t, queue' = [queue EXCEPT ![s] = Drop(queue[s], t)]
    PROVE  QueueTypes' /\ \A d \in Clients : t \notin {Conn(d), Back(d)} => QueueKept(d)
<1>1. queue[s] \in Seq(Waiters) /\ queue'[s] = Drop(queue[s], t)
      /\ \A u \in Sups : u # s => queue'[u] = queue[u]
  BY DEF QueueTypes
<1>2. Drop(queue[s], t) \in Seq(Waiters)
  BY <1>1, DropKeeps
<1>3. ASSUME NEW d \in Clients, t \notin {Conn(d), Back(d)},
             NEW u \in Sups, NEW v \in {Conn(d), Back(d)}
      PROVE  /\ Contains(queue[u], v) => Contains(queue'[u], v)
             /\ queue[u] # <<>> /\ Head(queue[u]) = v => queue'[u] # <<>> /\ Head(queue'[u]) = v
  BY <1>1, <1>3, DropKeeps
<1>4. QED
  BY <1>1, <1>2, <1>3 DEF QueueTypes, QueueKept

(* An empty queue takes its first waiter. *)
LEMMA QueueFirst ==
    ASSUME QueueTypes, NEW s \in Sups, NEW t \in Waiters, queue[s] = <<>>,
           queue' = [queue EXCEPT ![s] = <<t>>]
    PROVE  /\ QueueTypes' /\ queue'[s] # <<>> /\ Head(queue'[s]) = t
           /\ \A d \in Clients : QueueKept(d)
<1>1. queue'[s] = <<t>> /\ \A u \in Sups : u # s => queue'[u] = queue[u]
  BY DEF QueueTypes
<1>2. <<t>> \in Seq(Waiters) /\ <<t>> # <<>> /\ Head(<<t>>) = t
  OBVIOUS
<1>3. \A v : ~Contains(queue[s], v)
  BY DEF Contains
<1>4. QED
  BY <1>1, <1>2, <1>3 DEF QueueTypes, QueueKept

(* A task's step, given what it does to its own client. *)
LEMMA OneTask ==
    ASSUME Core, StateTypes', QueueTypes', NEW c \in Clients, SamePlaces, client' = client,
           \A d \in Clients : d # c =>
               /\ task'[d] = task[d] /\ back'[d] = back[d] /\ applied'[d] = applied[d]
               /\ QueueKept(d) /\ (NeedsCell(d) /\ CellAt(d) => CellAt(d)'),
           CommandOK(c)', PlaceOK(c)'
    PROVE  Core'
<1>1. ASSUME NEW d \in Clients PROVE CommandOK(d)'
  BY <1>1, CommandSame DEF Core, CommandInv
<1>2. ASSUME NEW d \in Clients PROVE PlaceOK(d)'
  <2>1. CASE d = c
    BY <2>1
  <2>2. CASE d # c
    <3>1. \A s \in Sups : sup[s].pc \in Busy => sup'[s].pc \in Busy
      BY DEF SamePlaces
    <3>2. back[d] # "none" => task[d].sup \in Sups
      BY DEF Core, StateTypes, TaskTypes
    <3>3. PlaceOK(d)
      BY DEF Core, PlaceInv
    <3>4. QED
      BY <2>2, <3>1, <3>2, <3>3, PlaceSame
  <2>3. QED
    BY <2>1, <2>2
<1>3. QED
  BY <1>1, <1>2 DEF Core, CommandInv, PlaceInv

(* Cells stay where they are when the notebook is saved with more. *)
LEMMA SaveCells ==
    ASSUME StateTypes, NEW s \in Sups, NEW cells, Save(s, cells), Extends(sup[s].mem, cells),
           NEW d \in Clients, task'[d].sup = task[d].sup, task'[d].index = task[d].index,
           task[d].sup \in Sups, CellAt(d)
    PROVE  CellAt(d)'
<1>1. \A t \in Sups : sup'[t].mem = IF t = s THEN cells ELSE sup[t].mem
  BY SavePlaces DEF StateTypes
<1>2. QED
  BY <1>1 DEF CellAt, Extends

(* ... and when nothing is saved. *)
LEMMA SameCells ==
    ASSUME NEW d \in Clients, task'[d].sup = task[d].sup, task'[d].index = task[d].index,
           task[d].sup \in Sups, CellAt(d), \A t \in Sups : sup'[t].mem = sup[t].mem
    PROVE  CellAt(d)'
BY DEF CellAt

(* What is known of a task that is asked to do something. *)
LEMMA AskedTask ==
    ASSUME Core, NEW c \in Clients, Asked(c)
    PROVE  /\ task[c].stage = "accepted" /\ task[c].sup \in Sups /\ sup[task[c].sup].pc \in Busy
           /\ client[c].pc \in {"read", "done"} /\ applied[c] = 0 /\ back[c] = "none"
<1>1. CommandOK(c) /\ PlaceOK(c)
  BY DEF Core, CommandInv, PlaceInv
<1>2. QED
  BY <1>1 DEF Asked, At, Alive, CommandOK, PlaceOK, Busy

(* A step that changes the stage of one task and no cell. *)
LEMMA StageCore ==
    ASSUME Core, NEW c \in Clients, TaskStep(c), NEW stage \in Stages, Answer(c, stage),
           UNCHANGED <<back, applied>>, QueueTypes',
           \A t \in Sups : sup'[t].mem = sup[t].mem,
           \A d \in Clients : d # c => QueueKept(d),
           back[c] = "none", stage \notin {"running", "none", "backlog"},
           stage = "queued" => /\ sup[task[c].sup].pc \in Busy
                               /\ Contains(queue'[task[c].sup], Conn(c)),
           task[c].stage \in {"backlog", "accepted", "queued", "running"},
           task[c].stage = "backlog" => stage = "accepted",
           task[c].stage = "backlog" \/ client[c].pc \in {"read", "done"},
           stage \in {"accepted", "queued"} => applied[c] = 0
    PROVE  Core'
<1> USE DEF Core
<1>1. StateTypes' /\ SamePlaces /\ client' = client
  BY TaskStepTypes, TaskPlaces
<1>2. task' = [task EXCEPT ![c].stage = stage]
  BY DEF Answer
<1>3. /\ task'[c].stage = stage /\ task'[c].sup = task[c].sup /\ task'[c].index = task[c].index
      /\ \A d \in Clients : d # c => task'[d] = task[d]
  BY <1>2 DEF StateTypes, TaskTypes, TaskRecs
<1>4. CommandOK(c) /\ PlaceOK(c) /\ task[c].sup \in Sups
  BY DEF CommandInv, PlaceInv, StateTypes, TaskTypes
<1>5. CommandOK(c)'
  <2>1. back'[c] = "none" /\ applied'[c] = applied[c] /\ client'[c] = client[c]
    BY <1>1
  <2>2. client[c].pc \notin {"write", "read", "done"} => FALSE
    BY <1>4 DEF CommandOK
  <2>3. client[c].pc = "write" => stage = "accepted"
    BY <1>4 DEF CommandOK
  <2>4. stage \in {"backlog", "accepted", "queued"} \/ client[c].pc \notin {"read", "done"} =>
           applied[c] = 0
    BY <1>4, <2>3 DEF CommandOK
  <2>5. /\ applied[c] <= 1 /\ client[c].pc # "edit"
        /\ applied[c] # 0 => client[c].kind \in {"exec", "detach", "run", "edit", "restart"}
    BY <1>4 DEF CommandOK
  <2> HIDE DEF Core
  <2>6. QED
    BY <1>3, <2>1, <2>2, <2>3, <2>4, <2>5 DEF CommandOK
<1>6. PlaceOK(c)'
  BY <1>1, <1>3, <1>4 DEF PlaceOK, Waits, SamePlaces, Busy
<1>7. ASSUME NEW d \in Clients, d # c, NeedsCell(d), CellAt(d) PROVE CellAt(d)'
  <2>1. task[d].sup \in Sups
    BY <1>7 DEF NeedsCell, StateTypes, TaskTypes
  <2>2. QED
    BY <1>3, <1>7, <2>1, SameCells
<1>8. QED
  BY <1>1, <1>3, <1>5, <1>6, <1>7, OneTask

(* Requests that change no cell. *)
LEMMA SimpleTasks ==
    ASSUME Core, NEW c \in Clients,
           Accept(c) \/ DispatchAtOnce(c) \/ DispatchBusy(c) \/ DispatchWait(c) \/ EditTimeout(c)
    PROVE  Core'
<1> DEFINE s == task[c].sup
<1>0. QueueTypes /\ TaskStep(c) /\ CommandOK(c) /\ PlaceOK(c)
  BY DEF TaskStep, Core, CommandInv, PlaceInv
<1>1. CASE Accept(c)
  <2>1. /\ task[c].stage = "backlog" /\ Answer(c, "accepted")
        /\ UNCHANGED <<client, sup, back, queue, applied>>
    BY <1>1 DEF Accept, At
  <2>2. back[c] = "none" /\ applied[c] = 0
    BY <1>0, <2>1 DEF CommandOK
  <2>3. QueueTypes' /\ \A d \in Clients : QueueKept(d)
    BY <1>0, <2>1, QueueSame DEF QueueTypes
  <2>4. QED
    BY <1>0, <2>1, <2>2, <2>3, Names, StageCore
<1>2. CASE DispatchAtOnce(c)
  <2>1. /\ Asked(c) /\ Answer(c, "ok") /\ UNCHANGED <<client, back, queue, applied>>
        /\ sup' = [sup EXCEPT ![task[c].sup].stop = sup[task[c].sup].stop \/ client[c].kind = "stop"]
    BY <1>2 DEF DispatchAtOnce
  <2>2. \A t \in Sups : sup'[t].mem = sup[t].mem
    BY <2>1 DEF Core, StateTypes, SupTypes, SupRecs
  <2>3. QueueTypes' /\ \A d \in Clients : QueueKept(d)
    BY <1>0, <2>1, QueueSame DEF QueueTypes
  <2>4. QED
    BY <1>0, <2>1, <2>2, <2>3, Names, StageCore, AskedTask
<1>3. CASE DispatchBusy(c)
  <2>1. Asked(c) /\ Answer(c, "busy") /\ UNCHANGED <<client, sup, back, queue, applied>>
    BY <1>3 DEF DispatchBusy
  <2>2. QueueTypes' /\ \A d \in Clients : QueueKept(d)
    BY <1>0, <2>1, QueueSame DEF QueueTypes
  <2>3. QED
    BY <1>0, <2>1, <2>2, Names, StageCore, AskedTask
<1>4. CASE DispatchWait(c)
  <2>1. /\ Asked(c) /\ Answer(c, "queued") /\ UNCHANGED <<client, sup, back, applied>>
        /\ queue' = [queue EXCEPT ![s] = Append(queue[s], Conn(c))]
    BY <1>4 DEF DispatchWait
  <2>2. s \in Sups /\ Conn(c) \in Waiters
    BY <2>1, AskedTask, WaiterNames
  <2>3. QueueTypes' /\ Contains(queue'[s], Conn(c)) /\ \A d \in Clients : QueueKept(d)
    BY <1>0, <2>1, <2>2, QueueAppend
  <2>4. QED
    BY <1>0, <2>1, <2>2, <2>3, Names, StageCore, AskedTask
<1>5. CASE EditTimeout(c)
  <2>1. /\ task[c].stage = "queued" /\ Answer(c, "busy") /\ UNCHANGED <<client, sup, back, applied>>
        /\ queue' = [queue EXCEPT ![s] = Drop(queue[s], Conn(c))]
    BY <1>5 DEF EditTimeout, At
  <2>2. s \in Sups /\ back[c] = "none" /\ client[c].pc \in {"read", "done"}
    BY <1>0, <2>1 DEF CommandOK, PlaceOK
  <2>3. QueueTypes' /\ \A d \in Clients : d # c => QueueKept(d)
    BY <1>0, <2>1, <2>2, QueueDrop, WaiterNames
  <2>4. QED
    BY <1>0, <2>1, <2>2, <2>3, Names, StageCore
<1>6. QED
  BY <1>1, <1>2, <1>3, <1>4, <1>5

(* The session's turn: no other task is running, and an insertion waits    *)
(* for the detached cells.                                                 *)
LEMMA GrantedCore ==
    ASSUME Core, "shift" \notin Allowed, NEW c \in Clients, Granted(c) PROVE Core'
<1> DEFINE s == task[c].sup
<1> USE DEF Core
<1>1. TaskStep(c) /\ CommandOK(c) /\ PlaceOK(c) /\ task[c].stage = "queued"
  BY DEF TaskStep, CommandInv, PlaceInv, Granted, At
<1>2. /\ s \in Sups /\ back[c] = "none" /\ client[c].pc \in {"read", "done"} /\ applied[c] = 0
      /\ Contains(queue[s], Conn(c))
  BY <1>1 DEF CommandOK, PlaceOK, Waits
<1>3. /\ Head(queue[s]) = Conn(c) /\ queue' = [queue EXCEPT ![s] = Tail(queue[s])]
      /\ UNCHANGED <<client, back>>
  BY DEF Granted
<1>4. queue[s] # <<>>
  BY <1>2 DEF Contains
<1>5. QueueTypes' /\ \A d \in Clients : d # c => QueueKept(d)
  BY <1>2, <1>3, <1>4, QueueTail, WaiterNames
<1>6. CASE UNCHANGED <<sup, file, applied>>
  <2>1. PICK g \in {"ok", "error"} : Answer(c, g)
    BY DEF Granted
  <2>2. QED
    BY <1>1, <1>2, <1>3, <1>5, <1>6, <2>1, Names, StageCore
<1>7. CASE client[c].kind \in {"edit", "restart"} /\ Count(c) /\ Answer(c, "ok")
  <2>1. StateTypes' /\ SamePlaces
    BY <1>1, TaskStepTypes, TaskPlaces
  <2>2. /\ task'[c].stage = "ok" /\ task'[c].sup = task[c].sup
        /\ \A d \in Clients : d # c => task'[d] = task[d] /\ applied'[d] = applied[d]
        /\ applied'[c] = 1
    BY <1>2, <1>7 DEF Answer, Count, StateTypes, TaskTypes, TaskRecs
  <2>3. CommandOK(c)'
    BY <1>2, <1>3, <1>7, <2>2 DEF CommandOK
  <2>4. PlaceOK(c)'
    BY <1>2, <1>3, <2>2 DEF PlaceOK, Waits
  <2>5. ASSUME NEW d \in Clients, d # c, NeedsCell(d), CellAt(d) PROVE CellAt(d)'
    <3>1. task[d].sup \in Sups /\ PlaceOK(d)
      BY <2>5 DEF NeedsCell, StateTypes, TaskTypes, PlaceInv
    <3>2. CASE Save(s, ClearOutputs(sup[s].mem))
      <4>1. Extends(sup[s].mem, ClearOutputs(sup[s].mem))
        BY <1>2, ClearCells DEF StateTypes, SupTypes, SupRecs
      <4>2. QED
        BY <1>2, <2>2, <2>5, <3>1, <3>2, <4>1, SaveCells
    <3>3. CASE client[c].kind = "edit" /\ Save(s, <<Cell(c)>> \o sup[s].mem)
      <4>1. Pending(s) = {}
        BY <3>3 DEF Granted
      <4>2. task[d].sup = s => back[d] \notin {"spawned", "queued"}
        BY <4>1 DEF Pending
      <4>3. task[d].sup # s
        BY <1>3, <2>5, <3>1, <4>2, WaiterNames DEF NeedsCell, PlaceOK, Waits
      <4>4. sup'[task[d].sup].mem = sup[task[d].sup].mem
        BY <3>1, <3>3, <4>3, SavePlaces DEF StateTypes
      <4>5. QED
        BY <2>2, <2>5, <4>4 DEF CellAt
    <3>4. CASE client[c].kind = "ask" /\ UNCHANGED <<sup, file, applied>>
      BY <2>2, <2>5, <3>1, <3>4, SameCells
    <3>5. QED
      BY <1>6, <1>7, <3>2, <3>3, <3>4, <2>2, <1>2 DEF Granted
  <2>6. QED
    BY <1>3, <1>5, <2>1, <2>2, <2>3, <2>4, <2>5, OneTask
<1>8. QED
  BY <1>6, <1>7 DEF Granted

(* A cell starts on an idle session. *)
LEMMA DispatchRunCore == ASSUME Core, NEW c \in Clients, DispatchRun(c) PROVE Core'
<1> DEFINE s == task[c].sup
<1> USE DEF Core
<1>1. TaskStep(c) /\ Asked(c) /\ client[c].kind \in {"exec", "run"} /\ queue[s] = <<>>
      /\ UNCHANGED <<client, back>>
  BY DEF TaskStep, DispatchRun, Idle
<1>2. /\ s \in Sups /\ sup[s].pc \in Busy /\ Conn(c) \in Waiters
      /\ client[c].pc \in {"read", "done"} /\ applied[c] = 0 /\ back[c] = "none"
      /\ task[c].stage = "accepted"
  BY <1>1, AskedTask, WaiterNames
<1>3. sup[s].mem \in Seq(Cells)
  BY <1>2 DEF StateTypes, SupTypes, SupRecs
<1>4. StateTypes' /\ SamePlaces
  BY <1>1, TaskStepTypes, TaskPlaces
<1>5. CASE client[c].kind = "run" /\ sup[s].mem = <<>>
  <2>1. Answer(c, "error") /\ UNCHANGED <<sup, applied, queue>>
    BY <1>5 DEF DispatchRun
  <2>2. QueueTypes' /\ \A d \in Clients : QueueKept(d)
    BY <2>1, QueueSame DEF QueueTypes
  <2>3. QED
    BY <1>1, <1>2, <2>1, <2>2, Names, StageCore
<1>6. CASE ~(client[c].kind = "run" /\ sup[s].mem = <<>>)
  <2>1. /\ queue' = [queue EXCEPT ![s] = <<Conn(c)>>] /\ Count(c)
        /\ \/ /\ client[c].kind = "exec" /\ Save(s, Append(sup[s].mem, Cell(c)))
              /\ task' = [task EXCEPT ![c].stage = "running", ![c].index = Len(sup[s].mem) + 1]
           \/ /\ client[c].kind = "run" /\ sup' = sup
              /\ task' = [task EXCEPT ![c].stage = "running", ![c].index = 1]
    BY <1>1, <1>6 DEF DispatchRun
  <2>2. /\ QueueTypes' /\ queue'[s] # <<>> /\ Head(queue'[s]) = Conn(c)
        /\ \A d \in Clients : QueueKept(d)
    BY <1>1, <1>2, <2>1, QueueFirst
  <2>3. /\ task'[c].stage = "running" /\ task'[c].sup = s
        /\ client[c].kind = "exec" => task'[c].index = Len(sup[s].mem) + 1
        /\ \A d \in Clients : d # c => task'[d] = task[d]
    BY <2>1 DEF StateTypes, TaskTypes, TaskRecs
  <2>4. applied'[c] = 1 /\ \A d \in Clients : d # c => applied'[d] = applied[d]
    BY <1>2, <2>1 DEF Count, StateTypes, TaskTypes
  <2>5. CommandOK(c)'
    BY <1>1, <1>2, <2>3, <2>4 DEF CommandOK
  <2>6. client[c].kind = "exec" => CellAt(c)'
    <3>1. SUFFICES ASSUME client[c].kind = "exec" PROVE CellAt(c)'
      OBVIOUS
    <3>2. sup'[s].mem = Append(sup[s].mem, Cell(c))
      BY <1>2, <2>1, <3>1, SavePlaces DEF StateTypes
    <3>3. QED
      BY <1>3, <2>3, <3>1, <3>2, AppendCells DEF CellAt
  <2>7. PlaceOK(c)'
    BY <1>1, <1>2, <1>4, <2>2, <2>3, <2>6 DEF PlaceOK, Waits, SamePlaces, Busy
  <2>8. ASSUME NEW d \in Clients, d # c, NeedsCell(d), CellAt(d) PROVE CellAt(d)'
    <3>1. task[d].sup \in Sups
      BY <2>8 DEF NeedsCell, StateTypes, TaskTypes
    <3>2. CASE sup' = sup
      BY <2>3, <2>8, <3>1, <3>2, SameCells
    <3>3. CASE Save(s, Append(sup[s].mem, Cell(c)))
      <4>1. Extends(sup[s].mem, Append(sup[s].mem, Cell(c)))
        BY <1>3, AppendCells
      <4>2. QED
        BY <1>2, <2>3, <2>8, <3>1, <3>3, <4>1, SaveCells
    <3>4. QED
      BY <2>1, <3>2, <3>3
  <2>9. QED
    BY <1>1, <1>4, <2>2, <2>3, <2>4, <2>5, <2>7, <2>8, OneTask
<1>7. QED
  BY <1>5, <1>6

(* ... and ends. *)
LEMMA CellEndsCore == ASSUME Core, NEW c \in Clients, CellEnds(c) PROVE Core'
<1> DEFINE s == task[c].sup
<1> USE DEF Core
<1>1. TaskStep(c) /\ CommandOK(c) /\ PlaceOK(c) /\ task[c].stage = "running"
  BY DEF TaskStep, CommandInv, PlaceInv, CellEnds, At
<1>2. /\ s \in Sups /\ back[c] = "none" /\ client[c].pc \in {"read", "done"}
      /\ queue[s] # <<>> /\ Head(queue[s]) = Conn(c) /\ task[c].index \in Nat
  BY <1>1 DEF CommandOK, PlaceOK, Waits, StateTypes, TaskTypes, TaskRecs
<1>3. queue' = [queue EXCEPT ![s] = Tail(queue[s])] /\ UNCHANGED <<client, back, applied>>
  BY DEF CellEnds
<1>4. QueueTypes' /\ \A d \in Clients : d # c => QueueKept(d)
  BY <1>2, <1>3, QueueTail, WaiterNames
<1>5. PICK g \in {"ok", "error"} : Answer(c, g)
  BY DEF CellEnds
<1>6. /\ task'[c].stage = g /\ task'[c].sup = task[c].sup
      /\ \A d \in Clients : d # c => task'[d] = task[d]
  BY <1>5 DEF Answer, StateTypes, TaskTypes, TaskRecs
<1>7. CommandOK(c)' /\ PlaceOK(c)'
  BY <1>1, <1>2, <1>3, <1>6 DEF CommandOK, PlaceOK, Waits
<1>8. ASSUME NEW d \in Clients, d # c, NeedsCell(d), CellAt(d) PROVE CellAt(d)'
  <2>1. task[d].sup \in Sups
    BY <1>8 DEF NeedsCell, StateTypes, TaskTypes
  <2>2. CASE sup' = sup
    BY <1>6, <1>8, <2>1, <2>2, SameCells
  <2>3. CASE Save(s, SetOut(sup[s].mem, task[c].index, "out"))
    <3>1. Extends(sup[s].mem, SetOut(sup[s].mem, task[c].index, "out"))
      BY <1>2, SetOutCells DEF StateTypes, SupTypes, SupRecs
    <3>2. QED
      BY <1>2, <1>6, <1>8, <2>1, <2>3, <3>1, SaveCells
  <2>4. QED
    BY <2>2, <2>3 DEF CellEnds
<1>9. QED
  BY <1>1, <1>3, <1>4, <1>6, <1>7, <1>8, TaskStepTypes, TaskPlaces, OneTask

(* A detached cell is appended, *)
LEMMA DispatchDetachedCore == ASSUME Core, NEW c \in Clients, DispatchDetached(c) PROVE Core'
<1> DEFINE s == task[c].sup
<1> USE DEF Core
<1>1. /\ TaskStep(c) /\ Asked(c) /\ client[c].kind = "detach"
      /\ Save(s, Append(sup[s].mem, Cell(c)))
      /\ task' = [task EXCEPT ![c].stage = "ok", ![c].index = Len(sup[s].mem) + 1]
      /\ back' = [back EXCEPT ![c] = "spawned"]
      /\ UNCHANGED <<client, queue, applied>>
  BY DEF TaskStep, DispatchDetached
<1>2. /\ s \in Sups /\ sup[s].pc \in Busy
      /\ client[c].pc \in {"read", "done"} /\ applied[c] = 0
  BY <1>1, AskedTask
<1>3. sup[s].mem \in Seq(Cells)
  BY <1>2 DEF StateTypes, SupTypes, SupRecs
<1>4. StateTypes' /\ SamePlaces
  BY <1>1, TaskStepTypes, TaskPlaces
<1>5. QueueTypes' /\ \A d \in Clients : QueueKept(d)
  BY <1>1, QueueSame DEF QueueTypes
<1>6. /\ task'[c].stage = "ok" /\ task'[c].sup = s /\ task'[c].index = Len(sup[s].mem) + 1
      /\ back'[c] = "spawned"
      /\ \A d \in Clients : d # c => task'[d] = task[d] /\ back'[d] = back[d]
  BY <1>1 DEF StateTypes, TaskTypes, TaskRecs
<1>7. CommandOK(c)'
  BY <1>1, <1>2, <1>6 DEF CommandOK
<1>8. CellAt(c)'
  <2> DEFINE g == Append(sup[s].mem, Cell(c))
             k == Len(sup[s].mem) + 1
  <2>1. sup'[s].mem = g
    <3>1. SupTypes /\ Save(s, g)
      BY <1>1 DEF StateTypes
    <3> HIDE DEF g
    <3>2. \A t \in Sups : sup'[t].mem = IF t = s THEN g ELSE sup[t].mem
      BY <3>1, SavePlaces
    <3>3. QED
      BY <1>2, <3>2
  <2>2. k \in DOMAIN g /\ g[k].id = c
    BY <1>3, AppendCells
  <2>3. task'[c].sup = s /\ task'[c].index = k
    BY <1>6
  <2> HIDE DEF g, k, s
  <2>4. QED
    BY <2>1, <2>2, <2>3 DEF CellAt
<1>9. PlaceOK(c)'
  BY <1>2, <1>4, <1>6, <1>8 DEF PlaceOK, Waits, SamePlaces, Busy
<1>10. ASSUME NEW d \in Clients, d # c, NeedsCell(d), CellAt(d) PROVE CellAt(d)'
  <2>1. task[d].sup \in Sups /\ Extends(sup[s].mem, Append(sup[s].mem, Cell(c)))
    BY <1>3, <1>10, AppendCells DEF NeedsCell, StateTypes, TaskTypes
  <2>2. QED
    BY <1>1, <1>2, <1>6, <1>10, <2>1, SaveCells
<1>11. QED
  BY <1>1, <1>4, <1>5, <1>6, <1>7, <1>9, <1>10, OneTask

(* queued, run and recorded. *)
LEMMA BackgroundCore ==
    ASSUME Core, NEW c \in Clients, BackgroundLock(c) \/ BackgroundRun(c) \/ BackgroundEnds(c)
    PROVE  Core'
<1> DEFINE s == task[c].sup
<1> USE DEF Core
<1>1. TaskStep(c) /\ CommandOK(c) /\ PlaceOK(c) /\ client' = client /\ task' = task
  BY DEF TaskStep, CommandInv, PlaceInv, BackgroundLock, BackgroundRun, BackgroundEnds
<1>2. StateTypes' /\ SamePlaces
  BY <1>1, TaskStepTypes, TaskPlaces
<1>3. back[c] # "none"
  BY DEF BackgroundLock, BackgroundRun, BackgroundEnds
<1>4. /\ s \in Sups /\ client[c].kind = "detach" /\ task[c].stage = "ok"
      /\ client[c].pc \in {"read", "done"} /\ task[c].index \in Nat
  BY <1>1, <1>3 DEF CommandOK, PlaceOK, StateTypes, TaskTypes, TaskRecs
<1>5. CASE BackgroundLock(c)
  <2>1. /\ back[c] = "spawned" /\ sup[s].pc \in Busy
        /\ queue' = [queue EXCEPT ![s] = Append(queue[s], Back(c))]
        /\ back' = [back EXCEPT ![c] = "queued"] /\ UNCHANGED <<sup, applied>>
    BY <1>5 DEF BackgroundLock, Alive, Busy
  <2>2. QueueTypes' /\ Contains(queue'[s], Back(c)) /\ \A d \in Clients : QueueKept(d)
    BY <1>4, <2>1, QueueAppend, WaiterNames
  <2>3. back'[c] = "queued" /\ \A d \in Clients : d # c => back'[d] = back[d]
    BY <2>1 DEF StateTypes, TaskTypes
  <2>4. CommandOK(c)'
    BY <1>1, <1>4, <2>1, <2>3 DEF CommandOK
  <2>5. PlaceOK(c)'
    BY <1>1, <1>4, <2>1, <2>2, <2>3 DEF PlaceOK, Waits, CellAt, Busy
  <2>6. \A d \in Clients : CellAt(d) => CellAt(d)'
    BY <1>1, <2>1 DEF CellAt
  <2>7. QED
    BY <1>1, <1>2, <2>1, <2>2, <2>3, <2>4, <2>5, <2>6, OneTask
<1>6. CASE BackgroundRun(c)
  <2>1. /\ back[c] = "queued" /\ Head(queue[s]) = Back(c)
        /\ back' = [back EXCEPT ![c] = "running"] /\ UNCHANGED <<sup, queue>>
        /\ applied' = [applied EXCEPT ![sup[s].mem[task[c].index].id] =
                          applied[sup[s].mem[task[c].index].id] + 1]
    BY <1>6 DEF BackgroundRun
  <2>2. CellAt(c) /\ Contains(queue[s], Back(c)) /\ applied[c] = 0 /\ sup[s].pc \in Busy
    BY <1>1, <1>4, <2>1 DEF PlaceOK, Waits, CommandOK, Busy
  <2>3. sup[s].mem[task[c].index].id = c /\ queue[s] # <<>>
    BY <2>2 DEF CellAt, Contains
  <2>4. applied'[c] = 1 /\ \A d \in Clients : d # c => applied'[d] = applied[d]
    BY <2>1, <2>2, <2>3 DEF StateTypes, TaskTypes
  <2>5. back'[c] = "running" /\ \A d \in Clients : d # c => back'[d] = back[d]
    BY <2>1 DEF StateTypes, TaskTypes
  <2>6. QueueTypes' /\ \A d \in Clients : QueueKept(d)
    BY <2>1, QueueSame DEF QueueTypes
  <2>7. CommandOK(c)'
    BY <1>1, <1>4, <2>4, <2>5 DEF CommandOK
  <2>8. \A d \in Clients : CellAt(d) => CellAt(d)'
    BY <1>1, <2>1 DEF CellAt
  <2>9. PlaceOK(c)'
    BY <1>1, <1>4, <2>1, <2>2, <2>3, <2>5, <2>8 DEF PlaceOK, Waits, Busy
  <2>10. QED
    BY <1>1, <1>2, <2>4, <2>5, <2>6, <2>7, <2>8, <2>9, OneTask
<1>7. CASE BackgroundEnds(c)
  <2>1. /\ back[c] = "running" /\ Save(s, SetOut(sup[s].mem, task[c].index, "out"))
        /\ back' = [back EXCEPT ![c] = "done"] /\ applied' = applied
        /\ queue' = [queue EXCEPT ![s] = Tail(queue[s])]
    BY <1>7 DEF BackgroundEnds
  <2>2. queue[s] # <<>> /\ Head(queue[s]) = Back(c)
    BY <1>1, <2>1 DEF PlaceOK, Waits
  <2>3. QueueTypes' /\ \A d \in Clients : d # c => QueueKept(d)
    BY <1>4, <2>1, <2>2, QueueTail, WaiterNames
  <2>4. back'[c] = "done" /\ \A d \in Clients : d # c => back'[d] = back[d]
    BY <2>1 DEF StateTypes, TaskTypes
  <2>5. CommandOK(c)'
    BY <1>1, <1>4, <2>1, <2>4 DEF CommandOK
  <2>6. PlaceOK(c)'
    BY <1>1, <1>4, <2>4 DEF PlaceOK, Waits
  <2>7. ASSUME NEW d \in Clients, NeedsCell(d), CellAt(d) PROVE CellAt(d)'
    <3>1. task[d].sup \in Sups /\ Extends(sup[s].mem, SetOut(sup[s].mem, task[c].index, "out"))
      BY <1>4, <2>7, SetOutCells DEF NeedsCell, StateTypes, TaskTypes, SupTypes, SupRecs
    <3>2. QED
      BY <1>1, <1>4, <2>1, <2>7, <3>1, SaveCells
  <2>8. QED
    BY <1>1, <1>2, <2>1, <2>3, <2>4, <2>5, <2>6, <2>7, OneTask
<1>8. QED
  BY <1>5, <1>6, <1>7
(* The tasks of a client. *)
LEMMA TaskCore ==
    ASSUME Core, "shift" \notin Allowed, NEW c \in Clients, TaskStep(c) PROVE Core'
BY SimpleTasks, GrantedCore, DispatchRunCore, CellEndsCore, DispatchDetachedCore, BackgroundCore
   DEF TaskStep

(* A client's step, given what it does to its own request. *)
LEMMA OneClient ==
    ASSUME Core, StateTypes', NEW c \in Clients, UNCHANGED <<queue, back>>,
           \A d \in Clients : d # c =>
               client'[d] = client[d] /\ task'[d] = task[d] /\ applied'[d] = applied[d],
           \A s \in Sups : /\ sup'[s].mem = sup[s].mem
                           /\ sup[s].pc \in Busy => sup'[s].pc \in Busy,
           CommandOK(c)', PlaceOK(c)'
    PROVE  Core'
<1> USE DEF Core
<1>1. ASSUME NEW d \in Clients PROVE CommandOK(d)'
  BY <1>1, CommandSame DEF CommandInv
<1>2. ASSUME NEW d \in Clients, d # c PROVE PlaceOK(d)'
  <2>1. /\ back[d] # "none" => task[d].sup \in Sups
        /\ NeedsCell(d) => task[d].sup \in Sups
    BY DEF StateTypes, TaskTypes, NeedsCell
  <2>2. NeedsCell(d) /\ CellAt(d) => CellAt(d)'
    BY <1>2, <2>1, SameCells
  <2>3. PlaceOK(d) /\ QueueKept(d)
    BY QueueSame DEF PlaceInv
  <2>4. client'[d].kind = client[d].kind /\ task'[d] = task[d] /\ back'[d] = back[d]
    BY <1>2
  <2>5. QED
    BY <2>1, <2>2, <2>3, <2>4, PlaceSame
<1>3. QueueTypes'
  BY DEF QueueTypes
<1>4. QED
  BY <1>1, <1>2, <1>3 DEF CommandInv, PlaceInv

(* A client that moves on and leaves its connection as it is. *)
LEMMA ClientMoves ==
    ASSUME Core, StateTypes', NEW c \in Clients, UNCHANGED <<queue, back, task>>,
           \A d \in Clients : d # c => client'[d] = client[d] /\ applied'[d] = applied[d],
           \A s \in Sups : /\ sup'[s].mem = sup[s].mem
                           /\ sup[s].pc \in Busy => sup'[s].pc \in Busy,
           client'[c].kind = client[c].kind, CommandOK(c)'
    PROVE  Core'
<1>1. PlaceOK(c) /\ QueueKept(c)
  BY QueueSame DEF Core, PlaceInv
<1>2. /\ back[c] # "none" => task[c].sup \in Sups
      /\ NeedsCell(c) => task[c].sup \in Sups
  BY DEF Core, StateTypes, TaskTypes, NeedsCell
<1>3. NeedsCell(c) /\ CellAt(c) => CellAt(c)'
  BY <1>2, SameCells
<1>4. PlaceOK(c)'
  BY <1>1, <1>2, <1>3, PlaceSame
<1>5. QED
  BY <1>4, OneClient

(* The end of a command, and its second attempt. *)
LEMMA RetryMoves ==
    ASSUME ClientTypes, NEW c \in Clients, NEW delivered, Retry(c, delivered)
    PROVE  /\ \A d \in Clients : d # c => client'[d] = client[d]
           /\ client'[c].kind = client[c].kind
           /\ \/ client'[c].pc = "done"
              \/ client'[c].pc = "connect" /\ (delivered => Repeatable(client[c].kind))
<1>1. CASE /\ client' = [client EXCEPT ![c].pc = "connect", ![c].attempt = 2]
           /\ delivered => Repeatable(client[c].kind)
  BY <1>1 DEF ClientTypes, ClientRecs
<1>2. CASE Finish(c, "lost")
  BY <1>2 DEF Finish, ClientTypes, ClientRecs
<1>3. QED
  BY <1>1, <1>2 DEF Retry

(* Clients. *)
LEMMA ClientCore == ASSUME Core, NEW c \in Clients, ClientStep(c) PROVE Core'
<1> DEFINE Quiet == UNCHANGED <<queue, back, task, applied>>
           Others == \A d \in Clients : d # c => client'[d] = client[d]
           SameSups == \A s \in Sups : /\ sup'[s].mem = sup[s].mem
                                       /\ sup[s].pc \in Busy => sup'[s].pc \in Busy
<1>1. StateTypes /\ CommandOK(c) /\ PlaceOK(c)
  BY DEF Core, CommandInv, PlaceInv
<1>2. StateTypes' /\ client[c] \in ClientRecs
  BY <1>1, ClientStepTypes DEF StateTypes, ClientTypes
<1>3. ASSUME client[c].pc \notin {"write", "read", "done"}, Quiet, Others, SameSups,
             client'[c].kind = client[c].kind, client'[c].pc # "write",
             client'[c].pc = "edit" => client[c].kind = "edit"
      PROVE  Core'
  <2>1. CommandOK(c)'
    BY <1>1, <1>3 DEF CommandOK
  <2>2. QED
    BY <1>2, <1>3, <2>1, ClientMoves
<1>4. ASSUME NEW pc, client' = [client EXCEPT ![c].pc = pc]
      PROVE  Others /\ client'[c].kind = client[c].kind /\ client'[c].pc = pc
  BY <1>1, <1>2, <1>4 DEF StateTypes, ClientTypes, ClientRecs
<1>5. ASSUME NEW r, Finish(c, r)
      PROVE  Others /\ client'[c].kind = client[c].kind /\ client'[c].pc = "done"
  BY <1>1, <1>2, <1>5 DEF Finish, StateTypes, ClientTypes, ClientRecs
<1>6. ASSUME Listening, client[c].pc \in {"connect", "reconnect"},
             client' = [client EXCEPT ![c].pc = "write"],
             task' = [task EXCEPT ![c] = [sup |-> sockFile, stage |-> "backlog", index |-> 0]],
             UNCHANGED <<sup, back, queue, applied>>
      PROVE  Core'
  <2>1. Others /\ client'[c].kind = client[c].kind /\ client'[c].pc = "write"
    BY <1>4, <1>6
  <2>2. /\ task'[c].sup = sockFile /\ task'[c].stage = "backlog" /\ sockFile \in Sups
        /\ \A d \in Clients : d # c => task'[d] = task[d]
    BY <1>1, <1>6 DEF StateTypes, TaskTypes, FileTypes, Listening
  <2>3. applied[c] = 0 /\ back[c] = "none"
    BY <1>1, <1>6 DEF CommandOK
  <2>4. CommandOK(c)'
    BY <1>6, <2>1, <2>2, <2>3 DEF CommandOK
  <2>5. PlaceOK(c)'
    BY <1>6, <2>2, <2>3 DEF PlaceOK, Waits
  <2>6. QED
    BY <1>2, <1>6, <2>1, <2>2, <2>4, <2>5, OneClient
<1>7. CASE Begin(c)
  <2>1. client[c].pc = "idle" /\ Quiet /\ SameSups
    BY <1>7 DEF Begin
  <2>2. Others /\ client'[c].kind = client[c].kind /\ client'[c].pc \in {"connect", "done"}
    BY <1>4, <1>5, <1>7 DEF Begin
  <2>3. QED
    BY <1>3, <2>1, <2>2
<1>8. CASE Connect(c)
  BY <1>6, <1>8 DEF Connect
<1>9. CASE Spawn(c)
  <2>1. client[c].pc = "connect" /\ client' = [client EXCEPT ![c].pc = "spawned"] /\ Quiet
    BY <1>9 DEF Spawn
  <2>2. PICK s \in Sups : sup[s].pc = "off" /\ sup' = [sup EXCEPT ![s].pc = "start"]
    BY <1>9 DEF Spawn
  <2>3. SameSups
    BY <1>1, <2>2 DEF StateTypes, SupTypes, SupRecs, Busy
  <2>4. QED
    BY <1>3, <1>4, <2>1, <2>3
<1>10. CASE Spawned(c)
  <2>1. client[c].pc = "spawned" /\ Quiet /\ SameSups
    BY <1>10 DEF Spawned
  <2>2. Others /\ client'[c].kind = client[c].kind /\ client'[c].pc \in {"reconnect", "done"}
    BY <1>4, <1>5, <1>10 DEF Spawned
  <2>3. QED
    BY <1>3, <2>1, <2>2
<1>11. CASE Reconnect(c)
  <2>1. CASE Listening
    BY <1>6, <1>11, <2>1 DEF Reconnect
  <2>2. CASE ~Listening
    <3>1. client[c].pc = "reconnect" /\ Quiet /\ SameSups /\ Retry(c, FALSE)
      BY <1>11, <2>2 DEF Reconnect
    <3>2. Others /\ client'[c].kind = client[c].kind /\ client'[c].pc \in {"connect", "done"}
      BY <1>1, <3>1, RetryMoves DEF StateTypes
    <3>3. QED
      BY <1>3, <3>1, <3>2
  <2>3. QED
    BY <2>1, <2>2
<1>12. CASE Write(c)
  <2>1. client[c].pc = "write" /\ Quiet /\ SameSups
    BY <1>12 DEF Write
  <2>2. CASE Gone(c)
    <3>1. Others /\ client'[c].kind = client[c].kind /\ client'[c].pc \in {"connect", "done"}
      BY <1>1, <1>12, <2>2, RetryMoves DEF Write, StateTypes
    <3>2. CommandOK(c)'
      BY <1>1, <2>1, <2>2, <3>1 DEF CommandOK, Gone
    <3>3. QED
      BY <1>2, <2>1, <3>1, <3>2, ClientMoves
  <2>3. CASE ~Gone(c)
    <3>1. Others /\ client'[c].kind = client[c].kind /\ client'[c].pc = "read"
      BY <1>4, <1>12, <2>3 DEF Write
    <3>2. CommandOK(c)'
      BY <1>1, <2>1, <3>1 DEF CommandOK
    <3>3. QED
      BY <1>2, <2>1, <3>1, <3>2, ClientMoves
  <2>4. QED
    BY <2>2, <2>3
<1>13. CASE Read(c)
  <2>1. client[c].pc = "read" /\ Quiet /\ SameSups
    BY <1>13 DEF Read
  <2>2. CASE Finish(c, task[c].stage)
    <3>1. Others /\ client'[c].kind = client[c].kind /\ client'[c].pc = "done"
      BY <1>5, <2>2
    <3>2. CommandOK(c)'
      BY <1>1, <2>1, <3>1 DEF CommandOK
    <3>3. QED
      BY <1>2, <2>1, <3>1, <3>2, ClientMoves
  <2>3. CASE Gone(c) /\ Retry(c, TRUE)
    <3>1. /\ Others /\ client'[c].kind = client[c].kind
          /\ \/ client'[c].pc = "done"
             \/ client'[c].pc = "connect" /\ Repeatable(client[c].kind)
      BY <1>1, <2>3, RetryMoves DEF StateTypes
    \* A request that may be sent again has not acted and never will.
    <3>2. Repeatable(client[c].kind) => applied[c] = 0 /\ back[c] = "none"
      BY <1>1 DEF Repeatable, CommandOK
    <3>3. CommandOK(c)'
      BY <1>1, <2>1, <2>3, <3>1, <3>2 DEF CommandOK, Gone
    <3>4. QED
      BY <1>2, <2>1, <3>1, <3>3, ClientMoves
  <2>4. QED
    BY <1>13, <2>2, <2>3 DEF Read
<1>14. CASE ReadForEdit(c)
  <2>1. /\ client[c].pc = "connect" /\ client[c].kind = "edit" /\ Quiet /\ SameSups
        /\ client' = [client EXCEPT ![c].pc = "edit", ![c].copy = <<Cell(c)>> \o file]
    BY <1>14 DEF ReadForEdit
  <2>2. Others /\ client'[c].kind = client[c].kind /\ client'[c].pc = "edit"
    BY <1>1, <1>2, <2>1 DEF StateTypes, ClientTypes, ClientRecs
  <2>3. QED
    BY <1>3, <2>1, <2>2
<1>15. CASE WriteEdit(c)
  <2>1. /\ client[c].pc = "edit" /\ Finish(c, "ok") /\ Count(c)
        /\ UNCHANGED <<sup, task, back, queue>>
    BY <1>15 DEF WriteEdit
  <2>2. Others /\ client'[c].kind = client[c].kind /\ client'[c].pc = "done"
    BY <1>5, <2>1
  <2>3. /\ client[c].kind = "edit" /\ applied[c] = 0 /\ back[c] = "none"
        /\ task[c].stage \in {"none", "reset"}
    BY <1>1, <2>1 DEF CommandOK
  <2>4. applied'[c] = 1 /\ \A d \in Clients : d # c => applied'[d] = applied[d]
    BY <1>1, <2>1, <2>3 DEF Count, StateTypes, TaskTypes
  <2>5. CommandOK(c)'
    BY <2>1, <2>2, <2>3, <2>4 DEF CommandOK
  <2>6. SameSups
    BY <2>1
  <2>7. QED
    BY <1>2, <2>1, <2>2, <2>4, <2>5, <2>6, ClientMoves
<1>16. CASE List(c)
  <2>1. client[c].pc = "connect" /\ Quiet /\ SameSups
    BY <1>16 DEF List
  <2>2. Others /\ client'[c].kind = client[c].kind /\ client'[c].pc \in {"unlink socket", "done"}
    BY <1>4, <1>5, <1>16 DEF List
  <2>3. QED
    BY <1>3, <2>1, <2>2
<1>17. CASE UnlinkSocket(c) \/ UnlinkLock(c)
  <2>1. client[c].pc \in {"unlink socket", "unlink lock"} /\ Quiet /\ SameSups
    BY <1>17 DEF UnlinkSocket, UnlinkLock
  <2>2. Others /\ client'[c].kind = client[c].kind /\ client'[c].pc \in {"unlink lock", "done"}
    BY <1>4, <1>5, <1>17 DEF UnlinkSocket, UnlinkLock
  <2>3. QED
    BY <1>3, <2>1, <2>2
<1>18. QED
  BY <1>7, <1>8, <1>9, <1>10, <1>11, <1>12, <1>13, <1>14, <1>15, <1>16, <1>17 DEF ClientStep

(* A supervisor's step that resets no connection. *)
LEMMA OneSup ==
    ASSUME Core, StateTypes', QueueTypes', UNCHANGED <<client, back, applied>>,
           \A d \in Clients : QueueKept(d),
           \A d \in Clients : \/ task'[d] = task[d]
                              \/ /\ task[d].stage = "backlog" /\ task'[d].stage = "reset"
                                 /\ task'[d].sup = task[d].sup,
           \A t \in Sups : sup[t].pc \in Busy => sup'[t].pc \in Busy /\ sup'[t].mem = sup[t].mem
    PROVE  Core'
<1> USE DEF Core
<1>1. ASSUME NEW d \in Clients PROVE CommandOK(d)' /\ PlaceOK(d)'
  <2>1. CommandOK(d) /\ PlaceOK(d)
    BY DEF CommandInv, PlaceInv
  <2>2. CASE task'[d] = task[d]
    <3>1. CommandOK(d)'
      BY <2>1, <2>2, CommandSame
    <3>2. NeedsCell(d) => task[d].sup \in Sups /\ sup[task[d].sup].pc \in Busy
      BY <2>1 DEF NeedsCell, PlaceOK, Waits, Busy, StateTypes, TaskTypes
    <3>3. NeedsCell(d) /\ CellAt(d) => CellAt(d)'
      BY <2>2, <3>2 DEF CellAt
    <3>4. back[d] # "none" => task[d].sup \in Sups
      BY DEF StateTypes, TaskTypes
    <3>5. QED
      BY <2>1, <2>2, <3>1, <3>3, <3>4, PlaceSame
  <2>3. CASE /\ task[d].stage = "backlog" /\ task'[d].stage = "reset"
             /\ task'[d].sup = task[d].sup
    <3>1. back[d] = "none" /\ task[d].sup \in Sups
      BY <2>1, <2>3 DEF CommandOK, PlaceOK
    <3>2. CommandOK(d)'
      BY <2>1, <2>3, <3>1 DEF CommandOK
    <3>3. PlaceOK(d)'
      BY <2>3, <3>1 DEF PlaceOK, Waits
    <3>4. QED
      BY <3>2, <3>3
  <2>4. QED
    BY <2>2, <2>3
<1>2. QED
  BY <1>1 DEF CommandInv, PlaceInv

(* The end of a process takes its tasks, its queue and its memory. *)
LEMMA DieCore == ASSUME Core, StateTypes', NEW s \in Sups, Die(s) PROVE Core'
<1> USE DEF Core
<1>1. PICK stages : Unanswered \subseteq stages /\ "none" \notin stages /\ task' = Reset(s, stages)
  BY DEF Die, Unanswered
<1>2. /\ \A d \in Clients : d \in Clients => back'[d] = IF task[d].sup = s THEN "none" ELSE back[d]
      /\ UNCHANGED <<client, applied>>
  BY DEF Die
<1>3. \A t \in Sups : t # s => sup'[t] = sup[t] /\ queue'[t] = queue[t]
  BY DEF Die, StateTypes, SupTypes, QueueTypes
<1>4. QueueTypes'
  <2>1. <<>> \in Seq(Waiters)
    OBVIOUS
  <2>2. QED
    BY <2>1 DEF Die, QueueTypes
<1>5. \A d \in Clients :
         /\ task'[d].sup = task[d].sup
         /\ task'[d].stage = IF task[d].sup = s /\ task[d].stage \in stages
                             THEN "reset" ELSE task[d].stage
         /\ task[d].sup # s => task'[d] = task[d]
  BY <1>1 DEF Reset, StateTypes, TaskTypes, TaskRecs
<1>6. ASSUME NEW d \in Clients PROVE CommandOK(d)' /\ PlaceOK(d)'
  <2>1. CommandOK(d) /\ PlaceOK(d)
    BY DEF CommandInv, PlaceInv
  <2>2. CASE task[d].sup = s
    <3>1. back'[d] = "none" /\ task'[d].sup = s
      BY <1>2, <1>5, <2>2
    <3>2. CASE task'[d].stage = "reset"
      <4>1. CommandOK(d)'
        BY <1>2, <2>1, <3>1, <3>2 DEF CommandOK
      <4>2. PlaceOK(d)'
        BY <3>1, <3>2 DEF PlaceOK, Waits
      <4>3. QED
        BY <4>1, <4>2
    <3>3. CASE task'[d].stage = task[d].stage /\ task[d].stage \notin Unanswered
      <4>1. CommandOK(d)'
        BY <1>2, <2>1, <3>1, <3>3 DEF CommandOK
      <4>2. PlaceOK(d)'
        BY <3>1, <3>3 DEF PlaceOK, Waits, Unanswered
      <4>3. QED
        BY <4>1, <4>2
    <3>4. QED
      BY <1>1, <1>5, <2>2, <3>2, <3>3
  <2>3. CASE task[d].sup # s
    <3>1. task'[d] = task[d] /\ back'[d] = back[d]
      BY <1>2, <1>5, <2>3
    <3>2. CommandOK(d)'
      BY <1>2, <2>1, <3>1, CommandSame
    <3>3. CASE task[d].sup \in Sups
      <4> DEFINE u == task[d].sup
      <4>1. sup'[u] = sup[u] /\ queue'[u] = queue[u] /\ client' = client
        BY <1>2, <1>3, <2>3, <3>3
      <4>2. PlaceOK(d)'
        BY <2>1, <3>1, <4>1 DEF PlaceOK, Waits, CellAt
      <4>3. QED
        BY <3>2, <4>2
    <3>4. CASE task[d].sup \notin Sups
      <4>1. task[d].stage = "none" /\ back[d] = "none"
        BY <3>4 DEF StateTypes, TaskTypes
      <4>2. PlaceOK(d)'
        BY <3>1, <4>1 DEF PlaceOK, Waits
      <4>3. QED
        BY <3>2, <4>2
    <3>5. QED
      BY <3>2, <3>3, <3>4
  <2>4. QED
    BY <2>2, <2>3
<1>7. QED
  BY <1>4, <1>6 DEF CommandInv, PlaceInv

(* Supervisors. *)
LEMMA SupCore == ASSUME Core, NEW s \in Sups, SupStep(s) \/ Crash(s) PROVE Core'
<1>1. StateTypes /\ StateTypes' /\ QueueTypes /\ sup[s] \in SupRecs
  BY SupStepTypes DEF Core, StateTypes, SupTypes
<1>2. ASSUME NEW p, Move(s, p), sup[s].pc \in Busy => p \in Busy
      PROVE  \A t \in Sups : sup[t].pc \in Busy => sup'[t].pc \in Busy /\ sup'[t].mem = sup[t].mem
  BY <1>1, <1>2 DEF Move, StateTypes, SupTypes, SupRecs
<1>3. ASSUME UNCHANGED <<client, task, back, queue, applied>>,
             \A t \in Sups : sup[t].pc \in Busy => sup'[t].pc \in Busy /\ sup'[t].mem = sup[t].mem
      PROVE  Core'
  <2>1. QueueTypes' /\ \A d \in Clients : QueueKept(d)
    BY <1>1, <1>3, QueueSame DEF QueueTypes
  <2>2. QED
    BY <1>1, <1>3, <2>1, OneSup
<1>4. CASE OpenLock(s)
  <2>1. /\ sup' = [sup EXCEPT ![s].pc = IF @ = "start" THEN "flock" ELSE "poll",
                              ![s].inode = lockFile']
        /\ sup[s].pc \in {"start", "handover"}
    BY <1>4 DEF OpenLock
  <2>2. \A t \in Sups : sup[t].pc \in Busy => sup'[t] = sup[t]
    BY <1>1, <2>1 DEF StateTypes, SupTypes, Busy
  <2>3. QED
    BY <1>3, <1>4, <2>2 DEF OpenLock
<1>5. CASE Flock(s) \/ Probe(s) \/ HandoverTimeout(s)
  <2>1. PICK p : Move(s, p) /\ sup[s].pc \notin Busy
    BY <1>5 DEF Flock, Probe, HandoverTimeout, Busy
  <2>2. QED
    BY <1>2, <1>3, <1>5, <2>1 DEF Flock, Probe, HandoverTimeout
<1>6. CASE OpenSession(s)
  <2>1. sup' = [sup EXCEPT ![s].pc = "opened", ![s].mem = file] /\ sup[s].pc = "own"
    BY <1>6 DEF OpenSession
  <2>2. \A t \in Sups : sup[t].pc \in Busy => sup'[t] = sup[t]
    BY <1>1, <2>1 DEF StateTypes, SupTypes, Busy
  <2>3. QED
    BY <1>3, <1>6, <2>2 DEF OpenSession
<1>7. CASE Bind(s)
  <2>1. Move(s, "serving")
    BY <1>7 DEF Bind
  <2>2. QED
    BY <1>2, <1>3, <1>7, <2>1 DEF Bind, Busy
<1>8. CASE Leave(s)
  <2>1. /\ Move(s, "drain") /\ task' = Reset(s, {"backlog"})
        /\ queue' = [queue EXCEPT ![s] = Append(queue[s], Main(s))]
        /\ UNCHANGED <<client, back, applied>>
    BY <1>8 DEF Leave
  <2>2. QueueTypes' /\ \A d \in Clients : QueueKept(d)
    BY <1>1, <2>1, QueueAppend, WaiterNames
  <2>3. \A d \in Clients : \/ task'[d] = task[d]
                           \/ /\ task[d].stage = "backlog" /\ task'[d].stage = "reset"
                              /\ task'[d].sup = task[d].sup
    BY <1>1, <2>1 DEF Reset, StateTypes, TaskTypes, TaskRecs
  <2>4. \A t \in Sups : sup[t].pc \in Busy => sup'[t].pc \in Busy /\ sup'[t].mem = sup[t].mem
    BY <1>2, <2>1 DEF Busy
  <2>5. QED
    BY <1>1, <2>1, <2>2, <2>3, <2>4, OneSup
<1>9. CASE DrainTimeout(s)
  <2>1. /\ Move(s, "interrupting") /\ UNCHANGED <<client, task, back, applied>>
        /\ queue' = [queue EXCEPT ![s] = Append(Drop(queue[s], Main(s)), Main(s))]
    BY <1>9 DEF DrainTimeout
  <2>2. QueueTypes' /\ \A d \in Clients : QueueKept(d)
    <3> DEFINE q == Drop(queue[s], Main(s))
    <3>1. /\ queue[s] \in Seq(Waiters) /\ queue'[s] = Append(q, Main(s)) /\ Main(s) \in Waiters
          /\ \A u \in Sups : u # s => queue'[u] = queue[u]
      BY <1>1, <2>1, WaiterNames DEF QueueTypes
    <3>2. /\ q \in Seq(Waiters)
          /\ \A u : u # Main(s) /\ Contains(queue[s], u) => Contains(q, u)
          /\ queue[s] # <<>> /\ Head(queue[s]) # Main(s) => q # <<>> /\ Head(q) = Head(queue[s])
      BY <3>1, DropKeeps
    <3> HIDE DEF q
    <3>3. /\ Append(q, Main(s)) \in Seq(Waiters)
          /\ \A u : Contains(q, u) => Contains(Append(q, Main(s)), u)
          /\ q # <<>> => Append(q, Main(s)) # <<>> /\ Head(Append(q, Main(s))) = Head(q)
      BY <3>1, <3>2, AppendKeeps
    <3>4. QueueTypes'
      BY <1>1, <2>1, <3>3 DEF QueueTypes, q
    <3>5. ASSUME NEW d \in Clients, NEW u \in Sups, NEW v \in {Conn(d), Back(d)}
          PROVE  /\ Contains(queue[u], v) => Contains(queue'[u], v)
                 /\ queue[u] # <<>> /\ Head(queue[u]) = v => queue'[u] # <<>> /\ Head(queue'[u]) = v
      <4>1. v # Main(s)
        BY WaiterNames
      <4>2. CASE u # s
        BY <3>1, <4>2
      <4>3. CASE u = s
        <5>1. Contains(queue[s], v) => Contains(Append(q, Main(s)), v)
          BY <3>2, <3>3, <4>1
        <5>2. queue[s] # <<>> /\ Head(queue[s]) = v =>
                Append(q, Main(s)) # <<>> /\ Head(Append(q, Main(s))) = v
          BY <3>2, <3>3, <4>1
        <5>3. QED
          BY <3>1, <4>3, <5>1, <5>2
      <4>4. QED
        BY <4>2, <4>3
    <3>6. QED
      BY <3>4, <3>5 DEF QueueKept
  <2>3. \A t \in Sups : sup[t].pc \in Busy => sup'[t].pc \in Busy /\ sup'[t].mem = sup[t].mem
    BY <1>2, <2>1 DEF Busy
  <2>4. QED
    BY <1>1, <2>1, <2>2, <2>3, OneSup
<1>10. CASE Return(s)
  <2>1. /\ Move(s, "returned") /\ UNCHANGED <<client, task, back, applied>>
        /\ queue' = [queue EXCEPT ![s] = Drop(queue[s], Main(s))]
    BY <1>10 DEF Return
  <2>2. QueueTypes' /\ \A d \in Clients : QueueKept(d)
    BY <1>1, <2>1, QueueDrop, WaiterNames
  <2>3. \A t \in Sups : sup[t].pc \in Busy => sup'[t].pc \in Busy /\ sup'[t].mem = sup[t].mem
    BY <1>2, <2>1 DEF Busy
  <2>4. QED
    BY <1>1, <2>1, <2>2, <2>3, OneSup
<1>11. CASE Exit(s) \/ Crash(s)
  BY <1>1, <1>11, DieCore DEF Exit, Crash
<1>12. QED
  BY <1>4, <1>5, <1>6, <1>7, <1>8, <1>9, <1>10, <1>11 DEF SupStep

(* The invariant that knows where every request and every cell stands holds *)
(* where an edit waits for the detached cells before it inserts its own.    *)
LEMMA CoreHolds == ASSUME "shift" \notin Allowed PROVE Spec => []Core
<1>1. Init => Core
  <2> SUFFICES ASSUME Init PROVE Core
    OBVIOUS
  <2>1. \A c \in Clients : /\ client[c].pc = "idle" /\ task[c].stage = "none"
                           /\ back[c] = "none" /\ applied[c] = 0
    BY DEF Init
  <2>2. CommandInv
    BY <2>1 DEF CommandInv, CommandOK
  <2>3. PlaceInv
    BY <2>1 DEF PlaceInv, PlaceOK, Waits
  <2>4. QED
    BY <2>2, <2>3, InitTypes DEF Core
<1>2. Core /\ [Next]_vars => Core'
  <2> SUFFICES ASSUME Core, [Next]_vars PROVE Core'
    OBVIOUS
  <2>1. CASE UNCHANGED vars
    BY <2>1 DEF vars, Core, StateTypes, ClientTypes, SupTypes, TaskTypes, FileTypes, QueueTypes,
       CommandInv, CommandOK, PlaceInv, PlaceOK, Waits, CellAt
  <2>2. CASE Next
    BY <2>2, ClientCore, TaskCore, SupCore DEF Next
  <2>3. QED
    BY <2>1, <2>2
<1>3. QED
  BY <1>1, <1>2, PTL DEF Spec

(* Every variable has its type: the queues too, which the tasks leave from  *)
(* their head only when they are there (dispatch, run_detached).            *)
THEOREM TypeCorrect == ASSUME "shift" \notin Allowed PROVE Spec => []TypeOK
<1>1. Core => TypeOK
  BY TypeParts DEF Core
<1>2. QED
  BY <1>1, CoreHolds, PTL

(* No command acts twice (round_trip, is_repeatable, dispatch): not when it *)
(* is retried, when its supervisor dies or leaves between the act and the   *)
(* answer, nor when a detached cell runs after its answer; where an edit    *)
(* waits for the detached cells before it inserts its own.                  *)
THEOREM CommandsOnce == ASSUME "shift" \notin Allowed PROVE Spec => []ActsOnce
<1>1. Core => ActsOnce
  BY DEF Core, CommandInv, CommandOK, ActsOnce
<1>2. QED
  BY <1>1, CoreHolds, PTL

-----------------------------------------------------------------------------
(***************************************************************************)
(* What was answered is in the file.                                       *)
(***************************************************************************)
(* What the file has for a command that was told, or is about to be.       *)
Told(c) ==
    /\ "ok" \in {task[c].stage, client[c].result} =>
          /\ client[c].kind = "exec" => HasOut(c)
          /\ client[c].kind \in {"detach", "edit"} => Has(c)
    /\ back[c] = "done" => HasOut(c)

FileKept == \A d \in Clients : (Has(d) => Has(d)') /\ (HasOut(d) => HasOut(d)')

Safe == Core /\ OwnerInv /\ SweepInv /\ FileInv

(* Writes that lose no cell. *)
LEMMA ExtendedFile == ASSUME Extends(file, file') PROVE FileKept
BY DEF Extends, FileKept, Has, HasOut

(* A cell inserted at the front loses none behind it. *)
LEMMA InsertedFile ==
    ASSUME FileTypes, NEW c \in Clients, file' = <<Cell(c)>> \o file PROVE FileKept /\ Has(c)'
<1>1. /\ 1 \in DOMAIN file' /\ file'[1].id = c
      /\ \A k \in DOMAIN file : k + 1 \in DOMAIN file' /\ file'[k + 1] = file[k]
  BY InsertCells DEF FileTypes
<1>2. QED
  BY <1>1 DEF FileKept, Has, HasOut

(* A file that is not written keeps its cells. *)
LEMMA SameFile == ASSUME file' = file PROVE FileKept
BY DEF FileKept, Has, HasOut

(* A command that learns nothing. *)
LEMMA ToldSame ==
    ASSUME FileKept, NEW d \in Clients, Told(d), client'[d].kind = client[d].kind,
           "ok" \in {task'[d].stage, client'[d].result} => "ok" \in {task[d].stage, client[d].result},
           back'[d] = "done" => back[d] = "done"
    PROVE  Told(d)'
BY DEF FileKept, Told

(* The parts of the invariant. *)
LEMMA FileParts ==
    FileInv <=>
        /\ \A s \in Sups : sup[s].pc \in Holding => file = sup[s].mem /\ ~Doing({"edit"})
        /\ \A c, d \in Clients : client[c].pc = "edit" =>
              client[c].copy = <<Cell(c)>> \o file /\ (client[d].pc = "edit" => c = d)
        /\ \A c \in Clients : Told(c)
BY DEF FileInv, Told

(* Where nobody writes to the file, and nobody starts to edit it. *)
LEMMA FileStays ==
    ASSUME FileInv, file' = file,
           \A t \in Sups : sup'[t].pc \in Holding =>
               \/ sup[t].pc \in Holding /\ sup'[t].mem = sup[t].mem
               \/ sup'[t].mem = file /\ ~Doing({"edit"}),
           \A d \in Clients : client'[d].pc = "edit" => client'[d] = client[d],
           \A d \in Clients : Told(d)'
    PROVE  FileInv'
<1>1. ~Doing({"edit"}) => ~Doing({"edit"})'
  BY DEF Doing
<1>2. ASSUME NEW t \in Sups, sup'[t].pc \in Holding PROVE file' = sup'[t].mem /\ ~Doing({"edit"})'
  BY <1>1, <1>2, FileParts
<1>3. ASSUME NEW c \in Clients, NEW d \in Clients, client'[c].pc = "edit"
      PROVE  client'[c].copy = <<Cell(c)>> \o file' /\ (client'[d].pc = "edit" => c = d)
  BY <1>3, FileParts
<1>4. QED
  BY <1>2, <1>3 DEF FileInv, Told

(* The supervisor that has the notebook writes it. *)
LEMMA FileSaved ==
    ASSUME StateTypes, OwnerInv, FileInv, NEW s \in Sups, sup[s].pc \in Holding, NEW cells,
           Save(s, cells), client' = client, \A d \in Clients : Told(d)'
    PROVE  FileInv'
<1>1. SamePlaces /\ sup'[s].mem = cells /\ file' = cells
  BY SavePlaces DEF StateTypes
<1>2. ~Doing({"edit"}) /\ ~Doing({"edit"})' /\ \A c \in Clients : client'[c].pc # "edit"
  BY FileParts DEF Doing
<1>3. ASSUME NEW t \in Sups, sup'[t].pc \in Holding PROVE t = s
  <2>1. sup[t].pc \in Holding
    BY <1>1, <1>3 DEF SamePlaces
  <2>2. sup[t].pc \in Owning /\ sup[s].pc \in Owning
    BY <2>1 DEF Holding, Owning
  <2>3. QED
    BY <2>2 DEF OwnerInv
<1>4. \A t \in Sups : sup'[t].pc \in Holding => file' = sup'[t].mem /\ ~Doing({"edit"})'
  BY <1>1, <1>2, <1>3
<1>5. QED
  BY <1>2, <1>4 DEF FileInv, Told

(* A task that runs belongs to a supervisor that has the notebook. *)
LEMMA AliveHolds ==
    ASSUME "late" \notin Allowed, NEW s, Alive(s) PROVE sup[s].pc \in Holding
BY DEF Alive, Holding

(* Tasks. *)
LEMMA TaskFile ==
    ASSUME Safe, "late" \notin Allowed, NEW c \in Clients, TaskStep(c) PROVE FileInv'
<1> DEFINE s == task[c].sup
           Quiet == \A d \in Clients : d # c => task'[d] = task[d] /\ back'[d] = back[d]
<1>1. StateTypes /\ OwnerInv /\ FileInv /\ CommandOK(c) /\ PlaceOK(c) /\ \A d \in Clients : Told(d)
  BY FileParts DEF Safe, Core, CommandInv, PlaceInv
<1>2. client' = client /\ SamePlaces
  BY <1>1, TaskPlaces
<1>3. \A t \in Sups : sup[t].mem \in Seq(Cells)
  BY <1>1 DEF StateTypes, SupTypes, SupRecs
<1>4. s \in Sups => (Alive(s) => sup[s].pc \in Holding /\ file = sup[s].mem)
  BY <1>1, AliveHolds, FileParts
<1>5. task[c].stage # "none" \/ back[c] # "none" => s \in Sups
  BY <1>1 DEF StateTypes, TaskTypes
<1>6. ASSUME NEW stage, Answer(c, stage)
      PROVE  task'[c].stage = stage /\ \A d \in Clients : d # c => task'[d] = task[d]
  BY <1>1, <1>6 DEF Answer, StateTypes, TaskTypes, TaskRecs
<1>7. ASSUME FileKept, Quiet PROVE \A d \in Clients : d # c => Told(d)'
  <2> SUFFICES ASSUME NEW d \in Clients, d # c PROVE Told(d)'
    OBVIOUS
  <2>1. task'[d] = task[d] /\ back'[d] = back[d] /\ client'[d] = client[d]
    BY <1>2, <1>7
  <2>2. QED
    BY <1>1, <1>7, <2>1, ToldSame
\* Steps that write nothing.
<1>8. ASSUME file' = file, \A t \in Sups : sup'[t].mem = sup[t].mem, Quiet, Told(c)'
      PROVE  FileInv'
  <2>1. \A d \in Clients : Told(d)'
    BY <1>7, <1>8, SameFile
  <2>2. \A t \in Sups : sup'[t].pc \in Holding => sup[t].pc \in Holding /\ sup'[t].mem = sup[t].mem
    BY <1>2, <1>8 DEF SamePlaces
  <2>3. QED
    BY <1>1, <1>2, <1>8, <2>1, <2>2, FileStays
<1>9. ASSUME file' = file, \A t \in Sups : sup'[t].mem = sup[t].mem, back' = back,
             NEW stage, Answer(c, stage),
             stage = "ok" => client[c].kind \notin {"exec", "detach", "edit"}
      PROVE  FileInv'
  <2>1. task'[c].stage = stage /\ Quiet
    BY <1>6, <1>9
  <2>2. Told(c)'
    <3>1. FileKept
      BY <1>9, SameFile
    <3>2. QED
      BY <1>1, <1>2, <1>9, <2>1, <3>1 DEF Told, FileKept
  <2>3. QED
    BY <1>8, <1>9, <2>1, <2>2
\* Steps that write.
<1>10. ASSUME s \in Sups, Alive(s), NEW cells, Save(s, cells), FileKept, Quiet, Told(c)'
       PROVE  FileInv'
  <2>1. \A d \in Clients : Told(d)'
    BY <1>7, <1>10
  <2>2. QED
    BY <1>1, <1>2, <1>4, <1>10, <2>1, FileSaved
<1>11. CASE Accept(c) \/ DispatchBusy(c) \/ DispatchWait(c) \/ EditTimeout(c)
  <2>1. UNCHANGED <<sup, file, back>>
    BY <1>11 DEF Accept, DispatchBusy, DispatchWait, EditTimeout
  <2>2. PICK stage : stage # "ok" /\ Answer(c, stage)
    BY <1>11 DEF Accept, DispatchBusy, DispatchWait, EditTimeout
  <2>3. QED
    BY <1>9, <2>1, <2>2
<1>12. CASE DispatchAtOnce(c)
  <2>1. /\ sup' = [sup EXCEPT ![s].stop = sup[s].stop \/ client[c].kind = "stop"]
        /\ Answer(c, "ok") /\ UNCHANGED <<file, back>>
        /\ client[c].kind \notin {"exec", "detach", "edit"}
    BY <1>12 DEF DispatchAtOnce
  <2>2. \A t \in Sups : sup'[t].mem = sup[t].mem
    BY <1>1, <2>1 DEF StateTypes, SupTypes, SupRecs
  <2>3. QED
    BY <1>9, <2>1, <2>2
<1>13. CASE Granted(c)
  <2>1. task[c].stage = "queued" /\ Alive(s) /\ s \in Sups /\ back' = back
    BY <1>5, <1>13 DEF Granted, At
  <2>2. sup[s].mem = file /\ file \in Seq(Cells) /\ FileTypes
    BY <1>1, <1>4, <2>1 DEF StateTypes, FileTypes
  <2>3. CASE client[c].kind = "edit" /\ Save(s, <<Cell(c)>> \o sup[s].mem) /\ Answer(c, "ok")
    <3>1. file' = <<Cell(c)>> \o file
      BY <2>2, <2>3 DEF Save
    <3>2. FileKept /\ Has(c)'
      BY <2>2, <3>1, InsertedFile
    <3>3. Told(c)'
      BY <1>1, <1>2, <2>1, <2>3, <3>2 DEF Told, FileKept
    <3>4. QED
      BY <1>6, <1>10, <2>1, <2>3, <3>2, <3>3
  <2>4. CASE client[c].kind = "restart" /\ Save(s, ClearOutputs(sup[s].mem)) /\ Answer(c, "ok")
    <3>1. file' = ClearOutputs(file)
      BY <2>2, <2>4 DEF Save
    <3>2. FileKept
      BY <2>2, <3>1, ClearCells, ExtendedFile
    <3>3. Told(c)'
      BY <1>1, <1>2, <2>1, <2>4, <3>2 DEF Told, FileKept
    <3>4. QED
      BY <1>6, <1>10, <2>1, <2>4, <3>2, <3>3
  <2>5. CASE /\ UNCHANGED <<sup, file, applied>>
             /\ \/ client[c].kind = "ask" /\ Answer(c, "ok")
                \/ Answer(c, "error")
    BY <1>9, <2>1, <2>5
  <2>6. QED
    BY <1>13, <2>3, <2>4, <2>5 DEF Granted
<1>14. CASE DispatchRun(c)
  <2>1. /\ task[c].stage = "accepted" /\ Alive(s) /\ s \in Sups /\ back' = back
        /\ client[c].kind \in {"exec", "run"}
    BY <1>5, <1>14 DEF DispatchRun, Asked, At
  <2>2. sup[s].mem = file /\ file \in Seq(Cells)
    BY <1>1, <1>4, <2>1 DEF StateTypes, FileTypes
  <2>3. ASSUME NEW k, task' = [task EXCEPT ![c].stage = "running", ![c].index = k], FileKept
        PROVE  Quiet /\ Told(c)'
    <3>1. Quiet /\ task'[c].stage = "running"
      BY <1>1, <2>1, <2>3 DEF StateTypes, TaskTypes, TaskRecs
    <3>2. Told(c)'
      BY <1>1, <1>2, <2>1, <2>3, <3>1 DEF Told, FileKept
    <3>3. QED
      BY <3>1, <3>2
  <2>4. CASE client[c].kind = "exec"
    <3>1. /\ Save(s, Append(sup[s].mem, Cell(c)))
          /\ task' = [task EXCEPT ![c].stage = "running", ![c].index = Len(sup[s].mem) + 1]
      BY <1>14, <2>4 DEF DispatchRun
    <3>2. file' = Append(file, Cell(c))
      BY <2>2, <3>1 DEF Save
    <3>3. FileKept
      BY <2>2, <3>2, AppendCells, ExtendedFile
    <3>4. QED
      BY <1>10, <2>1, <2>3, <3>1, <3>3
  <2>5. CASE client[c].kind # "exec" /\ sup[s].mem = <<>>
    BY <1>9, <1>14, <2>1, <2>5 DEF DispatchRun
  <2>6. CASE client[c].kind # "exec" /\ sup[s].mem # <<>>
    <3>1. /\ UNCHANGED <<sup, file>>
          /\ task' = [task EXCEPT ![c].stage = "running", ![c].index = 1]
      BY <1>14, <2>6 DEF DispatchRun
    <3>2. QED
      BY <1>8, <2>3, <3>1, SameFile
  <2>7. QED
    BY <2>4, <2>5, <2>6
<1>15. ASSUME Alive(s), s \in Sups, CellAt(c), Save(s, SetOut(sup[s].mem, task[c].index, "out"))
       PROVE  FileKept /\ HasOut(c)'
  <2> DEFINE k == task[c].index
  <2>1. sup[s].mem = file /\ file \in Seq(Cells) /\ k \in Nat
    BY <1>1, <1>4, <1>15 DEF StateTypes, FileTypes, TaskTypes, TaskRecs
  <2>2. k \in DOMAIN file /\ file[k].id = c
    BY <1>15, <2>1 DEF CellAt
  <2>3. file' = SetOut(file, k, "out")
    BY <1>15, <2>1 DEF Save
  <2>4. Extends(file, file') /\ file'[k].id = c /\ file'[k].out = "out"
    BY <2>1, <2>2, <2>3, SetOutCells
  <2>5. k \in DOMAIN file'
    BY <2>2, <2>4 DEF Extends
  <2>6. QED
    BY <2>4, <2>5, ExtendedFile DEF HasOut
<1>16. CASE CellEnds(c)
  <2>1. task[c].stage = "running" /\ Alive(s) /\ s \in Sups /\ back' = back
    BY <1>5, <1>16 DEF CellEnds, At
  <2>2. CASE Save(s, SetOut(sup[s].mem, task[c].index, "out")) /\ Answer(c, "ok")
    <3>1. CASE client[c].kind = "exec"
      <4>1. CellAt(c)
        BY <1>1, <2>1, <3>1 DEF PlaceOK
      <4>2. FileKept /\ HasOut(c)'
        BY <1>15, <2>1, <2>2, <4>1
      <4>3. Told(c)'
        BY <1>1, <1>2, <2>1, <3>1, <4>2 DEF Told
      <4>4. QED
        BY <1>6, <1>10, <2>1, <2>2, <4>2, <4>3
    <3>2. CASE client[c].kind # "exec"
      <4>1. sup[s].mem = file /\ file \in Seq(Cells) /\ task[c].index \in Nat
        BY <1>1, <1>4, <2>1 DEF StateTypes, FileTypes, TaskTypes, TaskRecs
      <4>2. file' = SetOut(file, task[c].index, "out")
        BY <2>2, <4>1 DEF Save
      <4>3. FileKept
        BY <4>1, <4>2, SetOutCells, ExtendedFile
      <4>4. client[c].kind = "run"
        BY <1>1, <2>1, <3>2 DEF CommandOK
      <4>5. Told(c)'
        BY <1>1, <1>2, <2>1, <4>3, <4>4 DEF Told, FileKept
      <4>6. QED
        BY <1>6, <1>10, <2>1, <2>2, <4>3, <4>5
    <3>3. QED
      BY <3>1, <3>2
  <2>3. CASE Answer(c, "error") /\ UNCHANGED <<sup, file>>
    BY <1>9, <2>1, <2>3
  <2>4. QED
    BY <1>16, <2>2, <2>3 DEF CellEnds
<1>17. CASE DispatchDetached(c)
  <2> DEFINE k == Len(sup[s].mem) + 1
  <2>1. /\ task[c].stage = "accepted" /\ Alive(s) /\ s \in Sups /\ client[c].kind = "detach"
        /\ Save(s, Append(sup[s].mem, Cell(c))) /\ back' = [back EXCEPT ![c] = "spawned"]
        /\ task' = [task EXCEPT ![c].stage = "ok", ![c].index = k]
    BY <1>5, <1>17 DEF DispatchDetached, Asked, At
  <2>2. sup[s].mem = file /\ file \in Seq(Cells)
    BY <1>1, <1>4, <2>1 DEF StateTypes, FileTypes
  <2>3. file' = Append(file, Cell(c)) /\ k = Len(file) + 1
    BY <2>1, <2>2 DEF Save
  <2>4. FileKept /\ Has(c)'
    <3>1. Extends(file, file') /\ k \in DOMAIN file' /\ file'[k].id = c
      BY <2>2, <2>3, AppendCells
    <3> HIDE DEF k
    <3>2. QED
      BY <3>1, ExtendedFile DEF Has
  <2>5. Quiet /\ back'[c] = "spawned"
    BY <1>1, <2>1 DEF StateTypes, TaskTypes, TaskRecs
  <2>6. Told(c)'
    BY <1>2, <2>1, <2>4, <2>5 DEF Told
  <2>7. QED
    BY <1>10, <2>1, <2>4, <2>5, <2>6
<1>18. CASE BackgroundLock(c) \/ BackgroundRun(c)
  <2>1. UNCHANGED <<sup, file, task>> /\ \E b \in {"queued", "running"} : back' = [back EXCEPT ![c] = b]
    BY <1>18 DEF BackgroundLock, BackgroundRun
  <2>2. Quiet /\ back'[c] # "done"
    BY <1>1, <2>1 DEF StateTypes, TaskTypes
  <2>3. Told(c)'
    BY <1>1, <1>2, <2>1, <2>2, SameFile, ToldSame
  <2>4. QED
    BY <1>8, <2>1, <2>2, <2>3
<1>19. CASE BackgroundEnds(c)
  <2>1. /\ back[c] = "running" /\ Alive(s) /\ s \in Sups /\ task' = task
        /\ Save(s, SetOut(sup[s].mem, task[c].index, "out")) /\ back' = [back EXCEPT ![c] = "done"]
    BY <1>5, <1>19 DEF BackgroundEnds
  <2>2. CellAt(c)
    BY <1>1, <2>1 DEF PlaceOK
  <2>3. FileKept /\ HasOut(c)' /\ Has(c)'
    BY <1>15, <2>1, <2>2 DEF HasOut, Has
  <2>4. Quiet
    BY <1>1, <2>1 DEF StateTypes, TaskTypes
  <2>5. Told(c)'
    BY <2>3 DEF Told
  <2>6. QED
    BY <1>10, <2>1, <2>3, <2>4, <2>5
<1>20. QED
  BY <1>11, <1>12, <1>13, <1>14, <1>16, <1>17, <1>18, <1>19 DEF TaskStep

(* Only `ls` sweeps. *)
LEMMA SweepHolds == Spec => []SweepInv
<1>1. Init => SweepInv
  <2> SUFFICES ASSUME Init PROVE SweepInv
    OBVIOUS
  <2>1. \A c \in Clients : client[c].pc = "idle"
    BY DEF Init
  <2>2. QED
    BY <2>1 DEF SweepInv
<1>2. StateTypes /\ SweepInv /\ [Next]_vars => SweepInv'
  <2> SUFFICES ASSUME StateTypes, SweepInv, [Next]_vars PROVE SweepInv'
    OBVIOUS
  <2>1. CASE UNCHANGED client
    BY <2>1 DEF SweepInv
  <2>2. ASSUME NEW c \in Clients, ClientStep(c) PROVE SweepInv'
    <3> DEFINE Swept == client'[c].pc \in {"unlink socket", "unlink lock"}
    <3>1. ASSUME NEW d \in Clients
          PROVE  d # c => client'[d] = client[d]
      BY <2>2, <3>1 DEF ClientStep, Begin, Connect, Spawn, Spawned, Reconnect, Retry, Write, Read,
         ReadForEdit, WriteEdit, List, UnlinkSocket, UnlinkLock, Finish, StateTypes, ClientTypes
    <3>2. client[c] \in ClientRecs
      BY DEF StateTypes, ClientTypes
    <3>3. client'[c].kind = client[c].kind
      <4>1. ASSUME NEW p, client' = [client EXCEPT ![c].pc = p] PROVE client'[c].kind = client[c].kind
        BY <3>2, <4>1 DEF StateTypes, ClientTypes, ClientRecs
      <4>2. ASSUME NEW e, Finish(c, e) PROVE client'[c].kind = client[c].kind
        BY <3>2, <4>2 DEF StateTypes, ClientTypes, ClientRecs, Finish
      <4>3. ASSUME NEW b, Retry(c, b) PROVE client'[c].kind = client[c].kind
        BY <4>3, RetryMoves DEF StateTypes
      <4>4. CASE ReadForEdit(c)
        BY <3>2, <4>4 DEF ReadForEdit, StateTypes, ClientTypes, ClientRecs
      <4>5. CASE Begin(c) \/ Connect(c) \/ Spawn(c) \/ Spawned(c)
        BY <4>1, <4>2, <4>5 DEF Begin, Connect, Spawn, Spawned
      <4>6. CASE Reconnect(c) \/ Write(c) \/ Read(c)
        BY <4>1, <4>2, <4>3, <4>6 DEF Reconnect, Write, Read
      <4>7. CASE WriteEdit(c) \/ List(c) \/ UnlinkSocket(c) \/ UnlinkLock(c)
        BY <4>1, <4>2, <4>7 DEF WriteEdit, List, UnlinkSocket, UnlinkLock
      <4>8. QED
        BY <2>2, <4>4, <4>5, <4>6, <4>7 DEF ClientStep
    <3>4. CASE List(c)
      BY <3>1, <3>3, <3>4 DEF List, SweepInv
    <3>5. CASE UnlinkSocket(c)
      <4>1. client[c].kind = "ls"
        BY <3>5 DEF UnlinkSocket, SweepInv
      <4>2. QED
        BY <3>1, <3>3, <4>1 DEF SweepInv
    <3>6. CASE ~List(c) /\ ~UnlinkSocket(c)
      <4>1. ~Swept
        <5>1. ASSUME NEW p, client' = [client EXCEPT ![c].pc = p] PROVE client'[c].pc = p
          BY <3>2, <5>1 DEF StateTypes, ClientTypes, ClientRecs
        <5>2. ASSUME NEW e, Finish(c, e) PROVE client'[c].pc = "done"
          BY <3>2, <5>2 DEF StateTypes, ClientTypes, ClientRecs, Finish
        <5>3. ASSUME NEW b, Retry(c, b) PROVE client'[c].pc \in {"connect", "done"}
          BY <3>2, <5>2, <5>3 DEF Retry, StateTypes, ClientTypes, ClientRecs
        <5>4. CASE ReadForEdit(c)
          BY <3>2, <5>4 DEF ReadForEdit, StateTypes, ClientTypes, ClientRecs
        <5>5. CASE Begin(c) \/ Connect(c) \/ Spawn(c) \/ Spawned(c)
          BY <5>1, <5>2, <5>5 DEF Begin, Connect, Spawn, Spawned
        <5>6. CASE Reconnect(c) \/ Write(c) \/ Read(c)
          BY <5>1, <5>2, <5>3, <5>6 DEF Reconnect, Write, Read
        <5>7. CASE WriteEdit(c) \/ UnlinkLock(c)
          BY <5>2, <5>7 DEF WriteEdit, UnlinkLock
        <5>8. QED
          BY <2>2, <3>6, <5>4, <5>5, <5>6, <5>7 DEF ClientStep
      <4>2. QED
        BY <3>1, <4>1 DEF SweepInv
    <3>7. QED
      BY <3>4, <3>5, <3>6
  <2>3. ASSUME NEW c \in Clients, TaskStep(c) PROVE UNCHANGED client
    BY <2>3, TaskPlaces
  <2>4. ASSUME NEW s \in Sups, SupStep(s) \/ Crash(s) PROVE UNCHANGED client
    BY <2>4 DEF SupStep, OpenLock, Flock, Probe, HandoverTimeout, OpenSession, Bind, Leave,
       DrainTimeout, Return, Exit, Crash, Die
  <2>5. CASE Next
    BY <2>1, <2>2, <2>3, <2>4, <2>5 DEF Next
  <2>6. QED
    BY <2>1, <2>5 DEF vars
<1>3. QED
  BY <1>1, <1>2, TypesHold, PTL DEF Spec

(* Clients. *)
LEMMA ClientFile ==
    ASSUME Safe, "edit file" \notin Allowed, NEW c \in Clients, ClientStep(c) PROVE FileInv'
<1> DEFINE Others == \A d \in Clients : d # c => client'[d] = client[d]
           SameSups == \A t \in Sups : sup'[t].pc \in Holding =>
                          sup[t].pc \in Holding /\ sup'[t].mem = sup[t].mem
<1>1. StateTypes /\ ClientTypes /\ FileInv /\ \A d \in Clients : Told(d)
  BY FileParts DEF Safe, Core, StateTypes
<1>2. ASSUME file' = file, back' = back, Others, SameSups, client'[c].pc # "edit",
             client'[c].kind = client[c].kind,
             \A d \in Clients : task'[d].stage = "ok" => task[d].stage = "ok",
             client'[c].result = "ok" => \/ "ok" \in {task[c].stage, client[c].result}
                                         \/ client[c].kind = "ls"
      PROVE  FileInv'
  <2>1. FileKept
    BY <1>2, SameFile
  <2>2. ASSUME NEW d \in Clients, d # c PROVE Told(d)'
    <3>1. client'[d] = client[d] /\ back'[d] = back[d]
          /\ (task'[d].stage = "ok" => task[d].stage = "ok")
      BY <1>2, <2>2
    <3>2. QED
      BY <1>1, <2>1, <3>1, ToldSame
  <2>3. Told(c)'
    <3>1. Told(c) /\ (Has(c) => Has(c)') /\ (HasOut(c) => HasOut(c)')
      BY <1>1, <2>1 DEF FileKept
    <3>2. task'[c].stage = "ok" => task[c].stage = "ok"
      BY <1>2
    <3>3. QED
      BY <1>2, <3>1, <3>2 DEF Told
  <2>4. \A d \in Clients : client'[d].pc = "edit" => client'[d] = client[d]
    BY <1>2
  <2>5. QED
    BY <1>1, <1>2, <2>2, <2>3, <2>4, FileStays
<1>3. ASSUME UNCHANGED <<file, back, task, sup>>, Others, client'[c].pc # "edit",
             client'[c].kind = client[c].kind,
             client'[c].result = "ok" => \/ "ok" \in {task[c].stage, client[c].result}
                                         \/ client[c].kind = "ls"
      PROVE  FileInv'
  BY <1>2, <1>3
<1>4. ASSUME NEW pc, client' = [client EXCEPT ![c].pc = pc]
       PROVE  /\ Others /\ client'[c].kind = client[c].kind
              /\ client'[c].pc = pc /\ client'[c].result = client[c].result
  BY <1>1, <1>4 DEF ClientTypes, ClientRecs
<1>5. ASSUME NEW r, Finish(c, r)
       PROVE  /\ Others /\ client'[c].kind = client[c].kind
              /\ client'[c].pc = "done" /\ client'[c].result = r
  BY <1>1, <1>5 DEF Finish, ClientTypes, ClientRecs
<1>6. ASSUME NEW delivered, Retry(c, delivered)
       PROVE  /\ Others /\ client'[c].kind = client[c].kind
              /\ client'[c].pc # "edit" /\ client'[c].result \in {client[c].result, "lost"}
  <2>1. CASE client' = [client EXCEPT ![c].pc = "connect", ![c].attempt = 2]
    BY <1>1, <2>1 DEF ClientTypes, ClientRecs
  <2>2. CASE Finish(c, "lost")
    BY <1>5, <2>2
  <2>3. QED
    BY <1>6, <2>1, <2>2 DEF Retry
<1> DEFINE Still == UNCHANGED <<file, back, task, sup>>
<1>7. ASSUME NEW pc, client' = [client EXCEPT ![c].pc = pc], pc # "edit", Still PROVE FileInv'
  <2>1. /\ Others /\ client'[c].kind = client[c].kind
        /\ client'[c].pc = pc /\ client'[c].result = client[c].result
    BY <1>4, <1>7
  <2>2. QED
    BY <1>3, <1>7, <2>1
<1>8. ASSUME NEW r, Finish(c, r), Still,
              r = "ok" => "ok" \in {task[c].stage, client[c].result} \/ client[c].kind = "ls"
       PROVE  FileInv'
  <2>1. /\ Others /\ client'[c].kind = client[c].kind
        /\ client'[c].pc = "done" /\ client'[c].result = r
    BY <1>5, <1>8
  <2>2. QED
    BY <1>3, <1>8, <2>1
<1>9. ASSUME NEW delivered, Retry(c, delivered), Still PROVE FileInv'
  <2>1. /\ Others /\ client'[c].kind = client[c].kind
        /\ client'[c].pc # "edit" /\ client'[c].result \in {client[c].result, "lost"}
    BY <1>6, <1>9
  <2>2. QED
    BY <1>3, <1>9, <2>1
<1>10. ASSUME UNCHANGED <<file, back, sup>>, client' = [client EXCEPT ![c].pc = "write"],
             task' = [task EXCEPT ![c] = [sup |-> sockFile, stage |-> "backlog", index |-> 0]]
      PROVE  FileInv'
  <2>1. \A d \in Clients : task'[d].stage = "ok" => task[d].stage = "ok"
    BY <1>1, <1>10 DEF StateTypes, TaskTypes
  <2>2. QED
    <3>1. /\ Others /\ client'[c].kind = client[c].kind
          /\ client'[c].pc = "write" /\ client'[c].result = client[c].result
      BY <1>10, <1>4
    <3>2. QED
      BY <1>2, <1>10, <2>1, <3>1
<1>11. CASE Begin(c)
  <2>1. Still
    BY <1>11 DEF Begin
  <2>2. CASE Finish(c, "none")
    BY <1>8, <2>1, <2>2
  <2>3. CASE client' = [client EXCEPT ![c].pc = "connect"]
    BY <1>7, <2>1, <2>3
  <2>4. QED
    BY <1>11, <2>2, <2>3 DEF Begin
<1>12. CASE Connect(c)
  BY <1>10, <1>12 DEF Connect
<1>13. CASE Spawn(c)
  <2>1. client' = [client EXCEPT ![c].pc = "spawned"] /\ UNCHANGED <<file, back, task>>
    BY <1>13 DEF Spawn
  <2>2. PICK s \in Sups : sup' = [sup EXCEPT ![s].pc = "start"]
    BY <1>13 DEF Spawn
  <2>3. SameSups
    BY <1>1, <2>2 DEF StateTypes, SupTypes, SupRecs, Holding
  <2>4. QED
    <3>1. /\ Others /\ client'[c].kind = client[c].kind
          /\ client'[c].pc = "spawned" /\ client'[c].result = client[c].result
      BY <1>4, <2>1
    <3>2. QED
      BY <1>2, <2>1, <2>3, <3>1
<1>14. CASE Spawned(c)
  <2>1. Still
    BY <1>14 DEF Spawned
  <2>2. CASE Finish(c, "timeout")
    BY <1>8, <2>1, <2>2
  <2>3. CASE client' = [client EXCEPT ![c].pc = "reconnect"]
    BY <1>7, <2>1, <2>3
  <2>4. QED
    BY <1>14, <2>2, <2>3 DEF Spawned
<1>15. CASE Reconnect(c)
  <2>1. CASE Listening
    BY <1>10, <1>15, <2>1 DEF Reconnect
  <2>2. CASE ~Listening
    BY <1>15, <1>9, <2>2 DEF Reconnect
  <2>3. QED
    BY <2>1, <2>2
<1>16. CASE Write(c)
  <2>1. Still
    BY <1>16 DEF Write
  <2>2. CASE Retry(c, FALSE)
    BY <1>9, <2>1, <2>2
  <2>3. CASE client' = [client EXCEPT ![c].pc = "read"]
    BY <1>7, <2>1, <2>3
  <2>4. QED
    BY <1>16, <2>2, <2>3 DEF Write
<1>17. CASE Read(c)
  <2>1. Still
    BY <1>17 DEF Read
  <2>2. CASE Finish(c, task[c].stage)
    BY <1>8, <2>1, <2>2
  <2>3. CASE Retry(c, TRUE)
    BY <1>9, <2>1, <2>3
  <2>4. QED
    BY <1>17, <2>2, <2>3 DEF Read
\* Nobody has the notebook open, and nobody else edits it.
<1>18. CASE ReadForEdit(c)
  <2>1. /\ client' = [client EXCEPT ![c].pc = "edit", ![c].copy = <<Cell(c)>> \o file]
        /\ UNCHANGED <<sup, task, back, file>>
        /\ ~Doing({"edit"}) /\ \A s \in Sups : sup[s].pc \notin Holding
    BY <1>18 DEF ReadForEdit
  <2>2. /\ Others /\ client'[c].kind = client[c].kind /\ client'[c].result = client[c].result
        /\ client'[c].pc = "edit" /\ client'[c].copy = <<Cell(c)>> \o file
    BY <1>1, <2>1 DEF ClientTypes, ClientRecs
  <2>3. \A d \in Clients : client[d].pc # "edit"
    BY <2>1 DEF Doing
  <2>4. ASSUME NEW d \in Clients PROVE Told(d)'
    <3>1. /\ client'[d].kind = client[d].kind /\ client'[d].result = client[d].result
          /\ task'[d] = task[d] /\ back'[d] = back[d]
      BY <2>1, <2>2
    <3>2. QED
      BY <1>1, <2>1, <3>1, SameFile, ToldSame
  <2>5. ASSUME NEW d \in Clients, client'[d].pc = "edit" PROVE d = c
    BY <2>2, <2>3, <2>5
  <2>6. \A s \in Sups : sup'[s].pc \notin Holding
    BY <2>1
  <2>7. QED
    BY <2>1, <2>2, <2>4, <2>5, <2>6 DEF FileInv, Told
<1>19. CASE WriteEdit(c)
  <2>1. /\ client[c].pc = "edit" /\ file' = client[c].copy /\ Finish(c, "ok")
        /\ UNCHANGED <<sup, task, back>>
    BY <1>19 DEF WriteEdit
  <2>2. /\ Others /\ client'[c].kind = client[c].kind /\ client'[c].pc = "done"
        /\ client'[c].result = "ok"
    BY <1>5, <2>1
  <2>3. /\ file' = <<Cell(c)>> \o file /\ \A d \in Clients : client[d].pc = "edit" => d = c
        /\ client[c].kind = "edit"
    BY <1>1, <2>1, FileParts DEF Safe, Core, CommandInv, CommandOK
  <2>4. FileKept /\ Has(c)'
    BY <1>1, <2>3, InsertedFile DEF StateTypes
  <2>5. ASSUME NEW d \in Clients PROVE Told(d)'
    <3>1. CASE d = c
      BY <1>1, <2>1, <2>2, <2>3, <2>4, <3>1 DEF Told, FileKept
    <3>2. CASE d # c
      BY <1>1, <2>1, <2>2, <2>4, <3>2, ToldSame
    <3>3. QED
      BY <3>1, <3>2
  <2>6. \A d \in Clients : client'[d].pc # "edit"
    BY <2>2, <2>3
  <2>7. \A s \in Sups : sup'[s].pc \notin Holding
    <3>1. Doing({"edit"})
      BY <2>1 DEF Doing
    <3>2. QED
      BY <1>1, <2>1, <3>1, FileParts
  <2>8. QED
    BY <2>5, <2>6, <2>7 DEF FileInv, Told
<1>20. CASE List(c)
  <2>1. Still /\ client[c].kind = "ls"
    BY <1>20 DEF List
  <2>2. CASE Finish(c, "ok")
    BY <1>8, <2>1, <2>2
  <2>3. CASE client' = [client EXCEPT ![c].pc = "unlink socket"]
    BY <1>7, <2>1, <2>3
  <2>4. QED
    BY <1>20, <2>2, <2>3 DEF List
<1>21. CASE UnlinkSocket(c)
  BY <1>21, <1>7 DEF UnlinkSocket
<1>22. CASE UnlinkLock(c)
  <2>1. client[c].kind = "ls"
    BY <1>22 DEF UnlinkLock, Safe, SweepInv
  <2>2. QED
    BY <1>22, <1>8, <2>1 DEF UnlinkLock
<1>23. QED
  BY <1>11, <1>12, <1>13, <1>14, <1>15, <1>16, <1>17, <1>18, <1>19, <1>20, <1>21, <1>22 DEF ClientStep

(* Supervisors. *)
LEMMA SupFile ==
    ASSUME Safe, "edit file" \notin Allowed, NEW s \in Sups, SupStep(s) \/ Crash(s) PROVE FileInv'
<1> DEFINE SameSups == \A t \in Sups : sup'[t].pc \in Holding =>
                          \/ sup[t].pc \in Holding /\ sup'[t].mem = sup[t].mem
                          \/ sup'[t].mem = file /\ ~Doing({"edit"})
<1>1. StateTypes /\ FileInv /\ \A d \in Clients : Told(d)
  BY FileParts DEF Safe, Core
<1>2. ASSUME UNCHANGED <<client, file>>, SameSups,
             \A d \in Clients : /\ task'[d].stage = "ok" => task[d].stage = "ok"
                                /\ back'[d] = "done" => back[d] = "done"
      PROVE  FileInv'
  <2>1. FileKept
    BY <1>2, SameFile
  <2>2. ASSUME NEW d \in Clients PROVE Told(d)'
    <3>1. /\ client'[d] = client[d] /\ Told(d)
          /\ task'[d].stage = "ok" => task[d].stage = "ok"
          /\ back'[d] = "done" => back[d] = "done"
      BY <1>1, <1>2
    <3>2. QED
      BY <2>1, <3>1, ToldSame
  <2>3. QED
    BY <1>1, <1>2, <2>2, FileStays
<1>3. ASSUME UNCHANGED <<client, task, back, file>>, SameSups PROVE FileInv'
  BY <1>2, <1>3
<1>4. ASSUME NEW p, Move(s, p), sup[s].pc \notin Holding => p \notin Holding PROVE SameSups
  BY <1>1, <1>4 DEF Move, StateTypes, SupTypes, SupRecs
<1>5. ASSUME NEW stages, task' = Reset(s, stages), NEW d \in Clients, task'[d].stage = "ok"
      PROVE  task[d].stage = "ok"
  BY <1>1, <1>5 DEF Reset, StateTypes, TaskTypes, TaskRecs
<1>6. CASE OpenLock(s)
  <2>1. PICK p \in {"flock", "poll"} : sup' = [sup EXCEPT ![s].pc = p, ![s].inode = lockFile']
    <3>1. sup' = [sup EXCEPT ![s].pc = IF sup[s].pc = "start" THEN "flock" ELSE "poll",
                             ![s].inode = lockFile']
      BY <1>1, <1>6 DEF OpenLock, StateTypes, SupTypes
    <3>2. QED
      BY <3>1
  <2>2. SameSups
    BY <1>1, <2>1 DEF StateTypes, SupTypes, SupRecs, Holding
  <2>3. QED
    BY <1>3, <1>6, <2>2 DEF OpenLock
<1>7. CASE Flock(s) \/ Probe(s) \/ HandoverTimeout(s)
  <2>1. PICK p \in {"own", "probe", "handover", "exited"} : Move(s, p)
    BY <1>7 DEF Flock, Probe, HandoverTimeout
  <2>2. SameSups
    BY <1>4, <2>1 DEF Holding
  <2>3. QED
    BY <1>3, <1>7, <2>2 DEF Flock, Probe, HandoverTimeout
<1>8. CASE OpenSession(s)
  <2>1. /\ sup' = [sup EXCEPT ![s].pc = "opened", ![s].mem = file] /\ ~Doing({"edit"})
        /\ UNCHANGED <<client, task, back, file>>
    BY <1>8 DEF OpenSession
  <2>2. \A t \in Sups : /\ t # s => sup'[t] = sup[t]
                        /\ t = s => sup'[t].mem = file
    BY <1>1, <2>1 DEF StateTypes, SupTypes, SupRecs
  <2>3. SameSups
    BY <2>1, <2>2
  <2>4. QED
    BY <1>3, <2>1, <2>3
<1>9. CASE Bind(s)
  <2>1. Move(s, "serving") /\ sup[s].pc \in Holding
    BY <1>9 DEF Bind, Holding
  <2>2. QED
    BY <1>3, <1>4, <1>9, <2>1 DEF Bind
<1>10. CASE Leave(s)
  <2>1. /\ Move(s, "drain") /\ sup[s].pc \in Holding /\ task' = Reset(s, {"backlog"})
        /\ UNCHANGED <<client, back, file>>
    BY <1>10 DEF Leave, Holding
  <2>2. \A d \in Clients : task'[d].stage = "ok" => task[d].stage = "ok"
    BY <1>5, <2>1
  <2>3. QED
    BY <1>2, <1>4, <2>1, <2>2
<1>11. CASE DrainTimeout(s) \/ Return(s)
  <2>1. PICK p : Move(s, p) /\ sup[s].pc \in Holding
    BY <1>11 DEF DrainTimeout, Return, Holding
  <2>2. QED
    BY <1>3, <1>4, <1>11, <2>1 DEF DrainTimeout, Return
<1>12. CASE Die(s)
  <2>1. PICK stages : task' = Reset(s, stages)
    BY <1>12 DEF Die
  <2>2. \A d \in Clients : task'[d].stage = "ok" => task[d].stage = "ok"
    BY <1>5, <2>1
  <2>3. \A d \in Clients : back'[d] = "done" => back[d] = "done"
    BY <1>12 DEF Die
  <2>4. \A t \in Sups : /\ t # s => sup'[t] = sup[t]
                        /\ t = s => sup'[t].pc = "exited"
    BY <1>1, <1>12 DEF Die, StateTypes, SupTypes, SupRecs
  <2>5. SameSups
    BY <2>4 DEF Holding
  <2>6. QED
    BY <1>2, <1>12, <2>2, <2>3, <2>5 DEF Die
<1>13. QED
  BY <1>6, <1>7, <1>8, <1>9, <1>10, <1>11, <1>12 DEF SupStep, Exit, Crash

(* What a client was told is in the file (Session::save before the answer, *)
(* apply_edit_to_file, run_detached), through crashes, handovers, restarts *)
(* of the kernel and edits by others: where none of the four hazards that  *)
(* the README describes strikes.                                           *)
THEOREM AnswersKept == ASSUME Allowed = {} PROVE Spec => []AnsweredKept
<1>1. Init => FileInv
  <2> SUFFICES ASSUME Init PROVE FileInv
    OBVIOUS
  <2>1. \A c \in Clients : /\ client[c].pc = "idle" /\ client[c].result = "none"
                           /\ task[c].stage = "none" /\ back[c] = "none"
    BY DEF Init
  <2>2. \A s \in Sups : sup[s].pc = "off"
    BY DEF Init
  <2>3. QED
    BY <2>1, <2>2 DEF FileInv, Holding
<1>2. Safe /\ [Next]_vars => FileInv'
  <2> SUFFICES ASSUME Safe, [Next]_vars PROVE FileInv'
    OBVIOUS
  <2>1. CASE UNCHANGED vars
    BY <2>1 DEF vars, Safe, FileInv, Doing, Has, HasOut
  <2>2. CASE Next
    BY <2>2, ClientFile, TaskFile, SupFile DEF Next
  <2>3. QED
    BY <2>1, <2>2
<1>3. Spec => []Core
  BY CoreHolds
<1>4. Spec => []OwnerInv
  BY OwnerHolds
<1>5. Spec => []SweepInv
  BY SweepHolds
<1>6. Safe => AnsweredKept
  <2> SUFFICES ASSUME Safe, NEW c \in Clients, client[c].result = "ok",
                      client[c].kind \in {"exec", "detach", "edit"}
               PROVE  \E k \in DOMAIN file :
                        /\ file[k].id = c
                        /\ client[c].kind = "exec" \/ back[c] = "done" => file[k].out # "none"
    BY DEF AnsweredKept
  <2>1. Told(c)
    BY FileParts DEF Safe
  <2>2. CASE client[c].kind = "exec" \/ back[c] = "done"
    BY <2>1, <2>2 DEF Told, HasOut
  <2>3. CASE ~(client[c].kind = "exec" \/ back[c] = "done")
    BY <2>1, <2>3 DEF Told, Has
  <2>4. QED
    BY <2>2, <2>3
<1>7. QED
  BY <1>1, <1>2, <1>3, <1>4, <1>6, <1>5, PTL DEF Spec, Safe
=============================================================================
