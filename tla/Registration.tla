---------------------------- MODULE Registration ----------------------------
(***************************************************************************)
(* How a client gets a worker of the broker.                               *)
(*                                                                         *)
(* The clients: publisher/pub.c, subscriber/sub.c and manager/manager.c    *)
(* write a request naming a FIFO of their own to the register pipe, create *)
(* that FIFO, open it (which blocks until the other end is opened), unlink *)
(* its name and talk over it.  A manager creates the FIFO before it asks,  *)
(* publisher and subscriber ask first.                                     *)
(* The broker: mbroker/mbroker.c main reads requests and enqueues them,    *)
(* max_sessions workers each dequeue one, open the FIFO it names and serve *)
(* the client.  A worker holds one request at a time, so the workers are   *)
(* told apart by the requests in service; the others are counted.          *)
(*                                                                         *)
(* A client is one run of a client program and sends one request, so a     *)
(* request is named by the client that sent it.  A pipe name may be used   *)
(* by several clients, one after the other; the FIFO a client creates is   *)
(* named by its creator, and outlives its name.  An open of it returns     *)
(* when somebody opens the other end: mostly worker and client, but two    *)
(* workers as well, when a request outlives its sender.                    *)
(*                                                                         *)
(* The queue is the ring of producer-consumer.c, with one step per critical*)
(* section (ProducerConsumer has the steps within): a dequeue may find its *)
(* slot empty, which ends the worker, and an enqueue may overwrite a       *)
(* request.  What a session does with its box is MessageBox.               *)
(***************************************************************************)
EXTENDS Integers, Sequences, FiniteSets

CONSTANTS
  Clients,       \* runs of client programs
  Kind,          \* Kind[c]: "publisher", "subscriber" or "manager"
  PipeNames,     \* path names of the clients' FIFOs
  Pipe,          \* Pipe[c]: the path name c is given
  Interruptible, \* the clients whose user may press ctrl-C
  MaxSessions,   \* argument max_sessions: capacity of the queue, number of workers
  NULL           \* no FIFO, no request, an empty slot of the queue

ASSUME RegistrationAssumption ==
  /\ Kind \in [Clients -> {"publisher", "subscriber", "manager"}]
  /\ Pipe \in [Clients -> PipeNames]
  /\ Interruptible \subseteq Clients
  /\ MaxSessions \in Nat \ {0}
  /\ NULL \notin Clients

VARIABLES
  cl,        \* cl[c]: where c is in its program
  signals,   \* signals[c]: SIGINTs c has received, of which the second kills
  fifo,      \* fifo[n]: the FIFO a path name leads to
  pipe,      \* pipe[c]: what the next read of the FIFO of c gets
  answered,  \* the managers that have read an answer
  up,        \* whether the broker runs
  register,  \* content of the register pipe
  held,      \* the request main is enqueuing: counted in size, not yet stored
  size, head, tail, buffer,  \* the fields of pc_queue_t
  claims,    \* workers in pcq_dequeue that have uncounted a request and not read a slot
  exited,    \* workers that were handed NULL
  srv,       \* srv[r]: how far the broker is with request r
  end        \* end[r]: the FIFO the worker with request r opens or has open

client  == <<cl, signals, fifo, answered>>
queue   == <<size, head, tail, buffer, claims, exited>>
main    == <<register, held, queue>>
service == <<srv, end>>
vars    == <<client, pipe, up, main, service>>

Running == {"asking", "making", "to_open", "opening", "interrupted", "opened", "connected"}
InService == {"taken", "opening", "serving"}
Busy == Cardinality({r \in Clients : srv[r] \in InService})
Index == 0..(MaxSessions - 1)

TypeOK ==
  /\ cl \in [Clients -> Running \cup {"idle", "gone"}]
  /\ signals \in [Clients -> 0..2]
  /\ fifo \in [PipeNames -> Clients \cup {NULL}]
  /\ pipe \in [Clients -> {"empty", "answer", "other"}]
  /\ answered \subseteq Clients
  /\ up \in BOOLEAN
  /\ register \in Seq(Clients) /\ held \in Clients \cup {NULL}
  /\ size \in 0..MaxSessions /\ head \in Index /\ tail \in Index
  /\ buffer \in [Index -> Clients \cup {NULL}]
  /\ srv \in [Clients -> InService \cup {"none", "queued", "done"}]
  /\ end \in [Clients -> Clients \cup {NULL}]
  /\ claims \in Nat /\ exited \in Nat /\ Busy + claims + exited <= MaxSessions

(* A slot nobody has written is taken to hold NULL: the other values that  *)
(* malloc leaves end the broker when a worker follows them, as Stop does.  *)
Init ==
  /\ cl = [c \in Clients |-> "idle"]
  /\ signals = [c \in Clients |-> 0]
  /\ fifo = [n \in PipeNames |-> NULL]
  /\ pipe = [c \in Clients |-> "empty"]
  /\ answered = {}
  /\ up = TRUE
  /\ register = <<>> /\ held = NULL
  /\ size = 0 /\ head = 0 /\ tail = 0 /\ buffer = [i \in Index |-> NULL]
  /\ claims = 0 /\ exited = 0
  /\ srv = [c \in Clients |-> "none"]
  /\ end = [c \in Clients |-> NULL]

(* Mutant: the manager asks before its FIFO exists.                        *)
ProgramAsksFirst(c) == <<"asking", "making">>

(* What a client does between opening the register pipe and opening its    *)
(* own: a manager runs mkfifo first, the others write the request first.   *)
Program(c) ==
  IF Kind[c] = "manager" THEN <<"making", "asking">> ELSE <<"asking", "making">>

GoOn(c) == cl' = [cl EXCEPT ![c] = IF @ = Program(c)[1] THEN Program(c)[2] ELSE "to_open"]

(* Mutant: a worker opens every FIFO to write.                             *)
WorkerReadsNever(r) == FALSE

(* A worker opens the FIFO of a publisher to read and any other to write,  *)
(* a client opens its own for the opposite.                                *)
WorkerReads(r) == Kind[r] = "publisher"
ClientReads(c) == Kind[c] # "publisher"
Opposite(r, c) == WorkerReads(r) # ClientReads(c)

(* The workers at the FIFO of c, blocked in open or in; and whether anybody*)
(* has it open to read, or to write.                                       *)
At(c) == {r \in Clients : srv[r] \in {"opening", "serving"} /\ end[r] = c}
Inside(c) == cl[c] \in {"opened", "connected"}

IsRead(c) ==
  (ClientReads(c) /\ Inside(c)) \/ \E r \in At(c) : srv[r] = "serving" /\ WorkerReads(r)

IsWritten(c) ==
  (~ClientReads(c) /\ Inside(c)) \/ \E r \in At(c) : srv[r] = "serving" /\ ~WorkerReads(r)

(***************************************************************************)
(* The clients                                                             *)
(***************************************************************************)

(* The program starts and opens the register pipe; the open fails once the *)
(* broker has removed it.  Nobody uses a pipe name twice at a time.        *)
Start(c) ==
  /\ cl[c] = "idle"
  /\ \A d \in Clients : Pipe[d] = Pipe[c] => cl[d] \notin Running
  /\ cl' = [cl EXCEPT ![c] = IF up THEN Program(c)[1] ELSE "gone"]
  /\ UNCHANGED <<signals, fifo, answered, pipe, up, main, service>>

(* The request, short enough for an atomic write, goes to the register     *)
(* pipe; when the broker is gone, SIGPIPE ends the client.                 *)
Register(c) ==
  /\ cl[c] = "asking"
  /\ IF up
       THEN /\ GoOn(c)
            /\ register' = Append(register, c)
            /\ srv' = [srv EXCEPT ![c] = "queued"]
       ELSE /\ cl' = [cl EXCEPT ![c] = "gone"]
            /\ UNCHANGED <<register, srv>>
  /\ UNCHANGED <<signals, fifo, answered, pipe, up, held, queue, end>>

(* mkfifo; the assertion on it ends the client when the name is taken.     *)
MakeFifo(c) ==
  /\ cl[c] = "making"
  /\ IF fifo[Pipe[c]] = NULL
       THEN GoOn(c) /\ fifo' = [fifo EXCEPT ![Pipe[c]] = c]
       ELSE cl' = [cl EXCEPT ![c] = "gone"] /\ UNCHANGED fifo
  /\ UNCHANGED <<signals, answered, pipe, up, main, service>>

(* Mutant: open does not wait for the other end.                           *)
OpenFifoNonblock(c) ==
  /\ cl[c] = "to_open"
  /\ cl' = [cl EXCEPT ![c] = "opened"]
  /\ srv' = [r \in Clients |-> IF r \in At(c) /\ Opposite(r, c) THEN "serving" ELSE srv[r]]
  /\ pipe' = [pipe EXCEPT ![c] = IF At(c) = {} THEN "empty" ELSE @]
  /\ UNCHANGED <<signals, fifo, answered, up, main, end>>

(* The client enters open.  It returns, with those of the workers that     *)
(* block there, if a worker has the other end open or waits for somebody   *)
(* to open this one; otherwise it blocks.  A FIFO nobody had is empty.     *)
OpenFifo(c) ==
  LET facing == {r \in At(c) : Opposite(r, c)} IN
    /\ cl[c] = "to_open"
    /\ cl' = [cl EXCEPT ![c] = IF facing = {} THEN "opening" ELSE "opened"]
    /\ srv' = [r \in Clients |-> IF r \in facing THEN "serving" ELSE srv[r]]
    /\ pipe' = [pipe EXCEPT ![c] = IF At(c) = {} THEN "empty" ELSE @]
    /\ UNCHANGED <<signals, fifo, answered, up, main, end>>

(* Mutant: the FIFO keeps its name.                                        *)
UnlinkSkipped(c) ==
  /\ cl[c] \in {"opened", "interrupted"}
  /\ cl' = [cl EXCEPT ![c] = IF @ = "opened" THEN "connected" ELSE "gone"]
  /\ UNCHANGED <<signals, fifo, answered, pipe, up, main, service>>

(* unlink, right after the open, whether it succeeded or was interrupted.  *)
Unlink(c) ==
  /\ cl[c] \in {"opened", "interrupted"}
  /\ cl' = [cl EXCEPT ![c] = IF @ = "opened" THEN "connected" ELSE "gone"]
  /\ fifo' = [fifo EXCEPT ![Pipe[c]] = NULL]
  /\ UNCHANGED <<signals, answered, pipe, up, main, service>>

(* A publisher leaves at the end of its input, or when its pipe is broken. *)
EndOfInput(c) ==
  /\ cl[c] = "connected" /\ Kind[c] = "publisher"
  /\ cl' = [cl EXCEPT ![c] = "gone"]
  /\ UNCHANGED <<signals, fifo, answered, pipe, up, main, service>>

(* Mutant: a read that returns 0 is tried again.                           *)
EndOfPipeIgnored(c) ==
  /\ cl[c] = "connected" /\ ClientReads(c)
  /\ pipe[c] # "empty"
  /\ cl' = [cl EXCEPT ![c] = "gone"]
  /\ answered' = IF pipe[c] = "answer" /\ Kind[c] = "manager" THEN answered \cup {c} ELSE answered
  /\ UNCHANGED <<signals, fifo, pipe, up, main, service>>

(* A manager leaves with the answer.  It and a subscriber also leave when  *)
(* they read what they cannot take for a packet of theirs, or the end of   *)
(* the pipe, when nobody has it open to write any more.                    *)
EndOfPipe(c) ==
  /\ cl[c] = "connected" /\ ClientReads(c)
  /\ pipe[c] # "empty" \/ ~IsWritten(c)
  /\ cl' = [cl EXCEPT ![c] = "gone"]
  /\ answered' = IF pipe[c] = "answer" /\ Kind[c] = "manager" THEN answered \cup {c} ELSE answered
  /\ UNCHANGED <<signals, fifo, pipe, up, main, service>>

(* The first SIGINT runs a handler that does nothing, and makes a blocking *)
(* open or read return: open leads to the unlink, read to the exit.  Where *)
(* the client does not block, it is without effect.  It also resets the    *)
(* handler (System V signal), so the second one kills.                     *)
Interrupt(c) ==
  /\ c \in Interruptible /\ cl[c] \in Running
  /\ signals' = [signals EXCEPT ![c] = @ + 1]
  /\ \/ signals[c] = 0 /\ cl[c] # "opening" /\ UNCHANGED cl
     \/ signals[c] = 0 /\ cl[c] = "opening" /\ cl' = [cl EXCEPT ![c] = "interrupted"]
     \/ signals[c] = 0 /\ cl[c] = "connected" /\ cl' = [cl EXCEPT ![c] = "gone"]
     \/ signals[c] = 1 /\ cl' = [cl EXCEPT ![c] = "gone"]
  /\ UNCHANGED <<fifo, answered, pipe, up, main, service>>

(***************************************************************************)
(* The broker                                                              *)
(***************************************************************************)

(* Mutant: main does not wait for space.                                   *)
ReserveUnbounded ==
  /\ up /\ held = NULL /\ register # <<>>
  /\ held' = Head(register) /\ register' = Tail(register)
  /\ size' = size + 1
  /\ UNCHANGED <<client, pipe, up, head, tail, buffer, claims, exited, service>>

(* main reads the next request and calls pcq_enqueue, which waits for      *)
(* space, counts the request ...                                           *)
Reserve ==
  /\ up /\ held = NULL /\ register # <<>>
  /\ ~(size = MaxSessions \/ (head = tail /\ size # 0))
  /\ held' = Head(register) /\ register' = Tail(register)
  /\ size' = size + 1
  /\ UNCHANGED <<client, pipe, up, head, tail, buffer, claims, exited, service>>

(* ... and stores it.                                                      *)
Store ==
  /\ up /\ held # NULL
  /\ buffer' = [buffer EXCEPT ![head] = held]
  /\ head' = (head + 1) % MaxSessions
  /\ held' = NULL
  /\ UNCHANGED <<client, pipe, up, register, size, tail, claims, exited, service>>

(* A worker in pcq_dequeue uncounts a request.  It need never do so: the   *)
(* signal that was to wake it may have been lost (ProducerConsumer).       *)
Claim ==
  /\ up /\ Busy + claims + exited < MaxSessions
  /\ ~(size = 0 \/ (tail = head /\ size # MaxSessions))
  /\ size' = size - 1
  /\ claims' = claims + 1
  /\ UNCHANGED <<client, pipe, up, register, held, head, tail, buffer, exited, service>>

(* It takes what the slot at the tail holds: a request, or NULL, which ends*)
(* the worker.                                                             *)
Dequeue ==
  /\ up /\ claims > 0
  /\ claims' = claims - 1
  /\ buffer' = [buffer EXCEPT ![tail] = NULL]
  /\ tail' = (tail + 1) % MaxSessions
  /\ \/ /\ buffer[tail] # NULL
        /\ srv' = [srv EXCEPT ![buffer[tail]] = "taken"]
        /\ UNCHANGED exited
     \/ /\ buffer[tail] = NULL
        /\ exited' = exited + 1
        /\ UNCHANGED srv
  /\ UNCHANGED <<client, pipe, up, register, held, size, head, end>>

(* The handler opens the FIFO the request names.  Without one the request  *)
(* is dropped.  With one, the open returns if the client or another worker *)
(* has the other end open or waits for this one, and theirs return with it.*)
OpenPipe(r) ==
  /\ up /\ srv[r] = "taken"
  /\ LET c      == fifo[Pipe[r]]
         facing == {q \in At(c) : WorkerReads(q) # WorkerReads(r)}
         there  == cl[c] \in {"opening", "opened"}
         meets  == there /\ Opposite(r, c)
     IN  \/ /\ c = NULL
            /\ srv' = [srv EXCEPT ![r] = "done"]
            /\ UNCHANGED <<cl, pipe, end>>
         \/ /\ c # NULL
            /\ end' = [end EXCEPT ![r] = c]
            /\ pipe' = [pipe EXCEPT ![c] = IF At(c) = {} /\ ~there THEN "empty" ELSE @]
            /\ cl' = [cl EXCEPT ![c] = IF meets THEN "opened" ELSE @]
            /\ srv' = IF meets \/ facing # {}
                      THEN [q \in Clients |-> IF q \in facing \cup {r} THEN "serving" ELSE srv[q]]
                      ELSE [srv EXCEPT ![r] = "opening"]
  /\ UNCHANGED <<signals, fifo, answered, up, main>>

(* The handler returns and closes the FIFO.                                *)
Close(r) ==
  /\ srv' = [srv EXCEPT ![r] = "done"]
  /\ end' = [end EXCEPT ![r] = NULL]

(* Worker r puts a packet into its FIFO, behind what is there; without a   *)
(* reader the write fails.                                                 *)
Put(r, what) ==
  pipe' = [pipe EXCEPT ![end[r]] = IF IsRead(end[r]) /\ @ = "empty" THEN what ELSE @]

(* A create, remove or list handler writes its answer and closes the FIFO. *)
Answer(r) ==
  /\ up /\ srv[r] = "serving" /\ Kind[r] = "manager"
  /\ Put(r, "answer")
  /\ Close(r)
  /\ UNCHANGED <<client, up, main>>

(* A subscriber's session writes a message, to a client that is none.      *)
Forward(r) ==
  /\ up /\ srv[r] = "serving" /\ Kind[r] = "subscriber"
  /\ Kind[end[r]] # "subscriber" /\ IsRead(end[r]) /\ pipe[end[r]] = "empty"
  /\ Put(r, "other")
  /\ UNCHANGED <<client, up, main, service>>

(* A publisher's session ends when nobody has the FIFO open to write, or   *)
(* when it reads what another worker wrote, all of it or the first part.   *)
EndOfSession(r) ==
  /\ up /\ srv[r] = "serving" /\ Kind[r] = "publisher"
  /\ \/ pipe[end[r]] = "empty" /\ ~IsWritten(end[r]) /\ UNCHANGED pipe
     \/ /\ pipe[end[r]] # "empty"
        /\ \E rest \in {"empty", "other"} : pipe' = [pipe EXCEPT ![end[r]] = rest]
  /\ Close(r)
  /\ UNCHANGED <<client, up, main>>

(* A session is refused (no such box, a box with a publisher), fails at    *)
(* its box file, or notices with the next message that its subscriber has  *)
(* left.  None of these need ever happen.                                  *)
CloseSession(r) ==
  /\ up /\ srv[r] = "serving" /\ Kind[r] # "manager"
  /\ Close(r)
  /\ UNCHANGED <<client, pipe, up, main>>

(* SIGINT ends the broker: the register pipe is removed, every request and *)
(* every session is lost.  A client that blocks in open stays there.       *)
Stop ==
  /\ up
  /\ up' = FALSE
  /\ register' = <<>> /\ held' = NULL
  /\ size' = 0 /\ head' = 0 /\ tail' = 0 /\ buffer' = [i \in Index |-> NULL]
  /\ claims' = 0 /\ exited' = 0
  /\ srv' = [r \in Clients |-> IF srv[r] = "none" THEN "none" ELSE "done"]
  /\ end' = [r \in Clients |-> NULL]
  /\ UNCHANGED <<client, pipe>>

ClientStep(c) ==
  Register(c) \/ MakeFifo(c) \/ OpenFifo(c) \/ Unlink(c) \/ EndOfPipe(c)

WorkerStep(r) == OpenPipe(r) \/ Answer(r) \/ EndOfSession(r)

Next ==
  \/ \E c \in Clients : Start(c) \/ ClientStep(c) \/ EndOfInput(c) \/ Interrupt(c)
  \/ Reserve \/ Store \/ Claim \/ Dequeue
  \/ \E r \in Clients : WorkerStep(r) \/ Forward(r) \/ CloseSession(r)
  \/ Stop

Spec == Init /\ [][Next]_vars

(* The clients, and the workers that have a request, take the next step   *)
(* they can take.  Nothing is assumed of the queue, which may keep or lose *)
(* a request.  Users need not start a program, type, leave or interrupt,   *)
(* and no message need ever be published.                                  *)
FairSpec ==
  /\ Spec
  /\ \A c \in Clients : WF_vars(ClientStep(c)) /\ WF_vars(WorkerStep(c))

(***************************************************************************)
(* Properties                                                              *)
(***************************************************************************)

(* A client of pipe name n was interrupted and has left, maybe leaving a   *)
(* request or a FIFO behind.                                               *)
LeftBehind(n) == \E q \in Clients : Pipe[q] = n /\ cl[q] = "gone" /\ signals[q] > 0

(* A worker talks to the client that sent the request it serves.  The FIFO *)
(* is found by its name alone (mbroker.c:170), so a request whose sender   *)
(* has left, or is about to fail because its name is taken, can lead to    *)
(* somebody else's FIFO, where a client or another stray request is.  This *)
(* takes an interrupted client at the beginning: no other request ever     *)
(* goes astray, although names are used again.                             *)
ServesSender ==
  \A r \in Clients :
    srv[r] = "serving" /\ end[r] # r => cl[r] \in {"making", "gone"} /\ LeftBehind(Pipe[r])

(* A manager that runs to its end has an answer.  The exceptions: a SIGINT *)
(* of its own, a broker that has stopped, a FIFO left behind under its     *)
(* name by a client that was killed, and a name shared with a publisher or *)
(* a subscriber, whose stray session it may get, or lose its answer to.    *)
ManagerLeavesAnswered ==
  \A m \in Clients :
    Kind[m] = "manager" /\ cl[m] = "gone" /\ up =>
      \/ m \in answered
      \/ signals[m] > 0
      \/ \E d \in Clients : fifo[Pipe[m]] = d /\ cl[d] = "gone" /\ signals[d] > 0
      \/ /\ LeftBehind(Pipe[m])
         /\ \E d \in Clients : Pipe[d] = Pipe[m] /\ Kind[d] # "manager"

(* The worker of a request that is not c's gets in at the FIFO of c.       *)
StrayAt(c) == \E r \in Clients \ {c} : srv[r] = "serving" /\ end[r] = c

(* A manager command whose request a worker has taken returns, unless the  *)
(* broker stops or a stray request meets its FIFO: that FIFO exists before *)
(* the request, so the request is never dropped and no worker waits for a  *)
(* manager that does not come.                                             *)
ManagersReturn ==
  \A m \in Clients :
    Kind[m] = "manager" /\ srv[m] = "taken" ~> cl[m] = "gone" \/ ~up \/ StrayAt(m)

(* A client whose FIFO is there when a worker takes its request gets       *)
(* connected, on whichever side the open is entered first, unless a stray  *)
(* request meets its FIFO: its worker may then have come and gone with the *)
(* other's, and the client waits for ever.                                 *)
ReadyClientConnects ==
  \A c \in Clients :
    srv[c] = "taken" /\ fifo[Pipe[c]] = c
      ~> cl[c] \in {"opened", "connected", "gone"} \/ signals[c] > 0 \/ ~up \/ StrayAt(c)

(* Refinement: nobody gets in at a FIFO but with, or to, somebody at the   *)
(* other end, whichever comes first and be it two workers; and no request  *)
(* is served twice, to whomever the name of its FIFO has led.              *)
Meeting == INSTANCE Rendezvous WITH
  ReadingClients <- {c \in Clients : ClientReads(c)},
  ReadingWorkers <- {r \in Clients : WorkerReads(r)},
  Unserved <- NULL, Over <- "over",
  inside  <- {c \in Clients : Inside(c)},
  session <- [r \in Clients |-> CASE srv[r] = "serving" -> end[r]
                                   [] srv[r] = "done"    -> "over"
                                   [] OTHER              -> NULL]

ImplementsRendezvous == Meeting!Spec

(* Once the broker has stopped, its clients end, but for those that block  *)
(* in open, where only a signal ends them (pub.c:66, sub.c:70,             *)
(* manager.c:134), and publishers, which learn of it at the next line.     *)
StopReachesClients ==
  <>[](up \/ \A c \in Clients :
               \/ cl[c] \in {"idle", "opening", "gone"}
               \/ cl[c] = "connected" /\ Kind[c] = "publisher")
=============================================================================
