------------------------- MODULE RegistrationProofs -------------------------
(***************************************************************************)
(* Proofs about Registration for any number of clients, pipe names and     *)
(* workers: the types and the bounds of the queue and of the workers, whom *)
(* a worker talks to, what a manager leaves with, and the refinement of    *)
(* Rendezvous.                                                             *)
(*                                                                         *)
(* The inductive invariant IInv is a conjunction of small ones, each with  *)
(* a lemma that takes it through every action.  At its heart are Strays    *)
(* and StrayEnds: a request outlives its sender, and a worker is at a FIFO *)
(* that is not its client's, only when a client of the same pipe name was  *)
(* interrupted, whoever completes the worker's open.                       *)
(***************************************************************************)
EXTENDS Registration, TLAPS, SequenceTheorems, FiniteSetTheorems

(***************************************************************************)
(* The inductive invariant                                                 *)
(***************************************************************************)

Types ==
  /\ cl \in [Clients -> Running \cup {"idle", "gone"}]
  /\ signals \in [Clients -> 0..2]
  /\ fifo \in [PipeNames -> Clients \cup {NULL}]
  /\ pipe \in [Clients -> {"empty", "answer", "other"}]
  /\ answered \subseteq Clients
  /\ up \in BOOLEAN
  /\ register \in Seq(Clients) /\ held \in Clients \cup {NULL}
  /\ size \in 0..MaxSessions /\ head \in Index /\ tail \in Index
  /\ buffer \in [Index -> Clients \cup {NULL}]
  /\ claims \in Nat /\ exited \in Nat
  /\ srv \in [Clients -> InService \cup {"none", "queued", "done"}]
  /\ end \in [Clients -> Clients \cup {NULL}]

(* The workers with a request, in pcq_dequeue and ended are not too many.  *)
Served == {r \in Clients : srv[r] \in InService}

Capacity ==
  /\ IsFiniteSet(Served)
  /\ Cardinality(Served) + claims + exited <= MaxSessions

(* A request waits in one place at a time, once.                           *)
Backlog ==
  /\ \A i \in 1..Len(register) : srv[register[i]] = "queued" /\ register[i] # held
  /\ \A i \in Index : buffer[i] # NULL => srv[buffer[i]] = "queued" /\ buffer[i] # held
  /\ held # NULL => srv[held] = "queued"
  /\ \A i, j \in 1..Len(register) : register[i] = register[j] => i = j
  /\ \A i, j \in Index : buffer[i] # NULL /\ buffer[i] = buffer[j] => i = j
  /\ \A i \in 1..Len(register), j \in Index : register[i] # buffer[j]

(* The client has not sent its request.                                    *)
Unsent(c) ==
  \/ cl[c] \in {"idle", "asking"}
  \/ cl[c] = "making" /\ Kind[c] = "manager"

Asks == \A c \in Clients : Unsent(c) => srv[c] = "none"

(* Nobody uses a pipe name that is in use.                                 *)
OneAtATime ==
  \A c, d \in Clients : cl[c] \in Running /\ cl[d] \in Running /\ Pipe[c] = Pipe[d] => c = d

Interruption == \A c \in Clients : cl[c] = "interrupted" => signals[c] > 0

(* A FIFO is there from its creation to the unlink, under the name its     *)
(* creator was given; it is left behind by a client that is killed.        *)
HasFifo(c) ==
  \/ cl[c] \in {"to_open", "opening", "interrupted", "opened"}
  \/ cl[c] = "asking" /\ Kind[c] = "manager"

OwnName == \A n \in PipeNames : fifo[n] # NULL => Pipe[fifo[n]] = n

Creator == \A c \in Clients : fifo[Pipe[c]] = c => HasFifo(c) \/ cl[c] = "gone"

Created == \A c \in Clients : HasFifo(c) => fifo[Pipe[c]] = c

Unlinked == \A c \in Clients : cl[c] = "connected" => fifo[Pipe[c]] = NULL

Killed == \A c \in Clients : up /\ fifo[Pipe[c]] = c /\ cl[c] = "gone" => signals[c] > 0

(* The FIFO a worker has is one of the name its request gives.             *)
Ends ==
  \A r \in Clients :
    IF srv[r] \in {"opening", "serving"}
      THEN end[r] \in Clients /\ Pipe[end[r]] = Pipe[r]
      ELSE end[r] = NULL

(* A request that waits, while its sender has left or is served otherwise: *)
(* a client of the name was interrupted.                                   *)
Strays ==
  \A r \in Clients :
    /\ up
    /\ srv[r] \in {"queued", "taken", "opening"}
    /\ cl[r] \in {"opened", "connected", "gone"}
    => LeftBehind(Pipe[r])

(* A worker at another FIFO than its client's, blocked there or in: the    *)
(* client has left, or will fail as soon as it makes its own.              *)
StrayEnds ==
  \A r \in Clients :
    srv[r] \in {"opening", "serving"} /\ end[r] # r =>
      /\ cl[r] = "gone" \/ (cl[r] = "making" /\ fifo[Pipe[r]] # NULL)
      /\ LeftBehind(Pipe[r])

(* A manager that got in has an answer, or a worker that will write one;   *)
(* or it may have met a worker that was sent for another kind of client.   *)
MaybeStray(m) ==
  /\ LeftBehind(Pipe[m])
  /\ \E d \in Clients : Pipe[d] = Pipe[m] /\ Kind[d] # "manager"

Answering(m) ==
  \E r \in Clients : srv[r] = "serving" /\ end[r] = m /\ Kind[r] = "manager"

Attended ==
  \A m \in Clients :
    up /\ Kind[m] = "manager" =>
      /\ pipe[m] = "other" => MaybeStray(m)
      /\ cl[m] \in {"opened", "connected"} =>
           Answering(m) \/ pipe[m] # "empty" \/ MaybeStray(m)

ClientInv ==
  /\ Asks /\ OneAtATime /\ Interruption
  /\ OwnName /\ Creator /\ Created /\ Unlinked /\ Killed

IInv ==
  /\ Types /\ Capacity /\ Backlog /\ ClientInv
  /\ Ends /\ Strays /\ StrayEnds /\ Attended /\ ManagerLeavesAnswered

(***************************************************************************)
(* Sequences and indices                                                   *)
(***************************************************************************)

(* A request at the end of the register pipe.                              *)
LEMMA Appended ==
  ASSUME NEW S, NEW s \in Seq(S), NEW e \in S
  PROVE  /\ Append(s, e) \in Seq(S)
         /\ Len(Append(s, e)) = Len(s) + 1
         /\ \A i \in 1..(Len(s) + 1) : Append(s, e)[i] = IF i = Len(s) + 1 THEN e ELSE s[i]
BY AppendProperties

(* The request at the front, and the others.                               *)
LEMMA Taken ==
  ASSUME NEW S, NEW s \in Seq(S), s # <<>>
  PROVE  /\ Len(s) \in Nat \ {0}
         /\ Head(s) = s[1] /\ Head(s) \in S
         /\ Tail(s) \in Seq(S)
         /\ Len(Tail(s)) = Len(s) - 1
         /\ \A i \in 1..(Len(s) - 1) : Tail(s)[i] = s[i + 1]
BY HeadTailProperties, ElementOfSeq, EmptySeq

(* Advancing an index of the ring (producer-consumer.c:73 and :98).        *)
LEMMA NextIndex ==
  ASSUME NEW i \in Index
  PROVE  (i + 1) % MaxSessions \in Index
BY RegistrationAssumption, Z3 DEF Index

(***************************************************************************)
(* Types                                                                   *)
(***************************************************************************)

(* Every step keeps the types.                                             *)
LEMMA TypesStep == ASSUME Types, [Next]_vars PROVE Types'
<1> USE RegistrationAssumption DEF main, queue, service, client
<1>1. ASSUME NEW c \in Clients,
             Start(c) \/ Register(c) \/ MakeFifo(c) \/ OpenFifo(c)
      PROVE  Types'
  <2>1. CASE Start(c)
    BY <2>1 DEF Types, Start, Program, Running
  <2>2. CASE Register(c)
    <3>1. register' \in Seq(Clients)
      <4>1. Append(register, c) \in Seq(Clients)
        BY Appended DEF Types
      <4> QED
        BY <2>2, <4>1 DEF Types, Register
    <3>2. cl' \in [Clients -> Running \cup {"idle", "gone"}]
      BY <2>2 DEF Types, Register, GoOn, Program, Running
    <3>3. srv' \in [Clients -> InService \cup {"none", "queued", "done"}]
      BY <2>2 DEF Types, Register
    <3> QED
      BY <2>2, <3>1, <3>2, <3>3 DEF Types, Register
  <2>3. CASE MakeFifo(c)
    BY <2>3 DEF Types, MakeFifo, GoOn, Program, Running
  <2>4. CASE OpenFifo(c)
    BY <2>4 DEF Types, OpenFifo, Running, InService
  <2> QED
    BY <1>1, <2>1, <2>2, <2>3, <2>4
<1>2. ASSUME NEW c \in Clients,
             Unlink(c) \/ EndOfPipe(c) \/ EndOfInput(c) \/ Interrupt(c)
      PROVE  Types'
  <2>1. CASE Unlink(c)
    BY <2>1 DEF Types, Unlink, Running
  <2>2. CASE EndOfPipe(c)
    BY <2>2 DEF Types, EndOfPipe, Running
  <2>3. CASE EndOfInput(c)
    BY <2>3 DEF Types, EndOfInput, Running
  <2>4. CASE Interrupt(c)
    BY <2>4 DEF Types, Interrupt, Running
  <2> QED
    BY <1>2, <2>1, <2>2, <2>3, <2>4
<1>3. CASE Reserve
  BY <1>3, Taken DEF Types, Reserve
<1>4. CASE Store
  BY <1>4, NextIndex DEF Types, Store
<1>5. CASE Claim
  BY <1>5 DEF Types, Claim
<1>6. CASE Dequeue
  BY <1>6, NextIndex DEF Types, Dequeue, InService
<1>7. ASSUME NEW r \in Clients, WorkerStep(r) \/ Forward(r) \/ CloseSession(r)
      PROVE  Types'
  <2>1. CASE OpenPipe(r)
    BY <2>1 DEF Types, OpenPipe, Running, InService
  <2>2. CASE Answer(r)
    BY <2>2 DEF Types, Answer, Put, Close, InService
  <2>3. CASE Forward(r)
    BY <2>3 DEF Types, Forward, Put
  <2>4. CASE EndOfSession(r)
    <3>1. pipe' \in [Clients -> {"empty", "answer", "other"}]
      BY <2>4 DEF Types, EndOfSession
    <3> QED
      BY <2>4, <3>1 DEF Types, EndOfSession, Close, InService
  <2>5. CASE CloseSession(r)
    BY <2>5 DEF Types, CloseSession, Close, InService
  <2> QED
    BY <1>7, <2>1, <2>2, <2>3, <2>4, <2>5 DEF WorkerStep
<1>8. CASE Stop
  <2>1. 0 \in Index /\ 0 \in 0..MaxSessions /\ <<>> \in Seq(Clients)
    BY EmptySeq DEF Index
  <2>2. srv' \in [Clients -> InService \cup {"none", "queued", "done"}]
    BY <1>8 DEF Stop
  <2> QED
    BY <1>8, <2>1, <2>2 DEF Types, Stop
<1>9. CASE UNCHANGED vars
  BY <1>9 DEF Types, vars
<1> QED
  BY <1>1, <1>2, <1>3, <1>4, <1>5, <1>6, <1>7, <1>8, <1>9 DEF Next, ClientStep

(***************************************************************************)
(* The backlog and the workers                                             *)
(***************************************************************************)

(* The requests no handler has taken are in the register pipe, held by     *)
(* main or in the ring, each in one place, or overwritten (mbroker.c:85    *)
(* ff., producer-consumer.c:70-74).                                        *)
LEMMA BacklogStep ==
  ASSUME Types, Asks, Backlog, [Next]_vars
  PROVE  Backlog'
<1> USE RegistrationAssumption
<1> DEFINE L == Len(register)
<1>a. L \in Nat /\ register \in Seq(Clients)
  BY LenProperties DEF Types
<1>b. \A i \in 1..L : register[i] \in Clients
  BY <1>a, ElementOfSeq
<1>1. ASSUME register' = register, held' = held, buffer' = buffer,
             \A c \in Clients : srv[c] = "queued" => srv'[c] = "queued"
      PROVE  Backlog'
  <2>1. \A i \in 1..L : srv'[register[i]] = "queued"
    BY <1>1, <1>b DEF Backlog
  <2>2. /\ \A i \in Index : buffer[i] # NULL => srv'[buffer[i]] = "queued"
        /\ held # NULL => srv'[held] = "queued"
    BY <1>1 DEF Backlog, Types
  <2> QED
    BY <1>1, <2>1, <2>2 DEF Backlog
<1>2. ASSUME NEW c \in Clients, Register(c), up
      PROVE  Backlog'
  <2>1. /\ srv[c] = "none" /\ srv' = [srv EXCEPT ![c] = "queued"]
        /\ register' = Append(register, c) /\ held' = held /\ buffer' = buffer
    BY <1>2 DEF Register, Asks, Unsent, queue
  <2>2. /\ \A i \in 1..L : register[i] # c
        /\ \A i \in Index : buffer[i] # c
        /\ held # c
    BY <2>1 DEF Backlog
  <2>3. /\ Len(register') = L + 1
        /\ \A i \in 1..(L + 1) : register'[i] = IF i = L + 1 THEN c ELSE register[i]
    BY <2>1, <1>a, Appended
  <2>4. /\ \A d \in Clients : srv[d] = "queued" => srv'[d] = "queued"
        /\ srv'[c] = "queued"
    BY <2>1 DEF Types
  <2>5. \A i \in 1..(L + 1) : srv'[register'[i]] = "queued" /\ register'[i] # held'
    <3> SUFFICES ASSUME NEW i \in 1..(L + 1)
                 PROVE  srv'[register'[i]] = "queued" /\ register'[i] # held'
      OBVIOUS
    <3>1. CASE i = L + 1
      BY <3>1, <1>a, <2>1, <2>2, <2>3, <2>4
    <3>2. CASE i # L + 1
      <4>1. i \in 1..L
        BY <3>2, <1>a
      <4> QED
        BY <3>2, <4>1, <1>b, <2>1, <2>3, <2>4 DEF Backlog
    <3> QED
      BY <3>1, <3>2
  <2>6. /\ \A i \in Index : buffer'[i] # NULL => srv'[buffer'[i]] = "queued" /\ buffer'[i] # held'
        /\ held' # NULL => srv'[held'] = "queued"
    BY <2>1, <2>4 DEF Backlog, Types
  <2>7. \A i, j \in 1..(L + 1) : register'[i] = register'[j] => i = j
    <3> SUFFICES ASSUME NEW i \in 1..(L + 1), NEW j \in 1..(L + 1), register'[i] = register'[j]
                 PROVE  i = j
      OBVIOUS
    <3>1. (i \in 1..L \/ i = L + 1) /\ (j \in 1..L \/ j = L + 1)
      BY <1>a
    <3> QED
      BY <3>1, <2>2, <2>3 DEF Backlog
  <2>8. \A i \in 1..(L + 1), j \in Index : register'[i] # buffer'[j]
    <3> SUFFICES ASSUME NEW i \in 1..(L + 1), NEW j \in Index
                 PROVE  register'[i] # buffer'[j]
      OBVIOUS
    <3>1. i \in 1..L \/ i = L + 1
      BY <1>a
    <3> QED
      BY <3>1, <2>1, <2>2, <2>3 DEF Backlog
  <2> QED
    BY <2>1, <2>3, <2>5, <2>6, <2>7, <2>8 DEF Backlog
<1>3. CASE Reserve
  <2>1. /\ held' = Head(register) /\ register' = Tail(register)
        /\ buffer' = buffer /\ srv' = srv /\ register # <<>>
    BY <1>3 DEF Reserve, service
  <2>2. /\ L \in Nat \ {0} /\ held' = register[1]
        /\ Len(register') = L - 1
        /\ \A i \in 1..(L - 1) : register'[i] = register[i + 1]
    BY <2>1, <1>a, Taken
  <2>3. /\ 1 \in 1..L
        /\ \A i \in 1..(L - 1) : i + 1 \in 1..L /\ i + 1 # 1
        /\ \A i, j \in 1..(L - 1) : i + 1 = j + 1 => i = j
    BY <2>2
  <2> QED
    BY <2>1, <2>2, <2>3 DEF Backlog
<1>4. CASE Store
  <2>1. /\ held # NULL /\ held \in Clients /\ held' = NULL
        /\ buffer' = [buffer EXCEPT ![head] = held]
        /\ register' = register /\ srv' = srv
    BY <1>4 DEF Store, service, Types
  <2>2. \A i \in Index : buffer'[i] = IF i = head THEN held ELSE buffer[i]
    BY <2>1 DEF Types
  <2>3. \A i \in Index : buffer'[i] # NULL => srv'[buffer'[i]] = "queued" /\ buffer'[i] # held'
    BY <2>1, <2>2 DEF Backlog
  <2>4. \A i, j \in Index : buffer'[i] # NULL /\ buffer'[i] = buffer'[j] => i = j
    BY <2>1, <2>2 DEF Backlog
  <2>5. \A i \in 1..L, j \in Index : register'[i] # buffer'[j]
    BY <2>1, <2>2 DEF Backlog
  <2>6. \A i \in 1..L : srv'[register'[i]] = "queued" /\ register'[i] # held'
    BY <2>1, <1>b DEF Backlog
  <2>7. /\ held' # NULL => srv'[held'] = "queued"
        /\ \A i, j \in 1..L : register'[i] = register'[j] => i = j
    BY <2>1 DEF Backlog
  <2> QED
    BY <2>1, <2>3, <2>4, <2>5, <2>6, <2>7 DEF Backlog
<1>5. CASE Dequeue
  <2> DEFINE b == buffer[tail]
  <2>1. /\ buffer' = [buffer EXCEPT ![tail] = NULL] /\ held' = held /\ register' = register
        /\ tail \in Index /\ b \in Clients \cup {NULL}
        /\ (b # NULL /\ srv' = [srv EXCEPT ![b] = "taken"]) \/ (b = NULL /\ srv' = srv)
    BY <1>5 DEF Dequeue, Types
  <2>2. \A i \in Index : buffer'[i] = IF i = tail THEN NULL ELSE buffer[i]
    BY <2>1 DEF Types
  <2>3. \A d \in Clients : d # b => srv'[d] = srv[d]
    BY <2>1 DEF Types
  <2>4. /\ \A i \in 1..L : register[i] # b
        /\ \A i \in Index : i # tail /\ buffer[i] # NULL => buffer[i] # b
        /\ held # NULL => held # b
    BY <2>1 DEF Backlog
  <2> HIDE DEF b
  <2>5. \A i \in Index : buffer'[i] # NULL => srv'[buffer'[i]] = "queued" /\ buffer'[i] # held'
    BY <2>1, <2>2, <2>3, <2>4 DEF Backlog, Types
  <2>6. /\ \A i \in 1..L : srv'[register'[i]] = "queued" /\ register'[i] # held'
        /\ held' # NULL => srv'[held'] = "queued"
    BY <2>1, <2>3, <2>4, <1>b DEF Backlog, Types
  <2>7. \A i, j \in Index : buffer'[i] # NULL /\ buffer'[i] = buffer'[j] => i = j
    BY <2>2 DEF Backlog
  <2>8. \A i \in 1..L, j \in Index : register'[i] # buffer'[j]
    BY <2>1, <2>2, <1>b DEF Backlog
  <2>9. \A i, j \in 1..L : register'[i] = register'[j] => i = j
    BY <2>1 DEF Backlog
  <2> QED
    BY <2>1, <2>5, <2>6, <2>7, <2>8, <2>9 DEF Backlog
<1>6. CASE Stop
  <2>1. register' = <<>> /\ held' = NULL /\ \A i \in Index : buffer'[i] = NULL
    BY <1>6 DEF Stop
  <2> QED
    BY <2>1, EmptySeq DEF Backlog
<1>7. ASSUME NEW c \in Clients, Start(c) \/ MakeFifo(c) \/ Unlink(c) \/ EndOfPipe(c)
                                  \/ EndOfInput(c) \/ Interrupt(c)
      PROVE  Backlog'
  BY <1>7, <1>1 DEF Start, MakeFifo, Unlink, EndOfPipe, EndOfInput, Interrupt, main, queue,
                    service
<1>8. ASSUME NEW c \in Clients, OpenFifo(c)
      PROVE  Backlog'
  BY <1>8, <1>1 DEF OpenFifo, At, Types, main, queue
<1>9. ASSUME NEW c \in Clients, Register(c), ~up
      PROVE  Backlog'
  BY <1>9, <1>1 DEF Register, queue
<1>10. ASSUME NEW r \in Clients, WorkerStep(r) \/ Forward(r) \/ CloseSession(r)
       PROVE  Backlog'
  <2>1. /\ register' = register /\ held' = held /\ buffer' = buffer
        /\ \A c \in Clients : srv[c] = "queued" => srv'[c] = "queued"
    <3>1. CASE OpenPipe(r)
      BY <3>1 DEF OpenPipe, At, Types, main, queue
    <3>2. CASE Answer(r) \/ EndOfSession(r) \/ CloseSession(r) \/ Forward(r)
      BY <3>2 DEF Answer, EndOfSession, CloseSession, Forward, Close, Types, main, queue,
                  service
    <3> QED
      BY <1>10, <3>1, <3>2 DEF WorkerStep
  <2> QED
    BY <2>1, <1>1
<1>11. CASE Claim \/ UNCHANGED vars
  BY <1>11, <1>1 DEF Claim, vars, main, queue, service
<1> QED
  BY <1>2, <1>3, <1>4, <1>5, <1>6, <1>7, <1>8, <1>9, <1>10, <1>11 DEF Next, ClientStep

(* The workers stay within max_sessions: a worker has one request, waits   *)
(* for one or has ended (mbroker.c:116-140).                               *)
LEMMA CapacityStep ==
  ASSUME Types, Capacity, [Next]_vars
  PROVE  Capacity'
<1> USE RegistrationAssumption
<1>a. Cardinality(Served) \in Nat /\ claims \in Nat /\ exited \in Nat
  BY FS_CardinalityType DEF Capacity, Types
<1>1. ASSUME claims' = claims, exited' = exited, Served' \subseteq Served
      PROVE  Capacity'
  <2>1. /\ IsFiniteSet(Served')
        /\ Cardinality(Served') \in Nat
        /\ Cardinality(Served') <= Cardinality(Served)
    BY <1>1, FS_Subset, FS_CardinalityType DEF Capacity
  <2> QED
    BY <1>1, <1>a, <2>1 DEF Capacity
<1>2. CASE Claim
  <2>1. /\ Cardinality(Served) + claims + exited < MaxSessions
        /\ claims' = claims + 1 /\ exited' = exited /\ Served' = Served
    BY <1>2 DEF Claim, Busy, Served, service
  <2> QED
    BY <2>1, <1>a DEF Capacity
<1>3. CASE Dequeue
  <2>1. claims > 0 /\ claims' = claims - 1
    BY <1>3 DEF Dequeue
  <2>2. CASE buffer[tail] = NULL
    <3>1. exited' = exited + 1 /\ Served' = Served
      BY <1>3, <2>2 DEF Dequeue, Served
    <3> QED
      BY <2>1, <3>1, <1>a DEF Capacity
  <2>3. CASE buffer[tail] # NULL
    <3>1. /\ exited' = exited
          /\ buffer[tail] \in Clients
          /\ srv' = [srv EXCEPT ![buffer[tail]] = "taken"]
      BY <1>3, <2>3 DEF Dequeue, Types
    <3>2. Served' = Served \cup {buffer[tail]}
      BY <3>1 DEF Served, Types, InService
    <3>3. /\ IsFiniteSet(Served')
          /\ Cardinality(Served') \in {Cardinality(Served), Cardinality(Served) + 1}
      BY <3>2, FS_AddElement DEF Capacity
    <3> QED
      BY <2>1, <3>1, <3>3, <1>a DEF Capacity
  <2> QED
    BY <2>2, <2>3
<1>4. CASE Stop
  <2>1. Served' = {}
    BY <1>4 DEF Stop, Served, InService, Types
  <2> QED
    BY <1>4, <2>1, FS_EmptySet DEF Stop, Capacity
<1>5. ASSUME NEW c \in Clients, Start(c) \/ ClientStep(c) \/ EndOfInput(c) \/ Interrupt(c)
      PROVE  Capacity'
  <2>1. claims' = claims /\ exited' = exited
    BY <1>5 DEF Start, ClientStep, Register, MakeFifo, OpenFifo, Unlink, EndOfPipe, EndOfInput,
                Interrupt, main, queue
  <2>2. CASE Register(c)
    BY <2>1, <2>2, <1>1 DEF Register, Served, Types, InService
  <2>3. CASE OpenFifo(c)
    BY <2>1, <2>3, <1>1 DEF OpenFifo, At, Served, Types, InService
  <2>4. CASE srv' = srv
    BY <2>1, <2>4, <1>1 DEF Served
  <2> QED
    BY <1>5, <2>2, <2>3, <2>4 DEF Start, ClientStep, MakeFifo, Unlink, EndOfPipe, EndOfInput,
                                  Interrupt, service
<1>6. CASE Reserve \/ Store \/ UNCHANGED vars
  BY <1>6, <1>1 DEF Reserve, Store, vars, main, queue, service, Served
<1>7. ASSUME NEW r \in Clients, WorkerStep(r) \/ Forward(r) \/ CloseSession(r)
      PROVE  Capacity'
  <2>1. claims' = claims /\ exited' = exited
    BY <1>7 DEF WorkerStep, OpenPipe, Answer, EndOfSession, CloseSession, Forward, main, queue
  <2>2. Served' \subseteq Served
    <3>1. CASE OpenPipe(r)
      BY <3>1 DEF OpenPipe, At, Served, Types, InService
    <3>2. CASE Answer(r) \/ EndOfSession(r) \/ CloseSession(r) \/ Forward(r)
      BY <3>2 DEF Answer, EndOfSession, CloseSession, Forward, Close, Served, Types, InService,
                  service
    <3> QED
      BY <1>7, <3>1, <3>2 DEF WorkerStep
  <2> QED
    BY <2>1, <2>2, <1>1
<1> QED
  BY <1>2, <1>3, <1>4, <1>5, <1>6, <1>7 DEF Next

(***************************************************************************)
(* The clients and their FIFOs                                             *)
(***************************************************************************)

(* A client that has not asked is not known to the broker.                 *)
LEMMA AsksStep ==
  ASSUME Types, Asks, Backlog, [Next]_vars
  PROVE  Asks'
<1> USE RegistrationAssumption
<1>1. ASSUME \A d \in Clients : Unsent(d)' => Unsent(d),
             \A d \in Clients : srv[d] = "none" => srv'[d] = "none"
      PROVE  Asks'
  BY <1>1 DEF Asks
<1>2. CASE srv' = srv /\ cl' = cl
  BY <1>1, <1>2 DEF Unsent
<1>3. ASSUME NEW c \in Clients, Start(c) \/ MakeFifo(c) \/ Unlink(c) \/ EndOfPipe(c)
                                  \/ EndOfInput(c) \/ Interrupt(c) \/ OpenFifo(c)
      PROVE  Asks'
  <2>1. \A d \in Clients : d # c => cl'[d] = cl[d]
    BY <1>3 DEF Start, MakeFifo, GoOn, Unlink, EndOfPipe, EndOfInput, Interrupt, OpenFifo, Types
  <2>2. Unsent(c)' => Unsent(c)
    BY <1>3 DEF Start, MakeFifo, GoOn, Program, Unlink, EndOfPipe, EndOfInput, Interrupt,
                OpenFifo, Types, Unsent
  <2>3. \A d \in Clients : srv[d] = "none" => srv'[d] = "none"
    BY <1>3 DEF Start, MakeFifo, Unlink, EndOfPipe, EndOfInput, Interrupt, OpenFifo, At, Types,
                service
  <2> QED
    BY <1>1, <2>1, <2>2, <2>3 DEF Unsent
<1>4. ASSUME NEW c \in Clients, Register(c)
      PROVE  Asks'
  <2>1. \A d \in Clients : d # c => cl'[d] = cl[d] /\ srv'[d] = srv[d]
    BY <1>4 DEF Register, GoOn, Types
  <2>2. ~Unsent(c)'
    BY <1>4 DEF Register, GoOn, Program, Types, Unsent
  <2> QED
    BY <2>1, <2>2 DEF Asks, Unsent
<1>5. CASE Dequeue
  <2>1. cl' = cl /\ \A d \in Clients : srv[d] = "none" => srv'[d] = "none"
    BY <1>5 DEF Dequeue, Types, Backlog, client
  <2> QED
    BY <2>1, <1>1 DEF Unsent
<1>6. ASSUME NEW r \in Clients, WorkerStep(r) \/ Forward(r) \/ CloseSession(r)
      PROVE  Asks'
  <2>1. /\ \A d \in Clients : srv[d] = "none" => srv'[d] = "none"
        /\ \A d \in Clients : cl'[d] = cl[d] \/ cl'[d] = "opened"
    <3>1. CASE OpenPipe(r)
      BY <3>1 DEF OpenPipe, At, Types
    <3>2. CASE Answer(r) \/ EndOfSession(r) \/ CloseSession(r) \/ Forward(r)
      BY <3>2 DEF Answer, EndOfSession, CloseSession, Forward, Close, Types, client, service
    <3> QED
      BY <1>6, <3>1, <3>2 DEF WorkerStep
  <2> QED
    BY <2>1, <1>1 DEF Unsent
<1>7. CASE Stop
  BY <1>7, <1>1 DEF Stop, Unsent, client, Types
<1>8. CASE Reserve \/ Store \/ Claim \/ UNCHANGED vars
  BY <1>8, <1>2 DEF Reserve, Store, Claim, client, service, vars
<1> QED
  BY <1>3, <1>4, <1>5, <1>6, <1>7, <1>8 DEF Next, ClientStep

(* The client steps that matter to the others: where each client goes.     *)
Goes(c) ==
  \/ cl'[c] = cl[c]
  \/ /\ cl[c] = "idle" /\ cl'[c] \in Running
     /\ \A d \in Clients : Pipe[d] = Pipe[c] => cl[d] \notin Running
  \/ cl[c] \in Running /\ cl'[c] \in Running
  \/ cl'[c] = "gone"

(* Clients come one at a time to a name, and nobody comes back.            *)
LEMMA ClientsGo ==
  ASSUME Types, [Next]_vars
  PROVE  \/ \A c \in Clients : cl'[c] = cl[c]
         \/ \E c \in Clients : Goes(c) /\ cl[c] # "gone" /\ \A d \in Clients : d # c => cl'[d] = cl[d]
<1> USE RegistrationAssumption
<1>1. CASE cl' = cl
  BY <1>1
<1>2. ASSUME NEW c \in Clients, Start(c) \/ ClientStep(c) \/ EndOfInput(c) \/ Interrupt(c)
      PROVE  /\ Goes(c)
             /\ (cl' = cl \/ cl[c] # "gone")
             /\ \A d \in Clients : d # c => cl'[d] = cl[d]
  <2>1. CASE Start(c)
    BY <2>1 DEF Start, Goes, Running, Program, Types
  <2>2. CASE Register(c) \/ MakeFifo(c)
    BY <2>2 DEF Register, MakeFifo, GoOn, Goes, Running, Program, Types
  <2>3. CASE OpenFifo(c) \/ Unlink(c)
    BY <2>3 DEF OpenFifo, Unlink, Goes, Running, Types
  <2>4. CASE EndOfPipe(c) \/ EndOfInput(c)
    BY <2>4 DEF EndOfPipe, EndOfInput, Goes, Types
  <2>5. CASE Interrupt(c)
    BY <2>5 DEF Interrupt, Goes, Running, Types
  <2> QED
    BY <1>2, <2>1, <2>2, <2>3, <2>4, <2>5 DEF ClientStep
<1>3. ASSUME NEW r \in Clients, OpenPipe(r), cl' # cl
      PROVE  \E c \in Clients :
               Goes(c) /\ cl[c] # "gone" /\ \A d \in Clients : d # c => cl'[d] = cl[d]
  <2>1. PICK c \in Clients : cl[c] \in {"opening", "opened"} /\ cl' = [cl EXCEPT ![c] = "opened"]
    BY <1>3 DEF OpenPipe, Types
  <2> QED
    BY <2>1 DEF Goes, Running, Types
<1> QED
  BY <1>1, <1>2, <1>3 DEF Next, WorkerStep, Answer, EndOfSession, CloseSession, Forward,
                          Reserve, Store, Claim, Dequeue, Stop, vars, client

(* The broker does not come back.                                          *)
LEMMA StopIsFinal == ASSUME [Next]_vars PROVE up' => up
BY DEF Next, ClientStep, WorkerStep, Start, Register, MakeFifo, OpenFifo, Unlink, EndOfPipe,
        EndOfInput, Interrupt, OpenPipe, Answer, EndOfSession, CloseSession, Forward, Reserve,
        Store, Claim, Dequeue, Stop, vars

LEMMA OneAtATimeStep ==
  ASSUME Types, OneAtATime, [Next]_vars
  PROVE  OneAtATime'
<1>1. CASE \A c \in Clients : cl'[c] = cl[c]
  BY <1>1 DEF OneAtATime
<1>2. ASSUME NEW c \in Clients, Goes(c), \A d \in Clients : d # c => cl'[d] = cl[d]
      PROVE  OneAtATime'
  <2>1. ASSUME NEW d \in Clients, d # c, cl'[c] \in Running, cl'[d] \in Running
        PROVE  Pipe[c] # Pipe[d]
    BY <1>2, <2>1 DEF Goes, OneAtATime, Running
  <2> QED
    BY <1>2, <2>1 DEF OneAtATime
<1> QED
  BY <1>1, <1>2, ClientsGo

(* Who has gone stays gone.                                                *)
LEMMA GoneForGood ==
  ASSUME Types, [Next]_vars, NEW c \in Clients, cl[c] = "gone"
  PROVE  cl'[c] = "gone"
BY ClientsGo DEF Goes

(* Signals are not taken back.                                             *)
LEMMA SignalsStay ==
  ASSUME Types, [Next]_vars, NEW c \in Clients, signals[c] > 0
  PROVE  signals'[c] > 0
<1>1. CASE signals' = signals
  BY <1>1
<1>2. ASSUME NEW d \in Clients, Interrupt(d)
      PROVE  signals'[c] > 0
  BY <1>2 DEF Interrupt, Types
<1> QED
  BY <1>1, <1>2 DEF Next, ClientStep, WorkerStep, Start, Register, MakeFifo, OpenFifo, Unlink,
                    EndOfPipe, EndOfInput, OpenPipe, Answer, EndOfSession, CloseSession,
                    Forward, Reserve, Store, Claim, Dequeue, Stop, vars, client

LEMMA LeftBehindStays ==
  ASSUME Types, [Next]_vars, NEW n, LeftBehind(n)
  PROVE  LeftBehind(n)'
BY GoneForGood, SignalsStay DEF LeftBehind

LEMMA InterruptionStep ==
  ASSUME Types, Interruption, [Next]_vars
  PROVE  Interruption'
<1>1. ASSUME NEW c \in Clients, Interrupt(c)
      PROVE  Interruption'
  <2>1. /\ \A d \in Clients : d # c => cl'[d] = cl[d] /\ signals'[d] = signals[d]
        /\ signals'[c] = signals[c] + 1
        /\ signals[c] \in 0..2
    BY <1>1 DEF Interrupt, Types
  <2> QED
    BY <2>1 DEF Interruption
<1>2. ASSUME signals' = signals, \A c \in Clients : cl'[c] = "interrupted" => cl[c] = "interrupted"
      PROVE  Interruption'
  BY <1>2 DEF Interruption
<1>3. ASSUME NEW c \in Clients, Start(c) \/ ClientStep(c) \/ EndOfInput(c)
      PROVE  Interruption'
  <2>1. signals' = signals
    BY <1>3 DEF Start, ClientStep, Register, MakeFifo, OpenFifo, Unlink, EndOfPipe, EndOfInput
  <2>2. /\ \A d \in Clients : d # c => cl'[d] = cl[d]
        /\ cl'[c] = "interrupted" => cl[c] = "interrupted"
    BY <1>3 DEF Start, ClientStep, Register, MakeFifo, GoOn, Program, OpenFifo, Unlink,
                EndOfPipe, EndOfInput, Types
  <2> QED
    BY <2>1, <2>2, <1>2
<1>4. ASSUME NEW r \in Clients, OpenPipe(r)
      PROVE  Interruption'
  BY <1>4, <1>2 DEF OpenPipe, Types
<1>5. CASE UNCHANGED client
  BY <1>5, <1>2 DEF client
<1> QED
  BY <1>1, <1>3, <1>4, <1>5 DEF Next, WorkerStep, Answer, EndOfSession, CloseSession, Forward,
                                Reserve, Store, Claim, Dequeue, Stop, vars

(* Only mkfifo and unlink change what a name leads to.                     *)
LEMMA FifoChanges ==
  ASSUME [Next]_vars
  PROVE  fifo' = fifo \/ \E c \in Clients : MakeFifo(c) \/ Unlink(c)
BY DEF Next, ClientStep, WorkerStep, Start, Register, OpenFifo, EndOfPipe, EndOfInput,
        Interrupt, OpenPipe, Answer, EndOfSession, CloseSession, Forward, Reserve, Store, Claim,
        Dequeue, Stop, vars, client

(* A client moves on without its FIFO being made or unlinked.              *)
LEMMA KeepsFifo ==
  ASSUME Types, [Next]_vars, NEW c \in Clients, fifo' = fifo, ~MakeFifo(c), ~Unlink(c)
  PROVE  HasFifo(c)' <=> HasFifo(c) /\ cl'[c] # "gone"
<1> USE RegistrationAssumption
<1>1. CASE cl'[c] = cl[c]
  BY <1>1 DEF HasFifo
<1>2. ASSUME NEW d \in Clients, Start(d) \/ Register(d) \/ OpenFifo(d) \/ EndOfPipe(d)
                                \/ EndOfInput(d) \/ Interrupt(d)
      PROVE  HasFifo(c)' <=> HasFifo(c) /\ cl'[c] # "gone"
  <2>1. CASE d # c
    BY <2>1, <1>2, <1>1 DEF Start, Register, GoOn, OpenFifo, EndOfPipe, EndOfInput, Interrupt,
                            Types
  <2>2. CASE d = c /\ (Start(c) \/ Register(c))
    BY <2>2 DEF Start, Register, GoOn, Program, HasFifo, Types
  <2>3. CASE d = c /\ (OpenFifo(c) \/ EndOfPipe(c) \/ EndOfInput(c) \/ Interrupt(c))
    BY <2>3 DEF OpenFifo, EndOfPipe, EndOfInput, Interrupt, HasFifo, Types, Running
  <2> QED
    BY <1>2, <2>1, <2>2, <2>3
<1>3. ASSUME NEW r \in Clients, OpenPipe(r)
      PROVE  HasFifo(c)' <=> HasFifo(c) /\ cl'[c] # "gone"
  BY <1>3 DEF OpenPipe, HasFifo, Types
<1>4. ASSUME NEW d \in Clients, MakeFifo(d) \/ Unlink(d)
      PROVE  cl'[c] = cl[c]
  BY <1>4 DEF MakeFifo, Unlink, GoOn, Types
<1> QED
  BY <1>1, <1>2, <1>3, <1>4 DEF Next, ClientStep, WorkerStep, Answer, EndOfSession,
                                CloseSession, Forward, Reserve, Store, Claim, Dequeue, Stop,
                                vars, client

LEMMA FifoStep ==
  ASSUME Types, OneAtATime, Interruption, OwnName, Creator, Created, Killed, [Next]_vars
  PROVE  OwnName' /\ Creator' /\ Created' /\ Killed'
<1> USE RegistrationAssumption
<1>0. up' => up
  BY StopIsFinal
(* mkfifo                                                                  *)
<1>1. ASSUME NEW c \in Clients, MakeFifo(c), fifo[Pipe[c]] = NULL
      PROVE  OwnName' /\ Creator' /\ Created' /\ Killed'
  <2>1. /\ cl[c] = "making" /\ HasFifo(c)' /\ cl'[c] # "gone"
        /\ \A d \in Clients : d # c => cl'[d] = cl[d]
        /\ Pipe[c] \in PipeNames
        /\ fifo' = [fifo EXCEPT ![Pipe[c]] = c]
        /\ signals' = signals
    BY <1>1 DEF MakeFifo, GoOn, Program, HasFifo, Types
  <2>2. /\ fifo'[Pipe[c]] = c
        /\ \A n \in PipeNames : n # Pipe[c] => fifo'[n] = fifo[n]
    BY <2>1 DEF Types
  <2>3. \A d \in Clients : d # c => (HasFifo(d)' <=> HasFifo(d))
    BY <2>1 DEF HasFifo
  <2>4. OwnName'
    BY <2>2 DEF OwnName
  <2>5. Creator'
    BY <2>1, <2>2, <2>3 DEF Creator
  <2>6. Created'
    BY <1>1, <2>1, <2>2, <2>3 DEF Created
  <2>7. Killed'
    BY <1>0, <2>1, <2>2 DEF Killed
  <2> QED
    BY <2>4, <2>5, <2>6, <2>7
<1>2. ASSUME NEW c \in Clients, MakeFifo(c), fifo[Pipe[c]] # NULL
      PROVE  OwnName' /\ Creator' /\ Created' /\ Killed'
  <2>1. /\ cl[c] = "making" /\ cl'[c] = "gone" /\ fifo' = fifo /\ signals' = signals
        /\ \A d \in Clients : d # c => cl'[d] = cl[d]
    BY <1>2 DEF MakeFifo, Types
  <2>2. fifo[Pipe[c]] # c
    BY <2>1 DEF Creator, HasFifo
  <2> QED
    BY <1>0, <2>1, <2>2 DEF OwnName, Creator, Created, Killed, HasFifo
(* unlink                                                                  *)
<1>3. ASSUME NEW c \in Clients, Unlink(c)
      PROVE  OwnName' /\ Creator' /\ Created' /\ Killed'
  <2>1. /\ HasFifo(c)
        /\ cl[c] \in Running
        /\ cl'[c] \in {"connected", "gone"}
        /\ ~HasFifo(c)'
        /\ \A d \in Clients : d # c => cl'[d] = cl[d]
        /\ Pipe[c] \in PipeNames
        /\ fifo' = [fifo EXCEPT ![Pipe[c]] = NULL]
        /\ signals' = signals
    BY <1>3 DEF Unlink, HasFifo, Running, Types
  <2>2. /\ fifo'[Pipe[c]] = NULL
        /\ \A n \in PipeNames : n # Pipe[c] => fifo'[n] = fifo[n]
    BY <2>1 DEF Types
  <2>3. \A d \in Clients : d # c => (HasFifo(d)' <=> HasFifo(d))
    BY <2>1 DEF HasFifo
  <2>4. \A d \in Clients : d # c /\ HasFifo(d) => Pipe[d] # Pipe[c]
    BY <2>1 DEF OneAtATime, HasFifo, Running
  <2>5. OwnName' /\ Creator'
    BY <2>1, <2>2, <2>3 DEF OwnName, Creator
  <2>6. Created'
    BY <2>1, <2>2, <2>3, <2>4 DEF Created
  <2>7. Killed'
    BY <1>0, <2>1, <2>2 DEF Killed
  <2> QED
    BY <2>5, <2>6, <2>7
<1>4. ASSUME fifo' = fifo, \A c \in Clients : ~MakeFifo(c) /\ ~Unlink(c)
      PROVE  OwnName' /\ Creator' /\ Created' /\ Killed'
  <2>1. \A c \in Clients : HasFifo(c)' <=> HasFifo(c) /\ cl'[c] # "gone"
    BY <1>4, KeepsFifo
  <2>2. \A c \in Clients : cl[c] = "gone" => cl'[c] = "gone"
    BY GoneForGood
  <2>3. ASSUME NEW c \in Clients, up, fifo[Pipe[c]] = c, cl[c] # "gone", cl'[c] = "gone"
        PROVE  up' => signals'[c] > 0
    <3>1. HasFifo(c)
      BY <2>3 DEF Creator
    <3>2. ASSUME NEW d \in Clients, Start(d) \/ Register(d) \/ OpenFifo(d) \/ EndOfPipe(d)
                                    \/ EndOfInput(d)
          PROVE  ~up
      BY <3>1, <3>2, <2>3 DEF Start, Register, GoOn, Program, OpenFifo, EndOfPipe, EndOfInput,
                              HasFifo, Types
    <3>3. ASSUME NEW d \in Clients, Interrupt(d)
          PROVE  signals'[c] > 0
      BY <3>1, <3>3, <2>3 DEF Interrupt, HasFifo, Types
    <3>4. ASSUME NEW r \in Clients, OpenPipe(r)
          PROVE  FALSE
      BY <3>4, <2>3 DEF OpenPipe, Types
    <3> QED
      BY <3>2, <3>3, <3>4, <2>3, <1>4 DEF Next, ClientStep, WorkerStep, Answer, EndOfSession,
                                          CloseSession, Forward, Reserve, Store, Claim, Dequeue,
                                          Stop, vars, client
  <2>4. Killed'
    BY <1>0, <1>4, <2>3, SignalsStay DEF Killed
  <2>5. Creator'
    BY <1>4, <2>1, <2>2 DEF Creator
  <2> QED
    BY <1>4, <2>1, <2>4, <2>5 DEF OwnName, Created
<1> QED
  BY <1>1, <1>2, <1>3, <1>4, FifoChanges

(* A client that is connected has unlinked its FIFO, and nobody makes      *)
(* another one of that name before it leaves.                              *)
LEMMA UnlinkedStep ==
  ASSUME Types, OneAtATime, Unlinked, [Next]_vars
  PROVE  Unlinked'
<1> USE RegistrationAssumption
<1> SUFFICES ASSUME NEW c \in Clients, cl'[c] = "connected"
             PROVE  fifo'[Pipe[c]] = NULL
  BY DEF Unlinked
<1>1. CASE Unlink(c)
  BY <1>1 DEF Unlink, Types
<1>2. ASSUME ~Unlink(c)
      PROVE  cl[c] = "connected"
  <2>1. ASSUME NEW d \in Clients, d # c,
               Start(d) \/ ClientStep(d) \/ EndOfInput(d) \/ Interrupt(d)
        PROVE  cl'[c] = cl[c]
    BY <2>1 DEF Start, ClientStep, Register, MakeFifo, GoOn, OpenFifo, Unlink, EndOfPipe,
                EndOfInput, Interrupt, Types
  <2>2. ASSUME Start(c) \/ Register(c) \/ MakeFifo(c) \/ OpenFifo(c) \/ EndOfPipe(c)
               \/ EndOfInput(c) \/ Interrupt(c)
        PROVE  cl[c] = "connected"
    BY <2>2 DEF Start, Register, MakeFifo, GoOn, Program, OpenFifo, EndOfPipe, EndOfInput,
                Interrupt, Types
  <2>3. ASSUME NEW r \in Clients, OpenPipe(r)
        PROVE  cl'[c] = cl[c]
    BY <2>3 DEF OpenPipe, Types
  <2> QED
    BY <1>2, <2>1, <2>2, <2>3 DEF Next, ClientStep, WorkerStep, Answer, EndOfSession,
                                  CloseSession, Forward, Reserve, Store, Claim, Dequeue, Stop,
                                  vars, client
<1>3. CASE cl[c] = "connected"
  <2>1. fifo[Pipe[c]] = NULL
    BY <1>3 DEF Unlinked
  <2>2. ASSUME NEW d \in Clients, MakeFifo(d)
        PROVE  fifo'[Pipe[c]] = NULL
    <3>1. Pipe[d] # Pipe[c]
      BY <1>3, <2>2 DEF MakeFifo, OneAtATime, Running
    <3> QED
      BY <2>1, <2>2, <3>1 DEF MakeFifo, Types
  <2>3. ASSUME NEW d \in Clients, Unlink(d)
        PROVE  fifo'[Pipe[c]] = NULL
    BY <2>1, <2>3 DEF Unlink, Types
  <2> QED
    BY <2>1, <2>2, <2>3, FifoChanges
<1> QED
  BY <1>1, <1>2, <1>3

(***************************************************************************)
(* The workers                                                             *)
(***************************************************************************)

(* What a step does for request r, by the action that does it: an open may *)
(* let other workers in along with its own.                                *)
Settled(r) == srv'[r] = srv[r] /\ end'[r] = end[r]

Sent(r) == Register(r) /\ up /\ srv[r] = "none" /\ srv'[r] = "queued" /\ end'[r] = end[r]

Fetched(r) == Dequeue /\ srv[r] = "queued" /\ srv'[r] = "taken" /\ end'[r] = end[r]

Dropped(r) == OpenPipe(r) /\ srv[r] = "taken" /\ srv'[r] = "done" /\ end'[r] = end[r]

Entered(r) ==
  /\ OpenPipe(r) /\ up /\ srv[r] = "taken" /\ srv'[r] \in {"opening", "serving"}
  /\ end'[r] \in Clients /\ end'[r] = fifo[Pipe[r]]

Admitted(r) == srv[r] = "opening" /\ srv'[r] = "serving" /\ end'[r] = end[r]

Closed(r) ==
  /\ Answer(r) \/ EndOfSession(r) \/ CloseSession(r)
  /\ srv[r] = "serving" /\ srv'[r] = "done" /\ end'[r] = NULL

Lost(r) == Stop /\ srv'[r] \in {"none", "done"} /\ end'[r] = NULL

LEMMA RequestMoves ==
  ASSUME Types, Asks, Backlog, [Next]_vars, NEW r \in Clients
  PROVE  \/ Settled(r) \/ Sent(r) \/ Fetched(r) \/ Dropped(r) \/ Entered(r) \/ Admitted(r)
         \/ Closed(r) \/ Lost(r)
<1> USE RegistrationAssumption
<1>1. CASE srv' = srv /\ end' = end
  BY <1>1 DEF Settled
<1>2. ASSUME NEW c \in Clients, Register(c)
      PROVE  Settled(r) \/ Sent(r)
  BY <1>2 DEF Register, Settled, Sent, Types, Asks, Unsent
<1>3. ASSUME NEW c \in Clients, OpenFifo(c)
      PROVE  Settled(r) \/ Admitted(r)
  BY <1>3 DEF OpenFifo, At, Settled, Admitted, Types
<1>4. CASE Dequeue
  BY <1>4 DEF Dequeue, Fetched, Settled, Types, Backlog
<1>5. ASSUME NEW w \in Clients, OpenPipe(w)
      PROVE  Settled(r) \/ Dropped(r) \/ Entered(r) \/ Admitted(r)
  <2>1. CASE w # r
    BY <1>5, <2>1 DEF OpenPipe, At, Settled, Admitted, Types
  <2>2. CASE w = r /\ fifo[Pipe[r]] = NULL
    BY <1>5, <2>2 DEF OpenPipe, Dropped, Types
  <2>3. CASE w = r /\ fifo[Pipe[r]] # NULL
    BY <1>5, <2>3 DEF OpenPipe, Entered, Types
  <2> QED
    BY <2>1, <2>2, <2>3
<1>6. ASSUME NEW w \in Clients, Answer(w) \/ EndOfSession(w) \/ CloseSession(w)
      PROVE  Settled(r) \/ Closed(r)
  BY <1>6 DEF Answer, EndOfSession, CloseSession, Close, Settled, Closed, Types
<1>7. CASE Stop
  BY <1>7 DEF Stop, Lost, Types
<1> QED
  BY <1>1, <1>2, <1>3, <1>4, <1>5, <1>6, <1>7
     DEF Next, ClientStep, WorkerStep, Start, MakeFifo, Unlink, EndOfPipe, EndOfInput,
         Interrupt, Reserve, Store, Claim, Forward, vars, service

LEMMA EndsStep ==
  ASSUME Types, Asks, Backlog, OwnName, Ends, [Next]_vars
  PROVE  Ends'
<1> USE RegistrationAssumption
<1> SUFFICES ASSUME NEW r \in Clients
             PROVE  IF srv'[r] \in {"opening", "serving"}
                      THEN end'[r] \in Clients /\ Pipe[end'[r]] = Pipe[r]
                      ELSE end'[r] = NULL
  BY DEF Ends
<1>1. CASE Settled(r) \/ Closed(r) \/ Lost(r)
  BY <1>1 DEF Settled, Closed, Lost, Ends
<1>2. CASE Sent(r) \/ Fetched(r) \/ Dropped(r)
  BY <1>2 DEF Sent, Fetched, Dropped, Ends
<1>3. CASE Entered(r)
  BY <1>3 DEF Entered, OwnName
<1>4. CASE Admitted(r)
  BY <1>4 DEF Admitted, Ends
<1> QED
  BY <1>1, <1>2, <1>3, <1>4, RequestMoves

(***************************************************************************)
(* Whom a worker talks to                                                  *)
(***************************************************************************)

(* The request of a client that shares its name with one that is there:    *)
(* its sender has gone, and somebody was interrupted.                      *)
LEMMA Outlived ==
  ASSUME Types, Asks, OneAtATime, Strays, up,
         NEW r \in Clients, NEW c \in Clients, c # r,
         srv[r] = "taken", Pipe[c] = Pipe[r], cl[c] \in Running
  PROVE  cl[r] = "gone" /\ LeftBehind(Pipe[r])
<1>1. cl[r] # "idle"
  BY DEF Asks, Unsent
<1>2. cl[r] = "gone"
  BY <1>1 DEF OneAtATime, Types
<1> QED
  BY <1>2 DEF Strays

LEMMA StraysStep ==
  ASSUME Types, Asks, OneAtATime, Interruption, OwnName, Creator, Killed, Backlog, Ends, Strays,
         StrayEnds, [Next]_vars
  PROVE  Strays'
<1> USE RegistrationAssumption
<1> SUFFICES ASSUME NEW r \in Clients, up', srv'[r] \in {"queued", "taken", "opening"},
                    cl'[r] \in {"opened", "connected", "gone"}
             PROVE  LeftBehind(Pipe[r])'
  BY DEF Strays
<1>0. up
  BY StopIsFinal
<1>1. ~Sent(r)
  BY DEF Sent, Register, GoOn, Program, Types
<1>2. srv[r] \in {"queued", "taken", "opening"}
  BY <1>1, RequestMoves DEF Settled, Fetched, Dropped, Entered, Admitted, Closed, Lost
<1>3. CASE cl[r] \in {"opened", "connected", "gone"}
  BY <1>0, <1>2, <1>3, LeftBehindStays DEF Strays
<1>4. ASSUME cl[r] \notin {"opened", "connected", "gone"}, MakeFifo(r)
      PROVE  LeftBehind(Pipe[r])'
  <2>1. /\ cl[r] = "making" /\ fifo[Pipe[r]] # NULL /\ signals' = signals
        /\ \A d \in Clients : d # r => cl'[d] = cl[d]
    BY <1>4 DEF MakeFifo, GoOn, Program, Types
  <2>2. PICK d \in Clients : fifo[Pipe[r]] = d /\ Pipe[d] = Pipe[r]
    BY <2>1 DEF Types, OwnName
  <2>3. d # r /\ (HasFifo(d) \/ cl[d] = "gone")
    BY <2>1, <2>2 DEF Creator, HasFifo
  <2>4. cl[d] = "gone"
    BY <2>1, <2>2, <2>3 DEF OneAtATime, HasFifo, Running
  <2>5. signals[d] > 0
    BY <1>0, <2>2, <2>4 DEF Killed
  <2> QED
    BY <2>1, <2>2, <2>3, <2>4, <2>5 DEF LeftBehind
(* r gets in with a worker that is not its own                             *)
<1>5. ASSUME OpenFifo(r)
      PROVE  LeftBehind(Pipe[r])'
  <2>1. PICK w \in At(r) : srv'[w] = "serving"
    BY <1>5 DEF OpenFifo, At, Types
  <2>2. w \in Clients /\ srv[w] \in {"opening", "serving"} /\ end[w] = r /\ w # r
    BY <2>1 DEF At
  <2>3. LeftBehind(Pipe[w]) /\ Pipe[w] = Pipe[r]
    BY <2>2 DEF StrayEnds, Ends
  <2> QED
    BY <2>3, LeftBehindStays
<1>6. ASSUME NEW w \in Clients, OpenPipe(w), cl[r] \notin {"opened", "connected", "gone"}
      PROVE  LeftBehind(Pipe[r])'
  <2>1. /\ fifo[Pipe[w]] = r /\ srv[w] = "taken" /\ srv'[w] = "serving"
        /\ cl[r] = "opening"
    BY <1>6 DEF OpenPipe, At, Types
  <2>2. Pipe[w] = Pipe[r] /\ w # r
    BY <2>1 DEF OwnName
  <2>3. LeftBehind(Pipe[r])
    BY <1>0, <2>1, <2>2, Outlived DEF Running
  <2> QED
    BY <2>3, LeftBehindStays
<1>7. ASSUME Unlink(r) \/ Interrupt(r), cl[r] \notin {"opened", "connected", "gone"}
      PROVE  LeftBehind(Pipe[r])'
  <2>1. cl'[r] = "gone" /\ signals'[r] > 0
    <3>1. CASE Unlink(r)
      BY <1>7, <3>1 DEF Unlink, Interruption, Types
    <3>2. CASE Interrupt(r)
      BY <1>7, <3>2 DEF Interrupt, Types
    <3> QED
      BY <1>7, <3>1, <3>2
  <2> QED
    BY <2>1 DEF LeftBehind
<1>8. ASSUME Start(r) \/ EndOfPipe(r) \/ EndOfInput(r) \/ Register(r),
             cl[r] \notin {"opened", "connected", "gone"}
      PROVE  FALSE
  BY <1>8, <1>0 DEF Start, EndOfPipe, EndOfInput, Register, GoOn, Program, Types
<1>9. ASSUME NEW d \in Clients, d # r, Start(d) \/ ClientStep(d) \/ EndOfInput(d) \/ Interrupt(d)
      PROVE  cl'[r] = cl[r]
  BY <1>9 DEF Start, ClientStep, Register, MakeFifo, GoOn, OpenFifo, Unlink, EndOfPipe,
              EndOfInput, Interrupt, Types
<1>10. CASE cl' = cl
  BY <1>10, <1>3
<1> QED
  BY <1>3, <1>4, <1>5, <1>6, <1>7, <1>8, <1>9, <1>10
     DEF Next, ClientStep, WorkerStep, Answer, EndOfSession, CloseSession, Forward, Reserve,
         Store, Claim, Dequeue, Stop, vars, client

(* A client about to find its name taken gets no further.                  *)
LEMMA MakesInVain ==
  ASSUME Types, OneAtATime, [Next]_vars, NEW r \in Clients,
         cl[r] = "making", fifo[Pipe[r]] # NULL
  PROVE  cl'[r] = "gone" \/ (cl'[r] = "making" /\ fifo'[Pipe[r]] # NULL)
<1> USE RegistrationAssumption
<1>1. cl'[r] \in {"making", "gone"}
  <2>1. ASSUME NEW d \in Clients, d # r,
               Start(d) \/ ClientStep(d) \/ EndOfInput(d) \/ Interrupt(d)
        PROVE  cl'[r] = cl[r]
    BY <2>1 DEF Start, ClientStep, Register, MakeFifo, GoOn, OpenFifo, Unlink, EndOfPipe,
                EndOfInput, Interrupt, Types
  <2>2. ASSUME Start(r) \/ ClientStep(r) \/ EndOfInput(r) \/ Interrupt(r)
        PROVE  cl'[r] \in {"making", "gone"}
    BY <2>2 DEF Start, ClientStep, Register, MakeFifo, OpenFifo, Unlink, EndOfPipe, EndOfInput,
                Interrupt, Types
  <2>3. ASSUME NEW w \in Clients, OpenPipe(w)
        PROVE  cl'[r] = cl[r]
    BY <2>3 DEF OpenPipe, Types
  <2> QED
    BY <2>1, <2>2, <2>3 DEF Next, WorkerStep, Answer, EndOfSession, CloseSession, Forward,
                            Reserve, Store, Claim, Dequeue, Stop, vars, client
<1>2. fifo'[Pipe[r]] # NULL
  <2>1. ASSUME NEW d \in Clients, MakeFifo(d)
        PROVE  fifo'[Pipe[r]] # NULL
    BY <2>1 DEF MakeFifo, Types
  <2>2. ASSUME NEW d \in Clients, Unlink(d)
        PROVE  fifo'[Pipe[r]] # NULL
    <3>1. Pipe[d] # Pipe[r]
      BY <2>2 DEF Unlink, OneAtATime, Running
    <3> QED
      BY <2>2, <3>1 DEF Unlink, Types
  <2> QED
    BY <2>1, <2>2, FifoChanges
<1> QED
  BY <1>1, <1>2

(* A worker comes to another FIFO than its client's by the name alone; it  *)
(* does not matter who lets it in.                                         *)
LEMMA StrayEndsStep ==
  ASSUME Types, Asks, Backlog, OneAtATime, OwnName, Creator, Created, Unlinked, Killed, Strays,
         StrayEnds, [Next]_vars
  PROVE  StrayEnds'
<1> USE RegistrationAssumption
<1> SUFFICES ASSUME NEW r \in Clients, srv'[r] \in {"opening", "serving"}, end'[r] # r
             PROVE  /\ cl'[r] = "gone" \/ (cl'[r] = "making" /\ fifo'[Pipe[r]] # NULL)
                    /\ LeftBehind(Pipe[r])'
  BY DEF StrayEnds
<1>1. CASE Settled(r) \/ Admitted(r)
  <2>1. /\ cl[r] = "gone" \/ (cl[r] = "making" /\ fifo[Pipe[r]] # NULL)
        /\ LeftBehind(Pipe[r])
    BY <1>1 DEF Settled, Admitted, StrayEnds
  <2> QED
    BY <2>1, GoneForGood, MakesInVain, LeftBehindStays
<1>2. CASE Entered(r)
  <2>1. PICK c \in Clients : c = fifo[Pipe[r]] /\ c # r /\ Pipe[c] = Pipe[r] /\ c # NULL
    BY <1>2 DEF Entered, OwnName
  <2>2. up /\ srv[r] = "taken" /\ cl'[r] = cl[r] /\ fifo' = fifo
    BY <1>2, <2>1 DEF Entered, OpenPipe, Types
  <2>3. cl[r] \in {"making", "gone"}
    BY <2>1, <2>2 DEF Asks, Unsent, Created, HasFifo, Unlinked, Types, Running
  <2>4. LeftBehind(Pipe[r])
    <3>1. CASE cl[c] = "gone"
      BY <3>1, <2>1, <2>2 DEF Killed, LeftBehind
    <3>2. CASE HasFifo(c)
      BY <3>2, <2>1, <2>2, Outlived DEF HasFifo, Running
    <3> QED
      BY <2>1, <3>1, <3>2 DEF Creator
  <2> QED
    BY <2>1, <2>2, <2>3, <2>4, LeftBehindStays
<1> QED
  BY <1>1, <1>2, RequestMoves DEF Sent, Fetched, Dropped, Closed, Lost

(***************************************************************************)
(* What a manager leaves with                                              *)
(***************************************************************************)

LEMMA AnsweredStays == ASSUME [Next]_vars PROVE answered \subseteq answered'
BY DEF Next, ClientStep, WorkerStep, Start, Register, MakeFifo, OpenFifo, Unlink, EndOfPipe,
        EndOfInput, Interrupt, OpenPipe, Answer, EndOfSession, CloseSession, Forward, Reserve,
        Store, Claim, Dequeue, Stop, vars, client

LEMMA MaybeStrayStays ==
  ASSUME Types, [Next]_vars, NEW m \in Clients, MaybeStray(m)
  PROVE  MaybeStray(m)'
BY LeftBehindStays DEF MaybeStray

(* At a manager's FIFO, the worker of a publisher or a subscriber is stray.*)
LEMMA StrayAtManager ==
  ASSUME Ends, StrayEnds, NEW r \in Clients, NEW m \in Clients, Kind[m] = "manager",
         srv[r] \in {"opening", "serving"}, end[r] = m, Kind[r] # "manager"
  PROVE  MaybeStray(m)
BY DEF Ends, StrayEnds, MaybeStray

(* A client gets in with a worker at the other end.                        *)
LEMMA GetsIn ==
  ASSUME Types, [Next]_vars, NEW c \in Clients,
         cl[c] \notin {"opened", "connected"}, cl'[c] \in {"opened", "connected"}
  PROVE  \E r \in Clients : srv'[r] = "serving" /\ end'[r] = c
<1> USE RegistrationAssumption
<1>1. ASSUME OpenFifo(c)
      PROVE  \E r \in Clients : srv'[r] = "serving" /\ end'[r] = c
  BY <1>1 DEF OpenFifo, At, Types
<1>2. ASSUME NEW r \in Clients, OpenPipe(r)
      PROVE  srv'[r] = "serving" /\ end'[r] = c
  BY <1>2 DEF OpenPipe, Types
<1>3. ASSUME NEW d \in Clients, d # c, Start(d) \/ ClientStep(d) \/ EndOfInput(d) \/ Interrupt(d)
      PROVE  cl'[c] = cl[c]
  BY <1>3 DEF Start, ClientStep, Register, MakeFifo, GoOn, OpenFifo, Unlink, EndOfPipe,
              EndOfInput, Interrupt, Types
<1>4. ASSUME Start(c) \/ Register(c) \/ MakeFifo(c)
      PROVE  FALSE
  BY <1>4 DEF Start, Register, MakeFifo, GoOn, Program, Types
<1>5. ASSUME Unlink(c) \/ EndOfPipe(c) \/ EndOfInput(c) \/ Interrupt(c)
      PROVE  FALSE
  BY <1>5 DEF Unlink, EndOfPipe, EndOfInput, Interrupt, Types
<1> QED
  BY <1>1, <1>2, <1>3, <1>4, <1>5 DEF Next, ClientStep, WorkerStep, Answer, EndOfSession,
                                      CloseSession, Forward, Reserve, Store, Claim, Dequeue,
                                      Stop, vars, client

(* The FIFO of a manager that no stray worker has come to: what is in it   *)
(* is an answer, and stays there while the manager has it open.            *)
LEMMA PipeStep ==
  ASSUME Types, OwnName, Unlinked, [Next]_vars, NEW m \in Clients,
         \A r \in Clients : srv[r] = "serving" /\ end[r] = m => Kind[r] = "manager"
  PROVE  /\ pipe'[m] = "other" => pipe[m] = "other"
         /\ cl[m] \in {"opened", "connected"} /\ pipe[m] # "empty" => pipe'[m] # "empty"
<1> USE RegistrationAssumption
<1>1. CASE pipe' = pipe
  BY <1>1
<1>2. ASSUME NEW c \in Clients, OpenFifo(c)
      PROVE  /\ pipe'[m] = "other" => pipe[m] = "other"
             /\ cl[m] \in {"opened", "connected"} => pipe'[m] = pipe[m]
  BY <1>2 DEF OpenFifo, Types
<1>3. ASSUME NEW r \in Clients, OpenPipe(r)
      PROVE  /\ pipe'[m] = "other" => pipe[m] = "other"
             /\ cl[m] \in {"opened", "connected"} => pipe'[m] = pipe[m]
  <2>1. pipe'[m] = "other" => pipe[m] = "other"
    BY <1>3 DEF OpenPipe, Types
  <2>2. CASE fifo[Pipe[r]] = m
    <3>1. cl[m] # "connected"
      BY <2>2 DEF OwnName, Unlinked
    <3> QED
      BY <1>3, <2>1, <2>2, <3>1 DEF OpenPipe, Types
  <2>3. CASE fifo[Pipe[r]] # m
    BY <1>3, <2>1, <2>3 DEF OpenPipe, Types
  <2> QED
    BY <2>2, <2>3
<1>4. ASSUME NEW r \in Clients, Answer(r)
      PROVE  pipe'[m] = pipe[m] \/ (pipe[m] = "empty" /\ pipe'[m] = "answer")
  BY <1>4 DEF Answer, Put, Types
<1>5. ASSUME NEW r \in Clients, Forward(r) \/ EndOfSession(r)
      PROVE  pipe'[m] = pipe[m]
  <2>1. end[r] # m
    BY <1>5 DEF Forward, EndOfSession
  <2> QED
    BY <1>5, <2>1 DEF Forward, Put, EndOfSession, Types
<1> QED
  BY <1>1, <1>2, <1>3, <1>4, <1>5 DEF Next, ClientStep, WorkerStep, Start, Register, MakeFifo,
                                      Unlink, EndOfPipe, EndOfInput, Interrupt, CloseSession,
                                      Reserve, Store, Claim, Dequeue, Stop, vars

(* A worker that answers a manager leaves the answer in its FIFO.          *)
LEMMA AnswerIsThere ==
  ASSUME Types, NEW r \in Clients, NEW m \in Clients, Answer(r), end[r] = m, Kind[m] = "manager",
         cl[m] \in {"opened", "connected"}
  PROVE  pipe'[m] # "empty"
<1>1. IsRead(m)
  BY DEF IsRead, ClientReads, Inside
<1> QED
  BY <1>1 DEF Answer, Put, Types

LEMMA AttendedStep ==
  ASSUME Types, Asks, Backlog, OwnName, Unlinked, Ends, StrayEnds, Ends', StrayEnds', Attended,
         [Next]_vars
  PROVE  Attended'
<1> USE RegistrationAssumption
<1> SUFFICES ASSUME NEW m \in Clients, up', Kind[m] = "manager", ~MaybeStray(m)'
             PROVE  /\ pipe'[m] # "other"
                    /\ cl'[m] \in {"opened", "connected"} => Answering(m)' \/ pipe'[m] # "empty"
  BY DEF Attended
<1>1. /\ up /\ ~Stop
      /\ pipe[m] # "other"
      /\ cl[m] \in {"opened", "connected"} => Answering(m) \/ pipe[m] # "empty"
  BY StopIsFinal, MaybeStrayStays DEF Attended, Stop
<1>2. \A r \in Clients : srv[r] \in {"opening", "serving"} /\ end[r] = m => Kind[r] = "manager"
  BY StrayAtManager, MaybeStrayStays
<1>3. \A r \in Clients : srv'[r] = "serving" /\ end'[r] = m => Kind[r] = "manager"
  BY DEF Ends, StrayEnds, MaybeStray
<1>4. /\ pipe'[m] # "other"
      /\ cl[m] \in {"opened", "connected"} /\ pipe[m] # "empty" => pipe'[m] # "empty"
  BY <1>1, <1>2, PipeStep
<1>5. ASSUME cl[m] \notin {"opened", "connected"}, cl'[m] \in {"opened", "connected"}
      PROVE  Answering(m)'
  BY <1>3, <1>5, GetsIn DEF Answering
<1>6. ASSUME cl[m] \in {"opened", "connected"}, Answering(m)
      PROVE  Answering(m)' \/ pipe'[m] # "empty"
  <2>1. PICK r \in Clients : srv[r] = "serving" /\ end[r] = m /\ Kind[r] = "manager"
    BY <1>6 DEF Answering
  <2>2. CASE Settled(r)
    BY <2>1, <2>2 DEF Settled, Answering
  <2>3. CASE Closed(r)
    <3>1. Answer(r)
      BY <2>1, <2>3 DEF Closed, EndOfSession, CloseSession
    <3> QED
      BY <1>6, <2>1, <3>1, AnswerIsThere
  <2> QED
    BY <1>1, <2>1, <2>2, <2>3, RequestMoves DEF Sent, Fetched, Dropped, Entered, Admitted, Lost
<1> QED
  BY <1>1, <1>4, <1>5, <1>6

LEMMA ManagerLeavesAnsweredStep ==
  ASSUME Types, OneAtATime, Interruption, OwnName, Creator, Created, Killed, Attended,
         ManagerLeavesAnswered, [Next]_vars
  PROVE  ManagerLeavesAnswered'
<1> USE RegistrationAssumption
<1> DEFINE Left(m) == \E d \in Clients : fifo[Pipe[m]] = d /\ cl[d] = "gone" /\ signals[d] > 0
<1> SUFFICES ASSUME NEW m \in Clients, up', Kind[m] = "manager", cl'[m] = "gone"
             PROVE  m \in answered' \/ signals'[m] > 0 \/ Left(m)' \/ MaybeStray(m)'
  BY DEF ManagerLeavesAnswered, MaybeStray
<1>0. up
  BY StopIsFinal
<1>1. ASSUME Left(m)
      PROVE  Left(m)'
  <2>1. PICK d \in Clients : fifo[Pipe[m]] = d /\ cl[d] = "gone" /\ signals[d] > 0
    BY <1>1
  <2>2. cl'[d] = "gone" /\ signals'[d] > 0
    BY <2>1, GoneForGood, SignalsStay
  <2>3. ASSUME NEW c \in Clients, MakeFifo(c)
        PROVE  fifo'[Pipe[m]] = d
    BY <2>1, <2>3 DEF MakeFifo, Types
  <2>4. ASSUME NEW c \in Clients, Unlink(c)
        PROVE  fifo'[Pipe[m]] = d
    <3>1. fifo[Pipe[c]] = c /\ cl[c] # "gone" /\ fifo' = [fifo EXCEPT ![Pipe[c]] = NULL]
      BY <2>4 DEF Unlink, Created, HasFifo
    <3>2. Pipe[c] # Pipe[m]
      BY <2>1, <3>1
    <3> QED
      BY <2>1, <3>1, <3>2 DEF Types
  <2>5. fifo'[Pipe[m]] = d
    BY <2>1, <2>3, <2>4, FifoChanges
  <2> QED
    BY <2>2, <2>5
<1>2. CASE cl[m] = "gone"
  <2>1. m \in answered \/ signals[m] > 0 \/ Left(m) \/ MaybeStray(m)
    BY <1>0, <1>2 DEF ManagerLeavesAnswered, MaybeStray
  <2> HIDE DEF Left
  <2> QED
    BY <2>1, <1>1, AnsweredStays, SignalsStay, MaybeStrayStays
<1>3. ASSUME MakeFifo(m)
      PROVE  Left(m)'
  <2>1. /\ cl[m] = "making" /\ fifo[Pipe[m]] # NULL /\ signals' = signals /\ fifo' = fifo
        /\ \A d \in Clients : d # m => cl'[d] = cl[d]
    BY <1>3 DEF MakeFifo, GoOn, Program, Types
  <2>2. PICK d \in Clients : fifo[Pipe[m]] = d /\ Pipe[d] = Pipe[m]
    BY <2>1 DEF Types, OwnName
  <2>3. d # m /\ (HasFifo(d) \/ cl[d] = "gone")
    BY <2>1, <2>2 DEF Creator, HasFifo
  <2>4. cl[d] = "gone"
    BY <2>1, <2>2, <2>3 DEF OneAtATime, HasFifo, Running
  <2>5. signals[d] > 0
    BY <1>0, <2>2, <2>4 DEF Killed
  <2> QED
    BY <2>1, <2>2, <2>3, <2>4, <2>5
<1>4. ASSUME EndOfPipe(m)
      PROVE  m \in answered' \/ MaybeStray(m)'
  <2>1. /\ cl[m] = "connected"
        /\ pipe[m] = "answer" => m \in answered'
        /\ pipe[m] # "empty" \/ ~IsWritten(m)
    BY <1>4 DEF EndOfPipe
  <2>2. Answering(m) => IsWritten(m)
    BY DEF Answering, IsWritten, At, WorkerReads
  <2>3. pipe[m] = "answer" \/ MaybeStray(m)
    BY <1>0, <2>1, <2>2 DEF Attended, Types
  <2> QED
    BY <2>1, <2>3, MaybeStrayStays
<1>5. ASSUME Unlink(m), cl[m] # "gone"
      PROVE  signals'[m] > 0
  BY <1>5 DEF Unlink, Interruption, Types
<1>6. ASSUME Interrupt(m), cl[m] # "gone"
      PROVE  signals'[m] > 0
  BY <1>6 DEF Interrupt, Types
<1>7. ASSUME Start(m) \/ Register(m) \/ OpenFifo(m) \/ EndOfInput(m)
      PROVE  FALSE
  BY <1>7, <1>0 DEF Start, Register, OpenFifo, EndOfInput, GoOn, Program, Types
<1>8. ASSUME NEW d \in Clients, d # m, Start(d) \/ ClientStep(d) \/ EndOfInput(d) \/ Interrupt(d)
      PROVE  cl'[m] = cl[m]
  BY <1>8 DEF Start, ClientStep, Register, MakeFifo, GoOn, OpenFifo, Unlink, EndOfPipe,
              EndOfInput, Interrupt, Types
<1>9. ASSUME NEW r \in Clients, OpenPipe(r)
      PROVE  cl[m] = "gone"
  BY <1>9 DEF OpenPipe, Types
<1> HIDE DEF Left
<1> QED
  BY <1>2, <1>3, <1>4, <1>5, <1>6, <1>7, <1>8, <1>9
     DEF Next, ClientStep, WorkerStep, Answer, EndOfSession, CloseSession, Forward, Reserve,
         Store, Claim, Dequeue, Stop, vars, client

(***************************************************************************)
(* The theorems                                                            *)
(***************************************************************************)

LEMMA InitIInv == ASSUME Init PROVE IInv
<1> USE RegistrationAssumption
<1>1. Types
  BY EmptySeq DEF Init, Types, Index
<1>2. Capacity
  <2>1. Served = {}
    BY DEF Init, Served, InService
  <2> QED
    BY <2>1, FS_EmptySet DEF Init, Capacity
<1>3. Backlog
  BY EmptySeq DEF Init, Backlog
<1>4. ClientInv
  BY DEF Init, ClientInv, Asks, OneAtATime, Interruption, OwnName, Creator, Created, Unlinked,
          Killed, HasFifo, Running
<1>5. Ends /\ Strays /\ StrayEnds /\ Attended /\ ManagerLeavesAnswered
  BY DEF Init, Ends, Strays, StrayEnds, Attended, ManagerLeavesAnswered
<1> QED
  BY <1>1, <1>2, <1>3, <1>4, <1>5 DEF IInv

LEMMA IInvStep == ASSUME IInv, [Next]_vars PROVE IInv'
<1>1. Types' /\ Capacity' /\ Backlog'
  BY TypesStep, CapacityStep, BacklogStep DEF IInv, ClientInv
<1>2. ClientInv'
  BY AsksStep, OneAtATimeStep, InterruptionStep, FifoStep, UnlinkedStep DEF IInv, ClientInv
<1>3. Ends' /\ Strays' /\ StrayEnds'
  BY EndsStep, StraysStep, StrayEndsStep DEF IInv, ClientInv
<1>4. Attended' /\ ManagerLeavesAnswered'
  BY <1>3, AttendedStep, ManagerLeavesAnsweredStep DEF IInv, ClientInv
<1> QED
  BY <1>1, <1>2, <1>3, <1>4 DEF IInv

LEMMA Invariance == Spec => []IInv
BY InitIInv, IInvStep, PTL DEF Spec

(* Every variable keeps its type, the queue counts max_sessions requests at*)
(* most, its indices stay within it, and no more than max_sessions workers *)
(* have a request, are in pcq_dequeue or have ended, for any number of     *)
(* clients (producer-consumer.c:53-103, mbroker.c:116-140).                *)
THEOREM TypeCorrect == Spec => []TypeOK
<1>1. IInv => TypeOK
  BY DEF IInv, Types, Capacity, TypeOK, Busy, Served
<1> QED
  BY <1>1, Invariance, PTL

(* A worker serves the client that asked; a request goes astray only when  *)
(* its sender has gone or is about to find its name taken, and a client of *)
(* that name was interrupted before, however often the name is used, and   *)
(* whether client or worker completes the open (mbroker.c:170, :209, :255).*)
THEOREM SenderServed == Spec => []ServesSender
<1>1. IInv => ServesSender
  BY DEF IInv, StrayEnds, ServesSender
<1> QED
  BY <1>1, Invariance, PTL

(* A manager that runs to its end while the broker runs has its answer,    *)
(* but for the exceptions ManagerLeavesAnswered names (manager.c:134-158). *)
THEOREM ManagersAnswered == Spec => []ManagerLeavesAnswered
<1>1. IInv => ManagerLeavesAnswered
  BY DEF IInv
<1> QED
  BY <1>1, Invariance, PTL

(***************************************************************************)
(* The refinement of Rendezvous                                            *)
(***************************************************************************)

Insiders == {c \in Clients : Inside(c)}

Session(r) ==
  CASE srv[r] = "serving" -> end[r]
    [] srv[r] = "done"    -> "over"
    [] OTHER              -> NULL

Sessions == [r \in Clients |-> Session(r)]

(* The two ends of a FIFO, as Rendezvous sees them.                        *)
ReadAt(c) ==
  (c \in Insiders /\ ClientReads(c)) \/ \E r \in Clients : WorkerReads(r) /\ Sessions[r] = c

WrittenAt(c) ==
  (c \in Insiders /\ ~ClientReads(c)) \/ \E r \in Clients : ~WorkerReads(r) /\ Sessions[r] = c

(* The actions of Rendezvous, under the refinement mapping.                *)
LEMMA MeetingActions ==
  ASSUME \/ Insiders' = Insiders /\ Sessions' = Sessions
         \/ \E c \in Insiders : Insiders' = Insiders \ {c} /\ Sessions' = Sessions
         \/ \E c \in Clients :
              \E C \in SUBSET ({c} \ Insiders), R \in SUBSET {r \in Clients : Sessions[r] = NULL} :
                /\ Insiders' = Insiders \cup C
                /\ Sessions' = [r \in Clients |-> IF r \in R THEN c ELSE Sessions[r]]
                /\ ReadAt(c)' /\ WrittenAt(c)'
         \/ \E R \in SUBSET Clients :
              /\ Insiders' = Insiders
              /\ Sessions' = [r \in Clients |-> IF r \in R THEN "over" ELSE Sessions[r]]
  PROVE  [Meeting!Next]_(Meeting!rvars)
<1>1. ASSUME Insiders' = Insiders, Sessions' = Sessions
      PROVE  UNCHANGED Meeting!rvars
  BY <1>1 DEF Meeting!rvars, Insiders, Sessions, Session
<1>2. ASSUME NEW c \in Insiders, Insiders' = Insiders \ {c}, Sessions' = Sessions
      PROVE  Meeting!Next
  <2>1. Meeting!Leave(c)
    BY <1>2 DEF Meeting!Leave, Insiders, Sessions, Session
  <2> QED
    BY <2>1 DEF Meeting!Next, Insiders
<1>3. ASSUME NEW c \in Clients,
             NEW C \in SUBSET ({c} \ Insiders),
             NEW R \in SUBSET {r \in Clients : Sessions[r] = NULL},
             Insiders' = Insiders \cup C,
             Sessions' = [r \in Clients |-> IF r \in R THEN c ELSE Sessions[r]],
             ReadAt(c)', WrittenAt(c)'
      PROVE  Meeting!Next
  <2>1. Meeting!IsRead(c)' /\ Meeting!IsWritten(c)'
    BY <1>3 DEF Meeting!IsRead, Meeting!IsWritten, ReadAt, WrittenAt, Insiders, Sessions,
                Session
  <2>2. Meeting!Enter(c, C, R)
    BY <1>3, <2>1 DEF Meeting!Enter, Insiders, Sessions, Session
  <2> QED
    BY <2>2 DEF Meeting!Next, Insiders, Sessions, Session
<1>4. ASSUME NEW R \in SUBSET Clients, Insiders' = Insiders,
             Sessions' = [r \in Clients |-> IF r \in R THEN "over" ELSE Sessions[r]]
      PROVE  Meeting!Next
  <2>1. Meeting!Finish(R)
    BY <1>4 DEF Meeting!Finish, Insiders, Sessions, Session
  <2> QED
    BY <2>1 DEF Meeting!Next
<1> QED
  BY <1>1, <1>2, <1>3, <1>4

(* A client enters open and gets in with the workers at the other end.     *)
LEMMA ClientMeets ==
  ASSUME Types, NEW c \in Clients, OpenFifo(c)
  PROVE  [Meeting!Next]_(Meeting!rvars)
<1> DEFINE W == {r \in At(c) : Opposite(r, c)}
           R == {r \in W : srv[r] = "opening"}
<1>1. /\ cl[c] = "to_open"
      /\ cl' = [cl EXCEPT ![c] = IF W = {} THEN "opening" ELSE "opened"]
      /\ srv' = [r \in Clients |-> IF r \in W THEN "serving" ELSE srv[r]]
      /\ end' = end
  BY DEF OpenFifo
<1>2. \A r \in W : r \in Clients /\ srv[r] \in {"opening", "serving"} /\ end[r] = c /\ Opposite(r, c)
  BY DEF At
<1>3. R \in SUBSET {r \in Clients : Sessions[r] = NULL}
  BY <1>2 DEF Sessions, Session
<1>4. CASE W = {}
  <2>1. Insiders' = Insiders /\ Sessions' = Sessions
    BY <1>1, <1>4 DEF Insiders, Inside, Sessions, Session, Types
  <2> QED
    BY <2>1, MeetingActions
<1>5. ASSUME W # {}
      PROVE  [Meeting!Next]_(Meeting!rvars)
  <2>1. /\ {c} \in SUBSET ({c} \ Insiders)
        /\ Insiders' = Insiders \cup {c} /\ c \in Insiders'
    BY <1>1, <1>5 DEF Insiders, Inside, Types
  <2>2. \A r \in Clients : Session(r)' = IF r \in R THEN c ELSE Session(r)
    BY <1>1, <1>2 DEF Session
  <2>3. Sessions' = [r \in Clients |-> IF r \in R THEN c ELSE Sessions[r]]
    BY <2>2 DEF Sessions
  <2>4. PICK w \in W : TRUE
    BY <1>5
  <2>5. w \in Clients /\ Sessions'[w] = c /\ WorkerReads(w) # ClientReads(c)
    BY <1>1, <1>2, <2>4 DEF Sessions, Session, Opposite
  <2>6. ReadAt(c)' /\ WrittenAt(c)'
    BY <2>1, <2>5 DEF ReadAt, WrittenAt, WorkerReads, ClientReads
  <2> HIDE DEF W, R
  <2> QED
    BY <1>3, <2>1, <2>3, <2>6, MeetingActions
<1> QED
  BY <1>4, <1>5

(* A worker opens a FIFO and gets in with its client, with workers at the  *)
(* other end, or with both.                                                *)
LEMMA WorkerMeets ==
  ASSUME Types, NEW r \in Clients, OpenPipe(r)
  PROVE  [Meeting!Next]_(Meeting!rvars)
<1> USE RegistrationAssumption
<1>1. Sessions[r] = NULL
  BY DEF OpenPipe, Sessions, Session
<1>2. CASE fifo[Pipe[r]] = NULL
  <2>1. Insiders' = Insiders /\ srv' = [srv EXCEPT ![r] = "done"] /\ end' = end
    BY <1>2 DEF OpenPipe, Insiders, Inside, Types
  <2>2. \A q \in Clients : Session(q)' = IF q \in {r} THEN "over" ELSE Session(q)
    BY <2>1 DEF Session, Types
  <2>3. Sessions' = [q \in Clients |-> IF q \in {r} THEN "over" ELSE Sessions[q]]
    BY <2>2 DEF Sessions
  <2> QED
    BY <2>1, <2>3, MeetingActions
<1>3. ASSUME fifo[Pipe[r]] # NULL
      PROVE  [Meeting!Next]_(Meeting!rvars)
  <2>0. PICK c \in Clients : c = fifo[Pipe[r]]
    BY <1>3 DEF Types
  <2> DEFINE W == {q \in At(c) : WorkerReads(q) # WorkerReads(r)}
             meets == cl[c] \in {"opening", "opened"} /\ Opposite(r, c)
             R == {r} \cup {q \in W : srv[q] = "opening"}
             C == IF meets THEN {c} \ Insiders ELSE {}
  <2>1. /\ c \in Clients /\ srv[r] = "taken"
        /\ end' = [end EXCEPT ![r] = c]
        /\ cl' = [cl EXCEPT ![c] = IF meets THEN "opened" ELSE @]
        /\ srv' = IF meets \/ W # {}
                  THEN [q \in Clients |-> IF q \in W \cup {r} THEN "serving" ELSE srv[q]]
                  ELSE [srv EXCEPT ![r] = "opening"]
    BY <1>3, <2>0 DEF OpenPipe, Types
  <2>2. \A q \in W : /\ q \in Clients /\ srv[q] \in {"opening", "serving"} /\ end[q] = c
                     /\ WorkerReads(q) # WorkerReads(r)
    BY DEF At
  <2>3. r \notin W
    BY <2>1, <2>2
  <2> HIDE DEF W
  <2>4. ASSUME ~meets, W = {}
        PROVE  [Meeting!Next]_(Meeting!rvars)
    <3>1. cl' = cl /\ srv' = [srv EXCEPT ![r] = "opening"] /\ end' = [end EXCEPT ![r] = c]
      BY <2>1, <2>4 DEF Types
    <3>2. \A q \in Clients : Session(q)' = Session(q)
      BY <2>1, <3>1 DEF Session, Types
    <3>3. Insiders' = Insiders /\ Sessions' = Sessions
      BY <3>1, <3>2 DEF Insiders, Inside, Sessions
    <3> QED
      BY <3>3, MeetingActions
  <2>5. ASSUME meets \/ W # {}
        PROVE  [Meeting!Next]_(Meeting!rvars)
    <3>1. /\ srv' = [q \in Clients |-> IF q \in W \cup {r} THEN "serving" ELSE srv[q]]
          /\ end' = [end EXCEPT ![r] = c]
      BY <2>1, <2>5
    <3>2. C \in SUBSET ({c} \ Insiders) /\ Insiders' = Insiders \cup C
      BY <2>1 DEF Insiders, Inside, Types
    <3>3. R \in SUBSET {q \in Clients : Sessions[q] = NULL}
      BY <1>1, <2>2 DEF Sessions, Session
    <3>4. \A q \in Clients : Session(q)' = IF q \in R THEN c ELSE Session(q)
      BY <2>1, <2>2, <2>3, <3>1 DEF Session, Types
    <3>5. Sessions' = [q \in Clients |-> IF q \in R THEN c ELSE Sessions[q]]
      BY <3>4 DEF Sessions
    <3>6. Sessions'[r] = c
      BY <3>5
    <3>7. ReadAt(c)' /\ WrittenAt(c)'
      <4>1. CASE meets
        <5>1. c \in Insiders' /\ WorkerReads(r) # ClientReads(c)
          BY <2>1, <4>1 DEF Insiders, Inside, Opposite, Types
        <5> QED
          BY <3>6, <5>1 DEF ReadAt, WrittenAt, WorkerReads, ClientReads
      <4>2. CASE W # {}
        <5>1. PICK q \in W : TRUE
          BY <4>2
        <5>2. q \in Clients /\ Sessions'[q] = c /\ WorkerReads(q) # WorkerReads(r)
          BY <2>2, <2>3, <3>1, <5>1 DEF Sessions, Session, Types
        <5> QED
          BY <3>6, <5>2 DEF ReadAt, WrittenAt, WorkerReads
      <4> QED
        BY <2>5, <4>1, <4>2
    <3> HIDE DEF meets, R, C
    <3> QED
      BY <2>1, <3>2, <3>3, <3>5, <3>7, MeetingActions
  <2> QED
    BY <2>4, <2>5
<1> QED
  BY <1>2, <1>3

LEMMA MeetingStep ==
  ASSUME Types, Asks, Backlog, [Next]_vars
  PROVE  [Meeting!Next]_(Meeting!rvars)
<1> USE RegistrationAssumption
<1>0. \A r \in Clients :
        Settled(r) \/ Sent(r) \/ Fetched(r) => Session(r)' = Session(r)
  BY DEF Settled, Sent, Fetched, Session
<1>1. ASSUME NEW c \in Clients, Start(c) \/ Register(c) \/ MakeFifo(c) \/ Unlink(c)
                                \/ EndOfPipe(c) \/ EndOfInput(c) \/ Interrupt(c)
      PROVE  [Meeting!Next]_(Meeting!rvars)
  <2>1. Sessions' = Sessions
    <3>1. \A r \in Clients : Settled(r) \/ Sent(r)
      BY <1>1 DEF Start, Register, MakeFifo, Unlink, EndOfPipe, EndOfInput, Interrupt, Settled,
                  Sent, service, Types, Asks, Unsent
    <3> QED
      BY <3>1, <1>0 DEF Sessions
  <2>2. \A d \in Clients : d # c => cl'[d] = cl[d]
    BY <1>1 DEF Start, Register, MakeFifo, GoOn, Unlink, EndOfPipe, EndOfInput, Interrupt, Types
  <2>3. Inside(c)' => Inside(c)
    BY <1>1 DEF Start, Register, MakeFifo, GoOn, Program, Unlink, EndOfPipe, EndOfInput,
                Interrupt, Types, Inside
  <2>4. Insiders' = Insiders \/ (c \in Insiders /\ Insiders' = Insiders \ {c})
    BY <2>2, <2>3 DEF Insiders, Inside
  <2> QED
    BY <2>1, <2>4, MeetingActions
<1>2. ASSUME NEW c \in Clients, OpenFifo(c)
      PROVE  [Meeting!Next]_(Meeting!rvars)
  BY <1>2, ClientMeets
<1>3. ASSUME NEW r \in Clients, OpenPipe(r)
      PROVE  [Meeting!Next]_(Meeting!rvars)
  BY <1>3, WorkerMeets
<1>4. ASSUME cl' = cl, \A r \in Clients : Settled(r) \/ Fetched(r)
      PROVE  [Meeting!Next]_(Meeting!rvars)
  BY <1>0, <1>4, MeetingActions DEF Insiders, Inside, Sessions
<1>5. CASE Reserve \/ Store \/ Claim \/ Dequeue \/ UNCHANGED vars
  <2>1. cl' = cl /\ end' = end
    BY <1>5 DEF Reserve, Store, Claim, Dequeue, vars, client, service
  <2>2. \A r \in Clients : Settled(r) \/ Fetched(r)
    BY <1>5 DEF Reserve, Store, Claim, Dequeue, vars, service, Settled, Fetched, Types, Backlog
  <2> QED
    BY <2>1, <2>2, <1>4
<1>6. ASSUME NEW r \in Clients, Answer(r) \/ EndOfSession(r) \/ CloseSession(r)
      PROVE  [Meeting!Next]_(Meeting!rvars)
  <2>1. /\ Insiders' = Insiders
        /\ srv' = [srv EXCEPT ![r] = "done"] /\ end' = [end EXCEPT ![r] = NULL]
    BY <1>6 DEF Answer, EndOfSession, CloseSession, Close, client, Insiders, Inside
  <2>2. \A q \in Clients : Session(q)' = IF q \in {r} THEN "over" ELSE Session(q)
    BY <2>1 DEF Session, Types
  <2>3. Sessions' = [q \in Clients |-> IF q \in {r} THEN "over" ELSE Sessions[q]]
    BY <2>2 DEF Sessions
  <2> QED
    BY <2>1, <2>3, MeetingActions
<1>7. ASSUME NEW r \in Clients, Forward(r)
      PROVE  [Meeting!Next]_(Meeting!rvars)
  BY <1>7, <1>4 DEF Forward, client, service, Settled
<1>8. CASE Stop
  <2> DEFINE R == {r \in Clients : srv[r] # "none"}
  <2>1. Insiders' = Insiders
    BY <1>8 DEF Stop, client, Insiders, Inside
  <2>2. \A q \in Clients : Session(q)' = IF q \in R THEN "over" ELSE Session(q)
    BY <1>8 DEF Stop, Session, Types
  <2>3. Sessions' = [q \in Clients |-> IF q \in R THEN "over" ELSE Sessions[q]]
    BY <2>2 DEF Sessions
  <2>4. R \in SUBSET Clients
    OBVIOUS
  <2> HIDE DEF R
  <2> QED
    BY <2>1, <2>3, <2>4, MeetingActions
<1> QED
  BY <1>1, <1>2, <1>3, <1>5, <1>6, <1>7, <1>8 DEF Next, ClientStep, WorkerStep

(* Nobody, client or worker, gets in at a FIFO that is not then open at    *)
(* both ends, and no request is served twice: the blocking opens implement *)
(* the rendezvous, two workers completing each other's included, for any   *)
(* number of clients, names and workers (mbroker.c:170, :209, :255,        *)
(* pub.c:66, sub.c:70, manager.c:134).                                     *)
THEOREM RendezvousImplemented == Spec => ImplementsRendezvous
<1>1. Init => Meeting!Init
  BY DEF Init, Meeting!Init, Inside
<1>2. IInv /\ [Next]_vars => [Meeting!Next]_(Meeting!rvars)
  BY MeetingStep DEF IInv, ClientInv
<1> QED
  BY <1>1, <1>2, Invariance, PTL DEF Spec, ImplementsRendezvous, Meeting!Spec
=============================================================================
