------------------------------ MODULE Listing ------------------------------
(***************************************************************************)
(* "manager list", from the moment both ends of the manager's FIFO are     *)
(* open: handle_packet_list_msg_box of mbroker/mbroker.c, which writes one *)
(* packet per box with messages_lock held, and execute_command_list of     *)
(* manager/manager.c, which collects the packets in a vector.  The FIFO    *)
(* between them holds PipeSize packets: a manager that does not read holds *)
(* up the writer, and with it whoever needs messages_lock.                 *)
(*                                                                         *)
(* Box names are numbers, in the order of strcmp; 0 is the empty name,     *)
(* which nothing forbids and which also marks the answer of an empty list. *)
(***************************************************************************)
EXTENDS Vector, SequencesExt

CONSTANTS
  Managers,     \* runs of "manager list"
  BoxNames,     \* names of boxes
  InitialLists, \* the lists of boxes to begin with, in the order of creation
  Churn,        \* names of the boxes that are removed meanwhile
  Suspendable,  \* client programs that may be stopped (ctrl-Z) for good
  ListCapacity, \* capacity the manager's vector starts with
  PipeSize,     \* packets a FIFO holds
  MaxChanges,   \* bound: creations and removals
  MaxFaults,    \* bound: client programs interrupted or suspended, in all
  Unread,       \* what malloc leaves in a packet
  Nobody        \* holder of a free mutex

EmptyName == 0

ASSUME ListingAssumption ==
  /\ BoxNames \subseteq Nat /\ Churn \subseteq BoxNames
  /\ InitialLists \subseteq Seq(BoxNames)
  /\ \A l \in InitialLists : IsInjective(l)
  /\ PipeSize \in Nat \ {0} /\ MaxChanges \in Nat /\ MaxFaults \in Nat
  /\ ListCapacity \in Nat /\ ListCapacity <= VectorLimit
  /\ Nobody \notin Managers

(* list_msg_box_response_packet.                                           *)
Packets == [box_name : BoxNames \cup {EmptyName}, is_last : BOOLEAN]

VARIABLES
  up,           \* whether the broker runs
  boxes,        \* msg_boxes: names, first to last
  changes,      \* creations and removals so far
  messagesLock, \* holder of messages_lock
  stopped,      \* the programs that are suspended
  faults,       \* programs interrupted or suspended so far
  worker,       \* worker[m]: "dequeued", "writing", or "closed": the handler has returned
  it,           \* it[m]: the box the handler writes next
  answer,       \* answer[m]: the FIFO of m
  manager,      \* manager[m]: where m is, or how it ended
  v,            \* v[m]: its vector
  snapshot      \* history: snapshot[m], the list when its handler took the lock

broker  == <<up, boxes, changes, messagesLock>>
handler == <<worker, it, snapshot>>
program == <<manager, v>>
clients == <<stopped, faults>>
lvars == <<broker, clients, handler, answer, program>>

Running == {"push", "read"}

ListingTypeOK ==
  /\ up \in BOOLEAN
  /\ boxes \in Seq(BoxNames)
  /\ changes \in 0 .. MaxChanges
  /\ messagesLock \in Managers \cup {Nobody}
  /\ stopped \subseteq Suspendable /\ faults \in 0 .. MaxFaults
  /\ worker \in [Managers -> {"dequeued", "writing", "closed"}]
  /\ it \in [Managers -> Nat]
  /\ answer \in [Managers -> Seq(Packets)]
  /\ manager \in [Managers -> Running \cup {"listed", "none", "disconnected", "interrupted", "panicked"}]
  /\ v \in [Managers -> [buff : Seq(Packets \cup {Unread}), capacity : Nat]]
  /\ \A m \in Managers : Fits(v[m]) /\ Len(answer[m]) <= PipeSize
  /\ snapshot \in [Managers -> Seq(BoxNames)]

ListingInit ==
  /\ up = TRUE
  /\ boxes \in InitialLists
  /\ changes = 0
  /\ messagesLock = Nobody
  /\ stopped = {} /\ faults = 0
  /\ worker = [m \in Managers |-> "dequeued"]
  /\ it = [m \in Managers |-> 1]
  /\ answer = [m \in Managers |-> <<>>]
  /\ manager = [m \in Managers |-> "push"]
  /\ v = [m \in Managers |-> vector_create(ListCapacity)]
  /\ snapshot = [m \in Managers |-> <<>>]

LockFree == up /\ messagesLock = Nobody

-----------------------------------------------------------------------------
(* handle_packet_list_msg_box                                              *)

ReaderGone(m) == manager[m] \notin Running

(* Mutant: a FIFO that nobody reads any more is like a full one.           *)
WriteWaits(m, packet) ==
  /\ ~ReaderGone(m) /\ Len(answer[m]) < PipeSize
  /\ answer' = [answer EXCEPT ![m] = Append(@, packet)]

(* write(2): blocks while the FIFO is full, fails when nobody can read it. *)
(* The handler goes on either way, for SIGPIPE is blocked in a worker.     *)
Write(m, packet) ==
  \/ ReaderGone(m) /\ UNCHANGED answer
  \/ /\ ~ReaderGone(m)
     /\ Len(answer[m]) < PipeSize
     /\ answer' = [answer EXCEPT ![m] = Append(@, packet)]

(* The lock is taken; of an empty list one packet without a name tells.    *)
StartList(m) ==
  /\ LockFree
  /\ worker[m] = "dequeued"
  /\ snapshot' = [snapshot EXCEPT ![m] = boxes]
  /\ \/ /\ boxes = <<>>
        /\ Write(m, [box_name |-> EmptyName, is_last |-> TRUE])
        /\ worker' = [worker EXCEPT ![m] = "closed"]
        /\ UNCHANGED messagesLock
     \/ /\ boxes # <<>>
        /\ messagesLock' = m
        /\ worker' = [worker EXCEPT ![m] = "writing"]
        /\ UNCHANGED answer
  /\ UNCHANGED <<up, boxes, changes, clients, it, program>>

(* Mutant: the lock is held for one box at a time.                         *)
WriteBoxUnlocked(m) ==
  /\ worker[m] = "writing"
  /\ LET is_last == it[m] >= Len(boxes)
     IN  /\ it[m] <= Len(boxes) => Write(m, [box_name |-> boxes[it[m]], is_last |-> is_last])
         /\ it[m] > Len(boxes) => UNCHANGED answer
         /\ worker' = [worker EXCEPT ![m] = IF is_last THEN "closed" ELSE @]
  /\ messagesLock' = Nobody
  /\ it' = [it EXCEPT ![m] = @ + 1]
  /\ UNCHANGED <<up, boxes, changes, clients, snapshot, program>>

(* One packet per box; after the last one the handler returns, which       *)
(* releases the lock and closes the FIFO.                                  *)
WriteBox(m) ==
  /\ worker[m] = "writing"
  /\ LET is_last == it[m] = Len(boxes)
     IN  /\ Write(m, [box_name |-> boxes[it[m]], is_last |-> is_last])
         /\ worker' = [worker EXCEPT ![m] = IF is_last THEN "closed" ELSE @]
         /\ messagesLock' = IF is_last THEN Nobody ELSE messagesLock
  /\ it' = [it EXCEPT ![m] = @ + 1]
  /\ UNCHANGED <<up, boxes, changes, clients, snapshot, program>>

Listed == {boxes[i] : i \in DOMAIN boxes}

(* Meanwhile other workers create and remove boxes.                        *)
ChangeBoxes ==
  /\ LockFree
  /\ changes < MaxChanges
  /\ changes' = changes + 1
  /\ \/ \E n \in BoxNames \ Listed : boxes' = Append(boxes, n)
     \/ \E i \in DOMAIN boxes : boxes[i] \in Churn /\ boxes' = RemoveAt(boxes, i)
  /\ UNCHANGED <<up, messagesLock, clients, handler, answer, program>>

(* SIGINT ends the broker: every FIFO is closed, what is in one stays.     *)
StopListings ==
  /\ up
  /\ up' = FALSE
  /\ messagesLock' = Nobody
  /\ worker' = [m \in Managers |-> "closed"]
  /\ UNCHANGED <<boxes, changes, clients, it, snapshot, answer, program>>

-----------------------------------------------------------------------------
(* execute_command_list                                                    *)

(* The new packet is in the vector before it is read.                      *)
PushPacket(m) ==
  /\ manager[m] = "push" /\ m \notin stopped
  /\ \/ /\ PushPanics(v[m])
        /\ manager' = [manager EXCEPT ![m] = "panicked"]
        /\ UNCHANGED v
     \/ /\ ~PushPanics(v[m])
        /\ v' = [v EXCEPT ![m] = vector_push(@, Unread)]
        /\ manager' = [manager EXCEPT ![m] = "read"]
  /\ UNCHANGED <<broker, clients, handler, answer>>

SaysNoBoxes(packet) == packet.box_name = EmptyName /\ packet.is_last

(* msg_cmp_func                                                            *)
ByName(a, b) == a.box_name < b.box_name

(* vector_sort: qsort leaves the pointers in some order that agrees with   *)
(* the comparison.                                                         *)
Orders(s) ==
  {f \in Bijection(DOMAIN s, DOMAIN s) : \A i, j \in DOMAIN s : i < j => ~ByName(s[f[j]], s[f[i]])}

Sorted(u) == {[u EXCEPT !.buff = [i \in DOMAIN @ |-> @[f[i]]]] : f \in Orders(u.buff)}

Filled(u, packet) == [u EXCEPT !.buff[Len(u.buff)] = packet]

ReadPacket(m) ==
  /\ manager[m] = "read" /\ m \notin stopped
  /\ answer[m] # <<>>
  /\ answer' = [answer EXCEPT ![m] = Tail(@)]
  /\ LET packet == Head(answer[m])
         filled == Filled(v[m], packet)
     IN  \/ /\ SaysNoBoxes(packet)
            /\ manager' = [manager EXCEPT ![m] = "none"]
            /\ v' = [v EXCEPT ![m] = filled]
         \/ /\ ~SaysNoBoxes(packet) /\ ~packet.is_last
            /\ manager' = [manager EXCEPT ![m] = "push"]
            /\ v' = [v EXCEPT ![m] = filled]
         \/ /\ ~SaysNoBoxes(packet) /\ packet.is_last
            /\ manager' = [manager EXCEPT ![m] = "listed"]
            /\ \E sorted \in Sorted(filled) : v' = [v EXCEPT ![m] = sorted]
  /\ UNCHANGED <<broker, clients, handler>>

(* Mutant: the read is tried again.                                        *)
ServerDisconnectedIgnored(m) ==
  /\ manager[m] = "read" /\ m \notin stopped
  /\ answer[m] = <<>> /\ worker[m] = "closed"
  /\ UNCHANGED lvars

(* read(2) returns 0: the FIFO is empty and the handler has closed it.     *)
ServerDisconnected(m) ==
  /\ manager[m] = "read" /\ m \notin stopped
  /\ answer[m] = <<>> /\ worker[m] = "closed"
  /\ manager' = [manager EXCEPT ![m] = "disconnected"]
  /\ UNCHANGED <<broker, clients, handler, answer, v>>

Fault == faults < MaxFaults /\ faults' = faults + 1

(* SIGINT while it reads, or any signal that kills.                        *)
InterruptManager(m) ==
  /\ manager[m] \in Running
  /\ Fault
  /\ manager' = [manager EXCEPT ![m] = "interrupted"]
  /\ UNCHANGED <<broker, stopped, handler, answer, v>>

(* The program is stopped and not continued; one that is continued is slow.*)
Suspend(c) ==
  /\ c \in Suspendable \ stopped
  /\ Fault
  /\ stopped' = stopped \cup {c}
  /\ UNCHANGED <<broker, handler, answer, program>>

HandlerStep(m) == StartList(m) \/ WriteBox(m)
ManagerStep(m) == PushPacket(m) \/ ReadPacket(m) \/ ServerDisconnected(m)

ListingNext ==
  \/ \E m \in Managers : HandlerStep(m) \/ ManagerStep(m) \/ InterruptManager(m)
  \/ \E c \in Suspendable : Suspend(c)
  \/ ChangeBoxes

-----------------------------------------------------------------------------
(* Properties                                                              *)

(* The packet of the i-th box of the list l.                               *)
PacketOf(l, i) == [box_name |-> l[i], is_last |-> i = Len(l)]

IsSnapshot(m) ==
  LET printed == v[m].buff
  IN  /\ manager[m] = "listed" =>
           /\ Len(printed) = Len(snapshot[m])
           /\ {printed[i] : i \in DOMAIN printed} =
                {PacketOf(snapshot[m], i) : i \in DOMAIN snapshot[m]}
           /\ \A i, j \in DOMAIN printed : i < j => printed[i].box_name < printed[j].box_name
      /\ manager[m] = "none" =>
           snapshot[m] = <<>> \/ snapshot[m][Len(snapshot[m])] = EmptyName

(* Safety: what "manager list" prints is the list as it was at one moment: *)
(* every box once, in the order of the names, whatever came and went while *)
(* the packets were written.  No packet is printed that was not read, and  *)
(* "NO BOXES FOUND" (manager.c:258) only if there were none, or the last   *)
(* one had the empty name.                                                 *)
ListedIsSnapshot == \A m \in Managers : IsSnapshot(m)

(* A listing that is stuck: its manager is suspended and its FIFO is full. *)
Stuck(m) == messagesLock = m /\ m \in stopped /\ Len(answer[m]) = PipeSize

(* Liveness: messages_lock comes free again and again; a manager keeps it  *)
(* from the others only while it is suspended with a full FIFO.  A manager *)
(* that leaves in the middle of its answer does not.                       *)
LockComesFree == []<>(messagesLock = Nobody) \/ \E m \in Managers : <>[]Stuck(m)

(* Liveness: a listing ends, unless its manager, or one that is stuck, is  *)
(* suspended.                                                              *)
ListingsEnd ==
  \A m \in Managers :
    manager[m] \in Running ~> manager[m] \notin Running \/ m \in stopped \/ \E n \in Managers : Stuck(n)
=============================================================================
