----------------------------- MODULE MessageBox -----------------------------
(***************************************************************************)
(* mbroker/mbroker.c: the list of message boxes and the handlers the       *)
(* worker threads run over it.  A worker serves one client at a time:      *)
(*   - a publisher until its pipe reports end of file,                     *)
(*   - a subscriber until a message can no longer be written to its pipe,  *)
(*   - a manager request (create, remove, list).                           *)
(* messages_lock guards the list and the registrations, the wait_mutex of  *)
(* a box its size and the end of the sessions; so each counter of a box is *)
(* written under two different locks, and the two halves of ++ and -- of   *)
(* subscribers, a load and a store, are steps of their own.                *)
(* A box is the heap object a creation allocates: a box removed and        *)
(* created again is another one.  A session begins where the client's      *)
(* pipe has been opened: a request whose open fails changes nothing.       *)
(***************************************************************************)
EXTENDS Integers, FiniteSets, SequencesExt

CONSTANTS
  PubWorkers,   \* workers that take publisher registrations
  SubWorkers,   \* workers that take subscriber registrations
  ManWorkers,   \* workers that take requests to create and to list
  RemWorkers,   \* workers that take requests to remove
  Names,        \* box names
  CountRange,   \* stands for 2^64, where the u64 counters wrap
  DiskFull,     \* whether a write to a box file can be cut short
  MaxBoxes,     \* bound: boxes created, over all runs of the broker
  MaxMessages,  \* bound: messages sent by publishers
  MaxRequests,  \* bound: requests taken from the queue
  MaxRestarts,  \* bound: times the broker is started again
  NoBox,        \* a session pointer that is not set
  Nobody        \* holder of a free mutex

Workers == PubWorkers \cup SubWorkers \cup ManWorkers \cup RemWorkers
Boxes == 1..MaxBoxes
Messages == 1..MaxMessages

ASSUME BoxAssumption ==
  /\ Nobody \notin Workers
  /\ NoBox \notin Boxes
  /\ Names # {}
  /\ MaxBoxes \in Nat /\ MaxMessages \in Nat /\ MaxRequests \in Nat /\ MaxRestarts \in Nat
  /\ CountRange \in Nat /\ CountRange > 1
  /\ DiskFull \in BOOLEAN

Never == -1

(* A message_packet fills two halves of a file: a short write leaves one.  *)
Halves(m) == <<<<m, 1>>, <<m, 2>>>>
PacketSize == 2

VARIABLES
  broker,       \* "up", or how it ended: "exited" or "panicked"
  msgBoxes,     \* msg_boxes: the linked list, first to last
  messagesLock, \* holder of messages_lock
  created,      \* how many boxes were ever created
  name, publishers, subscribers, size, waitMutex, \* fields of message_box
  fdInternalW,  \* offset of the descriptor the publishers of a box write to
  file,         \* content of the file of a box
  disk,         \* what an earlier run of the broker left in the file of a name
  pc,           \* pc[w]: where w is in its handler
  box,          \* box[w]: the pointer msg of its session
  reg,          \* reg[w]: subscribers as w's ++ or -- has loaded it
  fd,           \* fd[w]: offset of the descriptor its subscriber reads from
  msg,          \* msg[w]: the message w's publisher sent last
  sent,         \* messages sent by publishers so far
  reply,        \* reply[w]: w's last answer to a manager
  listing,      \* listing[w]: how many entries w has written of its list answer
  requests, restarts,
  log,          \* history: log[b], the messages counted in the size of b
  damagedAt,    \* history: Len(log[b]) when a packet was first left in part, or Never
  delivered     \* history: delivered[w], what w has sent its subscriber

heap     == <<created, name, publishers, subscribers, size, waitMutex>>
storage  == <<fdInternalW, file, disk>>
sessions == <<box, reg, fd, msg>>
answers  == <<reply, listing>>
history  == <<log, damagedAt, delivered>>
bounds   == <<sent, requests, restarts>>
vars == <<broker, msgBoxes, messagesLock, heap, storage, pc, sessions, answers, bounds, history>>

GoTo(w, label) == pc' = [pc EXCEPT ![w] = label]

Listed == {msgBoxes[i] : i \in DOMAIN msgBoxes}

(* get_msg_box: the boxes of that name, of which there is one at most.     *)
Find(n) == {b \in Listed : name[b] = n}

PublisherAt == {"pub_read", "pub_count", "pub_leave"}
SubscriberAt == {"sub_test", "sub_wait", "sub_forward", "sub_leave", "sub_dec"}
Labels == {"idle", "pub_unlock", "sub_store", "sub_unlock", "list"} \cup PublisherAt \cup SubscriberAt

TypeOK ==
  /\ broker \in {"up", "exited", "panicked"}
  /\ msgBoxes \in Seq(Boxes)
  /\ messagesLock \in Workers \cup {Nobody}
  /\ created \in 0..MaxBoxes
  /\ name \in [Boxes -> Names]
  /\ publishers \in [Boxes -> 0..(CountRange - 1)]
  /\ subscribers \in [Boxes -> 0..(CountRange - 1)]
  /\ size \in [Boxes -> Nat]
  /\ waitMutex \in [Boxes -> Workers \cup {Nobody}]
  /\ fdInternalW \in [Boxes -> Nat]
  /\ file \in [Boxes -> Seq(Messages \X {1, 2})]
  /\ disk \in [Names -> Seq(Messages \X {1, 2})]
  /\ pc \in [Workers -> Labels]
  /\ box \in [Workers -> Boxes \cup {NoBox}]
  /\ reg \in [Workers -> 0..(CountRange - 1)]
  /\ fd \in [Workers -> Nat]
  /\ msg \in [Workers -> 0..MaxMessages]
  /\ sent \in 0..MaxMessages
  /\ requests \in 0..MaxRequests
  /\ restarts \in 0..MaxRestarts
  /\ log \in [Boxes -> Seq(Messages)]
  /\ damagedAt \in [Boxes -> Nat \cup {Never}]
  /\ reply \in [Workers -> {"none", "ok", "exists", "missing", "has pub"}]
  /\ listing \in [Workers -> 0..MaxBoxes]

Init ==
  /\ broker = "up"
  /\ msgBoxes = <<>>
  /\ messagesLock = Nobody
  /\ created = 0
  /\ name = [b \in Boxes |-> CHOOSE n \in Names : TRUE]
  /\ publishers = [b \in Boxes |-> 0]
  /\ subscribers = [b \in Boxes |-> 0]
  /\ size = [b \in Boxes |-> 0]
  /\ waitMutex = [b \in Boxes |-> Nobody]
  /\ fdInternalW = [b \in Boxes |-> 0]
  /\ file = [b \in Boxes |-> <<>>]
  /\ disk = [n \in Names |-> <<>>]
  /\ pc = [w \in Workers |-> "idle"]
  /\ box = [w \in Workers |-> NoBox]
  /\ reg = [w \in Workers |-> 0]
  /\ fd = [w \in Workers |-> 0]
  /\ msg = [w \in Workers |-> 0]
  /\ reply = [w \in Workers |-> "none"]
  /\ listing = [w \in Workers |-> 0]
  /\ sent = 0
  /\ requests = 0
  /\ restarts = 0
  /\ log = [b \in Boxes |-> <<>>]
  /\ damagedAt = [b \in Boxes |-> Never]
  /\ delivered = [w \in Workers |-> <<>>]

(* An idle worker has dequeued a request, opened the client's pipe and     *)
(* locked messages_lock; most handlers release it in the same step.        *)
Take(w) ==
  /\ broker = "up"
  /\ pc[w] = "idle"
  /\ messagesLock = Nobody
  /\ requests < MaxRequests
  /\ requests' = requests + 1
  /\ UNCHANGED <<sent, restarts>>

Lock(b, w) ==
  /\ waitMutex[b] = Nobody
  /\ waitMutex' = [waitMutex EXCEPT ![b] = w]

-----------------------------------------------------------------------------
(* handle_packet_register_pub                                              *)

(* Mutant: the box is taken without looking whether it has a publisher.    *)
RegisterPubUnchecked(w, n) ==
  /\ Take(w)
  /\ \/ Find(n) = {} /\ UNCHANGED <<publishers, box, pc>>
     \/ \E b \in Find(n) :
          /\ publishers' = [publishers EXCEPT ![b] = 1]
          /\ box' = [box EXCEPT ![w] = b]
          /\ GoTo(w, "pub_read")
  /\ UNCHANGED <<broker, msgBoxes, messagesLock, created, name, subscribers, size, waitMutex,
                 storage, reg, fd, msg, answers, history>>

(* A second publisher, or one of a box that does not exist, is dismissed.  *)
RegisterPub(w, n) ==
  /\ Take(w)
  /\ \/ /\ \A b \in Find(n) : publishers[b] > 0
        /\ UNCHANGED <<publishers, box, pc>>
     \/ \E b \in Find(n) :
          /\ publishers[b] = 0
          /\ publishers' = [publishers EXCEPT ![b] = 1]
          /\ box' = [box EXCEPT ![w] = b]
          /\ GoTo(w, "pub_read")
  /\ UNCHANGED <<broker, msgBoxes, messagesLock, created, name, subscribers, size, waitMutex,
                 storage, reg, fd, msg, answers, history>>

(* write(2) at the offset of the descriptor, over what the file held there.*)
WriteFile(b, halves) ==
  LET at == fdInternalW[b]
  IN  /\ file' = [file EXCEPT ![b] = SubSeq(@, 1, at) \o halves
                                      \o SubSeq(@, at + Len(halves) + 1, Len(@))]
      /\ fdInternalW' = [fdInternalW EXCEPT ![b] = @ + Len(halves)]
      /\ UNCHANGED disk

(* The publisher's next message is read from its pipe and written.         *)
WriteMessage(w) ==
  /\ pc[w] = "pub_read"
  /\ sent < MaxMessages
  /\ sent' = sent + 1
  /\ msg' = [msg EXCEPT ![w] = sent + 1]
  /\ WriteFile(box[w], Halves(sent + 1))
  /\ GoTo(w, "pub_count")
  /\ UNCHANGED <<broker, msgBoxes, messagesLock, heap, box, reg, fd, answers, requests, restarts, history>>

(* Mutant: what write returns is ignored, and the message counted.         *)
ShortWriteCounted(w) ==
  /\ DiskFull
  /\ pc[w] = "pub_read"
  /\ sent < MaxMessages
  /\ sent' = sent + 1
  /\ msg' = [msg EXCEPT ![w] = sent + 1]
  /\ \E written \in 0..(PacketSize - 1) : WriteFile(box[w], SubSeq(Halves(sent + 1), 1, written))
  /\ GoTo(w, "pub_count")
  /\ UNCHANGED <<broker, msgBoxes, messagesLock, heap, box, reg, fd, answers, requests, restarts, history>>

(* The write is cut short: the session ends, and a part of a packet stays. *)
ShortWrite(w) ==
  /\ DiskFull
  /\ pc[w] = "pub_read"
  /\ sent < MaxMessages
  /\ sent' = sent + 1
  /\ \E written \in 0..(PacketSize - 1) :
       /\ WriteFile(box[w], SubSeq(Halves(sent + 1), 1, written))
       /\ damagedAt' = [damagedAt EXCEPT ![box[w]] =
                          IF written > 0 /\ @ = Never THEN Len(log[box[w]]) ELSE @]
  /\ GoTo(w, "pub_leave")
  /\ UNCHANGED <<broker, msgBoxes, messagesLock, heap, sessions, answers, requests, restarts, log, delivered>>

(* Mutant: pthread_cond_signal instead of pthread_cond_broadcast.          *)
BroadcastToOne(b, w, label) ==
  LET waiting == {v \in Workers : pc[v] = "sub_wait" /\ box[v] = b}
  IN  IF waiting = {} THEN GoTo(w, label)
      ELSE \E v \in waiting : pc' = [pc EXCEPT ![w] = label, ![v] = "sub_test"]

(* pthread_cond_broadcast: every subscriber waiting on b tests again.      *)
Broadcast(b, w, label) ==
  pc' = [v \in Workers |-> IF v = w THEN label
                           ELSE IF pc[v] = "sub_wait" /\ box[v] = b THEN "sub_test"
                           ELSE pc[v]]

(* Under wait_mutex, the message is added to the size of the box.          *)
CountMessage(w) ==
  /\ pc[w] = "pub_count"
  /\ waitMutex[box[w]] = Nobody
  /\ size' = [size EXCEPT ![box[w]] = @ + PacketSize]
  /\ log' = [log EXCEPT ![box[w]] = Append(@, msg[w])]
  /\ Broadcast(box[w], w, "pub_read")
  /\ UNCHANGED <<broker, msgBoxes, messagesLock, created, name, publishers, subscribers, waitMutex,
                 storage, sessions, answers, bounds, damagedAt, delivered>>

(* The pipe reports end of file, or something that is not a message.       *)
EndOfPipe(w) ==
  /\ pc[w] = "pub_read"
  /\ GoTo(w, "pub_leave")
  /\ UNCHANGED <<broker, msgBoxes, messagesLock, heap, storage, sessions, answers, bounds, history>>

(* Mutant: the counter is decremented where the loop ends and again here.  *)
LeavePubTwice(w) ==
  /\ pc[w] = "pub_leave"
  /\ Lock(box[w], w)
  /\ publishers' = [publishers EXCEPT ![box[w]] = @ - 2]
  /\ GoTo(w, "pub_unlock")
  /\ UNCHANGED <<broker, msgBoxes, messagesLock, created, name, subscribers, size,
                 storage, sessions, answers, bounds, history>>

(* publishers-- under wait_mutex, which is released on return.             *)
LeavePub(w) ==
  /\ pc[w] = "pub_leave"
  /\ Lock(box[w], w)
  /\ publishers' = [publishers EXCEPT ![box[w]] = (@ - 1) % CountRange]
  /\ GoTo(w, "pub_unlock")
  /\ UNCHANGED <<broker, msgBoxes, messagesLock, created, name, subscribers, size,
                 storage, sessions, answers, bounds, history>>

-----------------------------------------------------------------------------
(* handle_packet_register_sub                                              *)

(* Mutant: the subscriber starts at the end of what was published.         *)
RegisterSubAtEnd(w, n) ==
  /\ Take(w)
  /\ \/ /\ Find(n) = {}
        /\ UNCHANGED <<messagesLock, box, reg, fd, pc>>
     \/ \E b \in Find(n) :
          /\ messagesLock' = w
          /\ box' = [box EXCEPT ![w] = b]
          /\ reg' = [reg EXCEPT ![w] = subscribers[b]]
          /\ fd' = [fd EXCEPT ![w] = size[b]]
          /\ GoTo(w, "sub_store")
  /\ UNCHANGED <<broker, msgBoxes, heap, storage, msg, answers, history>>

(* The box is found, its file opened, and subscribers loaded; w keeps      *)
(* messages_lock until it has stored the count.                            *)
RegisterSub(w, n) ==
  /\ Take(w)
  /\ \/ /\ Find(n) = {}
        /\ UNCHANGED <<messagesLock, box, reg, pc>>
     \/ \E b \in Find(n) :
          /\ messagesLock' = w
          /\ box' = [box EXCEPT ![w] = b]
          /\ reg' = [reg EXCEPT ![w] = subscribers[b]]
          /\ GoTo(w, "sub_store")
  /\ UNCHANGED <<broker, msgBoxes, heap, storage, fd, msg, answers, history>>

StoreSubscribers(w) ==
  /\ pc[w] = "sub_store"
  /\ subscribers' = [subscribers EXCEPT ![box[w]] = (reg[w] + 1) % CountRange]
  /\ reg' = [reg EXCEPT ![w] = 0]
  /\ messagesLock' = Nobody
  /\ GoTo(w, "sub_test")
  /\ UNCHANGED <<broker, msgBoxes, created, name, publishers, size, waitMutex,
                 storage, box, fd, msg, answers, bounds, history>>

(* Under wait_mutex: wait while everything counted has been read.          *)
TestSize(w) ==
  /\ pc[w] = "sub_test"
  /\ waitMutex[box[w]] = Nobody
  /\ GoTo(w, IF size[box[w]] = fd[w] THEN "sub_wait" ELSE "sub_forward")
  /\ UNCHANGED <<broker, msgBoxes, messagesLock, heap, storage, sessions, answers, bounds, history>>

SpuriousWakeup(w) ==
  /\ pc[w] = "sub_wait"
  /\ GoTo(w, "sub_test")
  /\ UNCHANGED <<broker, msgBoxes, messagesLock, heap, storage, sessions, answers, bounds, history>>

(* The message a packet read from a file holds, 0 when it mixes two.       *)
Packet(halves) == IF halves = Halves(halves[1][1]) THEN halves[1][1] ELSE 0

Smaller(i, j) == IF i < j THEN i ELSE j

(* Without a lock: read one packet from the file, write it to the pipe.  At*)
(* the end of the file nothing is sent, and a part of a packet ends the    *)
(* session.                                                                *)
Forward(w) ==
  /\ pc[w] = "sub_forward"
  /\ LET content == file[box[w]]
         read == SubSeq(content, fd[w] + 1, Smaller(fd[w] + PacketSize, Len(content)))
     IN  /\ GoTo(w, IF Len(read) \in {0, PacketSize} THEN "sub_test" ELSE "sub_leave")
         /\ fd' = [fd EXCEPT ![w] = @ + Len(read)]
         /\ delivered' = IF Len(read) = PacketSize
                         THEN [delivered EXCEPT ![w] = Append(@, Packet(read))]
                         ELSE delivered
  /\ UNCHANGED <<broker, msgBoxes, messagesLock, heap, storage, box, reg, msg, answers, bounds, log, damagedAt>>

(* The subscriber has closed its pipe, which only a write can tell.        *)
SubscriberGone(w) ==
  /\ pc[w] = "sub_forward"
  /\ GoTo(w, "sub_leave")
  /\ UNCHANGED <<broker, msgBoxes, messagesLock, heap, storage, sessions, answers, bounds, history>>

(* subscribers-- under wait_mutex: its load ...                            *)
LeaveSub(w) ==
  /\ pc[w] = "sub_leave"
  /\ Lock(box[w], w)
  /\ reg' = [reg EXCEPT ![w] = subscribers[box[w]]]
  /\ GoTo(w, "sub_dec")
  /\ UNCHANGED <<broker, msgBoxes, messagesLock, created, name, publishers, subscribers, size,
                 storage, box, fd, msg, answers, bounds, history>>

(* ... and its store.                                                      *)
DecrementSubscribers(w) ==
  /\ pc[w] = "sub_dec"
  /\ subscribers' = [subscribers EXCEPT ![box[w]] = (reg[w] - 1) % CountRange]
  /\ reg' = [reg EXCEPT ![w] = 0]
  /\ GoTo(w, "sub_unlock")
  /\ UNCHANGED <<broker, msgBoxes, messagesLock, created, name, publishers, size, waitMutex,
                 storage, box, fd, msg, answers, bounds, history>>

(* mutex_unlock, run when the handler of a publisher or subscriber returns.*)
Unlock(w) ==
  /\ pc[w] \in {"pub_unlock", "sub_unlock"}
  /\ waitMutex' = [waitMutex EXCEPT ![box[w]] = Nobody]
  /\ box' = [box EXCEPT ![w] = NoBox]
  /\ fd' = [fd EXCEPT ![w] = 0]
  /\ msg' = [msg EXCEPT ![w] = 0]
  /\ delivered' = [delivered EXCEPT ![w] = <<>>]
  /\ GoTo(w, "idle")
  /\ UNCHANGED <<broker, msgBoxes, messagesLock, created, name, publishers, subscribers, size,
                 storage, reg, answers, bounds, log, damagedAt>>

-----------------------------------------------------------------------------
(* handle_packet_create_msg_box, handle_packet_remove_msg_box and          *)
(* handle_packet_list_msg_box                                              *)

Answer(w, text) == reply' = [reply EXCEPT ![w] = text]

(* Mutant: the box is added without looking for one of the same name.      *)
CreateBoxUnchecked(w, n) ==
  /\ Take(w)
  /\ created < MaxBoxes
  /\ created' = created + 1
  /\ name' = [name EXCEPT ![created + 1] = n]
  /\ msgBoxes' = Append(msgBoxes, created + 1)
  /\ file' = [file EXCEPT ![created + 1] = disk[n]]
  /\ Answer(w, "ok")
  /\ UNCHANGED <<broker, messagesLock, publishers, subscribers, size, waitMutex, fdInternalW, disk,
                 pc, sessions, listing, history>>

(* Mutant: the size of a new box is the length of the file it opens.       *)
CreateBoxOverFile(w, n) ==
  /\ Take(w)
  /\ Find(n) = {}
  /\ created < MaxBoxes
  /\ created' = created + 1
  /\ name' = [name EXCEPT ![created + 1] = n]
  /\ msgBoxes' = Append(msgBoxes, created + 1)
  /\ file' = [file EXCEPT ![created + 1] = disk[n]]
  /\ size' = [size EXCEPT ![created + 1] = Len(disk[n])]
  /\ Answer(w, "ok")
  /\ UNCHANGED <<broker, messagesLock, publishers, subscribers, waitMutex, fdInternalW, disk,
                 pc, sessions, listing, history>>

(* add_msg_box opens the file of the box without truncating it: what an    *)
(* earlier run of the broker has written there is still its content.       *)
AddBox(n) ==
  /\ created < MaxBoxes
  /\ LET b == created + 1
     IN  /\ created' = b
         /\ name' = [name EXCEPT ![b] = n]
         /\ msgBoxes' = Append(msgBoxes, b)
         /\ file' = [file EXCEPT ![b] = disk[n]]
  /\ disk' = [disk EXCEPT ![n] = <<>>]
  /\ UNCHANGED fdInternalW

CreateBox(w, n) ==
  /\ Take(w)
  /\ \/ /\ Find(n) # {}
        /\ Answer(w, "exists")
        /\ UNCHANGED <<msgBoxes, created, name, storage>>
     \/ /\ Find(n) = {}
        /\ AddBox(n)
        /\ Answer(w, "ok")
  /\ UNCHANGED <<broker, messagesLock, publishers, subscribers, size, waitMutex, pc, sessions,
                 listing, history>>

(* The process ends: sessions and boxes are gone, files stay on the disk.  *)
Stop(how) ==
  /\ broker' = how
  /\ msgBoxes' = <<>>
  /\ messagesLock' = Nobody
  /\ waitMutex' = [b \in Boxes |-> Nobody]
  /\ disk' = [n \in Names |-> IF Find(n) = {} THEN disk[n] ELSE file[CHOOSE b \in Find(n) : TRUE]]
  /\ file' = [b \in Boxes |-> <<>>]
  /\ fdInternalW' = [b \in Boxes |-> 0]
  /\ pc' = [w \in Workers |-> "idle"]
  /\ box' = [w \in Workers |-> NoBox]
  /\ reg' = [w \in Workers |-> 0]
  /\ fd' = [w \in Workers |-> 0]
  /\ msg' = [w \in Workers |-> 0]
  /\ delivered' = [w \in Workers |-> <<>>]
  /\ listing' = [w \in Workers |-> 0]
  /\ UNCHANGED <<created, name, publishers, subscribers, size, log, damagedAt>>

(* Mutant: subscribers do not keep a box.                                  *)
InUseByPublisher(b) == publishers[b] # 0

InUse(b) == publishers[b] # 0 \/ subscribers[b] # 0

(* remove_msg_box takes the box off the list, closes and unlinks its file. *)
DeleteBox(b) ==
  /\ \E i \in DOMAIN msgBoxes : msgBoxes[i] = b /\ msgBoxes' = RemoveAt(msgBoxes, i)
  /\ file' = [file EXCEPT ![b] = <<>>]
  /\ fdInternalW' = [fdInternalW EXCEPT ![b] = 0]

(* The counters are saved for the answer only when both are zero, so every *)
(* refusal says that the box has a publisher.  remove_msg_box asserts that *)
(* the mutex it destroys is free: the broker ends if it is not.            *)
RemoveBox(w, n) ==
  /\ Take(w)
  /\ \/ /\ Find(n) = {}
        /\ Answer(w, "missing")
        /\ UNCHANGED <<broker, msgBoxes, messagesLock, heap, storage, pc, sessions, listing, history>>
     \/ \E b \in Find(n) :
          /\ InUse(b)
          /\ Answer(w, "has pub")
          /\ UNCHANGED <<broker, msgBoxes, messagesLock, heap, storage, pc, sessions, listing, history>>
     \/ \E b \in Find(n) :
          /\ ~InUse(b)
          /\ waitMutex[b] # Nobody
          /\ Stop("panicked")
          /\ UNCHANGED reply
     \/ \E b \in Find(n) :
          /\ ~InUse(b)
          /\ waitMutex[b] = Nobody
          /\ DeleteBox(b)
          /\ Answer(w, "ok")
          /\ UNCHANGED <<broker, messagesLock, heap, disk, pc, sessions, listing, history>>

(* An empty list is answered at once; else w writes one entry per box, with*)
(* messages_lock held until the last one.  What they say is Listing.       *)
ListBoxes(w) ==
  /\ Take(w)
  /\ listing' = [listing EXCEPT ![w] = 0]
  /\ \/ /\ msgBoxes = <<>>
        /\ UNCHANGED <<messagesLock, pc>>
     \/ /\ msgBoxes # <<>>
        /\ messagesLock' = w
        /\ GoTo(w, "list")
  /\ UNCHANGED <<broker, msgBoxes, heap, storage, sessions, reply, history>>

ListEntry(w) ==
  /\ pc[w] = "list"
  /\ listing' = [listing EXCEPT ![w] = @ + 1]
  /\ IF listing'[w] = Len(msgBoxes) THEN GoTo(w, "idle") /\ messagesLock' = Nobody
                                    ELSE UNCHANGED <<pc, messagesLock>>
  /\ UNCHANGED <<broker, msgBoxes, heap, storage, sessions, reply, bounds, history>>

-----------------------------------------------------------------------------
(* SIGINT, at any moment.                                                  *)
Interrupt ==
  /\ broker = "up"
  /\ restarts < MaxRestarts
  /\ Stop("exited")
  /\ UNCHANGED <<reply, bounds>>

Restart ==
  /\ broker # "up"
  /\ restarts < MaxRestarts
  /\ broker' = "up"
  /\ restarts' = restarts + 1
  /\ UNCHANGED <<msgBoxes, messagesLock, heap, storage, pc, sessions, answers, history, sent, requests>>

ServePub(w) == CountMessage(w) \/ LeavePub(w) \/ Unlock(w)

ServeSub(w) ==
  \/ StoreSubscribers(w) \/ TestSize(w) \/ Forward(w)
  \/ LeaveSub(w) \/ DecrementSubscribers(w) \/ Unlock(w)

Next ==
  \/ \E w \in PubWorkers : \/ \E n \in Names : RegisterPub(w, n)
                           \/ WriteMessage(w) \/ ShortWrite(w) \/ EndOfPipe(w) \/ ServePub(w)
  \/ \E w \in SubWorkers : \/ \E n \in Names : RegisterSub(w, n)
                           \/ SpuriousWakeup(w) \/ SubscriberGone(w) \/ ServeSub(w)
  \/ \E w \in ManWorkers : \/ \E n \in Names : CreateBox(w, n)
                           \/ ListBoxes(w) \/ ListEntry(w)
  \/ \E w \in RemWorkers, n \in Names : RemoveBox(w, n)
  \/ Interrupt
  \/ Restart

Spec == Init /\ [][Next]_vars

(* A worker that can go on without its client goes on.  Nothing is assumed *)
(* of clients, of managers, or of spurious wakeups.                        *)
Fairness ==
  /\ \A w \in PubWorkers : WF_vars(ServePub(w))
  /\ \A w \in SubWorkers : WF_vars(ServeSub(w))

FairSpec == Spec /\ Fairness

-----------------------------------------------------------------------------
(* Correctness.                                                            *)

PublishersAt(b) == {w \in Workers : box[w] = b /\ pc[w] \in PublisherAt}

(* publishers, set under messages_lock and reset under wait_mutex, is the  *)
(* lock that gives a box one publisher at a time: it counts the sessions   *)
(* that may still write to the file, and there is never a second one.      *)
SinglePublisher ==
  \A b \in Listed : Cardinality(PublishersAt(b)) <= 1 /\ publishers[b] = Cardinality(PublishersAt(b))

(* The check and the insertion of a creation are one critical section: no  *)
(* two boxes of the list have the same name, so the first found is the one.*)
OneBoxPerName == \A b, c \in Listed : name[b] = name[c] => b = c

(* A session's pointer leads to a box of the list: no publisher and no     *)
(* subscriber uses a box that was freed ("YOU CANT REMOVE A MSGBOX THAT    *)
(* HAS SUB", mbroker.c:314).                                               *)
NoDanglingBox == \A w \in Workers : box[w] # NoBox => box[w] \in Listed

(* What is counted in the size has been written: a subscriber that passes  *)
(* its test finds a whole packet, even when disk writes are cut short, and *)
(* never spins or drops the session on a short read.                       *)
SizeIsWritten ==
  \A w \in Workers : pc[w] = "sub_forward" => Len(file[box[w]]) >= fd[w] + PacketSize

(* The mutex of a box is free when the box is destroyed, as MTX_DESTORY    *)
(* asserts (utils/common.h:33).                                            *)
DestroyedMutexFree == broker # "panicked"

(* A box is the log it promises to be: every subscriber is sent what the   *)
(* publishers of its box published, from the first message of this box on, *)
(* whole, in order and once - and nothing an earlier box of that name, or  *)
(* an earlier run of the broker, has left in the file.                     *)
Reading ==
  [w \in SubWorkers |-> IF pc[w] \in SubscriberAt \cup {"sub_store", "sub_unlock"} THEN box[w] ELSE NoBox]

Log == INSTANCE MessageLog WITH
         Readers <- SubWorkers, Torn <- 0, reading <- Reading,
         heard <- [w \in SubWorkers |-> delivered[w]]

ImplementsLog == Log!Spec

(* No wakeup is lost: what is published reaches every subscriber that      *)
(* stays.                                                                  *)
SubscribersCatchUp ==
  \A w \in SubWorkers, k \in Messages :
    box[w] # NoBox /\ pc[w] \in SubscriberAt /\ Len(log[box[w]]) >= k
      ~> pc[w] \notin SubscriberAt \/ Len(delivered[w]) >= k
=============================================================================
