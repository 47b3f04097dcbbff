---------------------------- MODULE SessionProofs ----------------------------
(***************************************************************************)
(* Proofs about the sessions of MessageBox: what the counters of a box and *)
(* its size say of the publishers and subscribers it serves.               *)
(*                                                                         *)
(* Of publishers, everything holds for any number of workers.  Of          *)
(* subscribers, it holds where one worker serves them, or where no box is  *)
(* removed: with two workers an update of subscribers can be lost, and a   *)
(* box is freed while it is read.                                          *)
(***************************************************************************)
EXTENDS MessageBoxProofs, FiniteSetTheorems

(* publishers is the lock of a box: it is 1 from a registration to the end *)
(* of its session, which is on the list as long as it is counted; and who  *)
(* has given it back holds the mutex until the end.                        *)
PubInv ==
  /\ \A w \in Workers : pc[w] \in PubLabels => box[w] \in Listed
  /\ \A b \in Boxes : b > created => publishers[b] = 0
  /\ \A b \in Listed : publishers[b] \in {0, 1}
  /\ \A w \in Workers : pc[w] \in PublisherAt => publishers[box[w]] = 1
  /\ \A b \in Listed :
       publishers[b] = 1 => \E w \in Workers : box[w] = b /\ pc[w] \in PublisherAt
  /\ \A v, w \in Workers :
       pc[v] \in PublisherAt /\ pc[w] \in PublisherAt /\ box[v] = box[w] => v = w

(* What the proofs below use of the base invariant.                        *)
SessionFacts ==
  /\ PubWorkers \subseteq Workers
  /\ SubWorkers \subseteq Workers
  /\ ManWorkers \subseteq Workers
  /\ Nobody \notin Workers /\ NoBox \notin Boxes
  /\ \A n \in Names : Find(n) \subseteq Listed
  /\ Listed \subseteq Boxes
  /\ pc \in [Workers -> Labels] /\ box \in [Workers -> Boxes \cup {NoBox}]
  /\ SessionInv /\ LocksInv
  /\ publishers \in [Boxes -> 0..(CountRange - 1)]
  /\ subscribers \in [Boxes -> 0..(CountRange - 1)]
  /\ \A b \in Listed : b <= created
  /\ waitMutex \in [Boxes -> Workers \cup {Nobody}]

LEMMA BaseFacts == BaseInv => SessionFacts
<1>1. SUFFICES ASSUME BaseInv PROVE SessionFacts
  OBVIOUS
<1>2. ListInv /\ ControlInv /\ CountType
  BY <1>1 DEF BaseInv
<1>3. \A b \in Listed : b <= created
  BY <1>2 DEF ListInv, Listed
<1>4. QED
  BY <1>2, <1>3, FindListed, BoxAssumption DEF SessionFacts, ControlInv, ControlType,
     CountType, Workers

(* Listed is a function of the list.                                       *)
LEMMA ListedSame == UNCHANGED msgBoxes => Listed' = Listed
  BY DEF Listed


(* A registration under messages_lock and a departure under wait_mutex     *)
(* never leave two publishers, nor a removed box with one.                 *)
LEMMA PubStep == BaseInv /\ PubInv /\ [Next]_vars => PubInv'
<1> SUFFICES ASSUME BaseInv /\ PubInv, [Next]_vars
             PROVE  PubInv'
  OBVIOUS
<1>a. ListInv /\ SessionFacts
  BY BaseFacts DEF BaseInv
<1>b. Listed' = Listed \/ ~UNCHANGED msgBoxes
  BY ListedSame
<1> USE <1>a, <1>b
<1> USE DEF SessionFacts, SessionInv, LocksInv, PubInv, GoTo, heap, sessions, PubLabels,
            PublisherAt
<1>frame. ASSUME NEW w \in Workers, pc[w] \notin PubLabels, pc'[w] \notin PubLabels,
             \A v \in Workers : v # w => pc'[v] = pc[v] /\ box'[v] = box[v],
             UNCHANGED <<publishers, msgBoxes, created>>
      PROVE  PubInv'
  BY <1>frame
<1>1. ASSUME NEW w \in PubWorkers, NEW n \in Names, RegisterPub(w, n) PROVE PubInv'
  <2>1. CASE UNCHANGED <<publishers, box, pc, msgBoxes, created>>
    BY <2>1
  <2>2. CASE \E b \in Find(n) : /\ publishers[b] = 0
                               /\ publishers' = [publishers EXCEPT ![b] = 1]
                               /\ box' = [box EXCEPT ![w] = b]
                               /\ pc' = [pc EXCEPT ![w] = "pub_read"]
    <3>1. PICK b \in Find(n) : /\ publishers[b] = 0
                               /\ publishers' = [publishers EXCEPT ![b] = 1]
                               /\ box' = [box EXCEPT ![w] = b]
                               /\ pc' = [pc EXCEPT ![w] = "pub_read"]
      BY <2>2
    <3>2. /\ b \in Listed
          /\ b \in Boxes
          /\ b <= created
          /\ pc[w] = "idle"
          /\ UNCHANGED <<msgBoxes, created>>
      BY <1>1 DEF RegisterPub, Take
    <3>3. CountRange > 1 /\ \A c \in Boxes : c \in Nat /\ created \in Nat
      BY BoxAssumption DEF Boxes, ListInv
    <3>4. publishers'[b] = 1 /\ \A c \in Boxes : c # b => publishers'[c] = publishers[c]
      BY <3>1, <3>2
    <3>5. /\ box'[w] = b /\ pc'[w] = "pub_read"
          /\ \A v \in Workers : v # w => pc'[v] = pc[v] /\ box'[v] = box[v]
      BY <3>1
    <3>6. \A v \in Workers :
            v # w /\ pc[v] \in PublisherAt => box[v] # b /\ box[v] \in Boxes
      BY <3>1
    <3>7. QED
      BY <3>2, <3>3, <3>4, <3>5, <3>6
  <2>3. QED
    BY <1>1, <2>1, <2>2 DEF RegisterPub
<1>2. ASSUME NEW w \in PubWorkers, WriteMessage(w) PROVE PubInv'
  BY <1>2 DEF WriteMessage, WriteFile, Halves
<1>3. ASSUME NEW w \in PubWorkers, ShortWrite(w) PROVE PubInv'
  BY <1>3 DEF ShortWrite, WriteFile, Halves, Never
<1>4. ASSUME NEW w \in PubWorkers, EndOfPipe(w) PROVE PubInv'
  BY <1>4 DEF EndOfPipe
<1>5. ASSUME NEW w \in PubWorkers, CountMessage(w) PROVE PubInv'
  BY <1>5 DEF CountMessage, Broadcast
<1>6. ASSUME NEW w \in PubWorkers, LeavePub(w) PROVE PubInv'
  <2>1. /\ box[w] \in Listed /\ pc[w] = "pub_leave"
        /\ publishers' = [publishers EXCEPT ![box[w]] = (publishers[box[w]] - 1) % CountRange]
        /\ pc' = [pc EXCEPT ![w] = "pub_unlock"]
        /\ UNCHANGED <<box, msgBoxes, created>>
    BY <1>6 DEF LeavePub
  <2>2. (publishers[box[w]] - 1) % CountRange = 0
    <3>1. publishers[box[w]] = 1
      BY <2>1
    <3>2. CountRange \in Nat /\ CountRange > 0
      BY BoxAssumption
    <3>3. QED
      BY ONLY <3>1, <3>2
  <2>3. /\ publishers'[box[w]] = 0
        /\ \A b \in Boxes : b # box[w] => publishers'[b] = publishers[b]
    BY <2>1, <2>2
  <2>4. \A v \in Workers :
          v # w /\ pc[v] \in PublisherAt => box[v] # box[w] /\ box[v] \in Boxes
    BY <2>1
  <2>5. /\ pc'[w] = "pub_unlock"
        /\ \A v \in Workers : v # w => pc'[v] = pc[v]
    BY <2>1
  <2>6. QED
    BY <2>1, <2>3, <2>4, <2>5
<1>7. ASSUME NEW w \in Workers, Unlock(w) PROVE PubInv'
  BY <1>7 DEF Unlock
<1>8. ASSUME NEW w \in SubWorkers, NEW n \in Names, RegisterSub(w, n) PROVE PubInv'
  BY <1>frame, <1>8 DEF RegisterSub, Take
<1>9. ASSUME NEW w \in SubWorkers, StoreSubscribers(w) PROVE PubInv'
  BY <1>9 DEF StoreSubscribers
<1>10. ASSUME NEW w \in SubWorkers, TestSize(w) PROVE PubInv'
  BY <1>10 DEF TestSize
<1>11. ASSUME NEW w \in SubWorkers, SpuriousWakeup(w) PROVE PubInv'
  BY <1>11 DEF SpuriousWakeup
<1>12. ASSUME NEW w \in SubWorkers, Forward(w) PROVE PubInv'
  BY <1>frame, <1>12 DEF Forward
<1>13. ASSUME NEW w \in SubWorkers, SubscriberGone(w) PROVE PubInv'
  BY <1>13 DEF SubscriberGone
<1>14. ASSUME NEW w \in SubWorkers, LeaveSub(w) PROVE PubInv'
  BY <1>14 DEF LeaveSub, Lock
<1>15. ASSUME NEW w \in SubWorkers, DecrementSubscribers(w) PROVE PubInv'
  BY <1>15 DEF DecrementSubscribers
<1>16. ASSUME NEW w \in ManWorkers, NEW n \in Names, CreateBox(w, n) PROVE PubInv'
  <2>1. CASE UNCHANGED <<msgBoxes, created, publishers, pc, box>>
    BY <2>1
  <2>2. CASE AddBox(n) /\ UNCHANGED <<publishers, pc, box>>
    <3>1. /\ created + 1 \in Boxes
          /\ created' = created + 1
          /\ Listed' = Listed \cup {created + 1}
      BY <2>2, AddedList
    <3>2. publishers[created + 1] = 0 /\ \A b \in Boxes : b > created + 1 => b > created
      BY <3>1, BoxAssumption DEF ListInv, Boxes
    <3>3. QED
      BY <2>2, <3>1, <3>2
  <2>3. QED
    BY <1>16, <2>1, <2>2 DEF CreateBox
<1>17. ASSUME NEW w \in ManWorkers, ListBoxes(w) PROVE PubInv'
  BY <1>frame, <1>17 DEF ListBoxes, Take
<1>18. ASSUME NEW w \in ManWorkers, ListEntry(w) PROVE PubInv'
  <2>1. /\ pc'[w] \in {"idle", "list"}
        /\ pc[w] = "list"
        /\ \A v \in Workers : v # w => pc'[v] = pc[v]
    BY <1>18 DEF ListEntry
  <2>2. UNCHANGED <<publishers, msgBoxes, created, box>>
    BY <1>18 DEF ListEntry
  <2>3. QED
    BY <1>frame, <2>1, <2>2
<1>19. ASSUME Refused PROVE PubInv'
  BY <1>19 DEF Refused
<1>20. ASSUME NEW b \in Listed, Removed(b) PROVE PubInv'
  <2>1. Listed' = Listed \ {b}
    BY <1>20, RemovedList
  <2>2. UNCHANGED <<created, publishers, pc, box>>
    BY <1>20 DEF Removed
  <2>3. \A w \in Workers : pc[w] \in PubLabels => box[w] # b
    BY <1>20 DEF Removed, InUse
  <2>4. QED
    BY <2>1, <2>2, <2>3
<1>21. ASSUME NEW how \in {"exited", "panicked"}, Stop(how) PROVE PubInv'
  <2>1. /\ Listed' = {}
        /\ UNCHANGED <<created, publishers>>
        /\ pc' = [w \in Workers |-> "idle"]
    BY <1>21 DEF Stop, Listed
  <2>2. QED
    BY <2>1
<1>22. ASSUME Restart PROVE PubInv'
  BY <1>22 DEF Restart
<1>23. ASSUME UNCHANGED vars PROVE PubInv'
  BY <1>23 DEF vars, history, bounds
<1>24. QED
  BY <1>1, <1>2, <1>3, <1>4, <1>5, <1>6, <1>7, <1>8, <1>9, <1>10, <1>11, <1>12, <1>13,
     <1>14, <1>15, <1>16, <1>17, <1>18, <1>19, <1>20, <1>21, <1>22, <1>23,
     RemoveBoxOutcomes, FindListed
     DEF Next, ServePub, ServeSub, Interrupt, Workers

(* With one worker for subscribers, subscribers says whether it serves.    *)
Served(b) == \E w \in SubWorkers : box[w] = b /\ pc[w] \in SubscriberAt

Pinned == \A w \in Workers : pc[w] \in SubLabels => box[w] \in Listed

SubInv ==
  /\ Pinned
  /\ \A b \in Boxes : b > created => subscribers[b] = 0
  /\ \A b \in Listed : subscribers[b] = IF Served(b) THEN 1 ELSE 0
  /\ \A w \in Workers : pc[w] \in {"sub_store", "sub_dec"} => reg[w] = subscribers[box[w]]

(* A box that is served is counted, so it is not removed.                  *)
LEMMA SubStep == (\A v, w \in SubWorkers : v = w) /\ BaseInv /\ SubInv /\ [Next]_vars => SubInv'
<1> SUFFICES ASSUME (\A v, w \in SubWorkers : v = w) /\ BaseInv /\ SubInv, [Next]_vars
             PROVE  SubInv'
  OBVIOUS
<1>a. ListInv /\ SessionFacts /\ CountType
  BY BaseFacts DEF BaseInv
<1>b. Listed' = Listed \/ ~UNCHANGED msgBoxes
  BY ListedSame
<1>c. reg \in [Workers -> 0..(CountRange - 1)]
  BY <1>a DEF CountType
<1>d. \A v, w \in Workers : pc[v] \in SubLabels /\ pc[w] \in SubLabels => v = w
  BY <1>a DEF SessionFacts, SessionInv
<1> USE <1>a, <1>b, <1>c, <1>d
<1> USE DEF SessionFacts, SessionInv, LocksInv, SubInv, Pinned, Served, GoTo, heap,
            sessions, SubLabels, SubscriberAt
<1>frame. ASSUME UNCHANGED <<subscribers, msgBoxes, created>>,
             \A v \in Workers :
               /\ pc'[v] \in SubscriberAt <=> pc[v] \in SubscriberAt
               /\ pc'[v] \in SubLabels => pc[v] \in SubLabels /\ box'[v] = box[v]
               /\ pc'[v] \in {"sub_store", "sub_dec"} => pc[v] = pc'[v] /\ reg'[v] = reg[v]
      PROVE  SubInv'
  <2>1. \A b \in Boxes : Served(b)' <=> Served(b)
    BY <1>frame
  <2>2. QED
    BY <1>frame, <2>1
<1>1. ASSUME NEW w \in PubWorkers, NEW n \in Names, RegisterPub(w, n) PROVE SubInv'
  BY <1>frame, <1>1 DEF RegisterPub, Take
<1>2. ASSUME NEW w \in PubWorkers, WriteMessage(w) PROVE SubInv'
  BY <1>frame, <1>2 DEF WriteMessage
<1>3. ASSUME NEW w \in PubWorkers, ShortWrite(w) PROVE SubInv'
  BY <1>frame, <1>3 DEF ShortWrite
<1>4. ASSUME NEW w \in PubWorkers, EndOfPipe(w) PROVE SubInv'
  BY <1>4 DEF EndOfPipe
<1>5. ASSUME NEW w \in PubWorkers, CountMessage(w) PROVE SubInv'
  BY <1>frame, <1>5 DEF CountMessage, Broadcast
<1>6. ASSUME NEW w \in PubWorkers, LeavePub(w) PROVE SubInv'
  BY <1>6 DEF LeavePub, Lock
<1>7. ASSUME NEW w \in Workers, Unlock(w) PROVE SubInv'
  BY <1>frame, <1>7 DEF Unlock
<1>8. ASSUME NEW w \in SubWorkers, NEW n \in Names, RegisterSub(w, n) PROVE SubInv'
  <2>1. CASE UNCHANGED <<subscribers, msgBoxes, created, box, pc, reg>>
    BY <1>frame, <2>1
  <2>2. CASE \E b \in Find(n) : /\ box' = [box EXCEPT ![w] = b]
                               /\ reg' = [reg EXCEPT ![w] = subscribers[b]]
                               /\ pc' = [pc EXCEPT ![w] = "sub_store"]
                               /\ UNCHANGED <<subscribers, msgBoxes, created>>
    <3>1. PICK b \in Find(n) : /\ box' = [box EXCEPT ![w] = b]
                               /\ reg' = [reg EXCEPT ![w] = subscribers[b]]
                               /\ pc' = [pc EXCEPT ![w] = "sub_store"]
                               /\ UNCHANGED <<subscribers, msgBoxes, created>>
      BY <2>2
    <3>2. \A v \in Workers : pc[v] \notin SubLabels
      BY <1>8 DEF RegisterSub, Take
    <3>3. /\ pc'[w] = "sub_store" /\ box'[w] = b /\ reg'[w] = subscribers[b] /\ b \in Listed
          /\ \A v \in Workers : v # w => pc'[v] = pc[v]
      BY <3>1
    <3>4. \A c \in Boxes : ~Served(c) /\ ~Served(c)'
      BY <3>2, <3>3
    <3>5. QED
      BY <3>1, <3>2, <3>3, <3>4
  <2>3. QED
    BY <1>8, <2>1, <2>2 DEF RegisterSub, Take
<1>9. ASSUME NEW w \in SubWorkers, StoreSubscribers(w) PROVE SubInv'
  <2>1. /\ pc[w] = "sub_store" /\ box[w] \in Listed
        /\ subscribers' = [subscribers EXCEPT ![box[w]] = (reg[w] + 1) % CountRange]
        /\ pc' = [pc EXCEPT ![w] = "sub_test"]
        /\ UNCHANGED <<box, msgBoxes, created>>
    BY <1>9 DEF StoreSubscribers
  <2>2. \A c \in Boxes : ~Served(c)
    BY <2>1
  <2>3. (reg[w] + 1) % CountRange = 1
    <3>1. reg[w] = 0
      BY <2>1, <2>2
    <3>2. CountRange \in Nat /\ CountRange > 1
      BY BoxAssumption
    <3>3. QED
      BY ONLY <3>1, <3>2
  <2>4. \A c \in Boxes : Served(c)' <=> c = box[w]
    BY <2>1, <2>2
  <2>5. /\ subscribers'[box[w]] = 1
        /\ \A c \in Boxes : c # box[w] => subscribers'[c] = subscribers[c]
    BY <2>1, <2>3
  <2>6. \A v \in Workers : pc'[v] \in SubLabels => v = w
    BY <2>1
  <2>7. box[w] \in Boxes /\ ~(box[w] > created)
    <3>1. created \in Nat /\ \A b \in Boxes : b \in Nat
      BY BoxAssumption DEF ListInv, Boxes
    <3>2. QED
      BY <2>1, <3>1
  <2>8. QED
    BY <2>1, <2>2, <2>4, <2>5, <2>6, <2>7
<1>10. ASSUME NEW w \in SubWorkers, TestSize(w) PROVE SubInv'
  BY <1>10 DEF TestSize
<1>11. ASSUME NEW w \in SubWorkers, SpuriousWakeup(w) PROVE SubInv'
  BY <1>11 DEF SpuriousWakeup
<1>12. ASSUME NEW w \in SubWorkers, Forward(w) PROVE SubInv'
  BY <1>12 DEF Forward
<1>13. ASSUME NEW w \in SubWorkers, SubscriberGone(w) PROVE SubInv'
  BY <1>13 DEF SubscriberGone
<1>14. ASSUME NEW w \in SubWorkers, LeaveSub(w) PROVE SubInv'
  BY <1>14 DEF LeaveSub, Lock
<1>15. ASSUME NEW w \in SubWorkers, DecrementSubscribers(w) PROVE SubInv'
  <2>1. /\ pc[w] = "sub_dec" /\ box[w] \in Listed
        /\ subscribers' = [subscribers EXCEPT ![box[w]] = (reg[w] - 1) % CountRange]
        /\ pc' = [pc EXCEPT ![w] = "sub_unlock"]
        /\ UNCHANGED <<box, msgBoxes, created>>
    BY <1>15 DEF DecrementSubscribers
  <2>2. Served(box[w]) /\ \A c \in Boxes : c # box[w] => ~Served(c)
    BY <2>1
  <2>3. (reg[w] - 1) % CountRange = 0
    <3>1. reg[w] = 1
      BY <2>1, <2>2
    <3>2. CountRange \in Nat /\ CountRange > 1
      BY BoxAssumption
    <3>3. QED
      BY ONLY <3>1, <3>2
  <2>4. \A c \in Boxes : ~Served(c)'
    BY <2>1, <2>2
  <2>5. /\ subscribers'[box[w]] = 0
        /\ \A c \in Boxes : c # box[w] => subscribers'[c] = subscribers[c]
    BY <2>1, <2>3
  <2>6. \A v \in Workers : pc'[v] \in SubLabels => v = w
    BY <2>1
  <2>7. QED
    BY <2>1, <2>2, <2>4, <2>5, <2>6
<1>16. ASSUME NEW w \in ManWorkers, NEW n \in Names, CreateBox(w, n) PROVE SubInv'
  <2>1. CASE UNCHANGED <<msgBoxes, created, subscribers, pc, box, reg>>
    BY <2>1
  <2>2. CASE AddBox(n) /\ UNCHANGED <<subscribers, pc, box, reg>>
    <3>1. /\ created + 1 \in Boxes
          /\ created' = created + 1
          /\ Listed' = Listed \cup {created + 1}
      BY <2>2, AddedList
    <3>2. subscribers[created + 1] = 0 /\ \A b \in Boxes : b > created + 1 => b > created
      BY <3>1, BoxAssumption DEF ListInv, Boxes
    <3>3. ~Served(created + 1)
      BY <3>1, BoxAssumption DEF ListInv, Boxes
    <3>4. QED
      BY <2>2, <3>1, <3>2, <3>3
  <2>3. QED
    BY <1>16, <2>1, <2>2 DEF CreateBox
<1>17. ASSUME NEW w \in ManWorkers, ListBoxes(w) PROVE SubInv'
  BY <1>frame, <1>17 DEF ListBoxes, Take
<1>18. ASSUME NEW w \in ManWorkers, ListEntry(w) PROVE SubInv'
  BY <1>frame, <1>18 DEF ListEntry
<1>19. ASSUME Refused PROVE SubInv'
  BY <1>19 DEF Refused
<1>20. ASSUME NEW b \in Listed, Removed(b) PROVE SubInv'
  <2>1. Listed' = Listed \ {b}
    BY <1>20, RemovedList
  <2>2. UNCHANGED <<created, subscribers, pc, box, reg>>
    BY <1>20 DEF Removed
  <2>3. \A w \in Workers : pc[w] \in SubLabels => box[w] # b
    BY <1>20 DEF Removed, InUse
  <2>4. QED
    BY <2>1, <2>2, <2>3
<1>21. ASSUME NEW how \in {"exited", "panicked"}, Stop(how) PROVE SubInv'
  <2>1. /\ Listed' = {}
        /\ UNCHANGED <<created, subscribers>>
        /\ pc' = [w \in Workers |-> "idle"]
    BY <1>21 DEF Stop, Listed
  <2>2. QED
    BY <2>1
<1>22. ASSUME Restart PROVE SubInv'
  BY <1>22 DEF Restart
<1>23. ASSUME UNCHANGED vars PROVE SubInv'
  BY <1>23 DEF vars, history, bounds
<1>24. QED
  BY <1>1, <1>2, <1>3, <1>4, <1>5, <1>6, <1>7, <1>8, <1>9, <1>10, <1>11, <1>12, <1>13,
     <1>14, <1>15, <1>16, <1>17, <1>18, <1>19, <1>20, <1>21, <1>22, <1>23,
     RemoveBoxOutcomes, FindListed
     DEF Next, ServePub, ServeSub, Interrupt, Workers

Even(n) == n % PacketSize = 0

(* Between two whole numbers of packets there is a whole packet.           *)
LEMMA EvenGap ==
  ASSUME NEW i \in Nat, NEW j \in Nat, Even(i), Even(j), i < j
  PROVE  i + PacketSize <= j /\ Even(i + PacketSize)
  BY DEF Even, PacketSize

(* The counted part of a file has been written, in whole packets.          *)
CountedInv ==
  /\ \A b \in Boxes : Even(size[b]) /\ (b > created => size[b] = 0)
  /\ \A b \in Listed : size[b] <= fdInternalW[b]
  /\ \A w \in Workers :
       pc[w] = "pub_count" => size[box[w]] + PacketSize <= fdInternalW[box[w]]

(* A subscriber reads whole packets of that part.                          *)
ReadInv ==
  /\ \A w \in Workers : Even(fd[w]) /\ (pc[w] \notin SubLabels => fd[w] = 0)
  /\ \A w \in Workers : pc[w] \in SubLabels => fd[w] <= size[box[w]]
  /\ \A w \in Workers : pc[w] = "sub_forward" => fd[w] < size[box[w]]
  /\ \A w \in Workers : pc[w] = "sub_store" => fd[w] = 0

(* size grows by a packet that was written whole, and by nothing else.     *)
LEMMA CountedStep == BaseInv /\ PubInv /\ CountedInv /\ [Next]_vars => CountedInv'
<1> SUFFICES ASSUME BaseInv /\ PubInv /\ CountedInv, [Next]_vars
             PROVE  CountedInv'
  OBVIOUS
<1>a. ListInv /\ SessionFacts /\ CountType /\ FileInv
  BY BaseFacts DEF BaseInv
<1>b. Listed' = Listed \/ ~UNCHANGED msgBoxes
  BY ListedSame
<1>c. /\ PubWorkers \subseteq Workers
      /\ SubWorkers \subseteq Workers
      /\ ManWorkers \subseteq Workers
  BY <1>a DEF SessionFacts
<1>d. /\ pc \in [Workers -> Labels] /\ box \in [Workers -> Boxes \cup {NoBox}]
      /\ Listed \subseteq Boxes /\ \A n \in Names : Find(n) \subseteq Listed
      /\ \A w \in Workers : pc[w] \notin {"idle", "list"} => box[w] \in Boxes
  BY <1>a DEF SessionFacts, SessionInv
<1>e. /\ size \in [Boxes -> Nat] /\ fdInternalW \in [Boxes -> Nat]
      /\ created \in Nat /\ \A b \in Boxes : b \in Nat
  BY <1>a, BoxAssumption DEF CountType, FileInv, ListInv, Boxes
<1>g. /\ \A w \in Workers : pc[w] \in PubLabels => box[w] \in Listed
      /\ \A v, w \in Workers :
           pc[v] \in PublisherAt /\ pc[w] \in PublisherAt /\ box[v] = box[w] => v = w
      /\ \A b \in Listed : b \in Boxes /\ b \in Nat /\ ~(b > created)
  BY <1>a, <1>e DEF PubInv, SessionFacts
<1> HIDE DEF BaseInv, PubInv
<1> USE <1>b, <1>c, <1>d
<1> USE DEF GoTo, heap, storage, sessions, SubLabels, SubscriberAt, PubLabels,
            PublisherAt, Take
<1>frame. ASSUME UNCHANGED <<size, msgBoxes, created, fdInternalW>>,
             \A v \in Workers : pc'[v] = "pub_count" => pc[v] = "pub_count" /\ box'[v] = box[v]
      PROVE  CountedInv'
  BY <1>frame DEF CountedInv
<1>write. ASSUME NEW w \in PubWorkers, pc[w] = "pub_read", NEW k \in Nat, NEW l,
             fdInternalW' = [fdInternalW EXCEPT ![box[w]] = fdInternalW[box[w]] + k],
             pc' = [pc EXCEPT ![w] = l], l = "pub_count" => k >= PacketSize,
             UNCHANGED <<size, msgBoxes, created, box>>
      PROVE  CountedInv'
  <2>1. /\ box[w] \in Listed
        /\ fdInternalW[box[w]] \in Nat
        /\ fdInternalW'[box[w]] = fdInternalW[box[w]] + k
        /\ \A b \in Boxes : b # box[w] => fdInternalW'[b] = fdInternalW[b]
    BY <1>e, <1>g, <1>write
  <2>2. \A b \in Boxes : Even(size'[b]) /\ (b > created' => size'[b] = 0)
    BY <1>write DEF CountedInv
  <2>3. \A b \in Listed' : size'[b] <= fdInternalW'[b]
    BY <1>e, <1>g, <1>write, <2>1 DEF CountedInv
  <2>4. \A v \in Workers :
          v # w /\ pc'[v] = "pub_count" => pc[v] = "pub_count" /\ box[v] # box[w] /\ box[v] \in Boxes
    BY <1>g, <1>write
  <2>5. \A v \in Workers :
          v # w /\ pc'[v] = "pub_count" => size'[box'[v]] + PacketSize <= fdInternalW'[box'[v]]
    BY <1>write, <2>1, <2>4 DEF CountedInv
  <2>6. pc'[w] = "pub_count" => size'[box'[w]] + PacketSize <= fdInternalW'[box'[w]]
    <3>1. size[box[w]] \in Nat /\ size[box[w]] <= fdInternalW[box[w]]
      BY <1>e, <1>g, <2>1 DEF CountedInv
    <3>2. pc'[w] = l /\ box' = box /\ size' = size
      BY <1>write
    <3>3. k >= PacketSize => size[box[w]] + PacketSize <= fdInternalW[box[w]] + k
      BY <2>1, <3>1 DEF PacketSize
    <3>4. QED
      BY <1>write, <2>1, <3>2, <3>3
  <2>7. QED
    BY <2>2, <2>3, <2>5, <2>6 DEF CountedInv
<1>1. ASSUME NEW w \in PubWorkers, NEW n \in Names, RegisterPub(w, n) PROVE CountedInv'
  BY <1>frame, <1>1 DEF RegisterPub
<1>2. ASSUME NEW w \in PubWorkers, WriteMessage(w) PROVE CountedInv'
  <2>1. Len(Halves(sent + 1)) = 2
    BY DEF Halves
  <2>2. /\ pc[w] = "pub_read"
        /\ fdInternalW' = [fdInternalW EXCEPT ![box[w]] = fdInternalW[box[w]] + 2]
        /\ pc' = [pc EXCEPT ![w] = "pub_count"]
        /\ UNCHANGED <<size, msgBoxes, created, box>>
    BY <1>2, <2>1 DEF WriteMessage, WriteFile
  <2>3. 2 \in Nat /\ 2 >= PacketSize
    BY DEF PacketSize
  <2>4. QED
    BY <1>write, <2>2, <2>3
<1>3. ASSUME NEW w \in PubWorkers, ShortWrite(w) PROVE CountedInv'
  <2>1. PICK written \in 0..(PacketSize - 1) :
          WriteFile(box[w], SubSeq(Halves(sent + 1), 1, written))
    BY <1>3 DEF ShortWrite
  <2>2. Len(SubSeq(Halves(sent + 1), 1, written)) \in Nat
    BY <2>1 DEF Halves, PacketSize
  <2>3. QED
    BY <1>write, <1>3, <2>1, <2>2 DEF ShortWrite, WriteFile
<1>4. ASSUME NEW w \in PubWorkers, EndOfPipe(w) PROVE CountedInv'
  BY <1>frame, <1>4 DEF EndOfPipe
<1>5. ASSUME NEW w \in PubWorkers, CountMessage(w) PROVE CountedInv'
  <2>1. /\ pc[w] = "pub_count" /\ box[w] \in Listed
        /\ size' = [size EXCEPT ![box[w]] = @ + PacketSize]
        /\ UNCHANGED <<fdInternalW, msgBoxes, created, box>>
    BY <1>g, <1>5 DEF CountMessage
  <2>2. /\ pc'[w] = "pub_read"
        /\ \A v \in Workers : pc'[v] = "pub_count" => pc[v] = "pub_count" /\ v # w
    BY <1>5 DEF CountMessage, Broadcast
  <2>3. \A v \in Workers : pc'[v] = "pub_count" => box[v] # box[w] /\ box[v] \in Boxes
    BY <1>g, <2>1, <2>2
  <2>4. /\ size'[box[w]] = size[box[w]] + PacketSize /\ size[box[w]] \in Nat
        /\ \A b \in Boxes : b # box[w] => size'[b] = size[b]
    BY <1>e, <1>g, <2>1
  <2>5. Even(size'[box[w]])
    BY <1>g, <2>1, <2>4 DEF CountedInv, Even, PacketSize
  <2>6. \A b \in Boxes : Even(size'[b]) /\ (b > created' => size'[b] = 0)
    BY <1>g, <2>1, <2>4, <2>5 DEF CountedInv
  <2>7. \A b \in Listed' : size'[b] <= fdInternalW'[b]
    BY <1>g, <2>1, <2>4 DEF CountedInv
  <2>8. \A v \in Workers :
          pc'[v] = "pub_count" => size'[box'[v]] + PacketSize <= fdInternalW'[box'[v]]
    BY <2>1, <2>2, <2>3, <2>4 DEF CountedInv
  <2>9. QED
    BY <2>6, <2>7, <2>8 DEF CountedInv
<1>6. ASSUME NEW w \in PubWorkers, LeavePub(w) PROVE CountedInv'
  BY <1>frame, <1>6 DEF LeavePub, Lock
<1>7. ASSUME NEW w \in Workers, Unlock(w) PROVE CountedInv'
  BY <1>frame, <1>7 DEF Unlock
<1>8. ASSUME NEW w \in SubWorkers, NEW n \in Names, RegisterSub(w, n) PROVE CountedInv'
  BY <1>frame, <1>8 DEF RegisterSub
<1>9. ASSUME NEW w \in SubWorkers, StoreSubscribers(w) PROVE CountedInv'
  BY <1>frame, <1>9 DEF StoreSubscribers
<1>10. ASSUME NEW w \in SubWorkers, TestSize(w) PROVE CountedInv'
  BY <1>frame, <1>10 DEF TestSize
<1>11. ASSUME NEW w \in SubWorkers, SpuriousWakeup(w) PROVE CountedInv'
  BY <1>frame, <1>11 DEF SpuriousWakeup
<1>12. ASSUME NEW w \in SubWorkers, Forward(w) PROVE CountedInv'
  BY <1>frame, <1>12 DEF Forward
<1>13. ASSUME NEW w \in SubWorkers, SubscriberGone(w) PROVE CountedInv'
  BY <1>frame, <1>13 DEF SubscriberGone
<1>14. ASSUME NEW w \in SubWorkers, LeaveSub(w) PROVE CountedInv'
  BY <1>frame, <1>14 DEF LeaveSub, Lock
<1>15. ASSUME NEW w \in SubWorkers, DecrementSubscribers(w) PROVE CountedInv'
  BY <1>frame, <1>15 DEF DecrementSubscribers
<1>16. ASSUME NEW w \in ManWorkers, NEW n \in Names, CreateBox(w, n) PROVE CountedInv'
  <2>1. CASE UNCHANGED <<size, msgBoxes, created, fdInternalW, pc, box>>
    BY <1>frame, <2>1
  <2>2. CASE AddBox(n) /\ UNCHANGED <<size, pc, box>>
    <3>a. UNCHANGED fdInternalW
      BY <2>2 DEF AddBox
    <3>1. /\ created + 1 \in Boxes
          /\ created' = created + 1
          /\ Listed' = Listed \cup {created + 1}
      BY <1>a, <2>2, AddedList
    <3>2. size[created + 1] = 0 /\ \A b \in Boxes : b > created + 1 => b > created
      BY <1>e, <3>1 DEF CountedInv
    <3>3. size'[created + 1] <= fdInternalW'[created + 1]
      BY <1>e, <2>2, <3>a, <3>1, <3>2
    <3>4. QED
      BY <2>2, <3>a, <3>1, <3>2, <3>3 DEF CountedInv
  <2>3. QED
    BY <1>16, <2>1, <2>2 DEF CreateBox
<1>17. ASSUME NEW w \in ManWorkers, ListBoxes(w) PROVE CountedInv'
  BY <1>frame, <1>17 DEF ListBoxes, Take
<1>18. ASSUME NEW w \in ManWorkers, ListEntry(w) PROVE CountedInv'
  BY <1>frame, <1>18 DEF ListEntry
<1>19. ASSUME Refused PROVE CountedInv'
  BY <1>frame, <1>19 DEF Refused
<1>20. ASSUME NEW b \in Listed, Removed(b) PROVE CountedInv'
  <2>1. Listed' = Listed \ {b}
    BY <1>a, <1>20, RemovedList
  <2>2. /\ UNCHANGED <<created, size, pc, box>>
        /\ fdInternalW' = [fdInternalW EXCEPT ![b] = 0]
    BY <1>20 DEF Removed, DeleteBox
  <2>3. \A w \in Workers : pc[w] = "pub_count" => box[w] # b /\ box[w] \in Boxes
    BY <1>g, <1>20 DEF Removed, InUse, PubInv
  <2>4. \A c \in Boxes : c # b => fdInternalW'[c] = fdInternalW[c]
    BY <1>e, <2>2
  <2>5. QED
    BY <1>d, <2>1, <2>2, <2>3, <2>4 DEF CountedInv
<1>21. ASSUME NEW how \in {"exited", "panicked"}, Stop(how) PROVE CountedInv'
  <2>1. Listed' = {} /\ UNCHANGED <<created, size>> /\ pc' = [w \in Workers |-> "idle"]
    BY <1>21 DEF Stop, Listed
  <2>2. QED
    BY <2>1 DEF CountedInv
<1>22. ASSUME Restart PROVE CountedInv'
  BY <1>frame, <1>22 DEF Restart
<1>23. ASSUME UNCHANGED vars PROVE CountedInv'
  BY <1>frame, <1>23 DEF vars, history, bounds
<1>24. QED
  BY <1>1, <1>2, <1>3, <1>4, <1>5, <1>6, <1>7, <1>8, <1>9, <1>10, <1>11, <1>12, <1>13,
     <1>14, <1>15, <1>16, <1>17, <1>18, <1>19, <1>20, <1>21, <1>22, <1>23,
     RemoveBoxOutcomes, FindListed
     DEF Next, ServePub, ServeSub, Interrupt, Workers

(* What a subscriber that passed its test reads is a whole packet.         *)
LEMMA ReadStep == BaseInv /\ CountedInv /\ Pinned /\ ReadInv /\ [Next]_vars => ReadInv'
<1> SUFFICES ASSUME BaseInv /\ CountedInv /\ Pinned /\ ReadInv, [Next]_vars
             PROVE  ReadInv'
  OBVIOUS
<1>a. ListInv /\ SessionFacts /\ CountType /\ FileInv
  BY BaseFacts DEF BaseInv
<1>b. Listed' = Listed \/ ~UNCHANGED msgBoxes
  BY ListedSame
<1>c. /\ PubWorkers \subseteq Workers
      /\ SubWorkers \subseteq Workers
      /\ ManWorkers \subseteq Workers
  BY <1>a DEF SessionFacts
<1>d. /\ pc \in [Workers -> Labels] /\ box \in [Workers -> Boxes \cup {NoBox}]
      /\ Listed \subseteq Boxes /\ \A n \in Names : Find(n) \subseteq Listed
      /\ \A w \in Workers : pc[w] \notin {"idle", "list"} => box[w] \in Boxes
  BY <1>a DEF SessionFacts, SessionInv
<1>e. size \in [Boxes -> Nat] /\ fd \in [Workers -> Nat]
  BY <1>a DEF CountType
<1>h. \A b \in Boxes : size[b] \in Nat /\ Even(size[b])
  BY <1>e DEF CountedInv
<1>i. Even(0)
  BY DEF Even, PacketSize
<1> HIDE DEF BaseInv, CountedInv, Pinned
<1> USE <1>b, <1>c, <1>d, <1>e
<1> USE DEF GoTo, heap, storage, sessions, SubLabels, SubscriberAt, PubLabels,
            PublisherAt, Take
<1>j. \A v \in Workers : pc[v] \notin SubLabels => fd[v] = 0
  BY DEF ReadInv
<1>frame. ASSUME UNCHANGED <<size, fd>>,
             \A v \in Workers :
               /\ pc'[v] \in SubLabels <=> pc[v] \in SubLabels
               /\ pc'[v] \in SubLabels => box'[v] = box[v]
               /\ pc'[v] = "sub_forward" => pc[v] = "sub_forward"
               /\ pc'[v] = "sub_store" => pc[v] = "sub_store"
      PROVE  ReadInv'
  BY <1>frame, <1>i DEF ReadInv
<1>1. ASSUME NEW w \in PubWorkers, NEW n \in Names, RegisterPub(w, n) PROVE ReadInv'
  BY <1>frame, <1>1 DEF RegisterPub
<1>2. ASSUME NEW w \in PubWorkers, WriteMessage(w) PROVE ReadInv'
  BY <1>frame, <1>2 DEF WriteMessage, WriteFile, Halves
<1>3. ASSUME NEW w \in PubWorkers, ShortWrite(w) PROVE ReadInv'
  BY <1>frame, <1>3 DEF ShortWrite, WriteFile, Halves, Never
<1>4. ASSUME NEW w \in PubWorkers, EndOfPipe(w) PROVE ReadInv'
  BY <1>frame, <1>4 DEF EndOfPipe
<1>5. ASSUME NEW w \in PubWorkers, CountMessage(w) PROVE ReadInv'
  <2>1. /\ box[w] \in Boxes /\ size' = [size EXCEPT ![box[w]] = size[box[w]] + PacketSize]
        /\ UNCHANGED <<fd, box>>
    BY <1>5 DEF CountMessage
  <2>2. \A v \in Workers : /\ pc'[v] \in SubLabels <=> pc[v] \in SubLabels
                           /\ pc'[v] = "sub_forward" => pc[v] = "sub_forward"
                           /\ pc'[v] = "sub_store" => pc[v] = "sub_store"
    BY <1>5 DEF CountMessage, Broadcast
  <2>3. \A b \in Boxes : size'[b] \in Nat /\ size'[b] >= size[b]
    BY <1>h, <2>1 DEF PacketSize
  <2>4. \A v \in Workers : pc[v] \in SubLabels => box[v] \in Boxes /\ fd[v] \in Nat
    OBVIOUS
  <2>5. QED
    BY <1>h, <2>1, <2>2, <2>3, <2>4 DEF ReadInv
<1>6. ASSUME NEW w \in PubWorkers, LeavePub(w) PROVE ReadInv'
  BY <1>frame, <1>6 DEF LeavePub, Lock
<1>7. ASSUME NEW w \in Workers, Unlock(w) PROVE ReadInv'
  <2>1. pc'[w] = "idle" /\ fd'[w] = 0
    BY <1>7 DEF Unlock
  <2>2. /\ size' = size
        /\ \A v \in Workers : v # w => pc'[v] = pc[v] /\ fd'[v] = fd[v] /\ box'[v] = box[v]
    BY <1>7 DEF Unlock
  <2>3. QED
    BY <1>i, <2>1, <2>2 DEF ReadInv
<1>8. ASSUME NEW w \in SubWorkers, NEW n \in Names, RegisterSub(w, n) PROVE ReadInv'
  <2>1. CASE UNCHANGED <<size, box, pc, fd>>
    BY <1>frame, <2>1
  <2>2. CASE \E b \in Find(n) : /\ box' = [box EXCEPT ![w] = b]
                               /\ pc' = [pc EXCEPT ![w] = "sub_store"]
                               /\ UNCHANGED <<size, fd>>
    <3>1. PICK b \in Find(n) : /\ box' = [box EXCEPT ![w] = b]
                               /\ pc' = [pc EXCEPT ![w] = "sub_store"]
                               /\ UNCHANGED <<size, fd>>
      BY <2>2
    <3>2. /\ b \in Boxes
          /\ box'[w] = b
          /\ pc'[w] = "sub_store"
          /\ fd'[w] = 0
          /\ fd'[w] <= size'[b]
      BY <1>h, <1>j, <1>8, <3>1 DEF RegisterSub
    <3>3. \A v \in Workers : v # w => pc'[v] = pc[v] /\ box'[v] = box[v]
      BY <3>1
    <3>4. QED
      BY <1>i, <3>1, <3>2, <3>3 DEF ReadInv
  <2>3. QED
    BY <1>8, <2>1, <2>2 DEF RegisterSub
<1>9. ASSUME NEW w \in SubWorkers, StoreSubscribers(w) PROVE ReadInv'
  BY <1>frame, <1>9 DEF StoreSubscribers
<1>10. ASSUME NEW w \in SubWorkers, TestSize(w) PROVE ReadInv'
  <2>1. /\ pc[w] = "sub_test" /\ pc'[w] \in {"sub_wait", "sub_forward"}
        /\ pc'[w] = "sub_forward" => size[box[w]] # fd[w]
        /\ \A v \in Workers : v # w => pc'[v] = pc[v]
        /\ UNCHANGED <<size, fd, box>>
    BY <1>10 DEF TestSize
  <2>2. pc'[w] = "sub_forward" => fd[w] < size[box[w]]
    <3>1. box[w] \in Boxes /\ fd[w] \in Nat /\ size[box[w]] \in Nat /\ fd[w] <= size[box[w]]
      BY <1>h, <2>1 DEF ReadInv
    <3>2. QED
      BY <2>1, <3>1
  <2>3. QED
    BY <2>1, <2>2 DEF ReadInv
<1>11. ASSUME NEW w \in SubWorkers, SpuriousWakeup(w) PROVE ReadInv'
  BY <1>frame, <1>11 DEF SpuriousWakeup
<1>12. ASSUME NEW w \in SubWorkers, Forward(w) PROVE ReadInv'
  <2> DEFINE content == file[box[w]]
             read == SubSeq(content, fd[w] + 1, Smaller(fd[w] + PacketSize, Len(content)))
  <2>1. /\ pc[w] = "sub_forward" /\ pc'[w] \in {"sub_test", "sub_leave"}
        /\ fd' = [fd EXCEPT ![w] = fd[w] + Len(read)]
        /\ \A v \in Workers : v # w => pc'[v] = pc[v]
        /\ UNCHANGED <<size, box>>
    BY <1>12 DEF Forward
  <2>2. /\ box[w] \in Listed /\ box[w] \in Boxes /\ fd[w] \in Nat
        /\ Even(fd[w]) /\ Even(size[box[w]]) /\ fd[w] < size[box[w]]
        /\ size[box[w]] \in Nat /\ size[box[w]] <= fdInternalW[box[w]]
    BY <1>h, <2>1 DEF Pinned, ReadInv, CountedInv
  <2>3. /\ content \in Seq(Messages \X {1, 2}) /\ Len(content) \in Nat
        /\ fdInternalW[box[w]] \in Nat /\ fdInternalW[box[w]] <= Len(content)
    BY <1>a, <2>2, LenProperties DEF FileInv
  <2>4. /\ fd[w] + PacketSize <= size[box[w]]
        /\ fd[w] + PacketSize <= Len(content)
        /\ Even(fd[w] + PacketSize)
    <3> HIDE DEF content
    <3>1. fd[w] + PacketSize <= size[box[w]] /\ Even(fd[w] + PacketSize)
      BY <2>2, EvenGap
    <3>2. fd[w] + PacketSize \in Nat
      BY <2>2 DEF PacketSize
    <3>3. QED
      BY ONLY <2>2, <2>3, <3>1, <3>2
  <2>5. Len(read) = PacketSize
    BY <2>2, <2>3, <2>4, ReadPart
  <2>6. fd'[w] = fd[w] + PacketSize /\ \A v \in Workers : v # w => fd'[v] = fd[v]
    BY <2>1, <2>5
  <2>7. QED
    BY <2>1, <2>4, <2>6 DEF ReadInv
<1>13. ASSUME NEW w \in SubWorkers, SubscriberGone(w) PROVE ReadInv'
  BY <1>frame, <1>13 DEF SubscriberGone
<1>14. ASSUME NEW w \in SubWorkers, LeaveSub(w) PROVE ReadInv'
  BY <1>frame, <1>14 DEF LeaveSub, Lock
<1>15. ASSUME NEW w \in SubWorkers, DecrementSubscribers(w) PROVE ReadInv'
  BY <1>frame, <1>15 DEF DecrementSubscribers
<1>16. ASSUME NEW w \in ManWorkers, NEW n \in Names, CreateBox(w, n) PROVE ReadInv'
  BY <1>frame, <1>16 DEF CreateBox
<1>17. ASSUME NEW w \in ManWorkers, ListBoxes(w) PROVE ReadInv'
  BY <1>frame, <1>17 DEF ListBoxes, Take
<1>18. ASSUME NEW w \in ManWorkers, ListEntry(w) PROVE ReadInv'
  BY <1>frame, <1>18 DEF ListEntry
<1>19. ASSUME Refused PROVE ReadInv'
  BY <1>frame, <1>19 DEF Refused
<1>20. ASSUME NEW b \in Listed, Removed(b) PROVE ReadInv'
  BY <1>frame, <1>20 DEF Removed, DeleteBox
<1>21. ASSUME NEW how \in {"exited", "panicked"}, Stop(how) PROVE ReadInv'
  <2>1. UNCHANGED size /\ pc' = [v \in Workers |-> "idle"] /\ fd' = [v \in Workers |-> 0]
    BY <1>21 DEF Stop
  <2>2. QED
    BY <1>i, <2>1 DEF ReadInv
<1>22. ASSUME Restart PROVE ReadInv'
  BY <1>frame, <1>22 DEF Restart
<1>23. ASSUME UNCHANGED vars PROVE ReadInv'
  BY <1>frame, <1>23 DEF vars, history, bounds
<1>24. QED
  BY <1>1, <1>2, <1>3, <1>4, <1>5, <1>6, <1>7, <1>8, <1>9, <1>10, <1>11, <1>12, <1>13,
     <1>14, <1>15, <1>16, <1>17, <1>18, <1>19, <1>20, <1>21, <1>22, <1>23,
     RemoveBoxOutcomes, FindListed
     DEF Next, ServePub, ServeSub, Interrupt, Workers

LEMMA SessionsInit == Init => PubInv /\ SubInv /\ CountedInv /\ ReadInv
<1> SUFFICES ASSUME Init PROVE PubInv /\ SubInv /\ CountedInv /\ ReadInv
  OBVIOUS
<1>1. Listed = {} /\ \A w \in Workers : pc[w] = "idle"
  BY DEF Init, Listed
<1>2. PubInv /\ SubInv
  BY <1>1 DEF Init, PubInv, SubInv, Pinned, PubLabels, PublisherAt, SubLabels, SubscriberAt
<1>3. CountedInv /\ ReadInv
  BY <1>1 DEF Init, CountedInv, ReadInv, Even, PacketSize, SubLabels, SubscriberAt
<1>4. QED
  BY <1>2, <1>3

LEMMA PublishersAlways == Spec => [](BaseInv /\ PubInv /\ CountedInv)
<1>1. Init => BaseInv /\ PubInv /\ CountedInv
  BY BaseInit, SessionsInit
<1>2. (BaseInv /\ PubInv /\ CountedInv) /\ [Next]_vars => (BaseInv /\ PubInv /\ CountedInv)'
  BY BaseStep, PubStep, CountedStep
<1>3. QED
  BY <1>1, <1>2, PTL DEF Spec

(* publishers, written under two different locks, gives a box one publisher*)
(* at a time and counts it (mbroker.c:167-202).                            *)
THEOREM OnePublisher == Spec => []SinglePublisher
<1>1. BaseInv /\ PubInv => SinglePublisher
  <2> SUFFICES ASSUME BaseInv, PubInv, NEW b \in Listed
               PROVE  /\ Cardinality(PublishersAt(b)) <= 1
                      /\ publishers[b] = Cardinality(PublishersAt(b))
    BY DEF SinglePublisher
  <2>1. CASE PublishersAt(b) = {}
    <3>1. Cardinality(PublishersAt(b)) = 0
      BY <2>1, FS_EmptySet
    <3>2. publishers[b] = 0
      BY <2>1 DEF PubInv, PublishersAt
    <3>3. QED
      BY <3>1, <3>2
  <2>2. CASE PublishersAt(b) # {}
    <3>1. PICK w \in Workers : box[w] = b /\ pc[w] \in PublisherAt
      BY <2>2 DEF PublishersAt
    <3>2. PublishersAt(b) = {w}
      BY <3>1 DEF PubInv, PublishersAt
    <3>3. Cardinality(PublishersAt(b)) = 1
      BY <3>2, FS_Singleton
    <3>4. publishers[b] = 1
      BY <3>1 DEF PubInv
    <3>5. QED
      BY <3>3, <3>4
  <2>3. QED
    BY <2>1, <2>2
<1>2. QED
  BY <1>1, PublishersAlways, PTL

OneSubscriberWorker == \A v, w \in SubWorkers : v = w

LEMMA SubscriberAlways ==
  ASSUME OneSubscriberWorker
  PROVE  Spec => [](BaseInv /\ PubInv /\ CountedInv /\ SubInv)
<1>1. Init => BaseInv /\ PubInv /\ CountedInv /\ SubInv
  BY BaseInit, SessionsInit
<1>2. (BaseInv /\ PubInv /\ CountedInv /\ SubInv) /\ [Next]_vars
        => (BaseInv /\ PubInv /\ CountedInv /\ SubInv)'
  BY BaseStep, PubStep, CountedStep, SubStep DEF OneSubscriberWorker
<1>3. QED
  BY <1>1, <1>2, PTL DEF Spec

(* Without removals the list only grows.                                   *)
LEMMA PinnedStep == RemWorkers = {} /\ BaseInv /\ Pinned /\ [Next]_vars => Pinned'
<1> SUFFICES ASSUME RemWorkers = {} /\ BaseInv /\ Pinned, [Next]_vars
             PROVE  Pinned'
  OBVIOUS
<1>a. ListInv /\ SessionFacts
  BY BaseFacts DEF BaseInv
<1>b. Listed' = Listed \/ ~UNCHANGED msgBoxes
  BY ListedSame
<1> USE <1>a, <1>b
<1> USE DEF SessionFacts, SessionInv, Pinned, GoTo, sessions, SubLabels, SubscriberAt, Take
<1>1. ASSUME NEW w \in PubWorkers, NEW n \in Names, RegisterPub(w, n) PROVE Pinned'
  BY <1>1 DEF RegisterPub, Take
<1>2. ASSUME NEW w \in PubWorkers, WriteMessage(w) PROVE Pinned'
  BY <1>2 DEF WriteMessage, WriteFile, Halves
<1>3. ASSUME NEW w \in PubWorkers, ShortWrite(w) PROVE Pinned'
  BY <1>3 DEF ShortWrite, WriteFile, Halves, Never
<1>4. ASSUME NEW w \in PubWorkers, EndOfPipe(w) PROVE Pinned'
  BY <1>4 DEF EndOfPipe
<1>5. ASSUME NEW w \in PubWorkers, CountMessage(w) PROVE Pinned'
  BY <1>5 DEF CountMessage, Broadcast
<1>6. ASSUME NEW w \in PubWorkers, LeavePub(w) PROVE Pinned'
  BY <1>6 DEF LeavePub, Lock
<1>7. ASSUME NEW w \in Workers, Unlock(w) PROVE Pinned'
  BY <1>7 DEF Unlock
<1>8. ASSUME NEW w \in SubWorkers, NEW n \in Names, RegisterSub(w, n) PROVE Pinned'
  BY <1>8 DEF RegisterSub, Take
<1>9. ASSUME NEW w \in SubWorkers, StoreSubscribers(w) PROVE Pinned'
  BY <1>9 DEF StoreSubscribers
<1>10. ASSUME NEW w \in SubWorkers, TestSize(w) PROVE Pinned'
  BY <1>10 DEF TestSize
<1>11. ASSUME NEW w \in SubWorkers, SpuriousWakeup(w) PROVE Pinned'
  BY <1>11 DEF SpuriousWakeup
<1>12. ASSUME NEW w \in SubWorkers, Forward(w) PROVE Pinned'
  BY <1>12 DEF Forward
<1>13. ASSUME NEW w \in SubWorkers, SubscriberGone(w) PROVE Pinned'
  BY <1>13 DEF SubscriberGone
<1>14. ASSUME NEW w \in SubWorkers, LeaveSub(w) PROVE Pinned'
  BY <1>14 DEF LeaveSub, Lock
<1>15. ASSUME NEW w \in SubWorkers, DecrementSubscribers(w) PROVE Pinned'
  BY <1>15 DEF DecrementSubscribers
<1>16. ASSUME NEW w \in ManWorkers, NEW n \in Names, CreateBox(w, n) PROVE Pinned'
  BY <1>16, AddedList DEF CreateBox
<1>17. ASSUME NEW w \in ManWorkers, ListBoxes(w) PROVE Pinned'
  BY <1>17 DEF ListBoxes, Take
<1>18. ASSUME NEW w \in ManWorkers, ListEntry(w) PROVE Pinned'
  BY <1>18 DEF ListEntry
<1>19. ASSUME NEW w \in RemWorkers, NEW n \in Names, RemoveBox(w, n) PROVE Pinned'
  BY <1>19 DEF RemoveBox, Take, Stop
<1>20. ASSUME Interrupt PROVE Pinned'
  BY <1>20 DEF Interrupt, Stop
<1>21. ASSUME Restart PROVE Pinned'
  BY <1>21 DEF Restart
<1>22. ASSUME UNCHANGED vars PROVE Pinned'
  BY <1>22 DEF vars, history, bounds
<1>23. QED
  BY <1>1, <1>2, <1>3, <1>4, <1>5, <1>6, <1>7, <1>8, <1>9, <1>10, <1>11, <1>12, <1>13,
     <1>14, <1>15, <1>16, <1>17, <1>18, <1>19, <1>20, <1>21, <1>22, RemoveBoxOutcomes,
     FindListed
     DEF Next, ServePub, ServeSub, Interrupt, Workers

(* Nothing is removed, or one worker serves the subscribers: then no box   *)
(* is freed under a session.  Neither is needed for a publisher.           *)
LEMMA PinnedAlways ==
  ASSUME OneSubscriberWorker \/ RemWorkers = {}
  PROVE  Spec => [](BaseInv /\ PubInv /\ CountedInv /\ Pinned)
<1>1. CASE OneSubscriberWorker
  <2>1. SubInv => Pinned
    BY DEF SubInv
  <2>2. QED
    BY <1>1, <2>1, SubscriberAlways, PTL
<1>2. CASE RemWorkers = {}
  <2>1. Init => BaseInv /\ PubInv /\ CountedInv /\ Pinned
    BY BaseInit, SessionsInit DEF SubInv
  <2>2. (BaseInv /\ PubInv /\ CountedInv /\ Pinned) /\ [Next]_vars
          => (BaseInv /\ PubInv /\ CountedInv /\ Pinned)'
    BY <1>2, BaseStep, PubStep, CountedStep, PinnedStep
  <2>3. QED
    BY <2>1, <2>2, PTL DEF Spec
<1>3. QED
  BY <1>1, <1>2

(* A session's pointer leads to a box of the list (mbroker.c:293, 314).    *)
THEOREM NoUseAfterFree ==
  ASSUME OneSubscriberWorker \/ RemWorkers = {}
  PROVE  Spec => []NoDanglingBox
<1>1. BaseInv /\ PubInv /\ Pinned => NoDanglingBox
  <2> SUFFICES ASSUME BaseInv, PubInv, Pinned, NEW w \in Workers, box[w] # NoBox
               PROVE  box[w] \in Listed
    BY DEF NoDanglingBox
  <2>1. pc[w] \in PubLabels \cup SubLabels
    BY BaseFacts DEF SessionFacts, SessionInv, Labels, PubLabels, SubLabels
  <2>2. QED
    BY <2>1 DEF PubInv, Pinned
<1>2. QED
  BY <1>1, PinnedAlways, PTL

LEMMA ReadAlways ==
  ASSUME OneSubscriberWorker \/ RemWorkers = {}
  PROVE  Spec => [](BaseInv /\ PubInv /\ CountedInv /\ Pinned /\ ReadInv)
<1>1. Init => ReadInv
  BY SessionsInit
<1>2. (BaseInv /\ PubInv /\ CountedInv /\ Pinned) /\ ReadInv /\ [Next]_vars => ReadInv'
  BY ReadStep
<1>3. QED
  BY <1>1, <1>2, PinnedAlways, PTL DEF Spec

(* A subscriber that passed its test has a whole packet before it.         *)
LEMMA PacketWritten ==
  ASSUME BaseInv, CountedInv, Pinned, ReadInv, NEW w \in Workers, pc[w] = "sub_forward"
  PROVE  /\ Len(file[box[w]]) >= fd[w] + PacketSize
         /\ size[box[w]] >= fd[w] + PacketSize
<1>1. /\ box[w] \in Listed /\ box[w] \in Boxes
  BY BaseFacts DEF Pinned, SubLabels, SubscriberAt, SessionFacts
<1>2. FileInv /\ CountType
  BY DEF BaseInv
<1>3. /\ fd[w] \in Nat /\ size[box[w]] \in Nat
      /\ fdInternalW[box[w]] \in Nat /\ Len(file[box[w]]) \in Nat
      /\ fdInternalW[box[w]] <= Len(file[box[w]])
  BY <1>1, <1>2, LenProperties DEF FileInv, CountType
<1>4. size[box[w]] <= fdInternalW[box[w]] /\ fd[w] + PacketSize <= size[box[w]]
  BY <1>1, <1>3, EvenGap DEF CountedInv, ReadInv
<1>5. fd[w] + PacketSize \in Nat
  BY <1>3 DEF PacketSize
<1>6. QED
  BY ONLY <1>3, <1>4, <1>5

(* What is counted in size has been written: the read of a subscriber that *)
(* passed its test is never short (mbroker.c:226-237).                     *)
THEOREM CountedIsWritten ==
  ASSUME OneSubscriberWorker \/ RemWorkers = {}
  PROVE  Spec => []SizeIsWritten
<1>1. BaseInv /\ CountedInv /\ Pinned /\ ReadInv => SizeIsWritten
  BY PacketWritten DEF SizeIsWritten
<1>2. QED
  BY <1>1, ReadAlways, PTL
==============================================================================
