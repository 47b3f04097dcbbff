-------------------------- MODULE MessageBoxProofs --------------------------
(***************************************************************************)
(* Proofs about MessageBox for any number of workers, names and boxes: the *)
(* types, and the list of the boxes.                                       *)
(*                                                                         *)
(* The inductive invariant BaseInv is a conjunction of small ones, each    *)
(* with a lemma that takes it through every action.  Three outcomes stand  *)
(* for the removal of a box (RemoveBoxOutcomes), one of them for the end   *)
(* of the broker, whatever the reason.                                     *)
(***************************************************************************)
EXTENDS MessageBox, TLAPS, SequenceTheorems

(***************************************************************************)
(* Sequences and counters.                                                 *)
(***************************************************************************)

(* A u64 counter stays one, whatever is added to it.                       *)
LEMMA Wraps == ASSUME NEW i \in Int PROVE i % CountRange \in 0..(CountRange - 1)
  BY BoxAssumption

(* Unlinking a node of the list (mbroker.c:390-394).                       *)
LEMMA Unlinked ==
  ASSUME NEW S, NEW s \in Seq(S), NEW i \in 1..Len(s)
  PROVE  /\ RemoveAt(s, i) \in Seq(S)
         /\ Len(RemoveAt(s, i)) = Len(s) - 1
         /\ \A j \in 1..(Len(s) - 1) : RemoveAt(s, i)[j] = IF j < i THEN s[j] ELSE s[j + 1]
<1> DEFINE before == SubSeq(s, 1, i - 1)
           after == SubSeq(s, i + 1, Len(s))
<1>1. \A j \in 1..Len(s) : s[j] \in S
  BY ElementOfSeq
<1>2. /\ before \in Seq(S)
      /\ Len(before) = i - 1
      /\ \A j \in 1..(i - 1) : before[j] = s[j]
  BY <1>1, SubSeqProperties
<1>3. /\ after \in Seq(S)
      /\ Len(after) = Len(s) - i
      /\ \A j \in 1..(Len(s) - i) : after[j] = s[i + j]
  BY <1>1, SubSeqProperties
<1> HIDE DEF before, after
<1>4. /\ before \o after \in Seq(S)
      /\ Len(before \o after) = Len(before) + Len(after)
      /\ \A j \in 1..(Len(before) + Len(after)) :
           (before \o after)[j] = IF j <= Len(before) THEN before[j] ELSE after[j - Len(before)]
  BY <1>2, <1>3, ConcatProperties
<1>5. RemoveAt(s, i) = before \o after
  BY DEF RemoveAt, before, after
<1>6. ASSUME NEW j \in 1..(Len(s) - 1)
      PROVE  (before \o after)[j] = IF j < i THEN s[j] ELSE s[j + 1]
  <2>1. CASE j < i
    BY <1>2, <1>3, <1>4, <2>1
  <2>2. CASE ~(j < i)
    <3>1. /\ j - (i - 1) \in 1..(Len(s) - i)
          /\ j \in 1..(Len(before) + Len(after))
          /\ ~(j <= Len(before))
      BY <1>2, <1>3, <2>2
    <3>2. (before \o after)[j] = after[j - (i - 1)]
      BY <1>2, <1>4, <3>1
    <3>3. after[j - (i - 1)] = s[i + (j - (i - 1))]
      BY <1>3, <3>1
    <3>4. i + (j - (i - 1)) = j + 1 /\ ~(j < i)
      BY <2>2
    <3>5. QED
      BY <3>2, <3>3, <3>4
  <2>3. QED
    BY <2>1, <2>2
<1>7. QED
  BY <1>2, <1>3, <1>4, <1>5, <1>6

(* What a write leaves in a file (mbroker.c:195).                          *)
LEMMA Overwritten ==
  ASSUME NEW S, NEW s \in Seq(S), NEW at \in 0..Len(s), NEW t \in Seq(S)
  PROVE  LET written == SubSeq(s, 1, at) \o t \o SubSeq(s, at + Len(t) + 1, Len(s))
         IN  /\ written \in Seq(S)
             /\ Len(written) >= at + Len(t)
             /\ \A j \in 1..at : written[j] = s[j]
             /\ \A j \in 1..Len(t) : written[at + j] = t[j]
<1> DEFINE before == SubSeq(s, 1, at)
           after == SubSeq(s, at + Len(t) + 1, Len(s))
           start == before \o t
<1>1. \A j \in 1..Len(s) : s[j] \in S
  BY ElementOfSeq
<1>2. before \in Seq(S) /\ Len(before) = at /\ \A j \in 1..at : before[j] = s[j]
  BY <1>1, SubSeqProperties
<1>3. after \in Seq(S) /\ Len(t) \in Nat
  BY <1>1, SubSeqProperties, LenProperties
<1> HIDE DEF before, after
<1>4. /\ start \in Seq(S) /\ Len(start) = at + Len(t)
      /\ \A j \in 1..(at + Len(t)) : start[j] = IF j <= at THEN before[j] ELSE t[j - at]
  BY <1>2, ConcatProperties
<1>5. /\ \A j \in 1..at : j \in 1..(at + Len(t)) /\ start[j] = s[j]
      /\ \A j \in 1..Len(t) : at + j \in 1..(at + Len(t)) /\ start[at + j] = t[j]
  BY <1>2, <1>3, <1>4
<1> HIDE DEF start
<1>6. /\ start \o after \in Seq(S) /\ Len(start \o after) >= at + Len(t)
      /\ \A j \in 1..(at + Len(t)) : (start \o after)[j] = start[j]
  BY <1>3, <1>4, ConcatProperties
<1>7. /\ \A j \in 1..at : (start \o after)[j] = s[j]
      /\ \A j \in 1..Len(t) : (start \o after)[at + j] = t[j]
  BY <1>5, <1>6
<1>8. QED
  BY <1>6, <1>7 DEF before, after, start

(* What a read of one packet finds (mbroker.c:232).                        *)
LEMMA ReadPart ==
  ASSUME NEW S, NEW s \in Seq(S), NEW at \in Nat
  PROVE  LET read == SubSeq(s, at + 1, Smaller(at + PacketSize, Len(s)))
         IN  /\ read \in Seq(S)
             /\ Len(read) \in Nat /\ Len(read) <= PacketSize
             /\ at + PacketSize <= Len(s) => Len(read) = PacketSize
             /\ \A i \in 1..Len(read) : at + i \in 1..Len(s) /\ read[i] = s[at + i]
<1> DEFINE last == Smaller(at + PacketSize, Len(s))
           read == SubSeq(s, at + 1, last)
<1>1. Len(s) \in Nat /\ \A j \in 1..Len(s) : s[j] \in S
  BY ElementOfSeq, LenProperties
<1>2. /\ last \in Nat /\ last <= Len(s) /\ last <= at + PacketSize
      /\ at + PacketSize <= Len(s) => last = at + PacketSize
  BY <1>1 DEF Smaller, PacketSize
<1> HIDE DEF last
<1>3. /\ read \in Seq(S)
      /\ Len(read) = IF at + 1 <= last THEN last - at ELSE 0
      /\ \A i \in 1..(last - at) : read[i] = s[at + 1 + i - 1]
  <2>1. \A j \in (at + 1)..last : s[j] \in S
    BY <1>1, <1>2
  <2>2. at + 1 \in Int /\ last \in Int
    BY <1>2
  <2>3. last - (at + 1) + 1 = last - at
    BY <1>2
  <2>4. QED
    BY <2>1, <2>2, <2>3, SubSeqProperties
<1>4. \A i \in 1..(last - at) : at + i \in 1..Len(s) /\ read[i] = s[at + i]
  BY <1>1, <1>2, <1>3
<1> HIDE DEF read
<1>5. QED
  <2>1. /\ read \in Seq(S)
        /\ Len(read) \in Nat /\ Len(read) <= PacketSize
        /\ at + PacketSize <= Len(s) => Len(read) = PacketSize
        /\ \A i \in 1..Len(read) : at + i \in 1..Len(s) /\ read[i] = s[at + i]
    BY <1>1, <1>2, <1>3, <1>4 DEF PacketSize
  <2>2. QED
    BY <2>1 DEF read, last

(***************************************************************************)
(* Any number of workers: where each is, what it holds, what it points to. *)
(***************************************************************************)

PubLabels == PublisherAt \cup {"pub_unlock"}
SubLabels == SubscriberAt \cup {"sub_store", "sub_unlock"}

ControlType ==
  /\ pc \in [Workers -> Labels]
  /\ box \in [Workers -> Boxes \cup {NoBox}]
  /\ messagesLock \in Workers \cup {Nobody}
  /\ waitMutex \in [Boxes -> Workers \cup {Nobody}]

SessionInv ==
  /\ \A w \in Workers : box[w] = NoBox <=> pc[w] \in {"idle", "list"}
  /\ \A w \in Workers : pc[w] \in PubLabels => w \in PubWorkers
  /\ \A w \in Workers : pc[w] \in SubLabels => w \in SubWorkers

LocksInv ==
  /\ \A w \in Workers : messagesLock = w <=> pc[w] \in {"sub_store", "list"}
  /\ \A w \in Workers, b \in Boxes :
       waitMutex[b] = w <=> box[w] = b /\ pc[w] \in {"pub_unlock", "sub_unlock", "sub_dec"}

ControlInv == ControlType /\ SessionInv /\ LocksInv

(* The list is in the order of creation: boxes are appended and unlinked.  *)
ListInv ==
  /\ msgBoxes \in Seq(Boxes) /\ created \in 0..MaxBoxes /\ name \in [Boxes -> Names]
  /\ \A i \in DOMAIN msgBoxes : i <= msgBoxes[i] /\ msgBoxes[i] <= created
  /\ \A i, j \in DOMAIN msgBoxes : i < j => msgBoxes[i] < msgBoxes[j]
  /\ \A i, j \in DOMAIN msgBoxes : name[msgBoxes[i]] = name[msgBoxes[j]] => i = j
  /\ \A w \in Workers : box[w] # NoBox => box[w] <= created

ListingInv ==
  /\ listing \in [Workers -> 0..MaxBoxes]
  /\ \A w \in Workers : pc[w] = "list" => listing[w] < Len(msgBoxes)

(* No descriptor points beyond its file, and none is open before its box.  *)
FileInv ==
  /\ fdInternalW \in [Boxes -> Nat]
  /\ file \in [Boxes -> Seq(Messages \X {1, 2})]
  /\ disk \in [Names -> Seq(Messages \X {1, 2})]
  /\ \A b \in Boxes : fdInternalW[b] <= Len(file[b]) /\ (b > created => fdInternalW[b] = 0)

CountType ==
  /\ publishers \in [Boxes -> 0..(CountRange - 1)]
  /\ subscribers \in [Boxes -> 0..(CountRange - 1)]
  /\ reg \in [Workers -> 0..(CountRange - 1)]
  /\ size \in [Boxes -> Nat]
  /\ fd \in [Workers -> Nat]

(* A worker that is about to count a message has one in its packet.        *)
MessageInv ==
  /\ msg \in [Workers -> Messages \cup {0}]
  /\ \A w \in Workers : pc[w] = "pub_count" => msg[w] \in Messages
  /\ log \in [Boxes -> Seq(Messages)]
  /\ damagedAt \in [Boxes -> Nat \cup {Never}]

BrokerType ==
  /\ broker \in {"up", "exited", "panicked"}
  /\ reply \in [Workers -> {"none", "ok", "exists", "missing", "has pub"}]

BoundsType ==
  /\ sent \in 0..MaxMessages
  /\ requests \in 0..MaxRequests
  /\ restarts \in 0..MaxRestarts

BaseInv ==
  /\ ControlInv /\ ListInv /\ ListingInv /\ FileInv
  /\ CountType /\ MessageInv /\ BrokerType /\ BoundsType

(* The invariant is about every variable of TypeOK.                        *)
LEMMA BaseInvTypes == BaseInv => TypeOK
<1>1. Messages \cup {0} = 0..MaxMessages
  BY BoxAssumption DEF Messages
<1>2. QED
  BY <1>1 DEF BaseInv, ControlInv, ControlType, ListInv, ListingInv, FileInv, CountType,
     MessageInv, BrokerType, BoundsType, TypeOK

(* What get_msg_box finds is in the list, and what is in the list exists.  *)
LEMMA FindListed ==
  ASSUME ListInv
  PROVE  /\ \A i \in DOMAIN msgBoxes : msgBoxes[i] \in Boxes
         /\ Listed \subseteq Boxes
         /\ \A n \in Names : Find(n) \subseteq Listed
         /\ Len(msgBoxes) \in Nat /\ DOMAIN msgBoxes = 1..Len(msgBoxes)
  BY ElementOfSeq, LenProperties DEF ListInv, Listed, Find

(* Boxes are numbered as they are created, so the list is no longer than   *)
(* the number of creations.                                                *)
LEMMA ListLength ==
  ASSUME ListInv
  PROVE  Len(msgBoxes) <= created
<1>1. CASE Len(msgBoxes) = 0
  BY <1>1 DEF ListInv
<1>2. CASE Len(msgBoxes) # 0
  <2>1. /\ Len(msgBoxes) \in DOMAIN msgBoxes
        /\ msgBoxes[Len(msgBoxes)] \in Nat
        /\ created \in Nat
    BY <1>2, FindListed, BoxAssumption DEF ListInv, Boxes
  <2>2. QED
    BY <2>1, FindListed DEF ListInv
<1>3. QED
  BY <1>1, <1>2

(* What a request to remove does: nothing but answer, end the broker, or   *)
(* take a box off the list that nobody is counted in.                      *)
Refused ==
  UNCHANGED <<broker, msgBoxes, messagesLock, heap, storage, pc, sessions, listing, history>>

Removed(b) ==
  /\ messagesLock = Nobody
  /\ ~InUse(b)
  /\ waitMutex[b] = Nobody
  /\ DeleteBox(b)
  /\ UNCHANGED <<broker, messagesLock, heap, disk, pc, sessions, listing, history>>

LEMMA RemoveBoxOutcomes ==
  ASSUME NEW w \in RemWorkers, NEW n \in Names, RemoveBox(w, n)
  PROVE  \/ Refused
         \/ \E b \in Find(n) : Removed(b)
         \/ Stop("panicked")
  BY DEF RemoveBox, Refused, Removed, Take

(* A removed box leaves the boxes before it and those after it where they  *)
(* were, in the same order.                                                *)
LEMMA RemovedList ==
  ASSUME ListInv, NEW b \in Listed, Removed(b)
  PROVE  /\ \E i \in DOMAIN msgBoxes :
              /\ msgBoxes[i] = b
              /\ msgBoxes' \in Seq(Boxes)
              /\ Len(msgBoxes') = Len(msgBoxes) - 1
              /\ DOMAIN msgBoxes' = 1..(Len(msgBoxes) - 1)
              /\ \A j \in 1..(Len(msgBoxes) - 1) :
                   msgBoxes'[j] = IF j < i THEN msgBoxes[j] ELSE msgBoxes[j + 1]
         /\ Listed' = Listed \ {b}
<1>1. msgBoxes \in Seq(Boxes) /\ DOMAIN msgBoxes = 1..Len(msgBoxes) /\ Len(msgBoxes) \in Nat
  BY FindListed DEF ListInv
<1>2. PICK i \in DOMAIN msgBoxes : msgBoxes[i] = b /\ msgBoxes' = RemoveAt(msgBoxes, i)
  BY DEF Removed, DeleteBox
<1>3. /\ msgBoxes' \in Seq(Boxes)
      /\ Len(msgBoxes') = Len(msgBoxes) - 1
      /\ DOMAIN msgBoxes' = 1..(Len(msgBoxes) - 1)
      /\ \A j \in 1..(Len(msgBoxes) - 1) :
           msgBoxes'[j] = IF j < i THEN msgBoxes[j] ELSE msgBoxes[j + 1]
  BY <1>1, <1>2, Unlinked, LenProperties
<1>4. \A j, k \in DOMAIN msgBoxes : j # k => msgBoxes[j] # msgBoxes[k]
  BY <1>1, FindListed DEF ListInv, Boxes
<1>5. Listed' \subseteq Listed \ {b}
  BY <1>1, <1>2, <1>3, <1>4 DEF Listed
<1>6. ASSUME NEW c \in Listed, c # b PROVE c \in Listed'
  <2>1. PICK k \in DOMAIN msgBoxes : msgBoxes[k] = c
    BY DEF Listed
  <2>2. CASE k < i
    <3>1. k \in DOMAIN msgBoxes' /\ msgBoxes'[k] = c
      BY <1>1, <1>2, <1>3, <2>1, <2>2
    <3>2. QED
      BY <3>1 DEF Listed
  <2>3. CASE k > i
    <3>1. k - 1 \in DOMAIN msgBoxes' /\ ~(k - 1 < i) /\ (k - 1) + 1 = k
      BY <1>1, <1>2, <1>3, <2>1, <2>3
    <3>2. msgBoxes'[k - 1] = c
      BY <1>3, <2>1, <3>1
    <3>3. QED
      BY <3>1, <3>2 DEF Listed
  <2>4. QED
    BY <1>1, <1>2, <1>6, <2>1, <2>2, <2>3
<1>7. QED
  BY <1>2, <1>3, <1>5, <1>6

(* A created box is put after the others.                                  *)
LEMMA AddedList ==
  ASSUME ListInv, NEW n \in Names, AddBox(n)
  PROVE  /\ created + 1 \in Boxes /\ created' = created + 1
         /\ msgBoxes' \in Seq(Boxes)
         /\ Len(msgBoxes') = Len(msgBoxes) + 1
         /\ DOMAIN msgBoxes' = 1..(Len(msgBoxes) + 1)
         /\ \A j \in 1..Len(msgBoxes) : msgBoxes'[j] = msgBoxes[j]
         /\ msgBoxes'[Len(msgBoxes) + 1] = created + 1
         /\ Listed' = Listed \cup {created + 1}
<1>1. /\ created + 1 \in Boxes
      /\ created' = created + 1
      /\ msgBoxes' = Append(msgBoxes, created + 1)
  BY BoxAssumption DEF ListInv, AddBox, Boxes
<1>2. msgBoxes \in Seq(Boxes) /\ DOMAIN msgBoxes = 1..Len(msgBoxes) /\ Len(msgBoxes) \in Nat
  BY FindListed DEF ListInv
<1>3. /\ msgBoxes' \in Seq(Boxes)
      /\ Len(msgBoxes') = Len(msgBoxes) + 1
      /\ DOMAIN msgBoxes' = 1..(Len(msgBoxes) + 1)
      /\ \A j \in 1..Len(msgBoxes) : msgBoxes'[j] = msgBoxes[j]
      /\ msgBoxes'[Len(msgBoxes) + 1] = created + 1
  BY <1>1, <1>2, AppendProperties, LenProperties
<1>4. Listed' = Listed \cup {created + 1}
  BY <1>2, <1>3 DEF Listed
<1>5. QED
  BY <1>1, <1>3, <1>4

(* Where a worker is tells which session it has and which locks it holds.  *)
LEMMA ControlStep == ListInv /\ ControlInv /\ [Next]_vars => ControlInv'
<1> SUFFICES ASSUME ListInv /\ ControlInv, [Next]_vars
             PROVE  ControlInv'
  OBVIOUS
<1>a. Nobody \notin Workers /\ NoBox \notin Boxes
  BY BoxAssumption
<1>b. /\ PubWorkers \subseteq Workers
      /\ SubWorkers \subseteq Workers
      /\ ManWorkers \subseteq Workers
  BY DEF Workers
<1>c. Listed \subseteq Boxes /\ \A n \in Names : Find(n) \subseteq Boxes
  BY FindListed
<1> USE <1>a, <1>b, <1>c
<1> HIDE DEF ListInv
<1> USE DEF ControlInv, ControlType, SessionInv, LocksInv, Labels, PubLabels, SubLabels,
            PublisherAt, SubscriberAt, GoTo, heap, sessions, Take
<1>1. ASSUME NEW w \in PubWorkers, NEW n \in Names, RegisterPub(w, n) PROVE ControlInv'
  BY <1>1 DEF RegisterPub
<1>2. ASSUME NEW w \in PubWorkers, WriteMessage(w) PROVE ControlInv'
  BY <1>2 DEF WriteMessage, WriteFile, Halves
<1>3. ASSUME NEW w \in PubWorkers, ShortWrite(w) PROVE ControlInv'
  BY <1>3 DEF ShortWrite, WriteFile, Halves, Never
<1>4. ASSUME NEW w \in PubWorkers, EndOfPipe(w) PROVE ControlInv'
  BY <1>4 DEF EndOfPipe
<1>5. ASSUME NEW w \in PubWorkers, CountMessage(w) PROVE ControlInv'
  BY <1>5 DEF CountMessage, Broadcast
<1>6. ASSUME NEW w \in PubWorkers, LeavePub(w) PROVE ControlInv'
  BY <1>6 DEF LeavePub, Lock
<1>7. ASSUME NEW w \in Workers, Unlock(w) PROVE ControlInv'
  BY <1>7 DEF Unlock
<1>8. ASSUME NEW w \in SubWorkers, NEW n \in Names, RegisterSub(w, n) PROVE ControlInv'
  BY <1>8 DEF RegisterSub
<1>9. ASSUME NEW w \in SubWorkers, StoreSubscribers(w) PROVE ControlInv'
  BY <1>9 DEF StoreSubscribers
<1>10. ASSUME NEW w \in SubWorkers, TestSize(w) PROVE ControlInv'
  BY <1>10 DEF TestSize
<1>11. ASSUME NEW w \in SubWorkers, SpuriousWakeup(w) PROVE ControlInv'
  BY <1>11 DEF SpuriousWakeup
<1>12. ASSUME NEW w \in SubWorkers, Forward(w) PROVE ControlInv'
  BY <1>12 DEF Forward
<1>13. ASSUME NEW w \in SubWorkers, SubscriberGone(w) PROVE ControlInv'
  BY <1>13 DEF SubscriberGone
<1>14. ASSUME NEW w \in SubWorkers, LeaveSub(w) PROVE ControlInv'
  BY <1>14 DEF LeaveSub, Lock
<1>15. ASSUME NEW w \in SubWorkers, DecrementSubscribers(w) PROVE ControlInv'
  BY <1>15 DEF DecrementSubscribers
<1>16. ASSUME NEW w \in ManWorkers, NEW n \in Names, CreateBox(w, n) PROVE ControlInv'
  BY <1>16 DEF CreateBox
<1>17. ASSUME NEW w \in ManWorkers, ListBoxes(w) PROVE ControlInv'
  BY <1>17 DEF ListBoxes, Take
<1>18. ASSUME NEW w \in ManWorkers, ListEntry(w) PROVE ControlInv'
  BY <1>18 DEF ListEntry
<1>19. ASSUME Refused PROVE ControlInv'
  BY <1>19 DEF Refused
<1>20. ASSUME NEW b \in Listed, Removed(b) PROVE ControlInv'
  BY <1>20 DEF Removed, DeleteBox
<1>21. ASSUME NEW how \in {"exited", "panicked"}, Stop(how) PROVE ControlInv'
  BY <1>21 DEF Stop
<1>22. ASSUME Restart PROVE ControlInv'
  BY <1>22 DEF Restart
<1>23. ASSUME UNCHANGED vars PROVE ControlInv'
  BY <1>23 DEF vars, history, bounds
<1>24. QED
  BY <1>1, <1>2, <1>3, <1>4, <1>5, <1>6, <1>7, <1>8, <1>9, <1>10, <1>11, <1>12, <1>13,
     <1>14, <1>15, <1>16, <1>17, <1>18, <1>19, <1>20, <1>21, <1>22, <1>23,
     RemoveBoxOutcomes, FindListed
     DEF Next, ServePub, ServeSub, Interrupt, Workers

(* The list keeps the order of creation, and one box per name.             *)
LEMMA ListStep == ListInv /\ ControlInv /\ [Next]_vars => ListInv'
<1> SUFFICES ASSUME ListInv /\ ControlInv, [Next]_vars
             PROVE  ListInv'
  OBVIOUS
<1>a. NoBox \notin Boxes /\ MaxBoxes \in Nat
  BY BoxAssumption
<1>b. /\ PubWorkers \subseteq Workers
      /\ SubWorkers \subseteq Workers
      /\ ManWorkers \subseteq Workers
  BY DEF Workers
<1>c. \A n \in Names : Find(n) \subseteq Boxes /\ \A b \in Find(n) : b <= created
  BY FindListed DEF ListInv, Listed
<1>d. box \in [Workers -> Boxes \cup {NoBox}]
  BY DEF ControlInv, ControlType
<1>e. /\ Len(msgBoxes) \in Nat
      /\ DOMAIN msgBoxes = 1..Len(msgBoxes)
      /\ \A i \in DOMAIN msgBoxes : msgBoxes[i] \in Boxes
  BY FindListed
<1> USE <1>a, <1>b, <1>c, <1>d
<1> USE DEF ListInv, heap, sessions, Boxes
<1>1. ASSUME NEW w \in PubWorkers, NEW n \in Names, RegisterPub(w, n) PROVE ListInv'
  BY <1>1 DEF RegisterPub
<1>2. ASSUME NEW w \in PubWorkers, WriteMessage(w) PROVE ListInv'
  BY <1>2 DEF WriteMessage, WriteFile, Halves
<1>3. ASSUME NEW w \in PubWorkers, ShortWrite(w) PROVE ListInv'
  BY <1>3 DEF ShortWrite, WriteFile, Halves, Never
<1>4. ASSUME NEW w \in PubWorkers, EndOfPipe(w) PROVE ListInv'
  BY <1>4 DEF EndOfPipe
<1>5. ASSUME NEW w \in PubWorkers, CountMessage(w) PROVE ListInv'
  BY <1>5 DEF CountMessage, Broadcast
<1>6. ASSUME NEW w \in PubWorkers, LeavePub(w) PROVE ListInv'
  BY <1>6 DEF LeavePub, Lock
<1>7. ASSUME NEW w \in Workers, Unlock(w) PROVE ListInv'
  BY <1>7 DEF Unlock
<1>8. ASSUME NEW w \in SubWorkers, NEW n \in Names, RegisterSub(w, n) PROVE ListInv'
  BY <1>8 DEF RegisterSub
<1>9. ASSUME NEW w \in SubWorkers, StoreSubscribers(w) PROVE ListInv'
  BY <1>9 DEF StoreSubscribers
<1>10. ASSUME NEW w \in SubWorkers, TestSize(w) PROVE ListInv'
  BY <1>10 DEF TestSize
<1>11. ASSUME NEW w \in SubWorkers, SpuriousWakeup(w) PROVE ListInv'
  BY <1>11 DEF SpuriousWakeup
<1>12. ASSUME NEW w \in SubWorkers, Forward(w) PROVE ListInv'
  BY <1>12 DEF Forward
<1>13. ASSUME NEW w \in SubWorkers, SubscriberGone(w) PROVE ListInv'
  BY <1>13 DEF SubscriberGone
<1>14. ASSUME NEW w \in SubWorkers, LeaveSub(w) PROVE ListInv'
  BY <1>14 DEF LeaveSub, Lock
<1>15. ASSUME NEW w \in SubWorkers, DecrementSubscribers(w) PROVE ListInv'
  BY <1>15 DEF DecrementSubscribers
<1>16. ASSUME NEW w \in ManWorkers, NEW n \in Names, CreateBox(w, n) PROVE ListInv'
  <2>1. CASE UNCHANGED <<msgBoxes, created, name, box>>
    BY <2>1
  <2>2. CASE AddBox(n) /\ Find(n) = {} /\ UNCHANGED box
    <3> HIDE DEF ListInv
    <3> DEFINE new == Len(msgBoxes) + 1
    <3>1. /\ created + 1 \in Boxes /\ created' = created + 1
          /\ msgBoxes' \in Seq(Boxes) /\ DOMAIN msgBoxes' = 1..new
          /\ \A j \in DOMAIN msgBoxes : msgBoxes'[j] = msgBoxes[j]
          /\ msgBoxes'[new] = created + 1
          /\ name' = [name EXCEPT ![created + 1] = n]
      BY <1>e, <2>2, AddedList DEF AddBox
    <3>2. created \in 0..MaxBoxes /\ name \in [Boxes -> Names] /\ Len(msgBoxes) <= created
      BY ListLength DEF ListInv
    <3>3. \A j \in DOMAIN msgBoxes : /\ j <= msgBoxes[j] /\ msgBoxes[j] <= created
                                     /\ name[msgBoxes[j]] # n
      BY <2>2 DEF ListInv, Find, Listed
    <3>4. /\ \A i, j \in DOMAIN msgBoxes : i < j => msgBoxes[i] < msgBoxes[j]
          /\ \A i, j \in DOMAIN msgBoxes : name[msgBoxes[i]] = name[msgBoxes[j]] => i = j
          /\ \A v \in Workers : box[v] # NoBox => box[v] <= created
      BY DEF ListInv
    <3>5. \A j \in DOMAIN msgBoxes' : j = new \/ j \in DOMAIN msgBoxes
      BY <1>e, <3>1
    <3>6. \A j \in DOMAIN msgBoxes : name'[msgBoxes'[j]] = name[msgBoxes[j]]
      BY <1>e, <3>1, <3>2, <3>3
    <3>7. name'[msgBoxes'[new]] = n
      BY <3>1, <3>2
    <3>8. \A i, j \in DOMAIN msgBoxes' : name'[msgBoxes'[i]] = name'[msgBoxes'[j]] => i = j
      BY <3>3, <3>4, <3>5, <3>6, <3>7
    <3>9. \A i \in DOMAIN msgBoxes' : i <= msgBoxes'[i] /\ msgBoxes'[i] <= created'
      BY <1>e, <3>1, <3>2, <3>3, <3>5
    <3>10. \A i, j \in DOMAIN msgBoxes' : i < j => msgBoxes'[i] < msgBoxes'[j]
      BY <1>e, <3>1, <3>2, <3>3, <3>4, <3>5
    <3>11. created' \in 0..MaxBoxes /\ name' \in [Boxes -> Names]
      BY <3>1, <3>2
    <3>12. \A v \in Workers : box'[v] # NoBox => box'[v] <= created'
      BY <2>2, <3>1, <3>2, <3>4
    <3>13. QED
      BY <3>1, <3>8, <3>9, <3>10, <3>11, <3>12 DEF ListInv
  <2>3. QED
    BY <1>16, <2>1, <2>2 DEF CreateBox
<1>17. ASSUME NEW w \in ManWorkers, ListBoxes(w) PROVE ListInv'
  BY <1>17 DEF ListBoxes, Take
<1>18. ASSUME NEW w \in ManWorkers, ListEntry(w) PROVE ListInv'
  BY <1>18 DEF ListEntry
<1>19. ASSUME Refused PROVE ListInv'
  BY <1>19 DEF Refused
<1>20. ASSUME NEW b \in Listed, Removed(b) PROVE ListInv'
  <2> HIDE DEF ListInv
  <2>1. PICK i \in DOMAIN msgBoxes :
          /\ msgBoxes' \in Seq(Boxes)
          /\ DOMAIN msgBoxes' = 1..(Len(msgBoxes) - 1)
          /\ \A j \in 1..(Len(msgBoxes) - 1) :
               msgBoxes'[j] = IF j < i THEN msgBoxes[j] ELSE msgBoxes[j + 1]
    BY <1>20, RemovedList
  <2>2. UNCHANGED <<created, name, box>>
    BY <1>20 DEF Removed
  <2> DEFINE old(j) == IF j < i THEN j ELSE j + 1
  <2>3. /\ \A j \in DOMAIN msgBoxes' : /\ j \in Nat /\ old(j) \in DOMAIN msgBoxes
                                       /\ j <= old(j) /\ msgBoxes'[j] = msgBoxes[old(j)]
        /\ \A j, k \in DOMAIN msgBoxes' : j < k => old(j) < old(k)
        /\ \A j, k \in DOMAIN msgBoxes' : old(j) = old(k) => j = k
    BY <1>e, <2>1
  <2>f. /\ \A j \in DOMAIN msgBoxes :
             j <= msgBoxes[j] /\ msgBoxes[j] <= created /\ msgBoxes[j] \in Nat /\ j \in Nat
        /\ \A j, k \in DOMAIN msgBoxes : j < k => msgBoxes[j] < msgBoxes[k]
        /\ \A j, k \in DOMAIN msgBoxes : name[msgBoxes[j]] = name[msgBoxes[k]] => j = k
    BY <1>e DEF ListInv
  <2> HIDE DEF old
  <2>4. \A j \in DOMAIN msgBoxes' : j <= msgBoxes'[j] /\ msgBoxes'[j] <= created'
    <3> SUFFICES ASSUME NEW j \in DOMAIN msgBoxes'
                 PROVE  j <= msgBoxes'[j] /\ msgBoxes'[j] <= created'
      OBVIOUS
    <3>1. old(j) \in Nat /\ msgBoxes[old(j)] \in Nat
      BY <2>3, <2>f
    <3>2. QED
      BY <2>2, <2>3, <2>f, <3>1
  <2>5. \A j, k \in DOMAIN msgBoxes' : j < k => msgBoxes'[j] < msgBoxes'[k]
    BY <2>3, <2>f
  <2>6. \A j, k \in DOMAIN msgBoxes' : name'[msgBoxes'[j]] = name'[msgBoxes'[k]] => j = k
    BY <2>2, <2>3, <2>f
  <2>7. QED
    BY <2>1, <2>2, <2>4, <2>5, <2>6 DEF ListInv
<1>21. ASSUME NEW how \in {"exited", "panicked"}, Stop(how) PROVE ListInv'
  BY <1>21 DEF Stop
<1>22. ASSUME Restart PROVE ListInv'
  BY <1>22 DEF Restart
<1>23. ASSUME UNCHANGED vars PROVE ListInv'
  BY <1>23 DEF vars, history, bounds
<1>24. QED
  BY <1>1, <1>2, <1>3, <1>4, <1>5, <1>6, <1>7, <1>8, <1>9, <1>10, <1>11, <1>12, <1>13,
     <1>14, <1>15, <1>16, <1>17, <1>18, <1>19, <1>20, <1>21, <1>22, <1>23,
     RemoveBoxOutcomes, FindListed
     DEF Next, ServePub, ServeSub, Interrupt, Workers

(* A list answer has fewer entries than the list until it is done.         *)
LEMMA ListingStep == ListInv /\ ControlInv /\ ListingInv /\ [Next]_vars => ListingInv'
<1> SUFFICES ASSUME ListInv /\ ControlInv /\ ListingInv, [Next]_vars
             PROVE  ListingInv'
  OBVIOUS
<1>b. /\ PubWorkers \subseteq Workers
      /\ SubWorkers \subseteq Workers
      /\ ManWorkers \subseteq Workers
  BY DEF Workers
<1>c. /\ Len(msgBoxes) \in Nat
      /\ Len(msgBoxes) <= MaxBoxes
      /\ MaxBoxes \in Nat
      /\ (msgBoxes # <<>> => Len(msgBoxes) > 0)
  BY BoxAssumption, ListLength, FindListed, EmptySeq DEF ListInv
<1>d. /\ pc \in [Workers -> Labels]
      /\ Nobody \notin Workers
      /\ \A w \in Workers : messagesLock = w <=> pc[w] \in {"sub_store", "list"}
  BY BoxAssumption DEF ControlInv, ControlType, LocksInv
<1> USE <1>b, <1>c, <1>d
<1> USE DEF ListingInv, GoTo, answers
<1>1. ASSUME NEW w \in PubWorkers, NEW n \in Names, RegisterPub(w, n) PROVE ListingInv'
  BY <1>1 DEF RegisterPub
<1>2. ASSUME NEW w \in PubWorkers, WriteMessage(w) PROVE ListingInv'
  BY <1>2 DEF WriteMessage, WriteFile, Halves
<1>3. ASSUME NEW w \in PubWorkers, ShortWrite(w) PROVE ListingInv'
  BY <1>3 DEF ShortWrite, WriteFile, Halves, Never
<1>4. ASSUME NEW w \in PubWorkers, EndOfPipe(w) PROVE ListingInv'
  BY <1>4 DEF EndOfPipe
<1>5. ASSUME NEW w \in PubWorkers, CountMessage(w) PROVE ListingInv'
  BY <1>5 DEF CountMessage, Broadcast
<1>6. ASSUME NEW w \in PubWorkers, LeavePub(w) PROVE ListingInv'
  BY <1>6 DEF LeavePub, Lock
<1>7. ASSUME NEW w \in Workers, Unlock(w) PROVE ListingInv'
  BY <1>7 DEF Unlock
<1>8. ASSUME NEW w \in SubWorkers, NEW n \in Names, RegisterSub(w, n) PROVE ListingInv'
  BY <1>8 DEF RegisterSub
<1>9. ASSUME NEW w \in SubWorkers, StoreSubscribers(w) PROVE ListingInv'
  BY <1>9 DEF StoreSubscribers
<1>10. ASSUME NEW w \in SubWorkers, TestSize(w) PROVE ListingInv'
  BY <1>10 DEF TestSize
<1>11. ASSUME NEW w \in SubWorkers, SpuriousWakeup(w) PROVE ListingInv'
  BY <1>11 DEF SpuriousWakeup
<1>12. ASSUME NEW w \in SubWorkers, Forward(w) PROVE ListingInv'
  BY <1>12 DEF Forward
<1>13. ASSUME NEW w \in SubWorkers, SubscriberGone(w) PROVE ListingInv'
  BY <1>13 DEF SubscriberGone
<1>14. ASSUME NEW w \in SubWorkers, LeaveSub(w) PROVE ListingInv'
  BY <1>14 DEF LeaveSub, Lock
<1>15. ASSUME NEW w \in SubWorkers, DecrementSubscribers(w) PROVE ListingInv'
  BY <1>15 DEF DecrementSubscribers
<1>16. ASSUME NEW w \in ManWorkers, NEW n \in Names, CreateBox(w, n) PROVE ListingInv'
  <2>1. pc' = pc /\ listing' = listing /\ messagesLock = Nobody
    BY <1>16 DEF CreateBox, Take
  <2>2. QED
    BY <2>1
<1>17. ASSUME NEW w \in ManWorkers, ListBoxes(w) PROVE ListingInv'
  BY <1>17 DEF ListBoxes, Take
<1>18. ASSUME NEW w \in ManWorkers, ListEntry(w) PROVE ListingInv'
  BY <1>18 DEF ListEntry
<1>19. ASSUME Refused PROVE ListingInv'
  BY <1>19 DEF Refused
<1>20. ASSUME NEW b \in Listed, Removed(b) PROVE ListingInv'
  <2>1. pc' = pc /\ listing' = listing /\ messagesLock = Nobody
    BY <1>20 DEF Removed
  <2>2. QED
    BY <2>1
<1>21. ASSUME NEW how \in {"exited", "panicked"}, Stop(how) PROVE ListingInv'
  BY <1>21 DEF Stop
<1>22. ASSUME Restart PROVE ListingInv'
  BY <1>22 DEF Restart
<1>23. ASSUME UNCHANGED vars PROVE ListingInv'
  BY <1>23 DEF vars, history, bounds
<1>24. QED
  BY <1>1, <1>2, <1>3, <1>4, <1>5, <1>6, <1>7, <1>8, <1>9, <1>10, <1>11, <1>12, <1>13,
     <1>14, <1>15, <1>16, <1>17, <1>18, <1>19, <1>20, <1>21, <1>22, <1>23,
     RemoveBoxOutcomes, FindListed
     DEF Next, ServePub, ServeSub, Interrupt, Workers

(* No descriptor is ever beyond the end of its file.                       *)
LEMMA FileStep == ListInv /\ ControlInv /\ BoundsType /\ FileInv /\ [Next]_vars => FileInv'
<1> SUFFICES ASSUME ListInv /\ ControlInv /\ BoundsType /\ FileInv, [Next]_vars
             PROVE  FileInv'
  OBVIOUS
<1>b. /\ PubWorkers \subseteq Workers
      /\ SubWorkers \subseteq Workers
      /\ ManWorkers \subseteq Workers
  BY DEF Workers
<1>c. /\ created \in 0..MaxBoxes
      /\ MaxBoxes \in Nat
      /\ \A w \in Workers : box[w] # NoBox => box[w] <= created
  BY BoxAssumption DEF ListInv
<1>d. /\ box \in [Workers -> Boxes \cup {NoBox}]
      /\ NoBox \notin Boxes
      /\ \A w \in Workers : box[w] = NoBox <=> pc[w] \in {"idle", "list"}
  BY BoxAssumption DEF ControlInv, ControlType, SessionInv
<1>f. \A b \in Boxes : b \in Nat
  BY BoxAssumption DEF Boxes
<1>write. ASSUME NEW b \in Boxes, b <= created, UNCHANGED created,
                 NEW halves \in Seq(Messages \X {1, 2}), WriteFile(b, halves)
      PROVE  FileInv'
  <2> DEFINE new == SubSeq(file[b], 1, fdInternalW[b]) \o halves
                      \o SubSeq(file[b], fdInternalW[b] + Len(halves) + 1, Len(file[b]))
  <2>1. /\ file[b] \in Seq(Messages \X {1, 2})
        /\ fdInternalW[b] \in Nat /\ Len(halves) \in Nat /\ Len(file[b]) \in Nat
        /\ fdInternalW[b] \in 0..Len(file[b])
    BY <1>write, LenProperties DEF FileInv
  <2>2. new \in Seq(Messages \X {1, 2}) /\ Len(new) >= fdInternalW[b] + Len(halves)
    BY <1>write, <2>1, Overwritten
  <2>3. /\ file' = [file EXCEPT ![b] = new]
        /\ fdInternalW' = [fdInternalW EXCEPT ![b] = fdInternalW[b] + Len(halves)]
        /\ disk' = disk
    BY <1>write DEF WriteFile
  <2> HIDE DEF new
  <2>4. /\ file' \in [Boxes -> Seq(Messages \X {1, 2})]
        /\ disk' \in [Names -> Seq(Messages \X {1, 2})]
    BY <2>2, <2>3 DEF FileInv
  <2>5. fdInternalW[b] + Len(halves) \in Nat
    BY ONLY <2>1
  <2>6. fdInternalW' \in [Boxes -> Nat]
    BY <2>3, <2>5 DEF FileInv
  <2>7. \A c \in Boxes :
          fdInternalW'[c] <= Len(file'[c]) /\ (c > created => fdInternalW'[c] = 0)
    <3>1. fdInternalW'[b] <= Len(file'[b]) /\ ~(b > created)
      <4>1. Len(new) \in Nat
        BY <2>2, LenProperties
      <4>2. fdInternalW'[b] = fdInternalW[b] + Len(halves) /\ file'[b] = new
        BY <2>3 DEF FileInv
      <4>3. QED
        BY <1>c, <1>f, <1>write, <2>2, <2>5, <4>1, <4>2
    <3>2. \A c \in Boxes : c # b => fdInternalW'[c] = fdInternalW[c] /\ file'[c] = file[c]
      BY <2>3 DEF FileInv
    <3>3. QED
      BY <3>1, <3>2 DEF FileInv
  <2>8. QED
    BY <1>write, <2>4, <2>6, <2>7 DEF FileInv
<1>h. Len(<<>>) = 0 /\ <<>> \in Seq(Messages \X {1, 2})
  BY EmptySeq
<1> USE <1>b, <1>d, <1>h
<1> USE DEF FileInv, storage, heap
<1>1. ASSUME NEW w \in PubWorkers, NEW n \in Names, RegisterPub(w, n) PROVE FileInv'
  BY <1>1 DEF RegisterPub
<1>2. ASSUME NEW w \in PubWorkers, WriteMessage(w) PROVE FileInv'
  <2>1. sent + 1 \in Messages
    BY <1>2, BoxAssumption DEF WriteMessage, Messages, BoundsType
  <2>2. Halves(sent + 1) \in Seq(Messages \X {1, 2})
    BY <2>1 DEF Halves
  <2>3. /\ box[w] \in Boxes /\ box[w] <= created
        /\ WriteFile(box[w], Halves(sent + 1)) /\ UNCHANGED created
    BY <1>c, <1>2 DEF WriteMessage
  <2>4. QED
    BY <1>write, <2>2, <2>3
<1>3. ASSUME NEW w \in PubWorkers, ShortWrite(w) PROVE FileInv'
  <2>1. sent + 1 \in Messages
    BY <1>3, BoxAssumption DEF ShortWrite, Messages, BoundsType
  <2>2. Halves(sent + 1) \in Seq(Messages \X {1, 2}) /\ Len(Halves(sent + 1)) = 2
    BY <2>1 DEF Halves
  <2>3. PICK written \in 0..(PacketSize - 1) :
          WriteFile(box[w], SubSeq(Halves(sent + 1), 1, written))
    BY <1>3 DEF ShortWrite
  <2>4. SubSeq(Halves(sent + 1), 1, written) \in Seq(Messages \X {1, 2})
    BY <2>2, <2>3, ElementOfSeq, SubSeqProperties DEF PacketSize
  <2>5. box[w] \in Boxes /\ box[w] <= created /\ UNCHANGED created
    BY <1>c, <1>3 DEF ShortWrite
  <2>6. QED
    BY <1>write, <2>3, <2>4, <2>5
<1>4. ASSUME NEW w \in PubWorkers, EndOfPipe(w) PROVE FileInv'
  BY <1>4 DEF EndOfPipe
<1>5. ASSUME NEW w \in PubWorkers, CountMessage(w) PROVE FileInv'
  BY <1>5 DEF CountMessage, Broadcast
<1>6. ASSUME NEW w \in PubWorkers, LeavePub(w) PROVE FileInv'
  BY <1>6 DEF LeavePub, Lock
<1>7. ASSUME NEW w \in Workers, Unlock(w) PROVE FileInv'
  BY <1>7 DEF Unlock
<1>8. ASSUME NEW w \in SubWorkers, NEW n \in Names, RegisterSub(w, n) PROVE FileInv'
  BY <1>8 DEF RegisterSub
<1>9. ASSUME NEW w \in SubWorkers, StoreSubscribers(w) PROVE FileInv'
  BY <1>9 DEF StoreSubscribers
<1>10. ASSUME NEW w \in SubWorkers, TestSize(w) PROVE FileInv'
  BY <1>10 DEF TestSize
<1>11. ASSUME NEW w \in SubWorkers, SpuriousWakeup(w) PROVE FileInv'
  BY <1>11 DEF SpuriousWakeup
<1>12. ASSUME NEW w \in SubWorkers, Forward(w) PROVE FileInv'
  BY <1>12 DEF Forward
<1>13. ASSUME NEW w \in SubWorkers, SubscriberGone(w) PROVE FileInv'
  BY <1>13 DEF SubscriberGone
<1>14. ASSUME NEW w \in SubWorkers, LeaveSub(w) PROVE FileInv'
  BY <1>14 DEF LeaveSub, Lock
<1>15. ASSUME NEW w \in SubWorkers, DecrementSubscribers(w) PROVE FileInv'
  BY <1>15 DEF DecrementSubscribers
<1>16. ASSUME NEW w \in ManWorkers, NEW n \in Names, CreateBox(w, n) PROVE FileInv'
  <2>1. CASE UNCHANGED <<created, storage>>
    BY <2>1
  <2>2. CASE AddBox(n)
    <3>1. /\ created + 1 \in Boxes /\ created' = created + 1
          /\ file' = [file EXCEPT ![created + 1] = disk[n]]
          /\ disk' = [disk EXCEPT ![n] = <<>>]
          /\ UNCHANGED fdInternalW
      BY <2>2, AddedList DEF AddBox
    <3>2. created + 1 > created /\ \A b \in Boxes : b > created + 1 => b > created
      BY <1>c, <1>f
    <3>3. fdInternalW[created + 1] = 0
      BY <3>1, <3>2
    <3>4. /\ file' \in [Boxes -> Seq(Messages \X {1, 2})]
          /\ disk' \in [Names -> Seq(Messages \X {1, 2})]
      BY <3>1
    <3>5. Len(disk[n]) >= 0
      BY LenProperties
    <3>6. \A b \in Boxes : fdInternalW'[b] <= Len(file'[b])
      BY <3>1, <3>3, <3>5
    <3>7. QED
      BY <3>1, <3>2, <3>4, <3>6
  <2>3. QED
    BY <1>16, <2>1, <2>2 DEF CreateBox
<1>17. ASSUME NEW w \in ManWorkers, ListBoxes(w) PROVE FileInv'
  BY <1>17 DEF ListBoxes, Take
<1>18. ASSUME NEW w \in ManWorkers, ListEntry(w) PROVE FileInv'
  BY <1>18 DEF ListEntry
<1>19. ASSUME Refused PROVE FileInv'
  BY <1>19 DEF Refused
<1>20. ASSUME NEW b \in Listed, Removed(b) PROVE FileInv'
  <2>1. /\ b \in Boxes
        /\ file' = [file EXCEPT ![b] = <<>>] /\ fdInternalW' = [fdInternalW EXCEPT ![b] = 0]
        /\ UNCHANGED <<disk, created>>
    BY <1>20, FindListed DEF Removed, DeleteBox
  <2>2. file' \in [Boxes -> Seq(Messages \X {1, 2})] /\ fdInternalW' \in [Boxes -> Nat]
    BY <2>1
  <2>3. \A c \in Boxes :
          fdInternalW'[c] <= Len(file'[c]) /\ (c > created => fdInternalW'[c] = 0)
    BY <2>1
  <2>4. QED
    BY <2>1, <2>2, <2>3
<1>21. ASSUME NEW how \in {"exited", "panicked"}, Stop(how) PROVE FileInv'
  <2>1. \A n \in Names : Find(n) # {} => (CHOOSE b \in Find(n) : TRUE) \in Boxes
    BY FindListed
  <2>2. disk' \in [Names -> Seq(Messages \X {1, 2})]
    BY <1>21, <2>1 DEF Stop
  <2>3. /\ file' = [b \in Boxes |-> <<>>] /\ fdInternalW' = [b \in Boxes |-> 0]
        /\ file' \in [Boxes -> Seq(Messages \X {1, 2})] /\ fdInternalW' \in [Boxes -> Nat]
    BY <1>21 DEF Stop
  <2>4. \A b \in Boxes : fdInternalW'[b] <= Len(file'[b]) /\ fdInternalW'[b] = 0
    BY <2>3
  <2>5. QED
    BY <2>2, <2>3, <2>4
<1>22. ASSUME Restart PROVE FileInv'
  BY <1>22 DEF Restart
<1>23. ASSUME UNCHANGED vars PROVE FileInv'
  BY <1>23 DEF vars, history, bounds
<1>24. QED
  BY <1>1, <1>2, <1>3, <1>4, <1>5, <1>6, <1>7, <1>8, <1>9, <1>10, <1>11, <1>12, <1>13,
     <1>14, <1>15, <1>16, <1>17, <1>18, <1>19, <1>20, <1>21, <1>22, <1>23,
     RemoveBoxOutcomes, FindListed
     DEF Next, ServePub, ServeSub, Interrupt, Workers

(* The counters, the sizes and the offsets of readers keep their types.    *)
LEMMA CountStep == ListInv /\ ControlInv /\ FileInv /\ CountType /\ [Next]_vars => CountType'
<1> SUFFICES ASSUME ListInv /\ ControlInv /\ FileInv /\ CountType, [Next]_vars
             PROVE  CountType'
  OBVIOUS
<1>b. /\ PubWorkers \subseteq Workers
      /\ SubWorkers \subseteq Workers
      /\ ManWorkers \subseteq Workers
  BY DEF Workers
<1>c. \A n \in Names : Find(n) \subseteq Boxes
  BY FindListed
<1>d. /\ box \in [Workers -> Boxes \cup {NoBox}]
      /\ NoBox \notin Boxes
      /\ \A w \in Workers : box[w] = NoBox <=> pc[w] \in {"idle", "list"}
  BY BoxAssumption DEF ControlInv, ControlType, SessionInv
<1>e. /\ CountRange \in Nat
      /\ CountRange > 1
      /\ \A i \in Int : i % CountRange \in 0..(CountRange - 1)
  BY BoxAssumption
<1> USE <1>b, <1>c, <1>d, <1>e
<1> USE DEF CountType, heap, sessions
<1>1. ASSUME NEW w \in PubWorkers, NEW n \in Names, RegisterPub(w, n) PROVE CountType'
  BY <1>1 DEF RegisterPub
<1>2. ASSUME NEW w \in PubWorkers, WriteMessage(w) PROVE CountType'
  BY <1>2 DEF WriteMessage, WriteFile, Halves
<1>3. ASSUME NEW w \in PubWorkers, ShortWrite(w) PROVE CountType'
  BY <1>3 DEF ShortWrite, WriteFile, Halves, Never
<1>4. ASSUME NEW w \in PubWorkers, EndOfPipe(w) PROVE CountType'
  BY <1>4 DEF EndOfPipe
<1>5. ASSUME NEW w \in PubWorkers, CountMessage(w) PROVE CountType'
  <2>1. box[w] \in Boxes /\ size' = [size EXCEPT ![box[w]] = @ + PacketSize]
    BY <1>5 DEF CountMessage
  <2>2. size'[box[w]] \in Nat
    BY <2>1 DEF PacketSize
  <2>3. size' \in [Boxes -> Nat]
    BY <2>1, <2>2
  <2>4. UNCHANGED <<publishers, subscribers, reg, fd>>
    BY <1>5 DEF CountMessage
  <2>5. QED
    BY <2>3, <2>4
<1>6. ASSUME NEW w \in PubWorkers, LeavePub(w) PROVE CountType'
  BY <1>6, Wraps DEF LeavePub
<1>7. ASSUME NEW w \in Workers, Unlock(w) PROVE CountType'
  BY <1>7 DEF Unlock
<1>8. ASSUME NEW w \in SubWorkers, NEW n \in Names, RegisterSub(w, n) PROVE CountType'
  BY <1>8 DEF RegisterSub
<1>9. ASSUME NEW w \in SubWorkers, StoreSubscribers(w) PROVE CountType'
  BY <1>9 DEF StoreSubscribers
<1>10. ASSUME NEW w \in SubWorkers, TestSize(w) PROVE CountType'
  BY <1>10 DEF TestSize
<1>11. ASSUME NEW w \in SubWorkers, SpuriousWakeup(w) PROVE CountType'
  BY <1>11 DEF SpuriousWakeup
<1>12. ASSUME NEW w \in SubWorkers, Forward(w) PROVE CountType'
  <2> DEFINE content == file[box[w]]
             read == SubSeq(content, fd[w] + 1, Smaller(fd[w] + PacketSize, Len(content)))
  <2>1. Len(read) \in Nat
    <3>1. content \in Seq(Messages \X {1, 2}) /\ fd[w] \in Nat
      BY <1>b, <1>12, <1>d DEF Forward, FileInv
    <3>2. QED
      BY <3>1, ReadPart
  <2> HIDE DEF read, content
  <2>2. fd' = [fd EXCEPT ![w] = @ + Len(read)] /\ UNCHANGED <<heap, reg>>
    BY <1>12 DEF Forward, read, content
  <2>3. fd[w] \in Nat /\ fd' = [fd EXCEPT ![w] = fd[w] + Len(read)]
    BY <2>2
  <2>4. fd[w] + Len(read) \in Nat
    BY ONLY <2>1, <2>3
  <2>5. fd' \in [Workers -> Nat]
    BY <2>3, <2>4
  <2>6. QED
    BY <2>2, <2>5
<1>13. ASSUME NEW w \in SubWorkers, SubscriberGone(w) PROVE CountType'
  BY <1>13 DEF SubscriberGone
<1>14. ASSUME NEW w \in SubWorkers, LeaveSub(w) PROVE CountType'
  BY <1>14 DEF LeaveSub, Lock
<1>15. ASSUME NEW w \in SubWorkers, DecrementSubscribers(w) PROVE CountType'
  BY <1>15 DEF DecrementSubscribers
<1>16. ASSUME NEW w \in ManWorkers, NEW n \in Names, CreateBox(w, n) PROVE CountType'
  BY <1>16 DEF CreateBox
<1>17. ASSUME NEW w \in ManWorkers, ListBoxes(w) PROVE CountType'
  BY <1>17 DEF ListBoxes, Take
<1>18. ASSUME NEW w \in ManWorkers, ListEntry(w) PROVE CountType'
  BY <1>18 DEF ListEntry
<1>19. ASSUME Refused PROVE CountType'
  BY <1>19 DEF Refused
<1>20. ASSUME NEW b \in Listed, Removed(b) PROVE CountType'
  BY <1>20 DEF Removed, DeleteBox
<1>21. ASSUME NEW how \in {"exited", "panicked"}, Stop(how) PROVE CountType'
  BY <1>21 DEF Stop
<1>22. ASSUME Restart PROVE CountType'
  BY <1>22 DEF Restart
<1>23. ASSUME UNCHANGED vars PROVE CountType'
  BY <1>23 DEF vars, history, bounds
<1>24. QED
  BY <1>1, <1>2, <1>3, <1>4, <1>5, <1>6, <1>7, <1>8, <1>9, <1>10, <1>11, <1>12, <1>13,
     <1>14, <1>15, <1>16, <1>17, <1>18, <1>19, <1>20, <1>21, <1>22, <1>23,
     RemoveBoxOutcomes, FindListed
     DEF Next, ServePub, ServeSub, Interrupt, Workers

(* What is in the packet of a publisher, in a log or torn keeps its type.  *)
LEMMA MessageStep ==
  ListInv /\ ControlInv /\ BoundsType /\ MessageInv /\ [Next]_vars => MessageInv'
<1> SUFFICES ASSUME ListInv /\ ControlInv /\ BoundsType /\ MessageInv, [Next]_vars
             PROVE  MessageInv'
  OBVIOUS
<1>b. /\ PubWorkers \subseteq Workers
      /\ SubWorkers \subseteq Workers
      /\ ManWorkers \subseteq Workers
  BY DEF Workers
<1>c. sent < MaxMessages => sent + 1 \in Messages
  BY BoxAssumption DEF Messages, BoundsType
<1>d. /\ pc \in [Workers -> Labels]
      /\ box \in [Workers -> Boxes \cup {NoBox}]
      /\ NoBox \notin Boxes
      /\ \A w \in Workers : box[w] = NoBox <=> pc[w] \in {"idle", "list"}
  BY BoxAssumption DEF ControlInv, ControlType, SessionInv
<1>e. \A s \in Seq(Messages) : Len(s) \in Nat
  BY LenProperties
<1> USE <1>b, <1>c, <1>d, <1>e
<1> USE DEF MessageInv, history, sessions, GoTo
<1>1. ASSUME NEW w \in PubWorkers, NEW n \in Names, RegisterPub(w, n) PROVE MessageInv'
  BY <1>1 DEF RegisterPub
<1>2. ASSUME NEW w \in PubWorkers, WriteMessage(w) PROVE MessageInv'
  BY <1>2 DEF WriteMessage, WriteFile, Halves
<1>3. ASSUME NEW w \in PubWorkers, ShortWrite(w) PROVE MessageInv'
  <2>1. box[w] \in Boxes /\ Len(log[box[w]]) \in Nat
    BY <1>3 DEF ShortWrite
  <2>2. damagedAt' = damagedAt \/ damagedAt' = [damagedAt EXCEPT ![box[w]] = Len(log[box[w]])]
    BY <1>3 DEF ShortWrite
  <2>3. damagedAt' \in [Boxes -> Nat \cup {Never}]
    BY <2>1, <2>2
  <2>4. UNCHANGED <<msg, log>> /\ pc' = [pc EXCEPT ![w] = "pub_leave"]
    BY <1>3 DEF ShortWrite
  <2>5. QED
    BY <2>3, <2>4
<1>4. ASSUME NEW w \in PubWorkers, EndOfPipe(w) PROVE MessageInv'
  BY <1>4 DEF EndOfPipe
<1>5. ASSUME NEW w \in PubWorkers, CountMessage(w) PROVE MessageInv'
  BY <1>5 DEF CountMessage, Broadcast
<1>6. ASSUME NEW w \in PubWorkers, LeavePub(w) PROVE MessageInv'
  BY <1>6 DEF LeavePub, Lock
<1>7. ASSUME NEW w \in Workers, Unlock(w) PROVE MessageInv'
  BY <1>7 DEF Unlock
<1>8. ASSUME NEW w \in SubWorkers, NEW n \in Names, RegisterSub(w, n) PROVE MessageInv'
  BY <1>8 DEF RegisterSub
<1>9. ASSUME NEW w \in SubWorkers, StoreSubscribers(w) PROVE MessageInv'
  BY <1>9 DEF StoreSubscribers
<1>10. ASSUME NEW w \in SubWorkers, TestSize(w) PROVE MessageInv'
  BY <1>10 DEF TestSize
<1>11. ASSUME NEW w \in SubWorkers, SpuriousWakeup(w) PROVE MessageInv'
  BY <1>11 DEF SpuriousWakeup
<1>12. ASSUME NEW w \in SubWorkers, Forward(w) PROVE MessageInv'
  BY <1>12 DEF Forward
<1>13. ASSUME NEW w \in SubWorkers, SubscriberGone(w) PROVE MessageInv'
  BY <1>13 DEF SubscriberGone
<1>14. ASSUME NEW w \in SubWorkers, LeaveSub(w) PROVE MessageInv'
  BY <1>14 DEF LeaveSub, Lock
<1>15. ASSUME NEW w \in SubWorkers, DecrementSubscribers(w) PROVE MessageInv'
  BY <1>15 DEF DecrementSubscribers
<1>16. ASSUME NEW w \in ManWorkers, NEW n \in Names, CreateBox(w, n) PROVE MessageInv'
  BY <1>16 DEF CreateBox
<1>17. ASSUME NEW w \in ManWorkers, ListBoxes(w) PROVE MessageInv'
  BY <1>17 DEF ListBoxes, Take
<1>18. ASSUME NEW w \in ManWorkers, ListEntry(w) PROVE MessageInv'
  BY <1>18 DEF ListEntry
<1>19. ASSUME Refused PROVE MessageInv'
  BY <1>19 DEF Refused
<1>20. ASSUME NEW b \in Listed, Removed(b) PROVE MessageInv'
  BY <1>20 DEF Removed, DeleteBox
<1>21. ASSUME NEW how \in {"exited", "panicked"}, Stop(how) PROVE MessageInv'
  BY <1>21 DEF Stop
<1>22. ASSUME Restart PROVE MessageInv'
  BY <1>22 DEF Restart
<1>23. ASSUME UNCHANGED vars PROVE MessageInv'
  BY <1>23 DEF vars, history, bounds
<1>24. QED
  BY <1>1, <1>2, <1>3, <1>4, <1>5, <1>6, <1>7, <1>8, <1>9, <1>10, <1>11, <1>12, <1>13,
     <1>14, <1>15, <1>16, <1>17, <1>18, <1>19, <1>20, <1>21, <1>22, <1>23,
     RemoveBoxOutcomes, FindListed
     DEF Next, ServePub, ServeSub, Interrupt, Workers

(* How the broker ended and what it answered keep their types.             *)
LEMMA BrokerStep == BrokerType /\ [Next]_vars => BrokerType'
<1> SUFFICES ASSUME BrokerType, [Next]_vars
             PROVE  BrokerType'
  OBVIOUS
<1>b. /\ PubWorkers \subseteq Workers
      /\ SubWorkers \subseteq Workers
      /\ ManWorkers \subseteq Workers
  BY DEF Workers
<1> USE DEF BrokerType, answers, Answer, Workers
<1>1. ASSUME NEW w \in PubWorkers, NEW n \in Names, RegisterPub(w, n) PROVE BrokerType'
  BY <1>1 DEF RegisterPub, Take
<1>2. ASSUME NEW w \in PubWorkers, WriteMessage(w) PROVE BrokerType'
  BY <1>2 DEF WriteMessage, WriteFile, Halves
<1>3. ASSUME NEW w \in PubWorkers, ShortWrite(w) PROVE BrokerType'
  BY <1>3 DEF ShortWrite, WriteFile, Halves, Never
<1>4. ASSUME NEW w \in PubWorkers, EndOfPipe(w) PROVE BrokerType'
  BY <1>4 DEF EndOfPipe
<1>5. ASSUME NEW w \in PubWorkers, CountMessage(w) PROVE BrokerType'
  BY <1>5 DEF CountMessage, Broadcast
<1>6. ASSUME NEW w \in PubWorkers, LeavePub(w) PROVE BrokerType'
  BY <1>6 DEF LeavePub, Lock
<1>7. ASSUME NEW w \in Workers, Unlock(w) PROVE BrokerType'
  BY <1>7 DEF Unlock
<1>8. ASSUME NEW w \in SubWorkers, NEW n \in Names, RegisterSub(w, n) PROVE BrokerType'
  BY <1>8 DEF RegisterSub, Take
<1>9. ASSUME NEW w \in SubWorkers, StoreSubscribers(w) PROVE BrokerType'
  BY <1>9 DEF StoreSubscribers
<1>10. ASSUME NEW w \in SubWorkers, TestSize(w) PROVE BrokerType'
  BY <1>10 DEF TestSize
<1>11. ASSUME NEW w \in SubWorkers, SpuriousWakeup(w) PROVE BrokerType'
  BY <1>11 DEF SpuriousWakeup
<1>12. ASSUME NEW w \in SubWorkers, Forward(w) PROVE BrokerType'
  BY <1>12 DEF Forward
<1>13. ASSUME NEW w \in SubWorkers, SubscriberGone(w) PROVE BrokerType'
  BY <1>13 DEF SubscriberGone
<1>14. ASSUME NEW w \in SubWorkers, LeaveSub(w) PROVE BrokerType'
  BY <1>14 DEF LeaveSub, Lock
<1>15. ASSUME NEW w \in SubWorkers, DecrementSubscribers(w) PROVE BrokerType'
  BY <1>15 DEF DecrementSubscribers
<1>16. ASSUME NEW w \in ManWorkers, NEW n \in Names, CreateBox(w, n) PROVE BrokerType'
  BY <1>16 DEF CreateBox, Take, AddBox
<1>17. ASSUME NEW w \in ManWorkers, ListBoxes(w) PROVE BrokerType'
  BY <1>17 DEF ListBoxes, Take
<1>18. ASSUME NEW w \in ManWorkers, ListEntry(w) PROVE BrokerType'
  BY <1>18 DEF ListEntry
<1>19. ASSUME NEW w \in RemWorkers, NEW n \in Names, RemoveBox(w, n) PROVE BrokerType'
  BY <1>19 DEF RemoveBox, Take, Stop
<1>20. ASSUME Interrupt PROVE BrokerType'
  BY <1>20 DEF Interrupt, Stop
<1>21. ASSUME Restart PROVE BrokerType'
  BY <1>21 DEF Restart
<1>22. ASSUME UNCHANGED vars PROVE BrokerType'
  BY <1>22 DEF vars, history, bounds
<1>23. QED
  BY <1>1, <1>2, <1>3, <1>4, <1>5, <1>6, <1>7, <1>8, <1>9, <1>10, <1>11, <1>12, <1>13,
     <1>14, <1>15, <1>16, <1>17, <1>18, <1>19, <1>20, <1>21, <1>22, RemoveBoxOutcomes,
     FindListed
     DEF Next, ServePub, ServeSub, Interrupt, Workers

(* The bounds of the model are kept.                                       *)
LEMMA BoundsStep == BoundsType /\ [Next]_vars => BoundsType'
<1> SUFFICES ASSUME BoundsType, [Next]_vars
             PROVE  BoundsType'
  OBVIOUS
<1>a. MaxMessages \in Nat /\ MaxRequests \in Nat /\ MaxRestarts \in Nat
  BY BoxAssumption
<1> USE <1>a
<1> USE DEF BoundsType, bounds, Take
<1>1. ASSUME NEW w \in PubWorkers, NEW n \in Names, RegisterPub(w, n) PROVE BoundsType'
  BY <1>1 DEF RegisterPub, Take
<1>2. ASSUME NEW w \in PubWorkers, WriteMessage(w) PROVE BoundsType'
  BY <1>2 DEF WriteMessage, WriteFile, Halves
<1>3. ASSUME NEW w \in PubWorkers, ShortWrite(w) PROVE BoundsType'
  BY <1>3 DEF ShortWrite, WriteFile, Halves, Never
<1>4. ASSUME NEW w \in PubWorkers, EndOfPipe(w) PROVE BoundsType'
  BY <1>4 DEF EndOfPipe
<1>5. ASSUME NEW w \in PubWorkers, CountMessage(w) PROVE BoundsType'
  BY <1>5 DEF CountMessage, Broadcast
<1>6. ASSUME NEW w \in PubWorkers, LeavePub(w) PROVE BoundsType'
  BY <1>6 DEF LeavePub, Lock
<1>7. ASSUME NEW w \in Workers, Unlock(w) PROVE BoundsType'
  BY <1>7 DEF Unlock
<1>8. ASSUME NEW w \in SubWorkers, NEW n \in Names, RegisterSub(w, n) PROVE BoundsType'
  BY <1>8 DEF RegisterSub, Take
<1>9. ASSUME NEW w \in SubWorkers, StoreSubscribers(w) PROVE BoundsType'
  BY <1>9 DEF StoreSubscribers
<1>10. ASSUME NEW w \in SubWorkers, TestSize(w) PROVE BoundsType'
  BY <1>10 DEF TestSize
<1>11. ASSUME NEW w \in SubWorkers, SpuriousWakeup(w) PROVE BoundsType'
  BY <1>11 DEF SpuriousWakeup
<1>12. ASSUME NEW w \in SubWorkers, Forward(w) PROVE BoundsType'
  BY <1>12 DEF Forward
<1>13. ASSUME NEW w \in SubWorkers, SubscriberGone(w) PROVE BoundsType'
  BY <1>13 DEF SubscriberGone
<1>14. ASSUME NEW w \in SubWorkers, LeaveSub(w) PROVE BoundsType'
  BY <1>14 DEF LeaveSub, Lock
<1>15. ASSUME NEW w \in SubWorkers, DecrementSubscribers(w) PROVE BoundsType'
  BY <1>15 DEF DecrementSubscribers
<1>16. ASSUME NEW w \in ManWorkers, NEW n \in Names, CreateBox(w, n) PROVE BoundsType'
  BY <1>16 DEF CreateBox, Take, AddBox
<1>17. ASSUME NEW w \in ManWorkers, ListBoxes(w) PROVE BoundsType'
  BY <1>17 DEF ListBoxes, Take
<1>18. ASSUME NEW w \in ManWorkers, ListEntry(w) PROVE BoundsType'
  BY <1>18 DEF ListEntry
<1>19. ASSUME NEW w \in RemWorkers, NEW n \in Names, RemoveBox(w, n) PROVE BoundsType'
  <2>1. Take(w)
    BY <1>19 DEF RemoveBox
  <2>2. QED
    BY <2>1
<1>20. ASSUME Interrupt PROVE BoundsType'
  BY <1>20 DEF Interrupt, Stop
<1>21. ASSUME Restart PROVE BoundsType'
  BY <1>21 DEF Restart
<1>22. ASSUME UNCHANGED vars PROVE BoundsType'
  BY <1>22 DEF vars, history, bounds
<1>23. QED
  BY <1>1, <1>2, <1>3, <1>4, <1>5, <1>6, <1>7, <1>8, <1>9, <1>10, <1>11, <1>12, <1>13,
     <1>14, <1>15, <1>16, <1>17, <1>18, <1>19, <1>20, <1>21, <1>22, RemoveBoxOutcomes,
     FindListed
     DEF Next, ServePub, ServeSub, Interrupt, Workers

(* Every action preserves the whole invariant.                             *)
LEMMA BaseStep == BaseInv /\ [Next]_vars => BaseInv'
  BY ControlStep, ListStep, ListingStep, FileStep, CountStep, MessageStep, BrokerStep,
     BoundsStep
  DEF BaseInv

(* The broker starts with no box, no session and every lock free.          *)
LEMMA BaseInit == Init => BaseInv
<1> SUFFICES ASSUME Init PROVE BaseInv
  OBVIOUS
<1> USE BoxAssumption
<1>1. ControlInv
  BY DEF Init, ControlInv, ControlType, SessionInv, LocksInv, Labels, PubLabels, SubLabels,
         PublisherAt, SubscriberAt
<1>2. ListInv
  <2>1. name \in [Boxes -> Names]
    BY DEF Init
  <2>2. msgBoxes \in Seq(Boxes) /\ DOMAIN msgBoxes = {}
    BY EmptySeq, LenProperties DEF Init
  <2>3. QED
    BY <2>1, <2>2 DEF Init, ListInv
<1>3. ListingInv
  BY DEF Init, ListingInv
<1>4. FileInv
  BY EmptySeq DEF Init, FileInv
<1>5. CountType
  BY DEF Init, CountType
<1>6. MessageInv
  BY EmptySeq DEF Init, MessageInv
<1>7. BrokerType /\ BoundsType
  BY DEF Init, BrokerType, BoundsType
<1>8. QED
  BY <1>1, <1>2, <1>3, <1>4, <1>5, <1>6, <1>7 DEF BaseInv

LEMMA BaseAlways == Spec => []BaseInv
  BY BaseInit, BaseStep, PTL DEF Spec

(* Every variable stays in its type: the u64 counters are kept in range    *)
(* and no entry of a list answer is written for a box that is not there    *)
(* (mbroker.c:22-36, 342-351).                                             *)
THEOREM TypeCorrect == Spec => []TypeOK
  BY BaseAlways, BaseInvTypes, PTL

(* The search and the insertion of a creation are one critical section,    *)
(* so the list never holds two boxes of a name (mbroker.c:252-279).        *)
THEOREM NamesAreUnique == Spec => []OneBoxPerName
<1>1. BaseInv => OneBoxPerName
  BY DEF BaseInv, ListInv, OneBoxPerName, Listed
<1>2. QED
  BY <1>1, BaseAlways, PTL
=============================================================================
