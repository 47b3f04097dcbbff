-------------------------- MODULE MessageLogProofs --------------------------
(***************************************************************************)
(* Proofs that MessageBox implements MessageLog: whatever the interleaving *)
(* of the workers, and whether or not a disk write is cut short, a         *)
(* subscriber is sent the messages of its box, from the first on, whole,   *)
(* in order and once.                                                      *)
(***************************************************************************)
EXTENDS SessionProofs

(***************************************************************************)
(* What a step does to the logs, the files and the sessions that use them. *)
(***************************************************************************)

(* A step that concerns neither.                                           *)
Quiet ==
  /\ UNCHANGED <<log, damagedAt, delivered, size, fdInternalW, file, msgBoxes, created,
                 msg, fd, sent>>
  /\ \A v \in Workers : /\ pc'[v] = "pub_count" <=> pc[v] = "pub_count"
                        /\ pc'[v] \in SubLabels <=> pc[v] \in SubLabels
                        /\ pc[v] \in SubLabels \cup {"pub_count"} => box'[v] = box[v]

Joined(w, b) ==
  /\ pc[w] = "idle"
  /\ pc' = [pc EXCEPT ![w] = "sub_store"]
  /\ box' = [box EXCEPT ![w] = b]
  /\ UNCHANGED <<log, damagedAt, delivered, size, fdInternalW, file, msgBoxes, created,
                 msg, fd, sent>>

Added(n) ==
  /\ AddBox(n)
  /\ UNCHANGED <<log, damagedAt, delivered, size, msg, fd, sent, pc, box>>

Outcome ==
  \/ Quiet
  \/ \E w \in PubWorkers : WriteMessage(w) \/ ShortWrite(w) \/ CountMessage(w)
  \/ \E w \in SubWorkers : Forward(w) \/ \E b \in Listed : Joined(w, b)
  \/ \E w \in Workers : Unlock(w)
  \/ \E n \in Names : Added(n)
  \/ \E b \in Listed : Removed(b) /\ UNCHANGED sent
  \/ \E how \in {"exited", "panicked"} : Stop(how) /\ UNCHANGED sent

LEMMA Outcomes == BaseInv /\ [Next]_vars => Outcome
<1> SUFFICES ASSUME BaseInv, [Next]_vars PROVE Outcome
  OBVIOUS
<1>a. SessionFacts
  BY BaseFacts
<1>b. /\ pc \in [Workers -> Labels] /\ box \in [Workers -> Boxes \cup {NoBox}]
      /\ PubWorkers \subseteq Workers /\ SubWorkers \subseteq Workers
      /\ ManWorkers \subseteq Workers /\ RemWorkers \subseteq Workers
      /\ \A n \in Names : Find(n) \subseteq Listed
  BY <1>a DEF SessionFacts, Workers
<1> USE <1>b
<1> USE DEF GoTo, SubLabels, SubscriberAt, Take, heap, storage, sessions, answers, history,
            bounds
<1>1. ASSUME NEW w \in PubWorkers, NEW n \in Names, RegisterPub(w, n) PROVE Quiet
  BY <1>1 DEF RegisterPub, Quiet
<1>2. ASSUME NEW w \in PubWorkers, EndOfPipe(w) PROVE Quiet
  BY <1>2 DEF EndOfPipe, Quiet
<1>3. ASSUME NEW w \in PubWorkers, LeavePub(w) PROVE Quiet
  BY <1>3 DEF LeavePub, Lock, Quiet
<1>4. ASSUME NEW w \in SubWorkers, StoreSubscribers(w) PROVE Quiet
  BY <1>4 DEF StoreSubscribers, Quiet
<1>5. ASSUME NEW w \in SubWorkers, TestSize(w) PROVE Quiet
  BY <1>5 DEF TestSize, Quiet
<1>6. ASSUME NEW w \in SubWorkers, SpuriousWakeup(w) PROVE Quiet
  BY <1>6 DEF SpuriousWakeup, Quiet
<1>7. ASSUME NEW w \in SubWorkers, SubscriberGone(w) PROVE Quiet
  BY <1>7 DEF SubscriberGone, Quiet
<1>8. ASSUME NEW w \in SubWorkers, LeaveSub(w) PROVE Quiet
  BY <1>8 DEF LeaveSub, Lock, Quiet
<1>9. ASSUME NEW w \in SubWorkers, DecrementSubscribers(w) PROVE Quiet
  BY <1>9 DEF DecrementSubscribers, Quiet
<1>10. ASSUME NEW w \in ManWorkers, ListBoxes(w) PROVE Quiet
  BY <1>10 DEF ListBoxes, Quiet
<1>11. ASSUME NEW w \in ManWorkers, ListEntry(w) PROVE Quiet
  BY <1>11 DEF ListEntry, Quiet
<1>12. ASSUME NEW w \in SubWorkers, NEW n \in Names, RegisterSub(w, n)
      PROVE  Quiet \/ \E b \in Listed : Joined(w, b)
  BY <1>12 DEF RegisterSub, Quiet, Joined
<1>13. ASSUME NEW w \in ManWorkers, NEW n \in Names, CreateBox(w, n) PROVE Quiet \/ Added(n)
  BY <1>13 DEF CreateBox, Quiet, Added
<1>14. ASSUME NEW w \in RemWorkers, NEW n \in Names, RemoveBox(w, n)
      PROVE  \/ Quiet
             \/ \E b \in Listed : Removed(b) /\ UNCHANGED sent /\ UNCHANGED sent
             \/ Stop("panicked") /\ UNCHANGED sent
  <2>1. Refused \/ (\E b \in Find(n) : Removed(b)) \/ Stop("panicked")
    BY <1>14, RemoveBoxOutcomes
  <2>2. UNCHANGED sent
    BY <1>14 DEF RemoveBox
  <2>3. CASE Refused
    BY <2>2, <2>3 DEF Refused, Quiet
  <2>4. QED
    BY <2>1, <2>2, <2>3
<1>15. ASSUME Interrupt PROVE Stop("exited") /\ UNCHANGED sent
  BY <1>15 DEF Interrupt
<1>16. ASSUME Restart PROVE Quiet
  BY <1>16 DEF Restart, Quiet
<1>17. ASSUME UNCHANGED vars PROVE Quiet
  BY <1>17 DEF vars, Quiet
<1>18. QED
  BY <1>1, <1>2, <1>3, <1>4, <1>5, <1>6, <1>7, <1>8, <1>9, <1>10, <1>11, <1>12, <1>13,
     <1>14, <1>15, <1>16, <1>17
     DEF Next, ServePub, ServeSub, Outcome

(***************************************************************************)
(* What is in the logs: messages of their own.                             *)
(***************************************************************************)

(* A message is logged once at most, and before that one worker has it.    *)
UniqueInv ==
  /\ \A m \in Log!Logged : m <= sent
  /\ \A w \in Workers : pc[w] = "pub_count" => msg[w] <= sent /\ msg[w] \notin Log!Logged
  /\ \A v, w \in Workers :
       pc[v] = "pub_count" /\ pc[w] = "pub_count" /\ msg[v] = msg[w] => v = w

(* What the proofs below use of the invariants of the sessions.            *)
LogFacts ==
  /\ PubWorkers \subseteq Workers /\ SubWorkers \subseteq Workers
  /\ NoBox \notin Boxes /\ Listed \subseteq Boxes
  /\ pc \in [Workers -> Labels] /\ box \in [Workers -> Boxes \cup {NoBox}]
  /\ \A w \in Workers : pc[w] \in PubLabels \cup SubLabels => box[w] \in Listed
  /\ \A v, w \in Workers :
       pc[v] \in PublisherAt /\ pc[w] \in PublisherAt /\ box[v] = box[w] => v = w
  /\ \A w \in Workers : pc[w] \in PublisherAt => publishers[box[w]] # 0
  /\ \A b \in Listed : b <= created /\ b \in Nat
  /\ created \in Nat
  /\ msg \in [Workers -> Messages \cup {0}] /\ sent \in Nat
  /\ \A w \in Workers : pc[w] = "pub_count" => msg[w] \in Messages
  /\ log \in [Boxes -> Seq(Messages)] /\ damagedAt \in [Boxes -> Nat \cup {Never}]
  /\ \A b \in Boxes : Len(log[b]) \in Nat /\ DOMAIN log[b] = 1..Len(log[b])
  /\ \A b \in Boxes : \A i \in DOMAIN log[b] : log[b][i] \in Messages
  /\ Messages \subseteq Nat
  /\ size \in [Boxes -> Nat] /\ fd \in [Workers -> Nat]
  /\ fdInternalW \in [Boxes -> Nat]
  /\ file \in [Boxes -> Seq(Messages \X {1, 2})]
  /\ \A b \in Boxes : fdInternalW[b] <= Len(file[b])
  /\ \A b \in Boxes : b > created => fdInternalW[b] = 0 /\ size[b] = 0

LEMMA LogFactsHold == BaseInv /\ PubInv /\ CountedInv /\ Pinned => LogFacts
<1> SUFFICES ASSUME BaseInv, PubInv, CountedInv, Pinned PROVE LogFacts
  OBVIOUS
<1>1. SessionFacts /\ ListInv /\ CountType /\ FileInv /\ MessageInv /\ BoundsType
  BY BaseFacts DEF BaseInv
<1>2. /\ Messages \subseteq Nat
      /\ Boxes \subseteq Nat
      /\ MaxMessages \in Nat
      /\ MaxBoxes \in Nat
  BY BoxAssumption DEF Messages, Boxes
<1>3. \A w \in Workers : pc[w] \in PubLabels \cup SubLabels => box[w] \in Listed
  BY DEF PubInv, Pinned
<1>4. \A v, w \in Workers :
        pc[v] \in PublisherAt /\ pc[w] \in PublisherAt /\ box[v] = box[w] => v = w
  BY DEF PubInv
<1>11. \A w \in Workers : pc[w] \in PublisherAt => publishers[box[w]] # 0
  BY DEF PubInv
<1>5. /\ log \in [Boxes -> Seq(Messages)] /\ damagedAt \in [Boxes -> Nat \cup {Never}]
      /\ msg \in [Workers -> Messages \cup {0}]
      /\ \A w \in Workers : pc[w] = "pub_count" => msg[w] \in Messages
  BY <1>1 DEF MessageInv
<1>6. \A b \in Boxes : /\ Len(log[b]) \in Nat /\ DOMAIN log[b] = 1..Len(log[b])
                       /\ \A i \in DOMAIN log[b] : log[b][i] \in Messages
  BY <1>5, LenProperties, ElementOfSeq
<1>7. sent \in Nat /\ created \in Nat
  BY <1>1, <1>2 DEF BoundsType, ListInv
<1>8. /\ PubWorkers \subseteq Workers /\ SubWorkers \subseteq Workers
      /\ NoBox \notin Boxes /\ Listed \subseteq Boxes
      /\ pc \in [Workers -> Labels] /\ box \in [Workers -> Boxes \cup {NoBox}]
      /\ \A b \in Listed : b <= created
  BY <1>1 DEF SessionFacts
<1>9. /\ size \in [Boxes -> Nat] /\ fd \in [Workers -> Nat]
      /\ fdInternalW \in [Boxes -> Nat]
      /\ file \in [Boxes -> Seq(Messages \X {1, 2})]
      /\ \A b \in Boxes : fdInternalW[b] <= Len(file[b])
      /\ \A b \in Boxes : b > created => fdInternalW[b] = 0 /\ size[b] = 0
  BY <1>1 DEF FileInv, CountType, CountedInv
<1>10. QED
  BY <1>2, <1>3, <1>4, <1>5, <1>6, <1>7, <1>8, <1>9, <1>11 DEF LogFacts

(* Counting a message logs it after the others of its box, and nothing     *)
(* else.                                                                   *)
LEMMA Counted ==
  ASSUME LogFacts, NEW w \in PubWorkers, CountMessage(w)
  PROVE  LET b == box[w] IN
         /\ pc[w] = "pub_count" /\ b \in Listed /\ b \in Boxes
         /\ log' = [log EXCEPT ![b] = log'[b]]
         /\ Len(log'[b]) = Len(log[b]) + 1
         /\ DOMAIN log'[b] = 1..(Len(log[b]) + 1)
         /\ \A i \in DOMAIN log[b] : log'[b][i] = log[b][i]
         /\ log'[b][Len(log[b]) + 1] = msg[w]
         /\ Log!Logged' = Log!Logged \cup {msg[w]}
         /\ size' = [size EXCEPT ![b] = size[b] + PacketSize]
         /\ \A v \in Workers : pc'[v] = "pub_count" <=> pc[v] = "pub_count" /\ v # w
         /\ \A v \in Workers : pc'[v] \in SubLabels <=> pc[v] \in SubLabels
         /\ UNCHANGED <<damagedAt, delivered, fdInternalW, file, msgBoxes, created,
                        msg, fd, sent, box>>
<1> DEFINE b == box[w]
<1>1. pc[w] = "pub_count" /\ b \in Listed /\ b \in Boxes /\ msg[w] \in Messages
  BY DEF CountMessage, LogFacts, PubLabels, PublisherAt
<1>2. log[b] \in Seq(Messages) /\ Len(log[b]) \in Nat /\ DOMAIN log[b] = 1..Len(log[b])
  BY <1>1 DEF LogFacts
<1>3. log' = [log EXCEPT ![b] = Append(log[b], msg[w])]
  BY DEF CountMessage
<1>4. log'[b] = Append(log[b], msg[w])
  BY <1>1, <1>3 DEF LogFacts
<1>5. /\ Len(log'[b]) = Len(log[b]) + 1
      /\ DOMAIN log'[b] = 1..(Len(log[b]) + 1)
      /\ \A i \in DOMAIN log[b] : log'[b][i] = log[b][i]
      /\ log'[b][Len(log[b]) + 1] = msg[w]
  BY <1>1, <1>2, <1>4, AppendProperties
<1>6. \A c \in Boxes : c # b => log'[c] = log[c]
  BY <1>3 DEF LogFacts
<1>7. Log!Logged' = Log!Logged \cup {msg[w]}
  <2>1. ASSUME NEW m \in Log!Logged' PROVE m \in Log!Logged \cup {msg[w]}
    <3>1. PICK c \in Boxes : \E i \in DOMAIN log'[c] : m = log'[c][i]
      BY DEF Log!Logged
    <3>2. CASE c = b
      BY <1>1, <1>2, <1>5, <3>1, <3>2 DEF Log!Logged
    <3>3. CASE c # b
      BY <1>6, <3>1, <3>3 DEF Log!Logged
    <3>4. QED
      BY <3>2, <3>3
  <2>2. ASSUME NEW m \in Log!Logged PROVE m \in Log!Logged'
    <3>1. PICK c \in Boxes : \E i \in DOMAIN log[c] : m = log[c][i]
      BY DEF Log!Logged
    <3>2. CASE c = b
      BY <1>1, <1>2, <1>5, <3>1, <3>2 DEF Log!Logged
    <3>3. CASE c # b
      BY <1>6, <3>1, <3>3 DEF Log!Logged
    <3>4. QED
      BY <3>2, <3>3
  <2>3. msg[w] \in Log!Logged'
    BY <1>1, <1>2, <1>5 DEF Log!Logged
  <2>4. QED
    BY <2>1, <2>2, <2>3
<1>8. pc' = [v \in Workers |-> IF v = w THEN "pub_read"
                              ELSE IF pc[v] = "sub_wait" /\ box[v] = b THEN "sub_test"
                              ELSE pc[v]]
  BY DEF CountMessage, Broadcast
<1>9. /\ \A v \in Workers : pc'[v] = "pub_count" <=> pc[v] = "pub_count" /\ v # w
      /\ \A v \in Workers : pc'[v] \in SubLabels <=> pc[v] \in SubLabels
  BY <1>1, <1>8 DEF SubLabels, SubscriberAt
<1>10. /\ size' = [size EXCEPT ![b] = size[b] + PacketSize]
       /\ UNCHANGED <<damagedAt, delivered, fdInternalW, file, msgBoxes, created,
                      msg, fd, sent, box>>
  BY DEF CountMessage, storage, sessions, bounds
<1>11. log' = [log EXCEPT ![b] = log'[b]]
  BY <1>3, <1>4
<1>12. QED
  BY <1>1, <1>5, <1>7, <1>9, <1>10, <1>11

LEMMA LoggedSame == UNCHANGED log => Log!Logged' = Log!Logged
  BY DEF Log!Logged

LEMMA UniqueStep == LogFacts /\ UniqueInv /\ Outcome => UniqueInv'
<1> SUFFICES ASSUME LogFacts, UniqueInv, Outcome PROVE UniqueInv'
  OBVIOUS
<1>a. /\ Log!Logged' = Log!Logged \/ ~UNCHANGED log
      /\ \A w \in Workers : pc[w] = "pub_count" => msg[w] \in Nat
      /\ Log!Logged \subseteq Nat /\ sent \in Nat
      /\ PubWorkers \subseteq Workers /\ SubWorkers \subseteq Workers
      /\ pc \in [Workers -> Labels] /\ msg \in [Workers -> Messages \cup {0}]
  <2>1. ASSUME NEW m \in Log!Logged PROVE m \in Nat
    <3>1. PICK b \in Boxes : \E i \in DOMAIN log[b] : m = log[b][i]
      BY DEF Log!Logged
    <3>2. QED
      BY <3>1 DEF LogFacts
  <2>2. Log!Logged' = Log!Logged \/ ~UNCHANGED log
    BY LoggedSame
  <2>3. QED
    BY <2>1, <2>2 DEF LogFacts
<1>frame. ASSUME UNCHANGED <<log, sent>>,
                 \A v \in Workers :
                   pc'[v] = "pub_count" => pc[v] = "pub_count" /\ msg'[v] = msg[v]
          PROVE  UniqueInv'
  BY <1>a, <1>frame DEF UniqueInv
<1>sent. ASSUME UNCHANGED log, sent' = sent + 1, NEW w \in PubWorkers,
                 \A v \in Workers :
                   v # w /\ pc'[v] = "pub_count" => pc[v] = "pub_count" /\ msg'[v] = msg[v],
                 pc'[w] = "pub_count" => msg'[w] = sent + 1
          PROVE  UniqueInv'
  <2>1. sent + 1 \notin Log!Logged
    BY <1>a DEF UniqueInv
  <2>2. \A v \in Workers :
          v # w /\ pc'[v] = "pub_count" => msg'[v] <= sent /\ msg'[v] \in Nat /\ msg'[v] # sent + 1
    BY <1>a, <1>sent DEF UniqueInv
  <2>3. \A m \in Log!Logged' : m <= sent'
    <3> SUFFICES ASSUME NEW m \in Log!Logged PROVE m <= sent + 1
      BY <1>a, <1>sent
    <3>1. m \in Nat /\ m <= sent
      BY <1>a DEF UniqueInv
    <3>2. QED
      BY <1>a, <3>1
  <2>4. \A v \in Workers :
          pc'[v] = "pub_count" => msg'[v] <= sent' /\ msg'[v] \notin Log!Logged'
    BY <1>a, <1>sent, <2>1, <2>2 DEF UniqueInv
  <2>5. \A u, v \in Workers :
          pc'[u] = "pub_count" /\ pc'[v] = "pub_count" /\ msg'[u] = msg'[v] => u = v
    BY <1>a, <1>sent, <2>2 DEF UniqueInv
  <2>6. QED
    BY <2>3, <2>4, <2>5 DEF UniqueInv
<1> USE <1>a
<1>1. CASE Quiet
  BY <1>frame, <1>1 DEF Quiet
<1>2. ASSUME NEW w \in PubWorkers, WriteMessage(w) PROVE UniqueInv'
  BY <1>sent, <1>2 DEF WriteMessage, GoTo, history
<1>3. ASSUME NEW w \in PubWorkers, ShortWrite(w) PROVE UniqueInv'
  BY <1>sent, <1>3 DEF ShortWrite, GoTo, sessions
<1>4. ASSUME NEW w \in PubWorkers, CountMessage(w) PROVE UniqueInv'
  <2>1. /\ pc[w] = "pub_count"
        /\ Log!Logged' = Log!Logged \cup {msg[w]}
        /\ UNCHANGED <<msg, sent>>
        /\ \A v \in Workers : pc'[v] = "pub_count" <=> pc[v] = "pub_count" /\ v # w
    BY <1>4, Counted
  <2>2. QED
    BY <2>1 DEF UniqueInv
<1>5. ASSUME NEW w \in SubWorkers, Forward(w) PROVE UniqueInv'
  BY <1>frame, <1>5 DEF Forward, GoTo, bounds
<1>6. ASSUME NEW w \in SubWorkers, NEW b \in Listed, Joined(w, b) PROVE UniqueInv'
  BY <1>frame, <1>6 DEF Joined
<1>7. ASSUME NEW w \in Workers, Unlock(w) PROVE UniqueInv'
  BY <1>frame, <1>7 DEF Unlock, GoTo, bounds
<1>8. ASSUME NEW n \in Names, Added(n) PROVE UniqueInv'
  BY <1>frame, <1>8 DEF Added
<1>9. ASSUME NEW b \in Listed, Removed(b), UNCHANGED sent PROVE UniqueInv'
  BY <1>frame, <1>9 DEF Removed, sessions, history
<1>10. ASSUME NEW how \in {"exited", "panicked"}, Stop(how), UNCHANGED sent PROVE UniqueInv'
  BY <1>frame, <1>10 DEF Stop
<1>11. QED
  BY <1>1, <1>2, <1>3, <1>4, <1>5, <1>6, <1>7, <1>8, <1>9, <1>10 DEF Outcome

(***************************************************************************)
(* Where the logs are: size, and the offset publishers write at.           *)
(***************************************************************************)

(* size counts the log, and the publishers' descriptor is where the log    *)
(* ends, as long as no write to the box was cut short.                     *)
OffsetInv ==
  /\ \A b \in Boxes : size[b] = PacketSize * Len(log[b])
  /\ \A b \in Boxes : b > created => damagedAt[b] = Never
  /\ \A b \in Boxes : damagedAt[b] <= Len(log[b])
  /\ \A b \in Listed : damagedAt[b] # Never => fdInternalW[b] >= PacketSize * damagedAt[b]
  /\ \A b \in Listed :
       damagedAt[b] = Never /\ (\A w \in Workers : pc[w] = "pub_count" => box[w] # b)
         => fdInternalW[b] = PacketSize * Len(log[b])
  /\ \A w \in Workers :
       pc[w] = "pub_count" /\ damagedAt[box[w]] = Never
         => fdInternalW[box[w]] = PacketSize * Len(log[box[w]]) + PacketSize

(* A write changes the file from the descriptor's offset on.               *)
LEMMA Written ==
  ASSUME LogFacts, NEW b \in Listed,
         NEW halves \in Seq(Messages \X {1, 2}), WriteFile(b, halves)
  PROVE  /\ fdInternalW' = [fdInternalW EXCEPT ![b] = fdInternalW[b] + Len(halves)]
         /\ \A c \in Boxes : c # b => file'[c] = file[c]
         /\ \A j \in 1..fdInternalW[b] : file'[b][j] = file[b][j]
         /\ \A j \in 1..Len(halves) : file'[b][fdInternalW[b] + j] = halves[j]
<1> DEFINE at == fdInternalW[b]
           new == SubSeq(file[b], 1, at) \o halves
                      \o SubSeq(file[b], at + Len(halves) + 1, Len(file[b]))
<1>1. b \in Boxes /\ file[b] \in Seq(Messages \X {1, 2}) /\ Len(file[b]) \in Nat
  BY LenProperties DEF LogFacts
<1>2. at \in 0..Len(file[b])
  BY <1>1 DEF LogFacts
<1>3. /\ \A j \in 1..at : new[j] = file[b][j]
      /\ \A j \in 1..Len(halves) : new[at + j] = halves[j]
  BY <1>1, <1>2, Overwritten
<1>4. /\ file' = [file EXCEPT ![b] = new]
      /\ fdInternalW' = [fdInternalW EXCEPT ![b] = fdInternalW[b] + Len(halves)]
  BY DEF WriteFile
<1> HIDE DEF new
<1>5. file'[b] = new /\ \A c \in Boxes : c # b => file'[c] = file[c]
  BY <1>1, <1>4 DEF LogFacts
<1>6. QED
  BY <1>3, <1>4, <1>5

(* A message is written whole, and then counted.                           *)
LEMMA WholeWrite ==
  ASSUME LogFacts, NEW w \in PubWorkers, WriteMessage(w)
  PROVE  LET b == box[w]
             at == fdInternalW[b]
         IN  /\ pc[w] = "pub_read" /\ b \in Listed /\ w \in Workers
             /\ fdInternalW' = [fdInternalW EXCEPT ![b] = at + PacketSize]
             /\ \A c \in Boxes : c # b => file'[c] = file[c]
             /\ \A j \in 1..at : file'[b][j] = file[b][j]
             /\ file'[b][at + 1] = <<sent + 1, 1>> /\ file'[b][at + 2] = <<sent + 1, 2>>
             /\ pc' = [pc EXCEPT ![w] = "pub_count"]
             /\ msg' = [msg EXCEPT ![w] = sent + 1]
             /\ UNCHANGED <<log, damagedAt, delivered, size, msgBoxes, created, fd, box>>
<1>1. /\ pc[w] = "pub_read" /\ box[w] \in Listed /\ w \in Workers
      /\ pc' = [pc EXCEPT ![w] = "pub_count"]
      /\ msg' = [msg EXCEPT ![w] = sent + 1]
      /\ UNCHANGED <<log, damagedAt, delivered, size, msgBoxes, created, fd, box>>
  BY DEF WriteMessage, GoTo, heap, history, LogFacts, PubLabels, PublisherAt
<1>2. WriteFile(box[w], Halves(sent + 1)) /\ sent + 1 \in Messages
  BY BoxAssumption DEF WriteMessage, LogFacts, Messages
<1>3. /\ Halves(sent + 1) \in Seq(Messages \X {1, 2}) /\ Len(Halves(sent + 1)) = 2
      /\ Halves(sent + 1)[1] = <<sent + 1, 1>> /\ Halves(sent + 1)[2] = <<sent + 1, 2>>
  BY <1>2 DEF Halves
<1>4. /\ fdInternalW' = [fdInternalW EXCEPT ![box[w]] = fdInternalW[box[w]] + 2]
      /\ \A c \in Boxes : c # box[w] => file'[c] = file[c]
      /\ \A j \in 1..fdInternalW[box[w]] : file'[box[w]][j] = file[box[w]][j]
      /\ \A j \in 1..2 : file'[box[w]][fdInternalW[box[w]] + j] = Halves(sent + 1)[j]
  <2> DEFINE b == box[w]
             halves == Halves(sent + 1)
  <2>1. /\ b \in Listed
        /\ halves \in Seq(Messages \X {1, 2})
        /\ WriteFile(b, halves)
        /\ Len(halves) = 2
    BY <1>1, <1>2, <1>3
  <2> HIDE DEF b, halves
  <2>2. /\ fdInternalW' = [fdInternalW EXCEPT ![b] = fdInternalW[b] + Len(halves)]
        /\ \A c \in Boxes : c # b => file'[c] = file[c]
        /\ \A j \in 1..fdInternalW[b] : file'[b][j] = file[b][j]
        /\ \A j \in 1..Len(halves) : file'[b][fdInternalW[b] + j] = halves[j]
    BY <2>1, Written
  <2>3. QED
    BY <2>1, <2>2 DEF b, halves
<1>5. /\ file'[box[w]][fdInternalW[box[w]] + 1] = <<sent + 1, 1>>
      /\ file'[box[w]][fdInternalW[box[w]] + 2] = <<sent + 1, 2>>
  BY <1>3, <1>4
<1>6. QED
  BY <1>1, <1>4, <1>5 DEF PacketSize

(* A write cut short leaves less than a packet, if anything.               *)
LEMMA PartialWrite ==
  ASSUME LogFacts, NEW w \in PubWorkers, ShortWrite(w)
  PROVE  LET b == box[w]
             at == fdInternalW[b]
         IN  /\ pc[w] = "pub_read" /\ b \in Listed /\ w \in Workers
             /\ \E k \in {0, 1} :
                  /\ fdInternalW' = [fdInternalW EXCEPT ![b] = at + k]
                  /\ damagedAt' = IF k = 1 /\ damagedAt[b] = Never
                                  THEN [damagedAt EXCEPT ![b] = Len(log[b])] ELSE damagedAt
             /\ \A c \in Boxes : c # b => file'[c] = file[c]
             /\ \A j \in 1..at : file'[b][j] = file[b][j]
             /\ pc' = [pc EXCEPT ![w] = "pub_leave"]
             /\ UNCHANGED <<log, delivered, size, msgBoxes, created, msg, fd, box>>
<1> DEFINE b == box[w]
<1>1. /\ pc[w] = "pub_read" /\ b \in Listed /\ w \in Workers /\ b \in Boxes
      /\ pc' = [pc EXCEPT ![w] = "pub_leave"]
      /\ UNCHANGED <<log, delivered, size, msgBoxes, created, msg, fd, box>>
  BY DEF ShortWrite, GoTo, heap, sessions, LogFacts, PubLabels, PublisherAt
<1>2. PICK k \in 0..(PacketSize - 1) :
        /\ WriteFile(b, SubSeq(Halves(sent + 1), 1, k))
        /\ damagedAt' = [damagedAt EXCEPT ![b] =
                           IF k > 0 /\ damagedAt[b] = Never THEN Len(log[b]) ELSE damagedAt[b]]
  BY DEF ShortWrite
<1>3. sent + 1 \in Messages
  BY BoxAssumption DEF ShortWrite, LogFacts, Messages
<1>4. k \in {0, 1} /\ (k > 0 <=> k = 1)
  BY <1>2 DEF PacketSize
<1>5. /\ SubSeq(Halves(sent + 1), 1, k) \in Seq(Messages \X {1, 2})
      /\ Len(SubSeq(Halves(sent + 1), 1, k)) = k
  <2>1. Halves(sent + 1) \in Seq(Messages \X {1, 2}) /\ Len(Halves(sent + 1)) = 2
    BY <1>3 DEF Halves
  <2>2. \A j \in 1..k : Halves(sent + 1)[j] \in Messages \X {1, 2}
    BY <1>4, <2>1, ElementOfSeq
  <2>3. QED
    BY <1>4, <2>1, <2>2, SubSeqProperties
<1>6. /\ fdInternalW' = [fdInternalW EXCEPT ![b] = fdInternalW[b] + k]
      /\ \A c \in Boxes : c # b => file'[c] = file[c]
      /\ \A j \in 1..fdInternalW[b] : file'[b][j] = file[b][j]
  <2> DEFINE halves == SubSeq(Halves(sent + 1), 1, k)
  <2>1. /\ b \in Listed /\ halves \in Seq(Messages \X {1, 2}) /\ WriteFile(b, halves)
        /\ Len(halves) = k
    BY <1>1, <1>2, <1>5
  <2> HIDE DEF b, halves
  <2>2. /\ fdInternalW' = [fdInternalW EXCEPT ![b] = fdInternalW[b] + Len(halves)]
        /\ \A c \in Boxes : c # b => file'[c] = file[c]
        /\ \A j \in 1..fdInternalW[b] : file'[b][j] = file[b][j]
    BY <2>1, Written
  <2>3. QED
    BY <2>1, <2>2
<1>7. damagedAt' = IF k = 1 /\ damagedAt[b] = Never
                   THEN [damagedAt EXCEPT ![b] = Len(log[b])] ELSE damagedAt
  BY <1>1, <1>2, <1>4 DEF LogFacts
<1>8. QED
  BY <1>1, <1>4, <1>6, <1>7

LEMMA OffsetStep == ListInv /\ LogFacts /\ OffsetInv /\ Outcome => OffsetInv'
<1> SUFFICES ASSUME ListInv, LogFacts, OffsetInv, Outcome PROVE OffsetInv'
  OBVIOUS
<1>a. /\ Listed' = Listed \/ ~UNCHANGED msgBoxes
      /\ PubWorkers \subseteq Workers /\ SubWorkers \subseteq Workers
      /\ pc \in [Workers -> Labels] /\ box \in [Workers -> Boxes \cup {NoBox}]
      /\ fdInternalW \in [Boxes -> Nat]
      /\ size \in [Boxes -> Nat]
      /\ log \in [Boxes -> Seq(Messages)]
      /\ damagedAt \in [Boxes -> Nat \cup {Never}]
      /\ \A b \in Listed : b \in Boxes /\ b \in Nat /\ b <= created
      /\ created \in Nat
  BY ListedSame DEF LogFacts
<1>b. \A b \in Boxes : /\ Len(log[b]) \in Nat /\ size[b] = PacketSize * Len(log[b])
                       /\ damagedAt[b] <= Len(log[b])
                       /\ b > created => damagedAt[b] = Never
  BY DEF LogFacts, OffsetInv
<1>c. \A v, w \in Workers :
        pc[v] \in PublisherAt /\ pc[w] \in PublisherAt /\ box[v] = box[w] => v = w
  BY DEF LogFacts
<1>d. \A w \in Workers : pc[w] = "pub_count" => box[w] \in Listed
  BY DEF LogFacts, PubLabels, PublisherAt
<1>frame. ASSUME UNCHANGED <<log, damagedAt, size>>,
                 \A b \in Boxes : b > created' => damagedAt[b] = Never,
                 \A b \in Listed' : b \in Listed /\ fdInternalW'[b] = fdInternalW[b],
                 \A w \in Workers : pc'[w] = "pub_count" => box'[w] \in Listed',
                 \A v \in Workers : /\ pc'[v] = "pub_count" <=> pc[v] = "pub_count"
                                    /\ pc[v] = "pub_count" => box'[v] = box[v]
          PROVE  OffsetInv'
  BY <1>frame DEF OffsetInv
<1> USE <1>a
<1>1. CASE Quiet
  BY <1>b, <1>d, <1>frame, <1>1 DEF Quiet
<1>2. ASSUME NEW w \in PubWorkers, WriteMessage(w) PROVE OffsetInv'
  <2> DEFINE b == box[w]
  <2>1. /\ pc[w] = "pub_read" /\ b \in Listed /\ w \in Workers
        /\ fdInternalW' = [fdInternalW EXCEPT ![b] = fdInternalW[b] + PacketSize]
        /\ pc' = [pc EXCEPT ![w] = "pub_count"]
        /\ UNCHANGED <<log, damagedAt, size, msgBoxes, created, box>>
    BY <1>2, WholeWrite
  <2>2. \A v \in Workers : pc[v] = "pub_count" => box[v] # b
    BY <1>c, <2>1 DEF PublisherAt
  <2>3. damagedAt[b] = Never => fdInternalW[b] = PacketSize * Len(log[b])
    BY <2>1, <2>2 DEF OffsetInv
  <2>4. /\ fdInternalW'[b] = fdInternalW[b] + PacketSize
        /\ \A c \in Boxes : c # b => fdInternalW'[c] = fdInternalW[c]
    BY <2>1
  <2>5. /\ pc'[w] = "pub_count"
        /\ \A v \in Workers : v # w => pc'[v] = pc[v]
    BY <2>1
  <2> HIDE DEF b
  <2>6. \A c \in Listed :
          damagedAt[c] # Never => fdInternalW'[c] >= PacketSize * damagedAt[c]
    <3>1. damagedAt[b] # Never => fdInternalW'[b] >= PacketSize * damagedAt[b]
      <4>1. damagedAt[b] # Never =>
              damagedAt[b] \in Nat /\ fdInternalW[b] >= PacketSize * damagedAt[b]
        BY <2>1 DEF OffsetInv
      <4>2. fdInternalW[b] \in Nat
        BY <2>1
      <4>3. QED
        BY <2>4, <4>1, <4>2 DEF PacketSize
    <3>2. QED
      BY <2>4, <3>1 DEF OffsetInv
  <2>7. \A c \in Listed :
          damagedAt[c] = Never /\ (\A v \in Workers : pc'[v] = "pub_count" => box[v] # c)
            => fdInternalW'[c] = PacketSize * Len(log[c])
    <3> SUFFICES ASSUME NEW c \in Listed, damagedAt[c] = Never,
                        \A v \in Workers : pc'[v] = "pub_count" => box[v] # c
                 PROVE  fdInternalW'[c] = PacketSize * Len(log[c])
      OBVIOUS
    <3>1. c # b
      BY <2>1, <2>5 DEF b
    <3>2. \A v \in Workers : pc[v] = "pub_count" => box[v] # c
      BY <2>1, <2>5, <3>1 DEF b
    <3>3. QED
      BY <2>4, <3>1, <3>2 DEF OffsetInv
  <2>8. \A v \in Workers : pc'[v] = "pub_count" /\ damagedAt[box[v]] = Never
            => fdInternalW'[box[v]] = PacketSize * Len(log[box[v]]) + PacketSize
    BY <1>d, <2>1, <2>2, <2>3, <2>4, <2>5 DEF OffsetInv, b
  <2>9. QED
    BY <1>b, <2>1, <2>6, <2>7, <2>8 DEF OffsetInv
<1>3. ASSUME NEW w \in PubWorkers, ShortWrite(w) PROVE OffsetInv'
  <2> DEFINE b == box[w]
  <2>1. /\ pc[w] = "pub_read" /\ b \in Listed /\ w \in Workers
        /\ pc' = [pc EXCEPT ![w] = "pub_leave"]
        /\ UNCHANGED <<log, size, msgBoxes, created, box>>
    BY <1>3, PartialWrite
  <2>2. PICK k \in {0, 1} :
          /\ fdInternalW' = [fdInternalW EXCEPT ![b] = fdInternalW[b] + k]
          /\ damagedAt' = IF k = 1 /\ damagedAt[b] = Never
                          THEN [damagedAt EXCEPT ![b] = Len(log[b])] ELSE damagedAt
    BY <1>3, PartialWrite
  <2> HIDE DEF b
  <2>3. \A v \in Workers : pc[v] = "pub_count" => box[v] # b
    BY <1>c, <2>1 DEF PublisherAt, b
  <2>4. damagedAt[b] = Never => fdInternalW[b] = PacketSize * Len(log[b])
    BY <2>1, <2>3 DEF OffsetInv
  <2>5. /\ fdInternalW'[b] = fdInternalW[b] + k
        /\ \A c \in Boxes :
             c # b => fdInternalW'[c] = fdInternalW[c] /\ damagedAt'[c] = damagedAt[c]
        /\ damagedAt'[b] = IF k = 1 /\ damagedAt[b] = Never THEN Len(log[b]) ELSE damagedAt[b]
        /\ b \in Boxes /\ fdInternalW[b] \in Nat /\ Len(log[b]) \in Nat
        /\ damagedAt[b] # Never =>
             damagedAt[b] \in Nat /\ fdInternalW[b] >= PacketSize * damagedAt[b]
    BY <1>b, <2>1, <2>2 DEF OffsetInv
  <2>6. \A v \in Workers : pc'[v] = "pub_count" <=> pc[v] = "pub_count"
    BY <2>1
  <2>7. /\ damagedAt'[b] # Never => fdInternalW'[b] >= PacketSize * damagedAt'[b]
        /\ damagedAt'[b] = Never => fdInternalW'[b] = PacketSize * Len(log[b])
        /\ damagedAt'[b] <= Len(log[b])
    BY <1>b, <2>2, <2>4, <2>5 DEF PacketSize, Never
  <2>8. \A c \in Boxes : c > created => damagedAt'[c] = Never
    <3>1. ~(b > created)
      BY <2>1
    <3>2. QED
      BY <1>b, <2>5, <3>1
  <2>9. \A c \in Listed :
          damagedAt'[c] # Never => fdInternalW'[c] >= PacketSize * damagedAt'[c]
    BY <2>5, <2>7 DEF OffsetInv
  <2>10. \A c \in Listed :
          damagedAt'[c] = Never /\ (\A v \in Workers : pc'[v] = "pub_count" => box[v] # c)
            => fdInternalW'[c] = PacketSize * Len(log[c])
    BY <2>5, <2>6, <2>7 DEF OffsetInv
  <2>11. \A v \in Workers : pc'[v] = "pub_count" /\ damagedAt'[box[v]] = Never
            => fdInternalW'[box[v]] = PacketSize * Len(log[box[v]]) + PacketSize
    BY <1>d, <2>3, <2>5, <2>6 DEF OffsetInv
  <2>12. \A c \in Boxes : damagedAt'[c] <= Len(log[c]) /\ size[c] = PacketSize * Len(log[c])
    BY <1>b, <2>5, <2>7
  <2>13. QED
    BY <2>1, <2>8, <2>9, <2>10, <2>11, <2>12 DEF OffsetInv
<1>4. ASSUME NEW w \in PubWorkers, CountMessage(w) PROVE OffsetInv'
  <2> DEFINE b == box[w]
  <2>1. /\ pc[w] = "pub_count" /\ b \in Listed /\ b \in Boxes
        /\ log' = [log EXCEPT ![b] = log'[b]]
        /\ Len(log'[b]) = Len(log[b]) + 1
        /\ size' = [size EXCEPT ![b] = size[b] + PacketSize]
        /\ \A v \in Workers : pc'[v] = "pub_count" <=> pc[v] = "pub_count" /\ v # w
        /\ UNCHANGED <<damagedAt, fdInternalW, msgBoxes, created, box>>
    BY <1>4, Counted
  <2>2. \A v \in Workers : pc'[v] = "pub_count" => box[v] # b /\ box[v] \in Boxes
    BY <1>c, <1>d, <2>1 DEF PublisherAt
  <2>3. damagedAt[b] = Never => fdInternalW[b] = PacketSize * Len(log[b]) + PacketSize
    BY <2>1 DEF OffsetInv
  <2>4. w \in Workers /\ b = box[w]
    OBVIOUS
  <2> HIDE DEF b
  <2>5. \A c \in Boxes : c # b => log'[c] = log[c] /\ size'[c] = size[c]
    BY <2>1
  <2>6. size'[b] = PacketSize * Len(log'[b]) /\ damagedAt[b] <= Len(log'[b])
    <3>1. size'[b] = size[b] + PacketSize /\ size[b] = PacketSize * Len(log[b])
      BY <1>b, <2>1
    <3>2. Len(log[b]) \in Nat /\ damagedAt[b] \in Int /\ damagedAt[b] <= Len(log[b])
      BY <1>b, <2>1 DEF Never
    <3>3. Len(log'[b]) = Len(log[b]) + 1
      BY <2>1
    <3>4. QED
      BY ONLY <3>1, <3>2, <3>3 DEF PacketSize
  <2>7. damagedAt[b] = Never => fdInternalW[b] = PacketSize * Len(log'[b])
    BY <1>b, <2>1, <2>3 DEF PacketSize
  <2>8. \A c \in Listed :
          damagedAt[c] = Never /\ (\A v \in Workers : pc'[v] = "pub_count" => box[v] # c)
            => fdInternalW[c] = PacketSize * Len(log'[c])
    BY <2>1, <2>4, <2>5, <2>7 DEF OffsetInv
  <2>9. \A v \in Workers : pc'[v] = "pub_count" /\ damagedAt[box[v]] = Never
            => fdInternalW[box[v]] = PacketSize * Len(log'[box[v]]) + PacketSize
    BY <2>1, <2>2, <2>5 DEF OffsetInv
  <2>10. \A c \in Boxes :
           damagedAt[c] <= Len(log'[c]) /\ size'[c] = PacketSize * Len(log'[c])
    BY <1>b, <2>5, <2>6
  <2>11. \A c \in Listed :
           damagedAt[c] # Never => fdInternalW[c] >= PacketSize * damagedAt[c]
    BY DEF OffsetInv
  <2>12. QED
    BY <1>b, <2>1, <2>8, <2>9, <2>10, <2>11 DEF OffsetInv
<1>5. ASSUME NEW w \in SubWorkers, Forward(w) PROVE OffsetInv'
  BY <1>b, <1>d, <1>frame, <1>5 DEF Forward, GoTo, bounds, heap, storage
<1>6. ASSUME NEW w \in SubWorkers, NEW b \in Listed, Joined(w, b) PROVE OffsetInv'
  BY <1>b, <1>d, <1>frame, <1>6 DEF Joined
<1>7. ASSUME NEW w \in Workers, Unlock(w) PROVE OffsetInv'
  BY <1>b, <1>d, <1>frame, <1>7 DEF Unlock, GoTo, bounds, storage
<1>8. ASSUME NEW n \in Names, Added(n) PROVE OffsetInv'
  <2> DEFINE b == created + 1
  <2>1. /\ b \in Boxes /\ created' = b /\ Listed' = Listed \cup {b}
        /\ UNCHANGED <<log, damagedAt, size, pc, box, fdInternalW>>
    BY <1>8, AddedList DEF Added, AddBox
  <2>2. created \in Nat /\ \A c \in Boxes : c \in Nat
    BY BoxAssumption DEF LogFacts, Boxes
  <2>3. b > created /\ \A c \in Boxes : c > b => c > created
    BY <2>2
  <2>4. damagedAt[b] = Never /\ fdInternalW[b] = 0 /\ size[b] = 0
    BY <1>b, <2>1, <2>3 DEF LogFacts
  <2>5. fdInternalW[b] = PacketSize * Len(log[b])
    BY <1>b, <2>1, <2>4
  <2> HIDE DEF b
  <2>6. QED
    BY <1>b, <2>1, <2>3, <2>4, <2>5 DEF OffsetInv
<1>9. ASSUME NEW b \in Listed, Removed(b) PROVE OffsetInv'
  <2>1. Listed' = Listed \ {b}
    BY <1>9, RemovedList
  <2>2. /\ fdInternalW' = [fdInternalW EXCEPT ![b] = 0]
        /\ UNCHANGED <<log, damagedAt, size, pc, box, created>>
    BY <1>9 DEF Removed, DeleteBox, heap, sessions, history
  <2>3. \A w \in Workers : pc[w] = "pub_count" => box[w] # b
    BY <1>9 DEF Removed, InUse, LogFacts, PublisherAt
  <2>4. QED
    BY <1>b, <1>d, <1>frame, <2>1, <2>2, <2>3
<1>10. ASSUME NEW how \in {"exited", "panicked"}, Stop(how) PROVE OffsetInv'
  <2>1. Listed' = {}
    BY <1>10 DEF Stop, Listed
  <2>2. UNCHANGED <<log, damagedAt, size, created>> /\ pc' = [w \in Workers |-> "idle"]
    BY <1>10 DEF Stop
  <2>3. QED
    BY <1>b, <2>1, <2>2 DEF OffsetInv
<1>11. QED
  BY <1>1, <1>2, <1>3, <1>4, <1>5, <1>6, <1>7, <1>8, <1>9, <1>10 DEF Outcome

(***************************************************************************)
(* What is in the files.                                                   *)
(***************************************************************************)

Holds(content, i, m) ==
  content[PacketSize * i - 1] = <<m, 1>> /\ content[PacketSize * i] = <<m, 2>>

(* The file of a box holds its log, as far as it was not damaged; and the  *)
(* message after the log, once it is written.                              *)
ContentInv ==
  /\ \A b \in Listed : \A i \in DOMAIN log[b] :
       Log!Promised(b, i) => Holds(file[b], i, log[b][i])
  /\ \A w \in Workers :
       pc[w] = "pub_count" /\ damagedAt[box[w]] = Never
         => Holds(file[box[w]], Len(log[box[w]]) + 1, msg[w])

LEMMA Kept ==
  ASSUME NEW content, NEW new, NEW at \in Nat, \A j \in 1..at : new[j] = content[j],
         NEW i \in Nat \ {0}, PacketSize * i <= at, NEW m, Holds(content, i, m)
  PROVE  Holds(new, i, m)
<1>1. PacketSize * i \in 1..at /\ PacketSize * i - 1 \in 1..at
  BY DEF PacketSize
<1>2. QED
  BY <1>1 DEF Holds

(* Nothing is written over a message that was promised.                    *)
LEMMA PromisedBefore ==
  ASSUME LogFacts, OffsetInv, NEW w \in PubWorkers, pc[w] = "pub_read",
         NEW i \in DOMAIN log[box[w]], Log!Promised(box[w], i)
  PROVE  /\ i \in Nat \ {0}
         /\ fdInternalW[box[w]] \in Nat
         /\ PacketSize * i <= fdInternalW[box[w]]
<1> DEFINE b == box[w]
<1>1. w \in Workers /\ b \in Listed /\ b \in Boxes
  BY DEF LogFacts, PubLabels, PublisherAt
<1>2. i \in 1..Len(log[b]) /\ Len(log[b]) \in Nat /\ fdInternalW[b] \in Nat
  BY <1>1 DEF LogFacts
<1>3. \A v \in Workers : pc[v] = "pub_count" => box[v] # b
  BY <1>1 DEF LogFacts, PublisherAt
<1> HIDE DEF b
<1>4. CASE damagedAt[b] = Never
  <2>1. fdInternalW[b] = PacketSize * Len(log[b])
    BY <1>1, <1>3, <1>4 DEF OffsetInv
  <2>2. QED
    BY <1>2, <2>1 DEF PacketSize, b
<1>5. CASE damagedAt[b] # Never
  <2>1. i <= damagedAt[b]
    BY <1>5 DEF Log!Promised, Never, b
  <2>2. damagedAt[b] \in Nat /\ fdInternalW[b] >= PacketSize * damagedAt[b]
    BY <1>1, <1>5 DEF OffsetInv, LogFacts
  <2>3. QED
    BY <1>2, <2>1, <2>2 DEF PacketSize, b
<1>6. QED
  BY <1>4, <1>5

LEMMA ContentStep == ListInv /\ LogFacts /\ OffsetInv /\ ContentInv /\ Outcome => ContentInv'
<1> SUFFICES ASSUME ListInv, LogFacts, OffsetInv, ContentInv, Outcome PROVE ContentInv'
  OBVIOUS
<1>a. /\ Listed' = Listed \/ ~UNCHANGED msgBoxes
      /\ PubWorkers \subseteq Workers /\ SubWorkers \subseteq Workers
      /\ pc \in [Workers -> Labels] /\ box \in [Workers -> Boxes \cup {NoBox}]
      /\ file \in [Boxes -> Seq(Messages \X {1, 2})]
      /\ msg \in [Workers -> Messages \cup {0}]
      /\ \A b \in Listed : b \in Boxes
      /\ \A w \in Workers : pc[w] = "pub_count" => box[w] \in Listed
      /\ \A b \in Boxes : Len(log[b]) \in Nat /\ DOMAIN log[b] = 1..Len(log[b])
  BY ListedSame DEF LogFacts, PubLabels, PublisherAt
<1>b. \A v, w \in Workers :
        pc[v] \in PublisherAt /\ pc[w] \in PublisherAt /\ box[v] = box[w] => v = w
  BY DEF LogFacts
<1>frame. ASSUME UNCHANGED <<log, damagedAt>>,
                 \A b \in Listed' : b \in Listed /\ file'[b] = file[b],
                 \A w \in Workers : pc'[w] = "pub_count" =>
                   /\ pc[w] = "pub_count" /\ box[w] \in Listed'
                   /\ box'[w] = box[w] /\ msg'[w] = msg[w]
          PROVE  ContentInv'
  BY <1>frame DEF ContentInv, Log!Promised
<1> USE <1>a
<1>1. CASE Quiet
  BY <1>frame, <1>1 DEF Quiet
<1>2. ASSUME NEW w \in PubWorkers, WriteMessage(w) PROVE ContentInv'
  <2> DEFINE b == box[w]
             at == fdInternalW[b]
  <2>1. /\ pc[w] = "pub_read" /\ b \in Listed /\ w \in Workers
        /\ \A c \in Boxes : c # b => file'[c] = file[c]
        /\ \A j \in 1..at : file'[b][j] = file[b][j]
        /\ file'[b][at + 1] = <<sent + 1, 1>> /\ file'[b][at + 2] = <<sent + 1, 2>>
        /\ pc' = [pc EXCEPT ![w] = "pub_count"]
        /\ msg' = [msg EXCEPT ![w] = sent + 1]
        /\ UNCHANGED <<log, damagedAt, msgBoxes, box>>
    BY <1>2, WholeWrite
  <2>2. \A v \in Workers : pc[v] = "pub_count" => box[v] # b
    BY <1>b, <2>1 DEF PublisherAt
  <2>3. ASSUME NEW c \in Listed, NEW i \in DOMAIN log[c], Log!Promised(c, i)
        PROVE  Holds(file'[c], i, log[c][i])
    <3>1. Holds(file[c], i, log[c][i])
      BY <2>3 DEF ContentInv
    <3>2. CASE c = b
      <4>1. i \in Nat \ {0} /\ at \in Nat /\ PacketSize * i <= at
        BY <2>1, <2>3, <3>2, PromisedBefore
      <4>2. QED
        BY <2>1, <3>1, <3>2, <4>1, Kept
    <3>3. CASE c # b
      BY <2>1, <3>1, <3>3
    <3>4. QED
      BY <3>2, <3>3
  <2>4. damagedAt[b] = Never => Holds(file'[b], Len(log[b]) + 1, sent + 1)
    <3> SUFFICES ASSUME damagedAt[b] = Never PROVE Holds(file'[b], Len(log[b]) + 1, sent + 1)
      OBVIOUS
    <3>1. at = PacketSize * Len(log[b]) /\ Len(log[b]) \in Nat
      BY <2>1, <2>2 DEF OffsetInv
    <3>2. /\ PacketSize * (Len(log[b]) + 1) - 1 = at + 1
          /\ PacketSize * (Len(log[b]) + 1) = at + 2
      BY ONLY <3>1 DEF PacketSize
    <3>3. QED
      BY <2>1, <3>2 DEF Holds
  <2>5. ASSUME NEW v \in Workers, pc'[v] = "pub_count", damagedAt[box[v]] = Never
        PROVE  Holds(file'[box[v]], Len(log[box[v]]) + 1, msg'[v])
    <3>1. CASE v = w
      BY <2>1, <2>4, <2>5, <3>1
    <3>2. CASE v # w
      <4>1. pc[v] = "pub_count" /\ msg'[v] = msg[v] /\ box[v] # b /\ box[v] \in Boxes
        BY <2>1, <2>2, <2>5, <3>2
      <4>2. QED
        BY <2>1, <2>5, <4>1 DEF ContentInv
    <3>3. QED
      BY <3>1, <3>2
  <2>6. QED
    BY <2>1, <2>3, <2>5 DEF ContentInv, Log!Promised
<1>3. ASSUME NEW w \in PubWorkers, ShortWrite(w) PROVE ContentInv'
  <2> DEFINE b == box[w]
             at == fdInternalW[b]
  <2>1. /\ pc[w] = "pub_read" /\ b \in Listed /\ w \in Workers
        /\ \A c \in Boxes : c # b => file'[c] = file[c]
        /\ \A j \in 1..at : file'[b][j] = file[b][j]
        /\ pc' = [pc EXCEPT ![w] = "pub_leave"]
        /\ UNCHANGED <<log, msgBoxes, msg, box>>
    BY <1>3, PartialWrite
  <2>2. \/ damagedAt' = damagedAt
        \/ damagedAt[b] = Never /\ damagedAt' = [damagedAt EXCEPT ![b] = Len(log[b])]
    <3>1. PICK k \in {0, 1} :
            damagedAt' = IF k = 1 /\ damagedAt[b] = Never
                         THEN [damagedAt EXCEPT ![b] = Len(log[b])] ELSE damagedAt
      BY <1>3, PartialWrite
    <3>2. CASE k = 1 /\ damagedAt[b] = Never
      BY <3>1, <3>2
    <3>3. CASE ~(k = 1 /\ damagedAt[b] = Never)
      BY <3>1, <3>3
    <3>4. QED
      BY <3>2, <3>3
  <2>3. \A v \in Workers : pc[v] = "pub_count" => box[v] # b
    BY <1>b, <2>1 DEF PublisherAt
  <2>4. \A c \in Boxes : c # b => damagedAt'[c] = damagedAt[c]
    BY <2>2 DEF LogFacts
  <2>5. ASSUME NEW c \in Listed, NEW i \in DOMAIN log[c], Log!Promised(c, i)'
        PROVE  Log!Promised(c, i)
    BY <2>2, <2>4, <2>5 DEF Log!Promised, Never
  <2>6. ASSUME NEW c \in Listed, NEW i \in DOMAIN log[c], Log!Promised(c, i)'
        PROVE  Holds(file'[c], i, log[c][i])
    <3>1. Holds(file[c], i, log[c][i]) /\ Log!Promised(c, i)
      BY <2>5, <2>6 DEF ContentInv
    <3>2. CASE c = b
      <4>1. i \in Nat \ {0} /\ at \in Nat /\ PacketSize * i <= at
        BY <2>1, <3>1, <3>2, PromisedBefore
      <4>2. QED
        BY <2>1, <3>1, <3>2, <4>1, Kept
    <3>3. CASE c # b
      BY <2>1, <3>1, <3>3
    <3>4. QED
      BY <3>2, <3>3
  <2>7. ASSUME NEW v \in Workers, pc'[v] = "pub_count", damagedAt'[box[v]] = Never
        PROVE  Holds(file'[box[v]], Len(log[box[v]]) + 1, msg[v])
    <3>1. pc[v] = "pub_count" /\ box[v] # b /\ box[v] \in Boxes
      BY <2>1, <2>3, <2>7
    <3>2. QED
      BY <2>1, <2>4, <2>7, <3>1 DEF ContentInv
  <2>8. QED
    BY <2>1, <2>6, <2>7 DEF ContentInv
<1>4. ASSUME NEW w \in PubWorkers, CountMessage(w) PROVE ContentInv'
  <2> DEFINE b == box[w]
  <2>1. /\ pc[w] = "pub_count" /\ b \in Listed /\ b \in Boxes
        /\ log' = [log EXCEPT ![b] = log'[b]]
        /\ DOMAIN log'[b] = 1..(Len(log[b]) + 1)
        /\ \A i \in DOMAIN log[b] : log'[b][i] = log[b][i]
        /\ log'[b][Len(log[b]) + 1] = msg[w]
        /\ \A v \in Workers : pc'[v] = "pub_count" <=> pc[v] = "pub_count" /\ v # w
        /\ UNCHANGED <<damagedAt, file, msgBoxes, msg, box>>
    BY <1>4, Counted
  <2>2. \A c \in Boxes : c # b => log'[c] = log[c]
    BY <2>1 DEF LogFacts
  <2>3. Log!Promised(b, Len(log[b]) + 1) => damagedAt[b] = Never
    <3>1. /\ Len(log[b]) \in Nat
          /\ damagedAt[b] \in Nat \cup {Never}
          /\ damagedAt[b] <= Len(log[b])
      BY <2>1 DEF OffsetInv, LogFacts
    <3>2. ~(Len(log[b]) + 1 <= damagedAt[b])
      BY <3>1 DEF Never
    <3>3. QED
      BY <3>2 DEF Log!Promised, Never
  <2>4. Log!Promised(b, Len(log[b]) + 1) => Holds(file[b], Len(log[b]) + 1, msg[w])
    BY <2>1, <2>3 DEF ContentInv
  <2>5. ASSUME NEW c \in Listed, NEW i \in DOMAIN log'[c], Log!Promised(c, i)
        PROVE  Holds(file[c], i, log'[c][i])
    <3>1. CASE c # b
      BY <2>2, <2>5, <3>1 DEF ContentInv
    <3>2. CASE c = b /\ i \in DOMAIN log[b]
      BY <2>1, <2>5, <3>2 DEF ContentInv
    <3>3. CASE c = b /\ i = Len(log[b]) + 1
      BY <2>1, <2>4, <2>5, <3>3
    <3>4. QED
      BY <2>1, <2>5, <3>1, <3>2, <3>3
  <2>6. ASSUME NEW v \in Workers, pc'[v] = "pub_count", damagedAt[box[v]] = Never
        PROVE  Holds(file[box[v]], Len(log'[box[v]]) + 1, msg[v])
    <3>1. pc[v] = "pub_count" /\ box[v] # b /\ box[v] \in Boxes
      BY <1>b, <2>1, <2>6 DEF PublisherAt
    <3>2. QED
      BY <2>2, <2>6, <3>1 DEF ContentInv
  <2>7. QED
    BY <2>1, <2>5, <2>6 DEF ContentInv, Log!Promised
<1>5. ASSUME NEW w \in SubWorkers, Forward(w) PROVE ContentInv'
  BY <1>frame, <1>5 DEF Forward, GoTo, storage
<1>6. ASSUME NEW w \in SubWorkers, NEW b \in Listed, Joined(w, b) PROVE ContentInv'
  BY <1>frame, <1>6 DEF Joined
<1>7. ASSUME NEW w \in Workers, Unlock(w) PROVE ContentInv'
  BY <1>frame, <1>7 DEF Unlock, GoTo, storage
<1>8. ASSUME NEW n \in Names, Added(n) PROVE ContentInv'
  <2> DEFINE b == created + 1
  <2>1. /\ b \in Boxes /\ Listed' = Listed \cup {b}
        /\ file' = [file EXCEPT ![b] = disk[n]]
        /\ UNCHANGED <<log, damagedAt, msg, pc, box>>
    BY <1>8, AddedList DEF Added, AddBox
  <2>2. b > created /\ \A c \in Listed : c # b
    BY DEF LogFacts
  <2>3. DOMAIN log[b] = {}
    <3>1. size[b] = 0 /\ size[b] = PacketSize * Len(log[b]) /\ Len(log[b]) \in Nat
      BY <2>1, <2>2 DEF OffsetInv, LogFacts
    <3>2. Len(log[b]) = 0
      BY ONLY <3>1 DEF PacketSize
    <3>3. QED
      BY <2>1, <3>2
  <2> HIDE DEF b
  <2>4. \A c \in Listed : file'[c] = file[c]
    BY <2>1, <2>2
  <2>5. QED
    BY <2>1, <2>3, <2>4 DEF ContentInv, Log!Promised
<1>9. ASSUME NEW b \in Listed, Removed(b) PROVE ContentInv'
  <2>1. Listed' = Listed \ {b}
    BY <1>9, RemovedList
  <2>2. file' = [file EXCEPT ![b] = <<>>] /\ UNCHANGED <<log, damagedAt, msg, pc, box>>
    BY <1>9 DEF Removed, DeleteBox, sessions, history
  <2>3. \A w \in Workers : pc[w] = "pub_count" => box[w] # b
    BY <1>9 DEF Removed, InUse, LogFacts, PublisherAt
  <2>4. QED
    BY <1>frame, <2>1, <2>2, <2>3
<1>10. ASSUME NEW how \in {"exited", "panicked"}, Stop(how) PROVE ContentInv'
  <2>1. Listed' = {}
    BY <1>10 DEF Stop, Listed
  <2>2. UNCHANGED <<log, damagedAt>> /\ pc' = [w \in Workers |-> "idle"]
    BY <1>10 DEF Stop
  <2>3. QED
    BY <1>frame, <2>1, <2>2
<1>11. QED
  BY <1>1, <1>2, <1>3, <1>4, <1>5, <1>6, <1>7, <1>8, <1>9, <1>10 DEF Outcome

(***************************************************************************)
(* What subscribers are sent.                                              *)
(***************************************************************************)

(* The descriptor of a subscriber is where what it was sent ends.          *)
HeardInv ==
  /\ delivered \in [Workers -> Seq(Messages \cup {0})]
  /\ \A w \in Workers : fd[w] = PacketSize * Len(delivered[w])
  /\ \A w \in Workers : pc[w] \notin SubLabels => delivered[w] = <<>>

(* What a packet says, and what it says when its halves are those of one   *)
(* message.                                                                *)
LEMMA PacketMessage ==
  ASSUME NEW read \in Seq(Messages \X {1, 2}), Len(read) = 2
  PROVE  /\ Packet(read) \in Messages \cup {0}
         /\ \A m : read[1] = <<m, 1>> /\ read[2] = <<m, 2>> => Packet(read) = m
<1>1. read[1] \in Messages \X {1, 2} /\ read[2] \in Messages \X {1, 2}
  <2>1. 1 \in 1..Len(read) /\ 2 \in 1..Len(read)
    OBVIOUS
  <2>2. QED
    BY <2>1, ElementOfSeq
<1>2. Packet(read) \in Messages \cup {0}
  BY <1>1 DEF Packet
<1>3. ASSUME NEW m, read[1] = <<m, 1>>, read[2] = <<m, 2>> PROVE Packet(read) = m
  <2>1. m \in Messages
    BY <1>1, <1>3
  <2>2. /\ Halves(m) \in Seq(Messages \X {1, 2}) /\ Len(Halves(m)) = 2
        /\ Halves(m)[1] = read[1] /\ Halves(m)[2] = read[2]
    BY <1>3, <2>1 DEF Halves
  <2>3. \A i \in 1..2 : read[i] = Halves(m)[i]
    BY <2>2
  <2>4. read = Halves(m)
    BY <2>2, <2>3, SeqEqual
  <2>5. read[1][1] = m
    BY <1>3
  <2>6. QED
    BY <2>4, <2>5 DEF Packet
<1>4. QED
  BY <1>2, <1>3

SessionsInv == BaseInv /\ PubInv /\ CountedInv /\ Pinned /\ ReadInv

(* A subscriber that passed its test is sent one packet: if it was         *)
(* promised, the next message of the log.                                  *)
LEMMA Forwarded ==
  ASSUME SessionsInv, LogFacts, OffsetInv, ContentInv, HeardInv,
         NEW w \in SubWorkers, Forward(w)
  PROVE  LET b == box[w]
             k == Len(delivered[w]) + 1
         IN  /\ w \in Workers /\ pc[w] = "sub_forward" /\ b \in Boxes
             /\ pc' = [pc EXCEPT ![w] = "sub_test"]
             /\ fd' = [fd EXCEPT ![w] = fd[w] + PacketSize]
             /\ k \in 1..Len(log[b])
             /\ \E m \in Messages \cup {0} :
                  /\ delivered' = [delivered EXCEPT ![w] = Append(delivered[w], m)]
                  /\ Log!Promised(b, k) => m = log[b][k]
             /\ UNCHANGED <<log, damagedAt, box>>
<1> DEFINE b == box[w]
           k == Len(delivered[w]) + 1
           content == file[b]
           at == fd[w]
           read == SubSeq(content, at + 1, Smaller(at + PacketSize, Len(content)))
<1>1. w \in Workers /\ pc[w] = "sub_forward" /\ b \in Listed /\ b \in Boxes
  BY DEF Forward, LogFacts, SubLabels, SubscriberAt
<1>2. Len(content) >= at + PacketSize /\ size[b] >= at + PacketSize
  BY <1>1, PacketWritten DEF SessionsInv
<1>3. content \in Seq(Messages \X {1, 2}) /\ at \in Nat /\ Len(content) \in Nat
  BY <1>1, LenProperties DEF LogFacts
<1> HIDE DEF content, at
<1>4. /\ read \in Seq(Messages \X {1, 2}) /\ Len(read) = PacketSize
      /\ \A i \in 1..Len(read) : read[i] = content[at + i]
  <2>1. at + PacketSize <= Len(content)
    BY <1>2, <1>3 DEF PacketSize
  <2>2. QED
    BY <1>3, <2>1, ReadPart
<1>5. /\ pc' = [pc EXCEPT ![w] =
                    IF Len(read) \in {0, PacketSize} THEN "sub_test" ELSE "sub_leave"]
      /\ fd' = [fd EXCEPT ![w] = fd[w] + Len(read)]
      /\ delivered' = IF Len(read) = PacketSize
                      THEN [delivered EXCEPT ![w] = Append(delivered[w], Packet(read))]
                      ELSE delivered
      /\ UNCHANGED <<log, damagedAt, box>>
  BY DEF Forward, GoTo, content, at
<1> HIDE DEF read
<1>6. /\ pc' = [pc EXCEPT ![w] = "sub_test"]
      /\ fd' = [fd EXCEPT ![w] = fd[w] + PacketSize]
      /\ delivered' = [delivered EXCEPT ![w] = Append(delivered[w], Packet(read))]
  BY <1>4, <1>5
<1>7. at = PacketSize * Len(delivered[w]) /\ Len(delivered[w]) \in Nat
  BY <1>1, LenProperties DEF HeardInv, at
<1>8. /\ size[b] = PacketSize * Len(log[b])
      /\ Len(log[b]) \in Nat
      /\ DOMAIN log[b] = 1..Len(log[b])
  BY <1>1 DEF OffsetInv, LogFacts
<1>9. /\ k \in 1..Len(log[b])
      /\ PacketSize * k - 1 = at + 1 /\ PacketSize * k = at + 2
  <2> DEFINE heard == Len(delivered[w])
             logged == Len(log[b])
             counted == size[b]
  <2>1. /\ heard \in Nat
        /\ logged \in Nat
        /\ at = 2 * heard
        /\ counted = 2 * logged
        /\ counted >= at + 2
    BY <1>2, <1>7, <1>8 DEF PacketSize
  <2> HIDE DEF heard, logged, counted
  <2>2. heard + 1 \in 1..logged /\ 2 * (heard + 1) - 1 = at + 1 /\ 2 * (heard + 1) = at + 2
    BY ONLY <2>1
  <2>3. QED
    BY <2>2 DEF heard, logged, PacketSize
<1>10. Packet(read) \in Messages \cup {0}
  BY <1>4, PacketMessage DEF PacketSize
<1>11. Log!Promised(b, k) => Packet(read) = log[b][k]
  <2> SUFFICES ASSUME Log!Promised(b, k) PROVE Packet(read) = log[b][k]
    OBVIOUS
  <2>1. Holds(content, k, log[b][k])
    BY <1>1, <1>8, <1>9 DEF ContentInv, content
  <2>2. read[1] = content[at + 1] /\ read[2] = content[at + 2] /\ Len(read) = 2
    BY <1>4 DEF PacketSize
  <2>3. read[1] = <<log[b][k], 1>> /\ read[2] = <<log[b][k], 2>>
    BY <1>9, <2>1, <2>2 DEF Holds
  <2>4. QED
    BY <1>4, <2>2, <2>3, PacketMessage
<1>12. QED
  BY <1>1, <1>5, <1>6, <1>9, <1>10, <1>11

LEMMA HeardStep ==
  SessionsInv /\ LogFacts /\ OffsetInv /\ ContentInv /\ HeardInv /\ Outcome => HeardInv'
<1> SUFFICES ASSUME SessionsInv, LogFacts, OffsetInv, ContentInv, HeardInv, Outcome
             PROVE  HeardInv'
  OBVIOUS
<1>a. /\ PubWorkers \subseteq Workers /\ SubWorkers \subseteq Workers
      /\ pc \in [Workers -> Labels]
      /\ fd \in [Workers -> Nat] /\ delivered \in [Workers -> Seq(Messages \cup {0})]
  BY DEF LogFacts, HeardInv
<1>b. Len(<<>>) = 0 /\ <<>> \in Seq(Messages \cup {0}) /\ 0 = PacketSize * 0
  BY EmptySeq DEF PacketSize
<1>frame. ASSUME UNCHANGED <<fd, delivered>>,
                 \A v \in Workers : pc[v] \in SubLabels => pc'[v] \in SubLabels
          PROVE  HeardInv'
  BY <1>frame DEF HeardInv
<1> USE <1>a
<1>1. CASE Quiet
  BY <1>frame, <1>1 DEF Quiet
<1>2. ASSUME NEW w \in PubWorkers, WriteMessage(w) PROVE HeardInv'
  BY <1>frame, <1>2 DEF WriteMessage, GoTo, history, SubLabels, SubscriberAt
<1>3. ASSUME NEW w \in PubWorkers, ShortWrite(w) PROVE HeardInv'
  BY <1>frame, <1>3 DEF ShortWrite, GoTo, sessions, SubLabels, SubscriberAt
<1>4. ASSUME NEW w \in PubWorkers, CountMessage(w) PROVE HeardInv'
  BY <1>frame, <1>4, Counted
<1>5. ASSUME NEW w \in SubWorkers, Forward(w) PROVE HeardInv'
  <2>1. /\ w \in Workers /\ pc[w] = "sub_forward"
        /\ pc' = [pc EXCEPT ![w] = "sub_test"]
        /\ fd' = [fd EXCEPT ![w] = fd[w] + PacketSize]
    BY <1>5, Forwarded
  <2>2. PICK m \in Messages \cup {0} :
          delivered' = [delivered EXCEPT ![w] = Append(delivered[w], m)]
    BY <1>5, Forwarded
  <2>3. /\ Append(delivered[w], m) \in Seq(Messages \cup {0})
        /\ Len(Append(delivered[w], m)) = Len(delivered[w]) + 1
        /\ Len(delivered[w]) \in Nat
    BY <2>1, <2>2, AppendProperties, LenProperties
  <2>4. fd'[w] = PacketSize * Len(delivered'[w])
    <3>1. /\ fd[w] = PacketSize * Len(delivered[w]) /\ fd'[w] = fd[w] + PacketSize
          /\ Len(delivered'[w]) = Len(delivered[w]) + 1
      BY <2>1, <2>2, <2>3 DEF HeardInv
    <3>2. QED
      BY ONLY <2>3, <3>1 DEF PacketSize
  <2>5. delivered' \in [Workers -> Seq(Messages \cup {0})]
    BY <2>1, <2>2, <2>3
  <2>6. \A v \in Workers :
          v # w => fd'[v] = fd[v] /\ delivered'[v] = delivered[v] /\ pc'[v] = pc[v]
    BY <2>1, <2>2
  <2>7. pc'[w] \in SubLabels
    BY <2>1 DEF SubLabels, SubscriberAt
  <2>8. QED
    BY <2>4, <2>5, <2>6, <2>7 DEF HeardInv
<1>6. ASSUME NEW w \in SubWorkers, NEW b \in Listed, Joined(w, b) PROVE HeardInv'
  BY <1>frame, <1>6 DEF Joined, SubLabels, SubscriberAt
<1>7. ASSUME NEW w \in Workers, Unlock(w) PROVE HeardInv'
  <2>1. /\ fd' = [fd EXCEPT ![w] = 0] /\ delivered' = [delivered EXCEPT ![w] = <<>>]
        /\ pc' = [pc EXCEPT ![w] = "idle"]
    BY <1>7 DEF Unlock, GoTo
  <2>2. delivered' \in [Workers -> Seq(Messages \cup {0})]
    BY <1>b, <2>1
  <2>3. QED
    BY <1>b, <2>1, <2>2 DEF HeardInv
<1>8. ASSUME NEW n \in Names, Added(n) PROVE HeardInv'
  BY <1>frame, <1>8 DEF Added
<1>9. ASSUME NEW b \in Listed, Removed(b) PROVE HeardInv'
  BY <1>frame, <1>9 DEF Removed, sessions, history
<1>10. ASSUME NEW how \in {"exited", "panicked"}, Stop(how) PROVE HeardInv'
  <2>1. /\ fd' = [v \in Workers |-> 0] /\ delivered' = [v \in Workers |-> <<>>]
        /\ pc' = [v \in Workers |-> "idle"]
    BY <1>10 DEF Stop
  <2>2. QED
    BY <1>b, <2>1 DEF HeardInv
<1>11. QED
  BY <1>1, <1>2, <1>3, <1>4, <1>5, <1>6, <1>7, <1>8, <1>9, <1>10 DEF Outcome

(***************************************************************************)
(* The refinement.                                                         *)
(***************************************************************************)

LogInv == SessionsInv /\ UniqueInv /\ OffsetInv /\ ContentInv /\ HeardInv

LEMMA LogInit == Init => UniqueInv /\ OffsetInv /\ ContentInv /\ HeardInv
<1> SUFFICES ASSUME Init PROVE UniqueInv /\ OffsetInv /\ ContentInv /\ HeardInv
  OBVIOUS
<1>1. /\ Listed = {} /\ Len(<<>>) = 0 /\ DOMAIN <<>> = {} /\ <<>> \in Seq(Messages \cup {0})
      /\ \A w \in Workers : pc[w] = "idle" /\ fd[w] = 0 /\ delivered[w] = <<>>
      /\ \A b \in Boxes : log[b] = <<>> /\ size[b] = 0 /\ damagedAt[b] = Never
      /\ delivered = [w \in Workers |-> <<>>]
  BY EmptySeq DEF Init, Listed
<1>2. Log!Logged = {}
  BY <1>1 DEF Log!Logged
<1>3. UniqueInv
  BY <1>1, <1>2 DEF UniqueInv
<1>4. OffsetInv
  BY <1>1 DEF OffsetInv, PacketSize, Never
<1>5. ContentInv
  BY <1>1 DEF ContentInv
<1>6. HeardInv
  BY <1>1 DEF HeardInv, PacketSize
<1>7. QED
  BY <1>3, <1>4, <1>5, <1>6

LEMMA LogAlways ==
  ASSUME OneSubscriberWorker \/ RemWorkers = {}
  PROVE  Spec => []LogInv
<1>1. Spec => []SessionsInv
  BY ReadAlways DEF SessionsInv
<1>2. Init => UniqueInv /\ OffsetInv /\ ContentInv /\ HeardInv
  BY LogInit
<1>3. SessionsInv /\ (UniqueInv /\ OffsetInv /\ ContentInv /\ HeardInv) /\ [Next]_vars
        => (UniqueInv /\ OffsetInv /\ ContentInv /\ HeardInv)'
  <2> SUFFICES ASSUME SessionsInv, UniqueInv, OffsetInv, ContentInv, HeardInv, [Next]_vars
               PROVE  (UniqueInv /\ OffsetInv /\ ContentInv /\ HeardInv)'
    OBVIOUS
  <2>1. LogFacts /\ ListInv /\ Outcome
    BY LogFactsHold, Outcomes DEF SessionsInv, BaseInv
  <2>2. QED
    BY <2>1, UniqueStep, OffsetStep, ContentStep, HeardStep
<1>4. QED
  BY <1>1, <1>2, <1>3, PTL DEF Spec, LogInv

Heard == [w \in SubWorkers |-> delivered[w]]

LEMMA ReadingSame ==
  ASSUME SubWorkers \subseteq Workers,
         \A w \in Workers : /\ pc'[w] \in SubLabels <=> pc[w] \in SubLabels
                            /\ pc[w] \in SubLabels => box'[w] = box[w]
  PROVE  Reading' = Reading
  BY DEF Reading, SubLabels

(* Every step is one of the log's, or does not touch it.                   *)
LEMMA StepImplements == LogInv /\ [Next]_vars => [Log!Next]_(Log!lvars)
<1> SUFFICES ASSUME LogInv, [Next]_vars PROVE Log!Next \/ UNCHANGED Log!lvars
  OBVIOUS
<1>a. LogFacts /\ ListInv /\ Outcome
  BY LogFactsHold, Outcomes DEF LogInv, SessionsInv, BaseInv
<1>b. /\ PubWorkers \subseteq Workers /\ SubWorkers \subseteq Workers
      /\ pc \in [Workers -> Labels] /\ box \in [Workers -> Boxes \cup {NoBox}]
      /\ delivered \in [Workers -> Seq(Messages \cup {0})]
      /\ \A b \in Listed : b \in Boxes
      /\ NoBox \notin Boxes
  BY <1>a DEF LogFacts, LogInv, HeardInv
<1>c. \A w \in Workers : pc[w] \notin SubLabels => delivered[w] = <<>>
  BY DEF LogInv, HeardInv
<1>d. /\ Reading = [w \in SubWorkers |-> IF pc[w] \in SubLabels THEN box[w] ELSE NoBox]
      /\ Reading' = [w \in SubWorkers |-> IF pc'[w] \in SubLabels THEN box'[w] ELSE NoBox]
  BY DEF Reading, SubLabels
<1>stutter. ASSUME UNCHANGED <<log, damagedAt, delivered>>,
                   \A w \in Workers : /\ pc'[w] \in SubLabels <=> pc[w] \in SubLabels
                                      /\ pc[w] \in SubLabels => box'[w] = box[w]
            PROVE  UNCHANGED Log!lvars
  BY <1>b, <1>stutter, ReadingSame DEF Log!lvars
<1> USE <1>b
<1>1. CASE Quiet
  BY <1>stutter, <1>1 DEF Quiet
<1>2. ASSUME NEW w \in PubWorkers, WriteMessage(w) PROVE UNCHANGED Log!lvars
  BY <1>a, <1>stutter, <1>2, WholeWrite DEF SubLabels, SubscriberAt
<1>3. ASSUME NEW w \in PubWorkers, ShortWrite(w)
      PROVE  Log!Damage(box[w]) \/ UNCHANGED Log!lvars
  <2> DEFINE b == box[w]
  <2>1. /\ pc[w] = "pub_read" /\ b \in Listed /\ w \in Workers
        /\ pc' = [pc EXCEPT ![w] = "pub_leave"]
        /\ UNCHANGED <<log, delivered, box>>
    BY <1>a, <1>3, PartialWrite
  <2>2. PICK k \in {0, 1} :
          damagedAt' = IF k = 1 /\ damagedAt[b] = Never
                       THEN [damagedAt EXCEPT ![b] = Len(log[b])] ELSE damagedAt
    BY <1>a, <1>3, PartialWrite
  <2>3. \A v \in Workers : pc'[v] \in SubLabels <=> pc[v] \in SubLabels
    BY <2>1 DEF SubLabels, SubscriberAt
  <2>4. CASE k = 1 /\ damagedAt[b] = Never
    <3>1. damagedAt' = [damagedAt EXCEPT ![b] = Len(log[b])]
      BY <2>2, <2>4
    <3>2. Reading' = Reading
      BY <2>1, <2>3, ReadingSame
    <3>3. QED
      BY <2>1, <2>4, <3>1, <3>2 DEF Log!Damage, Never
  <2>5. CASE ~(k = 1 /\ damagedAt[b] = Never)
    <3>1. damagedAt' = damagedAt
      BY <2>2, <2>5
    <3>2. QED
      BY <1>stutter, <2>1, <2>3, <3>1
  <2>6. QED
    BY <2>4, <2>5
<1>4. ASSUME NEW w \in PubWorkers, CountMessage(w) PROVE Log!Publish(box[w], msg[w])
  <2> DEFINE b == box[w]
  <2>1. /\ pc[w] = "pub_count" /\ w \in Workers
        /\ \A v \in Workers : pc'[v] \in SubLabels <=> pc[v] \in SubLabels
        /\ UNCHANGED <<damagedAt, delivered, box>>
    BY <1>a, <1>4, Counted
  <2>2. log' = [log EXCEPT ![b] = Append(log[b], msg[w])]
    BY <1>4 DEF CountMessage
  <2>3. msg[w] \notin Log!Logged
    BY <2>1 DEF LogInv, UniqueInv
  <2>4. Reading' = Reading
    BY <2>1, ReadingSame
  <2>5. QED
    BY <2>1, <2>2, <2>3, <2>4 DEF Log!Publish
<1>5. ASSUME NEW w \in SubWorkers, Forward(w) PROVE Log!Hear(w)
  <2> DEFINE b == box[w]
             k == Len(delivered[w]) + 1
  <2>1. /\ w \in Workers /\ pc[w] = "sub_forward" /\ b \in Boxes
        /\ pc' = [pc EXCEPT ![w] = "sub_test"]
        /\ k \in 1..Len(log[b])
        /\ UNCHANGED <<log, damagedAt, box>>
    BY <1>a, <1>5, Forwarded DEF LogInv
  <2>2. PICK m \in Messages \cup {0} :
          /\ delivered' = [delivered EXCEPT ![w] = Append(delivered[w], m)]
          /\ Log!Promised(b, k) => m = log[b][k]
    BY <1>a, <1>5, Forwarded DEF LogInv
  <2>3. Reading' = Reading
    <3>1. \A v \in Workers : pc'[v] \in SubLabels <=> pc[v] \in SubLabels
      BY <2>1 DEF SubLabels, SubscriberAt
    <3>2. QED
      BY <2>1, <3>1, ReadingSame
  <2>4. Reading[w] = b /\ b # NoBox
    BY <1>d, <2>1 DEF SubLabels, SubscriberAt
  <2>5. Heard[w] = delivered[w] /\ Heard' = [Heard EXCEPT ![w] = Append(delivered[w], m)]
    BY <2>2 DEF Heard
  <2>6. k <= Len(log[b])
    BY <2>1
  <2>7. CASE Log!Promised(b, k)
    BY <2>1, <2>2, <2>3, <2>4, <2>5, <2>6, <2>7 DEF Log!Hear, Heard
  <2>8. CASE ~Log!Promised(b, k)
    BY <2>1, <2>2, <2>3, <2>4, <2>5, <2>8 DEF Log!Hear, Heard
  <2>9. QED
    BY <2>7, <2>8
<1>6. ASSUME NEW w \in SubWorkers, NEW b \in Listed, Joined(w, b) PROVE Log!Join(w, b)
  <2>1. /\ pc[w] = "idle" /\ w \in Workers
        /\ pc' = [pc EXCEPT ![w] = "sub_store"] /\ box' = [box EXCEPT ![w] = b]
        /\ UNCHANGED <<log, damagedAt, delivered>>
    BY <1>6 DEF Joined
  <2>2. Reading[w] = NoBox /\ Reading' = [Reading EXCEPT ![w] = b]
    BY <1>d, <2>1 DEF SubLabels, SubscriberAt
  <2>3. QED
    BY <2>1, <2>2 DEF Log!Join
<1>7. ASSUME NEW w \in Workers, Unlock(w)
      PROVE  (\E R \in SUBSET SubWorkers : Log!Leave(R))
  <2>1. /\ pc' = [pc EXCEPT ![w] = "idle"] /\ box' = [box EXCEPT ![w] = NoBox]
        /\ delivered' = [delivered EXCEPT ![w] = <<>>]
        /\ UNCHANGED <<log, damagedAt>>
    BY <1>7 DEF Unlock, GoTo
  <2> DEFINE R == {w} \cap SubWorkers
  <2>2. Reading' = [r \in SubWorkers |-> IF r \in R THEN NoBox ELSE Reading[r]]
    BY <1>d, <2>1 DEF SubLabels, SubscriberAt
  <2>3. Heard' = [r \in SubWorkers |-> IF r \in R THEN <<>> ELSE Heard[r]]
    BY <2>1 DEF Heard
  <2>4. Log!Leave(R)
    BY <2>1, <2>2, <2>3 DEF Log!Leave, Heard
  <2>5. QED
    BY <2>4
<1>8. ASSUME NEW n \in Names, Added(n) PROVE UNCHANGED Log!lvars
  BY <1>stutter, <1>8 DEF Added
<1>9. ASSUME NEW b \in Listed, Removed(b) PROVE UNCHANGED Log!lvars
  BY <1>stutter, <1>9 DEF Removed, sessions, history
<1>10. ASSUME NEW how \in {"exited", "panicked"}, Stop(how) PROVE Log!Leave(SubWorkers)
  <2>1. /\ pc' = [w \in Workers |-> "idle"] /\ delivered' = [w \in Workers |-> <<>>]
        /\ UNCHANGED <<log, damagedAt>>
    BY <1>10 DEF Stop
  <2>2. Reading' = [r \in SubWorkers |-> NoBox] /\ Heard' = [r \in SubWorkers |-> <<>>]
    BY <1>d, <2>1 DEF SubLabels, SubscriberAt, Heard
  <2>3. QED
    BY <2>1, <2>2 DEF Log!Leave, Heard
<1>11. QED
  <2>1. \A w \in PubWorkers : pc[w] = "pub_count" => box[w] \in Boxes /\ msg[w] \in Messages
    BY <1>a DEF LogFacts, PubLabels, PublisherAt
  <2>2. \A w \in PubWorkers : pc[w] = "pub_read" => box[w] \in Boxes
    BY <1>a DEF LogFacts, PubLabels, PublisherAt
  <2>3. ASSUME NEW w \in PubWorkers, CountMessage(w) PROVE Log!Next
    BY <1>4, <2>1, <2>3 DEF CountMessage, Log!Next
  <2>4. ASSUME NEW w \in PubWorkers, ShortWrite(w) PROVE Log!Next \/ UNCHANGED Log!lvars
    BY <1>3, <2>2, <2>4 DEF ShortWrite, Log!Next
  <2>5. ASSUME NEW w \in SubWorkers, Forward(w) PROVE Log!Next
    BY <1>5, <2>5 DEF Log!Next
  <2>6. ASSUME NEW w \in SubWorkers, NEW b \in Listed, Joined(w, b) PROVE Log!Next
    BY <1>6, <2>6 DEF Log!Next
  <2>7. ASSUME NEW w \in Workers, Unlock(w) PROVE Log!Next
    BY <1>7, <2>7 DEF Log!Next
  <2>8. ASSUME NEW how \in {"exited", "panicked"}, Stop(how) PROVE Log!Next
    BY <1>10, <2>8 DEF Log!Next
  <2>9. QED
    BY <1>a, <1>1, <1>2, <1>8, <1>9, <2>3, <2>4, <2>5, <2>6, <2>7, <2>8 DEF Outcome

(* Through descriptors that move independently, a size written under       *)
(* another lock than the file is read, a file that survives the broker and *)
(* writes cut short, a box is the log it promises to be: whatever is       *)
(* delivered was published in this box, in order, whole and once, up to    *)
(* where its storage failed (mbroker.c:167-262).                           *)
THEOREM BoxIsLog ==
  ASSUME OneSubscriberWorker \/ RemWorkers = {}
  PROVE  Spec => ImplementsLog
<1>1. Init => Log!Init
  BY DEF Init, Log!Init, Reading, SubscriberAt, Never, Workers
<1>2. LogInv /\ [Next]_vars => [Log!Next]_(Log!lvars)
  BY StepImplements
<1>3. QED
  BY <1>1, <1>2, LogAlways, PTL DEF Spec, ImplementsLog, Log!Spec
=============================================================================
