-------------------------- MODULE ConversationProofs --------------------------
(***************************************************************************)
(* Proofs about Conversation and Listing, for any number of programs,      *)
(* boxes and lines: what "manager list" prints is the list of one moment,  *)
(* what a user types is in the box once and in order, and what a screen    *)
(* shows is the log of the box.                                            *)
(***************************************************************************)
EXTENDS Conversation, TLAPS, SequenceTheorems

(***************************************************************************)
(* The invariant of the listings                                           *)
(***************************************************************************)

NoBoxes == [box_name |-> EmptyName, is_last |-> TRUE]

(* Packets m has read: the last one of its vector is still to be filled    *)
(* while it reads.                                                         *)
Received(m) == IF manager[m] = "read" THEN Len(v[m].buff) - 1 ELSE Len(v[m].buff)

(* No name twice: of the list, and of what a handler found.                *)
NamesDiffer == IsInjective(boxes) /\ \A m \in Managers : IsInjective(snapshot[m])

(* Where a handler is: while it writes it holds messages_lock, and the     *)
(* list is the one it found.                                               *)
HandlerInv(m) ==
  /\ worker[m] = "dequeued" => /\ snapshot[m] = <<>> /\ answer[m] = <<>> /\ it[m] = 1
                               /\ manager[m] \notin {"listed", "none"}
  /\ worker[m] = "writing" => /\ up /\ messagesLock = m /\ snapshot[m] = boxes
                              /\ it[m] \in 1 .. Len(boxes)

(* Of an empty list, at most the packet that says so is on its way.        *)
EmptyInv(m) ==
  snapshot[m] = <<>> => Received(m) = 0 /\ answer[m] \in {<<>>, <<NoBoxes>>}

(* Else the packets written are those of the list, up to the box the       *)
(* handler writes next: first those read, then those in the FIFO.          *)
PacketsInv(m) ==
  snapshot[m] # <<>> =>
    /\ Received(m) < Len(snapshot[m])
    /\ Received(m) + Len(answer[m]) = it[m] - 1
    /\ \A k \in 1 .. Received(m) : v[m].buff[k] = PacketOf(snapshot[m], k)
    /\ \A k \in DOMAIN answer[m] : answer[m][k] = PacketOf(snapshot[m], Received(m) + k)

ManagerInv(m) ==
  /\ manager[m] = "read" => v[m].buff # <<>>
  /\ manager[m] \in Running => EmptyInv(m) /\ PacketsInv(m)

ListingInv ==
  /\ ListingTypeOK
  /\ NamesDiffer
  /\ \A m \in Managers : HandlerInv(m) /\ ManagerInv(m) /\ IsSnapshot(m)

(***************************************************************************)
(* The invariant of publishers and subscribers                             *)
(***************************************************************************)

(* How many lines p has written, or could have before it was interrupted.  *)
Written(p) == IF pub[p] = "write" THEN taken[p] - 1 ELSE taken[p]

LoopInv(p) ==
  /\ taken[p] <= typed[p]
  /\ pub[p] = "write" => taken[p] > 0
  /\ pub[p] = "ended" => eof[p] /\ taken[p] = typed[p]

(* In p's FIFO are lines of p, in order.                                   *)
PipeInv(p) ==
  /\ \A k \in DOMAIN toWorker[p] : toWorker[p][k][1] = p /\ toWorker[p][k][2] <= Written(p)
  /\ \A j, k \in DOMAIN toWorker[p] : j < k => toWorker[p][j][2] < toWorker[p][k][2]

(* In a box are lines of its publishers, each publisher's in order, before *)
(* those that are still in its FIFO.                                       *)
LogInv(b) ==
  /\ \A k \in DOMAIN log[b] :
       LET p == log[b][k][1]
       IN  /\ Topic[p] = b
           /\ log[b][k][2] <= Written(p)
           /\ \A j \in DOMAIN toWorker[p] : log[b][k][2] < toWorker[p][j][2]
  /\ \A j, k \in DOMAIN log[b] :
       j < k /\ log[b][j][1] = log[b][k][1] => log[b][j][2] < log[b][k][2]

(* No line is lost on the way, but by a refusal or with the broker.        *)
CompleteInv(p) ==
  up /\ wpub[p] # "refused" /\ pub[p] \in Publishing \cup {"ended"} =>
    \A n \in 1 .. Written(p) :
      \/ \E k \in DOMAIN log[Topic[p]] : log[Topic[p]][k] = <<p, n>>
      \/ \E k \in DOMAIN toWorker[p] : toWorker[p][k] = <<p, n>>

(* Printed, then in the FIFO: the beginning of the log, up to where the    *)
(* worker is.                                                              *)
ScreenInv(s) ==
  LET box == log[Topic[s]]
      n   == Len(printed[s])
  IN  /\ wsub[s] \in {"dequeued", "refused"} => forwarded[s] = 0
      /\ forwarded[s] <= Len(box)
      /\ n + Len(toClient[s]) <= forwarded[s]
      /\ sub[s] = "read" => n + Len(toClient[s]) = forwarded[s]
      /\ \A k \in 1 .. n : printed[s][k] = box[k]
      /\ \A k \in DOMAIN toClient[s] : toClient[s][k] = box[n + k]

(***************************************************************************)
(* Sequences and vectors                                                   *)
(***************************************************************************)

LEMMA Appended ==
  ASSUME NEW S, NEW s \in Seq(S), NEW e \in S
  PROVE  /\ Append(s, e) \in Seq(S)
         /\ Len(Append(s, e)) = Len(s) + 1 /\ DOMAIN Append(s, e) = 1 .. (Len(s) + 1)
         /\ Append(s, e)[Len(s) + 1] = e
         /\ \A k \in 1 .. Len(s) : Append(s, e)[k] = s[k]
         /\ Len(s) \in Nat /\ DOMAIN s = 1 .. Len(s)
BY AppendProperties, LenProperties

LEMMA Taken ==
  ASSUME NEW S, NEW s \in Seq(S), s # <<>>
  PROVE  /\ Head(s) \in S /\ Head(s) = s[1]
         /\ Tail(s) \in Seq(S)
         /\ Len(Tail(s)) = Len(s) - 1 /\ DOMAIN Tail(s) = 1 .. (Len(s) - 1)
         /\ \A k \in 1 .. (Len(s) - 1) : Tail(s)[k] = s[k + 1]
         /\ Len(s) \in Nat /\ Len(s) > 0 /\ DOMAIN s = 1 .. Len(s)
<1>1. Len(s) \in Nat /\ Len(s) > 0 /\ DOMAIN s = 1 .. Len(s)
  BY EmptySeq, LenProperties
<1>2. Tail(s) \in Seq(S) /\ Len(Tail(s)) = Len(s) - 1 /\ Head(s) \in S
      /\ \A k \in 1 .. (Len(s) - 1) : Tail(s)[k] = s[k + 1]
  BY HeadTailProperties
<1>3. DOMAIN Tail(s) = 1 .. (Len(s) - 1)
  BY <1>2, LenProperties
<1>4. Head(s) = s[1]
  OBVIOUS
<1> QED
  BY <1>1, <1>2, <1>3, <1>4

(* Unlinking a node of the list (mbroker.c:390-394).                       *)
LEMMA Unlinked ==
  ASSUME NEW S, NEW s \in Seq(S), NEW i \in 1..Len(s)
  PROVE  /\ RemoveAt(s, i) \in Seq(S)
         /\ Len(RemoveAt(s, i)) = Len(s) - 1
         /\ \A j \in 1..(Len(s) - 1) : RemoveAt(s, i)[j] = IF j < i THEN s[j] ELSE s[j + 1]
<1> DEFINE before == SubSeq(s, 1, i - 1)
           after == SubSeq(s, i + 1, Len(s))
<1>1. \A j \in 1..Len(s) : s[j] \in S
  BY ElementOfSeq
<1>2. /\ before \in Seq(S)
      /\ Len(before) = i - 1
      /\ \A j \in 1..(i - 1) : before[j] = s[j]
  BY <1>1, SubSeqProperties
<1>3. /\ after \in Seq(S)
      /\ Len(after) = Len(s) - i
      /\ \A j \in 1..(Len(s) - i) : after[j] = s[i + j]
  BY <1>1, SubSeqProperties
<1> HIDE DEF before, after
<1>4. /\ before \o after \in Seq(S)
      /\ Len(before \o after) = Len(before) + Len(after)
      /\ \A j \in 1..(Len(before) + Len(after)) :
           (before \o after)[j] = IF j <= Len(before) THEN before[j] ELSE after[j - Len(before)]
  BY <1>2, <1>3, ConcatProperties
<1>5. RemoveAt(s, i) = before \o after
  BY DEF RemoveAt, before, after
<1>6. ASSUME NEW j \in 1..(Len(s) - 1)
      PROVE  (before \o after)[j] = IF j < i THEN s[j] ELSE s[j + 1]
  <2>1. CASE j < i
    BY <1>2, <1>3, <1>4, <2>1
  <2>2. CASE ~(j < i)
    <3>1. /\ j - (i - 1) \in 1..(Len(s) - i)
          /\ j \in 1..(Len(before) + Len(after))
          /\ ~(j <= Len(before))
      BY <1>2, <1>3, <2>2
    <3>2. (before \o after)[j] = after[j - (i - 1)]
      BY <1>2, <1>4, <3>1
    <3>3. after[j - (i - 1)] = s[i + (j - (i - 1))]
      BY <1>3, <3>1
    <3>4. i + (j - (i - 1)) = j + 1 /\ ~(j < i)
      BY <2>2
    <3>5. QED
      BY <3>2, <3>3, <3>4
  <2>3. QED
    BY <2>1, <2>2
<1>7. QED
  BY <1>2, <1>3, <1>4, <1>5, <1>6

(* It leaves the names different.                                          *)
LEMMA StillDiffer ==
  ASSUME NEW S, NEW s \in Seq(S), NEW i \in DOMAIN s, IsInjective(s)
  PROVE  RemoveAt(s, i) \in Seq(S) /\ IsInjective(RemoveAt(s, i))
<1> DEFINE rest == RemoveAt(s, i)
<1>1. Len(s) \in Nat /\ DOMAIN s = 1 .. Len(s)
  BY LenProperties
<1>2. /\ rest \in Seq(S) /\ Len(rest) = Len(s) - 1
      /\ \A j \in 1 .. (Len(s) - 1) : rest[j] = IF j < i THEN s[j] ELSE s[j + 1]
  BY <1>1, Unlinked
<1> HIDE DEF rest
<1>3. DOMAIN rest = 1 .. (Len(s) - 1)
  BY <1>2, LenProperties
<1>4. IsInjective(rest)
  <2> SUFFICES ASSUME NEW j \in 1 .. (Len(s) - 1), NEW k \in 1 .. (Len(s) - 1), rest[j] = rest[k]
               PROVE  j = k
    BY <1>3 DEF IsInjective
  <2> DEFINE a == IF j < i THEN j ELSE j + 1
             b == IF k < i THEN k ELSE k + 1
  <2>1. a \in DOMAIN s /\ b \in DOMAIN s /\ s[a] = s[b]
    BY <1>1, <1>2
  <2>2. a = b
    BY <2>1 DEF IsInjective
  <2> QED
    BY <1>1, <2>2
<1> QED
  BY <1>2, <1>4 DEF rest

(* Creating a box does too.                                                *)
LEMMA NewName ==
  ASSUME NEW S, NEW s \in Seq(S), NEW n \in S, IsInjective(s), \A i \in DOMAIN s : s[i] # n
  PROVE  Append(s, n) \in Seq(S) /\ IsInjective(Append(s, n))
<1>1. Append(s, n) \in Seq(S)
  BY Appended
<1>2. IsInjective(Append(s, n))
  BY Appended DEF IsInjective
<1> QED
  BY <1>1, <1>2

PacketsOrUnread == Packets \cup {Unread}

Vectors == [buff : Seq(PacketsOrUnread), capacity : Nat]

(* vector_push (utils/vector.c:12).                                        *)
LEMMA Pushed ==
  ASSUME NEW u \in Vectors, NEW x \in PacketsOrUnread, Fits(u), ~PushPanics(u)
  PROVE  /\ vector_push(u, x) \in Vectors /\ Fits(vector_push(u, x))
         /\ vector_push(u, x).buff = Append(u.buff, x)
<1>1. u.buff \in Seq(PacketsOrUnread) /\ u.capacity \in Nat
  BY DEF Vectors
<1>2. Increment(u) \in Nat /\ Increment(u) >= 1
  BY <1>1 DEF Increment
<1>3. Append(u.buff, x) \in Seq(PacketsOrUnread) /\ Len(Append(u.buff, x)) = Len(u.buff) + 1
      /\ Len(u.buff) \in Nat
  BY <1>1, Appended
<1>4. vector_push(u, x) = [buff |-> Append(u.buff, x),
                           capacity |-> IF IsFull(u) THEN u.capacity + Increment(u) ELSE u.capacity]
  BY DEF vector_push
<1>5. vector_push(u, x) \in Vectors
  BY <1>1, <1>2, <1>3, <1>4 DEF Vectors
<1>6. Fits(vector_push(u, x))
  BY <1>1, <1>2, <1>3, <1>4, VectorAssumption DEF Fits, PushPanics, IsFull
<1> QED
  BY <1>4, <1>5, <1>6

(* The packet of the vector that read fills.                               *)
LEMMA FilledVector ==
  ASSUME NEW u \in Vectors, u.buff # <<>>, NEW x \in Packets, Fits(u)
  PROVE  /\ Filled(u, x) \in Vectors /\ Fits(Filled(u, x))
         /\ Len(Filled(u, x).buff) = Len(u.buff) /\ Len(u.buff) \in Nat \ {0}
         /\ Filled(u, x).buff[Len(u.buff)] = x
         /\ \A k \in 1 .. (Len(u.buff) - 1) : Filled(u, x).buff[k] = u.buff[k]
<1> DEFINE s == u.buff
           t == [s EXCEPT ![Len(s)] = x]
<1>1. /\ s \in Seq(PacketsOrUnread) /\ u.capacity \in Nat /\ x \in PacketsOrUnread
      /\ u = [buff |-> s, capacity |-> u.capacity]
  BY DEF Vectors, PacketsOrUnread
<1>2. Len(s) \in Nat \ {0} /\ Len(s) \in 1 .. Len(s)
  BY <1>1, EmptySeq
<1>3. /\ t \in Seq(PacketsOrUnread) /\ Len(t) = Len(s)
      /\ \A j \in 1 .. Len(s) : t[j] = IF j = Len(s) THEN x ELSE s[j]
  BY <1>1, <1>2, ExceptSeq
<1>4. Filled(u, x).buff = t /\ Filled(u, x).capacity = u.capacity
      /\ Filled(u, x) = [buff |-> t, capacity |-> u.capacity]
  BY <1>1 DEF Filled
<1> HIDE DEF t
<1>5. Filled(u, x) \in Vectors
  BY <1>1, <1>3, <1>4 DEF Vectors
<1>6. Fits(Filled(u, x))
  BY <1>3, <1>4 DEF Fits
<1> QED
  BY <1>2, <1>3, <1>4, <1>5, <1>6

(* vector_sort (utils/vector.c:30): the same packets, in order.            *)
LEMMA SortedVector ==
  ASSUME NEW u \in Vectors, Fits(u), NEW w \in Sorted(u)
  PROVE  /\ w \in Vectors /\ Fits(w) /\ Len(w.buff) = Len(u.buff)
         /\ DOMAIN w.buff = DOMAIN u.buff
         /\ \E f \in Orders(u.buff) : \A i \in DOMAIN u.buff : w.buff[i] = u.buff[f[i]]
<1> DEFINE s == u.buff
           n == Len(s)
<1>1. /\ s \in Seq(PacketsOrUnread) /\ u.capacity \in Nat
      /\ n \in Nat /\ DOMAIN s = 1 .. n /\ \A i \in DOMAIN s : s[i] \in PacketsOrUnread
  BY LenProperties, ElementOfSeq DEF Vectors
<1>2. PICK f \in Orders(s) : w = [u EXCEPT !.buff = [i \in DOMAIN s |-> s[f[i]]]]
  BY DEF Sorted
<1>3. f \in [DOMAIN s -> DOMAIN s]
  BY DEF Orders, Bijection, Injection
<1> DEFINE t == [i \in 1 .. n |-> s[f[i]]]
<1>4. w.buff = t /\ w = [buff |-> t, capacity |-> u.capacity] /\ w.capacity = u.capacity
  BY <1>1, <1>2 DEF Vectors
<1>5. t \in [1 .. n -> PacketsOrUnread]
  BY <1>1, <1>3
<1>6. t \in Seq(PacketsOrUnread) /\ Len(t) = n /\ DOMAIN t = 1 .. n
  BY <1>1, <1>5
<1> HIDE DEF t
<1>7. w \in Vectors
  BY <1>1, <1>4, <1>6 DEF Vectors
<1>8. Fits(w)
  BY <1>4, <1>6 DEF Fits
<1>9. \A i \in DOMAIN s : w.buff[i] = s[f[i]]
  BY <1>1, <1>4 DEF t
<1> QED
  BY <1>1, <1>4, <1>6, <1>7, <1>8, <1>9

(***************************************************************************)
(* Listings: types                                                         *)
(***************************************************************************)

LEMMA ListingTypes ==
  ASSUME ListingTypeOK, NEW m \in Managers
  PROVE  /\ v \in [Managers -> Vectors] /\ v[m] \in Vectors /\ Fits(v[m])
         /\ answer[m] \in Seq(Packets) /\ Len(answer[m]) <= PipeSize
         /\ snapshot[m] \in Seq(BoxNames) /\ boxes \in Seq(BoxNames)
         /\ it[m] \in Nat
BY DEF ListingTypeOK, Vectors, PacketsOrUnread

(* The steps of Conversation, as far as listings are concerned.            *)
ListingStep ==
  \/ ListingNext
  \/ StopListings
  \/ Fault /\ UNCHANGED <<broker, stopped, handler, answer, program>>
  \/ UNCHANGED lvars

LEMMA PacketType ==
  ASSUME NEW l \in Seq(BoxNames), NEW i \in DOMAIN l
  PROVE  PacketOf(l, i) \in Packets
<1>1. l[i] \in BoxNames
  BY ElementOfSeq, LenProperties
<1> QED
  BY <1>1 DEF PacketOf, Packets

(* A FIFO takes one packet more at most, and only if there is room.        *)
LEMMA Writes ==
  ASSUME ListingTypeOK, NEW m \in Managers, NEW packet \in Packets, Write(m, packet)
  PROVE  /\ answer' \in [Managers -> Seq(Packets)]
         /\ \A n \in Managers : Len(answer'[n]) <= PipeSize
         /\ \A n \in Managers : n # m => answer'[n] = answer[n]
         /\ manager[m] \in Running => answer'[m] = Append(answer[m], packet)
<1>1. /\ answer \in [Managers -> Seq(Packets)]
      /\ \A n \in Managers : Len(answer[n]) <= PipeSize
      /\ answer[m] \in Seq(Packets) /\ PipeSize \in Nat
  BY ListingAssumption DEF ListingTypeOK
<1>2. CASE ReaderGone(m) /\ UNCHANGED answer
  BY <1>1, <1>2 DEF ReaderGone
<1>3. CASE Len(answer[m]) < PipeSize /\ answer' = [answer EXCEPT ![m] = Append(answer[m], packet)]
  <2>1. /\ Append(answer[m], packet) \in Seq(Packets)
        /\ Len(Append(answer[m], packet)) = Len(answer[m]) + 1
        /\ Len(answer[m]) \in Nat
    BY <1>1, Appended
  <2>2. Len(answer[m]) + 1 <= PipeSize
    BY <1>1, <1>3, <2>1
  <2> QED
    BY <1>1, <1>3, <2>1, <2>2
<1> QED
  BY <1>2, <1>3 DEF Write

LEMMA ListingTypeInit == ASSUME ListingInit PROVE ListingTypeOK
<1>1. /\ <<>> \in Seq(BoxNames)
      /\ <<>> \in Seq(Packets)
      /\ <<>> \in Seq(Packets \cup {Unread})
      /\ Len(<<>>) = 0
  OBVIOUS
<1>2. vector_create(ListCapacity) = [buff |-> <<>>, capacity |-> ListCapacity]
  BY DEF vector_create
<1>3. vector_create(ListCapacity) \in [buff : Seq(Packets \cup {Unread}), capacity : Nat]
  BY <1>1, <1>2, ListingAssumption
<1>4. Fits(vector_create(ListCapacity))
  BY <1>1, <1>2, ListingAssumption DEF Fits
<1> QED
  BY <1>1, <1>3, <1>4, ListingAssumption DEF ListingInit, ListingTypeOK, Running

LEMMA ListingTypeStep ==
  ASSUME ListingTypeOK, NamesDiffer, \A m \in Managers : HandlerInv(m) /\ ManagerInv(m), ListingStep
  PROVE  ListingTypeOK'
<1> USE DEF Running
<1>0. v \in [Managers -> Vectors] /\ \A m \in Managers : Fits(v[m])
  BY DEF ListingTypeOK, Vectors, PacketsOrUnread
<1>v. ASSUME NEW m \in Managers, NEW w \in Vectors, Fits(w), v' = [v EXCEPT ![m] = w]
      PROVE  /\ v' \in [Managers -> [buff : Seq(Packets \cup {Unread}), capacity : Nat]]
             /\ \A n \in Managers : Fits(v'[n])
  <2>1. v' \in [Managers -> Vectors] /\ \A n \in Managers : Fits(v'[n])
    BY <1>0, <1>v
  <2> QED
    BY <2>1 DEF Vectors, PacketsOrUnread
<1>f. Fault => faults' \in 0 .. MaxFaults
  BY ListingAssumption DEF Fault, ListingTypeOK
<1>1. ASSUME NEW m \in Managers, StartList(m)
      PROVE  ListingTypeOK'
  <2>1. UNCHANGED <<up, boxes, changes, stopped, faults, it, manager, v>>
    BY <1>1 DEF StartList, clients, program
  <2>2. /\ answer' \in [Managers -> Seq(Packets)]
        /\ \A n \in Managers : Len(answer'[n]) <= PipeSize
    <3>1. CASE UNCHANGED answer
      BY <3>1 DEF ListingTypeOK
    <3>2. CASE Write(m, NoBoxes)
      <4>1. NoBoxes \in Packets
        BY DEF NoBoxes, Packets
      <4> QED
        BY <3>2, <4>1, Writes
    <3> QED
      BY <1>1, <3>1, <3>2 DEF StartList, NoBoxes
  <2>3. /\ snapshot' \in [Managers -> Seq(BoxNames)]
        /\ messagesLock' \in Managers \cup {Nobody}
        /\ worker' \in [Managers -> {"dequeued", "writing", "closed"}]
    BY <1>1 DEF StartList, ListingTypeOK
  <2> QED
    BY <2>1, <2>2, <2>3 DEF ListingTypeOK
<1>2. ASSUME NEW m \in Managers, WriteBox(m)
      PROVE  ListingTypeOK'
  <2>1. UNCHANGED <<up, boxes, changes, stopped, faults, snapshot, manager, v>>
    BY <1>2 DEF WriteBox, clients, program
  <2>2. Write(m, PacketOf(boxes, it[m])) /\ PacketOf(boxes, it[m]) \in Packets
    <3>1. Write(m, PacketOf(boxes, it[m]))
      BY <1>2 DEF WriteBox, PacketOf
    <3>2. it[m] \in DOMAIN boxes /\ boxes \in Seq(BoxNames)
      BY <1>2, LenProperties DEF WriteBox, HandlerInv, ListingTypeOK
    <3> QED
      BY <3>1, <3>2, PacketType
  <2>3. /\ answer' \in [Managers -> Seq(Packets)]
        /\ \A n \in Managers : Len(answer'[n]) <= PipeSize
    BY <2>2, Writes
  <2>4. /\ it' \in [Managers -> Nat] /\ messagesLock' \in Managers \cup {Nobody}
        /\ worker' \in [Managers -> {"dequeued", "writing", "closed"}]
    BY <1>2 DEF WriteBox, ListingTypeOK
  <2> QED
    BY <2>1, <2>3, <2>4 DEF ListingTypeOK
<1>3. ASSUME NEW m \in Managers, PushPacket(m)
      PROVE  ListingTypeOK'
  <2>1. UNCHANGED <<up, boxes, changes, messagesLock, stopped, faults, worker, it, answer, snapshot>>
    BY <1>3 DEF PushPacket, broker, clients, handler
  <2>2. CASE UNCHANGED v /\ manager' = [manager EXCEPT ![m] = "panicked"]
    BY <2>1, <2>2 DEF ListingTypeOK
  <2>3. CASE /\ ~PushPanics(v[m]) /\ v' = [v EXCEPT ![m] = vector_push(v[m], Unread)]
             /\ manager' = [manager EXCEPT ![m] = "read"]
    <3>1. vector_push(v[m], Unread) \in Vectors /\ Fits(vector_push(v[m], Unread))
      BY <1>0, <2>3, Pushed DEF PacketsOrUnread
    <3>2. /\ v' \in [Managers -> [buff : Seq(Packets \cup {Unread}), capacity : Nat]]
          /\ \A n \in Managers : Fits(v'[n])
      BY <1>v, <2>3, <3>1
    <3> QED
      BY <2>1, <2>3, <3>2 DEF ListingTypeOK
  <2> QED
    BY <1>3, <2>2, <2>3 DEF PushPacket
<1>4. ASSUME NEW m \in Managers, ReadPacket(m)
      PROVE  ListingTypeOK'
  <2> DEFINE packet == Head(answer[m])
             filled == Filled(v[m], packet)
  <2>1. /\ manager[m] = "read"
        /\ answer[m] # <<>>
        /\ answer' = [answer EXCEPT ![m] = Tail(answer[m])]
        /\ UNCHANGED <<up, boxes, changes, messagesLock, stopped, faults, worker, it, snapshot>>
        /\ manager' \in [Managers -> {"push", "read", "listed", "none", "disconnected", "interrupted", "panicked"}]
        /\ v' = [v EXCEPT ![m] = filled] \/ \E sorted \in Sorted(filled) : v' = [v EXCEPT ![m] = sorted]
    BY <1>4 DEF ReadPacket, broker, clients, handler, ListingTypeOK
  <2>2. /\ packet \in Packets
        /\ Tail(answer[m]) \in Seq(Packets)
        /\ Len(Tail(answer[m])) = Len(answer[m]) - 1
        /\ Len(answer[m]) \in Nat /\ Len(answer[m]) <= PipeSize
    BY <2>1, Taken, ListingTypes
  <2>3. v[m].buff # <<>>
    BY <2>1 DEF ManagerInv
  <2>4. filled \in Vectors /\ Fits(filled)
    BY <1>0, <2>2, <2>3, FilledVector
  <2> HIDE DEF filled, packet
  <2>5. /\ v' \in [Managers -> [buff : Seq(Packets \cup {Unread}), capacity : Nat]]
        /\ \A n \in Managers : Fits(v'[n])
    BY <1>v, <2>1, <2>4, SortedVector
  <2>6. /\ answer' \in [Managers -> Seq(Packets)]
        /\ \A n \in Managers : Len(answer'[n]) <= PipeSize
    <3>1. Len(answer[m]) - 1 <= PipeSize
      BY <2>2, ListingAssumption
    <3> QED
      BY <2>1, <2>2, <3>1 DEF ListingTypeOK
  <2> QED
    BY <2>1, <2>5, <2>6 DEF ListingTypeOK
<1>5. ASSUME NEW m \in Managers, ServerDisconnected(m) \/ InterruptManager(m)
      PROVE  ListingTypeOK'
  BY <1>5, <1>f DEF ServerDisconnected, InterruptManager, broker, clients, handler,
     ListingTypeOK
<1>6. ASSUME NEW c \in Suspendable, Suspend(c)
      PROVE  ListingTypeOK'
  BY <1>6, <1>f DEF Suspend, broker, handler, program, ListingTypeOK
<1>7. CASE ChangeBoxes
  <2>1. boxes' \in Seq(BoxNames)
    <3>1. ASSUME NEW n \in BoxNames, boxes' = Append(boxes, n) PROVE boxes' \in Seq(BoxNames)
      BY <3>1, Appended DEF ListingTypeOK
    <3>2. ASSUME NEW i \in DOMAIN boxes, boxes' = RemoveAt(boxes, i) PROVE boxes' \in Seq(BoxNames)
      BY <3>2, StillDiffer DEF ListingTypeOK, NamesDiffer
    <3> QED
      BY <1>7, <3>1, <3>2 DEF ChangeBoxes
  <2>2. changes' \in 0 .. MaxChanges
    BY <1>7, ListingAssumption DEF ChangeBoxes, ListingTypeOK
  <2> QED
    BY <1>7, <2>1, <2>2 DEF ChangeBoxes, clients, handler, program, ListingTypeOK
<1>8. CASE StopListings
  BY <1>8 DEF StopListings, clients, program, ListingTypeOK
<1>9. CASE Fault /\ UNCHANGED <<broker, stopped, handler, answer, program>>
  BY <1>9, <1>f DEF broker, handler, program, ListingTypeOK
<1>10. CASE UNCHANGED lvars
  BY <1>10 DEF lvars, broker, clients, handler, program, ListingTypeOK
<1> QED
  BY <1>1, <1>2, <1>3, <1>4, <1>5, <1>6, <1>7, <1>8, <1>9, <1>10
  DEF ListingStep, ListingNext, HandlerStep, ManagerStep

(***************************************************************************)
(* Listings: what is on the way                                            *)
(***************************************************************************)

LEMMA ListingStart == ASSUME ListingInit PROVE ListingInv
<1>1. ListingTypeOK
  BY ListingTypeInit
<1>2. NamesDiffer
  BY ListingAssumption DEF ListingInit, NamesDiffer, IsInjective
<1>3. ASSUME NEW m \in Managers
      PROVE  HandlerInv(m) /\ ManagerInv(m) /\ IsSnapshot(m)
  <2>1. /\ worker[m] = "dequeued" /\ it[m] = 1 /\ answer[m] = <<>> /\ manager[m] = "push"
        /\ snapshot[m] = <<>> /\ v[m].buff = <<>>
    BY DEF ListingInit, vector_create
  <2>2. Received(m) = 0
    BY <2>1 DEF Received
  <2> QED
    BY <2>1, <2>2 DEF HandlerInv, ManagerInv, EmptyInv, PacketsInv, IsSnapshot
<1> QED
  BY <1>1, <1>2, <1>3 DEF ListingInv

(* What a step does not change of the listing of m stays right, unless its *)
(* handler writes and loses the lock or the list.                          *)
LEMMA ListingFrame ==
  ASSUME NEW m \in Managers, HandlerInv(m), ManagerInv(m), IsSnapshot(m),
         it'[m] = it[m], answer'[m] = answer[m], v'[m] = v[m], snapshot'[m] = snapshot[m],
         manager'[m] = manager[m],
         \/ worker'[m] = worker[m] /\ (worker[m] = "writing" => UNCHANGED <<up, messagesLock, boxes>>)
         \/ worker'[m] = "closed"
  PROVE  HandlerInv(m)' /\ ManagerInv(m)' /\ IsSnapshot(m)'
<1>1. Received(m)' = Received(m)
  BY DEF Received
<1>2. HandlerInv(m)'
  BY DEF HandlerInv
<1>3. ManagerInv(m)'
  BY <1>1 DEF ManagerInv, EmptyInv, PacketsInv
<1>4. IsSnapshot(m)'
  BY DEF IsSnapshot
<1> QED
  BY <1>2, <1>3, <1>4

(* A manager that ends without an answer.                                  *)
LEMMA ListingOver ==
  ASSUME NEW m \in Managers, HandlerInv(m), ManagerInv(m), IsSnapshot(m),
         UNCHANGED <<up, messagesLock, boxes>>,
         it'[m] = it[m], answer'[m] = answer[m], snapshot'[m] = snapshot[m], worker'[m] = worker[m],
         manager'[m] \in {"disconnected", "interrupted", "panicked"}
  PROVE  HandlerInv(m)' /\ ManagerInv(m)' /\ IsSnapshot(m)'
BY DEF HandlerInv, ManagerInv, IsSnapshot, Running

(* Two handlers do not write at the same time.                             *)
LEMMA LockHeld ==
  ASSUME NEW m \in Managers, HandlerInv(m), messagesLock = Nobody \/ ~up
  PROVE  worker[m] # "writing"
BY ListingAssumption DEF HandlerInv

LEMMA StartListStep ==
  ASSUME ListingInv, NEW m \in Managers, StartList(m)
  PROVE  \A n \in Managers : HandlerInv(n)' /\ ManagerInv(n)' /\ IsSnapshot(n)'
<1>1. /\ worker[m] = "dequeued" /\ up /\ messagesLock = Nobody
      /\ snapshot' = [snapshot EXCEPT ![m] = boxes]
      /\ \/ /\ boxes = <<>> /\ Write(m, NoBoxes)
            /\ worker' = [worker EXCEPT ![m] = "closed"]
         \/ /\ boxes # <<>> /\ messagesLock' = m /\ answer' = answer
            /\ worker' = [worker EXCEPT ![m] = "writing"]
      /\ UNCHANGED <<up, boxes, it, manager, v>>
  BY DEF StartList, LockFree, NoBoxes, program
<1>2. /\ snapshot'[m] = boxes /\ boxes \in Seq(BoxNames)
      /\ snapshot[m] = <<>>
      /\ answer[m] = <<>>
      /\ it[m] = 1
      /\ manager[m] \notin {"listed", "none"}
  BY <1>1 DEF ListingInv, ListingTypeOK, HandlerInv
<1>3. /\ \A n \in Managers : n # m => answer'[n] = answer[n]
      /\ boxes = <<>> /\ manager[m] \in Running => answer'[m] = <<NoBoxes>>
  <2>1. CASE answer' = answer /\ boxes # <<>>
    BY <2>1
  <2>2. CASE Write(m, NoBoxes)
    <3>1. NoBoxes \in Packets
      BY DEF NoBoxes, Packets
    <3>2. Append(answer[m], NoBoxes) = <<NoBoxes>>
      BY <1>2
    <3> QED
      BY <2>2, <3>1, <3>2, Writes DEF ListingInv
  <2> QED
    BY <1>1, <2>1, <2>2
<1>4. ASSUME NEW n \in Managers, n # m
      PROVE  HandlerInv(n)' /\ ManagerInv(n)' /\ IsSnapshot(n)'
  <2>1. worker[n] # "writing"
    BY <1>1, LockHeld DEF ListingInv
  <2>2. worker'[n] = worker[n] /\ snapshot'[n] = snapshot[n]
    BY <1>1, <1>4 DEF ListingInv, ListingTypeOK
  <2> QED
    BY <1>1, <1>3, <1>4, <2>1, <2>2, ListingFrame DEF ListingInv
<1>5. HandlerInv(m)'
  <2>1. boxes # <<>> => 1 \in 1 .. Len(boxes)
    BY <1>2, EmptySeq
  <2> QED
    BY <1>1, <1>2, <2>1 DEF HandlerInv, ListingInv, ListingTypeOK
<1>6. IsSnapshot(m)'
  BY <1>1, <1>2 DEF IsSnapshot
<1>7. ManagerInv(m)'
  <2>1. manager[m] = "read" => v[m].buff # <<>>
    BY DEF ListingInv, ManagerInv
  <2>2. ASSUME manager[m] \in Running PROVE EmptyInv(m)' /\ PacketsInv(m)'
    <3>1. Received(m)' = 0
      <4>1. Received(m) = 0
        BY <1>2, <2>2 DEF ListingInv, ManagerInv, EmptyInv
      <4> QED
        BY <1>1, <4>1 DEF Received
    <3>2. EmptyInv(m)'
      BY <1>2, <1>3, <2>2, <3>1 DEF EmptyInv
    <3>3. PacketsInv(m)'
      <4> SUFFICES ASSUME boxes # <<>> PROVE PacketsInv(m)'
        BY <1>2 DEF PacketsInv
      <4>1. answer'[m] = <<>> /\ it'[m] = 1 /\ Len(boxes) > 0
        BY <1>1, <1>2, EmptySeq
      <4> QED
        BY <1>2, <3>1, <4>1 DEF PacketsInv
    <3> QED
      BY <3>2, <3>3
  <2> QED
    BY <1>1, <2>1, <2>2 DEF ManagerInv
<1> QED
  BY <1>4, <1>5, <1>6, <1>7

LEMMA WriteBoxStep ==
  ASSUME ListingInv, NEW m \in Managers, WriteBox(m)
  PROVE  \A n \in Managers : HandlerInv(n)' /\ ManagerInv(n)' /\ IsSnapshot(n)'
<1> DEFINE i == it[m]
           packet == PacketOf(boxes, i)
<1>1. /\ worker[m] = "writing" /\ Write(m, packet)
      /\ worker' = [worker EXCEPT ![m] = IF i = Len(boxes) THEN "closed" ELSE "writing"]
      /\ messagesLock' = IF i = Len(boxes) THEN Nobody ELSE messagesLock
      /\ it' = [it EXCEPT ![m] = i + 1]
      /\ UNCHANGED <<up, boxes, snapshot, manager, v>>
  BY DEF WriteBox, PacketOf, program, ListingInv, ListingTypeOK
<1>2. /\ up /\ messagesLock = m /\ snapshot[m] = boxes
      /\ i \in 1 .. Len(boxes) /\ boxes \in Seq(BoxNames) /\ Len(boxes) \in Nat
      /\ it \in [Managers -> Nat]
      /\ worker \in [Managers -> {"dequeued", "writing", "closed"}]
  BY <1>1 DEF ListingInv, ListingTypeOK, HandlerInv
<1>3. packet \in Packets
  BY <1>2, PacketType, LenProperties
<1>4. /\ \A n \in Managers : n # m => answer'[n] = answer[n]
      /\ manager[m] \in Running => answer'[m] = Append(answer[m], packet)
  BY <1>1, <1>3, Writes DEF ListingInv
<1>5. ASSUME NEW n \in Managers, n # m
      PROVE  HandlerInv(n)' /\ ManagerInv(n)' /\ IsSnapshot(n)'
  <2>1. worker[n] # "writing"
    BY <1>2, <1>5 DEF ListingInv, HandlerInv
  <2>2. worker'[n] = worker[n] /\ it'[n] = it[n]
    BY <1>1, <1>2, <1>5
  <2> QED
    BY <1>1, <1>4, <1>5, <2>1, <2>2, ListingFrame DEF ListingInv
<1>6. HandlerInv(m)'
  <2>1. CASE i = Len(boxes)
    BY <1>1, <1>2, <2>1 DEF HandlerInv
  <2>2. CASE i # Len(boxes)
    <3>1. i + 1 \in 1 .. Len(boxes)
      BY <1>2, <2>2
    <3> QED
      BY <1>1, <1>2, <2>2, <3>1 DEF HandlerInv
  <2> QED
    BY <2>1, <2>2
<1>7. IsSnapshot(m)'
  BY <1>1 DEF IsSnapshot, ListingInv
<1>8. ManagerInv(m)'
  <2> SUFFICES ASSUME manager[m] \in Running PROVE EmptyInv(m)' /\ PacketsInv(m)'
    BY <1>1 DEF ManagerInv, ListingInv
  <2>1. snapshot[m] # <<>> /\ boxes # <<>>
    BY <1>2
  <2>2. Received(m)' = Received(m)
    BY <1>1 DEF Received
  <2>3. /\ Received(m) < Len(boxes) /\ Received(m) + Len(answer[m]) = i - 1
        /\ \A k \in 1 .. Received(m) : v[m].buff[k] = PacketOf(boxes, k)
        /\ \A k \in DOMAIN answer[m] : answer[m][k] = PacketOf(boxes, Received(m) + k)
    BY <1>2, <2>1 DEF ListingInv, ManagerInv, PacketsInv
  <2>4. /\ answer'[m] = Append(answer[m], packet) /\ it'[m] = i + 1
        /\ answer[m] \in Seq(Packets) /\ Len(answer[m]) \in Nat
    BY <1>1, <1>2, <1>4 DEF ListingInv, ListingTypeOK
  <2>5. Received(m) \in Int
    BY ListingTypes, LenProperties DEF Received, ListingInv, Vectors
  <2>6. /\ Len(answer'[m]) = Len(answer[m]) + 1
        /\ DOMAIN answer'[m] = 1 .. (Len(answer[m]) + 1)
        /\ answer'[m][Len(answer[m]) + 1] = packet
        /\ \A k \in 1 .. Len(answer[m]) : answer'[m][k] = answer[m][k]
        /\ DOMAIN answer[m] = 1 .. Len(answer[m])
    BY <1>3, <2>4, Appended
  <2>7. ASSUME NEW k \in DOMAIN answer'[m]
        PROVE  answer'[m][k] = PacketOf(boxes, Received(m) + k)
    <3>1. CASE k \in 1 .. Len(answer[m])
      BY <2>3, <2>6, <3>1
    <3>2. CASE k = Len(answer[m]) + 1
      <4>1. Received(m) + k = i
        BY <1>2, <2>3, <2>4, <2>5, <3>2
      <4> QED
        BY <2>6, <3>2, <4>1
    <3> QED
      BY <2>4, <2>6, <3>1, <3>2
  <2>8. Received(m) + Len(answer'[m]) = (i + 1) - 1
    BY <1>2, <2>3, <2>4, <2>5, <2>6
  <2>9. PacketsInv(m)'
    BY <1>1, <1>2, <2>2, <2>3, <2>4, <2>7, <2>8 DEF PacketsInv
  <2>10. EmptyInv(m)'
    BY <1>1, <2>1 DEF EmptyInv
  <2> QED
    BY <2>9, <2>10
<1> QED
  BY <1>5, <1>6, <1>7, <1>8

LEMMA PushPacketStep ==
  ASSUME ListingInv, NEW m \in Managers, PushPacket(m)
  PROVE  \A n \in Managers : HandlerInv(n)' /\ ManagerInv(n)' /\ IsSnapshot(n)'
<1>1. /\ manager[m] = "push"
      /\ UNCHANGED <<up, boxes, messagesLock, worker, it, snapshot, answer>>
      /\ \/ manager' = [manager EXCEPT ![m] = "panicked"] /\ v' = v
         \/ /\ ~PushPanics(v[m]) /\ v' = [v EXCEPT ![m] = vector_push(v[m], Unread)]
            /\ manager' = [manager EXCEPT ![m] = "read"]
  BY DEF PushPacket, broker, handler
<1>2. v \in [Managers -> Vectors] /\ v[m] \in Vectors /\ Fits(v[m]) /\ m \in DOMAIN manager
      /\ HandlerInv(m) /\ ManagerInv(m) /\ IsSnapshot(m)
  BY ListingTypes DEF ListingInv, ListingTypeOK
<1>3. ASSUME NEW n \in Managers, n # m
      PROVE  HandlerInv(n)' /\ ManagerInv(n)' /\ IsSnapshot(n)'
  <2>1. v'[n] = v[n] /\ manager'[n] = manager[n]
    BY <1>1, <1>2, <1>3 DEF ListingInv, ListingTypeOK
  <2> QED
    BY <1>1, <2>1, ListingFrame DEF ListingInv
<1>4. CASE manager' = [manager EXCEPT ![m] = "panicked"]
  <2>1. manager'[m] = "panicked"
    BY <1>2, <1>4
  <2>2. HandlerInv(m)' /\ ManagerInv(m)' /\ IsSnapshot(m)'
    BY <1>1, <1>2, <2>1, ListingOver
  <2> QED
    BY <1>3, <2>2
<1>5. CASE /\ ~PushPanics(v[m]) /\ v' = [v EXCEPT ![m] = vector_push(v[m], Unread)]
           /\ manager' = [manager EXCEPT ![m] = "read"]
  <2>1. manager'[m] = "read" /\ v'[m] = vector_push(v[m], Unread)
    BY <1>2, <1>5
  <2>2. /\ v'[m].buff = Append(v[m].buff, Unread)
        /\ v[m].buff \in Seq(PacketsOrUnread)
        /\ Unread \in PacketsOrUnread
    BY <1>2, <1>5, <2>1, Pushed DEF PacketsOrUnread, Vectors
  <2>3. /\ Len(v'[m].buff) = Len(v[m].buff) + 1 /\ Len(v[m].buff) \in Nat
        /\ \A k \in 1 .. Len(v[m].buff) : v'[m].buff[k] = v[m].buff[k]
        /\ v'[m].buff # <<>>
    BY <2>2, Appended
  <2>4. Received(m)' = Received(m) /\ Received(m) = Len(v[m].buff)
    BY <1>1, <2>1, <2>3 DEF Received
  <2>5. ManagerInv(m)'
    BY <1>1, <1>2, <2>1, <2>3, <2>4 DEF ManagerInv, Running, EmptyInv, PacketsInv
  <2>6. HandlerInv(m)' /\ IsSnapshot(m)'
    BY <1>1, <1>2, <2>1 DEF HandlerInv, IsSnapshot
  <2> QED
    BY <1>3, <2>5, <2>6
<1> QED
  BY <1>1, <1>4, <1>5

(* The packets of a list, each at its place, sorted: what is printed.      *)
LEMMA PrintedSorted ==
  ASSUME NEW l \in Seq(BoxNames), IsInjective(l), NEW u \in Vectors, Fits(u), Len(u.buff) = Len(l),
         \A k \in 1 .. Len(l) : u.buff[k] = PacketOf(l, k), NEW w \in Sorted(u)
  PROVE  /\ Len(w.buff) = Len(l)
         /\ {w.buff[i] : i \in DOMAIN w.buff} = {PacketOf(l, i) : i \in DOMAIN l}
         /\ \A i, j \in DOMAIN w.buff : i < j => w.buff[i].box_name < w.buff[j].box_name
<1>1. /\ Len(l) \in Nat /\ DOMAIN l = 1 .. Len(l) /\ DOMAIN u.buff = 1 .. Len(l)
      /\ \A i \in 1 .. Len(l) : l[i] \in Nat
  <2>1. u.buff \in Seq(PacketsOrUnread)
    BY DEF Vectors
  <2>2. \A i \in 1 .. Len(l) : l[i] \in BoxNames
    BY ElementOfSeq
  <2> QED
    BY <2>1, <2>2, LenProperties, ListingAssumption
<1>2. PICK f \in Orders(u.buff) : \A i \in DOMAIN u.buff : w.buff[i] = u.buff[f[i]]
  BY SortedVector
<1>3. DOMAIN w.buff = 1 .. Len(l) /\ Len(w.buff) = Len(l)
  BY <1>1, SortedVector
<1>4. /\ \A i \in 1 .. Len(l) : f[i] \in 1 .. Len(l)
      /\ \A i, j \in 1 .. Len(l) : f[i] = f[j] => i = j
      /\ \A k \in 1 .. Len(l) : \E i \in 1 .. Len(l) : f[i] = k
      /\ \A i, j \in 1 .. Len(l) : i < j => ~ByName(u.buff[f[j]], u.buff[f[i]])
  <2>1. f \in Bijection(1 .. Len(l), 1 .. Len(l))
    BY <1>1 DEF Orders
  <2>2. f \in [1 .. Len(l) -> 1 .. Len(l)] /\ IsInjective(f)
    BY <2>1 DEF Bijection, Injection
  <2>3. \A k \in 1 .. Len(l) : \E i \in 1 .. Len(l) : f[i] = k
    BY <2>1 DEF Bijection, Surjection
  <2> QED
    BY <1>1, <2>2, <2>3 DEF Orders, IsInjective
<1>5. ASSUME NEW i \in 1 .. Len(l)
      PROVE  /\ w.buff[i] = PacketOf(l, f[i])
             /\ u.buff[f[i]].box_name = l[f[i]]
             /\ l[f[i]] \in Nat
  <2>1. w.buff[i] = u.buff[f[i]]
    BY <1>1, <1>2
  <2>2. f[i] \in 1 .. Len(l)
    BY <1>4
  <2>3. u.buff[f[i]] = PacketOf(l, f[i]) /\ l[f[i]] \in Nat
    BY <1>1, <2>2
  <2>4. PacketOf(l, f[i]).box_name = l[f[i]]
    BY DEF PacketOf
  <2> QED
    BY <2>1, <2>3, <2>4
<1>6. {w.buff[i] : i \in DOMAIN w.buff} = {PacketOf(l, i) : i \in DOMAIN l}
  <2>1. \A i \in 1 .. Len(l) : \E k \in 1 .. Len(l) : w.buff[i] = PacketOf(l, k)
    BY <1>4, <1>5
  <2>2. \A k \in 1 .. Len(l) : \E i \in 1 .. Len(l) : w.buff[i] = PacketOf(l, k)
    <3> SUFFICES ASSUME NEW k \in 1 .. Len(l)
                 PROVE  \E i \in 1 .. Len(l) : w.buff[i] = PacketOf(l, k)
      OBVIOUS
    <3>1. PICK i \in 1 .. Len(l) : f[i] = k
      BY <1>4
    <3>2. w.buff[i] = PacketOf(l, k)
      BY <1>5, <3>1
    <3> QED
      BY <3>2
  <2>3. /\ {w.buff[i] : i \in DOMAIN w.buff} = {w.buff[i] : i \in 1 .. Len(l)}
        /\ {PacketOf(l, i) : i \in DOMAIN l} = {PacketOf(l, i) : i \in 1 .. Len(l)}
    BY <1>1, <1>3
  <2>4. {w.buff[i] : i \in 1 .. Len(l)} = {PacketOf(l, i) : i \in 1 .. Len(l)}
    <3>1. {w.buff[i] : i \in 1 .. Len(l)} \subseteq {PacketOf(l, i) : i \in 1 .. Len(l)}
      BY <2>1
    <3>2. {PacketOf(l, i) : i \in 1 .. Len(l)} \subseteq {w.buff[i] : i \in 1 .. Len(l)}
      BY <2>2
    <3> QED
      BY <3>1, <3>2
  <2> QED
    BY <2>3, <2>4
<1>7. ASSUME NEW i \in 1 .. Len(l), NEW j \in 1 .. Len(l), i < j
      PROVE  w.buff[i].box_name < w.buff[j].box_name
  <2>1. ~(u.buff[f[j]].box_name < u.buff[f[i]].box_name)
    BY <1>4, <1>7 DEF ByName
  <2>2. /\ w.buff[i] = u.buff[f[i]] /\ u.buff[f[i]].box_name = l[f[i]] /\ l[f[i]] \in Nat
        /\ w.buff[j] = u.buff[f[j]] /\ u.buff[f[j]].box_name = l[f[j]] /\ l[f[j]] \in Nat
    BY <1>1, <1>2, <1>5
  <2>3. f[i] # f[j] /\ f[i] \in DOMAIN l /\ f[j] \in DOMAIN l
    <3>1. i \in Int /\ j \in Int
      BY <1>1
    <3>2. i # j
      BY <3>1, <1>7
    <3> QED
      BY <1>1, <1>4, <3>2
  <2>4. l[f[i]] # l[f[j]]
    BY <2>3 DEF IsInjective
  <2> QED
    BY <2>1, <2>2, <2>4
<1>8. \A i, j \in DOMAIN w.buff : i < j => w.buff[i].box_name < w.buff[j].box_name
  BY <1>3, <1>7
<1> QED
  BY <1>3, <1>6, <1>8

LEMMA ReadPacketStep ==
  ASSUME ListingInv, NEW m \in Managers, ReadPacket(m)
  PROVE  \A n \in Managers : HandlerInv(n)' /\ ManagerInv(n)' /\ IsSnapshot(n)'
<1> DEFINE packet == Head(answer[m])
           filled == Filled(v[m], packet)
           l == snapshot[m]
           r == Received(m)
<1>1. /\ manager[m] = "read" /\ answer[m] # <<>>
      /\ answer' = [answer EXCEPT ![m] = Tail(answer[m])]
      /\ UNCHANGED <<up, boxes, messagesLock, worker, it, snapshot>>
      /\ \/ /\ SaysNoBoxes(packet) /\ manager' = [manager EXCEPT ![m] = "none"]
            /\ v' = [v EXCEPT ![m] = filled]
         \/ /\ ~packet.is_last /\ manager' = [manager EXCEPT ![m] = "push"]
            /\ v' = [v EXCEPT ![m] = filled]
         \/ /\ ~SaysNoBoxes(packet) /\ packet.is_last
            /\ manager' = [manager EXCEPT ![m] = "listed"]
            /\ \E sorted \in Sorted(filled) : v' = [v EXCEPT ![m] = sorted]
  BY DEF ReadPacket, broker, handler
<1>2. /\ v \in [Managers -> Vectors]
      /\ v[m] \in Vectors
      /\ Fits(v[m])
      /\ m \in DOMAIN manager
      /\ answer[m] \in Seq(Packets) /\ m \in DOMAIN answer /\ l \in Seq(BoxNames)
      /\ HandlerInv(m) /\ ManagerInv(m) /\ IsInjective(l)
  BY ListingTypes DEF ListingInv, ListingTypeOK, NamesDiffer
<1>3. /\ packet \in Packets /\ packet = answer[m][1]
      /\ Len(answer[m]) \in Nat
      /\ Len(answer[m]) > 0
      /\ DOMAIN answer[m] = 1 .. Len(answer[m])
      /\ DOMAIN Tail(answer[m]) = 1 .. (Len(answer[m]) - 1)
      /\ Len(Tail(answer[m])) = Len(answer[m]) - 1
      /\ \A k \in 1 .. (Len(answer[m]) - 1) : Tail(answer[m])[k] = answer[m][k + 1]
  BY <1>1, <1>2, Taken
<1>4. v[m].buff # <<>>
  BY <1>1, <1>2 DEF ManagerInv
<1>5. /\ filled \in Vectors /\ Fits(filled) /\ Len(filled.buff) = Len(v[m].buff)
      /\ r = Len(v[m].buff) - 1 /\ r \in Nat /\ Len(v[m].buff) = r + 1
      /\ filled.buff[r + 1] = packet /\ \A k \in 1 .. r : filled.buff[k] = v[m].buff[k]
  BY <1>1, <1>2, <1>3, <1>4, FilledVector DEF Received
<1>6. EmptyInv(m) /\ PacketsInv(m)
  BY <1>1, <1>2 DEF ManagerInv, Running
<1> HIDE DEF packet, filled
<1>7. ASSUME NEW n \in Managers, n # m
      PROVE  HandlerInv(n)' /\ ManagerInv(n)' /\ IsSnapshot(n)'
  <2>1. v'[n] = v[n] /\ manager'[n] = manager[n] /\ answer'[n] = answer[n]
    BY <1>1, <1>2, <1>7 DEF ListingInv, ListingTypeOK
  <2> QED
    BY <1>1, <2>1, ListingFrame DEF ListingInv
<1>8. HandlerInv(m)'
  <2>1. worker[m] # "dequeued"
    BY <1>1, <1>2 DEF HandlerInv
  <2> QED
    BY <1>1, <1>2, <2>1 DEF HandlerInv
<1>9. l = <<>> => packet = NoBoxes
  BY <1>1, <1>3, <1>6 DEF EmptyInv
<1>10. l # <<>> =>
         /\ r < Len(l) /\ r + Len(answer[m]) = it[m] - 1 /\ Len(l) \in Nat
         /\ packet = PacketOf(l, r + 1)
         /\ \A k \in 1 .. (r + 1) : filled.buff[k] = PacketOf(l, k)
         /\ packet.is_last = (r + 1 = Len(l)) /\ packet.box_name = l[r + 1]
  <2> SUFFICES ASSUME l # <<>>
               PROVE  /\ r < Len(l) /\ r + Len(answer[m]) = it[m] - 1 /\ Len(l) \in Nat
                      /\ packet = PacketOf(l, r + 1)
                      /\ \A k \in 1 .. (r + 1) : filled.buff[k] = PacketOf(l, k)
                      /\ packet.is_last = (r + 1 = Len(l)) /\ packet.box_name = l[r + 1]
    OBVIOUS
  <2>1. /\ r < Len(l) /\ r + Len(answer[m]) = it[m] - 1 /\ Len(l) \in Nat
        /\ packet = PacketOf(l, r + 1)
        /\ \A k \in 1 .. r : v[m].buff[k] = PacketOf(l, k)
    BY <1>2, <1>3, <1>6, LenProperties DEF PacketsInv
  <2>2. \A k \in 1 .. (r + 1) : filled.buff[k] = PacketOf(l, k)
    BY <1>5, <2>1
  <2> QED
    BY <2>1, <2>2 DEF PacketOf
<1>11. CASE /\ SaysNoBoxes(packet) /\ manager' = [manager EXCEPT ![m] = "none"]
            /\ v' = [v EXCEPT ![m] = filled]
  <2>1. manager'[m] = "none"
    BY <1>2, <1>11
  <2>2. l = <<>> \/ l[Len(l)] = EmptyName
    BY <1>10, <1>11 DEF SaysNoBoxes
  <2> QED
    BY <1>1, <1>7, <1>8, <2>1, <2>2 DEF IsSnapshot, ManagerInv, Running
<1>12. CASE /\ ~packet.is_last /\ manager' = [manager EXCEPT ![m] = "push"]
            /\ v' = [v EXCEPT ![m] = filled]
  <2>1. /\ manager'[m] = "push"
        /\ v'[m] = filled
        /\ answer'[m] = Tail(answer[m])
        /\ it'[m] = it[m]
    BY <1>1, <1>2, <1>12
  <2>2. l # <<>>
    BY <1>9, <1>12 DEF NoBoxes
  <2>3. Received(m)' = r + 1
    BY <1>5, <2>1 DEF Received
  <2>4. PacketsInv(m)'
    <3>1. r + 1 < Len(l) /\ (r + 1) + Len(Tail(answer[m])) = it[m] - 1
      <4>1. /\ r \in Nat /\ Len(l) \in Nat /\ Len(answer[m]) \in Nat /\ it[m] \in Nat
            /\ r < Len(l) /\ r + 1 # Len(l) /\ r + Len(answer[m]) = it[m] - 1
        BY <1>3, <1>5, <1>10, <1>12, <2>2, ListingTypes DEF ListingInv
      <4>2. r + 1 < Len(l)
        BY <4>1
      <4>3. (r + 1) + (Len(answer[m]) - 1) = r + Len(answer[m])
        BY <4>1
      <4>4. r + 1 < Len(l) /\ (r + 1) + (Len(answer[m]) - 1) = it[m] - 1
        BY <4>1, <4>2, <4>3
      <4>5. Len(Tail(answer[m])) = Len(answer[m]) - 1
        BY <1>3
      <4> QED
        BY <4>4, <4>5, Zenon
    <3>2. \A k \in DOMAIN Tail(answer[m]) : Tail(answer[m])[k] = PacketOf(l, (r + 1) + k)
      <4> SUFFICES ASSUME NEW k \in 1 .. (Len(answer[m]) - 1)
                   PROVE  answer[m][k + 1] = PacketOf(l, (r + 1) + k)
        BY <1>3
      <4>1. k + 1 \in DOMAIN answer[m] /\ r + (k + 1) = (r + 1) + k
        <5>1. r \in Nat /\ Len(answer[m]) \in Nat /\ k \in 1 .. (Len(answer[m]) - 1)
          BY <1>3, <1>5
        <5>2. DOMAIN answer[m] = 1 .. Len(answer[m])
          BY <1>3
        <5>3. k + 1 \in 1 .. Len(answer[m])
          BY <5>1
        <5>4. r + (k + 1) = (r + 1) + k
          <6> HIDE DEF r
          <6> QED
            BY <5>1
        <5> QED
          BY <5>2, <5>3, <5>4
      <4>2. answer[m][k + 1] = PacketOf(l, r + (k + 1))
        BY <1>6, <2>2, <4>1 DEF PacketsInv
      <4> QED
        BY <4>1, <4>2
    <3> QED
      BY <1>1, <1>10, <2>1, <2>2, <2>3, <3>1, <3>2 DEF PacketsInv
  <2>5. EmptyInv(m)'
    BY <1>1, <2>2 DEF EmptyInv
  <2> QED
    BY <1>7, <1>8, <2>1, <2>4, <2>5 DEF ManagerInv, IsSnapshot
<1>13. CASE /\ ~SaysNoBoxes(packet) /\ packet.is_last
            /\ manager' = [manager EXCEPT ![m] = "listed"]
            /\ \E sorted \in Sorted(filled) : v' = [v EXCEPT ![m] = sorted]
  <2>1. PICK sorted \in Sorted(filled) : v' = [v EXCEPT ![m] = sorted]
    BY <1>13
  <2>2. manager'[m] = "listed" /\ v'[m] = sorted /\ snapshot'[m] = l
    BY <1>1, <1>2, <1>13, <2>1
  <2>3. l # <<>>
    BY <1>9, <1>13 DEF NoBoxes, SaysNoBoxes
  <2>4. Len(filled.buff) = Len(l) /\ \A k \in 1 .. Len(l) : filled.buff[k] = PacketOf(l, k)
    BY <1>5, <1>10, <1>13, <2>3
  <2>5. IsSnapshot(m)'
    <3> HIDE DEF l
    <3>1. /\ Len(sorted.buff) = Len(l)
          /\ {sorted.buff[i] : i \in DOMAIN sorted.buff} = {PacketOf(l, i) : i \in DOMAIN l}
          /\ \A i, j \in DOMAIN sorted.buff :
               i < j => sorted.buff[i].box_name < sorted.buff[j].box_name
      BY <1>2, <1>5, <2>1, <2>4, PrintedSorted
    <3> QED
      BY <2>2, <3>1 DEF IsSnapshot
  <2> QED
    BY <1>7, <1>8, <2>2, <2>5 DEF ManagerInv, Running
<1> QED
  BY <1>1, <1>11, <1>12, <1>13

LEMMA ListingInvStep ==
  ASSUME ListingInv, ListingStep
  PROVE  ListingInv'
<1>1. ListingTypeOK'
  BY ListingTypeStep DEF ListingInv
<1>2. NamesDiffer'
  <2>1. ASSUME NEW m \in Managers, StartList(m) PROVE NamesDiffer'
    BY <2>1 DEF StartList, NamesDiffer, ListingInv, ListingTypeOK
  <2>2. CASE ChangeBoxes
    <3>1. IsInjective(boxes')
      <4>1. ASSUME NEW n \in BoxNames \ Listed, boxes' = Append(boxes, n) PROVE IsInjective(boxes')
        BY <4>1, NewName DEF Listed, NamesDiffer, ListingInv, ListingTypeOK
      <4>2. ASSUME NEW i \in DOMAIN boxes, boxes' = RemoveAt(boxes, i) PROVE IsInjective(boxes')
        BY <4>2, StillDiffer DEF NamesDiffer, ListingInv, ListingTypeOK
      <4> QED
        BY <2>2, <4>1, <4>2 DEF ChangeBoxes
    <3> QED
      BY <2>2, <3>1 DEF ChangeBoxes, handler, NamesDiffer, ListingInv
  <2>3. CASE UNCHANGED <<boxes, snapshot>>
    BY <2>3 DEF NamesDiffer, ListingInv
  <2> QED
    BY <2>1, <2>2, <2>3
    DEF ListingStep, ListingNext, HandlerStep, ManagerStep, WriteBox, PushPacket,
       ReadPacket,
        ServerDisconnected, InterruptManager, Suspend, StopListings, broker, handler, lvars
<1>3. \A m \in Managers : HandlerInv(m)' /\ ManagerInv(m)' /\ IsSnapshot(m)'
  <2>1. ASSUME NEW m \in Managers, ServerDisconnected(m) \/ InterruptManager(m)
        PROVE  \A n \in Managers : HandlerInv(n)' /\ ManagerInv(n)' /\ IsSnapshot(n)'
    <3>1. /\ manager'[m] \in {"disconnected", "interrupted", "panicked"}
          /\ \A n \in Managers : n # m => manager'[n] = manager[n]
          /\ UNCHANGED <<up, boxes, messagesLock, worker, it, snapshot, answer, v>>
      BY <2>1 DEF ServerDisconnected, InterruptManager, broker, handler, ListingInv,
         ListingTypeOK
    <3>2. HandlerInv(m)' /\ ManagerInv(m)' /\ IsSnapshot(m)'
      BY <3>1, ListingOver DEF ListingInv
    <3>3. \A n \in Managers : n # m => HandlerInv(n)' /\ ManagerInv(n)' /\ IsSnapshot(n)'
      BY <3>1, ListingFrame DEF ListingInv
    <3> QED
      BY <3>2, <3>3
  <2>2. ASSUME NEW c \in Suspendable, Suspend(c)
        PROVE  UNCHANGED <<broker, handler, answer, program>>
    BY <2>2 DEF Suspend
  <2>3. CASE UNCHANGED <<broker, handler, answer, program>>
    BY <2>3, ListingFrame DEF broker, handler, program, ListingInv
  <2>4. CASE ChangeBoxes
    <3>1. \A m \in Managers : worker[m] # "writing"
      BY <2>4, LockHeld DEF ChangeBoxes, LockFree, ListingInv
    <3> QED
      BY <2>4, <3>1, ListingFrame DEF ChangeBoxes, handler, program, ListingInv
  <2>5. CASE StopListings
    BY <2>5, ListingFrame DEF StopListings, program, ListingInv
  <2> QED
    BY <2>1, <2>2, <2>3, <2>4, <2>5, StartListStep, WriteBoxStep, PushPacketStep,
       ReadPacketStep
    DEF ListingStep, ListingNext, HandlerStep, ManagerStep, lvars
<1> QED
  BY <1>1, <1>2, <1>3 DEF ListingInv

(***************************************************************************)
(* From the keyboard to the box                                            *)
(***************************************************************************)

PubTypeOK ==
  /\ typed \in [Pubs -> 0 .. MaxLines]
  /\ eof \in [Pubs -> BOOLEAN]
  /\ pub \in [Pubs -> Publishing \cup {"ended", "killed", "interrupted"}]
  /\ taken \in [Pubs -> 0 .. MaxLines]
  /\ toWorker \in [Pubs -> Seq(Lines)]
  /\ wpub \in [Pubs -> Session]
  /\ log \in [BoxNames -> Seq(Lines)]
  /\ \A p \in Pubs : Len(toWorker[p]) <= PipeSize

PubInv ==
  /\ PubTypeOK
  /\ \A p \in Pubs : LoopInv(p) /\ PipeInv(p) /\ CompleteInv(p)
  /\ \A b \in BoxNames : LogInv(b)

(* What the proofs use of a line and of the queues it is in.               *)
LEMMA LineTypes ==
  ASSUME PubTypeOK
  PROVE  /\ \A line \in Lines :
              line[1] \in Pubs /\ line[2] \in 1 .. MaxLines /\ line = <<line[1], line[2]>>
         /\ \A p \in Pubs :
              /\ toWorker[p] \in Seq(Lines) /\ taken[p] \in Nat /\ Written(p) \in Int
                            /\ Topic[p] \in BoxNames
                            /\ DOMAIN toWorker[p] = 1 .. Len(toWorker[p])
                            /\ \A k \in DOMAIN toWorker[p] : toWorker[p][k] \in Lines
         /\ \A b \in BoxNames : /\ log[b] \in Seq(Lines)
                                /\ DOMAIN log[b] = 1 .. Len(log[b])
                                /\ \A k \in DOMAIN log[b] : log[b][k] \in Lines
<1>1. \A line \in Lines :
        line[1] \in Pubs /\ line[2] \in 1 .. MaxLines /\ line = <<line[1], line[2]>>
  BY DEF Lines
<1>2. ASSUME NEW p \in Pubs
      PROVE  /\ toWorker[p] \in Seq(Lines) /\ taken[p] \in Nat /\ Written(p) \in Int
             /\ Topic[p] \in BoxNames
             /\ DOMAIN toWorker[p] = 1 .. Len(toWorker[p])
             /\ \A k \in DOMAIN toWorker[p] : toWorker[p][k] \in Lines
  <2>1. toWorker[p] \in Seq(Lines) /\ taken[p] \in Nat /\ Topic[p] \in BoxNames
    BY ConversationAssumption DEF PubTypeOK
  <2> QED
    BY <2>1, LenProperties, ElementOfSeq DEF Written
<1>3. ASSUME NEW b \in BoxNames
      PROVE  /\ log[b] \in Seq(Lines)
             /\ DOMAIN log[b] = 1 .. Len(log[b])
             /\ \A k \in DOMAIN log[b] : log[b][k] \in Lines
  <2>1. log[b] \in Seq(Lines)
    BY DEF PubTypeOK
  <2> QED
    BY <2>1, LenProperties, ElementOfSeq
<1> QED
  BY <1>1, <1>2, <1>3

(* A step that puts no line in a FIFO or a box, and at most drops what is  *)
(* in a FIFO, leaves the order as it is.                                   *)
LEMMA OrderKept ==
  ASSUME PubInv, log' = log,
         \A p \in Pubs : toWorker'[p] = toWorker[p] \/ toWorker'[p] = <<>>,
         \A p \in Pubs : Written(p) <= Written(p)' /\ Written(p)' \in Int
  PROVE  /\ \A p \in Pubs : PipeInv(p)'
         /\ \A b \in BoxNames : LogInv(b)'
<1>1. ASSUME NEW p \in Pubs
      PROVE  PipeInv(p)'
  <2>1. CASE toWorker'[p] = <<>>
    BY <2>1 DEF PipeInv
  <2>2. CASE toWorker'[p] = toWorker[p]
    <3>1. \A k \in DOMAIN toWorker[p] : toWorker[p][k][2] \in Int
      BY LineTypes DEF PubInv
    <3> QED
      BY <2>2, <3>1, LineTypes DEF PipeInv, PubInv
  <2> QED
    BY <2>1, <2>2
<1>2. ASSUME NEW b \in BoxNames
      PROVE  LogInv(b)'
  <2>1. LogInv(b)
    BY DEF PubInv
  <2>2. ASSUME NEW k \in DOMAIN log[b]
        PROVE  LET p == log[b][k][1]
               IN  /\ Topic[p] = b
                   /\ log[b][k][2] <= Written(p)'
                   /\ \A j \in DOMAIN toWorker'[p] : log[b][k][2] < toWorker'[p][j][2]
    <3> DEFINE p == log[b][k][1]
    <3>1. p \in Pubs /\ log[b][k][2] \in Int
      BY LineTypes DEF PubInv
    <3>2. /\ Topic[p] = b /\ log[b][k][2] <= Written(p)
          /\ \A j \in DOMAIN toWorker[p] : log[b][k][2] < toWorker[p][j][2]
      BY <2>1 DEF LogInv
    <3>3. toWorker'[p] = toWorker[p] \/ toWorker'[p] = <<>>
      BY <3>1
    <3>4. log[b][k][2] <= Written(p)'
      BY <3>1, <3>2, LineTypes DEF PubInv
    <3>5. \A j \in DOMAIN toWorker'[p] : log[b][k][2] < toWorker'[p][j][2]
      BY <3>2, <3>3
    <3> QED
      BY <3>2, <3>4, <3>5
  <2> QED
    BY <2>1, <2>2 DEF LogInv
<1> QED
  BY <1>1, <1>2

(* Nor is a line lost, unless it is one of those CompleteInv leaves out.   *)
LEMMA CompleteKept ==
  ASSUME NEW p \in Pubs, CompleteInv(p), log' = log, toWorker'[p] = toWorker[p], Written(p)' = Written(p),
         up' => up, wpub'[p] # "refused" => wpub[p] # "refused",
         pub'[p] \in Publishing \cup {"ended"} => pub[p] \in Publishing \cup {"ended"}
  PROVE  CompleteInv(p)'
BY DEF CompleteInv

LEMMA PubStart == ASSUME Init PROVE PubInv
<1>1. <<>> \in Seq(Lines) /\ Len(<<>>) = 0 /\ PipeSize \in Nat /\ MaxLines \in Nat
  BY ListingAssumption, ConversationAssumption
<1>2. PubTypeOK
  BY <1>1 DEF Init, PubTypeOK, Publishing, Session
<1>3. ASSUME NEW p \in Pubs
      PROVE  LoopInv(p) /\ PipeInv(p) /\ CompleteInv(p)
  <2>1. pub[p] = "fgets" /\ taken[p] = 0 /\ typed[p] = 0 /\ toWorker[p] = <<>>
    BY <1>3 DEF Init
  <2>2. Written(p) = 0
    BY <2>1 DEF Written
  <2> QED
    BY <2>1, <2>2 DEF LoopInv, PipeInv, CompleteInv
<1>4. \A b \in BoxNames : LogInv(b)
  BY DEF Init, LogInv
<1> QED
  BY <1>2, <1>3, <1>4 DEF PubInv

(* The keyboard, and a publisher that reads it or ends.                    *)
LEMMA KeyboardStep ==
  ASSUME PubInv, NEW p \in Pubs,
         \/ TypeLine(p) \/ EndInput(p) \/ ReadLine(p) \/ EndOfInput(p) \/ InterruptPub(p)
         \/ WriteLine(p) /\ UNCHANGED toWorker
  PROVE  PubInv'
<1> USE DEF Publishing
<1>1. /\ UNCHANGED <<up, toWorker, wpub, log>>
      /\ typed' = [typed EXCEPT ![p] = typed'[p]] /\ typed'[p] \in 0 .. MaxLines
      /\ eof' = [eof EXCEPT ![p] = eof'[p]] /\ eof'[p] \in BOOLEAN
      /\ taken' = [taken EXCEPT ![p] = taken'[p]] /\ taken'[p] \in 0 .. MaxLines
      /\ pub' = [pub EXCEPT ![p] = pub'[p]]
      /\ pub'[p] \in {"fgets", "write", "ended", "killed", "interrupted"}
  <2>1. CASE TypeLine(p)
    <3>1. typed[p] + 1 \in 0 .. MaxLines
      BY <2>1, ConversationAssumption DEF TypeLine, PubInv, PubTypeOK
    <3> QED
      BY <2>1, <3>1 DEF TypeLine, lvars, broker, publisher, PubInv, PubTypeOK
  <2>4. CASE EndInput(p)
    BY <2>4 DEF EndInput, lvars, broker, publisher, PubInv, PubTypeOK
  <2>2. CASE ReadLine(p)
    <3>1. /\ taken[p] + 1 \in 0 .. MaxLines
      BY <2>2, ConversationAssumption DEF ReadLine, PubInv, PubTypeOK
    <3> QED
      BY <2>2, <3>1 DEF ReadLine, lvars, broker, keyboard, PubInv, PubTypeOK
  <2>3. CASE EndOfInput(p) \/ InterruptPub(p) \/ (WriteLine(p) /\ UNCHANGED toWorker)
    BY <2>3 DEF EndOfInput, InterruptPub, WriteLine, lvars, broker, keyboard, PubInv,
       PubTypeOK
  <2> QED
    BY <2>1, <2>2, <2>3, <2>4
<1>2. PubTypeOK'
  BY <1>1 DEF PubInv, PubTypeOK
<1>3. ASSUME NEW q \in Pubs, q # p
      PROVE  Written(q)' = Written(q) /\ LoopInv(q)' /\ CompleteInv(q)'
  <2>1. typed'[q] = typed[q] /\ eof'[q] = eof[q] /\ taken'[q] = taken[q] /\ pub'[q] = pub[q]
    BY <1>1, <1>3 DEF PubInv, PubTypeOK
  <2>2. Written(q)' = Written(q)
    BY <2>1 DEF Written
  <2>3. LoopInv(q)'
    BY <2>1 DEF PubInv, LoopInv
  <2> QED
    BY <1>1, <2>1, <2>2, <2>3, CompleteKept DEF PubInv
<1>4. /\ typed[p] \in Nat /\ taken[p] \in Nat /\ taken'[p] \in Nat
      /\ LoopInv(p) /\ CompleteInv(p)
  BY <1>1 DEF PubInv, PubTypeOK
<1>5. LoopInv(p)' /\ Written(p) <= Written(p)' /\ Written(p)' \in Int /\ CompleteInv(p)'
  <2>1. CASE TypeLine(p) \/ EndInput(p)
    <3>1. /\ pub' = pub /\ taken' = taken /\ ~eof[p] /\ (eof'[p] = eof[p] \/ eof'[p])
          /\ typed'[p] \in Nat /\ typed[p] <= typed'[p]
      BY <1>4, <2>1 DEF TypeLine, EndInput, publisher, PubInv, PubTypeOK
    <3>2. LoopInv(p)'
      BY <1>4, <3>1 DEF LoopInv
    <3>3. Written(p)' = Written(p) /\ Written(p) \in Int
      BY <1>4, <3>1 DEF Written
    <3> QED
      BY <1>1, <1>4, <3>1, <3>2, <3>3, CompleteKept
  <2>2. CASE ReadLine(p)
    <3>1. /\ pub[p] = "fgets"
          /\ pub'[p] = "write"
          /\ taken[p] < typed[p]
          /\ taken'[p] = taken[p] + 1
          /\ typed'[p] = typed[p] /\ eof'[p] = eof[p]
      BY <2>2 DEF ReadLine, keyboard, PubInv, PubTypeOK
    <3>2. LoopInv(p)'
      BY <1>4, <3>1 DEF LoopInv
    <3>3. Written(p)' = Written(p) /\ Written(p) \in Int
      BY <1>4, <3>1 DEF Written
    <3> QED
      BY <1>1, <1>4, <3>1, <3>2, <3>3, CompleteKept
  <2>3. CASE EndOfInput(p)
    <3>1. /\ pub[p] = "fgets"
          /\ pub'[p] = "ended"
          /\ taken[p] = typed[p]
          /\ eof[p]
          /\ taken'[p] = taken[p]
          /\ typed'[p] = typed[p] /\ eof'[p] = eof[p]
      BY <2>3 DEF EndOfInput, keyboard, PubInv, PubTypeOK
    <3>2. LoopInv(p)'
      BY <1>4, <3>1 DEF LoopInv
    <3>3. Written(p)' = Written(p) /\ Written(p) \in Int
      BY <1>4, <3>1 DEF Written
    <3> QED
      BY <1>1, <1>4, <3>1, <3>2, <3>3, CompleteKept
  <2>4. CASE InterruptPub(p) \/ (WriteLine(p) /\ UNCHANGED toWorker)
    <3>1. pub'[p] \in {"interrupted", "killed"} /\ UNCHANGED <<typed, eof, taken>>
      <4>1. CASE InterruptPub(p)
        BY <4>1 DEF InterruptPub, keyboard, PubInv, PubTypeOK
      <4>2. CASE WriteLine(p) /\ UNCHANGED toWorker
        <5>1. /\ toWorker[p] \in Seq(Lines)
              /\ Append(toWorker[p], <<p, taken[p]>>) # toWorker[p]
          <6>1. toWorker[p] \in Seq(Lines)
            BY DEF PubInv, PubTypeOK
          <6>2. Len(Append(toWorker[p], <<p, taken[p]>>)) # Len(toWorker[p])
            BY <6>1, AppendProperties, LenProperties
          <6> QED
            BY <6>1, <6>2
        <5>2. p \in DOMAIN toWorker /\ p \in DOMAIN pub
          BY DEF PubInv, PubTypeOK
        <5> QED
          BY <4>2, <5>1, <5>2 DEF WriteLine, keyboard
      <4> QED
        BY <2>4, <4>1, <4>2
    <3>2. LoopInv(p)'
      BY <1>4, <3>1 DEF LoopInv
    <3>3. Written(p) <= Written(p)' /\ Written(p)' \in Int
      BY <1>4, <3>1 DEF Written
    <3>4. CompleteInv(p)'
      BY <3>1 DEF CompleteInv
    <3> QED
      BY <3>2, <3>3, <3>4
  <2> QED
    BY <2>1, <2>2, <2>3, <2>4
<1>6. \A q \in Pubs : Written(q) <= Written(q)' /\ Written(q)' \in Int
  BY <1>3, <1>5, LineTypes DEF PubInv
<1>7. /\ \A q \in Pubs : PipeInv(q)'
      /\ \A b \in BoxNames : LogInv(b)'
  BY <1>1, <1>6, OrderKept
<1> QED
  BY <1>2, <1>3, <1>5, <1>7 DEF PubInv

(* A line is written: it is after all the lines of p that are on the way.  *)
LEMMA WriteLineStep ==
  ASSUME PubInv, NEW p \in Pubs, WriteLine(p), ~UNCHANGED toWorker
  PROVE  PubInv'
<1> USE DEF Publishing
<1> DEFINE line == <<p, taken[p]>>
           queue == toWorker[p]
<1>1. /\ pub[p] = "write" /\ wpub[p] \in {"dequeued", "serving"} /\ Len(queue) < PipeSize
      /\ toWorker' = [toWorker EXCEPT ![p] = Append(queue, line)]
      /\ pub' = [pub EXCEPT ![p] = "fgets"]
      /\ UNCHANGED <<up, typed, eof, taken, wpub, log>>
  BY DEF WriteLine, lvars, broker, keyboard
<1>2. /\ LoopInv(p) /\ PipeInv(p) /\ CompleteInv(p) /\ queue \in Seq(Lines)
      /\ taken[p] \in 0 .. MaxLines /\ typed[p] \in 0 .. MaxLines
      /\ PipeSize \in Nat /\ MaxLines \in Nat
  BY ListingAssumption, ConversationAssumption DEF PubInv, PubTypeOK
<1>3. line \in Lines /\ line[1] = p /\ line[2] = taken[p]
  BY <1>1, <1>2 DEF LoopInv, Lines
<1> HIDE DEF line
<1>4. /\ Append(queue, line) \in Seq(Lines)
      /\ Len(Append(queue, line)) = Len(queue) + 1
      /\ DOMAIN Append(queue, line) = 1 .. (Len(queue) + 1)
      /\ Append(queue, line)[Len(queue) + 1] = line
      /\ \A k \in 1 .. Len(queue) : Append(queue, line)[k] = queue[k]
      /\ Len(queue) \in Nat /\ DOMAIN queue = 1 .. Len(queue)
  BY <1>2, <1>3, Appended
<1>5. /\ toWorker'[p] = Append(queue, line) /\ pub'[p] = "fgets" /\ taken'[p] = taken[p]
      /\ typed'[p] = typed[p] /\ eof'[p] = eof[p]
      /\ \A q \in Pubs :
           q # p => toWorker'[q] = toWorker[q] /\ pub'[q] = pub[q] /\ taken'[q] = taken[q]
  BY <1>1 DEF PubInv, PubTypeOK
<1>6. Written(p) = taken[p] - 1 /\ Written(p)' = taken[p]
  BY <1>1, <1>5 DEF Written
<1>7. \A q \in Pubs : q # p => Written(q)' = Written(q)
  BY <1>5 DEF Written
<1>8. PubTypeOK'
  <2>1. Len(Append(queue, line)) <= PipeSize
    BY <1>1, <1>2, <1>4
  <2> QED
    BY <1>1, <1>4, <2>1 DEF PubInv, PubTypeOK
<1>9. ASSUME NEW q \in Pubs, q # p
      PROVE  LoopInv(q)' /\ PipeInv(q)' /\ CompleteInv(q)'
  <2>1. LoopInv(q)'
    BY <1>1, <1>5, <1>9 DEF PubInv, LoopInv
  <2>2. PipeInv(q)'
    BY <1>5, <1>7, <1>9 DEF PubInv, PipeInv
  <2>3. CompleteInv(q)'
    BY <1>1, <1>5, <1>7, <1>9, CompleteKept DEF PubInv
  <2> QED
    BY <2>1, <2>2, <2>3
<1>10. LoopInv(p)'
  BY <1>2, <1>5 DEF LoopInv
<1>11. /\ \A k \in 1 .. Len(queue) :
            queue[k][1] = p /\ queue[k][2] < taken[p] /\ queue[k][2] \in Int
       /\ \A j, k \in 1 .. Len(queue) : j < k => queue[j][2] < queue[k][2]
  <2>1. \A k \in 1 .. Len(queue) : queue[k][2] \in Int
    BY LineTypes, <1>4 DEF PubInv
  <2>2. /\ \A k \in 1 .. Len(queue) : queue[k][1] = p /\ queue[k][2] <= Written(p)
        /\ \A j, k \in 1 .. Len(queue) : j < k => queue[j][2] < queue[k][2]
    BY <1>2, <1>4 DEF PipeInv
  <2>3. ASSUME NEW k \in 1 .. Len(queue)
        PROVE  queue[k][2] < taken[p]
    BY <1>2, <1>6, <2>1, <2>2
  <2> QED
    BY <2>1, <2>2, <2>3
<1>12. PipeInv(p)'
  <2>1. ASSUME NEW k \in 1 .. (Len(queue) + 1)
        PROVE  toWorker'[p][k][1] = p /\ toWorker'[p][k][2] <= taken[p]
    BY <1>2, <1>3, <1>4, <1>5, <1>11
  <2>2. ASSUME NEW j \in 1 .. (Len(queue) + 1), NEW k \in 1 .. (Len(queue) + 1), j < k
        PROVE  toWorker'[p][j][2] < toWorker'[p][k][2]
    BY <1>3, <1>4, <1>5, <1>11, <2>2
  <2> QED
    BY <1>4, <1>5, <1>6, <2>1, <2>2 DEF PipeInv
<1>13. CompleteInv(p)'
  <2> SUFFICES ASSUME up, wpub[p] # "refused", NEW n \in 1 .. taken[p]
               PROVE  \/ \E k \in DOMAIN log[Topic[p]] : log[Topic[p]][k] = <<p, n>>
                      \/ \E k \in DOMAIN toWorker'[p] : toWorker'[p][k] = <<p, n>>
    BY <1>1, <1>6 DEF CompleteInv
  <2>1. CASE n = taken[p]
    BY <1>4, <1>5, <2>1 DEF line
  <2>2. CASE n # taken[p]
    <3>1. n \in 1 .. Written(p)
      BY <1>2, <1>6, <2>2
    <3>2. \/ \E k \in DOMAIN log[Topic[p]] : log[Topic[p]][k] = <<p, n>>
          \/ \E k \in DOMAIN queue : queue[k] = <<p, n>>
      BY <1>1, <1>2, <3>1 DEF CompleteInv
    <3> QED
      BY <1>4, <1>5, <3>2
  <2> QED
    BY <2>1, <2>2
<1>14. ASSUME NEW b \in BoxNames
       PROVE  LogInv(b)'
  <2>1. LogInv(b) /\ log'[b] = log[b]
    BY <1>1 DEF PubInv
  <2>2. ASSUME NEW k \in DOMAIN log[b], NEW q \in Pubs, q = log[b][k][1]
        PROVE  /\ Topic[q] = b
               /\ log[b][k][2] <= Written(q)'
               /\ \A j \in DOMAIN toWorker'[q] : log[b][k][2] < toWorker'[q][j][2]
    <3>1. log[b][k][2] \in Int
      BY LineTypes DEF PubInv
    <3>2. /\ Topic[q] = b /\ log[b][k][2] <= Written(q)
          /\ \A j \in DOMAIN toWorker[q] : log[b][k][2] < toWorker[q][j][2]
      BY <2>1, <2>2 DEF LogInv
    <3>3. CASE q # p
      BY <1>5, <1>7, <3>2, <3>3
    <3>4. CASE q = p
      <4>1. log[b][k][2] < taken[p] /\ taken[p] \in Int
        BY <1>2, <1>6, <3>1, <3>2, <3>4
      <4>2. ASSUME NEW j \in 1 .. (Len(queue) + 1)
            PROVE  log[b][k][2] < toWorker'[p][j][2]
        <5>1. CASE j \in 1 .. Len(queue)
          BY <1>4, <1>5, <3>2, <3>4, <5>1
        <5>2. CASE j = Len(queue) + 1
          BY <1>3, <1>4, <1>5, <4>1, <5>2
        <5> QED
          BY <1>4, <5>1, <5>2
      <4>3. log[b][k][2] <= Written(p)'
        BY <1>6, <3>1, <4>1
      <4> QED
        BY <1>4, <1>5, <3>2, <3>4, <4>2, <4>3
    <3> QED
      BY <3>3, <3>4
  <2>3. \A k \in DOMAIN log[b] : log[b][k][1] \in Pubs
    BY LineTypes DEF PubInv
  <2>4. \A j, k \in DOMAIN log[b] :
          j < k /\ log[b][j][1] = log[b][k][1] => log[b][j][2] < log[b][k][2]
    BY <2>1 DEF LogInv
  <2>5. log' = log
    BY <1>1
  <2> QED
    BY <2>2, <2>3, <2>4, <2>5 DEF LogInv
<1> QED
  BY <1>8, <1>9, <1>10, <1>12, <1>13, <1>14 DEF PubInv

(* A session begins, is refused or ends; or all do.                        *)
LEMMA SessionStep ==
  ASSUME PubInv,
         \/ \E p \in Pubs : RegisterPub(p) \/ EndOfPipe(p)
         \/ StopBroker
  PROVE  PubInv'
<1>1. /\ UNCHANGED <<typed, eof, pub, taken, log>>
      /\ up' => up
      /\ wpub' \in [Pubs -> Session] /\ toWorker' \in [Pubs -> Seq(Lines)]
      /\ \A q \in Pubs :
           \/ toWorker'[q] = toWorker[q] /\ (wpub'[q] # "refused" => wpub[q] # "refused")
           \/ toWorker'[q] = <<>> /\ (~up' \/ wpub'[q] = "refused")
  <2>1. ASSUME NEW p \in Pubs, RegisterPub(p)
        PROVE  /\ UNCHANGED <<up, typed, eof, pub, taken, log>>
               /\ wpub' \in [Pubs -> Session] /\ toWorker' \in [Pubs -> Seq(Lines)]
               /\ \A q \in Pubs :
                    \/ toWorker'[q] = toWorker[q] /\ (wpub'[q] # "refused" => wpub[q] # "refused")
                    \/ toWorker'[q] = <<>> /\ wpub'[q] = "refused"
    <3>1. <<>> \in Seq(Lines)
      OBVIOUS
    <3> QED
      BY <2>1, <3>1 DEF RegisterPub, lvars, broker, keyboard, publisher, PubInv,
         PubTypeOK, Session
  <2>2. ASSUME NEW p \in Pubs, EndOfPipe(p)
        PROVE  /\ UNCHANGED <<up, typed, eof, pub, taken, log, toWorker>>
               /\ wpub' \in [Pubs -> Session]
               /\ \A q \in Pubs : wpub'[q] # "refused" => wpub[q] # "refused"
    BY <2>2 DEF EndOfPipe, lvars, broker, keyboard, publisher, PubInv, PubTypeOK, Session
  <2>3. CASE StopBroker
    <3>1. UNCHANGED <<typed, eof, pub, taken, log>> /\ up' = FALSE
          /\ wpub' = Closed(wpub) /\ toWorker' = [q \in Pubs |-> <<>>]
      BY <2>3 DEF StopBroker, StopListings, keyboard, publisher
    <3>2. wpub' \in [Pubs -> Session]
      BY <3>1 DEF Closed, PubInv, PubTypeOK, Session
    <3> QED
      BY <3>1, <3>2
  <2> QED
    BY <2>1, <2>2, <2>3 DEF PubInv, PubTypeOK
<1>2. PubTypeOK'
  BY <1>1, ListingAssumption DEF PubInv, PubTypeOK
<1>3. \A q \in Pubs : Written(q)' = Written(q) /\ Written(q) \in Int
  BY <1>1, LineTypes DEF Written, PubInv
<1>4. /\ \A q \in Pubs : PipeInv(q)'
      /\ \A b \in BoxNames : LogInv(b)'
  BY <1>1, <1>3, OrderKept
<1>5. ASSUME NEW q \in Pubs
      PROVE  LoopInv(q)' /\ CompleteInv(q)'
  <2>1. LoopInv(q)'
    BY <1>1 DEF PubInv, LoopInv
  <2>2. CompleteInv(q)'
    BY <1>1, <1>3, CompleteKept DEF PubInv, CompleteInv
  <2> QED
    BY <2>1, <2>2
<1> QED
  BY <1>2, <1>4, <1>5 DEF PubInv

(* A line goes from the FIFO to the box: it is after all the lines of its  *)
(* publisher there, and before those that follow it in the FIFO.           *)
LEMMA ReceiveStep ==
  ASSUME PubInv, NEW p \in Pubs, Receive(p)
  PROVE  PubInv'
<1> DEFINE queue == toWorker[p]
           line == Head(queue)
           box == Topic[p]
<1>1. /\ queue # <<>>
      /\ toWorker' = [toWorker EXCEPT ![p] = Tail(queue)]
      /\ log' = [log EXCEPT ![box] = Append(log[box], line)]
      /\ UNCHANGED <<up, typed, eof, taken, pub, wpub>>
  BY DEF Receive, lvars, broker, keyboard, publisher
<1>2. /\ queue \in Seq(Lines)
      /\ box \in BoxNames
      /\ log[box] \in Seq(Lines)
      /\ PipeInv(p)
      /\ CompleteInv(p)
      /\ PipeSize \in Nat
  BY LineTypes, ListingAssumption DEF PubInv
<1>3. /\ line \in Lines /\ line = queue[1]
      /\ Tail(queue) \in Seq(Lines)
      /\ Len(Tail(queue)) = Len(queue) - 1 /\ DOMAIN Tail(queue) = 1 .. (Len(queue) - 1)
      /\ \A k \in 1 .. (Len(queue) - 1) : Tail(queue)[k] = queue[k + 1]
      /\ Len(queue) \in Nat /\ Len(queue) > 0 /\ DOMAIN queue = 1 .. Len(queue)
  BY <1>1, <1>2, Taken
<1> HIDE DEF line
<1>4. /\ Append(log[box], line) \in Seq(Lines)
      /\ DOMAIN Append(log[box], line) = 1 .. (Len(log[box]) + 1)
      /\ Append(log[box], line)[Len(log[box]) + 1] = line
      /\ \A k \in 1 .. Len(log[box]) : Append(log[box], line)[k] = log[box][k]
      /\ Len(log[box]) \in Nat /\ DOMAIN log[box] = 1 .. Len(log[box])
  BY <1>2, <1>3, Appended
<1>5. /\ toWorker'[p] = Tail(queue) /\ log'[box] = Append(log[box], line)
      /\ \A q \in Pubs : q # p => toWorker'[q] = toWorker[q]
      /\ \A b \in BoxNames : b # box => log'[b] = log[b]
  BY <1>1, <1>2 DEF PubInv, PubTypeOK
<1>6. \A q \in Pubs : Written(q)' = Written(q) /\ Written(q) \in Int
  BY <1>1, LineTypes DEF Written, PubInv
<1>7. PubTypeOK'
  <2>1. Len(Tail(queue)) <= PipeSize
    BY <1>2, <1>3 DEF PubInv, PubTypeOK
  <2> QED
    BY <1>1, <1>3, <1>4, <2>1 DEF PubInv, PubTypeOK
<1>8. \A q \in Pubs : LoopInv(q)'
  BY <1>1 DEF PubInv, LoopInv
<1>9. /\ \A k \in 1 .. Len(queue) :
           queue[k][1] = p /\ queue[k][2] <= Written(p) /\ queue[k][2] \in Int
      /\ \A j, k \in 1 .. Len(queue) : j < k => queue[j][2] < queue[k][2]
      /\ line[1] = p /\ line[2] <= Written(p) /\ line[2] \in Int
      /\ \A k \in 1 .. (Len(queue) - 1) :
           line[2] < Tail(queue)[k][2] /\ Tail(queue)[k][2] \in Int
  <2>1. /\ \A k \in 1 .. Len(queue) :
             queue[k][1] = p /\ queue[k][2] <= Written(p) /\ queue[k][2] \in Int
        /\ \A j, k \in 1 .. Len(queue) : j < k => queue[j][2] < queue[k][2]
    <3>1. \A k \in 1 .. Len(queue) : queue[k][2] \in Int
      BY <1>3, LineTypes DEF PubInv
    <3> QED
      BY <1>2, <1>3, <3>1 DEF PipeInv
  <2>2. 1 \in 1 .. Len(queue)
    BY <1>3
  <2>3. line[1] = p /\ line[2] <= Written(p) /\ line[2] \in Int
    BY <1>3, <2>1, <2>2
  <2>4. ASSUME NEW k \in 1 .. (Len(queue) - 1)
        PROVE  line[2] < Tail(queue)[k][2] /\ Tail(queue)[k][2] \in Int
    <3>1. k + 1 \in 1 .. Len(queue) /\ 1 < k + 1
      BY <1>3
    <3> QED
      BY <1>3, <2>1, <2>2, <3>1
  <2> QED
    BY <2>1, <2>3, <2>4
<1>10. ASSUME NEW q \in Pubs
       PROVE  PipeInv(q)'
  <2>1. CASE q # p
    BY <1>5, <1>6, <2>1 DEF PipeInv, PubInv
  <2>2. CASE q = p
    <3>1. ASSUME NEW k \in 1 .. (Len(queue) - 1)
          PROVE  Tail(queue)[k][1] = p /\ Tail(queue)[k][2] <= Written(p)
      <4>1. k + 1 \in 1 .. Len(queue)
        BY <1>3
      <4> QED
        BY <1>3, <1>9, <4>1
    <3>2. ASSUME NEW j \in 1 .. (Len(queue) - 1), NEW k \in 1 .. (Len(queue) - 1), j < k
          PROVE  Tail(queue)[j][2] < Tail(queue)[k][2]
      <4>1. j + 1 \in 1 .. Len(queue) /\ k + 1 \in 1 .. Len(queue) /\ j + 1 < k + 1
        BY <1>3, <3>2
      <4> QED
        BY <1>3, <1>9, <4>1
    <3> QED
      BY <1>3, <1>5, <1>6, <2>2, <3>1, <3>2 DEF PipeInv
  <2> QED
    BY <2>1, <2>2
<1>11. ASSUME NEW q \in Pubs
       PROVE  CompleteInv(q)'
  <2> SUFFICES ASSUME CompleteInv(q)!1, NEW n \in 1 .. Written(q)
               PROVE  \/ \E k \in DOMAIN log'[Topic[q]] : log'[Topic[q]][k] = <<q, n>>
                      \/ \E k \in DOMAIN toWorker'[q] : toWorker'[q][k] = <<q, n>>
    BY <1>1, <1>6 DEF CompleteInv
  <2>1. \/ \E k \in DOMAIN log[Topic[q]] : log[Topic[q]][k] = <<q, n>>
        \/ \E k \in DOMAIN toWorker[q] : toWorker[q][k] = <<q, n>>
    BY DEF CompleteInv, PubInv
  <2>2. ASSUME NEW k \in DOMAIN log[Topic[q]]
        PROVE  k \in DOMAIN log'[Topic[q]] /\ log'[Topic[q]][k] = log[Topic[q]][k]
    <3>1. Topic[q] \in BoxNames
      BY LineTypes DEF PubInv
    <3> QED
      BY <1>4, <1>5, <3>1
  <2>3. ASSUME NEW k \in DOMAIN queue, q = p
        PROVE  \/ \E i \in DOMAIN log'[box] : log'[box][i] = queue[k]
               \/ \E i \in DOMAIN toWorker'[p] : toWorker'[p][i] = queue[k]
    <3>1. CASE k = 1
      <4>1. /\ Len(log[box]) + 1 \in DOMAIN log'[box]
            /\ log'[box][Len(log[box]) + 1] = queue[k]
        BY <1>3, <1>4, <1>5, <3>1
      <4> QED
        BY <4>1
    <3>2. CASE k # 1
      <4>1. k - 1 \in 1 .. (Len(queue) - 1) /\ (k - 1) + 1 = k
        BY <1>3, <3>2
      <4>2. Tail(queue)[k - 1] = queue[k]
        BY <1>3, <4>1
      <4> QED
        BY <1>3, <1>5, <4>1, <4>2
    <3> QED
      BY <3>1, <3>2
  <2>4. CASE \E k \in DOMAIN log[Topic[q]] : log[Topic[q]][k] = <<q, n>>
    BY <2>2, <2>4
  <2>5. CASE (\E k \in DOMAIN toWorker[q] : toWorker[q][k] = <<q, n>>) /\ q = p
    <3>1. PICK k \in DOMAIN queue : queue[k] = <<q, n>>
      BY <2>5
    <3> QED
      BY <2>3, <2>5, <3>1
  <2>6. CASE (\E k \in DOMAIN toWorker[q] : toWorker[q][k] = <<q, n>>) /\ q # p
    BY <1>5, <2>6
  <2> QED
    BY <2>1, <2>4, <2>5, <2>6
<1>12. ASSUME NEW b \in BoxNames, NEW k \in DOMAIN log[b], NEW q \in Pubs, q = log[b][k][1]
       PROVE  /\ Topic[q] = b
              /\ log[b][k][2] <= Written(q)'
              /\ \A j \in DOMAIN toWorker'[q] : log[b][k][2] < toWorker'[q][j][2]
              /\ q = p => log[b][k][2] < line[2]
  <2>0. LogInv(b) /\ Written(q)' = Written(q)
    BY <1>6 DEF PubInv
  <2>1. /\ Topic[q] = b /\ log[b][k][2] <= Written(q)
        /\ \A j \in DOMAIN toWorker[q] : log[b][k][2] < toWorker[q][j][2]
    BY <2>0, <1>12 DEF LogInv
  <2>2. log[b][k][2] \in Int
    BY LineTypes DEF PubInv
  <2>3. CASE q # p
    BY <1>5, <2>0, <2>1, <2>3
  <2>4. CASE q = p
    <3>1. log[b][k][2] < line[2]
      BY <1>3, <2>1, <2>4
    <3>2. \A j \in 1 .. (Len(queue) - 1) : log[b][k][2] < Tail(queue)[j][2]
      BY <1>9, <2>2, <3>1
    <3> QED
      BY <1>3, <1>5, <2>0, <2>1, <2>4, <3>1, <3>2
  <2> QED
    BY <2>3, <2>4
<1>13. ASSUME NEW b \in BoxNames
       PROVE  LogInv(b)'
  <2>1. \A j, k \in DOMAIN log[b] :
          j < k /\ log[b][j][1] = log[b][k][1] => log[b][j][2] < log[b][k][2]
    BY DEF PubInv, LogInv
  <2>4. \A k \in DOMAIN log[b] : log[b][k][1] \in Pubs
    BY LineTypes DEF PubInv
  <2>2. CASE b # box
    <3>1. log'[b] = log[b]
      BY <1>5, <2>2
    <3> QED
      BY <1>12, <2>1, <2>4, <3>1 DEF LogInv
  <2>3. CASE b = box
    <3> DEFINE old == log[box]
               new == log'[box]
               n == Len(old)
    <3>1. /\ n \in Nat /\ DOMAIN new = 1 .. (n + 1) /\ new[n + 1] = line
          /\ \A k \in 1 .. n : new[k] = old[k]
          /\ DOMAIN old = 1 .. n
      BY <1>4, <1>5
    <3> HIDE DEF old, new, n
    <3>2. ASSUME NEW k \in 1 .. (n + 1), NEW q \in Pubs, q = new[k][1]
          PROVE  /\ Topic[q] = b
                 /\ new[k][2] <= Written(q)'
                 /\ \A j \in DOMAIN toWorker'[q] : new[k][2] < toWorker'[q][j][2]
      <4>1. CASE k \in 1 .. n
        <5>1. new[k] = old[k] /\ k \in DOMAIN log[b] /\ old = log[b]
          BY <2>3, <3>1, <4>1 DEF old
        <5> QED
          BY <1>12, <3>2, <5>1
      <4>2. CASE k = n + 1
        <5>1. new[k] = line /\ q = p
          BY <1>9, <3>1, <3>2, <4>2
        <5>2. Written(p)' = Written(p)
          BY <1>6
        <5> QED
          BY <1>3, <1>5, <1>9, <2>3, <5>1, <5>2
      <4> QED
        BY <3>1, <4>1, <4>2
    <3>3. ASSUME NEW j \in 1 .. (n + 1), NEW k \in 1 .. (n + 1), j < k, new[j][1] = new[k][1]
          PROVE  new[j][2] < new[k][2]
      <4>1. j \in 1 .. n /\ new[j] = old[j] /\ j \in DOMAIN log[b] /\ old = log[b]
        BY <2>3, <3>1, <3>3 DEF old
      <4>2. CASE k \in 1 .. n
        BY <2>1, <3>1, <3>3, <4>1, <4>2
      <4>3. CASE k = n + 1
        BY <1>9, <1>12, <3>1, <3>3, <4>1, <4>3
      <4> QED
        BY <3>1, <4>2, <4>3
    <3>4. log'[b] = new
      BY <2>3 DEF new
    <3>5. ASSUME NEW k \in 1 .. (n + 1) PROVE new[k][1] \in Pubs
      <4>1. CASE k \in 1 .. n
        BY <2>3, <2>4, <3>1, <4>1 DEF old
      <4>2. CASE k = n + 1
        BY <1>9, <3>1, <4>2
      <4> QED
        BY <3>1, <4>1, <4>2
    <3> QED
      BY <3>1, <3>2, <3>3, <3>4, <3>5 DEF LogInv
  <2> QED
    BY <2>2, <2>3
<1> QED
  BY <1>7, <1>8, <1>10, <1>11, <1>13 DEF PubInv

(***************************************************************************)
(* From the box to the screen                                              *)
(***************************************************************************)

SubTypeOK ==
  /\ wsub \in [Subs -> Session]
  /\ forwarded \in [Subs -> Nat]
  /\ toClient \in [Subs -> Seq(Lines)]
  /\ sub \in [Subs -> {"read", "disconnected", "interrupted"}]
  /\ printed \in [Subs -> Seq(Lines)]
  /\ \A s \in Subs : Len(toClient[s]) <= PipeSize

SubInv ==
  /\ SubTypeOK
  /\ \A s \in Subs : ScreenInv(s)

LEMMA ScreenTypes ==
  ASSUME PubTypeOK, SubTypeOK, NEW s \in Subs
  PROVE  /\ Topic[s] \in BoxNames /\ log[Topic[s]] \in Seq(Lines)
         /\ Len(log[Topic[s]]) \in Nat /\ DOMAIN log[Topic[s]] = 1 .. Len(log[Topic[s]])
         /\ \A k \in DOMAIN log[Topic[s]] : log[Topic[s]][k] \in Lines
         /\ toClient[s] \in Seq(Lines) /\ Len(toClient[s]) \in Nat
         /\ DOMAIN toClient[s] = 1 .. Len(toClient[s])
         /\ printed[s] \in Seq(Lines) /\ Len(printed[s]) \in Nat
         /\ DOMAIN printed[s] = 1 .. Len(printed[s])
         /\ forwarded[s] \in Nat
<1>1. Topic[s] \in BoxNames
  BY ConversationAssumption
<1>2. /\ log[Topic[s]] \in Seq(Lines)
      /\ \A k \in DOMAIN log[Topic[s]] : log[Topic[s]][k] \in Lines
  BY <1>1, LineTypes
<1>3. toClient[s] \in Seq(Lines) /\ printed[s] \in Seq(Lines) /\ forwarded[s] \in Nat
  BY DEF SubTypeOK
<1> QED
  BY <1>1, <1>2, <1>3, LenProperties

(* The screen of s stays right when the box gets more messages, when s     *)
(* leaves, and when its session begins or ends.                            *)
LEMMA ScreenKept ==
  ASSUME PubTypeOK, SubTypeOK, NEW s \in Subs, ScreenInv(s),
         forwarded'[s] = forwarded[s], toClient'[s] = toClient[s], printed'[s] = printed[s],
         wsub'[s] \in {"dequeued", "refused"} => wsub[s] \in {"dequeued", "refused"},
         sub'[s] = "read" => sub[s] = "read",
         Len(log'[Topic[s]]) \in Nat, Len(log[Topic[s]]) <= Len(log'[Topic[s]]),
         \A k \in 1 .. Len(log[Topic[s]]) : log'[Topic[s]][k] = log[Topic[s]][k]
  PROVE  ScreenInv(s)'
<1> DEFINE old == log[Topic[s]]
           new == log'[Topic[s]]
           n == Len(printed[s])
<1>1. /\ wsub[s] \in {"dequeued", "refused"} => forwarded[s] = 0
      /\ forwarded[s] <= Len(old)
      /\ n + Len(toClient[s]) <= forwarded[s]
      /\ sub[s] = "read" => n + Len(toClient[s]) = forwarded[s]
      /\ \A k \in 1 .. n : printed[s][k] = old[k]
      /\ \A k \in DOMAIN toClient[s] : toClient[s][k] = old[n + k]
  BY DEF ScreenInv
<1>2. /\ Len(old) \in Nat /\ n \in Nat /\ Len(toClient[s]) \in Nat /\ forwarded[s] \in Nat
      /\ DOMAIN toClient[s] = 1 .. Len(toClient[s])
  BY ScreenTypes
<1>3. Len(new) \in Nat /\ Len(old) <= Len(new) /\ \A k \in 1 .. Len(old) : new[k] = old[k]
  OBVIOUS
<1>4. ASSUME NEW a \in Nat, NEW b \in Nat, NEW c \in Nat, NEW d \in Nat, a + b <= c, c <= d
      PROVE  1 .. a \subseteq 1 .. d /\ \A k \in 1 .. b : a + k \in 1 .. d
  BY <1>4
<1> HIDE DEF old, new, n
<1>5. forwarded[s] <= Len(new)
  BY <1>1, <1>2, <1>3
<1>6. \A k \in 1 .. n : printed[s][k] = new[k]
  <2>1. 1 .. n \subseteq 1 .. Len(old)
    BY <1>1, <1>2, <1>4
  <2> QED
    BY <1>1, <1>3, <2>1
<1>7. ASSUME NEW k \in DOMAIN toClient[s]
      PROVE  toClient[s][k] = new[n + k]
  <2>1. n + k \in 1 .. Len(old)
    BY <1>1, <1>2, <1>4
  <2> QED
    BY <1>1, <1>3, <2>1
<1> QED
  BY <1>1, <1>5, <1>6, <1>7 DEF ScreenInv, new, n

LEMMA ScreenStart == ASSUME Init PROVE SubInv
<1>1. <<>> \in Seq(Lines) /\ Len(<<>>) = 0 /\ PipeSize \in Nat
  BY ListingAssumption
<1>2. SubTypeOK
  BY <1>1 DEF Init, SubTypeOK, Session
<1>3. ASSUME NEW s \in Subs
      PROVE  ScreenInv(s)
  <2>1. /\ forwarded[s] = 0
        /\ toClient[s] = <<>>
        /\ printed[s] = <<>>
        /\ Topic[s] \in BoxNames
        /\ log[Topic[s]] = <<>>
    BY <1>3, ConversationAssumption DEF Init
  <2> QED
    BY <2>1 DEF ScreenInv
<1> QED
  BY <1>2, <1>3 DEF SubInv

(* The steps that read and write nothing on the way to a screen.           *)
LEMMA ScreensKept ==
  ASSUME PubInv, SubInv,
         \/ UNCHANGED <<subside, log>>
         \/ UNCHANGED subside /\ \E p \in Pubs : Receive(p)
         \/ \E s \in Subs : RegisterSub(s) \/ Disconnect(s) \/ InterruptSub(s)
         \/ StopBroker
  PROVE  SubInv'
<1>1. /\ UNCHANGED <<forwarded, toClient, printed>>
      /\ wsub' \in [Subs -> Session]
      /\ sub' \in [Subs -> {"read", "disconnected", "interrupted"}]
      /\ \A s \in Subs :
           wsub'[s] \in {"dequeued", "refused"} => wsub[s] \in {"dequeued", "refused"}
      /\ \A s \in Subs : sub'[s] = "read" => sub[s] = "read"
  <2>1. CASE UNCHANGED subside
    BY <2>1 DEF subside, SubInv, SubTypeOK
  <2>2. ASSUME NEW s \in Subs, RegisterSub(s)
        PROVE  <1>1!1 /\ <1>1!2 /\ <1>1!3 /\ <1>1!4 /\ <1>1!5
    BY <2>2 DEF RegisterSub, SubInv, SubTypeOK, Session
  <2>3. ASSUME NEW s \in Subs, Disconnect(s) \/ InterruptSub(s)
        PROVE  <1>1!1 /\ <1>1!2 /\ <1>1!3 /\ <1>1!4 /\ <1>1!5
    BY <2>3 DEF Disconnect, InterruptSub, SubInv, SubTypeOK
  <2>4. CASE StopBroker
    <3>1. UNCHANGED <<forwarded, toClient, sub, printed>> /\ wsub' = Closed(wsub)
      BY <2>4 DEF StopBroker
    <3>2. wsub' = [s \in Subs |-> CASE wsub[s] = "serving"  -> "ended"
                                    [] wsub[s] = "dequeued" -> "refused"
                                    [] OTHER                -> wsub[s]]
      BY <3>1 DEF Closed, SubInv, SubTypeOK
    <3>3. wsub' \in [Subs -> Session]
      BY <3>2 DEF SubInv, SubTypeOK, Session
    <3> QED
      BY <3>1, <3>2, <3>3 DEF SubInv, SubTypeOK
  <2> QED
    BY <2>1, <2>2, <2>3, <2>4 DEF subside
<1>2. SubTypeOK'
  BY <1>1 DEF SubInv, SubTypeOK
<1>3. ASSUME NEW b \in BoxNames
      PROVE  /\ Len(log'[b]) \in Nat /\ Len(log[b]) <= Len(log'[b])
             /\ \A k \in 1 .. Len(log[b]) : log'[b][k] = log[b][k]
  <2>1. log[b] \in Seq(Lines) /\ Len(log[b]) \in Nat
    BY LineTypes, LenProperties DEF PubInv
  <2>2. CASE log' = log
    BY <2>1, <2>2
  <2>3. ASSUME NEW p \in Pubs, Receive(p)
        PROVE  <1>3!2
    <3> DEFINE line == Head(toWorker[p])
    <3>1. /\ toWorker[p] # <<>>
          /\ log' = [log EXCEPT ![Topic[p]] = Append(log[Topic[p]], line)]
      BY <2>3 DEF Receive
    <3>2. line \in Lines
      BY <3>1, LineTypes, Taken DEF PubInv
    <3> HIDE DEF line
    <3>3. log'[b] = log[b] \/ log'[b] = Append(log[b], line)
      BY <3>1 DEF PubInv, PubTypeOK
    <3>4. /\ Len(Append(log[b], line)) = Len(log[b]) + 1
          /\ \A k \in 1 .. Len(log[b]) : Append(log[b], line)[k] = log[b][k]
      BY <2>1, <3>2, Appended
    <3> QED
      BY <2>1, <3>3, <3>4
  <2> QED
    BY <2>2, <2>3 DEF RegisterSub, Disconnect, InterruptSub, StopBroker
<1>4. ASSUME NEW s \in Subs
      PROVE  ScreenInv(s)'
  <2>1. Topic[s] \in BoxNames
    BY ConversationAssumption
  <2> QED
    BY <1>1, <1>3, <2>1, ScreenKept DEF PubInv, SubInv
<1> QED
  BY <1>2, <1>4 DEF SubInv

(* The worker takes the next message to the FIFO, or finds s gone.         *)
LEMMA ForwardStep ==
  ASSUME PubInv, SubInv, NEW s \in Subs, Forward(s) \/ SubscriberGone(s)
  PROVE  SubInv'
<1> DEFINE box == log[Topic[s]]
           f == forwarded[s]
           n == Len(printed[s])
           queue == toClient[s]
<1>1. /\ UNCHANGED <<log, sub, printed>> /\ wsub[s] = "serving" /\ f < Len(box)
      /\ forwarded' = [forwarded EXCEPT ![s] = f + 1]
      /\ \/ /\ sub[s] = "read" /\ Len(queue) < PipeSize /\ UNCHANGED wsub
            /\ toClient' = [toClient EXCEPT ![s] = Append(queue, box[f + 1])]
         \/ /\ sub[s] # "read" /\ UNCHANGED toClient
            /\ wsub' = [wsub EXCEPT ![s] = "ended"]
  BY DEF Forward, SubscriberGone, Unforwarded
<1>2. /\ box \in Seq(Lines)
      /\ Len(box) \in Nat
      /\ DOMAIN box = 1 .. Len(box)
      /\ Topic[s] \in BoxNames
      /\ \A k \in DOMAIN box : box[k] \in Lines
      /\ queue \in Seq(Lines) /\ Len(queue) \in Nat /\ DOMAIN queue = 1 .. Len(queue)
      /\ n \in Nat /\ f \in Nat
  BY ScreenTypes DEF PubInv, SubInv
<1>3. /\ n + Len(queue) <= f
      /\ sub[s] = "read" => n + Len(queue) = f
      /\ \A k \in 1 .. n : printed[s][k] = box[k]
      /\ \A k \in DOMAIN queue : queue[k] = box[n + k]
  BY DEF SubInv, ScreenInv
<1>4. ASSUME NEW r \in Subs, r # s
      PROVE  ScreenInv(r)'
  <2>1. forwarded'[r] = forwarded[r] /\ toClient'[r] = toClient[r] /\ wsub'[r] = wsub[r]
    BY <1>1, <1>4 DEF SubInv, SubTypeOK
  <2>2. Len(log[Topic[r]]) \in Nat
    BY ScreenTypes DEF PubInv, SubInv
  <2> QED
    BY <1>1, <2>1, <2>2, ScreenKept DEF PubInv, SubInv
<1>5. forwarded'[s] = f + 1 /\ wsub'[s] \in {"serving", "ended"}
  BY <1>1 DEF SubInv, SubTypeOK
<1>6. CASE /\ sub[s] = "read" /\ Len(queue) < PipeSize /\ UNCHANGED wsub
           /\ toClient' = [toClient EXCEPT ![s] = Append(queue, box[f + 1])]
  <2> DEFINE line == box[f + 1]
  <2>1. line \in Lines
    <3>1. f + 1 \in 1 .. Len(box)
      BY <1>1, <1>2
    <3> QED
      BY <1>2, <3>1
  <2> HIDE DEF line
  <2>2. /\ Append(queue, line) \in Seq(Lines)
        /\ Len(Append(queue, line)) = Len(queue) + 1
        /\ DOMAIN Append(queue, line) = 1 .. (Len(queue) + 1)
        /\ Append(queue, line)[Len(queue) + 1] = line
        /\ \A k \in 1 .. Len(queue) : Append(queue, line)[k] = queue[k]
    BY <1>2, <2>1, Appended
  <2>3. /\ toClient' = [toClient EXCEPT ![s] = Append(queue, line)]
        /\ toClient'[s] = Append(queue, line)
    BY <1>6 DEF line, SubInv, SubTypeOK
  <2>4. SubTypeOK'
    <3>1. Len(Append(queue, line)) <= PipeSize
      BY <1>2, <1>6, <2>2, ListingAssumption
    <3>2. f + 1 \in Nat
      BY <1>2
    <3> QED
      BY <1>1, <1>6, <2>2, <2>3, <3>1, <3>2 DEF SubInv, SubTypeOK
  <2>5. ASSUME NEW k \in 1 .. (Len(queue) + 1)
        PROVE  toClient'[s][k] = box[n + k]
    <3>1. CASE k \in 1 .. Len(queue)
      BY <1>2, <1>3, <2>2, <2>3, <3>1
    <3>2. CASE k = Len(queue) + 1
      <4>1. n + k = f + 1
        <5>1. n \in Nat /\ f \in Nat /\ Len(queue) \in Nat /\ n + Len(queue) = f
          BY <1>2, <1>3, <1>6
        <5> HIDE DEF n, f, queue
        <5> QED
          BY <3>2, <5>1
      <4>2. toClient'[s][k] = line
        BY <2>2, <2>3, <3>2
      <4> QED
        BY <4>1, <4>2 DEF line
    <3> QED
      BY <1>2, <3>1, <3>2
  <2>6. n + Len(toClient'[s]) = f + 1 /\ f + 1 <= Len(box)
    <3>1. /\ n \in Nat
          /\ f \in Nat
          /\ Len(queue) \in Nat
          /\ Len(box) \in Nat
          /\ n + Len(queue) = f
          /\ f < Len(box)
      BY <1>1, <1>2, <1>3, <1>6
    <3>2. Len(toClient'[s]) = Len(queue) + 1
      BY <2>2, <2>3
    <3> HIDE DEF n, f, queue, box
    <3> QED
      BY <3>1, <3>2
  <2>7. ScreenInv(s)'
    <3>1. n + Len(toClient'[s]) <= f + 1
      <4>1. f + 1 \in Nat
        BY <1>2
      <4>2. f + 1 <= f + 1
        BY <4>1
      <4> QED
        BY <2>6, <4>2
    <3> QED
      BY <1>1, <1>3, <1>5, <2>2, <2>3, <2>5, <2>6, <3>1, <1>6 DEF ScreenInv
  <2> QED
    BY <1>4, <2>4, <2>7 DEF SubInv
<1>7. CASE /\ sub[s] # "read" /\ UNCHANGED toClient
           /\ wsub' = [wsub EXCEPT ![s] = "ended"]
  <2>1. SubTypeOK'
    <3>1. f + 1 \in Nat
      BY <1>2
    <3> QED
      BY <1>1, <1>7, <3>1 DEF SubInv, SubTypeOK, Session
  <2>2. n + Len(queue) <= f + 1 /\ f + 1 <= Len(box)
    <3>1. /\ n \in Nat
          /\ f \in Nat
          /\ Len(queue) \in Nat
          /\ Len(box) \in Nat
          /\ n + Len(queue) <= f
          /\ f < Len(box)
      BY <1>1, <1>2, <1>3
    <3> HIDE DEF n, f, queue, box
    <3> QED
      BY <3>1
  <2>3. wsub'[s] = "ended"
    BY <1>7 DEF SubInv, SubTypeOK
  <2>4. ScreenInv(s)'
    BY <1>1, <1>3, <1>5, <1>7, <2>2, <2>3 DEF ScreenInv
  <2> QED
    BY <1>4, <2>1, <2>4 DEF SubInv
<1> QED
  BY <1>1, <1>6, <1>7

(* A message goes from the FIFO to the screen.                             *)
LEMMA PrintStep ==
  ASSUME PubInv, SubInv, NEW s \in Subs, PrintMessage(s)
  PROVE  SubInv'
<1> DEFINE box == log[Topic[s]]
           n == Len(printed[s])
           queue == toClient[s]
           line == Head(queue)
<1>1. /\ UNCHANGED <<log, sub, wsub, forwarded>> /\ queue # <<>>
      /\ toClient' = [toClient EXCEPT ![s] = Tail(queue)]
      /\ printed' = [printed EXCEPT ![s] = Append(printed[s], line)]
  BY DEF PrintMessage
<1>2. /\ queue \in Seq(Lines)
      /\ printed[s] \in Seq(Lines)
      /\ n \in Nat
      /\ forwarded[s] \in Nat
  BY ScreenTypes DEF PubInv, SubInv
<1>3. /\ line \in Lines /\ line = queue[1]
      /\ Tail(queue) \in Seq(Lines)
      /\ Len(Tail(queue)) = Len(queue) - 1 /\ DOMAIN Tail(queue) = 1 .. (Len(queue) - 1)
      /\ \A k \in 1 .. (Len(queue) - 1) : Tail(queue)[k] = queue[k + 1]
      /\ Len(queue) \in Nat /\ Len(queue) > 0 /\ DOMAIN queue = 1 .. Len(queue)
  BY <1>1, <1>2, Taken
<1> HIDE DEF line
<1>4. /\ Append(printed[s], line) \in Seq(Lines)
      /\ Len(Append(printed[s], line)) = n + 1
      /\ Append(printed[s], line)[n + 1] = line
      /\ \A k \in 1 .. n : Append(printed[s], line)[k] = printed[s][k]
  BY <1>2, <1>3, Appended
<1>5. toClient'[s] = Tail(queue) /\ printed'[s] = Append(printed[s], line)
  BY <1>1 DEF SubInv, SubTypeOK
<1>6. ASSUME NEW r \in Subs, r # s
      PROVE  ScreenInv(r)'
  <2>1. printed'[r] = printed[r] /\ toClient'[r] = toClient[r]
    BY <1>1, <1>6 DEF SubInv, SubTypeOK
  <2>2. Len(log[Topic[r]]) \in Nat
    BY ScreenTypes DEF PubInv, SubInv
  <2> QED
    BY <1>1, <2>1, <2>2, ScreenKept DEF PubInv, SubInv
<1>7. /\ wsub[s] \in {"dequeued", "refused"} => forwarded[s] = 0
      /\ forwarded[s] <= Len(box)
      /\ n + Len(queue) <= forwarded[s]
      /\ sub[s] = "read" => n + Len(queue) = forwarded[s]
      /\ \A k \in 1 .. n : printed[s][k] = box[k]
      /\ \A k \in DOMAIN queue : queue[k] = box[n + k]
  BY DEF SubInv, ScreenInv
<1>8. SubTypeOK'
  <2>1. Len(queue) - 1 <= PipeSize
    BY <1>3, ListingAssumption DEF SubInv, SubTypeOK
  <2> QED
    BY <1>1, <1>3, <1>4, <2>1 DEF SubInv, SubTypeOK
<1>9. /\ (n + 1) + (Len(queue) - 1) = n + Len(queue)
      /\ \A k \in 1 .. (Len(queue) - 1) :
           k + 1 \in 1 .. Len(queue) /\ n + (k + 1) = (n + 1) + k
  <2>1. n \in Nat /\ Len(queue) \in Nat
    BY <1>2, <1>3
  <2> HIDE DEF n, queue
  <2> QED
    BY <2>1
<1>10. ASSUME NEW k \in 1 .. (n + 1)
       PROVE  printed'[s][k] = box[k]
  <2>1. CASE k \in 1 .. n
    BY <1>4, <1>5, <1>7, <2>1
  <2>2. CASE k = n + 1
    <3>1. queue[1] = box[n + 1]
      BY <1>3, <1>7
    <3> QED
      BY <1>3, <1>4, <1>5, <2>2, <3>1
  <2> QED
    BY <1>2, <2>1, <2>2
<1>11. ASSUME NEW k \in 1 .. (Len(queue) - 1)
       PROVE  Tail(queue)[k] = box[(n + 1) + k]
  <2>1. k + 1 \in 1 .. Len(queue) /\ n + (k + 1) = (n + 1) + k
    BY <1>9
  <2>2. queue[k + 1] = box[n + (k + 1)]
    BY <1>3, <1>7, <2>1
  <2> QED
    BY <1>3, <2>1, <2>2
<1>12. ScreenInv(s)'
  <2> DEFINE n2 == Len(printed'[s])
             queue2 == toClient'[s]
  <2>1. /\ n2 = n + 1 /\ n2 + Len(queue2) = n + Len(queue)
        /\ DOMAIN queue2 = 1 .. (Len(queue) - 1)
    BY <1>3, <1>4, <1>5, <1>9
  <2>2. \A k \in 1 .. n2 : printed'[s][k] = box[k]
    BY <1>10, <2>1
  <2>3. \A k \in DOMAIN queue2 : queue2[k] = box[n2 + k]
    BY <1>5, <1>11, <2>1
  <2>4. log' = log /\ sub' = sub /\ wsub' = wsub /\ forwarded' = forwarded
    BY <1>1
  <2> HIDE DEF n2, queue2, n, queue
  <2>5. /\ n2 + Len(queue2) <= forwarded[s]
        /\ sub[s] = "read" => n2 + Len(queue2) = forwarded[s]
    BY <1>7, <2>1
  <2> QED
    BY <1>7, <2>2, <2>3, <2>4, <2>5 DEF ScreenInv, n2, queue2
<1> QED
  BY <1>6, <1>8, <1>12 DEF SubInv

(***************************************************************************)
(* All of it                                                               *)
(***************************************************************************)

IInv == ListingInv /\ PubInv /\ SubInv

LEMMA Start == ASSUME Init PROVE IInv
BY ListingStart, PubStart, ScreenStart DEF Init, IInv

(* What a step is for the listings, for the publishers and for the screens.*)
LEMMA Steps ==
  ASSUME [Next]_vars
  PROVE  /\ ListingStep
         /\ \/ UNCHANGED <<up, pubside, log>>
            \/ \E p \in Pubs : \/ TypeLine(p) \/ EndInput(p) \/ ReadLine(p) \/ EndOfInput(p)
                               \/ InterruptPub(p) \/ WriteLine(p)
                               \/ RegisterPub(p) \/ EndOfPipe(p) \/ Receive(p)
            \/ StopBroker
         /\ \/ UNCHANGED <<subside, log>>
            \/ UNCHANGED subside /\ \E p \in Pubs : Receive(p)
            \/ \E s \in Subs : \/ RegisterSub(s) \/ Disconnect(s) \/ InterruptSub(s)
                               \/ Forward(s) \/ SubscriberGone(s) \/ PrintMessage(s)
            \/ StopBroker
<1> DEFINE Goal ==
      /\ ListingStep
      /\ \/ UNCHANGED <<up, pubside, log>>
         \/ \E p \in Pubs : \/ TypeLine(p) \/ EndInput(p) \/ ReadLine(p) \/ EndOfInput(p)
                            \/ InterruptPub(p) \/ WriteLine(p)
                            \/ RegisterPub(p) \/ EndOfPipe(p) \/ Receive(p)
         \/ StopBroker
      /\ \/ UNCHANGED <<subside, log>>
         \/ UNCHANGED subside /\ \E p \in Pubs : Receive(p)
         \/ \E s \in Subs : \/ RegisterSub(s) \/ Disconnect(s) \/ InterruptSub(s)
                            \/ Forward(s) \/ SubscriberGone(s) \/ PrintMessage(s)
         \/ StopBroker
<1>1. CASE ListingNext /\ UNCHANGED <<pubside, log, subside>>
  <2>1. UNCHANGED up
    BY <1>1 DEF ListingNext, HandlerStep, ManagerStep, StartList, WriteBox, PushPacket,
       ReadPacket,
                ServerDisconnected, InterruptManager, Suspend, ChangeBoxes, broker
  <2> QED
    BY <1>1, <2>1 DEF ListingStep
<1>2. ASSUME NEW p \in Pubs, TypeLine(p) \/ EndInput(p) \/ InterruptPub(p) \/ PubStep(p) \/ ServePub(p)
      PROVE  Goal
  <2>1. ListingStep
    BY <1>2 DEF ListingStep, TypeLine, EndInput, InterruptPub, PubStep, ServePub,
       ReadLine, EndOfInput,
                WriteLine, RegisterPub, EndOfPipe, Receive
  <2>2. \/ TypeLine(p) \/ EndInput(p) \/ ReadLine(p) \/ EndOfInput(p) \/ InterruptPub(p) \/ WriteLine(p)
        \/ RegisterPub(p) \/ EndOfPipe(p) \/ Receive(p)
    BY <1>2 DEF PubStep, ServePub
  <2>3. UNCHANGED subside /\ (UNCHANGED log \/ Receive(p))
    BY <2>2 DEF TypeLine, EndInput, InterruptPub, ReadLine, EndOfInput, WriteLine,
       RegisterPub, EndOfPipe, Receive
  <2> QED
    BY <2>1, <2>2, <2>3
<1>3. ASSUME NEW s \in Subs, InterruptSub(s) \/ SubStep(s) \/ ServeSub(s)
      PROVE  Goal
  <2>1. ListingStep
    BY <1>3 DEF ListingStep, InterruptSub, SubStep, ServeSub, PrintMessage, Disconnect,
       RegisterSub,
                Forward, SubscriberGone
  <2>2. UNCHANGED <<up, pubside, log>>
    BY <1>3 DEF InterruptSub, SubStep, ServeSub, PrintMessage, Disconnect, RegisterSub,
                Forward, SubscriberGone, lvars, broker
  <2>3. \/ RegisterSub(s) \/ Disconnect(s) \/ InterruptSub(s)
        \/ Forward(s) \/ SubscriberGone(s) \/ PrintMessage(s)
    BY <1>3 DEF SubStep, ServeSub
  <2> QED
    BY <2>1, <2>2, <2>3
<1>4. CASE StopBroker
  BY <1>4 DEF StopBroker, ListingStep
<1>5. CASE UNCHANGED vars
  BY <1>5 DEF vars, ListingStep, lvars, broker
<1> QED
  BY <1>1, <1>2, <1>3, <1>4, <1>5 DEF Next

LEMMA Step ==
  ASSUME IInv, [Next]_vars
  PROVE  IInv'
<1>1. ListingInv'
  BY Steps, ListingInvStep DEF IInv
<1>2. PubInv'
  <2>1. CASE UNCHANGED <<up, pubside, log>>
    <3>1. UNCHANGED <<up, typed, eof, pub, taken, toWorker, wpub, log>>
      BY <2>1 DEF pubside, keyboard, publisher
    <3>2. \A p \in Pubs : Written(p)' = Written(p) /\ Written(p) \in Int
      BY <3>1, LineTypes DEF Written, IInv, PubInv
    <3>3. /\ \A p \in Pubs : PipeInv(p)'
          /\ \A b \in BoxNames : LogInv(b)'
      BY <3>1, <3>2, OrderKept DEF IInv
    <3>4. \A p \in Pubs : LoopInv(p)' /\ CompleteInv(p)'
      BY <3>1, <3>2, CompleteKept DEF IInv, PubInv, LoopInv
    <3>5. PubTypeOK'
      BY <3>1 DEF IInv, PubInv, PubTypeOK
    <3> QED
      BY <3>3, <3>4, <3>5 DEF PubInv
  <2>2. ASSUME NEW p \in Pubs,
               TypeLine(p) \/ EndInput(p) \/ ReadLine(p) \/ EndOfInput(p) \/ InterruptPub(p)
        PROVE  PubInv'
    <3>1. PubInv
      BY DEF IInv
    <3> QED
      BY <2>2, <3>1, KeyboardStep, Zenon
  <2>3. ASSUME NEW p \in Pubs, WriteLine(p)
        PROVE  PubInv'
    BY <2>3, KeyboardStep, WriteLineStep DEF IInv
  <2>4. ASSUME NEW p \in Pubs, RegisterPub(p) \/ EndOfPipe(p)
        PROVE  PubInv'
    BY <2>4, SessionStep DEF IInv
  <2>5. ASSUME NEW p \in Pubs, Receive(p)
        PROVE  PubInv'
    BY <2>5, ReceiveStep DEF IInv
  <2>6. CASE StopBroker
    BY <2>6, SessionStep DEF IInv
  <2> QED
    BY <2>1, <2>2, <2>3, <2>4, <2>5, <2>6, Steps
<1>3. SubInv'
  BY Steps, ScreensKept, ForwardStep, PrintStep DEF IInv
<1> QED
  BY <1>1, <1>2, <1>3 DEF IInv

LEMMA Invariance == Spec => []IInv
<1>1. Init => IInv
  BY Start
<1>2. IInv /\ [Next]_vars => IInv'
  BY Step
<1> QED
  BY <1>1, <1>2, PTL DEF Spec

(* Every variable stays in its range, and no FIFO holds more than it can.  *)
THEOREM TypeCorrect == Spec => []TypeOK
<1>1. IInv => TypeOK
  BY DEF IInv, ListingInv, PubInv, PubTypeOK, SubInv, SubTypeOK, TypeOK
<1> QED
  BY <1>1, Invariance, PTL

(* What "manager list" prints is the list of boxes as it was when the      *)
(* handler took messages_lock, sorted (mbroker.c:421-476, manager.c:218).  *)
THEOREM ListingsAreSnapshots == Spec => []ListedIsSnapshot
<1>1. IInv => ListedIsSnapshot
  BY DEF IInv, ListingInv, ListedIsSnapshot
<1> QED
  BY <1>1, Invariance, PTL

LEMMA AllSent == ASSUME IInv PROVE EveryLineSent
<1> SUFFICES ASSUME NEW p \in Pubs, pub[p] = "ended", up, wpub[p] # "refused"
             PROVE  LET sent == log[Topic[p]] \o toWorker[p]
                        own  == {k \in DOMAIN sent : sent[k][1] = p}
                    IN  /\ {sent[k] : k \in own} = {p} \X (1 .. typed[p])
                        /\ \A j, k \in own : j < k => sent[j][2] < sent[k][2]
  BY DEF EveryLineSent
<1> DEFINE box == log[Topic[p]]
           queue == toWorker[p]
           sent == box \o queue
           own == {k \in DOMAIN sent : sent[k][1] = p}
<1>1. /\ box \in Seq(Lines) /\ queue \in Seq(Lines) /\ Topic[p] \in BoxNames
      /\ PubTypeOK /\ LogInv(Topic[p]) /\ PipeInv(p) /\ CompleteInv(p) /\ LoopInv(p)
      /\ DOMAIN box = 1 .. Len(box) /\ DOMAIN queue = 1 .. Len(queue)
  BY LineTypes DEF IInv, PubInv
<1>2. Written(p) = typed[p] /\ typed[p] \in Nat
  BY <1>1 DEF Written, LoopInv, PubTypeOK
<1>3. /\ sent \in Seq(Lines) /\ Len(sent) = Len(box) + Len(queue)
      /\ \A k \in 1 .. Len(sent) :
           sent[k] = IF k <= Len(box) THEN box[k] ELSE queue[k - Len(box)]
      /\ DOMAIN sent = 1 .. Len(sent) /\ Len(box) \in Nat /\ Len(queue) \in Nat
  <2>1. sent \in Seq(Lines) /\ Len(sent) = Len(box) + Len(queue)
        /\ \A k \in 1 .. Len(box) + Len(queue) :
             sent[k] = IF k <= Len(box) THEN box[k] ELSE queue[k - Len(box)]
    BY <1>1, ConcatProperties
  <2> QED
    BY <1>1, <2>1, LenProperties
<1>4. /\ \A k \in 1 .. Len(box) : box[k] \in Lines
      /\ \A k \in 1 .. Len(queue) : queue[k] \in Lines
      /\ \A line \in Lines :
           line[1] \in Pubs /\ line[2] \in 1 .. MaxLines /\ line = <<line[1], line[2]>>
  BY <1>1, LineTypes
<1>5. /\ \A k \in 1 .. Len(box) : box[k][1] = p => box[k][2] <= typed[p]
      /\ \A k \in 1 .. Len(box), j \in 1 .. Len(queue) :
           box[k][1] = p => box[k][2] < queue[j][2]
      /\ \A j, k \in 1 .. Len(box) : j < k /\ box[j][1] = box[k][1] => box[j][2] < box[k][2]
      /\ \A k \in 1 .. Len(queue) : queue[k][1] = p /\ queue[k][2] <= typed[p]
      /\ \A j, k \in 1 .. Len(queue) : j < k => queue[j][2] < queue[k][2]
  <2>1. /\ \A k \in 1 .. Len(box) : box[k][1] = p => box[k][2] <= typed[p]
        /\ \A k \in 1 .. Len(box), j \in 1 .. Len(queue) :
             box[k][1] = p => box[k][2] < queue[j][2]
        /\ \A j, k \in 1 .. Len(box) :
             j < k /\ box[j][1] = box[k][1] => box[j][2] < box[k][2]
    BY <1>1, <1>2 DEF LogInv
  <2>2. /\ \A k \in 1 .. Len(queue) : queue[k][1] = p /\ queue[k][2] <= typed[p]
        /\ \A j, k \in 1 .. Len(queue) : j < k => queue[j][2] < queue[k][2]
    BY <1>1, <1>2 DEF PipeInv
  <2> QED
    BY <2>1, <2>2
<1>6. \A n \in 1 .. typed[p] : \/ \E k \in 1 .. Len(box) : box[k] = <<p, n>>
                               \/ \E k \in 1 .. Len(queue) : queue[k] = <<p, n>>
  BY <1>1, <1>2 DEF CompleteInv
<1> HIDE DEF box, queue, sent
<1>7. ASSUME NEW k \in 1 .. Len(sent)
      PROVE  \/ k \in 1 .. Len(box) /\ sent[k] = box[k]
             \/ k - Len(box) \in 1 .. Len(queue) /\ sent[k] = queue[k - Len(box)] /\ k > Len(box)
  BY <1>3
<1>8. {sent[k] : k \in own} \subseteq {p} \X (1 .. typed[p])
  <2> SUFFICES ASSUME NEW k \in own PROVE sent[k] \in {p} \X (1 .. typed[p])
    OBVIOUS
  <2>1. k \in 1 .. Len(sent) /\ sent[k][1] = p
    BY <1>3
  <2>2. sent[k] \in Lines /\ sent[k][2] <= typed[p]
    BY <1>4, <1>5, <1>7, <2>1
  <2>3. sent[k][2] \in 1 .. MaxLines /\ sent[k] = <<sent[k][1], sent[k][2]>>
    BY <1>4, <2>2
  <2>4. sent[k][2] \in 1 .. typed[p]
    BY <1>2, <2>2, <2>3, ConversationAssumption
  <2> QED
    BY <2>1, <2>3, <2>4
<1>9. {p} \X (1 .. typed[p]) \subseteq {sent[k] : k \in own}
  <2> SUFFICES ASSUME NEW n \in 1 .. typed[p] PROVE \E k \in own : sent[k] = <<p, n>>
    OBVIOUS
  <2>1. ASSUME NEW k \in 1 .. Len(box), box[k] = <<p, n>>
        PROVE  \E i \in own : sent[i] = <<p, n>>
    <3>1. k \in 1 .. Len(sent) /\ k <= Len(box)
      BY <1>3
    <3>2. sent[k] = <<p, n>>
      BY <1>3, <2>1, <3>1
    <3> QED
      BY <1>3, <3>1, <3>2
  <2>2. ASSUME NEW k \in 1 .. Len(queue), queue[k] = <<p, n>>
        PROVE  \E i \in own : sent[i] = <<p, n>>
    <3>1. /\ Len(box) + k \in 1 .. Len(sent) /\ ~(Len(box) + k <= Len(box))
          /\ (Len(box) + k) - Len(box) = k
      BY <1>3
    <3>2. sent[Len(box) + k] = <<p, n>>
      BY <1>3, <2>2, <3>1
    <3> QED
      BY <1>3, <3>1, <3>2
  <2> QED
    BY <1>6, <2>1, <2>2
<1>10. ASSUME NEW j \in own, NEW k \in own, j < k
       PROVE  sent[j][2] < sent[k][2]
  <2>1. j \in 1 .. Len(sent) /\ k \in 1 .. Len(sent) /\ sent[j][1] = p /\ sent[k][1] = p
    BY <1>3
  <2>2. CASE j \in 1 .. Len(box) /\ sent[j] = box[j]
    <3>1. CASE k \in 1 .. Len(box) /\ sent[k] = box[k]
      BY <1>5, <1>10, <2>1, <2>2, <3>1
    <3>2. CASE k - Len(box) \in 1 .. Len(queue) /\ sent[k] = queue[k - Len(box)]
      BY <1>5, <2>1, <2>2, <3>2
    <3> QED
      BY <1>7, <2>1, <3>1, <3>2
  <2>3. CASE j - Len(box) \in 1 .. Len(queue) /\ sent[j] = queue[j - Len(box)] /\ j > Len(box)
    <3>1. k > Len(box) /\ j - Len(box) < k - Len(box)
      BY <1>3, <1>10, <2>1, <2>3
    <3>2. k - Len(box) \in 1 .. Len(queue) /\ sent[k] = queue[k - Len(box)]
      BY <1>3, <2>1, <3>1
    <3> QED
      BY <1>5, <2>3, <3>1, <3>2
  <2> QED
    BY <1>7, <2>1, <2>2, <2>3
<1> QED
  BY <1>8, <1>9, <1>10 DEF sent, box, queue

(* While the broker runs, a publisher that has ended at the end of its     *)
(* input has sent every line, once and in order (pub.c).                   *)
THEOREM LinesSent == Spec => []EveryLineSent
BY Invariance, AllSent, PTL

Reading == [s \in Subs |-> IF wsub[s] \in {"serving", "ended"} THEN Topic[s] ELSE NoBox]

Undamaged == [b \in BoxNames |-> -1]

LEMMA ScreensInit == Init => Screens!Init
BY DEF Init, Screens!Init

LEMMA PublishNew ==
  ASSUME IInv, NEW p \in Pubs, Receive(p)
  PROVE  Screens!Next
<1> DEFINE queue == toWorker[p]
           line == Head(queue)
<1>1. /\ queue # <<>> /\ queue \in Seq(Lines) /\ Topic[p] \in BoxNames /\ PubTypeOK
      /\ log' = [log EXCEPT ![Topic[p]] = Append(log[Topic[p]], line)]
      /\ wsub' = wsub /\ printed' = printed
  BY LineTypes DEF Receive, IInv, PubInv, subside
<1>2. line \in Lines /\ line = queue[1] /\ 1 \in DOMAIN queue
  BY <1>1, Taken
<1>3. line[1] = p
  BY <1>2 DEF IInv, PubInv, PipeInv
<1>4. ASSUME NEW b \in BoxNames, NEW i \in DOMAIN log[b]
      PROVE  log[b][i] # line
  <2> SUFFICES ASSUME log[b][i] = line PROVE FALSE
    OBVIOUS
  <2>1. log[b][i][2] < queue[1][2]
    BY <1>2, <1>3 DEF IInv, PubInv, LogInv
  <2>2. line[2] \in Int
    BY <1>1, <1>2, LineTypes
  <2> QED
    BY <1>2, <2>1, <2>2
<1> HIDE DEF line
<1>5. line \notin Screens!Logged
  BY <1>4 DEF Screens!Logged
<1>6. Screens!Publish(Topic[p], line)
  BY <1>1, <1>5 DEF Screens!Publish
<1> QED
  BY <1>1, <1>2, <1>6 DEF Screens!Next

LEMMA HearNext ==
  ASSUME IInv, NEW s \in Subs, PrintMessage(s)
  PROVE  Screens!Next
<1> DEFINE box == log[Topic[s]]
           n == Len(printed[s])
           queue == toClient[s]
<1>1. /\ queue # <<>> /\ printed' = [printed EXCEPT ![s] = Append(printed[s], Head(queue))]
      /\ log' = log /\ wsub' = wsub
  BY DEF PrintMessage
<1>2. /\ queue \in Seq(Lines) /\ n \in Nat /\ forwarded[s] \in Nat /\ Len(box) \in Nat
      /\ Topic[s] \in BoxNames
  BY ScreenTypes DEF IInv, PubInv, SubInv
<1>3. Head(queue) = queue[1] /\ 1 \in DOMAIN queue /\ Len(queue) \in Nat /\ Len(queue) > 0
  BY <1>1, <1>2, Taken
<1>4. /\ wsub[s] \in {"dequeued", "refused"} => forwarded[s] = 0
      /\ forwarded[s] <= Len(box) /\ n + Len(queue) <= forwarded[s]
      /\ Head(queue) = box[n + 1]
  BY <1>3 DEF IInv, SubInv, ScreenInv
<1>5. n + 1 <= Len(box) /\ forwarded[s] # 0
  <2> HIDE DEF n, box, queue
  <2> QED
    BY <1>2, <1>3, <1>4
<1>6. wsub[s] \in {"serving", "ended"}
  BY <1>4, <1>5 DEF IInv, SubInv, SubTypeOK, Session
<1>7. Reading[s] = Topic[s] /\ Topic[s] # NoBox
  BY <1>2, <1>6, ConversationAssumption DEF Reading
<1>8. Screens!Hear(s)
  BY <1>1, <1>4, <1>5, <1>7 DEF Screens!Hear, Reading
<1> QED
  BY <1>8 DEF Screens!Next

LEMMA ScreensStep == IInv /\ [Next]_vars => [Screens!Next]_Screens!lvars
<1> SUFFICES ASSUME IInv, [Next]_vars PROVE [Screens!Next]_Screens!lvars
  OBVIOUS
<1>1. ASSUME log' = log, printed' = printed, Reading' = Reading
      PROVE  UNCHANGED Screens!lvars
  BY <1>1 DEF Screens!lvars, Reading
<1>2. CASE UNCHANGED <<subside, log>>
  BY <1>1, <1>2 DEF subside, Reading
<1>3. ASSUME NEW s \in Subs, RegisterSub(s)
      PROVE  [Screens!Next]_Screens!lvars
  <2>1. /\ log' = log /\ printed' = printed /\ wsub[s] = "dequeued"
        /\ wsub' = [wsub EXCEPT ![s] = "serving"] \/ wsub' = [wsub EXCEPT ![s] = "refused"]
        /\ wsub \in [Subs -> Session] /\ Topic[s] \in BoxNames
    BY <1>3, ConversationAssumption DEF RegisterSub, IInv, SubInv, SubTypeOK
  <2>2. CASE wsub' = [wsub EXCEPT ![s] = "serving"]
    <3>1. Reading[s] = NoBox /\ Reading' = [Reading EXCEPT ![s] = Topic[s]]
      BY <2>1, <2>2 DEF Reading
    <3>2. Screens!Join(s, Topic[s])
      BY <2>1, <3>1 DEF Screens!Join, Reading
    <3> QED
      BY <2>1, <3>2 DEF Screens!Next
  <2>3. CASE wsub' = [wsub EXCEPT ![s] = "refused"]
    <3>1. Reading' = Reading
      BY <2>1, <2>3 DEF Reading
    <3> QED
      BY <1>1, <2>1, <3>1
  <2> QED
    BY <2>1, <2>2, <2>3
<1>4. ASSUME NEW s \in Subs, Disconnect(s) \/ InterruptSub(s) \/ Forward(s)
      PROVE  [Screens!Next]_Screens!lvars
  <2>1. log' = log /\ printed' = printed /\ wsub' = wsub
    BY <1>4 DEF Disconnect, InterruptSub, Forward
  <2> QED
    BY <1>1, <2>1 DEF Reading
<1>5. ASSUME NEW s \in Subs, SubscriberGone(s)
      PROVE  [Screens!Next]_Screens!lvars
  <2>1. /\ log' = log
        /\ printed' = printed
        /\ wsub[s] = "serving"
        /\ wsub' = [wsub EXCEPT ![s] = "ended"]
        /\ wsub \in [Subs -> Session]
    BY <1>5 DEF SubscriberGone, Unforwarded, IInv, SubInv, SubTypeOK
  <2>2. Reading' = Reading
    BY <2>1 DEF Reading
  <2> QED
    BY <1>1, <2>1, <2>2
<1>6. CASE StopBroker
  <2>1. /\ log' = log
        /\ printed' = printed
        /\ wsub' = Closed(wsub)
        /\ wsub \in [Subs -> Session]
    BY <1>6 DEF StopBroker, IInv, SubInv, SubTypeOK
  <2>2. \A s \in Subs :
          wsub'[s] \in {"serving", "ended"} <=> wsub[s] \in {"serving", "ended"}
    BY <2>1 DEF Closed, Session
  <2>3. Reading' = Reading
    BY <2>2 DEF Reading
  <2> QED
    BY <1>1, <2>1, <2>3
<1> QED
  BY Steps, PublishNew, HearNext, <1>2, <1>3, <1>4, <1>5, <1>6

(* What is on the screens of the subscribers is what a log promises: from  *)
(* the first message on, in order, none missing and none twice (mbroker.c  *)
(* and sub.c), whoever leaves and when the broker stops.                   *)
THEOREM ScreensAreLog == Spec => ScreensImplementLog
<1>1. Init => Screens!Init
  BY ScreensInit
<1>2. IInv /\ [Next]_vars => [Screens!Next]_Screens!lvars
  BY ScreensStep
<1> QED
  BY <1>1, <1>2, Invariance, PTL DEF Spec, ScreensImplementLog, Screens!Spec
=============================================================================
