----------------------- MODULE ProducerConsumerProofs -----------------------
(***************************************************************************)
(* Proofs about ProducerConsumer for any number of threads and slots: the  *)
(* types and who holds which lock where (BaseInv), the counter and the     *)
(* indices (CountsInv), and where an element is (PlacesInv).               *)
(***************************************************************************)
EXTENDS ProducerConsumer, TLAPS, FiniteSetTheorems, SequenceTheorems

(***************************************************************************)
(* Arithmetic of the ring.                                                 *)
(***************************************************************************)

(* Advancing an index (producer-consumer.c:73 and :98).                    *)
LEMMA NextIndex ==
  ASSUME NEW i \in Index
  PROVE  (i + 1) % Capacity = IF i + 1 = Capacity THEN 0 ELSE i + 1
  BY CapacityAssumption DEF Index

(***************************************************************************)
(* Any number of threads: types, and who holds which lock where.           *)
(***************************************************************************)

LockInv ==
  /\ \A t \in Threads : sizeLock = t <=> pc[t] \in {"test", "sleep"}
  /\ \A p \in Producers : headLock = p <=> pc[p] = "advance"
  /\ \A c \in Consumers : tailLock = c <=> pc[c] \in {"clear", "advance"}

CallInv ==
  /\ \A p \in Producers : pc[p] \notin {"fetch", "clear"}
  /\ \A c \in Consumers : pc[c] # "store"
  /\ \A p \in Producers : pc[p] # "done" => sent[p] < Supply
  /\ \A t \in Threads : pc[t] # "test" => headSeen[t] = Unread /\ tailSeen[t] = Unread

BaseInv == TypeOK /\ LockInv /\ CallInv

LEMMA BaseInit == Init => BaseInv
  BY ThreadAssumption, CapacityAssumption DEF Init, BaseInv, TypeOK, LockInv, CallInv,
     Threads, Index

LEMMA BaseStep == BaseInv /\ [Next]_vars => BaseInv'
<1> SUFFICES ASSUME BaseInv, [Next]_vars
             PROVE  BaseInv'
  OBVIOUS
<1> USE ThreadAssumption, CapacityAssumption
<1> USE DEF BaseInv, TypeOK, LockInv, CallInv, Threads, GoTo, ForgetLoads, Tested,
            queue, locks, seen, ends
<1>1. ASSUME NEW t \in Threads, LockSize(t) PROVE BaseInv'
  BY <1>1 DEF LockSize
<1>2. ASSUME NEW t \in Threads, LoadHead(t) PROVE BaseInv'
  BY <1>2 DEF LoadHead
<1>3. ASSUME NEW t \in Threads, LoadTail(t) PROVE BaseInv'
  BY <1>3 DEF LoadTail
<1>4. ASSUME NEW t \in Threads, CallWait(t) PROVE BaseInv'
  BY <1>4 DEF CallWait
<1>5. ASSUME NEW t \in Threads, Sleep(t) PROVE BaseInv'
  BY <1>5 DEF Sleep
<1>6. ASSUME NEW t \in Threads, SpuriousWakeup(t) PROVE BaseInv'
  BY <1>6 DEF SpuriousWakeup
<1>7. ASSUME NEW p \in Producers, Reserve(p) PROVE BaseInv'
  BY <1>7 DEF Reserve, EnqueueWaits
<1>8. ASSUME NEW p \in Producers, Store(p) PROVE BaseInv'
  BY <1>8 DEF Store, Elements
<1>9. ASSUME NEW p \in Producers, AdvanceHead(p) PROVE BaseInv'
  BY <1>9, NextIndex DEF AdvanceHead, Index
<1>10. ASSUME NEW p \in Producers, SignalPopper(p) PROVE BaseInv'
  <2> DEFINE next == IF sent[p] + 1 < Supply THEN "call" ELSE "done"
  <2>1. /\ next \in {"call", "done"}
        /\ next # "done" => sent[p] + 1 < Supply
        /\ pc[p] = "signal"
        /\ sent' = [sent EXCEPT ![p] = sent[p] + 1]
        /\ UNCHANGED <<queue, locks, seen, data, got>>
    BY <1>10 DEF SignalPopper
  <2> sent[p] \in Nat /\ sent[p] + 1 \in 0..Supply
    BY <2>1
  <2>2. \/ pc' = [pc EXCEPT ![p] = next]
        \/ \E w \in Consumers : pc[w] = "wait" /\ pc' = [pc EXCEPT ![p] = next, ![w] = "call"]
    BY <1>10 DEF SignalPopper, SignalAndGoTo
  <2> HIDE DEF next
  <2>3. /\ pc' \in [Threads -> {"call", "test", "sleep", "wait", "store", "fetch",
                               "clear", "advance", "signal", "done"}]
        /\ pc'[p] = next
        /\ \A t \in Threads : t # p => pc'[t] = pc[t] \/ (pc[t] = "wait" /\ pc'[t] = "call")
    <3>1. CASE pc' = [pc EXCEPT ![p] = next]
      BY <2>1, <3>1
    <3>2. CASE \E w \in Consumers : pc[w] = "wait" /\ pc' = [pc EXCEPT ![p] = next, ![w] = "call"]
      <4>1. PICK w \in Consumers : pc[w] = "wait" /\ pc' = [pc EXCEPT ![p] = next, ![w] = "call"]
        BY <3>2
      <4>2. w # p
        BY <2>1, <4>1
      <4>3. QED
        BY <2>1, <4>1, <4>2
    <3>3. QED
      BY <2>2, <3>1, <3>2
  <2>4. TypeOK'
    BY <2>1, <2>3
  <2>5. LockInv'
    BY <2>1, <2>3
  <2>6. CallInv'
    BY <2>1, <2>3
  <2>7. QED
    BY <2>4, <2>5, <2>6
<1>11. ASSUME NEW c \in Consumers, Claim(c) PROVE BaseInv'
  BY <1>11 DEF Claim, DequeueWaits
<1>12. ASSUME NEW c \in Consumers, Fetch(c) PROVE BaseInv'
  BY <1>12 DEF Fetch
<1>13. ASSUME NEW c \in Consumers, ClearSlot(c) PROVE BaseInv'
  BY <1>13 DEF ClearSlot
<1>14. ASSUME NEW c \in Consumers, AdvanceTail(c) PROVE BaseInv'
  BY <1>14, NextIndex DEF AdvanceTail, Index
<1>15. ASSUME NEW c \in Consumers, SignalPusher(c) PROVE BaseInv'
  <2> DEFINE next == IF Len(got[c]) + 1 < Demand THEN "call" ELSE "done"
  <2>1. /\ next \in {"call", "done"}
        /\ pc[c] = "signal"
        /\ got' \in [Consumers -> Seq(Elements \cup {NULL, Garbage})]
        /\ UNCHANGED <<queue, locks, seen, sent, data>>
    BY <1>15 DEF SignalPusher
  <2>2. \/ pc' = [pc EXCEPT ![c] = next]
        \/ \E w \in Producers : pc[w] = "wait" /\ pc' = [pc EXCEPT ![c] = next, ![w] = "call"]
    BY <1>15 DEF SignalPusher, SignalAndGoTo
  <2> HIDE DEF next
  <2>3. /\ pc' \in [Threads -> {"call", "test", "sleep", "wait", "store", "fetch",
                               "clear", "advance", "signal", "done"}]
        /\ pc'[c] = next
        /\ \A t \in Threads : t # c => pc'[t] = pc[t] \/ (pc[t] = "wait" /\ pc'[t] = "call")
    <3>1. CASE pc' = [pc EXCEPT ![c] = next]
      BY <2>1, <3>1
    <3>2. CASE \E w \in Producers : pc[w] = "wait" /\ pc' = [pc EXCEPT ![c] = next, ![w] = "call"]
      <4>1. PICK w \in Producers : pc[w] = "wait" /\ pc' = [pc EXCEPT ![c] = next, ![w] = "call"]
        BY <3>2
      <4>2. w # c
        BY <2>1, <4>1
      <4>3. QED
        BY <2>1, <4>1, <4>2
    <3>3. QED
      BY <2>2, <3>1, <3>2
  <2>4. TypeOK'
    BY <2>1, <2>3
  <2>5. LockInv'
    BY <2>1, <2>3
  <2>6. CallInv'
    BY <2>1, <2>3
  <2>7. QED
    BY <2>4, <2>5, <2>6
<1>16. CASE UNCHANGED vars
  BY <1>16 DEF vars
<1>17. QED
  BY <1>1, <1>2, <1>3, <1>4, <1>5, <1>6, <1>7, <1>8, <1>9, <1>10, <1>11, <1>12,
     <1>13, <1>14, <1>15, <1>16 DEF Next, Test, Enqueue, Dequeue

THEOREM TypeCorrect == Spec => []TypeOK
<1>1. BaseInv => TypeOK
  BY DEF BaseInv
<1>2. QED
  BY <1>1, BaseInit, BaseStep, PTL DEF Spec

(***************************************************************************)
(* Arithmetic modulo the capacity                                          *)
(***************************************************************************)

LEMMA Divided ==
  ASSUME NEW a \in Int
  PROVE  /\ a \div Capacity \in Int
         /\ a % Capacity \in Index
         /\ a = Capacity * (a \div Capacity) + (a % Capacity)
  BY CapacityAssumption DEF Index

LEMMA NextMultiple ==
  ASSUME NEW q \in Int, NEW k \in Int, q > k
  PROVE  Capacity * q >= Capacity * k + Capacity
  BY CapacityAssumption, Z3

LEMMA OneRemainder ==
  ASSUME NEW q \in Int, NEW k \in Int, NEW r \in Index, NEW s \in Index,
         Capacity * q + r = Capacity * k + s
  PROVE  r = s
<1>1. Capacity * q \in Int /\ Capacity * k \in Int
  BY CapacityAssumption
<1>2. ~(q > k) /\ ~(k > q)
  BY NextMultiple, <1>1, CapacityAssumption DEF Index
<1>3. q = k
  BY <1>2
<1> QED
  BY <1>3, <1>1 DEF Index

LEMMA Remainder ==
  ASSUME NEW q \in Int, NEW r \in Index
  PROVE  (Capacity * q + r) % Capacity = r
<1>1. Capacity * q \in Int /\ Capacity * q + r \in Int
  BY CapacityAssumption DEF Index
<1> QED
  BY <1>1, Divided, OneRemainder

(* One more, and a whole round less.                                       *)
LEMMA RemainderOfNext ==
  ASSUME NEW a \in Int
  PROVE  /\ (a + 1) % Capacity = IF a % Capacity = Capacity - 1 THEN 0 ELSE (a % Capacity) + 1
         /\ (a - Capacity) % Capacity = a % Capacity
<1> DEFINE q == a \div Capacity
           r == a % Capacity
<1>1. q \in Int /\ r \in Index /\ a = Capacity * q + r
  BY Divided
<1>2. /\ Capacity * (q + 1) = Capacity * q + Capacity
      /\ Capacity * (q - 1) = Capacity * q - Capacity
      /\ Capacity * q \in Int
  BY <1>1, CapacityAssumption
<1> HIDE DEF q, r
<1>3. ASSUME r = Capacity - 1
      PROVE  (a + 1) % Capacity = 0
  <2>1. a + 1 = Capacity * (q + 1) + 0
    BY <1>1, <1>2, <1>3, CapacityAssumption
  <2>2. (Capacity * (q + 1) + 0) % Capacity = 0
    BY <1>1, CapacityAssumption, Remainder DEF Index
  <2> QED
    BY <2>1, <2>2
<1>4. ASSUME r # Capacity - 1
      PROVE  (a + 1) % Capacity = r + 1
  <2>1. a + 1 = Capacity * q + (r + 1) /\ r + 1 \in Index
    BY <1>1, <1>2, <1>4, CapacityAssumption DEF Index
  <2>2. (Capacity * q + (r + 1)) % Capacity = r + 1
    BY <1>1, <2>1, Remainder
  <2> QED
    BY <2>1, <2>2
<1>5. (a - Capacity) % Capacity = r
  <2>1. a - Capacity = Capacity * (q - 1) + r
    BY <1>1, <1>2, CapacityAssumption DEF Index
  <2> QED
    BY <1>1, <2>1, Remainder
<1> QED
  BY <1>3, <1>4, <1>5 DEF r

LEMMA Congruent ==
  ASSUME NEW a \in Int, NEW b \in Int, a % Capacity = b % Capacity
  PROVE  (a + 1) % Capacity = (b + 1) % Capacity /\ (a - 1) % Capacity = (b - 1) % Capacity
<1>1. (a + 1) % Capacity = (b + 1) % Capacity
  BY RemainderOfNext
<1>2. a - 1 \in Int /\ b - 1 \in Int /\ (a - 1) + 1 = a /\ (b - 1) + 1 = b
  OBVIOUS
<1>3. (a - 1) % Capacity \in Index /\ (b - 1) % Capacity \in Index
  BY <1>2, Divided
<1>4. /\ a % Capacity = IF (a - 1) % Capacity = Capacity - 1 THEN 0 ELSE ((a - 1) % Capacity) + 1
      /\ b % Capacity = IF (b - 1) % Capacity = Capacity - 1 THEN 0 ELSE ((b - 1) % Capacity) + 1
  BY <1>2, RemainderOfNext
<1>5. (a - 1) % Capacity = (b - 1) % Capacity
  <2> DEFINE x == (a - 1) % Capacity
             y == (b - 1) % Capacity
             z == a % Capacity
  <2>1. /\ x \in Index /\ y \in Index
        /\ z = IF x = Capacity - 1 THEN 0 ELSE x + 1
        /\ z = IF y = Capacity - 1 THEN 0 ELSE y + 1
    BY <1>3, <1>4
  <2> HIDE DEF x, y, z
  <2>2. x = y
    BY <2>1, CapacityAssumption DEF Index
  <2> QED
    BY <2>2 DEF x, y
<1> QED
  BY <1>1, <1>5

(* An index that wraps around moves the distance by one like any other.    *)
LEMMA IndexMoves ==
  ASSUME NEW h \in Index, NEW t \in Index
  PROVE  /\ (((h + 1) % Capacity) - t) % Capacity = (h - t + 1) % Capacity
         /\ (h - ((t + 1) % Capacity)) % Capacity = (h - t - 1) % Capacity
<1>0. h \in Int /\ t \in Int /\ Capacity \in Int
  BY CapacityAssumption DEF Index
<1>1. (((h + 1) % Capacity) - t) % Capacity = (h - t + 1) % Capacity
  <2>1. CASE h + 1 = Capacity
    <3>1. ((h + 1) % Capacity) - t = (h - t + 1) - Capacity /\ h - t + 1 \in Int
      BY <1>0, <2>1, NextIndex
    <3> QED
      BY <3>1, RemainderOfNext
  <2>2. CASE h + 1 # Capacity
    <3>1. ((h + 1) % Capacity) - t = h - t + 1
      BY <1>0, <2>2, NextIndex
    <3> QED
      BY <3>1
  <2> QED
    BY <2>1, <2>2
<1>2. (h - ((t + 1) % Capacity)) % Capacity = (h - t - 1) % Capacity
  <2>1. CASE t + 1 = Capacity
    <3>1. h - t - 1 = h - Capacity /\ (t + 1) % Capacity = 0 /\ h - 0 = h
      BY <1>0, <2>1, NextIndex
    <3> QED
      BY <1>0, <3>1, RemainderOfNext
  <2>2. CASE t + 1 # Capacity
    <3>1. h - ((t + 1) % Capacity) = h - t - 1
      BY <1>0, <2>2, NextIndex
    <3> QED
      BY <3>1
  <2> QED
    BY <2>1, <2>2
<1> QED
  BY <1>1, <1>2

(***************************************************************************)
(* The counter and the indices                                             *)
(***************************************************************************)

CountsInv ==
  /\ IsFiniteSet(InFlightStores)
  /\ IsFiniteSet(InFlightFetches)
  /\ RingMatchesCount

LEMMA CountsInit == ASSUME Init PROVE CountsInv
<1>1. InFlightStores = {} /\ InFlightFetches = {}
  BY ThreadAssumption DEF Init, InFlightStores, InFlightFetches, Threads
<1>2. Occupied = 0 /\ head - tail = 0
  BY <1>1, FS_EmptySet DEF Init, Occupied
<1> QED
  BY <1>1, <1>2, FS_EmptySet DEF CountsInv, RingMatchesCount

(* A step that concerns neither.                                           *)
LEMMA CountsFrame ==
  ASSUME CountsInv, size' = size, head' = head, tail' = tail,
         InFlightStores' = InFlightStores, InFlightFetches' = InFlightFetches
  PROVE  CountsInv'
BY DEF CountsInv, RingMatchesCount, Occupied

(* The labels of the calls in flight.                                      *)
LEMMA FlightFrame ==
  ASSUME \A p \in Producers : pc'[p] \in {"store", "advance"} <=> pc[p] \in {"store", "advance"},
         \A c \in Consumers :
           pc'[c] \in {"fetch", "clear", "advance"} <=> pc[c] \in {"fetch", "clear", "advance"}
  PROVE  InFlightStores' = InFlightStores /\ InFlightFetches' = InFlightFetches
BY DEF InFlightStores, InFlightFetches

LEMMA CountsStep ==
  ASSUME BaseInv, CountsInv, [Next]_vars
  PROVE  CountsInv'
<1> USE ThreadAssumption
<1> DEFINE S == InFlightStores
           F == InFlightFetches
<1>0. /\ IsFiniteSet(S) /\ IsFiniteSet(F)
      /\ Cardinality(S) \in Nat /\ Cardinality(F) \in Nat
      /\ size \in Int /\ head \in Index /\ tail \in Index /\ head \in Int /\ tail \in Int
  BY FS_CardinalityType, CapacityAssumption DEF CountsInv, BaseInv, TypeOK, Index
<1>1. ASSUME NEW t \in Threads, LockSize(t) \/ Test(t) \/ SpuriousWakeup(t)
      PROVE  CountsInv'
  <2>1. /\ \A p \in Producers :
             pc'[p] \in {"store", "advance"} <=> pc[p] \in {"store", "advance"}
        /\ \A c \in Consumers :
             pc'[c] \in {"fetch", "clear", "advance"} <=> pc[c] \in {"fetch", "clear", "advance"}
    BY <1>1 DEF LockSize, Test, LoadHead, LoadTail, CallWait, Tested, Sleep,
       SpuriousWakeup, GoTo,
                BaseInv, TypeOK, Threads
  <2>2. size' = size /\ head' = head /\ tail' = tail
    BY <1>1 DEF LockSize, Test, LoadHead, LoadTail, CallWait, Sleep, SpuriousWakeup, queue
  <2> QED
    BY <2>1, <2>2, FlightFrame, CountsFrame
<1>2. ASSUME NEW p \in Producers, Reserve(p)
      PROVE  CountsInv'
  <2>1. /\ p \notin S /\ S' = S \cup {p} /\ F' = F
        /\ size' = size + 1 /\ head' = head /\ tail' = tail
    BY <1>2 DEF Reserve, Tested, GoTo, InFlightStores, InFlightFetches, BaseInv, TypeOK,
       Threads
  <2>2. IsFiniteSet(S') /\ Cardinality(S') = Cardinality(S) + 1
    BY <1>0, <2>1, FS_AddElement
  <2>3. Occupied' = Occupied
    BY <1>0, <2>1, <2>2 DEF Occupied
  <2> QED
    BY <1>0, <2>1, <2>2, <2>3 DEF CountsInv, RingMatchesCount
<1>3. ASSUME NEW p \in Producers, Store(p)
      PROVE  CountsInv'
  <2>1. S' = S /\ F' = F /\ size' = size /\ head' = head /\ tail' = tail
    BY <1>3 DEF Store, GoTo, InFlightStores, InFlightFetches, BaseInv, TypeOK, Threads
  <2> QED
    BY <2>1, CountsFrame
<1>4. ASSUME NEW p \in Producers, AdvanceHead(p)
      PROVE  CountsInv'
  <2>1. /\ p \in S /\ S' = S \ {p} /\ F' = F
        /\ size' = size /\ head' = (head + 1) % Capacity /\ tail' = tail
    BY <1>4 DEF AdvanceHead, GoTo, InFlightStores, InFlightFetches, BaseInv, TypeOK, Threads
  <2>2. IsFiniteSet(S') /\ Cardinality(S') = Cardinality(S) - 1
    BY <1>0, <2>1, FS_RemoveElement
  <2>3. Occupied' = Occupied + 1 /\ Occupied \in Int
    BY <1>0, <2>1, <2>2 DEF Occupied
  <2>4. (head' - tail') % Capacity = (head - tail + 1) % Capacity
    BY <1>0, <2>1, IndexMoves
  <2>5. (head - tail + 1) % Capacity = (Occupied + 1) % Capacity
    BY <1>0, <2>3, Congruent DEF CountsInv, RingMatchesCount
  <2> QED
    BY <1>0, <2>1, <2>2, <2>3, <2>4, <2>5 DEF CountsInv, RingMatchesCount
<1>5. ASSUME NEW c \in Consumers, Claim(c)
      PROVE  CountsInv'
  <2>1. /\ c \notin F /\ F' = F \cup {c} /\ S' = S
        /\ size' = size - 1 /\ head' = head /\ tail' = tail
    BY <1>5 DEF Claim, Tested, GoTo, InFlightStores, InFlightFetches, BaseInv, TypeOK,
       Threads
  <2>2. IsFiniteSet(F') /\ Cardinality(F') = Cardinality(F) + 1
    BY <1>0, <2>1, FS_AddElement
  <2>3. Occupied' = Occupied
    BY <1>0, <2>1, <2>2 DEF Occupied
  <2> QED
    BY <1>0, <2>1, <2>2, <2>3 DEF CountsInv, RingMatchesCount
<1>6. ASSUME NEW c \in Consumers, Fetch(c) \/ ClearSlot(c)
      PROVE  CountsInv'
  <2>1. S' = S /\ F' = F /\ size' = size /\ head' = head /\ tail' = tail
    BY <1>6 DEF Fetch, ClearSlot, GoTo, InFlightStores, InFlightFetches, BaseInv, TypeOK,
       Threads, queue
  <2> QED
    BY <2>1, CountsFrame
<1>7. ASSUME NEW c \in Consumers, AdvanceTail(c)
      PROVE  CountsInv'
  <2>1. /\ c \in F /\ F' = F \ {c} /\ S' = S
        /\ size' = size /\ head' = head /\ tail' = (tail + 1) % Capacity
    BY <1>7 DEF AdvanceTail, GoTo, InFlightStores, InFlightFetches, BaseInv, TypeOK, Threads
  <2>2. IsFiniteSet(F') /\ Cardinality(F') = Cardinality(F) - 1
    BY <1>0, <2>1, FS_RemoveElement
  <2>3. Occupied' = Occupied - 1 /\ Occupied \in Int
    BY <1>0, <2>1, <2>2 DEF Occupied
  <2>4. (head' - tail') % Capacity = (head - tail - 1) % Capacity
    BY <1>0, <2>1, IndexMoves
  <2>5. (head - tail - 1) % Capacity = (Occupied - 1) % Capacity
    BY <1>0, <2>3, Congruent DEF CountsInv, RingMatchesCount
  <2> QED
    BY <1>0, <2>1, <2>2, <2>3, <2>4, <2>5 DEF CountsInv, RingMatchesCount
<1>8. ASSUME NEW t \in Threads, NEW W, NEW label \in {"call", "done"},
             pc[t] = "signal", SignalAndGoTo(t, W, label), UNCHANGED queue
      PROVE  CountsInv'
  <2>1. /\ \A p \in Producers :
             pc'[p] \in {"store", "advance"} <=> pc[p] \in {"store", "advance"}
        /\ \A c \in Consumers :
             pc'[c] \in {"fetch", "clear", "advance"} <=> pc[c] \in {"fetch", "clear", "advance"}
    BY <1>8 DEF SignalAndGoTo, GoTo, BaseInv, TypeOK, Threads
  <2> QED
    BY <1>8, <2>1, FlightFrame, CountsFrame DEF queue
<1>9. ASSUME NEW p \in Producers, SignalPopper(p)
      PROVE  CountsInv'
  BY <1>9, <1>8 DEF SignalPopper, Threads
<1>10. ASSUME NEW c \in Consumers, SignalPusher(c)
       PROVE  CountsInv'
  BY <1>10, <1>8 DEF SignalPusher, Threads
<1>11. CASE UNCHANGED vars
  BY <1>11, CountsFrame DEF vars, queue, InFlightStores, InFlightFetches
<1> QED
  BY <1>1, <1>2, <1>3, <1>4, <1>5, <1>6, <1>7, <1>9, <1>10, <1>11 DEF Next, Enqueue, Dequeue

(* However the calls overlap, the element counter and the two indices      *)
(* agree once the calls in flight are accounted for, although each is      *)
(* under a lock of its own (producer-consumer.c:66-75, :91-101).           *)
THEOREM CountMatches == Spec => []RingMatchesCount
<1>1. Init => BaseInv /\ CountsInv
  BY BaseInit, CountsInit
<1>2. BaseInv /\ CountsInv /\ [Next]_vars => BaseInv' /\ CountsInv'
  BY BaseStep, CountsStep
<1>3. CountsInv => RingMatchesCount
  BY DEF CountsInv
<1> QED
  BY <1>1, <1>2, <1>3, PTL DEF Spec

(***************************************************************************)
(* Where an element is                                                     *)
(***************************************************************************)

(* How many elements p has stored.                                         *)
Issued(p) == IF pc[p] \in {"advance", "signal"} THEN sent[p] + 1 ELSE sent[p]

(* No element is in two slots.                                             *)
OneSlot == \A i, j \in Index : buffer[i] \in Elements /\ buffer[i] = buffer[j] => i = j

(* An element in a slot has been taken only by the consumer that is about  *)
(* to clear that slot, and it took it last.                                *)
SlotOrOut ==
  \A i \in Index, c \in Consumers : \A k \in DOMAIN Delivered(c) :
    buffer[i] \in Elements /\ buffer[i] = Delivered(c)[k]
      => pc[c] = "clear" /\ i = tail /\ k = Len(Delivered(c))

(* What p has still to store is nowhere.                                   *)
Fresh ==
  \A p \in Producers, n \in 1..Supply : n > Issued(p) =>
    /\ \A i \in Index : buffer[i] # <<p, n>>
    /\ \A c \in Consumers : \A k \in DOMAIN Delivered(c) : Delivered(c)[k] # <<p, n>>

PlacesInv == OneSlot /\ SlotOrOut /\ NoElementTwice /\ Fresh

LEMMA PlacesInit == ASSUME Init PROVE PlacesInv
<1>1. \A c \in Consumers : Delivered(c) = <<>>
  BY DEF Init, Delivered, Threads
<1>2. \A i \in Index : buffer[i] = Garbage
  BY DEF Init
<1>3. \A p \in Producers, n \in 1..Supply : <<p, n>> \in Elements
  BY DEF Elements
<1>4. \A c \in Consumers : DOMAIN Delivered(c) = {}
  BY <1>1
<1>5. Garbage \notin Elements
  BY ValueAssumption
<1>6. OneSlot /\ SlotOrOut
  BY <1>2, <1>5 DEF OneSlot, SlotOrOut
<1>7. NoElementTwice
  BY <1>4 DEF NoElementTwice
<1>8. Fresh
  BY <1>2, <1>3, <1>4, <1>5 DEF Fresh
<1> QED
  BY <1>6, <1>7, <1>8 DEF PlacesInv

LEMMA DeliveredType ==
  ASSUME BaseInv, NEW c \in Consumers
  PROVE  Delivered(c) \in Seq(Elements \cup {NULL, Garbage})
BY DEF Delivered, BaseInv, TypeOK

(* A step that moves no element.                                           *)
LEMMA PlacesFrame ==
  ASSUME PlacesInv, buffer' = buffer,
         \A c \in Consumers : /\ Delivered(c)' = Delivered(c)
                              /\ pc[c] = "clear" => pc'[c] = "clear" /\ tail' = tail,
         \A p \in Producers : Issued(p)' = Issued(p)
  PROVE  PlacesInv'
<1>1. OneSlot'
  BY DEF PlacesInv, OneSlot
<1>2. SlotOrOut'
  BY DEF PlacesInv, SlotOrOut
<1>3. NoElementTwice'
  BY DEF PlacesInv, NoElementTwice
<1>4. Fresh'
  BY DEF PlacesInv, Fresh
<1> QED
  BY <1>1, <1>2, <1>3, <1>4 DEF PlacesInv

(* The labels a frame looks at.                                            *)
LEMMA LabelFrame ==
  ASSUME BaseInv, buffer' = buffer, tail' = tail, sent' = sent, data' = data, got' = got,
         \A t \in Threads : \A l \in {"clear", "advance", "signal"} : pc'[t] = l <=> pc[t] = l,
         PlacesInv
  PROVE  PlacesInv'
<1>1. \A c \in Consumers : /\ Delivered(c)' = Delivered(c)
                           /\ pc[c] = "clear" => pc'[c] = "clear" /\ tail' = tail
  BY DEF Delivered, Threads
<1>2. \A p \in Producers : Issued(p)' = Issued(p)
  BY DEF Issued, Threads
<1> QED
  BY <1>1, <1>2, PlacesFrame

LEMMA PlacesStep ==
  ASSUME BaseInv, PlacesInv, [Next]_vars
  PROVE  PlacesInv'
<1> USE ThreadAssumption
<1>1. ASSUME NEW t \in Threads, LockSize(t) \/ Test(t) \/ SpuriousWakeup(t)
      PROVE  PlacesInv'
  <2>1. \A u \in Threads : \A l \in {"clear", "advance", "signal"} :
          pc'[u] = l <=> pc[u] = l
    BY <1>1 DEF LockSize, Test, LoadHead, LoadTail, CallWait, Tested, Sleep,
       SpuriousWakeup, GoTo,
                BaseInv, TypeOK
  <2>2. UNCHANGED <<buffer, tail, sent, data, got>>
    BY <1>1 DEF LockSize, Test, LoadHead, LoadTail, CallWait, Sleep, SpuriousWakeup,
       queue, ends
  <2> QED
    BY <2>1, <2>2, LabelFrame
<1>2. ASSUME NEW t \in Threads, NEW label \in {"store", "fetch"}, Tested(t), GoTo(t, label),
             UNCHANGED <<buffer, tail, ends>>
      PROVE  PlacesInv'
  <2>1. \A u \in Threads : \A l \in {"clear", "advance", "signal"} :
          pc'[u] = l <=> pc[u] = l
    BY <1>2 DEF Tested, GoTo, BaseInv, TypeOK
  <2> QED
    BY <1>2, <2>1, LabelFrame DEF ends
<1>3. ASSUME NEW p \in Producers, Reserve(p)
      PROVE  PlacesInv'
  BY <1>2, <1>3 DEF Reserve, Threads
<1>4. ASSUME NEW p \in Producers, Store(p)
      PROVE  PlacesInv'
  <2> DEFINE e == <<p, sent[p] + 1>>
  <2>1. /\ pc[p] = "store" /\ pc' = [pc EXCEPT ![p] = "advance"]
        /\ buffer' = [buffer EXCEPT ![head] = e]
        /\ UNCHANGED <<tail, sent, data, got>>
    BY <1>4 DEF Store, GoTo, ends
  <2>2. /\ pc'[p] = "advance"
        /\ \A t \in Threads : t # p => pc'[t] = pc[t]
        /\ sent[p] + 1 \in 1..Supply /\ Issued(p) = sent[p] /\ Issued(p)' = sent[p] + 1
        /\ head \in Index
    BY <2>1 DEF BaseInv, TypeOK, CallInv, Issued, Threads
  <2>3. \A i \in Index : buffer'[i] = IF i = head THEN e ELSE buffer[i]
    BY <2>1 DEF BaseInv, TypeOK
  <2>4. \A c \in Consumers : Delivered(c)' = Delivered(c) /\ pc'[c] = pc[c]
    BY <2>1, <2>2 DEF Delivered, Threads
  <2>5. /\ \A i \in Index : buffer[i] # e
        /\ \A c \in Consumers : \A k \in DOMAIN Delivered(c) : Delivered(c)[k] # e
    <3>1. sent[p] \in Nat
      BY DEF BaseInv, TypeOK
    <3> QED
      BY <2>2, <3>1 DEF PlacesInv, Fresh
  <2>6. \A q \in Producers : q # p => Issued(q)' = Issued(q)
    BY <2>1, <2>2 DEF Issued, Threads
  <2> HIDE DEF e
  <2>7. OneSlot'
    BY <2>3, <2>5 DEF PlacesInv, OneSlot
  <2>8. SlotOrOut'
    BY <2>1, <2>3, <2>4, <2>5 DEF PlacesInv, SlotOrOut
  <2>9. NoElementTwice'
    BY <2>4 DEF PlacesInv, NoElementTwice
  <2>10. Fresh'
    <3> SUFFICES ASSUME NEW q \in Producers, NEW n \in 1..Supply, n > Issued(q)'
                 PROVE  /\ \A i \in Index : buffer'[i] # <<q, n>>
                        /\ \A c \in Consumers : \A k \in DOMAIN Delivered(c) :
                             Delivered(c)[k] # <<q, n>>
      BY <2>4 DEF Fresh
    <3>1. n > Issued(q) /\ <<q, n>> # e
      BY <2>2, <2>6 DEF e, BaseInv, TypeOK
    <3> QED
      BY <2>3, <3>1 DEF PlacesInv, Fresh
  <2> QED
    BY <2>7, <2>8, <2>9, <2>10 DEF PlacesInv
<1>5. ASSUME NEW p \in Producers, AdvanceHead(p)
      PROVE  PlacesInv'
  <2>1. /\ pc[p] = "advance" /\ pc'[p] = "signal"
        /\ \A t \in Threads : t # p => pc'[t] = pc[t]
        /\ UNCHANGED <<tail, buffer, sent, data, got>>
    BY <1>5 DEF AdvanceHead, GoTo, ends, BaseInv, TypeOK, Threads
  <2>2. \A c \in Consumers : Delivered(c)' = Delivered(c) /\ pc'[c] = pc[c]
    BY <2>1 DEF Delivered, Threads
  <2>3. \A q \in Producers : Issued(q)' = Issued(q)
    BY <2>1 DEF Issued, Threads
  <2> QED
    BY <2>1, <2>2, <2>3, PlacesFrame
<1>6. ASSUME NEW t \in Threads, NEW W, W \in {Producers, Consumers}, NEW label \in {"call", "done"},
             pc[t] = "signal", SignalAndGoTo(t, W, label)
      PROVE  /\ pc'[t] = label
             /\ \A u \in Threads :
                  u # t => pc'[u] = pc[u] \/ (pc[u] = "wait" /\ pc'[u] = "call")
  BY <1>6 DEF SignalAndGoTo, GoTo, BaseInv, TypeOK, Threads
<1>7. ASSUME NEW p \in Producers, SignalPopper(p)
      PROVE  PlacesInv'
  <2> DEFINE next == IF sent[p] + 1 < Supply THEN "call" ELSE "done"
  <2>1. next \in {"call", "done"} /\ p \in Threads
    BY DEF Threads
  <2>2. /\ pc[p] = "signal" /\ SignalAndGoTo(p, Consumers, next)
        /\ sent' = [sent EXCEPT ![p] = sent[p] + 1]
        /\ UNCHANGED <<tail, buffer, data, got>>
    BY <1>7 DEF SignalPopper, queue
  <2> HIDE DEF next
  <2>3. /\ pc'[p] = next
        /\ \A u \in Threads : u # p => pc'[u] = pc[u] \/ (pc[u] = "wait" /\ pc'[u] = "call")
    BY <1>6, <2>1, <2>2
  <2>4. \A c \in Consumers :
          Delivered(c)' = Delivered(c) /\ (pc[c] = "clear" => pc'[c] = "clear")
    BY <2>2, <2>3 DEF Delivered, Threads
  <2>5. \A q \in Producers : Issued(q)' = Issued(q)
    BY <2>1, <2>2, <2>3 DEF Issued, Threads, BaseInv, TypeOK
  <2> QED
    BY <2>2, <2>4, <2>5, PlacesFrame
<1>8. ASSUME NEW c \in Consumers, Claim(c)
      PROVE  PlacesInv'
  BY <1>2, <1>8 DEF Claim, Threads
<1>9. ASSUME NEW c \in Consumers, Fetch(c)
      PROVE  PlacesInv'
  <2>1. /\ pc[c] = "fetch" /\ pc'[c] = "clear"
        /\ \A t \in Threads : t # c => pc'[t] = pc[t]
        /\ data'[c] = buffer[tail]
        /\ \A d \in Consumers : d # c => data'[d] = data[d]
        /\ tailLock = NoThread /\ tail \in Index
        /\ UNCHANGED <<tail, buffer, sent, got>>
    BY <1>9 DEF Fetch, GoTo, queue, BaseInv, TypeOK, Threads
  <2>2. \A d \in Consumers : pc[d] # "clear"
    BY <2>1 DEF BaseInv, LockInv
  <2>3. \A d \in Consumers : d # c => Delivered(d)' = Delivered(d)
    BY <2>1 DEF Delivered, Threads
  <2>4. Delivered(c)' = Append(Delivered(c), buffer[tail]) /\ Delivered(c) = got[c]
    BY <2>1 DEF Delivered
  <2>5. /\ DOMAIN Delivered(c)' = 1..(Len(Delivered(c)) + 1)
        /\ Len(Delivered(c)') = Len(Delivered(c)) + 1
        /\ DOMAIN Delivered(c) = 1..Len(Delivered(c)) /\ Len(Delivered(c)) \in Nat
        /\ Delivered(c)'[Len(Delivered(c)) + 1] = buffer[tail]
        /\ \A k \in DOMAIN Delivered(c) : Delivered(c)'[k] = Delivered(c)[k]
    <3> DEFINE V == Elements \cup {NULL, Garbage}
    <3>1. Delivered(c) \in Seq(V) /\ buffer[tail] \in V
      BY <2>1, DeliveredType DEF BaseInv, TypeOK
    <3> QED
      BY <2>4, <3>1
  <2>6. \A i \in Index, d \in Consumers : \A k \in DOMAIN Delivered(d) :
          buffer[i] \in Elements => buffer[i] # Delivered(d)[k]
    BY <2>2 DEF PlacesInv, SlotOrOut
  <2>7. \A k \in DOMAIN Delivered(c)' :
          k \in DOMAIN Delivered(c) \/ k = Len(Delivered(c)) + 1
    BY <2>5
  <2>8. OneSlot'
    BY <2>1 DEF PlacesInv, OneSlot
  <2>9. SlotOrOut'
    <3> SUFFICES ASSUME NEW i \in Index, NEW d \in Consumers, NEW k \in DOMAIN Delivered(d)',
                        buffer[i] \in Elements, buffer[i] = Delivered(d)'[k]
                 PROVE  pc'[d] = "clear" /\ i = tail /\ k = Len(Delivered(d)')
      BY <2>1 DEF SlotOrOut
    <3>1. d = c
      BY <2>3, <2>6
    <3>2. k = Len(Delivered(c)) + 1
      BY <2>5, <2>6, <2>7, <3>1
    <3> QED
      BY <2>1, <2>5, <3>1, <3>2 DEF PlacesInv, OneSlot
  <2>10. NoElementTwice'
    <3> SUFFICES ASSUME NEW a \in Consumers, NEW d \in Consumers,
                        NEW i \in DOMAIN Delivered(a)', NEW j \in DOMAIN Delivered(d)',
                        Delivered(a)'[i] \in Elements, Delivered(a)'[i] = Delivered(d)'[j]
                 PROVE  a = d /\ i = j
      BY DEF NoElementTwice
    <3> DEFINE IsNew(x, k) == x = c /\ k = Len(Delivered(c)) + 1
    <3>1. /\ IsNew(a, i) \/ (i \in DOMAIN Delivered(a) /\ Delivered(a)'[i] = Delivered(a)[i])
          /\ IsNew(d, j) \/ (j \in DOMAIN Delivered(d) /\ Delivered(d)'[j] = Delivered(d)[j])
      BY <2>3, <2>5, <2>7
    <3>2. CASE IsNew(a, i) /\ IsNew(d, j)
      BY <3>2
    <3>3. CASE IsNew(a, i) /\ ~IsNew(d, j)
      BY <2>1, <2>5, <2>6, <3>1, <3>3
    <3>4. CASE ~IsNew(a, i) /\ IsNew(d, j)
      BY <2>1, <2>5, <2>6, <3>1, <3>4
    <3>5. CASE ~IsNew(a, i) /\ ~IsNew(d, j)
      BY <3>1, <3>5 DEF PlacesInv, NoElementTwice
    <3> QED
      BY <3>2, <3>3, <3>4, <3>5
  <2>11. Fresh'
    <3> SUFFICES ASSUME NEW p \in Producers, NEW n \in 1..Supply, n > Issued(p)'
                 PROVE  /\ \A i \in Index : buffer[i] # <<p, n>>
                        /\ \A d \in Consumers : \A k \in DOMAIN Delivered(d)' :
                             Delivered(d)'[k] # <<p, n>>
      BY <2>1 DEF Fresh
    <3>1. Issued(p)' = Issued(p)
      BY <2>1 DEF Issued, Threads
    <3>2. /\ \A i \in Index : buffer[i] # <<p, n>>
          /\ \A d \in Consumers : \A k \in DOMAIN Delivered(d) : Delivered(d)[k] # <<p, n>>
      BY <3>1 DEF PlacesInv, Fresh
    <3>3. ASSUME NEW d \in Consumers, NEW k \in DOMAIN Delivered(d)'
          PROVE  Delivered(d)'[k] # <<p, n>>
      BY <2>1, <2>3, <2>5, <2>7, <3>2
    <3> QED
      BY <3>2, <3>3
  <2> QED
    BY <2>8, <2>9, <2>10, <2>11 DEF PlacesInv
<1>10. ASSUME NEW c \in Consumers, ClearSlot(c)
       PROVE  PlacesInv'
  <2>1. /\ pc[c] = "clear" /\ pc'[c] = "advance"
        /\ \A t \in Threads : t # c => pc'[t] = pc[t]
        /\ tailLock = c /\ tail \in Index
        /\ \A i \in Index : buffer'[i] = IF i = tail THEN NULL ELSE buffer[i]
        /\ UNCHANGED <<tail, sent, data, got>>
    BY <1>10 DEF ClearSlot, GoTo, ends, BaseInv, TypeOK, LockInv, Threads
  <2>2. \A d \in Consumers : pc[d] = "clear" => d = c
    BY <2>1 DEF BaseInv, LockInv
  <2>3. \A d \in Consumers : Delivered(d)' = Delivered(d)
    BY <2>1 DEF Delivered, Threads
  <2>4. \A p \in Producers : Issued(p)' = Issued(p)
    BY <2>1 DEF Issued, Threads
  <2>5. OneSlot'
    BY <2>1, ValueAssumption DEF PlacesInv, OneSlot
  <2>6. SlotOrOut'
    <3>1. \A i \in Index, d \in Consumers : \A k \in DOMAIN Delivered(d) :
            buffer'[i] \in Elements => buffer'[i] # Delivered(d)[k]
      BY <2>1, ValueAssumption DEF PlacesInv, SlotOrOut
    <3> QED
      BY <2>3, <3>1 DEF SlotOrOut
  <2>7. NoElementTwice'
    BY <2>3 DEF PlacesInv, NoElementTwice
  <2>8. Fresh'
    <3>1. \A p \in Producers, n \in 1..Supply : <<p, n>> # NULL
      BY ValueAssumption DEF Elements
    <3> QED
      BY <2>1, <2>3, <2>4, <3>1 DEF PlacesInv, Fresh
  <2> QED
    BY <2>5, <2>6, <2>7, <2>8 DEF PlacesInv
<1>11. ASSUME NEW c \in Consumers, AdvanceTail(c)
       PROVE  PlacesInv'
  <2>1. /\ pc[c] = "advance" /\ pc'[c] = "signal"
        /\ \A t \in Threads : t # c => pc'[t] = pc[t]
        /\ tailLock = c
        /\ UNCHANGED <<buffer, sent, data, got>>
    BY <1>11 DEF AdvanceTail, GoTo, ends, BaseInv, TypeOK, LockInv, Threads
  <2>2. \A d \in Consumers : pc[d] # "clear"
    BY <2>1 DEF BaseInv, LockInv
  <2>3. \A d \in Consumers : Delivered(d)' = Delivered(d)
    BY <2>1 DEF Delivered, Threads
  <2>4. \A p \in Producers : Issued(p)' = Issued(p)
    BY <2>1 DEF Issued, Threads
  <2> QED
    BY <2>1, <2>2, <2>3, <2>4, PlacesFrame
<1>12. ASSUME NEW c \in Consumers, SignalPusher(c)
       PROVE  PlacesInv'
  <2> DEFINE next == IF Len(got[c]) + 1 < Demand THEN "call" ELSE "done"
  <2>1. next \in {"call", "done"} /\ c \in Threads
    BY DEF Threads
  <2>2. /\ pc[c] = "signal" /\ SignalAndGoTo(c, Producers, next)
        /\ got' = [got EXCEPT ![c] = Append(got[c], data[c])]
        /\ UNCHANGED <<tail, buffer, data, sent>>
    BY <1>12 DEF SignalPusher, queue
  <2> HIDE DEF next
  <2>3. /\ pc'[c] = next
        /\ \A u \in Threads : u # c => pc'[u] = pc[u] \/ (pc[u] = "wait" /\ pc'[u] = "call")
    BY <1>6, <2>1, <2>2
  <2>4. \A d \in Consumers :
          Delivered(d)' = Delivered(d) /\ (pc[d] = "clear" => pc'[d] = "clear")
    <3>1. /\ got'[c] = Append(got[c], data[c])
          /\ \A d \in Consumers : d # c => got'[d] = got[d]
      BY <2>2 DEF BaseInv, TypeOK
    <3> QED
      BY <2>1, <2>2, <2>3, <3>1 DEF Delivered, Threads
  <2>5. \A q \in Producers : Issued(q)' = Issued(q)
    BY <2>2, <2>3 DEF Issued, Threads
  <2> QED
    BY <2>2, <2>4, <2>5, PlacesFrame
<1>13. CASE UNCHANGED vars
  BY <1>13, LabelFrame DEF vars, queue, ends
<1> QED
  BY <1>1, <1>3, <1>4, <1>5, <1>7, <1>8, <1>9, <1>10, <1>11, <1>12, <1>13 DEF Next,
     Enqueue, Dequeue

(* However many threads race in pcq_enqueue and pcq_dequeue, no element    *)
(* comes out twice: a slot is cleared before the tail lock is released     *)
(* (producer-consumer.c:93-101), and an element is stored once.            *)
THEOREM NeverTwice == Spec => []NoElementTwice
<1>1. Init => BaseInv /\ PlacesInv
  BY BaseInit, PlacesInit
<1>2. BaseInv /\ PlacesInv /\ [Next]_vars => BaseInv' /\ PlacesInv'
  BY BaseStep, PlacesStep
<1>3. PlacesInv => NoElementTwice
  BY DEF PlacesInv
<1> QED
  BY <1>1, <1>2, <1>3, PTL DEF Spec
=============================================================================
