----------------------------- MODULE SpscProofs -----------------------------
(***************************************************************************)
(* One producer, one consumer and at least two slots: the ring never       *)
(* hands out an empty slot and never overwrites an element (RingInv), and  *)
(* it implements the queue of BoundedQueue (ViewInv).  This is the mbroker *)
(* started with max_sessions >= 2 as long as a single worker thread takes  *)
(* requests from the queue.                                                *)
(***************************************************************************)
EXTENDS ProducerConsumerProofs

-----------------------------------------------------------------------------
(* Arithmetic of the ring, with t for the tail.                            *)

LEMMA OffsetOfSlot ==
  \A t \in Index, n \in 0..(Capacity - 1) :
    Slot(t, n) \in Index /\ Offset(t, Slot(t, n)) = n
  BY CapacityAssumption DEF Slot, Offset, Index

LEMMA SlotOfOffset ==
  \A t, i \in Index : Offset(t, i) \in 0..(Capacity - 1) /\ Slot(t, Offset(t, i)) = i
  BY CapacityAssumption DEF Slot, Offset, Index

LEMMA OffsetOfTail ==
  \A t \in Index : Slot(t, 0) = t /\ Offset(t, t) = 0 /\ \A i \in Index : i # t => Offset(t, i) > 0
  BY CapacityAssumption DEF Slot, Offset, Index

(* The head advances: one more slot is used.                               *)
LEMMA SlotNext ==
  \A t \in Index, n \in 0..(Capacity - 1) : Slot(t, n + 1) = (Slot(t, n) + 1) % Capacity
<1> TAKE t \in Index, n \in 0..(Capacity - 1)
<1>1. Slot(t, n) \in Index
  BY OffsetOfSlot
<1>2. Slot(t, n + 1) = IF Slot(t, n) + 1 = Capacity THEN 0 ELSE Slot(t, n) + 1
  BY CapacityAssumption DEF Slot, Index
<1>3. QED
  BY <1>1, <1>2, NextIndex

(* The tail advances: every slot is one place nearer, and the old tail is  *)
(* the farthest.                                                           *)
LEMMA TailNext ==
  \A t \in Index :
    /\ (t + 1) % Capacity \in Index
    /\ \A n \in 1..Capacity : Slot((t + 1) % Capacity, n - 1) = Slot(t, n)
    /\ \A i \in Index :
         Offset((t + 1) % Capacity, i) = IF i = t THEN Capacity - 1 ELSE Offset(t, i) - 1
<1> TAKE t \in Index
<1>1. (t + 1) % Capacity = IF t + 1 = Capacity THEN 0 ELSE t + 1
  BY NextIndex
<1>2. QED
  BY <1>1, CapacityAssumption DEF Slot, Offset, Index

-----------------------------------------------------------------------------
RingInv(p, c) == CountInv(p, c) /\ SeenInv(p, c) /\ SlotInv(p, c)

LEMMA RingInit ==
  ASSUME NEW p, NEW c, Producers = {p}, Consumers = {c}, Init
  PROVE  RingInv(p, c)
<1>1. Used(p, c) = 0 /\ tail = 0 /\ head = 0 /\ 0 \in Index
  BY ThreadAssumption, CapacityAssumption DEF Init, Used, Flag, Storing, Fetching,
     Threads, Index
<1>2. CountInv(p, c) /\ SeenInv(p, c)
  BY <1>1, OffsetOfTail, CapacityAssumption, ThreadAssumption
  DEF Init, CountInv, SeenInv, Storing, Fetching, Threads
<1>3. SlotInv(p, c)
  BY <1>1, SlotOfOffset, ValueAssumption, ThreadAssumption DEF Init, SlotInv, Threads
<1>4. QED
  BY <1>2, <1>3 DEF RingInv

(* A step that leaves the ring alone and no thread's part in it.           *)
LEMMA RingFrame ==
  ASSUME NEW p, NEW c, RingInv(p, c),
         UNCHANGED <<queue, data, sent>>,
         Storing(p)' <=> Storing(p), Fetching(c)' <=> Fetching(c),
         pc'[p] = "advance" <=> pc[p] = "advance",
         pc'[c] = "advance" <=> pc[c] = "advance",
         pc'[c] \in {"clear", "advance", "signal"} => pc[c] \in {"clear", "advance", "signal"}
  PROVE  CountInv(p, c)' /\ SlotInv(p, c)'
<1>1. Used(p, c)' = Used(p, c)
  BY DEF Used, Flag, queue
<1>2. CountInv(p, c)'
  BY <1>1 DEF RingInv, CountInv, queue
<1>3. SlotInv(p, c)'
  BY <1>1 DEF RingInv, SlotInv, queue
<1>4. QED
  BY <1>2, <1>3

LEMMA RingStep ==
  ASSUME NEW p, NEW c, Producers = {p}, Consumers = {c}, Capacity >= 2,
         BaseInv, RingInv(p, c), [Next]_vars
  PROVE  RingInv(p, c)'
<1> p \in Producers /\ c \in Consumers /\ p # c /\ Threads = {p, c} /\ p \in Threads /\ c \in Threads
  BY ThreadAssumption DEF Threads
<1> size \in 0..Capacity /\ head \in Index /\ tail \in Index /\ Capacity \in Nat /\ Index = 0..(Capacity - 1)
  BY CapacityAssumption DEF BaseInv, TypeOK, Index
<1>0. Used(p, c) = size - Flag(Storing(p)) + Flag(Fetching(c)) /\ Used(p, c) \in 0..Capacity
  BY DEF RingInv, CountInv, Used
<1>1. ASSUME NEW t \in Threads, LockSize(t) \/ Test(t) \/ SpuriousWakeup(t)
      PROVE RingInv(p, c)'
  <2>1. SeenInv(p, c)'
    BY <1>1 DEF BaseInv, TypeOK, CallInv, RingInv, SeenInv, Fetching, Storing, LockSize,
       Test, LoadHead,
                LoadTail, CallWait, Tested, Sleep, SpuriousWakeup, GoTo, ForgetLoads, queue, seen, ends, locks
  <2>2. QED
    BY <1>1, <2>1, RingFrame
    DEF BaseInv, TypeOK, RingInv, Storing, Fetching, LockSize, Test, LoadHead,
        LoadTail, CallWait, Tested, Sleep, SpuriousWakeup, GoTo, ForgetLoads, queue, ends, locks
<1>7. ASSUME Reserve(p) PROVE RingInv(p, c)'
  <2>1. /\ pc[p] = "test" /\ pc'[p] = "store" /\ pc'[c] = pc[c]
        /\ size # Capacity /\ size' = size + 1
        /\ headSeen[p] # Unread /\ tailSeen[p] # Unread
        /\ headSeen[p] = tailSeen[p] => size = 0
        /\ UNCHANGED <<head, tail, buffer, sent, data>>
    BY <1>7 DEF Reserve, EnqueueWaits, Tested, GoTo, ends, BaseInv, TypeOK
  <2>2. Used(p, c)' = Used(p, c) /\ Used(p, c) = size + Flag(Fetching(c))
    BY <2>1, <1>0 DEF Used, Storing, Fetching, Flag
  <2>3. Used(p, c) < Capacity
    <3>1. CASE ~Fetching(c)
      BY <3>1, <2>1, <2>2 DEF Flag
    <3>2. CASE Fetching(c)
      <4>1. headSeen[p] = head /\ tailSeen[p] = tail /\ head = Slot(tail, Used(p, c))
        BY <3>2, <2>1 DEF RingInv, SeenInv, CountInv
      <4>2. Used(p, c) = size + 1
        BY <3>2, <2>2 DEF Flag
      <4>3. QED
        BY <4>1, <4>2, <2>1, Slot(tail, Capacity) = tail DEF Slot
    <3>3. QED
      BY <3>1, <3>2
  <2>4. CountInv(p, c)'
    BY <2>1, <2>2, <2>3 DEF RingInv, CountInv, Fetching
  <2>5. SeenInv(p, c)'
    BY <1>7, <2>1 DEF Reserve, ForgetLoads, RingInv, SeenInv, Fetching, BaseInv, TypeOK,
       CallInv, LockInv
  <2>6. SlotInv(p, c)'
    BY <2>1, <2>2 DEF RingInv, SlotInv
  <2>7. QED
    BY <2>4, <2>5, <2>6 DEF RingInv
<1>8. ASSUME Store(p) PROVE RingInv(p, c)'
  <2>1. /\ pc[p] = "store" /\ pc'[p] = "advance" /\ pc'[c] = pc[c]
        /\ buffer' = [buffer EXCEPT ![head] = <<p, sent[p] + 1>>]
        /\ UNCHANGED <<size, head, tail, seen, sent, data>>
    BY <1>8 DEF Store, GoTo, ends, BaseInv, TypeOK
  <2>2. Used(p, c)' = Used(p, c) /\ Used(p, c) < Capacity
    BY <2>1 DEF Used, Storing, Fetching, RingInv, CountInv
  <2>3. CountInv(p, c)' /\ SeenInv(p, c)'
    BY <2>1, <2>2 DEF RingInv, CountInv, SeenInv, Storing, Fetching, seen
  <2>4. Offset(tail, head) = Used(p, c)
    BY <2>2, <1>0, OffsetOfSlot DEF RingInv, CountInv
  <2>5. SlotInv(p, c)'
    <3>1. pc[c] = "advance" => tail # head
      BY <2>4, OffsetOfTail DEF RingInv, CountInv, Fetching
    <3>2. /\ buffer'[head] = <<p, sent[p] + 1>>
          /\ \A i \in Index : i # head => buffer'[i] = buffer[i]
      BY <2>1 DEF BaseInv, TypeOK
    <3>3. ASSUME NEW i \in Index, Offset(tail, i) < Used(p, c), ~(pc[c] = "advance" /\ i = tail)
          PROVE  buffer'[i] \in Elements
      <4>1. i # head
        BY <1>0, <2>4, <3>3
      <4>2. buffer[i] \in Elements
        BY <3>3 DEF RingInv, SlotInv
      <4>3. QED
        BY <3>2, <4>1, <4>2
    <3>4. ASSUME NEW i \in Index, Offset(tail, i) >= Used(p, c), i # head
          PROVE  buffer'[i] \notin Elements
      <4>1. buffer[i] \notin Elements
        BY <2>1, <3>4 DEF RingInv, SlotInv
      <4>2. QED
        BY <3>2, <3>4, <4>1
    <3>5. pc[c] = "advance" => buffer'[tail] \notin Elements
      <4>1. pc[c] = "advance" => buffer[tail] \notin Elements
        BY DEF RingInv, SlotInv
      <4>2. tail \in Index
        BY DEF BaseInv, TypeOK
      <4>3. QED
        BY <3>1, <3>2, <4>1, <4>2
    <3>6. pc[c] \in {"clear", "advance", "signal"} => data[c] \in Elements
      BY DEF RingInv, SlotInv
    <3>7. QED
      BY <2>1, <2>2, <3>2, <3>3, <3>4, <3>5, <3>6 DEF SlotInv
  <2>6. QED
    BY <2>3, <2>5 DEF RingInv
<1>9. ASSUME AdvanceHead(p) PROVE RingInv(p, c)'
  <2>1. /\ pc[p] = "advance" /\ pc'[p] = "signal" /\ pc'[c] = pc[c]
        /\ head' = (head + 1) % Capacity
        /\ UNCHANGED <<size, tail, buffer, seen, sent, data>>
    BY <1>9 DEF AdvanceHead, GoTo, ends, BaseInv, TypeOK
  <2>2. Used(p, c) < Capacity /\ Used(p, c)' = Used(p, c) + 1
    BY <1>0, <2>1 DEF Used, Storing, Fetching, Flag, RingInv, CountInv
  <2>3. head' = Slot(tail', Used(p, c)')
    BY <1>0, <2>1, <2>2, SlotNext DEF RingInv, CountInv
  <2>4. CountInv(p, c)'
    BY <1>0, <2>1, <2>2, <2>3 DEF CountInv, Storing
  <2>5. SeenInv(p, c)'
    BY <2>1 DEF RingInv, SeenInv, BaseInv, CallInv, Fetching, Storing, seen
  <2>6. SlotInv(p, c)'
    <3>1. buffer[head] \in Elements
      <4>1. sent[p] + 1 \in 1..Supply
        <5>1. sent[p] \in 0..Supply /\ sent[p] < Supply
          BY <2>1 DEF BaseInv, TypeOK, CallInv
        <5>2. QED
          BY <5>1, ThreadAssumption
      <4>2. buffer[head] = <<p, sent[p] + 1>>
        BY <2>1 DEF RingInv, SlotInv
      <4>3. QED
        BY <4>1, <4>2 DEF Elements
    <3>2. ASSUME NEW i \in Index, Offset(tail, i) < Used(p, c) + 1, i # head
          PROVE  Offset(tail, i) < Used(p, c)
      <4>1. Offset(tail, i) \in Int /\ Slot(tail, Offset(tail, i)) = i
        BY SlotOfOffset
      <4>2. head = Slot(tail, Used(p, c))
        BY DEF RingInv, CountInv
      <4>3. Offset(tail, i) # Used(p, c)
        BY <3>2, <4>1, <4>2
      <4>4. QED
        BY <1>0, <3>2, <4>1, <4>3
    <3>3. Offset(tail, head) = Used(p, c)
      BY <2>2, <1>0, OffsetOfSlot DEF RingInv, CountInv
    <3>4. QED
      <4>1. \A i \in Index :
              Offset(tail, i) >= Used(p, c) + 1 => i # head /\ Offset(tail, i) >= Used(p, c)
        <5>1. \A i \in Index : Offset(tail, i) \in Int
          BY SlotOfOffset
        <5>2. QED
          BY <1>0, <3>3, <5>1
      <4>2. \A i \in Index : Offset(tail', i) = Offset(tail, i)
        BY <2>1
      <4>3. ASSUME NEW i \in Index, Offset(tail', i) < Used(p, c)', ~(pc'[c] = "advance" /\ i = tail')
            PROVE  buffer'[i] \in Elements
        BY <2>1, <2>2, <3>1, <3>2, <4>2, <4>3 DEF RingInv, SlotInv
      <4>4. ASSUME NEW i \in Index, Offset(tail', i) >= Used(p, c)'
            PROVE  buffer'[i] \notin Elements
        BY <2>1, <2>2, <4>1, <4>2, <4>4 DEF RingInv, SlotInv
      <4>5. QED
        BY <2>1, <4>3, <4>4 DEF RingInv, SlotInv
  <2>7. QED
    BY <2>4, <2>5, <2>6 DEF RingInv
<1>10. ASSUME SignalPopper(p) PROVE RingInv(p, c)'
  <2>1. /\ pc[p] = "signal" /\ pc'[p] \in {"call", "done"}
        /\ pc'[c] = pc[c] \/ (pc[c] = "wait" /\ pc'[c] = "call")
        /\ UNCHANGED <<queue, seen, data>>
    BY <1>10 DEF SignalPopper, SignalAndGoTo, GoTo, BaseInv, TypeOK
  <2>2. Used(p, c)' = Used(p, c)
    BY <2>1 DEF Used, Storing, Fetching, queue
  <2>3. QED
    BY <2>1, <2>2 DEF RingInv, CountInv, SeenInv, SlotInv, Storing, Fetching, queue, seen
<1>11. ASSUME Claim(c) PROVE RingInv(p, c)'
  <2>1. /\ pc[c] = "test" /\ pc'[c] = "fetch" /\ pc'[p] = pc[p]
        /\ size # 0 /\ size' = size - 1
        /\ headSeen[c] # Unread /\ tailSeen[c] # Unread
        /\ headSeen[c] = tailSeen[c] => size = Capacity
        /\ UNCHANGED <<head, tail, buffer, sent, data>>
    BY <1>11 DEF Claim, DequeueWaits, Tested, GoTo, ends, BaseInv, TypeOK
  <2>2. Used(p, c)' = Used(p, c) /\ Used(p, c) = size - Flag(Storing(p))
    BY <2>1, <1>0 DEF Used, Storing, Fetching, Flag
  <2>3. Used(p, c) > 0
    <3>1. CASE ~Storing(p)
      BY <3>1, <2>1, <2>2 DEF Flag
    <3>2. CASE Storing(p)
      <4>1. headSeen[c] = head /\ tailSeen[c] = tail /\ head = Slot(tail, Used(p, c))
        BY <3>2, <2>1 DEF RingInv, SeenInv, CountInv
      <4>2. Used(p, c) = size - 1
        BY <3>2, <2>2 DEF Flag
      <4>3. QED
        BY <4>1, <4>2, <2>1, OffsetOfTail
    <3>3. QED
      BY <3>1, <3>2
  <2>4. CountInv(p, c)'
    BY <2>1, <2>2, <2>3 DEF RingInv, CountInv, Storing
  <2>5. SeenInv(p, c)'
    BY <1>11, <2>1 DEF Claim, ForgetLoads, RingInv, SeenInv, Storing, BaseInv, TypeOK,
       CallInv, LockInv
  <2>6. SlotInv(p, c)'
    BY <2>1, <2>2 DEF RingInv, SlotInv
  <2>7. QED
    BY <2>4, <2>5, <2>6 DEF RingInv
<1>12. ASSUME Fetch(c) PROVE RingInv(p, c)'
  <2>1. /\ pc[c] = "fetch" /\ pc'[c] = "clear" /\ pc'[p] = pc[p]
        /\ data'[c] = buffer[tail]
        /\ UNCHANGED <<queue, seen, sent>>
    BY <1>12 DEF Fetch, GoTo, BaseInv, TypeOK
  <2>2. Used(p, c)' = Used(p, c)
    BY <2>1 DEF Used, Storing, Fetching, queue
  <2>3. buffer[tail] \in Elements
    BY <2>1, OffsetOfTail DEF RingInv, CountInv, SlotInv, Fetching
  <2>4. QED
    BY <2>1, <2>2, <2>3 DEF RingInv, CountInv, SeenInv, SlotInv, Storing, Fetching, queue,
       seen
<1>13. ASSUME ClearSlot(c) PROVE RingInv(p, c)'
  <2>1. /\ pc[c] = "clear" /\ pc'[c] = "advance" /\ pc'[p] = pc[p]
        /\ buffer' = [buffer EXCEPT ![tail] = NULL]
        /\ UNCHANGED <<size, head, tail, seen, sent, data>>
    BY <1>13 DEF ClearSlot, GoTo, ends, BaseInv, TypeOK
  <2>2. Used(p, c)' = Used(p, c)
    BY <2>1 DEF Used, Storing, Fetching
  <2>3. CountInv(p, c)' /\ SeenInv(p, c)'
    BY <2>1, <2>2 DEF RingInv, CountInv, SeenInv, Storing, Fetching, seen
  <2>4. SlotInv(p, c)'
    <3>1. pc[p] = "advance" => tail # head
      <4>1. SUFFICES ASSUME pc[p] = "advance" PROVE Offset(tail, head) > 0
        BY OffsetOfTail
      <4>2. Used(p, c) \in 1..(Capacity - 1) /\ head = Slot(tail, Used(p, c))
        <5>1. Used(p, c) < Capacity /\ Used(p, c) > 0 /\ head = Slot(tail, Used(p, c))
          BY <2>1, <4>1 DEF RingInv, CountInv, Fetching, Storing
        <5>2. QED
          BY <1>0, <5>1
      <4>3. Offset(tail, Slot(tail, Used(p, c))) = Used(p, c)
        <5>1. Used(p, c) \in 0..(Capacity - 1)
          BY <4>2
        <5>2. QED
          BY <5>1, OffsetOfSlot
      <4>4. QED
        BY <4>2, <4>3
    <3>2. /\ buffer'[tail] \notin Elements
          /\ \A i \in Index : i # tail => buffer'[i] = buffer[i]
      BY <2>1, ValueAssumption DEF BaseInv, TypeOK
    <3>3. QED
      BY <2>1, <2>2, <3>1, <3>2 DEF RingInv, SlotInv
  <2>5. QED
    BY <2>3, <2>4 DEF RingInv
<1>14. ASSUME AdvanceTail(c) PROVE RingInv(p, c)'
  <2>1. /\ pc[c] = "advance" /\ pc'[c] = "signal" /\ pc'[p] = pc[p]
        /\ tail' = (tail + 1) % Capacity
        /\ UNCHANGED <<size, head, buffer, seen, sent, data>>
    BY <1>14 DEF AdvanceTail, GoTo, ends, BaseInv, TypeOK
  <2>2. Used(p, c) > 0 /\ Used(p, c)' = Used(p, c) - 1
    BY <1>0, <2>1 DEF Used, Storing, Fetching, Flag, RingInv, CountInv
  <2>3. head' = Slot(tail', Used(p, c)')
    BY <1>0, <2>1, <2>2, TailNext DEF RingInv, CountInv
  <2>4. CountInv(p, c)'
    BY <1>0, <2>1, <2>2, <2>3 DEF RingInv, CountInv, Storing, Fetching
  <2>5. SeenInv(p, c)'
    BY <2>1 DEF RingInv, SeenInv, BaseInv, CallInv, Fetching, Storing, seen
  <2>6. SlotInv(p, c)'
    <3>1. \A i \in Index :
            Offset(tail', i) = IF i = tail THEN Capacity - 1 ELSE Offset(tail, i) - 1
      BY <2>1, TailNext
    <3>2. QED
      <4>1. \A i \in Index : i # tail => Offset(tail', i) = Offset(tail, i) - 1
        BY <3>1
      <4>2. \A i \in Index : Offset(tail, i) \in Nat /\ (i # tail => Offset(tail, i) > 0)
        BY SlotOfOffset, OffsetOfTail
      <4>3. Offset(tail', tail) = Capacity - 1
        BY <3>1
      <4>4. ASSUME NEW i \in Index, Offset(tail', i) < Used(p, c)' PROVE i # tail /\ Offset(tail, i) < Used(p, c)
        BY <1>0, <2>2, <4>1, <4>2, <4>3, <4>4
      <4>5. ASSUME NEW i \in Index, Offset(tail', i) >= Used(p, c)' PROVE i = tail \/ Offset(tail, i) >= Used(p, c)
        BY <1>0, <2>2, <4>1, <4>2, <4>5
      <4>6. QED
        BY <2>1, <4>4, <4>5 DEF RingInv, SlotInv
  <2>7. QED
    BY <2>4, <2>5, <2>6 DEF RingInv
<1>15. ASSUME SignalPusher(c) PROVE RingInv(p, c)'
  <2>1. /\ pc[c] = "signal" /\ pc'[c] \in {"call", "done"}
        /\ pc'[p] = pc[p] \/ (pc[p] = "wait" /\ pc'[p] = "call")
        /\ UNCHANGED <<queue, seen, sent, data>>
    BY <1>15 DEF SignalPusher, SignalAndGoTo, GoTo, BaseInv, TypeOK
  <2>2. QED
    BY <2>1, RingFrame DEF RingInv, SeenInv, Storing, Fetching, queue, seen
<1>16. CASE UNCHANGED vars
  BY <1>16, RingFrame DEF vars, RingInv, SeenInv, Storing, Fetching, queue, seen, ends
<1>17. QED
  BY <1>1, <1>7, <1>8, <1>9, <1>10, <1>11, <1>12, <1>13, <1>14, <1>15, <1>16
  DEF Next, Enqueue, Dequeue

LEMMA SpscInvariant ==
  ASSUME NEW p, NEW c, Producers = {p}, Consumers = {c}, Capacity >= 2
  PROVE  Spec => [](BaseInv /\ RingInv(p, c))
<1>1. Init => BaseInv /\ RingInv(p, c)
  BY BaseInit, RingInit
<1>2. BaseInv /\ RingInv(p, c) /\ [Next]_vars => BaseInv' /\ RingInv(p, c)'
  BY BaseStep, RingStep
<1>3. QED
  BY <1>1, <1>2, PTL DEF Spec

(* A lone consumer is never handed the content of an empty slot: with two  *)
(* slots, the test of pcq_dequeue (producer-consumer.c:88) is enough to    *)
(* wait for a producer that has counted its element and not stored it.     *)
THEOREM DequeueSafe ==
  ASSUME NEW p, NEW c, Producers = {p}, Consumers = {c}, Capacity >= 2
  PROVE  Spec => []DequeueYieldsElement
<1>1. RingInv(p, c) => DequeueYieldsElement
  BY DEF RingInv, SlotInv, DequeueYieldsElement
<1>2. QED
  BY <1>1, SpscInvariant, PTL

(* A lone producer never overwrites an element: the second condition of    *)
(* pcq_enqueue (producer-consumer.c:62) waits for the consumer that has    *)
(* uncounted an element and not removed it.                                *)
THEOREM EnqueueSafe ==
  ASSUME NEW p, NEW c, Producers = {p}, Consumers = {c}, Capacity >= 2
  PROVE  Spec => []StoreIntoFreeSlot
<1>1. BaseInv /\ RingInv(p, c) => StoreIntoFreeSlot
  <2>1. SUFFICES ASSUME BaseInv, RingInv(p, c), pc[p] = "store"
                 PROVE  buffer[head] \notin Elements
    BY DEF StoreIntoFreeSlot
  <2>2. /\ Used(p, c) \in 0..Capacity /\ Used(p, c) < Capacity
        /\ head = Slot(tail, Used(p, c))
    BY <2>1 DEF RingInv, CountInv, Storing
  <2>3. head \in Index /\ tail \in Index
    BY <2>1 DEF BaseInv, TypeOK
  <2>4. Offset(tail, head) = Used(p, c)
    <3>1. Used(p, c) \in 0..(Capacity - 1)
      BY <2>2, CapacityAssumption
    <3>2. QED
      BY <2>2, <2>3, <3>1, OffsetOfSlot
  <2>5. Used(p, c) >= Used(p, c)
    BY <2>2
  <2>6. QED
    BY <2>1, <2>3, <2>4, <2>5 DEF RingInv, SlotInv
<1>2. QED
  BY <1>1, SpscInvariant, PTL

(* The inductive invariant, as the run checks it.                          *)
THEOREM RingInvariant ==
  ASSUME NEW p, NEW c, Producers = {p}, Consumers = {c}, Capacity >= 2
  PROVE  Spec => []SpscInv
<1>1. RingInv(p, c) => SpscInv
  BY DEF RingInv, SpscInv
<1>2. QED
  BY <1>1, SpscInvariant, PTL

(***************************************************************************)
(* The ring implements the queue                                           *)
(***************************************************************************)

LEMMA SequenceOf ==
  ASSUME NEW V, NEW n \in Nat, NEW s \in [1..n -> V]
  PROVE  /\ s \in Seq(V) /\ Len(s) = n
         /\ \A e \in V : Append(s, e) = [i \in 1..(n + 1) |-> IF i = n + 1 THEN e ELSE s[i]]
         /\ n > 0 => s # <<>> /\ Head(s) = s[1]
<1>1. s \in Seq(V) /\ Len(s) = n
  OBVIOUS
<1>2. ASSUME NEW e \in V
      PROVE  Append(s, e) = [i \in 1..(n + 1) |-> IF i = n + 1 THEN e ELSE s[i]]
  <2> DEFINE t == [i \in 1..(n + 1) |-> IF i = n + 1 THEN e ELSE s[i]]
  <2>1. t \in Seq(V) /\ Len(t) = n + 1
    OBVIOUS
  <2>2. Append(s, e) \in Seq(V) /\ Len(Append(s, e)) = n + 1
    BY <1>1, AppendProperties
  <2>3. \A i \in 1..(n + 1) : Append(s, e)[i] = t[i]
    BY <1>1, AppendProperties
  <2> QED
    BY <2>1, <2>2, <2>3, SeqEqual
<1>3. ASSUME n > 0
      PROVE  s # <<>> /\ Head(s) = s[1]
  BY <1>1, <1>3
<1> QED
  BY <1>1, <1>2, <1>3

LEMMA TailOf ==
  ASSUME NEW V, NEW n \in Nat, n > 0, NEW s \in [1..n -> V]
  PROVE  Tail(s) = [i \in 1..(n - 1) |-> s[i + 1]]
<1> DEFINE t == [i \in 1..(n - 1) |-> s[i + 1]]
<1>1. s \in Seq(V) /\ Len(s) = n /\ s # <<>>
  OBVIOUS
<1>2. t \in Seq(V) /\ Len(t) = n - 1
  OBVIOUS
<1>3. /\ Tail(s) \in Seq(V)
      /\ Len(Tail(s)) = n - 1
      /\ \A i \in 1..(n - 1) : Tail(s)[i] = s[i + 1]
  BY <1>1, HeadTailProperties
<1> QED
  BY <1>2, <1>3, SeqEqual

(* Whether the slot at the tail has been read already.                     *)
Taken(c) == Flag(pc[c] \in {"clear", "advance"})

(* The used slots from the oldest element on.                              *)
View(p, c) == [i \in 1..(Used(p, c) - Taken(c)) |-> buffer[Slot(tail, Taken(c) + i - 1)]]

LEMMA ViewType ==
  ASSUME NEW p, NEW c, Producers = {p}, Consumers = {c}, BaseInv, RingInv(p, c)
  PROVE  /\ Used(p, c) \in 0..Capacity /\ Taken(c) \in {0, 1}
         /\ Used(p, c) - Taken(c) \in Nat
         /\ \A i \in 1..(Used(p, c) - Taken(c)) :
              /\ Taken(c) + i - 1 \in 0..(Capacity - 1)
              /\ Slot(tail, Taken(c) + i - 1) \in Index
         /\ View(p, c) \in [1..(Used(p, c) - Taken(c)) -> Elements \cup {NULL, Garbage}]
<1>1. Used(p, c) \in 0..Capacity /\ Taken(c) \in {0, 1}
  BY DEF RingInv, CountInv, Taken, Flag
<1>2. Taken(c) = 1 => Used(p, c) > 0
  BY DEF RingInv, CountInv, Taken, Flag, Fetching
<1>3. Used(p, c) - Taken(c) \in Nat
  BY <1>1, <1>2, CapacityAssumption
<1>4. \A i \in 1..(Used(p, c) - Taken(c)) :
        /\ Taken(c) + i - 1 \in 0..(Capacity - 1)
        /\ Slot(tail, Taken(c) + i - 1) \in Index
  <2> SUFFICES ASSUME NEW i \in 1..(Used(p, c) - Taken(c))
               PROVE  /\ Taken(c) + i - 1 \in 0..(Capacity - 1)
                      /\ Slot(tail, Taken(c) + i - 1) \in Index
    OBVIOUS
  <2>1. Taken(c) + i - 1 \in 0..(Capacity - 1)
    BY <1>1, CapacityAssumption
  <2> QED
    BY <2>1, OffsetOfSlot DEF BaseInv, TypeOK
<1>5. View(p, c) \in [1..(Used(p, c) - Taken(c)) -> Elements \cup {NULL, Garbage}]
  BY <1>4 DEF View, BaseInv, TypeOK
<1> QED
  BY <1>1, <1>3, <1>4, <1>5

(* What the counters of the two threads come to.                           *)
LEMMA ViewIsContents ==
  ASSUME NEW p, NEW c, Producers = {p}, Consumers = {c}, BaseInv, RingInv(p, c)
  PROVE  Contents = View(p, c)
<1>1. Occupied = Used(p, c)
  <2>1. Cardinality(InFlightStores) = Flag(Storing(p))
    <3>1. InFlightStores = IF Storing(p) THEN {p} ELSE {}
      BY DEF InFlightStores, Storing
    <3> QED
      BY <3>1, FS_Singleton, FS_EmptySet DEF Flag
  <2>2. Cardinality(InFlightFetches) = Flag(Fetching(c))
    <3>1. InFlightFetches = IF Fetching(c) THEN {c} ELSE {}
      BY DEF InFlightFetches, Fetching
    <3> QED
      BY <3>1, FS_Singleton, FS_EmptySet DEF Flag
  <2> QED
    BY <2>1, <2>2 DEF Occupied, Used
<1>2. Fetched = Taken(c)
  <2>1. {d \in Consumers : pc[d] \in {"clear", "advance"}}
          = IF pc[c] \in {"clear", "advance"} THEN {c} ELSE {}
    OBVIOUS
  <2> QED
    BY <2>1, FS_Singleton, FS_EmptySet DEF Fetched, Taken, Flag
<1>3. ASSUME NEW i \in 1..(Used(p, c) - Taken(c))
      PROVE  (tail + Taken(c) + i - 1) % Capacity = Slot(tail, Taken(c) + i - 1)
  <2> DEFINE n == Taken(c) + i - 1
  <2>1. /\ n \in 0..(Capacity - 1) /\ Slot(tail, n) \in Index
        /\ tail \in Index /\ tail \in Int /\ Capacity \in Nat \ {0}
    BY ViewType, CapacityAssumption DEF BaseInv, TypeOK, Index
  <2>2. tail + Taken(c) + i - 1 = tail + n
    BY <2>1, ViewType
  <2> HIDE DEF n
  <2>3. (tail + n) % Capacity = Slot(tail, n)
    <3>1. CASE tail + n < Capacity
      BY <2>1, <3>1 DEF Slot, Index
    <3>2. CASE ~(tail + n < Capacity)
      <4>1. (tail + n) - Capacity \in Index /\ Slot(tail, n) = (tail + n) - Capacity
        BY <2>1, <3>2 DEF Slot, Index
      <4>2. ((tail + n) - Capacity) % Capacity = (tail + n) - Capacity
        BY <4>1, <2>1 DEF Index
      <4>3. ((tail + n) - Capacity) % Capacity = (tail + n) % Capacity
        BY <2>1, tail + n \in Int, RemainderOfNext
      <4> QED
        BY <4>1, <4>2, <4>3
    <3> QED
      BY <3>1, <3>2
  <2> QED
    BY <2>2, <2>3 DEF n
<1> QED
  BY <1>1, <1>2, <1>3 DEF Contents, View

ViewInv(p, c) == BaseInv /\ RingInv(p, c) /\ Contents = View(p, c)

LEMMA QueueInit ==
  ASSUME NEW p, NEW c, Producers = {p}, Consumers = {c}, Init, ViewInv(p, c)
  PROVE  Abstract!Init
<1>1. Used(p, c) = 0 /\ Taken(c) = 0
  BY DEF Init, Used, Taken, Flag, Storing, Fetching, Threads
<1>2. Contents = <<>>
  BY <1>1 DEF ViewInv, View
<1>3. Stored = [q \in Producers |-> 0]
  BY DEF Init, Stored, Threads
<1> QED
  BY <1>2, <1>3 DEF Init, Abstract!Init

(* A step that touches no slot of the view is not seen by the queue.       *)
LEMMA QueueStutters ==
  ASSUME NEW p, NEW c, Producers = {p}, Consumers = {c}, ViewInv(p, c), ViewInv(p, c)',
         Used(p, c)' = Used(p, c), Taken(c)' = Taken(c), tail' = tail,
         \A i \in 1..(Used(p, c) - Taken(c)) :
           buffer'[Slot(tail, Taken(c) + i - 1)] = buffer[Slot(tail, Taken(c) + i - 1)],
         data' = data, Stored' = Stored
  PROVE  UNCHANGED Abstract!qvars
<1>1. View(p, c)' = View(p, c)
  BY DEF View, Slot
<1> QED
  BY <1>1 DEF ViewInv, Abstract!qvars

LEMMA QueueStep ==
  ASSUME NEW p, NEW c, Producers = {p}, Consumers = {c}, Capacity >= 2,
         ViewInv(p, c), ViewInv(p, c)', [Next]_vars
  PROVE  [Abstract!Next]_(Abstract!qvars)
<1> p \in Producers /\ c \in Consumers /\ p # c /\ Threads = {p, c} /\ p \in Threads /\ c \in Threads
  BY ThreadAssumption DEF Threads
<1> DEFINE u == Used(p, c)
           n == Used(p, c) - Taken(c)
           V == Elements \cup {NULL, Garbage}
<1>0. /\ BaseInv /\ RingInv(p, c) /\ Contents = View(p, c) /\ Contents' = View(p, c)'
      /\ u \in 0..Capacity /\ Taken(c) \in {0, 1} /\ n \in Nat /\ Capacity \in Nat
      /\ head \in Index /\ tail \in Index /\ Index = 0..(Capacity - 1)
      /\ \A i \in 1..n :
           Taken(c) + i - 1 \in 0..(Capacity - 1) /\ Slot(tail, Taken(c) + i - 1) \in Index
      /\ View(p, c) \in [1..n -> V]
  BY ViewType, CapacityAssumption DEF ViewInv, BaseInv, TypeOK, Index
<1>1. ASSUME buffer' = buffer, tail' = tail, size' = size, data' = data, sent' = sent,
             \A t \in Threads : \A l \in {"store", "fetch", "clear", "advance", "signal"} :
               pc'[t] = l <=> pc[t] = l
      PROVE  UNCHANGED Abstract!qvars
  <2>1. Used(p, c)' = Used(p, c) /\ Taken(c)' = Taken(c)
    BY <1>1 DEF Used, Taken, Storing, Fetching
  <2>2. Stored' = Stored
    BY <1>1 DEF Stored
  <2> QED
    BY <1>1, <2>1, <2>2, QueueStutters
<1>2. ASSUME NEW t \in Threads, LockSize(t) \/ Test(t) \/ SpuriousWakeup(t)
      PROVE  UNCHANGED Abstract!qvars
  <2>1. \A w \in Threads : \A l \in {"store", "fetch", "clear", "advance", "signal"} :
          pc'[w] = l <=> pc[w] = l
    BY <1>0, <1>2 DEF LockSize, Test, LoadHead, LoadTail, CallWait, Tested, Sleep,
       SpuriousWakeup, GoTo,
                      BaseInv, TypeOK
  <2>2. UNCHANGED <<buffer, tail, size, sent, data>>
    BY <1>2 DEF LockSize, Test, LoadHead, LoadTail, CallWait, Sleep, SpuriousWakeup,
       queue, ends
  <2> QED
    BY <1>1, <2>1, <2>2
<1>3. ASSUME Reserve(p)
      PROVE  UNCHANGED Abstract!qvars
  <2>1. /\ pc[p] = "test" /\ pc'[p] = "store" /\ pc'[c] = pc[c] /\ size' = size + 1
        /\ UNCHANGED <<head, tail, buffer, sent, data>>
    BY <1>0, <1>3 DEF Reserve, Tested, GoTo, ends, BaseInv, TypeOK
  <2>2. Used(p, c)' = Used(p, c) /\ Taken(c)' = Taken(c)
    BY <1>0, <2>1 DEF Used, Taken, Storing, Fetching, Flag, BaseInv, TypeOK
  <2>3. Stored' = Stored
    BY <2>1 DEF Stored
  <2> QED
    BY <2>1, <2>2, <2>3, QueueStutters
<1>4. ASSUME Store(p)
      PROVE  UNCHANGED Abstract!qvars
  <2>1. /\ pc[p] = "store" /\ pc'[p] = "advance" /\ pc'[c] = pc[c]
        /\ \A i \in Index : i # head => buffer'[i] = buffer[i]
        /\ UNCHANGED <<size, head, tail, sent, data>>
    BY <1>0, <1>4 DEF Store, GoTo, ends, BaseInv, TypeOK
  <2>2. Used(p, c)' = Used(p, c) /\ Taken(c)' = Taken(c)
    BY <2>1 DEF Used, Taken, Storing, Fetching
  <2>3. Stored' = Stored
    BY <2>1 DEF Stored
  <2>4. u < Capacity /\ head = Slot(tail, u)
    BY <1>0, <2>1 DEF RingInv, CountInv, Storing
  <2>5. u \in 0..(Capacity - 1)
    BY <1>0, <2>4
  <2>6. Offset(tail, head) = u
    BY <1>0, <2>4, <2>5, OffsetOfSlot
  <2>7. ASSUME NEW i \in 1..n
        PROVE  Slot(tail, Taken(c) + i - 1) # head
    <3>1. Offset(tail, Slot(tail, Taken(c) + i - 1)) = Taken(c) + i - 1
      BY <1>0, OffsetOfSlot
    <3>2. Taken(c) + i - 1 < u
      BY <1>0
    <3> QED
      BY <2>6, <3>1, <3>2, <1>0
  <2> QED
    BY <1>0, <2>1, <2>2, <2>3, <2>7, QueueStutters
<1>5. ASSUME AdvanceHead(p)
      PROVE  Abstract!Put(p)
  <2>1. /\ pc[p] = "advance" /\ pc'[p] = "signal" /\ pc'[c] = pc[c]
        /\ UNCHANGED <<size, tail, buffer, sent, data>>
    BY <1>0, <1>5 DEF AdvanceHead, GoTo, ends, BaseInv, TypeOK
  <2>2. /\ u < Capacity /\ head = Slot(tail, u) /\ buffer[head] = <<p, sent[p] + 1>>
        /\ sent[p] \in 0..Supply /\ sent[p] < Supply
    BY <1>0, <2>1 DEF RingInv, CountInv, SlotInv, Storing, BaseInv, TypeOK, CallInv
  <2>3. Used(p, c)' = Used(p, c) + 1 /\ Taken(c)' = Taken(c)
    BY <1>0, <2>1 DEF Used, Taken, Storing, Fetching, Flag, BaseInv, TypeOK
  <2>4. Contents' = Append(Contents, <<p, sent[p] + 1>>)
    <3> DEFINE s == View(p, c)
               e == <<p, sent[p] + 1>>
    <3>1. View(p, c)' = [i \in 1..(n + 1) |-> buffer[Slot(tail, Taken(c) + i - 1)]]
      <4>1. Used(p, c)' - Taken(c)' = n + 1
        BY <1>0, <2>3
      <4> QED
        BY <2>1, <2>3, <4>1 DEF View, Slot
    <3>2. Taken(c) + (n + 1) - 1 = u
      BY <1>0
    <3>3. e \in V
      BY <1>0, <2>2 DEF BaseInv, TypeOK
    <3>4. Append(s, e) = [i \in 1..(n + 1) |-> IF i = n + 1 THEN e ELSE s[i]]
      BY <1>0, <3>3, SequenceOf
    <3>5. \A i \in 1..n : s[i] = buffer[Slot(tail, Taken(c) + i - 1)]
      BY DEF View
    <3>6. \A i \in 1..(n + 1) :
            buffer[Slot(tail, Taken(c) + i - 1)] = IF i = n + 1 THEN e ELSE s[i]
      <4> SUFFICES ASSUME NEW i \in 1..(n + 1)
                   PROVE  buffer[Slot(tail, Taken(c) + i - 1)] = IF i = n + 1 THEN e ELSE s[i]
        OBVIOUS
      <4>1. CASE i = n + 1
        BY <2>2, <3>2, <4>1
      <4>2. CASE i # n + 1
        <5>1. i \in 1..n
          BY <1>0, <4>2
        <5> QED
          BY <3>5, <4>2, <5>1
      <4> QED
        BY <4>1, <4>2
    <3> QED
      BY <1>0, <3>1, <3>2, <3>4, <3>6
  <2>5. Len(Contents) = n /\ n < Capacity
    BY <1>0, <2>2, SequenceOf
  <2>6. Stored[p] = sent[p] /\ Stored' = [Stored EXCEPT ![p] = @ + 1]
    BY <2>1 DEF Stored
  <2> QED
    BY <2>1, <2>2, <2>4, <2>5, <2>6 DEF Abstract!Put
<1>6. ASSUME Claim(c)
      PROVE  UNCHANGED Abstract!qvars
  <2>1. /\ pc[c] = "test" /\ pc'[c] = "fetch" /\ pc'[p] = pc[p] /\ size' = size - 1
        /\ UNCHANGED <<head, tail, buffer, sent, data>>
    BY <1>0, <1>6 DEF Claim, Tested, GoTo, ends, BaseInv, TypeOK
  <2>2. Used(p, c)' = Used(p, c) /\ Taken(c)' = Taken(c)
    BY <1>0, <2>1 DEF Used, Taken, Storing, Fetching, Flag, BaseInv, TypeOK
  <2>3. Stored' = Stored
    BY <2>1 DEF Stored
  <2> QED
    BY <2>1, <2>2, <2>3, QueueStutters
<1>7. ASSUME Fetch(c)
      PROVE  Abstract!Take(c)
  <2>1. /\ pc[c] = "fetch" /\ pc'[c] = "clear" /\ pc'[p] = pc[p]
        /\ data' = [data EXCEPT ![c] = buffer[tail]]
        /\ UNCHANGED <<size, head, tail, buffer, sent>>
    BY <1>0, <1>7 DEF Fetch, GoTo, queue, BaseInv, TypeOK
  <2>2. /\ Used(p, c)' = Used(p, c) /\ Taken(c) = 0 /\ Taken(c)' = 1
        /\ u > 0 /\ n = u
    BY <1>0, <2>1 DEF Used, Taken, Storing, Fetching, Flag, RingInv, CountInv
  <2>3. Contents # <<>> /\ Head(Contents) = buffer[tail]
    <3>1. View(p, c)[1] = buffer[Slot(tail, 0)]
      BY <1>0, <2>2 DEF View
    <3> QED
      BY <1>0, <2>2, <3>1, SequenceOf, OffsetOfTail
  <2>4. Contents' = Tail(Contents)
    <3>1. View(p, c)' = [i \in 1..(u - 1) |-> buffer[Slot(tail, 1 + i - 1)]]
      BY <2>1, <2>2 DEF View, Slot
    <3>2. Tail(View(p, c)) = [i \in 1..(n - 1) |-> View(p, c)[i + 1]]
      <4>1. n \in Nat /\ n > 0 /\ View(p, c) \in [1..n -> V]
        BY <1>0, <2>2
      <4> QED
        BY <4>1, TailOf
    <3>3. \A i \in 1..(u - 1) : View(p, c)[i + 1] = buffer[Slot(tail, 1 + i - 1)]
      <4> SUFFICES ASSUME NEW i \in 1..(u - 1)
                   PROVE  View(p, c)[i + 1] = buffer[Slot(tail, 1 + i - 1)]
        OBVIOUS
      <4>1. i + 1 \in 1..n /\ Taken(c) + (i + 1) - 1 = 1 + i - 1
        BY <1>0, <2>2
      <4> QED
        BY <4>1 DEF View
    <3> QED
      BY <1>0, <2>2, <3>1, <3>2, <3>3
  <2>5. Stored' = Stored
    BY <2>1 DEF Stored
  <2> QED
    BY <2>1, <2>3, <2>4, <2>5 DEF Abstract!Take
<1>8. ASSUME ClearSlot(c)
      PROVE  UNCHANGED Abstract!qvars
  <2>1. /\ pc[c] = "clear" /\ pc'[c] = "advance" /\ pc'[p] = pc[p]
        /\ \A i \in Index : i # tail => buffer'[i] = buffer[i]
        /\ UNCHANGED <<size, head, tail, sent, data>>
    BY <1>0, <1>8 DEF ClearSlot, GoTo, ends, BaseInv, TypeOK
  <2>2. Used(p, c)' = Used(p, c) /\ Taken(c)' = Taken(c) /\ Taken(c) = 1
    BY <2>1 DEF Used, Taken, Storing, Fetching, Flag
  <2>3. Stored' = Stored
    BY <2>1 DEF Stored
  <2>4. ASSUME NEW i \in 1..n
        PROVE  Slot(tail, Taken(c) + i - 1) # tail
    <3>1. Offset(tail, Slot(tail, Taken(c) + i - 1)) = Taken(c) + i - 1
      BY <1>0, OffsetOfSlot
    <3>2. Taken(c) + i - 1 > 0 /\ Offset(tail, tail) = 0
      BY <1>0, <2>2, OffsetOfTail
    <3> QED
      BY <3>1, <3>2
  <2> QED
    BY <1>0, <2>1, <2>2, <2>3, <2>4, QueueStutters
<1>9. ASSUME AdvanceTail(c)
      PROVE  UNCHANGED Abstract!qvars
  <2>1. /\ pc[c] = "advance" /\ pc'[c] = "signal" /\ pc'[p] = pc[p]
        /\ tail' = (tail + 1) % Capacity
        /\ UNCHANGED <<size, head, buffer, sent, data>>
    BY <1>0, <1>9 DEF AdvanceTail, GoTo, ends, BaseInv, TypeOK
  <2>2. /\ Used(p, c)' = Used(p, c) - 1 /\ Taken(c) = 1 /\ Taken(c)' = 0
        /\ n = u - 1
    BY <1>0, <2>1 DEF Used, Taken, Storing, Fetching, Flag, BaseInv, TypeOK
  <2>3. \A i \in 1..Capacity : Slot(tail', i - 1) = Slot(tail, i)
    BY <1>0, <2>1, TailNext
  <2>4. View(p, c)' = [i \in 1..n |-> buffer[Slot(tail', i - 1)]]
    <3>1. View(p, c)' = [i \in 1..(u - 1 - 0) |-> buffer[Slot(tail', 0 + i - 1)]]
      BY <2>1, <2>2 DEF View, Slot
    <3>2. u - 1 - 0 = n /\ \A i \in 1..n : 0 + i - 1 = i - 1
      BY <1>0, <2>2
    <3> QED
      BY <3>1, <3>2
  <2>5. View(p, c) = [i \in 1..n |-> buffer[Slot(tail, i)]]
    <3>1. \A i \in 1..n : Taken(c) + i - 1 = i
      BY <2>2
    <3> QED
      BY <3>1 DEF View
  <2>6. \A i \in 1..n : Slot(tail', i - 1) = Slot(tail, i)
    BY <1>0, <2>2, <2>3
  <2>7. Stored' = Stored
    BY <2>1 DEF Stored
  <2> QED
    BY <1>0, <2>1, <2>4, <2>5, <2>6, <2>7 DEF Abstract!qvars
<1>10. ASSUME SignalPopper(p)
       PROVE  UNCHANGED Abstract!qvars
  <2>1. /\ pc[p] = "signal" /\ pc'[p] \in {"call", "done"}
        /\ pc'[c] = pc[c] \/ (pc[c] = "wait" /\ pc'[c] = "call")
        /\ sent' = [sent EXCEPT ![p] = sent[p] + 1]
        /\ UNCHANGED <<queue, data>>
    BY <1>0, <1>10 DEF SignalPopper, SignalAndGoTo, GoTo, BaseInv, TypeOK
  <2>2. Used(p, c)' = Used(p, c) /\ Taken(c)' = Taken(c)
    BY <2>1 DEF Used, Taken, Storing, Fetching, queue
  <2>3. Stored' = Stored
    BY <1>0, <2>1 DEF Stored, BaseInv, TypeOK
  <2> QED
    BY <2>1, <2>2, <2>3, QueueStutters DEF queue
<1>11. ASSUME SignalPusher(c)
       PROVE  UNCHANGED Abstract!qvars
  <2>1. /\ pc[c] = "signal" /\ pc'[c] \in {"call", "done"}
        /\ pc'[p] = pc[p] \/ (pc[p] = "wait" /\ pc'[p] = "call")
        /\ UNCHANGED <<queue, sent, data>>
    BY <1>0, <1>11 DEF SignalPusher, SignalAndGoTo, GoTo, BaseInv, TypeOK
  <2>2. Used(p, c)' = Used(p, c) /\ Taken(c)' = Taken(c)
    BY <2>1 DEF Used, Taken, Storing, Fetching, queue
  <2>3. Stored' = Stored
    BY <2>1 DEF Stored
  <2> QED
    BY <2>1, <2>2, <2>3, QueueStutters DEF queue
<1>12. CASE UNCHANGED vars
  BY <1>1, <1>12 DEF vars, queue, ends
<1> QED
  BY <1>2, <1>3, <1>4, <1>5, <1>6, <1>7, <1>8, <1>9, <1>10, <1>11, <1>12
  DEF Next, Enqueue, Dequeue, Abstract!Next

(* One producer, one consumer and two slots or more: the ring is the       *)
(* bounded queue of producer-consumer.h.  An enqueue takes effect when it  *)
(* advances the head, a dequeue when it reads its slot; every other step   *)
(* of the two calls leaves the queue as it is.                             *)
THEOREM RingIsQueue ==
  ASSUME NEW p, NEW c, Producers = {p}, Consumers = {c}, Capacity >= 2
  PROVE  Spec => ImplementsQueue
<1>1. BaseInv /\ RingInv(p, c) => ViewInv(p, c)
  BY ViewIsContents DEF ViewInv
<1>2. Spec => []ViewInv(p, c)
  BY <1>1, SpscInvariant, PTL
<1>3. Init /\ ViewInv(p, c) => Abstract!Init
  BY QueueInit
<1>4. ViewInv(p, c) /\ ViewInv(p, c)' /\ [Next]_vars => [Abstract!Next]_(Abstract!qvars)
  BY QueueStep
<1> QED
  BY <1>2, <1>3, <1>4, PTL DEF Spec, ImplementsQueue, Abstract!Spec

=============================================================================
