-------------------------- MODULE ProducerConsumer --------------------------
(***************************************************************************)
(* producer-consumer/producer-consumer.c: the ring buffer mbroker hands    *)
(* its requests through.  Threads interleave at every access that another  *)
(* thread can observe:                                                     *)
(*   - pcq_current_size is read and written under pcq_current_size_lock;   *)
(*   - pcq_head and pcq_tail are written under their own locks but READ    *)
(*     by the wait conditions under pcq_current_size_lock only, so the two *)
(*     loads of a condition are steps of their own, in either order;       *)
(*   - both condition variables are used with pcq_current_size_lock, and   *)
(*     are signalled without holding it.                                   *)
(* A thread of the wait set of a condition variable is one with pc "wait". *)
(***************************************************************************)
EXTENDS Integers, Sequences, FiniteSets

CONSTANTS
  Producers,  \* threads that call pcq_enqueue
  Consumers,  \* threads that call pcq_dequeue
  Capacity,   \* the capacity given to pcq_create
  Supply,     \* bound: elements each producer enqueues before it stops
  Demand,     \* bound: elements each consumer dequeues before it stops
  NULL,       \* the NULL pointer
  Garbage,    \* content of a malloc'ed slot nobody has written
  NoThread    \* holder of a free mutex

ASSUME ThreadAssumption ==
  /\ Producers \cap Consumers = {}
  /\ NoThread \notin Producers \cup Consumers
  /\ Supply \in Nat \ {0}
  /\ Demand \in Nat \ {0}

ASSUME CapacityAssumption == Capacity \in Nat \ {0}

Threads == Producers \cup Consumers

(* What travels through the queue: the k-th element of producer p.         *)
Elements == Producers \X (1..Supply)

ASSUME ValueAssumption == NULL \notin Elements /\ Garbage \notin Elements

Index == 0..(Capacity - 1)
Unread == -1                     \* a ring index a thread has not loaded

VARIABLES
  size, head, tail, buffer,      \* the fields of pc_queue_t
  sizeLock, headLock, tailLock,  \* holder of each mutex, or NoThread
  pc,                            \* pc[t]: where t is in its call
  headSeen, tailSeen,            \* the ring indices t has loaded in its test
  sent,                          \* sent[p]: enqueue calls p has completed
  data,                          \* data[c]: local variable of pcq_dequeue
  got                            \* got[c]: what c's dequeues have returned

queue == <<size, head, tail, buffer>>
locks == <<sizeLock, headLock, tailLock>>
seen  == <<headSeen, tailSeen>>
ends  == <<sent, data, got>>
vars  == <<queue, locks, pc, seen, ends>>

TypeOK ==
  /\ size \in 0..Capacity
  /\ head \in Index
  /\ tail \in Index
  /\ buffer \in [Index -> Elements \cup {NULL, Garbage}]
  /\ sizeLock \in Threads \cup {NoThread}
  /\ headLock \in Producers \cup {NoThread}
  /\ tailLock \in Consumers \cup {NoThread}
  /\ pc \in [Threads -> {"call", "test", "sleep", "wait", "store", "fetch",
                         "clear", "advance", "signal", "done"}]
  /\ headSeen \in [Threads -> Index \cup {Unread}]
  /\ tailSeen \in [Threads -> Index \cup {Unread}]
  /\ sent \in [Producers -> 0..Supply]
  /\ data \in [Consumers -> Elements \cup {NULL, Garbage}]
  /\ got \in [Consumers -> Seq(Elements \cup {NULL, Garbage})]

(* pcq_create: malloc leaves the slots unwritten, every counter is zero.   *)
Init ==
  /\ size = 0
  /\ head = 0
  /\ tail = 0
  /\ buffer = [i \in Index |-> Garbage]
  /\ sizeLock = NoThread
  /\ headLock = NoThread
  /\ tailLock = NoThread
  /\ pc = [t \in Threads |-> "call"]
  /\ headSeen = [t \in Threads |-> Unread]
  /\ tailSeen = [t \in Threads |-> Unread]
  /\ sent = [p \in Producers |-> 0]
  /\ data = [c \in Consumers |-> NULL]
  /\ got = [c \in Consumers |-> <<>>]

GoTo(t, label) == pc' = [pc EXCEPT ![t] = label]

-----------------------------------------------------------------------------
(* The part pcq_enqueue and pcq_dequeue share: lock, evaluate the wait     *)
(* condition, and wait.                                                    *)

(* SCOPED_LOCK(pcq_current_size_lock), on entry and on return from a wait. *)
LockSize(t) ==
  /\ pc[t] = "call"
  /\ sizeLock = NoThread
  /\ sizeLock' = t
  /\ GoTo(t, "test")
  /\ UNCHANGED <<queue, headLock, tailLock, seen, ends>>

(* The unsynchronised loads of the wait condition.                         *)
LoadHead(t) ==
  /\ pc[t] = "test"
  /\ headSeen[t] = Unread
  /\ headSeen' = [headSeen EXCEPT ![t] = head]
  /\ UNCHANGED <<queue, locks, pc, tailSeen, ends>>

LoadTail(t) ==
  /\ pc[t] = "test"
  /\ tailSeen[t] = Unread
  /\ tailSeen' = [tailSeen EXCEPT ![t] = tail]
  /\ UNCHANGED <<queue, locks, pc, headSeen, ends>>

Tested(t) == pc[t] = "test" /\ headSeen[t] # Unread /\ tailSeen[t] # Unread

ForgetLoads(t) ==
  /\ headSeen' = [headSeen EXCEPT ![t] = Unread]
  /\ tailSeen' = [tailSeen EXCEPT ![t] = Unread]

(* Mutants: only the first of the two conditions is waited for.            *)
EnqueueWaitsWhenFull(p) == size = Capacity
DequeueWaitsWhenEmpty(c) == size = 0

(* The two while conditions, on the loaded indices.                        *)
EnqueueWaits(p) ==
  \/ size = Capacity
  \/ headSeen[p] = tailSeen[p] /\ size # 0

DequeueWaits(c) ==
  \/ size = 0
  \/ tailSeen[c] = headSeen[c] /\ size # Capacity

Waits(t) == IF t \in Producers THEN EnqueueWaits(t) ELSE DequeueWaits(t)

(* The condition holds: t calls pthread_cond_wait, still holding the lock. *)
CallWait(t) ==
  /\ Tested(t)
  /\ Waits(t)
  /\ GoTo(t, "sleep")
  /\ ForgetLoads(t)
  /\ UNCHANGED <<queue, locks, ends>>

(* pthread_cond_wait releases the mutex and joins the wait set at once.    *)
Sleep(t) ==
  /\ pc[t] = "sleep"
  /\ GoTo(t, "wait")
  /\ sizeLock' = NoThread
  /\ UNCHANGED <<queue, headLock, tailLock, seen, ends>>

(* POSIX lets a wait return with nobody having signalled.                  *)
SpuriousWakeup(t) ==
  /\ pc[t] = "wait"
  /\ GoTo(t, "call")
  /\ UNCHANGED <<queue, locks, seen, ends>>

(* t signals a condition variable on which the threads of S may wait, and  *)
(* goes to label: one waiter resumes if there is one, else nothing is kept.*)
SignalAndGoTo(t, S, label) ==
  LET waiting == {w \in S : pc[w] = "wait"}
  IN  \/ /\ waiting = {}
         /\ GoTo(t, label)
      \/ \E w \in waiting : pc' = [pc EXCEPT ![t] = label, ![w] = "call"]

-----------------------------------------------------------------------------
(* pcq_enqueue                                                             *)

(* The condition is false: count the element and release the size lock.    *)
Reserve(p) ==
  /\ Tested(p)
  /\ ~EnqueueWaits(p)
  /\ size' = size + 1
  /\ sizeLock' = NoThread
  /\ GoTo(p, "store")
  /\ ForgetLoads(p)
  /\ UNCHANGED <<head, tail, buffer, headLock, tailLock, ends>>

(* Take the head lock and write the slot.                                  *)
Store(p) ==
  /\ pc[p] = "store"
  /\ headLock = NoThread
  /\ headLock' = p
  /\ buffer' = [buffer EXCEPT ![head] = <<p, sent[p] + 1>>]
  /\ GoTo(p, "advance")
  /\ UNCHANGED <<size, head, tail, sizeLock, tailLock, seen, ends>>

(* Mutant: the head does not wrap around.                                  *)
AdvanceHeadUnwrapped(p) ==
  /\ pc[p] = "advance"
  /\ head' = head + 1
  /\ headLock' = NoThread
  /\ GoTo(p, "signal")
  /\ UNCHANGED <<size, tail, buffer, sizeLock, tailLock, seen, ends>>

(* Advance the head and release its lock.                                  *)
AdvanceHead(p) ==
  /\ pc[p] = "advance"
  /\ head' = (head + 1) % Capacity
  /\ headLock' = NoThread
  /\ GoTo(p, "signal")
  /\ UNCHANGED <<size, tail, buffer, sizeLock, tailLock, seen, ends>>

(* Signal the popper condition variable and return.                        *)
SignalPopper(p) ==
  /\ pc[p] = "signal"
  /\ sent' = [sent EXCEPT ![p] = @ + 1]
  /\ SignalAndGoTo(p, Consumers, IF sent[p] + 1 < Supply THEN "call" ELSE "done")
  /\ UNCHANGED <<queue, locks, seen, data, got>>

-----------------------------------------------------------------------------
(* pcq_dequeue                                                             *)

(* Mutant: the element taken stays counted.                                *)
ClaimUncounted(c) ==
  /\ Tested(c)
  /\ ~DequeueWaits(c)
  /\ sizeLock' = NoThread
  /\ GoTo(c, "fetch")
  /\ ForgetLoads(c)
  /\ UNCHANGED <<queue, headLock, tailLock, ends>>

(* The condition is false: uncount the element and release the size lock.  *)
Claim(c) ==
  /\ Tested(c)
  /\ ~DequeueWaits(c)
  /\ size' = size - 1
  /\ sizeLock' = NoThread
  /\ GoTo(c, "fetch")
  /\ ForgetLoads(c)
  /\ UNCHANGED <<head, tail, buffer, headLock, tailLock, ends>>

(* Take the tail lock and read the slot, whatever is in it.                *)
Fetch(c) ==
  /\ pc[c] = "fetch"
  /\ tailLock = NoThread
  /\ tailLock' = c
  /\ data' = [data EXCEPT ![c] = buffer[tail]]
  /\ GoTo(c, "clear")
  /\ UNCHANGED <<queue, sizeLock, headLock, seen, sent, got>>

(* Mutant: the slot keeps the element.                                     *)
ClearSlotKept(c) ==
  /\ pc[c] = "clear"
  /\ GoTo(c, "advance")
  /\ UNCHANGED <<queue, locks, seen, ends>>

ClearSlot(c) ==
  /\ pc[c] = "clear"
  /\ buffer' = [buffer EXCEPT ![tail] = NULL]
  /\ GoTo(c, "advance")
  /\ UNCHANGED <<size, head, tail, locks, seen, ends>>

AdvanceTail(c) ==
  /\ pc[c] = "advance"
  /\ tail' = (tail + 1) % Capacity
  /\ tailLock' = NoThread
  /\ GoTo(c, "signal")
  /\ UNCHANGED <<size, head, buffer, sizeLock, headLock, seen, ends>>

(* Mutant: the call returns without a signal.                              *)
SignalPusherNever(c) ==
  /\ pc[c] = "signal"
  /\ got' = [got EXCEPT ![c] = Append(@, data[c])]
  /\ GoTo(c, IF Len(got[c]) + 1 < Demand THEN "call" ELSE "done")
  /\ UNCHANGED <<queue, locks, seen, sent, data>>

(* Signal the pusher condition variable and return the element.            *)
SignalPusher(c) ==
  /\ pc[c] = "signal"
  /\ got' = [got EXCEPT ![c] = Append(@, data[c])]
  /\ SignalAndGoTo(c, Producers, IF Len(got[c]) + 1 < Demand THEN "call" ELSE "done")
  /\ UNCHANGED <<queue, locks, seen, sent, data>>

-----------------------------------------------------------------------------
Test(t) == LoadHead(t) \/ LoadTail(t) \/ CallWait(t) \/ Sleep(t)

Enqueue(p) == Reserve(p) \/ Store(p) \/ AdvanceHead(p) \/ SignalPopper(p)

Dequeue(c) == Claim(c) \/ Fetch(c) \/ ClearSlot(c) \/ AdvanceTail(c) \/ SignalPusher(c)

Next ==
  \/ \E t \in Threads : LockSize(t) \/ Test(t) \/ SpuriousWakeup(t)
  \/ \E p \in Producers : Enqueue(p)
  \/ \E c \in Consumers : Dequeue(c)

(* A runnable thread runs, and a thread that asks for a mutex again and    *)
(* again finds it free gets it.  Nothing is assumed of spurious wakeups.   *)
Fairness ==
  /\ \A t \in Threads : SF_vars(LockSize(t)) /\ WF_vars(Test(t))
  /\ \A p \in Producers : WF_vars(Enqueue(p)) /\ SF_vars(Store(p))
  /\ \A c \in Consumers : WF_vars(Dequeue(c)) /\ SF_vars(Fetch(c))

Spec == Init /\ [][Next]_vars

FairSpec == Spec /\ Fairness

-----------------------------------------------------------------------------
(* Correctness.                                                            *)

InFlightStores == {p \in Producers : pc[p] \in {"store", "advance"}}
InFlightFetches == {c \in Consumers : pc[c] \in {"fetch", "clear", "advance"}}

(* Slots from the tail to the head, by the counter and the calls that have *)
(* moved it and not yet their index.                                       *)
Occupied == size - Cardinality(InFlightStores) + Cardinality(InFlightFetches)

(* The element counter and the two ring indices are kept under three locks;*)
(* they agree once the calls in flight are accounted for, so they agree    *)
(* whenever no call is under way.  For any number of threads.              *)
RingMatchesCount == (head - tail) % Capacity = Occupied % Capacity

(* What c's dequeues have returned, and what the current one will return.  *)
Delivered(c) == IF pc[c] \in {"clear", "advance", "signal"}
                THEN Append(got[c], data[c]) ELSE got[c]

(* However many threads race, no element comes out of the queue twice: a   *)
(* slot is cleared before the tail lock that guards it is released.        *)
NoElementTwice ==
  \A c, d \in Consumers :
    \A i \in DOMAIN Delivered(c), j \in DOMAIN Delivered(d) :
      Delivered(c)[i] \in Elements /\ Delivered(c)[i] = Delivered(d)[j]
        => c = d /\ i = j

(* pcq_dequeue hands out an element that was put in, never the NULL of an  *)
(* emptied slot nor the garbage of one nobody wrote ("If the queue is      *)
(* empty, sleep until the queue has an element", producer-consumer.h:49).  *)
DequeueYieldsElement ==
  \A c \in Consumers : pc[c] \in {"clear", "advance", "signal"} => data[c] \in Elements

(* pcq_enqueue stores only into a slot whose element has been removed, as  *)
(* the comment on its wait condition says (producer-consumer.c:58-60).     *)
StoreIntoFreeSlot ==
  \A p \in Producers : pc[p] = "store" /\ headLock = NoThread => buffer[head] \notin Elements

(* The ring seen as the queue of BoundedQueue: the stored elements not yet *)
(* fetched.  An enqueue takes effect when it advances the head, a dequeue  *)
(* when it reads the slot.                                                 *)
Fetched == Cardinality({c \in Consumers : pc[c] \in {"clear", "advance"}})

Contents == [i \in 1..(Occupied - Fetched) |-> buffer[(tail + Fetched + i - 1) % Capacity]]

Stored == [p \in Producers |-> IF pc[p] = "signal" THEN sent[p] + 1 ELSE sent[p]]

Abstract == INSTANCE BoundedQueue WITH contents <- Contents, put <- Stored, out <- data

(* The ring implements the queue its header promises: every element comes  *)
(* out once, in the order of the enqueues, and never more than Capacity    *)
(* are inside.  Holds with one producer, one consumer and two slots.       *)
ImplementsQueue == Abstract!Spec

-----------------------------------------------------------------------------
(* Why one producer p and one consumer c are safe with two slots or more.  *)

Storing(p) == pc[p] \in {"store", "advance"}
Fetching(c) == pc[c] \in {"fetch", "clear", "advance"}
Flag(b) == IF b THEN 1 ELSE 0

Used(p, c) == size - Flag(Storing(p)) + Flag(Fetching(c))

(* The slot n places after slot t, and how many places after t slot i is.  *)
Slot(t, n) == IF t + n < Capacity THEN t + n ELSE t + n - Capacity
Offset(t, i) == IF i >= t THEN i - t ELSE i - t + Capacity

(* The used slots are those from the tail up to the head; a call that has  *)
(* passed its test finds the slot or the element it was promised.          *)
CountInv(p, c) ==
  /\ Used(p, c) \in 0..Capacity
  /\ head = Slot(tail, Used(p, c))
  /\ Storing(p) => Used(p, c) < Capacity
  /\ Fetching(c) => Used(p, c) > 0

(* The indices a test has loaded may be stale only on the safe side.       *)
SeenInv(p, c) ==
  /\ headSeen[p] \in {Unread, head}
  /\ tailSeen[c] \in {Unread, tail}
  /\ Fetching(c) => tailSeen[p] \in {Unread, tail}
  /\ Storing(p) => headSeen[c] \in {Unread, head}

(* Exactly the used slots hold elements, but for the slot being filled and *)
(* the slot being emptied.                                                 *)
SlotInv(p, c) ==
  /\ \A i \in Index : Offset(tail, i) < Used(p, c) /\ ~(pc[c] = "advance" /\ i = tail)
                        => buffer[i] \in Elements
  /\ \A i \in Index : Offset(tail, i) >= Used(p, c) /\ ~(pc[p] = "advance" /\ i = head)
                        => buffer[i] \notin Elements
  /\ pc[c] = "advance" => buffer[tail] \notin Elements
  /\ pc[p] = "advance" => buffer[head] = <<p, sent[p] + 1>>
  /\ pc[c] \in {"clear", "advance", "signal"} => data[c] \in Elements

(* The inductive invariant of one producer and one consumer.               *)
SpscInv ==
  \A p \in Producers, c \in Consumers : CountInv(p, c) /\ SeenInv(p, c) /\ SlotInv(p, c)

-----------------------------------------------------------------------------
(* Every enqueue returns: with a single producer, no lost signal can leave *)
(* it asleep for good as long as the consumers keep dequeuing.             *)
ProducersReturn == \A p \in Producers : <>(pc[p] = "done")

(* A consumer does not sleep for good on a queue that has an element: "If  *)
(* the queue is empty, sleep until the queue has an element"               *)
(* (producer-consumer.h:49).                                               *)
DequeueWakes ==
  \A c \in Consumers :
    pc[c] = "wait" /\ Contents # <<>> ~> pc[c] # "wait" \/ Contents = <<>>
=============================================================================
