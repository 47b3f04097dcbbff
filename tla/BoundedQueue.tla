---------------------------- MODULE BoundedQueue ----------------------------
(***************************************************************************)
(* What producer-consumer.h promises: a queue of fixed capacity.  An       *)
(* enqueue inserts at one end and sleeps while the queue is full, a        *)
(* dequeue removes from the other end and sleeps while it is empty.        *)
(* Sleeping is a disabled action here: who waits and who is woken is the   *)
(* business of ProducerConsumer, which implements this module when there   *)
(* is one producer, one consumer and a capacity of at least two.           *)
(***************************************************************************)
EXTENDS Integers, Sequences

CONSTANTS
  Producers,  \* the threads that call pcq_enqueue
  Consumers,  \* the threads that call pcq_dequeue
  Capacity,   \* the capacity given to pcq_create
  Supply,     \* how many elements each producer enqueues
  NULL        \* what a consumer holds before its first dequeue

VARIABLES
  contents,   \* the elements in the queue, oldest first
  put,        \* put[p]: how many elements p has inserted
  out         \* out[c]: the element c removed last

qvars == <<contents, put, out>>

Init ==
  /\ contents = <<>>
  /\ put = [p \in Producers |-> 0]
  /\ out = [c \in Consumers |-> NULL]

(* p inserts its next element; elements are numbered per producer.         *)
Put(p) ==
  /\ Len(contents) < Capacity
  /\ put[p] < Supply
  /\ contents' = Append(contents, <<p, put[p] + 1>>)
  /\ put' = [put EXCEPT ![p] = @ + 1]
  /\ UNCHANGED out

(* c removes the oldest element and is handed exactly that element.        *)
Take(c) ==
  /\ contents # <<>>
  /\ out' = [out EXCEPT ![c] = Head(contents)]
  /\ contents' = Tail(contents)
  /\ UNCHANGED put

Next ==
  \/ \E p \in Producers : Put(p)
  \/ \E c \in Consumers : Take(c)

Spec == Init /\ [][Next]_qvars
=============================================================================
