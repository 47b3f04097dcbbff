------------------------------- MODULE Vector -------------------------------
(***************************************************************************)
(* utils/vector.c: an array of pointers that grows.  A vector is a record  *)
(* of what is in the array, whose length is the field size, and of how     *)
(* many pointers the array has room for.                                   *)
(***************************************************************************)
EXTENDS Integers, Sequences

CONSTANT
  VectorLimit   \* the capacity beyond which vector_push panics

ASSUME VectorAssumption == VectorLimit \in Nat

vector_create(initial_capacity) == [buff |-> <<>>, capacity |-> initial_capacity]

IsFull(v) == Len(v.buff) = v.capacity

(* Mutant: half of a capacity of one is nothing.                           *)
IncrementHalf(v) == v.capacity \div 2

(* How much a full vector grows: by half, and at least by one.             *)
Increment(v) == IF v.capacity \div 2 < 1 THEN 1 ELSE v.capacity \div 2

PushPanics(v) == IsFull(v) /\ v.capacity + Increment(v) > VectorLimit

(* Where it does not panic.                                                *)
vector_push(v, data) ==
  [buff |-> Append(v.buff, data),
   capacity |-> IF IsFull(v) THEN v.capacity + Increment(v) ELSE v.capacity]

(* What is in the array has room there.                                    *)
Fits(v) == Len(v.buff) <= v.capacity /\ v.capacity <= VectorLimit
=============================================================================
