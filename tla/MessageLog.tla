----------------------------- MODULE MessageLog -----------------------------
(***************************************************************************)
(* What a message box is to its clients: a log that only grows, and        *)
(* subscribers that hear it from its beginning, in order, message by       *)
(* message.  MessageBox implements this module.                            *)
(***************************************************************************)
EXTENDS Integers, Sequences

CONSTANTS
  Boxes,     \* every box ever created, one per creation
  Readers,   \* the worker threads that serve subscribers
  Messages,  \* what publishers send
  Torn,      \* what a subscriber is sent that is none of them
  NoBox      \* where a reader is that serves nobody

VARIABLES
  log,       \* log[b]: the messages published in b
  damagedAt, \* damagedAt[b]: how many of them were there when b was damaged, or -1
  reading,   \* reading[r]: the box r's subscriber reads, or NoBox
  heard      \* heard[r]: what r has sent its subscriber

lvars == <<log, damagedAt, reading, heard>>

Init ==
  /\ log = [b \in Boxes |-> <<>>]
  /\ damagedAt = [b \in Boxes |-> -1]
  /\ reading = [r \in Readers |-> NoBox]
  /\ heard = [r \in Readers |-> <<>>]

Logged == UNION {{log[b][i] : i \in DOMAIN log[b]} : b \in Boxes}

(* A message is published in one box, once.                                *)
Publish(b, m) ==
  /\ m \notin Logged
  /\ log' = [log EXCEPT ![b] = Append(@, m)]
  /\ UNCHANGED <<damagedAt, reading, heard>>

(* The storage of a box fails.                                             *)
Damage(b) ==
  /\ damagedAt[b] = -1
  /\ damagedAt' = [damagedAt EXCEPT ![b] = Len(log[b])]
  /\ UNCHANGED <<log, reading, heard>>

Join(r, b) ==
  /\ reading[r] = NoBox
  /\ reading' = [reading EXCEPT ![r] = b]
  /\ UNCHANGED <<log, damagedAt, heard>>

(* Of an undamaged box, and of what was in a box before it was damaged,    *)
(* the subscriber hears the first message it has not heard.                *)
Promised(b, k) == damagedAt[b] = -1 \/ k <= damagedAt[b]

Hear(r) ==
  LET b == reading[r]
      k == Len(heard[r]) + 1
  IN  /\ b # NoBox
      /\ \/ /\ k <= Len(log[b])
            /\ heard' = [heard EXCEPT ![r] = Append(@, log[b][k])]
         \/ /\ ~Promised(b, k)
            /\ \E m \in Messages \cup {Torn} : heard' = [heard EXCEPT ![r] = Append(@, m)]
      /\ UNCHANGED <<log, damagedAt, reading>>

(* Subscribers leave, one by one or all at once when the broker exits.     *)
Leave(R) ==
  /\ reading' = [r \in Readers |-> IF r \in R THEN NoBox ELSE reading[r]]
  /\ heard' = [r \in Readers |-> IF r \in R THEN <<>> ELSE heard[r]]
  /\ UNCHANGED <<log, damagedAt>>

Next ==
  \/ \E b \in Boxes, m \in Messages : Publish(b, m)
  \/ \E b \in Boxes : Damage(b)
  \/ \E r \in Readers, b \in Boxes : Join(r, b)
  \/ \E r \in Readers : Hear(r)
  \/ \E R \in SUBSET Readers : Leave(R)

Spec == Init /\ [][Next]_lvars
=============================================================================
