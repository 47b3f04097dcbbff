----------------------------- MODULE Rendezvous -----------------------------
(***************************************************************************)
(* What the opens of clients and workers promise: whoever gets in at a     *)
(* FIFO finds somebody at its other end, and a request is served once at   *)
(* most.  Registration implements this module.                             *)
(***************************************************************************)
CONSTANTS
  Clients,         \* client programs; each has a FIFO and sends one request
  ReadingClients,  \* the clients that open their FIFO to read, not to write
  ReadingWorkers,  \* the requests whose worker opens to read, not to write
  Unserved,        \* a request that is not served yet
  Over             \* a request that was served or dropped

VARIABLES
  inside,  \* the clients that have their FIFO open
  session  \* session[r]: at whose FIFO request r is served, Unserved or Over

rvars == <<inside, session>>

Init ==
  /\ inside = {}
  /\ session = [r \in Clients |-> Unserved]

IsRead(c) ==
  c \in inside \cap ReadingClients \/ \E r \in ReadingWorkers : session[r] = c

IsWritten(c) ==
  c \in inside \ ReadingClients \/ \E r \in Clients \ ReadingWorkers : session[r] = c

(* The client, or workers, or both get in at the FIFO of c: then it is     *)
(* open at both ends.                                                      *)
Enter(c, C, R) ==
  /\ inside' = inside \cup C
  /\ session' = [r \in Clients |-> IF r \in R THEN c ELSE session[r]]
  /\ IsRead(c)' /\ IsWritten(c)'

Leave(c) ==
  /\ c \in inside
  /\ inside' = inside \ {c}
  /\ UNCHANGED session

(* Requests are over, one by one or all at once when the broker stops.     *)
Finish(R) ==
  /\ session' = [r \in Clients |-> IF r \in R THEN Over ELSE session[r]]
  /\ UNCHANGED inside

Next ==
  \/ \E c \in Clients : Leave(c)
  \/ \E c \in Clients :
       \E C \in SUBSET ({c} \ inside), R \in SUBSET {r \in Clients : session[r] = Unserved} :
         Enter(c, C, R)
  \/ \E R \in SUBSET Clients : Finish(R)

Spec == Init /\ [][Next]_rvars
=============================================================================
