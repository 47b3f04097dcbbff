--------------------------- MODULE MCRegistration ---------------------------
(* An instance of Registration for TLC: a client of every kind and another *)
(* manager, all given the same pipe name.                                  *)
EXTENDS Registration, TLC

CONSTANTS p, s, m1, m2, path

MCKind == p :> "publisher" @@ s :> "subscriber" @@ m1 :> "manager" @@ m2 :> "manager"
MCPipe == [c \in {p, s, m1, m2} |-> path]
=============================================================================
