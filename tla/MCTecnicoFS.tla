----------------------------- MODULE MCTecnicoFS -----------------------------
(* A small instance of TecnicoFS for TLC: three good names, which may be   *)
(* exchanged, and one that is too long for a directory.                    *)
EXTENDS TecnicoFSData, TLC

CONSTANTS f1, f2, f3, long

Symmetry == Permutations({f1, f2, f3})
=============================================================================
