---------------------------- MODULE MCMessageBox ----------------------------
(* Instances of MessageBox for TLC.                                        *)
EXTENDS MessageBox, TLC

Symmetry == Permutations(PubWorkers) \cup Permutations(SubWorkers) \cup Permutations(ManWorkers)
=============================================================================
