------------------------- MODULE MCProducerConsumer -------------------------
(* Instances of ProducerConsumer for TLC.                                  *)
EXTENDS ProducerConsumer, TLC

Symmetry == Permutations(Producers) \cup Permutations(Consumers)
=============================================================================
