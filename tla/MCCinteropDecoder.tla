-------------------------- MODULE MCCinteropDecoder --------------------------
(* Instances of CinteropDecoder for TLC.                                     *)
EXTENDS CinteropDecoder, TLC

Symmetry == Permutations(Threads) \cup Permutations(Decoders)
==============================================================================
