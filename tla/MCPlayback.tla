----------------------------- MODULE MCPlayback -----------------------------
(* Instances of Playback for TLC.                                            *)
EXTENDS Playback, TLC

(* The native decoders and the arrays are interchangeable.                   *)
Heap == Permutations(Decoders) \cup Permutations(Arrays)
=============================================================================
