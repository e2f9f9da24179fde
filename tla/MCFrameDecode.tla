----------------------------- MODULE MCFrameDecode -----------------------------
(* Instances of FrameDecode for TLC.                                         *)
EXTENDS FrameDecode, TLC

Symmetry == Permutations(Threads)
================================================================================
