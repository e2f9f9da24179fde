---------------------------- MODULE MCJniDecoder ----------------------------
(* Instances of JniDecoder for TLC.                                          *)
EXTENDS JniDecoder, TLC

(* What the callers must observe where the decoder reads a copy of the array *)
(* (always on the desktop JVM), and where it may read the array itself.      *)
JvmContract == {"confined", "openOnly", "frameOpen", "freshFrame"}
AndroidContract == JvmContract \cup {"keepBytes"}

(* What AvifFrame.kt documents of frames, and the usual use of a decoder.    *)
DocumentedContract == {"confined", "openOnly", "frameOpen", "keepBytes"}

Symmetry == Permutations(Threads) \cup Permutations(Decoders)
=============================================================================
