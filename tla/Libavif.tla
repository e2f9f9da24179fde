------------------------------- MODULE Libavif -------------------------------
(***************************************************************************)
(* The libavif decoder, as far as the bindings rely on it.  libavif is a   *)
(* git submodule, its code is not part of this repository: every operator  *)
(* here is the contract of one C function that the bindings call, and      *)
(* carries the name of that function.                                      *)
(*                                                                         *)
(* A native decoder is identified with the create() call that allocates    *)
(* it, so an address is never used again for another decoder.              *)
(***************************************************************************)
EXTENDS Integers

CONSTANTS
  Decoders,    \* the native decoders that may be allocated
  Arrays,      \* the ByteArrays that hold encoded images
  NoArray,     \* the input of a decoder that is not allocated
  FrameCount,  \* decoder->imageCount
  MaxResets,   \* bound: calls of avifDecoderReset on one decoder
  Damaged      \* TRUE when parsing or decoding may fail, or memory for it run out

ASSUME LibavifAssumption ==
  /\ FrameCount \in Nat \ {0}
  /\ MaxResets \in Nat
  /\ NoArray \notin Arrays
  /\ Damaged \in BOOLEAN

VARIABLE native  \* the heap of native decoders

FrameIndexes == 0 .. FrameCount - 1

(***************************************************************************)
(* imageIndex: the frame the decoder is on, -1 before the first one.       *)
(* image: decoder->image; the avifImage struct is owned by the decoder and *)
(*   replaced by a new one each time the decoder is reset, so a count of   *)
(*   the resets identifies it.                                             *)
(* io: the bytes the memory reader points into.  libavif does not copy     *)
(*   them; copied says whether they are a C copy that the JVM made of the  *)
(*   array, or the storage of the array itself.                            *)
(***************************************************************************)
NativeDecoders ==
  [state      : {"none", "live", "destroyed"},
   imageIndex : FrameIndexes \cup {-1},
   image      : 0 .. MaxResets,
   io         : Arrays \cup {NoArray},
   copied     : BOOLEAN]

Unallocated ==
  [state |-> "none", imageIndex |-> -1, image |-> 0, io |-> NoArray,
   copied |-> FALSE]

Live(d) == native[d].state = "live"

(* avifDecoderCreate and avifDecoderSetIOMemory.                           *)
avifDecoderCreate(d, bytes, isCopy) ==
  native' = [native EXCEPT ![d] =
              [Unallocated EXCEPT !.state = "live", !.io = bytes,
                                  !.copied = isCopy]]

(* avifDecoderDestroy frees the decoder and the image it owns.             *)
avifDecoderDestroy(d) ==
  native' = [native EXCEPT ![d] = [Unallocated EXCEPT !.state = "destroyed"]]

(***************************************************************************)
(* avifDecoderReset replaces decoder->image and, when it succeeds, goes    *)
(* back to before the first frame.                                         *)
(***************************************************************************)
avifDecoderReset(d, ok) ==
  /\ native[d].image < MaxResets
  /\ ok \/ Damaged
  /\ native' = [native EXCEPT ![d].image = @ + 1,
                              ![d].imageIndex = IF ok THEN -1 ELSE @]

(***************************************************************************)
(* avifDecoderNextImage goes one frame on.  It fails at the end of the     *)
(* image and may fail anywhere on damaged input; the decoder then stays on *)
(* its frame.                                                              *)
(***************************************************************************)
avifDecoderNextImage(d, ok) ==
  LET next == native[d].imageIndex + 1
  IN  /\ ok => next \in FrameIndexes
      /\ next \in FrameIndexes => ok \/ Damaged
      /\ native' = IF ok THEN [native EXCEPT ![d].imageIndex = next] ELSE native

(***************************************************************************)
(* avifDecoderNthImage goes to frame i by way of its nearest key frame.    *)
(* When it fails on the way, the decoder may be left on any frame.         *)
(***************************************************************************)
avifDecoderNthImage(d, i, ok) ==
  \/ /\ ok
     /\ i \in FrameIndexes
     /\ native' = [native EXCEPT ![d].imageIndex = i]
  \/ /\ ~ok
     /\ i \in FrameIndexes => Damaged
     /\ \E k \in FrameIndexes \cup {-1} :
          native' = [native EXCEPT ![d].imageIndex = k]

==============================================================================
