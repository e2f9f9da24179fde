----------------------------- MODULE LibavifProofs -----------------------------
(***************************************************************************)
(* What each function of libavif does to the heap of native decoders.      *)
(***************************************************************************)
EXTENDS Libavif, TLAPS

(* What a function that moves a decoder leaves alone, and its type.        *)
SameHeap ==
  \A d \in Decoders :
    /\ native'[d].state = native[d].state
    /\ native'[d].io = native[d].io
    /\ native'[d].copied = native[d].copied

(* A decoder that is not allocated is a record of the heap.                *)
LEMMA UnallocatedType == Unallocated \in NativeDecoders
  BY LibavifAssumption DEF NativeDecoders, Unallocated

(* avifDecoderReset replaces the image of one decoder, and only that.      *)
LEMMA ResetKeepsHeap ==
  ASSUME native \in [Decoders -> NativeDecoders], NEW d \in Decoders,
         NEW ok \in BOOLEAN, avifDecoderReset(d, ok)
  PROVE  /\ native' \in [Decoders -> NativeDecoders]
         /\ SameHeap
         /\ \A e \in Decoders \ {d} : native'[e] = native[e]
<1> DEFINE i == IF ok THEN -1 ELSE native[d].imageIndex
           r == [native[d] EXCEPT !.image = @ + 1, !.imageIndex = i]
<1>1. native[d] \in NativeDecoders
  OBVIOUS
<1>2. r \in NativeDecoders
  <2>1. i \in FrameIndexes \cup {-1}
    BY <1>1 DEF NativeDecoders
  <2>2. native[d].image + 1 \in 0 .. MaxResets
    BY <1>1, LibavifAssumption DEF avifDecoderReset, NativeDecoders
  <2> HIDE DEF i
  <2> QED
    BY <1>1, <2>1, <2>2 DEF NativeDecoders
<1>3. native' = [native EXCEPT ![d] = r]
  BY <1>1 DEF avifDecoderReset, NativeDecoders
<1>4. /\ r.state = native[d].state
      /\ r.io = native[d].io
      /\ r.copied = native[d].copied
  BY <1>1 DEF NativeDecoders
<1> HIDE DEF r
<1> QED
  BY <1>2, <1>3, <1>4 DEF SameHeap

(* avifDecoderNextImage moves one decoder, and leaves its image alone.     *)
LEMMA NextImageKeepsHeap ==
  ASSUME native \in [Decoders -> NativeDecoders], NEW d \in Decoders,
         NEW ok \in BOOLEAN, avifDecoderNextImage(d, ok)
  PROVE  /\ native' \in [Decoders -> NativeDecoders]
         /\ SameHeap
         /\ \A e \in Decoders : native'[e].image = native[e].image
  BY LibavifAssumption
     DEF avifDecoderNextImage, NativeDecoders, SameHeap, FrameIndexes

(* avifDecoderNthImage moves one decoder, and leaves its image alone.      *)
LEMMA NthImageKeepsHeap ==
  ASSUME native \in [Decoders -> NativeDecoders], NEW d \in Decoders,
         NEW i \in Int, NEW ok \in BOOLEAN, avifDecoderNthImage(d, i, ok)
  PROVE  /\ native' \in [Decoders -> NativeDecoders]
         /\ SameHeap
         /\ \A e \in Decoders : native'[e].image = native[e].image
  BY LibavifAssumption
     DEF avifDecoderNthImage, NativeDecoders, SameHeap, FrameIndexes

(* avifDecoderCreate makes one decoder live.                               *)
LEMMA CreateMakesLive ==
  ASSUME native \in [Decoders -> NativeDecoders], NEW d \in Decoders,
         NEW a \in Arrays \cup {NoArray}, NEW c \in BOOLEAN, avifDecoderCreate(d, a, c)
  PROVE  /\ native' \in [Decoders -> NativeDecoders]
         /\ native'[d].state = "live" /\ native'[d].io = a /\ native'[d].copied = c
         /\ native'[d].image = 0 /\ native'[d].imageIndex = -1
         /\ \A e \in Decoders \ {d} : native'[e] = native[e]
<1> DEFINE r == [Unallocated EXCEPT !.state = "live", !.io = a, !.copied = c]
<1>1. /\ r \in NativeDecoders
      /\ r.state = "live" /\ r.io = a /\ r.copied = c
      /\ r.image = 0 /\ r.imageIndex = -1
  BY UnallocatedType DEF NativeDecoders, Unallocated
<1>2. native' = [native EXCEPT ![d] = r]
  BY DEF avifDecoderCreate
<1> HIDE DEF r
<1> QED
  BY <1>1, <1>2

(* avifDecoderDestroy frees one decoder.                                   *)
LEMMA DestroyFrees ==
  ASSUME native \in [Decoders -> NativeDecoders], NEW d \in Decoders,
         avifDecoderDestroy(d)
  PROVE  /\ native' \in [Decoders -> NativeDecoders]
         /\ native'[d].state = "destroyed" /\ native'[d].image = 0
         /\ \A e \in Decoders \ {d} : native'[e] = native[e]
<1> DEFINE r == [Unallocated EXCEPT !.state = "destroyed"]
<1>1. r \in NativeDecoders /\ r.state = "destroyed" /\ r.image = 0
  BY UnallocatedType DEF NativeDecoders, Unallocated
<1>2. native' = [native EXCEPT ![d] = r]
  BY DEF avifDecoderDestroy
<1> HIDE DEF r
<1> QED
  BY <1>1, <1>2
================================================================================
