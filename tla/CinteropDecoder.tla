--------------------------- MODULE CinteropDecoder ---------------------------
(***************************************************************************)
(* AvifDecoder and AvifFrame of nativeMain: the cinterop binding for iOS   *)
(* and macOS.                                                              *)
(*                                                                         *)
(* The object keeps the address of the native decoder in a `val`: close()  *)
(* destroys the decoder and does not say so in the object, and there is no *)
(* finalizer.  create() pins the array in its memScope; the decoder keeps  *)
(* the pointer, the pin ends with create().                                *)
(*                                                                         *)
(* A call is two steps of its thread, because another thread may destroy   *)
(* the decoder while it runs.  Callers may do anything; `broken` remembers *)
(* which of the promises below they did not keep.  Undefined behaviour is  *)
(* recorded in `faults` and ends the behaviour.                            *)
(***************************************************************************)
EXTENDS Libavif

CONSTANTS
  Threads,     \* threads that call the API
  NoDecoder    \* the object of a thread that is in no call

(***************************************************************************)
(* confined:   one call at a time on a decoder and its frames              *)
(* closeOnce:  close() is called once                                      *)
(* openOnly:   no other method of a decoder or of its frames is called     *)
(*             after close()                                               *)
(* freshFrame: no method of a frame is called after its decoder is reset   *)
(* keepBytes:  the array given to create() stays reachable until close()   *)
(***************************************************************************)
Promises == {"confined", "closeOnce", "openOnly", "freshFrame", "keepBytes"}

ASSUME CinteropAssumption ==
  NoDecoder \notin Decoders

VARIABLES
  objects,    \* decoders whose Kotlin object exists
  closed,     \* decoders on which close() has been called
  frames,     \* AvifFrame objects: the decoder and the avifImage they wrap
  pinned,     \* the array that each thread pins
  bytesHeld,  \* arrays that callers reference
  collected,  \* arrays the garbage collector has reclaimed
  call,       \* the call each thread is in
  broken,     \* promises that callers have broken
  faults      \* undefined behaviour met so far

vars == <<native, objects, closed, frames, pinned, bytesHeld, collected, call, broken, faults>>
arrays == <<pinned, bytesHeld, collected>>

DecodeOps == {"reset", "nthFrame", "nextFrame"}
DecoderOps == DecodeOps \cup {"getFrame", "get"}
FrameOps == {"getSize", "decodeFrame"}
Ops == DecoderOps \cup FrameOps \cup {"idle", "isAvifImage", "create", "close"}

Idle == [op |-> "idle", on |-> NoDecoder, image |-> 0]

FaultKinds == {"useAfterDestroy", "doubleDestroy", "staleImage", "freedInput"}

Running == faults = {}
-------------------------------------------------------------------------------
(* The promises that the call breaks which a thread is about to start.     *)
Breaks(promise, condition) == IF condition THEN {promise} ELSE {}

Overlaps(d) == Breaks("confined", \E u \in Threads : call[u].on = d)
AfterClose(d) == Breaks("openOnly", d \in closed)
StaleFrame(f) == Breaks("freshFrame", f.image # native[f.of].image)
-------------------------------------------------------------------------------
(* The array a decoder reads has been reclaimed.                           *)
InputFreed(d) == native[d].io \in collected

(* The undefined behaviour that the call of thread t meets in libavif.     *)
CallFaults(t) ==
  LET c == call[t]
      Meets(f) ==
        \/ f = "useAfterDestroy" /\ c.op \in DecoderOps /\ ~Live(c.on)
        \/ f = "doubleDestroy" /\ c.op = "close" /\ ~Live(c.on)
        \/ f = "staleImage" /\ c.op \in FrameOps
             /\ ~(Live(c.on) /\ native[c.on].image = c.image)
        \/ f = "freedInput" /\ c.op \in DecodeOps \cup {"create"}
             /\ Live(c.on) /\ InputFreed(c.on)
        \/ f = "freedInput" /\ c.op = "isAvifImage" /\ pinned[t] \in collected
  IN  {f \in FaultKinds : Meets(f)}

Undefined(t) ==
  /\ Running
  /\ CallFaults(t) # {}
  /\ faults' = CallFaults(t)
  /\ UNCHANGED <<native, objects, closed, frames, arrays, call, broken>>

Begin(t, c) ==
  /\ Running
  /\ call[t] = Idle
  /\ call' = [call EXCEPT ![t] = c]

(* The call of thread t does its work and returns.                         *)
Finish(t, op) ==
  /\ Running
  /\ call[t].op = op
  /\ CallFaults(t) = {}
  /\ call' = [call EXCEPT ![t] = Idle]
-------------------------------------------------------------------------------
isAvifImage(t, bytes) ==
  /\ bytes \in bytesHeld
  /\ Begin(t, [Idle EXCEPT !.op = "isAvifImage"])
  /\ pinned' = [pinned EXCEPT ![t] = bytes]
  /\ UNCHANGED <<native, objects, closed, frames, bytesHeld, collected, broken, faults>>

(* avifPeekCompatibleFileType has read the array, which is unpinned.       *)
returnIsAvif(t) ==
  /\ Finish(t, "isAvifImage")
  /\ pinned' = [pinned EXCEPT ![t] = NoArray]
  /\ UNCHANGED <<native, objects, closed, frames, bytesHeld, collected, broken, faults>>

(* An array of no bytes: refTo(0) throws when its pointer is taken, after  *)
(* avifDecoderCreate, and nothing destroys that decoder.                   *)
createFromEmpty(t, d) ==
  /\ Running
  /\ call[t] = Idle
  /\ native[d].state = "none"
  /\ avifDecoderCreate(d, NoArray, FALSE)
  /\ UNCHANGED <<objects, closed, frames, arrays, call, broken, faults>>

(* Faulty variant of create: the array is not pinned.                      *)
createUnpinned(t, d, bytes) ==
  /\ bytes \in bytesHeld
  /\ native[d].state = "none"
  /\ Begin(t, [Idle EXCEPT !.op = "create", !.on = d])
  /\ avifDecoderCreate(d, bytes, FALSE)
  /\ UNCHANGED <<objects, closed, frames, arrays, broken, faults>>

(* avifDecoderCreate and avifDecoderSetIOMemory on the pinned array.       *)
create(t, d, bytes) ==
  /\ bytes \in bytesHeld
  /\ native[d].state = "none"
  /\ Begin(t, [Idle EXCEPT !.op = "create", !.on = d])
  /\ avifDecoderCreate(d, bytes, FALSE)
  /\ pinned' = [pinned EXCEPT ![t] = bytes]
  /\ UNCHANGED <<objects, closed, frames, bytesHeld, collected, broken, faults>>

Unpin(t) == pinned' = [pinned EXCEPT ![t] = NoArray]

(* avifDecoderParse succeeds; leaving memScoped unpins the array.          *)
createOk(t) ==
  /\ Finish(t, "create")
  /\ Unpin(t)
  /\ objects' = objects \cup {call[t].on}
  /\ UNCHANGED <<native, closed, frames, bytesHeld, collected, broken, faults>>

(* Faulty variant of createFails: error() before the decoder is destroyed. *)
createFailsEarly(t) ==
  /\ Finish(t, "create")
  /\ Damaged
  /\ Unpin(t)
  /\ UNCHANGED <<native, objects, closed, frames, bytesHeld, collected, broken, faults>>

(* Faulty variant of createFails: the object is returned all the same.     *)
createFailsReturns(t) ==
  /\ Finish(t, "create")
  /\ Damaged
  /\ Unpin(t)
  /\ avifDecoderDestroy(call[t].on)
  /\ objects' = objects \cup {call[t].on}
  /\ UNCHANGED <<closed, frames, bytesHeld, collected, broken, faults>>

(* Faulty variant of createFails: close() of an object not yet there.      *)
createFailsClosing(t) ==
  /\ Finish(t, "create")
  /\ Damaged
  /\ Unpin(t)
  /\ avifDecoderDestroy(call[t].on)
  /\ closed' = closed \cup {call[t].on}
  /\ UNCHANGED <<objects, frames, bytesHeld, collected, broken, faults>>

(* avifDecoderParse fails.                                                 *)
createFails(t) ==
  /\ Finish(t, "create")
  /\ Damaged
  /\ Unpin(t)
  /\ avifDecoderDestroy(call[t].on)
  /\ UNCHANGED <<objects, closed, frames, bytesHeld, collected, broken, faults>>

invoke(t, d, op) ==
  /\ d \in objects
  /\ Begin(t, [Idle EXCEPT !.op = op, !.on = d])
  /\ broken' = broken \cup Overlaps(d) \cup AfterClose(d)
  /\ UNCHANGED <<native, objects, closed, frames, arrays, faults>>

reset(t, ok) ==
  /\ Finish(t, "reset")
  /\ avifDecoderReset(call[t].on, ok)
  /\ UNCHANGED <<objects, closed, frames, arrays, broken, faults>>

nthFrame(t, index, ok) ==
  /\ Finish(t, "nthFrame")
  /\ avifDecoderNthImage(call[t].on, index, ok)
  /\ UNCHANGED <<objects, closed, frames, arrays, broken, faults>>

nextFrame(t, ok) ==
  /\ Finish(t, "nextFrame")
  /\ avifDecoderNextImage(call[t].on, ok)
  /\ UNCHANGED <<objects, closed, frames, arrays, broken, faults>>

(* requireNotNull(decoder.image), wrapped in a new AvifFrame.              *)
getFrame(t) ==
  /\ Finish(t, "getFrame")
  /\ frames' = frames \cup {[of |-> call[t].on, image |-> native[call[t].on].image]}
  /\ UNCHANGED <<native, objects, closed, arrays, broken, faults>>

(* The getters of the decoder read one field of it.                        *)
getField(t) ==
  /\ Finish(t, "get")
  /\ UNCHANGED <<native, objects, closed, frames, arrays, broken, faults>>

invokeFrame(t, f, op) ==
  /\ Begin(t, [op |-> op, on |-> f.of, image |-> f.image])
  /\ broken' = broken \cup Overlaps(f.of) \cup AfterClose(f.of) \cup StaleFrame(f)
  /\ UNCHANGED <<native, objects, closed, frames, arrays, faults>>

(* The getters of the frame, and decodeFrame (FrameDecode has its steps).  *)
returnFrame(t, op) ==
  /\ Finish(t, op)
  /\ UNCHANGED <<native, objects, closed, frames, arrays, broken, faults>>

close(t, d) ==
  /\ d \in objects
  /\ Begin(t, [Idle EXCEPT !.op = "close", !.on = d])
  /\ closed' = closed \cup {d}
  /\ broken' = broken \cup Overlaps(d) \cup Breaks("closeOnce", d \in closed)
  /\ UNCHANGED <<native, objects, frames, arrays, faults>>

(* avifDecoderDestroy(decoderPtr), whatever was called before.             *)
destroy(t) ==
  /\ Finish(t, "close")
  /\ avifDecoderDestroy(call[t].on)
  /\ UNCHANGED <<objects, closed, frames, arrays, broken, faults>>
-------------------------------------------------------------------------------
dropBytes(a) ==
  /\ Running
  /\ a \in bytesHeld
  /\ bytesHeld' = bytesHeld \ {a}
  /\ broken' = broken \cup
       Breaks("keepBytes", \E d \in Decoders : Live(d) /\ native[d].io = a)
  /\ UNCHANGED <<native, objects, closed, frames, pinned, collected, call, faults>>

(* An array that is pinned is not reclaimed.                               *)
collect(a) ==
  /\ Running
  /\ a \notin bytesHeld \cup collected
  /\ \A t \in Threads : pinned[t] # a
  /\ collected' = collected \cup {a}
  /\ UNCHANGED <<native, objects, closed, frames, pinned, bytesHeld, call, broken, faults>>

Init ==
  /\ native = [d \in Decoders |-> Unallocated]
  /\ objects = {}
  /\ closed = {}
  /\ frames = {}
  /\ pinned = [t \in Threads |-> NoArray]
  /\ bytesHeld = Arrays
  /\ collected = {}
  /\ call = [t \in Threads |-> Idle]
  /\ broken = {}
  /\ faults = {}

Step(t) ==
  \/ \E a \in Arrays : isAvifImage(t, a)
  \/ returnIsAvif(t)
  \/ \E d \in Decoders :
       \/ createFromEmpty(t, d)
       \/ \E a \in Arrays : create(t, d, a)
       \/ \E op \in DecoderOps : invoke(t, d, op)
       \/ close(t, d)
  \/ \E f \in frames, op \in FrameOps : invokeFrame(t, f, op)
  \/ createOk(t) \/ createFails(t)
  \/ \E ok \in BOOLEAN :
       \/ reset(t, ok) \/ nextFrame(t, ok)
       \/ \E i \in -1 .. FrameCount : nthFrame(t, i, ok)
  \/ getFrame(t) \/ getField(t) \/ destroy(t)
  \/ \E op \in FrameOps : returnFrame(t, op)
  \/ Undefined(t)

Next ==
  \/ \E t \in Threads : Step(t)
  \/ \E a \in Arrays : dropBytes(a) \/ collect(a)

Spec == Init /\ [][Next]_vars
-------------------------------------------------------------------------------
(* The type of every variable.                                             *)
TypeOK ==
  /\ native \in [Decoders -> NativeDecoders]
  /\ objects \subseteq Decoders
  /\ closed \subseteq objects
  /\ frames \subseteq [of : Decoders, image : 0 .. MaxResets]
  /\ pinned \in [Threads -> Arrays \cup {NoArray}]
  /\ bytesHeld \subseteq Arrays
  /\ collected \subseteq Arrays
  /\ call \in [Threads -> [op : Ops, on : Decoders \cup {NoDecoder},
                           image : 0 .. MaxResets]]
  /\ broken \subseteq Promises
  /\ faults \subseteq FaultKinds

(***************************************************************************)
(* Until close() is called, the decoder of an object is live; afterwards   *)
(* it is not, once no close() runs any more.  Nothing is live without an   *)
(* object, except in create() and where create() was given no bytes: that  *)
(* decoder is stranded before it has an input.                             *)
(***************************************************************************)
LifetimeExact ==
  \A d \in Decoders :
    LET In(op) == \E t \in Threads : call[t].on = d /\ call[t].op = op
    IN  /\ d \in objects \ closed => Live(d)
        /\ Live(d) /\ native[d].io # NoArray => d \in objects \/ In("create")
        /\ d \in closed /\ Live(d) => In("close")

(***************************************************************************)
(* Undefined behaviour has a cause among the promises: as long as callers  *)
(* keep those that guard against a fault, it does not happen, whatever     *)
(* else they do.                                                           *)
(***************************************************************************)
Guards ==
  [useAfterDestroy |-> {"confined", "openOnly"},
   doubleDestroy   |-> {"confined", "closeOnce"},
   staleImage      |-> {"confined", "openOnly", "freshFrame"},
   freedInput      |-> {"keepBytes"}]

FaultsGuarded == \A f \in faults : Guards[f] \cap broken # {}

(* The array is not reclaimed while create() parses it or isAvifImage()    *)
(* looks at it, whatever the callers forget: the pin covers the whole call.*)
ParsesPinnedInput ==
  \A t \in Threads :
    /\ call[t].op = "create" => ~InputFreed(call[t].on)
    /\ call[t].op = "isAvifImage" => pinned[t] \notin collected

===============================================================================
