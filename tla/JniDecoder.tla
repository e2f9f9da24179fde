------------------------------ MODULE JniDecoder ------------------------------
(***************************************************************************)
(* AvifDecoder and AvifFrame of jniMain (JVM desktop and Android): the     *)
(* Kotlin handle classes and the C++ entry points behind their external    *)
(* functions.                                                              *)
(*                                                                         *)
(* A Kotlin method reads the `context` field and passes its value to the   *)
(* native function.  Nothing synchronises the two, so they are two steps   *)
(* of the calling thread: Invoke, then the native function.  close() is    *)
(* three: read the field, clear it, destroy the native decoder.            *)
(*                                                                         *)
(* A native function that uses an invalid pointer has undefined behaviour. *)
(* The model records it in `faults` and stops there.  What the callers of  *)
(* the API must observe for that never to happen is the constant Promises. *)
(***************************************************************************)
EXTENDS Libavif

CONSTANTS
  Threads,     \* threads that call the API
  NoDecoder,   \* the object of a thread that is in no call
  Platform,    \* "jvm" or "android"
  Promises     \* what the callers observe, a subset of AllPromises

(***************************************************************************)
(* confined:   one call at a time on a decoder and its frames              *)
(* openOnly:   no method of a decoder is called after close()              *)
(* frameOpen:  no method of a frame is called after its decoder is closed  *)
(* freshFrame: no method of a frame is called after its decoder is reset   *)
(* keepBytes:  the array given to create() stays reachable until close(),  *)
(*             unless the decoder reads a copy of it                       *)
(***************************************************************************)
AllPromises == {"confined", "openOnly", "frameOpen", "freshFrame", "keepBytes"}

ASSUME JniAssumption ==
  /\ NoDecoder \notin Decoders
  /\ Platform \in {"jvm", "android"}
  /\ Promises \subseteq AllPromises

VARIABLES
  context,     \* the field AvifDecoder.context: "unset" before construction,
               \* "ptr" for the address of the native decoder, "null" for 0L
  held,        \* AvifDecoder objects that callers reference
  finalized,   \* AvifDecoder objects whose finalize() has run
  reported,    \* those that finalize() printed as leaked
  frames,      \* AvifFrame objects: the decoder and the avifImage they wrap
  elements,    \* decoders whose GetByteArrayElements buffer is not released
  bytesHeld,   \* arrays that callers reference
  collected,   \* arrays the garbage collector has reclaimed
  call,        \* the call each thread is in
  faults       \* undefined behaviour met so far

vars == <<native, context, held, finalized, reported, frames, elements,
          bytesHeld, collected, call, faults>>

handles == <<context, held, finalized, reported>>
memory == <<elements, bytesHeld, collected>>


(* avifImageJni.cpp and decodeFrame: the native functions of a frame.      *)
FrameOps == {"getSize", "decodeFrame"}

DecoderOps == {"reset", "nthFrame", "nextFrame", "getFrame", "get"}
Ops == DecoderOps \cup FrameOps \cup {"idle", "create", "close", "destroy"}

Frames == [of : Decoders, image : 0 .. MaxResets]

Calls == [op : Ops, on : Decoders \cup {NoDecoder},
          ptr : {"null", "ptr"}, image : 0 .. MaxResets]

Idle == [op |-> "idle", on |-> NoDecoder, ptr |-> "null", image |-> 0]

Call(o, d, p) == [Idle EXCEPT !.op = o, !.on = d, !.ptr = p]

FaultKinds == {"nullPointer", "useAfterDestroy", "doubleDestroy",
               "staleImage", "freedInput"}

Running == faults = {}
-------------------------------------------------------------------------------
(* What the callers promise before they start a call.                      *)
Confined(d) == "confined" \in Promises => \A u \in Threads : call[u].on # d

MayCall(d) ==
  /\ Confined(d)
  /\ "openOnly" \in Promises => context[d] = "ptr"

MayUseFrame(f) ==
  /\ Confined(f.of)
  /\ "frameOpen" \in Promises => context[f.of] = "ptr"
  /\ "freshFrame" \in Promises => f.image = native[f.of].image

MayForgetBytes(a) ==
  "keepBytes" \in Promises =>
    \A d \in Decoders : Live(d) /\ ~native[d].copied => native[d].io # a
-------------------------------------------------------------------------------
(* The memory the reader of decoder d points into has been reclaimed.      *)
InputFreed(d) == ~native[d].copied /\ native[d].io \in collected

ImageLive(d, image) == Live(d) /\ native[d].image = image

(* The undefined behaviour that thread t meets in the native function it   *)
(* is about to run.                                                        *)
CallFaults(t) ==
  LET c == call[t]
      Meets(f) ==
        \/ f = "nullPointer" /\ c.op \in DecoderOps /\ c.ptr = "null"
        \/ f = "useAfterDestroy" /\ c.op \in DecoderOps /\ c.ptr = "ptr" /\ ~Live(c.on)
        \/ f = "doubleDestroy" /\ c.op = "destroy" /\ ~Live(c.on)
        \/ f = "staleImage" /\ c.op \in FrameOps /\ ~ImageLive(c.on, c.image)
        \/ f = "freedInput" /\ c.op \in {"nextFrame", "nthFrame", "reset"}
             /\ c.ptr = "ptr" /\ Live(c.on) /\ InputFreed(c.on)
  IN  {f \in FaultKinds : Meets(f)}

Undefined(t) ==
  /\ Running
  /\ CallFaults(t) # {}
  /\ faults' = CallFaults(t)
  /\ UNCHANGED <<native, handles, frames, memory, call>>

(* Thread t is in the native function of op, with a pointer it may use.    *)
Enter(t, op) ==
  /\ Running
  /\ call[t].op = op
  /\ CallFaults(t) = {}

Begin(t, c) ==
  /\ Running
  /\ call[t] = Idle
  /\ call' = [call EXCEPT ![t] = c]

Return(t) == call' = [call EXCEPT ![t] = Idle]
-------------------------------------------------------------------------------
(***************************************************************************)
(* AvifDecoder.create.  The buffer of GetByteArrayElements is a copy on    *)
(* the desktop JVM; on Android it may be the array's own storage.          *)
(***************************************************************************)
createContext(t, d, bytes, isCopy) ==
  /\ bytes \in bytesHeld
  /\ native[d].state = "none"
  /\ Platform = "jvm" => isCopy
  /\ Begin(t, Call("create", d, "ptr"))
  /\ avifDecoderCreate(d, bytes, isCopy)
  /\ elements' = elements \cup {d}
  /\ UNCHANGED <<handles, frames, bytesHeld, collected, faults>>

(* Faulty variant of createOk: the object does not keep the address.       *)
createOkUnset(t) ==
  /\ Enter(t, "create")
  /\ Return(t)
  /\ held' = held \cup {call[t].on}
  /\ UNCHANGED <<native, context, finalized, reported, frames, memory, faults>>

(* The image is parsed: the Kotlin object is constructed and returned.     *)
createOk(t) ==
  LET d == call[t].on
  IN  /\ Enter(t, "create")
      /\ Return(t)
      /\ context' = [context EXCEPT ![d] = "ptr"]
      /\ held' = held \cup {d}
      /\ UNCHANGED <<native, finalized, reported, frames, memory, faults>>

(* Faulty variant of createFails: nothing is cleaned up.                   *)
createFailsWithoutCleanup(t) ==
  /\ Enter(t, "create")
  /\ Damaged
  /\ Return(t)
  /\ UNCHANGED <<native, handles, frames, memory, faults>>

(* Faulty variant of createFails: the pointer is returned all the same.    *)
createFailsReturnsPointer(t) ==
  LET d == call[t].on
  IN  /\ Enter(t, "create")
      /\ Damaged
      /\ Return(t)
      /\ avifDecoderDestroy(d)
      /\ context' = [context EXCEPT ![d] = "ptr"]
      /\ held' = held \cup {d}
      /\ UNCHANGED <<finalized, reported, frames, memory, faults>>

(* Reading or parsing fails: IllegalStateException is pending and the code *)
(* goes to cleanup.                                                        *)
createFails(t) ==
  /\ Enter(t, "create")
  /\ Damaged
  /\ Return(t)
  /\ avifDecoderDestroy(call[t].on)
  /\ UNCHANGED <<handles, frames, memory, faults>>

isAvifImage(t, bytes) ==
  /\ Running
  /\ call[t] = Idle
  /\ bytes \in bytesHeld
  /\ elements' = elements \cup {bytes}
  /\ UNCHANGED <<native, handles, frames, bytesHeld, collected, call, faults>>

(* A method of AvifDecoder reads `context` and calls its native function.  *)
Invoke(t, d, op) ==
  /\ d \in held
  /\ MayCall(d)
  /\ Begin(t, Call(op, d, context[d]))
  /\ UNCHANGED <<native, handles, frames, memory, faults>>

reset(t, ok) ==
  /\ Enter(t, "reset")
  /\ avifDecoderReset(call[t].on, ok)
  /\ Return(t)
  /\ UNCHANGED <<handles, frames, memory, faults>>

nthFrame(t, index, ok) ==
  /\ Enter(t, "nthFrame")
  /\ avifDecoderNthImage(call[t].on, index, ok)
  /\ Return(t)
  /\ UNCHANGED <<handles, frames, memory, faults>>

nextFrame(t, ok) ==
  /\ Enter(t, "nextFrame")
  /\ avifDecoderNextImage(call[t].on, ok)
  /\ Return(t)
  /\ UNCHANGED <<handles, frames, memory, faults>>

(* The pointer to decoder->image, wrapped in a new AvifFrame.              *)
getFrame(t) ==
  LET d == call[t].on
  IN  /\ Enter(t, "getFrame")
      /\ frames' = frames \cup {[of |-> d, image |-> native[d].image]}
      /\ Return(t)
      /\ UNCHANGED <<native, handles, memory, faults>>

(* getFrameIndex, getFrameCount, getFrameDurationMs, getAlphaPresent and   *)
(* getRepetitionCount read one field of the native decoder.                *)
getField(t) ==
  /\ Enter(t, "get")
  /\ Return(t)
  /\ UNCHANGED <<native, handles, frames, memory, faults>>
-------------------------------------------------------------------------------
(* close(): val contextToClose = context.                                  *)
close(t, d) ==
  /\ d \in held
  /\ Confined(d)
  /\ Begin(t, Call("close", d, context[d]))
  /\ UNCHANGED <<native, handles, frames, memory, faults>>

closeNothing(t) ==
  /\ Enter(t, "close")
  /\ call[t].ptr = "null"
  /\ Return(t)
  /\ UNCHANGED <<native, handles, frames, memory, faults>>

(* Faulty variant of clearContext: the field keeps the address.            *)
clearContextForgotten(t) ==
  /\ Enter(t, "close")
  /\ call[t].ptr # "null"
  /\ call' = [call EXCEPT ![t].op = "destroy"]
  /\ UNCHANGED <<native, handles, frames, memory, faults>>

(* if (contextToClose != 0L) context = 0L.                                 *)
clearContext(t) ==
  LET d == call[t].on
  IN  /\ Enter(t, "close")
      /\ call[t].ptr # "null"
      /\ context' = [context EXCEPT ![d] = "null"]
      /\ call' = [call EXCEPT ![t].op = "destroy"]
      /\ UNCHANGED <<native, held, finalized, reported, frames, memory, faults>>

(* destroyContext(contextToClose).                                         *)
destroyContext(t) ==
  /\ Enter(t, "destroy")
  /\ avifDecoderDestroy(call[t].on)
  /\ Return(t)
  /\ UNCHANGED <<handles, frames, memory, faults>>
-------------------------------------------------------------------------------
(* A method of AvifFrame passes the image pointer it was built with.       *)
invokeFrame(t, f, op) ==
  /\ MayUseFrame(f)
  /\ Begin(t, [Call(op, f.of, "ptr") EXCEPT !.image = f.image])
  /\ UNCHANGED <<native, handles, frames, memory, faults>>

(* getWidth, getHeight and getDepth read one field of the image.           *)
getSize(t) ==
  /\ Enter(t, "getSize")
  /\ Return(t)
  /\ UNCHANGED <<native, handles, frames, memory, faults>>

(***************************************************************************)
(* decodeFrame converts the image into the pixels of a bitmap.  The        *)
(* conversion fails, as an exception, when no frame was decoded yet.       *)
(***************************************************************************)
decodeFrame(t, ok) ==
  /\ Enter(t, "decodeFrame")
  /\ ok => native[call[t].on].imageIndex \in FrameIndexes
  /\ native[call[t].on].imageIndex \in FrameIndexes => ok \/ Damaged
  /\ Return(t)
  /\ UNCHANGED <<native, handles, frames, memory, faults>>
-------------------------------------------------------------------------------
(* The callers let go of a decoder; its memory is then up to finalize().   *)
dropDecoder(d) ==
  /\ Running
  /\ d \in held
  /\ \A t \in Threads : call[t].on # d
  /\ held' = held \ {d}
  /\ UNCHANGED <<native, context, finalized, reported, frames, memory, call, faults>>

(* Faulty variant of finalize: it does not look at the field.              *)
finalizeAlwaysReports(d) ==
  /\ Running
  /\ context[d] # "unset" /\ d \notin held \cup finalized
  /\ finalized' = finalized \cup {d}
  /\ reported' = reported \cup {d}
  /\ UNCHANGED <<native, context, held, frames, memory, call, faults>>

(* if (context != 0L) println("AvifDecoder($context) leaked!").            *)
finalize(d) ==
  /\ Running
  /\ context[d] # "unset" /\ d \notin held \cup finalized
  /\ finalized' = finalized \cup {d}
  /\ reported' = IF context[d] # "null" THEN reported \cup {d} ELSE reported
  /\ UNCHANGED <<native, context, held, frames, memory, call, faults>>

(* The callers let go of an array.                                         *)
dropBytes(a) ==
  /\ Running
  /\ a \in bytesHeld
  /\ MayForgetBytes(a)
  /\ bytesHeld' = bytesHeld \ {a}
  /\ UNCHANGED <<native, handles, frames, elements, collected, call, faults>>

(* The collector reclaims an array nobody references.  An array that is    *)
(* an argument of a running native call is referenced from its frame.      *)
collect(a) ==
  /\ Running
  /\ a \notin bytesHeld \cup collected
  /\ \A t \in Threads : call[t].op = "create" => native[call[t].on].io # a
  /\ collected' = collected \cup {a}
  /\ UNCHANGED <<native, handles, frames, elements, bytesHeld, call, faults>>
-------------------------------------------------------------------------------
Init ==
  /\ native = [d \in Decoders |-> Unallocated]
  /\ context = [d \in Decoders |-> "unset"]
  /\ held = {}
  /\ finalized = {}
  /\ reported = {}
  /\ frames = {}
  /\ elements = {}
  /\ bytesHeld = Arrays
  /\ collected = {}
  /\ call = [t \in Threads |-> Idle]
  /\ faults = {}

(* The steps of thread t inside the call it has started.                   *)
Proceed(t) ==
  \/ createOk(t) \/ createFails(t)
  \/ \E ok \in BOOLEAN :
       \/ reset(t, ok)
       \/ nextFrame(t, ok)
       \/ decodeFrame(t, ok)
       \/ \E i \in -1 .. FrameCount : nthFrame(t, i, ok)
  \/ getFrame(t) \/ getField(t) \/ getSize(t)
  \/ closeNothing(t) \/ clearContext(t) \/ destroyContext(t)
  \/ Undefined(t)

(* The calls that thread t may start.                                      *)
Start(t) ==
  \/ \E a \in Arrays : isAvifImage(t, a)
  \/ \E d \in Decoders :
       \/ \E a \in Arrays, isCopy \in BOOLEAN : createContext(t, d, a, isCopy)
       \/ \E op \in DecoderOps : Invoke(t, d, op)
       \/ close(t, d)
  \/ \E f \in frames, op \in FrameOps : invokeFrame(t, f, op)

Collector ==
  \/ \E d \in Decoders : dropDecoder(d) \/ finalize(d)
  \/ \E a \in Arrays : dropBytes(a) \/ collect(a)

Next == (\E t \in Threads : Start(t) \/ Proceed(t)) \/ Collector

Spec == Init /\ [][Next]_vars
-------------------------------------------------------------------------------
(* The type of every variable.                                             *)
TypeOK ==
  /\ native \in [Decoders -> NativeDecoders]
  /\ context \in [Decoders -> {"unset", "ptr", "null"}]
  /\ held \subseteq Decoders
  /\ finalized \subseteq Decoders
  /\ reported \subseteq Decoders
  /\ frames \subseteq Frames
  /\ elements \subseteq Decoders \cup Arrays
  /\ bytesHeld \subseteq Arrays
  /\ collected \subseteq Arrays
  /\ call \in [Threads -> Calls]
  /\ faults \subseteq FaultKinds

(***************************************************************************)
(* A non-zero `context` is the address of a live native decoder, in every  *)
(* interleaving of any calls: close() clears the field before it destroys  *)
(* the decoder, and a failed createContext() never yields an object.       *)
(***************************************************************************)
HandleValid == \A d \in Decoders : context[d] = "ptr" => Live(d)

(***************************************************************************)
(* A live native decoder is reachable from its Kotlin object, or a thread  *)
(* is in the create() or the close() that will hand it over or destroy it: *)
(* no path, the failing ones included, strands one.                        *)
(***************************************************************************)
NoOrphan ==
  \A d \in Decoders : Live(d) =>
    \/ context[d] = "ptr"
    \/ \E t \in Threads : call[t].on = d /\ call[t].op \in {"create", "destroy"}

(***************************************************************************)
(* finalize() tells the truth: of the objects it has seen, it printed      *)
(* "leaked!" for exactly those whose native decoder is still allocated.    *)
(***************************************************************************)
LeakReportExact == \A d \in finalized : d \in reported <=> Live(d)

(* No native function ever meets undefined behaviour: callers may close a  *)
(* decoder again and again, but each native decoder is destroyed once.     *)
NoFault == faults = {}

(* No frame is used after the avifImage it wraps has gone.                 *)
FramesValid == "staleImage" \notin faults

(* The decoder decodes from memory that still holds the encoded image.     *)
InputValid == "freedInput" \notin faults

===============================================================================
