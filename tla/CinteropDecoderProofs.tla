------------------------- MODULE CinteropDecoderProofs -------------------------
(***************************************************************************)
(* The safety of CinteropDecoder for every set of threads, decoders and    *)
(* arrays, every number of frames and of resets, and callers that may      *)
(* break any promise.                                                      *)
(***************************************************************************)
EXTENDS CinteropDecoder, LibavifProofs, TLAPS

CallTypes ==
  [op : Ops, on : Decoders \cup {NoDecoder}, image : 0 .. MaxResets]

(***************************************************************************)
(* What a call in progress works on.  The decoder that create() makes is   *)
(* its own: it has no object yet, and it reads the array that is pinned.   *)
(***************************************************************************)
CallsWellFormed ==
  \A t \in Threads :
    LET c == call[t]
    IN  /\ c.op = "idle" => c = Idle
        /\ c.op \in {"idle", "isAvifImage"} => c.on = NoDecoder
        /\ c.op = "isAvifImage" => pinned[t] \in Arrays
        /\ c.op = "create" =>
             /\ c.on \in Decoders \ objects /\ Live(c.on)
             /\ native[c.on].io = pinned[t] /\ pinned[t] \in Arrays
        /\ c.op \in DecoderOps \cup FrameOps => c.on \in objects
        /\ c.op = "close" => c.on \in closed

OneCreator ==
  \A t, u \in Threads :
    call[t].op = "create" /\ call[u].op = "create" /\ call[t].on = call[u].on => t = u

(* An object, and so each of its frames, has had a native decoder.         *)
ObjectsCreated ==
  /\ \A d \in objects : native[d].state # "none"
  /\ \A f \in frames : f.of \in objects

(* The collector reclaims neither an array that is pinned nor a held one.  *)
PinnedKept ==
  /\ bytesHeld \cap collected = {}
  /\ \A t \in Threads : pinned[t] \notin collected

LifeInv ==
  /\ TypeOK
  /\ CallsWellFormed /\ OneCreator /\ ObjectsCreated /\ PinnedKept
  /\ LifetimeExact

(* Calls on one decoder at the same time break a promise.                  *)
OverlapsTold ==
  \A t, u \in Threads :
    t # u /\ call[t].on = call[u].on /\ call[t].on # NoDecoder => "confined" \in broken

(***************************************************************************)
(* What would make the call of a thread undefined has broken one of the    *)
(* promises that guard against it, already while the call runs.            *)
(***************************************************************************)
CallsGuarded ==
  \A t \in Threads :
    LET c == call[t]
    IN  /\ c.op \in DecoderOps /\ c.on \in closed
             => Guards.useAfterDestroy \cap broken # {}
        /\ c.op = "close" /\ ~Live(c.on)
             => Guards.doubleDestroy \cap broken # {}
        /\ c.op \in FrameOps /\ (c.on \in closed \/ native[c.on].image # c.image)
             => Guards.staleImage \cap broken # {}

(* An array that a live decoder reads is held, or a promise is broken.     *)
InputGuarded ==
  \A d \in Decoders :
    Live(d) /\ native[d].io \in Arrays \ bytesHeld => "keepBytes" \in broken

GuardInv == LifeInv /\ OverlapsTold /\ CallsGuarded /\ InputGuarded /\ FaultsGuarded
-------------------------------------------------------------------------------
(* Calls.                                                                  *)

(* A thread in no call, and the calls that a thread may start.             *)
LEMMA CallType ==
  /\ Idle \in CallTypes
  /\ [Idle EXCEPT !.op = "isAvifImage"] \in CallTypes
  /\ [Idle EXCEPT !.op = "isAvifImage"].op = "isAvifImage"
  /\ [Idle EXCEPT !.op = "isAvifImage"].on = NoDecoder
  /\ \A o \in Ops, d \in Decoders :
       LET c == [Idle EXCEPT !.op = o, !.on = d]
       IN  c \in CallTypes /\ c.op = o /\ c.on = d
<1>1. Idle \in CallTypes /\ Idle.on = NoDecoder
  BY LibavifAssumption DEF Idle, CallTypes, Ops
<1>2. "isAvifImage" \in Ops
  BY DEF Ops
<1> QED
  BY <1>1, <1>2 DEF CallTypes

(* A thread that begins a call was in none.                                *)
LEMMA BeginCall ==
  ASSUME TypeOK, NEW t \in Threads, NEW c \in CallTypes, Begin(t, c)
  PROVE  /\ faults = {} /\ call[t] = Idle
         /\ call' \in [Threads -> CallTypes]
         /\ call'[t] = c /\ \A u \in Threads \ {t} : call'[u] = call[u]
  BY DEF Begin, TypeOK, CallTypes, Running

(* A thread that returns from a native function has met no fault in it.    *)
LEMMA FinishCall ==
  ASSUME TypeOK, NEW t \in Threads, NEW op \in Ops, Finish(t, op)
  PROVE  /\ faults = {} /\ call[t].op = op /\ call[t] \in CallTypes
         /\ op \in DecoderOps \cup {"close"} => Live(call[t].on)
         /\ call' \in [Threads -> CallTypes]
         /\ call'[t] = Idle /\ \A u \in Threads \ {t} : call'[u] = call[u]
<1>1. "useAfterDestroy" \notin CallFaults(t) /\ "doubleDestroy" \notin CallFaults(t)
  BY DEF Finish
<1>2. op \in DecoderOps \cup {"close"} => Live(call[t].on)
  BY <1>1 DEF Finish, CallFaults, FaultKinds
<1> QED
  BY <1>2, CallType DEF Finish, TypeOK, CallTypes, Running
-------------------------------------------------------------------------------
(* LifeInv: the steps that neither make nor destroy a decoder.             *)

(***************************************************************************)
(* No thread enters or leaves create() or close(); decoders at most move.  *)
(***************************************************************************)
Bystander ==
  /\ SameHeap
  /\ UNCHANGED <<objects, closed>>
  /\ \A f \in frames' : f.of \in objects
  /\ \A t \in Threads :
       \/ call'[t] = call[t] /\ pinned'[t] = pinned[t]
       \/ call[t].op \notin {"create", "close"} /\ call'[t] = Idle
       \/ /\ call[t] = Idle /\ call'[t].op \in DecoderOps \cup FrameOps
          /\ call'[t].on \in objects
       \/ /\ call[t] = Idle /\ call'[t].op = "isAvifImage" /\ call'[t].on = NoDecoder
          /\ pinned'[t] \in Arrays

(* A bystander's step keeps the invariant.                                 *)
LEMMA BystanderStep ==
  ASSUME LifeInv, Bystander, TypeOK', PinnedKept'
  PROVE  LifeInv'
<1> USE DEF LifeInv, Bystander, SameHeap
<1>1. CallsWellFormed'
  BY DEF CallsWellFormed, Live, Idle, TypeOK, FrameOps, DecoderOps, DecodeOps
<1>2. OneCreator'
  BY DEF OneCreator, Idle, FrameOps, DecoderOps, DecodeOps
<1>3. ObjectsCreated'
  BY DEF ObjectsCreated, TypeOK
<1>4. LifetimeExact'
  BY DEF LifetimeExact, Live, Idle
<1> QED
  BY <1>1, <1>2, <1>3, <1>4

(* isAvifImage pins an array that is held.                                 *)
LEMMA isAvifImageStep ==
  ASSUME LifeInv, NEW t \in Threads, NEW a \in Arrays, isAvifImage(t, a)
  PROVE  LifeInv'
<1> DEFINE c == [Idle EXCEPT !.op = "isAvifImage"]
<1>1. /\ c \in CallTypes /\ c.op = "isAvifImage" /\ c.on = NoDecoder
      /\ Begin(t, c)
      /\ a \in bytesHeld /\ pinned' = [pinned EXCEPT ![t] = a]
      /\ UNCHANGED <<native, objects, closed, frames, bytesHeld, collected, broken, faults>>
  BY CallType DEF isAvifImage
<1> HIDE DEF c
<1>2. /\ call[t] = Idle /\ call'[t] = c
      /\ call' \in [Threads -> CallTypes]
      /\ \A u \in Threads \ {t} : call'[u] = call[u]
  BY <1>1, BeginCall DEF LifeInv
<1>3. TypeOK'
  BY <1>1, <1>2 DEF LifeInv, TypeOK, CallTypes
<1>4. PinnedKept'
  BY <1>1 DEF LifeInv, TypeOK, PinnedKept
<1>5. Bystander
  BY <1>1, <1>2 DEF LifeInv, TypeOK, ObjectsCreated, Bystander, SameHeap
<1> QED
  BY <1>3, <1>4, <1>5, BystanderStep

(* Methods of a decoder and of a frame begin on a decoder with an object.  *)
LEMMA InvokeStep ==
  ASSUME LifeInv, NEW t \in Threads, NEW c \in CallTypes, Begin(t, c),
         c.op \in DecoderOps \cup FrameOps, c.on \in objects,
         broken' \subseteq Promises,
         UNCHANGED <<native, objects, closed, frames, arrays, faults>>
  PROVE  LifeInv'
<1>1. /\ call[t] = Idle /\ call'[t] = c
      /\ call' \in [Threads -> CallTypes]
      /\ \A u \in Threads \ {t} : call'[u] = call[u]
  BY BeginCall DEF LifeInv
<1>2. TypeOK'
  BY <1>1 DEF LifeInv, TypeOK, CallTypes, arrays
<1>3. PinnedKept'
  BY DEF LifeInv, PinnedKept, arrays
<1>4. Bystander
  BY <1>1 DEF LifeInv, TypeOK, ObjectsCreated, Bystander, SameHeap, arrays
<1> QED
  BY <1>2, <1>3, <1>4, BystanderStep

(* A native function returns that at most moves its decoder, makes a frame *)
(* of a decoder with an object, or unpins the array of its thread.         *)
LEMMA ReturnStep ==
  ASSUME LifeInv, NEW t \in Threads, NEW op \in Ops \ {"create", "close"}, Finish(t, op),
         native' \in [Decoders -> NativeDecoders], SameHeap,
         frames' \subseteq [of : objects, image : 0 .. MaxResets],
         pinned' \in {pinned, [pinned EXCEPT ![t] = NoArray]},
         UNCHANGED <<objects, closed, bytesHeld, collected, broken, faults>>
  PROVE  LifeInv'
<1>1. /\ call[t].op = op /\ call'[t] = Idle
      /\ call' \in [Threads -> CallTypes]
      /\ \A u \in Threads \ {t} : call'[u] = call[u]
  BY FinishCall DEF LifeInv
<1>2. TypeOK'
  BY <1>1 DEF LifeInv, TypeOK, CallTypes
<1>3. PinnedKept'
  BY LibavifAssumption DEF LifeInv, TypeOK, PinnedKept
<1>4. \A u \in Threads \ {t} : pinned'[u] = pinned[u]
  BY DEF LifeInv, TypeOK
<1>5. Bystander
  BY <1>1, <1>4 DEF LifeInv, TypeOK, Bystander
<1> QED
  BY <1>2, <1>3, <1>5, BystanderStep

(* Steps of the collector, undefined behaviour: no call changes.           *)
LEMMA NoCallStep ==
  ASSUME LifeInv, UNCHANGED <<native, objects, closed, frames, pinned, call>>,
         bytesHeld' \subseteq Arrays, collected' \subseteq Arrays,
         broken' \subseteq Promises, faults' \subseteq FaultKinds, PinnedKept'
  PROVE  LifeInv'
<1>1. TypeOK'
  BY DEF LifeInv, TypeOK
<1>2. Bystander
  BY DEF LifeInv, TypeOK, ObjectsCreated, Bystander, SameHeap
<1> QED
  BY <1>1, <1>2, BystanderStep
-------------------------------------------------------------------------------
(* LifeInv: the steps that make and destroy decoders and objects.          *)

(* create() makes a decoder live that only its thread knows of.            *)
LEMMA createStep ==
  ASSUME LifeInv, NEW t \in Threads, NEW d \in Decoders, NEW a \in Arrays, create(t, d, a)
  PROVE  LifeInv'
<1> DEFINE c == [Idle EXCEPT !.op = "create", !.on = d]
<1>1. /\ c \in CallTypes /\ c.op = "create" /\ c.on = d
      /\ Begin(t, c)
      /\ a \in bytesHeld /\ native[d].state = "none"
      /\ avifDecoderCreate(d, a, FALSE)
      /\ pinned' = [pinned EXCEPT ![t] = a]
      /\ UNCHANGED <<objects, closed, frames, bytesHeld, collected, broken, faults>>
  BY CallType DEF create, Ops
<1> HIDE DEF c
<1>2. /\ call[t] = Idle /\ call'[t] = c
      /\ call' \in [Threads -> CallTypes]
      /\ \A u \in Threads \ {t} : call'[u] = call[u]
  BY <1>1, BeginCall DEF LifeInv
<1>3. /\ native' \in [Decoders -> NativeDecoders]
      /\ native'[d].state = "live" /\ native'[d].io = a
      /\ \A e \in Decoders \ {d} : native'[e] = native[e]
  BY <1>1, CreateMakesLive DEF LifeInv, TypeOK
<1>4. d \notin objects
  BY <1>1 DEF LifeInv, ObjectsCreated
<1>5. \A u \in Threads : call[u].on # d
  BY <1>1, <1>4, CinteropAssumption
     DEF LifeInv, TypeOK, CallsWellFormed, Live, Ops, DecoderOps, FrameOps
<1> USE DEF LifeInv
<1>6. TypeOK'
  BY <1>1, <1>2, <1>3 DEF TypeOK, CallTypes
<1>7. PinnedKept'
  BY <1>1 DEF TypeOK, PinnedKept
<1>8. CallsWellFormed'
  <2> SUFFICES ASSUME NEW u \in Threads
               PROVE  CallsWellFormed!(u)'
    BY DEF CallsWellFormed
  <2>1. CASE u = t
    BY <1>1, <1>2, <1>3, <1>4, <2>1 DEF Live, TypeOK, DecoderOps, FrameOps, DecodeOps
  <2>2. CASE u # t
    BY <1>1, <1>2, <1>3, <1>5, <2>2 DEF CallsWellFormed, Live, TypeOK
  <2> QED
    BY <2>1, <2>2
<1>9. OneCreator'
  BY <1>1, <1>2, <1>5 DEF OneCreator
<1>10. ObjectsCreated'
  BY <1>1, <1>3, <1>4 DEF ObjectsCreated, TypeOK
<1>11. LifetimeExact'
  <2> SUFFICES ASSUME NEW e \in Decoders
               PROVE  LifetimeExact!(e)'
    BY DEF LifetimeExact
  <2>1. CASE e = d
    BY <1>1, <1>2, <1>4, <2>1 DEF TypeOK
  <2>2. CASE e # d
    BY <1>1, <1>2, <1>3, <2>2 DEF LifetimeExact, Live, Idle
  <2> QED
    BY <2>1, <2>2
<1> QED
  BY <1>6, <1>7, <1>8, <1>9, <1>10, <1>11

(* create() of no bytes makes a decoder live that nobody knows of.         *)
LEMMA createFromEmptyStep ==
  ASSUME LifeInv, NEW t \in Threads, NEW d \in Decoders, createFromEmpty(t, d)
  PROVE  LifeInv'
<1>1. /\ native' \in [Decoders -> NativeDecoders]
      /\ native'[d].state = "live" /\ native'[d].io = NoArray
      /\ \A e \in Decoders \ {d} : native'[e] = native[e]
  BY CreateMakesLive DEF LifeInv, TypeOK, createFromEmpty
<1>2. /\ native[d].state = "none"
      /\ UNCHANGED <<objects, closed, frames, pinned, bytesHeld, collected, call, broken, faults>>
  BY DEF createFromEmpty, arrays
<1>3. d \notin objects
  BY <1>2 DEF LifeInv, ObjectsCreated
<1> USE DEF LifeInv
<1>4. TypeOK' /\ PinnedKept' /\ OneCreator'
  BY <1>1, <1>2 DEF TypeOK, PinnedKept, OneCreator
<1>5. CallsWellFormed'
  BY <1>1, <1>2 DEF CallsWellFormed, Live
<1>6. ObjectsCreated'
  BY <1>1, <1>2, <1>3 DEF ObjectsCreated, TypeOK
<1>7. LifetimeExact'
  BY <1>1, <1>2, <1>3 DEF LifetimeExact, Live, TypeOK
<1> QED
  BY <1>4, <1>5, <1>6, <1>7

(* The object takes over the decoder that its thread has made.             *)
LEMMA createOkStep ==
  ASSUME LifeInv, NEW t \in Threads, createOk(t)
  PROVE  LifeInv'
<1> DEFINE d == call[t].on
<1>1. /\ call[t].op = "create"
      /\ call' \in [Threads -> CallTypes] /\ call'[t] = Idle
      /\ \A u \in Threads \ {t} : call'[u] = call[u]
  BY FinishCall DEF LifeInv, createOk, Ops
<1>2. d \in Decoders \ objects /\ Live(d)
  BY <1>1 DEF LifeInv, CallsWellFormed
<1>3. /\ pinned' = [pinned EXCEPT ![t] = NoArray]
      /\ objects' = objects \cup {d}
      /\ UNCHANGED <<native, closed, frames, bytesHeld, collected, broken, faults>>
  BY DEF createOk, Unpin
<1>4. \A u \in Threads \ {t} : call[u].op = "create" => call[u].on # d
  BY <1>1 DEF LifeInv, OneCreator
<1> HIDE DEF d
<1> USE DEF LifeInv
<1>5. TypeOK'
  BY <1>1, <1>2, <1>3 DEF TypeOK, CallTypes
<1>6. PinnedKept'
  BY <1>3, LibavifAssumption DEF TypeOK, PinnedKept
<1>7. CallsWellFormed'
  BY <1>1, <1>3, <1>4 DEF CallsWellFormed, Live, Idle, TypeOK, DecoderOps, FrameOps, DecodeOps
<1>8. OneCreator'
  BY <1>1 DEF OneCreator, Idle
<1>9. ObjectsCreated'
  BY <1>2, <1>3 DEF ObjectsCreated, Live
<1>10. LifetimeExact'
  BY <1>1, <1>2, <1>3 DEF LifetimeExact, Live, Idle, d
<1> QED
  BY <1>5, <1>6, <1>7, <1>8, <1>9, <1>10

(* A decoder is destroyed by the call that made it, or by close().         *)
LEMMA DestroyStep ==
  ASSUME LifeInv, NEW t \in Threads, NEW op \in {"create", "close"}, Finish(t, op),
         avifDecoderDestroy(call[t].on),
         pinned' \in {pinned, [pinned EXCEPT ![t] = NoArray]},
         UNCHANGED <<objects, closed, frames, bytesHeld, collected, broken, faults>>
  PROVE  LifeInv'
<1> DEFINE d == call[t].on
<1>1. /\ call[t].op = op
      /\ call' \in [Threads -> CallTypes] /\ call'[t] = Idle
      /\ \A u \in Threads \ {t} : call'[u] = call[u]
  BY FinishCall DEF LifeInv, Ops
<1>2. /\ d \in Decoders
      /\ op = "create" => d \notin objects
      /\ op = "close" => d \in closed
  BY <1>1 DEF LifeInv, CallsWellFormed, TypeOK
<1>3. /\ native' \in [Decoders -> NativeDecoders]
      /\ native'[d].state = "destroyed"
      /\ \A e \in Decoders \ {d} : native'[e] = native[e]
  BY <1>2, DestroyFrees DEF LifeInv, TypeOK
<1>4. \A u \in Threads \ {t} : call[u].op = "create" => call[u].on # d
  BY <1>1, <1>2 DEF LifeInv, OneCreator, CallsWellFormed, TypeOK
<1>5. \A u \in Threads \ {t} : pinned'[u] = pinned[u]
  BY DEF LifeInv, TypeOK
<1> USE DEF LifeInv
<1>6. TypeOK'
  BY <1>1, <1>3 DEF TypeOK, CallTypes
<1>7. PinnedKept'
  BY LibavifAssumption DEF TypeOK, PinnedKept
<1>8. CallsWellFormed'
  <2> SUFFICES ASSUME NEW u \in Threads \ {t}
               PROVE  CallsWellFormed!(u)'
    BY <1>1 DEF CallsWellFormed, Idle, DecoderOps, FrameOps, DecodeOps
  <2> QED
    BY <1>1, <1>3, <1>4, <1>5 DEF CallsWellFormed, Live
<1>9. OneCreator'
  BY <1>1 DEF OneCreator, Idle
<1>10. ObjectsCreated'
  BY <1>3 DEF ObjectsCreated, TypeOK
<1>11. LifetimeExact'
  <2> SUFFICES ASSUME NEW e \in Decoders
               PROVE  LifetimeExact!(e)'
    BY DEF LifetimeExact
  <2>1. CASE e = d
    BY <1>2, <1>3, <2>1 DEF Live, TypeOK
  <2>2. CASE e # d
    BY <1>1, <1>3, <2>2 DEF LifetimeExact, Live
  <2> QED
    BY <2>1, <2>2
<1> QED
  BY <1>6, <1>7, <1>8, <1>9, <1>10, <1>11

(* close() marks the object and goes on to destroy.                        *)
LEMMA closeStep ==
  ASSUME LifeInv, NEW t \in Threads, NEW d \in Decoders, close(t, d)
  PROVE  LifeInv'
<1> DEFINE c == [Idle EXCEPT !.op = "close", !.on = d]
<1>1. /\ c \in CallTypes /\ c.op = "close" /\ c.on = d
      /\ Begin(t, c)
      /\ d \in objects /\ closed' = closed \cup {d}
      /\ broken' \subseteq broken \cup Promises
      /\ UNCHANGED <<native, objects, frames, pinned, bytesHeld, collected, faults>>
  BY CallType DEF close, Ops, arrays, Overlaps, Breaks, Promises
<1> HIDE DEF c
<1>2. /\ call[t] = Idle /\ call'[t] = c
      /\ call' \in [Threads -> CallTypes]
      /\ \A u \in Threads \ {t} : call'[u] = call[u]
  BY <1>1, BeginCall DEF LifeInv
<1> USE DEF LifeInv
<1>3. TypeOK'
  BY <1>1, <1>2 DEF TypeOK, CallTypes
<1>4. PinnedKept' /\ ObjectsCreated'
  BY <1>1 DEF PinnedKept, ObjectsCreated
<1>5. CallsWellFormed'
  BY <1>1, <1>2 DEF CallsWellFormed, Live, DecoderOps, FrameOps, DecodeOps
<1>6. OneCreator'
  BY <1>1, <1>2 DEF OneCreator
<1>7. LifetimeExact'
  BY <1>1, <1>2 DEF LifetimeExact, Live, Idle
<1> QED
  BY <1>3, <1>4, <1>5, <1>6, <1>7

(* The invariant holds at the start ...                                    *)
LEMMA LifeInit == Init => LifeInv
<1> SUFFICES ASSUME Init PROVE LifeInv
  OBVIOUS
<1> USE DEF Init
<1>1. TypeOK
  BY UnallocatedType, CallType DEF TypeOK, CallTypes
<1>2. CallsWellFormed /\ OneCreator
  BY DEF CallsWellFormed, OneCreator, Idle, DecoderOps, FrameOps, DecodeOps
<1>3. ObjectsCreated /\ PinnedKept /\ LifetimeExact
  BY DEF ObjectsCreated, PinnedKept, LifetimeExact, Live, Unallocated
<1> QED
  BY <1>1, <1>2, <1>3 DEF LifeInv

(* ... every step of a thread keeps it ...                                 *)
LEMMA LifeThread ==
  ASSUME LifeInv, NEW t \in Threads, Step(t)
  PROVE  LifeInv'
<1>1. ASSUME NEW a \in Arrays, isAvifImage(t, a) PROVE LifeInv'
  BY <1>1, isAvifImageStep
<1>2. CASE returnIsAvif(t)
  BY <1>2, ReturnStep DEF returnIsAvif, LifeInv, TypeOK, SameHeap, ObjectsCreated, Ops
<1>3. ASSUME NEW d \in Decoders, createFromEmpty(t, d) PROVE LifeInv'
  BY <1>3, createFromEmptyStep
<1>4. ASSUME NEW d \in Decoders, NEW a \in Arrays, create(t, d, a) PROVE LifeInv'
  BY <1>4, createStep
<1>5. ASSUME NEW d \in Decoders, NEW op \in DecoderOps, invoke(t, d, op) PROVE LifeInv'
  <2> DEFINE c == [Idle EXCEPT !.op = op, !.on = d]
  <2>1. c \in CallTypes /\ c.op = op /\ c.on = d
    BY CallType DEF Ops
  <2>2. /\ d \in objects /\ Begin(t, c) /\ broken' \subseteq Promises
        /\ UNCHANGED <<native, objects, closed, frames, arrays, faults>>
    BY <1>5 DEF invoke, LifeInv, TypeOK, Overlaps, AfterClose, Breaks, Promises
  <2> HIDE DEF c
  <2> QED
    BY <2>1, <2>2, InvokeStep
<1>6. ASSUME NEW d \in Decoders, close(t, d) PROVE LifeInv'
  BY <1>6, closeStep
<1>7. ASSUME NEW f \in frames, NEW op \in FrameOps, invokeFrame(t, f, op) PROVE LifeInv'
  <2> DEFINE c == [op |-> op, on |-> f.of, image |-> f.image]
  <2>1. c \in CallTypes /\ c.op = op /\ c.on = f.of /\ f.of \in objects
    BY DEF LifeInv, TypeOK, ObjectsCreated, CallTypes, Ops
  <2>2. /\ Begin(t, c) /\ broken' \subseteq Promises
        /\ UNCHANGED <<native, objects, closed, frames, arrays, faults>>
    BY <1>7 DEF invokeFrame, LifeInv, TypeOK, Overlaps, AfterClose, StaleFrame, Breaks, Promises
  <2> HIDE DEF c
  <2> QED
    BY <2>1, <2>2, InvokeStep
<1>8. CASE createOk(t)
  BY <1>8, createOkStep
<1>9. CASE createFails(t) \/ destroy(t)
  BY <1>9, DestroyStep DEF createFails, destroy, Unpin, arrays
<1>10. ASSUME NEW ok \in BOOLEAN,
              \/ reset(t, ok) \/ nextFrame(t, ok)
              \/ \E i \in -1 .. FrameCount : nthFrame(t, i, ok)
       PROVE  LifeInv'
  <2>1. PICK op \in DecodeOps : Finish(t, op)
    BY <1>10 DEF reset, nextFrame, nthFrame, DecodeOps
  <2>2. call[t].on \in Decoders
    BY <2>1, FinishCall
       DEF LifeInv, CallsWellFormed, TypeOK, DecoderOps, DecodeOps, Ops
  <2>3. -1 .. FrameCount \subseteq Int
    BY LibavifAssumption
  <2>4. native' \in [Decoders -> NativeDecoders] /\ SameHeap
    BY <1>10, <2>2, <2>3, ResetKeepsHeap, NextImageKeepsHeap, NthImageKeepsHeap
       DEF reset, nextFrame, nthFrame, LifeInv, TypeOK
  <2>5. UNCHANGED <<objects, closed, frames, pinned, bytesHeld, collected, broken, faults>>
    BY <1>10 DEF reset, nextFrame, nthFrame, arrays
  <2> QED
    BY <2>1, <2>4, <2>5, ReturnStep
       DEF LifeInv, TypeOK, ObjectsCreated, DecodeOps, DecoderOps, Ops
<1>11. CASE getFrame(t)
  <2>1. Finish(t, "getFrame") /\ call[t].on \in objects
    BY <1>11, FinishCall
       DEF getFrame, LifeInv, CallsWellFormed, DecoderOps, Ops
  <2>2. native[call[t].on].image \in 0 .. MaxResets
    BY <2>1 DEF LifeInv, TypeOK, NativeDecoders
  <2>3. frames' \subseteq [of : objects, image : 0 .. MaxResets]
    BY <1>11, <2>1, <2>2 DEF getFrame, LifeInv, TypeOK, ObjectsCreated
  <2> QED
    BY <1>11, <2>1, <2>3, ReturnStep
       DEF getFrame, arrays, LifeInv, TypeOK, SameHeap, DecoderOps, Ops
<1>12. CASE getField(t) \/ \E op \in FrameOps : returnFrame(t, op)
  <2>1. PICK op \in {"get"} \cup FrameOps :
           /\ Finish(t, op)
           /\ UNCHANGED <<native, objects, closed, frames, arrays, broken, faults>>
    BY <1>12 DEF getField, returnFrame
  <2> QED
    BY <2>1, ReturnStep
       DEF arrays, LifeInv, TypeOK, ObjectsCreated, SameHeap, DecoderOps, FrameOps, Ops
<1>13. CASE Undefined(t)
  BY <1>13, NoCallStep DEF Undefined, arrays, CallFaults, LifeInv, TypeOK, PinnedKept
<1> QED
  BY <1>1, <1>2, <1>3, <1>4, <1>5, <1>6, <1>7, <1>8, <1>9, <1>10, <1>11, <1>12, <1>13
     DEF Step

(* ... and so does every other step.                                       *)
LEMMA LifeStep == LifeInv /\ [Next]_vars => LifeInv'
<1> SUFFICES ASSUME LifeInv, [Next]_vars PROVE LifeInv'
  OBVIOUS
<1>1. CASE UNCHANGED vars
  BY <1>1, NoCallStep DEF vars, LifeInv, TypeOK, PinnedKept
<1>2. ASSUME NEW a \in Arrays, dropBytes(a) PROVE LifeInv'
  BY <1>2, NoCallStep DEF dropBytes, Breaks, Promises, LifeInv, TypeOK, PinnedKept
<1>3. ASSUME NEW a \in Arrays, collect(a) PROVE LifeInv'
  BY <1>3, NoCallStep DEF collect, LifeInv, TypeOK, PinnedKept
<1> QED
  BY <1>1, <1>2, <1>3, LifeThread DEF Next

(* The handles are sound whatever promise the callers break.               *)
LEMMA LifeInvariant == Spec => []LifeInv
  BY LifeInit, LifeStep, PTL DEF Spec
-------------------------------------------------------------------------------
(* Every variable keeps its type; only what has an object is closed.       *)
THEOREM CinteropTypes == Spec => []TypeOK
<1>1. LifeInv => TypeOK
  BY DEF LifeInv
<1> QED
  BY <1>1, LifeInvariant, PTL

(* A native decoder is live exactly from create() to close(), except one   *)
(* that create() of no bytes has stranded.                                 *)
THEOREM LifetimesExact == Spec => []LifetimeExact
<1>1. LifeInv => LifetimeExact
  BY DEF LifeInv
<1> QED
  BY <1>1, LifeInvariant, PTL

(* The array is there while create() parses it and isAvifImage() reads it, *)
(* although the callers may have forgotten it.                             *)
THEOREM InputPinnedWhileParsed == Spec => []ParsesPinnedInput
<1>1. LifeInv => ParsesPinnedInput
  BY DEF LifeInv, ParsesPinnedInput, CallsWellFormed, PinnedKept, InputFreed
<1> QED
  BY <1>1, LifeInvariant, PTL
-------------------------------------------------------------------------------
(* GuardInv: undefined behaviour has a cause among the broken promises.    *)

(* The promises that guard against a fault, fault by fault.                *)
LEMMA GuardsOf ==
  /\ Guards.useAfterDestroy = {"confined", "openOnly"}
  /\ Guards.doubleDestroy = {"confined", "closeOnce"}
  /\ Guards.staleImage = {"confined", "openOnly", "freshFrame"}
  /\ Guards.freedInput = {"keepBytes"}
  /\ Guards["useAfterDestroy"] = Guards.useAfterDestroy
  /\ Guards["doubleDestroy"] = Guards.doubleDestroy
  /\ Guards["staleImage"] = Guards.staleImage
  /\ Guards["freedInput"] = Guards.freedInput
  BY DEF Guards

(* A thread in no call, or in one that has no decoder with an object.      *)
Harmless(c) == c.op \in {"idle", "isAvifImage", "create"}

(***************************************************************************)
(* A step of thread t that begins no method: what it does to its decoder   *)
(* concerns the calls of others on it, and these overlap with its own.     *)
(***************************************************************************)
LEMMA QuietGuarded ==
  ASSUME GuardInv, NEW t \in Threads, broken \subseteq broken', closed' = closed,
         Harmless(call'[t]),
         \A u \in Threads \ {t} : call'[u] = call[u],
         \A e \in objects : e = call[t].on \/ native'[e] = native[e]
  PROVE  CallsGuarded'
<1> SUFFICES ASSUME NEW u \in Threads
             PROVE  CallsGuarded!(u)'
  BY DEF CallsGuarded
<1>1. CASE u = t
  BY <1>1 DEF Harmless, DecoderOps, FrameOps, DecodeOps
<1>2. CASE u # t
  <2>1. call'[u] = call[u]
    BY <1>2
  <2>2. CASE call[u].op \in DecoderOps \cup FrameOps \cup {"close"}
    <3>1. call[u].on \in objects /\ call[u].on # NoDecoder
      BY <2>2, CinteropAssumption DEF GuardInv, LifeInv, TypeOK, CallsWellFormed
    <3>2. CASE call[u].on = call[t].on
      <4>1. "confined" \in broken'
        BY <1>2, <3>1, <3>2 DEF GuardInv, OverlapsTold
      <4> QED
        BY <4>1, GuardsOf
    <3>3. CASE call[u].on # call[t].on
      <4>1. native'[call[u].on] = native[call[u].on]
        BY <3>1, <3>3
      <4> QED
        BY <2>1, <4>1, GuardsOf DEF GuardInv, CallsGuarded, Live
    <3> QED
      BY <3>2, <3>3
  <2> QED
    BY <2>1, <2>2
<1> QED
  BY <1>1, <1>2

(* A method begins: its own promises are looked at, the calls it overlaps  *)
(* with are told, and the state of decoders stays.                         *)
LEMMA MethodGuarded ==
  ASSUME GuardInv, NEW t \in Threads, NEW d \in objects, NEW c \in CallTypes,
         Begin(t, c), c.on = d,
         broken \cup Overlaps(d) \subseteq broken',
         closed' \in {closed, closed \cup {d}}, native' = native,
         CallsGuarded!(t)'
  PROVE  OverlapsTold' /\ CallsGuarded'
<1>1. /\ call'[t] = c
      /\ \A u \in Threads \ {t} : call'[u] = call[u]
  BY BeginCall DEF GuardInv, LifeInv
<1>2. \A u \in Threads : call[u].on = d => "confined" \in broken'
  BY DEF Overlaps, Breaks
<1>3. OverlapsTold'
  BY <1>1, <1>2 DEF GuardInv, OverlapsTold
<1>4. ASSUME NEW u \in Threads \ {t}
      PROVE  CallsGuarded!(u)'
  <2>1. CASE call[u].on = d
    BY <1>2, <2>1, GuardsOf
  <2>2. CASE call[u].on # d
    BY <1>1, <2>2, GuardsOf DEF GuardInv, CallsGuarded, Live
  <2> QED
    BY <2>1, <2>2
<1> QED
  BY <1>3, <1>4 DEF CallsGuarded

(* A call that ends, or begins on no decoder, overlaps with none.          *)
LEMMA QuietOverlaps ==
  ASSUME GuardInv, NEW t \in Threads, broken \subseteq broken',
         \A u \in Threads \ {t} : call'[u] = call[u],
         \/ call'[t].on = NoDecoder
         \/ \A u \in Threads \ {t} : call[u].on # call'[t].on
  PROVE  OverlapsTold'
  BY DEF GuardInv, OverlapsTold

(* A live decoder reads what it has read, no bytes, or an array still held.*)
LEMMA InputStaysGuarded ==
  ASSUME GuardInv, broken \subseteq broken', bytesHeld' = bytesHeld,
         \A d \in Decoders : Live(d)' =>
           \/ Live(d) /\ native'[d].io = native[d].io
           \/ native'[d].io \in bytesHeld \cup {NoArray}
  PROVE  InputGuarded'
  BY LibavifAssumption DEF GuardInv, InputGuarded

(* Every fault a call can meet is guarded.                                 *)
LEMMA UndefinedGuarded ==
  ASSUME GuardInv, NEW t \in Threads, Undefined(t)
  PROVE  FaultsGuarded'
<1> USE DEF GuardInv, LifeInv
<1>1. faults' = CallFaults(t) /\ broken' = broken
  BY DEF Undefined
<1> SUFFICES ASSUME NEW f \in CallFaults(t)
             PROVE  Guards[f] \cap broken # {}
  BY <1>1 DEF FaultsGuarded
<1>2. call[t].op = "close" => call[t].on \in closed
  BY DEF CallsWellFormed
<1>3. CASE f = "useAfterDestroy"
  <2>1. call[t].op \in DecoderOps /\ ~Live(call[t].on)
    BY <1>3 DEF CallFaults
  <2>2. call[t].on \in closed
    BY <2>1 DEF CallsWellFormed, LifetimeExact, TypeOK
  <2> QED
    BY <1>3, <2>1, <2>2, GuardsOf DEF CallsGuarded
<1>4. CASE f = "doubleDestroy"
  BY <1>4, GuardsOf DEF CallFaults, CallsGuarded
<1>5. CASE f = "staleImage"
  <2>1. /\ call[t].op \in FrameOps
        /\ ~Live(call[t].on) \/ native[call[t].on].image # call[t].image
    BY <1>5 DEF CallFaults
  <2>2. call[t].on \in closed \/ native[call[t].on].image # call[t].image
    BY <2>1 DEF CallsWellFormed, LifetimeExact, TypeOK
  <2> QED
    BY <1>5, <2>1, <2>2, GuardsOf DEF CallsGuarded
<1>6. CASE f = "freedInput"
  <2>1. call[t].op # "isAvifImage" \/ pinned[t] \notin collected
    BY DEF PinnedKept
  <2>2. /\ call[t].op \in DecodeOps \cup {"create"}
        /\ Live(call[t].on) /\ native[call[t].on].io \in collected
    BY <1>6, <2>1 DEF CallFaults, InputFreed
  <2>3. call[t].on \in Decoders
    BY <2>2 DEF CallsWellFormed, TypeOK, DecoderOps
  <2>4. native[call[t].on].io \in Arrays \ bytesHeld
    BY <2>2 DEF PinnedKept, TypeOK
  <2> QED
    BY <1>6, <2>2, <2>3, <2>4, GuardsOf DEF InputGuarded
<1> QED
  BY <1>3, <1>4, <1>5, <1>6 DEF CallFaults, FaultKinds

(* No promise is made good again, and faults end the behaviour.            *)
LEMMA FaultsStayGuarded ==
  ASSUME GuardInv, broken \subseteq broken', faults' = faults
  PROVE  FaultsGuarded'
  BY DEF GuardInv, FaultsGuarded

Guarded == OverlapsTold /\ CallsGuarded /\ InputGuarded /\ FaultsGuarded

(* The steps of a thread that begin a method.                              *)
LEMMA MethodStep ==
  ASSUME GuardInv, NEW t \in Threads, NEW d \in objects, NEW c \in CallTypes,
         Begin(t, c), c.on = d,
         broken \cup Overlaps(d) \subseteq broken',
         closed' \in {closed, closed \cup {d}},
         UNCHANGED <<native, arrays, faults>>,
         CallsGuarded!(t)'
  PROVE  Guarded'
<1>1. OverlapsTold' /\ CallsGuarded'
  BY MethodGuarded
<1>2. InputGuarded'
  BY InputStaysGuarded DEF Live, arrays
<1>3. FaultsGuarded'
  BY FaultsStayGuarded
<1> QED
  BY <1>1, <1>2, <1>3 DEF Guarded

(* The other steps of a thread.                                            *)
LEMMA QuietStep ==
  ASSUME GuardInv, NEW t \in Threads, UNCHANGED <<closed, bytesHeld, broken, faults>>,
         Harmless(call'[t]),
         call'[t].on = NoDecoder \/ \A u \in Threads \ {t} : call[u].on # call'[t].on,
         \A u \in Threads \ {t} : call'[u] = call[u],
         \A e \in objects : e = call[t].on \/ native'[e] = native[e],
         \A d \in Decoders : Live(d)' =>
           \/ Live(d) /\ native'[d].io = native[d].io
           \/ native'[d].io \in bytesHeld \cup {NoArray}
  PROVE  Guarded'
<1>1. CallsGuarded'
  BY QuietGuarded
<1>2. OverlapsTold'
  BY QuietOverlaps
<1>3. InputGuarded'
  BY InputStaysGuarded
<1>4. FaultsGuarded'
  BY FaultsStayGuarded
<1> QED
  BY <1>1, <1>2, <1>3, <1>4 DEF Guarded

(* Every step of a thread keeps the guards.                                *)
LEMMA GuardThread ==
  ASSUME GuardInv, NEW t \in Threads, Step(t)
  PROVE  Guarded'
<1> USE DEF GuardInv, LifeInv
<1>1. ASSUME NEW a \in Arrays, isAvifImage(t, a) PROVE Guarded'
  <2> DEFINE c == [Idle EXCEPT !.op = "isAvifImage"]
  <2>1. /\ c \in CallTypes /\ c.op = "isAvifImage" /\ c.on = NoDecoder
        /\ Begin(t, c)
        /\ UNCHANGED <<native, closed, bytesHeld, broken, faults>>
    BY <1>1, CallType DEF isAvifImage
  <2> HIDE DEF c
  <2>2. call'[t] = c /\ \A u \in Threads \ {t} : call'[u] = call[u]
    BY <2>1, BeginCall
  <2> QED
    BY <2>1, <2>2, QuietStep DEF Live, Harmless
<1>2. ASSUME NEW d \in Decoders, createFromEmpty(t, d) PROVE Guarded'
  <2>1. /\ native'[d].io = NoArray
        /\ \A e \in Decoders \ {d} : native'[e] = native[e]
    BY <1>2, CreateMakesLive DEF TypeOK, createFromEmpty
  <2>2. d \notin objects /\ call[t] = Idle /\ call' = call
        /\ UNCHANGED <<closed, bytesHeld, broken, faults>>
    BY <1>2 DEF createFromEmpty, arrays, ObjectsCreated
  <2> QED
    BY <2>1, <2>2, QuietStep DEF Live, Idle, Harmless, TypeOK
<1>3. ASSUME NEW d \in Decoders, NEW a \in Arrays, create(t, d, a) PROVE Guarded'
  <2> DEFINE c == [Idle EXCEPT !.op = "create", !.on = d]
  <2>1. /\ c \in CallTypes /\ c.op = "create" /\ c.on = d
        /\ Begin(t, c)
        /\ a \in bytesHeld /\ native[d].state = "none"
        /\ avifDecoderCreate(d, a, FALSE)
        /\ UNCHANGED <<closed, bytesHeld, broken, faults>>
    BY <1>3, CallType DEF create, Ops
  <2> HIDE DEF c
  <2>2. call'[t] = c /\ \A u \in Threads \ {t} : call'[u] = call[u]
    BY <2>1, BeginCall
  <2>3. /\ native'[d].io = a
        /\ \A e \in Decoders \ {d} : native'[e] = native[e]
    BY <2>1, CreateMakesLive DEF TypeOK
  <2>4. d \notin objects
    BY <2>1 DEF ObjectsCreated
  <2>5. \A u \in Threads : call[u].on # d
    BY <2>1, <2>4, CinteropAssumption
       DEF TypeOK, CallsWellFormed, Live, Ops, DecoderOps, FrameOps
  <2> QED
    BY <2>1, <2>2, <2>3, <2>4, <2>5, QuietStep DEF Live, Harmless, TypeOK
<1>4. ASSUME NEW d \in Decoders, NEW op \in DecoderOps, invoke(t, d, op) PROVE Guarded'
  <2> DEFINE c == [Idle EXCEPT !.op = op, !.on = d]
  <2>1. c \in CallTypes /\ c.op = op /\ c.on = d
    BY CallType DEF Ops
  <2>2. /\ d \in objects /\ Begin(t, c)
        /\ broken' = broken \cup Overlaps(d) \cup AfterClose(d)
        /\ UNCHANGED <<native, closed, arrays, faults>>
    BY <1>4 DEF invoke
  <2> HIDE DEF c
  <2>3. call'[t] = c
    BY <2>1, <2>2, BeginCall
  <2>4. CallsGuarded!(t)'
    BY <2>1, <2>2, <2>3, GuardsOf DEF AfterClose, Breaks, DecoderOps, FrameOps, DecodeOps
  <2> QED
    BY <2>1, <2>2, <2>4, MethodStep
<1>5. ASSUME NEW d \in Decoders, close(t, d) PROVE Guarded'
  <2> DEFINE c == [Idle EXCEPT !.op = "close", !.on = d]
  <2>1. c \in CallTypes /\ c.op = "close" /\ c.on = d
    BY CallType DEF Ops
  <2>2. /\ d \in objects /\ Begin(t, c) /\ closed' = closed \cup {d}
        /\ broken' = broken \cup Overlaps(d) \cup Breaks("closeOnce", d \in closed)
        /\ UNCHANGED <<native, arrays, faults>>
    BY <1>5 DEF close
  <2> HIDE DEF c
  <2>3. call'[t] = c
    BY <2>1, <2>2, BeginCall
  <2>4. d \notin closed => Live(d)
    BY <2>2 DEF LifetimeExact
  <2>5. CallsGuarded!(t)'
    BY <2>1, <2>2, <2>3, <2>4, GuardsOf DEF Breaks, Live, DecoderOps, FrameOps, DecodeOps
  <2> QED
    BY <2>1, <2>2, <2>5, MethodStep
<1>6. ASSUME NEW f \in frames, NEW op \in FrameOps, invokeFrame(t, f, op) PROVE Guarded'
  <2> DEFINE c == [op |-> op, on |-> f.of, image |-> f.image]
  <2>1. /\ c \in CallTypes /\ c.op = op /\ c.on = f.of /\ c.image = f.image
        /\ f.of \in objects
    BY DEF TypeOK, ObjectsCreated, CallTypes, Ops
  <2>2. /\ Begin(t, c)
        /\ broken' = broken \cup Overlaps(f.of) \cup AfterClose(f.of) \cup StaleFrame(f)
        /\ UNCHANGED <<native, closed, arrays, faults>>
    BY <1>6 DEF invokeFrame
  <2> HIDE DEF c
  <2>3. call'[t] = c
    BY <2>1, <2>2, BeginCall
  <2>4. CallsGuarded!(t)'
    BY <2>1, <2>2, <2>3, GuardsOf
       DEF AfterClose, StaleFrame, Breaks, DecoderOps, FrameOps, DecodeOps
  <2> QED
    BY <2>1, <2>2, <2>4, MethodStep
<1>7. CASE \/ createOk(t) \/ returnIsAvif(t) \/ getFrame(t) \/ getField(t)
           \/ \E op \in FrameOps : returnFrame(t, op)
  <2>1. PICK op \in Ops : Finish(t, op)
    BY <1>7 DEF createOk, returnIsAvif, getFrame, getField, returnFrame,
                Ops, DecoderOps, FrameOps
  <2>2. UNCHANGED <<native, closed, bytesHeld, broken, faults>>
    BY <1>7 DEF createOk, returnIsAvif, getFrame, getField, returnFrame, arrays
  <2>3. call'[t] = Idle /\ \A u \in Threads \ {t} : call'[u] = call[u]
    BY <2>1, FinishCall
  <2> QED
    BY <2>2, <2>3, QuietStep DEF Live, Idle, Harmless
<1>8. CASE createFails(t) \/ destroy(t)
  <2>1. PICK op \in {"create", "close"} : Finish(t, op)
    BY <1>8 DEF createFails, destroy
  <2>2. /\ avifDecoderDestroy(call[t].on)
        /\ UNCHANGED <<closed, bytesHeld, broken, faults>>
    BY <1>8 DEF createFails, destroy, arrays
  <2>3. /\ call[t].op = op /\ call'[t] = Idle
        /\ \A u \in Threads \ {t} : call'[u] = call[u]
    BY <2>1, FinishCall DEF Ops
  <2>4. call[t].on \in Decoders
    BY <2>3 DEF TypeOK, CallsWellFormed
  <2>5. /\ native'[call[t].on].state = "destroyed"
        /\ \A e \in Decoders \ {call[t].on} : native'[e] = native[e]
    BY <2>2, <2>4, DestroyFrees DEF TypeOK
  <2> QED
    BY <2>2, <2>3, <2>5, QuietStep DEF Live, Idle, Harmless, TypeOK
<1>9. ASSUME NEW ok \in BOOLEAN,
              \/ reset(t, ok) \/ nextFrame(t, ok)
              \/ \E i \in -1 .. FrameCount : nthFrame(t, i, ok)
       PROVE  Guarded'
  <2>1. PICK op \in DecodeOps : Finish(t, op)
    BY <1>9 DEF reset, nextFrame, nthFrame, DecodeOps
  <2>2. /\ call[t].on \in Decoders /\ call'[t] = Idle
        /\ \A u \in Threads \ {t} : call'[u] = call[u]
    BY <2>1, FinishCall DEF CallsWellFormed, TypeOK, DecoderOps, DecodeOps, Ops
  <2>3. -1 .. FrameCount \subseteq Int
    BY LibavifAssumption
  <2>4. SameHeap
    BY <1>9, <2>2, <2>3, ResetKeepsHeap, NextImageKeepsHeap, NthImageKeepsHeap
       DEF reset, nextFrame, nthFrame, TypeOK
  <2>5. \A e \in Decoders \ {call[t].on} : native'[e] = native[e]
    BY <1>9, <2>2 DEF reset, nextFrame, nthFrame, TypeOK,
       avifDecoderReset, avifDecoderNextImage, avifDecoderNthImage
  <2>6. UNCHANGED <<closed, bytesHeld, broken, faults>>
    BY <1>9 DEF reset, nextFrame, nthFrame, arrays
  <2> QED
    BY <2>2, <2>4, <2>5, <2>6, QuietStep DEF Live, Idle, Harmless, SameHeap, TypeOK
<1>10. CASE Undefined(t)
  <2>1. UNCHANGED <<native, closed, bytesHeld, call, broken>>
    BY <1>10 DEF Undefined, arrays
  <2> QED
    BY <1>10, <2>1, UndefinedGuarded
       DEF Guarded, OverlapsTold, CallsGuarded, InputGuarded, Live
<1> QED
  BY <1>1, <1>2, <1>3, <1>4, <1>5, <1>6, <1>7, <1>8, <1>9, <1>10 DEF Step

(* Every step keeps the invariant.                                         *)
LEMMA GuardStep == GuardInv /\ [Next]_vars => GuardInv'
<1> SUFFICES ASSUME GuardInv, [Next]_vars PROVE Guarded'
  BY LifeStep DEF GuardInv, Guarded
<1>1. CASE UNCHANGED vars
  BY <1>1 DEF vars, GuardInv, Guarded, OverlapsTold, CallsGuarded, InputGuarded,
              FaultsGuarded, Live
<1>2. ASSUME NEW a \in Arrays, dropBytes(a) \/ collect(a) PROVE Guarded'
  <2>1. /\ UNCHANGED <<native, closed, call, faults>>
        /\ broken \subseteq broken'
    BY <1>2 DEF dropBytes, collect
  <2>2. OverlapsTold' /\ FaultsGuarded'
    BY <2>1 DEF GuardInv, OverlapsTold, FaultsGuarded
  <2>3. CallsGuarded'
    BY <2>1, GuardsOf DEF GuardInv, CallsGuarded, Live
  <2>4. InputGuarded'
    BY <1>2, <2>1 DEF dropBytes, collect, Breaks, GuardInv, InputGuarded, Live
  <2> QED
    BY <2>2, <2>3, <2>4 DEF Guarded
<1> QED
  BY <1>1, <1>2, GuardThread DEF Next

(* Undefined behaviour happens only where callers have broken one of the   *)
(* promises that guard against it, in any interleaving of any calls.       *)
THEOREM EveryFaultGuarded == Spec => []FaultsGuarded
<1>1. Init => GuardInv
  <2> SUFFICES ASSUME Init PROVE GuardInv
    OBVIOUS
  <2>1. LifeInv
    BY LifeInit
  <2>2. OverlapsTold /\ CallsGuarded
    BY DEF Init, OverlapsTold, CallsGuarded, Idle, DecoderOps, FrameOps, DecodeOps
  <2>3. InputGuarded /\ FaultsGuarded
    BY DEF Init, InputGuarded, FaultsGuarded, Live, Unallocated
  <2> QED
    BY <2>1, <2>2, <2>3 DEF GuardInv
<1>2. GuardInv => FaultsGuarded
  BY DEF GuardInv
<1> QED
  BY <1>1, <1>2, GuardStep, PTL DEF Spec
================================================================================
