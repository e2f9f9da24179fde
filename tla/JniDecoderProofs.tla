--------------------------- MODULE JniDecoderProofs ---------------------------
(***************************************************************************)
(* What TLAPS proves of JniDecoder, for every set of threads, decoders and *)
(* arrays and every number of frames and of resets.                        *)
(***************************************************************************)
EXTENDS JniDecoder, LibavifProofs, TLAPS
-------------------------------------------------------------------------------
(***************************************************************************)
(* The inductive invariant, whatever the callers do.  The properties need  *)
(* what links a call in progress to the objects: which decoder a thread    *)
(* may be constructing, clearing or destroying, and that nobody calls an   *)
(* object that finalize() has seen.                                        *)
(***************************************************************************)
CallsWellFormed ==
  \A t \in Threads :
    /\ call[t].op = "idle" => call[t] = Idle
    /\ call[t].op # "idle" => call[t].on \in Decoders
    /\ call[t].op \in DecoderOps \cup {"close", "destroy"} => call[t].on \in held
    /\ call[t].op = "create" => context[call[t].on] = "unset" /\ Live(call[t].on)
    /\ call[t].op = "destroy" => context[call[t].on] = "null"

OneCreator ==
  \A t, u \in Threads :
    call[t].op = "create" /\ call[u].op = "create" /\ call[t].on = call[u].on => t = u

HeldConstructed == \A d \in held : context[d] # "unset"

FinalizedUnheld ==
  /\ reported \subseteq finalized
  /\ \A d \in finalized : d \notin held /\ context[d] # "unset"

UnallocatedUnset ==
  \A d \in Decoders : native[d].state = "none" => context[d] = "unset"

HandleInv ==
  /\ TypeOK
  /\ CallsWellFormed /\ OneCreator
  /\ HeldConstructed /\ FinalizedUnheld /\ UnallocatedUnset
  /\ HandleValid /\ NoOrphan /\ LeakReportExact

(***************************************************************************)
(* What the callers must promise.                                          *)
(***************************************************************************)
SafeCallers ==
  /\ {"confined", "openOnly", "frameOpen", "freshFrame"} \subseteq Promises
  /\ Platform = "jvm" \/ "keepBytes" \in Promises

(***************************************************************************)
(* The rest of the inductive invariant, when they do: a call in progress   *)
(* is the only one on its decoder, and what was checked before it started  *)
(* is still so.                                                            *)
(***************************************************************************)
OneCall ==
  \A t, u \in Threads :
    call[t].on = call[u].on /\ call[t].on # NoDecoder => t = u

CallsSafe ==
  \A t \in Threads :
    /\ call[t].op \in DecoderOps => call[t].ptr = "ptr" /\ context[call[t].on] = "ptr"
    /\ call[t].op = "close" /\ call[t].ptr # "null" => context[call[t].on] = "ptr"
    /\ call[t].op = "destroy" => Live(call[t].on)
    /\ call[t].op \in FrameOps =>
         context[call[t].on] = "ptr" /\ call[t].image = native[call[t].on].image

InputHeld ==
  /\ bytesHeld \cap collected = {}
  /\ \A d \in Decoders : Live(d) =>
       \/ native[d].copied
       \/ Platform = "android" /\ native[d].io \in bytesHeld

CallInv == HandleInv /\ OneCall /\ CallsSafe /\ InputHeld /\ NoFault
-------------------------------------------------------------------------------
(* Calls.                                                                  *)

(* A thread in no call, and a call that was just started.                  *)
LEMMA CallType ==
  /\ Idle \in Calls
  /\ \A o \in Ops, d \in Decoders, p \in {"null", "ptr"} :
       /\ Call(o, d, p) \in Calls
       /\ Call(o, d, p).op = o /\ Call(o, d, p).on = d /\ Call(o, d, p).ptr = p
<1>1. Idle \in Calls
  BY LibavifAssumption DEF Idle, Calls, Ops
<1>2. ASSUME NEW o \in Ops, NEW d \in Decoders, NEW p \in {"null", "ptr"}
      PROVE  /\ Call(o, d, p) \in Calls
             /\ Call(o, d, p).op = o /\ Call(o, d, p).on = d /\ Call(o, d, p).ptr = p
  BY <1>1 DEF Call, Calls
<1> QED
  BY <1>1, <1>2

(* A thread that enters a native function is in a call on a decoder.       *)
LEMMA EnteredOnDecoder ==
  ASSUME HandleInv, NEW t \in Threads, NEW op \in Ops \ {"idle"}, Enter(t, op)
  PROVE  call[t].on \in Decoders /\ call[t] \in Calls /\ call[t].op = op
  BY DEF HandleInv, CallsWellFormed, TypeOK, Enter

(* The method of a decoder that enters its native function finds it live.  *)
LEMMA EnteredLive ==
  ASSUME HandleInv, NEW t \in Threads, NEW op \in DecoderOps, Enter(t, op)
  PROVE  Live(call[t].on)
<1>1. call[t].ptr \in {"null", "ptr"} /\ call[t].op \in DecoderOps
  BY DEF HandleInv, TypeOK, Calls, Enter
<1>2. "nullPointer" \notin CallFaults(t) /\ "useAfterDestroy" \notin CallFaults(t)
  BY DEF Enter
<1>3. call[t].ptr # "null"
  BY <1>1, <1>2 DEF CallFaults, FaultKinds
<1> QED
  BY <1>1, <1>2, <1>3 DEF CallFaults, FaultKinds

(***************************************************************************)
(* The steps that construct, clear and destroy nothing: the handles are    *)
(* unchanged, native decoders at most move, and no thread enters or leaves *)
(* create() or destroyContext().                                           *)
(***************************************************************************)
Bystander ==
  /\ SameHeap
  /\ UNCHANGED handles
  /\ \A t \in Threads :
       \/ call'[t] = call[t]
       \/ call[t].op \notin {"create", "destroy"} /\ call'[t] = Idle
       \/ call[t] = Idle /\ call'[t].op \in FrameOps /\ call'[t].on \in Decoders
       \/ /\ call[t] = Idle /\ call'[t].op \in DecoderOps \cup {"close"}
          /\ call'[t].on \in held

(* A bystander's step keeps the invariant.                                 *)
LEMMA BystanderStep ==
  ASSUME HandleInv, Bystander, TypeOK'
  PROVE  HandleInv'
<1> USE DEF HandleInv, Bystander, SameHeap, handles
<1>1. CallsWellFormed'
  BY DEF CallsWellFormed, Live, Idle, TypeOK, FrameOps, DecoderOps
<1>2. OneCreator'
  BY DEF OneCreator, Idle, FrameOps, DecoderOps
<1>3. HeldConstructed' /\ FinalizedUnheld' /\ UnallocatedUnset'
  BY DEF HeldConstructed, FinalizedUnheld, UnallocatedUnset
<1>4. HandleValid' /\ LeakReportExact'
  BY DEF HandleValid, LeakReportExact, Live, TypeOK
<1>5. NoOrphan'
  BY DEF NoOrphan, Live, Idle
<1> QED
  BY <1>1, <1>2, <1>3, <1>4, <1>5

(* Each step that is a bystander's: it keeps the types, and is one.        *)
LEMMA isAvifImageStep ==
  ASSUME HandleInv, NEW t \in Threads, NEW a \in Arrays, isAvifImage(t, a)
  PROVE  HandleInv'
<1>1. TypeOK'
  BY DEF HandleInv, TypeOK, isAvifImage, handles
<1>2. Bystander
  BY DEF Bystander, SameHeap, isAvifImage, handles
<1> QED
  BY <1>1, <1>2, BystanderStep

(* A method of a decoder reads the field and calls its native function.    *)
LEMMA InvokeStep ==
  ASSUME HandleInv, NEW t \in Threads, NEW d \in Decoders, NEW op \in DecoderOps,
         Invoke(t, d, op)
  PROVE  HandleInv'
<1>1. context[d] \in {"null", "ptr"}
  BY DEF HandleInv, TypeOK, HeldConstructed, Invoke
<1>2. Call(op, d, context[d]) \in Calls /\ Call(op, d, context[d]).op = op
      /\ Call(op, d, context[d]).on = d
  BY <1>1, CallType DEF Ops
<1>3. TypeOK'
  BY <1>2 DEF HandleInv, TypeOK, Invoke, Begin, handles, memory
<1>4. Bystander
  BY <1>2 DEF HandleInv, TypeOK, Bystander, SameHeap, Invoke, Begin, handles
<1> QED
  BY <1>3, <1>4, BystanderStep

(* close() reads the field.                                                *)
LEMMA closeStep ==
  ASSUME HandleInv, NEW t \in Threads, NEW d \in Decoders, close(t, d)
  PROVE  HandleInv'
<1>1. context[d] \in {"null", "ptr"}
  BY DEF HandleInv, TypeOK, HeldConstructed, close
<1>2. Call("close", d, context[d]) \in Calls /\ Call("close", d, context[d]).op = "close"
      /\ Call("close", d, context[d]).on = d
  BY <1>1, CallType DEF Ops
<1>3. TypeOK'
  BY <1>2 DEF HandleInv, TypeOK, close, Begin, handles, memory
<1>4. Bystander
  BY <1>2 DEF HandleInv, TypeOK, Bystander, SameHeap, close, Begin, handles
<1> QED
  BY <1>3, <1>4, BystanderStep

(* A method of a frame calls its native function.                          *)
LEMMA invokeFrameStep ==
  ASSUME HandleInv, NEW t \in Threads, NEW f \in frames, NEW op \in FrameOps,
         invokeFrame(t, f, op)
  PROVE  HandleInv'
<1> DEFINE c == [Call(op, f.of, "ptr") EXCEPT !.image = f.image]
<1>1. f.of \in Decoders /\ f.image \in 0 .. MaxResets
  BY DEF HandleInv, TypeOK, Frames
<1>2. Call(op, f.of, "ptr") \in Calls /\ Call(op, f.of, "ptr").op = op
      /\ Call(op, f.of, "ptr").on = f.of
  BY <1>1, CallType DEF Ops
<1>3. c \in Calls /\ c.op = op /\ c.on = f.of
  BY <1>1, <1>2 DEF Calls
<1>4. call[t] = Idle /\ call' = [call EXCEPT ![t] = c]
  BY DEF invokeFrame, Begin
<1> HIDE DEF c
<1>5. TypeOK'
  BY <1>3, <1>4 DEF HandleInv, TypeOK, invokeFrame, handles, memory
<1>6. Bystander
  BY <1>1, <1>3, <1>4 DEF HandleInv, TypeOK, Bystander, SameHeap, invokeFrame, handles
<1> QED
  BY <1>5, <1>6, BystanderStep

(* reset moves one decoder back and replaces its image.                    *)
LEMMA resetStep ==
  ASSUME HandleInv, NEW t \in Threads, NEW ok \in BOOLEAN, reset(t, ok)
  PROVE  HandleInv'
<1>1. call[t].on \in Decoders /\ call[t].op = "reset"
  BY EnteredOnDecoder DEF reset, Ops, DecoderOps
<1>2. native' \in [Decoders -> NativeDecoders] /\ SameHeap
  BY <1>1, ResetKeepsHeap DEF reset, HandleInv, TypeOK
<1>3. TypeOK'
  BY <1>2, CallType DEF HandleInv, TypeOK, reset, Return, handles, memory
<1>4. Bystander
  BY <1>1, <1>2 DEF HandleInv, TypeOK, Bystander, reset, Return, handles
<1> QED
  BY <1>3, <1>4, BystanderStep

(* nextFrame moves one decoder.                                            *)
LEMMA nextFrameStep ==
  ASSUME HandleInv, NEW t \in Threads, NEW ok \in BOOLEAN, nextFrame(t, ok)
  PROVE  HandleInv'
<1>1. call[t].on \in Decoders /\ call[t].op = "nextFrame"
  BY EnteredOnDecoder DEF nextFrame, Ops, DecoderOps
<1>2. native' \in [Decoders -> NativeDecoders] /\ SameHeap
  BY <1>1, NextImageKeepsHeap DEF nextFrame, HandleInv, TypeOK
<1>3. TypeOK'
  BY <1>2, CallType DEF HandleInv, TypeOK, nextFrame, Return, handles, memory
<1>4. Bystander
  BY <1>1, <1>2 DEF HandleInv, TypeOK, Bystander, nextFrame, Return, handles
<1> QED
  BY <1>3, <1>4, BystanderStep

(* nthFrame moves one decoder.                                             *)
LEMMA nthFrameStep ==
  ASSUME HandleInv, NEW t \in Threads, NEW ok \in BOOLEAN, NEW i \in Int,
         nthFrame(t, i, ok)
  PROVE  HandleInv'
<1>1. call[t].on \in Decoders /\ call[t].op = "nthFrame"
  BY EnteredOnDecoder DEF nthFrame, Ops, DecoderOps
<1>2. native' \in [Decoders -> NativeDecoders] /\ SameHeap
  BY <1>1, NthImageKeepsHeap DEF nthFrame, HandleInv, TypeOK
<1>3. TypeOK'
  BY <1>2, CallType DEF HandleInv, TypeOK, nthFrame, Return, handles, memory
<1>4. Bystander
  BY <1>1, <1>2 DEF HandleInv, TypeOK, Bystander, nthFrame, Return, handles
<1> QED
  BY <1>3, <1>4, BystanderStep

(* getFrame adds a frame object.                                           *)
LEMMA getFrameStep ==
  ASSUME HandleInv, NEW t \in Threads, getFrame(t)
  PROVE  HandleInv'
<1>1. call[t].on \in Decoders /\ call[t].op = "getFrame"
  BY EnteredOnDecoder DEF getFrame, Ops, DecoderOps
<1>2. [of |-> call[t].on, image |-> native[call[t].on].image] \in Frames
  BY <1>1 DEF HandleInv, TypeOK, NativeDecoders, Frames
<1>3. TypeOK'
  BY <1>2, CallType DEF HandleInv, TypeOK, getFrame, Return, handles, memory
<1>4. Bystander
  BY <1>1 DEF HandleInv, TypeOK, Bystander, SameHeap, getFrame, Return, handles
<1> QED
  BY <1>3, <1>4, BystanderStep

(* The steps that end a call and change nothing else.                      *)
LEMMA ReturnStep ==
  ASSUME HandleInv, NEW t \in Threads, call[t].op \notin {"create", "destroy"},
         Return(t), UNCHANGED <<native, handles, frames, memory, faults>>
  PROVE  HandleInv'
<1>1. TypeOK'
  BY CallType DEF HandleInv, TypeOK, Return, handles, memory
<1>2. Bystander
  BY DEF HandleInv, TypeOK, Bystander, SameHeap, Return, handles
<1> QED
  BY <1>1, <1>2, BystanderStep

(* The steps of the collector on arrays, undefined behaviour, stuttering:  *)
(* no call changes.                                                        *)
LEMMA NoCallStep ==
  ASSUME HandleInv, UNCHANGED <<native, handles, frames, elements, call>>,
         bytesHeld' \subseteq Arrays, collected' \subseteq Arrays,
         faults' \subseteq FaultKinds
  PROVE  HandleInv'
<1>1. TypeOK'
  BY DEF HandleInv, TypeOK, handles
<1>2. Bystander
  BY DEF HandleInv, TypeOK, Bystander, SameHeap, handles
<1> QED
  BY <1>1, <1>2, BystanderStep
-------------------------------------------------------------------------------
(* The steps that construct, clear and destroy.                            *)

(* createContext makes a decoder live that only its caller knows of.       *)
LEMMA createContextStep ==
  ASSUME HandleInv, NEW t \in Threads, NEW d \in Decoders, NEW a \in Arrays,
         NEW isCopy \in BOOLEAN, createContext(t, d, a, isCopy)
  PROVE  HandleInv'
<1> DEFINE c == Call("create", d, "ptr")
<1>1. c \in Calls /\ c.op = "create" /\ c.on = d
  BY CallType DEF Ops
<1>2. call[t] = Idle /\ call' = [call EXCEPT ![t] = c]
  BY DEF createContext, Begin
<1>3. /\ native' \in [Decoders -> NativeDecoders]
      /\ native'[d].state = "live"
      /\ \A e \in Decoders \ {d} : native'[e] = native[e]
  BY CreateMakesLive DEF createContext, HandleInv, TypeOK
<1>4. /\ UNCHANGED <<context, held, finalized, reported, frames, bytesHeld, collected, faults>>
      /\ elements' = elements \cup {d}
      /\ native[d].state = "none" /\ context[d] = "unset"
  BY DEF createContext, handles, HandleInv, UnallocatedUnset
<1> HIDE DEF c
<1> USE DEF HandleInv
<1>5. TypeOK'
  BY <1>1, <1>2, <1>3, <1>4 DEF TypeOK
<1>6. CallsWellFormed'
  <2> SUFFICES ASSUME NEW u \in Threads
               PROVE  CallsWellFormed!(u)'
    BY DEF CallsWellFormed
  <2>1. CASE u = t
    BY <1>1, <1>2, <1>3, <1>4, <2>1 DEF Live, TypeOK, DecoderOps
  <2>2. CASE u # t
    <3>1. call'[u] = call[u]
      BY <1>2, <2>2 DEF TypeOK
    <3>2. call[u].op = "create" => call[u].on # d
      BY <1>4 DEF CallsWellFormed, Live
    <3> QED
      BY <1>3, <1>4, <3>1, <3>2 DEF CallsWellFormed, Live
  <2> QED
    BY <2>1, <2>2
<1>7. OneCreator'
  BY <1>1, <1>2, <1>4 DEF OneCreator, CallsWellFormed, Live, Idle, TypeOK
<1>8. HeldConstructed' /\ FinalizedUnheld' /\ UnallocatedUnset'
  BY <1>3, <1>4 DEF HeldConstructed, FinalizedUnheld, UnallocatedUnset
<1>9. HandleValid' /\ LeakReportExact'
  BY <1>3, <1>4 DEF HandleValid, LeakReportExact, FinalizedUnheld, Live, TypeOK
<1>10. NoOrphan'
  BY <1>1, <1>2, <1>3, <1>4 DEF NoOrphan, Live, Idle, TypeOK
<1> QED
  BY <1>5, <1>6, <1>7, <1>8, <1>9, <1>10

(* The constructor takes over the decoder that its thread has made.        *)
LEMMA createOkStep ==
  ASSUME HandleInv, NEW t \in Threads, createOk(t)
  PROVE  HandleInv'
<1> DEFINE d == call[t].on
<1>1. d \in Decoders /\ call[t].op = "create" /\ context[d] = "unset" /\ Live(d)
  BY EnteredOnDecoder DEF createOk, Ops, HandleInv, CallsWellFormed
<1>2. /\ context' = [context EXCEPT ![d] = "ptr"]
      /\ held' = held \cup {d}
      /\ call' = [call EXCEPT ![t] = Idle]
      /\ UNCHANGED <<native, finalized, reported, frames, elements, bytesHeld,
                     collected, faults>>
  BY DEF createOk, Return, memory
<1> HIDE DEF d
<1> USE DEF HandleInv
<1>3. TypeOK'
  BY <1>1, <1>2, CallType DEF TypeOK
<1>4. CallsWellFormed'
  <2> SUFFICES ASSUME NEW u \in Threads, u # t
               PROVE  CallsWellFormed!(u)'
    BY <1>2 DEF CallsWellFormed, Idle, TypeOK, DecoderOps
  <2>1. call'[u] = call[u]
    BY <1>2 DEF TypeOK
  <2>2. call[u].op \in {"create", "destroy"} => call[u].on # d
    BY <1>1 DEF OneCreator, CallsWellFormed, d
  <2> QED
    BY <1>1, <1>2, <2>1, <2>2 DEF CallsWellFormed, Live, TypeOK
<1>5. OneCreator'
  BY <1>2 DEF OneCreator, Idle, TypeOK
<1>6. HeldConstructed' /\ FinalizedUnheld' /\ UnallocatedUnset'
  BY <1>1, <1>2 DEF HeldConstructed, FinalizedUnheld, UnallocatedUnset, Live, TypeOK
<1>7. HandleValid' /\ LeakReportExact'
  BY <1>1, <1>2 DEF HandleValid, LeakReportExact, Live, TypeOK
<1>8. NoOrphan'
  BY <1>1, <1>2 DEF NoOrphan, Live, Idle, TypeOK, d
<1> QED
  BY <1>3, <1>4, <1>5, <1>6, <1>7, <1>8

(* The cleanup of createContext frees the decoder nobody else knows of.    *)
LEMMA createFailsStep ==
  ASSUME HandleInv, NEW t \in Threads, createFails(t)
  PROVE  HandleInv'
<1> DEFINE d == call[t].on
<1>1. d \in Decoders /\ call[t].op = "create" /\ context[d] = "unset"
  BY EnteredOnDecoder DEF createFails, Ops, HandleInv, CallsWellFormed
<1>2. /\ native' \in [Decoders -> NativeDecoders]
      /\ native'[d].state = "destroyed"
      /\ \A e \in Decoders \ {d} : native'[e] = native[e]
  BY <1>1, DestroyFrees DEF createFails, HandleInv, TypeOK
<1>3. /\ call' = [call EXCEPT ![t] = Idle]
      /\ UNCHANGED <<context, held, finalized, reported, frames, elements, bytesHeld,
                     collected, faults>>
  BY DEF createFails, Return, handles, memory
<1>4. \A u \in Threads \ {t} : call[u].op = "create" => call[u].on # d
  BY <1>1 DEF HandleInv, OneCreator
<1> HIDE DEF d
<1> USE DEF HandleInv
<1>5. TypeOK'
  BY <1>2, <1>3, CallType DEF TypeOK
<1>6. CallsWellFormed'
  BY <1>1, <1>2, <1>3, <1>4 DEF CallsWellFormed, Live, Idle, TypeOK, DecoderOps
<1>7. OneCreator'
  BY <1>3 DEF OneCreator, Idle, TypeOK
<1>8. HeldConstructed' /\ FinalizedUnheld' /\ UnallocatedUnset'
  BY <1>1, <1>2, <1>3 DEF HeldConstructed, FinalizedUnheld, UnallocatedUnset
<1>9. HandleValid' /\ LeakReportExact'
  BY <1>1, <1>2, <1>3 DEF HandleValid, LeakReportExact, FinalizedUnheld, Live, TypeOK
<1>10. NoOrphan'
  BY <1>1, <1>2, <1>3 DEF NoOrphan, Live, Idle, TypeOK, d
<1> QED
  BY <1>5, <1>6, <1>7, <1>8, <1>9, <1>10

(* close() takes the address out of the object and keeps it for itself.    *)
LEMMA clearContextStep ==
  ASSUME HandleInv, NEW t \in Threads, clearContext(t)
  PROVE  HandleInv'
<1> DEFINE d == call[t].on
<1>1. d \in Decoders /\ call[t] \in Calls /\ call[t].op = "close"
  BY EnteredOnDecoder DEF clearContext, Ops
<1>2. d \in held /\ context[d] # "unset"
  BY <1>1 DEF HandleInv, CallsWellFormed, HeldConstructed
<1>3. /\ context' = [context EXCEPT ![d] = "null"]
      /\ call' = [call EXCEPT ![t].op = "destroy"]
      /\ UNCHANGED <<native, held, finalized, reported, frames, elements, bytesHeld,
                     collected, faults>>
  BY DEF clearContext, memory
<1>4. /\ call'[t] \in Calls /\ call'[t].op = "destroy" /\ call'[t].on = d
      /\ \A u \in Threads \ {t} : call'[u] = call[u]
      /\ call' \in [Threads -> Calls]
  BY <1>1, <1>3 DEF HandleInv, TypeOK, Calls, Ops
<1> HIDE DEF d
<1> USE DEF HandleInv
<1>5. TypeOK'
  BY <1>3, <1>4 DEF TypeOK
<1>6. CallsWellFormed'
  BY <1>1, <1>2, <1>3, <1>4 DEF CallsWellFormed, Live, Idle, TypeOK, DecoderOps
<1>7. OneCreator'
  BY <1>4 DEF OneCreator, TypeOK
<1>8. HeldConstructed' /\ FinalizedUnheld' /\ UnallocatedUnset'
  BY <1>2, <1>3 DEF HeldConstructed, FinalizedUnheld, UnallocatedUnset, TypeOK
<1>9. HandleValid' /\ LeakReportExact'
  BY <1>3 DEF HandleValid, LeakReportExact, Live, TypeOK
<1>10. NoOrphan'
  BY <1>1, <1>3, <1>4 DEF NoOrphan, Live, TypeOK
<1> QED
  BY <1>5, <1>6, <1>7, <1>8, <1>9, <1>10

(* destroyContext frees a decoder whose object no longer has its address.  *)
LEMMA destroyContextStep ==
  ASSUME HandleInv, NEW t \in Threads, destroyContext(t)
  PROVE  HandleInv'
<1> DEFINE d == call[t].on
<1>1. d \in Decoders /\ d \in held /\ call[t].op = "destroy" /\ context[d] = "null"
  BY EnteredOnDecoder DEF destroyContext, Ops, HandleInv, CallsWellFormed
<1>2. /\ native' \in [Decoders -> NativeDecoders]
      /\ native'[d].state = "destroyed"
      /\ \A e \in Decoders \ {d} : native'[e] = native[e]
  BY <1>1, DestroyFrees DEF destroyContext, HandleInv, TypeOK
<1>3. /\ call' = [call EXCEPT ![t] = Idle]
      /\ UNCHANGED <<context, held, finalized, reported, frames, elements, bytesHeld,
                     collected, faults>>
  BY DEF destroyContext, Return, handles, memory
<1> HIDE DEF d
<1> USE DEF HandleInv
<1>5. TypeOK'
  BY <1>2, <1>3, CallType DEF TypeOK
<1>6. CallsWellFormed'
  BY <1>1, <1>2, <1>3 DEF CallsWellFormed, Live, Idle, TypeOK, DecoderOps
<1>7. OneCreator'
  BY <1>3 DEF OneCreator, Idle, TypeOK
<1>8. HeldConstructed' /\ FinalizedUnheld' /\ UnallocatedUnset'
  BY <1>1, <1>2, <1>3 DEF HeldConstructed, FinalizedUnheld, UnallocatedUnset
<1>9. HandleValid' /\ LeakReportExact'
  BY <1>1, <1>2, <1>3 DEF HandleValid, LeakReportExact, FinalizedUnheld, Live, TypeOK
<1>10. NoOrphan'
  BY <1>1, <1>2, <1>3 DEF NoOrphan, Live, Idle, TypeOK, d
<1> QED
  BY <1>5, <1>6, <1>7, <1>8, <1>9, <1>10

(* A decoder that is dropped is in no call.                                *)
LEMMA dropDecoderStep ==
  ASSUME HandleInv, NEW d \in Decoders, dropDecoder(d)
  PROVE  HandleInv'
<1> USE DEF HandleInv, dropDecoder, memory
<1>1. TypeOK' /\ OneCreator' /\ HeldConstructed' /\ UnallocatedUnset'
  BY DEF TypeOK, OneCreator, HeldConstructed, UnallocatedUnset
<1>2. CallsWellFormed'
  BY DEF CallsWellFormed, Live
<1>3. FinalizedUnheld' /\ HandleValid' /\ LeakReportExact' /\ NoOrphan'
  BY DEF FinalizedUnheld, HandleValid, LeakReportExact, NoOrphan, Live
<1> QED
  BY <1>1, <1>2, <1>3

(* The field that finalize() reads tells whether the decoder is live.      *)
LEMMA finalizeStep ==
  ASSUME HandleInv, NEW d \in Decoders, finalize(d)
  PROVE  HandleInv'
<1> USE DEF HandleInv, finalize, memory
<1>1. TypeOK'
  BY DEF TypeOK
<1>2. CallsWellFormed' /\ OneCreator' /\ HeldConstructed' /\ UnallocatedUnset'
  BY DEF CallsWellFormed, OneCreator, HeldConstructed, UnallocatedUnset, Live
<1>3. HandleValid' /\ NoOrphan' /\ FinalizedUnheld'
  BY DEF HandleValid, NoOrphan, FinalizedUnheld, Live
<1>4. context[d] # "null" <=> Live(d)
  <2>1. context[d] # "null" => Live(d)
    BY DEF TypeOK, HandleValid
  <2>2. \A t \in Threads : call[t].on = d => call[t].op \notin {"create", "destroy"}
    BY DEF CallsWellFormed
  <2> QED
    BY <2>1, <2>2 DEF NoOrphan
<1>5. LeakReportExact'
  <2>1. \A e \in Decoders : Live(e)' <=> Live(e)
    BY DEF Live
  <2>2. d \notin reported
    BY DEF FinalizedUnheld
  <2> QED
    BY <1>4, <2>1, <2>2 DEF LeakReportExact, TypeOK
<1> QED
  BY <1>1, <1>2, <1>3, <1>5
-------------------------------------------------------------------------------
(* The theorems that hold of any caller.                                   *)

(* The invariant holds at the start ...                                    *)
LEMMA HandleInit == Init => HandleInv
<1> SUFFICES ASSUME Init PROVE HandleInv
  OBVIOUS
<1> USE DEF Init
<1>1. TypeOK
  BY UnallocatedType, CallType DEF TypeOK
<1>2. CallsWellFormed /\ OneCreator
  BY DEF CallsWellFormed, OneCreator, Idle, DecoderOps
<1>3. HeldConstructed /\ FinalizedUnheld /\ UnallocatedUnset
  BY DEF HeldConstructed, FinalizedUnheld, UnallocatedUnset
<1>4. HandleValid /\ NoOrphan /\ LeakReportExact
  BY DEF HandleValid, NoOrphan, LeakReportExact, Live, Unallocated
<1> QED
  BY <1>1, <1>2, <1>3, <1>4 DEF HandleInv

(* ... and every step keeps it.                                            *)
LEMMA HandleStep == HandleInv /\ [Next]_vars => HandleInv'
<1> SUFFICES ASSUME HandleInv, [Next]_vars PROVE HandleInv'
  OBVIOUS
<1> USE DEF HandleInv
<1>1. CASE UNCHANGED vars
  BY <1>1, NoCallStep DEF vars, handles, TypeOK
<1>2. CASE \E t \in Threads : Start(t)
  <2> PICK t \in Threads : Start(t)
    BY <1>2
  <2>1. ASSUME NEW a \in Arrays, isAvifImage(t, a) PROVE HandleInv'
    BY <2>1, isAvifImageStep
  <2>2. ASSUME NEW d \in Decoders, NEW a \in Arrays, NEW isCopy \in BOOLEAN,
               createContext(t, d, a, isCopy)
        PROVE  HandleInv'
    BY <2>2, createContextStep
  <2>3. ASSUME NEW d \in Decoders, NEW op \in DecoderOps, Invoke(t, d, op)
        PROVE  HandleInv'
    BY <2>3, InvokeStep
  <2>4. ASSUME NEW d \in Decoders, close(t, d) PROVE HandleInv'
    BY <2>4, closeStep
  <2>5. ASSUME NEW f \in frames, NEW op \in FrameOps, invokeFrame(t, f, op)
        PROVE  HandleInv'
    BY <2>5, invokeFrameStep
  <2> QED
    BY <2>1, <2>2, <2>3, <2>4, <2>5 DEF Start
<1>3. CASE \E t \in Threads : Proceed(t)
  <2> PICK t \in Threads : Proceed(t)
    BY <1>3
  <2>1. CASE createOk(t) \/ createFails(t)
    BY <2>1, createOkStep, createFailsStep
  <2>2. ASSUME NEW ok \in BOOLEAN, reset(t, ok) \/ nextFrame(t, ok) PROVE HandleInv'
    BY <2>2, resetStep, nextFrameStep
  <2>3. ASSUME NEW ok \in BOOLEAN, NEW i \in -1 .. FrameCount, nthFrame(t, i, ok)
        PROVE  HandleInv'
    <3>1. i \in Int
      BY LibavifAssumption
    <3> QED
      BY <2>3, <3>1, nthFrameStep
  <2>4. CASE getFrame(t)
    BY <2>4, getFrameStep
  <2>5. CASE getField(t) \/ getSize(t) \/ closeNothing(t)
    BY <2>5, ReturnStep DEF getField, getSize, closeNothing, Enter
  <2>6. ASSUME NEW ok \in BOOLEAN, decodeFrame(t, ok) PROVE HandleInv'
    BY <2>6, ReturnStep DEF decodeFrame, Enter
  <2>7. CASE clearContext(t) \/ destroyContext(t)
    BY <2>7, clearContextStep, destroyContextStep
  <2>8. CASE Undefined(t)
    BY <2>8, NoCallStep DEF Undefined, handles, memory, TypeOK, CallFaults
  <2> QED
    BY <2>1, <2>2, <2>3, <2>4, <2>5, <2>6, <2>7, <2>8 DEF Proceed
<1>4. CASE Collector
  <2>1. ASSUME NEW d \in Decoders, dropDecoder(d) \/ finalize(d) PROVE HandleInv'
    BY <2>1, dropDecoderStep, finalizeStep
  <2>2. ASSUME NEW a \in Arrays, dropBytes(a) \/ collect(a) PROVE HandleInv'
    BY <2>2, NoCallStep DEF dropBytes, collect, handles, TypeOK
  <2> QED
    BY <1>4, <2>1, <2>2 DEF Collector
<1> QED
  BY <1>1, <1>2, <1>3, <1>4 DEF Next

(* The inductive invariant holds, whatever the callers do.                 *)
THEOREM HandlesAlwaysSound == Spec => []HandleInv
  BY HandleInit, HandleStep, PTL DEF Spec

(* Every variable keeps its type.                                          *)
THEOREM TypesCorrect == Spec => []TypeOK
  BY HandlesAlwaysSound, PTL DEF HandleInv

(* In every interleaving of any calls of any threads, promises or none,    *)
(* the address in a Kotlin object is that of a live native decoder.        *)
THEOREM HandlesValid == Spec => []HandleValid
  BY HandlesAlwaysSound, PTL DEF HandleInv

(* No path of create() and close() strands a native decoder.               *)
THEOREM NothingOrphaned == Spec => []NoOrphan
  BY HandlesAlwaysSound, PTL DEF HandleInv

(* finalize() prints "leaked!" exactly when the decoder was not destroyed. *)
THEOREM LeaksReported == Spec => []LeakReportExact
  BY HandlesAlwaysSound, PTL DEF HandleInv
-------------------------------------------------------------------------------
(* The theorem that holds of the callers that keep their promises.         *)

(* No thread is about to do what is undefined.                             *)
LEMMA NoCallFaults ==
  ASSUME CallInv, NEW t \in Threads
  PROVE  CallFaults(t) = {}
<1> USE DEF CallInv, CallFaults
<1>1. CASE call[t].op \in DecoderOps
  <2>1. call[t].on \in Decoders /\ call[t].ptr = "ptr" /\ context[call[t].on] = "ptr"
    BY <1>1 DEF CallsSafe, HandleInv, CallsWellFormed, DecoderOps
  <2>2. Live(call[t].on)
    BY <2>1 DEF HandleInv, HandleValid
  <2>3. ~InputFreed(call[t].on)
    BY <2>1, <2>2 DEF InputHeld, InputFreed
  <2> QED
    BY <1>1, <2>1, <2>2, <2>3 DEF DecoderOps, FrameOps
<1>2. CASE call[t].op = "destroy"
  BY <1>2 DEF CallsSafe, DecoderOps, FrameOps
<1>3. CASE call[t].op \in FrameOps
  <2>1. ImageLive(call[t].on, call[t].image)
    BY <1>3 DEF CallsSafe, HandleInv, HandleValid, CallsWellFormed, ImageLive, FrameOps
  <2> QED
    BY <1>3, <2>1 DEF DecoderOps, FrameOps
<1>4. CASE call[t].op \notin DecoderOps \cup FrameOps \cup {"destroy"}
  BY <1>4 DEF DecoderOps
<1> QED
  BY <1>1, <1>2, <1>3, <1>4

(* A call that ends may change its own decoder, and no other.              *)
LEMMA SafeReturn ==
  ASSUME CallInv, NEW t \in Threads, Return(t),
         \A e \in Decoders \ {call[t].on} :
           /\ native'[e].state = native[e].state /\ native'[e].image = native[e].image
           /\ context'[e] = context[e]
  PROVE  OneCall' /\ CallsSafe'
<1> USE DEF CallInv, HandleInv, TypeOK
<1>1. \A u \in Threads : call'[u] = IF u = t THEN Idle ELSE call[u]
  BY DEF Return
<1>2. OneCall'
  BY <1>1 DEF OneCall, Idle
<1>3. ASSUME NEW u \in Threads, u # t, call[u].op # "idle"
      PROVE  call[u].on \in Decoders \ {call[t].on}
  BY <1>3, JniAssumption DEF OneCall, CallsWellFormed
<1>4. CallsSafe'
  BY <1>1, <1>3 DEF CallsSafe, Live, Idle, DecoderOps, FrameOps
<1> QED
  BY <1>2, <1>4

(* A call that starts is the only one on its decoder.                      *)
LEMMA SafeBegin ==
  ASSUME CallInv, NEW t \in Threads, NEW d \in Decoders, NEW c \in Calls, c.on = d,
         \A u \in Threads : call[u].on # d,
         call' = [call EXCEPT ![t] = c],
         c.op \in DecoderOps => c.ptr = "ptr" /\ context[d] = "ptr",
         c.op = "close" /\ c.ptr # "null" => context[d] = "ptr",
         c.op # "destroy",
         c.op \in FrameOps => context[d] = "ptr" /\ c.image = native[d].image,
         UNCHANGED context,
         c.op # "create" => native' = native,
         \A e \in Decoders \ {d} : native'[e] = native[e]
  PROVE  OneCall' /\ CallsSafe'
<1> USE DEF CallInv, HandleInv, TypeOK
<1>1. \A u \in Threads : call'[u] = IF u = t THEN c ELSE call[u]
  OBVIOUS
<1>2. OneCall'
  BY <1>1, JniAssumption DEF OneCall
<1>3. ASSUME NEW u \in Threads, u # t, call[u].op # "idle"
      PROVE  call[u].on \in Decoders \ {d}
  BY <1>3 DEF CallsWellFormed
<1>4. ASSUME NEW u \in Threads PROVE CallsSafe!(u)'
  <2>1. CASE u = t
    BY <1>1, <2>1 DEF DecoderOps, FrameOps
  <2>2. CASE u # t
    BY <1>1, <1>3, <2>2 DEF CallsSafe, Live, DecoderOps, FrameOps
  <2> QED
    BY <2>1, <2>2
<1> QED
  BY <1>2, <1>4 DEF CallsSafe

(* The arrays are not touched by a step that keeps what a decoder reads.   *)
LEMMA InputKept ==
  ASSUME CallInv, UNCHANGED <<bytesHeld, collected>>,
         \A d \in Decoders : Live(d)' =>
           /\ Live(d)
           /\ native'[d].io = native[d].io /\ native'[d].copied = native[d].copied
  PROVE  InputHeld'
  BY DEF CallInv, InputHeld

(* The invariant of careful callers holds at the start ...                 *)
LEMMA CallInit == Init => CallInv
<1> SUFFICES ASSUME Init PROVE CallInv
  OBVIOUS
<1> USE DEF Init
<1>1. OneCall /\ CallsSafe
  BY DEF OneCall, CallsSafe, Idle, DecoderOps, FrameOps
<1>2. InputHeld /\ NoFault
  BY DEF InputHeld, NoFault, Live, Unallocated
<1> QED
  BY <1>1, <1>2, HandleInit DEF CallInv

(* The steps that start a call.                                            *)
LEMMA SafeStart ==
  ASSUME CallInv, SafeCallers, NEW t \in Threads, Start(t)
  PROVE  OneCall' /\ CallsSafe' /\ InputHeld' /\ NoFault'
<1> USE DEF CallInv, HandleInv
<1>1. ASSUME NEW a \in Arrays, isAvifImage(t, a)
      PROVE  OneCall' /\ CallsSafe' /\ InputHeld' /\ NoFault'
  <2> USE <1>1 DEF isAvifImage, handles
  <2>1. OneCall' /\ CallsSafe'
    BY DEF OneCall, CallsSafe, Live
  <2>2. InputHeld' /\ NoFault'
    BY DEF InputHeld, NoFault, Live
  <2> QED
    BY <2>1, <2>2
<1>2. ASSUME NEW d \in Decoders, NEW a \in Arrays, NEW isCopy \in BOOLEAN,
             createContext(t, d, a, isCopy)
      PROVE  OneCall' /\ CallsSafe' /\ InputHeld' /\ NoFault'
  <2> DEFINE c == Call("create", d, "ptr")
  <2>1. c \in Calls /\ c.op = "create" /\ c.on = d
    BY CallType DEF Ops
  <2>2. /\ call' = [call EXCEPT ![t] = c]
        /\ UNCHANGED <<context, bytesHeld, collected, faults>>
        /\ native[d].state = "none" /\ a \in bytesHeld
        /\ Platform = "jvm" => isCopy
    BY <1>2 DEF createContext, Begin, handles
  <2>3. /\ native'[d].state = "live" /\ native'[d].io = a /\ native'[d].copied = isCopy
        /\ \A e \in Decoders \ {d} : native'[e] = native[e]
    BY <1>2, CreateMakesLive DEF createContext, TypeOK
  <2>4. \A u \in Threads : call[u].on # d
    <3> SUFFICES ASSUME NEW u \in Threads, call[u].on = d PROVE FALSE
      OBVIOUS
    <3>1. context[d] = "unset" /\ ~Live(d)
      BY <2>2 DEF UnallocatedUnset, Live
    <3>2. call[u].op \notin DecoderOps \cup {"close", "destroy"}
      BY <3>1 DEF CallsWellFormed, HeldConstructed
    <3>3. call[u].op \notin FrameOps \cup {"create"}
      BY <3>1 DEF CallsSafe, CallsWellFormed
    <3>4. call[u].op # "idle"
      BY JniAssumption DEF CallsWellFormed, Idle
    <3> QED
      BY <3>2, <3>3, <3>4 DEF TypeOK, Calls, Ops
  <2> HIDE DEF c
  <2>5. OneCall' /\ CallsSafe'
    BY <2>1, <2>2, <2>3, <2>4, SafeBegin DEF DecoderOps, FrameOps
  <2>6. InputHeld' /\ NoFault'
    BY <2>2, <2>3, JniAssumption DEF InputHeld, NoFault, Live
  <2> QED
    BY <2>5, <2>6
<1>3. ASSUME NEW d \in Decoders, NEW op \in DecoderOps, Invoke(t, d, op)
      PROVE  OneCall' /\ CallsSafe' /\ InputHeld' /\ NoFault'
  <2> DEFINE c == Call(op, d, context[d])
  <2>1. context[d] = "ptr" /\ \A u \in Threads : call[u].on # d
    BY <1>3 DEF Invoke, MayCall, Confined, SafeCallers
  <2>2. c \in Calls /\ c.op = op /\ c.on = d /\ c.ptr = "ptr"
    BY <2>1, CallType DEF Ops
  <2>3. /\ call' = [call EXCEPT ![t] = c]
        /\ UNCHANGED <<native, context, bytesHeld, collected, faults>>
    BY <1>3 DEF Invoke, Begin, handles, memory
  <2> HIDE DEF c
  <2>4. OneCall' /\ CallsSafe'
    BY <2>1, <2>2, <2>3, SafeBegin DEF DecoderOps, FrameOps
  <2>5. InputHeld' /\ NoFault'
    BY <2>3 DEF InputHeld, NoFault, Live
  <2> QED
    BY <2>4, <2>5
<1>4. ASSUME NEW d \in Decoders, close(t, d)
      PROVE  OneCall' /\ CallsSafe' /\ InputHeld' /\ NoFault'
  <2> DEFINE c == Call("close", d, context[d])
  <2>1. context[d] \in {"null", "ptr"} /\ \A u \in Threads : call[u].on # d
    BY <1>4 DEF close, Confined, SafeCallers, TypeOK, HeldConstructed
  <2>2. c \in Calls /\ c.op = "close" /\ c.on = d /\ c.ptr = context[d]
    BY <2>1, CallType DEF Ops
  <2>3. /\ call' = [call EXCEPT ![t] = c]
        /\ UNCHANGED <<native, context, bytesHeld, collected, faults>>
    BY <1>4 DEF close, Begin, handles, memory
  <2> HIDE DEF c
  <2>4. OneCall' /\ CallsSafe'
    BY <2>1, <2>2, <2>3, SafeBegin DEF DecoderOps, FrameOps
  <2>5. InputHeld' /\ NoFault'
    BY <2>3 DEF InputHeld, NoFault, Live
  <2> QED
    BY <2>4, <2>5
<1>5. ASSUME NEW f \in frames, NEW op \in FrameOps, invokeFrame(t, f, op)
      PROVE  OneCall' /\ CallsSafe' /\ InputHeld' /\ NoFault'
  <2> DEFINE c == [Call(op, f.of, "ptr") EXCEPT !.image = f.image]
  <2>1. f.of \in Decoders /\ f.image \in 0 .. MaxResets
    BY DEF TypeOK, Frames
  <2>2. /\ context[f.of] = "ptr" /\ \A u \in Threads : call[u].on # f.of
        /\ f.image = native[f.of].image
    BY <1>5 DEF invokeFrame, MayUseFrame, Confined, SafeCallers
  <2>3. Call(op, f.of, "ptr") \in Calls /\ Call(op, f.of, "ptr").op = op
        /\ Call(op, f.of, "ptr").on = f.of
    BY <2>1, CallType DEF Ops
  <2>4. c \in Calls /\ c.op = op /\ c.on = f.of /\ c.image = f.image
    BY <2>1, <2>3 DEF Calls
  <2>5. /\ call' = [call EXCEPT ![t] = c]
        /\ UNCHANGED <<native, context, bytesHeld, collected, faults>>
    BY <1>5 DEF invokeFrame, Begin, handles, memory
  <2> HIDE DEF c
  <2>6. OneCall' /\ CallsSafe'
    BY <2>1, <2>2, <2>4, <2>5, SafeBegin DEF DecoderOps, FrameOps
  <2>7. InputHeld' /\ NoFault'
    BY <2>5 DEF InputHeld, NoFault, Live
  <2> QED
    BY <2>6, <2>7
<1> QED
  BY <1>1, <1>2, <1>3, <1>4, <1>5 DEF Start

(* The steps inside a call.                                                *)
LEMMA SafeProceed ==
  ASSUME CallInv, NEW t \in Threads, Proceed(t)
  PROVE  OneCall' /\ CallsSafe' /\ InputHeld' /\ NoFault'
<1> DEFINE d == call[t].on
           Safe == OneCall /\ CallsSafe /\ InputHeld /\ NoFault
<1> USE DEF CallInv, HandleInv, TypeOK
<1>1. CASE createOk(t)
  <2>1. /\ Return(t) /\ d \in Decoders
        /\ context' = [context EXCEPT ![d] = "ptr"]
        /\ UNCHANGED <<native, bytesHeld, collected, faults>>
    BY <1>1, EnteredOnDecoder DEF createOk, memory, Ops
  <2>2. OneCall' /\ CallsSafe'
    BY <2>1, SafeReturn
  <2>3. InputHeld' /\ NoFault'
    BY <2>1 DEF InputHeld, NoFault, Live
  <2> QED
    BY <2>2, <2>3
<1>2. CASE createFails(t) \/ destroyContext(t)
  <2>1. /\ Return(t) /\ d \in Decoders /\ avifDecoderDestroy(d)
        /\ UNCHANGED <<context, bytesHeld, collected, faults>>
    BY <1>2, EnteredOnDecoder DEF createFails, destroyContext, handles, memory, Ops
  <2>2. native'[d].state = "destroyed" /\ \A e \in Decoders \ {d} : native'[e] = native[e]
    BY <2>1, DestroyFrees
  <2>3. OneCall' /\ CallsSafe'
    BY <2>1, <2>2, SafeReturn
  <2>4. InputHeld' /\ NoFault'
    BY <2>1, <2>2, InputKept DEF NoFault, Live
  <2> QED
    BY <2>3, <2>4
<1>3. ASSUME NEW ok \in BOOLEAN, reset(t, ok)
      PROVE  Safe'
  <2>1. /\ Return(t) /\ d \in Decoders /\ avifDecoderReset(d, ok)
        /\ UNCHANGED <<context, bytesHeld, collected, faults>>
    BY <1>3, EnteredOnDecoder DEF reset, handles, memory, Ops, DecoderOps
  <2>2. SameHeap /\ \A e \in Decoders \ {d} : native'[e] = native[e]
    BY <2>1, ResetKeepsHeap
  <2>3. OneCall' /\ CallsSafe'
    BY <2>1, <2>2, SafeReturn
  <2>4. InputHeld' /\ NoFault'
    BY <2>1, <2>2, InputKept DEF NoFault, Live, SameHeap
  <2> QED
    BY <2>3, <2>4
<1>4. ASSUME NEW ok \in BOOLEAN,
             nextFrame(t, ok) \/ \E i \in -1 .. FrameCount : nthFrame(t, i, ok)
      PROVE  Safe'
  <2>1. /\ Return(t) /\ d \in Decoders
        /\ \/ avifDecoderNextImage(d, ok)
           \/ \E i \in -1 .. FrameCount : avifDecoderNthImage(d, i, ok)
        /\ UNCHANGED <<context, bytesHeld, collected, faults>>
    BY <1>4, EnteredOnDecoder DEF nextFrame, nthFrame, handles, memory, Ops, DecoderOps
  <2>2. -1 .. FrameCount \subseteq Int
    BY LibavifAssumption
  <2>3. SameHeap /\ \A e \in Decoders : native'[e].image = native[e].image
    BY <2>1, <2>2, NextImageKeepsHeap, NthImageKeepsHeap
  <2>4. OneCall' /\ CallsSafe'
    BY <2>1, <2>3, SafeReturn DEF SameHeap
  <2>5. InputHeld' /\ NoFault'
    BY <2>1, <2>3, InputKept DEF NoFault, Live, SameHeap
  <2> QED
    BY <2>4, <2>5
<1>5. CASE \/ getFrame(t) \/ getField(t) \/ getSize(t) \/ closeNothing(t)
           \/ \E ok \in BOOLEAN : decodeFrame(t, ok)
  <2>1. Return(t) /\ UNCHANGED <<native, context, bytesHeld, collected, faults>>
    BY <1>5 DEF getFrame, getField, getSize, closeNothing, decodeFrame, handles, memory
  <2>2. OneCall' /\ CallsSafe'
    BY <2>1, SafeReturn
  <2>3. InputHeld' /\ NoFault'
    BY <2>1 DEF InputHeld, NoFault, Live
  <2> QED
    BY <2>2, <2>3
<1>6. CASE clearContext(t)
  <2>1. /\ d \in Decoders /\ call[t] \in Calls
        /\ call[t].op = "close" /\ call[t].ptr # "null"
        /\ context' = [context EXCEPT ![d] = "null"]
        /\ call' = [call EXCEPT ![t].op = "destroy"]
        /\ UNCHANGED <<native, bytesHeld, collected, faults>>
    BY <1>6, EnteredOnDecoder DEF clearContext, memory, Ops
  <2>2. Live(d)
    BY <2>1 DEF CallsSafe, HandleValid
  <2>3. /\ call'[t].op = "destroy" /\ call'[t].on = d
        /\ \A u \in Threads \ {t} : call'[u] = call[u]
    BY <2>1 DEF Calls
  <2>4. OneCall'
    BY <2>3 DEF OneCall
  <2>5. ASSUME NEW u \in Threads PROVE CallsSafe!(u)'
    <3>1. CASE u = t
      BY <2>1, <2>2, <2>3, <3>1 DEF Live, DecoderOps, FrameOps
    <3>2. CASE u # t
      <4>1. call[u].op # "idle" => call[u].on \in Decoders \ {d}
        BY <2>1, <3>2, JniAssumption DEF OneCall, CallsWellFormed
      <4> QED
        BY <2>1, <2>3, <3>2, <4>1 DEF CallsSafe, Live, DecoderOps, FrameOps
    <3> QED
      BY <3>1, <3>2
  <2>6. InputHeld' /\ NoFault'
    BY <2>1 DEF InputHeld, NoFault, Live
  <2> QED
    BY <2>4, <2>5, <2>6 DEF CallsSafe
<1>7. ~Undefined(t)
  BY NoCallFaults DEF Undefined
<1> HIDE DEF d
<1> QED
  BY <1>1, <1>2, <1>3, <1>4, <1>5, <1>6, <1>7 DEF Proceed

(* The steps of the collector.                                             *)
LEMMA SafeCollector ==
  ASSUME CallInv, SafeCallers, Collector
  PROVE  OneCall' /\ CallsSafe' /\ InputHeld' /\ NoFault'
<1> USE DEF CallInv, HandleInv, TypeOK
<1>1. UNCHANGED <<native, context, call, faults>>
  BY DEF Collector, dropDecoder, finalize, dropBytes, collect, handles, memory
<1>2. OneCall' /\ CallsSafe' /\ NoFault'
  BY <1>1 DEF OneCall, CallsSafe, NoFault, Live
<1>3. InputHeld'
  <2>1. ASSUME NEW d \in Decoders, dropDecoder(d) \/ finalize(d) PROVE InputHeld'
    BY <2>1, <1>1 DEF dropDecoder, finalize, memory, InputHeld, Live
  <2>2. ASSUME NEW a \in Arrays, dropBytes(a) PROVE InputHeld'
    <3>1. /\ bytesHeld' = bytesHeld \ {a} /\ collected' = collected
          /\ \/ Platform = "jvm"
             \/ \A d \in Decoders : Live(d) /\ ~native[d].copied => native[d].io # a
      BY <2>2 DEF dropBytes, MayForgetBytes, SafeCallers
    <3> QED
      BY <1>1, <3>1 DEF InputHeld, Live
  <2>3. ASSUME NEW a \in Arrays, collect(a) PROVE InputHeld'
    BY <1>1, <2>3 DEF collect, InputHeld, Live
  <2> QED
    BY <2>1, <2>2, <2>3 DEF Collector
<1> QED
  BY <1>2, <1>3

(* ... and every step keeps it.                                            *)
LEMMA CallStep ==
  ASSUME SafeCallers
  PROVE  CallInv /\ [Next]_vars => CallInv'
<1> SUFFICES ASSUME CallInv, [Next]_vars PROVE CallInv'
  OBVIOUS
<1>1. HandleInv'
  BY HandleStep DEF CallInv
<1>2. CASE UNCHANGED vars
  BY <1>1, <1>2 DEF vars, CallInv, OneCall, CallsSafe, InputHeld, NoFault, Live
<1>3. CASE Next
  BY <1>1, <1>3, SafeStart, SafeProceed, SafeCollector DEF Next, CallInv
<1> QED
  BY <1>2, <1>3

(***************************************************************************)
(* Callers that use a decoder and its frames from one place at a time,     *)
(* call nothing after close(), forget the frames when they reset, and, on  *)
(* Android, keep the array, never meet undefined behaviour.                *)
(***************************************************************************)
THEOREM SafeCallersMeetNoFault ==
  ASSUME SafeCallers
  PROVE  Spec => []NoFault
<1>1. Init => CallInv
  BY CallInit
<1>2. CallInv /\ [Next]_vars => CallInv'
  BY CallStep
<1>3. CallInv => NoFault
  BY DEF CallInv
<1> QED
  BY <1>1, <1>2, <1>3, PTL DEF Spec
===============================================================================
