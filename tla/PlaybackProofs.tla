---------------------------- MODULE PlaybackProofs ----------------------------
(***************************************************************************)
(* The safety of the players, and their refinements of JniDecoder and of   *)
(* Slideshow, for every set of players, decoders and arrays, every number  *)
(* of frames, and both platforms.                                          *)
(***************************************************************************)
EXTENDS Playback, JniDecoderProofs

(* Where a player has its decoder open.                                    *)
Playing == DOMAIN Method \cup DOMAIN FrameMethod \cup {"publish", "delay", "close"}

(* The calls a player may be in at each statement.                         *)
CallAt(label, op) ==
  \/ op = "idle"
  \/ label \in DOMAIN Method /\ op = Method[label]
  \/ label \in DOMAIN FrameMethod /\ op = FrameMethod[label]
  \/ label = "create" /\ op = "create"
  \/ label = "close" /\ op \in {"close", "destroy"}

(***************************************************************************)
(* The call of a player is the one of its statement, on its own decoder,   *)
(* whose address it has read from an object that still has it.             *)
(***************************************************************************)
CallOfStatement(p) ==
  /\ CallAt(pc[p], call[p].op)
  /\ call[p].op \notin {"idle", "create"} => call[p].on = decoder[p] /\ call[p].ptr = "ptr"

(* A player has its decoder open until it is about to end.                 *)
DecoderOpen(p) ==
  /\ pc[p] \in {"read", "probe", "create"} => decoder[p] = NoDecoder
  /\ pc[p] \in Playing =>
       /\ decoder[p] \in held
       /\ IF call[p].op = "destroy" THEN Live(decoder[p])
                                    ELSE context[decoder[p]] = "ptr"
  /\ decoder[p] # NoDecoder => context[decoder[p]] # "unset"

(* No two players have the same decoder, and an open one is a player's.    *)
DecodersOwned ==
  /\ \A p, q \in Threads : decoder[p] = decoder[q] /\ decoder[p] # NoDecoder => p = q
  /\ \A d \in Decoders :
       context[d] = "ptr" => \E p \in Threads : decoder[p] = d /\ pc[p] # "done"

(* No player resets a decoder: frames stay valid as long as it lives.      *)
NeverReset ==
  /\ \A d \in Decoders : native[d].image = 0
  /\ \A f \in frames : f.image = 0
  /\ \A p \in Threads : call[p].image = 0

PlayInv ==
  /\ PTypeOK /\ HandleInv
  /\ \A p \in Threads : CallOfStatement(p) /\ DecoderOpen(p)
  /\ DecodersOwned /\ NeverReset /\ OnlyInputFaults

(***************************************************************************)
(* The frame of the decoder, the one in the bitmap and the one in the text *)
(* at each statement of the loop.                                          *)
(***************************************************************************)
FrameFollows(p) ==
  LET i == native[decoder[p]].imageIndex
  IN  /\ pc[p] \in {"read", "probe", "create"} => bitmap[p] = -1
      /\ pc[p] \in {"count", "next", "restart", "publish", "index", "text", "duration", "delay"}
           => i = bitmap[p]
      /\ pc[p] \in {"count", "next", "restart", "frame", "size", "decode"} /\ p \notin Anime
           => bitmap[p] = -1
      /\ pc[p] \in {"frame", "size", "decode"} =>
           \/ i = bitmap[p] + 1
           \/ i = 0 /\ p \in Anime
           \/ i = -1 /\ bitmap[p] = -1
      /\ pc[p] \in {"index", "text", "duration", "delay"} => painted[p] /\ p \in Anime
      /\ pc[p] \in {"text", "duration", "delay"} => caption[p] = bitmap[p]
      /\ call[p].op = "create" => native[call[p].on].imageIndex = -1

ShowInv == PlayInv /\ \A p \in Threads : FrameFollows(p)
-------------------------------------------------------------------------------
(* What the proofs need of the program of a player.                        *)

(* The tables of the methods.                                              *)
LEMMA Tables ==
  /\ DOMAIN Method = {"count", "next", "restart", "frame", "index", "duration"}
  /\ DOMAIN FrameMethod = {"size", "decode", "text"}
  /\ \A l \in {"count", "index", "duration"} : Method[l] = "get"
  /\ Method["next"] = "nextFrame" /\ Method["restart"] = "nthFrame"
  /\ Method["frame"] = "getFrame"
  /\ \A l \in {"size", "text"} : FrameMethod[l] = "getSize"
  /\ FrameMethod["decode"] = "decodeFrame"
  BY DEF Method, FrameMethod

(* The statements that touch no decoder and call nothing.                  *)
Aside(p) == (\E a \in Arrays : readBytes(p, a)) \/ publish(p) \/ wake(p) \/ cancel(p)

(* A player takes the steps of a thread of JniDecoder.                     *)
LEMMA PlayerIsThread ==
  ASSUME PTypeOK, NEW p \in Threads, Player(p)
  PROVE  Aside(p) \/ Start(p) \/ Proceed(p)
<1>1. ASSUME probe(p) PROVE Start(p)
  BY <1>1 DEF probe, isAvifImage, Start, PTypeOK, TypeOK
<1>2. ASSUME NEW d \in Decoders, NEW isCopy \in BOOLEAN, create(p, d, isCopy) PROVE Start(p)
  <2>1. bytes[p] \in Arrays /\ createContext(p, d, bytes[p], isCopy)
    BY <1>2 DEF create, createContext, PTypeOK, TypeOK
  <2> QED
    BY <2>1 DEF Start
<1>3. ASSUME created(p) \/ notCreated(p) PROVE Proceed(p)
  BY <1>3 DEF created, notCreated, Proceed
<1>4. ASSUME invoke(p) PROVE Start(p)
  <2>1. CASE pc[p] \in DOMAIN Method /\ Invoke(p, decoder[p], Method[pc[p]])
    <3>1. decoder[p] \in Decoders /\ Method[pc[p]] \in DecoderOps
      BY <2>1, Tables DEF Invoke, PTypeOK, TypeOK, DecoderOps
    <3> QED
      BY <2>1, <3>1 DEF Start
  <2>2. CASE /\ pc[p] \in DOMAIN FrameMethod
             /\ \E f \in frames :
                  f.of = decoder[p] /\ invokeFrame(p, f, FrameMethod[pc[p]])
    BY <2>2, Tables DEF Start, FrameOps
  <2> QED
    BY <1>4, <2>1, <2>2 DEF invoke
<1>5. ASSUME counted(p) \/ gotFrame(p) \/ captioned(p) \/ captionSized(p) \/ delay(p)
      PROVE  Proceed(p)
  BY <1>5 DEF counted, gotFrame, captioned, captionSized, delay, Proceed
<1>6. ASSUME NEW ok \in BOOLEAN,
             advanced(p, ok) \/ restarted(p, ok) \/ sized(p, ok) \/ decoded(p, ok)
      PROVE  Proceed(p)
  <2>1. 0 \in -1 .. FrameCount
    BY LibavifAssumption
  <2> QED
    BY <1>6, <2>1 DEF advanced, restarted, sized, decoded, Proceed
<1>7. ASSUME closing(p) PROVE Start(p) \/ Proceed(p)
  <2>1. CASE close(p, decoder[p])
    <3>1. decoder[p] \in Decoders
      BY <2>1 DEF close, PTypeOK, TypeOK
    <3> QED
      BY <2>1, <3>1 DEF Start
  <2>2. CASE clearContext(p)
    BY <2>2 DEF Proceed
  <2> QED
    BY <1>7, <2>1, <2>2 DEF closing
<1>8. ASSUME closed(p) \/ undefined(p) PROVE Proceed(p)
  BY <1>8 DEF closed, undefined, Proceed
<1> QED
  BY <1>1, <1>2, <1>3, <1>4, <1>5, <1>6, <1>7, <1>8 DEF Player, Aside

(* Every step of the players is a step of JniDecoder, or none.             *)
LEMMA PlaybackIsJniDecoder == PTypeOK /\ [PNext]_pvars => [Next]_vars
<1> SUFFICES ASSUME PTypeOK, [PNext]_pvars PROVE [Next]_vars
  OBVIOUS
<1>1. CASE UNCHANGED pvars
  BY <1>1 DEF pvars
<1>2. ASSUME NEW p \in Threads, Player(p) \/ cancel(p) PROVE [Next]_vars
  <2>1. Aside(p) \/ Start(p) \/ Proceed(p)
    BY <1>2, PlayerIsThread DEF Aside
  <2>2. Aside(p) => UNCHANGED vars
    BY DEF Aside, readBytes, publish, wake, cancel
  <2> QED
    BY <2>1, <2>2 DEF Next
<1>3. CASE Runtime
  BY <1>3 DEF Runtime, forgetDecoder, forgetBytes, Next, Collector
<1> QED
  BY <1>1, <1>2, <1>3 DEF PNext

(* The decoder of a player, and the one it is making.                      *)
Mine(p) == {decoder[p], call[p].on} \ {NoDecoder}

(* The decoders of two players are apart, those being made included.       *)
LEMMA Apart ==
  ASSUME PlayInv, NEW p \in Threads, NEW q \in Threads \ {p}
  PROVE  Mine(p) \cap Mine(q) = {}
<1> USE DEF PlayInv, HandleInv
<1>1. ASSUME NEW r \in Threads
      PROVE  \/ call[r].on = NoDecoder
             \/ call[r].on = decoder[r]
             \/ call[r].op = "create" /\ context[call[r].on] = "unset" /\ decoder[r] = NoDecoder
  BY Tables DEF CallOfStatement, CallAt, CallsWellFormed, DecoderOpen, Idle
<1> QED
  BY <1>1 DEF Mine, DecoderOpen, DecodersOwned, OneCreator
-------------------------------------------------------------------------------
(***************************************************************************)
(* What a step of player p does to the others: nothing.                    *)
(***************************************************************************)
OthersKept(p) ==
  /\ \A q \in Threads \ {p} :
       /\ pc'[q] = pc[q] /\ call'[q] = call[q] /\ decoder'[q] = decoder[q]
       /\ bitmap'[q] = bitmap[q] /\ painted'[q] = painted[q] /\ caption'[q] = caption[q]
       /\ \A d \in Mine(q) : native'[d] = native[d] /\ context'[d] = context[d]
  /\ held \subseteq held'

(* What it does to the decoders: it opens one, which it has made itself,   *)
(* or none, and ends only with its decoder closed.                         *)
OwnDecoder(p) ==
  /\ \/ decoder'[p] = decoder[p] /\ \A d \in Decoders : context'[d] = "ptr" => context[d] = "ptr"
     \/ /\ decoder[p] = NoDecoder /\ decoder'[p] = call[p].on /\ call[p].on \in Decoders
        /\ \A d \in Decoders : context'[d] = "ptr" => context[d] = "ptr" \/ d = call[p].on
        /\ pc'[p] # "done"
  /\ pc'[p] = "done" /\ decoder[p] \in Decoders => pc[p] = "done" \/ context'[decoder[p]] # "ptr"

(* A step that keeps the promises of its player keeps the invariant.       *)
LEMMA PlayerKeeps ==
  ASSUME PlayInv, NEW p \in Threads, PTypeOK', HandleInv',
         OthersKept(p), OwnDecoder(p),
         CallOfStatement(p)', DecoderOpen(p)', NeverReset', OnlyInputFaults'
  PROVE  PlayInv'
<1> USE DEF PlayInv
<1>1. ASSUME NEW q \in Threads \ {p} PROVE CallOfStatement(q)' /\ DecoderOpen(q)'
  <2>1. decoder[q] # NoDecoder => decoder[q] \in Mine(q)
    BY DEF Mine
  <2>2. pc[q] \in Playing => decoder[q] # NoDecoder
    BY JniAssumption DEF DecoderOpen, HandleInv, TypeOK
  <2>3. CallOfStatement(q)'
    BY DEF CallOfStatement, OthersKept
  <2>4. DecoderOpen(q)'
    BY <2>1, <2>2 DEF DecoderOpen, OthersKept, Live
  <2> QED
    BY <2>3, <2>4
<1>2. ASSUME NEW q \in Threads, NEW r \in Threads,
             decoder'[q] = decoder'[r], decoder'[q] # NoDecoder
      PROVE  q = r
  <2>1. ASSUME NEW s \in Threads \ {p} PROVE decoder'[s] # decoder'[p] \/ decoder'[p] = NoDecoder
    <3>1. Mine(s) \cap Mine(p) = {} /\ decoder'[s] = decoder[s]
      BY Apart DEF OthersKept
    <3>2. decoder'[p] \in Mine(p) \cup {NoDecoder} /\ decoder[s] \in Mine(s) \cup {NoDecoder}
      BY DEF Mine, OwnDecoder
    <3> QED
      BY <3>1, <3>2 DEF Mine
  <2> QED
    BY <1>2, <2>1 DEF OthersKept, DecodersOwned
<1>3. ASSUME NEW d \in Decoders, context'[d] = "ptr"
      PROVE  \E q \in Threads : decoder'[q] = d /\ pc'[q] # "done"
  <2>1. CASE context[d] = "ptr"
    <3> PICK q \in Threads : decoder[q] = d /\ pc[q] # "done"
      BY <2>1 DEF DecodersOwned
    <3>1. CASE q # p
      BY <3>1 DEF OthersKept
    <3>2. CASE q = p
      BY <1>3, <3>2, JniAssumption DEF OwnDecoder
    <3> QED
      BY <3>1, <3>2
  <2>2. CASE context[d] # "ptr"
    BY <1>3, <2>2 DEF OwnDecoder
  <2> QED
    BY <2>1, <2>2
<1> QED
  BY <1>1, <1>2, <1>3 DEF DecodersOwned

(* ... and what the others show is what they showed.                       *)
LEMMA OthersShow ==
  ASSUME PlayInv, NEW p \in Threads, NEW q \in Threads \ {p},
         OthersKept(p), FrameFollows(q)
  PROVE  FrameFollows(q)'
<1>1. pc[q] \in Playing => decoder[q] \in Mine(q)
  BY JniAssumption DEF PlayInv, DecoderOpen, HandleInv, TypeOK, Mine
<1>2. call[q].op = "create" => call[q].on \in Mine(q)
  BY JniAssumption DEF PlayInv, HandleInv, CallsWellFormed, Mine
<1>3. {"count", "next", "restart", "publish", "index", "text", "duration", "delay",
       "frame", "size", "decode"} \subseteq Playing
  BY Tables DEF Playing
<1> QED
  BY <1>1, <1>2, <1>3 DEF FrameFollows, OthersKept
-------------------------------------------------------------------------------
(* A player with its decoder open: the decoder is live, and still on its   *)
(* first avifImage.                                                        *)
LEMMA OpenLive ==
  ASSUME PlayInv, NEW p \in Threads, pc[p] \in Playing
  PROVE  /\ decoder[p] \in Decoders /\ decoder[p] \in held /\ Live(decoder[p])
         /\ native[decoder[p]] \in NativeDecoders
         /\ native[decoder[p]].image = 0
  BY DEF PlayInv, DecoderOpen, HandleInv, HandleValid, TypeOK, NeverReset

(* A player inside a native function is at its statement, on its decoder.  *)
LEMMA InCall ==
  ASSUME PlayInv, NEW p \in Threads, NEW op \in Ops \ {"idle", "create"}, call[p].op = op
  PROVE  /\ CallAt(pc[p], op) /\ pc[p] \in Playing
         /\ call[p].on = decoder[p] /\ call[p].ptr = "ptr" /\ call[p].image = 0
         /\ op # "destroy" => context[decoder[p]] = "ptr"
<1>1. CallAt(pc[p], op) /\ call[p].on = decoder[p] /\ call[p].ptr = "ptr"
  BY DEF PlayInv, CallOfStatement
<1>2. pc[p] \in Playing
  BY <1>1 DEF CallAt, Playing
<1> QED
  BY <1>1, <1>2 DEF PlayInv, DecoderOpen, NeverReset

(* The statement of each native function.                                  *)
LEMMA StatementOf ==
  /\ \A l, op : CallAt(l, op) =>
       /\ op = "nextFrame" => l = "next"
       /\ op = "nthFrame" => l = "restart"
       /\ op = "getFrame" => l = "frame"
       /\ op = "get" => l \in {"count", "index", "duration"}
       /\ op = "getSize" => l \in {"size", "text"}
       /\ op = "decodeFrame" => l = "decode"
       /\ op \in {"close", "destroy"} => l = "close"
       /\ op = "create" => l = "create"
       /\ op # "reset"
  /\ Playing = {"count", "next", "restart", "frame", "index", "duration", "size",
                "decode", "text", "publish", "delay", "close"}
  /\ Labels = Playing \cup {"read", "probe", "create", "done"}
  BY Tables DEF CallAt, Playing, Labels

(* The types of the players.                                               *)
LEMMA PTypeStep == PlayInv /\ [PNext]_pvars => PTypeOK'
<1> SUFFICES ASSUME PlayInv, [PNext]_pvars PROVE PTypeOK'
  OBVIOUS
<1>1. TypeOK'
  BY PlaybackIsJniDecoder, HandleStep DEF PlayInv, HandleInv
<1> USE DEF PlayInv, PTypeOK, Goto
<1>2. CASE UNCHANGED <<pc, player>>
  BY <1>1, <1>2 DEF player
<1>3. ASSUME NEW p \in Threads, Player(p) PROVE PTypeOK'
  <2>1. ASSUME NEW a \in Arrays, readBytes(p, a) PROVE PTypeOK'
    BY <1>1, <2>1, StatementOf DEF readBytes
  <2>2. CASE probe(p) \/ notCreated(p) \/ counted(p) \/ gotFrame(p)
             \/ (\E ok \in BOOLEAN : sized(p, ok))
             \/ captionSized(p) \/ delay(p) \/ closed(p) \/ wake(p)
    BY <1>1, <2>2, StatementOf
       DEF probe, notCreated, counted, gotFrame, sized, captionSized, delay, closed, wake, player
  <2>3. CASE invoke(p) \/ closing(p) \/ undefined(p)
             \/ \E d \in Decoders, isCopy \in BOOLEAN : create(p, d, isCopy)
    BY <1>2, <2>3 DEF invoke, closing, undefined, create
  <2>4. CASE created(p)
    <3>1. call[p].on \in Decoders
      BY <2>4 DEF created, createOk, Enter, HandleInv, CallsWellFormed
    <3> QED
      BY <1>1, <2>4, <3>1, StatementOf DEF created
  <2>5. ASSUME NEW ok \in BOOLEAN, advanced(p, ok) \/ restarted(p, ok) PROVE PTypeOK'
    BY <1>1, <2>5, StatementOf DEF advanced, restarted, player
  <2>6. ASSUME NEW ok \in BOOLEAN, decoded(p, ok) PROVE PTypeOK'
    <3>1. ok => native[decoder[p]].imageIndex \in FrameIndexes
      BY <2>6, InCall DEF decoded, decodeFrame, Enter, Ops, FrameOps
    <3> QED
      BY <1>1, <2>6, <3>1, StatementOf DEF decoded
  <2>7. CASE publish(p)
    BY <1>1, <2>7, StatementOf DEF publish
  <2>8. CASE captioned(p)
    <3>1. native[decoder[p]].imageIndex \in FrameIndexes \cup {-1}
      BY <2>8, OpenLive, StatementOf DEF captioned, At, NativeDecoders
    <3> QED
      BY <1>1, <2>8, <3>1, StatementOf DEF captioned
  <2> QED
    BY <1>3, <2>1, <2>2, <2>3, <2>4, <2>5, <2>6, <2>7, <2>8 DEF Player
<1>4. ASSUME NEW p \in Threads, cancel(p) PROVE PTypeOK'
  BY <1>1, <1>4 DEF cancel
<1> QED
  BY <1>2, <1>3, <1>4 DEF PNext, Runtime, pvars
-------------------------------------------------------------------------------
(***************************************************************************)
(* What each step of player p establishes.                                 *)
(***************************************************************************)
PlayerStep(p) ==
  /\ OthersKept(p) /\ OwnDecoder(p)
  /\ CallOfStatement(p)' /\ DecoderOpen(p)' /\ FrameFollows(p)'
  /\ NeverReset' /\ OnlyInputFaults'

(* The steps that call nothing.                                            *)
LEMMA AsideKeeps ==
  ASSUME ShowInv, NEW p \in Threads, Aside(p) \/ probe(p)
  PROVE  PlayerStep(p)
<1> USE DEF ShowInv, PlayInv, PTypeOK, HandleInv, TypeOK
<1>1. UNCHANGED <<native, context, held, frames, call, collected, faults, decoder, bitmap, caption>>
  BY DEF Aside, readBytes, publish, wake, cancel, probe, isAvifImage, vars, handles, player
<1>2. /\ \A q \in Threads \ {p} : pc'[q] = pc[q] /\ painted'[q] = painted[q]
      /\ painted[p] => painted'[p]
      /\ \/ pc'[p] = pc[p]
         \/ pc[p] = "read" /\ pc'[p] \in {"done", "probe"}
         \/ pc[p] = "probe" /\ pc'[p] = "create" /\ call[p] = Idle
         \/ pc[p] = "publish" /\ painted'[p]
            /\ pc'[p] = IF p \in Anime THEN "index" ELSE "close"
         \/ pc[p] = "delay" /\ pc'[p] \in {"close", "next"}
  BY DEF Aside, readBytes, publish, wake, cancel, probe, isAvifImage, At, Goto, player
<1>3. OthersKept(p)
  BY <1>1, <1>2 DEF OthersKept
<1>4. OwnDecoder(p)
  BY <1>1, <1>2, JniAssumption DEF OwnDecoder, DecoderOpen
<1>5. CallOfStatement(p)'
  BY <1>1, <1>2, StatementOf DEF CallOfStatement, CallAt, Idle, Method, FrameMethod
<1>6. DecoderOpen(p)'
  BY <1>1, <1>2, StatementOf DEF DecoderOpen, CallOfStatement, CallAt, Live
<1>7. FrameFollows(p)'
  BY <1>1, <1>2 DEF FrameFollows
<1>8. NeverReset' /\ OnlyInputFaults'
  BY <1>1 DEF NeverReset, OnlyInputFaults, Live, InputFreed
<1> QED
  BY <1>3, <1>4, <1>5, <1>6, <1>7, <1>8 DEF PlayerStep

(* The steps that end a call without a change to decoders or objects.      *)
LEMMA ReturnKeeps ==
  ASSUME ShowInv, NEW p \in Threads, NEW op \in Ops \ {"idle", "create", "destroy"},
         Enter(p, op), Return(p), PTypeOK', HandleInv',
         UNCHANGED <<native, context, held, collected, faults, decoder, painted>>,
         \A f \in frames' \ frames : f.image = 0,
         \A q \in Threads \ {p} :
           pc'[q] = pc[q] /\ bitmap'[q] = bitmap[q] /\ caption'[q] = caption[q],
         pc'[p] \in Playing, FrameFollows(p)'
  PROVE  PlayerStep(p)
<1> USE DEF ShowInv, PlayInv, PTypeOK, HandleInv, TypeOK
<1>1. call'[p] = Idle /\ \A q \in Threads \ {p} : call'[q] = call[q]
  BY DEF Return
<1>2. pc[p] \in Playing /\ context[decoder[p]] = "ptr" /\ decoder[p] \in Decoders
  BY InCall, OpenLive DEF Enter
<1>3. OthersKept(p)
  BY <1>1 DEF OthersKept
<1>4. OwnDecoder(p)
  BY StatementOf DEF OwnDecoder
<1>5. CallOfStatement(p)'
  BY <1>1 DEF CallOfStatement, CallAt, Idle
<1>6. DecoderOpen(p)'
  BY <1>1, <1>2, StatementOf, OpenLive DEF DecoderOpen, Idle
<1>7. NeverReset' /\ OnlyInputFaults'
  BY <1>1 DEF NeverReset, OnlyInputFaults, Live, InputFreed, Idle
<1> QED
  BY <1>3, <1>4, <1>5, <1>6, <1>7 DEF PlayerStep

(* The reads of a field, the new frame object and the decoding.            *)
LEMMA ReadKeeps ==
  ASSUME ShowInv, NEW p \in Threads, PTypeOK', HandleInv',
         \/ counted(p) \/ gotFrame(p) \/ captioned(p) \/ captionSized(p) \/ delay(p)
         \/ \E ok \in BOOLEAN : sized(p, ok) \/ decoded(p, ok)
  PROVE  PlayerStep(p)
<1> USE DEF ShowInv, PlayInv, PTypeOK, HandleInv, TypeOK, Goto, At
<1>1. CASE counted(p) \/ delay(p) \/ captioned(p)
  <2>1. /\ Enter(p, "get") /\ Return(p)
        /\ UNCHANGED <<native, context, held, collected, faults, decoder, painted, frames, bitmap>>
    BY <1>1 DEF counted, delay, captioned, getField, handles, memory, player
  <2>2. /\ \A q \in Threads \ {p} : pc'[q] = pc[q] /\ caption'[q] = caption[q]
        /\ \/ pc[p] = "count" /\ pc'[p] = "next" /\ caption'[p] = caption[p]
           \/ pc[p] = "duration" /\ pc'[p] = "delay" /\ caption'[p] = caption[p]
           \/ pc[p] = "index" /\ pc'[p] = "text" /\ caption'[p] = native[decoder[p]].imageIndex
    BY <1>1 DEF counted, delay, captioned, getField, player
  <2>3. FrameFollows(p)'
    BY <2>1, <2>2 DEF FrameFollows, Return, Idle
  <2> QED
    BY <2>1, <2>2, <2>3, ReturnKeeps, StatementOf DEF Ops, DecoderOps
<1>2. CASE (\E ok \in BOOLEAN : sized(p, ok)) \/ captionSized(p)
  <2>1. /\ Enter(p, "getSize") /\ Return(p)
        /\ UNCHANGED <<native, context, held, collected, faults, decoder, painted, frames, bitmap,
                       caption>>
    BY <1>2 DEF sized, captionSized, getSize, handles, memory, player
  <2>2. /\ \A q \in Threads \ {p} : pc'[q] = pc[q]
        /\ \/ pc[p] = "size" /\ pc'[p] \in {"decode", "close"}
           \/ pc[p] = "text" /\ pc'[p] = "duration"
    BY <1>2 DEF sized, captionSized
  <2>3. FrameFollows(p)'
    BY <2>1, <2>2 DEF FrameFollows, Return, Idle
  <2> QED
    BY <2>1, <2>2, <2>3, ReturnKeeps, StatementOf DEF Ops, FrameOps
<1>3. CASE gotFrame(p)
  <2>1. /\ Enter(p, "getFrame") /\ Return(p)
        /\ UNCHANGED <<native, context, held, collected, faults, decoder, painted, bitmap, caption>>
        /\ frames' = frames \cup {[of |-> call[p].on, image |-> native[call[p].on].image]}
    BY <1>3 DEF gotFrame, getFrame, handles, memory, player
  <2>2. pc[p] = "frame" /\ call[p].on = decoder[p] /\ native[decoder[p]].image = 0
    BY <2>1, InCall, OpenLive, StatementOf DEF Enter, Ops, DecoderOps
  <2>3. /\ \A q \in Threads \ {p} : pc'[q] = pc[q]
        /\ pc'[p] \in {"decode", "size"}
    BY <1>3 DEF gotFrame
  <2>4. FrameFollows(p)'
    BY <2>1, <2>2, <2>3 DEF FrameFollows, Return, Idle
  <2> QED
    BY <2>1, <2>2, <2>3, <2>4, ReturnKeeps, StatementOf DEF Ops, DecoderOps
<1>4. ASSUME NEW ok \in BOOLEAN, decoded(p, ok) PROVE PlayerStep(p)
  <2>1. /\ Enter(p, "decodeFrame") /\ Return(p)
        /\ UNCHANGED <<native, context, held, collected, faults, decoder, painted, frames, caption>>
    BY <1>4 DEF decoded, decodeFrame, handles, memory
  <2>2. pc[p] = "decode"
    BY <2>1, InCall, StatementOf DEF Enter, Ops, FrameOps
  <2>3. /\ \A q \in Threads \ {p} : pc'[q] = pc[q] /\ bitmap'[q] = bitmap[q]
        /\ \/ pc'[p] = "publish" /\ bitmap'[p] = native[decoder[p]].imageIndex
           \/ pc'[p] = "close"
    BY <1>4 DEF decoded
  <2>4. FrameFollows(p)'
    BY <2>1, <2>2, <2>3 DEF FrameFollows, Return, Idle
  <2> QED
    BY <2>1, <2>2, <2>3, <2>4, ReturnKeeps, StatementOf DEF Ops, FrameOps
<1> QED
  BY <1>1, <1>2, <1>3, <1>4

(* nextFrame() and nthFrame(0) move the decoder of the player.             *)
LEMMA MoveKeeps ==
  ASSUME ShowInv, NEW p \in Threads, NEW ok \in BOOLEAN, PTypeOK', HandleInv',
         advanced(p, ok) \/ restarted(p, ok)
  PROVE  PlayerStep(p)
<1> DEFINE d == decoder[p]
<1> USE DEF ShowInv, PlayInv, PTypeOK, HandleInv, TypeOK, Goto
<1>1. /\ Return(p) /\ call[p].op \in {"nextFrame", "nthFrame"} /\ call[p].on = d
      /\ pc[p] \in Playing /\ context[d] = "ptr"
      /\ UNCHANGED <<context, held, frames, collected, faults, decoder, painted, bitmap, caption>>
  BY InCall DEF advanced, restarted, nextFrame, nthFrame, Enter, handles, memory, player, Ops, DecoderOps
<1>2. d \in Decoders /\ d \in held /\ native[d] \in NativeDecoders /\ native[d].image = 0
  BY <1>1, OpenLive
<1>3. /\ \A e \in Decoders \ {d} : native'[e] = native[e]
      /\ \A e \in Decoders : native'[e].image = native[e].image
  <2>1. avifDecoderNextImage(d, ok) \/ avifDecoderNthImage(d, 0, ok)
    BY <1>1 DEF advanced, restarted, nextFrame, nthFrame
  <2>2. \A e \in Decoders \ {d} : native'[e] = native[e]
    BY <1>2, <2>1 DEF avifDecoderNextImage, avifDecoderNthImage
  <2> QED
    BY <1>2, <2>1, <2>2, NextImageKeepsHeap, NthImageKeepsHeap
<1>4. call'[p] = Idle /\ \A q \in Threads \ {p} : call'[q] = call[q]
  BY <1>1 DEF Return
<1>5. \A q \in Threads \ {p} : pc'[q] = pc[q]
  BY DEF advanced, restarted
<1>6. OthersKept(p)
  <2>1. \A q \in Threads \ {p} : d \notin Mine(q)
    BY <1>2, Apart, JniAssumption DEF Mine
  <2>2. \A q \in Threads : Mine(q) \subseteq Decoders
    BY DEF Mine, Calls
  <2> QED
    BY <1>1, <1>3, <1>4, <1>5, <2>1, <2>2 DEF OthersKept
<1>7. \/ /\ pc[p] = "next" /\ ok /\ pc'[p] = "frame"
         /\ native'[d].imageIndex = native[d].imageIndex + 1
      \/ /\ pc[p] = "next" /\ ~ok /\ native'[d] = native[d]
         /\ pc'[p] = IF p \in Anime THEN "restart" ELSE "frame"
      \/ /\ pc[p] = "restart" /\ ok /\ pc'[p] = "frame"
         /\ native'[d].imageIndex = 0
      \/ pc[p] = "restart" /\ pc'[p] = "close"
  <2>1. CASE advanced(p, ok)
    <3>1. pc[p] = "next"
      BY <2>1, InCall, StatementOf DEF advanced, nextFrame, Enter, Ops, DecoderOps
    <3>2. pc'[p] = IF ok \/ p \notin Anime THEN "frame" ELSE "restart"
      BY <2>1 DEF advanced
    <3>3. native' = IF ok THEN [native EXCEPT ![d].imageIndex = native[d].imageIndex + 1] ELSE native
      BY <1>1, <2>1 DEF advanced, nextFrame, avifDecoderNextImage
    <3>4. ok => native'[d].imageIndex = native[d].imageIndex + 1
      BY <1>2, <3>3 DEF NativeDecoders
    <3> QED
      BY <3>1, <3>2, <3>3, <3>4
  <2>2. CASE restarted(p, ok)
    <3>1. pc[p] = "restart"
      BY <2>2, InCall, StatementOf DEF restarted, nthFrame, Enter, Ops, DecoderOps
    <3>2. pc'[p] = IF ok THEN "frame" ELSE "close"
      BY <2>2 DEF restarted
    <3>3. ok => native' = [native EXCEPT ![d].imageIndex = 0]
      BY <1>1, <2>2 DEF restarted, nthFrame, avifDecoderNthImage
    <3>4. ok => native'[d].imageIndex = 0
      BY <1>2, <3>3 DEF NativeDecoders
    <3> QED
      BY <3>1, <3>2, <3>4
  <2> QED
    BY <2>1, <2>2
<1>8. OwnDecoder(p)
  BY <1>1, <1>7 DEF OwnDecoder
<1>9. CallOfStatement(p)' /\ DecoderOpen(p)'
  BY <1>1, <1>2, <1>4, <1>7, StatementOf, JniAssumption DEF CallOfStatement, CallAt, DecoderOpen, Idle
<1>10. FrameFollows(p)'
  BY <1>1, <1>4, <1>7 DEF FrameFollows, Idle
<1>11. NeverReset' /\ OnlyInputFaults'
  <2>1. faults' = {}
    BY <1>1 DEF advanced, restarted, nextFrame, nthFrame, Enter, Running
  <2>2. NeverReset'
    <3>1. NeverReset /\ UNCHANGED frames /\ Idle.image = 0
      BY <1>1 DEF Idle
    <3>2. \A e \in Decoders : native'[e].image = 0
      BY <1>3, <3>1 DEF NeverReset
    <3>3. \A q \in Threads : call'[q].image = 0
      BY <1>4, <3>1 DEF NeverReset
    <3> QED
      BY <3>1, <3>2, <3>3 DEF NeverReset
  <2> QED
    BY <2>1, <2>2 DEF OnlyInputFaults
<1> HIDE DEF d
<1> QED
  BY <1>6, <1>8, <1>9, <1>10, <1>11 DEF PlayerStep

(* A decoder that no player has yet.                                       *)
LEMMA NobodysDecoder ==
  ASSUME PlayInv, NEW d \in Decoders, native[d].state = "none", NEW q \in Threads
  PROVE  d \notin Mine(q)
<1> USE DEF PlayInv, HandleInv
<1>1. context[d] = "unset" /\ d \notin held /\ ~Live(d)
  BY DEF UnallocatedUnset, HeldConstructed, Live
<1>2. decoder[q] # d
  BY <1>1, JniAssumption DEF DecoderOpen
<1>3. call[q].op \notin {"idle", "create"} => call[q].on # d
  BY <1>2 DEF CallOfStatement
<1>4. call[q].op \in {"idle", "create"} => call[q].on # d
  BY <1>1, JniAssumption DEF CallsWellFormed, Idle
<1> QED
  BY <1>2, <1>3, <1>4 DEF Mine

(* createContext makes a decoder that no player has yet.                   *)
LEMMA createKeeps ==
  ASSUME ShowInv, NEW p \in Threads, NEW d \in Decoders, NEW isCopy \in BOOLEAN,
         create(p, d, isCopy)
  PROVE  PlayerStep(p)
<1> DEFINE c == Call("create", d, "ptr")
<1> USE DEF ShowInv, PlayInv, PTypeOK, HandleInv, TypeOK
<1>1. /\ pc[p] = "create" /\ faults = {} /\ call' = [call EXCEPT ![p] = c]
      /\ native[d].state = "none"
      /\ avifDecoderCreate(d, bytes[p], isCopy)
      /\ UNCHANGED <<context, held, frames, faults, pc, decoder, painted, bitmap, caption>>
  BY DEF create, createContext, Begin, Running, handles, player, At
<1>2. c.op = "create" /\ c.on = d /\ c.image = 0
  BY CallType DEF Call, Idle
<1>3. /\ native'[d].image = 0 /\ native'[d].imageIndex = -1
      /\ \A e \in Decoders \ {d} : native'[e] = native[e]
  BY <1>1, CreateMakesLive
<1>4. call'[p] = c /\ \A q \in Threads \ {p} : call'[q] = call[q]
  BY <1>1
<1> HIDE DEF c
<1>5. OthersKept(p)
  <2>1. \A q \in Threads : Mine(q) \subseteq Decoders \ {d}
    BY <1>1, NobodysDecoder DEF Mine, Calls
  <2> QED
    BY <1>1, <1>3, <1>4, <2>1 DEF OthersKept
<1>6. OwnDecoder(p)
  BY <1>1 DEF OwnDecoder
<1>7. CallOfStatement(p)' /\ DecoderOpen(p)'
  BY <1>1, <1>2, <1>4, StatementOf DEF CallOfStatement, CallAt, DecoderOpen
<1>8. FrameFollows(p)'
  BY <1>1, <1>2, <1>3, <1>4 DEF FrameFollows
<1>9. NeverReset' /\ OnlyInputFaults'
  <2>1. \A e \in Decoders : native'[e].image = 0
    BY <1>3 DEF NeverReset
  <2>2. \A q \in Threads : call'[q].image = 0
    BY <1>2, <1>4 DEF NeverReset
  <2> QED
    BY <1>1, <2>1, <2>2 DEF NeverReset, OnlyInputFaults
<1> QED
  BY <1>5, <1>6, <1>7, <1>8, <1>9 DEF PlayerStep

(* create() returns the decoder, which becomes the player's.               *)
LEMMA createdKeeps ==
  ASSUME ShowInv, NEW p \in Threads, created(p)
  PROVE  PlayerStep(p)
<1> DEFINE d == call[p].on
<1> USE DEF ShowInv, PlayInv, PTypeOK, HandleInv, TypeOK, Goto
<1>1. /\ call[p].op = "create" /\ faults = {} /\ Return(p)
      /\ context' = [context EXCEPT ![d] = "ptr"] /\ held' = held \cup {d}
      /\ decoder' = [decoder EXCEPT ![p] = d]
      /\ UNCHANGED <<native, frames, faults, painted, bitmap, caption>>
  BY DEF created, createOk, Enter, Running
<1>2. /\ pc' = [pc EXCEPT ![p] = pc'[p]]
      /\ pc'[p] = IF p \in Anime THEN "count" ELSE "next"
  BY DEF created
<1>3. d \in Decoders /\ d # NoDecoder /\ decoder[p] = NoDecoder /\ pc[p] = "create"
  BY <1>1, StatementOf, JniAssumption DEF CallsWellFormed, CallOfStatement, DecoderOpen
<1>4. call'[p] = Idle /\ \A q \in Threads \ {p} : call'[q] = call[q]
  BY <1>1 DEF Return
<1>5. OthersKept(p)
  <2>1. ASSUME NEW q \in Threads \ {p} PROVE Mine(q) \subseteq Decoders \ {d}
    <3>1. d \in Mine(p)
      BY <1>3 DEF Mine
    <3>2. Mine(q) \subseteq Decoders
      BY DEF Mine, Calls
    <3> HIDE DEF d
    <3> QED
      BY <3>1, <3>2, Apart
  <2> QED
    BY <1>1, <1>2, <1>4, <2>1 DEF OthersKept
<1>6. OwnDecoder(p)
  BY <1>1, <1>2, <1>3 DEF OwnDecoder
<1>7. CallOfStatement(p)' /\ DecoderOpen(p)'
  BY <1>1, <1>2, <1>3, <1>4, StatementOf DEF CallOfStatement, CallAt, DecoderOpen, Idle
<1>8. FrameFollows(p)'
  <2>1. native[d].imageIndex = -1 /\ bitmap[p] = -1
    BY <1>1, <1>3 DEF FrameFollows
  <2> QED
    BY <1>1, <1>2, <1>3, <1>4, <2>1 DEF FrameFollows, Idle
<1>9. NeverReset' /\ OnlyInputFaults'
  <2>1. \A q \in Threads : call'[q].image = 0
    BY <1>4 DEF NeverReset, Idle
  <2> QED
    BY <1>1, <2>1 DEF NeverReset, OnlyInputFaults
<1> HIDE DEF d
<1> QED
  BY <1>5, <1>6, <1>7, <1>8, <1>9 DEF PlayerStep

(* The decoder of a create() that fails or of a close() is destroyed, and  *)
(* the player ends.                                                        *)
LEMMA EndKeeps ==
  ASSUME ShowInv, NEW p \in Threads, PTypeOK', HandleInv', notCreated(p) \/ closed(p)
  PROVE  /\ PlayerStep(p)
         /\ pc[p] \in {"create", "close"} /\ pc'[p] = "done"
         /\ call[p].on \in Decoders /\ call[p].on \in Mine(p) /\ call'[p] = Idle
         /\ native'[call[p].on].state = "destroyed"
         /\ (decoder[p] = NoDecoder \/ decoder[p] = call[p].on)
<1> DEFINE d == call[p].on
<1> USE DEF ShowInv, PlayInv, PTypeOK, HandleInv, TypeOK, Goto
<1>1. ~closeNothing(p)
  BY InCall DEF closeNothing, Enter, Ops
<1>2. /\ call[p].op \in {"create", "destroy"} /\ faults = {} /\ Return(p)
      /\ avifDecoderDestroy(d) /\ pc' = [pc EXCEPT ![p] = "done"]
      /\ UNCHANGED <<context, held, frames, faults, decoder, painted, bitmap, caption>>
  BY <1>1 DEF notCreated, closed, createFails, destroyContext, Enter, Running, handles, player
<1>3. /\ d \in Decoders /\ d # NoDecoder
      /\ \/ pc[p] = "create" /\ decoder[p] = NoDecoder
         \/ pc[p] = "close" /\ decoder[p] = d /\ context[d] = "null"
  BY <1>2, StatementOf, JniAssumption DEF CallsWellFormed, CallOfStatement, DecoderOpen
<1>4. call'[p] = Idle /\ \A q \in Threads \ {p} : call'[q] = call[q]
  BY <1>2 DEF Return
<1>5. /\ native'[d].state = "destroyed" /\ native'[d].image = 0
      /\ \A e \in Decoders \ {d} : native'[e] = native[e]
  BY <1>2, <1>3, DestroyFrees
<1>6. OthersKept(p)
  <2>1. ASSUME NEW q \in Threads \ {p} PROVE Mine(q) \subseteq Decoders \ {d}
    <3>1. d \in Mine(p)
      BY <1>3 DEF Mine
    <3>2. Mine(q) \subseteq Decoders
      BY DEF Mine, Calls
    <3> HIDE DEF d
    <3> QED
      BY <3>1, <3>2, Apart
  <2> QED
    BY <1>2, <1>4, <1>5, <2>1 DEF OthersKept
<1>7. OwnDecoder(p)
  BY <1>2, <1>3, JniAssumption DEF OwnDecoder
<1>8. CallOfStatement(p)' /\ DecoderOpen(p)'
  BY <1>2, <1>3, <1>4, StatementOf DEF CallOfStatement, CallAt, DecoderOpen, Idle
<1>9. FrameFollows(p)'
  BY <1>2, <1>4 DEF FrameFollows, Idle
<1>10. NeverReset' /\ OnlyInputFaults'
  <2>1. \A q \in Threads : call'[q].image = 0
    BY <1>4 DEF NeverReset, Idle
  <2>2. \A e \in Decoders : native'[e].image = 0
    BY <1>5 DEF NeverReset
  <2> QED
    BY <1>2, <2>1, <2>2 DEF NeverReset, OnlyInputFaults
<1>11. d \in Mine(p) /\ pc'[p] = "done"
  BY <1>2, <1>3 DEF Mine
<1> HIDE DEF d
<1> QED
  BY <1>3, <1>4, <1>5, <1>6, <1>7, <1>8, <1>9, <1>10, <1>11 DEF PlayerStep, d

(* A method is called on the decoder of the player, or on its frame.       *)
LEMMA invokeKeeps ==
  ASSUME ShowInv, NEW p \in Threads, invoke(p)
  PROVE  PlayerStep(p)
<1> USE DEF ShowInv, PlayInv, PTypeOK, HandleInv, TypeOK
<1>1. /\ faults = {} /\ call[p] = Idle
      /\ UNCHANGED <<native, context, held, frames, faults, pc, decoder, painted, bitmap, caption>>
  BY DEF invoke, Invoke, invokeFrame, Begin, Running, handles, player
<1>2. /\ pc[p] \in DOMAIN Method \cup DOMAIN FrameMethod /\ pc[p] \in Playing
      /\ decoder[p] \in Decoders /\ context[decoder[p]] = "ptr"
  BY <1>1, OpenLive DEF invoke, Playing, DecoderOpen, Idle
<1> DEFINE Begun(c) ==
             /\ call' = [call EXCEPT ![p] = c]
             /\ c.on = decoder[p] /\ c.ptr = "ptr" /\ c.image = 0
             /\ \/ pc[p] \in DOMAIN Method /\ c.op = Method[pc[p]]
                \/ pc[p] \in DOMAIN FrameMethod /\ c.op = FrameMethod[pc[p]]
<1>3. PICK c : Begun(c)
  <2>1. CASE pc[p] \in DOMAIN Method /\ Invoke(p, decoder[p], Method[pc[p]])
    <3> DEFINE c == Call(Method[pc[p]], decoder[p], context[decoder[p]])
    <3>1. Method[pc[p]] \in Ops
      BY <2>1, Tables DEF Ops, DecoderOps
    <3>2. c.on = decoder[p] /\ c.ptr = "ptr" /\ c.image = 0 /\ c.op = Method[pc[p]]
      BY <1>2, <3>1 DEF Call, Idle
    <3>3. call' = [call EXCEPT ![p] = c]
      BY <2>1 DEF Invoke, Begin
    <3> QED
      BY <2>1, <3>2, <3>3
  <2>2. ASSUME pc[p] \in DOMAIN FrameMethod, NEW f \in frames,
               f.of = decoder[p], invokeFrame(p, f, FrameMethod[pc[p]])
        PROVE  \E c : Begun(c)
    <3> DEFINE c == [Call(FrameMethod[pc[p]], f.of, "ptr") EXCEPT !.image = f.image]
    <3>1. c.on = decoder[p] /\ c.ptr = "ptr" /\ c.image = f.image /\ c.op = FrameMethod[pc[p]]
      BY <2>2 DEF Call, Idle
    <3>2. f.image = 0
      BY DEF NeverReset
    <3>3. call' = [call EXCEPT ![p] = c]
      BY <2>2 DEF invokeFrame, Begin
    <3> QED
      BY <2>2, <3>1, <3>2, <3>3
  <2> QED
    BY <2>1, <2>2 DEF invoke
<1>4. call'[p] = c /\ \A q \in Threads \ {p} : call'[q] = call[q]
  BY <1>3
<1>5. c.op \notin {"destroy", "create", "close", "idle"}
  BY <1>3, Tables
<1>6. OthersKept(p) /\ OwnDecoder(p)
  BY <1>1, <1>4 DEF OthersKept, OwnDecoder
<1>7. CallOfStatement(p)' /\ DecoderOpen(p)'
  BY <1>1, <1>2, <1>3, <1>4, <1>5 DEF CallOfStatement, CallAt, DecoderOpen
<1>8. FrameFollows(p)'
  BY <1>1, <1>4, <1>5 DEF FrameFollows
<1>9. NeverReset' /\ OnlyInputFaults'
  <2>1. \A q \in Threads : call'[q].image = 0
    BY <1>3, <1>4 DEF NeverReset
  <2> QED
    BY <1>1, <2>1 DEF NeverReset, OnlyInputFaults
<1> QED
  BY <1>6, <1>7, <1>8, <1>9 DEF PlayerStep

(* close() reads the field of the decoder, then clears it.                 *)
LEMMA closingKeeps ==
  ASSUME ShowInv, NEW p \in Threads, closing(p)
  PROVE  PlayerStep(p)
<1> USE DEF ShowInv, PlayInv, PTypeOK, HandleInv, TypeOK
<1>1. /\ faults = {} /\ pc[p] = "close"
      /\ UNCHANGED <<native, held, frames, faults, pc, decoder, painted, bitmap, caption>>
  BY DEF closing, close, clearContext, Enter, Begin, Running, handles, player, At
<1>2. decoder[p] \in Decoders /\ Live(decoder[p])
  BY <1>1, OpenLive, StatementOf
<1>3. PICK c : /\ call' = [call EXCEPT ![p] = c]
               /\ c.on = decoder[p] /\ c.ptr = "ptr" /\ c.image = 0
               /\ \/ c.op = "close" /\ UNCHANGED context /\ context[decoder[p]] = "ptr"
                  \/ c.op = "destroy" /\ context' = [context EXCEPT ![decoder[p]] = "null"]
  <2>1. CASE call[p] = Idle /\ close(p, decoder[p])
    <3> DEFINE c == Call("close", decoder[p], context[decoder[p]])
    <3>1. context[decoder[p]] = "ptr"
      BY <1>1, <2>1, StatementOf DEF DecoderOpen, Idle
    <3>2. c.op = "close" /\ c.on = decoder[p] /\ c.ptr = "ptr" /\ c.image = 0
      BY <3>1 DEF Call, Idle
    <3>3. call' = [call EXCEPT ![p] = c] /\ UNCHANGED context
      BY <2>1 DEF close, Begin, handles
    <3> QED
      BY <3>1, <3>2, <3>3
  <2>2. CASE clearContext(p)
    <3> DEFINE c == [call[p] EXCEPT !.op = "destroy"]
    <3>1. /\ call[p].op = "close" /\ call[p].on = decoder[p] /\ call[p].ptr = "ptr"
          /\ call[p].image = 0
      BY <2>2, InCall DEF clearContext, Enter, Ops
    <3>2. c.op = "destroy" /\ c.on = decoder[p] /\ c.ptr = "ptr" /\ c.image = 0
      BY <3>1 DEF Calls
    <3>3. call' = [call EXCEPT ![p] = c] /\ context' = [context EXCEPT ![decoder[p]] = "null"]
      BY <2>2, <3>1 DEF clearContext
    <3> QED
      BY <3>2, <3>3
  <2> QED
    BY <2>1, <2>2 DEF closing
<1>4. call'[p] = c /\ \A q \in Threads \ {p} : call'[q] = call[q]
  BY <1>3
<1>5. OthersKept(p)
  <2>1. ASSUME NEW q \in Threads \ {p} PROVE Mine(q) \subseteq Decoders \ {decoder[p]}
    <3>1. decoder[p] \in Mine(p)
      BY <1>2, JniAssumption DEF Mine
    <3>2. Mine(q) \subseteq Decoders
      BY DEF Mine, Calls
    <3> QED
      BY <3>1, <3>2, Apart
  <2> QED
    BY <1>1, <1>3, <1>4, <2>1 DEF OthersKept
<1>6. OwnDecoder(p)
  BY <1>1, <1>2, <1>3 DEF OwnDecoder
<1>7. CallOfStatement(p)' /\ DecoderOpen(p)'
  BY <1>1, <1>2, <1>3, <1>4, OpenLive, StatementOf
     DEF CallOfStatement, CallAt, DecoderOpen, Live
<1>8. FrameFollows(p)'
  BY <1>1, <1>3, <1>4 DEF FrameFollows
<1>9. NeverReset' /\ OnlyInputFaults'
  <2>1. \A q \in Threads : call'[q].image = 0
    BY <1>3, <1>4 DEF NeverReset
  <2> QED
    BY <1>1, <2>1 DEF NeverReset, OnlyInputFaults
<1> QED
  BY <1>5, <1>6, <1>7, <1>8, <1>9 DEF PlayerStep

(* The undefined behaviour a player may meet: its decoder is live and its  *)
(* frame is of the image of the decoder, but the input may be gone.        *)
LEMMA undefinedKeeps ==
  ASSUME ShowInv, NEW p \in Threads, undefined(p)
  PROVE  PlayerStep(p)
<1> USE DEF ShowInv, PlayInv, PTypeOK, HandleInv, TypeOK
<1>1. /\ CallFaults(p) # {} /\ faults' = CallFaults(p)
      /\ UNCHANGED <<native, context, held, frames, collected, call, pc, decoder, painted,
                     bitmap, caption>>
  BY DEF undefined, Undefined, handles, memory, player
<1>2. call[p].op \in Ops \ {"idle", "create"}
  BY <1>1 DEF CallFaults, FaultKinds, DecoderOps, FrameOps, Calls
<1>3. /\ call[p].on = decoder[p] /\ call[p].ptr = "ptr" /\ call[p].image = 0
      /\ decoder[p] \in Decoders /\ Live(decoder[p]) /\ native[decoder[p]].image = 0
  BY <1>2, InCall, OpenLive
<1>4. CallFaults(p) \subseteq {"freedInput"}
  BY <1>3 DEF CallFaults, FaultKinds, ImageLive
<1>5. InputFreed(decoder[p])
  BY <1>1, <1>3, <1>4 DEF CallFaults, FaultKinds
<1>6. OnlyInputFaults'
  BY <1>1, <1>3, <1>4, <1>5 DEF OnlyInputFaults, Live, InputFreed
<1>7. OthersKept(p) /\ OwnDecoder(p)
  BY <1>1 DEF OthersKept, OwnDecoder
<1>8. CallOfStatement(p)' /\ DecoderOpen(p)' /\ FrameFollows(p)' /\ NeverReset'
  BY <1>1 DEF CallOfStatement, DecoderOpen, FrameFollows, NeverReset, Live
<1> QED
  BY <1>6, <1>7, <1>8 DEF PlayerStep

(* The collector takes decoders of players that have ended, and arrays.    *)
LEMMA RuntimeKeeps ==
  ASSUME ShowInv, Runtime, PTypeOK', HandleInv'
  PROVE  ShowInv'
<1> USE DEF ShowInv, PlayInv, PTypeOK, HandleInv, TypeOK
<1>1. /\ UNCHANGED <<native, context, frames, call, faults>> /\ faults = {}
      /\ UNCHANGED <<pc, bytes, decoder, bitmap, painted, caption>>
  BY DEF Runtime, forgetDecoder, forgetBytes, dropDecoder, finalize, dropBytes, collect,
         handles, memory, player, Running
<1>2. \/ held \subseteq held'
      \/ \E d \in Decoders :
           held' = held \ {d} /\ \E p \in Threads : decoder[p] = d /\ pc[p] = "done"
  BY DEF Runtime, forgetDecoder, forgetBytes, dropDecoder, finalize, dropBytes, collect,
         handles, At
<1>3. ASSUME NEW q \in Threads, pc[q] \in Playing PROVE decoder[q] \in held'
  <2>1. decoder[q] \in held /\ decoder[q] # NoDecoder /\ pc[q] # "done"
    BY <1>3, OpenLive, StatementOf, JniAssumption
  <2> QED
    BY <1>2, <2>1 DEF DecodersOwned
<1>4. \A q \in Threads : CallOfStatement(q)' /\ DecoderOpen(q)' /\ FrameFollows(q)'
  BY <1>1, <1>3 DEF CallOfStatement, DecoderOpen, FrameFollows, Live
<1>5. DecodersOwned' /\ NeverReset' /\ OnlyInputFaults'
  BY <1>1 DEF DecodersOwned, NeverReset, OnlyInputFaults
<1> QED
  BY <1>4, <1>5
-------------------------------------------------------------------------------
(* The invariant holds at the start ...                                    *)
LEMMA ShowInit == PInit => ShowInv
<1> SUFFICES ASSUME PInit PROVE ShowInv
  OBVIOUS
<1> USE DEF PInit
<1>1. HandleInv /\ native = [d \in Decoders |-> Unallocated] /\ frames = {} /\ faults = {}
      /\ context = [d \in Decoders |-> "unset"] /\ call = [t \in Threads |-> Idle]
  BY HandleInit DEF Init
<1>2. PTypeOK
  BY <1>1, StatementOf DEF PTypeOK, HandleInv
<1>3. \A p \in Threads : CallOfStatement(p) /\ DecoderOpen(p) /\ FrameFollows(p)
  BY <1>1, StatementOf DEF CallOfStatement, CallAt, DecoderOpen, FrameFollows, Idle
<1>4. DecodersOwned /\ NeverReset /\ OnlyInputFaults
  BY <1>1 DEF DecodersOwned, NeverReset, OnlyInputFaults, Idle, Unallocated
<1> QED
  BY <1>1, <1>2, <1>3, <1>4 DEF ShowInv, PlayInv

(* ... and every step of a player is one that keeps it.                    *)
LEMMA PlayerSteps ==
  ASSUME ShowInv, NEW p \in Threads, Player(p) \/ cancel(p), PTypeOK', HandleInv'
  PROVE  PlayerStep(p)
<1>1. CASE Aside(p) \/ probe(p)
  BY <1>1, AsideKeeps
<1>2. CASE created(p) \/ notCreated(p) \/ closed(p)
  BY <1>2, createdKeeps, EndKeeps
<1>3. CASE \E d \in Decoders, isCopy \in BOOLEAN : create(p, d, isCopy)
  BY <1>3, createKeeps
<1>4. CASE invoke(p) \/ closing(p) \/ undefined(p)
  BY <1>4, invokeKeeps, closingKeeps, undefinedKeeps
<1>5. CASE \E ok \in BOOLEAN : advanced(p, ok) \/ restarted(p, ok)
  BY <1>5, MoveKeeps
<1>6. CASE \/ counted(p) \/ gotFrame(p) \/ captioned(p) \/ captionSized(p) \/ delay(p)
           \/ \E ok \in BOOLEAN : sized(p, ok) \/ decoded(p, ok)
  BY <1>6, ReadKeeps
<1> QED
  BY <1>1, <1>2, <1>3, <1>4, <1>5, <1>6 DEF Player, Aside

(* ... so that it holds in every state.                                    *)
LEMMA ShowStep == ShowInv /\ [PNext]_pvars => ShowInv'
<1> SUFFICES ASSUME ShowInv, [PNext]_pvars PROVE ShowInv'
  OBVIOUS
<1>1. PTypeOK' /\ HandleInv'
  BY PTypeStep, PlaybackIsJniDecoder, HandleStep DEF ShowInv, PlayInv
<1>2. CASE UNCHANGED pvars
  BY <1>1, <1>2 DEF pvars, vars, player, ShowInv, PlayInv, CallOfStatement, DecoderOpen,
                    FrameFollows, DecodersOwned, NeverReset, OnlyInputFaults, Live, InputFreed
<1>3. ASSUME NEW p \in Threads, Player(p) \/ cancel(p) PROVE ShowInv'
  <2>1. PlayerStep(p)
    BY <1>1, <1>3, PlayerSteps
  <2>2. PlayInv'
    BY <1>1, <2>1, PlayerKeeps DEF PlayerStep, ShowInv
  <2>3. \A q \in Threads : FrameFollows(q)'
    BY <2>1, OthersShow DEF PlayerStep, ShowInv
  <2> QED
    BY <2>2, <2>3 DEF ShowInv
<1>4. CASE Runtime
  BY <1>1, <1>4, RuntimeKeeps
<1> QED
  BY <1>2, <1>3, <1>4 DEF PNext

(* The types of the players.                                               *)
THEOREM PlaybackTypes == PSpec => []PTypeOK
<1>1. ShowInv => PTypeOK
  BY DEF ShowInv, PlayInv
<1> QED
  BY <1>1, ShowInit, ShowStep, PTL DEF PSpec

(***************************************************************************)
(* The only undefined behaviour the players may meet is a decoder that     *)
(* reads an array the collector has reclaimed, and of which it has no copy.*)
(***************************************************************************)
THEOREM PlayersMeetOnlyInputFaults == PSpec => []OnlyInputFaults
<1>1. ShowInv => OnlyInputFaults
  BY DEF ShowInv, PlayInv
<1> QED
  BY <1>1, ShowInit, ShowStep, PTL DEF PSpec

(***************************************************************************)
(* However a player ends, it leaves no native decoder behind: a live one   *)
(* is of a player that has not ended.                                      *)
(***************************************************************************)
THEOREM PlayersCloseTheirDecoders == PSpec => []NoDecoderLeft
<1>1. ShowInv => NoDecoderLeft
  <2> SUFFICES ASSUME ShowInv, NEW d \in Decoders, Live(d)
               PROVE  \E p \in Threads : pc[p] # "done" /\ d \in {decoder[p], call[p].on}
    BY DEF NoDecoderLeft, At
  <2>1. CASE context[d] = "ptr"
    BY <2>1 DEF ShowInv, PlayInv, DecodersOwned
  <2>2. ASSUME NEW t \in Threads, call[t].on = d, call[t].op \in {"create", "destroy"}
        PROVE  pc[t] # "done"
    BY <2>2, StatementOf DEF ShowInv, PlayInv, CallOfStatement
  <2> QED
    BY <2>1, <2>2 DEF ShowInv, PlayInv, HandleInv, NoOrphan
<1> QED
  BY <1>1, ShowInit, ShowStep, PTL DEF PSpec

(***************************************************************************)
(* While a frame is on the screen, the pixels, the text and the frame      *)
(* whose duration is waited for are the same one.                          *)
(***************************************************************************)
THEOREM ScreenShowsOneFrame == PSpec => []ScreenConsistent
<1>1. ShowInv => ScreenConsistent
  BY DEF ShowInv, FrameFollows, ScreenConsistent, At
<1> QED
  BY <1>1, ShowInit, ShowStep, PTL DEF PSpec
-------------------------------------------------------------------------------
(***************************************************************************)
(* The players as callers of JniDecoder that make promises.                *)
(***************************************************************************)

(* Inside a call nothing depends on the promises.                          *)
LEMMA SameCalls ==
  ASSUME NEW t \in Threads
  PROVE  /\ Proceed(t) => Caller!Proceed(t)
         /\ \A a : isAvifImage(t, a) => Caller!isAvifImage(t, a)
         /\ \A d, a, c : createContext(t, d, a, c) => Caller!createContext(t, d, a, c)
<1> USE DEF handles, memory, Caller!handles, Caller!memory, Begin, Caller!Begin, Return,
            Caller!Return, Running, Caller!Running, Idle, Caller!Idle
<1>1. \A a : isAvifImage(t, a) => Caller!isAvifImage(t, a)
  BY DEF isAvifImage, Caller!isAvifImage
<1>2. \A d, a, c : createContext(t, d, a, c) => Caller!createContext(t, d, a, c)
  BY DEF createContext, Caller!createContext, Call, Caller!Call,
         avifDecoderCreate, Caller!avifDecoderCreate, Unallocated, Caller!Unallocated
<1>3. Caller!CallFaults(t) = CallFaults(t)
  BY DEF CallFaults, Caller!CallFaults, FaultKinds, Caller!FaultKinds, Live, Caller!Live,
         InputFreed, Caller!InputFreed, ImageLive, Caller!ImageLive,
         DecoderOps, Caller!DecoderOps, FrameOps, Caller!FrameOps
<1>4. \A op : Enter(t, op) = Caller!Enter(t, op)
  BY <1>3 DEF Enter, Caller!Enter
<1>5. createOk(t) => Caller!createOk(t)
  BY <1>4 DEF createOk, Caller!createOk
<1>6. \A d : avifDecoderDestroy(d) => Caller!avifDecoderDestroy(d)
  BY DEF avifDecoderDestroy, Caller!avifDecoderDestroy, Unallocated, Caller!Unallocated
<1>7. createFails(t) => Caller!createFails(t)
  BY <1>4, <1>6 DEF createFails, Caller!createFails
<1>8. \A ok : reset(t, ok) => Caller!reset(t, ok)
  BY <1>4 DEF reset, Caller!reset, avifDecoderReset, Caller!avifDecoderReset
<1>9. \A ok : nextFrame(t, ok) => Caller!nextFrame(t, ok)
  BY <1>4 DEF nextFrame, Caller!nextFrame, avifDecoderNextImage, Caller!avifDecoderNextImage,
              FrameIndexes, Caller!FrameIndexes
<1>10. \A ok, i : nthFrame(t, i, ok) => Caller!nthFrame(t, i, ok)
  BY <1>4 DEF nthFrame, Caller!nthFrame, avifDecoderNthImage, Caller!avifDecoderNthImage,
              FrameIndexes, Caller!FrameIndexes
<1>11. \A ok : decodeFrame(t, ok) => Caller!decodeFrame(t, ok)
  BY <1>4 DEF decodeFrame, Caller!decodeFrame, FrameIndexes, Caller!FrameIndexes
<1>12. /\ getFrame(t) => Caller!getFrame(t)
       /\ getField(t) => Caller!getField(t)
       /\ getSize(t) => Caller!getSize(t)
  BY <1>4 DEF getFrame, Caller!getFrame, getField, Caller!getField, getSize, Caller!getSize
<1>13. /\ closeNothing(t) => Caller!closeNothing(t)
       /\ clearContext(t) => Caller!clearContext(t)
  BY <1>4 DEF closeNothing, Caller!closeNothing, clearContext, Caller!clearContext
<1>14. destroyContext(t) => Caller!destroyContext(t)
  BY <1>4, <1>6 DEF destroyContext, Caller!destroyContext
<1>15. Undefined(t) => Caller!Undefined(t)
  BY <1>3 DEF Undefined, Caller!Undefined
<1>16. Proceed(t) => Caller!Proceed(t)
  BY <1>5, <1>7, <1>8, <1>9, <1>10, <1>11, <1>12, <1>13, <1>14, <1>15 DEF Proceed, Caller!Proceed
<1> QED
  BY <1>1, <1>2, <1>16

(* A player that calls nothing is alone with its open decoder.             *)
LEMMA Alone ==
  ASSUME PlayInv, NEW p \in Threads, pc[p] \in Playing, call[p] = Idle
  PROVE  \A u \in Threads : call[u].on # decoder[p]
<1>1. decoder[p] \in Decoders /\ decoder[p] \in Mine(p)
  BY OpenLive, JniAssumption DEF Mine
<1>2. call[p].on # decoder[p]
  BY <1>1, JniAssumption DEF Idle
<1>3. ASSUME NEW u \in Threads \ {p} PROVE call[u].on # decoder[p]
  BY <1>1, Apart, JniAssumption DEF Mine
<1> QED
  BY <1>2, <1>3

(* What a player starts, a caller that promises everything may start.      *)
LEMMA PlayerPromises ==
  ASSUME ShowInv, NEW p \in Threads, Player(p) \/ cancel(p)
  PROVE  [Caller!Next]_(Caller!vars)
<1> USE DEF ShowInv, PlayInv, PTypeOK, HandleInv, TypeOK
<1> USE DEF Caller!handles, Caller!memory, handles, memory, Caller!Begin, Begin,
            Caller!Running, Running, Caller!Idle, Idle, Caller!Call, Call
<1>1. CASE Aside(p)
  BY <1>1 DEF Aside, readBytes, publish, wake, cancel, vars, Caller!vars
<1>2. CASE Proceed(p)
  BY <1>2, SameCalls DEF Caller!Next
<1>3. CASE probe(p)
  BY <1>3, SameCalls DEF probe, isAvifImage, Caller!Next, Caller!Start
<1>4. ASSUME NEW d \in Decoders, NEW isCopy \in BOOLEAN, create(p, d, isCopy)
      PROVE  Caller!Next
  <2>1. bytes[p] \in Arrays /\ createContext(p, d, bytes[p], isCopy)
    BY <1>4 DEF create, createContext
  <2> QED
    BY <2>1, SameCalls DEF Caller!Next, Caller!Start
<1>5. ASSUME pc[p] \in DOMAIN Method, Invoke(p, decoder[p], Method[pc[p]])
      PROVE  Caller!Next
  <2>1. /\ pc[p] \in Playing /\ call[p] = Idle /\ context[decoder[p]] = "ptr"
        /\ Method[pc[p]] \in DecoderOps /\ decoder[p] \in Decoders
    BY <1>5, Tables, OpenLive DEF Playing, Invoke, DecoderOpen, DecoderOps
  <2>2. Caller!MayCall(decoder[p])
    BY <2>1, Alone DEF Caller!MayCall, Caller!Confined
  <2>3. Caller!Invoke(p, decoder[p], Method[pc[p]])
    BY <1>5, <2>2 DEF Invoke, Caller!Invoke
  <2> QED
    BY <2>1, <2>3 DEF Caller!Next, Caller!Start, DecoderOps, Caller!DecoderOps
<1>6. ASSUME pc[p] \in DOMAIN FrameMethod, NEW f \in frames, f.of = decoder[p],
             invokeFrame(p, f, FrameMethod[pc[p]])
      PROVE  Caller!Next
  <2>1. /\ pc[p] \in Playing /\ call[p] = Idle /\ context[f.of] = "ptr"
        /\ FrameMethod[pc[p]] \in FrameOps
    BY <1>6, Tables DEF Playing, invokeFrame, DecoderOpen, FrameOps
  <2>2. f.image = native[f.of].image
    BY <1>6, <2>1, OpenLive DEF NeverReset
  <2>3. Caller!MayUseFrame(f)
    BY <1>6, <2>1, <2>2, Alone DEF Caller!MayUseFrame, Caller!Confined
  <2>4. Caller!invokeFrame(p, f, FrameMethod[pc[p]])
    BY <1>6, <2>3 DEF invokeFrame, Caller!invokeFrame
  <2> QED
    BY <2>1, <2>4 DEF Caller!Next, Caller!Start, FrameOps, Caller!FrameOps
<1>7. ASSUME pc[p] = "close", call[p] = Idle, close(p, decoder[p])
      PROVE  Caller!Next
  <2>1. decoder[p] \in Decoders /\ \A u \in Threads : call[u].on # decoder[p]
    BY <1>7, StatementOf, OpenLive, Alone
  <2>2. Caller!close(p, decoder[p])
    BY <1>7, <2>1 DEF close, Caller!close, Caller!Confined
  <2> QED
    BY <2>1, <2>2 DEF Caller!Next, Caller!Start
<1>8. CASE closing(p)
  BY <1>2, <1>7, <1>8 DEF closing, Proceed, At
<1>9. CASE invoke(p)
  BY <1>5, <1>6, <1>9 DEF invoke
<1>10. CASE created(p) \/ notCreated(p) \/ closed(p) \/ undefined(p) \/ counted(p) \/ gotFrame(p)
            \/ captioned(p) \/ captionSized(p) \/ delay(p)
  BY <1>2, <1>10 DEF created, notCreated, closed, undefined, counted, gotFrame, captioned,
                     captionSized, delay, Proceed
<1>11. ASSUME NEW ok \in BOOLEAN,
              advanced(p, ok) \/ restarted(p, ok) \/ sized(p, ok) \/ decoded(p, ok)
       PROVE  [Caller!Next]_(Caller!vars)
  <2>1. 0 \in -1 .. FrameCount
    BY LibavifAssumption
  <2> QED
    BY <1>2, <1>11, <2>1 DEF advanced, restarted, sized, decoded, Proceed
<1> QED
  BY <1>1, <1>3, <1>4, <1>8, <1>9, <1>10, <1>11 DEF Player, Aside

(* ... and so is what the collector does.                                  *)
LEMMA CollectorPromises == Runtime => Caller!Collector
<1> USE DEF Caller!handles, Caller!memory, handles, memory, Caller!Running, Running
<1>1. \A d : dropDecoder(d) => Caller!dropDecoder(d)
  BY DEF dropDecoder, Caller!dropDecoder
<1>2. \A d : finalize(d) => Caller!finalize(d)
  BY DEF finalize, Caller!finalize
<1>3. \A a : dropBytes(a) => Caller!dropBytes(a)
  BY DEF dropBytes, Caller!dropBytes, Caller!MayForgetBytes
<1>4. \A a : collect(a) => Caller!collect(a)
  BY DEF collect, Caller!collect
<1> QED
  BY <1>1, <1>2, <1>3, <1>4 DEF Runtime, forgetDecoder, forgetBytes, Caller!Collector

(***************************************************************************)
(* The players are callers that use a decoder from one place at a time,    *)
(* call nothing on it or on its frames after close(), and never reset it.  *)
(***************************************************************************)
THEOREM PlayersAreCorrectCallers == PSpec => CorrectCaller
<1>1. PInit => Caller!Init
  BY DEF PInit, Init, Caller!Init, Unallocated, Caller!Unallocated, Idle, Caller!Idle
<1>2. ShowInv /\ [PNext]_pvars => [Caller!Next]_(Caller!vars)
  <2> SUFFICES ASSUME ShowInv, [PNext]_pvars PROVE [Caller!Next]_(Caller!vars)
    OBVIOUS
  <2>1. UNCHANGED pvars => UNCHANGED Caller!vars
    BY DEF pvars, vars, Caller!vars
  <2> QED
    BY <2>1, PlayerPromises, CollectorPromises DEF PNext, Caller!Next
<1> QED
  BY <1>1, <1>2, ShowInit, ShowStep, PTL DEF PSpec, CorrectCaller, Caller!Spec
-------------------------------------------------------------------------------
(* The desktop JVM: every decoder reads a copy.                            *)
InputsCopied == \A d \in Decoders : Live(d) => native[d].copied

(* GetByteArrayElements copies, and no other function changes the input.   *)
LEMMA CopiesStep ==
  ASSUME Platform = "jvm", HandleInv, InputsCopied, [Next]_vars
  PROVE  InputsCopied'
<1> USE DEF HandleInv, TypeOK
<1>1. ASSUME UNCHANGED native PROVE InputsCopied'
  BY <1>1 DEF InputsCopied, Live
<1>2. ASSUME SameHeap PROVE InputsCopied'
  BY <1>2 DEF InputsCopied, SameHeap, Live
<1>3. ASSUME NEW t \in Threads, Start(t) PROVE InputsCopied'
  <2>1. ASSUME NEW d \in Decoders, NEW a \in Arrays, NEW c \in BOOLEAN, createContext(t, d, a, c)
        PROVE  InputsCopied'
    <3>1. native'[d].copied /\ \A e \in Decoders \ {d} : native'[e] = native[e]
      BY <2>1, CreateMakesLive DEF createContext
    <3> QED
      BY <3>1 DEF InputsCopied, Live
  <2> QED
    BY <1>1, <1>3, <2>1 DEF Start, isAvifImage, Invoke, close, invokeFrame
<1>4. ASSUME NEW t \in Threads, Proceed(t) PROVE InputsCopied'
  <2>1. CASE createFails(t) \/ destroyContext(t)
    <3>1. call[t].on \in Decoders /\ avifDecoderDestroy(call[t].on)
      BY <2>1, EnteredOnDecoder DEF createFails, destroyContext, Ops
    <3>2. /\ native'[call[t].on].state = "destroyed"
          /\ \A e \in Decoders \ {call[t].on} : native'[e] = native[e]
      BY <3>1, DestroyFrees
    <3> QED
      BY <3>1, <3>2 DEF InputsCopied, Live
  <2>2. ASSUME NEW ok \in BOOLEAN, reset(t, ok) \/ nextFrame(t, ok) PROVE SameHeap
    BY <2>2, EnteredOnDecoder, ResetKeepsHeap, NextImageKeepsHeap
       DEF reset, nextFrame, Ops, DecoderOps
  <2>3. ASSUME NEW ok \in BOOLEAN, NEW i \in -1 .. FrameCount, nthFrame(t, i, ok) PROVE SameHeap
    BY <2>3, EnteredOnDecoder, NthImageKeepsHeap, LibavifAssumption
       DEF nthFrame, Ops, DecoderOps
  <2>4. CASE \/ createOk(t) \/ getFrame(t) \/ getField(t) \/ getSize(t)
             \/ closeNothing(t) \/ clearContext(t) \/ Undefined(t)
             \/ \E ok \in BOOLEAN : decodeFrame(t, ok)
    BY <1>1, <2>4 DEF createOk, getFrame, getField, getSize, closeNothing, clearContext,
                      Undefined, decodeFrame
  <2> QED
    BY <1>2, <1>4, <2>1, <2>2, <2>3, <2>4 DEF Proceed
<1> QED
  BY <1>1, <1>3, <1>4 DEF Next, Collector, dropDecoder, finalize, dropBytes, collect, vars

(***************************************************************************)
(* On the desktop JVM, where GetByteArrayElements copies the array, the    *)
(* players meet no undefined behaviour at all.                             *)
(***************************************************************************)
THEOREM DesktopPlayersMeetNoFault ==
  ASSUME Platform = "jvm"
  PROVE  PSpec => []NoFault
<1>1. PInit => InputsCopied
  BY DEF PInit, Init, InputsCopied, Live, Unallocated
<1>2. ShowInv /\ InputsCopied /\ [PNext]_pvars => InputsCopied'
  BY CopiesStep, PlaybackIsJniDecoder DEF ShowInv, PlayInv
<1>3. ShowInv /\ InputsCopied => NoFault
  BY DEF ShowInv, PlayInv, OnlyInputFaults, InputFreed, InputsCopied, NoFault
<1> QED
  BY <1>1, <1>2, <1>3, ShowInit, ShowStep, PTL DEF PSpec
-------------------------------------------------------------------------------
(***************************************************************************)
(* The players as a slideshow.                                             *)
(***************************************************************************)
Opened(p) == \E d \in Decoders : d \in {decoder[p], call[p].on} /\ Live(d)

(* Slideshow sees of a step what it changes of the player that takes it.   *)
LEMMA StepSeen ==
  ASSUME ShowInv, NEW p \in Threads, PTypeOK', OthersKept(p)
  PROVE  /\ /\ Opened(p)' = Opened(p) /\ bitmap'[p] = bitmap[p]
            /\ pc'[p] = "done" <=> pc[p] = "done"
            => UNCHANGED Show!vars
         /\ /\ Opened(p)' /\ ~Opened(p) /\ bitmap'[p] = bitmap[p]
            /\ pc[p] # "done" /\ pc'[p] # "done"
            => Show!Open(p)
         /\ /\ Opened(p)' /\ Opened(p)
            /\ pc[p] # "done" /\ pc'[p] # "done"
            /\ bitmap'[p] \in FrameIndexes
            /\ bitmap'[p] = bitmap[p] + 1 \/ (bitmap'[p] = 0 /\ p \in Anime)
            /\ p \notin Anime => bitmap[p] = -1
            => Show!Show(p)
         /\ /\ ~Opened(p)' /\ bitmap'[p] = bitmap[p]
            /\ pc[p] # "done" /\ pc'[p] = "done"
            => Show!End(p)
<1> DEFINE open == {q \in Threads : Opened(q)}
           over == {q \in Threads : pc[q] = "done"}
<1> USE DEF ShowInv, PlayInv, PTypeOK, HandleInv, TypeOK
<1>1. ASSUME NEW q \in Threads \ {p}
      PROVE  /\ Opened(q)' = Opened(q) /\ (pc'[q] = "done" <=> pc[q] = "done")
             /\ bitmap'[q] = bitmap[q]
  <2>1. Opened(q) <=> \E d \in Mine(q) : Live(d)
    BY JniAssumption DEF Opened, Mine, Calls
  <2>2. Opened(q)' <=> \E d \in Mine(q) : native'[d].state = "live"
    BY JniAssumption DEF Opened, Mine, Calls, Live, OthersKept
  <2>3. (\E d \in Mine(q) : Live(d)) <=> (\E d \in Mine(q) : native'[d].state = "live")
    BY DEF OthersKept, Live
  <2>4. Opened(q) \in BOOLEAN /\ Opened(q)' \in BOOLEAN
    BY DEF Opened
  <2> QED
    BY <2>1, <2>2, <2>3, <2>4 DEF OthersKept
<1>2. /\ Show!vars = <<bitmap, open, over>>
      /\ Show!vars' = <<bitmap', open', over'>>
  BY DEF Show!vars, Opened, At
<1>3. /\ Opened(p)' /\ ~Opened(p) => open' = open \cup {p} /\ p \notin open
      /\ ~Opened(p)' => open' = open \ {p}
      /\ Opened(p)' = Opened(p) => open' = open
      /\ Opened(p) <=> p \in open
  BY <1>1 DEF Opened
<1>4. /\ pc[p] # "done" /\ pc'[p] = "done" => over' = over \cup {p} /\ p \notin over
      /\ (pc'[p] = "done" <=> pc[p] = "done") => over' = over
      /\ pc[p] # "done" <=> p \notin over
  BY <1>1
<1>5. /\ bitmap'[p] = bitmap[p] => bitmap' = bitmap
      /\ bitmap' = [bitmap EXCEPT ![p] = bitmap'[p]]
  BY <1>1
<1> HIDE DEF open, over
<1>6. /\ Opened(p)' = Opened(p) /\ bitmap'[p] = bitmap[p]
      /\ pc'[p] = "done" <=> pc[p] = "done"
      => UNCHANGED Show!vars
  BY <1>2, <1>3, <1>4, <1>5
<1>7. /\ Show!Open(p) <=> /\ p \notin open \cup over /\ open' = open \cup {p}
                         /\ UNCHANGED <<bitmap, over>>
      /\ Show!End(p) <=> /\ p \notin over /\ open' = open \ {p} /\ over' = over \cup {p}
                        /\ UNCHANGED bitmap
  BY DEF Show!Open, Show!End, open, over, Opened, At
<1>8. Show!Show(p) <=>
        /\ p \in open
        /\ \/ bitmap[p] + 1 < FrameCount /\ bitmap' = [bitmap EXCEPT ![p] = @ + 1]
           \/ p \in Anime /\ bitmap' = [bitmap EXCEPT ![p] = 0]
        /\ p \notin Anime => bitmap[p] = -1
        /\ UNCHANGED <<open, over>>
  BY DEF Show!Show, open, over, Opened, At
<1>9. ASSUME bitmap'[p] \in FrameIndexes,
             bitmap'[p] = bitmap[p] + 1 \/ (bitmap'[p] = 0 /\ p \in Anime)
      PROVE  \/ bitmap[p] + 1 < FrameCount /\ bitmap' = [bitmap EXCEPT ![p] = @ + 1]
             \/ p \in Anime /\ bitmap' = [bitmap EXCEPT ![p] = 0]
  BY <1>5, <1>9, LibavifAssumption DEF FrameIndexes
<1>10. /\ Opened(p)' /\ Opened(p)
       /\ pc[p] # "done" /\ pc'[p] # "done"
       /\ bitmap'[p] \in FrameIndexes
       /\ bitmap'[p] = bitmap[p] + 1 \/ (bitmap'[p] = 0 /\ p \in Anime)
       /\ p \notin Anime => bitmap[p] = -1
       => Show!Show(p)
  <2>1. Opened(p)' /\ Opened(p) => Opened(p)' = Opened(p)
    BY DEF Opened
  <2> QED
    BY <1>3, <1>4, <1>8, <1>9, <2>1
<1> QED
  BY <1>3, <1>4, <1>5, <1>6, <1>7, <1>10

(* A player that plays has its image open.                                 *)
LEMMA PlayingOpened ==
  ASSUME NEW p \in Threads
  PROVE  /\ PlayInv /\ pc[p] \in Playing => Opened(p)
         /\ PlayInv' /\ pc'[p] \in Playing => Opened(p)'
<1>1. PlayInv /\ pc[p] \in Playing => Opened(p)
  BY OpenLive DEF Opened
<1>2. ASSUME PlayInv', pc'[p] \in Playing PROVE Opened(p)'
  <2>1. /\ HandleValid' /\ DecoderOpen(p)' /\ held' \subseteq Decoders
    BY <1>2 DEF PlayInv, HandleInv, TypeOK
  <2>2. decoder'[p] \in Decoders /\ native'[decoder'[p]].state = "live"
    BY <1>2, <2>1 DEF DecoderOpen, HandleValid, Live
  <2> QED
    BY <2>2 DEF Opened, Live
<1> QED
  BY <1>1, <1>2

(* Before create(), and after the end of a player, nothing is open.        *)
LEMMA IdleClosed ==
  ASSUME PlayInv, NEW p \in Threads, call[p] = Idle, decoder[p] = NoDecoder
  PROVE  ~Opened(p)
  BY JniAssumption DEF Opened, Idle

(* Every step of a player is one of the slideshow, or none.                *)
LEMMA PlayerShows ==
  ASSUME ShowInv, NEW p \in Threads, Player(p) \/ cancel(p), ShowInv'
  PROVE  [Show!Next]_(Show!vars)
<1> USE DEF Goto, At
<1>1. PlayInv /\ PlayInv' /\ PTypeOK /\ PTypeOK' /\ HandleInv /\ HandleInv'
  BY DEF ShowInv, PlayInv
<1>2. OthersKept(p)
  BY <1>1, PlayerSteps DEF PlayerStep
<1>3. Show!Open(p) \/ Show!Show(p) \/ Show!End(p) => [Show!Next]_(Show!vars)
  BY DEF Show!Next
<1>4. ASSUME bitmap'[p] = bitmap[p], pc[p] \in Playing, pc'[p] \in Playing
      PROVE  UNCHANGED Show!vars
  <2>1. Opened(p) /\ Opened(p)' /\ Opened(p)' = Opened(p)
    BY <1>1, <1>4, PlayingOpened DEF Opened
  <2>2. pc[p] # "done" /\ pc'[p] # "done"
    BY <1>4, StatementOf
  <2> QED
    BY <1>1, <1>2, <1>4, <2>1, <2>2, StepSeen
<1>5. ASSUME NEW a \in Arrays, readBytes(p, a) PROVE [Show!Next]_(Show!vars)
  <2>1. /\ UNCHANGED <<call, native, decoder, bitmap>>
        /\ pc[p] = "read" /\ pc'[p] \in {"done", "probe"}
    BY <1>1, <1>5 DEF readBytes, vars, PTypeOK
  <2>2. call[p] = Idle /\ decoder[p] = NoDecoder
    BY <1>1, <2>1, StatementOf
       DEF PlayInv, HandleInv, CallsWellFormed, CallOfStatement, CallAt, DecoderOpen, Method, FrameMethod
  <2>3. ~Opened(p) /\ ~Opened(p)' /\ Opened(p)' = Opened(p)
    BY <1>1, <2>1, <2>2, JniAssumption DEF Opened, Idle
  <2> QED
    BY <1>1, <1>2, <1>3, <2>1, <2>3, StepSeen
<1>6. ASSUME UNCHANGED <<native, call, decoder, bitmap>>,
             pc'[p] = "done" <=> pc[p] = "done"
      PROVE  UNCHANGED Show!vars
  <2>1. Opened(p)' = Opened(p)
    BY <1>6 DEF Opened, Live
  <2> QED
    BY <1>1, <1>2, <1>6, <2>1, StepSeen
<1>7. CASE probe(p) \/ publish(p) \/ wake(p) \/ cancel(p) \/ undefined(p)
  <2>1. UNCHANGED <<native, call, decoder, bitmap>> /\ (pc'[p] = "done" <=> pc[p] = "done")
    BY <1>1, <1>7 DEF probe, publish, wake, cancel, undefined, Undefined, isAvifImage, vars, player,
                      PTypeOK
  <2> QED
    BY <1>6, <2>1
<1>8. ASSUME NEW d \in Decoders, NEW isCopy \in BOOLEAN, create(p, d, isCopy)
      PROVE  Show!Open(p)
  <2>1. /\ call[p] = Idle /\ call'[p] = Call("create", d, "ptr") /\ pc[p] = "create"
        /\ UNCHANGED <<pc, decoder, bitmap>> /\ avifDecoderCreate(d, bytes[p], isCopy)
    BY <1>1, <1>8 DEF create, createContext, Begin, player, HandleInv, TypeOK
  <2>2. call'[p].on = d /\ native'[d].state = "live"
    <3>1. Call("create", d, "ptr").on = d
      BY CallType DEF Ops
    <3>2. native \in [Decoders -> NativeDecoders] /\ bytes[p] \in Arrays \cup {NoArray}
      BY <1>1 DEF PTypeOK, TypeOK
    <3> QED
      BY <2>1, <3>1, <3>2, CreateMakesLive
  <2>3. Opened(p)'
    BY <2>2 DEF Opened, Live
  <2>4. ~Opened(p)
    BY <1>1, <2>1, IdleClosed DEF PlayInv, DecoderOpen
  <2> QED
    BY <1>1, <1>2, <2>1, <2>3, <2>4, StepSeen
<1>9. CASE created(p)
  <2>1. /\ call[p].op = "create" /\ pc[p] = "create" /\ pc'[p] \in Playing
        /\ UNCHANGED bitmap
    BY <1>1, <1>9, StatementOf DEF created, createOk, Enter, PlayInv, CallOfStatement, PTypeOK
  <2>2. Opened(p) /\ Opened(p)' /\ Opened(p)' = Opened(p)
    BY <1>1, <2>1, PlayingOpened DEF Opened, HandleInv, CallsWellFormed
  <2>3. pc'[p] # "done"
    BY <2>1, StatementOf
  <2> QED
    BY <1>1, <1>2, <2>1, <2>2, <2>3, StepSeen
<1>10. CASE notCreated(p) \/ closed(p)
  <2>1. /\ pc[p] # "done" /\ pc'[p] = "done" /\ call'[p] = Idle
        /\ native'[call[p].on].state = "destroyed"
        /\ decoder[p] = NoDecoder \/ decoder[p] = call[p].on
        /\ UNCHANGED <<decoder, bitmap>>
    BY <1>1, <1>10, EndKeeps DEF notCreated, closed, player
  <2>2. ~Opened(p)'
    BY <2>1, JniAssumption DEF Opened, Live, Idle
  <2> QED
    BY <1>1, <1>2, <1>3, <2>1, <2>2, StepSeen
<1>11. CASE invoke(p) \/ closing(p)
  <2>1. pc[p] \in Playing /\ UNCHANGED <<pc, bitmap>>
    BY <1>11, StatementOf DEF invoke, closing, player, Playing
  <2> QED
    BY <1>4, <2>1
<1>12. ASSUME \/ counted(p) \/ gotFrame(p) \/ captioned(p) \/ captionSized(p) \/ delay(p)
              \/ \E ok \in BOOLEAN : advanced(p, ok) \/ restarted(p, ok) \/ sized(p, ok)
       PROVE  UNCHANGED Show!vars
  <2>1. call[p].op \in Ops \ {"idle", "create"}
    BY <1>12 DEF counted, gotFrame, sized, captioned, captionSized, delay, advanced, restarted,
                 getField, getFrame, getSize, nextFrame, nthFrame, Enter, Ops, DecoderOps, FrameOps
  <2>2. pc[p] \in Playing /\ pc'[p] \in Playing
    BY <1>1, <1>12, <2>1, InCall, StatementOf
       DEF counted, gotFrame, sized, captioned, captionSized, delay, advanced, restarted, PTypeOK
  <2>3. UNCHANGED bitmap
    BY <1>12 DEF counted, gotFrame, sized, captioned, captionSized, delay, advanced, restarted, player
  <2> QED
    BY <1>4, <2>2, <2>3
<1>13. ASSUME NEW ok \in BOOLEAN, decoded(p, ok) PROVE [Show!Next]_(Show!vars)
  <2>1. call[p].op = "decodeFrame" /\ call[p].on = decoder[p] /\ pc[p] = "decode"
    BY <1>1, <1>13, InCall, StatementOf DEF decoded, decodeFrame, Enter, Ops, FrameOps
  <2>2. pc'[p] \in {"publish", "close"} /\ pc'[p] \in Playing /\ pc[p] \in Playing
    BY <1>1, <1>13, <2>1, StatementOf DEF decoded, PTypeOK
  <2>3. CASE ~ok
    BY <1>4, <1>13, <2>2, <2>3 DEF decoded
  <2>4. CASE ok
    <3>1. /\ bitmap'[p] = native[decoder[p]].imageIndex
          /\ native[decoder[p]].imageIndex \in FrameIndexes
      BY <1>1, <1>13, <2>1, <2>4 DEF decoded, decodeFrame, PTypeOK
    <3>2. /\ native[decoder[p]].imageIndex # -1
          /\ \/ native[decoder[p]].imageIndex = bitmap[p] + 1
             \/ native[decoder[p]].imageIndex = 0 /\ p \in Anime
          /\ p \notin Anime => bitmap[p] = -1
      BY <2>1, <3>1, LibavifAssumption DEF ShowInv, FrameFollows, FrameIndexes
    <3>3. Opened(p) /\ Opened(p)' /\ pc[p] # "done" /\ pc'[p] # "done"
      BY <1>1, <2>1, <2>2, PlayingOpened
    <3>4. bitmap'[p] \in FrameIndexes
      BY <3>1
    <3>5. bitmap'[p] = bitmap[p] + 1 \/ (bitmap'[p] = 0 /\ p \in Anime)
      BY <3>1, <3>2
    <3>6. Show!Show(p)
      BY <1>1, <1>2, <3>2, <3>3, <3>4, <3>5, StepSeen
    <3> QED
      BY <1>3, <3>6
  <2> QED
    BY <2>3, <2>4
<1> QED
  BY <1>3, <1>5, <1>7, <1>8, <1>9, <1>10, <1>11, <1>12, <1>13 DEF Player

(* The slideshow does not see the collector.                               *)
LEMMA RuntimeUnseen == Runtime => UNCHANGED Show!vars
<1> SUFFICES ASSUME Runtime PROVE UNCHANGED Show!vars
  OBVIOUS
<1>1. UNCHANGED <<native, call, decoder, bitmap, pc>>
  BY DEF Runtime, forgetDecoder, forgetBytes, dropDecoder, finalize, dropBytes, collect, player
<1> QED
  BY <1>1 DEF Show!vars, Live, At

(***************************************************************************)
(* The players implement the slideshow: a player opens its image once,     *)
(* shows its frames in their order, from the first one again only in a     *)
(* loop, and ends with its image closed.                                   *)
(***************************************************************************)
THEOREM PlayersImplementSlideshow == PSpec => ShowsInOrder
<1>1. PInit => Show!Init
  BY JniAssumption DEF PInit, Init, Show!Init, Live, Unallocated, Idle, At
<1>2. ShowInv /\ [PNext]_pvars => [Show!Next]_(Show!vars)
  <2> SUFFICES ASSUME ShowInv, [PNext]_pvars PROVE [Show!Next]_(Show!vars)
    OBVIOUS
  <2>1. ShowInv'
    BY ShowStep
  <2>2. UNCHANGED pvars => UNCHANGED Show!vars
    BY DEF pvars, vars, player, Show!vars, Live, At
  <2> QED
    BY <2>1, <2>2, PlayerShows, RuntimeUnseen DEF PNext
<1> QED
  BY <1>1, <1>2, ShowInit, ShowStep, PTL DEF PSpec, ShowsInOrder, Show!Spec
-------------------------------------------------------------------------------
(***************************************************************************)
(* The loop of the animation on sound input.                               *)
(***************************************************************************)

(* The loop restarts after the last frame, and only a restart, or the      *)
(* first nextFrame(), gets to frame 0.                                     *)
Wraps(p) ==
  /\ pc[p] = "restart" => bitmap[p] = FrameCount - 1
  /\ pc[p] \in {"frame", "size", "decode"} /\ native[decoder[p]].imageIndex = 0
       => bitmap[p] \in {-1, FrameCount - 1}

(* nextFrame() fails on the last frame only, nthFrame(0) never.            *)
LEMMA SoundMoves ==
  ASSUME ~Damaged, ShowInv, NEW p \in Anime, Wraps(p), NEW ok \in BOOLEAN,
         advanced(p, ok) \/ restarted(p, ok)
  PROVE  Wraps(p)' /\ bitmap' = bitmap
<1> DEFINE d == decoder[p]
           i == native[d].imageIndex
<1>1. /\ p \in Threads /\ PlayInv /\ PTypeOK /\ FrameFollows(p) /\ DOMAIN pc = Threads
  BY PlaybackAssumption DEF ShowInv, PlayInv, PTypeOK
<1>2. /\ call[p].op \in {"nextFrame", "nthFrame"} /\ call[p].on = d
      /\ UNCHANGED <<decoder, bitmap>> /\ pc[p] \in Playing
  BY <1>1, InCall DEF advanced, restarted, nextFrame, nthFrame, Enter, player, Ops, DecoderOps
<1>3. d \in Decoders /\ native[d] \in NativeDecoders /\ DOMAIN native = Decoders
  BY <1>1, <1>2, OpenLive DEF PTypeOK, TypeOK
<1>4. i \in FrameIndexes \cup {-1} /\ FrameCount \in Nat /\ FrameCount > 0
  BY <1>3, LibavifAssumption DEF NativeDecoders
<1>5. CASE advanced(p, ok)
  <2>1. pc[p] = "next" /\ avifDecoderNextImage(d, ok) /\ i = bitmap[p]
    BY <1>1, <1>2, <1>5, InCall, StatementOf
       DEF advanced, nextFrame, Enter, Ops, DecoderOps, FrameFollows
  <2>2. pc'[p] = IF ok THEN "frame" ELSE "restart"
    BY <1>1, <1>5 DEF advanced, Goto
  <2>3. CASE ok
    <3>1. native' = [native EXCEPT ![d].imageIndex = i + 1]
      BY <2>1, <2>3 DEF avifDecoderNextImage
    <3>2. native'[d].imageIndex = i + 1
      BY <1>3, <3>1 DEF NativeDecoders
    <3> QED
      BY <1>2, <1>4, <2>1, <2>2, <2>3, <3>2 DEF Wraps, FrameIndexes
  <2>4. CASE ~ok
    <3>1. i + 1 \notin FrameIndexes
      BY <2>1, <2>4 DEF avifDecoderNextImage
    <3>2. i = FrameCount - 1
      BY <1>4, <3>1 DEF FrameIndexes
    <3> QED
      BY <1>2, <2>1, <2>2, <2>4, <3>2 DEF Wraps
  <2> QED
    BY <2>3, <2>4
<1>6. CASE restarted(p, ok)
  <2>1. pc[p] = "restart" /\ avifDecoderNthImage(d, 0, ok)
    BY <1>1, <1>2, <1>6, InCall, StatementOf DEF restarted, nthFrame, Enter, Ops, DecoderOps
  <2>2. ok
    BY <1>4, <2>1 DEF avifDecoderNthImage, FrameIndexes
  <2>3. pc'[p] = "frame"
    BY <1>1, <1>6, <2>2 DEF restarted, Goto
  <2> QED
    BY <1>2, <2>1, <2>3 DEF Wraps
<1> QED
  BY <1>2, <1>5, <1>6

(* What every other step of an animation leaves true.                      *)
LEMMA WrapsKept ==
  ASSUME ~Damaged, ShowInv, NEW p \in Anime, Wraps(p), Player(p) \/ cancel(p)
  PROVE  /\ Wraps(p)'
         /\ bitmap'[p] = 0 /\ bitmap[p] # 0 => bitmap[p] \in {-1, FrameCount - 1}
<1>1. /\ p \in Threads /\ PlayInv /\ PTypeOK /\ FrameFollows(p) /\ DOMAIN pc = Threads
  BY PlaybackAssumption DEF ShowInv, PlayInv, PTypeOK
<1> USE DEF Goto, At
<1>2. CASE (\E a \in Arrays : readBytes(p, a)) \/ probe(p) \/ created(p) \/ notCreated(p)
           \/ counted(p) \/ publish(p) \/ captioned(p) \/ captionSized(p) \/ delay(p) \/ wake(p)
           \/ closed(p)
  <2>1. pc'[p] \notin {"restart", "frame", "size", "decode"} /\ bitmap' = bitmap
    BY <1>1, <1>2 DEF readBytes, probe, created, notCreated, counted, publish, captioned,
                      captionSized, delay, wake, closed, player
  <2> QED
    BY <2>1 DEF Wraps
<1>3. CASE \E d \in Decoders, isCopy \in BOOLEAN : create(p, d, isCopy)
  <2>1. pc'[p] = "create" /\ bitmap' = bitmap
    BY <1>3 DEF create, player
  <2> QED
    BY <2>1 DEF Wraps
<1>4. CASE invoke(p) \/ closing(p) \/ undefined(p) \/ cancel(p)
  <2>1. UNCHANGED <<native, pc, decoder, bitmap>>
    BY <1>4 DEF invoke, Invoke, invokeFrame, closing, close, clearContext, undefined, Undefined,
                cancel, vars, handles, player
  <2> QED
    BY <2>1 DEF Wraps
<1>5. CASE gotFrame(p) \/ \E ok \in BOOLEAN : sized(p, ok)
  <2>1. call[p].op \in {"getFrame", "getSize"}
    BY <1>5 DEF gotFrame, sized, getFrame, getSize, Enter
  <2>2. pc[p] \in {"frame", "size"} /\ pc'[p] \in {"size", "decode", "close"}
    BY <1>1, <1>5, InCall, StatementOf
       DEF gotFrame, sized, getFrame, Enter, Ops, DecoderOps
  <2>3. UNCHANGED <<native, decoder, bitmap>>
    BY <1>5 DEF gotFrame, sized, getFrame, getSize, handles, player
  <2> QED
    BY <2>2, <2>3 DEF Wraps
<1>6. ASSUME NEW ok \in BOOLEAN, decoded(p, ok)
      PROVE  /\ Wraps(p)'
             /\ bitmap'[p] = 0 /\ bitmap[p] # 0 => bitmap[p] \in {-1, FrameCount - 1}
  <2>1. pc[p] = "decode" /\ pc'[p] \in {"publish", "close"}
    BY <1>1, <1>6, InCall, StatementOf DEF decoded, decodeFrame, Enter, Ops, FrameOps
  <2>2. bitmap'[p] = bitmap[p] \/ bitmap'[p] = native[decoder[p]].imageIndex
    BY <1>1, <1>6 DEF decoded, PTypeOK
  <2> QED
    BY <2>1, <2>2 DEF Wraps
<1> QED
  BY <1>2, <1>3, <1>4, <1>5, <1>6, SoundMoves DEF Player

(***************************************************************************)
(* On sound input the animation goes back to its first frame from its last *)
(* one only, for every number of frames.                                   *)
(***************************************************************************)
THEOREM AnimationWrapsAtEnd ==
  ASSUME ~Damaged
  PROVE  PSpec => WrapsAtEnd
<1> DEFINE WrapInv == \A p \in Anime : Wraps(p)
           Wrapping == \A p \in Anime : bitmap'[p] = 0 /\ bitmap[p] # 0 =>
                                          bitmap[p] \in {-1, FrameCount - 1}
<1>1. PInit => WrapInv
  BY PlaybackAssumption DEF PInit, Wraps
<1>2. ShowInv /\ WrapInv /\ [PNext]_pvars => WrapInv' /\ Wrapping
  <2> SUFFICES ASSUME ShowInv, WrapInv, [PNext]_pvars, NEW p \in Anime
               PROVE  /\ Wraps(p)'
                      /\ bitmap'[p] = 0 /\ bitmap[p] # 0 => bitmap[p] \in {-1, FrameCount - 1}
    OBVIOUS
  <2>1. p \in Threads /\ PTypeOK' /\ HandleInv'
    BY PTypeStep, PlaybackIsJniDecoder, HandleStep, PlaybackAssumption DEF ShowInv, PlayInv
  <2>2. CASE UNCHANGED pvars
    BY <2>2 DEF pvars, vars, player, Wraps
  <2>3. CASE Player(p) \/ cancel(p)
    BY <2>3, WrapsKept
  <2>4. ASSUME NEW q \in Threads \ {p}, Player(q) \/ cancel(q)
        PROVE  Wraps(p)' /\ bitmap'[p] = bitmap[p]
    <3>1. OthersKept(q)
      BY <2>1, <2>4, PlayerSteps DEF PlayerStep
    <3>2. pc[p] \in Playing => decoder[p] \in Mine(p)
      BY <2>1, OpenLive, JniAssumption DEF ShowInv, Mine
    <3> QED
      BY <2>1, <3>1, <3>2, StatementOf DEF Wraps, OthersKept
  <2>5. CASE Runtime
    <3>1. UNCHANGED <<native, pc, decoder, bitmap>>
      BY <2>5 DEF Runtime, forgetDecoder, forgetBytes, dropDecoder, finalize, dropBytes, collect,
                  player
    <3> QED
      BY <3>1 DEF Wraps
  <2> QED
    BY <2>2, <2>3, <2>4, <2>5 DEF PNext
<1>3. ShowInv /\ WrapInv /\ [PNext]_pvars => [Wrapping]_pvars
  BY <1>2
<1> QED
  BY <1>1, <1>2, <1>3, ShowInit, ShowStep, PTL DEF PSpec, WrapsAtEnd
===============================================================================
