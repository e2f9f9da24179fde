------------------------------- MODULE Playback -------------------------------
(***************************************************************************)
(* The two players of App.kt on top of the JNI decoder: the producer that  *)
(* shows the first frame of test.avif, and the one that plays              *)
(* test_anime.avif in a loop on Dispatchers.Default.                       *)
(*                                                                         *)
(* A player is a thread of JniDecoder.  Every call of the API is made of   *)
(* the steps that JniDecoder gives it; here they are put in the order of   *)
(* the program, and their results decide where it goes next.  Consecutive  *)
(* reads of the same kind (getWidth and getHeight, getFrameIndex and       *)
(* getFrameDurationMs) are one read.                                       *)
(***************************************************************************)
EXTENDS JniDecoder

CONSTANTS
  Anime,    \* the threads that play in a loop; the others show a still image
  Instant   \* the frames whose duration is 0 ms

ASSUME PlaybackAssumption ==
  /\ Anime \subseteq Threads
  /\ Instant \subseteq FrameIndexes

VARIABLES
  pc,         \* the statement each player is at
  bytes,      \* its ByteArray
  decoder,    \* its AvifDecoder
  bitmap,     \* the frame in its bitmap, -1 before the first one
  painted,    \* TRUE once `value` is a painter of that bitmap
  caption,    \* the index in durationText, -1 when it is empty
  cancelled   \* TRUE when the composition has left the screen

player == <<bytes, decoder, bitmap, painted, caption, cancelled>>
pvars == <<vars, pc, player>>

(* The methods of AvifDecoder called at each statement.                    *)
Method ==
  [count |-> "get", next |-> "nextFrame", restart |-> "nthFrame",
   frame |-> "getFrame", index |-> "get", duration |-> "get"]

(* The methods of AvifFrame.                                               *)
FrameMethod == [size |-> "getSize", decode |-> "decodeFrame", text |-> "getSize"]

Labels == DOMAIN Method \cup DOMAIN FrameMethod \cup
          {"read", "probe", "create", "publish", "delay", "close", "done"}

At(p, label) == pc[p] = label
Goto(p, label) == pc' = [pc EXCEPT ![p] = label]
-------------------------------------------------------------------------------
(***************************************************************************)
(* resource(...).readBytes(), which suspends: a player that is cancelled   *)
(* does not get past it.                                                   *)
(***************************************************************************)
readBytes(p, a) ==
  /\ At(p, "read")
  /\ IF cancelled[p]
     THEN /\ Goto(p, "done")
          /\ UNCHANGED bytes
     ELSE /\ \A q \in Threads : bytes[q] # a
          /\ bytes' = [bytes EXCEPT ![p] = a]
          /\ Goto(p, "probe")
  /\ UNCHANGED <<vars, decoder, bitmap, painted, caption, cancelled>>

probe(p) ==
  /\ At(p, "probe")
  /\ isAvifImage(p, bytes[p])
  /\ Goto(p, "create")
  /\ UNCHANGED player

create(p, d, isCopy) ==
  /\ At(p, "create")
  /\ createContext(p, d, bytes[p], isCopy)
  /\ UNCHANGED <<pc, player>>

created(p) ==
  /\ createOk(p)
  /\ decoder' = [decoder EXCEPT ![p] = call[p].on]
  /\ Goto(p, IF p \in Anime THEN "count" ELSE "next")
  /\ UNCHANGED <<bytes, bitmap, painted, caption, cancelled>>

(* create() throws before there is anything to close.                      *)
notCreated(p) ==
  /\ createFails(p)
  /\ Goto(p, "done")
  /\ UNCHANGED player

(* The player calls the method of the statement it is at.                  *)
invoke(p) ==
  /\ \/ /\ pc[p] \in DOMAIN Method
        /\ Invoke(p, decoder[p], Method[pc[p]])
     \/ /\ pc[p] \in DOMAIN FrameMethod
        /\ \E f \in frames :
             f.of = decoder[p] /\ invokeFrame(p, f, FrameMethod[pc[p]])
  /\ UNCHANGED <<pc, player>>

counted(p) ==
  /\ At(p, "count")
  /\ getField(p)
  /\ Goto(p, "next")
  /\ UNCHANGED player

(* Faulty variant of advanced: `&&` for `||`.                              *)
advancedAndRestarts(p, ok) ==
  /\ nextFrame(p, ok)
  /\ Goto(p, IF ok THEN "restart" ELSE "close")
  /\ UNCHANGED player

(* The still player ignores the result of nextFrame().                     *)
advanced(p, ok) ==
  /\ nextFrame(p, ok)
  /\ Goto(p, IF ok \/ p \notin Anime THEN "frame" ELSE "restart")
  /\ UNCHANGED player

(* Faulty variant of restarted: the frame after the first one.             *)
restartedAtSecond(p, ok) ==
  /\ nthFrame(p, 1, ok)
  /\ Goto(p, IF ok THEN "frame" ELSE "close")
  /\ UNCHANGED player

(* ... || decoder.nthFrame(0): the loop, and the player, end on a failure. *)
restarted(p, ok) ==
  /\ nthFrame(p, 0, ok)
  /\ Goto(p, IF ok THEN "frame" ELSE "close")
  /\ UNCHANGED player

(* Faulty variant of gotFrame: only the first frame is decoded.            *)
gotFrameOnce(p) ==
  /\ getFrame(p)
  /\ Goto(p, IF p \in Anime /\ bitmap[p] # -1 THEN "publish" ELSE "size")
  /\ UNCHANGED player

(* The size is read for the title (still) and to allocate the bitmap, once *)
(* (animation).                                                            *)
gotFrame(p) ==
  /\ getFrame(p)
  /\ Goto(p, IF p \in Anime /\ bitmap[p] # -1 THEN "decode" ELSE "size")
  /\ UNCHANGED player

(* createPlatformBitmap throws when there is no memory for the bitmap.     *)
sized(p, ok) ==
  /\ At(p, "size")
  /\ ok \/ Damaged
  /\ getSize(p)
  /\ Goto(p, IF ok THEN "decode" ELSE "close")
  /\ UNCHANGED player

(* Faulty variant of decoded: an exception does not go through `use`.      *)
decodedOutsideUse(p, ok) ==
  /\ decodeFrame(p, ok)
  /\ bitmap' = IF ok THEN [bitmap EXCEPT ![p] = native[decoder[p]].imageIndex]
                     ELSE bitmap
  /\ Goto(p, IF ok THEN "publish" ELSE "done")
  /\ UNCHANGED <<bytes, decoder, painted, caption, cancelled>>

(***************************************************************************)
(* decodeFrame overwrites the bitmap, which the screen may already show.   *)
(* An exception ends the player; getBitmapResult catches that of the still *)
(* one.  Both leave `use`.                                                 *)
(***************************************************************************)
decoded(p, ok) ==
  /\ decodeFrame(p, ok)
  /\ bitmap' = IF ok THEN [bitmap EXCEPT ![p] = native[decoder[p]].imageIndex]
                     ELSE bitmap
  /\ Goto(p, IF ok THEN "publish" ELSE "close")
  /\ UNCHANGED <<bytes, decoder, painted, caption, cancelled>>

(* value = BitmapPainter(...)                                              *)
publish(p) ==
  /\ At(p, "publish")
  /\ painted' = [painted EXCEPT ![p] = TRUE]
  /\ Goto(p, IF p \in Anime THEN "index" ELSE "close")
  /\ UNCHANGED <<vars, bytes, decoder, bitmap, caption, cancelled>>

(* Faulty variant of captioned: the index is counted from one.             *)
captionedFromOne(p) ==
  /\ At(p, "index")
  /\ getField(p)
  /\ caption' = [caption EXCEPT ![p] = native[decoder[p]].imageIndex + 1]
  /\ Goto(p, "text")
  /\ UNCHANGED <<bytes, decoder, bitmap, painted, cancelled>>

(* durationText = "index=..., duration=...\n" + "width=..., height=..."    *)
captioned(p) ==
  /\ At(p, "index")
  /\ getField(p)
  /\ caption' = [caption EXCEPT ![p] = native[decoder[p]].imageIndex]
  /\ Goto(p, "text")
  /\ UNCHANGED <<bytes, decoder, bitmap, painted, cancelled>>

captionSized(p) ==
  /\ At(p, "text")
  /\ getSize(p)
  /\ Goto(p, "duration")
  /\ UNCHANGED player

(* delay(decoder.getFrameDurationMs().milliseconds) starts ...             *)
delay(p) ==
  /\ At(p, "duration")
  /\ getField(p)
  /\ Goto(p, "delay")
  /\ UNCHANGED player

(* Faulty variant of wake: the wait is not cancellable.                    *)
wakeSleeping(p) ==
  /\ At(p, "delay")
  /\ Goto(p, "next")
  /\ UNCHANGED <<vars, player>>

(* Faulty variant of wake: off by one in the test for the last frame.      *)
wakeBeforeLast(p) ==
  /\ At(p, "delay")
  /\ Goto(p, IF cancelled[p] THEN "close"
             ELSE IF native[decoder[p]].imageIndex < FrameCount - 2
                  THEN "next" ELSE "restart")
  /\ UNCHANGED <<vars, player>>

(* ... and ends.  A delay of 0 ms returns at once and does not look at the *)
(* cancellation; any other throws it into `use`.                           *)
wake(p) ==
  /\ At(p, "delay")
  /\ Goto(p, IF cancelled[p] /\ native[decoder[p]].imageIndex \notin Instant
             THEN "close" ELSE "next")
  /\ UNCHANGED <<vars, player>>

(* The `finally` of use().                                                 *)
closing(p) ==
  /\ At(p, "close")
  /\ \/ call[p] = Idle /\ close(p, decoder[p])
     \/ clearContext(p)
  /\ UNCHANGED <<pc, player>>

(* Faulty variant of closed: the animation tries again on what it closed.  *)
closedThenRetries(p) ==
  /\ At(p, "close")
  /\ closeNothing(p) \/ destroyContext(p)
  /\ Goto(p, IF p \in Anime THEN "next" ELSE "done")
  /\ UNCHANGED player

(* Faulty variant of closed: the frame leaves `use` and is decoded later.  *)
closedThenDecodes(p) ==
  /\ At(p, "close")
  /\ closeNothing(p) \/ destroyContext(p)
  /\ Goto(p, "decode")
  /\ UNCHANGED player

closed(p) ==
  /\ At(p, "close")
  /\ closeNothing(p) \/ destroyContext(p)
  /\ Goto(p, "done")
  /\ UNCHANGED player

undefined(p) == Undefined(p) /\ UNCHANGED <<pc, player>>
-------------------------------------------------------------------------------
(* The user leaves the screen.                                             *)
cancel(p) ==
  /\ ~cancelled[p]
  /\ cancelled' = [cancelled EXCEPT ![p] = TRUE]
  /\ UNCHANGED <<vars, pc, bytes, decoder, bitmap, painted, caption>>

(***************************************************************************)
(* What the collector may reclaim: a decoder whose player has ended, and   *)
(* an array that its player uses no more.  Neither player reads `bytes`    *)
(* after create() has returned.                                            *)
(***************************************************************************)
forgetDecoder(d) ==
  /\ \E p \in Threads : decoder[p] = d /\ At(p, "done")
  /\ dropDecoder(d)

forgetBytes(a) ==
  /\ \E p \in Threads : bytes[p] = a /\ pc[p] \notin {"read", "probe", "create"}
  /\ dropBytes(a)

Player(p) ==
  \/ \E a \in Arrays : readBytes(p, a)
  \/ probe(p)
  \/ \E d \in Decoders, isCopy \in BOOLEAN : create(p, d, isCopy)
  \/ created(p) \/ notCreated(p)
  \/ invoke(p) \/ counted(p)
  \/ \E ok \in BOOLEAN : advanced(p, ok) \/ restarted(p, ok) \/ sized(p, ok) \/ decoded(p, ok)
  \/ gotFrame(p) \/ publish(p)
  \/ captioned(p) \/ captionSized(p) \/ delay(p) \/ wake(p)
  \/ closing(p) \/ closed(p)
  \/ undefined(p)

Runtime ==
  /\ \/ \E d \in Decoders : forgetDecoder(d) \/ finalize(d)
     \/ \E a \in Arrays : forgetBytes(a) \/ collect(a)
  /\ UNCHANGED <<pc, player>>

PInit ==
  /\ Init
  /\ pc = [p \in Threads |-> "read"]
  /\ bytes = [p \in Threads |-> NoArray]
  /\ decoder = [p \in Threads |-> NoDecoder]
  /\ bitmap = [p \in Threads |-> -1]
  /\ painted = [p \in Threads |-> FALSE]
  /\ caption = [p \in Threads |-> -1]
  /\ cancelled = [p \in Threads |-> FALSE]

PNext == (\E p \in Threads : Player(p) \/ cancel(p)) \/ Runtime

(* The dispatcher runs every coroutine that can go on, and a delay ends.   *)
PSpec == PInit /\ [][PNext]_pvars /\ \A p \in Threads : WF_pvars(Player(p))
-------------------------------------------------------------------------------
(* The type of every variable of a player.                                 *)
PTypeOK ==
  /\ TypeOK
  /\ pc \in [Threads -> Labels]
  /\ bytes \in [Threads -> Arrays \cup {NoArray}]
  /\ decoder \in [Threads -> Decoders \cup {NoDecoder}]
  /\ bitmap \in [Threads -> FrameIndexes \cup {-1}]
  /\ painted \in [Threads -> BOOLEAN]
  /\ caption \in [Threads -> FrameIndexes \cup {-1}]
  /\ cancelled \in [Threads -> BOOLEAN]

(***************************************************************************)
(* The players are correct callers of the JNI decoder: whatever their      *)
(* steps, they keep the promises under which it has no undefined           *)
(* behaviour, without being told to.  This is refinement: JniDecoder is    *)
(* the specification of a caller that makes these promises.                *)
(***************************************************************************)
Caller == INSTANCE JniDecoder
            WITH Promises <- {"confined", "openOnly", "frameOpen", "freshFrame"}

CorrectCaller == Caller!Spec

(***************************************************************************)
(* The one undefined behaviour the players may meet is a decoder that      *)
(* reads an array the collector has reclaimed, and only where the decoder  *)
(* was given no copy of it.  GetByteArrayElements of the desktop JVM       *)
(* always copies: there the players meet none.                             *)
(***************************************************************************)
OnlyInputFaults ==
  faults # {} =>
    /\ faults = {"freedInput"}
    /\ \E d \in Decoders : Live(d) /\ InputFreed(d)

(***************************************************************************)
(* Every way out of a player goes through close(): a native decoder is     *)
(* live only while the player that created it has not ended, be it by a    *)
(* failure to create, to advance or to decode, or by cancellation.         *)
(***************************************************************************)
NoDecoderLeft ==
  \A d \in Decoders : Live(d) =>
    \E p \in Threads : ~At(p, "done") /\ d \in {decoder[p], call[p].on}

(***************************************************************************)
(* While a frame stays on the screen, the pixels shown, the index in the   *)
(* text and the frame the decoder is on (whose duration is being waited    *)
(* for) are the same.                                                      *)
(***************************************************************************)
ScreenConsistent ==
  \A p \in Threads : At(p, "delay") =>
    /\ painted[p]
    /\ bitmap[p] = caption[p]
    /\ bitmap[p] = native[decoder[p]].imageIndex

(***************************************************************************)
(* The players implement the slideshow: frames in order, one open decoder  *)
(* while they play, and none when they are over.  This is refinement.      *)
(***************************************************************************)
Show == INSTANCE Slideshow WITH
  Players <- Threads,
  Looping <- Anime,
  shown   <- bitmap,
  open    <- {p \in Threads : \E d \in Decoders :
                                d \in {decoder[p], call[p].on} /\ Live(d)},
  over    <- {p \in Threads : At(p, "done")}

ShowsInOrder == Show!Spec

(* On sound input the animation goes back to its first frame only from its *)
(* last one.                                                               *)
WrapsAtEnd ==
  [][\A p \in Anime :
       bitmap'[p] = 0 /\ bitmap[p] # 0 => bitmap[p] \in {-1, FrameCount - 1}]_pvars

(* A player that is cancelled ends.                                        *)
CancelStops == \A p \in Threads : cancelled[p] ~> At(p, "done")

(* An animation that is not cancelled shows each of its frames again and   *)
(* again.                                                                  *)
PlaysForever ==
  \A p \in Anime, i \in FrameIndexes :
    <>cancelled[p] \/ []<>(painted[p] /\ bitmap[p] = i)

===============================================================================
