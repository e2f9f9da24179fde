----------------------------- MODULE FrameDecode -----------------------------
(***************************************************************************)
(* AvifFrame.decodeFrame on Android, the desktop JVM and Kotlin/Native:    *)
(* one frame of an animation into one bitmap.                              *)
(*                                                                         *)
(* Android and the JVM convert in place, row by row, into the pixels of    *)
(* the bitmap, which Android locks meanwhile.  Kotlin/Native converts into *)
(* a buffer of libavif and installs a copy of it.  None of them compares   *)
(* the bitmap with the image.                                              *)
(*                                                                         *)
(* A pixel is written at the address of its first byte.  The memory of the *)
(* bitmap is a function from addresses to the pixels written there.        *)
(* Behaviour that C++ leaves undefined is recorded in faults and ends the  *)
(* run.                                                                    *)
(***************************************************************************)
EXTENDS Integers, FiniteSets

CONSTANTS
  Platforms,  \* the platforms to check: "android", "jvm", "native"
  Threads,    \* threads that decode into the bitmap
  Frames,     \* frames of the animation, all of the same size
  MaxSide,    \* the largest width and height of an image
  Paddings,   \* unused pixels that a row of the bitmap may have room for
  UIntValues, \* the number of values of a UInt and of an Int, 2^32 in the program
  MaxLost     \* bound on the buffers that are never freed

ASSUME FrameDecodeAssumption ==
  /\ Platforms \subseteq {"android", "jvm", "native"}
  /\ IsFiniteSet(Threads) /\ Frames # {}
  /\ {MaxSide, UIntValues, MaxLost} \cup Paddings \subseteq Nat
  /\ UIntValues > 0 /\ UIntValues % 16 = 0

VARIABLES
  platform, \* where this behaviour runs
  image,    \* size of the frames
  bitmap,   \* size, format, bytes per row
  pixels,   \* the pixels written into the memory of the bitmap, by address
  length,   \* bytes of that memory, up to the end of the last pixel
  locks,    \* AndroidBitmap_lockPixels not yet undone
  buffers,  \* buffers of avifRGBImageAllocatePixels not yet freed
  lost,     \* buffers that no call will free
  call,     \* the call each thread is in
  outcome,  \* how the last call ended, and whether it ran alone
  shared,   \* history: whether two calls ever overlapped
  faults    \* undefined behaviour: "overrun" of the memory, "race" on the SkBitmap

vars == <<platform, image, bitmap, pixels, length, locks, buffers, lost, call, outcome,
          shared, faults>>
shapes == <<platform, image, bitmap>>
memory == <<pixels, length>>

PixelSize == [RGBA_8888 |-> 4, RGB_565 |-> 2, RGBA_F16 |-> 8, ALPHA_8 |-> 1]
Formats == DOMAIN PixelSize
Supported == bitmap.format \in {"RGBA_8888", "RGB_565", "RGBA_F16"}

Idle == [pc |-> "idle", frame |-> CHOOSE f \in Frames : TRUE, row |-> 0]
NoOthers(t) == \A u \in Threads \ {t} : call[u].pc = "idle"
-------------------------------------------------------------------------------
(* avifRGBImagePixelSize of the format and depth chosen for the bitmap.    *)
rgbPixelSize ==
  CASE bitmap.format = "RGBA_F16" -> 8
    [] bitmap.format = "RGB_565" -> 2
    [] OTHER -> 4

(* Faulty variant of rgbRowBytes: for the default format of libavif.       *)
rgbRowBytesOfDefault == image.width * 4

(* Faulty variant of rgbRowBytes: the width of the image on Android, too.  *)
rgbRowBytesOfImage == image.width * rgbPixelSize

(* The stride of the bitmap on Android, elsewhere that of the image.       *)
rgbRowBytes ==
  IF platform = "android" THEN bitmap.rowBytes ELSE image.width * rgbPixelSize

(* avifRGBImageSetDefaults says FALSE, the code for Android then TRUE.     *)
alphaPremultiplied == platform = "android"

Address(x, y) == y * rgbRowBytes + x * rgbPixelSize

(* What avifImageYUVToRGB writes for some rows of a frame.                 *)
Converted(f, rows) ==
  LET at == (0 .. image.width - 1) \X rows
  IN  [a \in {Address(p[1], p[2]) : p \in at} |->
         LET p == CHOOSE q \in at : Address(q[1], q[2]) = a
         IN  [frame |-> f, x |-> p[1], y |-> p[2], premul |-> alphaPremultiplied]]

(* Pixels written over those that are there.                               *)
Over(old, written) ==
  [a \in DOMAIN old \cup DOMAIN written |->
     IF a \in DOMAIN written THEN written[a] ELSE old[a]]

AllRows == 0 .. image.height - 1

(* UInt.toInt() of a product of UInts.                                     *)
ToInt(n) ==
  LET u == n % UIntValues
  IN  IF u >= UIntValues \div 2 THEN u - UIntValues ELSE u

(* Faulty variant of ArraySize: a byte for each pixel.                     *)
ArraySizeOfPixels == ToInt(image.width * image.height)

ArraySize == ToInt(rgbRowBytes * image.height)
-------------------------------------------------------------------------------
decodeFrame(t, f) ==
  /\ call[t].pc = "idle"
  /\ lost < MaxLost
  /\ call' = [call EXCEPT ![t] = [pc |-> "start", frame |-> f, row |-> 0]]
  /\ outcome' = [status |-> "none", frame |-> f, alone |-> NoOthers(t)]
  /\ shared' = (shared \/ ~NoOthers(t))
  /\ UNCHANGED <<shapes, memory, locks, buffers, lost>>

At(t, pc) == call[t].pc = pc
Goto(t, pc) == call' = [call EXCEPT ![t].pc = pc] /\ UNCHANGED <<outcome, shared>>

Return(t, status) ==
  /\ call' = [call EXCEPT ![t] = Idle]
  /\ outcome' = [outcome EXCEPT !.status = status, !.frame = call[t].frame]
  /\ UNCHANGED shared

(* AndroidBitmap_getInfo fails, or the format is not one of the three.     *)
rejected(t) ==
  /\ At(t, "start")
  /\ platform = "android" \/ ~Supported
  /\ Return(t, "failed")
  /\ UNCHANGED <<shapes, memory, locks, buffers, lost>>

lockPixels(t) ==
  /\ platform = "android" /\ At(t, "start") /\ Supported
  /\ locks' = locks + 1
  /\ Goto(t, "convert")
  /\ UNCHANGED <<shapes, memory, buffers, lost>>

getPixels(t) ==
  /\ platform = "jvm" /\ At(t, "start") /\ Supported
  /\ Goto(t, "convert")
  /\ UNCHANGED <<shapes, memory, locks, buffers, lost>>

allocatePixels(t) ==
  /\ platform = "native" /\ At(t, "start") /\ Supported
  /\ buffers' = buffers + 1
  /\ Goto(t, "convert")
  /\ UNCHANGED <<shapes, memory, locks, lost>>

(* AndroidBitmap_lockPixels or avifRGBImageAllocatePixels fails.           *)
noPixels(t) ==
  /\ platform # "jvm" /\ At(t, "start") /\ Supported
  /\ Return(t, "failed")
  /\ UNCHANGED <<shapes, memory, locks, buffers, lost>>

(* avifImageYUVToRGB does not know where the memory of the bitmap ends.    *)
Overruns(t) ==
  /\ platform # "native" /\ At(t, "convert") /\ call[t].row < image.height
  /\ Address(image.width - 1, call[t].row) + rgbPixelSize > length

(* avifImageYUVToRGB writes the next row into the bitmap.                  *)
convertRow(t) ==
  /\ platform # "native" /\ At(t, "convert") /\ call[t].row < image.height
  /\ ~Overruns(t)
  /\ pixels' = Over(pixels, Converted(call[t].frame, {call[t].row}))
  /\ call' = [call EXCEPT ![t].row = @ + 1]
  /\ UNCHANGED <<shapes, length, locks, buffers, lost, outcome, shared>>

(* avifImageYUVToRGB returns; it may fail after it has written some rows.  *)
Converts(t, ok) ==
  /\ At(t, "convert")
  /\ ok /\ platform # "native" => call[t].row = image.height
  /\ Return(t, IF ok THEN "ok" ELSE "failed")

returnJvm(t, ok) ==
  /\ platform = "jvm"
  /\ Converts(t, ok)
  /\ UNCHANGED <<shapes, memory, locks, buffers, lost>>

(* Faulty variant of unlockPixels: the exception is thrown before it.      *)
unlockAfterSuccess(t, ok) ==
  /\ platform = "android"
  /\ Converts(t, ok)
  /\ locks' = IF ok THEN locks - 1 ELSE locks
  /\ UNCHANGED <<shapes, memory, buffers, lost>>

(* Faulty variant of unlockPixels: unlocked before and after the throw.    *)
unlockTwice(t, ok) ==
  /\ platform = "android"
  /\ Converts(t, ok)
  /\ locks' = IF ok THEN locks - 1 ELSE locks - 2
  /\ UNCHANGED <<shapes, memory, buffers, lost>>

(* The bitmap is unlocked before the result is looked at.                  *)
unlockPixels(t, ok) ==
  /\ platform = "android"
  /\ Converts(t, ok)
  /\ locks' = locks - 1
  /\ UNCHANGED <<shapes, memory, buffers, lost>>

(* Faulty variant of convertFails: error() without avifRGBImageFreePixels. *)
convertFailsKeeping(t) ==
  /\ platform = "native"
  /\ Converts(t, FALSE)
  /\ UNCHANGED <<shapes, memory, locks, buffers, lost>>

convertFails(t) ==
  /\ platform = "native"
  /\ Converts(t, FALSE)
  /\ buffers' = buffers - 1
  /\ UNCHANGED <<shapes, memory, locks, lost>>

(* The buffer is converted and copied into a ByteArray.                    *)
makeArray(t) ==
  /\ platform = "native" /\ At(t, "convert")
  /\ ArraySize >= 0
  /\ Goto(t, "install")
  /\ UNCHANGED <<shapes, memory, locks, buffers, lost>>

(* An SkBitmap is not thread safe: another call reads its color type or    *)
(* installs its own pixels meanwhile.                                      *)
Races(t) ==
  /\ platform = "native" /\ At(t, "install")
  /\ \E u \in Threads \ {t} : call[u].pc \in {"start", "install"}

(* A copy of the array becomes the memory of the bitmap, which keeps its   *)
(* size and its bytes per row.                                             *)
installPixels(t) ==
  /\ platform = "native" /\ At(t, "install")
  /\ ~Races(t)
  /\ Return(t, "ok")
  /\ pixels' = Converted(call[t].frame, AllRows)
  /\ length' = ArraySize
  /\ buffers' = buffers - 1
  /\ UNCHANGED <<shapes, locks, lost>>

(* The ByteArray cannot be made (no memory, or a negative size), or it     *)
(* cannot be installed.  Nothing frees the buffer.                         *)
copyFails(t) ==
  /\ platform = "native" /\ call[t].pc \in {"convert", "install"}
  /\ Return(t, "failed")
  /\ lost' = lost + 1
  /\ UNCHANGED <<shapes, memory, locks, buffers>>

CallFaults(t) ==
  (IF Overruns(t) THEN {"overrun"} ELSE {}) \cup (IF Races(t) THEN {"race"} ELSE {})

(* A step that C++ leaves undefined.                                       *)
undefined(t) ==
  /\ CallFaults(t) # {}
  /\ faults' = CallFaults(t)
  /\ UNCHANGED <<shapes, memory, locks, buffers, lost, call, outcome, shared>>
-------------------------------------------------------------------------------
Sides == 1 .. MaxSide

(* libavif refuses images of more than 2^28 pixels (imageSizeLimit), for   *)
(* 2^32 values of a UInt.                                                  *)
Images ==
  {i \in [width : Sides, height : Sides] : i.width * i.height <= UIntValues \div 16}

(* Any bitmap, smaller or larger than the image.  Its rows are a whole     *)
(* number of pixels apart (SkImageInfo::validRowBytes).                    *)
Bitmaps ==
  {[width |-> w, height |-> h, format |-> f, rowBytes |-> (w + p) * PixelSize[f]] :
     w \in Sides, h \in Sides, f \in Formats, p \in Paddings}

(* What the pixels of the bitmap take, without padding after the last one. *)
BitmapSize ==
  (bitmap.height - 1) * bitmap.rowBytes + bitmap.width * PixelSize[bitmap.format]

Init ==
  /\ platform \in Platforms
  /\ image \in Images
  /\ bitmap \in Bitmaps
  /\ pixels = [a \in {} |-> a]
  /\ length = BitmapSize
  /\ locks = 0
  /\ buffers = 0
  /\ lost = 0
  /\ call = [t \in Threads |-> Idle]
  /\ outcome = [status |-> "none", frame |-> Idle.frame, alone |-> TRUE]
  /\ shared = FALSE
  /\ faults = {}

Step(t) ==
  \/ \E f \in Frames : decodeFrame(t, f)
  \/ rejected(t) \/ noPixels(t)
  \/ lockPixels(t) \/ getPixels(t) \/ allocatePixels(t)
  \/ convertRow(t)
  \/ \E ok \in BOOLEAN : returnJvm(t, ok) \/ unlockPixels(t, ok)
  \/ convertFails(t) \/ makeArray(t) \/ installPixels(t) \/ copyFails(t)

Next ==
  /\ faults = {}
  /\ \E t \in Threads : (Step(t) /\ UNCHANGED faults) \/ undefined(t)

Spec == Init /\ [][Next]_vars
-------------------------------------------------------------------------------
(* The type of every variable.                                             *)
TypeOK ==
  /\ platform \in Platforms
  /\ image \in [width : Sides, height : Sides]
  /\ bitmap \in [width : Nat, height : Nat, format : Formats, rowBytes : Nat]
  /\ DOMAIN pixels \subseteq Nat
  /\ \A a \in DOMAIN pixels :
       pixels[a] \in [frame : Frames, x : Nat, y : Nat, premul : BOOLEAN]
  /\ {length, locks, buffers, lost} \subseteq Nat
  /\ call \in [Threads -> [pc : {"idle", "start", "convert", "install"}, frame : Frames,
                        row : 0 .. MaxSide]]
  /\ outcome \in [status : {"none", "ok", "failed"}, frame : Frames, alone : BOOLEAN]
  /\ shared \in BOOLEAN
  /\ faults \subseteq {"overrun", "race"}

(* Pixel <<x, y>> of the bitmap is that of frame f.                        *)
ShowsAt(f, x, y) ==
  LET a == y * bitmap.rowBytes + x * PixelSize[bitmap.format]
  IN  /\ a \in DOMAIN pixels
      /\ pixels[a].frame = f /\ pixels[a].x = x /\ pixels[a].y = y

(* The pixels that both the image and the bitmap have.                     *)
CommonColumns == (0 .. image.width - 1) \cap (0 .. bitmap.width - 1)
CommonRows == AllRows \cap (0 .. bitmap.height - 1)

Shows(f) == \A x \in CommonColumns, y \in CommonRows : ShowsAt(f, x, y)

(* The rows are written where the bitmap has them.                         *)
RowsMatch ==
  \/ platform = "android"
  \/ bitmap.rowBytes = image.width * PixelSize[bitmap.format]
  \/ CommonRows = {0}

(***************************************************************************)
(* A decode that ran alone and succeeded leaves every pixel of its frame   *)
(* that the bitmap has room for where the bitmap has it, for any format    *)
(* and any two sizes; unless the code, which asks only Android for the     *)
(* bytes per row, assumed other rows than the bitmap has.  Then it reports *)
(* success for a skewed picture.                                           *)
(***************************************************************************)
DecodedExact ==
  outcome.status = "ok" /\ outcome.alone => (Shows(outcome.frame) <=> RowsMatch)

Covers == bitmap.width >= image.width /\ bitmap.height >= image.height

(***************************************************************************)
(* A decode into a bitmap as large as the image at least, without another  *)
(* at the same time, is defined.  Android and the JVM write beyond the end *)
(* of the bitmap only if it is smaller than the image, and two calls race  *)
(* for the SkBitmap only on Kotlin/Native.                                 *)
(***************************************************************************)
FaultsExplained ==
  /\ "overrun" \in faults => platform # "native" /\ ~Covers
  /\ "race" \in faults => platform = "native" /\ shared

(***************************************************************************)
(* The pixels written are inside the memory of the bitmap, and the memory  *)
(* has all the bitmap's pixels, also after installPixels replaced it;      *)
(* unless the bitmap has more or longer rows than the image of which       *)
(* Kotlin/Native made its memory.                                          *)
(***************************************************************************)
MemoryHolds ==
  /\ \A a \in DOMAIN pixels : a + rgbPixelSize <= length
  /\ \/ BitmapSize <= length
     \/ /\ platform = "native"
        /\ \/ bitmap.height > image.height
           \/ bitmap.rowBytes > image.width * PixelSize[bitmap.format]

(***************************************************************************)
(* On Android the bitmap is locked once by each call that writes to it,    *)
(* and by no other: every way out of the function unlocks it.              *)
(***************************************************************************)
LocksBalanced ==
  platform = "android" =>
    locks = Cardinality({t \in Threads : call[t].pc = "convert"})

(* On Kotlin/Native each call frees the buffer it allocated, once, except  *)
(* if the copy of it could not be made or installed.                       *)
BuffersAccounted ==
  LET InNative == {t \in Threads : platform = "native" /\ call[t].pc \in {"convert", "install"}}
  IN  buffers = lost + Cardinality(InNative)

(* The bitmaps of createPlatformBitmap are RGBA_8888 and premultiplied: so *)
(* are the pixels that a frame with alpha leaves in them.                  *)
AlphaAsDeclared ==
  bitmap.format = "RGBA_8888" => \A a \in DOMAIN pixels : pixels[a].premul

===============================================================================
