# avif-kmp: a verification project

avif-kmp binds the AVIF decoder libavif to Kotlin Multiplatform: a JNI binding
for the desktop JVM and Android, a cinterop binding for iOS and macOS, and a
Compose demo that shows a still image and plays an animation. The code of the
repository is small; what is hard about it is the lifetime of native memory
that Kotlin objects point to, the order of calls, and who may call what when.

## Inventory

| Component | State | Operations | Interacts with | Hard behaviour | What makes it correct |
|---|---|---|---|---|---|
| JNI handles (`jniMain`: `AvifDecoder.kt`, `AvifFrame.kt`, `avifDecoderJni.cpp`, `avifImageJni.cpp`) | the field `context` (a native address), buffers of `GetByteArrayElements` | `create`, `reset`, `nthFrame`, `nextFrame`, `getFrame`, getters, `close`, `finalize`; frame getters, `decodeFrame` | libavif (calls), callers (any thread), garbage collector | a method reads `context` and uses it later, without a lock; `close()` is three steps; frames and input outlive or are outlived by the decoder | a non-zero address is live; nothing is destroyed twice, stranded or used afterwards; leaks are reported |
| Demo players (`shared/.../App.kt`) | decoder, frame, bitmap, painter, caption | the producer of the still image, the loop of the animation | JNI or native handles, Compose state, coroutine cancellation | exceptions and cancellation inside `use`, decode failures in the loop condition, the bitmap shared with the screen | closed on every way out; frames in order; the screen agrees; stops when cancelled |
| Common API (`commonMain`) | none | `use`, `getBitmapResult`, `createPlatformBitmap`, `hasNext` | all of the above | exceptions of the block and of `close()` | the first exception wins, none is lost |
| Kotlin/Native handles (`nativeMain`) | `decoderPtr`, input pinned in `create` only | as JNI | libavif, Skia bitmap | `close()` unguarded, input pointer outlives the pin, pixel buffer on failures | as JNI |
| Frame decoding (`avifImageAndroid.cpp`, `avifImageJvm.cpp`, native `AvifFrame.kt`) | bitmap pixels, a lock, a temporary buffer | `decodeFrame` | libavif, Android bitmap, Skia | unlock and free on every path; bitmaps of another size; strides; integer width; overlapping calls | the bitmap is unlocked, the buffer freed, pixels lie where the bitmap has them, no write outside a bitmap that covers the image |
| JVM loader (`AvifNativeLoader.kt`) | temporary file, exit hook | `loadNativeLibrary` | JAR, file system, class initialisation of the JVM | a copy that fails half-way, exit or kill beside it, threads that wait | only a complete library is loaded, every thread is answered, no file is left |
| Native build (gradle, `darwin/scripts`, `build-jvm-klib.sh`, CI) | output directories | build, copy, link | cmake, meson | failed steps, partial copies, architecture names | the library linked is the one just built, of the right architecture |
| Android loader, Compose adapters, helpers | none | one call each | - | none | not modelled |
| libavif and its codecs, Skia headers | external | - | - | - | contract only |

The hazards, each at its line, are in `PROJECT.json`.

## What there is

| Module | Models |
|---|---|
| `Libavif` | the contract of the libavif functions the bindings call (external): heap of native decoders, `image` replaced by `avifDecoderReset`, what a failure may leave behind |
| `JniDecoder` | the Kotlin handles and JNI functions, callers as threads, the garbage collector |
| `Playback` | the two players of `App.kt`, statement by statement, composed with `JniDecoder` |
| `Slideshow` | abstract: what the players promise, without decoders and calls; `Playback` implements it |
| `CinteropDecoder` | the Kotlin/Native handles over the same `Libavif` |
| `FrameDecode` | `decodeFrame` on Android, the desktop JVM and Kotlin/Native: pixels, strides, lock, buffer |
| `UseBlock` | `use` of `Closeable.kt`: the outcome of a block and of `close()` |
| `JvmLoader` | `loadNativeLibrary` of the desktop JVM inside the static initialiser of `AvifDecoder`, with `UseBlock` |
| `NativeBuild` | gradle tasks, build scripts, `build-jvm-klib.sh`, the CI job |
| `LibavifProofs` | lemmas on what the functions of libavif do to the heap, for the two modules that call them |
| `JniDecoderProofs` | the theorems about `JniDecoder` |
| `PlaybackProofs` | the theorems about `Playback` and its two refinements |
| `CinteropDecoderProofs` | the theorems about `CinteropDecoder` |
| `FrameDecodeProofs` | the theorems about `FrameDecode` |
| `JvmLoaderProofs` | the theorems about `JvmLoader` |
| `NativeBuildProofs` | the theorems about `NativeBuild` |
| `MCJniDecoder`, `MCPlayback`, `MCCinteropDecoder`, `MCFrameDecode`, `MCNativeBuild` | instances for TLC |

How they compose: `Libavif` is extended by the two handle modules; `Playback` extends
`JniDecoder` and drives it, and is shown to implement both `JniDecoder` with
promising callers (`Caller`) and `Slideshow` (`Show`); `JvmLoader` instantiates
`UseBlock`. `FrameDecode` is the inside of the one step that the handle modules call
`decodeFrame`; `JvmLoader` comes before any call of `JniDecoder`, `NativeBuild` before
the program.

### JniDecoder

A method is two steps of its thread: `Invoke` reads `context`, then the action
with the name of the native function runs. `close()` is `close` (read the
field), `clearContext`, `destroyContext`, or `closeNothing`. `create` is
`createContext`, which allocates, and then `createOk` or `createFails`. A frame
object is the pair of its decoder and the identity of the `avifImage` it
wraps. `collect`, `finalize`, `dropDecoder` and `dropBytes` are the memory side:
what callers still reference and what the collector reclaims.

A native function given a pointer it may not use has undefined behaviour. Its
outcome is not guessed: `Undefined` records the kind in `faults` and the model
stops. The constant `Promises` says what the callers observe: nothing (`{}`), or
some of: one call at a time on a decoder (`confined`), no method after close
(`openOnly`), no frame after close (`frameOpen`) or after reset (`freshFrame`),
the array kept until close unless it was copied (`keepBytes`). So the same module answers what holds
of any caller, and what a caller must do.

`Platform` matters for `GetByteArrayElements`: a copy on the desktop JVM,
possibly the array itself on Android. Faulty variants of some actions stand
before the action they belong to; they are used by no specification and exist
to show that a property can fail.

### Playback

Each player is a thread of `JniDecoder`; its `pc` is the statement it is at, and
the outcome of every JNI step decides the next one. `Promises` is `{}` here: the
players are not told to behave, they are checked to. `wake` ends the delay:
`kotlinx.coroutines.delay` of 0 ms returns at once and does not notice that the
coroutine was cancelled, so the constant `Instant` names the frames of no
duration. `forgetBytes` lets the collector have the array as soon as `create()`
has returned, because `bytes` is not used any more in either producer.

### Slideshow

`shown`, `open` and `over` of each player. `Show` goes to the next frame or, in a loop, to the
first one; `End` closes. The mapping from `Playback`: `shown` is `bitmap`, `open` the players
that have a live native decoder (their own, or in `create`), `over` those at `done`.
So the refinement says at once that frames come in order, that a still image is decoded once,
and that a player ends in the step that closes its decoder.

### CinteropDecoder

The class of `nativeMain` keeps the address in a `val`, so `close()` cannot clear
it and there is no `finalize()`. A call is two steps: it begins, then the action
named after the method does the work; `close` is followed by `destroy`. `create`
and `isAvifImage` pin the array (`pinned`) until the end of `memScoped`. Here callers are not
restricted: `broken` remembers the promises they broke (those of `JniDecoder`, with
`closeOnce`, which the JNI class does not need), and `FaultsGuarded` relates each
kind of undefined behaviour to the promises that guard against it (`Guards`). One run
covers any caller and every contract. `createFromEmpty` is `create` of an array of no
bytes: `refTo(0)` throws after `avifDecoderCreate`, and the decoder is stranded.

### FrameDecode

The memory of a bitmap is a function from byte addresses to the pixels written
there (frame, place, premultiplied or not), so a wrong pixel size or stride puts
pixels at wrong addresses or beyond the end. Android and the JVM convert in place, one
row a step (`convertRow`), and the conversion may fail after any row; Kotlin/Native
converts into a buffer, copies it (`makeArray`) and installs the copy (`installPixels`), or cannot
(`copyFails`).

`decodeFrame` takes any bitmap: no platform compares its size with the image's, so `Bitmaps` has
smaller and larger ones, of every format, with rows a whole number of pixels apart. What then goes
wrong in C++ is recorded in `faults` and ends the run: an `overrun`, when `avifImageYUVToRGB`, which
is given an address and a stride but no end, would write beyond the last pixel of the bitmap; a
`race`, when a call on Kotlin/Native installs pixels while another reads the color type of the same
`SkBitmap` or installs its own (an `SkBitmap` is not thread safe, says Skia). `length` ends with the last
pixel, as Skia computes the size of an allocation; an implementation that rounds up the last row makes some
overruns harmless. External, and taken from the documentation of the
libraries: libavif does not check the stride, skiko's `installPixels(ByteArray)` keeps the size and the
row bytes of the bitmap and makes the array's bytes its memory. `FaultsExplained` then says what a
caller has to do so that the call is defined (a bitmap as large as the image at least, one decode into it at a time; those of
`createPlatformBitmap`, made for one frame by one player, are such), and `DecodedExact` and
`MemoryHolds` what becomes of a bitmap whose rows are others than the image's.

`ToInt` is the conversion of `rowBytes * height`: a `UInt`
has `UIntValues` values (2^32 in the program, any multiple of 16 in the model), and libavif's limit of 2^28 pixels
is the sixteenth part of them, so that the largest image in RGBA_F16 has a negative size as it has
in the program. The result of Skia's `installPixels` is ignored by the code; its failure is not
modelled.

### JvmLoader

`pc` is the statement of `loadNativeLibrary`; each may fail. `Files.copy` with
`REPLACE_EXISTING` is `replace` (the file is deleted and created anew), `copySome` and
`copyAll`. `.use` in that file is the project's own, hence `close` applies `UseBlock` to what
the block and the closing of the stream have thrown. `class` and `user` are the class
initialisation of the JVM: the first thread runs the initialiser, the others wait, a
failure is final for the run. `exit` runs the `deleteOnExit` hook while the other threads
run on until `halt`; `kill` runs nothing; `restart` begins a run, whose number names its
temporary file.

### NativeBuild

A target is an operating system and a name. `Script` gives the steps, `WorkDir` the
directory each builds in (`ext/dav1d/build` and others are shared, and survive an
interrupted build), `outputDir` where the libraries are copied, `libraryPath` where gradle and
CMake link them from. What a compilation leaves carries its target and the number of
the script run. There is no `set -e` in the scripts, so `compile` may fail and go on;
`copyFails` (`|| exit 255`) and `abort` end the script. `upToDate` is what gradle remembers: the
target of the last success of the task. `klib` is `build-jvm-klib.sh` in one step, as nothing
runs beside it; whatever fails, it exits with 0. Its `cp` may stop half-way and leave a library cut short
(`Truncated`), like that of the other scripts, which however end with `|| exit 255`. `upload` has `if-no-files-found: error`; the
`.gitignore` in that directory does not count since upload-artifact 4.4 leaves hidden
files out.

## Runs

| Run | Shows | Instance |
|---|---|---|
| `JniAnyCaller` | any caller: types, `HandleValid`, `NoOrphan`, `LeakReportExact` | 2 threads, 1 decoder, 1 array, 2 frames, 1 reset, desktop |
| `JniContract` | `NoFault` under the promises, `close()` repeated at will; `GetByteArrayElements` copies or not, so the desktop is included | 2 threads, 2 decoders, Android |
| `CinteropCallers` | any caller: types, `LifetimeExact`, `ParsesPinnedInput`, `FaultsGuarded` | 2 threads, 2 decoders, 1 array, 2 frames, 1 reset |
| `DecodeFrame` | `DecodedExact`, `FaultsExplained`, `MemoryHolds`, `LocksBalanced`, `BuffersAccounted` | 3 platforms, 2 threads, 2 frames, images and bitmaps of any size up to 2x2, 4 formats, rows padded by a pixel or not |
| `Players` | `NoDecoderLeft`, `ScreenConsistent`, `OnlyInputFaults`; the refinements `ShowsInOrder` (of `Slideshow`) and `CorrectCaller` (of `JniDecoder`) | one animation, one still image, 2 decoders, 2 arrays, 2 frames, damaged input, frame 0 of 0 ms, Android with and without copy |
| `PlaybackLive` | `CancelStops`, `PlaysForever`, `WrapsAtEnd` | one animation of 4 frames, sound input, frame 0 of 0 ms |
| `JvmLoader` | `ServedByWholeLibrary`, `FailuresTold`, `LitterExplained`, `CallersAnswered` | 2 threads, 2 runs of the program |
| `NativeBuild` | `LinkReady`, `CiUploadsOwn` | 2 desktop architectures, one Android ABI, the iOS simulator, 3 script runs, developer or CI |
| `JniResetFrames` (violation) | `reset()` invalidates frames, which `AvifFrame.kt:22` does not say | |
| `DecodeAlpha` (violation) | the JVM writes straight alpha into a premultiplied bitmap | |
| `PlaybackAndroid` (violation) | the animation reads reclaimed memory, see `App.kt:85` | |
| `IosLinks` (violation) | `iosX64` and `iosArm64` link from each other's directory | |

Bounds. Two threads give every race between two calls; a third adds no kind of
overlap, since every fault and every property concerns one decoder and the two
calls on it. Two frames give "first", "next", "last" and the end; four in
`PlaybackLive` make an index between first and last. One reset is enough for a
frame to be stale. `MaxResets` bounds `avifDecoderReset`; no other counter
exists in the handle models. `Players` has no reset, the players call none. The
behaviours of the desktop JVM are those of Android in which the array was copied, so
`OnlyInputFaults` says that the players meet no undefined behaviour there. In `FrameDecode`
two rows and two columns distinguish a stride from a width, and give bitmaps with fewer or more of either than the image; `UIntValues` of 64 makes the largest image in RGBA_F16 overflow an `Int`; `MaxLost` bounds the
buffers lost. Decoders are not reallocated: a run is over the life of each of them. In
`JvmLoader`, `MaxStarts` bounds the runs of the program; runs share nothing but the temporary
directory, so a second one shows what the first has left. In `NativeBuild`, `MaxBuilds` bounds
the script runs: two can leave libraries of different builds, a third repairs or repeats;
`HostTargets` has two targets behind one task, and scripts that share build directories
at both depths. `Damaged = TRUE` allows any parse or decode to fail, and memory for the bitmap to run out. `CHECK_DEADLOCK FALSE`: a
caller may stop calling, a player ends, undefined behaviour ends a run, a CI job ends.
Symmetry (threads, decoders, arrays) is used in runs without liveness only.

Fairness. Weak fairness of each player: a coroutine that can go on is
dispatched (`Dispatchers.Default` or the main thread), a delay ends, native
functions return. There is none for cancellation or the collector. `CancelStops`
assumes that not every frame is of 0 ms (`getFrameDurationMs` truncates, so a frame of
less than 1 ms is one of them); were all of them, the loop of `App.kt`
would never suspend and cancellation would never be seen. In `JvmLoader` the
initialising thread and the threads it wakes are weakly fair; `exit`, `kill`, `restart` and
`call` are not, a program need not do any of these.

The liveness of `PlaybackLive` needs sound input and memory for one bitmap: on damaged input the loop
condition goes back to frame 0 whenever `nextFrame()` fails, silently, and a later
frame may never be shown.

## Findings

1. `reset()` destroys the `avifImage` that frames point to; the documentation asks
   only that the decoder is not closed. (`JniResetFrames`)
2. The desktop (and Kotlin/Native) code does not set `alphaPremultiplied`, while the
   bitmaps of `skiaMain` are declared `PREMUL`. (`DecodeAlpha`)
3. On Android the decoder may read an array nobody keeps alive, which fits the
   decode failure recorded in `App.kt:85`. (`PlaybackAndroid`; `JniContract` shows
   that keeping the array, or a copy, is enough.)
4. `avif/build.gradle.kts:54-55` links `iosX64` from `ios/aarch64` and `iosArm64` from
   `ios/x86_64`, `avif/darwin/build.gradle.kts:123-124` builds them the other way round.
   (`IosLinks`; the simulator target is right, as `NativeBuild` shows.)

Things the models show about which the repository says nothing:

- the buffer of `GetByteArrayElements` is never released, so a closed decoder and every
  `isAvifImage` leave a copy of the input (`elements`);
- the buffer of a Kotlin/Native `decodeFrame` is lost when its `ByteArray` cannot be made
  (`copyFails`), the native decoder when `create` is given no bytes (`createFromEmpty`);
- a bitmap smaller than the image is written beyond its end on Android and the desktop
  (`FaultsExplained`); on Kotlin/Native one with more or longer rows than the image gets
  less memory than it has pixels (`MemoryHolds`);
- a bitmap with rows of another length than the image's shows a skewed picture on the desktop and on
  Kotlin/Native, and the call reports success (`DecodedExact`);
- two decodes into one bitmap mix their rows on Android and the desktop
  (`DecodedExact` speaks of a decode that ran alone), and race for the `SkBitmap` on Kotlin/Native;
- a program that exits while the library is being extracted may leave a temporary file
  although it is registered for deletion (`LitterExplained` excludes that exit);
- `build-jvm-klib.sh` reports success whatever fails; in CI the upload is what
  notices that there is no library, but not that `cp` has cut it short (`CiUploadsOwn`); on a
  developer's machine nothing notices;
- gradle does not see an update of the libavif submodule.

## Proofs

`JniDecoderProofs` is checked by TLAPS for every set of threads, decoders and
arrays, every number of frames and of resets, both platforms. It assumes only
the named assumptions on the constants (`LibavifAssumption`, `JniAssumption`).

- `TypesCorrect`, `HandlesValid`, `NothingOrphaned`, `LeaksReported`: no promise
  needed. None of the four properties is inductive. `HandleInv` adds what a
  call in progress implies: a thread in `create` is alone in knowing an
  unconstructed live decoder (`OneCreator`, `CallsWellFormed`), a thread about to
  destroy works on an object whose field is cleared, an object finalized is not
  held and therefore not in a call (`FinalizedUnheld`). Most steps are a
  bystander's (`BystanderStep`): they touch no handle and enter or leave neither
  `create` nor `destroyContext`. The others are proved one by one.
- `SafeCallersMeetNoFault`: under `SafeCallers` (the four promises, and `keepBytes`
  or the desktop), `NoFault`. `CallInv` adds that a call in progress is the only
  one on its decoder (`OneCall`), that what was checked before it started is still
  so (`CallsSafe`), and that the input of a live decoder is a copy or held
  (`InputHeld`).

`JvmLoaderProofs` holds for every set of threads and every number of runs of the
program. It assumes `LoaderAssumption` only.

- `LoaderTypes`, `WholeLibraryServes`, `NoFailureLost`, `NoLitter`: the type invariant and
  the three safety properties of the run `JvmLoader`. The properties are not inductive: that
  a served thread has a whole library depends on what `close` lets pass, and that depends on
  `block`. `LoaderInv` says what each statement implies for the file, its registration and
  `failures` (`Extracting`: past a copy that did not throw, the file is complete or was
  deleted by the exit hook, never partial), how the initialiser has ended (`Initialized`: no,
  one or two failures, and the exception for each), that a class not yet used has no file
  (`Untouched`), and that a run to come has neither ended nor left anything (`Endings`).
  `UseOutcomes` is the lemma on `use()`; there is one step per action, with the statements
  that do not end the initialiser together.

`LibavifProofs` is what the two handle modules need of the heap: `avifDecoderReset` and the
two ways to go to an image change one decoder and leave it alive, `Create` makes a decoder that was none live,
`Destroy` frees.

`CinteropDecoderProofs` holds for every set of threads, decoders and arrays, every number of
frames and of resets, and callers that may break any promise. It assumes `LibavifAssumption`
and `CinteropAssumption`.

- `CinteropTypes`, `LifetimesExact`, `InputPinnedWhileParsed`. That a decoder is live exactly from
  `create()` to `close()` depends on the decoder that a `create` in progress has made: it
  has no object yet, is no other thread's (`OneCreator`), and reads the array that is pinned
  (`CallsWellFormed`); and on the collector, which leaves pinned and held arrays alone
  (`PinnedKept`). These make `LifeInv`.
- `EveryFaultGuarded`. `FaultsGuarded` speaks of the moment the fault happens, the promise is
  broken earlier, when the call starts or while it runs. `GuardInv` says of a call in
  progress that what would make it undefined has already broken a promise (`CallsGuarded`),
  because two calls on one decoder have (`OverlapsTold`), and that an array which a live decoder
  reads is held, or a promise is broken (`InputGuarded`).

`PlaybackProofs` holds for every set of players, decoders and arrays, every number of frames, both
platforms, sound and damaged input, and cancellation at any moment. It assumes
`LibavifAssumption`, `JniAssumption` and `PlaybackAssumption`; a theorem that needs more states it.

- `PlayersMeetOnlyInputFaults`, `PlayersCloseTheirDecoders`, `ScreenShowsOneFrame`. The players are
  not told to behave, so the invariant has to say where in their program they are right.
  `PlayInv` ties the call of a player to its statement (`CallOfStatement`), says where its decoder
  is open (`DecoderOpen`), that nobody else has it (`DecodersOwned`) and that no image is ever
  replaced (`NeverReset`). It contains `HandleInv`: a step of a player is a step of `JniDecoder`
  (`PlaybackIsJniDecoder`), so its invariant comes with it. `ShowInv` adds how the index of the decoder,
  the bitmap and the text are related at each statement (`FrameFollows`).
- `DesktopPlayersMeetNoFault`, for `Platform = "jvm"`: there every live decoder has a copy of its input.
  On Android `NoFault` is false, as `PlaybackAndroid` shows.
- `PlayersAreCorrectCallers` and `PlayersImplementSlideshow` are the two refinements: initial states map to initial
  states, and every step to one step of the abstract module or to none. The first
  shows the promises from `Alone` (no other thread has a call on the decoder); in the second
  `PlayerShows` gives for each action what it is to the slideshow, and the collector is unseen.
- `AnimationWrapsAtEnd`, an action property, for sound input (`~Damaged`): at the statements that may
  go back to frame 0 the bitmap is empty or the last frame (`Wraps`). On damaged input it is false by design
  of the loop (see Fairness).

`FrameDecodeProofs` holds for every set of threads and frames, every size of image up to libavif's
limit, every padding, format and platform, and every width of `UInt`. It assumes `FrameDecodeAssumption` only.

- `FramesDecodedExactly`, `FrameFaultsHaveCauses`, `MemoryHoldsBitmap` rest on the arithmetic of addresses:
  no two pixels share one (`AddressUnique`), those of a row are inside any bitmap that covers the image (`AddressInside`),
  and the size handed to the `ByteArray` is negative or exactly what the image's pixels need (`ArraySizeExact`).
  `FrameInv` adds that the memory has the size of the bitmap or of the image (`SizeInv`), that the rows a conversion has behind it are
  in it (`RowsWritten`), that a call which was alone when it started still is (`StillAlone`), and that calls in
  progress at the same time have been noticed (`SharedInv`); without these, nothing is known when the last row
  returns or a fault happens.
- `EveryLockUndone`, `EveryBufferAccounted` count: `Count` says how a step changes the number of threads at a statement.

`NativeBuildProofs` holds for every set of targets, any number of script runs, and whatever fails or is
interrupted. It assumes `BuildAssumption` only.

- `UpToDateMeansCopied`: when gradle takes a task to be up to date, the directory its script copies to has both libraries
  of that target and of one build. `BuildInv` follows a library from the directory it is compiled in (`WorkInv`: what is
  there was made for a target that builds there; `FreshInv`: after its compilation, by this run or not at all)
  through its copy (`CopiedInv`), with the lemma that no directory in use lies inside one of another library
  (`DirsApart`).
- `UpToDateMeansLinkable` is `LinkReady`, for targets that link from where their script copies to. Its
  hypothesis excludes `iosX64` and `iosArm64` and, by `SwappedTargets`, nothing else: these two are finding 4.
- `CiUploadsItsOwn`: the CI job builds once and for one target (`CiInv`).

Every safety and action property of the passing runs is a theorem, `ShowsInOrder` and `CorrectCaller` included.
Only model-checked: liveness (`CancelStops`, `PlaysForever`, `CallersAnswered`), which needs fairness
and so ENABLED, out of the prover's reach; and the violations, which are about one instance.

## Not modelled

`versionString()` and `hasNext()` (they change nothing); in `jniMain`, memory that runs out
(a null `avifDecoderCreate()` or `GetByteArrayElements()`); an
address that malloc returns again for another decoder; stale reads of the
plain field `context` by another thread (the model's reads are of the latest
value, so a race there is at least as bad as shown); the drawing of the bitmap
by the UI thread while `decodeFrame` writes it; a `use` that is left by `return` or whose
block returns null (no caller does either); compiler options, the cloning of dependencies
and publishing in the build; the Android loader, the Compose adapters and the shells of the
demo applications, which keep no state.

Nearly all lines of the repository (the headers of Skia under `avif/src/jvmMain/skia`, the
gradle wrapper) are vendored. What the project itself implements is some 2,000 lines of Kotlin,
C++, gradle and shell; the modules cover the part of it that keeps state.

## Plan

1. The broken promises as a variable in `JniDecoder` too, as in `CinteropDecoder`: it would merge its two
   runs, and `SafeCallersMeetNoFault` would become a statement about each kind of fault.
2. The safety half of liveness in `Playback`: that a cancelled player leaves the next delay that
   suspends only for `close` (an action property), which with fairness gives `CancelStops`.
3. In `JvmLoader`, that a waiting thread always has an initialising one to wake it, the safety half of
   `CallersAnswered`.
