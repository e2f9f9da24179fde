--------------------------- MODULE NativeBuildProofs ---------------------------
(***************************************************************************)
(* What TLAPS proves of NativeBuild, for every set of targets and every    *)
(* number of builds.                                                       *)
(***************************************************************************)
EXTENDS NativeBuild, SequenceTheorems, TLAPS
-------------------------------------------------------------------------------
Libs == Dependencies \cup {"avif"}

(* The number of steps that only the scripts for darwin and Android have.  *)
Extra(t) == IF t.os = "ios" THEN 0 ELSE 2

(* A target is one of an operating system.                                 *)
LEMMA TargetType ==
  ASSUME NEW t \in Targets
  PROVE  /\ \/ t.os = "darwin" /\ t.name \in {"aarch64", "x86_64"}
            \/ t.os = "android" /\ t.name \in {"x86", "x86_64", "armeabi-v7a", "arm64-v8a"}
            \/ t.os = "ios" /\ t.name \in {"X64", "Arm64", "SimulatorArm64"}
         /\ t = [os |-> t.os, name |-> t.name]
  BY BuildAssumption DEF Darwin, Android, Ios

Words ==
  {"_build", "ext", "build", "darwin", "android", "ios",
   "aarch64", "x86_64", "x86", "armeabi-v7a", "arm64-v8a", "X64", "Arm64", "SimulatorArm64",
   "libyuv", "libwebp", "dav1d", "avif", "copyDav1d", "copyAvif", "clean"}

(* The steps of a script by their numbers.                                 *)
LEMMA ScriptSteps ==
  ASSUME NEW t \in Targets
  PROVE  /\ Extra(t) \in {0, 2} /\ DOMAIN Script(t) = 1 .. Extra(t) + 5
         /\ Extra(t) = 2 => Script(t)[1] = "libyuv" /\ Script(t)[2] = "libwebp"
         /\ Script(t)[Extra(t) + 1] = "dav1d"
         /\ Script(t)[Extra(t) + 2] = "avif"
         /\ Script(t)[Extra(t) + 3] = "copyDav1d"
         /\ Script(t)[Extra(t) + 4] = "copyAvif"
         /\ Script(t)[Extra(t) + 5] = "clean"
<1> DEFINE tail == <<"avif", "copyDav1d", "copyAvif", "clean">>
           head == IF t.os = "ios" THEN <<"dav1d">> ELSE <<"libyuv", "libwebp", "dav1d">>
           n == Extra(t)
<1>1. Script(t) = head \o tail
  BY DEF Script
<1>2. tail \in Seq(Words) /\ Len(tail) = 4
  BY DEF Words
<1>3. /\ n \in {0, 2} /\ head \in Seq(Words) /\ Len(head) = n + 1
      /\ n = 2 => head[1] = "libyuv" /\ head[2] = "libwebp"
      /\ head[n + 1] = "dav1d"
  <2>1. CASE t.os = "ios"
    <3>1. n = 0 /\ head = <<"dav1d">>
      BY <2>1 DEF Extra
    <3>2. <<"dav1d">> \in Seq(Words) /\ Len(<<"dav1d">>) = 1
      BY DEF Words
    <3> QED
      BY <3>1, <3>2
  <2>2. CASE t.os # "ios"
    <3>1. n = 2 /\ head = <<"libyuv", "libwebp", "dav1d">>
      BY <2>2 DEF Extra
    <3>2. /\ <<"libyuv", "libwebp", "dav1d">> \in Seq(Words)
          /\ Len(<<"libyuv", "libwebp", "dav1d">>) = 3
      BY DEF Words
    <3> QED
      BY <3>1, <3>2
  <2> QED
    BY <2>1, <2>2
<1>4. tail[1] = "avif" /\ tail[2] = "copyDav1d" /\ tail[3] = "copyAvif" /\ tail[4] = "clean"
  OBVIOUS
<1> HIDE DEF head, tail, n
<1>5. /\ Len(head \o tail) = n + 5 /\ DOMAIN (head \o tail) = 1 .. n + 5
      /\ \A i \in 1 .. n + 1 : (head \o tail)[i] = head[i]
      /\ \A i \in 1 .. 4 : (head \o tail)[n + 1 + i] = tail[i]
  <2>1. /\ head \o tail \in Seq(Words) /\ Len(head \o tail) = n + 5
        /\ \A i \in 1 .. n + 5 :
             (head \o tail)[i] = IF i <= n + 1 THEN head[i] ELSE tail[i - (n + 1)]
    <3>1. /\ head \o tail \in Seq(Words) /\ Len(head \o tail) = Len(head) + Len(tail)
          /\ \A i \in 1 .. Len(head) + Len(tail) :
               (head \o tail)[i] = IF i <= Len(head) THEN head[i] ELSE tail[i - Len(head)]
      BY <1>2, <1>3, ConcatProperties
    <3>2. Len(head) + Len(tail) = n + 5
      BY <1>2, <1>3
    <3> QED
      BY <1>3, <3>1, <3>2
  <2> QED
    BY <1>3, <2>1
<1>6. /\ (head \o tail)[n + 1] = "dav1d" /\ (head \o tail)[n + 2] = "avif"
      /\ (head \o tail)[n + 3] = "copyDav1d" /\ (head \o tail)[n + 4] = "copyAvif"
      /\ (head \o tail)[n + 5] = "clean"
      /\ n = 2 => (head \o tail)[1] = "libyuv" /\ (head \o tail)[2] = "libwebp"
  BY <1>3, <1>4, <1>5
<1> QED
  BY <1>1, <1>3, <1>5, <1>6 DEF n

(* The elements of a prefix.                                               *)
LEMMA PrefixElements ==
  ASSUME NEW s \in Seq(Words), NEW r \in Seq(Words), IsPrefix(s, r)
  PROVE  \A i \in 1 .. Len(s) : i \in 1 .. Len(r) /\ s[i] = r[i]
  BY DEF IsPrefix

(* A directory is below itself.                                            *)
LEMMA PrefixOfItself ==
  ASSUME NEW s \in Seq(Words)
  PROVE  IsPrefix(s, s)
  BY DEF IsPrefix

(* The two names that tell build directories apart.                        *)
LEMMA DirNames ==
  ASSUME NEW t \in Targets, NEW lib \in Libs
  PROVE  /\ WorkDir(t, lib) \in Seq(Words) /\ Len(WorkDir(t, lib)) >= 2
         /\ lib = "avif" => WorkDir(t, lib)[1] = "_build"
         /\ lib # "avif" => WorkDir(t, lib)[1] = "ext" /\ WorkDir(t, lib)[2] = lib
<1>1. t.os \in Words /\ t.name \in Words /\ lib \in Words
  BY TargetType DEF Words, Libs, Dependencies
<1>2. {"_build", "ext", "build", "darwin"} \subseteq Words
  BY DEF Words
<1>3. Task(t) \in Seq(Words) /\ Len(Task(t)) >= 1
  <2>1. CASE t.os = "darwin"
    <3>1. Task(t) = <<"darwin">>
      BY <2>1 DEF Task
    <3> QED
      BY <1>2, <3>1
  <2>2. CASE t.os # "darwin"
    <3>1. Task(t) = <<t.os, t.name>>
      BY <2>2 DEF Task
    <3> QED
      BY <1>1, <3>1
  <2> QED
    BY <2>1, <2>2
<1>4. CASE lib = "avif"
  <2>1. WorkDir(t, lib) = <<"_build">> \o Task(t)
    BY <1>4 DEF WorkDir
  <2>2. <<"_build">> \in Seq(Words) /\ Len(<<"_build">>) = 1
    BY <1>2
  <2> DEFINE head == <<"_build">>
  <2>3. head[1] = "_build"
    OBVIOUS
  <2> HIDE DEF head
  <2>4. /\ head \o Task(t) \in Seq(Words) /\ Len(head \o Task(t)) >= 2
        /\ (head \o Task(t))[1] = "_build"
    <3>1. head \in Seq(Words) /\ Len(head) = 1
      BY <2>2 DEF head
    <3>2. /\ head \o Task(t) \in Seq(Words) /\ Len(head \o Task(t)) = 1 + Len(Task(t))
          /\ \A i \in 1 .. 1 + Len(Task(t)) :
               (head \o Task(t))[i] = IF i <= 1 THEN head[i] ELSE Task(t)[i - 1]
      BY <1>3, <3>1, ConcatProperties
    <3>3. Len(Task(t)) \in Nat
      BY <1>3
    <3> QED
      BY <1>3, <2>3, <3>2, <3>3
  <2> QED
    BY <1>4, <2>1, <2>4 DEF head
<1>5. CASE lib # "avif"
  <2> DEFINE d == <<"ext", lib, "build">>
             e == IF t.os = "android" THEN <<t.name>> ELSE <<>>
  <2>1. WorkDir(t, lib) = d \/ WorkDir(t, lib) = d \o e
    BY <1>5 DEF WorkDir
  <2>2. d \in Seq(Words) /\ Len(d) = 3 /\ Len(d) >= 2 /\ d[1] = "ext" /\ d[2] = lib
    BY <1>1, <1>2
  <2>3. e \in Seq(Words)
    BY <1>1
  <2> HIDE DEF d, e
  <2>4. /\ d \o e \in Seq(Words) /\ Len(d \o e) = 3 + Len(e) /\ Len(e) \in Nat
        /\ \A i \in 1 .. 3 + Len(e) : (d \o e)[i] = IF i <= 3 THEN d[i] ELSE e[i - 3]
    <3>1. /\ d \o e \in Seq(Words) /\ Len(d \o e) = Len(d) + Len(e)
          /\ \A i \in 1 .. Len(d) + Len(e) :
               (d \o e)[i] = IF i <= Len(d) THEN d[i] ELSE e[i - Len(d)]
      BY <2>2, <2>3, ConcatProperties
    <3> QED
      BY <2>2, <2>3, <3>1
  <2>5. Len(d \o e) >= 2 /\ (d \o e)[1] = "ext" /\ (d \o e)[2] = lib
    BY <2>2, <2>4
  <2>6. CASE WorkDir(t, lib) = d
    BY <1>5, <2>2, <2>6
  <2>7. CASE WorkDir(t, lib) = d \o e
    BY <1>5, <2>4, <2>5, <2>7
  <2> QED
    BY <2>1, <2>6, <2>7
<1> QED
  BY <1>4, <1>5

(* The script of a target builds no library below another.                 *)
LEMMA DirsApart ==
  ASSUME NEW t \in Targets, NEW lib \in Libs, NEW other \in Libs,
         IsPrefix(WorkDir(t, lib), WorkDir(t, other))
  PROVE  lib = other
<1>1. /\ WorkDir(t, lib)[1] = WorkDir(t, other)[1]
      /\ WorkDir(t, lib)[2] = WorkDir(t, other)[2]
  BY DirNames, PrefixElements
<1> QED
  BY <1>1, DirNames

(* Targets that have their libraries copied to one place have one task.    *)
LEMMA OneTask ==
  ASSUME NEW t \in Targets, NEW u \in Targets, outputDir(t) = outputDir(u)
  PROVE  Task(t) = Task(u)
  BY TargetType DEF outputDir, Task, iosArch
-------------------------------------------------------------------------------
(* The parts of TypeOK.                                                    *)
ControlOK ==
  /\ builds \in 0 .. MaxBuilds
  /\ running \in Targets \cup {Nobody}
  /\ IF running = Nobody THEN step = 0 ELSE step \in DOMAIN Script(running)
  /\ upToDate \in [Tasks -> Targets \cup {Nobody}]
  /\ stage \in Stages

WorkOK ==
  /\ \A l \in work : l.target \in Targets /\ l.build \in 1 .. MaxBuilds
  /\ \A k, l \in work : IsPrefix(k.dir, l.dir) => k = l \/ k.build < l.build

OutOK ==
  /\ \A l \in out : [target |-> l.target, build |-> l.build] \in Libraries
  /\ \A k, l \in out : k.dir = l.dir /\ k.name = l.name => k = l

ResourcesOK == resources \cup artifact \subseteq [dir : Targets, library : Libraries]

(* The resources have no library but one of the CI job, whole or cut short.*)
OwnOnly(b) ==
  \E l \in {[target |-> CiTarget, build |-> b], Truncated} :
    resources \subseteq {[dir |-> CiTarget, library |-> l]}

(* TypeOK is the four of them.                                             *)
LEMMA TypeParts == TypeOK <=> ControlOK /\ WorkOK /\ OutOK /\ ResourcesOK
  BY DEF TypeOK, ControlOK, WorkOK, OutOK, ResourcesOK

(* A build directory has what a script for its target has built there, and *)
(* what this run has built is for its target.                              *)
WorkInv ==
  \A l \in work :
    /\ \E lib \in Libs : l.dir = WorkDir(l.target, lib)
    /\ l.build <= builds
    /\ running # Nobody /\ l.build = builds => l.target = running

(* Past the compilation of a library its directory has that of this run,   *)
(* or none.                                                                *)
FreshInv ==
  running # Nobody =>
    \A lib \in Names, l \in work :
      /\ l.dir = WorkDir(running, lib)
      /\ step > Extra(running) + (IF lib = "dav1d" THEN 1 ELSE 2)
      => l.target = running /\ l.build = builds

(* The directory that t copies to has the library of t and build b.        *)
Holds(t, name, b) == \E l \in In(out, outputDir(t), name) : l.target = t /\ l.build = b

(* Past the copy of a library it is that of this run, and meanwhile gradle *)
(* does not take the task to be up to date.                                *)
CopiedInv ==
  running # Nobody =>
    /\ builds > 0
    /\ upToDate[Task(running)] = Nobody
    /\ \A name \in Names :
         step > Extra(running) + (IF name = "dav1d" THEN 3 ELSE 4) => Holds(running, name, builds)

OutInv == \A l \in out : l.build <= builds

(***************************************************************************)
(* LinkReady, for the directory that the libraries are copied to.          *)
(***************************************************************************)
OutputReady ==
  \A t \in Targets : upToDate[Task(t)] = t =>
    \E b \in 1 .. builds : \A n \in Names : Holds(t, n, b)

(* The CI job builds once, for its target.                                 *)
CiInv ==
  stage # "dev" =>
    /\ running \in {Nobody, CiTarget} /\ builds <= 1
    /\ stage # "libavif" => running = Nobody
    /\ stage = "libavif" /\ running = Nobody => builds = 0
    /\ stage = "libavif" => upToDate[Task(CiTarget)] = Nobody
    /\ stage \in {"libavif", "klib"} => resources = {}
    /\ stage = "upload" => OwnOnly(builds)

(***************************************************************************)
(* The inductive invariant.                                                *)
(***************************************************************************)
BuildInv ==
  /\ ControlOK /\ WorkOK /\ OutOK /\ ResourcesOK
  /\ WorkInv /\ FreshInv /\ CopiedInv /\ OutInv /\ OutputReady
  /\ CiInv /\ CiUploadsOwn
-------------------------------------------------------------------------------
(* The step of the script that runs, by its number.                        *)
LEMMA Position ==
  ASSUME ControlOK, NEW t \in Targets, NEW label, Doing(t, label)
  PROVE  /\ running = t /\ running # Nobody
         /\ step \in Nat /\ step >= 1 /\ step <= Extra(t) + 5 /\ Extra(t) \in {0, 2}
         /\ label \in {"libyuv", "libwebp"} => step <= Extra(t)
         /\ label = "dav1d" => step = Extra(t) + 1
         /\ label = "avif" => step = Extra(t) + 2
         /\ label = "copyDav1d" => step = Extra(t) + 3
         /\ label = "copyAvif" => step = Extra(t) + 4
         /\ label = "clean" => step = Extra(t) + 5
<1>1. running = t /\ running # Nobody /\ step \in DOMAIN Script(t) /\ Script(t)[step] = label
  BY BuildAssumption DEF ControlOK, Doing
<1>2. step \in 1 .. Extra(t) + 5 /\ Extra(t) \in {0, 2}
  BY <1>1, ScriptSteps
<1>3. \/ Extra(t) = 2 /\ step \in {1, 2}
      \/ step \in {Extra(t) + 1, Extra(t) + 2, Extra(t) + 3, Extra(t) + 4, Extra(t) + 5}
  BY <1>2
<1>4. \/ Extra(t) = 2 /\ step \in {1, 2} /\ label \in {"libyuv", "libwebp"}
      \/ step = Extra(t) + 1 /\ label = "dav1d"
      \/ step = Extra(t) + 2 /\ label = "avif"
      \/ step = Extra(t) + 3 /\ label = "copyDav1d"
      \/ step = Extra(t) + 4 /\ label = "copyAvif"
      \/ step = Extra(t) + 5 /\ label = "clean"
  BY <1>1, <1>3, ScriptSteps
<1> QED
  BY <1>1, <1>2, <1>4

(* A library that is copied is of a build, or truncated.                   *)
LEMMA OutTypes ==
  ASSUME OutOK, NEW l \in out
  PROVE  /\ l.build \in Nat
         /\ l.target # Nobody => l.target \in Targets /\ l.build \in 1 .. MaxBuilds
<1> DEFINE r == [target |-> l.target, build |-> l.build]
<1>1. r.target = l.target /\ r.build = l.build
  OBVIOUS
<1>2. r \in Library \/ r = Truncated
  BY DEF OutOK, Libraries
<1>3. Truncated.target = Nobody /\ Truncated.build = 0
  BY DEF Truncated
<1>4. r \in Library => r.target \in Targets /\ r.build \in 1 .. MaxBuilds
  BY DEF Library
<1> HIDE DEF r
<1>5. CASE r \in Library
  BY <1>1, <1>4, <1>5, BuildAssumption
<1>6. CASE r = Truncated
  BY <1>1, <1>3, <1>6
<1> QED
  BY <1>2, <1>5, <1>6

(* Before anything is built.                                               *)
LEMMA BuildInit ==
  ASSUME Init
  PROVE  BuildInv
<1> USE DEF Init
<1>1. ControlOK
  BY BuildAssumption DEF ControlOK, Stages
<1>2. WorkOK /\ OutOK /\ ResourcesOK
  BY DEF WorkOK, OutOK, ResourcesOK
<1>3. WorkInv /\ FreshInv /\ CopiedInv /\ OutInv
  BY DEF WorkInv, FreshInv, CopiedInv, OutInv
<1>4. OutputReady
  BY BuildAssumption DEF OutputReady, Tasks
<1>5. CiInv /\ CiUploadsOwn
  BY BuildAssumption DEF CiInv, OwnOnly, CiUploadsOwn, Tasks
<1> QED
  BY <1>1, <1>2, <1>3, <1>4, <1>5 DEF BuildInv

(* gradle starts a script, or finds the task up to date.                   *)
LEMMA GradleKeeps ==
  ASSUME BuildInv, NEW t \in Targets, gradle(t)
  PROVE  BuildInv'
<1> USE DEF BuildInv
<1>1. /\ running = Nobody /\ MayRun(t, "libavif") /\ t # Nobody /\ Task(t) \in Tasks
      /\ UNCHANGED <<work, out, resources, artifact>>
  BY BuildAssumption DEF gradle, Tasks
<1>2. WorkOK' /\ OutOK' /\ ResourcesOK'
  BY <1>1 DEF WorkOK, OutOK, ResourcesOK
<1>3. CASE upToDate[Task(t)] = t
  <2>1. /\ UNCHANGED <<builds, running, step, upToDate>>
        /\ stage' = IF stage = "libavif" THEN "klib" ELSE stage
    BY <1>3 DEF gradle
  <2>2. stage = "dev"
    BY <1>1, <1>3 DEF MayRun, CiInv
  <2>3. ControlOK' /\ WorkInv' /\ FreshInv' /\ CopiedInv' /\ OutInv'
    BY <1>1, <2>1, <2>2 DEF ControlOK, WorkInv, FreshInv, CopiedInv, OutInv
  <2>4. OutputReady'
    BY <1>1, <2>1 DEF OutputReady, Holds, In
  <2>5. CiInv' /\ CiUploadsOwn'
    BY <2>1, <2>2 DEF CiInv, OwnOnly, CiUploadsOwn
  <2> QED
    BY <1>2, <2>3, <2>4, <2>5
<1>4. CASE upToDate[Task(t)] # t
  <2>1. /\ builds < MaxBuilds /\ builds' = builds + 1 /\ running' = t /\ step' = 1
        /\ upToDate' = [upToDate EXCEPT ![Task(t)] = Nobody] /\ stage' = stage
    BY <1>4 DEF gradle
  <2>2. builds \in Nat /\ builds' \in Nat /\ builds' > builds /\ MaxBuilds \in Nat
    BY <2>1, BuildAssumption DEF ControlOK
  <2>3. ControlOK'
    <3>1. builds' \in 0 .. MaxBuilds
      BY <2>1, <2>2
    <3>2. step' \in DOMAIN Script(t)
      BY <2>1, ScriptSteps
    <3>3. upToDate' \in [Tasks -> Targets \cup {Nobody}]
      BY <2>1 DEF ControlOK
    <3> QED
      BY <1>1, <2>1, <3>1, <3>2, <3>3 DEF ControlOK
  <2>4. WorkInv'
    <3>1. \A l \in work : l.build \in Nat /\ l.build <= builds' /\ l.build # builds'
      BY <2>2, BuildAssumption DEF WorkOK, WorkInv
    <3> QED
      BY <1>1, <3>1 DEF WorkInv
  <2>5. FreshInv'
    BY <2>1, ScriptSteps DEF FreshInv
  <2>6. CopiedInv'
    <3>1. upToDate'[Task(t)] = Nobody
      BY <1>1, <2>1 DEF ControlOK
    <3>2. ~(1 > Extra(t) + 3) /\ ~(1 > Extra(t) + 4)
      BY ScriptSteps
    <3> QED
      BY <2>1, <2>2, <3>1, <3>2 DEF CopiedInv
  <2>7. OutInv'
    BY <1>1, <2>2, OutTypes DEF OutInv
  <2>8. OutputReady'
    <3>1. ASSUME NEW u \in Targets, upToDate'[Task(u)] = u
          PROVE  \E b \in 1 .. builds' : \A n \in Names : Holds(u, n, b)'
      <4>1. upToDate[Task(u)] = u
        BY <1>1, <2>1, <3>1, BuildAssumption DEF ControlOK, Tasks
      <4>2. PICK b \in 1 .. builds : \A n \in Names : Holds(u, n, b)
        BY <4>1 DEF OutputReady
      <4>3. b \in 1 .. builds' /\ \A n \in Names : Holds(u, n, b)'
        BY <1>1, <2>2, <4>2 DEF Holds, In
      <4> QED
        BY <4>3
    <3> QED
      BY <3>1 DEF OutputReady
  <2>9. CiInv' /\ CiUploadsOwn'
    <3>1. CASE stage = "dev"
      BY <2>1, <3>1 DEF CiInv, OwnOnly, CiUploadsOwn
    <3>2. CASE stage # "dev"
      <4>1. stage = "libavif" /\ t = CiTarget /\ builds = 0 /\ resources = {}
        BY <1>1, <3>2 DEF MayRun, CiInv
      <4>2. builds' <= 1
        BY <2>1, <4>1
      <4>3. upToDate'[Task(t)] = Nobody
        BY <1>1, <2>1 DEF ControlOK
      <4> QED
        BY <1>1, <2>1, <4>1, <4>2, <4>3 DEF CiInv, OwnOnly, CiUploadsOwn
    <3> QED
      BY <3>1, <3>2
  <2> QED
    BY <1>2, <2>3, <2>4, <2>5, <2>6, <2>7, <2>8, <2>9
<1> QED
  BY <1>3, <1>4

(* A step of a script that is not its last.                                *)
LEMMA AdvanceControl ==
  ASSUME ControlOK, NEW t \in Targets, NEW label, label # "clean", Doing(t, label), Advance,
         UNCHANGED <<builds, running, upToDate, stage>>, label \in Libs \cup {"copyDav1d", "copyAvif"}
  PROVE  ControlOK'
<1>1. /\ running = t /\ t # Nobody /\ step \in Nat /\ step <= Extra(t) + 4 /\ Extra(t) \in {0, 2}
      /\ step' = step + 1
  BY Position DEF Libs, Dependencies, Advance
<1>2. step' \in DOMAIN Script(t)
  BY <1>1, ScriptSteps
<1> QED
  BY <1>1, <1>2 DEF ControlOK

(* A compilation empties its directory, and leaves the library or none.    *)
LEMMA CompileKeeps ==
  ASSUME BuildInv, NEW t \in Targets, NEW lib \in Libs, NEW ok, compile(t, lib, ok)
  PROVE  BuildInv'
<1> USE DEF BuildInv
<1>1. /\ Doing(t, lib) /\ Advance
      /\ UNCHANGED <<builds, running, out, upToDate, resources, stage, artifact>>
  BY DEF compile
<1>2. /\ running = t /\ t # Nobody /\ step \in Nat /\ step <= Extra(t) + 2 /\ Extra(t) \in {0, 2}
      /\ step' = step + 1
      /\ step = Extra(t) + 1 => lib = "dav1d"
      /\ step = Extra(t) + 2 => lib = "avif"
  BY <1>1, Position DEF Libs, Dependencies, Advance
<1> DEFINE c == Compiled(t, lib)
<1>3. c.dir = WorkDir(t, lib) /\ c.target = t /\ c.build = builds
  BY DEF Compiled
<1>4. \A l \in work' :
        \/ l = c
        \/ l \in work /\ ~IsPrefix(c.dir, l.dir)
  BY <1>3 DEF compile
<1>5. builds \in Nat /\ builds \in 1 .. MaxBuilds
  BY <1>1, <1>2, BuildAssumption DEF ControlOK, CopiedInv
<1> HIDE DEF c
<1>6. ControlOK'
  BY <1>1, AdvanceControl DEF Libs, Dependencies
<1>7. OutOK' /\ ResourcesOK' /\ OutInv' /\ CiInv' /\ CiUploadsOwn'
  BY <1>1, <1>2 DEF OutOK, ResourcesOK, OutInv, CiInv, OwnOnly, CiUploadsOwn
<1>8. OutputReady'
  BY <1>1 DEF OutputReady, Holds, In
<1>9. WorkInv'
  BY <1>1, <1>2, <1>3, <1>4, <1>5 DEF WorkInv
<1>10. WorkOK'
  <2>1. \A l \in work' : l.target \in Targets /\ l.build \in 1 .. MaxBuilds
    BY <1>3, <1>4, <1>5 DEF WorkOK
  <2>2. ASSUME NEW l \in work, ~IsPrefix(c.dir, l.dir), IsPrefix(l.dir, c.dir)
        PROVE  l.build < builds
    <3>1. l.build \in Nat /\ l.build <= builds
      BY BuildAssumption DEF WorkOK, WorkInv
    <3>2. l.build # builds
      <4>1. SUFFICES ASSUME l.build = builds
                     PROVE  FALSE
        OBVIOUS
      <4>2. PICK other \in Libs : l.dir = WorkDir(t, other)
        BY <1>2, <4>1 DEF WorkInv
      <4>3. other = lib
        BY <1>3, <2>2, <4>2, DirsApart
      <4> QED
        BY <1>3, <2>2, <4>2, <4>3, DirNames, PrefixOfItself
    <3> QED
      BY <1>5, <3>1, <3>2
  <2>3. \A k, l \in work' : IsPrefix(k.dir, l.dir) => k = l \/ k.build < l.build
    BY <1>3, <1>4, <2>2 DEF WorkOK
  <2> QED
    BY <2>1, <2>3 DEF WorkOK
<1>11. FreshInv'
  <2>1. SUFFICES ASSUME NEW name \in Names, NEW l \in work', l.dir = WorkDir(t, name),
                        step + 1 > Extra(t) + (IF name = "dav1d" THEN 1 ELSE 2)
                 PROVE  l.target = t /\ l.build = builds
    BY <1>1, <1>2 DEF FreshInv
  <2>2. CASE l = c
    BY <1>3, <2>2
  <2>3. CASE l \in work /\ ~IsPrefix(c.dir, l.dir)
    <3>1. name # lib
      BY <1>3, <2>1, <2>3, DirNames, PrefixOfItself
    <3>2. step > Extra(t) + (IF name = "dav1d" THEN 1 ELSE 2)
      BY <1>2, <2>1, <3>1 DEF Names
    <3> QED
      BY <1>2, <2>1, <2>3, <3>2 DEF FreshInv
  <2> QED
    BY <1>4, <2>2, <2>3
<1>12. CopiedInv'
  <2>1. builds > 0 /\ upToDate[Task(t)] = Nobody
    BY <1>2 DEF CopiedInv
  <2>2. ~(step' > Extra(t) + 3) /\ ~(step' > Extra(t) + 4)
    BY <1>2
  <2> QED
    BY <1>1, <1>2, <2>1, <2>2 DEF CopiedInv
<1> QED
  BY <1>6, <1>7, <1>8, <1>9, <1>10, <1>11, <1>12

(* The end of a script that did not succeed.                               *)
Stops ==
  /\ running # Nobody
  /\ stage' = IF stage = "dev" THEN stage ELSE "failed"
  /\ End
  /\ UNCHANGED <<work, upToDate>>

(* It disturbs only what is in the output directories.                     *)
LEMMA StopsKeeps ==
  ASSUME BuildInv, Stops
  PROVE  /\ ControlOK' /\ WorkOK' /\ ResourcesOK' /\ WorkInv' /\ FreshInv' /\ CopiedInv'
         /\ CiInv' /\ CiUploadsOwn'
<1> USE DEF BuildInv
<1>1. /\ running' = Nobody /\ step' = 0
      /\ stage' = IF stage = "dev" THEN stage ELSE "failed"
      /\ UNCHANGED <<builds, work, upToDate, resources, artifact>>
  BY DEF Stops, End
<1>2. ControlOK'
  BY <1>1 DEF ControlOK, Stages
<1>3. WorkOK' /\ ResourcesOK' /\ WorkInv' /\ FreshInv' /\ CopiedInv'
  BY <1>1 DEF WorkOK, ResourcesOK, WorkInv, FreshInv, CopiedInv
<1>4. CiInv' /\ CiUploadsOwn'
  <2>1. stage # "dev" => builds <= 1
    BY DEF CiInv
  <2> QED
    BY <1>1, <2>1 DEF CiInv, OwnOnly, CiUploadsOwn
<1> QED
  BY <1>2, <1>3, <1>4

(* What an interrupted script leaves.                                      *)
LEMMA AbortKeeps ==
  ASSUME BuildInv, abort
  PROVE  BuildInv'
<1>1. Stops /\ out' = out /\ upToDate' = upToDate /\ builds' = builds
  BY DEF abort, Stops, End
<1>2. OutOK' /\ OutInv'
  BY <1>1 DEF BuildInv, OutOK, OutInv
<1>3. OutputReady'
  BY <1>1 DEF BuildInv, OutputReady, Holds, In
<1> QED
  BY <1>1, <1>2, <1>3, StopsKeeps DEF BuildInv

(* A file copied into the output directory of t disturbs no other target.  *)
LEMMA OutReplaced ==
  ASSUME BuildInv, NEW t \in Targets, NEW name \in Names, running = t,
         NEW new, new.dir = outputDir(t), new.name = name, new.build <= builds,
         [target |-> new.target, build |-> new.build] \in Libraries,
         out' = (out \ In(out, outputDir(t), name)) \cup {new},
         UNCHANGED <<builds, upToDate>>
  PROVE  /\ OutOK' /\ OutInv' /\ OutputReady'
         /\ \A l \in out : l.name # name => l \in out'
<1> USE DEF BuildInv
<1>1. \A l \in out' : l = new \/ (l \in out /\ ~(l.dir = new.dir /\ l.name = new.name))
  BY DEF In
<1>2. OutOK'
  BY <1>1 DEF OutOK
<1>3. OutInv'
  BY <1>1 DEF OutInv
<1>4. \A l \in out : l.dir # outputDir(t) \/ l.name # name => l \in out'
  BY DEF In
<1>5. OutputReady'
  <2>1. SUFFICES ASSUME NEW u \in Targets, upToDate[Task(u)] = u
                 PROVE  \E b \in 1 .. builds : \A n \in Names : Holds(u, n, b)'
    BY DEF OutputReady
  <2>2. PICK b \in 1 .. builds : \A n \in Names : Holds(u, n, b)
    BY <2>1 DEF OutputReady
  <2>3. upToDate[Task(t)] = Nobody /\ u # Nobody
    BY BuildAssumption DEF CopiedInv
  <2>4. outputDir(u) # outputDir(t)
    BY <2>1, <2>3, OneTask
  <2>5. \A n \in Names : Holds(u, n, b)'
    BY <1>4, <2>2, <2>4 DEF Holds, In
  <2> QED
    BY <2>2, <2>5
<1> QED
  BY <1>2, <1>3, <1>4, <1>5

(* What is copied was built by this run.                                   *)
LEMMA CopyKeeps ==
  ASSUME BuildInv, NEW t \in Targets, NEW name \in Names, copy(t, name)
  PROVE  BuildInv'
<1> USE DEF BuildInv
<1> DEFINE label == IF name = "dav1d" THEN "copyDav1d" ELSE "copyAvif"
<1>1. /\ Doing(t, label) /\ Advance
      /\ UNCHANGED <<builds, running, work, upToDate, resources, stage, artifact>>
  BY DEF copy
<1>2. /\ running = t /\ t # Nobody /\ step \in Nat /\ Extra(t) \in {0, 2}
      /\ step' = step + 1
      /\ step = Extra(t) + (IF name = "dav1d" THEN 3 ELSE 4)
  BY <1>1, Position DEF Names, Advance
<1>3. PICK l \in work :
        /\ l.dir = WorkDir(t, name)
        /\ out' = (out \ In(out, outputDir(t), name)) \cup
                    {[dir |-> outputDir(t), name |-> name, target |-> l.target, build |-> l.build]}
  BY DEF copy
<1>4. l.target = t /\ l.build = builds
  BY <1>2, <1>3 DEF FreshInv
<1>5. builds \in 1 .. MaxBuilds /\ builds \in Nat
  BY <1>2, BuildAssumption DEF ControlOK, CopiedInv
<1>6. PICK new :
      /\ new.dir = outputDir(t) /\ new.name = name /\ new.target = t /\ new.build = builds
      /\ out' = (out \ In(out, outputDir(t), name)) \cup {new}
  BY <1>3, <1>4
<1>7. /\ [target |-> new.target, build |-> new.build] \in Libraries
      /\ new.build <= builds /\ UNCHANGED <<builds, upToDate>>
  BY <1>1, <1>5, <1>6 DEF Libraries, Library
<1>8. OutOK' /\ OutInv' /\ OutputReady' /\ \A k \in out : k.name # name => k \in out'
  BY <1>2, <1>6, <1>7, OutReplaced
<1>9. ControlOK'
  BY <1>1, AdvanceControl DEF Names
<1>10. WorkOK' /\ ResourcesOK' /\ WorkInv' /\ CiInv' /\ CiUploadsOwn'
  BY <1>1 DEF WorkOK, ResourcesOK, WorkInv, CiInv, OwnOnly, CiUploadsOwn
<1>11. FreshInv'
  <2>1. step > Extra(t) + 1 /\ step > Extra(t) + 2
    BY <1>2
  <2> QED
    BY <1>1, <1>2, <2>1 DEF FreshInv
<1>12. CopiedInv'
  <2>1. \E k \in In(out', outputDir(t), name) : k.target = t /\ k.build = builds
    BY <1>6 DEF In
  <2>2. ASSUME NEW n \in Names, step + 1 > Extra(t) + (IF n = "dav1d" THEN 3 ELSE 4)
        PROVE  \E k \in In(out', outputDir(t), n) : k.target = t /\ k.build = builds
    <3>1. CASE n = name
      BY <2>1, <3>1
    <3>2. CASE n # name
      <4>1. step > Extra(t) + (IF n = "dav1d" THEN 3 ELSE 4)
        BY <1>2, <2>2, <3>2 DEF Names
      <4>2. Holds(t, n, builds)
        BY <1>2, <4>1 DEF CopiedInv
      <4> QED
        BY <1>8, <3>2, <4>2 DEF Holds, In
    <3> QED
      BY <3>1, <3>2
  <2> QED
    BY <1>1, <1>2, <2>2 DEF CopiedInv, Holds, In
<1> QED
  BY <1>8, <1>9, <1>10, <1>11, <1>12

(* A copy that fails leaves a truncated file, or what was there.           *)
LEMMA CopyFailsKeeps ==
  ASSUME BuildInv, NEW t \in Targets, NEW name \in Names, copyFails(t, name)
  PROVE  BuildInv'
<1> USE DEF BuildInv
<1> DEFINE new == [dir |-> outputDir(t), name |-> name, target |-> Nobody, build |-> 0]
<1>1. /\ running = t /\ t # Nobody /\ Stops /\ UNCHANGED <<builds, upToDate>>
      /\ out' = out \/ out' = (out \ In(out, outputDir(t), name)) \cup {new}
  BY Position DEF copyFails, Stops, End
<1>2. CASE out' = out
  <2>1. OutOK' /\ OutInv'
    BY <1>1, <1>2 DEF OutOK, OutInv
  <2>2. OutputReady'
    BY <1>1, <1>2 DEF OutputReady, Holds, In
  <2> QED
    BY <1>1, <2>1, <2>2, StopsKeeps
<1>3. CASE out' = (out \ In(out, outputDir(t), name)) \cup {new}
  <2>1. new.dir = outputDir(t) /\ new.name = name /\ new.target = Nobody /\ new.build = 0
    OBVIOUS
  <2> HIDE DEF new
  <2>2. [target |-> new.target, build |-> new.build] \in Libraries
    BY <2>1 DEF Truncated, Libraries
  <2>3. builds \in Nat /\ new.build <= builds
    BY <2>1, BuildAssumption DEF ControlOK
  <2>4. OutOK' /\ OutInv' /\ OutputReady'
    BY <1>1, <1>3, <2>1, <2>2, <2>3, OutReplaced
  <2> QED
    BY <1>1, <2>4, StopsKeeps
<1> QED
  BY <1>1, <1>2, <1>3

(* A script that succeeds has copied both libraries.                       *)
LEMMA CleanKeeps ==
  ASSUME BuildInv, NEW t \in Targets, clean(t)
  PROVE  BuildInv'
<1> USE DEF BuildInv
<1>1. /\ running' = Nobody /\ step' = 0 /\ work' \subseteq work
      /\ upToDate' = [upToDate EXCEPT ![Task(t)] = t]
      /\ stage' = IF stage = "libavif" THEN "klib" ELSE stage
      /\ UNCHANGED <<builds, out, resources, artifact>>
  BY DEF clean, End
<1>2. running = t /\ t # Nobody /\ step = Extra(t) + 5 /\ Extra(t) \in {0, 2} /\ Task(t) \in Tasks
  BY Position DEF clean, Tasks
<1>3. ControlOK'
  BY <1>1, <1>2 DEF ControlOK, Stages
<1>4. OutOK' /\ ResourcesOK' /\ OutInv' /\ FreshInv' /\ CopiedInv'
  BY <1>1 DEF OutOK, ResourcesOK, OutInv, FreshInv, CopiedInv
<1>5. WorkOK' /\ WorkInv'
  BY <1>1 DEF WorkOK, WorkInv
<1>6. OutputReady'
  <2>1. builds \in 1 .. builds /\ \A n \in Names : Holds(t, n, builds)
    <3>1. step > Extra(t) + 3 /\ step > Extra(t) + 4
      BY <1>2
    <3>2. builds > 0 /\ builds \in Nat
      BY <1>2, BuildAssumption DEF CopiedInv, ControlOK
    <3> QED
      BY <1>2, <3>1, <3>2 DEF CopiedInv
  <2>2. SUFFICES ASSUME NEW u \in Targets, upToDate'[Task(u)] = u
                 PROVE  \E b \in 1 .. builds : \A n \in Names : Holds(u, n, b)
    BY <1>1 DEF OutputReady, Holds, In
  <2>3. CASE Task(u) = Task(t)
    <3>1. u = t
      BY <1>1, <1>2, <2>2, <2>3 DEF ControlOK
    <3> QED
      BY <2>1, <3>1
  <2>4. CASE Task(u) # Task(t)
    <3>1. upToDate[Task(u)] = u
      BY <1>1, <2>2, <2>4 DEF ControlOK, Tasks
    <3> QED
      BY <3>1 DEF OutputReady
  <2> QED
    BY <2>3, <2>4
<1>7. CiInv' /\ CiUploadsOwn'
  <2>1. stage # "dev" => stage = "libavif" /\ builds <= 1 /\ resources = {}
    BY <1>2 DEF CiInv
  <2> QED
    BY <1>1, <2>1 DEF CiInv, OwnOnly, CiUploadsOwn
<1> QED
  BY <1>3, <1>4, <1>5, <1>6, <1>7

(* The CI job links what it has built, or nothing.                         *)
LEMMA KlibKeeps ==
  ASSUME BuildInv, NEW t \in Targets, NEW done, klib(t, done)
  PROVE  BuildInv'
<1> USE DEF BuildInv
<1> DEFINE linked == {[dir |-> t, library |-> CopyOf(t, l, done)] : l \in Linked(t, "avif")}
<1>1. /\ running = Nobody /\ MayRun(t, "klib")
      /\ resources' \subseteq resources \cup linked
      /\ stage' = IF stage = "klib" THEN "upload" ELSE stage
      /\ UNCHANGED <<builds, running, step, work, out, upToDate, artifact>>
  BY DEF klib
<1>2. ASSUME NEW l \in Linked(t, "avif")
      PROVE  l.build \in 1 .. MaxBuilds /\ l.build <= builds
  <2>1. l \in out /\ l.target = t /\ t # Nobody
    BY <1>2, BuildAssumption DEF Linked, In
  <2> QED
    BY <2>1, OutTypes DEF OutInv
<1>3. linked \subseteq [dir : Targets, library : Libraries]
  <2>1. ASSUME NEW l \in Linked(t, "avif")
        PROVE  CopyOf(t, l, done) \in Libraries
    BY <1>2, <2>1 DEF CopyOf, Libraries, Library
  <2> QED
    BY <2>1
<1>4. builds <= 1 =>
        \E b \in {[target |-> t, build |-> builds], Truncated} :
          linked \subseteq {[dir |-> t, library |-> b]}
  <2>1. ASSUME builds <= 1, NEW l \in Linked(t, "avif")
        PROVE  l.build = builds
    <3>1. l.build \in 1 .. MaxBuilds /\ l.build <= builds
      BY <1>2, <2>1
    <3> QED
      BY <2>1, <3>1, BuildAssumption DEF ControlOK
  <2>2. CASE done = "cut"
    BY <2>2 DEF CopyOf
  <2>3. CASE done # "cut"
    <3>1. builds <= 1 => \A l \in Linked(t, "avif") :
            CopyOf(t, l, done) = [target |-> t, build |-> builds]
      BY <2>1, <2>3 DEF CopyOf
    <3> QED
      BY <3>1
  <2> QED
    BY <2>2, <2>3
<1> HIDE DEF linked
<1>5. ControlOK'
  BY <1>1 DEF ControlOK, Stages
<1>6. WorkOK' /\ OutOK' /\ WorkInv' /\ FreshInv' /\ CopiedInv' /\ OutInv'
  BY <1>1 DEF WorkOK, OutOK, WorkInv, FreshInv, CopiedInv, OutInv
<1>7. ResourcesOK'
  BY <1>1, <1>3 DEF ResourcesOK
<1>8. OutputReady'
  BY <1>1 DEF OutputReady, Holds, In
<1>9. CiInv' /\ CiUploadsOwn'
  <2>1. CASE stage = "dev"
    BY <1>1, <2>1 DEF CiInv, OwnOnly, CiUploadsOwn
  <2>2. CASE stage # "dev"
    <3>1. stage = "klib" /\ t = CiTarget /\ resources = {} /\ builds <= 1
      BY <1>1, <2>2 DEF MayRun, CiInv
    <3>2. OwnOnly(builds)'
      BY <1>1, <1>4, <3>1 DEF OwnOnly
    <3> QED
      BY <1>1, <3>1, <3>2 DEF CiInv, OwnOnly, CiUploadsOwn
  <2> QED
    BY <2>1, <2>2
<1> QED
  BY <1>5, <1>6, <1>7, <1>8, <1>9

(* What the CI job uploads is not nothing.                                 *)
LEMMA UploadKeeps ==
  ASSUME BuildInv, upload
  PROVE  BuildInv'
<1> USE DEF BuildInv
<1>1. /\ stage = "upload" /\ artifact' = resources
      /\ stage' = IF resources = {} THEN "failed" ELSE "passed"
      /\ UNCHANGED <<builds, running, step, work, out, upToDate, resources>>
  BY DEF upload
<1>2. /\ running = Nobody /\ builds <= 1
      /\ OwnOnly(builds)
  BY <1>1 DEF CiInv
<1>3. ControlOK' /\ ResourcesOK'
  BY <1>1 DEF ControlOK, ResourcesOK, Stages
<1>4. WorkOK' /\ OutOK' /\ WorkInv' /\ FreshInv' /\ CopiedInv' /\ OutInv'
  BY <1>1, <1>2 DEF WorkOK, OutOK, WorkInv, FreshInv, CopiedInv, OutInv
<1>5. OutputReady'
  BY <1>1 DEF OutputReady, Holds, In
<1>6. CiInv' /\ CiUploadsOwn'
  <2>1. resources # {} =>
          \E l \in {[target |-> CiTarget, build |-> builds], Truncated} :
            resources = {[dir |-> CiTarget, library |-> l]}
    BY <1>2 DEF OwnOnly
  <2>2. CiUploadsOwn'
    BY <1>1, <2>1 DEF CiUploadsOwn, Truncated
  <2> QED
    BY <1>1, <1>2, <2>2 DEF CiInv
<1> QED
  BY <1>3, <1>4, <1>5, <1>6

(* Every step keeps the invariant.                                         *)
LEMMA BuildNext ==
  ASSUME BuildInv, [Next]_vars
  PROVE  BuildInv'
<1>1. CASE UNCHANGED vars
  <2>1. UNCHANGED <<builds, running, step, work, out, upToDate, resources, stage, artifact>>
    BY <1>1 DEF vars
  <2>2. ControlOK' /\ WorkOK' /\ OutOK' /\ ResourcesOK'
    BY <2>1 DEF BuildInv, ControlOK, WorkOK, OutOK, ResourcesOK
  <2>3. WorkInv' /\ FreshInv' /\ OutInv' /\ CiInv' /\ CiUploadsOwn'
    BY <2>1 DEF BuildInv, WorkInv, FreshInv, OutInv, CiInv, OwnOnly, CiUploadsOwn
  <2>4. CopiedInv' /\ OutputReady'
    BY <2>1 DEF BuildInv, CopiedInv, OutputReady, Holds, In
  <2> QED
    BY <2>2, <2>3, <2>4 DEF BuildInv
<1>2. ASSUME NEW t \in Targets, NEW ok \in BOOLEAN, NEW lib \in Libs, compile(t, lib, ok)
      PROVE  BuildInv'
  BY <1>2, CompileKeeps
<1>3. ASSUME NEW t \in Targets, NEW done, klib(t, done)
      PROVE  BuildInv'
  BY <1>3, KlibKeeps
<1>4. ASSUME NEW t \in Targets, NEW n \in Names, copy(t, n) \/ copyFails(t, n)
      PROVE  BuildInv'
  BY <1>4, CopyKeeps, CopyFailsKeeps
<1>5. ASSUME NEW t \in Targets, gradle(t) \/ clean(t)
      PROVE  BuildInv'
  BY <1>5, GradleKeeps, CleanKeeps
<1>6. CASE abort \/ upload
  BY <1>6, AbortKeeps, UploadKeeps
<1> QED
  BY <1>1, <1>2, <1>3, <1>4, <1>5, <1>6 DEF Next, Libs

(* BuildInv is an invariant.                                               *)
LEMMA BuildAlways == Spec => []BuildInv
  BY BuildInit, BuildNext, PTL DEF Spec
-------------------------------------------------------------------------------
(* Every variable keeps its type; a build directory holds what was built   *)
(* there last, and an output directory one library of a name.              *)
THEOREM BuildTypes == Spec => []TypeOK
<1>1. BuildInv => TypeOK
  BY TypeParts DEF BuildInv
<1> QED
  BY <1>1, BuildAlways, PTL

(* While gradle takes a task to be up to date, the directory that the      *)
(* target's script copies to has both libraries, of the target and of one  *)
(* build: for every target, the ones of iOS too.                           *)
THEOREM UpToDateMeansCopied == Spec => []OutputReady
  BY BuildAlways, PTL DEF BuildInv

(* The targets whose script copies elsewhere: two of iOS.                  *)
LEMMA SwappedTargets ==
  ASSUME NEW t \in Targets
  PROVE  libraryPath(t) = outputDir(t) <=> t.os # "ios" \/ t.name = "SimulatorArm64"
  BY TargetType DEF libraryPath, outputDir, iosArch

(* Without those two, a target links the libraries of one build of its own *)
(* whenever gradle takes its task to be up to date.                        *)
THEOREM UpToDateMeansLinkable ==
  ASSUME \A t \in Targets : t.os # "ios" \/ t.name = "SimulatorArm64"
  PROVE  Spec => []LinkReady
<1>1. OutputReady => LinkReady
  <2>1. ASSUME NEW t \in Targets, NEW n, NEW b, Holds(t, n, b)
        PROVE  \E l \in Linked(t, n) : l.build = b
    BY <2>1, SwappedTargets DEF Holds, Linked, In
  <2> QED
    BY <2>1 DEF OutputReady, LinkReady
<1> QED
  BY <1>1, UpToDateMeansCopied, PTL

(* A CI job that passes has uploaded one JNI library, linked from its own  *)
(* build for its architecture, or cut short while it was copied.           *)
THEOREM CiUploadsItsOwn == Spec => []CiUploadsOwn
  BY BuildAlways, PTL DEF BuildInv
===============================================================================
