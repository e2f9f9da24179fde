------------------------------ MODULE NativeBuild ------------------------------
(***************************************************************************)
(* How libdav1d.a and libavif.a come to the place where each target links  *)
(* them: the gradle tasks, the shell scripts they run, build-jvm-klib.sh,  *)
(* which links the JNI library of the desktop, and the CI workflow.        *)
(*                                                                         *)
(* A target is an operating system and the name it has in gradle.  The     *)
(* scripts have no `set -e`: a command that fails does not end them,       *)
(* unless the code says `|| exit 255`.  What a compilation leaves is       *)
(* identified with the target it is for and the number of the script run.  *)
(* Tasks of one project do not run at the same time.                       *)
(***************************************************************************)
EXTENDS Integers, Sequences, SequencesExt

CONSTANTS
  Targets,    \* the targets that are built
  CiTarget,   \* the target of the CI job
  Nobody,     \* no target
  MaxBuilds   \* bound: runs of the scripts

Darwin == [os : {"darwin"}, name : {"aarch64", "x86_64"}]
Android == [os : {"android"}, name : {"x86", "x86_64", "armeabi-v7a", "arm64-v8a"}]
Ios == [os : {"ios"}, name : {"X64", "Arm64", "SimulatorArm64"}]

ASSUME BuildAssumption ==
  /\ Targets \subseteq Darwin \cup Android \cup Ios
  /\ CiTarget \in Targets \cap Darwin
  /\ Nobody \notin Targets
  /\ MaxBuilds \in Nat \ {0}

Names == {"dav1d", "avif"}
Dependencies == {"libyuv", "libwebp", "dav1d"}

(* The steps of the scripts.                                               *)
Script(t) ==
  (IF t.os = "ios" THEN <<"dav1d">> ELSE <<"libyuv", "libwebp", "dav1d">>)
    \o <<"avif", "copyDav1d", "copyAvif", "clean">>

(* One task builds for darwin, whatever the property ARCH; its cross file  *)
(* is an input.                                                            *)
Task(t) == IF t.os = "darwin" THEN <<"darwin">> ELSE <<t.os, t.name>>

(* The directory a step builds in, below libavif.                          *)
WorkDir(t, lib) ==
  CASE lib = "avif" -> <<"_build">> \o Task(t)
    [] lib = "libwebp" -> <<"ext", lib, "build">>
    [] OTHER -> <<"ext", lib, "build">> \o
                  (IF t.os = "android" THEN <<t.name>> ELSE <<>>)

iosArch(t) ==
  [X64 |-> "x86_64", Arm64 |-> "aarch64", SimulatorArm64 |-> "aarch64-sim"][t.name]

(* outputDir of the task: where the script copies the libraries.           *)
outputDir(t) ==
  CASE t.os = "darwin" -> <<"darwin">>
    [] t.os = "android" -> <<"android", t.name>>
    [] t.os = "ios" -> <<"ios", iosArch(t)>>

(* libraryPath of the iOS targets, PROJECT_LIB_DIR of the others: where    *)
(* they are linked from.                                                   *)
libraryPath(t) ==
  CASE t.os = "ios" ->
         <<"ios", [SimulatorArm64 |-> "aarch64-sim", X64 |-> "aarch64",
                   Arm64 |-> "x86_64"][t.name]>>
    [] t.os = "android" -> <<"android", t.name>>
    [] t.os = "darwin" -> <<"darwin">>

VARIABLES
  builds,     \* runs of the scripts so far
  running,    \* the target whose script runs, or Nobody
  step,       \* the step of the script it is at
  work,       \* the libraries in the build directories
  out,        \* the libraries in the output directories
  upToDate,   \* the target that gradle remembers a task to have succeeded for
  resources,  \* the JNI libraries in src/jvmMain/resources
  stage,      \* the step of the CI job, "dev" on a developer's machine
  artifact    \* what the CI job has uploaded

vars == <<builds, running, step, work, out, upToDate, resources, stage, artifact>>

Stages == {"dev", "libavif", "klib", "upload", "passed", "failed"}
Library == [target : Targets, build : 1 .. MaxBuilds]
Truncated == [target |-> Nobody, build |-> 0]
Libraries == Library \cup {Truncated}
Tasks == {Task(t) : t \in Targets}

In(libs, dir, name) == {l \in libs : l.dir = dir /\ l.name = name}

(* The script step that runs, for target t.                                *)
Doing(t, label) == running = t /\ Script(t)[step] = label
Advance == step' = step + 1

(* A developer runs any task, the CI job those of its workflow.            *)
MayRun(t, s) == stage = "dev" \/ (stage = s /\ t = CiTarget)
-------------------------------------------------------------------------------
(* Faulty variant of gradle: the cross file is not an input of the task.   *)
gradleIgnoresArch(t) ==
  /\ running = Nobody
  /\ MayRun(t, "libavif")
  /\ IF upToDate[Task(t)] # Nobody
     THEN /\ upToDate' = [upToDate EXCEPT ![Task(t)] = t]
          /\ stage' = IF stage = "libavif" THEN "klib" ELSE stage
          /\ UNCHANGED <<builds, running, step>>
     ELSE /\ builds < MaxBuilds
          /\ builds' = builds + 1
          /\ running' = t
          /\ step' = 1
          /\ UNCHANGED <<upToDate, stage>>
  /\ UNCHANGED <<work, out, resources, artifact>>

(* gradlew buildLibAvif...: nothing is run when neither the inputs nor the *)
(* outputs have changed since the task succeeded.  The sources of libavif  *)
(* are not among its inputs.                                               *)
gradle(t) ==
  /\ running = Nobody
  /\ MayRun(t, "libavif")
  /\ IF upToDate[Task(t)] = t
     THEN /\ stage' = IF stage = "libavif" THEN "klib" ELSE stage
          /\ UNCHANGED <<builds, running, step, upToDate>>
     ELSE /\ builds < MaxBuilds
          /\ builds' = builds + 1
          /\ running' = t
          /\ step' = 1
          /\ upToDate' = [upToDate EXCEPT ![Task(t)] = Nobody]
          /\ UNCHANGED stage
  /\ UNCHANGED <<work, out, resources, artifact>>

Compiled(t, lib) == [dir |-> WorkDir(t, lib), target |-> t, build |-> builds]

(* Faulty variant of compile: the build directory is not emptied.          *)
compileOnTop(t, lib, ok) ==
  /\ Doing(t, lib)
  /\ work' = IF ok THEN {l \in work : l.dir # WorkDir(t, lib)} \cup {Compiled(t, lib)}
                   ELSE work
  /\ Advance
  /\ UNCHANGED <<builds, running, out, upToDate, resources, stage, artifact>>

(***************************************************************************)
(* rm -rf of the build directory and what is below it, configure, compile. *)
(* A failure leaves the directory without a library, and the script goes   *)
(* on.  libavif does not compile without its dependencies.                 *)
(***************************************************************************)
compile(t, lib, ok) ==
  /\ Doing(t, lib)
  /\ ok /\ lib = "avif" =>
       \A d \in Dependencies \cap ToSet(Script(t)) :
         \E l \in work : l.dir = WorkDir(t, d)
  /\ work' = {l \in work : ~IsPrefix(WorkDir(t, lib), l.dir)}
               \cup (IF ok THEN {Compiled(t, lib)} ELSE {})
  /\ Advance
  /\ UNCHANGED <<builds, running, out, upToDate, resources, stage, artifact>>

(* cp of one library: over the one that is there.                          *)
copy(t, name) ==
  /\ Doing(t, IF name = "dav1d" THEN "copyDav1d" ELSE "copyAvif")
  /\ \E l \in work :
       /\ l.dir = WorkDir(t, name)
       /\ out' = (out \ In(out, outputDir(t), name)) \cup
                   {[dir |-> outputDir(t), name |-> name, target |-> l.target,
                     build |-> l.build]}
  /\ Advance
  /\ UNCHANGED <<builds, running, work, upToDate, resources, stage, artifact>>

End ==
  /\ running' = Nobody
  /\ step' = 0
  /\ UNCHANGED <<builds, resources, artifact>>

(* ... || exit 255: nothing to copy, or a copy that stopped half-way.      *)
copyFails(t, name) ==
  /\ Doing(t, IF name = "dav1d" THEN "copyDav1d" ELSE "copyAvif")
  /\ IF \E l \in work : l.dir = WorkDir(t, name)
     THEN out' = (out \ In(out, outputDir(t), name)) \cup
                   {[dir |-> outputDir(t), name |-> name, target |-> Nobody, build |-> 0]}
     ELSE out' = out
  /\ stage' = IF stage = "dev" THEN stage ELSE "failed"
  /\ End
  /\ UNCHANGED <<work, upToDate>>

(* rm -rf of the build directories; gradle remembers the success.          *)
clean(t) ==
  /\ Doing(t, "clean")
  /\ work' = {l \in work : \A lib \in Dependencies \cup {"avif"} :
                             lib \in ToSet(Script(t)) => ~IsPrefix(WorkDir(t, lib), l.dir)}
  /\ upToDate' = [upToDate EXCEPT ![Task(t)] = t]
  /\ stage' = IF stage = "libavif" THEN "klib" ELSE stage
  /\ End
  /\ UNCHANGED out

(* The build is interrupted, or a directory or a clone is missing (cd ...  *)
(* || exit 255).                                                           *)
abort ==
  /\ running # Nobody
  /\ stage' = IF stage = "dev" THEN stage ELSE "failed"
  /\ End
  /\ UNCHANGED <<work, out, upToDate>>
-------------------------------------------------------------------------------
(* The libraries that t links from, when they are there and for t.         *)
Linked(t, name) == {l \in In(out, libraryPath(t), name) : l.target = t}

(* What cp leaves of the library that was linked from l.                   *)
CopyOf(t, l, done) ==
  IF done = "cut" THEN Truncated ELSE [target |-> t, build |-> l.build]

(***************************************************************************)
(* build-jvm-klib.sh -a arch: configure, link against the libraries of     *)
(* build/darwin, copy to the directory of t in the resources.  Whatever of *)
(* it fails, and if cp stops half-way, the script says "Build complete."   *)
(* and exits with 0.  The linker rejects libraries of another architecture.*)
(***************************************************************************)
klib(t, done) ==
  /\ running = Nobody
  /\ t.os = "darwin"
  /\ MayRun(t, "klib")
  /\ done # "failed" => \A n \in Names : Linked(t, n) # {}
  /\ resources' = IF done = "failed" THEN resources
                  ELSE {r \in resources : r.dir # t} \cup
                         {[dir |-> t, library |-> CopyOf(t, l, done)] : l \in Linked(t, "avif")}
  /\ stage' = IF stage = "klib" THEN "upload" ELSE stage
  /\ UNCHANGED <<builds, running, step, work, out, upToDate, artifact>>

(* Faulty variant of upload: if-no-files-found is left at its default.     *)
uploadAnything ==
  /\ stage = "upload"
  /\ artifact' = resources
  /\ stage' = "passed"
  /\ UNCHANGED <<builds, running, step, work, out, upToDate, resources>>

(* if-no-files-found: error.  (.gitignore does not count: upload-artifact  *)
(* leaves hidden files out since v4.4.)                                    *)
upload ==
  /\ stage = "upload"
  /\ artifact' = resources
  /\ stage' = IF resources = {} THEN "failed" ELSE "passed"
  /\ UNCHANGED <<builds, running, step, work, out, upToDate, resources>>

(* A CI job starts with a fresh checkout, which has no library at all.     *)
Init ==
  /\ builds = 0
  /\ running = Nobody
  /\ step = 0
  /\ work = {}
  /\ out = {}
  /\ upToDate = [k \in Tasks |-> Nobody]
  /\ resources = {}
  /\ stage \in {"dev", "libavif"}
  /\ artifact = {}

Next ==
  \/ \E t \in Targets :
       \/ gradle(t)
       \/ \E done \in {"copied", "cut", "failed"} : klib(t, done)
       \/ \E ok \in BOOLEAN, lib \in Dependencies \cup {"avif"} : compile(t, lib, ok)
       \/ \E n \in Names : copy(t, n) \/ copyFails(t, n)
       \/ clean(t)
  \/ abort \/ upload

Spec == Init /\ [][Next]_vars
-------------------------------------------------------------------------------
(* The type of every variable; a directory holds one library of a name,    *)
(* and a build directory what was built there last.                        *)
TypeOK ==
  /\ builds \in 0 .. MaxBuilds
  /\ running \in Targets \cup {Nobody}
  /\ IF running = Nobody THEN step = 0 ELSE step \in DOMAIN Script(running)
  /\ \A l \in work : l.target \in Targets /\ l.build \in 1 .. MaxBuilds
  /\ \A k, l \in work : IsPrefix(k.dir, l.dir) => k = l \/ k.build < l.build
  /\ \A l \in out : [target |-> l.target, build |-> l.build] \in Libraries
  /\ \A k, l \in out : k.dir = l.dir /\ k.name = l.name => k = l
  /\ upToDate \in [Tasks -> Targets \cup {Nobody}]
  /\ resources \cup artifact \subseteq [dir : Targets, library : Libraries]
  /\ stage \in Stages

(***************************************************************************)
(* When gradle takes the task of a target to be up to date, the directory  *)
(* this target links from holds both libraries, for this target and of one *)
(* build, whatever was interrupted or failed before.                       *)
(***************************************************************************)
LinkReady ==
  \A t \in Targets : upToDate[Task(t)] = t =>
    \E b \in 1 .. builds : \A n \in Names : \E l \in Linked(t, n) : l.build = b

(* A CI job that passes has uploaded one library, in the directory of its  *)
(* architecture: never none, nor one that is older or of another target.   *)
(* It was linked from what this job has built; a cp that stopped half-way  *)
(* may have cut it short, which nothing notices.                           *)
CiUploadsOwn ==
  stage = "passed" =>
    \E l \in {[target |-> CiTarget, build |-> builds], Truncated} :
      artifact = {[dir |-> CiTarget, library |-> l]}
===============================================================================
