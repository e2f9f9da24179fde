------------------------------- MODULE JvmLoader -------------------------------
(***************************************************************************)
(* loadNativeLibrary of the desktop JVM, run by the static initialiser of  *)
(* AvifDecoder: the library is copied from the JAR into a temporary file   *)
(* and loaded from there.  Any thread may be the first to use the class;   *)
(* the JVM makes the others wait.  The program may exit, which runs the    *)
(* deleteOnExit hook beside the threads that still run, or be killed, and  *)
(* be started again.                                                       *)
(*                                                                         *)
(* A run creates one temporary file at most, so its number names the file. *)
(* Exceptions are named after the call that throws them.                   *)
(***************************************************************************)
EXTENDS Integers, Sequences

CONSTANTS
  Threads,   \* threads that use AvifDecoder
  MaxStarts  \* bound: runs of the program

ASSUME LoaderAssumption == MaxStarts \in Nat \ {0}

VARIABLES
  process,   \* "running", "exiting" once the hook has run, or "down"
  start,     \* the number of this run of the program
  class,     \* the state of AvifDecoder in the JVM
  user,      \* what each thread has got from its use of the class
  pc,        \* the statement of loadNativeLibrary about to run
  block,     \* what the block given to use() threw
  failures,  \* the calls that have failed, in their order
  told,      \* the exception of the initialiser, with those it suppressed
  hooked,    \* TRUE when deleteOnExit has registered the file
  disk,      \* the temporary file of each run
  library,   \* the contents that System.load has mapped
  ended      \* how each run has ended

run == <<class, user, pc, block, failures, told, hooked, library>>
vars == <<process, start, run, disk, ended>>

Runs == 1 .. MaxStarts
Statements == {"getResource", "createTempFile", "deleteOnExit", "openStream",
               "replace", "copy", "close", "load"}
Nothing == "nothing"
Contents == {"absent", "empty", "partial", "complete"}

Use == INSTANCE UseBlock
-------------------------------------------------------------------------------
(* A thread uses AvifDecoder: the first one initialises it.                *)
call(t) ==
  /\ process # "down"
  /\ user[t] = "idle"
  /\ user' = [user EXCEPT ![t] = "waiting"]
  /\ IF class = "new"
     THEN class' = "initializing" /\ pc' = "getResource"
     ELSE UNCHANGED <<class, pc>>
  /\ UNCHANGED <<process, start, block, failures, told, hooked, disk, library, ended>>

(* Initialisation is over for t: it goes on, or gets the error of the      *)
(* initialiser (NoClassDefFoundError for those that waited).               *)
answer(t) ==
  /\ process # "down"
  /\ user[t] = "waiting"
  /\ class \in {"ready", "erroneous"}
  /\ user' = [user EXCEPT ![t] = IF class = "ready" THEN "served" ELSE "refused"]
  /\ UNCHANGED <<process, start, class, pc, block, failures, told, hooked, disk, library, ended>>
-------------------------------------------------------------------------------
At(statement) == process # "down" /\ pc = statement

Goto(statement) ==
  /\ pc' = statement
  /\ UNCHANGED <<process, start, class, user, block, failures, told, library, ended>>

(* Faulty variant of Throws: the waiting threads are not told.             *)
ThrowsSilently(outcome) ==
  /\ told' = outcome
  /\ pc' = "none"
  /\ UNCHANGED <<process, start, class, user, block, hooked, disk, library, ended>>

(* The initialiser ends with an exception.  An IOException is wrapped in a *)
(* RuntimeException that has it as its cause; others pass as they are.     *)
Throws(outcome) ==
  /\ told' = outcome
  /\ pc' = "none"
  /\ class' = "erroneous"
  /\ UNCHANGED <<process, start, user, block, hooked, disk, library, ended>>

(* The statement at pc fails, outside use().                               *)
Fails(statement) ==
  /\ At(statement)
  /\ failures' = Append(failures, statement)
  /\ Throws(Use!Outcome(statement, {}))

(* Fails without a library for this system, or without one in the JAR.     *)
getResource == At("getResource") /\ Goto("createTempFile") /\ UNCHANGED <<hooked, disk>>

createTempFile ==
  /\ At("createTempFile")
  /\ disk' = [disk EXCEPT ![start] = "empty"]
  /\ Goto("deleteOnExit")
  /\ UNCHANGED hooked

(* Faulty variant of deleteOnExit: the file is not registered.             *)
deleteOnExitForgotten ==
  /\ At("deleteOnExit")
  /\ process = "running"
  /\ Goto("openStream")
  /\ UNCHANGED <<hooked, disk>>

(* Once the hook has run this is an IllegalStateException.                 *)
deleteOnExit ==
  /\ At("deleteOnExit")
  /\ process = "running"
  /\ hooked' = TRUE
  /\ Goto("openStream")
  /\ UNCHANGED disk

openStream == At("openStream") /\ Goto("replace") /\ UNCHANGED <<hooked, disk>>

(* Files.copy with REPLACE_EXISTING deletes the file and creates it anew,  *)
(* although the exit hook may have deleted it by now.                      *)
replace ==
  /\ At("replace")
  /\ disk' = [disk EXCEPT ![start] = "empty"]
  /\ Goto("copy")
  /\ UNCHANGED hooked

(* The file of this run gets contents; one that was deleted stays so.      *)
Write(contents) ==
  disk' = [disk EXCEPT ![start] = IF @ = "absent" THEN @ ELSE contents]

copySome ==
  /\ At("copy")
  /\ Write("partial")
  /\ Goto("copy")
  /\ UNCHANGED hooked

copyAll ==
  /\ At("copy")
  /\ Write("complete")
  /\ Goto("close")
  /\ UNCHANGED hooked

(* Replacing or copying fails: use() goes on to close the stream.          *)
blockFails ==
  /\ At("replace") \/ At("copy")
  /\ block' = pc
  /\ failures' = Append(failures, pc)
  /\ pc' = "close"
  /\ UNCHANGED <<process, start, class, user, told, hooked, disk, library, ended>>

(* The end of use().                                                       *)
close ==
  /\ At("close")
  /\ \E thrown \in {Nothing, "close"} :
       LET outcome == Use!use(block, thrown)
       IN  /\ failures' = IF thrown = Nothing THEN failures ELSE Append(failures, thrown)
           /\ IF outcome.thrown = Nothing
              THEN /\ pc' = "load"
                   /\ UNCHANGED <<process, start, class, user, block, told,
                                  hooked, disk, library, ended>>
              ELSE Throws(outcome)

load ==
  /\ At("load")
  /\ disk[start] # "absent"
  /\ library' = disk[start]
  /\ class' = "ready"
  /\ pc' = "none"
  /\ UNCHANGED <<process, start, user, block, failures, told, hooked, disk, ended>>

loadNativeLibrary ==
  \/ getResource \/ createTempFile \/ deleteOnExit \/ openStream
  \/ replace \/ copySome \/ copyAll \/ blockFails \/ close \/ load
  \/ \E s \in {"getResource", "createTempFile", "openStream", "load"} : Fails(s)
  \/ process = "exiting" /\ Fails("deleteOnExit")
-------------------------------------------------------------------------------
(* The program exits: the hook deletes the registered file.  It runs last, *)
(* but other threads run on until the JVM halts.                           *)
exit ==
  /\ process = "running"
  /\ process' = "exiting"
  /\ disk' = IF hooked THEN [disk EXCEPT ![start] = "absent"] ELSE disk
  /\ ended' = [ended EXCEPT ![start] =
                 IF class \in {"ready", "erroneous"} THEN "clean" ELSE "abrupt"]
  /\ UNCHANGED <<start, run>>

halt ==
  /\ process = "exiting"
  /\ process' = "down"
  /\ UNCHANGED <<start, run, disk, ended>>

kill ==
  /\ process \in {"running", "exiting"}
  /\ process' = "down"
  /\ ended' = [ended EXCEPT ![start] = IF @ = "no" THEN "abrupt" ELSE @]
  /\ UNCHANGED <<start, run, disk>>

restart ==
  /\ process = "down"
  /\ start < MaxStarts
  /\ process' = "running"
  /\ start' = start + 1
  /\ class' = "new"
  /\ user' = [t \in Threads |-> "idle"]
  /\ pc' = "none"
  /\ block' = Nothing
  /\ failures' = <<>>
  /\ told' = Use!Outcome(Nothing, {})
  /\ hooked' = FALSE
  /\ library' = "absent"
  /\ UNCHANGED <<disk, ended>>

Init ==
  /\ process = "running"
  /\ start = 1
  /\ class = "new"
  /\ user = [t \in Threads |-> "idle"]
  /\ pc = "none"
  /\ block = Nothing
  /\ failures = <<>>
  /\ told = Use!Outcome(Nothing, {})
  /\ hooked = FALSE
  /\ library = "absent"
  /\ disk = [n \in Runs |-> "absent"]
  /\ ended = [n \in Runs |-> "no"]

Next ==
  \/ \E t \in Threads : call(t) \/ answer(t)
  \/ loadNativeLibrary
  \/ exit \/ halt \/ kill \/ restart

(* The copy makes progress, the initialising thread and the woken ones run.*)
Spec ==
  /\ Init /\ [][Next]_vars
  /\ WF_vars(loadNativeLibrary)
  /\ WF_vars(copyAll \/ blockFails)
  /\ \A t \in Threads : WF_vars(answer(t))
-------------------------------------------------------------------------------
(* The type of every variable; the initialiser runs exactly while the      *)
(* class is being initialised.                                             *)
TypeOK ==
  /\ process \in {"running", "exiting", "down"}
  /\ start \in Runs
  /\ class \in {"new", "initializing", "ready", "erroneous"}
  /\ user \in [Threads -> {"idle", "waiting", "served", "refused"}]
  /\ pc \in Statements \cup {"none"}
  /\ pc # "none" <=> class = "initializing"
  /\ block \in {Nothing, "replace", "copy"}
  /\ failures \in Seq(Statements)
  /\ told \in [thrown : Statements \cup {Nothing}, suppressed : SUBSET Statements]
  /\ hooked \in BOOLEAN
  /\ disk \in [Runs -> Contents]
  /\ library \in Contents
  /\ ended \in [Runs -> {"no", "clean", "abrupt"}]

(* Nobody uses the class unless a whole library has been loaded, however   *)
(* the copy and the closing of the stream fail.                            *)
ServedByWholeLibrary ==
  \A t \in Threads : user[t] = "served" => library = "complete"

(* No failure is lost: the exception of the initialiser is the first one,  *)
(* later ones are suppressed in it, and without an exception none happened.*)
FailuresTold ==
  class \in {"ready", "erroneous"} =>
    IF failures = <<>> THEN told.thrown = Nothing
    ELSE /\ told.thrown = Head(failures)
         /\ told.suppressed = {failures[i] : i \in 2 .. Len(failures)}

(* A run that exits after the initialisation of the class has ended leaves *)
(* no temporary file, whether the library was loaded or not.               *)
LitterExplained == \A n \in Runs : ended[n] = "clean" => disk[n] = "absent"

(* A thread that uses the class is served or refused, if the program lives.*)
CallersAnswered == \A t \in Threads : user[t] = "waiting" ~> user[t] # "waiting" \/ process = "down"
===============================================================================
