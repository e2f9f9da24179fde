---------------------------- MODULE JvmLoaderProofs ----------------------------
(***************************************************************************)
(* The safety of JvmLoader for any number of threads and of runs.          *)
(***************************************************************************)
EXTENDS JvmLoader, SequenceTheorems, TLAPS

(* What the initialiser has done when it is at a statement.                *)
Extracting ==
  class = "initializing" =>
    /\ told = Use!Outcome(Nothing, {})
    /\ IF block = Nothing THEN failures = <<>>
                          ELSE pc = "close" /\ failures = <<block>>
    /\ pc \in {"getResource", "createTempFile"} => disk[start] = "absent"
    /\ hooked \/ pc \in {"getResource", "createTempFile", "deleteOnExit"}
    /\ pc = "load" \/ (pc = "close" /\ block = Nothing)
         => disk[start] \in {"absent", "complete"}

(* How the initialiser has ended: at most two failures, both told, and a   *)
(* file that exists is registered.                                         *)
Initialized ==
  class \in {"ready", "erroneous"} =>
    /\ \/ failures = <<>> /\ told.thrown = Nothing
       \/ \E a \in Statements : failures = <<a>> /\ told = Use!Outcome(a, {})
       \/ \E a, b \in Statements : failures = <<a, b>> /\ told = Use!Outcome(a, {b})
    /\ class = "ready" => library = "complete"
    /\ process = "running" => hooked \/ disk[start] = "absent"

(* A class that is not initialised has no file and no user.                *)
Untouched ==
  class = "new" =>
    /\ disk[start] = "absent"
    /\ block = Nothing
    /\ failures = <<>>
    /\ told = Use!Outcome(Nothing, {})

Served == \A t \in Threads : user[t] = "served" => class = "ready"

(* The ends of the runs; a run that is still to come has not ended.        *)
Endings ==
  /\ process = "running" <=> ended[start] = "no"
  /\ ended[start] = "clean" => class \in {"ready", "erroneous"}
  /\ \A n \in Runs : n > start => ended[n] = "no" /\ disk[n] = "absent"

LoaderInv ==
  /\ TypeOK /\ Extracting /\ Initialized /\ Untouched /\ Served
  /\ Endings /\ LitterExplained
-------------------------------------------------------------------------------
(* The exceptions of the initialiser: none, one, or one that suppresses    *)
(* another.                                                                *)
LEMMA OutcomeType ==
  /\ Use!Outcome(Nothing, {}) \in [thrown : Statements \cup {Nothing}, suppressed : SUBSET Statements]
  /\ \A a \in Statements :
       Use!Outcome(a, {}) \in [thrown : Statements \cup {Nothing}, suppressed : SUBSET Statements]
  /\ \A a, b \in Statements :
       Use!Outcome(a, {b}) \in [thrown : Statements \cup {Nothing}, suppressed : SUBSET Statements]
  BY DEF Use!Outcome

(* What the calls that fail leave in `failures`.                           *)
LEMMA AppendFailure ==
  ASSUME NEW a \in Statements, NEW b \in Statements
  PROVE  /\ <<>> \in Seq(Statements)
         /\ Append(<<>>, a) = <<a>> /\ <<a>> \in Seq(Statements)
         /\ Append(<<a>>, b) = <<a, b>> /\ <<a, b>> \in Seq(Statements)
<1>1. <<>> \in Seq(Statements) /\ <<a>> \in Seq(Statements) /\ <<a, b>> \in Seq(Statements)
  OBVIOUS
<1>2. Append(<<>>, a) = <<a>>
  OBVIOUS
<1>3. Append(<<a>>, b) = <<a, b>>
  <2>1. /\ Append(<<a>>, b) \in Seq(Statements)
        /\ Len(Append(<<a>>, b)) = 2
        /\ Append(<<a>>, b)[1] = a /\ Append(<<a>>, b)[2] = b
    OBVIOUS
  <2>2. Len(<<a, b>>) = 2 /\ <<a, b>>[1] = a /\ <<a, b>>[2] = b
    OBVIOUS
  <2>3. \A i \in 1 .. 2 : Append(<<a>>, b)[i] = <<a, b>>[i]
    BY <2>1, <2>2
  <2> QED
    BY <1>1, <2>1, <2>2, <2>3, SeqEqual
<1> QED
  BY <1>1, <1>2, <1>3

(* use() in the three cases: nothing thrown, once, twice.                  *)
LEMMA UseOutcomes ==
  ASSUME NEW b, NEW c
  PROVE  /\ b = Nothing => Use!use(b, c) = Use!Outcome(c, {})
         /\ b # Nothing /\ c = Nothing => Use!use(b, c) = Use!Outcome(b, {})
         /\ b # Nothing /\ c # Nothing => Use!use(b, c) = Use!Outcome(b, {c})
         /\ Use!Outcome(b, {}).thrown = b
         /\ Use!Outcome(b, {c}).thrown = b
  BY DEF Use!use, Use!Outcome

(* A new run of the program, be it the first one.                          *)
LEMMA InitLoaderInv == Init => LoaderInv
<1> SUFFICES ASSUME Init PROVE LoaderInv
  OBVIOUS
<1> USE DEF Init, Runs
<1>1. TypeOK
  <2>1. start \in Runs
    BY LoaderAssumption
  <2>2. failures \in Seq(Statements)
    OBVIOUS
  <2>3. told \in [thrown : Statements \cup {Nothing}, suppressed : SUBSET Statements]
    BY OutcomeType
  <2> QED
    BY <2>1, <2>2, <2>3 DEF TypeOK, Contents
<1>2. Extracting /\ Initialized /\ Untouched
  BY LoaderAssumption DEF Extracting, Initialized, Untouched
<1>3. Served /\ Endings /\ LitterExplained
  BY LoaderAssumption DEF Served, Endings, LitterExplained
<1> QED
  BY <1>1, <1>2, <1>3 DEF LoaderInv

(* A statement of the initialiser that does not end it.                    *)
LEMMA StatementKeepsLoaderInv ==
  ASSUME LoaderInv,
         \/ getResource \/ createTempFile \/ deleteOnExit \/ openStream
         \/ replace \/ copySome \/ copyAll
  PROVE  LoaderInv'
<1> USE LoaderAssumption
    DEF LoaderInv, TypeOK, Extracting, Initialized, Untouched, Served, Endings,
              LitterExplained, Runs, Statements, Nothing, Contents,
        At, Goto, Write
<1>1. CASE getResource
  BY <1>1 DEF getResource
<1>2. CASE createTempFile
  BY <1>2 DEF createTempFile
<1>3. CASE deleteOnExit
  BY <1>3 DEF deleteOnExit
<1>4. CASE openStream
  BY <1>4 DEF openStream
<1>5. CASE replace
  BY <1>5 DEF replace
<1>6. CASE copySome
  BY <1>6 DEF copySome
<1>7. CASE copyAll
  BY <1>7 DEF copyAll
<1> QED
  BY <1>1, <1>2, <1>3, <1>4, <1>5, <1>6, <1>7

(* The initialiser throws what has failed so far, and nothing else changes.*)
LEMMA ThrowKeepsLoaderInv ==
  ASSUME LoaderInv, process # "down", class = "initializing",
         NEW outcome, Throws(outcome),
         \/ \E a \in Statements : failures' = <<a>> /\ outcome = Use!Outcome(a, {})
         \/ \E a, b \in Statements : failures' = <<a, b>> /\ outcome = Use!Outcome(a, {b}),
         process = "running" => hooked \/ disk[start] = "absent"
  PROVE  LoaderInv'
<1>1. TypeOK'
  <2>1. failures' \in Seq(Statements)
    BY AppendFailure
  <2>2. told' \in [thrown : Statements \cup {Nothing}, suppressed : SUBSET Statements]
    <3>1. told' = outcome
      BY DEF Throws
    <3>2. CASE \E a \in Statements : failures' = <<a>> /\ outcome = Use!Outcome(a, {})
      BY <3>1, <3>2, OutcomeType
    <3>3. CASE \E a, b \in Statements :
                 failures' = <<a, b>> /\ outcome = Use!Outcome(a, {b})
      <4>1. PICK a \in Statements, b \in Statements : outcome = Use!Outcome(a, {b})
        BY <3>3
      <4> QED
        BY <3>1, <4>1, OutcomeType
    <3> QED
      BY <3>2, <3>3
  <2> QED
    BY <2>1, <2>2 DEF LoaderInv, TypeOK, Throws
<1>2. Initialized'
  BY DEF Initialized, Throws
<1>3. (Extracting /\ Untouched /\ Served)'
  BY DEF LoaderInv, Extracting, Untouched, Served, Throws
<1>4. (Endings /\ LitterExplained)'
  BY DEF LoaderInv, Endings, LitterExplained, Throws
<1> QED
  BY <1>1, <1>2, <1>3, <1>4 DEF LoaderInv

(* A statement outside use() that throws ends the initialiser.             *)
LEMMA FailsKeepsLoaderInv ==
  ASSUME LoaderInv,
         NEW s \in {"getResource", "createTempFile", "deleteOnExit", "openStream", "load"},
         s = "deleteOnExit" => process = "exiting",
         Fails(s)
  PROVE  LoaderInv'
<1>1. /\ process # "down" /\ pc = s /\ class = "initializing" /\ s \in Statements
      /\ failures' = Append(failures, s) /\ Throws(Use!Outcome(s, {}))
  BY DEF LoaderInv, TypeOK, Fails, At, Statements
<1>2. failures = <<>>
  BY <1>1 DEF LoaderInv, Extracting
<1>3. failures' = <<s>>
  BY <1>1, <1>2, AppendFailure
<1>4. process = "running" => hooked \/ disk[start] = "absent"
  BY <1>1 DEF LoaderInv, Extracting
<1> QED
  BY <1>1, <1>3, <1>4, ThrowKeepsLoaderInv

(* A throwing copy leaves the file and goes on to close().                 *)
LEMMA BlockFailsKeepsLoaderInv ==
  ASSUME LoaderInv, blockFails
  PROVE  LoaderInv'
<1>1. /\ pc \in {"replace", "copy"} /\ pc \in Statements /\ pc # Nothing
      /\ class = "initializing" /\ failures = <<>>
  BY DEF LoaderInv, TypeOK, Extracting, blockFails, At, Statements, Nothing
<1>2. failures' = <<pc>> /\ failures' \in Seq(Statements)
  BY <1>1, AppendFailure DEF blockFails
<1>3. TypeOK'
  BY <1>1, <1>2 DEF LoaderInv, TypeOK, blockFails, Statements
<1>4. Extracting'
  BY <1>1, <1>2 DEF LoaderInv, Extracting, blockFails
<1>5. (Initialized /\ Untouched /\ Served /\ Endings /\ LitterExplained)'
  BY <1>1 DEF LoaderInv, Initialized, Untouched, Served, Endings, LitterExplained, blockFails
<1> QED
  BY <1>3, <1>4, <1>5 DEF LoaderInv

(* close() goes on to System.load, or rethrows what the block or it threw. *)
LEMMA CloseKeepsLoaderInv ==
  ASSUME LoaderInv, close
  PROVE  LoaderInv'
<1>1. PICK thrown \in {Nothing, "close"} :
        /\ failures' = IF thrown = Nothing THEN failures ELSE Append(failures, thrown)
        /\ IF Use!use(block, thrown).thrown = Nothing
           THEN /\ pc' = "load"
                /\ UNCHANGED <<process, start, class, user, block, told,
                               hooked, disk, library, ended>>
           ELSE Throws(Use!use(block, thrown))
  BY DEF close
<1>2. /\ process # "down" /\ pc = "close" /\ class = "initializing"
      /\ block \in {Nothing, "replace", "copy"}
      /\ "close" \in Statements /\ "close" # Nothing
      /\ "replace" \in Statements /\ "replace" # Nothing
      /\ "copy" \in Statements /\ "copy" # Nothing
      /\ failures = IF block = Nothing THEN <<>> ELSE <<block>>
      /\ process = "running" => hooked
  BY DEF LoaderInv, TypeOK, Extracting, close, At, Statements, Nothing
<1>3. CASE block = Nothing /\ thrown = Nothing
  <2>1. Use!use(block, thrown).thrown = Nothing
    BY <1>3, UseOutcomes
  <2>2. failures' = <<>> /\ pc' = "load"
    BY <1>1, <1>2, <1>3, <2>1
  <2> QED
    BY <1>1, <1>2, <1>3, <2>1, <2>2
       DEF LoaderInv, TypeOK, Extracting, Initialized, Untouched, Served, Endings,
           LitterExplained, Statements
<1>4. CASE block = Nothing /\ thrown # Nothing
  <2>1. Use!use(block, thrown) = Use!Outcome("close", {})
    BY <1>1, <1>4, UseOutcomes
  <2>2. Throws(Use!Outcome("close", {})) /\ failures' = <<"close">>
    BY <1>1, <1>2, <1>4, <2>1, UseOutcomes, AppendFailure
  <2> QED
    BY <1>2, <2>2, ThrowKeepsLoaderInv
<1>5. CASE block # Nothing /\ thrown = Nothing
  <2>1. Use!use(block, thrown) = Use!Outcome(block, {})
    BY <1>5, UseOutcomes
  <2>2. Throws(Use!Outcome(block, {})) /\ failures' = <<block>>
    BY <1>1, <1>2, <1>5, <2>1, UseOutcomes
  <2>3. block \in Statements
    BY <1>2, <1>5
  <2> QED
    BY <1>2, <2>2, <2>3, ThrowKeepsLoaderInv
<1>6. CASE block # Nothing /\ thrown # Nothing
  <2>1. Use!use(block, thrown) = Use!Outcome(block, {"close"})
    BY <1>1, <1>6, UseOutcomes
  <2>2. block \in Statements
    BY <1>2, <1>6
  <2>3. Throws(Use!Outcome(block, {"close"})) /\ failures' = <<block, "close">>
    BY <1>1, <1>2, <1>6, <2>1, <2>2, UseOutcomes, AppendFailure
  <2> QED
    BY <1>2, <2>2, <2>3, ThrowKeepsLoaderInv
<1> QED
  BY <1>3, <1>4, <1>5, <1>6

(* The users of the class, the end of the initialiser and of the program.  *)
LEMMA OtherStepKeepsLoaderInv ==
  ASSUME LoaderInv,
         \/ \E t \in Threads : call(t) \/ answer(t)
         \/ load \/ exit \/ halt \/ kill
  PROVE  LoaderInv'
<1> USE LoaderAssumption
    DEF LoaderInv, TypeOK, Extracting, Initialized, Untouched, Served, Endings,
              LitterExplained, Runs, Statements, Nothing, Contents,
        run
<1>1. ASSUME NEW t \in Threads, call(t) PROVE LoaderInv'
  BY <1>1 DEF call
<1>2. ASSUME NEW t \in Threads, answer(t) PROVE LoaderInv'
  BY <1>2 DEF answer
<1>3. CASE load
  BY <1>3 DEF load, At, Use!Outcome
<1>4. CASE exit
  BY <1>4 DEF exit
<1>5. CASE halt
  BY <1>5 DEF halt
<1>6. CASE kill
  BY <1>6 DEF kill
<1> QED
  BY <1>1, <1>2, <1>3, <1>4, <1>5, <1>6

(* The next run starts afresh and records how the last one has ended.      *)
LEMMA RestartKeepsLoaderInv ==
  ASSUME LoaderInv, restart
  PROVE  LoaderInv'
<1>1. /\ start \in Runs /\ start' \in Runs /\ start' > start
      /\ ended[start'] = "no" /\ disk[start'] = "absent"
  BY LoaderAssumption DEF LoaderInv, TypeOK, Endings, restart, Runs
<1>2. TypeOK'
  <2>1. failures' \in Seq(Statements)
    BY DEF restart
  <2>2. told' \in [thrown : Statements \cup {Nothing}, suppressed : SUBSET Statements]
    BY OutcomeType DEF restart
  <2>3. user' \in [Threads -> {"idle", "waiting", "served", "refused"}]
    BY DEF restart
  <2> QED
    BY <1>1, <2>1, <2>2, <2>3 DEF LoaderInv, TypeOK, restart, Contents, Runs
<1>3. (Extracting /\ Initialized /\ Untouched /\ Served)'
  BY <1>1 DEF Extracting, Initialized, Untouched, Served, restart
<1>4. (Endings /\ LitterExplained)'
  BY <1>1, LoaderAssumption DEF LoaderInv, TypeOK, Endings, LitterExplained, restart, Runs
<1> QED
  BY <1>2, <1>3, <1>4 DEF LoaderInv

(* Every step of the loader keeps the invariant.                           *)
LEMMA NextKeepsLoaderInv == LoaderInv /\ [Next]_vars => LoaderInv'
<1> SUFFICES ASSUME LoaderInv, [Next]_vars PROVE LoaderInv'
  OBVIOUS
<1>1. CASE loadNativeLibrary
  BY <1>1, StatementKeepsLoaderInv, FailsKeepsLoaderInv, BlockFailsKeepsLoaderInv,
     CloseKeepsLoaderInv, OtherStepKeepsLoaderInv DEF loadNativeLibrary
<1>2. CASE \/ \E t \in Threads : call(t) \/ answer(t)
           \/ exit \/ halt \/ kill
  BY <1>2, OtherStepKeepsLoaderInv
<1>3. CASE restart
  BY <1>3, RestartKeepsLoaderInv
<1>4. CASE UNCHANGED vars
  <2>1. (TypeOK /\ Extracting)'
    BY <1>4 DEF vars, run, LoaderInv, TypeOK, Extracting
  <2>2. (Initialized /\ Untouched)'
    BY <1>4 DEF vars, run, LoaderInv, Initialized, Untouched
  <2>3. (Served /\ Endings /\ LitterExplained)'
    BY <1>4 DEF vars, run, LoaderInv, Served, Endings, LitterExplained
  <2> QED
    BY <2>1, <2>2, <2>3 DEF LoaderInv
<1> QED
  BY <1>1, <1>2, <1>3, <1>4 DEF Next

(* The invariant holds for any number of threads and of runs.              *)
LEMMA LoaderInvariant == Spec => []LoaderInv
  BY InitLoaderInv, NextKeepsLoaderInv, PTL DEF Spec

(* Every variable of the loader keeps its type, and the initialiser runs   *)
(* exactly while the class is being initialised.                           *)
THEOREM LoaderTypes == Spec => []TypeOK
<1>1. LoaderInv => TypeOK
  BY DEF LoaderInv
<1> QED
  BY <1>1, LoaderInvariant, PTL

(* Nobody uses AvifDecoder unless System.load has mapped a whole library,  *)
(* whichever statements of loadNativeLibrary fail.                         *)
THEOREM WholeLibraryServes == Spec => []ServedByWholeLibrary
<1>1. LoaderInv => ServedByWholeLibrary
  BY DEF LoaderInv, Served, Initialized, ServedByWholeLibrary
<1> QED
  BY <1>1, LoaderInvariant, PTL

(* The exception of the initialiser accounts for every call that failed.   *)
THEOREM NoFailureLost == Spec => []FailuresTold
<1>1. LoaderInv => FailuresTold
  <2> SUFFICES ASSUME LoaderInv, class \in {"ready", "erroneous"}, failures # <<>>
               PROVE  /\ told.thrown = Head(failures)
                      /\ told.suppressed = {failures[i] : i \in 2 .. Len(failures)}
    <3>1. \A a, b \in Statements : <<a>> # <<>> /\ <<a, b>> # <<>>
      OBVIOUS
    <3> QED
      BY <3>1 DEF LoaderInv, Initialized, FailuresTold
  <2>1. CASE \E a \in Statements : failures = <<a>> /\ told = Use!Outcome(a, {})
    BY <2>1 DEF Use!Outcome
  <2>2. CASE \E a, b \in Statements : failures = <<a, b>> /\ told = Use!Outcome(a, {b})
    BY <2>2 DEF Use!Outcome
  <2> QED
    BY <2>1, <2>2 DEF LoaderInv, Initialized
<1> QED
  BY <1>1, LoaderInvariant, PTL

(* A run that exits after the initialisation leaves no temporary file.     *)
THEOREM NoLitter == Spec => []LitterExplained
<1>1. LoaderInv => LitterExplained
  BY DEF LoaderInv
<1> QED
  BY <1>1, LoaderInvariant, PTL
===============================================================================
