------------------------------- MODULE UseBlock -------------------------------
(***************************************************************************)
(* use() of Closeable.kt: run a block, close the receiver, and make one    *)
(* outcome of the two.  An outcome is what was thrown and what was added   *)
(* to it as suppressed; Nothing when the function returned a value.        *)
(***************************************************************************)
CONSTANT Nothing  \* no exception

Outcome(thrown, suppressed) == [thrown |-> thrown, suppressed |-> suppressed]

(* Faulty variant of use: the exception of close() is the one thrown.      *)
useLastWins(block, close) ==
  IF block # Nothing /\ close # Nothing THEN Outcome(close, {block})
  ELSE Outcome(IF block # Nothing THEN block ELSE close, {})

(* Faulty variant of use: a close() that succeeds hides the failure.       *)
useForgets(block, close) == Outcome(close, {})

(***************************************************************************)
(* block and close: what each of them throws.  The first exception is      *)
(* rethrown and carries the second one.  (A block that returns null fails  *)
(* in result!!, after close(); no block of this project returns null.)     *)
(***************************************************************************)
use(block, close) ==
  IF block # Nothing /\ close # Nothing THEN Outcome(block, {close})
  ELSE Outcome(IF block # Nothing THEN block ELSE close, {})
===============================================================================
