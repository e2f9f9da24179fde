------------------------------- MODULE Slideshow -------------------------------
(***************************************************************************)
(* What the players of App.kt promise, without decoders, frames, calls and *)
(* the collector: a player opens its image, shows frames in their order    *)
(* and ends, at any moment, with its image closed.  Playback implements    *)
(* it.                                                                     *)
(***************************************************************************)
EXTENDS Integers

CONSTANTS
  Players,
  Looping,     \* the players of an animation; the others show one frame
  FrameCount   \* the frames of an image

VARIABLES
  shown,  \* the frame each player shows, -1 before the first one
  open,   \* players whose image is open
  over    \* players that have ended

vars == <<shown, open, over>>

Init ==
  /\ shown = [p \in Players |-> -1]
  /\ open = {}
  /\ over = {}

Open(p) ==
  /\ p \notin open \cup over
  /\ open' = open \cup {p}
  /\ UNCHANGED <<shown, over>>

(* The next frame or, in a loop, the first one again.                      *)
Show(p) ==
  /\ p \in open
  /\ \/ shown[p] + 1 < FrameCount /\ shown' = [shown EXCEPT ![p] = @ + 1]
     \/ p \in Looping /\ shown' = [shown EXCEPT ![p] = 0]
  /\ p \notin Looping => shown[p] = -1
  /\ UNCHANGED <<open, over>>

End(p) ==
  /\ p \notin over
  /\ open' = open \ {p}
  /\ over' = over \cup {p}
  /\ UNCHANGED shown

Next == \E p \in Players : Open(p) \/ Show(p) \/ End(p)

Spec == Init /\ [][Next]_vars
================================================================================
