------------------------------- MODULE PageTurn --------------------------------
(***************************************************************************)
(* What the container of the reader expects of a page effect. The effect   *)
(* asks the data source for the page before or after the recorded one, and *)
(* tells the delegate that the turn has ended: on the page it asked for,   *)
(* or on the one it started from. A turn without animation is one step.    *)
(* Pages are numbered through the book, across its chapters.               *)
(***************************************************************************)
EXTENDS Integers

CONSTANTS
  LastPage,   (* the pages of the book are 0..LastPage *)
  NoPage      (* nothing is asked for                  *)

Pages == 0..LastPage

VARIABLES
  place,   (* the recorded page                        *)
  asked    (* the page a turn in progress asked for    *)

vars == <<place, asked>>

Beside(p) == {p - 1, p + 1} \cap Pages

Init == place \in Pages /\ asked = NoPage

\* A gesture asks for a page; a second request replaces the first.
Ask == asked' \in Beside(place) /\ UNCHANGED place

Arrive == asked # NoPage /\ place' = asked /\ asked' = NoPage

Return == asked # NoPage /\ asked' = NoPage /\ UNCHANGED place

\* Asked and arrived at once
Step == asked = NoPage /\ place' \in Beside(place) /\ UNCHANGED asked

Next == Ask \/ Arrive \/ Return \/ Step

\* Every turn ends: an animation comes to its end, a finger leaves the screen.
Spec == Init /\ [][Next]_vars /\ WF_vars(Arrive \/ Return)
================================================================================
