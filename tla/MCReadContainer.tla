---------------------------- MODULE MCReadContainer ----------------------------
(***************************************************************************)
(* Books for TLC. A change of the style moves the limits of the pages and  *)
(* changes their number, and the pages of the chapters differ in length.   *)
(***************************************************************************)
EXTENDS ReadContainer, TLC

MCStyles == {"small", "large"}

MCTextLength == 0 :> 4 @@ 1 :> 2 @@ 2 :> 3 @@ 3 :> 4

MCPageStarts ==
  [small |-> 0 :> <<0, 1, 2>> @@ 1 :> <<0>> @@ 2 :> <<0, 1>> @@ 3 :> <<0>>,
   large |-> 0 :> <<0>>       @@ 1 :> <<0>> @@ 2 :> <<0>>    @@ 3 :> <<0, 3>>]

\* A book of one chapter: the slider and the buttons of the menu move by pages.
OneTextLength == 0 :> 6

OnePageStarts == [small |-> 0 :> <<0, 2, 4>>, large |-> 0 :> <<0>>]
================================================================================
