---------------------------- MODULE RatingControl ----------------------------
(***************************************************************************)
(* The row of star buttons of FoodTracker (RatingControl.swift), shown by  *)
(* every cell of the meal list and by the meal screen.                     *)
(*                                                                         *)
(* A control is its rating and what the buttons show: which are selected   *)
(* (drawn as filled stars) and which carry the accessibility hint "Tap to  *)
(* reset the rating to zero.".  Button k stands for ratingButtons[k - 1].  *)
(***************************************************************************)
EXTENDS Naturals

CONSTANT StarCount      \* starCount, 5: the storyboard leaves it alone

ASSUME StarCountAssumption == StarCount \in Nat

Stars == 1..StarCount

Control == [rating : 0..StarCount, selected : SUBSET Stars, hinted : SUBSET Stars]

HintsNext(n) ==
  [rating |-> n, selected |-> {k \in Stars : k - 1 < n},
   hinted |-> {k \in Stars : n = k - 1}]

\* updateButtonSelectionStates, which every assignment to rating runs; with
\* n = 0 it is also the control setupButtons leaves.
Showing(n) ==
  [rating |-> n, selected |-> {k \in Stars : k - 1 < n},
   hinted |-> {k \in Stars : n = k}]

TappedNext(c, k) == Showing(IF k = c.rating THEN 0 ELSE k + 1)

\* ratingButtonTapped: the star of the current rating clears it.
Tapped(c, k) == Showing(IF k = c.rating THEN 0 ELSE k)

\* The hint tells what the next tap on its star does.
HintHonest(c) == \A k \in Stars : k \in c.hinted <=> Tapped(c, k).rating = 0
=============================================================================
