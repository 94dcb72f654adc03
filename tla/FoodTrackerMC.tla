---------------------------- MODULE FoodTrackerMC ----------------------------
(***************************************************************************)
(* FoodTracker with two names, two photos and two stars.  The list starts  *)
(* with one meal of the highest rating and one without any, so that rows   *)
(* can be told apart, and may be emptied and refilled.                     *)
(***************************************************************************)
EXTENDS FoodTracker

CONSTANTS salad, pasta, noPhoto, meal1

MCName == {salad, pasta}
MCPhoto == {noPhoto, meal1}
MCSampleMeals ==
  <<[name |-> salad, photo |-> meal1, rating |-> 2],
    [name |-> pasta, photo |-> noPhoto, rating |-> 0]>>
=============================================================================
