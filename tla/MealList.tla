------------------------------ MODULE MealList ------------------------------
(***************************************************************************)
(* What FoodTracker promises about the list of meals: a meal is changed    *)
(* only by saving the screen it was opened on, a new one only goes to the  *)
(* end, and everything else but a deletion leaves the list alone.          *)
(***************************************************************************)
EXTENDS Naturals, Sequences

CONSTANTS Meal

VARIABLES meals,
          opened   \* "none", "new", or the index of the meal on the screen

list == <<meals, opened>>

Without(s, k) ==
  [j \in 1..(Len(s) - 1) |-> IF j < k THEN s[j] ELSE s[j + 1]]

Init == meals \in Seq(Meal) /\ opened = <<"none">>

OpenNew == opened = <<"none">> /\ opened' = <<"new">> /\ UNCHANGED meals

Open(k) ==
  /\ opened = <<"none">> /\ opened' = <<"meal", k>>
  /\ UNCHANGED meals

Discard == opened # <<"none">> /\ opened' = <<"none">> /\ UNCHANGED meals

SaveNew(m) ==
  /\ opened = <<"new">> /\ opened' = <<"none">>
  /\ meals' = Append(meals, m)

SaveOver(k, m) ==
  /\ opened = <<"meal", k>> /\ opened' = <<"none">>
  /\ meals' = [meals EXCEPT ![k] = m]

Delete(k) ==
  /\ opened = <<"none">> /\ UNCHANGED opened
  /\ meals' = Without(meals, k)

Next ==
  \/ OpenNew \/ Discard
  \/ \E m \in Meal : SaveNew(m)
  \/ \E k \in DOMAIN meals :
       Open(k) \/ Delete(k) \/ \E m \in Meal : SaveOver(k, m)

Spec == Init /\ [][Next]_list
=============================================================================
