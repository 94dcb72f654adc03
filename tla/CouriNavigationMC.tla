------------------------- MODULE CouriNavigationMC -------------------------
(***************************************************************************)
(* A library of three restaurants, the smallest that has every case of the *)
(* shipped one: a menu of two items, a menu of one, and no menu at all     *)
(* (Cupcakin' and Gypsy's); the first two differ in price and in the       *)
(* number of categories.                                                   *)
(***************************************************************************)
EXTENDS CouriNavigation, TLC

CONSTANTS tapioca, sliver, gypsys, ribs, tea, pepperoni

MCRestaurant == {tapioca, sliver, gypsys}
MCRestaurants == <<tapioca, sliver, gypsys>>
MCItem == {ribs, tea, pepperoni}
MCMenu == tapioca :> <<ribs, tea>> @@ sliver :> <<pepperoni>> @@ gypsys :> <<>>
MCPrice == ribs :> 995 @@ tea :> 350 @@ pepperoni :> 859
MCCategories == tapioca :> 2 @@ sliver :> 1 @@ gypsys :> 1
=============================================================================
