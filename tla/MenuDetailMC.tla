---------------------------- MODULE MenuDetailMC ----------------------------
(***************************************************************************)
(* Instance of MenuDetail for TLC: three items with two different prices   *)
(* of the library (MenuItem.swift) and one that is free, so that a total   *)
(* of zero and an unset total cannot be told apart by luck.                *)
(***************************************************************************)
EXTENDS MenuDetail, TLC

CONSTANTS thaiTea, pepperoni, sample

MCItem == {thaiTea, pepperoni, sample}
MCPrice == thaiTea :> 350 @@ pepperoni :> 859 @@ sample :> 0
=============================================================================
