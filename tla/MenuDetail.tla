----------------------------- MODULE MenuDetail -----------------------------
(***************************************************************************)
(* The order screen of one menu item (Couri/Order/MenuDetailVC.swift).     *)
(*                                                                         *)
(* `order' is the view controller: the stored properties it computes with  *)
(* (item, itemCount, orderPrice, updatedOrderPrice) and the three views    *)
(* the user reads (the count label, the price on the "Add to Order" button *)
(* and the colour of the minus button).  Prices are Doubles printed with   *)
(* "%.2f" in the code; here they are cents, which is what the two digits   *)
(* show for every count a user can reach.                                  *)
(***************************************************************************)
EXTENDS Naturals

CONSTANTS Item,      \* the MenuItem objects of the library
          Price,     \* itemPrice of each of them, in cents
          MaxCount   \* bound: taps on "+" stop here, so that TLC terminates

ASSUME PriceAssumption == Price \in [Item -> Nat]
ASSUME MaxCountAssumption == MaxCount \in Nat \ {0}

VARIABLE order

\* The view controllers a MenuDetailVC may be.
Order ==
  [item : Item, itemCount : Nat \ {0}, orderPrice : Nat, updatedOrderPrice : Nat,
   countLabel : Nat \ {0}, priceLabelSimple : Nat, minusColor : {"gray", "black"}]

\* What viewDidLoad and setupViews leave: updatedOrderPrice keeps the 0 of
\* Double(), because only the two buttons ever assign it.
Loaded(i) ==
  [item |-> i, itemCount |-> 1, orderPrice |-> Price[i],
   updatedOrderPrice |-> 0, countLabel |-> 1,
   priceLabelSimple |-> Price[i], minusColor |-> "gray"]

IncreasedLabelOnly(o) ==
  LET n == o.itemCount + 1 IN
  [o EXCEPT !.itemCount = n, !.countLabel = n,
            !.priceLabelSimple = n * o.orderPrice,
            !.minusColor = "black"]

Increased(o) ==
  LET n == o.itemCount + 1 IN
  [o EXCEPT !.itemCount = n, !.countLabel = n,
            !.updatedOrderPrice = n * o.orderPrice,
            !.priceLabelSimple = n * o.orderPrice,
            !.minusColor = "black"]

Lowered(o) ==
  LET n == o.itemCount - 1 IN
  [o EXCEPT !.itemCount = n, !.countLabel = n,
            !.updatedOrderPrice = o.orderPrice * n,
            !.priceLabelSimple = o.orderPrice * n]

Reset(o) ==
  [o EXCEPT !.itemCount = 1, !.countLabel = 1,
            !.updatedOrderPrice = o.orderPrice,
            !.priceLabelSimple = o.orderPrice,
            !.minusColor = "gray"]

DecreasedFromOne(o) == IF o.itemCount > 1 THEN Lowered(o) ELSE Reset(o)

DecreasedFromThree(o) == IF o.itemCount > 3 THEN Lowered(o) ELSE Reset(o)

\* Only the last branch makes the minus button gray again.
Decreased(o) == IF o.itemCount > 2 THEN Lowered(o) ELSE Reset(o)
-----------------------------------------------------------------------------
Init == \E i \in Item : order = Loaded(i)

increaseCount == order.itemCount < MaxCount /\ order' = Increased(order)

decreaseCount == order' = Decreased(order)

Next == increaseCount \/ decreaseCount

Spec == Init /\ [][Next]_order
-----------------------------------------------------------------------------
\* The order screen keeps the types its Swift properties and views have.
TypeOK == order \in Order

(***************************************************************************)
(* What an order screen shows is consistent: the labels are the stored     *)
(* count and the count times the price of its item, and minus is gray      *)
(* exactly at one.  increaseCount and the two branches of decreaseCount    *)
(* assign different views, the colour in only two of the three places.     *)
(***************************************************************************)
Consistent(o) ==
  /\ o.orderPrice = Price[o.item]
  /\ o.countLabel = o.itemCount
  /\ o.priceLabelSimple = o.itemCount * o.orderPrice
  /\ o.minusColor = IF o.itemCount = 1 THEN "gray" ELSE "black"

ScreenConsistent == Consistent(order)

(***************************************************************************)
(* The stored total (updatedOrderPrice, what an order would be charged)    *)
(* differs from the price shown only on a screen no button of which was    *)
(* tapped: then it is the initial 0 and the count is still one.            *)
(***************************************************************************)
TotalNotStale(o) ==
  o.updatedOrderPrice # o.priceLabelSimple =>
    o.updatedOrderPrice = 0 /\ o.itemCount = 1

ChargeNotStale == TotalNotStale(order)

(***************************************************************************)
(* A tap on "+" by mistake is undone by one tap on "-": the screen shows   *)
(* the same item, count, price and button colour again.  The threshold of  *)
(* decreaseCount (itemCount > 2) and its reset branch have to meet for it. *)
(***************************************************************************)
Shown(o) == <<o.item, o.countLabel, o.priceLabelSimple, o.minusColor>>

MinusUndoesPlus == Shown(Decreased(Increased(order))) = Shown(order)
=============================================================================
