-------------------------- MODULE MenuDetailProofs --------------------------
(***************************************************************************)
(* What holds of the order screen for every library and every bound.       *)
(***************************************************************************)
EXTENDS MenuDetail, TLAPS

(***************************************************************************)
(* A screen that has just been loaded is well typed and consistent.        *)
(***************************************************************************)
LEMMA LoadedGood ==
  ASSUME NEW i \in Item
  PROVE  Loaded(i) \in Order /\ Consistent(Loaded(i)) /\ TotalNotStale(Loaded(i))
  <1>1. Price[i] \in Nat
    BY PriceAssumption
  <1>2. Loaded(i) \in Order
    BY <1>1 DEF Loaded, Order
  <1>3. Consistent(Loaded(i)) /\ TotalNotStale(Loaded(i))
    BY <1>1 DEF Loaded, Consistent, TotalNotStale
  <1> QED
    BY <1>2, <1>3

(***************************************************************************)
(* Both buttons keep a screen well typed and consistent, and bring the     *)
(* stored total up to date.                                                *)
(***************************************************************************)
LEMMA IncreasedGood ==
  ASSUME NEW o \in Order, Consistent(o)
  PROVE  /\ Increased(o) \in Order
         /\ Consistent(Increased(o))
         /\ Increased(o).updatedOrderPrice = Increased(o).priceLabelSimple
  <1> DEFINE n == o.itemCount + 1
  <1>1. /\ n \in Nat \ {0} /\ n > 1 /\ n * o.orderPrice \in Nat
    BY DEF Order
  <1>2. Increased(o) = [o EXCEPT !.itemCount = n, !.countLabel = n,
                                 !.updatedOrderPrice = n * o.orderPrice,
                                 !.priceLabelSimple = n * o.orderPrice,
                                 !.minusColor = "black"]
    BY DEF Increased
  <1> HIDE DEF n
  <1>3. Increased(o) \in Order
    BY <1>1, <1>2 DEF Order
  <1>4. Consistent(Increased(o))
    BY <1>1, <1>2 DEF Order, Consistent
  <1> QED
    BY <1>2, <1>3, <1>4 DEF Order

LEMMA DecreasedGood ==
  ASSUME NEW o \in Order, Consistent(o)
  PROVE  /\ Decreased(o) \in Order
         /\ Consistent(Decreased(o))
         /\ Decreased(o).updatedOrderPrice = Decreased(o).priceLabelSimple
  <1>1. CASE o.itemCount > 2
    <2> DEFINE n == o.itemCount - 1
    <2>1. n \in Nat \ {0} /\ n > 1 /\ o.orderPrice * n \in Nat
          /\ o.orderPrice * n = n * o.orderPrice
      BY <1>1 DEF Order, Consistent
    <2>2. Decreased(o) = [o EXCEPT !.itemCount = n, !.countLabel = n,
                                   !.updatedOrderPrice = o.orderPrice * n,
                                   !.priceLabelSimple = o.orderPrice * n]
      BY <1>1 DEF Decreased, Lowered
    <2>3. o.minusColor = "black"
      BY <1>1 DEF Order, Consistent
    <2> HIDE DEF n
    <2>4. Decreased(o) \in Order
      BY <2>1, <2>2 DEF Order
    <2>5. Consistent(Decreased(o))
      BY <2>1, <2>2, <2>3 DEF Order, Consistent
    <2> QED
      BY <2>2, <2>4, <2>5 DEF Order
  <1>2. CASE ~(o.itemCount > 2)
    <2>1. Decreased(o) = Reset(o)
      BY <1>2 DEF Decreased
    <2>2. 1 * o.orderPrice = o.orderPrice /\ 1 \in Nat \ {0}
      BY DEF Order
    <2>3. Reset(o) \in Order
      BY <2>2 DEF Reset, Order
    <2>4. /\ Reset(o).item = o.item /\ Reset(o).itemCount = 1
          /\ Reset(o).countLabel = 1 /\ Reset(o).orderPrice = o.orderPrice
          /\ Reset(o).updatedOrderPrice = o.orderPrice
          /\ Reset(o).priceLabelSimple = o.orderPrice
          /\ Reset(o).minusColor = "gray"
      BY DEF Reset, Order
    <2>5. Consistent(Reset(o))
      BY <2>2, <2>4 DEF Consistent
    <2> QED
      BY <2>1, <2>3, <2>4, <2>5
  <1> QED
    BY <1>1, <1>2

-----------------------------------------------------------------------------
ScreenInv == TypeOK /\ ScreenConsistent /\ ChargeNotStale

(***************************************************************************)
(* In every reachable state the labels, the count, the price and the minus *)
(* button of an order screen agree, and the stored total is stale only on  *)
(* an untouched screen.                                                    *)
(***************************************************************************)
THEOREM ScreenSafe == Spec => []ScreenInv
  <1> USE DEF ScreenInv, TypeOK, ScreenConsistent, ChargeNotStale
  <1>1. Init => ScreenInv
    BY LoadedGood DEF Init
  <1>2. ScreenInv /\ [Next]_order => ScreenInv'
    <2> SUFFICES ASSUME ScreenInv, [Next]_order
                 PROVE  ScreenInv'
      OBVIOUS
    <2>1. CASE increaseCount
      BY <2>1, IncreasedGood DEF increaseCount, TotalNotStale
    <2>2. CASE decreaseCount
      BY <2>2, DecreasedGood DEF decreaseCount, TotalNotStale
    <2>3. CASE UNCHANGED order
      BY <2>3
    <2> QED
      BY <2>1, <2>2, <2>3 DEF Next
  <1> QED
    BY <1>1, <1>2, PTL DEF Spec

(***************************************************************************)
(* For every library and every number of taps: the labels, the count, the  *)
(* price and the look of the minus button agree.                           *)
(***************************************************************************)
THEOREM ScreenStaysConsistent == Spec => []ScreenConsistent
  BY ScreenSafe, PTL DEF ScreenInv

(***************************************************************************)
(* For every library: the stored total is the price shown, or it is still  *)
(* 0 on a screen whose count is one.                                       *)
(***************************************************************************)
THEOREM ChargeIsShown == Spec => []ChargeNotStale
  BY ScreenSafe, PTL DEF ScreenInv

(***************************************************************************)
(* From every reachable screen a tap on "+" followed by a tap on "-" shows *)
(* the same screen again.                                                  *)
(***************************************************************************)
THEOREM PlusThenMinus == Spec => []MinusUndoesPlus
  <1>1. ScreenInv => MinusUndoesPlus
    <2> SUFFICES ASSUME order \in Order, Consistent(order)
                 PROVE  Shown(Decreased(Increased(order))) = Shown(order)
      BY DEF ScreenInv, TypeOK, ScreenConsistent, MinusUndoesPlus
    <2> DEFINE p == Increased(order)
    <2>1. /\ p \in Order
          /\ p.item = order.item /\ p.itemCount = order.itemCount + 1
          /\ p.orderPrice = order.orderPrice /\ p.minusColor = "black"
      BY IncreasedGood DEF Increased, Order
    <2>2. /\ order.itemCount \in Nat /\ order.itemCount >= 1
          /\ order.orderPrice \in Nat
          /\ order.countLabel = order.itemCount
          /\ order.priceLabelSimple = order.itemCount * order.orderPrice
          /\ order.minusColor \in {"gray", "black"}
          /\ order.minusColor = IF order.itemCount = 1 THEN "gray" ELSE "black"
      BY DEF Order, Consistent
    <2> HIDE DEF p
    <2>3. CASE order.itemCount > 1
      <3>1. p.itemCount > 2 /\ p.itemCount - 1 = order.itemCount
        BY <2>1, <2>2, <2>3
      <3>2. Decreased(p) = Lowered(p)
        BY <3>1 DEF Decreased
      <3>3. /\ Lowered(p).item = order.item
            /\ Lowered(p).countLabel = order.itemCount
            /\ Lowered(p).priceLabelSimple = order.orderPrice * order.itemCount
            /\ Lowered(p).minusColor = "black"
        BY <3>1, <2>1 DEF Lowered, Order
      <3>4. order.orderPrice * order.itemCount = order.itemCount * order.orderPrice
        BY <2>2
      <3> QED
        BY <2>2, <2>3, <3>2, <3>3, <3>4 DEF Shown, p
    <2>4. CASE order.itemCount = 1
      <3>1. Decreased(p) = Reset(p)
        BY <2>1, <2>4 DEF Decreased
      <3>2. /\ Reset(p).item = order.item /\ Reset(p).countLabel = 1
            /\ Reset(p).priceLabelSimple = order.orderPrice
            /\ Reset(p).minusColor = "gray"
        BY <2>1 DEF Reset, Order
      <3>3. order.priceLabelSimple = order.orderPrice
        BY <2>2, <2>4
      <3> QED
        BY <2>2, <2>4, <3>1, <3>2, <3>3 DEF Shown, p
    <2> QED
      BY <2>2, <2>3, <2>4
  <1> QED
    BY <1>1, ScreenSafe, PTL
=============================================================================
