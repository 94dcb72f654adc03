------------------------------ MODULE OrderFlow ------------------------------
(***************************************************************************)
(* What the shopping screens promise, without screens: a customer enters a *)
(* restaurant, picks an item of its menu, changes the quantity and sees    *)
(* the total, and goes back; a balance transfer can be opened at any       *)
(* moment and, once closed, leaves everything as it was.                   *)
(*                                                                         *)
(* CouriNavigation implements this with a navigation stack, three tables   *)
(* that remember a selected row each, and a side menu in a window overlay. *)
(***************************************************************************)
EXTENDS Naturals

CONSTANTS Restaurant, Item, None,
          MenuOf,     \* the items each restaurant sells
          Price       \* in cents

VARIABLES restaurant,    \* the restaurant entered, or None
          item,          \* the item being ordered, or None
          quantity, total,
          transferring   \* the transfer screen is open

flow == <<restaurant, item, quantity, total, transferring>>

Init ==
  /\ restaurant = None /\ item = None
  /\ quantity = 0 /\ total = 0
  /\ transferring = FALSE

EnterRestaurant(r) ==
  /\ ~transferring /\ restaurant = None
  /\ restaurant' = r
  /\ UNCHANGED <<item, quantity, total, transferring>>

LeaveRestaurant ==
  /\ ~transferring /\ restaurant # None /\ item = None
  /\ restaurant' = None
  /\ UNCHANGED <<item, quantity, total, transferring>>

PickItem(i) ==
  /\ ~transferring /\ restaurant # None /\ item = None
  /\ i \in MenuOf[restaurant]
  /\ item' = i /\ quantity' = 1 /\ total' = Price[i]
  /\ UNCHANGED <<restaurant, transferring>>

ChangeQuantity(q) ==
  /\ ~transferring /\ item # None
  /\ q > 0 /\ (q = quantity + 1 \/ q + 1 = quantity)
  /\ quantity' = q /\ total' = q * Price[item]
  /\ UNCHANGED <<restaurant, item, transferring>>

LeaveItem ==
  /\ ~transferring /\ item # None
  /\ item' = None /\ quantity' = 0 /\ total' = 0
  /\ UNCHANGED <<restaurant, transferring>>

BeginTransfer ==
  /\ ~transferring /\ transferring' = TRUE
  /\ UNCHANGED <<restaurant, item, quantity, total>>

EndTransfer ==
  /\ transferring /\ transferring' = FALSE
  /\ UNCHANGED <<restaurant, item, quantity, total>>

Next ==
  \/ \E r \in Restaurant : EnterRestaurant(r)
  \/ LeaveRestaurant
  \/ \E i \in Item : PickItem(i)
  \/ \E q \in {quantity + 1, quantity - 1} : ChangeQuantity(q)
  \/ LeaveItem
  \/ BeginTransfer
  \/ EndTransfer

Spec == Init /\ [][Next]_flow
=============================================================================
