--------------------------- MODULE CouriNavigation ---------------------------
(***************************************************************************)
(* The shopping screens of Couri: the navigation controller's stack, the   *)
(* fields of the view controllers on it, and the side menu, which is drawn *)
(* in the window above all of them.                                        *)
(*                                                                         *)
(* Screens:  Home              ViewController                              *)
(*           RestaurantList    RestaurantUIViewController                  *)
(*           RestaurantDetail  RestaurantDetailViewController              *)
(*           MenuDetail        MenuDetailVC (module MenuDetail)            *)
(*           Transfer          TransferVC                                  *)
(*                                                                         *)
(* A tap on a row runs in one turn of the main run loop: UIKit selects the *)
(* row, the delegate performs the segue, prepare(for:sender:) reads the    *)
(* selection back from the table and force-unwraps it, and the new screen  *)
(* is loaded and pushed.  All of it is one action here.  A failing unwrap  *)
(* ends the program (trapped).  The navigation bar is hidden, so the       *)
(* screens' own buttons are the only way back, and UIKit ignores touches   *)
(* while one screen slides over another.                                   *)
(***************************************************************************)
EXTENDS MenuDetail, Sequences

CONSTANTS Restaurant,
          Restaurants,  \* RestaurantLibrary.restaurants, in order
          Menu,         \* menuItems of each restaurant, in order
          Categories,   \* how many categories each restaurant lists
          None,         \* nil
          MaxShows      \* bound: how often the side menu is opened

ASSUME NoneAssumption == None \notin Restaurant /\ None \notin Item
ASSUME LibraryAssumption ==
  /\ Restaurants \in Seq(Restaurant)
  /\ Menu \in [Restaurant -> Seq(Item)]
  /\ Categories \in [Restaurant -> Nat \ {0}]
ASSUME MaxShowsAssumption == MaxShows \in Nat

VARIABLES stack,        \* the screens, root first
          homeRow,      \* selected row of Home's table
          listRow,      \* selected row of RestaurantList's table
          detail,       \* the RestaurantDetailViewController, or None
          sidebar,      \* "hidden", "appearing" (animating) or "shown"
          recognizers,  \* tap recognizers hung on the side menu's scrim
          trapped       \* a force unwrap found nil

nav == <<stack, homeRow, listRow, detail, order>>
app == <<nav, sidebar, recognizers, trapped>>

NoRow == 0

Screen == {"Home", "RestaurantList", "RestaurantDetail", "MenuDetail", "Transfer"}

\* The order in which the storyboard's segues can stack the screens.
Rank == [s \in Screen |->
           CASE s = "Home" -> 1
             [] s = "RestaurantList" -> 2
             [] s = "RestaurantDetail" -> 3
             [] s = "MenuDetail" -> 4
             [] s = "Transfer" -> 5]

Top == stack[Len(stack)]

On(s) == \E k \in DOMAIN stack : stack[k] = s

\* Touches reach the top screen unless the side menu covers it.  While the
\* menu animates in, UIKit disables touches on the animated views, so the
\* screen below may still receive them.
Touchable(s) == ~trapped /\ Top = s /\ sidebar # "shown"
-----------------------------------------------------------------------------
Push(s) == stack' = Append(stack, s)

Pop == stack' = SubSeq(stack, 1, Len(stack) - 1)

AppearingUnchanged(d) == d

AppearingLikeTableVC(d) == [d EXCEPT !.category = 1, !.row = NoRow]

\* viewWillAppear selects the first category again, each time.
Appearing(d) == [d EXCEPT !.category = 1]

\* The destination of prepare(for:sender:), loaded and about to appear.
UnpreparedDetail(row) ==
  [restaurant |-> None, row |-> NoRow, category |-> 1]

NextRestaurantDetail(row) ==
  [restaurant |-> Restaurants[1 + (row % Len(Restaurants))], row |-> NoRow,
   category |-> 1]

LoadedDetail(row) ==
  [restaurant |-> Restaurants[row], row |-> NoRow, category |-> 1]

\* Both lists: performSegue, then restaurants[indexPathForSelectedRow!.row].
ShowDetail(row) ==
  IF row = NoRow
  THEN trapped' = TRUE /\ UNCHANGED <<stack, detail>>
  ELSE /\ detail' = LoadedDetail(row)
       /\ Push("RestaurantDetail")
       /\ UNCHANGED trapped

\* RestaurantDetail: menuItems[indexPathForSelectedRow!.row] becomes the item
\* of the new MenuDetailVC.
ShowOrder(row) ==
  IF row = NoRow
  THEN trapped' = TRUE /\ UNCHANGED <<stack, order>>
  ELSE /\ order' = Loaded(Menu[detail.restaurant][row])
       /\ Push("MenuDetail")
       /\ UNCHANGED trapped
-----------------------------------------------------------------------------
AppInit ==
  /\ stack = <<"Home">>
  /\ homeRow = NoRow /\ listRow = NoRow
  /\ detail = None /\ order = None
  /\ sidebar = "hidden" /\ recognizers = 0
  /\ trapped = FALSE

TapHomeRow(r) ==
  /\ Touchable("Home")
  /\ homeRow' = r
  /\ ShowDetail(homeRow')
  /\ UNCHANGED <<listRow, order, sidebar, recognizers>>

\* "nextPageButton": a fresh list with nothing selected.
TapNextPage ==
  /\ Touchable("Home")
  /\ Push("RestaurantList") /\ listRow' = NoRow
  /\ UNCHANGED <<homeRow, detail, order, sidebar, recognizers, trapped>>

TapListRow(r) ==
  /\ Touchable("RestaurantList")
  /\ listRow' = r
  /\ ShowDetail(listRow')
  /\ UNCHANGED <<homeRow, order, sidebar, recognizers>>

\* backPage pops to the root, whatever is in between.
BackPage ==
  /\ Touchable("RestaurantList")
  /\ stack' = <<stack[1]>> /\ listRow' = NoRow
  /\ UNCHANGED <<homeRow, detail, order, sidebar, recognizers, trapped>>

SelectCategory ==
  /\ Touchable("RestaurantDetail")
  /\ \E c \in 1..Categories[detail.restaurant] :
       detail' = [detail EXCEPT !.category = c]
  /\ UNCHANGED <<stack, homeRow, listRow, order, sidebar, recognizers, trapped>>

TapMenuRowDeselecting(k) ==
  /\ Touchable("RestaurantDetail")
  /\ k \in DOMAIN Menu[detail.restaurant]
  /\ detail' = [detail EXCEPT !.row = NoRow]
  /\ ShowOrder(detail'.row)
  /\ UNCHANGED <<homeRow, listRow, sidebar, recognizers>>

TapMenuRow(k) ==
  /\ Touchable("RestaurantDetail")
  /\ k \in DOMAIN Menu[detail.restaurant]
  /\ detail' = [detail EXCEPT !.row = k]
  /\ ShowOrder(detail'.row)
  /\ UNCHANGED <<homeRow, listRow, sidebar, recognizers>>

\* RestaurantDetail's backTapped.
LeaveDetail ==
  /\ Touchable("RestaurantDetail")
  /\ Pop /\ detail' = None
  /\ UNCHANGED <<homeRow, listRow, order, sidebar, recognizers, trapped>>

\* MenuDetail's backTapped: RestaurantDetail appears again.
LeaveOrder ==
  /\ Touchable("MenuDetail")
  /\ Pop /\ order' = None
  /\ detail' = Appearing(detail)
  /\ UNCHANGED <<homeRow, listRow, sidebar, recognizers, trapped>>

TapPlus ==
  /\ Touchable("MenuDetail")
  /\ increaseCount
  /\ UNCHANGED <<stack, homeRow, listRow, detail, sidebar, recognizers, trapped>>

TapMinus ==
  /\ Touchable("MenuDetail")
  /\ decreaseCount
  /\ UNCHANGED <<stack, homeRow, listRow, detail, sidebar, recognizers, trapped>>
-----------------------------------------------------------------------------
\* hamburgerMenu -> showSidebar: every call hangs one more recognizer on the
\* scrim and starts the animation from its beginning.
HamburgerNoRecognizer ==
  /\ Touchable("Home")
  /\ recognizers < MaxShows
  /\ sidebar' = "appearing"
  /\ UNCHANGED <<nav, trapped, recognizers>>

Hamburger ==
  /\ Touchable("Home")
  /\ recognizers < MaxShows
  /\ sidebar' = "appearing" /\ recognizers' = recognizers + 1
  /\ UNCHANGED <<nav, trapped>>

SidebarAnimated ==
  /\ ~trapped /\ sidebar = "appearing"
  /\ sidebar' = "shown"
  /\ UNCHANGED <<nav, recognizers, trapped>>

\* A tap on the scrim.  handleDismiss sets alpha and width at once; only the
\* drawing takes 0.3 s, and the dismissed views receive no touch meanwhile.
TapScrim ==
  /\ ~trapped /\ sidebar = "shown" /\ recognizers > 0
  /\ sidebar' = "hidden"
  /\ UNCHANGED <<nav, recognizers, trapped>>

\* transferWasTapped: the delegate (Home) pushes Transfer on whatever screen
\* is on top, then the side menu is dismissed.
TransferStaysOpen ==
  /\ ~trapped /\ sidebar = "shown"
  /\ Push("Transfer")
  /\ UNCHANGED <<homeRow, listRow, detail, order, sidebar, recognizers, trapped>>

TransferWasTapped ==
  /\ ~trapped /\ sidebar = "shown"
  /\ Push("Transfer") /\ sidebar' = "hidden"
  /\ UNCHANGED <<homeRow, listRow, detail, order, recognizers, trapped>>

\* TransferVC.cancel: the screen below appears again.
CancelTransfer ==
  /\ Touchable("Transfer")
  /\ Pop
  /\ detail' = IF stack[Len(stack) - 1] = "RestaurantDetail"
               THEN Appearing(detail) ELSE detail
  /\ UNCHANGED <<homeRow, listRow, order, sidebar, recognizers, trapped>>
-----------------------------------------------------------------------------
\* The rows the longest menu has.
MenuRows == UNION {DOMAIN Menu[r] : r \in Restaurant}

AppNext ==
  \/ \E r \in DOMAIN Restaurants : TapHomeRow(r) \/ TapListRow(r)
  \/ TapNextPage \/ BackPage
  \/ SelectCategory
  \/ \E k \in MenuRows : TapMenuRow(k)
  \/ LeaveDetail \/ LeaveOrder
  \/ TapPlus \/ TapMinus
  \/ Hamburger \/ SidebarAnimated \/ TapScrim
  \/ TransferWasTapped \/ CancelTransfer

AppSpec == AppInit /\ [][AppNext]_app
-----------------------------------------------------------------------------
Detail == [restaurant : Restaurant, row : Nat, category : Nat]

\* Every variable keeps its type; a screen's object lives while it is stacked.
AppTypeOK ==
  /\ stack \in Seq(Screen) /\ stack # <<>>
  /\ homeRow \in {NoRow} \cup DOMAIN Restaurants
  /\ listRow \in {NoRow} \cup DOMAIN Restaurants
  /\ IF On("RestaurantDetail") THEN detail \in Detail ELSE detail = None
  /\ IF On("MenuDetail") THEN order \in Order ELSE order = None
  /\ sidebar \in {"hidden", "appearing", "shown"}
  /\ recognizers \in Nat
  /\ trapped \in BOOLEAN

(***************************************************************************)
(* No force unwrap fails: whenever a segue is prepared, the table it reads *)
(* the row from still has the tapped row selected.                         *)
(***************************************************************************)
NoTrap == ~trapped

(***************************************************************************)
(* The storyboard's order of screens is never broken, however the side     *)
(* menu interferes: Home is the root and is never popped, no screen is     *)
(* stacked twice, and an order screen always has its restaurant below.     *)
(***************************************************************************)
Ascending(st) == \A j, k \in DOMAIN st : j < k => Rank[st[j]] < Rank[st[k]]

StackOrdered ==
  /\ stack[1] = "Home"
  /\ Ascending(stack)
  /\ On("MenuDetail") => On("RestaurantDetail")

(***************************************************************************)
(* What the screens show belongs together: the restaurant is the one in    *)
(* the row still selected in the list it was opened from, and the item is  *)
(* the one in the row still selected in that restaurant's menu.            *)
(***************************************************************************)
OpenedFromRow == IF On("RestaurantList") THEN listRow ELSE homeRow

TrailMatches ==
  /\ On("RestaurantDetail") =>
       /\ OpenedFromRow # NoRow
       /\ detail.restaurant = Restaurants[OpenedFromRow]
  /\ On("MenuDetail") =>
       /\ detail.row \in DOMAIN Menu[detail.restaurant]
       /\ order.item = Menu[detail.restaurant][detail.row]

(***************************************************************************)
(* A screen that is covered by another one, the transfer screen included,  *)
(* keeps its selection, its restaurant and its order until it is on top    *)
(* again: nothing reaches it through the screens or the menu above it.     *)
(***************************************************************************)
CoveredScreensFrozen ==
  [][/\ Top # "Home" => homeRow' = homeRow
     /\ On("RestaurantList") /\ Top # "RestaurantList" => listRow' = listRow
     /\ On("RestaurantDetail") /\ Top # "RestaurantDetail" =>
          /\ detail'.restaurant = detail.restaurant
          /\ detail'.row = detail.row
     /\ On("MenuDetail") /\ Top # "MenuDetail" => order' = order]_app

(***************************************************************************)
(* Whenever a restaurant screen comes to the top, from either side, its    *)
(* first category is highlighted again.                                    *)
(***************************************************************************)
FirstCategoryOnAppearing ==
  [][Top # "RestaurantDetail" /\ Top' = "RestaurantDetail" =>
       detail'.category = 1]_app

(***************************************************************************)
(* A side menu that covers the application can be dismissed by a tap.      *)
(***************************************************************************)
ScrimDismissable == sidebar = "shown" => recognizers > 0

(***************************************************************************)
(* The screens implement OrderFlow: back buttons, the detour over the      *)
(* restaurant list and the side menu are invisible in it, and the total is *)
(* the price on the order button.                                          *)
(***************************************************************************)
flowRestaurant == IF On("RestaurantDetail") THEN detail.restaurant ELSE None
flowItem == IF On("MenuDetail") THEN order.item ELSE None
flowQuantity == IF On("MenuDetail") THEN order.countLabel ELSE 0
flowTotal == IF On("MenuDetail") THEN order.priceLabelSimple ELSE 0
flowTransferring == IF On("Transfer") THEN TRUE ELSE FALSE
ItemsOf == [r \in Restaurant |-> {Menu[r][k] : k \in DOMAIN Menu[r]}]

Flow == INSTANCE OrderFlow WITH
  MenuOf <- ItemsOf, restaurant <- flowRestaurant, item <- flowItem,
  quantity <- flowQuantity, total <- flowTotal,
  transferring <- flowTransferring

ImplementsOrderFlow == Flow!Spec
=============================================================================
