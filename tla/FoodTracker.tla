----------------------------- MODULE FoodTracker -----------------------------
(***************************************************************************)
(* The FoodTracker application: MealTableViewController (the list of       *)
(* meals), MealViewController (the screen of one meal, presented modally   *)
(* for a new meal and pushed for an existing one), the image picker over   *)
(* it, and the star control both show.                                     *)
(*                                                                         *)
(* One action is one turn of the main run loop: a tap, what UIKit does     *)
(* with it, and every delegate callback and segue it leads to.  Only the   *)
(* visible screen receives touches.  A row is numbered from 1.             *)
(***************************************************************************)
EXTENDS RatingControl, Sequences

CONSTANTS Name,          \* the meal names a user types
          Empty,         \* the empty text
          Photo, DefaultPhoto,
          NewMealTitle,  \* the storyboard's title of the meal screen
          Nil,
          MaxRating,     \* the highest rating Meal.init accepts, 5
          SampleMeals,   \* loadSampleMeals
          MaxMeals       \* bound: no meal is added beyond it

Meal == [name : Name, photo : Photo, rating : 0..MaxRating]

ASSUME TextAssumption == Empty \notin Name
ASSUME PhotoAssumption == DefaultPhoto \in Photo
ASSUME NilAssumption == Nil \notin Meal
\* The two fives of RatingControl.swift and Meal.swift; no code ties them.
ASSUME RatingAssumption == MaxRating = StarCount
ASSUME SampleAssumption == SampleMeals \in Seq(Meal)
ASSUME MaxMealsAssumption == MaxMeals \in Nat

VARIABLES
  \* MealTableViewController
  meals,        \* the data source
  rows,         \* what the cells of the table show
  selectedRow,  \* the table's selected row, or NoRow
  listEditing,  \* the Edit button was tapped
  \* MealViewController
  screen,       \* the screen on top: "list", or the meal screen as "add", "edit"
  text,         \* nameTextField.text
  editing,      \* nameTextField is first responder
  title, photo,
  control,      \* ratingControl
  saveEnabled,
  picking       \* the image picker covers the meal screen

mealList == <<meals, rows, selectedRow, listEditing>>
form == <<text, editing, title, photo, control, saveEnabled, picking>>
vars == <<mealList, screen, form>>

NoRow == 0

\* Meal.init: a failed initialisation is nil.
NewMeal(n, p, r) ==
  IF n = Empty \/ ~(r >= 0 /\ r <= MaxRating) THEN Nil
  ELSE [name |-> n, photo |-> p, rating |-> r]

\* cellForRowAt.  A reused cell keeps nothing of its former row.
Cell(m) == [name |-> m.name, photo |-> m.photo, stars |-> Showing(m.rating)]

Without(s, k) ==
  [j \in 1..(Len(s) - 1) |-> IF j < k THEN s[j] ELSE s[j + 1]]
-----------------------------------------------------------------------------
\* updateSaveButtonState
updateSaveButtonState == saveEnabled' = (text' # Empty)

\* The views of a meal screen that is not on screen.
Blank ==
  /\ text = Empty /\ editing = FALSE /\ title = NewMealTitle
  /\ photo = DefaultPhoto /\ control = Showing(0)
  /\ saveEnabled = FALSE /\ picking = FALSE

\* viewDidLoad of the meal screen, with or without a meal.
LoadBlank ==
  /\ text' = Empty /\ title' = NewMealTitle
  /\ photo' = DefaultPhoto /\ control' = Showing(0)
  /\ editing' = FALSE /\ picking' = FALSE
  /\ updateSaveButtonState

LoadMeal(m) ==
  /\ text' = m.name /\ title' = m.name
  /\ photo' = m.photo /\ control' = Showing(m.rating)
  /\ editing' = FALSE /\ picking' = FALSE
  /\ updateSaveButtonState

\* The list appears again: UITableViewController clears the selection, and
\* the meal screen is released.
ListAppears == screen' = "list" /\ selectedRow' = NoRow /\ LoadBlank

Init ==
  /\ meals = SampleMeals
  /\ rows = [k \in DOMAIN SampleMeals |-> Cell(SampleMeals[k])]
  /\ selectedRow = NoRow /\ listEditing = FALSE
  /\ screen = "list" /\ Blank
-----------------------------------------------------------------------------
\* The list of meals.

\* The Edit button; the table does not select rows while it is on.
ToggleEdit ==
  /\ screen = "list"
  /\ listEditing' = ~listEditing
  /\ UNCHANGED <<meals, rows, selectedRow, screen, form>>

DeleteDataOnly(k) ==
  /\ screen = "list"
  /\ meals' = Without(meals, k)
  /\ UNCHANGED <<rows, selectedRow, listEditing, screen, form>>

\* commit editingStyle, by the Edit mode's button or by a swipe.
DeleteRow(k) ==
  /\ screen = "list"
  /\ meals' = Without(meals, k) /\ rows' = Without(rows, k)
  /\ UNCHANGED <<selectedRow, listEditing, screen, form>>

\* Segue AddItem
TapAdd ==
  /\ screen = "list" /\ Len(meals) < MaxMeals
  /\ screen' = "add" /\ LoadBlank
  /\ UNCHANGED mealList

TapRowDeselecting(k) ==
  /\ screen = "list" /\ ~listEditing
  /\ selectedRow' = NoRow
  /\ screen' = "edit" /\ LoadMeal(meals[k])
  /\ UNCHANGED <<meals, rows, listEditing>>

\* Segue ShowDetail: the cell is selected and its meal passed on.
TapRow(k) ==
  /\ screen = "list" /\ ~listEditing
  /\ selectedRow' = k
  /\ screen' = "edit" /\ LoadMeal(meals[k])
  /\ UNCHANGED <<meals, rows, listEditing>>
-----------------------------------------------------------------------------
\* The meal screen.

OnMealScreen == screen # "list" /\ ~picking

BeginEditingSavable ==
  /\ OnMealScreen /\ ~editing
  /\ editing' = TRUE
  /\ UNCHANGED <<mealList, screen, text, title, photo, control, picking, saveEnabled>>

\* textFieldDidBeginEditing
BeginEditing ==
  /\ OnMealScreen /\ ~editing
  /\ editing' = TRUE /\ saveEnabled' = FALSE
  /\ UNCHANGED <<mealList, screen, text, title, photo, control, picking>>

Type ==
  /\ OnMealScreen /\ editing
  /\ \E t \in Name \cup {Empty} : text' = t
  /\ UNCHANGED <<mealList, screen, editing, title, photo, control, saveEnabled, picking>>

ResignKeepingTitle ==
  IF editing
  THEN editing' = FALSE /\ updateSaveButtonState /\ UNCHANGED title
  ELSE UNCHANGED <<editing, title, saveEnabled>>

\* resignFirstResponder, and textFieldDidEndEditing if the field was edited.
Resign ==
  IF editing
  THEN editing' = FALSE /\ updateSaveButtonState /\ title' = text
  ELSE UNCHANGED <<editing, title, saveEnabled>>

\* textFieldShouldReturn; the Done key is disabled while the text is empty.
TapDone ==
  /\ OnMealScreen /\ editing /\ text # Empty
  /\ UNCHANGED text /\ Resign
  /\ UNCHANGED <<mealList, screen, photo, control, picking>>

\* ratingButtonTapped; the keyboard may be up.
TapStar(k) ==
  /\ OnMealScreen
  /\ control' = Tapped(control, k)
  /\ UNCHANGED <<mealList, screen, text, editing, title, photo, saveEnabled, picking>>

\* selectImageFromPhotoLibrary
TapPhoto ==
  /\ OnMealScreen
  /\ UNCHANGED text /\ Resign
  /\ picking' = TRUE
  /\ UNCHANGED <<mealList, screen, photo, control>>

\* imagePickerControllerDidCancel
CancelPicker ==
  /\ picking /\ picking' = FALSE
  /\ UNCHANGED <<mealList, screen, text, editing, title, photo, control, saveEnabled>>

\* imagePickerController(_:didFinishPickingMediaWithInfo:)
PickPhoto(p) ==
  /\ picking /\ picking' = FALSE
  /\ photo' = p
  /\ UNCHANGED <<mealList, screen, text, editing, title, control, saveEnabled>>

\* cancel: dismissed or popped, the list appears either way.
Cancel ==
  /\ OnMealScreen
  /\ ListAppears
  /\ UNCHANGED <<meals, rows, listEditing>>
-----------------------------------------------------------------------------
\* unwindToMealList, with the meal the save button's prepare made.
AppendsAlways(m) ==
  /\ meals' = Append(meals, m)
  /\ rows' = Append(rows, Cell(m))

unwindToMealList(m) ==
  IF m = Nil THEN UNCHANGED <<meals, rows>>
  ELSE IF selectedRow # NoRow
  THEN /\ meals' = [meals EXCEPT ![selectedRow] = m]
       /\ rows' = [rows EXCEPT ![selectedRow] = Cell(m)]
  ELSE /\ meals' = Append(meals, m)
       /\ rows' = Append(rows, Cell(m))

\* The Save button: the action runs before the list appears.
Save ==
  /\ OnMealScreen /\ saveEnabled
  /\ unwindToMealList(NewMeal(text, photo, control.rating))
  /\ ListAppears
  /\ UNCHANGED listEditing

Next ==
  \/ ToggleEdit \/ TapAdd
  \/ \E k \in DOMAIN meals : DeleteRow(k) \/ TapRow(k)
  \/ BeginEditing \/ Type \/ TapDone
  \/ \E k \in Stars : TapStar(k)
  \/ TapPhoto \/ CancelPicker
  \/ \E p \in Photo : PickPhoto(p)
  \/ Cancel \/ Save

Spec == Init /\ [][Next]_vars
-----------------------------------------------------------------------------
Row == [name : Name, photo : Photo, stars : Control]

\* The variables have the types of the properties and views they stand for.
TypeOK ==
  /\ meals \in Seq(Meal)
  /\ rows \in Seq(Row)
  /\ selectedRow \in 0..Len(meals)
  /\ screen \in {"list", "add", "edit"}
  /\ text \in Name \cup {Empty}
  /\ title \in Name \cup {Empty, NewMealTitle}
  /\ photo \in Photo /\ control \in Control
  /\ editing \in BOOLEAN /\ saveEnabled \in BOOLEAN
  /\ picking \in BOOLEAN /\ listEditing \in BOOLEAN

(***************************************************************************)
(* The table never drifts from its data source: there is one row per meal, *)
(* and it shows that meal's name, photo and stars, after every insertion,  *)
(* replacement and deletion.                                               *)
(***************************************************************************)
Table(ms) == [k \in DOMAIN ms |-> Cell(ms[k])]

RowsShowMeals == rows = Table(meals)

(***************************************************************************)
(* An enabled Save button saves: the name field is not being edited and    *)
(* Meal.init accepts what the screen holds.  unwindToMealList drops a nil  *)
(* meal silently, so nothing else would tell the user of a lost one.       *)
(***************************************************************************)
EnabledSaveSaves ==
  saveEnabled => /\ ~editing
                 /\ NewMeal(text, photo, control.rating) # Nil

(***************************************************************************)
(* unwindToMealList tells a new meal from an edited one by the table's     *)
(* selection alone: no row is selected while a new meal is entered, and    *)
(* the row of the edited meal is while it is edited.                       *)
(***************************************************************************)
SelectionTellsMode ==
  /\ screen = "add" => selectedRow = NoRow
  /\ screen = "edit" => selectedRow \in DOMAIN meals

(***************************************************************************)
(* The accessibility hint "Tap to reset the rating to zero." is on exactly *)
(* the star whose next tap does that, in a rating loaded from a meal, just *)
(* tapped, or cleared.                                                     *)
(***************************************************************************)
ResetHinted == HintHonest(control)

(***************************************************************************)
(* What is saved is what the screen shows at that moment: the meal that    *)
(* enters the list has the title's name, the photo and the filled stars.   *)
(***************************************************************************)
Saved(m) ==
  /\ m.name = title /\ m.photo = photo
  /\ 1..m.rating = control.selected

SavedAsShown ==
  [][screen # "list" /\ meals' # meals =>
       \E k \in DOMAIN meals' :
         /\ Saved(meals'[k])
         /\ \A j \in DOMAIN meals : j = k \/ meals'[j] = meals[j]]_vars

(***************************************************************************)
(* The screens implement MealList: cancelling, picking, typing and rating  *)
(* never touch the list, saving replaces the row that was opened or        *)
(* appends, and a deletion removes one row.                                *)
(***************************************************************************)
openedMeal ==
  CASE screen = "list" -> <<"none">>
    [] screen = "add" -> <<"new">>
    [] screen = "edit" -> <<"meal", selectedRow>>

List == INSTANCE MealList WITH opened <- openedMeal

ImplementsMealList == List!Spec
=============================================================================
