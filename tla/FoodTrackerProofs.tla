-------------------------- MODULE FoodTrackerProofs --------------------------
(***************************************************************************)
(* What holds of FoodTracker for every number of stars, meals and names.   *)
(***************************************************************************)
EXTENDS FoodTracker, SequenceTheorems, TLAPS

-----------------------------------------------------------------------------
(***************************************************************************)
(* The star control and the meals.                                         *)
(***************************************************************************)
LEMMA ShowingGood ==
  ASSUME NEW n \in 0..StarCount
  PROVE  Showing(n) \in Control /\ Showing(n).rating = n
  BY StarCountAssumption DEF Showing, Control, Stars

LEMMA TappedGood ==
  ASSUME NEW c, NEW k \in Stars
  PROVE  \E n \in 0..StarCount : Tapped(c, k) = Showing(n)
  BY StarCountAssumption DEF Tapped, Stars

\* With as many stars as Meal.init accepts, only an empty name is refused.
LEMMA NewMealGood ==
  ASSUME NEW t \in Name \cup {Empty}, NEW p \in Photo, NEW r \in 0..StarCount
  PROVE  /\ t # Empty => NewMeal(t, p, r) \in Meal
         /\ t # Empty => NewMeal(t, p, r) = [name |-> t, photo |-> p, rating |-> r]
         /\ NewMeal(t, p, r) = Nil <=> t = Empty
  BY StarCountAssumption, RatingAssumption, NilAssumption DEF NewMeal, Meal

LEMMA CellGood ==
  ASSUME NEW m \in Meal
  PROVE  Cell(m) \in Row
  <1>1. m.rating \in 0..StarCount /\ m.name \in Name /\ m.photo \in Photo
    BY RatingAssumption DEF Meal
  <1> QED
    BY <1>1, ShowingGood DEF Cell, Row

-----------------------------------------------------------------------------
(***************************************************************************)
(* Tables of cells follow their data source through each of its changes.   *)
(***************************************************************************)
LEMMA WithoutGood ==
  ASSUME NEW S, NEW s \in Seq(S), NEW k \in 1..Len(s)
  PROVE  /\ Without(s, k) \in Seq(S) /\ Len(Without(s, k)) = Len(s) - 1
         /\ \A j \in 1..(Len(s) - 1) :
              Without(s, k)[j] = IF j < k THEN s[j] ELSE s[j + 1]
  <1>1. Len(s) - 1 \in Nat
    OBVIOUS
  <1>2. \A j \in 1..(Len(s) - 1) : (IF j < k THEN s[j] ELSE s[j + 1]) \in S
    OBVIOUS
  <1> QED
    BY <1>1, <1>2 DEF Without

LEMMA AppendGood ==
  ASSUME NEW S, NEW s \in Seq(S), NEW e \in S, NEW t, t = Append(s, e)
  PROVE  /\ Len(s) + 1 \in DOMAIN t /\ t[Len(s) + 1] = e
         /\ \A j \in 1..Len(s) : t[j] = s[j]
  OBVIOUS

LEMMA TableGood ==
  ASSUME NEW ms \in Seq(Meal)
  PROVE  /\ Table(ms) \in Seq(Row) /\ Len(Table(ms)) = Len(ms)
         /\ \A k \in 1..Len(ms) : Table(ms)[k] = Cell(ms[k])
  <1>1. /\ Len(ms) \in Nat /\ DOMAIN ms = 1..Len(ms)
        /\ \A k \in 1..Len(ms) : Cell(ms[k]) \in Row
    BY CellGood
  <1> QED
    BY <1>1 DEF Table

LEMMA TableAppend ==
  ASSUME NEW ms \in Seq(Meal), NEW m \in Meal
  PROVE  /\ Append(ms, m) \in Seq(Meal)
         /\ Append(Table(ms), Cell(m)) = Table(Append(ms, m))
  <1> DEFINE ns == Append(ms, m)
             l == Append(Table(ms), Cell(m))
  <1>1. /\ ns \in Seq(Meal) /\ Len(ns) = Len(ms) + 1 /\ Len(ms) \in Nat
        /\ \A k \in 1..Len(ms) : ns[k] = ms[k]
        /\ ns[Len(ms) + 1] = m
    OBVIOUS
  <1>2. /\ l \in Seq(Row) /\ Len(l) = Len(ms) + 1
        /\ \A k \in 1..Len(ms) : l[k] = Cell(ms[k])
        /\ l[Len(ms) + 1] = Cell(m)
    BY TableGood, CellGood
  <1> HIDE DEF ns, l
  <1>3. /\ Table(ns) \in Seq(Row) /\ Len(Table(ns)) = Len(ms) + 1
        /\ \A k \in 1..(Len(ms) + 1) : Table(ns)[k] = Cell(ns[k])
    BY <1>1, TableGood
  <1>4. \A k \in 1..Len(l) : l[k] = Table(ns)[k]
    <2> SUFFICES ASSUME NEW k \in 1..(Len(ms) + 1)
                 PROVE  l[k] = Table(ns)[k]
      BY <1>2
    <2>1. Table(ns)[k] = Cell(ns[k])
      BY <1>3
    <2>2. k \in 1..Len(ms) \/ k = Len(ms) + 1
      BY <1>1
    <2> QED
      BY <1>1, <1>2, <2>1, <2>2
  <1>5. l = Table(ns)
    BY <1>2, <1>3, <1>4, SeqEqual
  <1> QED
    BY <1>1, <1>5 DEF ns, l

LEMMA TableReplace ==
  ASSUME NEW ms \in Seq(Meal), NEW k \in 1..Len(ms), NEW m \in Meal
  PROVE  /\ [ms EXCEPT ![k] = m] \in Seq(Meal)
         /\ Len([ms EXCEPT ![k] = m]) = Len(ms)
         /\ [Table(ms) EXCEPT ![k] = Cell(m)] = Table([ms EXCEPT ![k] = m])
  <1> DEFINE ns == [ms EXCEPT ![k] = m]
             l == [Table(ms) EXCEPT ![k] = Cell(m)]
  <1>1. /\ ns \in Seq(Meal) /\ Len(ns) = Len(ms)
        /\ \A j \in 1..Len(ms) : ns[j] = IF j = k THEN m ELSE ms[j]
    BY ExceptSeq
  <1>2. /\ Table(ms) \in Seq(Row) /\ Len(Table(ms)) = Len(ms)
        /\ \A j \in 1..Len(ms) : Table(ms)[j] = Cell(ms[j])
    BY TableGood
  <1>3. /\ l \in Seq(Row) /\ Len(l) = Len(ms)
        /\ \A j \in 1..Len(ms) : l[j] = IF j = k THEN Cell(m) ELSE Cell(ms[j])
    BY <1>2, CellGood, ExceptSeq
  <1> HIDE DEF ns, l
  <1>4. /\ Table(ns) \in Seq(Row) /\ Len(Table(ns)) = Len(ms)
        /\ \A j \in 1..Len(ms) : Table(ns)[j] = Cell(ns[j])
    BY <1>1, TableGood
  <1>5. \A j \in 1..Len(l) : l[j] = Table(ns)[j]
    BY <1>1, <1>3, <1>4
  <1>6. l = Table(ns)
    BY <1>3, <1>4, <1>5, SeqEqual
  <1> QED
    BY <1>1, <1>6 DEF ns, l

LEMMA TableWithout ==
  ASSUME NEW ms \in Seq(Meal), NEW k \in 1..Len(ms)
  PROVE  /\ Without(ms, k) \in Seq(Meal)
         /\ Without(Table(ms), k) = Table(Without(ms, k))
  <1> DEFINE ns == Without(ms, k)
             l == Without(Table(ms), k)
  <1>1. /\ ns \in Seq(Meal) /\ Len(ns) = Len(ms) - 1 /\ Len(ms) \in Nat
        /\ \A j \in 1..(Len(ms) - 1) : ns[j] = IF j < k THEN ms[j] ELSE ms[j + 1]
    BY WithoutGood
  <1>2. /\ Table(ms) \in Seq(Row) /\ Len(Table(ms)) = Len(ms)
        /\ \A j \in 1..Len(ms) : Table(ms)[j] = Cell(ms[j])
    BY TableGood
  <1>3. /\ l \in Seq(Row) /\ Len(l) = Len(ms) - 1
        /\ \A j \in 1..(Len(ms) - 1) :
             l[j] = IF j < k THEN Table(ms)[j] ELSE Table(ms)[j + 1]
    BY <1>2, WithoutGood
  <1> HIDE DEF ns, l
  <1>4. /\ Table(ns) \in Seq(Row) /\ Len(Table(ns)) = Len(ms) - 1
        /\ \A j \in 1..(Len(ms) - 1) : Table(ns)[j] = Cell(ns[j])
    BY <1>1, TableGood
  <1>5. \A j \in 1..Len(l) : l[j] = Table(ns)[j]
    <2> SUFFICES ASSUME NEW j \in 1..(Len(ms) - 1)
                 PROVE  l[j] = Table(ns)[j]
      BY <1>3
    <2>1. j \in 1..Len(ms) /\ j + 1 \in 1..Len(ms)
      BY <1>1
    <2> QED
      BY <1>1, <1>2, <1>3, <1>4, <2>1
  <1>6. l = Table(ns)
    BY <1>3, <1>4, <1>5, SeqEqual
  <1> QED
    BY <1>1, <1>6 DEF ns, l

-----------------------------------------------------------------------------
(***************************************************************************)
(* The inductive invariant: what the runs check, and why it lasts.  The    *)
(* list never has a row selected while it is on top; Save is enabled only  *)
(* for a text that the title shows and nobody is editing; and the control  *)
(* is always one that updateButtonSelectionStates made.                    *)
(***************************************************************************)
FormInv ==
  /\ text \in Name \cup {Empty}
  /\ title \in Name \cup {Empty, NewMealTitle}
  /\ photo \in Photo /\ control \in Control
  /\ editing \in BOOLEAN /\ saveEnabled \in BOOLEAN /\ picking \in BOOLEAN
  /\ saveEnabled => ~editing /\ text # Empty /\ title = text
  /\ control = Showing(control.rating)

ListInv ==
  /\ meals \in Seq(Meal) /\ rows = Table(meals)
  /\ screen \in {"list", "add", "edit"}
  /\ selectedRow \in 0..Len(meals)
  /\ screen = "list" =>
       selectedRow = NoRow /\ saveEnabled = FALSE /\ picking = FALSE
  /\ screen = "add" => selectedRow = NoRow
  /\ screen = "edit" => selectedRow \in 1..Len(meals)
  /\ listEditing \in BOOLEAN

FoodInv == FormInv /\ ListInv

LEMMA InvImplies ==
  ASSUME FoodInv
  PROVE  TypeOK /\ RowsShowMeals /\ SelectionTellsMode /\ EnabledSaveSaves
  <1>1. /\ meals \in Seq(Meal) /\ DOMAIN meals = 1..Len(meals)
        /\ rows = Table(meals) /\ rows \in Seq(Row)
    BY TableGood DEF FoodInv, ListInv
  <1>2. TypeOK
    BY <1>1 DEF FoodInv, FormInv, ListInv, TypeOK
  <1>3. SelectionTellsMode
    BY <1>1 DEF FoodInv, ListInv, SelectionTellsMode
  <1>4. EnabledSaveSaves
    <2>1. control.rating \in 0..StarCount
      BY DEF FoodInv, FormInv, Control
    <2>2. NewMeal(text, photo, control.rating) = Nil <=> text = Empty
      BY <2>1, NewMealGood DEF FoodInv, FormInv
    <2> QED
      BY <2>2 DEF FoodInv, FormInv, EnabledSaveSaves
  <1> QED
    BY <1>1, <1>2, <1>3, <1>4 DEF RowsShowMeals

\* The next tap on a star resets the rating exactly where the hint says so.
LEMMA HintGood ==
  ASSUME FoodInv
  PROVE  ResetHinted
  <1>1. control = Showing(control.rating) /\ control.rating \in 0..StarCount
    BY DEF FoodInv, FormInv, Control
  <1>2. ASSUME NEW k \in Stars
        PROVE  k \in control.hinted <=> Tapped(control, k).rating = 0
    <2>1. k \in control.hinted <=> control.rating = k
      BY <1>1 DEF Showing
    <2>2. Tapped(control, k).rating = IF k = control.rating THEN 0 ELSE k
      BY DEF Tapped, Showing
    <2>3. k # 0
      BY DEF Stars
    <2> QED
      BY <2>1, <2>2, <2>3
  <1> QED
    BY <1>2 DEF ResetHinted, HintHonest

-----------------------------------------------------------------------------
\* A meal screen loaded with or without a meal.
LEMMA LoadBlankGood ==
  ASSUME LoadBlank
  PROVE  FormInv' /\ saveEnabled' = FALSE /\ picking' = FALSE
  <1>1. /\ Showing(0) \in Control /\ Showing(0).rating = 0
    BY ShowingGood, StarCountAssumption
  <1> QED
    BY <1>1, PhotoAssumption DEF LoadBlank, FormInv, updateSaveButtonState

LEMMA LoadMealGood ==
  ASSUME NEW m \in Meal, LoadMeal(m)
  PROVE  FormInv'
  <1>1. m.rating \in 0..StarCount /\ m.name \in Name /\ m.photo \in Photo
    BY RatingAssumption DEF Meal
  <1>2. Showing(m.rating) \in Control /\ Showing(m.rating).rating = m.rating
    BY <1>1, ShowingGood
  <1> QED
    BY <1>1, <1>2 DEF LoadMeal, FormInv, updateSaveButtonState

\* The name field resigns: Save is enabled exactly for a text.
LEMMA ResignGood ==
  ASSUME FormInv, Resign, text' = text
  PROVE  /\ editing' \in BOOLEAN /\ saveEnabled' \in BOOLEAN
         /\ title' \in Name \cup {Empty, NewMealTitle}
         /\ saveEnabled' => ~editing' /\ text' # Empty /\ title' = text'
  <1>1. CASE editing
    BY <1>1 DEF FormInv, Resign, updateSaveButtonState
  <1>2. CASE ~editing
    BY <1>2 DEF FormInv, Resign
  <1> QED
    BY <1>1, <1>2

\* A step of the form alone leaves the list in order.
LEMMA ListUntouched ==
  ASSUME ListInv, screen # "list", UNCHANGED <<mealList, screen>>
  PROVE  ListInv'
  BY DEF ListInv, mealList

LEMMA FormStep ==
  ASSUME FoodInv,
         \/ BeginEditing \/ Type \/ TapDone \/ TapPhoto \/ CancelPicker
         \/ \E k \in Stars : TapStar(k)
         \/ \E p \in Photo : PickPhoto(p),
         screen # "list"
  PROVE  FoodInv'
  <1>1. UNCHANGED <<mealList, screen>>
    BY DEF BeginEditing, Type, TapDone, TapPhoto, CancelPicker, TapStar, PickPhoto
  <1>2. ListInv'
    BY <1>1, ListUntouched DEF FoodInv
  <1>3. CASE BeginEditing
    BY <1>2, <1>3 DEF BeginEditing, FoodInv, FormInv
  <1>4. CASE Type
    BY <1>2, <1>4 DEF Type, FoodInv, FormInv
  <1>5. CASE TapDone
    <2>1. /\ Resign /\ text' = text
          /\ UNCHANGED <<photo, control, picking>>
      BY <1>5 DEF TapDone
    <2> QED
      BY <1>2, <2>1, ResignGood DEF FoodInv, FormInv
  <1>6. CASE TapPhoto
    <2>1. /\ Resign /\ text' = text /\ picking' = TRUE
          /\ UNCHANGED <<photo, control>>
      BY <1>6 DEF TapPhoto
    <2> QED
      BY <1>2, <2>1, ResignGood DEF FoodInv, FormInv
  <1>7. CASE CancelPicker
    BY <1>2, <1>7 DEF CancelPicker, FoodInv, FormInv
  <1>8. ASSUME NEW k \in Stars, TapStar(k)
        PROVE  FoodInv'
    <2>1. PICK n \in 0..StarCount : control' = Showing(n)
      BY <1>8, TappedGood DEF TapStar
    <2>2. control' \in Control /\ control' = Showing(control'.rating)
      BY <2>1, ShowingGood
    <2> QED
      BY <1>2, <1>8, <2>2 DEF TapStar, FoodInv, FormInv
  <1>9. ASSUME NEW p \in Photo, PickPhoto(p)
        PROVE  FoodInv'
    BY <1>2, <1>9 DEF PickPhoto, FoodInv, FormInv
  <1> QED
    BY <1>3, <1>4, <1>5, <1>6, <1>7, <1>8, <1>9

\* The list's own steps: the table follows the data source.
LEMMA ListStep ==
  ASSUME FoodInv, ToggleEdit \/ \E k \in DOMAIN meals : DeleteRow(k)
  PROVE  FoodInv'
  <1>1. /\ screen = "list" /\ screen' = screen /\ selectedRow' = selectedRow
        /\ UNCHANGED form
    BY DEF ToggleEdit, DeleteRow
  <1>2. FormInv' /\ saveEnabled' = saveEnabled /\ picking' = picking
    BY <1>1 DEF FoodInv, FormInv, form
  <1>3. selectedRow = 0 /\ meals \in Seq(Meal) /\ rows = Table(meals)
    BY <1>1 DEF FoodInv, ListInv, NoRow
  <1>4. CASE ToggleEdit
    BY <1>1, <1>2, <1>4 DEF ToggleEdit, FoodInv, ListInv
  <1>5. ASSUME NEW k \in DOMAIN meals, DeleteRow(k)
        PROVE  FoodInv'
    <2>1. k \in 1..Len(meals)
      BY <1>3
    <2>2. meals' \in Seq(Meal) /\ rows' = Table(meals')
      BY <1>3, <1>5, <2>1, TableWithout DEF DeleteRow
    <2>3. selectedRow' \in 0..Len(meals') /\ listEditing' = listEditing
      BY <1>1, <1>3, <1>5, <2>2 DEF DeleteRow
    <2> QED
      BY <1>1, <1>2, <2>2, <2>3 DEF FoodInv, ListInv
  <1> QED
    BY <1>4, <1>5

LEMMA TapAddStep ==
  ASSUME FoodInv, TapAdd
  PROVE  FoodInv'
  <1>1. /\ screen = "list" /\ screen' = "add" /\ LoadBlank
        /\ UNCHANGED <<meals, rows, selectedRow, listEditing>>
    BY DEF TapAdd, mealList
  <1>2. FormInv'
    BY <1>1, LoadBlankGood
  <1> QED
    BY <1>1, <1>2 DEF FoodInv, ListInv

LEMMA TapRowStep ==
  ASSUME FoodInv, NEW k \in DOMAIN meals, TapRow(k)
  PROVE  FoodInv'
  <1>1. /\ screen = "list" /\ screen' = "edit" /\ LoadMeal(meals[k])
        /\ selectedRow' = k /\ UNCHANGED <<meals, rows, listEditing>>
    BY DEF TapRow
  <1>2. k \in 1..Len(meals) /\ meals[k] \in Meal
    BY DEF FoodInv, ListInv
  <1>3. FormInv'
    BY <1>1, <1>2, LoadMealGood
  <1>4. k \in 0..Len(meals)
    BY <1>2 DEF FoodInv, ListInv
  <1> QED
    BY <1>1, <1>2, <1>3, <1>4 DEF FoodInv, ListInv

LEMMA CancelStep ==
  ASSUME FoodInv, Cancel
  PROVE  FoodInv'
  <1>1. /\ screen' = "list" /\ selectedRow' = NoRow /\ LoadBlank
        /\ UNCHANGED <<meals, rows, listEditing>>
    BY DEF Cancel, ListAppears
  <1>2. FormInv' /\ saveEnabled' = FALSE /\ picking' = FALSE
    BY <1>1, LoadBlankGood
  <1> QED
    BY <1>1, <1>2 DEF FoodInv, ListInv, NoRow

\* What Save does to the list: the meal on the screen replaces the selected
\* row or goes to the end, and the table follows.
LEMMA SaveEffect ==
  ASSUME FoodInv, Save
  PROVE  \E m \in Meal :
           /\ m = [name |-> title, photo |-> photo, rating |-> control.rating]
           /\ screen = "add" => meals' = Append(meals, m)
           /\ screen = "edit" => meals' = [meals EXCEPT ![selectedRow] = m]
           /\ screen \in {"add", "edit"}
           /\ meals' \in Seq(Meal) /\ rows' = Table(meals')
  <1> DEFINE m == NewMeal(text, photo, control.rating)
  <1>1. /\ screen # "list" /\ saveEnabled /\ unwindToMealList(m)
    BY DEF Save, OnMealScreen
  <1>2. /\ text # Empty /\ title = text /\ text \in Name \cup {Empty}
        /\ photo \in Photo /\ control.rating \in 0..StarCount
    BY <1>1 DEF FoodInv, FormInv, Control
  <1>3. /\ m \in Meal /\ m # Nil
        /\ m = [name |-> title, photo |-> photo, rating |-> control.rating]
    BY <1>2, NewMealGood, NilAssumption
  <1> HIDE DEF m
  <1>4. meals \in Seq(Meal) /\ rows = Table(meals) /\ screen \in {"add", "edit"}
    BY <1>1 DEF FoodInv, ListInv
  <1>5. CASE screen = "add"
    <2>1. selectedRow = NoRow
      BY <1>5 DEF FoodInv, ListInv
    <2>2. meals' = Append(meals, m) /\ rows' = Append(rows, Cell(m))
      BY <1>1, <1>3, <2>1 DEF unwindToMealList
    <2> QED
      BY <1>3, <1>4, <1>5, <2>2, TableAppend
  <1>6. CASE screen = "edit"
    <2>1. selectedRow \in 1..Len(meals) /\ selectedRow # NoRow
      BY <1>4, <1>6 DEF FoodInv, ListInv, NoRow
    <2>2. /\ meals' = [meals EXCEPT ![selectedRow] = m]
          /\ rows' = [rows EXCEPT ![selectedRow] = Cell(m)]
      BY <1>1, <1>3, <2>1 DEF unwindToMealList
    <2>3. /\ [meals EXCEPT ![selectedRow] = m] \in Seq(Meal)
          /\ [Table(meals) EXCEPT ![selectedRow] = Cell(m)]
             = Table([meals EXCEPT ![selectedRow] = m])
      <3> DEFINE k == selectedRow
      <3>1. k \in 1..Len(meals) /\ meals \in Seq(Meal) /\ m \in Meal
        BY <1>3, <1>4, <2>1
      <3> HIDE DEF k
      <3>2. /\ [meals EXCEPT ![k] = m] \in Seq(Meal)
            /\ [Table(meals) EXCEPT ![k] = Cell(m)] = Table([meals EXCEPT ![k] = m])
        BY <3>1, TableReplace
      <3> QED
        BY <3>2 DEF k
    <2>4. meals' \in Seq(Meal) /\ rows' = Table(meals')
      BY <1>4, <2>2, <2>3
    <2> QED
      BY <1>3, <1>6, <2>2, <2>4
  <1> QED
    BY <1>4, <1>5, <1>6

LEMMA SaveStep ==
  ASSUME FoodInv, Save
  PROVE  FoodInv'
  <1>1. /\ screen' = "list" /\ selectedRow' = NoRow /\ LoadBlank
        /\ listEditing' = listEditing
    BY DEF Save, ListAppears
  <1>2. FormInv' /\ saveEnabled' = FALSE /\ picking' = FALSE
    BY <1>1, LoadBlankGood
  <1>3. meals' \in Seq(Meal) /\ rows' = Table(meals')
    BY SaveEffect
  <1> QED
    BY <1>1, <1>2, <1>3 DEF FoodInv, ListInv, NoRow

LEMMA FoodInit ==
  Init => FoodInv
  <1> SUFFICES ASSUME Init PROVE FoodInv
    OBVIOUS
  <1>1. meals \in Seq(Meal) /\ rows = Table(meals)
    BY SampleAssumption DEF Init, Table
  <1>2. Showing(0) \in Control /\ Showing(0).rating = 0
    BY ShowingGood, StarCountAssumption
  <1>3. FormInv
    BY <1>2, PhotoAssumption DEF Init, Blank, FormInv
  <1>4. /\ selectedRow = NoRow /\ screen = "list" /\ listEditing \in BOOLEAN
        /\ saveEnabled = FALSE /\ picking = FALSE
    BY DEF Init, Blank
  <1>5. NoRow \in 0..Len(meals)
    BY <1>1 DEF NoRow
  <1>6. ListInv
    BY <1>1, <1>4, <1>5 DEF ListInv
  <1> QED
    BY <1>3, <1>6 DEF FoodInv

LEMMA FoodStep ==
  FoodInv /\ [Next]_vars => FoodInv'
  <1> SUFFICES ASSUME FoodInv, [Next]_vars PROVE FoodInv'
    OBVIOUS
  <1>1. CASE ToggleEdit \/ \E k \in DOMAIN meals : DeleteRow(k)
    BY <1>1, ListStep
  <1>2. CASE TapAdd
    BY <1>2, TapAddStep
  <1>3. ASSUME NEW k \in DOMAIN meals, TapRow(k)
        PROVE  FoodInv'
    BY <1>3, TapRowStep
  <1>4. CASE \/ BeginEditing \/ Type \/ TapDone \/ TapPhoto \/ CancelPicker
             \/ \E k \in Stars : TapStar(k)
             \/ \E p \in Photo : PickPhoto(p)
    <2>1. screen # "list"
      BY <1>4 DEF BeginEditing, Type, TapDone, TapPhoto, CancelPicker, TapStar,
                  PickPhoto, OnMealScreen, FoodInv, ListInv
    <2> QED
      BY <1>4, <2>1, FormStep
  <1>5. CASE Cancel
    BY <1>5, CancelStep
  <1>6. CASE Save
    BY <1>6, SaveStep
  <1>7. CASE UNCHANGED vars
    BY <1>7 DEF vars, mealList, form, FoodInv, FormInv, ListInv
  <1> QED
    BY <1>1, <1>2, <1>3, <1>4, <1>5, <1>6, <1>7 DEF Next

LEMMA FoodInvariant == Spec => []FoodInv
  BY FoodInit, FoodStep, PTL DEF Spec

(***************************************************************************)
(* For every number of stars and every sample list: the state is well      *)
(* typed, the table shows its data source, an enabled Save button never    *)
(* loses a meal, and the selection tells a new meal from an edited one.    *)
(***************************************************************************)
THEOREM FoodTrackerSafe ==
  Spec => [](TypeOK /\ RowsShowMeals /\ EnabledSaveSaves /\ SelectionTellsMode)
  <1>1. FoodInv => TypeOK /\ RowsShowMeals /\ EnabledSaveSaves /\ SelectionTellsMode
    BY InvImplies
  <1> QED
    BY <1>1, FoodInvariant, PTL

\* For every list and every number of stars, the meals, the screens and the
\* fields of an open meal screen are well formed.
THEOREM FoodTrackerTyped == Spec => []TypeOK
  BY FoodTrackerSafe, PTL

\* For every list, the rows of the table are those of its data source.
THEOREM RowsStayInStep == Spec => []RowsShowMeals
  BY FoodTrackerSafe, PTL

\* For every list, a selected row is what tells an edited meal from a new one.
THEOREM SelectionTells == Spec => []SelectionTellsMode
  BY FoodTrackerSafe, PTL

\* For every number of stars, the reset hint is on exactly the star whose tap
\* resets the rating.
THEOREM HintsTrue == Spec => []ResetHinted
  <1>1. FoodInv => ResetHinted
    BY HintGood
  <1> QED
    BY <1>1, FoodInvariant, PTL

-----------------------------------------------------------------------------
(***************************************************************************)
(* What is saved is what is shown.                                         *)
(***************************************************************************)
LEMMA OnlySaveOnMealScreen ==
  ASSUME FoodInv, [Next]_vars, screen # "list", meals' # meals
  PROVE  Save
  <1>1. ~ \E k \in DOMAIN meals : DeleteRow(k)
    BY DEF DeleteRow
  <1> QED
    BY <1>1
       DEF Next, ToggleEdit, TapAdd, TapRow, BeginEditing, Type, TapDone, TapStar,
           TapPhoto, CancelPicker, PickPhoto, Cancel, vars, mealList

SavesShown ==
  screen # "list" /\ meals' # meals =>
    \E k \in DOMAIN meals' :
      /\ Saved(meals'[k])
      /\ \A j \in DOMAIN meals : j = k \/ meals'[j] = meals[j]

LEMMA SaveShows ==
  ASSUME FoodInv, [Next]_vars
  PROVE  SavesShown
  <1> SUFFICES ASSUME screen # "list", meals' # meals
               PROVE  \E k \in DOMAIN meals' :
                        /\ Saved(meals'[k])
                        /\ \A j \in DOMAIN meals : j = k \/ meals'[j] = meals[j]
    BY DEF SavesShown
  <1>1. Save
    BY OnlySaveOnMealScreen
  <1>2. PICK m \in Meal :
          /\ m = [name |-> title, photo |-> photo, rating |-> control.rating]
          /\ screen = "add" => meals' = Append(meals, m)
          /\ screen = "edit" => meals' = [meals EXCEPT ![selectedRow] = m]
          /\ screen \in {"add", "edit"}
    BY <1>1, SaveEffect
  <1>3. Saved(m)
    <2>1. /\ control = Showing(control.rating)
          /\ control.rating \in 0..StarCount
      BY DEF FoodInv, FormInv, Control
    <2>2. control.selected = {k \in Stars : k - 1 < control.rating}
      BY <2>1 DEF Showing
    <2>3. control.selected = 1..control.rating
      BY <2>1, <2>2, StarCountAssumption DEF Stars
    <2> QED
      BY <1>2, <2>3 DEF Saved
  <1>4. meals \in Seq(Meal) /\ DOMAIN meals = 1..Len(meals)
    BY DEF FoodInv, ListInv
  <1>5. CASE screen = "add"
    <2>1. meals' = Append(meals, m)
      BY <1>2, <1>5
    <2>2. /\ Len(meals) + 1 \in DOMAIN meals' /\ meals'[Len(meals) + 1] = m
          /\ \A j \in 1..Len(meals) : meals'[j] = meals[j]
      <3>1. m \in Meal /\ meals \in Seq(Meal)
        BY <1>4
      <3>2. \A t : t = Append(meals, m) =>
              /\ Len(meals) + 1 \in DOMAIN t /\ t[Len(meals) + 1] = m
              /\ \A j \in 1..Len(meals) : t[j] = meals[j]
        BY <3>1, AppendGood
      <3> QED
        BY <2>1, <3>2, Zenon
    <2> QED
      BY <1>3, <1>4, <2>2
  <1>6. CASE screen = "edit"
    <2>1. /\ selectedRow \in 1..Len(meals)
          /\ meals' = [meals EXCEPT ![selectedRow] = m]
      BY <1>2, <1>6 DEF FoodInv, ListInv
    <2>2. /\ selectedRow \in DOMAIN meals' /\ meals'[selectedRow] = m
          /\ \A j \in 1..Len(meals) : j = selectedRow \/ meals'[j] = meals[j]
      BY <1>4, <2>1
    <2> QED
      BY <1>3, <1>4, <2>2
  <1> QED
    BY <1>2, <1>5, <1>6

\* For every list and every number of stars, a meal that enters the list from
\* a meal screen has the name, photo and filled stars that screen showed.
THEOREM SavesAsShown == Spec => SavedAsShown
  <1>1. FoodInv /\ [Next]_vars => [SavesShown]_vars
    BY SaveShows
  <1>2. Spec => [][SavesShown]_vars
    BY <1>1, FoodInvariant, PTL DEF Spec
  <1> QED
    BY <1>2 DEF SavedAsShown, SavesShown

-----------------------------------------------------------------------------
(***************************************************************************)
(* FoodTracker implements MealList.                                        *)
(***************************************************************************)
LEMMA Opened ==
  /\ screen = "list" => openedMeal = <<"none">>
  /\ screen = "add" => openedMeal = <<"new">>
  /\ screen = "edit" => openedMeal = <<"meal", selectedRow>>
  BY DEF openedMeal

LEMMA OpenedNext ==
  /\ screen' = "list" => openedMeal' = <<"none">>
  /\ screen' = "add" => openedMeal' = <<"new">>
  /\ screen' = "edit" => openedMeal' = <<"meal", selectedRow'>>
  BY DEF openedMeal

LEMMA OpenedDiffers ==
  \A k : <<"none">> # <<"new">> /\ <<"none">> # <<"meal", k>>
  OBVIOUS

LEMMA ListSimulated ==
  ASSUME FoodInv, [Next]_vars
  PROVE  [List!Next]_(List!list)
  <1>1. meals \in Seq(Meal) /\ DOMAIN meals = 1..Len(meals)
        /\ screen \in {"list", "add", "edit"}
    BY DEF FoodInv, ListInv
  <1>2. ASSUME meals' = meals, screen' = screen, selectedRow' = selectedRow
        PROVE  UNCHANGED List!list
    BY <1>2 DEF List!list, openedMeal
  <1>3. CASE \/ ToggleEdit \/ BeginEditing \/ Type \/ TapDone \/ TapPhoto
             \/ CancelPicker \/ UNCHANGED vars
             \/ \E k \in Stars : TapStar(k)
             \/ \E p \in Photo : PickPhoto(p)
    BY <1>2, <1>3
       DEF ToggleEdit, BeginEditing, Type, TapDone, TapPhoto, CancelPicker, vars,
           mealList, TapStar, PickPhoto
  <1>4. ASSUME NEW k \in DOMAIN meals, DeleteRow(k)
        PROVE  List!Next
    <2>1. List!Delete(k)
      BY <1>4, Opened, OpenedNext DEF DeleteRow, Without, List!Without, List!Delete
    <2> QED
      BY <2>1 DEF List!Next
  <1>5. CASE TapAdd
    <2>1. List!OpenNew
      BY <1>5, Opened, OpenedNext DEF TapAdd, mealList, List!OpenNew
    <2> QED
      BY <2>1 DEF List!Next
  <1>6. ASSUME NEW k \in DOMAIN meals, TapRow(k)
        PROVE  List!Next
    <2>1. List!Open(k)
      BY <1>6, Opened, OpenedNext DEF TapRow, List!Open
    <2> QED
      BY <2>1 DEF List!Next
  <1>7. CASE Cancel
    <2>1. List!Discard
      BY <1>1, <1>7, Opened, OpenedNext, OpenedDiffers
         DEF Cancel, ListAppears, OnMealScreen, List!Discard
    <2> QED
      BY <2>1 DEF List!Next
  <1>8. CASE Save
    <2>1. PICK m \in Meal :
            /\ screen = "add" => meals' = Append(meals, m)
            /\ screen = "edit" => meals' = [meals EXCEPT ![selectedRow] = m]
            /\ screen \in {"add", "edit"}
      BY <1>8, SaveEffect
    <2>2. openedMeal' = <<"none">>
      BY <1>8, OpenedNext DEF Save, ListAppears
    <2>3. CASE screen = "add"
      <3>1. List!SaveNew(m)
        BY <2>1, <2>2, <2>3, Opened DEF List!SaveNew
      <3> QED
        BY <3>1 DEF List!Next
    <2>4. CASE screen = "edit"
      <3>1. List!SaveOver(selectedRow, m)
        BY <2>1, <2>2, <2>4, Opened DEF List!SaveOver
      <3>2. selectedRow \in DOMAIN meals
        BY <1>1, <2>4 DEF FoodInv, ListInv
      <3> QED
        BY <3>1, <3>2 DEF List!Next
    <2> QED
      BY <2>1, <2>3, <2>4
  <1> QED
    BY <1>3, <1>4, <1>5, <1>6, <1>7, <1>8 DEF Next

(***************************************************************************)
(* For every list: cancelling, picking, typing and rating never touch it,  *)
(* saving replaces the row that was opened or appends, and a deletion      *)
(* removes exactly one row.                                                *)
(***************************************************************************)
THEOREM ImplementsList == Spec => ImplementsMealList
  <1>1. Init => List!Init
    BY SampleAssumption, Opened DEF Init, List!Init
  <1>2. FoodInv /\ [Next]_vars => [List!Next]_(List!list)
    BY ListSimulated
  <1> QED
    BY <1>1, <1>2, FoodInvariant, PTL DEF Spec, List!Spec, ImplementsMealList
=============================================================================
