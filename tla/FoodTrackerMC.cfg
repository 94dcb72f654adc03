\* Up to three meals, two names, two photos, two stars.
SPECIFICATION Spec
CONSTANTS
  salad = salad
  pasta = pasta
  noPhoto = noPhoto
  meal1 = meal1
  Empty = Empty
  NewMealTitle = NewMealTitle
  Nil = Nil
  Name <- MCName
  Photo <- MCPhoto
  DefaultPhoto = noPhoto
  StarCount = 2
  MaxRating = 2
  SampleMeals <- MCSampleMeals
  MaxMeals = 3
INVARIANTS
  TypeOK
  RowsShowMeals
  EnabledSaveSaves
  SelectionTellsMode
  ResetHinted
PROPERTIES
  SavedAsShown
  ImplementsMealList
