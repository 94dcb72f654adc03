\* The shopping screens with up to three openings of the side menu and up to
\* three of an item.
SPECIFICATION AppSpec
CONSTANTS
  tapioca = tapioca
  sliver = sliver
  gypsys = gypsys
  ribs = ribs
  tea = tea
  pepperoni = pepperoni
  None = None
  Restaurant <- MCRestaurant
  Restaurants <- MCRestaurants
  Item <- MCItem
  Menu <- MCMenu
  Price <- MCPrice
  Categories <- MCCategories
  MaxCount = 3
  MaxShows = 3
INVARIANTS
  AppTypeOK
  NoTrap
  StackOrdered
  TrailMatches
  ScrimDismissable
PROPERTIES
  CoveredScreensFrozen
  FirstCategoryOnAppearing
  ImplementsOrderFlow
