\* One order screen, up to forty of an item.
SPECIFICATION Spec
CONSTANTS
  thaiTea = thaiTea
  pepperoni = pepperoni
  sample = sample
  Item <- MCItem
  Price <- MCPrice
  MaxCount = 40
INVARIANTS
  ScreenConsistent
  ChargeNotStale
  MinusUndoesPlus
