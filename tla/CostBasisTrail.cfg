SPECIFICATION Spec
CONSTANTS
  Quantities <- MCQuantities
  Prices = {1, 2, 4}
  MaxFills = 4
INVARIANTS
  BasisWithinPricesPaid
  SplitFillsAgree
CHECK_DEADLOCK FALSE
