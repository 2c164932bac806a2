SPECIFICATION Spec
CONSTANTS
  Bookings = {b1, b2, b3}
  Slots = {1, 2}
  Clash <- MCClash
  MaxPerDay = 0
  Fee = TRUE
  Sessions = {s1, s2}
  Visitors = {v1, v2}
  Hooks = {h1}
  None = None
CHECK_DEADLOCK FALSE
SYMMETRY Symmetry
INVARIANTS
  IInv
  ClashOnlyIfLate
  ConfirmedFamilyPaidOnce
  NoMoneyUnaccounted
PROPERTY ReleasedStaysReleased
