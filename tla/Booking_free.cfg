SPECIFICATION Spec
CONSTANTS
  Bookings = {b1, b2, b3, b4}
  Slots = {1, 2, 4, 6}
  Clash <- MCClash
  MaxPerDay = 2
  Fee = FALSE
  Sessions = {}
  Visitors = {v1, v2}
  Hooks = {}
  None = None
CHECK_DEADLOCK FALSE
SYMMETRY Symmetry
INVARIANTS
  NoDoubleBooking
  OneConfirmedPerFamily
  CapOnlyExceededIfLate
PROPERTY KeepsReservation
