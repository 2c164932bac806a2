SPECIFICATION Spec
CONSTANTS
  Bookings = {b1, b2}
  Slots = {1}
  Clash <- MCClash
  MaxPerDay = 0
  Fee = TRUE
  Sessions = {s1, s2}
  Visitors = {v1}
  Hooks = {h1}
  None = None
CHECK_DEADLOCK FALSE
INVARIANT NoDoubleBooking
