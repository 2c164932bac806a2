SPECIFICATION LiveSpec
CONSTANTS
  Prices <- MCPriceDeposit
  Sessions = {s1, s2}
  Payers = {p1}
  Hooks = {h1, h2}
  Viewers = {}
  Admins = {a1, a2}
  SlowPay = TRUE
  None = None
CHECK_DEADLOCK FALSE
PROPERTY MoneyIsEventuallyAccounted
INVARIANT StatusIsTrue
