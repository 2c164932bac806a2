SPECIFICATION Spec
CONSTANTS
  Prices <- MCPrices
  Sessions = {s1, s2}
  Payers = {p1}
  Hooks = {h1}
  Viewers = {v1}
  Admins = {a1}
  SlowPay = TRUE
  None = None
CHECK_DEADLOCK FALSE
PROPERTY SettledNeverReopens
