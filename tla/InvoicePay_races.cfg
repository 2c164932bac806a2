SPECIFICATION RacesSpec
CONSTANTS
  Prices <- MCPrices
  Sessions = {s1, s2, s3}
  Payers = {p1, p2}
  Hooks = {h1}
  Viewers = {v1}
  Admins = {a1, a2}
  SlowPay = TRUE
  None = None
CHECK_DEADLOCK FALSE
SYMMETRY RaceSymmetry
INVARIANTS
  IInv
  LedgerMatchesStripe
  NoMoneyUnaccounted
  NeverChargedTwice
