SPECIFICATION DeliverySpec
CONSTANTS
  Foci = {"shoots", "expiry", "asks", "picks", "bills", "contracts", "patrons", "thread", "resolve", "hide",
          "taps", "sorting", "cover", "delete", "cut", "pack", "inline", "section", "jobs", "files", "clips",
          "ask", "write", "plutus", "pin", "login", "form", "rate", "migrate", "ops", "crash"}
  Shoots = {s1}
  Albums = {a1, a2}
  Bills = {b1}
  Papers = {p1}
  Patrons = {"c", "d"}
  NoPatron = NoPatron
  ExpiryLead = 1
  ProofAge = 1
  AskAge = 1
  Cooldown = 2
  ContractAge = 1
  YearAge = 1
  YearWindow = 1
  Renudge = 2
  WeekDays = 2
  Opens <- TwoOpenings
  LastDay = 4
  Comments = {1, 2, 3}
  Reviewers = {r1, r2}
  NoComment = NoComment
  Photos = {p1, p2}
  Sections = {s1, s2}
  Visitors = {v1}
  Taps = {t1, t2}
  Desks = {d1, d2}
  MaxTarget = 1
  NoPhoto = NoPhoto
  NoSection = NoSection
  Stills = {s1}
  Presets = {1, 2}
  CropJobs = {j1, j2}
  Packers = {k1, k2}
  NoStill = NoStill
  NoPacker = NoPacker
  Frames = {p1, p2}
  Lists = {v1, v2, s1}
  FamilyOf <- TwoFamilies
  Inliners = {i1, i2}
  BundleJobs = {j1, j2}
  InlineMax = 1
  NoBuilder = NoBuilder
  Originals = {o1, o2}
  Streams = {u1, u2}
  Drawers = {s1}
  Removers = {d1}
  Cuts = {"9x16", "1x1"}
  ClipJobs = {j1, j2}
  NoDrawer = NoDrawer
  NoOriginal = NoOriginal
  NoEncoder = NoEncoder
  Analyses = {a1}
  Runs = {1, 2}
  CallbackThreads = {c1}
  MaxReplies = 1
  Ips = {1, 2}
  Doors <- FourDoors
  Knockers = {r1, r2}
  MaxFails = 2
  LockFor = 2
  MaxAll = 3
  AllFor = 3
  MaxInquiries = 1
  Limit = 2
  Window = 1
  GcAge = 1
  LastTick = 3
  Files = {1, 2, 3}
  Toggles = {2}
  Repeatable = {2}
  Alias <- OldNames
  Runners = {r1, r2}
  NoRunner = NoRunner
  Conditions = {"disk"}
  Routes = {"r"}
  OpsCooldown = 2
  ErrorCooldown = 2
  MaxPass = 1
  MaxClock = 7
  MaxCrashes = 4
  MaxRestarts = 1
  a1 = a1
  a2 = a2
  d1 = d1
  i1 = i1
  j1 = j1
  p1 = p1
  r1 = r1
  s1 = s1
  t1 = t1
CHECK_DEADLOCK FALSE
INVARIANTS
  DeliveryTypeOK NoticesAreTruthful GalleryHolds FilesHold MigrationsHold
