SPECIFICATION StudioSpec
CONSTANTS
  Foci = {"offer", "paper", "both", "tree", "brand", "forms", "reach", "bill", "write",
          "owner mail", "texts", "convert", "page", "mirror", "invitations", "pages", "link", "letters", "resent",
          "diary", "console", "event", "build", "visit", "types", "money", "delivery", "hand over", "quotes", "links"}
  Proposals = {p1, p2}
  Contracts = {c1}
  Requests = {r1, r2}
  HandStages = {"inquiry_received", "retainer_paid"}
  Totals = {1, 2}
  NoTotal = NoTotal
  Nobody = Nobody
  ClientIds = {c1, c2, c3}
  Galleries = {g1}
  Appointments = {b1}
  Kits = {k1}
  TreeRequests = {r1, r2}
  NoClient = NoClient
  NoKit = NoKit
  Licences = {l1}
  Clerks = {q1, q2}
  NoLicence = NoLicence
  Plans = {p1}
  Slots = {s1}
  Captions = {k1}
  Biller = Biller
  Buttons = {g1}
  Rates = {0, 1, 2}
  MaxMonth = 2
  MaxDrafts = 2
  MaxLogged = 1
  NoPlan = NoPlan
  NoSlot = NoSlot
  Inquiries = {i1}
  Senders = {s1, s2}
  InboxTabs = {t1, t2}
  MaxMailJobs = 2
  MaxOwnerMails = 2
  NoInquiry = NoInquiry
  Threads = {1, 2}
  Numbers = {"n1"}
  Texts = {"m1"}
  Calls = {"k1"}
  Notes = {a, b}
  From <- OneNumber
  Handlers = {h1, h2}
  NoThread = NoThread
  NoNumber = NoNumber
  LeadIds = {l1, l2}
  ClientRows = {k1, k2}
  Addresses = {""}
  AddressOf <- NoAddress
  Pages = {g1, g2, g3}
  Syncers = {s1, s2}
  TriageTabs = {m1, m2}
  MaxSyncJobs = 2
  NoPage = NoPage
  NoLead = NoLead
  NoRowYet = NoRowYet
  Appts = {1, 2}
  GEvents = {e1, e2}
  Callbacks = {t1, t2}
  NoAppt = NoAppt
  NoEvent = NoEvent
  Rebooked = {1, 2, 3}
  NotionPages = {1, 2, 3, 4}
  Notifiers = {n1, n2}
  NoPg = NoPg
  Accounts = {g1, g2}
  Askers = {k1, k2}
  States = {s1, s2}
  NoAccount = NoAccount
  NoState = NoState
  People = {p1, p2}
  Letters = {l1}
  MaxTries = 2
  MaxClaims = 3
  MaxPresses = 1
  DayUnits = 3
  Change = 1
  Consoles = {t1, t2}
  DefaultOpen = 1
  DefaultClose = 3
  Caps = {0, 1}
  Turnarounds = {0, 1}
  MinNotice = 0
  WindowDays = 1
  MaxNow = 1
  FieldIds = {1, 2, 3}
  Questions = {q1, q2}
  FormEditors = {b1, b2}
  FormVisitors = {v1}
  MaxForms = 2
  MaxOrder = 3
  NoQuestion = NoQuestion
  MaxTypes = 2
  Slugs = {x1, x2}
  Bookers = {v1}
  Removers = {a1, a2}
  NoSlug = NoSlug
  PageSyncs = {j1, j2}
  ProjectTabs = {t1}
  MaxShown = 2
  Links = {l1, l2}
  Writers = {v1, v2}
  Moderators = {a1}
  MaxQuotes = 2
  Owner = Owner
  NoLink = NoLink
  b2 = b2
  p2 = p2
  c2 = c2
  c3 = c3
  q1 = q1
  q2 = q2
  r1 = r1
  l1 = l1
  l2 = l2
  m1 = m1
CHECK_DEADLOCK FALSE
INVARIANTS
  StudioTypeOK PapersAgree TreeAndLicencesHold RetainersHold OwnerHears LeadsAreKept CalendarsAgree
PROPERTY OnlyStaleReadersUnlock
