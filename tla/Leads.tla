-------------------------------- MODULE Leads --------------------------------
(***************************************************************************)
(* A lead's triage (the inquiry routes of app/admin/studio.py) and its     *)
(* one-way mirror in Notion (sync_inquiry of app/notion_sync.py).  Every   *)
(* triage writes the row and then enqueues a sync job; a sync reads the    *)
(* row and creates the lead's page, or patches the status of the page it   *)
(* is stamped with.  The page of a create that lost the race to stamp is   *)
(* recorded as an orphan for the operator.                                 *)
(***************************************************************************)
EXTENDS Naturals, FiniteSets

CONSTANTS
  LeadIds, ClientRows, Addresses,
  AddressOf,      \* each lead's address; the one of a lead from a text is ""
  Pages,          \* pages Notion may come to hold
  Syncers,        \* threads of the job pool
  TriageTabs,     \* requests at work at once
  MaxSyncJobs,    \* bound: sync jobs waiting for one lead
  NoPage, NoLead, NoRowYet

ASSUME LeadsAssumption ==
  /\ IsFiniteSet(Syncers) /\ AddressOf \in [LeadIds -> Addresses] /\ MaxSyncJobs \in Nat
  /\ NoPage \notin Pages /\ NoLead \notin LeadIds /\ NoRowYet \notin ClientRows

VARIABLES
  lead,       \* each lead: [there, converted, client, dismissed, page, orphan, orphanOpen]
  account,    \* each client row: the lead it was made from
  syncJobs,   \* sync jobs waiting for each lead
  syncer,     \* each thread: [at, lead, status, page]
  triageTab,  \* each request: [at, lead, client]
  page,       \* each page in Notion: [lead, status]
  \* history
  stray,      \* pages whose id was lost with an answer or a thread
  surplus,    \* pages whose id found the orphan column taken
  outpaced,   \* leads of which two syncs overlapped, or a sync was given up or never enqueued
  twice       \* addresses of which two conversions overlapped

leadVars == <<lead, account, syncJobs, syncer, triageTab, page, stray, surplus, outpaced, twice>>

FreeSyncer == [at |-> "idle", lead |-> NoLead, status |-> "New", page |-> NoPage]
FreeTab == [at |-> "idle", lead |-> NoLead, client |-> NoRowYet]
NotMade == [lead |-> NoLead, status |-> "New"]

LeadInit ==
  /\ lead = [l \in LeadIds |-> [there |-> FALSE, converted |-> FALSE, client |-> NoRowYet,
                                dismissed |-> FALSE, page |-> NoPage, orphan |-> NoPage,
                                orphanOpen |-> FALSE]]
  /\ account = [c \in ClientRows |-> NoLead]
  /\ syncJobs = [l \in LeadIds |-> 0]
  /\ syncer = [s \in Syncers |-> FreeSyncer]
  /\ triageTab = [r \in TriageTabs |-> FreeTab]
  /\ page = [g \in Pages |-> NotMade]
  /\ stray = {} /\ surplus = {} /\ outpaced = {} /\ twice = {}

\* Converted wins over dismissed.
InquiryStatus(l) ==
  IF lead[l].converted THEN "Converted" ELSE IF lead[l].dismissed THEN "Dismissed" ELSE "New"

-----------------------------------------------------------------------------
OnTab(r, at, l, c) == triageTab' = [triageTab EXCEPT ![r] = [at |-> at, lead |-> l, client |-> c]]
TabRests(r) == triageTab' = [triageTab EXCEPT ![r] = FreeTab]

\* Every route of the triage ends with a job.
EnqueueSync(r) ==
  LET l == triageTab[r].lead IN
  /\ triageTab[r].at = "enqueue"
  /\ syncJobs[l] < MaxSyncJobs
  /\ syncJobs' = [syncJobs EXCEPT ![l] = @ + 1]
  /\ TabRests(r)
  /\ UNCHANGED <<lead, account, syncer, page, stray, outpaced, surplus, twice>>

TakeIn(r, l) ==
  /\ triageTab[r] = FreeTab
  /\ ~lead[l].there
  /\ lead' = [lead EXCEPT ![l].there = TRUE]
  /\ OnTab(r, "enqueue", l, NoRowYet)
  /\ UNCHANGED <<account, syncJobs, syncer, page, stray, outpaced, surplus, twice>>

\* The clients an address has.
Holders(address) == {c \in ClientRows : account[c] # NoLead /\ AddressOf[account[c]] = address}
HoldersMut(address) == {c \in ClientRows : account[c] # NoLead}

\* _inquiry_and_client: any client of the lead's address, or else a new one.
ConvertFind(r, l) ==
  /\ triageTab[r] = FreeTab
  /\ lead[l].there
  /\ IF Holders(AddressOf[l]) = {} THEN OnTab(r, "new client", l, NoRowYet)
     ELSE \E c \in Holders(AddressOf[l]) : OnTab(r, "convert", l, c)
  /\ twice' = IF \E q \in TriageTabs : triageTab[q].at = "new client"
                                       /\ AddressOf[triageTab[q].lead] = AddressOf[l]
              THEN twice \cup {AddressOf[l]} ELSE twice
  /\ UNCHANGED <<lead, account, syncJobs, syncer, page, stray, outpaced, surplus>>

ConvertNewClient(r) ==
  /\ triageTab[r].at = "new client"
  /\ \E c \in ClientRows :
       /\ account[c] = NoLead
       /\ account' = [account EXCEPT ![c] = triageTab[r].lead]
       /\ OnTab(r, "convert", triageTab[r].lead, c)
  /\ UNCHANGED <<lead, syncJobs, syncer, page, stray, outpaced, surplus, twice>>

\* The project, and for a quote the draft proposal, are inserted with new ids on
\* the way; then the stamp.  A lead already converted is not refused.
ConvertStamp(r) ==
  LET l == triageTab[r].lead IN
  /\ triageTab[r].at = "convert"
  /\ lead' = [lead EXCEPT ![l].converted = TRUE, ![l].client = triageTab[r].client]
  /\ OnTab(r, "enqueue", l, NoRowYet)
  /\ UNCHANGED <<account, syncJobs, syncer, page, stray, outpaced, surplus, twice>>

\* Undoing a conversion leaves the client and its project.
Unconvert(r, l) ==
  /\ triageTab[r] = FreeTab
  /\ lead[l].there
  /\ lead' = [lead EXCEPT ![l].converted = FALSE, ![l].client = NoRowYet]
  /\ OnTab(r, "enqueue", l, NoRowYet)
  /\ UNCHANGED <<account, syncJobs, syncer, page, stray, outpaced, surplus, twice>>

\* A converted lead is not dismissed, as far as was read.
DismissLead(r, l) ==
  \/ /\ triageTab[r] = FreeTab
     /\ lead[l].there /\ ~lead[l].converted
     /\ OnTab(r, "dismiss", l, NoRowYet)
     /\ UNCHANGED <<lead, account, syncJobs, syncer, page, stray, outpaced, surplus, twice>>
  \/ /\ triageTab[r].at = "dismiss" /\ triageTab[r].lead = l
     /\ lead' = [lead EXCEPT ![l].dismissed = TRUE]
     /\ OnTab(r, "enqueue", l, NoRowYet)
     /\ UNCHANGED <<account, syncJobs, syncer, page, stray, outpaced, surplus, twice>>

UndismissLead(r, l) ==
  /\ triageTab[r] = FreeTab
  /\ lead[l].there
  /\ lead' = [lead EXCEPT ![l].dismissed = FALSE]
  /\ OnTab(r, "enqueue", l, NoRowYet)
  /\ UNCHANGED <<account, syncJobs, syncer, page, stray, outpaced, surplus, twice>>

\* A request that fails half-way leaves what it wrote, and no job.
Unsynced(r) == IF triageTab[r].at = "enqueue" THEN {triageTab[r].lead} ELSE {}
TabDies(r) ==
  /\ triageTab[r] # FreeTab
  /\ outpaced' = outpaced \cup Unsynced(r)
  /\ TabRests(r)
  /\ UNCHANGED <<lead, account, syncJobs, syncer, page, stray, surplus, twice>>

-----------------------------------------------------------------------------
SyncEnds(s) == syncer' = [syncer EXCEPT ![s] = FreeSyncer]
Syncing(l) == \E s \in Syncers : syncer[s].lead = l

\* A sync reads the row again right before it decides.
SyncInquiry(s, l) ==
  /\ syncer[s] = FreeSyncer
  /\ syncJobs[l] > 0
  /\ syncJobs' = [syncJobs EXCEPT ![l] = @ - 1]
  /\ syncer' = [syncer EXCEPT ![s] =
       [at |-> IF lead[l].page = NoPage THEN "create" ELSE "patch",
        lead |-> l, status |-> InquiryStatus(l), page |-> lead[l].page]]
  /\ outpaced' = IF Syncing(l) THEN outpaced \cup {l} ELSE outpaced
  /\ UNCHANGED <<lead, account, triageTab, page, stray, surplus, twice>>

\* A job that raised is queued again, or given up.
SyncRaisesMut(s) == SyncEnds(s) /\ UNCHANGED <<syncJobs, outpaced>>
SyncRaises(s) ==
  LET l == syncer[s].lead IN
  /\ SyncEnds(s)
  /\ \/ /\ syncJobs[l] < MaxSyncJobs
        /\ syncJobs' = [syncJobs EXCEPT ![l] = @ + 1]
        /\ UNCHANGED outpaced
     \/ /\ outpaced' = outpaced \cup {l}
        /\ UNCHANGED syncJobs

\* Notion makes the page and answers with its id, makes it and does not answer,
\* or refuses.
CreatePage(s) ==
  /\ syncer[s].at = "create"
  /\ \/ \E g \in Pages :
          /\ page[g] = NotMade
          /\ page' = [page EXCEPT ![g] = [lead |-> syncer[s].lead, status |-> syncer[s].status]]
          /\ \/ /\ syncer' = [syncer EXCEPT ![s].at = "stamp", ![s].page = g]
                /\ UNCHANGED <<syncJobs, stray, outpaced>>
             \/ stray' = stray \cup {g} /\ SyncRaises(s)
     \/ SyncRaises(s) /\ UNCHANGED <<page, stray>>
  /\ UNCHANGED <<lead, account, triageTab, surplus, twice>>

StampableMut(l) == TRUE
Stampable(l) == lead[l].page = NoPage

StampPage(s) ==
  LET l == syncer[s].lead IN
  /\ syncer[s].at = "stamp"
  /\ IF Stampable(l)
     THEN lead' = [lead EXCEPT ![l].page = syncer[s].page] /\ SyncEnds(s)
     ELSE syncer' = [syncer EXCEPT ![s].at = "orphan"] /\ UNCHANGED lead
  /\ UNCHANGED <<account, syncJobs, triageTab, page, stray, outpaced, surplus, twice>>

\* There is one column for an orphan, and it is never emptied.
RecordOrphan(s) ==
  LET l == syncer[s].lead IN
  /\ syncer[s].at = "orphan"
  /\ IF lead[l].orphan = NoPage
     THEN /\ lead' = [lead EXCEPT ![l].orphan = syncer[s].page, ![l].orphanOpen = TRUE]
          /\ UNCHANGED surplus
     ELSE surplus' = surplus \cup {syncer[s].page} /\ UNCHANGED lead
  /\ SyncEnds(s)
  /\ UNCHANGED <<account, syncJobs, triageTab, page, stray, outpaced, twice>>

PatchPage(s) ==
  /\ syncer[s].at = "patch"
  /\ \/ /\ page' = [page EXCEPT ![syncer[s].page].status = syncer[s].status]
        /\ SyncEnds(s)
        /\ UNCHANGED <<syncJobs, outpaced>>
     \/ SyncRaises(s) /\ UNCHANGED page
  /\ UNCHANGED <<lead, account, triageTab, stray, surplus, twice>>

\* The operator adopts an open orphan, or closes it: only closes it where the
\* lead is stamped already.
RelinkOrphan(l) ==
  /\ lead[l].orphanOpen
  /\ lead' = [lead EXCEPT ![l].orphanOpen = FALSE,
                          ![l].page = IF lead[l].page = NoPage THEN lead[l].orphan ELSE lead[l].page]
  /\ UNCHANGED <<account, syncJobs, syncer, triageTab, page, stray, outpaced, surplus, twice>>

DismissOrphan(l) ==
  /\ lead[l].orphanOpen
  /\ lead' = [lead EXCEPT ![l].orphanOpen = FALSE]
  /\ UNCHANGED <<account, syncJobs, syncer, triageTab, page, stray, outpaced, surplus, twice>>

\* A kill: the restart queues again what was running; ids in hand are lost.
ProcessKilled ==
  /\ \E s \in Syncers : syncer[s] # FreeSyncer
  /\ stray' = stray \cup {syncer[s].page : s \in {t \in Syncers : syncer[t].at \in {"stamp", "orphan"}}}
  /\ syncJobs' = [l \in LeadIds |-> IF Syncing(l) /\ syncJobs[l] < MaxSyncJobs
                                    THEN syncJobs[l] + 1 ELSE syncJobs[l]]
  /\ syncer' = [s \in Syncers |-> FreeSyncer]
  /\ outpaced' = outpaced \cup UNION {Unsynced(r) : r \in TriageTabs}
  /\ triageTab' = [r \in TriageTabs |-> FreeTab]
  /\ UNCHANGED <<lead, account, page, surplus, twice>>

LeadNext ==
  \/ \E r \in TriageTabs :
       \/ EnqueueSync(r) \/ ConvertNewClient(r) \/ ConvertStamp(r) \/ TabDies(r)
       \/ \E l \in LeadIds : \/ TakeIn(r, l) \/ ConvertFind(r, l) \/ Unconvert(r, l)
                             \/ DismissLead(r, l) \/ UndismissLead(r, l)
  \/ \E s \in Syncers :
       \/ CreatePage(s) \/ StampPage(s) \/ RecordOrphan(s) \/ PatchPage(s)
       \/ \E l \in LeadIds : SyncInquiry(s, l)
  \/ \E l \in LeadIds : RelinkOrphan(l) \/ DismissOrphan(l)
  \/ ProcessKilled

LeadSpec == LeadInit /\ [][LeadNext]_leadVars

-----------------------------------------------------------------------------
Statuses == {"New", "Converted", "Dismissed"}

LeadTypeOK ==
  /\ lead \in [LeadIds -> [there : BOOLEAN, converted : BOOLEAN, client : ClientRows \cup {NoRowYet},
                           dismissed : BOOLEAN, page : Pages \cup {NoPage},
                           orphan : Pages \cup {NoPage}, orphanOpen : BOOLEAN]]
  /\ account \in [ClientRows -> LeadIds \cup {NoLead}]
  /\ syncJobs \in [LeadIds -> 0..MaxSyncJobs]
  /\ syncer \in [Syncers -> [at : {"idle", "create", "stamp", "orphan", "patch"},
                             lead : LeadIds \cup {NoLead}, status : Statuses,
                             page : Pages \cup {NoPage}]]
  /\ triageTab \in [TriageTabs -> [at : {"idle", "enqueue", "new client", "convert", "dismiss"},
                                   lead : LeadIds \cup {NoLead}, client : ClientRows \cup {NoRowYet}]]
  /\ page \in [Pages -> [lead : LeadIds \cup {NoLead}, status : Statuses]]
  /\ stray \subseteq Pages /\ surplus \subseteq Pages /\ outpaced \subseteq LeadIds /\ twice \subseteq Addresses

InHand(g) == \E s \in Syncers : syncer[s].page = g /\ syncer[s].at \in {"stamp", "orphan"}

\* 'Durable orphan record for operator relink/dismiss' (notion_sync.py:385): every
\* page in Notion is the lead's stamped one, its recorded orphan, or in a thread's
\* hand, unless its id was lost.  The one column for orphans is enough for the two
\* threads of the default pool, but not for more.
PagesAreKnown ==
  /\ \A g \in Pages \ (stray \cup surplus) : page[g] # NotMade =>
       InHand(g) \/ g \in {lead[page[g].lead].page, lead[page[g].lead].orphan}
  /\ surplus # {} => Cardinality(Syncers) > 2

\* 'the Notion view tracks triage' (notion_sync.py:326): with nothing left to do
\* for a lead, its page shows the triage, unless two syncs had overlapped (the
\* older read may be written last) or a sync never ran.
QuietMirrorTracks ==
  \A l \in LeadIds \ outpaced :
    /\ lead[l].page # NoPage /\ syncJobs[l] = 0 /\ ~Syncing(l)
    /\ \A r \in TriageTabs : triageTab[r].lead # l
    => page[lead[l].page].status = InquiryStatus(l)

\* find-or-create by email (studio.py:142): a lead's client has the lead's
\* address, and an address has two clients only if two conversions overlapped.
\* The address "" of every lead from a text is one of them: strangers share it.
ClientHasTheirAddress ==
  /\ \A l \in LeadIds : lead[l].client # NoRowYet =>
       AddressOf[account[lead[l].client]] = AddressOf[l]
  /\ \A c, d \in ClientRows :
       /\ c # d /\ NoLead \notin {account[c], account[d]}
       /\ AddressOf[account[c]] = AddressOf[account[d]]
       => AddressOf[account[c]] \in twice
=============================================================================
