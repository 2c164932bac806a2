------------------------------- MODULE WorkPages -------------------------------
(***************************************************************************)
(* A project's Session page in Notion (app/notion_sync.py): the jobs that  *)
(* copy the money of its invoice and the delivery of its gallery to the    *)
(* page, the booking that links the page, the letter that hands the work   *)
(* over, and the owner's project form, which writes back every field it    *)
(* showed.  A project has one invoice, one gallery and one page here; the  *)
(* sending and paying of the invoice are InvoicePay's, and the retries of  *)
(* a job JobQueue's.                                                       *)
(***************************************************************************)
EXTENDS Naturals, FiniteSets

CONSTANTS
  PageSyncs,    \* sync jobs at once: waiting, or on a worker
  ProjectTabs,  \* open project forms
  MaxShown      \* bound: times a gallery is published

ASSUME WorkPagesAssumption == MaxShown \in Nat

VARIABLES
  work,      \* the project: [linked, stage]
  invoice,   \* the invoice: [deposit, status]
  shown,     \* the gallery: [live, times], times counting its publications
  pageSync,  \* each job: [at, what, read], read being the row it goes by
  projectTab,\* each form: [open, row]
  sheet,     \* the page: [paid, deposit, delivered]
  handover,  \* the final letter: [at, moved], moved if the stage changed since it was read
  mailed,    \* the letter: [sent, logged, cut], cut if a request ended halfway
  \* history
  unsynced,  \* kinds of job that were lost, given up, or ran before the page was linked
  overtook,  \* two invoice jobs were on workers at once
  rewound,   \* a form put the project before the money gate again
  cleared,   \* a form took the page away
  reopened   \* a letter closed a project that was archived when the letter read it

workVars == <<work, invoice, shown, pageSync, projectTab, sheet, handover, mailed,
              unsynced, overtook, rewound, cleared, reopened>>

history == <<unsynced, overtook, rewound, cleared, reopened>>
letters == <<handover, mailed, reopened>>

WorkStages == {"proposal_sent", "retainer_paid", "project_closed", "archived"}
FreeSync   == [at |-> "free", what |-> "invoice", read |-> "draft"]
ClosedTab  == [open |-> FALSE, row |-> [linked |-> FALSE, stage |-> "proposal_sent"]]

WorkInit ==
  /\ work = ClosedTab.row
  /\ invoice \in [deposit : BOOLEAN, status : {"draft"}]
  /\ shown = [live |-> FALSE, times |-> 0]
  /\ pageSync = [j \in PageSyncs |-> FreeSync]
  /\ projectTab = [t \in ProjectTabs |-> ClosedTab]
  /\ sheet = [paid |-> FALSE, deposit |-> FALSE, delivered |-> FALSE]
  /\ handover = [at |-> "idle", moved |-> FALSE] /\ mailed = [sent |-> FALSE, logged |-> FALSE, cut |-> FALSE]
  /\ unsynced = {} /\ overtook = FALSE /\ rewound = FALSE /\ cleared = FALSE /\ reopened = FALSE

-----------------------------------------------------------------------------
(* What is enqueued *)

Enqueues(j, what) ==
  /\ pageSync[j] = FreeSync
  /\ pageSync' = [pageSync EXCEPT ![j].at = "waiting", ![j].what = what]
  /\ UNCHANGED unsynced

\* A job of its own transaction may be lost to a kill before it.
EnqueuesLater(j, what) ==
  \/ Enqueues(j, what)
  \/ unsynced' = unsynced \cup {what} /\ UNCHANGED pageSync

SendBill(j) ==
  /\ invoice.status = "draft"
  /\ invoice' = [invoice EXCEPT !.status = "sent"]
  /\ EnqueuesLater(j, "invoice")
  /\ UNCHANGED <<work, shown, projectTab, sheet, overtook, rewound, cleared, letters>>

\* A change of stage between a letter's read and its write.
Noticed(stage) ==
  IF handover.at = "close" /\ stage # work.stage THEN [handover EXCEPT !.moved = TRUE] ELSE handover

\* A payment, the project's stage and the job commit together; a project past the
\* money gate stays where it is.
AdvancesMut(stage) == stage
Advances(stage) == IF stage = "proposal_sent" THEN "retainer_paid" ELSE stage

BillPaid(j) ==
  /\ invoice.status \in {"sent", "deposit_paid"}
  /\ invoice' = [invoice EXCEPT !.status =
                   IF invoice.deposit /\ invoice.status = "sent" THEN "deposit_paid" ELSE "paid"]
  /\ work' = [work EXCEPT !.stage = Advances(@)]
  /\ handover' = Noticed(work'.stage)
  /\ rewound' = FALSE
  /\ Enqueues(j, "invoice")
  /\ UNCHANGED <<shown, projectTab, sheet, overtook, cleared, mailed, reopened>>

\* Publishing is the delivery; only the step from unpublished enqueues it.
PublishGallery(j) ==
  /\ ~shown.live /\ shown.times < MaxShown
  /\ shown' = [live |-> TRUE, times |-> shown.times + 1]
  /\ EnqueuesLater(j, "gallery")
  /\ UNCHANGED <<work, invoice, projectTab, sheet, overtook, rewound, cleared, letters>>

HideGallery ==
  /\ shown.live
  /\ shown' = [shown EXCEPT !.live = FALSE]
  /\ UNCHANGED <<work, invoice, pageSync, projectTab, sheet, handover, mailed, history>>

-----------------------------------------------------------------------------
(* The jobs *)

\* What is not linked is skipped for good, as is a gallery that is not published.
SyncReads(j) ==
  LET what == pageSync[j].what
      goes == work.linked /\ (what = "gallery" => shown.live)
  IN
  /\ pageSync[j].at = "waiting"
  /\ pageSync' = [pageSync EXCEPT ![j] =
       IF goes THEN [@ EXCEPT !.at = "patch", !.read = IF what = "invoice" THEN invoice.status ELSE pageSync[j].read] ELSE FreeSync]
  /\ unsynced' = IF work.linked THEN unsynced ELSE unsynced \cup {what}
  /\ overtook' = (overtook \/ (what = "invoice" /\ goes
                   /\ \E k \in PageSyncs : pageSync[k].at = "patch" /\ pageSync[k].what = "invoice"))
  /\ UNCHANGED <<work, invoice, shown, projectTab, sheet, rewound, cleared, letters>>

\* The fields of the page, by the names its readers know.
InvoicePaid(status) == status = "paid"
DepositPaidMut(status) == invoice.deposit /\ status = "deposit_paid"
DepositPaid(status) == invoice.deposit /\ status \in {"deposit_paid", "paid"}

DeliveryPage == [sheet EXCEPT !.delivered = TRUE]
PageOf(j) ==
  IF pageSync[j].what = "gallery" THEN DeliveryPage
  ELSE [sheet EXCEPT !.paid = InvoicePaid(pageSync[j].read), !.deposit = DepositPaid(pageSync[j].read)]

\* Notion takes the patch and answers, takes it and does not, or refuses; without
\* an answer the job comes again or is given up.
SyncPatches(j) ==
  /\ pageSync[j].at = "patch"
  /\ \/ /\ sheet' = PageOf(j)
        /\ pageSync' = [pageSync EXCEPT ![j] = FreeSync]
        /\ UNCHANGED unsynced
     \/ /\ sheet' \in {sheet, PageOf(j)}
        /\ \/ pageSync' = [pageSync EXCEPT ![j] = [FreeSync EXCEPT !.at = "waiting", !.what = pageSync[j].what]]
              /\ UNCHANGED unsynced
           \/ pageSync' = [pageSync EXCEPT ![j] = FreeSync]
              /\ unsynced' = unsynced \cup {pageSync[j].what}
  /\ UNCHANGED <<work, invoice, shown, projectTab, overtook, rewound, cleared, letters>>

\* A booking's Session page becomes the page of a project that has none.
LinkSession ==
  /\ ~work.linked
  /\ work' = [work EXCEPT !.linked = TRUE]
  /\ UNCHANGED <<invoice, shown, pageSync, projectTab, sheet, handover, mailed, history>>

-----------------------------------------------------------------------------
(* The project form *)

OpenProject(t) ==
  /\ projectTab' = [projectTab EXCEPT ![t] = [open |-> TRUE, row |-> work]]
  /\ UNCHANGED <<work, invoice, shown, pageSync, sheet, handover, mailed, history>>

\* The form writes the stage and the page it showed, or what was typed over them.
SaveProject(t, typed) ==
  /\ projectTab[t].open
  /\ typed.linked = projectTab[t].row.linked \/ typed.stage = projectTab[t].row.stage
  /\ work' = typed
  /\ handover' = Noticed(typed.stage)
  /\ projectTab' = [projectTab EXCEPT ![t] = ClosedTab]
  /\ rewound' = (rewound \/ (typed.stage = "proposal_sent" /\ work.stage # "proposal_sent"))
  /\ cleared' = (cleared \/ (work.linked /\ ~typed.linked))
  /\ UNCHANGED <<invoice, shown, pageSync, sheet, unsynced, overtook, mailed, reopened>>

-----------------------------------------------------------------------------
(* The final letter *)

MailerSays(l, m) == handover' = l /\ mailed' = m

\* A published gallery's letter goes out; mail that fails ends the request.
SendFinal ==
  /\ handover.at = "idle" /\ shown.live
  /\ MailerSays([handover EXCEPT !.at = "sent"], [mailed EXCEPT !.sent = TRUE])
  /\ UNCHANGED <<work, invoice, shown, pageSync, projectTab, sheet, history>>

LogLetter ==
  /\ handover.at = "sent"
  /\ MailerSays([handover EXCEPT !.at = "logged"], [mailed EXCEPT !.logged = TRUE])
  /\ UNCHANGED <<work, invoice, shown, pageSync, projectTab, sheet, history>>

\* What is closed or archived is left alone.
PreDeliveredMut(stage) == stage # "project_closed"
PreDelivered(stage) == stage \in {"proposal_sent", "retainer_paid"}

ReadStage ==
  /\ handover.at = "logged"
  /\ handover' = [at |-> IF PreDelivered(work.stage) THEN "close" ELSE "idle", moved |-> FALSE]
  /\ UNCHANGED <<work, invoice, shown, pageSync, projectTab, sheet, mailed, history>>

CloseProject ==
  /\ handover.at = "close"
  /\ work' = [work EXCEPT !.stage = "project_closed"]
  /\ reopened' = (reopened \/ (work.stage = "archived" /\ ~handover.moved))
  /\ handover' = [at |-> "idle", moved |-> FALSE]
  /\ UNCHANGED <<invoice, shown, pageSync, projectTab, sheet, mailed,
                 unsynced, overtook, rewound, cleared>>

\* An error or a kill: the letter is on its way, the rest is not done.
LetterCut ==
  /\ handover.at # "idle"
  /\ MailerSays([at |-> "idle", moved |-> FALSE], [mailed EXCEPT !.cut = TRUE])
  /\ UNCHANGED <<work, invoice, shown, pageSync, projectTab, sheet, history>>

WorkNext ==
  \/ \E j \in PageSyncs : SendBill(j) \/ BillPaid(j) \/ PublishGallery(j) \/ SyncReads(j) \/ SyncPatches(j)
  \/ HideGallery \/ LinkSession
  \/ SendFinal \/ LogLetter \/ ReadStage \/ CloseProject \/ LetterCut
  \/ \E t \in ProjectTabs :
       OpenProject(t) \/ \E typed \in [linked : BOOLEAN, stage : WorkStages] : SaveProject(t, typed)

WorkSpec == WorkInit /\ [][WorkNext]_workVars

-----------------------------------------------------------------------------
WorkTypeOK ==
  /\ work \in [linked : BOOLEAN, stage : WorkStages]
  /\ invoice \in [deposit : BOOLEAN, status : {"draft", "sent", "deposit_paid", "paid"}]
  /\ shown \in [live : BOOLEAN, times : 0..MaxShown]
  /\ pageSync \in [PageSyncs -> [at : {"free", "waiting", "patch"}, what : {"invoice", "gallery"},
                                 read : {"draft", "sent", "deposit_paid", "paid"}]]
  /\ projectTab \in [ProjectTabs -> [open : BOOLEAN, row : [linked : BOOLEAN, stage : WorkStages]]]
  /\ sheet \in [paid : BOOLEAN, deposit : BOOLEAN, delivered : BOOLEAN]
  /\ unsynced \subseteq {"invoice", "gallery"}
  /\ handover \in [at : {"idle", "sent", "logged", "close"}, moved : BOOLEAN]
  /\ mailed \in [sent : BOOLEAN, logged : BOOLEAN, cut : BOOLEAN] /\ reopened \in BOOLEAN
  /\ overtook \in BOOLEAN /\ rewound \in BOOLEAN /\ cleared \in BOOLEAN

Settled(what) == \A j \in PageSyncs : pageSync[j] = FreeSync \/ pageSync[j].what # what

\* 'Keeps Odysseus automations accurate' (app/notion_sync.py:3): once its jobs are
\* through, the page says of the money what the invoice does, unless a job was
\* skipped, given up or lost, or two of them overlapped; and a gallery that is
\* shown was delivered, unless its job was.
PageTellsTheMoney ==
  /\ Settled("invoice") /\ "invoice" \notin unsynced /\ ~overtook =>
       /\ sheet.paid = InvoicePaid(invoice.status)
       /\ sheet.deposit = (invoice.deposit /\ invoice.status \in {"deposit_paid", "paid"})
  /\ Settled("gallery") /\ "gallery" \notin unsynced /\ shown.live => sheet.delivered
  /\ sheet.delivered => shown.times > 0

\* 'Never rewinds a project' (app/public/pay.py:674): a project with money is past
\* the money gate unless a form was saved over it afterwards; and a project whose
\* jobs have reached its page has it still, unless a form took it away.
MoneyGateHolds ==
  /\ invoice.status \in {"deposit_paid", "paid"} /\ ~rewound => work.stage # "proposal_sent"
  /\ sheet # [paid |-> FALSE, deposit |-> FALSE, delivered |-> FALSE] /\ ~cleared => work.linked

\* 'Already closed or archived states are left alone' (app/admin/galleries.py:647):
\* a letter does not open an archived project again, unless it was archived after
\* the letter read it; and a letter that went out is on record unless it was cut off.
HandOverHolds ==
  /\ ~reopened
  /\ mailed.sent /\ handover.at # "sent" /\ ~mailed.cut => mailed.logged

WorkPagesHold == PageTellsTheMoney /\ MoneyGateHolds /\ HandOverHolds
=============================================================================
