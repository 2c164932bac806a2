# Mise: a formal model

Mise is a FastAPI and SQLite application that runs a photography studio: client
galleries, bookings, proposals, contracts, invoices and the mail around them.
One process serves it. Request threads, a pool of job workers, a job sweeper and
an hourly scheduler thread share one SQLite database in WAL mode, the disk, and
a few module globals; Stripe, Google Calendar, Notion, the mail server, the text
and call vendor and the companion services (Argus, Plutus, PlateKit) are
outside. Most of what can go wrong follows from that shape:

* a handler reads a row in one statement and writes it in a later one, and
  another thread may write in between;
* an effect outside the database (a charge, a mail, a file, a page) and the row
  that records it cannot be one transaction, so a kill falls between them;
* the outside delivers late, twice and out of order;
* SQLite gives the id of a deleted last row to the next one, in tables without
  `AUTOINCREMENT`, and files and stale pages still go by the old id.

The modules here are written from the source under `src/`. A database statement
or transaction is one step, every call to the outside is a step of its own, and
anything between two steps can be interleaved or cut off.

## Inventory

| part | state | operations | what is hard | module |
|---|---|---|---|---|
| Job queue (`app/jobs.py`) | `jobs`, `assets.status`; pool, `_inflight` | stage, dispatch, claim, execute, back off, sweep, retry, prune | four sources offer one job; outcome writes have no guard; kills | JobQueue |
| Invoice payment (`public/pay.py`, `admin/invoices.py`) | invoice, `payments`, audit; Stripe sessions and keys | edit, send, view, pay, webhook | stale reads, replayed keys, bank debits, redelivery | InvoicePay |
| Booking (`scheduling.py`, `public/scheduling.py`) | `bookings`, `booking_payments` | claim, reschedule, cancel, pay, sweep, webhook | two visitors, stale pages, late payments | Booking |
| Gallery archive (`jobs.py`, `public/downloads.py`) | `content_rev`, assets, files | upload, ingest, delete, build, download, wait, evict | shared temporary file, revisions | GalleryZip |
| Proposals, contracts (`public/docs.py`, `admin/proposals.py`, `contracts.py`) | documents, project stage | send, view, accept, decline, sign, countersign, convert | unguarded writes after a read | Documents |
| Clients, brand kits (`clients.py`, `admin/studio_brand.py`) | hierarchy, logo files | make, move, delete, kits, links | checks of two requests | ClientTree |
| Licences (`admin/licenses.py`) | licences, coverage, audit log | edit, status, walk up and down | diffs over stale reads | Licences |
| Retainers (`admin/recurring.py`) | plans, drafts, slots, captions | claim a month, draft, edit, delete | button against sweep, late answers of the drafting service | Retainer |
| Inquiry mail (`inquiry_notify.py`, `admin/inbox.py`) | claim and stamp, jobs | submit, claim, send, stamp, retry, reply | a stale claim is taken over | OwnerMail |
| Texts and calls (`public/sms_webhook.py`) | threads, messages | webhook, triage | repeated and late events | TextThreads |
| Leads (`admin/studio.py`, `notion_sync.py`) | inquiry, client, page and orphan ids | convert, dismiss, sync, relink | two creates of one page | Leads |
| Calendar mirror (`gcal.py`, `booking_notify.py`) | `google_event_id`, remote events | create, delete, inherit | confirm and cancel overlap | BookingMirror |
| Google link (`gcal.py`, `admin/scheduling.py`) | tokens, consent state | connect, disconnect, refresh, ask | a refresh over a new link | CalendarLink |
| Booking notices (`booking_notify.py`, `notion_sync.py`, `ics.py`) | mails in flight, pages, inquiry | confirm, cancel, move | mail and callbacks out of order | BookingNotices |
| Hours and slots (`scheduling.py`, `admin/scheduling.py`) | hours, overrides, cap | slots, month, console | clock changes, stale consoles | Hours |
| Session types (`admin/scheduling.py`) | `event_types` | make, toggle, delete, book | reused ids | EventTypes |
| Forms (`admin/forms.py`, `public/forms.py`) | fields, submissions | build, move, submit | answers under reused field ids | IntakeForms |
| Project page, hand-over (`notion_sync.py`, `admin/galleries.py`, `studio.py`) | page id, stage, log | sync, save form, letter | a stale form writes back all it showed | WorkPages |
| Testimonials (`public/docs.py`, `admin/studio.py`) | links, quotes | submit, moderate | two submissions of one link | Testimonials |
| Announcements (`announcements.py`, `public/unsubscribe.py`) | letters, deliveries, ledger | stage, check, send, count, leave, retry | leaving between check and send, errors after the send | Announcements |
| Sweeps (`scheduler.py` and eight files) | flags, stamps | read due, send, stamp | kill between send and stamp; stale lists | Sweeps |
| Review (`gallery_comments.py`) | threads, audit log | comment, reply, resolve, hide | checks before transactions | ReviewThreads |
| Proofing (`public/gallery.py`, `admin/gallery_sections.py`) | picks, sections, cover | tap, sort, retarget, delete | count, cap and insert apart | Proofing |
| Crops and portal archive (`jobs.py`, `imaging.py`, `public/portal.py`) | crops, jobs, presets, pack | favourite, cut, pack | saved in place | Crops |
| Selections' archives (`public/downloads.py`, `jobs.py`) | bundles, `.part` files | build, queue, wait | two builds, deletion of siblings | Bundles |
| Uploads, clips (`admin/uploads.py`, `admin/galleries.py`) | originals, rows, cuts | stream, delete, cut | directory of a reused id | Uploads |
| Companions (`argus_analyze.py`, `argus_writeback.py`, `plutus_recommend.py`, `service_api.py`) | run and status columns, scores | hand off, call back, write back | the callback before the answer | Companions |
| Limits (`security.py`, `ratelimit.py`) | `pin_attempts`, hits in memory | ask, compare, record | counts of several threads | Lockout |
| Migrations (`db.py`) | schema, `schema_migrations`, pragmas | apply a file | two runners, kills, shared pragmas | Migrations |
| Alarms (`alerts.py`, `ops_monitor.py`, `deadman.py`) | throttle windows, counts | check, throttle, ping | a window opened before its send | Alarms |

Request threads call the queue (`jobs.enqueue`, `stage`, `dispatch`); its workers
run ingest, archives, crops, mail and mirrors. The webhook writes invoices and
bookings and stages jobs in the same transaction. The scheduler's hourly pass
releases payment holds, sweeps the archive cache, bills retainers, prunes jobs,
sends reminders and checks the service. `PROJECT.json` lists every component
with its status, every hazard with its line, and for every definition the lines
it stands for.

## Modules

Each component has its module. The theorems of the first four are in `<name>Proofs`,
those of the others in the modules the table under *Proofs* names. JobQueue is
checked as it is; `InvoicePayMC`, `InvoiceRacesMC`, `BookingMC` and `GalleryZipMC`
hold the instances of the next three. The other components share two: `StudioMC` for a
client's papers, messages, forms and bookings, `DeliveryMC` for a gallery's
delivery, the locked doors and the housekeeping. Operators ending in `Mut`, and
those that a comment calls a mutant, are what each property is tried against; no
specification uses them.

**How components are composed.** JobQueue's promise is what the others assume of
the queue: a row is claimed, run, and run again after a failure or a kill, at
least once. InvoicePay and Booking share the webhook's shape and not a variable;
Booking's commits are BookingMirror's and BookingNotices' inputs (*the booking is
confirmed, moved, cancelled* is one step there, and what is told of it many);
Licences extends ClientTree and moves over the same changing hierarchy. Where two
components really meet in a row, the row and both writers are in one module:
the project's stage in Documents, and again in WorkPages with the invoice's
status and the project form.

### JobQueue, AtLeastOnce

`JobQueue` is `app/jobs.py` whole. The `jobs` row is `status`, `attempts` and
`wait` (`next_attempt_at`: NULL, ahead, or reached); `pool`, `inflight` and
`offers` are lost with the process. Callers, the sweeper and the main thread are
dispatchers, and `Execute` is `_execute` with a step for the claim, the handler,
each outcome write, the asset's second transaction and the release. `Crash`
loses all that is volatile, at any step.

`AtLeastOnce` is the promise of `ops/AT-LEAST-ONCE.md`: a job is owed, performed
while owed, kept only after its effect, given up only for an operator. `Debt`
maps the row's status to it, and *KeepsPromise* is the refinement.

What holds: one executor at a time, and the row it writes without a guard is its
own running attempt; an id never stays in `_inflight` with nobody to take it
out; an effect repeats at most once for each attempt that raised with its effect done
(a relay that took the mail and timed out: `jobs.py:436` queues it like one that did
nothing), each crash and each failed write; an attempt past `MAX_ATTEMPTS` takes one of
the latter two. Two limits of the code show in how properties
are stated. The restart requeues without looking at `attempts`, so a job that
kills the process runs once more for each kill. And an asset is marked failed in
a transaction of its own: an operator's retry may finish first and leave a done
job with a failed asset, so *DoneAssetIsReady* is stated for histories without a
retry; the write of that mark may itself fail (`jobs.py:467`) and leave the asset processing.

### InvoicePay

One invoice, its project's stage, its `payments`, and Stripe. A route is cut
where it leaves the database: `ViewBegin`/`ViewSave`, `EditBegin`/`EditSave`,
`SendBegin`/`SendSave`; `POST /pay` into reading, retrieving, expiring, creating
and binding; the webhook into its read and its transaction. Stripe is external:
a session is open, complete or expired; a create with a known idempotency key
returns the first session; events are signed when they become true and may be
delivered at any later time, again, or to two threads.

What the runs and proofs show: whatever the races do to the status, the ledger
holds only money Stripe took, for that installment and amount, and an answered
payment is recorded or audited. What the code does not keep:

* `view_invoice` writes 'viewed' on the strength of the status it read, over
  what the webhook wrote meanwhile (`invoice_view_race`, a finding).
* 'sent invoices are locked' (`invoices.py:71`) is checked before the form is
  awaited: an edit begun in draft is saved after the send, as `EditSave` shows,
  and with two admins the status may then claim an installment that the ledger
  does not hold. *StatusIsTrue* is therefore stated where one admin works.
* A deposit equal to the total is accepted (`invoices.py:81`). After it the
  status is `deposit_paid`, `next_payment` owes nothing, and nothing can make the
  invoice paid; `invoice_dunning._due` goes on selecting it.
* A failed bank debit releases the binding, so the next request computes the
  first key again (`pay.py:205`): until Stripe forgets the key, the answer is the
  failed session.

In `InvoiceRacesMC` a behaviour has a *pace*. A "free" one races one payer, the
viewer, two admins and the webhook over two sessions, and a pay request may last
as long as the client types; a "prompt" one races two payers, one admin and the
webhook over three sessions, and no card is typed in during the milliseconds in
which a pay request is at work. *NeverChargedTwice* is about the prompt ones: in
the free ones a client who pays the session that a slow request is about to
replace can be charged by both. `DayPasses` is Stripe's day: it expires an open
session and forgets the key that made it, with no request in flight, since none
lasts as long. *NoMoneyUnaccounted*
assumes that the audit write of `_ack_unapplied` succeeds: the code acknowledges
the event even when it does not (`pay.py:275`).

### Booking, Reservation

One event type and one day: `Slots` are the starts its availability offers and
`Clash` the pairs that overlap with their buffers. A claim, with or without a
booking to move, is one `BEGIN IMMEDIATE` transaction and one step
(`ClaimCommit`); what the request read before it, each call to Stripe and the
binding are steps of their own. A hold ages (`HoldAges`), stops occupying its
slot, and is released by the sweep. `Family` is `_confirmed_lineage_ids`.

`Reservation` is the promise without a fee: slots are taken, given up, and
exchanged in one step.

With a fee the promise has one hole: a hold past its window no longer blocks its
slot, but is `pending` until the hourly sweep, and the webhook confirms any
pending hold (`pay.py:453`), on top of whoever took the slot meanwhile. Run
`booking_late` is that counterexample; *ClashOnlyIfLate* shows there is no other
way to a clash, and *CapOnlyExceededIfLate* none to an overfull day.

### GalleryZip

The full archive of one gallery. An archive's name carries `content_rev`; files
are inodes, since `build_zip` writes `.part` by name and renames it by name, and
another build may have the same one open. `holds` is what is put into a file and
`made` whether it is open, whole or torn. The queue appears only as what it
promises. The visitor reads the revision, looks for the file, asks for a build
and enqueues one in four steps, then polls.

What holds: no archive ever holds a photo deleted before its revision; a half
built archive is published only under a revision that two builds have written at
once. What does not:

* Two requests may both enqueue a build (`downloads.py:366`) and the two share
  one `.part`. `build_zip` promises that 'a reader never sees a half-built
  archive'; *HalfBuiltOnlyIfTwins* shows that this is the only way to one.
  `portal.py:329` takes a lock against the same thing.
* `content_rev` is raised by the upload, not by the ingest that makes a photo
  ready. An archive built between the two leaves the new photos out and stays
  (`gallery_whole`, a finding).
* The prune after a build removes every other revision (`jobs.py:237`). A build
  overtaken by an upload removes the newer archive; `lost` records it, and
  *WaitEnds* excuses the visitors of that revision.
* The status page of a full archive reports an old failure while a new build
  runs (`downloads.py:419`); the bundles' branch guards against that.

### Papers: Documents, ClientTree, Licences, Retainer

**Documents.** One project's proposals and contracts. Every handler reads its
document, checks the status it read and writes by id alone; `desk` holds what it
read. So everything the code calls locked or one-shot can be written over by a
request that had read before: *OnlyStaleReadersUnlock* is the action property
that says by that request and by no other way. *SignedAsSent*, *NoticesAreTrue*
and *ConvertedTotalsAgree* say what holds as long as it did not happen. Met on
the way: the first view of a contract writes 'viewed' without a guard
(`docs.py:116`); an accept and a decline can both go through, with two notices to
the owner (`docs.py:60`); an edit that passed the draft check is saved after the
send hashed the older text (`contracts.py:152`), and signing then fails on the
hash; a conversion writes the invoice from the converted proposal and the
contract from the latest accepted one (`contracts.py:98`).

**ClientTree, Licences.** The hierarchy, what hangs on a client, brand kits with
their files; and licences, whose coverage walks down from the holder
(`EffectiveCoverage`) and up from the client (`LicencesCovering`).
*CoverageAgrees* compares the two walks in every tree. Two overlapping moves close
a cycle that `clients.py:7` calls impossible, on which a walk never ends
(*CycleNeedsOverlap*); `delete_client` removes the logo files before the row
delete that a booking can refuse (*LogoLostOnlyByDeletion*). The audit log gives
the row back, diff by diff, unless a form was saved over a change it had not seen
(*TrailTellsTheRow*).

**Retainer.** The month's claim, `UPDATE ... WHERE last_generated_period <>
period`, asks for another month and not for a later one: a sweep that carries an
old month over midnight of the first bills it once more (`outrun`). Otherwise a
month is billed once (*OneDraftPerPeriod*). A plan edited after it was read is
billed at the old total (`stale`). Words typed while the drafting service thinks
are overwritten (`retyped`); no others are (*HumanWordsSurvive*).

### Messages: OwnerMail, TextThreads, Leads, IntakeForms, Announcements

**OwnerMail.** The form stores a lead before anything can fail and then enqueues
a job; a job claims, sends and stamps. *OwnerMailedOnce* and *NoLeadDropped* hold
except for the causes kept in `unclaimed` (a claim five minutes old taken over,
the retry button over a claim in flight, an error for a mail that arrived) and
`abandoned` (a job that gave up, or a kill between commit and enqueue).

**TextThreads.** The webhook finds or creates its thread before it finds the
message to be a duplicate: two first events at once make two threads
(*OneThreadPerNumber*). **Leads.** Every triage enqueues a sync, a sync reads the
row and creates or patches its page; the loser of two creates is recorded in the
one orphan column, which suffices for the pool's two threads (*PagesAreKnown*).
`QuietMirrorTracks`: once quiet, the page shows the triage, unless two syncs
overlapped. Leads from texts all have the address "" and convert into one client.

**IntakeForms.** Answers are filed under field ids, and ids are reused:
*AnswersKeepTheirQuestion* excuses exactly the fields that were edited or
replaced. Two moves of neighbours leave two fields with one order.
**Announcements.** The look at the unsubscribe ledger comes a second or two
before the send; *ListIsTreatedWell* bounds what can go wrong by that gap and by an
attempt that ended between the send, the count and the write of 'done', by an error, a
failed write or a kill. A restart queues every running row, whatever its attempts
(`jobs.py:633`), and the operator's retry starts a row anew.

### Calendars: BookingMirror, BookingNotices, CalendarLink, Hours, EventTypes

**BookingMirror, BookingNotices.** What a request does after its commit runs on
its own thread, so a confirmation, a move and a cancellation of one family
overlap. A cancellation that overlaps the confirmation leaves an event that no
row names (`gcal.py:356`), and so does a failed call; *NoGhostEvent* says nothing
else does. `InvitationsConverge` shows that iCalendar's UID and SEQUENCE do their
work: in whatever order mail arrives, the client's diary ends with the booking
that stands. The re-read that `notion_sync.py:157` relies on does not exclude two
creates (`clashed`).

**CalendarLink.** A refresh under way while the owner links another account
stores the old account's token beside the new one's (`gcal.py:217`).
**Hours.** Wall-clock hours, instants, and a day whose clocks change: the slot in
the skipped hour is offered as the next one, the last hour of a 25-hour day is
neither counted nor asked of the calendar (`scheduling.py:162`, `244`), an opening
at 00:00 is stored as 09:00, a stale console puts other days back.
**EventTypes.** The foreign key keeps a booked type; a type deleted while a
visitor is at its page can have its id, and the visitor's booking, go to a new
one (*BookedAsPicked*).

### Project page and quotes: WorkPages, Testimonials

**WorkPages.** The jobs that copy the invoice's money and the gallery's delivery
to the Session page, the webhook's advance of the project's stage, and the form
that writes back all it showed. A form opened before a payment puts the project
back before the money gate (`rewound`) or takes its page away (`cleared`); the
letter of hand-over reads the stage, sends, logs and closes in steps.
**Testimonials.** Inserting the quote and pointing its link at it are two
statements after the check: a double submit leaves a quote that no link points
at, which the home page does not count (`home_context.py:489` says it never goes
unnoticed).

### Delivery: Proofing, ReviewThreads, Crops, Bundles, Uploads

**Proofing.** Count, cap and insert are three statements of `toggle_fav`.
*CapHolds* excuses overlapping taps, photos sorted into a section with their
picks, and a target that came down; *LabelIsTrue* compares the label's count with
the sections; the cover is a number that no foreign key keeps.
**ReviewThreads.** Checks outside the transaction: a reply can dangle under a
parent hidden meanwhile and be buried by a resolve under way, and not otherwise.
**Crops.** A crop is saved under the name that says it exists (`imaging.py:160`),
so a reader can meet half of one, and a kill leaves it; the portal's archive with
its lock is always whole (*PackIsWhole*). **Bundles.** The same build without
that lock: torn only where two wrote one name (*TornOnlyByTwins*).
**Uploads.** Rows and originals part only in the ways named in the module, among
them a directory that goes with an older gallery of the same id; two jobs over
one clip can offer a cut that is being rewritten.

### Service: Sweeps, Companions, Lockout, Migrations, Alarms

**Sweeps.** One pass of `scheduler.py`: what is due is read in one statement,
then each is told and marked. `doubt` is what went out unmarked. One sweep can
ask one client for two reviews, since it reads both before it stamps either
(`review_requests.py:10`). The cooldown is read from the galleries a client has *now*: one
re-linked after its ask (`link_client`, `update_gallery`) takes the ask along, and both
may be asked again at once; *AsksAreSpaced* excuses the pairs it happened to (`strayed`)
and those read `together`. A gallery form read before a reminder's stamp writes the old
mark back. Two sweeps nudge the owner by `alerts.notify`, whose thread swallows failures:
the stamp is written all the same, against `contract_reminders.py:44` and
`anniversary_nudges.py:10`, so *TellsOnceAndTruly* promises no delivery of those.
**Companions.** The answer of the POST is recorded after the callback it may have
caused (`argus_analyze.py:99`); two write-backs interleave. **Lockout.** The
buckets of the doors, the overrun of overlapping attempts, the lock of an address and
that of a target for everyone, each with its alert at one exact count
(`security.py:115`, `129`; *warned* means that the alert was started, its thread may fail),
and the limiter's sliding window. **Migrations.** Two
runners, aliases of renamed files, the `foreign_keys` pragma shared by the files
of a connection, kills anywhere. **Alarms.** A window opens before its message is
sent, so a message that fails silences its condition for the window
(`alerts.py:96`); otherwise lasting trouble is told, crashes are all counted, and
the dead-man's silence means that the scheduler stopped, or that the last ping was sent
in time and lost (`deadman.py:46`).

## Runs

| run | instance | shows |
|---|---|---|
| `queue_faults` | 1 job, 2 workers, caller, sweeper; 1 kill, 1 stop, 2 retries, 1 failed write, 2 raises after the effect | exclusion, ownership, no leak, bounded repeats and attempts, the refinement of AtLeastOnce |
| `queue_progress` | the same, 1 retry, no failed write, raises before the effect only, with fairness | every queued row settles, every id leaves `_inflight` |
| `invoice_races` | free: 2 sessions, 1 payer, webhook, viewer, 2 admins; prompt: 3 sessions, 2 payers, 1 admin | IInv, the ledger and the audit trail; no double charge while requests are prompt |
| `invoice_live` | 2 sessions, payer; two deliveries or two admins at once, with fairness | payments are accounted for in the end; the status claims what the ledger holds |
| `invoice_view_race` | viewer against webhook, 1 admin | counterexample to *SettledNeverReopens* |
| `booking_free` | 4 bookings, 4 slots, 2 visitors, cap 2 | no clash, one live member, the cap, the refinement of Reservation |
| `booking_fee` | 3 bookings, 2 slots, 2 sessions, 2 visitors, webhook | IInv, clashes, one payment a family, audit, releases are final |
| `booking_late` | 2 bookings, 1 slot | counterexample to *NoDoubleBooking* with a fee |
| `gallery` | killed: 1 browser, 1 kill; twins: 2 browsers; changed: 1 browser and every change | IInv, deleted photos, half-built archives, the wait page ends |
| `gallery_whole` | 1 visitor, no kill | counterexample to *ArchiveIsComplete* |
| `studio` | the fifteen components of StudioMC, in 30 foci | a property for each group of components, made of the parts named above; every one is also proved |
| `delivery` | the ten components of DeliveryMC, in 31 foci | the same; every property is also proved |

Deadlock is not checked: a finite instance stops when its rows, sessions and
budgets are used up.

**Foci, paces, kinds.** The components of `studio` share no variable, nor do
those of `delivery`. A behaviour of such a run therefore follows one component,
named by `focus`, while the others rest in their initial states; the states are
the sum of the components' states and not their product. Nothing is lost by it,
since no property speaks of two components. A component with many operations is
followed in several *scopes*. A scope is a conjunct of the next-state relation: it
removes behaviours and adds none, so what it shows it shows of fewer
interleavings, and a property could in principle be broken only by operations
that no scope has together. Scopes were cut where two groups of operations touch
different columns (a plan's bills and its captions; an upload and a clip), so that
what is apart does not interact, and every operation is in one of them. The paces
of `InvoiceRacesMC` and the kinds of `GalleryZipMC` are scopes in the same sense.
With fairness, a scope only holds back threads whose steps no fairness condition
asks for.

**Bounds.** A race needs two threads of a kind, and the instances have two
wherever two can meet: workers, payers, visitors, builds, admins, deliveries,
requests. Rows are as many as the longest chain of interest: an installment, its
successor and a replay (3 sessions), a booking moved twice and a stranger (4
bookings), a revision with the photo and one without, three clients for a cycle
and a listed outsider, three files for a renamed pair and one between, ids that
come again (2 of each). `MaxAttempts` is 2 instead of 3: a first, a middle and a
last attempt behave as a first and a last. Limits of the code (`MAX_FAILS`, a cap,
a cooldown, a window) are 1 to 3 of the model's units; only their order matters.
The budgets `MaxCrashes`, `MaxStops`, `MaxRetries`, `MaxFaults`, `MaxSpoilt`, `MaxRestarts`,
`MaxPresses` allow each event once or twice (`MaxSpoilt` is 0 in `queue_progress`: where a
raise leaves the row does not depend on the effect); `MaxClaims` lets a restart find an
announcement's job one attempt past `MaxTries`. Sweeps has two clients, to re-link between, and where a module has no budget (a kill in
Sweeps, Crops, OwnerMail) kills are free. Bounds on counters appear only in
guards, and the proofs hold for every value of them.

**Symmetry** is used in safety runs over interchangeable threads and rows, never
with a liveness property.

**Fairness.** Job queue: threads that can step do, the clock reaches a backoff,
the service manager restarts the process; a waiting submission is strongly fair
because the executor's queue is first in, first out and the model keeps a bag.
Nothing is assumed of kills, stops and retries. Invoice: Stripe redelivers an
event until it is answered 200 and a delivery is not cut off for ever. Archive:
the queue settles what it is given (*EveryJobSettles*) and an open page polls
(`zip_wait.html`); visitors and the studio owe nothing. The components of
`studio` and `delivery` are checked for safety alone: what they promise to happen
in the end rests on the queue, or on the next hourly pass. Where the question is
whether somebody waits in vain (*WaitHasAnAnswer*, *WaitingIsNotInVain*,
*NoLeadDropped*, *LastingTroubleIsTold*) it is asked as an invariant: there is
always someone who owes the answer.

## Proofs

TLAPS proves the following for every value of the constants: any number of rows,
threads, kills and retries. What is assumed is written as `ASSUME` in the modules,
and each run evaluates it: the null of a type is none of its values, bounds are
naturals (the ones that count attempts, workers and jobs at least 1), a deposit is
at most the total, `Clash` is symmetric and every slot clashes with itself, and in
Migrations two names of one file stand in for each other and a renamed file is not
one that may run twice (`db.py:20-26`). The ids of clients, the files of Migrations
and whoever knocks at a door are finite sets of any size; in Alarms both cooldowns are
positive (`alerts.py:16`, `ops_monitor.py:25`) and a condition is not a route. The
addressees of a letter are a finite set and a letter is tried at least once
(`jobs.py`), the bookings of a family are naturals of which 1 is the original, and an
hour that is skipped or repeated is neither the first nor the last of its day.

| module | components |
|---|---|
| JobQueueProofs, InvoicePayProofs, BookingProofs, GalleryZipProofs | the one they are named for; InvoicePayProofs has InvoiceRacesMC's prompt behaviours too |
| PapersProofs | Documents, Retainer, ClientTree, Licences, OwnerMail; the inductive invariants of Leads, TextThreads, IntakeForms, Testimonials |
| GalleryProofs | Crops, Bundles, Uploads, Companions, ReviewThreads, Proofing |
| DeliveryProofs | Lockout, Alarms, Sweeps, Migrations, and DeliveryMC whole |
| StudioProofs | Announcements, WorkPages, BookingMirror, BookingNotices, CalendarLink, Hours, EventTypes, and StudioMC whole |

Each proof has the same shape. An inductive invariant (`IInv`, or `CropsInv`, `SweepsInv`
and so on where a module has several components); a lemma for each action, or for each
of its conjuncts, that a step preserves it; the theorems follow from it with one temporal step. None of the properties is inductive as it stands. What had to be added says why the
code works:

**JobQueueProofs.** The outcome writes match on the id alone. `Holding` says what a
thread at each place has in its hands, and *ExecutorOwnsRow* that the row of an
executing worker is running with the attempt it claimed; only with it does an
outcome write hit the right attempt. The bounds on repeats and attempts count what
has happened against what is still in a worker's hands (`EffectsAccounted`,
`AttemptsAccounted`). *DoneAssetIsReady* needs `ReadyInv`: as long as nothing is
retried, a worker about to mark an asset failed has a row that can never be claimed
again. *ImplementsPromise* takes each step to a step of AtLeastOnce or a stutter.

**InvoicePayProofs.** `StripeInv` ties a session's status, its events and its
installment; `ThreadsInv` says what a thread in the middle of a handler holds and
that a webhook inside its transaction is at a real, signed event. With both, *Ledger*
(what is recorded was taken) and *Accounted* (what was answered is recorded or
audited) are inductive.

Two more invariants stand on these. *ChargedOnce* is about the prompt behaviours of
`InvoiceRacesMC`, and its `PromptInv` is the whole reason why one installment is not
charged twice. At most one session of an installment is *alive*: open, or with money
coming or come (`OneAlive`). `SeekOK` is what a request knows that may still create a
session: its installment is still what is owed, the session it read as bound is dead,
and every live session of the installment is the very one that its idempotency key
returns. All such requests carry the same key (`FlightInv`), a key has one session
(`KeysInv`), and what is bound and what succeeds it are tied by `BoundInv`,
`CurrentInv` and `SuccessorInv`. Since no card is typed in during a request, a session
that a request read as open is still open when it acts. *StatusTrue* has the
hypothesis that makes it true, *SettledNeverReopens*, which the run
`invoice_view_race` refutes: while one admin works, the race of the first view is the
only way for the status to be wrong. `StatusInv` says that every session charges what
the price that was sent can be charged as (`Chargeable`), and that a draft has none yet
(`Untouched`), so that no edit moves the price under a session.

**BookingProofs.** `RowsInv` describes families as sets closed under the rescheduling
link, with one live member; `RequestsInv` and `StripeInv` are what requests and
sessions hold. The claim re-derives the free slots inside its transaction, so a
clash can only come from a webhook that confirms an aged hold (*Clashes*), and
without a fee there is none (*FreeNeverClashes*). *ImplementsReservation* is the
refinement for types without a fee, *NeverRevived* an action property: what was
released is never confirmed. Two more invariants count. `CapInv`: the rows that
occupy a slot are finitely many, and at most the cap of them without the late ones;
the claim counts them under the lock it inserts under, and the webhook adds only
late ones. `PaidInv`: a recorded payment is of a row that was confirmed, and a
family with a confirmed member has one; `FamilyGrows` says a reschedule joins one
row without a payment to one such family.

**GalleryZipProofs.** `Named` and `Opened` say that a build writes the inode it
opened, or one another build of the same revision opened; `CreatedOnce` and
`HeldAlive` that an inode belongs to one execution and holds only photos alive at
its revision. So no archive holds a photo deleted before it (*DeletedStaysDeleted*),
and `TwinsInv` follows a torn file back to two builds of one revision
(*OnlyTwinsTear*).

**PapersProofs.** *Documents.* `Knows` says what a request that has read its document
may still rely on when it writes. `LockKeeps` is the reason it may: as long as nothing
was unlocked, no step changes what a sent document says or takes back an answer, so the
text of a signature, the total of a conversion and the decision a notice tells of are
still the row's. `LastOne` gives the acceptances a last one, by the well-foundedness of
the naturals over sets; `AgreedIsLast` ties the contract's total to it.
*Retainer* (`RetainerInv`). `BilledUpTo`: a plan never billed late has at most one draft a month and
none after the month it was last billed for. `EntryHolds` and `AskHolds` carry what was
read into the step that uses it, or name the edit in between.

*Licences and ClientTree.* The walks up and down the hierarchy are recursive and every
operation changes what they walk over, so the invariant does not mention them. It says
by sets who is not above whom: c is *apart* from p if p lies in a set that is closed
under parents and leaves c out (`Apart`), and the hierarchy is a `Forest` if everyone
is apart from their own parent. A new edge between clients that are apart, and any
removed edge, leaves a forest (`NewEdge`, `FewerForest`): no induction is needed to
follow a step. `Checked` is why a move is safe although its check and its write are
two steps: a check after which nobody else moved still holds, so a cycle needs two
checks that overlapped (*CycleNeedsOverlap*). Induction comes in only where the sets
meet the walks, once for each fact, over sets of naturals (`SetInduction`): that the
recursive walks exist (`Iterates`), that at each depth the walk up from d is at c just
when the walk down from c is at d (`WalksAgree`), and that as many steps as there are
ids reach whatever can be reached (`CheckedApart`, by counting). Hence *CoverageAgrees*:
on any hierarchy, with a cycle or without, a licence covers a client just when the
client's page lists it. `LogoBy` follows a logo to the deletion that took it, `TrailKept` the
audit log to the form that was read too early.

*OwnerMail.* `OneMail`: while its claim is nobody else's, an inquiry has one
thread past the claim, and has been mailed only if it is taken. `LeadKept`: what a lead
that is not delivered rests on. The lemmas follow the thread (`TabStep`,
`SenderFrame`, `JobEndsStep`) rather than the row.

*Leads.* `PagesKept`: a page that is in nobody's columns is in the
hands of the thread that made it, or recorded as stray or surplus. `TwoDone`: a lead with
an orphan has two threads that are not making another, so a surplus page takes a third
(`PagesAreKnown`). `MirrorFollows`: unless it was outpaced, a lead has one thread, which
holds what stands or has a job behind it. *TextThreads.* `OneThread` and `InSight`: until
two first events of a number crossed, a handler about to make its thread is alone, and
one about to hang a bubble was not dismissed meanwhile. *IntakeForms.*
`PagesKeepTheirQuestion` says of the page what the property says of the answers, but for
fields edited meanwhile; `BuildersAreWhole` that a move or an addition alone still has the
orders it read.

*Testimonials.* `Underway`
and `Written`: a link that was not rushed has one writer and one quote.

**GalleryProofs.** *Crops.* `OwedFor` says which job owes a ready favourite its crop,
and `TornBy` which job is still saving a torn one; `PackInv` is the lock of the portal's
archive. *Bundles.* The archive of a selection is GalleryZip's without the lock. `FitInv`:
what is under a name fits its revision, but for photos deleted since. `AloneInv`: a
name that no two builds had begun at once has one writer (`Writers`), so whatever is torn
had two. `KnownInv`: a name in use is its list's current one, or was overtaken.
`AnswerInv`: whoever waits for a name has it, or its failure, or a job that owes it.
*Uploads.* `FilingInv` follows rows and originals to the thread between them, `EncodingInv` a
cut to the one job that has it, unless two had. *Companions.* `HandsOff` and `CallsBack` say
what the two halves of a hand-off know of its run, `WritesAlone` that a write-back nobody
mixed with is alone and has written what it is past. *ReviewThreads.* `TreeInv` keeps a head
above every comment without walking up; `BuriedInv` says which client replies lie under a
resolved head: those that were heard or raced it. *Proofing.* `Calm`: a tap that is alone
for its visitor and section, whose photo was not moved and whose target did not change,
still has the room it counted; `Dropping` names the picks a deletion may take.

Lockout and Proofing add up over finite sets, and the community modules define such sums
by recursive functions. A section of GalleryProofs proves of them what is needed:
that the sum exists (`SumsExist`), and what the growth of one summand does to it. The
induction is by hand: a set of naturals without a least element is empty.

**DeliveryProofs.** *Lockout.* The failures at a door are spread over the rows of their ticks.
`Bounded`: what is recorded and what is still permitted stay below the limit and the
number of threads. `Alerting`: unless two threads counted together, the alert at the exact
count is not missed. `Limiting`: the limiter remembers the last requests it let through, and
all that are recent. *Alarms.* `Scheduling` relates the clock to the next pass and the last
ping, `Sending` a message under way to the window it opened; `Tallying` has every crash in
one place of four. `Telling` carries the bound of *LastingTroubleIsTold*: where the
scheduler can be as long as nothing came of a trouble. *Sweeps.* `Marking`: what was told
and is not in doubt is marked. `Truth`: what waits to be told is so, or changed since it was
read. `Dating` and `Asking` say the same of expiry dates and of the spacing of asks.
*Migrations.* `WriteLockInv`: who is inside the transaction holds the write lock. `OnceInv`:
schema and records are in step between any two transactions. `ProgressOf` and `ListOf` say
what a runner knows of the files before its own, although another may have recorded them,
and `KeysOf` where the connection's pragma stands. That a renamed file is recorded under
one name (`NamesInv`) is a second invariant on top of the first. *The whole.* `OthersRest` reads the composition's step: one component moves by
a step of its own and the others' variables rest; a scope only takes steps away. So
`DeliveryInv`, the conjunction of the components' invariants, is inductive, and what the run
`delivery` checks is proved for any constants and any scopes.

**StudioProofs.** *Announcements.* `LetterOut`:
unless it is in doubt, a letter that went out is about to be counted or was. `CountsKept`
counts a letter's jobs against its row, over sets of any size.
*WorkPages.* `MoneyIsTold`: unless a job was lost or two overtook each other, the newest
word on the money waits, is being written, or is on the page. *BookingMirror.*
`EventsAreHeld` and `BookingsAreShown` name, of every live event and of every confirmed
booking, the row or the thread that has it; they need `EventsAreApart`, `StoresAreApart`
and `DeletesAreApart`, since no two rows and no two threads may have one event.
*BookingNotices.* The invariant has two halves. `MailHalf` always holds: of a family all
but the last booking are cancelled, every mail is of a booking there is and carries its
place in the family as SEQUENCE, and unless a mail was not sent, the newest is under way,
has arrived or has a thread to send it. `CalmHalf` holds while nothing failed and nothing
overlapped: one thread is at work, for the last booking, and page, inquiry and Session are
what it has come to. *CalendarLink.* `CallIsWhole`: a call saw the account it works for,
or a refresh was overtaken by another link. *Hours.* The offered slots are computed, so
`HoursInv` is short (`WeekIsParsed`, `BookedWithinDays`); the work is in
`OfferedAreOpen` and `LitAreOffered`, which follow wall-clock hours through the change of
clocks, and in the cap, by counting the bookings of a day. *EventTypes.* `PicksAreWhole`:
what a visitor picked is what its id still has, unless the id was passed on.
*The whole.* `StudioOthersRest` and `StudioInv` compose the fifteen components as in
DeliveryProofs.

The theorems are listed, with the properties they state, in `PROJECT.json`.

**Only model-checked.** Liveness under fairness, which is out of the prover's reach:
*EveryJobSettles*, *InflightDrains*, *MoneyIsEventuallyAccounted*, *WaitEnds*. And the
three counterexamples, which have no proof to have. Every invariant and every action
property that a run checks is proved.

**What the proofs changed.** Assumptions that the instances met and no proof could do
without had gone unwritten: that a family has an original (BookingNotices), that a letter
is tried at least once and to finitely many people (Announcements), that no clock changes
at midnight (Hours). They are written now, and what TLC checked is unchanged.

## Not modelled

**Components.** The project board and the home page read and write nothing of their
own; portals and the client's workspace are pages over what other modules write
(their crops, archive and locks are in Crops and Lockout); tasks and shot lists are
single-statement writes of rows that nothing else reads back before writing. The
mailer, the calendar files and the sharing page turn a call into one message: that it
may fail, or be cut off, is a step of every module that sends. Pixels and encoders,
texts and templates, the public site's pages, and reports, exports and settings are
computation without state, or single-row writes. The shell is configuration.

**Inside the modelled components.** Wording, validation of form fields, and the
order of rows on a page. Who may call a route is modelled only where a lock or a
counter does the work (Lockout); CSRF tokens and cookies are not. Of the media, what
a file holds is *whole*, *torn* or *which version*. SQLite is taken at its word: a
statement or a transaction happens whole, `BEGIN IMMEDIATE` excludes other writers,
a kill loses what was not committed and nothing else; so is the file system's rename.
The disk does not fill except where a failed write is a step (JobQueue). An operator
who edits the database and a second process of the application (it is deployed as one;
Migrations alone has two) are left out. Merged or narrowed, and so not checked:
the open of an archive and the SELECT after it (`jobs.py:198`, `235`); the look
for a caption's slot and its insert (`recurring.py:388`, `415`); acceptances within one
second (`contracts.py:95` orders by it); an audit write that fails before a webhook's 200
(`pay.py:275`, above); a deleted client, which unlinks galleries (`studio.py:444`) as saves do.
*Partly* in `PROJECT.json` means that operations in the component's files are left out,
and the note there says which.

## Limits of the code met while modelling

Beside the ones told above, each reached by a module's actions and excused by name in
a property or the subject of a counterexample, these were read in the source; some are
actions of a module, the others lie outside what the modules keep.

* `admin/studio.py:873`: the project form writes back every field it showed.
* `admin/galleries.py`: the hand-over letter is sent and logged in two steps; a kill
  between them leaves a letter the log does not know.
* `inquiry_notify.py:26`: a kill between the lead's commit and the enqueue leaves it to
  the inbox's retry button; that button over a claim in flight sends twice.
* `announcements.py`: `sent_count` is one short after an attempt that ended between send
  and count, one too high after a failed write of 'done'.
* `jobs.py`: deleting an asset leaves its `renditions/` files, and a photo favourited
  before it is ready, or a preset activated later, gets no crop job.
* `public/downloads.py`: the waiting page of a selection's bundle that was superseded
  and pruned polls for a file nobody will make.
* `notion_sync.py`: a sync that runs before its page link is stored is skipped, and not
  asked for again; the orphan column is never emptied.
* `public/sms_webhook.py`: enrichment that arrives before `call.completed` is dropped.
* `gcal.py`: the event id is forgotten even when the DELETE failed.

## What comes next

Of the models: the operations that `PROJECT.json` names under *partly*.
