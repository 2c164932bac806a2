------------------------------ MODULE Sweeps ------------------------------
(***************************************************************************)
(* What the scheduler's thread tells people (app/scheduler.py): reminders  *)
(* of a shoot, of a gallery's expiry and of unmade picks, review asks,     *)
(* dunning, contract and anniversary nudges and the weekly digest.         *)
(*                                                                         *)
(* Every sweep has one shape: it reads all that is due in one statement,   *)
(* then tells each in turn and marks it told only afterwards, in a         *)
(* statement of its own.  Requests change the rows in between, a call may  *)
(* fail with its message gone out, and the process may be killed anywhere. *)
(* Retainer models the sweep of the plans, Booking the one of unpaid holds *)
(* and JobQueue the pruning of jobs.  Time is counted in days.             *)
(***************************************************************************)
EXTENDS Integers, Sequences, FiniteSetsExt

CONSTANTS
  Shoots, Albums, Bills, Papers, Patrons,  \* bookings, galleries, invoices, contracts, clients
  NoPatron,                                \* no client
  ExpiryLead, ProofAge, AskAge, Cooldown,  \* GALLERY_EXPIRY_REMINDER_DAYS, GALLERY_PROOF_NUDGE_DAYS,
                                           \* REVIEW_ASK_DAYS, REVIEW_COOLDOWN_DAYS
  ContractAge, YearAge, YearWindow, Renudge, \* CONTRACT_NUDGE_DAYS, ANNIVERSARY_NUDGE_DAYS and module constants
  WeekDays,                                \* days in a week
  Opens,                                   \* _STAGES: days overdue when each window opens
  LastDay                                  \* bound: days the clock passes

ASSUME SweepsAssumption ==
  /\ NoPatron \notin Patrons
  /\ {ExpiryLead, ProofAge, AskAge, Cooldown, ContractAge, YearAge, YearWindow, Renudge} \subseteq Nat
  /\ Renudge > YearWindow
  /\ WeekDays \in Nat \ {0} /\ LastDay \in Nat \ {0} /\ Opens \in Seq(Nat)

VARIABLES
  day,      \* the clock; 0 is no date
  shoot,    \* bookings: [status, start, phone, told]
  album,    \* galleries: [made, client, published, expires, unpicked, told, asked]
  bill,     \* invoices: [status, due, editing, dunned]
  paper,    \* contracts: [status, since, told]
  patron,   \* clients: [closed, back, nudged]
  digests,  \* digest_log
  saving,   \* galleries whose settings are being saved: what was read, [expires, told]
  todo,     \* the notices the sweep at work read as due and has not taken up
  item,     \* the notice it has told and not marked
  \* history
  told,     \* notices told
  doubt,    \* notices told that are not marked
  twice,    \* notices told again that were not in doubt
  moved,    \* subjects that changed since the sweep at work read
  misled,   \* notices told that were not so, although nothing had changed since
  crossed,  \* galleries whose date changed while a sweep had them in hand
  together, \* galleries that one sweep read as due for a review ask beside another of their client
  whom,     \* the client each gallery's ask is addressed to
  strayed   \* pairs: a gallery asked about, which had another client when the next was read as due

subjects  == <<shoot, album, bill, paper, patron, digests>>
sweeping  == <<todo, item>>
asks      == <<together, whom, strayed>>
record    == <<told, doubt, twice, misled, asks>>
sweepVars == <<day, subjects, saving, sweeping, record, moved, crossed>>

NoNotice == [kind |-> "none", of |-> "owner", key |-> 0, stage |-> 0]
NoSave   == [expires |-> 0, told |-> {}, open |-> FALSE]
Notice(kind, of, key) == [kind |-> kind, of |-> of, key |-> key, stage |-> 0]

Kinds == {"booking", "expiry", "proofing", "review", "dunning", "contract", "anniversary", "digest"}

SweepsInit ==
  /\ day = 1
  /\ shoot = [s \in Shoots |-> [status |-> "absent", start |-> 0, phone |-> FALSE, told |-> {}]]
  /\ album = [a \in Albums |-> [made |-> 0, client |-> NoPatron, published |-> FALSE, expires |-> 0,
                                unpicked |-> FALSE, told |-> {}, asked |-> 0]]
  /\ bill = [b \in Bills |-> [status |-> "draft", due |-> 0, editing |-> FALSE, dunned |-> {}]]
  /\ paper = [p \in Papers |-> [status |-> "draft", since |-> 0, told |-> FALSE]]
  /\ patron = [k \in Patrons |-> [closed |-> 0, back |-> FALSE, nudged |-> 0]]
  /\ digests = {}
  /\ saving = [a \in Albums |-> NoSave]
  /\ todo = {} /\ item = NoNotice
  /\ told = {} /\ doubt = {} /\ twice = {} /\ moved = {} /\ misled = {}
  /\ crossed = {} /\ together = {} /\ whom = [a \in Albums |-> NoPatron] /\ strayed = {}

-----------------------------------------------------------------------------
(* What is due *)

\* A shoot two days ahead, or one; the text goes to those who left a number.
ShootsDue ==
  LET Ahead(s) == IF shoot[s].status = "confirmed" THEN shoot[s].start - day ELSE 0
      Owes(s, kind) ==
        /\ Ahead(s) = (IF kind = "48h" THEN 2 ELSE 1)
        /\ kind \notin shoot[s].told
        /\ kind = "sms" => shoot[s].phone
  IN  {Notice(due[1], due[2], shoot[due[2]].start) : due \in
         {q \in {"48h", "24h", "sms"} \X Shoots : Owes(q[2], q[1])}}

ExpiryDue ==
  {Notice("expiry", a, album[a].expires) : a \in
     {x \in Albums : /\ album[x].published /\ "expiry" \notin album[x].told
                     /\ album[x].expires # 0 /\ album[x].expires - day \in 0..ExpiryLead}}

PicksDue ==
  {Notice("proofing", a, 0) : a \in
     {x \in Albums : /\ album[x].published /\ "proofing" \notin album[x].told
                     /\ album[x].unpicked /\ album[x].made <= day - ProofAge}}

CoolMut(k) == TRUE

\* No gallery that is the client's now was asked about of late.
Cool(k) == \A a \in Albums : album[a].client = k /\ album[a].asked # 0 => album[a].asked <= day - Cooldown

ReviewsDue ==
  {Notice("review", a, 0) : a \in
     {x \in Albums : /\ album[x].published /\ album[x].asked = 0 /\ album[x].client # NoPatron
                     /\ album[x].made <= day - AskAge
                     /\ album[x].expires = 0 \/ album[x].expires >= day
                     /\ Cool(album[x].client)}}

\* The most escalated stage whose window has opened; 0 if it is too fresh.
StageFor(overdue) == Max({0} \cup {i \in DOMAIN Opens : overdue >= Opens[i]})

Chase(b) == [Notice("dunning", b, bill[b].due) EXCEPT !.stage = StageFor(day - bill[b].due)]

BillsDue ==
  {Chase(b) : b \in
     {x \in Bills : /\ bill[x].status = "sent" /\ bill[x].due # 0 /\ bill[x].due < day
                    /\ Chase(x).stage # 0 /\ Chase(x) \notin bill[x].dunned}}

PapersDue ==
  {Notice("contract", p, 0) : p \in
     {x \in Papers : /\ paper[x].status = "sent" /\ ~paper[x].told
                     /\ paper[x].since <= day - ContractAge}}

PatronsDue ==
  {Notice("anniversary", k, patron[k].closed) : k \in
     {x \in Patrons : /\ patron[x].closed # 0 /\ ~patron[x].back
                      /\ day - patron[x].closed \in YearAge..(YearAge + YearWindow)
                      /\ patron[x].nudged = 0 \/ patron[x].nudged <= day - Renudge}}

Week == day \div WeekDays
DigestDue == IF Week - 1 \in digests \/ Week = 0 THEN {} ELSE {Notice("digest", "owner", Week - 1)}

DueFor(sweep) ==
  CASE sweep = "booking"     -> ShootsDue
    [] sweep = "expiry"      -> ExpiryDue
    [] sweep = "proofing"    -> PicksDue
    [] sweep = "review"      -> ReviewsDue
    [] sweep = "dunning"     -> BillsDue
    [] sweep = "contract"    -> PapersDue
    [] sweep = "anniversary" -> PatronsDue
    [] sweep = "digest"      -> DigestDue

-----------------------------------------------------------------------------
(* The thread *)

\* What the read for asks notes: to whom each ask goes, which galleries it finds beside
\* another of their client, and which earlier asks of that client it does not see, the
\* gallery being another's now.
ReadAsks ==
  LET due == {n.of : n \in todo'}
      Of(k) == {a \in due : album[a].client = k}
  IN
  /\ whom' = [a \in Albums |-> IF a \in due THEN album[a].client ELSE whom[a]]
  /\ together' = together \cup {a \in due : Of(album[a].client) # {a}}
  /\ strayed' = {p \in strayed : p[2] \notin due} \cup
                {p \in Albums \X due : /\ album[p[1]].asked # 0 /\ album[p[1]].client # whom[p[1]]
                                      /\ album[p[2]].client = whom[p[1]]}

\* The loop takes its sweeps in order, pass after pass.  One that has nothing
\* due, or fails to read, changes nothing and is no step here; so any may be
\* the next to find something.
Sweep(kind) ==
  /\ todo = {} /\ item = NoNotice
  /\ todo' = DueFor(kind) /\ todo' # {}
  /\ IF kind = "review" THEN ReadAsks ELSE UNCHANGED asks
  /\ UNCHANGED <<day, subjects, saving, item, told, doubt, twice, misled, moved, crossed>>

\* What changed is of interest while the thread holds notices.
Settle == moved' = IF todo' = {} /\ item' = NoNotice THEN {} ELSE moved

\* Is it so, at this moment?
IsSo(n) ==
  CASE n.kind \in {"48h", "24h", "sms"} ->
         shoot[n.of].status = "confirmed" /\ shoot[n.of].start = n.key /\ day < n.key
    [] n.kind = "expiry"      -> album[n.of].published /\ album[n.of].expires = n.key /\ day <= n.key
    [] n.kind = "proofing"    -> album[n.of].published /\ album[n.of].unpicked
    [] n.kind = "review"      -> album[n.of].published /\ (album[n.of].expires = 0 \/ day <= album[n.of].expires)
    [] n.kind = "dunning"     -> bill[n.of].status = "sent" /\ bill[n.of].due = n.key /\ n.key < day
    [] n.kind = "contract"    -> paper[n.of].status = "sent"
    [] n.kind = "anniversary" -> ~patron[n.of].back
    [] n.kind = "digest"      -> n.key < Week

Tell(n) ==
  /\ told' = told \cup {n}
  /\ twice' = IF n \in told \ doubt THEN twice \cup {n} ELSE twice
  /\ misled' = IF IsSo(n) \/ n.of \in moved THEN misled ELSE misled \cup {n}

\* Nudges of the owner leave by alerts.notify: a thread of their own sends them and keeps
\* a failure to itself.
Nudges == {"contract", "anniversary"}

\* The message goes out; or it goes out and the call fails; or a nudge is lost and the
\* sweep goes on to mark it; or nothing goes out and the call fails.
Send(n) ==
  /\ item = NoNotice /\ n \in todo
  /\ todo' = todo \ {n}
  /\ \/ Tell(n) /\ item' = n /\ UNCHANGED doubt
     \/ n.kind \notin Nudges /\ Tell(n) /\ doubt' = doubt \cup {n} /\ UNCHANGED item
     \/ n.kind \in Nudges /\ item' = n /\ UNCHANGED <<told, twice, misled, doubt>>
     \/ UNCHANGED <<told, twice, misled, doubt, item>>
  /\ UNCHANGED <<day, subjects, saving, crossed, asks>>
  /\ Settle

StampShoot(n) ==
  /\ n.kind \in {"48h", "24h", "sms"}
  /\ shoot' = [shoot EXCEPT ![n.of].told = @ \cup {n.kind}]
  /\ UNCHANGED <<album, bill, paper, patron, digests>>
StampAlbum(n) ==
  /\ n.kind \in {"expiry", "proofing"}
  /\ album' = [album EXCEPT ![n.of].told = @ \cup {n.kind}]
  /\ UNCHANGED <<shoot, bill, paper, patron, digests>>
StampReview(n) ==
  /\ n.kind = "review"
  /\ album' = [album EXCEPT ![n.of].asked = day]
  /\ UNCHANGED <<shoot, bill, paper, patron, digests>>
StampBill(n) ==
  /\ n.kind = "dunning"
  /\ bill' = [bill EXCEPT ![n.of].dunned = @ \cup {n}]
  /\ UNCHANGED <<shoot, album, paper, patron, digests>>
StampPaper(n) ==
  /\ n.kind = "contract"
  /\ paper' = [paper EXCEPT ![n.of].told = TRUE]
  /\ UNCHANGED <<shoot, album, bill, patron, digests>>
StampPatron(n) ==
  /\ n.kind = "anniversary"
  /\ patron' = [patron EXCEPT ![n.of].nudged = day]
  /\ UNCHANGED <<shoot, album, bill, paper, digests>>
StampDigest(n) ==
  /\ n.kind = "digest"
  /\ digests' = digests \cup {n.key}
  /\ UNCHANGED <<shoot, album, bill, paper, patron>>

StampMut(n) == UNCHANGED subjects
Stamp(n) ==
  \/ StampShoot(n) \/ StampAlbum(n) \/ StampReview(n) \/ StampBill(n) \/ StampPaper(n)
  \/ StampPatron(n) \/ StampDigest(n)

StampItem ==
  /\ item # NoNotice
  /\ Stamp(item)
  /\ item' = NoNotice /\ doubt' = doubt \ {item}
  /\ UNCHANGED <<day, saving, todo, told, twice, misled, asks, crossed>>
  /\ Settle

\* The write fails: the next pass tells it again.
StampFails ==
  /\ item # NoNotice
  /\ item' = NoNotice /\ doubt' = doubt \cup ({item} \cap told)
  /\ UNCHANGED <<day, subjects, saving, todo, told, twice, misled, asks, crossed>>
  /\ Settle

Kill ==
  /\ todo # {} \/ item # NoNotice \/ \E a \in Albums : saving[a].open
  /\ todo' = {} /\ item' = NoNotice /\ moved' = {}
  /\ doubt' = doubt \cup ({item} \cap told)
  /\ saving' = [a \in Albums |-> NoSave]
  /\ UNCHANGED <<day, subjects, told, twice, misled, asks, crossed>>

-----------------------------------------------------------------------------
(* Everybody else *)

Idle == UNCHANGED <<sweeping, record>>
Touch(xs) == moved' = IF todo = {} /\ item = NoNotice THEN {} ELSE moved \cup xs
Touches(x) == Touch({x})

DayPasses ==
  /\ day < LastDay /\ day' = day + 1
  /\ Touch(Shoots \cup Albums \cup Bills \cup Papers \cup Patrons \cup {"owner"})
  /\ Idle /\ UNCHANGED <<subjects, saving, crossed>>

\* A booking; a move is a cancellation and a booking of its own.
BookShoot(s) ==
  /\ shoot[s].status = "absent"
  /\ \E d \in (day + 1)..LastDay, phone \in BOOLEAN :
       shoot' = [shoot EXCEPT ![s] = [status |-> "confirmed", start |-> d, phone |-> phone, told |-> {}]]
  /\ Touches(s) /\ Idle /\ UNCHANGED <<day, album, bill, paper, patron, digests, saving, crossed>>

CancelShoot(s) ==
  /\ shoot[s].status = "confirmed"
  /\ shoot' = [shoot EXCEPT ![s].status = "cancelled"]
  /\ Touches(s) /\ Idle /\ UNCHANGED <<day, album, bill, paper, patron, digests, saving, crossed>>

MakeAlbum(a) ==
  /\ album[a].made = 0
  /\ \E picks \in BOOLEAN : album' = [album EXCEPT ![a].made = day, ![a].unpicked = picks]
  /\ Touches(a) /\ Idle /\ UNCHANGED <<day, shoot, bill, paper, patron, digests, saving, crossed>>

\* A favourite meets the last target, or is taken back.
Pick(a) ==
  /\ album[a].published
  /\ album' = [album EXCEPT ![a].unpicked = ~@]
  /\ Touches(a) /\ Idle /\ UNCHANGED <<day, shoot, bill, paper, patron, digests, saving, crossed>>

\* link_client: the dashboard gives a gallery a client, or another one.
LinkClient(a) ==
  /\ album[a].made # 0
  /\ \E k \in Patrons : album' = [album EXCEPT ![a].client = k]
  /\ Touches(a) /\ Idle /\ UNCHANGED <<day, shoot, bill, paper, patron, digests, saving, crossed>>

\* update_gallery: the row is read, and written with what follows from it.
SaveBegin(a) ==
  /\ album[a].made # 0 /\ ~saving[a].open
  /\ saving' = [saving EXCEPT ![a] = [expires |-> album[a].expires, told |-> album[a].told \cap {"expiry"}, open |-> TRUE]]
  /\ Idle /\ UNCHANGED <<day, subjects, moved, crossed>>

RearmsMut(a, date) == FALSE
\* A date that changes re-arms the reminder.
Rearms(a, date) == date # saving[a].expires

SaveAlbum(a) ==
  /\ saving[a].open
  /\ \E date \in 0..LastDay, published \in BOOLEAN, client \in Patrons \cup {NoPatron} :
       LET flags == (album[a].told \ {"expiry"}) \cup (IF Rearms(a, date) THEN {} ELSE saving[a].told)
           lost == "expiry" \in album[a].told \ flags
           ours == {n \in told : n.kind = "expiry" /\ n.of = a}
       IN
       /\ album' = [album EXCEPT ![a].expires = date, ![a].published = published, ![a].client = client,
                                 ![a].told = flags]
       /\ told' = IF date # saving[a].expires THEN told \ ours ELSE told
       /\ doubt' = IF date # saving[a].expires THEN doubt \ ours
                   ELSE IF lost THEN doubt \cup ours ELSE doubt
       /\ crossed' = IF date = saving[a].expires THEN crossed
                     ELSE IF \E n \in todo \cup {item} : n.kind = "expiry" /\ n.of = a
                     THEN crossed \cup {a} ELSE crossed \ {a}
  /\ saving' = [saving EXCEPT ![a] = NoSave]
  /\ Touches(a)
  /\ UNCHANGED <<day, shoot, bill, paper, patron, digests, sweeping, twice, misled, asks>>

\* update_invoice checks for a draft and then awaits its form.
EditBill(b) ==
  /\ bill[b].status = "draft" /\ ~bill[b].editing
  /\ bill' = [bill EXCEPT ![b].editing = TRUE]
  /\ Idle /\ UNCHANGED <<day, shoot, album, paper, patron, digests, saving, moved, crossed>>

SaveBill(b) ==
  /\ bill[b].editing
  /\ \E d \in 0..LastDay : bill' = [bill EXCEPT ![b].editing = FALSE, ![b].due = d]
  /\ Touches(b) /\ Idle /\ UNCHANGED <<day, shoot, album, paper, patron, digests, saving, crossed>>

MoveBill(b) ==
  /\ \/ bill[b].status = "draft" /\ bill' = [bill EXCEPT ![b].status = "sent"]
     \/ bill[b].status = "sent" /\ bill' = [bill EXCEPT ![b].status = "paid"]
  /\ Touches(b) /\ Idle /\ UNCHANGED <<day, shoot, album, paper, patron, digests, saving, crossed>>

MovePaper(p) ==
  /\ \/ paper[p].status = "draft" /\ paper' = [paper EXCEPT ![p].status = "sent", ![p].since = day]
     \/ paper[p].status = "sent" /\ paper' = [paper EXCEPT ![p].status = "signed"]
  /\ Touches(p) /\ Idle /\ UNCHANGED <<day, shoot, album, bill, patron, digests, saving, crossed>>

\* A client's project closes; the client comes back, with a new one or a booking; the
\* booking is cancelled or past.
MovePatron(k) ==
  /\ \/ patron' = [patron EXCEPT ![k].closed = day, ![k].back = FALSE]
     \/ patron[k].closed # 0 /\ patron' = [patron EXCEPT ![k].back = ~@]
  /\ Touches(k) /\ Idle /\ UNCHANGED <<day, shoot, album, bill, paper, digests, saving, crossed>>

SweepsNext ==
  \/ StampItem \/ StampFails \/ Kill \/ DayPasses
  \/ \E kind \in Kinds : Sweep(kind)
  \/ \E n \in todo : Send(n)
  \/ \E s \in Shoots : BookShoot(s) \/ CancelShoot(s)
  \/ \E a \in Albums : MakeAlbum(a) \/ Pick(a) \/ LinkClient(a) \/ SaveBegin(a) \/ SaveAlbum(a)
  \/ \E b \in Bills : EditBill(b) \/ SaveBill(b) \/ MoveBill(b)
  \/ \E p \in Papers : MovePaper(p)
  \/ \E k \in Patrons : MovePatron(k)

SweepsSpec == SweepsInit /\ [][SweepsNext]_sweepVars

-----------------------------------------------------------------------------
Dates == 0..LastDay

SweepsTypeOK ==
  /\ day \in 1..LastDay
  /\ shoot \in [Shoots -> [status : {"absent", "confirmed", "cancelled"}, start : Dates,
                           phone : BOOLEAN, told : SUBSET {"48h", "24h", "sms"}]]
  /\ album \in [Albums -> [made : Dates, client : Patrons \cup {NoPatron}, published : BOOLEAN,
                           expires : Dates, unpicked : BOOLEAN, told : SUBSET {"expiry", "proofing"},
                           asked : Dates]]
  /\ \A b \in Bills : bill[b].status \in {"draft", "sent", "paid"} /\ bill[b].due \in Dates
  /\ paper \in [Papers -> [status : {"draft", "sent", "signed"}, since : Dates, told : BOOLEAN]]
  /\ patron \in [Patrons -> [closed : Dates, back : BOOLEAN, nudged : Dates]]
  /\ digests \subseteq Dates
  /\ doubt \subseteq told

\* Nobody is told a thing twice, unless the first message went out without
\* being marked; and what one is told is so, unless it stopped being so after
\* the sweep had read it.
TellsOnceAndTruly == twice = {} /\ misled = {}

\* 'Changing the expiry date re-arms the one-shot expiry reminder'
\* (admin/galleries.py:533): a gallery marked as reminded was reminded of the
\* date it has, unless the date changed while a sweep had the gallery in hand.
ReminderIsOfThisDate ==
  \A a \in Albums : "expiry" \in album[a].told /\ album[a].expires # 0 =>
    Notice("expiry", a, album[a].expires) \in told \/ a \in crossed

FarApart(a, b) == album[a].asked - album[b].asked \notin (1 - Cooldown)..(Cooldown - 1)

\* 'Per CLIENT, a cooldown across ALL their galleries' (app/review_requests.py:10):
\* two asks of one client are a cooldown apart, unless one sweep read both, or the
\* gallery of the first had another client when the second was read.
AsksAreSpaced ==
  \A a, b \in Albums :
    a # b /\ whom[a] = whom[b] /\ album[a].asked # 0 /\ album[b].asked # 0
      => FarApart(a, b) \/ {a, b} \subseteq together \/ {<<a, b>>, <<b, a>>} \cap strayed # {}
=============================================================================
