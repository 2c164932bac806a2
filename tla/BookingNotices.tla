--------------------------- MODULE BookingNotices ---------------------------
(***************************************************************************)
(* What a booking's confirmation and cancellation tell the world:          *)
(* app/booking_notify.py, confirm and cancelled, after the Google calendar *)
(* (BookingMirror): the mails with their iCalendar parts, the inquiry row, *)
(* the page in the Notion calendar and the Session (app/notion_sync.py).   *)
(* Each runs on a thread of its own after the commit, so the notices of a  *)
(* booking, of its cancellation and of its replacement may overlap, and    *)
(* mail arrives in any order.  One family: a booking and its replacements. *)
(***************************************************************************)
EXTENDS Naturals, FiniteSets

CONSTANTS
  Rebooked,   \* bookings of the family, 1..n; each may replace the one before
  NotionPages,\* pages Notion comes to hold, calendar pages and Sessions
  Notifiers,  \* threads
  NoPg        \* NULL

ASSUME NoticesAssumption == Rebooked \subseteq Nat \ {0} /\ 1 \in Rebooked /\ NoPg \notin NotionPages

VARIABLES
  visit,    \* each booking: its status, its page, Session and inquiry
  pg,       \* each page: the booking it was made for, the Status it shows; "none" if not made
  notice,   \* each thread: its place, its booking, the kind of notice, what it read
  mail,     \* invitations under way to the client: method and SEQUENCE
  diaryOf,  \* the client's calendar: the method and SEQUENCE it follows
  notes,    \* inquiry rows made for the family
  \* history
  clashed,  \* bookings whose notices ran into a move, a cancellation or one another
  unsent,   \* a mail was not sent: the mailer failed, or the thread was killed before
  failed    \* a call to Notion or a thread failed

faults     == <<unsent, failed>>
noticeVars == <<visit, pg, notice, mail, diaryOf, notes, clashed, faults>>

NoVisit == [status |-> "absent", page |-> NoPg, session |-> NoPg, inquiry |-> FALSE]
Unmade  == [of |-> 0, says |-> "none"]
FreeNotifier == [at |-> "idle", of |-> 0, kind |-> "confirm", says |-> "none", page |-> NoPg]

NoticesInit ==
  /\ visit = [a \in Rebooked |-> NoVisit] /\ pg = [p \in NotionPages |-> Unmade]
  /\ notice = [n \in Notifiers |-> FreeNotifier] /\ mail = {}
  /\ diaryOf = [method |-> "none", sequence |-> 0] /\ notes = 0 /\ clashed = {} /\ unsent = FALSE /\ failed = FALSE

GoOn(n, at)    == notice' = [notice EXCEPT ![n].at = at]
Leave(n)       == notice' = [notice EXCEPT ![n] = FreeNotifier]
AtWork(a)      == \E n \in Notifiers : notice[n].of = a
Clash(a)       == IF AtWork(a) THEN clashed \cup {a} ELSE clashed
Begin(n, a, k) == notice' = [notice EXCEPT ![n] = [FreeNotifier EXCEPT !.at = "load", !.of = a, !.kind = k]]

-----------------------------------------------------------------------------
(* The commits, as Booking has them *)

Commit(n) ==
  /\ notice[n] = FreeNotifier /\ visit[1].status = "absent"
  /\ visit' = [visit EXCEPT ![1].status = "confirmed"] /\ Begin(n, 1, "confirm")
  /\ UNCHANGED <<pg, mail, diaryOf, notes, clashed, faults>>

\* The replacement takes page, Session and inquiry along; the original keeps the
\* Session and the inquiry, and loses its page.
Replace(n, a) ==
  /\ notice[n] = FreeNotifier /\ a + 1 \in Rebooked
  /\ visit[a].status = "confirmed" /\ visit[a + 1].status = "absent"
  /\ visit' = [visit EXCEPT ![a + 1] = visit[a], ![a].status = "cancelled", ![a].page = NoPg]
  /\ Begin(n, a + 1, "confirm") /\ clashed' = Clash(a)
  /\ UNCHANGED <<pg, mail, diaryOf, notes, faults>>

CancelVisit(n, a) ==
  /\ notice[n] = FreeNotifier /\ visit[a].status = "confirmed"
  /\ visit' = [visit EXCEPT ![a].status = "cancelled"]
  /\ Begin(n, a, "cancel") /\ clashed' = Clash(a)
  /\ UNCHANGED <<pg, mail, diaryOf, notes, faults>>

-----------------------------------------------------------------------------
(* confirm and cancelled *)

\* A confirmation reads the booking after the calendar's work, and stops if it is
\* no longer confirmed; a cancellation does not ask.
LoadVisit(n) ==
  /\ notice[n].at = "load"
  /\ IF notice[n].kind = "confirm" /\ visit[notice[n].of].status # "confirmed" THEN Leave(n) ELSE GoOn(n, "mail")
  /\ UNCHANGED <<visit, pg, mail, diaryOf, notes, clashed, faults>>

\* calendar_identity: one UID for the family, a SEQUENCE for the replacements so far;
\* the cancellation of a booking is the next one after its invitation.
SequenceMut(n) == notice[n].of - 1
Sequence(n)    == notice[n].of - 1 + (IF notice[n].kind = "cancel" THEN 1 ELSE 0)
Invitation(n)  == [method |-> IF notice[n].kind = "cancel" THEN "CANCEL" ELSE "REQUEST", sequence |-> Sequence(n)]
SendNotice(n) ==
  /\ notice[n].at = "mail"
  /\ \/ mail' = mail \cup {Invitation(n)} /\ UNCHANGED unsent
     \/ unsent' = TRUE /\ UNCHANGED mail
  /\ GoOn(n, IF notice[n].kind = "cancel" THEN "read page" ELSE "inquiry")
  /\ UNCHANGED <<visit, pg, diaryOf, notes, clashed, failed>>

\* The client's calendar takes what is not older than what it has.
MailArrives(m) ==
  /\ m \in mail /\ mail' = mail \ {m}
  /\ diaryOf' = IF diaryOf.method = "none" \/ m.sequence >= diaryOf.sequence THEN m ELSE diaryOf
  /\ UNCHANGED <<visit, pg, notice, notes, clashed, faults>>

\* An inquiry row, unless the booking that was read has one.
WriteInquiry(n) ==
  LET a == notice[n].of IN
  /\ notice[n].at = "inquiry" /\ GoOn(n, "read page")
  /\ IF visit[a].inquiry THEN UNCHANGED <<visit, notes>>
     ELSE notes' = notes + 1 /\ visit' = [visit EXCEPT ![a].inquiry = TRUE]
  /\ UNCHANGED <<pg, mail, diaryOf, clashed, faults>>

\* sync_booking reads the row; its page is patched, or a new one made and stamped
\* on the row if that has none by then.
Unused     == {p \in NotionPages : pg[p] = Unmade}
FreshPages == IF Unused = {} THEN {} ELSE {CHOOSE p \in Unused : TRUE}
SaysOf(a)  == IF visit[a].status = "cancelled" THEN "Cancelled" ELSE "Confirmed"
After(n)   == IF notice[n].kind = "cancel" THEN "idle" ELSE "session"
Proceed(n) == IF After(n) = "idle" THEN Leave(n) ELSE GoOn(n, After(n))
ReadPage(n) ==
  LET a == notice[n].of IN
  /\ notice[n].at = "read page"
  /\ notice' = [notice EXCEPT ![n].at = "write page", ![n].says = SaysOf(a), ![n].page = visit[a].page]
  /\ UNCHANGED <<visit, pg, mail, diaryOf, notes, clashed, faults>>

PatchBookingPage(n) ==
  /\ notice[n].at = "write page" /\ notice[n].page # NoPg
  /\ pg' = [pg EXCEPT ![notice[n].page].says = notice[n].says] /\ Proceed(n)
  /\ UNCHANGED <<visit, mail, diaryOf, notes, clashed, faults>>

CreateBookingPage(n) ==
  /\ notice[n].at = "write page" /\ notice[n].page = NoPg
  /\ \E p \in FreshPages :
       /\ pg' = [pg EXCEPT ![p] = [of |-> notice[n].of, says |-> notice[n].says]]
       /\ notice' = [notice EXCEPT ![n].at = "stamp", ![n].page = p]
  /\ UNCHANGED <<visit, mail, diaryOf, notes, clashed, faults>>

StampBooking(n) ==
  LET a == notice[n].of IN
  /\ notice[n].at = "stamp" /\ Proceed(n)
  /\ visit' = IF visit[a].page = NoPg THEN [visit EXCEPT ![a].page = notice[n].page] ELSE visit
  /\ UNCHANGED <<pg, mail, diaryOf, notes, clashed, faults>>

\* The Session: the booking's own, its original's, or a new one; no guard.
HasSession(a) == visit[a].session # NoPg
Inherited(a)  == IF a = 1 THEN NoPg ELSE visit[a - 1].session
SyncSession(n) ==
  LET a == notice[n].of IN
  /\ notice[n].at = "session"
  /\ \/ /\ HasSession(a) \/ Inherited(a) # NoPg
        /\ visit' = IF HasSession(a) THEN visit ELSE [visit EXCEPT ![a].session = Inherited(a)]
        /\ Leave(n) /\ UNCHANGED pg
     \/ /\ ~HasSession(a) /\ Inherited(a) = NoPg
        /\ \E p \in FreshPages :
             /\ pg' = [pg EXCEPT ![p] = [of |-> a, says |-> "Booked"]]
             /\ notice' = [notice EXCEPT ![n].at = "stamp session", ![n].page = p]
        /\ UNCHANGED visit
  /\ UNCHANGED <<mail, diaryOf, notes, clashed, faults>>

StampSession(n) ==
  /\ notice[n].at = "stamp session" /\ visit' = [visit EXCEPT ![notice[n].of].session = notice[n].page]
  /\ Leave(n) /\ UNCHANGED <<pg, mail, diaryOf, notes, clashed, faults>>

\* A call raises: the rest goes on, each part in a try of its own; or the process is
\* killed and the thread with it.
NotionFails(n) ==
  /\ notice[n].at \in {"write page", "session"} /\ failed' = TRUE
  /\ IF notice[n].at = "session" THEN Leave(n) ELSE Proceed(n)
  /\ UNCHANGED <<visit, pg, mail, diaryOf, notes, clashed, unsent>>

NotifierKilled(n) ==
  /\ notice[n] # FreeNotifier /\ Leave(n) /\ failed' = TRUE
  /\ unsent' = (unsent \/ notice[n].at \in {"load", "mail"})
  /\ UNCHANGED <<visit, pg, mail, diaryOf, notes, clashed>>

NoticesNext ==
  \/ \E n \in Notifiers : \/ Commit(n) \/ LoadVisit(n) \/ SendNotice(n) \/ WriteInquiry(n)
                          \/ ReadPage(n) \/ PatchBookingPage(n) \/ CreateBookingPage(n) \/ StampBooking(n)
                          \/ SyncSession(n) \/ StampSession(n) \/ NotionFails(n) \/ NotifierKilled(n)
                          \/ \E a \in Rebooked : Replace(n, a) \/ CancelVisit(n, a)
  \/ \E m \in mail : MailArrives(m)

NoticesSpec == NoticesInit /\ [][NoticesNext]_noticeVars

-----------------------------------------------------------------------------
(* Properties *)

NoticesTypeOK ==
  /\ visit \in [Rebooked -> [status : {"absent", "confirmed", "cancelled"}, page : NotionPages \cup {NoPg},
                             session : NotionPages \cup {NoPg}, inquiry : BOOLEAN]]
  /\ pg \in [NotionPages -> [of : Rebooked \cup {0}, says : {"none", "Confirmed", "Cancelled", "Booked"}]]
  /\ \A n \in Notifiers : notice[n].of \in Rebooked \cup {0} /\ notice[n].page \in NotionPages \cup {NoPg}
  /\ \A m \in mail \cup {diaryOf} : m.method \in {"none", "REQUEST", "CANCEL"} /\ m.sequence \in Nat
  /\ notes \in Nat /\ clashed \subseteq Rebooked /\ {unsent, failed} \subseteq BOOLEAN

AllTold   == mail = {} /\ \A n \in Notifiers : notice[n] = FreeNotifier
Confirmed == {a \in Rebooked : visit[a].status = "confirmed"}

\* Whatever overlaps, and in whatever order mail arrives, the client's calendar ends
\* with the booking of the family that stands, or with none; if no mail failed.
InvitationsConverge ==
  (AllTold /\ ~unsent /\ visit[1].status # "absent") =>
    IF Confirmed = {} THEN diaryOf.method # "REQUEST"
    ELSE diaryOf = [method |-> "REQUEST", sequence |-> (CHOOSE a \in Confirmed : TRUE) - 1]

\* The Notion calendar shows each standing booking once, as confirmed, and nothing
\* else as confirmed: but for notices that ran into one another, of which the
\* re-read of sync_booking says they cannot (app/notion_sync.py:157), and failures.
NotionShowsTheBooking ==
  (AllTold /\ ~failed /\ clashed = {}) =>
    \A a \in Rebooked :
      /\ (visit[a].page # NoPg) => (pg[visit[a].page].says = SaysOf(a))
      /\ a \in Confirmed => {p \in NotionPages : pg[p].says = "Confirmed"} = {visit[a].page}

\* A family has one inquiry and one Session, under the same exceptions.
OneInquiryAndSession ==
  (~failed /\ clashed = {}) =>
    notes <= 1 /\ Cardinality({p \in NotionPages : pg[p].says = "Booked"}) <= 1

NoticesAreConsistent == InvitationsConverge /\ NotionShowsTheBooking /\ OneInquiryAndSession
=============================================================================
