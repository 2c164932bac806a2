------------------------------ MODULE Booking ------------------------------
(***************************************************************************)
(* Booking a slot (app/scheduling.py, app/public/scheduling.py): visitors  *)
(* claim, reschedule and cancel; an event type with a fee turns a claim    *)
(* into a hold that the Stripe webhook confirms (app/public/pay.py) and    *)
(* the hourly sweep releases.                                              *)
(*                                                                         *)
(* A claim runs in one BEGIN IMMEDIATE transaction and is one step; what a *)
(* request read before it, and every call to Stripe, is a step of its own. *)
(* All slots are of one day and one event type.  The quoted amount is      *)
(* frozen in the hold and is left out.                                     *)
(***************************************************************************)
EXTENDS Naturals, FiniteSets

CONSTANTS
  Bookings,    \* rows of the bookings table
  Slots,       \* starts the event type's availability offers that day
  Clash,       \* pairs of slots that overlap once both are padded by buffers
  MaxPerDay,   \* event_types.max_per_day; 0 is no cap
  Fee,         \* has the event type a booking fee?
  Sessions,    \* Checkout sessions Stripe can mint
  Visitors,    \* threads in the public booking routes
  Hooks,       \* threads in _apply_booking_payment
  None         \* SQL NULL

ASSUME SlotsAssumption ==
  /\ Clash \subseteq Slots \X Slots
  /\ \A s \in Slots : <<s, s>> \in Clash
  /\ \A s, t \in Slots : <<s, t>> \in Clash => <<t, s>> \in Clash
ASSUME PolicyAssumption == MaxPerDay \in Nat /\ Fee \in BOOLEAN
ASSUME NoneAssumption == None \notin Bookings /\ None \notin Sessions /\ None \notin Slots

-----------------------------------------------------------------------------
VARIABLES
  \* the bookings table
  status,      \* "absent" before the insert, then bookings.status
  slot,        \* start_utc
  hold,        \* created_at against the payment window: "fresh" or "stale"
  parent,      \* reschedule_of
  bound,       \* stripe_session_id
  paidUp,      \* paid_cents > 0
  ledger,      \* rows of booking_payments
  audited,     \* sessions named by an audit row of _ack_unapplied
  \* Stripe
  state, owner,    \* each session's status and metadata booking_id
  keys,            \* idempotency keys, each with the session it made
  shown,           \* sessions whose URL a visitor was sent to
  events, acked,   \* sessions whose paid event was signed, was answered 200
  \* threads
  req,         \* the request each visitor thread is serving
  hook,        \* the session each webhook thread is about to apply, or None
  late         \* history: holds the webhook confirmed after their window

table   == <<status, slot, hold, parent, bound, paidUp>>
money   == <<ledger, audited, acked>>
stripe  == <<state, owner, keys, shown, events>>
vars    == <<table, money, stripe, req, hook, late>>

\* The locals of a request: where it is, the slot it wants, the booking it moves,
\* the row it pays for, the session in hand, and whether it made that row itself.
NoRequest ==
  [at |-> "idle", want |-> None, orig |-> None, mine |-> None, session |-> None,
   first |-> FALSE]

Init ==
  /\ status = [b \in Bookings |-> "absent"]
  /\ slot = [b \in Bookings |-> None]
  /\ hold = [b \in Bookings |-> "fresh"]
  /\ parent = [b \in Bookings |-> None]
  /\ bound = [b \in Bookings |-> None]
  /\ paidUp = [b \in Bookings |-> FALSE]
  /\ ledger = {} /\ audited = {}
  /\ state = [s \in Sessions |-> "unborn"]
  /\ owner = [s \in Sessions |-> None]
  /\ keys = {} /\ shown = {} /\ events = {} /\ acked = {}
  /\ req = [v \in Visitors |-> NoRequest]
  /\ hook = [h \in Hooks |-> None]
  /\ late = {}

-----------------------------------------------------------------------------
(* The slot engine: _overlaps, _day_count, _slots_utc *)

OccupiesConfirmedMut(b) == status[b] = "confirmed"

\* A hold occupies its slot only while it is younger than the payment window.
Occupies(b) ==
  status[b] = "confirmed" \/ (status[b] = "pending" /\ hold[b] = "fresh")

\* o is the booking being moved, whose own slot and place are given up.
Others(o) == {b \in Bookings : Occupies(b) /\ b # o}

UnderCapMut(o) == MaxPerDay = 0 \/ Cardinality(Others(o)) <= MaxPerDay

UnderCap(o) == MaxPerDay = 0 \/ Cardinality(Others(o)) < MaxPerDay

OpenUnpaddedMut(s, o) ==
  UnderCap(o) /\ (\A b \in Others(o) : slot[b] # s) /\ (o # None => slot[o] # s)

Open(s, o) ==
  /\ UnderCap(o)
  /\ \A b \in Others(o) : <<slot[b], s>> \notin Clash
  /\ o # None => slot[o] # s

\* _confirmed_lineage_ids: the rows linked by reschedule_of, in either direction.
Linked(F) == \A c, d \in Bookings : parent[c] = d => (c \in F <=> d \in F)

Family(b) ==
  {c \in Bookings : \A F \in SUBSET Bookings : b \in F /\ Linked(F) => c \in F}

SoleConfirmed(b) ==
  status[b] = "confirmed" /\ \A c \in Family(b) : status[c] = "confirmed" => c = b

-----------------------------------------------------------------------------
(* Visitors *)

Serve(v, r) == req' = [req EXCEPT ![v] = r]

Leave(v) == Serve(v, NoRequest)

\* Form, throttle and Google free/busy come before the lock.
ClaimBegin(v) ==
  /\ req[v].at = "idle"
  /\ \E s \in Slots : Serve(v, [NoRequest EXCEPT !.at = "claim", !.want = s])
  /\ UNCHANGED <<table, money, stripe, hook, late>>

RescheduleBegin(v, b) ==
  /\ req[v].at = "idle" /\ status[b] = "confirmed"
  /\ \E s \in Slots : Serve(v, [NoRequest EXCEPT !.at = "claim", !.want = s, !.orig = b])
  /\ UNCHANGED <<table, money, stripe, hook, late>>

MovableMut(o) == TRUE

\* The booking to move is read again under the lock.
Movable(o) == o # None => SoleConfirmed(o)

FirstStatusMut(o) == "confirmed"

FirstStatus(o) == IF Fee /\ o = None THEN "pending" ELSE "confirmed"

\* book: the open slots are derived again under the lock; a replacement takes
\* over the original's payment and cancels it in the same transaction.
ClaimCommit(v, n) ==
  LET o == req[v].orig
      s == req[v].want
  IN
  /\ req[v].at = "claim" /\ status[n] = "absent"
  /\ Movable(o) /\ Open(s, o)
  /\ status' = [b \in Bookings |-> IF b = n THEN FirstStatus(o)
                                   ELSE IF b = o THEN "cancelled" ELSE status[b]]
  /\ slot' = [slot EXCEPT ![n] = s]
  /\ parent' = [parent EXCEPT ![n] = o]
  /\ bound' = [bound EXCEPT ![n] = IF o = None THEN None ELSE bound[o]]
  /\ paidUp' = [paidUp EXCEPT ![n] = o # None /\ paidUp[o]]
  /\ IF FirstStatus(o) = "pending"
     THEN Serve(v, [NoRequest EXCEPT !.at = "checkout", !.mine = n, !.first = TRUE])
     ELSE Leave(v)
  /\ UNCHANGED <<hold, money, stripe, hook, late>>

\* SlotTaken, CalendarUnavailable, or a busy interval on the Google calendar.
ClaimRefused(v) ==
  /\ req[v].at = "claim"
  /\ Leave(v)
  /\ UNCHANGED <<table, money, stripe, hook, late>>

\* pay_booking: the Checkout cancel link leads back to the manage page.
PayAgain(v, b) ==
  /\ req[v].at = "idle" /\ Fee /\ status[b] = "pending"
  /\ \E s \in shown : owner[s] = b
  /\ Serve(v, [NoRequest EXCEPT !.at = "checkout", !.mine = b])
  /\ UNCHANGED <<table, money, stripe, hook, late>>

\* _booking_checkout_url reads the hold; 404 when it is no longer pending.
CheckoutRead(v) ==
  LET b == req[v].mine IN
  /\ req[v].at = "checkout"
  /\ IF status[b] = "pending"
     THEN Serve(v, [req[v] EXCEPT !.at = IF bound[b] = None THEN "create" ELSE "retrieve",
                                  !.session = bound[b]])
     ELSE Leave(v)
  /\ UNCHANGED <<table, money, stripe, hook, late>>

\* An open or a complete prior session is returned as it is.
CheckoutRetrieve(v) ==
  /\ req[v].at = "retrieve"
  /\ IF state[req[v].session] = "expired"
     THEN Serve(v, [req[v] EXCEPT !.at = "create"])
     ELSE Leave(v)
  /\ UNCHANGED <<table, money, stripe, hook, late>>

KeyOf(v) == [booking |-> req[v].mine, prior |-> req[v].session]

CheckoutCreate(v, s) ==
  /\ req[v].at = "create"
  /\ \/ [key |-> KeyOf(v), session |-> s] \in keys
        /\ UNCHANGED <<state, owner, keys>>
     \/ /\ state[s] = "unborn" /\ \A k \in keys : k.key # KeyOf(v)
        /\ state' = [state EXCEPT ![s] = "open"]
        /\ owner' = [owner EXCEPT ![s] = req[v].mine]
        /\ keys' = keys \cup {[key |-> KeyOf(v), session |-> s]}
  /\ Serve(v, [req[v] EXCEPT !.at = "bind", !.session = s])
  /\ UNCHANGED <<table, money, shown, events, hook, late>>

\* The session is bound only to a live hold, but the visitor is sent to it anyway.
CheckoutBind(v) ==
  LET b == req[v].mine
      s == req[v].session
  IN
  /\ req[v].at = "bind"
  /\ bound' = IF status[b] = "pending" THEN [bound EXCEPT ![b] = s] ELSE bound
  /\ shown' = shown \cup {s}
  /\ Leave(v)
  /\ UNCHANGED <<status, slot, hold, parent, paidUp, money, state, owner, keys, events,
                 hook, late>>

Released(b) == [status EXCEPT ![b] = IF @ = "pending" THEN "cancelled" ELSE @]

\* A Stripe error: the claiming request releases its hold, a retry keeps it.
CheckoutFails(v) ==
  /\ req[v].at \in {"retrieve", "create"}
  /\ status' = IF req[v].first THEN Released(req[v].mine) ELSE status
  /\ Leave(v)
  /\ UNCHANGED <<slot, hold, parent, bound, paidUp, money, stripe, hook, late>>

\* The request dies between two of its steps.
VisitorDrop(v) ==
  /\ req[v].at # "idle"
  /\ Leave(v)
  /\ UNCHANGED <<table, money, stripe, hook, late>>

\* cancel: one transaction that reads the row and its family again.
Cancel(b) ==
  /\ SoleConfirmed(b)
  /\ status' = [status EXCEPT ![b] = "cancelled"]
  /\ UNCHANGED <<slot, hold, parent, bound, paidUp, money, stripe, req, hook, late>>

\* admin_cancel of a hold.
AdminRelease(b) ==
  /\ status[b] = "pending"
  /\ status' = Released(b)
  /\ UNCHANGED <<slot, hold, parent, bound, paidUp, money, stripe, req, hook, late>>

-----------------------------------------------------------------------------
(* The clock, the sweep and Stripe *)

HoldAges(b) ==
  /\ status[b] = "pending" /\ hold[b] = "fresh"
  /\ hold' = [hold EXCEPT ![b] = "stale"]
  /\ UNCHANGED <<status, slot, parent, bound, paidUp, money, stripe, req, hook, late>>

Abandoned(b) == status[b] = "pending" /\ hold[b] = "stale"

\* expire_pending_payments: one UPDATE, hourly.
Sweep ==
  /\ \E b \in Bookings : Abandoned(b)
  /\ status' = [b \in Bookings |-> IF Abandoned(b) THEN "cancelled" ELSE status[b]]
  /\ UNCHANGED <<slot, hold, parent, bound, paidUp, money, stripe, req, hook, late>>

CardPays(s) ==
  /\ s \in shown /\ state[s] = "open"
  /\ state' = [state EXCEPT ![s] = "complete"]
  /\ events' = events \cup {s}
  /\ UNCHANGED <<table, money, owner, keys, shown, req, hook, late>>

\* A session is given the whole window from its own creation, so it outlives
\* its hold's.
SessionExpires(s) ==
  /\ state[s] = "open"
  /\ status[owner[s]] = "pending" => hold[owner[s]] = "stale"
  /\ state' = [state EXCEPT ![s] = "expired"]
  /\ UNCHANGED <<table, money, owner, keys, shown, events, req, hook, late>>

-----------------------------------------------------------------------------
(* _apply_booking_payment: read and check, then one transaction *)

Recorded(s) == \E y \in ledger : y.session = s

AckMut(s, isAnomaly) == acked' = acked \cup {s} /\ audited' = audited

Ack(s, isAnomaly) ==
  /\ acked' = acked \cup {s}
  /\ audited' = IF isAnomaly THEN audited \cup {s} ELSE audited

\* checkout_not_bound, stale_session, paid_after_release, already_settled.
Unauthorised(s) == bound[owner[s]] # s \/ status[owner[s]] # "pending"

HookAnswer(h, s) ==
  /\ hook[h] = None /\ s \in events
  /\ Recorded(s) \/ Unauthorised(s)
  /\ Ack(s, ~ Recorded(s))
  /\ UNCHANGED <<table, ledger, stripe, req, hook, late>>

HookAccept(h, s) ==
  /\ hook[h] = None /\ s \in events
  /\ ~ Recorded(s) /\ ~ Unauthorised(s)
  /\ hook' = [hook EXCEPT ![h] = s]
  /\ UNCHANGED <<table, money, stripe, req, late>>

StillHeldMut(b) == TRUE

\* The WHERE clause of the confirming UPDATE.
StillHeld(b) == status[b] = "pending"

\* The unique indexes on booking_id and stripe_session_id.
Conflicts(s) == \E y \in ledger : y.session = s \/ y.booking = owner[s]

HookApply(h) ==
  LET s == hook[h]
      b == owner[s]
  IN
  /\ s # None
  /\ IF ~ Conflicts(s) /\ StillHeld(b)
     THEN /\ ledger' = ledger \cup {[booking |-> b, session |-> s]}
          /\ status' = [status EXCEPT ![b] = "confirmed"]
          /\ paidUp' = [paidUp EXCEPT ![b] = TRUE]
          /\ late' = IF hold[b] = "stale" THEN late \cup {b} ELSE late
          /\ Ack(s, FALSE)
     ELSE /\ Ack(s, ~ Recorded(s))
          /\ UNCHANGED <<ledger, status, paidUp, late>>
  /\ hook' = [hook EXCEPT ![h] = None]
  /\ UNCHANGED <<slot, hold, parent, bound, stripe, req>>

\* The handler dies before its answer: Stripe will deliver the event again.
HookDrop(h) ==
  /\ hook[h] # None
  /\ hook' = [hook EXCEPT ![h] = None]
  /\ UNCHANGED <<table, money, stripe, req, late>>

-----------------------------------------------------------------------------
Visit(v) ==
  \/ ClaimBegin(v) \/ ClaimRefused(v)
  \/ \E b \in Bookings : RescheduleBegin(v, b) \/ ClaimCommit(v, b) \/ PayAgain(v, b)
  \/ CheckoutRead(v) \/ CheckoutRetrieve(v) \/ \E s \in Sessions : CheckoutCreate(v, s)
  \/ CheckoutBind(v) \/ CheckoutFails(v) \/ VisitorDrop(v)

Next ==
  \/ \E v \in Visitors : Visit(v)
  \/ \E b \in Bookings : Cancel(b) \/ AdminRelease(b) \/ HoldAges(b)
  \/ Sweep
  \/ \E s \in Sessions : CardPays(s) \/ SessionExpires(s)
  \/ \E h \in Hooks : (\E s \in events : HookAnswer(h, s) \/ HookAccept(h, s))
                      \/ HookApply(h) \/ HookDrop(h)

Spec == Init /\ [][Next]_vars

-----------------------------------------------------------------------------
(* Properties *)

Requests ==
  [at : {"idle", "claim", "checkout", "retrieve", "create", "bind"},
   want : Slots \cup {None}, orig : Bookings \cup {None}, mine : Bookings \cup {None},
   session : Sessions \cup {None}, first : BOOLEAN]

TypeOK ==
  /\ status \in [Bookings -> {"absent", "pending", "confirmed", "cancelled"}]
  /\ slot \in [Bookings -> Slots \cup {None}]
  /\ hold \in [Bookings -> {"fresh", "stale"}]
  /\ parent \in [Bookings -> Bookings \cup {None}]
  /\ bound \in [Bookings -> Sessions \cup {None}]
  /\ paidUp \in [Bookings -> BOOLEAN]
  /\ ledger \subseteq [booking : Bookings, session : Sessions]
  /\ audited \subseteq Sessions /\ events \subseteq Sessions /\ acked \subseteq events
  /\ state \in [Sessions -> {"unborn", "open", "complete", "expired"}]
  /\ owner \in [Sessions -> Bookings \cup {None}]
  /\ keys \subseteq [key : [booking : Bookings, prior : Sessions \cup {None}],
                     session : Sessions]
  /\ shown \subseteq Sessions
  /\ req \in [Visitors -> Requests]
  /\ hook \in [Hooks -> Sessions \cup {None}]
  /\ late \subseteq Bookings

\* What a row's state says of its columns: an absent row is blank, only a row that
\* was once confirmed has relatives, and without a fee nothing is pending or late.
RowsInv ==
  /\ \A b \in Bookings : status[b] # "absent" => slot[b] \in Slots
  /\ \A b \in Bookings : status[b] \in {"absent", "pending"} =>
       parent[b] = None /\ \A c \in Bookings : parent[c] # b
  /\ ~ Fee => late = {} /\ \A b \in Bookings : status[b] # "pending"

\* What a request holds at each place.
RequestsInv ==
  /\ \A v \in Visitors : req[v].at = "claim" => req[v].want \in Slots
  /\ \A v \in Visitors :
       req[v].at \in {"checkout", "retrieve", "create", "bind"} => req[v].mine \in Bookings
  /\ \A v \in Visitors : req[v].at \in {"retrieve", "bind"} => req[v].session \in Sessions

\* A minted session names its booking, and only a shown one is paid.
StripeInv ==
  /\ \A s \in Sessions : state[s] # "unborn" => owner[s] \in Bookings
  /\ \A s \in events : owner[s] \in Bookings /\ state[s] = "complete"
  /\ \A h \in Hooks : hook[h] # None => hook[h] \in events

\* "Two concurrent visitors cannot double-book", nor a visitor and a payment
\* that arrives for a hold.
NoDoubleBooking ==
  \A b, c \in Bookings :
    b # c /\ status[b] = "confirmed" /\ status[c] = "confirmed"
    => <<slot[b], slot[c]>> \notin Clash

\* What the claim does guarantee: rows that occupy clashing slots exist only
\* where the webhook confirmed a hold after its window.
ClashOnlyIfLate ==
  \A b, c \in Bookings :
    b # c /\ Occupies(b) /\ Occupies(c) /\ <<slot[b], slot[c]>> \in Clash
    => b \in late \/ c \in late

\* The day's cap holds for all bookings but those.
CapOnlyExceededIfLate ==
  MaxPerDay # 0 => Cardinality({b \in Bookings : Occupies(b)} \ late) <= MaxPerDay

\* "There is never a committed state with both rows confirmed": a booking and
\* its reschedules have one live member.
OneConfirmedPerFamily ==
  \A b \in Bookings : status[b] = "confirmed" => SoleConfirmed(b)

\* Nobody holds a fee-bearing slot for nothing, and the payment moves with every
\* reschedule: a confirmed booking's family has exactly one payment.
ConfirmedFamilyPaidOnce ==
  Fee => \A b \in Bookings : status[b] = "confirmed" =>
           paidUp[b] /\ Cardinality({y \in ledger : y.booking \in Family(b)}) = 1

\* The inductive invariant.
IInv ==
  /\ TypeOK /\ RowsInv /\ RequestsInv /\ StripeInv
  /\ ClashOnlyIfLate /\ OneConfirmedPerFamily

\* Without a fee, booking implements the reservation promise: each claim, move and
\* cancellation is one step of it.
Held == [b \in Bookings |-> IF status[b] = "confirmed" THEN slot[b] ELSE None]

Promise == INSTANCE Reservation WITH at <- Held

KeepsReservation == Promise!Spec

\* An answered payment is in booking_payments or in the audit trail.
NoMoneyUnaccounted == \A s \in acked : Recorded(s) \/ s \in audited

\* "Never a silent re-confirmation": a released row stays released.
ReleasedStaysReleased ==
  [][\A b \in Bookings : (status[b] = "cancelled") => status'[b] = "cancelled"]_vars

=============================================================================
