----------------------------- MODULE InvoicePay -----------------------------
(***************************************************************************)
(* One invoice from draft to paid: the admin routes that edit and send it  *)
(* (app/admin/invoices.py), the public page, the Checkout handover and the *)
(* Stripe webhook (app/public/pay.py).                                     *)
(*                                                                         *)
(* Routes run in a thread pool, so a handler is cut where it leaves the    *)
(* database: between the row it read and the statement it writes, and at   *)
(* every call to Stripe.  Stripe itself is external: sessions, the         *)
(* idempotency keys that make a repeated create return the first session,  *)
(* and signed events delivered at least once, late and in any order.       *)
(***************************************************************************)
EXTENDS Naturals, FiniteSets

CONSTANTS
  Prices,      \* <<total, deposit>> pairs the editor may save, in cents
  Sessions,    \* Checkout sessions Stripe can mint
  Payers,      \* threads in POST /i/{slug}/pay
  Hooks,       \* threads in _process_stripe_webhook
  Viewers,     \* threads in GET /i/{slug}
  Admins,      \* threads in the admin invoice routes
  SlowPay,     \* may a pay request outlast a client typing in a card?
  None         \* SQL NULL

ASSUME PricesAssumption ==
  \A p \in Prices : p[1] \in Nat /\ p[2] \in Nat /\ p[2] <= p[1]
Kinds == {"deposit", "balance", "full"}

ASSUME NoneAssumption == None \notin Sessions /\ None \notin Kinds
ASSUME SlowPayAssumption == SlowPay \in BOOLEAN

-----------------------------------------------------------------------------
VARIABLES
  \* the invoices row
  status, total, deposit,
  bound, boundKind, boundAmount,   \* stripe_session_id and its snapshot
  payments,    \* rows of the payments table
  stage,       \* projects.status of the invoice's project, coarsened
  audited,     \* sessions named by an audit row of _ack_unapplied
  \* Stripe
  state, paid, charge,             \* each session: status, money, <<kind, amount>>
  keys,        \* idempotency keys Stripe remembers, each with the session it made
  closed,      \* sessions closed by an expire call, whose key replays the answer
  shown,       \* sessions whose URL a client was redirected to
  events,      \* events Stripe has signed
  acked,       \* events answered 200 at least once
  \* threads
  ppc, ask, got,       \* payer: place, what it asks for, the session created
  hpc, hook,           \* webhook: place, the event in hand
  vpc,                 \* viewer: place
  apc, edit            \* admin: place, the price being saved

row     == <<status, total, deposit, bound, boundKind, boundAmount>>
stripe  == <<state, paid, charge, keys, closed, shown, events>>
payer   == <<ppc, ask, got>>
hooks   == <<hpc, hook>>
admin   == <<apc, edit>>
ledger  == <<payments, stage, audited, acked>>
vars    == <<row, ledger, stripe, payer, hooks, vpc, admin>>

NoAsk   == [prior |-> None, kind |-> "full", amount |-> 0, fits |-> FALSE]
NoEvent == [session |-> None, type |-> "paid"]

Init ==
  /\ status = "draft" /\ total = 0 /\ deposit = 0
  /\ bound = None /\ boundKind = None /\ boundAmount = None
  /\ payments = {} /\ stage = "lead" /\ audited = {}
  /\ state = [s \in Sessions |-> "unborn"]
  /\ paid = [s \in Sessions |-> "unpaid"]
  /\ charge = [s \in Sessions |-> <<"full", 0>>]
  /\ keys = {} /\ closed = {} /\ shown = {} /\ events = {} /\ acked = {}
  /\ ppc = [p \in Payers |-> "idle"]
  /\ ask = [p \in Payers |-> NoAsk]
  /\ got = [p \in Payers |-> None]
  /\ hpc = [h \in Hooks |-> "idle"]
  /\ hook = [h \in Hooks |-> NoEvent]
  /\ vpc = [v \in Viewers |-> "idle"]
  /\ apc = [a \in Admins |-> "idle"]
  /\ edit = [a \in Admins |-> <<0, 0>>]

-----------------------------------------------------------------------------
(* next_payment: what is still owed, and as which installment *)

Owed ==
  CASE status = "paid"         -> [kind |-> None, amount |-> 0]
    [] status = "deposit_paid" -> [kind |-> "balance", amount |-> total - deposit]
    [] OTHER                   -> IF deposit > 0
                                  THEN [kind |-> "deposit", amount |-> deposit]
                                  ELSE [kind |-> "full", amount |-> total]

-----------------------------------------------------------------------------
(* Admin: edit while draft, then send *)

\* update_invoice checks the status, then awaits the form.
EditBegin(a) ==
  /\ apc[a] = "idle" /\ status = "draft"
  /\ \E p \in Prices : edit' = [edit EXCEPT ![a] = p]
  /\ apc' = [apc EXCEPT ![a] = "edit"]
  /\ UNCHANGED <<row, ledger, stripe, payer, hooks, vpc>>

EditSave(a) ==
  /\ apc[a] = "edit"
  /\ total' = edit[a][1] /\ deposit' = edit[a][2]
  /\ apc' = [apc EXCEPT ![a] = "idle"]
  /\ UNCHANGED <<status, bound, boundKind, boundAmount, edit,
                 ledger, stripe, payer, hooks, vpc>>

SendBegin(a) ==
  /\ apc[a] = "idle" /\ status = "draft" /\ total > 0
  /\ apc' = [apc EXCEPT ![a] = "send"]
  /\ UNCHANGED <<row, edit, ledger, stripe, payer, hooks, vpc>>

SendSave(a) ==
  /\ apc[a] = "send"
  /\ status' = "sent"
  /\ apc' = [apc EXCEPT ![a] = "idle"]
  /\ UNCHANGED <<total, deposit, bound, boundKind, boundAmount, edit,
                 ledger, stripe, payer, hooks, vpc>>

\* The studio closes the project by hand.
MoveProject ==
  /\ stage # "closed" /\ stage' = "closed"
  /\ UNCHANGED <<row, payments, audited, acked, stripe, payer, hooks, vpc, admin>>

-----------------------------------------------------------------------------
(* The public page: a human's first view is recorded *)

ViewBegin(v) ==
  /\ vpc[v] = "idle" /\ status = "sent"
  /\ vpc' = [vpc EXCEPT ![v] = "seen"]
  /\ UNCHANGED <<row, ledger, stripe, payer, hooks, admin>>

ViewSave(v) ==
  /\ vpc[v] = "seen"
  /\ status' = "viewed"
  /\ vpc' = [vpc EXCEPT ![v] = "idle"]
  /\ UNCHANGED <<total, deposit, bound, boundKind, boundAmount,
                 ledger, stripe, payer, hooks, admin>>

-----------------------------------------------------------------------------
(* POST /i/{slug}/pay: pay_invoice and _invoice_checkout *)

PayGoto(p, place) == ppc' = [ppc EXCEPT ![p] = place]

PayBegin(p) ==
  /\ ppc[p] = "idle"
  /\ status # "draft" /\ Owed.amount > 0
  /\ ask' = [ask EXCEPT ![p] =
       [prior |-> bound, kind |-> Owed.kind, amount |-> Owed.amount,
        fits |-> boundKind = Owed.kind /\ boundAmount = Owed.amount]]
  /\ PayGoto(p, IF bound = None THEN "create" ELSE "retrieve")
  /\ UNCHANGED <<row, got, ledger, stripe, hooks, vpc, admin>>

\* The prior session serves this request: it is open, or paid and settling.
Reusable(p) ==
  LET s == ask[p].prior IN
  ask[p].fits /\ (state[s] = "open" \/ (state[s] = "complete" /\ paid[s] = "paid"))

StillCollectibleMut(p) == FALSE

\* A complete session whose bank debit is outstanding can still take money; one
\* whose debit failed reads the same: complete and unpaid.
StillCollectible(p) ==
  LET s == ask[p].prior IN state[s] = "complete" /\ paid[s] # "paid"

PayReuse(p) ==
  /\ ppc[p] = "retrieve" /\ Reusable(p)
  /\ PayGoto(p, "idle")
  /\ UNCHANGED <<row, ask, got, ledger, stripe, hooks, vpc, admin>>

\* 409 "payment is still processing".
PayRefused(p) ==
  /\ ppc[p] = "retrieve" /\ StillCollectible(p)
  /\ PayGoto(p, "idle")
  /\ UNCHANGED <<row, ask, got, ledger, stripe, hooks, vpc, admin>>

\* An expired session, or a paid earlier installment, is superseded.
PaySupersede(p) ==
  /\ ppc[p] = "retrieve"
  /\ ~ Reusable(p) /\ ~ StillCollectible(p)
  /\ PayGoto(p, IF state[ask[p].prior] = "open" THEN "expire" ELSE "create")
  /\ UNCHANGED <<row, ask, got, ledger, stripe, hooks, vpc, admin>>

\* An open session for another amount is expired first.  The call carries a key
\* too, so a second one is told what the first was; otherwise Stripe refuses
\* unless the session is still open, and the request ends in 503 (PayDrop).
PayExpire(p) ==
  LET s == ask[p].prior IN
  /\ ppc[p] = "expire"
  /\ state[s] = "open" \/ s \in closed
  /\ state' = [state EXCEPT ![s] = IF s \in closed THEN @ ELSE "expired"]
  /\ closed' = closed \cup {s}
  /\ PayGoto(p, "create")
  /\ UNCHANGED <<row, ask, got, ledger, paid, charge, keys, shown, events,
                 hooks, vpc, admin>>

KeyOfRequestMut(p) == [kind |-> ask[p].kind, amount |-> ask[p].amount, prior |-> p]

\* The idempotency key names the installment and the session it follows.
KeyOf(p) == [kind |-> ask[p].kind, amount |-> ask[p].amount, prior |-> ask[p].prior]

FreshKey(p) == \A k \in keys : k.key # KeyOf(p)

\* A key Stripe has seen returns the session, and the body, of the first call.
PayCreate(p) ==
  /\ ppc[p] = "create"
  /\ \E s \in Sessions :
       /\ got' = [got EXCEPT ![p] = s]
       /\ \/ [key |-> KeyOf(p), session |-> s] \in keys
             /\ UNCHANGED <<state, charge, keys>>
          \/ /\ state[s] = "unborn" /\ FreshKey(p)
             /\ state' = [state EXCEPT ![s] = "open"]
             /\ charge' = [charge EXCEPT ![s] = <<ask[p].kind, ask[p].amount>>]
             /\ keys' = keys \cup {[key |-> KeyOf(p), session |-> s]}
  /\ PayGoto(p, "bind")
  /\ UNCHANGED <<row, ask, ledger, paid, closed, shown, events, hooks, vpc, admin>>

PayBind(p) ==
  /\ ppc[p] = "bind"
  /\ bound' = got[p]
  /\ boundKind' = ask[p].kind /\ boundAmount' = ask[p].amount
  /\ shown' = shown \cup {got[p]}
  /\ PayGoto(p, "idle")
  /\ UNCHANGED <<status, total, deposit, ask, got, ledger, state, paid, charge,
                 keys, closed, events, hooks, vpc, admin>>

\* The request dies: a Stripe error answered 503, a kill, a closed connection.
PayDrop(p) ==
  /\ ppc[p] # "idle"
  /\ PayGoto(p, "idle")
  /\ UNCHANGED <<row, ask, got, ledger, stripe, hooks, vpc, admin>>

Pay(p) ==
  \/ PayBegin(p) \/ PayReuse(p) \/ PayRefused(p) \/ PaySupersede(p)
  \/ PayExpire(p) \/ PayCreate(p) \/ PayBind(p) \/ PayDrop(p)

-----------------------------------------------------------------------------
(* Stripe: clients pay the sessions they were sent to                      *)
(*                                                                         *)
(* An open session and an idempotency key live 24 hours and a bank debit   *)
(* days, a request to this program seconds: none outlives one of them.     *)
(* Only a stalled one outlasts a client filling in the Checkout page.      *)

NoRequestInFlight == \A p \in Payers : ppc[p] = "idle"

Sign(s, type) == events' = events \cup {[session |-> s, type |-> type]}

CardPays(s) ==
  /\ s \in shown /\ state[s] = "open"
  /\ SlowPay \/ NoRequestInFlight
  /\ state' = [state EXCEPT ![s] = "complete"]
  /\ paid' = [paid EXCEPT ![s] = "paid"]
  /\ Sign(s, "paid")
  /\ UNCHANGED <<row, ledger, charge, keys, closed, shown, payer, hooks, vpc, admin>>

\* A bank debit completes the session at once, and an event says so; the money
\* arrives or fails days later.
BankPays(s) ==
  /\ s \in shown /\ state[s] = "open"
  /\ SlowPay \/ NoRequestInFlight
  /\ state' = [state EXCEPT ![s] = "complete"]
  /\ paid' = [paid EXCEPT ![s] = "processing"]
  /\ Sign(s, "pending")
  /\ UNCHANGED <<row, ledger, charge, keys, closed, shown, payer, hooks, vpc, admin>>

BankSettles(s) ==
  /\ paid[s] = "processing" /\ NoRequestInFlight
  /\ paid' = [paid EXCEPT ![s] = "paid"]
  /\ Sign(s, "paid")
  /\ UNCHANGED <<row, ledger, state, charge, keys, closed, shown, payer, hooks,
                 vpc, admin>>

BankFails(s) ==
  /\ paid[s] = "processing" /\ NoRequestInFlight
  /\ paid' = [paid EXCEPT ![s] = "failed"]
  /\ Sign(s, "failed")
  /\ UNCHANGED <<row, ledger, state, charge, keys, closed, shown, payer, hooks,
                 vpc, admin>>

\* A day after its creation an unpaid session expires, and its key is forgotten.
DayPasses(s) ==
  /\ state[s] # "unborn" /\ NoRequestInFlight
  /\ state[s] = "open" \/ s \in closed \/ \E k \in keys : k.session = s
  /\ state' = [state EXCEPT ![s] = IF @ = "open" THEN "expired" ELSE @]
  /\ keys' = {k \in keys : k.session # s}
  /\ closed' = closed \ {s}
  /\ UNCHANGED <<row, ledger, paid, charge, shown, events, payer, hooks, vpc, admin>>

-----------------------------------------------------------------------------
(* _process_stripe_webhook: read and check, then one transaction *)

HookGoto(h, place) == hpc' = [hpc EXCEPT ![h] = place]

Recorded(e) == \E y \in payments : y.session = e.session

\* The checks that end in _ack_unapplied, on the row as it was read.
Unauthorised(e) ==
  \/ bound # e.session
  \/ charge[e.session] # <<boundKind, boundAmount>>
  \/ Owed.amount = 0
  \/ charge[e.session] # <<Owed.kind, Owed.amount>>

AckMut(e, isAnomaly) == acked' = acked \cup {e} /\ audited' = audited

Ack(e, isAnomaly) ==
  /\ acked' = acked \cup {e}
  /\ audited' = IF isAnomaly THEN audited \cup {e.session} ELSE audited

BringsMut(e, type) == e.type = type \/ (e.type = "pending" /\ type = "paid")
BringsNoAsyncMut(e, type) == e.type = type /\ type # "paid"

\* Which events bring news: a completed session is not a paid one.
Brings(e, type) == e.type = type

HookPending(h, e) ==
  /\ hpc[h] = "idle" /\ e \in events
  /\ Brings(e, "pending")
  /\ Ack(e, FALSE)
  /\ UNCHANGED <<row, payments, stage, stripe, payer, hooks, vpc, admin>>

\* A duplicate event is answered before anything is compared.
HookDuplicate(h, e) ==
  /\ hpc[h] = "idle" /\ e \in events
  /\ Brings(e, "paid") /\ Recorded(e)
  /\ Ack(e, FALSE)
  /\ UNCHANGED <<row, payments, stage, stripe, payer, hooks, vpc, admin>>

HookUnapplied(h, e) ==
  /\ hpc[h] = "idle" /\ e \in events
  /\ \/ Brings(e, "paid") /\ ~ Recorded(e) /\ Unauthorised(e)
     \/ Brings(e, "failed") /\ (bound # e.session \/ Recorded(e))
  /\ Ack(e, TRUE)
  /\ UNCHANGED <<row, payments, stage, stripe, payer, hooks, vpc, admin>>

HookAccept(h, e) ==
  /\ hpc[h] = "idle" /\ e \in events
  /\ ~ Recorded(e)
  /\ hook' = [hook EXCEPT ![h] = e]
  /\ \/ Brings(e, "paid") /\ ~ Unauthorised(e) /\ HookGoto(h, "apply")
     \/ Brings(e, "failed") /\ bound = e.session /\ HookGoto(h, "release")
  /\ UNCHANGED <<row, ledger, stripe, payer, vpc, admin>>

SettlesKindMut(kind) == kind
SettlesWholeMut(kind) == "paid"

\* The status an installment moves the invoice to, and from which.
Settles(kind) == IF kind = "deposit" THEN "deposit_paid" ELSE "paid"

SettlesFrom(kind) == IF kind = "balance" THEN {"deposit_paid"} ELSE {"sent", "viewed"}

\* The unique indexes on (invoice_id, kind), stripe_session_id, stripe_event_id.
Conflicts(s, kind) == \E y \in payments : y.session = s \/ y.kind = kind

HookApply(h) ==
  LET e == hook[h]
      kind == charge[e.session][1]
      row1 == [session |-> e.session, kind |-> kind, amount |-> charge[e.session][2]]
  IN
  /\ hpc[h] = "apply"
  /\ IF ~ Conflicts(e.session, kind) /\ status \in SettlesFrom(kind)
     THEN /\ payments' = payments \cup {row1}
          /\ status' = Settles(kind)
          /\ stage' = IF stage = "lead" THEN "retainer_paid" ELSE stage
          /\ Ack(e, FALSE)
     ELSE /\ Ack(e, ~ Recorded(e))
          /\ UNCHANGED <<payments, status, stage>>
  /\ HookGoto(h, "idle")
  /\ UNCHANGED <<total, deposit, bound, boundKind, boundAmount, hook,
                 stripe, payer, vpc, admin>>

\* async_payment_failed releases the binding, if it is still this session's.
HookRelease(h) ==
  /\ hpc[h] = "release"
  /\ IF bound = hook[h].session
     THEN bound' = None /\ boundKind' = None /\ boundAmount' = None
     ELSE UNCHANGED <<bound, boundKind, boundAmount>>
  /\ Ack(hook[h], TRUE)
  /\ HookGoto(h, "idle")
  /\ UNCHANGED <<status, total, deposit, payments, stage, hook,
                 stripe, payer, vpc, admin>>

\* The handler dies before its answer: Stripe will deliver the event again.
HookDrop(h) ==
  /\ hpc[h] # "idle"
  /\ HookGoto(h, "idle")
  /\ UNCHANGED <<row, hook, ledger, stripe, payer, vpc, admin>>

Hook(h) ==
  \/ \E e \in events : HookPending(h, e) \/ HookDuplicate(h, e)
                      \/ HookUnapplied(h, e) \/ HookAccept(h, e)
  \/ HookApply(h) \/ HookRelease(h) \/ HookDrop(h)

-----------------------------------------------------------------------------
Next ==
  \/ \E a \in Admins : EditBegin(a) \/ EditSave(a) \/ SendBegin(a) \/ SendSave(a)
  \/ MoveProject
  \/ \E v \in Viewers : ViewBegin(v) \/ ViewSave(v)
  \/ \E p \in Payers : Pay(p)
  \/ \E s \in Sessions : CardPays(s) \/ BankPays(s) \/ BankSettles(s) \/ BankFails(s)
                         \/ DayPasses(s)
  \/ \E h \in Hooks : Hook(h)

Spec == Init /\ [][Next]_vars

Events == [session : Sessions, type : {"pending", "paid", "failed"}]

\* Stripe redelivers an event until it is answered, and a delivery that is not
\* cut off runs to its answer; deliveries are cut off only so often (SF).
Fairness ==
  \A e \in {x \in Events : x.type = "paid"} :
    /\ SF_vars(\E h \in Hooks :
                 HookDuplicate(h, e) \/ HookUnapplied(h, e) \/ HookAccept(h, e))
    /\ SF_vars(\E h \in Hooks : hook[h] = e /\ HookApply(h))

FairSpec == Spec /\ Fairness

-----------------------------------------------------------------------------
(* Properties *)

TypeOK ==
  /\ status \in {"draft", "sent", "viewed", "deposit_paid", "paid"}
  /\ total \in Nat /\ deposit \in Nat /\ deposit <= total
  /\ bound \in Sessions \cup {None}
  /\ boundKind \in Kinds \cup {None} /\ boundAmount \in Nat \cup {None}
  /\ payments \subseteq [session : Sessions, kind : Kinds, amount : Nat]
  /\ stage \in {"lead", "retainer_paid", "closed"}
  /\ audited \subseteq Sessions /\ acked \subseteq events /\ events \subseteq Events
  /\ state \in [Sessions -> {"unborn", "open", "complete", "expired"}]
  /\ paid \in [Sessions -> {"unpaid", "processing", "paid", "failed"}]
  /\ charge \in [Sessions -> Kinds \X Nat]
  /\ keys \subseteq [key : [kind : Kinds, amount : Nat, prior : Sessions \cup {None}],
                     session : Sessions]
  /\ closed \subseteq Sessions /\ shown \subseteq Sessions
  /\ ppc \in [Payers -> {"idle", "retrieve", "expire", "create", "bind"}]
  /\ ask \in [Payers -> [prior : Sessions \cup {None}, kind : Kinds, amount : Nat,
                         fits : BOOLEAN]]
  /\ got \in [Payers -> Sessions \cup {None}]
  /\ hpc \in [Hooks -> {"idle", "apply", "release"}]
  /\ hook \in [Hooks -> [session : Sessions \cup {None}, type : {"paid", "failed"}]]
  /\ vpc \in [Viewers -> {"idle", "seen"}]
  /\ apc \in [Admins -> {"idle", "edit", "send"}]
  /\ edit \in [Admins -> Prices \cup {<<0, 0>>}]

\* Stripe's side: only a completed session has moved money, and an event is true.
StripeInv ==
  /\ \A s \in Sessions : paid[s] # "unpaid" => state[s] = "complete"
  /\ \A e \in events : e.type = "paid" => paid[e.session] = "paid"

\* What a thread carries between two steps.
ThreadsInv ==
  /\ \A p \in Payers : ppc[p] \in {"retrieve", "expire"} => ask[p].prior \in Sessions
  /\ \A p \in Payers : ppc[p] = "bind" => got[p] \in Sessions
  /\ \A h \in Hooks : hpc[h] # "idle" => hook[h] \in events
  /\ \A h \in Hooks : hpc[h] = "apply" => hook[h].type = "paid"

\* Every row of the payments table is money Stripe took, by that session, for
\* that installment and that amount, whatever the invoice went through between
\* Checkout and webhook.
LedgerMatchesStripe ==
  \A y \in payments : paid[y.session] = "paid" /\ charge[y.session] = <<y.kind, y.amount>>

\* A payment answered 200 will not be delivered again, so by then it is in the
\* ledger or in the audit trail (_ack_unapplied): no path drops it silently.
NoMoneyUnaccounted ==
  \A e \in acked : e.type = "paid" => Recorded(e) \/ e.session \in audited

\* The inductive invariant of the two above.
IInv == TypeOK /\ StripeInv /\ ThreadsInv /\ LedgerMatchesStripe /\ NoMoneyUnaccounted

\* The invoice claims exactly what the ledger holds: nothing before a payment,
\* the deposit when it says deposit_paid, and when it says paid the total, whole
\* or as the deposit and its balance; no installment is in the ledger twice.
StatusMatchesLedger ==
  LET taken == {<<y.kind, y.amount>> : y \in payments} IN
  /\ \A x, y \in payments : x.kind = y.kind => x = y
  /\ CASE status = "paid"         -> \/ taken = {<<"full", total>>}
                                     \/ taken = {<<"deposit", deposit>>,
                                                 <<"balance", total - deposit>>}
       [] status = "deposit_paid" -> taken = {<<"deposit", deposit>>}
       [] OTHER                   -> taken = {}

\* No client is charged twice for one installment: at most one session of a
\* kind has taken, or may still take, a client's money.
NoDoubleCharge ==
  \A s1, s2 \in Sessions :
    /\ charge[s1][1] = charge[s2][1]
    /\ paid[s1] \in {"processing", "paid"} /\ paid[s2] \in {"processing", "paid"}
    => s1 = s2

\* A session a client can still pay is one the webhook will accept: no second
\* payable session of an installment exists beside the bound one.
OnePayableSession ==
  \A s1, s2 \in shown :
    /\ charge[s1][1] = charge[s2][1]
    /\ state[s1] = "open" /\ state[s2] = "open"
    => s1 = s2

\* A payment, once taken, is eventually in the ledger or the audit trail.
MoneyIsEventuallyAccounted ==
  \A s \in Sessions :
    paid[s] = "paid" ~> (s \in audited \/ \E y \in payments : y.session = s)

\* Reading an invoice or sending it again never takes back a payment state:
\* what the webhook wrote stays.
SettledNeverReopens ==
  [][(status \in {"deposit_paid", "paid"}) => status' \in {"deposit_paid", "paid"}]_vars

=============================================================================
