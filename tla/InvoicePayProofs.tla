-------------------------- MODULE InvoicePayProofs --------------------------
(***************************************************************************)
(* The payment ledger of an invoice for any prices, any number of Checkout *)
(* sessions, payers, webhook deliveries, viewers and admin requests: types *)
(* and the two safety properties that hold through every race; then, for   *)
(* the prompt behaviours of InvoiceRacesMC, that no client is charged      *)
(* twice for one installment, and, while one admin works and no view       *)
(* reopens the invoice, that its status says what the ledger holds.        *)
(***************************************************************************)
EXTENDS InvoiceRacesMC, TLAPS

\* Every step keeps the types.
LEMMA TypeStep ==
  TypeOK /\ ThreadsInv /\ [Next]_vars => TypeOK'
<1>. SUFFICES ASSUME TypeOK, ThreadsInv, [Next]_vars
              PROVE  TypeOK'
  OBVIOUS
<1>. USE PricesAssumption, NoneAssumption DEF TypeOK, ThreadsInv, Kinds, row,
     ledger, stripe, payer, hooks, admin
<1>1. ASSUME NEW a \in Admins, EditBegin(a) \/ EditSave(a) \/ SendBegin(a) \/ SendSave(a)
      PROVE  TypeOK'
  <2>1. CASE EditBegin(a) BY <2>1 DEF EditBegin
  <2>2. CASE EditSave(a) BY <2>2 DEF EditSave
  <2>3. CASE SendBegin(a) BY <2>3 DEF SendBegin
  <2>4. CASE SendSave(a) BY <2>4 DEF SendSave
  <2>. QED BY <1>1, <2>1, <2>2, <2>3, <2>4
<1>2. CASE MoveProject BY <1>2 DEF MoveProject
<1>3. ASSUME NEW v \in Viewers, ViewBegin(v) \/ ViewSave(v)
      PROVE  TypeOK' BY <1>3 DEF ViewBegin, ViewSave
<1>4. ASSUME NEW p \in Payers, PayBegin(p)
      PROVE  TypeOK' BY <1>4 DEF PayBegin, Owed, PayGoto
<1>5. ASSUME NEW p \in Payers, PayReuse(p) \/ PayRefused(p) \/ PaySupersede(p) \/ PayDrop(p)
      PROVE  TypeOK'
  <2>1. CASE PayReuse(p) BY <2>1 DEF PayReuse, PayGoto
  <2>2. CASE PayRefused(p) BY <2>2 DEF PayRefused, PayGoto
  <2>3. CASE PaySupersede(p) BY <2>3 DEF PaySupersede, PayGoto
  <2>4. CASE PayDrop(p) BY <2>4 DEF PayDrop, PayGoto
  <2>. QED BY <1>5, <2>1, <2>2, <2>3, <2>4
<1>6. ASSUME NEW p \in Payers, PayExpire(p)
      PROVE  TypeOK' BY <1>6 DEF PayExpire, PayGoto
<1>7. ASSUME NEW p \in Payers, PayCreate(p)
      PROVE  TypeOK'
  <2>1. KeyOf(p) \in [kind : Kinds, amount : Nat, prior : Sessions \cup {None}] BY DEF KeyOf
  <2>2. keys' \subseteq [key : [kind : Kinds, amount : Nat, prior : Sessions \cup {None}],
                         session : Sessions]
    <3>1. PICK s \in Sessions :
            keys' \subseteq keys \cup {[key |-> KeyOf(p), session |-> s]} BY <1>7 DEF PayCreate
    <3>2. [key |-> KeyOf(p), session |-> s]
            \in [key : [kind : Kinds, amount : Nat, prior : Sessions \cup {None}],
                 session : Sessions] BY <2>1
    <3>. QED BY <3>1, <3>2
  <2>3. charge' \in [Sessions -> Kinds \X Nat]
    <3>1. <<ask[p].kind, ask[p].amount>> \in Kinds \X Nat
      OBVIOUS
    <3>2. \/ charge' = charge
          \/ \E s \in Sessions : charge' = [charge EXCEPT ![s] = <<ask[p].kind, ask[p].amount>>] BY <1>7 DEF PayCreate
    <3>. QED BY <3>1, <3>2
  <2>4. /\ state' \in [Sessions -> {"unborn", "open", "complete", "expired"}]
        /\ got' \in [Payers -> Sessions \cup {None}] BY <1>7 DEF PayCreate
  <2>5. ppc' \in [Payers -> {"idle", "retrieve", "expire", "create", "bind"}] BY <1>7 DEF PayCreate, PayGoto
  <2>6. UNCHANGED <<row, ask, ledger, paid, closed, shown, events, hooks, vpc, admin>> BY <1>7 DEF PayCreate
  <2>. QED BY <2>2, <2>3, <2>4, <2>5, <2>6
<1>8. ASSUME NEW p \in Payers, PayBind(p)
      PROVE  TypeOK' BY <1>8 DEF PayBind, PayGoto
<1>9. ASSUME NEW s \in Sessions, CardPays(s) \/ BankPays(s)
      PROVE  TypeOK'
  <2>1. events' \subseteq Events BY <1>9 DEF CardPays, BankPays, Sign, Events
  <2>2. acked' \subseteq events' BY <1>9 DEF CardPays, BankPays, Sign
  <2>3. CASE CardPays(s) BY <2>1, <2>2, <2>3 DEF CardPays
  <2>4. CASE BankPays(s) BY <2>1, <2>2, <2>4 DEF BankPays
  <2>. QED BY <1>9, <2>3, <2>4
<1>10. ASSUME NEW s \in Sessions, BankSettles(s) \/ BankFails(s)
      PROVE  TypeOK' BY <1>10 DEF BankSettles, BankFails, Sign, Events
<1>11. ASSUME NEW s \in Sessions, DayPasses(s)
      PROVE  TypeOK' BY <1>11 DEF DayPasses
<1>12. ASSUME NEW h \in Hooks, \E e \in events : HookPending(h, e) \/ HookDuplicate(h, e)
      PROVE  TypeOK' BY <1>12 DEF HookPending, HookDuplicate, Ack, Brings, Recorded, Events
<1>13. ASSUME NEW h \in Hooks, \E e \in events : HookUnapplied(h, e)
      PROVE  TypeOK' BY <1>13 DEF HookUnapplied, Ack, Brings, Recorded, Events
<1>14. ASSUME NEW h \in Hooks, \E e \in events : HookAccept(h, e)
      PROVE  TypeOK'
  <2>. PICK e \in events : HookAccept(h, e) BY <1>14
  <2>1. e.session \in Sessions /\ e \in [session : Sessions \cup {None}, type : {"paid", "failed"}]
    BY DEF HookAccept, Brings, Events
  <2>. QED BY <2>1 DEF HookAccept, HookGoto
<1>15. ASSUME NEW h \in Hooks, HookApply(h)
      PROVE  TypeOK' BY <1>15 DEF HookApply, HookGoto, Ack, Settles, Recorded, Events
<1>16. ASSUME NEW h \in Hooks, HookRelease(h) \/ HookDrop(h)
      PROVE  TypeOK'
  <2>1. CASE HookDrop(h) BY <2>1 DEF HookDrop, HookGoto
  <2>2. CASE HookRelease(h)
    <3>1. hook[h] \in events /\ hook[h].session \in Sessions BY <2>2 DEF HookRelease, Events
    <3>. QED BY <2>2, <3>1 DEF HookRelease, HookGoto, Ack
  <2>. QED BY <1>16, <2>1, <2>2
<1>17. CASE UNCHANGED vars BY <1>17 DEF vars
<1>. QED BY <1>1, <1>2, <1>3, <1>4, <1>5, <1>6, <1>7, <1>8, <1>9, <1>10, <1>11,
       <1>12, <1>13, <1>14, <1>15, <1>16, <1>17 DEF Next, Pay, Hook

\* Money moves only when a session completes, and every event is signed after it.
LEMMA StripeStep ==
  TypeOK /\ StripeInv /\ ThreadsInv /\ [Next]_vars => StripeInv'
<1>. SUFFICES ASSUME TypeOK, StripeInv, ThreadsInv, [Next]_vars
              PROVE  StripeInv'
  OBVIOUS
<1>. USE PricesAssumption, NoneAssumption DEF TypeOK, StripeInv, ThreadsInv,
     row, ledger, stripe, payer, hooks, admin
<1>1. ASSUME NEW a \in Admins, EditBegin(a) \/ EditSave(a) \/ SendBegin(a) \/ SendSave(a)
      PROVE  StripeInv' BY <1>1 DEF EditBegin, EditSave, SendBegin, SendSave
<1>2. CASE MoveProject BY <1>2 DEF MoveProject
<1>3. ASSUME NEW v \in Viewers, ViewBegin(v) \/ ViewSave(v)
      PROVE  StripeInv' BY <1>3 DEF ViewBegin, ViewSave
<1>4. ASSUME NEW p \in Payers, PayBegin(p)
      PROVE  StripeInv' BY <1>4 DEF PayBegin, Owed, PayGoto
<1>5. ASSUME NEW p \in Payers, PayReuse(p) \/ PayRefused(p) \/ PaySupersede(p) \/ PayDrop(p)
      PROVE  StripeInv'
  <2>1. CASE PayReuse(p) \/ PayRefused(p) BY <2>1 DEF PayReuse, PayRefused, PayGoto
  <2>2. CASE PaySupersede(p) \/ PayDrop(p) BY <2>2 DEF PaySupersede, PayDrop, PayGoto
  <2>. QED BY <1>5, <2>1, <2>2
<1>6. ASSUME NEW p \in Payers, PayExpire(p)
      PROVE  StripeInv' BY <1>6 DEF PayExpire, PayGoto
<1>7. ASSUME NEW p \in Payers, PayCreate(p)
      PROVE  StripeInv' BY <1>7 DEF PayCreate, FreshKey, KeyOf, PayGoto
<1>8. ASSUME NEW p \in Payers, PayBind(p)
      PROVE  StripeInv' BY <1>8 DEF PayBind, PayGoto
<1>9. ASSUME NEW s \in Sessions, CardPays(s) \/ BankPays(s)
      PROVE  StripeInv'
  <2>1. CASE CardPays(s) BY <2>1 DEF CardPays, Sign, Events
  <2>2. CASE BankPays(s) BY <2>2 DEF BankPays, Sign, Events
  <2>. QED BY <1>9, <2>1, <2>2
<1>10. ASSUME NEW s \in Sessions, BankSettles(s) \/ BankFails(s)
      PROVE  StripeInv' BY <1>10 DEF BankSettles, BankFails, Sign, Events
<1>11. ASSUME NEW s \in Sessions, DayPasses(s)
      PROVE  StripeInv' BY <1>11 DEF DayPasses
<1>12. ASSUME NEW h \in Hooks, \E e \in events : HookPending(h, e) \/ HookDuplicate(h, e)
      PROVE  StripeInv' BY <1>12 DEF HookPending, HookDuplicate, Ack, Brings, Recorded, Events
<1>13. ASSUME NEW h \in Hooks, \E e \in events : HookUnapplied(h, e)
      PROVE  StripeInv' BY <1>13 DEF HookUnapplied, Ack, Brings, Recorded, Events
<1>14. ASSUME NEW h \in Hooks, \E e \in events : HookAccept(h, e)
      PROVE  StripeInv' BY <1>14 DEF HookAccept, HookGoto, Brings, Events
<1>15. ASSUME NEW h \in Hooks, HookApply(h)
      PROVE  StripeInv' BY <1>15 DEF HookApply, HookGoto, Ack, Settles, Recorded, Events, Kinds
<1>16. ASSUME NEW h \in Hooks, HookRelease(h) \/ HookDrop(h)
      PROVE  StripeInv' BY <1>16 DEF HookRelease, HookDrop, HookGoto, Ack, Recorded, Events
<1>17. CASE UNCHANGED vars BY <1>17 DEF vars
<1>. QED BY <1>1, <1>2, <1>3, <1>4, <1>5, <1>6, <1>7, <1>8, <1>9, <1>10, <1>11,
       <1>12, <1>13, <1>14, <1>15, <1>16, <1>17 DEF Next, Pay, Hook

\* A thread carries only what its place says.
LEMMA ThreadsStep ==
  TypeOK /\ ThreadsInv /\ [Next]_vars => ThreadsInv'
<1>. SUFFICES ASSUME TypeOK, ThreadsInv, [Next]_vars
              PROVE  ThreadsInv'
  OBVIOUS
<1>. USE PricesAssumption, NoneAssumption DEF TypeOK, ThreadsInv, row, ledger,
     stripe, payer, hooks, admin
<1>1. ASSUME NEW a \in Admins, EditBegin(a) \/ EditSave(a) \/ SendBegin(a) \/ SendSave(a)
      PROVE  ThreadsInv' BY <1>1 DEF EditBegin, EditSave, SendBegin, SendSave
<1>2. CASE MoveProject BY <1>2 DEF MoveProject
<1>3. ASSUME NEW v \in Viewers, ViewBegin(v) \/ ViewSave(v)
      PROVE  ThreadsInv' BY <1>3 DEF ViewBegin, ViewSave
<1>4. ASSUME NEW p \in Payers, PayBegin(p)
      PROVE  ThreadsInv' BY <1>4 DEF PayBegin, Owed, PayGoto
<1>5. ASSUME NEW p \in Payers, PayReuse(p) \/ PayRefused(p) \/ PaySupersede(p) \/ PayDrop(p)
      PROVE  ThreadsInv'
  <2>1. CASE PayReuse(p) \/ PayRefused(p) BY <2>1 DEF PayReuse, PayRefused, PayGoto
  <2>2. CASE PaySupersede(p) \/ PayDrop(p) BY <2>2 DEF PaySupersede, PayDrop, PayGoto
  <2>. QED BY <1>5, <2>1, <2>2
<1>6. ASSUME NEW p \in Payers, PayExpire(p)
      PROVE  ThreadsInv' BY <1>6 DEF PayExpire, PayGoto
<1>7. ASSUME NEW p \in Payers, PayCreate(p)
      PROVE  ThreadsInv' BY <1>7 DEF PayCreate, FreshKey, KeyOf, PayGoto
<1>8. ASSUME NEW p \in Payers, PayBind(p)
      PROVE  ThreadsInv' BY <1>8 DEF PayBind, PayGoto
<1>9. ASSUME NEW s \in Sessions, CardPays(s) \/ BankPays(s)
      PROVE  ThreadsInv' BY <1>9 DEF CardPays, BankPays, Sign, Events
<1>10. ASSUME NEW s \in Sessions, BankSettles(s) \/ BankFails(s)
      PROVE  ThreadsInv' BY <1>10 DEF BankSettles, BankFails, Sign, Events
<1>11. ASSUME NEW s \in Sessions, DayPasses(s)
      PROVE  ThreadsInv' BY <1>11 DEF DayPasses
<1>12. ASSUME NEW h \in Hooks, \E e \in events : HookPending(h, e) \/ HookDuplicate(h, e)
      PROVE  ThreadsInv' BY <1>12 DEF HookPending, HookDuplicate, Ack, Brings, Recorded, Events
<1>13. ASSUME NEW h \in Hooks, \E e \in events : HookUnapplied(h, e)
      PROVE  ThreadsInv' BY <1>13 DEF HookUnapplied, Ack, Brings, Recorded, Events
<1>14. ASSUME NEW h \in Hooks, \E e \in events : HookAccept(h, e)
      PROVE  ThreadsInv' BY <1>14 DEF HookAccept, HookGoto, Brings, Events
<1>15. ASSUME NEW h \in Hooks, HookApply(h)
      PROVE  ThreadsInv' BY <1>15 DEF HookApply, HookGoto, Ack, Settles, Recorded, Events, Kinds
<1>16. ASSUME NEW h \in Hooks, HookRelease(h) \/ HookDrop(h)
      PROVE  ThreadsInv' BY <1>16 DEF HookRelease, HookDrop, HookGoto, Ack, Recorded, Events
<1>17. CASE UNCHANGED vars BY <1>17 DEF vars
<1>. QED BY <1>1, <1>2, <1>3, <1>4, <1>5, <1>6, <1>7, <1>8, <1>9, <1>10, <1>11,
       <1>12, <1>13, <1>14, <1>15, <1>16, <1>17 DEF Next, Pay, Hook

\* Only HookApply writes a payment, of a paid event; a session's charge is fixed
\* at its creation, before it can be paid.
LEMMA LedgerStep ==
  TypeOK /\ StripeInv /\ ThreadsInv /\ LedgerMatchesStripe /\ [Next]_vars => LedgerMatchesStripe'
<1>. SUFFICES ASSUME TypeOK, StripeInv, ThreadsInv, LedgerMatchesStripe, [Next]_vars
              PROVE  LedgerMatchesStripe'
  OBVIOUS
<1>. USE PricesAssumption, NoneAssumption DEF TypeOK, StripeInv, ThreadsInv,
     LedgerMatchesStripe, row, ledger, stripe, payer, hooks, admin
<1>1. ASSUME NEW a \in Admins, EditBegin(a) \/ EditSave(a) \/ SendBegin(a) \/ SendSave(a)
      PROVE  LedgerMatchesStripe' BY <1>1 DEF EditBegin, EditSave, SendBegin, SendSave
<1>2. CASE MoveProject BY <1>2 DEF MoveProject
<1>3. ASSUME NEW v \in Viewers, ViewBegin(v) \/ ViewSave(v)
      PROVE  LedgerMatchesStripe' BY <1>3 DEF ViewBegin, ViewSave
<1>4. ASSUME NEW p \in Payers, PayBegin(p)
      PROVE  LedgerMatchesStripe' BY <1>4 DEF PayBegin, Owed, PayGoto
<1>5. ASSUME NEW p \in Payers, PayReuse(p) \/ PayRefused(p) \/ PaySupersede(p) \/ PayDrop(p)
      PROVE  LedgerMatchesStripe'
  <2>1. CASE PayReuse(p) \/ PayRefused(p) BY <2>1 DEF PayReuse, PayRefused, PayGoto
  <2>2. CASE PaySupersede(p) \/ PayDrop(p) BY <2>2 DEF PaySupersede, PayDrop, PayGoto
  <2>. QED BY <1>5, <2>1, <2>2
<1>6. ASSUME NEW p \in Payers, PayExpire(p)
      PROVE  LedgerMatchesStripe' BY <1>6 DEF PayExpire, PayGoto
<1>7. ASSUME NEW p \in Payers, PayCreate(p)
      PROVE  LedgerMatchesStripe'
  <2>1. \A s \in Sessions : state[s] # "unborn" => charge'[s] = charge[s] BY <1>7 DEF PayCreate
  <2>2. UNCHANGED <<payments, paid>> BY <1>7 DEF PayCreate
  <2>. QED BY <2>1, <2>2
<1>8. ASSUME NEW p \in Payers, PayBind(p)
      PROVE  LedgerMatchesStripe' BY <1>8 DEF PayBind, PayGoto
<1>9. ASSUME NEW s \in Sessions, CardPays(s) \/ BankPays(s)
      PROVE  LedgerMatchesStripe' BY <1>9 DEF CardPays, BankPays, Sign, Events
<1>10. ASSUME NEW s \in Sessions, BankSettles(s) \/ BankFails(s)
      PROVE  LedgerMatchesStripe' BY <1>10 DEF BankSettles, BankFails, Sign, Events
<1>11. ASSUME NEW s \in Sessions, DayPasses(s)
      PROVE  LedgerMatchesStripe' BY <1>11 DEF DayPasses
<1>12. ASSUME NEW h \in Hooks, \E e \in events : HookPending(h, e) \/ HookDuplicate(h, e)
      PROVE  LedgerMatchesStripe' BY <1>12 DEF HookPending, HookDuplicate, Ack, Brings, Recorded, Events
<1>13. ASSUME NEW h \in Hooks, \E e \in events : HookUnapplied(h, e)
      PROVE  LedgerMatchesStripe' BY <1>13 DEF HookUnapplied, Ack, Brings, Recorded, Events
<1>14. ASSUME NEW h \in Hooks, \E e \in events : HookAccept(h, e)
      PROVE  LedgerMatchesStripe' BY <1>14 DEF HookAccept, HookGoto, Brings, Events
<1>15. ASSUME NEW h \in Hooks, HookApply(h)
      PROVE  LedgerMatchesStripe' BY <1>15 DEF HookApply, HookGoto, Ack, Settles, Recorded, Events, Kinds
<1>16. ASSUME NEW h \in Hooks, HookRelease(h) \/ HookDrop(h)
      PROVE  LedgerMatchesStripe' BY <1>16 DEF HookRelease, HookDrop, HookGoto, Ack, Recorded, Events
<1>17. CASE UNCHANGED vars BY <1>17 DEF vars
<1>. QED BY <1>1, <1>2, <1>3, <1>4, <1>5, <1>6, <1>7, <1>8, <1>9, <1>10, <1>11,
       <1>12, <1>13, <1>14, <1>15, <1>16, <1>17 DEF Next, Pay, Hook

\* Every answer to a paid event writes the payment or the audit row, or finds the
\* payment written; neither is ever deleted.
LEMMA MoneyStep ==
  TypeOK /\ StripeInv /\ ThreadsInv /\ NoMoneyUnaccounted /\ [Next]_vars => NoMoneyUnaccounted'
<1>. SUFFICES ASSUME TypeOK, StripeInv, ThreadsInv, NoMoneyUnaccounted, [Next]_vars
              PROVE  NoMoneyUnaccounted'
  OBVIOUS
<1>. USE PricesAssumption, NoneAssumption DEF TypeOK, ThreadsInv,
     NoMoneyUnaccounted, Recorded, row, ledger, stripe, payer, hooks, admin
<1>1. ASSUME NEW a \in Admins, EditBegin(a) \/ EditSave(a) \/ SendBegin(a) \/ SendSave(a)
      PROVE  NoMoneyUnaccounted' BY <1>1 DEF EditBegin, EditSave, SendBegin, SendSave
<1>2. CASE MoveProject BY <1>2 DEF MoveProject
<1>3. ASSUME NEW v \in Viewers, ViewBegin(v) \/ ViewSave(v)
      PROVE  NoMoneyUnaccounted' BY <1>3 DEF ViewBegin, ViewSave
<1>4. ASSUME NEW p \in Payers, PayBegin(p)
      PROVE  NoMoneyUnaccounted' BY <1>4 DEF PayBegin, Owed, PayGoto
<1>5. ASSUME NEW p \in Payers, PayReuse(p) \/ PayRefused(p) \/ PaySupersede(p) \/ PayDrop(p)
      PROVE  NoMoneyUnaccounted'
  <2>1. CASE PayReuse(p) \/ PayRefused(p) BY <2>1 DEF PayReuse, PayRefused, PayGoto
  <2>2. CASE PaySupersede(p) \/ PayDrop(p) BY <2>2 DEF PaySupersede, PayDrop, PayGoto
  <2>. QED BY <1>5, <2>1, <2>2
<1>6. ASSUME NEW p \in Payers, PayExpire(p)
      PROVE  NoMoneyUnaccounted' BY <1>6 DEF PayExpire, PayGoto
<1>7. ASSUME NEW p \in Payers, PayCreate(p)
      PROVE  NoMoneyUnaccounted' BY <1>7 DEF PayCreate, FreshKey, KeyOf, PayGoto
<1>8. ASSUME NEW p \in Payers, PayBind(p)
      PROVE  NoMoneyUnaccounted' BY <1>8 DEF PayBind, PayGoto
<1>9. ASSUME NEW s \in Sessions, CardPays(s) \/ BankPays(s)
      PROVE  NoMoneyUnaccounted' BY <1>9 DEF CardPays, BankPays, Sign, Events
<1>10. ASSUME NEW s \in Sessions, BankSettles(s) \/ BankFails(s)
      PROVE  NoMoneyUnaccounted' BY <1>10 DEF BankSettles, BankFails, Sign, Events
<1>11. ASSUME NEW s \in Sessions, DayPasses(s)
      PROVE  NoMoneyUnaccounted' BY <1>11 DEF DayPasses
<1>12. ASSUME NEW h \in Hooks, \E e \in events : HookPending(h, e) \/ HookDuplicate(h, e)
      PROVE  NoMoneyUnaccounted' BY <1>12 DEF HookPending, HookDuplicate, Ack, Brings, Events
<1>13. ASSUME NEW h \in Hooks, \E e \in events : HookUnapplied(h, e)
      PROVE  NoMoneyUnaccounted' BY <1>13 DEF HookUnapplied, Ack, Brings, Events
<1>14. ASSUME NEW h \in Hooks, \E e \in events : HookAccept(h, e)
      PROVE  NoMoneyUnaccounted' BY <1>14 DEF HookAccept, HookGoto, Brings, Events
<1>15. ASSUME NEW h \in Hooks, HookApply(h)
      PROVE  NoMoneyUnaccounted'
  <2>1. payments \subseteq payments' /\ audited \subseteq audited' BY <1>15 DEF HookApply, Ack
  <2>2. acked' = acked \cup {hook[h]} BY <1>15 DEF HookApply, Ack
  <2>3. (\E y \in payments' : y.session = hook[h].session) \/ hook[h].session \in audited'
    <3>. DEFINE kind == charge[hook[h].session][1]
               row1 == [session |-> hook[h].session, kind |-> kind,
                        amount |-> charge[hook[h].session][2]]
    <3>1. CASE ~ Conflicts(hook[h].session, kind) /\ status \in SettlesFrom(kind)
      <4>1. row1 \in payments' BY <1>15, <3>1 DEF HookApply
      <4>2. row1.session = hook[h].session
        OBVIOUS
      <4>. QED BY <4>1, <4>2
    <3>2. CASE ~ (~ Conflicts(hook[h].session, kind) /\ status \in SettlesFrom(kind))
      BY <1>15, <3>2 DEF HookApply, Ack
    <3>. QED BY <3>1, <3>2
  <2>4. ASSUME NEW e \in acked', e.type = "paid"
        PROVE  (\E y \in payments' : y.session = e.session) \/ e.session \in audited'
    <3>1. CASE e \in acked
      <4>1. (\E y \in payments : y.session = e.session) \/ e.session \in audited BY <2>4, <3>1
      <4>. QED BY <2>1, <4>1
    <3>2. CASE e = hook[h] BY <2>3, <3>2
    <3>. QED BY <2>2, <2>4, <3>1, <3>2
  <2>. QED BY ONLY <2>4, Zenon DEF NoMoneyUnaccounted, Recorded
<1>16. ASSUME NEW h \in Hooks, HookRelease(h) \/ HookDrop(h)
      PROVE  NoMoneyUnaccounted' BY <1>16 DEF HookRelease, HookDrop, HookGoto, Ack, Events
<1>17. CASE UNCHANGED vars BY <1>17 DEF vars
<1>. QED BY <1>1, <1>2, <1>3, <1>4, <1>5, <1>6, <1>7, <1>8, <1>9, <1>10, <1>11,
       <1>12, <1>13, <1>14, <1>15, <1>16, <1>17 DEF Next, Pay, Hook

\* A new invoice has no ledger yet.
LEMMA IInvInit == Init => IInv
BY NoneAssumption
   DEF Init, IInv, TypeOK, StripeInv, ThreadsInv, LedgerMatchesStripe,
       NoMoneyUnaccounted, NoAsk, NoEvent, Kinds, Events

\* Each conjunct is kept by the lemma above of its name.
LEMMA IInvStep == IInv /\ [Next]_vars => IInv'
BY TypeStep, StripeStep, ThreadsStep, LedgerStep, MoneyStep DEF IInv

\* The inductive invariant: types, what Stripe's side guarantees, what each
\* thread carries, and the two ledger properties.
THEOREM Inductive == Spec => []IInv
BY IInvInit, IInvStep, PTL DEF Spec

\* Every reachable state is well typed.
THEOREM TypeCorrect == Spec => []TypeOK
<1>1. IInv => TypeOK BY DEF IInv
<1>. QED BY <1>1, Inductive, PTL

\* Whatever edits, sends, views, retries and deliveries interleave, a row of the
\* payments table is money Stripe took for that installment (app/public/pay.py).
THEOREM Ledger == Spec => []LedgerMatchesStripe
<1>1. IInv => LedgerMatchesStripe BY DEF IInv
<1>. QED BY <1>1, Inductive, PTL

\* A payment event that was answered is in the ledger or in the audit trail.
THEOREM Accounted == Spec => []NoMoneyUnaccounted
<1>1. IInv => NoMoneyUnaccounted BY DEF IInv
<1>. QED BY <1>1, Inductive, PTL

(* Prompt requests: no installment is charged twice.                       *)

Asked(p) == <<ask[p].kind, ask[p].amount>>
Due == <<Owed.kind, Owed.amount>>
Holders == Sessions \cup {None}

\* A session that has taken, or may still take, money; and one that is superseded.
Alive(s) == state[s] = "open" \/ paid[s] \in {"processing", "paid"}
Dead(s) == state[s] = "expired" \/ paid[s] = "paid"

\* Stripe remembers that session s was made for installment o after session q.
Made(o, q, s) ==
  [key |-> [kind |-> o[1], amount |-> o[2], prior |-> q], session |-> s] \in keys

\* A request that may still create a session.
Blocked(p) ==
  ppc[p] = "retrieve" /\ ask[p].fits /\ state[ask[p].prior] \in {"open", "complete"}
Seeks(p) == ppc[p] # "idle" /\ ~Blocked(p)

\* What an invoice that was sent may be charged, by now.
Installments ==
  {IF deposit > 0 THEN <<"deposit", deposit>> ELSE <<"full", total>>}
  \cup (IF status \in {"deposit_paid", "paid"} THEN {<<"balance", total - deposit>>} ELSE {})

Blank ==
  /\ bound = None /\ keys = {} /\ shown = {} /\ closed = {}
  /\ \A s \in Sessions : state[s] = "unborn"
  /\ \A p \in Payers : ppc[p] = "idle"
  /\ \A h \in Hooks : hpc[h] = "idle"

DraftInv ==
  /\ status = "draft" => Blank
  /\ \A a \in Admins : apc[a] # "idle" => status = "draft"
  /\ \A a, b \in Admins : Busy(a) /\ Busy(b) => a = b
  /\ \A v \in Viewers : vpc[v] = "idle"

SessionsInv ==
  \A s \in Sessions :
    /\ state[s] # "unborn" => charge[s] \in Installments
    /\ state[s] = "complete" => s \in shown
    /\ s \in shown => state[s] # "unborn"

FailuresInv ==
  /\ \A e \in events : e.type = "failed" => paid[e.session] = "failed"
  /\ \A h \in Hooks : hpc[h] = "release" => hook[h].type = "failed"

KeysInv ==
  \A o \in Kinds \X Nat, q \in Holders, s \in Sessions : Made(o, q, s) =>
    /\ state[s] \in {"open", "complete"} /\ charge[s] = o
    /\ q # None => Dead(q)
    /\ \A t \in Sessions : Made(o, q, t) => s = t

\* The bound session is of what is owed, or of the installment paid before.
BoundInv ==
  bound # None =>
    /\ bound \in shown /\ charge[bound] = <<boundKind, boundAmount>>
    /\ charge[bound] = Due \/ paid[bound] = "paid"

NoExpire == closed = {} /\ \A p \in Payers : ppc[p] # "expire"

\* A live session of what is owed is bound, or is the successor of what is bound.
CurrentInv ==
  \A s \in Sessions : Alive(s) /\ charge[s] = Due =>
    IF s \in shown THEN bound = s ELSE Made(Due, bound, s)

\* No successor of the bound session was on a client's screen.
SuccessorInv ==
  bound # None => \A s \in Sessions : Made(Due, bound, s) => state[s] = "open"

\* A request that may still create one: every live session of its installment is
\* the one its key returns, and all such requests have the same key.
SeekOK(p) ==
  LET q == ask[p].prior IN
  /\ Asked(p) = Due
  /\ \A s \in Sessions : Alive(s) /\ charge[s] = Due => state[s] = "open" /\ Made(Due, q, s)
  /\ q # None => Dead(q) /\ \A s \in Sessions : Made(Due, q, s) => state[s] = "open"
  /\ bound = q \/ (bound \in Sessions /\ Made(Due, q, bound))

FlightOK(p) ==
  /\ ppc[p] # "idle" => Asked(p) \in Installments
  /\ ppc[p] = "retrieve" =>
       (ask[p].fits <=> charge[ask[p].prior] = Asked(p)) /\ state[ask[p].prior] # "unborn"
  /\ Seeks(p) => SeekOK(p)
  /\ ppc[p] = "bind" => Made(Asked(p), ask[p].prior, got[p])

FlightInv ==
  /\ \A p \in Payers : FlightOK(p)
  /\ \A p, r \in Payers : Seeks(p) /\ Seeks(r) => ask[p].prior = ask[r].prior

OneAlive ==
  \A s, t \in Sessions : Alive(s) /\ Alive(t) /\ charge[s][1] = charge[t][1] => s = t

PromptInv == /\ DraftInv /\ SessionsInv /\ FailuresInv /\ KeysInv /\ BoundInv /\ NoExpire
             /\ CurrentInv /\ SuccessorInv /\ FlightInv /\ OneAlive

PInv == IInv /\ PromptInv

(* What is read off the row.                                               *)

\* What is owed, as a pair.
LEMMA DueTyped ==
  ASSUME TypeOK
  PROVE  /\ Due \in (Kinds \cup {None}) \X Nat
         /\ Due[1] = Owed.kind /\ Due[2] = Owed.amount
BY DEF TypeOK, Due, Owed, Kinds

\* Of an installment there is one amount.
LEMMA OneAmount ==
  ASSUME NEW i \in Installments, NEW j \in Installments, i[1] = j[1]
  PROVE  i = j
BY DEF Installments

\* What is owed is an installment, unless nothing is.
LEMMA DueIsInstallment ==
  ASSUME TypeOK, status # "paid"
  PROVE  Due \in Installments
BY DEF TypeOK, Due, Owed, Installments

SameMoney == UNCHANGED <<row, stripe>>

\* The row and Stripe unchanged, so is all that is read off them.
LEMMA MoneyFrame ==
  ASSUME SameMoney
  PROVE  /\ Due' = Due /\ Installments' = Installments
         /\ \A s \in Sessions : (Alive(s)' <=> Alive(s)) /\ (Dead(s)' <=> Dead(s))
         /\ \A o, q, s : Made(o, q, s)' <=> Made(o, q, s)
         /\ UNCHANGED <<bound, boundKind, boundAmount, state, paid, charge, keys, closed,
                        shown, events, status, total, deposit>>
BY DEF SameMoney, row, stripe, Due, Owed, Installments, Alive, Dead, Made

MoneyInv == /\ SessionsInv /\ KeysInv /\ BoundInv /\ CurrentInv /\ SuccessorInv /\ OneAlive
            /\ closed = {}

\* What is said of the row and of Stripe stays.
LEMMA MoneyOn ==
  ASSUME SameMoney, TypeOK, MoneyInv
  PROVE  MoneyInv'
<1> USE MoneyFrame DEF MoneyInv
<1>1. SessionsInv' BY DEF SessionsInv
<1>2. KeysInv' 
  <2>1. \A q \in Holders : q # None => (Dead(q)' <=> Dead(q)) BY DEF Holders
  <2> QED BY <2>1 DEF KeysInv
<1>3. BoundInv' BY DEF BoundInv
<1>4. CurrentInv' BY DEF CurrentInv
<1>5. SuccessorInv' BY DEF SuccessorInv
<1>6. OneAlive' BY DEF OneAlive
<1> QED BY <1>1, <1>2, <1>3, <1>4, <1>5, <1>6

\* The requests other than p, while the row and Stripe stay.
LEMMA FlightFrame ==
  ASSUME SameMoney, TypeOK, FlightInv, NEW p \in Payers, TypeOK',
         \A r \in Payers \ {p} : ppc'[r] = ppc[r] /\ ask'[r] = ask[r] /\ got'[r] = got[r],
         FlightOK(p)',
         \A r \in Payers \ {p} : Seeks(p)' /\ Seeks(r) => ask'[p].prior = ask[r].prior
  PROVE  FlightInv'
<1> USE MoneyFrame
<1>1. ASSUME NEW r \in Payers \ {p} PROVE Seeks(r)' <=> Seeks(r) BY DEF Seeks, Blocked
<1>2. ASSUME NEW r \in Payers \ {p} PROVE FlightOK(r)'
  <2>1. FlightOK(r) BY DEF FlightInv
  <2>2. Asked(r)' = Asked(r) BY DEF Asked
  <2>3. PICK q : q = ask[r].prior OBVIOUS
  <2>4. q \in Holders BY <2>3 DEF TypeOK, Holders
  <2>5. q # None => (Dead(q)' <=> Dead(q)) BY <2>4 DEF Holders
  <2>6. PICK o : o = Due OBVIOUS
  <2>7. ask'[r].prior = q /\ Due' = o BY <2>3, <2>6
  <2>8. Seeks(r) => SeekOK(r)' BY <2>1, <2>2, <2>3, <2>5, <2>6, <2>7 DEF FlightOK, SeekOK
  <2>9. ppc'[r] = "bind" => Made(Asked(r), ask[r].prior, got[r])'
    <3>1. PICK a, g : a = Asked(r) /\ g = got[r] OBVIOUS
    <3> QED BY <2>1, <2>2, <2>3, <2>7, <3>1 DEF FlightOK
  <2> QED BY <1>1, <2>1, <2>2, <2>8, <2>9 DEF FlightOK
<1>3. ASSUME NEW r1 \in Payers, NEW r2 \in Payers, Seeks(r1)', Seeks(r2)'
      PROVE  ask'[r1].prior = ask'[r2].prior BY <1>1, <1>3 DEF FlightInv
<1> QED BY <1>2, <1>3 DEF FlightInv

(* Pay requests.                                                           *)

\* One request moves on beside the row and Stripe.
LEMMA PayFrame ==
  ASSUME PInv, NEW p \in Payers, UNCHANGED <<row, stripe, hooks, vpc, admin>>, TypeOK',
         \A r \in Payers \ {p} : ppc'[r] = ppc[r] /\ ask'[r] = ask[r] /\ got'[r] = got[r],
         status # "draft" \/ ppc'[p] = "idle", ppc'[p] # "expire", FlightOK(p)',
         \A r \in Payers \ {p} : Seeks(p)' /\ Seeks(r) => ask'[p].prior = ask[r].prior
  PROVE  PromptInv'
<1> USE DEF PInv, PromptInv, IInv
<1>0. SameMoney BY DEF SameMoney
<1>1. MoneyInv BY DEF MoneyInv, NoExpire
<1>2. MoneyInv' BY <1>0, <1>1, MoneyOn
<1>3. FlightInv' BY <1>0, FlightFrame
<1>4. NoExpire' BY <1>2 DEF NoExpire, MoneyInv
<1>5. DraftInv'
  <2>1. UNCHANGED <<status, bound, keys, shown, closed, state, hpc, vpc, apc, edit>> BY DEF row, stripe, hooks, admin
  <2>2. (\A r \in Payers : ppc[r] = "idle") /\ ppc'[p] = "idle" => \A r \in Payers : ppc'[r] = "idle"
    OBVIOUS
  <2>3. status = "draft" => Blank' BY <2>1, <2>2 DEF DraftInv, Blank
  <2> QED BY <2>1, <2>3 DEF DraftInv, Busy
<1>6. FailuresInv' BY DEF FailuresInv, stripe, hooks
<1> QED BY <1>2, <1>3, <1>4, <1>5, <1>6 DEF MoneyInv

\* The request ends: with the prior session's page, with a refusal, or it dies.
LEMMA PayEndStep ==
  ASSUME PInv, TypeOK', NEW p \in Payers, PayReuse(p) \/ PayRefused(p) \/ PayDrop(p)
  PROVE  PromptInv'
<1>1. ppc' = [ppc EXCEPT ![p] = "idle"]
      /\ UNCHANGED <<row, ask, got, ledger, stripe, hooks, vpc, admin>> BY DEF PayReuse, PayRefused, PayDrop, PayGoto
<1>2. ppc'[p] = "idle" /\ \A r \in Payers \ {p} : ppc'[r] = ppc[r] BY <1>1 DEF PInv, IInv, TypeOK
<1>3. ~Seeks(p)' /\ FlightOK(p)' BY <1>2 DEF Seeks, FlightOK
<1> QED BY <1>1, <1>2, <1>3, PayFrame

\* A request reads the row: what it may still create is what succeeds the bound session.
LEMMA PayBeginStep ==
  ASSUME PInv, TypeOK', NEW p \in Payers, PayBegin(p)
  PROVE  PromptInv'
<1> USE DEF PInv, PromptInv, IInv
<1>1. /\ UNCHANGED <<row, got, ledger, stripe, hooks, vpc, admin>>
      /\ status # "draft" /\ Owed.amount > 0 /\ ppc[p] = "idle"
      /\ ppc' = [ppc EXCEPT ![p] = IF bound = None THEN "create" ELSE "retrieve"]
      /\ ask' = [ask EXCEPT ![p] =
           [prior |-> bound, kind |-> Owed.kind, amount |-> Owed.amount,
            fits |-> boundKind = Owed.kind /\ boundAmount = Owed.amount]] BY DEF PayBegin, PayGoto
<1>2. /\ ppc'[p] = (IF bound = None THEN "create" ELSE "retrieve")
      /\ ask'[p].prior = bound /\ ask'[p].kind = Owed.kind /\ ask'[p].amount = Owed.amount
      /\ ask'[p].fits <=> (boundKind = Owed.kind /\ boundAmount = Owed.amount)
      /\ \A r \in Payers \ {p} : ppc'[r] = ppc[r] /\ ask'[r] = ask[r]
  <2>1. /\ ppc'[p] = (IF bound = None THEN "create" ELSE "retrieve")
        /\ \A r \in Payers \ {p} : ppc'[r] = ppc[r] /\ ask'[r] = ask[r] BY <1>1 DEF TypeOK
  <2>2. PICK x : x = [prior |-> bound, kind |-> Owed.kind, amount |-> Owed.amount,
                      fits |-> boundKind = Owed.kind /\ boundAmount = Owed.amount]
    OBVIOUS
  <2>3. ask'[p] = x
    <3>1. ask' = [ask EXCEPT ![p] = x] BY <1>1, <2>2
    <3> QED BY <3>1 DEF TypeOK
  <2>4. x.prior = bound /\ x.kind = Owed.kind /\ x.amount = Owed.amount
        /\ x.fits = (boundKind = Owed.kind /\ boundAmount = Owed.amount) BY <2>2, Zenon
  <2> QED BY <2>1, <2>3, <2>4
<1>3. Asked(p)' = Due BY <1>2 DEF Asked, Due
<1>4. status # "paid" BY <1>1 DEF Owed
<1>5. Due \in Installments BY <1>4, DueIsInstallment
<1>6. bound # None => (ask'[p].fits <=> charge[bound] = Due) BY <1>2 DEF BoundInv, Due
<1>7. bound # None => bound \in Sessions /\ state[bound] # "unborn" BY DEF TypeOK, BoundInv, SessionsInv
<1>8. SameMoney BY <1>1 DEF SameMoney
<1>9. Seeks(p)' <=> ~(bound # None /\ charge[bound] = Due /\ state[bound] \in {"open", "complete"})
  <2>1. state' = state BY <1>8, MoneyFrame
  <2> QED BY <1>2, <1>6, <2>1 DEF Seeks, Blocked
<1>10. ASSUME Seeks(p)'
       PROVE  /\ \A s \in Sessions : Alive(s) /\ charge[s] = Due =>
                   state[s] = "open" /\ Made(Due, bound, s)
              /\ bound # None => Dead(bound) /\ \A s \in Sessions : Made(Due, bound, s) => state[s] = "open"
  <2>1. ASSUME NEW s \in Sessions, Alive(s), charge[s] = Due
        PROVE  state[s] = "open" /\ Made(Due, bound, s)
    <3>1. state[s] \in {"open", "complete"} BY <2>1 DEF Alive, StripeInv, TypeOK
    <3>2. s \notin shown
      <4>1. s \in shown => bound = s BY <2>1 DEF CurrentInv
      <4> QED BY <1>9, <1>10, <2>1, <3>1, <4>1, NoneAssumption
    <3>3. state[s] = "open" BY <3>1, <3>2 DEF SessionsInv
    <3> QED BY <2>1, <3>2, <3>3 DEF CurrentInv
  <2>2. ASSUME bound # None PROVE Dead(bound)
    <3>1. CASE charge[bound] = Due BY <1>7, <1>9, <1>10, <2>2, <3>1 DEF Dead, TypeOK
    <3>2. CASE charge[bound] # Due BY <2>2, <3>2 DEF BoundInv, Dead
    <3> QED BY <3>1, <3>2
  <2> QED BY <2>1, <2>2 DEF SuccessorInv
<1>11. FlightOK(p)'
  <2>1. Due' = Due /\ Installments' = Installments /\ charge' = charge /\ state' = state
        /\ bound' = bound BY <1>8, MoneyFrame
  <2>2. PICK b, d : b = bound /\ d = Due OBVIOUS
  <2>3. ask'[p].prior = b /\ Due' = d /\ bound' = b BY <1>2, <2>1, <2>2
  <2>4. Seeks(p)' => SeekOK(p)'
    <3>1. b # None => (Dead(b)' <=> Dead(b)) BY <1>7, <1>8, <2>2, MoneyFrame
    <3> QED BY <1>3, <1>8, <1>10, <2>1, <2>2, <2>3, <3>1, MoneyFrame DEF SeekOK
  <2>5. ppc'[p] # "bind" BY <1>2
  <2>6. ppc'[p] = "retrieve" => bound # None BY <1>2
  <2> QED BY <1>2, <1>3, <1>5, <1>6, <1>7, <2>1, <2>4, <2>5, <2>6 DEF FlightOK
<1>12. ASSUME NEW r \in Payers \ {p}, Seeks(p)', Seeks(r) PROVE ask'[p].prior = ask[r].prior
  <2>1. FlightOK(r) /\ SeekOK(r) BY <1>12 DEF FlightInv, FlightOK
  <2>2. CASE bound = ask[r].prior BY <1>2, <2>2
  <2>3. CASE bound \in Sessions /\ Made(Due, ask[r].prior, bound)
    <3>1. Due \in Kinds \X Nat BY <1>4, DueTyped, NoneAssumption DEF Due, Owed, TypeOK, Kinds
    <3>2. ask[r].prior \in Holders BY DEF TypeOK, Holders
    <3>3. state[bound] \in {"open", "complete"} /\ charge[bound] = Due BY <2>3, <3>1, <3>2 DEF KeysInv
    <3> QED BY <1>9, <1>12, <2>3, <3>3, NoneAssumption
  <2> QED BY <2>1, <2>2, <2>3 DEF SeekOK
<1> QED BY <1>1, <1>2, <1>11, <1>12, PayFrame

\* What the prior session says is read: only a request that may create goes on.
LEMMA PaySupersedeStep ==
  ASSUME PInv, TypeOK', NEW p \in Payers, PaySupersede(p)
  PROVE  PromptInv'
<1> USE DEF PInv, PromptInv, IInv
<1>1. /\ UNCHANGED <<row, ask, got, ledger, stripe, hooks, vpc, admin>>
      /\ ppc[p] = "retrieve" /\ ~Reusable(p) /\ ~StillCollectible(p)
      /\ ppc' = [ppc EXCEPT ![p] = IF state[ask[p].prior] = "open" THEN "expire" ELSE "create"]
  BY DEF PaySupersede, PayGoto
<1>2. FlightOK(p) /\ ask[p].prior \in Sessions BY <1>1 DEF FlightInv, ThreadsInv
<1>3. Seeks(p) BY <1>1, <1>2 DEF Seeks, Blocked, Reusable, StillCollectible
<1>4. SeekOK(p) BY <1>2, <1>3 DEF FlightOK
<1>5. Dead(ask[p].prior) BY <1>2, <1>4, NoneAssumption DEF SeekOK
<1>6. state[ask[p].prior] # "open" BY <1>2, <1>5 DEF Dead, StripeInv
<1>7. ppc'[p] = "create" /\ \A r \in Payers \ {p} : ppc'[r] = ppc[r] BY <1>1, <1>6 DEF TypeOK
<1>8. SameMoney BY <1>1 DEF SameMoney
<1>9. FlightOK(p)'
  <2>1. PICK q, o : q = ask[p].prior /\ o = Due OBVIOUS
  <2>2. ask'[p].prior = q /\ Due' = o /\ bound' = bound /\ state' = state /\ charge' = charge
        /\ Installments' = Installments BY <1>1, <1>8, <2>1, MoneyFrame
  <2>3. Asked(p)' = Asked(p) BY <1>1 DEF Asked
  <2>4. Dead(q)' <=> Dead(q) BY <1>2, <1>8, <2>1, MoneyFrame
  <2>5. SeekOK(p)' BY <1>4, <1>8, <2>1, <2>2, <2>3, <2>4, MoneyFrame DEF SeekOK
  <2> QED BY <1>1, <1>2, <1>7, <2>2, <2>3, <2>5 DEF FlightOK
<1>10. status # "draft" BY <1>1 DEF DraftInv, Blank
<1> QED BY <1>1, <1>3, <1>7, <1>9, <1>10, PayFrame DEF FlightInv

\* No request is at the expire call: a prompt one finds nothing to expire.
LEMMA NoExpireStep ==
  ASSUME PInv, NEW p \in Payers
  PROVE  ~PayExpire(p)
BY DEF PInv, PromptInv, NoExpire, PayExpire

\* The request that is about to create may still do so, and its key is what Made says.
LEMMA AtCreate ==
  ASSUME PInv, NEW p \in Payers, ppc[p] = "create"
  PROVE  /\ FlightOK(p) /\ Seeks(p) /\ SeekOK(p) /\ status # "draft"
         /\ \A t : [key |-> KeyOf(p), session |-> t] \in keys <=> Made(Asked(p), ask[p].prior, t)
         /\ Asked(p) \in Kinds \X Nat /\ ask[p].prior \in Holders
<1> USE DEF PInv, PromptInv, IInv
<1>1. FlightOK(p) BY DEF FlightInv
<1>2. Seeks(p) BY DEF Seeks, Blocked
<1>3. status # "draft" BY DEF DraftInv, Blank
<1>4. \A t : [key |-> KeyOf(p), session |-> t] \in keys <=> Made(Asked(p), ask[p].prior, t) BY DEF KeyOf, Made, Asked
<1>5. Asked(p) \in Kinds \X Nat /\ ask[p].prior \in Holders BY DEF TypeOK, Asked, Holders
<1> QED BY <1>1, <1>2, <1>3, <1>4, <1>5 DEF FlightOK

\* A repeated create is answered with the session of the first.
LEMMA PayReplayStep ==
  ASSUME PInv, TypeOK', NEW p \in Payers, NEW s \in Sessions, ppc[p] = "create",
         [key |-> KeyOf(p), session |-> s] \in keys,
         got' = [got EXCEPT ![p] = s], ppc' = [ppc EXCEPT ![p] = "bind"],
         UNCHANGED <<row, ask, stripe, hooks, vpc, admin>>
  PROVE  PromptInv'
<1> USE DEF PInv, PromptInv, IInv
<1>1. ppc'[p] = "bind" /\ got'[p] = s
      /\ \A r \in Payers \ {p} : ppc'[r] = ppc[r] /\ ask'[r] = ask[r] /\ got'[r] = got[r] BY DEF TypeOK
<1>2. SameMoney BY DEF SameMoney
<1>3. FlightOK(p)'
  <2>1. PICK q, o, c : q = ask[p].prior /\ o = Due /\ c = Asked(p) OBVIOUS
  <2>2. ask'[p].prior = q /\ Due' = o /\ Asked(p)' = c BY <1>2, <2>1, MoneyFrame DEF Asked
  <2>3. bound' = bound /\ state' = state /\ charge' = charge /\ Installments' = Installments BY <1>2, MoneyFrame
  <2>4. q \in Holders /\ SeekOK(p) /\ FlightOK(p) BY <2>1, AtCreate
  <2>5. q # None => (Dead(q)' <=> Dead(q)) BY <1>2, <2>4, MoneyFrame DEF Holders
  <2>6. SeekOK(p)' BY <1>2, <2>1, <2>2, <2>3, <2>4, <2>5, MoneyFrame DEF SeekOK
  <2>7. Made(c, q, s)' BY <1>2, <2>1, AtCreate, MoneyFrame
  <2>8. c \in Installments BY <2>1, <2>4 DEF FlightOK
  <2> QED BY <1>1, <2>2, <2>3, <2>6, <2>7, <2>8 DEF FlightOK
<1>4. \A r \in Payers \ {p} : Seeks(r) => ask'[p].prior = ask[r].prior BY AtCreate DEF FlightInv
<1>5. status # "draft" BY AtCreate
<1> QED BY <1>1, <1>3, <1>4, <1>5, PayFrame

\* Nothing of what is owed is alive, so the session made now is the only one.
LEMMA PayFreshStep ==
  ASSUME PInv, TypeOK', NEW p \in Payers, NEW s \in Sessions, ppc[p] = "create",
         state[s] = "unborn", FreshKey(p), got' = [got EXCEPT ![p] = s],
         state' = [state EXCEPT ![s] = "open"],
         charge' = [charge EXCEPT ![s] = <<ask[p].kind, ask[p].amount>>],
         keys' = keys \cup {[key |-> KeyOf(p), session |-> s]},
         ppc' = [ppc EXCEPT ![p] = "bind"],
         UNCHANGED <<row, ask, paid, closed, shown, events, hooks, vpc, admin>>
  PROVE  PromptInv'
<1> USE DEF PInv, PromptInv, IInv
<1>1. ppc'[p] = "bind" /\ got'[p] = s
      /\ \A r \in Payers \ {p} : ppc'[r] = ppc[r] /\ got'[r] = got[r] BY DEF TypeOK
<1>2. PICK q, o : q = ask[p].prior /\ o = Due OBVIOUS
<1>3. FlightOK(p) /\ Seeks(p) /\ SeekOK(p) /\ status # "draft" /\ Asked(p) = o
      /\ o \in Kinds \X Nat /\ q \in Holders BY <1>2, AtCreate DEF SeekOK
<1>4. \A t : ~Made(o, q, t)
  <2>1. ASSUME NEW t PROVE [key |-> KeyOf(p), session |-> t] \notin keys
    <3>1. [key |-> KeyOf(p), session |-> t].key = KeyOf(p) OBVIOUS
    <3> QED BY <3>1 DEF FreshKey
  <2> QED BY <1>2, <1>3, <2>1, AtCreate
<1>5. /\ ask' = ask /\ Due' = o /\ Installments' = Installments
      /\ UNCHANGED <<status, total, deposit, bound, boundKind, boundAmount>> BY <1>2 DEF row, Due, Owed, Installments
<1>6. /\ state'[s] = "open" /\ charge'[s] = o
      /\ \A t \in Sessions \ {s} : state'[t] = state[t] /\ charge'[t] = charge[t] BY <1>3 DEF TypeOK, Asked
<1>7. paid[s] = "unpaid" BY DEF StripeInv, TypeOK
<1>8. /\ \A t \in Sessions \ {s} : (Alive(t)' <=> Alive(t)) /\ (Dead(t)' <=> Dead(t))
      /\ ~Dead(s) /\ ~Dead(s)' /\ ~Alive(s) /\ Alive(s)' BY <1>6, <1>7 DEF Alive, Dead
<1>9. ASSUME NEW a \in Kinds \X Nat, NEW b \in Holders, NEW t \in Sessions
      PROVE  Made(a, b, t)' <=> Made(a, b, t) \/ (a = o /\ b = q /\ t = s)
  <2>1. KeyOf(p) = [kind |-> o[1], amount |-> o[2], prior |-> q] BY <1>2, <1>3 DEF KeyOf, Asked
  <2>2. a = <<a[1], a[2]>> /\ o = <<o[1], o[2]>> BY <1>3
  <2>3. DEFINE k == [key |-> [kind |-> a[1], amount |-> a[2], prior |-> b], session |-> t]
  <2>4. k \in keys' <=> k \in keys \/ k = [key |-> KeyOf(p), session |-> s] OBVIOUS
  <2>5. k = [key |-> KeyOf(p), session |-> s] <=> a[1] = o[1] /\ a[2] = o[2] /\ b = q /\ t = s BY <2>1
  <2>6. a = o <=> a[1] = o[1] /\ a[2] = o[2] BY <2>2
  <2> QED BY <2>4, <2>5, <2>6 DEF Made
<1>10. ASSUME NEW a \in Kinds \X Nat, NEW b \in Holders, NEW t \in Sessions, Made(a, b, t)
       PROVE  t # s /\ state'[t] = state[t] /\ charge'[t] = charge[t] /\ (b # None => Dead(b))
  BY <1>6, <1>10 DEF KeysInv
<1>11. \A t \in Sessions : Alive(t) => charge[t] # o BY <1>2, <1>3, <1>4 DEF SeekOK
<1>12. bound = q BY <1>2, <1>3, <1>4 DEF SeekOK
<1>13. q # None => q \in Sessions \ {s} /\ Dead(q) /\ Dead(q)' BY <1>2, <1>3, <1>8 DEF SeekOK, Holders
<1>14. o \in Installments BY <1>3 DEF FlightOK
<1>15. SessionsInv' BY <1>5, <1>6, <1>14 DEF SessionsInv
<1>16. KeysInv'
  <2>1. ASSUME NEW a \in Kinds \X Nat, NEW b \in Holders, NEW t \in Sessions, Made(a, b, t)'
        PROVE  /\ state'[t] \in {"open", "complete"} /\ charge'[t] = a
               /\ b # None => Dead(b)'
               /\ \A u \in Sessions : Made(a, b, u)' => t = u
    <3>1. CASE Made(a, b, t)
      <4>1. state[t] \in {"open", "complete"} /\ charge[t] = a /\ (b # None => Dead(b))
            /\ \A u \in Sessions : Made(a, b, u) => t = u BY <3>1 DEF KeysInv
      <4>2. b # None => b \in Sessions \ {s} BY <1>8, <4>1 DEF Holders
      <4>3. \A u \in Sessions : Made(a, b, u)' => Made(a, b, u) BY <1>4, <1>9, <3>1
      <4> QED BY <1>8, <1>10, <3>1, <4>1, <4>2, <4>3
    <3>2. CASE a = o /\ b = q /\ t = s BY <1>4, <1>6, <1>9, <1>13, <3>2
    <3> QED BY <1>9, <2>1, <3>1, <3>2
  <2> QED BY <2>1 DEF KeysInv
<1>17. BoundInv'
  <2>1. bound # None => bound \in Sessions \ {s} BY <1>12, <1>13
  <2> QED BY <1>2, <1>5, <1>6, <2>1 DEF BoundInv
<1>18. CurrentInv'
  <2>1. ASSUME NEW t \in Sessions, Alive(t)', charge'[t] = o
        PROVE  IF t \in shown' THEN bound' = t ELSE Made(o, q, t)'
    <3>1. t = s BY <1>6, <1>8, <1>11, <2>1
    <3>2. s \notin shown' BY DEF SessionsInv
    <3> QED BY <1>3, <1>9, <3>1, <3>2
  <2> QED BY <1>5, <1>12, <2>1 DEF CurrentInv
<1>19. ASSUME NEW t \in Sessions, Made(o, q, t)' PROVE state'[t] = "open" BY <1>3, <1>4, <1>6, <1>9, <1>19
<1>20. SuccessorInv' BY <1>5, <1>12, <1>19 DEF SuccessorInv
<1>21. ASSUME NEW r \in Payers, Seeks(r)'
       PROVE  ask'[r].prior = q /\ Asked(r)' = o
  <2>1. CASE r = p BY <1>2, <1>3, <1>5, <2>1 DEF Asked
  <2>2. CASE r # p
    <3>1. FlightOK(r) /\ ppc'[r] = ppc[r] BY <1>1, <2>2 DEF FlightInv
    <3>2. ppc[r] = "retrieve" => ask[r].prior \in Sessions \ {s} BY <3>1 DEF FlightOK, ThreadsInv
    <3>3. Seeks(r) BY <1>5, <1>6, <1>21, <3>1, <3>2 DEF Seeks, Blocked
    <3>4. SeekOK(r) /\ ask[r].prior = ask[p].prior BY <1>3, <3>1, <3>3 DEF FlightInv, FlightOK
    <3> QED BY <1>2, <1>5, <3>4 DEF SeekOK, Asked
  <2> QED BY <2>1, <2>2
<1>22. ASSUME NEW r \in Payers, Seeks(r)' PROVE SeekOK(r)'
  <2>1. ASSUME NEW t \in Sessions, Alive(t)', charge'[t] = o
        PROVE  state'[t] = "open" /\ Made(o, q, t)'
    <3>1. t = s BY <1>6, <1>8, <1>11, <2>1
    <3> QED BY <1>3, <1>6, <1>9, <3>1
  <2> QED BY <1>5, <1>12, <1>13, <1>19, <1>21, <1>22, <2>1 DEF SeekOK
<1>23. ASSUME NEW r \in Payers PROVE FlightOK(r)'
  <2>1. FlightOK(r) BY DEF FlightInv
  <2>2. PICK a, b, g : a = Asked(r) /\ b = ask[r].prior /\ g = got[r] OBVIOUS
  <2>3. Asked(r)' = a /\ ask'[r].prior = b BY <1>5, <2>2 DEF Asked
  <2>4. ppc'[r] # "idle" => a \in Installments' BY <1>1, <1>3, <1>5, <1>14, <2>1, <2>2 DEF FlightOK
  <2>5. ASSUME ppc'[r] = "retrieve"
        PROVE  (ask'[r].fits <=> charge'[b] = a) /\ state'[b] # "unborn"
    <3>1. ppc[r] = "retrieve" BY <1>1, <2>5
    <3>2. b \in Sessions \ {s} BY <2>1, <2>2, <3>1 DEF FlightOK, ThreadsInv
    <3> QED BY <1>5, <1>6, <2>1, <2>2, <3>1, <3>2 DEF FlightOK
  <2>6. PICK n : n = got'[r] OBVIOUS
  <2>7. ppc'[r] = "bind" => Made(a, b, n)'
    <3>1. a \in Kinds \X Nat /\ b \in Holders BY <2>2 DEF TypeOK, Asked, Holders
    <3>2. CASE r = p
      <4>1. a = o /\ b = q /\ n = s BY <1>1, <1>2, <1>3, <2>2, <2>6, <3>2
      <4> QED BY <1>9, <3>1, <4>1
    <3>3. CASE r # p
      <4>1. n = g /\ ppc'[r] = ppc[r] BY <1>1, <2>2, <2>6, <3>3
      <4>2. ppc[r] = "bind" => g \in Sessions /\ Made(a, b, g) BY <2>1, <2>2 DEF FlightOK, ThreadsInv
      <4> QED BY <1>9, <3>1, <4>1, <4>2
    <3> QED BY <3>2, <3>3
  <2> QED BY <1>22, <2>3, <2>4, <2>5, <2>6, <2>7 DEF FlightOK
<1>24. FlightInv' BY <1>21, <1>23 DEF FlightInv
<1>25. OneAlive'
  <2>1. ASSUME NEW t \in Sessions, Alive(t)', charge'[t][1] = o[1] PROVE t = s
    <3>1. SUFFICES ASSUME t # s PROVE FALSE OBVIOUS
    <3>2. Alive(t) /\ charge'[t] = charge[t] BY <1>6, <1>8, <2>1, <3>1
    <3>3. state[t] # "unborn" BY <3>2 DEF Alive, StripeInv, TypeOK
    <3>4. charge[t] \in Installments BY <3>3 DEF SessionsInv
    <3>5. charge[t] = o BY <1>14, <2>1, <3>2, <3>4, OneAmount
    <3> QED BY <1>11, <3>2, <3>5
  <2>2. ASSUME NEW t \in Sessions, NEW u \in Sessions, Alive(t)', Alive(u)',
               charge'[t][1] = charge'[u][1]
        PROVE  t = u
    <3>1. CASE t = s \/ u = s BY <1>6, <2>1, <2>2, <3>1
    <3>2. CASE t # s /\ u # s BY <1>6, <1>8, <2>2, <3>2 DEF OneAlive
    <3> QED BY <3>1, <3>2
  <2> QED BY <2>2 DEF OneAlive
<1>26. DraftInv' BY <1>3, <1>5 DEF DraftInv, Busy, admin
<1>27. FailuresInv' BY DEF FailuresInv, hooks
<1>28. NoExpire' BY <1>1 DEF NoExpire
<1> QED BY <1>15, <1>16, <1>17, <1>18, <1>20, <1>24, <1>25, <1>26, <1>27, <1>28

\* The create call: replayed by its key, or a session made now.
LEMMA PayCreateStep ==
  ASSUME PInv, TypeOK', NEW p \in Payers, PayCreate(p)
  PROVE  PromptInv'
<1>1. PICK s \in Sessions :
        /\ got' = [got EXCEPT ![p] = s]
        /\ \/ [key |-> KeyOf(p), session |-> s] \in keys /\ UNCHANGED <<state, charge, keys>>
           \/ /\ state[s] = "unborn" /\ FreshKey(p)
              /\ state' = [state EXCEPT ![s] = "open"]
              /\ charge' = [charge EXCEPT ![s] = <<ask[p].kind, ask[p].amount>>]
              /\ keys' = keys \cup {[key |-> KeyOf(p), session |-> s]} BY DEF PayCreate
<1>2. /\ ppc[p] = "create" /\ ppc' = [ppc EXCEPT ![p] = "bind"]
      /\ UNCHANGED <<row, ask, paid, closed, shown, events, hooks, vpc, admin>> BY DEF PayCreate, PayGoto
<1>3. CASE [key |-> KeyOf(p), session |-> s] \in keys /\ UNCHANGED <<state, charge, keys>>
  <2>1. UNCHANGED stripe BY <1>2, <1>3 DEF stripe
  <2> QED BY <1>1, <1>2, <1>3, <2>1, PayReplayStep
<1>4. CASE /\ state[s] = "unborn" /\ FreshKey(p)
           /\ state' = [state EXCEPT ![s] = "open"]
           /\ charge' = [charge EXCEPT ![s] = <<ask[p].kind, ask[p].amount>>]
           /\ keys' = keys \cup {[key |-> KeyOf(p), session |-> s]} BY <1>1, <1>2, <1>4, PayFreshStep
<1> QED BY <1>1, <1>3, <1>4

\* The session a request binds is the one live session of what is owed.
LEMMA PayBindStep ==
  ASSUME PInv, TypeOK', NEW p \in Payers, PayBind(p)
  PROVE  PromptInv'
<1> USE DEF PInv, PromptInv, IInv
<1>1. PICK q, o, g : q = ask[p].prior /\ o = Due /\ g = got[p] OBVIOUS
<1>2. /\ ppc[p] = "bind" /\ bound' = g /\ shown' = shown \cup {g}
      /\ boundKind' = ask[p].kind /\ boundAmount' = ask[p].amount
      /\ UNCHANGED <<status, total, deposit, ask, got, state, paid, charge, keys, closed,
                     events, hooks, vpc, admin>> BY <1>1 DEF PayBind
<1>3. ppc'[p] = "idle" /\ \A r \in Payers \ {p} : ppc'[r] = ppc[r] BY DEF PayBind, PayGoto, TypeOK
<1>4. g \in Sessions BY <1>1, <1>2 DEF ThreadsInv
<1>5. FlightOK(p) /\ Seeks(p) BY <1>2 DEF FlightInv, Seeks, Blocked
<1>6. SeekOK(p) /\ Asked(p) = o /\ Made(o, q, g)
  <2>1. SeekOK(p) BY <1>5 DEF FlightOK
  <2>2. Asked(p) = o BY <1>1, <2>1 DEF SeekOK
  <2>3. Made(Asked(p), ask[p].prior, got[p]) BY <1>2, <1>5 DEF FlightOK
  <2> QED BY <1>1, <2>1, <2>2, <2>3
<1>7. o \in Kinds \X Nat /\ q \in Holders BY <1>1, <1>6 DEF TypeOK, Asked, Holders
<1>8. /\ state[g] \in {"open", "complete"} /\ charge[g] = o
      /\ \A t \in Sessions : Made(o, q, t) => g = t BY <1>4, <1>6, <1>7 DEF KeysInv
<1>9. ~Dead(g)
  <2>1. Alive(g) => state[g] = "open" BY <1>1, <1>4, <1>6, <1>8 DEF SeekOK
  <2> QED BY <1>4, <1>8, <2>1 DEF Dead, Alive, StripeInv, TypeOK
<1>10. /\ Due' = o /\ Installments' = Installments
       /\ \A t : (Alive(t)' <=> Alive(t)) /\ (Dead(t)' <=> Dead(t))
       /\ \A a, b, t : Made(a, b, t)' <=> Made(a, b, t) BY <1>1, <1>2 DEF Due, Owed, Installments, Alive, Dead, Made
<1>11. SessionsInv' BY <1>2, <1>4, <1>8, <1>10 DEF SessionsInv
<1>12. KeysInv' BY <1>2, <1>10 DEF KeysInv
<1>13. BoundInv'
  <2>1. charge'[g] = <<boundKind', boundAmount'>> BY <1>2, <1>6, <1>8 DEF Asked
  <2> QED BY <1>2, <1>8, <1>10, <2>1 DEF BoundInv
<1>14. CurrentInv'
  <2>1. ASSUME NEW t \in Sessions, Alive(t), charge[t] = o PROVE t = g
    <3>1. Made(o, q, t) BY <1>1, <1>6, <2>1 DEF SeekOK
    <3> QED BY <1>8, <2>1, <3>1
  <2> QED BY <1>2, <1>10, <2>1 DEF CurrentInv
<1>15. SuccessorInv'
  <2>1. ASSUME NEW t \in Sessions, Made(o, g, t) PROVE FALSE
    <3>1. g \in Holders /\ g # None BY <1>4, NoneAssumption DEF Holders
    <3> QED BY <1>7, <1>9, <2>1, <3>1 DEF KeysInv
  <2> QED BY <1>2, <1>10, <2>1 DEF SuccessorInv
<1>16. ASSUME NEW r \in Payers, ppc'[r] # "idle"
       PROVE  r # p /\ ppc'[r] = ppc[r] /\ (Seeks(r)' <=> Seeks(r)) /\ FlightOK(r)
  <2>1. r # p /\ ppc'[r] = ppc[r] BY <1>3, <1>16
  <2> QED BY <1>2, <2>1 DEF Seeks, Blocked, FlightInv
<1>17. ASSUME NEW r \in Payers, Seeks(r)'
       PROVE  Asked(r)' = o /\ ask'[r].prior = q /\ SeekOK(r)'
  <2>1. ppc'[r] # "idle" BY <1>17 DEF Seeks
  <2>2. Seeks(r) /\ FlightOK(r) BY <1>16, <1>17, <2>1
  <2>3. SeekOK(r) /\ ask[r].prior = q BY <1>1, <1>5, <2>2 DEF FlightOK, FlightInv
  <2>4. Asked(r)' = o /\ ask'[r].prior = q BY <1>1, <1>2, <2>3 DEF SeekOK, Asked
  <2>5. /\ \A t \in Sessions : Alive(t) /\ charge[t] = o => state[t] = "open" /\ Made(o, q, t)
        /\ q # None => Dead(q) /\ \A t \in Sessions : Made(o, q, t) => state[t] = "open" BY <1>1, <1>6 DEF SeekOK
  <2> QED BY <1>2, <1>4, <1>6, <1>10, <2>4, <2>5 DEF SeekOK
<1>18. ASSUME NEW r \in Payers PROVE FlightOK(r)'
  <2>1. CASE ppc'[r] = "idle" BY <2>1 DEF FlightOK, Seeks
  <2>2. CASE ppc'[r] # "idle"
    <3>1. ppc'[r] = ppc[r] /\ FlightOK(r) BY <1>16, <2>2
    <3>2. PICK a, b, n : a = Asked(r) /\ b = ask[r].prior /\ n = got[r] OBVIOUS
    <3>3. Asked(r)' = a /\ ask'[r].prior = b /\ got'[r] = n BY <1>2, <3>2 DEF Asked
    <3>4. ppc'[r] = "bind" => Made(a, b, n)' BY <1>10, <3>1, <3>2 DEF FlightOK
    <3>5. ppc'[r] = "retrieve" => (ask'[r].fits <=> charge'[b] = a) /\ state'[b] # "unborn"
      BY <1>2, <3>1, <3>2 DEF FlightOK
    <3>6. a \in Installments' BY <1>10, <2>2, <3>1, <3>2 DEF FlightOK
    <3> QED BY <1>17, <3>3, <3>4, <3>5, <3>6 DEF FlightOK
  <2> QED BY <2>1, <2>2
<1>19. FlightInv' BY <1>17, <1>18 DEF FlightInv
<1>20. OneAlive' BY <1>2, <1>10 DEF OneAlive
<1>21. DraftInv'
  <2>1. status # "draft" BY <1>2 DEF DraftInv, Blank
  <2> QED BY <1>2, <2>1 DEF DraftInv, Busy, admin
<1>22. FailuresInv' BY <1>2 DEF FailuresInv, hooks
<1>23. NoExpire' BY <1>2, <1>3 DEF NoExpire
<1> QED BY <1>11, <1>12, <1>13, <1>14, <1>15, <1>19, <1>20, <1>21, <1>22, <1>23

(* Stripe's steps: no request is in flight.                                *)

\* One session s moves on; it may lose its keys, and it does not come back to life.
LEMMA SessionFrame ==
  ASSUME PInv, NEW s \in Sessions, NoRequestInFlight, closed' = {},
         UNCHANGED <<row, charge, shown, payer, hooks, vpc, admin>>,
         \A t \in Sessions \ {s} : state'[t] = state[t] /\ paid'[t] = paid[t],
         state[s] # "unborn", state'[s] # "unborn", state'[s] = "complete" => s \in shown,
         Alive(s)' => Alive(s), Dead(s) => Dead(s)', paid[s] = "paid" => paid'[s] = "paid",
         \A a, b, t : Made(a, b, t)' => Made(a, b, t),
         \A a, b : \A t \in Sessions \ {s} : Made(a, b, t) => Made(a, b, t)',
         \A a, b : Made(a, b, s)' => state'[s] \in {"open", "complete"},
         Alive(s)' /\ s \notin shown => \A a, b : Made(a, b, s) => Made(a, b, s)',
         Made(Due, bound, s) /\ bound # None => ~Made(Due, bound, s)' \/ state'[s] = "open",
         FailuresInv'
  PROVE  PromptInv'
<1> USE DEF PInv, PromptInv, IInv
<1>1. /\ UNCHANGED <<status, total, deposit, bound, boundKind, boundAmount>>
      /\ Due' = Due /\ Installments' = Installments /\ UNCHANGED <<ppc, ask, got>>
  BY DEF row, payer, Due, Owed, Installments
<1>2. PICK o, b : o = Due /\ b = bound OBVIOUS
<1>3. Due' = o /\ bound' = b BY <1>1, <1>2
<1>4. \A t \in Sessions : (Alive(t)' => Alive(t)) /\ (Dead(t) => Dead(t)') BY DEF Alive, Dead
<1>5. SessionsInv' BY <1>1 DEF SessionsInv
<1>6. KeysInv'
  <2>1. ASSUME NEW a \in Kinds \X Nat, NEW q \in Holders, NEW t \in Sessions, Made(a, q, t)'
        PROVE  /\ state'[t] \in {"open", "complete"} /\ charge'[t] = a
               /\ q # None => Dead(q)'
               /\ \A u \in Sessions : Made(a, q, u)' => t = u
    <3>1. Made(a, q, t) /\ \A u \in Sessions : Made(a, q, u)' => Made(a, q, u) BY <2>1
    <3>2. /\ state[t] \in {"open", "complete"} /\ charge[t] = a
          /\ q # None => Dead(q)
          /\ \A u \in Sessions : Made(a, q, u) => t = u BY <3>1 DEF KeysInv
    <3>3. q # None => Dead(q)' BY <1>4, <3>2 DEF Holders
    <3>4. state'[t] \in {"open", "complete"} BY <2>1, <3>2
    <3> QED BY <3>1, <3>2, <3>3, <3>4
  <2> QED BY <2>1 DEF KeysInv
<1>7. BoundInv'
  <2>1. bound # None => bound \in Sessions BY DEF TypeOK
  <2>2. bound # None /\ paid[bound] = "paid" => paid'[bound] = "paid" BY <2>1
  <2> QED BY <1>1, <2>2 DEF BoundInv
<1>8. CurrentInv'
  <2>1. ASSUME NEW t \in Sessions, Alive(t)', charge[t] = o
        PROVE  IF t \in shown THEN b = t ELSE Made(o, b, t)'
    <3>1. IF t \in shown THEN b = t ELSE Made(o, b, t) BY <1>2, <1>4, <2>1 DEF CurrentInv
    <3>2. CASE t = s BY <2>1, <3>1, <3>2
    <3>3. CASE t # s BY <3>1, <3>3
    <3> QED BY <3>2, <3>3
  <2> QED BY <1>3, <2>1 DEF CurrentInv
<1>9. SuccessorInv'
  <2>1. ASSUME b # None, NEW t \in Sessions, Made(o, b, t)' PROVE state'[t] = "open"
    <3>1. Made(o, b, t) /\ state[t] = "open" BY <1>2, <2>1 DEF SuccessorInv
    <3>2. CASE t = s
      <4>1. Made(o, b, s) /\ ~ ~Made(o, b, s)' BY <2>1, <3>1, <3>2
      <4>2. Made(Due, bound, s)' <=> Made(o, b, s)' BY <1>3
      <4> QED BY <1>2, <2>1, <3>2, <4>1, <4>2
    <3>3. CASE t # s BY <3>1, <3>3
    <3> QED BY <3>2, <3>3
  <2> QED BY <1>3, <2>1 DEF SuccessorInv
<1>10. FlightInv'
  <2>1. ASSUME NEW r \in Payers PROVE ppc'[r] = "idle" BY <1>1 DEF NoRequestInFlight
  <2> QED BY <2>1 DEF FlightInv, FlightOK, Seeks
<1>11. OneAlive' BY <1>4 DEF OneAlive
<1>12. DraftInv'
  <2>1. status # "draft" BY DEF DraftInv, Blank
  <2> QED BY <1>1, <2>1 DEF DraftInv, Busy, admin
<1>13. NoExpire' BY <1>1 DEF NoExpire
<1> QED BY <1>5, <1>6, <1>7, <1>8, <1>9, <1>10, <1>11, <1>12, <1>13

\* A client pays the one session of what is owed that was on a screen: the bound one.
LEMMA ClientPaysStep ==
  ASSUME PInv, TypeOK', NEW s \in Sessions, CardPays(s) \/ BankPays(s), NoRequestInFlight
  PROVE  PromptInv'
<1> USE DEF PInv, PromptInv, IInv
<1>1. /\ s \in shown /\ state[s] = "open" /\ state' = [state EXCEPT ![s] = "complete"]
      /\ UNCHANGED <<row, charge, keys, closed, shown, payer, hooks, vpc, admin>> BY DEF CardPays, BankPays
<1>2. PICK m \in {"paid", "processing"} :
        /\ paid' = [paid EXCEPT ![s] = m]
        /\ events' = events \cup {[session |-> s, type |-> IF m = "paid" THEN "paid" ELSE "pending"]}
  BY DEF CardPays, BankPays, Sign
<1>3. /\ state'[s] = "complete" /\ paid'[s] = m /\ paid[s] = "unpaid"
      /\ \A t \in Sessions \ {s} : state'[t] = state[t] /\ paid'[t] = paid[t] BY <1>1, <1>2 DEF TypeOK, StripeInv
<1>4. \A a, b, t : Made(a, b, t)' <=> Made(a, b, t) BY <1>1 DEF Made
<1>5. Alive(s) /\ ~Dead(s) BY <1>1, <1>3 DEF Alive, Dead
<1>6. ~(Made(Due, bound, s) /\ bound # None)
  <2>1. SUFFICES ASSUME Made(Due, bound, s), bound # None PROVE FALSE OBVIOUS
  <2>2. Due \in (Kinds \cup {None}) \X Nat BY DueTyped
  <2>3. Due[1] \in Kinds BY <2>1 DEF Made, TypeOK
  <2>4. Due \in Kinds \X Nat BY <2>2, <2>3
  <2>5. bound \in Holders BY DEF TypeOK, Holders
  <2>6. charge[s] = Due /\ Dead(bound) BY <2>1, <2>4, <2>5 DEF KeysInv
  <2>7. bound = s BY <1>1, <1>5, <2>6 DEF CurrentInv
  <2> QED BY <1>5, <2>6, <2>7
<1>7. FailuresInv'
  <2>1. ASSUME NEW e \in events', e.type = "failed" PROVE paid'[e.session] = "failed"
    <3>1. e \in events BY <1>2, <2>1
    <3>2. e.session \in Sessions /\ paid[e.session] = "failed" BY <2>1, <3>1 DEF FailuresInv, TypeOK, Events
    <3> QED BY <1>3, <3>2
  <2> QED BY <1>1, <2>1 DEF FailuresInv, hooks
<1>8. closed' = {} BY <1>1 DEF NoExpire
<1> QED BY <1>1, <1>3, <1>4, <1>5, <1>6, <1>7, <1>8, SessionFrame

\* A bank debit arrives or fails.
LEMMA BankStep ==
  ASSUME PInv, TypeOK', NEW s \in Sessions, BankSettles(s) \/ BankFails(s)
  PROVE  PromptInv'
<1> USE DEF PInv, PromptInv, IInv
<1>1. /\ paid[s] = "processing" /\ NoRequestInFlight
      /\ UNCHANGED <<row, state, charge, keys, closed, shown, payer, hooks, vpc, admin>> BY DEF BankSettles, BankFails
<1>2. PICK m \in {"paid", "failed"} :
        paid' = [paid EXCEPT ![s] = m] /\ events' = events \cup {[session |-> s, type |-> m]}
  BY DEF BankSettles, BankFails, Sign
<1>3. /\ state[s] = "complete" /\ paid'[s] = m
      /\ \A t \in Sessions \ {s} : paid'[t] = paid[t] BY <1>1, <1>2 DEF TypeOK, StripeInv
<1>4. \A a, b, t : Made(a, b, t)' <=> Made(a, b, t) BY <1>1 DEF Made
<1>5. Alive(s) /\ ~Dead(s) BY <1>1, <1>3 DEF Alive, Dead
<1>6. ~(Made(Due, bound, s) /\ bound # None) BY <1>3 DEF SuccessorInv
<1>7. FailuresInv'
  <2>1. ASSUME NEW e \in events', e.type = "failed" PROVE paid'[e.session] = "failed"
    <3>1. CASE e \in events
      <4>1. e.session \in Sessions /\ paid[e.session] = "failed" BY <2>1, <3>1 DEF FailuresInv, TypeOK, Events
      <4> QED BY <1>1, <1>3, <4>1
    <3>2. CASE e = [session |-> s, type |-> m] BY <1>3, <2>1, <3>2
    <3> QED BY <1>2, <3>1, <3>2
  <2> QED BY <1>1, <2>1 DEF FailuresInv, hooks
<1>8. closed' = {} BY <1>1 DEF NoExpire
<1>9. s \in shown BY <1>3 DEF SessionsInv
<1>10. \A a, b : Made(a, b, s)' => state'[s] \in {"open", "complete"} BY <1>1, <1>3
<1> QED BY <1>1, <1>3, <1>4, <1>5, <1>6, <1>7, <1>8, <1>9, <1>10, SessionFrame

\* A day later an unpaid session is gone, and the key of any.
LEMMA DayStep ==
  ASSUME PInv, TypeOK', NEW s \in Sessions, DayPasses(s)
  PROVE  PromptInv'
<1> USE DEF PInv, PromptInv, IInv
<1>1. /\ state[s] # "unborn" /\ NoRequestInFlight
      /\ state' = [state EXCEPT ![s] = IF @ = "open" THEN "expired" ELSE @]
      /\ keys' = {k \in keys : k.session # s} /\ closed' = closed \ {s}
      /\ UNCHANGED <<row, paid, charge, shown, events, payer, hooks, vpc, admin>> BY DEF DayPasses
<1>2. /\ state'[s] = (IF state[s] = "open" THEN "expired" ELSE state[s])
      /\ \A t \in Sessions \ {s} : state'[t] = state[t] BY <1>1 DEF TypeOK
<1>3. \A a, b : ~Made(a, b, s)' BY <1>1 DEF Made
<1>4. /\ \A a, b, t : Made(a, b, t)' => Made(a, b, t)
      /\ \A a, b : \A t \in Sessions \ {s} : Made(a, b, t) => Made(a, b, t)' BY <1>1 DEF Made
<1>5. (Alive(s)' => Alive(s)) /\ (Dead(s) => Dead(s)') BY <1>1, <1>2 DEF Alive, Dead
<1>6. state'[s] = "complete" => s \in shown BY <1>2 DEF SessionsInv
<1>7. Alive(s)' => s \in shown
  <2>1. Alive(s)' => state'[s] = "complete" BY <1>1, <1>2 DEF Alive, StripeInv
  <2> QED BY <1>6, <2>1
<1>8. FailuresInv' BY <1>1 DEF FailuresInv, hooks
<1>9. closed' = {} BY <1>1 DEF NoExpire
<1>10. state'[s] # "unborn" BY <1>1, <1>2
<1>11. Made(Due, bound, s)' <=> FALSE
  <2>1. PICK a, b : a = Due' /\ b = bound' OBVIOUS
  <2> QED BY <1>3, <2>1
<1> QED BY <1>1, <1>2, <1>3, <1>4, <1>5, <1>6, <1>7, <1>8, <1>9, <1>10, <1>11, SessionFrame

(* The webhook's steps.                                                    *)

\* A step beside the row, Stripe and the requests.
LEMMA AsideFrame ==
  ASSUME PInv, TypeOK', UNCHANGED <<row, stripe, payer, vpc, admin>>, FailuresInv',
         status = "draft" => \A h \in Hooks : hpc'[h] = "idle"
  PROVE  PromptInv'
<1> USE DEF PInv, PromptInv, IInv
<1>0. SameMoney BY DEF SameMoney
<1>1. MoneyInv BY DEF MoneyInv, NoExpire
<1>2. MoneyInv' BY <1>0, <1>1, MoneyOn
<1>3. UNCHANGED <<ppc, ask, got>> BY DEF payer
<1>4. FlightInv'
  <2>1. CASE Payers = {} BY <2>1 DEF FlightInv
  <2>2. CASE Payers # {}
    <3>1. PICK p \in Payers : TRUE BY <2>2
    <3>2. PICK a, q, g : a = Asked(p) /\ q = ask[p].prior /\ g = got[p] OBVIOUS
    <3>3. Asked(p)' = a /\ ask'[p].prior = q /\ got'[p] = g BY <1>3, <3>2 DEF Asked
    <3>4. Seeks(p)' <=> Seeks(p) BY <1>0, <1>3, MoneyFrame DEF Seeks, Blocked
    <3>5. FlightOK(p) BY DEF FlightInv
    <3>6. PICK o, b : o = Due /\ b = bound OBVIOUS
    <3>7. Due' = o /\ bound' = b BY <1>0, <3>6, MoneyFrame
    <3>8. q # None => (Dead(q)' <=> Dead(q)) BY <1>0, <3>2, MoneyFrame DEF TypeOK
    <3>9. Seeks(p) => SeekOK(p)' BY <1>0, <3>2, <3>3, <3>5, <3>6, <3>7, <3>8, MoneyFrame DEF FlightOK, SeekOK
    <3>10. FlightOK(p)' BY <1>0, <1>3, <3>2, <3>3, <3>4, <3>5, <3>9, MoneyFrame DEF FlightOK
    <3>11. \A r \in Payers \ {p} : Seeks(p)' /\ Seeks(r) => ask'[p].prior = ask[r].prior BY <1>3, <3>4 DEF FlightInv
    <3> QED BY <1>0, <1>3, <3>10, <3>11, FlightFrame
  <2> QED BY <2>1, <2>2
<1>5. NoExpire' BY <1>2, <1>3 DEF NoExpire, MoneyInv
<1>6. DraftInv'
  <2>1. UNCHANGED <<status, bound, keys, shown, closed, state, vpc, apc, edit>> BY DEF row, stripe, admin
  <2>2. status = "draft" => Blank' BY <1>3, <2>1 DEF DraftInv, Blank
  <2> QED BY <2>1, <2>2 DEF DraftInv, Busy
<1> QED BY <1>2, <1>4, <1>5, <1>6 DEF MoneyInv

\* An event answered at once, or one the handler gives up.
LEMMA AnswerStep ==
  ASSUME PInv, TypeOK',
         \/ MoveProject
         \/ \E h \in Hooks : HookDrop(h)
         \/ \E h \in Hooks, e \in events :
              HookPending(h, e) \/ HookDuplicate(h, e) \/ HookUnapplied(h, e)
         \/ UNCHANGED vars
  PROVE  PromptInv'
<1> USE DEF PInv, PromptInv, IInv
<1>1. UNCHANGED <<row, stripe, payer, vpc, admin, hook>>
  BY DEF MoveProject, HookDrop, HookPending, HookDuplicate, HookUnapplied, vars, hooks
<1>2. \A h \in Hooks : hpc'[h] \in {hpc[h], "idle"}
  <2>1. hpc' = hpc \/ \E h \in Hooks : hpc' = [hpc EXCEPT ![h] = "idle"]
    BY DEF MoveProject, HookDrop, HookPending, HookDuplicate, HookUnapplied, vars, hooks,
           HookGoto
  <2> QED BY <2>1 DEF TypeOK
<1>3. FailuresInv' BY <1>1, <1>2 DEF FailuresInv, stripe
<1>4. status = "draft" => \A h \in Hooks : hpc'[h] = "idle" BY <1>2 DEF DraftInv, Blank
<1> QED BY <1>1, <1>3, <1>4, AsideFrame

\* An event is accepted of the bound session only, so not of a draft.
LEMMA AcceptStep ==
  ASSUME PInv, TypeOK', NEW h \in Hooks, NEW e \in events, HookAccept(h, e)
  PROVE  PromptInv'
<1> USE DEF PInv, PromptInv, IInv
<1>1. /\ UNCHANGED <<row, stripe, payer, vpc, admin>>
      /\ hook' = [hook EXCEPT ![h] = e] /\ bound = e.session
      /\ \/ hpc' = [hpc EXCEPT ![h] = "apply"]
         \/ e.type = "failed" /\ hpc' = [hpc EXCEPT ![h] = "release"]
  BY DEF HookAccept, HookGoto, Brings, Unauthorised
<1>2. FailuresInv'
  <2>1. UNCHANGED <<events, paid>> BY <1>1 DEF stripe
  <2>2. hook'[h] = e /\ \A g \in Hooks \ {h} : hook'[g] = hook[g] /\ hpc'[g] = hpc[g] BY <1>1 DEF TypeOK
  <2>3. hpc'[h] = "release" => e.type = "failed" BY <1>1 DEF TypeOK
  <2> QED BY <2>1, <2>2, <2>3 DEF FailuresInv
<1>3. status # "draft"
  <2>1. e.session \in Sessions BY DEF TypeOK, Events
  <2> QED BY <1>1, <2>1, NoneAssumption DEF DraftInv, Blank
<1> QED BY <1>1, <1>2, <1>3, AsideFrame

\* The payment that is written settles what is owed: its session is the bound one,
\* nobody may create another, and none of the next installment exists.
LEMMA SettleStep ==
  ASSUME PInv, TypeOK', NEW h \in Hooks, hpc[h] = "apply",
         status \in SettlesFrom(charge[hook[h].session][1]),
         status' = Settles(charge[hook[h].session][1]), hpc' = [hpc EXCEPT ![h] = "idle"],
         UNCHANGED <<total, deposit, bound, boundKind, boundAmount, hook, stripe, payer,
                     vpc, admin>>
  PROVE  PromptInv'
<1> USE DEF PInv, PromptInv, IInv
<1>1. PICK s, c : s = hook[h].session /\ c = charge[s] OBVIOUS
<1>2. s \in Sessions /\ paid[s] = "paid" /\ state[s] = "complete" /\ s \in shown
  BY <1>1 DEF ThreadsInv, StripeInv, TypeOK, Events, SessionsInv
<1>3. c \in Installments BY <1>1, <1>2 DEF SessionsInv
<1>4. status \in SettlesFrom(c[1]) /\ status' = Settles(c[1]) BY <1>1
<1>5. c = Due BY <1>3, <1>4 DEF SettlesFrom, Installments, Due, Owed
<1>6. Alive(s) BY <1>2 DEF Alive
<1>7. bound = s BY <1>1, <1>2, <1>5, <1>6 DEF CurrentInv
<1>8. \A r \in Payers : ~Seeks(r) BY <1>1, <1>2, <1>5, <1>6 DEF FlightInv, FlightOK, SeekOK
<1>9. /\ Installments \subseteq Installments' /\ status \in {"sent", "viewed", "deposit_paid"}
      /\ status' \in {"deposit_paid", "paid"} BY <1>4 DEF SettlesFrom, Settles, Installments
<1>10. PICK d : d = Due' OBVIOUS
<1>11. ASSUME NEW t \in Sessions, state[t] # "unborn" PROVE charge[t] # d
  <2>1. charge[t] \in Installments /\ charge[t] \in Kinds \X Nat BY <1>11 DEF SessionsInv, TypeOK
  <2>2. CASE status' = "paid"
    <3>1. d = <<None, 0>> BY <1>10, <2>2 DEF Due, Owed
    <3> QED BY <2>1, <3>1, NoneAssumption
  <2>3. CASE status' = "deposit_paid"
    <3>1. c[1] = "deposit" BY <1>4, <2>3 DEF Settles
    <3>2. status \in {"sent", "viewed"} BY <1>4, <3>1 DEF SettlesFrom
    <3>3. charge[t][1] = "deposit" BY <1>3, <2>1, <3>1, <3>2 DEF Installments
    <3>4. d = <<"balance", total - deposit>> BY <1>10, <2>3 DEF Due, Owed
    <3> QED BY <3>3, <3>4
  <2> QED BY <1>9, <2>2, <2>3
<1>12. UNCHANGED <<state, paid, charge, keys, closed, shown, events, ppc, ask, got>> BY DEF stripe, payer
<1>13. /\ \A t : (Alive(t)' <=> Alive(t)) /\ (Dead(t)' <=> Dead(t))
       /\ \A a, b, t : Made(a, b, t)' <=> Made(a, b, t) BY <1>12 DEF Alive, Dead, Made
<1>14. ASSUME NEW q \in Holders, NEW t \in Sessions PROVE ~Made(d, q, t)
  <2>1. SUFFICES ASSUME Made(d, q, t) PROVE FALSE OBVIOUS
  <2>2. d[1] \in Kinds BY <2>1 DEF Made, TypeOK
  <2>3. d \in (Kinds \cup {None}) \X Nat
    <3>1. Due \in (Kinds \cup {None}) \X Nat BY DueTyped
    <3>2. total' \in Nat /\ deposit' \in Nat /\ deposit' <= total' BY DEF TypeOK
    <3> QED BY <1>9, <1>10, <3>2 DEF Due, Owed, Kinds
  <2>4. d \in Kinds \X Nat BY <2>2, <2>3
  <2>5. charge[t] = d /\ state[t] # "unborn" BY <2>1, <2>4 DEF KeysInv
  <2> QED BY <1>11, <2>5
<1>15. SessionsInv' BY <1>9, <1>12 DEF SessionsInv
<1>16. KeysInv' BY <1>12, <1>13 DEF KeysInv
<1>17. BoundInv' BY <1>2, <1>7, <1>12 DEF BoundInv
<1>18. CurrentInv'
  <2>1. \A t \in Sessions : Alive(t) => state[t] # "unborn" BY DEF Alive, StripeInv
  <2> QED BY <1>10, <1>11, <1>12, <1>13, <2>1 DEF CurrentInv
<1>19. SuccessorInv'
  <2>1. bound \in Holders BY DEF TypeOK, Holders
  <2>2. PICK b : b = bound OBVIOUS
  <2> QED BY <1>10, <1>13, <1>14, <2>1, <2>2 DEF SuccessorInv
<1>20. ASSUME NEW r \in Payers PROVE FlightOK(r)' /\ ~Seeks(r)'
  <2>1. ~Seeks(r) /\ FlightOK(r) BY <1>8 DEF FlightInv
  <2>2. ~Seeks(r)' BY <1>12, <2>1 DEF Seeks, Blocked
  <2>3. ppc'[r] # "bind" BY <2>2 DEF Seeks, Blocked
  <2>4. Asked(r)' = Asked(r) BY <1>12 DEF Asked
  <2> QED BY <1>9, <1>12, <2>1, <2>2, <2>3, <2>4 DEF FlightOK
<1>21. FlightInv' BY <1>20 DEF FlightInv
<1>22. OneAlive' BY <1>12, <1>13 DEF OneAlive
<1>23. DraftInv' BY <1>9 DEF DraftInv, Busy, admin
<1>24. FailuresInv' BY <1>12 DEF FailuresInv, TypeOK
<1>25. NoExpire' BY <1>12 DEF NoExpire
<1> QED BY <1>15, <1>16, <1>17, <1>18, <1>19, <1>21, <1>22, <1>23, <1>24, <1>25

\* The transaction settles what is owed, or changes nothing.
LEMMA ApplyStep ==
  ASSUME PInv, TypeOK', NEW h \in Hooks, HookApply(h)
  PROVE  PromptInv'
<1> USE DEF PInv, PromptInv, IInv
<1>1. PICK k : k = charge[hook[h].session][1] OBVIOUS
<1>2. /\ hpc[h] = "apply" /\ hpc' = [hpc EXCEPT ![h] = "idle"]
      /\ UNCHANGED <<total, deposit, bound, boundKind, boundAmount, hook, stripe, payer,
                     vpc, admin>>
      /\ (status \in SettlesFrom(k) /\ status' = Settles(k)) \/ status' = status BY <1>1 DEF HookApply, HookGoto
<1>3. CASE status \in SettlesFrom(k) /\ status' = Settles(k) BY <1>1, <1>2, <1>3, SettleStep
<1>4. CASE status' = status
  <2>1. UNCHANGED row BY <1>2, <1>4 DEF row
  <2>2. \A g \in Hooks : hpc'[g] \in {hpc[g], "idle"} BY <1>2 DEF TypeOK
  <2>3. FailuresInv' BY <1>2, <2>2 DEF FailuresInv, stripe
  <2>4. status = "draft" => \A g \in Hooks : hpc'[g] = "idle" BY <2>2 DEF DraftInv, Blank
  <2> QED BY <1>2, <2>1, <2>3, <2>4, AsideFrame
<1> QED BY <1>2, <1>3, <1>4

\* A failed debit's session is released: nothing was made after it, and whoever may
\* create now read no prior session either.
LEMMA UnbindStep ==
  ASSUME PInv, TypeOK', NEW h \in Hooks, hpc[h] = "release", bound = hook[h].session,
         bound' = None, hpc' = [hpc EXCEPT ![h] = "idle"],
         UNCHANGED <<status, total, deposit, hook, stripe, payer, vpc, admin>>
  PROVE  PromptInv'
<1> USE DEF PInv, PromptInv, IInv
<1>1. hook[h] \in events /\ hook[h].type = "failed" BY DEF ThreadsInv, FailuresInv
<1>2. bound \in Sessions /\ bound # None /\ paid[bound] = "failed" /\ state[bound] = "complete"
  BY <1>1, NoneAssumption DEF FailuresInv, StripeInv, TypeOK, Events
<1>3. PICK f, o : f = bound /\ o = Due OBVIOUS
<1>4. charge[f] = o /\ o \in Kinds \X Nat /\ ~Alive(f) /\ ~Dead(f) BY <1>2, <1>3 DEF BoundInv, Alive, Dead, TypeOK
<1>5. ASSUME NEW t \in Sessions PROVE ~Made(o, f, t) BY <1>2, <1>3, <1>4, <1>5 DEF KeysInv, Holders
<1>6. UNCHANGED <<state, paid, charge, keys, closed, shown, events, ppc, ask, got>> BY DEF stripe, payer
<1>7. /\ Due' = o /\ Installments' = Installments
      /\ \A t : (Alive(t)' <=> Alive(t)) /\ (Dead(t)' <=> Dead(t))
      /\ \A a, b, t : Made(a, b, t)' <=> Made(a, b, t) BY <1>3, <1>6 DEF Due, Owed, Installments, Alive, Dead, Made
<1>8. SessionsInv' BY <1>6, <1>7 DEF SessionsInv
<1>9. KeysInv' BY <1>6, <1>7 DEF KeysInv
<1>10. BoundInv' BY DEF BoundInv
<1>11. CurrentInv'
  <2>1. ASSUME NEW t \in Sessions, Alive(t), charge[t] = o PROVE FALSE BY <1>3, <1>4, <1>5, <2>1 DEF CurrentInv
  <2> QED BY <1>6, <1>7, <2>1 DEF CurrentInv
<1>12. SuccessorInv' BY DEF SuccessorInv
<1>13. ASSUME NEW r \in Payers, SeekOK(r) PROVE ask[r].prior = None
  <2>1. PICK q : q = ask[r].prior OBVIOUS
  <2>2. q # None => Dead(q) /\ \A t \in Sessions : Made(o, q, t) => state[t] = "open" BY <1>3, <1>13, <2>1 DEF SeekOK
  <2>3. f = q \/ Made(o, q, f) BY <1>3, <1>13, <2>1 DEF SeekOK
  <2> QED BY <1>2, <1>3, <1>4, <2>1, <2>2, <2>3
<1>14. ASSUME NEW r \in Payers PROVE FlightOK(r)' /\ (Seeks(r)' <=> Seeks(r))
  <2>1. FlightOK(r) BY DEF FlightInv
  <2>2. Seeks(r)' <=> Seeks(r) BY <1>6 DEF Seeks, Blocked
  <2>3. PICK a, q, g : a = Asked(r) /\ q = ask[r].prior /\ g = got[r] OBVIOUS
  <2>4. Asked(r)' = a /\ ask'[r].prior = q /\ got'[r] = g BY <1>6, <2>3 DEF Asked
  <2>5. Seeks(r)' => SeekOK(r)'
    <3>1. SUFFICES ASSUME Seeks(r)' PROVE SeekOK(r)' OBVIOUS
    <3>2. SeekOK(r) BY <2>1, <2>2, <3>1 DEF FlightOK
    <3>3. q = None BY <1>13, <2>3, <3>2
    <3>4. a = o /\ \A t \in Sessions : Alive(t) /\ charge[t] = o => state[t] = "open" /\ Made(o, q, t)
      BY <1>3, <2>3, <3>2 DEF SeekOK
    <3> QED BY <1>6, <1>7, <2>4, <3>3, <3>4 DEF SeekOK
  <2> QED BY <1>6, <1>7, <2>1, <2>2, <2>3, <2>4, <2>5 DEF FlightOK
<1>15. FlightInv' BY <1>6, <1>14 DEF FlightInv
<1>16. OneAlive' BY <1>6, <1>7 DEF OneAlive
<1>17. DraftInv'
  <2>1. status # "draft" BY <1>2 DEF DraftInv, Blank
  <2> QED BY <2>1 DEF DraftInv, Busy, admin
<1>18. FailuresInv' BY <1>6 DEF FailuresInv, TypeOK
<1>19. NoExpire' BY <1>6 DEF NoExpire
<1> QED BY <1>8, <1>9, <1>10, <1>11, <1>12, <1>15, <1>16, <1>17, <1>18, <1>19

\* A failed debit releases the binding, or finds it moved on.
LEMMA ReleaseStep ==
  ASSUME PInv, TypeOK', NEW h \in Hooks, HookRelease(h)
  PROVE  PromptInv'
<1> USE DEF PInv, PromptInv, IInv
<1>1. /\ hpc[h] = "release" /\ hpc' = [hpc EXCEPT ![h] = "idle"]
      /\ UNCHANGED <<status, total, deposit, hook, stripe, payer, vpc, admin>> BY DEF HookRelease, HookGoto
<1>2. CASE bound = hook[h].session
  <2>1. bound' = None BY <1>2 DEF HookRelease
  <2> QED BY <1>1, <1>2, <2>1, UnbindStep
<1>3. CASE bound # hook[h].session
  <2>1. UNCHANGED row BY <1>1, <1>3 DEF HookRelease, row
  <2>2. \A g \in Hooks : hpc'[g] \in {hpc[g], "idle"} BY <1>1 DEF TypeOK
  <2>3. FailuresInv' BY <1>1, <2>2 DEF FailuresInv, stripe
  <2>4. status = "draft" => \A g \in Hooks : hpc'[g] = "idle" BY <2>2 DEF DraftInv, Blank
  <2> QED BY <1>1, <2>1, <2>3, <2>4, AsideFrame
<1> QED BY <1>2, <1>3

(* The studio's steps: while the invoice is a draft, nothing else is there. *)

\* A draft is edited and sent by one admin at a time.
LEMMA AdminStep ==
  ASSUME PInv, TypeOK', StripeInv', PromptScope, NEW a \in Admins,
         EditBegin(a) \/ EditSave(a) \/ SendBegin(a) \/ SendSave(a)
  PROVE  PromptInv'
<1> USE DEF PInv, PromptInv, IInv
<1>1. status = "draft" BY DEF EditBegin, EditSave, SendBegin, SendSave, DraftInv
<1>2. UNCHANGED <<bound, boundKind, boundAmount, stripe, payer, hooks, vpc>>
  <2>1. CASE EditBegin(a) \/ SendBegin(a) BY <2>1 DEF EditBegin, SendBegin, row
  <2>2. CASE EditSave(a) \/ SendSave(a) BY <2>2 DEF EditSave, SendSave
  <2> QED BY <2>1, <2>2
<1>3. Blank'
  <2>1. Blank BY <1>1 DEF DraftInv
  <2> QED BY <1>2, <2>1 DEF Blank, stripe, payer, hooks
<1>4. \A s \in Sessions : ~Alive(s)' /\ ~Dead(s)' BY <1>3 DEF Alive, Dead, Blank, StripeInv
<1>5. \A o, q, s : ~Made(o, q, s)' BY <1>3 DEF Made, Blank
<1>6. SessionsInv' BY <1>3 DEF SessionsInv, Blank
<1>7. KeysInv' BY <1>5 DEF KeysInv
<1>8. BoundInv' /\ SuccessorInv' BY <1>3 DEF BoundInv, SuccessorInv, Blank
<1>9. CurrentInv' /\ OneAlive' BY <1>4 DEF CurrentInv, OneAlive
<1>10. FlightInv' /\ NoExpire' BY <1>3 DEF FlightInv, FlightOK, Seeks, NoExpire, Blank
<1>11. FailuresInv' BY <1>2 DEF FailuresInv, stripe, hooks
<1>12. DraftInv'
  <2>1. \A v \in Viewers : vpc'[v] = "idle" BY <1>2 DEF DraftInv
  <2>2. (\A b, c \in Admins : Busy(b) /\ Busy(c) => b = c)' BY DEF PromptScope
  <2>3. status' = "draft" \/ \A b \in Admins : apc'[b] = "idle"
    <3>1. CASE EditBegin(a) \/ EditSave(a) \/ SendBegin(a) BY <1>1, <3>1 DEF EditBegin, EditSave, SendBegin, row
    <3>2. CASE SendSave(a)
      <4>1. apc[a] = "send" /\ apc' = [apc EXCEPT ![a] = "idle"] BY <3>2 DEF SendSave
      <4>2. \A b \in Admins : apc[b] # "idle" => b = a BY <4>1 DEF DraftInv, Busy
      <4> QED BY <4>1, <4>2 DEF TypeOK
    <3> QED BY <3>1, <3>2
  <2> QED BY <1>3, <2>1, <2>2, <2>3 DEF DraftInv
<1> QED BY <1>6, <1>7, <1>8, <1>9, <1>10, <1>11, <1>12

(* The theorem, for every number of sessions, requests and deliveries.     *)

\* Every step of a prompt behaviour keeps the invariant.
LEMMA PromptStep ==
  ASSUME PInv, TypeOK', StripeInv', Next, PromptScope
  PROVE  PromptInv'
<1>1. CASE \E a \in Admins : EditBegin(a) \/ EditSave(a) \/ SendBegin(a) \/ SendSave(a) BY <1>1, AdminStep
<1>2. CASE MoveProject BY <1>2, AnswerStep
<1>3. CASE \E v \in Viewers : ViewBegin(v) \/ ViewSave(v)
  <2>1. PICK v \in Viewers : ViewBegin(v) \/ ViewSave(v) BY <1>3
  <2>2. vpc[v] = "idle" BY DEF PInv, PromptInv, DraftInv
  <2>3. ViewBegin(v) BY <2>1, <2>2 DEF ViewSave
  <2>4. vpc' = [vpc EXCEPT ![v] = "seen"] /\ vpc' = vpc BY <2>3 DEF ViewBegin, PromptScope
  <2>5. vpc'[v] = "seen" BY <2>4 DEF PInv, IInv, TypeOK
  <2> QED BY <2>2, <2>4, <2>5
<1>4. CASE \E p \in Payers : Pay(p)
  <2>1. PICK p \in Payers : Pay(p) BY <1>4
  <2>2. CASE PayBegin(p) BY <2>2, PayBeginStep
  <2>3. CASE PayReuse(p) \/ PayRefused(p) \/ PayDrop(p) BY <2>3, PayEndStep
  <2>4. CASE PaySupersede(p) BY <2>4, PaySupersedeStep
  <2>5. CASE PayExpire(p) BY <2>5, NoExpireStep
  <2>6. CASE PayCreate(p) BY <2>6, PayCreateStep
  <2>7. CASE PayBind(p) BY <2>7, PayBindStep
  <2> QED BY <2>1, <2>2, <2>3, <2>4, <2>5, <2>6, <2>7 DEF Pay
<1>5. CASE \E s \in Sessions : CardPays(s) \/ BankPays(s) \/ BankSettles(s) \/ BankFails(s)
                                \/ DayPasses(s)
  <2>1. PICK s \in Sessions : CardPays(s) \/ BankPays(s) \/ BankSettles(s) \/ BankFails(s)
                              \/ DayPasses(s) BY <1>5
  <2>2. CASE CardPays(s) \/ BankPays(s)
    <3>1. state[s] = "open" /\ state'[s] = "complete" BY <2>2 DEF CardPays, BankPays, PInv, IInv, TypeOK
    <3>2. NoRequestInFlight BY <3>1 DEF PromptScope
    <3> QED BY <2>2, <3>2, ClientPaysStep
  <2>3. CASE BankSettles(s) \/ BankFails(s) BY <2>3, BankStep
  <2>4. CASE DayPasses(s) BY <2>4, DayStep
  <2> QED BY <2>1, <2>2, <2>3, <2>4
<1>6. CASE \E h \in Hooks : Hook(h)
  <2>1. PICK h \in Hooks : Hook(h) BY <1>6
  <2>2. CASE \E e \in events : HookPending(h, e) \/ HookDuplicate(h, e) \/ HookUnapplied(h, e) BY <2>2, AnswerStep
  <2>3. CASE \E e \in events : HookAccept(h, e) BY <2>3, AcceptStep
  <2>4. CASE HookApply(h) BY <2>4, ApplyStep
  <2>5. CASE HookRelease(h) BY <2>5, ReleaseStep
  <2>6. CASE HookDrop(h) BY <2>6, AnswerStep
  <2> QED BY <2>1, <2>2, <2>3, <2>4, <2>5, <2>6 DEF Hook
<1> QED BY <1>1, <1>2, <1>3, <1>4, <1>5, <1>6 DEF Next

\* It holds of a new invoice.
LEMMA PromptInit ==
  ASSUME RacesInit
  PROVE  PromptInv
<1> USE DEF RacesInit, Init
<1>1. \A s \in Sessions : ~Alive(s) /\ ~Dead(s) BY DEF Alive, Dead
<1>2. \A o, q, s : ~Made(o, q, s) BY DEF Made
<1>3. DraftInv BY DEF DraftInv, Blank, Busy
<1>4. SessionsInv /\ FailuresInv /\ BoundInv /\ NoExpire /\ SuccessorInv
  BY DEF SessionsInv, FailuresInv, BoundInv, NoExpire, SuccessorInv
<1>5. KeysInv BY <1>2 DEF KeysInv
<1>6. CurrentInv /\ OneAlive BY <1>1 DEF CurrentInv, OneAlive
<1>7. FlightInv BY DEF FlightInv, FlightOK, Seeks
<1> QED BY <1>3, <1>4, <1>5, <1>6, <1>7 DEF PromptInv

RInv == IInv /\ (pace = "prompt" => PromptInv)

\* The steps of the races, which are prompt where the pace says so.
LEMMA RInvStep == RInv /\ [RacesNext]_<<vars, pace>> => RInv'
<1> SUFFICES ASSUME RInv, [RacesNext]_<<vars, pace>> PROVE RInv'
  OBVIOUS
<1>1. [Next]_vars /\ pace' = pace BY DEF RacesNext
<1>2. IInv' BY <1>1, IInvStep DEF RInv
<1>3. ASSUME pace = "prompt" PROVE PromptInv'
  <2>1. PInv /\ TypeOK' /\ StripeInv' BY <1>2, <1>3 DEF RInv, PInv, IInv
  <2>2. CASE RacesNext
    <3>1. Next /\ PromptScope BY <1>3, <2>2 DEF RacesNext
    <3> QED BY <2>1, <3>1, PromptStep
  <2>3. CASE UNCHANGED <<vars, pace>>
    <3>1. UNCHANGED vars BY <2>3
    <3> QED BY <2>1, <3>1, AnswerStep
  <2> QED BY <2>2, <2>3
<1> QED BY <1>1, <1>2, <1>3 DEF RInv

\* However many prompt pay requests, webhook deliveries and clients at Checkout race,
\* no client is charged twice for one installment (app/public/pay.py:141).
THEOREM ChargedOnce == RacesSpec => []NeverChargedTwice
<1>1. RacesInit => RInv BY IInvInit, PromptInit DEF RInv, RacesInit
<1>2. RInv => NeverChargedTwice
  <2> SUFFICES ASSUME RInv, pace = "prompt" PROVE NoDoubleCharge /\ OnePayableSession BY DEF NeverChargedTwice
  <2>1. OneAlive /\ TypeOK BY DEF RInv, PromptInv, IInv
  <2>2. NoDoubleCharge BY <2>1 DEF NoDoubleCharge, OneAlive, Alive
  <2>3. OnePayableSession BY <2>1 DEF OnePayableSession, OneAlive, Alive, TypeOK
  <2> QED BY <2>2, <2>3
<1> QED BY <1>1, <1>2, RInvStep, PTL DEF RacesSpec

(* One admin at work, and no view that reopens: the status is the ledger.  *)

\* What the price that was sent can be charged as.
Chargeable ==
  IF deposit > 0 THEN {<<"deposit", deposit>>, <<"balance", total - deposit>>}
                 ELSE {<<"full", total>>}

Untouched ==
  /\ \A s \in Sessions : state[s] = "unborn"
  /\ \A p \in Payers : ppc[p] = "idle"
  /\ \A v \in Viewers : vpc[v] = "idle"

StatusInv ==
  /\ \A a \in Admins : apc[a] # "idle" => a = OneAdmin /\ status = "draft"
  /\ status = "draft" => Untouched
  /\ \A s \in Sessions : state[s] # "unborn" => charge[s] \in Chargeable
  /\ \A p \in Payers : ppc[p] # "idle" => <<ask[p].kind, ask[p].amount>> \in Chargeable
  /\ StatusMatchesLedger

Reopens == status \in {"deposit_paid", "paid"} /\ status' \notin {"deposit_paid", "paid"}

\* A step that leaves the row and the ledger alone, and makes only what was asked for.
LEMMA StatusFrame ==
  ASSUME IInv, StatusInv, UNCHANGED <<status, total, deposit, payments>>,
         \A a \in Admins : apc'[a] # "idle" => a = OneAdmin /\ status = "draft",
         status = "draft" => Untouched',
         \A s \in Sessions : state'[s] # "unborn" =>
           (state[s] # "unborn" /\ charge'[s] = charge[s]) \/ charge'[s] \in Chargeable,
         \A p \in Payers : ppc'[p] # "idle" =>
           (ppc[p] # "idle" /\ ask'[p] = ask[p])
           \/ <<ask'[p].kind, ask'[p].amount>> \in Chargeable
  PROVE  StatusInv'
<1> USE DEF StatusInv
<1>1. Chargeable' = Chargeable BY DEF Chargeable
<1>2. StatusMatchesLedger' BY DEF StatusMatchesLedger
<1> QED BY <1>1, <1>2

\* An admin's step is of a draft, before anyone else has touched the invoice.
LEMMA StatusAdmin ==
  ASSUME IInv, StatusInv, TypeOK', NEW a \in Admins, \A b \in Admins \ {OneAdmin} : apc'[b] = "idle",
         EditBegin(a) \/ EditSave(a) \/ SendBegin(a) \/ SendSave(a)
  PROVE  StatusInv'
<1> USE DEF StatusInv
<1>1. status = "draft" BY DEF EditBegin, EditSave, SendBegin, SendSave
<1>2. UNCHANGED <<payments, state, ppc, vpc>>
  <2>1. CASE EditBegin(a) \/ SendBegin(a) BY <2>1 DEF EditBegin, SendBegin, ledger, stripe, payer
  <2>2. CASE EditSave(a) \/ SendSave(a) BY <2>2 DEF EditSave, SendSave, ledger, stripe, payer
  <2> QED BY <2>1, <2>2
<1>3. Untouched' BY <1>1, <1>2 DEF Untouched
<1>4. payments = {} BY <1>1 DEF StatusMatchesLedger
<1>5. status' \in {"draft", "sent"} BY <1>1 DEF EditBegin, EditSave, SendBegin, SendSave, row
<1>6. StatusMatchesLedger' BY <1>2, <1>4, <1>5 DEF StatusMatchesLedger
<1>7. ASSUME NEW b \in Admins, apc'[b] # "idle" PROVE b = OneAdmin /\ status' = "draft"
  <2>1. b = OneAdmin BY <1>7
  <2>2. CASE EditBegin(a) \/ EditSave(a) \/ SendBegin(a) BY <1>1, <2>1, <2>2 DEF EditBegin, EditSave, SendBegin, row
  <2>3. CASE SendSave(a)
    <3>1. a = OneAdmin /\ apc' = [apc EXCEPT ![a] = "idle"] BY <2>3 DEF SendSave
    <3> QED BY <1>7, <2>1, <3>1 DEF TypeOK
  <2> QED BY <2>1, <2>2, <2>3
<1> QED BY <1>3, <1>6, <1>7 DEF Untouched

\* A view moves a sent invoice to viewed, and does not reopen a paid one.
LEMMA StatusView ==
  ASSUME IInv, StatusInv, TypeOK', NEW v \in Viewers, ViewBegin(v) \/ ViewSave(v), ~Reopens
  PROVE  StatusInv'
<1> USE DEF StatusInv, IInv
<1>1. UNCHANGED <<total, deposit, payments, state, charge, ppc, ask, apc>>
  <2>1. CASE ViewBegin(v) BY <2>1 DEF ViewBegin, row, ledger, stripe, payer, admin
  <2>2. CASE ViewSave(v) BY <2>2 DEF ViewSave, ledger, stripe, payer, admin
  <2> QED BY <2>1, <2>2
<1>2. status # "draft" BY DEF ViewBegin, ViewSave, Untouched
<1>3. status' = status \/ (status \in {"sent", "viewed"} /\ status' = "viewed")
  BY <1>2 DEF ViewBegin, ViewSave, row, Reopens, TypeOK
<1>4. StatusMatchesLedger' BY <1>1, <1>3 DEF StatusMatchesLedger
<1>5. Chargeable' = Chargeable BY <1>1 DEF Chargeable
<1> QED BY <1>1, <1>2, <1>3, <1>4, <1>5

\* A pay request asks for what the price that was sent can be charged as.
LEMMA StatusPay ==
  ASSUME IInv, StatusInv, TypeOK', NEW p \in Payers, Pay(p)
  PROVE  StatusInv'
<1> USE DEF StatusInv, IInv
<1>1. UNCHANGED <<status, total, deposit, payments, apc>>
  BY DEF Pay, PayBegin, PayReuse, PayRefused, PaySupersede, PayExpire, PayCreate, PayBind,
         PayDrop, row, ledger, admin
<1>2. status # "draft" BY DEF Pay, PayBegin, PayReuse, PayRefused, PaySupersede, PayExpire, PayCreate, PayBind,
         PayDrop, Untouched
<1>3. CASE PayBegin(p)
  <2>1. PICK x : x = [prior |-> bound, kind |-> Owed.kind, amount |-> Owed.amount,
                      fits |-> boundKind = Owed.kind /\ boundAmount = Owed.amount]
    OBVIOUS
  <2>2. x.kind = Owed.kind /\ x.amount = Owed.amount BY <2>1
  <2>3. <<Owed.kind, Owed.amount>> \in Chargeable
    <3>1. Owed.amount > 0 BY <1>3 DEF PayBegin
    <3>2. status # "paid" BY <3>1 DEF Owed
    <3>3. CASE status = "deposit_paid"
      <4>1. \E y \in payments : y.kind = "deposit" /\ y.amount = deposit
        <5>1. {<<y.kind, y.amount>> : y \in payments} = {<<"deposit", deposit>>} BY <3>3 DEF StatusMatchesLedger
        <5>2. PICK y \in payments : <<y.kind, y.amount>> = <<"deposit", deposit>> BY <5>1
        <5> QED BY <5>2
      <4>2. PICK y \in payments : y.kind = "deposit" /\ y.amount = deposit BY <4>1
      <4>3. charge[y.session] = <<"deposit", deposit>> /\ paid[y.session] = "paid"
            /\ y.session \in Sessions BY <4>2 DEF LedgerMatchesStripe, TypeOK
      <4>4. charge[y.session] \in Chargeable BY <4>3 DEF StripeInv
      <4>5. deposit > 0 BY <4>3, <4>4 DEF Chargeable
      <4> QED BY <3>3, <4>5 DEF Owed, Chargeable
    <3>4. CASE status # "deposit_paid" BY <3>2, <3>4 DEF Owed, Chargeable
    <3> QED BY <3>3, <3>4
  <2>4. ask' = [ask EXCEPT ![p] = x] /\ UNCHANGED <<state, charge>> BY <1>3, <2>1 DEF PayBegin, stripe
  <2>5. ppc' = [ppc EXCEPT ![p] = IF bound = None THEN "create" ELSE "retrieve"] BY <1>3 DEF PayBegin, PayGoto
  <2>6. ask'[p] = x /\ \A r \in Payers \ {p} : ask'[r] = ask[r] /\ ppc'[r] = ppc[r] BY <2>4, <2>5 DEF TypeOK
  <2> QED BY <1>1, <1>2, <2>2, <2>3, <2>4, <2>6, StatusFrame
<1>4. CASE PayReuse(p) \/ PayRefused(p) \/ PaySupersede(p) \/ PayDrop(p) \/ PayBind(p)
  <2>1. UNCHANGED <<ask, state, charge>> /\ ppc[p] # "idle"
        /\ \E w : ppc' = [ppc EXCEPT ![p] = w]
    BY <1>4 DEF PayReuse, PayRefused, PaySupersede, PayBind, PayDrop, PayGoto, stripe
  <2>2. \A r \in Payers \ {p} : ppc'[r] = ppc[r] BY <2>1 DEF TypeOK
  <2> QED BY <1>1, <1>2, <2>1, <2>2, StatusFrame
<1>5. CASE PayExpire(p)
  <2>1. PICK s : s = ask[p].prior OBVIOUS
  <2>2. s \in Sessions /\ ppc[p] # "idle" BY <1>5, <2>1 DEF PayExpire, ThreadsInv
  <2>3. ppc' = [ppc EXCEPT ![p] = "create"] /\ UNCHANGED <<ask, charge>> BY <1>5 DEF PayExpire, PayGoto
  <2>4. \A r \in Payers \ {p} : ppc'[r] = ppc[r] BY <2>3 DEF TypeOK
  <2>5. PICK w : state' = [state EXCEPT ![s] = w] /\ (state[s] = "open" \/ w = state[s]) BY <1>5, <2>1 DEF PayExpire
  <2>6. \A t \in Sessions : state'[t] # "unborn" => state[t] # "unborn" BY <2>2, <2>5 DEF TypeOK
  <2> QED BY <1>1, <1>2, <2>2, <2>3, <2>4, <2>6, StatusFrame
<1>6. CASE PayCreate(p)
  <2>1. ppc[p] # "idle" /\ ppc' = [ppc EXCEPT ![p] = "bind"] /\ UNCHANGED ask BY <1>6 DEF PayCreate, PayGoto
  <2>2. \A r \in Payers \ {p} : ppc'[r] = ppc[r] BY <2>1 DEF TypeOK
  <2>3. PICK s \in Sessions :
          \/ UNCHANGED <<state, charge>>
          \/ /\ state[s] = "unborn" /\ state' = [state EXCEPT ![s] = "open"]
             /\ charge' = [charge EXCEPT ![s] = <<ask[p].kind, ask[p].amount>>] BY <1>6 DEF PayCreate
  <2>4. <<ask[p].kind, ask[p].amount>> \in Chargeable BY <2>1
  <2>5. \A t \in Sessions : state'[t] # "unborn" =>
          (state[t] # "unborn" /\ charge'[t] = charge[t]) \/ charge'[t] \in Chargeable
    <3>1. CASE UNCHANGED <<state, charge>> BY <3>1
    <3>2. CASE /\ state[s] = "unborn" /\ state' = [state EXCEPT ![s] = "open"]
               /\ charge' = [charge EXCEPT ![s] = <<ask[p].kind, ask[p].amount>>] BY <2>4, <3>2 DEF TypeOK
    <3> QED BY <2>3, <3>1, <3>2
  <2> QED BY <1>1, <1>2, <2>1, <2>2, <2>5, StatusFrame
<1> QED BY <1>3, <1>4, <1>5, <1>6 DEF Pay

\* Stripe makes no session.
LEMMA StatusStripe ==
  ASSUME IInv, StatusInv, TypeOK', NEW s \in Sessions,
         CardPays(s) \/ BankPays(s) \/ BankSettles(s) \/ BankFails(s) \/ DayPasses(s)
  PROVE  StatusInv'
<1> USE DEF StatusInv, IInv
<1>1. UNCHANGED <<status, total, deposit, payments, charge, ppc, ask, vpc, apc>>
  BY DEF CardPays, BankPays, BankSettles, BankFails, DayPasses, row, ledger, payer, admin
<1>2. \A t \in Sessions : state'[t] # "unborn" => state[t] # "unborn"
  <2>1. \/ UNCHANGED state
        \/ state[s] # "unborn" /\ \E w : state' = [state EXCEPT ![s] = w]
    <3>1. CASE CardPays(s) \/ BankPays(s) BY <3>1 DEF CardPays, BankPays
    <3>2. CASE BankSettles(s) \/ BankFails(s) BY <3>2 DEF BankSettles, BankFails
    <3>3. CASE DayPasses(s) BY <3>3 DEF DayPasses
    <3> QED BY <3>1, <3>2, <3>3
  <2> QED BY <2>1 DEF TypeOK
<1>3. status = "draft" => Untouched'
  <2>1. \A t \in Sessions : state'[t] \in {"unborn", "open", "complete", "expired"} BY DEF TypeOK
  <2> QED BY <1>1, <1>2, <2>1 DEF Untouched
<1> QED BY <1>1, <1>2, <1>3, StatusFrame

\* The transaction adds the one installment that moves the status on.
LEMMA StatusSettles ==
  ASSUME IInv, StatusInv, TypeOK', NEW h \in Hooks, hpc[h] = "apply",
         NEW c, c = charge[hook[h].session], NEW r,
         r.kind = c[1], r.amount = c[2], payments' = payments \cup {r},
         ~Conflicts(hook[h].session, c[1]), status \in SettlesFrom(c[1]),
         status' = Settles(c[1]), UNCHANGED <<total, deposit>>
  PROVE  StatusMatchesLedger'
<1> USE DEF StatusInv, IInv
<1>1. hook[h].session \in Sessions /\ state[hook[h].session] = "complete"
  <2>1. hook[h] \in events /\ hook[h].type = "paid" BY DEF ThreadsInv
  <2>2. hook[h].session \in Sessions BY <2>1 DEF TypeOK, Events
  <2> QED BY <2>1, <2>2 DEF StripeInv
<1>2. c \in Chargeable BY <1>1
<1>3. \A y \in payments : y.kind # c[1] BY DEF Conflicts
<1>4. \A x, y \in payments' : x.kind = y.kind => x = y BY <1>3 DEF StatusMatchesLedger
<1> DEFINE taken == {<<y.kind, y.amount>> : y \in payments}
<1>5. {<<y.kind, y.amount>> : y \in payments'} = taken \cup {c} BY <1>2 DEF Chargeable
<1>6. CASE c = <<"deposit", deposit>>
  <2>1. status \in {"sent", "viewed"} /\ status' = "deposit_paid" BY <1>6 DEF SettlesFrom, Settles
  <2>2. taken = {} BY <2>1 DEF StatusMatchesLedger
  <2> QED BY <1>4, <1>5, <1>6, <2>1, <2>2 DEF StatusMatchesLedger
<1>7. CASE c = <<"balance", total - deposit>>
  <2>1. status = "deposit_paid" /\ status' = "paid" BY <1>7 DEF SettlesFrom, Settles
  <2>2. taken = {<<"deposit", deposit>>} BY <2>1 DEF StatusMatchesLedger
  <2> QED BY <1>4, <1>5, <1>7, <2>1, <2>2 DEF StatusMatchesLedger
<1>8. CASE c = <<"full", total>>
  <2>1. status \in {"sent", "viewed"} /\ status' = "paid" BY <1>8 DEF SettlesFrom, Settles
  <2>2. taken = {} BY <2>1 DEF StatusMatchesLedger
  <2> QED BY <1>4, <1>5, <1>8, <2>1, <2>2 DEF StatusMatchesLedger
<1> QED BY <1>2, <1>6, <1>7, <1>8 DEF Chargeable

\* Of the webhook only the transaction touches status or ledger.
LEMMA StatusHook ==
  ASSUME IInv, StatusInv, TypeOK', NEW h \in Hooks, Hook(h)
  PROVE  StatusInv'
<1> USE DEF StatusInv, IInv
<1>1. UNCHANGED <<total, deposit, state, charge, ppc, ask, vpc, apc>>
  BY DEF Hook, HookPending, HookDuplicate, HookUnapplied, HookAccept, HookApply, HookRelease,
         HookDrop, row, stripe, payer, admin
<1>2. status = "draft" => Untouched' BY <1>1 DEF Untouched
<1>3. CASE UNCHANGED <<status, payments>> BY <1>1, <1>2, <1>3, StatusFrame
<1>4. CASE HookApply(h) /\ ~UNCHANGED <<status, payments>>
  <2>1. PICK c : c = charge[hook[h].session] OBVIOUS
  <2>2. PICK r : r = [session |-> hook[h].session, kind |-> c[1], amount |-> c[2]] OBVIOUS
  <2>3. r.kind = c[1] /\ r.amount = c[2] BY <2>2
  <2>4. /\ hpc[h] = "apply" /\ ~Conflicts(hook[h].session, c[1]) /\ status \in SettlesFrom(c[1])
        /\ payments' = payments \cup {r} /\ status' = Settles(c[1]) BY <1>4, <2>1, <2>2 DEF HookApply
  <2>5. StatusMatchesLedger' BY <1>1, <2>1, <2>3, <2>4, StatusSettles
  <2>6. status # "draft" /\ status' # "draft" BY <2>4 DEF SettlesFrom, Settles
  <2>7. Chargeable' = Chargeable BY <1>1 DEF Chargeable
  <2> QED BY <1>1, <2>5, <2>6, <2>7
<1>5. UNCHANGED <<status, payments>> \/ HookApply(h)
  BY DEF Hook, HookPending, HookDuplicate, HookUnapplied, HookAccept, HookRelease,
         HookDrop, row, ledger
<1> QED BY <1>3, <1>4, <1>5

SInv == IInv /\ (pace = "hooks" => StatusInv)

\* Every step while one admin works.
LEMMA SInvStep ==
  SInv /\ [LiveNext]_<<vars, pace>> /\ [~Reopens]_vars => SInv'
<1> SUFFICES ASSUME SInv, [LiveNext]_<<vars, pace>>, [~Reopens]_vars PROVE SInv'
  OBVIOUS
<1>1. [Next]_vars /\ pace' = pace BY DEF LiveNext
<1>2. IInv' BY <1>1, IInvStep DEF SInv
<1>3. ASSUME pace = "hooks" PROVE StatusInv'
  <2> USE DEF SInv
  <2>0. TypeOK' BY <1>2 DEF IInv
  <2>1. CASE UNCHANGED vars
    BY <1>3, <2>1, StatusFrame DEF vars, row, ledger, stripe, payer, admin, StatusInv, Untouched
  <2>2. CASE LiveNext /\ ~UNCHANGED vars
    <3>1. Next /\ ~Reopens /\ \A b \in Admins \ {OneAdmin} : apc'[b] = "idle" BY <1>3, <2>2 DEF LiveNext, LiveScope
    <3>2. CASE \E a \in Admins : EditBegin(a) \/ EditSave(a) \/ SendBegin(a) \/ SendSave(a)
      BY <1>3, <2>0, <3>1, <3>2, StatusAdmin
    <3>3. CASE MoveProject BY <1>3, <3>3, StatusFrame DEF MoveProject, row, stripe, payer, admin, StatusInv, Untouched
    <3>4. CASE \E v \in Viewers : ViewBegin(v) \/ ViewSave(v) BY <1>3, <2>0, <3>1, <3>4, StatusView
    <3>5. CASE \E p \in Payers : Pay(p) BY <1>3, <2>0, <3>5, StatusPay
    <3>6. CASE \E s \in Sessions : CardPays(s) \/ BankPays(s) \/ BankSettles(s) \/ BankFails(s)
                                    \/ DayPasses(s) BY <1>3, <2>0, <3>6, StatusStripe
    <3>7. CASE \E h \in Hooks : Hook(h) BY <1>3, <2>0, <3>7, StatusHook
    <3> QED BY <3>1, <3>2, <3>3, <3>4, <3>5, <3>6, <3>7 DEF Next
  <2> QED BY <2>1, <2>2
<1> QED BY <1>1, <1>2, <1>3 DEF SInv

\* While one admin works and no late view reopens the invoice, its status says
\* exactly which installments the ledger holds (app/public/pay.py:563).
THEOREM StatusTrue == LiveSpec /\ SettledNeverReopens => []StatusIsTrue
<1>1. LiveInit => SInv
  <2> SUFFICES ASSUME LiveInit PROVE SInv OBVIOUS
  <2> USE DEF LiveInit, Init
  <2>1. StatusMatchesLedger BY DEF StatusMatchesLedger
  <2>2. StatusInv BY <2>1 DEF StatusInv, Untouched
  <2> QED BY <2>2, IInvInit DEF SInv
<1>2. SInv => StatusIsTrue BY DEF SInv, StatusInv, StatusIsTrue
<1>3. [(status \in {"deposit_paid", "paid"}) => (status' \in {"deposit_paid", "paid"})]_vars
      => [~Reopens]_vars BY DEF Reopens
<1> QED BY <1>1, <1>2, <1>3, SInvStep, PTL DEF LiveSpec, SettledNeverReopens

=============================================================================
