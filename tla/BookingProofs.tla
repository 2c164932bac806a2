--------------------------- MODULE BookingProofs ---------------------------
(***************************************************************************)
(* Booking for any slots, buffers, visitors, sessions and deliveries: the  *)
(* types, what is exclusive about a slot, a family and a payment, and,     *)
(* without a fee, that booking implements the reservation promise.         *)
(***************************************************************************)
EXTENDS Booking, FiniteSetTheorems, TLAPS

\* Serving a typed request keeps the threads typed.
LEMMA ServeType ==
  ASSUME TypeOK, NEW v \in Visitors, NEW r \in Requests, Serve(v, r)
  PROVE  req' \in [Visitors -> Requests]
BY DEF TypeOK, Serve

LEMMA LeaveType ==
  ASSUME TypeOK, NEW v \in Visitors, Leave(v)
  PROVE  req' \in [Visitors -> Requests]
<1>1. NoRequest \in Requests BY DEF NoRequest, Requests
<1>. QED BY <1>1, ServeType DEF Leave

\* A request that moves on with a session in hand is still typed.
LEMMA RequestEdit ==
  ASSUME NEW q \in Requests, NEW place \in {"create", "retrieve", "bind"},
         NEW s \in Sessions \cup {None}
  PROVE  [q EXCEPT !.at = place, !.session = s] \in Requests
BY DEF Requests

\* Every step keeps the types.
LEMMA TypeStep ==
  TypeOK /\ RequestsInv /\ StripeInv /\ [Next]_vars => TypeOK'
<1>. SUFFICES ASSUME TypeOK, RequestsInv, StripeInv, [Next]_vars
              PROVE  TypeOK'
  OBVIOUS
<1>. USE NoneAssumption DEF TypeOK, RequestsInv, StripeInv, table, money, stripe
<1>1. ASSUME NEW v \in Visitors, ClaimBegin(v)
      PROVE  TypeOK'
  <2>1. PICK s \in Slots : Serve(v, [NoRequest EXCEPT !.at = "claim", !.want = s]) BY <1>1 DEF ClaimBegin
  <2>2. [NoRequest EXCEPT !.at = "claim", !.want = s] \in Requests BY <1>1 DEF NoRequest, Requests, ClaimBegin
  <2>3. req' \in [Visitors -> Requests] BY <2>1, <2>2, ServeType
  <2>. QED BY <1>1, <2>3 DEF ClaimBegin
<1>2. ASSUME NEW v \in Visitors, ClaimRefused(v)
      PROVE  TypeOK'
  <2>1. req' \in [Visitors -> Requests] BY <1>2, LeaveType DEF ClaimRefused
  <2>. QED BY <1>2, <2>1 DEF ClaimRefused
<1>3. ASSUME NEW v \in Visitors, CheckoutRead(v)
      PROVE  TypeOK'
  <2>. DEFINE b == req[v].mine
              r == [req[v] EXCEPT !.at = IF bound[b] = None THEN "create" ELSE "retrieve",
                                  !.session = bound[b]]
  <2>1. b \in Bookings BY <1>3 DEF CheckoutRead
  <2>2. r \in Requests BY <2>1, RequestEdit
  <2>3. Serve(v, r) \/ Leave(v) BY <1>3 DEF CheckoutRead
  <2>4. req' \in [Visitors -> Requests] BY <2>2, <2>3, ServeType, LeaveType
  <2>. QED BY <1>3, <2>4 DEF CheckoutRead
<1>4. ASSUME NEW v \in Visitors, CheckoutRetrieve(v)
      PROVE  TypeOK'
  <2>1. [req[v] EXCEPT !.at = "create"] \in Requests BY DEF Requests
  <2>2. req' \in [Visitors -> Requests] BY <1>4, <2>1, ServeType, LeaveType DEF CheckoutRetrieve
  <2>. QED BY <1>4, <2>2 DEF CheckoutRetrieve
<1>5. ASSUME NEW v \in Visitors, CheckoutBind(v)
      PROVE  TypeOK'
  <2>1. req' \in [Visitors -> Requests] BY <1>5, LeaveType DEF CheckoutBind
  <2>. QED BY <1>5, <2>1 DEF CheckoutBind
<1>6. ASSUME NEW v \in Visitors, CheckoutFails(v)
      PROVE  TypeOK'
  <2>1. req' \in [Visitors -> Requests] BY <1>6, LeaveType DEF CheckoutFails
  <2>. QED BY <1>6, <2>1 DEF CheckoutFails, Released
<1>7. ASSUME NEW v \in Visitors, VisitorDrop(v)
      PROVE  TypeOK'
  <2>1. req' \in [Visitors -> Requests] BY <1>7, LeaveType DEF VisitorDrop
  <2>. QED BY <1>7, <2>1 DEF VisitorDrop
<1>8. ASSUME NEW v \in Visitors, NEW b \in Bookings, RescheduleBegin(v, b)
      PROVE  TypeOK'
  <2>1. PICK s \in Slots : Serve(v, [NoRequest EXCEPT !.at = "claim", !.want = s, !.orig = b])
    BY <1>8 DEF RescheduleBegin
  <2>2. [NoRequest EXCEPT !.at = "claim", !.want = s, !.orig = b] \in Requests
    BY <1>8 DEF NoRequest, Requests, RescheduleBegin
  <2>3. req' \in [Visitors -> Requests] BY <2>1, <2>2, ServeType
  <2>. QED BY <1>8, <2>3 DEF RescheduleBegin
<1>9. ASSUME NEW v \in Visitors, NEW b \in Bookings, ClaimCommit(v, b)
      PROVE  TypeOK'
  <2>. DEFINE o == req[v].orig
              r == [NoRequest EXCEPT !.at = "checkout", !.mine = b, !.first = TRUE]
  <2>1. o \in Bookings \cup {None} /\ req[v].want \in Slots BY <1>9 DEF ClaimCommit, Requests
  <2>2. r \in Requests BY DEF NoRequest, Requests
  <2>3. Serve(v, r) \/ Leave(v) BY <1>9 DEF ClaimCommit
  <2>4. req' \in [Visitors -> Requests] BY <2>2, <2>3, ServeType, LeaveType
  <2>5. FirstStatus(o) \in {"pending", "confirmed"} BY DEF FirstStatus
  <2>6. /\ status' \in [Bookings -> {"absent", "pending", "confirmed", "cancelled"}]
        /\ slot' \in [Bookings -> Slots \cup {None}]
        /\ parent' \in [Bookings -> Bookings \cup {None}]
        /\ bound' \in [Bookings -> Sessions \cup {None}]
        /\ paidUp' \in [Bookings -> BOOLEAN]
    <3>1. status' \in [Bookings -> {"absent", "pending", "confirmed", "cancelled"}] BY <1>9, <2>5 DEF ClaimCommit
    <3>2. slot' \in [Bookings -> Slots \cup {None}] BY <1>9, <2>1 DEF ClaimCommit
    <3>3. parent' \in [Bookings -> Bookings \cup {None}] BY <1>9, <2>1 DEF ClaimCommit
    <3>4. bound' \in [Bookings -> Sessions \cup {None}] BY <1>9, <2>1 DEF ClaimCommit
    <3>5. (o # None /\ paidUp[o]) \in BOOLEAN
      OBVIOUS
    <3>6. paidUp' \in [Bookings -> BOOLEAN] BY <1>9, <3>5 DEF ClaimCommit
    <3>. QED BY <3>1, <3>2, <3>3, <3>4, <3>6
  <2>7. UNCHANGED <<hold, money, stripe, hook, late>> BY <1>9 DEF ClaimCommit
  <2>. QED BY <2>4, <2>6, <2>7
<1>10. ASSUME NEW v \in Visitors, NEW b \in Bookings, PayAgain(v, b)
      PROVE  TypeOK'
  <2>1. Serve(v, [NoRequest EXCEPT !.at = "checkout", !.mine = b]) BY <1>10 DEF PayAgain
  <2>2. [NoRequest EXCEPT !.at = "checkout", !.mine = b] \in Requests BY <1>10 DEF NoRequest, Requests, PayAgain
  <2>3. req' \in [Visitors -> Requests] BY <2>1, <2>2, ServeType
  <2>. QED BY <1>10, <2>3 DEF PayAgain
<1>11. ASSUME NEW v \in Visitors, NEW s \in Sessions, CheckoutCreate(v, s)
      PROVE  TypeOK'
  <2>. DEFINE r == [req[v] EXCEPT !.at = "bind", !.session = s]
  <2>1. req[v].mine \in Bookings /\ KeyOf(v) \in [booking : Bookings, prior : Sessions \cup {None}]
    BY <1>11 DEF CheckoutCreate, KeyOf, Requests
  <2>2. r \in Requests BY RequestEdit
  <2>3. req' \in [Visitors -> Requests] BY <1>11, <2>2, ServeType DEF CheckoutCreate
  <2>4. keys' \subseteq keys \cup {[key |-> KeyOf(v), session |-> s]} BY <1>11 DEF CheckoutCreate
  <2>5. state' \in [Sessions -> {"unborn", "open", "complete", "expired"}] BY <1>11 DEF CheckoutCreate
  <2>6. owner' \in [Sessions -> Bookings \cup {None}] BY <1>11, <2>1 DEF CheckoutCreate
  <2>7. UNCHANGED <<table, money, shown, events, hook, late>> BY <1>11 DEF CheckoutCreate
  <2>8. [key |-> KeyOf(v), session |-> s]
          \in [key : [booking : Bookings, prior : Sessions \cup {None}], session : Sessions] BY <2>1
  <2>. QED BY <2>3, <2>4, <2>5, <2>6, <2>7, <2>8
<1>12. ASSUME NEW b \in Bookings, Cancel(b)
      PROVE  TypeOK' BY <1>12 DEF Cancel
<1>13. ASSUME NEW b \in Bookings, AdminRelease(b)
      PROVE  TypeOK' BY <1>13 DEF AdminRelease, Released
<1>14. ASSUME NEW b \in Bookings, HoldAges(b)
      PROVE  TypeOK' BY <1>14 DEF HoldAges
<1>15. CASE Sweep BY <1>15 DEF Sweep, Abandoned
<1>16. ASSUME NEW s \in Sessions, CardPays(s)
      PROVE  TypeOK' BY <1>16 DEF CardPays
<1>17. ASSUME NEW s \in Sessions, SessionExpires(s)
      PROVE  TypeOK' BY <1>17 DEF SessionExpires
<1>18. ASSUME NEW h \in Hooks, NEW s \in events, HookAnswer(h, s)
      PROVE  TypeOK' BY <1>18 DEF HookAnswer, Ack
<1>19. ASSUME NEW h \in Hooks, NEW s \in events, HookAccept(h, s)
      PROVE  TypeOK' BY <1>19 DEF HookAccept
<1>20. ASSUME NEW h \in Hooks, HookApply(h)
      PROVE  TypeOK'
  <2>. DEFINE s == hook[h]
              b == owner[s]
  <2>1. s \in events /\ s \in Sessions /\ b \in Bookings BY <1>20 DEF HookApply
  <2>2. /\ ledger' \subseteq [booking : Bookings, session : Sessions]
        /\ status' \in [Bookings -> {"absent", "pending", "confirmed", "cancelled"}]
        /\ paidUp' \in [Bookings -> BOOLEAN]
        /\ late' \subseteq Bookings
    <3>1. CASE ~ Conflicts(s) /\ StillHeld(b)
      <4>1. ledger' = ledger \cup {[booking |-> b, session |-> s]} BY <1>20, <3>1 DEF HookApply
      <4>2. status' = [status EXCEPT ![b] = "confirmed"] BY <1>20, <3>1 DEF HookApply
      <4>3. paidUp' = [paidUp EXCEPT ![b] = TRUE] /\ late' \subseteq late \cup {b} BY <1>20, <3>1 DEF HookApply
      <4>4. ledger' \subseteq [booking : Bookings, session : Sessions] BY <2>1, <4>1
      <4>5. status' \in [Bookings -> {"absent", "pending", "confirmed", "cancelled"}] BY <4>2
      <4>6. paidUp' \in [Bookings -> BOOLEAN] /\ late' \subseteq Bookings BY <2>1, <4>3
      <4>. QED BY <4>4, <4>5, <4>6
    <3>2. CASE ~ (~ Conflicts(s) /\ StillHeld(b))
      <4>1. UNCHANGED <<ledger, status, paidUp, late>> BY <1>20, <3>2 DEF HookApply
      <4>. QED BY <4>1
    <3>. QED BY <3>1, <3>2
  <2>3. audited' \subseteq Sessions /\ acked' \subseteq events BY <1>20, <2>1 DEF HookApply, Ack
  <2>4. hook' \in [Hooks -> Sessions \cup {None}] BY <1>20 DEF HookApply
  <2>5. UNCHANGED <<slot, hold, parent, bound, stripe, req>> BY <1>20 DEF HookApply
  <2>. QED BY <2>2, <2>3, <2>4, <2>5
<1>21. ASSUME NEW h \in Hooks, HookDrop(h)
      PROVE  TypeOK' BY <1>21 DEF HookDrop
<1>22. CASE UNCHANGED vars BY <1>22 DEF vars
<1>. QED BY <1>1, <1>2, <1>3, <1>4, <1>5, <1>6, <1>7, <1>8, <1>9, <1>10,
     <1>11, <1>12, <1>13, <1>14, <1>15, <1>16, <1>17, <1>18, <1>19,
     <1>20, <1>21, <1>22 DEF Next, Visit

\* A row is filled by the claim that inserts it; relatives come only to a confirmed one.
LEMMA RowsStep ==
  TypeOK /\ RequestsInv /\ StripeInv /\ RowsInv /\ [Next]_vars => RowsInv'
<1>. SUFFICES ASSUME TypeOK, RequestsInv, StripeInv, RowsInv, [Next]_vars
              PROVE  RowsInv'
  OBVIOUS
<1>. USE NoneAssumption DEF TypeOK, RequestsInv, StripeInv, RowsInv, table, money, stripe
<1>1. ASSUME NEW v \in Visitors, ClaimBegin(v)
      PROVE  RowsInv' BY <1>1 DEF ClaimBegin, Serve, NoRequest
<1>2. ASSUME NEW v \in Visitors, ClaimRefused(v)
      PROVE  RowsInv' BY <1>2 DEF ClaimRefused, Leave, NoRequest, Serve
<1>3. ASSUME NEW v \in Visitors, CheckoutRead(v)
      PROVE  RowsInv' BY <1>3 DEF CheckoutRead, Leave, NoRequest, Serve
<1>4. ASSUME NEW v \in Visitors, CheckoutRetrieve(v)
      PROVE  RowsInv' BY <1>4 DEF CheckoutRetrieve, Leave, NoRequest, Serve
<1>5. ASSUME NEW v \in Visitors, CheckoutBind(v)
      PROVE  RowsInv' BY <1>5 DEF CheckoutBind, Leave, NoRequest, Serve
<1>6. ASSUME NEW v \in Visitors, CheckoutFails(v)
      PROVE  RowsInv' BY <1>6 DEF CheckoutFails, Leave, NoRequest, Serve, Released
<1>7. ASSUME NEW v \in Visitors, VisitorDrop(v)
      PROVE  RowsInv' BY <1>7 DEF VisitorDrop, Leave, NoRequest, Serve
<1>8. ASSUME NEW v \in Visitors, NEW b \in Bookings, RescheduleBegin(v, b)
      PROVE  RowsInv' BY <1>8 DEF RescheduleBegin, Serve, NoRequest
<1>9. ASSUME NEW v \in Visitors, NEW b \in Bookings, ClaimCommit(v, b)
      PROVE  RowsInv'
  <2>. DEFINE o == req[v].orig
  <2>1. /\ status[b] = "absent"
        /\ o # None => o \in Bookings /\ status[o] = "confirmed"
        /\ o \in Bookings \cup {None} /\ req[v].want \in Slots
        /\ FirstStatus(o) \in {"pending", "confirmed"}
        /\ FirstStatus(o) = "pending" => Fee /\ o = None
    BY <1>9 DEF ClaimCommit, Movable, SoleConfirmed, Requests, FirstStatus
  <2>2. /\ status' = [x \in Bookings |-> IF x = b THEN FirstStatus(o)
                                        ELSE IF x = o THEN "cancelled" ELSE status[x]]
        /\ slot' = [slot EXCEPT ![b] = req[v].want]
        /\ parent' = [parent EXCEPT ![b] = o]
        /\ late' = late BY <1>9 DEF ClaimCommit
  <2>3. \A x \in Bookings : status'[x] # "absent" => slot'[x] \in Slots BY <2>1, <2>2
  <2>4. ASSUME NEW x \in Bookings, status'[x] \in {"absent", "pending"}
        PROVE  parent'[x] = None /\ \A c \in Bookings : parent'[c] # x
    <3>1. x # o BY <2>1, <2>2, <2>4
    <3>2. x = b => o = None BY <2>1, <2>2, <2>4
    <3>3. status[x] \in {"absent", "pending"} BY <2>1, <2>2, <2>4, <3>1
    <3>. QED BY <2>1, <2>2, <3>1, <3>2, <3>3
  <2>5. ~ Fee => late' = {} /\ \A x \in Bookings : status'[x] # "pending" BY <2>1, <2>2
  <2>. QED BY <2>3, <2>4, <2>5
<1>10. ASSUME NEW v \in Visitors, NEW b \in Bookings, PayAgain(v, b)
      PROVE  RowsInv' BY <1>10 DEF PayAgain, Serve, NoRequest
<1>11. ASSUME NEW v \in Visitors, NEW s \in Sessions, CheckoutCreate(v, s)
      PROVE  RowsInv' BY <1>11 DEF CheckoutCreate, Serve, NoRequest
<1>12. ASSUME NEW b \in Bookings, Cancel(b)
      PROVE  RowsInv' BY <1>12 DEF Cancel, SoleConfirmed
<1>13. ASSUME NEW b \in Bookings, AdminRelease(b)
      PROVE  RowsInv' BY <1>13 DEF AdminRelease, Released
<1>14. ASSUME NEW b \in Bookings, HoldAges(b)
      PROVE  RowsInv' BY <1>14 DEF HoldAges
<1>15. CASE Sweep BY <1>15 DEF Sweep, Abandoned
<1>16. ASSUME NEW s \in Sessions, CardPays(s)
      PROVE  RowsInv' BY <1>16 DEF CardPays
<1>17. ASSUME NEW s \in Sessions, SessionExpires(s)
      PROVE  RowsInv' BY <1>17 DEF SessionExpires
<1>18. ASSUME NEW h \in Hooks, NEW s \in events, HookAnswer(h, s)
      PROVE  RowsInv' BY <1>18 DEF HookAnswer, Ack
<1>19. ASSUME NEW h \in Hooks, NEW s \in events, HookAccept(h, s)
      PROVE  RowsInv' BY <1>19 DEF HookAccept
<1>20. ASSUME NEW h \in Hooks, HookApply(h)
      PROVE  RowsInv'
  <2>. DEFINE c == owner[hook[h]]
  <2>1. /\ UNCHANGED <<slot, parent>>
        /\ \/ UNCHANGED <<status, late>>
           \/ /\ status[c] = "pending"
              /\ status' = [status EXCEPT ![c] = "confirmed"]
              /\ late' \subseteq late \cup {c} BY <1>20 DEF HookApply, StillHeld
  <2>2. hook[h] \in Sessions /\ c \in Bookings BY <1>20 DEF HookApply
  <2>. QED BY <2>1, <2>2
<1>21. ASSUME NEW h \in Hooks, HookDrop(h)
      PROVE  RowsInv' BY <1>21 DEF HookDrop
<1>22. CASE UNCHANGED vars BY <1>22 DEF vars
<1>. QED BY <1>1, <1>2, <1>3, <1>4, <1>5, <1>6, <1>7, <1>8, <1>9, <1>10,
     <1>11, <1>12, <1>13, <1>14, <1>15, <1>16, <1>17, <1>18, <1>19,
     <1>20, <1>21, <1>22 DEF Next, Visit

\* A request carries what its place says.
LEMMA RequestsStep ==
  TypeOK /\ RequestsInv /\ [Next]_vars => RequestsInv'
<1>. SUFFICES ASSUME TypeOK, RequestsInv, [Next]_vars
              PROVE  RequestsInv'
  OBVIOUS
<1>. USE NoneAssumption DEF TypeOK, RequestsInv, table, money, stripe
<1>1. ASSUME NEW v \in Visitors, ClaimBegin(v)
      PROVE  RequestsInv' BY <1>1 DEF ClaimBegin, Serve, NoRequest
<1>2. ASSUME NEW v \in Visitors, ClaimRefused(v)
      PROVE  RequestsInv' BY <1>2 DEF ClaimRefused, Leave, NoRequest, Serve
<1>3. ASSUME NEW v \in Visitors, CheckoutRead(v)
      PROVE  RequestsInv'
  <2>. DEFINE c == req[v].mine
              r == [req[v] EXCEPT !.at = IF bound[c] = None THEN "create" ELSE "retrieve",
                                  !.session = bound[c]]
  <2>1. c \in Bookings /\ req[v] \in Requests BY <1>3 DEF CheckoutRead
  <2>2. Leave(v) \/ Serve(v, r) BY <1>3 DEF CheckoutRead
  <2>3. r.mine = c /\ r.at \in {"create", "retrieve"} /\ (r.at = "retrieve" => r.session \in Sessions)
    BY <2>1 DEF Requests
  <2>4. CASE Leave(v) BY <2>4 DEF Leave, Serve, NoRequest
  <2>5. CASE Serve(v, r)
    <3>. HIDE DEF r
    <3>. QED BY <2>1, <2>3, <2>5 DEF Serve
  <2>. QED BY <2>2, <2>4, <2>5
<1>4. ASSUME NEW v \in Visitors, CheckoutRetrieve(v)
      PROVE  RequestsInv'
  <2>. DEFINE r == [req[v] EXCEPT !.at = "create"]
  <2>1. req[v].mine \in Bookings /\ req[v] \in Requests BY <1>4 DEF CheckoutRetrieve
  <2>2. Leave(v) \/ Serve(v, r) BY <1>4 DEF CheckoutRetrieve
  <2>3. r.mine = req[v].mine /\ r.at = "create" BY <2>1 DEF Requests
  <2>4. CASE Leave(v) BY <2>4 DEF Leave, Serve, NoRequest
  <2>5. CASE Serve(v, r)
    <3>. HIDE DEF r
    <3>. QED BY <2>1, <2>3, <2>5 DEF Serve
  <2>. QED BY <2>2, <2>4, <2>5
<1>5. ASSUME NEW v \in Visitors, CheckoutBind(v)
      PROVE  RequestsInv' BY <1>5 DEF CheckoutBind, Leave, NoRequest, Serve
<1>6. ASSUME NEW v \in Visitors, CheckoutFails(v)
      PROVE  RequestsInv' BY <1>6 DEF CheckoutFails, Leave, NoRequest, Serve, Released
<1>7. ASSUME NEW v \in Visitors, VisitorDrop(v)
      PROVE  RequestsInv' BY <1>7 DEF VisitorDrop, Leave, NoRequest, Serve
<1>8. ASSUME NEW v \in Visitors, NEW b \in Bookings, RescheduleBegin(v, b)
      PROVE  RequestsInv' BY <1>8 DEF RescheduleBegin, Serve, NoRequest
<1>9. ASSUME NEW v \in Visitors, NEW b \in Bookings, ClaimCommit(v, b)
      PROVE  RequestsInv'
  <2>. DEFINE r == [NoRequest EXCEPT !.at = "checkout", !.mine = b, !.first = TRUE]
  <2>1. Leave(v) \/ Serve(v, r) BY <1>9 DEF ClaimCommit
  <2>2. r.mine = b /\ r.at = "checkout" BY DEF NoRequest
  <2>3. CASE Leave(v) BY <2>3 DEF Leave, Serve, NoRequest
  <2>4. CASE Serve(v, r)
    <3>. HIDE DEF r
    <3>. QED BY <2>2, <2>4 DEF Serve
  <2>. QED BY <2>1, <2>3, <2>4
<1>10. ASSUME NEW v \in Visitors, NEW b \in Bookings, PayAgain(v, b)
      PROVE  RequestsInv' BY <1>10 DEF PayAgain, Serve, NoRequest
<1>11. ASSUME NEW v \in Visitors, NEW s \in Sessions, CheckoutCreate(v, s)
      PROVE  RequestsInv' BY <1>11 DEF CheckoutCreate, Serve, NoRequest
<1>12. ASSUME NEW b \in Bookings, Cancel(b)
      PROVE  RequestsInv' BY <1>12 DEF Cancel
<1>13. ASSUME NEW b \in Bookings, AdminRelease(b)
      PROVE  RequestsInv' BY <1>13 DEF AdminRelease, Released
<1>14. ASSUME NEW b \in Bookings, HoldAges(b)
      PROVE  RequestsInv' BY <1>14 DEF HoldAges
<1>15. CASE Sweep BY <1>15 DEF Sweep, Abandoned
<1>16. ASSUME NEW s \in Sessions, CardPays(s)
      PROVE  RequestsInv' BY <1>16 DEF CardPays
<1>17. ASSUME NEW s \in Sessions, SessionExpires(s)
      PROVE  RequestsInv' BY <1>17 DEF SessionExpires
<1>18. ASSUME NEW h \in Hooks, NEW s \in events, HookAnswer(h, s)
      PROVE  RequestsInv' BY <1>18 DEF HookAnswer, Ack
<1>19. ASSUME NEW h \in Hooks, NEW s \in events, HookAccept(h, s)
      PROVE  RequestsInv' BY <1>19 DEF HookAccept
<1>20. ASSUME NEW h \in Hooks, HookApply(h)
      PROVE  RequestsInv' BY <1>20 DEF HookApply, Ack, StillHeld
<1>21. ASSUME NEW h \in Hooks, HookDrop(h)
      PROVE  RequestsInv' BY <1>21 DEF HookDrop
<1>22. CASE UNCHANGED vars BY <1>22 DEF vars
<1>. QED BY <1>1, <1>2, <1>3, <1>4, <1>5, <1>6, <1>7, <1>8, <1>9, <1>10,
     <1>11, <1>12, <1>13, <1>14, <1>15, <1>16, <1>17, <1>18, <1>19,
     <1>20, <1>21, <1>22 DEF Next, Visit

\* Sessions keep their booking; only a completed one has an event.
LEMMA StripeStep ==
  TypeOK /\ RequestsInv /\ StripeInv /\ [Next]_vars => StripeInv'
<1>. SUFFICES ASSUME TypeOK, RequestsInv, StripeInv, [Next]_vars
              PROVE  StripeInv'
  OBVIOUS
<1>. USE NoneAssumption DEF TypeOK, RequestsInv, StripeInv, table, money, stripe
<1>1. ASSUME NEW v \in Visitors, ClaimBegin(v)
      PROVE  StripeInv' BY <1>1 DEF ClaimBegin, Serve, NoRequest
<1>2. ASSUME NEW v \in Visitors, ClaimRefused(v)
      PROVE  StripeInv' BY <1>2 DEF ClaimRefused, Leave, NoRequest, Serve
<1>3. ASSUME NEW v \in Visitors, CheckoutRead(v)
      PROVE  StripeInv' BY <1>3 DEF CheckoutRead, Leave, NoRequest, Serve
<1>4. ASSUME NEW v \in Visitors, CheckoutRetrieve(v)
      PROVE  StripeInv' BY <1>4 DEF CheckoutRetrieve, Leave, NoRequest, Serve
<1>5. ASSUME NEW v \in Visitors, CheckoutBind(v)
      PROVE  StripeInv' BY <1>5 DEF CheckoutBind, Leave, NoRequest, Serve
<1>6. ASSUME NEW v \in Visitors, CheckoutFails(v)
      PROVE  StripeInv' BY <1>6 DEF CheckoutFails, Leave, NoRequest, Serve, Released
<1>7. ASSUME NEW v \in Visitors, VisitorDrop(v)
      PROVE  StripeInv' BY <1>7 DEF VisitorDrop, Leave, NoRequest, Serve
<1>8. ASSUME NEW v \in Visitors, NEW b \in Bookings, RescheduleBegin(v, b)
      PROVE  StripeInv' BY <1>8 DEF RescheduleBegin, Serve, NoRequest
<1>9. ASSUME NEW v \in Visitors, NEW b \in Bookings, ClaimCommit(v, b)
      PROVE  StripeInv' BY <1>9 DEF ClaimCommit, Leave, NoRequest, Serve, FirstStatus
<1>10. ASSUME NEW v \in Visitors, NEW b \in Bookings, PayAgain(v, b)
      PROVE  StripeInv' BY <1>10 DEF PayAgain, Serve, NoRequest
<1>11. ASSUME NEW v \in Visitors, NEW s \in Sessions, CheckoutCreate(v, s)
      PROVE  StripeInv' BY <1>11 DEF CheckoutCreate, Serve, NoRequest
<1>12. ASSUME NEW b \in Bookings, Cancel(b)
      PROVE  StripeInv' BY <1>12 DEF Cancel
<1>13. ASSUME NEW b \in Bookings, AdminRelease(b)
      PROVE  StripeInv' BY <1>13 DEF AdminRelease, Released
<1>14. ASSUME NEW b \in Bookings, HoldAges(b)
      PROVE  StripeInv' BY <1>14 DEF HoldAges
<1>15. CASE Sweep BY <1>15 DEF Sweep, Abandoned
<1>16. ASSUME NEW s \in Sessions, CardPays(s)
      PROVE  StripeInv' BY <1>16 DEF CardPays
<1>17. ASSUME NEW s \in Sessions, SessionExpires(s)
      PROVE  StripeInv' BY <1>17 DEF SessionExpires
<1>18. ASSUME NEW h \in Hooks, NEW s \in events, HookAnswer(h, s)
      PROVE  StripeInv' BY <1>18 DEF HookAnswer, Ack
<1>19. ASSUME NEW h \in Hooks, NEW s \in events, HookAccept(h, s)
      PROVE  StripeInv' BY <1>19 DEF HookAccept
<1>20. ASSUME NEW h \in Hooks, HookApply(h)
      PROVE  StripeInv' BY <1>20 DEF HookApply, Ack, StillHeld
<1>21. ASSUME NEW h \in Hooks, HookDrop(h)
      PROVE  StripeInv' BY <1>21 DEF HookDrop
<1>22. CASE UNCHANGED vars BY <1>22 DEF vars
<1>. QED BY <1>1, <1>2, <1>3, <1>4, <1>5, <1>6, <1>7, <1>8, <1>9, <1>10,
     <1>11, <1>12, <1>13, <1>14, <1>15, <1>16, <1>17, <1>18, <1>19,
     <1>20, <1>21, <1>22 DEF Next, Visit

\* A claim takes only a slot no occupier clashes with; a hold the webhook confirms in its
\* window occupied its slot already.
LEMMA ClashStep ==
  TypeOK /\ RequestsInv /\ StripeInv /\ RowsInv /\ ClashOnlyIfLate /\ [Next]_vars => ClashOnlyIfLate'
<1>. SUFFICES ASSUME TypeOK, RequestsInv, StripeInv, RowsInv, ClashOnlyIfLate, [Next]_vars
              PROVE  ClashOnlyIfLate'
  OBVIOUS
<1>. USE NoneAssumption DEF TypeOK, RequestsInv, StripeInv, RowsInv, ClashOnlyIfLate, table, money, stripe, Occupies
<1>1. ASSUME NEW v \in Visitors, ClaimBegin(v)
      PROVE  ClashOnlyIfLate' BY <1>1 DEF ClaimBegin, Serve, NoRequest
<1>2. ASSUME NEW v \in Visitors, ClaimRefused(v)
      PROVE  ClashOnlyIfLate' BY <1>2 DEF ClaimRefused, Leave, NoRequest, Serve
<1>3. ASSUME NEW v \in Visitors, CheckoutRead(v)
      PROVE  ClashOnlyIfLate' BY <1>3 DEF CheckoutRead, Leave, NoRequest, Serve
<1>4. ASSUME NEW v \in Visitors, CheckoutRetrieve(v)
      PROVE  ClashOnlyIfLate' BY <1>4 DEF CheckoutRetrieve, Leave, NoRequest, Serve
<1>5. ASSUME NEW v \in Visitors, CheckoutBind(v)
      PROVE  ClashOnlyIfLate' BY <1>5 DEF CheckoutBind, Leave, NoRequest, Serve
<1>6. ASSUME NEW v \in Visitors, CheckoutFails(v)
      PROVE  ClashOnlyIfLate' BY <1>6 DEF CheckoutFails, Leave, NoRequest, Serve, Released
<1>7. ASSUME NEW v \in Visitors, VisitorDrop(v)
      PROVE  ClashOnlyIfLate' BY <1>7 DEF VisitorDrop, Leave, NoRequest, Serve
<1>8. ASSUME NEW v \in Visitors, NEW b \in Bookings, RescheduleBegin(v, b)
      PROVE  ClashOnlyIfLate' BY <1>8 DEF RescheduleBegin, Serve, NoRequest
<1>9. ASSUME NEW v \in Visitors, NEW b \in Bookings, ClaimCommit(v, b)
      PROVE  ClashOnlyIfLate'
  <2>. DEFINE o == req[v].orig
              t == req[v].want
  <2>1. /\ status[b] = "absent" /\ t \in Slots /\ o \in Bookings \cup {None}
        /\ o # None => o \in Bookings /\ status[o] = "confirmed"
        /\ \A x \in Others(o) : <<slot[x], t>> \notin Clash
    BY <1>9 DEF ClaimCommit, Open, Movable, SoleConfirmed, Requests
  <2>2. /\ slot' = [slot EXCEPT ![b] = t]
        /\ status' = [x \in Bookings |-> IF x = b THEN FirstStatus(o)
                                        ELSE IF x = o THEN "cancelled" ELSE status[x]]
        /\ UNCHANGED <<hold, late>> BY <1>9 DEF ClaimCommit
  <2>3. ASSUME NEW x \in Bookings, x # b, Occupies(x)'
        PROVE  Occupies(x) /\ x \in Others(o) /\ slot'[x] = slot[x] BY <2>1, <2>2, <2>3 DEF Others
  <2>4. ASSUME NEW x \in Bookings, x # b, Occupies(x)'
        PROVE  <<slot'[x], slot'[b]>> \notin Clash /\ <<slot'[b], slot'[x]>> \notin Clash
    <3>1. slot[x] \in Slots BY <2>3, <2>4
    <3>. QED BY <2>1, <2>2, <2>3, <2>4, <3>1, SlotsAssumption
  <2>5. ASSUME NEW x \in Bookings, NEW y \in Bookings, x # y, Occupies(x)', Occupies(y)',
               <<slot'[x], slot'[y]>> \in Clash
        PROVE  x \in late' \/ y \in late'
    <3>1. x # b /\ y # b BY <2>4, <2>5
    <3>. QED BY <2>2, <2>3, <2>5, <3>1
  <2>. QED BY <2>5
<1>10. ASSUME NEW v \in Visitors, NEW b \in Bookings, PayAgain(v, b)
      PROVE  ClashOnlyIfLate' BY <1>10 DEF PayAgain, Serve, NoRequest
<1>11. ASSUME NEW v \in Visitors, NEW s \in Sessions, CheckoutCreate(v, s)
      PROVE  ClashOnlyIfLate' BY <1>11 DEF CheckoutCreate, Serve, NoRequest
<1>12. ASSUME NEW b \in Bookings, Cancel(b)
      PROVE  ClashOnlyIfLate' BY <1>12 DEF Cancel, SoleConfirmed
<1>13. ASSUME NEW b \in Bookings, AdminRelease(b)
      PROVE  ClashOnlyIfLate' BY <1>13 DEF AdminRelease, Released
<1>14. ASSUME NEW b \in Bookings, HoldAges(b)
      PROVE  ClashOnlyIfLate' BY <1>14 DEF HoldAges
<1>15. CASE Sweep BY <1>15 DEF Sweep, Abandoned
<1>16. ASSUME NEW s \in Sessions, CardPays(s)
      PROVE  ClashOnlyIfLate' BY <1>16 DEF CardPays
<1>17. ASSUME NEW s \in Sessions, SessionExpires(s)
      PROVE  ClashOnlyIfLate' BY <1>17 DEF SessionExpires
<1>18. ASSUME NEW h \in Hooks, NEW s \in events, HookAnswer(h, s)
      PROVE  ClashOnlyIfLate' BY <1>18 DEF HookAnswer, Ack
<1>19. ASSUME NEW h \in Hooks, NEW s \in events, HookAccept(h, s)
      PROVE  ClashOnlyIfLate' BY <1>19 DEF HookAccept
<1>20. ASSUME NEW h \in Hooks, HookApply(h)
      PROVE  ClashOnlyIfLate'
  <2>. DEFINE c == owner[hook[h]]
  <2>1. /\ UNCHANGED <<slot, hold>>
        /\ \/ UNCHANGED <<status, late>>
           \/ /\ status[c] = "pending"
              /\ status' = [status EXCEPT ![c] = "confirmed"]
              /\ late' = IF hold[c] = "stale" THEN late \cup {c} ELSE late BY <1>20 DEF HookApply, StillHeld
  <2>2. c \in Bookings BY <1>20 DEF HookApply
  <2>3. late \subseteq late' BY <2>1
  <2>4. ASSUME NEW x \in Bookings, Occupies(x)'
        PROVE  Occupies(x) \/ x \in late' BY <2>1, <2>2, <2>4
  <2>5. ASSUME NEW x \in Bookings, NEW y \in Bookings, x # y, Occupies(x)', Occupies(y)',
               <<slot'[x], slot'[y]>> \in Clash
        PROVE  x \in late' \/ y \in late' BY <2>1, <2>3, <2>4, <2>5
  <2>. QED BY <2>5
<1>21. ASSUME NEW h \in Hooks, HookDrop(h)
      PROVE  ClashOnlyIfLate' BY <1>21 DEF HookDrop
<1>22. CASE UNCHANGED vars BY <1>22 DEF vars
<1>. QED BY <1>1, <1>2, <1>3, <1>4, <1>5, <1>6, <1>7, <1>8, <1>9, <1>10,
     <1>11, <1>12, <1>13, <1>14, <1>15, <1>16, <1>17, <1>18, <1>19,
     <1>20, <1>21, <1>22 DEF Next, Visit

\* Facts about families.  A set that holds every row or none of each pair of
\* relatives contains the families of its members.
LEMMA FamilyWithin ==
  ASSUME NEW b \in Bookings, NEW F \in SUBSET Bookings, b \in F, Linked(F)
  PROVE  Family(b) \subseteq F
BY DEF Family

\* A row without relatives is its own family and in nobody else's.
LEMMA LoneFamily ==
  ASSUME NEW b \in Bookings, parent[b] = None, \A c \in Bookings : parent[c] # b
  PROVE  \A c \in Bookings : Family(c) \cap {b} # {} => c = b
<1>1. Linked(Bookings \ {b}) BY NoneAssumption DEF Linked
<1>2. ASSUME NEW c \in Bookings, c # b
      PROVE  Family(c) \subseteq Bookings \ {b} BY <1>1, <1>2, FamilyWithin
<1>. QED BY <1>2

LEMMA LoneMembers ==
  ASSUME NEW b \in Bookings, parent[b] = None, \A c \in Bookings : parent[c] # b
  PROVE  Family(b) \subseteq {b}
<1>1. Linked({b}) BY NoneAssumption DEF Linked
<1>. QED BY <1>1, FamilyWithin

\* Families depend on nothing but the parents.
LEMMA FamilyUnchanged ==
  ASSUME parent' = parent
  PROVE  \A b \in Bookings : Family(b)' = Family(b)
BY DEF Family, Linked

\* When a lone row n becomes a child of o, every family keeps to the old one,
\* and n joins only the family of o.
LEMMA FamilyJoins ==
  ASSUME TypeOK, NEW n \in Bookings, NEW o \in Bookings, n # o,
         parent[n] = None, \A c \in Bookings : parent[c] # n,
         parent' = [parent EXCEPT ![n] = o]
  PROVE  \A b \in Bookings \ {n} :
           /\ Family(b)' \subseteq Family(b) \cup {n}
           /\ o \notin Family(b) => n \notin Family(b)'
           /\ Family(n)' \subseteq Family(o) \cup {n}
<1>. DEFINE Lift(F) == IF o \in F THEN F \cup {n} ELSE F \ {n}
<1>1. ASSUME NEW F \in SUBSET Bookings, Linked(F)
      PROVE  Linked(Lift(F))' /\ Lift(F) \in SUBSET Bookings
  <2>1. ASSUME NEW c \in Bookings, NEW d \in Bookings, parent'[c] = d
        PROVE  c \in Lift(F) <=> d \in Lift(F)
    <3>1. CASE c = n BY <2>1, <3>1 DEF TypeOK
    <3>2. CASE c # n
      <4>1. parent[c] = d /\ d # n BY <2>1, <3>2 DEF TypeOK
      <4>. QED BY <1>1, <3>2, <4>1 DEF Linked
    <3>. QED BY <3>1, <3>2
  <2>. QED BY <2>1 DEF Linked
<1>2. ASSUME NEW b \in Bookings, NEW F \in SUBSET Bookings, b \in Lift(F), Linked(F)
      PROVE  Family(b)' \subseteq Lift(F)
  <2>. HIDE DEF Lift
  <2>. QED BY <1>1, <1>2 DEF Family
<1>3. ASSUME NEW b \in Bookings, b # n, NEW c \in Family(b)', c # n
      PROVE  c \in Family(b)
  <2>1. c \in Bookings BY <1>3 DEF Family
  <2>2. ASSUME NEW F \in SUBSET Bookings, b \in F, Linked(F)
        PROVE  c \in F BY <1>2, <1>3, <2>2
  <2>. QED BY <2>1, <2>2 DEF Family
<1>4. ASSUME NEW b \in Bookings, b # n, o \notin Family(b)
      PROVE  n \notin Family(b)'
  <2>1. PICK F \in SUBSET Bookings : b \in F /\ Linked(F) /\ o \notin F BY <1>4 DEF Family
  <2>. QED BY <1>2, <1>4, <2>1
<1>5. ASSUME NEW c \in Family(n)', c # n
      PROVE  c \in Family(o)
  <2>1. c \in Bookings BY <1>5 DEF Family
  <2>2. ASSUME NEW F \in SUBSET Bookings, o \in F, Linked(F)
        PROVE  c \in F BY <1>2, <1>5, <2>2
  <2>. QED BY <2>1, <2>2 DEF Family
<1>. QED BY <1>3, <1>4, <1>5

\* A step that leaves the parents alone and confirms nothing keeps one live member.
LEMMA FamilyKept ==
  ASSUME OneConfirmedPerFamily, parent' = parent,
         \A x \in Bookings : status'[x] = "confirmed" => status[x] = "confirmed"
  PROVE  OneConfirmedPerFamily'
<1>1. \A x \in Bookings : Family(x)' = Family(x) /\ Family(x) \subseteq Bookings BY FamilyUnchanged DEF Family
<1>. QED BY <1>1 DEF OneConfirmedPerFamily, SoleConfirmed

\* A reschedule moves a family's only confirmed member; a paid hold has no family yet.
LEMMA FamilyStep ==
  TypeOK /\ RequestsInv /\ StripeInv /\ RowsInv /\ OneConfirmedPerFamily /\ [Next]_vars => OneConfirmedPerFamily'
<1>. SUFFICES ASSUME TypeOK, RequestsInv, StripeInv, RowsInv, OneConfirmedPerFamily, [Next]_vars
              PROVE  OneConfirmedPerFamily'
  OBVIOUS
<1>. USE NoneAssumption DEF TypeOK, RequestsInv, StripeInv, RowsInv, OneConfirmedPerFamily, table, money, stripe, SoleConfirmed
<1>1. ASSUME NEW v \in Visitors, ClaimBegin(v)
      PROVE  OneConfirmedPerFamily'
  <2>1. parent' = parent /\ \A x \in Bookings : status'[x] = "confirmed" => status[x] = "confirmed"
    BY <1>1 DEF ClaimBegin
  <2>. QED BY <2>1, FamilyKept
<1>2. ASSUME NEW v \in Visitors, ClaimRefused(v)
      PROVE  OneConfirmedPerFamily'
  <2>1. parent' = parent /\ \A x \in Bookings : status'[x] = "confirmed" => status[x] = "confirmed"
    BY <1>2 DEF ClaimRefused
  <2>. QED BY <2>1, FamilyKept
<1>3. ASSUME NEW v \in Visitors, CheckoutRead(v)
      PROVE  OneConfirmedPerFamily'
  <2>1. parent' = parent /\ \A x \in Bookings : status'[x] = "confirmed" => status[x] = "confirmed"
    BY <1>3 DEF CheckoutRead
  <2>. QED BY <2>1, FamilyKept
<1>4. ASSUME NEW v \in Visitors, CheckoutRetrieve(v)
      PROVE  OneConfirmedPerFamily'
  <2>1. parent' = parent /\ \A x \in Bookings : status'[x] = "confirmed" => status[x] = "confirmed"
    BY <1>4 DEF CheckoutRetrieve
  <2>. QED BY <2>1, FamilyKept
<1>5. ASSUME NEW v \in Visitors, CheckoutBind(v)
      PROVE  OneConfirmedPerFamily'
  <2>1. parent' = parent /\ \A x \in Bookings : status'[x] = "confirmed" => status[x] = "confirmed"
    BY <1>5 DEF CheckoutBind
  <2>. QED BY <2>1, FamilyKept
<1>6. ASSUME NEW v \in Visitors, CheckoutFails(v)
      PROVE  OneConfirmedPerFamily'
  <2>1. parent' = parent /\ \A x \in Bookings : status'[x] = "confirmed" => status[x] = "confirmed"
    BY <1>6 DEF CheckoutFails, Released
  <2>. QED BY <2>1, FamilyKept
<1>7. ASSUME NEW v \in Visitors, VisitorDrop(v)
      PROVE  OneConfirmedPerFamily'
  <2>1. parent' = parent /\ \A x \in Bookings : status'[x] = "confirmed" => status[x] = "confirmed"
    BY <1>7 DEF VisitorDrop
  <2>. QED BY <2>1, FamilyKept
<1>8. ASSUME NEW v \in Visitors, NEW b \in Bookings, RescheduleBegin(v, b)
      PROVE  OneConfirmedPerFamily'
  <2>1. parent' = parent /\ \A x \in Bookings : status'[x] = "confirmed" => status[x] = "confirmed"
    BY <1>8 DEF RescheduleBegin
  <2>. QED BY <2>1, FamilyKept
<1>9. ASSUME NEW v \in Visitors, NEW b \in Bookings, ClaimCommit(v, b)
      PROVE  OneConfirmedPerFamily'
  <2>. DEFINE o == req[v].orig
  <2>1. /\ status[b] = "absent" /\ o \in Bookings \cup {None}
        /\ o # None => SoleConfirmed(o)
        /\ status' = [x \in Bookings |-> IF x = b THEN FirstStatus(o)
                                        ELSE IF x = o THEN "cancelled" ELSE status[x]]
        /\ parent' = [parent EXCEPT ![b] = o] BY <1>9 DEF ClaimCommit, Movable, Requests
  <2>2. parent[b] = None /\ \A x \in Bookings : parent[x] # b BY <2>1 DEF RowsInv
  <2>3. Family(b) \subseteq {b} /\ \A x \in Bookings : x # b => b \notin Family(x) BY <2>2, LoneFamily, LoneMembers
  <2>4. \A x \in Bookings : Family(x) \subseteq Bookings /\ Family(x)' \subseteq Bookings BY DEF Family
  <2>5. CASE o = None
    <3>1. parent' = parent BY <2>1, <2>2, <2>5
    <3>2. \A x \in Bookings : Family(x)' = Family(x) BY <3>1, FamilyUnchanged
    <3>3. \A x \in Bookings : x # b => status'[x] = status[x] BY <2>1, <2>5, NoneAssumption
    <3>. QED BY <2>3, <2>4, <3>2, <3>3
  <2>6. CASE o # None
    <3>1. o \in Bookings /\ o # b /\ status[o] = "confirmed" BY <2>1, <2>6
    <3>2. \A x \in Bookings \ {b} :
            /\ Family(x)' \subseteq Family(x) \cup {b}
            /\ o \notin Family(x) => b \notin Family(x)'
            /\ Family(b)' \subseteq Family(o) \cup {b}
      <4>1. TypeOK /\ parent' = [parent EXCEPT ![b] = o] BY <2>1
      <4>. HIDE DEF TypeOK, RowsInv, RequestsInv, StripeInv, OneConfirmedPerFamily
      <4>. QED BY <2>2, <3>1, <4>1, FamilyJoins
    <3>3. ASSUME NEW x \in Bookings, status'[x] = "confirmed", NEW c \in Family(x)',
                 status'[c] = "confirmed"
          PROVE  c = x
      <4>1. c \in Bookings /\ x # o /\ c # o BY <2>1, <2>4, <3>1, <3>3
      <4>2. CASE x = b
        <5>1. c # b => c \in Family(o) /\ status[c] = "confirmed" BY <2>1, <3>1, <3>2, <3>3, <4>1, <4>2
        <5>. QED BY <2>1, <2>6, <4>1, <4>2, <5>1
      <4>3. CASE x # b
        <5>1. status[x] = "confirmed" /\ SoleConfirmed(x) BY <2>1, <3>3, <4>1, <4>3
        <5>2. o \notin Family(x) BY <3>1, <4>1, <5>1
        <5>3. c # b /\ c \in Family(x) BY <3>2, <3>3, <4>3, <5>2
        <5>4. status[c] = "confirmed" BY <2>1, <3>3, <4>1, <5>3
        <5>. QED BY <5>1, <5>3, <5>4
      <4>. QED BY <4>2, <4>3
    <3>. QED BY <3>3
  <2>. QED BY <2>5, <2>6
<1>10. ASSUME NEW v \in Visitors, NEW b \in Bookings, PayAgain(v, b)
      PROVE  OneConfirmedPerFamily'
  <2>1. parent' = parent /\ \A x \in Bookings : status'[x] = "confirmed" => status[x] = "confirmed"
    BY <1>10 DEF PayAgain
  <2>. QED BY <2>1, FamilyKept
<1>11. ASSUME NEW v \in Visitors, NEW s \in Sessions, CheckoutCreate(v, s)
      PROVE  OneConfirmedPerFamily'
  <2>1. parent' = parent /\ \A x \in Bookings : status'[x] = "confirmed" => status[x] = "confirmed"
    BY <1>11 DEF CheckoutCreate
  <2>. QED BY <2>1, FamilyKept
<1>12. ASSUME NEW b \in Bookings, Cancel(b)
      PROVE  OneConfirmedPerFamily'
  <2>1. parent' = parent /\ status' = [status EXCEPT ![b] = "cancelled"] BY <1>12 DEF Cancel
  <2>2. \A x \in Bookings : status'[x] = "confirmed" => status[x] = "confirmed" BY <2>1
  <2>. QED BY <2>1, <2>2, FamilyKept
<1>13. ASSUME NEW b \in Bookings, AdminRelease(b)
      PROVE  OneConfirmedPerFamily'
  <2>1. parent' = parent /\ \A x \in Bookings : status'[x] = "confirmed" => status[x] = "confirmed"
    BY <1>13 DEF AdminRelease, Released
  <2>. QED BY <2>1, FamilyKept
<1>14. ASSUME NEW b \in Bookings, HoldAges(b)
      PROVE  OneConfirmedPerFamily'
  <2>1. parent' = parent /\ \A x \in Bookings : status'[x] = "confirmed" => status[x] = "confirmed"
    BY <1>14 DEF HoldAges
  <2>. QED BY <2>1, FamilyKept
<1>15. CASE Sweep
  <2>1. parent' = parent /\ \A x \in Bookings : status'[x] = "confirmed" => status[x] = "confirmed"
    BY <1>15 DEF Sweep, Abandoned
  <2>. QED BY <2>1, FamilyKept
<1>16. ASSUME NEW s \in Sessions, CardPays(s)
      PROVE  OneConfirmedPerFamily'
  <2>1. parent' = parent /\ \A x \in Bookings : status'[x] = "confirmed" => status[x] = "confirmed"
    BY <1>16 DEF CardPays
  <2>. QED BY <2>1, FamilyKept
<1>17. ASSUME NEW s \in Sessions, SessionExpires(s)
      PROVE  OneConfirmedPerFamily'
  <2>1. parent' = parent /\ \A x \in Bookings : status'[x] = "confirmed" => status[x] = "confirmed"
    BY <1>17 DEF SessionExpires
  <2>. QED BY <2>1, FamilyKept
<1>18. ASSUME NEW h \in Hooks, NEW s \in events, HookAnswer(h, s)
      PROVE  OneConfirmedPerFamily'
  <2>1. parent' = parent /\ \A x \in Bookings : status'[x] = "confirmed" => status[x] = "confirmed"
    BY <1>18 DEF HookAnswer
  <2>. QED BY <2>1, FamilyKept
<1>19. ASSUME NEW h \in Hooks, NEW s \in events, HookAccept(h, s)
      PROVE  OneConfirmedPerFamily'
  <2>1. parent' = parent /\ \A x \in Bookings : status'[x] = "confirmed" => status[x] = "confirmed"
    BY <1>19 DEF HookAccept
  <2>. QED BY <2>1, FamilyKept
<1>20. ASSUME NEW h \in Hooks, HookApply(h)
      PROVE  OneConfirmedPerFamily'
  <2>. DEFINE c == owner[hook[h]]
  <2>1. parent' = parent /\ c \in Bookings BY <1>20 DEF HookApply
  <2>2. CASE status' = status BY <2>1, <2>2, FamilyKept
  <2>3. CASE status[c] = "pending" /\ status' = [status EXCEPT ![c] = "confirmed"]
    <3>1. parent[c] = None /\ \A x \in Bookings : parent[x] # c BY <2>1, <2>3 DEF RowsInv
    <3>2. Family(c) \subseteq {c} /\ \A x \in Bookings : x # c => c \notin Family(x)
      BY <2>1, <3>1, LoneFamily, LoneMembers
    <3>3. \A x \in Bookings : Family(x)' = Family(x) BY <2>1, FamilyUnchanged
    <3>4. \A x \in Bookings : Family(x) \subseteq Bookings BY DEF Family
    <3>. QED BY <2>1, <2>3, <3>2, <3>3, <3>4
  <2>. QED BY <1>20, <2>2, <2>3 DEF HookApply, StillHeld
<1>21. ASSUME NEW h \in Hooks, HookDrop(h)
      PROVE  OneConfirmedPerFamily'
  <2>1. parent' = parent /\ \A x \in Bookings : status'[x] = "confirmed" => status[x] = "confirmed"
    BY <1>21 DEF HookDrop
  <2>. QED BY <2>1, FamilyKept
<1>22. CASE UNCHANGED vars BY <1>22, FamilyKept DEF vars
<1>. QED BY <1>1, <1>2, <1>3, <1>4, <1>5, <1>6, <1>7, <1>8, <1>9, <1>10,
     <1>11, <1>12, <1>13, <1>14, <1>15, <1>16, <1>17, <1>18, <1>19,
     <1>20, <1>21, <1>22 DEF Next, Visit

\* Every answer finds the payment recorded, records it or audits it.
LEMMA MoneyStep ==
  TypeOK /\ StripeInv /\ NoMoneyUnaccounted /\ [Next]_vars => NoMoneyUnaccounted'
<1>. SUFFICES ASSUME TypeOK, StripeInv, NoMoneyUnaccounted, [Next]_vars
              PROVE  NoMoneyUnaccounted'
  OBVIOUS
<1>. USE NoneAssumption DEF TypeOK, StripeInv, NoMoneyUnaccounted, table, money, stripe, Recorded
<1>1. ASSUME NEW v \in Visitors, ClaimBegin(v)
      PROVE  NoMoneyUnaccounted' BY <1>1 DEF ClaimBegin, Serve, NoRequest
<1>2. ASSUME NEW v \in Visitors, ClaimRefused(v)
      PROVE  NoMoneyUnaccounted' BY <1>2 DEF ClaimRefused, Leave, NoRequest, Serve
<1>3. ASSUME NEW v \in Visitors, CheckoutRead(v)
      PROVE  NoMoneyUnaccounted' BY <1>3 DEF CheckoutRead, Leave, NoRequest, Serve
<1>4. ASSUME NEW v \in Visitors, CheckoutRetrieve(v)
      PROVE  NoMoneyUnaccounted' BY <1>4 DEF CheckoutRetrieve, Leave, NoRequest, Serve
<1>5. ASSUME NEW v \in Visitors, CheckoutBind(v)
      PROVE  NoMoneyUnaccounted' BY <1>5 DEF CheckoutBind, Leave, NoRequest, Serve
<1>6. ASSUME NEW v \in Visitors, CheckoutFails(v)
      PROVE  NoMoneyUnaccounted' BY <1>6 DEF CheckoutFails, Leave, NoRequest, Serve, Released
<1>7. ASSUME NEW v \in Visitors, VisitorDrop(v)
      PROVE  NoMoneyUnaccounted' BY <1>7 DEF VisitorDrop, Leave, NoRequest, Serve
<1>8. ASSUME NEW v \in Visitors, NEW b \in Bookings, RescheduleBegin(v, b)
      PROVE  NoMoneyUnaccounted' BY <1>8 DEF RescheduleBegin, Serve, NoRequest
<1>9. ASSUME NEW v \in Visitors, NEW b \in Bookings, ClaimCommit(v, b)
      PROVE  NoMoneyUnaccounted' BY <1>9 DEF ClaimCommit, Leave, NoRequest, Serve, FirstStatus
<1>10. ASSUME NEW v \in Visitors, NEW b \in Bookings, PayAgain(v, b)
      PROVE  NoMoneyUnaccounted' BY <1>10 DEF PayAgain, Serve, NoRequest
<1>11. ASSUME NEW v \in Visitors, NEW s \in Sessions, CheckoutCreate(v, s)
      PROVE  NoMoneyUnaccounted' BY <1>11 DEF CheckoutCreate, Serve, NoRequest
<1>12. ASSUME NEW b \in Bookings, Cancel(b)
      PROVE  NoMoneyUnaccounted' BY <1>12 DEF Cancel
<1>13. ASSUME NEW b \in Bookings, AdminRelease(b)
      PROVE  NoMoneyUnaccounted' BY <1>13 DEF AdminRelease, Released
<1>14. ASSUME NEW b \in Bookings, HoldAges(b)
      PROVE  NoMoneyUnaccounted' BY <1>14 DEF HoldAges
<1>15. CASE Sweep BY <1>15 DEF Sweep, Abandoned
<1>16. ASSUME NEW s \in Sessions, CardPays(s)
      PROVE  NoMoneyUnaccounted' BY <1>16 DEF CardPays
<1>17. ASSUME NEW s \in Sessions, SessionExpires(s)
      PROVE  NoMoneyUnaccounted' BY <1>17 DEF SessionExpires
<1>18. ASSUME NEW h \in Hooks, NEW s \in events, HookAnswer(h, s)
      PROVE  NoMoneyUnaccounted' BY <1>18 DEF HookAnswer, Ack
<1>19. ASSUME NEW h \in Hooks, NEW s \in events, HookAccept(h, s)
      PROVE  NoMoneyUnaccounted' BY <1>19 DEF HookAccept
<1>20. ASSUME NEW h \in Hooks, HookApply(h)
      PROVE  NoMoneyUnaccounted'
  <2>. DEFINE s == hook[h]
              b == owner[s]
  <2>1. s \in Sessions /\ acked' = acked \cup {s} BY <1>20 DEF HookApply, Ack
  <2>2. ledger \subseteq ledger' /\ audited \subseteq audited' BY <1>20 DEF HookApply, Ack
  <2>3. CASE ~ Conflicts(s) /\ StillHeld(b)
    <3>1. [booking |-> b, session |-> s] \in ledger' BY <1>20, <2>3 DEF HookApply
    <3>. QED BY <2>1, <2>2, <3>1
  <2>4. CASE ~ (~ Conflicts(s) /\ StillHeld(b))
    <3>1. Recorded(s) \/ s \in audited' BY <1>20, <2>4 DEF HookApply, Ack
    <3>. QED BY <2>1, <2>2, <3>1
  <2>. QED BY <2>3, <2>4
<1>21. ASSUME NEW h \in Hooks, HookDrop(h)
      PROVE  NoMoneyUnaccounted' BY <1>21 DEF HookDrop
<1>22. CASE UNCHANGED vars BY <1>22 DEF vars
<1>. QED BY <1>1, <1>2, <1>3, <1>4, <1>5, <1>6, <1>7, <1>8, <1>9, <1>10,
     <1>11, <1>12, <1>13, <1>14, <1>15, <1>16, <1>17, <1>18, <1>19,
     <1>20, <1>21, <1>22 DEF Next, Visit

\* No action writes another status into a cancelled row.
LEMMA ReleasedStep ==
  TypeOK /\ StripeInv /\ [Next]_vars
  => \A b \in Bookings : status[b] = "cancelled" => status'[b] = "cancelled"
<1>. SUFFICES ASSUME TypeOK, StripeInv, [Next]_vars
              PROVE  \A b \in Bookings : status[b] = "cancelled" => status'[b] = "cancelled"
  OBVIOUS
<1>. USE NoneAssumption DEF TypeOK, table, money, stripe
<1>1. ASSUME NEW v \in Visitors, Visit(v),
             ~ \E b \in Bookings : ClaimCommit(v, b), ~ CheckoutFails(v)
      PROVE  status' = status BY <1>1 DEF Visit, ClaimBegin, ClaimRefused, RescheduleBegin, PayAgain, CheckoutRead,
     CheckoutRetrieve, CheckoutCreate, CheckoutBind, VisitorDrop
<1>2. ASSUME NEW v \in Visitors, NEW n \in Bookings, ClaimCommit(v, n)
      PROVE  \A b \in Bookings : status[b] = "cancelled" => status'[b] = "cancelled" BY <1>2 DEF ClaimCommit
<1>3. ASSUME NEW v \in Visitors, CheckoutFails(v)
      PROVE  \A b \in Bookings : status[b] = "cancelled" => status'[b] = "cancelled"
  BY <1>3 DEF CheckoutFails, Released
<1>4. ASSUME NEW b \in Bookings, Cancel(b)
      PROVE  \A c \in Bookings : status[c] = "cancelled" => status'[c] = "cancelled" BY <1>4 DEF Cancel
<1>5. ASSUME NEW b \in Bookings, AdminRelease(b)
      PROVE  \A c \in Bookings : status[c] = "cancelled" => status'[c] = "cancelled"
  BY <1>5 DEF AdminRelease, Released
<1>6. CASE Sweep BY <1>6 DEF Sweep, Abandoned
<1>7. ASSUME NEW h \in Hooks, HookApply(h)
      PROVE  \A b \in Bookings : status[b] = "cancelled" => status'[b] = "cancelled" BY <1>7 DEF HookApply, StillHeld
<1>8. CASE \/ \E b \in Bookings : HoldAges(b)
           \/ \E s \in Sessions : CardPays(s) \/ SessionExpires(s)
           \/ \E h \in Hooks : HookDrop(h) \/ \E s \in events : HookAnswer(h, s) \/ HookAccept(h, s)
  BY <1>8 DEF HoldAges, CardPays, SessionExpires, HookAnswer, HookAccept, HookDrop
<1>9. CASE UNCHANGED vars BY <1>9 DEF vars
<1>. QED BY <1>1, <1>2, <1>3, <1>4, <1>5, <1>6, <1>7, <1>8, <1>9 DEF Next

LEMMA Initially == Init => IInv /\ NoMoneyUnaccounted
<1>. SUFFICES ASSUME Init
              PROVE  IInv /\ NoMoneyUnaccounted
  OBVIOUS
<1>1. TypeOK
  <2>1. NoRequest \in Requests BY DEF NoRequest, Requests
  <2>. QED BY <2>1 DEF Init, TypeOK
<1>2. RowsInv BY NoneAssumption DEF Init, RowsInv
<1>3. RequestsInv BY DEF Init, RequestsInv, NoRequest
<1>4. StripeInv BY DEF Init, StripeInv
<1>5. ClashOnlyIfLate /\ OneConfirmedPerFamily /\ NoMoneyUnaccounted
  BY DEF Init, ClashOnlyIfLate, Occupies, OneConfirmedPerFamily, NoMoneyUnaccounted
<1>. QED BY <1>1, <1>2, <1>3, <1>4, <1>5 DEF IInv

\* The inductive invariant holds throughout: the state of the rows, the requests and
\* Stripe that the guards under the lock rely on.
THEOREM Inductive == Spec => []IInv
<1>1. IInv /\ [Next]_vars => IInv' BY TypeStep, RowsStep, RequestsStep, StripeStep, ClashStep, FamilyStep DEF IInv
<1>. QED BY <1>1, Initially, PTL DEF Spec

\* Every variable keeps its type.
THEOREM TypeCorrect == Spec => []TypeOK
<1>1. IInv => TypeOK BY DEF IInv
<1>. QED BY <1>1, Inductive, PTL

\* Two occupied slots clash only where the webhook confirmed a hold after its window.
THEOREM Clashes == Spec => []ClashOnlyIfLate
<1>1. IInv => ClashOnlyIfLate BY DEF IInv
<1>. QED BY <1>1, Inductive, PTL

\* A booking and its reschedules never have two confirmed members.
THEOREM OneLiveMember == Spec => []OneConfirmedPerFamily
<1>1. IInv => OneConfirmedPerFamily BY DEF IInv
<1>. QED BY <1>1, Inductive, PTL

\* Event types without a fee are never double-booked.
THEOREM FreeNeverClashes ==
  ASSUME ~ Fee
  PROVE  Spec => []NoDoubleBooking
<1>1. IInv => NoDoubleBooking BY DEF IInv, ClashOnlyIfLate, RowsInv, NoDoubleBooking, Occupies
<1>. QED BY <1>1, Inductive, PTL

\* An answered payment is in booking_payments or in the audit trail.
THEOREM Accounted == Spec => []NoMoneyUnaccounted
<1>1. IInv /\ NoMoneyUnaccounted /\ [Next]_vars => NoMoneyUnaccounted' BY MoneyStep DEF IInv
<1>. QED BY <1>1, Initially, Inductive, PTL DEF Spec

\* A cancelled row stays cancelled through every late webhook, retry and reschedule.
THEOREM NeverRevived == Spec => ReleasedStaysReleased
<1>1. IInv /\ [Next]_vars
      => [\A b \in Bookings : (status[b] = "cancelled") => status'[b] = "cancelled"]_vars BY ReleasedStep DEF IInv
<1>. QED BY <1>1, Inductive, PTL DEF Spec, ReleasedStaysReleased

(* The day's cap *)

Occupied == {b \in Bookings : Occupies(b)}

\* What the cap rests on: the rows that take a place are finitely many, and those
\* that were not confirmed late are within it.
CapInv ==
  /\ IsFiniteSet(Occupied)
  /\ MaxPerDay # 0 => Cardinality(Occupied \ late) <= MaxPerDay

\* A step by which no row comes to take a place, but for a late one.
LEMMA CapKept ==
  ASSUME CapInv, NEW b, Occupied' \subseteq Occupied \cup {b},
         Occupied' \ late' \subseteq Occupied \ late
  PROVE  CapInv'
<1>1. IsFiniteSet(Occupied') BY FS_AddElement, FS_Subset DEF CapInv
<1>2. /\ IsFiniteSet(Occupied \ late) /\ Cardinality(Occupied \ late) \in Nat
      /\ IsFiniteSet(Occupied' \ late') /\ Cardinality(Occupied' \ late') \in Nat
  BY <1>1, FS_Difference, FS_CardinalityType DEF CapInv
<1>3. Cardinality(Occupied' \ late') <= Cardinality(Occupied \ late) BY <1>2, FS_Subset
<1>. QED BY <1>1, <1>2, <1>3, PolicyAssumption DEF CapInv

\* A step that touches neither a status nor a hold, and takes nothing out of late.
LEMMA CapFrame ==
  ASSUME CapInv, late' = late, \A x \in Bookings : Occupies(x)' => Occupies(x)
  PROVE  CapInv'
<1>1. Occupied' \subseteq Occupied BY DEF Occupied
<1>. QED BY <1>1, CapKept

\* A claim counts the rows under the lock, without the one it moves.
LEMMA CapClaim ==
  ASSUME TypeOK, CapInv, NEW v \in Visitors, NEW n \in Bookings, ClaimCommit(v, n)
  PROVE  CapInv'
<1>. DEFINE o == req[v].orig
<1>1. /\ UnderCap(o) /\ late' = late /\ hold' = hold /\ status[n] = "absent"
      /\ status' = [x \in Bookings |-> IF x = n THEN FirstStatus(o)
                                      ELSE IF x = o THEN "cancelled" ELSE status[x]] BY DEF ClaimCommit, Open
<1>2. Others(o) \subseteq Occupied /\ Occupied' \subseteq Others(o) \cup {n} BY <1>1 DEF Others, Occupied, Occupies
<1>3. IsFiniteSet(Others(o)) /\ Cardinality(Others(o)) \in Nat BY <1>2, FS_Subset, FS_CardinalityType DEF CapInv
<1>4. /\ IsFiniteSet(Others(o) \cup {n})
      /\ Cardinality(Others(o) \cup {n}) \in Nat
      /\ Cardinality(Others(o) \cup {n}) <= Cardinality(Others(o)) + 1
  <2>1. /\ IsFiniteSet(Others(o) \cup {n})
        /\ Cardinality(Others(o) \cup {n}) =
             IF n \in Others(o) THEN Cardinality(Others(o)) ELSE Cardinality(Others(o)) + 1 BY <1>3, FS_AddElement
  <2>. QED BY <1>3, <2>1
<1>5. IsFiniteSet(Occupied') /\ IsFiniteSet(Occupied' \ late') BY <1>2, <1>4, FS_Subset, FS_Difference
<1>6. Cardinality(Occupied' \ late') \in Nat
      /\ Cardinality(Occupied' \ late') <= Cardinality(Others(o) \cup {n})
  BY <1>2, <1>4, <1>5, FS_Subset, FS_CardinalityType
<1>7. MaxPerDay # 0 => Cardinality(Others(o)) < MaxPerDay BY <1>1 DEF UnderCap
<1>. QED BY <1>3, <1>4, <1>5, <1>6, <1>7, PolicyAssumption DEF CapInv

\* The webhook confirms a hold that has its place, or one that is late.
LEMMA CapHook ==
  ASSUME TypeOK, StripeInv, CapInv, NEW h \in Hooks, HookApply(h)
  PROVE  CapInv'
<1>. DEFINE c == owner[hook[h]]
<1>1. CASE status' = status /\ late' = late
  <2>1. hold' = hold BY DEF HookApply
  <2>. QED BY <1>1, <2>1, CapFrame DEF Occupies
<1>2. CASE /\ status[c] = "pending" /\ status' = [status EXCEPT ![c] = "confirmed"]
           /\ late' = IF hold[c] = "stale" THEN late \cup {c} ELSE late
  <2>1. hold' = hold /\ status \in [Bookings -> {"absent", "pending", "confirmed", "cancelled"}]
        /\ hold \in [Bookings -> {"fresh", "stale"}] BY DEF HookApply, TypeOK
  <2>. HIDE DEF c
  <2>2. \A x \in Bookings : Occupies(x)' => Occupies(x) \/ (x = c /\ hold[c] = "stale") BY <1>2, <2>1 DEF Occupies
  <2>3. Occupied' \subseteq Occupied \cup {c} /\ Occupied' \ late' \subseteq Occupied \ late
    BY <1>2, <2>2 DEF Occupied
  <2>. QED BY <2>3, CapKept
<1>. QED BY <1>1, <1>2 DEF HookApply, StillHeld

LEMMA CapStep == IInv /\ CapInv /\ [Next]_vars => CapInv'
<1>. SUFFICES ASSUME IInv, CapInv, [Next]_vars
              PROVE  CapInv'
  OBVIOUS
<1>. USE DEF table, money, stripe, Occupies
<1>1. ASSUME NEW v \in Visitors, NEW n \in Bookings, ClaimCommit(v, n)
      PROVE  CapInv' BY <1>1, CapClaim DEF IInv
<1>2. ASSUME NEW h \in Hooks, HookApply(h)
      PROVE  CapInv' BY <1>2, CapHook DEF IInv
<1>3. ASSUME NEW v \in Visitors,
             \/ ClaimBegin(v) \/ ClaimRefused(v) \/ CheckoutRead(v) \/ CheckoutRetrieve(v)
             \/ CheckoutBind(v) \/ VisitorDrop(v)
             \/ \E b \in Bookings : RescheduleBegin(v, b) \/ PayAgain(v, b)
             \/ \E s \in Sessions : CheckoutCreate(v, s)
      PROVE  CapInv'
  <2>1. late' = late /\ status' = status /\ hold' = hold
    BY <1>3 DEF ClaimBegin, ClaimRefused, CheckoutRead, CheckoutRetrieve, CheckoutBind,
                VisitorDrop, RescheduleBegin, PayAgain, CheckoutCreate
  <2>. QED BY <2>1, CapFrame
<1>4. ASSUME NEW v \in Visitors, CheckoutFails(v)
      PROVE  CapInv' BY <1>4, CapFrame DEF CheckoutFails, Released, IInv, TypeOK
<1>5. ASSUME NEW b \in Bookings, Cancel(b) \/ AdminRelease(b) \/ HoldAges(b)
      PROVE  CapInv' BY <1>5, CapFrame DEF Cancel, AdminRelease, Released, HoldAges, IInv, TypeOK
<1>6. CASE Sweep BY <1>6, CapFrame DEF Sweep, Abandoned
<1>7. CASE \/ \E s \in Sessions : CardPays(s) \/ SessionExpires(s)
           \/ \E h \in Hooks : HookDrop(h) \/ \E s \in events : HookAnswer(h, s) \/ HookAccept(h, s)
  <2>1. late' = late /\ status' = status /\ hold' = hold
    BY <1>7 DEF CardPays, SessionExpires, HookAnswer, HookAccept, HookDrop
  <2>. QED BY <2>1, CapFrame
<1>8. CASE UNCHANGED vars BY <1>8, CapFrame DEF vars
<1>. QED BY <1>1, <1>2, <1>3, <1>4, <1>5, <1>6, <1>7, <1>8 DEF Next, Visit

\* However many visitors claim at once, a day is overbooked only by holds that the
\* webhook confirmed after their window (app/scheduling.py:371, app/public/pay.py:453).
THEOREM CapHolds == Spec => []CapOnlyExceededIfLate
<1>1. Init => CapInv
  <2>1. Init => Occupied = {} /\ Occupied \ late = {} BY DEF Init, Occupied, Occupies
  <2>. QED BY <2>1, FS_EmptySet, PolicyAssumption DEF CapInv
<1>2. CapInv => CapOnlyExceededIfLate BY DEF CapInv, CapOnlyExceededIfLate, Occupied
<1>. QED BY <1>1, <1>2, CapStep, Inductive, PTL DEF Spec

(* The fee of a family *)

PaymentsOf(b) == {y \in ledger : y.booking \in Family(b)}

\* What the fee rests on: a recorded payment is of a row that was confirmed, and a
\* confirmed row carries the mark of its family's one payment.
PaidInv ==
  Fee => /\ \A y \in ledger : status[y.booking] \in {"confirmed", "cancelled"}
         /\ \A b \in Bookings : status[b] = "confirmed" =>
              paidUp[b] /\ \E y \in ledger : PaymentsOf(b) = {y}

\* A row is in its own family, and a reschedule brings the original's along.
LEMMA FamilyGrows ==
  ASSUME TypeOK, NEW n \in Bookings, NEW o \in Bookings, n # o,
         parent[n] = None, \A c \in Bookings : parent[c] # n,
         parent' = [parent EXCEPT ![n] = o]
  PROVE  /\ Family(o) \subseteq Family(n)'
         /\ \A b \in Bookings : Family(b) \subseteq Family(b)'
<1>1. ASSUME NEW F \in SUBSET Bookings, Linked(F)'
      PROVE  Linked(F) /\ (n \in F => o \in F)
  <2>1. ASSUME NEW c \in Bookings, NEW d \in Bookings, parent[c] = d
        PROVE  c \in F <=> d \in F
    <3>1. parent'[c] = d BY <2>1, NoneAssumption DEF TypeOK
    <3>. QED BY <1>1, <3>1 DEF Linked
  <2>2. parent'[n] = o BY DEF TypeOK
  <2>. QED BY <1>1, <2>1, <2>2 DEF Linked
<1>2. ASSUME NEW b \in Bookings, NEW c \in Family(b)
      PROVE  c \in Family(b)'
  <2>1. c \in Bookings /\ \A F \in SUBSET Bookings : b \in F /\ Linked(F) => c \in F BY <1>2 DEF Family
  <2>2. \A F \in SUBSET Bookings : b \in F /\ Linked(F)' => c \in F BY <1>1, <2>1
  <2>. QED BY <2>1, <2>2 DEF Family
<1>3. ASSUME NEW c \in Family(o)
      PROVE  c \in Family(n)'
  <2>1. c \in Bookings /\ \A F \in SUBSET Bookings : o \in F /\ Linked(F) => c \in F BY <1>3 DEF Family
  <2>2. \A F \in SUBSET Bookings : n \in F /\ Linked(F)' => c \in F BY <1>1, <2>1
  <2>. QED BY <2>1, <2>2 DEF Family
<1>. QED BY <1>2, <1>3

\* A step that records nothing, confirms nothing and forgets no mark.
LEMMA PaidFrame ==
  ASSUME PaidInv, parent' = parent, ledger' = ledger, paidUp' = paidUp,
         ledger \subseteq [booking : Bookings, session : Sessions],
         \A x \in Bookings : /\ status'[x] = "confirmed" => status[x] = "confirmed"
                             /\ status[x] = "confirmed" => status'[x] \in {"confirmed", "cancelled"}
                             /\ status[x] = "cancelled" => status'[x] = "cancelled"
  PROVE  PaidInv'
<1>1. \A b \in Bookings : PaymentsOf(b)' = PaymentsOf(b) BY FamilyUnchanged DEF PaymentsOf
<1>2. \A y \in ledger : y.booking \in Bookings
  OBVIOUS
<1>. QED BY <1>1, <1>2 DEF PaidInv

\* A first claim starts an unpaid family; a reschedule hands the payment on.
LEMMA PaidClaim ==
  ASSUME TypeOK, RowsInv, OneConfirmedPerFamily, PaidInv,
         NEW v \in Visitors, NEW n \in Bookings, ClaimCommit(v, n)
  PROVE  PaidInv'
<1>. SUFFICES ASSUME Fee PROVE PaidInv' BY DEF PaidInv
<1>. DEFINE o == req[v].orig
<1>1. /\ status[n] = "absent" /\ o \in Bookings \cup {None}
      /\ o # None => SoleConfirmed(o)
      /\ status' = [x \in Bookings |-> IF x = n THEN FirstStatus(o)
                                      ELSE IF x = o THEN "cancelled" ELSE status[x]]
      /\ parent' = [parent EXCEPT ![n] = o]
      /\ paidUp' = [paidUp EXCEPT ![n] = o # None /\ paidUp[o]]
      /\ ledger' = ledger BY DEF ClaimCommit, Movable, TypeOK, Requests, money
<1>2. parent[n] = None /\ \A x \in Bookings : parent[x] # n BY <1>1 DEF RowsInv
<1>3. ledger \subseteq [booking : Bookings, session : Sessions] /\ paidUp \in [Bookings -> BOOLEAN]
      /\ parent \in [Bookings -> Bookings \cup {None}] BY DEF TypeOK
<1>4. \A y \in ledger : y.booking \in Bookings \ {n} BY <1>1, <1>3 DEF PaidInv
<1>. HIDE DEF o
<1>5. CASE o = None
  <2>1. parent' = parent BY <1>1, <1>2, <1>3, <1>5
  <2>2. \A x \in Bookings : PaymentsOf(x)' = PaymentsOf(x) BY <1>1, <2>1, FamilyUnchanged DEF PaymentsOf
  <2>3. status'[n] = "pending" /\ \A x \in Bookings \ {n} : status'[x] = status[x] /\ paidUp'[x] = paidUp[x]
    BY <1>1, <1>3, <1>5, NoneAssumption DEF FirstStatus
  <2>. QED BY <1>1, <1>4, <2>2, <2>3 DEF PaidInv
<1>6. CASE o # None
  <2>1. o \in Bookings /\ o # n /\ status[o] = "confirmed" /\ paidUp[o] BY <1>1, <1>6 DEF SoleConfirmed, PaidInv
  <2>2. \A x \in Bookings \ {n} :
          /\ Family(x)' \subseteq Family(x) \cup {n}
          /\ o \notin Family(x) => n \notin Family(x)'
          /\ Family(n)' \subseteq Family(o) \cup {n} BY <1>1, <1>2, <2>1, FamilyJoins
  <2>3. /\ Family(o) \subseteq Family(n)'
        /\ \A x \in Bookings : Family(x) \subseteq Family(x)' BY <1>1, <1>2, <2>1, FamilyGrows
  <2>4. /\ PaymentsOf(n)' = PaymentsOf(o)
        /\ \A x \in Bookings \ {n} : PaymentsOf(x)' = PaymentsOf(x) BY <1>1, <1>4, <2>1, <2>2, <2>3 DEF PaymentsOf
  <2>5. paidUp'[n] /\ \A x \in Bookings \ {n} : paidUp'[x] = paidUp[x] BY <1>1, <1>3, <1>6, <2>1
  <2>6. /\ \A x \in Bookings \ {n} : status'[x] = "confirmed" => status[x] = "confirmed"
        /\ \A x \in Bookings : status[x] \in {"confirmed", "cancelled"} =>
             status'[x] \in {"confirmed", "cancelled"} BY <1>1
  <2>7. \A y \in ledger : status'[y.booking] \in {"confirmed", "cancelled"} BY <1>4, <2>6 DEF PaidInv
  <2>8. ASSUME NEW x \in Bookings, status'[x] = "confirmed"
        PROVE  paidUp'[x] /\ \E y \in ledger : PaymentsOf(x)' = {y}
    <3>1. CASE x = n BY <2>1, <2>4, <2>5, <3>1 DEF PaidInv
    <3>2. CASE x # n BY <2>4, <2>5, <2>6, <2>8, <3>2 DEF PaidInv
    <3>. QED BY <3>1, <3>2
  <2>. QED BY <1>1, <2>7, <2>8 DEF PaidInv
<1>. QED BY <1>5, <1>6

\* The webhook records the first payment of a row that has no family yet.
LEMMA PaidHook ==
  ASSUME TypeOK, RowsInv, StripeInv, PaidInv, NEW h \in Hooks, HookApply(h)
  PROVE  PaidInv'
<1>. SUFFICES ASSUME Fee PROVE PaidInv' BY DEF PaidInv
<1>0. PICK s \in Sessions, c \in Bookings : s = hook[h] /\ c = owner[s] BY DEF HookApply, StripeInv, TypeOK
<1>1. parent' = parent BY DEF HookApply
<1>2. CASE UNCHANGED <<ledger, status, paidUp>> BY <1>1, <1>2, PaidFrame DEF TypeOK
<1>3. CASE /\ ~ Conflicts(s) /\ status[c] = "pending"
           /\ ledger' = ledger \cup {[booking |-> c, session |-> s]}
           /\ status' = [status EXCEPT ![c] = "confirmed"]
           /\ paidUp' = [paidUp EXCEPT ![c] = TRUE]
  <2>1. \A y \in ledger : y.booking # c BY <1>0, <1>3 DEF Conflicts
  <2>2. parent[c] = None /\ \A x \in Bookings : parent[x] # c BY <1>1, <1>3 DEF RowsInv
  <2>3. Family(c) \subseteq {c} /\ \A x \in Bookings : x # c => c \notin Family(x)
    BY <1>1, <2>2, LoneFamily, LoneMembers
  <2>4. c \in Family(c) BY <1>1 DEF Family
  <2>5. \A x \in Bookings : Family(x)' = Family(x) BY <1>1, FamilyUnchanged
  <2>6. status \in [Bookings -> {"absent", "pending", "confirmed", "cancelled"}]
        /\ paidUp \in [Bookings -> BOOLEAN]
        /\ ledger \subseteq [booking : Bookings, session : Sessions] BY DEF TypeOK
  <2>. DEFINE new == [booking |-> c, session |-> s]
  <2>7. new.booking = c
    OBVIOUS
  <2>. HIDE DEF new
  <2>8. ledger' = ledger \cup {new} BY <1>3 DEF new
  <2>9. PaymentsOf(c)' = {new} /\ \A x \in Bookings \ {c} : PaymentsOf(x)' = PaymentsOf(x)
    <3>1. \A x \in Bookings : PaymentsOf(x)' = {y \in ledger \cup {new} : y.booking \in Family(x)}
      BY <2>5, <2>8 DEF PaymentsOf
    <3>2. {y \in ledger \cup {new} : y.booking \in Family(c)} = {new} BY <2>1, <2>3, <2>4, <2>7
    <3>3. ASSUME NEW x \in Bookings \ {c}
          PROVE  {y \in ledger \cup {new} : y.booking \in Family(x)} = PaymentsOf(x) BY <2>3, <2>7 DEF PaymentsOf
    <3>. QED BY <3>1, <3>2, <3>3
  <2>10. status'[c] = "confirmed" /\ paidUp'[c]
         /\ \A x \in Bookings \ {c} : status'[x] = status[x] /\ paidUp'[x] = paidUp[x] BY <1>1, <1>3, <2>6
  <2>11. \A y \in ledger' : status'[y.booking] \in {"confirmed", "cancelled"}
    BY <2>1, <2>6, <2>7, <2>8, <2>10 DEF PaidInv
  <2>12. ASSUME NEW x \in Bookings, status'[x] = "confirmed"
         PROVE  paidUp'[x] /\ \E y \in ledger' : PaymentsOf(x)' = {y}
    <3>1. CASE x = c BY <2>8, <2>9, <2>10, <3>1
    <3>2. CASE x # c
      <4>1. status[x] = "confirmed" /\ paidUp[x] /\ paidUp'[x] /\ PaymentsOf(x)' = PaymentsOf(x)
        BY <2>9, <2>10, <2>12, <3>2 DEF PaidInv
      <4>2. PICK y \in ledger : PaymentsOf(x) = {y} BY <4>1 DEF PaidInv
      <4>. QED BY <2>8, <4>1, <4>2
    <3>. QED BY <3>1, <3>2
  <2>. QED BY <2>11, <2>12 DEF PaidInv
<1>. QED BY <1>0, <1>2, <1>3 DEF HookApply, StillHeld

LEMMA PaidStep == IInv /\ PaidInv /\ [Next]_vars => PaidInv'
<1>. SUFFICES ASSUME IInv, PaidInv, [Next]_vars
              PROVE  PaidInv'
  OBVIOUS
<1>. USE DEF table, money, stripe
<1>1. ASSUME NEW v \in Visitors, NEW n \in Bookings, ClaimCommit(v, n)
      PROVE  PaidInv' BY <1>1, PaidClaim DEF IInv
<1>2. ASSUME NEW h \in Hooks, HookApply(h)
      PROVE  PaidInv' BY <1>2, PaidHook DEF IInv
<1>3. ASSUME NEW v \in Visitors,
             \/ ClaimBegin(v) \/ ClaimRefused(v) \/ CheckoutRead(v) \/ CheckoutRetrieve(v)
             \/ CheckoutBind(v) \/ VisitorDrop(v)
             \/ \E b \in Bookings : RescheduleBegin(v, b) \/ PayAgain(v, b)
             \/ \E s \in Sessions : CheckoutCreate(v, s)
      PROVE  PaidInv'
  <2>1. parent' = parent /\ ledger' = ledger /\ paidUp' = paidUp /\ status' = status
    BY <1>3 DEF ClaimBegin, ClaimRefused, CheckoutRead, CheckoutRetrieve, CheckoutBind,
                VisitorDrop, RescheduleBegin, PayAgain, CheckoutCreate
  <2>. QED BY <2>1, PaidFrame DEF IInv, TypeOK
<1>4. ASSUME NEW v \in Visitors, CheckoutFails(v)
      PROVE  PaidInv' BY <1>4, PaidFrame DEF CheckoutFails, Released, IInv, TypeOK
<1>5. ASSUME NEW b \in Bookings, Cancel(b) \/ AdminRelease(b) \/ HoldAges(b)
      PROVE  PaidInv' BY <1>5, PaidFrame DEF Cancel, SoleConfirmed, AdminRelease, Released, HoldAges, IInv, TypeOK
<1>6. CASE Sweep BY <1>6, PaidFrame DEF Sweep, Abandoned, IInv, TypeOK
<1>7. CASE \/ \E s \in Sessions : CardPays(s) \/ SessionExpires(s)
           \/ \E h \in Hooks : HookDrop(h) \/ \E s \in events : HookAnswer(h, s) \/ HookAccept(h, s)
  <2>1. parent' = parent /\ ledger' = ledger /\ paidUp' = paidUp /\ status' = status
    BY <1>7 DEF CardPays, SessionExpires, HookAnswer, HookAccept, HookDrop
  <2>. QED BY <2>1, PaidFrame DEF IInv, TypeOK
<1>8. CASE UNCHANGED vars BY <1>8, PaidFrame DEF vars, IInv, TypeOK
<1>. QED BY <1>1, <1>2, <1>3, <1>4, <1>5, <1>6, <1>7, <1>8 DEF Next, Visit

\* Nobody holds a fee-bearing slot for nothing or pays for it twice, through every
\* reschedule, late webhook and release (app/scheduling.py:374, app/public/pay.py:453).
THEOREM PaidOnce == Spec => []ConfirmedFamilyPaidOnce
<1>1. Init => PaidInv BY DEF Init, PaidInv
<1>2. PaidInv => ConfirmedFamilyPaidOnce
  <2>. SUFFICES ASSUME PaidInv, Fee, NEW b \in Bookings, status[b] = "confirmed"
                PROVE  paidUp[b] /\ Cardinality({y \in ledger : y.booking \in Family(b)}) = 1
    BY DEF ConfirmedFamilyPaidOnce
  <2>1. paidUp[b] /\ \E y \in ledger : PaymentsOf(b) = {y} BY DEF PaidInv
  <2>. QED BY <2>1, FS_Singleton DEF PaymentsOf
<1>. QED BY <1>1, <1>2, PaidStep, Inductive, PTL DEF Spec

\* Without a fee nothing is ever held, so only claims and cancellations touch a row.
LEMMA FreeStutter ==
  ASSUME ~ Fee, IInv, [Next]_vars,
         ~ \E v \in Visitors, n \in Bookings : ClaimCommit(v, n),
         ~ \E b \in Bookings : Cancel(b)
  PROVE  UNCHANGED <<status, slot>>
<1>. USE DEF table, money, stripe
<1>1. TypeOK /\ StripeInv /\ \A b \in Bookings : status[b] # "pending" BY DEF IInv, RowsInv
<1>2. ASSUME NEW v \in Visitors, Visit(v), ~ CheckoutFails(v)
      PROVE  UNCHANGED <<status, slot>>
  BY <1>2 DEF Visit, ClaimBegin, ClaimRefused, RescheduleBegin, PayAgain, CheckoutRead,
     CheckoutRetrieve, CheckoutCreate, CheckoutBind, VisitorDrop
<1>3. ASSUME NEW v \in Visitors, CheckoutFails(v)
      PROVE  UNCHANGED <<status, slot>>
  <2>1. \A b : Released(b) = status BY <1>1 DEF Released, TypeOK
  <2>. QED BY <1>3, <2>1 DEF CheckoutFails
<1>4. ASSUME NEW b \in Bookings, AdminRelease(b) \/ HoldAges(b)
      PROVE  UNCHANGED <<status, slot>> BY <1>1, <1>4 DEF AdminRelease, HoldAges
<1>5. CASE Sweep BY <1>1, <1>5 DEF Sweep, Abandoned
<1>6. ASSUME NEW h \in Hooks, HookApply(h)
      PROVE  UNCHANGED <<status, slot>>
  <2>1. hook[h] \in events /\ owner[hook[h]] \in Bookings BY <1>1, <1>6 DEF HookApply, StripeInv
  <2>. QED BY <1>1, <1>6, <2>1 DEF HookApply, StillHeld
<1>7. CASE \/ \E s \in Sessions : CardPays(s) \/ SessionExpires(s)
           \/ \E h \in Hooks : HookDrop(h) \/ \E s \in events : HookAnswer(h, s) \/ HookAccept(h, s)
  BY <1>7 DEF CardPays, SessionExpires, HookAnswer, HookAccept, HookDrop
<1>8. CASE UNCHANGED vars BY <1>8 DEF vars
<1>. QED BY <1>2, <1>3, <1>4, <1>5, <1>6, <1>7, <1>8 DEF Next

\* A first claim takes a free slot; a reschedule exchanges one for another.
LEMMA ClaimTakes ==
  ASSUME ~ Fee, IInv, NEW v \in Visitors, NEW n \in Bookings, ClaimCommit(v, n)
  PROVE  Promise!Next
<1>. DEFINE o == req[v].orig
            t == req[v].want
<1>1. /\ status[n] = "absent" /\ t \in Slots /\ o \in Bookings \cup {None}
      /\ o # None => o \in Bookings /\ status[o] = "confirmed" /\ slot[o] \in Slots
      /\ \A b \in Others(o) : <<slot[b], t>> \notin Clash
  BY DEF ClaimCommit, Open, Movable, SoleConfirmed, Requests, IInv, TypeOK, RequestsInv, RowsInv
<1>2. /\ status' = [b \in Bookings |-> IF b = n THEN "confirmed"
                                      ELSE IF b = o THEN "cancelled" ELSE status[b]]
      /\ slot' = [slot EXCEPT ![n] = t] /\ DOMAIN slot = Bookings BY DEF ClaimCommit, FirstStatus, IInv, TypeOK
<1>3. ASSUME NEW b \in Bookings
      PROVE  Held'[b] = IF b = n THEN t ELSE IF b = o THEN None ELSE Held[b] BY <1>1, <1>2 DEF Held
<1>4. ASSUME NEW b \in Promise!Holders, b # o
      PROVE  <<Held[b], t>> \notin Clash
  <2>1. b \in Bookings /\ status[b] = "confirmed" /\ Held[b] = slot[b] BY DEF Promise!Holders, Held
  <2>. QED BY <1>1, <1>4, <2>1 DEF Others, Occupies
<1>5. Held[n] = None /\ DOMAIN Held = Bookings /\ DOMAIN Held' = Bookings BY <1>1 DEF Held
<1>6. CASE o = None
  <2>1. Held' = [Held EXCEPT ![n] = t]
    <3>1. \A b \in Bookings : Held'[b] = IF b = n THEN t ELSE Held[b] BY <1>3, <1>6, NoneAssumption
    <3>. QED BY <1>5, <3>1 DEF Held
  <2>2. Promise!Free(t, {}) BY <1>4, <1>6, NoneAssumption DEF Promise!Free, Promise!Holders
  <2>3. Promise!Take(n, t) BY <1>5, <2>1, <2>2 DEF Promise!Take
  <2>. QED BY <1>1, <2>3 DEF Promise!Next
<1>7. CASE o # None
  <2>1. Held' = [Held EXCEPT ![o] = None, ![n] = t]
    <3>1. \A b \in Bookings : Held'[b] = IF b = n THEN t ELSE IF b = o THEN None ELSE Held[b] BY <1>3
    <3>. QED BY <1>1, <1>5, <1>7, <3>1 DEF Held
  <2>2. Held[o] # None BY <1>1, <1>7, NoneAssumption DEF Held
  <2>3. Promise!Free(t, {o}) BY <1>4 DEF Promise!Free
  <2>4. Promise!Exchange(o, n, t) BY <1>5, <2>1, <2>2, <2>3 DEF Promise!Exchange
  <2>. QED BY <1>1, <1>7, <2>4 DEF Promise!Next
<1>. QED BY <1>6, <1>7

\* A cancellation gives up the slot of a confirmed booking.
LEMMA CancelGivesUp ==
  ASSUME IInv, NEW b \in Bookings, Cancel(b)
  PROVE  Promise!Next
<1>1. status[b] = "confirmed" /\ slot[b] \in Slots /\ slot' = slot BY DEF Cancel, SoleConfirmed, IInv, RowsInv
<1>2. status' = [status EXCEPT ![b] = "cancelled"] /\ DOMAIN status = Bookings BY DEF Cancel, IInv, TypeOK
<1>3. Held[b] # None BY <1>1, NoneAssumption DEF Held
<1>4. Held' = [Held EXCEPT ![b] = None] BY <1>1, <1>2 DEF Held
<1>5. Promise!GiveUp(b) BY <1>3, <1>4 DEF Promise!GiveUp
<1>. QED BY <1>5 DEF Promise!Next

\* For event types without a fee, booking implements the reservation promise: holders
\* never clash and rescheduling exchanges the slots in one step.
THEOREM ImplementsReservation ==
  ASSUME ~ Fee
  PROVE  Spec => KeepsReservation
<1>1. Init => Promise!Init BY DEF Init, Promise!Init, Held
<1>2. IInv /\ [Next]_vars => [Promise!Next]_Held
  <2>. SUFFICES ASSUME IInv, [Next]_vars
                PROVE  Promise!Next \/ Held' = Held
    OBVIOUS
  <2>1. CASE \E v \in Visitors, n \in Bookings : ClaimCommit(v, n) BY <2>1, ClaimTakes
  <2>2. CASE \E b \in Bookings : Cancel(b) BY <2>2, CancelGivesUp
  <2>3. CASE UNCHANGED <<status, slot>> BY <2>3 DEF Held
  <2>. QED BY <2>1, <2>2, <2>3, FreeStutter
<1>. QED BY <1>1, <1>2, Inductive, PTL DEF Spec, KeepsReservation, Promise!Spec

=============================================================================
