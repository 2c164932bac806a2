--------------------------- MODULE InvoiceRacesMC ---------------------------
(***************************************************************************)
(* TLC instances of InvoicePay, for its races and for its liveness.  What  *)
(* races in a behaviour is chosen at its start.  In a "free" one everybody *)
(* does, and a pay request may outlast a client who types in a card; in a  *)
(* "prompt" one two pay requests race over three sessions and each ends    *)
(* before a client has filled in the Checkout page.  For liveness, either  *)
(* two deliveries overlap ("hooks") or two admins do ("admins").           *)
(***************************************************************************)
EXTENDS InvoicePayMC

VARIABLE pace

RaceSymmetry == Symmetry \cup Permutations(Admins)

\* Two sessions and one payer are enough to race all others against.
FreeScope ==
  /\ Cardinality({s \in Sessions : state'[s] # "unborn"}) <= 2
  /\ Cardinality({p \in Payers : ask'[p] # NoAsk}) <= 1

Busy(a) == apc[a] # "idle" \/ edit[a] # <<0, 0>>

\* Nobody views, one admin edits; no card is typed in during a request.
PromptScope ==
  /\ vpc' = vpc
  /\ (\A a, b \in Admins : Busy(a) /\ Busy(b) => a = b)'
  /\ (\E s \in Sessions : state[s] = "open" /\ state'[s] = "complete") => NoRequestInFlight

RacesInit == Init /\ pace \in {"free", "prompt"}

RacesNext ==
  /\ Next
  /\ UNCHANGED pace
  /\ IF pace = "free" THEN FreeScope ELSE PromptScope

RacesSpec == RacesInit /\ [][RacesNext]_<<vars, pace>>

-----------------------------------------------------------------------------
\* The one who works alone where the scope says so.
OneHook  == CHOOSE h \in Hooks : TRUE
OneAdmin == CHOOSE a \in Admins : TRUE

LiveScope ==
  /\ pace = "hooks"  => \A a \in Admins \ {OneAdmin} : apc'[a] = "idle"
  /\ pace = "admins" => \A h \in Hooks \ {OneHook} : hpc'[h] = "idle"

LiveInit == Init /\ pace \in {"hooks", "admins"}

LiveNext == Next /\ UNCHANGED pace /\ LiveScope

\* A delivery of OneHook ends in one step, so nothing Fairness is about waits for
\* the other ones.
LiveSpec == LiveInit /\ [][LiveNext]_<<vars, pace>> /\ Fairness

-----------------------------------------------------------------------------
\* While every pay request is prompt, no client is charged twice for one
\* installment, and is never shown two sessions that both take it
\* (app/public/pay.py:141, the handover to Checkout).
NeverChargedTwice == pace = "prompt" => NoDoubleCharge /\ OnePayableSession

\* While no edit that passed its draft check is saved after another admin's send,
\* the invoice claims exactly what the ledger holds (app/admin/invoices.py:70).
StatusIsTrue == pace = "hooks" => StatusMatchesLedger
=============================================================================
