------------------------------ MODULE Retainer ------------------------------
(***************************************************************************)
(* Retainer plans (app/admin/recurring.py): the draft invoice of each      *)
(* month, made by a button or by the scheduler's sweep, and the month's    *)
(* calendar slots, captions and delivery log.                              *)
(*                                                                         *)
(* A plan is read in one statement and billed in a later transaction.  A   *)
(* caption is read, the drafting service is asked, and the answer written. *)
(* The other operations are one transaction after a look at the plan; the  *)
(* look is taken with it, since a deletion in between only hides the plan. *)
(***************************************************************************)
EXTENDS Naturals

CONSTANTS
  Plans, Slots, Captions,  \* row ids
  Biller, Buttons,         \* the scheduler's thread; requests
  Rates,                   \* totals of a plan, 0 among them
  MaxMonth,                \* bound: months the clock passes
  MaxDrafts,               \* bound: drafts of one plan and month
  MaxLogged,               \* bound: deliveries logged
  NoPlan, NoSlot

ASSUME RetainerAssumption ==
  /\ MaxMonth \in Nat \ {0} /\ MaxDrafts \in Nat /\ MaxLogged \in Nat
  /\ Rates \subseteq Nat /\ Biller \notin Buttons
  /\ NoPlan \notin Plans /\ NoSlot \notin Slots

Billers == Buttons \cup {Biller}
Months == 1..MaxMonth

VARIABLES
  month, late,  \* the clock: the month, and whether it is past the late anchor
  plan,         \* each plan: [state, active, total, anchor, last]
  billed,       \* each plan and month: how many drafts were made
  bench,        \* each biller: [period, todo], the plans it read as due
  slot,         \* content_calendar: [plan, status]
  caption,      \* retainer_captions: [plan, slot, body, status]
  asking,       \* caption requests out to the drafting service: [caption, replace, overtaken]
  deliveries,   \* rows of the delivery log
  \* history
  outrun,       \* plans billed for a month after they had been billed for a later one
  stale,        \* plans changed while a biller had read them
  misbilled,    \* plans billed another total than theirs at that moment
  clobbered,    \* captions whose human words were drafted over, unasked
  retyped       \* captions edited while the service was asked

billing  == <<month, late, plan, billed, bench, outrun, stale, misbilled>>
content  == <<slot, caption, asking, deliveries, clobbered, retyped>>
retainerVars == <<billing, content>>

AbsentPlan == [state |-> "absent", active |-> FALSE, total |-> 0, late |-> FALSE, last |-> 0]
AbsentSlot == [plan |-> NoPlan, status |-> "planned"]
AbsentCaption == [plan |-> NoPlan, slot |-> NoSlot, body |-> "none", status |-> "draft"]

RetainerInit ==
  /\ month = 1 /\ late = FALSE
  /\ plan = [p \in Plans |-> AbsentPlan]
  /\ billed = [p \in Plans |-> [m \in Months |-> 0]]
  /\ bench = [g \in Billers |-> [period |-> 1, todo |-> {}]]
  /\ slot = [s \in Slots |-> AbsentSlot]
  /\ caption = [k \in Captions |-> AbsentCaption]
  /\ asking = {} /\ deliveries = 0
  /\ outrun = {} /\ stale = {} /\ misbilled = {} /\ clobbered = {} /\ retyped = {}

Live(p) == plan[p].state = "live"
ReadBySome(p) == \E g \in Billers : \E x \in bench[g].todo : x.plan = p

-----------------------------------------------------------------------------
\* Plans.
CreatePlan(p) ==
  /\ plan[p].state = "absent"
  /\ plan' = [plan EXCEPT ![p] = [state |-> "live", active |-> TRUE, total |-> 0, late |-> FALSE,
                                  last |-> 0]]
  /\ UNCHANGED <<month, late, billed, bench, outrun, stale, misbilled, content>>

UpdatePlan(p) ==
  /\ Live(p)
  /\ \E total \in Rates, active, anchor \in BOOLEAN :
       plan' = [plan EXCEPT ![p].total = total, ![p].active = active, ![p].late = anchor]
  /\ stale' = IF ReadBySome(p) THEN stale \cup {p} ELSE stale
  /\ UNCHANGED <<month, late, billed, bench, outrun, misbilled, content>>

DeletePlan(p) ==
  /\ Live(p)
  /\ plan' = [plan EXCEPT ![p].state = "deleted"]
  /\ UNCHANGED <<month, late, billed, bench, outrun, stale, misbilled, content>>

\* Due by the row, for a month.
BillableMut(p, m) == Live(p) /\ plan[p].active /\ plan[p].total > 0
Billable(p, m) == Live(p) /\ plan[p].active /\ plan[p].total > 0 /\ plan[p].last # m

Entry(p) == [plan |-> p, total |-> plan[p].total]

\* The sweep reads the plans whose anchor day has come; the button one plan, on any day.
RunDuePlans ==
  /\ bench[Biller].todo = {}
  /\ LET due == {p \in Plans : Billable(p, month) /\ (plan[p].late => late)} IN
       /\ due # {}
       /\ bench' = [bench EXCEPT ![Biller] = [period |-> month, todo |-> {Entry(p) : p \in due}]]
  /\ UNCHANGED <<month, late, plan, billed, outrun, stale, misbilled, content>>

GenerateDraft(g, p) ==
  /\ bench[g].todo = {}
  /\ Billable(p, month)
  /\ bench' = [bench EXCEPT ![g] = [period |-> month, todo |-> {Entry(p)}]]
  /\ UNCHANGED <<month, late, plan, billed, outrun, stale, misbilled, content>>

\* The claim of the month and the draft, in one transaction; the draft copies
\* the total that was read.
GenerateForPlan(g, x) ==
  LET p == x.plan
      m == bench[g].period
  IN
  /\ x \in bench[g].todo
  /\ IF Billable(p, m)
     THEN /\ billed[p][m] < MaxDrafts
          /\ plan' = [plan EXCEPT ![p].last = m]
          /\ billed' = [billed EXCEPT ![p][m] = @ + 1]
          /\ outrun' = IF m < plan[p].last THEN outrun \cup {p} ELSE outrun
          /\ misbilled' = IF x.total = plan[p].total THEN misbilled ELSE misbilled \cup {p}
     ELSE UNCHANGED <<plan, billed, outrun, misbilled>>
  /\ bench' = [bench EXCEPT ![g].todo = @ \ {x}]
  /\ UNCHANGED <<month, late, stale, content>>

\* A biller that fails or is killed leaves the rest to the next pass.
BillingEnds(g) ==
  /\ bench[g].todo # {}
  /\ bench' = [bench EXCEPT ![g].todo = {}]
  /\ UNCHANGED <<month, late, plan, billed, outrun, stale, misbilled, content>>

ClockMoves ==
  /\ IF late THEN month < MaxMonth /\ month' = month + 1 ELSE month' = month
  /\ late' = ~late
  /\ UNCHANGED <<plan, billed, bench, outrun, stale, misbilled, content>>

-----------------------------------------------------------------------------
\* Calendar, captions and deliveries.
AddCalendarSlot(p, s) ==
  /\ Live(p) /\ slot[s].plan = NoPlan
  /\ slot' = [slot EXCEPT ![s].plan = p]
  /\ UNCHANGED <<billing, caption, asking, deliveries, clobbered, retyped>>

SetCalendarStatus(s) ==
  /\ slot[s].plan # NoPlan /\ Live(slot[s].plan)
  /\ \E status \in {"planned", "shot", "delivered"} : slot' = [slot EXCEPT ![s].status = status]
  /\ UNCHANGED <<billing, caption, asking, deliveries, clobbered, retyped>>

\* The captions of a deleted slot stand alone.
UnslottedMut(s) == caption
Unslotted(s) ==
  [k \in Captions |-> IF caption[k].slot = s THEN [caption[k] EXCEPT !.slot = NoSlot] ELSE caption[k]]

DeleteCalendarSlot(s) ==
  /\ slot[s].plan # NoPlan /\ Live(slot[s].plan)
  /\ slot' = [slot EXCEPT ![s] = AbsentSlot]
  /\ caption' = Unslotted(s)
  /\ UNCHANGED <<billing, asking, deliveries, clobbered, retyped>>

Asked(k) == {a \in asking : a.caption = k}
TypedOver(k) == IF Asked(k) = {} THEN retyped ELSE retyped \cup {k}

\* A caption takes a slot of its own plan, or none.
AddCaption(p, k) ==
  /\ Live(p) /\ caption[k].plan = NoPlan
  /\ \E s \in {t \in Slots : slot[t].plan = p} \cup {NoSlot} :
       caption' = [caption EXCEPT ![k] = [plan |-> p, slot |-> s, body |-> "human",
                                          status |-> "draft"]]
  /\ retyped' = TypedOver(k)
  /\ UNCHANGED <<billing, slot, asking, deliveries, clobbered>>

UpdateCaption(k) ==
  /\ caption[k].plan # NoPlan /\ Live(caption[k].plan)
  /\ caption' = [caption EXCEPT ![k].body = "human"]
  /\ retyped' = TypedOver(k)
  /\ UNCHANGED <<billing, slot, asking, deliveries, clobbered>>

SetCaptionStatus(k) ==
  /\ caption[k].plan # NoPlan /\ Live(caption[k].plan)
  /\ \E status \in {"draft", "approved"} : caption' = [caption EXCEPT ![k].status = status]
  /\ UNCHANGED <<billing, slot, asking, deliveries, clobbered, retyped>>

DeleteCaption(k) ==
  /\ caption[k].plan # NoPlan /\ Live(caption[k].plan)
  /\ caption' = [caption EXCEPT ![k] = AbsentCaption]
  /\ UNCHANGED <<billing, slot, asking, deliveries, clobbered, retyped>>

IsHumanBodyMut(k) == FALSE
IsHumanBody(k) == caption[k].body = "human"

\* Human words are drafted over only with replace; the service is asked with
\* no transaction open.
DraftCaptionAsk(k, replace) ==
  /\ caption[k].plan # NoPlan /\ Live(caption[k].plan)
  /\ IsHumanBody(k) => replace
  /\ asking' = asking \cup {[caption |-> k, replace |-> replace]}
  /\ UNCHANGED <<billing, slot, caption, deliveries, clobbered, retyped>>

\* The answer replaces what the caption says by then, or the service fails.
DraftCaptionAnswer(a) ==
  /\ a \in asking
  /\ asking' = asking \ {a}
  /\ \/ UNCHANGED <<caption, clobbered>>
     \/ /\ caption[a.caption].plan # NoPlan
        /\ caption' = [caption EXCEPT ![a.caption].body = "ai"]
        /\ clobbered' = IF caption[a.caption].body = "human" /\ ~a.replace
                        THEN clobbered \cup {a.caption} ELSE clobbered
  /\ UNCHANGED <<billing, slot, deliveries, retyped>>

LogDelivery(p) ==
  /\ Live(p) /\ deliveries < MaxLogged
  /\ deliveries' = deliveries + 1
  /\ UNCHANGED <<billing, slot, caption, asking, clobbered, retyped>>

DeleteDelivery(p) ==
  /\ Live(p) /\ deliveries > 0
  /\ deliveries' = deliveries - 1
  /\ UNCHANGED <<billing, slot, caption, asking, clobbered, retyped>>

RetainerNext ==
  \/ ClockMoves \/ RunDuePlans
  \/ \E p \in Plans :
       \/ CreatePlan(p) \/ UpdatePlan(p) \/ DeletePlan(p) \/ LogDelivery(p) \/ DeleteDelivery(p)
       \/ \E g \in Buttons : GenerateDraft(g, p)
       \/ \E s \in Slots : AddCalendarSlot(p, s)
       \/ \E k \in Captions : AddCaption(p, k)
  \/ \E g \in Billers : BillingEnds(g) \/ \E x \in bench[g].todo : GenerateForPlan(g, x)
  \/ \E s \in Slots : SetCalendarStatus(s) \/ DeleteCalendarSlot(s)
  \/ \E k \in Captions :
       \/ UpdateCaption(k) \/ SetCaptionStatus(k) \/ DeleteCaption(k)
       \/ \E replace \in BOOLEAN : DraftCaptionAsk(k, replace)
  \/ \E a \in asking : DraftCaptionAnswer(a)

RetainerSpec == RetainerInit /\ [][RetainerNext]_retainerVars
-----------------------------------------------------------------------------
Entries == [plan : Plans, total : Rates]

\* Types; a slot and a caption belong to a plan that exists, and a caption's
\* slot is one of its own plan.
RetainerTypeOK ==
  /\ month \in Months /\ late \in BOOLEAN
  /\ plan \in [Plans -> [state : {"absent", "live", "deleted"}, active : BOOLEAN,
                         total : Rates \cup {0}, late : BOOLEAN, last : 0..MaxMonth]]
  /\ billed \in [Plans -> [Months -> Nat]]
  /\ bench \in [Billers -> [period : Months, todo : SUBSET Entries]]
  /\ slot \in [Slots -> [plan : Plans \cup {NoPlan}, status : {"planned", "shot", "delivered"}]]
  /\ caption \in [Captions -> [plan : Plans \cup {NoPlan}, slot : Slots \cup {NoSlot},
                               body : {"none", "human", "ai"}, status : {"draft", "approved"}]]
  /\ asking \subseteq [caption : Captions, replace : BOOLEAN]
  /\ deliveries \in Nat
  /\ outrun \subseteq Plans /\ stale \subseteq Plans /\ misbilled \subseteq Plans
  /\ clobbered \subseteq Captions /\ retyped \subseteq Captions
  /\ \A k \in Captions : caption[k].slot # NoSlot =>
        caption[k].plan # NoPlan /\ slot[caption[k].slot].plan = caption[k].plan

\* 'A concurrent button-click and sweep can never double-bill'
\* (recurring.py:583): one draft a month, however clicks and sweeps overlap,
\* except where a month was billed after a later one, since the claim asks for
\* another month than the last and not for a later one.  The draft bills what
\* the plan said, except where the plan was edited after it was read.
OneDraftPerPeriod ==
  /\ \A p \in Plans, m \in Months : billed[p][m] > 1 => p \in outrun
  /\ misbilled \subseteq stale

\* 'A human's words are never destroyed by a regenerate click'
\* (recurring.py:485): they are drafted over unasked only if they were typed
\* while the service was at work.
HumanWordsSurvive == clobbered \subseteq retyped

\* Both promises of a retainer: a period is billed once, and what a person wrote stays.
RetainersHold == OneDraftPerPeriod /\ HumanWordsSurvive
=============================================================================
