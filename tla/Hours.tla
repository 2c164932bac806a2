------------------------------- MODULE Hours -------------------------------
(***************************************************************************)
(* The opening hours and the slots they give: the free-slot engine of      *)
(* app/scheduling.py over the weekly hours, date overrides and event type  *)
(* that app/admin/scheduling.py edits.  Hours are wall-clock minutes of    *)
(* the studio's zone, bookings are instants, and on day 1 the clocks may   *)
(* change.  A visit is one unit long and the slots one unit apart.  Who    *)
(* wins a slot is Booking's subject: here a booking is one step.           *)
(***************************************************************************)
EXTENDS Integers, FiniteSets

CONSTANTS
  DayUnits,   \* wall-clock units in a day
  Change,     \* the unit at which the clocks change: skipped in spring, twice in autumn,
              \* never a day's last
  Consoles,   \* open scheduling consoles
  DefaultOpen, DefaultClose,  \* 09:00 and 17:00
  Caps, Turnarounds,          \* the daily caps (0 is none) and buffers the owner sets
  MinNotice, WindowDays,      \* min_notice_hours and booking_window_days
  MaxNow      \* bound: the clock

ASSUME HoursAssumption ==
  /\ DayUnits \in Nat /\ Change \in 1..(DayUnits - 2) /\ MaxNow \in 0..DayUnits
  /\ DefaultOpen \in 1..DayUnits /\ DefaultClose \in (DefaultOpen + 1)..DayUnits
  /\ Caps \subseteq Nat /\ Turnarounds \subseteq Nat /\ MinNotice \in Nat /\ WindowDays \in Nat

Days     == 1..2
Spans    == (0..DayUnits) \X (0..DayUnits)
OpenSpan == {w \in Spans : w[1] < w[2]}
Blocked  == <<0, 0>>
Default  == <<DefaultOpen, DefaultClose>>
Instants == 0..(2 * DayUnits)

VARIABLES
  season,   \* how far the clocks move on day 1: -1 in spring, 1 in autumn, or 0
  calendar, \* busy instants of the external calendar
  now,      \* the instant
  week,     \* the weekly hours: each weekday's window, if it has one
  override, \* the global date overrides: none, Blocked, or the day's window
  event,    \* the event type: its cap a day, its buffer after a visit
  appts,    \* the instants of the confirmed bookings
  console,  \* each console: the hours and the event type it shows
  \* history
  asked,    \* what the owner last said of each weekday
  reverted, \* weekdays put back by a console that showed older hours
  overrun   \* days booked past their cap

hoursVars == <<season, calendar, now, week, override, event, appts, console, asked, reverted, overrun>>

diary    == <<season, calendar, now, appts, overrun>>
settings == <<week, override, event, console, asked, reverted>>

HoursInit ==
  /\ season \in {-1, 0, 1} /\ calendar \in {c \in SUBSET Instants : Cardinality(c) <= 1} /\ now = 0
  /\ week = [d \in Days |-> {Default}] /\ override = [d \in Days |-> {}]
  /\ event \in [cap : Caps, after : Turnarounds]
  /\ appts = {} /\ console = [t \in Consoles |-> [week |-> week, event |-> event]]
  /\ asked = week /\ reverted = {} /\ overrun = {}

-----------------------------------------------------------------------------
(* The zone *)

Midnight(d) == IF d = 1 THEN 0 ELSE DayUnits + season
LocalDay(i) == IF i < Midnight(2) THEN 1 ELSE 2

\* Wall-clock arithmetic, then the conversion: a time the clocks skip is read with
\* the offset before the change, one that comes twice as the first of the two.
InstantOf(d, m) == Midnight(d) + m + (IF d = 1 /\ m > Change THEN season ELSE 0)

\* What a clock in the studio shows.
WallOf(i) == IF LocalDay(i) = 2 THEN i - Midnight(2)
             ELSE i - (IF i >= Change + (IF season = 1 THEN 1 ELSE 0) THEN season ELSE 0)

\* Twenty-four hours from local midnight, however long the day is.
TwentyFour(d) == {i \in Instants : Midnight(d) <= i /\ i < Midnight(d) + DayUnits}

-----------------------------------------------------------------------------
(* The engine *)

\* An override wins outright; a blocked day has no window.
WindowsForMut(d) == IF override[d] \ {Blocked} = {} THEN week[d] ELSE override[d]
WindowsFor(d)    == IF override[d] = {} THEN week[d] ELSE override[d] \ {Blocked}

\* Both sides are padded by their own buffers, a booking after it only.
Collides(i, others) ==
  \E b \in others : i < b + 1 + event.after /\ b < i + 1 + event.after

\* What the bookings of a day count for its cap.
DayCountMut(d, others) == Cardinality(others \cap (TwentyFour(d) \ {Midnight(d)}))
DayCount(d, others)    == Cardinality(others \cap TwentyFour(d))

\* What is free, from the busy instants the calendar reported; a booking that is
\* being moved frees its own time and is not offered it.
SlotsUtc(d, busy, own) ==
  LET others == appts \ own IN
  IF \/ d < LocalDay(now) \/ d - LocalDay(now) > WindowDays
     \/ event.cap # 0 /\ DayCount(d, others) >= event.cap
  THEN {}
  ELSE {i \in {InstantOf(d, m) : m \in UNION {w[1]..(w[2] - 1) : w \in WindowsFor(d)}} :
          /\ i >= now + MinNotice /\ i <= now + WindowDays * DayUnits
          /\ i \notin own /\ i \notin busy /\ ~Collides(i, others)}

\* A day's page asks the calendar for twenty-four hours, the month for its days.
DayBusy(d) == calendar \cap TwentyFour(d)
MonthBusyMut == {}
MonthBusy    == calendar
SlotsForDay(d, own) == SlotsUtc(d, DayBusy(d), own)
DaysWithSlots       == {d \in Days : SlotsUtc(d, MonthBusy, {}) # {}}

\* book, under the write lock: the slots of the instant's local day, again.
Overruns(i, own) ==
  /\ event.cap # 0
  /\ Cardinality({b \in appts \ own : LocalDay(b) = LocalDay(i)}) >= event.cap
TakeSlot(i, own) ==
  /\ own \subseteq appts /\ Cardinality(own) <= 1
  /\ i \in SlotsForDay(LocalDay(i), own)
  /\ appts' = (appts \ own) \cup {i}
  /\ overrun' = IF Overruns(i, own) THEN overrun \cup {LocalDay(i)} ELSE overrun
  /\ UNCHANGED <<season, calendar, now, settings>>

CancelAppt(i) ==
  /\ i \in appts /\ appts' = appts \ {i}
  /\ UNCHANGED <<season, calendar, now, settings, overrun>>

TimePasses ==
  /\ now < MaxNow /\ now' = now + 1
  /\ UNCHANGED <<season, calendar, appts, overrun, settings>>

-----------------------------------------------------------------------------
(* The console *)

OpenConsole(t) ==
  /\ console' = [console EXCEPT ![t] = [week |-> week, event |-> event]]
  /\ UNCHANGED <<diary, week, override, event, asked, reverted>>

\* Midnight is falsy: a window typed to open at 0 opens at the default; one that
\* closes before it opens is the default.
Parsed(w) ==
  LET s == IF w[1] = 0 THEN DefaultOpen ELSE w[1]
      e == IF w[2] = 0 THEN DefaultClose ELSE w[2]
  IN  IF e <= s THEN Default ELSE <<s, e>>

\* Every switch and every change of hours posts the seven days the console shows
\* with the one that was touched; a day that is off shows the default hours.
PostedMut(shown, d, typed) == [x \in Days |-> IF x = d THEN typed ELSE {}]
Posted(shown, d, typed)    == [shown EXCEPT ![d] = typed]
SaveAvailability(t, d, typed) ==
  LET shown == console[t].week IN
  /\ typed \in (IF shown[d] = {} THEN {{Default}} ELSE {{}} \cup {{w} : w \in Spans})
  /\ week' = [x \in Days |-> {Parsed(w) : w \in Posted(shown, d, typed)[x]}]
  /\ asked' = [asked EXCEPT ![d] = typed]
  /\ reverted' = (reverted \ {d}) \cup {x \in Days \ {d} : shown[x] # week[x]}
  /\ console' = [console EXCEPT ![t].week = week']
  /\ UNCHANGED <<diary, override, event>>

\* "block" or "hours", which must be in order; the day's override is replaced.
AddOverride(d, w) ==
  /\ w \in OpenSpan \cup {Blocked} /\ override' = [override EXCEPT ![d] = {w}]
  /\ UNCHANGED <<diary, week, event, console, asked, reverted>>

DelOverride(d) ==
  /\ override[d] # {} /\ override' = [override EXCEPT ![d] = {}]
  /\ UNCHANGED <<diary, week, event, console, asked, reverted>>

\* The event's form writes every field the console shows with the one it changed.
UpdateEvent(t) ==
  /\ event' \in {[console[t].event EXCEPT !.cap = n] : n \in Caps}
                \cup {[console[t].event EXCEPT !.after = n] : n \in Turnarounds}
  /\ UNCHANGED <<diary, week, override, console, asked, reverted>>

HoursNext ==
  \/ TimePasses
  \/ \E i \in Instants : TakeSlot(i, {}) \/ CancelAppt(i) \/ \E b \in appts : TakeSlot(i, {b})
  \/ \E t \in Consoles : OpenConsole(t) \/ UpdateEvent(t)
                         \/ \E d \in Days, typed \in {{}} \cup {{w} : w \in Spans} :
                              SaveAvailability(t, d, typed)
  \/ \E d \in Days : DelOverride(d) \/ \E w \in Spans : AddOverride(d, w)

HoursSpec == HoursInit /\ [][HoursNext]_hoursVars

-----------------------------------------------------------------------------
(* Properties *)

HoursTypeOK ==
  /\ season \in {-1, 0, 1} /\ calendar \subseteq Instants /\ now \in 0..MaxNow
  /\ week \in [Days -> SUBSET OpenSpan] /\ override \in [Days -> SUBSET (OpenSpan \cup {Blocked})]
  /\ event \in [cap : Caps, after : Turnarounds] /\ appts \subseteq Instants
  /\ console \in [Consoles -> [week : [Days -> SUBSET OpenSpan], event : [cap : Caps, after : Turnarounds]]]
  /\ asked \in [Days -> SUBSET Spans] /\ reverted \subseteq Days /\ overrun \subseteq Days

\* A time is offered within the hours a clock in the studio shows, and when the
\* calendar is free: but for the hour the clocks skip, which is offered as the one
\* after it, and the last hour of a day of twenty-five, whose calendar the page does
\* not ask for (app/scheduling.py:244).
OfferedTimesAreOpen ==
  \A d \in Days : \A i \in SlotsForDay(d, {}) :
    /\ LocalDay(i) = d
    /\ (\E w \in WindowsFor(d) : w[1] <= WallOf(i) /\ WallOf(i) < w[2])
       \/ (season = -1 /\ i = Change)
    /\ override[d] # {Blocked}
    /\ (i \notin calendar \/ (season = 1 /\ d = 1 /\ i = DayUnits))

\* A day takes no more than its cap: but for a day of twenty-five hours, whose last
\* hour _day_count does not count (app/scheduling.py:162).
CapKeptOnOrdinaryDays == overrun \subseteq (IF season = 1 THEN {1} ELSE {})

\* A day the month lights up has a time to offer on its page.
LitDaysHaveSlots == \A d \in DaysWithSlots : SlotsForDay(d, {}) # {}

\* Each weekday keeps what the owner last asked for it, whatever else is saved:
\* but for a console that showed older hours, and for opening at midnight, which
\* is stored as nine o'clock (app/admin/scheduling.py:343).
HoursAreAsAsked ==
  \A d \in Days :
    \/ d \in reverted
    \/ week[d] = asked[d]
    \/ \E w \in asked[d] : w[1] = 0 \/ w[2] <= w[1]

HoursAreSound == OfferedTimesAreOpen /\ CapKeptOnOrdinaryDays /\ LitDaysHaveSlots /\ HoursAreAsAsked
=============================================================================
