------------------------------- MODULE Alarms -------------------------------
(***************************************************************************)
(* How the operator hears of trouble: the throttled messages of            *)
(* app/alerts.py, the checks of app/ops_monitor.py that the scheduler      *)
(* makes once a pass, and the dead-man ping that ends the pass             *)
(* (app/scheduler.py, app/deadman.py).  Time is counted in ticks of the    *)
(* scheduler; a message leaves or fails well within one.                   *)
(***************************************************************************)
EXTENDS Naturals, FiniteSets

CONSTANTS
  Conditions, \* disk_low, backup_stale, jobs_failed, jobs_stuck, jobs_running_stale
  Routes,     \* signatures of crashes: a route and an exception
  OpsCooldown, ErrorCooldown,  \* in ticks
  MaxPass,    \* bound: ticks a pass takes
  MaxClock,   \* bound: ticks
  MaxCrashes, \* bound: crashes of a route
  MaxRestarts \* bound

ASSUME AlarmsAssumption ==
  /\ {OpsCooldown, ErrorCooldown, MaxPass, MaxClock, MaxCrashes, MaxRestarts} \subseteq Nat
  /\ MaxClock > 0 /\ OpsCooldown > 0 /\ ErrorCooldown > 0
  /\ Conditions \cap Routes = {}

VARIABLES
  clock, loop,  \* the ticks; the scheduler's place and the tick it wakes or must be done by
  trouble,      \* each condition: does it hold, and since when
  opsLast,      \* _ops_last; 0 if not there
  errorLast, suppressed,  \* _error_last and _error_suppressed
  outbox,       \* messages whose thread is sending
  beat,         \* a ping's thread is sending
  \* history
  started, restarts,  \* when the process started, how often it was restarted
  toldAt, lost,   \* each condition: when a message of it last arrived, and last failed
  unread,       \* conditions whose check raised
  hasty,        \* a condition was told twice within its window by one process
  crashed, reported, forgotten,  \* each route: crashes; those a message counted; those a restart dropped
  lastPing, lostPing  \* when a ping last arrived, and last failed

alarmVars == <<clock, loop, trouble, opsLast, errorLast, suppressed, outbox, beat, started, restarts,
               toldAt, lost, unread, hasty, crashed, reported, forgotten, lastPing, lostPing>>
crashLog  == <<errorLast, suppressed, crashed, reported, forgotten>>
opsLog    == <<trouble, toldAt, lost, unread>>
pings     == <<beat, lastPing, lostPing>>
life      == <<started, restarts, pings>>

Quiet == [on |-> FALSE, since |-> 0]

AlarmsInit ==
  /\ clock = 1 /\ loop = [at |-> "wait", by |-> 2] /\ trouble = [c \in Conditions |-> Quiet]
  /\ opsLast = [c \in Conditions |-> 0] /\ errorLast = [s \in Routes |-> 0]
  /\ suppressed = [s \in Routes |-> 0] /\ outbox = {} /\ started = 1 /\ restarts = 0
  /\ toldAt = [c \in Conditions |-> 0] /\ lost = [c \in Conditions |-> 0] /\ unread = {} /\ hasty = FALSE
  /\ crashed = [s \in Routes |-> 0] /\ reported = [s \in Routes |-> 0] /\ forgotten = [s \in Routes |-> 0]
  /\ beat = FALSE /\ lastPing = 1 /\ lostPing = 0

\* Ticks pass while no message and no ping is being sent and the scheduler is not
\* late: it wakes on time, and its pass is over in time unless a sweep hangs.
MinutePasses ==
  /\ clock < MaxClock /\ outbox = {} /\ ~beat
  /\ loop.at = "hung" \/ clock < loop.by
  /\ clock' = clock + 1
  /\ UNCHANGED <<loop, opsLast, outbox, hasty, crashLog, opsLog, life>>

TroubleStarts(c) ==
  /\ ~trouble[c].on /\ trouble' = [trouble EXCEPT ![c] = [on |-> TRUE, since |-> clock]]
  /\ unread' = unread \ {c}
  /\ UNCHANGED <<clock, loop, opsLast, outbox, hasty, toldAt, lost, crashLog, life>>

TroubleEnds(c) ==
  /\ trouble[c].on /\ trouble' = [trouble EXCEPT ![c] = Quiet]
  /\ UNCHANGED <<clock, loop, opsLast, outbox, hasty, toldAt, lost, unread, crashLog, life>>

-----------------------------------------------------------------------------
(* The scheduler *)

Wakes ==
  /\ loop.at = "wait" /\ clock = loop.by /\ loop' = [at |-> "sweeps", by |-> clock + MaxPass]
  /\ UNCHANGED <<clock, opsLast, outbox, hasty, crashLog, opsLog, life>>

\* A sweep that raises is logged and the next one runs; one that hangs ends the passes.
SweepHangs ==
  /\ loop.at \in {"sweeps", "ping"} /\ loop' = [loop EXCEPT !.at = "hung"]
  /\ UNCHANGED <<clock, opsLast, outbox, hasty, crashLog, opsLog, life>>

\* ops_alert: the window opens before the message is sent, under the lock.
Throttled(c) == opsLast[c] # 0 /\ clock - opsLast[c] < OpsCooldown
StampedMut(c) == opsLast[c]
Stamped(c)   == clock

\* ops_monitor.sweep: each check by itself, the others go on if one raises.
Watch ==
  /\ loop.at = "sweeps" /\ loop' = [loop EXCEPT !.at = "ping"]
  /\ \E raises \in SUBSET Conditions :
       LET tell == {c \in Conditions \ raises : trouble[c].on /\ ~Throttled(c)} IN
       /\ Cardinality(raises) <= 1
       /\ opsLast' = [c \in Conditions |-> IF c \in tell THEN Stamped(c) ELSE opsLast[c]]
       /\ outbox'  = outbox \cup {[of |-> c, counts |-> 0] : c \in tell}
       /\ hasty'   = (hasty \/ \E c \in tell : toldAt[c] > started /\ clock - toldAt[c] < OpsCooldown)
       /\ unread'  = unread \cup raises
  /\ UNCHANGED <<clock, trouble, toldAt, lost, crashLog, life>>

\* Reaching here means the loop completed a pass.  The ping is fire and forget: its
\* thread says nothing of it but to the log when it does not arrive.
Ping ==
  /\ loop.at = "ping" /\ loop' = [at |-> "wait", by |-> clock + 1] /\ beat' = TRUE
  /\ UNCHANGED <<clock, opsLast, outbox, hasty, crashLog, opsLog, started, restarts, lastPing, lostPing>>

BeatEnds(arrives) ==
  /\ beat /\ beat' = FALSE
  /\ lastPing' = IF arrives THEN clock ELSE lastPing
  /\ lostPing' = IF arrives THEN lostPing ELSE clock
  /\ UNCHANGED <<clock, loop, opsLast, outbox, hasty, crashLog, opsLog, started, restarts>>

-----------------------------------------------------------------------------
(* Crashes *)

\* error_alert: within the window a crash is counted; the next message tells how many
\* were and the count starts again.
Muffled(s)    == errorLast[s] # 0 /\ clock - errorLast[s] < ErrorCooldown
LeftoverMut(s) == suppressed[s]
Leftover(s)    == 0
Crash(s) ==
  /\ crashed[s] < MaxCrashes /\ crashed' = [crashed EXCEPT ![s] = @ + 1]
  /\ IF Muffled(s)
     THEN /\ suppressed' = [suppressed EXCEPT ![s] = @ + 1]
          /\ UNCHANGED <<errorLast, outbox>>
     ELSE /\ suppressed' = [suppressed EXCEPT ![s] = Leftover(s)]
          /\ errorLast' = [errorLast EXCEPT ![s] = clock]
          /\ outbox' = outbox \cup {[of |-> s, counts |-> suppressed[s] + 1]}
  /\ UNCHANGED <<clock, loop, opsLast, hasty, reported, forgotten, opsLog, life>>

-----------------------------------------------------------------------------
(* Telegram *)

Counted(m) == IF m.of \in Routes THEN [reported EXCEPT ![m.of] = @ + m.counts] ELSE reported
SendEnds(m, arrives) ==
  /\ m \in outbox /\ outbox' = outbox \ {m} /\ reported' = Counted(m)
  /\ toldAt' = IF m.of \in Conditions /\ arrives THEN [toldAt EXCEPT ![m.of] = clock] ELSE toldAt
  /\ lost' = IF m.of \in Conditions /\ ~arrives THEN [lost EXCEPT ![m.of] = clock] ELSE lost
  /\ UNCHANGED <<clock, loop, opsLast, errorLast, suppressed, hasty, trouble, unread, crashed, forgotten, life>>

\* A restart forgets every window and every count, and what is being sent.
ServiceRestarts ==
  /\ restarts < MaxRestarts /\ restarts' = restarts + 1 /\ started' = clock
  /\ loop' = [at |-> "wait", by |-> clock + 1]
  /\ opsLast' = [c \in Conditions |-> 0] /\ errorLast' = [s \in Routes |-> 0]
  /\ suppressed' = [s \in Routes |-> 0] /\ outbox' = {} /\ beat' = FALSE
  /\ forgotten' = [s \in Routes |-> crashed[s] - reported[s]]
  /\ UNCHANGED <<clock, hasty, crashed, reported, lastPing, lostPing, opsLog>>

AlarmsNext ==
  \/ MinutePasses \/ Wakes \/ SweepHangs \/ Watch \/ Ping \/ ServiceRestarts
  \/ \E c \in Conditions : TroubleStarts(c) \/ TroubleEnds(c)
  \/ \E s \in Routes : Crash(s)
  \/ \E arrives \in BOOLEAN : BeatEnds(arrives) \/ \E m \in outbox : SendEnds(m, arrives)

AlarmsSpec == AlarmsInit /\ [][AlarmsNext]_alarmVars

-----------------------------------------------------------------------------
(* Properties *)

AlarmsTypeOK ==
  /\ clock \in 1..MaxClock /\ loop.at \in {"wait", "sweeps", "ping", "hung"}
  /\ trouble \in [Conditions -> [on : BOOLEAN, since : 0..MaxClock]]
  /\ opsLast \in [Conditions -> 0..MaxClock] /\ errorLast \in [Routes -> 0..MaxClock]
  /\ suppressed \in [Routes -> 0..MaxCrashes] /\ \A m \in outbox : m.of \in Conditions \cup Routes
  /\ crashed \in [Routes -> 0..MaxCrashes] /\ reported \in [Routes -> Nat] /\ forgotten \in [Routes -> Nat]
  /\ hasty \in BOOLEAN /\ unread \subseteq Conditions /\ lastPing \in 1..MaxClock
  /\ lostPing \in 0..MaxClock /\ beat \in BOOLEAN

\* Trouble that lasts is told of within a window and two passes of its start or
\* of the process's, while the scheduler runs: but for a message that failed, whose
\* window had already opened (app/alerts.py:96), or a check that raised.
Latest(c) == IF trouble[c].since > started THEN trouble[c].since ELSE started
LastingTroubleIsTold ==
  \A c \in Conditions :
    (trouble[c].on /\ loop.at # "hung" /\ clock - Latest(c) > OpsCooldown + 2 * MaxPass) =>
      toldAt[c] >= trouble[c].since \/ lost[c] >= trouble[c].since \/ c \in unread

\* One process tells of a condition once in its window.
OpsAlertsAreSpaced == ~hasty

\* Every crash is counted by a message, once: but for those a restart forgets, each
\* is reported, being sent, or waits for the next message.
CrashesAreAccounted ==
  \A s \in Routes :
    LET sending == {m \in outbox : m.of = s} IN
    crashed[s] = reported[s] + suppressed[s] + forgotten[s]
                 + (IF sending = {} THEN 0 ELSE (CHOOSE m \in sending : TRUE).counts)

\* The dead-man's silence means what it says: while the scheduler runs, the last ping
\* that arrived, or the start of the process, is not older than a tick and a pass,
\* unless the last ping was sent in time and lost.
Recently(t) == clock - t <= 1 + MaxPass
SilenceMeansStopped ==
  loop.at = "hung" \/ Recently(lastPing) \/ Recently(lostPing) \/ Recently(started)

AlarmsAreSound ==
  LastingTroubleIsTold /\ OpsAlertsAreSpaced /\ CrashesAreAccounted /\ SilenceMeansStopped
=============================================================================
