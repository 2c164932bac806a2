---------------------------- MODULE BookingMirror ----------------------------
(***************************************************************************)
(* What follows a booking's commit (app/booking_notify.py, app/gcal.py):   *)
(* its event in the Google calendar and its client and project in the      *)
(* studio.  Confirmations, reschedules and cancellations commit first and  *)
(* then work through these calls on the request's own thread, so that the  *)
(* callbacks of one booking and of its replacement may overlap.  Booking   *)
(* models the commits themselves; here only their effect is kept.  The     *)
(* calendar is connected; mails are left out, since nothing depends on     *)
(* them.                                                                   *)
(***************************************************************************)
EXTENDS Naturals, FiniteSets

CONSTANTS
  Appts,     \* booking ids
  GEvents,   \* events the calendar may come to hold
  Callbacks, \* threads at work at once
  NoAppt, NoEvent

ASSUME BookingMirrorAssumption == NoAppt \notin Appts /\ NoEvent \notin GEvents

VARIABLES
  appt,     \* each booking: [status, of, event, project]; a project is named by its maker
  gevent,   \* each event: [appt, live]
  callback, \* each thread: [at, appt, event]
  \* history
  torn,     \* bookings cancelled or moved while their confirmation was at work, or
            \* one of whose callbacks was cut short
  loose,    \* events whose deletion failed, or was cut short
  missed,   \* bookings whose event could not be made or changed
  shoots    \* bookings that made a project

mirrorVars == <<appt, gevent, callback, torn, loose, missed, shoots>>

FreeThread == [at |-> "idle", appt |-> NoAppt, event |-> NoEvent]

MirrorInit ==
  /\ appt = [a \in Appts |-> [status |-> "absent", of |-> NoAppt, event |-> NoEvent,
                              project |-> NoAppt]]
  /\ gevent = [e \in GEvents |-> [appt |-> NoAppt, live |-> FALSE]]
  /\ callback = [t \in Callbacks |-> FreeThread]
  /\ torn = {} /\ loose = {} /\ missed = {} /\ shoots = {}

-----------------------------------------------------------------------------
Starts(t, at, a) == callback' = [callback EXCEPT ![t] = [at |-> at, appt |-> a, event |-> NoEvent]]
Goes(t, at) == callback' = [callback EXCEPT ![t].at = at]
GoesWith(t, at, e) == callback' = [callback EXCEPT ![t].at = at, ![t].event = e]
Stops(t) == callback' = [callback EXCEPT ![t] = FreeThread]
Busy(a) == \E t \in Callbacks : callback[t].appt = a
Torn(a) == IF Busy(a) THEN torn \cup {a} ELSE torn

\* A booking, or a paid hold, is confirmed.
Booked(t, a) ==
  /\ callback[t] = FreeThread
  /\ appt[a].status = "absent"
  /\ appt' = [appt EXCEPT ![a].status = "confirmed"]
  /\ Starts(t, "read", a)
  /\ UNCHANGED <<gevent, torn, loose, missed, shoots>>

\* Mutant of Replacement: the id of the event is not copied.
ReplacementMut(a) == [appt[a] EXCEPT !.of = a, !.event = NoEvent]

\* The replacement takes the original's event and project along.
Replacement(a) == [appt[a] EXCEPT !.of = a]

Moved(t, a, b) ==
  /\ callback[t] = FreeThread
  /\ appt[a].status = "confirmed" /\ appt[b].status = "absent"
  /\ appt' = [appt EXCEPT ![b] = Replacement(a),
                          ![a].status = "cancelled", ![a].event = NoEvent]
  /\ Starts(t, "read", b)
  /\ torn' = Torn(a)
  /\ UNCHANGED <<gevent, loose, missed, shoots>>

Cancelled(t, a) ==
  /\ callback[t] = FreeThread
  /\ appt[a].status = "confirmed"
  /\ appt' = [appt EXCEPT ![a].status = "cancelled"]
  /\ Starts(t, "find", a)
  /\ torn' = Torn(a)
  /\ UNCHANGED <<gevent, loose, missed, shoots>>

-----------------------------------------------------------------------------
\* on_booking_confirmed reads the row; what is no longer confirmed is left alone.
ReadConfirmed(t) ==
  LET a == callback[t].appt IN
  /\ callback[t].at = "read"
  /\ IF appt[a].status # "confirmed" THEN Goes(t, "load")
     ELSE GoesWith(t, IF appt[a].of = NoAppt THEN "sync" ELSE "drop", appt[a].event)
  /\ UNCHANGED <<appt, gevent, torn, loose, missed, shoots>>

\* Google deletes an event, or the call fails; the id is forgotten either way.
Deletes(e) ==
  \/ /\ gevent' = [gevent EXCEPT ![e].live = FALSE]
     /\ UNCHANGED loose
  \/ /\ loose' = loose \cup {e}
     /\ UNCHANGED gevent

\* Before the event of a replacement is synced, the original's is deleted: the
\* one its confirmation may have stored after the move.
DropOld(t) ==
  LET old == appt[callback[t].appt].of IN
  /\ callback[t].at = "drop"
  /\ IF appt[old].event = NoEvent
     THEN Goes(t, "sync") /\ UNCHANGED <<gevent, loose>>
     ELSE Deletes(appt[old].event) /\ Goes(t, "dropped")
  /\ UNCHANGED <<appt, torn, missed, shoots>>

DropForget(t) ==
  /\ callback[t].at = "dropped"
  /\ appt' = [appt EXCEPT ![appt[callback[t].appt].of].event = NoEvent]
  /\ Goes(t, "sync")
  /\ UNCHANGED <<gevent, torn, loose, missed, shoots>>

\* The event that was read is patched; if it is gone a new one is made.
SyncEvent(t) ==
  LET a == callback[t].appt
      e == callback[t].event
  IN
  /\ callback[t].at = "sync"
  /\ \/ /\ e = NoEvent
        /\ Goes(t, "post") /\ UNCHANGED <<appt, missed>>
     \/ /\ e # NoEvent /\ gevent[e].live
        /\ Goes(t, "load") /\ UNCHANGED <<appt, missed>>
     \/ /\ e # NoEvent /\ ~gevent[e].live
        /\ appt' = [appt EXCEPT ![a].event = NoEvent]
        /\ Goes(t, "post") /\ UNCHANGED missed
     \/ /\ e # NoEvent
        /\ missed' = missed \cup {a}
        /\ Goes(t, "load") /\ UNCHANGED appt
  /\ UNCHANGED <<gevent, torn, loose, shoots>>

\* Google makes the event and answers, makes it and does not answer, or refuses.
PostEvent(t) ==
  LET a == callback[t].appt IN
  /\ callback[t].at = "post"
  /\ \/ \E e \in GEvents :
          /\ gevent[e].appt = NoAppt
          /\ gevent' = [gevent EXCEPT ![e] = [appt |-> a, live |-> TRUE]]
          /\ \/ GoesWith(t, "store", e) /\ UNCHANGED <<loose, missed>>
             \/ Goes(t, "load") /\ loose' = loose \cup {e} /\ missed' = missed \cup {a}
     \/ Goes(t, "load") /\ missed' = missed \cup {a} /\ UNCHANGED <<gevent, loose>>
  /\ UNCHANGED <<appt, torn, shoots>>

\* The id is stored, whatever became of the booking.
StoreEvent(t) ==
  /\ callback[t].at = "store"
  /\ appt' = [appt EXCEPT ![callback[t].appt].event = callback[t].event]
  /\ Goes(t, "load")
  /\ UNCHANGED <<gevent, torn, loose, missed, shoots>>

\* confirm goes on only if the booking is still confirmed.
LoadAgain(t) ==
  /\ callback[t].at = "load"
  /\ IF appt[callback[t].appt].status = "confirmed" THEN Goes(t, "link") ELSE Stops(t)
  /\ UNCHANGED <<appt, gevent, torn, loose, missed, shoots>>

\* _link_studio: what is linked is left alone, a replacement inherits, and any
\* other booking gets a project of its own.
Inherits(a) == appt[a].of # NoAppt /\ appt[appt[a].of].project # NoAppt

LinkStudio(t) ==
  LET a == callback[t].appt IN
  /\ callback[t].at = "link"
  /\ IF appt[a].project # NoAppt \/ Inherits(a)
     THEN /\ appt' = [appt EXCEPT ![a].project = IF @ # NoAppt THEN @ ELSE appt[appt[a].of].project]
          /\ Stops(t)
     ELSE Goes(t, "make") /\ UNCHANGED appt
  /\ UNCHANGED <<gevent, torn, loose, missed, shoots>>

MakeProject(t) ==
  /\ callback[t].at = "make"
  /\ shoots' = shoots \cup {callback[t].appt}
  /\ Goes(t, "stamp")
  /\ UNCHANGED <<appt, gevent, torn, loose, missed>>

StampProject(t) ==
  LET a == callback[t].appt IN
  /\ callback[t].at = "stamp"
  /\ appt' = [appt EXCEPT ![a].project = a]
  /\ Stops(t)
  /\ UNCHANGED <<gevent, torn, loose, missed, shoots>>

-----------------------------------------------------------------------------
\* on_booking_cancelled: the id is read, the event deleted, the id forgotten.
FindEvent(t) ==
  LET e == appt[callback[t].appt].event IN
  /\ callback[t].at = "find"
  /\ IF e = NoEvent THEN Stops(t) ELSE GoesWith(t, "delete", e)
  /\ UNCHANGED <<appt, gevent, torn, loose, missed, shoots>>

DeleteEvent(t) ==
  /\ callback[t].at = "delete"
  /\ Deletes(callback[t].event)
  /\ Goes(t, "forget")
  /\ UNCHANGED <<appt, torn, missed, shoots>>

ForgetEvent(t) ==
  /\ callback[t].at = "forget"
  /\ appt' = [appt EXCEPT ![callback[t].appt].event = NoEvent]
  /\ Stops(t)
  /\ UNCHANGED <<gevent, torn, loose, missed, shoots>>

\* The owner deletes an event in the calendar.
EventVanishes(e) ==
  /\ gevent[e].live
  /\ gevent' = [gevent EXCEPT ![e].live = FALSE]
  /\ missed' = missed \cup Appts
  /\ UNCHANGED <<appt, callback, torn, loose, shoots>>

\* An error or a kill: nothing is undone, and nothing takes the callback up again.
CallbackDies(t) ==
  LET a == callback[t].appt IN
  /\ callback[t] # FreeThread
  /\ torn' = torn \cup {a}
  /\ loose' = loose \cup ({callback[t].event, appt[a].event} \ {NoEvent})
  /\ missed' = missed \cup {a}
  /\ Stops(t)
  /\ UNCHANGED <<appt, gevent, shoots>>

MirrorNext ==
  \/ \E t \in Callbacks :
       \/ \E a \in Appts : Booked(t, a) \/ Cancelled(t, a) \/ \E b \in Appts : Moved(t, a, b)
       \/ ReadConfirmed(t) \/ DropOld(t) \/ DropForget(t) \/ SyncEvent(t) \/ PostEvent(t)
       \/ StoreEvent(t) \/ LoadAgain(t) \/ LinkStudio(t) \/ MakeProject(t) \/ StampProject(t)
       \/ FindEvent(t) \/ DeleteEvent(t) \/ ForgetEvent(t) \/ CallbackDies(t)
  \/ \E e \in GEvents : EventVanishes(e)

MirrorSpec == MirrorInit /\ [][MirrorNext]_mirrorVars

-----------------------------------------------------------------------------
MirrorTypeOK ==
  /\ appt \in [Appts -> [status : {"absent", "confirmed", "cancelled"}, of : Appts \cup {NoAppt},
                         event : GEvents \cup {NoEvent}, project : Appts \cup {NoAppt}]]
  /\ gevent \in [GEvents -> [appt : Appts \cup {NoAppt}, live : BOOLEAN]]
  /\ callback \in [Callbacks ->
       [at : {"idle", "read", "drop", "dropped", "sync", "post", "store", "load", "link", "make",
              "stamp", "find", "delete", "forget"},
        appt : Appts \cup {NoAppt}, event : GEvents \cup {NoEvent}]]
  /\ torn \subseteq Appts /\ loose \subseteq GEvents /\ missed \subseteq Appts /\ shoots \subseteq Appts

Quiet == \A t \in Callbacks : callback[t] = FreeThread

\* The calendar blocks the hours it shows (free_busy), so an event must not
\* outlive its booking: once the callbacks are through, an event belongs to a
\* confirmed booking, unless a cancellation or a move overlapped the booking's
\* confirmation or a call failed; and a confirmed booking has its event.
NoGhostEvent ==
  Quiet =>
    /\ \A e \in GEvents \ loose : gevent[e].live =>
         gevent[e].appt \in torn \/ \E a \in Appts : appt[a].status = "confirmed" /\ appt[a].event = e
    /\ \A a \in Appts \ missed : appt[a].status = "confirmed" =>
         appt[a].event # NoEvent /\ gevent[appt[a].event].live

\* 'A reschedule inherits the original booking's client/project - never a new
\* lead' (booking_notify.py:106): a booking and its replacement do not both make
\* a project, unless the move overlapped the original's confirmation.
OneProjectPerBooking ==
  \A a, b \in shoots : appt[b].of = a => a \in torn
=============================================================================
