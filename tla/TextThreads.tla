----------------------------- MODULE TextThreads -----------------------------
(***************************************************************************)
(* Texts and calls in the inbox: the vendor's webhook                      *)
(* (app/public/sms_webhook.py) on the thread pool, and the studio's triage *)
(* of the threads (app/admin/studio.py).  A thread is an inquiry with a    *)
(* phone number; the vendor sends an event again until it is answered.     *)
(***************************************************************************)
EXTENDS Naturals, FiniteSets

CONSTANTS
  Threads,       \* inquiry ids, in the order they are given out
  Numbers,       \* phone numbers, by their last ten digits
  Texts, Calls,  \* provider ids of the vendor's events
  Notes,         \* what transcript and summary events add to a call
  From,          \* the number of each event
  Handlers,      \* webhook requests at work at once
  NoThread, NoNumber

ASSUME TextThreadsAssumption ==
  /\ Threads \subseteq Nat /\ NoThread \notin Threads /\ NoNumber \notin Numbers
  /\ Texts \cap Calls = {} /\ From \in [Texts \cup Calls -> Numbers]

Events == Texts \cup Calls

VARIABLES
  thread,    \* each thread: [number, dismissed]
  bubble,    \* messages by provider id: [thread, notes]
  handler,   \* each request: [at, event, thread, notes]
  \* history
  crossed,   \* numbers of which two first events were at work at once
  shelved,   \* events whose thread was dismissed while they were at work or later
  sent,      \* pairs of a call and a note whose enrichment was answered
  overlaid   \* calls of which two enrichments were at work at once

textVars == <<thread, bubble, handler, crossed, shelved, sent, overlaid>>

FreeHandler == [at |-> "idle", event |-> NoThread, thread |-> NoThread, notes |-> {}]
NoBubble == [thread |-> NoThread, notes |-> {}]

TextInit ==
  /\ thread = [t \in Threads |-> [number |-> NoNumber, dismissed |-> FALSE]]
  /\ bubble = [e \in Events |-> NoBubble]
  /\ handler = [h \in Handlers |-> FreeHandler]
  /\ crossed = {} /\ shelved = {} /\ sent = {} /\ overlaid = {}

-----------------------------------------------------------------------------
\* The most recent thread of a number.
Of(n) == {t \in Threads : thread[t].number = n}
MatchInquiryMut(n) == NoThread
MatchInquiry(n) ==
  IF Of(n) = {} THEN NoThread ELSE CHOOSE t \in Of(n) : \A u \in Of(n) : u <= t

Handles(h, task) == handler' = [handler EXCEPT ![h] = task]
Answers(h) == Handles(h, FreeHandler)

Creating(n) == \E h \in Handlers : handler[h].at = "create" /\ From[handler[h].event] = n

\* The thread of a text is brought back if it was dismissed.
ArchivedMut(t) == FALSE
Archived(t) == thread[t].dismissed

\* A text or a completed call: the thread is looked up first.
Receive(h, e) ==
  LET t == MatchInquiry(From[e]) IN
  /\ handler[h] = FreeHandler
  /\ Handles(h, [FreeHandler EXCEPT !.event = e, !.thread = t,
       !.at = IF t = NoThread THEN "create" ELSE IF Archived(t) THEN "reopen" ELSE "insert"])
  /\ crossed' = IF t = NoThread /\ Creating(From[e]) THEN crossed \cup {From[e]} ELSE crossed
  /\ UNCHANGED <<thread, bubble, shelved, sent, overlaid>>

\* A number never seen gets a thread of its own; no key keeps a second one out.
CreateThread(h) ==
  /\ handler[h].at = "create"
  /\ \E t \in Threads :
       /\ thread[t].number = NoNumber /\ \A u \in Threads : u < t => thread[u].number # NoNumber
       /\ thread' = [thread EXCEPT ![t].number = From[handler[h].event]]
       /\ handler' = [handler EXCEPT ![h].at = "insert", ![h].thread = t]
  /\ UNCHANGED <<bubble, crossed, shelved, sent, overlaid>>

\* Fresh activity brings a dismissed thread back.
ReopenThread(h) ==
  /\ handler[h].at = "reopen"
  /\ thread' = [thread EXCEPT ![handler[h].thread].dismissed = FALSE]
  /\ handler' = [handler EXCEPT ![h].at = "insert"]
  /\ UNCHANGED <<bubble, crossed, shelved, sent, overlaid>>

\* The provider's id is unique: an event received before is a duplicate.
InsertMessage(h) ==
  LET e == handler[h].event IN
  /\ handler[h].at = "insert"
  /\ bubble' = IF bubble[e] = NoBubble
               THEN [bubble EXCEPT ![e].thread = handler[h].thread] ELSE bubble
  /\ Answers(h)
  /\ UNCHANGED <<thread, crossed, shelved, sent, overlaid>>

\* A transcript or a summary is appended to the call's text as it was read; of
\* a call not there yet it is dropped.
Enriching(c) == \E h \in Handlers : handler[h].at = "append" /\ handler[h].event = c
EnrichCall(h, c, note) ==
  /\ handler[h] = FreeHandler
  /\ bubble[c] # NoBubble
  /\ Handles(h, [FreeHandler EXCEPT !.at = "append", !.event = c,
                                    !.notes = bubble[c].notes \cup {note}])
  /\ overlaid' = IF Enriching(c) THEN overlaid \cup {c} ELSE overlaid
  /\ UNCHANGED <<thread, bubble, crossed, shelved, sent>>

AppendNote(h) ==
  LET c == handler[h].event IN
  /\ handler[h].at = "append"
  /\ bubble' = [bubble EXCEPT ![c].notes = handler[h].notes]
  /\ sent' = sent \cup ({c} \X handler[h].notes)
  /\ Answers(h)
  /\ UNCHANGED <<thread, crossed, shelved, overlaid>>

\* A request that fails or is killed; the vendor sends the event again.
HandlerFails(h) ==
  /\ handler[h] # FreeHandler
  /\ Answers(h)
  /\ UNCHANGED <<thread, bubble, crossed, shelved, sent, overlaid>>

-----------------------------------------------------------------------------
\* inquiry_dismiss and inquiry_undismiss.
OnThread(t) == {e \in Events : bubble[e].thread = t
                  \/ \E h \in Handlers : handler[h].event = e /\ handler[h].thread = t}
Dismiss(t) ==
  /\ thread[t].number # NoNumber
  /\ thread' = [thread EXCEPT ![t].dismissed = TRUE]
  /\ shelved' = shelved \cup OnThread(t)
  /\ UNCHANGED <<bubble, handler, crossed, sent, overlaid>>

Undismiss(t) ==
  /\ thread[t].dismissed
  /\ thread' = [thread EXCEPT ![t].dismissed = FALSE]
  /\ UNCHANGED <<bubble, handler, crossed, shelved, sent, overlaid>>

TextNext ==
  \/ \E h \in Handlers :
       \/ \E e \in Events : Receive(h, e)
       \/ CreateThread(h) \/ ReopenThread(h) \/ InsertMessage(h)
       \/ AppendNote(h) \/ HandlerFails(h)
       \/ \E c \in Calls, note \in Notes : EnrichCall(h, c, note)
  \/ \E t \in Threads : Dismiss(t) \/ Undismiss(t)

TextSpec == TextInit /\ [][TextNext]_textVars

-----------------------------------------------------------------------------
TextTypeOK ==
  /\ thread \in [Threads -> [number : Numbers \cup {NoNumber}, dismissed : BOOLEAN]]
  /\ bubble \in [Events -> [thread : Threads \cup {NoThread}, notes : SUBSET Notes]]
  /\ handler \in [Handlers -> [at : {"idle", "create", "reopen", "insert", "append"},
                               event : Events \cup {NoThread}, thread : Threads \cup {NoThread},
                               notes : SUBSET Notes]]
  /\ crossed \subseteq Numbers /\ shelved \subseteq Events
  /\ sent \subseteq Calls \X Notes /\ overlaid \subseteq Calls

\* 'don't fork a contact into two threads' (sms_webhook.py:55): a number has one
\* thread, however often the vendor repeats its events, unless two first events
\* were at work at once; and a message hangs on a thread of its number.
OneThreadPerNumber ==
  /\ \A n \in Numbers \ crossed, t, u \in Threads :
       thread[t].number = n /\ thread[u].number = n => t = u
  /\ \A e \in Events : bubble[e] # NoBubble => thread[bubble[e].thread].number = From[e]

\* 'otherwise the new text/call lands silently in the archive' (sms_webhook.py:75):
\* a message is in a dismissed thread only if the thread was dismissed while its
\* event was at work or later.
NothingNewArchived ==
  \A e \in Events \ shelved : bubble[e] # NoBubble => ~thread[bubble[e].thread].dismissed

\* 'later transcript/summary events append voicemail text to that same row'
\* (sms_webhook.py:12): what was appended stays, unless two events of the call
\* were at work at once.
NotesSurvive ==
  \A pair \in sent : pair[2] \in bubble[pair[1]].notes \/ pair[1] \in overlaid
=============================================================================
