------------------------------ MODULE OwnerMail ------------------------------
(***************************************************************************)
(* The owner's mail about a new inquiry (app/inquiry_notify.py): the form  *)
(* stores the inquiry and then enqueues a job; a job claims the mail,      *)
(* sends it and stamps it; the studio may retry it or answer by hand       *)
(* (app/admin/inbox.py).  The queue runs a job at least once and several   *)
(* jobs at once (JobQueue).  A claim older than five minutes is stale.     *)
(***************************************************************************)
EXTENDS Naturals

CONSTANTS
  Inquiries,   \* row ids
  Senders,     \* threads of the job pool
  InboxTabs,   \* requests at work at once, the visitor's or the studio's
  MaxMailJobs, \* bound: jobs waiting for one inquiry
  MaxOwnerMails, \* bound: mails about one inquiry
  NoInquiry

ASSUME OwnerMailAssumption ==
  /\ MaxMailJobs \in Nat \ {0} /\ MaxOwnerMails \in Nat /\ NoInquiry \notin Inquiries

VARIABLES
  inquiry,   \* each inquiry: [there, status, stale, delivered]; stale is the age of its claim
  mailJobs,  \* jobs waiting for each inquiry
  sender,    \* each thread: [at, inquiry]
  inboxTab,  \* each request: [at, inquiry]
  \* history
  ownerMails,  \* mails about each inquiry that reached the owner
  answered,    \* inquiries answered by hand
  unclaimed,   \* inquiries whose claim was taken over or reset, or whose mail arrived with an error
  abandoned    \* inquiries of which a job gave up, or was never enqueued

ownerMailVars == <<inquiry, mailJobs, sender, inboxTab, ownerMails, answered, unclaimed, abandoned>>

FreeSender == [at |-> "idle", inquiry |-> NoInquiry]

OwnerMailInit ==
  /\ inquiry = [i \in Inquiries |-> [there |-> FALSE, status |-> "pending", stale |-> FALSE,
                                     delivered |-> FALSE]]
  /\ mailJobs = [i \in Inquiries |-> 0]
  /\ sender = [s \in Senders |-> FreeSender]
  /\ inboxTab = [r \in InboxTabs |-> FreeSender]
  /\ ownerMails = [i \in Inquiries |-> 0]
  /\ answered = {} /\ unclaimed = {} /\ abandoned = {}

-----------------------------------------------------------------------------
Tab(r, at, i) == inboxTab' = [inboxTab EXCEPT ![r] = [at |-> at, inquiry |-> i]]
CloseTab(r) == inboxTab' = [inboxTab EXCEPT ![r] = FreeSender]

\* submit_inquiry stores the lead before anything can fail.
SubmitInquiry(r, i) ==
  /\ inboxTab[r] = FreeSender
  /\ ~inquiry[i].there
  /\ inquiry' = [inquiry EXCEPT ![i].there = TRUE]
  /\ Tab(r, "enqueue", i)
  /\ UNCHANGED <<mailJobs, sender, ownerMails, answered, unclaimed, abandoned>>

\* One job, unless the mail is delivered; other jobs are not looked for.
EnqueueOwnerEmail(r) ==
  LET i == inboxTab[r].inquiry IN
  /\ inboxTab[r].at = "enqueue"
  /\ IF inquiry[i].delivered THEN UNCHANGED mailJobs
     ELSE mailJobs[i] < MaxMailJobs /\ mailJobs' = [mailJobs EXCEPT ![i] = @ + 1]
  /\ CloseTab(r)
  /\ UNCHANGED <<inquiry, sender, ownerMails, answered, unclaimed, abandoned>>

\* The retry button: 'Clear failed/in_flight so the claim path can run again.'
RetryOwnerEmail(r, i) ==
  \/ /\ inboxTab[r] = FreeSender
     /\ inquiry[i].there /\ ~inquiry[i].delivered
     /\ Tab(r, "reset", i)
     /\ UNCHANGED <<inquiry, mailJobs, sender, ownerMails, answered, unclaimed, abandoned>>
  \/ /\ inboxTab[r] = [at |-> "reset", inquiry |-> i]
     /\ IF inquiry[i].delivered THEN UNCHANGED <<inquiry, unclaimed>>
        ELSE /\ inquiry' = [inquiry EXCEPT ![i].status = "failed", ![i].stale = FALSE]
             /\ unclaimed' = IF inquiry[i].status = "in_flight" THEN unclaimed \cup {i} ELSE unclaimed
     /\ Tab(r, "enqueue", i)
     /\ UNCHANGED <<mailJobs, sender, ownerMails, answered, abandoned>>

\* An answer by mail counts as the delivery, once it is sent.
Reply(r, i) ==
  \/ /\ inboxTab[r] = FreeSender
     /\ inquiry[i].there
     /\ Tab(r, "answered", i)
     /\ UNCHANGED <<inquiry, mailJobs, sender, ownerMails, answered, unclaimed, abandoned>>
  \/ /\ inboxTab[r] = [at |-> "answered", inquiry |-> i]
     /\ inquiry' = [inquiry EXCEPT ![i].status = "delivered", ![i].delivered = TRUE]
     /\ answered' = answered \cup {i}
     /\ CloseTab(r)
     /\ UNCHANGED <<mailJobs, sender, ownerMails, unclaimed, abandoned>>

-----------------------------------------------------------------------------
Works(s, at) == sender' = [sender EXCEPT ![s].at = at]
JobEnds(s) == sender' = [sender EXCEPT ![s] = FreeSender]

\* deliver_owner_email, first look.
DeliverOwnerEmail(s, i) ==
  /\ sender[s] = FreeSender
  /\ mailJobs[i] > 0
  /\ mailJobs' = [mailJobs EXCEPT ![i] = @ - 1]
  /\ sender' = IF inquiry[i].delivered THEN sender
               ELSE [sender EXCEPT ![s] = [at |-> "claim", inquiry |-> i]]
  /\ UNCHANGED <<inquiry, inboxTab, ownerMails, answered, unclaimed, abandoned>>

\* Mutant of JobRaises: the job ends quietly.
JobRaisesMut(s, i) == JobEnds(s) /\ UNCHANGED <<mailJobs, abandoned>>

\* A job that raised: the queue runs it again, or gives it up.
JobRaises(s, i) ==
  /\ JobEnds(s)
  /\ \/ /\ mailJobs[i] < MaxMailJobs
        /\ mailJobs' = [mailJobs EXCEPT ![i] = @ + 1]
        /\ UNCHANGED abandoned
     \/ /\ abandoned' = abandoned \cup {i}
        /\ UNCHANGED mailJobs

\* The mail is free to claim, or its claim is stale.
ClaimableMut(i) == TRUE
Claimable(i) == inquiry[i].status # "in_flight" \/ inquiry[i].stale

ClaimSend(s) ==
  LET i == sender[s].inquiry IN
  /\ sender[s].at = "claim"
  /\ \/ /\ ~inquiry[i].delivered /\ Claimable(i)
        /\ inquiry' = [inquiry EXCEPT ![i].status = "in_flight", ![i].stale = FALSE]
        /\ unclaimed' = IF inquiry[i].stale THEN unclaimed \cup {i} ELSE unclaimed
        /\ Works(s, "send")
        /\ UNCHANGED <<mailJobs, abandoned>>
     \/ /\ inquiry[i].delivered
        /\ JobEnds(s)
        /\ UNCHANGED <<inquiry, mailJobs, unclaimed, abandoned>>
     \/ /\ ~inquiry[i].delivered /\ ~Claimable(i)
        /\ JobRaises(s, i)
        /\ UNCHANGED <<inquiry, unclaimed>>
  /\ UNCHANGED <<inboxTab, ownerMails, answered>>

\* SMTP takes the mail, takes it but answers with an error, or refuses it, as
\* it does when no mailer is configured.
MailerSend(s) ==
  LET i == sender[s].inquiry IN
  /\ sender[s].at = "send"
  /\ \/ /\ ownerMails[i] < MaxOwnerMails
        /\ ownerMails' = [ownerMails EXCEPT ![i] = @ + 1]
        /\ \/ Works(s, "stamp") /\ UNCHANGED unclaimed
           \/ Works(s, "fail") /\ unclaimed' = unclaimed \cup {i}
     \/ Works(s, "fail") /\ UNCHANGED <<ownerMails, unclaimed>>
  /\ UNCHANGED <<inquiry, mailJobs, inboxTab, answered, abandoned>>

StampDelivered(s) ==
  /\ sender[s].at = "stamp"
  /\ inquiry' = [inquiry EXCEPT ![sender[s].inquiry] =
                   [@ EXCEPT !.status = "delivered", !.delivered = TRUE]]
  /\ JobEnds(s)
  /\ UNCHANGED <<mailJobs, inboxTab, ownerMails, answered, unclaimed, abandoned>>

\* The failure is written whoever holds the claim by then.
RecordFailure(s) ==
  LET i == sender[s].inquiry IN
  /\ sender[s].at = "fail"
  /\ inquiry' = IF inquiry[i].delivered THEN inquiry
                ELSE [inquiry EXCEPT ![i].status = "failed", ![i].stale = FALSE]
  /\ JobRaises(s, i)
  /\ UNCHANGED <<inboxTab, ownerMails, answered, unclaimed>>

-----------------------------------------------------------------------------
\* Five minutes pass.
ClaimAges(i) ==
  /\ inquiry[i].status = "in_flight" /\ ~inquiry[i].stale
  /\ inquiry' = [inquiry EXCEPT ![i].stale = TRUE]
  /\ UNCHANGED <<mailJobs, sender, inboxTab, ownerMails, answered, unclaimed, abandoned>>

\* A kill: the restart queues again what was running; a request is lost.
Running(i) == \E s \in Senders : sender[s].inquiry = i
Kill ==
  /\ \E s \in Senders : sender[s] # FreeSender
  /\ mailJobs' = [i \in Inquiries |-> IF Running(i) /\ mailJobs[i] < MaxMailJobs
                                      THEN mailJobs[i] + 1 ELSE mailJobs[i]]
  /\ sender' = [s \in Senders |-> FreeSender]
  /\ inboxTab' = [r \in InboxTabs |-> FreeSender]
  /\ abandoned' = abandoned \cup {inboxTab[r].inquiry : r \in {q \in InboxTabs :
                                                               inboxTab[q].at = "enqueue"}}
  /\ UNCHANGED <<inquiry, ownerMails, answered, unclaimed>>

\* A request that fails half-way.
TabFails(r) ==
  /\ inboxTab[r] # FreeSender
  /\ abandoned' = IF inboxTab[r].at = "enqueue" THEN abandoned \cup {inboxTab[r].inquiry} ELSE abandoned
  /\ CloseTab(r)
  /\ UNCHANGED <<inquiry, mailJobs, sender, ownerMails, answered, unclaimed>>

OwnerMailNext ==
  \/ \E r \in InboxTabs :
       \/ EnqueueOwnerEmail(r) \/ TabFails(r)
       \/ \E i \in Inquiries : SubmitInquiry(r, i) \/ RetryOwnerEmail(r, i) \/ Reply(r, i)
  \/ \E s \in Senders :
       \/ ClaimSend(s) \/ MailerSend(s) \/ StampDelivered(s) \/ RecordFailure(s)
       \/ \E i \in Inquiries : DeliverOwnerEmail(s, i)
  \/ Kill
  \/ \E i \in Inquiries : ClaimAges(i)

OwnerMailSpec == OwnerMailInit /\ [][OwnerMailNext]_ownerMailVars

-----------------------------------------------------------------------------
OwnerMailTypeOK ==
  /\ inquiry \in [Inquiries -> [there : BOOLEAN, stale : BOOLEAN, delivered : BOOLEAN,
                                status : {"pending", "in_flight", "failed", "delivered"}]]
  /\ mailJobs \in [Inquiries -> 0..MaxMailJobs]
  /\ sender \in [Senders -> [at : {"idle", "claim", "send", "stamp", "fail"},
                             inquiry : Inquiries \cup {NoInquiry}]]
  /\ inboxTab \in [InboxTabs -> [at : {"idle", "enqueue", "reset", "answered"},
                                 inquiry : Inquiries \cup {NoInquiry}]]
  /\ ownerMails \in [Inquiries -> 0..MaxOwnerMails]
  /\ answered \subseteq Inquiries /\ unclaimed \subseteq Inquiries /\ abandoned \subseteq Inquiries

\* 'concurrent jobs and manual retries cannot double-send' (inquiry_notify.py:4):
\* the owner gets one mail about an inquiry, except where its claim had gone
\* stale, the retry button had reset a claim in flight, or a mail arrived
\* although SMTP reported an error.
OwnerMailedOnce == \A i \in Inquiries : ownerMails[i] > 1 => i \in unclaimed

\* A lead is never silently dropped: what is not delivered has a job, a thread
\* or a request at work on it, or a job that was given up or never enqueued;
\* what is delivered was mailed or answered.
NoLeadDropped ==
  \A i \in Inquiries : inquiry[i].there =>
    IF inquiry[i].delivered THEN ownerMails[i] > 0 \/ i \in answered
    ELSE \/ mailJobs[i] > 0 \/ Running(i) \/ i \in abandoned
         \/ \E r \in InboxTabs : inboxTab[r] = [at |-> "enqueue", inquiry |-> i]

\* Both promises of the owner's mail: heard of once, and never left out.
OwnerHears == OwnerMailedOnce /\ NoLeadDropped
=============================================================================
