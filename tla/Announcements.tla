---------------------------- MODULE Announcements ----------------------------
(***************************************************************************)
(* Letters to the list: app/announcements.py, app/admin/announcements.py,  *)
(* app/public/unsubscribe.py.  One job is staged per address with the row  *)
(* of the letter; each job looks at the ledger of unsubscribes again,      *)
(* waits a second or two, sends, and counts.  Of the queue, whose threads  *)
(* and dispatch are JobQueue's, this keeps what becomes of a row: claimed, *)
(* done, failed, left running, queued again at a start or by the operator. *)
(***************************************************************************)
EXTENDS Naturals, FiniteSets

CONSTANTS
  People,      \* addresses
  Letters,     \* rows of announcements
  MaxTries,    \* MAX_ATTEMPTS of jobs.py
  MaxClaims,   \* bound: no kill finds a running job claimed as often since its last retry
  MaxPresses   \* bound: how often the operator retries a job

ASSUME AnnouncementsAssumption ==
  IsFiniteSet(People) /\ MaxTries \in Nat \ {0} /\ MaxClaims \in Nat /\ MaxPresses \in Nat

VARIABLES
  listed,      \* addresses in clients.email or visitors.email
  gone,        \* unsubscribes
  letter,      \* rows: [there, audience, sent, skipped]
  writing,     \* each letter's request: the audience it has read, before the transaction
  post,        \* each job's row: [status, tries, waits]; waits: next_attempt_at is set
  postman,     \* each running job's place
  \* history
  sentTo,      \* how often each letter reached each address
  unsure,      \* jobs an attempt of which ended with its letter out and not counted
  recount,     \* jobs that counted in an attempt that ended before they were recorded done
  hurried,     \* jobs that had looked at the ledger when their address left it
  wronged,     \* jobs whose letter went to an address that had left it
  pressed      \* how often the operator has retried a job

announceVars == <<listed, gone, letter, writing, post, postman, sentTo, unsure, recount, hurried, wronged, pressed>>

Posts == Letters \X People
ledger == <<listed, gone>>
doubts == <<unsure, recount, hurried>>
NoPost == [status |-> "none", tries |-> 0, waits |-> FALSE]
NewPost == [status |-> "queued", tries |-> 0, waits |-> FALSE]

AnnounceInit ==
  /\ listed = {} /\ gone = {}
  /\ letter = [l \in Letters |-> [there |-> FALSE, audience |-> 0, sent |-> 0, skipped |-> 0]]
  /\ writing = [l \in Letters |-> [open |-> FALSE, people |-> {}]]
  /\ post = [j \in Posts |-> NoPost]
  /\ postman = [j \in Posts |-> "idle"]
  /\ sentTo = [j \in Posts |-> 0]
  /\ unsure = {} /\ recount = {} /\ hurried = {} /\ wronged = {} /\ pressed = 0

-----------------------------------------------------------------------------
\* A client's row, or the email gate of a gallery (public/downloads.py, capture_email).
IsListed(p) ==
  /\ p \notin listed /\ listed' = listed \cup {p}
  /\ UNCHANGED <<gone, letter, writing, post, postman, sentTo, doubts, wronged, pressed>>

\* The button on the page the link in a letter leads to; again is no change.
Unsubscribe(p) ==
  /\ p \notin gone /\ gone' = gone \cup {p}
  /\ hurried' = hurried \cup {j \in Posts : j[2] = p /\ postman[j] = "sleep"}
  /\ UNCHANGED <<listed, letter, writing, post, postman, sentTo, unsure, recount, wronged, pressed>>

-----------------------------------------------------------------------------
(* enqueue_send *)

Audience == listed \ gone
ReadAudience(l) ==
  /\ ~letter[l].there /\ ~writing[l].open
  /\ writing' = [writing EXCEPT ![l] = [open |-> TRUE, people |-> Audience]]
  /\ UNCHANGED <<ledger, letter, post, postman, sentTo, doubts, wronged, pressed>>

\* One transaction: the row and a staged job for each address.
StageLetter(l) ==
  /\ writing[l].open
  /\ letter' = [letter EXCEPT ![l] = [there |-> TRUE, audience |-> Cardinality(writing[l].people),
                                      sent |-> 0, skipped |-> 0]]
  /\ post' = [j \in Posts |-> IF j[1] = l /\ j[2] \in writing[l].people
                              THEN NewPost ELSE post[j]]
  /\ writing' = [writing EXCEPT ![l] = [open |-> FALSE, people |-> {}]]
  /\ UNCHANGED <<ledger, postman, sentTo, doubts, wronged, pressed>>

-----------------------------------------------------------------------------
(* deliver, the job's handler *)

Moves(j, p) == postman' = [postman EXCEPT ![j] = p]
Counts(l, f) == letter' = [letter EXCEPT ![l][f] = @ + 1]

Claim(j) ==
  /\ post[j].status = "queued"
  /\ post' = [post EXCEPT ![j] = [@ EXCEPT !.status = "running", !.tries = post[j].tries + 1]]
  /\ Moves(j, "check")
  /\ UNCHANGED <<ledger, letter, writing, sentTo, doubts, wronged, pressed>>

\* The ledger, once more; then the sleep.
HasLeftMut(p) == FALSE
HasLeft(p)    == p \in gone
CheckLedger(j) ==
  /\ postman[j] = "check"
  /\ Moves(j, IF HasLeft(j[2]) THEN "skip" ELSE "sleep")
  /\ UNCHANGED <<ledger, letter, writing, post, sentTo, doubts, wronged, pressed>>

CountSkipped(j) ==
  /\ postman[j] = "skip" /\ Counts(j[1], "skipped") /\ Moves(j, "done")
  /\ UNCHANGED <<ledger, writing, post, sentTo, doubts, wronged, pressed>>

\* The letter is out, and the call may yet fail.
SendLetter(j) ==
  /\ postman[j] = "sleep"
  /\ sentTo' = [sentTo EXCEPT ![j] = @ + 1]
  /\ wronged' = IF j[2] \in gone THEN wronged \cup {j} ELSE wronged
  /\ Moves(j, "count")
  /\ UNCHANGED <<ledger, letter, writing, post, doubts, pressed>>

CountSent(j) ==
  /\ postman[j] = "count" /\ Counts(j[1], "sent") /\ Moves(j, "done")
  /\ UNCHANGED <<ledger, writing, post, sentTo, doubts, wronged, pressed>>

PostDone(j) ==
  /\ postman[j] = "done"
  /\ post' = [post EXCEPT ![j] = [@ EXCEPT !.status = "done", !.waits = FALSE]] /\ Moves(j, "idle")
  /\ UNCHANGED <<ledger, letter, writing, sentTo, doubts, wronged, pressed>>

\* An attempt ends with its work done in part.
CutsOff(J) ==
  /\ unsure'  = unsure \cup {j \in J : postman[j] = "count"}
  /\ recount' = recount \cup {j \in J : postman[j] = "done"}
  /\ hurried' = hurried

\* An error of the database, of the mailer or of the write of 'done': another attempt
\* after a wait, or none; if the write of that fails too, the row stays 'running'.
AfterError(row) ==
  IF row.tries < MaxTries THEN [row EXCEPT !.status = "queued", !.waits = TRUE]
  ELSE [row EXCEPT !.status = "failed", !.waits = FALSE]
PostRaises(j) ==
  /\ postman[j] # "idle"
  /\ CutsOff({j}) /\ Moves(j, "idle")
  /\ \/ post' = [post EXCEPT ![j] = AfterError(post[j])]
     \/ UNCHANGED post
  /\ UNCHANGED <<ledger, letter, writing, sentTo, wronged, pressed>>

\* retry: the operator runs a job that failed, or one that waits, as if it never had.
RetryPost(j) ==
  /\ pressed < MaxPresses /\ pressed' = pressed + 1
  /\ post[j].status = "failed" \/ (post[j].status = "queued" /\ post[j].waits)
  /\ post' = [post EXCEPT ![j] = NewPost]
  /\ UNCHANGED <<ledger, letter, writing, postman, sentTo, doubts, wronged>>

\* A kill and the start after it: every running row is queued again, whatever its tries.
AnnounceKill ==
  /\ \A j \in Posts : post[j].status = "running" => post[j].tries < MaxClaims
  /\ CutsOff(Posts)
  /\ postman' = [j \in Posts |-> "idle"]
  /\ post' = [j \in Posts |-> IF post[j].status = "running" THEN [post[j] EXCEPT !.status = "queued"]
                              ELSE post[j]]
  /\ writing' = [l \in Letters |-> [open |-> FALSE, people |-> {}]]
  /\ UNCHANGED <<ledger, letter, sentTo, wronged, pressed>>

AnnounceNext ==
  \/ \E p \in People : IsListed(p) \/ Unsubscribe(p)
  \/ \E l \in Letters : ReadAudience(l) \/ StageLetter(l)
  \/ \E j \in Posts : \/ Claim(j) \/ CheckLedger(j) \/ CountSkipped(j) \/ SendLetter(j)
                      \/ CountSent(j) \/ PostDone(j) \/ PostRaises(j) \/ RetryPost(j)
  \/ AnnounceKill

AnnounceSpec == AnnounceInit /\ [][AnnounceNext]_announceVars

-----------------------------------------------------------------------------
(* Properties *)

AnnounceTypeOK ==
  /\ listed \subseteq People /\ gone \subseteq People
  /\ letter \in [Letters -> [there : BOOLEAN, audience : Nat, sent : Nat, skipped : Nat]]
  /\ writing \in [Letters -> [open : BOOLEAN, people : SUBSET People]]
  /\ post \in [Posts -> [status : {"none", "queued", "running", "done", "failed"},
                     tries : Nat, waits : BOOLEAN]]
  /\ postman \in [Posts -> {"idle", "check", "skip", "sleep", "count", "done"}]
  /\ sentTo \in [Posts -> Nat]
  /\ unsure \subseteq Posts /\ recount \subseteq Posts /\ hurried \subseteq Posts /\ wronged \subseteq Posts
  /\ pressed \in Nat

\* A letter goes to one who has unsubscribed only if they did so in the second or two
\* between the look at the ledger and the send (app/announcements.py:121-136).
LeaversAreLeftAlone == wronged \subseteq hurried

\* Nobody gets a letter twice, whatever is killed, fails or is retried by the operator,
\* unless an attempt ended with the letter out and not counted, or counted and not
\* recorded done (app/announcements.py:135-141, app/jobs.py:427-441).
LetterTwiceHasACause == \A j \in Posts : sentTo[j] > 1 => j \in unsure \cup recount

\* The counts of a letter are those of its jobs: of the done ones (pruned since or not),
\* and of the running ones that have counted; none counts twice but one whose attempt
\* ended between its count and the write of 'done', by a kill or because that write
\* failed (app/announcements.py:122-126, 138-141, app/jobs.py:427-441).
CountsAreTrue ==
  \A l \in Letters :
    LET mine == {j \in Posts : j[1] = l}
        counted == {j \in mine : post[j].status = "done" \/ postman[j] = "done"}
    IN  /\ recount \cap mine = {} => letter[l].sent + letter[l].skipped = Cardinality(counted)
        /\ letter[l].there => letter[l].audience = Cardinality({j \in mine : post[j].status # "none"})

ListIsTreatedWell == LeaversAreLeftAlone /\ LetterTwiceHasACause /\ CountsAreTrue
=============================================================================
