--------------------------- MODULE ReviewThreads ---------------------------
(***************************************************************************)
(* The review of one photo or film (app/gallery_comments.py, the comment   *)
(* routes of app/public/gallery.py and app/admin/galleries.py): threads of *)
(* comments that the studio resolves, reopens and hides and that a         *)
(* client's reply reopens.                                                 *)
(*                                                                         *)
(* Every route checks in statements of its own and writes in a transaction *)
(* that does not check again; requests of clients and of the studio        *)
(* overlap.  Comments are numbered in the order of their insertion.        *)
(***************************************************************************)
EXTENDS Naturals, FiniteSets

CONSTANTS
  Comments,    \* rows of video_comments, 1..n
  Reviewers,   \* threads serving the comment routes
  NoComment    \* SQL NULL

ASSUME ReviewAssumption ==
  /\ Comments \subseteq Nat \ {0} /\ IsFiniteSet(Comments) /\ NoComment \notin Comments

VARIABLES
  comment,     \* rows: [there, parent, role, hidden, status]
  logged,      \* audit_log: the status its last row about each root names
  review,      \* each thread's place and locals
  \* history
  heard,       \* replies that were there when the resolve now in force was checked
  raced        \* comments inserted or hidden while a request that had checked was under way

reviewVars == <<comment, logged, review, heard, raced>>

NoRow     == [there |-> FALSE, parent |-> NoComment, role |-> "client", hidden |-> FALSE, status |-> "open"]
NoReview  == [at |-> "idle", on |-> NoComment, to |-> "open", saw |-> {}]

ReviewInit ==
  /\ comment = [c \in Comments |-> NoRow]
  /\ logged = [c \in Comments |-> "open"]
  /\ review = [r \in Reviewers |-> NoReview]
  /\ heard = {} /\ raced = {}

Present     == {c \in Comments : comment[c].there}
Parent(c) == comment[c].parent

\* The recursive queries: a comment with all below it, and the root above it.
Subtree(c) ==
  {d \in Present : \A S \in SUBSET Present :
     /\ c \in S
     /\ \A e \in Present : Parent(e) \in S => e \in S
     => d \in S}
RootOf(c) == CHOOSE d \in Present : Parent(d) = NoComment /\ c \in Subtree(d)

Answered(r) == review' = [review EXCEPT ![r] = NoReview]
Begin(r, at, on, to) ==
  /\ review[r] = NoReview
  /\ review' = [review EXCEPT ![r] = [at |-> at, on |-> on, to |-> to,
                                     saw |-> IF at = "transition" THEN Present ELSE {}]]

-----------------------------------------------------------------------------
(* Writing *)

Visible(c) == c \in Present /\ ~comment[c].hidden

\* resolve_comment_parent.  The gate of a client, a live gallery and a ready
\* asset, only refuses requests, and a request is free not to come.
ClientWrites(r) ==
  /\ \E p \in {c \in Comments : Visible(c)} \cup {NoComment} : Begin(r, "client", p, "open")
  /\ UNCHANGED <<comment, logged, heard, raced>>

AdminWrites(r) ==
  /\ \E p \in {c \in Comments : Visible(c)} \cup {NoComment} : Begin(r, "admin", p, "open")
  /\ UNCHANGED <<comment, logged, heard, raced>>

\* A reply brings a resolved thread back, unless its root is hidden.
ReopensMut(root) == FALSE
Reopens(root) == comment[root].status = "resolved" /\ ~comment[root].hidden

Written(c, p, role, under) ==
  [d \in Comments |->
     IF d = c THEN [there |-> TRUE, parent |-> p, role |-> role, hidden |-> FALSE, status |-> "open"]
     ELSE IF d \in under THEN [comment[d] EXCEPT !.status = "open"] ELSE comment[d]]

Insert(r) ==
  LET p == review[r].on
      c == Cardinality(Present) + 1
      role == review[r].at
      reopens == role = "client" /\ p # NoComment /\ Reopens(RootOf(p))
  IN
  /\ role \in {"client", "admin"} /\ c \in Comments
  /\ comment' = Written(c, p, role, IF reopens THEN Subtree(RootOf(p)) ELSE {})
  /\ logged' = IF reopens THEN [logged EXCEPT ![RootOf(p)] = "open"] ELSE logged
  /\ heard' = IF reopens THEN heard \ Subtree(RootOf(p)) ELSE heard
  /\ raced' = IF p # NoComment /\ ~Visible(p) THEN raced \cup {c} ELSE raced
  /\ Answered(r)

-----------------------------------------------------------------------------
(* Moderation and the two states of a thread *)

HideBegin(r) ==
  /\ \E c \in Present : Begin(r, "hide", c, "open")
  /\ UNCHANGED <<comment, logged, heard, raced>>

HiddenMut(c) == {c}
\* The comment and every reply below it.
Hidden(c) == Subtree(c)

HideSave(r) ==
  LET c == review[r].on IN
  /\ review[r].at = "hide"
  /\ comment' = [d \in Comments |->
                   IF d \in Hidden(c) THEN [comment[d] EXCEPT !.hidden = TRUE] ELSE comment[d]]
  /\ Answered(r) /\ UNCHANGED <<logged, heard, raced>>

\* A transition is checked on a visible root in the state it leaves.
TransitionBegin(r) ==
  /\ \E c \in Present, to \in {"open", "resolved"} :
       /\ Visible(c) /\ Parent(c) = NoComment /\ comment[c].status # to
       /\ Begin(r, "transition", c, to)
  /\ UNCHANGED <<comment, logged, heard, raced>>

LoggedMut(c, to) == logged
Logged(c, to) == [logged EXCEPT ![c] = to]

TransitionSave(r) ==
  LET c == review[r].on  to == review[r].to  under == Subtree(c) IN
  /\ review[r].at = "transition"
  /\ comment' = [d \in Comments |->
                   IF d \in under THEN [comment[d] EXCEPT !.status = to] ELSE comment[d]]
  /\ logged' = Logged(c, to)
  /\ heard' = IF to = "resolved" THEN heard \cup (under \cap review[r].saw) ELSE heard \ under
  /\ raced' = IF to = "resolved" THEN raced \cup (under \ review[r].saw) ELSE raced
  /\ Answered(r)

\* An error or a kill: the request ends with nothing written.
ReviewEnds(r) ==
  /\ review[r] # NoReview /\ Answered(r)
  /\ UNCHANGED <<comment, logged, heard, raced>>

ReviewNext ==
  \E r \in Reviewers :
       \/ ClientWrites(r) \/ AdminWrites(r) \/ Insert(r) \/ HideBegin(r) \/ HideSave(r)
       \/ TransitionBegin(r) \/ TransitionSave(r) \/ ReviewEnds(r)

ReviewSpec == ReviewInit /\ [][ReviewNext]_reviewVars

-----------------------------------------------------------------------------
ReviewTypeOK ==
  /\ comment \in [Comments -> [there : BOOLEAN, parent : Comments \cup {NoComment}, role : {"client", "admin"},
                               hidden : BOOLEAN, status : {"open", "resolved"}]]
  /\ logged \in [Comments -> {"open", "resolved"}]
  /\ review \in [Reviewers -> [at : {"idle", "client", "admin", "hide", "transition"},
                               on : Comments \cup {NoComment}, to : {"open", "resolved"},
                               saw : SUBSET Comments]]
  /\ heard \subseteq Present /\ raced \subseteq Comments

\* 'So no reply dangles under a hidden parent' (admin/galleries.py:968): a
\* visible reply has a visible parent, unless the parent was hidden between the
\* check and the insert of the reply.
NoReplyDangles ==
  \A c \in Present : Visible(c) /\ Parent(c) # NoComment => Visible(Parent(c)) \/ c \in raced

\* A client's reply in a resolved thread was there when the studio looked at the
\* thread it resolved, or came in while the resolve was under way.
NoReplyIsBuried ==
  \A c \in Present :
    /\ comment[c].role = "client" /\ Parent(c) # NoComment
    /\ Visible(RootOf(c)) /\ comment[RootOf(c)].status = "resolved"
    => c \in heard \cup raced

\* 'Every status change is traceable' (public/gallery.py:480): the last row
\* of the audit log about a root's status names the status it has.
TrailTellsTheStatus ==
  \A c \in Present : Parent(c) = NoComment => comment[c].status = logged[c]

ThreadsAreSound == NoReplyDangles /\ NoReplyIsBuried /\ TrailTellsTheStatus
=============================================================================
