----------------------------- MODULE GalleryZip -----------------------------
(***************************************************************************)
(* The full-gallery archive of one published gallery: uploads and          *)
(* deletions (app/admin/uploads.py, app/admin/galleries.py), the handlers  *)
(* _h_image and _h_zip (app/jobs.py), the download route and its wait page *)
(* (app/public/downloads.py) and the cache sweep (app/zip_cache.py).       *)
(*                                                                         *)
(* An archive is a file named after the gallery's content_rev.  Files are  *)
(* modelled as inodes, because a build writes its .part by name: opening   *)
(* it truncates whatever file has that name, and a rename moves whatever   *)
(* file has it, another build's included.  How the queue runs, retries and *)
(* restarts a build is JobQueue's subject; here it is what that promises.  *)
(***************************************************************************)
EXTENDS Naturals, FiniteSets

CONSTANTS
  Assets,      \* rows of the assets table
  Builds,      \* zip_build rows of the jobs table
  Clients,     \* browsers of the gallery's visitors
  PoolSize,    \* config.JOB_WORKERS
  MaxTries,    \* jobs.MAX_ATTEMPTS
  MaxRev,      \* bound: how often uploads and deletions change the gallery
  MaxCrashes,  \* bound: how often the process is killed
  None         \* no file, no revision

ASSUME BoundsAssumption ==
  /\ PoolSize \in Nat \ {0} /\ MaxTries \in Nat \ {0}
  /\ MaxRev \in Nat /\ MaxCrashes \in Nat
ASSUME NoneAssumption ==
  None \notin Builds /\ None \notin Nat /\ None \notin Builds \X Nat

Revs == 0..MaxRev

\* Inodes, by the execution that created them: the build and its attempt.
Files == Builds \X (1..(MaxTries + MaxCrashes))

-----------------------------------------------------------------------------
VARIABLES
  \* the database
  asset,       \* assets.status; "absent" before the insert, "deleted" after
  rev,         \* galleries.content_rev
  row,         \* each build: jobs.status, "absent" before the insert
  target,      \* each build: the rev in its payload
  tries,       \* each build: jobs.attempts
  \* the disk
  originals,   \* assets whose original file is there
  zip, part,   \* by revision: the inode named g{id}-r{rev}.zip, and .part
  holds, made, \* each inode: the assets being put in it; "open", "whole" or "torn"
  lastOpen,    \* each inode: the build that last truncated it
  \* threads
  doomed,      \* assets whose files delete_asset has unlinked, the row still there
  pc, fd, sel, \* each build: its place in _h_zip, the inode open, the rows selected
  req,         \* each browser: the page it is on and the rev that page is about
  \* history and budget
  died,        \* the rev at which each asset was deleted
  twins,       \* revs two builds have written at once
  lost,        \* revs whose archive a build of another rev pruned while current
  crashes

files    == <<zip, part, holds, made, lastOpen>>
gallery  == <<asset, rev, originals, doomed, died>>
queue    == <<row, target, tries>>
builder  == <<pc, fd, sel>>
history  == <<twins, lost, crashes>>
vars     == <<gallery, queue, files, builder, req, history>>

Init ==
  /\ asset = [a \in Assets |-> "absent"]
  /\ rev = 0
  /\ row = [b \in Builds |-> "absent"]
  /\ target = [b \in Builds |-> None]
  /\ tries = [b \in Builds |-> 0]
  /\ originals = {} /\ doomed = {}
  /\ zip = [r \in Revs |-> None] /\ part = [r \in Revs |-> None]
  /\ holds = [i \in Files |-> {}]
  /\ made = [i \in Files |-> "open"]
  /\ lastOpen = [i \in Files |-> None]
  /\ pc = [b \in Builds |-> "idle"]
  /\ fd = [b \in Builds |-> None]
  /\ sel = [b \in Builds |-> {}]
  /\ req = [c \in Clients |-> [at |-> "idle", rev |-> None]]
  /\ died = [a \in Assets |-> None]
  /\ twins = {} /\ lost = {} /\ crashes = 0

-----------------------------------------------------------------------------
(* The studio: uploads, ingest, deletions *)

Ready == {a \in Assets : asset[a] = "ready"}

\* _commit_uploads: the rows, their ingest jobs and the new revision in one
\* transaction, after the originals are on disk.
Upload(A) ==
  /\ A # {} /\ rev < MaxRev
  /\ \A a \in A : asset[a] = "absent"
  /\ asset' = [a \in Assets |-> IF a \in A THEN "processing" ELSE asset[a]]
  /\ originals' = originals \cup A
  /\ rev' = rev + 1
  /\ UNCHANGED <<doomed, died, queue, files, builder, req, history>>

\* _h_image, at once or after an operator's retry: the status alone changes.
Ingest(a) ==
  /\ asset[a] \in {"processing", "failed"} /\ a \in originals
  /\ asset' = [asset EXCEPT ![a] = "ready"]
  /\ UNCHANGED <<rev, originals, doomed, died, queue, files, builder, req, history>>

IngestFails(a) ==
  /\ asset[a] = "processing"
  /\ asset' = [asset EXCEPT ![a] = "failed"]
  /\ UNCHANGED <<rev, originals, doomed, died, queue, files, builder, req, history>>

\* delete_asset unlinks the files before it opens its transaction.
DeleteBegin(a) ==
  /\ asset[a] \in {"processing", "ready", "failed"}
  /\ originals' = originals \ {a}
  /\ doomed' = doomed \cup {a}
  /\ UNCHANGED <<asset, rev, died, queue, files, builder, req, history>>

RevKeptMut(a) == rev

RevAfterDelete(a) == rev + 1

DeleteCommit(a) ==
  /\ a \in doomed /\ rev < MaxRev
  /\ asset' = [asset EXCEPT ![a] = "deleted"]
  /\ rev' = RevAfterDelete(a)
  /\ died' = [died EXCEPT ![a] = rev']
  /\ doomed' = doomed \ {a}
  /\ UNCHANGED <<originals, queue, files, builder, req, history>>

-----------------------------------------------------------------------------
(* _h_zip and build_zip *)

Running == {b \in Builds : row[b] = "running"}

Goto(b, place) == pc' = [pc EXCEPT ![b] = place]

\* The end of an execution: _execute writes the outcome.
Ends(b, outcome) ==
  /\ row' = [row EXCEPT ![b] = outcome]
  /\ Goto(b, "idle")
  /\ fd' = [fd EXCEPT ![b] = None]
  /\ sel' = [sel EXCEPT ![b] = {}]

\* A handler that raises is retried until its attempts are used up.
Raises(b) == Ends(b, IF tries[b] < MaxTries THEN "queued" ELSE "failed")

Claim(b) ==
  /\ row[b] = "queued" /\ Cardinality(Running) < PoolSize
  /\ row' = [row EXCEPT ![b] = "running"]
  /\ tries' = [tries EXCEPT ![b] = @ + 1]
  /\ Goto(b, "check")
  /\ UNCHANGED <<gallery, target, files, fd, sel, req, history>>

\* A job of another revision is dropped, and so is one whose archive is there.
BuildCheck(b) ==
  /\ pc[b] = "check"
  /\ IF rev = target[b] /\ zip[target[b]] = None
     THEN Goto(b, "select") /\ UNCHANGED <<row, fd, sel>>
     ELSE Ends(b, "done")
  /\ UNCHANGED <<gallery, target, tries, files, req, history>>

Writing(r) == {b \in Builds : pc[b] \in {"write", "broken", "rename"} /\ target[b] = r}

\* The ready rows are read and .part is opened for writing, a new file unless
\* the name is taken.  An original that is missing now breaks the copy.
BuildOpen(b) ==
  LET r == target[b]
      i == IF part[r] = None THEN <<b, tries[b]>> ELSE part[r]
  IN
  /\ pc[b] = "select"
  /\ sel' = [sel EXCEPT ![b] = Ready]
  /\ fd' = [fd EXCEPT ![b] = i]
  /\ part' = [part EXCEPT ![r] = i]
  /\ holds' = [holds EXCEPT ![i] = Ready]
  /\ made' = [made EXCEPT ![i] = "open"]
  /\ lastOpen' = [lastOpen EXCEPT ![i] = b]
  /\ twins' = IF Writing(r) = {} THEN twins ELSE twins \cup {r}
  /\ Goto(b, IF Ready \subseteq originals THEN "write" ELSE "broken")
  /\ UNCHANGED <<gallery, queue, zip, req, lost, crashes>>

\* The archive is closed.  Two builds of the same rows write the same bytes, so
\* it is whole once the last to truncate it has written them all; of different
\* rows, it is a mixture.
Closed(b) ==
  LET i == fd[b] IN
  CASE made[i] = "torn" \/ sel[b] # holds[i] -> "torn"
    [] lastOpen[i] = b                       -> "whole"
    [] OTHER                                 -> made[i]

BuildClose(b) ==
  /\ pc[b] = "write"
  /\ made' = [made EXCEPT ![fd[b]] = Closed(b)]
  /\ Goto(b, "rename")
  /\ UNCHANGED <<gallery, queue, zip, part, holds, lastOpen, fd, sel, req, history>>

\* A missing file, a full disk: the archive is closed where it stands.
BuildRaises(b) ==
  /\ pc[b] \in {"write", "broken"}
  /\ made' = [made EXCEPT ![fd[b]] = "torn"]
  /\ Raises(b)
  /\ UNCHANGED <<gallery, target, tries, zip, part, holds, lastOpen, req, history>>

RenamableUnclosedMut(b) == pc[b] \in {"write", "rename"}

Renamable(b) == pc[b] = "rename"

\* The rename goes by name: a twin may have taken .part away.
BuildRename(b) ==
  LET r == target[b] IN
  /\ Renamable(b)
  /\ part[r] # None
  /\ zip' = [zip EXCEPT ![r] = part[r]]
  /\ part' = [part EXCEPT ![r] = None]
  /\ Goto(b, "prune")
  /\ UNCHANGED <<gallery, queue, holds, made, lastOpen, fd, sel, req, history>>

BuildRenameRaises(b) ==
  /\ Renamable(b)
  /\ part[target[b]] = None
  /\ Raises(b)
  /\ UNCHANGED <<gallery, target, tries, files, req, history>>

\* Every other revision goes, a newer one included.
BuildPrune(b) ==
  /\ pc[b] = "prune"
  /\ zip' = [r \in Revs |-> IF r = target[b] THEN zip[r] ELSE None]
  /\ lost' = IF target[b] # rev /\ zip[rev] # None THEN lost \cup {rev} ELSE lost
  /\ Ends(b, "done")
  /\ UNCHANGED <<gallery, target, tries, part, holds, made, lastOpen, req, twins, crashes>>

Build(b) ==
  \/ BuildCheck(b) \/ BuildOpen(b) \/ BuildClose(b) \/ BuildRaises(b)
  \/ BuildRename(b) \/ BuildRenameRaises(b) \/ BuildPrune(b)

-----------------------------------------------------------------------------
(* The visitor: GET /download/zip and the wait page that polls its status *)

Show(c, page) == req' = [req EXCEPT ![c].at = page]

\* The route reads the gallery row once.
Download(c) ==
  /\ req[c].at = "idle"
  /\ req' = [req EXCEPT ![c] = [at |-> "look", rev |-> rev]]
  /\ UNCHANGED <<gallery, queue, files, builder, history>>

LookForFile(c) ==
  /\ req[c].at = "look"
  /\ Show(c, IF zip[req[c].rev] # None THEN "send" ELSE "ask")
  /\ UNCHANGED <<gallery, queue, files, builder, history>>

\* FileResponse opens the file only now: it is there, or the answer is an error.
Send(c) ==
  /\ req[c].at = "send"
  /\ Show(c, "idle")
  /\ UNCHANGED <<gallery, queue, files, builder, history>>

PendingOrDoneMut(b) == row[b] \in {"queued", "running", "done"}

Pending(b) == row[b] \in {"queued", "running"}

\* Is a build of this revision under way?  Asked in a statement of its own.
AskForBuild(c) ==
  /\ req[c].at = "ask"
  /\ Show(c, IF \E b \in Builds : Pending(b) /\ target[b] = req[c].rev
             THEN "wait" ELSE "enqueue")
  /\ UNCHANGED <<gallery, queue, files, builder, history>>

Enqueue(c, b) ==
  /\ req[c].at = "enqueue" /\ row[b] = "absent"
  /\ row' = [row EXCEPT ![b] = "queued"]
  /\ target' = [target EXCEPT ![b] = req[c].rev]
  /\ Show(c, "wait")
  /\ UNCHANGED <<gallery, tries, files, builder, history>>

\* zip_status asks about the revision of the moment.  Ready sends the browser to
\* the download route again, failed to a page that offers to.
Answered == zip[rev] # None \/ \E b \in Builds : row[b] = "failed" /\ target[b] = rev

Poll(c) ==
  /\ req[c].at = "wait" /\ Answered
  /\ Show(c, "idle")
  /\ UNCHANGED <<gallery, queue, files, builder, history>>

\* The visitor closes the page, or its script gives up after MAX_TRIES polls.  A
\* request that runs is finished whether or not its browser still listens.
GoAway(c) ==
  /\ req[c].at = "wait"
  /\ Show(c, "idle")
  /\ UNCHANGED <<gallery, queue, files, builder, history>>

-----------------------------------------------------------------------------
(* The sweep and the end of the process *)

\* zip_cache.sweep: an archive nobody has asked for in weeks, when a request or
\* a build takes seconds.
Evict(r) ==
  /\ zip[r] # None /\ Running = {} /\ \A c \in Clients : req[c].at = "idle"
  /\ zip' = [zip EXCEPT ![r] = None]
  /\ UNCHANGED <<gallery, queue, part, holds, made, lastOpen, builder, req, history>>

SweepPart(r) ==
  /\ part[r] # None /\ Running = {} /\ \A c \in Clients : req[c].at = "idle"
  /\ part' = [part EXCEPT ![r] = None]
  /\ UNCHANGED <<gallery, queue, zip, holds, made, lastOpen, builder, req, history>>

\* The process is killed and restarted: what was running is queued again and the
\* files stay as they are.  A wait page goes on polling.
Crash ==
  /\ crashes < MaxCrashes
  /\ crashes' = crashes + 1
  /\ row' = [b \in Builds |-> IF row[b] = "running" THEN "queued" ELSE row[b]]
  /\ pc' = [b \in Builds |-> "idle"]
  /\ fd' = [b \in Builds |-> None]
  /\ sel' = [b \in Builds |-> {}]
  /\ doomed' = {}
  /\ req' = [c \in Clients |-> IF req[c].at = "wait" THEN req[c]
                               ELSE [req[c] EXCEPT !.at = "idle"]]
  /\ UNCHANGED <<asset, rev, originals, died, target, tries, files, twins, lost>>

-----------------------------------------------------------------------------
Studio ==
  \/ \E A \in SUBSET Assets : Upload(A)
  \/ \E a \in Assets : Ingest(a) \/ IngestFails(a) \/ DeleteBegin(a) \/ DeleteCommit(a)

Visit(c) ==
  \/ Download(c) \/ LookForFile(c) \/ Send(c) \/ AskForBuild(c)
  \/ (\E b \in Builds : Enqueue(c, b)) \/ Poll(c) \/ GoAway(c)

Next ==
  \/ Studio
  \/ \E b \in Builds : Claim(b) \/ Build(b)
  \/ \E c \in Clients : Visit(c)
  \/ \E r \in Revs : Evict(r) \/ SweepPart(r)
  \/ Crash

Spec == Init /\ [][Next]_vars

\* The pool executes what is queued (JobQueue's EveryJobSettles) and an open wait
\* page polls every three seconds.
Fairness ==
  /\ \A b \in Builds : WF_vars(Claim(b) \/ Build(b))
  /\ \A c \in Clients : WF_vars(Poll(c))

FairSpec == Spec /\ Fairness

-----------------------------------------------------------------------------
(* Properties *)

TypeOK ==
  /\ asset \in [Assets -> {"absent", "processing", "ready", "failed", "deleted"}]
  /\ rev \in Revs
  /\ row \in [Builds -> {"absent", "queued", "running", "done", "failed"}]
  /\ target \in [Builds -> Revs \cup {None}]
  /\ tries \in [Builds -> Nat]
  /\ originals \subseteq Assets /\ doomed \subseteq Assets
  /\ zip \in [Revs -> Files \cup {None}] /\ part \in [Revs -> Files \cup {None}]
  /\ holds \in [Files -> SUBSET Assets]
  /\ made \in [Files -> {"open", "whole", "torn"}]
  /\ lastOpen \in [Files -> Builds \cup {None}]
  /\ pc \in [Builds -> {"idle", "check", "select", "write", "broken", "rename", "prune"}]
  /\ fd \in [Builds -> Files \cup {None}]
  /\ sel \in [Builds -> SUBSET Assets]
  /\ req \in [Clients -> [at : {"idle", "look", "send", "ask", "enqueue", "wait"},
                          rev : Revs \cup {None}]]
  /\ died \in [Assets -> Revs \cup {None}]
  /\ twins \subseteq Revs /\ lost \subseteq Revs /\ crashes \in Nat

\* An archive never holds what was deleted before its revision, so no visitor who
\* asks after a deletion is sent the deleted photo.
NoDeletedPhoto ==
  \A r \in Revs : zip[r] # None =>
    \A a \in holds[zip[r]] : asset[a] = "deleted" => died[a] > r

\* "A reader never sees a half-built archive": it does only of a revision two
\* builds have written at once through their shared .part.
HalfBuiltOnlyIfTwins ==
  \A r \in Revs : zip[r] # None /\ made[zip[r]] # "whole" => r \in twins

\* What a row and a thread at work know of their revision and attempts.
QueueInv ==
  /\ crashes <= MaxCrashes
  /\ \A b \in Builds : row[b] = "absent" <=> target[b] = None
  /\ \A b \in Builds : target[b] # None => target[b] <= rev
  /\ \A b \in Builds : pc[b] # "idle" => row[b] = "running" /\ tries[b] > 0
  /\ \A b \in Builds : row[b] \in {"absent", "queued"} => tries[b] < MaxTries + crashes
  /\ \A b \in Builds : row[b] = "running" => tries[b] <= MaxTries + crashes
  /\ \A c \in Clients : req[c].at # "idle" => req[c].rev # None /\ req[c].rev <= rev

\* An inode belongs to the revision of the build that created it, and so do the
\* names it is given and the builds that write it.
Named ==
  \A r \in Revs :
    /\ zip[r] # None => target[zip[r][1]] = r
    /\ part[r] # None => target[part[r][1]] = r /\ part[r] # zip[r]

Opened ==
  \A b \in Builds : pc[b] \in {"write", "broken", "rename"} =>
    fd[b] # None /\ target[fd[b][1]] = target[b]

\* The inode an attempt may still create has no name yet.
CreatedOnce ==
  \A b \in Builds, r \in Revs, t \in 1..(MaxTries + MaxCrashes) :
    t > tries[b] \/ (t = tries[b] /\ pc[b] \in {"check", "select"}) =>
      zip[r] # <<b, t>> /\ part[r] # <<b, t>>

\* What an inode holds was not deleted before its revision.
HeldAlive ==
  \A i \in Files : \A a \in holds[i] :
    /\ target[i[1]] # None
    /\ asset[a] = "deleted" => died[a] # None /\ died[a] > target[i[1]]

\* A revision without twins has one build in its .part, and that file's name and
\* contents are what the build believes.
TwinsInv ==
  \A r \in Revs \ twins :
    /\ \A b, d \in Writing(r) : b = d
    /\ \A b \in Writing(r) : fd[b] = part[r]
    /\ \A b \in Writing(r) : pc[b] = "write" =>
         made[fd[b]] = "open" /\ holds[fd[b]] = sel[b] /\ lastOpen[fd[b]] = b
    /\ \A b \in Writing(r) : pc[b] = "rename" => made[fd[b]] = "whole"

\* The inductive invariant.
IInv ==
  /\ TypeOK /\ QueueInv
  /\ Named /\ Opened /\ CreatedOnce /\ HeldAlive /\ TwinsInv
  /\ NoDeletedPhoto /\ HalfBuiltOnlyIfTwins

\* A visitor on the wait page gets the archive or the apology, unless the gallery
\* changed under the page or a build of an older revision pruned the archive.
WaitEnds ==
  \A c \in Clients, r \in Revs :
    (req[c].at = "wait" /\ req[c].rev = r) ~>
      (req[c].at # "wait" \/ rev # r \/ r \in lost)

\* "Full-gallery ZIP of originals", "keyed by content_rev": with every upload
\* ingested, the archive of the current revision holds the whole gallery.
ArchiveIsComplete ==
  zip[rev] # None /\ (\A a \in Assets : asset[a] # "processing")
    => Ready \subseteq holds[zip[rev]]

=============================================================================
