------------------------------- MODULE Bundles -------------------------------
(***************************************************************************)
(* Archives of part of a gallery: a visitor's favourites, one section      *)
(* (app/public/downloads.py; the zip_subset job of app/jobs.py).           *)
(*                                                                         *)
(* An archive is named by its family and the hash of its photos, so equal  *)
(* selections share one file.  A small one is built by the request itself, *)
(* a large one by a job; every build fills the .part of its name, renames  *)
(* it and deletes the rest of its family.  Nothing keeps two builds of one *)
(* name apart.                                                             *)
(***************************************************************************)
EXTENDS Naturals, FiniteSets

CONSTANTS
  Frames,     \* ready photos of the gallery
  Lists,      \* selections: the favourites of each visitor, the photos of each section
  FamilyOf,   \* each list's family: one for all favourites, one for each section
  Inliners,   \* threads serving the downloads
  BundleJobs, \* zip_subset rows of the jobs table
  InlineMax,  \* config.ZIP_INLINE_MAX_BYTES, in photos
  NoBuilder

ASSUME BundlesAssumption ==
  /\ InlineMax \in Nat /\ IsFiniteSet(Frames) /\ Inliners \cap BundleJobs = {}
  /\ NoBuilder \notin Inliners \cup BundleJobs

Families == {FamilyOf[l] : l \in Lists}
Names    == Families \X ((SUBSET Frames) \ {{}})
Builders == Inliners \cup BundleJobs
NoName   == <<"none", {}>>

VARIABLES
  frame,     \* each photo: "there", "fileless" while it is being deleted, "gone"
  list,      \* each selection
  bundle,    \* each name: the archive on disk, [state, by, holds]
  bundlePart,\* each name: the inode of its .part, likewise
  maker,     \* each builder: its place, its name, the photos it puts in
  bundleJob, \* rows: [status, name]
  \* history
  twinned,   \* names two builders had begun and not renamed at once
  stirred,   \* builders whose family's lists changed since they looked
  overtaken, \* names whose list changed, or whose archive another build deleted
  wasted     \* a build deleted the one archive its family asks for

bundleVars == <<frame, list, bundle, bundlePart, maker, bundleJob, twinned, stirred, overtaken, wasted>>

NoInode == [state |-> "none", by |-> NoBuilder, holds |-> {}]
NoMaker == [at |-> "idle", name |-> NoName, puts |-> {}]

BundlesInit ==
  /\ frame = [a \in Frames |-> "there"] /\ list = [l \in Lists |-> {}]
  /\ bundle = [n \in Names |-> NoInode] /\ bundlePart = [n \in Names |-> NoInode]
  /\ maker = [k \in Builders |-> NoMaker]
  /\ bundleJob = [j \in BundleJobs |-> [status |-> "absent", name |-> NoName]]
  /\ twinned = {} /\ stirred = {} /\ overtaken = {} /\ wasted = FALSE

NameOf(l)    == <<FamilyOf[l], list[l]>>
Exists(n)    == bundle[n].state # "none"
Goto(k, p)   == maker' = [maker EXCEPT ![k].at = p]
disk         == <<bundle, bundlePart>>
past         == <<twinned, stirred, overtaken, wasted>>

-----------------------------------------------------------------------------
(* Selections change *)

\* _subset_is_current: some list of the family still has this name.
CurrentMut(n) == TRUE
Current(n)    == \E l \in Lists : NameOf(l) = n

\* The names of the lists as they are, and the builders of their families.
Stir(L) ==
  /\ overtaken' = overtaken \cup {NameOf(l) : l \in L}
  /\ stirred' = stirred \cup {k \in Builders : maker[k].at # "idle" /\
                                \E l \in L : FamilyOf[l] = maker[k].name[1]}

ChangeList(l, S) ==
  /\ S # list[l] /\ \A a \in S : frame[a] # "gone"
  /\ list' = [list EXCEPT ![l] = S] /\ Stir({l})
  /\ UNCHANGED <<frame, disk, maker, bundleJob, twinned, wasted>>

\* delete_asset: the files, then the row.
DeleteFrameFiles(a) ==
  /\ frame[a] = "there" /\ frame' = [frame EXCEPT ![a] = "fileless"]
  /\ UNCHANGED <<list, disk, maker, bundleJob, past>>

DeleteFrameRow(a) ==
  /\ frame[a] = "fileless" /\ frame' = [frame EXCEPT ![a] = "gone"]
  /\ list' = [l \in Lists |-> list[l] \ {a}]
  /\ Stir({l \in Lists : a \in list[l]})
  /\ UNCHANGED <<disk, maker, bundleJob, twinned, wasted>>

-----------------------------------------------------------------------------
(* The request *)

Small(n) == Cardinality(n[2]) <= InlineMax

\* download_favorites, download_section: the list, its archive, and who builds it.
Ask(r, l) ==
  LET n == NameOf(l) IN
  /\ maker[r].at = "idle" /\ list[l] # {}
  /\ maker' = [maker EXCEPT ![r] =
       [at |-> IF Exists(n) THEN "send" ELSE IF Small(n) THEN "open" ELSE "look",
        name |-> n, puts |-> n[2]]]
  /\ stirred' = stirred \ {r}
  /\ UNCHANGED <<frame, list, disk, bundleJob, twinned, overtaken, wasted>>

LiveFor(n) == \E j \in BundleJobs : bundleJob[j].name = n /\ bundleJob[j].status \in {"queued", "running"}
LookForJob(r) ==
  /\ maker[r].at = "look" /\ Goto(r, IF LiveFor(maker[r].name) THEN "wait" ELSE "enqueue")
  /\ UNCHANGED <<frame, list, disk, bundleJob, past>>

EnqueueBundle(r) ==
  /\ maker[r].at = "enqueue" /\ Goto(r, "wait")
  /\ \E j \in BundleJobs :
       /\ bundleJob[j].status \in {"absent", "done"}
       /\ bundleJob' = [bundleJob EXCEPT ![j] = [status |-> "queued", name |-> maker[r].name]]
  /\ overtaken' = IF Current(maker[r].name) THEN overtaken \ {maker[r].name} ELSE overtaken
  /\ UNCHANGED <<frame, list, disk, twinned, stirred, wasted>>

\* zip_status, until it has an answer: the archive, or a failure nothing supersedes.
HasFailed(n) == \E j \in BundleJobs : bundleJob[j].name = n /\ bundleJob[j].status = "failed"
AnsweredMut(n)  == Exists(n)
AnsweredFor(n)  == Exists(n) \/ (HasFailed(n) /\ ~LiveFor(n))
PollBundle(r) ==
  /\ maker[r].at = "wait" /\ AnsweredFor(maker[r].name)
  /\ maker' = [maker EXCEPT ![r] = NoMaker]
  /\ UNCHANGED <<frame, list, disk, bundleJob, past>>

\* The archive leaves, or is no longer there to be sent; a waiting page is closed.
Leave(r) ==
  /\ maker[r].at \in {"send", "wait"}
  /\ maker' = [maker EXCEPT ![r] = NoMaker]
  /\ UNCHANGED <<frame, list, disk, bundleJob, past>>

-----------------------------------------------------------------------------
(* The job *)

\* The rows of the photos the payload names, as far as they are still there.
Rows(n) == {a \in n[2] : frame[a] # "gone"}

BundleJobBegins(j) ==
  LET n == bundleJob[j].name IN
  /\ bundleJob[j].status = "queued"
  /\ IF Exists(n) \/ ~Current(n)
     THEN /\ bundleJob' = [bundleJob EXCEPT ![j].status = "done"]
          /\ UNCHANGED <<maker, stirred>>
     ELSE /\ bundleJob' = [bundleJob EXCEPT ![j].status = "running"]
          /\ maker' = [maker EXCEPT ![j] = [at |-> "open", name |-> n, puts |-> Rows(n)]]
          /\ stirred' = stirred \ {j}
  /\ UNCHANGED <<frame, list, disk, twinned, overtaken, wasted>>

\* A request answers with an error; a job has another attempt, or failed.
BuildRaisesAt(k) ==
  /\ maker' = [maker EXCEPT ![k] = NoMaker]
  /\ IF k \in BundleJobs
     THEN \E s \in {"queued", "failed"} : bundleJob' = [bundleJob EXCEPT ![k].status = s]
     ELSE UNCHANGED bundleJob
  /\ UNCHANGED <<frame, list, disk, past>>

-----------------------------------------------------------------------------
(* build_zip *)

Writers(n) == {k \in Builders : maker[k].at \in {"write", "rename"} /\ maker[k].name = n}

\* The .part is opened for writing: a new file, or the one another is writing, cut
\* to nothing.
OpenPart(k) ==
  LET n == maker[k].name IN
  /\ maker[k].at = "open"
  /\ bundlePart' = [bundlePart EXCEPT ![n] = [state |-> "torn", by |-> k, holds |-> maker[k].puts]]
  /\ twinned' = IF Writers(n) = {} THEN twinned ELSE twinned \cup {n}
  /\ Goto(k, "write")
  /\ UNCHANGED <<frame, list, bundle, bundleJob, stirred, overtaken, wasted>>

\* Whoever cut the file last has written all of it when it closes it, under
\* whichever name it then has.
Closed(inode, k) == IF inode.by = k /\ inode.state = "torn" THEN [inode EXCEPT !.state = "whole"] ELSE inode
ClosePart(k) ==
  LET n == maker[k].name IN
  /\ maker[k].at = "write" /\ \A a \in maker[k].puts : frame[a] = "there"
  /\ bundle' = [bundle EXCEPT ![n] = Closed(@, k)]
  /\ bundlePart' = [bundlePart EXCEPT ![n] = Closed(@, k)]
  /\ Goto(k, "rename")
  /\ UNCHANGED <<frame, list, bundleJob, past>>

\* An original is not there to be read.
WriteRaises(k) ==
  /\ maker[k].at = "write" /\ \E a \in maker[k].puts : frame[a] # "there"
  /\ BuildRaisesAt(k)

RenamePart(k) ==
  LET n == maker[k].name IN
  /\ maker[k].at = "rename" /\ bundlePart[n].state # "none"
  /\ bundle' = [bundle EXCEPT ![n] = bundlePart[n]]
  /\ bundlePart' = [bundlePart EXCEPT ![n] = NoInode]
  /\ Goto(k, "prune")
  /\ UNCHANGED <<frame, list, bundleJob, past>>

\* The other build of this name has taken the .part along.
RenameRaises(k) ==
  /\ maker[k].at = "rename" /\ bundlePart[maker[k].name].state = "none"
  /\ BuildRaisesAt(k)

\* The rest of the family is deleted.
PruneFamily(k) ==
  LET n == maker[k].name
      out == {m \in Names : m[1] = n[1] /\ m # n /\ Exists(m)}
      asked == {NameOf(l) : l \in {m \in Lists : FamilyOf[m] = n[1]}}
  IN
  /\ maker[k].at = "prune"
  /\ bundle' = [m \in Names |-> IF m \in out THEN NoInode ELSE bundle[m]]
  /\ overtaken' = overtaken \cup out
  /\ wasted' = (wasted \/ (k \notin stirred /\ Cardinality(asked) = 1 /\ asked \subseteq out))
  /\ IF k \in BundleJobs
     THEN /\ maker' = [maker EXCEPT ![k] = NoMaker]
          /\ bundleJob' = [bundleJob EXCEPT ![k].status = "done"]
     ELSE Goto(k, "send") /\ UNCHANGED bundleJob
  /\ UNCHANGED <<frame, list, bundlePart, twinned, stirred>>

\* A kill and the start after it: running jobs are queued again, files stay.
BundlesKill ==
  LET Left(inode) == [inode EXCEPT !.by = IF inode.state = "torn" THEN NoBuilder ELSE inode.by] IN
  /\ \E k \in Builders : maker[k].at # "idle"
  /\ maker' = [k \in Builders |-> NoMaker]
  /\ bundle' = [n \in Names |-> Left(bundle[n])] /\ bundlePart' = [n \in Names |-> Left(bundlePart[n])]
  /\ bundleJob' = [j \in BundleJobs |-> IF bundleJob[j].status = "running"
                                        THEN [bundleJob[j] EXCEPT !.status = "queued"] ELSE bundleJob[j]]
  /\ stirred' = {} /\ UNCHANGED <<frame, list, twinned, overtaken, wasted>>

BundlesNext ==
  \/ \E l \in Lists, S \in SUBSET Frames : ChangeList(l, S)
  \/ \E a \in Frames : DeleteFrameFiles(a) \/ DeleteFrameRow(a)
  \/ \E r \in Inliners : \/ \E l \in Lists : Ask(r, l)
                         \/ LookForJob(r) \/ EnqueueBundle(r) \/ PollBundle(r) \/ Leave(r)
  \/ \E j \in BundleJobs : BundleJobBegins(j)
  \/ \E k \in Builders : \/ OpenPart(k) \/ ClosePart(k) \/ WriteRaises(k) \/ RenamePart(k)
                         \/ RenameRaises(k) \/ PruneFamily(k)
  \/ BundlesKill

BundlesSpec == BundlesInit /\ [][BundlesNext]_bundleVars

-----------------------------------------------------------------------------
(* Properties *)

BundlesTypeOK ==
  /\ frame \in [Frames -> {"there", "fileless", "gone"}] /\ list \in [Lists -> SUBSET Frames]
  /\ \A n \in Names : \A i \in {bundle[n], bundlePart[n]} :
       /\ i.state \in {"none", "torn", "whole"} /\ i.by \in Builders \cup {NoBuilder}
       /\ i.holds \subseteq Frames
  /\ \A k \in Builders : maker[k].name \in Names \cup {NoName}
  /\ bundleJob \in [BundleJobs -> [status : {"absent", "queued", "running", "done", "failed"},
                                   name : Names \cup {NoName}]]

\* The archive a list asks for holds the photos of that list.
\* Concerns _h_zip_subset, whose list of photos was made when the job was asked for.
BundleMatches ==
  \A l \in Lists : list[l] # {} /\ Exists(NameOf(l)) => bundle[NameOf(l)].holds = list[l]

\* An unfinished archive is under its final name only where two builds wrote it.
\* Concerns build_zip without the lock the portal's archive has.
TornOnlyByTwins ==
  \A n \in Names : bundle[n].state = "torn" => n \in twinned

\* No build deletes the one archive its family is asked for, unless the list
\* changed while it ran.  Concerns _subset_is_current, for a job that waited long.
NewestIsKept == ~wasted

\* A page that waits has an archive, a live job or a failure to hear of, unless the
\* list has changed or another build has deleted the archive since a job was asked for.
\* Concerns _queue_or_build and zip_status.
WaitHasAnAnswer ==
  \A r \in Inliners : maker[r].at = "wait" =>
    LET n == maker[r].name IN AnsweredFor(n) \/ LiveFor(n) \/ n \in overtaken
=============================================================================
