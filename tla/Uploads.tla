------------------------------- MODULE Uploads -------------------------------
(***************************************************************************)
(* Files coming into a gallery and the social cuts made of its videos:     *)
(* app/admin/uploads.py, delete_asset, delete_gallery and build_renditions *)
(* of app/admin/galleries.py, _h_renditions of app/jobs.py.                *)
(* A gallery's id is its directory's name, and SQLite gives the id of a    *)
(* deleted last row to the next one.                                       *)
(***************************************************************************)
EXTENDS Naturals, FiniteSets

CONSTANTS
  Originals,   \* names of stored files, each drawn once
  Streams,     \* upload requests
  Drawers,     \* rows of sections
  Removers,    \* requests that delete an asset or the gallery
  Cuts,        \* RENDITION_PRESETS
  ClipJobs,    \* video_renditions rows of the jobs table
  NoDrawer, NoOriginal, NoEncoder

ASSUME UploadsAssumption == NoDrawer \notin Drawers /\ NoOriginal \notin Originals /\ NoEncoder \notin ClipJobs

VARIABLES
  room,      \* the gallery: [row, dir, gen]; gen tells the rows that had the id apart
  drawer,    \* sections there are
  masters,   \* original/
  masterRow,    \* rows of assets: "none", "there", "gone"
  stream,    \* each upload: its place, its section, what it has saved
  remover,   \* each deletion: its place and its asset
  \* one video of the gallery and its cuts
  clip,      \* "ready", or "gone"
  cut,       \* asset_renditions: the status of each row
  clipFile,   \* renditions/: [state, by]
  clipJob,   \* rows of the jobs table
  encoder,   \* each running job: the rows it has left, and the one it encodes
  pressing,  \* a press of the button that has written its rows and not its job
  \* history
  stray,     \* originals a kill left behind
  swept,     \* originals whose directory an older gallery's deletion removed
  rivals     \* cuts two jobs held at once, each having read its row as pending

filing    == <<room, drawer, masters, masterRow, stream, remover, stray, swept>>
encoding  == <<clip, cut, clipFile, clipJob, encoder, pressing, rivals>>
uploadVars == <<filing, encoding>>

NoStream  == [at |-> "idle", drawer |-> NoDrawer, saved |-> {}]
NoRemover == [at |-> "idle", asset |-> NoOriginal]
NoWork    == [at |-> "idle", todo |-> {}, now |-> ""]

UploadsInit ==
  /\ room = [row |-> TRUE, dir |-> FALSE, gen |-> 0] /\ drawer = Drawers
  /\ masters = {} /\ masterRow = [o \in Originals |-> "none"]
  /\ stream = [u \in Streams |-> NoStream] /\ remover = [d \in Removers |-> NoRemover]
  /\ clip = "ready" /\ cut = [c \in Cuts |-> "none"]
  /\ clipFile = [c \in Cuts |-> [state |-> "none", by |-> NoEncoder]]
  /\ clipJob = [j \in ClipJobs |-> "none"] /\ encoder = [j \in ClipJobs |-> NoWork] /\ pressing = FALSE
  /\ stray = {} /\ swept = {} /\ rivals = {}

StreamAt(u, p)  == stream' = [stream EXCEPT ![u].at = p]
StreamEnds(u)   == stream' = [stream EXCEPT ![u] = NoStream]
RemoverAt(d, p) == remover' = [remover EXCEPT ![d].at = p]
Saved           == UNION {stream[u].saved : u \in Streams}

-----------------------------------------------------------------------------
(* upload *)

\* _upload_preflight: the gallery and the section are there; without a section, the
\* first of the gallery, if it has one; then the directories.
Preflight(u) ==
  /\ stream[u].at = "idle" /\ room.row
  /\ \E s \in IF drawer = {} THEN {NoDrawer} ELSE drawer :
       stream' = [stream EXCEPT ![u] = [at |-> "mkdir", drawer |-> s, saved |-> {}]]
  /\ UNCHANGED <<room, drawer, masters, masterRow, remover, stray, swept, encoding>>

MakeDirs(u) ==
  /\ stream[u].at = "mkdir"
  /\ room' = [room EXCEPT !.dir = TRUE] /\ StreamAt(u, "save")
  /\ UNCHANGED <<drawer, masters, masterRow, remover, stray, swept, encoding>>

\* save_upload, once for each file; the directory must be there.
SaveFile(u, o) ==
  /\ stream[u].at = "save" /\ room.dir
  /\ o \notin masters \cup Saved \cup swept /\ masterRow[o] = "none"
  /\ masters' = masters \cup {o}
  /\ stream' = [stream EXCEPT ![u].saved = @ \cup {o}]
  /\ UNCHANGED <<room, drawer, masterRow, remover, stray, swept, encoding>>

\* _commit_uploads: the section is there still, the foreign key of the gallery holds,
\* and the rows, their jobs and content_rev are one transaction.
MayCommit(u) == room.row /\ (stream[u].drawer = NoDrawer \/ stream[u].drawer \in drawer)
CommitUploads(u) ==
  /\ stream[u].at = "save" /\ stream[u].saved # {} /\ MayCommit(u)
  /\ masterRow' = [o \in Originals |-> IF o \in stream[u].saved THEN "there" ELSE masterRow[o]]
  /\ StreamEnds(u)
  /\ UNCHANGED <<room, drawer, masters, remover, stray, swept, encoding>>

\* A failed save or a refused commit: what was saved is unlinked.
LeftoversMut(u) == {}
Leftovers(u)    == stream[u].saved
UploadRaises(u) ==
  /\ stream[u].at = "save"
  /\ masters' = masters \ Leftovers(u) /\ StreamEnds(u)
  /\ UNCHANGED <<room, drawer, masterRow, remover, stray, swept, encoding>>

-----------------------------------------------------------------------------
(* Deletions *)

DeleteDrawer(s) ==
  /\ s \in drawer /\ drawer' = drawer \ {s}
  /\ UNCHANGED <<room, masters, masterRow, stream, remover, stray, swept, encoding>>

\* delete_asset: the files, then the row.
DeleteOriginal(d, o) ==
  /\ remover[d].at = "idle" /\ masterRow[o] = "there"
  /\ masters' = masters \ {o}
  /\ remover' = [remover EXCEPT ![d] = [at |-> "row", asset |-> o]]
  /\ UNCHANGED <<room, drawer, masterRow, stream, stray, swept, encoding>>

DeleteRow(d) ==
  /\ remover[d].at = "row"
  /\ masterRow' = [masterRow EXCEPT ![remover[d].asset] = "gone"]
  /\ remover' = [remover EXCEPT ![d] = NoRemover]
  /\ UNCHANGED <<room, drawer, masters, stream, stray, swept, encoding>>

\* delete_gallery: the row with all that hangs on it, then the directory.
DeleteRoomRow(d) ==
  /\ remover[d].at = "idle" /\ room.row
  /\ room' = [room EXCEPT !.row = FALSE] /\ drawer' = {}
  /\ masterRow' = [o \in Originals |-> IF masterRow[o] = "there" THEN "gone" ELSE masterRow[o]]
  /\ RemoverAt(d, "rmtree")
  /\ clip' = "gone" /\ cut' = [c \in Cuts |-> "none"]
  /\ UNCHANGED <<masters, stream, stray, swept, clipFile, clipJob, encoder, pressing, rivals>>

RemoveTree(d) ==
  /\ remover[d].at = "rmtree"
  /\ room' = [room EXCEPT !.dir = FALSE]
  /\ masters' = {} /\ swept' = swept \cup masters
  /\ remover' = [remover EXCEPT ![d] = NoRemover]
  /\ clipFile' = [c \in Cuts |-> [state |-> "none", by |-> NoEncoder]]
  /\ UNCHANGED <<drawer, masterRow, stream, stray, clip, cut, clipJob, encoder, pressing, rivals>>

\* create_gallery, which is given the id again.
ReuseId ==
  /\ ~room.row /\ room.gen < 1
  /\ room' = [room EXCEPT !.row = TRUE, !.gen = @ + 1]
  /\ UNCHANGED <<drawer, masters, masterRow, stream, remover, stray, swept, encoding>>

-----------------------------------------------------------------------------
(* Social cuts *)

\* build_renditions: a row for each preset, failed ones pending again; then a job.
PressBuild ==
  /\ clip = "ready" /\ ~pressing /\ pressing' = TRUE
  /\ cut' = [c \in Cuts |-> IF cut[c] \in {"none", "failed"} THEN "pending" ELSE cut[c]]
  /\ UNCHANGED <<filing, clip, clipFile, clipJob, encoder, rivals>>

EnqueueCuts(j) ==
  /\ pressing /\ pressing' = FALSE
  /\ clipJob[j] \in {"none", "done"} /\ clipJob' = [clipJob EXCEPT ![j] = "queued"]
  /\ UNCHANGED <<filing, clip, cut, clipFile, encoder, rivals>>

\* _h_renditions reads the rows that are pending, once.
PendingMut == {c \in Cuts : cut[c] # "none"}
Pending    == {c \in Cuts : cut[c] = "pending"}
ReadRows(j) ==
  /\ clipJob[j] = "queued"
  /\ IF clip = "ready"
     THEN /\ clipJob' = [clipJob EXCEPT ![j] = "running"]
          /\ encoder' = [encoder EXCEPT ![j] = [at |-> "next", todo |-> Pending, now |-> ""]]
     ELSE clipJob' = [clipJob EXCEPT ![j] = "done"] /\ UNCHANGED encoder
  /\ rivals' = rivals \cup {c \in encoder'[j].todo : \E k \in ClipJobs \ {j} :
                               c \in encoder[k].todo \cup {encoder[k].now}}
  /\ UNCHANGED <<filing, clip, cut, clipFile, pressing>>

\* ffmpeg -y truncates the file and writes it under its own name.
StartCut(j, c) ==
  /\ encoder[j].at = "next" /\ c \in encoder[j].todo
  /\ clipFile' = [clipFile EXCEPT ![c] = [state |-> "torn", by |-> j]]
  /\ encoder' = [encoder EXCEPT ![j] = [at |-> "encode", todo |-> @.todo \ {c}, now |-> c]]
  /\ UNCHANGED <<filing, clip, cut, clipJob, pressing, rivals>>

\* It ends, and so does the file if nobody truncated it since; the row is updated.
EndCut(j) ==
  LET c == encoder[j].now IN
  /\ encoder[j].at = "encode"
  /\ clipFile' = IF clipFile[c].by = j THEN [clipFile EXCEPT ![c].state = "whole"] ELSE clipFile
  /\ cut' = IF clip = "ready" THEN [cut EXCEPT ![c] = "ready"] ELSE cut
  /\ encoder' = [encoder EXCEPT ![j] = [@ EXCEPT !.at = "next", !.now = ""]]
  /\ UNCHANGED <<filing, clip, clipJob, pressing, rivals>>

CutFails(j) ==
  LET c == encoder[j].now IN
  /\ encoder[j].at = "encode"
  /\ cut' = IF clip = "ready" THEN [cut EXCEPT ![c] = "failed"] ELSE cut
  /\ encoder' = [encoder EXCEPT ![j] = [@ EXCEPT !.at = "next", !.now = ""]]
  /\ UNCHANGED <<filing, clip, clipFile, clipJob, pressing, rivals>>

CutsDone(j) ==
  /\ encoder[j].at = "next" /\ encoder[j].todo = {}
  /\ clipJob' = [clipJob EXCEPT ![j] = "done"] /\ encoder' = [encoder EXCEPT ![j] = NoWork]
  /\ UNCHANGED <<filing, clip, cut, clipFile, pressing, rivals>>

-----------------------------------------------------------------------------
\* A kill and the start after it.
UploadsKill ==
  /\ stray' = stray \cup Saved \cup (IF \E d \in Removers : remover[d].at = "rmtree" THEN masters ELSE {})
  /\ stream' = [u \in Streams |-> NoStream] /\ remover' = [d \in Removers |-> NoRemover]
  /\ swept' = swept \cup {o \in Originals : masterRow[o] = "there" /\ o \notin masters}
  /\ clipJob' = [j \in ClipJobs |-> IF clipJob[j] = "running" THEN "queued" ELSE clipJob[j]]
  /\ encoder' = [j \in ClipJobs |-> NoWork]
  /\ rivals' = rivals /\ pressing' = FALSE
  /\ <<stream, remover, encoder, pressing>>' # <<stream, remover, encoder, pressing>>
  /\ UNCHANGED <<room, drawer, masters, masterRow, clip, cut, clipFile>>

UploadsNext ==
  \/ \E u \in Streams : \/ Preflight(u) \/ MakeDirs(u) \/ CommitUploads(u) \/ UploadRaises(u)
                        \/ \E o \in Originals : SaveFile(u, o)
  \/ \E s \in Drawers : DeleteDrawer(s)
  \/ \E d \in Removers : \/ DeleteRow(d) \/ DeleteRoomRow(d) \/ RemoveTree(d)
                         \/ \E o \in Originals : DeleteOriginal(d, o)
  \/ ReuseId \/ PressBuild
  \/ \E j \in ClipJobs : \/ EnqueueCuts(j) \/ ReadRows(j) \/ EndCut(j) \/ CutFails(j) \/ CutsDone(j)
                         \/ \E c \in Cuts : StartCut(j, c)
  \/ UploadsKill

UploadsSpec == UploadsInit /\ [][UploadsNext]_uploadVars

-----------------------------------------------------------------------------
(* Properties *)

UploadsTypeOK ==
  /\ room \in [row : BOOLEAN, dir : BOOLEAN, gen : 0..1] /\ drawer \subseteq Drawers
  /\ masters \subseteq Originals /\ masterRow \in [Originals -> {"none", "there", "gone"}]
  /\ stream \in [Streams -> [at : {"idle", "mkdir", "save"}, drawer : Drawers \cup {NoDrawer},
                             saved : SUBSET Originals]]
  /\ remover \in [Removers -> [at : {"idle", "row", "rmtree"}, asset : Originals \cup {NoOriginal}]]
  /\ clip \in {"ready", "gone"} /\ cut \in [Cuts -> {"none", "pending", "ready", "failed"}]
  /\ clipFile \in [Cuts -> [state : {"none", "torn", "whole"}, by : ClipJobs \cup {NoEncoder}]]
  /\ clipJob \in [ClipJobs -> {"none", "queued", "running", "done"}]
  /\ encoder \in [ClipJobs -> [at : {"idle", "next", "encode"}, todo : SUBSET Cuts, now : Cuts \cup {""}]]
  /\ pressing \in BOOLEAN /\ stray \subseteq Originals /\ swept \subseteq Originals /\ rivals \subseteq Cuts

\* A row has its original, but while it is being deleted, after a kill in the middle
\* of that, or when the directory went with an older gallery of the same id
\* (app/admin/galleries.py:886-889, 905-910; app/admin/uploads.py:100-140).
RowHasItsOriginal ==
  \A o \in Originals : masterRow[o] = "there" =>
    \/ o \in masters \cup swept
    \/ \E d \in Removers : remover[d].asset = o

\* An original without a row is being uploaded, was left by a kill, or goes with the
\* directory of the gallery being deleted (app/admin/uploads.py:62-64, 134-136).
OriginalHasItsRow ==
  \A o \in masters : \/ masterRow[o] = "there" \/ o \in Saved \cup stray
                     \/ \E d \in Removers : remover[d].at = "rmtree"

\* What download_rendition sends: a ready row of a photo that is there, with its file.
Offered(c) == cut[c] = "ready" /\ clip = "ready" /\ clipFile[c].state # "none"

\* A cut that is offered for download is whole, unless two jobs had its row at once
\* (app/jobs.py:145-162, app/public/downloads.py:259-268).
ReadyCutIsWhole == \A c \in Cuts \ rivals : Offered(c) => clipFile[c].state = "whole"

FilesAreSound == RowHasItsOriginal /\ OriginalHasItsRow /\ ReadyCutIsWhole
=============================================================================
