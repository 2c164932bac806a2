-------------------------------- MODULE Crops --------------------------------
(***************************************************************************)
(* Social crops: the job that cuts a favourited photo to every active      *)
(* preset (app/jobs.py, app/imaging.py), who asks for it                   *)
(* (app/public/gallery.py, app/admin/studio.py), the preset table          *)
(* (app/admin/presets.py), and what a client's portal makes of the files:  *)
(* the state of each link and one archive of all (app/public/portal.py).   *)
(*                                                                         *)
(* A crop is saved in place, under the name that says it exists; the       *)
(* archive goes through a .part beside it, one build at a time.            *)
(***************************************************************************)
EXTENDS Naturals, FiniteSets

CONSTANTS
  Stills,     \* photos of the client's published galleries
  Presets,    \* rows of crop_presets, numbered in their order
  CropJobs,   \* social_crops rows of the jobs table
  Packers,    \* threads serving crops.zip
  NoStill, NoPacker

ASSUME CropsAssumption ==
  /\ Presets \subseteq Nat /\ IsFiniteSet(Presets)
  /\ NoStill \notin Stills /\ NoPacker \notin Packers

Pairs == Stills \X Presets
Packs == SUBSET Pairs      \* an archive is named by the hash of its files

VARIABLES
  active,    \* the presets that are on
  still,     \* assets.status
  faved,     \* favorites of each photo: "no", "asked" with its job still to come, "yes"
  filling,   \* photos a backfill has read and not enqueued yet
  cutJob,    \* rows: [status, still]
  cutter,    \* each running job: the presets it has left and the one it is saving
  crop,      \* each file: [state, by], by the job that truncated it last
  packer,    \* each request: its place and the files it listed
  packLock,  \* _zip_build_lock
  packPart,  \* each name: who truncated its .part last
  pack,      \* each name: "none", "whole" or "torn"
  \* history
  cutOff,    \* files whose last writer never closed them
  unasked    \* files no job was enqueued for since they could be wanted

cropVars == <<active, still, faved, filling, cutJob, cutter, crop, packer, packLock, packPart, pack,
              cutOff, unasked>>

NoCrop   == [state |-> "none", by |-> NoPacker]
NoCutter == [at |-> "idle", todo |-> {}]
NoPack   == [at |-> "idle", files |-> {}]

CropsInit ==
  /\ active = Presets /\ still = [s \in Stills |-> "processing"]
  /\ faved = [s \in Stills |-> "no"] /\ filling = {}
  /\ cutJob = [j \in CropJobs |-> [status |-> "absent", still |-> NoStill]]
  /\ cutter = [j \in CropJobs |-> NoCutter]
  /\ crop = [f \in Pairs |-> NoCrop]
  /\ packer = [k \in Packers |-> NoPack] /\ packLock = NoPacker
  /\ packPart = [n \in Packs |-> NoPacker] /\ pack = [n \in Packs |-> "none"]
  /\ cutOff = {} /\ unasked = {}

packing == <<packer, packLock, packPart, pack>>
cutting == <<cutJob, cutter, crop, cutOff>>
asking  == <<active, still, faved, filling, unasked>>

-----------------------------------------------------------------------------
(* Who asks for crops *)

FilesOf(s) == {s} \X Presets
Cut(f)   == crop[f].state # "none"

\* jobs.enqueue
Asks(s) ==
  /\ \E j \in CropJobs : /\ cutJob[j].status \in {"absent", "done"}
                         /\ cutJob' = [cutJob EXCEPT ![j] = [status |-> "queued", still |-> s]]
  /\ UNCHANGED <<cutter, crop, cutOff>>

\* toggle_fav: the row says whether a job follows; the insert and the job are two
\* transactions.  A photo that is not ready yet is given none.
Favourite(s) ==
  /\ faved[s] = "no"
  /\ faved' = [faved EXCEPT ![s] = IF still[s] = "ready" THEN "asked" ELSE "yes"]
  /\ unasked' = unasked \cup FilesOf(s)
  /\ UNCHANGED <<active, still, filling, cutting, packing>>

FavouriteAsks(s) ==
  /\ faved[s] = "asked" /\ Asks(s)
  /\ faved' = [faved EXCEPT ![s] = "yes"]
  /\ unasked' = unasked \ FilesOf(s)
  /\ UNCHANGED <<active, still, filling, packing>>

Unfavourite(s) ==
  /\ faved[s] = "yes" /\ faved' = [faved EXCEPT ![s] = "no"]
  /\ UNCHANGED <<active, still, filling, unasked, cutting, packing>>

\* _backfill_crops, from create_portal and from toggle_portal.
Wanted == {s \in Stills : faved[s] # "no" /\ still[s] = "ready"}
Backfill ==
  /\ filling = {} /\ Wanted # {} /\ filling' = Wanted
  /\ UNCHANGED <<active, still, faved, unasked, cutting, packing>>

BackfillAsks(s) ==
  /\ s \in filling /\ Asks(s)
  /\ filling' = filling \ {s} /\ unasked' = unasked \ FilesOf(s)
  /\ UNCHANGED <<active, still, faved, packing>>

\* _h_image, which JobQueue follows.
BecomesReady(s) ==
  /\ still[s] = "processing" /\ still' = [still EXCEPT ![s] = "ready"]
  /\ UNCHANGED <<active, faved, filling, unasked, cutting, packing>>

\* toggle_active, and create_preset for one never seen: no job follows.
ToggleActive(p) ==
  /\ active' = IF p \in active THEN active \ {p} ELSE active \cup {p}
  /\ unasked' = IF p \in active THEN unasked ELSE unasked \cup (Stills \X {p})
  /\ UNCHANGED <<still, faved, filling, cutting, packing>>

-----------------------------------------------------------------------------
(* The job *)

CutEnds(j, outcome) ==
  /\ cutJob' = [cutJob EXCEPT ![j].status = outcome]
  /\ cutter' = [cutter EXCEPT ![j] = NoCutter]

\* Idempotent by the existence of every file of an active preset.
CutAlreadyMut(s) == \E p \in active : Cut(<<s, p>>)
CutAlready(s)    == \A p \in active : Cut(<<s, p>>)

CutBegin(j) ==
  LET s == cutJob[j].still IN
  /\ cutJob[j].status = "queued"
  /\ IF still[s] # "ready" \/ CutAlready(s)
     THEN CutEnds(j, "done")
     ELSE /\ cutJob' = [cutJob EXCEPT ![j].status = "running"]
          /\ cutter' = [cutter EXCEPT ![j] = [at |-> "next", todo |-> active]]
  /\ UNCHANGED <<crop, cutOff, asking, packing>>

Next1(j) == CHOOSE p \in cutter[j].todo : \A q \in cutter[j].todo : p <= q
Saving(j) == <<cutJob[j].still, Next1(j)>>

\* make_crops opens the file under its own name, which truncates it.
SaveOpens(j) ==
  /\ cutter[j].at = "next" /\ cutter[j].todo # {}
  /\ crop' = [crop EXCEPT ![Saving(j)] = [state |-> "torn", by |-> j]]
  /\ cutter' = [cutter EXCEPT ![j].at = "save"]
  /\ cutOff' = cutOff \ {Saving(j)}
  /\ UNCHANGED <<cutJob, asking, packing>>

\* The bytes are all there once the last to truncate the file has closed it.
SaveCloses(j) ==
  LET f == Saving(j) IN
  /\ cutter[j].at = "save"
  /\ crop' = IF crop[f].by = j THEN [crop EXCEPT ![f].state = "whole"] ELSE crop
  /\ cutter' = [cutter EXCEPT ![j] = [at |-> "next", todo |-> @.todo \ {f[2]}]]
  /\ UNCHANGED <<cutJob, cutOff, asking, packing>>

CutDone(j) ==
  /\ cutter[j].at = "next" /\ cutter[j].todo = {} /\ CutEnds(j, "done")
  /\ UNCHANGED <<crop, cutOff, asking, packing>>

\* An error between two saves: another attempt, or the last.
CutRaises(j) ==
  /\ cutter[j].at = "next" /\ \E outcome \in {"queued", "failed"} : CutEnds(j, outcome)
  /\ UNCHANGED <<crop, cutOff, asking, packing>>

\* The retry button of the dashboard.
Requeue(j) ==
  /\ cutJob[j].status = "failed" /\ cutJob' = [cutJob EXCEPT ![j].status = "queued"]
  /\ UNCHANGED <<cutter, crop, cutOff, asking, packing>>

-----------------------------------------------------------------------------
(* The portal *)

\* _stalled_crop_assets: a failure with no live job behind it.
LiveJob(s) == \E j \in CropJobs : cutJob[j].still = s /\ cutJob[j].status \in {"queued", "running"}
StalledMut(s) == FALSE
Stalled(s) ==
  /\ \E j \in CropJobs : cutJob[j].still = s /\ cutJob[j].status = "failed"
  /\ ~LiveJob(s)

\* _crop_link_status
LinkReady(f)   == Cut(f)
LinkStalled(f) == Stalled(f[1]) /\ ~LinkReady(f)
LinkPending(f) == ~LinkReady(f) /\ ~LinkStalled(f)

\* crops_zip lists the files that are there, and looks for their archive.
PackFiles == {f \in Wanted \X active : Cut(f)}
PackRead(k) ==
  /\ packer[k].at = "idle" /\ PackFiles # {}
  /\ packer' = [packer EXCEPT ![k] = [at |-> IF pack[PackFiles] # "none" THEN "send" ELSE "lock",
                                      files |-> PackFiles]]
  /\ UNCHANGED <<packLock, packPart, pack, cutting, asking>>

FreeForMut(k) == TRUE
FreeFor(k)    == packLock = NoPacker
PackLock(k) ==
  /\ packer[k].at = "lock" /\ FreeFor(k)
  /\ packLock' = k
  /\ packer' = [packer EXCEPT ![k].at = IF pack[packer[k].files] # "none" THEN "unlock" ELSE "copy"]
  /\ UNCHANGED <<packPart, pack, cutting, asking>>

\* build_zip: the .part is truncated, filled, renamed.
PackOpens(k) ==
  /\ packer[k].at = "copy"
  /\ packPart' = [packPart EXCEPT ![packer[k].files] = k]
  /\ packer' = [packer EXCEPT ![k].at = "rename"]
  /\ UNCHANGED <<packLock, pack, cutting, asking>>

PackRenames(k) ==
  LET n == packer[k].files IN
  /\ packer[k].at = "rename" /\ packPart[n] # NoPacker
  /\ pack' = [pack EXCEPT ![n] = IF packPart[n] = k THEN "whole" ELSE "torn"]
  /\ packPart' = [packPart EXCEPT ![n] = NoPacker]
  /\ packer' = [packer EXCEPT ![k].at = "prune"]
  /\ UNCHANGED <<packLock, cutting, asking>>

PackPrunes(k) ==
  /\ packer[k].at = "prune"
  /\ pack' = [n \in Packs |-> IF n = packer[k].files THEN pack[n] ELSE "none"]
  /\ packer' = [packer EXCEPT ![k].at = "unlock"]
  /\ UNCHANGED <<packLock, packPart, cutting, asking>>

PackUnlocks(k) ==
  /\ packer[k].at = "unlock" /\ packLock' = NoPacker
  /\ packer' = [packer EXCEPT ![k].at = "send"]
  /\ UNCHANGED <<packPart, pack, cutting, asking>>

\* FileResponse opens the archive only now.
PackSends(k) ==
  /\ packer[k].at = "send" /\ packer' = [packer EXCEPT ![k] = NoPack]
  /\ UNCHANGED <<packLock, packPart, pack, cutting, asking>>

-----------------------------------------------------------------------------
\* A kill and the start after it: running jobs are queued again, files stay as
\* they are, the lock goes with the process.
CropsKill ==
  /\ \/ \E j \in CropJobs : cutter[j].at # "idle"
     \/ \E k \in Packers : packer[k].at # "idle"
     \/ filling # {} \/ \E s \in Stills : faved[s] = "asked"
  /\ cutOff' = cutOff \cup {f \in Pairs : crop[f].state = "torn"}
  /\ cutJob' = [j \in CropJobs |-> IF cutJob[j].status = "running"
                                   THEN [cutJob[j] EXCEPT !.status = "queued"] ELSE cutJob[j]]
  /\ cutter' = [j \in CropJobs |-> NoCutter]
  /\ faved' = [s \in Stills |-> IF faved[s] = "asked" THEN "yes" ELSE faved[s]]
  /\ filling' = {} /\ packLock' = NoPacker /\ packer' = [k \in Packers |-> NoPack]
  /\ UNCHANGED <<active, still, unasked, crop, packPart, pack>>

CropsNext ==
  \/ \E s \in Stills : \/ Favourite(s) \/ FavouriteAsks(s) \/ Unfavourite(s)
                       \/ BackfillAsks(s) \/ BecomesReady(s)
  \/ Backfill
  \/ \E p \in Presets : ToggleActive(p)
  \/ \E j \in CropJobs : CutBegin(j) \/ SaveOpens(j) \/ SaveCloses(j) \/ CutDone(j) \/ CutRaises(j) \/ Requeue(j)
  \/ \E k \in Packers : \/ PackRead(k) \/ PackLock(k) \/ PackOpens(k) \/ PackRenames(k)
                        \/ PackPrunes(k) \/ PackUnlocks(k) \/ PackSends(k)
  \/ CropsKill

CropsSpec == CropsInit /\ [][CropsNext]_cropVars

-----------------------------------------------------------------------------
(* Properties *)

CropsTypeOK ==
  /\ active \subseteq Presets /\ still \in [Stills -> {"processing", "ready"}]
  /\ faved \in [Stills -> {"no", "asked", "yes"}] /\ filling \subseteq Stills
  /\ cutJob \in [CropJobs -> [status : {"absent", "queued", "running", "done", "failed"},
                              still : Stills \cup {NoStill}]]
  /\ cutter \in [CropJobs -> [at : {"idle", "next", "save"}, todo : SUBSET Presets]]
  /\ \A f \in Pairs : crop[f].state \in {"none", "torn", "whole"}
  /\ packer \in [Packers -> [at : {"idle", "lock", "copy", "rename", "prune", "unlock", "send"}, files : Packs]]
  /\ packLock \in Packers \cup {NoPacker}
  /\ packPart \in [Packs -> Packers \cup {NoPacker}] /\ pack \in [Packs -> {"none", "whole", "torn"}]
  /\ cutOff \subseteq Pairs /\ unasked \subseteq Pairs

\* A crop that exists and is not whole is being saved, or its save was killed.
\* Concerns make_crops, which two jobs of one photo may run at once.
TornCropHasACause ==
  \A f \in Pairs : crop[f].state = "torn" =>
    f \in cutOff \/ \E j \in CropJobs : cutter[j].at = "save" /\ Saving(j) = f

\* The portal's page waits for a crop only when a job will cut it, or when none
\* was asked for since the crop could be wanted.
\* Concerns _crop_link_status and _h_crops, which ends early on what it finds.
WaitingIsNotInVain ==
  \A s \in Wanted, p \in active :
    LinkPending(<<s, p>>) => LiveJob(s) \/ <<s, p>> \in unasked

\* The portal's archive is never an unfinished one.
\* Concerns crops_zip: its lock, its second look and the rename.
PackIsWhole == \A n \in Packs : pack[n] # "torn"
=============================================================================
