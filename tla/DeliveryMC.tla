----------------------------- MODULE DeliveryMC -----------------------------
(***************************************************************************)
(* TLC instance of the components around a gallery's delivery, the locked  *)
(* doors and the service's housekeeping.  As in StudioMC the components    *)
(* share no variable, a behaviour follows one of them, named by `focus`,   *)
(* and a component with many operations is followed in several scopes,     *)
(* which together take every operation; a scope only removes behaviours.   *)
(***************************************************************************)
EXTENDS Sweeps, ReviewThreads, Proofing, Crops, Bundles, Uploads, Companions, Lockout,
        Migrations, Alarms

CONSTANTS
  Foci,       \* what this run follows
  a1, a2, d1, i1, j1, p1, r1, s1, t1  \* the elements the scopes name

VARIABLE focus

\* The components in groups, and what rests while one is followed.
galleryVars == <<sweepVars, reviewVars, proofVars, cropVars, bundleVars>>
serviceVars == <<uploadVars, companionVars, lockVars, migrationVars, alarmVars>>
components == <<galleryVars, serviceVars>>

restOfSweeps     == <<reviewVars, proofVars, cropVars, bundleVars, serviceVars>>
restOfReview     == <<sweepVars, proofVars, cropVars, bundleVars, serviceVars>>
restOfProof      == <<sweepVars, reviewVars, cropVars, bundleVars, serviceVars>>
restOfCrops      == <<sweepVars, reviewVars, proofVars, bundleVars, serviceVars>>
restOfBundles    == <<sweepVars, reviewVars, proofVars, cropVars, serviceVars>>
restOfUploads    == <<companionVars, lockVars, migrationVars, alarmVars, galleryVars>>
restOfCompanions == <<uploadVars, lockVars, migrationVars, alarmVars, galleryVars>>
restOfLock       == <<uploadVars, companionVars, migrationVars, alarmVars, galleryVars>>
restOfMigrations == <<uploadVars, companionVars, lockVars, alarmVars, galleryVars>>
restOfAlarms     == <<uploadVars, companionVars, lockVars, migrationVars, galleryVars>>

-----------------------------------------------------------------------------
\* One kind of notice after another.
Only(kinds) == \A n \in todo' : n.kind \in kinds
SweepScope ==
  /\ focus # "shoots" => UNCHANGED shoot
  /\ focus = "expiry" => /\ Only({"expiry"}) /\ album'[a2] = album[a2]
                         /\ ~album'[a1].unpicked /\ album'[a1].client = NoPatron
  /\ focus = "asks"   => /\ Only({"review"})
                         /\ \A a \in Albums : /\ album'[a].expires = 0 /\ ~album'[a].unpicked
                                              /\ saving'[a].open => ~album[a].published
  /\ focus = "picks"  => /\ Only({"review", "proofing"}) /\ album'[a2] = album[a2] /\ album'[a1].client # "d"
                         /\ album'[a1].expires \in {0, LastDay - 1}
  /\ focus \notin {"expiry", "asks", "picks"} => UNCHANGED album
  /\ focus # "bills"     => UNCHANGED bill
  /\ focus # "contracts" => UNCHANGED paper
  /\ focus # "patrons"   => UNCHANGED patron
  /\ patron'["d"] = patron["d"]
  /\ focus \in {"patrons", "contracts"}
       \/ Only({"48h", "24h", "sms", "expiry", "proofing", "review", "dunning"})

\* Two comments; three of which one request writes, while another resolves or hides.
ReviewScope ==
  /\ focus = "thread"  => ~comment'[3].there
  /\ focus = "resolve" => \A r \in Reviewers : review'[r].at # "hide"
  /\ focus = "hide"    => \A r \in Reviewers : review'[r].at # "transition"
  /\ focus # "thread"  => \A r \in Reviewers \ {r1} : review'[r].at \notin {"client", "admin"}

\* Taps of a visitor; sections under one tap; the cover; deletions under one tap.
OneTap == \A t \in Taps \ {t1} : tap'[t] = NoTap
ProofScope ==
  /\ focus = "taps" => /\ UNCHANGED <<desk, shown>>
                       /\ UNCHANGED <<section, shot>> \/ (tap' = tap /\ \A t \in Taps : tap[t] = NoTap)
  /\ focus = "sorting" => UNCHANGED <<desk, shown>> /\ OneTap
  /\ focus = "cover"   => UNCHANGED <<tap, section>>
  /\ focus = "delete"  => /\ OneTap
                          /\ \A d \in Desks \ {d1} : desk'[d] = NoDesk
                          /\ desk'[d1].at \in {"idle", "delete", "delete forced"}
                          /\ shown'.there => UNCHANGED <<section, shot>>

\* The crops; the packs made of them.
CropScope ==
  /\ focus = "cut"  => UNCHANGED packing /\ \A j \in CropJobs \ {j1} : cutJob'[j].status # "failed"
                       /\ \A s \in Stills : faved[s] = "yes" => faved'[s] = "yes"
  /\ focus = "pack" => /\ \A j \in CropJobs \ {j1} : cutJob'[j].status = "absent"
                       /\ cutJob'[j1].status # "failed"
                       /\ filling' = {} /\ active' = active
                       /\ faved' = faved \/ \A k \in Packers : packer'[k].at = "idle"
                       /\ cutJob[j1].status = "done" => cutJob'[j1].status = "done"

\* Lists bundled inline; a section's, by one job and one request; jobs alone.
BundleScope ==
  /\ focus = "inline"  => /\ UNCHANGED bundleJob /\ list'[s1] = {}
                          /\ \A l \in Lists : list'[l] \subseteq {p1}
  /\ focus = "section" => /\ \A l \in Lists \ {s1} : list'[l] = {}
                          /\ \A m \in (Inliners \ {i1}) \cup (BundleJobs \ {j1}) : maker'[m] = NoMaker
                          /\ p1 \in list'[s1] /\ frame'[p1] = "there"
  /\ focus = "jobs"    => /\ list[s1] = {} /\ UNCHANGED frame => list'[s1] = Frames
                          /\ list[s1] # {} => UNCHANGED list

\* The files of a gallery; the cuts of a clip.
UploadScope ==
  /\ focus = "files" => UNCHANGED <<cut, clipFile, clipJob, encoder, pressing, rivals>>
  /\ focus = "clips" => UNCHANGED <<masters, masterRow, stream, drawer, swept, stray>>

\* Hand-offs and their callbacks; what a run writes back; the other companion.
CompanionScope ==
  /\ focus = "ask"    => \A r \in Runs : writeBack'[r] \in {"none", "queued"}
  /\ focus = "write"  => /\ \A j \in Analyses : analysis'[j].says # "queued"
                         /\ \A c \in CallbackThreads : caller'[c] = AtRest
  /\ focus = "plutus" => UNCHANGED <<argusRun, caller, results>>
  /\ focus # "plutus" => plutusJob' \in {"none", "queued"} /\ plutusRow' = ""

\* The PIN of a gallery from two addresses; the studio's login; a form and a portal
\* from one; requests per second.
Doorsteps ==
  [pin |-> {"none", "gallery"}, login |-> {"none", "admin"}, form |-> {"none", "contact", "portal"}]
LockScope ==
  /\ focus \in DOMAIN Doorsteps =>
       /\ UNCHANGED hits
       /\ \A r \in Knockers : /\ knock'[r].door.kind \in Doorsteps[focus]
                              /\ focus # "pin" => knock'[r].ip # 2
  /\ focus \in {"pin", "form"} => tick' < LastTick
  /\ focus = "rate" => UNCHANGED knock

\* Trouble; crashes.
AlarmScope ==
  /\ focus = "ops"   => UNCHANGED crashLog
  /\ focus = "crash" => UNCHANGED trouble /\ loop'.at # "hung"

-----------------------------------------------------------------------------
\* What is followed, by component.
InSweeps     == focus \in {"shoots", "expiry", "asks", "picks", "bills", "contracts", "patrons"}
InReview     == focus \in {"thread", "resolve", "hide"}
InProof      == focus \in {"taps", "sorting", "cover", "delete"}
InCrops      == focus \in {"cut", "pack"}
InBundles    == focus \in {"inline", "section", "jobs"}
InUploads    == focus \in {"files", "clips"}
InCompanions == focus \in {"ask", "write", "plutus"}
InLock       == focus \in {"pin", "login", "form", "rate"}
InMigrations == focus = "migrate"
InAlarms     == focus \in {"ops", "crash"}

DeliveryInit ==
  /\ focus \in Foci
  /\ SweepsInit /\ ReviewInit /\ ProofInit /\ CropsInit /\ BundlesInit /\ UploadsInit
  /\ CompanionsInit /\ LockInit /\ MigrationsInit /\ AlarmsInit
  /\ focus \notin {"taps", "sorting", "cover", "delete"} => \A p \in Photos : shot[p].section = s1

DeliveryNext ==
  /\ UNCHANGED focus
  /\ \/ InSweeps /\ SweepsNext /\ SweepScope /\ UNCHANGED restOfSweeps
     \/ InReview /\ ReviewNext /\ ReviewScope /\ UNCHANGED restOfReview
     \/ InProof /\ ProofNext /\ ProofScope /\ UNCHANGED restOfProof
     \/ InCrops /\ CropsNext /\ CropScope /\ UNCHANGED restOfCrops
     \/ InBundles /\ BundlesNext /\ BundleScope /\ UNCHANGED restOfBundles
     \/ InUploads /\ UploadsNext /\ UploadScope /\ UNCHANGED restOfUploads
     \/ InCompanions /\ CompanionsNext /\ CompanionScope /\ UNCHANGED restOfCompanions
     \/ InLock /\ LockNext /\ LockScope /\ UNCHANGED restOfLock
     \/ InMigrations /\ MigrationsNext /\ UNCHANGED restOfMigrations
     \/ InAlarms /\ AlarmsNext /\ AlarmScope /\ UNCHANGED restOfAlarms

DeliverySpec == DeliveryInit /\ [][DeliveryNext]_<<focus, components>>

\* Types of every component.  A component that is not followed rests in an initial
\* state, where its own focus checks it: here and below it is judged where followed.
DeliveryTypeOK ==
  /\ (InSweeps => SweepsTypeOK)         /\ (InReview => ReviewTypeOK)
  /\ (InProof => ProofTypeOK)           /\ (InCrops => CropsTypeOK)
  /\ (InBundles => BundlesTypeOK)       /\ (InUploads => UploadsTypeOK)
  /\ (InCompanions => CompanionsTypeOK) /\ (InLock => LockTypeOK)
  /\ (InMigrations => MigrationsTypeOK) /\ (InAlarms => AlarmsTypeOK)

-----------------------------------------------------------------------------
(* Properties, by component; each part is stated and explained in its module. The *)
(* run also asks MigrationsHold, of Migrations.                                    *)

\* Sweeps, Alarms and Lockout: everyone is told once, truly and of the date that holds;
\* the owner of every lasting trouble and of every crash; doors lock, and it is told.
NoticesAreTruthful ==
  /\ InSweeps => TellsOnceAndTruly /\ ReminderIsOfThisDate /\ AsksAreSpaced
  /\ InAlarms => AlarmsAreSound
  /\ InLock => DoorsApart /\ OverrunIsBounded /\ LockIsAlerted /\ WindowHolds

\* Proofing, ReviewThreads and Companions: caps hold, labels tell them, the cover is
\* there and picks are not lost; a thread's comments stand together and its trail tells
\* it; answers of other programs land where they were asked for.
GalleryHolds ==
  /\ InProof => CapHolds /\ LabelIsTrue /\ CoverIsThere /\ OnlyLatePicksDropped
  /\ InReview => ThreadsAreSound
  /\ InCompanions => HandOffsAreSound

\* Crops, Bundles and Uploads: what is on disk is whole, or torn for a named cause;
\* it is what the rows say; and who waits for it does not wait in vain.
FilesHold ==
  /\ InCrops => TornCropHasACause /\ WaitingIsNotInVain /\ PackIsWhole
  /\ InBundles => BundleMatches /\ TornOnlyByTwins /\ NewestIsKept /\ WaitHasAnAnswer
  /\ InUploads => FilesAreSound

-----------------------------------------------------------------------------
\* The window opens twice a week; one list is a
\* section's and two are visitors'; files 1 and 3 were renamed into one another.
TwoOpenings  == <<1, 2>>
TwoFamilies  == [l \in Lists |-> IF l = s1 THEN "s1" ELSE "fav"]
OldNames     == [f \in Files |-> CASE f = 1 -> {3} [] f = 3 -> {1} [] OTHER -> {}]
FourDoors    == {[kind |-> "gallery", id |-> 1], [kind |-> "admin", id |-> 0],
                 [kind |-> "portal", id |-> 2], [kind |-> "contact", id |-> 0]}
=============================================================================
