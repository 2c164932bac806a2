----------------------------- MODULE GalleryZipMC -----------------------------
(***************************************************************************)
(* TLC instances of GalleryZip.  A behaviour is of one of three kinds,      *)
(* chosen at its start.  In a "killed" one the process may be killed; in a  *)
(* "twins" one two browsers may each miss the other's job, so that two      *)
(* builds of one revision share a .part and nothing is swept; in both the   *)
(* gallery changes less often than in a "changed" one, where one browser    *)
(* follows every change.                                                    *)
(***************************************************************************)
EXTENDS GalleryZip, TLC

VARIABLE kind

Alone == CHOOSE c \in Clients : TRUE

ZipScope ==
  /\ kind # "twins"   => \A c \in Clients \ {Alone} : req'[c].at = "idle"
  /\ kind # "killed"  => crashes' = 0
  /\ kind # "changed" => rev' < MaxRev /\ \A a \in Assets : asset'[a] # "failed"
  /\ kind = "twins"   => (Running = {} => UNCHANGED files)

ZipInit == Init /\ kind \in {"killed", "twins", "changed"}

ZipNext == Next /\ UNCHANGED kind /\ ZipScope

\* No scope holds back what Fairness is about: the builds and the open pages.
ZipSpec == ZipInit /\ [][ZipNext]_<<vars, kind>> /\ Fairness
=============================================================================
