---------------------------- MODULE GalleryProofs ----------------------------
(***************************************************************************)
(* Proofs about a gallery and its files: crops and their packs, bundles of *)
(* selections, uploads and the cuts of a clip, the answers of companion    *)
(* programs, review threads and proofing, with what sums over a finite set *)
(* come to.  DeliveryProofs carries them over to the specification the run *)
(* checks.                                                                 *)
(***************************************************************************)
EXTENDS Integers, Crops, Bundles, Uploads, Companions, ReviewThreads, Proofing,
        FiniteSetTheorems, WellFoundedInduction, TLAPS

(* Crops: the job that cuts, and who asked for it.                         *)

CropRows == [state : {"none", "torn", "whole"}, by : CropJobs \cup {NoPacker}]
CutRows  == [status : {"absent", "queued", "running", "done", "failed"}, still : Stills \cup {NoStill}]
CutterRows == [at : {"idle", "next", "save"}, todo : SUBSET Presets]

AskingTyped ==
  /\ active \subseteq Presets /\ still \in [Stills -> {"processing", "ready"}]
  /\ faved \in [Stills -> {"no", "asked", "yes"}] /\ filling \subseteq Stills /\ unasked \subseteq Pairs

CuttingTyped ==
  /\ cutJob \in [CropJobs -> CutRows] /\ cutter \in [CropJobs -> CutterRows]
  /\ crop \in [Pairs -> CropRows] /\ cutOff \subseteq Pairs

\* A job at work is a running row, and the file it is saving is there.
CutterHolds(j) ==
  /\ cutter[j].at # "idle" => cutJob[j].status = "running"
  /\ cutter[j].at = "idle" => cutJob[j].status # "running"
  /\ cutter[j].at = "save" /\ Saving(j) \in Pairs => Cut(Saving(j))

\* A torn crop was truncated last by the job that is saving it.
TornBy(f) ==
  crop[f].state = "torn" =>
    \/ f \in cutOff
    \/ /\ crop[f].by \in CropJobs
       /\ cutter[crop[f].by].at = "save" /\ Saving(crop[f].by) = f

\* A photo that is not ready has been asked for by nobody.
NotReady(s) ==
  still[s] = "processing" => /\ faved[s] # "asked" /\ s \notin filling
                             /\ faved[s] # "no" => FilesOf(s) \subseteq unasked

\* The job that will cut s for p, or failed to.
Owes(j, s, p) ==
  /\ cutJob[j].still = s
  /\ \/ cutJob[j].status \in {"queued", "failed"}
     \/ cutJob[j].status = "running" /\ p \in cutter[j].todo

OwedFor(s, p) ==
  faved[s] # "no" /\ still[s] = "ready" /\ p \in active /\ <<s, p>> \notin unasked /\ ~Cut(<<s, p>>) =>
    \E j \in CropJobs : Owes(j, s, p)

CutInv ==
  /\ AskingTyped /\ CuttingTyped
  /\ \A j \in CropJobs : CutterHolds(j)
  /\ \A f \in Pairs : TornBy(f)
  /\ \A s \in Stills : NotReady(s)
  /\ \A s \in Stills, p \in Presets : OwedFor(s, p)

\* The archive: who is past the lock holds it, and the .part it filled is its own.
PackRows == [at : {"idle", "lock", "copy", "rename", "prune", "unlock", "send"}, files : Packs]
PackHolds(k) ==
  /\ packer[k].at \in {"copy", "rename", "prune", "unlock"} => packLock = k
  /\ packer[k].at = "rename" => packPart[packer[k].files] = k

PackInv ==
  /\ packer \in [Packers -> PackRows] /\ packLock \in Packers \cup {NoPacker}
  /\ packPart \in [Packs -> Packers \cup {NoPacker}] /\ pack \in [Packs -> {"none", "whole", "torn"}]
  /\ \A k \in Packers : PackHolds(k)
  /\ PackIsWhole

CropsInv == CutInv /\ PackInv

\* Steps that ask: the job's files and jobs at work stay; a row may be queued.
LEMMA AsksKeeps ==
  ASSUME CutInv, NEW s \in Stills, Asks(s), AskingTyped',
         active' = active, still' = still,
         \A t \in Stills : faved'[t] = "no" <=> faved[t] = "no",
         \A t \in Stills : faved'[t] = "asked" => faved[t] = "asked",
         filling' \subseteq filling, unasked' = unasked \ FilesOf(s), still[s] = "ready"
  PROVE  CutInv'
<1>1. PICK j \in CropJobs : /\ cutJob[j].status \in {"absent", "done"}
                            /\ cutJob' = [cutJob EXCEPT ![j] = [status |-> "queued", still |-> s]] BY DEF Asks
<1>2. UNCHANGED <<cutter, crop, cutOff>> BY DEF Asks
<1>3. /\ cutJob' \in [CropJobs -> CutRows] /\ cutJob'[j] = [status |-> "queued", still |-> s]
      /\ \A i \in CropJobs \ {j} : cutJob'[i] = cutJob[i] BY <1>1 DEF CutInv, CuttingTyped, CutRows
<1>4. cutter[j].at = "idle" BY <1>1 DEF CutInv, CutterHolds
<1>5. CuttingTyped' BY <1>2, <1>3 DEF CutInv, CuttingTyped
<1>6. ASSUME NEW i \in CropJobs PROVE CutterHolds(i)'
  <2>1. CASE i = j BY <2>1, <1>2, <1>3, <1>4 DEF CutterHolds
  <2>2. CASE i # j BY <2>2, <1>2, <1>3 DEF CutInv, CutterHolds, Saving, Next1, Cut
  <2> QED BY <2>1, <2>2
<1>7. ASSUME NEW f \in Pairs PROVE TornBy(f)' BY <1>2, <1>3, <1>4 DEF CutInv, TornBy, Saving, Next1
<1>8. ASSUME NEW t \in Stills PROVE NotReady(t)' BY DEF CutInv, NotReady, FilesOf
<1>9. ASSUME NEW t \in Stills, NEW p \in Presets PROVE OwedFor(t, p)'
  <2>1. CASE t = s BY <2>1, <1>3 DEF OwedFor, Owes
  <2>2. CASE t # s
    <3>1. <<t, p>> \in unasked' <=> <<t, p>> \in unasked BY <2>2 DEF FilesOf
    <3>2. ASSUME NEW i \in CropJobs, Owes(i, t, p) PROVE Owes(i, t, p)' BY <3>2, <1>1, <1>2, <1>3 DEF Owes
    <3> QED BY <3>1, <3>2, <1>2 DEF CutInv, OwedFor, Cut
  <2> QED BY <2>1, <2>2
<1> QED BY <1>5, <1>6, <1>7, <1>8, <1>9 DEF CutInv

\* Steps that move no job and no file.
LEMMA CuttingRests ==
  ASSUME CutInv, UNCHANGED cutting
  PROVE  /\ CuttingTyped' /\ \A j \in CropJobs : CutterHolds(j)'
         /\ \A f \in Pairs : TornBy(f)'
         /\ \A j \in CropJobs, s \in Stills, p \in Presets : Owes(j, s, p) => Owes(j, s, p)'
         /\ \A f \in Pairs : Cut(f)' <=> Cut(f)
<1> USE DEF cutting, CutInv
<1>1. CuttingTyped' BY DEF CuttingTyped
<1>2. \A j \in CropJobs : CutterHolds(j)' BY DEF CutterHolds, Saving, Next1, Cut
<1>3. \A f \in Pairs : TornBy(f)' BY DEF TornBy, Saving, Next1
<1>4. \A j \in CropJobs, s \in Stills, p \in Presets : Owes(j, s, p) => Owes(j, s, p)' BY DEF Owes
<1>5. \A f \in Pairs : Cut(f)' <=> Cut(f) BY DEF Cut
<1> QED BY <1>1, <1>2, <1>3, <1>4, <1>5

\* Steps of those who ask.
LEMMA AskingStep ==
  ASSUME CutInv,
         \/ \E s \in Stills : \/ Favourite(s) \/ FavouriteAsks(s) \/ Unfavourite(s)
                              \/ BackfillAsks(s) \/ BecomesReady(s)
         \/ Backfill
         \/ \E p \in Presets : ToggleActive(p)
  PROVE  CutInv'
<1>0. AskingTyped /\ (\A s \in Stills : NotReady(s)) /\ (\A s \in Stills, p \in Presets : OwedFor(s, p)) BY DEF CutInv
<1>1. ASSUME NEW s \in Stills, Favourite(s) PROVE CutInv'
  <2>1. UNCHANGED <<active, still, filling, cutting>> /\ unasked' = unasked \cup FilesOf(s) BY <1>1 DEF Favourite
  <2>2. /\ faved' \in [Stills -> {"no", "asked", "yes"}] /\ \A t \in Stills \ {s} : faved'[t] = faved[t]
        /\ faved'[s] = "asked" => still[s] = "ready" BY <1>0, <1>1 DEF Favourite, AskingTyped
  <2>3. AskingTyped' BY <1>0, <2>1, <2>2 DEF AskingTyped, FilesOf, Pairs
  <2>4. ASSUME NEW t \in Stills PROVE NotReady(t)' BY <1>0, <2>1, <2>2 DEF NotReady, FilesOf, AskingTyped
  <2>5. ASSUME NEW t \in Stills, NEW p \in Presets PROVE OwedFor(t, p)'
    <3>1. CASE t = s BY <3>1, <2>1 DEF OwedFor, FilesOf
    <3>2. CASE t # s BY <3>2, <1>0, <2>1, <2>2, CuttingRests DEF OwedFor, Pairs
    <3> QED BY <3>1, <3>2
  <2> QED BY <2>1, <2>3, <2>4, <2>5, CuttingRests DEF CutInv
<1>2. ASSUME NEW s \in Stills, FavouriteAsks(s) PROVE CutInv'
  <2>1. Asks(s) /\ active' = active /\ still' = still /\ filling' = filling
        /\ unasked' = unasked \ FilesOf(s) /\ faved[s] = "asked" BY <1>2 DEF FavouriteAsks
  <2>2. faved' = [faved EXCEPT ![s] = "yes"] BY <1>2 DEF FavouriteAsks
  <2>3. AskingTyped' BY <1>0, <2>1, <2>2 DEF AskingTyped
  <2>4. still[s] = "ready" BY <1>0, <2>1 DEF NotReady, AskingTyped
  <2> QED BY <1>0, <2>1, <2>2, <2>3, <2>4, AsksKeeps DEF AskingTyped
<1>3. ASSUME NEW s \in Stills, Unfavourite(s) PROVE CutInv'
  <2>1. UNCHANGED <<active, still, filling, unasked, cutting>> /\ faved' = [faved EXCEPT ![s] = "no"]
    BY <1>3 DEF Unfavourite
  <2>2. AskingTyped' BY <1>0, <2>1 DEF AskingTyped
  <2>3. ASSUME NEW t \in Stills PROVE NotReady(t)' BY <1>0, <2>1 DEF NotReady, FilesOf, AskingTyped
  <2>4. ASSUME NEW t \in Stills, NEW p \in Presets PROVE OwedFor(t, p)'
    BY <1>0, <2>1, CuttingRests DEF OwedFor, AskingTyped, Pairs
  <2> QED BY <2>1, <2>2, <2>3, <2>4, CuttingRests DEF CutInv
<1>4. ASSUME NEW s \in Stills, BackfillAsks(s) PROVE CutInv'
  <2>1. /\ s \in filling /\ Asks(s) /\ filling' = filling \ {s} /\ unasked' = unasked \ FilesOf(s)
        /\ UNCHANGED <<active, still, faved>> BY <1>4 DEF BackfillAsks
  <2>2. AskingTyped' BY <1>0, <2>1 DEF AskingTyped
  <2>3. still[s] = "ready" BY <1>0, <2>1 DEF NotReady, AskingTyped
  <2> QED BY <2>1, <2>2, <2>3, AsksKeeps
<1>5. ASSUME NEW s \in Stills, BecomesReady(s) PROVE CutInv'
  <2>1. /\ still[s] = "processing" /\ still' = [still EXCEPT ![s] = "ready"]
        /\ UNCHANGED <<active, faved, filling, unasked, cutting>> BY <1>5 DEF BecomesReady
  <2>2. AskingTyped' BY <1>0, <2>1 DEF AskingTyped
  <2>3. ASSUME NEW t \in Stills PROVE NotReady(t)' BY <1>0, <2>1 DEF NotReady, FilesOf, AskingTyped
  <2>4. ASSUME NEW t \in Stills, NEW p \in Presets PROVE OwedFor(t, p)'
    <3>1. CASE t = s BY <3>1, <1>0, <2>1 DEF NotReady, OwedFor, FilesOf
    <3>2. CASE t # s BY <3>2, <1>0, <2>1, CuttingRests DEF OwedFor, AskingTyped, Pairs
    <3> QED BY <3>1, <3>2
  <2> QED BY <2>1, <2>2, <2>3, <2>4, CuttingRests DEF CutInv
<1>6. ASSUME Backfill PROVE CutInv'
  <2>1. filling' = Wanted /\ UNCHANGED <<active, still, faved, unasked, cutting>> BY <1>6 DEF Backfill
  <2>2. AskingTyped' BY <1>0, <2>1 DEF AskingTyped, Wanted
  <2>3. ASSUME NEW t \in Stills PROVE NotReady(t)' BY <1>0, <2>1 DEF NotReady, FilesOf, Wanted
  <2>4. ASSUME NEW t \in Stills, NEW p \in Presets PROVE OwedFor(t, p)' BY <1>0, <2>1, CuttingRests DEF OwedFor, Pairs
  <2> QED BY <2>1, <2>2, <2>3, <2>4, CuttingRests DEF CutInv
<1>7. ASSUME NEW p \in Presets, ToggleActive(p) PROVE CutInv'
  <2>1. /\ UNCHANGED <<still, faved, filling, cutting>>
        /\ active' = IF p \in active THEN active \ {p} ELSE active \cup {p}
        /\ unasked' = IF p \in active THEN unasked ELSE unasked \cup (Stills \X {p}) BY <1>7 DEF ToggleActive
  <2>2. AskingTyped' BY <1>0, <2>1 DEF AskingTyped, Pairs
  <2>3. ASSUME NEW t \in Stills PROVE NotReady(t)' BY <1>0, <2>1 DEF NotReady, FilesOf
  <2>4. ASSUME NEW t \in Stills, NEW q \in Presets PROVE OwedFor(t, q)' BY <1>0, <2>1, CuttingRests DEF OwedFor, Pairs
  <2> QED BY <2>1, <2>2, <2>3, <2>4, CuttingRests DEF CutInv
<1> QED BY <1>1, <1>2, <1>3, <1>4, <1>5, <1>6, <1>7

\* Steps of the job.
LEMMA CuttingStep ==
  ASSUME CutInv, NEW j \in CropJobs,
         CutBegin(j) \/ SaveOpens(j) \/ SaveCloses(j) \/ CutDone(j) \/ CutRaises(j) \/ Requeue(j)
  PROVE  CutInv'
<1>0. /\ AskingTyped /\ (\A s \in Stills : NotReady(s)) /\ (\A s \in Stills, p \in Presets : OwedFor(s, p))
      /\ CuttingTyped /\ (\A i \in CropJobs : CutterHolds(i)) /\ (\A f \in Pairs : TornBy(f)) BY DEF CutInv
<1>1. UNCHANGED asking BY DEF CutBegin, SaveOpens, SaveCloses, CutDone, CutRaises, Requeue
<1>2. AskingTyped' /\ \A s \in Stills : NotReady(s)' BY <1>0, <1>1 DEF asking, AskingTyped, NotReady, FilesOf
\* A step that leaves the files alone, and the row and the work of every other job.
<1>3. ASSUME UNCHANGED <<crop, cutOff>>,
             NEW row \in CutRows, NEW work \in CutterRows,
             cutJob' = [cutJob EXCEPT ![j] = row], cutter' = [cutter EXCEPT ![j] = work],
             work.at = "next" \/ work.at = "idle", work.at = "idle" <=> row.status # "running",
             cutter[j].at # "save",
             \A s \in Stills, p \in Presets :
               Owes(j, s, p) /\ still[s] = "ready" /\ p \in active /\ ~Cut(<<s, p>>) =>
                 /\ row.still = s
                 /\ row.status \in {"queued", "failed"} \/ (row.status = "running" /\ p \in work.todo)
      PROVE  CutInv'
  <2>1. /\ cutJob'[j] = row /\ cutter'[j] = work /\ cutJob' \in [CropJobs -> CutRows]
        /\ cutter' \in [CropJobs -> CutterRows]
        /\ \A i \in CropJobs \ {j} : cutJob'[i] = cutJob[i] /\ cutter'[i] = cutter[i] BY <1>0, <1>3 DEF CuttingTyped
  <2>2. CuttingTyped' BY <1>0, <1>3, <2>1 DEF CuttingTyped
  <2>3. ASSUME NEW i \in CropJobs PROVE CutterHolds(i)'
    <3>1. CASE i = j BY <3>1, <1>3, <2>1 DEF CutterHolds
    <3>2. CASE i # j BY <3>2, <1>0, <1>3, <2>1 DEF CutterHolds, Saving, Next1, Cut
    <3> QED BY <3>1, <3>2
  <2>4. ASSUME NEW f \in Pairs PROVE TornBy(f)' BY <1>0, <1>3, <2>1 DEF TornBy, Saving, Next1
  <2>5. ASSUME NEW s \in Stills, NEW p \in Presets PROVE OwedFor(s, p)'
    <3>1. SUFFICES ASSUME faved[s] # "no", still[s] = "ready", p \in active, <<s, p>> \notin unasked,
                          ~Cut(<<s, p>>)
                   PROVE  \E i \in CropJobs : Owes(i, s, p)' BY <1>1, <1>3 DEF OwedFor, asking, Cut
    <3>2. PICK i \in CropJobs : Owes(i, s, p) BY <3>1, <1>0 DEF OwedFor
    <3>3. CASE i = j BY <3>1, <3>2, <3>3, <1>3, <2>1 DEF Owes
    <3>4. CASE i # j BY <3>2, <3>4, <2>1 DEF Owes
    <3> QED BY <3>3, <3>4
  <2> QED BY <1>2, <2>2, <2>3, <2>4, <2>5 DEF CutInv
<1>n. NoCutter \in CutterRows /\ NoCutter.at = "idle" BY DEF NoCutter, CutterRows
<1>r. cutJob[j] \in CutRows /\ cutter[j] \in CutterRows BY <1>0 DEF CuttingTyped
<1>e. ASSUME NEW outcome \in {"queued", "done", "failed"}, CutEnds(j, outcome)
      PROVE  /\ [cutJob[j] EXCEPT !.status = outcome] \in CutRows
             /\ cutJob' = [cutJob EXCEPT ![j] = [cutJob[j] EXCEPT !.status = outcome]]
             /\ cutter' = [cutter EXCEPT ![j] = NoCutter] BY <1>0, <1>r, <1>e DEF CutEnds, CutRows, CuttingTyped
<1>4. ASSUME CutBegin(j) PROVE CutInv'
  <2>1. cutJob[j].status = "queued" /\ UNCHANGED <<crop, cutOff>> BY <1>4 DEF CutBegin
  <2>2. cutter[j].at = "idle" BY <2>1, <1>0 DEF CutterHolds
  <2>3. CASE still[cutJob[j].still] # "ready" \/ CutAlready(cutJob[j].still)
    <3>1. CutEnds(j, "done") BY <1>4, <2>3 DEF CutBegin
    <3>2. [cutJob[j] EXCEPT !.status = "done"].status = "done" BY <1>r DEF CutRows
    <3>3. ASSUME NEW s \in Stills, NEW p \in Presets, Owes(j, s, p), still[s] = "ready", p \in active,
                 ~Cut(<<s, p>>)
          PROVE  FALSE BY <3>3, <2>3 DEF Owes, CutAlready
    <3> QED BY <1>3, <1>e, <1>n, <2>1, <2>2, <3>1, <3>2, <3>3
  <2>4. CASE ~(still[cutJob[j].still] # "ready" \/ CutAlready(cutJob[j].still))
    <3> DEFINE row == [cutJob[j] EXCEPT !.status = "running"]
               work == [at |-> "next", todo |-> active]
    <3>1. cutJob' = [cutJob EXCEPT ![j] = row] /\ cutter' = [cutter EXCEPT ![j] = work]
      BY <1>4, <2>4, <1>0 DEF CutBegin, CuttingTyped
    <3>2. /\ row \in CutRows /\ row.status = "running" /\ row.still = cutJob[j].still
          /\ work \in CutterRows /\ work.at = "next" /\ work.todo = active
      BY <1>r, <1>0 DEF CutRows, CutterRows, AskingTyped
    <3>3. ASSUME NEW s \in Stills, NEW p \in Presets, Owes(j, s, p), p \in active
          PROVE  row.still = s /\ p \in work.todo BY <3>3, <3>2 DEF Owes
    <3> HIDE DEF row, work
    <3> QED BY <1>3, <2>1, <2>2, <3>1, <3>2, <3>3
  <2> QED BY <2>3, <2>4
<1>5. ASSUME SaveOpens(j) PROVE CutInv'
  <2> DEFINE f == Saving(j)
  <2>1. /\ cutter[j].at = "next" /\ crop' = [crop EXCEPT ![f] = [state |-> "torn", by |-> j]]
        /\ cutter' = [cutter EXCEPT ![j].at = "save"] /\ cutOff' = cutOff \ {f} /\ cutJob' = cutJob
    BY <1>5 DEF SaveOpens
  <2>2. /\ cutter' \in [CropJobs -> CutterRows] /\ cutter'[j].at = "save" /\ cutter'[j].todo = cutter[j].todo
        /\ \A i \in CropJobs \ {j} : cutter'[i] = cutter[i] BY <1>0, <1>r, <2>1 DEF CuttingTyped, CutterRows
  <2>3. \A i \in CropJobs : Saving(i)' = Saving(i) BY <2>1, <2>2 DEF Saving, Next1
  <2>4. /\ crop' \in [Pairs -> CropRows] /\ \A g \in Pairs \ {f} : crop'[g] = crop[g]
        /\ f \in Pairs => crop'[f] = [state |-> "torn", by |-> j]
    <3> HIDE DEF f
    <3> QED BY <1>0, <2>1 DEF CuttingTyped, CropRows
  <2>5. \A g \in Pairs : Cut(g) => Cut(g)' BY <2>4 DEF Cut
  <2>6. CuttingTyped' BY <1>0, <2>1, <2>2, <2>4 DEF CuttingTyped
  <2>7. ASSUME NEW i \in CropJobs PROVE CutterHolds(i)'
    <3>1. CASE i = j
      <4>1. f \in Pairs => Cut(f)' BY <2>3, <2>4 DEF Cut
      <4> QED BY <3>1, <4>1, <1>0, <2>1, <2>2, <2>3 DEF CutterHolds, Cut
    <3>2. CASE i # j BY <3>2, <1>0, <2>1, <2>2, <2>3, <2>5 DEF CutterHolds, Cut
    <3> QED BY <3>1, <3>2
  <2>8. ASSUME NEW g \in Pairs PROVE TornBy(g)'
    <3>1. CASE g = f BY <3>1, <2>2, <2>3, <2>4 DEF TornBy
    <3>2. CASE g # f
      <4>1. crop'[g] = crop[g] /\ (g \in cutOff' <=> g \in cutOff) BY <3>2, <2>1, <2>4
      <4>2. \A i \in CropJobs : cutter[i].at = "save" => cutter'[i].at = "save" BY <2>2
      <4> QED BY <4>1, <4>2, <1>0, <2>3 DEF TornBy
    <3> QED BY <3>1, <3>2
  <2>9. ASSUME NEW s \in Stills, NEW p \in Presets PROVE OwedFor(s, p)'
    <3>1. \A i \in CropJobs : Owes(i, s, p) => Owes(i, s, p)' BY <2>1, <2>2 DEF Owes
    <3>2. <<s, p>> \in Pairs BY DEF Pairs
    <3>3. OwedFor(s, p) BY <1>0
    <3> QED BY <3>1, <3>2, <3>3, <1>1, <2>5 DEF OwedFor, asking
  <2> QED BY <1>2, <2>6, <2>7, <2>8, <2>9 DEF CutInv
<1>6. ASSUME SaveCloses(j) PROVE CutInv'
  <2> DEFINE f == Saving(j)
  <2>1. /\ cutter[j].at = "save" /\ crop' = IF crop[f].by = j THEN [crop EXCEPT ![f].state = "whole"] ELSE crop
        /\ cutter' = [cutter EXCEPT ![j] = [at |-> "next", todo |-> @.todo \ {f[2]}]]
        /\ cutOff' = cutOff /\ cutJob' = cutJob BY <1>6 DEF SaveCloses
  <2>2. /\ cutter' \in [CropJobs -> CutterRows] /\ cutter'[j].at = "next" /\ cutter'[j].todo = cutter[j].todo \ {f[2]}
        /\ \A i \in CropJobs \ {j} : cutter'[i] = cutter[i]
    <3> HIDE DEF f
    <3> QED BY <1>0, <1>r, <2>1 DEF CuttingTyped, CutterRows
  <2>3. \A i \in CropJobs \ {j} : Saving(i)' = Saving(i) BY <2>1, <2>2 DEF Saving, Next1
  <2>4. /\ crop' \in [Pairs -> CropRows] /\ \A g \in Pairs \ {f} : crop'[g] = crop[g]
        /\ f \in Pairs /\ crop[f].by = j => crop'[f].state = "whole"
        /\ crop[f].by # j => crop' = crop
    <3> HIDE DEF f
    <3> QED BY <1>0, <2>1 DEF CuttingTyped, CropRows
  <2>5. \A g \in Pairs : Cut(g) => Cut(g)' BY <2>4 DEF Cut
  <2>6. CuttingTyped' BY <1>0, <2>1, <2>2, <2>4 DEF CuttingTyped
  <2>7. ASSUME NEW i \in CropJobs PROVE CutterHolds(i)'
    <3>1. CASE i = j BY <3>1, <1>0, <2>1, <2>2 DEF CutterHolds
    <3>2. CASE i # j BY <3>2, <1>0, <2>1, <2>2, <2>3, <2>5 DEF CutterHolds, Cut
    <3> QED BY <3>1, <3>2
  <2>8. ASSUME NEW g \in Pairs PROVE TornBy(g)'
    <3>1. CASE crop'[g] = crop[g]
      <4>1. SUFFICES ASSUME crop[g].state = "torn", g \notin cutOff
                     PROVE  TornBy(g)' BY <3>1, <2>1 DEF TornBy
      <4>2. PICK i \in CropJobs : i = crop[g].by /\ cutter[i].at = "save" /\ Saving(i) = g BY <4>1, <1>0 DEF TornBy
      <4>3. i # j
        <5> HIDE DEF f
        <5>1. SUFFICES ASSUME i = j PROVE FALSE OBVIOUS
        <5>2. g = f BY <4>2, <5>1 DEF f
        <5>3. crop'[g].state = "whole" BY <5>1, <5>2, <4>2, <2>4
        <5> QED BY <5>3, <3>1, <4>1
      <4>4. cutter'[i].at = "save" /\ Saving(i)' = g BY <4>2, <4>3, <2>2, <2>3
      <4>5. crop'[g].by = i BY <3>1, <4>2
      <4> QED BY <4>4, <4>5 DEF TornBy
    <3>2. CASE crop'[g] # crop[g] BY <3>2, <2>4 DEF TornBy
    <3> QED BY <3>1, <3>2
  <2>9. ASSUME NEW s \in Stills, NEW p \in Presets PROVE OwedFor(s, p)'
    <3>2. <<s, p>> \in Pairs BY DEF Pairs
    <3>3. OwedFor(s, p) BY <1>0
    <3>1. ASSUME NEW i \in CropJobs, Owes(i, s, p), ~Cut(<<s, p>>) PROVE Owes(i, s, p)'
      <4>1. CASE i # j BY <4>1, <3>1, <2>1, <2>2 DEF Owes
      <4>2. CASE i = j
        <5>1. cutJob[j].status = "running" BY <1>0, <2>1 DEF CutterHolds
        <5>2. cutJob[j].still = s /\ p \in cutter[j].todo BY <3>1, <4>2, <5>1 DEF Owes
        <5>3. p # f[2]
          <6>1. f = <<s, Next1(j)>> BY <5>2 DEF Saving
          <6>2. SUFFICES ASSUME p = f[2] PROVE FALSE OBVIOUS
          <6>3. f = <<s, p>> BY <6>1, <6>2
          <6>4. Cut(f) BY <6>3, <3>2, <1>0, <2>1 DEF CutterHolds
          <6> QED BY <6>3, <6>4, <3>1
        <5> QED BY <4>2, <5>1, <5>2, <5>3, <2>1, <2>2 DEF Owes
      <4> QED BY <4>1, <4>2
    <3> QED BY <3>1, <3>2, <3>3, <1>1, <2>5 DEF OwedFor, asking
  <2> QED BY <1>2, <2>6, <2>7, <2>8, <2>9 DEF CutInv
<1>7. ASSUME CutDone(j) PROVE CutInv'
  <2>1. cutter[j].at = "next" /\ cutter[j].todo = {} /\ CutEnds(j, "done") /\ UNCHANGED <<crop, cutOff>>
    BY <1>7 DEF CutDone
  <2>2. cutJob[j].status = "running" BY <2>1, <1>0 DEF CutterHolds
  <2>3. [cutJob[j] EXCEPT !.status = "done"].status = "done" BY <1>r DEF CutRows
  <2>4. \A s \in Stills, p \in Presets : ~Owes(j, s, p) BY <2>1, <2>2 DEF Owes
  <2> QED BY <1>3, <1>e, <1>n, <2>1, <2>3, <2>4
<1>8. ASSUME CutRaises(j) PROVE CutInv'
  <2>1. cutter[j].at = "next" /\ UNCHANGED <<crop, cutOff>> BY <1>8 DEF CutRaises
  <2>2. PICK outcome \in {"queued", "failed"} : CutEnds(j, outcome) BY <1>8 DEF CutRaises
  <2>3. /\ [cutJob[j] EXCEPT !.status = outcome].status = outcome
        /\ [cutJob[j] EXCEPT !.status = outcome].still = cutJob[j].still BY <1>r DEF CutRows
  <2>4. \A s \in Stills, p \in Presets : Owes(j, s, p) => cutJob[j].still = s BY DEF Owes
  <2> QED BY <1>3, <1>e, <1>n, <2>1, <2>2, <2>3, <2>4
<1>9. ASSUME Requeue(j) PROVE CutInv'
  <2>1. /\ cutJob[j].status = "failed" /\ cutJob' = [cutJob EXCEPT ![j] = [cutJob[j] EXCEPT !.status = "queued"]]
        /\ UNCHANGED <<cutter, crop, cutOff>> BY <1>9, <1>0 DEF Requeue, CuttingTyped
  <2>2. cutter[j].at = "idle" BY <2>1, <1>0, <1>r DEF CutterHolds, CutterRows
  <2>3. cutter' = [cutter EXCEPT ![j] = cutter[j]] BY <2>1, <1>0 DEF CuttingTyped
  <2>4. /\ [cutJob[j] EXCEPT !.status = "queued"] \in CutRows
        /\ [cutJob[j] EXCEPT !.status = "queued"].status = "queued"
        /\ [cutJob[j] EXCEPT !.status = "queued"].still = cutJob[j].still BY <1>r DEF CutRows
  <2>5. \A s \in Stills, p \in Presets : Owes(j, s, p) => cutJob[j].still = s BY DEF Owes
  <2> QED BY <1>3, <1>r, <2>1, <2>2, <2>3, <2>4, <2>5
<1> QED BY <1>4, <1>5, <1>6, <1>7, <1>8, <1>9

\* A kill: what ran is queued again, and a torn file was cut off.
LEMMA CuttingKilled ==
  ASSUME CutInv, CropsKill
  PROVE  CutInv'
<1>0. /\ AskingTyped /\ (\A s \in Stills : NotReady(s)) /\ (\A s \in Stills, p \in Presets : OwedFor(s, p))
      /\ CuttingTyped /\ (\A i \in CropJobs : CutterHolds(i)) /\ (\A f \in Pairs : TornBy(f)) BY DEF CutInv
<1>1. /\ cutOff' = cutOff \cup {f \in Pairs : crop[f].state = "torn"}
      /\ cutJob' = [j \in CropJobs |-> IF cutJob[j].status = "running"
                                       THEN [cutJob[j] EXCEPT !.status = "queued"] ELSE cutJob[j]]
      /\ cutter' = [j \in CropJobs |-> NoCutter]
      /\ faved' = [s \in Stills |-> IF faved[s] = "asked" THEN "yes" ELSE faved[s]]
      /\ filling' = {} /\ UNCHANGED <<active, still, unasked, crop>> BY DEF CropsKill
<1>2. AskingTyped' BY <1>0, <1>1 DEF AskingTyped
<1>3. ASSUME NEW j \in CropJobs
      PROVE  /\ cutJob'[j] \in CutRows /\ cutJob'[j].still = cutJob[j].still /\ cutter'[j] = NoCutter
             /\ cutJob'[j].status = IF cutJob[j].status = "running" THEN "queued" ELSE cutJob[j].status
  <2>1. cutJob[j] \in CutRows BY <1>0 DEF CuttingTyped
  <2> QED BY <1>1, <2>1 DEF CutRows
<1>4. cutJob' \in [CropJobs -> CutRows] BY <1>1, <1>3
<1>5. NoCutter \in CutterRows /\ NoCutter.at = "idle" BY DEF NoCutter, CutterRows
<1>6. CuttingTyped' BY <1>0, <1>1, <1>4, <1>5 DEF CuttingTyped
<1>7. ASSUME NEW j \in CropJobs PROVE CutterHolds(j)' BY <1>3, <1>5 DEF CutterHolds
<1>8. ASSUME NEW f \in Pairs PROVE TornBy(f)' BY <1>1 DEF TornBy
<1>9. ASSUME NEW s \in Stills PROVE NotReady(s)' BY <1>0, <1>1 DEF NotReady, FilesOf, AskingTyped
<1>10. ASSUME NEW s \in Stills, NEW p \in Presets PROVE OwedFor(s, p)'
  <2>1. \A j \in CropJobs : Owes(j, s, p) => Owes(j, s, p)' BY <1>3 DEF Owes
  <2>2. faved'[s] # "no" => faved[s] # "no" BY <1>1
  <2>3. OwedFor(s, p) BY <1>0
  <2> QED BY <2>1, <2>2, <2>3, <1>1 DEF OwedFor, Cut
<1> QED BY <1>2, <1>6, <1>7, <1>8, <1>9, <1>10 DEF CutInv

\* The archive of the portal.
LEMMA PackStep ==
  ASSUME CutInv, PackInv, NEW k \in Packers,
         \/ PackRead(k) \/ PackLock(k) \/ PackOpens(k) \/ PackRenames(k)
         \/ PackPrunes(k) \/ PackUnlocks(k) \/ PackSends(k)
  PROVE  PackInv'
<1> USE CropsAssumption
<1>0. /\ packer \in [Packers -> PackRows] /\ packLock \in Packers \cup {NoPacker}
      /\ packPart \in [Packs -> Packers \cup {NoPacker}] /\ pack \in [Packs -> {"none", "whole", "torn"}]
      /\ (\A q \in Packers : PackHolds(q)) /\ PackIsWhole /\ packer[k] \in PackRows BY DEF PackInv
\* The request moves on, and what it holds says what it may.
<1>1. ASSUME NEW row \in PackRows, packer' = [packer EXCEPT ![k] = row],
             packLock' \in Packers \cup {NoPacker}, packPart' \in [Packs -> Packers \cup {NoPacker}],
             pack' \in [Packs -> {"none", "whole", "torn"}], PackIsWhole',
             row.at \in {"copy", "rename", "prune", "unlock"} => packLock' = k,
             row.at = "rename" => packPart'[row.files] = k,
             \A q \in Packers \ {k} : PackHolds(q) /\ packLock = q =>
                 packLock' = q /\ packPart' = packPart
      PROVE  PackInv'
  <2>1. /\ packer' \in [Packers -> PackRows] /\ packer'[k] = row
        /\ \A q \in Packers \ {k} : packer'[q] = packer[q] BY <1>0, <1>1
  <2>2. ASSUME NEW q \in Packers PROVE PackHolds(q)'
    <3>1. CASE q = k BY <3>1, <1>1, <2>1 DEF PackHolds
    <3>2. CASE q # k BY <3>2, <1>0, <1>1, <2>1 DEF PackHolds
    <3> QED BY <3>1, <3>2
  <2> QED BY <1>1, <2>1, <2>2 DEF PackInv
<1>2. ASSUME PackRead(k) PROVE PackInv'
  <2> DEFINE row == [at |-> IF pack[PackFiles] # "none" THEN "send" ELSE "lock", files |-> PackFiles]
  <2>1. PackFiles \in Packs BY DEF PackFiles, Packs, Pairs, Wanted, CutInv, AskingTyped
  <2>2. row \in PackRows /\ row.at \in {"send", "lock"} BY <2>1 DEF PackRows
  <2>3. packer' = [packer EXCEPT ![k] = row] /\ UNCHANGED <<packLock, packPart, pack>> BY <1>2 DEF PackRead
  <2> HIDE DEF row
  <2> QED BY <1>0, <1>1, <2>2, <2>3 DEF PackIsWhole
<1>m. ASSUME NEW at \in {"idle", "lock", "copy", "rename", "prune", "unlock", "send"},
             packer' = [packer EXCEPT ![k].at = at]
      PROVE  \E row \in PackRows : /\ packer' = [packer EXCEPT ![k] = row]
                                   /\ row.at = at /\ row.files = packer[k].files
  <2>1. [packer[k] EXCEPT !.at = at] \in PackRows BY <1>0 DEF PackRows
  <2>2. packer' = [packer EXCEPT ![k] = [packer[k] EXCEPT !.at = at]] BY <1>0, <1>m
  <2> QED BY <1>0, <2>1, <2>2 DEF PackRows
<1>3. ASSUME PackLock(k) PROVE PackInv'
  <2> DEFINE at == IF pack[packer[k].files] # "none" THEN "unlock" ELSE "copy"
  <2>1. packer' = [packer EXCEPT ![k].at = at] /\ packLock = NoPacker /\ packLock' = k /\ UNCHANGED <<packPart, pack>>
    BY <1>3 DEF PackLock, FreeFor
  <2>2. at \in {"unlock", "copy"} OBVIOUS
  <2> HIDE DEF at
  <2>3. PICK row \in PackRows : packer' = [packer EXCEPT ![k] = row] /\ row.at = at BY <1>m, <2>1, <2>2
  <2> QED BY <1>0, <1>1, <2>1, <2>2, <2>3 DEF PackIsWhole
<1>4. ASSUME PackOpens(k) PROVE PackInv'
  <2>1. /\ packer[k].at = "copy" /\ packPart' = [packPart EXCEPT ![packer[k].files] = k]
        /\ packer' = [packer EXCEPT ![k].at = "rename"] /\ UNCHANGED <<packLock, pack>> BY <1>4 DEF PackOpens
  <2>2. PICK row \in PackRows : /\ packer' = [packer EXCEPT ![k] = row]
                                /\ row.at = "rename" /\ row.files = packer[k].files BY <1>m, <2>1
  <2>3. packLock = k BY <1>0, <2>1 DEF PackHolds
  <2>4. packer[k].files \in Packs BY <1>0 DEF PackRows
  <2>5. packPart' \in [Packs -> Packers \cup {NoPacker}] /\ packPart'[packer[k].files] = k BY <1>0, <2>1, <2>4
  <2> QED BY <1>0, <1>1, <2>1, <2>2, <2>3, <2>5 DEF PackIsWhole
<1>5. ASSUME PackRenames(k) PROVE PackInv'
  <2> DEFINE n == packer[k].files
  <2>1. /\ packer[k].at = "rename" /\ pack' = [pack EXCEPT ![n] = IF packPart[n] = k THEN "whole" ELSE "torn"]
        /\ packPart' = [packPart EXCEPT ![n] = NoPacker]
        /\ packer' = [packer EXCEPT ![k].at = "prune"] /\ packLock' = packLock BY <1>5 DEF PackRenames
  <2>2. PICK row \in PackRows : /\ packer' = [packer EXCEPT ![k] = row] /\ row.at = "prune" BY <1>m, <2>1
  <2>3. packLock = k /\ packPart[n] = k BY <1>0, <2>1 DEF PackHolds
  <2>4. pack' = [pack EXCEPT ![n] = "whole"] BY <2>1, <2>3
  <2> HIDE DEF n
  <2>5. pack' \in [Packs -> {"none", "whole", "torn"}] /\ PackIsWhole' BY <1>0, <2>4 DEF PackIsWhole
  <2>6. packPart' \in [Packs -> Packers \cup {NoPacker}] BY <1>0, <2>1
  <2> QED BY <1>0, <1>1, <2>1, <2>2, <2>3, <2>5, <2>6
<1>6. ASSUME PackPrunes(k) PROVE PackInv'
  <2>1. /\ packer[k].at = "prune" /\ pack' = [n \in Packs |-> IF n = packer[k].files THEN pack[n] ELSE "none"]
        /\ packer' = [packer EXCEPT ![k].at = "unlock"] /\ UNCHANGED <<packLock, packPart>> BY <1>6 DEF PackPrunes
  <2>2. PICK row \in PackRows : /\ packer' = [packer EXCEPT ![k] = row] /\ row.at = "unlock" BY <1>m, <2>1
  <2>3. packLock = k BY <1>0, <2>1 DEF PackHolds
  <2>5. pack' \in [Packs -> {"none", "whole", "torn"}] /\ PackIsWhole' BY <1>0, <2>1 DEF PackIsWhole
  <2> QED BY <1>0, <1>1, <2>1, <2>2, <2>3, <2>5
<1>7. ASSUME PackUnlocks(k) PROVE PackInv'
  <2>1. /\ packer[k].at = "unlock" /\ packLock' = NoPacker
        /\ packer' = [packer EXCEPT ![k].at = "send"] /\ UNCHANGED <<packPart, pack>> BY <1>7 DEF PackUnlocks
  <2>2. PICK row \in PackRows : /\ packer' = [packer EXCEPT ![k] = row] /\ row.at = "send" BY <1>m, <2>1
  <2>3. packLock = k BY <1>0, <2>1 DEF PackHolds
  <2> QED BY <1>0, <1>1, <2>1, <2>2, <2>3 DEF PackIsWhole
<1>8. ASSUME PackSends(k) PROVE PackInv'
  <2>1. packer' = [packer EXCEPT ![k] = NoPack] /\ UNCHANGED <<packLock, packPart, pack>> BY <1>8 DEF PackSends
  <2>2. NoPack \in PackRows /\ NoPack.at = "idle" BY DEF NoPack, PackRows, Packs
  <2> QED BY <1>0, <1>1, <2>1, <2>2 DEF PackIsWhole
<1> QED BY <1>2, <1>3, <1>4, <1>5, <1>6, <1>7, <1>8

\* Every step of the crops.
LEMMA CropsStep ==
  ASSUME CropsInv, [CropsNext]_cropVars
  PROVE  CropsInv'
<1>0. CutInv /\ PackInv BY DEF CropsInv
<1>p. ASSUME UNCHANGED packing PROVE PackInv' BY <1>0, <1>p DEF PackInv, packing, PackHolds, PackIsWhole
<1>c. ASSUME UNCHANGED <<cutting, asking>> PROVE CutInv'
  <2>1. UNCHANGED cutting /\ UNCHANGED asking BY <1>c
  <2>2. AskingTyped' /\ \A s \in Stills : NotReady(s)'
    BY <1>0, <2>1 DEF CutInv, AskingTyped, NotReady, asking, FilesOf
  <2>3. ASSUME NEW s \in Stills, NEW p \in Presets PROVE OwedFor(s, p)'
    BY <1>0, <2>1, CuttingRests DEF CutInv, OwedFor, asking, Pairs
  <2> QED BY <1>0, <2>1, <2>2, <2>3, CuttingRests DEF CutInv
<1>1. ASSUME NEW s \in Stills,
             Favourite(s) \/ FavouriteAsks(s) \/ Unfavourite(s) \/ BackfillAsks(s) \/ BecomesReady(s)
      PROVE  CropsInv'
  <2>1. UNCHANGED packing BY <1>1 DEF Favourite, FavouriteAsks, Unfavourite, BackfillAsks, BecomesReady
  <2>2. CutInv' BY <1>0, <1>1, AskingStep
  <2> QED BY <1>p, <2>1, <2>2 DEF CropsInv
<1>2. ASSUME Backfill \/ \E p \in Presets : ToggleActive(p) PROVE CropsInv'
  <2>1. UNCHANGED packing BY <1>2 DEF Backfill, ToggleActive
  <2>2. CutInv' BY <1>0, <1>2, AskingStep
  <2> QED BY <1>p, <2>1, <2>2 DEF CropsInv
<1>3. ASSUME NEW j \in CropJobs,
             CutBegin(j) \/ SaveOpens(j) \/ SaveCloses(j) \/ CutDone(j) \/ CutRaises(j) \/ Requeue(j)
      PROVE  CropsInv'
  <2>1. UNCHANGED packing BY <1>3 DEF CutBegin, SaveOpens, SaveCloses, CutDone, CutRaises, Requeue
  <2>2. CutInv' BY <1>0, <1>3, CuttingStep
  <2> QED BY <1>p, <2>1, <2>2 DEF CropsInv
<1>4. ASSUME NEW k \in Packers,
             \/ PackRead(k) \/ PackLock(k) \/ PackOpens(k) \/ PackRenames(k)
             \/ PackPrunes(k) \/ PackUnlocks(k) \/ PackSends(k)
      PROVE  CropsInv'
  <2>1. UNCHANGED <<cutting, asking>>
    BY <1>4 DEF PackRead, PackLock, PackOpens, PackRenames, PackPrunes, PackUnlocks, PackSends
  <2>2. PackInv' BY <1>0, <1>4, PackStep
  <2> QED BY <1>c, <2>1, <2>2 DEF CropsInv
<1>5. ASSUME CropsKill PROVE CropsInv'
  <2>1. CutInv' BY <1>0, <1>5, CuttingKilled
  <2>2. packLock' = NoPacker /\ packer' = [k \in Packers |-> NoPack] /\ UNCHANGED <<packPart, pack>>
    BY <1>5 DEF CropsKill
  <2>3. NoPack \in PackRows /\ NoPack.at = "idle" BY DEF NoPack, PackRows, Packs
  <2>4. PackInv' BY <1>0, <2>2, <2>3 DEF PackInv, PackHolds, PackIsWhole
  <2> QED BY <2>1, <2>4 DEF CropsInv
<1>6. ASSUME UNCHANGED cropVars PROVE CropsInv'
  <2>1. UNCHANGED <<cutting, asking>> /\ UNCHANGED packing BY <1>6 DEF cropVars, cutting, asking, packing
  <2> QED BY <1>c, <1>p, <2>1 DEF CropsInv
<1> QED BY <1>1, <1>2, <1>3, <1>4, <1>5, <1>6 DEF CropsNext

\* Nothing is asked for at the start.
LEMMA CropsInitially == CropsInit => CropsInv
<1> SUFFICES ASSUME CropsInit PROVE CropsInv OBVIOUS
<1> USE DEF CropsInit
<1>1. AskingTyped BY DEF AskingTyped
<1>2. CuttingTyped BY DEF CuttingTyped, CutRows, CutterRows, CropRows, NoCutter, NoCrop
<1>3. \A j \in CropJobs : CutterHolds(j) BY DEF CutterHolds, NoCutter
<1>4. \A f \in Pairs : TornBy(f) BY DEF TornBy, NoCrop
<1>5. \A s \in Stills : NotReady(s) BY DEF NotReady
<1>6. \A s \in Stills, p \in Presets : OwedFor(s, p) BY DEF OwedFor
<1>7. PackInv BY DEF PackInv, PackRows, PackHolds, PackIsWhole, NoPack, Packs
<1> QED BY <1>1, <1>2, <1>3, <1>4, <1>5, <1>6, <1>7 DEF CropsInv, CutInv

\* What the invariant gives.
LEMMA CropsMeans ==
  ASSUME CropsInv
  PROVE  CropsTypeOK /\ TornCropHasACause /\ WaitingIsNotInVain /\ PackIsWhole
<1>0. CutInv /\ PackInv BY DEF CropsInv
<1>1. CropsTypeOK
  BY <1>0 DEF CutInv, PackInv, AskingTyped, CuttingTyped, CropsTypeOK, CutRows, CutterRows, CropRows, PackRows
<1>2. TornCropHasACause BY <1>0 DEF CutInv, TornBy, TornCropHasACause
<1>3. WaitingIsNotInVain
  <2>1. SUFFICES ASSUME NEW s \in Wanted, NEW p \in active, LinkPending(<<s, p>>),
                        ~LiveJob(s), <<s, p>> \notin unasked
                 PROVE  FALSE BY DEF WaitingIsNotInVain
  <2>2. ~Cut(<<s, p>>) /\ ~Stalled(s) BY <2>1 DEF LinkPending, LinkReady, LinkStalled
  <2>3. s \in Stills /\ p \in Presets /\ faved[s] # "no" /\ still[s] = "ready" BY <1>0 DEF Wanted, CutInv, AskingTyped
  <2>4. PICK j \in CropJobs : Owes(j, s, p) BY <1>0, <2>1, <2>2, <2>3 DEF CutInv, OwedFor
  <2>5. cutJob[j].still = s /\ cutJob[j].status \in {"queued", "failed", "running"} BY <2>4 DEF Owes
  <2> QED BY <2>1, <2>2, <2>5 DEF Stalled, LiveJob
<1> QED BY <1>0, <1>1, <1>2, <1>3 DEF PackInv

THEOREM CropsInductive == CropsSpec => []CropsInv
BY CropsInitially, CropsStep, PTL DEF CropsSpec
(* Bundles: what is built, by whom, and for whom.                          *)

InodeRows == [state : {"none", "torn", "whole"}, by : Builders \cup {NoBuilder}, holds : SUBSET Frames]
MakerPlaces == {"idle", "send", "open", "look", "enqueue", "wait", "write", "rename", "prune"}
MakerRows == [at : MakerPlaces, name : Names \cup {NoName}, puts : SUBSET Frames]
BundleRows == [status : {"absent", "queued", "running", "done", "failed"}, name : Names \cup {NoName}]

BundlesTyped ==
  /\ frame \in [Frames -> {"there", "fileless", "gone"}] /\ list \in [Lists -> SUBSET Frames]
  /\ bundle \in [Names -> InodeRows] /\ bundlePart \in [Names -> InodeRows]
  /\ maker \in [Builders -> MakerRows] /\ bundleJob \in [BundleJobs -> BundleRows]

\* A builder has a name; a job's is the one of its running row.
MakerOwns(k) ==
  /\ maker[k].at # "idle" => maker[k].name \in Names
  /\ k \in BundleJobs =>
       /\ maker[k].at \in {"idle", "open", "write", "rename", "prune"}
       /\ maker[k].at = "idle" <=> bundleJob[k].status # "running"
       /\ maker[k].at # "idle" => bundleJob[k].name = maker[k].name
JobNamed(j) == bundleJob[j].status # "absent" => bundleJob[j].name \in Names

OwnInv == BundlesTyped /\ (\A k \in Builders : MakerOwns(k)) /\ (\A j \in BundleJobs : JobNamed(j))

\* What is put in under a name: its photos, but for those deleted since.
Fits(n, S) == S \subseteq n[2] /\ \A a \in n[2] \ S : frame[a] = "gone"
AllThere(l) == \A a \in list[l] : frame[a] # "gone"
FitInv ==
  /\ \A l \in Lists : AllThere(l)
  /\ \A k \in Builders : maker[k].at # "idle" => Fits(maker[k].name, maker[k].puts)
  /\ \A n \in Names : /\ bundle[n].state # "none" => Fits(n, bundle[n].holds)
                      /\ bundlePart[n].state # "none" => Fits(n, bundlePart[n].holds)

\* A name that no two builders had begun at once: one has its .part, and closes it.
AloneAt(n) ==
  n \notin twinned =>
    /\ \A k, m \in Writers(n) : k = m
    /\ \A k \in Writers(n) :
         /\ maker[k].at = "write" => bundlePart[n].by = k
         /\ maker[k].at = "rename" => bundlePart[n].state # "torn"
    /\ bundle[n].state # "torn"
AloneInv == \A n \in Names : AloneAt(n)

\* A name in use is some list's still, or its list has changed.
Known(n) == Current(n) \/ n \in overtaken
Unstirred(k) == maker[k].at # "idle" /\ k \notin stirred => Current(maker[k].name)
KnownInv ==
  /\ \A k \in Builders : Unstirred(k) /\ (maker[k].at # "idle" => Known(maker[k].name))
  /\ \A j \in BundleJobs : bundleJob[j].status \in {"queued", "running"} => Known(bundleJob[j].name)
  /\ NewestIsKept

\* Somebody will answer for a name: a job not yet past its archive counts.
Working(j, n) ==
  bundleJob[j].name = n /\ bundleJob[j].status \in {"queued", "running"} /\ maker[j].at # "prune"
AnsweredOrDue(n) ==
  Exists(n) \/ HasFailed(n) \/ n \in overtaken \/ \E j \in BundleJobs : Working(j, n)
AnswerInv ==
  \A n \in Names :
    LiveFor(n) \/ (\E r \in Inliners : maker[r].at = "wait" /\ maker[r].name = n) => AnsweredOrDue(n)

BundlesInv == OwnInv /\ FitInv /\ AloneInv /\ KnownInv /\ AnswerInv

\* One builder moves.
Becomes(k, row) == maker' = [maker EXCEPT ![k] = row]

LEMMA BuilderGoes ==
  ASSUME BundlesTyped, NEW k \in Builders, NEW p \in MakerPlaces, Goto(k, p)
  PROVE  \E row \in MakerRows : /\ Becomes(k, row) /\ row.at = p
                                /\ row.name = maker[k].name /\ row.puts = maker[k].puts
<1>1. maker[k] \in MakerRows BY DEF BundlesTyped
<1>2. [maker[k] EXCEPT !.at = p] \in MakerRows BY <1>1 DEF MakerRows
<1>3. maker' = [maker EXCEPT ![k] = [maker[k] EXCEPT !.at = p]] BY DEF BundlesTyped, Goto
<1> QED BY <1>1, <1>2, <1>3 DEF MakerRows, Becomes

LEMMA BuilderBecomes ==
  ASSUME BundlesTyped, NEW k \in Builders, NEW row \in MakerRows, Becomes(k, row)
  PROVE  /\ maker' \in [Builders -> MakerRows] /\ maker'[k] = row
         /\ \A m \in Builders \ {k} : maker'[m] = maker[m]
BY DEF BundlesTyped, Becomes

LEMMA IdleMaker == NoMaker \in MakerRows /\ NoMaker.at = "idle"
BY DEF NoMaker, MakerRows, MakerPlaces

LEMMA ListNamed ==
  ASSUME BundlesTyped, NEW l \in Lists, list[l] # {}
  PROVE  NameOf(l) \in Names
<1>1. FamilyOf[l] \in Families BY DEF Families
<1>2. list[l] \in SUBSET Frames BY DEF BundlesTyped
<1>3. list[l] \in (SUBSET Frames) \ {{}} BY <1>2
<1> QED BY <1>1, <1>3 DEF NameOf, Names

\* One row of the jobs table changes its status.
LEMMA RowTurns ==
  ASSUME BundlesTyped, NEW j \in BundleJobs,
         NEW s \in {"absent", "queued", "running", "done", "failed"},
         bundleJob' = [bundleJob EXCEPT ![j].status = s]
  PROVE  /\ bundleJob' \in [BundleJobs -> BundleRows]
         /\ bundleJob'[j].status = s /\ bundleJob'[j].name = bundleJob[j].name
         /\ \A i \in BundleJobs \ {j} : bundleJob'[i] = bundleJob[i]
<1>1. bundleJob[j] \in BundleRows BY DEF BundlesTyped
<1>2. [bundleJob[j] EXCEPT !.status = s] \in BundleRows BY <1>1 DEF BundleRows
<1>3. bundleJob' = [bundleJob EXCEPT ![j] = [bundleJob[j] EXCEPT !.status = s]] BY DEF BundlesTyped
<1> QED BY <1>1, <1>2, <1>3 DEF BundlesTyped, BundleRows

\* An error: the builder is idle, its row waits for another attempt or has failed.
LEMMA Raised ==
  ASSUME OwnInv, NEW k \in Builders, BuildRaisesAt(k)
  PROVE  /\ Becomes(k, NoMaker)
         /\ bundleJob' \in [BundleJobs -> BundleRows]
         /\ \A j \in BundleJobs : bundleJob'[j].name = bundleJob[j].name
         /\ \A j \in BundleJobs \ {k} : bundleJob'[j] = bundleJob[j]
         /\ k \in BundleJobs => bundleJob'[k].status \in {"queued", "failed"}
<1>1. Becomes(k, NoMaker) BY DEF BuildRaisesAt, Becomes
<1>2. CASE k \in BundleJobs
  <2>1. PICK s \in {"queued", "failed"} : bundleJob' = [bundleJob EXCEPT ![k].status = s] BY <1>2 DEF BuildRaisesAt
  <2> QED BY <1>1, <1>2, <2>1, RowTurns DEF OwnInv
<1>3. CASE k \notin BundleJobs BY <1>1, <1>3 DEF BuildRaisesAt, OwnInv, BundlesTyped
<1> QED BY <1>2, <1>3

\* The steps that leave the builders and their rows alone.
ListStep ==
  \/ \E l \in Lists, S \in SUBSET Frames : ChangeList(l, S)
  \/ \E a \in Frames : DeleteFrameFiles(a) \/ DeleteFrameRow(a)

\* What the steps of the lists do to a name.
LEMMA ListStepIs ==
  ASSUME OwnInv, FitInv, ListStep
  PROVE  /\ UNCHANGED <<disk, maker, bundleJob, twinned, wasted>>
         /\ frame' \in [Frames -> {"there", "fileless", "gone"}] /\ list' \in [Lists -> SUBSET Frames]
         /\ \A a \in Frames : frame[a] = "gone" => frame'[a] = "gone"
         /\ \A l \in Lists : AllThere(l)'
         /\ \E L \in SUBSET Lists : /\ \A l \in Lists \ L : list'[l] = list[l]
                                    /\ \/ Stir(L)
                                       \/ L = {} /\ UNCHANGED <<overtaken, stirred>>
<1>0. /\ frame \in [Frames -> {"there", "fileless", "gone"}] /\ list \in [Lists -> SUBSET Frames]
      /\ \A l \in Lists : AllThere(l) BY DEF OwnInv, BundlesTyped, FitInv
<1>1. ASSUME NEW l \in Lists, NEW S \in SUBSET Frames, ChangeList(l, S)
      PROVE  /\ UNCHANGED <<frame, disk, maker, bundleJob, twinned, wasted>>
             /\ list' \in [Lists -> SUBSET Frames]
             /\ \A k \in Lists : AllThere(k)'
             /\ (\A k \in Lists \ {l} : list'[k] = list[k]) /\ Stir({l}) BY <1>0, <1>1 DEF ChangeList, AllThere
<1>2. ASSUME NEW a \in Frames, DeleteFrameFiles(a)
      PROVE  /\ UNCHANGED <<list, disk, maker, bundleJob, past>>
             /\ frame' \in [Frames -> {"there", "fileless", "gone"}]
             /\ \A b \in Frames : frame[b] = "gone" <=> frame'[b] = "gone" BY <1>0, <1>2 DEF DeleteFrameFiles
<1>3. ASSUME NEW a \in Frames, DeleteFrameRow(a)
      PROVE  /\ UNCHANGED <<disk, maker, bundleJob, twinned, wasted>>
             /\ frame' \in [Frames -> {"there", "fileless", "gone"}]
             /\ \A b \in Frames : frame'[b] = "gone" <=> b = a \/ frame[b] = "gone"
             /\ list' = [l \in Lists |-> list[l] \ {a}]
             /\ Stir({l \in Lists : a \in list[l]}) BY <1>0, <1>3 DEF DeleteFrameRow
<1>4. CASE \E l \in Lists, S \in SUBSET Frames : ChangeList(l, S)
  <2>1. PICK l \in Lists, S \in SUBSET Frames : ChangeList(l, S) BY <1>4
  <2>2. /\ UNCHANGED <<frame, disk, maker, bundleJob, twinned, wasted>>
        /\ list' \in [Lists -> SUBSET Frames] /\ (\A k \in Lists : AllThere(k)')
        /\ (\A k \in Lists \ {l} : list'[k] = list[k]) /\ Stir({l}) BY <1>1, <2>1
  <2>3. \E L \in SUBSET Lists : (\A k \in Lists \ L : list'[k] = list[k]) /\ Stir(L)
    <3>1. {l} \in SUBSET Lists OBVIOUS
    <3> QED BY <2>2, <3>1
  <2> QED BY <1>0, <2>2, <2>3
<1>5. CASE \E a \in Frames : DeleteFrameFiles(a)
  <2>1. PICK a \in Frames : DeleteFrameFiles(a) BY <1>5
  <2>2. \A l \in Lists : AllThere(l)' BY <1>0, <1>2, <2>1 DEF AllThere
  <2>3. {} \in SUBSET Lists OBVIOUS
  <2> QED BY <1>0, <1>2, <2>1, <2>2, <2>3 DEF past
<1>6. CASE \E a \in Frames : DeleteFrameRow(a)
  <2>1. PICK a \in Frames : DeleteFrameRow(a) BY <1>6
  <2>2. /\ UNCHANGED <<disk, maker, bundleJob, twinned, wasted>>
        /\ frame' \in [Frames -> {"there", "fileless", "gone"}]
        /\ \A b \in Frames : frame'[b] = "gone" <=> b = a \/ frame[b] = "gone"
        /\ list' = [l \in Lists |-> list[l] \ {a}] BY <1>3, <2>1
  <2>3. ASSUME NEW l \in Lists PROVE AllThere(l)'
    <3>1. SUFFICES ASSUME NEW b \in list'[l] PROVE frame'[b] # "gone" BY DEF AllThere
    <3>2. b \in list[l] /\ b # a /\ list[l] \subseteq Frames BY <1>0, <2>2, <3>1
    <3>3. frame[b] # "gone" BY <1>0, <3>2 DEF AllThere
    <3> QED BY <2>2, <3>2, <3>3
  <2> DEFINE L == {l \in Lists : a \in list[l]}
  <2>4. Stir(L) BY <1>3, <2>1
  <2>5. L \in SUBSET Lists OBVIOUS
  <2>6. ASSUME NEW l \in Lists \ L PROVE list'[l] = list[l] BY <1>0, <2>2
  <2>7. list' \in [Lists -> SUBSET Frames] BY <1>0, <2>2
  <2> HIDE DEF L
  <2>8. \E M \in SUBSET Lists : (\A l \in Lists \ M : list'[l] = list[l]) /\ Stir(M) BY <2>4, <2>5, <2>6
  <2> QED BY <2>2, <2>3, <2>7, <2>8
<1> QED BY <1>4, <1>5, <1>6 DEF ListStep

\* Types, names and rows.
LEMMA OwnStep ==
  ASSUME BundlesInv, BundlesNext
  PROVE  OwnInv'
<1> USE BundlesAssumption
<1>0. OwnInv /\ FitInv /\ BundlesTyped /\ (\A k \in Builders : MakerOwns(k)) /\ (\A j \in BundleJobs : JobNamed(j))
  BY DEF BundlesInv, OwnInv
\* A request moves.
<1>r. ASSUME NEW r \in Inliners, NEW row \in MakerRows, Becomes(r, row),
             row.at # "idle" => row.name \in Names,
             frame' = frame, list' = list, bundle' \in [Names -> InodeRows],
             bundlePart' \in [Names -> InodeRows], bundleJob' = bundleJob
      PROVE  OwnInv'
  <2>1. r \in Builders /\ r \notin BundleJobs BY DEF Builders
  <2>2. /\ maker' \in [Builders -> MakerRows] /\ maker'[r] = row
        /\ \A m \in Builders \ {r} : maker'[m] = maker[m] BY <1>0, <1>r, <2>1, BuilderBecomes
  <2>3. BundlesTyped' BY <1>0, <1>r, <2>2 DEF BundlesTyped
  <2>4. \A k \in Builders : MakerOwns(k)' BY <1>0, <1>r, <2>1, <2>2 DEF MakerOwns
  <2>5. \A j \in BundleJobs : JobNamed(j)' BY <1>0, <1>r DEF JobNamed
  <2> QED BY <2>3, <2>4, <2>5 DEF OwnInv
\* A job's row and its worker move together.
<1>j. ASSUME NEW j \in BundleJobs, NEW row \in MakerRows, Becomes(j, row),
             bundleJob' \in [BundleJobs -> BundleRows],
             \A i \in BundleJobs \ {j} : bundleJob'[i] = bundleJob[i],
             bundleJob'[j].name = bundleJob[j].name, bundleJob[j].name \in Names,
             row.at \in {"idle", "open", "write", "rename", "prune"},
             row.at = "idle" <=> bundleJob'[j].status # "running",
             row.at # "idle" => row.name = bundleJob[j].name,
             frame' = frame, list' = list, bundle' \in [Names -> InodeRows],
             bundlePart' \in [Names -> InodeRows]
      PROVE  OwnInv'
  <2>1. j \in Builders BY DEF Builders
  <2>2. /\ maker' \in [Builders -> MakerRows] /\ maker'[j] = row
        /\ \A m \in Builders \ {j} : maker'[m] = maker[m] BY <1>0, <1>j, <2>1, BuilderBecomes
  <2>3. BundlesTyped' BY <1>0, <1>j, <2>2 DEF BundlesTyped
  <2>4. ASSUME NEW k \in Builders PROVE MakerOwns(k)'
    <3>1. CASE k = j BY <3>1, <1>j, <2>2 DEF MakerOwns
    <3>2. CASE k # j BY <3>2, <1>0, <1>j, <2>2 DEF MakerOwns
    <3> QED BY <3>1, <3>2
  <2>5. \A i \in BundleJobs : JobNamed(i)' BY <1>0, <1>j DEF JobNamed
  <2> QED BY <2>3, <2>4, <2>5 DEF OwnInv
<1>b. bundle \in [Names -> InodeRows] /\ bundlePart \in [Names -> InodeRows] BY <1>0 DEF BundlesTyped
\* A builder, be it a request or a job, moves on to another place of its build.
<1>k. ASSUME NEW k \in Builders, NEW p \in {"write", "rename", "prune"}, Goto(k, p),
             maker[k].at # "idle", bundleJob' = bundleJob,
             frame' = frame, list' = list, bundle' \in [Names -> InodeRows],
             bundlePart' \in [Names -> InodeRows]
      PROVE  OwnInv'
  <2>1. PICK row \in MakerRows : Becomes(k, row) /\ row.at = p /\ row.name = maker[k].name
    BY <1>0, <1>k, BuilderGoes DEF MakerPlaces
  <2>2. CASE k \in Inliners BY <2>2, <1>r, <1>k, <2>1, <1>0 DEF MakerOwns
  <2>3. CASE k \in BundleJobs
    <3>1. bundleJob[k].status = "running" /\ bundleJob[k].name = maker[k].name /\ maker[k].name \in Names
      BY <1>0, <1>k, <2>3 DEF MakerOwns
    <3> QED BY <3>1, <2>3, <1>j, <1>k, <2>1, <1>0 DEF BundlesTyped
  <2> QED BY <2>2, <2>3 DEF Builders
\* A builder that fails.
<1>x. ASSUME NEW k \in Builders, BuildRaisesAt(k), maker[k].at # "idle" PROVE OwnInv'
  <2>0. UNCHANGED <<frame, list, disk>> BY <1>x DEF BuildRaisesAt
  <2>1. CASE k \in Inliners
    <3>1. bundleJob' = bundleJob BY <2>1, <1>x DEF BuildRaisesAt
    <3> QED BY <3>1, <2>0, <2>1, <1>x, <1>0, <1>r, <1>b, Raised, IdleMaker DEF disk
  <2>2. CASE k \in BundleJobs
    <3>1. bundleJob[k].name \in Names BY <1>0, <1>x, <2>2 DEF MakerOwns
    <3>2. bundleJob'[k].status # "running" BY <1>0, <1>x, <2>2, Raised
    <3> QED BY <3>1, <3>2, <2>0, <2>2, <1>x, <1>0, <1>j, <1>b, Raised, IdleMaker DEF disk
  <2> QED BY <2>1, <2>2 DEF Builders
<1>1. CASE ListStep
  <2>1. BundlesTyped' BY <1>0, <1>1, ListStepIs DEF BundlesTyped, disk
  <2>2. UNCHANGED <<maker, bundleJob>> BY <1>0, <1>1, ListStepIs
  <2> QED BY <1>0, <2>1, <2>2 DEF OwnInv, MakerOwns, JobNamed
<1>2. ASSUME NEW r \in Inliners, NEW l \in Lists, Ask(r, l) PROVE OwnInv'
  <2> DEFINE n == NameOf(l)
             row == [at |-> IF Exists(n) THEN "send" ELSE IF Small(n) THEN "open" ELSE "look",
                     name |-> n, puts |-> n[2]]
  <2>1. n \in Names /\ n[2] \subseteq Frames BY <1>0, <1>2, ListNamed DEF Ask, Names
  <2>2. Becomes(r, row) /\ UNCHANGED <<frame, list, disk, bundleJob>> BY <1>2 DEF Ask, Becomes
  <2> HIDE DEF n
  <2>3. row \in MakerRows /\ row.name \in Names BY <2>1 DEF MakerRows, MakerPlaces
  <2> QED BY <1>r, <1>b, <2>2, <2>3 DEF disk
<1>3. ASSUME NEW r \in Inliners, LookForJob(r) PROVE OwnInv'
  <2>1. /\ maker[r].at = "look" /\ Goto(r, IF LiveFor(maker[r].name) THEN "wait" ELSE "enqueue")
        /\ UNCHANGED <<frame, list, disk, bundleJob>> BY <1>3 DEF LookForJob
  <2>2. r \in Builders /\ maker[r].name \in Names BY <1>0, <2>1 DEF MakerOwns, Builders
  <2>3. PICK row \in MakerRows : Becomes(r, row) /\ row.name = maker[r].name
    BY <1>0, <2>1, <2>2, BuilderGoes DEF MakerPlaces
  <2> QED BY <1>r, <1>b, <2>1, <2>2, <2>3 DEF disk
<1>4. ASSUME NEW r \in Inliners, EnqueueBundle(r) PROVE OwnInv'
  <2>1. maker[r].at = "enqueue" /\ Goto(r, "wait") /\ UNCHANGED <<frame, list, disk>> BY <1>4 DEF EnqueueBundle
  <2>2. PICK j \in BundleJobs :
          /\ bundleJob[j].status \in {"absent", "done"}
          /\ bundleJob' = [bundleJob EXCEPT ![j] = [status |-> "queued", name |-> maker[r].name]]
    BY <1>4 DEF EnqueueBundle
  <2>3. r \in Builders /\ maker[r].name \in Names /\ r # j BY <1>0, <2>1 DEF MakerOwns, Builders
  <2>4. PICK row \in MakerRows : Becomes(r, row) /\ row.at = "wait" /\ row.name = maker[r].name
    BY <1>0, <2>1, <2>3, BuilderGoes DEF MakerPlaces
  <2>5. /\ maker' \in [Builders -> MakerRows] /\ maker'[r] = row
        /\ \A m \in Builders \ {r} : maker'[m] = maker[m] BY <1>0, <2>3, <2>4, BuilderBecomes
  <2>6. /\ bundleJob' \in [BundleJobs -> BundleRows]
        /\ bundleJob'[j] = [status |-> "queued", name |-> maker[r].name]
        /\ \A i \in BundleJobs \ {j} : bundleJob'[i] = bundleJob[i] BY <1>0, <2>2, <2>3 DEF BundlesTyped, BundleRows
  <2>7. j \in Builders /\ maker[j].at = "idle" BY <1>0, <2>2 DEF MakerOwns, Builders
  <2>8. BundlesTyped' BY <1>0, <2>1, <2>5, <2>6 DEF BundlesTyped, disk
  <2>9. ASSUME NEW k \in Builders PROVE MakerOwns(k)'
    <3>1. CASE k = r BY <3>1, <2>3, <2>4, <2>5 DEF MakerOwns
    <3>2. CASE k = j BY <3>2, <2>3, <2>5, <2>6, <2>7 DEF MakerOwns
    <3>3. CASE k # r /\ k # j BY <3>3, <1>0, <2>5, <2>6 DEF MakerOwns
    <3> QED BY <3>1, <3>2, <3>3
  <2>10. \A i \in BundleJobs : JobNamed(i)' BY <1>0, <2>3, <2>6 DEF JobNamed
  <2> QED BY <2>8, <2>9, <2>10 DEF OwnInv
<1>5. ASSUME NEW r \in Inliners, PollBundle(r) \/ Leave(r) PROVE OwnInv'
  <2>1. Becomes(r, NoMaker) /\ UNCHANGED <<frame, list, disk, bundleJob>> BY <1>5 DEF PollBundle, Leave, Becomes
  <2> QED BY <1>r, <1>b, <2>1, IdleMaker DEF disk
<1>6. ASSUME NEW j \in BundleJobs, BundleJobBegins(j) PROVE OwnInv'
  <2> DEFINE n == bundleJob[j].name
  <2>1. bundleJob[j].status = "queued" /\ UNCHANGED <<frame, list, disk>> BY <1>6 DEF BundleJobBegins
  <2>2. n \in Names BY <1>0, <2>1 DEF JobNamed
  <2>3. CASE Exists(n) \/ ~Current(n)
    <3>1. bundleJob' = [bundleJob EXCEPT ![j].status = "done"] /\ maker' = maker BY <1>6, <2>3 DEF BundleJobBegins
    <3>2. j \in Builders /\ maker[j].at = "idle" BY <1>0, <2>1 DEF MakerOwns, Builders
    <3>3. Becomes(j, maker[j]) /\ maker[j] \in MakerRows BY <1>0, <3>1, <3>2 DEF Becomes, BundlesTyped
    <3> QED BY <1>0, <1>j, <1>b, <2>1, <2>2, <3>1, <3>2, <3>3, RowTurns DEF disk
  <2>4. CASE ~(Exists(n) \/ ~Current(n))
    <3> DEFINE row == [at |-> "open", name |-> n, puts |-> Rows(n)]
    <3>1. bundleJob' = [bundleJob EXCEPT ![j].status = "running"] /\ Becomes(j, row)
      BY <1>6, <2>4 DEF BundleJobBegins, Becomes
    <3>2. Rows(n) \subseteq Frames BY <2>2 DEF Rows, Names
    <3>3. row \in MakerRows /\ row.at = "open" /\ row.name = n
      <4> HIDE DEF n
      <4> QED BY <2>2, <3>2 DEF MakerRows, MakerPlaces
    <3> HIDE DEF row
    <3> QED BY <1>0, <1>j, <1>b, <2>1, <2>2, <3>1, <3>3, RowTurns DEF disk
  <2> QED BY <2>3, <2>4
<1>7. ASSUME NEW k \in Builders, OpenPart(k) PROVE OwnInv'
  <2> DEFINE n == maker[k].name
             inode == [state |-> "torn", by |-> k, holds |-> maker[k].puts]
  <2>1. /\ maker[k].at = "open" /\ Goto(k, "write") /\ UNCHANGED <<frame, list, bundle, bundleJob>>
        /\ bundlePart' = [bundlePart EXCEPT ![n] = inode] BY <1>7 DEF OpenPart
  <2>2. inode \in InodeRows BY <1>0 DEF BundlesTyped, MakerRows, InodeRows
  <2> HIDE DEF inode, n
  <2>3. bundlePart' \in [Names -> InodeRows] BY <1>b, <2>1, <2>2
  <2> QED BY <1>k, <1>b, <2>1, <2>3
<1>8. ASSUME NEW k \in Builders, ClosePart(k) PROVE OwnInv'
  <2> DEFINE n == maker[k].name
  <2>1. /\ maker[k].at = "write" /\ Goto(k, "rename") /\ UNCHANGED <<frame, list, bundleJob>>
        /\ bundle' = [bundle EXCEPT ![n] = Closed(@, k)]
        /\ bundlePart' = [bundlePart EXCEPT ![n] = Closed(@, k)] BY <1>8 DEF ClosePart
  <2>2. \A i \in InodeRows : Closed(i, k) \in InodeRows BY DEF Closed, InodeRows
  <2> HIDE DEF n
  <2>3. bundle' \in [Names -> InodeRows] /\ bundlePart' \in [Names -> InodeRows] BY <1>b, <2>1, <2>2
  <2> QED BY <1>k, <2>1, <2>3
<1>9. ASSUME NEW k \in Builders, WriteRaises(k) \/ RenameRaises(k) PROVE OwnInv'
  BY <1>9, <1>x DEF WriteRaises, RenameRaises
<1>10. ASSUME NEW k \in Builders, RenamePart(k) PROVE OwnInv'
  <2> DEFINE n == maker[k].name
  <2>1. /\ maker[k].at = "rename" /\ Goto(k, "prune") /\ UNCHANGED <<frame, list, bundleJob>>
        /\ bundle' = [bundle EXCEPT ![n] = bundlePart[n]] /\ bundlePart' = [bundlePart EXCEPT ![n] = NoInode]
    BY <1>10 DEF RenamePart
  <2>2. n \in Names BY <1>0, <2>1 DEF MakerOwns
  <2>3. NoInode \in InodeRows BY DEF NoInode, InodeRows
  <2> HIDE DEF n
  <2>4. bundle' \in [Names -> InodeRows] /\ bundlePart' \in [Names -> InodeRows] BY <1>b, <2>1, <2>2, <2>3
  <2> QED BY <1>k, <2>1, <2>4
<1>11. ASSUME NEW k \in Builders, PruneFamily(k) PROVE OwnInv'
  <2>1. /\ maker[k].at = "prune" /\ UNCHANGED <<frame, list, bundlePart>>
        /\ \E out \in SUBSET Names : bundle' = [m \in Names |-> IF m \in out THEN NoInode ELSE bundle[m]]
        /\ IF k \in BundleJobs
           THEN /\ Becomes(k, NoMaker)
                /\ bundleJob' = [bundleJob EXCEPT ![k].status = "done"]
           ELSE Goto(k, "send") /\ UNCHANGED bundleJob
    <3>1. {m \in Names : m[1] = maker[k].name[1] /\ m # maker[k].name /\ Exists(m)} \in SUBSET Names OBVIOUS
    <3> QED BY <1>11, <3>1 DEF PruneFamily, Becomes
  <2>2. NoInode \in InodeRows BY DEF NoInode, InodeRows
  <2>3. bundle' \in [Names -> InodeRows] BY <1>b, <2>1, <2>2
  <2>4. CASE k \in BundleJobs
    <3>1. bundleJob[k].name \in Names BY <1>0, <2>1, <2>4 DEF MakerOwns
    <3> QED BY <1>0, <1>j, <1>b, <2>1, <2>3, <2>4, <3>1, RowTurns, IdleMaker
  <2>5. CASE k \notin BundleJobs
    <3>1. k \in Inliners BY <2>5 DEF Builders
    <3>2. PICK row \in MakerRows : Becomes(k, row) /\ row.name = maker[k].name
      BY <1>0, <2>1, <2>5, BuilderGoes DEF MakerPlaces
    <3>3. maker[k].name \in Names BY <1>0, <2>1 DEF MakerOwns
    <3> QED BY <1>r, <1>b, <2>1, <2>3, <2>5, <3>1, <3>2, <3>3
  <2> QED BY <2>4, <2>5
<1>12. CASE BundlesKill
  <2> DEFINE Left(inode) == [inode EXCEPT !.by = IF inode.state = "torn" THEN NoBuilder ELSE inode.by]
  <2>1. /\ maker' = [k \in Builders |-> NoMaker] /\ UNCHANGED <<frame, list>>
        /\ bundle' = [n \in Names |-> Left(bundle[n])] /\ bundlePart' = [n \in Names |-> Left(bundlePart[n])]
        /\ bundleJob' = [j \in BundleJobs |-> IF bundleJob[j].status = "running"
                                              THEN [bundleJob[j] EXCEPT !.status = "queued"] ELSE bundleJob[j]]
    BY <1>12 DEF BundlesKill
  <2>2. \A i \in InodeRows : Left(i) \in InodeRows BY DEF InodeRows
  <2> HIDE DEF Left
  <2>3. bundle' \in [Names -> InodeRows] /\ bundlePart' \in [Names -> InodeRows] BY <1>b, <2>1, <2>2
  <2>4. ASSUME NEW j \in BundleJobs
        PROVE  /\ bundleJob'[j] \in BundleRows /\ bundleJob'[j].name = bundleJob[j].name
               /\ bundleJob'[j].status # "running"
               /\ bundleJob[j].status = "absent" => bundleJob'[j].status = "absent"
               /\ bundleJob[j].status # "absent" => bundleJob'[j].status # "absent"
    <3>1. bundleJob[j] \in BundleRows BY <1>0 DEF BundlesTyped
    <3> QED BY <2>1, <3>1 DEF BundleRows
  <2>5. BundlesTyped'
    <3>1. bundleJob' \in [BundleJobs -> BundleRows] BY <2>1, <2>4
    <3> QED BY <1>0, <2>1, <2>3, <3>1, IdleMaker DEF BundlesTyped
  <2>6. \A k \in Builders : MakerOwns(k)' BY <2>1, <2>4, IdleMaker DEF MakerOwns
  <2>7. \A j \in BundleJobs : JobNamed(j)' BY <1>0, <2>4 DEF JobNamed
  <2> QED BY <2>5, <2>6, <2>7 DEF OwnInv
<1> QED BY <1>1, <1>2, <1>3, <1>4, <1>5, <1>6, <1>7, <1>8, <1>9, <1>10, <1>11, <1>12
        DEF BundlesNext, ListStep

\* What is in the archives.

\* A photo that is gone stays gone, so what fitted still does.
LEMMA FitsOn ==
  ASSUME \A a \in Frames : frame[a] = "gone" => frame'[a] = "gone", NEW n \in Names, NEW S, Fits(n, S)
  PROVE  Fits(n, S)'
<1>1. n[2] \subseteq Frames BY DEF Names
<1> QED BY <1>1 DEF Fits

LEMMA FitStep ==
  ASSUME BundlesInv, BundlesNext
  PROVE  FitInv'
<1>0. /\ OwnInv /\ FitInv /\ BundlesTyped /\ (\A k \in Builders : MakerOwns(k)) /\ (\A j \in BundleJobs : JobNamed(j))
      /\ bundle \in [Names -> InodeRows] /\ bundlePart \in [Names -> InodeRows]
  BY DEF BundlesInv, OwnInv, BundlesTyped
\* A builder moves on with what it puts in, or rests.
<1>k. ASSUME NEW k \in Builders, NEW row \in MakerRows, Becomes(k, row),
             row.at # "idle" => row.name \in Names /\ Fits(row.name, row.puts),
             frame' = frame, list' = list,
             \A n \in Names : /\ bundle'[n].state # "none" => Fits(n, bundle'[n].holds)
                              /\ bundlePart'[n].state # "none" => Fits(n, bundlePart'[n].holds)
      PROVE  FitInv'
  <2>1. /\ maker'[k] = row /\ \A m \in Builders \ {k} : maker'[m] = maker[m] BY <1>0, <1>k, BuilderBecomes
  <2>2. \A l \in Lists : AllThere(l)' BY <1>0, <1>k DEF FitInv, AllThere
  <2>3. ASSUME NEW m \in Builders, maker'[m].at # "idle" PROVE Fits(maker[m].name, maker[m].puts)'
    <3>1. CASE m = k BY <3>1, <1>k, <2>1, <2>3 DEF Fits
    <3>2. CASE m # k BY <3>2, <1>0, <1>k, <2>1, <2>3 DEF Fits, FitInv
    <3> QED BY <3>1, <3>2
  <2>4. \A n \in Names : /\ bundle'[n].state # "none" => Fits(n, bundle[n].holds)'
                         /\ bundlePart'[n].state # "none" => Fits(n, bundlePart[n].holds)' BY <1>k DEF Fits
  <2> QED BY <2>2, <2>3, <2>4 DEF FitInv
<1>b. \A n \in Names : /\ bundle[n].state # "none" => Fits(n, bundle[n].holds)
                       /\ bundlePart[n].state # "none" => Fits(n, bundlePart[n].holds) BY <1>0 DEF FitInv
<1>m. \A k \in Builders : maker[k].at # "idle" => maker[k].name \in Names /\ Fits(maker[k].name, maker[k].puts)
  BY <1>0 DEF FitInv, MakerOwns
<1>g. ASSUME NEW k \in Builders, NEW p \in MakerPlaces, Goto(k, p), maker[k].at # "idle"
      PROVE  \E row \in MakerRows : /\ Becomes(k, row)
                                    /\ row.name \in Names /\ Fits(row.name, row.puts) BY <1>0, <1>g, <1>m, BuilderGoes
<1>1. CASE ListStep
  <2>1. UNCHANGED <<disk, maker>> /\ (\A l \in Lists : AllThere(l)')
        /\ \A a \in Frames : frame[a] = "gone" => frame'[a] = "gone" BY <1>0, <1>1, ListStepIs
  <2>2. ASSUME NEW k \in Builders, maker[k].at # "idle" PROVE Fits(maker[k].name, maker[k].puts)'
    <3>a. PICK n \in Names : n = maker[k].name BY <1>m, <2>2
    <3>1. PICK S : S = maker[k].puts OBVIOUS
    <3>2. Fits(n, S)' BY <3>a, <3>1, <1>m, <2>1, <2>2, FitsOn
    <3> QED BY <3>a, <3>1, <3>2, <2>1
  <2>3. ASSUME NEW n \in Names
        PROVE  /\ bundle[n].state # "none" => Fits(n, bundle[n].holds)'
               /\ bundlePart[n].state # "none" => Fits(n, bundlePart[n].holds)'
    <3>1. PICK S, T : S = bundle[n].holds /\ T = bundlePart[n].holds OBVIOUS
    <3>2. Fits(n, S) => Fits(n, S)' BY <2>1, FitsOn
    <3>3. Fits(n, T) => Fits(n, T)' BY <2>1, FitsOn
    <3> QED BY <3>1, <3>2, <3>3, <1>b, <2>1 DEF disk
  <2> QED BY <2>1, <2>2, <2>3 DEF FitInv, disk
<1>2. ASSUME NEW r \in Inliners, NEW l \in Lists, Ask(r, l) PROVE FitInv'
  <2> DEFINE n == NameOf(l)
             row == [at |-> IF Exists(n) THEN "send" ELSE IF Small(n) THEN "open" ELSE "look",
                     name |-> n, puts |-> n[2]]
  <2>1. n \in Names /\ n[2] \subseteq Frames BY <1>0, <1>2, ListNamed DEF Ask, Names
  <2>2. Becomes(r, row) /\ UNCHANGED <<frame, list, disk>> /\ r \in Builders BY <1>2 DEF Ask, Becomes, Builders
  <2> HIDE DEF n
  <2>3. row \in MakerRows /\ row.name = n /\ row.puts = n[2] BY <2>1 DEF MakerRows, MakerPlaces
  <2>4. Fits(n, n[2]) BY DEF Fits
  <2> HIDE DEF row
  <2> QED BY <1>k, <1>b, <2>1, <2>2, <2>3, <2>4 DEF disk
<1>3. ASSUME NEW r \in Inliners, LookForJob(r) \/ EnqueueBundle(r) PROVE FitInv'
  <2>1. r \in Builders /\ maker[r].at # "idle" /\ UNCHANGED <<frame, list, disk>>
        /\ \E p \in MakerPlaces : Goto(r, p) BY <1>3 DEF LookForJob, EnqueueBundle, Builders, MakerPlaces
  <2> QED BY <1>k, <1>b, <1>g, <2>1 DEF disk
<1>5. ASSUME NEW r \in Inliners, PollBundle(r) \/ Leave(r) PROVE FitInv'
  <2>1. Becomes(r, NoMaker) /\ UNCHANGED <<frame, list, disk>> /\ r \in Builders
    BY <1>5 DEF PollBundle, Leave, Becomes, Builders
  <2> QED BY <1>k, <1>b, <2>1, IdleMaker DEF disk
<1>6. ASSUME NEW j \in BundleJobs, BundleJobBegins(j) PROVE FitInv'
  <2> DEFINE n == bundleJob[j].name
  <2>1. bundleJob[j].status = "queued" /\ UNCHANGED <<frame, list, disk>> /\ j \in Builders
    BY <1>6 DEF BundleJobBegins, Builders
  <2>2. n \in Names BY <1>0, <2>1 DEF JobNamed
  <2>3. CASE maker' = maker BY <2>3, <1>0, <2>1 DEF FitInv, AllThere, Fits, disk
  <2>4. CASE maker' # maker
    <3> DEFINE row == [at |-> "open", name |-> n, puts |-> Rows(n)]
    <3>1. Becomes(j, row) BY <1>6, <2>4 DEF BundleJobBegins, Becomes
    <3>2. Rows(n) \subseteq Frames BY <2>2 DEF Rows, Names
    <3>3. Fits(n, Rows(n)) BY <2>2, <1>0 DEF Fits, Rows
    <3>4. row \in MakerRows /\ row.puts = Rows(n) /\ row.name = n
      <4> HIDE DEF n
      <4> QED BY <2>2, <3>2 DEF MakerRows, MakerPlaces
    <3> HIDE DEF row, n
    <3> QED BY <1>k, <1>b, <2>1, <2>2, <3>1, <3>3, <3>4 DEF disk
  <2> QED BY <2>3, <2>4
<1>7. ASSUME NEW k \in Builders, OpenPart(k) PROVE FitInv'
  <2>1. PICK n \in Names : n = maker[k].name BY <1>m, <1>7 DEF OpenPart
  <2>2. /\ maker[k].at = "open" /\ Goto(k, "write") /\ UNCHANGED <<frame, list, bundle>>
        /\ bundlePart' = [bundlePart EXCEPT ![n] = [state |-> "torn", by |-> k, holds |-> maker[k].puts]]
    BY <1>7, <2>1 DEF OpenPart
  <2>3. bundlePart'[n].holds = maker[k].puts /\ \A m \in Names \ {n} : bundlePart'[m] = bundlePart[m] BY <1>0, <2>2
  <2>4. Fits(n, maker[k].puts) BY <1>m, <2>1, <2>2
  <2>5. \A m \in Names : bundlePart'[m].state # "none" => Fits(m, bundlePart'[m].holds) BY <1>b, <2>3, <2>4
  <2> QED BY <1>k, <1>b, <1>g, <2>2, <2>5 DEF MakerPlaces
<1>8. ASSUME NEW k \in Builders, ClosePart(k) PROVE FitInv'
  <2>1. PICK n \in Names : n = maker[k].name BY <1>m, <1>8 DEF ClosePart
  <2>2. /\ maker[k].at = "write" /\ Goto(k, "rename") /\ UNCHANGED <<frame, list>>
        /\ bundle' = [bundle EXCEPT ![n] = Closed(bundle[n], k)]
        /\ bundlePart' = [bundlePart EXCEPT ![n] = Closed(bundlePart[n], k)] BY <1>8, <1>0, <2>1 DEF ClosePart
  <2>3. \A i \in InodeRows : Closed(i, k).holds = i.holds /\ (Closed(i, k).state # "none" => i.state # "none")
    BY DEF Closed, InodeRows
  <2>4. ASSUME NEW m \in Names
        PROVE  /\ bundle'[m].holds = bundle[m].holds /\ (bundle'[m].state # "none" => bundle[m].state # "none")
               /\ bundlePart'[m].holds = bundlePart[m].holds
               /\ (bundlePart'[m].state # "none" => bundlePart[m].state # "none") BY <1>0, <2>2, <2>3
  <2>5. \A m \in Names : /\ bundle'[m].state # "none" => Fits(m, bundle'[m].holds)
                         /\ bundlePart'[m].state # "none" => Fits(m, bundlePart'[m].holds) BY <1>b, <2>4
  <2> QED BY <1>k, <1>g, <2>2, <2>5 DEF MakerPlaces
<1>9. ASSUME NEW k \in Builders, WriteRaises(k) \/ RenameRaises(k) PROVE FitInv'
  <2>1. BuildRaisesAt(k) /\ UNCHANGED <<frame, list, disk>> BY <1>9 DEF WriteRaises, RenameRaises, BuildRaisesAt
  <2> QED BY <1>0, <1>k, <1>b, <2>1, Raised, IdleMaker DEF disk
<1>10. ASSUME NEW k \in Builders, RenamePart(k) PROVE FitInv'
  <2>1. PICK n \in Names : n = maker[k].name BY <1>m, <1>10 DEF RenamePart
  <2>2. /\ maker[k].at = "rename" /\ Goto(k, "prune") /\ UNCHANGED <<frame, list>>
        /\ bundle' = [bundle EXCEPT ![n] = bundlePart[n]] /\ bundlePart' = [bundlePart EXCEPT ![n] = NoInode]
    BY <1>10, <2>1 DEF RenamePart
  <2>3. ASSUME NEW m \in Names
        PROVE  /\ bundle'[m].state # "none" => Fits(m, bundle'[m].holds)
               /\ bundlePart'[m].state # "none" => Fits(m, bundlePart'[m].holds)
    <3>1. CASE m = n BY <3>1, <1>0, <1>b, <2>2 DEF NoInode
    <3>2. CASE m # n BY <3>2, <1>0, <1>b, <2>2
    <3> QED BY <3>1, <3>2
  <2> QED BY <1>k, <1>g, <2>2, <2>3 DEF MakerPlaces
<1>11. ASSUME NEW k \in Builders, PruneFamily(k) PROVE FitInv'
  <2>1. /\ maker[k].at = "prune" /\ UNCHANGED <<frame, list, bundlePart>>
        /\ \E out \in SUBSET Names : bundle' = [m \in Names |-> IF m \in out THEN NoInode ELSE bundle[m]]
        /\ Becomes(k, NoMaker) \/ Goto(k, "send")
    <3>1. {m \in Names : m[1] = maker[k].name[1] /\ m # maker[k].name /\ Exists(m)} \in SUBSET Names OBVIOUS
    <3> QED BY <1>11, <3>1 DEF PruneFamily, Becomes
  <2>2. \A m \in Names : bundle'[m].state # "none" => Fits(m, bundle'[m].holds) BY <1>b, <2>1 DEF NoInode
  <2> QED BY <1>k, <1>b, <1>g, <2>1, <2>2, IdleMaker DEF MakerPlaces
<1>12. CASE BundlesKill
  <2> DEFINE Left(inode) == [inode EXCEPT !.by = IF inode.state = "torn" THEN NoBuilder ELSE inode.by]
  <2>1. /\ maker' = [k \in Builders |-> NoMaker] /\ UNCHANGED <<frame, list>>
        /\ bundle' = [n \in Names |-> Left(bundle[n])] /\ bundlePart' = [n \in Names |-> Left(bundlePart[n])]
    BY <1>12 DEF BundlesKill
  <2>2. \A i \in InodeRows : Left(i).state = i.state /\ Left(i).holds = i.holds BY DEF InodeRows
  <2> HIDE DEF Left
  <2>3. \A n \in Names : /\ bundle'[n].state = bundle[n].state /\ bundle'[n].holds = bundle[n].holds
                         /\ bundlePart'[n].state = bundlePart[n].state /\ bundlePart'[n].holds = bundlePart[n].holds
    BY <1>0, <2>1, <2>2
  <2>4. \A k \in Builders : maker'[k].at = "idle" BY <2>1, IdleMaker
  <2> QED BY <1>0, <1>b, <2>1, <2>3, <2>4 DEF FitInv, AllThere, Fits
<1> QED BY <1>1, <1>2, <1>3, <1>5, <1>6, <1>7, <1>8, <1>9, <1>10, <1>11, <1>12
        DEF BundlesNext, ListStep

\* Who writes what.

\* Builders begin nothing, and the files of n stay: n is as alone as it was.
LEMMA AloneOn ==
  ASSUME AloneInv, NEW n \in Names, n \in twinned => n \in twinned',
         n \notin twinned' => /\ bundle'[n] = bundle[n] /\ bundlePart'[n] = bundlePart[n]
                              /\ \A k \in Writers(n)' : /\ k \in Writers(n)
                                                        /\ maker'[k] = maker[k]
  PROVE  AloneAt(n)'
<1>1. SUFFICES ASSUME n \notin twinned'
               PROVE  /\ \A k, m \in Writers(n)' : k = m
                      /\ \A k \in Writers(n)' :
                           /\ maker'[k].at = "write" => bundlePart'[n].by = k
                           /\ maker'[k].at = "rename" => bundlePart'[n].state # "torn"
                      /\ bundle'[n].state # "torn" BY DEF AloneAt
<1>2. AloneAt(n) /\ n \notin twinned BY <1>1 DEF AloneInv
<1> QED BY <1>1, <1>2 DEF AloneAt

LEMMA AloneStep ==
  ASSUME BundlesInv, BundlesNext
  PROVE  AloneInv'
<1>0. /\ OwnInv /\ FitInv /\ BundlesTyped /\ AloneInv /\ (\A k \in Builders : MakerOwns(k))
      /\ bundle \in [Names -> InodeRows] /\ bundlePart \in [Names -> InodeRows]
  BY DEF BundlesInv, OwnInv, BundlesTyped
<1>w. \A k \in Builders, n \in Names : k \in Writers(n) <=> maker[k].at \in {"write", "rename"} /\ maker[k].name = n
  BY DEF Writers
<1>v. \A k, n : k \in Writers(n)' <=> k \in Builders /\ maker'[k].at \in {"write", "rename"} /\ maker'[k].name = n
  BY DEF Writers
\* One builder moves to a place where it does not write, and no file changes.
<1>k. ASSUME NEW k \in Builders, NEW row \in MakerRows, Becomes(k, row), row.at \notin {"write", "rename"},
             twinned' = twinned, UNCHANGED disk
      PROVE  AloneInv'
  <2>1. maker'[k] = row /\ \A m \in Builders \ {k} : maker'[m] = maker[m] BY <1>0, <1>k, BuilderBecomes
  <2>2. ASSUME NEW n \in Names PROVE AloneAt(n)'
    <3>1. \A m \in Writers(n)' : m \in Writers(n) /\ maker'[m] = maker[m] BY <1>k, <1>v, <1>w, <2>1, <2>2
    <3> QED BY <1>0, <1>k, <3>1, AloneOn DEF disk
  <2> QED BY <2>2 DEF AloneInv
<1>1. CASE ListStep
  <2>1. UNCHANGED <<disk, maker, twinned>> BY <1>0, <1>1, ListStepIs
  <2> QED BY <1>0, <2>1 DEF AloneInv, AloneAt, Writers, disk
<1>2. ASSUME NEW r \in Inliners, NEW l \in Lists, Ask(r, l) PROVE AloneInv'
  <2> DEFINE n == NameOf(l)
             row == [at |-> IF Exists(n) THEN "send" ELSE IF Small(n) THEN "open" ELSE "look",
                     name |-> n, puts |-> n[2]]
  <2>1. n \in Names /\ n[2] \subseteq Frames BY <1>0, <1>2, ListNamed DEF Ask, Names
  <2>2. Becomes(r, row) /\ UNCHANGED <<disk, twinned>> /\ r \in Builders BY <1>2 DEF Ask, Becomes, Builders
  <2> HIDE DEF n
  <2>3. row \in MakerRows /\ row.at \notin {"write", "rename"} BY <2>1 DEF MakerRows, MakerPlaces
  <2> QED BY <1>k, <2>2, <2>3
<1>3. ASSUME NEW r \in Inliners, LookForJob(r) \/ EnqueueBundle(r) PROVE AloneInv'
  <2>1. r \in Builders /\ UNCHANGED <<disk, twinned>> /\ \E p \in {"wait", "enqueue"} : Goto(r, p)
    BY <1>3 DEF LookForJob, EnqueueBundle, Builders, past
  <2> QED BY <1>0, <1>k, <2>1, BuilderGoes DEF MakerPlaces
<1>5. ASSUME NEW r \in Inliners, PollBundle(r) \/ Leave(r) PROVE AloneInv'
  <2>1. Becomes(r, NoMaker) /\ UNCHANGED <<disk, twinned>> /\ r \in Builders
    BY <1>5 DEF PollBundle, Leave, Becomes, Builders, past
  <2> QED BY <1>k, <2>1, IdleMaker
<1>6. ASSUME NEW j \in BundleJobs, BundleJobBegins(j) PROVE AloneInv'
  <2> DEFINE n == bundleJob[j].name
  <2>1. bundleJob[j].status = "queued" /\ UNCHANGED <<disk, twinned>> /\ j \in Builders
    BY <1>6 DEF BundleJobBegins, Builders
  <2>2. n \in Names BY <2>1 DEF JobNamed, BundlesInv, OwnInv
  <2>3. CASE maker' = maker BY <2>3, <1>0, <2>1 DEF AloneInv, AloneAt, Writers, disk
  <2>4. CASE maker' # maker
    <3> DEFINE row == [at |-> "open", name |-> n, puts |-> Rows(n)]
    <3>1. Becomes(j, row) BY <1>6, <2>4 DEF BundleJobBegins, Becomes
    <3>2. Rows(n) \subseteq Frames BY <2>2 DEF Rows, Names
    <3>4. row \in MakerRows /\ row.at = "open"
      <4> HIDE DEF n
      <4> QED BY <2>2, <3>2 DEF MakerRows, MakerPlaces
    <3> HIDE DEF row, n
    <3> QED BY <1>k, <2>1, <3>1, <3>4
  <2> QED BY <2>3, <2>4
<1>7. ASSUME NEW k \in Builders, OpenPart(k) PROVE AloneInv'
  <2>1. PICK n \in Names : n = maker[k].name BY <1>0, <1>7 DEF OpenPart, MakerOwns
  <2>2. /\ maker[k].at = "open" /\ Goto(k, "write") /\ bundle' = bundle
        /\ bundlePart' = [bundlePart EXCEPT ![n] = [state |-> "torn", by |-> k, holds |-> maker[k].puts]]
        /\ twinned' = IF Writers(n) = {} THEN twinned ELSE twinned \cup {n} BY <1>7, <2>1 DEF OpenPart
  <2>3. PICK row \in MakerRows : Becomes(k, row) /\ row.at = "write" /\ row.name = n
    BY <1>0, <2>1, <2>2, BuilderGoes DEF MakerPlaces
  <2>4. maker'[k] = row /\ \A m \in Builders \ {k} : maker'[m] = maker[m] BY <1>0, <2>3, BuilderBecomes
  <2>5. bundlePart'[n].by = k /\ \A m \in Names \ {n} : bundlePart'[m] = bundlePart[m] BY <1>0, <2>2
  <2>6. ASSUME NEW m \in Names, m # n PROVE AloneAt(m)'
    <3>1. \A i \in Writers(m)' : i \in Writers(m) /\ maker'[i] = maker[i] BY <1>v, <1>w, <2>3, <2>4, <2>6
    <3> QED BY <1>0, <2>2, <2>5, <2>6, <3>1, AloneOn
  <2>7. AloneAt(n)'
    <3>1. SUFFICES ASSUME n \notin twinned' PROVE AloneAt(n)' BY DEF AloneAt
    <3>2. Writers(n) = {} /\ n \notin twinned BY <3>1, <2>2
    <3>3. \A i \in Writers(n)' : i = k BY <1>v, <1>w, <2>4, <3>2
    <3>4. bundle'[n].state # "torn" BY <1>0, <2>2, <3>2 DEF AloneInv, AloneAt
    <3> QED BY <2>3, <2>4, <2>5, <3>3, <3>4 DEF AloneAt
  <2> QED BY <2>6, <2>7 DEF AloneInv
<1>8. ASSUME NEW k \in Builders, ClosePart(k) PROVE AloneInv'
  <2>1. PICK n \in Names : n = maker[k].name BY <1>0, <1>8 DEF ClosePart, MakerOwns
  <2>2. /\ maker[k].at = "write" /\ Goto(k, "rename") /\ twinned' = twinned
        /\ bundle' = [bundle EXCEPT ![n] = Closed(bundle[n], k)]
        /\ bundlePart' = [bundlePart EXCEPT ![n] = Closed(bundlePart[n], k)] BY <1>8, <1>0, <2>1 DEF ClosePart, past
  <2>3. PICK row \in MakerRows : Becomes(k, row) /\ row.at = "rename" /\ row.name = n
    BY <1>0, <2>1, <2>2, BuilderGoes DEF MakerPlaces
  <2>4. maker'[k] = row /\ \A m \in Builders \ {k} : maker'[m] = maker[m] BY <1>0, <2>3, BuilderBecomes
  <2>5. \A i \in InodeRows : /\ Closed(i, k).state = "torn" => i.state = "torn"
                             /\ i.by = k => Closed(i, k).state # "torn" BY DEF Closed, InodeRows
  <2>6. ASSUME NEW m \in Names, m # n PROVE AloneAt(m)'
    <3>1. \A i \in Writers(m)' : i \in Writers(m) /\ maker'[i] = maker[i] BY <1>v, <1>w, <2>3, <2>4, <2>6
    <3> QED BY <1>0, <2>2, <2>6, <3>1, AloneOn
  <2>7. AloneAt(n)'
    <3>1. SUFFICES ASSUME n \notin twinned PROVE AloneAt(n)' BY <2>2 DEF AloneAt
    <3>2. k \in Writers(n) BY <1>w, <2>1, <2>2
    <3>3. (\A i \in Writers(n) : i = k) /\ bundlePart[n].by = k /\ bundle[n].state # "torn"
      BY <1>0, <2>2, <3>1, <3>2 DEF AloneInv, AloneAt
    <3>4. \A i \in Writers(n)' : i = k BY <1>v, <1>w, <2>4, <3>3
    <3>5. bundlePart'[n].state # "torn" /\ bundle'[n].state # "torn" BY <1>0, <2>2, <2>5, <3>3
    <3> QED BY <2>3, <2>4, <3>4, <3>5 DEF AloneAt
  <2> QED BY <2>6, <2>7 DEF AloneInv
<1>9. ASSUME NEW k \in Builders, WriteRaises(k) \/ RenameRaises(k) PROVE AloneInv'
  <2>1. BuildRaisesAt(k) /\ UNCHANGED <<disk, twinned>> BY <1>9 DEF WriteRaises, RenameRaises, BuildRaisesAt, past
  <2> QED BY <1>0, <1>k, <2>1, Raised, IdleMaker
<1>10. ASSUME NEW k \in Builders, RenamePart(k) PROVE AloneInv'
  <2>1. PICK n \in Names : n = maker[k].name BY <1>0, <1>10 DEF RenamePart, MakerOwns
  <2>2. /\ maker[k].at = "rename" /\ Goto(k, "prune") /\ twinned' = twinned
        /\ bundle' = [bundle EXCEPT ![n] = bundlePart[n]] /\ bundlePart' = [bundlePart EXCEPT ![n] = NoInode]
    BY <1>10, <2>1 DEF RenamePart, past
  <2>3. PICK row \in MakerRows : Becomes(k, row) /\ row.at = "prune" /\ row.name = n
    BY <1>0, <2>1, <2>2, BuilderGoes DEF MakerPlaces
  <2>4. maker'[k] = row /\ \A m \in Builders \ {k} : maker'[m] = maker[m] BY <1>0, <2>3, BuilderBecomes
  <2>5. \A m \in Names : \A i \in Writers(m)' : i \in Writers(m) /\ maker'[i] = maker[i] /\ i # k
    BY <1>v, <1>w, <2>3, <2>4
  <2>6. ASSUME NEW m \in Names, m # n PROVE AloneAt(m)' BY <1>0, <2>2, <2>5, <2>6, AloneOn
  <2>7. AloneAt(n)'
    <3>1. SUFFICES ASSUME n \notin twinned PROVE AloneAt(n)' BY <2>2 DEF AloneAt
    <3>2. k \in Writers(n) BY <1>w, <2>1, <2>2
    <3>3. (\A i \in Writers(n) : i = k) /\ bundlePart[n].state # "torn"
      BY <1>0, <2>2, <3>1, <3>2 DEF AloneInv, AloneAt
    <3>4. Writers(n)' = {} BY <2>5, <3>3
    <3>5. bundle'[n].state # "torn" BY <1>0, <2>2, <3>3
    <3> QED BY <3>4, <3>5 DEF AloneAt
  <2> QED BY <2>6, <2>7 DEF AloneInv
<1>11. ASSUME NEW k \in Builders, PruneFamily(k) PROVE AloneInv'
  <2>1. /\ maker[k].at = "prune" /\ UNCHANGED <<twinned, bundlePart>>
        /\ \E out \in SUBSET Names : bundle' = [m \in Names |-> IF m \in out THEN NoInode ELSE bundle[m]]
        /\ Becomes(k, NoMaker) \/ Goto(k, "send")
    <3>1. {m \in Names : m[1] = maker[k].name[1] /\ m # maker[k].name /\ Exists(m)} \in SUBSET Names OBVIOUS
    <3> QED BY <1>11, <3>1 DEF PruneFamily, Becomes
  <2>2. PICK row \in MakerRows : Becomes(k, row) /\ row.at \in {"idle", "send"}
    BY <1>0, <2>1, IdleMaker, BuilderGoes DEF MakerPlaces
  <2>3. maker'[k] = row /\ \A m \in Builders \ {k} : maker'[m] = maker[m] BY <1>0, <2>2, BuilderBecomes
  <2>4. ASSUME NEW n \in Names PROVE AloneAt(n)'
    <3>1. \A m \in Writers(n)' : m \in Writers(n) /\ maker'[m] = maker[m] BY <1>v, <1>w, <2>2, <2>3
    <3>2. SUFFICES ASSUME n \notin twinned PROVE AloneAt(n)' BY <2>1 DEF AloneAt
    <3>3. AloneAt(n) BY <1>0 DEF AloneInv
    <3>4. bundle'[n].state # "torn" BY <2>1, <3>2, <3>3 DEF AloneAt, NoInode
    <3> QED BY <2>1, <3>1, <3>2, <3>3, <3>4 DEF AloneAt
  <2> QED BY <2>4 DEF AloneInv
<1>12. CASE BundlesKill
  <2> DEFINE Left(inode) == [inode EXCEPT !.by = IF inode.state = "torn" THEN NoBuilder ELSE inode.by]
  <2>1. /\ maker' = [k \in Builders |-> NoMaker] /\ twinned' = twinned
        /\ bundle' = [n \in Names |-> Left(bundle[n])] BY <1>12 DEF BundlesKill
  <2>2. \A i \in InodeRows : Left(i).state = i.state BY DEF InodeRows
  <2> HIDE DEF Left
  <2>3. \A n \in Names : bundle'[n].state = bundle[n].state BY <1>0, <2>1, <2>2
  <2>4. \A n : Writers(n)' = {} BY <1>v, <2>1, IdleMaker
  <2> QED BY <1>0, <2>1, <2>3, <2>4 DEF AloneInv, AloneAt
<1> QED BY <1>1, <1>2, <1>3, <1>5, <1>6, <1>7, <1>8, <1>9, <1>10, <1>11, <1>12
        DEF BundlesNext, ListStep

\* Whose lists the names in use are.

\* A change of lists leaves every name known and stirs who builds for them.
LEMMA KnownOn ==
  ASSUME OwnInv, FitInv, ListStep
  PROVE  /\ \A n : Known(n) => Known(n)'
         /\ \A k \in Builders : Unstirred(k) => Unstirred(k)'
<1>1. PICK L \in SUBSET Lists : /\ \A l \in Lists \ L : list'[l] = list[l]
                                /\ \/ Stir(L)
                                   \/ L = {} /\ UNCHANGED <<overtaken, stirred>> BY ListStepIs
<1>2. maker' = maker BY ListStepIs
<1>3. /\ overtaken \subseteq overtaken' /\ \A l \in L : NameOf(l) \in overtaken'
      /\ stirred \subseteq stirred'
      /\ \A k \in Builders, l \in L :
           maker[k].at # "idle" /\ FamilyOf[l] = maker[k].name[1] => k \in stirred' BY <1>1 DEF Stir
<1>4. ASSUME NEW l \in Lists, l \notin L PROVE NameOf(l)' = NameOf(l) BY <1>1, <1>4 DEF NameOf
<1>5. ASSUME NEW n, Known(n) PROVE Known(n)' BY <1>3, <1>4, <1>5 DEF Known, Current
<1>6. ASSUME NEW k \in Builders, Unstirred(k) PROVE Unstirred(k)'
  <2>1. SUFFICES ASSUME maker[k].at # "idle", k \notin stirred' PROVE Current(maker[k].name)' BY <1>2 DEF Unstirred
  <2>2. PICK l \in Lists : NameOf(l) = maker[k].name BY <1>3, <1>6, <2>1 DEF Unstirred, Current
  <2>3. FamilyOf[l] = maker[k].name[1] BY <2>2 DEF NameOf
  <2>4. l \notin L BY <1>3, <2>1, <2>3
  <2>5. NameOf(l)' = maker[k].name BY <1>4, <2>2, <2>4
  <2> QED BY <1>2, <2>5 DEF Current
<1> QED BY <1>5, <1>6

LEMMA KnownStep ==
  ASSUME BundlesInv, BundlesNext
  PROVE  KnownInv'
<1>0. /\ OwnInv /\ FitInv /\ BundlesTyped /\ KnownInv /\ (\A k \in Builders : MakerOwns(k))
      /\ (\A j \in BundleJobs : JobNamed(j)) BY DEF BundlesInv, OwnInv
<1>i. /\ \A k \in Builders : Unstirred(k) /\ (maker[k].at # "idle" => Known(maker[k].name))
      /\ \A j \in BundleJobs : bundleJob[j].status \in {"queued", "running"} => Known(bundleJob[j].name)
      /\ ~wasted BY <1>0 DEF KnownInv, NewestIsKept
\* One builder moves, and the lists rest.
<1>k. ASSUME NEW k \in Builders, NEW row \in MakerRows, Becomes(k, row), list' = list,
             \A n : Known(n) => Known(n)', stirred \ {k} \subseteq stirred',
             row.at # "idle" => Known(row.name) /\ (k \notin stirred' => Current(row.name)),
             \A j \in BundleJobs : bundleJob'[j].status \in {"queued", "running"} =>
                                     Known(bundleJob'[j].name),
             ~wasted'
      PROVE  KnownInv'
  <2>1. maker'[k] = row /\ \A m \in Builders \ {k} : maker'[m] = maker[m] BY <1>0, <1>k, BuilderBecomes
  <2>2. \A n : Current(n)' <=> Current(n) BY <1>k DEF Current, NameOf
  <2>3. ASSUME NEW m \in Builders PROVE Unstirred(m)' /\ (maker[m].at # "idle" => Known(maker[m].name))'
    <3>1. PICK n : n = maker'[m].name OBVIOUS
    <3>2. SUFFICES maker'[m].at # "idle" => Known(n)' /\ (m \notin stirred' => Current(n)')
      BY <3>1 DEF Unstirred, Known, Current, NameOf
    <3>3. CASE m = k BY <3>1, <3>3, <1>k, <2>1, <2>2
    <3>4. CASE m # k BY <3>1, <3>4, <1>i, <1>k, <2>1, <2>2 DEF Unstirred
    <3> QED BY <3>3, <3>4
  <2> QED BY <1>k, <2>3 DEF KnownInv, NewestIsKept
\* It keeps its name, or is idle; the rows and the names rest.
<1>g. ASSUME NEW k \in Builders, NEW row \in MakerRows, Becomes(k, row), UNCHANGED <<list, overtaken, stirred, wasted>>,
             row.at = "idle" \/ (row.name = maker[k].name /\ maker[k].at # "idle"),
             \A j \in BundleJobs : bundleJob'[j].status \in {"queued", "running"} =>
                                     Known(bundleJob'[j].name)
      PROVE  KnownInv'
  <2>1. \A n : Known(n) => Known(n)' BY <1>g DEF Known, Current, NameOf
  <2>2. row.at # "idle" => Known(row.name) /\ (k \notin stirred' => Current(row.name)) BY <1>i, <1>g DEF Unstirred
  <2> QED BY <1>i, <1>k, <1>g, <2>1, <2>2
<1>1. CASE ListStep
  <2>1. UNCHANGED <<maker, bundleJob, wasted>> BY <1>0, <1>1, ListStepIs
  <2>2. \A j \in BundleJobs : (bundleJob[j].status \in {"queued", "running"} => Known(bundleJob[j].name))'
    BY <1>0, <1>1, <1>i, <2>1, KnownOn
  <2>3. \A k \in Builders : Unstirred(k)' /\ (maker[k].at # "idle" => Known(maker[k].name))'
    BY <1>0, <1>1, <1>i, <2>1, KnownOn
  <2> QED BY <1>i, <2>1, <2>2, <2>3 DEF KnownInv, NewestIsKept
<1>2. ASSUME NEW r \in Inliners, NEW l \in Lists, Ask(r, l) PROVE KnownInv'
  <2>0. PICK n : n = NameOf(l) OBVIOUS
  <2>1. n \in Names /\ n[2] \subseteq Frames BY <1>0, <1>2, <2>0, ListNamed DEF Ask, Names
  <2>2. PICK row : /\ row = [at |-> IF Exists(n) THEN "send" ELSE IF Small(n) THEN "open" ELSE "look",
                             name |-> n, puts |-> n[2]]
                   /\ Becomes(r, row) BY <1>2, <2>0 DEF Ask, Becomes
  <2>3. row \in MakerRows /\ row.name = n BY <2>1, <2>2 DEF MakerRows, MakerPlaces
  <2>4. /\ r \in Builders /\ UNCHANGED <<list, overtaken, bundleJob, wasted>> /\ stirred' = stirred \ {r}
    BY <1>2 DEF Ask, Builders
  <2>5. Current(n) /\ Known(n) BY <2>0 DEF Current, Known
  <2>6. \A m : Known(m) => Known(m)' BY <2>4 DEF Known, Current, NameOf
  <2> QED BY <1>k, <1>i, <2>2, <2>3, <2>4, <2>5, <2>6
<1>3. ASSUME NEW r \in Inliners, LookForJob(r) PROVE KnownInv'
  <2>1. /\ r \in Builders /\ UNCHANGED <<list, overtaken, stirred, wasted, bundleJob>> /\ maker[r].at # "idle"
        /\ \E p \in MakerPlaces : Goto(r, p) BY <1>3 DEF LookForJob, Builders, past, MakerPlaces
  <2> QED BY <1>0, <1>g, <1>i, <2>1, BuilderGoes
<1>4. ASSUME NEW r \in Inliners, EnqueueBundle(r) PROVE KnownInv'
  <2>1. /\ r \in Builders /\ UNCHANGED <<list, stirred, wasted>> /\ maker[r].at = "enqueue"
        /\ Goto(r, "wait")
        /\ overtaken' = IF Current(maker[r].name) THEN overtaken \ {maker[r].name} ELSE overtaken
    BY <1>4 DEF EnqueueBundle, Builders
  <2>2. PICK row \in MakerRows : Becomes(r, row) /\ row.at = "wait" /\ row.name = maker[r].name
    BY <1>0, <2>1, BuilderGoes DEF MakerPlaces
  <2>3. PICK j \in BundleJobs :
             bundleJob' = [bundleJob EXCEPT ![j] = [status |-> "queued", name |-> maker[r].name]]
    BY <1>4 DEF EnqueueBundle
  <2>4. bundleJob'[j].name = maker[r].name /\ \A i \in BundleJobs \ {j} : bundleJob'[i] = bundleJob[i]
    BY <1>0, <2>3 DEF BundlesTyped
  <2>5. \A n : Known(n) => Known(n)' BY <2>1 DEF Known, Current, NameOf
  <2>6. Known(maker[r].name) /\ (r \notin stirred => Current(maker[r].name)) BY <1>i, <2>1 DEF Unstirred
  <2>7. \A i \in BundleJobs : bundleJob'[i].status \in {"queued", "running"} => Known(bundleJob'[i].name)
    BY <1>i, <2>4, <2>6
  <2> QED BY <1>k, <1>i, <2>1, <2>2, <2>5, <2>6, <2>7
<1>5. ASSUME NEW r \in Inliners, PollBundle(r) \/ Leave(r) PROVE KnownInv'
  <2>1. Becomes(r, NoMaker) /\ UNCHANGED <<list, overtaken, stirred, wasted, bundleJob>> /\ r \in Builders
    BY <1>5 DEF PollBundle, Leave, Becomes, Builders, past
  <2> QED BY <1>g, <1>i, <2>1, IdleMaker
<1>6. ASSUME NEW j \in BundleJobs, BundleJobBegins(j) PROVE KnownInv'
  <2>0. PICK n \in Names : n = bundleJob[j].name BY <1>0, <1>6 DEF BundleJobBegins, JobNamed
  <2>1. /\ bundleJob[j].status = "queued" /\ UNCHANGED <<list, overtaken, wasted>> /\ j \in Builders
    BY <1>6 DEF BundleJobBegins, Builders
  <2>2. Known(n) BY <1>i, <2>0, <2>1
  <2>3. \A m : Known(m) => Known(m)' BY <2>1 DEF Known, Current, NameOf
  <2>4. PICK s \in {"done", "running"} : bundleJob' = [bundleJob EXCEPT ![j].status = s] BY <1>6 DEF BundleJobBegins
  <2>5. \A i \in BundleJobs : bundleJob'[i].status \in {"queued", "running"} => Known(bundleJob'[i].name)
    <3>1. bundleJob'[j].name = n /\ \A i \in BundleJobs \ {j} : bundleJob'[i] = bundleJob[i]
      BY <1>0, <2>0, <2>4, RowTurns
    <3> QED BY <1>i, <2>2, <3>1
  <2>6. CASE Exists(n) \/ ~Current(n)
    <3>1. UNCHANGED <<maker, stirred>> BY <1>6, <2>0, <2>6 DEF BundleJobBegins
    <3>2. ASSUME NEW k \in Builders
          PROVE  Unstirred(k)' /\ (maker[k].at # "idle" => Known(maker[k].name))'
      BY <1>i, <2>1, <2>3, <3>1 DEF Unstirred, Current, NameOf
    <3> QED BY <1>i, <2>1, <2>3, <2>5, <3>2 DEF KnownInv, NewestIsKept
  <2>7. CASE ~(Exists(n) \/ ~Current(n))
    <3>1. PICK row : row = [at |-> "open", name |-> n, puts |-> Rows(n)] /\ Becomes(j, row)
      BY <1>6, <2>0, <2>7 DEF BundleJobBegins, Becomes
    <3>2. Rows(n) \subseteq Frames BY DEF Rows, Names
    <3>3. row \in MakerRows /\ row.name = n BY <3>1, <3>2 DEF MakerRows, MakerPlaces
    <3>4. stirred' = stirred \ {j} BY <1>6, <2>0, <2>7 DEF BundleJobBegins
    <3> QED BY <1>k, <1>i, <2>1, <2>2, <2>3, <2>5, <2>7, <3>1, <3>3, <3>4
  <2> QED BY <2>6, <2>7
<1>7. ASSUME NEW k \in Builders, OpenPart(k) \/ ClosePart(k) \/ RenamePart(k) PROVE KnownInv'
  <2>1. /\ UNCHANGED <<list, overtaken, stirred, wasted, bundleJob>> /\ maker[k].at # "idle"
        /\ \E p \in MakerPlaces : Goto(k, p) BY <1>7 DEF OpenPart, ClosePart, RenamePart, past, MakerPlaces
  <2> QED BY <1>0, <1>g, <1>i, <2>1, BuilderGoes
<1>9. ASSUME NEW k \in Builders, WriteRaises(k) \/ RenameRaises(k) PROVE KnownInv'
  <2>1. /\ BuildRaisesAt(k) /\ UNCHANGED <<list, overtaken, stirred, wasted>> /\ maker[k].at # "idle"
    BY <1>9 DEF WriteRaises, RenameRaises, BuildRaisesAt, past
  <2>2. ASSUME NEW j \in BundleJobs, bundleJob'[j].status \in {"queued", "running"}
        PROVE  Known(bundleJob'[j].name)
    <3>1. CASE j = k BY <3>1, <1>0, <1>i, <2>1, <2>2, Raised DEF MakerOwns
    <3>2. CASE j # k BY <3>2, <1>0, <1>i, <2>1, <2>2, Raised
    <3> QED BY <3>1, <3>2
  <2> QED BY <1>0, <1>g, <2>1, <2>2, Raised, IdleMaker
<1>11. ASSUME NEW k \in Builders, PruneFamily(k) PROVE KnownInv'
  <2>0. PICK n \in Names : n = maker[k].name BY <1>0, <1>11 DEF PruneFamily, MakerOwns
  <2>1. PICK out : out = {m \in Names : m[1] = n[1] /\ m # n /\ Exists(m)} OBVIOUS
  <2>2. PICK asked : asked = {NameOf(l) : l \in {m \in Lists : FamilyOf[m] = n[1]}} OBVIOUS
  <2>3. /\ maker[k].at = "prune" /\ UNCHANGED <<list, stirred>> /\ overtaken' = overtaken \cup out
        /\ wasted' = (wasted \/ (k \notin stirred /\ Cardinality(asked) = 1 /\ asked \subseteq out))
        /\ IF k \in BundleJobs
           THEN Becomes(k, NoMaker) /\ bundleJob' = [bundleJob EXCEPT ![k].status = "done"]
           ELSE Goto(k, "send") /\ UNCHANGED bundleJob BY <1>11, <2>0, <2>1, <2>2 DEF PruneFamily, Becomes
  <2>4. ~wasted'
    <3>1. SUFFICES ASSUME k \notin stirred, asked \subseteq out PROVE FALSE BY <1>i, <2>3
    <3>2. PICK l \in Lists : NameOf(l) = n BY <1>i, <2>0, <2>3, <3>1 DEF Unstirred, Current
    <3>3. n \in asked BY <2>2, <3>2 DEF NameOf
    <3> QED BY <2>1, <3>1, <3>3
  <2>5. \A m : Known(m) => Known(m)' BY <2>3 DEF Known, Current, NameOf
  <2>6. Known(n) /\ (k \notin stirred => Current(n)) BY <1>i, <2>0, <2>3 DEF Unstirred
  <2>7. CASE k \in BundleJobs
    <3>1. \A i \in BundleJobs : bundleJob'[i].status \in {"queued", "running"} => Known(bundleJob'[i].name)
      BY <1>0, <1>i, <2>3, <2>7, RowTurns
    <3> QED BY <1>k, <2>3, <2>4, <2>5, <2>7, <3>1, IdleMaker
  <2>8. CASE k \notin BundleJobs
    <3>1. PICK row \in MakerRows : Becomes(k, row) /\ row.name = n
      BY <1>0, <2>0, <2>3, <2>8, BuilderGoes DEF MakerPlaces
    <3> QED BY <1>k, <1>i, <2>3, <2>4, <2>5, <2>6, <2>8, <3>1
  <2> QED BY <2>7, <2>8
<1>12. CASE BundlesKill
  <2>1. /\ maker' = [k \in Builders |-> NoMaker] /\ UNCHANGED <<list, overtaken, wasted>>
        /\ bundleJob' = [j \in BundleJobs |-> IF bundleJob[j].status = "running"
                                              THEN [bundleJob[j] EXCEPT !.status = "queued"] ELSE bundleJob[j]]
    BY <1>12 DEF BundlesKill
  <2>2. \A n : Known(n) => Known(n)' BY <2>1 DEF Known, Current, NameOf
  <2>3. ASSUME NEW j \in BundleJobs
        PROVE  /\ bundleJob'[j].name = bundleJob[j].name
               /\ bundleJob'[j].status \in {"queued", "running"} => bundleJob[j].status \in {"queued", "running"}
    <3>1. bundleJob[j] \in BundleRows BY <1>0 DEF BundlesTyped
    <3>2. [bundleJob[j] EXCEPT !.status = "queued"].name = bundleJob[j].name BY <3>1 DEF BundleRows
    <3> QED BY <2>1, <3>2
  <2>4. \A k \in Builders : maker'[k].at = "idle" BY <2>1, IdleMaker
  <2> QED BY <1>i, <2>1, <2>2, <2>3, <2>4 DEF KnownInv, NewestIsKept, Unstirred
<1> QED BY <1>1, <1>2, <1>3, <1>4, <1>5, <1>6, <1>7, <1>9, <1>11, <1>12
        DEF BundlesNext, ListStep

\* Who answers for the names that are waited for.

\* Every name that was answered for still is, and nobody waits but for one that is.
LEMMA AnswerOn ==
  ASSUME AnswerInv, \A n \in Names : AnsweredOrDue(n) => AnsweredOrDue(n)',
         \A n \in Names : LiveFor(n)' => LiveFor(n) \/ AnsweredOrDue(n)',
         \A r \in Inliners : maker'[r].at = "wait" =>
           maker'[r] = maker[r] \/ AnsweredOrDue(maker[r].name)'
  PROVE  AnswerInv'
<1>1. SUFFICES ASSUME NEW n \in Names,
                      LiveFor(n)' \/ (\E r \in Inliners : maker'[r].at = "wait" /\ maker'[r].name = n)
               PROVE  AnsweredOrDue(n)' BY DEF AnswerInv
<1>2. CASE LiveFor(n)' BY <1>2 DEF AnswerInv
<1>3. ASSUME NEW r \in Inliners, maker'[r].at = "wait", maker'[r].name = n PROVE AnsweredOrDue(n)'
  <2>1. CASE maker'[r] = maker[r] BY <1>3, <2>1 DEF AnswerInv
  <2>2. CASE maker'[r] # maker[r]
    <3>1. AnsweredOrDue(maker[r].name)' BY <1>3, <2>2
    <3> QED BY <1>3, <3>1 DEF AnsweredOrDue, Exists, HasFailed, Working
  <2> QED BY <2>1, <2>2
<1> QED BY <1>1, <1>2, <1>3

LEMMA AnswerStep ==
  ASSUME BundlesInv, BundlesNext
  PROVE  AnswerInv'
<1>0. /\ OwnInv /\ FitInv /\ BundlesTyped /\ AnswerInv /\ (\A k \in Builders : MakerOwns(k))
      /\ bundle \in [Names -> InodeRows] /\ bundlePart \in [Names -> InodeRows]
      /\ (\A j \in BundleJobs : JobNamed(j))
      /\ (\A j \in BundleJobs : bundleJob[j].status \in {"queued", "running"} => Known(bundleJob[j].name))
  BY DEF BundlesInv, OwnInv, BundlesTyped, KnownInv
\* One builder moves; no row turns, no archive goes.
<1>k. ASSUME NEW k \in Builders, NEW row \in MakerRows, Becomes(k, row), bundleJob' = bundleJob,
             \A n \in Names : Exists(n) => Exists(n)', overtaken \subseteq overtaken',
             k \in BundleJobs /\ row.at = "prune" => Exists(bundleJob[k].name)',
             row.at = "wait" => row.name \in Names /\ AnsweredOrDue(row.name)
      PROVE  AnswerInv'
  <2>1. maker'[k] = row /\ \A m \in Builders \ {k} : maker'[m] = maker[m] BY <1>0, <1>k, BuilderBecomes
  <2>2. ASSUME NEW n \in Names, AnsweredOrDue(n) PROVE AnsweredOrDue(n)'
    <3>1. CASE Exists(n) BY <3>1, <1>k DEF AnsweredOrDue
    <3>2. CASE HasFailed(n) \/ n \in overtaken BY <3>2, <1>k DEF AnsweredOrDue, HasFailed
    <3>3. ASSUME NEW j \in BundleJobs, Working(j, n) PROVE AnsweredOrDue(n)'
      <4>1. CASE j = k /\ row.at = "prune"
        <5>1. bundleJob[k].name = n BY <3>3, <4>1 DEF Working
        <5>2. Exists(n)' BY <1>k, <4>1, <5>1 DEF Exists
        <5> QED BY <5>2 DEF AnsweredOrDue
      <4>2. CASE ~(j = k /\ row.at = "prune")
        <5>1. Working(j, n)' BY <1>k, <2>1, <3>3, <4>2 DEF Working, Builders
        <5> QED BY <5>1 DEF AnsweredOrDue
      <4> QED BY <4>1, <4>2
    <3> QED BY <2>2, <3>1, <3>2, <3>3 DEF AnsweredOrDue
  <2>3. ASSUME NEW r \in Inliners, maker'[r].at = "wait", maker'[r] # maker[r]
        PROVE  AnsweredOrDue(maker[r].name)'
    <3>1. r = k /\ row.at = "wait" BY <2>1, <2>3 DEF Builders
    <3>2. PICK n \in Names : n = row.name /\ AnsweredOrDue(n) BY <1>k, <3>1
    <3>3. AnsweredOrDue(n)' /\ maker'[r].name = n BY <2>1, <2>2, <3>1, <3>2
    <3> QED BY <3>3 DEF AnsweredOrDue, Exists, HasFailed, Working
  <2>4. \A n \in Names : LiveFor(n)' => LiveFor(n) BY <1>k DEF LiveFor
  <2> QED BY <1>0, <2>2, <2>3, <2>4, AnswerOn
<1>1. CASE ListStep
  <2>1. UNCHANGED <<maker, bundleJob, disk>> /\ overtaken \subseteq overtaken' BY <1>0, <1>1, ListStepIs DEF Stir
  <2>2. \A n \in Names : AnsweredOrDue(n) => AnsweredOrDue(n)' BY <2>1 DEF AnsweredOrDue, Exists, HasFailed, Working, disk
  <2>3. \A n \in Names : LiveFor(n)' => LiveFor(n) BY <2>1 DEF LiveFor
  <2> QED BY <1>0, <2>1, <2>2, <2>3, AnswerOn
<1>2. ASSUME NEW r \in Inliners, NEW l \in Lists, Ask(r, l) PROVE AnswerInv'
  <2>0. PICK n : n = NameOf(l) OBVIOUS
  <2>1. n \in Names /\ n[2] \subseteq Frames BY <1>0, <1>2, <2>0, ListNamed DEF Ask, Names
  <2>2. PICK row : /\ row = [at |-> IF Exists(n) THEN "send" ELSE IF Small(n) THEN "open" ELSE "look",
                             name |-> n, puts |-> n[2]]
                   /\ Becomes(r, row) BY <1>2, <2>0 DEF Ask, Becomes
  <2>3. row \in MakerRows /\ row.at \in {"send", "open", "look"} BY <2>1, <2>2 DEF MakerRows, MakerPlaces
  <2>4. r \in Builders /\ UNCHANGED <<overtaken, bundleJob, disk>> BY <1>2 DEF Ask, Builders
  <2>5. \A m \in Names : Exists(m) => Exists(m)' BY <2>4 DEF Exists, disk
  <2> QED BY <1>k, <2>2, <2>3, <2>4, <2>5
<1>3. ASSUME NEW r \in Inliners, LookForJob(r) PROVE AnswerInv'
  <2>0. PICK n \in Names : n = maker[r].name BY <1>0, <1>3 DEF LookForJob, MakerOwns, Builders
  <2>1. r \in Builders /\ UNCHANGED <<overtaken, bundleJob, disk>> BY <1>3 DEF LookForJob, Builders, past
  <2>2. PICK p \in {"wait", "enqueue"} : Goto(r, p) /\ (p = "wait" => LiveFor(n))
    <3>1. CASE LiveFor(n) BY <1>3, <2>0, <3>1 DEF LookForJob
    <3>2. CASE ~LiveFor(n) BY <1>3, <2>0, <3>2 DEF LookForJob
    <3> QED BY <3>1, <3>2
  <2>3. PICK row \in MakerRows : Becomes(r, row) /\ row.at = p /\ row.name = n
    BY <1>0, <2>0, <2>1, <2>2, BuilderGoes DEF MakerPlaces
  <2>4. row.at = "wait" => AnsweredOrDue(n) BY <1>0, <2>2, <2>3 DEF AnswerInv
  <2>5. \A m \in Names : Exists(m) => Exists(m)' BY <2>1 DEF Exists, disk
  <2>6. row.at # "prune" BY <2>2, <2>3
  <2> QED BY <1>k, <2>1, <2>3, <2>4, <2>5, <2>6
<1>4. ASSUME NEW r \in Inliners, EnqueueBundle(r) PROVE AnswerInv'
  <2>0. PICK n \in Names : n = maker[r].name BY <1>0, <1>4 DEF EnqueueBundle, MakerOwns, Builders
  <2>1. /\ r \in Builders /\ r \notin BundleJobs /\ UNCHANGED disk /\ Goto(r, "wait")
        /\ overtaken \ {n} \subseteq overtaken' BY <1>4, <2>0, BundlesAssumption DEF EnqueueBundle, Builders
  <2>2. PICK row \in MakerRows : Becomes(r, row) /\ row.at = "wait" /\ row.name = n
    BY <1>0, <2>0, <2>1, BuilderGoes DEF MakerPlaces
  <2>3. maker'[r] = row /\ \A m \in Builders \ {r} : maker'[m] = maker[m] BY <1>0, <2>1, <2>2, BuilderBecomes
  <2>4. PICK j \in BundleJobs :
             /\ bundleJob[j].status \in {"absent", "done"}
             /\ bundleJob' = [bundleJob EXCEPT ![j] = [status |-> "queued", name |-> n]]
    BY <1>4, <2>0 DEF EnqueueBundle
  <2>5. /\ bundleJob'[j] = [status |-> "queued", name |-> n]
        /\ \A i \in BundleJobs \ {j} : bundleJob'[i] = bundleJob[i] BY <1>0, <2>4 DEF BundlesTyped
  <2>6. maker'[j].at = "idle"
    <3>1. j \in Builders /\ maker[j].at = "idle" BY <1>0, <2>4 DEF MakerOwns, Builders
    <3> QED BY <2>1, <2>3, <3>1
  <2>7. Working(j, n)' BY <2>5, <2>6 DEF Working
  <2>8. ASSUME NEW m \in Names, AnsweredOrDue(m) PROVE AnsweredOrDue(m)'
    <3>1. CASE m = n BY <2>7, <3>1 DEF AnsweredOrDue
    <3>2. CASE m # n
      <4>1. CASE Exists(m) \/ m \in overtaken BY <2>1, <3>2, <4>1 DEF AnsweredOrDue, Exists, disk
      <4>2. CASE HasFailed(m) BY <2>4, <2>5, <4>2 DEF AnsweredOrDue, HasFailed
      <4>3. ASSUME NEW i \in BundleJobs, Working(i, m) PROVE AnsweredOrDue(m)'
        <5>1. i # j /\ i \in Builders /\ i # r BY <2>1, <2>4, <4>3 DEF Working, Builders
        <5>2. Working(i, m)' BY <2>3, <2>5, <4>3, <5>1 DEF Working
        <5> QED BY <5>2 DEF AnsweredOrDue
      <4> QED BY <2>8, <4>1, <4>2, <4>3 DEF AnsweredOrDue
    <3> QED BY <3>1, <3>2
  <2>9. \A m \in Names : LiveFor(m)' => LiveFor(m) \/ AnsweredOrDue(m)'
    <3>1. ASSUME NEW m \in Names, LiveFor(m)' PROVE LiveFor(m) \/ AnsweredOrDue(m)'
      <4>1. CASE m = n BY <2>7, <4>1 DEF AnsweredOrDue
      <4>2. CASE m # n BY <2>5, <3>1, <4>2 DEF LiveFor
      <4> QED BY <4>1, <4>2
    <3> QED BY <3>1
  <2>10. ASSUME NEW i \in Inliners, maker'[i].at = "wait", maker'[i] # maker[i]
         PROVE  AnsweredOrDue(maker[i].name)'
    <3>1. i = r BY <2>3, <2>10 DEF Builders
    <3>2. maker'[i].name = n /\ AnsweredOrDue(n)' BY <2>2, <2>3, <2>7, <3>1 DEF AnsweredOrDue
    <3> QED BY <3>2 DEF AnsweredOrDue, Exists, HasFailed, Working
  <2> QED BY <1>0, <2>8, <2>9, <2>10, AnswerOn
<1>5. ASSUME NEW r \in Inliners, PollBundle(r) \/ Leave(r) PROVE AnswerInv'
  <2>1. Becomes(r, NoMaker) /\ UNCHANGED <<overtaken, bundleJob, disk>> /\ r \in Builders
    BY <1>5 DEF PollBundle, Leave, Becomes, Builders, past
  <2>2. \A m \in Names : Exists(m) => Exists(m)' BY <2>1 DEF Exists, disk
  <2> QED BY <1>k, <2>1, <2>2, IdleMaker
<1>6. ASSUME NEW j \in BundleJobs, BundleJobBegins(j) PROVE AnswerInv'
  <2>0. PICK n \in Names : n = bundleJob[j].name BY <1>0, <1>6 DEF BundleJobBegins, JobNamed
  <2>1. bundleJob[j].status = "queued" /\ UNCHANGED <<list, overtaken, disk>> /\ j \in Builders
    BY <1>6 DEF BundleJobBegins, Builders
  <2>2. PICK s \in {"done", "running"} : /\ bundleJob' = [bundleJob EXCEPT ![j].status = s]
                                         /\ s = "done" => maker' = maker /\ (Exists(n) \/ ~Current(n))
                                         /\ s = "running" => \E p : Becomes(j, [at |-> "open", name |-> n, puts |-> p])
    <3>1. CASE Exists(n) \/ ~Current(n) BY <1>6, <2>0, <3>1 DEF BundleJobBegins
    <3>2. CASE ~(Exists(n) \/ ~Current(n)) BY <1>6, <2>0, <3>2 DEF BundleJobBegins, Becomes
    <3> QED BY <3>1, <3>2
  <2>3. /\ bundleJob'[j].name = n /\ bundleJob'[j].status = s
        /\ \A i \in BundleJobs \ {j} : bundleJob'[i] = bundleJob[i] BY <1>0, <2>0, <2>2, RowTurns
  <2>4. maker'[j].at # "prune" /\ \A k \in Builders \ {j} : maker'[k] = maker[k]
    <3>1. CASE s = "done" BY <1>0, <2>1, <2>2, <3>1 DEF MakerOwns
    <3>2. CASE s = "running" BY <1>0, <2>1, <2>2, <3>2 DEF Becomes, BundlesTyped
    <3> QED BY <3>1, <3>2
  <2>5. ASSUME s = "done" PROVE Exists(n)' \/ n \in overtaken' BY <1>0, <2>0, <2>1, <2>2, <2>5 DEF Known, Exists, disk
  <2>6. ASSUME NEW m \in Names, AnsweredOrDue(m) PROVE AnsweredOrDue(m)'
    <3>1. CASE Exists(m) \/ m \in overtaken BY <2>1, <3>1 DEF AnsweredOrDue, Exists, disk
    <3>2. CASE HasFailed(m) BY <2>1, <2>3, <3>2 DEF AnsweredOrDue, HasFailed
    <3>3. ASSUME NEW i \in BundleJobs, Working(i, m) PROVE AnsweredOrDue(m)'
      <4>1. CASE i # j
        <5>1. Working(i, m)' BY <2>3, <2>4, <3>3, <4>1 DEF Working, Builders
        <5> QED BY <5>1 DEF AnsweredOrDue
      <4>2. CASE i = j /\ s = "done" BY <2>0, <2>5, <3>3, <4>2 DEF Working, AnsweredOrDue
      <4>3. CASE i = j /\ s = "running"
        <5>1. Working(i, m)' BY <2>0, <2>3, <2>4, <3>3, <4>3 DEF Working
        <5> QED BY <5>1 DEF AnsweredOrDue
      <4> QED BY <2>2, <4>1, <4>2, <4>3
    <3> QED BY <2>6, <3>1, <3>2, <3>3 DEF AnsweredOrDue
  <2>7. \A m \in Names : LiveFor(m)' => LiveFor(m) BY <2>0, <2>1, <2>3 DEF LiveFor
  <2>8. \A r \in Inliners : maker'[r] = maker[r] BY <2>4, BundlesAssumption DEF Builders
  <2> QED BY <1>0, <2>6, <2>7, <2>8, AnswerOn
<1>7. ASSUME NEW k \in Builders, OpenPart(k) PROVE AnswerInv'
  <2>1. Goto(k, "write") /\ UNCHANGED <<bundleJob, overtaken, bundle>> BY <1>7 DEF OpenPart
  <2>2. \A m \in Names : Exists(m) => Exists(m)' BY <2>1 DEF Exists
  <2> QED BY <1>0, <1>k, <2>1, <2>2, BuilderGoes DEF MakerPlaces
<1>8. ASSUME NEW k \in Builders, ClosePart(k) PROVE AnswerInv'
  <2>1. PICK n \in Names : n = maker[k].name BY <1>0, <1>8 DEF ClosePart, MakerOwns
  <2>2. /\ Goto(k, "rename") /\ UNCHANGED <<bundleJob, overtaken>>
        /\ bundle' = [bundle EXCEPT ![n] = Closed(bundle[n], k)] BY <1>8, <1>0, <2>1 DEF ClosePart, past
  <2>3. \A i \in InodeRows : i.state # "none" => Closed(i, k).state # "none" BY DEF Closed, InodeRows
  <2>4. \A m \in Names : Exists(m) => Exists(m)' BY <1>0, <2>2, <2>3 DEF Exists
  <2> QED BY <1>0, <1>k, <2>2, <2>4, BuilderGoes DEF MakerPlaces
<1>9. ASSUME NEW k \in Builders, WriteRaises(k) \/ RenameRaises(k) PROVE AnswerInv'
  <2>1. BuildRaisesAt(k) /\ UNCHANGED <<overtaken, disk>> /\ maker[k].at \in {"write", "rename"}
    BY <1>9 DEF WriteRaises, RenameRaises, BuildRaisesAt, past
  <2>2. Becomes(k, NoMaker) BY <1>0, <2>1, Raised
  <2>3. maker'[k].at = "idle" /\ \A m \in Builders \ {k} : maker'[m] = maker[m]
    BY <1>0, <2>2, BuilderBecomes, IdleMaker
  <2>4. CASE k \notin BundleJobs
    <3>1. bundleJob' = bundleJob BY <2>1, <2>4 DEF BuildRaisesAt
    <3>2. \A m \in Names : Exists(m) => Exists(m)' BY <2>1 DEF Exists, disk
    <3> QED BY <1>k, <2>1, <2>2, <2>4, <3>1, <3>2, IdleMaker
  <2>5. CASE k \in BundleJobs
    <3>0. bundleJob[k].status = "running" BY <1>0, <2>1, <2>5 DEF MakerOwns
    <3>1. /\ bundleJob'[k].name = bundleJob[k].name /\ bundleJob'[k].status \in {"queued", "failed"}
          /\ \A j \in BundleJobs \ {k} : bundleJob'[j] = bundleJob[j] BY <1>0, <2>1, <2>5, Raised
    <3>2. ASSUME NEW m \in Names, AnsweredOrDue(m) PROVE AnsweredOrDue(m)'
      <4>1. CASE Exists(m) \/ m \in overtaken BY <2>1, <4>1 DEF AnsweredOrDue, Exists, disk
      <4>2. CASE HasFailed(m) BY <3>0, <3>1, <4>2 DEF AnsweredOrDue, HasFailed
      <4>3. ASSUME NEW i \in BundleJobs, Working(i, m) PROVE AnsweredOrDue(m)'
        <5>1. CASE i # k
          <6>1. Working(i, m)' BY <2>3, <3>1, <4>3, <5>1 DEF Working, Builders
          <6> QED BY <6>1 DEF AnsweredOrDue
        <5>2. CASE i = k
          <6>1. bundleJob'[k].name = m BY <3>1, <4>3, <5>2 DEF Working
          <6>2. Working(k, m)' \/ HasFailed(m)' BY <2>3, <2>5, <3>1, <6>1 DEF Working, HasFailed
          <6> QED BY <2>5, <6>2 DEF AnsweredOrDue
        <5> QED BY <5>1, <5>2
      <4> QED BY <3>2, <4>1, <4>2, <4>3 DEF AnsweredOrDue
    <3>3. \A m \in Names : LiveFor(m)' => LiveFor(m) BY <3>0, <3>1 DEF LiveFor
    <3>4. \A r \in Inliners : maker'[r] = maker[r] BY <2>3, <2>5, BundlesAssumption DEF Builders
    <3> QED BY <1>0, <3>2, <3>3, <3>4, AnswerOn
  <2> QED BY <2>4, <2>5
<1>10. ASSUME NEW k \in Builders, RenamePart(k) PROVE AnswerInv'
  <2>1. PICK n \in Names : n = maker[k].name BY <1>0, <1>10 DEF RenamePart, MakerOwns
  <2>2. /\ maker[k].at = "rename" /\ Goto(k, "prune") /\ UNCHANGED <<bundleJob, overtaken>>
        /\ bundlePart[n].state # "none" /\ bundle' = [bundle EXCEPT ![n] = bundlePart[n]]
    BY <1>10, <2>1 DEF RenamePart, past
  <2>3. Exists(n)' /\ \A m \in Names : Exists(m) => Exists(m)' BY <1>0, <2>2 DEF Exists
  <2>4. k \in BundleJobs => Exists(bundleJob[k].name)'
    <3>1. SUFFICES ASSUME k \in BundleJobs PROVE Exists(bundleJob[k].name)' OBVIOUS
    <3>2. bundleJob[k].name = n BY <1>0, <2>1, <2>2, <3>1 DEF MakerOwns
    <3>3. bundleJob'[k].name = n BY <2>2, <3>2
    <3> QED BY <2>3, <3>3 DEF Exists
  <2> QED BY <1>0, <1>k, <2>2, <2>3, <2>4, BuilderGoes DEF MakerPlaces
<1>11. ASSUME NEW k \in Builders, PruneFamily(k) PROVE AnswerInv'
  <2>0. PICK n \in Names : n = maker[k].name BY <1>0, <1>11 DEF PruneFamily, MakerOwns
  <2>1. PICK out : out = {m \in Names : m[1] = n[1] /\ m # n /\ Exists(m)} OBVIOUS
  <2>2. /\ maker[k].at = "prune" /\ overtaken' = overtaken \cup out
        /\ bundle' = [m \in Names |-> IF m \in out THEN NoInode ELSE bundle[m]]
        /\ IF k \in BundleJobs
           THEN Becomes(k, NoMaker) /\ bundleJob' = [bundleJob EXCEPT ![k].status = "done"]
           ELSE Goto(k, "send") /\ UNCHANGED bundleJob BY <1>11, <2>0, <2>1 DEF PruneFamily, Becomes
  <2>3. PICK row \in MakerRows : Becomes(k, row) /\ row.at \in {"idle", "send"}
    BY <1>0, <2>2, IdleMaker, BuilderGoes DEF MakerPlaces
  <2>4. maker'[k] = row /\ \A m \in Builders \ {k} : maker'[m] = maker[m] BY <1>0, <2>3, BuilderBecomes
  <2>5. /\ \A j \in BundleJobs \ {k} : bundleJob'[j] = bundleJob[j]
        /\ k \in BundleJobs => /\ bundleJob'[k].status = "done" /\ bundleJob[k].status = "running"
    BY <1>0, <2>2, RowTurns DEF MakerOwns
  <2>6. ASSUME NEW m \in Names, AnsweredOrDue(m) PROVE AnsweredOrDue(m)'
    <3>1. CASE Exists(m)
      <4>1. CASE m \in out BY <2>2, <4>1 DEF AnsweredOrDue
      <4>2. CASE m \notin out BY <2>2, <3>1, <4>2 DEF AnsweredOrDue, Exists
      <4> QED BY <4>1, <4>2
    <3>2. CASE m \in overtaken BY <2>2, <3>2 DEF AnsweredOrDue
    <3>3. CASE HasFailed(m) BY <2>5, <3>3 DEF AnsweredOrDue, HasFailed
    <3>4. ASSUME NEW i \in BundleJobs, Working(i, m) PROVE AnsweredOrDue(m)'
      <4>1. i # k BY <2>2, <3>4 DEF Working
      <4>2. Working(i, m)' BY <2>4, <2>5, <3>4, <4>1 DEF Working, Builders
      <4> QED BY <4>2 DEF AnsweredOrDue
    <3> QED BY <2>6, <3>1, <3>2, <3>3, <3>4 DEF AnsweredOrDue
  <2>7. \A m \in Names : LiveFor(m)' => LiveFor(m) BY <2>5 DEF LiveFor
  <2>8. \A r \in Inliners : maker'[r].at = "wait" => maker'[r] = maker[r] BY <2>3, <2>4 DEF Builders
  <2> QED BY <1>0, <2>6, <2>7, <2>8, AnswerOn
<1>12. CASE BundlesKill
  <2> DEFINE Left(inode) == [inode EXCEPT !.by = IF inode.state = "torn" THEN NoBuilder ELSE inode.by]
  <2>1. /\ maker' = [k \in Builders |-> NoMaker] /\ overtaken' = overtaken
        /\ bundle' = [n \in Names |-> Left(bundle[n])]
        /\ bundleJob' = [j \in BundleJobs |-> IF bundleJob[j].status = "running"
                                              THEN [bundleJob[j] EXCEPT !.status = "queued"] ELSE bundleJob[j]]
    BY <1>12 DEF BundlesKill
  <2>2. \A i \in InodeRows : Left(i).state = i.state BY DEF InodeRows
  <2> HIDE DEF Left
  <2>3. \A n \in Names : Exists(n) => Exists(n)' BY <1>0, <2>1, <2>2 DEF Exists
  <2>4. ASSUME NEW j \in BundleJobs
        PROVE  /\ bundleJob'[j].name = bundleJob[j].name
               /\ bundleJob'[j].status \in {"queued", "running"} <=> bundleJob[j].status \in {"queued", "running"}
               /\ bundleJob[j].status = "failed" => bundleJob'[j].status = "failed"
    <3>1. bundleJob[j] \in BundleRows BY <1>0 DEF BundlesTyped
    <3>2. /\ [bundleJob[j] EXCEPT !.status = "queued"].name = bundleJob[j].name
          /\ [bundleJob[j] EXCEPT !.status = "queued"].status = "queued" BY <3>1 DEF BundleRows
    <3> QED BY <2>1, <3>2
  <2>5. \A k \in Builders : maker'[k].at = "idle" BY <2>1, IdleMaker
  <2>6. ASSUME NEW m \in Names, AnsweredOrDue(m) PROVE AnsweredOrDue(m)'
    <3>1. CASE Exists(m) \/ m \in overtaken BY <2>1, <2>3, <3>1 DEF AnsweredOrDue
    <3>2. CASE HasFailed(m) BY <2>4, <3>2 DEF AnsweredOrDue, HasFailed
    <3>3. ASSUME NEW i \in BundleJobs, Working(i, m) PROVE AnsweredOrDue(m)'
      <4>1. Working(i, m)' BY <2>4, <2>5, <3>3 DEF Working, Builders
      <4> QED BY <4>1 DEF AnsweredOrDue
    <3> QED BY <2>6, <3>1, <3>2, <3>3 DEF AnsweredOrDue
  <2>7. \A m \in Names : LiveFor(m)' => LiveFor(m) BY <2>4 DEF LiveFor
  <2>8. \A r \in Inliners : maker'[r].at # "wait" BY <2>5 DEF Builders
  <2> QED BY <1>0, <2>6, <2>7, <2>8, AnswerOn
<1> QED BY <1>1, <1>2, <1>3, <1>4, <1>5, <1>6, <1>7, <1>8, <1>9, <1>10, <1>11, <1>12
        DEF BundlesNext, ListStep

LEMMA BundlesInitially ==
  ASSUME BundlesInit
  PROVE  BundlesInv
<1>1. BundlesTyped
  <2>1. NoInode \in InodeRows BY DEF NoInode, InodeRows
  <2>2. [status |-> "absent", name |-> NoName] \in BundleRows BY DEF BundleRows
  <2> QED BY <2>1, <2>2, IdleMaker DEF BundlesInit, BundlesTyped
<1>2. /\ \A k \in Builders : maker[k].at = "idle"
      /\ \A j \in BundleJobs : bundleJob[j].status = "absent"
      /\ \A n \in Names : bundle[n].state = "none" /\ bundlePart[n].state = "none"
      /\ \A l \in Lists : list[l] = {}
      /\ ~wasted BY IdleMaker DEF BundlesInit, NoInode
<1>3. OwnInv BY <1>1, <1>2 DEF OwnInv, MakerOwns, JobNamed
<1>4. FitInv BY <1>2 DEF FitInv, AllThere
<1>5. AloneInv
  <2>1. \A n : Writers(n) = {} BY <1>2 DEF Writers
  <2> QED BY <1>2, <2>1 DEF AloneInv, AloneAt
<1>6. KnownInv BY <1>2 DEF KnownInv, Unstirred, NewestIsKept
<1>7. AnswerInv BY <1>2 DEF AnswerInv, LiveFor, Builders
<1> QED BY <1>3, <1>4, <1>5, <1>6, <1>7 DEF BundlesInv

\* The invariant survives every step.
LEMMA BundlesStep ==
  ASSUME BundlesInv, [BundlesNext]_bundleVars
  PROVE  BundlesInv'
<1>1. CASE BundlesNext BY <1>1, OwnStep, FitStep, AloneStep, KnownStep, AnswerStep DEF BundlesInv
<1>2. CASE UNCHANGED bundleVars
  <2>1. OwnInv' BY <1>2 DEF bundleVars, BundlesInv, OwnInv, BundlesTyped, MakerOwns, JobNamed
  <2>2. FitInv' BY <1>2 DEF bundleVars, BundlesInv, FitInv, AllThere, Fits
  <2>3. AloneInv' BY <1>2 DEF bundleVars, BundlesInv, AloneInv, AloneAt, Writers
  <2>4. KnownInv' BY <1>2 DEF bundleVars, BundlesInv, KnownInv, Unstirred, Known, Current, NameOf, NewestIsKept
  <2>5. AnswerInv' BY <1>2 DEF bundleVars, BundlesInv, AnswerInv, LiveFor, AnsweredOrDue, Exists, HasFailed, Working
  <2> QED BY <2>1, <2>2, <2>3, <2>4, <2>5 DEF BundlesInv
<1> QED BY <1>1, <1>2

\* It says what the module promises.
LEMMA BundlesMeans ==
  ASSUME BundlesInv
  PROVE  BundlesTypeOK /\ BundleMatches /\ TornOnlyByTwins /\ NewestIsKept /\ WaitHasAnAnswer
<1>0. /\ BundlesTyped /\ FitInv /\ AloneInv /\ KnownInv /\ AnswerInv
      /\ (\A k \in Builders : MakerOwns(k)) /\ (\A j \in BundleJobs : JobNamed(j)) BY DEF BundlesInv, OwnInv
<1>1. BundlesTypeOK
  <2>1. \A n \in Names : \A i \in {bundle[n], bundlePart[n]} :
          /\ i.state \in {"none", "torn", "whole"} /\ i.by \in Builders \cup {NoBuilder}
          /\ i.holds \subseteq Frames BY <1>0 DEF BundlesTyped, InodeRows
  <2>2. \A k \in Builders : maker[k].name \in Names \cup {NoName} BY <1>0 DEF BundlesTyped, MakerRows
  <2> QED BY <1>0, <2>1, <2>2 DEF BundlesTypeOK, BundlesTyped, BundleRows
<1>2. BundleMatches
  <2>1. SUFFICES ASSUME NEW l \in Lists, list[l] # {}, Exists(NameOf(l))
                 PROVE  bundle[NameOf(l)].holds = list[l] BY DEF BundleMatches
  <2>2. PICK n \in Names : n = NameOf(l) BY <1>0, <2>1, ListNamed
  <2>3. n[2] = list[l] BY <2>2 DEF NameOf
  <2>4. Fits(n, bundle[n].holds) BY <1>0, <2>1, <2>2 DEF FitInv, Exists
  <2>5. AllThere(l) BY <1>0 DEF FitInv
  <2> QED BY <2>2, <2>3, <2>4, <2>5 DEF Fits, AllThere
<1>3. TornOnlyByTwins BY <1>0 DEF TornOnlyByTwins, AloneInv, AloneAt
<1>4. WaitHasAnAnswer
  <2>1. SUFFICES ASSUME NEW r \in Inliners, maker[r].at = "wait"
                 PROVE  \E n \in Names : n = maker[r].name /\ (AnsweredFor(n) \/ LiveFor(n) \/ n \in overtaken)
    BY DEF WaitHasAnAnswer
  <2>2. PICK n \in Names : n = maker[r].name BY <1>0, <2>1 DEF MakerOwns, Builders
  <2>3. AnsweredOrDue(n) BY <1>0, <2>1, <2>2 DEF AnswerInv
  <2> QED BY <2>2, <2>3 DEF AnsweredOrDue, AnsweredFor, Working, LiveFor
<1> QED BY <1>0, <1>1, <1>2, <1>3, <1>4 DEF KnownInv
(* Uploads: the files of a gallery and their rows; the cuts of a clip.     *)

StreamRows  == [at : {"idle", "mkdir", "save"}, drawer : Drawers \cup {NoDrawer}, saved : SUBSET Originals]
RemoverRows == [at : {"idle", "row", "rmtree"}, asset : Originals \cup {NoOriginal}]
ClipRows    == [state : {"none", "torn", "whole"}, by : ClipJobs \cup {NoEncoder}]
WorkRows    == [at : {"idle", "next", "encode"}, todo : SUBSET Cuts, now : Cuts \cup {""}]

FilingTyped ==
  /\ room \in [row : BOOLEAN, dir : BOOLEAN, gen : 0..1] /\ drawer \subseteq Drawers
  /\ masters \subseteq Originals /\ masterRow \in [Originals -> {"none", "there", "gone"}]
  /\ stream \in [Streams -> StreamRows] /\ remover \in [Removers -> RemoverRows]
  /\ stray \subseteq Originals /\ swept \subseteq Originals
EncodingTyped ==
  /\ clip \in {"ready", "gone"} /\ cut \in [Cuts -> {"none", "pending", "ready", "failed"}]
  /\ clipFile \in [Cuts -> ClipRows] /\ clipJob \in [ClipJobs -> {"none", "queued", "running", "done"}]
  /\ encoder \in [ClipJobs -> WorkRows] /\ pressing \in BOOLEAN /\ rivals \subseteq Cuts

\* What an upload has saved is its own, has no row yet, and is on disk or was swept.
SavedAlone ==
  /\ \A u \in Streams : stream[u].at # "save" => stream[u].saved = {}
  /\ \A u, v \in Streams : u # v => stream[u].saved \cap stream[v].saved = {}
  /\ \A u \in Streams : \A o \in stream[u].saved : masterRow[o] = "none" /\ o \in masters \cup swept
\* Whose row is about to go: it was there, and its file is gone already.
Removing(d) ==
  /\ remover[d].at = "row" => /\ remover[d].asset \in Originals \ masters
                              /\ masterRow[remover[d].asset] # "none"
  /\ remover[d].asset # NoOriginal => remover[d].at = "row"
FilingInv ==
  /\ FilingTyped /\ SavedAlone /\ (\A d \in Removers : Removing(d))
  /\ RowHasItsOriginal /\ OriginalHasItsRow

\* A cut a job has still to encode, or encodes.
HasCut(j, c) == c \in encoder[j].todo \/ (encoder[j].at = "encode" /\ encoder[j].now = c)
\* A cut without rivals: one job has it, its row says so, and the file is that job's.
OneHas(c) == \A j, k \in ClipJobs : HasCut(j, c) /\ HasCut(k, c) => j = k
RowWaits(c) == clip = "ready" /\ (\E j \in ClipJobs : HasCut(j, c)) => cut[c] = "pending"
FileIsOf(c) ==
  \A j \in ClipJobs : encoder[j].at = "encode" /\ encoder[j].now = c =>
                        clipFile[c].by = j \/ clipFile[c].state = "none"
ReadyIsWhole(c) == clip = "ready" /\ cut[c] = "ready" => clipFile[c].state # "torn"
EncodingInv ==
  /\ EncodingTyped
  /\ \A j \in ClipJobs : encoder[j].at = "encode" => encoder[j].now \in Cuts \ encoder[j].todo
  /\ \A c \in Cuts \ rivals : OneHas(c) /\ RowWaits(c) /\ FileIsOf(c) /\ ReadyIsWhole(c)

UploadsInv == FilingInv /\ EncodingInv

\* One upload moves.
LEMMA StreamMoves ==
  ASSUME FilingTyped, NEW u \in Streams, NEW row \in StreamRows, stream' = [stream EXCEPT ![u] = row]
  PROVE  /\ stream' \in [Streams -> StreamRows] /\ stream'[u] = row
         /\ \A v \in Streams \ {u} : stream'[v] = stream[v]
BY DEF FilingTyped

\* One deletion moves.
LEMMA RemoverMoves ==
  ASSUME FilingTyped, NEW d \in Removers, NEW row \in RemoverRows, remover' = [remover EXCEPT ![d] = row]
  PROVE  /\ remover' \in [Removers -> RemoverRows] /\ remover'[d] = row
         /\ \A e \in Removers \ {d} : remover'[e] = remover[e]
BY DEF FilingTyped

\* One job moves.
LEMMA EncoderMoves ==
  ASSUME EncodingTyped, NEW j \in ClipJobs, NEW row \in WorkRows, encoder' = [encoder EXCEPT ![j] = row]
  PROVE  /\ encoder' \in [ClipJobs -> WorkRows] /\ encoder'[j] = row
         /\ \A k \in ClipJobs \ {j} : encoder'[k] = encoder[k]
BY DEF EncodingTyped

LEMMA EncodersRest ==
  /\ NoStream \in StreamRows /\ NoRemover \in RemoverRows /\ NoWork \in WorkRows
  /\ NoStream.saved = {} /\ NoRemover.at = "idle" /\ NoRemover.asset = NoOriginal
  /\ NoWork.at = "idle" /\ NoWork.todo = {}
BY DEF NoStream, StreamRows, NoRemover, RemoverRows, NoWork, WorkRows

LEMMA SavedIs ==
  \A o : o \in Saved <=> \E u \in Streams : o \in stream[u].saved
BY DEF Saved

\* The steps of uploads, sections and deletions.
FilingStep ==
  \/ \E u \in Streams : \/ Preflight(u) \/ MakeDirs(u) \/ CommitUploads(u) \/ UploadRaises(u)
                        \/ \E o \in Originals : SaveFile(u, o)
  \/ \E s \in Drawers : DeleteDrawer(s)
  \/ \E d \in Removers : \/ DeleteRow(d) \/ DeleteRoomRow(d) \/ RemoveTree(d)
                         \/ \E o \in Originals : DeleteOriginal(d, o)
  \/ ReuseId

\* Files and rows.
LEMMA FilingKept ==
  ASSUME FilingInv, FilingStep
  PROVE  FilingInv'
<1> USE UploadsAssumption
<1>0. /\ FilingTyped /\ SavedAlone /\ (\A d \in Removers : Removing(d)) /\ RowHasItsOriginal /\ OriginalHasItsRow
      /\ room \in [row : BOOLEAN, dir : BOOLEAN, gen : 0..1]
      /\ masterRow \in [Originals -> {"none", "there", "gone"}] /\ masters \subseteq Originals
      /\ \A u \in Streams : stream[u] \in StreamRows
      /\ \A d \in Removers : remover[d] \in RemoverRows BY DEF FilingInv, FilingTyped
\* An upload that saves nothing new, or has nothing more to do with what it saved.
<1>u. ASSUME NEW u \in Streams, NEW row \in StreamRows, stream' = [stream EXCEPT ![u] = row],
             row.saved = stream[u].saved, row.at # "save" => row.saved = {},
             UNCHANGED <<masters, masterRow, remover, stray, swept, drawer>>,
             room' \in [row : BOOLEAN, dir : BOOLEAN, gen : 0..1]
      PROVE  FilingInv'
  <2>1. /\ stream' \in [Streams -> StreamRows]
        /\ \A v \in Streams : stream'[v].saved = stream[v].saved /\ (v = u \/ stream'[v] = stream[v])
        /\ stream'[u] = row BY <1>0, <1>u, StreamMoves
  <2>2. FilingTyped' BY <1>0, <1>u, <2>1 DEF FilingTyped
  <2>3. SavedAlone' BY <1>0, <1>u, <2>1 DEF SavedAlone
  <2>4. \A d \in Removers : Removing(d)' BY <1>0, <1>u DEF Removing
  <2>5. RowHasItsOriginal' BY <1>0, <1>u DEF RowHasItsOriginal
  <2>6. \A o : o \in Saved => o \in Saved' BY <2>1, SavedIs DEF Saved
  <2>7. OriginalHasItsRow' BY <1>0, <1>u, <2>6 DEF OriginalHasItsRow
  <2> QED BY <2>2, <2>3, <2>4, <2>5, <2>7 DEF FilingInv
<1>1. ASSUME NEW u \in Streams, Preflight(u) PROVE FilingInv'
  <2>1. PICK s \in Drawers \cup {NoDrawer} :
             stream' = [stream EXCEPT ![u] = [at |-> "mkdir", drawer |-> s, saved |-> {}]]
    BY <1>0, <1>1 DEF Preflight, FilingTyped
  <2>2. stream[u].saved = {} /\ UNCHANGED <<room, drawer, masters, masterRow, remover, stray, swept>>
    BY <1>0, <1>1 DEF Preflight, SavedAlone
  <2>3. [at |-> "mkdir", drawer |-> s, saved |-> {}] \in StreamRows BY DEF StreamRows
  <2> QED BY <1>0, <1>u, <2>1, <2>2, <2>3
<1>2. ASSUME NEW u \in Streams, MakeDirs(u) PROVE FilingInv'
  <2>1. [stream[u] EXCEPT !.at = "save"] \in StreamRows
        /\ [stream[u] EXCEPT !.at = "save"].saved = stream[u].saved
        /\ [stream[u] EXCEPT !.at = "save"].at = "save" BY <1>0 DEF StreamRows
  <2>2. /\ stream' = [stream EXCEPT ![u] = [stream[u] EXCEPT !.at = "save"]]
        /\ room' = [room EXCEPT !.dir = TRUE] /\ UNCHANGED <<drawer, masters, masterRow, remover, stray, swept>>
    BY <1>0, <1>2 DEF MakeDirs, StreamAt, FilingTyped
  <2>3. room' \in [row : BOOLEAN, dir : BOOLEAN, gen : 0..1] BY <1>0, <2>2
  <2> QED BY <1>u, <2>1, <2>2, <2>3
<1>3. ASSUME NEW u \in Streams, NEW o \in Originals, SaveFile(u, o) PROVE FilingInv'
  <2>0. PICK row : row = [stream[u] EXCEPT !.saved = stream[u].saved \cup {o}] OBVIOUS
  <2>1. row \in StreamRows /\ row.saved = stream[u].saved \cup {o} /\ row.at = stream[u].at
    BY <1>0, <2>0 DEF StreamRows
  <2>2. /\ stream' = [stream EXCEPT ![u] = row] /\ masters' = masters \cup {o}
        /\ o \notin masters \cup Saved \cup swept /\ masterRow[o] = "none" /\ stream[u].at = "save"
        /\ UNCHANGED <<room, drawer, masterRow, remover, stray, swept>> BY <1>0, <1>3, <2>0 DEF SaveFile, FilingTyped
  <2>3. /\ stream' \in [Streams -> StreamRows] /\ stream'[u] = row
        /\ \A v \in Streams \ {u} : stream'[v] = stream[v] BY <1>0, <2>1, <2>2, StreamMoves
  <2>4. FilingTyped' BY <1>0, <2>2, <2>3 DEF FilingTyped
  <2>5. SavedAlone'
    <3>1. \A v \in Streams : o \notin stream[v].saved BY <2>2, SavedIs
    <3>2. \A v \in Streams : v = u \/ stream'[v].saved = stream[v].saved BY <2>3
    <3>3. stream'[u].saved = stream[u].saved \cup {o} /\ stream'[u].at = "save" BY <2>1, <2>2, <2>3
    <3>4. \A v, w \in Streams : v # w => stream'[v].saved \cap stream'[w].saved = {}
      BY <1>0, <3>1, <3>2, <3>3 DEF SavedAlone
    <3>5. \A v \in Streams : \A x \in stream'[v].saved : masterRow[x] = "none" /\ x \in masters' \cup swept
      BY <1>0, <2>2, <3>2, <3>3 DEF SavedAlone
    <3>6. \A v \in Streams : stream'[v].at # "save" => stream'[v].saved = {} BY <1>0, <2>3, <3>3 DEF SavedAlone
    <3> QED BY <2>2, <3>4, <3>5, <3>6 DEF SavedAlone
  <2>6. \A d \in Removers : Removing(d)' BY <1>0, <2>2 DEF Removing
  <2>7. RowHasItsOriginal' BY <1>0, <2>2 DEF RowHasItsOriginal
  <2>8. \A x : x \in Saved \cup {o} => x \in Saved' BY <2>1, <2>2, <2>3, SavedIs DEF Saved
  <2>9. OriginalHasItsRow' BY <1>0, <2>2, <2>8 DEF OriginalHasItsRow
  <2> QED BY <2>4, <2>5, <2>6, <2>7, <2>9 DEF FilingInv
\* The upload ends: what it saved has rows now, or is not there any more.
<1>e. ASSUME NEW u \in Streams, StreamEnds(u), UNCHANGED <<room, drawer, remover, stray, swept>>,
             \/ /\ masterRow' = [o \in Originals |-> IF o \in stream[u].saved THEN "there" ELSE masterRow[o]]
                /\ masters' = masters
             \/ masters' = masters \ stream[u].saved /\ masterRow' = masterRow
      PROVE  FilingInv'
  <2>1. /\ stream' \in [Streams -> StreamRows] /\ stream'[u] = NoStream
        /\ \A v \in Streams \ {u} : stream'[v] = stream[v] BY <1>0, <1>e, StreamMoves, EncodersRest DEF StreamEnds
  <2>2. stream[u].saved \subseteq Originals BY <1>0 DEF StreamRows
  <2>3. FilingTyped' BY <1>0, <1>e, <2>1 DEF FilingTyped
  <2>4. \A v \in Streams \ {u} : \A x \in stream[v].saved : x \notin stream[u].saved BY <1>0 DEF SavedAlone
  <2>5. SavedAlone'
    <3>1. stream'[u].saved = {} BY <2>1, EncodersRest
    <3>2. \A v, w \in Streams : v # w => stream'[v].saved \cap stream'[w].saved = {}
      BY <1>0, <2>1, <3>1 DEF SavedAlone
    <3>3. \A v \in Streams : \A x \in stream'[v].saved : masterRow'[x] = "none" /\ x \in masters' \cup swept
      <4>1. SUFFICES ASSUME NEW v \in Streams, NEW x \in stream'[v].saved
                     PROVE  masterRow'[x] = "none" /\ x \in masters' \cup swept
        OBVIOUS
      <4>2. v # u /\ x \in stream[v].saved /\ x \notin stream[u].saved /\ x \in Originals
        BY <1>0, <2>1, <2>4, <3>1, <4>1 DEF StreamRows
      <4> QED BY <1>0, <1>e, <4>2 DEF SavedAlone
    <3>4. \A v \in Streams : stream'[v].at # "save" => stream'[v].saved = {} BY <1>0, <2>1, <3>1 DEF SavedAlone
    <3> QED BY <1>e, <3>2, <3>3, <3>4 DEF SavedAlone
  <2>6. \A d \in Removers : Removing(d)' BY <1>0, <1>e DEF Removing
  <2>7. \A o \in stream[u].saved : masterRow[o] = "none" /\ o \in masters \cup swept BY <1>0 DEF SavedAlone
  <2>8. RowHasItsOriginal' BY <1>0, <1>e, <2>7 DEF RowHasItsOriginal
  <2>9. \A x : x \in Saved => x \in stream[u].saved \/ x \in Saved' BY <2>1, SavedIs DEF Saved
  <2>10. OriginalHasItsRow' BY <1>0, <1>e, <2>9 DEF OriginalHasItsRow
  <2> QED BY <2>3, <2>5, <2>6, <2>8, <2>10 DEF FilingInv
<1>4. ASSUME NEW u \in Streams, CommitUploads(u) PROVE FilingInv' BY <1>e, <1>4 DEF CommitUploads
<1>5. ASSUME NEW u \in Streams, UploadRaises(u) PROVE FilingInv' BY <1>e, <1>5 DEF UploadRaises, Leftovers
<1>6. ASSUME NEW s \in Drawers, DeleteDrawer(s) PROVE FilingInv'
  <2>1. UNCHANGED <<room, masters, masterRow, stream, remover, stray, swept>> /\ drawer' \subseteq Drawers
    BY <1>0, <1>6 DEF DeleteDrawer, FilingTyped
  <2> QED BY <1>0, <2>1 DEF FilingInv, FilingTyped, SavedAlone, Removing, RowHasItsOriginal, OriginalHasItsRow, Saved
<1>7. CASE ReuseId
  <2>1. UNCHANGED <<drawer, masters, masterRow, stream, remover, stray, swept>>
        /\ room' = [room EXCEPT !.row = TRUE, !.gen = @ + 1] /\ room.gen < 1 BY <1>7 DEF ReuseId
  <2>2. room' \in [row : BOOLEAN, dir : BOOLEAN, gen : 0..1]
    <3>1. room.gen + 1 \in 0..1 /\ room.dir \in BOOLEAN BY <1>0, <2>1
    <3>2. room' = [row |-> TRUE, dir |-> room.dir, gen |-> room.gen + 1] BY <1>0, <2>1
    <3> HIDE DEF FilingStep
    <3> QED BY <3>1, <3>2
  <2> QED BY <1>0, <2>1, <2>2 DEF FilingInv, FilingTyped, SavedAlone, Removing, RowHasItsOriginal, OriginalHasItsRow, Saved
<1>8. ASSUME NEW d \in Removers, NEW o \in Originals, DeleteOriginal(d, o) PROVE FilingInv'
  <2>1. /\ remover' = [remover EXCEPT ![d] = [at |-> "row", asset |-> o]] /\ masters' = masters \ {o}
        /\ remover[d].at = "idle" /\ masterRow[o] = "there"
        /\ UNCHANGED <<room, drawer, masterRow, stream, stray, swept>> BY <1>8 DEF DeleteOriginal
  <2>2. [at |-> "row", asset |-> o] \in RemoverRows BY DEF RemoverRows
  <2>3. /\ remover' \in [Removers -> RemoverRows] /\ remover'[d] = [at |-> "row", asset |-> o]
        /\ \A e \in Removers \ {d} : remover'[e] = remover[e] BY <1>0, <2>1, <2>2, RemoverMoves
  <2>4. FilingTyped' BY <1>0, <2>1, <2>3 DEF FilingTyped
  <2>5. SavedAlone'
    <3>1. \A v \in Streams : o \notin stream[v].saved BY <1>0, <2>1 DEF SavedAlone
    <3> QED BY <1>0, <2>1, <3>1 DEF SavedAlone
  <2>6. \A e \in Removers : Removing(e)' BY <1>0, <2>1, <2>3 DEF Removing
  <2>7. RowHasItsOriginal'
    <3>1. SUFFICES ASSUME NEW x \in Originals, masterRow[x] = "there", x \notin masters' \cup swept
                   PROVE  \E e \in Removers : remover'[e].asset = x BY <2>1 DEF RowHasItsOriginal
    <3>2. CASE x = o BY <2>3, <3>2
    <3>3. CASE x # o
      <4>1. PICK e \in Removers : remover[e].asset = x BY <1>0, <2>1, <3>1, <3>3 DEF RowHasItsOriginal
      <4>2. e # d BY <1>0, <2>1, <4>1 DEF Removing
      <4> QED BY <2>3, <4>1, <4>2
    <3> QED BY <3>2, <3>3
  <2>8. OriginalHasItsRow'
    <3>1. SUFFICES ASSUME NEW x \in masters', masterRow[x] # "there", x \notin Saved \cup stray
                   PROVE  \E e \in Removers : remover'[e].at = "rmtree" BY <2>1 DEF OriginalHasItsRow, Saved
    <3>2. PICK e \in Removers : remover[e].at = "rmtree" BY <1>0, <2>1, <3>1 DEF OriginalHasItsRow
    <3> QED BY <2>1, <2>3, <3>2
  <2> QED BY <2>4, <2>5, <2>6, <2>7, <2>8 DEF FilingInv
<1>9. ASSUME NEW d \in Removers, DeleteRow(d) PROVE FilingInv'
  <2>0. PICK o \in Originals \ masters : o = remover[d].asset /\ masterRow[o] # "none" /\ remover[d].at = "row"
    BY <1>0, <1>9 DEF DeleteRow, Removing
  <2>1. /\ remover' = [remover EXCEPT ![d] = NoRemover] /\ masterRow' = [masterRow EXCEPT ![o] = "gone"]
        /\ UNCHANGED <<room, drawer, masters, stream, stray, swept>> BY <1>9, <2>0 DEF DeleteRow
  <2>3. /\ remover' \in [Removers -> RemoverRows] /\ remover'[d] = NoRemover
        /\ \A e \in Removers \ {d} : remover'[e] = remover[e] BY <1>0, <2>1, RemoverMoves, EncodersRest
  <2>4. FilingTyped' BY <1>0, <2>1, <2>3 DEF FilingTyped
  <2>m. masterRow'[o] = "gone" /\ \A x \in Originals \ {o} : masterRow'[x] = masterRow[x] BY <1>0, <2>1
  <2>5. SavedAlone'
    <3>1. \A v \in Streams : o \notin stream[v].saved /\ stream[v].saved \subseteq Originals
      BY <1>0, <2>0 DEF SavedAlone, StreamRows
    <3> QED BY <1>0, <2>1, <2>m, <3>1 DEF SavedAlone
  <2>6. \A e \in Removers : Removing(e)' BY <1>0, <2>1, <2>m, <2>3, EncodersRest DEF Removing
  <2>7. RowHasItsOriginal'
    <3>1. SUFFICES ASSUME NEW x \in Originals, masterRow'[x] = "there", x \notin masters \cup swept
                   PROVE  \E e \in Removers : remover'[e].asset = x BY <2>1 DEF RowHasItsOriginal
    <3>2. x # o BY <2>m, <3>1
    <3>3. PICK e \in Removers : remover[e].asset = x BY <1>0, <2>m, <3>1, <3>2 DEF RowHasItsOriginal
    <3> QED BY <2>0, <2>3, <3>2, <3>3
  <2>8. OriginalHasItsRow'
    <3>1. SUFFICES ASSUME NEW x \in masters, masterRow'[x] # "there", x \notin Saved \cup stray
                   PROVE  \E e \in Removers : remover'[e].at = "rmtree" BY <2>1 DEF OriginalHasItsRow, Saved
    <3>2. x \in Originals \ {o} BY <1>0, <2>0
    <3>3. PICK e \in Removers : remover[e].at = "rmtree" BY <1>0, <2>m, <3>1, <3>2 DEF OriginalHasItsRow
    <3> QED BY <2>0, <2>3, <3>3
  <2> QED BY <2>4, <2>5, <2>6, <2>7, <2>8 DEF FilingInv
<1>10. ASSUME NEW d \in Removers, DeleteRoomRow(d) PROVE FilingInv'
  <2>0. PICK row : row = [remover[d] EXCEPT !.at = "rmtree"] OBVIOUS
  <2>r. remover[d].at = "idle" BY <1>10 DEF DeleteRoomRow
  <2>2. row \in RemoverRows /\ row.at = "rmtree" /\ row.asset = NoOriginal
    BY <1>0, <2>0, <2>r DEF RemoverRows, Removing
  <2>1. /\ remover' = [remover EXCEPT ![d] = row] /\ drawer' = {} /\ room' = [room EXCEPT !.row = FALSE]
        /\ masterRow' = [o \in Originals |-> IF masterRow[o] = "there" THEN "gone" ELSE masterRow[o]]
        /\ UNCHANGED <<masters, stream, stray, swept>> BY <1>0, <1>10, <2>0 DEF DeleteRoomRow, RemoverAt, FilingTyped
  <2>3. /\ remover' \in [Removers -> RemoverRows] /\ remover'[d] = row
        /\ \A e \in Removers \ {d} : remover'[e] = remover[e] BY <1>0, <2>1, <2>2, RemoverMoves
  <2>m. \A x \in Originals : masterRow'[x] # "there" /\ (masterRow'[x] = "none" <=> masterRow[x] = "none")
    BY <1>0, <2>1
  <2>4. FilingTyped'
    <3>1. room' \in [row : BOOLEAN, dir : BOOLEAN, gen : 0..1] BY <1>0, <2>1
    <3>2. masterRow' \in [Originals -> {"none", "there", "gone"}] BY <1>0, <2>1
    <3> QED BY <1>0, <2>1, <2>3, <3>1, <3>2 DEF FilingTyped
  <2>5. SavedAlone'
    <3>1. \A v \in Streams : stream[v].saved \subseteq Originals BY <1>0 DEF StreamRows
    <3> QED BY <1>0, <2>1, <2>m, <3>1 DEF SavedAlone
  <2>6. \A e \in Removers : Removing(e)' BY <1>0, <2>1, <2>m, <2>2, <2>3 DEF Removing
  <2>7. RowHasItsOriginal' BY <2>m DEF RowHasItsOriginal
  <2>8. OriginalHasItsRow' BY <2>2, <2>3 DEF OriginalHasItsRow
  <2> QED BY <2>4, <2>5, <2>6, <2>7, <2>8 DEF FilingInv
<1>11. ASSUME NEW d \in Removers, RemoveTree(d) PROVE FilingInv'
  <2>1. /\ remover' = [remover EXCEPT ![d] = NoRemover] /\ room' = [room EXCEPT !.dir = FALSE]
        /\ masters' = {} /\ swept' = swept \cup masters /\ remover[d].at = "rmtree"
        /\ UNCHANGED <<drawer, masterRow, stream, stray>> BY <1>11 DEF RemoveTree
  <2>3. /\ remover' \in [Removers -> RemoverRows] /\ remover'[d] = NoRemover
        /\ \A e \in Removers \ {d} : remover'[e] = remover[e] BY <1>0, <2>1, RemoverMoves, EncodersRest
  <2>4. FilingTyped'
    <3>1. room' \in [row : BOOLEAN, dir : BOOLEAN, gen : 0..1] BY <1>0, <2>1
    <3> QED BY <1>0, <2>1, <2>3, <3>1 DEF FilingTyped
  <2>5. SavedAlone' BY <1>0, <2>1 DEF SavedAlone
  <2>6. \A e \in Removers : Removing(e)' BY <1>0, <2>1, <2>3, EncodersRest DEF Removing
  <2>7. RowHasItsOriginal'
    <3>1. SUFFICES ASSUME NEW x \in Originals, masterRow[x] = "there", x \notin swept'
                   PROVE  \E e \in Removers : remover'[e].asset = x BY <2>1 DEF RowHasItsOriginal
    <3>2. PICK e \in Removers : remover[e].asset = x BY <1>0, <2>1, <3>1 DEF RowHasItsOriginal
    <3>3. remover[e].at = "row" BY <1>0, <3>2 DEF Removing
    <3> QED BY <2>1, <2>3, <3>2, <3>3
  <2>8. OriginalHasItsRow' BY <2>1 DEF OriginalHasItsRow
  <2> QED BY <2>4, <2>5, <2>6, <2>7, <2>8 DEF FilingInv
<1> QED BY <1>1, <1>2, <1>3, <1>4, <1>5, <1>6, <1>7, <1>8, <1>9, <1>10, <1>11 DEF FilingStep

\* The steps of the social cuts.
ClipsStep ==
  \/ PressBuild
  \/ \E j \in ClipJobs : \/ EnqueueCuts(j) \/ ReadRows(j) \/ EndCut(j) \/ CutFails(j) \/ CutsDone(j)
                         \/ \E c \in Cuts : StartCut(j, c)

\* A job's next row and a cut: what the job then holds, nobody else does and is pending;
\* it changes no row and no file of a cut that another has.
MayHave(j, row, c) ==
  /\ c \in row.todo \/ (row.at = "encode" /\ row.now = c) =>
       /\ \A k \in ClipJobs \ {j} : ~HasCut(k, c)
       /\ clip = "ready" => cut'[c] = "pending"
  /\ row.at = "encode" /\ row.now = c => clipFile'[c].by = j
  /\ \/ cut'[c] = cut[c] /\ clipFile'[c] = clipFile[c]
     \/ /\ \A k \in ClipJobs \ {j} : ~HasCut(k, c)
        /\ ReadyIsWhole(c)'

LEMMA EncodingKept ==
  ASSUME EncodingInv, ClipsStep
  PROVE  EncodingInv'
<1>0. /\ EncodingTyped /\ (\A j \in ClipJobs : encoder[j].at = "encode" => encoder[j].now \in Cuts \ encoder[j].todo)
      /\ \A c \in Cuts \ rivals : OneHas(c) /\ RowWaits(c) /\ FileIsOf(c) /\ ReadyIsWhole(c)
      /\ clip \in {"ready", "gone"} /\ cut \in [Cuts -> {"none", "pending", "ready", "failed"}]
      /\ clipFile \in [Cuts -> ClipRows] /\ rivals \subseteq Cuts
      /\ \A j \in ClipJobs : encoder[j] \in WorkRows BY DEF EncodingInv, EncodingTyped
\* A job moves: what it then holds, it held, or nobody else does.
<1>j. ASSUME NEW j \in ClipJobs, NEW row \in WorkRows, encoder' = [encoder EXCEPT ![j] = row],
             row.at = "encode" => row.now \in Cuts \ row.todo, UNCHANGED clip,
             clipJob' \in [ClipJobs -> {"none", "queued", "running", "done"}],
             cut' \in [Cuts -> {"none", "pending", "ready", "failed"}], clipFile' \in [Cuts -> ClipRows],
             pressing' \in BOOLEAN, rivals \subseteq rivals', rivals' \subseteq Cuts,
             \A c \in Cuts \ rivals' : MayHave(j, row, c)
      PROVE  EncodingInv'
  <2>1. /\ encoder' \in [ClipJobs -> WorkRows] /\ encoder'[j] = row
        /\ \A k \in ClipJobs \ {j} : encoder'[k] = encoder[k] BY <1>0, <1>j, EncoderMoves
  <2>2. EncodingTyped' BY <1>0, <1>j, <2>1 DEF EncodingTyped
  <2>3. \A k \in ClipJobs : encoder'[k].at = "encode" => encoder'[k].now \in Cuts \ encoder'[k].todo BY <1>0, <1>j, <2>1
  <2>4. ASSUME NEW c \in Cuts \ rivals' PROVE (OneHas(c) /\ RowWaits(c) /\ FileIsOf(c) /\ ReadyIsWhole(c))'
    <3>0. c \in Cuts \ rivals /\ OneHas(c) /\ RowWaits(c) /\ FileIsOf(c) /\ ReadyIsWhole(c) BY <1>0, <1>j, <2>4
    <3>m. MayHave(j, row, c) BY <1>j, <2>4
    <3>1. \A k \in ClipJobs \ {j} : HasCut(k, c)' <=> HasCut(k, c) BY <2>1 DEF HasCut
    <3>2. HasCut(j, c)' <=> c \in row.todo \/ (row.at = "encode" /\ row.now = c) BY <2>1 DEF HasCut
    <3>3. OneHas(c)' BY <3>m, <3>0, <3>1, <3>2 DEF MayHave, OneHas
    <3>4. RowWaits(c)' BY <1>j, <3>m, <3>0, <3>1, <3>2 DEF MayHave, RowWaits
    <3>5. FileIsOf(c)'
      <4>1. SUFFICES ASSUME NEW k \in ClipJobs, encoder'[k].at = "encode", encoder'[k].now = c
                     PROVE  clipFile'[c].by = k \/ clipFile'[c].state = "none" BY DEF FileIsOf
      <4>2. CASE k = j BY <3>m, <2>1, <4>1, <4>2 DEF MayHave
      <4>3. CASE k # j
        <5>1. encoder[k].at = "encode" /\ encoder[k].now = c BY <2>1, <4>1, <4>3
        <5>2. HasCut(k, c) BY <5>1 DEF HasCut
        <5>3. clipFile'[c] = clipFile[c] BY <3>m, <4>3, <5>2 DEF MayHave
        <5> QED BY <3>0, <5>1, <5>3 DEF FileIsOf
      <4> QED BY <4>2, <4>3
    <3>6. ReadyIsWhole(c)' BY <1>j, <3>m, <3>0 DEF MayHave, ReadyIsWhole
    <3> QED BY <3>3, <3>4, <3>5, <3>6
  <2> QED BY <2>2, <2>3, <2>4 DEF EncodingInv
<1>1. CASE PressBuild
  <2>1. /\ cut' = [c \in Cuts |-> IF cut[c] \in {"none", "failed"} THEN "pending" ELSE cut[c]]
        /\ UNCHANGED <<clip, clipFile, clipJob, encoder, rivals>> /\ pressing' = TRUE BY <1>1 DEF PressBuild
  <2>2. cut' \in [Cuts -> {"none", "pending", "ready", "failed"}] BY <1>0, <2>1
  <2>3. EncodingTyped' BY <1>0, <2>1, <2>2 DEF EncodingTyped
  <2>4. \A c \in Cuts : (cut'[c] = "ready" => cut[c] = "ready") /\ (cut[c] = "pending" => cut'[c] = "pending")
    BY <1>0, <2>1
  <2>5. ASSUME NEW c \in Cuts \ rivals' PROVE (OneHas(c) /\ RowWaits(c) /\ FileIsOf(c) /\ ReadyIsWhole(c))'
    <3>0. OneHas(c) /\ RowWaits(c) /\ FileIsOf(c) /\ ReadyIsWhole(c) BY <1>0, <2>1, <2>5
    <3>1. \A k : HasCut(k, c)' <=> HasCut(k, c) BY <2>1 DEF HasCut
    <3> QED BY <2>1, <2>4, <2>5, <3>0, <3>1 DEF OneHas, RowWaits, FileIsOf, ReadyIsWhole
  <2> QED BY <1>0, <2>1, <2>3, <2>5 DEF EncodingInv
<1>2. ASSUME NEW j \in ClipJobs, EnqueueCuts(j) PROVE EncodingInv'
  <2>1. /\ clipJob' = [clipJob EXCEPT ![j] = "queued"] /\ pressing' = FALSE
        /\ UNCHANGED <<clip, cut, clipFile, encoder, rivals>> BY <1>2 DEF EnqueueCuts
  <2>2. EncodingTyped' BY <1>0, <2>1 DEF EncodingTyped
  <2>3. ASSUME NEW c \in Cuts \ rivals' PROVE (OneHas(c) /\ RowWaits(c) /\ FileIsOf(c) /\ ReadyIsWhole(c))'
    <3>0. OneHas(c) /\ RowWaits(c) /\ FileIsOf(c) /\ ReadyIsWhole(c) BY <1>0, <2>1, <2>3
    <3> QED BY <2>1, <3>0 DEF OneHas, RowWaits, FileIsOf, ReadyIsWhole, HasCut
  <2> QED BY <1>0, <2>1, <2>2, <2>3 DEF EncodingInv
<1>3. ASSUME NEW j \in ClipJobs, ReadRows(j) PROVE EncodingInv'
  <2>1. /\ UNCHANGED <<clip, cut, clipFile, pressing>> /\ rivals \subseteq rivals'
        /\ rivals' = rivals \cup {c \in encoder'[j].todo : \E k \in ClipJobs \ {j} :
                                    c \in encoder[k].todo \cup {encoder[k].now}} BY <1>3 DEF ReadRows
  <2>2. CASE clip = "ready"
    <3> DEFINE row == [at |-> "next", todo |-> Pending, now |-> ""]
    <3>1. row \in WorkRows /\ Pending \subseteq Cuts BY DEF Pending, WorkRows
    <3>2. /\ encoder' = [encoder EXCEPT ![j] = row] /\ clipJob' = [clipJob EXCEPT ![j] = "running"]
      BY <1>3, <2>2 DEF ReadRows
    <3>3. encoder'[j] = row BY <1>0, <3>1, <3>2, EncoderMoves
    <3>a. row.todo = Pending OBVIOUS
    <3>4. rivals' \subseteq Cuts
      <4> HIDE DEF row
      <4> QED BY <1>0, <2>1, <3>1, <3>3, <3>a
    <3>5. ASSUME NEW c \in Cuts \ rivals', c \in row.todo
          PROVE  cut'[c] = "pending" /\ \A k \in ClipJobs \ {j} : ~HasCut(k, c)
      <4> HIDE DEF row
      <4> QED BY <2>1, <3>3, <3>a, <3>5 DEF Pending, HasCut
    <3>6. clipJob' \in [ClipJobs -> {"none", "queued", "running", "done"}] BY <1>0, <3>2 DEF EncodingTyped
    <3>7. row.at # "encode" OBVIOUS
    <3>8. pressing' \in BOOLEAN BY <1>0, <2>1 DEF EncodingTyped
    <3> HIDE DEF row
    <3>9. \A c \in Cuts \ rivals' : MayHave(j, row, c) BY <2>1, <3>5, <3>7 DEF MayHave
    <3>10. cut' \in [Cuts -> {"none", "pending", "ready", "failed"}] /\ clipFile' \in [Cuts -> ClipRows] BY <1>0, <2>1
    <3> QED BY <1>j, <2>1, <3>1, <3>2, <3>4, <3>6, <3>7, <3>8, <3>9, <3>10
  <2>3. CASE clip # "ready"
    <3>1. clipJob' = [clipJob EXCEPT ![j] = "done"] /\ encoder' = encoder BY <1>3, <2>3 DEF ReadRows
    <3>2. rivals' \subseteq Cuts BY <1>0, <2>1, <3>1 DEF WorkRows
    <3>3. EncodingTyped' BY <1>0, <2>1, <3>1, <3>2 DEF EncodingTyped
    <3>4. ASSUME NEW c \in Cuts \ rivals' PROVE (OneHas(c) /\ RowWaits(c) /\ FileIsOf(c) /\ ReadyIsWhole(c))'
      <4>0. OneHas(c) /\ RowWaits(c) /\ FileIsOf(c) /\ ReadyIsWhole(c) BY <1>0, <2>1, <3>4
      <4> QED BY <2>1, <3>1, <4>0 DEF OneHas, RowWaits, FileIsOf, ReadyIsWhole, HasCut
    <3> QED BY <1>0, <3>1, <3>3, <3>4 DEF EncodingInv
  <2> QED BY <2>2, <2>3
<1>4. ASSUME NEW j \in ClipJobs, NEW c \in Cuts, StartCut(j, c) PROVE EncodingInv'
  <2>0. PICK row : row = [at |-> "encode", todo |-> encoder[j].todo \ {c}, now |-> c] OBVIOUS
  <2>1. row \in WorkRows /\ row.at = "encode" /\ row.now = c /\ c \notin row.todo /\ row.todo = encoder[j].todo \ {c}
    BY <1>0, <2>0 DEF WorkRows
  <2>2. /\ encoder' = [encoder EXCEPT ![j] = row] /\ c \in encoder[j].todo
        /\ clipFile' = [clipFile EXCEPT ![c] = [state |-> "torn", by |-> j]]
        /\ UNCHANGED <<clip, cut, clipJob, pressing, rivals>> BY <1>0, <1>4, <2>0 DEF StartCut, EncodingTyped
  <2>3. [state |-> "torn", by |-> j] \in ClipRows BY DEF ClipRows
  <2>4. /\ clipFile' \in [Cuts -> ClipRows] /\ clipFile'[c].by = j
        /\ \A x \in Cuts \ {c} : clipFile'[x] = clipFile[x] BY <1>0, <2>2, <2>3
  <2>5. \A x \in Cuts : x \in row.todo \/ row.now = x => HasCut(j, x) BY <2>1, <2>2 DEF HasCut
  <2>6. ASSUME NEW x \in Cuts \ rivals, HasCut(j, x)
        PROVE  (\A k \in ClipJobs \ {j} : ~HasCut(k, x)) /\ (clip = "ready" => cut[x] = "pending")
    BY <1>0, <2>6 DEF OneHas, RowWaits
  <2>7. c \notin rivals => ReadyIsWhole(c)' BY <2>1, <2>2, <2>5, <2>6 DEF ReadyIsWhole
  <2>8. clipJob \in [ClipJobs -> {"none", "queued", "running", "done"}] /\ pressing \in BOOLEAN
    BY <1>0 DEF EncodingTyped
  <2>9. \A x \in Cuts \ rivals' : MayHave(j, row, x)
    <3>1. ASSUME NEW x \in Cuts \ rivals', x # c
          PROVE  /\ x \in row.todo \/ (row.at = "encode" /\ row.now = x) =>
                      (\A k \in ClipJobs \ {j} : ~HasCut(k, x)) /\ (clip = "ready" => cut'[x] = "pending")
                 /\ ~(row.at = "encode" /\ row.now = x)
                 /\ cut'[x] = cut[x] /\ clipFile'[x] = clipFile[x] BY <2>1, <2>2, <2>4, <2>5, <2>6, <3>1
    <3>2. ASSUME c \notin rivals'
          PROVE  /\ \A k \in ClipJobs \ {j} : ~HasCut(k, c)
                 /\ clip = "ready" => cut'[c] = "pending"
                 /\ clipFile'[c].by = j
                 /\ ReadyIsWhole(c)' BY <2>1, <2>2, <2>4, <2>5, <2>6, <2>7, <3>2
    <3> QED BY <3>1, <3>2 DEF MayHave
  <2> QED BY <1>0, <1>j, <2>1, <2>2, <2>4, <2>8, <2>9
\* The job is done with its cut, which it held.
<1>n. ASSUME NEW j \in ClipJobs, NEW c \in Cuts, c = encoder[j].now, encoder[j].at = "encode",
             encoder' = [encoder EXCEPT ![j] = [@ EXCEPT !.at = "next", !.now = ""]],
             UNCHANGED <<clip, clipJob, pressing, rivals>>,
             cut' \in [Cuts -> {"none", "pending", "ready", "failed"}], clipFile' \in [Cuts -> ClipRows],
             \A x \in Cuts \ {c} : cut'[x] = cut[x] /\ clipFile'[x] = clipFile[x],
             c \notin rivals => ReadyIsWhole(c)'
      PROVE  EncodingInv'
  <2>v. PICK v : v = [encoder[j] EXCEPT !.at = "next"] OBVIOUS
  <2>w. v \in WorkRows /\ v.at = "next" /\ v.todo = encoder[j].todo BY <1>0, <2>v DEF WorkRows
  <2>0. PICK row : row = [v EXCEPT !.now = ""] OBVIOUS
  <2>1. row \in WorkRows /\ row.at = "next" /\ row.todo = encoder[j].todo BY <2>w, <2>0 DEF WorkRows
  <2>2. encoder' = [encoder EXCEPT ![j] = row] BY <1>0, <1>n, <2>v, <2>0 DEF EncodingTyped
  <2>3. HasCut(j, c) /\ c \notin row.todo /\ \A x \in Cuts : x \in row.todo => HasCut(j, x)
    BY <1>0, <1>n, <2>1 DEF HasCut
  <2>4. ASSUME NEW x \in Cuts \ rivals, HasCut(j, x)
        PROVE  (\A k \in ClipJobs \ {j} : ~HasCut(k, x)) /\ (clip = "ready" => cut[x] = "pending")
    BY <1>0, <2>4 DEF OneHas, RowWaits
  <2>5. clipJob \in [ClipJobs -> {"none", "queued", "running", "done"}] /\ pressing \in BOOLEAN
    BY <1>0 DEF EncodingTyped
  <2>6. \A x \in Cuts \ rivals' : MayHave(j, row, x)
    <3>1. ASSUME NEW x \in Cuts \ rivals', x # c PROVE MayHave(j, row, x) BY <1>n, <2>1, <2>3, <2>4, <3>1 DEF MayHave
    <3>2. ASSUME c \notin rivals' PROVE MayHave(j, row, c) BY <1>n, <2>1, <2>3, <2>4, <3>2 DEF MayHave
    <3> QED BY <3>1, <3>2
  <2> QED BY <1>0, <1>j, <1>n, <2>1, <2>2, <2>5, <2>6
<1>5. ASSUME NEW j \in ClipJobs, EndCut(j) PROVE EncodingInv'
  <2>0. PICK c \in Cuts : c = encoder[j].now BY <1>0, <1>5 DEF EndCut
  <2>1. /\ encoder[j].at = "encode" /\ UNCHANGED <<clip, clipJob, pressing, rivals>>
        /\ clipFile' = IF clipFile[c].by = j THEN [clipFile EXCEPT ![c].state = "whole"] ELSE clipFile
        /\ cut' = IF clip = "ready" THEN [cut EXCEPT ![c] = "ready"] ELSE cut
        /\ encoder' = [encoder EXCEPT ![j] = [@ EXCEPT !.at = "next", !.now = ""]] BY <1>5, <2>0 DEF EndCut
  <2>2. clipFile[c] \in ClipRows BY <1>0
  <2>3. /\ [clipFile[c] EXCEPT !.state = "whole"] \in ClipRows
        /\ [clipFile[c] EXCEPT !.state = "whole"].state = "whole" BY <2>2 DEF ClipRows
  <2>4. clipFile' = IF clipFile[c].by = j
                    THEN [clipFile EXCEPT ![c] = [clipFile[c] EXCEPT !.state = "whole"]] ELSE clipFile BY <1>0, <2>1
  <2>5. /\ clipFile' \in [Cuts -> ClipRows] /\ \A x \in Cuts \ {c} : clipFile'[x] = clipFile[x]
        /\ clipFile[c].by = j => clipFile'[c].state = "whole"
        /\ clipFile[c].by # j => clipFile'[c] = clipFile[c] BY <1>0, <2>3, <2>4
  <2>6. /\ cut' \in [Cuts -> {"none", "pending", "ready", "failed"}]
        /\ \A x \in Cuts \ {c} : cut'[x] = cut[x] BY <1>0, <2>1
  <2>7. c \notin rivals => ReadyIsWhole(c)' BY <1>0, <2>0, <2>1, <2>5 DEF ReadyIsWhole, FileIsOf
  <2> QED BY <1>n, <2>0, <2>1, <2>5, <2>6, <2>7
<1>6. ASSUME NEW j \in ClipJobs, CutFails(j) PROVE EncodingInv'
  <2>0. PICK c \in Cuts : c = encoder[j].now BY <1>0, <1>6 DEF CutFails
  <2>1. /\ encoder[j].at = "encode" /\ UNCHANGED <<clip, clipFile, clipJob, pressing, rivals>>
        /\ cut' = IF clip = "ready" THEN [cut EXCEPT ![c] = "failed"] ELSE cut
        /\ encoder' = [encoder EXCEPT ![j] = [@ EXCEPT !.at = "next", !.now = ""]] BY <1>6, <2>0 DEF CutFails
  <2>2. /\ cut' \in [Cuts -> {"none", "pending", "ready", "failed"}]
        /\ \A x \in Cuts \ {c} : cut'[x] = cut[x]
        /\ clip = "ready" => cut'[c] = "failed" BY <1>0, <2>1
  <2>3. c \notin rivals => ReadyIsWhole(c)' BY <2>1, <2>2 DEF ReadyIsWhole
  <2> QED BY <1>0, <1>n, <2>0, <2>1, <2>2, <2>3
<1>7. ASSUME NEW j \in ClipJobs, CutsDone(j) PROVE EncodingInv'
  <2>1. /\ encoder' = [encoder EXCEPT ![j] = NoWork] /\ clipJob' = [clipJob EXCEPT ![j] = "done"]
        /\ UNCHANGED <<clip, cut, clipFile, pressing, rivals>> BY <1>7 DEF CutsDone
  <2>2. \A x \in Cuts \ rivals' : MayHave(j, NoWork, x) BY <2>1, EncodersRest DEF MayHave
  <2>3. clipJob' \in [ClipJobs -> {"none", "queued", "running", "done"}] /\ pressing' \in BOOLEAN
    BY <1>0, <2>1 DEF EncodingTyped
  <2> QED BY <1>0, <1>j, <2>1, <2>2, <2>3, EncodersRest
<1> QED BY <1>1, <1>2, <1>3, <1>4, <1>5, <1>6, <1>7 DEF ClipsStep

\* The gallery's deletion takes the clip, then its files; other requests leave them.
LEMMA EncodingRests ==
  ASSUME EncodingInv, FilingStep
  PROVE  EncodingInv'
<1>0. /\ EncodingTyped /\ (\A j \in ClipJobs : encoder[j].at = "encode" => encoder[j].now \in Cuts \ encoder[j].todo)
      /\ \A c \in Cuts \ rivals : OneHas(c) /\ RowWaits(c) /\ FileIsOf(c) /\ ReadyIsWhole(c)
      /\ clipFile \in [Cuts -> ClipRows] BY DEF EncodingInv, EncodingTyped
<1>1. CASE UNCHANGED encoding
  BY <1>0, <1>1 DEF encoding, EncodingInv, EncodingTyped, OneHas, RowWaits, FileIsOf, ReadyIsWhole, HasCut
<1>2. ASSUME NEW d \in Removers, DeleteRoomRow(d) PROVE EncodingInv'
  <2>1. clip' = "gone" /\ cut' = [c \in Cuts |-> "none"] /\ UNCHANGED <<clipFile, clipJob, encoder, pressing, rivals>>
    BY <1>2 DEF DeleteRoomRow
  <2>2. EncodingTyped' BY <1>0, <2>1 DEF EncodingTyped
  <2>3. \A c \in Cuts \ rivals' : (OneHas(c) /\ RowWaits(c) /\ FileIsOf(c) /\ ReadyIsWhole(c))'
    BY <1>0, <2>1 DEF OneHas, RowWaits, FileIsOf, ReadyIsWhole, HasCut
  <2> QED BY <1>0, <2>1, <2>2, <2>3 DEF EncodingInv
<1>3. ASSUME NEW d \in Removers, RemoveTree(d) PROVE EncodingInv'
  <2>1. /\ clipFile' = [c \in Cuts |-> [state |-> "none", by |-> NoEncoder]]
        /\ UNCHANGED <<clip, cut, clipJob, encoder, pressing, rivals>> BY <1>3 DEF RemoveTree
  <2>2. [state |-> "none", by |-> NoEncoder] \in ClipRows BY DEF ClipRows
  <2>3. EncodingTyped' BY <1>0, <2>1, <2>2 DEF EncodingTyped
  <2>4. \A c \in Cuts \ rivals' : (OneHas(c) /\ RowWaits(c) /\ FileIsOf(c) /\ ReadyIsWhole(c))'
    BY <1>0, <2>1 DEF OneHas, RowWaits, FileIsOf, ReadyIsWhole, HasCut
  <2> QED BY <1>0, <2>1, <2>3, <2>4 DEF EncodingInv
<1> QED BY <1>1, <1>2, <1>3
        DEF FilingStep, Preflight, MakeDirs, CommitUploads, UploadRaises, SaveFile, DeleteDrawer, DeleteRow,
            DeleteOriginal, ReuseId

LEMMA FilingRests ==
  ASSUME FilingInv, UNCHANGED filing
  PROVE  FilingInv'
BY DEF filing, FilingInv, FilingTyped, SavedAlone, Removing, RowHasItsOriginal, OriginalHasItsRow, Saved

LEMMA UploadsKilled ==
  ASSUME UploadsInv, UploadsKill
  PROVE  UploadsInv'
<1>0. /\ FilingInv /\ FilingTyped /\ SavedAlone /\ RowHasItsOriginal /\ OriginalHasItsRow
      /\ EncodingInv /\ EncodingTyped /\ masters \subseteq Originals
      /\ \A c \in Cuts \ rivals : OneHas(c) /\ RowWaits(c) /\ FileIsOf(c) /\ ReadyIsWhole(c)
  BY DEF UploadsInv, FilingInv, FilingTyped, EncodingInv
<1>1. /\ stray' = stray \cup (Saved \cup (IF \E d \in Removers : remover[d].at = "rmtree" THEN masters ELSE {}))
      /\ stream' = [u \in Streams |-> NoStream] /\ remover' = [d \in Removers |-> NoRemover]
      /\ swept' = swept \cup {o \in Originals : masterRow[o] = "there" /\ o \notin masters}
      /\ clipJob' = [j \in ClipJobs |-> IF clipJob[j] = "running" THEN "queued" ELSE clipJob[j]]
      /\ encoder' = [j \in ClipJobs |-> NoWork]
      /\ rivals' = rivals /\ pressing' = FALSE
      /\ UNCHANGED <<room, drawer, masters, masterRow, clip, cut, clipFile>> BY DEF UploadsKill
<1>2. FilingTyped'
  <2>1. Saved \subseteq Originals BY <1>0, SavedIs DEF FilingTyped, StreamRows
  <2> QED BY <1>0, <1>1, <2>1, EncodersRest DEF FilingTyped
<1>3. SavedAlone' BY <1>1, EncodersRest DEF SavedAlone
<1>4. \A d \in Removers : Removing(d)' BY <1>1, EncodersRest DEF Removing
<1>5. RowHasItsOriginal' BY <1>1 DEF RowHasItsOriginal
<1>6. OriginalHasItsRow' BY <1>0, <1>1 DEF OriginalHasItsRow
<1>7. EncodingTyped'
  <2>1. clipJob' \in [ClipJobs -> {"none", "queued", "running", "done"}] BY <1>0, <1>1 DEF EncodingTyped
  <2> QED BY <1>0, <1>1, <2>1, EncodersRest DEF EncodingTyped
<1>8. \A j \in ClipJobs : encoder'[j].at = "idle" /\ encoder'[j].todo = {} BY <1>1, EncodersRest
<1>9. ASSUME NEW c \in Cuts \ rivals' PROVE (OneHas(c) /\ RowWaits(c) /\ FileIsOf(c) /\ ReadyIsWhole(c))'
  <2>1. ReadyIsWhole(c)' BY <1>0, <1>1, <1>9 DEF ReadyIsWhole
  <2> QED BY <1>8, <2>1 DEF OneHas, RowWaits, FileIsOf, HasCut
<1> QED BY <1>2, <1>3, <1>4, <1>5, <1>6, <1>7, <1>8, <1>9 DEF UploadsInv, FilingInv, EncodingInv

LEMMA UploadsInitially ==
  ASSUME UploadsInit
  PROVE  UploadsInv
<1>1. FilingTyped /\ EncodingTyped
  <2>1. [state |-> "none", by |-> NoEncoder] \in ClipRows BY DEF ClipRows
  <2>2. room \in [row : BOOLEAN, dir : BOOLEAN, gen : 0..1] BY DEF UploadsInit
  <2>3. FilingTyped BY <2>2, EncodersRest DEF UploadsInit, FilingTyped
  <2>4. EncodingTyped BY <2>1, EncodersRest DEF UploadsInit, EncodingTyped
  <2> QED BY <2>3, <2>4
<1>2. FilingInv
  <2>1. SavedAlone /\ \A d \in Removers : Removing(d) BY EncodersRest DEF UploadsInit, SavedAlone, Removing
  <2>2. RowHasItsOriginal /\ OriginalHasItsRow BY DEF UploadsInit, RowHasItsOriginal, OriginalHasItsRow
  <2> QED BY <1>1, <2>1, <2>2 DEF FilingInv
<1>3. EncodingInv
  <2>1. \A j \in ClipJobs : encoder[j].at = "idle" /\ encoder[j].todo = {} BY EncodersRest DEF UploadsInit
  <2>2. \A c \in Cuts : cut[c] = "none" BY DEF UploadsInit
  <2> QED BY <1>1, <2>1, <2>2 DEF EncodingInv, OneHas, RowWaits, FileIsOf, ReadyIsWhole, HasCut
<1> QED BY <1>2, <1>3 DEF UploadsInv

\* The invariant survives every step.
LEMMA UploadsStep ==
  ASSUME UploadsInv, [UploadsNext]_uploadVars
  PROVE  UploadsInv'
<1>0. FilingInv /\ EncodingInv BY DEF UploadsInv
<1>1. CASE FilingStep BY <1>0, <1>1, FilingKept, EncodingRests DEF UploadsInv
<1>2. CASE ClipsStep
  <2>1. UNCHANGED filing
    BY <1>2 DEF ClipsStep, PressBuild, EnqueueCuts, ReadRows, EndCut, CutFails, CutsDone, StartCut
  <2> QED BY <1>0, <1>2, <2>1, FilingRests, EncodingKept DEF UploadsInv
<1>3. CASE UploadsKill BY <1>3, UploadsKilled
<1>4. CASE UNCHANGED uploadVars
  <2>1. UNCHANGED filing /\ UNCHANGED encoding BY <1>4 DEF uploadVars
  <2>2. EncodingInv'
    BY <1>0, <2>1 DEF encoding, EncodingInv, EncodingTyped, OneHas, RowWaits, FileIsOf, ReadyIsWhole, HasCut
  <2> QED BY <1>0, <2>1, <2>2, FilingRests DEF UploadsInv
<1> QED BY <1>1, <1>2, <1>3, <1>4 DEF UploadsNext, FilingStep, ClipsStep

\* It says what the module promises.
LEMMA UploadsMeans ==
  ASSUME UploadsInv
  PROVE  UploadsTypeOK /\ FilesAreSound
<1>1. UploadsTypeOK
  BY DEF UploadsInv, FilingInv, FilingTyped, EncodingInv, EncodingTyped, UploadsTypeOK, StreamRows, RemoverRows,
         ClipRows, WorkRows
<1>2. ReadyCutIsWhole
  <2>1. \A c \in Cuts : clipFile[c].state \in {"none", "torn", "whole"}
    BY DEF UploadsInv, EncodingInv, EncodingTyped, ClipRows
  <2> QED BY <2>1 DEF UploadsInv, EncodingInv, ReadyCutIsWhole, Offered, ReadyIsWhole
<1> QED BY <1>1, <1>2 DEF UploadsInv, FilingInv, FilesAreSound

(* Sums over finite sets: that the recursive definition defines one, and   *)
(* what becomes of it when an element grows.  A set of numbers without a   *)
(* least element is empty: this stands for induction.                      *)

\* Induction over the numbers, for a set.
LEMMA NumbersUp ==
  ASSUME NEW G, 0 \in G, \A n \in Nat : n \in G => n + 1 \in G
  PROVE  Nat \subseteq G
<1> DEFINE T == Nat \ G
           Less == {l \in Nat \X Nat : l[1] < l[2]}
<1>1. SUFFICES ASSUME T # {} PROVE FALSE OBVIOUS
<1>2. IsWellFoundedOn(Less, Nat) BY NatLessThanWellFounded DEF OpToRel
<1>3. PICK k \in T : \A l \in T : ~(<<l, k>> \in Less)
  <2> HIDE DEF Less
  <2> QED BY <1>1, <1>2, WFMin, T \subseteq Nat
<1>4. k \in Nat /\ k \notin G /\ k # 0 OBVIOUS
<1>5. k - 1 \in Nat /\ (k - 1) + 1 = k BY <1>4
<1>6. k - 1 \notin T
  <2>1. <<k - 1, k>> \in Less BY <1>4, <1>5
  <2> QED BY <1>3, <2>1
<1> QED BY <1>4, <1>5, <1>6

\* And a set of numbers that is not empty has a least.
LEMMA NumbersLeast == ASSUME NEW F \in SUBSET Nat, F # {} PROVE \E i \in F : \A j \in F : i <= j
<1> DEFINE Less == {l \in Nat \X Nat : l[1] < l[2]}
<1>1. IsWellFoundedOn(Less, Nat) BY NatLessThanWellFounded DEF OpToRel
<1>2. PICK k \in F : \A l \in F : ~(<<l, k>> \in Less)
  <2> HIDE DEF Less
  <2> QED BY <1>1, WFMin
<1>3. ASSUME NEW j \in F PROVE k <= j
  <2>1. ~(<<j, k>> \in Less) BY <1>2
  <2> QED BY <2>1
<1> QED BY <1>3

\* The element a sum takes next, and what it is then.
Chosen(s)      == CHOOSE x \in s : TRUE
Rest(s)        == s \ {Chosen(s)}
SumStep(w, g, s) == IF s = {} THEN 0 ELSE w[Chosen(s)] + g[Rest(s)]
Sums(S, w, g)  == g = [s \in SUBSET S |-> SumStep(w, g, s)]

LEMMA ChosenIsThere == ASSUME NEW s, s # {} PROVE Chosen(s) \in s /\ Rest(s) \subseteq s /\ Rest(s) # s
BY DEF Chosen, Rest

LEMMA RestIsSmaller ==
  ASSUME NEW s, IsFiniteSet(s), s # {}
  PROVE  /\ IsFiniteSet(Rest(s)) /\ Cardinality(s) \in Nat /\ Cardinality(Rest(s)) \in Nat
         /\ Cardinality(Rest(s)) = Cardinality(s) - 1
<1>1. Chosen(s) \in s BY ChosenIsThere
<1> QED BY <1>1, FS_RemoveElement, FS_CardinalityType DEF Rest

\* There is such a sum of every finite set.
LEMMA SumsExist ==
  ASSUME NEW S, IsFiniteSet(S), NEW w \in [S -> Nat]
  PROVE  \E g \in [SUBSET S -> Nat] : Sums(S, w, g)
<1> DEFINE Right(n, g) == \A s \in SUBSET S : Cardinality(s) <= n => g[s] = SumStep(w, g, s)
           G == {n \in Nat : \E g \in [SUBSET S -> Nat] : Right(n, g)}
<1>0. \A s \in SUBSET S : IsFiniteSet(s) /\ Cardinality(s) \in Nat BY FS_Subset, FS_CardinalityType
<1>1. 0 \in G
  <2> DEFINE g == [s \in SUBSET S |-> 0]
  <2>1. g \in [SUBSET S -> Nat] OBVIOUS
  <2>2. \A s \in SUBSET S : Cardinality(s) <= 0 => s = {} BY <1>0, FS_EmptySet
  <2>3. Right(0, g) BY <2>2 DEF SumStep
  <2> QED BY <2>1, <2>3
<1>2. ASSUME NEW n \in Nat, n \in G PROVE n + 1 \in G
  <2>1. PICK g \in [SUBSET S -> Nat] : Right(n, g) BY <1>2
  <2> DEFINE h == [s \in SUBSET S |-> SumStep(w, g, s)]
  <2>2. ASSUME NEW s \in SUBSET S, s # {}
        PROVE  w[Chosen(s)] \in Nat /\ Rest(s) \in SUBSET S /\ g[Rest(s)] \in Nat BY <2>1, <2>2, ChosenIsThere
  <2>3. h \in [SUBSET S -> Nat]
    <3>1. ASSUME NEW s \in SUBSET S PROVE SumStep(w, g, s) \in Nat BY <2>2 DEF SumStep
    <3> QED BY <3>1
  <2>4. ASSUME NEW s \in SUBSET S, Cardinality(s) <= n + 1 PROVE h[s] = SumStep(w, h, s)
    <3>1. CASE s = {} BY <3>1 DEF SumStep
    <3>2. CASE s # {}
      <4>1. Rest(s) \in SUBSET S /\ Cardinality(Rest(s)) <= n BY <1>0, <2>2, <2>4, <3>2, RestIsSmaller
      <4>2. h[Rest(s)] = g[Rest(s)] BY <2>1, <4>1
      <4> QED BY <3>2, <4>2 DEF SumStep
    <3> QED BY <3>1, <3>2
  <2>5. Right(n + 1, h) BY <2>4
  <2>6. n + 1 \in Nat OBVIOUS
  <2> HIDE DEF h
  <2> QED BY <2>3, <2>5, <2>6
<1>3. Nat \subseteq G
  <2> HIDE DEF G
  <2> QED BY <1>1, <1>2, NumbersUp
<1>4. Cardinality(S) \in G BY <1>0, <1>3
<1>5. PICK g \in [SUBSET S -> Nat] : Right(Cardinality(S), g) BY <1>4
<1>6. \A s \in SUBSET S : Cardinality(s) <= Cardinality(S) BY FS_Subset
<1>7. \A s \in SUBSET S : g[s] = SumStep(w, g, s) BY <1>5, <1>6
<1>8. Sums(S, w, g) BY <1>7 DEF Sums
<1> QED BY <1>8

\* What holds of the empty set, and of a set if of the rest of it, holds of every subset.
LEMMA SubsetsUp ==
  ASSUME NEW S, IsFiniteSet(S), NEW P, {} \in P,
         \A s \in SUBSET S : s # {} /\ Rest(s) \in P => s \in P
  PROVE  SUBSET S \subseteq P
<1> DEFINE G == {n \in Nat : \A s \in SUBSET S : Cardinality(s) = n => s \in P}
<1>0. \A s \in SUBSET S : IsFiniteSet(s) /\ Cardinality(s) \in Nat BY FS_Subset, FS_CardinalityType
<1>1. 0 \in G BY <1>0, FS_EmptySet
<1>2. ASSUME NEW n \in Nat, n \in G PROVE n + 1 \in G
  <2>1. ASSUME NEW s \in SUBSET S, Cardinality(s) = n + 1 PROVE s \in P
    <3>1. s # {} BY <2>1, FS_EmptySet
    <3>2. Rest(s) \in SUBSET S /\ Cardinality(Rest(s)) = n BY <1>0, <2>1, <3>1, RestIsSmaller, ChosenIsThere
    <3> QED BY <1>2, <3>1, <3>2
  <2> QED BY <2>1
<1>3. Nat \subseteq G
  <2> HIDE DEF G
  <2> QED BY <1>1, <1>2, NumbersUp
<1> QED BY <1>0, <1>3

\* A sum is a number.
LEMMA SumIsNat ==
  ASSUME NEW S, IsFiniteSet(S), NEW w \in [S -> Nat], NEW g, Sums(S, w, g)
  PROVE  g \in [SUBSET S -> Nat] /\ g[{}] = 0
<1> DEFINE P == {s \in SUBSET S : g[s] \in Nat}
<1>1. {} \in P /\ g[{}] = 0 BY DEF Sums, SumStep
<1>2. ASSUME NEW s \in SUBSET S, s # {}, Rest(s) \in P PROVE s \in P
  <2>1. w[Chosen(s)] \in Nat BY <1>2, ChosenIsThere
  <2> QED BY <1>2, <2>1 DEF Sums, SumStep
<1>3. SUBSET S \subseteq P
  <2> HIDE DEF P
  <2> QED BY <1>1, <1>2, SubsetsUp
<1> QED BY <1>1, <1>3 DEF Sums

\* Two sums, one below the other element by element: they are equal where all elements are.
LEMMA SumsCompare ==
  ASSUME NEW S, IsFiniteSet(S), NEW w \in [S -> Nat], NEW v \in [S -> Nat], NEW g, NEW h,
         Sums(S, w, g), Sums(S, v, h), \A x \in S : w[x] <= v[x]
  PROVE  \A s \in SUBSET S : g[s] <= h[s] /\ (g[s] = h[s] <=> \A x \in s : w[x] = v[x])
<1>0. g \in [SUBSET S -> Nat] /\ h \in [SUBSET S -> Nat] /\ g[{}] = 0 /\ h[{}] = 0 BY SumIsNat
<1> DEFINE P == {s \in SUBSET S : g[s] <= h[s] /\ (g[s] = h[s] <=> \A x \in s : w[x] = v[x])}
<1>1. {} \in P BY <1>0
<1>2. ASSUME NEW s \in SUBSET S, s # {}, Rest(s) \in P PROVE s \in P
  <2>1. PICK x \in S : x = Chosen(s) /\ x \in s BY <1>2, ChosenIsThere
  <2>2. Rest(s) = s \ {x} BY <2>1 DEF Rest
  <2>3. g[s] = w[x] + g[Rest(s)] /\ h[s] = v[x] + h[Rest(s)] BY <1>2, <2>1 DEF Sums, SumStep
  <2>4. /\ g[Rest(s)] \in Nat /\ h[Rest(s)] \in Nat /\ w[x] \in Nat /\ v[x] \in Nat /\ w[x] <= v[x]
        /\ g[Rest(s)] <= h[Rest(s)] BY <1>0, <1>2
  <2>5. g[Rest(s)] = h[Rest(s)] <=> \A y \in s \ {x} : w[y] = v[y] BY <1>2, <2>2
  <2>6. g[s] <= h[s] /\ (g[s] = h[s] <=> w[x] = v[x] /\ g[Rest(s)] = h[Rest(s)]) BY <2>3, <2>4
  <2>7. (\A y \in s : w[y] = v[y]) <=> w[x] = v[x] /\ \A y \in s \ {x} : w[y] = v[y] BY <2>1
  <2> QED BY <2>5, <2>6, <2>7
<1>3. SUBSET S \subseteq P
  <2> HIDE DEF P
  <2> QED BY <1>1, <1>2, SubsetsUp
<1> QED BY <1>3

\* The element taken next may be any.
LEMMA AnyNext ==
  ASSUME NEW S, IsFiniteSet(S), NEW w \in [S -> Nat], NEW g, Sums(S, w, g)
  PROVE  \A s \in SUBSET S : \A x \in s : g[s] = w[x] + g[s \ {x}]
<1> DEFINE G == {n \in Nat : \A s \in SUBSET S : Cardinality(s) = n => \A x \in s : g[s] = w[x] + g[s \ {x}]}
<1>0. /\ \A s \in SUBSET S : IsFiniteSet(s) /\ Cardinality(s) \in Nat
      /\ g \in [SUBSET S -> Nat] /\ \A x \in S : w[x] \in Nat BY FS_Subset, FS_CardinalityType, SumIsNat
<1>1. 0 \in G BY <1>0, FS_EmptySet
<1>2. ASSUME NEW n \in Nat, n \in G PROVE n + 1 \in G
  <2>1. ASSUME NEW s \in SUBSET S, Cardinality(s) = n + 1, NEW x \in s PROVE g[s] = w[x] + g[s \ {x}]
    <3>1. PICK c \in s : c = Chosen(s) /\ Rest(s) = s \ {c} BY ChosenIsThere DEF Rest
    <3>2. g[s] = w[c] + g[s \ {c}] BY <2>1, <3>1 DEF Sums, SumStep
    <3>3. CASE x = c BY <3>2, <3>3
    <3>4. CASE x # c
      <4>1. Cardinality(s \ {c}) = n /\ Cardinality(s \ {x}) = n
        <5>1. IsFiniteSet(s) BY <1>0
        <5>2. \A y \in s : Cardinality(s \ {y}) = Cardinality(s) - 1 BY <5>1, FS_RemoveElement
        <5> QED BY <2>1, <5>2
      <4>2. g[s \ {c}] = w[x] + g[(s \ {c}) \ {x}] BY <1>2, <3>4, <4>1, s \ {c} \in SUBSET S, x \in s \ {c}
      <4>3. g[s \ {x}] = w[c] + g[(s \ {x}) \ {c}] BY <1>2, <3>4, <4>1, s \ {x} \in SUBSET S, c \in s \ {x}
      <4>4. (s \ {x}) \ {c} = (s \ {c}) \ {x} OBVIOUS
      <4>5. w[c] \in Nat /\ w[x] \in Nat /\ g[(s \ {c}) \ {x}] \in Nat BY <1>0
      <4> QED BY <3>2, <4>2, <4>3, <4>4, <4>5
    <3> QED BY <3>3, <3>4
  <2> QED BY <2>1
<1>3. Nat \subseteq G
  <2> HIDE DEF G
  <2> QED BY <1>1, <1>2, NumbersUp
<1> QED BY <1>0, <1>3

\* A sum over fewer elements, of less each, is not more.
LEMMA SumsShrink ==
  ASSUME NEW S, IsFiniteSet(S), NEW w \in [S -> Nat], NEW g, Sums(S, w, g),
         NEW T \in SUBSET S, NEW v \in [T -> Nat], NEW h, Sums(T, v, h), \A x \in T : v[x] <= w[x]
  PROVE  h[T] <= g[S]
<1>0. /\ IsFiniteSet(T) /\ g \in [SUBSET S -> Nat] /\ h \in [SUBSET T -> Nat] /\ g[{}] = 0 /\ h[{}] = 0
  BY FS_Subset, SumIsNat
\* Any set takes more than its part in T.
<1> DEFINE P == {s \in SUBSET S : h[s \cap T] <= g[s]}
<1>1. {} \in P
  <2>1. {} \cap T = {} OBVIOUS
  <2> QED BY <1>0, <2>1
<1>2. ASSUME NEW s \in SUBSET S, s # {}, Rest(s) \in P PROVE s \in P
  <2>1. PICK c \in s : c = Chosen(s) /\ Rest(s) = s \ {c} BY <1>2, ChosenIsThere DEF Rest
  <2>2. g[s] = w[c] + g[s \ {c}] BY <1>2, <2>1 DEF Sums, SumStep
  <2>3. h[(s \ {c}) \cap T] <= g[s \ {c}] BY <1>2, <2>1
  <2>4. w[c] \in Nat /\ g[s \ {c}] \in Nat /\ h[(s \ {c}) \cap T] \in Nat BY <1>0
  <2>5. CASE c \in T
    <3>1. h[s \cap T] = v[c] + h[(s \cap T) \ {c}] BY <1>0, <2>5, AnyNext
    <3>2. (s \cap T) \ {c} = (s \ {c}) \cap T /\ v[c] <= w[c] /\ v[c] \in Nat BY <2>5
    <3> QED BY <2>2, <2>3, <2>4, <3>1, <3>2
  <2>6. CASE c \notin T
    <3>1. s \cap T = (s \ {c}) \cap T BY <2>6
    <3> QED BY <2>2, <2>3, <2>4, <3>1
  <2> QED BY <2>5, <2>6
<1>3. SUBSET S \subseteq P
  <2> HIDE DEF P
  <2> QED BY <1>1, <1>2, SubsetsUp
<1>4. S \cap T = T OBVIOUS
<1> QED BY <1>3, <1>4

\* One more in one place is one more in all.
LEMMA SumsPlusOne ==
  ASSUME NEW S, IsFiniteSet(S), NEW w \in [S -> Nat], NEW g, Sums(S, w, g), NEW k \in S,
         NEW v \in [S -> Nat], NEW h, Sums(S, v, h), v[k] = w[k] + 1, \A x \in S \ {k} : v[x] = w[x]
  PROVE  h[S] = g[S] + 1
<1>0. g \in [SUBSET S -> Nat] /\ h \in [SUBSET S -> Nat] BY SumIsNat
<1>1. g[S] = w[k] + g[S \ {k}] /\ h[S] = v[k] + h[S \ {k}] BY AnyNext
<1>2. g[S \ {k}] = h[S \ {k}]
  <2>1. \A x \in S : w[x] <= v[x]
    <3>1. w[k] <= v[k] OBVIOUS
    <3>2. \A x \in S \ {k} : w[x] <= v[x] OBVIOUS
    <3> QED BY <3>1, <3>2
  <2>2. S \ {k} \in SUBSET S /\ \A x \in S \ {k} : w[x] = v[x] OBVIOUS
  <2> QED BY <2>1, <2>2, SumsCompare
<1>3. w[k] \in Nat /\ g[S \ {k}] \in Nat BY <1>0
<1> QED BY <1>1, <1>2, <1>3

(* Companions: which runs there are, who has still to see to them, and     *)
(* which write-back went through undisturbed.                              *)

AnalysisRows == [at : {"idle", "post", "record", "enqueue"}, says : {"none", "queued", "done", "error"},
                 run : Runs \cup {0}]
CallerRows   == [at : {"idle", "record", "hook", "enqueue"}, says : {"none", "done", "dead_letter"},
                 run : Runs \cup {0}]
RunRows      == [state : {"none", "running", "done", "dead_letter"}, told : 0..MaxReplies]
Ended        == {"done", "dead_letter"}
Accepted     == {r \in Runs : argusRun[r].state # "none"}

\* Argus numbers the runs it accepts from 1 on.
RunsInOrder == \E n \in Nat : Accepted = 1..n

\* What a hand-off holds: a run nobody else was given; and what it was told of it.
HandsOff(j) ==
  /\ analysis[j].at \in {"idle", "post"} => analysis[j].run = 0
  /\ analysis[j].run # 0 => analysis[j].run \in Accepted
  /\ analysis[j].at = "record" =>
       analysis[j].says # "none" /\ (analysis[j].says = "queued" => analysis[j].run # 0)
  /\ analysis[j].at = "enqueue" \/ (analysis[j].at = "record" /\ analysis[j].says = "done") =>
       analysis[j].run # 0 /\ argusRun[analysis[j].run].state = "done"
  /\ \A i \in Analyses \ {j} : analysis[j].run # 0 => analysis[i].run # analysis[j].run
  /\ analysis[j].at = "record" /\ analysis[j].says = "queued" /\ analysis[j].run \in answered =>
       analysis[j].run \in early

\* What a callback is about.
CallsBack(c) ==
  /\ caller[c].at = "idle" <=> caller[c].run = 0
  /\ caller[c].at # "idle" =>
       /\ argusRun[caller[c].run].state \in Ended /\ caller[c].says \in Ended
       /\ caller[c].says = "dead_letter" => argusRun[caller[c].run].state = "dead_letter"

HandInv ==
  /\ CompanionsTypeOK /\ RunsInOrder
  /\ (\A j \in Analyses : HandsOff(j)) /\ (\A c \in CallbackThreads : CallsBack(c))
  /\ \A r \in answered : argusRun[r].state \in Ended
  /\ EndedRunIsNotQueued /\ DoneRunIsWrittenBack

\* A write-back that is not mixed is alone and has written what it is past.
WritesAlone(r) ==
  /\ Writing = {r}
  /\ writeBack[r] = "half" => scoreOf[1] = r
  /\ writeBack[r] = "scored" => scoreOf[1] = r /\ scoreOf[2] = r
WriteInv == (\A r \in Writing \ mixed : WritesAlone(r)) /\ HeroesMatchScores

CompanionsInv == HandInv /\ WriteInv

\* The next run is one Argus has not accepted yet.
LEMMA NextRunIsNew ==
  ASSUME HandInv
  PROVE  \E n \in Nat : Accepted = 1..n /\ NextRun = n + 1 /\ NextRun \notin Accepted
<1>1. PICK n \in Nat : Accepted = 1..n BY DEF HandInv, RunsInOrder
<1>2. Cardinality(1..n) = n BY <1>1, FS_Interval
<1>3. NextRun = Cardinality(Accepted) + 1 BY DEF NextRun, Accepted
<1>4. NextRun = n + 1 BY <1>1, <1>2, <1>3
<1>5. n + 1 \notin 1..n BY <1>1
<1> QED BY <1>1, <1>4, <1>5

LEMMA ThreadsRest ==
  /\ AtRest \in AnalysisRows /\ AtRest \in CallerRows
  /\ AtRest.at = "idle" /\ AtRest.run = 0 /\ AtRest.says = "none"
BY DEF AtRest, AnalysisRows, CallerRows

\* One hand-off moves.
LEMMA AnalysisMoves ==
  ASSUME CompanionsTypeOK, NEW j \in Analyses, NEW row \in AnalysisRows, analysis' = [analysis EXCEPT ![j] = row]
  PROVE  /\ analysis' \in [Analyses -> AnalysisRows] /\ analysis'[j] = row
         /\ \A i \in Analyses \ {j} : analysis'[i] = analysis[i]
BY DEF CompanionsTypeOK, AnalysisRows

\* One callback moves.
LEMMA CallerMoves ==
  ASSUME CompanionsTypeOK, NEW c \in CallbackThreads, NEW row \in CallerRows, caller' = [caller EXCEPT ![c] = row]
  PROVE  /\ caller' \in [CallbackThreads -> CallerRows] /\ caller'[c] = row
         /\ \A d \in CallbackThreads \ {c} : caller'[d] = caller[d]
BY DEF CompanionsTypeOK, CallerRows

\* Who has still to see to a run that is done.
Seen(r) ==
  argusRun[r].state = "done" /\ writeBack[r] = "none" =>
      \/ r \in orphaned
      \/ \E c \in CallbackThreads : caller[c].run = r
      \/ \E j \in Analyses : analysis[j].run = r /\ analysis[j].at = "enqueue"
LEMMA SeenIs == DoneRunIsWrittenBack <=> \A r \in answered : Seen(r)
BY DEF DoneRunIsWrittenBack, Seen

\* What Follow leaves behind.
LEMMA Follows ==
  ASSUME CompanionsTypeOK, NEW r \in Runs, Follow(r)
  PROVE  /\ writeBack' \in [Runs -> {"none", "queued", "fetched", "half", "scored", "done", "lost"}]
         /\ plutusJob' \in {"none", "queued", "done", "error"} /\ UNCHANGED <<scoreOf, heroesOf>>
         /\ writeBack'[r] # "none" /\ Writing' = Writing
         /\ \A q \in Runs : /\ writeBack'[q] = "none" => writeBack[q] = "none"
                            /\ q \in Writing => writeBack'[q] = writeBack[q]
<1>1. writeBack' = [q \in Runs |-> IF q = r /\ writeBack[q] \in {"none", "done", "lost"}
                                   THEN "queued" ELSE writeBack[q]] BY DEF Follow, Requested
<1>2. writeBack \in [Runs -> {"none", "queued", "fetched", "half", "scored", "done", "lost"}] BY DEF CompanionsTypeOK
<1>3. writeBack' \in [Runs -> {"none", "queued", "fetched", "half", "scored", "done", "lost"}] BY <1>1, <1>2
<1>4. plutusJob' \in {"none", "queued", "done", "error"} /\ UNCHANGED <<scoreOf, heroesOf>>
  BY DEF CompanionsTypeOK, Follow
<1>5. Writing' = Writing BY <1>1, <1>2 DEF Writing
<1> QED BY <1>1, <1>2, <1>3, <1>4, <1>5 DEF Writing

\* What is written back, by whom.
LEMMA WriteStep ==
  ASSUME CompanionsInv, CompanionsNext
  PROVE  WriteInv'
<1>0. /\ CompanionsTypeOK /\ WriteInv /\ HeroesMatchScores
      /\ \A r \in Writing \ mixed : WritesAlone(r)
      /\ writeBack \in [Runs -> {"none", "queued", "fetched", "half", "scored", "done", "lost"}]
      /\ scoreOf \in [1..2 -> Runs \cup {0}]
      /\ \A j \in Analyses : HandsOff(j)
      /\ \A c \in CallbackThreads : CallsBack(c) BY DEF CompanionsInv, HandInv, WriteInv, CompanionsTypeOK
\* No step of a write-back.
<1>k. ASSUME Writing' = Writing, \A q \in Writing : writeBack'[q] = writeBack[q],
             UNCHANGED <<scoreOf, heroesOf, mixed>>
      PROVE  WriteInv' BY <1>0, <1>k DEF WriteInv, WritesAlone, HeroesMatchScores
<1>1. CASE UNCHANGED <<writeBack, scoreOf, heroesOf, mixed>>
  <2>1. Writing' = Writing BY <1>1 DEF Writing
  <2> QED BY <1>1, <1>k, <2>1
<1>2. ASSUME NEW r \in Runs, Follow(r), mixed' = mixed PROVE WriteInv' BY <1>0, <1>2, <1>k, Follows DEF Writing
<1>3. ASSUME NEW j \in Analyses, AnalysisFollows(j) PROVE WriteInv'
  <2>1. analysis[j].run \in Runs BY <1>0, <1>3 DEF AnalysisFollows, HandsOff, Accepted
  <2> QED BY <1>2, <1>3, <2>1 DEF AnalysisFollows, history
<1>4. ASSUME NEW c \in CallbackThreads, CallbackFollows(c) PROVE WriteInv'
  <2>1. caller[c].run \in Runs BY <1>0, <1>4 DEF CallbackFollows, CallsBack, CompanionsTypeOK
  <2> QED BY <1>2, <1>4, <2>1 DEF CallbackFollows, history
<1>5. ASSUME NEW r \in Runs, FetchExport(r) PROVE WriteInv'
  <2>1. writeBack[r] = "queued" /\ UNCHANGED <<scoreOf, heroesOf>> BY <1>5 DEF FetchExport
  <2>2. CASE writeBack' = [writeBack EXCEPT ![r] = "lost"] /\ UNCHANGED mixed
    <3>1. Writing' = Writing /\ \A q \in Writing : writeBack'[q] = writeBack[q] BY <1>0, <2>1, <2>2 DEF Writing
    <3> QED BY <1>k, <2>1, <2>2, <3>1
  <2>3. CASE /\ writeBack' = [writeBack EXCEPT ![r] = "fetched"]
             /\ mixed' = IF Writing # {} THEN (mixed \cup Writing) \cup {r} ELSE mixed \ {r}
    <3>1. Writing' = Writing \cup {r} BY <1>0, <2>3 DEF Writing
    <3>2. writeBack'[r] = "fetched" BY <1>0, <2>3
    <3>3. ASSUME NEW q \in Writing' \ mixed' PROVE WritesAlone(q)'
      <4>1. Writing = {} /\ q = r BY <2>3, <3>1, <3>3
      <4> QED BY <3>1, <3>2, <4>1 DEF WritesAlone
    <3> QED BY <3>1, <3>3 DEF WriteInv, HeroesMatchScores
  <2> QED BY <1>5, <2>2, <2>3 DEF FetchExport
<1>6. ASSUME NEW r \in Runs, WriteScore(r) PROVE WriteInv'
  <2>0. PICK n \in 1..2 : n = IF writeBack[r] = "fetched" THEN 1 ELSE 2 OBVIOUS
  <2>1. /\ writeBack[r] \in {"fetched", "half"} /\ UNCHANGED <<heroesOf, mixed>>
        /\ writeBack' = [writeBack EXCEPT ![r] = IF n = 1 THEN "half" ELSE "scored"]
        /\ scoreOf' = [scoreOf EXCEPT ![n] = r] BY <1>6, <2>0 DEF WriteScore, Scored, history
  <2>2. r \in Writing BY <2>1 DEF Writing
  <2>3. Writing' = Writing BY <1>0, <2>1 DEF Writing
  <2>4. ASSUME NEW q \in Writing' \ mixed' PROVE WritesAlone(q)'
    <3>1. WritesAlone(q) BY <1>0, <2>1, <2>3, <2>4
    <3>2. Writing = {r} /\ q = r BY <2>2, <3>1 DEF WritesAlone
    <3>3. CASE n = 1
      <4>1. writeBack'[r] = "half" /\ scoreOf'[1] = r BY <1>0, <2>1, <3>3
      <4> QED BY <2>3, <3>2, <4>1 DEF WritesAlone
    <3>4. CASE n = 2
      <4>1. writeBack'[r] = "scored" /\ scoreOf'[2] = r /\ scoreOf'[1] = scoreOf[1] BY <1>0, <2>1, <3>4
      <4>2. writeBack[r] = "half" BY <2>0, <2>1, <3>4
      <4> QED BY <2>3, <3>1, <3>2, <4>1, <4>2 DEF WritesAlone
    <3> QED BY <3>3, <3>4
  <2> QED BY <2>2, <2>3, <2>4 DEF WriteInv, HeroesMatchScores
<1>7. ASSUME NEW r \in Runs, WriteHeroes(r) PROVE WriteInv'
  <2>1. /\ writeBack[r] = "scored" /\ writeBack' = [writeBack EXCEPT ![r] = "done"] /\ heroesOf' = r
        /\ mixed' = (IF r \in mixed THEN mixed ELSE {}) /\ scoreOf' = scoreOf BY <1>7 DEF WriteHeroes
  <2>2. r \in Writing BY <2>1 DEF Writing
  <2>3. Writing' = Writing \ {r} BY <1>0, <2>1 DEF Writing
  <2>4. CASE r \in mixed
    <3>1. ASSUME NEW q \in Writing' \ mixed' PROVE FALSE
      <4>1. WritesAlone(q) /\ q # r BY <1>0, <2>1, <2>3, <2>4, <3>1
      <4> QED BY <2>2, <4>1 DEF WritesAlone
    <3> QED BY <2>1, <2>4, <3>1 DEF WriteInv, HeroesMatchScores
  <2>5. CASE r \notin mixed
    <3>1. WritesAlone(r) BY <1>0, <2>2, <2>5
    <3>2. Writing' = {} BY <2>3, <3>1 DEF WritesAlone
    <3>3. \A n \in 1..2 : scoreOf'[n] = heroesOf'
      <4>1. scoreOf[1] = r /\ scoreOf[2] = r BY <2>1, <3>1 DEF WritesAlone
      <4>2. \A n \in 1..2 : n = 1 \/ n = 2 OBVIOUS
      <4> QED BY <2>1, <4>1, <4>2
    <3> QED BY <3>2, <3>3 DEF WriteInv, HeroesMatchScores
  <2> QED BY <2>4, <2>5
<1>8. CASE CompanionsKill
  <2>1. /\ writeBack' = [r \in Runs |-> IF r \in Writing THEN "queued" ELSE writeBack[r]]
        /\ mixed' = mixed \cup Writing /\ UNCHANGED <<scoreOf, heroesOf>> BY <1>8 DEF CompanionsKill
  <2>2. Writing' = {} BY <1>0, <2>1 DEF Writing
  <2> QED BY <1>0, <2>1, <2>2 DEF WriteInv, HeroesMatchScores
<1> QED BY <1>1, <1>3, <1>4, <1>5, <1>6, <1>7, <1>8
        DEF CompanionsNext, GoLive, AnalyzeAgain, PostFails, PostAccepted, RecordAnswer, GoDark, Recommend,
            PlutusPosts, PlutusRecords, PlutusTells, ArgusEnds, CallbackRecords, CallbackHooks, Delivers,
            results, history

\* Types, step by step.
LEMMA CompanionsTypes ==
  ASSUME CompanionsInv, CompanionsNext
  PROVE  CompanionsTypeOK'
<1>0. /\ CompanionsTypeOK
      /\ (\A j \in Analyses : HandsOff(j)) /\ (\A c \in CallbackThreads : CallsBack(c))
      /\ online \in BOOLEAN
      /\ argusRow \in [status : {"", "queued", "done", "error"}, run : Runs \cup {0}]
      /\ analysis \in [Analyses -> AnalysisRows] /\ argusRun \in [Runs -> RunRows]
      /\ caller \in [CallbackThreads -> CallerRows]
      /\ writeBack \in [Runs -> {"none", "queued", "fetched", "half", "scored", "done", "lost"}]
      /\ scoreOf \in [1..2 -> Runs \cup {0}] /\ heroesOf \in Runs \cup {0} /\ packRow \in Runs \cup {0}
      /\ plutusJob \in {"none", "queued", "done", "error"} /\ plutusRow \in {"", "done", "error"}
      /\ early \subseteq Runs /\ answered \subseteq Runs /\ orphaned \subseteq Runs /\ mixed \subseteq Runs
      /\ Runs \subseteq Nat \ {0}
  BY CompanionsAssumption DEF CompanionsInv, HandInv, CompanionsTypeOK, AnalysisRows, RunRows, CallerRows
<1>t. SUFFICES
         /\ online' \in BOOLEAN
         /\ argusRow' \in [status : {"", "queued", "done", "error"}, run : Runs \cup {0}]
         /\ analysis' \in [Analyses -> AnalysisRows] /\ argusRun' \in [Runs -> RunRows]
         /\ caller' \in [CallbackThreads -> CallerRows]
         /\ writeBack' \in [Runs -> {"none", "queued", "fetched", "half", "scored", "done", "lost"}]
         /\ scoreOf' \in [1..2 -> Runs \cup {0}] /\ heroesOf' \in Runs \cup {0} /\ packRow' \in Runs \cup {0}
         /\ plutusJob' \in {"none", "queued", "done", "error"} /\ plutusRow' \in {"", "done", "error"}
         /\ early' \subseteq Runs /\ answered' \subseteq Runs /\ orphaned' \subseteq Runs /\ mixed' \subseteq Runs
  BY DEF CompanionsTypeOK, AnalysisRows, RunRows, CallerRows
<1> USE DEF handOffs, results, history
<1>1. ASSUME NEW j \in Analyses, GoLive(j) \/ AnalyzeAgain(j) PROVE analysis' \in [Analyses -> AnalysisRows]
  <2>0. analysis[j] \in AnalysisRows BY <1>0
  <2>1. [analysis[j] EXCEPT !.at = "post"] \in AnalysisRows BY <2>0 DEF AnalysisRows
  <2>2. analysis' = [analysis EXCEPT ![j] = [analysis[j] EXCEPT !.at = "post"]] BY <1>0, <1>1 DEF GoLive, AnalyzeAgain
  <2> QED BY <1>0, <2>1, <2>2, AnalysisMoves
<1>2. ASSUME NEW j \in Analyses, NEW says \in {"queued", "done", "error"}, NEW r \in Runs \cup {0}, Holds(j, says, r)
      PROVE  analysis' \in [Analyses -> AnalysisRows]
  <2>1. [at |-> "record", says |-> says, run |-> r] \in AnalysisRows BY DEF AnalysisRows
  <2> QED BY <1>0, <1>2, <2>1, AnalysisMoves DEF Holds
<1>3. CASE \E j \in Analyses : GoLive(j) \/ AnalyzeAgain(j) BY <1>0, <1>1, <1>3 DEF GoLive, AnalyzeAgain
<1>4. CASE \E j \in Analyses : PostFails(j) BY <1>0, <1>2, <1>4 DEF PostFails
<1>5. CASE \E j \in Analyses : PostAccepted(j)
  <2>1. PICK j \in Analyses : PostAccepted(j) BY <1>5
  <2>2. PICK says \in {"queued", "done", "error"} :
          /\ Holds(j, says, IF says = "error" THEN 0 ELSE NextRun)
          /\ argusRun' = [argusRun EXCEPT ![NextRun] =
               [state |-> IF says = "done" THEN "done" ELSE "running", told |-> 0]] BY <2>1 DEF PostAccepted
  <2>3. [state |-> IF says = "done" THEN "done" ELSE "running", told |-> 0] \in RunRows
    BY CompanionsAssumption DEF RunRows
  <2>4. NextRun \in Runs BY <2>1 DEF PostAccepted
  <2>5. analysis' \in [Analyses -> AnalysisRows] BY <1>2, <2>2, <2>4
  <2>6. argusRun' \in [Runs -> RunRows] BY <1>0, <2>2, <2>3, <2>4
  <2> QED BY <1>0, <2>1, <2>5, <2>6 DEF PostAccepted
<1>6. CASE \E j \in Analyses : RecordAnswer(j)
  <2>1. PICK j \in Analyses : RecordAnswer(j) BY <1>6
  <2>2. analysis[j] \in AnalysisRows /\ analysis[j].at = "record" BY <1>0, <2>1 DEF RecordAnswer
  <2>3. PICK row : row = IF analysis[j].says = "done" THEN [analysis[j] EXCEPT !.at = "enqueue"] ELSE AtRest
    OBVIOUS
  <2>4. row \in AnalysisRows BY <2>2, <2>3, ThreadsRest DEF AnalysisRows
  <2>5. analysis' = [analysis EXCEPT ![j] = row] BY <2>1, <2>3 DEF RecordAnswer
  <2>6. analysis' \in [Analyses -> AnalysisRows] BY <1>0, <2>4, <2>5, AnalysisMoves
  <2>7. analysis[j].says # "none" /\ (analysis[j].says = "done" => analysis[j].run \in Runs)
    BY <1>0, <2>2 DEF HandsOff, Accepted
  <2>8. argusRow' \in [status : {"", "queued", "done", "error"}, run : Runs \cup {0}]
    BY <2>1, <2>2, <2>7 DEF RecordAnswer, AnalysisRows
  <2>9. answered' \subseteq Runs BY <1>0, <2>1, <2>7 DEF RecordAnswer
  <2> QED BY <1>0, <2>1, <2>6, <2>8, <2>9 DEF RecordAnswer
<1>7. CASE \E j \in Analyses : AnalysisFollows(j)
  <2>1. PICK j \in Analyses : AnalysisFollows(j) BY <1>7
  <2>2. analysis[j].run \in Runs BY <1>0, <2>1 DEF AnalysisFollows, HandsOff, Accepted
  <2>3. analysis' \in [Analyses -> AnalysisRows] BY <1>0, <2>1, AnalysisMoves, ThreadsRest DEF AnalysisFollows
  <2>4. Follow(analysis[j].run) BY <2>1 DEF AnalysisFollows
  <2> QED BY <1>0, <2>1, <2>2, <2>3, <2>4, Follows DEF AnalysisFollows
<1>8. CASE GoDark \/ Recommend \/ PlutusPosts \/ PlutusRecords \/ PlutusTells
  BY <1>0, <1>8 DEF GoDark, Recommend, PlutusPosts, PlutusRecords, PlutusTells
<1>9. CASE \E r \in Runs : ArgusEnds(r)
  <2>1. PICK r \in Runs, s \in {"done", "dead_letter"} :
          /\ argusRun' = [argusRun EXCEPT ![r].state = s]
          /\ UNCHANGED <<online, analysis, caller, plutusJob, handOffs, results, history>> BY <1>9 DEF ArgusEnds
  <2>2. argusRun[r] \in RunRows BY <1>0
  <2>3. [argusRun[r] EXCEPT !.state = s] \in RunRows BY <2>2 DEF RunRows
  <2>4. argusRun' = [argusRun EXCEPT ![r] = [argusRun[r] EXCEPT !.state = s]] BY <1>0, <2>1
  <2>5. argusRun' \in [Runs -> RunRows] BY <1>0, <2>3, <2>4
  <2> QED BY <1>0, <2>1, <2>5
<1>10. CASE \E r \in Runs : FetchExport(r) \/ WriteScore(r) \/ WriteHeroes(r)
  <2>1. PICK r \in Runs : FetchExport(r) \/ WriteScore(r) \/ WriteHeroes(r) BY <1>10
  <2>2. UNCHANGED <<online, argusRow, analysis, argusRun, caller, packRow, plutusJob, plutusRow, early, answered, orphaned>>
    BY <2>1 DEF FetchExport, WriteScore, WriteHeroes
  <2>3. writeBack' \in [Runs -> {"none", "queued", "fetched", "half", "scored", "done", "lost"}]
    BY <1>0, <2>1 DEF FetchExport, WriteScore, WriteHeroes
  <2>4. mixed' \subseteq Runs
    <3>1. Writing \subseteq Runs BY DEF Writing
    <3>2. mixed' \subseteq (mixed \cup Writing) \cup {r} BY <2>1 DEF FetchExport, WriteScore, WriteHeroes
    <3> QED BY <1>0, <3>1, <3>2
  <2>5. scoreOf' \in [1..2 -> Runs \cup {0}] /\ heroesOf' \in Runs \cup {0}
    <3>1. CASE FetchExport(r) \/ WriteHeroes(r) BY <1>0, <3>1 DEF FetchExport, WriteHeroes
    <3>2. CASE WriteScore(r)
      <4>1. \E n \in 1..2 : scoreOf' = [scoreOf EXCEPT ![n] = r]
        <5>1. CASE writeBack[r] = "fetched" BY <3>2, <5>1 DEF WriteScore, Scored
        <5>2. CASE writeBack[r] # "fetched" BY <3>2, <5>2 DEF WriteScore, Scored
        <5> QED BY <5>1, <5>2
      <4> QED BY <1>0, <3>2, <4>1 DEF WriteScore
    <3> QED BY <2>1, <3>1, <3>2
  <2> QED BY <1>0, <2>2, <2>3, <2>4, <2>5
<1>11. CASE \E c \in CallbackThreads, r \in Runs : Delivers(c, r)
  <2>1. PICK c \in CallbackThreads, r \in Runs : Delivers(c, r) BY <1>11
  <2>2. argusRun[r] \in RunRows /\ argusRun[r].told < MaxReplies /\ argusRun[r].state \in Ended
    BY <1>0, <2>1 DEF Delivers, Ended
  <2>3. PICK says \in {"done", argusRun[r].state} :
             caller' = [caller EXCEPT ![c] = [at |-> "record", says |-> says, run |-> r]] BY <2>1 DEF Delivers
  <2>4. [at |-> "record", says |-> says, run |-> r] \in CallerRows BY <2>2, <2>3 DEF CallerRows, Ended
  <2>5. caller' \in [CallbackThreads -> CallerRows] BY <1>0, <2>3, <2>4, CallerMoves
  <2>6. argusRun[r].told + 1 \in 0..MaxReplies BY <2>2, CompanionsAssumption DEF RunRows
  <2>7. [argusRun[r] EXCEPT !.told = argusRun[r].told + 1] \in RunRows BY <2>2, <2>6 DEF RunRows
  <2>8. argusRun' = [argusRun EXCEPT ![r] = [argusRun[r] EXCEPT !.told = argusRun[r].told + 1]]
    BY <1>0, <2>1 DEF Delivers
  <2>9. argusRun' \in [Runs -> RunRows] BY <1>0, <2>7, <2>8
  <2> QED BY <1>0, <2>1, <2>5, <2>9 DEF Delivers
<1>12. CASE \E c \in CallbackThreads : CallbackRecords(c) \/ CallbackHooks(c) \/ CallbackFollows(c)
  <2>1. PICK c \in CallbackThreads : CallbackRecords(c) \/ CallbackHooks(c) \/ CallbackFollows(c) BY <1>12
  <2>2. caller[c] \in CallerRows /\ caller[c].at # "idle"
    BY <1>0, <2>1 DEF CallbackRecords, CallbackHooks, CallbackFollows
  <2>3. caller[c].run \in Runs BY <1>0, <2>2 DEF CallsBack, CallerRows
  <2>4. PICK row \in CallerRows : caller' = [caller EXCEPT ![c] = row]
    <3>1. \A p \in {"hook", "enqueue"} : [caller[c] EXCEPT !.at = p] \in CallerRows BY <2>2 DEF CallerRows
    <3>2. CASE CallbackRecords(c) BY <3>1, <3>2, ThreadsRest DEF CallbackRecords
    <3>3. CASE CallbackHooks(c)
      <4>1. caller' = [caller EXCEPT ![c] = [caller[c] EXCEPT !.at = "enqueue"]] BY <1>0, <3>3 DEF CallbackHooks
      <4> QED BY <3>1, <4>1
    <3>4. CASE CallbackFollows(c) BY <3>4, ThreadsRest DEF CallbackFollows
    <3> QED BY <2>1, <3>2, <3>3, <3>4
  <2>5. caller' \in [CallbackThreads -> CallerRows] BY <1>0, <2>4, CallerMoves
  <2>6. CASE CallbackRecords(c)
    <3>1. argusRow' \in [status : {"", "queued", "done", "error"}, run : Runs \cup {0}]
      BY <2>3, <2>6 DEF CallbackRecords, Verdict
    <3>2. answered' \subseteq Runs /\ early' \subseteq Runs BY <1>0, <2>3, <2>6 DEF CallbackRecords
    <3> QED BY <1>0, <2>5, <2>6, <3>1, <3>2 DEF CallbackRecords
  <2>7. CASE CallbackHooks(c) BY <1>0, <2>3, <2>5, <2>7 DEF CallbackHooks
  <2>8. CASE CallbackFollows(c) BY <1>0, <2>3, <2>5, <2>8, Follows DEF CallbackFollows
  <2> QED BY <2>1, <2>6, <2>7, <2>8
<1>13. CASE CompanionsKill
  <2> DEFINE busy == {j \in Analyses : analysis[j].at # "idle"}
             calls == {c \in CallbackThreads : caller[c].at # "idle"}
  <2>1. /\ analysis' = [j \in Analyses |-> IF j \in busy THEN [AtRest EXCEPT !.at = "post"] ELSE AtRest]
        /\ orphaned' = (orphaned \cup {caller[c].run : c \in calls}) \cup ({analysis[j].run : j \in busy} \ {0})
        /\ caller' = [c \in CallbackThreads |-> AtRest]
        /\ writeBack' = [r \in Runs |-> IF r \in Writing THEN "queued" ELSE writeBack[r]]
        /\ mixed' = mixed \cup Writing
        /\ plutusJob' = (IF plutusJob = "none" THEN plutusJob ELSE "queued")
        /\ UNCHANGED <<online, argusRun, argusRow, plutusRow, packRow, scoreOf, heroesOf, early, answered>>
    BY <1>13 DEF CompanionsKill
  <2>2. [AtRest EXCEPT !.at = "post"] \in AnalysisRows BY ThreadsRest DEF AnalysisRows
  <2>3. analysis' \in [Analyses -> AnalysisRows] BY <2>1, <2>2, ThreadsRest
  <2>4. \A c \in calls : caller[c].run \in Runs BY <1>0 DEF CallsBack, CallerRows
  <2>5. \A j \in busy : analysis[j].run \in Runs \cup {0} BY <1>0 DEF AnalysisRows
  <2>6. orphaned' \subseteq Runs
    <3>1. {caller[c].run : c \in calls} \subseteq Runs BY <2>4
    <3>2. {analysis[j].run : j \in busy} \subseteq Runs \cup {0} BY <2>5
    <3> HIDE DEF calls, busy
    <3> QED BY <1>0, <2>1, <3>1, <3>2
  <2>7. caller' \in [CallbackThreads -> CallerRows] BY <2>1, ThreadsRest
  <2>8. /\ writeBack' \in [Runs -> {"none", "queued", "fetched", "half", "scored", "done", "lost"}]
        /\ mixed' \subseteq Runs BY <1>0, <2>1 DEF Writing
  <2> HIDE DEF busy, calls
  <2> QED BY <1>0, <2>1, <2>3, <2>6, <2>7, <2>8
<1> QED BY <1>3, <1>4, <1>5, <1>6, <1>7, <1>8, <1>9, <1>10, <1>11, <1>12, <1>13 DEF CompanionsInv, CompanionsNext

\* What Argus has accepted stays accepted, and what it has ended stays as it ended.
RunsGoOn ==
  \A r \in Runs : /\ argusRun[r].state \in Ended => argusRun'[r].state = argusRun[r].state
                  /\ argusRun[r].state # "none" => argusRun'[r].state # "none"

LEMMA HandsOn ==
  ASSUME NEW j \in Analyses, HandsOff(j), analysis'[j] = analysis[j], RunsGoOn, early \subseteq early',
         analysis[j].at = "record" /\ analysis[j].says = "queued" /\ analysis[j].run \in answered' =>
           analysis[j].run \in answered \/ analysis[j].run \in early',
         \A i \in Analyses \ {j} : \/ analysis'[i].run = analysis[i].run
                                   \/ analysis'[i].run = 0 \/ analysis'[i].run \notin Accepted
  PROVE  HandsOff(j)'
<1>1. analysis[j].run # 0 => analysis[j].run \in Accepted /\ analysis[j].run \in Accepted'
  BY DEF HandsOff, RunsGoOn, Accepted
<1>2. analysis[j].run # 0 => \A i \in Analyses \ {j} : analysis'[i].run # analysis[j].run BY <1>1 DEF HandsOff
<1>3. analysis[j].run # 0 /\ argusRun[analysis[j].run].state = "done" => argusRun'[analysis[j].run].state = "done"
  BY <1>1 DEF RunsGoOn, Accepted, Ended
<1> QED BY <1>1, <1>2, <1>3 DEF HandsOff

LEMMA CallsOn ==
  ASSUME CompanionsTypeOK, NEW c \in CallbackThreads, CallsBack(c), caller'[c] = caller[c], RunsGoOn
  PROVE  CallsBack(c)'
<1>1. caller[c].at # "idle" => caller[c].run \in Runs BY DEF CallsBack, CompanionsTypeOK
<1> QED BY <1>1 DEF CallsBack, RunsGoOn, Ended

LEMMA HandStep ==
  ASSUME CompanionsInv, CompanionsNext
  PROVE  HandInv'
<1>0. /\ CompanionsTypeOK /\ CompanionsTypeOK' /\ RunsInOrder /\ HandInv
      /\ (\A j \in Analyses : HandsOff(j)) /\ (\A c \in CallbackThreads : CallsBack(c))
      /\ (\A r \in answered : argusRun[r].state \in Ended)
      /\ EndedRunIsNotQueued /\ DoneRunIsWrittenBack BY CompanionsTypes DEF CompanionsInv, HandInv
<1>y. /\ analysis \in [Analyses -> AnalysisRows] /\ argusRun \in [Runs -> RunRows]
      /\ caller \in [CallbackThreads -> CallerRows] /\ answered \subseteq Runs /\ answered' \subseteq Runs
      /\ Runs \subseteq Nat \ {0}
      /\ writeBack \in [Runs -> {"none", "queued", "fetched", "half", "scored", "done", "lost"}]
  BY <1>0, CompanionsAssumption DEF CompanionsTypeOK, AnalysisRows, RunRows, CallerRows
<1>s. \A r \in answered : Seen(r) BY <1>0, SeenIs
\* Steps of a hand-off.
<1>h. ASSUME NEW j \in Analyses, NEW row \in AnalysisRows, analysis' = [analysis EXCEPT ![j] = row],
             UNCHANGED <<argusRun, caller, orphaned, early>>, HandsOff(j)',
             row.run \in {0, analysis[j].run},
             EndedRunIsNotQueued', \A r \in answered' : Seen(r)',
             \A r \in answered' \ answered : r = analysis[j].run /\ r # 0 /\ argusRun[r].state \in Ended
      PROVE  HandInv'
  <2>1. analysis'[j] = row /\ \A i \in Analyses \ {j} : analysis'[i] = analysis[i] BY <1>0, <1>h, AnalysisMoves
  <2>2. RunsGoOn BY <1>h DEF RunsGoOn
  <2>3. ASSUME NEW i \in Analyses PROVE HandsOff(i)'
    <3>1. CASE i = j BY <1>h, <3>1
    <3>2. CASE i # j
      <4>1. analysis[i].run \notin answered' \ answered BY <1>0, <1>h, <3>2 DEF HandsOff
      <4> QED BY <1>0, <1>h, <2>1, <2>2, <3>2, <4>1, HandsOn
    <3> QED BY <3>1, <3>2
  <2>4. \A c \in CallbackThreads : CallsBack(c)' BY <1>0, <1>h, <2>2, CallsOn
  <2>5. \A r \in answered' : argusRun'[r].state \in Ended BY <1>0, <1>h
  <2>6. RunsInOrder' BY <1>0, <1>h DEF RunsInOrder, Accepted
  <2>7. DoneRunIsWrittenBack' BY <1>h DEF DoneRunIsWrittenBack, Seen
  <2> QED BY <1>0, <1>h, <2>3, <2>4, <2>5, <2>6, <2>7 DEF HandInv
\* Where only the job of a hand-off moves, the runs that are done keep whom they have.
<1>i. ASSUME NEW j \in Analyses, NEW row \in AnalysisRows, analysis' = [analysis EXCEPT ![j] = row],
             UNCHANGED <<argusRun, caller, orphaned, answered, writeBack>>, analysis[j].at # "enqueue"
      PROVE  \A r \in answered' : Seen(r)'
  <2>1. analysis'[j] = row /\ \A i \in Analyses \ {j} : analysis'[i] = analysis[i] BY <1>0, <1>i, AnalysisMoves
  <2> QED BY <1>s, <1>i, <2>1 DEF Seen
<1>1. ASSUME NEW j \in Analyses, GoLive(j) \/ AnalyzeAgain(j) PROVE HandInv'
  <2>0. analysis[j] \in AnalysisRows BY <1>y
  <2>1. PICK row : row = [analysis[j] EXCEPT !.at = "post"] OBVIOUS
  <2>2. row \in AnalysisRows /\ row.at = "post" /\ row.run = analysis[j].run /\ row.says = analysis[j].says
    BY <2>0, <2>1 DEF AnalysisRows
  <2>3. /\ analysis' = [analysis EXCEPT ![j] = row] /\ analysis[j].at = "idle"
        /\ UNCHANGED <<argusRun, caller, argusRow, writeBack, orphaned, early, answered>>
    BY <1>y, <1>1, <2>1 DEF GoLive, AnalyzeAgain, handOffs, results, history
  <2>4. HandsOff(j)'
    <3>1. analysis'[j] = row /\ \A i \in Analyses \ {j} : analysis'[i] = analysis[i]
      BY <1>0, <2>2, <2>3, AnalysisMoves
    <3> QED BY <1>0, <2>2, <2>3, <3>1 DEF HandsOff
  <2>5. EndedRunIsNotQueued' BY <1>0, <2>3 DEF EndedRunIsNotQueued
  <2> QED BY <1>h, <1>i, <2>2, <2>3, <2>4, <2>5
<1>2. ASSUME NEW j \in Analyses, PostFails(j) PROVE HandInv'
  <2>1. PICK row : row = [at |-> "record", says |-> "error", run |-> 0] OBVIOUS
  <2>2. row \in AnalysisRows BY <2>1 DEF AnalysisRows
  <2>3. /\ analysis' = [analysis EXCEPT ![j] = row] /\ analysis[j].at = "post"
        /\ UNCHANGED <<argusRun, caller, argusRow, writeBack, orphaned, early, answered>>
    BY <1>2, <2>1 DEF PostFails, Holds, handOffs, results, history
  <2>4. HandsOff(j)'
    <3>1. analysis'[j] = row /\ \A i \in Analyses \ {j} : analysis'[i] = analysis[i]
      BY <1>0, <2>2, <2>3, AnalysisMoves
    <3> QED BY <1>0, <2>1, <2>3, <3>1 DEF HandsOff
  <2>5. EndedRunIsNotQueued' BY <1>0, <2>3 DEF EndedRunIsNotQueued
  <2> QED BY <1>h, <1>i, <2>1, <2>2, <2>3, <2>4, <2>5
<1>3. ASSUME NEW j \in Analyses, PostAccepted(j) PROVE HandInv'
  <2>0. PICK q \in Runs, n \in Nat : q = NextRun /\ Accepted = 1..n /\ q = n + 1 /\ q \notin Accepted
    BY <1>0, <1>3, NextRunIsNew DEF PostAccepted
  <2>1. PICK says \in {"queued", "done", "error"} :
          /\ Holds(j, says, IF says = "error" THEN 0 ELSE q)
          /\ argusRun' = [argusRun EXCEPT ![q] = [state |-> IF says = "done" THEN "done" ELSE "running", told |-> 0]]
    BY <1>3, <2>0 DEF PostAccepted
  <2>2. PICK row : row = [at |-> "record", says |-> says, run |-> IF says = "error" THEN 0 ELSE q] OBVIOUS
  <2>3. row \in AnalysisRows BY <2>2 DEF AnalysisRows
  <2>4. /\ analysis' = [analysis EXCEPT ![j] = row] /\ analysis[j].at = "post"
        /\ UNCHANGED <<caller, argusRow, writeBack, orphaned, early, answered>>
    BY <1>3, <2>1, <2>2 DEF PostAccepted, Holds, handOffs, results, history
  <2>5. analysis'[j] = row /\ \A i \in Analyses \ {j} : analysis'[i] = analysis[i] BY <1>0, <2>3, <2>4, AnalysisMoves
  <2>6. /\ argusRun'[q].state = IF says = "done" THEN "done" ELSE "running"
        /\ \A r \in Runs \ {q} : argusRun'[r] = argusRun[r] BY <1>y, <2>1
  <2>7. argusRun[q].state = "none" BY <2>0 DEF Accepted
  <2>8. RunsGoOn BY <2>6, <2>7 DEF RunsGoOn, Ended
  <2>9. Accepted' = Accepted \cup {q} BY <2>6 DEF Accepted
  <2>10. RunsInOrder'
    <3>1. 1..n \cup {n + 1} = 1..(n + 1) BY <2>0
    <3> QED BY <2>0, <2>9, <3>1 DEF RunsInOrder
  <2>11. q \notin answered BY <1>0, <2>7 DEF Ended
  <2>12. HandsOff(j)'
    <3>1. \A i \in Analyses \ {j} : analysis[i].run # 0 => analysis[i].run \in Accepted BY <1>0 DEF HandsOff
    <3>2. row.run # 0 => row.run = q /\ \A i \in Analyses \ {j} : analysis'[i].run # q BY <1>y, <2>0, <2>2, <2>5, <3>1
    <3>3. q # 0 BY <1>y
    <3> QED BY <2>2, <2>4, <2>5, <2>6, <2>9, <2>11, <3>2, <3>3 DEF HandsOff
  <2>13. ASSUME NEW i \in Analyses, i # j PROVE HandsOff(i)'
    <3>1. analysis'[j].run = 0 \/ analysis'[j].run \notin Accepted BY <2>0, <2>2, <2>5
    <3> QED BY <1>0, <2>4, <2>5, <2>8, <2>13, <3>1, HandsOn
  <2>14. \A c \in CallbackThreads : CallsBack(c)' BY <1>0, <2>4, <2>8, CallsOn
  <2>15. \A r \in answered' : argusRun'[r].state \in Ended /\ argusRun'[r] = argusRun[r]
    BY <1>0, <1>y, <2>4, <2>6, <2>11
  <2>16. \A r \in answered' : Seen(r)' BY <1>s, <2>4, <2>5, <2>15 DEF Seen
  <2>17. EndedRunIsNotQueued' /\ DoneRunIsWrittenBack'
    BY <1>0, <2>4, <2>16 DEF EndedRunIsNotQueued, DoneRunIsWrittenBack, Seen
  <2> QED BY <1>0, <2>10, <2>12, <2>13, <2>14, <2>15, <2>17 DEF HandInv
<1>4. ASSUME NEW j \in Analyses, RecordAnswer(j) PROVE HandInv'
  <2>0. analysis[j] \in AnalysisRows BY <1>y
  <2>1. PICK row : row = IF analysis[j].says = "done" THEN [analysis[j] EXCEPT !.at = "enqueue"] ELSE AtRest
    OBVIOUS
  <2>2. /\ row \in AnalysisRows
        /\ analysis[j].says = "done" => row.at = "enqueue" /\ row.says = "done" /\ row.run = analysis[j].run
        /\ analysis[j].says # "done" => row.at = "idle" /\ row.says = "none" /\ row.run = 0
    BY <2>0, <2>1, ThreadsRest DEF AnalysisRows
  <2>3. /\ analysis' = [analysis EXCEPT ![j] = row] /\ analysis[j].at = "record"
        /\ argusRow' = [status |-> analysis[j].says, run |-> analysis[j].run]
        /\ answered' = IF analysis[j].says = "done" THEN answered \cup {analysis[j].run} ELSE answered
        /\ UNCHANGED <<argusRun, caller, writeBack, orphaned, early>> BY <1>4, <2>1 DEF RecordAnswer, results
  <2>4. analysis'[j] = row /\ \A i \in Analyses \ {j} : analysis'[i] = analysis[i] BY <1>0, <2>2, <2>3, AnalysisMoves
  <2>5. HandsOff(j) BY <1>0
  <2>6. HandsOff(j)' BY <2>2, <2>3, <2>4, <2>5 DEF HandsOff, Accepted
  <2>7. EndedRunIsNotQueued' BY <2>3, <2>5 DEF EndedRunIsNotQueued, HandsOff
  <2>8. \A r \in answered' : Seen(r)'
    <3>1. ASSUME NEW r \in answered PROVE Seen(r)'
      <4>1. SUFFICES ASSUME argusRun[r].state = "done", writeBack[r] = "none"
                     PROVE  \/ r \in orphaned \/ \E c \in CallbackThreads : caller[c].run = r
                            \/ \E i \in Analyses : analysis'[i].run = r /\ analysis'[i].at = "enqueue"
        BY <2>3 DEF Seen
      <4>2. ASSUME NEW i \in Analyses, analysis[i].run = r, analysis[i].at = "enqueue"
            PROVE  analysis'[i].run = r /\ analysis'[i].at = "enqueue"
        <5>1. i # j BY <2>3, <4>2
        <5> QED BY <2>4, <4>2, <5>1
      <4> QED BY <1>s, <4>1, <4>2 DEF Seen
    <3>2. ASSUME NEW r \in answered', analysis[j].says = "done", r = analysis[j].run PROVE Seen(r)'
      BY <2>2, <2>3, <2>4, <3>2 DEF Seen
    <3>3. \A r \in answered' : r \in answered \/ (analysis[j].says = "done" /\ r = analysis[j].run) BY <2>3
    <3> QED BY <3>1, <3>2, <3>3
  <2>9. \A r \in answered' \ answered : r = analysis[j].run /\ r # 0 /\ argusRun[r].state \in Ended
    BY <2>3, <2>5 DEF HandsOff, Ended
  <2> QED BY <1>h, <2>2, <2>3, <2>6, <2>7, <2>8, <2>9
<1>5. ASSUME NEW j \in Analyses, AnalysisFollows(j) PROVE HandInv'
  <2>1. PICK r \in Runs : r = analysis[j].run BY <1>0, <1>5 DEF AnalysisFollows, HandsOff, Accepted
  <2>2. /\ analysis' = [analysis EXCEPT ![j] = AtRest] /\ Follow(r)
        /\ UNCHANGED <<argusRun, caller, argusRow, orphaned, early, answered>>
    BY <1>5, <2>1 DEF AnalysisFollows, handOffs, history
  <2>3. analysis'[j] = AtRest /\ \A i \in Analyses \ {j} : analysis'[i] = analysis[i]
    BY <1>0, <2>2, AnalysisMoves, ThreadsRest
  <2>4. HandsOff(j)' BY <2>3, ThreadsRest DEF HandsOff
  <2>5. EndedRunIsNotQueued' BY <1>0, <2>2 DEF EndedRunIsNotQueued
  <2>6. writeBack'[r] # "none" /\ \A q \in Runs : writeBack'[q] = "none" => writeBack[q] = "none"
    BY <1>0, <2>2, Follows
  <2>7. \A q \in answered' : Seen(q)' BY <1>s, <1>y, <2>1, <2>2, <2>3, <2>6 DEF Seen
  <2> QED BY <1>h, <2>2, <2>4, <2>5, <2>7, ThreadsRest
\* Steps that leave the hand-offs, and what was told, alone.
<1>r. ASSUME UNCHANGED <<analysis, argusRow, orphaned, early, answered>>, RunsGoOn, RunsInOrder',
             \A c \in CallbackThreads : CallsBack(c)',
             \A r \in answered : Seen(r)'
      PROVE  HandInv'
  <2>1. \A j \in Analyses : HandsOff(j)' BY <1>0, <1>r, HandsOn
  <2>2. \A r \in answered' : argusRun'[r].state \in Ended BY <1>0, <1>y, <1>r DEF RunsGoOn
  <2>3. EndedRunIsNotQueued' BY <1>0, <1>r DEF EndedRunIsNotQueued
  <2>4. DoneRunIsWrittenBack' BY <1>r DEF DoneRunIsWrittenBack, Seen
  <2> QED BY <1>0, <1>r, <2>1, <2>2, <2>3, <2>4 DEF HandInv
<1>6. CASE GoDark \/ Recommend \/ PlutusPosts \/ PlutusRecords \/ PlutusTells
  <2>1. UNCHANGED <<analysis, argusRun, caller, argusRow, writeBack, orphaned, early, answered>>
    BY <1>6 DEF GoDark, Recommend, PlutusPosts, PlutusRecords, PlutusTells, handOffs, results, history
  <2>2. RunsGoOn /\ RunsInOrder' BY <1>0, <2>1 DEF RunsGoOn, RunsInOrder, Accepted
  <2>3. \A r \in answered : Seen(r)' BY <1>s, <2>1 DEF Seen
  <2> QED BY <1>0, <1>r, <2>1, <2>2, <2>3, CallsOn
<1>7. ASSUME NEW r \in Runs, FetchExport(r) \/ WriteScore(r) \/ WriteHeroes(r) PROVE HandInv'
  <2>1. UNCHANGED <<analysis, argusRun, caller, argusRow, orphaned, early, answered>>
    BY <1>7 DEF FetchExport, WriteScore, WriteHeroes, handOffs, history
  <2>2. RunsGoOn /\ RunsInOrder' BY <1>0, <2>1 DEF RunsGoOn, RunsInOrder, Accepted
  <2>3. \A q \in Runs : writeBack'[q] = "none" => writeBack[q] = "none"
    BY <1>y, <1>7 DEF FetchExport, WriteScore, WriteHeroes
  <2>4. \A q \in answered : Seen(q)' BY <1>s, <1>y, <2>1, <2>3 DEF Seen
  <2> QED BY <1>0, <1>r, <2>1, <2>2, <2>4, CallsOn
<1>8. ASSUME NEW r \in Runs, ArgusEnds(r) PROVE HandInv'
  <2>1. PICK s \in {"done", "dead_letter"} :
          /\ argusRun' = [argusRun EXCEPT ![r].state = s] /\ argusRun[r].state = "running"
          /\ UNCHANGED <<analysis, caller, argusRow, writeBack, orphaned, early, answered>>
    BY <1>8 DEF ArgusEnds, handOffs, results, history
  <2>2. /\ argusRun'[r].state = s /\ \A q \in Runs \ {r} : argusRun'[q] = argusRun[q]
    <3>1. argusRun[r] \in RunRows BY <1>y
    <3>2. [argusRun[r] EXCEPT !.state = s].state = s BY <3>1 DEF RunRows
    <3>3. argusRun' = [argusRun EXCEPT ![r] = [argusRun[r] EXCEPT !.state = s]] BY <1>y, <2>1
    <3> QED BY <1>y, <3>2, <3>3
  <2>3. RunsGoOn BY <2>1, <2>2 DEF RunsGoOn, Ended
  <2>4. Accepted' = Accepted BY <2>1, <2>2 DEF Accepted
  <2>5. RunsInOrder' BY <1>0, <2>4 DEF RunsInOrder
  <2>6. \A q \in answered : argusRun'[q] = argusRun[q] BY <1>0, <1>y, <2>1, <2>2 DEF Ended
  <2>7. \A q \in answered : Seen(q)' BY <1>s, <2>1, <2>6 DEF Seen
  <2> QED BY <1>0, <1>r, <2>1, <2>3, <2>5, <2>7, CallsOn
\* A callback moves: it keeps its run, or has one that is not done, or has seen to it.
<1>9. ASSUME NEW c \in CallbackThreads, NEW r \in Runs, Delivers(c, r) PROVE HandInv'
  <2>1. PICK says \in {"done", argusRun[r].state} :
          /\ caller' = [caller EXCEPT ![c] = [at |-> "record", says |-> says, run |-> r]]
          /\ caller[c].at = "idle" /\ argusRun[r].state \in Ended
          /\ argusRun' = [argusRun EXCEPT ![r].told = @ + 1]
          /\ UNCHANGED <<analysis, argusRow, writeBack, orphaned, early, answered>>
    BY <1>9 DEF Delivers, Ended, handOffs, results, history
  <2>2. \A q \in Runs : argusRun'[q].state = argusRun[q].state
    <3>1. argusRun[r] \in RunRows BY <1>y
    <3>2. [argusRun[r] EXCEPT !.told = argusRun[r].told + 1].state = argusRun[r].state BY <3>1 DEF RunRows
    <3>3. argusRun' = [argusRun EXCEPT ![r] = [argusRun[r] EXCEPT !.told = argusRun[r].told + 1]] BY <1>y, <2>1
    <3> QED BY <1>y, <3>2, <3>3
  <2>3. RunsGoOn /\ Accepted' = Accepted BY <2>2 DEF RunsGoOn, Accepted
  <2>4. RunsInOrder' BY <1>0, <2>3 DEF RunsInOrder
  <2>5. PICK row : row = [at |-> "record", says |-> says, run |-> r] OBVIOUS
  <2>6. row \in CallerRows BY <2>1, <2>5 DEF CallerRows, Ended
  <2>7. caller'[c] = row /\ \A d \in CallbackThreads \ {c} : caller'[d] = caller[d]
    BY <1>0, <2>1, <2>5, <2>6, CallerMoves
  <2>8. CallsBack(c)' BY <1>y, <2>1, <2>2, <2>5, <2>7 DEF CallsBack, Ended
  <2>9. \A d \in CallbackThreads : CallsBack(d)' BY <1>0, <2>3, <2>7, <2>8, CallsOn
  <2>10. caller[c].run \notin Runs BY <1>0, <1>y, <2>1 DEF CallsBack
  <2>11. \A q \in answered : Seen(q)' BY <1>s, <1>y, <2>1, <2>2, <2>7, <2>10 DEF Seen
  <2> QED BY <1>r, <2>1, <2>3, <2>4, <2>9, <2>11
<1>10. ASSUME NEW c \in CallbackThreads, CallbackHooks(c) PROVE HandInv'
  <2>0. caller[c] \in CallerRows BY <1>y
  <2>1. PICK row : row = [caller[c] EXCEPT !.at = "enqueue"] OBVIOUS
  <2>2. row \in CallerRows /\ row.at = "enqueue" /\ row.run = caller[c].run /\ row.says = caller[c].says
    BY <2>0, <2>1 DEF CallerRows
  <2>3. /\ caller' = [caller EXCEPT ![c] = row] /\ caller[c].at = "hook"
        /\ UNCHANGED <<analysis, argusRun, argusRow, writeBack, orphaned, early, answered>>
    BY <1>y, <1>10, <2>1 DEF CallbackHooks, results, history
  <2>4. caller'[c] = row /\ \A d \in CallbackThreads \ {c} : caller'[d] = caller[d] BY <1>0, <2>2, <2>3, CallerMoves
  <2>5. RunsGoOn /\ RunsInOrder' BY <1>0, <2>3 DEF RunsGoOn, RunsInOrder, Accepted
  <2>6. CallsBack(c)' BY <1>0, <2>2, <2>3, <2>4 DEF CallsBack
  <2>7. \A d \in CallbackThreads : CallsBack(d)' BY <1>0, <2>4, <2>5, <2>6, CallsOn
  <2>8. \A q \in answered : Seen(q)' BY <1>s, <2>2, <2>3, <2>4 DEF Seen
  <2> QED BY <1>r, <2>3, <2>5, <2>7, <2>8
<1>11. ASSUME NEW c \in CallbackThreads, CallbackFollows(c) PROVE HandInv'
  <2>1. PICK r \in Runs : r = caller[c].run BY <1>0, <1>y, <1>11 DEF CallbackFollows, CallsBack, CallerRows
  <2>2. /\ caller' = [caller EXCEPT ![c] = AtRest] /\ Follow(r)
        /\ UNCHANGED <<analysis, argusRun, argusRow, orphaned, early, answered>>
    BY <1>11, <2>1 DEF CallbackFollows, handOffs, history
  <2>3. caller'[c] = AtRest /\ \A d \in CallbackThreads \ {c} : caller'[d] = caller[d]
    BY <1>0, <2>2, CallerMoves, ThreadsRest
  <2>4. RunsGoOn /\ RunsInOrder' BY <1>0, <2>2 DEF RunsGoOn, RunsInOrder, Accepted
  <2>5. \A d \in CallbackThreads : CallsBack(d)' BY <1>0, <2>3, <2>4, CallsOn, ThreadsRest DEF CallsBack
  <2>6. writeBack'[r] # "none" /\ \A q \in Runs : writeBack'[q] = "none" => writeBack[q] = "none"
    BY <1>0, <2>2, Follows
  <2>7. \A q \in answered : Seen(q)' BY <1>s, <1>y, <2>1, <2>2, <2>3, <2>6 DEF Seen
  <2> QED BY <1>r, <2>2, <2>4, <2>5, <2>7
<1>12. ASSUME NEW c \in CallbackThreads, CallbackRecords(c) PROVE HandInv'
  <2>0. caller[c] \in CallerRows BY <1>y
  <2>1. PICK r \in Runs : r = caller[c].run BY <1>0, <1>y, <1>12 DEF CallbackRecords, CallsBack, CallerRows
  <2>2. PICK row : row = IF caller[c].says = "done" THEN [caller[c] EXCEPT !.at = "hook"] ELSE AtRest OBVIOUS
  <2>3. /\ row \in CallerRows
        /\ caller[c].says = "done" => row.at = "hook" /\ row.says = "done" /\ row.run = r
        /\ caller[c].says # "done" => row = AtRest BY <2>0, <2>1, <2>2, ThreadsRest DEF CallerRows
  <2>4. /\ caller' = [caller EXCEPT ![c] = row] /\ caller[c].at = "record"
        /\ argusRow' = [status |-> Verdict(caller[c].says), run |-> r]
        /\ answered' = answered \cup {r}
        /\ early' = early \cup {r : j \in {i \in Analyses : analysis[i].at = "record"}}
        /\ UNCHANGED <<analysis, argusRun, writeBack, orphaned>> BY <1>12, <2>1, <2>2 DEF CallbackRecords, results
  <2>5. caller'[c] = row /\ \A d \in CallbackThreads \ {c} : caller'[d] = caller[d] BY <1>0, <2>3, <2>4, CallerMoves
  <2>6. RunsGoOn /\ RunsInOrder' BY <1>0, <2>4 DEF RunsGoOn, RunsInOrder, Accepted
  <2>7. CallsBack(c)' BY <1>0, <2>1, <2>3, <2>4, <2>5, ThreadsRest DEF CallsBack
  <2>8. \A d \in CallbackThreads : CallsBack(d)' BY <1>0, <2>5, <2>6, <2>7, CallsOn
  <2>9. \A j \in Analyses : analysis[j].at = "record" => r \in early' BY <2>4
  <2>10. \A j \in Analyses : HandsOff(j)' BY <1>0, <2>4, <2>6, <2>9, HandsOn
  <2>11. argusRun[r].state \in Ended /\ (caller[c].says # "done" => argusRun[r].state = "dead_letter")
    BY <1>0, <2>1, <2>4 DEF CallsBack, Ended
  <2>12. \A q \in answered' : argusRun'[q].state \in Ended BY <1>0, <2>4, <2>11
  <2>13. EndedRunIsNotQueued' BY <2>4 DEF EndedRunIsNotQueued, Verdict
  <2>14. \A q \in answered' : Seen(q)'
    <3>1. Seen(r)' BY <2>3, <2>4, <2>5, <2>11 DEF Seen
    <3>2. \A q \in answered \ {r} : Seen(q)' BY <1>s, <2>1, <2>4, <2>5 DEF Seen
    <3> QED BY <2>4, <3>1, <3>2
  <2>15. DoneRunIsWrittenBack' BY <2>14 DEF DoneRunIsWrittenBack, Seen
  <2> QED BY <1>0, <2>6, <2>8, <2>10, <2>12, <2>13, <2>15 DEF HandInv
<1>13. CASE CompanionsKill
  <2> DEFINE busy == {j \in Analyses : analysis[j].at # "idle"}
             calls == {c \in CallbackThreads : caller[c].at # "idle"}
  <2>a. analysis' = [j \in Analyses |-> IF j \in busy THEN [AtRest EXCEPT !.at = "post"] ELSE AtRest]
    BY <1>13 DEF CompanionsKill
  <2>b. orphaned' = orphaned \cup {caller[c].run : c \in calls} \cup ({analysis[j].run : j \in busy} \ {0})
    BY <1>13 DEF CompanionsKill
  <2>c. caller' = [c \in CallbackThreads |-> AtRest] BY <1>13 DEF CompanionsKill
  <2>d. writeBack' = [r \in Runs |-> IF r \in Writing THEN "queued" ELSE writeBack[r]] BY <1>13 DEF CompanionsKill
  <2>e. UNCHANGED <<argusRun, argusRow, early, answered>> BY <1>13 DEF CompanionsKill, handOffs
  <2> HIDE DEF busy, calls
  <2>1. /\ analysis' = [j \in Analyses |-> IF j \in busy THEN [AtRest EXCEPT !.at = "post"] ELSE AtRest]
        /\ orphaned' = (orphaned \cup {caller[c].run : c \in calls}) \cup ({analysis[j].run : j \in busy} \ {0})
        /\ caller' = [c \in CallbackThreads |-> AtRest]
        /\ writeBack' = [r \in Runs |-> IF r \in Writing THEN "queued" ELSE writeBack[r]]
        /\ UNCHANGED <<argusRun, argusRow, early, answered>> BY <2>a, <2>b, <2>c, <2>d, <2>e
  <2>2. [AtRest EXCEPT !.at = "post"].run = 0 /\ [AtRest EXCEPT !.at = "post"].at = "post" BY DEF AtRest
  <2>3. \A j \in Analyses : analysis'[j].run = 0 /\ analysis'[j].at \in {"idle", "post"} BY <2>1, <2>2, ThreadsRest
  <2>4. \A j \in Analyses : HandsOff(j)' BY <2>3 DEF HandsOff
  <2>5. \A c \in CallbackThreads : CallsBack(c)' BY <2>1, ThreadsRest DEF CallsBack
  <2>6. RunsInOrder' BY <1>0, <2>1 DEF RunsInOrder, Accepted
  <2>7. EndedRunIsNotQueued' BY <1>0, <2>1 DEF EndedRunIsNotQueued
  <2>8. ASSUME NEW r \in answered' PROVE Seen(r)'
    <3>1. r \in answered /\ r \in Runs /\ r # 0 BY <1>y, <2>1, <2>8
    <3>2. SUFFICES ASSUME argusRun[r].state = "done", writeBack[r] = "none" PROVE r \in orphaned'
      BY <1>y, <2>1, <3>1 DEF Seen
    <3>3. CASE r \in orphaned BY <2>1, <3>3
    <3>4. ASSUME NEW c \in CallbackThreads, caller[c].run = r PROVE r \in orphaned'
      <4>1. c \in calls BY <1>0, <3>1, <3>4 DEF CallsBack, calls
      <4> QED BY <2>1, <3>4, <4>1
    <3>5. ASSUME NEW j \in Analyses, analysis[j].run = r, analysis[j].at = "enqueue" PROVE r \in orphaned'
      <4>1. j \in busy BY <3>5 DEF busy
      <4>2. r \in {analysis[i].run : i \in busy} \ {0} BY <3>1, <3>5, <4>1
      <4> QED BY <2>1, <4>2
    <3> QED BY <1>s, <3>1, <3>2, <3>3, <3>4, <3>5 DEF Seen
  <2>9. \A r \in answered' : argusRun'[r].state \in Ended BY <1>0, <2>1
  <2>10. DoneRunIsWrittenBack' BY <2>8 DEF DoneRunIsWrittenBack, Seen
  <2> QED BY <1>0, <2>4, <2>5, <2>6, <2>7, <2>9, <2>10 DEF HandInv
<1> QED BY <1>1, <1>2, <1>3, <1>4, <1>5, <1>6, <1>7, <1>8, <1>9, <1>10, <1>11, <1>12, <1>13 DEF CompanionsNext
LEMMA CompanionsInitially == CompanionsInit => CompanionsInv
<1> SUFFICES ASSUME CompanionsInit PROVE CompanionsInv OBVIOUS
<1>2. CompanionsTypeOK
  <2>1. 0 \in 0..MaxReplies BY CompanionsAssumption
  <2>2. [state |-> "none", told |-> 0] \in RunRows BY <2>1 DEF RunRows
  <2>3. analysis \in [Analyses -> AnalysisRows] /\ caller \in [CallbackThreads -> CallerRows]
    BY ThreadsRest DEF CompanionsInit
  <2>4. argusRun \in [Runs -> RunRows] BY <2>2 DEF CompanionsInit
  <2>5. argusRow \in [status : {"", "queued", "done", "error"}, run : Runs \cup {0}] /\ online \in BOOLEAN
    BY DEF CompanionsInit, NothingYet
  <2>6. scoreOf \in [1..2 -> Runs \cup {0}]
    <3>1. scoreOf = <<0, 0>> BY DEF CompanionsInit
    <3>2. \A S : 0 \in S => <<0, 0>> \in [1..2 -> S] OBVIOUS
    <3> QED BY <3>1, <3>2
  <2>7. /\ writeBack \in [Runs -> {"none", "queued", "fetched", "half", "scored", "done", "lost"}]
        /\ heroesOf = 0 /\ packRow = 0 /\ plutusJob = "none" /\ plutusRow = ""
        /\ early = {} /\ answered = {} /\ orphaned = {} /\ mixed = {} BY DEF CompanionsInit
  <2> QED BY <2>3, <2>4, <2>5, <2>6, <2>7 DEF CompanionsTypeOK, AnalysisRows, RunRows, CallerRows
<1>3. Accepted = {} BY DEF CompanionsInit, Accepted
<1>4. RunsInOrder
  <2>1. {} = 1..0 OBVIOUS
  <2> QED BY <1>3, <2>1 DEF RunsInOrder
<1>5. (\A j \in Analyses : HandsOff(j)) /\ (\A c \in CallbackThreads : CallsBack(c))
  BY ThreadsRest DEF CompanionsInit, HandsOff, CallsBack
<1>6. (\A r \in answered : argusRun[r].state \in Ended) /\ EndedRunIsNotQueued /\ DoneRunIsWrittenBack
  BY DEF CompanionsInit, EndedRunIsNotQueued, DoneRunIsWrittenBack
<1>7. WriteInv
  <2>1. Writing = {} BY DEF CompanionsInit, Writing
  <2>2. scoreOf = <<0, 0>> /\ heroesOf = 0 BY DEF CompanionsInit
  <2>3. \A n \in 1..2 : scoreOf[n] = heroesOf BY <2>2
  <2> QED BY <2>1, <2>3 DEF WriteInv, HeroesMatchScores
<1> QED BY <1>2, <1>4, <1>5, <1>6, <1>7 DEF CompanionsInv, HandInv

LEMMA CompanionsStep == CompanionsInv /\ [CompanionsNext]_companionVars => CompanionsInv'
<1>1. ASSUME CompanionsInv, CompanionsNext PROVE CompanionsInv' BY <1>1, WriteStep, HandStep DEF CompanionsInv
<1>2. ASSUME CompanionsInv, UNCHANGED companionVars PROVE CompanionsInv'
  <2>1. UNCHANGED <<online, analysis, argusRun, caller, plutusJob, argusRow, plutusRow, packRow, writeBack,
                    scoreOf, heroesOf, early, answered, orphaned, mixed>>
    BY <1>2 DEF companionVars, handOffs, results, history
  <2>2. HandInv /\ WriteInv BY <1>2 DEF CompanionsInv
  <2>3. CompanionsTypeOK' BY <2>1, <2>2 DEF HandInv, CompanionsTypeOK
  <2>4. RunsInOrder' BY <2>1, <2>2 DEF HandInv, RunsInOrder, Accepted
  <2>5. (\A j \in Analyses : HandsOff(j)') /\ (\A c \in CallbackThreads : CallsBack(c)')
    BY <2>1, <2>2 DEF HandInv, HandsOff, CallsBack, Accepted
  <2>6. (\A r \in answered' : argusRun'[r].state \in Ended) /\ EndedRunIsNotQueued' /\ DoneRunIsWrittenBack'
    BY <2>1, <2>2 DEF HandInv, EndedRunIsNotQueued, DoneRunIsWrittenBack
  <2>7. WriteInv' BY <2>1, <2>2 DEF WriteInv, WritesAlone, Writing, HeroesMatchScores
  <2> QED BY <2>3, <2>4, <2>5, <2>6, <2>7 DEF CompanionsInv, HandInv
<1> QED BY <1>1, <1>2

LEMMA CompanionsMeans == CompanionsInv => CompanionsTypeOK /\ HandOffsAreSound
BY DEF CompanionsInv, HandInv, WriteInv, HandOffsAreSound

THEOREM CompanionsInductive == CompanionsSpec => []CompanionsInv
<1>1. CompanionsInit => CompanionsInv BY CompanionsInitially
<1>2. CompanionsInv /\ [CompanionsNext]_companionVars => CompanionsInv' BY CompanionsStep
<1> QED BY <1>1, <1>2, PTL DEF CompanionsSpec

(* ReviewThreads: what hangs from what, and what a thread's state tells.   *)

CommentRows == [there : BOOLEAN, parent : Comments \cup {NoComment}, role : {"client", "admin"},
                hidden : BOOLEAN, status : {"open", "resolved"}]
ReviewRows  == [at : {"idle", "client", "admin", "hide", "transition"}, on : Comments \cup {NoComment},
                to : {"open", "resolved"}, saw : SUBSET Comments]

\* Comments come in the order of their numbers, each under one that is there, and all
\* of them under some root.
Heads(d, c) == Parent(d) = NoComment /\ c \in Subtree(d)
TreeInv ==
  /\ \E n \in Nat : Present = 1..n
  /\ \A c \in Present : Parent(c) \in Present \cup {NoComment}
  /\ \A c \in Present : \E d \in Present : Heads(d, c)

\* What a request that has checked goes on to write under.
HangsTrue(r) ==
  /\ review[r].on \in Present \cup {NoComment}
  /\ review[r].at \in {"hide", "transition"} => review[r].on \in Present
  /\ review[r].at = "transition" => Parent(review[r].on) = NoComment

BuriedInv ==
  \A c, d \in Present :
    /\ comment[c].role = "client" /\ Parent(c) # NoComment
    /\ Heads(d, c) /\ Visible(d) /\ comment[d].status = "resolved"
    => c \in heard \cup raced

ReviewInv ==
  /\ ReviewTypeOK /\ TreeInv /\ (\A r \in Reviewers : HangsTrue(r))
  /\ NoReplyDangles /\ BuriedInv /\ TrailTellsTheStatus
  /\ \A c \in Comments \ Present : logged[c] = "open"

(* A comment and all below it *)

\* It is the smallest set with the comment that nothing hangs out of.
LEMMA SubtreeSmallest ==
  ASSUME NEW c \in Present, NEW S \in SUBSET Present, c \in S,
         \A e \in Present : Parent(e) \in S => e \in S
  PROVE  Subtree(c) \subseteq S
BY DEF Subtree

LEMMA SubtreeHas ==
  ASSUME NEW c \in Present
  PROVE  c \in Subtree(c) /\ Subtree(c) \subseteq Present
BY DEF Subtree

LEMMA SubtreeClosed ==
  ASSUME NEW c \in Present, NEW e \in Present, Parent(e) \in Subtree(c)
  PROVE  e \in Subtree(c)
<1>1. SUFFICES ASSUME NEW S \in SUBSET Present, c \in S, \A x \in Present : Parent(x) \in S => x \in S
               PROVE  e \in S BY DEF Subtree
<1>2. Subtree(c) \subseteq S BY <1>1, SubtreeSmallest
<1> QED BY <1>1, <1>2

LEMMA SubtreeUp ==
  ASSUME NEW c \in Present, NEW d \in Subtree(c), d # c
  PROVE  Parent(d) \in Subtree(c)
<1> DEFINE S == {x \in Subtree(c) : x = c \/ Parent(x) \in Subtree(c)}
<1>1. S \subseteq Present /\ c \in S BY SubtreeHas
<1>2. \A e \in Present : Parent(e) \in S => e \in S BY SubtreeClosed
<1>3. Subtree(c) \subseteq S
  <2> HIDE DEF S
  <2> QED BY <1>1, <1>2, SubtreeSmallest
<1> QED BY <1>3

\* No comment has two roots.
LEMMA OneRoot ==
  ASSUME NEW a \in Present, NEW b \in Present, NEW e, Heads(a, e), Heads(b, e)
  PROVE  a = b
<1>0. NoComment \notin Present BY ReviewAssumption DEF Present
<1>1. SUFFICES ASSUME a # b PROVE FALSE OBVIOUS
<1> DEFINE S == Subtree(a) \ Subtree(b)
<1>2. a \notin Subtree(b)
  <2>1. SUFFICES ASSUME a \in Subtree(b) PROVE FALSE OBVIOUS
  <2>2. Parent(a) \in Subtree(b) BY <1>1, <2>1, SubtreeUp
  <2> QED BY <1>0, <2>2, SubtreeHas DEF Heads
<1>3. a \in S /\ S \subseteq Present BY <1>2, SubtreeHas
<1>4. ASSUME NEW x \in Present, Parent(x) \in S PROVE x \in S
  <2>1. x \in Subtree(a) BY <1>4, SubtreeClosed
  <2>2. x # b BY <1>0, <1>3, <1>4 DEF Heads
  <2>3. x \notin Subtree(b) BY <1>4, <2>2, SubtreeUp
  <2> QED BY <2>1, <2>3
<1>5. Subtree(a) \subseteq S
  <2> HIDE DEF S
  <2> QED BY <1>3, <1>4, SubtreeSmallest
<1> QED BY <1>5 DEF Heads

LEMMA RootIsHead ==
  ASSUME TreeInv, NEW c \in Present
  PROVE  RootOf(c) \in Present /\ Heads(RootOf(c), c)
<1>1. PICK d \in Present : Parent(d) = NoComment /\ c \in Subtree(d) BY DEF TreeInv, Heads
<1> QED BY <1>1 DEF RootOf, Heads

\* Where the comments and their parents stay, so does what hangs from them.
LEMMA SubtreeStays ==
  ASSUME Present' = Present, \A c \in Present : Parent(c)' = Parent(c)
  PROVE  /\ \A c \in Present : Subtree(c)' = Subtree(c)
         /\ \A c, d \in Present : Heads(d, c)' <=> Heads(d, c)
<1>1. ASSUME NEW c \in Present PROVE Subtree(c)' = Subtree(c) BY <1>1 DEF Subtree
<1> QED BY <1>1 DEF Heads
\* A comment that comes is a leaf under its parent.
LEMMA LeafGrows ==
  ASSUME TreeInv, NEW n \in Comments \ Present, NEW p \in Present \cup {NoComment},
         Present' = Present \cup {n}, Parent(n)' = p, \A c \in Present : Parent(c)' = Parent(c)
  PROVE  /\ \A c \in Present : Subtree(c)' = Subtree(c) \cup (IF p \in Subtree(c) THEN {n} ELSE {})
         /\ Subtree(n)' = {n}
<1>0. NoComment \notin Present /\ n # NoComment BY ReviewAssumption DEF Present
<1>1. \A e \in Present : Parent(e)' # n BY <1>0 DEF TreeInv
<1>2. ASSUME NEW c \in Present
      PROVE  Subtree(c)' = Subtree(c) \cup (IF p \in Subtree(c) THEN {n} ELSE {})
  <2> DEFINE G == Subtree(c) \cup (IF p \in Subtree(c) THEN {n} ELSE {})
  <2>1. G \subseteq Present' /\ c \in G BY SubtreeHas
  <2>2. ASSUME NEW e \in Present', Parent(e)' \in G PROVE e \in G
    <3>1. CASE e = n
      <4>1. p \in Subtree(c) BY <1>0, <2>2, <3>1, SubtreeHas
      <4> QED BY <3>1, <4>1
    <3>2. CASE e # n
      <4>1. e \in Present /\ Parent(e) \in Subtree(c) BY <1>1, <2>2, <3>2
      <4> QED BY <4>1, SubtreeClosed
    <3> QED BY <3>1, <3>2
  <2>3. Subtree(c)' \subseteq G
    <3> HIDE DEF G
    <3>1. \A d \in Subtree(c)' : \A S \in SUBSET Present' :
             c \in S /\ (\A e \in Present' : Parent(e)' \in S => e \in S) => d \in S BY DEF Subtree
    <3> QED BY <2>1, <2>2, <3>1
  <2>4. ASSUME NEW S \in SUBSET Present', c \in S, \A e \in Present' : Parent(e)' \in S => e \in S
        PROVE  G \subseteq S
    <3>1. Subtree(c) \subseteq S \cap Present
      <4>1. c \in S \cap Present BY <2>4
      <4>2. \A e \in Present : Parent(e) \in S \cap Present => e \in S \cap Present BY <2>4
      <4> QED BY <4>1, <4>2, SubtreeSmallest
    <3>2. p \in Subtree(c) => n \in S BY <2>4, <3>1
    <3> QED BY <3>1, <3>2
  <2>5. G \subseteq Subtree(c)'
    <3> HIDE DEF G
    <3> QED BY <2>1, <2>4 DEF Subtree
  <2> QED BY <2>3, <2>5
<1>3. Subtree(n)' = {n}
  <2>1. n \in Present' /\ {n} \subseteq Present' OBVIOUS
  <2>2. \A e \in Present' : Parent(e)' \in {n} => e \in {n} BY <1>1
  <2>3. \A d \in Subtree(n)' : d \in {n} BY <2>1, <2>2 DEF Subtree
  <2>4. n \in Subtree(n)' BY <2>1 DEF Subtree
  <2> QED BY <2>3, <2>4
<1> QED BY <1>2, <1>3

\* What a thread is about to write under, as its row says.
AskedRow(row) ==
  /\ row.on \in Present \cup {NoComment}
  /\ row.at \in {"hide", "transition"} => row.on \in Present
  /\ row.at = "transition" => Parent(row.on) = NoComment

\* One thread moves.
LEMMA ReviewMoves ==
  ASSUME ReviewInv, NEW r \in Reviewers, NEW row \in ReviewRows, review' = [review EXCEPT ![r] = row]
  PROVE  /\ review' \in [Reviewers -> ReviewRows] /\ review'[r] = row
         /\ \A q \in Reviewers \ {r} : review'[q] = review[q]
<1>1. review \in [Reviewers -> ReviewRows] BY DEF ReviewInv, ReviewTypeOK, ReviewRows
<1> QED BY <1>1

LEMMA NobodyAsks == NoReview \in ReviewRows /\ AskedRow(NoReview)
BY DEF NoReview, ReviewRows, AskedRow

\* A check, a refusal and an end write nothing.
LEMMA CheckKeeps ==
  ASSUME ReviewInv, NEW r \in Reviewers, NEW row \in ReviewRows, review' = [review EXCEPT ![r] = row],
         AskedRow(row), UNCHANGED <<comment, logged, heard, raced>>
  PROVE  ReviewInv'
<1>0. review' \in [Reviewers -> ReviewRows] /\ review'[r] = row
      /\ \A q \in Reviewers \ {r} : review'[q] = review[q] BY ReviewMoves
<1>1. Present' = Present /\ \A c \in Present : Parent(c)' = Parent(c) BY DEF Present, Parent
<1>2. ReviewTypeOK' BY <1>0, <1>1 DEF ReviewInv, ReviewTypeOK, ReviewRows
<1>3. /\ \A c \in Present : Subtree(c)' = Subtree(c)
      /\ \A c, d \in Present : Heads(d, c)' <=> Heads(d, c) BY <1>1, SubtreeStays
<1>4. TreeInv' BY <1>1, <1>3 DEF ReviewInv, TreeInv
<1>5. \A q \in Reviewers : HangsTrue(q)'
  <2>1. HangsTrue(r)' BY <1>0, <1>1 DEF HangsTrue, AskedRow, Parent
  <2>2. ASSUME NEW q \in Reviewers \ {r} PROVE HangsTrue(q)' BY <1>0, <1>1, <2>2 DEF ReviewInv, HangsTrue, Parent
  <2> QED BY <2>1, <2>2
<1>6. NoReplyDangles' BY <1>1 DEF ReviewInv, NoReplyDangles, Visible, Parent
<1>7. BuriedInv' BY <1>1, <1>3 DEF ReviewInv, BuriedInv, Visible, Parent
<1>8. TrailTellsTheStatus' /\ \A c \in Comments \ Present' : logged'[c] = "open"
  BY <1>1 DEF ReviewInv, TrailTellsTheStatus, Parent
<1> QED BY <1>2, <1>4, <1>5, <1>6, <1>7, <1>8 DEF ReviewInv

LEMMA BeginKeeps ==
  ASSUME ReviewInv, NEW r \in Reviewers, NEW at \in {"client", "admin", "hide", "transition"},
         NEW on \in Comments \cup {NoComment}, NEW to \in {"open", "resolved"}, Begin(r, at, on, to),
         on \in Present \cup {NoComment}, at \in {"hide", "transition"} => on \in Present,
         at = "transition" => Parent(on) = NoComment, UNCHANGED <<comment, logged, heard, raced>>
  PROVE  ReviewInv'
<1>1. PICK row : row = [at |-> at, on |-> on, to |-> to, saw |-> IF at = "transition" THEN Present ELSE {}]
  OBVIOUS
<1>2. Present \subseteq Comments BY DEF Present
<1>3. row \in ReviewRows BY <1>1, <1>2 DEF ReviewRows
<1>4. AskedRow(row) BY <1>1 DEF AskedRow
<1>5. review' = [review EXCEPT ![r] = row] BY <1>1 DEF Begin
<1> QED BY <1>3, <1>4, <1>5, CheckKeeps

\* What a write leaves: everyone's check, where comments stay and parents too.
LEMMA AskedOn ==
  ASSUME ReviewInv, NEW r \in Reviewers, Answered(r), Present \subseteq Present',
         \A c \in Present : Parent(c)' = Parent(c)
  PROVE  review' \in [Reviewers -> ReviewRows] /\ \A q \in Reviewers : HangsTrue(q)'
<1>0. review' \in [Reviewers -> ReviewRows] /\ review'[r] = NoReview
      /\ \A q \in Reviewers \ {r} : review'[q] = review[q] BY NobodyAsks, ReviewMoves DEF Answered
<1>1. HangsTrue(r)' BY <1>0 DEF HangsTrue, NoReview
<1>2. ASSUME NEW q \in Reviewers \ {r} PROVE HangsTrue(q)'
  <2>1. PICK on : on = review[q].on OBVIOUS
  <2>2. /\ on \in Present \cup {NoComment} /\ (review[q].at \in {"hide", "transition"} => on \in Present)
        /\ review[q].at = "transition" => Parent(on) = NoComment BY <2>1 DEF ReviewInv, HangsTrue
  <2>3. review'[q].on = on /\ review'[q].at = review[q].at BY <1>0, <2>1
  <2>4. review[q].at = "transition" => Parent(on)' = NoComment BY <2>2
  <2>5. (review[q].at = "transition" => Parent(review[q].on) = NoComment)' BY <2>3, <2>4 DEF Parent
  <2> QED BY <2>2, <2>3, <2>5 DEF HangsTrue, Parent
<1> QED BY <1>0, <1>1, <1>2

\* Hiding takes along all that hangs below.
LEMMA HideKeeps ==
  ASSUME ReviewInv, NEW r \in Reviewers, HideSave(r)
  PROVE  ReviewInv'
<1>1. PICK c \in Present : c = review[r].on BY DEF ReviewInv, HangsTrue, HideSave
<1>2. /\ comment' = [d \in Comments |-> IF d \in Subtree(c) THEN [comment[d] EXCEPT !.hidden = TRUE] ELSE comment[d]]
      /\ Answered(r) /\ UNCHANGED <<logged, heard, raced>> BY <1>1 DEF HideSave, Hidden
<1>3. comment \in [Comments -> CommentRows] BY DEF ReviewInv, ReviewTypeOK, CommentRows
<1>4. /\ comment' \in [Comments -> CommentRows]
      /\ \A d \in Comments : /\ comment'[d].there = comment[d].there /\ comment'[d].parent = comment[d].parent
                             /\ comment'[d].role = comment[d].role /\ comment'[d].status = comment[d].status
                             /\ comment'[d].hidden = (comment[d].hidden \/ d \in Subtree(c))
  <2>1. ASSUME NEW d \in Comments
        PROVE  LET row == [comment[d] EXCEPT !.hidden = TRUE]
               IN /\ row \in CommentRows /\ row.there = comment[d].there /\ row.parent = comment[d].parent
                  /\ row.role = comment[d].role /\ row.status = comment[d].status /\ row.hidden = TRUE
    <3>1. comment[d] \in CommentRows BY <1>3
    <3> QED BY <3>1 DEF CommentRows
  <2>2. \A d \in Comments : comment[d] \in CommentRows /\ comment[d].hidden \in BOOLEAN BY <1>3 DEF CommentRows
  <2> QED BY <1>2, <2>1, <2>2
<1>5. Present \subseteq Comments BY DEF Present
<1>6. Present' = Present /\ \A d \in Present : Parent(d)' = Parent(d) BY <1>4, <1>5 DEF Present, Parent
<1>7. /\ \A d \in Present : Subtree(d)' = Subtree(d)
      /\ \A e, d \in Present : Heads(d, e)' <=> Heads(d, e) BY <1>6, SubtreeStays
<1>8. TreeInv' BY <1>6, <1>7 DEF ReviewInv, TreeInv
<1>9. review' \in [Reviewers -> ReviewRows] /\ \A q \in Reviewers : HangsTrue(q)' BY <1>2, <1>6, AskedOn
<1>10. ReviewTypeOK' BY <1>2, <1>4, <1>6, <1>9 DEF ReviewInv, ReviewTypeOK, ReviewRows, CommentRows
<1>11. \A d \in Present : Visible(d)' <=> Visible(d) /\ d \notin Subtree(c) BY <1>4, <1>5, <1>6 DEF Visible
<1>12. NoReplyDangles'
  <2>1. SUFFICES ASSUME NEW e \in Present, Visible(e), e \notin Subtree(c), Parent(e) # NoComment
                 PROVE  Visible(Parent(e))' \/ e \in raced BY <1>2, <1>6, <1>11 DEF NoReplyDangles
  <2>2. PICK d \in Present : d = Parent(e) BY <2>1 DEF ReviewInv, TreeInv
  <2>3. Visible(d) \/ e \in raced BY <2>1, <2>2 DEF ReviewInv, NoReplyDangles
  <2>4. d \notin Subtree(c) BY <2>1, <2>2, SubtreeClosed
  <2>5. Visible(d) => Visible(d)' BY <1>11, <2>4
  <2>6. Parent(e)' = d BY <1>6, <2>2
  <2> QED BY <2>3, <2>5, <2>6 DEF Visible
<1>13. BuriedInv' BY <1>2, <1>4, <1>5, <1>6, <1>7, <1>11 DEF ReviewInv, BuriedInv, Parent
<1>14. TrailTellsTheStatus' /\ \A d \in Comments \ Present' : logged'[d] = "open"
  BY <1>2, <1>4, <1>5, <1>6 DEF ReviewInv, TrailTellsTheStatus
<1> QED BY <1>8, <1>9, <1>10, <1>12, <1>13, <1>14 DEF ReviewInv

\* A state is given to the whole thread.
LEMMA StatusMoves ==
  ASSUME ReviewInv, NEW c \in Present, NEW to \in {"open", "resolved"},
         comment' = [d \in Comments |-> IF d \in Subtree(c) THEN [comment[d] EXCEPT !.status = to] ELSE comment[d]]
  PROVE  /\ comment' \in [Comments -> CommentRows]
         /\ \A d \in Comments : /\ comment'[d].there = comment[d].there /\ comment'[d].parent = comment[d].parent
                                /\ comment'[d].role = comment[d].role /\ comment'[d].hidden = comment[d].hidden
                                /\ comment'[d].status = IF d \in Subtree(c) THEN to ELSE comment[d].status
<1>3. comment \in [Comments -> CommentRows] BY DEF ReviewInv, ReviewTypeOK, CommentRows
<1>1. ASSUME NEW d \in Comments
      PROVE  LET row == [comment[d] EXCEPT !.status = to]
             IN /\ row \in CommentRows /\ row.there = comment[d].there /\ row.parent = comment[d].parent
                /\ row.role = comment[d].role /\ row.hidden = comment[d].hidden /\ row.status = to
  <2>1. comment[d] \in CommentRows BY <1>3
  <2> QED BY <2>1 DEF CommentRows
<1> QED BY <1>1, <1>3

\* A transition of a root and all below it.
LEMMA TransitionKeeps ==
  ASSUME ReviewInv, NEW r \in Reviewers, TransitionSave(r)
  PROVE  ReviewInv'
<1>1. PICK c \in Present : c = review[r].on /\ Parent(c) = NoComment BY DEF ReviewInv, HangsTrue, TransitionSave
<1>2. PICK to \in {"open", "resolved"}, saw \in SUBSET Comments : to = review[r].to /\ saw = review[r].saw
  BY DEF ReviewInv, ReviewTypeOK
<1>3. /\ comment' = [d \in Comments |-> IF d \in Subtree(c) THEN [comment[d] EXCEPT !.status = to] ELSE comment[d]]
      /\ logged' = [logged EXCEPT ![c] = to] /\ Answered(r)
      /\ heard' = (IF to = "resolved" THEN heard \cup (Subtree(c) \cap saw) ELSE heard \ Subtree(c))
      /\ raced' = (IF to = "resolved" THEN raced \cup (Subtree(c) \ saw) ELSE raced)
  BY <1>1, <1>2 DEF TransitionSave, Logged
<1>4. /\ comment' \in [Comments -> CommentRows]
      /\ \A d \in Comments : /\ comment'[d].there = comment[d].there /\ comment'[d].parent = comment[d].parent
                             /\ comment'[d].role = comment[d].role /\ comment'[d].hidden = comment[d].hidden
                             /\ comment'[d].status = IF d \in Subtree(c) THEN to ELSE comment[d].status
  BY <1>3, StatusMoves
<1>5. Present \subseteq Comments /\ Subtree(c) \subseteq Present /\ c \in Subtree(c) BY SubtreeHas DEF Present
<1>6. Present' = Present /\ \A d \in Present : Parent(d)' = Parent(d) BY <1>4, <1>5 DEF Present, Parent
<1>7. /\ \A d \in Present : Subtree(d)' = Subtree(d)
      /\ \A e, d \in Present : Heads(d, e)' <=> Heads(d, e) BY <1>6, SubtreeStays
<1>8. TreeInv' BY <1>6, <1>7 DEF ReviewInv, TreeInv
<1>9. review' \in [Reviewers -> ReviewRows] /\ \A q \in Reviewers : HangsTrue(q)' BY <1>3, <1>6, AskedOn
<1>10. logged' \in [Comments -> {"open", "resolved"}] /\ logged'[c] = to
       /\ \A d \in Comments \ {c} : logged'[d] = logged[d] BY <1>3, <1>5 DEF ReviewInv, ReviewTypeOK
<1>11. heard' \subseteq Present' /\ raced' \subseteq Comments BY <1>2, <1>3, <1>5, <1>6 DEF ReviewInv, ReviewTypeOK
<1>12. ReviewTypeOK' BY <1>4, <1>9, <1>10, <1>11 DEF ReviewTypeOK, ReviewRows, CommentRows
<1>13. \A d \in Present : Visible(d)' <=> Visible(d) BY <1>4, <1>5, <1>6 DEF Visible
<1>14. NoReplyDangles'
  <2>1. SUFFICES ASSUME NEW e \in Present, Visible(e), Parent(e) # NoComment
                 PROVE  Visible(Parent(e))' \/ e \in raced' BY <1>6, <1>13 DEF NoReplyDangles
  <2>2. PICK d \in Present : d = Parent(e) BY <2>1 DEF ReviewInv, TreeInv
  <2>3. Visible(d) \/ e \in raced BY <2>1, <2>2 DEF ReviewInv, NoReplyDangles
  <2>4. Parent(e)' = d BY <1>6, <2>2
  <2>5. Visible(d) => Visible(d)' BY <1>13
  <2>6. raced \subseteq raced' BY <1>3
  <2> QED BY <2>3, <2>4, <2>5, <2>6 DEF Visible
\* Nobody else is a root in this thread.
<1>15. ASSUME NEW d \in Present, Parent(d) = NoComment, d # c PROVE d \notin Subtree(c)
  <2>1. NoComment \notin Present BY ReviewAssumption DEF Present
  <2> QED BY <1>5, <1>15, <2>1, SubtreeUp
<1>16. BuriedInv'
  <2>1. SUFFICES ASSUME NEW e \in Present, NEW d \in Present, comment[e].role = "client", Parent(e) # NoComment,
                        Heads(d, e), Visible(d), comment'[d].status = "resolved"
                 PROVE  e \in heard' \cup raced' BY <1>4, <1>5, <1>6, <1>7, <1>13 DEF BuriedInv
  <2>2. CASE d = c
    <3>1. to = "resolved" BY <1>4, <1>5, <2>1, <2>2
    <3>2. e \in Subtree(c) BY <2>1, <2>2 DEF Heads
    <3> QED BY <1>3, <3>1, <3>2
  <2>3. CASE d # c
    <3>1. comment[d].status = "resolved" BY <1>4, <1>5, <1>15, <2>1, <2>3 DEF Heads
    <3>2. e \in heard \cup raced BY <2>1, <3>1 DEF ReviewInv, BuriedInv
    <3>3. e \notin Subtree(c) BY <1>1, <2>1, <2>3, OneRoot DEF Heads
    <3> QED BY <1>3, <3>2, <3>3
  <2> QED BY <2>2, <2>3
<1>17. TrailTellsTheStatus' /\ \A d \in Comments \ Present' : logged'[d] = "open"
  <2>1. ASSUME NEW d \in Present, Parent(d) = NoComment PROVE comment'[d].status = logged'[d]
    <3>1. CASE d = c BY <1>4, <1>5, <1>10, <3>1
    <3>2. CASE d # c
      <4>1. comment'[d].status = comment[d].status BY <1>4, <1>5, <1>15, <2>1, <3>2
      <4> QED BY <1>5, <1>10, <2>1, <3>2, <4>1 DEF ReviewInv, TrailTellsTheStatus
    <3> QED BY <3>1, <3>2
  <2>2. \A d \in Comments \ Present : logged'[d] = "open" BY <1>10 DEF ReviewInv
  <2> QED BY <1>6, <2>1, <2>2 DEF TrailTellsTheStatus
<1> QED BY <1>8, <1>9, <1>12, <1>14, <1>16, <1>17 DEF ReviewInv

\* A comment comes; a client's reply reopens the thread it comes into.
LEMMA InsertKeeps ==
  ASSUME ReviewInv, NEW r \in Reviewers, Insert(r)
  PROVE  ReviewInv'
<1>a. NoComment \notin Comments /\ Present \subseteq Comments BY ReviewAssumption DEF Present
<1>b. PICK k \in Nat : Present = 1..k BY DEF ReviewInv, TreeInv
<1>c. Cardinality(Present) = k BY <1>b, FS_Interval
<1>1. PICK c \in Comments : c = k + 1 BY <1>c DEF Insert
<1>2. c \notin Present BY <1>b, <1>1
<1>3. PICK p \in Present \cup {NoComment} : p = review[r].on BY DEF ReviewInv, HangsTrue
<1>4. PICK role \in {"client", "admin"} : role = review[r].at BY DEF Insert
<1>5. PICK reopens \in BOOLEAN : reopens <=> role = "client" /\ p # NoComment /\ Reopens(RootOf(p)) OBVIOUS
<1>6. PICK root : root = RootOf(p) OBVIOUS
<1>7. PICK under : under = IF reopens THEN Subtree(root) ELSE {} OBVIOUS
<1>8. /\ comment' = Written(c, p, role, under)
      /\ logged' = (IF reopens THEN [logged EXCEPT ![root] = "open"] ELSE logged)
      /\ heard' = heard \ under
      /\ raced' = (IF p # NoComment /\ ~Visible(p) THEN raced \cup {c} ELSE raced)
      /\ Answered(r) BY <1>c, <1>1, <1>3, <1>4, <1>5, <1>6, <1>7 DEF Insert
<1>9. p # NoComment => root \in Present /\ Heads(root, p) BY <1>3, <1>6, RootIsHead DEF ReviewInv
<1>10. reopens => root \in Present /\ Heads(root, p) /\ p \in Present /\ comment[root].status = "resolved"
  BY <1>3, <1>5, <1>6, <1>9 DEF Reopens
<1>11. under \subseteq Present /\ (reopens => root \in under /\ p \in under) BY <1>7, <1>10, SubtreeHas DEF Heads
<1>12. comment \in [Comments -> CommentRows] BY DEF ReviewInv, ReviewTypeOK, CommentRows
<1>13. /\ comment' \in [Comments -> CommentRows]
       /\ \A d \in Comments \ {c} :
            /\ comment'[d].there = comment[d].there /\ comment'[d].parent = comment[d].parent
            /\ comment'[d].role = comment[d].role /\ comment'[d].hidden = comment[d].hidden
            /\ comment'[d].status = IF d \in under THEN "open" ELSE comment[d].status
       /\ comment'[c].there /\ comment'[c].parent = p /\ comment'[c].role = role
       /\ ~comment'[c].hidden /\ comment'[c].status = "open"
  <2>1. ASSUME NEW d \in Comments
        PROVE  LET row == [comment[d] EXCEPT !.status = "open"]
               IN /\ row \in CommentRows /\ row.there = comment[d].there /\ row.parent = comment[d].parent
                  /\ row.role = comment[d].role /\ row.hidden = comment[d].hidden /\ row.status = "open"
    <3>1. comment[d] \in CommentRows BY <1>12
    <3> QED BY <3>1 DEF CommentRows
  <2>2. PICK row : row = [there |-> TRUE, parent |-> p, role |-> role, hidden |-> FALSE, status |-> "open"] OBVIOUS
  <2>3. row \in CommentRows BY <1>a, <2>2 DEF CommentRows
  <2>4. comment' = [d \in Comments |-> IF d = c THEN row
                      ELSE IF d \in under THEN [comment[d] EXCEPT !.status = "open"] ELSE comment[d]]
    BY <1>8, <2>2 DEF Written
  <2>5. \A d \in Comments : comment[d] \in CommentRows BY <1>12
  <2>6. comment' \in [Comments -> CommentRows] BY <2>1, <2>3, <2>4, <2>5
  <2>7. comment'[c] = row BY <2>4
  <2> QED BY <2>1, <2>2, <2>4, <2>6, <2>7
<1>14. Present' = Present \cup {c} /\ Parent(c)' = p /\ \A d \in Present : Parent(d)' = Parent(d)
  BY <1>a, <1>2, <1>13 DEF Present, Parent
<1>15. /\ \A d \in Present : Subtree(d)' = Subtree(d) \cup (IF p \in Subtree(d) THEN {c} ELSE {})
       /\ Subtree(c)' = {c}
  <2>1. TreeInv /\ c \in Comments \ Present BY <1>2 DEF ReviewInv
  <2> QED BY <2>1, <1>14, LeafGrows
\* What heads the comments that were there, and the one that comes.
<1>16. /\ \A d \in Present, e \in Present : Heads(d, e)' <=> Heads(d, e)
       /\ \A d \in Present : Heads(d, c)' <=> Parent(d) = NoComment /\ p \in Subtree(d)
       /\ \A e \in Present : ~Heads(c, e)' 
       /\ Heads(c, c)' <=> p = NoComment BY <1>2, <1>14, <1>15, SubtreeHas DEF Heads
<1>17. TreeInv'
  <2>1. Present' = 1..(k + 1)
    <3>1. (1..k) \cup {k + 1} = 1..(k + 1) OBVIOUS
    <3> QED BY <1>b, <1>1, <1>14, <3>1
  <2>2. \A e \in Present' : Parent(e)' \in Present' \cup {NoComment} BY <1>14 DEF ReviewInv, TreeInv
  <2>3. \A e \in Present : \E d \in Present : Heads(d, e)' BY <1>16 DEF ReviewInv, TreeInv
  <2>4. \E d \in Present' : Heads(d, c)'
    <3>1. CASE p = NoComment BY <1>14, <1>16, <3>1
    <3>2. CASE p # NoComment BY <1>9, <1>14, <1>16, <3>2 DEF Heads
    <3> QED BY <3>1, <3>2
  <2>5. \A e \in Present' : \E d \in Present' : Heads(d, e)' BY <1>14, <2>3, <2>4
  <2>6. k + 1 \in Nat OBVIOUS
  <2> QED BY <2>1, <2>2, <2>5, <2>6 DEF TreeInv
<1>18. review' \in [Reviewers -> ReviewRows] /\ \A q \in Reviewers : HangsTrue(q)'
  <2>1. Present \subseteq Present' BY <1>14
  <2> QED BY <1>8, <1>14, <2>1, AskedOn
<1>19. logged' \in [Comments -> {"open", "resolved"}]
       /\ \A d \in Comments : logged'[d] = IF reopens /\ d = root THEN "open" ELSE logged[d]
  <2>1. logged \in [Comments -> {"open", "resolved"}] BY DEF ReviewInv, ReviewTypeOK
  <2> QED BY <1>8, <1>10, <2>1
<1>20. ReviewTypeOK'
  <2>1. heard' \subseteq Present' /\ raced' \subseteq Comments BY <1>8, <1>14 DEF ReviewInv, ReviewTypeOK
  <2> QED BY <1>13, <1>18, <1>19, <2>1 DEF ReviewTypeOK, ReviewRows, CommentRows
<1>21. Visible(c)' /\ \A d \in Present : Visible(d)' <=> Visible(d) BY <1>a, <1>2, <1>13, <1>14 DEF Visible
<1>22. NoReplyDangles'
  <2>1. SUFFICES ASSUME NEW e \in Present', Visible(e)', Parent(e)' # NoComment
                 PROVE  (Visible(Parent(e)) \/ e \in raced)' BY DEF NoReplyDangles
  <2>2. CASE e = c
    <3>1. Visible(p)' \/ c \in raced' BY <1>8, <1>14, <1>21, <2>1, <2>2
    <3> QED BY <1>14, <2>2, <3>1 DEF Visible
  <2>3. CASE e \in Present
    <3>1. Visible(e) /\ Parent(e) # NoComment BY <1>14, <1>21, <2>1, <2>3
    <3>2. PICK d \in Present : d = Parent(e) BY <2>3, <3>1 DEF ReviewInv, TreeInv
    <3>3. Visible(d) \/ e \in raced BY <2>3, <3>1, <3>2 DEF ReviewInv, NoReplyDangles
    <3>4. Visible(d)' \/ e \in raced' BY <1>8, <1>21, <3>3
    <3>5. Parent(e)' = d BY <1>14, <2>3, <3>2
    <3> QED BY <3>4, <3>5 DEF Visible
  <2> QED BY <1>14, <2>1, <2>2, <2>3
<1>23. BuriedInv'
  <2>1. SUFFICES ASSUME NEW e \in Present', NEW d \in Present', comment'[e].role = "client", Parent(e)' # NoComment,
                        Heads(d, e)', Visible(d)', comment'[d].status = "resolved"
                 PROVE  e \in heard' \cup raced' BY DEF BuriedInv
  <2>2. d # c /\ d \in Present /\ d \notin under /\ comment[d].status = "resolved" /\ Visible(d)
    BY <1>a, <1>13, <1>14, <1>21, <2>1
  <2>3. CASE e = c
    <3>1. p # NoComment /\ role = "client" BY <1>13, <1>14, <2>1, <2>3
    <3>2. Heads(d, p) BY <1>16, <2>1, <2>2, <2>3 DEF Heads
    <3>3. d = root BY <1>9, <2>2, <3>1, <3>2, OneRoot
    <3>4. reopens BY <1>5, <1>6, <2>2, <3>1, <3>3 DEF Reopens, Visible
    <3> QED BY <1>11, <2>2, <3>3, <3>4
  <2>4. CASE e \in Present
    <3>1. Heads(d, e) /\ comment[e].role = "client" /\ Parent(e) # NoComment
      BY <1>a, <1>2, <1>13, <1>14, <1>16, <2>1, <2>2, <2>4
    <3>2. e \in heard \cup raced BY <2>2, <2>4, <3>1 DEF ReviewInv, BuriedInv
    <3>3. e \notin under
      <4>1. SUFFICES ASSUME reopens, e \in Subtree(root) PROVE FALSE BY <1>7
      <4>2. Heads(root, e) BY <1>10, <4>1 DEF Heads
      <4>3. d = root BY <1>10, <2>2, <3>1, <4>1, <4>2, OneRoot
      <4> QED BY <1>11, <2>2, <4>1, <4>3
    <3> QED BY <1>8, <3>2, <3>3
  <2> QED BY <1>14, <2>1, <2>3, <2>4
<1>24. TrailTellsTheStatus' /\ \A d \in Comments \ Present' : logged'[d] = "open"
  <2>1. ASSUME NEW d \in Present, Parent(d) = NoComment PROVE comment'[d].status = logged'[d]
    <3>1. d \in under => reopens /\ d = root
      <4>1. SUFFICES ASSUME d \in under PROVE reopens /\ d = root OBVIOUS
      <4>2. reopens /\ d \in Subtree(root) BY <1>7, <4>1
      <4>3. Heads(root, d) BY <1>10, <4>2 DEF Heads
      <4>4. Heads(d, d) BY <2>1, SubtreeHas DEF Heads
      <4> QED BY <1>10, <4>2, <4>3, <4>4, OneRoot
    <3>2. comment[d].status = logged[d] BY <2>1 DEF ReviewInv, TrailTellsTheStatus
    <3> QED BY <1>a, <1>2, <1>11, <1>13, <1>19, <3>1, <3>2
  <2>2. logged'[c] = "open" BY <1>2, <1>10, <1>19 DEF ReviewInv
  <2>3. \A d \in Comments \ Present' : logged'[d] = "open" BY <1>14, <1>19 DEF ReviewInv
  <2> QED BY <1>13, <1>14, <2>1, <2>2, <2>3 DEF TrailTellsTheStatus
<1> QED BY <1>17, <1>18, <1>20, <1>22, <1>23, <1>24 DEF ReviewInv

LEMMA ReviewInitially == ReviewInit => ReviewInv
<1> SUFFICES ASSUME ReviewInit PROVE ReviewInv OBVIOUS
<1>1. Present = {} BY DEF ReviewInit, Present, NoRow
<1>2. TreeInv
  <2>1. {} = 1..0 OBVIOUS
  <2> QED BY <1>1, <2>1 DEF TreeInv
<1>3. ReviewTypeOK BY DEF ReviewInit, ReviewTypeOK, NoRow, NoReview
<1>4. \A r \in Reviewers : HangsTrue(r) BY DEF ReviewInit, HangsTrue, NoReview
<1> QED BY <1>1, <1>2, <1>3, <1>4 DEF ReviewInv, ReviewInit, NoReplyDangles, BuriedInv, TrailTellsTheStatus

LEMMA ReviewStep == ReviewInv /\ [ReviewNext]_reviewVars => ReviewInv'
<1> SUFFICES ASSUME ReviewInv, [ReviewNext]_reviewVars PROVE ReviewInv' OBVIOUS
<1>0. Present \subseteq Comments BY DEF Present
<1>1. ASSUME NEW r \in Reviewers, ClientWrites(r) \/ AdminWrites(r) PROVE ReviewInv'
  <2>1. PICK at \in {"client", "admin"}, on \in {c \in Comments : Visible(c)} \cup {NoComment} :
          Begin(r, at, on, "open") /\ UNCHANGED <<comment, logged, heard, raced>>
    BY <1>1 DEF ClientWrites, AdminWrites
  <2>2. on \in Present \cup {NoComment} BY <2>1 DEF Visible
  <2> QED BY <1>0, <2>1, <2>2, BeginKeeps
<1>2. ASSUME NEW r \in Reviewers, HideBegin(r) PROVE ReviewInv'
  <2>1. PICK c \in Present : Begin(r, "hide", c, "open") /\ UNCHANGED <<comment, logged, heard, raced>>
    BY <1>2 DEF HideBegin
  <2> QED BY <1>0, <2>1, BeginKeeps
<1>3. ASSUME NEW r \in Reviewers, TransitionBegin(r) PROVE ReviewInv'
  <2>1. PICK c \in Present, to \in {"open", "resolved"} :
          /\ Parent(c) = NoComment /\ Begin(r, "transition", c, to)
          /\ UNCHANGED <<comment, logged, heard, raced>> BY <1>3 DEF TransitionBegin
  <2> QED BY <1>0, <2>1, BeginKeeps
<1>4. ASSUME NEW r \in Reviewers, ReviewEnds(r) PROVE ReviewInv'
  BY <1>4, NobodyAsks, CheckKeeps DEF ReviewEnds, Answered
<1>5. CASE UNCHANGED reviewVars
  <2>1. UNCHANGED <<comment, logged, review, heard, raced>> BY <1>5 DEF reviewVars
  <2>2. Present' = Present /\ \A c \in Present : Parent(c)' = Parent(c) BY <2>1 DEF Present, Parent
  <2>3. /\ \A c \in Present : Subtree(c)' = Subtree(c)
        /\ \A c, d \in Present : Heads(d, c)' <=> Heads(d, c) BY <2>2, SubtreeStays
  <2>4. TreeInv' BY <2>2, <2>3 DEF ReviewInv, TreeInv
  <2>5. ReviewTypeOK' BY <2>1, <2>2 DEF ReviewInv, ReviewTypeOK
  <2>6. \A q \in Reviewers : HangsTrue(q)' BY <2>1 DEF ReviewInv, HangsTrue, Present, Parent
  <2>7. NoReplyDangles' /\ TrailTellsTheStatus' /\ \A c \in Comments \ Present' : logged'[c] = "open"
    BY <2>1 DEF ReviewInv, NoReplyDangles, TrailTellsTheStatus, Visible, Present, Parent
  <2>8. BuriedInv' BY <2>1, <2>2, <2>3 DEF ReviewInv, BuriedInv, Visible, Parent
  <2> QED BY <2>4, <2>5, <2>6, <2>7, <2>8 DEF ReviewInv
<1> QED BY <1>1, <1>2, <1>3, <1>4, <1>5, HideKeeps, TransitionKeeps, InsertKeeps DEF ReviewNext

LEMMA ReviewMeans == ReviewInv => ReviewTypeOK /\ ThreadsAreSound
<1>1. ASSUME ReviewInv PROVE NoReplyIsBuried BY <1>1, RootIsHead DEF ReviewInv, BuriedInv, NoReplyIsBuried
<1> QED BY <1>1 DEF ReviewInv, ThreadsAreSound

(* Proofing: the label, who may still pick, and what a deletion takes.     *)

\* The sums of the label.
LEMMA RemainingIs ==
  ASSUME NEW v
  PROVE  Remaining(v) =
           (CHOOSE g : g = [s \in SUBSET Targeted |-> IF s = {} THEN 0 ELSE TargetOf(Chosen(s)) + g[Rest(s)]])[Targeted]
           - (CHOOSE g : g = [s \in SUBSET Targeted |-> IF s = {} THEN 0 ELSE Towards(v, Chosen(s)) + g[Rest(s)]])[Targeted]
BY DEF Remaining, MapThenSumSet, MapThenFoldSet, Chosen, Rest

\* The label, whatever the picks: nothing remains exactly when every section is done.
LEMMA LabelTrue ==
  ASSUME ProofTypeOK, NEW v \in Visitors
  PROVE  Remaining(v) = 0 <=> Complete(v)
<1>0. /\ IsFiniteSet(Targeted) /\ \A s \in Targeted : section[s].target \in Nat \ {0}
      /\ \A s \in Sections : IsFiniteSet(Picked(v, s)) /\ Cardinality(Picked(v, s)) \in Nat
  <2>1. section \in [Sections -> [there : BOOLEAN, target : 0..MaxTarget]] /\ MaxTarget \in Nat
    BY ProofingAssumption DEF ProofTypeOK
  <2>2. IsFiniteSet(Targeted) BY ProofingAssumption, FS_Subset DEF Targeted
  <2>3. \A s \in Targeted : section[s].target \in Nat \ {0} BY <2>1 DEF Targeted
  <2>4. \A s : IsFiniteSet(Picked(v, s)) BY ProofingAssumption, FS_Subset DEF Picked
  <2> QED BY <2>2, <2>3, <2>4, FS_CardinalityType
<1> DEFINE target == [s \in Targeted |-> TargetOf(s)]
           toward == [s \in Targeted |-> Towards(v, s)]
<1>1. target \in [Targeted -> Nat] BY <1>0 DEF TargetOf
<1>2. ASSUME NEW s \in Targeted
      PROVE  /\ toward[s] \in Nat /\ toward[s] <= target[s]
             /\ toward[s] = target[s] <=> Cardinality(Picked(v, s)) >= section[s].target
  <2>1. s \in Sections BY DEF Targeted
  <2>2. PICK n \in Nat, t \in Nat : n = Cardinality(Picked(v, s)) /\ t = section[s].target BY <1>0, <2>1
  <2>3. toward[s] = (IF n < t THEN n ELSE t) /\ target[s] = t BY <2>2 DEF Towards, TargetOf
  <2> QED BY <2>2, <2>3
<1>3. toward \in [Targeted -> Nat] BY <1>2
<1> DEFINE AllOf(g) == g = [s \in SUBSET Targeted |-> IF s = {} THEN 0 ELSE TargetOf(Chosen(s)) + g[Rest(s)]]
           DoneOf(g) == g = [s \in SUBSET Targeted |-> IF s = {} THEN 0 ELSE Towards(v, Chosen(s)) + g[Rest(s)]]
<1>4. ASSUME NEW g PROVE (AllOf(g) <=> Sums(Targeted, target, g)) /\ (DoneOf(g) <=> Sums(Targeted, toward, g))
  <2>1. ASSUME NEW s \in SUBSET Targeted, s # {}
        PROVE target[Chosen(s)] = TargetOf(Chosen(s)) /\ toward[Chosen(s)] = Towards(v, Chosen(s))
    BY <2>1, ChosenIsThere
  <2> HIDE DEF target, toward
  <2>2. \A s \in SUBSET Targeted : (IF s = {} THEN 0 ELSE TargetOf(Chosen(s)) + g[Rest(s)]) = SumStep(target, g, s)
    BY <2>1 DEF SumStep
  <2>3. \A s \in SUBSET Targeted : (IF s = {} THEN 0 ELSE Towards(v, Chosen(s)) + g[Rest(s)]) = SumStep(toward, g, s)
    BY <2>1 DEF SumStep
  <2> QED BY <2>2, <2>3 DEF Sums
<1>5. (\E g : AllOf(g)) /\ (\E g : DoneOf(g))
  <2> HIDE DEF target, toward, AllOf, DoneOf
  <2> QED BY <1>0, <1>1, <1>3, <1>4, SumsExist
<1> DEFINE all == CHOOSE g : AllOf(g)
           done == CHOOSE g : DoneOf(g)
<1>6. AllOf(all) /\ DoneOf(done)
  <2> HIDE DEF AllOf, DoneOf
  <2> QED BY <1>5
<1>7. Remaining(v) = all[Targeted] - done[Targeted] BY RemainingIs
<1>8. Sums(Targeted, target, all) /\ Sums(Targeted, toward, done) BY <1>4, <1>6
<1> HIDE DEF all, done, target, toward, AllOf, DoneOf
<1>9. all[Targeted] \in Nat /\ done[Targeted] \in Nat
  <2>1. all \in [SUBSET Targeted -> Nat] BY <1>0, <1>1, <1>8, SumIsNat
  <2>2. done \in [SUBSET Targeted -> Nat] BY <1>0, <1>3, <1>8, SumIsNat
  <2> QED BY <2>1, <2>2
<1>10. done[Targeted] = all[Targeted] <=> \A s \in Targeted : toward[s] = target[s]
  <2>1. \A s \in Targeted : toward[s] <= target[s] BY <1>2
  <2> QED BY <1>0, <1>1, <1>3, <1>8, <2>1, SumsCompare
<1> QED BY <1>2, <1>7, <1>9, <1>10 DEF Complete

TapRows  == [at : {"idle", "look", "uncircle", "count", "circle"}, visitor : Visitors \cup {NoPhoto},
             photo : Photos \cup {NoPhoto}, section : Sections \cup {NoSection}, target : 0..MaxTarget]
DeskRows == [at : {"idle", "cover", "row", "delete", "delete forced"}, photo : Photos \cup {NoPhoto},
             cover : Photos \cup {NoPhoto}]
ShotRows == [there : BOOLEAN, section : Sections \cup {NoSection}]
SectionRows == [there : BOOLEAN, target : 0..MaxTarget]
ShownRows == [there : BOOLEAN, published : BOOLEAN, expired : BOOLEAN, cover : Photos \cup {NoPhoto}]

ProofTyped ==
  /\ ProofTypeOK /\ tap \in [Taps -> TapRows] /\ desk \in [Desks -> DeskRows]
  /\ \A t \in Taps : tap[t].at # "idle" => tap[t].visitor \in Visitors /\ tap[t].photo \in Photos
  /\ \A d \in Desks : desk[d].at \in {"cover", "row"} => desk[d].photo \in Photos

\* A tap whose count nothing else moves: it is alone, its photo is where it was read to
\* be, its target is the section's, and once it has counted there is room.
Alone(t, v, s) ==
  \A q \in Taps \ {t} : ~(tap[q].at # "idle" /\ tap[q].visitor = v /\ tap[q].section = s)
Calm(t) ==
  LET v == tap[t].visitor  s == tap[t].section IN
  tap[t].at # "idle" =>
    /\ <<v, s>> \notin crowd => Alone(t, v, s)
    /\ shot[tap[t].photo].section # s =>
         shot[tap[t].photo].section = NoSection \/ <<v, shot[tap[t].photo].section>> \in crowd
    /\ <<v, s>> \notin crowd /\ s \in Targeted =>
         /\ tap[t].target = section[s].target
         /\ tap[t].at = "circle" => Cardinality(Picked(v, s)) < section[s].target

Dropping == OnlyLatePicksDropped /\ \A d \in Desks : desk[d].at = "delete" => picks \subseteq slipped
Covering ==
  /\ CoverIsThere /\ (shown.there \/ bareCover \/ shown.cover = NoPhoto)
  /\ (shown.there \/ \A p \in Photos : ~shot[p].there)
Capping == CapHolds /\ \A t \in Taps : Calm(t)

ProofInv == ProofTyped /\ Capping /\ Covering /\ Dropping

LEMMA ProofInitially == ASSUME ProofInit PROVE ProofInv
<1>0. MaxTarget \in Nat /\ 0 \in 0..MaxTarget BY ProofingAssumption
<1>1. ProofTyped
  <2>1. shown \in ShownRows BY DEF ProofInit, ShownRows
  <2>2. section \in [Sections -> SectionRows] BY <1>0 DEF ProofInit, SectionRows
  <2>3. shot \in [Photos -> ShotRows]
    <3>1. ASSUME NEW s \in Sections PROVE [there |-> TRUE, section |-> s] \in ShotRows BY DEF ShotRows
    <3>2. \A p \in Photos : shot[p] \in ShotRows BY <3>1 DEF ProofInit
    <3> QED BY <3>2 DEF ProofInit
  <2>4. tap \in [Taps -> TapRows] BY <1>0 DEF ProofInit, TapRows, NoTap
  <2>5. desk \in [Desks -> DeskRows] BY DEF ProofInit, DeskRows, NoDesk
  <2>6. \A p \in Photos : shot[p].section # NoSection => section[shot[p].section].there BY DEF ProofInit
  <2>7. ProofTypeOK BY <2>1, <2>2, <2>3, <2>6 DEF ProofTypeOK, ShownRows, SectionRows, ShotRows, ProofInit
  <2>8. (\A t \in Taps : tap[t].at = "idle") /\ \A d \in Desks : desk[d].at = "idle" BY DEF ProofInit, NoTap, NoDesk
  <2> QED BY <2>4, <2>5, <2>7, <2>8 DEF ProofTyped
<1>2. Capping
  <2>1. Targeted = {} BY <1>0 DEF ProofInit, Targeted
  <2> QED BY <2>1 DEF ProofInit, Capping, CapHolds, Calm, NoTap
<1>3. Covering BY DEF ProofInit, Covering, CoverIsThere
<1>4. Dropping BY DEF ProofInit, Dropping, OnlyLatePicksDropped, NoDesk
<1> QED BY <1>1, <1>2, <1>3, <1>4 DEF ProofInv

\* The counts are numbers, and fewer picks are not more.
LEMMA CountedAnew ==
  ASSUME NEW v, NEW s
  PROVE  IsFiniteSet(Picked(v, s)) /\ Cardinality(Picked(v, s)) \in Nat
<1>1. IsFiniteSet(Picked(v, s)) BY ProofingAssumption, FS_Subset DEF Picked
<1> QED BY <1>1, FS_CardinalityType

LEMMA CountedNext ==
  ASSUME NEW v, NEW s
  PROVE  IsFiniteSet(Picked(v, s)') /\ Cardinality(Picked(v, s)') \in Nat
<1>1. IsFiniteSet(Picked(v, s)') BY ProofingAssumption, FS_Subset DEF Picked
<1> QED BY <1>1, FS_CardinalityType

\* The types, step by step.
LEMMA ProofTypedStep ==
  ASSUME ProofTyped, ProofNext
  PROVE  ProofTyped'
<1>0. /\ MaxTarget \in Nat /\ 0 \in 0..MaxTarget /\ NoPhoto \notin Photos /\ NoSection \notin Sections
      /\ shown \in ShownRows /\ section \in [Sections -> SectionRows] /\ shot \in [Photos -> ShotRows]
      /\ picks \subseteq Visitors \X {p \in Photos : shot[p].there}
      /\ tap \in [Taps -> TapRows] /\ desk \in [Desks -> DeskRows]
      /\ (\A p \in Photos : shot[p].section # NoSection => section[shot[p].section].there)
      /\ (\A t \in Taps : tap[t].at # "idle" => tap[t].visitor \in Visitors /\ tap[t].photo \in Photos)
      /\ (\A d \in Desks : desk[d].at \in {"cover", "row"} => desk[d].photo \in Photos)
  BY ProofingAssumption DEF ProofTyped, ProofTypeOK, ShownRows, SectionRows, ShotRows
<1> DEFINE TapsOK == /\ tap' \in [Taps -> TapRows]
                     /\ \A t \in Taps : tap'[t].at # "idle" => tap'[t].visitor \in Visitors /\ tap'[t].photo \in Photos
           DesksOK == /\ desk' \in [Desks -> DeskRows]
                      /\ \A d \in Desks : desk'[d].at \in {"cover", "row"} => desk'[d].photo \in Photos
           RowsOK == /\ section' \in [Sections -> SectionRows] /\ shot' \in [Photos -> ShotRows]
                     /\ picks' \subseteq Visitors \X {p \in Photos : shot'[p].there}
                     /\ \A p \in Photos : shot'[p].section # NoSection => section'[shot'[p].section].there
<1>1. SUFFICES TapsOK /\ DesksOK /\ RowsOK /\ shown' \in ShownRows
  BY DEF ProofTyped, ProofTypeOK, ShownRows, SectionRows, ShotRows
<1>2. NoTap \in TapRows /\ NoTap.at = "idle" /\ NoDesk \in DeskRows /\ NoDesk.at = "idle"
  BY <1>0 DEF NoTap, NoDesk, TapRows, DeskRows
<1>3. UNCHANGED tap => TapsOK BY <1>0
<1>4. UNCHANGED desk => DesksOK BY <1>0
<1>5. UNCHANGED <<section, shot, picks>> => RowsOK BY <1>0
<1>6. ASSUME NEW t \in Taps, TapEnds(t) PROVE TapsOK BY <1>0, <1>2, <1>6 DEF TapEnds
<1>7. ASSUME NEW d \in Desks, DeskEnds(d) PROVE DesksOK BY <1>0, <1>2, <1>7 DEF DeskEnds
<1>8. ASSUME NEW t \in Taps, tap[t].at # "idle", NEW a \in {"look", "uncircle", "count", "circle"},
             tap' = [tap EXCEPT ![t].at = a]
      PROVE  TapsOK
  <2>1. tap[t] \in TapRows BY <1>0
  <2>2. [tap[t] EXCEPT !.at = a] \in TapRows BY <1>8, <2>1 DEF TapRows
  <2>3. tap' = [tap EXCEPT ![t] = [tap[t] EXCEPT !.at = a]] BY <1>8
  <2>4. /\ [tap[t] EXCEPT !.at = a].visitor = tap[t].visitor
        /\ [tap[t] EXCEPT !.at = a].photo = tap[t].photo BY <2>1 DEF TapRows
  <2> QED BY <1>0, <1>8, <2>2, <2>3, <2>4
<1>10. ASSUME NEW t \in Taps, Tap(t) PROVE TapsOK /\ DesksOK /\ RowsOK /\ shown' \in ShownRows
  <2>1. PICK v \in Visitors, p \in Photos :
          tap' = [tap EXCEPT ![t] =
            [at |-> "look", visitor |-> v, photo |-> p, section |-> shot[p].section,
             target |-> IF shot[p].section = NoSection THEN 0 ELSE section[shot[p].section].target]] BY <1>10 DEF Tap
  <2>2. PICK s \in Sections \cup {NoSection} : s = shot[p].section BY <1>0 DEF ShotRows
  <2>3. PICK n \in 0..MaxTarget : n = IF s = NoSection THEN 0 ELSE section[s].target BY <1>0 DEF SectionRows
  <2>4. [at |-> "look", visitor |-> v, photo |-> p, section |-> s, target |-> n] \in TapRows BY DEF TapRows
  <2>5. tap' = [tap EXCEPT ![t] = [at |-> "look", visitor |-> v, photo |-> p, section |-> s, target |-> n]]
    BY <2>1, <2>2, <2>3
  <2>6. TapsOK BY <1>0, <2>4, <2>5
  <2> QED BY <1>0, <1>4, <1>5, <1>10, <2>6 DEF Tap, RestOfTap
<1>11. ASSUME NEW t \in Taps, Look(t) PROVE TapsOK /\ DesksOK /\ RowsOK /\ shown' \in ShownRows
  <2> DEFINE a == IF <<tap[t].visitor, tap[t].photo>> \in picks THEN "uncircle"
                  ELSE IF tap[t].target > 0 THEN "count" ELSE "circle"
  <2>1. a \in {"look", "uncircle", "count", "circle"} OBVIOUS
  <2>2. tap[t].at # "idle" /\ tap' = [tap EXCEPT ![t].at = a] BY <1>11 DEF Look
  <2> HIDE DEF a, TapsOK
  <2>3. TapsOK BY <1>8, <2>1, <2>2
  <2> QED BY <1>0, <1>4, <1>5, <1>11, <2>3 DEF Look, RestOfTap
<1>12. ASSUME NEW t \in Taps, Uncircle(t) PROVE TapsOK /\ DesksOK /\ RowsOK /\ shown' \in ShownRows
  <2>1. TapsOK BY <1>6, <1>12 DEF Uncircle
  <2>2. picks' \subseteq picks /\ UNCHANGED <<shown, section, shot, desk>> BY <1>12 DEF Uncircle, RestOfTap
  <2> QED BY <1>0, <1>4, <2>1, <2>2
<1>13. ASSUME NEW t \in Taps, Count(t) PROVE TapsOK /\ DesksOK /\ RowsOK /\ shown' \in ShownRows
  <2>1. tap[t].at # "idle" /\ (TapEnds(t) \/ tap' = [tap EXCEPT ![t].at = "circle"]) BY <1>13 DEF Count
  <2>2. TapsOK
    <3> HIDE DEF TapsOK
    <3> QED BY <1>6, <1>8, <2>1
  <2> QED BY <1>0, <1>4, <1>5, <1>13, <2>2 DEF Count, RestOfTap
<1>14. ASSUME NEW t \in Taps, Circle(t) PROVE TapsOK /\ DesksOK /\ RowsOK /\ shown' \in ShownRows
  <2>1. TapsOK BY <1>6, <1>14 DEF Circle
  <2>2. tap[t].visitor \in Visitors /\ tap[t].photo \in Photos BY <1>0, <1>14 DEF Circle
  <2>3. RowsOK BY <1>0, <1>14, <2>2 DEF Circle, RestOfTap
  <2> QED BY <1>0, <1>4, <1>14, <2>1, <2>3 DEF Circle, RestOfTap
<1>15. ASSUME NEW s \in Sections, NEW n \in 0..MaxTarget, SetSectionProof(s, n)
       PROVE  TapsOK /\ DesksOK /\ RowsOK /\ shown' \in ShownRows
  <2>1. section' = [section EXCEPT ![s] = [section[s] EXCEPT !.target = n]] BY <1>15 DEF SetSectionProof
  <2>2. section[s] \in SectionRows BY <1>0
  <2>3. [section[s] EXCEPT !.target = n] \in SectionRows /\ [section[s] EXCEPT !.target = n].there = section[s].there
    BY <2>2 DEF SectionRows
  <2>4. section' \in [Sections -> SectionRows] /\ \A q \in Sections : section'[q].there = section[q].there
    BY <1>0, <2>1, <2>3
  <2>5. \A p \in Photos : shot[p].section \in Sections \cup {NoSection} BY <1>0 DEF ShotRows
  <2>6. UNCHANGED <<shown, shot, picks, tap, desk>> BY <1>15 DEF SetSectionProof, RestOfSorting
  <2>7. RowsOK BY <1>0, <2>4, <2>5, <2>6
  <2> QED BY <1>0, <1>3, <1>4, <2>6, <2>7
<1>16. ASSUME NEW s \in Sections, DeleteSection(s) PROVE TapsOK /\ DesksOK /\ RowsOK /\ shown' \in ShownRows
  <2>1. section' = [section EXCEPT ![s] = [there |-> FALSE, target |-> 0]] BY <1>16 DEF DeleteSection
  <2>2. section' \in [Sections -> SectionRows] BY <1>0, <2>1 DEF SectionRows
  <2>3. ASSUME NEW p \in Photos
        PROVE  /\ shot'[p] \in ShotRows /\ shot'[p].there = shot[p].there /\ shot[p].section \in Sections \cup {NoSection}
               /\ shot'[p].section = IF shot[p].section = s THEN NoSection ELSE shot[p].section
    BY <1>0, <1>16 DEF DeleteSection, ShotRows
  <2>4. shot' \in [Photos -> ShotRows] BY <1>16, <2>3 DEF DeleteSection
  <2>5. UNCHANGED <<shown, picks, tap, desk>> BY <1>16 DEF DeleteSection, RestOfSorting
  <2>6. RowsOK BY <1>0, <2>1, <2>2, <2>3, <2>4, <2>5
  <2> QED BY <1>0, <1>3, <1>4, <2>5, <2>6
<1>17. ASSUME NEW s \in Sections \cup {NoSection}, NEW P \in SUBSET Photos, MoveAssets(P, s)
       PROVE  TapsOK /\ DesksOK /\ RowsOK /\ shown' \in ShownRows
  <2>1. ASSUME NEW p \in Photos
        PROVE  /\ shot'[p] \in ShotRows /\ shot'[p].there = shot[p].there
               /\ shot'[p].section \in {s, shot[p].section}
    <3>1. shot[p] \in ShotRows BY <1>0
    <3>2. shot'[p] = IF p \in P /\ shot[p].there THEN [shot[p] EXCEPT !.section = s] ELSE shot[p]
      BY <1>17 DEF MoveAssets
    <3>3. /\ [shot[p] EXCEPT !.section = s] \in ShotRows /\ [shot[p] EXCEPT !.section = s].there = shot[p].there
          /\ [shot[p] EXCEPT !.section = s].section = s BY <3>1 DEF ShotRows
    <3> QED BY <3>1, <3>2, <3>3
  <2>2. shot' \in [Photos -> ShotRows] BY <1>17, <2>1 DEF MoveAssets
  <2>3. UNCHANGED <<shown, section, picks, tap, desk>> BY <1>17 DEF MoveAssets, RestOfSorting
  <2>4. s # NoSection => section[s].there BY <1>17 DEF MoveAssets
  <2>5. RowsOK BY <1>0, <2>1, <2>2, <2>3, <2>4
  <2> QED BY <1>0, <1>3, <1>4, <2>3, <2>5
<1>18. ASSUME NEW d \in Desks, NEW a \in {"cover", "row"}, NEW p \in Photos, NEW c \in Photos \cup {NoPhoto},
              desk' = [desk EXCEPT ![d] = [at |-> a, photo |-> p, cover |-> c]]
       PROVE  DesksOK
  <2>1. [at |-> a, photo |-> p, cover |-> c] \in DeskRows BY DEF DeskRows
  <2> QED BY <1>0, <1>18, <2>1
<1>19. ASSUME NEW d \in Desks, SetCoverRead(d) PROVE TapsOK /\ DesksOK /\ RowsOK /\ shown' \in ShownRows
  <2>1. PICK p \in Photos : desk' = [desk EXCEPT ![d] = [at |-> "cover", photo |-> p, cover |-> shown.cover]]
    BY <1>19 DEF SetCoverRead
  <2>2. shown.cover \in Photos \cup {NoPhoto} BY <1>0 DEF ShownRows
  <2>3. DesksOK BY <1>18, <2>1, <2>2
  <2> QED BY <1>0, <1>3, <1>5, <1>19, <2>3 DEF SetCoverRead, RestOfDesk
<1>20. ASSUME NEW d \in Desks, DeleteAssetFiles(d) PROVE TapsOK /\ DesksOK /\ RowsOK /\ shown' \in ShownRows
  <2>1. PICK p \in Photos : desk' = [desk EXCEPT ![d] = [at |-> "row", photo |-> p, cover |-> NoPhoto]]
    BY <1>20 DEF DeleteAssetFiles
  <2>2. DesksOK BY <1>18, <2>1
  <2> QED BY <1>0, <1>3, <1>5, <1>20, <2>2 DEF DeleteAssetFiles, RestOfDesk
<1>21. ASSUME NEW d \in Desks, SetCoverWrite(d) PROVE TapsOK /\ DesksOK /\ RowsOK /\ shown' \in ShownRows
  <2>1. DesksOK BY <1>7, <1>21 DEF SetCoverWrite
  <2>2. PICK c \in Photos \cup {NoPhoto} : shown' = [shown EXCEPT !.cover = c] BY <1>0, <1>21 DEF SetCoverWrite
  <2>3. shown' \in ShownRows BY <1>0, <2>2 DEF ShownRows
  <2> QED BY <1>3, <1>5, <1>21, <2>1, <2>3 DEF SetCoverWrite, RestOfDesk
<1>22. ASSUME NEW d \in Desks, DeleteAssetRow(d) PROVE TapsOK /\ DesksOK /\ RowsOK /\ shown' \in ShownRows
  <2>1. DesksOK BY <1>7, <1>22 DEF DeleteAssetRow
  <2>2. PICK p \in Photos : p = desk[d].photo BY <1>0, <1>22 DEF DeleteAssetRow
  <2>3. /\ shot' = [shot EXCEPT ![p] = [there |-> FALSE, section |-> NoSection]]
        /\ picks' = {k \in picks : k[2] # p} /\ UNCHANGED <<section, tap>>
    BY <1>22, <2>2 DEF DeleteAssetRow, RestOfDesk
  <2>4. shot' \in [Photos -> ShotRows] BY <1>0, <2>3 DEF ShotRows
  <2>5. RowsOK BY <1>0, <2>3, <2>4
  <2>6. PICK c \in Photos \cup {NoPhoto} : c = CoverAfter(p) BY <1>0 DEF CoverAfter, ShownRows
  <2>7. shown' = [shown EXCEPT !.cover = c] \/ shown' = shown BY <1>22, <2>2, <2>6 DEF DeleteAssetRow
  <2>8. shown' \in ShownRows BY <1>0, <2>7 DEF ShownRows
  <2> QED BY <1>3, <2>1, <2>3, <2>5, <2>8
<1>23. ASSUME NEW d \in Desks, DeleteGalleryCheck(d) PROVE TapsOK /\ DesksOK /\ RowsOK /\ shown' \in ShownRows
  <2>1. PICK a \in {"delete", "delete forced"} : desk' = [desk EXCEPT ![d] = [desk[d] EXCEPT !.at = a]]
    BY <1>23 DEF DeleteGalleryCheck
  <2>2. desk[d] \in DeskRows BY <1>0
  <2>3. [desk[d] EXCEPT !.at = a] \in DeskRows /\ [desk[d] EXCEPT !.at = a].at = a BY <2>2 DEF DeskRows
  <2>4. DesksOK BY <1>0, <2>1, <2>3
  <2> QED BY <1>0, <1>3, <1>5, <1>23, <2>4 DEF DeleteGalleryCheck, RestOfDesk
<1>24. ASSUME NEW d \in Desks, DeleteGallery(d) PROVE TapsOK /\ DesksOK /\ RowsOK /\ shown' \in ShownRows
  <2>1. DesksOK BY <1>7, <1>24 DEF DeleteGallery
  <2>2. shot' \in [Photos -> ShotRows] /\ section' \in [Sections -> SectionRows]
    BY <1>0, <1>24 DEF DeleteGallery, ShotRows, SectionRows
  <2>3. RowsOK BY <1>24, <2>2 DEF DeleteGallery
  <2>4. shown' \in ShownRows BY <1>24 DEF DeleteGallery, ShownRows
  <2> QED BY <1>3, <1>24, <2>1, <2>3, <2>4 DEF DeleteGallery
<1>25. ASSUME NEW b \in BOOLEAN, Publish(b) \/ Expire(b) PROVE TapsOK /\ DesksOK /\ RowsOK /\ shown' \in ShownRows
  <2>1. shown' \in ShownRows BY <1>0, <1>25 DEF Publish, Expire, ShownRows
  <2> QED BY <1>3, <1>4, <1>5, <1>25, <2>1 DEF Publish, Expire
<1>26. CASE ProofKill
  <2>1. TapsOK /\ DesksOK BY <1>2, <1>26 DEF ProofKill
  <2> QED BY <1>0, <1>5, <1>26, <2>1 DEF ProofKill
<1> HIDE DEF TapsOK, DesksOK, RowsOK
<1> QED
  BY <1>10, <1>11, <1>12, <1>13, <1>14, <1>15, <1>16, <1>17, <1>19, <1>20, <1>21, <1>22, <1>23, <1>24, <1>25, <1>26
  DEF ProofNext

\* The caps of a step that adds no pick, changes no target and moves no photo unnoticed.
LEMMA CapKept ==
  ASSUME ProofTyped, Capping, crowd \subseteq crowd',
         \A v \in Visitors, s \in Targeted' :
            /\ s \in Targeted /\ section'[s].target = section[s].target
            /\ <<v, s>> \in crowd' \/ Picked(v, s)' \subseteq Picked(v, s),
         \A t \in Taps : tap'[t] = tap[t] \/ tap'[t].at = "idle",
         \A t \in Taps : tap[t].at # "idle" =>
            LET s == shot'[tap[t].photo].section IN
            s = shot[tap[t].photo].section \/ s = NoSection \/ <<tap[t].visitor, s>> \in crowd'
  PROVE  Capping'
<1>1. ASSUME NEW v \in Visitors, NEW s \in Targeted', <<v, s>> \notin crowd'
      PROVE  /\ <<v, s>> \notin crowd /\ s \in Targeted /\ section'[s].target = section[s].target
             /\ Cardinality(Picked(v, s)') <= Cardinality(Picked(v, s))
             /\ Cardinality(Picked(v, s)') \in Nat /\ Cardinality(Picked(v, s)) \in Nat
             /\ section[s].target \in Nat
  <2>1. Picked(v, s)' \subseteq Picked(v, s) /\ s \in Targeted BY <1>1
  <2>2. section[s].target \in Nat BY <2>1, ProofingAssumption DEF ProofTyped, ProofTypeOK, Targeted
  <2> QED BY <1>1, <2>1, <2>2, CountedAnew, CountedNext, FS_Subset
<1>2. CapHolds'
  <2>1. ASSUME NEW v \in Visitors, NEW s \in Targeted', <<v, s>> \notin crowd'
        PROVE  Cardinality(Picked(v, s)') <= section'[s].target
    <3>1. Cardinality(Picked(v, s)) <= section[s].target BY <1>1, <2>1 DEF Capping, CapHolds
    <3> QED BY <1>1, <2>1, <3>1
  <2> QED BY <2>1 DEF CapHolds
<1>3. ASSUME NEW t \in Taps PROVE Calm(t)'
  <2>1. CASE tap'[t].at = "idle" BY <2>1 DEF Calm
  <2>2. CASE tap'[t].at # "idle"
    <3>1. tap'[t] = tap[t] BY <2>2
    <3>2. PICK v, s : v \in Visitors /\ v = tap[t].visitor /\ s = tap[t].section BY <2>2, <3>1 DEF ProofTyped
    <3>3. Calm(t) BY DEF Capping
    <3>4. <<v, s>> \notin crowd' => Alone(t, v, s)'
      <4>1. <<v, s>> \notin crowd => Alone(t, v, s) BY <2>2, <3>1, <3>2, <3>3 DEF Calm
      <4> QED BY <4>1 DEF Alone
    <3>5. shot'[tap[t].photo].section # s =>
            shot'[tap[t].photo].section = NoSection \/ <<v, shot'[tap[t].photo].section>> \in crowd'
      BY <2>2, <3>1, <3>2, <3>3 DEF Calm
    <3>6. ASSUME <<v, s>> \notin crowd', s \in Targeted'
          PROVE  tap[t].target = section'[s].target /\ (tap[t].at = "circle" => Cardinality(Picked(v, s)') < section'[s].target)
      <4>1. /\ <<v, s>> \notin crowd /\ s \in Targeted /\ section'[s].target = section[s].target
            /\ Cardinality(Picked(v, s)') <= Cardinality(Picked(v, s))
            /\ Cardinality(Picked(v, s)') \in Nat /\ Cardinality(Picked(v, s)) \in Nat
            /\ section[s].target \in Nat BY <1>1, <3>2, <3>6
      <4>2. tap[t].target = section[s].target /\ (tap[t].at = "circle" => Cardinality(Picked(v, s)) < section[s].target)
        BY <2>2, <3>1, <3>2, <3>3, <4>1 DEF Calm
      <4> QED BY <4>1, <4>2
    <3> QED BY <3>1, <3>2, <3>4, <3>5, <3>6 DEF Calm
  <2> QED BY <2>1, <2>2
<1> QED BY <1>2, <1>3 DEF Capping

LEMMA CappingStep ==
  ASSUME ProofTyped, ProofTyped', Capping, ProofNext
  PROVE  Capping'
<1>0. /\ MaxTarget \in Nat /\ NoSection \notin Sections /\ section \in [Sections -> SectionRows]
      /\ shot \in [Photos -> ShotRows] /\ tap \in [Taps -> TapRows]
      /\ (\A t \in Taps : tap[t].at # "idle" => tap[t].visitor \in Visitors /\ tap[t].photo \in Photos)
      /\ \A s \in Sections : section[s].target \in Nat
      /\ \A p \in Photos : shot[p].section # NoSection =>
            shot[p].section \in Sections /\ section[shot[p].section].there
  <2>1. section \in [Sections -> SectionRows] /\ shot \in [Photos -> ShotRows]
    BY DEF ProofTyped, ProofTypeOK, SectionRows, ShotRows
  <2>2. \A s \in Sections : section[s].target \in Nat BY <2>1, ProofingAssumption DEF SectionRows
  <2> QED BY <2>1, <2>2, ProofingAssumption DEF ProofTyped, ProofTypeOK, ShotRows
<1>1. ASSUME UNCHANGED <<section, shot, crowd>>, picks' \subseteq picks,
             \A t \in Taps : tap'[t] = tap[t] \/ tap'[t].at = "idle"
      PROVE  Capping'
  <2>1. \A v \in Visitors, s \in Targeted' :
            /\ s \in Targeted /\ section'[s].target = section[s].target
            /\ <<v, s>> \in crowd' \/ Picked(v, s)' \subseteq Picked(v, s) BY <1>1 DEF Targeted, Picked
  <2> QED BY <1>1, <2>1, CapKept
<1>2. ASSUME NEW t \in Taps, TapEnds(t) PROVE \A q \in Taps : tap'[q] = tap[q] \/ tap'[q].at = "idle"
  BY <1>0, <1>2 DEF TapEnds, NoTap
<1>10. ASSUME NEW t \in Taps, Tap(t) PROVE Capping'
  <2>1. PICK v, p, s, n :
          /\ v \in Visitors /\ p \in Photos /\ s = shot[p].section /\ n = IF s = NoSection THEN 0 ELSE section[s].target
          /\ tap' = [tap EXCEPT ![t] = [at |-> "look", visitor |-> v, photo |-> p, section |-> s, target |-> n]]
          /\ crowd' = IF Crowds(v, s) THEN crowd \cup {<<v, s>>} ELSE crowd BY <1>10 DEF Tap
  <2>2. UNCHANGED <<section, shot, picks>> BY <1>10 DEF Tap, RestOfTap
  <2>3. Targeted' = Targeted /\ \A w, q : Picked(w, q)' = Picked(w, q) BY <2>2 DEF Targeted, Picked
  <2>4. crowd \subseteq crowd' BY <2>1
  <2>5. CapHolds' BY <2>2, <2>3, <2>4 DEF Capping, CapHolds
  <2>6. /\ tap'[t].at = "look" /\ tap'[t].visitor = v /\ tap'[t].photo = p /\ tap'[t].section = s /\ tap'[t].target = n
        /\ \A q \in Taps \ {t} : tap'[q] = tap[q] BY <1>0, <2>1
  <2>7. tap[t].at = "idle" BY <1>10 DEF Tap
  <2>8. Calm(t)'
    <3>1. <<v, s>> \notin crowd' => Alone(t, v, s)' BY <2>1, <2>6 DEF Alone, Crowds
    <3>2. s \in Targeted' => n = section'[s].target BY <1>0, <2>1, <2>2 DEF Targeted
    <3> QED BY <2>1, <2>2, <2>6, <3>1, <3>2 DEF Calm
  <2>9. ASSUME NEW q \in Taps \ {t} PROVE Calm(q)'
    <3>1. Calm(q) BY DEF Capping
    <3>2. PICK w, r : w = tap[q].visitor /\ r = tap[q].section OBVIOUS
    <3>3. CASE tap[q].at = "idle" BY <2>6, <3>3 DEF Calm
    <3>4. CASE tap[q].at # "idle"
      <4>1. <<w, r>> \notin crowd' => Alone(q, w, r)'
        <5>1. ASSUME <<w, r>> \notin crowd' PROVE Alone(q, w, r)'
          <6>1. <<w, r>> \notin crowd BY <2>4, <5>1
          <6>2. Alone(q, w, r) BY <3>1, <3>2, <3>4, <6>1 DEF Calm
          <6>3. ~(v = w /\ s = r) BY <2>1, <3>2, <3>4, <5>1 DEF Crowds
          <6> QED BY <2>6, <6>2, <6>3 DEF Alone
        <5> QED BY <5>1
      <4>2. tap'[q] = tap[q] BY <2>6
      <4>3. shot[tap[q].photo].section # r =>
              shot[tap[q].photo].section = NoSection \/ <<w, shot[tap[q].photo].section>> \in crowd
        BY <3>1, <3>2, <3>4 DEF Calm
      <4>4. ASSUME <<w, r>> \notin crowd, r \in Targeted
            PROVE  tap[q].target = section[r].target /\ (tap[q].at = "circle" => Cardinality(Picked(w, r)) < section[r].target)
        BY <3>1, <3>2, <3>4, <4>4 DEF Calm
      <4>5. ASSUME <<w, r>> \notin crowd', r \in Targeted'
            PROVE  tap'[q].target = section'[r].target /\ (tap'[q].at = "circle" => Cardinality(Picked(w, r)') < section'[r].target)
        BY <2>2, <2>3, <2>4, <4>2, <4>4, <4>5
      <4>6. shot'[tap'[q].photo].section # r =>
              shot'[tap'[q].photo].section = NoSection \/ <<w, shot'[tap'[q].photo].section>> \in crowd'
        BY <2>2, <2>4, <4>2, <4>3
      <4> QED BY <3>2, <4>1, <4>2, <4>5, <4>6 DEF Calm
    <3> QED BY <3>3, <3>4
  <2> QED BY <2>5, <2>8, <2>9 DEF Capping
\* A request goes on: nothing else has changed.
<1>11. ASSUME NEW t \in Taps, tap[t].at # "idle", NEW a, a # "idle", tap' = [tap EXCEPT ![t].at = a],
              UNCHANGED <<section, shot, picks, crowd>>,
              \A v, s : /\ v = tap[t].visitor /\ s = tap[t].section /\ a = "circle"
                        /\ <<v, s>> \notin crowd /\ s \in Targeted
                        => Cardinality(Picked(v, s)) < section[s].target
       PROVE  Capping'
  <2>1. Targeted' = Targeted /\ \A w, q : Picked(w, q)' = Picked(w, q) BY <1>11 DEF Targeted, Picked
  <2>2. CapHolds' BY <1>11, <2>1 DEF Capping, CapHolds
  <2>3. tap[t] \in TapRows BY <1>0
  <2>4. /\ [tap[t] EXCEPT !.at = a].at = a
        /\ [tap[t] EXCEPT !.at = a].visitor = tap[t].visitor /\ [tap[t] EXCEPT !.at = a].section = tap[t].section
        /\ [tap[t] EXCEPT !.at = a].photo = tap[t].photo /\ [tap[t] EXCEPT !.at = a].target = tap[t].target
    BY <2>3 DEF TapRows
  <2>5. tap' = [tap EXCEPT ![t] = [tap[t] EXCEPT !.at = a]] BY <1>11
  <2>6. /\ tap'[t].at = a /\ tap'[t].visitor = tap[t].visitor /\ tap'[t].section = tap[t].section
        /\ tap'[t].photo = tap[t].photo /\ tap'[t].target = tap[t].target
        /\ \A q \in Taps \ {t} : tap'[q] = tap[q] BY <1>0, <2>4, <2>5
  <2>7. ASSUME NEW q \in Taps
        PROVE  /\ tap'[q].visitor = tap[q].visitor /\ tap'[q].section = tap[q].section
               /\ tap'[q].photo = tap[q].photo /\ tap'[q].target = tap[q].target
               /\ (tap'[q].at # "idle" <=> tap[q].at # "idle") /\ (q # t => tap'[q].at = tap[q].at) BY <1>11, <2>6
  <2>8. \A q, w, r : q \in Taps /\ Alone(q, w, r) => Alone(q, w, r)' BY <2>7 DEF Alone
  <2>9. ASSUME NEW q \in Taps PROVE Calm(q)'
    <3>1. Calm(q) BY DEF Capping
    <3>2. PICK w, r : w = tap[q].visitor /\ r = tap[q].section OBVIOUS
    <3>3. CASE tap[q].at = "idle" BY <2>7, <3>3 DEF Calm
    <3>4. CASE tap[q].at # "idle"
      <4>1. <<w, r>> \notin crowd' => Alone(q, w, r)' BY <1>11, <2>8, <3>1, <3>2, <3>4 DEF Calm
      <4>2. shot'[tap'[q].photo].section # r =>
              shot'[tap'[q].photo].section = NoSection \/ <<w, shot'[tap'[q].photo].section>> \in crowd'
        BY <1>11, <2>7, <3>1, <3>2, <3>4 DEF Calm
      <4>3. ASSUME <<w, r>> \notin crowd', r \in Targeted'
            PROVE  tap'[q].target = section'[r].target /\ (tap'[q].at = "circle" => Cardinality(Picked(w, r)') < section'[r].target)
        <5>1. <<w, r>> \notin crowd /\ r \in Targeted BY <1>11, <2>1, <4>3
        <5>2. tap[q].target = section[r].target /\ (tap[q].at = "circle" => Cardinality(Picked(w, r)) < section[r].target)
          BY <3>1, <3>2, <3>4, <5>1 DEF Calm
        <5>3. tap'[q].at = "circle" => Cardinality(Picked(w, r)) < section[r].target
          <6>1. CASE q = t BY <1>11, <2>6, <3>2, <5>1, <6>1
          <6>2. CASE q # t BY <2>7, <5>2, <6>2
          <6> QED BY <6>1, <6>2
        <5> QED BY <1>11, <2>1, <2>7, <5>2, <5>3
      <4> QED BY <2>7, <3>2, <4>1, <4>2, <4>3 DEF Calm
    <3> QED BY <3>3, <3>4
  <2> QED BY <2>2, <2>9 DEF Capping
<1>12. ASSUME NEW t \in Taps, Look(t) PROVE Capping'
  <2>1. PICK a \in {"uncircle", "count", "circle"} :
          tap' = [tap EXCEPT ![t].at = a] /\ (a = "circle" => ~(tap[t].target > 0)) BY <1>12 DEF Look
  <2>2. tap[t].at # "idle" /\ UNCHANGED <<section, shot, picks, crowd>> BY <1>12 DEF Look, RestOfTap
  <2>3. ASSUME NEW v, NEW s, v = tap[t].visitor, s = tap[t].section, a = "circle", <<v, s>> \notin crowd, s \in Targeted
        PROVE  FALSE
    <3>1. Calm(t) BY DEF Capping
    <3>2. tap[t].target = section[s].target BY <2>2, <2>3, <3>1 DEF Calm
    <3> QED BY <2>1, <2>3, <3>2 DEF Targeted
  <2> QED BY <1>11, <2>1, <2>2, <2>3
<1>13. ASSUME NEW t \in Taps, Uncircle(t) PROVE Capping' BY <1>1, <1>2, <1>13 DEF Uncircle, RestOfTap
<1>14. ASSUME NEW t \in Taps, Count(t) PROVE Capping'
  <2>1. tap[t].at # "idle" /\ UNCHANGED <<section, shot, picks, crowd>> BY <1>14 DEF Count, RestOfTap
  <2>2. CASE TapEnds(t) BY <1>1, <1>2, <2>1, <2>2
  <2>3. CASE ~Full(Cardinality(Picked(tap[t].visitor, tap[t].section)), tap[t].target)
             /\ tap' = [tap EXCEPT ![t].at = "circle"]
    <3>1. ASSUME NEW v, NEW s, v = tap[t].visitor, s = tap[t].section, <<v, s>> \notin crowd, s \in Targeted
          PROVE  Cardinality(Picked(v, s)) < section[s].target
      <4>1. Calm(t) BY DEF Capping
      <4>2. tap[t].target = section[s].target BY <2>1, <3>1, <4>1 DEF Calm
      <4>3. section[s].target \in Nat /\ Cardinality(Picked(v, s)) \in Nat BY <1>0, <3>1, CountedAnew DEF Targeted
      <4> QED BY <2>3, <3>1, <4>2, <4>3 DEF Full
    <3> QED BY <1>11, <2>1, <2>3, <3>1
  <2> QED BY <1>14, <2>2, <2>3 DEF Count
<1>15. ASSUME NEW t \in Taps, Circle(t) PROVE Capping'
  <2>1. PICK v, p, s : v \in Visitors /\ p \in Photos /\ v = tap[t].visitor /\ p = tap[t].photo /\ s = tap[t].section
    BY <1>0, <1>15 DEF Circle
  <2>2. /\ UNCHANGED <<section, shot, crowd>> /\ picks' \subseteq picks \cup {<<v, p>>}
        /\ tap[t].at = "circle" /\ tap' = [tap EXCEPT ![t] = NoTap] BY <1>15, <2>1 DEF Circle, RestOfTap, TapEnds
  <2>3. Calm(t) BY DEF Capping
  <2>4. Targeted' = Targeted BY <2>2 DEF Targeted
  <2>5. ASSUME NEW w \in Visitors, NEW r \in Targeted, ~(w = v /\ r = shot[p].section)
        PROVE  Picked(w, r)' \subseteq Picked(w, r) BY <2>2, <2>5 DEF Picked
  <2>6. ASSUME NEW w \in Visitors, NEW r \in Targeted, ~(w = v /\ r = shot[p].section)
        PROVE  /\ Cardinality(Picked(w, r)') <= Cardinality(Picked(w, r))
               /\ Cardinality(Picked(w, r)') \in Nat /\ Cardinality(Picked(w, r)) \in Nat /\ section[r].target \in Nat
    BY <1>0, <2>5, <2>6, CountedAnew, CountedNext, FS_Subset DEF Targeted
  <2>7. CapHolds'
    <3>1. ASSUME NEW w \in Visitors, NEW r \in Targeted, <<w, r>> \notin crowd
          PROVE  Cardinality(Picked(w, r)') <= section[r].target
      <4>1. CASE w = v /\ r = shot[p].section
        <5>1. r # NoSection BY <1>0 DEF Targeted
        <5>2. r = s BY <2>1, <2>2, <2>3, <3>1, <4>1, <5>1 DEF Calm
        <5>3. Cardinality(Picked(v, s)) < section[s].target BY <2>1, <2>2, <2>3, <3>1, <4>1, <5>2 DEF Calm
        <5>4. Picked(v, s)' \subseteq Picked(v, s) \cup {p} BY <2>2 DEF Picked
        <5>5. /\ IsFiniteSet(Picked(v, s) \cup {p})
              /\ Cardinality(Picked(v, s) \cup {p}) \in {Cardinality(Picked(v, s)), Cardinality(Picked(v, s)) + 1}
          BY CountedAnew, FS_AddElement
        <5>6. Cardinality(Picked(v, s)') <= Cardinality(Picked(v, s) \cup {p}) BY <5>4, <5>5, FS_Subset
        <5>7. section[s].target \in Nat BY <1>0, <5>2 DEF Targeted
        <5> QED BY <4>1, <5>2, <5>3, <5>5, <5>6, <5>7, CountedAnew, CountedNext
      <4>2. CASE ~(w = v /\ r = shot[p].section)
        <5>1. Cardinality(Picked(w, r)) <= section[r].target BY <3>1 DEF Capping, CapHolds
        <5> QED BY <2>6, <4>2, <5>1
      <4> QED BY <4>1, <4>2
    <3> QED BY <2>2, <2>4, <3>1 DEF CapHolds
  <2>8. tap'[t].at = "idle" /\ \A q \in Taps \ {t} : tap'[q] = tap[q] BY <1>0, <2>2 DEF NoTap
  <2>9. ASSUME NEW q \in Taps PROVE Calm(q)'
    <3>1. CASE tap'[q].at = "idle" BY <3>1 DEF Calm
    <3>2. CASE tap'[q].at # "idle"
      <4>0. q # t /\ tap'[q] = tap[q] BY <2>8, <3>2
      <4>1. PICK w, r : w \in Visitors /\ w = tap[q].visitor /\ r = tap[q].section BY <1>0, <3>2, <4>0
      <4>2. Calm(q) BY DEF Capping
      <4>3. <<w, r>> \notin crowd => Alone(q, w, r) BY <3>2, <4>0, <4>1, <4>2 DEF Calm
      <4>4. Alone(q, w, r) => Alone(q, w, r)' BY <2>8 DEF Alone
      <4>5. shot[tap[q].photo].section # r =>
              shot[tap[q].photo].section = NoSection \/ <<w, shot[tap[q].photo].section>> \in crowd
        BY <3>2, <4>0, <4>1, <4>2 DEF Calm
      <4>6. ASSUME <<w, r>> \notin crowd, r \in Targeted
            PROVE  tap[q].target = section[r].target /\ (tap[q].at = "circle" => Cardinality(Picked(w, r)') < section[r].target)
        <5>1. tap[q].target = section[r].target /\ (tap[q].at = "circle" => Cardinality(Picked(w, r)) < section[r].target)
          BY <3>2, <4>0, <4>1, <4>2, <4>6 DEF Calm
        <5>2. ~(w = v /\ r = s) BY <2>1, <2>2, <4>0, <4>3, <4>6 DEF Alone
        <5>3. ~(w = v /\ r = shot[p].section)
          <6>1. SUFFICES ASSUME w = v, r = shot[p].section PROVE FALSE OBVIOUS
          <6>2. shot[p].section # s BY <5>2, <6>1
          <6>3. r # NoSection BY <1>0, <4>6 DEF Targeted
          <6> QED BY <2>1, <2>2, <2>3, <4>6, <6>1, <6>2, <6>3 DEF Calm
        <5> QED BY <2>6, <4>1, <4>6, <5>1, <5>3
      <4> QED BY <2>2, <2>4, <4>0, <4>1, <4>3, <4>4, <4>5, <4>6 DEF Calm
    <3> QED BY <3>1, <3>2
  <2> QED BY <2>7, <2>9 DEF Capping
<1>16. ASSUME NEW s \in Sections, NEW n \in 0..MaxTarget, SetSectionProof(s, n) PROVE Capping'
  <2>1. /\ section' = [section EXCEPT ![s] = [section[s] EXCEPT !.target = n]]
        /\ crowd' = crowd \cup Overtakes(s, n) /\ UNCHANGED <<shot, picks, tap>>
    BY <1>16 DEF SetSectionProof, RestOfSorting
  <2>2. section[s] \in SectionRows BY <1>0
  <2>3. [section[s] EXCEPT !.target = n].target = n /\ [section[s] EXCEPT !.target = n].there = section[s].there
    BY <2>2 DEF SectionRows
  <2>4. /\ section'[s].target = n /\ section'[s].there = section[s].there
        /\ \A q \in Sections \ {s} : section'[q] = section[q] BY <1>0, <2>1, <2>3
  <2>5. \A w, q : Picked(w, q)' = Picked(w, q) BY <2>1 DEF Picked
  <2>6. ASSUME NEW w \in Visitors, <<w, s>> \notin crowd', n > 0
        PROVE  Cardinality(Picked(w, s)) <= n /\ ~Crowds(w, s)
    <3>1. ~(Cardinality(Picked(w, s)) > n \/ Crowds(w, s)) BY <2>1, <2>6 DEF Overtakes
    <3> QED BY <3>1, CountedAnew
  <2>7. CapHolds'
    <3>1. ASSUME NEW w \in Visitors, NEW q \in Targeted', <<w, q>> \notin crowd'
          PROVE  Cardinality(Picked(w, q)) <= section'[q].target
      <4>1. CASE q = s BY <2>4, <2>6, <3>1, <4>1 DEF Targeted
      <4>2. CASE q # s
        <5>1. q \in Targeted /\ <<w, q>> \notin crowd /\ section'[q] = section[q] BY <2>1, <2>4, <3>1, <4>2 DEF Targeted
        <5> QED BY <5>1 DEF Capping, CapHolds
      <4> QED BY <4>1, <4>2
    <3> QED BY <2>5, <3>1 DEF CapHolds
  <2>8. ASSUME NEW t \in Taps PROVE Calm(t)'
    <3>1. CASE tap[t].at = "idle" BY <2>1, <3>1 DEF Calm
    <3>2. CASE tap[t].at # "idle"
      <4>1. PICK w, r : w \in Visitors /\ w = tap[t].visitor /\ r = tap[t].section BY <1>0, <3>2
      <4>2. Calm(t) BY DEF Capping
      <4>3. <<w, r>> \notin crowd => Alone(t, w, r) BY <3>2, <4>1, <4>2 DEF Calm
      <4>4. Alone(t, w, r) => Alone(t, w, r)' BY <2>1 DEF Alone
      <4>5. shot[tap[t].photo].section # r =>
              shot[tap[t].photo].section = NoSection \/ <<w, shot[tap[t].photo].section>> \in crowd
        BY <3>2, <4>1, <4>2 DEF Calm
      <4>6. ASSUME <<w, r>> \notin crowd', r \in Targeted'
            PROVE  tap[t].target = section'[r].target /\ (tap[t].at = "circle" => Cardinality(Picked(w, r)) < section'[r].target)
        <5>1. CASE r = s
          <6>1. n > 0 BY <2>4, <4>6, <5>1 DEF Targeted
          <6> QED BY <2>6, <3>2, <4>1, <4>6, <5>1, <6>1 DEF Crowds
        <5>2. CASE r # s
          <6>1. r \in Targeted /\ <<w, r>> \notin crowd /\ section'[r] = section[r] BY <2>1, <2>4, <4>6, <5>2 DEF Targeted
          <6> QED BY <3>2, <4>1, <4>2, <6>1 DEF Calm
        <5> QED BY <5>1, <5>2
      <4> QED BY <2>1, <2>5, <4>1, <4>3, <4>4, <4>5, <4>6 DEF Calm
    <3> QED BY <3>1, <3>2
  <2> QED BY <2>7, <2>8 DEF Capping
<1>17. ASSUME NEW s \in Sections, DeleteSection(s) PROVE Capping'
  <2>1. /\ section' = [section EXCEPT ![s] = [there |-> FALSE, target |-> 0]]
        /\ UNCHANGED <<picks, tap, crowd>>
        /\ \A p \in Photos : shot'[p] = IF shot[p].section = s THEN [shot[p] EXCEPT !.section = NoSection] ELSE shot[p]
    BY <1>17 DEF DeleteSection, RestOfSorting
  <2>2. ASSUME NEW p \in Photos PROVE shot'[p].section = IF shot[p].section = s THEN NoSection ELSE shot[p].section
    BY <1>0, <2>1 DEF ShotRows
  <2>3. \A q \in Targeted' : q \in Targeted /\ section'[q].target = section[q].target /\ q # NoSection
    BY <1>0, <2>1 DEF Targeted
  <2>4. \A w, q : q # NoSection => Picked(w, q)' \subseteq Picked(w, q) BY <2>1, <2>2 DEF Picked
  <2>5. \A t \in Taps : tap[t].at # "idle" =>
            LET r == shot'[tap[t].photo].section IN
            r = shot[tap[t].photo].section \/ r = NoSection \/ <<tap[t].visitor, r>> \in crowd' BY <1>0, <2>2
  <2> QED BY <2>1, <2>3, <2>4, <2>5, CapKept
<1>18. ASSUME NEW s \in Sections \cup {NoSection}, NEW P \in SUBSET Photos, MoveAssets(P, s) PROVE Capping'
  <2>1. /\ UNCHANGED <<section, picks, tap>> /\ crowd \subseteq crowd'
        /\ \A p \in Photos : shot'[p] = IF p \in P /\ shot[p].there THEN [shot[p] EXCEPT !.section = s] ELSE shot[p]
    BY <1>18 DEF MoveAssets, RestOfSorting
  <2>2. ASSUME NEW w \in Visitors, NEW p \in P, <<w, p>> \in picks \/ \E t \in Taps : tap[t].visitor = w /\ tap[t].photo = p
        PROVE  <<w, s>> \in crowd' BY <1>18, <2>2 DEF MoveAssets
  <2>3. ASSUME NEW p \in Photos
        PROVE  shot'[p].section = IF p \in P /\ shot[p].there THEN s ELSE shot[p].section
    <3>1. shot[p] \in ShotRows BY <1>0
    <3>2. [shot[p] EXCEPT !.section = s].section = s BY <3>1 DEF ShotRows
    <3> QED BY <2>1, <3>2
  <2>4. Targeted' = Targeted BY <2>1 DEF Targeted
  <2>5. ASSUME NEW w \in Visitors, NEW q \in Targeted PROVE <<w, q>> \in crowd' \/ Picked(w, q)' \subseteq Picked(w, q)
    <3>1. SUFFICES ASSUME <<w, q>> \notin crowd' PROVE Picked(w, q)' \subseteq Picked(w, q) OBVIOUS
    <3>2. ASSUME NEW p \in Photos, <<w, p>> \in picks', shot'[p].section = q PROVE shot[p].section = q
      BY <2>1, <2>2, <2>3, <3>1, <3>2
    <3> QED BY <2>1, <3>2 DEF Picked
  <2>6. \A t \in Taps : tap[t].at # "idle" =>
            LET r == shot'[tap[t].photo].section IN
            r = shot[tap[t].photo].section \/ r = NoSection \/ <<tap[t].visitor, r>> \in crowd' BY <1>0, <2>2, <2>3
  <2> QED BY <2>1, <2>4, <2>5, <2>6, CapKept
<1>19. ASSUME NEW d \in Desks, DeleteAssetRow(d) PROVE Capping'
  <2>1. PICK p : /\ shot' = [shot EXCEPT ![p] = [there |-> FALSE, section |-> NoSection]]
                 /\ picks' \subseteq picks /\ UNCHANGED <<section, tap, crowd>>
    BY <1>19 DEF DeleteAssetRow, RestOfDesk
  <2>2. \A q \in Photos : shot'[q].section \in {shot[q].section, NoSection} BY <1>0, <2>1
  <2>3. \A q \in Targeted' : q \in Targeted /\ section'[q].target = section[q].target /\ q # NoSection
    BY <1>0, <2>1 DEF Targeted
  <2>4. \A w, q : q # NoSection => Picked(w, q)' \subseteq Picked(w, q) BY <2>1, <2>2 DEF Picked
  <2>5. \A t \in Taps : tap[t].at # "idle" =>
            LET r == shot'[tap[t].photo].section IN
            r = shot[tap[t].photo].section \/ r = NoSection \/ <<tap[t].visitor, r>> \in crowd' BY <1>0, <2>2
  <2> QED BY <2>1, <2>3, <2>4, <2>5, CapKept
<1>20. ASSUME NEW d \in Desks, DeleteGallery(d) PROVE Capping'
  <2>1. /\ UNCHANGED <<tap, crowd>> /\ \A q \in Photos : shot'[q].section = NoSection
        /\ \A s \in Sections : ~section'[s].there BY <1>20 DEF DeleteGallery
  <2>2. Targeted' = {} BY <2>1 DEF Targeted
  <2>3. \A t \in Taps : tap[t].at # "idle" =>
            LET r == shot'[tap[t].photo].section IN
            r = shot[tap[t].photo].section \/ r = NoSection \/ <<tap[t].visitor, r>> \in crowd' BY <1>0, <2>1
  <2> QED BY <2>1, <2>2, <2>3, CapKept
<1>21. ASSUME NEW d \in Desks, SetCoverRead(d) \/ SetCoverWrite(d) \/ DeleteAssetFiles(d) \/ DeleteGalleryCheck(d) PROVE Capping'
  BY <1>1, <1>21 DEF SetCoverRead, SetCoverWrite, DeleteAssetFiles, DeleteGalleryCheck, RestOfDesk
<1>22. ASSUME NEW b \in BOOLEAN, Publish(b) \/ Expire(b) PROVE Capping' BY <1>1, <1>22 DEF Publish, Expire
<1>23. CASE ProofKill BY <1>1, <1>23 DEF ProofKill, NoTap
<1> QED BY <1>10, <1>12, <1>13, <1>14, <1>15, <1>16, <1>17, <1>18, <1>19, <1>20, <1>21, <1>22, <1>23 DEF ProofNext

LEMMA ProofStep ==
  ASSUME ProofInv, [ProofNext]_proofVars
  PROVE  ProofInv'
<1>0. ProofTyped /\ Capping /\ Covering /\ Dropping BY DEF ProofInv
<1>1. CASE UNCHANGED proofVars
  <2> USE DEF proofVars
  <2>1. ProofTyped' BY <1>0, <1>1 DEF ProofTyped, ProofTypeOK
  <2>2. Capping'
    <3>1. Targeted' = Targeted BY <1>1 DEF Targeted
    <3>2. \A v, s : Picked(v, s)' = Picked(v, s) BY <1>1 DEF Picked
    <3> QED BY <1>0, <1>1, <3>1, <3>2, CapKept
  <2>3. Covering' BY <1>0, <1>1 DEF Covering, CoverIsThere
  <2>4. Dropping' BY <1>0, <1>1 DEF Dropping, OnlyLatePicksDropped
  <2> QED BY <2>1, <2>2, <2>3, <2>4 DEF ProofInv
<1>2. CASE ProofNext
  <2>1. ProofTyped' BY <1>0, <1>2, ProofTypedStep
  <2>2. Capping' BY <1>0, <1>2, <2>1, CappingStep
  <2>3. /\ shown \in ShownRows /\ shown' \in ShownRows /\ NoPhoto \notin Photos /\ shot \in [Photos -> ShotRows]
        /\ desk \in [Desks -> DeskRows] /\ \A d \in Desks : desk[d].at \in {"cover", "row"} => desk[d].photo \in Photos
    BY <1>0, <2>1, ProofingAssumption DEF ProofTyped, ProofTypeOK, ShownRows, ShotRows
  <2>4. Covering'
    <3>1. ASSUME bareCover => bareCover', shown'.there = shown.there, shown'.cover = shown.cover,
                 \A p \in Photos : shot'[p].there = shot[p].there
          PROVE  Covering'
      <4>1. shown.cover \in Photos \cup {NoPhoto} BY <2>3 DEF ShownRows
      <4> QED BY <1>0, <3>1, <4>1 DEF Covering, CoverIsThere
    <3>2. ASSUME UNCHANGED <<shown, shot, bareCover>> PROVE Covering' BY <3>1, <3>2
    <3>3. ASSUME NEW t \in Taps, Tap(t) \/ Look(t) \/ Uncircle(t) \/ Count(t) \/ Circle(t) PROVE Covering'
      BY <3>2, <3>3 DEF Tap, Look, Uncircle, Count, Circle, RestOfTap
    <3>4. ASSUME NEW s \in Sections, NEW n, SetSectionProof(s, n) PROVE Covering'
      BY <3>2, <3>4 DEF SetSectionProof, RestOfSorting
    <3>5. ASSUME NEW s \in Sections, DeleteSection(s) PROVE Covering'
      <4>1. UNCHANGED <<shown, bareCover>> BY <3>5 DEF DeleteSection, RestOfSorting
      <4>2. \A p \in Photos : shot'[p].there = shot[p].there BY <2>3, <3>5 DEF DeleteSection, ShotRows
      <4> QED BY <3>1, <4>1, <4>2
    <3>6. ASSUME NEW s \in Sections \cup {NoSection}, NEW P \in SUBSET Photos, MoveAssets(P, s) PROVE Covering'
      <4>1. UNCHANGED <<shown, bareCover>> BY <3>6 DEF MoveAssets, RestOfSorting
      <4>2. \A p \in Photos : shot'[p].there = shot[p].there BY <2>3, <3>6 DEF MoveAssets, ShotRows
      <4> QED BY <3>1, <4>1, <4>2
    <3>7. ASSUME NEW d \in Desks, SetCoverRead(d) \/ DeleteAssetFiles(d) \/ DeleteGalleryCheck(d) PROVE Covering'
      BY <3>2, <3>7 DEF SetCoverRead, DeleteAssetFiles, DeleteGalleryCheck
    <3>8. ASSUME NEW d \in Desks, SetCoverWrite(d) PROVE Covering'
      <4>1. PICK p \in Photos : p = desk[d].photo BY <2>3, <3>8 DEF SetCoverWrite
      <4>2. PICK c \in {NoPhoto, p} : shown' = [shown EXCEPT !.cover = c] BY <3>8, <4>1 DEF SetCoverWrite
      <4>3. shown'.cover = c /\ shown'.there = shown.there BY <2>3, <4>2 DEF ShownRows
      <4>4. bareCover' = (bareCover \/ ~shot[p].there) /\ shot' = shot BY <3>8, <4>1 DEF SetCoverWrite
      <4>5. CASE c = NoPhoto BY <1>0, <4>3, <4>4, <4>5 DEF Covering, CoverIsThere
      <4>6. CASE c = p BY <1>0, <4>3, <4>4, <4>6 DEF Covering, CoverIsThere
      <4> QED BY <4>5, <4>6
    <3>9. ASSUME NEW d \in Desks, DeleteAssetRow(d) PROVE Covering'
      <4>1. PICK p \in Photos : p = desk[d].photo BY <2>3, <3>9 DEF DeleteAssetRow
      <4>2. /\ shot' = [shot EXCEPT ![p] = [there |-> FALSE, section |-> NoSection]] /\ bareCover' = bareCover
            /\ shown' = IF shown.there THEN [shown EXCEPT !.cover = CoverAfter(p)] ELSE shown
        BY <3>9, <4>1 DEF DeleteAssetRow
      <4>3. /\ shown'.there = shown.there
            /\ shown'.cover = IF shown.there THEN CoverAfter(p) ELSE shown.cover BY <2>3, <4>2 DEF ShownRows
      <4>4. ~shot'[p].there /\ \A q \in Photos \ {p} : shot'[q] = shot[q] BY <2>3, <4>2
      <4>5. shown.cover \in Photos \cup {NoPhoto} BY <2>3 DEF ShownRows
      <4> QED BY <1>0, <4>2, <4>3, <4>4, <4>5 DEF Covering, CoverIsThere, CoverAfter
    <3>10. ASSUME NEW d \in Desks, DeleteGallery(d) PROVE Covering' BY <3>10 DEF DeleteGallery, Covering, CoverIsThere
    <3>11. ASSUME NEW b \in BOOLEAN, Publish(b) \/ Expire(b) PROVE Covering'
      <4>1. shown'.there = shown.there /\ shown'.cover = shown.cover BY <2>3, <3>11 DEF Publish, Expire, ShownRows
      <4> QED BY <3>1, <3>11, <4>1 DEF Publish, Expire
    <3>12. CASE ProofKill BY <3>2, <3>12 DEF ProofKill
    <3> QED BY <1>2, <3>3, <3>4, <3>5, <3>6, <3>7, <3>8, <3>9, <3>10, <3>11, <3>12 DEF ProofNext
  <2>5. Dropping'
    <3>1. ASSUME UNCHANGED <<slipped, dropped>>, picks' \subseteq picks,
                 \A d \in Desks : desk'[d].at = "delete" => desk[d].at = "delete"
          PROVE  Dropping' BY <1>0, <3>1 DEF Dropping, OnlyLatePicksDropped
    <3>2. ASSUME NEW d \in Desks, DeskEnds(d) PROVE \A q \in Desks : desk'[q].at = "delete" => desk[q].at = "delete"
      BY <2>3, <3>2 DEF DeskEnds, NoDesk
    <3>3. ASSUME NEW t \in Taps, Tap(t) \/ Look(t) \/ Uncircle(t) \/ Count(t) PROVE Dropping'
      BY <3>1, <3>3 DEF Tap, Look, Uncircle, Count, RestOfTap
    <3>4. ASSUME NEW t \in Taps, Circle(t) PROVE Dropping'
      <4>1. PICK k : /\ picks' \subseteq picks \cup {k} /\ UNCHANGED <<desk, dropped>>
                     /\ slipped' = IF \E d \in Desks : desk[d].at = "delete" THEN slipped \cup {k} ELSE slipped
        BY <3>4 DEF Circle, RestOfTap
      <4> QED BY <1>0, <4>1 DEF Dropping, OnlyLatePicksDropped
    <3>5. ASSUME NEW s \in Sections, NEW n, SetSectionProof(s, n) \/ DeleteSection(s) PROVE Dropping'
      BY <3>1, <3>5 DEF SetSectionProof, DeleteSection, RestOfSorting
    <3>6. ASSUME NEW s \in Sections \cup {NoSection}, NEW P \in SUBSET Photos, MoveAssets(P, s) PROVE Dropping'
      BY <3>1, <3>6 DEF MoveAssets, RestOfSorting
    <3>7. ASSUME NEW d \in Desks, SetCoverRead(d) \/ DeleteAssetFiles(d) PROVE Dropping'
      <4>1. UNCHANGED <<picks, slipped, dropped>> /\ \E r : r.at # "delete" /\ desk' = [desk EXCEPT ![d] = r]
        BY <3>7 DEF SetCoverRead, DeleteAssetFiles
      <4>2. \A q \in Desks : desk'[q].at = "delete" => desk[q].at = "delete" BY <2>3, <4>1
      <4> QED BY <3>1, <4>1, <4>2
    <3>8. ASSUME NEW d \in Desks, SetCoverWrite(d) \/ DeleteAssetRow(d) PROVE Dropping'
      BY <3>1, <3>2, <3>8 DEF SetCoverWrite, DeleteAssetRow
    <3>9. ASSUME NEW d \in Desks, DeleteGalleryCheck(d) PROVE Dropping'
      <4>1. PICK force \in BOOLEAN : /\ force \/ picks = {}
                                     /\ desk' = [desk EXCEPT ![d] = [desk[d] EXCEPT !.at = IF force THEN "delete forced" ELSE "delete"]]
        BY <3>9 DEF DeleteGalleryCheck, HeldBack
      <4>2. UNCHANGED <<picks, slipped, dropped>> BY <3>9 DEF DeleteGalleryCheck
      <4>3. CASE force
        <5>1. desk' = [desk EXCEPT ![d] = [desk[d] EXCEPT !.at = "delete forced"]] BY <4>1, <4>3
        <5>2. [desk[d] EXCEPT !.at = "delete forced"].at = "delete forced" BY <2>3 DEF DeskRows
        <5>3. \A q \in Desks : desk'[q].at = "delete" => desk[q].at = "delete" BY <2>3, <5>1, <5>2
        <5> QED BY <3>1, <4>2, <5>3
      <4>4. CASE ~force
        <5>1. picks' = {} BY <4>1, <4>2, <4>4
        <5> QED BY <1>0, <4>2, <5>1 DEF Dropping, OnlyLatePicksDropped
      <4> QED BY <4>3, <4>4
    <3>10. ASSUME NEW d \in Desks, DeleteGallery(d) PROVE Dropping'
      BY <1>0, <3>10 DEF DeleteGallery, Dropping, OnlyLatePicksDropped
    <3>11. ASSUME NEW b \in BOOLEAN, Publish(b) \/ Expire(b) PROVE Dropping' BY <3>1, <3>11 DEF Publish, Expire
    <3>12. CASE ProofKill BY <3>1, <3>12 DEF ProofKill, NoDesk
    <3> QED BY <1>2, <3>3, <3>4, <3>5, <3>6, <3>7, <3>8, <3>9, <3>10, <3>11, <3>12 DEF ProofNext
  <2> QED BY <2>1, <2>2, <2>4, <2>5 DEF ProofInv
<1> QED BY <1>1, <1>2

LEMMA ProofMeans ==
  ASSUME ProofInv
  PROVE  ProofTypeOK /\ CapHolds /\ LabelIsTrue /\ CoverIsThere /\ OnlyLatePicksDropped
<1>1. ProofTypeOK BY DEF ProofInv, ProofTyped
<1>2. LabelIsTrue BY <1>1, LabelTrue DEF LabelIsTrue
<1> QED BY <1>1, <1>2 DEF ProofInv, Capping, Covering, Dropping
=============================================================================
