--------------------------- MODULE GalleryZipProofs ---------------------------
(***************************************************************************)
(* The archives of a gallery for any photos, builds, visitors and workers, *)
(* and any number of retries, crashes and revisions: the inductive         *)
(* invariant and the two safety properties it contains.                    *)
(***************************************************************************)
EXTENDS GalleryZip, TLAPS

\* A file names the build and the attempt that created it, and is not None.
LEMMA FileShape ==
  ASSUME NEW i \in Files
  PROVE  /\ i[1] \in Builds /\ i[2] \in 1..(MaxTries + MaxCrashes)
         /\ i = <<i[1], i[2]>> /\ i # None
BY BoundsAssumption, NoneAssumption DEF Files

\* What a build at work knows of its file: it belongs to the build's revision,
\* visitors cannot see it unless twins have written that revision, and builds of
\* other revisions have other files.
LEMMA OpenFile ==
  ASSUME IInv, NEW b \in Builds, pc[b] \in {"write", "broken", "rename"}
  PROVE  /\ target[b] \in Revs /\ b \in Writing(target[b])
         /\ fd[b] \in Files /\ fd[b] # None
         /\ \A q \in Revs : zip[q] = fd[b] => q = target[b] /\ q \in twins
         /\ \A q \in Revs \ twins : q = target[b] => fd[b] = part[q]
         /\ \A d \in Builds : pc[d] \in {"write", "broken", "rename"} /\ fd[d] = fd[b]
              => target[d] = target[b]
<1>1. target[b] \in Revs /\ b \in Writing(target[b]) BY DEF IInv, TypeOK, QueueInv, Writing
<1>2. fd[b] \in Files /\ fd[b] # None /\ target[fd[b][1]] = target[b] BY FileShape DEF IInv, TypeOK, Opened
<1>3. \A q \in Revs \ twins : q = target[b] => fd[b] = part[q] BY <1>1 DEF IInv, TwinsInv
<1>4. \A q \in Revs : zip[q] = fd[b] => q = target[b] /\ q \in twins BY <1>2, <1>3 DEF IInv, Named
<1>5. \A d \in Builds : pc[d] \in {"write", "broken", "rename"} /\ fd[d] = fd[b]
        => target[d] = target[b] BY <1>2 DEF IInv, Opened
<1> QED BY <1>1, <1>2, <1>3, <1>4, <1>5

LEMMA UploadStep ==
  ASSUME IInv, NEW A \in SUBSET Assets, Upload(A)
  PROVE  IInv'
<1>1. TypeOK' BY BoundsAssumption DEF IInv, TypeOK, Revs, Upload, queue, files, builder, history
<1>2. QueueInv' BY BoundsAssumption, NoneAssumption DEF IInv, TypeOK, QueueInv, Revs, Upload, queue, files,
    builder, history
<1>3. HeldAlive' BY FileShape, NoneAssumption DEF IInv, TypeOK, QueueInv, HeldAlive, Revs, Upload, queue, files,
    builder, history
<1>4. Named' /\ Opened' /\ CreatedOnce' /\ TwinsInv' /\ HalfBuiltOnlyIfTwins'
  BY DEF IInv, Named, Opened, CreatedOnce, TwinsInv, HalfBuiltOnlyIfTwins, Writing, Upload,
    queue, files, builder, history
<1>5. NoDeletedPhoto' BY <1>1, <1>3, <1>4, FileShape DEF TypeOK, Named, HeldAlive, NoDeletedPhoto, Revs
<1> QED BY <1>1, <1>2, <1>3, <1>4, <1>5 DEF IInv

LEMMA IngestStep ==
  ASSUME IInv, NEW a \in Assets, Ingest(a)
  PROVE  IInv'
<1>1. TypeOK' BY DEF IInv, TypeOK, Ingest, queue, files, builder, history
<1>2. HeldAlive' BY FileShape, NoneAssumption DEF IInv, TypeOK, QueueInv, HeldAlive, Revs, Ingest, queue, files,
    builder, history
<1>3. QueueInv' /\ Named' /\ Opened' /\ CreatedOnce' /\ TwinsInv' /\ HalfBuiltOnlyIfTwins'
  BY DEF IInv, QueueInv, Named, Opened, CreatedOnce, TwinsInv, HalfBuiltOnlyIfTwins, Writing,
    Ingest, queue, files, builder, history
<1>4. NoDeletedPhoto' BY <1>1, <1>2, <1>3, FileShape DEF TypeOK, Named, HeldAlive, NoDeletedPhoto, Revs
<1> QED BY <1>1, <1>2, <1>3, <1>4 DEF IInv

LEMMA IngestFailsStep ==
  ASSUME IInv, NEW a \in Assets, IngestFails(a)
  PROVE  IInv'
<1>1. TypeOK' BY DEF IInv, TypeOK, IngestFails, queue, files, builder, history
<1>2. HeldAlive' BY FileShape, NoneAssumption DEF IInv, TypeOK, QueueInv, HeldAlive, Revs, IngestFails, queue,
    files, builder, history
<1>3. QueueInv' /\ Named' /\ Opened' /\ CreatedOnce' /\ TwinsInv' /\ HalfBuiltOnlyIfTwins'
  BY DEF IInv, QueueInv, Named, Opened, CreatedOnce, TwinsInv, HalfBuiltOnlyIfTwins, Writing,
    IngestFails, queue, files, builder, history
<1>4. NoDeletedPhoto' BY <1>1, <1>2, <1>3, FileShape DEF TypeOK, Named, HeldAlive, NoDeletedPhoto, Revs
<1> QED BY <1>1, <1>2, <1>3, <1>4 DEF IInv

LEMMA DeleteBeginStep ==
  ASSUME IInv, NEW a \in Assets, DeleteBegin(a)
  PROVE  IInv'
<1>1. TypeOK' BY DEF IInv, TypeOK, DeleteBegin, queue, files, builder, history
<1>2. QueueInv' /\ Named' /\ Opened' /\ CreatedOnce' /\ HeldAlive' /\ TwinsInv' /\
  NoDeletedPhoto' /\ HalfBuiltOnlyIfTwins'
  BY DEF IInv, QueueInv, Named, Opened, CreatedOnce, HeldAlive, TwinsInv, NoDeletedPhoto,
    HalfBuiltOnlyIfTwins, Writing, DeleteBegin, queue, files, builder, history
<1> QED BY <1>1, <1>2 DEF IInv

LEMMA DeleteCommitStep ==
  ASSUME IInv, NEW a \in Assets, DeleteCommit(a)
  PROVE  IInv'
<1>1. TypeOK' BY BoundsAssumption DEF IInv, TypeOK, Revs, DeleteCommit, RevAfterDelete, queue, files,
    builder, history
<1>2. QueueInv' BY BoundsAssumption, NoneAssumption DEF IInv, TypeOK, QueueInv, Revs, DeleteCommit,
    RevAfterDelete, queue, files, builder, history
<1>3. HeldAlive' BY FileShape, NoneAssumption DEF IInv, TypeOK, QueueInv, HeldAlive, Revs, DeleteCommit,
    RevAfterDelete, queue, files, builder, history
<1>4. Named' /\ Opened' /\ CreatedOnce' /\ TwinsInv' /\ HalfBuiltOnlyIfTwins'
  BY DEF IInv, Named, Opened, CreatedOnce, TwinsInv, HalfBuiltOnlyIfTwins, Writing, DeleteCommit,
    RevAfterDelete, queue, files, builder, history
<1>5. NoDeletedPhoto' BY <1>1, <1>3, <1>4, FileShape DEF TypeOK, Named, HeldAlive, NoDeletedPhoto, Revs
<1> QED BY <1>1, <1>2, <1>3, <1>4, <1>5 DEF IInv

LEMMA ClaimStep ==
  ASSUME IInv, NEW b \in Builds, Claim(b)
  PROVE  IInv'
<1>1. TypeOK' BY DEF IInv, TypeOK, Claim, Goto, gallery, files, history
<1>2. QueueInv' BY BoundsAssumption, NoneAssumption DEF IInv, TypeOK, QueueInv, Revs, Claim, Goto, gallery,
    files, history
<1>3. Opened' BY FileShape DEF IInv, TypeOK, QueueInv, Opened, Claim, Goto, gallery, files, history
<1>4. CreatedOnce' BY DEF IInv, TypeOK, QueueInv, CreatedOnce, Claim, Goto, gallery, files, history
<1>5. TwinsInv' BY FileShape DEF IInv, TypeOK, QueueInv, Opened, TwinsInv, Writing, Claim, Goto, gallery,
    files, history
<1>6. Named' /\ HeldAlive' /\ NoDeletedPhoto' /\ HalfBuiltOnlyIfTwins'
  BY DEF IInv, Named, HeldAlive, NoDeletedPhoto, HalfBuiltOnlyIfTwins, Claim, Goto, gallery,
    files, history
<1> QED BY <1>1, <1>2, <1>3, <1>4, <1>5, <1>6 DEF IInv

LEMMA BuildCheckStep ==
  ASSUME IInv, NEW b \in Builds, BuildCheck(b)
  PROVE  IInv'
<1>f. pc[b] = "check" BY DEF BuildCheck
<1>o. /\ \E place \in {"select", "idle"} : pc' = [pc EXCEPT ![b] = place]
      /\ \/ UNCHANGED <<row, fd, sel>> /\ pc' = [pc EXCEPT ![b] = "select"]
         \/ /\ row' = [row EXCEPT ![b] = "done"]
            /\ fd' = [fd EXCEPT ![b] = None] /\ sel' = [sel EXCEPT ![b] = {}]
            /\ pc' = [pc EXCEPT ![b] = "idle"]
      /\ UNCHANGED <<gallery, target, tries, files, req, history>> BY DEF BuildCheck, Goto, Ends
<1>1. TypeOK' BY <1>o DEF IInv, TypeOK, gallery, files, history
<1>2. QueueInv' BY BoundsAssumption, NoneAssumption DEF IInv, TypeOK, QueueInv, Revs, BuildCheck, Goto, Ends,
    gallery, files, history
<1>3. Opened' BY FileShape DEF IInv, TypeOK, QueueInv, Opened, BuildCheck, Goto, Ends, gallery, files, history
<1>4. CreatedOnce' BY DEF IInv, TypeOK, QueueInv, CreatedOnce, BuildCheck, Goto, Ends, gallery, files, history
<1>5. TwinsInv'
  <2> SUFFICES ASSUME NEW q \in Revs, q \notin twins
               PROVE  /\ \A d, e \in Writing(q)' : d = e
                      /\ \A d \in Writing(q)' : fd'[d] = part'[q]
                      /\ \A d \in Writing(q)' : pc'[d] = "write" =>
                           /\ made'[fd'[d]] = "open"
                           /\ holds'[fd'[d]] = sel'[d] /\ lastOpen'[fd'[d]] = d
                      /\ \A d \in Writing(q)' : pc'[d] = "rename" => made'[fd'[d]] = "whole"
    BY <1>o DEF TwinsInv, history
  <2>1. Writing(q)' = Writing(q) /\ b \notin Writing(q) BY <1>f, <1>o DEF IInv, TypeOK, Writing
  <2>2. \A d \in Writing(q) : fd'[d] = fd[d] /\ sel'[d] = sel[d] /\ pc'[d] = pc[d]
    BY <1>o, <2>1 DEF IInv, TypeOK, Writing
  <2> QED BY <1>o, <2>1, <2>2 DEF IInv, TwinsInv, files, history
<1>6. Named' /\ HeldAlive' /\ NoDeletedPhoto' /\ HalfBuiltOnlyIfTwins'
  BY DEF IInv, Named, HeldAlive, NoDeletedPhoto, HalfBuiltOnlyIfTwins, BuildCheck, Goto, Ends,
    gallery, files, history
<1> QED BY <1>1, <1>2, <1>3, <1>4, <1>5, <1>6 DEF IInv

LEMMA BuildOpenStep ==
  ASSUME IInv, NEW b \in Builds, BuildOpen(b)
  PROVE  IInv'
<1> DEFINE r == target[b]
           i == IF part[r] = None THEN <<b, tries[b]>> ELSE part[r]
<1>r. r \in Revs /\ row[b] = "running" /\ tries[b] \in 1..(MaxTries + MaxCrashes)
  BY BoundsAssumption DEF IInv, TypeOK, QueueInv, Revs, BuildOpen
<1>i. i \in Files /\ target[i[1]] = r /\ zip[r] # i
  <2>1. CASE part[r] = None BY <1>r, <2>1 DEF IInv, TypeOK, CreatedOnce, Files, BuildOpen
  <2>2. CASE part[r] # None BY <1>r, <2>2 DEF IInv, TypeOK, Named
  <2> QED BY <2>1, <2>2
<1>o. /\ pc[b] = "select"
      /\ pc' = [pc EXCEPT ![b] = IF Ready \subseteq originals THEN "write"
                                                               ELSE "broken"]
      /\ sel' = [sel EXCEPT ![b] = Ready] /\ fd' = [fd EXCEPT ![b] = i]
      /\ part' = [part EXCEPT ![r] = i] /\ holds' = [holds EXCEPT ![i] = Ready]
      /\ made' = [made EXCEPT ![i] = "open"] /\ lastOpen' = [lastOpen EXCEPT ![i] = b]
      /\ twins' = IF Writing(r) = {} THEN twins ELSE twins \cup {r}
      /\ UNCHANGED <<asset, rev, originals, doomed, died, row, target, tries, zip, req>>
      /\ UNCHANGED <<lost, crashes>> BY DEF BuildOpen, Goto, gallery, queue
<1> HIDE DEF r, i
<1>1. TypeOK' BY <1>r, <1>i, <1>o DEF IInv, TypeOK, Ready
<1>2. QueueInv' BY <1>r, <1>o DEF IInv, TypeOK, QueueInv
<1>3. Named' BY <1>r, <1>i, <1>o, FileShape DEF IInv, TypeOK, Named
<1>4. Opened'
  <2> SUFFICES ASSUME NEW d \in Builds, pc'[d] \in {"write", "broken", "rename"}
               PROVE  fd'[d] # None /\ target[fd'[d][1]] = target[d] BY <1>o DEF Opened
  <2>1. CASE d = b BY <1>r, <1>i, <1>o, <2>1, FileShape DEF IInv, TypeOK, r
  <2>2. CASE d # b BY <1>o, <2>2 DEF IInv, TypeOK, Opened
  <2> QED BY <2>1, <2>2
<1>5. CreatedOnce'
  <2> SUFFICES ASSUME NEW d \in Builds, NEW q \in Revs, NEW t \in 1..(MaxTries + MaxCrashes),
                      t > tries[d] \/ (t = tries[d] /\ pc'[d] \in {"check", "select"})
               PROVE  zip[q] # <<d, t>> /\ part'[q] # <<d, t>> BY <1>o DEF CreatedOnce
  <2>1. zip[q] # <<d, t>> /\ part[q] # <<d, t>> /\ (d = b => t > tries[b]) BY <1>o DEF IInv, TypeOK, CreatedOnce
  <2>2. q = r /\ part[r] = None => part'[q] = <<b, tries[b]>> BY <1>r, <1>o DEF IInv, TypeOK, r, i
  <2>3. ~ (q = r /\ part[r] = None) => part'[q] = part[q] BY <1>r, <1>o DEF IInv, TypeOK, r, i
  <2> QED BY <1>r, <2>1, <2>2, <2>3
<1>6. HeldAlive' BY <1>r, <1>i, <1>o, NoneAssumption DEF IInv, TypeOK, HeldAlive, Ready, Revs
<1>7. TwinsInv'
  <2> SUFFICES ASSUME NEW q \in Revs, q \notin twins'
               PROVE  /\ \A d, e \in Writing(q)' : d = e
                      /\ \A d \in Writing(q)' : fd'[d] = part'[q]
                      /\ \A d \in Writing(q)' : pc'[d] = "write" =>
                           /\ made'[fd'[d]] = "open"
                           /\ holds'[fd'[d]] = sel'[d] /\ lastOpen'[fd'[d]] = d
                      /\ \A d \in Writing(q)' : pc'[d] = "rename" => made'[fd'[d]] = "whole" BY DEF TwinsInv
  <2>1. CASE q = r
    <3>1. Writing(q)' = {b} /\ pc'[b] \in {"write", "broken"} BY <1>r, <1>o, <2>1 DEF IInv, TypeOK, Writing, r
    <3> QED BY <1>r, <1>i, <1>o, <2>1, <3>1 DEF IInv, TypeOK
  <2>2. CASE q # r
    <3>1. Writing(q)' = Writing(q) /\ b \notin Writing(q) BY <1>r, <1>o, <2>2 DEF IInv, TypeOK, Writing, r
    <3>2. \A d \in Writing(q) : fd[d] \in Files /\ fd[d] # i BY <1>i, <2>2 DEF IInv, TypeOK, Opened, Writing
    <3>3. q \notin twins BY <1>o
    <3>4. \A d \in Writing(q) : d \in Builds /\ d # b BY <3>1 DEF Writing
    <3> QED BY <1>r, <1>i, <1>o, <2>2, <3>1, <3>2, <3>3, <3>4 DEF IInv, TypeOK, TwinsInv
  <2> QED BY <2>1, <2>2
<1>8. NoDeletedPhoto' BY <1>1, <1>3, <1>6, FileShape DEF TypeOK, Named, HeldAlive, NoDeletedPhoto, Revs
<1>9. HalfBuiltOnlyIfTwins'
  <2>1. \A q \in Revs : zip[q] # i BY <1>i, FileShape DEF IInv, Named, TypeOK
  <2> QED BY <1>r, <1>i, <1>o, <2>1 DEF IInv, TypeOK, HalfBuiltOnlyIfTwins
<1> QED BY <1>1, <1>2, <1>3, <1>4, <1>5, <1>6, <1>7, <1>8, <1>9 DEF IInv

LEMMA BuildCloseStep ==
  ASSUME IInv, NEW b \in Builds, BuildClose(b)
  PROVE  IInv'
<1>f. pc[b] = "write" BY DEF BuildClose
<1>c. Closed(b) \in {"open", "whole", "torn"} BY <1>f, OpenFile DEF IInv, TypeOK, Closed
<1>o. /\ made' = [made EXCEPT ![fd[b]] = Closed(b)]
      /\ pc' = [pc EXCEPT ![b] = "rename"]
      /\ UNCHANGED <<asset, rev, originals, doomed, died, row, target, tries, zip, req>>
      /\ UNCHANGED <<part, holds, lastOpen, fd, sel, twins, lost, crashes>>
  BY DEF BuildClose, Goto, gallery, queue, history
<1>1. TypeOK' BY <1>c, <1>o DEF IInv, TypeOK
<1>2. QueueInv' BY BoundsAssumption, NoneAssumption DEF IInv, TypeOK, QueueInv, Revs, BuildClose, Goto,
    gallery, queue, history
<1>3. Opened' BY FileShape DEF IInv, TypeOK, QueueInv, Opened, BuildClose, Goto, gallery, queue, history
<1>4. CreatedOnce' BY DEF IInv, TypeOK, QueueInv, CreatedOnce, BuildClose, Goto, gallery, queue, history
<1>5. TwinsInv'
  <2> SUFFICES ASSUME NEW q \in Revs, q \notin twins
               PROVE  /\ \A d, e \in Writing(q)' : d = e
                      /\ \A d \in Writing(q)' : fd'[d] = part'[q]
                      /\ \A d \in Writing(q)' : pc'[d] = "write" =>
                           /\ made'[fd'[d]] = "open"
                           /\ holds'[fd'[d]] = sel'[d] /\ lastOpen'[fd'[d]] = d
                      /\ \A d \in Writing(q)' : pc'[d] = "rename" => made'[fd'[d]] = "whole" BY <1>o DEF TwinsInv
  <2>1. Writing(q)' = Writing(q) BY <1>f, <1>o DEF IInv, TypeOK, Writing
  <2>2. CASE q = target[b]
    <3>1. Writing(q) = {b} /\ fd[b] = part[q] BY <1>f, <2>2, OpenFile DEF IInv, TwinsInv
    <3>2. Closed(b) = "whole" BY <1>f, <3>1 DEF IInv, TwinsInv, Closed
    <3> QED BY <1>f, <1>o, <2>1, <3>1, <3>2, OpenFile DEF IInv, TypeOK
  <2>3. CASE q # target[b]
    <3>1. \A d \in Writing(q) : d \in Builds /\ d # b /\ fd[d] # fd[b] BY <1>f, <2>3, OpenFile DEF Writing
    <3> QED BY <1>f, <1>o, <2>1, <3>1, OpenFile DEF IInv, TypeOK, TwinsInv
  <2> QED BY <2>2, <2>3
<1>6. HalfBuiltOnlyIfTwins' BY <1>f, <1>o, OpenFile DEF IInv, TypeOK, HalfBuiltOnlyIfTwins
<1>7. Named' /\ HeldAlive' /\ NoDeletedPhoto'
  BY DEF IInv, Named, HeldAlive, NoDeletedPhoto, BuildClose, Goto, gallery, queue, history
<1> QED BY <1>1, <1>2, <1>3, <1>4, <1>5, <1>6, <1>7 DEF IInv

LEMMA BuildRaisesStep ==
  ASSUME IInv, NEW b \in Builds, BuildRaises(b)
  PROVE  IInv'
<1>f. pc[b] \in {"write", "broken"} BY DEF BuildRaises
<1>o. /\ made' = [made EXCEPT ![fd[b]] = "torn"]
      /\ \E end \in {"queued", "failed"} :
           /\ row' = [row EXCEPT ![b] = end]
           /\ end = "queued" => tries[b] < MaxTries
      /\ pc' = [pc EXCEPT ![b] = "idle"] /\ fd' = [fd EXCEPT ![b] = None]
      /\ sel' = [sel EXCEPT ![b] = {}]
      /\ UNCHANGED <<asset, rev, originals, doomed, died, target, tries, zip, req>>
      /\ UNCHANGED <<part, holds, lastOpen, twins, lost, crashes>>
  BY DEF BuildRaises, Raises, Ends, Goto, gallery, history
<1>1. TypeOK'
  <2>1. PICK end \in {"queued", "failed"} : row' = [row EXCEPT ![b] = end] BY <1>o
  <2> QED BY <1>o, <2>1 DEF IInv, TypeOK
<1>2. QueueInv' BY <1>f, <1>o, BoundsAssumption DEF IInv, TypeOK, QueueInv
<1>3. Opened' BY FileShape DEF IInv, TypeOK, QueueInv, Opened, BuildRaises, Raises, Ends, Goto, gallery,
    history
<1>4. CreatedOnce' BY DEF IInv, TypeOK, QueueInv, CreatedOnce, BuildRaises, Raises, Ends, Goto, gallery, history
<1>5. TwinsInv'
  <2> SUFFICES ASSUME NEW q \in Revs, q \notin twins
               PROVE  /\ \A d, e \in Writing(q)' : d = e
                      /\ \A d \in Writing(q)' : fd'[d] = part'[q]
                      /\ \A d \in Writing(q)' : pc'[d] = "write" =>
                           /\ made'[fd'[d]] = "open"
                           /\ holds'[fd'[d]] = sel'[d] /\ lastOpen'[fd'[d]] = d
                      /\ \A d \in Writing(q)' : pc'[d] = "rename" => made'[fd'[d]] = "whole" BY <1>o DEF TwinsInv
  <2>1. Writing(q)' = Writing(q) \ {b} BY <1>f, <1>o DEF IInv, TypeOK, Writing
  <2>2. \A d \in Writing(q) \ {b} : fd[d] # fd[b] /\ d \in Builds BY <1>f, OpenFile DEF IInv, TwinsInv, Writing
  <2> QED BY <1>f, <1>o, <2>1, <2>2, OpenFile DEF IInv, TypeOK, TwinsInv
<1>6. HalfBuiltOnlyIfTwins' BY <1>f, <1>o, OpenFile DEF IInv, TypeOK, HalfBuiltOnlyIfTwins
<1>7. Named' /\ HeldAlive' /\ NoDeletedPhoto'
  BY DEF IInv, Named, HeldAlive, NoDeletedPhoto, BuildRaises, Raises, Ends, Goto, gallery, history
<1> QED BY <1>1, <1>2, <1>3, <1>4, <1>5, <1>6, <1>7 DEF IInv

LEMMA BuildRenameStep ==
  ASSUME IInv, NEW b \in Builds, BuildRename(b)
  PROVE  IInv'
<1>1. TypeOK' BY DEF IInv, TypeOK, BuildRename, Renamable, Goto, gallery, queue, history
<1>2. QueueInv' BY BoundsAssumption, NoneAssumption DEF IInv, TypeOK, QueueInv, Revs, BuildRename, Renamable,
    Goto, gallery, queue, history
<1>3. Named' BY FileShape, NoneAssumption DEF IInv, TypeOK, QueueInv, Named, BuildRename, Renamable, Goto,
    gallery, queue, history
<1>4. Opened' BY FileShape DEF IInv, TypeOK, QueueInv, Opened, BuildRename, Renamable, Goto, gallery, queue,
    history
<1>5. CreatedOnce'
  <2> SUFFICES ASSUME NEW d \in Builds, NEW q \in Revs, NEW t \in 1..(MaxTries + MaxCrashes),
                      t > tries'[d] \/ (t = tries'[d] /\ pc'[d] \in {"check", "select"})
               PROVE  zip'[q] # <<d, t>> /\ part'[q] # <<d, t>> BY DEF CreatedOnce
  <2>1. zip[q] # <<d, t>> /\ part[q] # <<d, t>>
    BY DEF IInv, TypeOK, CreatedOnce, BuildRename, Renamable, Goto, gallery, queue, history
  <2>2. None # <<d, t>> BY NoneAssumption, BoundsAssumption
  <2> QED BY <2>1, <2>2 DEF IInv, TypeOK, BuildRename, Renamable, Goto, gallery, queue, history
<1>6. TwinsInv' BY FileShape DEF IInv, TypeOK, QueueInv, Opened, TwinsInv, Writing, BuildRename, Renamable,
    Goto, gallery, queue, history
<1>o. /\ pc[b] = "rename" /\ part[target[b]] # None
      /\ zip' = [zip EXCEPT ![target[b]] = part[target[b]]]
      /\ UNCHANGED <<made, twins>> BY DEF BuildRename, Renamable, history
<1>w. target[b] \notin twins => made[part[target[b]]] = "whole" BY <1>o, OpenFile DEF IInv, TwinsInv
<1>7. HalfBuiltOnlyIfTwins' BY <1>o, <1>w, OpenFile DEF IInv, TypeOK, HalfBuiltOnlyIfTwins
<1>8. HeldAlive' BY DEF IInv, HeldAlive, BuildRename, Renamable, Goto, gallery, queue, history
<1>9. NoDeletedPhoto' BY <1>1, <1>3, <1>8, FileShape DEF TypeOK, Named, HeldAlive, NoDeletedPhoto, Revs
<1> QED BY <1>1, <1>2, <1>3, <1>4, <1>5, <1>6, <1>7, <1>8, <1>9 DEF IInv

LEMMA BuildRenameRaisesStep ==
  ASSUME IInv, NEW b \in Builds, BuildRenameRaises(b)
  PROVE  IInv'
<1>1. TypeOK' BY DEF IInv, TypeOK, BuildRenameRaises, Renamable, Raises, Ends, Goto, gallery, files, history
<1>2. QueueInv'
  <2>1. pc[b] # "idle" /\ UNCHANGED <<rev, target, tries, req, crashes>>
    BY DEF BuildRenameRaises, Renamable, Raises, Ends, Goto, gallery, history
  <2>2. PICK end \in {"queued", "failed", "done"} :
          /\ end = "queued" => tries[b] < MaxTries
          /\ row' = [row EXCEPT ![b] = end] /\ pc' = [pc EXCEPT ![b] = "idle"]
    BY DEF BuildRenameRaises, Renamable, Raises, Ends, Goto, gallery, history
  <2> QED BY <2>1, <2>2, BoundsAssumption DEF IInv, TypeOK, QueueInv
<1>3. Opened' BY FileShape DEF IInv, TypeOK, QueueInv, Opened, BuildRenameRaises, Renamable, Raises, Ends,
    Goto, gallery, files, history
<1>4. CreatedOnce' BY DEF IInv, TypeOK, QueueInv, CreatedOnce, BuildRenameRaises, Renamable, Raises, Ends, Goto,
    gallery, files, history
<1>5. TwinsInv' BY FileShape DEF IInv, TypeOK, QueueInv, Opened, TwinsInv, Writing, BuildRenameRaises,
    Renamable, Raises, Ends, Goto, gallery, files, history
<1>6. Named' /\ HeldAlive' /\ NoDeletedPhoto' /\ HalfBuiltOnlyIfTwins'
  BY DEF IInv, Named, HeldAlive, NoDeletedPhoto, HalfBuiltOnlyIfTwins, BuildRenameRaises,
    Renamable, Raises, Ends, Goto, gallery, files, history
<1> QED BY <1>1, <1>2, <1>3, <1>4, <1>5, <1>6 DEF IInv

LEMMA BuildPruneStep ==
  ASSUME IInv, NEW b \in Builds, BuildPrune(b)
  PROVE  IInv'
<1>1. TypeOK' BY DEF IInv, TypeOK, BuildPrune, Ends, Goto, gallery
<1>2. QueueInv'
  <2>1. pc[b] # "idle" /\ UNCHANGED <<rev, target, tries, req, crashes>> BY DEF BuildPrune, Ends, Goto, gallery
  <2>2. PICK end \in {"queued", "failed", "done"} :
          /\ end = "done"
          /\ row' = [row EXCEPT ![b] = end] /\ pc' = [pc EXCEPT ![b] = "idle"] BY DEF BuildPrune, Ends, Goto, gallery
  <2> QED BY <2>1, <2>2, BoundsAssumption DEF IInv, TypeOK, QueueInv
<1>3. Named' BY FileShape, NoneAssumption DEF IInv, TypeOK, QueueInv, Named, BuildPrune, Ends, Goto, gallery
<1>4. Opened' BY FileShape DEF IInv, TypeOK, QueueInv, Opened, BuildPrune, Ends, Goto, gallery
<1>5. CreatedOnce'
  <2> SUFFICES ASSUME NEW d \in Builds, NEW q \in Revs, NEW t \in 1..(MaxTries + MaxCrashes),
                      t > tries'[d] \/ (t = tries'[d] /\ pc'[d] \in {"check", "select"})
               PROVE  zip'[q] # <<d, t>> /\ part'[q] # <<d, t>> BY DEF CreatedOnce
  <2>1. zip[q] # <<d, t>> /\ part[q] # <<d, t>> BY DEF IInv, TypeOK, CreatedOnce, BuildPrune, Ends, Goto, gallery
  <2>2. None # <<d, t>> BY NoneAssumption, BoundsAssumption
  <2> QED BY <2>1, <2>2 DEF IInv, TypeOK, BuildPrune, Ends, Goto, gallery
<1>6. TwinsInv' BY FileShape DEF IInv, TypeOK, QueueInv, Opened, TwinsInv, Writing, BuildPrune, Ends, Goto,
    gallery
<1>7. HalfBuiltOnlyIfTwins'
  BY FileShape DEF IInv, TypeOK, Named, Opened, TwinsInv, HalfBuiltOnlyIfTwins, BuildPrune, Ends,
    Goto, gallery
<1>8. HeldAlive' BY DEF IInv, HeldAlive, BuildPrune, Ends, Goto, gallery
<1>9. NoDeletedPhoto' BY <1>1, <1>3, <1>8, FileShape DEF TypeOK, Named, HeldAlive, NoDeletedPhoto, Revs
<1> QED BY <1>1, <1>2, <1>3, <1>4, <1>5, <1>6, <1>7, <1>8, <1>9 DEF IInv

LEMMA EnqueueStep ==
  ASSUME IInv, NEW c \in Clients, NEW b \in Builds, Enqueue(c, b)
  PROVE  IInv'
<1>1. TypeOK' BY DEF IInv, TypeOK, Enqueue, Show, gallery, files, builder, history
<1>o. /\ req[c].at = "enqueue" /\ row[b] = "absent"
      /\ row' = [row EXCEPT ![b] = "queued"]
      /\ target' = [target EXCEPT ![b] = req[c].rev]
      /\ req' = [req EXCEPT ![c].at = "wait"]
      /\ UNCHANGED <<rev, tries, pc, crashes>> BY DEF Enqueue, Show, gallery, builder, history
<1>2. QueueInv' BY <1>o, BoundsAssumption, NoneAssumption DEF IInv, TypeOK, QueueInv, Revs
<1>n. \A q \in Revs : q # None BY NoneAssumption DEF Revs
<1>t. /\ row[b] = "absent" /\ target[b] = None
      /\ target' = [target EXCEPT ![b] = req[c].rev] /\ UNCHANGED <<zip, part>> BY DEF IInv, QueueInv, Enqueue, files
<1>3. Named'
  <2> SUFFICES ASSUME NEW q \in Revs
               PROVE  /\ zip[q] # None => target'[zip[q][1]] = q
                      /\ part[q] # None => target'[part[q][1]] = q /\ part[q] # zip[q] BY <1>t DEF Named
  <2>1. /\ zip[q] # None => target[zip[q][1]] = q /\ zip[q][1] \in Builds
        /\ part[q] # None => /\ target[part[q][1]] = q /\ part[q] # zip[q]
                             /\ part[q][1] \in Builds BY FileShape DEF IInv, TypeOK, Named
  <2> QED BY <1>n, <1>t, <2>1 DEF IInv, TypeOK
<1>4. Opened' BY FileShape DEF IInv, TypeOK, QueueInv, Opened, Enqueue, Show, gallery, files, builder, history
<1>5. HeldAlive' BY FileShape, NoneAssumption DEF IInv, TypeOK, QueueInv, HeldAlive, Revs, Enqueue, Show,
    gallery, files, builder, history
<1>6. TwinsInv' BY FileShape DEF IInv, TypeOK, QueueInv, Opened, TwinsInv, Writing, Enqueue, Show, gallery,
    files, builder, history
<1>7. CreatedOnce' /\ NoDeletedPhoto' /\ HalfBuiltOnlyIfTwins'
  BY DEF IInv, CreatedOnce, NoDeletedPhoto, HalfBuiltOnlyIfTwins, Enqueue, Show, gallery, files,
    builder, history
<1> QED BY <1>1, <1>2, <1>3, <1>4, <1>5, <1>6, <1>7 DEF IInv

LEMMA EvictStep ==
  ASSUME IInv, NEW r \in Revs, Evict(r)
  PROVE  IInv'
<1>1. TypeOK' BY DEF IInv, TypeOK, Evict, Running, gallery, queue, builder, history
<1>2. Named' BY FileShape, NoneAssumption DEF IInv, TypeOK, QueueInv, Named, Evict, Running, gallery, queue,
    builder, history
<1>3. CreatedOnce'
  <2> SUFFICES ASSUME NEW d \in Builds, NEW q \in Revs, NEW t \in 1..(MaxTries + MaxCrashes),
                      t > tries'[d] \/ (t = tries'[d] /\ pc'[d] \in {"check", "select"})
               PROVE  zip'[q] # <<d, t>> /\ part'[q] # <<d, t>> BY DEF CreatedOnce
  <2>1. zip[q] # <<d, t>> /\ part[q] # <<d, t>>
    BY DEF IInv, TypeOK, CreatedOnce, Evict, Running, gallery, queue, builder, history
  <2>2. None # <<d, t>> BY NoneAssumption, BoundsAssumption
  <2> QED BY <2>1, <2>2 DEF IInv, TypeOK, Evict, Running, gallery, queue, builder, history
<1>4. HalfBuiltOnlyIfTwins'
  BY FileShape DEF IInv, TypeOK, Named, Opened, TwinsInv, HalfBuiltOnlyIfTwins, Evict, Running,
    gallery, queue, builder, history
<1>5. QueueInv' /\ Opened' /\ HeldAlive' /\ TwinsInv'
  BY DEF IInv, QueueInv, Opened, HeldAlive, TwinsInv, Writing, Evict, Running, gallery, queue,
    builder, history
<1>6. NoDeletedPhoto' BY <1>1, <1>2, <1>5, FileShape DEF TypeOK, Named, HeldAlive, NoDeletedPhoto, Revs
<1> QED BY <1>1, <1>2, <1>3, <1>4, <1>5, <1>6 DEF IInv

LEMMA SweepPartStep ==
  ASSUME IInv, NEW r \in Revs, SweepPart(r)
  PROVE  IInv'
<1>1. TypeOK' BY DEF IInv, TypeOK, SweepPart, Running, gallery, queue, builder, history
<1>2. Named' BY FileShape, NoneAssumption DEF IInv, TypeOK, QueueInv, Named, SweepPart, Running, gallery,
    queue, builder, history
<1>3. CreatedOnce'
  <2> SUFFICES ASSUME NEW d \in Builds, NEW q \in Revs, NEW t \in 1..(MaxTries + MaxCrashes),
                      t > tries'[d] \/ (t = tries'[d] /\ pc'[d] \in {"check", "select"})
               PROVE  zip'[q] # <<d, t>> /\ part'[q] # <<d, t>> BY DEF CreatedOnce
  <2>1. zip[q] # <<d, t>> /\ part[q] # <<d, t>>
    BY DEF IInv, TypeOK, CreatedOnce, SweepPart, Running, gallery, queue, builder, history
  <2>2. None # <<d, t>> BY NoneAssumption, BoundsAssumption
  <2> QED BY <2>1, <2>2 DEF IInv, TypeOK, SweepPart, Running, gallery, queue, builder, history
<1>4. TwinsInv' BY FileShape DEF IInv, TypeOK, QueueInv, Opened, TwinsInv, Writing, SweepPart, Running,
    gallery, queue, builder, history
<1>5. QueueInv' /\ Opened' /\ HeldAlive' /\ NoDeletedPhoto' /\ HalfBuiltOnlyIfTwins'
  BY DEF IInv, QueueInv, Opened, HeldAlive, NoDeletedPhoto, HalfBuiltOnlyIfTwins, SweepPart,
    Running, gallery, queue, builder, history
<1> QED BY <1>1, <1>2, <1>3, <1>4, <1>5 DEF IInv

LEMMA CrashStep ==
  ASSUME IInv, Crash
  PROVE  IInv'
<1>1. TypeOK' BY DEF IInv, TypeOK, Crash, files
<1>2. QueueInv' BY BoundsAssumption, NoneAssumption DEF IInv, TypeOK, QueueInv, Revs, Crash, files
<1>3. Opened' BY FileShape DEF IInv, TypeOK, QueueInv, Opened, Crash, files
<1>4. CreatedOnce' BY DEF IInv, TypeOK, QueueInv, CreatedOnce, Crash, files
<1>5. TwinsInv' BY FileShape DEF IInv, TypeOK, QueueInv, Opened, TwinsInv, Writing, Crash, files
<1>6. Named' /\ HeldAlive' /\ NoDeletedPhoto' /\ HalfBuiltOnlyIfTwins'
  BY DEF IInv, Named, HeldAlive, NoDeletedPhoto, HalfBuiltOnlyIfTwins, Crash, files
<1> QED BY <1>1, <1>2, <1>3, <1>4, <1>5, <1>6 DEF IInv

\* A visitor who looks, waits or leaves changes nothing but the page.
LEMMA VisitorStep ==
  ASSUME IInv, NEW c \in Clients,
         Download(c) \/ LookForFile(c) \/ Send(c) \/ AskForBuild(c) \/ Poll(c) \/ GoAway(c)
  PROVE  IInv'
<1> DEFINE Pages == {"idle", "look", "send", "ask", "enqueue", "wait"}
<1>1. UNCHANGED <<gallery, queue, files, builder, history>>
  BY DEF Download, LookForFile, Send, AskForBuild, Poll, GoAway
<1>2. \E at \in Pages :
        \/ req' = [req EXCEPT ![c] = [at |-> at, rev |-> rev]]
        \/ req[c].at # "idle" /\ req' = [req EXCEPT ![c].at = at]
  BY DEF Download, LookForFile, Send, AskForBuild, Poll, GoAway, Show
<1>3. rev \in Revs /\ rev # None BY NoneAssumption DEF IInv, TypeOK, Revs
<1>4. TypeOK' BY <1>1, <1>2, <1>3 DEF IInv, TypeOK, gallery, queue, files, builder, history
<1>5. QueueInv'
  <2>1. UNCHANGED <<rev, row, target, tries, pc, crashes>> BY <1>1 DEF gallery, queue, builder, history
  <2>2. \A d \in Clients : req[d].at # "idle" => req[d].rev # None /\ req[d].rev <= rev BY DEF IInv, QueueInv
  <2>3. rev \in Nat /\ req \in [Clients -> [at : Pages, rev : Revs \cup {None}]] BY DEF IInv, TypeOK, Revs
  <2>4. \A d \in Clients : d # c => req'[d] = req[d] BY <1>2, <2>3
  <2>5. req'[c].at # "idle" => req'[c].rev # None /\ req'[c].rev <= rev
    <3>1. CASE \E at \in Pages : req' = [req EXCEPT ![c] = [at |-> at, rev |-> rev]] BY <1>3, <2>3, <3>1
    <3>2. CASE req[c].at # "idle" /\ \E at \in Pages : req' = [req EXCEPT ![c].at = at] BY <2>2, <2>3, <3>2
    <3> QED BY <1>2, <3>1, <3>2
  <2>6. \A d \in Clients :
          req'[d].at # "idle" => req'[d].rev # None /\ req'[d].rev <= rev BY <2>2, <2>4, <2>5
  <2> QED BY <2>1, <2>6 DEF IInv, QueueInv
<1>6. Named' /\ Opened' /\ CreatedOnce' BY <1>1 DEF IInv, Named, Opened, CreatedOnce, queue, files, builder
<1>7. HeldAlive' /\ NoDeletedPhoto' BY <1>1 DEF IInv, HeldAlive, NoDeletedPhoto, gallery, queue, files
<1>8. TwinsInv' /\ HalfBuiltOnlyIfTwins'
  BY <1>1 DEF IInv, TwinsInv, HalfBuiltOnlyIfTwins, Writing, queue, files, builder, history
<1> QED BY <1>4, <1>5, <1>6, <1>7, <1>8 DEF IInv

LEMMA StutterStep ==
  ASSUME IInv, UNCHANGED vars
  PROVE  IInv'
<1>1. /\ UNCHANGED <<gallery, queue, files, builder>>
      /\ UNCHANGED <<req, history>> BY DEF vars
<1>2. TypeOK' /\ QueueInv' BY <1>1 DEF IInv, TypeOK, QueueInv, gallery, queue, files, builder, history
<1>3. Named' /\ Opened' /\ CreatedOnce' BY <1>1 DEF IInv, Named, Opened, CreatedOnce, queue, files, builder
<1>4. HeldAlive' /\ NoDeletedPhoto' BY <1>1 DEF IInv, HeldAlive, NoDeletedPhoto, gallery, queue, files
<1>5. TwinsInv' /\ HalfBuiltOnlyIfTwins'
  BY <1>1 DEF IInv, TwinsInv, HalfBuiltOnlyIfTwins, Writing, queue, files, builder, history
<1> QED BY <1>2, <1>3, <1>4, <1>5 DEF IInv

LEMMA InitInv == Init => IInv
<1> SUFFICES ASSUME Init PROVE IInv
  OBVIOUS
<1>1. TypeOK BY BoundsAssumption DEF Init, TypeOK, Revs
<1>2. QueueInv BY BoundsAssumption DEF Init, QueueInv
<1>3. Named /\ Opened /\ HeldAlive /\ TwinsInv /\ NoDeletedPhoto /\ HalfBuiltOnlyIfTwins
  BY DEF Init, Named, Opened, HeldAlive, TwinsInv, Writing, NoDeletedPhoto,
         HalfBuiltOnlyIfTwins
<1>4. CreatedOnce BY NoneAssumption, BoundsAssumption DEF Init, CreatedOnce
<1> QED BY <1>1, <1>2, <1>3, <1>4 DEF IInv

\* Every step of the studio, a build, a visitor, the sweep or a crash keeps the
\* invariant.
LEMMA NextInv == IInv /\ [Next]_vars => IInv'
<1> SUFFICES ASSUME IInv, [Next]_vars PROVE IInv'
  OBVIOUS
<1>1. CASE Studio BY <1>1, UploadStep, IngestStep, IngestFailsStep, DeleteBeginStep, DeleteCommitStep
  DEF Studio
<1>2. ASSUME NEW b \in Builds, Claim(b) \/ Build(b) PROVE IInv'
  BY <1>2, ClaimStep, BuildCheckStep, BuildOpenStep, BuildCloseStep, BuildRaisesStep,
     BuildRenameStep, BuildRenameRaisesStep, BuildPruneStep DEF Build
<1>3. ASSUME NEW c \in Clients, Visit(c) PROVE IInv' BY <1>3, VisitorStep, EnqueueStep DEF Visit
<1>4. ASSUME NEW r \in Revs, Evict(r) \/ SweepPart(r) PROVE IInv' BY <1>4, EvictStep, SweepPartStep
<1>5. CASE Crash BY <1>5, CrashStep
<1>6. CASE UNCHANGED vars BY <1>6, StutterStep
<1> QED BY <1>1, <1>2, <1>3, <1>4, <1>5, <1>6 DEF Next

\* The inductive invariant: what a revision's name, file and contents have to do
\* with the builds that write it, in _h_zip and build_zip.
THEOREM Inductive == Spec => []IInv
<1>1. Init => IInv BY InitInv
<1>2. IInv /\ [Next]_vars => IInv' BY NextInv
<1> QED BY <1>1, <1>2, PTL DEF Spec

\* For any number of photos, builds, visitors, workers, retries and crashes: the
\* archive the download route finds under a revision (downloads.py:348) holds no
\* photo that delete_asset removed before that revision.
THEOREM DeletedStaysDeleted == Spec => []NoDeletedPhoto
<1>1. IInv => NoDeletedPhoto BY DEF IInv
<1> QED BY <1>1, Inductive, PTL

\* build_zip's promise (jobs.py:192) that a reader never sees a half-built archive
\* holds of every revision whose .part two builds have not opened at once.
THEOREM OnlyTwinsTear == Spec => []HalfBuiltOnlyIfTwins
<1>1. IInv => HalfBuiltOnlyIfTwins BY DEF IInv
<1> QED BY <1>1, Inductive, PTL

===============================================================================
