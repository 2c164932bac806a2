---------------------------- MODULE StudioProofs ----------------------------
(***************************************************************************)
(* Proofs about announcements, about project pages, about bookings, as     *)
(* StudioMC groups them (calendar mirror, booking notices, Google link,    *)
(* hours and session types), and about the composition of its components.  *)
(*                                                                         *)
(* Each component has an invariant that implies its properties, a lemma    *)
(* for the initial states, one for a step (`...Step`), one for a step of   *)
(* another component (`...Rest`) and one for what the invariant means; so  *)
(* have those of PapersProofs.  The last section composes them.            *)
(***************************************************************************)
EXTENDS StudioMC, PapersProofs

(* Announcements: the jobs of each letter, and its counts.                 *)

LetterRows  == [there : BOOLEAN, audience : Nat, sent : Nat, skipped : Nat]
WritingRows == [open : BOOLEAN, people : SUBSET People]
PostRows    == [status : {"none", "queued", "running", "done", "failed"}, tries : Nat, waits : BOOLEAN]
Postmen     == {"idle", "check", "skip", "sleep", "count", "done"}

\* The jobs of a letter, those of them that have counted, and its audience's.
JobsOf(l)    == {j \in Posts : j[1] = l}
CountedOf(l) == {j \in JobsOf(l) : post[j].status = "done" \/ postman[j] = "done"}
StagedOf(l)  == {j \in JobsOf(l) : post[j].status # "none"}

PostsMove == \A j \in Posts : postman[j] # "idle" => post[j].status = "running"
LettersStage == \A l \in Letters :
  /\ writing[l].open => ~letter[l].there
  /\ ~letter[l].there => \A j \in JobsOf(l) : post[j].status = "none"

\* A letter that is out and not doubted is about to be counted, or was.
LetterOut(j) ==
  /\ sentTo[j] <= 1
  /\ sentTo[j] = 1 => postman[j] \in {"count", "done"} \/ post[j].status = "done"
LettersOnce == \A j \in Posts \ (unsure \cup recount) : LetterOut(j)
LeaversLeft ==
  /\ LeaversAreLeftAlone
  /\ \A j \in Posts : postman[j] = "sleep" /\ j[2] \in gone => j \in hurried
CountsKept == \A l \in Letters :
  /\ recount \cap JobsOf(l) = {} => letter[l].sent + letter[l].skipped = Cardinality(CountedOf(l))
  /\ letter[l].there => letter[l].audience = Cardinality(StagedOf(l))

LettersInv == AnnounceTypeOK /\ PostsMove /\ LettersStage /\ LettersOnce /\ LeaversLeft /\ CountsKept

LEMMA LettersTyped ==
  ASSUME AnnounceTypeOK
  PROVE  /\ letter \in [Letters -> LetterRows] /\ writing \in [Letters -> WritingRows]
         /\ post \in [Posts -> PostRows] /\ postman \in [Posts -> Postmen] /\ sentTo \in [Posts -> Nat]
         /\ pressed \in Nat
BY DEF AnnounceTypeOK, LetterRows, WritingRows, PostRows, Postmen

\* A letter has a job for each address at most.
LEMMA OnePostEach ==
  ASSUME NEW l \in Letters, NEW P \in SUBSET People
  PROVE  LET J == {j \in JobsOf(l) : j[2] \in P} IN IsFiniteSet(J) /\ Cardinality(J) = Cardinality(P)
<1> PICK J : J = {j \in JobsOf(l) : j[2] \in P} OBVIOUS
<1>0. J = {j \in Letters \X People : j[1] = l /\ j[2] \in P} BY DEF JobsOf, Posts
<1> PICK f : f = [p \in P |-> <<l, p>>] OBVIOUS
<1>1. f \in [P -> J] BY <1>0
<1>2. \A p, q \in P : f[p] = f[q] => p = q OBVIOUS
<1>3. \A j \in J : \E p \in P : f[p] = j
  <2> SUFFICES ASSUME NEW j \in J PROVE \E p \in P : f[p] = j OBVIOUS
  <2>1. j \in Letters \X People /\ j[1] = l /\ j[2] \in P BY <1>0
  <2>2. j = <<j[1], j[2]>> BY <2>1
  <2> QED BY <2>1, <2>2
<1>4. ExistsBijection(P, J) BY <1>1, <1>2, <1>3 DEF ExistsBijection, Bijection, Injection, Surjection, IsInjective
<1>5. IsFiniteSet(P) BY FS_Subset, AnnouncementsAssumption
<1> QED BY <1>4, <1>5, FS_Bijection

LEMMA JobsAreFinite == ASSUME NEW l \in Letters PROVE IsFiniteSet(JobsOf(l)) /\ JobsOf(l) \subseteq Posts
<1>1. JobsOf(l) = {j \in JobsOf(l) : j[2] \in People} BY DEF JobsOf, Posts
<1>2. People \in SUBSET People OBVIOUS
<1> QED BY <1>1, <1>2, OnePostEach DEF JobsOf

LEMMA LettersInitially == ASSUME AnnounceInit PROVE LettersInv
<1>1. /\ letter = [l \in Letters |-> [there |-> FALSE, audience |-> 0, sent |-> 0, skipped |-> 0]]
      /\ writing = [l \in Letters |-> [open |-> FALSE, people |-> {}]]
      /\ post = [j \in Posts |-> [status |-> "none", tries |-> 0, waits |-> FALSE]]
      /\ postman = [j \in Posts |-> "idle"] /\ sentTo = [j \in Posts |-> 0]
      /\ listed = {} /\ gone = {} /\ unsure = {} /\ recount = {} /\ hurried = {} /\ wronged = {}
      /\ pressed = 0 BY DEF AnnounceInit, NoPost
<1>2. AnnounceTypeOK BY <1>1, AnnouncementsAssumption DEF AnnounceTypeOK
<1>3. PostsMove /\ LettersOnce /\ LeaversLeft
  BY <1>1 DEF PostsMove, LettersOnce, LetterOut, LeaversLeft, LeaversAreLeftAlone
<1>4. LettersStage
  <2>1. \A l \in Letters : JobsOf(l) \subseteq Posts BY DEF JobsOf
  <2> QED BY <1>1, <2>1 DEF LettersStage
<1>5. CountsKept
  <2> SUFFICES ASSUME NEW l \in Letters PROVE letter[l].sent + letter[l].skipped = Cardinality(CountedOf(l))
    BY <1>1 DEF CountsKept
  <2>1. CountedOf(l) = {} BY <1>1 DEF CountedOf, JobsOf
  <2>2. Cardinality(CountedOf(l)) = 0 BY <2>1, FS_EmptySet
  <2> QED BY <1>1, <2>2
<1> QED BY <1>2, <1>3, <1>4, <1>5 DEF LettersInv

\* A step that counts nothing and stages nothing leaves the counts as they are.
LEMMA CountsStay ==
  ASSUME LettersInv, UNCHANGED letter, recount \subseteq recount',
         \A j \in Posts : post'[j].status = "none" <=> post[j].status = "none",
         \A j \in Posts \ recount' : (post'[j].status = "done" \/ postman'[j] = "done")
                                     <=> (post[j].status = "done" \/ postman[j] = "done")
  PROVE  CountsKept'
<1> SUFFICES ASSUME NEW l \in Letters
             PROVE  /\ recount' \cap JobsOf(l) = {} => letter[l].sent + letter[l].skipped = Cardinality(CountedOf(l))'
                    /\ letter[l].there => letter[l].audience = Cardinality(StagedOf(l))'
  BY DEF CountsKept, JobsOf, CountedOf, StagedOf
<1>1. StagedOf(l)' = StagedOf(l) BY DEF StagedOf, JobsOf
<1>2. ASSUME recount' \cap JobsOf(l) = {} PROVE CountedOf(l)' = CountedOf(l)
  <2>1. \A j \in JobsOf(l) : j \in Posts \ recount' BY <1>2 DEF JobsOf
  <2> QED BY <2>1 DEF CountedOf, JobsOf
<1>3. CountsKept BY DEF LettersInv
<1> QED BY <1>1, <1>2, <1>3 DEF CountsKept

\* A step of one job j, to p and with its row written as row.
JobGoes(j, p, row) ==
  /\ post[j].status # "none" /\ row.status # "none"
  /\ postman' = [postman EXCEPT ![j] = p] /\ post' = [post EXCEPT ![j] = row]
  /\ UNCHANGED <<listed, gone, writing>> /\ pressed' \in Nat
  /\ p # "idle" => row.status = "running"

LEMMA JobGoesOn ==
  ASSUME LettersInv, NEW j \in Posts, NEW p \in Postmen, NEW row \in PostRows, JobGoes(j, p, row)
  PROVE  /\ postman' \in [Posts -> Postmen] /\ post' \in [Posts -> PostRows]
         /\ postman'[j] = p /\ post'[j] = row
         /\ \A i \in Posts : i # j => postman'[i] = postman[i] /\ post'[i] = post[i]
         /\ \A i \in Posts : post'[i].status = "none" <=> post[i].status = "none"
         /\ PostsMove'
<1>1. AnnounceTypeOK /\ PostsMove BY DEF LettersInv
<1>2. /\ postman' \in [Posts -> Postmen] /\ post' \in [Posts -> PostRows]
      /\ postman'[j] = p /\ post'[j] = row
      /\ \A i \in Posts : i # j => postman'[i] = postman[i] /\ post'[i] = post[i] BY <1>1, LettersTyped DEF JobGoes
<1>3. PostsMove' BY <1>1, <1>2 DEF JobGoes, PostsMove
<1> QED BY <1>2, <1>3 DEF JobGoes

\* A step of one job that counts nothing.
LEMMA JobKeeps ==
  ASSUME LettersInv, NEW j \in Posts, NEW p \in Postmen, NEW row \in PostRows, JobGoes(j, p, row),
         UNCHANGED letter,
         sentTo' \in [Posts -> Nat], \A i \in Posts \ {j} : sentTo'[i] = sentTo[i],
         unsure \subseteq unsure', unsure' \subseteq Posts, recount \subseteq recount', recount' \subseteq Posts,
         hurried' = hurried, wronged' \subseteq wronged \cup {j},
         j \in wronged' => j \in hurried,
         p = "sleep" /\ j[2] \in gone => j \in hurried,
         j \in unsure' \cup recount' \/ LetterOut(j)',
         j \in recount' \/ ((row.status = "done" \/ p = "done") <=> (post[j].status = "done" \/ postman[j] = "done"))
  PROVE  LettersInv'
<1>1. AnnounceTypeOK /\ PostsMove /\ LettersStage /\ LettersOnce /\ LeaversLeft /\ CountsKept BY DEF LettersInv
<1>2. /\ postman' \in [Posts -> Postmen] /\ post' \in [Posts -> PostRows]
      /\ postman'[j] = p /\ post'[j] = row
      /\ \A i \in Posts : i # j => postman'[i] = postman[i] /\ post'[i] = post[i]
      /\ \A i \in Posts : post'[i].status = "none" <=> post[i].status = "none"
      /\ PostsMove' BY JobGoesOn
<1>3. UNCHANGED <<listed, gone, writing>> /\ pressed' \in Nat BY DEF JobGoes
<1>4. AnnounceTypeOK'
  <2>1. wronged' \subseteq Posts BY <1>1 DEF AnnounceTypeOK
  <2> QED BY <1>1, <1>2, <1>3, <2>1 DEF AnnounceTypeOK, PostRows, Postmen
<1>5. LettersStage' BY <1>1, <1>2, <1>3 DEF LettersStage, JobsOf
<1>6. LettersOnce' BY <1>1, <1>2 DEF LettersOnce, LetterOut
<1>7. LeaversLeft' BY <1>1, <1>2, <1>3 DEF LeaversLeft, LeaversAreLeftAlone
<1>8. \A i \in Posts \ recount' : (post'[i].status = "done" \/ postman'[i] = "done")
                                     <=> (post[i].status = "done" \/ postman[i] = "done") BY <1>2
<1>9. CountsKept' BY <1>2, <1>8, CountsStay
<1> QED BY <1>2, <1>4, <1>5, <1>6, <1>7, <1>9 DEF LettersInv

LEMMA ClaimKeeps == ASSUME LettersInv, NEW j \in Posts, Claim(j) PROVE LettersInv'
<1>1. AnnounceTypeOK /\ PostsMove /\ LettersOnce BY DEF LettersInv
<1> PICK row : row = [post[j] EXCEPT !.status = "running", !.tries = post[j].tries + 1] OBVIOUS
<1>2. /\ post[j].status = "queued" /\ post' = [post EXCEPT ![j] = row] /\ postman' = [postman EXCEPT ![j] = "check"]
      /\ UNCHANGED <<listed, gone, letter, writing, sentTo, unsure, recount, hurried, wronged, pressed>>
  BY DEF Claim, Moves, ledger, doubts
<1>3. row \in PostRows /\ row.status = "running"
  <2>1. post[j] \in PostRows BY <1>1, LettersTyped
  <2>2. post[j].tries + 1 \in Nat BY <2>1 DEF PostRows
  <2> QED BY <2>1, <2>2 DEF PostRows
<1>4. JobGoes(j, "check", row) /\ "check" \in Postmen BY <1>1, <1>2, <1>3 DEF JobGoes, Postmen, AnnounceTypeOK
<1>5. postman[j] = "idle" BY <1>1, <1>2 DEF PostsMove
<1>6. j \in unsure' \cup recount' \/ LetterOut(j)' BY <1>1, <1>2, <1>5, LettersTyped DEF LettersOnce, LetterOut
<1>7. sentTo' \in [Posts -> Nat] /\ unsure' \subseteq Posts /\ recount' \subseteq Posts BY <1>1, <1>2 DEF AnnounceTypeOK
<1>8. j \in wronged => j \in hurried BY DEF LettersInv, LeaversLeft, LeaversAreLeftAlone
<1> QED BY <1>2, <1>3, <1>4, <1>5, <1>6, <1>7, <1>8, JobKeeps

LEMMA CheckKeeps == ASSUME LettersInv, NEW j \in Posts, CheckLedger(j) PROVE LettersInv'
<1>1. AnnounceTypeOK /\ PostsMove /\ LettersOnce BY DEF LettersInv
<1> PICK row : row = post[j] OBVIOUS
<1> PICK p : p = IF HasLeft(j[2]) THEN "skip" ELSE "sleep" OBVIOUS
<1>2. /\ postman[j] = "check" /\ post' = post /\ postman' = [postman EXCEPT ![j] = p]
      /\ UNCHANGED <<listed, gone, letter, writing, sentTo, unsure, recount, hurried, wronged, pressed>>
  BY DEF CheckLedger, Moves, ledger, doubts
<1>3. row \in PostRows /\ row.status = "running" /\ post' = [post EXCEPT ![j] = row]
  BY <1>1, <1>2, LettersTyped DEF PostsMove
<1>4. p \in {"skip", "sleep"} /\ (p = "sleep" => j[2] \notin gone) BY DEF HasLeft
<1>5. JobGoes(j, p, row) /\ p \in Postmen BY <1>1, <1>2, <1>3, <1>4 DEF JobGoes, Postmen, AnnounceTypeOK
<1>6. j \in unsure' \cup recount' \/ LetterOut(j)' BY <1>1, <1>2, <1>3, LettersTyped DEF LettersOnce, LetterOut
<1>7. sentTo' \in [Posts -> Nat] /\ unsure' \subseteq Posts /\ recount' \subseteq Posts BY <1>1, <1>2 DEF AnnounceTypeOK
<1>8. j \in wronged => j \in hurried BY DEF LettersInv, LeaversLeft, LeaversAreLeftAlone
<1> QED BY <1>2, <1>3, <1>4, <1>5, <1>6, <1>7, <1>8, JobKeeps

LEMMA SendKeeps == ASSUME LettersInv, NEW j \in Posts, SendLetter(j) PROVE LettersInv'
<1>1. AnnounceTypeOK /\ PostsMove /\ LettersOnce /\ LeaversLeft BY DEF LettersInv
<1> PICK row : row = post[j] OBVIOUS
<1>2. /\ postman[j] = "sleep" /\ post' = post /\ postman' = [postman EXCEPT ![j] = "count"]
      /\ sentTo' = [sentTo EXCEPT ![j] = sentTo[j] + 1]
      /\ wronged' = IF j[2] \in gone THEN wronged \cup {j} ELSE wronged
      /\ UNCHANGED <<listed, gone, letter, writing, unsure, recount, hurried, pressed>>
  BY DEF SendLetter, Moves, ledger, doubts
<1>3. row \in PostRows /\ row.status = "running" /\ post' = [post EXCEPT ![j] = row]
  BY <1>1, <1>2, LettersTyped DEF PostsMove
<1>5. JobGoes(j, "count", row) /\ "count" \in Postmen BY <1>1, <1>2, <1>3 DEF JobGoes, Postmen, AnnounceTypeOK
<1>4. /\ sentTo' \in [Posts -> Nat] /\ sentTo'[j] = sentTo[j] + 1
      /\ \A i \in Posts \ {j} : sentTo'[i] = sentTo[i]
      /\ sentTo[j] \in Nat /\ postman'[j] = "count" BY <1>1, <1>2, LettersTyped
<1>6. j \in unsure' \cup recount' \/ LetterOut(j)'
  <2> SUFFICES ASSUME j \notin unsure \cup recount PROVE LetterOut(j)' BY <1>2
  <2>0. LetterOut(j) BY <1>1 DEF LettersOnce
  <2>1. postman[j] = "sleep" /\ post[j].status = "running" BY <1>2, <1>3
  <2>2. sentTo[j] = 0
    <3>1. sentTo[j] \in Nat BY <1>4
    <3> QED BY ONLY <2>0, <2>1, <3>1 DEF LetterOut
  <2>3. sentTo'[j] = 1 /\ postman'[j] = "count" BY <1>4, <2>2
  <2> QED BY ONLY <2>3 DEF LetterOut
<1>7. unsure' \subseteq Posts /\ recount' \subseteq Posts BY <1>1, <1>2 DEF AnnounceTypeOK
<1>8. j \in wronged' => j \in hurried BY <1>1, <1>2 DEF LeaversLeft, LeaversAreLeftAlone
<1>9. wronged' \subseteq wronged \cup {j} BY <1>2
<1> QED BY <1>2, <1>3, <1>4, <1>5, <1>6, <1>7, <1>8, <1>9, JobKeeps

LEMMA DoneKeeps == ASSUME LettersInv, NEW j \in Posts, PostDone(j) PROVE LettersInv'
<1>1. AnnounceTypeOK /\ PostsMove /\ LettersOnce BY DEF LettersInv
<1> PICK row : row = [post[j] EXCEPT !.status = "done", !.waits = FALSE] OBVIOUS
<1>2. /\ postman[j] = "done" /\ post' = [post EXCEPT ![j] = row] /\ postman' = [postman EXCEPT ![j] = "idle"]
      /\ UNCHANGED <<listed, gone, letter, writing, sentTo, unsure, recount, hurried, wronged, pressed>>
  BY DEF PostDone, Moves, ledger, doubts
<1>3. row \in PostRows /\ row.status = "done" /\ post[j].status = "running"
  BY <1>1, <1>2, LettersTyped DEF PostsMove, PostRows
<1>5. JobGoes(j, "idle", row) /\ "idle" \in Postmen BY <1>1, <1>2, <1>3 DEF JobGoes, Postmen, AnnounceTypeOK
<1>4. post'[j].status = "done" BY <1>1, <1>2, <1>3, LettersTyped
<1>6. j \in unsure' \cup recount' \/ LetterOut(j)' BY <1>1, <1>2, <1>4 DEF LettersOnce, LetterOut
<1>7. sentTo' \in [Posts -> Nat] /\ unsure' \subseteq Posts /\ recount' \subseteq Posts BY <1>1, <1>2 DEF AnnounceTypeOK
<1>8. j \in wronged => j \in hurried BY DEF LettersInv, LeaversLeft, LeaversAreLeftAlone
<1> QED BY <1>2, <1>3, <1>5, <1>6, <1>7, <1>8, JobKeeps

LEMMA LetterRaisesKeeps == ASSUME LettersInv, NEW j \in Posts, PostRaises(j) PROVE LettersInv'
<1>1. AnnounceTypeOK /\ PostsMove /\ LettersOnce BY DEF LettersInv
<1>0. post[j] \in PostRows /\ post[j].status = "running" BY <1>1, LettersTyped DEF PostRaises, PostsMove
<1> PICK row \in PostRows : /\ row.status \in {"running", "queued", "failed"}
                            /\ post' = [post EXCEPT ![j] = row]
  <2>1. CASE UNCHANGED post BY <1>0, <1>1, <2>1, LettersTyped
  <2>2. CASE post' = [post EXCEPT ![j] = AfterError(post[j])]
    <3>1. AfterError(post[j]) \in PostRows /\ AfterError(post[j]).status \in {"running", "queued", "failed"}
      <4>1. CASE post[j].tries < MaxTries BY <1>0, <4>1 DEF AfterError, PostRows
      <4>2. CASE ~(post[j].tries < MaxTries) BY <1>0, <4>2 DEF AfterError, PostRows
      <4> QED BY <4>1, <4>2
    <3> QED BY <2>2, <3>1
  <2> QED BY <2>1, <2>2 DEF PostRaises
<1>2. /\ postman[j] # "idle" /\ postman' = [postman EXCEPT ![j] = "idle"]
      /\ unsure' = unsure \cup {i \in {j} : postman[i] = "count"}
      /\ recount' = recount \cup {i \in {j} : postman[i] = "done"} /\ hurried' = hurried
      /\ UNCHANGED <<listed, gone, letter, writing, sentTo, wronged, pressed>>
  BY DEF PostRaises, CutsOff, Moves, ledger
<1>5. JobGoes(j, "idle", row) /\ "idle" \in Postmen BY <1>0, <1>1, <1>2 DEF JobGoes, Postmen, AnnounceTypeOK
<1>6. j \in unsure' \cup recount' \/ LetterOut(j)'
  <2>1. CASE postman[j] \in {"count", "done"} BY <1>2, <2>1
  <2>2. CASE postman[j] \notin {"count", "done"} BY <1>0, <1>1, <1>2, <2>2, LettersTyped DEF LettersOnce, LetterOut
  <2> QED BY <2>1, <2>2
<1>7. /\ sentTo' \in [Posts -> Nat] /\ unsure \subseteq unsure' /\ unsure' \subseteq Posts
      /\ recount \subseteq recount' /\ recount' \subseteq Posts BY <1>1, <1>2 DEF AnnounceTypeOK
<1>8. j \in wronged => j \in hurried BY DEF LettersInv, LeaversLeft, LeaversAreLeftAlone
<1> PICK p \in Postmen : p = "idle" BY <1>5
<1>9. j \in recount' \/ ((row.status = "done" \/ p = "done") <=> (post[j].status = "done" \/ postman[j] = "done"))
  BY <1>0, <1>2
<1>11. JobGoes(j, p, row) /\ p # "sleep" BY <1>5
<1>10. UNCHANGED letter /\ hurried' = hurried /\ wronged' \subseteq wronged \cup {j} /\ sentTo' = sentTo BY <1>2
<1>12. \A i \in Posts \ {j} : sentTo'[i] = sentTo[i] BY <1>10
<1>13. j \in wronged' => j \in hurried BY <1>2, <1>8
<1> QED BY <1>6, <1>7, <1>9, <1>10, <1>11, <1>12, <1>13, JobKeeps

LEMMA RetriedPostKeeps == ASSUME LettersInv, NEW j \in Posts, RetryPost(j) PROVE LettersInv'
<1>1. AnnounceTypeOK /\ PostsMove /\ LettersOnce BY DEF LettersInv
<1> PICK row : row = [status |-> "queued", tries |-> 0, waits |-> FALSE] OBVIOUS
<1>2. /\ post[j].status \in {"failed", "queued"} /\ post' = [post EXCEPT ![j] = row] /\ pressed' = pressed + 1
      /\ UNCHANGED <<listed, gone, letter, writing, postman, sentTo, unsure, recount, hurried, wronged>>
  BY DEF RetryPost, NewPost, ledger, doubts
<1>3. row \in PostRows /\ row.status = "queued" BY DEF PostRows
<1>4. postman[j] = "idle" /\ postman' = [postman EXCEPT ![j] = "idle"] BY <1>1, <1>2, LettersTyped DEF PostsMove
<1>5. JobGoes(j, "idle", row) /\ "idle" \in Postmen
  <2>1. pressed' \in Nat BY <1>1, <1>2, LettersTyped
  <2> QED BY <1>2, <1>3, <1>4, <2>1 DEF JobGoes, Postmen
<1>6. j \in unsure' \cup recount' \/ LetterOut(j)' BY <1>1, <1>2, <1>4, LettersTyped DEF LettersOnce, LetterOut
<1>7. sentTo' \in [Posts -> Nat] /\ unsure' \subseteq Posts /\ recount' \subseteq Posts BY <1>1, <1>2 DEF AnnounceTypeOK
<1>8. j \in wronged => j \in hurried BY DEF LettersInv, LeaversLeft, LeaversAreLeftAlone
<1>9. (row.status = "done" \/ "idle" = "done") <=> (post[j].status = "done" \/ postman[j] = "done")
  BY <1>2, <1>3, <1>4
<1> QED BY <1>2, <1>3, <1>5, <1>6, <1>7, <1>8, <1>9, JobKeeps

\* Each job that counts adds one to its letter's counts.
LEMMA CountKeeps == ASSUME LettersInv, NEW j \in Posts, CountSkipped(j) \/ CountSent(j) PROVE LettersInv'
<1>1. AnnounceTypeOK /\ PostsMove /\ LettersStage /\ LettersOnce /\ LeaversLeft /\ CountsKept BY DEF LettersInv
<1> PICK k \in Letters : k = j[1] BY DEF Posts
<1> PICK row : row = post[j] OBVIOUS
<1>2. /\ postman[j] \in {"skip", "count"} /\ postman' = [postman EXCEPT ![j] = "done"] /\ post' = post
      /\ UNCHANGED <<listed, gone, writing, sentTo, unsure, recount, hurried, wronged, pressed>>
  BY DEF CountSkipped, CountSent, Moves, ledger, doubts
<1>3. /\ row \in PostRows /\ row.status = "running" /\ post' = [post EXCEPT ![j] = row]
  BY <1>1, <1>2, LettersTyped DEF PostsMove
<1>4. JobGoes(j, "done", row) /\ "done" \in Postmen BY <1>1, <1>2, <1>3 DEF JobGoes, Postmen, AnnounceTypeOK
<1>5. /\ postman' \in [Posts -> Postmen] /\ postman'[j] = "done"
      /\ \A i \in Posts : i # j => postman'[i] = postman[i]
      /\ PostsMove' BY <1>3, <1>4, JobGoesOn
<1>6. /\ letter' \in [Letters -> LetterRows]
      /\ \A l \in Letters : letter'[l].there = letter[l].there /\ letter'[l].audience = letter[l].audience
      /\ \A l \in Letters \ {k} : letter'[l] = letter[l]
      /\ letter'[k].sent + letter'[k].skipped = (letter[k].sent + letter[k].skipped) + 1
  <2>1. letter \in [Letters -> LetterRows] BY <1>1, LettersTyped
  <2>2. CASE letter' = [letter EXCEPT ![k].sent = letter[k].sent + 1]
    <3>1. /\ letter' \in [Letters -> LetterRows]
          /\ \A l \in Letters : letter'[l].there = letter[l].there /\ letter'[l].audience = letter[l].audience
          /\ \A l \in Letters \ {k} : letter'[l] = letter[l]
          /\ letter'[k].sent = letter[k].sent + 1 /\ letter'[k].skipped = letter[k].skipped
          /\ letter[k].sent \in Nat /\ letter[k].skipped \in Nat BY <2>1, <2>2 DEF LetterRows
    <3>2. letter'[k].sent + letter'[k].skipped = (letter[k].sent + letter[k].skipped) + 1 BY <3>1
    <3> QED BY <3>1, <3>2
  <2>3. CASE letter' = [letter EXCEPT ![k].skipped = letter[k].skipped + 1]
    <3>1. /\ letter' \in [Letters -> LetterRows]
          /\ \A l \in Letters : letter'[l].there = letter[l].there /\ letter'[l].audience = letter[l].audience
          /\ \A l \in Letters \ {k} : letter'[l] = letter[l]
          /\ letter'[k].skipped = letter[k].skipped + 1 /\ letter'[k].sent = letter[k].sent
          /\ letter[k].sent \in Nat /\ letter[k].skipped \in Nat BY <2>1, <2>3 DEF LetterRows
    <3>2. letter'[k].sent + letter'[k].skipped = (letter[k].sent + letter[k].skipped) + 1 BY <3>1
    <3> QED BY <3>1, <3>2
  <2>4. \/ letter' = [letter EXCEPT ![k].skipped = letter[k].skipped + 1]
        \/ letter' = [letter EXCEPT ![k].sent = letter[k].sent + 1]
    <3>1. CASE CountSkipped(j)
      <4>1. letter' = [letter EXCEPT ![k]["skipped"] = @ + 1] BY <3>1 DEF CountSkipped, Counts
      <4> QED BY <4>1
    <3>2. CASE CountSent(j)
      <4>1. letter' = [letter EXCEPT ![k]["sent"] = @ + 1] BY <3>2 DEF CountSent, Counts
      <4> QED BY <4>1
    <3> QED BY <3>1, <3>2
  <2> QED BY <2>2, <2>3, <2>4
<1>7. AnnounceTypeOK' BY <1>1, <1>2, <1>5, <1>6 DEF AnnounceTypeOK, Postmen, LetterRows
<1>8. LettersStage' BY <1>1, <1>2, <1>6 DEF LettersStage, JobsOf
<1>9. LettersOnce' BY <1>1, <1>2, <1>5 DEF LettersOnce, LetterOut
<1>10. LeaversLeft' BY <1>1, <1>2, <1>5 DEF LeaversLeft, LeaversAreLeftAlone
<1>11. CountsKept'
  <2> SUFFICES ASSUME NEW l \in Letters
               PROVE  /\ recount \cap JobsOf(l) = {} => letter'[l].sent + letter'[l].skipped = Cardinality(CountedOf(l)')
                      /\ letter[l].there => letter[l].audience = Cardinality(StagedOf(l))
    BY <1>2, <1>6 DEF CountsKept, StagedOf, JobsOf
  <2>1. /\ recount \cap JobsOf(l) = {} => letter[l].sent + letter[l].skipped = Cardinality(CountedOf(l))
        /\ letter[l].there => letter[l].audience = Cardinality(StagedOf(l)) BY <1>1 DEF CountsKept
  <2>2. CASE l # k
    <3>1. j \notin JobsOf(l) BY <2>2 DEF JobsOf
    <3>2. CountedOf(l)' = CountedOf(l) BY <1>2, <1>5, <3>1 DEF CountedOf, JobsOf
    <3> QED BY <1>6, <2>1, <2>2, <3>2
  <2>3. CASE l = k
    <3>1. j \in JobsOf(k) BY DEF JobsOf
    <3>2. j \notin CountedOf(k) BY <1>2, <1>3 DEF CountedOf
    <3>3. CountedOf(k)' = CountedOf(k) \cup {j} BY <1>2, <1>5, <3>1 DEF CountedOf, JobsOf
    <3>4. IsFiniteSet(CountedOf(k)) BY JobsAreFinite, FS_Subset DEF CountedOf
    <3>5. Cardinality(CountedOf(k) \cup {j}) = Cardinality(CountedOf(k)) + 1 BY <3>2, <3>4, FS_AddElement
    <3>6. Cardinality(CountedOf(k)') = Cardinality(CountedOf(k)) + 1 BY <3>3, <3>5
    <3> QED BY <1>6, <2>1, <2>3, <3>6
  <2> QED BY <2>2, <2>3
<1> QED BY <1>5, <1>7, <1>8, <1>9, <1>10, <1>11 DEF LettersInv

LEMMA StageKeeps == ASSUME LettersInv, NEW k \in Letters, StageLetter(k) PROVE LettersInv'
<1>1. AnnounceTypeOK /\ PostsMove /\ LettersStage /\ LettersOnce /\ LeaversLeft /\ CountsKept BY DEF LettersInv
<1> PICK P : P = writing[k].people OBVIOUS
<1> PICK row : row = [there |-> TRUE, audience |-> Cardinality(P), sent |-> 0, skipped |-> 0] OBVIOUS
<1> PICK shut : shut = [open |-> FALSE, people |-> {}] OBVIOUS
<1> PICK new : new = [status |-> "queued", tries |-> 0, waits |-> FALSE] OBVIOUS
<1>2. /\ writing[k].open /\ letter' = [letter EXCEPT ![k] = row] /\ writing' = [writing EXCEPT ![k] = shut]
      /\ post' = [j \in Posts |-> IF j[1] = k /\ j[2] \in P THEN new ELSE post[j]]
      /\ UNCHANGED <<listed, gone, postman, sentTo, unsure, recount, hurried, wronged, pressed>>
  BY DEF StageLetter, NewPost, ledger, doubts
<1>3. P \in SUBSET People BY <1>1, LettersTyped DEF WritingRows
<1>4. IsFiniteSet(P) /\ Cardinality(P) \in Nat
  <2>1. IsFiniteSet(P) BY <1>3, FS_Subset, AnnouncementsAssumption
  <2> QED BY <2>1, FS_CardinalityType
<1>5. /\ row \in LetterRows /\ shut \in WritingRows /\ new \in PostRows
      /\ row.there = TRUE /\ row.audience = Cardinality(P) /\ row.sent = 0 /\ row.skipped = 0 /\ shut.open = FALSE
      /\ new.status = "queued" /\ new.tries = 0 BY <1>4, AnnouncementsAssumption DEF LetterRows, WritingRows, PostRows
<1>6. \A j \in JobsOf(k) : post[j].status = "none" BY <1>1, <1>2 DEF LettersStage
<1>7. /\ letter' \in [Letters -> LetterRows] /\ writing' \in [Letters -> WritingRows] /\ post' \in [Posts -> PostRows]
      /\ letter'[k] = row /\ writing'[k] = shut
      /\ \A l \in Letters \ {k} : letter'[l] = letter[l] /\ writing'[l] = writing[l] BY <1>1, <1>2, <1>5, LettersTyped
<1>8. \A j \in Posts : \/ post'[j] = post[j]
                       \/ j \in JobsOf(k) /\ post'[j] = new /\ post[j].status = "none" BY <1>2, <1>6 DEF JobsOf
<1>9. AnnounceTypeOK' BY <1>1, <1>2, <1>7 DEF AnnounceTypeOK, Postmen, LetterRows, WritingRows, PostRows
<1>10. PostsMove' BY <1>1, <1>2, <1>5, <1>8 DEF PostsMove
<1>11. LettersStage'
  <2> SUFFICES ASSUME NEW l \in Letters
               PROVE  /\ writing'[l].open => ~letter'[l].there
                      /\ ~letter'[l].there => \A j \in JobsOf(l) : post'[j].status = "none"
    BY DEF LettersStage, JobsOf
  <2>1. CASE l = k BY <1>5, <1>7, <2>1
  <2>2. CASE l # k
    <3>1. \A j \in JobsOf(l) : post'[j] = post[j] BY <1>2, <2>2 DEF JobsOf
    <3> QED BY <1>1, <1>7, <2>2, <3>1 DEF LettersStage
  <2> QED BY <2>1, <2>2
<1>12. LettersOnce' BY <1>1, <1>2, <1>8 DEF LettersOnce, LetterOut
<1>13. LeaversLeft' BY <1>1, <1>2 DEF LeaversLeft, LeaversAreLeftAlone
<1>14. CountsKept'
  <2> SUFFICES ASSUME NEW l \in Letters
               PROVE  /\ recount \cap JobsOf(l) = {} => letter'[l].sent + letter'[l].skipped = Cardinality(CountedOf(l)')
                      /\ letter'[l].there => letter'[l].audience = Cardinality(StagedOf(l)')
    BY <1>2 DEF CountsKept, JobsOf
  <2>1. /\ recount \cap JobsOf(l) = {} => letter[l].sent + letter[l].skipped = Cardinality(CountedOf(l))
        /\ letter[l].there => letter[l].audience = Cardinality(StagedOf(l)) BY <1>1 DEF CountsKept
  <2>2. CASE l # k
    <3>1. \A j \in JobsOf(l) : post'[j] = post[j] BY <1>2, <2>2 DEF JobsOf
    <3>2. CountedOf(l)' = CountedOf(l) /\ StagedOf(l)' = StagedOf(l) BY <1>2, <3>1 DEF CountedOf, StagedOf, JobsOf
    <3> QED BY <1>7, <2>1, <2>2, <3>2
  <2>3. CASE l = k
    <3>1. CountedOf(k)' = {}
      <4> SUFFICES ASSUME NEW j \in JobsOf(k) PROVE post'[j].status # "done" /\ postman[j] # "done"
        BY <1>2 DEF CountedOf, JobsOf
      <4>1. j \in Posts /\ post[j].status = "none" BY <1>6 DEF JobsOf
      <4>2. postman[j] = "idle" BY <1>1, <4>1 DEF PostsMove
      <4> QED BY <1>5, <1>8, <4>1, <4>2
    <3>2. Cardinality(CountedOf(k)') = 0 BY <3>1, FS_EmptySet
    <3>3. StagedOf(k)' = {j \in JobsOf(k) : j[2] \in P}
      <4> SUFFICES ASSUME NEW j \in JobsOf(k) PROVE post'[j].status # "none" <=> j[2] \in P BY DEF StagedOf, JobsOf
      <4>1. j \in Posts /\ j[1] = k /\ post[j].status = "none" BY <1>6 DEF JobsOf
      <4> QED BY <1>2, <1>5, <4>1
    <3>4. Cardinality({j \in JobsOf(k) : j[2] \in P}) = Cardinality(P) BY <1>3, OnePostEach
    <3> QED BY <1>5, <1>7, <2>3, <3>2, <3>3, <3>4
  <2> QED BY <2>2, <2>3
<1> QED BY <1>9, <1>10, <1>11, <1>12, <1>13, <1>14 DEF LettersInv

LEMMA ListKeeps ==
  ASSUME LettersInv,
         \/ \E p \in People : IsListed(p) \/ Unsubscribe(p)
         \/ \E k \in Letters : ReadAudience(k)
  PROVE  LettersInv'
<1>1. AnnounceTypeOK /\ PostsMove /\ LettersStage /\ LettersOnce /\ LeaversLeft /\ CountsKept BY DEF LettersInv
<1>2. /\ UNCHANGED <<letter, post, postman, sentTo, unsure, recount, wronged, pressed>>
      /\ hurried \subseteq hurried' /\ hurried' \subseteq Posts
      /\ listed' \subseteq People /\ gone' \subseteq People
      /\ \A j \in Posts : postman[j] = "sleep" /\ j[2] \in gone' => j[2] \in gone \/ j \in hurried'
      /\ writing' \in [Letters -> WritingRows]
      /\ \A l \in Letters : writing'[l].open => writing[l].open \/ ~letter[l].there
  <2>1. ASSUME NEW p \in People, IsListed(p) PROVE <1>2!:
    BY <1>1, <2>1, LettersTyped DEF IsListed, doubts, AnnounceTypeOK
  <2>2. ASSUME NEW p \in People, Unsubscribe(p) PROVE <1>2!:
    <3>1. /\ gone' = gone \cup {p} /\ hurried' = hurried \cup {j \in Posts : j[2] = p /\ postman[j] = "sleep"}
          /\ UNCHANGED <<listed, letter, writing, post, postman, sentTo, unsure, recount, wronged, pressed>>
      BY <2>2 DEF Unsubscribe
    <3> QED BY <1>1, <3>1, LettersTyped DEF AnnounceTypeOK
  <2>3. ASSUME NEW k \in Letters, ReadAudience(k) PROVE <1>2!:
    <3>1. PICK row : row = [open |-> TRUE, people |-> Audience] OBVIOUS
    <3>2. /\ ~letter[k].there /\ writing' = [writing EXCEPT ![k] = row]
          /\ UNCHANGED <<listed, gone, letter, post, postman, sentTo, unsure, recount, hurried, wronged, pressed>>
      BY <2>3, <3>1 DEF ReadAudience, ledger, doubts
    <3>3. row \in WritingRows BY <1>1, <3>1 DEF WritingRows, Audience, AnnounceTypeOK
    <3>4. writing' \in [Letters -> WritingRows] /\ \A l \in Letters : l # k => writing'[l] = writing[l]
      BY <1>1, <3>2, <3>3, LettersTyped
    <3> QED BY <1>1, <3>2, <3>4 DEF AnnounceTypeOK
  <2> QED BY <2>1, <2>2, <2>3
<1>3. AnnounceTypeOK' BY <1>1, <1>2 DEF AnnounceTypeOK, WritingRows
<1>4. PostsMove' /\ LettersStage' /\ LettersOnce' BY <1>1, <1>2 DEF PostsMove, LettersStage, LettersOnce, LetterOut, JobsOf
<1>5. LeaversLeft' BY <1>1, <1>2 DEF LeaversLeft, LeaversAreLeftAlone
<1>6. CountsKept' BY <1>2, CountsStay
<1> QED BY <1>3, <1>4, <1>5, <1>6 DEF LettersInv

LEMMA LettersKilledKeep == ASSUME LettersInv, AnnounceKill PROVE LettersInv'
<1>1. AnnounceTypeOK /\ PostsMove /\ LettersStage /\ LettersOnce /\ LeaversLeft /\ CountsKept BY DEF LettersInv
<1> PICK shut : shut = [open |-> FALSE, people |-> {}] OBVIOUS
<1>2. /\ unsure'  = unsure \cup {j \in Posts : postman[j] = "count"}
      /\ recount' = recount \cup {j \in Posts : postman[j] = "done"}
      /\ hurried' = hurried
      /\ postman' = [j \in Posts |-> "idle"]
      /\ post' = [j \in Posts |-> IF post[j].status = "running" THEN [post[j] EXCEPT !.status = "queued"]
                                  ELSE post[j]]
      /\ writing' = [l \in Letters |-> shut]
      /\ UNCHANGED <<listed, gone, letter, sentTo, wronged, pressed>> BY DEF AnnounceKill, CutsOff, ledger
<1>3. shut \in WritingRows /\ shut.open = FALSE BY DEF WritingRows
<1>4. /\ post' \in [Posts -> PostRows]
      /\ \A j \in Posts : \/ post'[j] = post[j] /\ post[j].status # "running"
                          \/ post[j].status = "running" /\ post'[j].status = "queued"
  <2> SUFFICES ASSUME NEW j \in Posts
               PROVE  /\ post'[j] \in PostRows
                      /\ \/ post'[j] = post[j] /\ post[j].status # "running"
                         \/ post[j].status = "running" /\ post'[j].status = "queued" BY <1>2
  <2>1. post[j] \in PostRows BY <1>1, LettersTyped
  <2>2. post'[j] = IF post[j].status = "running" THEN [post[j] EXCEPT !.status = "queued"] ELSE post[j] BY <1>2
  <2> QED BY <2>1, <2>2 DEF PostRows
<1>5. AnnounceTypeOK' BY <1>1, <1>2, <1>3, <1>4 DEF AnnounceTypeOK, WritingRows, PostRows
<1>6. PostsMove' BY <1>1, <1>2, <1>4 DEF PostsMove
<1>7. LettersStage'
  <2>1. \A l \in Letters : JobsOf(l) \subseteq Posts BY DEF JobsOf
  <2>2. \A j \in Posts : post[j].status = "none" => post'[j].status = "none" BY <1>4
  <2> QED BY <1>1, <1>2, <1>3, <2>1, <2>2 DEF LettersStage, JobsOf
<1>8. LettersOnce'
  <2> SUFFICES ASSUME NEW j \in Posts \ (unsure' \cup recount') PROVE LetterOut(j)' BY DEF LettersOnce
  <2>1. LetterOut(j) /\ postman[j] \notin {"count", "done"} BY <1>1, <1>2 DEF LettersOnce
  <2> QED BY <1>2, <1>4, <2>1 DEF LetterOut
<1>9. LeaversLeft' BY <1>1, <1>2 DEF LeaversLeft, LeaversAreLeftAlone
<1>10. CountsKept'
  <2>1. \A j \in Posts : post'[j].status = "none" <=> post[j].status = "none" BY <1>4
  <2>2. \A j \in Posts \ recount' : (post'[j].status = "done" \/ postman'[j] = "done")
                                     <=> (post[j].status = "done" \/ postman[j] = "done") BY <1>2, <1>4
  <2>3. recount \subseteq recount' /\ UNCHANGED letter BY <1>2
  <2> QED BY <2>1, <2>2, <2>3, CountsStay
<1> QED BY <1>5, <1>6, <1>7, <1>8, <1>9, <1>10 DEF LettersInv

LEMMA LettersStep == ASSUME LettersInv, AnnounceNext PROVE LettersInv'
<1>1. ASSUME NEW p \in People, IsListed(p) \/ Unsubscribe(p) PROVE LettersInv' BY <1>1, ListKeeps
<1>2. ASSUME NEW l \in Letters, ReadAudience(l) PROVE LettersInv' BY <1>2, ListKeeps
<1>3. ASSUME NEW l \in Letters, StageLetter(l) PROVE LettersInv' BY <1>3, StageKeeps
<1>4. ASSUME NEW j \in Posts, Claim(j) PROVE LettersInv' BY <1>4, ClaimKeeps
<1>5. ASSUME NEW j \in Posts, CheckLedger(j) PROVE LettersInv' BY <1>5, CheckKeeps
<1>6. ASSUME NEW j \in Posts, CountSkipped(j) \/ CountSent(j) PROVE LettersInv' BY <1>6, CountKeeps
<1>7. ASSUME NEW j \in Posts, SendLetter(j) PROVE LettersInv' BY <1>7, SendKeeps
<1>8. ASSUME NEW j \in Posts, PostDone(j) PROVE LettersInv' BY <1>8, DoneKeeps
<1>9. ASSUME NEW j \in Posts, PostRaises(j) PROVE LettersInv' BY <1>9, LetterRaisesKeeps
<1>10. ASSUME NEW j \in Posts, RetryPost(j) PROVE LettersInv' BY <1>10, RetriedPostKeeps
<1> QED BY <1>1, <1>2, <1>3, <1>4, <1>5, <1>6, <1>7, <1>8, <1>9, <1>10, LettersKilledKeep DEF AnnounceNext

LEMMA LettersRest == ASSUME LettersInv, UNCHANGED announceVars PROVE LettersInv'
<1> USE DEF announceVars
<1>1. AnnounceTypeOK' /\ PostsMove' /\ LettersStage' /\ LettersOnce' /\ LeaversLeft'
  BY DEF LettersInv, AnnounceTypeOK, PostsMove, LettersStage, LettersOnce, LetterOut, JobsOf, LeaversLeft,
     LeaversAreLeftAlone
<1>2. CountsKept' BY CountsStay
<1> QED BY <1>1, <1>2 DEF LettersInv

LEMMA LettersMean == ASSUME LettersInv PROVE ListIsTreatedWell
<1>1. AnnounceTypeOK /\ LettersOnce /\ LeaversLeft /\ CountsKept BY DEF LettersInv
<1>2. LetterTwiceHasACause BY <1>1, LettersTyped DEF LettersOnce, LetterOut, LetterTwiceHasACause
<1>3. CountsAreTrue
  <2> SUFFICES ASSUME NEW l \in Letters
               PROVE  /\ recount \cap JobsOf(l) = {} => letter[l].sent + letter[l].skipped = Cardinality(CountedOf(l))
                      /\ letter[l].there => letter[l].audience = Cardinality(StagedOf(l))
    BY DEF CountsAreTrue, JobsOf, CountedOf, StagedOf
  <2> QED BY <1>1 DEF CountsKept
<1> QED BY <1>1, <1>2, <1>3 DEF LeaversLeft, ListIsTreatedWell
(* WorkPages: the page against the invoice and the gallery; the letter.    *)

SyncRows  == [at : {"free", "waiting", "patch"}, what : {"invoice", "gallery"},
              read : {"draft", "sent", "deposit_paid", "paid"}]
Sheets    == [paid : BOOLEAN, deposit : BOOLEAN, delivered : BOOLEAN]
Projects  == [linked : BOOLEAN, stage : WorkStages]
Invoices  == [deposit : BOOLEAN, status : {"draft", "sent", "deposit_paid", "paid"}]
Handovers == [at : {"idle", "sent", "logged", "close"}, moved : BOOLEAN]

Awaits(j, what)  == pageSync[j].at = "waiting" /\ pageSync[j].what = what
Patches(j, what) == pageSync[j].at = "patch" /\ pageSync[j].what = what
TellsMoney ==
  /\ sheet.paid = InvoicePaid(invoice.status)
  /\ sheet.deposit = DepositPaid(invoice.status)

SyncsAreWhole == \A j \in PageSyncs :
  /\ pageSync[j].at = "free" => pageSync[j] = FreeSync
  /\ pageSync[j].at # "free" /\ pageSync[j].what = "gallery" => shown.times > 0
  /\ pageSync[j].at = "patch" => work.linked \/ cleared

\* The newest word on the money waits, is being written, or is on the page.
MoneyIsTold == "invoice" \notin unsynced /\ ~overtook =>
  /\ \A j, k \in PageSyncs : Patches(j, "invoice") /\ Patches(k, "invoice") => j = k
  /\ \/ \E j \in PageSyncs : Awaits(j, "invoice")
     \/ \E j \in PageSyncs : Patches(j, "invoice") /\ pageSync[j].read = invoice.status
     \/ TellsMoney /\ \A j \in PageSyncs : ~Patches(j, "invoice")
DeliveryIsTold ==
  /\ "gallery" \notin unsynced /\ shown.live =>
       sheet.delivered \/ \E j \in PageSyncs : Awaits(j, "gallery") \/ Patches(j, "gallery")
  /\ sheet.delivered \/ shown.live => shown.times > 0
LetterGoes ==
  /\ HandOverHolds
  /\ handover.at = "close" /\ ~handover.moved => PreDelivered(work.stage)

WorkInv == WorkTypeOK /\ SyncsAreWhole /\ MoneyIsTold /\ DeliveryIsTold /\ MoneyGateHolds /\ LetterGoes

LEMMA WorkTyped ==
  ASSUME WorkTypeOK
  PROVE  /\ work \in Projects /\ invoice \in Invoices /\ pageSync \in [PageSyncs -> SyncRows] /\ sheet \in Sheets
         /\ handover \in Handovers
BY DEF WorkTypeOK, Projects, Invoices, SyncRows, Sheets, Handovers

LEMMA FreeSyncRow == FreeSync \in SyncRows /\ FreeSync.at = "free" /\ FreeSync.what = "invoice" /\ FreeSync.read = "draft"
BY DEF FreeSync, SyncRows

LEMMA WorkInitially == ASSUME WorkInit PROVE WorkInv
<1>1. /\ work = ClosedTab.row /\ shown = [live |-> FALSE, times |-> 0]
      /\ pageSync = [j \in PageSyncs |-> FreeSync] /\ projectTab = [t \in ProjectTabs |-> ClosedTab]
      /\ sheet = [paid |-> FALSE, deposit |-> FALSE, delivered |-> FALSE]
      /\ handover = [at |-> "idle", moved |-> FALSE] /\ mailed = [sent |-> FALSE, logged |-> FALSE, cut |-> FALSE]
      /\ unsynced = {} /\ overtook = FALSE /\ rewound = FALSE /\ cleared = FALSE /\ reopened = FALSE BY DEF WorkInit
<1>2. invoice \in Invoices /\ invoice.status = "draft" BY DEF WorkInit, Invoices
<1>3. ClosedTab.row \in Projects /\ ClosedTab \in [open : BOOLEAN, row : Projects] BY DEF ClosedTab, Projects, WorkStages
<1>4. 0 \in 0..MaxShown BY WorkPagesAssumption
<1>5. WorkTypeOK BY <1>1, <1>2, <1>3, <1>4, FreeSyncRow DEF WorkTypeOK, Invoices, Projects, SyncRows
<1>6. SyncsAreWhole BY <1>1, FreeSyncRow DEF SyncsAreWhole
<1>7. TellsMoney BY <1>1, <1>2 DEF TellsMoney, InvoicePaid, DepositPaid, Invoices
<1>8. \A j \in PageSyncs : ~Patches(j, "invoice") BY <1>1, FreeSyncRow DEF Patches
<1>9. MoneyIsTold BY <1>7, <1>8 DEF MoneyIsTold
<1>10. DeliveryIsTold /\ MoneyGateHolds /\ LetterGoes
  BY <1>1, <1>2 DEF DeliveryIsTold, MoneyGateHolds, LetterGoes, HandOverHolds
<1> QED BY <1>5, <1>6, <1>9, <1>10 DEF WorkInv

\* A job is enqueued in a free place, or lost.
LEMMA Enqueued1 ==
  ASSUME WorkInv, NEW j \in PageSyncs, NEW what \in {"invoice", "gallery"}, EnqueuesLater(j, what)
  PROVE  /\ pageSync' \in [PageSyncs -> SyncRows] /\ unsynced \subseteq unsynced' /\ unsynced' \subseteq unsynced \cup {what}
         /\ \A k \in PageSyncs : k # j => pageSync'[k] = pageSync[k]
         /\ pageSync'[j] = pageSync[j] \/ (pageSync[j] = FreeSync /\ pageSync'[j].at = "waiting" /\ pageSync'[j].what = what)
         /\ what \in unsynced' \/ Awaits(j, what)'
<1>1. WorkTypeOK BY DEF WorkInv
<1>2. CASE Enqueues(j, what)
  <2>1. pageSync[j] = FreeSync /\ unsynced' = unsynced /\ pageSync' = [pageSync EXCEPT ![j].at = "waiting", ![j].what = what]
    BY <1>2 DEF Enqueues
  <2>2. pageSync' \in [PageSyncs -> SyncRows] /\ pageSync'[j].at = "waiting" /\ pageSync'[j].what = what
    BY <1>1, <2>1, WorkTyped DEF SyncRows
  <2>3. \A k \in PageSyncs : k # j => pageSync'[k] = pageSync[k] BY <1>1, <2>1, WorkTyped
  <2> QED BY <2>1, <2>2, <2>3 DEF Awaits
<1>3. CASE unsynced' = unsynced \cup {what} /\ UNCHANGED pageSync BY <1>1, <1>3, WorkTyped
<1> QED BY <1>2, <1>3 DEF EnqueuesLater

\* What a new job leaves of the others.
LEMMA EnqueuedKeeps ==
  ASSUME WorkInv, NEW j \in PageSyncs, NEW what \in {"invoice", "gallery"},
         EnqueuesLater(j, what), UNCHANGED <<sheet, overtook>>, invoice' \in Invoices, invoice'.deposit = invoice.deposit,
         what = "gallery" => invoice' = invoice,
         what = "invoice" => shown' = shown,
         what = "gallery" => shown'.live = TRUE /\ shown'.times > 0,
         work.linked => work'.linked, cleared' = cleared
  PROVE  SyncsAreWhole' /\ MoneyIsTold' /\ DeliveryIsTold'
<1>1. WorkTypeOK /\ SyncsAreWhole /\ MoneyIsTold /\ DeliveryIsTold BY DEF WorkInv
<1>2. /\ pageSync' \in [PageSyncs -> SyncRows] /\ unsynced \subseteq unsynced' /\ unsynced' \subseteq unsynced \cup {what}
      /\ \A k \in PageSyncs : k # j => pageSync'[k] = pageSync[k]
      /\ pageSync'[j] = pageSync[j] \/ (pageSync[j] = FreeSync /\ pageSync'[j].at = "waiting" /\ pageSync'[j].what = what)
      /\ what \in unsynced' \/ Awaits(j, what)' BY Enqueued1
<1>3. SyncsAreWhole' BY <1>1, <1>2 DEF SyncsAreWhole
<1>4. \A k \in PageSyncs, w \in {"invoice", "gallery"} :
         /\ Patches(k, w)' <=> Patches(k, w)
         /\ Patches(k, w) => pageSync'[k] = pageSync[k]
         /\ Awaits(k, w) => Awaits(k, w)' BY <1>2, FreeSyncRow DEF Patches, Awaits
<1>5. MoneyIsTold'
  <2> SUFFICES ASSUME "invoice" \notin unsynced', ~overtook'
      PROVE  /\ \A k, m \in PageSyncs : Patches(k, "invoice")' /\ Patches(m, "invoice")' => k = m
             /\ \/ \E k \in PageSyncs : Awaits(k, "invoice")'
                \/ \E k \in PageSyncs : Patches(k, "invoice")' /\ pageSync'[k].read = invoice'.status
                \/ TellsMoney' /\ \A k \in PageSyncs : ~Patches(k, "invoice")' BY DEF MoneyIsTold
  <2>1. /\ \A k, m \in PageSyncs : Patches(k, "invoice") /\ Patches(m, "invoice") => k = m
        /\ \/ \E k \in PageSyncs : Awaits(k, "invoice")
           \/ \E k \in PageSyncs : Patches(k, "invoice") /\ pageSync[k].read = invoice.status
           \/ TellsMoney /\ \A k \in PageSyncs : ~Patches(k, "invoice") BY <1>1, <1>2 DEF MoneyIsTold
  <2>2. CASE what = "invoice" BY <1>2, <1>4, <2>1, <2>2
  <2>3. CASE what = "gallery"
    <3>1. TellsMoney => TellsMoney' BY <2>3 DEF TellsMoney, DepositPaid
    <3>2. invoice' = invoice BY <2>3
    <3> QED BY <1>4, <2>1, <3>1, <3>2
  <2> QED BY <2>2, <2>3
<1>6. DeliveryIsTold'
  <2>1. CASE what = "gallery" BY <1>2, <2>1 DEF DeliveryIsTold
  <2>2. CASE what = "invoice" BY <1>1, <1>2, <1>4, <2>2 DEF DeliveryIsTold
  <2> QED BY <2>1, <2>2
<1> QED BY <1>3, <1>5, <1>6

LEMMA SendBillKeeps == ASSUME WorkInv, NEW j \in PageSyncs, SendBill(j) PROVE WorkInv'
<1>1. WorkTypeOK /\ MoneyGateHolds /\ LetterGoes BY DEF WorkInv
<1>2. /\ invoice.status = "draft" /\ invoice' = [invoice EXCEPT !.status = "sent"] /\ EnqueuesLater(j, "invoice")
      /\ UNCHANGED <<work, shown, projectTab, sheet, overtook, rewound, cleared, handover, mailed, reopened>>
  BY DEF SendBill, letters
<1>3. invoice' \in Invoices /\ invoice'.deposit = invoice.deposit /\ invoice'.status = "sent"
  BY <1>1, <1>2, WorkTyped DEF Invoices
<1>4. pageSync' \in [PageSyncs -> SyncRows] /\ unsynced' \subseteq unsynced \cup {"invoice"} BY <1>2, Enqueued1
<1>5. WorkTypeOK' BY <1>1, <1>2, <1>3, <1>4 DEF WorkTypeOK, Invoices, SyncRows
<1>6. SyncsAreWhole' /\ MoneyIsTold' /\ DeliveryIsTold' BY <1>2, <1>3, EnqueuedKeeps
<1>7. MoneyGateHolds' /\ LetterGoes' BY <1>1, <1>2, <1>3 DEF MoneyGateHolds, LetterGoes, HandOverHolds
<1> QED BY <1>5, <1>6, <1>7 DEF WorkInv

LEMMA PublishKeeps == ASSUME WorkInv, NEW j \in PageSyncs, PublishGallery(j) PROVE WorkInv'
<1>1. WorkTypeOK /\ MoneyGateHolds /\ LetterGoes BY DEF WorkInv
<1>2. /\ shown.times < MaxShown /\ shown' = [live |-> TRUE, times |-> shown.times + 1] /\ EnqueuesLater(j, "gallery")
      /\ UNCHANGED <<work, invoice, projectTab, sheet, overtook, rewound, cleared, handover, mailed, reopened>>
  BY DEF PublishGallery, letters
<1>3. shown' \in [live : BOOLEAN, times : 0..MaxShown] /\ shown'.live = TRUE /\ shown'.times > 0
  BY <1>1, <1>2, WorkPagesAssumption DEF WorkTypeOK
<1>4. pageSync' \in [PageSyncs -> SyncRows] /\ unsynced' \subseteq unsynced \cup {"gallery"} BY <1>2, Enqueued1
<1>5. WorkTypeOK' BY <1>1, <1>2, <1>3, <1>4 DEF WorkTypeOK, SyncRows
<1>6. SyncsAreWhole' /\ MoneyIsTold' /\ DeliveryIsTold' BY <1>1, <1>2, <1>3, WorkTyped, EnqueuedKeeps
<1>7. MoneyGateHolds' /\ LetterGoes' BY <1>1, <1>2 DEF MoneyGateHolds, LetterGoes, HandOverHolds
<1> QED BY <1>5, <1>6, <1>7 DEF WorkInv

\* A letter that read the stage knows of its change.
LEMMA NoticedKeeps ==
  ASSUME WorkInv, work' \in Projects, handover' = Noticed(work'.stage), UNCHANGED <<mailed, reopened>>
  PROVE  LetterGoes' /\ handover' \in Handovers
<1>1. WorkTypeOK /\ LetterGoes BY DEF WorkInv
<1>2. handover \in Handovers BY <1>1, WorkTyped
<1>3. \/ handover' = [handover EXCEPT !.moved = TRUE]
      \/ handover' = handover /\ (handover.at # "close" \/ work'.stage = work.stage) BY DEF Noticed
<1>4. handover' \in Handovers /\ handover'.at = handover.at BY <1>2, <1>3 DEF Handovers
<1>5. handover'.moved = TRUE \/ handover.at # "close" \/ (handover' = handover /\ work'.stage = work.stage)
  BY <1>2, <1>3 DEF Handovers
<1>6. LetterGoes' BY <1>1, <1>4, <1>5 DEF LetterGoes, HandOverHolds
<1> QED BY <1>4, <1>6

LEMMA BillPaidKeeps == ASSUME WorkInv, NEW j \in PageSyncs, BillPaid(j) PROVE WorkInv'
<1>1. WorkTypeOK /\ MoneyGateHolds BY DEF WorkInv
<1> PICK status : status = IF invoice.deposit /\ invoice.status = "sent" THEN "deposit_paid" ELSE "paid" OBVIOUS
<1> PICK gate : gate = Advances(work.stage) OBVIOUS
<1>2. /\ invoice' = [invoice EXCEPT !.status = status] /\ work' = [work EXCEPT !.stage = gate]
      /\ handover' = Noticed(work'.stage) /\ rewound' = FALSE /\ Enqueues(j, "invoice")
      /\ UNCHANGED <<shown, projectTab, sheet, overtook, cleared, mailed, reopened>> BY DEF BillPaid
<1>3. invoice' \in Invoices /\ invoice'.deposit = invoice.deposit /\ status \in {"deposit_paid", "paid"}
  BY <1>1, <1>2, WorkTyped DEF Invoices
<1>4. gate \in WorkStages \ {"proposal_sent"} BY <1>1 DEF Advances, WorkTypeOK, WorkStages
<1>5. work' \in Projects /\ work'.linked = work.linked /\ work'.stage = gate BY <1>1, <1>2, <1>4, WorkTyped DEF Projects
<1>6. EnqueuesLater(j, "invoice") BY <1>2 DEF EnqueuesLater
<1>7. pageSync' \in [PageSyncs -> SyncRows] /\ unsynced' \subseteq unsynced \cup {"invoice"} BY <1>6, Enqueued1
<1>8. LetterGoes' /\ handover' \in Handovers BY <1>2, <1>5, NoticedKeeps
<1>9. WorkTypeOK' BY <1>1, <1>2, <1>3, <1>5, <1>7, <1>8 DEF WorkTypeOK, Invoices, Projects, SyncRows, Handovers
<1>10. SyncsAreWhole' /\ MoneyIsTold' /\ DeliveryIsTold' BY <1>2, <1>3, <1>5, <1>6, EnqueuedKeeps
<1>11. MoneyGateHolds' BY <1>1, <1>2, <1>4, <1>5 DEF MoneyGateHolds
<1> QED BY <1>8, <1>9, <1>10, <1>11 DEF WorkInv

LEMMA ProjectKeeps ==
  ASSUME WorkInv,
         \/ LinkSession \/ HideGallery
         \/ \E t \in ProjectTabs : OpenProject(t) \/ \E typed \in Projects : SaveProject(t, typed)
  PROVE  WorkInv'
<1>1. WorkTypeOK /\ SyncsAreWhole /\ MoneyIsTold /\ DeliveryIsTold /\ MoneyGateHolds /\ LetterGoes BY DEF WorkInv
<1>2. CASE LinkSession
  <2>1. /\ work' = [work EXCEPT !.linked = TRUE]
        /\ UNCHANGED <<invoice, shown, pageSync, projectTab, sheet, handover, mailed, unsynced, overtook, rewound, cleared, reopened>>
    BY <1>2 DEF LinkSession, history
  <2>2. work' \in Projects /\ work'.linked = TRUE /\ work'.stage = work.stage BY <1>1, <2>1, WorkTyped DEF Projects
  <2>3. WorkTypeOK' BY <1>1, <2>1, <2>2 DEF WorkTypeOK, Projects
  <2>4. SyncsAreWhole' /\ DeliveryIsTold' /\ MoneyGateHolds' /\ LetterGoes'
    BY <1>1, <2>1, <2>2 DEF SyncsAreWhole, DeliveryIsTold, MoneyGateHolds, LetterGoes, HandOverHolds, Awaits, Patches
  <2>5. MoneyIsTold' BY <1>1, <2>1 DEF MoneyIsTold, TellsMoney, Awaits, Patches, DepositPaid
  <2> QED BY <2>3, <2>4, <2>5 DEF WorkInv
<1>3. CASE HideGallery
  <2>1. /\ shown' = [shown EXCEPT !.live = FALSE]
        /\ UNCHANGED <<work, invoice, pageSync, projectTab, sheet, handover, mailed, unsynced, overtook, rewound, cleared, reopened>>
    BY <1>3 DEF HideGallery, history
  <2>2. shown' \in [live : BOOLEAN, times : 0..MaxShown] /\ shown'.live = FALSE /\ shown'.times = shown.times
    BY <1>1, <2>1 DEF WorkTypeOK
  <2>3. WorkTypeOK' BY <1>1, <2>1, <2>2 DEF WorkTypeOK
  <2>4. SyncsAreWhole' /\ DeliveryIsTold' /\ MoneyGateHolds' /\ LetterGoes'
    BY <1>1, <2>1, <2>2 DEF SyncsAreWhole, DeliveryIsTold, MoneyGateHolds, LetterGoes, HandOverHolds, Awaits, Patches
  <2>5. MoneyIsTold' BY <1>1, <2>1 DEF MoneyIsTold, TellsMoney, Awaits, Patches, DepositPaid
  <2> QED BY <2>3, <2>4, <2>5 DEF WorkInv
<1>4. ASSUME NEW t \in ProjectTabs, OpenProject(t) PROVE WorkInv'
  <2> PICK row : row = [open |-> TRUE, row |-> work] OBVIOUS
  <2>1. /\ projectTab' = [projectTab EXCEPT ![t] = row]
        /\ UNCHANGED <<work, invoice, shown, pageSync, sheet, handover, mailed, unsynced, overtook, rewound, cleared, reopened>>
    BY <1>4 DEF OpenProject, history
  <2>2. row \in [open : BOOLEAN, row : Projects] BY <1>1, WorkTyped
  <2>3. WorkTypeOK' BY <1>1, <2>1, <2>2 DEF WorkTypeOK, Projects
  <2>4. SyncsAreWhole' /\ DeliveryIsTold' /\ MoneyGateHolds' /\ LetterGoes'
    BY <1>1, <2>1 DEF SyncsAreWhole, DeliveryIsTold, MoneyGateHolds, LetterGoes, HandOverHolds, Awaits, Patches
  <2>5. MoneyIsTold' BY <1>1, <2>1 DEF MoneyIsTold, TellsMoney, Awaits, Patches, DepositPaid
  <2> QED BY <2>3, <2>4, <2>5 DEF WorkInv
<1>5. ASSUME NEW t \in ProjectTabs, NEW typed \in Projects, SaveProject(t, typed) PROVE WorkInv'
  <2>1. /\ work' = typed /\ handover' = Noticed(typed.stage) /\ projectTab' = [projectTab EXCEPT ![t] = ClosedTab]
        /\ rewound' = (rewound \/ (typed.stage = "proposal_sent" /\ work.stage # "proposal_sent"))
        /\ cleared' = (cleared \/ (work.linked /\ ~typed.linked))
        /\ UNCHANGED <<invoice, shown, pageSync, sheet, unsynced, overtook, mailed, reopened>> BY <1>5 DEF SaveProject
  <2>2. ClosedTab \in [open : BOOLEAN, row : Projects] BY DEF ClosedTab, Projects, WorkStages
  <2>3. LetterGoes' /\ handover' \in Handovers BY <2>1, NoticedKeeps
  <2>4. rewound' \in BOOLEAN /\ cleared' \in BOOLEAN BY <2>1
  <2>5. projectTab' \in [ProjectTabs -> [open : BOOLEAN, row : Projects]] BY <1>1, <2>1, <2>2 DEF WorkTypeOK, Projects
  <2>6. WorkTypeOK' BY <1>1, <2>1, <2>3, <2>4, <2>5 DEF WorkTypeOK, Projects, Handovers
  <2>7. /\ rewound' = FALSE => rewound = FALSE /\ (typed.stage = "proposal_sent" => work.stage = "proposal_sent")
        /\ cleared' = FALSE => cleared = FALSE /\ (work.linked => typed.linked)
        /\ cleared = TRUE => cleared' = TRUE BY <1>1, <2>1 DEF WorkTypeOK
  <2>8. MoneyGateHolds' BY <1>1, <2>1, <2>4, <2>7 DEF MoneyGateHolds, WorkTypeOK
  <2>9. SyncsAreWhole' BY <1>1, <2>1, <2>4, <2>7 DEF SyncsAreWhole, WorkTypeOK
  <2>10. DeliveryIsTold' BY <1>1, <2>1 DEF DeliveryIsTold, Awaits, Patches
  <2>11. MoneyIsTold' BY <1>1, <2>1 DEF MoneyIsTold, TellsMoney, Awaits, Patches, DepositPaid
  <2> QED BY <2>3, <2>6, <2>8, <2>9, <2>10, <2>11 DEF WorkInv
<1> QED BY <1>2, <1>3, <1>4, <1>5

LEMMA SyncReadsKeeps == ASSUME WorkInv, NEW j \in PageSyncs, SyncReads(j) PROVE WorkInv'
<1>1. WorkTypeOK /\ SyncsAreWhole /\ MoneyIsTold /\ DeliveryIsTold /\ MoneyGateHolds /\ LetterGoes BY DEF WorkInv
<1> PICK what : what = pageSync[j].what OBVIOUS
<1> PICK goes \in BOOLEAN : goes = (work.linked /\ (what = "gallery" => shown.live)) OBVIOUS
<1> PICK read : read = IF what = "invoice" THEN invoice.status ELSE pageSync[j].read OBVIOUS
<1> PICK going : going = [pageSync[j] EXCEPT !.at = "patch", !.read = read] OBVIOUS
<1> PICK row : row = IF goes THEN going ELSE FreeSync OBVIOUS
<1>2. /\ pageSync[j].at = "waiting" /\ pageSync' = [pageSync EXCEPT ![j] = row]
      /\ unsynced' = IF work.linked THEN unsynced ELSE unsynced \cup {what}
      /\ overtook' = (overtook \/ (what = "invoice" /\ goes
                        /\ \E k \in PageSyncs : pageSync[k].at = "patch" /\ pageSync[k].what = "invoice"))
      /\ UNCHANGED <<work, invoice, shown, projectTab, sheet, rewound, cleared, handover, mailed, reopened>>
  BY DEF SyncReads, letters
<1>3. pageSync[j] \in SyncRows /\ what \in {"invoice", "gallery"} BY <1>1, WorkTyped DEF SyncRows
<1>4. /\ read \in {"draft", "sent", "deposit_paid", "paid"} /\ work.linked \in BOOLEAN
      /\ what = "invoice" => read = invoice.status BY <1>1, <1>3, WorkTyped DEF SyncRows, Invoices, Projects
<1>5. going \in SyncRows /\ going.at = "patch" /\ going.what = what /\ going.read = read BY <1>3, <1>4 DEF SyncRows
<1>6. row \in SyncRows BY <1>5, FreeSyncRow
<1>7. pageSync' \in [PageSyncs -> SyncRows] /\ pageSync'[j] = row /\ \A k \in PageSyncs : k # j => pageSync'[k] = pageSync[k]
  BY <1>1, <1>2, <1>6, WorkTyped
<1>8. overtook' \in BOOLEAN /\ (overtook => overtook') BY <1>1, <1>2 DEF WorkTypeOK
<1>9. unsynced' \subseteq {"invoice", "gallery"} /\ unsynced \subseteq unsynced' BY <1>1, <1>2, <1>3 DEF WorkTypeOK
<1>10. WorkTypeOK' BY <1>1, <1>2, <1>7, <1>8, <1>9 DEF WorkTypeOK, SyncRows
<1>11. SyncsAreWhole'
  <2>1. /\ row.at = "free" => row = FreeSync
        /\ row.at # "free" => goes /\ row.what = what /\ row.at = "patch" BY <1>5, FreeSyncRow
  <2>2. what = "gallery" => shown.times > 0 BY <1>1, <1>2 DEF SyncsAreWhole
  <2> QED BY <1>1, <1>2, <1>7, <2>1, <2>2 DEF SyncsAreWhole
<1>12. \A k \in PageSyncs, w \in {"invoice", "gallery"} : k # j => (Patches(k, w)' <=> Patches(k, w)) /\ (Awaits(k, w)' <=> Awaits(k, w))
  BY <1>7 DEF Patches, Awaits
<1>13. \A w \in {"invoice", "gallery"} : /\ ~Patches(j, w) /\ (Awaits(j, w) <=> what = w) /\ ~Awaits(j, w)'
                                         /\ Patches(j, w)' <=> goes /\ what = w
  BY <1>2, <1>5, <1>7, FreeSyncRow DEF Patches, Awaits
<1>14. MoneyIsTold'
  <2> SUFFICES ASSUME "invoice" \notin unsynced', ~overtook'
      PROVE  /\ \A k, m \in PageSyncs : Patches(k, "invoice")' /\ Patches(m, "invoice")' => k = m
             /\ \/ \E k \in PageSyncs : Awaits(k, "invoice")'
                \/ \E k \in PageSyncs : Patches(k, "invoice")' /\ pageSync'[k].read = invoice'.status
                \/ TellsMoney' /\ \A k \in PageSyncs : ~Patches(k, "invoice")' BY DEF MoneyIsTold
  <2>1. /\ \A k, m \in PageSyncs : Patches(k, "invoice") /\ Patches(m, "invoice") => k = m
        /\ \/ \E k \in PageSyncs : Awaits(k, "invoice")
           \/ \E k \in PageSyncs : Patches(k, "invoice") /\ pageSync[k].read = invoice.status
           \/ TellsMoney /\ \A k \in PageSyncs : ~Patches(k, "invoice") BY <1>1, <1>8, <1>9 DEF MoneyIsTold
  <2>2. what = "invoice" => goes BY <1>2, <1>4
  <2>3. what = "invoice" => \A k \in PageSyncs : ~Patches(k, "invoice") BY <1>2, <2>2 DEF Patches
  <2>4. TellsMoney => TellsMoney' BY <1>2 DEF TellsMoney, DepositPaid
  <2>5. CASE what = "invoice"
    <3>1. Patches(j, "invoice")' /\ pageSync'[j].read = invoice'.status BY <1>2, <1>4, <1>5, <1>7, <1>13, <2>2, <2>5
    <3> QED BY <1>12, <2>3, <2>5, <3>1
  <2>6. CASE what = "gallery" BY <1>2, <1>7, <1>12, <1>13, <2>1, <2>4, <2>6
  <2> QED BY <1>3, <2>5, <2>6
<1>15. DeliveryIsTold'
  <2> SUFFICES ASSUME "gallery" \notin unsynced', shown.live
      PROVE  sheet.delivered \/ \E k \in PageSyncs : Awaits(k, "gallery")' \/ Patches(k, "gallery")'
    BY <1>1, <1>2 DEF DeliveryIsTold
  <2>1. sheet.delivered \/ \E k \in PageSyncs : Awaits(k, "gallery") \/ Patches(k, "gallery")
    BY <1>1, <1>9 DEF DeliveryIsTold
  <2>2. what = "gallery" => goes BY <1>2
  <2> QED BY <1>12, <1>13, <2>1, <2>2
<1>16. MoneyGateHolds' /\ LetterGoes' BY <1>1, <1>2 DEF MoneyGateHolds, LetterGoes, HandOverHolds
<1> QED BY <1>10, <1>11, <1>14, <1>15, <1>16 DEF WorkInv

LEMMA SyncPatchesKeeps == ASSUME WorkInv, NEW j \in PageSyncs, SyncPatches(j) PROVE WorkInv'
<1>1. WorkTypeOK /\ SyncsAreWhole /\ MoneyIsTold /\ DeliveryIsTold /\ MoneyGateHolds /\ LetterGoes BY DEF WorkInv
<1> PICK what : what = pageSync[j].what OBVIOUS
<1> PICK patched : patched = PageOf(j) OBVIOUS
<1> PICK again : again = [FreeSync EXCEPT !.at = "waiting", !.what = what] OBVIOUS
<1>2. /\ pageSync[j].at = "patch"
      /\ UNCHANGED <<work, invoice, shown, projectTab, overtook, rewound, cleared, handover, mailed, reopened>>
  BY DEF SyncPatches, letters
<1> PICK row : pageSync' = [pageSync EXCEPT ![j] = row]
              /\ \/ sheet' = patched /\ row = FreeSync /\ unsynced' = unsynced
                 \/ sheet' \in {sheet, patched} /\ row = again /\ unsynced' = unsynced
                 \/ sheet' \in {sheet, patched} /\ row = FreeSync /\ unsynced' = unsynced \cup {what}
  BY DEF SyncPatches
<1>3. pageSync[j] \in SyncRows /\ what \in {"invoice", "gallery"} BY <1>1, WorkTyped DEF SyncRows
<1>4. again \in SyncRows /\ again.at = "waiting" /\ again.what = what BY <1>3, FreeSyncRow DEF SyncRows
<1>5. row \in SyncRows /\ row.at # "patch" BY <1>4, FreeSyncRow
<1>6. pageSync' \in [PageSyncs -> SyncRows] /\ pageSync'[j] = row /\ \A k \in PageSyncs : k # j => pageSync'[k] = pageSync[k]
  BY <1>1, <1>5, WorkTyped
<1>7. /\ what = "gallery" => patched = [sheet EXCEPT !.delivered = TRUE]
      /\ what = "invoice" => patched = [sheet EXCEPT !.paid = InvoicePaid(pageSync[j].read), !.deposit = DepositPaid(pageSync[j].read)]
  BY DEF PageOf, DeliveryPage
<1>8. InvoicePaid(pageSync[j].read) \in BOOLEAN /\ DepositPaid(pageSync[j].read) \in BOOLEAN BY <1>1, WorkTyped DEF InvoicePaid, DepositPaid, Invoices
<1>9. /\ patched \in Sheets
      /\ what = "gallery" => patched.delivered = TRUE /\ patched.paid = sheet.paid /\ patched.deposit = sheet.deposit
      /\ what = "invoice" => /\ patched.delivered = sheet.delivered /\ patched.paid = InvoicePaid(pageSync[j].read)
                             /\ patched.deposit = DepositPaid(pageSync[j].read)
  BY <1>1, <1>3, <1>7, <1>8, WorkTyped DEF Sheets
<1>10. sheet' \in {sheet, patched} /\ sheet' \in Sheets BY <1>1, <1>9, WorkTyped
<1>11. unsynced \subseteq unsynced' /\ unsynced' \subseteq unsynced \cup {what} OBVIOUS
<1>12. WorkTypeOK' BY <1>1, <1>2, <1>3, <1>6, <1>10, <1>11 DEF WorkTypeOK, SyncRows, Sheets
<1>13. SyncsAreWhole'
  <2>1. row = FreeSync \/ (row = again /\ again.at = "waiting" /\ again.what = what) BY <1>4
  <2>2. what = "gallery" => shown.times > 0 BY <1>1, <1>2 DEF SyncsAreWhole
  <2> QED BY <1>1, <1>2, <1>6, <2>1, <2>2, FreeSyncRow DEF SyncsAreWhole
<1>14. \A k \in PageSyncs, w \in {"invoice", "gallery"} : k # j => (Patches(k, w)' <=> Patches(k, w)) /\ (Awaits(k, w)' <=> Awaits(k, w))
  BY <1>6 DEF Patches, Awaits
<1>15. \A w \in {"invoice", "gallery"} : (Patches(j, w) <=> what = w) /\ ~Awaits(j, w) /\ ~Patches(j, w)'
  BY <1>2, <1>5, <1>6 DEF Patches, Awaits
<1>16. row = again => Awaits(j, what)' BY <1>4, <1>6 DEF Awaits
<1>17. MoneyIsTold'
  <2> SUFFICES ASSUME "invoice" \notin unsynced', ~overtook'
      PROVE  /\ \A k, m \in PageSyncs : Patches(k, "invoice")' /\ Patches(m, "invoice")' => k = m
             /\ \/ \E k \in PageSyncs : Awaits(k, "invoice")'
                \/ \E k \in PageSyncs : Patches(k, "invoice")' /\ pageSync'[k].read = invoice'.status
                \/ TellsMoney' /\ \A k \in PageSyncs : ~Patches(k, "invoice")' BY DEF MoneyIsTold
  <2>1. /\ \A k, m \in PageSyncs : Patches(k, "invoice") /\ Patches(m, "invoice") => k = m
        /\ \/ \E k \in PageSyncs : Awaits(k, "invoice")
           \/ \E k \in PageSyncs : Patches(k, "invoice") /\ pageSync[k].read = invoice.status
           \/ TellsMoney /\ \A k \in PageSyncs : ~Patches(k, "invoice") BY <1>1, <1>2, <1>11 DEF MoneyIsTold
  <2>2. CASE what = "gallery"
    <3>1. sheet'.paid = sheet.paid /\ sheet'.deposit = sheet.deposit BY <1>9, <1>10, <2>2
    <3>2. TellsMoney => TellsMoney' BY <1>2, <3>1 DEF TellsMoney, DepositPaid
    <3>3. \A k \in PageSyncs : Patches(k, "invoice") => k # j BY <1>15, <2>2
    <3> QED BY <1>2, <1>6, <1>14, <1>15, <2>1, <2>2, <3>2, <3>3
  <2>3. CASE what = "invoice"
    <3>1. \A k \in PageSyncs : ~Patches(k, "invoice")' BY <1>14, <1>15, <2>1, <2>3
    <3>2. CASE \E k \in PageSyncs : Awaits(k, "invoice") BY <1>14, <1>15, <3>1, <3>2
    <3>3. CASE row = again BY <1>16, <2>3, <3>1, <3>3
    <3>4. CASE sheet' = patched /\ pageSync[j].read = invoice.status
      <4>1. InvoicePaid(pageSync[j].read) = InvoicePaid(invoice.status)' /\ DepositPaid(pageSync[j].read) = DepositPaid(invoice.status)'
        BY <1>2, <3>4 DEF InvoicePaid, DepositPaid
      <4>2. TellsMoney' BY <1>9, <2>3, <3>4, <4>1 DEF TellsMoney
      <4> QED BY <3>1, <4>2
    <3>5. (\A k \in PageSyncs : ~Awaits(k, "invoice")) => pageSync[j].read = invoice.status BY <1>15, <2>1, <2>3
    <3>6. row = again \/ sheet' = patched BY <2>3
    <3> QED BY <3>2, <3>3, <3>4, <3>5, <3>6
  <2> QED BY <1>3, <2>2, <2>3
<1>18. DeliveryIsTold'
  <2>1. ASSUME "gallery" \notin unsynced', shown.live
        PROVE  sheet'.delivered \/ \E k \in PageSyncs : Awaits(k, "gallery")' \/ Patches(k, "gallery")'
    <3>1. sheet.delivered \/ \E k \in PageSyncs : Awaits(k, "gallery") \/ Patches(k, "gallery")
      BY <1>1, <1>11, <2>1 DEF DeliveryIsTold
    <3>2. CASE what = "gallery"
      <4>1. row = again \/ sheet' = patched BY <2>1, <3>2
      <4> QED BY <1>9, <1>16, <3>2, <4>1
    <3>3. CASE what = "invoice"
      <4>1. sheet'.delivered = sheet.delivered BY <1>9, <1>10, <3>3
      <4> QED BY <1>14, <1>15, <3>1, <3>3, <4>1
    <3> QED BY <1>3, <3>2, <3>3
  <2>2. sheet'.delivered => sheet.delivered \/ what = "gallery" BY <1>3, <1>9, <1>10
  <2>3. what = "gallery" => shown.times > 0 BY <1>1, <1>2 DEF SyncsAreWhole
  <2>4. sheet.delivered \/ shown.live => shown.times > 0 BY <1>1 DEF DeliveryIsTold
  <2> QED BY <1>2, <2>1, <2>2, <2>3, <2>4 DEF DeliveryIsTold
<1>19. MoneyGateHolds'
  <2>1. work.linked \/ cleared BY <1>1, <1>2 DEF SyncsAreWhole
  <2> QED BY <1>1, <1>2, <2>1 DEF MoneyGateHolds
<1>20. LetterGoes' BY <1>1, <1>2 DEF LetterGoes, HandOverHolds
<1> QED BY <1>12, <1>13, <1>17, <1>18, <1>19, <1>20 DEF WorkInv

\* What moves only the letter and the stage leaves the page alone.
LEMMA LetterFrame ==
  ASSUME WorkInv, UNCHANGED <<invoice, shown, pageSync, projectTab, sheet, unsynced, overtook, rewound, cleared>>,
         work' \in Projects, work'.linked = work.linked, work'.stage = "proposal_sent" => work.stage = "proposal_sent",
         handover' \in Handovers, mailed' \in [sent : BOOLEAN, logged : BOOLEAN, cut : BOOLEAN], reopened' \in BOOLEAN,
         LetterGoes'
  PROVE  WorkInv'
<1>1. WorkTypeOK /\ SyncsAreWhole /\ MoneyIsTold /\ DeliveryIsTold /\ MoneyGateHolds BY DEF WorkInv
<1>2. WorkTypeOK' BY <1>1 DEF WorkTypeOK, Projects, Handovers
<1>3. SyncsAreWhole' BY <1>1 DEF SyncsAreWhole
<1>4. DeliveryIsTold' BY <1>1 DEF DeliveryIsTold, Awaits, Patches
<1>5. MoneyGateHolds' BY <1>1 DEF MoneyGateHolds
<1>6. MoneyIsTold' BY <1>1 DEF MoneyIsTold, TellsMoney, Awaits, Patches, DepositPaid
<1> QED BY <1>2, <1>3, <1>4, <1>5, <1>6 DEF WorkInv

LEMMA LetterKeeps ==
  ASSUME WorkInv, SendFinal \/ LogLetter \/ ReadStage \/ CloseProject \/ LetterCut PROVE WorkInv'
<1>1. WorkTypeOK /\ LetterGoes BY DEF WorkInv
<1>2. work \in Projects /\ handover \in Handovers /\ mailed \in [sent : BOOLEAN, logged : BOOLEAN, cut : BOOLEAN] /\ reopened \in BOOLEAN
  BY <1>1, WorkTyped DEF WorkTypeOK
<1> PICK p : p = "idle" OBVIOUS
<1> PICK idle : idle = [at |-> p, moved |-> FALSE] OBVIOUS
<1>3. idle \in Handovers /\ idle.at = "idle" /\ idle.moved = FALSE BY DEF Handovers
<1>4. CASE SendFinal
  <2>1. /\ handover.at = "idle" /\ handover' = [handover EXCEPT !.at = "sent"] /\ mailed' = [mailed EXCEPT !.sent = TRUE]
        /\ UNCHANGED <<work, invoice, shown, pageSync, projectTab, sheet, unsynced, overtook, rewound, cleared, reopened>>
    BY <1>4 DEF SendFinal, MailerSays, history
  <2>2. handover' \in Handovers /\ handover'.at = "sent" /\ mailed' \in [sent : BOOLEAN, logged : BOOLEAN, cut : BOOLEAN]
    BY <1>2, <2>1 DEF Handovers
  <2>3. LetterGoes' BY <1>1, <2>1, <2>2 DEF LetterGoes, HandOverHolds
  <2> QED BY <1>2, <2>1, <2>2, <2>3, LetterFrame
<1>5. CASE LogLetter
  <2>1. /\ handover.at = "sent" /\ handover' = [handover EXCEPT !.at = "logged"] /\ mailed' = [mailed EXCEPT !.logged = TRUE]
        /\ UNCHANGED <<work, invoice, shown, pageSync, projectTab, sheet, unsynced, overtook, rewound, cleared, reopened>>
    BY <1>5 DEF LogLetter, MailerSays, history
  <2>2. /\ handover' \in Handovers /\ handover'.at = "logged" /\ mailed' \in [sent : BOOLEAN, logged : BOOLEAN, cut : BOOLEAN]
        /\ mailed'.logged = TRUE BY <1>2, <2>1 DEF Handovers
  <2>3. LetterGoes' BY <1>1, <2>1, <2>2 DEF LetterGoes, HandOverHolds
  <2> QED BY <1>2, <2>1, <2>2, <2>3, LetterFrame
<1>6. CASE ReadStage
  <2> PICK at : at = IF PreDelivered(work.stage) THEN "close" ELSE "idle" OBVIOUS
  <2> PICK l : l = [at |-> at, moved |-> FALSE] OBVIOUS
  <2>1. /\ handover.at = "logged" /\ handover' = l
        /\ UNCHANGED <<work, invoice, shown, pageSync, projectTab, sheet, mailed, unsynced, overtook, rewound, cleared, reopened>>
    BY <1>6 DEF ReadStage, history
  <2>2. handover' \in Handovers /\ handover'.at = at /\ at # "sent" /\ (at = "close" => PreDelivered(work.stage))
    BY <2>1 DEF Handovers
  <2>3. LetterGoes' BY <1>1, <2>1, <2>2 DEF LetterGoes, HandOverHolds, PreDelivered
  <2> QED BY <1>2, <2>1, <2>2, <2>3, LetterFrame
<1>7. CASE CloseProject
  <2>1. /\ handover.at = "close" /\ work' = [work EXCEPT !.stage = "project_closed"] /\ handover' = idle
        /\ reopened' = (reopened \/ (work.stage = "archived" /\ ~handover.moved))
        /\ UNCHANGED <<invoice, shown, pageSync, projectTab, sheet, mailed, unsynced, overtook, rewound, cleared>>
    BY <1>7 DEF CloseProject
  <2>2. work' \in Projects /\ work'.linked = work.linked /\ work'.stage = "project_closed" BY <1>2, <2>1 DEF Projects, WorkStages
  <2>3. reopened' = FALSE BY <1>1, <1>2, <2>1 DEF LetterGoes, HandOverHolds, PreDelivered, Handovers
  <2>4. LetterGoes' BY <1>1, <1>3, <2>1, <2>3 DEF LetterGoes, HandOverHolds
  <2> QED BY <1>2, <1>3, <2>1, <2>2, <2>3, <2>4, LetterFrame
<1>8. CASE LetterCut
  <2>1. /\ handover.at # "idle" /\ handover' = idle /\ mailed' = [mailed EXCEPT !.cut = TRUE]
        /\ UNCHANGED <<work, invoice, shown, pageSync, projectTab, sheet, unsynced, overtook, rewound, cleared, reopened>>
    BY <1>8 DEF LetterCut, MailerSays, history
  <2>2. mailed' \in [sent : BOOLEAN, logged : BOOLEAN, cut : BOOLEAN] /\ mailed'.cut = TRUE BY <1>2, <2>1
  <2>3. LetterGoes' BY <1>1, <1>3, <2>1, <2>2 DEF LetterGoes, HandOverHolds
  <2> QED BY <1>2, <1>3, <2>1, <2>2, <2>3, LetterFrame
<1> QED BY <1>4, <1>5, <1>6, <1>7, <1>8

LEMMA WorkStep == ASSUME WorkInv, WorkNext PROVE WorkInv'
BY SendBillKeeps, BillPaidKeeps, PublishKeeps, SyncReadsKeeps, SyncPatchesKeeps, ProjectKeeps, LetterKeeps DEF WorkNext, Projects

LEMMA WorkRests == ASSUME WorkInv, UNCHANGED workVars PROVE WorkInv'
BY DEF WorkInv, workVars, WorkTypeOK, SyncsAreWhole, MoneyIsTold, TellsMoney, DeliveryIsTold, MoneyGateHolds, LetterGoes,
       HandOverHolds, Awaits, Patches, DepositPaid

\* What the invariant says of a page whose jobs are through.
LEMMA WorkMeans == ASSUME WorkInv PROVE WorkPagesHold
<1>1. WorkTypeOK /\ SyncsAreWhole /\ MoneyIsTold /\ DeliveryIsTold /\ MoneyGateHolds /\ LetterGoes BY DEF WorkInv
<1>2. \A what \in {"invoice", "gallery"} : Settled(what) => \A j \in PageSyncs : ~Awaits(j, what) /\ ~Patches(j, what)
  BY FreeSyncRow DEF Settled, Awaits, Patches
<1>3. Settled("invoice") /\ "invoice" \notin unsynced /\ ~overtook => TellsMoney BY <1>1, <1>2 DEF MoneyIsTold
<1>4. Settled("gallery") /\ "gallery" \notin unsynced /\ shown.live => sheet.delivered BY <1>1, <1>2 DEF DeliveryIsTold
<1>5. PageTellsTheMoney BY <1>1, <1>3, <1>4 DEF PageTellsTheMoney, TellsMoney, DepositPaid, DeliveryIsTold
<1> QED BY <1>1, <1>5 DEF WorkPagesHold, LetterGoes
(* BookingMirror: who holds each event of the calendar, and which project  *)
(* a booking has.                                                          *)

ApptIds   == Appts \cup {NoAppt}
EventIds  == GEvents \cup {NoEvent}
ApptRows  == [status : {"absent", "confirmed", "cancelled"}, of : ApptIds, event : EventIds, project : ApptIds]
GRows     == [appt : ApptIds, live : BOOLEAN]
Preparing == {"read", "drop", "dropped", "sync", "post"}   \* the event is still to come
Confirms  == Preparing \cup {"store", "load", "link", "make", "stamp"}
Cancels   == {"find", "delete", "forget"}
CallRows  == [at : {"idle"} \cup Confirms \cup Cancels, appt : ApptIds, event : EventIds]

\* A thread fits the row of the booking it works for.
Fits(c, r, isTorn) ==
  /\ c.at \in Confirms => r.status # "absent" /\ (r.status = "confirmed" \/ isTorn)
  /\ c.at \in Cancels => r.status = "cancelled"
  /\ c.at \in {"drop", "dropped"} => r.of \in Appts
  /\ c.at \in {"drop", "dropped", "sync"} => r.event = c.event \/ (r.status = "cancelled" /\ r.event = NoEvent)
  /\ c.at \in {"post", "store"} => r.event = NoEvent
  /\ c.at \in {"make", "stamp"} => r.project = NoAppt
  /\ c.at \in {"store", "delete"} => c.event \in GEvents
ThreadsFit ==
  \A t \in Callbacks :
    callback[t] = FreeThread \/ (/\ callback[t].appt \in Appts /\ callback[t].at # "idle"
                                 /\ Fits(callback[t], appt[callback[t].appt], callback[t].appt \in torn))

\* A booking is confirmed by one thread and cancelled by one.
Collide(c, d) ==
  c.appt = d.appt /\ ((c.at \in Confirms /\ d.at \in Confirms) \/ (c.at \in Cancels /\ d.at \in Cancels))
ThreadsApart == \A t, s \in Callbacks : Collide(callback[t], callback[s]) => t = s

AbsentAreBlank ==
  \A a \in Appts : appt[a].status = "absent" =>
    appt[a].of = NoAppt /\ appt[a].event = NoEvent /\ appt[a].project = NoAppt /\ a \notin shoots
OriginalsAreCancelled ==
  \A b \in Appts : appt[b].of \in Appts => appt[b].of # b /\ appt[appt[b].of].status = "cancelled"
OriginalsAreLeft ==
  \A b \in Appts, t \in Callbacks : appt[b].of \in Appts /\ callback[t].appt = appt[b].of =>
    appt[b].of \in torn /\ callback[t].at \notin Cancels

\* A project made is stamped, or about to be; a replacement of a booking that made
\* one has it.
Stamping(a)        == \E t \in Callbacks : callback[t].appt = a /\ callback[t].at = "stamp"
ProjectsAreStamped == \A a \in shoots : a \in torn \/ appt[a].project # NoAppt \/ Stamping(a)
HeirsInherit ==
  \A b \in Appts : appt[b].of \in shoots =>
    appt[b].of \in torn \/ (b \notin shoots /\ appt[b].project # NoAppt)

\* An event belongs to one booking, or to the thread about to store it.
EventsAreKnown ==
  \A e \in GEvents : gevent[e].appt = NoAppt =>
    (\A a \in Appts : appt[a].event # e) /\ (\A t \in Callbacks : callback[t].event # e)
EventsAreApart == \A a, b \in Appts : a # b /\ appt[a].event = appt[b].event => appt[a].event = NoEvent
StoresAreApart ==
  \A t \in Callbacks : callback[t].at = "store" =>
    /\ \A a \in Appts : appt[a].event # callback[t].event
    /\ \A s \in Callbacks : callback[s].at \in {"store", "delete"} /\ callback[s].event = callback[t].event => s = t
DeletesAreApart ==
  \A t \in Callbacks : callback[t].at = "delete" =>
    \A a \in Appts : appt[a].status = "confirmed" => appt[a].event # callback[t].event

\* A live event has someone to keep or to delete it.
Deleting(a, e) == \E t \in Callbacks : /\ callback[t].appt = a
                                       /\ callback[t].at = "find" \/ (callback[t].at = "delete" /\ callback[t].event = e)
Kept(e)        == \E a \in Appts : appt[a].event = e /\ (appt[a].status = "confirmed" \/ Deleting(a, e))
Storing(e)     == \E t \in Callbacks : callback[t].at = "store" /\ callback[t].event = e /\ callback[t].appt = gevent[e].appt
EventsAreHeld  == \A e \in GEvents \ loose : gevent[e].live => gevent[e].appt \in torn \/ Kept(e) \/ Storing(e)

\* A confirmed booking has its event, or a thread to make it.
Showing(a) == \E t \in Callbacks :
  /\ callback[t].appt = a
  /\ callback[t].at \in Preparing \/ (callback[t].at = "store" /\ gevent[callback[t].event].live)
IsShown(a)   == appt[a].event \in GEvents /\ gevent[appt[a].event].live
BookingsAreShown == \A a \in Appts \ missed : appt[a].status = "confirmed" => IsShown(a) \/ Showing(a)

MirrorInv ==
  /\ MirrorTypeOK /\ ThreadsFit /\ ThreadsApart
  /\ AbsentAreBlank /\ OriginalsAreCancelled /\ OriginalsAreLeft
  /\ ProjectsAreStamped /\ HeirsInherit
  /\ EventsAreKnown /\ EventsAreApart /\ StoresAreApart /\ DeletesAreApart
  /\ EventsAreHeld /\ BookingsAreShown

LEMMA MirrorTyped ==
  /\ MirrorTypeOK <=> /\ appt \in [Appts -> ApptRows] /\ gevent \in [GEvents -> GRows] /\ callback \in [Callbacks -> CallRows]
                      /\ torn \subseteq Appts /\ loose \subseteq GEvents /\ missed \subseteq Appts /\ shoots \subseteq Appts
  /\ NoAppt \notin Appts /\ NoEvent \notin GEvents
<1>1. CallRows = [at : {"idle", "read", "drop", "dropped", "sync", "post", "store", "load", "link", "make",
              "stamp", "find", "delete", "forget"},
        appt : Appts \cup {NoAppt}, event : GEvents \cup {NoEvent}]
  BY DEF CallRows, Confirms, Preparing, Cancels, ApptIds, EventIds
<1> QED BY <1>1, BookingMirrorAssumption DEF MirrorTypeOK, ApptRows, GRows, ApptIds, EventIds

LEMMA FreeMirrorRow ==
  /\ FreeThread \in CallRows /\ FreeThread.at = "idle" /\ FreeThread.appt = NoAppt /\ FreeThread.event = NoEvent
  /\ "idle" \notin Confirms /\ "idle" \notin Cancels
BY DEF FreeThread, CallRows, Confirms, Preparing, Cancels, ApptIds, EventIds

LEMMA MirrorInitially == ASSUME MirrorInit PROVE MirrorInv
<1> PICK blank : blank = [status |-> "absent", of |-> NoAppt, event |-> NoEvent, project |-> NoAppt] OBVIOUS
<1> PICK unmade : unmade = [appt |-> NoAppt, live |-> FALSE] OBVIOUS
<1>1. /\ appt = [a \in Appts |-> blank] /\ gevent = [e \in GEvents |-> unmade]
      /\ callback = [t \in Callbacks |-> FreeThread]
      /\ torn = {} /\ loose = {} /\ missed = {} /\ shoots = {} BY DEF MirrorInit
<1>2. blank \in ApptRows /\ blank.status = "absent" /\ blank.of = NoAppt /\ blank.event = NoEvent /\ blank.project = NoAppt
  BY DEF ApptRows, ApptIds, EventIds
<1>3. unmade \in GRows /\ ~unmade.live BY DEF GRows, ApptIds
<1>4. /\ \A a \in Appts : appt[a] = blank
      /\ \A e \in GEvents : gevent[e] = unmade
      /\ \A t \in Callbacks : callback[t] = FreeThread BY <1>1
<1>5. MirrorTypeOK BY <1>1, <1>2, <1>3, FreeMirrorRow, MirrorTyped
<1>6. ThreadsFit /\ ThreadsApart BY <1>4, FreeMirrorRow DEF ThreadsFit, ThreadsApart, Collide
<1>7. AbsentAreBlank /\ OriginalsAreCancelled /\ OriginalsAreLeft /\ ProjectsAreStamped /\ HeirsInherit
  BY <1>1, <1>2, <1>4, MirrorTyped DEF AbsentAreBlank, OriginalsAreCancelled, OriginalsAreLeft, ProjectsAreStamped, HeirsInherit
<1>8. EventsAreKnown /\ EventsAreApart /\ StoresAreApart /\ DeletesAreApart /\ EventsAreHeld /\ BookingsAreShown
  BY <1>2, <1>3, <1>4, FreeMirrorRow, MirrorTyped
  DEF EventsAreKnown, EventsAreApart, StoresAreApart, DeletesAreApart, EventsAreHeld, BookingsAreShown
<1> QED BY <1>5, <1>6, <1>7, <1>8 DEF MirrorInv

LEMMA MirrorMeans == ASSUME MirrorInv PROVE MirrorTypeOK /\ NoGhostEvent /\ OneProjectPerBooking
<1>1. MirrorTypeOK /\ EventsAreHeld /\ BookingsAreShown /\ HeirsInherit BY DEF MirrorInv
<1>2. NoGhostEvent
  <2> SUFFICES ASSUME Quiet PROVE
         /\ \A e \in GEvents \ loose : gevent[e].live =>
              gevent[e].appt \in torn \/ \E a \in Appts : appt[a].status = "confirmed" /\ appt[a].event = e
         /\ \A a \in Appts \ missed : appt[a].status = "confirmed" =>
              appt[a].event # NoEvent /\ gevent[appt[a].event].live BY DEF NoGhostEvent
  <2>1. \A t \in Callbacks : callback[t].at = "idle" BY FreeMirrorRow DEF Quiet
  <2>2. \A a, e : ~Deleting(a, e) /\ ~Storing(e) /\ ~Showing(a) BY <2>1 DEF Deleting, Storing, Showing, Preparing
  <2> QED BY <1>1, <2>2, MirrorTyped DEF EventsAreHeld, BookingsAreShown, Kept, IsShown
<1>3. OneProjectPerBooking
  <2> SUFFICES ASSUME NEW a \in shoots, NEW b \in shoots, appt[b].of = a PROVE a \in torn BY DEF OneProjectPerBooking
  <2> QED BY <1>1, MirrorTyped DEF HeirsInherit
<1> QED BY <1>1, <1>2, <1>3

LEMMA MirrorParts ==
  ASSUME MirrorInv
  PROVE  /\ MirrorTypeOK /\ ThreadsFit /\ ThreadsApart
         /\ AbsentAreBlank /\ OriginalsAreCancelled /\ OriginalsAreLeft
         /\ ProjectsAreStamped /\ HeirsInherit
         /\ EventsAreKnown /\ EventsAreApart /\ StoresAreApart /\ DeletesAreApart
         /\ EventsAreHeld /\ BookingsAreShown
         /\ appt \in [Appts -> ApptRows] /\ gevent \in [GEvents -> GRows] /\ callback \in [Callbacks -> CallRows]
         /\ torn \subseteq Appts /\ loose \subseteq GEvents /\ missed \subseteq Appts /\ shoots \subseteq Appts
BY MirrorTyped DEF MirrorInv

\* One thread goes on, or stops, and the bookings stay as they are.
LEMMA ThreadGoesOn ==
  ASSUME MirrorInv, NEW t \in Callbacks, NEW c, NEW d \in CallRows, c = callback[t],
         callback' = [callback EXCEPT ![t] = d], UNCHANGED appt,
         shoots' = shoots \/ (shoots' = shoots \cup {c.appt} /\ c.at = "make" /\ d.at = "stamp" /\ d.appt = c.appt),
         gevent' \in [GEvents -> GRows], torn' \subseteq Appts, loose' \subseteq GEvents, missed' \subseteq Appts,
         torn \subseteq torn', loose \subseteq loose', missed \subseteq missed',
         \A e \in GEvents : gevent'[e].appt = gevent[e].appt /\ (gevent'[e].live => gevent[e].live),
         c.appt \in Appts,
         d = FreeThread \/ (d.appt = c.appt /\ d.at # "idle" /\ Fits(d, appt[d.appt], d.appt \in torn)),
         d.at \in Confirms => c.at \in Confirms, d.at \in Cancels => c.at \in Cancels,
         d.at # "store", d.at = "delete" => d.event = appt[d.appt].event,
         d.event \in {NoEvent, c.event, appt[c.appt].event},
         c.at = "stamp" => c.appt \in torn',
         \A e \in GEvents \ loose' :
            gevent'[e].live /\ appt[c.appt].event = e /\ (c.at = "find" \/ (c.at = "delete" /\ c.event = e))
               => d.at = "delete" /\ d.event = e /\ d.appt = c.appt,
         c.at = "store" => c.event \in loose',
         c.appt \notin missed' /\ appt[c.appt].status = "confirmed" /\ c.at \in Preparing \cup {"store"} =>
            (d.appt = c.appt /\ d.at \in Preparing) \/ (appt[c.appt].event \in GEvents /\ gevent'[appt[c.appt].event].live),
         \A e \in GEvents : gevent[e].live /\ ~gevent'[e].live =>
            /\ \A a \in Appts \ missed' : appt[a].status = "confirmed" => appt[a].event # e
            /\ \A s \in Callbacks : callback[s].at = "store" /\ callback[s].event = e => callback[s].appt \in missed'
  PROVE  MirrorInv'
<1>1. /\ callback' \in [Callbacks -> CallRows] /\ callback'[t] = d
      /\ \A s \in Callbacks : s # t => callback'[s] = callback[s] BY MirrorParts
<1>2. MirrorTypeOK' BY <1>1, MirrorParts DEF MirrorTypeOK, ApptRows, GRows, CallRows, ApptIds, EventIds, Confirms, Preparing, Cancels
<1>3. ThreadsFit'
  <2> SUFFICES ASSUME NEW s \in Callbacks, callback'[s] # FreeThread
      PROVE  /\ callback'[s].appt \in Appts /\ callback'[s].at # "idle"
             /\ Fits(callback'[s], appt'[callback'[s].appt], callback'[s].appt \in torn') BY DEF ThreadsFit
  <2>1. CASE s = t BY <1>1, <2>1 DEF Fits
  <2>2. CASE s # t
    <3>1. callback'[s] = callback[s] BY <1>1, <2>2
    <3>2. /\ callback[s].appt \in Appts /\ callback[s].at # "idle"
          /\ Fits(callback[s], appt[callback[s].appt], callback[s].appt \in torn) BY <3>1, MirrorParts DEF ThreadsFit
    <3> QED BY <3>1, <3>2 DEF Fits
  <2> QED BY <2>1, <2>2
<1>4. ThreadsApart'
  <2> SUFFICES ASSUME NEW s \in Callbacks, NEW u \in Callbacks, Collide(callback'[s], callback'[u]) PROVE s = u
    BY DEF ThreadsApart
  <2>1. Collide(callback[s], callback[u]) BY <1>1, FreeMirrorRow DEF Collide
  <2> QED BY <2>1, MirrorParts DEF ThreadsApart
<1>14. shoots' # shoots => Fits(c, appt[c.appt], c.appt \in torn) BY MirrorParts, FreeMirrorRow DEF ThreadsFit
<1>15. shoots' # shoots => /\ appt[c.appt].status # "absent" /\ appt[c.appt].project = NoAppt
                           /\ \A b \in Appts : appt[b].of = c.appt => c.appt \in torn
  BY <1>14, MirrorParts DEF Fits, Confirms, OriginalsAreLeft
<1>16. AbsentAreBlank' BY <1>15, MirrorParts DEF AbsentAreBlank
<1>17. HeirsInherit' BY <1>15, MirrorParts DEF HeirsInherit
<1>5. AbsentAreBlank' /\ OriginalsAreCancelled' /\ HeirsInherit'
  BY <1>16, <1>17, MirrorParts DEF OriginalsAreCancelled
<1>6. OriginalsAreLeft'
  <2> SUFFICES ASSUME NEW b \in Appts, NEW s \in Callbacks, appt[b].of \in Appts, callback'[s].appt = appt[b].of
      PROVE  appt[b].of \in torn' /\ callback'[s].at \notin Cancels BY DEF OriginalsAreLeft
  <2>1. callback[s].appt = appt[b].of BY <1>1, FreeMirrorRow, MirrorTyped
  <2>2. appt[b].of \in torn /\ callback[s].at \notin Cancels BY <2>1, MirrorParts DEF OriginalsAreLeft
  <2> QED BY <1>1, <2>2
<1>7. ProjectsAreStamped'
  <2> SUFFICES ASSUME NEW a \in shoots', a \notin torn', appt[a].project = NoAppt PROVE Stamping(a)'
    BY DEF ProjectsAreStamped
  <2>3. CASE a \notin shoots BY <1>1, <2>3 DEF Stamping
  <2> SUFFICES ASSUME a \in shoots PROVE Stamping(a)' BY <2>3
  <2>1. PICK s \in Callbacks : callback[s].appt = a /\ callback[s].at = "stamp" BY MirrorParts DEF ProjectsAreStamped, Stamping
  <2>2. s # t BY <2>1
  <2> QED BY <1>1, <2>1, <2>2 DEF Stamping
<1>8. EventsAreKnown' BY <1>1, MirrorParts, MirrorTyped DEF EventsAreKnown
<1>9. EventsAreApart' BY MirrorParts DEF EventsAreApart
<1>10. StoresAreApart'
  <2> SUFFICES ASSUME NEW s \in Callbacks, callback'[s].at = "store"
      PROVE  /\ \A a \in Appts : appt[a].event # callback'[s].event
             /\ \A u \in Callbacks : callback'[u].at \in {"store", "delete"} /\ callback'[u].event = callback'[s].event => u = s
    BY DEF StoresAreApart
  <2>1. s # t /\ callback'[s] = callback[s] BY <1>1
  <2>2. /\ \A a \in Appts : appt[a].event # callback[s].event
        /\ \A u \in Callbacks : callback[u].at \in {"store", "delete"} /\ callback[u].event = callback[s].event => u = s
    BY <2>1, MirrorParts DEF StoresAreApart
  <2>3. d.at # "delete" \/ d.event # callback[s].event BY <2>2, FreeMirrorRow
  <2> QED BY <1>1, <2>1, <2>2, <2>3
<1>11. DeletesAreApart'
  <2> SUFFICES ASSUME NEW s \in Callbacks, callback'[s].at = "delete", NEW a \in Appts, appt[a].status = "confirmed"
      PROVE  appt[a].event # callback'[s].event BY DEF DeletesAreApart
  <2>1. CASE s # t BY <1>1, <2>1, MirrorParts DEF DeletesAreApart
  <2>2. CASE s = t
    <3>1. d.appt = c.appt /\ d.event = appt[d.appt].event /\ d.event \in GEvents /\ appt[d.appt].status = "cancelled"
      BY <1>1, <2>2, FreeMirrorRow DEF Fits, Cancels
    <3> QED BY <1>1, <2>2, <3>1, MirrorParts, MirrorTyped DEF EventsAreApart
  <2> QED BY <2>1, <2>2
<1>12. EventsAreHeld'
  <2> SUFFICES ASSUME NEW e \in GEvents \ loose', gevent'[e].live, gevent'[e].appt \notin torn'
      PROVE  Kept(e)' \/ Storing(e)' BY DEF EventsAreHeld
  <2>1. Kept(e) \/ Storing(e) BY MirrorParts DEF EventsAreHeld
  <2>2. CASE Kept(e)
    <3>1. PICK a \in Appts : appt[a].event = e /\ (appt[a].status = "confirmed" \/ Deleting(a, e)) BY <2>2 DEF Kept
    <3>2. CASE appt[a].status = "confirmed" BY <3>1, <3>2 DEF Kept
    <3>3. CASE Deleting(a, e)
      <4>1. PICK s \in Callbacks : callback[s].appt = a /\ (callback[s].at = "find" \/ (callback[s].at = "delete" /\ callback[s].event = e))
        BY <3>3 DEF Deleting
      <4>2. /\ callback'[s].appt = a
            /\ callback'[s].at = "find" \/ (callback'[s].at = "delete" /\ callback'[s].event = e) BY <1>1, <3>1, <4>1
      <4>3. Deleting(a, e)' BY <4>2 DEF Deleting
      <4> QED BY <3>1, <4>3 DEF Kept
    <3> QED BY <3>1, <3>2, <3>3
  <2>3. CASE Storing(e)
    <3>1. PICK s \in Callbacks : callback[s].at = "store" /\ callback[s].event = e /\ callback[s].appt = gevent[e].appt
      BY <2>3 DEF Storing
    <3> QED BY <1>1, <3>1 DEF Storing
  <2> QED BY <2>1, <2>2, <2>3
<1>13. BookingsAreShown'
  <2> SUFFICES ASSUME NEW a \in Appts \ missed', appt[a].status = "confirmed" PROVE IsShown(a)' \/ Showing(a)'
    BY DEF BookingsAreShown
  <2>1. IsShown(a) \/ Showing(a) BY MirrorParts DEF BookingsAreShown
  <2>2. CASE IsShown(a) BY <2>2 DEF IsShown
  <2>3. CASE Showing(a)
    <3>1. PICK s \in Callbacks : /\ callback[s].appt = a
                                 /\ callback[s].at \in Preparing \/ (callback[s].at = "store" /\ gevent[callback[s].event].live)
      BY <2>3 DEF Showing
    <3>2. CASE s = t
      <4>1. (d.appt = c.appt /\ d.at \in Preparing) \/ (appt[c.appt].event \in GEvents /\ gevent'[appt[c.appt].event].live)
        BY <3>1, <3>2
      <4> QED BY <1>1, <3>1, <3>2, <4>1 DEF Showing, IsShown
    <3>3. CASE s # t
      <4>1. callback'[s] = callback[s] BY <1>1, <3>3
      <4>2. CASE callback[s].at \in Preparing BY <3>1, <4>1, <4>2 DEF Showing
      <4>3. CASE callback[s].at = "store" /\ gevent[callback[s].event].live
        <5>1. callback[s].event \in GEvents BY <4>3, MirrorParts, FreeMirrorRow DEF ThreadsFit, Fits
        <5>2. gevent'[callback[s].event].live BY <3>1, <4>3, <5>1
        <5> QED BY <3>1, <4>1, <4>3, <5>2 DEF Showing
      <4> QED BY <3>1, <4>2, <4>3
    <3> QED BY <3>2, <3>3
  <2> QED BY <2>1, <2>2, <2>3
<1> QED BY <1>2, <1>3, <1>4, <1>5, <1>6, <1>7, <1>8, <1>9, <1>10, <1>11, <1>12, <1>13 DEF MirrorInv

\* The rows the ways to go on give a thread.
LEMMA GoesRow ==
  ASSUME callback \in [Callbacks -> CallRows], NEW t \in Callbacks, NEW at \in Confirms \cup Cancels, Goes(t, at)
  PROVE  \E d \in CallRows : /\ callback' = [callback EXCEPT ![t] = d]
                             /\ d.at = at /\ d.appt = callback[t].appt /\ d.event = callback[t].event
<1> PICK d : d = [callback[t] EXCEPT !.at = at] OBVIOUS
<1>1. callback' = [callback EXCEPT ![t] = d] BY DEF Goes
<1>2. d \in CallRows /\ d.at = at /\ d.appt = callback[t].appt /\ d.event = callback[t].event BY DEF CallRows
<1> QED BY <1>1, <1>2

LEMMA GoesWithRow ==
  ASSUME callback \in [Callbacks -> CallRows], NEW t \in Callbacks, NEW at \in Confirms \cup Cancels,
         NEW e \in EventIds, GoesWith(t, at, e)
  PROVE  \E d \in CallRows : /\ callback' = [callback EXCEPT ![t] = d]
                             /\ d.at = at /\ d.appt = callback[t].appt /\ d.event = e
<1> PICK d : d = [callback[t] EXCEPT !.at = at, !.event = e] OBVIOUS
<1>1. callback' = [callback EXCEPT ![t] = d] BY DEF GoesWith
<1>2. d \in CallRows /\ d.at = at /\ d.appt = callback[t].appt /\ d.event = e BY DEF CallRows
<1> QED BY <1>1, <1>2

LEMMA StopsRow ==
  ASSUME NEW t \in Callbacks, Stops(t)
  PROVE  \E d \in CallRows : callback' = [callback EXCEPT ![t] = d] /\ d = FreeThread
BY FreeMirrorRow DEF Stops

LEMMA StartsRow ==
  ASSUME NEW t \in Callbacks, NEW at \in Confirms \cup Cancels, NEW a \in Appts, Starts(t, at, a)
  PROVE  \E d \in CallRows : callback' = [callback EXCEPT ![t] = d] /\ d.at = at /\ d.appt = a /\ d.event = NoEvent
<1> PICK d : d = [at |-> at, appt |-> a, event |-> NoEvent] OBVIOUS
<1>1. callback' = [callback EXCEPT ![t] = d] BY DEF Starts
<1>2. d \in CallRows /\ d.at = at /\ d.appt = a /\ d.event = NoEvent BY DEF CallRows, ApptIds, EventIds
<1> QED BY <1>1, <1>2

\* An event whose deletion was asked for is gone, or known to be loose.
LEMMA DeletedIsGone ==
  ASSUME MirrorInv, NEW e \in GEvents, Deletes(e)
  PROVE  /\ gevent' \in [GEvents -> GRows] /\ loose \subseteq loose' /\ loose' \subseteq GEvents
         /\ \A f \in GEvents : gevent'[f].appt = gevent[f].appt /\ (gevent'[f].live => gevent[f].live)
         /\ \A f \in GEvents : gevent[f].live /\ ~gevent'[f].live => f = e
         /\ e \in loose' \/ ~gevent'[e].live
<1>1. gevent \in [GEvents -> GRows] /\ loose \subseteq GEvents BY MirrorParts
<1>2. CASE gevent' = [gevent EXCEPT ![e].live = FALSE] /\ loose' = loose
  <2> PICK g : g = [gevent[e] EXCEPT !.live = FALSE] OBVIOUS
  <2>1. gevent' = [gevent EXCEPT ![e] = g] BY <1>2
  <2>2. g \in GRows /\ g.appt = gevent[e].appt /\ ~g.live BY <1>1 DEF GRows
  <2>3. gevent'[e] = g /\ \A f \in GEvents : f # e => gevent'[f] = gevent[f] BY <1>1, <2>1
  <2> QED BY <1>1, <1>2, <2>1, <2>2, <2>3
<1>3. CASE loose' = loose \cup {e} /\ gevent' = gevent BY <1>1, <1>3
<1> QED BY <1>2, <1>3 DEF Deletes

\* The row of a thread that is at work.
LEMMA AtWorkRow ==
  ASSUME MirrorInv, NEW t \in Callbacks, callback[t].at # "idle" \/ callback[t] # FreeThread
  PROVE  /\ callback[t] \in CallRows /\ callback[t].appt \in Appts /\ callback[t].at # "idle"
         /\ Fits(callback[t], appt[callback[t].appt], callback[t].appt \in torn)
         /\ appt[callback[t].appt] \in ApptRows
BY MirrorParts, FreeMirrorRow DEF ThreadsFit

LEMMA ReadConfirmedKeeps == ASSUME MirrorInv, NEW t \in Callbacks, ReadConfirmed(t) PROVE MirrorInv'
<1> PICK c : c = callback[t] OBVIOUS
<1> PICK r : r = appt[c.appt] OBVIOUS
<1>1. c.at = "read" /\ UNCHANGED <<appt, gevent, torn, loose, missed, shoots>> BY DEF ReadConfirmed
<1>2. c \in CallRows /\ c.appt \in Appts /\ Fits(c, r, c.appt \in torn) /\ r \in ApptRows BY <1>1, AtWorkRow
<1>3. \E d \in CallRows : /\ callback' = [callback EXCEPT ![t] = d] /\ d.appt = c.appt
                          /\ \/ r.status # "confirmed" /\ d.at = "load" /\ d.event = c.event
                             \/ r.status = "confirmed" /\ d.at \in {"sync", "drop"} /\ d.event = r.event
                                /\ (d.at = "drop" => r.of # NoAppt)
  <2>1. CASE r.status # "confirmed"
    <3>1. Goes(t, "load") BY <2>1 DEF ReadConfirmed
    <3>2. PICK at : at = "load" OBVIOUS
    <3>3. at \in Confirms \cup Cancels /\ Goes(t, at) BY <3>1, <3>2 DEF Confirms
    <3> QED BY <2>1, <3>2, <3>3, GoesRow, MirrorParts
  <2>2. CASE r.status = "confirmed"
    <3>1. PICK at : at = IF r.of = NoAppt THEN "sync" ELSE "drop" OBVIOUS
    <3>2. GoesWith(t, at, r.event) BY <2>2, <3>1 DEF ReadConfirmed
    <3>3. at \in Confirms \cup Cancels /\ at \in {"sync", "drop"} /\ (at = "drop" => r.of # NoAppt) BY <3>1 DEF Confirms, Preparing
    <3>4. r.event \in EventIds BY <1>2 DEF ApptRows
    <3> QED BY <2>2, <3>2, <3>3, <3>4, GoesWithRow, MirrorParts
  <2> QED BY <2>1, <2>2
<1>4. PICK d \in CallRows : /\ callback' = [callback EXCEPT ![t] = d] /\ d.appt = c.appt
                            /\ \/ r.status # "confirmed" /\ d.at = "load" /\ d.event = c.event
                               \/ r.status = "confirmed" /\ d.at \in {"sync", "drop"} /\ d.event = r.event
                                  /\ (d.at = "drop" => r.of # NoAppt) BY <1>3
<1>5. d.at # "idle" /\ Fits(d, appt[d.appt], d.appt \in torn)
  BY <1>1, <1>2, <1>4 DEF Fits, ApptRows, ApptIds, Confirms, Preparing, Cancels
<1>6. /\ d.at \in Confirms /\ c.at \in Confirms /\ d.at \notin Cancels
      /\ r.status = "confirmed" => d.at \in Preparing BY <1>1, <1>4 DEF Confirms, Preparing, Cancels
<1>7. appt' = appt /\ shoots' = shoots /\ gevent' = gevent /\ torn' = torn /\ loose' = loose /\ missed' = missed BY <1>1
<1>8. d.at # "store" /\ d.at # "delete" /\ d.at # "stamp" BY <1>4
<1> QED BY <1>1, <1>2, <1>4, <1>5, <1>6, <1>7, <1>8, ThreadGoesOn, MirrorParts

\* One thread goes on to the place named, and nothing else changes.
LEMMA GoesOnAlone ==
  ASSUME MirrorInv, NEW t \in Callbacks, NEW c, c = callback[t], NEW at \in Confirms \cup Cancels, Goes(t, at),
         UNCHANGED <<appt, gevent, torn, shoots>>,
         loose \subseteq loose', loose' \subseteq GEvents, missed \subseteq missed', missed' \subseteq Appts,
         c.appt \in Appts, c.at \in Confirms, at \in Confirms, c.at \notin {"store", "stamp"},
         at \notin {"drop", "dropped", "store", "stamp"},
         at \in {"make"} => appt[c.appt].project = NoAppt,
         at \in {"sync"} => c.at \in {"drop", "dropped"}, at = "post" => appt[c.appt].event = NoEvent,
         at # "read",
         c.appt \notin missed' /\ appt[c.appt].status = "confirmed" /\ c.at \in Preparing =>
            at \in Preparing \/ (appt[c.appt].event \in GEvents /\ gevent[appt[c.appt].event].live)
  PROVE  MirrorInv'
<1>1. c \in CallRows /\ c.at # "idle" /\ Fits(c, appt[c.appt], c.appt \in torn) /\ appt[c.appt] \in ApptRows
  BY AtWorkRow, FreeMirrorRow
<1>2. PICK d \in CallRows : /\ callback' = [callback EXCEPT ![t] = d]
                            /\ d.at = at /\ d.appt = c.appt /\ d.event = c.event BY GoesRow, MirrorParts
<1>3. /\ c.at \notin Cancels /\ at \notin Cancels /\ at # "idle" /\ at # "delete" BY DEF Confirms, Preparing, Cancels
<1>4. Fits(d, appt[d.appt], d.appt \in torn) BY <1>1, <1>2, <1>3 DEF Fits
<1>5. appt' = appt /\ shoots' = shoots /\ gevent' = gevent /\ torn' = torn OBVIOUS
<1>6. c.at \notin {"find", "delete"} BY <1>3 DEF Cancels
<1> QED BY <1>1, <1>2, <1>3, <1>4, <1>5, <1>6, ThreadGoesOn, MirrorParts

LEMMA LoadAgainKeeps == ASSUME MirrorInv, NEW t \in Callbacks, LoadAgain(t) PROVE MirrorInv'
<1> PICK c : c = callback[t] OBVIOUS
<1>1. c.at = "load" /\ UNCHANGED <<appt, gevent, torn, loose, missed, shoots>> BY DEF LoadAgain
<1>2. /\ c \in CallRows /\ c.appt \in Appts /\ c.at \in Confirms /\ c.at \notin Preparing \cup Cancels
      /\ loose' = loose /\ missed' = missed /\ torn' = torn /\ gevent' = gevent
  BY <1>1, AtWorkRow DEF Confirms, Preparing, Cancels
<1>3. CASE Goes(t, "link")
  <2>1. PICK at : at = "link" OBVIOUS
  <2>2. at \in Confirms \cup Cancels /\ at \in Confirms /\ Goes(t, at) /\ at \notin Preparing BY <1>3, <2>1 DEF Confirms, Preparing
  <2> QED BY <1>1, <1>2, <2>1, <2>2, GoesOnAlone, MirrorParts
<1>4. CASE Stops(t)
  <2>1. PICK d \in CallRows : callback' = [callback EXCEPT ![t] = d] /\ d = FreeThread BY <1>4, StopsRow
  <2>2. c.at \notin {"find", "delete", "stamp", "store"} BY <1>1
  <2> QED BY <1>1, <1>2, <2>1, <2>2, FreeMirrorRow, ThreadGoesOn, MirrorParts
<1> QED BY <1>3, <1>4 DEF LoadAgain

\* What is stopped early has lost nothing but what torn, loose and missed tell.
LEMMA CallbackDiesKeeps == ASSUME MirrorInv, NEW t \in Callbacks, CallbackDies(t) PROVE MirrorInv'
<1> PICK c : c = callback[t] OBVIOUS
<1> PICK r : r = appt[c.appt] OBVIOUS
<1>1. /\ c \in CallRows /\ c.appt \in Appts /\ r \in ApptRows /\ c.at # "idle"
      /\ Fits(c, r, c.appt \in torn) BY AtWorkRow DEF CallbackDies
<1>2. /\ torn' = torn \cup {c.appt} /\ loose' = loose \cup ({c.event, r.event} \ {NoEvent})
      /\ missed' = missed \cup {c.appt} /\ Stops(t) /\ UNCHANGED <<appt, gevent, shoots>> BY DEF CallbackDies
<1>3. PICK d \in CallRows : callback' = [callback EXCEPT ![t] = d] /\ d = FreeThread BY <1>2, StopsRow
<1>4. c.event \in EventIds /\ r.event \in EventIds BY <1>1 DEF CallRows, ApptRows
<1>5. /\ torn' \subseteq Appts /\ loose' \subseteq GEvents /\ missed' \subseteq Appts /\ gevent' \in [GEvents -> GRows]
      /\ torn \subseteq torn' /\ loose \subseteq loose' /\ missed \subseteq missed' /\ c.appt \in torn' /\ c.appt \in missed'
  BY <1>1, <1>2, <1>4, MirrorParts DEF EventIds
<1>6. c.at = "store" => c.event \in loose' BY <1>1, <1>2, MirrorTyped DEF Fits
<1>7. \A e \in GEvents \ loose' : r.event # e BY <1>2, MirrorTyped
<1>8. gevent' = gevent /\ UNCHANGED <<appt, shoots>> BY <1>2
<1> QED BY <1>1, <1>3, <1>5, <1>6, <1>7, <1>8, FreeMirrorRow, ThreadGoesOn

LEMMA FindEventKeeps == ASSUME MirrorInv, NEW t \in Callbacks, FindEvent(t) PROVE MirrorInv'
<1> PICK c : c = callback[t] OBVIOUS
<1> PICK r : r = appt[c.appt] OBVIOUS
<1>1. c.at = "find" /\ UNCHANGED <<appt, gevent, torn, loose, missed, shoots>> BY DEF FindEvent
<1>2. /\ c \in CallRows /\ c.appt \in Appts /\ c.at \in Cancels /\ c.at \notin Confirms /\ c.at \notin Preparing
      /\ loose' = loose /\ missed' = missed /\ torn' = torn /\ gevent' = gevent
      /\ Fits(c, r, c.appt \in torn) /\ r \in ApptRows BY <1>1, AtWorkRow DEF Confirms, Preparing, Cancels
<1>3. c.at \notin {"delete", "stamp", "store"} BY <1>1
<1>4. CASE r.event = NoEvent
  <2>1. PICK d \in CallRows : callback' = [callback EXCEPT ![t] = d] /\ d = FreeThread BY <1>4, StopsRow DEF FindEvent
  <2>2. \A e \in GEvents : appt[c.appt].event # e BY <1>4, MirrorTyped
  <2>3. /\ d.at = "idle" /\ d.event = NoEvent /\ d.at \notin Confirms /\ d.at \notin Cancels
        /\ d.at # "store" /\ d.at # "stamp" /\ d.at # "delete" BY <2>1, FreeMirrorRow
  <2> QED BY <1>1, <1>2, <1>3, <2>1, <2>2, <2>3, ThreadGoesOn, MirrorParts
<1>5. CASE r.event # NoEvent
  <2>1. PICK at : at = "delete" OBVIOUS
  <2>2. at \in Confirms \cup Cancels /\ GoesWith(t, at, r.event) /\ r.event \in EventIds /\ r.event \in GEvents
        /\ at \in Cancels /\ at \notin Confirms /\ at \notin Preparing
    BY <1>2, <1>5, <2>1 DEF FindEvent, Cancels, Confirms, Preparing, ApptRows, EventIds
  <2>3. PICK d \in CallRows : /\ callback' = [callback EXCEPT ![t] = d]
                              /\ d.at = at /\ d.appt = c.appt /\ d.event = r.event BY <2>2, GoesWithRow, MirrorParts
  <2>4. Fits(d, appt[d.appt], d.appt \in torn) BY <1>2, <2>1, <2>2, <2>3 DEF Fits
  <2> QED BY <1>1, <1>2, <1>3, <2>1, <2>2, <2>3, <2>4, ThreadGoesOn, MirrorParts
<1> QED BY <1>4, <1>5

LEMMA DeleteEventKeeps == ASSUME MirrorInv, NEW t \in Callbacks, DeleteEvent(t) PROVE MirrorInv'
<1> PICK c : c = callback[t] OBVIOUS
<1>1. c.at = "delete" /\ UNCHANGED <<appt, torn, missed, shoots>> /\ Deletes(c.event) BY DEF DeleteEvent
<1>2. /\ c \in CallRows /\ c.appt \in Appts /\ c.at \in Cancels /\ c.at \notin Confirms /\ c.at \notin Preparing
      /\ missed' = missed /\ torn' = torn /\ appt[c.appt] \in ApptRows
      /\ Fits(c, appt[c.appt], c.appt \in torn) BY <1>1, AtWorkRow DEF Confirms, Preparing, Cancels
<1>3. c.event \in GEvents BY <1>1, <1>2 DEF Fits
<1>4. PICK at : at = "forget" OBVIOUS
<1>5. at \in Confirms \cup Cancels /\ Goes(t, at) /\ at \in Cancels /\ at \notin Confirms
  BY <1>4 DEF DeleteEvent, Confirms, Cancels, Preparing
<1>6. PICK d \in CallRows : /\ callback' = [callback EXCEPT ![t] = d]
                            /\ d.at = at /\ d.appt = c.appt /\ d.event = c.event BY <1>5, GoesRow, MirrorParts
<1>7. Fits(d, appt[d.appt], d.appt \in torn) /\ d.at # "idle" BY <1>2, <1>4, <1>5, <1>6 DEF Fits
<1>8. /\ gevent' \in [GEvents -> GRows] /\ loose \subseteq loose' /\ loose' \subseteq GEvents
      /\ \A f \in GEvents : gevent'[f].appt = gevent[f].appt /\ (gevent'[f].live => gevent[f].live)
      /\ \A f \in GEvents : gevent[f].live /\ ~gevent'[f].live => f = c.event
      /\ c.event \in loose' \/ ~gevent'[c.event].live BY <1>1, <1>3, DeletedIsGone
<1>9. /\ \A a \in Appts \ missed' : appt[a].status = "confirmed" => appt[a].event # c.event
      /\ \A s \in Callbacks : callback[s].at = "store" => callback[s].event # c.event
  BY <1>1, MirrorParts DEF DeletesAreApart, StoresAreApart
<1>10. \A e \in GEvents : gevent[e].live /\ ~gevent'[e].live =>
            /\ \A a \in Appts \ missed' : appt[a].status = "confirmed" => appt[a].event # e
            /\ \A s \in Callbacks : callback[s].at = "store" /\ callback[s].event = e => callback[s].appt \in missed'
  BY <1>8, <1>9
<1>11. \A e \in GEvents \ loose' : gevent'[e].live => c.event # e BY <1>8
<1>12. /\ d.at \in Confirms => c.at \in Confirms
       /\ d.at # "store" /\ d.at # "delete" /\ d.at # "stamp" /\ c.at # "stamp" /\ c.at # "store" /\ c.at # "find"
  BY <1>1, <1>4, <1>5, <1>6
<1>13. appt' = appt /\ shoots' = shoots /\ torn' \subseteq Appts /\ missed' \subseteq Appts
       /\ torn \subseteq torn' /\ missed \subseteq missed' /\ c = callback[t] BY <1>1, MirrorParts
<1>14. \A e \in GEvents \ loose' :
            gevent'[e].live /\ appt[c.appt].event = e /\ (c.at = "find" \/ (c.at = "delete" /\ c.event = e))
               => d.at = "delete" /\ d.event = e /\ d.appt = c.appt BY <1>11, <1>12
<1>15. c.at \notin Preparing \cup {"store"} BY <1>2, <1>12
<1> QED BY <1>2, <1>6, <1>7, <1>8, <1>10, <1>12, <1>13, <1>14, <1>15, ThreadGoesOn

LEMMA DropOldKeeps == ASSUME MirrorInv, NEW t \in Callbacks, DropOld(t) PROVE MirrorInv'
<1> PICK c : c = callback[t] OBVIOUS
<1> PICK old : old = appt[c.appt].of OBVIOUS
<1>1. c.at = "drop" /\ UNCHANGED <<appt, torn, missed, shoots>> BY DEF DropOld
<1>2. /\ c \in CallRows /\ c.appt \in Appts /\ c.at \in Confirms /\ c.at \notin Cancels /\ c.at \in Preparing
      /\ appt[c.appt] \in ApptRows /\ Fits(c, appt[c.appt], c.appt \in torn)
  BY <1>1, AtWorkRow DEF Confirms, Preparing, Cancels
<1>3. old \in Appts /\ appt[old] \in ApptRows /\ appt[old].status = "cancelled"
  BY <1>1, <1>2, MirrorParts DEF Fits, OriginalsAreCancelled
<1>4. CASE appt[old].event = NoEvent
  <2>1. PICK at : at = "sync" OBVIOUS
  <2>2. at \in Confirms \cup Cancels /\ at \in Confirms /\ Goes(t, at) /\ at \in Preparing /\ UNCHANGED <<gevent, loose>>
    BY <1>4, <2>1 DEF Confirms, Preparing, DropOld
  <2> QED BY <1>1, <1>2, <2>1, <2>2, GoesOnAlone, MirrorParts
<1>5. CASE appt[old].event # NoEvent
  <2> PICK e : e = appt[old].event OBVIOUS
  <2>1. e \in GEvents /\ Deletes(e) BY <1>3, <1>5 DEF DropOld, ApptRows, EventIds
  <2>2. PICK at : at = "dropped" OBVIOUS
  <2>3. at \in Confirms \cup Cancels /\ at \in Confirms /\ Goes(t, at) /\ at \in Preparing /\ at \notin Cancels
    BY <1>5, <2>2 DEF Confirms, Preparing, Cancels, DropOld
  <2>4. PICK d \in CallRows : /\ callback' = [callback EXCEPT ![t] = d]
                              /\ d.at = at /\ d.appt = c.appt /\ d.event = c.event BY <2>3, GoesRow, MirrorParts
  <2>5. Fits(d, appt[d.appt], d.appt \in torn) /\ d.at # "idle" BY <1>1, <1>2, <2>2, <2>3, <2>4 DEF Fits
  <2>6. /\ gevent' \in [GEvents -> GRows] /\ loose \subseteq loose' /\ loose' \subseteq GEvents
        /\ \A f \in GEvents : gevent'[f].appt = gevent[f].appt /\ (gevent'[f].live => gevent[f].live)
        /\ \A f \in GEvents : gevent[f].live /\ ~gevent'[f].live => f = e BY <2>1, DeletedIsGone
  <2>7. /\ \A a \in Appts : appt[a].status = "confirmed" => appt[a].event # e
        /\ \A s \in Callbacks : callback[s].at = "store" => callback[s].event # e
    BY <1>3, <2>1, MirrorParts, MirrorTyped DEF EventsAreApart, StoresAreApart
  <2>8. \A f \in GEvents : gevent[f].live /\ ~gevent'[f].live =>
            /\ \A a \in Appts \ missed' : appt[a].status = "confirmed" => appt[a].event # f
            /\ \A s \in Callbacks : callback[s].at = "store" /\ callback[s].event = f => callback[s].appt \in missed'
    BY <2>6, <2>7
  <2>9. /\ d.at # "store" /\ d.at # "delete" /\ c.at # "stamp" /\ c.at # "store" /\ c.at # "find" /\ c.at # "delete"
        /\ d.at \in Preparing /\ d.at \notin Cancels BY <1>1, <2>2, <2>3, <2>4
  <2>10. appt' = appt /\ shoots' = shoots /\ torn' \subseteq Appts /\ missed' \subseteq Appts
         /\ torn \subseteq torn' /\ missed \subseteq missed' BY <1>1, MirrorParts
  <2> QED BY <1>2, <2>4, <2>5, <2>6, <2>8, <2>9, <2>10, ThreadGoesOn
<1> QED BY <1>4, <1>5

\* A booking's event is forgotten, and the thread goes on.
LEMMA ForgetKeeps ==
  ASSUME MirrorInv, NEW t \in Callbacks, NEW c, NEW d \in CallRows, NEW x \in Appts, NEW r,
         c = callback[t], r \in ApptRows,
         r.status = appt[x].status, r.of = appt[x].of, r.project = appt[x].project, r.event = NoEvent,
         callback' = [callback EXCEPT ![t] = d], appt' = [appt EXCEPT ![x] = r],
         UNCHANGED <<gevent, torn, loose, missed, shoots>>,
         c.appt \in Appts, d = FreeThread \/ (d.appt = c.appt /\ d.at # "idle" /\ d.event = c.event),
         d.at \in Confirms => c.at \in Confirms, d.at \in Cancels => c.at \in Cancels,
         d # FreeThread => Fits(d, appt'[c.appt], c.appt \in torn),
         \* nobody else relies on it
         d.at \notin {"store", "delete"}, c.at \notin {"find", "delete", "store", "stamp"},
         \/ appt[x].event = NoEvent \/ ~gevent[appt[x].event].live
         \/ /\ appt[x].status # "confirmed"
            /\ \A s \in Callbacks : s # t /\ callback[s].appt = x => callback[s].at \notin {"find", "delete"},
         \A s \in Callbacks : s # t /\ callback[s].appt = x =>
            appt[x].status # "confirmed" \/ callback[s].at \notin {"drop", "dropped", "sync"},
         c.at \in Preparing => d.at \in Preparing
  PROVE  MirrorInv'
<1>1. /\ callback' \in [Callbacks -> CallRows] /\ callback'[t] = d
      /\ \A s \in Callbacks : s # t => callback'[s] = callback[s]
      /\ appt' \in [Appts -> ApptRows] /\ appt'[x] = r /\ \A a \in Appts : a # x => appt'[a] = appt[a] BY MirrorParts
<1>2. MirrorTypeOK'
  BY <1>1, MirrorParts DEF MirrorTypeOK, ApptRows, GRows, CallRows, ApptIds, EventIds, Confirms, Preparing, Cancels
<1>3. /\ \A a \in Appts : /\ appt'[a].status = appt[a].status /\ appt'[a].of = appt[a].of /\ appt'[a].project = appt[a].project
                          /\ appt'[a].event = appt[a].event \/ (a = x /\ appt'[a].event = NoEvent)
      /\ torn' = torn /\ loose' = loose /\ missed' = missed /\ shoots' = shoots /\ gevent' = gevent BY <1>1
<1>4. ThreadsFit'
  <2> SUFFICES ASSUME NEW s \in Callbacks, callback'[s] # FreeThread
      PROVE  /\ callback'[s].appt \in Appts /\ callback'[s].at # "idle"
             /\ Fits(callback'[s], appt'[callback'[s].appt], callback'[s].appt \in torn') BY DEF ThreadsFit
  <2>1. CASE s = t BY <1>1, <1>3, <2>1
  <2>2. CASE s # t
    <3>1. callback'[s] = callback[s] BY <1>1, <2>2
    <3>2. /\ callback[s].appt \in Appts /\ callback[s].at # "idle"
          /\ Fits(callback[s], appt[callback[s].appt], callback[s].appt \in torn) BY <3>1, MirrorParts DEF ThreadsFit
    <3> PICK u : u = callback[s] OBVIOUS
    <3> PICK w : w = appt'[u.appt] OBVIOUS
    <3> PICK v : v = appt[u.appt] OBVIOUS
    <3>3. w.status = v.status /\ w.of = v.of /\ w.project = v.project
          /\ (w.event = v.event \/ (u.appt = x /\ w.event = NoEvent)) BY <1>3, <3>2
    <3>4. u.appt = x => v.status # "confirmed" \/ u.at \notin {"drop", "dropped", "sync"} BY <2>2
    <3>5. u.at \in {"drop", "dropped", "sync"} => v.status # "absent" BY <3>2 DEF Fits, Confirms, Preparing
    <3>6. v \in ApptRows BY <3>2, MirrorParts
    <3>7. Fits(u, w, u.appt \in torn) BY <3>2, <3>3, <3>4, <3>5, <3>6 DEF Fits, ApptRows
    <3> QED BY <1>3, <3>1, <3>2, <3>7
  <2> QED BY <2>1, <2>2
<1>5. ThreadsApart'
  <2> SUFFICES ASSUME NEW s \in Callbacks, NEW u \in Callbacks, Collide(callback'[s], callback'[u]) PROVE s = u
    BY DEF ThreadsApart
  <2>1. Collide(callback[s], callback[u]) BY <1>1, FreeMirrorRow DEF Collide
  <2> QED BY <2>1, MirrorParts DEF ThreadsApart
<1>6. AbsentAreBlank' BY <1>3, MirrorParts DEF AbsentAreBlank
<1>7. OriginalsAreCancelled' BY <1>3, MirrorParts DEF OriginalsAreCancelled
<1>8. HeirsInherit' BY <1>3, MirrorParts DEF HeirsInherit
<1>9. OriginalsAreLeft'
  <2> SUFFICES ASSUME NEW b \in Appts, NEW s \in Callbacks, appt[b].of \in Appts, callback'[s].appt = appt[b].of
      PROVE  appt[b].of \in torn /\ callback'[s].at \notin Cancels BY <1>3 DEF OriginalsAreLeft
  <2>1. callback[s].appt = appt[b].of BY <1>1, FreeMirrorRow, MirrorTyped
  <2>2. appt[b].of \in torn /\ callback[s].at \notin Cancels BY <2>1, MirrorParts DEF OriginalsAreLeft
  <2> QED BY <1>1, <2>2
<1>10. ProjectsAreStamped'
  <2> SUFFICES ASSUME NEW a \in shoots, a \notin torn, appt[a].project = NoAppt PROVE Stamping(a)'
    BY <1>3, MirrorParts DEF ProjectsAreStamped
  <2>1. PICK s \in Callbacks : callback[s].appt = a /\ callback[s].at = "stamp" BY MirrorParts DEF ProjectsAreStamped, Stamping
  <2>2. s # t BY <2>1
  <2> QED BY <1>1, <2>1, <2>2 DEF Stamping
<1>11. EventsAreKnown'
  <2>1. \A s \in Callbacks : callback'[s].event \in {NoEvent, callback[s].event} BY <1>1, FreeMirrorRow
  <2> QED BY <1>3, <2>1, MirrorParts, MirrorTyped DEF EventsAreKnown
<1>12. EventsAreApart' BY <1>3, MirrorParts DEF EventsAreApart
<1>13. StoresAreApart'
  <2> SUFFICES ASSUME NEW s \in Callbacks, callback'[s].at = "store"
      PROVE  /\ \A a \in Appts : appt'[a].event # callback'[s].event
             /\ \A u \in Callbacks : callback'[u].at \in {"store", "delete"} /\ callback'[u].event = callback'[s].event => u = s
    BY DEF StoresAreApart
  <2>1. s # t /\ callback'[s] = callback[s] /\ callback[s] # FreeThread BY <1>1, FreeMirrorRow
  <2>2. /\ \A a \in Appts : appt[a].event # callback[s].event
        /\ \A u \in Callbacks : callback[u].at \in {"store", "delete"} /\ callback[u].event = callback[s].event => u = s
    BY <2>1, MirrorParts DEF StoresAreApart
  <2>3. callback[s].event \in GEvents BY <2>1, MirrorParts DEF ThreadsFit, Fits
  <2>4. callback[s].event # NoEvent BY <2>3, MirrorTyped
  <2>5. \A u \in Callbacks : callback'[u].at \in {"store", "delete"} => callback'[u] = callback[u] BY <1>1
  <2> QED BY <1>3, <2>1, <2>2, <2>4, <2>5
<1>14. DeletesAreApart'
  <2> SUFFICES ASSUME NEW s \in Callbacks, callback'[s].at = "delete", NEW a \in Appts, appt[a].status = "confirmed"
      PROVE  appt'[a].event # callback'[s].event BY <1>3 DEF DeletesAreApart
  <2>1. s # t /\ callback'[s] = callback[s] /\ callback[s] # FreeThread BY <1>1, FreeMirrorRow
  <2>2. callback[s].event \in GEvents /\ appt[a].event # callback[s].event
    BY <2>1, MirrorParts DEF ThreadsFit, Fits, DeletesAreApart
  <2> QED BY <1>3, <2>1, <2>2, MirrorTyped
<1>15. EventsAreHeld'
  <2> SUFFICES ASSUME NEW e \in GEvents \ loose, gevent[e].live, gevent[e].appt \notin torn
      PROVE  Kept(e)' \/ Storing(e)' BY <1>3 DEF EventsAreHeld
  <2>1. Kept(e) \/ Storing(e) BY MirrorParts DEF EventsAreHeld
  <2>2. CASE Kept(e)
    <3>1. PICK a \in Appts : appt[a].event = e /\ (appt[a].status = "confirmed" \/ Deleting(a, e)) BY <2>2 DEF Kept
    <3>2. CASE appt[a].status = "confirmed"
      <4>1. a # x BY <3>1, <3>2, MirrorTyped
      <4> QED BY <1>1, <3>1, <3>2, <4>1 DEF Kept
    <3>3. CASE Deleting(a, e)
      <4>1. PICK s \in Callbacks : callback[s].appt = a /\ (callback[s].at = "find" \/ (callback[s].at = "delete" /\ callback[s].event = e))
        BY <3>3 DEF Deleting
      <4>2. s # t BY <4>1
      <4>3. a # x BY <3>1, <4>1, <4>2, MirrorTyped
      <4>4. Deleting(a, e)' BY <1>1, <4>1, <4>2 DEF Deleting
      <4> QED BY <1>1, <3>1, <4>3, <4>4 DEF Kept
    <3> QED BY <3>1, <3>2, <3>3
  <2>3. CASE Storing(e)
    <3>1. PICK s \in Callbacks : callback[s].at = "store" /\ callback[s].event = e /\ callback[s].appt = gevent[e].appt
      BY <2>3 DEF Storing
    <3> QED BY <1>1, <1>3, <3>1 DEF Storing
  <2> QED BY <2>1, <2>2, <2>3
<1>16. BookingsAreShown'
  <2> SUFFICES ASSUME NEW a \in Appts \ missed, appt[a].status = "confirmed" PROVE IsShown(a)' \/ Showing(a)'
    BY <1>3 DEF BookingsAreShown
  <2>1. IsShown(a) \/ Showing(a) BY MirrorParts DEF BookingsAreShown
  <2>2. CASE IsShown(a)
    <3>1. a # x BY <2>2, MirrorTyped DEF IsShown
    <3> QED BY <1>1, <1>3, <2>2, <3>1 DEF IsShown
  <2>3. CASE Showing(a)
    <3>1. PICK s \in Callbacks : /\ callback[s].appt = a
                                 /\ callback[s].at \in Preparing \/ (callback[s].at = "store" /\ gevent[callback[s].event].live)
      BY <2>3 DEF Showing
    <3>2. CASE s = t
      <4>1. d.at \in Preparing BY <3>1, <3>2
      <4>2. d.appt = c.appt BY <4>1, FreeMirrorRow DEF Confirms
      <4> QED BY <1>1, <3>1, <3>2, <4>1, <4>2 DEF Showing
    <3>3. CASE s # t BY <1>1, <1>3, <3>1, <3>3 DEF Showing
    <3> QED BY <3>2, <3>3
  <2> QED BY <2>1, <2>2, <2>3
<1> QED BY <1>2, <1>4, <1>5, <1>6, <1>7, <1>8, <1>9, <1>10, <1>11, <1>12, <1>13, <1>14, <1>15, <1>16 DEF MirrorInv

LEMMA DropForgetKeeps == ASSUME MirrorInv, NEW t \in Callbacks, DropForget(t) PROVE MirrorInv'
<1> PICK c : c = callback[t] OBVIOUS
<1> PICK x : x = appt[c.appt].of OBVIOUS
<1>1. /\ c.at = "dropped" /\ UNCHANGED <<gevent, torn, loose, missed, shoots>>
      /\ appt' = [appt EXCEPT ![x].event = NoEvent] BY DEF DropForget
<1>2. /\ c \in CallRows /\ c.appt \in Appts /\ c.at \in Confirms /\ c.at \notin Cancels /\ c.at \in Preparing
      /\ appt[c.appt] \in ApptRows /\ Fits(c, appt[c.appt], c.appt \in torn)
  BY <1>1, AtWorkRow DEF Confirms, Preparing, Cancels
<1>3. /\ x \in Appts /\ appt[x] \in ApptRows /\ appt[x].status = "cancelled" /\ c.appt # x
      /\ \A s \in Callbacks : callback[s].appt = x => callback[s].at \notin Cancels
  BY <1>1, <1>2, MirrorParts DEF Fits, OriginalsAreCancelled, OriginalsAreLeft
<1> PICK r : r = [appt[x] EXCEPT !.event = NoEvent] OBVIOUS
<1>4. appt' = [appt EXCEPT ![x] = r] BY <1>1
<1>5. r \in ApptRows /\ r.status = appt[x].status /\ r.of = appt[x].of /\ r.project = appt[x].project /\ r.event = NoEvent
  BY <1>3 DEF ApptRows, EventIds
<1>6. PICK at : at = "sync" OBVIOUS
<1>7. at \in Confirms \cup Cancels /\ at \in Confirms /\ Goes(t, at) /\ at \in Preparing /\ at \notin Cancels
  BY <1>6 DEF Confirms, Preparing, Cancels, DropForget
<1>8. PICK d \in CallRows : /\ callback' = [callback EXCEPT ![t] = d]
                            /\ d.at = at /\ d.appt = c.appt /\ d.event = c.event BY <1>7, GoesRow, MirrorParts
<1>9. appt'[c.appt] = appt[c.appt] BY <1>2, <1>3, <1>4, MirrorParts
<1>10. Fits(d, appt'[c.appt], c.appt \in torn) /\ d.at # "idle" /\ d.at \notin {"store", "delete"}
  BY <1>1, <1>2, <1>6, <1>7, <1>8, <1>9 DEF Fits
<1>11. c.at \notin {"find", "delete", "store", "stamp"} BY <1>1
<1>12. \A s \in Callbacks : s # t /\ callback[s].appt = x => callback[s].at \notin {"find", "delete"} BY <1>3 DEF Cancels
<1>13. appt[x].status # "confirmed" BY <1>3
<1>14. /\ d.at \in Preparing /\ d.at \notin Cancels /\ gevent' = gevent /\ torn' = torn /\ loose' = loose /\ missed' = missed
       /\ shoots' = shoots BY <1>1, <1>7, <1>8
<1>15. /\ d.appt = c.appt /\ d.event = c.event /\ callback' = [callback EXCEPT ![t] = d] BY <1>8
<1>16. x \in Appts /\ c.appt \in Appts /\ c.at \in Confirms BY <1>2, <1>3
<1> QED BY <1>4, <1>5, <1>10, <1>11, <1>12, <1>13, <1>14, <1>15, <1>16, ForgetKeeps

LEMMA ForgetEventKeeps == ASSUME MirrorInv, NEW t \in Callbacks, ForgetEvent(t) PROVE MirrorInv'
<1> PICK c : c = callback[t] OBVIOUS
<1> PICK x : x = c.appt OBVIOUS
<1>1. /\ c.at = "forget" /\ UNCHANGED <<gevent, torn, loose, missed, shoots>>
      /\ appt' = [appt EXCEPT ![x].event = NoEvent] /\ Stops(t) BY DEF ForgetEvent
<1>2. /\ c \in CallRows /\ x \in Appts /\ c.appt = x /\ c.at \in Cancels /\ c.at \notin Confirms /\ c.at \notin Preparing
      /\ appt[x] \in ApptRows /\ Fits(c, appt[x], x \in torn) BY <1>1, AtWorkRow DEF Confirms, Preparing, Cancels
<1>3. appt[x].status # "confirmed" BY <1>2 DEF Fits
<1>4. PICK r \in ApptRows : /\ appt' = [appt EXCEPT ![x] = r]
                            /\ r.status = appt[x].status /\ r.of = appt[x].of /\ r.project = appt[x].project /\ r.event = NoEvent
  <2> PICK r : r = [appt[x] EXCEPT !.event = NoEvent] OBVIOUS
  <2>1. appt' = [appt EXCEPT ![x] = r] BY <1>1
  <2>2. r \in ApptRows /\ r.status = appt[x].status /\ r.of = appt[x].of /\ r.project = appt[x].project /\ r.event = NoEvent
    BY <1>2 DEF ApptRows, EventIds
  <2> QED BY <2>1, <2>2
<1>6. PICK d \in CallRows : callback' = [callback EXCEPT ![t] = d] /\ d = FreeThread BY <1>1, StopsRow
<1>7. c.at \notin {"find", "delete", "store", "stamp"} BY <1>1
<1>8. \A s \in Callbacks : s # t /\ callback[s].appt = x => callback[s].at \notin {"find", "delete"}
  BY <1>2, MirrorParts DEF ThreadsApart, Collide, Cancels
<1>9. d.at \notin {"store", "delete"} /\ d.at \notin Confirms /\ d.at \notin Cancels BY <1>6, FreeMirrorRow
<1>10. /\ d # FreeThread => Fits(d, appt'[c.appt], c.appt \in torn)
       /\ d.at \in Confirms => c.at \in Confirms
       /\ d.at \in Cancels => c.at \in Cancels
       /\ c.at \in Preparing => d.at \in Preparing BY <1>2, <1>6, <1>9
<1>11. /\ gevent' = gevent /\ torn' = torn /\ loose' = loose /\ missed' = missed /\ shoots' = shoots
       /\ c.appt \in Appts BY <1>1, <1>2
<1>12. \A s \in Callbacks : s # t /\ callback[s].appt = x =>
            appt[x].status # "confirmed" \/ callback[s].at \notin {"drop", "dropped", "sync"} BY <1>3
<1> QED BY <1>3, <1>4, <1>6, <1>7, <1>8, <1>9, <1>10, <1>11, <1>12, ForgetKeeps

LEMMA SyncEventKeeps == ASSUME MirrorInv, NEW t \in Callbacks, SyncEvent(t) PROVE MirrorInv'
<1> PICK c : c = callback[t] OBVIOUS
<1> PICK a : a = c.appt OBVIOUS
<1>1. c.at = "sync" /\ UNCHANGED <<gevent, torn, loose, shoots>> BY DEF SyncEvent
<1>2. /\ c \in CallRows /\ a \in Appts /\ c.appt = a /\ c.at \in Confirms /\ c.at \notin Cancels /\ c.at \in Preparing
      /\ appt[a] \in ApptRows /\ Fits(c, appt[a], a \in torn) BY <1>1, AtWorkRow DEF Confirms, Preparing, Cancels
<1>3. appt[a].event = c.event \/ (appt[a].status = "cancelled" /\ appt[a].event = NoEvent) BY <1>1, <1>2 DEF Fits
<1>4. c.event \in EventIds BY <1>2 DEF CallRows
<1>5. PICK posting : posting = "post" OBVIOUS
<1>6. PICK load : load = "load" OBVIOUS
<1>7. /\ posting \in Confirms \cup Cancels /\ posting \in Confirms /\ posting \in Preparing /\ posting \notin Cancels
      /\ load \in Confirms \cup Cancels /\ load \in Confirms BY <1>5, <1>6 DEF Confirms, Preparing, Cancels
<1>8. CASE c.event = NoEvent /\ Goes(t, posting) /\ UNCHANGED <<appt, missed>>
  BY <1>1, <1>2, <1>3, <1>5, <1>7, <1>8, GoesOnAlone, MirrorParts
<1>9. CASE c.event # NoEvent /\ gevent[c.event].live /\ Goes(t, load) /\ UNCHANGED <<appt, missed>>
  <2>1. appt[a].status = "confirmed" => appt[a].event \in GEvents /\ gevent[appt[a].event].live
    BY <1>3, <1>4, <1>9 DEF EventIds
  <2> QED BY <1>1, <1>2, <1>6, <1>7, <1>9, <2>1, GoesOnAlone, MirrorParts
<1>10. CASE missed' = missed \cup {a} /\ Goes(t, load) /\ UNCHANGED appt
  BY <1>1, <1>2, <1>6, <1>7, <1>10, GoesOnAlone, MirrorParts
<1>11. CASE /\ c.event # NoEvent /\ ~gevent[c.event].live
            /\ appt' = [appt EXCEPT ![a].event = NoEvent] /\ Goes(t, posting) /\ UNCHANGED missed
  <2>1. PICK r \in ApptRows : /\ appt' = [appt EXCEPT ![a] = r]
                              /\ r.status = appt[a].status /\ r.of = appt[a].of /\ r.project = appt[a].project /\ r.event = NoEvent
    <3> PICK r : r = [appt[a] EXCEPT !.event = NoEvent] OBVIOUS
    <3>1. appt' = [appt EXCEPT ![a] = r] BY <1>11
    <3>2. r \in ApptRows /\ r.status = appt[a].status /\ r.of = appt[a].of /\ r.project = appt[a].project /\ r.event = NoEvent
      BY <1>2 DEF ApptRows, EventIds
    <3> QED BY <3>1, <3>2
  <2>3. PICK d \in CallRows : /\ callback' = [callback EXCEPT ![t] = d]
                              /\ d.at = posting /\ d.appt = c.appt /\ d.event = c.event
    BY <1>7, <1>11, GoesRow, MirrorParts
  <2>4. appt'[a] = r BY <1>2, <2>1, MirrorParts
  <2>5. Fits(d, appt'[c.appt], c.appt \in torn) /\ d.at # "idle" /\ d.at \notin {"store", "delete"}
    BY <1>2, <1>5, <1>7, <2>1, <2>3, <2>4 DEF Fits
  <2>6. c.at \notin {"find", "delete", "store", "stamp"} BY <1>1
  <2>7. appt[a].event = NoEvent \/ ~gevent[appt[a].event].live BY <1>3, <1>11
  <2>8. \A s \in Callbacks : s # t /\ callback[s].appt = a => callback[s].at \notin {"drop", "dropped", "sync"}
    BY <1>2, MirrorParts DEF ThreadsApart, Collide, Confirms, Preparing
  <2>9. /\ d.at \in Preparing /\ d.at \notin Cancels /\ gevent' = gevent /\ torn' = torn /\ loose' = loose /\ missed' = missed
        /\ shoots' = shoots BY <1>1, <1>7, <1>11, <2>3
  <2>10. c.appt \in Appts /\ c.at \in Confirms BY <1>2
  <2>11. /\ d = FreeThread \/ (d.appt = c.appt /\ d.at # "idle" /\ d.event = c.event)
         /\ d.at \in Confirms => c.at \in Confirms
         /\ d.at \in Cancels => c.at \in Cancels
         /\ d # FreeThread => Fits(d, appt'[c.appt], c.appt \in torn)
         /\ c.at \in Preparing => d.at \in Preparing
         /\ d.at \notin {"store", "delete"} BY <2>3, <2>5, <2>9, <2>10
  <2>12. /\ \/ appt[a].event = NoEvent \/ ~gevent[appt[a].event].live
            \/ /\ appt[a].status # "confirmed"
               /\ \A s \in Callbacks : s # t /\ callback[s].appt = a => callback[s].at \notin {"find", "delete"}
         /\ \A s \in Callbacks : s # t /\ callback[s].appt = a =>
               appt[a].status # "confirmed" \/ callback[s].at \notin {"drop", "dropped", "sync"} BY <2>7, <2>8
  <2>13. UNCHANGED <<gevent, torn, loose, missed, shoots>> BY <2>9
  <2> QED BY <1>2, <2>1, <2>3, <2>6, <2>10, <2>11, <2>12, <2>13, ForgetKeeps
<1> QED BY <1>5, <1>6, <1>8, <1>9, <1>10, <1>11 DEF SyncEvent

LEMMA VanishKeeps == ASSUME MirrorInv, NEW e \in GEvents, EventVanishes(e) PROVE MirrorInv'
<1>1. /\ gevent' = [gevent EXCEPT ![e].live = FALSE] /\ missed' = missed \cup Appts
      /\ appt' = appt /\ callback' = callback /\ torn' = torn /\ loose' = loose /\ shoots' = shoots
  BY DEF EventVanishes
<1>2. PICK g \in GRows : gevent' = [gevent EXCEPT ![e] = g] /\ g.appt = gevent[e].appt /\ ~g.live
  <2> PICK g : g = [gevent[e] EXCEPT !.live = FALSE] OBVIOUS
  <2>1. gevent' = [gevent EXCEPT ![e] = g] BY <1>1
  <2>2. g \in GRows /\ g.appt = gevent[e].appt /\ ~g.live BY MirrorParts DEF GRows
  <2> QED BY <2>1, <2>2
<1>3. /\ gevent' \in [GEvents -> GRows]
      /\ \A f \in GEvents : gevent'[f].appt = gevent[f].appt /\ (gevent'[f].live => gevent[f].live)
  BY <1>2, MirrorParts
<1>4. missed' = Appts BY <1>1, MirrorParts
<1>5. MirrorTypeOK' BY <1>1, <1>3, <1>4, MirrorParts DEF MirrorTypeOK, GRows, ApptIds
<1>6. /\ ThreadsFit' /\ ThreadsApart' /\ AbsentAreBlank' /\ OriginalsAreCancelled' /\ OriginalsAreLeft'
      /\ HeirsInherit' /\ EventsAreApart' /\ StoresAreApart' /\ DeletesAreApart'
  BY <1>1, MirrorParts DEF ThreadsFit, ThreadsApart, AbsentAreBlank, OriginalsAreCancelled, OriginalsAreLeft,
       HeirsInherit, EventsAreApart, StoresAreApart, DeletesAreApart
<1>7. ProjectsAreStamped' BY <1>1, MirrorParts DEF ProjectsAreStamped, Stamping
<1>8. EventsAreKnown' BY <1>1, <1>3, MirrorParts DEF EventsAreKnown
<1>9. EventsAreHeld' BY <1>1, <1>3, MirrorParts DEF EventsAreHeld, Kept, Deleting, Storing
<1>10. BookingsAreShown' BY <1>1, <1>4 DEF BookingsAreShown
<1> QED BY <1>5, <1>6, <1>7, <1>8, <1>9, <1>10 DEF MirrorInv

\* The calendar makes an event, and the thread has its id or not.
LEMMA EventIsMade ==
  ASSUME MirrorInv, NEW t \in Callbacks, NEW c, NEW d \in CallRows, NEW e \in GEvents, NEW g \in GRows,
         c = callback[t], c.at = "post", c.appt \in Appts, gevent[e].appt = NoAppt,
         g.appt = c.appt, g.live, d.appt = c.appt,
         callback' = [callback EXCEPT ![t] = d], gevent' = [gevent EXCEPT ![e] = g],
         appt' = appt, torn' = torn, shoots' = shoots,
         \/ d.at = "store" /\ d.event = e /\ loose' = loose /\ missed' = missed
         \/ d.at = "load" /\ d.event = c.event /\ loose' = loose \cup {e} /\ missed' = missed \cup {c.appt}
  PROVE  MirrorInv'
<1>1. /\ callback' \in [Callbacks -> CallRows] /\ callback'[t] = d
      /\ \A s \in Callbacks : s # t => callback'[s] = callback[s]
      /\ gevent' \in [GEvents -> GRows] /\ gevent'[e] = g /\ \A f \in GEvents : f # e => gevent'[f] = gevent[f]
      /\ loose \subseteq loose' /\ loose' \subseteq GEvents /\ missed \subseteq missed' /\ missed' \subseteq Appts
  BY MirrorParts
<1>2. /\ d # FreeThread /\ d.at \in Confirms /\ d.at \notin Cancels /\ c.at \in Confirms /\ d.at # "idle" /\ d.at # "delete"
      /\ d.at # "stamp" /\ c.at \notin {"stamp", "find", "delete", "store"}
  BY FreeMirrorRow DEF Confirms, Preparing, Cancels
<1>3. /\ \A a \in Appts : appt[a].event # e
      /\ \A s \in Callbacks : callback[s].event # e BY MirrorParts DEF EventsAreKnown
<1>4. MirrorTypeOK' BY <1>1, MirrorParts DEF MirrorTypeOK, ApptRows, GRows, CallRows, ApptIds, EventIds, Confirms, Preparing, Cancels
<1>5. ThreadsFit'
  <2>1. Fits(c, appt[c.appt], c.appt \in torn) BY MirrorParts, FreeMirrorRow DEF ThreadsFit
  <2>2. Fits(d, appt[d.appt], d.appt \in torn) BY <1>2, <2>1 DEF Fits
  <2> QED BY <1>1, <1>2, <2>2, MirrorParts DEF ThreadsFit
<1>6. ThreadsApart'
  <2> SUFFICES ASSUME NEW s \in Callbacks, NEW u \in Callbacks, Collide(callback'[s], callback'[u]) PROVE s = u
    BY DEF ThreadsApart
  <2>1. Collide(callback[s], callback[u]) BY <1>1, <1>2 DEF Collide
  <2> QED BY <2>1, MirrorParts DEF ThreadsApart
<1>7. AbsentAreBlank' /\ OriginalsAreCancelled' /\ HeirsInherit' /\ EventsAreApart'
  BY MirrorParts DEF AbsentAreBlank, OriginalsAreCancelled, HeirsInherit, EventsAreApart
<1>8. OriginalsAreLeft' BY <1>1, <1>2, MirrorParts DEF OriginalsAreLeft
<1>9. ProjectsAreStamped' BY <1>1, <1>2, MirrorParts DEF ProjectsAreStamped, Stamping
<1>10. EventsAreKnown'
  <2> SUFFICES ASSUME NEW f \in GEvents, gevent'[f].appt = NoAppt
      PROVE  (\A a \in Appts : appt[a].event # f) /\ (\A s \in Callbacks : callback'[s].event # f)
    BY DEF EventsAreKnown
  <2>1. f # e BY <1>1, MirrorTyped
  <2>2. (\A a \in Appts : appt[a].event # f) /\ (\A s \in Callbacks : callback[s].event # f)
    BY <1>1, <2>1, MirrorParts DEF EventsAreKnown
  <2> QED BY <1>1, <2>1, <2>2
<1>11. StoresAreApart' BY <1>1, <1>2, <1>3, MirrorParts DEF StoresAreApart
<1>12. DeletesAreApart' BY <1>1, <1>2, MirrorParts DEF DeletesAreApart
<1>13. EventsAreHeld'
  <2> SUFFICES ASSUME NEW f \in GEvents \ loose', gevent'[f].live, gevent'[f].appt \notin torn
      PROVE  Kept(f)' \/ Storing(f)' BY DEF EventsAreHeld
  <2>1. CASE f = e BY <1>1, <2>1 DEF Storing
  <2>2. CASE f # e
    <3>1. Kept(f) \/ Storing(f) BY <1>1, <2>2, MirrorParts DEF EventsAreHeld
    <3>2. CASE Kept(f) BY <1>1, <1>2, <3>2 DEF Kept, Deleting
    <3>3. CASE Storing(f) BY <1>1, <1>2, <2>2, <3>3 DEF Storing
    <3> QED BY <3>1, <3>2, <3>3
  <2> QED BY <2>1, <2>2
<1>14. BookingsAreShown'
  <2> SUFFICES ASSUME NEW a \in Appts \ missed', appt[a].status = "confirmed" PROVE IsShown(a)' \/ Showing(a)'
    BY DEF BookingsAreShown
  <2>1. IsShown(a) \/ Showing(a) BY <1>1, MirrorParts DEF BookingsAreShown
  <2>2. CASE IsShown(a) BY <1>1, <1>3, <2>2 DEF IsShown
  <2>3. CASE Showing(a)
    <3>1. PICK s \in Callbacks : /\ callback[s].appt = a
                                 /\ callback[s].at \in Preparing \/ (callback[s].at = "store" /\ gevent[callback[s].event].live)
      BY <2>3 DEF Showing
    <3>2. CASE s = t
      <4>1. d.at = "store" /\ d.event = e BY <3>1, <3>2
      <4> QED BY <1>1, <3>1, <3>2, <4>1 DEF Showing
    <3>3. CASE s # t
      <4>1. CASE callback[s].at \in Preparing BY <1>1, <3>1, <3>3, <4>1 DEF Showing
      <4>2. CASE callback[s].at = "store" /\ gevent[callback[s].event].live
        <5>1. callback[s].event \in GEvents BY <4>2, MirrorParts, FreeMirrorRow DEF ThreadsFit, Fits
        <5>2. gevent'[callback[s].event] = gevent[callback[s].event] BY <1>1, <1>3, <5>1
        <5> QED BY <1>1, <3>1, <3>3, <4>2, <5>2 DEF Showing
      <4> QED BY <3>1, <4>1, <4>2
    <3> QED BY <3>2, <3>3
  <2> QED BY <2>1, <2>2, <2>3
<1> QED BY <1>4, <1>5, <1>6, <1>7, <1>8, <1>9, <1>10, <1>11, <1>12, <1>13, <1>14 DEF MirrorInv

LEMMA PostEventKeeps == ASSUME MirrorInv, NEW t \in Callbacks, PostEvent(t) PROVE MirrorInv'
<1> PICK c : c = callback[t] OBVIOUS
<1>1. c.at = "post" /\ UNCHANGED <<appt, torn, shoots>> BY DEF PostEvent
<1>2. /\ c \in CallRows /\ c.appt \in Appts /\ c.at \in Confirms BY <1>1, AtWorkRow DEF Confirms, Preparing
<1>3. PICK load : load = "load" OBVIOUS
<1>4. PICK store : store = "store" OBVIOUS
<1>5. load \in Confirms \cup Cancels /\ store \in Confirms \cup Cancels /\ load \in Confirms BY <1>3, <1>4 DEF Confirms
<1>6. CASE Goes(t, load) /\ missed' = missed \cup {c.appt} /\ UNCHANGED <<gevent, loose>>
  BY <1>1, <1>2, <1>3, <1>5, <1>6, GoesOnAlone, MirrorParts
<1>7. ASSUME NEW e \in GEvents, gevent[e].appt = NoAppt,
             gevent' = [gevent EXCEPT ![e] = [appt |-> c.appt, live |-> TRUE]],
             \/ GoesWith(t, store, e) /\ UNCHANGED <<loose, missed>>
             \/ Goes(t, load) /\ loose' = loose \cup {e} /\ missed' = missed \cup {c.appt}
      PROVE  MirrorInv'
  <2>1. PICK g \in GRows : gevent' = [gevent EXCEPT ![e] = g] /\ g.appt = c.appt /\ g.live
    <3> PICK g : g = [appt |-> c.appt, live |-> TRUE] OBVIOUS
    <3>1. g \in GRows /\ g.appt = c.appt /\ g.live BY <1>2 DEF GRows, ApptIds
    <3> QED BY <1>7, <3>1
  <2>2. CASE GoesWith(t, store, e) /\ UNCHANGED <<loose, missed>>
    <3>1. e \in EventIds BY DEF EventIds
    <3>2. PICK d \in CallRows : callback' = [callback EXCEPT ![t] = d] /\ d.at = store /\ d.appt = c.appt /\ d.event = e
      BY <1>5, <2>2, <3>1, GoesWithRow, MirrorParts
    <3> QED BY <1>1, <1>2, <1>4, <1>7, <2>1, <2>2, <3>2, EventIsMade
  <2>3. CASE Goes(t, load) /\ loose' = loose \cup {e} /\ missed' = missed \cup {c.appt}
    <3>1. PICK d \in CallRows : callback' = [callback EXCEPT ![t] = d] /\ d.at = load /\ d.appt = c.appt /\ d.event = c.event
      BY <1>5, <2>3, GoesRow, MirrorParts
    <3> QED BY <1>1, <1>2, <1>3, <1>7, <2>1, <2>3, <3>1, EventIsMade
  <2> QED BY <1>7, <2>2, <2>3
<1> QED BY <1>3, <1>4, <1>6, <1>7 DEF PostEvent

\* A booking is given its project, and the thread that gave it stops.
LEMMA ProjectIsSet ==
  ASSUME MirrorInv, NEW t \in Callbacks, NEW c, NEW a \in Appts, NEW r \in ApptRows,
         c = callback[t], c.at \in {"link", "stamp"}, c.appt = a, Stops(t),
         appt' = [appt EXCEPT ![a] = r], r.project # NoAppt,
         r.status = appt[a].status, r.of = appt[a].of, r.event = appt[a].event,
         UNCHANGED <<gevent, torn, loose, missed, shoots>>
  PROVE  MirrorInv'
<1>1. /\ callback' \in [Callbacks -> CallRows] /\ callback'[t] = FreeThread
      /\ \A s \in Callbacks : s # t => callback'[s] = callback[s]
      /\ appt' \in [Appts -> ApptRows] /\ appt'[a] = r /\ \A b \in Appts : b # a => appt'[b] = appt[b]
      /\ torn' = torn /\ loose' = loose /\ missed' = missed /\ shoots' = shoots /\ gevent' = gevent
  BY MirrorParts, FreeMirrorRow DEF Stops
<1>2. \A b \in Appts : /\ appt'[b].status = appt[b].status /\ appt'[b].of = appt[b].of /\ appt'[b].event = appt[b].event
                       /\ appt'[b].project = appt[b].project \/ b = a BY <1>1
<1>3. c.at \in Confirms /\ Fits(c, appt[a], a \in torn) BY MirrorParts, FreeMirrorRow DEF ThreadsFit, Confirms
<1>4. appt[a].status # "absent" BY <1>3 DEF Fits
<1>5. \A s \in Callbacks : s # t /\ callback[s].appt = a => callback[s].at \notin Confirms
  BY <1>3, MirrorParts DEF ThreadsApart, Collide
<1>6. MirrorTypeOK'
  BY <1>1, MirrorParts DEF MirrorTypeOK, ApptRows, GRows, CallRows, ApptIds, EventIds, Confirms, Preparing, Cancels
<1>7. ThreadsFit'
  <2> SUFFICES ASSUME NEW s \in Callbacks, s # t, callback[s] # FreeThread
      PROVE  /\ callback[s].appt \in Appts /\ callback[s].at # "idle"
             /\ Fits(callback[s], appt'[callback[s].appt], callback[s].appt \in torn) BY <1>1 DEF ThreadsFit
  <2>1. /\ callback[s].appt \in Appts /\ callback[s].at # "idle"
        /\ Fits(callback[s], appt[callback[s].appt], callback[s].appt \in torn) BY MirrorParts DEF ThreadsFit
  <2>2. CASE callback[s].appt = a
    <3>1. callback[s].at \notin {"make", "stamp"} BY <1>5, <2>2 DEF Confirms
    <3> QED BY <1>1, <2>1, <2>2, <3>1 DEF Fits
  <2>3. CASE callback[s].appt # a BY <1>1, <2>1, <2>3
  <2> QED BY <2>2, <2>3
<1>8. ThreadsApart'
  <2> SUFFICES ASSUME NEW s \in Callbacks, NEW u \in Callbacks, Collide(callback'[s], callback'[u]) PROVE s = u
    BY DEF ThreadsApart
  <2>1. Collide(callback[s], callback[u]) BY <1>1, FreeMirrorRow DEF Collide
  <2> QED BY <2>1, MirrorParts DEF ThreadsApart
<1>9. AbsentAreBlank' BY <1>1, <1>2, <1>4, MirrorParts DEF AbsentAreBlank
<1>10. OriginalsAreCancelled' BY <1>1, <1>2, MirrorParts DEF OriginalsAreCancelled
<1>11. OriginalsAreLeft' BY <1>1, <1>2, MirrorParts, FreeMirrorRow, MirrorTyped DEF OriginalsAreLeft
<1>12. HeirsInherit' BY <1>1, <1>2, MirrorParts DEF HeirsInherit
<1>13. ProjectsAreStamped'
  <2> SUFFICES ASSUME NEW b \in shoots, b \notin torn, appt'[b].project = NoAppt PROVE Stamping(b)'
    BY <1>1, MirrorParts DEF ProjectsAreStamped
  <2>1. b # a BY <1>1
  <2>2. PICK s \in Callbacks : callback[s].appt = b /\ callback[s].at = "stamp"
    BY <1>1, <2>1, MirrorParts DEF ProjectsAreStamped, Stamping
  <2> QED BY <1>1, <2>1, <2>2 DEF Stamping
<1>14. EventsAreKnown' BY <1>1, <1>2, MirrorParts, FreeMirrorRow, MirrorTyped DEF EventsAreKnown
<1>15. EventsAreApart' BY <1>2, MirrorParts DEF EventsAreApart
<1>16. StoresAreApart' BY <1>1, <1>2, MirrorParts, FreeMirrorRow DEF StoresAreApart
<1>17. DeletesAreApart' BY <1>1, <1>2, MirrorParts, FreeMirrorRow DEF DeletesAreApart
<1>18. EventsAreHeld'
  <2> SUFFICES ASSUME NEW e \in GEvents \ loose, gevent[e].live, gevent[e].appt \notin torn PROVE Kept(e)' \/ Storing(e)'
    BY <1>1 DEF EventsAreHeld
  <2>1. Kept(e) \/ Storing(e) BY MirrorParts DEF EventsAreHeld
  <2>2. CASE Kept(e) BY <1>1, <1>2, <2>2 DEF Kept, Deleting
  <2>3. CASE Storing(e) BY <1>1, <2>3 DEF Storing
  <2> QED BY <2>1, <2>2, <2>3
<1>19. BookingsAreShown'
  <2> SUFFICES ASSUME NEW b \in Appts \ missed, appt[b].status = "confirmed" PROVE IsShown(b)' \/ Showing(b)'
    BY <1>1, <1>2 DEF BookingsAreShown
  <2>1. IsShown(b) \/ Showing(b) BY MirrorParts DEF BookingsAreShown
  <2>2. CASE IsShown(b) BY <1>1, <1>2, <2>2 DEF IsShown
  <2>3. CASE Showing(b) BY <1>1, <2>3 DEF Showing, Preparing
  <2> QED BY <2>1, <2>2, <2>3
<1> QED BY <1>6, <1>7, <1>8, <1>9, <1>10, <1>11, <1>12, <1>13, <1>14, <1>15, <1>16, <1>17, <1>18, <1>19 DEF MirrorInv

LEMMA LinkStudioKeeps == ASSUME MirrorInv, NEW t \in Callbacks, LinkStudio(t) PROVE MirrorInv'
<1> PICK c : c = callback[t] OBVIOUS
<1> PICK a : a = c.appt OBVIOUS
<1>1. c.at = "link" /\ UNCHANGED <<gevent, torn, loose, missed, shoots>> BY DEF LinkStudio
<1>2. /\ c \in CallRows /\ a \in Appts /\ c.appt = a /\ c.at \in Confirms /\ c.at \notin Preparing /\ appt[a] \in ApptRows
  BY <1>1, AtWorkRow DEF Confirms, Preparing
<1>3. CASE appt[a].project # NoAppt \/ Inherits(a)
  <2>1. PICK p : p = IF appt[a].project # NoAppt THEN appt[a].project ELSE appt[appt[a].of].project OBVIOUS
  <2>2. appt' = [appt EXCEPT ![a].project = p] /\ Stops(t) BY <1>2, <1>3, <2>1 DEF LinkStudio
  <2>3. p \in ApptIds /\ p # NoAppt
    <3>1. CASE appt[a].project # NoAppt BY <1>2, <2>1, <3>1 DEF ApptRows
    <3>2. CASE appt[a].project = NoAppt
      <4>1. appt[a].of # NoAppt /\ appt[appt[a].of].project # NoAppt BY <1>3, <3>2 DEF Inherits
      <4>2. appt[a].of \in Appts BY <1>2, <4>1 DEF ApptRows, ApptIds
      <4> QED BY <2>1, <3>2, <4>1, <4>2, MirrorParts DEF ApptRows
    <3> QED BY <3>1, <3>2
  <2>4. PICK r \in ApptRows : /\ appt' = [appt EXCEPT ![a] = r] /\ r.project # NoAppt
                              /\ r.status = appt[a].status /\ r.of = appt[a].of /\ r.event = appt[a].event
    <3> PICK r : r = [appt[a] EXCEPT !.project = p] OBVIOUS
    <3>1. appt' = [appt EXCEPT ![a] = r] BY <2>2
    <3>2. r \in ApptRows /\ r.project # NoAppt /\ r.status = appt[a].status /\ r.of = appt[a].of /\ r.event = appt[a].event
      BY <1>2, <2>3 DEF ApptRows
    <3> QED BY <3>1, <3>2
  <2> QED BY <1>1, <1>2, <2>2, <2>4, ProjectIsSet
<1>4. CASE ~(appt[a].project # NoAppt \/ Inherits(a))
  <2>1. PICK at : at = "make" OBVIOUS
  <2>2. at \in Confirms \cup Cancels /\ at \in Confirms /\ Goes(t, at) /\ appt' = appt BY <1>4, <2>1 DEF Confirms, LinkStudio
  <2> QED BY <1>1, <1>2, <1>4, <2>1, <2>2, GoesOnAlone, MirrorParts
<1> QED BY <1>3, <1>4

LEMMA MakeProjectKeeps == ASSUME MirrorInv, NEW t \in Callbacks, MakeProject(t) PROVE MirrorInv'
<1> PICK c : c = callback[t] OBVIOUS
<1>1. c.at = "make" /\ shoots' = shoots \cup {c.appt} /\ UNCHANGED <<appt, gevent, torn, loose, missed>> BY DEF MakeProject
<1>2. /\ c \in CallRows /\ c.appt \in Appts /\ c.at \in Confirms /\ c.at \notin Preparing /\ c.at \notin Cancels
      /\ Fits(c, appt[c.appt], c.appt \in torn) BY <1>1, AtWorkRow DEF Confirms, Preparing, Cancels
<1>3. PICK at : at = "stamp" OBVIOUS
<1>4. at \in Confirms \cup Cancels /\ at \in Confirms /\ Goes(t, at) /\ at \notin Cancels BY <1>3 DEF Confirms, Preparing, Cancels, MakeProject
<1>5. PICK d \in CallRows : callback' = [callback EXCEPT ![t] = d] /\ d.at = at /\ d.appt = c.appt /\ d.event = c.event
  BY <1>4, GoesRow, MirrorParts
<1>6. Fits(d, appt[d.appt], d.appt \in torn) /\ d.at # "idle" BY <1>1, <1>2, <1>3, <1>4, <1>5 DEF Fits
<1>7. /\ d.at = "stamp" /\ d.at \in Confirms /\ d.at \notin Cancels
      /\ c.at \notin {"stamp", "store", "find", "delete"} /\ c.at \notin Preparing \cup {"store"}
  BY <1>1, <1>2, <1>3, <1>4, <1>5
<1>8. appt' = appt /\ gevent' = gevent /\ torn' = torn /\ loose' = loose /\ missed' = missed BY <1>1
<1> QED BY <1>1, <1>2, <1>5, <1>6, <1>7, <1>8, ThreadGoesOn, MirrorParts

LEMMA StampProjectKeeps == ASSUME MirrorInv, NEW t \in Callbacks, StampProject(t) PROVE MirrorInv'
<1> PICK c : c = callback[t] OBVIOUS
<1> PICK a : a = c.appt OBVIOUS
<1>1. /\ c.at = "stamp" /\ UNCHANGED <<gevent, torn, loose, missed, shoots>>
      /\ appt' = [appt EXCEPT ![a].project = a] /\ Stops(t) BY DEF StampProject
<1>2. c \in CallRows /\ a \in Appts /\ c.appt = a /\ appt[a] \in ApptRows BY <1>1, AtWorkRow
<1>3. PICK r \in ApptRows : /\ appt' = [appt EXCEPT ![a] = r] /\ r.project # NoAppt
                            /\ r.status = appt[a].status /\ r.of = appt[a].of /\ r.event = appt[a].event
  <2> PICK r : r = [appt[a] EXCEPT !.project = a] OBVIOUS
  <2>1. appt' = [appt EXCEPT ![a] = r] BY <1>1
  <2>2. r \in ApptRows /\ r.project # NoAppt /\ r.status = appt[a].status /\ r.of = appt[a].of /\ r.event = appt[a].event
    BY <1>2, MirrorTyped DEF ApptRows, ApptIds
  <2> QED BY <2>1, <2>2
<1> QED BY <1>1, <1>2, <1>3, ProjectIsSet

LEMMA StoreEventKeeps == ASSUME MirrorInv, NEW t \in Callbacks, StoreEvent(t) PROVE MirrorInv'
<1> PICK c : c = callback[t] OBVIOUS
<1> PICK a : a = c.appt OBVIOUS
<1> PICK e : e = c.event OBVIOUS
<1>1. /\ c.at = "store" /\ UNCHANGED <<gevent, torn, loose, missed, shoots>>
      /\ appt' = [appt EXCEPT ![a].event = e] BY DEF StoreEvent
<1>2. /\ c \in CallRows /\ a \in Appts /\ c.appt = a /\ c.at \in Confirms /\ c.at \notin Cancels /\ appt[a] \in ApptRows
      /\ Fits(c, appt[a], a \in torn) BY <1>1, AtWorkRow DEF Confirms, Preparing, Cancels
<1>3. /\ e \in GEvents /\ appt[a].event = NoEvent /\ appt[a].status # "absent" /\ (appt[a].status = "confirmed" \/ a \in torn)
  BY <1>1, <1>2 DEF Fits
<1>4. PICK r \in ApptRows : /\ appt' = [appt EXCEPT ![a] = r] /\ r.event = e
                            /\ r.status = appt[a].status /\ r.of = appt[a].of /\ r.project = appt[a].project
  <2> PICK r : r = [appt[a] EXCEPT !.event = e] OBVIOUS
  <2>1. appt' = [appt EXCEPT ![a] = r] BY <1>1
  <2>2. r \in ApptRows /\ r.event = e /\ r.status = appt[a].status /\ r.of = appt[a].of /\ r.project = appt[a].project
    BY <1>2, <1>3 DEF ApptRows, EventIds
  <2> QED BY <2>1, <2>2
<1>5. PICK d \in CallRows : callback' = [callback EXCEPT ![t] = d] /\ d.at = "load" /\ d.appt = a /\ d.event = e
  <2>1. PICK at : at = "load" OBVIOUS
  <2>2. at \in Confirms \cup Cancels /\ Goes(t, at) BY <2>1 DEF Confirms, StoreEvent
  <2> QED BY <1>2, <2>1, <2>2, GoesRow, MirrorParts
<1>6. d.at \in Confirms /\ d.at \notin Cancels /\ d.at \notin Preparing /\ d # FreeThread /\ c # FreeThread
  BY <1>1, <1>5, FreeMirrorRow DEF Confirms, Preparing, Cancels
<1>7. /\ callback' \in [Callbacks -> CallRows] /\ callback'[t] = d
      /\ \A s \in Callbacks : s # t => callback'[s] = callback[s]
      /\ appt' \in [Appts -> ApptRows] /\ appt'[a] = r /\ \A b \in Appts : b # a => appt'[b] = appt[b]
      /\ torn' = torn /\ loose' = loose /\ missed' = missed /\ shoots' = shoots /\ gevent' = gevent
  <2>1. gevent' = gevent /\ torn' = torn /\ loose' = loose /\ missed' = missed /\ shoots' = shoots BY <1>1
  <2> QED BY <1>2, <1>4, <1>5, <2>1, MirrorParts
<1>8. \A b \in Appts : /\ appt'[b].status = appt[b].status /\ appt'[b].of = appt[b].of /\ appt'[b].project = appt[b].project
                       /\ appt'[b].event = appt[b].event \/ (b = a /\ appt'[b].event = e) BY <1>4, <1>7
<1>9. \A s \in Callbacks : s # t /\ callback[s].appt = a => callback[s].at \notin Confirms
  BY <1>2, MirrorParts DEF ThreadsApart, Collide
<1>10. /\ \A b \in Appts : appt[b].event # e
       /\ \A s \in Callbacks : s # t /\ callback[s].at \in {"store", "delete"} => callback[s].event # e
  BY <1>1, MirrorParts DEF StoresAreApart
<1>11. MirrorTypeOK'
  BY <1>7, MirrorParts DEF MirrorTypeOK, ApptRows, GRows, CallRows, ApptIds, EventIds, Confirms, Preparing, Cancels
<1>12. ThreadsFit'
  <2>1. Fits(d, r, a \in torn) BY <1>3, <1>4, <1>5, <1>6 DEF Fits
  <2>2. ASSUME NEW s \in Callbacks, s # t, callback[s] # FreeThread
        PROVE  /\ callback[s].appt \in Appts /\ callback[s].at # "idle"
               /\ Fits(callback[s], appt'[callback[s].appt], callback[s].appt \in torn)
    <3>1. /\ callback[s].appt \in Appts /\ callback[s].at # "idle"
          /\ Fits(callback[s], appt[callback[s].appt], callback[s].appt \in torn) BY <2>2, MirrorParts DEF ThreadsFit
    <3>2. CASE callback[s].appt = a
      <4>1. callback[s].at \notin Confirms BY <1>9, <2>2, <3>2
      <4> QED BY <1>4, <1>7, <3>1, <3>2, <4>1 DEF Fits, Confirms, Preparing
    <3>3. CASE callback[s].appt # a BY <1>7, <3>1, <3>3
    <3> QED BY <3>2, <3>3
  <2> QED BY <1>2, <1>5, <1>6, <1>7, <2>1, <2>2, FreeMirrorRow DEF ThreadsFit
<1>13. ThreadsApart'
  <2> SUFFICES ASSUME NEW s \in Callbacks, NEW u \in Callbacks, Collide(callback'[s], callback'[u]) PROVE s = u
    BY DEF ThreadsApart
  <2>1. Collide(callback[s], callback[u]) BY <1>2, <1>5, <1>6, <1>7 DEF Collide
  <2> QED BY <2>1, MirrorParts DEF ThreadsApart
<1>14. AbsentAreBlank' BY <1>3, <1>7, <1>8, MirrorParts DEF AbsentAreBlank
<1>15. OriginalsAreCancelled' BY <1>8, MirrorParts DEF OriginalsAreCancelled
<1>16. OriginalsAreLeft' BY <1>2, <1>5, <1>6, <1>7, <1>8, MirrorParts DEF OriginalsAreLeft
<1>17. HeirsInherit' BY <1>7, <1>8, MirrorParts DEF HeirsInherit
<1>18. ProjectsAreStamped'
  <2> SUFFICES ASSUME NEW b \in shoots, b \notin torn, appt[b].project = NoAppt PROVE Stamping(b)'
    BY <1>7, <1>8, MirrorParts DEF ProjectsAreStamped
  <2>1. PICK s \in Callbacks : callback[s].appt = b /\ callback[s].at = "stamp" BY MirrorParts DEF ProjectsAreStamped, Stamping
  <2> QED BY <1>1, <1>7, <2>1 DEF Stamping
<1>19. EventsAreKnown'
  <2>1. gevent[e].appt # NoAppt BY <1>3, MirrorParts DEF EventsAreKnown
  <2> QED BY <1>5, <1>7, <1>8, <2>1, MirrorParts DEF EventsAreKnown
<1>20. EventsAreApart' BY <1>8, <1>10, MirrorParts DEF EventsAreApart
<1>21. StoresAreApart'
  <2> SUFFICES ASSUME NEW s \in Callbacks, callback'[s].at = "store"
      PROVE  /\ \A b \in Appts : appt'[b].event # callback'[s].event
             /\ \A u \in Callbacks : callback'[u].at \in {"store", "delete"} /\ callback'[u].event = callback'[s].event => u = s
    BY DEF StoresAreApart
  <2>1. s # t /\ callback'[s] = callback[s] BY <1>5, <1>7
  <2>2. /\ \A b \in Appts : appt[b].event # callback[s].event
        /\ \A u \in Callbacks : callback[u].at \in {"store", "delete"} /\ callback[u].event = callback[s].event => u = s
    BY <2>1, MirrorParts DEF StoresAreApart
  <2>3. callback[s].event # e BY <1>10, <2>1
  <2>4. \A u \in Callbacks : callback'[u].at \in {"store", "delete"} => callback'[u] = callback[u] BY <1>5, <1>7
  <2> QED BY <1>8, <2>1, <2>2, <2>3, <2>4
<1>22. DeletesAreApart'
  <2> SUFFICES ASSUME NEW s \in Callbacks, callback'[s].at = "delete", NEW b \in Appts, appt[b].status = "confirmed"
      PROVE  appt'[b].event # callback'[s].event BY <1>8 DEF DeletesAreApart
  <2>1. s # t /\ callback'[s] = callback[s] BY <1>5, <1>7
  <2> QED BY <1>8, <1>10, <2>1, MirrorParts DEF DeletesAreApart
<1>23. EventsAreHeld'
  <2> SUFFICES ASSUME NEW f \in GEvents \ loose, gevent[f].live, gevent[f].appt \notin torn PROVE Kept(f)' \/ Storing(f)'
    BY <1>7 DEF EventsAreHeld
  <2>1. Kept(f) \/ Storing(f) BY MirrorParts DEF EventsAreHeld
  <2>2. CASE Kept(f)
    <3>1. PICK b \in Appts : appt[b].event = f /\ (appt[b].status = "confirmed" \/ Deleting(b, f)) BY <2>2 DEF Kept
    <3>2. b # a BY <1>3, <3>1, MirrorTyped
    <3>3. Deleting(b, f) => Deleting(b, f)' BY <1>1, <1>7 DEF Deleting
    <3> QED BY <1>7, <3>1, <3>2, <3>3 DEF Kept
  <2>3. CASE Storing(f)
    <3>1. PICK s \in Callbacks : callback[s].at = "store" /\ callback[s].event = f /\ callback[s].appt = gevent[f].appt
      BY <2>3 DEF Storing
    <3>2. CASE s = t
      <4>1. f = e /\ a \notin torn BY <1>2, <3>1, <3>2
      <4>2. appt'[a].event = f /\ appt'[a].status = "confirmed" BY <1>3, <1>4, <1>7, <4>1
      <4> QED BY <1>2, <4>2 DEF Kept
    <3>3. CASE s # t BY <1>7, <3>1, <3>3 DEF Storing
    <3> QED BY <3>2, <3>3
  <2> QED BY <2>1, <2>2, <2>3
<1>24. BookingsAreShown'
  <2> SUFFICES ASSUME NEW b \in Appts \ missed, appt[b].status = "confirmed" PROVE IsShown(b)' \/ Showing(b)'
    BY <1>7, <1>8 DEF BookingsAreShown
  <2>1. IsShown(b) \/ Showing(b) BY MirrorParts DEF BookingsAreShown
  <2>2. CASE IsShown(b)
    <3>1. b # a BY <1>3, <2>2, MirrorTyped DEF IsShown
    <3> QED BY <1>7, <2>2, <3>1 DEF IsShown
  <2>3. CASE Showing(b)
    <3>1. PICK s \in Callbacks : /\ callback[s].appt = b
                                 /\ callback[s].at \in Preparing \/ (callback[s].at = "store" /\ gevent[callback[s].event].live)
      BY <2>3 DEF Showing
    <3>2. CASE s = t
      <4>1. b = a /\ gevent[e].live BY <1>1, <1>2, <3>1, <3>2 DEF Preparing
      <4> QED BY <1>3, <1>4, <1>7, <4>1 DEF IsShown
    <3>3. CASE s # t BY <1>7, <3>1, <3>3 DEF Showing
    <3> QED BY <3>2, <3>3
  <2> QED BY <2>1, <2>2, <2>3
<1> QED BY <1>11, <1>12, <1>13, <1>14, <1>15, <1>16, <1>17, <1>18, <1>19, <1>20, <1>21, <1>22, <1>23, <1>24 DEF MirrorInv

\* What threads at work do is kept when a free one starts.
LEMMA OthersWorkOn ==
  ASSUME callback \in [Callbacks -> CallRows], NEW t \in Callbacks, NEW d \in CallRows,
         callback[t] = FreeThread, callback' = [callback EXCEPT ![t] = d], gevent' = gevent
  PROVE  /\ callback' \in [Callbacks -> CallRows] /\ callback'[t] = d
         /\ \A s \in Callbacks : s # t => callback'[s] = callback[s]
         /\ \A a : Stamping(a) => Stamping(a)'
         /\ \A a, e : Deleting(a, e) => Deleting(a, e)'
         /\ \A e : Storing(e) => Storing(e)'
         /\ \A a : Showing(a) => Showing(a)'
<1>1. /\ callback' \in [Callbacks -> CallRows] /\ callback'[t] = d
      /\ \A s \in Callbacks : s # t => callback'[s] = callback[s]
  OBVIOUS
<1>2. \A s \in Callbacks : callback[s].at # "idle" => callback'[s] = callback[s] BY <1>1, FreeMirrorRow
<1>3. \A a : Stamping(a) => Stamping(a)' BY <1>2 DEF Stamping
<1>4. \A a, e : Deleting(a, e) => Deleting(a, e)' BY <1>2 DEF Deleting
<1>5. \A e : Storing(e) => Storing(e)' BY <1>2 DEF Storing
<1>6. \A a : Showing(a) => Showing(a)' BY <1>2 DEF Showing, Preparing
<1> QED BY <1>1, <1>3, <1>4, <1>5, <1>6

LEMMA TornGrows ==
  ASSUME torn \subseteq Appts, NEW a \in Appts, torn' = Torn(a)
  PROVE  /\ torn \subseteq torn' /\ torn' \subseteq Appts
         /\ \A s \in Callbacks : callback[s].appt = a => a \in torn'
         /\ a \notin torn' => \A s \in Callbacks : callback[s].appt # a
<1>1. CASE Busy(a)
  <2>1. torn' = torn \cup {a} BY <1>1 DEF Torn
  <2> QED BY <2>1
<1>2. CASE ~Busy(a)
  <2>1. torn' = torn BY <1>2 DEF Torn
  <2> QED BY <1>2, <2>1 DEF Busy
<1> QED BY <1>1, <1>2

\* A booking is confirmed, or cancelled, and a thread starts on it.
LEMMA BookedKeeps == ASSUME MirrorInv, NEW t \in Callbacks, NEW a \in Appts, Booked(t, a) PROVE MirrorInv'
<1>1. /\ callback[t] = FreeThread /\ appt[a].status = "absent"
      /\ UNCHANGED <<gevent, torn, loose, missed, shoots>> BY DEF Booked
<1>2. PICK r \in ApptRows : /\ appt' = [appt EXCEPT ![a] = r] /\ r.status = "confirmed"
                            /\ r.of = appt[a].of /\ r.event = appt[a].event /\ r.project = appt[a].project
  <2> PICK r : r = [appt[a] EXCEPT !.status = "confirmed"] OBVIOUS
  <2>1. appt' = [appt EXCEPT ![a] = r] BY DEF Booked
  <2>2. r \in ApptRows /\ r.status = "confirmed" /\ r.of = appt[a].of /\ r.event = appt[a].event /\ r.project = appt[a].project
    BY MirrorParts DEF ApptRows
  <2> QED BY <2>1, <2>2
<1>3. PICK d \in CallRows : callback' = [callback EXCEPT ![t] = d] /\ d.at = "read" /\ d.appt = a /\ d.event = NoEvent
  <2>1. PICK at : at = "read" OBVIOUS
  <2>2. at \in Confirms \cup Cancels /\ Starts(t, at, a) BY <2>1 DEF Confirms, Preparing, Booked
  <2> QED BY <2>1, <2>2, StartsRow
<1>4. d.at \in Confirms /\ d.at \notin Cancels /\ d.at \in Preparing /\ d # FreeThread
  BY <1>3, FreeMirrorRow DEF Confirms, Preparing, Cancels
<1>5. /\ callback' \in [Callbacks -> CallRows] /\ callback'[t] = d
      /\ \A s \in Callbacks : s # t => callback'[s] = callback[s]
      /\ \A b : Stamping(b) => Stamping(b)'
      /\ \A b, e : Deleting(b, e) => Deleting(b, e)'
      /\ \A e : Storing(e) => Storing(e)'
      /\ \A b : Showing(b) => Showing(b)'
  <2>1. gevent' = gevent /\ callback \in [Callbacks -> CallRows] BY <1>1, MirrorParts
  <2> QED BY <1>1, <1>3, <2>1, OthersWorkOn
<1>6. /\ appt' \in [Appts -> ApptRows] /\ appt'[a] = r /\ \A b \in Appts : b # a => appt'[b] = appt[b]
      /\ torn' = torn /\ loose' = loose /\ missed' = missed /\ shoots' = shoots /\ gevent' = gevent
  <2>1. torn' = torn /\ loose' = loose /\ missed' = missed /\ shoots' = shoots /\ gevent' = gevent BY <1>1
  <2> QED BY <1>2, <2>1, MirrorParts
<1>7. \A s \in Callbacks : callback[s].appt # a
  <2> SUFFICES ASSUME NEW s \in Callbacks, callback[s].appt = a PROVE FALSE OBVIOUS
  <2>1. callback[s] # FreeThread BY FreeMirrorRow, MirrorTyped
  <2>2. callback[s].at # "idle" /\ Fits(callback[s], appt[a], a \in torn) /\ callback[s] \in CallRows
    BY <2>1, MirrorParts DEF ThreadsFit
  <2>3. callback[s].at \in Confirms \cup Cancels BY <2>2 DEF CallRows
  <2> QED BY <1>1, <2>2, <2>3 DEF Fits
<1>8. appt[a].of = NoAppt /\ appt[a].event = NoEvent /\ appt[a].project = NoAppt /\ a \notin shoots
  BY <1>1, MirrorParts DEF AbsentAreBlank
<1>9. \A b \in Appts : appt[b].of # a BY <1>1, MirrorParts DEF OriginalsAreCancelled
<1>10. \A b \in Appts : /\ appt'[b].of = appt[b].of /\ appt'[b].project = appt[b].project /\ appt'[b].event = appt[b].event
                        /\ appt'[b].status = appt[b].status \/ (b = a /\ appt'[b].status = "confirmed") BY <1>2, <1>6
<1>11. MirrorTypeOK'
  BY <1>5, <1>6, MirrorParts DEF MirrorTypeOK, ApptRows, GRows, CallRows, ApptIds, EventIds, Confirms, Preparing, Cancels
<1>12. ThreadsFit'
  <2>1. Fits(d, r, a \in torn) BY <1>2, <1>3, <1>4 DEF Fits
  <2> QED BY <1>3, <1>4, <1>5, <1>6, <1>7, <2>1, FreeMirrorRow, MirrorParts DEF ThreadsFit
<1>13. ThreadsApart' BY <1>3, <1>5, <1>7, MirrorParts DEF ThreadsApart, Collide
<1>14. AbsentAreBlank' BY <1>2, <1>6, MirrorParts DEF AbsentAreBlank
<1>15. OriginalsAreCancelled' BY <1>1, <1>6, <1>10, MirrorParts DEF OriginalsAreCancelled
<1>16. OriginalsAreLeft' BY <1>3, <1>5, <1>6, <1>9, <1>10, MirrorParts DEF OriginalsAreLeft
<1>17. HeirsInherit' BY <1>6, <1>10, MirrorParts DEF HeirsInherit
<1>18. ProjectsAreStamped' BY <1>5, <1>6, <1>10, MirrorParts DEF ProjectsAreStamped
<1>19. EventsAreKnown' BY <1>3, <1>5, <1>6, <1>10, MirrorParts, MirrorTyped DEF EventsAreKnown
<1>20. EventsAreApart' BY <1>10, MirrorParts DEF EventsAreApart
<1>21. StoresAreApart' BY <1>3, <1>5, <1>10, MirrorParts DEF StoresAreApart
<1>22. DeletesAreApart'
  <2> SUFFICES ASSUME NEW s \in Callbacks, callback'[s].at = "delete", NEW b \in Appts, appt'[b].status = "confirmed"
      PROVE  appt'[b].event # callback'[s].event BY DEF DeletesAreApart
  <2>1. s # t /\ callback'[s] = callback[s] /\ callback[s] # FreeThread BY <1>3, <1>5, FreeMirrorRow
  <2>2. callback[s].event \in GEvents BY <2>1, MirrorParts DEF ThreadsFit, Fits
  <2> QED BY <1>8, <1>10, <2>1, <2>2, MirrorParts, MirrorTyped DEF DeletesAreApart
<1>23. EventsAreHeld'
  <2> SUFFICES ASSUME NEW f \in GEvents \ loose, gevent[f].live, gevent[f].appt \notin torn PROVE Kept(f)' \/ Storing(f)'
    BY <1>6 DEF EventsAreHeld
  <2>1. Kept(f) \/ Storing(f) BY MirrorParts DEF EventsAreHeld
  <2>2. CASE Kept(f) BY <1>5, <1>10, <2>2 DEF Kept
  <2>3. CASE Storing(f) BY <1>5, <2>3
  <2> QED BY <2>1, <2>2, <2>3
<1>24. BookingsAreShown'
  <2> SUFFICES ASSUME NEW b \in Appts \ missed, appt'[b].status = "confirmed" PROVE IsShown(b)' \/ Showing(b)'
    BY <1>6 DEF BookingsAreShown
  <2>1. CASE b = a BY <1>3, <1>4, <1>5, <2>1 DEF Showing
  <2>2. CASE b # a
    <3>1. IsShown(b) \/ Showing(b) BY <1>10, <2>2, MirrorParts DEF BookingsAreShown
    <3> QED BY <1>5, <1>6, <2>2, <3>1 DEF IsShown
  <2> QED BY <2>1, <2>2
<1> QED BY <1>11, <1>12, <1>13, <1>14, <1>15, <1>16, <1>17, <1>18, <1>19, <1>20, <1>21, <1>22, <1>23, <1>24 DEF MirrorInv

LEMMA CancelledKeeps == ASSUME MirrorInv, NEW t \in Callbacks, NEW a \in Appts, Cancelled(t, a) PROVE MirrorInv'
<1>1. /\ callback[t] = FreeThread /\ appt[a].status = "confirmed" /\ torn' = Torn(a)
      /\ UNCHANGED <<gevent, loose, missed, shoots>> BY DEF Cancelled
<1>2. PICK r \in ApptRows : /\ appt' = [appt EXCEPT ![a] = r] /\ r.status = "cancelled"
                            /\ r.of = appt[a].of /\ r.event = appt[a].event /\ r.project = appt[a].project
  <2> PICK r : r = [appt[a] EXCEPT !.status = "cancelled"] OBVIOUS
  <2>1. appt' = [appt EXCEPT ![a] = r] BY DEF Cancelled
  <2>2. r \in ApptRows /\ r.status = "cancelled" /\ r.of = appt[a].of /\ r.event = appt[a].event /\ r.project = appt[a].project
    BY MirrorParts DEF ApptRows
  <2> QED BY <2>1, <2>2
<1>3. PICK d \in CallRows : callback' = [callback EXCEPT ![t] = d] /\ d.at = "find" /\ d.appt = a /\ d.event = NoEvent
  <2>1. PICK at : at = "find" OBVIOUS
  <2>2. at \in Confirms \cup Cancels /\ Starts(t, at, a) BY <2>1 DEF Cancels, Cancelled
  <2> QED BY <2>1, <2>2, StartsRow
<1>4. d.at \notin Confirms /\ d.at \in Cancels /\ d # FreeThread
  BY <1>3, FreeMirrorRow DEF Confirms, Preparing, Cancels
<1>5. /\ callback' \in [Callbacks -> CallRows] /\ callback'[t] = d
      /\ \A s \in Callbacks : s # t => callback'[s] = callback[s]
      /\ \A b : Stamping(b) => Stamping(b)'
      /\ \A b, e : Deleting(b, e) => Deleting(b, e)'
      /\ \A e : Storing(e) => Storing(e)'
      /\ \A b : Showing(b) => Showing(b)'
  <2>1. gevent' = gevent /\ callback \in [Callbacks -> CallRows] BY <1>1, MirrorParts
  <2> QED BY <1>1, <1>3, <2>1, OthersWorkOn
<1>6. /\ appt' \in [Appts -> ApptRows] /\ appt'[a] = r /\ \A b \in Appts : b # a => appt'[b] = appt[b]
      /\ loose' = loose /\ missed' = missed /\ shoots' = shoots /\ gevent' = gevent
  <2>1. loose' = loose /\ missed' = missed /\ shoots' = shoots /\ gevent' = gevent BY <1>1
  <2> QED BY <1>2, <2>1, MirrorParts
<1>7. /\ torn \subseteq torn' /\ torn' \subseteq Appts
      /\ \A s \in Callbacks : callback[s].appt = a => a \in torn' BY <1>1, MirrorParts, TornGrows
<1>8. \A s \in Callbacks : callback[s].appt = a => callback[s].at \notin Cancels
  <2> SUFFICES ASSUME NEW s \in Callbacks, callback[s].appt = a PROVE callback[s].at \notin Cancels OBVIOUS
  <2>1. callback[s] # FreeThread BY FreeMirrorRow, MirrorTyped
  <2>2. Fits(callback[s], appt[a], a \in torn) BY <2>1, MirrorParts DEF ThreadsFit
  <2> QED BY <1>1, <2>2 DEF Fits
<1>9. \A b \in Appts : appt[b].of # a BY <1>1, MirrorParts DEF OriginalsAreCancelled
<1>10. \A b \in Appts : /\ appt'[b].of = appt[b].of /\ appt'[b].project = appt[b].project /\ appt'[b].event = appt[b].event
                        /\ appt'[b].status = appt[b].status \/ (b = a /\ appt'[b].status = "cancelled") BY <1>2, <1>6
<1>11. MirrorTypeOK'
  BY <1>5, <1>6, <1>7, MirrorParts DEF MirrorTypeOK, ApptRows, GRows, CallRows, ApptIds, EventIds, Confirms, Preparing, Cancels
<1>12. ThreadsFit'
  <2>1. Fits(d, r, a \in torn') BY <1>2, <1>3, <1>4 DEF Fits
  <2>2. ASSUME NEW s \in Callbacks, s # t, callback[s] # FreeThread
        PROVE  /\ callback[s].appt \in Appts /\ callback[s].at # "idle"
               /\ Fits(callback[s], appt'[callback[s].appt], callback[s].appt \in torn')
    <3>1. /\ callback[s].appt \in Appts /\ callback[s].at # "idle"
          /\ Fits(callback[s], appt[callback[s].appt], callback[s].appt \in torn) BY <2>2, MirrorParts DEF ThreadsFit
    <3>2. CASE callback[s].appt = a
      <4>1. a \in torn' /\ callback[s].at \notin Cancels BY <1>7, <1>8, <3>2
      <4> QED BY <1>1, <1>2, <1>6, <3>1, <3>2, <4>1 DEF Fits
    <3>3. CASE callback[s].appt # a
      <4> QED BY <1>6, <1>7, <3>1, <3>3 DEF Fits
    <3> QED BY <3>2, <3>3
  <2> QED BY <1>3, <1>4, <1>5, <1>6, <2>1, <2>2, FreeMirrorRow DEF ThreadsFit
<1>13. ThreadsApart'
  <2> SUFFICES ASSUME NEW s \in Callbacks, NEW u \in Callbacks, s # u, Collide(callback'[s], callback'[u]) PROVE FALSE
    BY DEF ThreadsApart
  <2> QED BY <1>3, <1>4, <1>5, <1>8, MirrorParts DEF ThreadsApart, Collide
<1>14. AbsentAreBlank' BY <1>2, <1>6, MirrorParts DEF AbsentAreBlank
<1>15. OriginalsAreCancelled' BY <1>1, <1>6, <1>10, MirrorParts DEF OriginalsAreCancelled
<1>16. OriginalsAreLeft' BY <1>3, <1>5, <1>6, <1>7, <1>9, <1>10, MirrorParts DEF OriginalsAreLeft
<1>17. HeirsInherit' BY <1>6, <1>7, <1>10, MirrorParts DEF HeirsInherit
<1>18. ProjectsAreStamped' BY <1>5, <1>6, <1>7, <1>10, MirrorParts DEF ProjectsAreStamped
<1>19. EventsAreKnown' BY <1>3, <1>5, <1>6, <1>10, MirrorParts, MirrorTyped DEF EventsAreKnown
<1>20. EventsAreApart' BY <1>10, MirrorParts DEF EventsAreApart
<1>21. StoresAreApart' BY <1>3, <1>5, <1>10, MirrorParts DEF StoresAreApart
<1>22. DeletesAreApart' BY <1>3, <1>5, <1>10, MirrorParts DEF DeletesAreApart
<1>23. EventsAreHeld'
  <2> SUFFICES ASSUME NEW f \in GEvents \ loose, gevent[f].live, gevent[f].appt \notin torn' PROVE Kept(f)' \/ Storing(f)'
    BY <1>6 DEF EventsAreHeld
  <2>1. Kept(f) \/ Storing(f) BY <1>7, MirrorParts DEF EventsAreHeld
  <2>2. CASE Kept(f)
    <3>1. PICK b \in Appts : appt[b].event = f /\ (appt[b].status = "confirmed" \/ Deleting(b, f)) BY <2>2 DEF Kept
    <3>2. CASE b = a
      <4>1. Deleting(a, f)' BY <1>3, <1>5 DEF Deleting
      <4> QED BY <1>10, <3>1, <3>2, <4>1 DEF Kept
    <3>3. CASE b # a BY <1>5, <1>10, <3>1, <3>3 DEF Kept
    <3> QED BY <3>2, <3>3
  <2>3. CASE Storing(f) BY <1>5, <2>3
  <2> QED BY <2>1, <2>2, <2>3
<1>24. BookingsAreShown' BY <1>5, <1>6, <1>10, MirrorParts DEF BookingsAreShown, IsShown
<1> QED BY <1>11, <1>12, <1>13, <1>14, <1>15, <1>16, <1>17, <1>18, <1>19, <1>20, <1>21, <1>22, <1>23, <1>24 DEF MirrorInv

\* A booking is moved: its replacement has its event and its project.
LEMMA MovedKeeps ==
  ASSUME MirrorInv, NEW t \in Callbacks, NEW a \in Appts, NEW b \in Appts, Moved(t, a, b)
  PROVE  MirrorInv'
<1>1. /\ callback[t] = FreeThread /\ appt[a].status = "confirmed" /\ appt[b].status = "absent" /\ torn' = Torn(a)
      /\ UNCHANGED <<gevent, loose, missed, shoots>> BY DEF Moved
<1>2. a # b BY <1>1
<1>3. PICK r \in ApptRows : /\ appt'[b] = r /\ r.status = "confirmed"
                            /\ r.of = a /\ r.event = appt[a].event /\ r.project = appt[a].project
  <2> PICK r : r = Replacement(a) OBVIOUS
  <2>1. appt'[b] = r BY <1>2, MirrorParts DEF Moved
  <2>2. r \in ApptRows /\ r.status = "confirmed" /\ r.of = a /\ r.event = appt[a].event /\ r.project = appt[a].project
    BY <1>1, MirrorParts DEF Replacement, ApptRows, ApptIds
  <2> QED BY <2>1, <2>2
<1>4. PICK q \in ApptRows : /\ appt'[a] = q /\ q.status = "cancelled"
                            /\ q.of = appt[a].of /\ q.event = NoEvent /\ q.project = appt[a].project
  <2> PICK q : q = [appt[a] EXCEPT !.status = "cancelled", !.event = NoEvent] OBVIOUS
  <2>1. appt'[a] = q BY <1>2, MirrorParts DEF Moved
  <2>2. q \in ApptRows /\ q.status = "cancelled" /\ q.of = appt[a].of /\ q.event = NoEvent /\ q.project = appt[a].project
    BY MirrorParts DEF ApptRows, EventIds
  <2> QED BY <2>1, <2>2
<1>5. /\ appt' \in [Appts -> ApptRows] /\ \A x \in Appts : x # a /\ x # b => appt'[x] = appt[x]
      /\ loose' = loose /\ missed' = missed /\ shoots' = shoots /\ gevent' = gevent
  <2>1. loose' = loose /\ missed' = missed /\ shoots' = shoots /\ gevent' = gevent BY <1>1
  <2>2. \A x \in Appts : x # a /\ x # b => appt'[x] = appt[x] BY MirrorParts DEF Moved
  <2>3. appt' = [x \in Appts |-> appt'[x]] BY MirrorParts DEF Moved
  <2>4. \A x \in Appts : appt'[x] \in ApptRows BY <1>3, <1>4, <2>2, MirrorParts
  <2> QED BY <2>1, <2>2, <2>3, <2>4
<1>6. PICK d \in CallRows : callback' = [callback EXCEPT ![t] = d] /\ d.at = "read" /\ d.appt = b /\ d.event = NoEvent
  <2>1. PICK at : at = "read" OBVIOUS
  <2>2. at \in Confirms \cup Cancels /\ Starts(t, at, b) BY <2>1 DEF Confirms, Preparing, Moved
  <2> QED BY <2>1, <2>2, StartsRow
<1>7. d.at \in Confirms /\ d.at \notin Cancels /\ d.at \in Preparing /\ d # FreeThread
  BY <1>6, FreeMirrorRow DEF Confirms, Preparing, Cancels
<1>8. /\ callback' \in [Callbacks -> CallRows] /\ callback'[t] = d
      /\ \A s \in Callbacks : s # t => callback'[s] = callback[s]
      /\ \A x : Stamping(x) => Stamping(x)'
      /\ \A x, e : Deleting(x, e) => Deleting(x, e)'
      /\ \A e : Storing(e) => Storing(e)'
      /\ \A x : Showing(x) => Showing(x)'
  <2>1. gevent' = gevent /\ callback \in [Callbacks -> CallRows] BY <1>1, MirrorParts
  <2> QED BY <1>1, <1>6, <2>1, OthersWorkOn
<1>9. /\ torn \subseteq torn' /\ torn' \subseteq Appts
      /\ \A s \in Callbacks : callback[s].appt = a => a \in torn'
      /\ a \notin torn' => \A s \in Callbacks : callback[s].appt # a BY <1>1, MirrorParts, TornGrows
<1>10. \A s \in Callbacks : callback[s].appt = a => callback[s].at \notin Cancels
  <2> SUFFICES ASSUME NEW s \in Callbacks, callback[s].appt = a PROVE callback[s].at \notin Cancels OBVIOUS
  <2>1. callback[s] # FreeThread BY FreeMirrorRow, MirrorTyped
  <2>2. Fits(callback[s], appt[a], a \in torn) BY <2>1, MirrorParts DEF ThreadsFit
  <2> QED BY <1>1, <2>2 DEF Fits
<1>11. \A s \in Callbacks : callback[s].appt # b
  <2> SUFFICES ASSUME NEW s \in Callbacks, callback[s].appt = b PROVE FALSE OBVIOUS
  <2>1. callback[s] # FreeThread BY FreeMirrorRow, MirrorTyped
  <2>2. callback[s].at # "idle" /\ Fits(callback[s], appt[b], b \in torn) /\ callback[s] \in CallRows
    BY <2>1, MirrorParts DEF ThreadsFit
  <2>3. callback[s].at \in Confirms \cup Cancels BY <2>2 DEF CallRows
  <2> QED BY <1>1, <2>2, <2>3 DEF Fits
<1>12. /\ appt[b].of = NoAppt /\ appt[b].event = NoEvent /\ appt[b].project = NoAppt /\ b \notin shoots
       /\ \A x \in Appts : appt[x].of # a /\ appt[x].of # b
  BY <1>1, MirrorParts DEF AbsentAreBlank, OriginalsAreCancelled
<1>13. \A x \in Appts : /\ x # b => appt'[x].of = appt[x].of /\ appt'[x].project = appt[x].project
                        /\ appt'[x].status = "confirmed" => x # a /\ (x = b \/ appt[x].status = "confirmed")
  BY <1>4, <1>5
<1>14. MirrorTypeOK'
  BY <1>5, <1>8, <1>9, MirrorParts DEF MirrorTypeOK, ApptRows, GRows, CallRows, ApptIds, EventIds, Confirms, Preparing, Cancels
<1>15. ThreadsFit'
  <2>1. Fits(d, r, b \in torn') BY <1>3, <1>6, <1>7 DEF Fits
  <2>2. ASSUME NEW s \in Callbacks, s # t, callback[s] # FreeThread
        PROVE  /\ callback[s].appt \in Appts /\ callback[s].at # "idle"
               /\ Fits(callback[s], appt'[callback[s].appt], callback[s].appt \in torn')
    <3>1. /\ callback[s].appt \in Appts /\ callback[s].at # "idle"
          /\ Fits(callback[s], appt[callback[s].appt], callback[s].appt \in torn) BY <2>2, MirrorParts DEF ThreadsFit
    <3>2. CASE callback[s].appt = a
      <4>1. a \in torn' /\ callback[s].at \notin Cancels BY <1>9, <1>10, <3>2
      <4>2. Fits(callback[s], appt[a], a \in torn) BY <3>1, <3>2
      <4>3. Fits(callback[s], q, a \in torn') BY <1>4, <4>1, <4>2 DEF Fits
      <4> QED BY <1>4, <3>1, <3>2, <4>3
    <3>3. CASE callback[s].appt # a
      <4>1. callback[s].appt # b BY <1>11
      <4>2. appt'[callback[s].appt] = appt[callback[s].appt] BY <1>5, <3>1, <3>3, <4>1
      <4> QED BY <1>9, <3>1, <4>2 DEF Fits
    <3> QED BY <3>2, <3>3
  <2> QED BY <1>3, <1>6, <1>7, <1>8, <2>1, <2>2, FreeMirrorRow DEF ThreadsFit
<1>16. ThreadsApart' BY <1>6, <1>8, <1>11, MirrorParts DEF ThreadsApart, Collide
<1>17. AbsentAreBlank' BY <1>3, <1>4, <1>5, MirrorParts DEF AbsentAreBlank
<1>18. OriginalsAreCancelled'
  <2> SUFFICES ASSUME NEW x \in Appts, appt'[x].of \in Appts
      PROVE  appt'[x].of # x /\ appt'[appt'[x].of].status = "cancelled" BY DEF OriginalsAreCancelled
  <2>1. CASE x = b BY <1>2, <1>3, <1>4, <2>1
  <2>2. CASE x # b
    <3>1. appt'[x].of = appt[x].of BY <1>13, <2>2
    <3>2. /\ appt[x].of # x /\ appt[appt[x].of].status = "cancelled" /\ appt[x].of # a /\ appt[x].of # b
      BY <1>12, <2>2, <3>1, MirrorParts DEF OriginalsAreCancelled
    <3> QED BY <1>5, <3>1, <3>2
  <2> QED BY <2>1, <2>2
<1>19. OriginalsAreLeft'
  <2> SUFFICES ASSUME NEW x \in Appts, NEW s \in Callbacks, appt'[x].of \in Appts, callback'[s].appt = appt'[x].of
      PROVE  appt'[x].of \in torn' /\ callback'[s].at \notin Cancels BY DEF OriginalsAreLeft
  <2>1. s # t
    <3>1. CASE x = b BY <1>2, <1>3, <1>6, <1>8, <3>1
    <3>2. CASE x # b BY <1>6, <1>8, <1>12, <1>13, <3>2
    <3> QED BY <3>1, <3>2
  <2>2. callback'[s] = callback[s] BY <1>8, <2>1
  <2>3. CASE x = b BY <1>3, <1>9, <1>10, <2>2, <2>3
  <2>4. CASE x # b
    <3>1. appt'[x].of = appt[x].of BY <1>13, <2>4
    <3> QED BY <1>9, <2>2, <3>1, MirrorParts DEF OriginalsAreLeft
  <2> QED BY <2>3, <2>4
<1>20. HeirsInherit'
  <2> SUFFICES ASSUME NEW x \in Appts, appt'[x].of \in shoots, appt'[x].of \notin torn'
      PROVE  x \notin shoots /\ appt'[x].project # NoAppt BY <1>5 DEF HeirsInherit
  <2>1. CASE x = b
    <3>1. a \in shoots /\ a \notin torn' /\ a \notin torn BY <1>3, <1>9, <2>1
    <3>2. ~Stamping(a) BY <1>9, <3>1 DEF Stamping
    <3>3. appt[a].project # NoAppt BY <3>1, <3>2, MirrorParts DEF ProjectsAreStamped
    <3> QED BY <1>3, <1>12, <2>1, <3>3
  <2>2. CASE x # b
    <3>1. appt'[x].of = appt[x].of /\ appt'[x].project = appt[x].project BY <1>13, <2>2
    <3> QED BY <1>9, <3>1, MirrorParts DEF HeirsInherit
  <2> QED BY <2>1, <2>2
<1>21. ProjectsAreStamped'
  <2> SUFFICES ASSUME NEW x \in shoots, x \notin torn', appt'[x].project = NoAppt PROVE Stamping(x)'
    BY <1>5, MirrorParts DEF ProjectsAreStamped
  <2>1. x # b BY <1>12
  <2>2. x \in Appts /\ appt[x].project = NoAppt /\ x \notin torn BY <1>9, <1>13, <2>1, MirrorParts
  <2> QED BY <1>8, <2>2, MirrorParts DEF ProjectsAreStamped
<1>22. EventsAreKnown'
  <2> SUFFICES ASSUME NEW e \in GEvents, gevent[e].appt = NoAppt
      PROVE  (\A x \in Appts : appt'[x].event # e) /\ (\A s \in Callbacks : callback'[s].event # e)
    BY <1>5 DEF EventsAreKnown
  <2>1. (\A x \in Appts : appt[x].event # e) /\ (\A s \in Callbacks : callback[s].event # e)
    BY MirrorParts DEF EventsAreKnown
  <2> QED BY <1>3, <1>4, <1>5, <1>6, <1>8, <2>1, MirrorTyped
<1>23. EventsAreApart'
  <2> SUFFICES ASSUME NEW x \in Appts, NEW y \in Appts, x # y, appt'[x].event = appt'[y].event
      PROVE  appt'[x].event = NoEvent BY DEF EventsAreApart
  <2>1. CASE x = a \/ y = a BY <1>4, <2>1
  <2>2. CASE x = b /\ y # a
    <3>1. appt[a].event = appt[y].event /\ a # y BY <1>3, <1>5, <2>2
    <3> QED BY <1>3, <2>2, <3>1, MirrorParts DEF EventsAreApart
  <2>3. CASE y = b /\ x # a
    <3>1. appt[a].event = appt[x].event /\ a # x BY <1>3, <1>5, <2>3
    <3> QED BY <1>3, <2>3, <3>1, MirrorParts DEF EventsAreApart
  <2>4. CASE x \notin {a, b} /\ y \notin {a, b} BY <1>5, <2>4, MirrorParts DEF EventsAreApart
  <2> QED BY <2>1, <2>2, <2>3, <2>4
<1>24. \A x \in Appts : \/ appt'[x].event = NoEvent
                        \/ x = b /\ appt'[x].event = appt[a].event
                        \/ x \notin {a, b} /\ appt'[x].event = appt[x].event BY <1>3, <1>4, <1>5
<1>25. StoresAreApart'
  <2> SUFFICES ASSUME NEW s \in Callbacks, callback'[s].at = "store"
      PROVE  /\ \A x \in Appts : appt'[x].event # callback'[s].event
             /\ \A u \in Callbacks : callback'[u].at \in {"store", "delete"} /\ callback'[u].event = callback'[s].event => u = s
    BY DEF StoresAreApart
  <2>1. s # t /\ callback'[s] = callback[s] /\ callback[s] # FreeThread BY <1>6, <1>8, FreeMirrorRow
  <2>2. /\ \A x \in Appts : appt[x].event # callback[s].event
        /\ \A u \in Callbacks : callback[u].at \in {"store", "delete"} /\ callback[u].event = callback[s].event => u = s
    BY <2>1, MirrorParts DEF StoresAreApart
  <2>3. callback[s].event # NoEvent BY <2>1, MirrorParts, MirrorTyped DEF ThreadsFit, Fits
  <2>4. \A u \in Callbacks : callback'[u].at \in {"store", "delete"} => callback'[u] = callback[u] BY <1>6, <1>8
  <2> QED BY <1>24, <2>1, <2>2, <2>3, <2>4
<1>26. DeletesAreApart'
  <2> SUFFICES ASSUME NEW s \in Callbacks, callback'[s].at = "delete", NEW x \in Appts, appt'[x].status = "confirmed"
      PROVE  appt'[x].event # callback'[s].event BY DEF DeletesAreApart
  <2>1. s # t /\ callback'[s] = callback[s] /\ callback[s] # FreeThread BY <1>6, <1>8, FreeMirrorRow
  <2>2. callback[s].event # NoEvent BY <2>1, MirrorParts, MirrorTyped DEF ThreadsFit, Fits
  <2>3. \A y \in Appts : appt[y].status = "confirmed" => appt[y].event # callback[s].event
    BY <2>1, MirrorParts DEF DeletesAreApart
  <2> QED BY <1>1, <1>13, <1>24, <2>1, <2>2, <2>3
<1>27. EventsAreHeld'
  <2> SUFFICES ASSUME NEW f \in GEvents \ loose, gevent[f].live, gevent[f].appt \notin torn' PROVE Kept(f)' \/ Storing(f)'
    BY <1>5 DEF EventsAreHeld
  <2>1. Kept(f) \/ Storing(f) BY <1>9, MirrorParts DEF EventsAreHeld
  <2>2. CASE Kept(f)
    <3>1. PICK x \in Appts : appt[x].event = f /\ (appt[x].status = "confirmed" \/ Deleting(x, f)) BY <2>2 DEF Kept
    <3>2. CASE x = a BY <1>3, <3>1, <3>2 DEF Kept
    <3>3. CASE x # a
      <4>1. x # b BY <1>12, <3>1, MirrorTyped
      <4> QED BY <1>5, <1>8, <3>1, <3>3, <4>1 DEF Kept
    <3> QED BY <3>2, <3>3
  <2>3. CASE Storing(f) BY <1>8, <2>3
  <2> QED BY <2>1, <2>2, <2>3
<1>28. BookingsAreShown'
  <2> SUFFICES ASSUME NEW x \in Appts \ missed, appt'[x].status = "confirmed" PROVE IsShown(x)' \/ Showing(x)'
    BY <1>5 DEF BookingsAreShown
  <2>1. CASE x = b BY <1>6, <1>7, <1>8, <2>1 DEF Showing
  <2>2. CASE x # b
    <3>1. x # a /\ appt'[x] = appt[x] BY <1>5, <1>13, <2>2
    <3>2. IsShown(x) \/ Showing(x) BY <3>1, MirrorParts DEF BookingsAreShown
    <3> QED BY <1>5, <1>8, <3>1, <3>2 DEF IsShown
  <2> QED BY <2>1, <2>2
<1> QED BY <1>14, <1>15, <1>16, <1>17, <1>18, <1>19, <1>20, <1>21, <1>22, <1>23, <1>25, <1>26, <1>27, <1>28 DEF MirrorInv

LEMMA MirrorStep == ASSUME MirrorInv, MirrorNext PROVE MirrorInv'
BY BookedKeeps, CancelledKeeps, MovedKeeps, ReadConfirmedKeeps, DropOldKeeps, DropForgetKeeps, SyncEventKeeps,
   PostEventKeeps, StoreEventKeeps, LoadAgainKeeps, LinkStudioKeeps, MakeProjectKeeps, StampProjectKeeps,
   FindEventKeeps, DeleteEventKeeps, ForgetEventKeeps, CallbackDiesKeeps, VanishKeeps DEF MirrorNext

LEMMA MirrorRests == ASSUME MirrorInv, UNCHANGED mirrorVars PROVE MirrorInv'
<1>1. UNCHANGED <<appt, gevent, callback, torn, loose, missed, shoots>> BY DEF mirrorVars
<1>2. /\ MirrorTypeOK' /\ ThreadsFit' /\ ThreadsApart' /\ AbsentAreBlank' /\ OriginalsAreCancelled' /\ OriginalsAreLeft'
      /\ HeirsInherit' /\ EventsAreKnown' /\ EventsAreApart' /\ StoresAreApart' /\ DeletesAreApart'
  BY <1>1, MirrorParts DEF MirrorTypeOK, ThreadsFit, ThreadsApart, AbsentAreBlank, OriginalsAreCancelled,
       OriginalsAreLeft, HeirsInherit, EventsAreKnown, EventsAreApart, StoresAreApart, DeletesAreApart
<1>3. ProjectsAreStamped' BY <1>1, MirrorParts DEF ProjectsAreStamped, Stamping
<1>4. EventsAreHeld' BY <1>1, MirrorParts DEF EventsAreHeld, Kept, Deleting, Storing
<1>5. BookingsAreShown' BY <1>1, MirrorParts DEF BookingsAreShown, IsShown, Showing
<1> QED BY <1>2, <1>3, <1>4, <1>5 DEF MirrorInv
(* BookingNotices: the last booking of the family is the one the mails end *)
(* with, and, when nothing failed or overlapped, one thread at a time sees *)
(* to its page, its inquiry and its Session.                               *)

PageIds    == NotionPages \cup {NoPg}
RebookRow  == [status : {"absent", "confirmed", "cancelled"}, page : PageIds, session : PageIds, inquiry : BOOLEAN]
PgRows     == [of : Rebooked \cup {0}, says : {"none", "Confirmed", "Cancelled", "Booked"}]
Early      == {"load", "mail", "inquiry", "read page"}
Late       == {"write page", "stamp", "session", "stamp session"}
NoticeRows == [at : {"idle"} \cup Early \cup Late, of : Rebooked \cup {0}, kind : {"confirm", "cancel"},
               says : {"none", "Confirmed", "Cancelled"}, page : PageIds]
Envelopes  == [method : {"none", "REQUEST", "CANCEL"}, sequence : Nat]

NoticesTyped ==
  /\ visit \in [Rebooked -> RebookRow] /\ pg \in [NotionPages -> PgRows] /\ notice \in [Notifiers -> NoticeRows]
  /\ mail \subseteq Envelopes /\ diaryOf \in Envelopes /\ notes \in Nat
  /\ clashed \subseteq Rebooked /\ unsent \in BOOLEAN /\ failed \in BOOLEAN

\* Of the family, every booking but the last is cancelled.
IsThere(a) == visit[a].status # "absent"
IsLast(a)  == IsThere(a) /\ \A b \in Rebooked : IsThere(b) => b <= a
FamilyIsInLine ==
  /\ \A a \in Rebooked : ~IsThere(a) => visit[a] = NoVisit
  /\ \A a \in Rebooked : IsThere(a) => a = 1 \/ a - 1 \in Rebooked
  /\ \A a, b \in Rebooked : IsThere(a) /\ IsThere(b) /\ a < b => visit[a].status = "cancelled"
  /\ \A a \in Rebooked : IsThere(a) => IsThere(1) /\ \E b \in Rebooked : IsLast(b)

\* Threads work for bookings there are, and cancel the last.
NotifiersFit ==
  \A n \in Notifiers :
    \/ notice[n] = FreeNotifier
    \/ /\ notice[n].at # "idle" /\ notice[n].of \in Rebooked /\ IsThere(notice[n].of)
       /\ notice[n].kind = "cancel" => visit[notice[n].of].status = "cancelled" /\ IsLast(notice[n].of)

\* A mail invites to a booking there is, or calls off the last.
InvitesTo(m, a) == m.method = "REQUEST" /\ m.sequence = a - 1
CallsOff(m, a)  == m.method = "CANCEL" /\ m.sequence = a
MailIsFair(m)   == \E a \in Rebooked : \/ InvitesTo(m, a) /\ IsThere(a)
                                       \/ CallsOff(m, a) /\ IsLast(a) /\ visit[a].status = "cancelled"
MailsAreFair    == (\A m \in mail : MailIsFair(m)) /\ (diaryOf.method = "none" \/ MailIsFair(diaryOf))

\* Unless a mail was not sent, the last booking's is under way, or has arrived, or a
\* thread is about to send it.
DueKind(a)    == IF visit[a].status = "cancelled" THEN "cancel" ELSE "confirm"
IsDue(m, a)   == IF visit[a].status = "cancelled" THEN CallsOff(m, a) ELSE InvitesTo(m, a)
WillSend(a)   == \E n \in Notifiers : notice[n].of = a /\ notice[n].kind = DueKind(a) /\ notice[n].at \in {"load", "mail"}
IsTold(a)     == (\E m \in mail : IsDue(m, a)) \/ IsDue(diaryOf, a) \/ WillSend(a)
LastIsTold    == unsent \/ \A a \in Rebooked : IsLast(a) => IsTold(a)

MailHalf == NoticesTyped /\ FamilyIsInLine /\ NotifiersFit /\ MailsAreFair /\ LastIsTold

\* While nothing failed or overlapped, one thread at most is at work, for the last.
Calm == ~failed /\ clashed = {}
OneAtWork ==
  \A n \in Notifiers : notice[n].at # "idle" =>
    /\ IsLast(notice[n].of) /\ notice[n].kind = DueKind(notice[n].of)
    /\ \A k \in Notifiers : notice[k].at # "idle" => k = n
PageFollows(c, v, s) ==
  /\ c.at \in Early \cup {"write page"} /\ v.page # NoPg => pg[v.page].says = "Confirmed"
  /\ c.at = "write page" => c.page = v.page /\ c.says = s
  /\ c.at = "stamp" => v.page = NoPg /\ c.page \in NotionPages /\ pg[c.page].says = s
  /\ c.at \in {"session", "stamp session"} => v.page # NoPg /\ pg[v.page].says = s
  /\ c.at = "stamp session" => v.session = NoPg
PagesFollow  == \A n \in Notifiers : notice[n].at # "idle" => PageFollows(notice[n], visit[notice[n].of], SaysOf(notice[n].of))
PagesRest    == \A a \in Rebooked : IsLast(a) /\ ~AtWork(a) => visit[a].page # NoPg /\ pg[visit[a].page].says = SaysOf(a)
LeftHaveNone == \A a \in Rebooked : ~IsLast(a) => visit[a].page = NoPg
Stamping2(p) == \E n \in Notifiers : notice[n].at = "stamp" /\ notice[n].page = p
ConfirmedAreHeld == \A p \in NotionPages : pg[p].says = "Confirmed" => (\E a \in Rebooked : visit[a].page = p) \/ Stamping2(p)

InquiryIsOne ==
  /\ notes \in {0, 1}
  /\ \A a \in Rebooked : IsLast(a) => (visit[a].inquiry <=> notes = 1)
  /\ notes = 1 => \E a \in Rebooked : IsThere(a)
StampingSession(p) == \E n \in Notifiers : /\ notice[n].at = "stamp session" /\ notice[n].page = p
                                           /\ visit[notice[n].of].session = NoPg
SessionIsOne ==
  \A p \in NotionPages : pg[p].says = "Booked" =>
    (\E a \in Rebooked : IsLast(a) /\ visit[a].session = p) \/ StampingSession(p)

CalmHalf == OneAtWork /\ PagesFollow /\ PagesRest /\ LeftHaveNone /\ ConfirmedAreHeld /\ InquiryIsOne /\ SessionIsOne

MailingInv == MailHalf /\ (Calm => CalmHalf)

LEMMA NoticeSets ==
  /\ Rebooked \subseteq Nat \ {0} /\ 1 \in Rebooked /\ NoPg \notin NotionPages
  /\ FreeNotifier \in NoticeRows /\ FreeNotifier.at = "idle" /\ FreeNotifier.of = 0 /\ 0 \notin Rebooked
  /\ NoVisit \in RebookRow /\ NoVisit.status = "absent" /\ NoVisit.page = NoPg /\ NoVisit.session = NoPg /\ ~NoVisit.inquiry
  /\ Unmade \in PgRows /\ Unmade.says = "none"
BY NoticesAssumption DEF FreeNotifier, NoticeRows, Early, Late, PageIds, NoVisit, RebookRow, Unmade, PgRows

LEMMA NoticesTypesHold == ASSUME NoticesTyped PROVE NoticesTypeOK
<1>1. \A n \in Notifiers : notice[n].of \in Rebooked \cup {0} /\ notice[n].page \in NotionPages \cup {NoPg}
  BY DEF NoticesTyped, NoticeRows, PageIds
<1>2. \A m \in mail \cup {diaryOf} : m.method \in {"none", "REQUEST", "CANCEL"} /\ m.sequence \in Nat
  BY DEF NoticesTyped, Envelopes
<1> QED BY <1>1, <1>2 DEF NoticesTyped, NoticesTypeOK, RebookRow, PgRows, PageIds

LEMMA NoticesInitially == ASSUME NoticesInit PROVE MailingInv
<1>1. /\ visit = [a \in Rebooked |-> NoVisit] /\ pg = [p \in NotionPages |-> Unmade]
      /\ notice = [n \in Notifiers |-> FreeNotifier] /\ mail = {}
      /\ diaryOf.method = "none" /\ diaryOf \in Envelopes /\ notes = 0 /\ clashed = {} /\ unsent = FALSE /\ failed = FALSE
  BY DEF NoticesInit, Envelopes
<1>2. /\ \A a \in Rebooked : visit[a] = NoVisit /\ ~IsThere(a)
      /\ \A p \in NotionPages : pg[p] = Unmade
      /\ \A n \in Notifiers : notice[n] = FreeNotifier /\ notice[n].at = "idle" BY <1>1, NoticeSets DEF IsThere
<1>3. NoticesTyped BY <1>1, NoticeSets DEF NoticesTyped
<1>4. FamilyIsInLine /\ NotifiersFit /\ MailsAreFair BY <1>1, <1>2 DEF FamilyIsInLine, NotifiersFit, MailsAreFair
<1>5. LastIsTold BY <1>2 DEF LastIsTold, IsLast
<1>6. OneAtWork /\ PagesFollow BY <1>2 DEF OneAtWork, PagesFollow
<1>7. PagesRest /\ LeftHaveNone BY <1>2, NoticeSets DEF PagesRest, LeftHaveNone, IsLast
<1>8. ConfirmedAreHeld /\ SessionIsOne BY <1>2, NoticeSets DEF ConfirmedAreHeld, SessionIsOne
<1>9. InquiryIsOne BY <1>1, <1>2 DEF InquiryIsOne, IsLast
<1> QED BY <1>3, <1>4, <1>5, <1>6, <1>7, <1>8, <1>9 DEF MailingInv, MailHalf, CalmHalf

LEMMA LastIsOne == \A a, b \in Rebooked : IsLast(a) /\ IsLast(b) => a = b
<1> SUFFICES ASSUME NEW a \in Rebooked, NEW b \in Rebooked, IsLast(a), IsLast(b) PROVE a = b OBVIOUS
<1>1. a <= b /\ b <= a BY DEF IsLast
<1> QED BY <1>1, NoticeSets

LEMMA NoticesMean == ASSUME MailingInv PROVE NoticesTypeOK /\ NoticesAreConsistent
<1>1. NoticesTyped /\ FamilyIsInLine /\ MailsAreFair /\ LastIsTold BY DEF MailingInv, MailHalf
<1>2. InvitationsConverge
  <2> SUFFICES ASSUME AllTold, ~unsent, visit[1].status # "absent"
      PROVE  IF Confirmed = {} THEN diaryOf.method # "REQUEST"
             ELSE diaryOf = [method |-> "REQUEST", sequence |-> (CHOOSE a \in Confirmed : TRUE) - 1]
    BY DEF InvitationsConverge
  <2>1. PICK a \in Rebooked : IsLast(a) BY <1>1, NoticeSets DEF FamilyIsInLine, IsThere
  <2>2. mail = {} /\ \A n \in Notifiers : notice[n].at = "idle" BY NoticeSets DEF AllTold
  <2>3. IsDue(diaryOf, a) BY <1>1, <2>1, <2>2 DEF LastIsTold, IsTold, WillSend
  <2>4. \A b \in Confirmed : b = a
    <3> SUFFICES ASSUME NEW b \in Confirmed, b # a PROVE FALSE OBVIOUS
    <3>1. b \in Rebooked /\ visit[b].status = "confirmed" /\ IsThere(b) BY DEF Confirmed, IsThere
    <3>2. b < a BY <2>1, <3>1, NoticeSets DEF IsLast
    <3> QED BY <1>1, <2>1, <3>1, <3>2 DEF FamilyIsInLine, IsLast
  <2>5. CASE Confirmed = {}
    <3>1. visit[a].status = "cancelled" BY <1>1, <2>1, <2>5 DEF Confirmed, IsLast, IsThere, NoticesTyped, RebookRow
    <3> QED BY <2>3, <2>5, <3>1 DEF IsDue, CallsOff
  <2>6. CASE Confirmed # {}
    <3>1. Confirmed = {a} BY <2>4, <2>6
    <3>2. (CHOOSE b \in Confirmed : TRUE) = a BY <3>1
    <3>3. visit[a].status = "confirmed" BY <3>1 DEF Confirmed
    <3>4. diaryOf.method = "REQUEST" /\ diaryOf.sequence = a - 1 BY <2>3, <3>3 DEF IsDue, InvitesTo
    <3>5. diaryOf \in Envelopes BY <1>1 DEF NoticesTyped
    <3>6. diaryOf = [method |-> "REQUEST", sequence |-> a - 1] BY <3>4, <3>5 DEF Envelopes
    <3> QED BY <2>6, <3>2, <3>6
  <2> QED BY <2>5, <2>6
<1>3. NotionShowsTheBooking
  <2> SUFFICES ASSUME AllTold, ~failed, clashed = {}, NEW a \in Rebooked
      PROVE  /\ (visit[a].page # NoPg) => (pg[visit[a].page].says = SaysOf(a))
             /\ a \in Confirmed => {p \in NotionPages : pg[p].says = "Confirmed"} = {visit[a].page}
    BY DEF NotionShowsTheBooking
  <2>1. PagesRest /\ LeftHaveNone /\ ConfirmedAreHeld BY DEF MailingInv, Calm, CalmHalf
  <2>2. \A n \in Notifiers : notice[n].at = "idle" /\ notice[n].of = 0 BY NoticeSets DEF AllTold
  <2>3. \A b \in Rebooked : ~AtWork(b) BY <2>2, NoticeSets DEF AtWork
  <2>4. \A p : ~Stamping2(p) BY <2>2 DEF Stamping2
  <2>5. (visit[a].page # NoPg) => (pg[visit[a].page].says = SaysOf(a)) BY <2>1, <2>3 DEF PagesRest, LeftHaveNone
  <2>6. ASSUME a \in Confirmed PROVE {p \in NotionPages : pg[p].says = "Confirmed"} = {visit[a].page}
    <3>1. visit[a].status = "confirmed" /\ IsThere(a) BY <2>6 DEF Confirmed, IsThere
    <3>2. IsLast(a)
      <4> SUFFICES ASSUME NEW b \in Rebooked, IsThere(b), ~(b <= a) PROVE FALSE BY <3>1 DEF IsLast
      <4>1. a < b BY NoticeSets
      <4> QED BY <1>1, <3>1, <4>1 DEF FamilyIsInLine
    <3>3. visit[a].page # NoPg /\ pg[visit[a].page].says = "Confirmed" BY <2>1, <2>3, <3>1, <3>2 DEF PagesRest, SaysOf
    <3>4. visit[a].page \in NotionPages BY <1>1, <3>3 DEF NoticesTyped, RebookRow, PageIds
    <3>5. \A p \in NotionPages : pg[p].says = "Confirmed" => p = visit[a].page
      <4> SUFFICES ASSUME NEW p \in NotionPages, pg[p].says = "Confirmed" PROVE p = visit[a].page OBVIOUS
      <4>1. PICK b \in Rebooked : visit[b].page = p BY <2>1, <2>4 DEF ConfirmedAreHeld
      <4>2. IsLast(b) BY <2>1, <4>1, NoticeSets DEF LeftHaveNone
      <4>3. b = a BY <3>2, <4>2, NoticeSets DEF IsLast
      <4> QED BY <4>1, <4>3
    <3> QED BY <3>3, <3>4, <3>5
  <2> QED BY <2>5, <2>6
<1>4. OneInquiryAndSession
  <2> SUFFICES ASSUME ~failed, clashed = {}
      PROVE  notes <= 1 /\ Cardinality({p \in NotionPages : pg[p].says = "Booked"}) <= 1 BY DEF OneInquiryAndSession
  <2>1. OneAtWork /\ InquiryIsOne /\ SessionIsOne BY DEF MailingInv, Calm, CalmHalf
  <2>5. PICK S : S = {p \in NotionPages : pg[p].says = "Booked"} OBVIOUS
  <2>2. \A p, q \in S : p = q
    <3> SUFFICES ASSUME NEW p \in S, NEW q \in S PROVE p = q OBVIOUS
    <3>1. p \in NotionPages /\ pg[p].says = "Booked" /\ q \in NotionPages /\ pg[q].says = "Booked" BY <2>5
    <3>2. \A a, b \in Rebooked : IsLast(a) /\ IsLast(b) => a = b BY LastIsOne
    <3>3. ASSUME NEW x \in NotionPages, StampingSession(x)
          PROVE  \E n \in Notifiers : /\ notice[n].at = "stamp session" /\ notice[n].page = x /\ IsLast(notice[n].of)
                                      /\ visit[notice[n].of].session = NoPg /\ notice[n].of \in Rebooked
      <4>1. PICK n \in Notifiers : /\ notice[n].at = "stamp session" /\ notice[n].page = x /\ visit[notice[n].of].session = NoPg
        BY <3>3 DEF StampingSession
      <4>2. NotifiersFit BY DEF MailingInv, MailHalf
      <4>3. notice[n].at # "idle" BY <4>1
      <4>4. IsLast(notice[n].of) BY <2>1, <4>3 DEF OneAtWork
      <4>5. notice[n].of \in Rebooked BY <4>2, <4>3, NoticeSets DEF NotifiersFit
      <4> QED BY <4>1, <4>4, <4>5
    <3>4. \A n, k \in Notifiers : notice[n].at # "idle" /\ notice[k].at # "idle" => k = n BY <2>1 DEF OneAtWork
    <3>5. \A x \in NotionPages : pg[x].says = "Booked" =>
            (\E a \in Rebooked : IsLast(a) /\ visit[a].session = x) \/ StampingSession(x) BY <2>1 DEF SessionIsOne
    <3>6. CASE StampingSession(p)
      <4>1. PICK n \in Notifiers : /\ notice[n].at = "stamp session" /\ notice[n].page = p /\ IsLast(notice[n].of)
                                   /\ visit[notice[n].of].session = NoPg /\ notice[n].of \in Rebooked
        BY <3>1, <3>3, <3>6
      <4>2. CASE StampingSession(q)
        <5>1. PICK k \in Notifiers : notice[k].at = "stamp session" /\ notice[k].page = q BY <3>1, <3>3, <4>2
        <5>2. k = n BY <3>4, <4>1, <5>1
        <5> QED BY <4>1, <5>1, <5>2
      <4>3. CASE ~StampingSession(q)
        <5>1. PICK b \in Rebooked : IsLast(b) /\ visit[b].session = q BY <3>1, <3>5, <4>3
        <5>2. b = notice[n].of BY <3>2, <4>1, <5>1
        <5> QED BY <3>1, <4>1, <5>1, <5>2, NoticeSets
      <4> QED BY <4>2, <4>3
    <3>7. CASE ~StampingSession(p)
      <4>1. PICK a \in Rebooked : IsLast(a) /\ visit[a].session = p BY <3>1, <3>5, <3>7
      <4>2. CASE StampingSession(q)
        <5>1. PICK k \in Notifiers : IsLast(notice[k].of) /\ visit[notice[k].of].session = NoPg /\ notice[k].of \in Rebooked
          BY <3>1, <3>3, <4>2
        <5>2. a = notice[k].of BY <3>2, <4>1, <5>1
        <5> QED BY <3>1, <4>1, <5>1, <5>2, NoticeSets
      <4>3. CASE ~StampingSession(q)
        <5>1. PICK b \in Rebooked : IsLast(b) /\ visit[b].session = q BY <3>1, <3>5, <4>3
        <5> QED BY <3>2, <4>1, <5>1
      <4> QED BY <4>2, <4>3
    <3> QED BY <3>6, <3>7
  <2>3. Cardinality(S) <= 1
    <3>1. CASE S = {}
      <4>1. Cardinality(S) = 0 BY <3>1, FS_EmptySet, Zenon
      <4> QED BY <4>1
    <3>2. CASE S # {}
      <4>1. PICK p : p \in S BY <3>2
      <4>2. S = {p} BY <2>2, <4>1
      <4>3. Cardinality({p}) = 1 BY FS_Singleton
      <4>4. Cardinality(S) = 1 BY <4>2, <4>3, Zenon
      <4> QED BY <4>4
    <3> QED BY <3>1, <3>2
  <2>4. notes <= 1 BY <2>1 DEF InquiryIsOne
  <2> QED BY <2>3, <2>4, <2>5
<1> QED BY <1>1, <1>2, <1>3, <1>4, NoticesTypesHold DEF NoticesAreConsistent

LEMMA StatusesKept ==
  ASSUME \A a \in Rebooked : visit'[a].status = visit[a].status
  PROVE  /\ \A a \in Rebooked : IsThere(a)' <=> IsThere(a)
         /\ \A a \in Rebooked : IsLast(a)' <=> IsLast(a)
         /\ \A a \in Rebooked : DueKind(a)' = DueKind(a) /\ SaysOf(a)' = SaysOf(a)
<1>1. \A a \in Rebooked : IsThere(a)' <=> IsThere(a) BY DEF IsThere
<1>2. \A a \in Rebooked : IsLast(a)' <=> IsLast(a) BY <1>1 DEF IsLast
<1>3. \A a \in Rebooked : DueKind(a)' = DueKind(a) /\ SaysOf(a)' = SaysOf(a) BY DEF DueKind, SaysOf
<1> QED BY <1>1, <1>2, <1>3

LEMMA MailParts ==
  ASSUME MailHalf
  PROVE  /\ NoticesTyped /\ FamilyIsInLine /\ NotifiersFit /\ MailsAreFair /\ LastIsTold
         /\ visit \in [Rebooked -> RebookRow] /\ pg \in [NotionPages -> PgRows] /\ notice \in [Notifiers -> NoticeRows]
         /\ mail \subseteq Envelopes /\ diaryOf \in Envelopes /\ notes \in Nat
         /\ clashed \subseteq Rebooked /\ unsent \in BOOLEAN /\ failed \in BOOLEAN
BY DEF MailHalf, NoticesTyped

\* The row of a thread at work.
LEMMA BusyRow ==
  ASSUME MailHalf, NEW n \in Notifiers, notice[n].at # "idle" \/ notice[n] # FreeNotifier
  PROVE  /\ notice[n] \in NoticeRows /\ notice[n].at # "idle" /\ notice[n].of \in Rebooked /\ IsThere(notice[n].of)
         /\ notice[n].of \in Nat /\ notice[n].of >= 1 /\ visit[notice[n].of] \in RebookRow
         /\ notice[n].kind = "cancel" => visit[notice[n].of].status = "cancelled" /\ IsLast(notice[n].of)
<1>1. notice[n] # FreeNotifier /\ notice[n] \in NoticeRows BY MailParts, NoticeSets
<1>2. /\ notice[n].at # "idle" /\ notice[n].of \in Rebooked /\ IsThere(notice[n].of)
      /\ notice[n].kind = "cancel" => visit[notice[n].of].status = "cancelled" /\ IsLast(notice[n].of)
  BY <1>1, MailParts DEF NotifiersFit
<1>3. notice[n].of \in Nat /\ notice[n].of >= 1
  <2>1. PICK a : a = notice[n].of OBVIOUS
  <2>2. a \in Nat \ {0} BY <1>2, <2>1, NoticeSets
  <2>3. a \in Nat /\ a >= 1 BY <2>2
  <2> QED BY <2>1, <2>3
<1> QED BY <1>1, <1>2, <1>3, MailParts

\* A thread goes on or stops; a mail it sends is fair.
LEMMA NotifierMoves ==
  ASSUME MailHalf, NEW n \in Notifiers, NEW c, NEW d \in NoticeRows, c = notice[n], c.at # "idle",
         notice' = [notice EXCEPT ![n] = d], visit' \in [Rebooked -> RebookRow],
         visit'[c.of].status = visit[c.of].status, \A a \in Rebooked : a # c.of => visit'[a] = visit[a],
         pg' \in [NotionPages -> PgRows], mail \subseteq mail', mail' \subseteq Envelopes,
         \A m \in mail' : m \in mail \/ MailIsFair(m), diaryOf' = diaryOf, notes' \in Nat, clashed' = clashed,
         unsent' \in BOOLEAN, failed' \in BOOLEAN, unsent => unsent',
         d = FreeNotifier \/ (d.at # "idle" /\ d.of = c.of /\ d.kind = c.kind),
         unsent' \/ c.at \notin {"load", "mail"} \/ (d.at \in {"load", "mail"} /\ d.of = c.of /\ d.kind = c.kind)
            \/ c.kind # DueKind(c.of) \/ \E m \in mail' : IsDue(m, c.of)
  PROVE  MailHalf'
<1>1. /\ notice' \in [Notifiers -> NoticeRows] /\ notice'[n] = d
      /\ \A k \in Notifiers : k # n => notice'[k] = notice[k] BY MailParts
<1>2. c.of \in Rebooked /\ IsThere(c.of) BY BusyRow
<1>3. \A a \in Rebooked : visit'[a].status = visit[a].status OBVIOUS
<1>4. /\ \A a \in Rebooked : IsThere(a)' <=> IsThere(a)
      /\ \A a \in Rebooked : IsLast(a)' <=> IsLast(a)
      /\ \A a \in Rebooked : DueKind(a)' = DueKind(a) BY <1>3, StatusesKept
<1>5. NoticesTyped' BY <1>1, MailParts DEF NoticesTyped
<1>6. FamilyIsInLine'
  <2>1. \A a \in Rebooked : ~IsThere(a)' => visit'[a] = NoVisit BY <1>2, <1>4, MailParts DEF FamilyIsInLine
  <2>2. \A a, b \in Rebooked : IsThere(a)' /\ IsThere(b)' /\ a < b => visit'[a].status = "cancelled"
    BY <1>3, <1>4, MailParts DEF FamilyIsInLine
  <2>5. \A a \in Rebooked : IsThere(a)' => a = 1 \/ a - 1 \in Rebooked BY <1>4, MailParts DEF FamilyIsInLine
  <2>3. \E b \in Rebooked : IsLast(b)' BY <1>2, <1>4, MailParts DEF FamilyIsInLine
  <2>4. (IsThere(1))'
    <3>1. IsThere(1) BY <1>2, MailParts DEF FamilyIsInLine
    <3> QED BY <1>3, <3>1, NoticeSets DEF IsThere
  <2> QED BY <2>1, <2>2, <2>3, <2>4, <2>5 DEF FamilyIsInLine
<1>7. NotifiersFit'
  <2>1. \/ d = FreeNotifier
        \/ /\ d.at # "idle" /\ d.of \in Rebooked /\ IsThere(d.of)'
           /\ d.kind = "cancel" => visit'[d.of].status = "cancelled" /\ IsLast(d.of)'
    <3>1. c.kind = "cancel" => visit[c.of].status = "cancelled" /\ IsLast(c.of) BY BusyRow
    <3>2. PICK a \in Rebooked : a = c.of BY <1>2
    <3>3. IsThere(a)' /\ (c.kind = "cancel" => visit'[a].status = "cancelled" /\ IsLast(a)')
      BY <1>2, <1>3, <1>4, <3>1, <3>2
    <3> QED BY <3>2, <3>3
  <2>2. ASSUME NEW k \in Notifiers, k # n, notice'[k] # FreeNotifier
        PROVE  (/\ notice[k].at # "idle" /\ notice[k].of \in Rebooked /\ IsThere(notice[k].of)
                /\ notice[k].kind = "cancel" => visit[notice[k].of].status = "cancelled" /\ IsLast(notice[k].of))'
    <3>1. /\ notice[k].at # "idle" /\ notice[k].of \in Rebooked /\ IsThere(notice[k].of) /\ notice'[k] = notice[k]
          /\ notice[k].kind = "cancel" => visit[notice[k].of].status = "cancelled" /\ IsLast(notice[k].of)
      BY <1>1, <2>2, BusyRow
    <3>2. PICK a \in Rebooked : a = notice[k].of BY <3>1
    <3>3. IsThere(a)' /\ (notice[k].kind = "cancel" => visit'[a].status = "cancelled" /\ IsLast(a)')
      BY <1>3, <1>4, <3>1, <3>2
    <3>4. a = notice'[k].of BY <3>1, <3>2
    <3> QED BY <3>1, <3>3, <3>4
  <2> QED BY <1>1, <2>1, <2>2 DEF NotifiersFit
<1>8. MailsAreFair'
  <2>1. \A m : MailIsFair(m) => MailIsFair(m)' BY <1>3, <1>4 DEF MailIsFair, InvitesTo, CallsOff
  <2> QED BY <2>1, MailParts DEF MailsAreFair
<1>9. LastIsTold'
  <2> SUFFICES ASSUME ~unsent', NEW a \in Rebooked, IsLast(a)' PROVE IsTold(a)' BY DEF LastIsTold
  <2>1. IsTold(a) /\ visit'[a].status = visit[a].status /\ DueKind(a)' = DueKind(a)
    BY <1>3, <1>4, MailParts DEF LastIsTold
  <2>2. CASE (\E m \in mail : IsDue(m, a)) \/ IsDue(diaryOf, a) BY <2>1, <2>2 DEF IsTold, IsDue, CallsOff, InvitesTo
  <2>3. CASE WillSend(a)
    <3>1. PICK k \in Notifiers : notice[k].of = a /\ notice[k].kind = DueKind(a) /\ notice[k].at \in {"load", "mail"}
      BY <2>3 DEF WillSend
    <3>2. CASE notice'[k].of = a /\ notice'[k].kind = DueKind(a) /\ notice'[k].at \in {"load", "mail"}
      <4>1. WillSend(a)' BY <2>1, <3>2 DEF WillSend
      <4> QED BY <4>1 DEF IsTold
    <3>3. CASE ~(notice'[k].of = a /\ notice'[k].kind = DueKind(a) /\ notice'[k].at \in {"load", "mail"})
      <4>1. k = n BY <1>1, <3>1, <3>3
      <4>2. \E m \in mail' : IsDue(m, a) BY <1>1, <3>1, <3>3, <4>1
      <4> QED BY <2>1, <4>2 DEF IsTold, IsDue, CallsOff, InvitesTo
    <3> QED BY <3>2, <3>3
  <2> QED BY <2>1, <2>2, <2>3 DEF IsTold
<1> QED BY <1>5, <1>6, <1>7, <1>8, <1>9 DEF MailHalf

\* A booking that is confirmed is the last, and nothing has called it off.
LEMMA ConfirmedIsLast ==
  ASSUME MailHalf, NEW a \in Rebooked, visit[a].status = "confirmed"
  PROVE  /\ IsLast(a) /\ IsThere(a)
         /\ \A m, b : ~(CallsOff(m, b) /\ b \in Rebooked /\ IsLast(b) /\ visit[b].status = "cancelled")
         /\ \A n \in Notifiers : notice[n] # FreeNotifier => notice[n].kind = "confirm"
<1>1. IsThere(a) BY DEF IsThere
<1>2. IsLast(a)
  <2> SUFFICES ASSUME NEW b \in Rebooked, IsThere(b), ~(b <= a) PROVE FALSE BY <1>1 DEF IsLast
  <2>1. a < b BY NoticeSets
  <2> QED BY <1>1, <2>1, MailParts DEF FamilyIsInLine
<1>3. \A b \in Rebooked : IsLast(b) => visit[b].status # "cancelled" BY <1>2, LastIsOne
<1>4. ASSUME NEW n \in Notifiers, notice[n] # FreeNotifier PROVE notice[n].kind = "confirm"
  <2>1. PICK b : b = notice[n].of OBVIOUS
  <2>2. /\ notice[n] \in NoticeRows /\ b \in Rebooked
        /\ notice[n].kind = "cancel" => visit[b].status = "cancelled" /\ IsLast(b) BY <1>4, <2>1, BusyRow
  <2>3. notice[n].kind # "cancel" BY <1>3, <2>2
  <2> QED BY <2>2, <2>3 DEF NoticeRows
<1> QED BY <1>1, <1>2, <1>3, <1>4

\* Thread n, its row c, its booking a as v, which the page should show as s; and its move to d.
HasJob(n, c, a, v, s) == c = notice[n] /\ a = c.of /\ v = visit[a] /\ c.at # "idle" /\ s = SaysOf(a)
Turns(n, c, d, a, w) ==
  /\ notice' = [notice EXCEPT ![n] = d] /\ w = visit'[a] /\ \A b \in Rebooked : b # a => visit'[b] = visit[b]
  /\ \A b \in Rebooked : visit'[b].status = visit[b].status
  /\ d = FreeNotifier \/ (d.at # "idle" /\ d.of = c.of /\ d.kind = c.kind)

\* In calm, the one thread at work and its booking.
LEMMA CalmAlone ==
  ASSUME MailHalf, CalmHalf, NEW n \in Notifiers, NEW c, NEW a, NEW v, NEW s, HasJob(n, c, a, v, s)
  PROVE  /\ a \in Rebooked /\ IsLast(a) /\ c \in NoticeRows /\ v \in RebookRow /\ c.at # "idle"
         /\ \A k \in Notifiers : k # n => notice[k] = FreeNotifier /\ notice[k].at = "idle"
         /\ \A b \in Rebooked : b # a => visit[b].page = NoPg
<1>0. c = notice[n] /\ a = c.of /\ v = visit[a] /\ c.at # "idle" BY DEF HasJob
<1>1. a \in Rebooked /\ c \in NoticeRows /\ v \in RebookRow BY <1>0, BusyRow
<1>2. IsLast(a) /\ \A k \in Notifiers : notice[k].at # "idle" => k = n BY <1>0 DEF CalmHalf, OneAtWork
<1>3. \A k \in Notifiers : k # n => notice[k] = FreeNotifier /\ notice[k].at = "idle" BY <1>2, BusyRow
<1>4. \A b \in Rebooked : b # a => visit[b].page = NoPg BY <1>1, <1>2, LastIsOne DEF CalmHalf, LeftHaveNone
<1> QED BY <1>0, <1>1, <1>2, <1>3, <1>4

PageHolds(c, v, s) ==
  /\ c.at \in Early \cup {"write page"} /\ v.page # NoPg => pg[v.page].says = "Confirmed"
  /\ c.at = "write page" => c.page = v.page /\ c.says = s
  /\ c.at = "stamp" => v.page = NoPg /\ c.page \in NotionPages /\ pg[c.page].says = s
  /\ c.at \in {"session", "stamp session"} => v.page # NoPg /\ pg[v.page].says = s
  /\ c.at = "stamp session" => v.session = NoPg
  /\ s \in {"Confirmed", "Cancelled"} /\ (s = "Confirmed" <=> c.kind = "confirm") /\ (s = "Cancelled" <=> c.kind = "cancel")
LEMMA CalmPage ==
  ASSUME MailHalf, CalmHalf, NEW n \in Notifiers, NEW c, NEW a, NEW v, NEW s, HasJob(n, c, a, v, s)
  PROVE  PageHolds(c, v, s)
<1>0. c = notice[n] /\ a = c.of /\ v = visit[a] /\ c.at # "idle" /\ s = SaysOf(a) BY DEF HasJob
<1>1. PageFollows(c, v, s) /\ c.kind = DueKind(a) BY <1>0 DEF CalmHalf, PagesFollow, OneAtWork
<1>2. s \in {"Confirmed", "Cancelled"} /\ (s = "Confirmed" <=> c.kind = "confirm") /\ (s = "Cancelled" <=> c.kind = "cancel")
  BY <1>0, <1>1 DEF SaysOf, DueKind
<1> QED BY <1>1, <1>2 DEF PageFollows, PageHolds

MarksHold(c, v) ==
  /\ \A p \in NotionPages : pg[p].says = "Confirmed" => v.page = p \/ (c.at = "stamp" /\ c.page = p)
  /\ notes \in {0, 1} /\ (v.inquiry <=> notes = 1)
  /\ \A p \in NotionPages : pg[p].says = "Booked" =>
       v.session = p \/ (c.at = "stamp session" /\ c.page = p /\ v.session = NoPg)
LEMMA CalmMarks ==
  ASSUME MailHalf, CalmHalf, NEW n \in Notifiers, NEW c, NEW a, NEW v, NEW s, HasJob(n, c, a, v, s)
  PROVE  MarksHold(c, v)
<1>0. c = notice[n] /\ a = c.of /\ v = visit[a] BY DEF HasJob
<1>1. /\ a \in Rebooked /\ IsLast(a)
      /\ \A k \in Notifiers : k # n => notice[k].at = "idle"
      /\ \A b \in Rebooked : b # a => visit[b].page = NoPg BY CalmAlone
<1>5. \A b \in Rebooked : b # a => ~IsLast(b) BY <1>1, LastIsOne
<1>6. ASSUME NEW p \in NotionPages, pg[p].says = "Confirmed" PROVE v.page = p \/ (c.at = "stamp" /\ c.page = p)
  <2>1. (\E b \in Rebooked : visit[b].page = p) \/ Stamping2(p) BY <1>6 DEF CalmHalf, ConfirmedAreHeld
  <2>2. CASE \E b \in Rebooked : visit[b].page = p BY <1>0, <1>1, <2>2, NoticeSets
  <2>3. CASE Stamping2(p)
    <3>1. PICK k \in Notifiers : notice[k].at = "stamp" /\ notice[k].page = p BY <2>3 DEF Stamping2
    <3>2. k = n BY <1>1, <3>1
    <3> QED BY <1>0, <3>1, <3>2
  <2> QED BY <2>1, <2>2, <2>3
<1>7. notes \in {0, 1} /\ (v.inquiry <=> notes = 1) BY <1>0, <1>1 DEF CalmHalf, InquiryIsOne
<1>8. ASSUME NEW p \in NotionPages, pg[p].says = "Booked"
      PROVE  v.session = p \/ (c.at = "stamp session" /\ c.page = p /\ v.session = NoPg)
  <2>1. (\E b \in Rebooked : IsLast(b) /\ visit[b].session = p) \/ StampingSession(p)
    BY <1>8 DEF CalmHalf, SessionIsOne
  <2>2. CASE \E b \in Rebooked : IsLast(b) /\ visit[b].session = p BY <1>0, <1>5, <2>2
  <2>3. CASE StampingSession(p)
    <3>1. PICK k \in Notifiers : /\ notice[k].at = "stamp session" /\ notice[k].page = p
                                 /\ visit[notice[k].of].session = NoPg BY <2>3 DEF StampingSession
    <3>2. k = n BY <1>1, <3>1
    <3> QED BY <1>0, <3>1, <3>2
  <2> QED BY <2>1, <2>2, <2>3
<1> QED BY <1>6, <1>7, <1>8 DEF MarksHold

\* The page and the marks a move leaves.
PageFits(d, w, s) ==
  \/ d = FreeNotifier /\ w.page # NoPg /\ pg'[w.page].says = s
  \/ /\ d # FreeNotifier
     /\ d.at \in Early \cup {"write page"} /\ w.page # NoPg => pg'[w.page].says = "Confirmed"
     /\ d.at = "write page" => d.page = w.page /\ d.says = s
     /\ d.at = "stamp" => w.page = NoPg /\ d.page \in NotionPages /\ pg'[d.page].says = s
     /\ d.at \in {"session", "stamp session"} => w.page # NoPg /\ pg'[w.page].says = s
     /\ d.at = "stamp session" => w.session = NoPg
MarksFit(d, w) ==
  /\ \A p \in NotionPages : pg'[p].says = "Confirmed" => w.page = p \/ (d.at = "stamp" /\ d.page = p)
  /\ notes' \in {0, 1} /\ (w.inquiry <=> notes' = 1)
  /\ \A p \in NotionPages : pg'[p].says = "Booked" =>
       w.session = p \/ (d.at = "stamp session" /\ d.page = p /\ w.session = NoPg)

\* The one thread at work goes on or stops.
LEMMA CalmMoves ==
  ASSUME MailHalf, CalmHalf, NEW n \in Notifiers, NEW c, NEW a, NEW v, NEW s, HasJob(n, c, a, v, s),
         NEW d, NEW w, Turns(n, c, d, a, w),
         PageFits(d, w, s), MarksFit(d, w)
  PROVE  CalmHalf'
<1>0. c = notice[n] /\ a = c.of /\ v = visit[a] /\ c.at # "idle" /\ s = SaysOf(a) BY DEF HasJob
<1>a. /\ a \in Rebooked /\ IsLast(a)
      /\ \A k \in Notifiers : k # n => notice[k] = FreeNotifier /\ notice[k].at = "idle"
      /\ \A b \in Rebooked : b # a => visit[b].page = NoPg BY CalmAlone
<1>b. w = visit'[a] /\ \A b \in Rebooked : b # a => visit'[b] = visit[b] BY DEF Turns
<1>1. /\ a \in Rebooked /\ IsLast(a) /\ w = visit'[a]
      /\ \A k \in Notifiers : k # n => notice[k] = FreeNotifier /\ notice[k].at = "idle"
      /\ \A b \in Rebooked : b # a => visit[b].page = NoPg /\ visit'[b] = visit[b] BY <1>a, <1>b
<1>2. c.kind = DueKind(a) BY <1>0 DEF CalmHalf, OneAtWork
<1>3. /\ \A b \in Rebooked : IsThere(b)' <=> IsThere(b)
      /\ \A b \in Rebooked : IsLast(b)' <=> IsLast(b)
      /\ \A b \in Rebooked : DueKind(b)' = DueKind(b) /\ SaysOf(b)' = SaysOf(b) BY StatusesKept DEF Turns
<1>4. notice'[n] = d /\ \A k \in Notifiers : k # n => notice'[k] = FreeNotifier /\ notice'[k].at = "idle"
  BY <1>1, MailParts DEF Turns
<1>5. d # FreeNotifier => d.at # "idle" /\ d.of = a /\ d.kind = c.kind BY <1>0 DEF Turns
<1>6. ASSUME NEW k \in Notifiers, notice'[k].at # "idle"
      PROVE  k = n /\ notice'[k] = d /\ d # FreeNotifier /\ d.of = a /\ d.kind = c.kind
  BY <1>4, <1>5, <1>6, NoticeSets
<1>14. s = SaysOf(a)' BY <1>0, <1>1, <1>3
<1>7. OneAtWork'
  <2> SUFFICES ASSUME NEW k \in Notifiers, notice'[k].at # "idle"
      PROVE  (/\ IsLast(notice[k].of) /\ notice[k].kind = DueKind(notice[k].of)
              /\ \A j \in Notifiers : notice[j].at # "idle" => j = k)' BY DEF OneAtWork
  <2>1. k = n /\ notice'[k] = d /\ d.of = a /\ d.kind = c.kind BY <1>6
  <2>2. IsLast(a)' /\ d.kind = DueKind(a)' BY <1>1, <1>2, <1>3, <2>1
  <2>3. notice'[k].of = a /\ notice'[k].kind = d.kind BY <2>1
  <2> QED BY <1>6, <2>1, <2>2, <2>3
<1>8. PagesFollow'
  <2> SUFFICES ASSUME NEW k \in Notifiers, notice'[k].at # "idle"
      PROVE  PageFollows(notice[k], visit[notice[k].of], SaysOf(notice[k].of))' BY DEF PagesFollow
  <2>1. notice'[k] = d /\ notice'[k].of = a /\ d # FreeNotifier BY <1>6
  <2>3. PageFollows(d, w, s)' BY <2>1 DEF PageFollows, PageFits
  <2> QED BY <1>1, <1>14, <2>1, <2>3
<1>9. PagesRest'
  <2> SUFFICES ASSUME NEW b \in Rebooked, IsLast(b)', ~(AtWork(b))'
      PROVE  visit'[b].page # NoPg /\ pg'[visit'[b].page].says = SaysOf(b)' BY DEF PagesRest
  <2>1. b = a BY <1>1, <1>3, LastIsOne
  <2>2. d = FreeNotifier BY <1>4, <1>5, <2>1 DEF AtWork
  <2>3. w.page # NoPg /\ pg'[w.page].says = s BY <2>2 DEF PageFits
  <2> QED BY <1>1, <1>14, <2>1, <2>3
<1>10. LeftHaveNone' BY <1>1, <1>3 DEF LeftHaveNone
<1>11. ConfirmedAreHeld'
  <2> SUFFICES ASSUME NEW p \in NotionPages, pg'[p].says = "Confirmed"
      PROVE  (\E b \in Rebooked : visit'[b].page = p) \/ Stamping2(p)' BY DEF ConfirmedAreHeld
  <2>1. w.page = p \/ (d.at = "stamp" /\ d.page = p) BY DEF MarksFit
  <2> QED BY <1>1, <1>4, <2>1 DEF Stamping2
<1>12. InquiryIsOne'
  <2>1. notes' \in {0, 1} /\ (w.inquiry <=> notes' = 1) BY DEF MarksFit
  <2>2. \A b \in Rebooked : IsLast(b)' => (visit'[b].inquiry <=> notes' = 1) BY <1>1, <1>3, <2>1, LastIsOne
  <2>3. IsThere(a)' BY <1>1, <1>3 DEF IsLast
  <2> QED BY <1>1, <2>1, <2>2, <2>3 DEF InquiryIsOne
<1>13. SessionIsOne'
  <2> SUFFICES ASSUME NEW p \in NotionPages, pg'[p].says = "Booked"
      PROVE  (\E b \in Rebooked : IsLast(b)' /\ visit'[b].session = p) \/ StampingSession(p)' BY DEF SessionIsOne
  <2>3. w.session = p \/ (d.at = "stamp session" /\ d.page = p /\ w.session = NoPg) BY DEF MarksFit
  <2>1. CASE w.session = p BY <1>1, <1>3, <2>1
  <2>2. CASE d.at = "stamp session" /\ d.page = p /\ w.session = NoPg
    <3>1. d.of = a BY <1>5, <2>2, NoticeSets
    <3>2. notice'[n].at = "stamp session" /\ notice'[n].page = p /\ visit'[notice'[n].of].session = NoPg
      BY <1>1, <1>4, <2>2, <3>1
    <3> QED BY <3>2 DEF StampingSession
  <2> QED BY <2>1, <2>2, <2>3
<1> QED BY <1>7, <1>8, <1>9, <1>10, <1>11, <1>12, <1>13 DEF CalmHalf

LEMMA StepOn ==
  ASSUME MailHalf, NEW n \in Notifiers, NEW at \in Early \cup Late, GoOn(n, at)
  PROVE  \E d \in NoticeRows :
           /\ notice' = [notice EXCEPT ![n] = d] /\ d.at = at /\ d.at # "idle" /\ d # FreeNotifier
           /\ d.of = notice[n].of /\ d.kind = notice[n].kind /\ d.says = notice[n].says /\ d.page = notice[n].page
<1> DEFINE d == [notice[n] EXCEPT !.at = at]
<1>1. notice[n] \in NoticeRows BY MailParts
<1>2. d \in NoticeRows /\ d.at = at /\ d.at # "idle" BY <1>1 DEF NoticeRows, Early, Late
<1>3. d.of = notice[n].of /\ d.kind = notice[n].kind /\ d.says = notice[n].says /\ d.page = notice[n].page
  BY <1>1 DEF NoticeRows
<1>4. notice' = [notice EXCEPT ![n] = d] BY DEF GoOn
<1> QED BY <1>2, <1>3, <1>4, NoticeSets

\* What no step of a thread disturbs.
WorldStays ==
  /\ visit' \in [Rebooked -> RebookRow] /\ pg' \in [NotionPages -> PgRows] /\ diaryOf' = diaryOf
  /\ mail \subseteq mail' /\ mail' \subseteq Envelopes /\ \A m \in mail' : m \in mail \/ MailIsFair(m)
  /\ notes' \in Nat /\ clashed' = clashed /\ unsent' \in BOOLEAN /\ failed' \in BOOLEAN
  /\ (unsent => unsent') /\ (failed => failed')
MailStaysDue(c, d) ==
  \/ unsent' \/ c.at \notin {"load", "mail"} \/ d.at \in {"load", "mail"} \/ c.kind # DueKind(c.of)
  \/ \E m \in mail' : IsDue(m, c.of)

LEMMA NoticeGoes ==
  ASSUME MailingInv, NEW n \in Notifiers, NEW c, NEW a, NEW v, NEW s, HasJob(n, c, a, v, s),
         NEW d \in NoticeRows, NEW w, Turns(n, c, d, a, w), WorldStays, MailStaysDue(c, d),
         Calm /\ Calm' => PageFits(d, w, s) /\ MarksFit(d, w)
  PROVE  MailingInv'
<1>1. MailHalf BY DEF MailingInv
<1>2. MailHalf'
  <2>1. c = notice[n] /\ c.at # "idle" /\ a = c.of BY DEF HasJob
  <2>2. /\ notice' = [notice EXCEPT ![n] = d] /\ \A b \in Rebooked : b # c.of => visit'[b] = visit[b]
        /\ d = FreeNotifier \/ (d.at # "idle" /\ d.of = c.of /\ d.kind = c.kind)
        /\ \A b \in Rebooked : visit'[b].status = visit[b].status BY <2>1 DEF Turns
  <2>3. c.of \in Rebooked BY <1>1, <2>1, BusyRow
  <2>4. visit'[c.of].status = visit[c.of].status BY <2>2, <2>3
  <2>5. unsent' \/ c.at \notin {"load", "mail"} \/ (d.at \in {"load", "mail"} /\ d.of = c.of /\ d.kind = c.kind)
           \/ c.kind # DueKind(c.of) \/ \E m \in mail' : IsDue(m, c.of) BY <2>2, NoticeSets DEF MailStaysDue
  <2>6. /\ visit' \in [Rebooked -> RebookRow] /\ pg' \in [NotionPages -> PgRows] /\ diaryOf' = diaryOf
        /\ mail \subseteq mail' /\ mail' \subseteq Envelopes /\ \A m \in mail' : m \in mail \/ MailIsFair(m)
        /\ notes' \in Nat /\ clashed' = clashed /\ unsent' \in BOOLEAN /\ failed' \in BOOLEAN /\ (unsent => unsent')
    BY DEF WorldStays
  <2> QED BY <1>1, <2>1, <2>2, <2>4, <2>5, <2>6, NotifierMoves
<1>3. ASSUME Calm' PROVE CalmHalf'
  <2>1. Calm BY <1>3 DEF Calm, WorldStays
  <2>2. CalmHalf BY <2>1 DEF MailingInv
  <2>3. PageFits(d, w, s) /\ MarksFit(d, w) BY <1>3, <2>1
  <2> QED BY <1>1, <2>2, <2>3, CalmMoves
<1> QED BY <1>2, <1>3 DEF MailingInv

\* What a thread at work works with.
Sayings == {"Confirmed", "Cancelled"}
WorksFor(n, c, a, v, s) ==
  /\ HasJob(n, c, a, v, s) /\ c = notice[n] /\ a = notice[n].of /\ v = visit[a]
  /\ v.status \in {"confirmed", "cancelled"}

LEMMA JobOf ==
  ASSUME MailingInv, NEW n \in Notifiers, notice[n].at # "idle"
  PROVE  \E c \in NoticeRows, a \in Rebooked, v \in RebookRow, s \in Sayings : WorksFor(n, c, a, v, s)
<1>1. MailHalf BY DEF MailingInv
<1>2. notice[n] \in NoticeRows /\ notice[n].of \in Rebooked /\ visit[notice[n].of] \in RebookRow /\ IsThere(notice[n].of)
  BY <1>1, BusyRow
<1>3. visit[notice[n].of].status \in {"confirmed", "cancelled"} BY <1>2 DEF RebookRow, IsThere
<1>4. WorksFor(n, notice[n], notice[n].of, visit[notice[n].of], SaysOf(notice[n].of)) BY <1>3 DEF WorksFor, HasJob
<1>5. SaysOf(notice[n].of) \in Sayings BY DEF SaysOf, Sayings
<1> QED BY <1>2, <1>4, <1>5

LEMMA WorldRests ==
  ASSUME MailHalf, UNCHANGED <<visit, pg, mail, diaryOf, notes, clashed, faults>>
  PROVE  WorldStays
<1>1. UNCHANGED <<unsent, failed>> BY DEF faults
<1> QED BY <1>1, MailParts DEF WorldStays

\* In calm, a thread that has not read the page yet and goes on leaves page and marks as they were.
LEMMA EarlyFits ==
  ASSUME MailingInv, Calm, NEW n \in Notifiers, NEW c, NEW a, NEW v, NEW s, HasJob(n, c, a, v, s),
         c.at \in Early, NEW d, d.at \in Early, pg' = pg, notes' = notes
  PROVE  PageFits(d, v, s) /\ MarksFit(d, v)
<1>1. MailHalf /\ CalmHalf BY DEF MailingInv
<1>2p. PageHolds(c, v, s) BY <1>1, CalmPage
<1>2. c.at \in Early \cup {"write page"} /\ v.page # NoPg => pg[v.page].says = "Confirmed" BY <1>2p, <1>1 DEF PageHolds
<1>3. d # FreeNotifier BY NoticeSets DEF Early
<1>4. PageFits(d, v, s) BY <1>2, <1>3 DEF PageFits, Early
<1>5. MarksHold(c, v) BY <1>1, CalmMarks
<1>6. MarksFit(d, v) BY <1>5 DEF MarksFit, MarksHold, Early
<1> QED BY <1>4, <1>6

LEMMA LoadVisitKeeps == ASSUME MailingInv, NEW n \in Notifiers, LoadVisit(n) PROVE MailingInv'
<1>1. /\ MailHalf /\ notice[n].at = "load" /\ notice[n].at # "idle"
      /\ UNCHANGED <<visit, pg, mail, diaryOf, notes, clashed, faults>> BY DEF LoadVisit, MailingInv
<1>2. PICK c \in NoticeRows, a \in Rebooked, v \in RebookRow, s \in Sayings : WorksFor(n, c, a, v, s) BY <1>1, JobOf
<1>3. HasJob(n, c, a, v, s) /\ c = notice[n] /\ a = notice[n].of /\ v = visit[a] /\ v.status \in {"confirmed", "cancelled"}
  BY <1>2 DEF WorksFor
<1>4. WorldStays BY <1>1, WorldRests
<1>5. CASE c.kind = "confirm" /\ v.status # "confirmed"
  <2>1. notice' = [notice EXCEPT ![n] = FreeNotifier] BY <1>3, <1>5 DEF LoadVisit, Leave
  <2>2. c.kind # DueKind(a) /\ a = c.of BY <1>3, <1>5 DEF DueKind
  <2>3. PICK d \in NoticeRows : d = FreeNotifier BY NoticeSets
  <2>4. Turns(n, c, d, a, v) BY <1>1, <1>3, <2>1, <2>3 DEF Turns
  <2>5. MailStaysDue(c, d) BY <2>2 DEF MailStaysDue
  <2>6. ~Calm
    <3>1. SUFFICES ASSUME Calm PROVE FALSE OBVIOUS
    <3>2. CalmHalf BY <3>1 DEF MailingInv
    <3>3. notice[n].kind = DueKind(notice[n].of) BY <1>1, <3>2 DEF CalmHalf, OneAtWork
    <3> QED BY <1>3, <2>2, <3>3
  <2> QED BY <1>3, <1>4, <2>4, <2>5, <2>6, NoticeGoes
<1>6. CASE ~(c.kind = "confirm" /\ v.status # "confirmed")
  <2>1. PICK at \in Early \cup Late : at = "mail" BY DEF Early
  <2>2. GoOn(n, at) BY <1>3, <1>6, <2>1 DEF LoadVisit
  <2>3. PICK d \in NoticeRows :
           /\ notice' = [notice EXCEPT ![n] = d] /\ d.at = at /\ d.at # "idle" /\ d # FreeNotifier
           /\ d.of = notice[n].of /\ d.kind = notice[n].kind /\ d.says = notice[n].says /\ d.page = notice[n].page
    BY <1>1, <2>2, StepOn
  <2>4. Turns(n, c, d, a, v) BY <1>1, <1>3, <2>3 DEF Turns
  <2>5. MailStaysDue(c, d) BY <2>1, <2>3 DEF MailStaysDue
  <2>6. c.at \in Early /\ d.at \in Early BY <1>1, <1>3, <2>1, <2>3 DEF Early
  <2>7. Calm => PageFits(d, v, s) /\ MarksFit(d, v) BY <1>1, <1>3, <2>6, EarlyFits
  <2> QED BY <1>3, <1>4, <2>4, <2>5, <2>7, NoticeGoes
<1> QED BY <1>5, <1>6

LEMMA RowWritten ==
  ASSUME MailHalf, NEW a \in Rebooked, NEW w \in RebookRow, w.status = visit[a].status, visit' = [visit EXCEPT ![a] = w]
  PROVE  /\ visit' \in [Rebooked -> RebookRow] /\ visit'[a] = w /\ \A b \in Rebooked : b # a => visit'[b] = visit[b]
         /\ \A b \in Rebooked : visit'[b].status = visit[b].status
BY MailParts

LEMMA WriteInquiryKeeps == ASSUME MailingInv, NEW n \in Notifiers, WriteInquiry(n) PROVE MailingInv'
<1>1. /\ MailHalf /\ notice[n].at = "inquiry" /\ notice[n].at # "idle"
      /\ UNCHANGED <<pg, mail, diaryOf, clashed, faults>> BY DEF WriteInquiry, MailingInv
<1>2. PICK c \in NoticeRows, a \in Rebooked, v \in RebookRow, s \in Sayings : WorksFor(n, c, a, v, s) BY <1>1, JobOf
<1>3. HasJob(n, c, a, v, s) /\ c = notice[n] /\ a = notice[n].of /\ v = visit[a] /\ v.status \in {"confirmed", "cancelled"}
  BY <1>2 DEF WorksFor
<1>4. PICK at \in Early \cup Late : at = "read page" BY DEF Early
<1>5. GoOn(n, at) BY <1>4 DEF WriteInquiry
<1>6. PICK d \in NoticeRows :
         /\ notice' = [notice EXCEPT ![n] = d] /\ d.at = at /\ d.at # "idle" /\ d # FreeNotifier
         /\ d.of = notice[n].of /\ d.kind = notice[n].kind /\ d.says = notice[n].says /\ d.page = notice[n].page
  BY <1>1, <1>5, StepOn
<1>7. MailStaysDue(c, d) BY <1>1, <1>3 DEF MailStaysDue
<1>8. c.at \in Early /\ d.at \in Early BY <1>1, <1>3, <1>4, <1>6 DEF Early
<1>11. ASSUME Calm PROVE v.page # NoPg => pg[v.page].says = "Confirmed"
  <2>1. CalmHalf BY <1>11 DEF MailingInv
  <2>2. PageHolds(c, v, s) BY <1>1, <1>3, <1>8, <2>1, CalmPage
  <2> QED BY <2>2, <1>1, <1>3, <1>8, <2>1 DEF PageHolds
<1>9. CASE v.inquiry
  <2>1. UNCHANGED <<visit, notes>> BY <1>3, <1>9 DEF WriteInquiry
  <2>2. WorldStays BY <1>1, <2>1, WorldRests
  <2>3. Turns(n, c, d, a, v) BY <1>1, <1>3, <1>6, <2>1 DEF Turns
  <2>4. Calm => PageFits(d, v, s) /\ MarksFit(d, v) BY <1>1, <1>3, <1>8, <2>1, EarlyFits
  <2> QED BY <1>3, <1>7, <2>2, <2>3, <2>4, NoticeGoes
<1>10. CASE ~v.inquiry
  <2>1. PICK w \in RebookRow : /\ w.status = v.status /\ w.page = v.page /\ w.session = v.session /\ w.inquiry
                               /\ visit' = [visit EXCEPT ![a] = w]
    <3> DEFINE w == [v EXCEPT !.inquiry = TRUE]
    <3>1. visit' = [visit EXCEPT ![a] = w] BY <1>3, <1>10 DEF WriteInquiry
    <3>2. w \in RebookRow /\ w.status = v.status /\ w.page = v.page /\ w.session = v.session /\ w.inquiry BY DEF RebookRow
    <3> QED BY <3>1, <3>2
  <2>2. notes' = notes + 1 BY <1>3, <1>10 DEF WriteInquiry
  <2>3. /\ visit' \in [Rebooked -> RebookRow] /\ visit'[a] = w /\ \A b \in Rebooked : b # a => visit'[b] = visit[b]
        /\ \A b \in Rebooked : visit'[b].status = visit[b].status BY <1>1, <1>3, <2>1, RowWritten
  <2>4. WorldStays
    <3>1. UNCHANGED <<unsent, failed>> /\ notes' \in Nat BY <1>1, <2>2, MailParts DEF faults
    <3> QED BY <1>1, <2>3, <3>1, MailParts DEF WorldStays
  <2>5. Turns(n, c, d, a, w) BY <1>3, <1>6, <2>3 DEF Turns
  <2>6. ASSUME Calm PROVE PageFits(d, w, s) /\ MarksFit(d, w)
    <3>1. MarksHold(c, v) /\ CalmHalf BY <1>1, <1>3, <2>6, CalmMarks DEF MailingInv
    <3>6. notes \in {0, 1} /\ (v.inquiry <=> notes = 1) BY <3>1 DEF MarksHold
    <3>7. notes = 0 BY <1>10, <3>6, Zenon
    <3>2. notes' \in {0, 1} /\ notes' = 1 BY <2>2, <3>7
    <3>3. MarksFit(d, w) BY <1>1, <1>8, <2>1, <3>1, <3>2 DEF MarksFit, MarksHold, Early
    <3>4. v.page # NoPg => pg[v.page].says = "Confirmed" BY <1>11, <2>6
    <3>5. PageFits(d, w, s) BY <1>1, <1>6, <1>8, <2>1, <3>4 DEF PageFits, Early
    <3> QED BY <3>3, <3>5
  <2> QED BY <1>3, <1>7, <2>4, <2>5, <2>6, NoticeGoes
<1> QED BY <1>9, <1>10

LEMMA ReadPageKeeps == ASSUME MailingInv, NEW n \in Notifiers, ReadPage(n) PROVE MailingInv'
<1>1. /\ MailHalf /\ notice[n].at = "read page" /\ notice[n].at # "idle"
      /\ UNCHANGED <<visit, pg, mail, diaryOf, notes, clashed, faults>> BY DEF ReadPage, MailingInv
<1>2. PICK c \in NoticeRows, a \in Rebooked, v \in RebookRow, s \in Sayings : WorksFor(n, c, a, v, s) BY <1>1, JobOf
<1>3. HasJob(n, c, a, v, s) /\ c = notice[n] /\ a = notice[n].of /\ v = visit[a] /\ v.status \in {"confirmed", "cancelled"}
  BY <1>2 DEF WorksFor
<1>4. s = SaysOf(a) BY <1>3 DEF HasJob
<1>5. s \in {"Confirmed", "Cancelled"} BY <1>4 DEF SaysOf
<1>6. PICK d \in NoticeRows : /\ notice' = [notice EXCEPT ![n] = d] /\ d.at = "write page" /\ d.at # "idle" /\ d # FreeNotifier
                              /\ d.of = c.of /\ d.kind = c.kind /\ d.says = s /\ d.page = v.page
  <2> DEFINE d == [c EXCEPT !.at = "write page", !.says = s, !.page = v.page]
  <2>1. notice' = [notice EXCEPT ![n] = d] BY <1>3, <1>4 DEF ReadPage
  <2>2. d \in NoticeRows /\ d.at = "write page" /\ d.at # "idle" BY <1>5 DEF NoticeRows, Late, RebookRow
  <2>3. d.of = c.of /\ d.kind = c.kind /\ d.says = s /\ d.page = v.page BY DEF NoticeRows
  <2> QED BY <2>1, <2>2, <2>3, NoticeSets
<1>7. MailStaysDue(c, d) BY <1>1, <1>3 DEF MailStaysDue
<1>8. WorldStays BY <1>1, WorldRests
<1>9. Turns(n, c, d, a, v) BY <1>1, <1>3, <1>6 DEF Turns
<1>10. ASSUME Calm PROVE PageFits(d, v, s) /\ MarksFit(d, v)
  <2>1. MarksHold(c, v) /\ CalmHalf BY <1>1, <1>3, <1>10, CalmMarks DEF MailingInv
  <2>2. c.at \in Early BY <1>1, <1>3 DEF Early
  <2>3p. PageHolds(c, v, s) BY <1>1, <1>3, <2>1, <2>2, CalmPage
  <2>3. v.page # NoPg => pg[v.page].says = "Confirmed" BY <2>3p, <1>1, <1>3, <2>1, <2>2 DEF PageHolds
  <2>4. MarksFit(d, v) BY <1>1, <1>6, <2>1, <2>2 DEF MarksFit, MarksHold, Early
  <2>5. PageFits(d, v, s) BY <1>1, <1>6, <2>3 DEF PageFits, Early
  <2> QED BY <2>4, <2>5
<1> QED BY <1>3, <1>7, <1>8, <1>9, <1>10, NoticeGoes

LEMMA NextStep ==
  ASSUME MailHalf, NEW n \in Notifiers, Proceed(n)
  PROVE  \E d \in NoticeRows :
           /\ notice' = [notice EXCEPT ![n] = d]
           /\ d = FreeNotifier \/ (d.at = "session" /\ d.at # "idle" /\ d # FreeNotifier)
           /\ d = FreeNotifier \/ (d.of = notice[n].of /\ d.kind = notice[n].kind)
<1>1. CASE After(n) = "idle"
  <2>1. notice' = [notice EXCEPT ![n] = FreeNotifier] BY <1>1 DEF Proceed, Leave
  <2> QED BY <2>1, NoticeSets
<1>2. CASE After(n) # "idle"
  <2>1. PICK at \in Early \cup Late : at = "session" BY DEF Late
  <2>2. GoOn(n, at) BY <1>2, <2>1 DEF Proceed, After
  <2>3. PICK d \in NoticeRows :
         /\ notice' = [notice EXCEPT ![n] = d] /\ d.at = at /\ d.at # "idle" /\ d # FreeNotifier
         /\ d.of = notice[n].of /\ d.kind = notice[n].kind /\ d.says = notice[n].says /\ d.page = notice[n].page
    BY <2>2, StepOn
  <2> QED BY <2>1, <2>3
<1> QED BY <1>1, <1>2

LEMMA BookedIsHeld ==
  ASSUME NEW c, NEW v, MarksHold(c, v), c.at # "stamp session"
  PROVE  \A p \in NotionPages : pg[p].says = "Booked" => v.session = p
BY DEF MarksHold

LEMMA PatchBookingPageKeeps == ASSUME MailingInv, NEW n \in Notifiers, PatchBookingPage(n) PROVE MailingInv'
<1>1. /\ MailHalf /\ notice[n].at = "write page" /\ notice[n].at # "idle" /\ notice[n].page # NoPg /\ Proceed(n)
      /\ pg' = [pg EXCEPT ![notice[n].page].says = notice[n].says]
      /\ UNCHANGED <<visit, mail, diaryOf, notes, clashed, faults>> BY DEF PatchBookingPage, MailingInv
<1>2. PICK c \in NoticeRows, a \in Rebooked, v \in RebookRow, s \in Sayings : WorksFor(n, c, a, v, s) BY <1>1, JobOf
<1>3. HasJob(n, c, a, v, s) /\ c = notice[n] /\ a = notice[n].of /\ v = visit[a] /\ v.status \in {"confirmed", "cancelled"}
  BY <1>2 DEF WorksFor
<1>4. PICK d \in NoticeRows :
         /\ notice' = [notice EXCEPT ![n] = d]
         /\ d = FreeNotifier \/ (d.at = "session" /\ d.at # "idle" /\ d # FreeNotifier)
         /\ d = FreeNotifier \/ (d.of = notice[n].of /\ d.kind = notice[n].kind) BY <1>1, NextStep
<1>5. PICK q \in NotionPages : q = c.page BY <1>1, <1>3 DEF NoticeRows, PageIds
<1>6. c.says \in {"none", "Confirmed", "Cancelled"} BY DEF NoticeRows
<1>7. /\ pg' \in [NotionPages -> PgRows] /\ pg'[q].says = c.says /\ \A p \in NotionPages : p # q => pg'[p] = pg[p]
  <2>1. pg' = [pg EXCEPT ![q].says = c.says] BY <1>1, <1>3, <1>5
  <2> QED BY <1>1, <1>6, <2>1, MailParts DEF PgRows
<1>8. WorldStays BY <1>1, <1>7, MailParts DEF WorldStays, faults
<1>9. Turns(n, c, d, a, v) BY <1>1, <1>3, <1>4, NoticeSets DEF Turns
<1>10. MailStaysDue(c, d) BY <1>1, <1>3 DEF MailStaysDue
<1>11. ASSUME Calm PROVE PageFits(d, v, s) /\ MarksFit(d, v)
  <2>1. MarksHold(c, v) /\ CalmHalf BY <1>1, <1>3, <1>11, CalmMarks DEF MailingInv
  <2>2. c.at = "write page" BY <1>1, <1>3
  <2>3p. PageHolds(c, v, s) BY <1>1, <1>3, <2>1, <2>2, CalmPage
  <2>3. c.page = v.page /\ c.says = s /\ s \in {"Confirmed", "Cancelled"} BY <2>3p, <1>1, <1>3, <2>1, <2>2 DEF PageHolds
  <2>4. v.page = q /\ v.page # NoPg /\ pg'[q].says = s BY <1>5, <1>7, <2>3, NoticeSets
  <2>5. d.at # "write page" /\ d.at # "stamp" /\ d.at # "stamp session" BY <1>4, NoticeSets
  <2>6. PageFits(d, v, s)
    <3>1. CASE d = FreeNotifier BY <2>4, <3>1 DEF PageFits
    <3>2. CASE d # FreeNotifier BY <1>4, <2>4, <2>5, <3>2 DEF PageFits, Early
    <3> QED BY <3>1, <3>2
  <2>7. MarksFit(d, v)
    <3>1. \A p \in NotionPages : pg'[p].says = "Confirmed" => v.page = p BY <1>7, <2>1, <2>2, <2>4 DEF MarksHold
    <3>6. c.at # "stamp session" BY <2>2
    <3>5. \A p \in NotionPages : pg[p].says = "Booked" => v.session = p BY <2>1, <3>6, BookedIsHeld
    <3>2. \A p \in NotionPages : pg'[p].says = "Booked" => v.session = p BY <1>7, <2>3, <3>5
    <3>3. notes' \in {0, 1} /\ (v.inquiry <=> notes' = 1) BY <1>1, <2>1 DEF MarksHold
    <3> QED BY <3>1, <3>2, <3>3 DEF MarksFit
  <2> QED BY <2>6, <2>7
<1> QED BY <1>3, <1>8, <1>9, <1>10, <1>11, NoticeGoes

LEMMA FreshIsUnmade == \A p \in FreshPages : p \in NotionPages /\ pg[p] = Unmade
<1>1. CASE Unused = {} BY <1>1 DEF FreshPages
<1>2. CASE Unused # {}
  <2>1. (CHOOSE p \in Unused : TRUE) \in Unused BY <1>2
  <2> QED BY <1>2, <2>1 DEF FreshPages, Unused
<1> QED BY <1>1, <1>2

LEMMA CreateBookingPageKeeps == ASSUME MailingInv, NEW n \in Notifiers, CreateBookingPage(n) PROVE MailingInv'
<1>1. /\ MailHalf /\ notice[n].at = "write page" /\ notice[n].at # "idle" /\ notice[n].page = NoPg
      /\ UNCHANGED <<visit, mail, diaryOf, notes, clashed, faults>> BY DEF CreateBookingPage, MailingInv
<1>2. PICK c \in NoticeRows, a \in Rebooked, v \in RebookRow, s \in Sayings : WorksFor(n, c, a, v, s) BY <1>1, JobOf
<1>3. HasJob(n, c, a, v, s) /\ c = notice[n] /\ a = notice[n].of /\ v = visit[a] /\ v.status \in {"confirmed", "cancelled"}
  BY <1>2 DEF WorksFor
<1>4. PICK q \in NotionPages :
         /\ pg[q] = Unmade /\ pg' = [pg EXCEPT ![q] = [of |-> a, says |-> c.says]]
         /\ notice' = [notice EXCEPT ![n].at = "stamp", ![n].page = q] BY <1>3, FreshIsUnmade DEF CreateBookingPage
<1>5. PICK d \in NoticeRows : /\ notice' = [notice EXCEPT ![n] = d] /\ d.at = "stamp" /\ d.at # "idle" /\ d # FreeNotifier
                              /\ d.of = c.of /\ d.kind = c.kind /\ d.page = q
  <2> DEFINE d == [c EXCEPT !.at = "stamp", !.page = q]
  <2>1. notice' = [notice EXCEPT ![n] = d] BY <1>3, <1>4
  <2>2. d \in NoticeRows /\ d.at = "stamp" /\ d.at # "idle" BY DEF NoticeRows, Late, PageIds
  <2>3. d.of = c.of /\ d.kind = c.kind /\ d.page = q BY DEF NoticeRows
  <2> QED BY <2>1, <2>2, <2>3, NoticeSets
<1>6. c.says \in {"none", "Confirmed", "Cancelled"} BY DEF NoticeRows
<1>7. /\ pg' \in [NotionPages -> PgRows] /\ pg'[q].says = c.says /\ \A p \in NotionPages : p # q => pg'[p] = pg[p]
  BY <1>1, <1>4, <1>6, MailParts DEF PgRows
<1>8. WorldStays BY <1>1, <1>7, MailParts DEF WorldStays, faults
<1>9. Turns(n, c, d, a, v) BY <1>1, <1>3, <1>5 DEF Turns
<1>10. MailStaysDue(c, d) BY <1>1, <1>3 DEF MailStaysDue
<1>11. ASSUME Calm PROVE PageFits(d, v, s) /\ MarksFit(d, v)
  <2>1. MarksHold(c, v) /\ CalmHalf BY <1>1, <1>3, <1>11, CalmMarks DEF MailingInv
  <2>2. c.at = "write page" BY <1>1, <1>3
  <2>3p. PageHolds(c, v, s) BY <1>1, <1>3, <2>1, <2>2, CalmPage
  <2>3. c.page = v.page /\ c.says = s /\ s \in {"Confirmed", "Cancelled"} BY <2>3p, <1>1, <1>3, <2>1, <2>2 DEF PageHolds
  <2>4. v.page = NoPg /\ pg'[q].says = s BY <1>1, <1>3, <1>7, <2>3
  <2>5. PageFits(d, v, s) BY <1>5, <2>4 DEF PageFits, Early
  <2>6. MarksFit(d, v)
    <3>1. \A p \in NotionPages : pg'[p].says = "Confirmed" => p = q
      BY <1>7, <2>1, <2>2, <2>4, NoticeSets DEF MarksHold
    <3>6. c.at # "stamp session" BY <2>2
    <3>5. \A p \in NotionPages : pg[p].says = "Booked" => v.session = p BY <2>1, <3>6, BookedIsHeld
    <3>2. \A p \in NotionPages : pg'[p].says = "Booked" => v.session = p BY <1>7, <2>3, <3>5
    <3>3. notes' \in {0, 1} /\ (v.inquiry <=> notes' = 1) BY <1>1, <2>1 DEF MarksHold
    <3> QED BY <1>5, <3>1, <3>2, <3>3 DEF MarksFit
  <2> QED BY <2>5, <2>6
<1> QED BY <1>3, <1>8, <1>9, <1>10, <1>11, NoticeGoes

LEMMA StampBookingKeeps == ASSUME MailingInv, NEW n \in Notifiers, StampBooking(n) PROVE MailingInv'
<1>1. /\ MailHalf /\ notice[n].at = "stamp" /\ notice[n].at # "idle" /\ Proceed(n)
      /\ UNCHANGED <<pg, mail, diaryOf, notes, clashed, faults>> BY DEF StampBooking, MailingInv
<1>2. PICK c \in NoticeRows, a \in Rebooked, v \in RebookRow, s \in Sayings : WorksFor(n, c, a, v, s) BY <1>1, JobOf
<1>3. HasJob(n, c, a, v, s) /\ c = notice[n] /\ a = notice[n].of /\ v = visit[a] /\ v.status \in {"confirmed", "cancelled"}
  BY <1>2 DEF WorksFor
<1>4. PICK d \in NoticeRows :
         /\ notice' = [notice EXCEPT ![n] = d]
         /\ d = FreeNotifier \/ (d.at = "session" /\ d.at # "idle" /\ d # FreeNotifier)
         /\ d = FreeNotifier \/ (d.of = notice[n].of /\ d.kind = notice[n].kind) BY <1>1, NextStep
<1>5. PICK w \in RebookRow : /\ w.status = v.status /\ w.page = (IF v.page = NoPg THEN c.page ELSE v.page)
                             /\ w.session = v.session /\ w.inquiry = v.inquiry /\ visit' = [visit EXCEPT ![a] = w]
  <2>1. CASE v.page = NoPg
    <3> DEFINE w == [v EXCEPT !.page = c.page]
    <3>1. visit' = [visit EXCEPT ![a] = w] BY <1>3, <2>1 DEF StampBooking
    <3>2. w \in RebookRow /\ w.status = v.status /\ w.page = c.page /\ w.session = v.session /\ w.inquiry = v.inquiry
      BY DEF RebookRow, NoticeRows
    <3> QED BY <2>1, <3>1, <3>2
  <2>2. CASE v.page # NoPg
    <3>1. visit' = visit BY <1>3, <2>2 DEF StampBooking
    <3>2. visit' = [visit EXCEPT ![a] = v] BY <1>1, <1>3, <3>1, MailParts
    <3> QED BY <2>2, <3>2
  <2> QED BY <2>1, <2>2
<1>6. /\ visit' \in [Rebooked -> RebookRow] /\ visit'[a] = w /\ \A b \in Rebooked : b # a => visit'[b] = visit[b]
      /\ \A b \in Rebooked : visit'[b].status = visit[b].status BY <1>1, <1>3, <1>5, RowWritten
<1>7. pg' \in [NotionPages -> PgRows] BY <1>1, MailParts
<1>8. WorldStays BY <1>1, <1>6, <1>7, MailParts DEF WorldStays, faults
<1>9. Turns(n, c, d, a, w) BY <1>1, <1>3, <1>4, <1>6, NoticeSets DEF Turns
<1>10. MailStaysDue(c, d) BY <1>1, <1>3 DEF MailStaysDue
<1>11. ASSUME Calm PROVE PageFits(d, w, s) /\ MarksFit(d, w)
  <2>1. MarksHold(c, v) /\ CalmHalf BY <1>1, <1>3, <1>11, CalmMarks DEF MailingInv
  <2>2. c.at = "stamp" BY <1>1, <1>3
  <2>3p. PageHolds(c, v, s) BY <1>1, <1>3, <2>1, <2>2, CalmPage
  <2>3. v.page = NoPg /\ c.page \in NotionPages /\ pg[c.page].says = s BY <2>3p, <1>1, <1>3, <2>1, <2>2 DEF PageHolds
  <2>4. w.page = c.page /\ w.page # NoPg /\ pg'[w.page].says = s BY <1>1, <1>5, <2>3, NoticeSets
  <2>5. d.at # "write page" /\ d.at # "stamp" /\ d.at # "stamp session" BY <1>4, NoticeSets
  <2>6. PageFits(d, w, s)
    <3>1. CASE d = FreeNotifier BY <2>4, <3>1 DEF PageFits
    <3>2. CASE d # FreeNotifier BY <1>4, <2>4, <2>5, <3>2 DEF PageFits, Early
    <3> QED BY <3>1, <3>2
  <2>7. MarksFit(d, w)
    <3>1. \A p \in NotionPages : pg'[p].says = "Confirmed" => w.page = p
      BY <1>1, <2>1, <2>3, <2>4, NoticeSets DEF MarksHold
    <3>6. c.at # "stamp session" BY <2>2
    <3>5. \A p \in NotionPages : pg[p].says = "Booked" => v.session = p BY <2>1, <3>6, BookedIsHeld
    <3>2. \A p \in NotionPages : pg'[p].says = "Booked" => w.session = p BY <1>1, <1>5, <3>5
    <3>3. notes' \in {0, 1} /\ (v.inquiry <=> notes' = 1) BY <1>1, <2>1 DEF MarksHold
    <3>4. w.inquiry <=> notes' = 1 BY <1>5, <3>3, Zenon
    <3> QED BY <3>1, <3>2, <3>3, <3>4 DEF MarksFit
  <2> QED BY <2>6, <2>7
<1> QED BY <1>3, <1>8, <1>9, <1>10, <1>11, NoticeGoes

LEMMA InheritedIsPage == ASSUME MailHalf, NEW a \in Rebooked, IsThere(a) PROVE Inherited(a) \in PageIds
<1>1. CASE a = 1 BY <1>1 DEF Inherited, PageIds
<1>2. CASE a # 1
  <2>1. a - 1 \in Rebooked BY <1>2, MailParts DEF FamilyIsInLine
  <2>2. visit[a - 1] \in RebookRow BY <2>1, MailParts
  <2> QED BY <1>2, <2>2 DEF Inherited, RebookRow
<1> QED BY <1>1, <1>2

LEMMA SessionIsHanded ==
  ASSUME MailingInv, NEW n \in Notifiers, SyncSession(n),
         HasSession(notice[n].of) \/ Inherited(notice[n].of) # NoPg
  PROVE  MailingInv'
<1>1. /\ MailHalf /\ notice[n].at = "session" /\ notice[n].at # "idle" /\ pg' = pg
      /\ notice' = [notice EXCEPT ![n] = FreeNotifier]
      /\ UNCHANGED <<mail, diaryOf, notes, clashed, faults>> BY DEF SyncSession, Leave, MailingInv
<1>2. PICK c \in NoticeRows, a \in Rebooked, v \in RebookRow, s \in Sayings : WorksFor(n, c, a, v, s) BY <1>1, JobOf
<1>3. HasJob(n, c, a, v, s) /\ c = notice[n] /\ a = notice[n].of /\ v = visit[a] /\ v.status \in {"confirmed", "cancelled"}
  BY <1>2 DEF WorksFor
<1>4. PICK d \in NoticeRows : d = FreeNotifier BY NoticeSets
<1>5. PICK w \in RebookRow : /\ w.status = v.status /\ w.page = v.page /\ w.inquiry = v.inquiry
                             /\ w.session = v.session \/ v.session = NoPg
                             /\ visit' = [visit EXCEPT ![a] = w]
  <2>1. CASE HasSession(a)
    <3>1. visit' = visit BY <1>3, <2>1 DEF SyncSession
    <3>2. visit' = [visit EXCEPT ![a] = v] BY <1>1, <1>3, <3>1, MailParts
    <3> QED BY <3>2
  <2>2. CASE ~HasSession(a)
    <3> DEFINE w == [v EXCEPT !.session = Inherited(a)]
    <3>1. visit' = [visit EXCEPT ![a] = w] BY <1>3, <2>2 DEF SyncSession
    <3>2. Inherited(a) \in PageIds BY <1>1, <1>3, BusyRow, InheritedIsPage
    <3>3. w \in RebookRow /\ w.status = v.status /\ w.page = v.page /\ w.inquiry = v.inquiry BY <3>2 DEF RebookRow
    <3>4. v.session = NoPg BY <1>3, <2>2 DEF HasSession
    <3> QED BY <3>1, <3>3, <3>4
  <2> QED BY <2>1, <2>2
<1>6. /\ visit' \in [Rebooked -> RebookRow] /\ visit'[a] = w /\ \A b \in Rebooked : b # a => visit'[b] = visit[b]
      /\ \A b \in Rebooked : visit'[b].status = visit[b].status BY <1>1, <1>3, <1>5, RowWritten
<1>7. pg' \in [NotionPages -> PgRows] BY <1>1, MailParts
<1>8. WorldStays BY <1>1, <1>6, <1>7, MailParts DEF WorldStays, faults
<1>9. Turns(n, c, d, a, w) BY <1>1, <1>3, <1>4, <1>6 DEF Turns
<1>10. MailStaysDue(c, d) BY <1>1, <1>3 DEF MailStaysDue
<1>11. ASSUME Calm PROVE PageFits(d, w, s) /\ MarksFit(d, w)
  <2>1. MarksHold(c, v) /\ CalmHalf BY <1>1, <1>3, <1>11, CalmMarks DEF MailingInv
  <2>2. c.at = "session" /\ c.at # "stamp session" BY <1>1, <1>3
  <2>3. PageHolds(c, v, s) BY <1>1, <1>3, <2>1, <2>2, CalmPage
  <2>4. v.page # NoPg /\ pg[v.page].says = s BY <2>2, <2>3 DEF PageHolds
  <2>5. PageFits(d, w, s) BY <1>1, <1>4, <1>5, <2>4 DEF PageFits
  <2>6. MarksFit(d, w)
    <3>1. \A p \in NotionPages : pg'[p].says = "Confirmed" => w.page = p BY <1>1, <1>5, <2>1, <2>2 DEF MarksHold
    <3>5. \A p \in NotionPages : pg[p].says = "Booked" => v.session = p BY <2>1, <2>2, BookedIsHeld
    <3>2. \A p \in NotionPages : pg'[p].says = "Booked" => w.session = p BY <1>1, <1>5, <3>5, NoticeSets
    <3>3. notes' \in {0, 1} /\ (v.inquiry <=> notes' = 1) BY <1>1, <2>1 DEF MarksHold
    <3>4. w.inquiry <=> notes' = 1 BY <1>5, <3>3, Zenon
    <3> QED BY <3>1, <3>2, <3>3, <3>4 DEF MarksFit
  <2> QED BY <2>5, <2>6
<1> QED BY <1>3, <1>8, <1>9, <1>10, <1>11, NoticeGoes

LEMMA SessionIsMade ==
  ASSUME MailingInv, NEW n \in Notifiers, SyncSession(n),
         ~HasSession(notice[n].of), Inherited(notice[n].of) = NoPg
  PROVE  MailingInv'
<1>1. /\ MailHalf /\ notice[n].at = "session" /\ notice[n].at # "idle"
      /\ UNCHANGED <<visit, mail, diaryOf, notes, clashed, faults>> BY DEF SyncSession, MailingInv
<1>2. PICK c \in NoticeRows, a \in Rebooked, v \in RebookRow, s \in Sayings : WorksFor(n, c, a, v, s) BY <1>1, JobOf
<1>3. HasJob(n, c, a, v, s) /\ c = notice[n] /\ a = notice[n].of /\ v = visit[a] /\ v.status \in {"confirmed", "cancelled"}
  BY <1>2 DEF WorksFor
<1>4. PICK q \in NotionPages :
         /\ pg[q] = Unmade /\ pg' = [pg EXCEPT ![q] = [of |-> a, says |-> "Booked"]]
         /\ notice' = [notice EXCEPT ![n].at = "stamp session", ![n].page = q] BY <1>3, FreshIsUnmade DEF SyncSession
<1>5. PICK d \in NoticeRows : /\ notice' = [notice EXCEPT ![n] = d] /\ d.at = "stamp session" /\ d.at # "idle"
                              /\ d # FreeNotifier /\ d.of = c.of /\ d.kind = c.kind /\ d.page = q
  <2> DEFINE d == [c EXCEPT !.at = "stamp session", !.page = q]
  <2>1. notice' = [notice EXCEPT ![n] = d] BY <1>3, <1>4
  <2>2. d \in NoticeRows /\ d.at = "stamp session" /\ d.at # "idle" BY DEF NoticeRows, Late, PageIds
  <2>3. d.of = c.of /\ d.kind = c.kind /\ d.page = q BY DEF NoticeRows
  <2> QED BY <2>1, <2>2, <2>3, NoticeSets
<1>6. v.session = NoPg BY <1>3 DEF HasSession
<1>7. /\ pg' \in [NotionPages -> PgRows] /\ pg'[q].says = "Booked" /\ \A p \in NotionPages : p # q => pg'[p] = pg[p]
  BY <1>1, <1>4, MailParts DEF PgRows
<1>8. WorldStays BY <1>1, <1>7, MailParts DEF WorldStays, faults
<1>9. Turns(n, c, d, a, v) BY <1>1, <1>3, <1>5 DEF Turns
<1>10. MailStaysDue(c, d) BY <1>1, <1>3 DEF MailStaysDue
<1>11. ASSUME Calm PROVE PageFits(d, v, s) /\ MarksFit(d, v)
  <2>1. MarksHold(c, v) /\ CalmHalf BY <1>1, <1>3, <1>11, CalmMarks DEF MailingInv
  <2>2. c.at = "session" /\ c.at # "stamp session" /\ c.at # "stamp" BY <1>1, <1>3
  <2>3. PageHolds(c, v, s) BY <1>1, <1>3, <2>1, <2>2, CalmPage
  <2>4. v.page # NoPg /\ pg[v.page].says = s /\ s \in {"Confirmed", "Cancelled"} BY <2>2, <2>3 DEF PageHolds
  <2>5. v.page \in NotionPages BY <2>4 DEF RebookRow, PageIds
  <2>6. v.page # q BY <1>4, <2>4, NoticeSets
  <2>7. pg'[v.page].says = s BY <1>7, <2>4, <2>5, <2>6
  <2>8. PageFits(d, v, s) BY <1>5, <1>6, <2>4, <2>7 DEF PageFits, Early
  <2>9. MarksFit(d, v)
    <3>1. \A p \in NotionPages : pg'[p].says = "Confirmed" => v.page = p BY <1>7, <2>1, <2>2 DEF MarksHold
    <3>5. \A p \in NotionPages : pg[p].says = "Booked" => v.session = p BY <2>1, <2>2, BookedIsHeld
    <3>2. \A p \in NotionPages : pg'[p].says = "Booked" => p = q BY <1>6, <1>7, <3>5, NoticeSets
    <3>3. notes' \in {0, 1} /\ (v.inquiry <=> notes' = 1) BY <1>1, <2>1 DEF MarksHold
    <3> QED BY <1>5, <1>6, <3>1, <3>2, <3>3 DEF MarksFit
  <2> QED BY <2>8, <2>9
<1> QED BY <1>3, <1>8, <1>9, <1>10, <1>11, NoticeGoes

LEMMA SyncSessionKeeps == ASSUME MailingInv, NEW n \in Notifiers, SyncSession(n) PROVE MailingInv'
BY SessionIsHanded, SessionIsMade

LEMMA StampSessionKeeps == ASSUME MailingInv, NEW n \in Notifiers, StampSession(n) PROVE MailingInv'
<1>1. /\ MailHalf /\ notice[n].at = "stamp session" /\ notice[n].at # "idle"
      /\ notice' = [notice EXCEPT ![n] = FreeNotifier]
      /\ UNCHANGED <<pg, mail, diaryOf, notes, clashed, faults>> BY DEF StampSession, Leave, MailingInv
<1>2. PICK c \in NoticeRows, a \in Rebooked, v \in RebookRow, s \in Sayings : WorksFor(n, c, a, v, s) BY <1>1, JobOf
<1>3. HasJob(n, c, a, v, s) /\ c = notice[n] /\ a = notice[n].of /\ v = visit[a] /\ v.status \in {"confirmed", "cancelled"}
  BY <1>2 DEF WorksFor
<1>4. PICK d \in NoticeRows : d = FreeNotifier BY NoticeSets
<1>5. PICK w \in RebookRow : /\ w.status = v.status /\ w.page = v.page /\ w.session = c.page /\ w.inquiry = v.inquiry
                             /\ visit' = [visit EXCEPT ![a] = w]
  <2> DEFINE w == [v EXCEPT !.session = c.page]
  <2>1. visit' = [visit EXCEPT ![a] = w] BY <1>3 DEF StampSession
  <2>2. w \in RebookRow /\ w.status = v.status /\ w.page = v.page /\ w.session = c.page /\ w.inquiry = v.inquiry
    BY DEF RebookRow, NoticeRows
  <2> QED BY <2>1, <2>2
<1>6. /\ visit' \in [Rebooked -> RebookRow] /\ visit'[a] = w /\ \A b \in Rebooked : b # a => visit'[b] = visit[b]
      /\ \A b \in Rebooked : visit'[b].status = visit[b].status BY <1>1, <1>3, <1>5, RowWritten
<1>7. pg' \in [NotionPages -> PgRows] BY <1>1, MailParts
<1>8. WorldStays BY <1>1, <1>6, <1>7, MailParts DEF WorldStays, faults
<1>9. Turns(n, c, d, a, w) BY <1>1, <1>3, <1>4, <1>6 DEF Turns
<1>10. MailStaysDue(c, d) BY <1>1, <1>3 DEF MailStaysDue
<1>11. ASSUME Calm PROVE PageFits(d, w, s) /\ MarksFit(d, w)
  <2>1. MarksHold(c, v) /\ CalmHalf BY <1>1, <1>3, <1>11, CalmMarks DEF MailingInv
  <2>2. c.at = "stamp session" BY <1>1, <1>3
  <2>3. PageHolds(c, v, s) BY <1>1, <1>3, <2>1, <2>2, CalmPage
  <2>4. v.page # NoPg /\ pg[v.page].says = s /\ v.session = NoPg BY <2>2, <2>3 DEF PageHolds
  <2>5. PageFits(d, w, s) BY <1>1, <1>4, <1>5, <2>4 DEF PageFits
  <2>6. MarksFit(d, w)
    <3>1. \A p \in NotionPages : pg'[p].says = "Confirmed" => w.page = p BY <1>1, <1>5, <2>1, <2>2 DEF MarksHold
    <3>2. \A p \in NotionPages : pg'[p].says = "Booked" => w.session = p
      BY <1>1, <1>5, <2>1, <2>4, NoticeSets DEF MarksHold
    <3>3. notes' \in {0, 1} /\ (v.inquiry <=> notes' = 1) BY <1>1, <2>1 DEF MarksHold
    <3>4. w.inquiry <=> notes' = 1 BY <1>5, <3>3, Zenon
    <3> QED BY <3>1, <3>2, <3>3, <3>4 DEF MarksFit
  <2> QED BY <2>5, <2>6
<1> QED BY <1>3, <1>8, <1>9, <1>10, <1>11, NoticeGoes

LEMMA NotionFailsKeeps == ASSUME MailingInv, NEW n \in Notifiers, NotionFails(n) PROVE MailingInv'
<1>1. /\ MailHalf /\ notice[n].at \in {"write page", "session"} /\ notice[n].at # "idle" /\ failed' = TRUE
      /\ UNCHANGED <<visit, pg, mail, diaryOf, notes, clashed, unsent>> BY DEF NotionFails, MailingInv
<1>2. PICK c \in NoticeRows, a \in Rebooked, v \in RebookRow, s \in Sayings : WorksFor(n, c, a, v, s) BY <1>1, JobOf
<1>3. HasJob(n, c, a, v, s) /\ c = notice[n] /\ a = notice[n].of /\ v = visit[a] /\ v.status \in {"confirmed", "cancelled"}
  BY <1>2 DEF WorksFor
<1>4. PICK d \in NoticeRows :
         /\ notice' = [notice EXCEPT ![n] = d]
         /\ d = FreeNotifier \/ (d.at = "session" /\ d.at # "idle" /\ d # FreeNotifier)
         /\ d = FreeNotifier \/ (d.of = notice[n].of /\ d.kind = notice[n].kind)
  <2>1. CASE notice[n].at = "session"
    <3>1. notice' = [notice EXCEPT ![n] = FreeNotifier] BY <2>1 DEF NotionFails, Leave
    <3> QED BY <3>1, NoticeSets
  <2>2. CASE notice[n].at # "session"
    <3>1. Proceed(n) BY <2>2 DEF NotionFails
    <3> QED BY <1>1, <3>1, NextStep
  <2> QED BY <2>1, <2>2
<1>5. WorldStays BY <1>1, MailParts DEF WorldStays
<1>6. Turns(n, c, d, a, v) BY <1>1, <1>3, <1>4, NoticeSets DEF Turns
<1>7. MailStaysDue(c, d) BY <1>1, <1>3 DEF MailStaysDue
<1>8. ~Calm' BY <1>1 DEF Calm
<1> QED BY <1>3, <1>5, <1>6, <1>7, <1>8, NoticeGoes

LEMMA NotifierKilledKeeps == ASSUME MailingInv, NEW n \in Notifiers, NotifierKilled(n) PROVE MailingInv'
<1>0. MailHalf BY DEF MailingInv
<1>1. /\ notice[n].at # "idle" /\ failed' = TRUE /\ notice' = [notice EXCEPT ![n] = FreeNotifier]
      /\ unsent' = (unsent \/ notice[n].at \in {"load", "mail"})
      /\ UNCHANGED <<visit, pg, mail, diaryOf, notes, clashed>> BY <1>0, BusyRow DEF NotifierKilled, Leave
<1>2. PICK c \in NoticeRows, a \in Rebooked, v \in RebookRow, s \in Sayings : WorksFor(n, c, a, v, s) BY <1>1, JobOf
<1>3. HasJob(n, c, a, v, s) /\ c = notice[n] /\ a = notice[n].of /\ v = visit[a] /\ v.status \in {"confirmed", "cancelled"}
  BY <1>2 DEF WorksFor
<1>4. PICK d \in NoticeRows : d = FreeNotifier BY NoticeSets
<1>5. unsent' \in BOOLEAN /\ (unsent => unsent') BY <1>0, <1>1, MailParts
<1>6. WorldStays BY <1>0, <1>1, <1>5, MailParts DEF WorldStays
<1>7. Turns(n, c, d, a, v) BY <1>1, <1>3, <1>4 DEF Turns
<1>8. MailStaysDue(c, d) BY <1>0, <1>1, <1>3, MailParts DEF MailStaysDue
<1>9. ~Calm' BY <1>1 DEF Calm
<1> QED BY <1>3, <1>6, <1>7, <1>8, <1>9, NoticeGoes

\* The mail a thread sends is fair, and due if the thread's kind of notice is.
LEMMA InvitationIsFair ==
  ASSUME MailHalf, NEW n \in Notifiers, notice[n].at # "idle"
  PROVE  /\ Invitation(n) \in Envelopes /\ MailIsFair(Invitation(n))
         /\ notice[n].kind = DueKind(notice[n].of) => IsDue(Invitation(n), notice[n].of)
<1>1. PICK a \in Rebooked : a = notice[n].of BY BusyRow
<1>2. /\ IsThere(a) /\ a \in Nat /\ a >= 1 /\ notice[n].kind \in {"confirm", "cancel"}
      /\ notice[n].kind = "cancel" => visit[a].status = "cancelled" /\ IsLast(a)
  <2>1. /\ notice[n] \in NoticeRows /\ IsThere(notice[n].of)
        /\ notice[n].kind = "cancel" => visit[notice[n].of].status = "cancelled" /\ IsLast(notice[n].of) BY BusyRow
  <2>2. a \in Nat /\ a >= 1 BY NoticeSets
  <2> QED BY <1>1, <2>1, <2>2 DEF NoticeRows
<1>3. CASE notice[n].kind = "cancel"
  <2>1. Sequence(n) = a - 1 + 1 BY <1>1, <1>3 DEF Sequence
  <2>2. Sequence(n) = a BY <1>2, <2>1
  <2>3. Invitation(n) = [method |-> "CANCEL", sequence |-> a] BY <1>3, <2>2 DEF Invitation
  <2>4. Invitation(n) \in Envelopes /\ CallsOff(Invitation(n), a) BY <1>2, <2>3 DEF Envelopes, CallsOff
  <2>5. MailIsFair(Invitation(n)) BY <1>2, <1>3, <2>4 DEF MailIsFair
  <2>6. IsDue(Invitation(n), a) BY <1>2, <1>3, <2>4 DEF IsDue
  <2> QED BY <1>1, <2>4, <2>5, <2>6
<1>4. CASE notice[n].kind = "confirm"
  <2>1. Sequence(n) = a - 1 + 0 BY <1>1, <1>4 DEF Sequence
  <2>2. Sequence(n) = a - 1 /\ a - 1 \in Nat BY <1>2, <2>1
  <2>3. Invitation(n) = [method |-> "REQUEST", sequence |-> a - 1] BY <1>4, <2>2 DEF Invitation
  <2>4. Invitation(n) \in Envelopes /\ InvitesTo(Invitation(n), a) BY <2>2, <2>3 DEF Envelopes, InvitesTo
  <2>5. MailIsFair(Invitation(n)) BY <1>2, <2>4 DEF MailIsFair
  <2>6. ASSUME notice[n].kind = DueKind(a) PROVE IsDue(Invitation(n), a) BY <1>4, <2>4, <2>6 DEF IsDue, DueKind
  <2> QED BY <1>1, <2>4, <2>5, <2>6
<1> QED BY <1>2, <1>3, <1>4

LEMMA SendNoticeKeeps == ASSUME MailingInv, NEW n \in Notifiers, SendNotice(n) PROVE MailingInv'
<1>1. /\ MailHalf /\ notice[n].at = "mail" /\ notice[n].at # "idle"
      /\ UNCHANGED <<visit, pg, diaryOf, notes, clashed, failed>> BY DEF SendNotice, MailingInv
<1>2. PICK c \in NoticeRows, a \in Rebooked, v \in RebookRow, s \in Sayings : WorksFor(n, c, a, v, s) BY <1>1, JobOf
<1>3. HasJob(n, c, a, v, s) /\ c = notice[n] /\ a = notice[n].of /\ v = visit[a] /\ v.status \in {"confirmed", "cancelled"}
  BY <1>2 DEF WorksFor
<1>4. PICK at \in Early \cup Late : at \in Early /\ GoOn(n, at)
  <2>1. CASE notice[n].kind = "cancel"
    <3>1. GoOn(n, "read page") BY <2>1 DEF SendNotice
    <3> QED BY <3>1 DEF Early
  <2>2. CASE notice[n].kind # "cancel"
    <3>1. GoOn(n, "inquiry") BY <2>2 DEF SendNotice
    <3> QED BY <3>1 DEF Early
  <2> QED BY <2>1, <2>2
<1>5. PICK d \in NoticeRows :
         /\ notice' = [notice EXCEPT ![n] = d] /\ d.at = at /\ d.at # "idle" /\ d # FreeNotifier
         /\ d.of = notice[n].of /\ d.kind = notice[n].kind /\ d.says = notice[n].says /\ d.page = notice[n].page
  BY <1>1, <1>4, StepOn
<1>6. PICK m \in Envelopes : m = Invitation(n) /\ MailIsFair(m) /\ (c.kind = DueKind(a) => IsDue(m, a))
  <2>1. /\ Invitation(n) \in Envelopes /\ MailIsFair(Invitation(n))
        /\ notice[n].kind = DueKind(notice[n].of) => IsDue(Invitation(n), notice[n].of) BY <1>1, InvitationIsFair
  <2> QED BY <1>3, <2>1
<1>7. (mail' = mail \cup {m} /\ unsent' = unsent) \/ (mail' = mail /\ unsent' = TRUE) BY <1>6 DEF SendNotice
<1>8a. mail \subseteq mail' /\ mail' \subseteq Envelopes /\ \A x \in mail' : x \in mail \/ MailIsFair(x)
  BY <1>1, <1>6, <1>7, MailParts
<1>8b. unsent' \in BOOLEAN
  <2>1. unsent \in BOOLEAN BY <1>1, MailParts
  <2> QED BY <1>7, <2>1
<1>8c. unsent => unsent' BY <1>7, Zenon
<1>9. WorldStays BY <1>1, <1>8a, <1>8b, <1>8c, MailParts DEF WorldStays
<1>10. Turns(n, c, d, a, v) BY <1>1, <1>3, <1>5 DEF Turns
<1>11. MailStaysDue(c, d)
  <2>1. c.of = a BY <1>3
  <2>2. unsent' \/ m \in mail' BY <1>7
  <2> QED BY <1>6, <2>1, <2>2 DEF MailStaysDue
<1>12. c.at \in Early /\ d.at \in Early BY <1>1, <1>3, <1>4, <1>5 DEF Early
<1>13. Calm => PageFits(d, v, s) /\ MarksFit(d, v) BY <1>1, <1>3, <1>12, EarlyFits
<1> QED BY <1>3, <1>9, <1>10, <1>11, <1>13, NoticeGoes

LEMMA CalmFrame == ASSUME CalmHalf, UNCHANGED <<visit, pg, notice, notes>> PROVE CalmHalf'
<1>1. /\ \A a \in Rebooked : IsThere(a)' <=> IsThere(a)
      /\ \A a \in Rebooked : IsLast(a)' <=> IsLast(a)
      /\ \A a \in Rebooked : DueKind(a)' = DueKind(a) /\ SaysOf(a)' = SaysOf(a) BY StatusesKept
<1>2. OneAtWork' BY DEF CalmHalf, OneAtWork, IsLast, IsThere, DueKind
<1>3. PagesFollow' BY DEF CalmHalf, PagesFollow, PageFollows, SaysOf
<1>4. PagesRest' BY <1>1 DEF CalmHalf, PagesRest, AtWork
<1>5. LeftHaveNone' BY <1>1 DEF CalmHalf, LeftHaveNone
<1>6. ConfirmedAreHeld' BY DEF CalmHalf, ConfirmedAreHeld, Stamping2
<1>7. InquiryIsOne' BY <1>1 DEF CalmHalf, InquiryIsOne
<1>8. SessionIsOne' BY <1>1 DEF CalmHalf, SessionIsOne, StampingSession
<1> QED BY <1>2, <1>3, <1>4, <1>5, <1>6, <1>7, <1>8 DEF CalmHalf

LEMMA MailArrivesKeeps == ASSUME MailingInv, NEW m \in mail, MailArrives(m) PROVE MailingInv'
<1>1. /\ MailHalf /\ mail' = mail \ {m} /\ UNCHANGED <<visit, pg, notice, notes, clashed, faults>>
      /\ diaryOf' = IF diaryOf.method = "none" \/ m.sequence >= diaryOf.sequence THEN m ELSE diaryOf
  BY DEF MailArrives, MailingInv
<1>2. m \in Envelopes /\ diaryOf \in Envelopes /\ MailIsFair(m) /\ (diaryOf.method = "none" \/ MailIsFair(diaryOf))
  BY <1>1, MailParts DEF MailsAreFair
<1>3. /\ \A a \in Rebooked : IsThere(a)' <=> IsThere(a)
      /\ \A a \in Rebooked : IsLast(a)' <=> IsLast(a)
      /\ \A a \in Rebooked : DueKind(a)' = DueKind(a) /\ visit'[a].status = visit[a].status BY <1>1, StatusesKept
<1>4. diaryOf' \in {m, diaryOf} BY <1>1
<1>5. NoticesTyped' BY <1>1, <1>2, <1>4, MailParts DEF NoticesTyped, faults
<1>6. FamilyIsInLine' /\ NotifiersFit'
  <2>1. FamilyIsInLine /\ NotifiersFit BY <1>1, MailParts
  <2>2. FamilyIsInLine' BY <1>1, <2>1 DEF FamilyIsInLine, IsLast, IsThere
  <2>3. NotifiersFit' BY <1>1, <2>1 DEF NotifiersFit, IsLast, IsThere
  <2> QED BY <2>2, <2>3
<1>7. MailsAreFair'
  <2>1. \A x : MailIsFair(x) => MailIsFair(x)' BY <1>3 DEF MailIsFair, InvitesTo, CallsOff
  <2>2. MailsAreFair BY <1>1, MailParts
  <2>3. \A x \in mail' : MailIsFair(x)' BY <1>1, <2>1, <2>2 DEF MailsAreFair
  <2>4. PICK y : y = diaryOf' OBVIOUS
  <2>5. y.method = "none" \/ MailIsFair(y)' BY <1>2, <1>4, <2>1, <2>4
  <2> QED BY <2>3, <2>4, <2>5 DEF MailsAreFair
<1>8. LastIsTold'
  <2> SUFFICES ASSUME ~unsent', NEW a \in Rebooked, IsLast(a)' PROVE IsTold(a)' BY DEF LastIsTold
  <2>1. IsTold(a) /\ IsLast(a) BY <1>1, <1>3, MailParts DEF LastIsTold, faults
  <2>2. \A x : IsDue(x, a) => IsDue(x, a)' BY <1>3 DEF IsDue, CallsOff, InvitesTo
  <2>3. a \in Nat /\ a >= 1 /\ \A b \in Rebooked : b \in Nat /\ b >= 1 BY NoticeSets
  <2>4. \A b \in Rebooked : (IsThere(b) => b <= a) /\ (IsLast(b) => b = a) BY <2>1, LastIsOne DEF IsLast
  \* The due mail is the one with the greatest sequence; of that sequence there is no other.
  <2>5. ASSUME NEW x \in Envelopes, NEW y \in Envelopes, IsDue(x, a), MailIsFair(y)
        PROVE  y.sequence <= x.sequence /\ (y.sequence = x.sequence => IsDue(y, a))
    <3>1. PICK b \in Rebooked : (InvitesTo(y, b) /\ IsThere(b)) \/ (CallsOff(y, b) /\ IsLast(b) /\ visit[b].status = "cancelled")
      BY <2>5 DEF MailIsFair
    <3>2. PICK i, k \in Nat : i = x.sequence /\ k = y.sequence BY DEF Envelopes
    <3>3. CASE visit[a].status = "cancelled"
      <4>1. i = a BY <2>5, <3>2, <3>3 DEF IsDue, CallsOff
      <4>2. CASE InvitesTo(y, b) /\ IsThere(b)
        <5>1. k = b - 1 /\ b <= a BY <2>4, <3>2, <4>2 DEF InvitesTo
        <5>2. k < i BY <2>3, <4>1, <5>1
        <5> QED BY <3>2, <5>2
      <4>3. CASE CallsOff(y, b) /\ IsLast(b) /\ visit[b].status = "cancelled"
        <5>1. b = a BY <2>4, <4>3
        <5>2. k = a /\ IsDue(y, a) BY <3>2, <3>3, <4>3, <5>1 DEF CallsOff, IsDue
        <5> QED BY <3>2, <4>1, <5>2
      <4> QED BY <3>1, <4>2, <4>3
    <3>4. CASE visit[a].status # "cancelled"
      <4>1. i = a - 1 BY <2>5, <3>2, <3>4 DEF IsDue, InvitesTo
      <4>2. ~(IsLast(b) /\ visit[b].status = "cancelled") BY <2>4, <3>4
      <4>3. InvitesTo(y, b) /\ IsThere(b) BY <3>1, <4>2
      <4>4. k = b - 1 /\ b <= a BY <2>4, <3>2, <4>3 DEF InvitesTo
      <4>5. k <= i /\ (k = i => b = a) BY <2>3, <4>1, <4>4
      <4>6. b = a => IsDue(y, a) BY <3>4, <4>3 DEF IsDue
      <4> QED BY <3>2, <4>5, <4>6
    <3> QED BY <3>3, <3>4
  <2>6. CASE \E x \in mail : IsDue(x, a)
    <3>1. PICK x \in mail : IsDue(x, a) BY <2>6
    <3>2. CASE x # m
      <4>1. x \in mail' /\ IsDue(x, a)' BY <1>1, <2>2, <3>1, <3>2
      <4> QED BY <4>1 DEF IsTold
    <3>3. CASE x = m
      <4>1. IsDue(m, a) BY <3>1, <3>3
      <4>2. \/ diaryOf' = m
            \/ diaryOf' = diaryOf /\ diaryOf.method # "none" /\ ~(m.sequence >= diaryOf.sequence) BY <1>1
      <4>3. CASE diaryOf' = m
        <5>1. IsDue(m, a)' BY <2>2, <4>1
        <5>2. IsDue(diaryOf, a)' BY <1>3, <4>3, <5>1 DEF IsDue
        <5> QED BY <5>2 DEF IsTold
      <4>4. CASE diaryOf' = diaryOf /\ diaryOf.method # "none" /\ ~(m.sequence >= diaryOf.sequence)
        <5>1. diaryOf.sequence <= m.sequence BY <1>2, <2>5, <4>1, <4>4
        <5>2. PICK i, k \in Nat : i = m.sequence /\ k = diaryOf.sequence BY <1>2 DEF Envelopes
        <5>3. FALSE BY <4>4, <5>1, <5>2
        <5> QED BY <5>3
      <4> QED BY <4>2, <4>3, <4>4
    <3> QED BY <3>2, <3>3
  <2>7. CASE IsDue(diaryOf, a)
    <3>1. CASE diaryOf' = diaryOf
      <4>1. IsDue(diaryOf, a)' BY <1>3, <2>7, <3>1 DEF IsDue, CallsOff, InvitesTo
      <4> QED BY <4>1 DEF IsTold
    <3>2. CASE diaryOf' # diaryOf
      <4>1. diaryOf.method # "none" BY <2>7 DEF IsDue, CallsOff, InvitesTo
      <4>2. diaryOf' = m /\ m.sequence >= diaryOf.sequence BY <1>1, <3>2, <4>1
      <4>3. m.sequence <= diaryOf.sequence /\ (m.sequence = diaryOf.sequence => IsDue(m, a)) BY <1>2, <2>5, <2>7
      <4>4. PICK i, k \in Nat : i = m.sequence /\ k = diaryOf.sequence BY <1>2 DEF Envelopes
      <4>5. i = k BY <4>2, <4>3, <4>4
      <4>6. IsDue(m, a) BY <4>3, <4>4, <4>5
      <4>7. IsDue(diaryOf, a)' BY <1>3, <4>2, <4>6 DEF IsDue, CallsOff, InvitesTo
      <4> QED BY <4>7 DEF IsTold
    <3> QED BY <3>1, <3>2
  <2>8. CASE WillSend(a)
    <3>1. WillSend(a)' BY <1>1, <1>3, <2>8 DEF WillSend
    <3> QED BY <3>1 DEF IsTold
  <2> QED BY <2>1, <2>6, <2>7, <2>8 DEF IsTold
<1>9. Calm' => CalmHalf'
  <2>1. Calm' => Calm BY <1>1 DEF Calm, faults
  <2> QED BY <1>1, <2>1, CalmFrame DEF MailingInv
<1> QED BY <1>5, <1>6, <1>7, <1>8, <1>9 DEF MailingInv, MailHalf

\* A commit starts a thread for the last booking of the family; in calm, all others rest.
StartsCalm(l) ==
  /\ \A j \in Notifiers : notice[j].at = "idle"
  /\ \A b \in Rebooked : b # l => visit'[b].page = NoPg
  /\ visit'[l].page # NoPg => pg[visit'[l].page].says = "Confirmed"
  /\ \A p \in NotionPages : pg[p].says = "Confirmed" => visit'[l].page = p
  /\ notes \in {0, 1} /\ (visit'[l].inquiry <=> notes = 1)
  /\ \A p \in NotionPages : pg[p].says = "Booked" => visit'[l].session = p

LEMMA NoticeStarts ==
  ASSUME MailingInv, NEW n \in Notifiers, NEW l \in Rebooked, NEW k \in {"confirm", "cancel"},
         Begin(n, l, k), visit' \in [Rebooked -> RebookRow], FamilyIsInLine', IsLast(l)', k = DueKind(l)',
         \A a \in Rebooked : IsThere(a) => IsThere(a)',
         \A j \in Notifiers : notice[j] # FreeNotifier => notice[j].kind = "confirm",
         \A m, b : ~(CallsOff(m, b) /\ b \in Rebooked /\ IsLast(b) /\ visit[b].status = "cancelled"),
         UNCHANGED <<pg, mail, diaryOf, notes, faults>>, clashed' \subseteq Rebooked, clashed \subseteq clashed',
         Calm /\ Calm' => StartsCalm(l)
  PROVE  MailingInv'
<1>1. MailHalf /\ UNCHANGED <<pg, mail, diaryOf, notes, unsent, failed>> BY DEF MailingInv, faults
<1>2. PICK d \in NoticeRows : /\ notice' = [notice EXCEPT ![n] = d] /\ d.at = "load" /\ d.at # "idle" /\ d # FreeNotifier
                              /\ d.of = l /\ d.kind = k
  <2> DEFINE d == [FreeNotifier EXCEPT !.at = "load", !.of = l, !.kind = k]
  <2>1. notice' = [notice EXCEPT ![n] = d] BY DEF Begin
  <2>2. d \in NoticeRows /\ d.at = "load" /\ d.at # "idle" /\ d.of = l /\ d.kind = k
    BY NoticeSets DEF NoticeRows, Early, FreeNotifier
  <2> QED BY <2>1, <2>2, NoticeSets
<1>3. /\ notice' \in [Notifiers -> NoticeRows] /\ notice'[n] = d
      /\ \A j \in Notifiers : j # n => notice'[j] = notice[j] BY <1>1, <1>2, MailParts
<1>4. \A b \in Rebooked : IsLast(b)' => b = l
  <2> SUFFICES ASSUME NEW b \in Rebooked, IsLast(b)' PROVE b = l OBVIOUS
  <2>1. b <= l /\ l <= b BY DEF IsLast
  <2> QED BY <2>1, NoticeSets
<1>5. IsThere(l)' /\ (k = "cancel" => visit'[l].status = "cancelled") /\ (k = "cancel" \/ k = "confirm")
  BY DEF IsLast, DueKind
<1>6. NoticesTyped' BY <1>1, <1>3, MailParts DEF NoticesTyped
<1>7. NotifiersFit'
  <2> SUFFICES ASSUME NEW j \in Notifiers, notice'[j] # FreeNotifier
      PROVE  (/\ notice[j].at # "idle" /\ notice[j].of \in Rebooked /\ IsThere(notice[j].of)
              /\ notice[j].kind = "cancel" => visit[notice[j].of].status = "cancelled" /\ IsLast(notice[j].of))'
    BY DEF NotifiersFit
  <2>1. CASE j = n
    <3>1. notice'[j].at # "idle" /\ notice'[j].of = l /\ notice'[j].kind = k BY <1>2, <1>3, <2>1
    <3> QED BY <1>5, <3>1
  <2>2. CASE j # n
    <3>1. /\ notice'[j] = notice[j] /\ notice[j].at # "idle" /\ notice[j].of \in Rebooked /\ IsThere(notice[j].of)
          /\ notice[j].kind = "confirm" BY <1>1, <1>3, <2>2, BusyRow
    <3>2. PICK b \in Rebooked : b = notice[j].of BY <3>1
    <3>3. IsThere(b)' /\ b = notice'[j].of BY <3>1, <3>2
    <3>4. notice'[j].kind # "cancel" BY <3>1
    <3> QED BY <3>1, <3>3, <3>4
  <2> QED BY <2>1, <2>2
<1>8. MailsAreFair'
  <2>1. ASSUME NEW m, MailIsFair(m) PROVE MailIsFair(m)'
    <3>1. PICK b \in Rebooked : InvitesTo(m, b) /\ IsThere(b) BY <2>1 DEF MailIsFair
    <3> QED BY <3>1 DEF MailIsFair, InvitesTo
  <2>2. MailsAreFair BY <1>1, MailParts
  <2>3. \A m \in mail' : MailIsFair(m)' BY <1>1, <2>1, <2>2 DEF MailsAreFair
  <2>4. PICK y : y = diaryOf' /\ y = diaryOf BY <1>1
  <2>5. y.method = "none" \/ MailIsFair(y)' BY <2>1, <2>2, <2>4 DEF MailsAreFair
  <2> QED BY <2>3, <2>4, <2>5 DEF MailsAreFair
<1>9. LastIsTold'
  <2>1. notice'[n].of = l /\ notice'[n].kind = k /\ notice'[n].at \in {"load", "mail"} BY <1>2, <1>3
  <2>2. WillSend(l)' BY <2>1 DEF WillSend
  <2>3. IsTold(l)' BY <2>2 DEF IsTold
  <2> QED BY <1>4, <2>3 DEF LastIsTold
<1>10. ASSUME Calm' PROVE CalmHalf'
  <2>1. Calm BY <1>1, <1>10 DEF Calm
  <2>2. StartsCalm(l) BY <1>10, <2>1
  <2>3. \A j \in Notifiers : notice'[j].at # "idle" => j = n BY <1>3, <2>2 DEF StartsCalm
  <2>4. OneAtWork'
    <3> SUFFICES ASSUME NEW j \in Notifiers, notice'[j].at # "idle"
        PROVE  (/\ IsLast(notice[j].of) /\ notice[j].kind = DueKind(notice[j].of)
                /\ \A i \in Notifiers : notice[i].at # "idle" => i = j)' BY DEF OneAtWork
    <3>1. j = n /\ notice'[j].of = l /\ notice'[j].kind = k BY <1>2, <1>3, <2>3
    <3> QED BY <2>3, <3>1
  <2>5. PagesFollow'
    <3> SUFFICES ASSUME NEW j \in Notifiers, notice'[j].at # "idle"
        PROVE  PageFollows(notice[j], visit[notice[j].of], SaysOf(notice[j].of))' BY DEF PagesFollow
    <3>1. j = n /\ notice'[j] = d /\ d.of = l /\ d.at = "load" BY <1>2, <1>3, <2>3
    <3>2. visit'[l].page # NoPg => pg'[visit'[l].page].says = "Confirmed" BY <1>1, <2>2 DEF StartsCalm
    <3>3. PICK w, s : w = visit'[l] /\ s = SaysOf(l)' OBVIOUS
    <3>4. PageFollows(d, w, s)' BY <3>1, <3>2, <3>3 DEF PageFollows
    <3> QED BY <3>1, <3>3, <3>4
  <2>6. PagesRest'
    <3>1. AtWork(l)' BY <1>2, <1>3 DEF AtWork
    <3> QED BY <1>4, <3>1 DEF PagesRest
  <2>7. LeftHaveNone' BY <2>2 DEF LeftHaveNone, StartsCalm
  <2>8. ConfirmedAreHeld' BY <1>1, <2>2 DEF ConfirmedAreHeld, StartsCalm
  <2>9. InquiryIsOne' BY <1>1, <1>4, <1>5, <2>2 DEF InquiryIsOne, StartsCalm
  <2>10. SessionIsOne' BY <1>1, <2>2 DEF SessionIsOne, StartsCalm
  <2> QED BY <2>4, <2>5, <2>6, <2>7, <2>8, <2>9, <2>10 DEF CalmHalf
<1> QED BY <1>6, <1>7, <1>8, <1>9, <1>10 DEF MailingInv, MailHalf

LEMMA FirstVisit ==
  \E w \in RebookRow : /\ w = [NoVisit EXCEPT !.status = "confirmed"]
                       /\ w.status = "confirmed" /\ w.page = NoPg /\ w.session = NoPg /\ w.inquiry = FALSE
<1>1. [NoVisit EXCEPT !.status = "confirmed"] \in RebookRow BY DEF NoVisit, RebookRow, PageIds
<1>2. [NoVisit EXCEPT !.status = "confirmed"].status = "confirmed" BY DEF NoVisit
<1>3. [NoVisit EXCEPT !.status = "confirmed"].page = NoPg BY DEF NoVisit
<1>4. [NoVisit EXCEPT !.status = "confirmed"].session = NoPg BY DEF NoVisit
<1>5. [NoVisit EXCEPT !.status = "confirmed"].inquiry = FALSE BY DEF NoVisit
<1> QED BY <1>1, <1>2, <1>3, <1>4, <1>5, Zenon

LEMMA CommitKeeps == ASSUME MailingInv, NEW n \in Notifiers, Commit(n) PROVE MailingInv'
<1>1. /\ MailHalf /\ notice[n] = FreeNotifier /\ visit[1].status = "absent" /\ Begin(n, 1, "confirm")
      /\ visit' = [visit EXCEPT ![1].status = "confirmed"]
      /\ UNCHANGED <<pg, mail, diaryOf, notes, clashed, faults>> BY DEF Commit, MailingInv
<1>2. \A a \in Rebooked : ~IsThere(a) /\ visit[a] = NoVisit BY <1>1, MailParts DEF FamilyIsInLine, IsThere
<1>3. PICK l \in Rebooked : l = 1 BY NoticeSets
<1>4. PICK k \in {"confirm", "cancel"} : k = "confirm" OBVIOUS
<1>5. /\ visit' \in [Rebooked -> RebookRow] /\ visit'[l].status = "confirmed" /\ visit'[l].page = NoPg
      /\ visit'[l].session = NoPg /\ ~visit'[l].inquiry /\ \A b \in Rebooked : b # l => visit'[b] = NoVisit
  <2>1. PICK w \in RebookRow : /\ w.status = "confirmed" /\ w.page = NoPg /\ w.session = NoPg /\ w.inquiry = FALSE
                               /\ visit' = [visit EXCEPT ![l] = w]
    <3>1. visit' = [visit EXCEPT ![l] = [NoVisit EXCEPT !.status = "confirmed"]] BY <1>1, <1>2, <1>3
    <3> QED BY <3>1, FirstVisit
  <2> QED BY <1>1, <1>2, <2>1, MailParts
<1>6. IsThere(l)' /\ \A b \in Rebooked : b # l => ~IsThere(b)' BY <1>5, NoticeSets DEF IsThere
<1>7. IsLast(l)' BY <1>6, NoticeSets DEF IsLast
<1>8. FamilyIsInLine'
  <2>1. \A a \in Rebooked : ~IsThere(a)' => visit'[a] = NoVisit BY <1>5, <1>6
  <2>2. \A a, b \in Rebooked : IsThere(a)' /\ IsThere(b)' => a = b BY <1>6
  <2>3. \A a, b \in Rebooked : IsThere(a)' /\ IsThere(b)' /\ a < b => visit'[a].status = "cancelled" BY <2>2, NoticeSets
  <2>4. \A a \in Rebooked : IsThere(a)' => a = 1 BY <1>3, <1>6
  <2>5. (IsThere(1))' BY <1>3, <1>6
  <2> QED BY <1>7, <2>1, <2>3, <2>4, <2>5 DEF FamilyIsInLine
<1>9. k = DueKind(l)' BY <1>4, <1>5 DEF DueKind
<1>10. \A j \in Notifiers : notice[j] = FreeNotifier /\ notice[j].at = "idle" BY <1>1, <1>2, BusyRow
<1>11. \A m, b : ~(CallsOff(m, b) /\ b \in Rebooked /\ IsLast(b) /\ visit[b].status = "cancelled") BY <1>2 DEF IsLast
<1>12. ASSUME Calm PROVE StartsCalm(l)
  <2>1. CalmHalf BY <1>12 DEF MailingInv
  <2>2. \A p \in NotionPages : pg[p].says # "Confirmed" BY <1>2, <1>10, <2>1, NoticeSets DEF CalmHalf, ConfirmedAreHeld, Stamping2
  <2>3. \A p \in NotionPages : pg[p].says # "Booked" BY <1>2, <1>10, <2>1 DEF CalmHalf, SessionIsOne, IsLast, StampingSession
  <2>4. notes = 0 BY <1>2, <2>1 DEF CalmHalf, InquiryIsOne
  <2>5. visit'[l].inquiry <=> notes = 1 BY <1>5, <2>4
  <2> QED BY <1>5, <1>10, <2>2, <2>3, <2>4, <2>5, NoticeSets DEF StartsCalm
<1>13. clashed' \subseteq Rebooked /\ clashed \subseteq clashed' BY <1>1, MailParts
<1>14. Begin(n, l, k) BY <1>1, <1>3, <1>4
<1> QED BY <1>1, <1>2, <1>5, <1>7, <1>8, <1>9, <1>10, <1>11, <1>12, <1>13, <1>14, NoticeStarts

\* In calm, a booking that is confirmed and not at work: nobody is, and its page says so.
LEMMA ConfirmedRests ==
  ASSUME MailingInv, Calm, NEW a \in Rebooked, visit[a].status = "confirmed", clashed' = Clash(a), clashed' = {}
  PROVE  /\ \A j \in Notifiers : notice[j].at = "idle"
         /\ \A b \in Rebooked : b # a => visit[b].page = NoPg
         /\ visit[a].page # NoPg /\ pg[visit[a].page].says = "Confirmed"
         /\ \A p \in NotionPages : pg[p].says = "Confirmed" => visit[a].page = p
         /\ notes \in {0, 1} /\ (visit[a].inquiry <=> notes = 1)
         /\ \A p \in NotionPages : pg[p].says = "Booked" => visit[a].session = p
<1>1. MailHalf /\ CalmHalf BY DEF MailingInv
<1>2. IsLast(a) BY <1>1, ConfirmedIsLast
<1>3. ~AtWork(a) BY DEF Clash
<1>4. \A j \in Notifiers : notice[j].at = "idle"
  <2> SUFFICES ASSUME NEW j \in Notifiers, notice[j].at # "idle" PROVE FALSE OBVIOUS
  <2>1. IsLast(notice[j].of) /\ notice[j].of \in Rebooked BY <1>1, BusyRow DEF CalmHalf, OneAtWork
  <2>2. PICK b \in Rebooked : b = notice[j].of BY <2>1
  <2>3. b = a BY <1>2, <2>1, <2>2, LastIsOne
  <2> QED BY <1>3, <2>2, <2>3 DEF AtWork
<1>5. \A b \in Rebooked : b # a => ~IsLast(b) BY <1>2, LastIsOne
<1>6. \A b \in Rebooked : b # a => visit[b].page = NoPg BY <1>1, <1>5 DEF CalmHalf, LeftHaveNone
<1>7. visit[a].page # NoPg /\ pg[visit[a].page].says = "Confirmed" BY <1>1, <1>2, <1>3 DEF CalmHalf, PagesRest, SaysOf
<1>8. \A p \in NotionPages : pg[p].says = "Confirmed" => visit[a].page = p
  BY <1>1, <1>4, <1>6, NoticeSets DEF CalmHalf, ConfirmedAreHeld, Stamping2
<1>9. notes \in {0, 1} /\ (visit[a].inquiry <=> notes = 1) BY <1>1, <1>2 DEF CalmHalf, InquiryIsOne
<1>10. \A p \in NotionPages : pg[p].says = "Booked" => visit[a].session = p
  BY <1>1, <1>4, <1>5 DEF CalmHalf, SessionIsOne, StampingSession
<1> QED BY <1>4, <1>6, <1>7, <1>8, <1>9, <1>10

LEMMA ClashGrows ==
  ASSUME MailHalf, NEW a \in Rebooked, clashed' = Clash(a) PROVE clashed' \subseteq Rebooked /\ clashed \subseteq clashed'
BY MailParts DEF Clash

LEMMA NoPgIsPage == NoPg \in PageIds BY DEF PageIds

LEMMA CancelledRow ==
  ASSUME NEW v \in RebookRow, NEW q \in PageIds
  PROVE  /\ \E w \in RebookRow : w = [v EXCEPT !.status = "cancelled", !.page = q] /\ w.status = "cancelled" /\ w.page = q
         /\ \E w \in RebookRow : /\ w = [v EXCEPT !.status = "cancelled"] /\ w.status = "cancelled"
                                 /\ w.page = v.page /\ w.session = v.session /\ w.inquiry = v.inquiry
<1>1. \E w \in RebookRow : w = [v EXCEPT !.status = "cancelled", !.page = q] /\ w.status = "cancelled" /\ w.page = q
  <2> DEFINE w == [v EXCEPT !.status = "cancelled", !.page = q]
  <2>1. w \in RebookRow /\ w.status = "cancelled" /\ w.page = q BY DEF RebookRow
  <2> QED BY <2>1
<1>2. \E w \in RebookRow : /\ w = [v EXCEPT !.status = "cancelled"] /\ w.status = "cancelled"
                           /\ w.page = v.page /\ w.session = v.session /\ w.inquiry = v.inquiry
  <2> DEFINE w == [v EXCEPT !.status = "cancelled"]
  <2>1. w \in RebookRow /\ w.status = "cancelled" /\ w.page = v.page /\ w.session = v.session /\ w.inquiry = v.inquiry
    BY DEF RebookRow
  <2> QED BY <2>1
<1> QED BY <1>1, <1>2

LEMMA ReplaceKeeps == ASSUME MailingInv, NEW n \in Notifiers, NEW a \in Rebooked, Replace(n, a) PROVE MailingInv'
<1>1. /\ MailHalf /\ a + 1 \in Rebooked /\ visit[a].status = "confirmed" /\ visit[a + 1].status = "absent"
      /\ visit' = [visit EXCEPT ![a + 1] = visit[a], ![a].status = "cancelled", ![a].page = NoPg]
      /\ Begin(n, a + 1, "confirm") /\ clashed' = Clash(a) /\ UNCHANGED <<pg, mail, diaryOf, notes, faults>>
  BY DEF Replace, MailingInv
<1>2. PICK l \in Rebooked : l = a + 1 BY <1>1
<1>3. PICK k \in {"confirm", "cancel"} : k = "confirm" OBVIOUS
<1>4. a \in Nat /\ a >= 1 /\ l \in Nat /\ a < l /\ l # a /\ a = l - 1 /\ \A b \in Rebooked : b \in Nat BY <1>2, NoticeSets
<1>5. /\ visit' \in [Rebooked -> RebookRow] /\ visit'[l] = visit[a]
      /\ visit'[a].status = "cancelled" /\ visit'[a].page = NoPg
      /\ \A b \in Rebooked : b # l /\ b # a => visit'[b] = visit[b]
  <2>1. visit[a] \in RebookRow /\ visit \in [Rebooked -> RebookRow] BY <1>1, MailParts
  <2>2. PICK w \in RebookRow : w = [visit[a] EXCEPT !.status = "cancelled", !.page = NoPg] /\ w.status = "cancelled" /\ w.page = NoPg
    BY <2>1, NoPgIsPage, CancelledRow
  <2>3. visit' = [visit EXCEPT ![l] = visit[a], ![a] = w] BY <1>1, <1>2, <1>4, <2>1, <2>2
  <2> QED BY <1>4, <2>1, <2>2, <2>3
<1>6. /\ IsLast(a) /\ IsThere(a)
      /\ \A m, b : ~(CallsOff(m, b) /\ b \in Rebooked /\ IsLast(b) /\ visit[b].status = "cancelled")
      /\ \A j \in Notifiers : notice[j] # FreeNotifier => notice[j].kind = "confirm" BY <1>1, ConfirmedIsLast
<1>7. \A b \in Rebooked : IsThere(b)' <=> IsThere(b) \/ b = l
  <2>1. visit'[l].status = "confirmed" /\ visit'[a].status # "absent" BY <1>1, <1>5
  <2> QED BY <1>5, <1>6, <2>1 DEF IsThere
<1>8. \A b \in Rebooked : IsThere(b) => b <= a BY <1>6 DEF IsLast
<1>9. IsLast(l)'
  <2>1. \A b \in Rebooked : IsThere(b)' => b <= l BY <1>4, <1>7, <1>8
  <2> QED BY <1>7, <2>1 DEF IsLast
<1>10. FamilyIsInLine'
  <2>1. \A b \in Rebooked : ~IsThere(b)' => visit'[b] = NoVisit BY <1>1, <1>5, <1>6, <1>7, MailParts DEF FamilyIsInLine
  <2>2. \A b \in Rebooked : IsThere(b)' => b = 1 \/ b - 1 \in Rebooked BY <1>1, <1>4, <1>7, MailParts DEF FamilyIsInLine
  <2>3. (IsThere(1))'
    <3>1. IsThere(1) BY <1>1, <1>6, MailParts DEF FamilyIsInLine
    <3>2. PICK o \in Rebooked : o = 1 BY NoticeSets
    <3>3. IsThere(o)' BY <1>7, <3>1, <3>2
    <3> QED BY <3>2, <3>3
  <2>4. ASSUME NEW b \in Rebooked, NEW e \in Rebooked, IsThere(b)', IsThere(e)', b < e PROVE visit'[b].status = "cancelled"
    <3>1. CASE b = a BY <1>5, <3>1
    <3>2. CASE b = l
      <4>1. e <= l BY <1>4, <1>7, <1>8, <2>4
      <4>2. e \in Nat /\ l \in Nat /\ l < e BY <1>4, <2>4, <3>2
      <4>3. FALSE BY <4>1, <4>2
      <4> QED BY <4>3
    <3>3. CASE b # a /\ b # l
      <4>1. IsThere(b) /\ b < a BY <1>4, <1>7, <1>8, <2>4, <3>3
      <4>2. visit[b].status = "cancelled" BY <1>1, <1>6, <4>1, MailParts DEF FamilyIsInLine
      <4> QED BY <1>5, <3>3, <4>2
    <3> QED BY <3>1, <3>2, <3>3
  <2> QED BY <1>9, <2>1, <2>2, <2>3, <2>4 DEF FamilyIsInLine
<1>11. k = DueKind(l)'
  <2>1. visit'[l].status # "cancelled" BY <1>1, <1>5
  <2> QED BY <1>3, <2>1 DEF DueKind
<1>12. \A b \in Rebooked : IsThere(b) => IsThere(b)' BY <1>7
<1>13. clashed' \subseteq Rebooked /\ clashed \subseteq clashed' BY <1>1, ClashGrows
<1>14. Begin(n, l, k) BY <1>1, <1>2, <1>3
<1>15. ASSUME Calm, Calm' PROVE StartsCalm(l)
  <2>1. clashed' = {} BY <1>15 DEF Calm
  <2>2. /\ \A j \in Notifiers : notice[j].at = "idle"
        /\ \A b \in Rebooked : b # a => visit[b].page = NoPg
        /\ visit[a].page # NoPg /\ pg[visit[a].page].says = "Confirmed"
        /\ \A p \in NotionPages : pg[p].says = "Confirmed" => visit[a].page = p
        /\ notes \in {0, 1} /\ (visit[a].inquiry <=> notes = 1)
        /\ \A p \in NotionPages : pg[p].says = "Booked" => visit[a].session = p BY <1>1, <1>15, <2>1, ConfirmedRests
  <2>3. \A b \in Rebooked : b # l => visit'[b].page = NoPg BY <1>5, <2>2
  <2> QED BY <1>5, <2>2, <2>3 DEF StartsCalm
<1> QED BY <1>1, <1>5, <1>6, <1>9, <1>10, <1>11, <1>12, <1>13, <1>14, <1>15, NoticeStarts

LEMMA CancelVisitKeeps == ASSUME MailingInv, NEW n \in Notifiers, NEW a \in Rebooked, CancelVisit(n, a) PROVE MailingInv'
<1>1. /\ MailHalf /\ visit[a].status = "confirmed" /\ visit' = [visit EXCEPT ![a].status = "cancelled"]
      /\ Begin(n, a, "cancel") /\ clashed' = Clash(a) /\ UNCHANGED <<pg, mail, diaryOf, notes, faults>>
  BY DEF CancelVisit, MailingInv
<1>2. PICK k \in {"confirm", "cancel"} : k = "cancel" OBVIOUS
<1>3. /\ visit' \in [Rebooked -> RebookRow]
      /\ visit'[a].status = "cancelled" /\ visit'[a].page = visit[a].page /\ visit'[a].session = visit[a].session
      /\ visit'[a].inquiry = visit[a].inquiry
      /\ \A b \in Rebooked : b # a => visit'[b] = visit[b]
  <2>1. visit[a] \in RebookRow /\ visit \in [Rebooked -> RebookRow] BY <1>1, MailParts
  <2>2. PICK w \in RebookRow : /\ w = [visit[a] EXCEPT !.status = "cancelled"] /\ w.status = "cancelled"
                               /\ w.page = visit[a].page /\ w.session = visit[a].session /\ w.inquiry = visit[a].inquiry
    BY <2>1, NoPgIsPage, CancelledRow
  <2>3. visit' = [visit EXCEPT ![a] = w] BY <1>1, <2>2
  <2> QED BY <2>1, <2>2, <2>3
<1>4. /\ IsLast(a) /\ IsThere(a)
      /\ \A m, b : ~(CallsOff(m, b) /\ b \in Rebooked /\ IsLast(b) /\ visit[b].status = "cancelled")
      /\ \A j \in Notifiers : notice[j] # FreeNotifier => notice[j].kind = "confirm" BY <1>1, ConfirmedIsLast
<1>5. \A b \in Rebooked : IsThere(b)' <=> IsThere(b) BY <1>3, <1>4 DEF IsThere
<1>6. \A b \in Rebooked : IsLast(b)' <=> IsLast(b) BY <1>5 DEF IsLast
<1>7. FamilyIsInLine'
  <2>1. \A b \in Rebooked : ~IsThere(b)' => visit'[b] = NoVisit BY <1>1, <1>3, <1>4, <1>5, MailParts DEF FamilyIsInLine
  <2>2. \A b \in Rebooked : IsThere(b)' => b = 1 \/ b - 1 \in Rebooked BY <1>1, <1>5, MailParts DEF FamilyIsInLine
  <2>3. (IsThere(1))' BY <1>1, <1>4, <1>5, NoticeSets, MailParts DEF FamilyIsInLine
  <2>4. \A b, e \in Rebooked : IsThere(b)' /\ IsThere(e)' /\ b < e => visit'[b].status = "cancelled"
    BY <1>1, <1>3, <1>5, MailParts DEF FamilyIsInLine
  <2> QED BY <1>4, <1>6, <2>1, <2>2, <2>3, <2>4 DEF FamilyIsInLine
<1>8. k = DueKind(a)' BY <1>2, <1>3 DEF DueKind
<1>9. clashed' \subseteq Rebooked /\ clashed \subseteq clashed' BY <1>1, ClashGrows
<1>10. Begin(n, a, k) BY <1>1, <1>2
<1>11. ASSUME Calm, Calm' PROVE StartsCalm(a)
  <2>1. clashed' = {} BY <1>11 DEF Calm
  <2>2. /\ \A j \in Notifiers : notice[j].at = "idle"
        /\ \A b \in Rebooked : b # a => visit[b].page = NoPg
        /\ visit[a].page # NoPg /\ pg[visit[a].page].says = "Confirmed"
        /\ \A p \in NotionPages : pg[p].says = "Confirmed" => visit[a].page = p
        /\ notes \in {0, 1} /\ (visit[a].inquiry <=> notes = 1)
        /\ \A p \in NotionPages : pg[p].says = "Booked" => visit[a].session = p BY <1>1, <1>11, <2>1, ConfirmedRests
  <2>3. \A b \in Rebooked : b # a => visit'[b].page = NoPg BY <1>3, <2>2
  <2>4. visit'[a].inquiry <=> notes = 1 BY <1>3, <2>2, Zenon
  <2> QED BY <1>3, <2>2, <2>3, <2>4 DEF StartsCalm
<1>12. IsLast(a)' /\ \A b \in Rebooked : IsThere(b) => IsThere(b)' BY <1>4, <1>5, <1>6
<1> QED BY <1>1, <1>3, <1>4, <1>7, <1>8, <1>9, <1>10, <1>11, <1>12, NoticeStarts

LEMMA NoticesStep == ASSUME MailingInv, NoticesNext PROVE MailingInv'
BY CommitKeeps, LoadVisitKeeps, SendNoticeKeeps, WriteInquiryKeeps, ReadPageKeeps, PatchBookingPageKeeps,
   CreateBookingPageKeeps, StampBookingKeeps, SyncSessionKeeps, StampSessionKeeps, NotionFailsKeeps, NotifierKilledKeeps,
   ReplaceKeeps, CancelVisitKeeps, MailArrivesKeeps DEF NoticesNext

LEMMA NoticesRest == ASSUME MailingInv, UNCHANGED noticeVars PROVE MailingInv'
<1>1. UNCHANGED <<visit, pg, notice, mail, diaryOf, notes, clashed, unsent, failed>> /\ MailHalf
  BY DEF noticeVars, faults, MailingInv
<1>2. NoticesTyped' BY <1>1, MailParts DEF NoticesTyped
<1>3. FamilyIsInLine' BY <1>1, MailParts DEF FamilyIsInLine, IsLast, IsThere
<1>4. NotifiersFit' BY <1>1, MailParts DEF NotifiersFit, IsLast, IsThere
<1>5. MailsAreFair' BY <1>1, MailParts DEF MailsAreFair, MailIsFair, InvitesTo, CallsOff, IsLast, IsThere
<1>6. LastIsTold' BY <1>1, MailParts DEF LastIsTold, IsTold, IsDue, WillSend, DueKind, InvitesTo, CallsOff, IsLast, IsThere
<1>7. Calm' => CalmHalf'
  <2>1. Calm' => Calm BY <1>1 DEF Calm
  <2> QED BY <1>1, <2>1, CalmFrame DEF MailingInv
<1> QED BY <1>2, <1>3, <1>4, <1>5, <1>6, <1>7 DEF MailingInv, MailHalf
(* CalendarLink: the tokens a call holds against the row.                  *)

Owners == Accounts \cup {NoAccount}
Grants == [refresh : Owners, access : Owners, fresh : BOOLEAN]
AskRows == [at : {"idle", "row", "refresh", "store", "call", "answered"}, account : Owners, token : Owners,
           answer : {"none", "open", "busy", "unavailable"}, seen : SUBSET Owners]

\* A call saw the account it works for, and while it is at work the one connected.
CallIsWhole(r) ==
  /\ r.at \in {"refresh", "store"} => r.account \in r.seen
  /\ r.at \in {"store"} => r.token = r.account
  /\ r.at = "call" => r.token \in r.seen \/ overtaken
  /\ r.at \in {"row", "refresh", "store", "call"} => r.answer = "none"
  /\ r.answer = "busy" => r.token \in r.seen \/ overtaken
  /\ strict /\ r.answer = "open" => r.seen = {NoAccount}
  /\ r.at = "row" /\ grant.refresh # NoAccount => grant.refresh \in r.seen
CallsAreWhole == \A k \in Askers : CallIsWhole(asker[k])

LinkInv == LinkTypeOK /\ CallsAreWhole /\ TokensOfOneAccount

LEMMA LinkTyped == ASSUME LinkTypeOK PROVE grant \in Grants /\ asker \in [Askers -> AskRows] /\ strict \in BOOLEAN /\ overtaken \in BOOLEAN
BY DEF LinkTypeOK, Grants, AskRows, Owners

LEMMA FreeLinkRows ==
  /\ NotConnected \in Grants /\ NotConnected.refresh = NoAccount /\ NotConnected.access = NoAccount
  /\ NotAsking \in AskRows /\ NotAsking.at = "idle" /\ NotAsking.answer = "none" /\ NoAccount \in Owners
BY DEF NotConnected, NotAsking, Grants, AskRows, Owners

LEMMA LinkInitially == ASSUME LinkInit PROVE LinkInv
<1>1. /\ strict \in BOOLEAN /\ grant = NotConnected /\ cookie = NoState /\ links = {} /\ returns = {}
      /\ asker = [k \in Askers |-> NotAsking] /\ overtaken = FALSE BY DEF LinkInit
<1>2. LinkTypeOK BY <1>1, FreeLinkRows DEF LinkTypeOK, Grants, AskRows, Owners
<1>3. CallsAreWhole BY <1>1, FreeLinkRows DEF CallsAreWhole, CallIsWhole
<1> QED BY <1>1, <1>2, <1>3, FreeLinkRows DEF LinkInv, TokensOfOneAccount

\* The consent flow, when it leaves the row and the calls alone.
LEMMA ConsentKeeps ==
  ASSUME LinkInv, UNCHANGED <<strict, grant, asker, overtaken>>,
         cookie' \in States \cup {NoState}, links' \subseteq States, returns' \subseteq links'
  PROVE  LinkInv'
<1>1. LinkTypeOK /\ CallsAreWhole /\ TokensOfOneAccount BY DEF LinkInv
<1>2. LinkTypeOK' BY <1>1 DEF LinkTypeOK
<1>3. CallsAreWhole' BY <1>1 DEF CallsAreWhole, CallIsWhole
<1>4. TokensOfOneAccount' BY <1>1 DEF TokensOfOneAccount
<1> QED BY <1>2, <1>3, <1>4 DEF LinkInv

\* One call's row alone.
LEMMA CallKeeps ==
  ASSUME LinkInv, NEW k \in Askers, NEW r \in AskRows, asker' = [asker EXCEPT ![k] = r],
         UNCHANGED <<strict, grant, cookie, links, returns, overtaken>>, CallIsWhole(r)
  PROVE  LinkInv'
<1>1. LinkTypeOK /\ CallsAreWhole /\ TokensOfOneAccount BY DEF LinkInv
<1>2. asker' \in [Askers -> AskRows] /\ asker'[k] = r /\ \A c \in Askers : c # k => asker'[c] = asker[c]
  BY <1>1, LinkTyped
<1>3. LinkTypeOK' BY <1>1, <1>2 DEF LinkTypeOK, AskRows, Owners
<1>4. CallsAreWhole' BY <1>1, <1>2 DEF CallsAreWhole, CallIsWhole
<1>5. TokensOfOneAccount' BY <1>1 DEF TokensOfOneAccount
<1> QED BY <1>3, <1>4, <1>5 DEF LinkInv

\* The row goes, or its token ages.
LEMMA RowKeeps == ASSUME LinkInv, GoogleDisconnect \/ TokenExpires PROVE LinkInv'
<1>1. LinkTypeOK /\ CallsAreWhole /\ TokensOfOneAccount BY DEF LinkInv
<1>2. UNCHANGED <<strict, cookie, links, returns, asker, overtaken>> BY DEF GoogleDisconnect, TokenExpires, consent
<1>3. /\ grant' \in Grants
      /\ \/ grant'.refresh = NoAccount /\ grant'.access = NoAccount
         \/ grant'.refresh = grant.refresh /\ grant'.access = grant.access
  <2>1. CASE GoogleDisconnect BY <2>1, FreeLinkRows DEF GoogleDisconnect
  <2>2. CASE TokenExpires
    <3>1. grant' = [grant EXCEPT !.fresh = FALSE] BY <2>2 DEF TokenExpires
    <3> QED BY <1>1, <3>1, LinkTyped DEF Grants
  <2> QED BY <2>1, <2>2
<1>4. LinkTypeOK' BY <1>1, <1>2, <1>3 DEF LinkTypeOK, Grants, Owners
<1>5. CallsAreWhole' BY <1>1, <1>2, <1>3 DEF CallsAreWhole, CallIsWhole
<1>6. TokensOfOneAccount' BY <1>1, <1>2, <1>3 DEF TokensOfOneAccount
<1> QED BY <1>4, <1>5, <1>6 DEF LinkInv

\* Another account is connected: calls at work have seen it.
LEMMA ExchangeKeeps ==
  ASSUME LinkInv, NEW s \in States, NEW a \in Accounts, ExchangeCode(s, a) PROVE LinkInv'
<1>1. LinkTypeOK /\ CallsAreWhole /\ TokensOfOneAccount BY DEF LinkInv
<1> PICK next : next = [k \in Askers |-> IF asker[k].at \in {"idle", "answered"} THEN asker[k]
                                           ELSE [asker[k] EXCEPT !.seen = asker[k].seen \cup {a}]]
  OBVIOUS
<1>2. /\ returns' = returns \ {s} /\ cookie' = NoState /\ UNCHANGED <<strict, links, overtaken>> BY DEF ExchangeCode
<1>3. asker' = next BY DEF ExchangeCode, Seeing
<1>4. PICK fresh \in BOOLEAN : grant' = [refresh |-> a, access |-> a, fresh |-> fresh] BY DEF ExchangeCode, Granted
<1>5. grant' \in Grants /\ grant'.refresh = a /\ grant'.access = a BY <1>4 DEF Grants, Owners
<1>6. asker \in [Askers -> AskRows] BY <1>1, LinkTyped
<1>7. \A k \in Askers : /\ next[k] \in AskRows /\ next[k].at = asker[k].at /\ next[k].account = asker[k].account
                        /\ next[k].token = asker[k].token /\ next[k].answer = asker[k].answer
                        /\ asker[k].at \in {"idle", "answered"} => next[k] = asker[k]
                        /\ asker[k].at \notin {"idle", "answered"} => next[k].seen = asker[k].seen \cup {a}
  BY <1>6 DEF AskRows, Owners
<1>8. LinkTypeOK'
  <2>1. next \in [Askers -> AskRows] BY <1>7
  <2> QED BY <1>1, <1>2, <1>3, <1>5, <2>1 DEF LinkTypeOK, Grants, AskRows, Owners
<1>9. CallsAreWhole'
  <2> SUFFICES ASSUME NEW k \in Askers PROVE CallIsWhole(asker[k])' BY DEF CallsAreWhole
  <2>1. CallIsWhole(asker[k]) BY <1>1 DEF CallsAreWhole
  <2>2. asker[k].at \in {"idle", "row", "refresh", "store", "call", "answered"} BY <1>6 DEF AskRows
  <2>3. CASE asker[k].at \in {"idle", "answered"} BY <1>2, <1>3, <1>7, <2>1, <2>3 DEF CallIsWhole
  <2>4. CASE asker[k].at \notin {"idle", "answered"} BY <1>2, <1>3, <1>5, <1>7, <2>1, <2>2, <2>4 DEF CallIsWhole
  <2> QED BY <2>3, <2>4
<1>10. TokensOfOneAccount' BY <1>5 DEF TokensOfOneAccount
<1> QED BY <1>8, <1>9, <1>10 DEF LinkInv

LEMMA StoreTokenKeeps == ASSUME LinkInv, NEW k \in Askers, StoreToken(k) PROVE LinkInv'
<1>1. LinkTypeOK /\ CallsAreWhole /\ TokensOfOneAccount BY DEF LinkInv
<1> PICK r : r = asker[k] OBVIOUS
<1> PICK w : w = [r EXCEPT !.at = "call"] OBVIOUS
<1>2. /\ r.at = "store" /\ UNCHANGED <<strict, cookie, links, returns>>
      /\ overtaken' = (overtaken \/ (IsConnected /\ grant.refresh # r.account)) BY DEF StoreToken, consent
<1>3. r \in AskRows /\ asker \in [Askers -> AskRows] /\ grant \in Grants /\ overtaken \in BOOLEAN BY <1>1, LinkTyped
<1>4. asker' = [asker EXCEPT ![k] = w] BY <1>3 DEF StoreToken
<1>5. /\ w \in AskRows /\ w.at = "call" /\ w.account = r.account /\ w.token = r.token /\ w.answer = r.answer /\ w.seen = r.seen
      /\ r.token \in Owners BY <1>3 DEF AskRows
<1>6. PICK fresh \in BOOLEAN : grant' = IF IsConnected THEN [grant EXCEPT !.access = r.token, !.fresh = fresh] ELSE grant
  BY DEF StoreToken
<1>7. /\ grant' \in Grants /\ grant'.refresh = grant.refresh
      /\ grant'.access = IF IsConnected THEN r.token ELSE grant.access
  <2>1. CASE IsConnected
    <3> PICK g : g = [grant EXCEPT !.access = r.token, !.fresh = fresh] OBVIOUS
    <3>1. grant' = g BY <1>6, <2>1
    <3>2. g \in Grants /\ g.refresh = grant.refresh /\ g.access = r.token BY <1>3, <1>5 DEF Grants
    <3> QED BY <2>1, <3>1, <3>2
  <2>2. CASE ~IsConnected BY <1>3, <1>6, <2>2
  <2> QED BY <2>1, <2>2
<1>8. overtaken' \in BOOLEAN /\ (overtaken => overtaken') BY <1>2, <1>3
<1>9. CallIsWhole(r) BY <1>1 DEF CallsAreWhole
<1>10. r.token = r.account /\ r.account \in r.seen /\ r.answer = "none" BY <1>2, <1>9 DEF CallIsWhole
<1>11. asker' \in [Askers -> AskRows] /\ asker'[k] = w /\ \A c \in Askers : c # k => asker'[c] = asker[c] BY <1>3, <1>4, <1>5
<1>12. LinkTypeOK' BY <1>1, <1>2, <1>7, <1>8, <1>11 DEF LinkTypeOK, Grants, AskRows, Owners
<1>13. CallsAreWhole'
  <2> SUFFICES ASSUME NEW c \in Askers PROVE CallIsWhole(asker[c])' BY DEF CallsAreWhole
  <2>1. CASE c = k BY <1>5, <1>10, <1>11, <2>1 DEF CallIsWhole
  <2>2. CASE c # k
    <3>1. CallIsWhole(asker[c]) /\ asker'[c] = asker[c] BY <1>1, <1>11, <2>2 DEF CallsAreWhole
    <3> QED BY <1>2, <1>7, <1>8, <3>1 DEF CallIsWhole
  <2> QED BY <2>1, <2>2
<1>14. TokensOfOneAccount'
  <2>1. CASE IsConnected BY <1>2, <1>7, <1>10, <2>1 DEF TokensOfOneAccount
  <2>2. CASE ~IsConnected BY <1>1, <1>7, <1>8, <2>2 DEF TokensOfOneAccount
  <2> QED BY <2>1, <2>2
<1> QED BY <1>12, <1>13, <1>14 DEF LinkInv

LEMMA CallsKeep ==
  ASSUME LinkInv, NEW k \in Askers,
         FreeBusy(k) \/ AccessToken(k) \/ RefreshAnswers(k) \/ ApiAnswers(k) \/ CallFails(k)
  PROVE  LinkInv'
<1>1. LinkTypeOK /\ CallsAreWhole /\ TokensOfOneAccount BY DEF LinkInv
<1> PICK r : r = asker[k] OBVIOUS
<1>2. r \in AskRows /\ asker \in [Askers -> AskRows] /\ grant \in Grants /\ grant.refresh \in Owners /\ grant.access \in Owners
      /\ strict \in BOOLEAN /\ overtaken \in BOOLEAN BY <1>1, LinkTyped DEF Grants
<1>3. CallIsWhole(r) BY <1>1 DEF CallsAreWhole
<1>4. UNCHANGED <<strict, grant, cookie, links, returns, overtaken>>
  BY DEF FreeBusy, AccessToken, RefreshAnswers, ApiAnswers, CallFails, consent
<1>5. CASE FreeBusy(k)
  <2>1. CASE IsConnected
    <3> PICK w : w = [NotAsking EXCEPT !.at = "row", !.seen = {grant.refresh}] OBVIOUS
    <3>1. asker' = [asker EXCEPT ![k] = w] BY <1>5, <2>1 DEF FreeBusy
    <3>2. w \in AskRows /\ w.at = "row" /\ w.answer = "none" /\ w.seen = {grant.refresh}
      BY <1>2, FreeLinkRows DEF AskRows, NotAsking
    <3>3. CallIsWhole(w) BY <3>2 DEF CallIsWhole
    <3> QED BY <1>4, <3>1, <3>2, <3>3, CallKeeps
  <2>2. CASE ~IsConnected
    <3> PICK w : w = [NotAsking EXCEPT !.at = "answered", !.answer = "open", !.seen = {NoAccount}] OBVIOUS
    <3>1. asker' = [asker EXCEPT ![k] = w] BY <1>5, <2>2 DEF FreeBusy
    <3>2. w \in AskRows /\ w.at = "answered" /\ w.answer = "open" /\ w.seen = {NoAccount}
      BY FreeLinkRows DEF AskRows, NotAsking
    <3>3. CallIsWhole(w) BY <3>2 DEF CallIsWhole
    <3> QED BY <1>4, <3>1, <3>2, <3>3, CallKeeps
  <2> QED BY <2>1, <2>2
<1>6. ASSUME Fails(k), r.at \in {"row", "refresh", "call"} PROVE LinkInv'
  <2> PICK answer : answer = OnFailure OBVIOUS
  <2> PICK w : w = [r EXCEPT !.at = "answered", !.answer = answer] OBVIOUS
  <2>1. answer \in {"open", "unavailable"} /\ (strict => answer = "unavailable") BY <1>2 DEF OnFailure
  <2>2. asker' = [asker EXCEPT ![k] = w] BY <1>2, <1>6 DEF Fails
  <2>3. w \in AskRows /\ w.at = "answered" /\ w.answer = answer /\ w.seen = r.seen BY <1>2, <2>1 DEF AskRows
  <2>4. CallIsWhole(w) BY <2>1, <2>3 DEF CallIsWhole
  <2> QED BY <1>4, <2>2, <2>3, <2>4, CallKeeps
<1>7. CASE AccessToken(k)
  <2>1. r.at = "row" /\ r.answer = "none" /\ (IsConnected => grant.refresh \in r.seen)
    BY <1>3, <1>7 DEF AccessToken, CallIsWhole, IsConnected
  <2>2. CASE ~IsConnected BY <1>6, <1>7, <2>1, <2>2 DEF AccessToken
  <2>3. CASE IsConnected /\ grant.fresh
    <3> PICK w : w = [r EXCEPT !.at = "call", !.token = grant.access] OBVIOUS
    <3>1. asker' = [asker EXCEPT ![k] = w] BY <1>2, <1>7, <2>3 DEF AccessToken
    <3>2. w \in AskRows /\ w.at = "call" /\ w.answer = "none" /\ w.seen = r.seen /\ w.token = grant.access
      BY <1>2, <2>1 DEF AskRows
    <3>3. grant.access = grant.refresh \/ overtaken BY <1>1 DEF TokensOfOneAccount
    <3>4. CallIsWhole(w) BY <2>1, <2>3, <3>2, <3>3 DEF CallIsWhole
    <3> QED BY <1>4, <3>1, <3>2, <3>4, CallKeeps
  <2>4. CASE IsConnected /\ ~grant.fresh
    <3> PICK w : w = [r EXCEPT !.at = "refresh", !.account = grant.refresh] OBVIOUS
    <3>1. asker' = [asker EXCEPT ![k] = w] BY <1>2, <1>7, <2>4 DEF AccessToken
    <3>2. w \in AskRows /\ w.at = "refresh" /\ w.answer = "none" /\ w.seen = r.seen /\ w.account = grant.refresh
      BY <1>2, <2>1 DEF AskRows
    <3>3. CallIsWhole(w) BY <2>1, <2>4, <3>2 DEF CallIsWhole
    <3> QED BY <1>4, <3>1, <3>2, <3>3, CallKeeps
  <2> QED BY <2>2, <2>3, <2>4
<1>8. CASE RefreshAnswers(k)
  <2> PICK w : w = [r EXCEPT !.at = "store", !.token = r.account] OBVIOUS
  <2>1. asker' = [asker EXCEPT ![k] = w] /\ r.at = "refresh" BY <1>2, <1>8 DEF RefreshAnswers
  <2>2. w \in AskRows /\ w.at = "store" /\ w.answer = r.answer /\ w.seen = r.seen /\ w.account = r.account /\ w.token = r.account
    BY <1>2 DEF AskRows
  <2>3. CallIsWhole(w) BY <1>3, <2>1, <2>2 DEF CallIsWhole
  <2> QED BY <1>4, <2>1, <2>2, <2>3, CallKeeps
<1>9. CASE ApiAnswers(k)
  <2> PICK w : w = [r EXCEPT !.at = "answered", !.answer = "busy"] OBVIOUS
  <2>1. asker' = [asker EXCEPT ![k] = w] /\ r.at = "call" BY <1>2, <1>9 DEF ApiAnswers
  <2>2. w \in AskRows /\ w.at = "answered" /\ w.answer = "busy" /\ w.seen = r.seen /\ w.token = r.token BY <1>2 DEF AskRows
  <2>3. CallIsWhole(w) BY <1>3, <2>1, <2>2 DEF CallIsWhole
  <2> QED BY <1>4, <2>1, <2>2, <2>3, CallKeeps
<1>10. CASE CallFails(k) BY <1>6, <1>10 DEF CallFails
<1> QED BY <1>5, <1>7, <1>8, <1>9, <1>10

LEMMA LinkStep == ASSUME LinkInv, LinkNext PROVE LinkInv'
<1>1. LinkTypeOK BY DEF LinkInv
<1>2. ASSUME NEW s \in States, GoogleConnect(s) \/ CallbackArrives(s) \/ CallbackRefused(s) \/ ExchangeFails(s) PROVE LinkInv'
  <2>1. /\ UNCHANGED <<strict, grant, asker, overtaken>>
        /\ cookie' \in States \cup {NoState} /\ links' \subseteq States /\ returns' \subseteq links'
    BY <1>1, <1>2 DEF LinkTypeOK, GoogleConnect, CallbackArrives, CallbackRefused, ExchangeFails
  <2> QED BY <2>1, ConsentKeeps
<1> QED BY <1>2, RowKeeps, ExchangeKeeps, CallsKeep, StoreTokenKeeps DEF LinkNext

LEMMA LinkRests == ASSUME LinkInv, UNCHANGED linkVars PROVE LinkInv'
<1>1. LinkTypeOK BY DEF LinkInv
<1>2. UNCHANGED <<strict, grant, cookie, links, returns, asker, overtaken>> BY DEF linkVars
<1> QED BY <1>1, <1>2, ConsentKeeps DEF LinkTypeOK

LEMMA LinkMeans == ASSUME LinkInv PROVE LinkIsSound
<1>1. CallsAreWhole /\ TokensOfOneAccount BY DEF LinkInv
<1>2. AnswersAreOfTheLink BY <1>1 DEF CallsAreWhole, CallIsWhole, AnswersAreOfTheLink
<1> QED BY <1>1, <1>2 DEF LinkIsSound
(* Hours: the times offered, the cap, and the hours asked for.             *)

Weeks   == [Days -> SUBSET OpenSpan]
EventShapes == [cap : Caps, after : Turnarounds]
Pages7  == [week : Weeks, event : EventShapes]

\* No window stored opens at midnight.
WeekIsParsed == \A d \in Days : \A w \in week[d] : w[1] # 0
\* A booking lies within the twenty-four hours of the second day, or before them.
BookedWithinDays == \A i \in appts : i < Midnight(2) + DayUnits

HoursInv ==
  /\ HoursTypeOK /\ WeekIsParsed /\ BookedWithinDays
  /\ CapKeptOnOrdinaryDays /\ HoursAreAsAsked

LEMMA ZoneFacts ==
  ASSUME HoursTypeOK
  PROVE  /\ DayUnits \in Nat /\ Change \in Nat /\ Change >= 1 /\ Change <= DayUnits - 2 /\ season \in {-1, 0, 1}
         /\ Midnight(1) = 0 /\ Midnight(2) = DayUnits + season /\ Midnight(2) \in Int
         /\ \A i \in Instants : i \in Nat /\ i <= 2 * DayUnits
         /\ \A i \in Instants : LocalDay(i) = IF i < Midnight(2) THEN 1 ELSE 2
BY HoursAssumption DEF HoursTypeOK, Midnight, LocalDay, Instants

LEMMA DefaultIsOpen == Default \in OpenSpan /\ Default[1] # 0 /\ Blocked \in Spans /\ Blocked \notin OpenSpan
<1>1. DefaultOpen \in 1..DayUnits /\ DefaultClose \in (DefaultOpen + 1)..DayUnits /\ DayUnits \in Nat BY HoursAssumption
<1> QED BY <1>1 DEF Default, OpenSpan, Spans, Blocked

LEMMA HoursInitially == ASSUME HoursInit PROVE HoursInv
<1>1. /\ season \in {-1, 0, 1} /\ calendar \subseteq Instants /\ now = 0 /\ week = [d \in Days |-> {Default}]
      /\ override = [d \in Days |-> {}] /\ event \in EventShapes /\ appts = {}
      /\ console = [t \in Consoles |-> [week |-> week, event |-> event]]
      /\ asked = week /\ reverted = {} /\ overrun = {} BY DEF HoursInit, EventShapes
<1>2. {Default} \subseteq OpenSpan /\ {Default} \subseteq Spans BY DefaultIsOpen DEF OpenSpan
<1>3. week \in Weeks /\ asked \in [Days -> SUBSET Spans] BY <1>1, <1>2 DEF Weeks
<1>4. 0 \in 0..MaxNow BY HoursAssumption
<1>5. console \in [Consoles -> Pages7] BY <1>1, <1>3 DEF Pages7
<1>6. HoursTypeOK BY <1>1, <1>3, <1>4, <1>5 DEF HoursTypeOK, Weeks, Pages7, EventShapes
<1>7. WeekIsParsed BY <1>1, DefaultIsOpen DEF WeekIsParsed
<1> QED BY <1>1, <1>6, <1>7 DEF HoursInv, BookedWithinDays, CapKeptOnOrdinaryDays, HoursAreAsAsked

\* A slot is a wall-clock time of an open window, at the instant of the day.
LEMMA SlotIsOpen ==
  ASSUME HoursTypeOK, NEW d \in Days, NEW busy, NEW own, NEW i \in SlotsUtc(d, busy, own)
  PROVE  /\ i \notin busy /\ ~(event.cap # 0 /\ DayCount(d, appts \ own) >= event.cap)
         /\ \E w \in WindowsFor(d) : \E m \in Nat :
              w[1] <= m /\ m < w[2] /\ m < DayUnits /\ i = InstantOf(d, m) /\ override[d] # {Blocked}
<1>1. ~(event.cap # 0 /\ DayCount(d, appts \ own) >= event.cap) BY DEF SlotsUtc
<1>2. i \in {InstantOf(d, m) : m \in UNION {w[1]..(w[2] - 1) : w \in WindowsFor(d)}} /\ i \notin busy BY DEF SlotsUtc
<1>3. PICK w \in WindowsFor(d) : \E m \in w[1]..(w[2] - 1) : i = InstantOf(d, m) BY <1>2
<1>4. PICK m \in w[1]..(w[2] - 1) : i = InstantOf(d, m) BY <1>3
<1>5. WindowsFor(d) \subseteq OpenSpan
  <2>1. week[d] \subseteq OpenSpan /\ override[d] \subseteq OpenSpan \cup {Blocked} BY DEF HoursTypeOK
  <2> QED BY <2>1 DEF WindowsFor
<1>6. w[1] \in 0..DayUnits /\ w[2] \in 0..DayUnits BY <1>3, <1>5 DEF OpenSpan, Spans
<1>7. m \in Nat /\ w[1] <= m /\ m < w[2] /\ m < DayUnits BY <1>4, <1>6, HoursAssumption
<1>8. override[d] # {Blocked} BY <1>3 DEF WindowsFor
<1> QED BY <1>1, <1>2, <1>3, <1>4, <1>7, <1>8

\* Where the instant of a wall-clock time lies.
LEMMA InstantLies ==
  ASSUME HoursTypeOK, NEW d \in Days, NEW m \in Nat, m < DayUnits, NEW i, i = InstantOf(d, m)
  PROVE  /\ i \in Instants /\ LocalDay(i) = d /\ i < Midnight(2) + DayUnits
         /\ WallOf(i) = m \/ (season = -1 /\ i = Change)
         /\ i \in TwentyFour(d) \/ (season = 1 /\ d = 1 /\ i = DayUnits)
<1>1. /\ DayUnits \in Nat /\ Change \in Nat /\ Change >= 1 /\ Change <= DayUnits - 2 /\ season \in {-1, 0, 1}
      /\ Midnight(1) = 0 /\ Midnight(2) = DayUnits + season BY ZoneFacts
<1>2. CASE d = 2
  <2>1. i = DayUnits + season + m BY <1>1, <1>2 DEF InstantOf
  <2>2. i \in Instants /\ i >= Midnight(2) /\ i < Midnight(2) + DayUnits BY <1>1, <2>1 DEF Instants
  <2>3. LocalDay(i) = 2 BY <1>1, <2>1 DEF LocalDay
  <2>4. WallOf(i) = i - Midnight(2) BY <2>3 DEF WallOf
  <2>5. WallOf(i) = m BY <1>1, <2>1, <2>4
  <2>6. i \in TwentyFour(2) BY <2>2 DEF TwentyFour
  <2> QED BY <1>2, <2>2, <2>3, <2>5, <2>6
<1>3. CASE d = 1
  <2>1. i = m + IF m > Change THEN season ELSE 0
    <3>1. i = 0 + m + IF m > Change THEN season ELSE 0 BY <1>1, <1>3 DEF InstantOf
    <3> QED BY <1>1, <3>1
  <2>2. i \in Int /\ i >= 0 /\ i < DayUnits + season /\ i < Midnight(2) + DayUnits BY <1>1, <2>1
  <2>3. i \in Instants BY <1>1, <2>2 DEF Instants
  <2>4. LocalDay(i) = 1 BY <1>1, <2>2 DEF LocalDay
  <2>5. WallOf(i) = i - (IF i >= Change + (IF season = 1 THEN 1 ELSE 0) THEN season ELSE 0) BY <2>4 DEF WallOf
  <2>6. WallOf(i) = m \/ (season = -1 /\ i = Change)
    <3>1. CASE season = 0 BY <1>1, <2>1, <2>5, <3>1
    <3>2. CASE season = 1 BY <1>1, <2>1, <2>5, <3>2
    <3>3. CASE season = -1 BY <1>1, <2>1, <2>5, <3>3
    <3> QED BY <1>1, <3>1, <3>2, <3>3
  <2>7. i < DayUnits \/ (season = 1 /\ i = DayUnits) BY <1>1, <2>2
  <2>8. i < DayUnits => i \in TwentyFour(1) BY <1>1, <2>2, <2>3 DEF TwentyFour
  <2> QED BY <1>3, <2>2, <2>3, <2>4, <2>6, <2>7, <2>8
<1> QED BY <1>2, <1>3 DEF Days

\* The times a page offers, in any state of the types.
LEMMA OfferedAreOpen == ASSUME HoursTypeOK PROVE OfferedTimesAreOpen
<1> SUFFICES ASSUME NEW d \in Days, NEW i \in SlotsForDay(d, {})
    PROVE  /\ LocalDay(i) = d
           /\ (\E w \in WindowsFor(d) : w[1] <= WallOf(i) /\ WallOf(i) < w[2]) \/ (season = -1 /\ i = Change)
           /\ override[d] # {Blocked}
           /\ i \notin calendar \/ (season = 1 /\ d = 1 /\ i = DayUnits) BY DEF OfferedTimesAreOpen
<1>1. i \in SlotsUtc(d, DayBusy(d), {}) BY DEF SlotsForDay
<1>2. i \notin DayBusy(d) BY <1>1, SlotIsOpen
<1>3. PICK w \in WindowsFor(d) : \E m \in Nat :
             w[1] <= m /\ m < w[2] /\ m < DayUnits /\ i = InstantOf(d, m) /\ override[d] # {Blocked}
  BY <1>1, SlotIsOpen
<1>4. PICK m \in Nat : w[1] <= m /\ m < w[2] /\ m < DayUnits /\ i = InstantOf(d, m) /\ override[d] # {Blocked} BY <1>3
<1>5. /\ LocalDay(i) = d
      /\ WallOf(i) = m \/ (season = -1 /\ i = Change)
      /\ i \in TwentyFour(d) \/ (season = 1 /\ d = 1 /\ i = DayUnits) BY <1>4, InstantLies
<1> QED BY <1>2, <1>3, <1>4, <1>5 DEF DayBusy

\* The month asks the calendar for more than the day's page does.
LEMMA LitAreOffered == LitDaysHaveSlots
<1> SUFFICES ASSUME NEW d \in DaysWithSlots PROVE SlotsForDay(d, {}) # {} BY DEF LitDaysHaveSlots
<1>1. DayBusy(d) \subseteq MonthBusy BY DEF DayBusy, MonthBusy
<1>2. SlotsUtc(d, MonthBusy, {}) # {} BY DEF DaysWithSlots
<1>3. SlotsUtc(d, MonthBusy, {}) \subseteq SlotsUtc(d, DayBusy(d), {}) BY <1>1 DEF SlotsUtc
<1> QED BY <1>2, <1>3 DEF SlotsForDay

\* The bookings of a day are among those its cap counts, but for the longer day's.
LEMMA DayIsCounted ==
  ASSUME HoursInv, NEW d \in Days, NEW own, season # 1 \/ d = 2
  PROVE  Cardinality({b \in appts \ own : LocalDay(b) = d}) <= DayCount(d, appts \ own)
<1>1. HoursTypeOK /\ BookedWithinDays BY DEF HoursInv
<1>2. /\ DayUnits \in Nat /\ season \in {-1, 0, 1} /\ Midnight(1) = 0 /\ Midnight(2) = DayUnits + season
      /\ \A b \in Instants : b \in Nat /\ b <= 2 * DayUnits
      /\ \A b \in Instants : LocalDay(b) = IF b < Midnight(2) THEN 1 ELSE 2 BY <1>1, ZoneFacts
<1>3. appts \subseteq Instants BY <1>1 DEF HoursTypeOK
<1> PICK ofDay : ofDay = {b \in appts \ own : LocalDay(b) = d} OBVIOUS
<1> PICK counted : counted = (appts \ own) \cap TwentyFour(d) OBVIOUS
<1>4. ASSUME NEW b \in ofDay PROVE b \in counted
  <2>1. b \in appts \ own /\ b \in Instants /\ LocalDay(b) = d BY <1>3
  <2>2. CASE d = 1
    <3>1. b < Midnight(2) /\ b \in Nat /\ season # 1 BY <1>2, <2>1, <2>2
    <3>2. Midnight(d) <= b /\ b < Midnight(d) + DayUnits BY <1>2, <2>2, <3>1
    <3> QED BY <2>1, <3>2 DEF TwentyFour
  <2>3. CASE d = 2
    <3>1. ~(b < Midnight(2)) /\ b \in Nat BY <1>2, <2>1, <2>3
    <3>2. b < Midnight(2) + DayUnits BY <1>1, <2>1 DEF BookedWithinDays
    <3>3. Midnight(d) <= b /\ b < Midnight(d) + DayUnits BY <1>2, <2>3, <3>1, <3>2
    <3> QED BY <2>1, <3>3 DEF TwentyFour
  <2> QED BY <2>2, <2>3 DEF Days
<1>5. IsFiniteSet(Instants)
  <2>1. 0 \in Int /\ 2 * DayUnits \in Int BY <1>2
  <2> QED BY <2>1, FS_Interval DEF Instants
<1>6. counted \subseteq Instants BY <1>3
<1>7. IsFiniteSet(counted) BY <1>5, <1>6, FS_Subset
<1>8. ofDay \subseteq counted BY <1>4
<1>9. Cardinality(ofDay) <= Cardinality(counted) BY <1>7, <1>8, FS_Subset
<1> QED BY <1>9 DEF DayCount

LEMMA TakeSlotKeeps ==
  ASSUME HoursInv, NEW i \in Instants, NEW own, TakeSlot(i, own) PROVE HoursInv'
<1>1. HoursTypeOK /\ WeekIsParsed /\ BookedWithinDays /\ CapKeptOnOrdinaryDays /\ HoursAreAsAsked BY DEF HoursInv
<1> PICK d : d = LocalDay(i) OBVIOUS
<1>2. /\ i \in SlotsUtc(d, DayBusy(d), own) /\ appts' = (appts \ own) \cup {i}
      /\ overrun' = IF Overruns(i, own) THEN overrun \cup {d} ELSE overrun
      /\ UNCHANGED <<season, calendar, now, week, override, event, console, asked, reverted>>
  BY DEF TakeSlot, SlotsForDay, settings
<1>3. d \in Days BY DEF LocalDay, Days
<1>4. /\ ~(event.cap # 0 /\ DayCount(d, appts \ own) >= event.cap)
      /\ \E w \in WindowsFor(d) : \E m \in Nat :
           w[1] <= m /\ m < w[2] /\ m < DayUnits /\ i = InstantOf(d, m) /\ override[d] # {Blocked}
  <2> PICK busy : busy = DayBusy(d) OBVIOUS
  <2>1. i \in SlotsUtc(d, busy, own) BY <1>2
  <2>2. ~(event.cap # 0 /\ DayCount(d, appts \ own) >= event.cap) BY <1>1, <1>3, <2>1, SlotIsOpen
  <2>3. \E w \in WindowsFor(d) : \E m \in Nat :
           w[1] <= m /\ m < w[2] /\ m < DayUnits /\ i = InstantOf(d, m) /\ override[d] # {Blocked}
    <3>1. HoursTypeOK BY <1>1
    <3>2. ASSUME NEW day \in Days, NEW b, NEW o, NEW j \in SlotsUtc(day, b, o)
          PROVE  \E w \in WindowsFor(day) : \E m \in Nat :
                   w[1] <= m /\ m < w[2] /\ m < DayUnits /\ j = InstantOf(day, m) /\ override[day] # {Blocked}
      BY <3>1, <3>2, SlotIsOpen
    <3> QED BY <1>3, <2>1, <3>2
  <2> QED BY <2>2, <2>3
<1>5. i < Midnight(2) + DayUnits BY <1>1, <1>3, <1>4, InstantLies
<1>6. HoursTypeOK' BY <1>1, <1>2, <1>3 DEF HoursTypeOK
<1>7. WeekIsParsed' /\ HoursAreAsAsked' BY <1>1, <1>2 DEF WeekIsParsed, HoursAreAsAsked
<1>8. BookedWithinDays' BY <1>1, <1>2, <1>5 DEF BookedWithinDays, Midnight
<1>9. Overruns(i, own) => season = 1 /\ d = 1
  <2> SUFFICES ASSUME Overruns(i, own), season # 1 \/ d = 2 PROVE FALSE BY <1>3 DEF Days
  <2> PICK cap : cap = event.cap OBVIOUS
  <2> PICK most : most = Cardinality({b \in appts \ own : LocalDay(b) = d}) OBVIOUS
  <2> PICK count : count = DayCount(d, appts \ own) OBVIOUS
  <2>1. cap # 0 /\ most >= cap BY DEF Overruns
  <2>2. most <= count BY <1>3, DayIsCounted
  <2>3. ~(count >= cap) BY <1>4, <2>1
  <2>4. cap \in Nat BY <1>1, HoursAssumption DEF HoursTypeOK
  <2>5. IsFiniteSet(Instants)
    <3>1. 0 \in Int /\ 2 * DayUnits \in Int BY HoursAssumption
    <3> QED BY <3>1, FS_Interval DEF Instants
  <2>6. IsFiniteSet(appts) BY <1>1, <2>5, FS_Subset DEF HoursTypeOK
  <2>7. most \in Nat
    <3>1. {b \in appts \ own : LocalDay(b) = d} \subseteq appts OBVIOUS
    <3>2. IsFiniteSet({b \in appts \ own : LocalDay(b) = d}) BY <2>6, <3>1, FS_Subset
    <3> QED BY <3>2, FS_CardinalityType
  <2>8. count \in Nat
    <3>1. (appts \ own) \cap TwentyFour(d) \subseteq appts OBVIOUS
    <3>2. IsFiniteSet((appts \ own) \cap TwentyFour(d)) BY <2>6, <3>1, FS_Subset
    <3> QED BY <3>2, FS_CardinalityType DEF DayCount
  <2> QED BY <2>1, <2>2, <2>3, <2>4, <2>7, <2>8
<1>10. CapKeptOnOrdinaryDays' BY <1>1, <1>2, <1>9 DEF CapKeptOnOrdinaryDays
<1> QED BY <1>6, <1>7, <1>8, <1>10 DEF HoursInv

\* Steps that leave the hours asked for and the bookings alone, or take one away.
LEMMA DiaryKeeps ==
  ASSUME HoursInv, HoursTypeOK', UNCHANGED <<season, week, asked, reverted, overrun>>, appts' \subseteq appts
  PROVE  HoursInv'
BY DEF HoursInv, WeekIsParsed, BookedWithinDays, Midnight, CapKeptOnOrdinaryDays, HoursAreAsAsked

\* What is stored of a window that opens after midnight and in order is the window.
LEMMA ParsedWindow ==
  ASSUME NEW w \in Spans
  PROVE  /\ Parsed(w) \in OpenSpan /\ Parsed(w)[1] # 0
         /\ w[1] # 0 /\ w[1] < w[2] => Parsed(w) = w
<1>1. DayUnits \in Nat /\ DefaultOpen \in 1..DayUnits /\ DefaultClose \in (DefaultOpen + 1)..DayUnits BY HoursAssumption
<1>2. w[1] \in 0..DayUnits /\ w[2] \in 0..DayUnits /\ w = <<w[1], w[2]>> BY DEF Spans
<1> PICK s : s = IF w[1] = 0 THEN DefaultOpen ELSE w[1] OBVIOUS
<1> PICK e : e = IF w[2] = 0 THEN DefaultClose ELSE w[2] OBVIOUS
<1>3. s \in 1..DayUnits /\ e \in 1..DayUnits BY <1>1, <1>2
<1>4. Parsed(w) = IF e <= s THEN Default ELSE <<s, e>> BY DEF Parsed
<1>5. CASE e <= s
  <2>1. Parsed(w) = Default BY <1>4, <1>5
  <2>2. ~(w[1] # 0 /\ w[1] < w[2]) BY <1>2, <1>5
  <2> QED BY <2>1, <2>2, DefaultIsOpen
<1>6. CASE ~(e <= s)
  <2>1. Parsed(w) = <<s, e>> BY <1>4, <1>6
  <2>2. <<s, e>> \in OpenSpan BY <1>1, <1>3, <1>6 DEF OpenSpan, Spans
  <2>3. w[1] # 0 /\ w[1] < w[2] => s = w[1] /\ e = w[2] BY <1>2
  <2> QED BY <1>2, <1>3, <2>1, <2>2, <2>3
<1> QED BY <1>5, <1>6

LEMMA SaveKeeps ==
  ASSUME HoursInv, NEW t \in Consoles, NEW d \in Days, NEW typed \in {{}} \cup {{w} : w \in Spans},
         SaveAvailability(t, d, typed)
  PROVE  HoursInv'
<1>1. HoursTypeOK /\ WeekIsParsed /\ BookedWithinDays /\ CapKeptOnOrdinaryDays /\ HoursAreAsAsked BY DEF HoursInv
<1> PICK showing : showing = console[t].week OBVIOUS
<1> PICK posted : posted = Posted(showing, d, typed) OBVIOUS
<1> PICK next : next = [x \in Days |-> {Parsed(w) : w \in posted[x]}] OBVIOUS
<1>2. /\ week' = next /\ asked' = [asked EXCEPT ![d] = typed]
      /\ reverted' = (reverted \ {d}) \cup {x \in Days \ {d} : showing[x] # week[x]}
      /\ UNCHANGED <<season, calendar, now, appts, overrun, override, event>> BY DEF SaveAvailability, diary
<1>3. console' = [console EXCEPT ![t].week = next] BY <1>2 DEF SaveAvailability
<1>4. /\ showing \in Weeks /\ week \in Weeks /\ typed \subseteq Spans /\ console \in [Consoles -> Pages7]
      /\ asked \in [Days -> SUBSET Spans] /\ reverted \subseteq Days
  BY <1>1 DEF HoursTypeOK, Pages7, Weeks, EventShapes
<1>5. posted = [showing EXCEPT ![d] = typed] BY DEF Posted
<1>6. posted \in [Days -> SUBSET Spans] /\ posted[d] = typed /\ \A x \in Days : x # d => posted[x] = showing[x]
  BY <1>4, <1>5 DEF Weeks, OpenSpan
<1>7. \A x \in Days : \A w \in posted[x] : Parsed(w) \in OpenSpan /\ Parsed(w)[1] # 0 BY <1>6, ParsedWindow
<1>8. next \in Weeks /\ \A x \in Days : \A w \in next[x] : w[1] # 0 BY <1>7 DEF Weeks
<1>9. console' \in [Consoles -> Pages7] BY <1>3, <1>4, <1>8 DEF Pages7
<1>10. asked' \in [Days -> SUBSET Spans] /\ asked'[d] = typed /\ \A x \in Days : x # d => asked'[x] = asked[x]
  BY <1>2, <1>4
<1>11. HoursTypeOK' BY <1>1, <1>2, <1>4, <1>8, <1>9, <1>10 DEF HoursTypeOK, Weeks, Pages7, EventShapes
<1>12. WeekIsParsed' BY <1>2, <1>8 DEF WeekIsParsed
<1>13. BookedWithinDays' /\ CapKeptOnOrdinaryDays' BY <1>1, <1>2 DEF BookedWithinDays, CapKeptOnOrdinaryDays, Midnight
<1>14. HoursAreAsAsked'
  <2> SUFFICES ASSUME NEW x \in Days
      PROVE  x \in reverted' \/ next[x] = asked'[x] \/ \E w \in asked'[x] : w[1] = 0 \/ w[2] <= w[1]
    BY <1>2 DEF HoursAreAsAsked
  <2>1. CASE x = d
    <3>1. CASE \E w \in typed : w[1] = 0 \/ w[2] <= w[1] BY <1>10, <2>1, <3>1
    <3>2. CASE \A w \in typed : ~(w[1] = 0 \/ w[2] <= w[1])
      <4>1. \A w \in typed : w[1] \in Int /\ w[2] \in Int BY <1>4, HoursAssumption DEF Spans
      <4>2. \A w \in typed : Parsed(w) = w BY <1>4, <3>2, <4>1, ParsedWindow
      <4>3. next[d] = {Parsed(w) : w \in typed} BY <1>6
      <4>4. next[d] = typed BY <4>2, <4>3
      <4> QED BY <1>10, <2>1, <4>4
    <3> QED BY <3>1, <3>2
  <2>2. CASE x # d
    <3>1. CASE showing[x] # week[x] BY <1>2, <2>2, <3>1
    <3>2. CASE showing[x] = week[x]
      <4>1. posted[x] = week[x] BY <1>6, <2>2, <3>2
      <4>2. week[x] \subseteq OpenSpan /\ \A w \in week[x] : w[1] # 0 BY <1>1, <1>4 DEF Weeks, WeekIsParsed
      <4>3. \A w \in week[x] : w \in Spans /\ w[1] < w[2] BY <4>2 DEF OpenSpan
      <4>4. \A w \in week[x] : Parsed(w) = w BY <4>2, <4>3, ParsedWindow
      <4>5. next[x] = {Parsed(w) : w \in week[x]} BY <4>1
      <4>6. next[x] = week[x] BY <4>4, <4>5
      <4>7. x \in reverted => x \in reverted' BY <1>2, <2>2
      <4>8. x \in reverted \/ week[x] = asked[x] \/ \E w \in asked[x] : w[1] = 0 \/ w[2] <= w[1]
        BY <1>1 DEF HoursAreAsAsked
      <4> QED BY <1>10, <2>2, <4>6, <4>7, <4>8
    <3> QED BY <3>1, <3>2
  <2> QED BY <2>1, <2>2
<1> QED BY <1>11, <1>12, <1>13, <1>14 DEF HoursInv

LEMMA HoursStep == ASSUME HoursInv, HoursNext PROVE HoursInv'
<1>1. HoursTypeOK BY DEF HoursInv
<1>2. CASE TimePasses
  <2>1. HoursTypeOK' BY <1>1, <1>2, HoursAssumption DEF TimePasses, HoursTypeOK, settings
  <2> QED BY <1>2, <2>1, DiaryKeeps DEF TimePasses, settings
<1>3. ASSUME NEW i \in Instants, CancelAppt(i) PROVE HoursInv'
  <2>1. HoursTypeOK' BY <1>1, <1>3 DEF CancelAppt, HoursTypeOK, settings
  <2> QED BY <1>3, <2>1, DiaryKeeps DEF CancelAppt, settings
<1>4. ASSUME NEW t \in Consoles, OpenConsole(t) PROVE HoursInv'
  <2> PICK row : row = [week |-> week, event |-> event] OBVIOUS
  <2>1. console' = [console EXCEPT ![t] = row] /\ UNCHANGED <<season, calendar, now, appts, overrun, week, override, event, asked, reverted>>
    BY <1>4 DEF OpenConsole, diary
  <2>2. row \in Pages7 BY <1>1 DEF HoursTypeOK, Pages7, Weeks, EventShapes
  <2>3. HoursTypeOK' BY <1>1, <2>1, <2>2 DEF HoursTypeOK, Pages7, Weeks, EventShapes
  <2> QED BY <2>1, <2>3, DiaryKeeps
<1>5. ASSUME NEW t \in Consoles, UpdateEvent(t) PROVE HoursInv'
  <2> PICK e : e = console[t].event OBVIOUS
  <2>1. UNCHANGED <<season, calendar, now, appts, overrun, week, override, console, asked, reverted>>
    BY <1>5 DEF UpdateEvent, diary
  <2>2. e \in EventShapes BY <1>1 DEF HoursTypeOK, EventShapes
  <2>3. event' \in {[e EXCEPT !.cap = n] : n \in Caps} \cup {[e EXCEPT !.after = n] : n \in Turnarounds}
    BY <1>5 DEF UpdateEvent
  <2>4. event' \in EventShapes BY <2>2, <2>3 DEF EventShapes
  <2>5. HoursTypeOK' BY <1>1, <2>1, <2>4 DEF HoursTypeOK, EventShapes
  <2> QED BY <2>1, <2>5, DiaryKeeps
<1>6. ASSUME NEW d \in Days, DelOverride(d) \/ \E w \in Spans : AddOverride(d, w) PROVE HoursInv'
  <2>1. UNCHANGED <<season, calendar, now, appts, overrun, week, event, console, asked, reverted>>
    BY <1>6 DEF DelOverride, AddOverride, diary
  <2>2. override' \in [Days -> SUBSET (OpenSpan \cup {Blocked})] BY <1>1, <1>6 DEF HoursTypeOK, DelOverride, AddOverride
  <2>3. HoursTypeOK' BY <1>1, <2>1, <2>2 DEF HoursTypeOK
  <2> QED BY <2>1, <2>3, DiaryKeeps
<1> QED BY <1>2, <1>3, <1>4, <1>5, <1>6, TakeSlotKeeps, SaveKeeps DEF HoursNext

LEMMA HoursRest == ASSUME HoursInv, UNCHANGED hoursVars PROVE HoursInv'
<1>1. UNCHANGED <<season, calendar, now, week, override, event, appts, console, asked, reverted, overrun>> BY DEF hoursVars
<1>2. HoursTypeOK' BY <1>1 DEF HoursInv, HoursTypeOK
<1> QED BY <1>1, <1>2, DiaryKeeps

LEMMA HoursMean == ASSUME HoursInv PROVE HoursAreSound
BY OfferedAreOpen, LitAreOffered DEF HoursInv, HoursAreSound
(* EventTypes: what was booked against the types there.                    *)

TypeShapes    == [slug : Slugs \cup {NoSlug}, active : BOOLEAN]
PickShapes    == [id : 0..MaxTypes, slug : Slugs \cup {NoSlug}]
RequestShapes == [at : {"idle", "create", "toggle", "delete"}, id : 0..MaxTypes, slug : Slugs \cup {NoSlug}, to : BOOLEAN]

TypesAreWhole ==
  /\ \A i \in TypeIds : etype[i].slug = NoSlug => etype[i] = NoType
  /\ \A a \in Removers : remover[a].at = "create" => remover[a].slug \in Slugs
\* What a visitor picked is still what its id has, if it was not passed on.
PicksAreWhole == \A v \in Bookers : booker[v] # NoPick =>
  /\ booker[v].id \in TypeIds /\ booker[v].slug \in Slugs
  /\ booker[v].id \notin passedOn /\ etype[booker[v].id] # NoType => etype[booker[v].id].slug = booker[v].slug

TypesInv == TypesTypeOK /\ TypesAreWhole /\ PicksAreWhole /\ BookedTypesStay /\ BookedAsPicked /\ SlugsApart

LEMMA TypesTyped ==
  ASSUME TypesTypeOK
  PROVE  etype \in [TypeIds -> TypeShapes] /\ booker \in [Bookers -> PickShapes] /\ remover \in [Removers -> RequestShapes]
BY DEF TypesTypeOK, TypeShapes, PickShapes, RequestShapes

LEMMA FreeTypeRows ==
  /\ NoType \in TypeShapes /\ NoPick \in PickShapes /\ NoRequest \in RequestShapes
  /\ NoType.slug = NoSlug /\ NoPick.id = 0 /\ NoRequest.at = "idle" /\ NoSlug \notin Slugs /\ MaxTypes \in Nat
BY EventTypesAssumption DEF NoType, NoPick, NoRequest, TypeShapes, PickShapes, RequestShapes

LEMMA TypesInitially == ASSUME TypesInit PROVE TypesInv
<1>1. /\ etype = [i \in TypeIds |-> NoType] /\ sold = {} /\ booker = [v \in Bookers |-> NoPick]
      /\ remover = [a \in Removers |-> NoRequest] /\ passedOn = {} BY DEF TypesInit
<1>2. TypesTypeOK BY <1>1, FreeTypeRows DEF TypesTypeOK, TypeShapes, PickShapes, RequestShapes
<1>3. TypeRows = {} BY <1>1 DEF TypeRows
<1> QED BY <1>1, <1>2, <1>3, FreeTypeRows
     DEF TypesInv, TypesAreWhole, PicksAreWhole, BookedTypesStay, BookedAsPicked, SlugsApart

\* The next id is no type's.
LEMMA NextIdIsFree == ASSUME TypesTypeOK, NEW i \in TypeIds, NextTypeId(i) PROVE i \notin TypeRows
<1>1. TypeRows \subseteq TypeIds /\ TypeIds \subseteq Nat BY FreeTypeRows DEF TypeRows, TypeIds
<1>2. CASE TypeRows # {}
  <2>1. TypeRows \in SUBSET Nat /\ \A k \in TypeRows : k <= MaxTypes BY <1>1, FreeTypeRows DEF TypeIds
  <2>2. \E m \in TypeRows : \A k \in TypeRows : k <= m BY <1>2, <2>1, FreeTypeRows, LastOf
  <2> PICK last : last = CHOOSE m \in TypeRows : \A k \in TypeRows : k <= m OBVIOUS
  <2>3. last \in TypeRows /\ \A k \in TypeRows : k <= last BY <2>2
  <2>4. i = 1 + last BY <1>2 DEF NextTypeId
  <2>5. \A k \in TypeRows : k \in Nat BY <2>1
  <2> QED BY <2>3, <2>4, <2>5
<1>3. CASE TypeRows = {} BY <1>3
<1> QED BY <1>2, <1>3

\* Requests of the owner that change no type.
LEMMA OwnersKeep ==
  ASSUME TypesInv, NEW a \in Removers, NEW r \in RequestShapes, r.at = "create" => r.slug \in Slugs,
         remover' = [remover EXCEPT ![a] = r], UNCHANGED <<etype, sold, booker, passedOn>>
  PROVE  TypesInv'
<1>1. TypesTypeOK /\ TypesAreWhole /\ PicksAreWhole /\ BookedTypesStay /\ BookedAsPicked /\ SlugsApart BY DEF TypesInv
<1>2. remover' \in [Removers -> RequestShapes] /\ remover'[a] = r /\ \A c \in Removers : c # a => remover'[c] = remover[c]
  BY <1>1, TypesTyped
<1>3. TypesTypeOK' BY <1>1, <1>2 DEF TypesTypeOK, RequestShapes
<1>4. TypesAreWhole' BY <1>1, <1>2 DEF TypesAreWhole
<1> QED BY <1>1, <1>3, <1>4 DEF TypesInv, PicksAreWhole, BookedTypesStay, BookedAsPicked, SlugsApart, TypeRows

\* A request that writes a type ends.
LEMMA TypeWritten ==
  ASSUME TypesInv, NEW a \in Removers, NEW i \in TypeIds, NEW row \in TypeShapes,
         etype' = [etype EXCEPT ![i] = row], remover' = [remover EXCEPT ![a] = NoRequest], UNCHANGED <<sold, booker>>,
         passedOn \subseteq passedOn', passedOn' \subseteq TypeIds,
         row.slug = NoSlug => row = NoType,
         \A k \in TypeRows : k # i => row = NoType \/ etype[k].slug # row.slug,
         \A b \in sold : b.id = i => row # NoType /\ row.slug = etype[i].slug,
         row = NoType \/ row.slug = etype[i].slug \/ \A v \in Bookers : booker[v].id = i => i \in passedOn'
  PROVE  TypesInv'
<1>1. TypesTypeOK /\ TypesAreWhole /\ PicksAreWhole /\ BookedTypesStay /\ BookedAsPicked /\ SlugsApart BY DEF TypesInv
<1>2. etype' \in [TypeIds -> TypeShapes] /\ etype'[i] = row /\ \A k \in TypeIds : k # i => etype'[k] = etype[k]
  BY <1>1, TypesTyped
<1>3. remover' \in [Removers -> RequestShapes] /\ remover'[a] = NoRequest /\ \A c \in Removers : c # a => remover'[c] = remover[c]
  BY <1>1, TypesTyped, FreeTypeRows
<1>4. TypesTypeOK' BY <1>1, <1>2, <1>3 DEF TypesTypeOK, RequestShapes, TypeShapes
<1>5. TypesAreWhole' BY <1>1, <1>2, <1>3, FreeTypeRows DEF TypesAreWhole
<1>6. \A b \in sold : b.id \in TypeIds BY <1>1 DEF TypesTypeOK
<1>7. BookedTypesStay' BY <1>1, <1>2, <1>6 DEF BookedTypesStay
<1>8. BookedAsPicked' BY <1>1, <1>2, <1>6 DEF BookedAsPicked
<1>9. PicksAreWhole'
  <2> SUFFICES ASSUME NEW v \in Bookers, booker[v] # NoPick
      PROVE  /\ booker[v].id \in TypeIds /\ booker[v].slug \in Slugs
             /\ booker[v].id \notin passedOn' /\ etype'[booker[v].id] # NoType => etype'[booker[v].id].slug = booker[v].slug
    BY DEF PicksAreWhole
  <2>1. /\ booker[v].id \in TypeIds /\ booker[v].slug \in Slugs
        /\ booker[v].id \notin passedOn /\ etype[booker[v].id] # NoType => etype[booker[v].id].slug = booker[v].slug
    BY <1>1 DEF PicksAreWhole
  <2>2. CASE booker[v].id # i BY <1>2, <2>1, <2>2
  <2>3. CASE booker[v].id = i
    <3>1. CASE row = NoType BY <1>2, <2>1, <2>3, <3>1
    <3>2. CASE \A u \in Bookers : booker[u].id = i => i \in passedOn' BY <2>1, <2>3, <3>2
    <3>3. CASE row # NoType /\ row.slug = etype[i].slug
      <4>1. etype[i] # NoType BY <3>3, FreeTypeRows
      <4> QED BY <1>2, <2>1, <2>3, <3>3, <4>1
    <3> QED BY <3>1, <3>2, <3>3
  <2> QED BY <2>2, <2>3
<1>10. SlugsApart'
  <2>1. \A k \in TypeRows' : k \in TypeIds /\ (k # i => k \in TypeRows /\ etype'[k] = etype[k]) BY <1>2 DEF TypeRows
  <2>2. \A k \in TypeRows' : k # i => etype'[k].slug # etype'[i].slug \/ etype'[i] = NoType BY <1>2, <2>1
  <2>3. i \in TypeRows' => etype'[i] # NoType BY DEF TypeRows
  <2>4. ASSUME NEW j \in TypeRows', NEW k \in TypeRows', etype'[j].slug = etype'[k].slug PROVE j = k
    <3>1. CASE j # i /\ k # i BY <1>1, <2>1, <2>4, <3>1 DEF SlugsApart
    <3>2. CASE j = i \/ k = i BY <2>2, <2>3, <2>4, <3>2
    <3> QED BY <3>1, <3>2
  <2> QED BY <2>4 DEF SlugsApart
<1> QED BY <1>4, <1>5, <1>7, <1>8, <1>9, <1>10 DEF TypesInv

LEMMA OwnerTypesKeep ==
  ASSUME TypesInv, NEW a \in Removers,
         \/ CreateEvent(a) \/ ToggleEvent(a) \/ DeleteEventType(a)
         \/ \E s \in Slugs : CreateCheck(a, s)
         \/ \E i \in TypeIds : ToggleRead(a, i) \/ DeleteCheck(a, i)
  PROVE  TypesInv'
<1>1. TypesTypeOK /\ TypesAreWhole /\ BookedTypesStay /\ SlugsApart BY DEF TypesInv
<1>2. /\ etype \in [TypeIds -> TypeShapes] /\ remover \in [Removers -> RequestShapes]
      /\ \A b \in sold : b.id \in TypeRows /\ passedOn \subseteq TypeIds
  BY <1>1, TypesTyped DEF TypesTypeOK, BookedTypesStay, TypeRows
<1>3. passedOn \subseteq TypeIds BY <1>1 DEF TypesTypeOK
<1> PICK r : r = remover[a] OBVIOUS
<1>4. r \in RequestShapes BY <1>2
<1>5. ASSUME NEW s \in Slugs, CreateCheck(a, s) PROVE TypesInv'
  <2> PICK w : w = [NoRequest EXCEPT !.at = "create", !.slug = s] OBVIOUS
  <2>1. w \in RequestShapes /\ w.slug = s BY FreeTypeRows DEF RequestShapes, NoRequest
  <2>2. remover' = [remover EXCEPT ![a] = w] /\ UNCHANGED <<etype, sold, booker, passedOn>> BY <1>5 DEF CreateCheck
  <2> QED BY <2>1, <2>2, OwnersKeep
<1>6. ASSUME NEW i \in TypeIds, ToggleRead(a, i) PROVE TypesInv'
  <2> PICK to \in BOOLEAN : to = ~etype[i].active OBVIOUS
  <2> PICK w : w = [NoRequest EXCEPT !.at = "toggle", !.id = i, !.to = to] OBVIOUS
  <2>0. i \in 0..MaxTypes BY FreeTypeRows DEF TypeIds
  <2>1. w \in RequestShapes /\ w.at # "create" BY <2>0, FreeTypeRows DEF RequestShapes, NoRequest
  <2>2. remover' = [remover EXCEPT ![a] = w] /\ UNCHANGED <<etype, sold, booker, passedOn>> BY <1>6 DEF ToggleRead
  <2> QED BY <2>1, <2>2, OwnersKeep
<1>7. ASSUME NEW i \in TypeIds, DeleteCheck(a, i) PROVE TypesInv'
  <2> PICK w : w = [NoRequest EXCEPT !.at = "delete", !.id = i] OBVIOUS
  <2>0. i \in 0..MaxTypes BY FreeTypeRows DEF TypeIds
  <2>1. w \in RequestShapes /\ w.at # "create" BY <2>0, FreeTypeRows DEF RequestShapes, NoRequest
  <2>2. remover' = [remover EXCEPT ![a] = w] /\ UNCHANGED <<etype, sold, booker, passedOn>> BY <1>7 DEF DeleteCheck
  <2> QED BY <2>1, <2>2, OwnersKeep
<1>8. CASE UNCHANGED <<etype, sold, booker, passedOn>> /\ remover' = [remover EXCEPT ![a] = NoRequest]
  BY <1>8, FreeTypeRows, OwnersKeep
<1>9. CASE CreateEvent(a)
  <2>1. r.at = "create" /\ remover' = [remover EXCEPT ![a] = NoRequest] /\ UNCHANGED <<sold, booker>> BY <1>9 DEF CreateEvent
  <2>2. CASE UNCHANGED <<etype, passedOn>> BY <1>8, <2>1, <2>2
  <2>3. CASE ~UNCHANGED <<etype, passedOn>>
    <3> PICK row : row = [slug |-> r.slug, active |-> TRUE] OBVIOUS
    <3>1. PICK i \in TypeIds :
            /\ NextTypeId(i) /\ etype' = [etype EXCEPT ![i] = row]
            /\ passedOn' = IF \E v \in Bookers : booker[v].id = i THEN passedOn \cup {i} ELSE passedOn
      BY <1>9, <2>3 DEF CreateEvent
    <3>2. SlugFree(r.slug) BY <1>9, <2>3 DEF CreateEvent
    <3>3. r.slug \in Slugs BY <1>1, <2>1 DEF TypesAreWhole
    <3>4. row \in TypeShapes /\ row.slug = r.slug /\ row.slug # NoSlug BY <3>3, FreeTypeRows DEF TypeShapes
    <3>5. i \notin TypeRows BY <1>1, <3>1, NextIdIsFree
    <3>6. \A k \in TypeRows : etype[k].slug # row.slug BY <3>2, <3>4 DEF SlugFree
    <3>7. passedOn \subseteq passedOn' /\ passedOn' \subseteq TypeIds /\ \A v \in Bookers : booker[v].id = i => i \in passedOn'
      BY <1>3, <3>1
    <3>8. \A b \in sold : b.id # i BY <1>2, <3>5
    <3>9. row.slug = NoSlug => row = NoType BY <3>4
    <3>10. \A k \in TypeRows : k # i => row = NoType \/ etype[k].slug # row.slug BY <3>6
    <3>11. \A b \in sold : b.id = i => row # NoType /\ row.slug = etype[i].slug BY <3>8
    <3>12. row = NoType \/ row.slug = etype[i].slug \/ \A v \in Bookers : booker[v].id = i => i \in passedOn' BY <3>7
    <3> QED BY <2>1, <3>1, <3>4, <3>7, <3>9, <3>10, <3>11, <3>12, TypeWritten
  <2> QED BY <2>2, <2>3
<1>10. CASE ToggleEvent(a)
  <2> PICK i : i = r.id OBVIOUS
  <2>1. /\ etype' = IF i \in TypeRows THEN [etype EXCEPT ![i].active = r.to] ELSE etype
        /\ remover' = [remover EXCEPT ![a] = NoRequest] /\ UNCHANGED <<sold, booker, passedOn>>
    BY <1>10 DEF ToggleEvent
  <2>2. CASE i \notin TypeRows BY <1>8, <2>1, <2>2
  <2>3. CASE i \in TypeRows
    <3>1. i \in TypeIds /\ etype[i] # NoType BY <2>3 DEF TypeRows
    <3>2. etype[i] \in TypeShapes /\ etype[i].slug # NoSlug BY <1>1, <1>2, <3>1 DEF TypesAreWhole
    <3>3. PICK row \in TypeShapes : row.slug = etype[i].slug /\ etype' = [etype EXCEPT ![i] = row]
      <4> PICK w : w = [etype[i] EXCEPT !.active = r.to] OBVIOUS
      <4>1. w \in TypeShapes /\ w.slug = etype[i].slug BY <1>4, <3>2 DEF TypeShapes, RequestShapes
      <4>2. etype' = [etype EXCEPT ![i] = w] BY <1>2, <2>1, <2>3
      <4> QED BY <4>1, <4>2
    <3>5. row.slug # NoSlug /\ row # NoType BY <3>2, <3>3, FreeTypeRows
    <3>6. \A k \in TypeRows : k # i => etype[k].slug # row.slug BY <1>1, <2>3, <3>3 DEF SlugsApart
    <3>7. row.slug = NoSlug => row = NoType BY <3>5
    <3>8. \A k \in TypeRows : k # i => row = NoType \/ etype[k].slug # row.slug BY <3>6
    <3>9. \A b \in sold : b.id = i => row # NoType /\ row.slug = etype[i].slug BY <3>3, <3>5
    <3>10. row = NoType \/ row.slug = etype[i].slug \/ \A v \in Bookers : booker[v].id = i => i \in passedOn' BY <3>3
    <3>11. passedOn \subseteq passedOn' /\ passedOn' \subseteq TypeIds BY <1>3, <2>1
    <3>12. remover' = [remover EXCEPT ![a] = NoRequest] /\ UNCHANGED <<sold, booker>> BY <2>1
    <3> QED BY <3>1, <3>3, <3>7, <3>8, <3>9, <3>10, <3>11, <3>12, TypeWritten
  <2> QED BY <2>2, <2>3
<1>11. CASE DeleteEventType(a)
  <2> PICK i : i = r.id OBVIOUS
  <2>1. /\ etype' = IF i \in TypeRows /\ Unreferenced(i) THEN [etype EXCEPT ![i] = NoType] ELSE etype
        /\ remover' = [remover EXCEPT ![a] = NoRequest] /\ UNCHANGED <<sold, booker, passedOn>>
    BY <1>11 DEF DeleteEventType
  <2>2. CASE ~(i \in TypeRows /\ Unreferenced(i)) BY <1>8, <2>1, <2>2
  <2>3. CASE i \in TypeRows /\ Unreferenced(i)
    <3>1. i \in TypeIds BY <2>3 DEF TypeRows
    <3>2. \A b \in sold : b.id # i BY <2>3 DEF Unreferenced
    <3> QED BY <1>3, <2>1, <2>3, <3>1, <3>2, FreeTypeRows, TypeWritten
  <2> QED BY <2>2, <2>3
<1> QED BY <1>5, <1>6, <1>7, <1>9, <1>10, <1>11

LEMMA BookersKeep ==
  ASSUME TypesInv, NEW v \in Bookers, \/ BookType(v) \/ PickRefused(v) \/ \E i \in TypeIds : PickType(v, i)
  PROVE  TypesInv'
<1>1. TypesTypeOK /\ TypesAreWhole /\ PicksAreWhole /\ BookedTypesStay /\ BookedAsPicked /\ SlugsApart BY DEF TypesInv
<1> PICK p : p = booker[v] OBVIOUS
<1>2. PICK w \in PickShapes : /\ booker' = [booker EXCEPT ![v] = w]
                              /\ w = NoPick \/ (w.id \in TypeIds /\ w.slug \in Slugs /\ etype[w.id].slug = w.slug)
  <2>1. CASE BookType(v) \/ PickRefused(v) BY <2>1, FreeTypeRows DEF BookType, PickRefused
  <2>2. ASSUME NEW i \in TypeIds, PickType(v, i)
        PROVE  \E w \in PickShapes : /\ booker' = [booker EXCEPT ![v] = w]
                                     /\ w = NoPick \/ (w.id \in TypeIds /\ w.slug \in Slugs /\ etype[w.id].slug = w.slug)
    <3> PICK w : w = [id |-> i, slug |-> etype[i].slug] OBVIOUS
    <3>1. booker' = [booker EXCEPT ![v] = w] /\ etype[i] # NoType BY <2>2 DEF PickType, Pickable, TypeRows
    <3>2. etype[i] \in TypeShapes /\ etype[i].slug # NoSlug BY <1>1, <3>1, TypesTyped DEF TypesAreWhole
    <3>3. w \in PickShapes /\ w.id = i /\ w.slug = etype[i].slug /\ w.slug \in Slugs
      BY <3>2, FreeTypeRows DEF PickShapes, TypeShapes, TypeIds
    <3> QED BY <3>1, <3>3
  <2> QED BY <2>1, <2>2
<1>3. UNCHANGED <<etype, remover, passedOn>> BY DEF BookType, PickRefused, PickType
<1>4. /\ sold \subseteq sold'
      /\ \A b \in sold' : b \in sold \/ (b = p /\ p # NoPick /\ p.id \in TypeRows)
  BY DEF BookType, PickRefused, PickType
<1>5. p # NoPick => /\ p.id \in TypeIds /\ p.slug \in Slugs
                    /\ p.id \notin passedOn /\ etype[p.id] # NoType => etype[p.id].slug = p.slug
  BY <1>1 DEF PicksAreWhole
<1>6. p \in PickShapes BY <1>1, TypesTyped
<1>7. booker' \in [Bookers -> PickShapes] /\ booker'[v] = w /\ \A u \in Bookers : u # v => booker'[u] = booker[u]
  BY <1>1, <1>2, TypesTyped
<1>8. sold' \subseteq [id : TypeIds, slug : Slugs]
  <2>1. p # NoPick => p \in [id : TypeIds, slug : Slugs] BY <1>5, <1>6 DEF PickShapes
  <2> QED BY <1>1, <1>4, <2>1 DEF TypesTypeOK
<1>9. TypesTypeOK' BY <1>1, <1>3, <1>7, <1>8 DEF TypesTypeOK, PickShapes
<1>10. TypesAreWhole' /\ SlugsApart' BY <1>1, <1>3 DEF TypesAreWhole, SlugsApart, TypeRows
<1>11. PicksAreWhole' BY <1>1, <1>2, <1>3, <1>7 DEF PicksAreWhole
<1>12. BookedTypesStay' BY <1>1, <1>3, <1>4 DEF BookedTypesStay, TypeRows
<1>13. BookedAsPicked' BY <1>1, <1>3, <1>4, <1>5 DEF BookedAsPicked, TypeRows
<1> QED BY <1>9, <1>10, <1>11, <1>12, <1>13 DEF TypesInv

LEMMA TypesStep == ASSUME TypesInv, TypesNext PROVE TypesInv'
BY OwnerTypesKeep, BookersKeep DEF TypesNext

LEMMA TypesRest == ASSUME TypesInv, UNCHANGED typeVars PROVE TypesInv'
BY DEF TypesInv, typeVars, TypesTypeOK, TypesAreWhole, PicksAreWhole, BookedTypesStay, BookedAsPicked, SlugsApart, TypeRows

LEMMA TypesMean == ASSUME TypesInv PROVE EventTypesHold
BY DEF TypesInv, EventTypesHold
(* The components together: a step of one is a rest of the others, so that *)
(* the invariants of each hold of all of them.                             *)

\* A step of the studio is a step or a rest of each of its components.
LEMMA StudioOthersRest ==
  ASSUME [StudioNext]_<<focus, components>>
  PROVE  /\ [DocsNext]_docsVars /\ [LicenceNext]_licenceVars /\ [RetainerNext]_retainerVars
         /\ [OwnerMailNext]_ownerMailVars /\ [TextNext]_textVars /\ [LeadNext]_leadVars
         /\ [MirrorNext]_mirrorVars /\ [NoticesNext]_noticeVars /\ [LinkNext]_linkVars
         /\ [AnnounceNext]_announceVars /\ [HoursNext]_hoursVars /\ [TypesNext]_typeVars
         /\ [WorkNext]_workVars /\ [QuotesNext]_quoteVars /\ [FormsNext]_formVars
<1> USE DEF paperVars, messageVars, bookingVars, components
<1>1. CASE UNCHANGED <<focus, components>> BY <1>1
<1>2. CASE DocsNext /\ UNCHANGED restOfDocs BY <1>2 DEF restOfDocs
<1>3. CASE LicenceNext /\ UNCHANGED restOfLicences BY <1>3 DEF restOfLicences
<1>4. CASE RetainerNext /\ UNCHANGED restOfRetainer BY <1>4 DEF restOfRetainer
<1>5. CASE OwnerMailNext /\ UNCHANGED restOfMail BY <1>5 DEF restOfMail
<1>6. CASE TextNext /\ UNCHANGED restOfTexts BY <1>6 DEF restOfTexts
<1>7. CASE LeadNext /\ UNCHANGED restOfLeads BY <1>7 DEF restOfLeads
<1>8. CASE MirrorNext /\ UNCHANGED restOfMirror BY <1>8 DEF restOfMirror
<1>9. CASE NoticesNext /\ UNCHANGED restOfNotices BY <1>9 DEF restOfNotices
<1>10. CASE LinkNext /\ UNCHANGED restOfLink BY <1>10 DEF restOfLink
<1>11. CASE AnnounceNext /\ UNCHANGED restOfAnnounce BY <1>11 DEF restOfAnnounce
<1>12. CASE HoursNext /\ UNCHANGED restOfHours BY <1>12 DEF restOfHours
<1>13. CASE TypesNext /\ UNCHANGED restOfTypes BY <1>13 DEF restOfTypes
<1>14. CASE WorkNext /\ UNCHANGED restOfWork BY <1>14 DEF restOfWork
<1>15. CASE QuotesNext /\ UNCHANGED restOfQuotes BY <1>15 DEF restOfQuotes
<1>16. CASE FormsNext /\ UNCHANGED restOfForms BY <1>16 DEF restOfForms
<1> QED BY <1>1, <1>2, <1>3, <1>4, <1>5, <1>6, <1>7, <1>8, <1>9, <1>10, <1>11, <1>12, <1>13, <1>14, <1>15, <1>16 DEF StudioNext

\* What each followed component keeps, in the state the step leaves as in the one it finds.
PapersInv   == DocsInv /\ LicenceInv /\ LettersInv /\ WorkInv /\ QuotesInv
MessagesInv == TextInv /\ LeadInv /\ FormsInv
BookingsInv == MirrorInv /\ MailingInv /\ LinkInv /\ HoursInv /\ TypesInv
StudioInv   == PapersInv /\ MessagesInv /\ BookingsInv

\* The invariants of the components are inductive in the composition of all of them.
THEOREM StudioInductive == StudioSpec => []StudioInv
<1>1. StudioInit => StudioInv
  <2> SUFFICES ASSUME StudioInit PROVE StudioInv OBVIOUS
  <2>1. PapersInv
    BY InitDocsInv, LicenceInitially, LettersInitially, WorkInitially, QuotesInitially DEF StudioInit, PapersInv
  <2>2. MessagesInv BY TextInitially, LeadInitially, FormsInitially DEF StudioInit, MessagesInv
  <2>3. BookingsInv
    BY MirrorInitially, NoticesInitially, LinkInitially, HoursInitially, TypesInitially DEF StudioInit, BookingsInv
  <2> QED BY <2>1, <2>2, <2>3 DEF StudioInv
<1>2. StudioInv /\ [StudioNext]_<<focus, components>> => StudioInv'
  <2> SUFFICES ASSUME StudioInv, [StudioNext]_<<focus, components>> PROVE StudioInv' OBVIOUS
  <2> USE DEF StudioInv
  <2>1. DocsInv' BY StudioOthersRest, DocsStepOK, DocsRests DEF PapersInv
  <2>2. LicenceInv' BY StudioOthersRest, ClientTreeAssumption, LicenceStepInv DEF PapersInv
  <2>3. LettersInv' BY StudioOthersRest, LettersStep, LettersRest DEF PapersInv
  <2>4. WorkInv' BY StudioOthersRest, WorkStep, WorkRests DEF PapersInv
  <2>5. QuotesInv' BY StudioOthersRest, QuotesStep, QuotesRest DEF PapersInv
  <2>6. TextInv' BY StudioOthersRest, TextStep, TextRests DEF MessagesInv
  <2>7. LeadInv' BY StudioOthersRest, LeadStep, LeadRests DEF MessagesInv
  <2>8. FormsInv' BY StudioOthersRest, FormsStep, FormsRest DEF MessagesInv
  <2>9. MirrorInv' BY StudioOthersRest, MirrorStep, MirrorRests DEF BookingsInv
  <2>10. MailingInv' BY StudioOthersRest, NoticesStep, NoticesRest DEF BookingsInv
  <2>11. LinkInv' BY StudioOthersRest, LinkStep, LinkRests DEF BookingsInv
  <2>12. HoursInv' BY StudioOthersRest, HoursStep, HoursRest DEF BookingsInv
  <2>13. TypesInv' BY StudioOthersRest, TypesStep, TypesRest DEF BookingsInv
  <2>14. PapersInv' BY <2>1, <2>2, <2>3, <2>4, <2>5 DEF PapersInv
  <2>15. MessagesInv' BY <2>6, <2>7, <2>8 DEF MessagesInv
  <2>16. BookingsInv' BY <2>9, <2>10, <2>11, <2>12, <2>13 DEF BookingsInv
  <2> QED BY <2>14, <2>15, <2>16
<1> QED BY <1>1, <1>2, PTL DEF StudioSpec

\* Retainers and the owner's mail take, in the composition, the steps of their own
\* specifications, so that what is proved of those holds of it.
LEMMA StudioFollows == StudioSpec => RetainerSpec /\ OwnerMailSpec
<1>1. StudioInit => RetainerInit /\ OwnerMailInit BY DEF StudioInit
<1>2. [StudioNext]_<<focus, components>> => [RetainerNext]_retainerVars /\ [OwnerMailNext]_ownerMailVars
  BY StudioOthersRest
<1> QED BY <1>1, <1>2, PTL DEF StudioSpec, RetainerSpec, OwnerMailSpec

\* Every variable of every component keeps its type, however the components' steps
\* follow each other.
THEOREM StudioTypes == StudioSpec => []StudioTypeOK
<1>1. StudioInv /\ RetainerTypeOK /\ OwnerMailTypeOK => StudioTypeOK
  <2> SUFFICES ASSUME StudioInv, RetainerTypeOK, OwnerMailTypeOK PROVE StudioTypeOK OBVIOUS
  <2>1. DocsTypeOK BY DEF StudioInv, PapersInv, DocsInv
  <2>2. LicenceTypeOK
    BY DEF StudioInv, PapersInv, LicenceInv, TreeInv, TypeInv, RowsOK, ClerksOK, TrailOK, LicenceRows, ClerkRows, LicenceTypeOK
  <2>3. AnnounceTypeOK /\ WorkTypeOK /\ QuotesTypeOK BY DEF StudioInv, PapersInv, LettersInv, WorkInv, QuotesInv
  <2>4. TextTypeOK /\ LeadTypeOK BY DEF StudioInv, MessagesInv, TextInv, LeadInv
  <2>5. FormsTypeOK BY FormsMean DEF StudioInv, MessagesInv
  <2>6. MirrorTypeOK /\ NoticesTypeOK BY MirrorMeans, NoticesMean DEF StudioInv, BookingsInv
  <2>7. LinkTypeOK /\ HoursTypeOK /\ TypesTypeOK BY DEF StudioInv, BookingsInv, LinkInv, HoursInv, TypesInv
  <2> QED BY <2>1, <2>2, <2>3, <2>4, <2>5, <2>6, <2>7 DEF StudioTypeOK
<1> QED BY <1>1, StudioInductive, StudioFollows, RetainerTypeCorrect, OwnerMailTypeCorrect, PTL

\* One thread a number, nothing new hidden, no note lost; pages are known, mirrored, and a
\* client's address is theirs; a list is written to once, and leavers are not; what a
\* visitor submits is kept with the questions it answers; a project's page tells its money
\* and its delivery; a client's quote is theirs and noticed (app/public/sms_webhook.py,
\* app/admin/studio.py, app/announcements.py, app/public/forms.py, app/notion_sync.py,
\* app/public/docs.py).
THEOREM StudioLeadsAreKept == StudioSpec => []LeadsAreKept
<1>1. StudioInv => LeadsAreKept BY TextMeans, LeadsMean, LettersMean, FormsMean, WorkMeans, QuotesMean
  DEF StudioInv, PapersInv, MessagesInv, LeadsAreKept
<1> QED BY <1>1, StudioInductive, PTL

\* Calendars, pages and mails end with the booking that stands, the answers used are the
\* linked account's, the times offered are open and a booking is for the type picked
\* (app/gcal.py, app/booking_notify.py, app/notion_sync.py, app/scheduling.py,
\* app/admin/scheduling.py, app/public/scheduling.py).
THEOREM StudioCalendarsAgree == StudioSpec => []CalendarsAgree
<1>1. StudioInv => CalendarsAgree
  BY MirrorMeans, NoticesMean, LinkMeans, HoursMean, TypesMean DEF StudioInv, BookingsInv, CalendarsAgree
<1> QED BY <1>1, StudioInductive, PTL
=============================================================================
