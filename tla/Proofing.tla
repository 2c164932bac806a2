------------------------------ MODULE Proofing ------------------------------
(***************************************************************************)
(* The picks of a gallery's visitors (app/public/gallery.py, the sections  *)
(* of app/admin/gallery_sections.py, the cover and the deletions of        *)
(* app/admin/galleries.py) in one gallery whose client has a portal.       *)
(*                                                                         *)
(* A visitor circles photos up to the target of their section while the    *)
(* studio sorts, retargets and deletes.  Each query is a step of its own;  *)
(* favorites has the primary key (visitor, asset) and falls with either,   *)
(* galleries.cover_asset_id is a number no foreign key keeps.              *)
(***************************************************************************)
EXTENDS Naturals, FiniteSetsExt

CONSTANTS
  Photos, Sections, Visitors,  \* rows of assets, sections and visitors
  Taps, Desks,                 \* threads serving the visitors and the studio
  MaxTarget,                   \* bound: the largest proofing target
  NoPhoto, NoSection           \* SQL NULL

ASSUME ProofingAssumption ==
  /\ MaxTarget \in Nat /\ NoPhoto \notin Photos /\ NoSection \notin Sections
  /\ IsFiniteSet(Photos) /\ IsFiniteSet(Sections)

VARIABLES
  shown,     \* the gallery: [there, published, expired, cover]
  section,   \* rows: [there, target]; the target 0 is NULL
  shot,      \* rows of ready photos: [there, section]
  picks,     \* favorites: pairs of a visitor and a photo
  tap,       \* each visitor's request: its place and what it read
  desk,      \* each request of the studio: likewise
  \* history
  crowd,     \* pairs of a visitor and a section whose count something else moved
  bareCover, \* the cover was set while its photo was being deleted, or the reverse
  slipped,   \* picks made while a deletion that had counted none was under way
  dropped    \* picks a deletion without force took

proofVars == <<shown, section, shot, picks, tap, desk, crowd, bareCover, slipped, dropped>>

NoTap  == [at |-> "idle", visitor |-> NoPhoto, photo |-> NoPhoto, section |-> NoSection, target |-> 0]
NoDesk == [at |-> "idle", photo |-> NoPhoto, cover |-> NoPhoto]

ProofInit ==
  /\ shown = [there |-> TRUE, published |-> TRUE, expired |-> FALSE, cover |-> NoPhoto]
  /\ section = [s \in Sections |-> [there |-> TRUE, target |-> 0]]
  /\ shot \in [Photos -> {[there |-> TRUE, section |-> s] : s \in Sections}]
  /\ picks = {}
  /\ tap = [t \in Taps |-> NoTap] /\ desk = [d \in Desks |-> NoDesk]
  /\ crowd = {} /\ bareCover = FALSE /\ slipped = {} /\ dropped = {}

-----------------------------------------------------------------------------
(* What a visitor has picked *)

Picked(v, s) == {p \in Photos : <<v, p>> \in picks /\ shot[p].section = s}
Targeted     == {s \in Sections : section[s].there /\ section[s].target > 0}

\* _proof_status: the label of the page, the sums over the targeted sections.
TowardsMut(v, s) == Cardinality(Picked(v, s))
Towards(v, s) ==
  LET n == Cardinality(Picked(v, s))
  IN IF n < section[s].target THEN n ELSE section[s].target
TargetOf(s)  == section[s].target
Remaining(v) == LET toward(s) == Towards(v, s)
                IN MapThenSumSet(TargetOf, Targeted) - MapThenSumSet(toward, Targeted)
Complete(v)  == \A s \in Targeted : Cardinality(Picked(v, s)) >= section[s].target

-----------------------------------------------------------------------------
(* toggle_fav *)

\* Someone else of the same visitor, or the studio, is about to move the count.
Crowds(v, s) == \E t \in Taps : tap[t].at # "idle" /\ tap[t].visitor = v /\ tap[t].section = s
TapEnds(t)   == tap' = [tap EXCEPT ![t] = NoTap]
RestOfTap    == UNCHANGED <<shown, section, shot, desk, bareCover, dropped>>

\* The gates and the photo's row with the target of its section.
Tap(t) ==
  /\ tap[t].at = "idle" /\ shown.there /\ shown.published /\ ~shown.expired
  /\ \E v \in Visitors, p \in Photos :
       /\ shot[p].there
       /\ tap' = [tap EXCEPT ![t] =
            [at |-> "look", visitor |-> v, photo |-> p, section |-> shot[p].section,
             target |-> IF shot[p].section = NoSection THEN 0 ELSE section[shot[p].section].target]]
       /\ crowd' = IF Crowds(v, shot[p].section) THEN crowd \cup {<<v, shot[p].section>>} ELSE crowd
  /\ UNCHANGED <<picks, slipped>> /\ RestOfTap

Look(t) ==
  /\ tap[t].at = "look"
  /\ tap' = [tap EXCEPT ![t].at =
               IF <<tap[t].visitor, tap[t].photo>> \in picks THEN "uncircle"
               ELSE IF tap[t].target > 0 THEN "count" ELSE "circle"]
  /\ UNCHANGED <<picks, crowd, slipped>> /\ RestOfTap

Uncircle(t) ==
  /\ tap[t].at = "uncircle"
  /\ picks' = picks \ {<<tap[t].visitor, tap[t].photo>>}
  /\ TapEnds(t) /\ UNCHANGED <<crowd, slipped>> /\ RestOfTap

\* The cap, against the section and the target the row was read with.
FullMut(n, target) == n > target
Full(n, target)    == n >= target
Count(t) ==
  /\ tap[t].at = "count"
  /\ IF Full(Cardinality(Picked(tap[t].visitor, tap[t].section)), tap[t].target)
     THEN TapEnds(t) ELSE tap' = [tap EXCEPT ![t].at = "circle"]
  /\ UNCHANGED <<picks, crowd, slipped>> /\ RestOfTap

\* The insert fails when the pick is there or its photo is gone.
Circle(t) ==
  LET pick == <<tap[t].visitor, tap[t].photo>> IN
  /\ tap[t].at = "circle"
  /\ picks' = IF shot[tap[t].photo].there THEN picks \cup {pick} ELSE picks
  /\ slipped' = IF \E d \in Desks : desk[d].at = "delete" THEN slipped \cup {pick} ELSE slipped
  /\ TapEnds(t) /\ UNCHANGED crowd /\ RestOfTap

-----------------------------------------------------------------------------
(* Sections *)

RestOfSorting == UNCHANGED <<shown, picks, tap, desk, bareCover, slipped, dropped>>

\* set_section_proof.  A target may come below what is picked.
Overtakes(s, n) ==
  {<<v, s>> : v \in {w \in Visitors : n > 0 /\ (Cardinality(Picked(w, s)) > n \/ Crowds(w, s))}}
SetSectionProof(s, n) ==
  /\ section[s].there
  /\ section' = [section EXCEPT ![s].target = n]
  /\ crowd' = crowd \cup Overtakes(s, n)
  /\ UNCHANGED shot /\ RestOfSorting

\* move_asset, bulk_move_assets: one transaction, the section checked in it.  The
\* photo takes its picks along.
MoveAssets(P, s) ==
  /\ s # NoSection => section[s].there
  /\ shot' = [p \in Photos |-> IF p \in P /\ shot[p].there THEN [shot[p] EXCEPT !.section = s] ELSE shot[p]]
  /\ crowd' = crowd \cup {<<v, s>> : v \in {w \in Visitors : \E p \in P :
                 <<w, p>> \in picks \/ \E t \in Taps : tap[t].visitor = w /\ tap[t].photo = p}}
  /\ UNCHANGED section /\ RestOfSorting

\* ON DELETE SET NULL.
DeleteSection(s) ==
  /\ section[s].there
  /\ section' = [section EXCEPT ![s] = [there |-> FALSE, target |-> 0]]
  /\ shot' = [p \in Photos |-> IF shot[p].section = s THEN [shot[p] EXCEPT !.section = NoSection] ELSE shot[p]]
  /\ UNCHANGED crowd /\ RestOfSorting

-----------------------------------------------------------------------------
(* The cover and the deletions *)

RestOfDesk == UNCHANGED <<section, tap, crowd>>
DeskEnds(d) == desk' = [desk EXCEPT ![d] = NoDesk]

\* set_cover reads the gallery and checks the photo, then writes.
SetCoverRead(d) ==
  /\ desk[d].at = "idle" /\ shown.there
  /\ \E p \in {q \in Photos : shot[q].there} :
       desk' = [desk EXCEPT ![d] = [at |-> "cover", photo |-> p, cover |-> shown.cover]]
  /\ UNCHANGED <<shown, shot, picks, bareCover, slipped, dropped>> /\ RestOfDesk

SetCoverWrite(d) ==
  /\ desk[d].at = "cover"
  /\ shown' = [shown EXCEPT !.cover = IF desk[d].cover = desk[d].photo THEN NoPhoto ELSE desk[d].photo]
  /\ bareCover' = (bareCover \/ ~shot[desk[d].photo].there)
  /\ DeskEnds(d) /\ UNCHANGED <<shot, picks, slipped, dropped>> /\ RestOfDesk

\* delete_asset reads the row and removes the files, then the row with its picks
\* and, in the same transaction, the cover that names it.
DeleteAssetFiles(d) ==
  /\ desk[d].at = "idle"
  /\ \E p \in {q \in Photos : shot[q].there} :
       desk' = [desk EXCEPT ![d] = [at |-> "row", photo |-> p, cover |-> NoPhoto]]
  /\ UNCHANGED <<shown, shot, picks, bareCover, slipped, dropped>> /\ RestOfDesk

CoverAfterMut(p) == shown.cover
CoverAfter(p)    == IF shown.cover = p THEN NoPhoto ELSE shown.cover
DeleteAssetRow(d) ==
  LET p == desk[d].photo IN
  /\ desk[d].at = "row"
  /\ shot' = [shot EXCEPT ![p] = [there |-> FALSE, section |-> NoSection]]
  /\ picks' = {k \in picks : k[2] # p}
  /\ shown' = IF shown.there THEN [shown EXCEPT !.cover = CoverAfter(p)] ELSE shown
  /\ DeskEnds(d) /\ UNCHANGED <<bareCover, slipped, dropped>> /\ RestOfDesk

\* delete_gallery refuses a published one; without force it counts the picks first.
HeldBackMut == FALSE
HeldBack    == picks # {}
DeleteGalleryCheck(d) ==
  /\ desk[d].at = "idle" /\ shown.there /\ ~shown.published
  /\ \E force \in BOOLEAN :
       /\ force \/ ~HeldBack
       /\ desk' = [desk EXCEPT ![d].at = IF force THEN "delete forced" ELSE "delete"]
  /\ UNCHANGED <<shown, shot, picks, bareCover, slipped, dropped>> /\ RestOfDesk

\* The rows cascade; the files and the archives follow.
DeleteGallery(d) ==
  /\ desk[d].at \in {"delete", "delete forced"}
  /\ shown' = [there |-> FALSE, published |-> FALSE, expired |-> FALSE, cover |-> NoPhoto]
  /\ shot' = [p \in Photos |-> [there |-> FALSE, section |-> NoSection]]
  /\ section' = [s \in Sections |-> [there |-> FALSE, target |-> 0]]
  /\ picks' = {}
  /\ dropped' = IF desk[d].at = "delete" THEN dropped \cup picks ELSE dropped
  /\ DeskEnds(d) /\ UNCHANGED <<tap, crowd, bareCover, slipped>>

\* update_gallery publishes, withdraws and dates; the days pass.
Publish(b)  == /\ shown.there /\ shown' = [shown EXCEPT !.published = b]
               /\ UNCHANGED <<section, shot, picks, tap, desk, crowd, bareCover, slipped, dropped>>
Expire(b)   == /\ shown.there /\ shown' = [shown EXCEPT !.expired = b]
               /\ UNCHANGED <<section, shot, picks, tap, desk, crowd, bareCover, slipped, dropped>>

\* A kill: every request ends where it was; what it wrote stays.
ProofKill ==
  /\ \E t \in Taps : tap[t].at # "idle"
  /\ tap' = [t \in Taps |-> NoTap] /\ desk' = [d \in Desks |-> NoDesk]
  /\ UNCHANGED <<shown, section, shot, picks, crowd, bareCover, slipped, dropped>>

ProofNext ==
  \/ \E t \in Taps : Tap(t) \/ Look(t) \/ Uncircle(t) \/ Count(t) \/ Circle(t)
  \/ \E s \in Sections : \/ \E n \in 0..MaxTarget : SetSectionProof(s, n)
                         \/ DeleteSection(s)
  \/ \E s \in Sections \cup {NoSection}, P \in SUBSET Photos : MoveAssets(P, s)
  \/ \E d \in Desks : \/ SetCoverRead(d) \/ SetCoverWrite(d) \/ DeleteAssetFiles(d) \/ DeleteAssetRow(d)
                      \/ DeleteGalleryCheck(d) \/ DeleteGallery(d)
  \/ \E b \in BOOLEAN : Publish(b) \/ Expire(b)
  \/ ProofKill

ProofSpec == ProofInit /\ [][ProofNext]_proofVars

-----------------------------------------------------------------------------
(* Properties *)

\* Types, and the foreign keys: a pick is of a photo that is there.
ProofTypeOK ==
  /\ shown \in [there : BOOLEAN, published : BOOLEAN, expired : BOOLEAN, cover : Photos \cup {NoPhoto}]
  /\ section \in [Sections -> [there : BOOLEAN, target : 0..MaxTarget]]
  /\ shot \in [Photos -> [there : BOOLEAN, section : Sections \cup {NoSection}]]
  /\ picks \subseteq Visitors \X {p \in Photos : shot[p].there}
  /\ \A p \in Photos : shot[p].section # NoSection => section[shot[p].section].there

\* A visitor has more picks in a section than its target only where two of their
\* taps overlapped, a photo came in with its picks or the target came down.
\* Concerns toggle_fav, whose count, cap and insert are three statements.
CapHolds ==
  \A v \in Visitors, s \in Targeted :
    <<v, s>> \in crowd \/ Cardinality(Picked(v, s)) <= section[s].target

\* The page says that nothing remains to be picked exactly when every targeted
\* section has its picks, also where another section has too many.
\* Concerns _proof_status.
LabelIsTrue ==
  \A v \in Visitors : Remaining(v) = 0 <=> Complete(v)

\* The cover is a photo of the gallery unless its choice and its deletion
\* overlapped.  Concerns set_cover and delete_asset: no foreign key keeps it.
CoverIsThere ==
  bareCover \/ shown.cover = NoPhoto \/ shot[shown.cover].there

\* Without force, a deletion takes no pick but one made after it had counted.
\* Concerns delete_gallery and _portal_fav_count.
OnlyLatePicksDropped == dropped \subseteq slipped
=============================================================================
