------------------------------- MODULE EventTypes -------------------------------
(***************************************************************************)
(* The session types visitors book: made, switched off and on, and deleted *)
(* by the owner (app/admin/scheduling.py), picked and booked by visitors   *)
(* (app/public/scheduling.py).  A visitor's request reads the type once    *)
(* and asks Google for the calendar before it inserts the booking, so the  *)
(* type may change, go, or give its id to another type in between.         *)
(* Whether a slot is free is Booking's and Hours' subject.                 *)
(***************************************************************************)
EXTENDS Naturals, FiniteSets

CONSTANTS
  MaxTypes,  \* bound: ids of types
  Slugs,     \* what a type is, by the name it is booked by
  Bookers,   \* visitors' booking requests
  Removers,  \* the owner's requests to make, switch and delete types
  NoSlug

ASSUME EventTypesAssumption == MaxTypes \in Nat /\ NoSlug \notin Slugs

TypeIds == 1..MaxTypes

VARIABLES
  etype,   \* each type: [slug, active], NoSlug if the id has none
  sold,    \* bookings made: [id, slug], the type's id and what the visitor picked
  booker,  \* each booking request: [id, slug], the type it read
  remover, \* each request of the owner: [at, id, slug, to]
  \* history
  passedOn \* ids given to another type while a visitor was booking the first

typeVars == <<etype, sold, booker, remover, passedOn>>

NoType  == [slug |-> NoSlug, active |-> FALSE]
NoPick  == [id |-> 0, slug |-> NoSlug]
NoRequest  == [at |-> "idle", id |-> 0, slug |-> NoSlug, to |-> FALSE]

TypesInit ==
  /\ etype = [i \in TypeIds |-> NoType]
  /\ sold = {}
  /\ booker = [v \in Bookers |-> NoPick]
  /\ remover = [a \in Removers |-> NoRequest]
  /\ passedOn = {}

TypeRows == {i \in TypeIds : etype[i] # NoType}

-----------------------------------------------------------------------------
(* The owner *)

\* The slug must be free when it is looked up; the column is unique as well.
SlugFreeMut(s) == TRUE
SlugFree(s) == \A i \in TypeRows : etype[i].slug # s

CreateCheck(a, s) ==
  /\ remover[a] = NoRequest
  /\ \A i \in TypeRows : etype[i].slug # s
  /\ remover' = [remover EXCEPT ![a] = [NoRequest EXCEPT !.at = "create", !.slug = s]]
  /\ UNCHANGED <<etype, sold, booker, passedOn>>

\* The id is one more than the largest there is: a deleted type's may come again.
NextTypeId(i) == i = 1 + (IF TypeRows = {} THEN 0 ELSE CHOOSE m \in TypeRows : \A k \in TypeRows : k <= m)

CreateEvent(a) ==
  /\ remover[a].at = "create"
  /\ \/ /\ SlugFree(remover[a].slug)
        /\ \E i \in TypeIds :
             /\ NextTypeId(i)
             /\ etype' = [etype EXCEPT ![i] = [slug |-> remover[a].slug, active |-> TRUE]]
             /\ passedOn' = IF \E v \in Bookers : booker[v].id = i THEN passedOn \cup {i} ELSE passedOn
     \/ ~SlugFree(remover[a].slug) /\ UNCHANGED <<etype, passedOn>>
  /\ remover' = [remover EXCEPT ![a] = NoRequest]
  /\ UNCHANGED <<sold, booker>>

\* The switch is read, and its opposite written.
ToggleRead(a, i) ==
  /\ remover[a] = NoRequest /\ i \in TypeRows
  /\ remover' = [remover EXCEPT ![a] = [NoRequest EXCEPT !.at = "toggle", !.id = i, !.to = ~etype[i].active]]
  /\ UNCHANGED <<etype, sold, booker, passedOn>>

ToggleEvent(a) ==
  LET i == remover[a].id IN
  /\ remover[a].at = "toggle"
  /\ etype' = IF i \in TypeRows THEN [etype EXCEPT ![i].active = remover[a].to] ELSE etype
  /\ remover' = [remover EXCEPT ![a] = NoRequest]
  /\ UNCHANGED <<sold, booker, passedOn>>

\* A type that was booked is not deleted: the bookings are counted, and counted on
\* by the foreign key when one was made since.
DeleteCheck(a, i) ==
  /\ remover[a] = NoRequest /\ i \in TypeRows
  /\ \A b \in sold : b.id # i
  /\ remover' = [remover EXCEPT ![a] = [NoRequest EXCEPT !.at = "delete", !.id = i]]
  /\ UNCHANGED <<etype, sold, booker, passedOn>>

UnreferencedMut(i) == TRUE
Unreferenced(i) == \A b \in sold : b.id # i

DeleteEventType(a) ==
  LET i == remover[a].id IN
  /\ remover[a].at = "delete"
  /\ etype' = IF i \in TypeRows /\ Unreferenced(i) THEN [etype EXCEPT ![i] = NoType] ELSE etype
  /\ remover' = [remover EXCEPT ![a] = NoRequest]
  /\ UNCHANGED <<sold, booker, passedOn>>

-----------------------------------------------------------------------------
(* The visitors *)

\* event_by_slug: only what is switched on can be picked.
Pickable(i) == i \in TypeRows /\ etype[i].active

PickType(v, i) ==
  /\ booker[v] = NoPick /\ Pickable(i)
  /\ booker' = [booker EXCEPT ![v] = [id |-> i, slug |-> etype[i].slug]]
  /\ UNCHANGED <<etype, sold, remover, passedOn>>

\* The booking names the type by the id that was read, which must be there.
BookType(v) ==
  /\ booker[v] # NoPick
  /\ sold' = IF booker[v].id \in TypeRows THEN sold \cup {booker[v]} ELSE sold
  /\ booker' = [booker EXCEPT ![v] = NoPick]
  /\ UNCHANGED <<etype, remover, passedOn>>

\* The slot was taken, or the calendar is down.
PickRefused(v) ==
  /\ booker[v] # NoPick
  /\ booker' = [booker EXCEPT ![v] = NoPick]
  /\ UNCHANGED <<etype, sold, remover, passedOn>>

TypesNext ==
  \/ \E a \in Removers :
       \/ CreateEvent(a) \/ ToggleEvent(a) \/ DeleteEventType(a)
       \/ \E s \in Slugs : CreateCheck(a, s)
       \/ \E i \in TypeIds : ToggleRead(a, i) \/ DeleteCheck(a, i)
  \/ \E v \in Bookers : BookType(v) \/ PickRefused(v) \/ \E i \in TypeIds : PickType(v, i)

TypesSpec == TypesInit /\ [][TypesNext]_typeVars

-----------------------------------------------------------------------------
TypesTypeOK ==
  /\ etype \in [TypeIds -> [slug : Slugs \cup {NoSlug}, active : BOOLEAN]]
  /\ sold \subseteq [id : TypeIds, slug : Slugs]
  /\ booker \in [Bookers -> [id : 0..MaxTypes, slug : Slugs \cup {NoSlug}]]
  /\ remover \in [Removers -> [at : {"idle", "create", "toggle", "delete"}, id : 0..MaxTypes,
                               slug : Slugs \cup {NoSlug}, to : BOOLEAN]]
  /\ passedOn \subseteq TypeIds

\* 'Deactivate instead of orphaning history' (app/admin/scheduling.py:585): a
\* booking's type stays, even when it was booked while its deletion was at work.
BookedTypesStay == \A b \in sold : etype[b.id] # NoType

\* A booking is for what its visitor picked, unless the type was deleted and its id
\* given to another before the booking was inserted.
BookedAsPicked == \A b \in sold : b.id \notin passedOn => etype[b.id].slug = b.slug

\* A slug leads to one type, however two of them were made.
SlugsApart == \A i, k \in TypeRows : etype[i].slug = etype[k].slug => i = k

EventTypesHold == BookedTypesStay /\ BookedAsPicked /\ SlugsApart
=============================================================================
