----------------------------- MODULE ClientTree -----------------------------
(***************************************************************************)
(* The clients and their hierarchy (app/clients.py and the client routes   *)
(* of app/admin/studio.py), with what hangs on a client: galleries and     *)
(* bookings that name it, and its brand kits, each a row and a logo file   *)
(* (app/admin/studio_brand.py, app/brand_kits.py).                         *)
(*                                                                         *)
(* The database enforces its foreign keys: a row that names a client needs *)
(* the client, a parent with children and a client with a booking cannot   *)
(* be deleted, and a client's rows go with it.  Files are outside.         *)
(***************************************************************************)
EXTENDS Naturals, FiniteSets

CONSTANTS ClientIds, Galleries, Appointments, Kits,  \* row ids
          TreeRequests,                              \* requests of the studio at work at once
          NoClient, NoKit

ASSUME ClientTreeAssumption == IsFiniteSet(ClientIds) /\ NoClient \notin ClientIds /\ NoKit \notin Kits

VARIABLES
  clients,  \* ids of the clients there are
  parent,   \* clients.parent_id
  gallery,  \* galleries.client_id
  booked,   \* bookings.client_id
  kit,      \* each brand kit: [home, row, active, file]
  errand,   \* each request: [at, client, to, kit, stale]
  \* history
  tangled,  \* TRUE once a parent was set although the tree had changed since the check
  halted    \* kits whose deletion, or whose client's, stopped after the file

treeVars == <<clients, parent, gallery, booked, kit, errand, tangled, halted>>

AtRest == [at |-> "idle", client |-> NoClient, to |-> NoClient, kit |-> NoKit, stale |-> FALSE]

TreeInit ==
  /\ clients = {}
  /\ parent = [c \in ClientIds |-> NoClient]
  /\ gallery = [g \in Galleries |-> NoClient]
  /\ booked = [b \in Appointments |-> NoClient]
  /\ kit = [k \in Kits |-> [home |-> NoClient, row |-> FALSE, active |-> FALSE, file |-> FALSE]]
  /\ errand = [r \in TreeRequests |-> AtRest]
  /\ tangled = FALSE
  /\ halted = {}

-----------------------------------------------------------------------------
\* The walk up: the client itself at depth 0, its parent at depth 1.
Above(c) ==
  LET up[n \in Nat] == IF n = 0 THEN c
                       ELSE IF up[n - 1] = NoClient THEN NoClient ELSE parent[up[n - 1]]
  IN  up

\* The walk down, by depth.
Below(c) ==
  LET down[n \in Nat] == IF n = 0 THEN {c} ELSE {d \in clients : parent[d] \in down[n - 1]}
  IN  down

Depths == 1..Cardinality(ClientIds)

\* Mutant of Descendants: the children only.
DescendantsMut(c) == {d \in clients : parent[d] = c}

\* ancestor_ids and descendant_ids, as sets: neither returns the client itself.
Ancestors(c) == {Above(c)[n] : n \in Depths} \ {NoClient, c}
Descendants(c) == (UNION {Below(c)[n] : n \in Depths}) \ {c}

\* The walk counts its depth, so on a cycle each row is new and UNION removes none.
WalkEnds(c) == \A n \in Depths : Above(c)[n] # c
Acyclic == \A c \in clients : WalkEnds(c)

Children(c) == {d \in clients : parent[d] = c}

-----------------------------------------------------------------------------
Sets(r, task) == errand' = [errand EXCEPT ![r] = task]
Proceeds(r, at) == errand' = [errand EXCEPT ![r].at = at]
Finishes(r) == Sets(r, AtRest)

CreateClient(c) ==
  /\ c \notin clients
  /\ clients' = clients \cup {c}
  /\ UNCHANGED <<parent, gallery, booked, kit, errand, tangled, halted>>

\* The new parent is checked against the tree as it is read, and written in a
\* second statement.  On a cycle the check does not return.
SetParent(r, c, p) ==
  \/ /\ errand[r] = AtRest
     /\ {c, p} \subseteq clients /\ p # c
     /\ WalkEnds(c) => p \notin Descendants(c)
     /\ Sets(r, [AtRest EXCEPT !.at = IF WalkEnds(c) THEN "reparent" ELSE "walking",
                               !.client = c, !.to = p])
     /\ UNCHANGED <<clients, parent, gallery, booked, kit, tangled, halted>>
  \/ /\ errand[r].at = "reparent" /\ errand[r].client = c /\ errand[r].to = p
     /\ {c, p} \subseteq clients
     /\ parent' = [parent EXCEPT ![c] = p]
     /\ tangled' = (tangled \/ errand[r].stale)
     /\ errand' = [q \in TreeRequests |->
                     IF q = r THEN AtRest
                     ELSE [errand[q] EXCEPT !.stale = @ \/ errand[q].at = "reparent"]]
     /\ UNCHANGED <<clients, gallery, booked, kit, halted>>

ClearParent(c) ==
  /\ c \in clients
  /\ parent' = [parent EXCEPT ![c] = NoClient]
  /\ UNCHANGED <<clients, gallery, booked, kit, errand, tangled, halted>>

\* A gallery is linked by its form, a booking by the confirmation's callback.
LinkGallery(g, c) ==
  /\ c \in clients
  /\ gallery' = [gallery EXCEPT ![g] = c]
  /\ UNCHANGED <<clients, parent, booked, kit, errand, tangled, halted>>

LinkBooking(b, c) ==
  /\ c \in clients
  /\ booked' = [booked EXCEPT ![b] = c]
  /\ UNCHANGED <<clients, parent, gallery, kit, errand, tangled, halted>>

\* delete_client: the children are a hard blocker, the rest only unless forced.
\* Galleries are unlinked, the brand folder is removed, then the row is.
DeleteClientCheck(r, c) ==
  /\ errand[r] = AtRest
  /\ c \in clients /\ Children(c) = {}
  /\ Sets(r, [AtRest EXCEPT !.at = "unlink", !.client = c])
  /\ UNCHANGED <<clients, parent, gallery, booked, kit, tangled, halted>>

DeleteClientUnlink(r) ==
  /\ errand[r].at = "unlink"
  /\ gallery' = [g \in Galleries |-> IF gallery[g] = errand[r].client THEN NoClient ELSE gallery[g]]
  /\ Proceeds(r, "rmtree")
  /\ UNCHANGED <<clients, parent, booked, kit, tangled, halted>>

DeleteClientFiles(r) ==
  /\ errand[r].at = "rmtree"
  /\ kit' = [k \in Kits |-> IF kit[k].home = errand[r].client
                            THEN [kit[k] EXCEPT !.file = FALSE] ELSE kit[k]]
  /\ Proceeds(r, "delete client")
  /\ UNCHANGED <<clients, parent, gallery, booked, tangled, halted>>

Deletable(c) ==
  /\ Children(c) = {}
  /\ \A b \in Appointments : booked[b] # c
  /\ \A g \in Galleries : gallery[g] # c

\* The delete, with its cascade; a key that still points at the client refuses it.
DeleteClientRow(r) ==
  LET c == errand[r].client IN
  /\ errand[r].at = "delete client"
  /\ Deletable(c)
  /\ clients' = clients \ {c}
  /\ parent' = [parent EXCEPT ![c] = NoClient]
  /\ kit' = [k \in Kits |-> IF kit[k].home = c
                            THEN [kit[k] EXCEPT !.row = FALSE, !.active = FALSE] ELSE kit[k]]
  /\ Finishes(r)
  /\ UNCHANGED <<gallery, booked, tangled, halted>>

-----------------------------------------------------------------------------
\* A logo is streamed to the client's folder and then gets its row.
UploadKit(r, c, k) ==
  \/ /\ errand[r] = AtRest
     /\ c \in clients /\ kit[k].home = NoClient
     /\ \A q \in TreeRequests : errand[q].kit # k
     /\ kit' = [kit EXCEPT ![k].home = c, ![k].file = TRUE]
     /\ Sets(r, [AtRest EXCEPT !.at = "insert kit", !.client = c, !.kit = k])
     /\ UNCHANGED <<clients, parent, gallery, booked, tangled, halted>>
  \/ /\ errand[r].at = "insert kit" /\ errand[r].kit = k /\ errand[r].client = c
     /\ c \in clients
     /\ kit' = [kit EXCEPT ![k].row = TRUE, ![k].active = TRUE]
     /\ halted' = IF kit[k].file THEN halted ELSE halted \cup {k}
     /\ Finishes(r)
     /\ UNCHANGED <<clients, parent, gallery, booked, tangled>>

UpdateKit(k) ==
  /\ kit[k].row
  /\ \E active \in BOOLEAN : kit' = [kit EXCEPT ![k].active = active]
  /\ UNCHANGED <<clients, parent, gallery, booked, errand, tangled, halted>>

\* The file goes first, the row in a later statement.
DeleteKit(r, k) ==
  \/ /\ errand[r] = AtRest
     /\ kit[k].row
     /\ kit' = [kit EXCEPT ![k].file = FALSE]
     /\ Sets(r, [AtRest EXCEPT !.at = "delete kit", !.kit = k])
     /\ UNCHANGED <<clients, parent, gallery, booked, tangled, halted>>
  \/ /\ errand[r].at = "delete kit" /\ errand[r].kit = k
     /\ kit' = [kit EXCEPT ![k].row = FALSE, ![k].active = FALSE]
     /\ Finishes(r)
     /\ UNCHANGED <<clients, parent, gallery, booked, tangled, halted>>

\* The kits a request has taken the file of and not yet the row.
Emptied(r) ==
  {k \in Kits : \/ errand[r].at = "delete kit" /\ errand[r].kit = k
                \/ errand[r].at = "delete client" /\ kit[k].home = errand[r].client}

\* An error, a key that refuses the statement, or a kill: nothing is undone.
ErrandEnds(r) ==
  /\ errand[r].at \notin {"idle", "walking"}
  /\ halted' = halted \cup Emptied(r)
  /\ Finishes(r)
  /\ UNCHANGED <<clients, parent, gallery, booked, kit, tangled>>

\* The operations that touch no client's existence.
TreeKeeps ==
  \/ \E c \in ClientIds :
       \/ ClearParent(c)
       \/ \E g \in Galleries : LinkGallery(g, c)
       \/ \E b \in Appointments : LinkBooking(b, c)
  \/ \E k \in Kits : UpdateKit(k)
  \/ \E r \in TreeRequests :
       \/ \E c, p \in ClientIds : SetParent(r, c, p)
       \/ \E c \in ClientIds : DeleteClientCheck(r, c)
       \/ DeleteClientUnlink(r) \/ DeleteClientFiles(r) \/ ErrandEnds(r)
       \/ \E k \in Kits : DeleteKit(r, k) \/ \E c \in ClientIds : UploadKit(r, c, k)

TreeNext ==
  \/ TreeKeeps
  \/ \E c \in ClientIds : CreateClient(c)
  \/ \E r \in TreeRequests : DeleteClientRow(r)

TreeSpec == TreeInit /\ [][TreeNext]_treeVars

-----------------------------------------------------------------------------
Errands == {"idle", "reparent", "walking", "unlink", "rmtree", "delete client",
            "insert kit", "delete kit"}

\* Types, and the foreign keys: what names a client names one that exists.
TreeTypeOK ==
  /\ clients \subseteq ClientIds
  /\ parent \in [ClientIds -> clients \cup {NoClient}]
  /\ gallery \in [Galleries -> clients \cup {NoClient}]
  /\ booked \in [Appointments -> clients \cup {NoClient}]
  /\ kit \in [Kits -> [home : ClientIds \cup {NoClient}, row : BOOLEAN, active : BOOLEAN,
                       file : BOOLEAN]]
  /\ \A k \in Kits : kit[k].row => kit[k].home \in clients
  /\ errand \in [TreeRequests -> [at : Errands, client : ClientIds \cup {NoClient},
                                  to : ClientIds \cup {NoClient}, kit : Kits \cup {NoKit},
                                  stale : BOOLEAN]]
  /\ tangled \in BOOLEAN /\ halted \subseteq Kits

\* 'the set-parent route's guards should make a cycle impossible' (clients.py:8):
\* only when two requests overlap can the second one's check be out of date and
\* the hierarchy become a cycle, on which a walk never ends.
CycleNeedsOverlap ==
  /\ ~Acyclic => tangled
  /\ \A r \in TreeRequests : errand[r].at = "walking" => tangled

\* A kit's row without its logo, which silently hands the client its group's
\* overlay, comes only from a deletion: one at work, or one that was stopped, as
\* delete_client is by a booking after it has removed the files.
LogoLostOnlyByDeletion ==
  \A k \in Kits : kit[k].row /\ ~kit[k].file =>
     k \in halted \/ \E r \in TreeRequests : k \in Emptied(r)
=============================================================================
