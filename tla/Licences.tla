------------------------------ MODULE Licences ------------------------------
(***************************************************************************)
(* Usage licences (app/admin/licenses.py) over the client hierarchy: who   *)
(* holds one, whom it reaches, and what the audit log tells of it.  Of the *)
(* form's fields the model keeps the scope and the listed clients; trail   *)
(* is what the log says they are, each diff applied in turn.               *)
(***************************************************************************)
EXTENDS ClientTree

CONSTANTS Licences, Clerks, NoLicence

COVERAGE_SCOPES == {"holder_only", "holder_and_descendants", "specific"}
STATUSES == {"draft", "active", "expired", "renewed", "terminated"}

VARIABLES
  licence,  \* each licence: [state, holder, scope, listed, status]
  trail,    \* each licence: [scope, listed, status] by the audit log
  clerk,    \* each request: what it read and what its form says
  excused   \* history: licences of which a form crossed another write, or of
            \* which the deletion of a client removed an entry

licenceVars == <<treeVars, licence, trail, clerk, excused>>

NewTerms == [scope |-> "holder_only", listed |-> {}, status |-> "draft"]
NoForm == [at |-> "idle", licence |-> NoLicence, seen |-> NewTerms, wants |-> NewTerms]

Unwritten == [state |-> "absent", holder |-> NoClient, scope |-> "holder_only", listed |-> {},
          status |-> "draft"]

LicenceInit ==
  /\ TreeInit
  /\ licence = [l \in Licences |-> Unwritten]
  /\ trail = [l \in Licences |-> NewTerms]
  /\ clerk = [r \in Clerks |-> NoForm]
  /\ excused = {}

-----------------------------------------------------------------------------
\* Whom a licence reaches, and the licences that reach a client that holds them not.
EffectiveCoverage(l) ==
  {licence[l].holder} \cup
  CASE licence[l].scope = "holder_and_descendants" -> Descendants(licence[l].holder)
    [] licence[l].scope = "specific"               -> licence[l].listed
    [] OTHER                                       -> {}

LicencesCovering(c) ==
  {l \in Licences :
     /\ licence[l].state = "live"
     /\ \/ licence[l].scope = "holder_and_descendants" /\ licence[l].holder \in Ancestors(c)
        \/ licence[l].scope = "specific" /\ c \in licence[l].listed /\ licence[l].holder # c}

-----------------------------------------------------------------------------
CreateLicence(l, c) ==
  /\ licence[l].state = "absent" /\ c \in clients
  /\ licence' = [licence EXCEPT ![l] = [Unwritten EXCEPT !.state = "live", !.holder = c]]
  /\ trail' = [trail EXCEPT ![l] = NewTerms]
  /\ excused' = excused \ {l}
  /\ UNCHANGED clerk

Terms(l) == [scope |-> licence[l].scope, listed |-> licence[l].listed, status |-> licence[l].status]

\* A request reads the licence, of which it uses the scope or the status again.
OpenForm(r, l, at) ==
  /\ clerk[r] = NoForm
  /\ licence[l].state = "live"
  /\ clerk' = [clerk EXCEPT ![r] = [NoForm EXCEPT !.at = at, !.licence = l,
         !.seen.scope = IF at = "form" THEN licence[l].scope ELSE @,
         !.seen.status = IF at = "status" THEN licence[l].status ELSE @]]
  /\ UNCHANGED <<licence, trail, excused>>

\* The form's scope and list; the stored list is read again, and where nothing
\* differs nothing is written.
ReadForm(r) ==
  LET l == clerk[r].licence IN
  /\ clerk[r].at = "form"
  /\ \E scope \in COVERAGE_SCOPES, listed \in SUBSET clients :
       /\ scope # "specific" => listed = {}
       /\ clerk' = [clerk EXCEPT
            ![r] = IF scope = @.seen.scope /\ listed = licence[l].listed THEN NoForm
                   ELSE [@ EXCEPT !.at = "save", !.wants.scope = scope, !.wants.listed = listed,
                                  !.seen.listed = licence[l].listed]]
  /\ UNCHANGED <<licence, trail, excused>>

\* What the diff reports: the fields in which the form differs from what was read.
ReportedMut(old, seen, wants) == IF wants = seen THEN wants ELSE old
Reported(old, seen, wants) == IF wants = seen THEN old ELSE wants

\* One transaction: every field is written, the list only if it differs from
\* the one read, and the diff of both is logged.
SaveForm(r) ==
  LET l == clerk[r].licence
      seen == clerk[r].seen
      wants == clerk[r].wants
  IN
  /\ clerk[r].at = "save"
  /\ licence[l].state # "absent" /\ wants.listed \subseteq clients
  /\ licence' = [licence EXCEPT ![l].scope = wants.scope,
                                ![l].listed = IF wants.listed = seen.listed THEN @ ELSE wants.listed]
  /\ trail' = [trail EXCEPT ![l].scope = Reported(@, seen.scope, wants.scope),
                            ![l].listed = Reported(@, seen.listed, wants.listed)]
  /\ excused' = IF licence[l].scope = seen.scope THEN excused ELSE excused \cup {l}
  /\ clerk' = [clerk EXCEPT ![r] = NoForm]

\* change_status reads the status, and writes and logs the new one.
ChangeStatus(r) ==
  /\ clerk[r].at = "status"
  /\ licence[clerk[r].licence].state # "absent"
  /\ \E status \in STATUSES \ {clerk[r].seen.status} :
       /\ licence' = [licence EXCEPT ![clerk[r].licence].status = status]
       /\ trail' = [trail EXCEPT ![clerk[r].licence].status = status]
  /\ clerk' = [clerk EXCEPT ![r] = NoForm]
  /\ UNCHANGED excused

\* delete_license hides the row.
DeleteLicence(l) ==
  /\ licence[l].state = "live"
  /\ licence' = [licence EXCEPT ![l].state = "deleted"]
  /\ UNCHANGED <<trail, clerk, excused>>

FormEnds(r) ==
  /\ clerk[r] # NoForm
  /\ clerk' = [clerk EXCEPT ![r] = NoForm]
  /\ UNCHANGED <<licence, trail, excused>>

\* The deletion of a client takes its licences and its place in other lists.
DeleteClientCascade(r) ==
  LET c == errand[r].client IN
  /\ DeleteClientRow(r)
  /\ licence' = [l \in Licences |->
       IF licence[l].holder = c THEN Unwritten ELSE [licence[l] EXCEPT !.listed = @ \ {c}]]
  /\ trail' = [l \in Licences |-> IF licence[l].holder = c THEN NewTerms ELSE trail[l]]
  /\ excused' = excused \cup {l \in Licences : c \in licence[l].listed}
  /\ UNCHANGED clerk

LicenceStep ==
  \/ \E l \in Licences : DeleteLicence(l) \/ \E c \in ClientIds : CreateLicence(l, c)
  \/ \E r \in Clerks :
       \/ \E l \in Licences : OpenForm(r, l, "form") \/ OpenForm(r, l, "status")
       \/ ReadForm(r) \/ SaveForm(r) \/ ChangeStatus(r) \/ FormEnds(r)

LicenceNext ==
  \/ LicenceStep /\ UNCHANGED treeVars
  \/ /\ TreeKeeps \/ \E c \in ClientIds : CreateClient(c)
     /\ UNCHANGED <<licence, trail, clerk, excused>>
  \/ \E r \in TreeRequests : DeleteClientCascade(r)

LicenceSpec == LicenceInit /\ [][LicenceNext]_licenceVars

-----------------------------------------------------------------------------
AllTerms == [scope : COVERAGE_SCOPES, listed : SUBSET ClientIds, status : STATUSES]

\* Types, and the foreign keys of a licence.
LicenceTypeOK ==
  /\ TreeTypeOK
  /\ licence \in [Licences -> [state : {"absent", "live", "deleted"},
                               holder : clients \cup {NoClient}, scope : COVERAGE_SCOPES,
                               listed : SUBSET clients, status : STATUSES]]
  /\ \A l \in Licences : licence[l].state = "absent" \/ licence[l].holder \in clients
  /\ trail \in [Licences -> AllTerms]
  /\ clerk \in [Clerks -> [at : {"idle", "form", "save", "status"},
                           licence : Licences \cup {NoLicence},
                           seen : AllTerms, wants : AllTerms]]
  /\ excused \subseteq Licences

\* 'The bottom-up inverse of effective_coverage' (licenses.py:119): the walk up
\* from a client finds a licence exactly if the walk down from its holder finds
\* the client, in every shape the hierarchy and the lists take.
CoverageAgrees ==
  \A l \in Licences, c \in clients :
    licence[l].state = "live" /\ c # licence[l].holder =>
      (c \in EffectiveCoverage(l) <=> l \in LicencesCovering(c))

\* 'The row change and its audit_log entry commit together' (licenses.py:4): the
\* log, applied diff by diff, gives the row, unless a form was saved over a
\* change it had not seen (its diff then omits what it put back) or a listed
\* client was deleted, which no entry tells.
TrailTellsTheRow ==
  \A l \in Licences \ excused : licence[l].state = "live" => trail[l] = Terms(l)

\* ClientTree and Licences: the tree has a cycle, a kit loses its logo, a licence
\* reaches whom the other walk does not find, or its trail is wrong, only in the
\* ways that are named (app/clients.py, app/admin/licenses.py).
TreeAndLicencesHold ==
  CycleNeedsOverlap /\ LogoLostOnlyByDeletion /\ CoverageAgrees /\ TrailTellsTheRow
=============================================================================
