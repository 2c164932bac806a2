------------------------------ MODULE StudioMC ------------------------------
(***************************************************************************)
(* TLC instance of the components around a client's papers, messages,      *)
(* forms and bookings.                                                     *)
(*                                                                         *)
(* The components share no variable, so a behaviour follows one of them,   *)
(* named by `focus`, and the others rest in their initial states: the      *)
(* states of a run are the sum of its components' and not their product.   *)
(* A component with many operations is followed in several scopes, each of *)
(* which leaves some of its operations out, all of which together take     *)
(* every operation; a scope only removes behaviours.                       *)
(***************************************************************************)
EXTENDS Documents, Licences, Retainer, OwnerMail, TextThreads, Leads, BookingMirror,
        BookingNotices, CalendarLink, Announcements, Hours, EventTypes, IntakeForms,
        WorkPages, Testimonials

CONSTANTS
  Foci,       \* what this run follows
  b2, p2, c2, c3, q1, q2, r1, l1, l2, m1  \* the elements the scopes name

VARIABLE focus

\* The components in groups, and what rests while one is followed.
paperVars == <<docsVars, licenceVars, retainerVars, announceVars, workVars, quoteVars>>
messageVars == <<ownerMailVars, textVars, leadVars, formVars>>
bookingVars == <<mirrorVars, noticeVars, linkVars, hoursVars, typeVars>>
components == <<paperVars, messageVars, bookingVars>>

restOfDocs     == <<licenceVars, retainerVars, announceVars, workVars, quoteVars, messageVars, bookingVars>>
restOfLicences == <<docsVars, retainerVars, announceVars, workVars, quoteVars, messageVars, bookingVars>>
restOfRetainer == <<docsVars, licenceVars, announceVars, workVars, quoteVars, messageVars, bookingVars>>
restOfAnnounce == <<docsVars, licenceVars, retainerVars, workVars, quoteVars, messageVars, bookingVars>>
restOfMail     == <<textVars, leadVars, formVars, paperVars, bookingVars>>
restOfTexts    == <<ownerMailVars, leadVars, formVars, paperVars, bookingVars>>
restOfLeads    == <<ownerMailVars, textVars, formVars, paperVars, bookingVars>>
restOfForms    == <<ownerMailVars, textVars, leadVars, paperVars, bookingVars>>
restOfMirror   == <<noticeVars, linkVars, hoursVars, typeVars, paperVars, messageVars>>
restOfNotices  == <<mirrorVars, linkVars, hoursVars, typeVars, paperVars, messageVars>>
restOfLink     == <<mirrorVars, noticeVars, hoursVars, typeVars, paperVars, messageVars>>
restOfHours    == <<mirrorVars, noticeVars, linkVars, typeVars, paperVars, messageVars>>
restOfTypes    == <<mirrorVars, noticeVars, linkVars, hoursVars, paperVars, messageVars>>
restOfWork     == <<docsVars, licenceVars, retainerVars, announceVars, quoteVars, messageVars, bookingVars>>
restOfQuotes   == <<docsVars, licenceVars, retainerVars, announceVars, workVars, messageVars, bookingVars>>

-----------------------------------------------------------------------------
\* One proposal from draft to invoice; the contract's side with the proposals at
\* rest; everything, one request at a time.
DocsScope ==
  /\ focus = "offer" => /\ contract' = contract
                        /\ proposal'[p2] = proposal[p2]
                        /\ stage' # "retainer_paid"
  /\ focus = "paper" => proposal' = proposal
  /\ focus = "both"  => \A r \in Requests \ {r1} : desk'[r] = Resting

\* The tree alone; brand kits in a fixed tree; forms over licences in a fixed
\* tree; one form, or one errand, at a time over a moving tree.
Still(r) == errand'[r].at = "idle"

LicenceScope ==
  /\ focus = "tree"  => UNCHANGED <<gallery, booked, kit, licence, clerk>>
  /\ focus = "brand" => c3 \notin clients' /\ UNCHANGED <<parent, licence, clerk>>
  /\ focus = "forms" =>
       /\ c3 \notin clients' /\ excused = {}
       /\ UNCHANGED <<gallery, booked, kit, errand, parent>>
       /\ \A l \in Licences : /\ licence'[l].status \in {"draft", "active"}
                              /\ licence'[l].listed \subseteq {c2}
       /\ \A q \in Clerks : clerk'[q].wants.listed \subseteq {c2}
  /\ focus = "reach" =>
       /\ excused = {} /\ UNCHANGED <<gallery, booked, kit>>
       /\ \A r \in TreeRequests \ {r1} : Still(r)
       /\ \A q \in Clerks \ {q1} : clerk'[q] = NoForm
       /\ clerk'[q1].at # "status" /\ Cardinality(clerk'[q1].wants.listed) < 2
       /\ clerk'[q1] = NoForm \/ \A r \in TreeRequests : Still(r)
       /\ \A l \in Licences : licence'[l].holder # c3

\* The bills of a plan; the captions of a plan that bills nothing.
RetainerScope ==
  /\ focus = "bill"  => UNCHANGED content
  /\ focus = "write" => /\ UNCHANGED <<month, late, billed>>
                        /\ \A p \in Plans : plan'[p].total = 0

\* Two leads becoming clients; one lead and its page.
LeadScope ==
  /\ focus = "convert" => /\ UNCHANGED <<syncer, syncJobs>>
                          /\ \A l \in LeadIds : ~lead'[l].dismissed
  /\ focus = "page" => /\ ~lead'[l2].there /\ ~lead'[l1].converted
                       /\ \A t \in TriageTabs \ {m1} : triageTab'[t] = FreeTab
                       /\ \A t \in TriageTabs : triageTab'[t].at # "new client"

\* The letters to two addresses until one is retried; those to one.
AnnounceScope ==
  /\ focus = "letters" => pressed' = 0 /\ post'[<<l1, p2>>].status # "failed"
  /\ focus = "resent"  => p2 \notin listed'

\* Mails of a family's bookings alone; its pages, until something excuses them.
NoticesScope ==
  /\ focus = "invitations" => /\ ~unsent' /\ UNCHANGED <<pg, notes>>
                              /\ \A n \in Notifiers : notice'[n].at # "write page"
  /\ focus = "pages" => mail' = {} /\ ~failed' /\ clashed' = {}

\* The times of two days; the stale tabs of the console; an event's settings.
HoursScope ==
  /\ focus = "diary"   => /\ UNCHANGED <<event, console, week, asked, reverted>>
                          /\ override'[2] = {}
  /\ focus = "event"   => UNCHANGED <<week, diary, override>>
  /\ focus = "console" => /\ UNCHANGED <<diary, override, event>>
                          /\ asked'[2] \in {{}, {Default}}

\* A project's page and its money; its delivery; the letter that hands it over.
WorkScope ==
  /\ focus = "money"     => UNCHANGED <<shown, handover, mailed>>
  /\ focus = "delivery"  => UNCHANGED <<invoice, handover, mailed>>
  /\ focus = "hand over" => UNCHANGED <<invoice, pageSync, sheet>>

\* One link and the owner's forms; two links.
QuoteScope ==
  /\ focus = "quotes" => link'[l2].state = "absent"
  /\ focus = "links"  => UNCHANGED moderator /\ \A i \in QuoteIds : quote'[i].by # Owner

\* The builder; a visitor's submission.
FormScope ==
  /\ focus = "build" => /\ UNCHANGED visitor /\ forms' <= 1 /\ ~overlapped
                        /\ \A k \in FieldIds : field'[k].label # q2
  /\ focus = "visit" => /\ \A k \in FieldIds : /\ field'[k].order <= 2
                                               /\ k <= 2 \/ field'[k] = NoField
                        /\ forms = 2 => form.active = form'.active \/ form'.which = 0
                        /\ \A b \in FormEditors : builder'[b].at \in {"idle", "insert"}
                        /\ builder'[b2].at = "idle"

-----------------------------------------------------------------------------
\* What is followed, by component.
InDocs     == focus \in {"offer", "paper", "both"}
InLicences == focus \in {"tree", "brand", "forms", "reach"}
InRetainer == focus \in {"bill", "write"}
InMail     == focus = "owner mail"
InTexts    == focus = "texts"
InLeads    == focus \in {"convert", "page"}
InMirror   == focus = "mirror"
InNotices  == focus \in {"invitations", "pages"}
InLink     == focus = "link"
InLetters  == focus \in {"letters", "resent"}
InHours    == focus \in {"diary", "console", "event"}
InTypes    == focus = "types"
InForms    == focus \in {"build", "visit"}
InWork     == focus \in {"money", "delivery", "hand over"}
InQuotes   == focus \in {"quotes", "links"}

StudioInit ==
  /\ DocsInit /\ LicenceInit /\ RetainerInit /\ OwnerMailInit /\ TextInit
  /\ LeadInit /\ MirrorInit /\ NoticesInit /\ LinkInit /\ AnnounceInit
  /\ HoursInit /\ TypesInit /\ FormsInit /\ WorkInit /\ QuotesInit
  /\ focus \in Foci /\ (strict => focus = "link")
  /\ focus # "diary" => season = 0 /\ calendar = {} /\ event = [cap |-> 0, after |-> 0]
  /\ focus # "money" => ~invoice.deposit

StudioNext ==
  /\ UNCHANGED focus
  /\ \/ InDocs /\ DocsNext /\ DocsScope /\ UNCHANGED restOfDocs
     \/ InLicences /\ LicenceNext /\ LicenceScope /\ UNCHANGED restOfLicences
     \/ InRetainer /\ RetainerNext /\ RetainerScope /\ UNCHANGED restOfRetainer
     \/ InMail /\ OwnerMailNext /\ UNCHANGED restOfMail
     \/ InTexts /\ TextNext /\ UNCHANGED restOfTexts
     \/ InLeads /\ LeadNext /\ LeadScope /\ UNCHANGED restOfLeads
     \/ InMirror /\ MirrorNext /\ UNCHANGED restOfMirror
     \/ InNotices /\ NoticesNext /\ NoticesScope /\ UNCHANGED restOfNotices
     \/ InLink /\ LinkNext /\ UNCHANGED restOfLink
     \/ InLetters /\ AnnounceNext /\ AnnounceScope /\ UNCHANGED restOfAnnounce
     \/ InHours /\ HoursNext /\ HoursScope /\ UNCHANGED restOfHours
     \/ InTypes /\ TypesNext /\ UNCHANGED restOfTypes
     \/ InWork /\ WorkNext /\ WorkScope /\ UNCHANGED restOfWork
     \/ InQuotes /\ QuotesNext /\ QuoteScope /\ UNCHANGED restOfQuotes
     \/ InForms /\ FormsNext /\ FormScope /\ UNCHANGED restOfForms

StudioSpec == StudioInit /\ [][StudioNext]_<<focus, components>>

\* Types of every component.  A component that is not followed rests in an initial
\* state, where its own focus checks it: here and below it is judged where followed.
StudioTypeOK ==
  /\ (InDocs => DocsTypeOK)         /\ (InLicences => LicenceTypeOK)
  /\ (InRetainer => RetainerTypeOK) /\ (InMail => OwnerMailTypeOK)
  /\ (InTexts => TextTypeOK)        /\ (InLeads => LeadTypeOK)
  /\ (InMirror => MirrorTypeOK)     /\ (InNotices => NoticesTypeOK)
  /\ (InLink => LinkTypeOK)         /\ (InLetters => AnnounceTypeOK)
  /\ (InHours => HoursTypeOK)       /\ (InTypes => TypesTypeOK)
  /\ (InForms => FormsTypeOK)       /\ (InWork => WorkTypeOK)
  /\ (InQuotes => QuotesTypeOK)

-----------------------------------------------------------------------------
(* Properties, by component; each part is stated and explained in its module. The *)
(* run also asks PapersAgree, TreeAndLicencesHold, RetainersHold and OwnerHears of *)
(* their modules.                                                                  *)

\* TextThreads, Leads, Announcements, IntakeForms, WorkPages and Testimonials: one
\* thread a number, nothing new hidden, no note lost; pages are known, mirrored, and a
\* client's address is theirs; a list is written to once, and leavers are not; what a
\* visitor submits is kept with the questions it answers; a project's page tells its
\* money and its delivery; a client's quote is theirs and noticed.
LeadsAreKept ==
  /\ InTexts => OneThreadPerNumber /\ NothingNewArchived /\ NotesSurvive
  /\ InLeads => PagesAreKnown /\ QuietMirrorTracks /\ ClientHasTheirAddress
  /\ InLetters => ListIsTreatedWell
  /\ InForms => FormsAreSound
  /\ InWork => WorkPagesHold
  /\ InQuotes => TestimonialsHold

\* BookingMirror, BookingNotices, CalendarLink, Hours and EventTypes: calendars, pages
\* and mails end with the booking that stands, the answers used are the linked
\* account's, the times offered are open and a booking is for the type picked.
CalendarsAgree ==
  /\ InMirror => NoGhostEvent /\ OneProjectPerBooking
  /\ InNotices => NoticesAreConsistent
  /\ InLink => LinkIsSound
  /\ InHours => HoursAreSound
  /\ InTypes => EventTypesHold

-----------------------------------------------------------------------------
\* Every text and call comes from one number; no lead has an address.
OneNumber == [e \in Texts \cup Calls |-> "n1"]
NoAddress == [l \in LeadIds |-> ""]
=============================================================================
