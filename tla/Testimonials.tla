----------------------------- MODULE Testimonials -----------------------------
(***************************************************************************)
(* Clients' quotes: the link a client writes one through                   *)
(* (app/public/docs.py), the row it becomes, and its moderation            *)
(* (app/admin/studio.py).  A submission looks at its link, inserts the     *)
(* quote and points the link at it in three statements; the owner's forms  *)
(* write back what they showed; ids of deleted quotes come again.          *)
(***************************************************************************)
EXTENDS Naturals, FiniteSets

CONSTANTS
  Links,       \* testimonial requests
  Writers,     \* submissions under way
  Moderators,  \* the owner's open forms
  MaxQuotes,   \* bound: ids of quotes
  Owner, NoLink

ASSUME TestimonialsAssumption == MaxQuotes \in Nat /\ Owner \notin Links /\ NoLink \notin Links \cup {Owner}

QuoteIds == 1..MaxQuotes
NoQuote  == 0

VARIABLES
  link,      \* each request: [state, quote]; the quote it points at
  quote,     \* each quote: [by, published], whose words they are, NoLink if the id is free
  writer,    \* each submission: [at, link, id]
  moderator, \* each form: the quote it shows and whose words
  \* history
  rushed,   \* links submitted twice at once, or cut off, or deleted, on the way
  mistaken   \* quotes whose words a form of another quote replaced

quoteVars == <<link, quote, writer, moderator, rushed, mistaken>>

FreeRow   == [by |-> NoLink, published |-> FALSE]
NoWriter  == [at |-> "idle", link |-> NoLink, id |-> NoQuote]
Unopened  == [id |-> NoQuote, by |-> NoLink]

QuotesInit ==
  /\ link = [l \in Links |-> [state |-> "absent", quote |-> NoQuote]]
  /\ quote = [i \in QuoteIds |-> FreeRow]
  /\ writer = [w \in Writers |-> NoWriter]
  /\ moderator = [m \in Moderators |-> Unopened]
  /\ rushed = {} /\ mistaken = {}

QuoteRows == {i \in QuoteIds : quote[i] # FreeRow}

\* The id is one more than the largest: a deleted quote's may come again.
NextId(i) == i = 1 + (IF QuoteRows = {} THEN 0 ELSE CHOOSE m \in QuoteRows : \A k \in QuoteRows : k <= m)

-----------------------------------------------------------------------------
(* The client *)

RequestTestimonial(l) ==
  /\ link[l].state = "absent"
  /\ link' = [link EXCEPT ![l].state = "open"]
  /\ UNCHANGED <<quote, writer, moderator, rushed, mistaken>>

\* One submission a link: what was submitted is thanked for again.
SubmittableMut(l) == link[l].state \in {"open", "submitted"}
Submittable(l) == link[l].state = "open"

SubmitRead(w, l) ==
  /\ writer[w] = NoWriter
  /\ Submittable(l)
  /\ writer' = [writer EXCEPT ![w] = [at |-> "insert", link |-> l, id |-> NoQuote]]
  /\ rushed' = IF \E v \in Writers : writer[v].link = l THEN rushed \cup {l} ELSE rushed
  /\ UNCHANGED <<link, quote, moderator, mistaken>>

\* What a client wrote is not shown until the owner says so.
Landed(l) == [by |-> l, published |-> FALSE]

SubmitInsert(w) ==
  /\ writer[w].at = "insert"
  /\ \E i \in QuoteIds :
       /\ NextId(i)
       /\ quote' = [quote EXCEPT ![i] = Landed(writer[w].link)]
       /\ writer' = [writer EXCEPT ![w].at = "point", ![w].id = i]
  /\ UNCHANGED <<link, moderator, rushed, mistaken>>

\* The link is pointed at the id, whichever quote has it now; an id that is gone
\* is refused, and a link that is gone matches no row.
SubmitPoint(w) ==
  LET l == writer[w].link
      i == writer[w].id
  IN
  /\ writer[w].at = "point"
  /\ link' = IF i \in QuoteRows /\ link[l].state # "deleted"
             THEN [link EXCEPT ![l] = [state |-> "submitted", quote |-> i]] ELSE link
  /\ rushed' = IF i \in QuoteRows /\ quote[i].by = l THEN rushed ELSE rushed \cup {l}
  /\ writer' = [writer EXCEPT ![w] = NoWriter]
  /\ UNCHANGED <<quote, moderator, mistaken>>

\* An error or a kill: what was inserted stays, and the link stays open.
WriterEnds(w) ==
  /\ writer[w] # NoWriter
  /\ rushed' = rushed \cup {writer[w].link}
  /\ writer' = [writer EXCEPT ![w] = NoWriter]
  /\ UNCHANGED <<link, quote, moderator, mistaken>>

\* A client is deleted with its requests; the quotes stay.
DeleteLink(l) ==
  /\ link[l].state \in {"open", "submitted"}
  /\ link' = [link EXCEPT ![l] = [state |-> "deleted", quote |-> NoQuote]]
  /\ UNCHANGED <<quote, writer, moderator, rushed, mistaken>>

-----------------------------------------------------------------------------
(* The owner *)

CreateTestimonial(published) ==
  /\ \E i \in QuoteIds :
       /\ NextId(i)
       /\ quote' = [quote EXCEPT ![i] = [by |-> Owner, published |-> published]]
  /\ UNCHANGED <<link, writer, moderator, rushed, mistaken>>

OpenQuote(m, i) ==
  /\ i \in QuoteRows
  /\ moderator' = [moderator EXCEPT ![m] = [id |-> i, by |-> quote[i].by]]
  /\ UNCHANGED <<link, quote, writer, rushed, mistaken>>

\* The form writes every field to the id, if there is a quote of that id.
UpdateTestimonial(m, published) ==
  LET i == moderator[m].id IN
  /\ i \in QuoteRows
  /\ quote' = [quote EXCEPT ![i] = [by |-> moderator[m].by, published |-> published]]
  /\ mistaken' = IF quote[i].by # moderator[m].by THEN mistaken \cup {i} ELSE mistaken
  /\ moderator' = [moderator EXCEPT ![m] = Unopened]
  /\ UNCHANGED <<link, writer, rushed>>

\* The links that pointed at it point at nothing.
UnpointedMut(i) == link
Unpointed(i) == [l \in Links |-> IF link[l].quote = i THEN [link[l] EXCEPT !.quote = NoQuote] ELSE link[l]]

DeleteTestimonial(i) ==
  /\ i \in QuoteRows
  /\ quote' = [quote EXCEPT ![i] = FreeRow]
  /\ link' = Unpointed(i)
  /\ mistaken' = mistaken \ {i}
  /\ UNCHANGED <<writer, moderator, rushed>>

QuotesNext ==
  \/ \E l \in Links : RequestTestimonial(l) \/ DeleteLink(l)
  \/ \E w \in Writers : SubmitInsert(w) \/ SubmitPoint(w) \/ WriterEnds(w) \/ \E l \in Links : SubmitRead(w, l)
  \/ \E p \in BOOLEAN : CreateTestimonial(p) \/ \E m \in Moderators : UpdateTestimonial(m, p)
  \/ \E i \in QuoteIds : DeleteTestimonial(i) \/ \E m \in Moderators : OpenQuote(m, i)

QuotesSpec == QuotesInit /\ [][QuotesNext]_quoteVars

-----------------------------------------------------------------------------
QuotesTypeOK ==
  /\ link \in [Links -> [state : {"absent", "open", "submitted", "deleted"}, quote : 0..MaxQuotes]]
  /\ quote \in [QuoteIds -> [by : Links \cup {Owner, NoLink}, published : BOOLEAN]]
  /\ writer \in [Writers -> [at : {"idle", "insert", "point"}, link : Links \cup {NoLink}, id : 0..MaxQuotes]]
  /\ moderator \in [Moderators -> [id : 0..MaxQuotes, by : Links \cup {Owner, NoLink}]]
  /\ rushed \subseteq Links /\ mistaken \subseteq QuoteIds

\* 'So a self-submission never goes unnoticed (it has no other inbox)'
\* (app/admin/home_context.py:489): a client's quote that is not shown is counted
\* on the owner's home page, through the link that points at it, unless the link
\* was rushed, its client is gone or a form put the words there.
SubmissionsAreNoticed ==
  \A i \in QuoteRows \ mistaken :
    LET l == quote[i].by IN
    l \in Links /\ l \notin rushed /\ link[l].state # "deleted" =>
      link[l].quote = i \/ \E w \in Writers : writer[w].id = i

\* 'One submission per link' (app/public/docs.py:203), unless two were under way
\* at once or one was cut off; and a link points at what was written through it.
OneQuotePerLink ==
  \A l \in Links \ rushed :
    /\ Cardinality({i \in QuoteRows \ mistaken : quote[i].by = l}) <= 1
    /\ link[l].quote # NoQuote /\ link[l].quote \notin mistaken => quote[link[l].quote].by = l

TestimonialsHold == SubmissionsAreNoticed /\ OneQuotePerLink
=============================================================================
