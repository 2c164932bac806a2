---------------------------- MODULE IntakeForms ----------------------------
(***************************************************************************)
(* Custom forms: the builder (app/admin/forms.py) and the public page      *)
(* (app/public/forms.py).  One form id is followed: SQLite gives the id of *)
(* a deleted newest row to the next one, so it can be another form's       *)
(* later, and so can the ids of fields, under which answers are filed.     *)
(***************************************************************************)
EXTENDS Naturals, FiniteSets, FiniteSetsExt

CONSTANTS
  FieldIds,   \* ids of form_fields, 1..n
  Questions,  \* labels
  FormEditors,   \* requests of the builder that take more than one statement
  FormVisitors,   \* visits of the public page
  MaxForms,   \* bound: forms that get the id, one after the other
  MaxOrder,   \* bound: sort_order
  NoQuestion

ASSUME FormsAssumption ==
  /\ FieldIds \subseteq Nat \ {0} /\ MaxForms \in Nat /\ MaxOrder \in Nat /\ NoQuestion \notin Questions

VARIABLES
  form,     \* the form of the id: which one, 0 if none, its kind, is it active
  field,    \* each field: its label, its sort_order; NoField if it is not there
  builder,  \* each request: what it read
  visitor,  \* each visit: its place, the form it loaded, the labels it was shown, its inquiry
  stored,   \* form_submissions: the visit, the form it was written under, its answers by field
  inquiries,\* the visits whose inquiry was written
  \* history
  forms,    \* forms that had the id so far
  renamed,  \* fields edited, or deleted and given again, while answers or a page knew them
  overlapped\* builder requests overlapped, or one was killed between its statements

formVars == <<form, field, builder, visitor, stored, inquiries, forms, renamed, overlapped>>
tables   == <<form, field, stored, inquiries>>
trace    == <<forms, renamed, overlapped>>

NoField  == [label |-> NoQuestion, order |-> 0]
NoFormRow   == [which |-> 0, kind |-> "lead", active |-> FALSE]
NotBuilding == [at |-> "idle", field |-> 0, order |-> 0, other |-> 0, otherOrder |-> 0]
Elsewhere == [at |-> "away", which |-> 0, kind |-> "lead", shown |-> [k \in FieldIds |-> NoQuestion]]

FormsInit ==
  /\ form = NoFormRow /\ field = [k \in FieldIds |-> NoField]
  /\ builder = [b \in FormEditors |-> NotBuilding] /\ visitor = [v \in FormVisitors |-> Elsewhere]
  /\ stored = {} /\ inquiries = {} /\ forms = 0 /\ renamed = {} /\ overlapped = FALSE

FieldsThere   == {k \in FieldIds : field[k] # NoField}
Building(B) == \E b \in B : builder[b].at # "idle"
Shown   == [k \in FieldIds |-> field[k].label]

\* Fields a stored answer, or a page that is open, has under their id.
Known == {k \in FieldIds : (\E s \in stored : s.answers[k] # NoQuestion)
                           \/ (\E v \in FormVisitors : visitor[v].at # "away" /\ visitor[v].shown[k] # NoQuestion)}

-----------------------------------------------------------------------------
(* The builder *)

FormCreate(kind) ==
  /\ form = NoFormRow /\ forms < MaxForms
  /\ form' = [which |-> forms + 1, kind |-> kind, active |-> TRUE] /\ forms' = forms + 1
  /\ UNCHANGED <<field, builder, visitor, stored, inquiries, renamed, overlapped>>

FormUpdate ==
  /\ form # NoFormRow /\ form' = [form EXCEPT !.active = ~@]
  /\ UNCHANGED <<field, builder, visitor, stored, inquiries, trace>>

\* The fields and the submissions go with the form; the inquiries stay.
FormDelete ==
  /\ form # NoFormRow /\ form' = NoFormRow
  /\ field' = [k \in FieldIds |-> NoField] /\ stored' = {}
  /\ UNCHANGED <<builder, visitor, inquiries, trace>>

\* The order is read, then the row is written, under the next id of the table.
NextOrderMut == Cardinality(FieldsThere) + 1
NextOrder    == Max({0} \cup {field[k].order : k \in FieldsThere}) + 1
FieldAddReads(b) ==
  /\ form # NoFormRow /\ builder[b].at = "idle"
  /\ builder' = [builder EXCEPT ![b] = [NotBuilding EXCEPT !.at = "insert", !.order = NextOrder]]
  /\ overlapped' = (overlapped \/ Building(FormEditors))
  /\ UNCHANGED <<tables, visitor, forms, renamed>>

FieldAddInserts(b, q) ==
  LET k == Max({0} \cup FieldsThere) + 1 IN
  /\ builder[b].at = "insert" /\ form # NoFormRow /\ k \in FieldIds /\ builder[b].order <= MaxOrder
  /\ field' = [field EXCEPT ![k] = [label |-> q, order |-> builder[b].order]]
  /\ renamed' = IF k \in Known THEN renamed \cup {k} ELSE renamed
  /\ builder' = [builder EXCEPT ![b] = NotBuilding]
  /\ UNCHANGED <<form, stored, inquiries, visitor, forms, overlapped>>

FieldAddRefused(b) ==
  /\ builder[b].at = "insert" /\ form = NoFormRow
  /\ builder' = [builder EXCEPT ![b] = NotBuilding] /\ UNCHANGED <<tables, visitor, trace>>

FieldUpdate(k, q) ==
  /\ k \in FieldsThere /\ q # field[k].label
  /\ field' = [field EXCEPT ![k].label = q]
  /\ renamed' = IF k \in Known THEN renamed \cup {k} ELSE renamed
  /\ UNCHANGED <<form, stored, inquiries, builder, visitor, forms, overlapped>>

FieldDelete(k) ==
  /\ k \in FieldsThere /\ field' = [field EXCEPT ![k] = NoField]
  /\ UNCHANGED <<form, stored, inquiries, builder, visitor, trace>>

\* The nearest field strictly above or below; then each of the two is given the
\* order that was read of the other, in a statement of its own.
FieldAbove(k) == {j \in FieldsThere : field[j].order < field[k].order}
FieldBelow(k) == {j \in FieldsThere : field[j].order > field[k].order}
FieldMoveReads(b, k, up) ==
  LET side == IF up THEN FieldAbove(k) ELSE FieldBelow(k) IN
  /\ builder[b].at = "idle" /\ k \in FieldsThere /\ side # {}
  /\ \E j \in side :
       /\ \A i \in side : IF up THEN field[i].order <= field[j].order ELSE field[j].order <= field[i].order
       /\ builder' = [builder EXCEPT ![b] = [at |-> "first", field |-> k, order |-> field[k].order,
                                             other |-> j, otherOrder |-> field[j].order]]
  /\ overlapped' = (overlapped \/ Building(FormEditors))
  /\ UNCHANGED <<tables, visitor, forms, renamed>>

Reorder(k, n) == field' = IF k \in FieldsThere THEN [field EXCEPT ![k].order = n] ELSE field
FieldMoveFirst(b) ==
  /\ builder[b].at = "first" /\ Reorder(builder[b].field, builder[b].otherOrder)
  /\ builder' = [builder EXCEPT ![b].at = "second"]
  /\ UNCHANGED <<form, stored, inquiries, visitor, trace>>

FieldMoveSecond(b) ==
  /\ builder[b].at = "second" /\ Reorder(builder[b].other, builder[b].order)
  /\ builder' = [builder EXCEPT ![b] = NotBuilding]
  /\ UNCHANGED <<form, stored, inquiries, visitor, trace>>

\* A restart ends the requests where they are; open pages stay open.
AppRestarts ==
  /\ \/ Building(FormEditors) \/ \E v \in FormVisitors : visitor[v].at \in {"loaded", "judged", "lead"}
  /\ builder' = [b \in FormEditors |-> NotBuilding]
  /\ visitor' = [v \in FormVisitors |-> IF visitor[v].at \in {"loaded", "judged", "lead"}
                                    THEN [visitor[v] EXCEPT !.at = "cut"] ELSE visitor[v]]
  /\ overlapped' = (overlapped \/ \E b \in FormEditors : builder[b].at = "second")
  /\ UNCHANGED <<tables, forms, renamed>>

-----------------------------------------------------------------------------
(* The public page *)

ShowForm(v) ==
  /\ visitor[v].at = "away" /\ form.active
  /\ visitor' = [visitor EXCEPT ![v] = [at |-> "page", which |-> form.which, kind |-> form.kind, shown |-> Shown]]
  /\ UNCHANGED <<tables, builder, trace>>

\* A post loads the form by the slug of the page; deleted or inactive, it is a 404.
SubmitLoads(v) ==
  /\ visitor[v].at = "page" /\ form.active /\ form.which = visitor[v].which
  /\ visitor' = [visitor EXCEPT ![v].at = "loaded"]
  /\ UNCHANGED <<tables, builder, trace>>

\* The fields of the form's id as they are now; a required one the page did not have
\* sends the page back with them.  An answer is kept for each, by its id.
AnswerToMut(v) ==
  [k \in FieldIds |-> IF k \in FieldsThere
     THEN visitor[v].shown[Cardinality({j \in FieldsThere : field[j].order <= field[k].order})] ELSE NoQuestion]
AnswerTo(v) == [k \in FieldIds |-> IF k \in FieldsThere THEN visitor[v].shown[k] ELSE NoQuestion]
SubmitJudges(v) ==
  /\ visitor[v].at = "loaded"
  /\ visitor' = [visitor EXCEPT ![v].at = "judged", ![v].shown = AnswerTo(v)]
  /\ UNCHANGED <<tables, builder, trace>>

SubmitSentBack(v) ==
  /\ visitor[v].at = "loaded" /\ FieldsThere # {}
  /\ visitor' = [visitor EXCEPT ![v].at = "page", ![v].shown = Shown]
  /\ UNCHANGED <<tables, builder, trace>>

\* A lead's inquiry, with its mail and its page, before the submission.
IsLeadMut(v) == FALSE
IsLead(v) == visitor[v].kind = "lead"
SubmitInquires(v) ==
  /\ visitor[v].at = "judged" /\ IsLead(v)
  /\ inquiries' = inquiries \cup {v} /\ visitor' = [visitor EXCEPT ![v].at = "lead"]
  /\ UNCHANGED <<form, field, stored, builder, trace>>

\* The foreign key refuses it if no form has the id.
SubmitStores(v) ==
  /\ visitor[v].at = "lead" \/ (visitor[v].at = "judged" /\ ~IsLead(v))
  /\ stored' = IF form # NoFormRow
               THEN stored \cup {[visit |-> v, under |-> form.which, answers |-> visitor[v].shown]} ELSE stored
  /\ visitor' = [visitor EXCEPT ![v].at = IF form # NoFormRow THEN "done" ELSE "cut"]
  /\ UNCHANGED <<form, field, inquiries, builder, trace>>

FormsNext ==
  \/ FormUpdate \/ FormDelete \/ AppRestarts \/ \E kind \in {"lead", "questionnaire"} : FormCreate(kind)
  \/ \E b \in FormEditors : \/ FieldAddReads(b) \/ FieldAddRefused(b) \/ FieldMoveFirst(b) \/ FieldMoveSecond(b)
                         \/ \E q \in Questions : FieldAddInserts(b, q)
                         \/ \E k \in FieldIds, up \in BOOLEAN : FieldMoveReads(b, k, up)
  \/ \E k \in FieldIds : FieldDelete(k) \/ \E q \in Questions : FieldUpdate(k, q)
  \/ \E v \in FormVisitors : \/ ShowForm(v) \/ SubmitLoads(v) \/ SubmitJudges(v) \/ SubmitSentBack(v)
                         \/ SubmitInquires(v) \/ SubmitStores(v)

FormsSpec == FormsInit /\ [][FormsNext]_formVars

-----------------------------------------------------------------------------
(* Properties *)

FormsTypeOK ==
  /\ form \in [which : 0..MaxForms, kind : {"lead", "questionnaire"}, active : BOOLEAN]
  /\ field \in [FieldIds -> [label : Questions \cup {NoQuestion}, order : 0..MaxOrder]]
  /\ \A b \in FormEditors : builder[b].at \in {"idle", "insert", "first", "second"}
  /\ \A v \in FormVisitors : /\ visitor[v].at \in {"away", "page", "loaded", "judged", "lead", "done", "cut"}
                         /\ visitor[v].shown \in [FieldIds -> Questions \cup {NoQuestion}]
  /\ \A s \in stored : s.visit \in FormVisitors /\ s.under \in 1..MaxForms
  /\ inquiries \subseteq FormVisitors /\ forms \in 0..MaxForms /\ renamed \subseteq FieldIds /\ overlapped \in BOOLEAN

\* The submissions page shows an answer under the question it was given to: but for
\* a field that was edited, or whose id another field was given, meanwhile.
AnswersKeepTheirQuestion ==
  \A s \in stored, k \in FieldIds :
    (k \in FieldsThere /\ s.answers[k] # NoQuestion /\ k \notin renamed) => field[k].label = s.answers[k]

\* A visit that was told it was sent left a submission, unless the form is gone by
\* now; a lead's left its inquiry too, and a questionnaire's none.
SentIsStored ==
  \A v \in FormVisitors :
    /\ visitor[v].at = "done" =>
         \/ form.which # visitor[v].which
         \/ \E s \in stored : s.visit = v /\ s.under = visitor[v].which
    /\ visitor[v].at = "done" => (v \in inquiries <=> visitor[v].kind = "lead")

\* The fields of a form have orders of their own, as moving one needs: but for
\* requests of the builder that overlapped or were cut off half way.
OrdersAreDistinct ==
  \/ overlapped
  \/ \E b \in FormEditors : builder[b].at = "second"
  \/ \A j, k \in FieldsThere : j # k => field[j].order # field[k].order

FormsAreSound == AnswersKeepTheirQuestion /\ SentIsStored /\ OrdersAreDistinct
=============================================================================
