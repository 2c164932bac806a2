---------------------------- MODULE PapersProofs ----------------------------
(***************************************************************************)
(* Proofs about a client's papers and messages, as StudioMC groups them:   *)
(* Documents, Retainer, Licences and OwnerMail; after them Leads,          *)
(* TextThreads, IntakeForms and Testimonials.                              *)
(*                                                                         *)
(* Documents: its types, that the papers agree unless a sent document was  *)
(* unlocked, and that only a request which had read it before unlocks one. *)
(* What a request read may be stale when it writes; as long as nothing was *)
(* unlocked, though, a sent document never changes again, so what was read *)
(* of it still is what it says.                                            *)
(*                                                                         *)
(* Retainer, for any plans, months, billers and captions: a month is       *)
(* billed once, at the plan's total, and human words are kept, but for the *)
(* causes the two properties name.                                         *)
(*                                                                         *)
(* Licences, for any clients, brand kits, licences and requests at work:   *)
(* the hierarchy stays a forest unless two checks overlapped, the two      *)
(* walks over it agree whatever its shape, a logo is lost only to a        *)
(* deletion, and the audit log tells the licence but for the causes named. *)
(*                                                                         *)
(* OwnerMail, for any inquiries, job threads and requests: one mail about  *)
(* an inquiry unless its claim was lost or the mailer misreported, and a   *)
(* lead that nobody works on is one that was given up.                     *)
(*                                                                         *)
(* Of the four after them each has an invariant that implies its property, *)
(* and a lemma each for the initial states, for a step (`...Step`), for a  *)
(* step of another component (`...Rest`) and for what the invariant means: *)
(* StudioProofs composes these into theorems about StudioSpec.             *)
(***************************************************************************)
EXTENDS Documents, Retainer, Licences, OwnerMail, Leads, TextThreads, IntakeForms, Testimonials,
        FunctionTheorems, FiniteSetTheorems, WellFoundedInduction, TLAPS

(* Documents                                                               *)

Locked(status) == status \notin {"absent", "draft"}

\* A proposal that was accepted once, and a decision that still stands.
Stamped(p) == \E i \in 1..Len(accepts) : accepts[i] = p
Stands(p, decision) == unlocked \/ proposal[p].status = decision

\* What a request that read its document still knows of it.
Knows(t) ==
  /\ t.at \in {"edit", "send"} => t.row.status = "draft"
  /\ t.at = "view" => t.row.status = "sent"
  /\ t.at \in {"accept", "decline", "sign"} => t.row.status \in {"sent", "viewed"}
  /\ t.at \in {"convert", "tell accepted"} =>
       t.doc \in Proposals /\ Stamped(t.doc) /\ Stands(t.doc, "accepted")
  /\ t.at = "tell declined" => t.doc \in Proposals /\ Stands(t.doc, "declined")
  /\ t.at = "convert" => unlocked \/ proposal[t.doc].total = t.row.total
  /\ t.at = "sign" =>
       /\ t.doc \in Contracts
       /\ unlocked \/ (Locked(contract[t.doc].status) /\ contract[t.doc].hashed = t.row.text)

DeskInv == \A r \in Requests : Knows(desk[r])
StampsInv == \A p \in Proposals : proposal[p].status = "accepted" => Stamped(p)
NoticesInv ==
  \A p \in Proposals :
    /\ <<p, "accepted">> \in notices => Stamped(p) /\ Stands(p, "accepted")
    /\ <<p, "declined">> \in notices => Stands(p, "declined")

DocsInv == /\ DocsTypeOK /\ DeskInv /\ StampsInv /\ NoticesInv
           /\ ConvertedTotalsAgree /\ SignedAsSent

\* The request that unlocks a document read it while it was not locked that far.
Stale(t) ==
  \/ t.at \in {"edit", "send"} /\ t.row.status = "draft"
  \/ t.at = "view" /\ t.row.status = "sent"
  \/ t.at \in {"accept", "decline", "sign"} /\ t.row.status \in {"sent", "viewed"}

Noted == unlocked' = (unlocked \/ LockBroken)

(* The total of the standard contract.                                     *)

\* A set of positions has a last one.
LEMMA LastOne ==
  ASSUME NEW n \in Nat, NEW I \in SUBSET (1..n), I # {}
  PROVE  \E m \in I : \A j \in I : j <= m
<1> DEFINE T == {k \in Nat : n - k \in I}
<1>1. T # {}
  <2>1. PICK i \in I : TRUE OBVIOUS
  <2>2. n - i \in Nat /\ n - (n - i) = i BY <2>1
  <2> QED BY <2>2
<1> DEFINE Less == {l \in Nat \X Nat : l[1] < l[2]}
<1>0. IsWellFoundedOn(Less, Nat) BY NatLessThanWellFounded DEF OpToRel
<1>2. PICK k \in T : \A l \in T : ~(<<l, k>> \in Less)
  <2> HIDE DEF Less
  <2> QED BY <1>0, <1>1, WFMin, T \subseteq Nat
<1>3. ASSUME NEW j \in I PROVE j <= n - k
  <2>1. n - j \in Nat /\ n - (n - j) = j OBVIOUS
  <2>2. n - j \in T BY <2>1
  <2>3. ~(n - j < k) BY <1>2, <2>2
  <2> QED BY <2>1, <2>3, <1>2
<1> QED BY <1>2, <1>3

LEMMA AgreedTyped == ASSUME DocsTypeOK PROVE AgreedTotal \in Wordings
<1>1. CASE Accepted = {} BY <1>1 DEF AgreedTotal, Wordings
<1>2. CASE Accepted # {}
  <2>1. Len(accepts) \in Nat /\ Accepted \in SUBSET (1..Len(accepts)) BY DEF DocsTypeOK, Accepted
  <2>2. \E m \in Accepted : \A j \in Accepted : j <= m BY <1>2, <2>1, LastOne
  <2>3. PICK m \in 1..Len(accepts) : AgreedTotal = proposal[accepts[m]].total BY <1>2, <2>1, <2>2 DEF AgreedTotal
  <2>4. accepts[m] \in Proposals BY <2>3 DEF DocsTypeOK
  <2> QED BY <2>3, <2>4 DEF DocsTypeOK
<1> QED BY <1>1, <1>2

\* The total is that of the proposal accepted last of all, while that one stands.
LEMMA AgreedIsLast ==
  ASSUME DocsTypeOK, NEW p \in Proposals, Stamped(p),
         accepts[Len(accepts)] = p, proposal[p].status = "accepted"
  PROVE  AgreedTotal = proposal[p].total
<1> DEFINE n == Len(accepts)
<1>1. n \in Nat /\ n \in 1..n BY DEF DocsTypeOK, Stamped
<1>2. n \in Accepted /\ \A j \in Accepted : j <= n BY <1>1 DEF Accepted
<1>3. Accepted \subseteq 1..n BY DEF Accepted
<1>4. \A m \in Accepted : (\A j \in Accepted : j <= m) => m = n BY <1>1, <1>2, <1>3
<1>5. (CHOOSE i \in Accepted : \A j \in Accepted : j <= i) = n BY <1>2, <1>4
<1> QED BY <1>2, <1>5 DEF AgreedTotal

(* What stays.                                                             *)

\* As long as nothing is unlocked, a sent document says what it said.
LEMMA LockKeeps ==
  ASSUME Noted, ~unlocked', DocsTypeOK
  PROVE  /\ ~unlocked
         /\ \A p \in Proposals :
              /\ Locked(proposal[p].status) => proposal'[p].total = proposal[p].total
              /\ proposal[p].status \in {"accepted", "declined"} =>
                   proposal'[p].status = proposal[p].status
         /\ \A c \in Contracts :
              /\ Locked(contract[c].status) => contract'[c].hashed = contract[c].hashed
              /\ contract[c].status = "signed" =>
                   contract'[c].status = "signed" /\ agreed'[c] = agreed[c]
BY DEF Noted, LockBroken, Locked, DocsTypeOK

\* What a step leaves alone: stamps, and what is locked.
Keeps ==
  /\ \A p \in Proposals : Stamped(p) => Stamped(p)'
  /\ \A c \in Contracts : Locked(contract[c].status) => Locked(contract'[c].status)

LEMMA KnowsOn ==
  ASSUME Noted, DocsTypeOK, Keeps, NEW t, Knows(t)
  PROVE  Knows(t)'
<1>1. unlocked => unlocked' BY DEF Noted, DocsTypeOK
<1>2. ASSUME NEW p \in Proposals, NEW d \in {"accepted", "declined"}, Stands(p, d)
      PROVE  Stands(p, d)' BY <1>1, <1>2, LockKeeps DEF Stands
<1>3. ASSUME t.at = "convert" PROVE (unlocked \/ proposal[t.doc].total = t.row.total)'
  <2>1. t.doc \in Proposals /\ Stands(t.doc, "accepted") BY <1>3 DEF Knows
  <2>2. unlocked \/ Locked(proposal[t.doc].status) BY <2>1 DEF Stands, Locked
  <2> QED BY <1>1, <1>3, <2>1, <2>2, LockKeeps DEF Knows
<1>4. ASSUME t.at = "sign"
      PROVE  (unlocked \/ (Locked(contract[t.doc].status) /\ contract[t.doc].hashed = t.row.text))'
  <2>1. t.doc \in Contracts BY <1>4 DEF Knows
  <2> QED BY <1>1, <1>4, <2>1, LockKeeps DEF Knows, Keeps, Locked
<1>5. ASSUME t.at \in {"convert", "tell accepted"}
      PROVE  (t.doc \in Proposals /\ Stamped(t.doc) /\ Stands(t.doc, "accepted"))' BY <1>2, <1>5 DEF Knows, Keeps
<1>6. ASSUME t.at = "tell declined" PROVE (t.doc \in Proposals /\ Stands(t.doc, "declined"))' BY <1>2, <1>6 DEF Knows
<1> QED BY <1>3, <1>4, <1>5, <1>6 DEF Knows

\* The parts of the invariant a step does not write.
LEMMA DeskOn ==
  ASSUME Noted, DocsTypeOK, Keeps, DeskInv, NEW r \in Requests, NEW t,
         desk' = [desk EXCEPT ![r] = t], Knows(t)'
  PROVE  DeskInv'
<1> SUFFICES ASSUME NEW q \in Requests PROVE Knows(desk[q])' BY DEF DeskInv
<1>1. CASE q = r
  <2>1. desk'[q] = t BY <1>1 DEF DocsTypeOK
  <2> QED BY <2>1
<1>2. CASE q # r
  <2>1. PICK u : u = desk[q] OBVIOUS
  <2>2. desk'[q] = u BY <1>2, <2>1 DEF DocsTypeOK
  <2>3. Knows(u) BY <2>1 DEF DeskInv
  <2>4. Knows(u)' BY <2>3, KnowsOn
  <2> QED BY <2>2, <2>4
<1> QED BY <1>1, <1>2

LEMMA NoticesOn ==
  ASSUME Noted, DocsTypeOK, Keeps, NoticesInv, notices' = notices
  PROVE  NoticesInv'
<1>1. unlocked => unlocked' BY DEF Noted, DocsTypeOK
<1> QED BY <1>1, LockKeeps DEF NoticesInv, Keeps, Stands

LEMMA SignedOn ==
  ASSUME Noted, DocsTypeOK, SignedAsSent, agreed' = agreed,
         \A c \in Contracts : contract'[c].status = "signed" => contract[c].status = "signed"
  PROVE  SignedAsSent'
BY LockKeeps DEF SignedAsSent, Locked

LEMMA ConvertedOn ==
  ASSUME Noted, DocsTypeOK, ConvertedTotalsAgree, converted' = converted
  PROVE  ConvertedTotalsAgree'
BY DEF ConvertedTotalsAgree, Noted, DocsTypeOK

LEMMA StampsOn ==
  ASSUME StampsInv, accepts' = accepts,
         \A p \in Proposals : proposal'[p].status = "accepted" => proposal[p].status = "accepted"
  PROVE  StampsInv'
BY DEF StampsInv, Stamped

DeskRows == [at : Places, doc : Documents \cup {Nobody}, row : Rows]

(* Steps that write no document.                                           *)

LEMMA QuietStep ==
  ASSUME DocsInv, Noted, NEW r \in Requests, UNCHANGED <<rows, notices, agreed, converted>>,
         NEW t \in DeskRows, Knows(t), desk' = [desk EXCEPT ![r] = t]
  PROVE  DocsInv' /\ ~LockBroken
<1>1. ~LockBroken BY DEF LockBroken, rows
<1>2. DocsTypeOK' BY <1>1 DEF DocsInv, DocsTypeOK, Noted, rows, DeskRows
<1>3. Keeps BY DEF Keeps, Stamped, rows
<1>4. DeskInv' BY <1>3, KnowsOn, DeskOn DEF DocsInv
<1>5. StampsInv' BY StampsOn DEF DocsInv, rows
<1>6. NoticesInv' BY <1>3, NoticesOn DEF DocsInv
<1>7. ConvertedTotalsAgree' BY ConvertedOn DEF DocsInv
<1>8. SignedAsSent' BY SignedOn DEF DocsInv, rows
<1> QED BY <1>1, <1>2, <1>4, <1>5, <1>6, <1>7, <1>8 DEF DocsInv

LEMMA RestingRow == Resting \in DeskRows /\ Knows(Resting)
BY DEF Resting, NoRow, DeskRows, Rows, Knows, Places, ProposalStates, ContractStates, Wordings

LEMMA ReadProposalStep ==
  ASSUME DocsInv, Noted, NEW r \in Requests, NEW p \in Proposals, NEW at \in Places,
         ReadsProposal(r, at, p), UNCHANGED <<rows, notices, agreed, converted>>,
         at \in {"edit", "send"} => proposal[p].status = "draft",
         at = "view" => proposal[p].status = "sent",
         at \in {"accept", "decline"} => proposal[p].status \in {"sent", "viewed"},
         at = "convert" => proposal[p].status = "accepted",
         at \notin {"sign", "tell accepted", "tell declined"}
  PROVE  DocsInv' /\ ~LockBroken
<1>1. PICK t : t = [at |-> at, doc |-> p,
                    row |-> [status |-> proposal[p].status,
                             total |-> IF at = "convert" THEN proposal[p].total ELSE NoTotal,
                             text |-> NoTotal]]
  OBVIOUS
<1>2. desk' = [desk EXCEPT ![r] = t] BY <1>1 DEF ReadsProposal, Reads
<1>3. t.row \in Rows BY <1>1 DEF Rows, DocsInv, DocsTypeOK, Wordings
<1>4. t \in DeskRows BY <1>1, <1>3 DEF DeskRows, Documents
<1>5. at = "convert" => Stamped(p) BY DEF DocsInv, StampsInv
<1>6. Knows(t) BY <1>1, <1>5 DEF Knows, Stands
<1> QED BY <1>2, <1>4, <1>6, QuietStep

LEMMA ReadContractStep ==
  ASSUME DocsInv, Noted, NEW r \in Requests, NEW c \in Contracts, NEW at \in Places,
         ReadsContract(r, at, c), UNCHANGED <<rows, notices, agreed, converted>>,
         at \in {"edit", "send"} => contract[c].status = "draft",
         at = "view" => contract[c].status = "sent",
         at = "sign" => contract[c].status \in {"sent", "viewed"} /\ Untampered(contract[c]),
         at \notin {"accept", "decline", "convert", "tell accepted", "tell declined"}
  PROVE  DocsInv' /\ ~LockBroken
<1>1. PICK t : t = [at |-> at, doc |-> c,
                    row |-> [status |-> contract[c].status, total |-> NoTotal,
                             text |-> IF at \in {"sign", "send"} THEN contract[c].text
                                      ELSE NoTotal]]
  OBVIOUS
<1>2. desk' = [desk EXCEPT ![r] = t] BY <1>1 DEF ReadsContract, Reads
<1>3. t.row \in Rows BY <1>1 DEF Rows, DocsInv, DocsTypeOK, Wordings
<1>4. t \in DeskRows BY <1>1, <1>3 DEF DeskRows, Documents
<1>6. Knows(t) BY <1>1 DEF Knows, Locked, Untampered
<1> QED BY <1>2, <1>4, <1>6, QuietStep

LEMMA EndStep ==
  ASSUME DocsInv, Noted, NEW r \in Requests, Leaves(r),
         UNCHANGED <<rows, notices, agreed, converted>>
  PROVE  DocsInv' /\ ~LockBroken
BY RestingRow, QuietStep DEF Leaves

\* The board moves the project, and so does a request once its contract is signed.
LEMMA StageMoved ==
  ASSUME DocsInv, Noted, NEW r \in Requests, stage' \in Stages,
         UNCHANGED <<proposal, contract, accepts, notices, agreed, converted>>,
         desk' = [desk EXCEPT ![r] = Resting]
  PROVE  DocsInv' /\ ~LockBroken
<1>1. ~LockBroken BY DEF LockBroken
<1>2. DocsTypeOK' BY <1>1, RestingRow DEF DocsInv, DocsTypeOK, Noted, DeskRows
<1>3. Keeps BY DEF Keeps, Stamped
<1>4. DeskInv'
  <2>1. PICK t : t = Resting OBVIOUS
  <2>2. Knows(t)' BY <2>1, <1>3, RestingRow, KnowsOn DEF DocsInv
  <2> QED BY <1>3, <2>1, <2>2, DeskOn DEF DocsInv
<1>5. StampsInv' BY StampsOn DEF DocsInv
<1>6. NoticesInv' BY <1>3, NoticesOn DEF DocsInv
<1>7. ConvertedTotalsAgree' BY ConvertedOn DEF DocsInv
<1>8. SignedAsSent' BY SignedOn DEF DocsInv
<1> QED BY <1>1, <1>2, <1>4, <1>5, <1>6, <1>7, <1>8 DEF DocsInv

LEMMA BoardStep ==
  ASSUME DocsInv, Noted, NEW r \in Requests, MoveProjectStatus(r)
  PROVE  DocsInv' /\ ~LockBroken
<1>1. stage' \in Stages BY DocumentsAssumption DEF MoveProjectStatus
<1>2. desk' = [desk EXCEPT ![r] = Resting] BY DEF MoveProjectStatus, DocsInv, DocsTypeOK
<1> QED BY <1>1, <1>2, StageMoved DEF MoveProjectStatus

\* The owner is told what the request decided and committed before.
LEMMA TellStep ==
  ASSUME DocsInv, Noted, NEW r \in Requests, EnqueueDecision(r)
  PROVE  DocsInv' /\ ~LockBroken
<1>1. ~LockBroken BY DEF LockBroken, EnqueueDecision, rows
<1>2. PICK d \in {"accepted", "declined"} :
        /\ desk[r].at = (IF d = "accepted" THEN "tell accepted" ELSE "tell declined")
        /\ notices' = notices \cup {<<desk[r].doc, d>>} BY DEF EnqueueDecision
<1>3. Knows(desk[r]) BY DEF DocsInv, DeskInv
<1>4. /\ desk[r].doc \in Proposals /\ Stands(desk[r].doc, d)
      /\ d = "accepted" => Stamped(desk[r].doc) BY <1>2, <1>3 DEF Knows
<1>5. UNCHANGED <<rows, agreed, converted>> /\ Leaves(r) /\ unlocked' = unlocked
  BY <1>1 DEF EnqueueDecision, Noted, DocsInv, DocsTypeOK
<1>6. DocsTypeOK'
  <2>1. notices' \subseteq Proposals \X {"accepted", "declined"}
    <3>1. PICK q : q = desk[r].doc OBVIOUS
    <3>2. <<q, d>> \in Proposals \X {"accepted", "declined"} BY <1>2, <1>4, <3>1
    <3>3. notices \subseteq Proposals \X {"accepted", "declined"} BY DEF DocsInv, DocsTypeOK
    <3> QED BY <1>2, <3>1, <3>2, <3>3
  <2>2. desk' \in [Requests -> DeskRows] BY <1>5, RestingRow DEF DocsInv, DocsTypeOK, Leaves, DeskRows
  <2> QED BY <1>5, <2>1, <2>2 DEF DocsInv, DocsTypeOK, DeskRows, rows
<1>7. Keeps BY <1>5 DEF Keeps, Stamped, rows
<1>8. DeskInv' 
  <2>1. PICK t : t = Resting OBVIOUS
  <2>2. Knows(t)' BY <2>1, <1>7, RestingRow, KnowsOn DEF DocsInv
  <2> QED BY <1>5, <1>7, <2>1, <2>2, DeskOn DEF DocsInv, Leaves
<1>9. StampsInv' BY <1>5, StampsOn DEF DocsInv, rows
<1>10. NoticesInv' BY <1>2, <1>4, <1>5 DEF DocsInv, NoticesInv, Stamped, Stands, rows
<1>11. ConvertedTotalsAgree' BY <1>5, ConvertedOn DEF DocsInv
<1>12. SignedAsSent' BY <1>5, SignedOn DEF DocsInv, rows
<1> QED BY <1>1, <1>6, <1>8, <1>9, <1>10, <1>11, <1>12 DEF DocsInv

(* Steps that write a proposal.                                            *)

ProposalRows == [status : ProposalStates, total : Wordings]

\* A request writes a proposal's row, and neither a contract nor a notice.
LEMMA ProposalWritten ==
  ASSUME DocsInv, Noted, NEW r \in Requests, NEW p \in Proposals,
         NEW row \in ProposalRows, proposal' = [proposal EXCEPT ![p] = row],
         row.status = "accepted" => Stamped(p)',
         accepts' = accepts \/ accepts' = Append(accepts, p),
         stage' \in Stages, UNCHANGED <<contract, notices, agreed, converted>>,
         NEW t \in DeskRows, Knows(t)', desk' = [desk EXCEPT ![r] = t]
  PROVE  DocsInv'
<1> USE DEF DocsInv
<1>1. DocsTypeOK'
  <2>1. proposal' \in [Proposals -> ProposalRows] BY DEF DocsTypeOK, ProposalRows
  <2>2. accepts' \in Seq(Proposals)
    <3>1. accepts \in Seq(Proposals) BY DEF DocsTypeOK
    <3> QED BY <3>1
  <2>3. desk' \in [Requests -> DeskRows] BY DEF DocsTypeOK, DeskRows
  <2>4. unlocked' \in BOOLEAN BY DEF Noted, DocsTypeOK, LockBroken
  <2> QED BY <2>1, <2>2, <2>3, <2>4 DEF DocsTypeOK, ProposalRows, DeskRows
<1>2. \A q \in Proposals : Stamped(q) => Stamped(q)'
  <2>1. SUFFICES ASSUME NEW q \in Proposals, NEW i \in 1..Len(accepts), accepts[i] = q
                 PROVE  i \in 1..Len(accepts') /\ accepts'[i] = q BY DEF Stamped
  <2> QED BY <2>1 DEF DocsTypeOK
<1>3. Keeps BY <1>2 DEF Keeps
<1>4. DeskInv' BY <1>3, DeskOn
<1>5. StampsInv' BY <1>2 DEF StampsInv, DocsTypeOK
<1>6. NoticesInv' BY <1>3, NoticesOn
<1>7. ConvertedTotalsAgree' BY ConvertedOn
<1>8. SignedAsSent' BY SignedOn
<1> QED BY <1>1, <1>4, <1>5, <1>6, <1>7, <1>8

\* Only the one proposal can be unlocked by it.
LEMMA ProposalLock ==
  ASSUME DocsInv, NEW p \in Proposals, UNCHANGED <<contract, agreed>>,
         NEW row, proposal' = [proposal EXCEPT ![p] = row],
         Locked(proposal[p].status) => row.total = proposal[p].total,
         proposal[p].status \in {"accepted", "declined"} => row.status = proposal[p].status
  PROVE  ~LockBroken
BY DEF LockBroken, DocsInv, DocsTypeOK, Locked

LEMMA WritingRow ==
  ASSUME DocsInv, NEW r \in Requests, NEW at \in Places
  PROVE  [desk[r] EXCEPT !.at = at] \in DeskRows
BY DEF DocsInv, DocsTypeOK, DeskRows

LEMMA ViewProposalStep ==
  ASSUME DocsInv, Noted, NEW r \in Requests, NEW p \in Proposals, ViewProposal(r, p)
  PROVE  DocsInv' /\ (LockBroken => Stale(desk[r]))
<1>1. CASE proposal[p].status = "sent" /\ ReadsProposal(r, "view", p)
           /\ UNCHANGED <<rows, notices, agreed, converted>> BY <1>1, ReadProposalStep DEF Places
<1>2. CASE desk[r].at = "view" /\ desk[r].doc = p
           /\ proposal' = [proposal EXCEPT ![p].status = "viewed"] /\ Leaves(r)
           /\ UNCHANGED <<contract, accepts, stage, notices, agreed, converted>>
  <2>1. Stale(desk[r]) BY <1>2 DEF DocsInv, DeskInv, Knows, Stale
  <2>2. PICK row : row = [proposal[p] EXCEPT !.status = "viewed"] OBVIOUS
  <2>3. row \in ProposalRows /\ row.status = "viewed" /\ row.status # "accepted"
    BY <2>2 DEF ProposalRows, DocsInv, DocsTypeOK, ProposalStates
  <2>4. proposal' = [proposal EXCEPT ![p] = row] BY <1>2, <2>2
  <2>5. PICK t : t = Resting OBVIOUS
  <2>6. t \in DeskRows /\ Knows(t)' BY <2>5, RestingRow DEF Knows, Resting
  <2>7. stage' \in Stages /\ desk' = [desk EXCEPT ![r] = t] BY <1>2, <2>5 DEF DocsInv, DocsTypeOK, Leaves
  <2> QED BY <1>2, <2>1, <2>3, <2>4, <2>6, <2>7, ProposalWritten
<1> QED BY <1>1, <1>2 DEF ViewProposal

LEMMA AcceptProposalStep ==
  ASSUME DocsInv, Noted, NEW r \in Requests, NEW p \in Proposals, AcceptProposal(r, p)
  PROVE  DocsInv' /\ (LockBroken => Stale(desk[r]))
<1>1. CASE Answerable(proposal[p].status) /\ ReadsProposal(r, "accept", p)
           /\ UNCHANGED <<rows, notices, agreed, converted>> BY <1>1, ReadProposalStep DEF Places, Answerable
<1>2. CASE desk[r].at = "accept" /\ desk[r].doc = p
           /\ proposal' = [proposal EXCEPT ![p].status = "accepted"]
           /\ accepts' = Append(accepts, p) /\ GoesOn(r, "tell accepted")
           /\ UNCHANGED <<contract, stage, notices, agreed, converted>>
  <2>1. Stale(desk[r]) BY <1>2 DEF DocsInv, DeskInv, Knows, Stale
  <2>2. PICK row : row = [proposal[p] EXCEPT !.status = "accepted"] OBVIOUS
  <2>3. row \in ProposalRows /\ row.status = "accepted" BY <2>2 DEF ProposalRows, DocsInv, DocsTypeOK, ProposalStates
  <2>4. proposal' = [proposal EXCEPT ![p] = row] BY <1>2, <2>2
  <2>5. Stamped(p)'
    <3>1. PICK before \in Seq(Proposals) : before = accepts BY DEF DocsInv, DocsTypeOK
    <3>2. PICK n \in Nat : n = Len(before) OBVIOUS
    <3>3. Len(Append(before, p)) = n + 1 /\ Append(before, p)[n + 1] = p BY <3>2
    <3>4. Len(accepts') = n + 1 /\ accepts'[n + 1] = p BY <1>2, <3>1, <3>3
    <3>5. n + 1 \in 1..Len(accepts') BY <3>4
    <3> QED BY <3>4, <3>5 DEF Stamped
  <2>6. PICK t : t = [desk[r] EXCEPT !.at = "tell accepted"] OBVIOUS
  <2>7. t \in DeskRows BY <2>6, WritingRow DEF Places
  <2>8. t.at = "tell accepted" /\ t.doc = p BY <1>2, <2>6 DEF DocsInv, DocsTypeOK
  <2>9. (proposal[p].status)' = "accepted" BY <2>3, <2>4 DEF DocsInv, DocsTypeOK
  <2>10. Knows(t)' BY <2>5, <2>8, <2>9 DEF Knows, Stands
  <2>11. stage' \in Stages /\ desk' = [desk EXCEPT ![r] = t] BY <1>2, <2>6 DEF DocsInv, DocsTypeOK, GoesOn
  <2> QED BY <1>2, <2>1, <2>3, <2>4, <2>5, <2>7, <2>10, <2>11, ProposalWritten
<1> QED BY <1>1, <1>2 DEF AcceptProposal

LEMMA DeclineProposalStep ==
  ASSUME DocsInv, Noted, NEW r \in Requests, NEW p \in Proposals, DeclineProposal(r, p)
  PROVE  DocsInv' /\ (LockBroken => Stale(desk[r]))
<1>1. CASE Answerable(proposal[p].status) /\ ReadsProposal(r, "decline", p)
           /\ UNCHANGED <<rows, notices, agreed, converted>> BY <1>1, ReadProposalStep DEF Places, Answerable
<1>2. CASE desk[r].at = "decline" /\ desk[r].doc = p
           /\ proposal' = [proposal EXCEPT ![p].status = "declined"]
           /\ GoesOn(r, "tell declined")
           /\ UNCHANGED <<contract, accepts, stage, notices, agreed, converted>>
  <2>1. Stale(desk[r]) BY <1>2 DEF DocsInv, DeskInv, Knows, Stale
  <2>2. PICK row : row = [proposal[p] EXCEPT !.status = "declined"] OBVIOUS
  <2>3. row \in ProposalRows /\ row.status = "declined" /\ row.status # "accepted"
    BY <2>2 DEF ProposalRows, DocsInv, DocsTypeOK, ProposalStates
  <2>4. proposal' = [proposal EXCEPT ![p] = row] BY <1>2, <2>2
  <2>6. PICK t : t = [desk[r] EXCEPT !.at = "tell declined"] OBVIOUS
  <2>7. t \in DeskRows BY <2>6, WritingRow DEF Places
  <2>8. t.at = "tell declined" /\ t.doc = p BY <1>2, <2>6 DEF DocsInv, DocsTypeOK
  <2>9. (proposal[p].status)' = "declined" BY <2>3, <2>4 DEF DocsInv, DocsTypeOK
  <2>10. Knows(t)' BY <2>8, <2>9 DEF Knows, Stands
  <2>11. stage' \in Stages /\ desk' = [desk EXCEPT ![r] = t] BY <1>2, <2>6 DEF DocsInv, DocsTypeOK, GoesOn
  <2> QED BY <1>2, <2>1, <2>3, <2>4, <2>7, <2>10, <2>11, ProposalWritten
<1> QED BY <1>1, <1>2 DEF DeclineProposal

LEMMA UpdateProposalStep ==
  ASSUME DocsInv, Noted, NEW r \in Requests, NEW p \in Proposals, UpdateProposal(r, p)
  PROVE  DocsInv' /\ (LockBroken => Stale(desk[r]))
<1>1. CASE Editable(proposal[p].status) /\ ReadsProposal(r, "edit", p)
           /\ UNCHANGED <<rows, notices, agreed, converted>> BY <1>1, ReadProposalStep DEF Places, Editable
<1>2. CASE desk[r].at = "edit" /\ desk[r].doc = p
           /\ (\E total \in Totals : proposal' = [proposal EXCEPT ![p].total = total])
           /\ Leaves(r)
           /\ UNCHANGED <<contract, accepts, stage, notices, agreed, converted>>
  <2>1. Stale(desk[r]) BY <1>2 DEF DocsInv, DeskInv, Knows, Stale
  <2>2. PICK total \in Totals : proposal' = [proposal EXCEPT ![p].total = total] BY <1>2
  <2>3. PICK row : row = [proposal[p] EXCEPT !.total = total] OBVIOUS
  <2>4. row \in ProposalRows /\ row.status = proposal[p].status
    BY <2>3 DEF ProposalRows, DocsInv, DocsTypeOK, Wordings
  <2>5. proposal' = [proposal EXCEPT ![p] = row] BY <2>2, <2>3
  <2>6. row.status = "accepted" => Stamped(p)' BY <1>2, <2>4 DEF DocsInv, StampsInv, Stamped
  <2>7. PICK t : t = Resting OBVIOUS
  <2>8. t \in DeskRows /\ Knows(t)' BY <2>7, RestingRow DEF Knows, Resting
  <2>9. stage' \in Stages /\ desk' = [desk EXCEPT ![r] = t] BY <1>2, <2>7 DEF DocsInv, DocsTypeOK, Leaves
  <2> QED BY <1>2, <2>1, <2>4, <2>5, <2>6, <2>8, <2>9, ProposalWritten
<1> QED BY <1>1, <1>2 DEF UpdateProposal

LEMMA MarkProposalSentStep ==
  ASSUME DocsInv, Noted, NEW r \in Requests, NEW p \in Proposals, MarkProposalSent(r, p)
  PROVE  DocsInv' /\ (LockBroken => Stale(desk[r]))
<1>1. CASE Editable(proposal[p].status) /\ ReadsProposal(r, "send", p)
           /\ UNCHANGED <<rows, notices, agreed, converted>> BY <1>1, ReadProposalStep DEF Places, Editable
<1>2. CASE desk[r].at = "send" /\ desk[r].doc = p
           /\ proposal' = [proposal EXCEPT ![p].status = "sent"]
           /\ stage' = (IF stage \in {"inquiry_received", "consultation_call"}
                        THEN "proposal_sent" ELSE stage)
           /\ Leaves(r)
           /\ UNCHANGED <<contract, accepts, notices, agreed, converted>>
  <2>1. Stale(desk[r]) BY <1>2 DEF DocsInv, DeskInv, Knows, Stale
  <2>2. PICK row : row = [proposal[p] EXCEPT !.status = "sent"] OBVIOUS
  <2>3. row \in ProposalRows /\ row.status = "sent" BY <2>2 DEF ProposalRows, DocsInv, DocsTypeOK, ProposalStates
  <2>4. proposal' = [proposal EXCEPT ![p] = row] BY <1>2, <2>2
  <2>5. PICK t : t = Resting OBVIOUS
  <2>6. t \in DeskRows /\ Knows(t)' BY <2>5, RestingRow DEF Knows, Resting
  <2>7. stage' \in Stages BY <1>2 DEF DocsInv, DocsTypeOK, Stages
  <2>8. desk' = [desk EXCEPT ![r] = t] BY <1>2, <2>5 DEF Leaves
  <2> QED BY <1>2, <2>1, <2>3, <2>4, <2>6, <2>7, <2>8, ProposalWritten
<1> QED BY <1>1, <1>2 DEF MarkProposalSent

\* A draft of one's own unlocks nothing.
LEMMA NewProposalStep ==
  ASSUME DocsInv, Noted, NEW r \in Requests, NEW p \in Proposals,
         CreateProposal(r, p) \/ \E q \in Proposals : DuplicateProposal(r, q, p)
  PROVE  DocsInv' /\ ~LockBroken
<1>1. PICK total \in Wordings :
        /\ desk[r] = Resting /\ proposal[p].status = "absent"
        /\ proposal' = [proposal EXCEPT ![p] = [status |-> "draft", total |-> total]]
        /\ UNCHANGED <<contract, accepts, stage, notices, desk, agreed, converted>>
  BY DEF CreateProposal, DuplicateProposal, Wordings, DocsInv, DocsTypeOK
<1>2. PICK row : row = [status |-> "draft", total |-> total] OBVIOUS
<1>3. row \in ProposalRows /\ row.status = "draft" BY <1>2 DEF ProposalRows, ProposalStates
<1>4. ~LockBroken BY <1>1, <1>2, ProposalLock DEF Locked
<1>5. PICK t : t = Resting OBVIOUS
<1>6. t \in DeskRows /\ Knows(t)' BY <1>5, RestingRow DEF Knows, Resting
<1>7. stage' \in Stages /\ desk' = [desk EXCEPT ![r] = t] BY <1>1, <1>5 DEF DocsInv, DocsTypeOK
<1> QED BY <1>1, <1>2, <1>3, <1>4, <1>6, <1>7, ProposalWritten

(* Steps that write a contract.                                            *)

ContractRows == [status : ContractStates, text : Wordings, hashed : Wordings,
                 countersigned : BOOLEAN]

\* A request writes a contract's row; a signature, what its signer was shown.
LEMMA ContractWritten ==
  ASSUME DocsInv, Noted, NEW r \in Requests, NEW c \in Contracts,
         NEW row \in ContractRows, contract' = [contract EXCEPT ![c] = row],
         Locked(contract[c].status) => Locked(row.status),
         agreed' \in [Contracts -> Wordings],
         \A e \in Contracts \ {c} : agreed'[e] = agreed[e],
         row.status = "signed" => unlocked' \/ agreed'[c] = row.hashed,
         UNCHANGED <<proposal, accepts, stage, notices>>,
         converted' \subseteq Wordings \X Wordings \X BOOLEAN, ConvertedTotalsAgree',
         NEW t \in DeskRows, Knows(t)', desk' = [desk EXCEPT ![r] = t]
  PROVE  DocsInv'
<1> USE DEF DocsInv
<1>1. DocsTypeOK'
  <2>1. contract' \in [Contracts -> ContractRows] BY DEF DocsTypeOK, ContractRows
  <2>2. desk' \in [Requests -> DeskRows] BY DEF DocsTypeOK, DeskRows
  <2>3. unlocked' \in BOOLEAN BY DEF Noted, DocsTypeOK, LockBroken
  <2> QED BY <2>1, <2>2, <2>3 DEF DocsTypeOK, ContractRows, DeskRows
<1>2. Keeps BY DEF Keeps, Stamped, DocsTypeOK
<1>3. DeskInv' BY <1>2, DeskOn
<1>4. StampsInv' BY StampsOn
<1>5. NoticesInv' BY <1>2, NoticesOn
<1>6. SignedAsSent'
  <2>1. SUFFICES ASSUME NEW e \in Contracts, contract'[e].status = "signed", ~unlocked'
                 PROVE  agreed'[e] = contract'[e].hashed BY DEF SignedAsSent
  <2>2. contract'[e] = (IF e = c THEN row ELSE contract[e]) BY DEF DocsTypeOK
  <2>3. CASE e = c BY <2>1, <2>2, <2>3
  <2>4. CASE e # c
    <3>1. ~unlocked BY <2>1, LockKeeps
    <3> QED BY <2>1, <2>2, <2>4, <3>1 DEF SignedAsSent
  <2> QED BY <2>3, <2>4
<1> QED BY <1>1, <1>3, <1>4, <1>5, <1>6

\* The same when nothing is signed or converted.
LEMMA ContractEdited ==
  ASSUME DocsInv, Noted, NEW r \in Requests, NEW c \in Contracts,
         NEW row \in ContractRows, contract' = [contract EXCEPT ![c] = row],
         Locked(contract[c].status) => Locked(row.status),
         row.status = "signed" => contract[c].status = "signed",
         UNCHANGED <<proposal, accepts, stage, notices, agreed, converted>>, Leaves(r)
  PROVE  DocsInv'
<1>1. PICK t : t = Resting OBVIOUS
<1>2. t \in DeskRows /\ Knows(t)' BY <1>1, RestingRow DEF Knows, Resting
<1>3. desk' = [desk EXCEPT ![r] = t] BY <1>1 DEF Leaves
<1>4. ConvertedTotalsAgree' BY ConvertedOn DEF DocsInv
<1>5. agreed' \in [Contracts -> Wordings] /\ converted' \subseteq Wordings \X Wordings \X BOOLEAN
  BY DEF DocsInv, DocsTypeOK
<1>6. ASSUME row.status = "signed", ~unlocked' PROVE agreed'[c] = row.hashed
  <2>1. SignedAsSent' BY <1>6, SignedOn DEF DocsInv, DocsTypeOK
  <2>2. contract'[c] = row BY DEF DocsInv, DocsTypeOK
  <2> QED BY <1>6, <2>1, <2>2 DEF SignedAsSent
<1> QED BY <1>2, <1>3, <1>4, <1>5, <1>6, ContractWritten

LEMMA ContractLock ==
  ASSUME DocsInv, NEW c \in Contracts, UNCHANGED <<proposal, agreed>>,
         NEW row, contract' = [contract EXCEPT ![c] = row],
         Locked(contract[c].status) => row.text = contract[c].text /\ row.hashed = contract[c].hashed,
         contract[c].status = "signed" => row.status = "signed"
  PROVE  ~LockBroken
BY DEF LockBroken, DocsInv, DocsTypeOK, Locked

LEMMA ViewContractStep ==
  ASSUME DocsInv, Noted, NEW r \in Requests, NEW c \in Contracts, ViewContract(r, c)
  PROVE  DocsInv' /\ (LockBroken => Stale(desk[r]))
<1>1. CASE contract[c].status = "sent" /\ ReadsContract(r, "view", c)
           /\ UNCHANGED <<rows, notices, agreed, converted>> BY <1>1, ReadContractStep DEF Places
<1>2. CASE desk[r].at = "view" /\ desk[r].doc = c
           /\ contract' = [contract EXCEPT ![c].status = "viewed"] /\ Leaves(r)
           /\ UNCHANGED <<proposal, accepts, stage, notices, agreed, converted>>
  <2>1. Stale(desk[r]) BY <1>2 DEF DocsInv, DeskInv, Knows, Stale
  <2>2. PICK row : row = [contract[c] EXCEPT !.status = "viewed"] OBVIOUS
  <2>3. row \in ContractRows /\ row.status = "viewed" BY <2>2 DEF ContractRows, DocsInv, DocsTypeOK, ContractStates
  <2>4. contract' = [contract EXCEPT ![c] = row] BY <1>2, <2>2
  <2> QED BY <1>2, <2>1, <2>3, <2>4, ContractEdited DEF Locked
<1> QED BY <1>1, <1>2 DEF ViewContract

\* A client signs what was read: while nothing was unlocked, what was sent.
LEMMA SignContractStep ==
  ASSUME DocsInv, Noted, NEW r \in Requests, NEW c \in Contracts, SignContract(r, c)
  PROVE  DocsInv' /\ (LockBroken => Stale(desk[r]))
<1>1. CASE Answerable(contract[c].status) /\ Untampered(contract[c]) /\ ReadsContract(r, "sign", c)
           /\ UNCHANGED <<rows, notices, agreed, converted>> BY <1>1, ReadContractStep DEF Places, Answerable
<1>2. CASE desk[r].at = "sign" /\ desk[r].doc = c
           /\ contract' = [contract EXCEPT ![c].status = "signed"]
           /\ agreed' = [agreed EXCEPT ![c] = desk[r].row.text]
           /\ GoesOn(r, "move project")
           /\ UNCHANGED <<proposal, accepts, stage, notices, converted>>
  <2>0. Knows(desk[r]) /\ desk[r] \in DeskRows BY DEF DocsInv, DeskInv, DocsTypeOK, DeskRows
  <2>1. Stale(desk[r]) BY <1>2, <2>0 DEF Knows, Stale
  <2>2. PICK row : row = [contract[c] EXCEPT !.status = "signed"] OBVIOUS
  <2>3. row \in ContractRows /\ row.status = "signed" /\ row.hashed = contract[c].hashed
    BY <2>2 DEF ContractRows, DocsInv, DocsTypeOK, ContractStates
  <2>4. contract' = [contract EXCEPT ![c] = row] BY <1>2, <2>2
  <2>5. desk[r].row.text \in Wordings BY <2>0 DEF DeskRows, Rows
  <2>6. agreed' \in [Contracts -> Wordings] /\ agreed'[c] = desk[r].row.text
        /\ \A e \in Contracts \ {c} : agreed'[e] = agreed[e] BY <1>2, <2>5 DEF DocsInv, DocsTypeOK
  <2>7. unlocked => unlocked' BY DEF Noted, DocsInv, DocsTypeOK
  <2>8. unlocked' \/ agreed'[c] = row.hashed BY <1>2, <2>0, <2>3, <2>6, <2>7 DEF Knows
  <2>9. PICK t : t = [desk[r] EXCEPT !.at = "move project"] OBVIOUS
  <2>10. t \in DeskRows BY <2>9, WritingRow DEF Places
  <2>11. t.at = "move project" BY <2>0, <2>9 DEF DeskRows
  <2>12. Knows(t)' BY <2>11 DEF Knows
  <2>13. desk' = [desk EXCEPT ![r] = t] BY <1>2, <2>9 DEF GoesOn
  <2>14. ConvertedTotalsAgree' BY <1>2, ConvertedOn DEF DocsInv
  <2>15. converted' \subseteq Wordings \X Wordings \X BOOLEAN BY <1>2 DEF DocsInv, DocsTypeOK
  <2>16. Locked(row.status) BY <2>3 DEF Locked
  <2>17. UNCHANGED <<proposal, accepts, stage, notices>> BY <1>2
  <2>18. DocsInv' BY <2>3, <2>4, <2>6, <2>8, <2>10, <2>12, <2>13, <2>14, <2>15, <2>16, <2>17, ContractWritten
  <2> QED BY <2>1, <2>18
<1>3. CASE desk[r].at = "move project" /\ desk[r].doc = c
           /\ stage' = (IF stage \in BeforeSignature THEN "contract_signed" ELSE stage)
           /\ Leaves(r)
           /\ UNCHANGED <<proposal, contract, accepts, notices, agreed, converted>>
  <2>1. stage' \in Stages BY <1>3 DEF DocsInv, DocsTypeOK, Stages
  <2> QED BY <1>3, <2>1, StageMoved DEF Leaves
<1> QED BY <1>1, <1>2, <1>3 DEF SignContract

LEMMA UpdateContractStep ==
  ASSUME DocsInv, Noted, NEW r \in Requests, NEW c \in Contracts, UpdateContract(r, c)
  PROVE  DocsInv' /\ (LockBroken => Stale(desk[r]))
<1>1. CASE Editable(contract[c].status) /\ ReadsContract(r, "edit", c)
           /\ UNCHANGED <<rows, notices, agreed, converted>> BY <1>1, ReadContractStep DEF Places, Editable
<1>2. CASE desk[r].at = "edit" /\ desk[r].doc = c
           /\ (\E text \in Wordings : contract' = [contract EXCEPT ![c].text = text])
           /\ Leaves(r)
           /\ UNCHANGED <<proposal, accepts, stage, notices, agreed, converted>>
  <2>1. Stale(desk[r]) BY <1>2 DEF DocsInv, DeskInv, Knows, Stale
  <2>2. PICK text \in Wordings : contract' = [contract EXCEPT ![c].text = text] BY <1>2
  <2>3. PICK row : row = [contract[c] EXCEPT !.text = text] OBVIOUS
  <2>4. row \in ContractRows /\ row.status = contract[c].status BY <2>3 DEF ContractRows, DocsInv, DocsTypeOK
  <2>5. contract' = [contract EXCEPT ![c] = row] BY <2>2, <2>3
  <2> QED BY <1>2, <2>1, <2>4, <2>5, ContractEdited
<1> QED BY <1>1, <1>2 DEF UpdateContract

LEMMA MarkContractSentStep ==
  ASSUME DocsInv, Noted, NEW r \in Requests, NEW c \in Contracts, MarkContractSent(r, c)
  PROVE  DocsInv' /\ (LockBroken => Stale(desk[r]))
<1>1. CASE Editable(contract[c].status) /\ ReadsContract(r, "send", c)
           /\ UNCHANGED <<rows, notices, agreed, converted>> BY <1>1, ReadContractStep DEF Places, Editable
<1>2. CASE desk[r].at = "send" /\ desk[r].doc = c
           /\ contract' = [contract EXCEPT ![c].status = "sent", ![c].hashed = desk[r].row.text]
           /\ Leaves(r)
           /\ UNCHANGED <<proposal, accepts, stage, notices, agreed, converted>>
  <2>1. Stale(desk[r]) BY <1>2 DEF DocsInv, DeskInv, Knows, Stale
  <2>2. PICK row : row = [contract[c] EXCEPT !.status = "sent", !.hashed = desk[r].row.text]
    OBVIOUS
  <2>3. desk[r].row.text \in Wordings BY DEF DocsInv, DocsTypeOK, Rows
  <2>4. row \in ContractRows /\ row.status = "sent"
    BY <2>2, <2>3 DEF ContractRows, DocsInv, DocsTypeOK, ContractStates
  <2>5. contract' = [contract EXCEPT ![c] = row] BY <1>2, <2>2 DEF DocsInv, DocsTypeOK
  <2> QED BY <1>2, <2>1, <2>4, <2>5, ContractEdited DEF Locked
<1> QED BY <1>1, <1>2 DEF MarkContractSent

\* The studio's signature changes nothing the client signed.
LEMMA CountersignStep ==
  ASSUME DocsInv, Noted, NEW r \in Requests, NEW c \in Contracts, CountersignContract(r, c)
  PROVE  DocsInv' /\ ~LockBroken
<1>1. CASE contract[c].status = "signed" /\ ReadsContract(r, "countersign", c)
           /\ UNCHANGED <<rows, notices, agreed, converted>> BY <1>1, ReadContractStep DEF Places
<1>2. CASE desk[r].at = "countersign" /\ desk[r].doc = c
           /\ contract' = [contract EXCEPT ![c].countersigned = TRUE]
           /\ Leaves(r)
           /\ UNCHANGED <<proposal, accepts, stage, notices, agreed, converted>>
  <2>1. PICK row : row = [contract[c] EXCEPT !.countersigned = TRUE] OBVIOUS
  <2>2. /\ row \in ContractRows /\ row.status = contract[c].status
        /\ row.text = contract[c].text /\ row.hashed = contract[c].hashed
    BY <2>1 DEF ContractRows, DocsInv, DocsTypeOK
  <2>3. contract' = [contract EXCEPT ![c] = row] BY <1>2, <2>1
  <2>4. ~LockBroken BY <1>2, <2>2, <2>3, ContractLock
  <2> QED BY <1>2, <2>2, <2>3, <2>4, ContractEdited
<1> QED BY <1>1, <1>2 DEF CountersignContract

LEMMA DraftRow ==
  ASSUME DocsInv, NEW c \in Contracts, NEW text \in Wordings, contract[c].status = "absent",
         NEW row, row = [status |-> "draft", text |-> text, hashed |-> NoTotal,
                         countersigned |-> FALSE],
         UNCHANGED <<proposal, agreed>>, contract' = NewContract(c, text)
  PROVE  /\ row \in ContractRows /\ row.status = "draft"
         /\ contract' = [contract EXCEPT ![c] = row]
         /\ ~LockBroken
<1>1. row \in ContractRows /\ row.status = "draft" BY DEF ContractRows, ContractStates, Wordings
<1>2. contract' = [contract EXCEPT ![c] = row] BY DEF NewContract
<1> QED BY <1>1, <1>2, ContractLock DEF Locked

LEMMA NewContractStep ==
  ASSUME DocsInv, Noted, NEW r \in Requests, NEW c \in Contracts,
         CreateContract(r, c) \/ \E e \in Contracts : DuplicateContract(r, e, c)
  PROVE  DocsInv' /\ ~LockBroken
<1>1. PICK text \in Wordings :
        /\ desk[r] = Resting /\ contract[c].status = "absent"
        /\ contract' = NewContract(c, text)
        /\ UNCHANGED <<proposal, accepts, stage, notices, desk, agreed, converted>>
  BY AgreedTyped DEF CreateContract, DuplicateContract, Wordings, DocsInv, DocsTypeOK
<1>2. PICK row : row = [status |-> "draft", text |-> text, hashed |-> NoTotal,
                        countersigned |-> FALSE]
  OBVIOUS
<1>3. /\ row \in ContractRows /\ row.status = "draft"
      /\ contract' = [contract EXCEPT ![c] = row]
      /\ ~LockBroken BY <1>1, <1>2, DraftRow
<1>4. Leaves(r) BY <1>1 DEF Leaves, DocsInv, DocsTypeOK
<1> QED BY <1>1, <1>3, <1>4, ContractEdited DEF Locked

(* The conversion.                                                         *)

\* Its papers name one amount while its proposal is the one accepted last and
\* nothing was unlocked since the proposal was read.
LEMMA MadeAgrees ==
  ASSUME DocsInv, NEW r \in Requests, desk[r].at = "convert", ~unlocked,
         accepts[Len(accepts)] = desk[r].doc
  PROVE  AgreedTotal = desk[r].row.total
<1>1. Knows(desk[r]) BY DEF DocsInv, DeskInv
<1>2. /\ desk[r].doc \in Proposals /\ Stamped(desk[r].doc)
      /\ proposal[desk[r].doc].status = "accepted"
      /\ proposal[desk[r].doc].total = desk[r].row.total BY <1>1 DEF Knows, Stands
<1> QED BY <1>2, AgreedIsLast DEF DocsInv

LEMMA ConvertStep ==
  ASSUME DocsInv, Noted, NEW r \in Requests, NEW p \in Proposals, ConvertProposal(r, p)
  PROVE  DocsInv' /\ ~LockBroken
<1>1. CASE proposal[p].status = "accepted" /\ ReadsProposal(r, "convert", p)
           /\ UNCHANGED <<rows, notices, agreed, converted>> BY <1>1, ReadProposalStep DEF Places
<1>2. CASE /\ desk[r].at = "convert" /\ desk[r].doc = p
           /\ \E c \in Contracts : /\ contract[c].status = "absent"
                                   /\ contract' = NewContract(c, AgreedTotal)
           /\ converted' = converted \cup
                {<<AgreedTotal, desk[r].row.total, accepts[Len(accepts)] = p>>}
           /\ GoesOn(r, "invoice")
           /\ UNCHANGED <<proposal, accepts, stage, notices, agreed>>
  <2>1. PICK made \in Wordings : made = AgreedTotal BY AgreedTyped DEF DocsInv
  <2>2. PICK c \in Contracts : contract[c].status = "absent" /\ contract' = NewContract(c, made) BY <1>2, <2>1
  <2>3. PICK row : row = [status |-> "draft", text |-> made, hashed |-> NoTotal,
                          countersigned |-> FALSE]
    OBVIOUS
  <2>4. /\ row \in ContractRows /\ row.status = "draft"
        /\ contract' = [contract EXCEPT ![c] = row]
        /\ ~LockBroken BY <1>2, <2>2, <2>3, DraftRow
  <2>5. unlocked' = unlocked BY <2>4 DEF Noted, DocsInv, DocsTypeOK
  <2>6. PICK total \in Wordings : total = desk[r].row.total BY DEF DocsInv, DocsTypeOK, Rows
  <2>7. PICK newest \in BOOLEAN : newest = (accepts[Len(accepts)] = p) OBVIOUS
  <2>8. converted' = converted \cup {<<made, total, newest>>} BY <1>2, <2>1, <2>6, <2>7
  <2>9. made # total => ~newest \/ unlocked BY <1>2, <2>1, <2>6, <2>7, MadeAgrees
  <2>10. ConvertedTotalsAgree' BY <2>5, <2>8, <2>9 DEF ConvertedTotalsAgree, DocsInv
  <2>11. converted' \subseteq Wordings \X Wordings \X BOOLEAN
    <3>1. <<made, total, newest>> \in Wordings \X Wordings \X BOOLEAN OBVIOUS
    <3>2. converted \subseteq Wordings \X Wordings \X BOOLEAN BY DEF DocsInv, DocsTypeOK
    <3> QED BY <2>8, <3>1, <3>2
  <2>12. PICK t : t = [desk[r] EXCEPT !.at = "invoice"] OBVIOUS
  <2>13. t \in DeskRows BY <2>12, WritingRow DEF Places
  <2>14. t.at = "invoice" BY <2>12 DEF DocsInv, DocsTypeOK
  <2>15. Knows(t)' BY <2>14 DEF Knows
  <2>16. desk' = [desk EXCEPT ![r] = t] BY <1>2, <2>12 DEF GoesOn
  <2>17. ~Locked(contract[c].status) BY <2>2 DEF Locked
  <2>18. row.status # "signed" BY <2>4
  <2>19. agreed' \in [Contracts -> Wordings] /\ \A e \in Contracts \ {c} : agreed'[e] = agreed[e]
    BY <1>2 DEF DocsInv, DocsTypeOK
  <2>20. UNCHANGED <<proposal, accepts, stage, notices>> BY <1>2
  <2>21. DocsInv' BY <2>4, <2>10, <2>11, <2>13, <2>15, <2>16, <2>17, <2>18, <2>19, <2>20, ContractWritten
  <2> QED BY <2>4, <2>21
<1>3. CASE Leaves(r) /\ UNCHANGED <<rows, notices, agreed, converted>> BY <1>3, EndStep
<1> QED BY <1>1, <1>2, <1>3 DEF ConvertProposal

LEMMA InitDocsInv == DocsInit => DocsInv
<1> SUFFICES ASSUME DocsInit PROVE DocsInv OBVIOUS
<1> USE DEF DocsInit
<1>1. DocsTypeOK
  <2>1. desk \in [Requests -> DeskRows] BY RestingRow
  <2>2. proposal \in [Proposals -> ProposalRows] BY DEF ProposalRows, ProposalStates, Wordings
  <2>3. contract \in [Contracts -> ContractRows] BY DEF ContractRows, ContractStates, Wordings
  <2>4. accepts \in Seq(Proposals) OBVIOUS
  <2>5. agreed \in [Contracts -> Wordings] BY DEF Wordings
  <2>6. stage \in Stages BY DEF Stages
  <2> QED BY <2>1, <2>2, <2>3, <2>4, <2>5, <2>6 DEF DocsTypeOK, DeskRows, ProposalRows, ContractRows
<1>2. DeskInv BY RestingRow DEF DeskInv
<1>3. StampsInv BY DEF StampsInv
<1>4. NoticesInv BY DEF NoticesInv
<1>5. ConvertedTotalsAgree /\ SignedAsSent BY DEF ConvertedTotalsAgree, SignedAsSent
<1> QED BY <1>1, <1>2, <1>3, <1>4, <1>5 DEF DocsInv

\* Every step keeps the invariant, and only a stale reader's unlocks.
LEMMA DocsStepOK ==
  ASSUME DocsInv, DocsNext
  PROVE  DocsInv' /\ (LockBroken => \E r \in Requests : Stale(desk[r]))
<1>1. PICK r \in Requests :
        \/ \E p \in Proposals : OnProposal(r, p)
        \/ \E c \in Contracts : OnContract(r, c)
        \/ EnqueueDecision(r) \/ MoveProjectStatus(r) \/ RequestEnds(r) BY DEF DocsNext, DocsStep
<1>2. Noted BY DEF DocsNext, Noted
<1>3. ASSUME NEW p \in Proposals, OnProposal(r, p)
      PROVE  DocsInv' /\ (LockBroken => Stale(desk[r]))
  BY <1>2, <1>3, ViewProposalStep, AcceptProposalStep, DeclineProposalStep, NewProposalStep,
     UpdateProposalStep, MarkProposalSentStep, ConvertStep
     DEF OnProposal
<1>4. ASSUME NEW c \in Contracts, OnContract(r, c)
      PROVE  DocsInv' /\ (LockBroken => Stale(desk[r]))
  BY <1>2, <1>4, ViewContractStep, SignContractStep, NewContractStep, UpdateContractStep,
     MarkContractSentStep, CountersignStep
     DEF OnContract
<1>5. CASE EnqueueDecision(r) BY <1>2, <1>5, TellStep
<1>6. CASE MoveProjectStatus(r) BY <1>2, <1>6, BoardStep
<1>7. CASE RequestEnds(r) BY <1>2, <1>7, EndStep DEF RequestEnds
<1> QED BY <1>1, <1>3, <1>4, <1>5, <1>6, <1>7

LEMMA DocsRests == ASSUME DocsInv, UNCHANGED docsVars PROVE DocsInv' /\ ~LockBroken
<1>1. UNCHANGED <<proposal, contract, accepts, stage, notices, desk, agreed, converted, unlocked>>
  BY DEF docsVars, rows
<1>2. ~LockBroken BY <1>1 DEF LockBroken
<1>3. Noted BY <1>1, <1>2 DEF Noted, DocsInv, DocsTypeOK
<1>4. Keeps BY <1>1 DEF Keeps, Stamped
<1>5. DocsTypeOK' BY <1>1 DEF DocsInv, DocsTypeOK
<1>6. DeskInv'
  <2> SUFFICES ASSUME NEW q \in Requests PROVE Knows(desk[q])' BY DEF DeskInv
  <2>1. PICK u : u = desk[q] OBVIOUS
  <2>2. Knows(u) /\ desk'[q] = u BY <1>1, <2>1 DEF DocsInv, DeskInv
  <2>3. Knows(u)' BY <1>3, <1>4, <2>2, KnowsOn DEF DocsInv
  <2> QED BY <2>2, <2>3
<1>7. StampsInv' BY <1>1, StampsOn DEF DocsInv
<1>8. NoticesInv' BY <1>1, <1>3, <1>4, NoticesOn DEF DocsInv
<1>9. ConvertedTotalsAgree' BY <1>1, <1>3, ConvertedOn DEF DocsInv
<1>10. SignedAsSent' BY <1>1, <1>3, SignedOn DEF DocsInv
<1> QED BY <1>2, <1>5, <1>6, <1>7, <1>8, <1>9, <1>10 DEF DocsInv

\* The invariant is inductive (app/public/docs.py, app/admin/proposals.py, contracts.py).
THEOREM DocsInductive == DocsSpec => []DocsInv
<1>1. DocsInit => DocsInv BY InitDocsInv
<1>2. DocsInv /\ [DocsNext]_docsVars => DocsInv' BY DocsStepOK, DocsRests
<1> QED BY <1>1, <1>2, PTL DEF DocsSpec

\* Every variable of the documents' model stays in its type.
THEOREM DocsTypeCorrect == DocsSpec => []DocsTypeOK
<1>1. DocsInv => DocsTypeOK BY DEF DocsInv
<1> QED BY <1>1, DocsInductive, PTL

\* A conversion's papers name one amount, a client signs what was sent, and the owner
\* is told what was decided, unless a sent document was unlocked or another proposal
\* was accepted since, whatever the requests, documents and amounts.
THEOREM PapersHold == DocsSpec => []PapersAgree
<1>1. DocsInv => PapersAgree
  <2> SUFFICES ASSUME DocsInv PROVE NoticesAreTrue BY DEF DocsInv, PapersAgree
  <2> QED BY DEF DocsInv, NoticesInv, NoticesAreTrue, Stamped, Stands
<1> QED BY <1>1, DocsInductive, PTL

\* A sent document, an answer or a signature is written over only by a request that
\* had read the document before it was sent, viewed or answered.
THEOREM LocksHold == DocsSpec => OnlyStaleReadersUnlock
<1>1. DocsInv /\ [DocsNext]_docsVars =>
        [LockBroken => \E r \in Requests : Stale(desk[r])]_docsVars BY DocsStepOK
<1>2. DocsSpec => [][LockBroken => \E r \in Requests : Stale(desk[r])]_docsVars
  BY <1>1, DocsInductive, PTL DEF DocsSpec
<1> QED BY <1>2 DEF OnlyStaleReadersUnlock, Stale

(* Retainer: the inductive invariant                                       *)

\* A plan that was never billed late has at most one draft a month, and none after
\* the month it was last billed for.
BilledUpTo(p) ==
  /\ plan[p].state = "absent" => \A m \in Months : billed[p][m] = 0
  /\ p \notin outrun =>
       \A m \in Months : billed[p][m] <= 1 /\ (billed[p][m] > 0 => m <= plan[p].last)

\* What a biller read of a plan still holds, or the plan was edited since.
EntryHolds(x) ==
  /\ plan[x.plan].state # "absent"
  /\ x.plan \in stale \/ x.total = plan[x.plan].total

\* What the service was asked to draft unasked-for is not in human words, or they
\* were typed since.
AskHolds(a) ==
  a.replace \/ caption[a.caption].body # "human" \/ a.caption \in retyped

PlansInv ==
  /\ \A p \in Plans : BilledUpTo(p)
  /\ \A g \in Billers : \A x \in bench[g].todo : EntryHolds(x)
  /\ misbilled \subseteq stale

WordsInv == clobbered \subseteq retyped /\ \A a \in asking : AskHolds(a)

RetainerInv == RetainerTypeOK /\ PlansInv /\ WordsInv

\* The rows of two tables.
PlanRows == [state : {"absent", "live", "deleted"}, active : BOOLEAN, total : Rates \cup {0},
             late : BOOLEAN, last : 0..MaxMonth]
CaptionRows == [plan : Plans \cup {NoPlan}, slot : Slots \cup {NoSlot},
                body : {"none", "human", "ai"}, status : {"draft", "approved"}]

\* What an edit makes of a plan's row, and of a caption's.
LEMMA EditedPlan ==
  ASSUME plan \in [Plans -> PlanRows], NEW p \in Plans,
         NEW total \in Rates, NEW active \in BOOLEAN, NEW anchor \in BOOLEAN,
         plan' = [plan EXCEPT ![p].total = total, ![p].active = active, ![p].late = anchor]
  PROVE  /\ plan' \in [Plans -> PlanRows]
         /\ plan'[p].last = plan[p].last /\ plan'[p].state = plan[p].state
         /\ \A q \in Plans \ {p} : plan'[q] = plan[q]
<1> DEFINE row == [plan[p] EXCEPT !.total = total, !.active = active, !.late = anchor]
<1>1. plan' = [plan EXCEPT ![p] = row]
  OBVIOUS
<1>2. row \in PlanRows /\ row.last = plan[p].last /\ row.state = plan[p].state BY DEF PlanRows
<1> HIDE DEF row
<1> QED BY <1>1, <1>2

LEMMA EntryShape ==
  ASSUME RetainerInv, NEW g \in Billers, NEW x \in bench[g].todo
  PROVE  EntryHolds(x) /\ x.plan \in Plans
<1>1. bench[g] \in [period : Months, todo : SUBSET Entries] BY DEF RetainerInv, RetainerTypeOK
<1>2. x \in Entries BY <1>1
<1> QED BY <1>2 DEF RetainerInv, PlansInv, Entries

LEMMA RetainerInitially == RetainerInit => RetainerInv
<1> SUFFICES ASSUME RetainerInit PROVE RetainerInv
  OBVIOUS
<1>1. RetainerTypeOK
  <2>0. late \in BOOLEAN BY Zenon DEF RetainerInit
  <2>1. month \in Months BY RetainerAssumption DEF RetainerInit, Months
  <2>2. plan \in [Plans -> PlanRows] BY RetainerAssumption DEF RetainerInit, AbsentPlan, PlanRows
  <2>3. bench \in [Billers -> [period : Months, todo : SUBSET Entries]] BY RetainerAssumption DEF RetainerInit, Months
  <2>4. billed \in [Plans -> [Months -> Nat]] BY DEF RetainerInit
  <2>5. caption \in [Captions -> CaptionRows] /\ \A k \in Captions : caption[k].slot = NoSlot
    BY DEF RetainerInit, AbsentCaption, CaptionRows
  <2>6. slot \in [Slots -> [plan : Plans \cup {NoPlan}, status : {"planned", "shot", "delivered"}]]
    BY DEF RetainerInit, AbsentSlot
  <2> QED BY <2>0, <2>1, <2>2, <2>3, <2>4, <2>5, <2>6 DEF RetainerInit, RetainerTypeOK, PlanRows, CaptionRows
<1>2. PlansInv BY DEF RetainerInit, PlansInv, BilledUpTo, AbsentPlan
<1>3. WordsInv BY DEF RetainerInit, WordsInv
<1> QED BY <1>1, <1>2, <1>3 DEF RetainerInv

\* What is about the content of a plan leaves its bills alone, and conversely.
LEMMA PlansRest == ASSUME PlansInv, UNCHANGED billing PROVE PlansInv'
BY DEF PlansInv, BilledUpTo, EntryHolds, billing, Months

LEMMA WordsRest == ASSUME WordsInv, UNCHANGED content PROVE WordsInv'
BY DEF WordsInv, AskHolds, content

(* Plans and bills *)

LEMMA CreateStep ==
  ASSUME RetainerInv, NEW p \in Plans, CreatePlan(p)
  PROVE  RetainerInv'
<1> USE DEF CreatePlan
<1>1. RetainerTypeOK' BY RetainerAssumption DEF RetainerInv, RetainerTypeOK, AbsentPlan, content
<1>2. PlansInv'
  <2>1. ASSUME NEW q \in Plans PROVE BilledUpTo(q)'
    BY DEF RetainerInv, RetainerTypeOK, PlansInv, BilledUpTo, AbsentPlan, Months
  <2>2. ASSUME NEW g \in Billers, NEW x \in bench[g].todo PROVE EntryHolds(x)'
    <3>1. EntryHolds(x) /\ x.plan \in Plans BY <2>2, EntryShape
    <3> QED BY <3>1 DEF RetainerInv, RetainerTypeOK, EntryHolds, AbsentPlan
  <2> QED BY <2>1, <2>2 DEF RetainerInv, PlansInv
<1> QED BY <1>1, <1>2, WordsRest DEF RetainerInv

LEMMA UpdateStep ==
  ASSUME RetainerInv, NEW p \in Plans, UpdatePlan(p) \/ DeletePlan(p)
  PROVE  RetainerInv'
<1> USE DEF UpdatePlan, DeletePlan, Live
<1>1. plan' \in [Plans -> PlanRows] /\ stale' \subseteq Plans
  <2>1. plan \in [Plans -> PlanRows] /\ stale' \subseteq Plans BY DEF RetainerInv, RetainerTypeOK, PlanRows
  <2>2. CASE UpdatePlan(p)
    <3>1. PICK total \in Rates, active \in BOOLEAN, anchor \in BOOLEAN :
            plan' = [plan EXCEPT ![p].total = total, ![p].active = active, ![p].late = anchor] BY <2>2
    <3> QED BY <2>1, <3>1, EditedPlan
  <2>3. CASE DeletePlan(p) BY <2>1, <2>3 DEF PlanRows
  <2> QED BY <2>2, <2>3
<1>0. RetainerTypeOK' BY <1>1 DEF RetainerInv, RetainerTypeOK, PlanRows, content
<1>2. /\ \A q \in Plans : plan'[q].last = plan[q].last
      /\ \A q \in Plans : plan'[q].state = "absent" => plan[q].state = "absent"
      /\ \A q \in Plans \ {p} : plan'[q] = plan[q]
      /\ UNCHANGED <<billed, bench, outrun, misbilled, content>>
  <2>1. plan \in [Plans -> PlanRows] BY DEF RetainerInv, RetainerTypeOK, PlanRows
  <2>2. CASE UpdatePlan(p)
    <3>1. PICK total \in Rates, active \in BOOLEAN, anchor \in BOOLEAN :
            plan' = [plan EXCEPT ![p].total = total, ![p].active = active, ![p].late = anchor] BY <2>2
    <3> QED BY <2>1, <2>2, <3>1, EditedPlan
  <2>3. CASE DeletePlan(p) BY <2>1, <2>3 DEF PlanRows
  <2> QED BY <2>2, <2>3
<1>3. \/ plan'[p].total = plan[p].total /\ stale' = stale
      \/ stale' = IF ReadBySome(p) THEN stale \cup {p} ELSE stale
  <2>1. CASE UpdatePlan(p) BY <2>1
  <2>2. CASE DeletePlan(p)
    <3>1. plan \in [Plans -> PlanRows] BY DEF RetainerInv, RetainerTypeOK, PlanRows
    <3> QED BY <2>2, <3>1 DEF PlanRows
  <2> QED BY <2>1, <2>2
<1>4. PlansInv'
  <2>1. ASSUME NEW q \in Plans PROVE BilledUpTo(q)' BY <1>2 DEF RetainerInv, PlansInv, BilledUpTo, Months
  <2>2. ASSUME NEW g \in Billers, NEW x \in bench[g].todo PROVE EntryHolds(x)'
    <3>1. EntryHolds(x) /\ x.plan \in Plans BY <2>2, EntryShape
    <3>2. plan'[x.plan].state # "absent" BY <3>1, <1>2 DEF EntryHolds
    <3>3. x.plan \in stale' \/ x.total = plan'[x.plan].total BY <1>2, <1>3, <2>2, <3>1 DEF EntryHolds, ReadBySome
    <3> QED BY <3>2, <3>3 DEF EntryHolds
  <2>3. misbilled' \subseteq stale' BY <1>2, <1>3 DEF RetainerInv, PlansInv
  <2> QED BY <1>2, <2>1, <2>2, <2>3 DEF PlansInv
<1> QED BY <1>0, <1>2, <1>4, WordsRest DEF RetainerInv

\* A biller reads what is due, or gives up what it read.
LEMMA ReadStep ==
  ASSUME RetainerInv,
         \/ RunDuePlans
         \/ \E g \in Buttons, p \in Plans : GenerateDraft(g, p)
         \/ \E g \in Billers : BillingEnds(g)
         \/ ClockMoves
  PROVE  RetainerInv'
<1>1. /\ bench' \in [Billers -> [period : Months, todo : SUBSET Entries]]
      /\ \A g \in Billers : \A x \in bench'[g].todo :
           x \in bench[g].todo \/ \E p \in Plans : Live(p) /\ x = Entry(p)
      /\ UNCHANGED <<plan, billed, outrun, stale, misbilled, content>>
  <2> USE RetainerAssumption DEF RetainerInv, RetainerTypeOK, Entries, Entry, Billable
  <2>1. CASE RunDuePlans
    <3>1. Biller \in Billers BY DEF Billers
    <3>2. PICK due \in SUBSET Plans :
            /\ \A p \in due : Billable(p, month)
            /\ bench' = [bench EXCEPT ![Biller] = [period |-> month, todo |-> {Entry(p) : p \in due}]]
      BY <2>1 DEF RunDuePlans
    <3>3. {Entry(p) : p \in due} \subseteq Entries BY <3>2
    <3> QED BY <2>1, <3>1, <3>2, <3>3 DEF RunDuePlans
  <2>2. ASSUME NEW g \in Buttons, NEW p \in Plans, GenerateDraft(g, p)
        PROVE  <1>1!1 /\ <1>1!2 /\ <1>1!3
    <3>1. g \in Billers /\ Entry(p) \in Entries BY <2>2 DEF Billers, GenerateDraft
    <3> QED BY <2>2, <3>1 DEF GenerateDraft
  <2>3. ASSUME NEW g \in Billers, BillingEnds(g)
        PROVE  <1>1!1 /\ <1>1!2 /\ <1>1!3 BY <2>3 DEF BillingEnds
  <2>4. CASE ClockMoves BY <2>4 DEF ClockMoves
  <2> QED BY <2>1, <2>2, <2>3, <2>4
<1>2. month' \in Months /\ late' \in BOOLEAN
  <2>1. month \in 1..MaxMonth /\ late \in BOOLEAN BY DEF RetainerInv, RetainerTypeOK, Months
  <2>2. CASE ClockMoves BY <2>1, <2>2, RetainerAssumption DEF ClockMoves, Months
  <2>3. CASE ~ClockMoves BY <2>1, <2>3 DEF RunDuePlans, GenerateDraft, BillingEnds, Months
  <2> QED BY <2>2, <2>3
<1>3. RetainerTypeOK' BY <1>1, <1>2 DEF RetainerInv, RetainerTypeOK, content
<1>4. PlansInv'
  <2>1. ASSUME NEW p \in Plans PROVE BilledUpTo(p)' BY <1>1 DEF RetainerInv, PlansInv, BilledUpTo, Months
  <2>2. ASSUME NEW g \in Billers, NEW x \in bench'[g].todo PROVE EntryHolds(x)'
    <3>1. CASE x \in bench[g].todo BY <1>1, <3>1 DEF RetainerInv, PlansInv, EntryHolds
    <3>2. ASSUME NEW p \in Plans, Live(p), x = Entry(p) PROVE EntryHolds(x)' BY <1>1, <3>2 DEF EntryHolds, Entry, Live
    <3> QED BY <1>1, <2>2, <3>1, <3>2
  <2> QED BY <1>1, <2>1, <2>2 DEF RetainerInv, PlansInv
<1> QED BY <1>1, <1>3, <1>4, WordsRest DEF RetainerInv

\* The claim and the draft.
LEMMA GenerateStep ==
  ASSUME RetainerInv, NEW g \in Billers, NEW x \in bench[g].todo, GenerateForPlan(g, x)
  PROVE  RetainerInv'
<1> DEFINE p == x.plan
           m == bench[g].period
<1>1. /\ p \in Plans /\ m \in Months /\ x \in Entries
      /\ bench' = [bench EXCEPT ![g].todo = @ \ {x}]
      /\ bench[g] \in [period : Months, todo : SUBSET Entries]
      /\ UNCHANGED <<month, late, stale, content>> BY DEF RetainerInv, RetainerTypeOK, Entries, GenerateForPlan
<1>2. /\ bench' \in [Billers -> [period : Months, todo : SUBSET Entries]]
      /\ \A h \in Billers : bench'[h].todo \subseteq bench[h].todo BY <1>1 DEF RetainerInv, RetainerTypeOK
<1>3. CASE Billable(p, m)
  <2>1. /\ plan' = [plan EXCEPT ![p].last = m]
        /\ billed' = [billed EXCEPT ![p][m] = @ + 1]
        /\ outrun' = IF m < plan[p].last THEN outrun \cup {p} ELSE outrun
        /\ misbilled' = IF x.total = plan[p].total THEN misbilled ELSE misbilled \cup {p}
        /\ plan[p].last # m /\ plan[p].state = "live" BY <1>3 DEF GenerateForPlan, Billable, Live
  <2>2. /\ m \in Nat /\ plan[p].last \in Nat /\ m \in 0..MaxMonth
        /\ \A q \in Plans : \A n \in Months : billed[q][n] \in Nat /\ n \in Nat
    BY <1>1, RetainerAssumption DEF RetainerInv, RetainerTypeOK, Months
  <2>3. /\ plan' \in [Plans -> PlanRows]
        /\ plan'[p].last = m /\ plan'[p].state = "live" /\ plan'[p].total = plan[p].total
        /\ \A q \in Plans \ {p} : plan'[q] = plan[q]
    <3>1. plan \in [Plans -> PlanRows] BY DEF RetainerInv, RetainerTypeOK, PlanRows
    <3> QED BY <1>1, <2>1, <2>2, <3>1 DEF PlanRows
  <2>4. /\ billed' \in [Plans -> [Months -> Nat]]
        /\ billed'[p][m] = billed[p][m] + 1
        /\ \A n \in Months \ {m} : billed'[p][n] = billed[p][n]
        /\ \A q \in Plans \ {p} : billed'[q] = billed[q] BY <1>1, <2>1, <2>2 DEF RetainerInv, RetainerTypeOK
  <2>5. RetainerTypeOK'
    <3>1. outrun' \subseteq Plans /\ misbilled' \subseteq Plans BY <1>1, <2>1 DEF RetainerInv, RetainerTypeOK
    <3> QED BY <1>1, <1>2, <2>3, <2>4, <3>1 DEF RetainerInv, RetainerTypeOK, PlanRows, content
  <2>6. BilledUpTo(p)'
    <3>1. BilledUpTo(p) BY <1>1 DEF RetainerInv, PlansInv
    <3>2. CASE m < plan[p].last BY <2>1, <2>3, <3>2 DEF BilledUpTo
    <3>3. CASE plan[p].last < m /\ p \notin outrun
      <4>1. billed[p][m] = 0 BY <1>1, <2>2, <3>1, <3>3 DEF BilledUpTo
      <4>2. ASSUME NEW n \in Months
            PROVE  billed'[p][n] <= 1 /\ (billed'[p][n] > 0 => n <= m)
        <5>1. CASE n = m BY <2>2, <2>4, <4>1, <5>1
        <5>2. CASE n # m
          <6>1. billed'[p][n] = billed[p][n] BY <2>4, <4>2, <5>2
          <6>2. billed[p][n] <= 1 /\ (billed[p][n] > 0 => n <= plan[p].last) BY <3>1, <3>3, <4>2 DEF BilledUpTo
          <6> QED BY <1>1, <2>2, <3>3, <6>1, <6>2
        <5> QED BY <5>1, <5>2
      <4> QED BY <2>3, <4>2 DEF BilledUpTo, Months
    <3>4. CASE p \in outrun BY <2>1, <2>3, <3>4 DEF BilledUpTo
    <3> QED BY <2>1, <2>2, <3>2, <3>3, <3>4
  <2>7. ASSUME NEW q \in Plans \ {p} PROVE BilledUpTo(q)'
    <3>1. BilledUpTo(q) /\ plan'[q] = plan[q] /\ billed'[q] = billed[q] /\ (q \in outrun' <=> q \in outrun)
      BY <2>1, <2>3, <2>4 DEF RetainerInv, PlansInv
    <3> QED BY <3>1 DEF BilledUpTo, Months
  <2>8. ASSUME NEW h \in Billers, NEW y \in bench'[h].todo PROVE EntryHolds(y)'
    <3>1. EntryHolds(y) /\ y.plan \in Plans BY <1>2, <2>8 DEF RetainerInv, RetainerTypeOK, PlansInv, Entries
    <3> QED BY <1>1, <2>1, <2>3, <3>1 DEF EntryHolds
  <2>9. misbilled' \subseteq stale'
    <3>1. EntryHolds(x) BY DEF RetainerInv, PlansInv
    <3> QED BY <1>1, <2>1, <3>1 DEF RetainerInv, PlansInv, EntryHolds
  <2> QED BY <1>1, <2>5, <2>6, <2>7, <2>8, <2>9, WordsRest DEF RetainerInv, PlansInv
<1>4. CASE ~Billable(p, m)
  <2>1. UNCHANGED <<plan, billed, outrun, misbilled>> BY <1>4 DEF GenerateForPlan
  <2>2. RetainerTypeOK' BY <1>1, <1>2, <2>1 DEF RetainerInv, RetainerTypeOK, content
  <2>3. \A q \in Plans : BilledUpTo(q)' BY <2>1 DEF RetainerInv, PlansInv, BilledUpTo, Months
  <2>4. ASSUME NEW h \in Billers, NEW y \in bench'[h].todo PROVE EntryHolds(y)'
    <3>1. EntryHolds(y) BY <1>2, <2>4 DEF RetainerInv, PlansInv
    <3> QED BY <1>1, <2>1, <3>1 DEF EntryHolds
  <2> QED BY <1>1, <2>1, <2>2, <2>3, <2>4, WordsRest DEF RetainerInv, PlansInv
<1> QED BY <1>3, <1>4

(* Calendar, captions and deliveries *)

LEMMA SlotStep ==
  ASSUME RetainerInv, NEW s \in Slots,
         \/ \E p \in Plans : AddCalendarSlot(p, s)
         \/ SetCalendarStatus(s) \/ DeleteCalendarSlot(s)
  PROVE  RetainerInv'
<1>1. /\ slot' \in [Slots -> [plan : Plans \cup {NoPlan}, status : {"planned", "shot", "delivered"}]]
      /\ caption' \in [Captions -> CaptionRows]
      /\ \A k \in Captions : caption'[k].body = caption[k].body
      /\ UNCHANGED <<billing, asking, deliveries, clobbered, retyped>>
  <2>1. /\ slot \in [Slots -> [plan : Plans \cup {NoPlan}, status : {"planned", "shot", "delivered"}]]
        /\ caption \in [Captions -> CaptionRows] BY DEF RetainerInv, RetainerTypeOK, CaptionRows
  <2>2. CASE SetCalendarStatus(s) BY <2>1, <2>2 DEF SetCalendarStatus
  <2>3. CASE DeleteCalendarSlot(s)
    <3>1. caption' \in [Captions -> CaptionRows] /\ \A k \in Captions : caption'[k].body = caption[k].body
      BY <2>1, <2>3 DEF DeleteCalendarSlot, Unslotted, CaptionRows
    <3> QED BY <2>1, <2>3, <3>1 DEF DeleteCalendarSlot, AbsentSlot
  <2>4. ASSUME NEW p \in Plans, AddCalendarSlot(p, s)
        PROVE  <1>1!1 /\ <1>1!2 /\ <1>1!3 /\ <1>1!4 BY <2>1, <2>4 DEF AddCalendarSlot
  <2> QED BY <2>2, <2>3, <2>4
<1>2. ASSUME NEW k \in Captions, caption'[k].slot # NoSlot
      PROVE  caption'[k].plan # NoPlan /\ slot'[caption'[k].slot].plan = caption'[k].plan
  <2>1. caption[k].slot # NoSlot => caption[k].plan # NoPlan
                                   /\ slot[caption[k].slot].plan = caption[k].plan BY DEF RetainerInv, RetainerTypeOK
  <2>2. caption[k].slot \in Slots \cup {NoSlot} BY DEF RetainerInv, RetainerTypeOK
  <2>3. CASE DeleteCalendarSlot(s)
    BY <1>2, <2>1, <2>2, <2>3 DEF RetainerInv, RetainerTypeOK, DeleteCalendarSlot, Unslotted, AbsentSlot
  <2>4. CASE SetCalendarStatus(s) BY <1>2, <2>1, <2>2, <2>4 DEF RetainerInv, RetainerTypeOK, SetCalendarStatus
  <2>5. ASSUME NEW p \in Plans, AddCalendarSlot(p, s)
        PROVE  caption'[k].plan # NoPlan /\ slot'[caption'[k].slot].plan = caption'[k].plan
    BY <1>2, <2>1, <2>2, <2>5 DEF RetainerInv, RetainerTypeOK, AddCalendarSlot
  <2> QED BY <2>3, <2>4, <2>5
<1>3. RetainerTypeOK' BY <1>1, <1>2 DEF RetainerInv, RetainerTypeOK, CaptionRows, billing
<1>4. WordsInv'
  <2> SUFFICES ASSUME NEW a \in asking PROVE AskHolds(a)' BY <1>1 DEF RetainerInv, WordsInv
  <2>1. a.caption \in Captions /\ AskHolds(a) BY DEF RetainerInv, RetainerTypeOK, WordsInv
  <2> QED BY <1>1, <2>1 DEF AskHolds
<1> QED BY <1>1, <1>3, <1>4, PlansRest DEF RetainerInv

\* A caption gets another row; its words are typed, drafted, kept or gone.
Rewrites(k, row) ==
  /\ caption' = [caption EXCEPT ![k] = row]
  /\ \/ row.body = "none" /\ retyped' = retyped
     \/ row.body = caption[k].body /\ retyped' = retyped
     \/ row.body = "human" /\ retyped' = TypedOver(k)
  /\ row.slot # NoSlot => row.plan # NoPlan /\ slot[row.slot].plan = row.plan
  /\ UNCHANGED <<billing, slot, asking, deliveries, clobbered>>

LEMMA CaptionStep ==
  ASSUME RetainerInv, NEW k \in Captions,
         \/ \E p \in Plans : AddCaption(p, k)
         \/ UpdateCaption(k) \/ SetCaptionStatus(k) \/ DeleteCaption(k)
  PROVE  RetainerInv'
<1>0. caption \in [Captions -> CaptionRows] /\ caption[k] \in CaptionRows
  BY DEF RetainerInv, RetainerTypeOK, CaptionRows
<1>1. PICK row \in CaptionRows : Rewrites(k, row)
  <2>0. caption[k].slot # NoSlot => caption[k].plan # NoPlan
                                    /\ slot[caption[k].slot].plan = caption[k].plan BY DEF RetainerInv, RetainerTypeOK
  <2>1. ASSUME NEW p \in Plans, AddCaption(p, k) PROVE \E row \in CaptionRows : Rewrites(k, row)
    <3>1. PICK s \in {t \in Slots : slot[t].plan = p} \cup {NoSlot} :
            caption' = [caption EXCEPT ![k] = [plan |-> p, slot |-> s, body |-> "human",
                                               status |-> "draft"]] BY <2>1 DEF AddCaption
    <3> DEFINE row == [plan |-> p, slot |-> s, body |-> "human", status |-> "draft"]
    <3>2. row \in CaptionRows BY DEF CaptionRows
    <3>3. row.slot # NoSlot => row.plan # NoPlan /\ slot[row.slot].plan = row.plan BY RetainerAssumption
    <3> QED BY <2>1, <3>1, <3>2, <3>3 DEF AddCaption, Rewrites
  <2>2. CASE UpdateCaption(k)
    <3> DEFINE row == [caption[k] EXCEPT !.body = "human"]
    <3>1. /\ row \in CaptionRows /\ row.body = "human"
          /\ row.slot = caption[k].slot /\ row.plan = caption[k].plan BY <1>0 DEF CaptionRows
    <3>2. caption' = [caption EXCEPT ![k] = row] BY <2>2 DEF UpdateCaption
    <3> HIDE DEF row
    <3> QED BY <2>0, <2>2, <3>1, <3>2 DEF UpdateCaption, Rewrites
  <2>3. CASE SetCaptionStatus(k)
    <3>1. PICK status \in {"draft", "approved"} : caption' = [caption EXCEPT ![k].status = status]
      BY <2>3 DEF SetCaptionStatus
    <3> DEFINE row == [caption[k] EXCEPT !.status = status]
    <3>2. /\ row \in CaptionRows /\ row.body = caption[k].body
          /\ row.slot = caption[k].slot /\ row.plan = caption[k].plan BY <1>0 DEF CaptionRows
    <3>3. caption' = [caption EXCEPT ![k] = row] BY <3>1
    <3> HIDE DEF row
    <3> QED BY <2>0, <2>3, <3>2, <3>3 DEF SetCaptionStatus, Rewrites
  <2>4. CASE DeleteCaption(k) BY <2>4 DEF DeleteCaption, AbsentCaption, CaptionRows, Rewrites
  <2> QED BY <2>1, <2>2, <2>3, <2>4
<1> USE DEF Rewrites
<1>2. retyped \subseteq retyped' /\ retyped' \subseteq Captions BY <1>1 DEF RetainerInv, RetainerTypeOK, TypedOver
<1>3. RetainerTypeOK'
  <2>1. caption' \in [Captions -> CaptionRows] BY <1>0, <1>1
  <2>2. \A c \in Captions : caption'[c].slot # NoSlot =>
          caption'[c].plan # NoPlan /\ slot[caption'[c].slot].plan = caption'[c].plan
    BY <1>0, <1>1 DEF RetainerInv, RetainerTypeOK
  <2> QED BY <1>1, <1>2, <2>1, <2>2 DEF RetainerInv, RetainerTypeOK, CaptionRows, billing
<1>4. WordsInv'
  <2>1. ASSUME NEW a \in asking PROVE AskHolds(a)'
    <3>1. a.caption \in Captions /\ AskHolds(a) BY DEF RetainerInv, RetainerTypeOK, WordsInv
    <3>2. CASE a.caption # k BY <1>0, <1>1, <1>2, <3>1, <3>2 DEF AskHolds
    <3>3. CASE a.caption = k
      <4>1. k \in TypedOver(k) BY <3>3 DEF TypedOver, Asked
      <4> QED BY <1>0, <1>1, <1>2, <3>1, <3>3, <4>1 DEF AskHolds
    <3> QED BY <3>2, <3>3
  <2> QED BY <1>1, <1>2, <2>1 DEF RetainerInv, WordsInv
<1> QED BY <1>1, <1>3, <1>4, PlansRest DEF RetainerInv

\* The drafting service is asked, and answers.
LEMMA AskStep ==
  ASSUME RetainerInv, NEW k \in Captions, NEW replace \in BOOLEAN, DraftCaptionAsk(k, replace)
  PROVE  RetainerInv'
<1>1. /\ asking' = asking \cup {[caption |-> k, replace |-> replace]}
      /\ UNCHANGED <<billing, slot, caption, deliveries, clobbered, retyped>>
      /\ caption[k].body = "human" => replace BY DEF DraftCaptionAsk, IsHumanBody
<1>2. RetainerTypeOK' BY <1>1 DEF RetainerInv, RetainerTypeOK, billing
<1>3. WordsInv' BY <1>1 DEF RetainerInv, WordsInv, AskHolds
<1> QED BY <1>1, <1>2, <1>3, PlansRest DEF RetainerInv

LEMMA AnswerStep ==
  ASSUME RetainerInv, NEW a \in asking, DraftCaptionAnswer(a)
  PROVE  RetainerInv'
<1>1. a.caption \in Captions /\ AskHolds(a) /\ a \in [caption : Captions, replace : BOOLEAN]
  BY DEF RetainerInv, RetainerTypeOK, WordsInv
<1>2. /\ asking' = asking \ {a}
      /\ UNCHANGED <<billing, slot, deliveries, retyped>>
      /\ \/ UNCHANGED <<caption, clobbered>>
         \/ /\ caption' = [caption EXCEPT ![a.caption].body = "ai"]
            /\ clobbered' = IF caption[a.caption].body = "human" /\ ~a.replace
                            THEN clobbered \cup {a.caption} ELSE clobbered BY DEF DraftCaptionAnswer
<1>3. RetainerTypeOK'
  <2>1. CASE UNCHANGED <<caption, clobbered>> BY <1>2, <2>1 DEF RetainerInv, RetainerTypeOK, billing
  <2>2. CASE caption' = [caption EXCEPT ![a.caption].body = "ai"]
    <3>1. /\ caption' \in [Captions -> CaptionRows]
          /\ \A k \in Captions : caption'[k].slot = caption[k].slot /\ caption'[k].plan = caption[k].plan
      <4>1. caption \in [Captions -> CaptionRows] BY DEF RetainerInv, RetainerTypeOK, CaptionRows
      <4> QED BY <1>1, <2>2, <4>1 DEF CaptionRows
    <3>2. clobbered' \subseteq Captions BY <1>1, <1>2 DEF RetainerInv, RetainerTypeOK
    <3> QED BY <1>2, <3>1, <3>2 DEF RetainerInv, RetainerTypeOK, CaptionRows, billing
  <2> QED BY <1>2, <2>1, <2>2
<1>4. WordsInv'
  <2>1. ASSUME NEW b \in asking' PROVE AskHolds(b)'
    <3>1. b.caption \in Captions /\ AskHolds(b) BY <1>2, <2>1 DEF RetainerInv, RetainerTypeOK, WordsInv
    <3> QED BY <1>1, <1>2, <3>1 DEF RetainerInv, RetainerTypeOK, AskHolds
  <2>2. clobbered' \subseteq retyped' BY <1>1, <1>2 DEF RetainerInv, WordsInv, AskHolds
  <2> QED BY <2>1, <2>2 DEF WordsInv
<1> QED BY <1>2, <1>3, <1>4, PlansRest DEF RetainerInv

LEMMA DeliveryStep ==
  ASSUME RetainerInv, NEW p \in Plans, LogDelivery(p) \/ DeleteDelivery(p)
  PROVE  RetainerInv'
<1>1. deliveries' \in Nat /\ UNCHANGED <<billing, slot, caption, asking, clobbered, retyped>>
  BY DEF RetainerInv, RetainerTypeOK, LogDelivery, DeleteDelivery
<1>2. RetainerTypeOK' BY <1>1 DEF RetainerInv, RetainerTypeOK, billing
<1>3. WordsInv' BY <1>1 DEF RetainerInv, WordsInv, AskHolds
<1> QED BY <1>1, <1>2, <1>3, PlansRest DEF RetainerInv

(* The theorems *)

\* RetainerInv is inductive.
THEOREM RetainerInductive == RetainerSpec => []RetainerInv
<1>1. RetainerInv /\ [RetainerNext]_retainerVars => RetainerInv'
  <2> SUFFICES ASSUME RetainerInv, [RetainerNext]_retainerVars PROVE RetainerInv'
    OBVIOUS
  <2>1. ASSUME \/ RunDuePlans \/ ClockMoves
               \/ \E g \in Buttons, p \in Plans : GenerateDraft(g, p)
               \/ \E g \in Billers : BillingEnds(g)
        PROVE  RetainerInv' BY <2>1, ReadStep
  <2>2. ASSUME NEW p \in Plans, CreatePlan(p) \/ UpdatePlan(p) \/ DeletePlan(p) PROVE RetainerInv'
    BY <2>2, CreateStep, UpdateStep
  <2>3. ASSUME NEW p \in Plans, LogDelivery(p) \/ DeleteDelivery(p) PROVE RetainerInv' BY <2>3, DeliveryStep
  <2>4. ASSUME NEW g \in Billers, NEW x \in bench[g].todo, GenerateForPlan(g, x) PROVE RetainerInv'
    BY <2>4, GenerateStep
  <2>5. ASSUME NEW s \in Slots,
               \/ \E p \in Plans : AddCalendarSlot(p, s)
               \/ SetCalendarStatus(s) \/ DeleteCalendarSlot(s)
        PROVE  RetainerInv' BY <2>5, SlotStep
  <2>6. ASSUME NEW k \in Captions,
               \/ \E p \in Plans : AddCaption(p, k)
               \/ UpdateCaption(k) \/ SetCaptionStatus(k) \/ DeleteCaption(k)
        PROVE  RetainerInv' BY <2>6, CaptionStep
  <2>7. ASSUME NEW k \in Captions, NEW replace \in BOOLEAN, DraftCaptionAsk(k, replace) PROVE RetainerInv'
    BY <2>7, AskStep
  <2>8. ASSUME NEW a \in asking, DraftCaptionAnswer(a) PROVE RetainerInv' BY <2>8, AnswerStep
  <2>9. CASE UNCHANGED retainerVars
    <3>1. RetainerTypeOK' BY <2>9 DEF retainerVars, billing, content, RetainerInv, RetainerTypeOK
    <3> QED BY <2>9, <3>1, PlansRest, WordsRest DEF retainerVars, RetainerInv
  <2> QED BY <2>1, <2>2, <2>3, <2>4, <2>5, <2>6, <2>7, <2>8, <2>9 DEF RetainerNext
<1> QED BY <1>1, RetainerInitially, PTL DEF RetainerSpec

\* Every variable stays in its type, and a caption's slot is one of its own plan.
THEOREM RetainerTypeCorrect == RetainerSpec => []RetainerTypeOK
BY RetainerInductive, PTL DEF RetainerInv

\* However clicks and sweeps overlap, a month has one draft, at the plan's total,
\* unless it was billed after a later one or the plan was edited after it was read
\* (app/admin/recurring.py:583).
THEOREM RetainerBillsOnce == RetainerSpec => []OneDraftPerPeriod
<1>1. RetainerInv => OneDraftPerPeriod
  <2> SUFFICES ASSUME RetainerInv PROVE OneDraftPerPeriod
    OBVIOUS
  <2>1. ASSUME NEW p \in Plans, NEW m \in Months, p \notin outrun PROVE ~(billed[p][m] > 1)
    <3>1. billed[p][m] \in Nat /\ billed[p][m] <= 1 BY <2>1 DEF RetainerInv, RetainerTypeOK, PlansInv, BilledUpTo
    <3> QED BY <3>1
  <2> QED BY <2>1 DEF RetainerInv, PlansInv, OneDraftPerPeriod
<1> QED BY <1>1, RetainerInductive, PTL

\* Human words are drafted over unasked only if they were typed while the service
\* was at work (app/admin/recurring.py:485).
THEOREM RetainerKeepsWords == RetainerSpec => []HumanWordsSurvive
<1>1. RetainerInv => HumanWordsSurvive BY DEF RetainerInv, WordsInv, HumanWordsSurvive
<1> QED BY <1>1, RetainerInductive, PTL

\* Clicks, sweeps, edits and drafting services, however they overlap, neither bill a
\* month twice nor draft over a person's words, but for the causes named
\* (app/admin/recurring.py:485, 583).
THEOREM RetainerHolds == RetainerSpec => []RetainersHold
BY RetainerBillsOnce, RetainerKeepsWords, PTL DEF RetainersHold

(* Licences                                                                *)

(* Recursive functions over the naturals.                                  *)

\* Induction, over a set: the library's theorem takes an operator.
LEMMA SetInduction ==
  ASSUME NEW T, 0 \in T, \A n \in Nat : n \in T => n + 1 \in T
  PROVE  \A n \in Nat : n \in T
<1> SUFFICES ASSUME Nat \ T # {} PROVE FALSE OBVIOUS
<1> DEFINE Less == {l \in Nat \X Nat : l[1] < l[2]}
<1>1. IsWellFoundedOn(Less, Nat) BY NatLessThanWellFounded DEF OpToRel
<1>2. PICK k \in Nat \ T : \A j \in Nat \ T : ~(<<j, k>> \in Less)
  <2> HIDE DEF Less
  <2> QED BY <1>1, WFMin, Nat \ T \subseteq Nat
<1>3. k # 0 /\ k - 1 \in Nat /\ k - 1 < k /\ (k - 1) + 1 = k BY <1>2
<1>4. k - 1 \in T BY <1>2, <1>3
<1> QED BY <1>2, <1>3, <1>4

\* A step function iterates from any starting value.
LEMMA Iterates ==
  ASSUME NEW D, NEW x \in D, NEW s \in [D -> D]
  PROVE  \E f \in [Nat -> D] : f[0] = x /\ \A n \in Nat : f[n + 1] = s[f[n]]
<1> DEFINE Runs(n) == {g \in [0..n -> D] : g[0] = x /\ \A i \in Nat : i + 1 <= n => g[i + 1] = s[g[i]]}
<1>1. \A n \in Nat : Runs(n) # {}
  <2> DEFINE T == {n \in Nat : Runs(n) # {}}
  <2>1. 0 \in T
    <3>1. [i \in 0..0 |-> x] \in Runs(0) OBVIOUS
    <3> QED BY <3>1
  <2>2. ASSUME NEW n \in Nat, n \in T PROVE n + 1 \in T
    <3>1. PICK g \in Runs(n) : TRUE BY <2>2
    <3> DEFINE h == [i \in 0..(n + 1) |-> IF i = n + 1 THEN s[g[n]] ELSE g[i]]
    <3>2. h \in [0..(n + 1) -> D] /\ h[0] = x BY <3>1
    <3>3. ASSUME NEW i \in Nat, i + 1 <= n + 1 PROVE h[i + 1] = s[h[i]]
      <4>1. CASE i = n BY <4>1, <3>1
      <4>2. CASE i # n
        <5>1. i + 1 <= n /\ i \in 0..n /\ i + 1 \in 0..n BY <4>2, <3>3
        <5>2. g[i + 1] = s[g[i]] BY <5>1, <3>1
        <5> QED BY <5>1, <5>2
      <4> QED BY <4>1, <4>2
    <3> HIDE DEF h
    <3>4. h \in Runs(n + 1) BY <3>2, <3>3
    <3>5. Runs(n + 1) # {} /\ n + 1 \in Nat BY <3>4
    <3> HIDE DEF Runs
    <3> QED BY <3>5
  <2> HIDE DEF T
  <2>3. \A n \in Nat : n \in T BY <2>1, <2>2, SetInduction
  <2> QED BY <2>3 DEF T
<1>2. ASSUME NEW m \in Nat, NEW n \in Nat, NEW g \in Runs(m), NEW h \in Runs(n)
      PROVE  \A i \in Nat : i <= m /\ i <= n => g[i] = h[i]
  <2> DEFINE T == {i \in Nat : i <= m /\ i <= n => g[i] = h[i]}
  <2>1. 0 \in T OBVIOUS
  <2>2. ASSUME NEW i \in Nat, i \in T PROVE i + 1 \in T
    <3> SUFFICES ASSUME i + 1 <= m, i + 1 <= n PROVE g[i + 1] = h[i + 1] OBVIOUS
    <3>1. g[i] = h[i] BY <2>2
    <3>2. g[i + 1] = s[g[i]] /\ h[i + 1] = s[h[i]] OBVIOUS
    <3> QED BY <3>1, <3>2
  <2> HIDE DEF T
  <2>3. \A i \in Nat : i \in T BY <2>1, <2>2, SetInduction
  <2> QED BY <2>3 DEF T
<1> DEFINE run(n) == CHOOSE g \in Runs(n) : TRUE
           f == [n \in Nat |-> run(n)[n]]
<1>3. \A n \in Nat : run(n) \in Runs(n) BY <1>1
<1> HIDE DEF run
<1>4. f \in [Nat -> D]
  <2>1. \A n \in Nat : run(n)[n] \in D BY <1>3
  <2> QED BY <2>1
<1>5. f[0] = x BY <1>3
<1>6. ASSUME NEW n \in Nat PROVE f[n + 1] = s[f[n]]
  <2>1. run(n) \in Runs(n) /\ run(n + 1) \in Runs(n + 1) BY <1>3
  <2>2. run(n + 1)[n + 1] = s[run(n + 1)[n]] BY <2>1
  <2>3. run(n + 1)[n] = run(n)[n]
    <3> HIDE DEF Runs
    <3> QED BY <2>1, <1>2
  <2> QED BY <2>2, <2>3
<1> QED BY <1>4, <1>5, <1>6

(* The two walks.                                                          *)

\* A parent for every client that may be there.
Parents == parent \in [ClientIds -> clients \cup {NoClient}] /\ clients \subseteq ClientIds

\* The walk to the parents, one step at a time: what the recursive definition computes at n + 1.
LEMMA AboveStep ==
  ASSUME Parents, NEW c \in ClientIds
  PROVE  /\ Above(c) \in [Nat -> ClientIds \cup {NoClient}]
         /\ Above(c)[0] = c
         /\ \A n \in Nat : Above(c)[n + 1] = IF Above(c)[n] = NoClient THEN NoClient
                                             ELSE parent[Above(c)[n]]
<1> DEFINE D == ClientIds \cup {NoClient}
           s == [v \in D |-> IF v = NoClient THEN NoClient ELSE parent[v]]
           Eq(up) == [n \in Nat |-> IF n = 0 THEN c
                                    ELSE IF up[n - 1] = NoClient THEN NoClient ELSE parent[up[n - 1]]]
<1>1. s \in [D -> D] BY DEF Parents
<1>2. PICK f \in [Nat -> D] : f[0] = c /\ \A n \in Nat : f[n + 1] = s[f[n]]
  <2> HIDE DEF s, D
  <2>1. c \in D BY DEF D
  <2> QED BY <1>1, <2>1, Iterates
<1>3. f = Eq(f)
  <2>1. ASSUME NEW n \in Nat PROVE f[n] = Eq(f)[n]
    <3>1. CASE n = 0 BY <3>1, <1>2
    <3>2. CASE n # 0
      <4>1. n - 1 \in Nat /\ (n - 1) + 1 = n BY <3>2
      <4>2. f[n] = s[f[n - 1]] BY <4>1, <1>2
      <4>3. f[n - 1] \in D BY <4>1, <1>2
      <4> QED BY <3>2, <4>2, <4>3
    <3> QED BY <3>1, <3>2
  <2> QED BY <2>1, <1>2
<1>4. Above(c) = CHOOSE up : up = Eq(up) BY DEF Above
<1>5. Above(c) = Eq(Above(c)) BY <1>3, <1>4
<1>6. \A n \in Nat : Above(c)[n] = Eq(Above(c))[n] BY <1>5
<1>7. Above(c)[0] = c BY <1>6
<1>8. ASSUME NEW n \in Nat
      PROVE  Above(c)[n + 1] = IF Above(c)[n] = NoClient THEN NoClient ELSE parent[Above(c)[n]]
  <2>1. n + 1 \in Nat /\ n + 1 # 0 /\ (n + 1) - 1 = n OBVIOUS
  <2> QED BY <2>1, <1>6
<1>9. \A n \in Nat : Above(c)[n] \in D
  <2> DEFINE T == {n \in Nat : Above(c)[n] \in D}
  <2>1. 0 \in T BY <1>7
  <2>2. ASSUME NEW n \in Nat, n \in T PROVE n + 1 \in T
    <3>1. Above(c)[n] \in D BY <2>2
    <3> QED BY <3>1, <1>8 DEF Parents
  <2> HIDE DEF T
  <2>3. \A n \in Nat : n \in T BY <2>1, <2>2, SetInduction
  <2> QED BY <2>3 DEF T
<1>10. Above(c) = [n \in Nat |-> Above(c)[n]] BY <1>5
<1> QED BY <1>7, <1>8, <1>9, <1>10

\* The same of the walk to the children.
LEMMA BelowStep ==
  ASSUME Parents, NEW c \in ClientIds
  PROVE  /\ \A n \in Nat : Below(c)[n] \subseteq ClientIds
         /\ Below(c)[0] = {c}
         /\ \A n \in Nat : Below(c)[n + 1] = {d \in clients : parent[d] \in Below(c)[n]}
<1> DEFINE D == SUBSET ClientIds
           s == [V \in D |-> {d \in clients : parent[d] \in V}]
           Eq(down) == [n \in Nat |-> IF n = 0 THEN {c} ELSE {d \in clients : parent[d] \in down[n - 1]}]
<1>1. s \in [D -> D] BY DEF Parents
<1>2. PICK f \in [Nat -> D] : f[0] = {c} /\ \A n \in Nat : f[n + 1] = s[f[n]]
  <2>1. {c} \in D OBVIOUS
  <2> HIDE DEF s, D
  <2> QED BY <1>1, <2>1, Iterates
<1>3. f = Eq(f)
  <2>1. ASSUME NEW n \in Nat PROVE f[n] = Eq(f)[n]
    <3>1. CASE n = 0 BY <3>1, <1>2
    <3>2. CASE n # 0
      <4>1. n - 1 \in Nat /\ (n - 1) + 1 = n BY <3>2
      <4>2. f[n] = s[f[n - 1]] BY <4>1, <1>2
      <4>3. f[n - 1] \in D BY <4>1, <1>2
      <4> QED BY <3>2, <4>2, <4>3
    <3> QED BY <3>1, <3>2
  <2> QED BY <2>1, <1>2
<1>4. Below(c) = CHOOSE down : down = Eq(down) BY DEF Below
<1>5. Below(c) = Eq(Below(c)) BY <1>3, <1>4
<1>6. \A n \in Nat : Below(c)[n] = Eq(Below(c))[n] BY <1>5
<1>7. Below(c)[0] = {c} BY <1>6
<1>8. ASSUME NEW n \in Nat
      PROVE  Below(c)[n + 1] = {d \in clients : parent[d] \in Below(c)[n]}
  <2>1. n + 1 \in Nat /\ n + 1 # 0 /\ (n + 1) - 1 = n OBVIOUS
  <2> QED BY <2>1, <1>6
<1>9. ASSUME NEW n \in Nat PROVE Below(c)[n] \subseteq ClientIds
  <2>1. Below(c)[n] = Eq(Below(c))[n] BY <1>6
  <2> QED BY <2>1 DEF Parents
<1> QED BY <1>7, <1>8, <1>9

\* From a client with a parent, the walk goes on as the parent's does.
LEMMA AboveParent ==
  ASSUME Parents, ClientTreeAssumption, NEW c \in ClientIds
  PROVE  /\ parent[c] = NoClient => \A n \in Nat : Above(c)[n + 1] = NoClient
         /\ parent[c] # NoClient => \A n \in Nat : Above(c)[n + 1] = Above(parent[c])[n]
<1>0. c # NoClient BY DEF ClientTreeAssumption
<1>1. ASSUME parent[c] = NoClient PROVE \A n \in Nat : Above(c)[n + 1] = NoClient
  <2> DEFINE T == {n \in Nat : Above(c)[n + 1] = NoClient}
  <2>1. 0 \in T
    <3>1. Above(c)[0 + 1] = parent[c] BY <1>0, AboveStep
    <3> QED BY <3>1, <1>1
  <2>2. ASSUME NEW n \in Nat, n \in T PROVE n + 1 \in T
    <3>1. n + 1 \in Nat /\ Above(c)[n + 1] = NoClient BY <2>2
    <3>2. Above(c)[(n + 1) + 1] = NoClient BY <3>1, AboveStep
    <3> QED BY <3>1, <3>2
  <2> HIDE DEF T
  <2>3. \A n \in Nat : n \in T BY <2>1, <2>2, SetInduction
  <2> QED BY <2>3 DEF T
<1>2. ASSUME parent[c] # NoClient PROVE \A n \in Nat : Above(c)[n + 1] = Above(parent[c])[n]
  <2>0. parent[c] \in ClientIds BY <1>2 DEF Parents
  <2> DEFINE T == {n \in Nat : Above(c)[n + 1] = Above(parent[c])[n]}
  <2>1. 0 \in T
    <3>1. Above(c)[0 + 1] = parent[c] BY <1>0, AboveStep
    <3>2. Above(parent[c])[0] = parent[c] BY <2>0, AboveStep
    <3> QED BY <3>1, <3>2
  <2>2. ASSUME NEW n \in Nat, n \in T PROVE n + 1 \in T
    <3>1. n + 1 \in Nat /\ Above(c)[n + 1] = Above(parent[c])[n] BY <2>2
    <3>2. Above(c)[(n + 1) + 1] = IF Above(c)[n + 1] = NoClient THEN NoClient
                                  ELSE parent[Above(c)[n + 1]] BY <3>1, AboveStep
    <3>3. Above(parent[c])[n + 1] = IF Above(parent[c])[n] = NoClient THEN NoClient
                                    ELSE parent[Above(parent[c])[n]] BY <2>0, AboveStep
    <3> QED BY <3>1, <3>2, <3>3
  <2> HIDE DEF T
  <2>3. \A n \in Nat : n \in T BY <2>1, <2>2, SetInduction
  <2> QED BY <2>3 DEF T
<1> QED BY <1>1, <1>2

\* The walk down finds at a depth whoever's walk up comes back at that depth.
LEMMA WalksAgree ==
  ASSUME Parents, ClientTreeAssumption, NEW c \in ClientIds
  PROVE  \A n \in Nat : \A d \in clients : d \in Below(c)[n] <=> Above(d)[n] = c
<1>0. c # NoClient /\ clients \subseteq ClientIds BY DEF ClientTreeAssumption, Parents
<1> DEFINE T == {n \in Nat : \A d \in clients : d \in Below(c)[n] <=> Above(d)[n] = c}
<1>1. 0 \in T
  <2>1. \A d \in clients : Above(d)[0] = d BY <1>0, AboveStep
  <2>2. Below(c)[0] = {c} BY BelowStep
  <2> QED BY <2>1, <2>2
<1>2. ASSUME NEW n \in Nat, n \in T PROVE n + 1 \in T
  <2> SUFFICES ASSUME NEW d \in clients
               PROVE  d \in Below(c)[n + 1] <=> Above(d)[n + 1] = c
    OBVIOUS
  <2>0. d \in ClientIds BY <1>0
  <2>1. d \in Below(c)[n + 1] <=> parent[d] \in Below(c)[n] BY BelowStep
  <2>2. CASE parent[d] = NoClient
    <3>1. Above(d)[n + 1] = NoClient BY <2>0, <2>2, AboveParent
    <3>2. Below(c)[n] \subseteq ClientIds BY BelowStep
    <3> QED BY <1>0, <2>1, <2>2, <3>1, <3>2 DEF ClientTreeAssumption
  <2>3. CASE parent[d] # NoClient
    <3>1. parent[d] \in clients BY <2>0, <2>3 DEF Parents
    <3>2. Above(d)[n + 1] = Above(parent[d])[n] BY <2>0, <2>3, AboveParent
    <3>3. parent[d] \in Below(c)[n] <=> Above(parent[d])[n] = c BY <1>2, <3>1
    <3> QED BY <2>1, <3>2, <3>3
  <2> QED BY <2>2, <2>3
<1> HIDE DEF T
<1>3. \A n \in Nat : n \in T BY <1>1, <1>2, SetInduction
<1> QED BY <1>3 DEF T

\* ancestor_ids and descendant_ids are each other's inverse.
LEMMA InverseWalks ==
  ASSUME Parents, ClientTreeAssumption, NEW h \in ClientIds, NEW c \in clients, c # h
  PROVE  c \in Descendants(h) <=> h \in Ancestors(c)
<1>1. Depths \subseteq Nat BY DEF Depths
<1>2. h # NoClient BY DEF ClientTreeAssumption
<1>3. \A n \in Depths : c \in Below(h)[n] <=> Above(c)[n] = h BY <1>1, WalksAgree
<1> QED BY <1>2, <1>3 DEF Descendants, Ancestors

(* The forest.  Who is not above whom is told by a set that is closed under *)
(* parents, of which both walks and every change of the tree keep inside.  *)

Upward(f, S) == \A x \in S : f[x] \in S \cup {NoClient}

\* c is not above p, nor p itself.
Apart(f, p, c) == \E S \in SUBSET ClientIds : p \in S /\ c \notin S /\ Upward(f, S)

Forest(f) == \A c \in ClientIds : f[c] # NoClient => Apart(f, f[c], c)

\* Every client keeps its parent or loses it.
Fewer(f, g) == \A c \in ClientIds : g[c] \in {f[c], NoClient}

\* Who is apart stays so when links are only removed.
LEMMA FewerApart ==
  ASSUME NEW f, NEW g, Fewer(f, g), NEW p, NEW c, Apart(f, p, c)
  PROVE  Apart(g, p, c)
<1>1. PICK S \in SUBSET ClientIds : p \in S /\ c \notin S /\ Upward(f, S) BY DEF Apart
<1>2. Upward(g, S)
  <2> SUFFICES ASSUME NEW x \in S PROVE g[x] \in S \cup {NoClient} BY DEF Upward
  <2>1. g[x] \in {f[x], NoClient} BY DEF Fewer
  <2>2. f[x] \in S \cup {NoClient} BY <1>1 DEF Upward
  <2> QED BY <2>1, <2>2
<1> QED BY <1>1, <1>2 DEF Apart

\* And a forest stays one.
LEMMA FewerForest ==
  ASSUME NEW f, NEW g, Fewer(f, g), Forest(f)
  PROVE  Forest(g)
<1> SUFFICES ASSUME NEW c \in ClientIds, g[c] # NoClient PROVE Apart(g, g[c], c) BY DEF Forest
<1>1. g[c] = f[c] BY DEF Fewer
<1>2. Apart(f, f[c], c) BY <1>1 DEF Forest
<1> QED BY <1>1, <1>2, FewerApart

\* A new edge to a client that is not below makes no cycle.
LEMMA NewEdge ==
  ASSUME ClientTreeAssumption, NEW f \in [ClientIds -> ClientIds \cup {NoClient}], Forest(f),
         NEW c \in ClientIds, NEW p \in ClientIds, Apart(f, p, c)
  PROVE  Forest([f EXCEPT ![c] = p])
<1> DEFINE g == [f EXCEPT ![c] = p]
<1>0. g[c] = p /\ \A x \in ClientIds \ {c} : g[x] = f[x] OBVIOUS
<1> HIDE DEF g
<1>1. PICK S \in SUBSET ClientIds : p \in S /\ c \notin S /\ Upward(f, S) BY DEF Apart
<1> SUFFICES ASSUME NEW d \in ClientIds, g[d] # NoClient PROVE Apart(g, g[d], d) BY DEF Forest, g
<1>2. Upward(g, S) BY <1>0, <1>1 DEF Upward
<1>3. CASE d = c BY <1>0, <1>1, <1>2, <1>3 DEF Apart
<1>4. CASE d # c
  <2>1. g[d] = f[d] BY <1>0, <1>4
  <2>2. PICK T \in SUBSET ClientIds : f[d] \in T /\ d \notin T /\ Upward(f, T)
    <3>1. Apart(f, f[d], d) BY <2>1 DEF Forest
    <3> QED BY <3>1 DEF Apart
  <2>3. CASE d \notin S
    <3>1. Upward(g, S \cup T)
      <4> SUFFICES ASSUME NEW x \in S \cup T PROVE g[x] \in (S \cup T) \cup {NoClient} BY DEF Upward
      <4>1. CASE x = c BY <4>1, <1>0, <1>1
      <4>2. CASE x # c
        <5>1. g[x] = f[x] BY <4>2, <1>0
        <5>2. f[x] \in (S \cup T) \cup {NoClient} BY <1>1, <2>2 DEF Upward
        <5> QED BY <5>1, <5>2
      <4> QED BY <4>1, <4>2
    <3>2. g[d] \in S \cup T /\ d \notin S \cup T /\ S \cup T \in SUBSET ClientIds BY <2>1, <2>2, <2>3
    <3> QED BY <3>1, <3>2 DEF Apart
  <2>4. CASE d \in S
    <3>1. Upward(g, S \cap T)
      <4> SUFFICES ASSUME NEW x \in S \cap T PROVE g[x] \in (S \cap T) \cup {NoClient} BY DEF Upward
      <4>1. g[x] = f[x] BY <1>0, <1>1
      <4>2. f[x] \in S \cup {NoClient} /\ f[x] \in T \cup {NoClient} BY <1>1, <2>2 DEF Upward
      <4> QED BY <4>1, <4>2
    <3>2. f[d] \in S
      <4>1. f[d] \in S \cup {NoClient} BY <2>4, <1>1 DEF Upward
      <4> QED BY <4>1, <2>1
    <3>3. g[d] \in S \cap T /\ d \notin S \cap T /\ S \cap T \in SUBSET ClientIds BY <2>1, <2>2, <3>2
    <3> QED BY <3>1, <3>3 DEF Apart
  <2> QED BY <2>3, <2>4
<1> QED BY <1>3, <1>4

\* In a forest every walk up ends without coming back.
LEMMA ForestWalksEnd ==
  ASSUME ClientTreeAssumption, Parents, Forest(parent), NEW c \in ClientIds
  PROVE  WalkEnds(c)
<1>0. c # NoClient BY DEF ClientTreeAssumption
<1> SUFFICES ASSUME NEW n \in Depths PROVE Above(c)[n] # c BY DEF WalkEnds
<1>1. n - 1 \in Nat /\ (n - 1) + 1 = n BY DEF Depths
<1>2. CASE parent[c] = NoClient
  <2>1. Above(c)[n] = NoClient BY <1>1, <1>2, AboveParent
  <2> QED BY <1>0, <2>1
<1>3. CASE parent[c] # NoClient
  <2>0. parent[c] \in ClientIds BY <1>3 DEF Parents
  <2>1. PICK S \in SUBSET ClientIds : parent[c] \in S /\ c \notin S /\ Upward(parent, S) BY <1>3 DEF Forest, Apart
  <2> DEFINE T == {k \in Nat : Above(parent[c])[k] \in S \cup {NoClient}}
  <2>2. 0 \in T BY <2>0, <2>1, AboveStep
  <2>3. ASSUME NEW k \in Nat, k \in T PROVE k + 1 \in T
    <3>1. Above(parent[c])[k + 1] = IF Above(parent[c])[k] = NoClient THEN NoClient
                                    ELSE parent[Above(parent[c])[k]] BY <2>0, AboveStep
    <3>2. Above(parent[c])[k] \in S \cup {NoClient} BY <2>3
    <3>3. Above(parent[c])[k + 1] \in S \cup {NoClient} BY <2>1, <3>1, <3>2 DEF Upward
    <3> QED BY <3>3
  <2> HIDE DEF T
  <2>4. \A k \in Nat : k \in T BY <2>2, <2>3, SetInduction
  <2>5. Above(parent[c])[n - 1] \in S \cup {NoClient} BY <1>1, <2>4 DEF T
  <2>6. Above(c)[n] = Above(parent[c])[n - 1] BY <1>1, <1>3, AboveParent
  <2> QED BY <1>0, <2>1, <2>5, <2>6
<1> QED BY <1>2, <1>3

\* The check of a new parent: a client that the walk down from c, of as many steps
\* as there are ids, has not found is apart from c.
LEMMA CheckedApart ==
  ASSUME ClientTreeAssumption, Parents, NEW c \in clients, NEW p \in clients, p # c,
         p \notin Descendants(c)
  PROVE  Apart(parent, p, c)
<1>0. c \in ClientIds /\ p \in ClientIds /\ c # NoClient /\ p # NoClient BY DEF ClientTreeAssumption, Parents
<1> DEFINE up == Above(p)
           S == {up[n] : n \in Nat} \ {NoClient}
<1>1. /\ up \in [Nat -> ClientIds \cup {NoClient}] /\ up[0] = p
      /\ \A n \in Nat : up[n + 1] = IF up[n] = NoClient THEN NoClient ELSE parent[up[n]] BY <1>0, AboveStep
<1>2. \A n \in Nat : p \in Below(c)[n] <=> up[n] = c BY <1>0, WalksAgree
<1> HIDE DEF up
<1>3. p \in S /\ S \in SUBSET ClientIds BY <1>0, <1>1
<1>4. Upward(parent, S)
  <2> SUFFICES ASSUME NEW n \in Nat, up[n] # NoClient PROVE parent[up[n]] \in S \cup {NoClient} BY DEF Upward
  <2>1. n + 1 \in Nat /\ up[n + 1] = parent[up[n]] BY <1>1
  <2> QED BY <2>1
<1>5. c \notin S
  <2> SUFFICES ASSUME NEW m \in Nat, up[m] = c PROVE FALSE OBVIOUS
  <2> DEFINE W == {n \in Nat : up[n] = c}
             Less == {l \in Nat \X Nat : l[1] < l[2]}
  <2>1. IsWellFoundedOn(Less, Nat) BY NatLessThanWellFounded DEF OpToRel
  <2>2. W # {} /\ W \subseteq Nat OBVIOUS
  <2>3. PICK k \in W : \A j \in W : ~(<<j, k>> \in Less)
    <3> HIDE DEF Less, W
    <3> QED BY <2>1, <2>2, WFMin
  <2>4. k \in Nat /\ up[k] = c /\ \A j \in Nat : up[j] = c => k <= j
    <3>1. k \in Nat /\ up[k] = c OBVIOUS
    <3>2. ASSUME NEW j \in Nat, up[j] = c PROVE k <= j
      <4>1. j \in W BY <3>2
      <4>2. ~(<<j, k>> \in Less) BY <4>1, <2>3
      <4>3. ~(j < k) BY <4>2, <3>1
      <4> QED BY <4>3, <3>1
    <3> QED BY <3>1, <3>2
  <2> HIDE DEF Less, W
  <2>5. k # 0 BY <2>4, <1>1
  <2>6. k <= Cardinality(ClientIds)
    <3> DEFINE N == Cardinality(ClientIds)
               R == ClientIds \cup {NoClient}
               walk == [i \in 0..k |-> up[i]]
    <3>1. IsFiniteSet(ClientIds) BY DEF ClientTreeAssumption
    <3>2. N \in Nat BY <3>1, FS_CardinalityType
    <3>3. IsFiniteSet(R) /\ Cardinality(R) = N + 1 BY <3>1, FS_AddElement DEF ClientTreeAssumption
    <3>4. IsFiniteSet(0..k) /\ Cardinality(0..k) = k + 1 BY <2>4, FS_Interval
    <3>5. walk \in [0..k -> R] BY <1>1, <2>4
    <3> SUFFICES ASSUME N < k PROVE FALSE BY <2>4, <3>2
    <3>6. Cardinality(R) < Cardinality(0..k) BY <2>4, <3>2, <3>3, <3>4
    <3>7. PICK x \in 0..k, y \in 0..k : x # y /\ walk[x] = walk[y]
      <4> HIDE DEF walk, R, N
      <4> QED BY <3>3, <3>4, <3>5, <3>6, FS_PigeonHole
    <3>8. PICK i \in 0..k, j \in 0..k : i < j /\ up[i] = up[j]
      <4>1. x < y \/ y < x BY <3>7, <2>4
      <4> QED BY <3>7, <4>1
    <3>9. \A n \in Nat : up[i + n] = up[j + n]
      <4> DEFINE T == {n \in Nat : up[i + n] = up[j + n]}
      <4>1. 0 \in T BY <3>8
      <4>2. ASSUME NEW n \in Nat, n \in T PROVE n + 1 \in T
        <5>1. i + n \in Nat /\ j + n \in Nat /\ up[i + n] = up[j + n] BY <4>2
        <5>2. up[(i + n) + 1] = up[(j + n) + 1] BY <1>1, <5>1
        <5>3. (i + n) + 1 = i + (n + 1) /\ (j + n) + 1 = j + (n + 1) BY <5>1
        <5> QED BY <5>2, <5>3
      <4> HIDE DEF T
      <4>3. \A n \in Nat : n \in T BY <4>1, <4>2, SetInduction
      <4> QED BY <4>3 DEF T
    <3>10. k - j \in Nat /\ j + (k - j) = k /\ i + (k - j) \in Nat /\ i + (k - j) < k BY <2>4, <3>8
    <3>11. up[i + (k - j)] = c BY <3>9, <3>10, <2>4
    <3> QED BY <2>4, <3>10, <3>11
  <2>7. Cardinality(ClientIds) \in Nat BY FS_CardinalityType DEF ClientTreeAssumption
  <2>8. k \in Depths BY <2>4, <2>5, <2>6, <2>7 DEF Depths
  <2>9. p \in Below(c)[k] BY <1>2, <2>4
  <2> QED BY <2>8, <2>9 DEF Descendants
<1> QED BY <1>3, <1>4, <1>5 DEF Apart

(* The inductive invariant of the clients and their kits.                  *)

\* Who is not there has no parent.
Orphaned == \A c \in ClientIds \ clients : parent[c] = NoClient

\* A logo that waits for its row lies in the folder of its client.
Uploading(r) ==
  errand[r].at = "insert kit" =>
    /\ errand[r].client \in ClientIds /\ errand[r].kit \in Kits
    /\ kit[errand[r].kit].home = errand[r].client

\* A check that no write has followed is still true, and one that does not return
\* has met a cycle.
Checked(r) ==
  /\ errand[r].at = "reparent" /\ ~errand[r].stale =>
       Apart(parent, errand[r].to, errand[r].client)
  /\ errand[r].at = "walking" => tangled

TypeInv == TreeTypeOK /\ Orphaned /\ \A r \in TreeRequests : Uploading(r)

ForestInv == (~tangled => Forest(parent)) /\ \A r \in TreeRequests : Checked(r)

TreeInv == TypeInv /\ ForestInv /\ LogoLostOnlyByDeletion

ErrandRows == [at : Errands, client : ClientIds \cup {NoClient}, to : ClientIds \cup {NoClient},
               kit : Kits \cup {NoKit}, stale : BOOLEAN]
KitRows == [home : ClientIds \cup {NoClient}, row : BOOLEAN, active : BOOLEAN, file : BOOLEAN]

\* What the type says of its columns, cited one by one below.
LEMMA TypeParts ==
  ASSUME TypeInv
  PROVE  /\ Parents /\ errand \in [TreeRequests -> ErrandRows] /\ kit \in [Kits -> KitRows]
         /\ AtRest \in ErrandRows
BY DEF TypeInv, TreeTypeOK, Parents, ErrandRows, KitRows, AtRest, Errands

\* Steps of the hierarchy and of what names a client.
LEMMA TypeLinks ==
  ASSUME ClientTreeAssumption, TypeInv, NEW c \in ClientIds,
         \/ CreateClient(c) \/ ClearParent(c)
         \/ \E g \in Galleries : LinkGallery(g, c)
         \/ \E b \in Appointments : LinkBooking(b, c)
  PROVE  TypeInv'
<1> USE DEF TypeInv, TreeTypeOK, Orphaned, Uploading
<1>1. CASE CreateClient(c) BY <1>1 DEF CreateClient
<1>2. CASE ClearParent(c) BY <1>2 DEF ClearParent
<1>3. ASSUME NEW g \in Galleries, LinkGallery(g, c) PROVE TypeInv' BY <1>3 DEF LinkGallery
<1>4. ASSUME NEW b \in Appointments, LinkBooking(b, c) PROVE TypeInv' BY <1>4 DEF LinkBooking
<1> QED BY <1>1, <1>2, <1>3, <1>4

\* What a request's step makes of its own row, and of the others'.
LEMMA ErrandSet ==
  ASSUME TypeInv, NEW r \in TreeRequests, NEW task \in ErrandRows, Sets(r, task)
  PROVE  /\ errand' \in [TreeRequests -> ErrandRows] /\ errand'[r] = task
         /\ \A q \in TreeRequests \ {r} : errand'[q] = errand[q]
BY TypeParts DEF Sets

\* A request that ends leaves a row of the right kind.
LEMMA ErrandEnded ==
  ASSUME TypeInv, NEW r \in TreeRequests, Finishes(r)
  PROVE  /\ errand' \in [TreeRequests -> ErrandRows] /\ errand'[r] = AtRest
         /\ \A q \in TreeRequests \ {r} : errand'[q] = errand[q]
BY TypeParts, ErrandSet DEF Finishes

\* So does one that moves on with what it holds.
LEMMA ErrandGoes ==
  ASSUME TypeInv, NEW r \in TreeRequests, NEW at \in Errands, Proceeds(r, at)
  PROVE  /\ errand' \in [TreeRequests -> ErrandRows]
         /\ errand'[r].at = at /\ errand'[r].client = errand[r].client
         /\ \A q \in TreeRequests \ {r} : errand'[q] = errand[q]
<1>1. errand[r] \in ErrandRows /\ errand \in [TreeRequests -> ErrandRows] BY TypeParts
<1>2. errand' = [errand EXCEPT ![r] = [errand[r] EXCEPT !.at = at]] BY <1>1 DEF Proceeds
<1>3. [errand[r] EXCEPT !.at = at] \in ErrandRows BY <1>1 DEF ErrandRows
<1> QED BY <1>1, <1>2, <1>3 DEF ErrandRows

\* Whoever waits for a kit's row still does after a step of somebody else that
\* leaves the home of kits that have one.
HomesStay == \A k \in Kits : kit[k].home # NoClient => kit'[k].home = kit[k].home

\* An upload still has its kit after a step that keeps the homes of kits.
LEMMA UploadingStays ==
  ASSUME ClientTreeAssumption, TypeInv, HomesStay, NEW q \in TreeRequests, errand'[q] = errand[q]
  PROVE  Uploading(q)'
BY DEF TypeInv, Uploading, HomesStay, ClientTreeAssumption

\* A request elsewhere has nothing to say of a kit.
LEMMA UploadingNot ==
  ASSUME NEW q \in TreeRequests, errand'[q].at # "insert kit"
  PROVE  Uploading(q)'
BY DEF Uploading

\* The type invariant in three parts: who names whom, the kits, the requests.
LinksOK ==
  /\ clients \subseteq ClientIds
  /\ parent \in [ClientIds -> clients \cup {NoClient}]
  /\ gallery \in [Galleries -> clients \cup {NoClient}]
  /\ booked \in [Appointments -> clients \cup {NoClient}]
  /\ tangled \in BOOLEAN /\ halted \subseteq Kits
  /\ Orphaned

KitsOK == kit \in [Kits -> KitRows] /\ \A k \in Kits : kit[k].row => kit[k].home \in clients

ErrandsOK == errand \in [TreeRequests -> ErrandRows] /\ \A r \in TreeRequests : Uploading(r)

\* The type falls into links, kits and requests, which few steps share.
LEMMA TypeSplit == TypeInv <=> LinksOK /\ KitsOK /\ ErrandsOK
BY DEF TypeInv, TreeTypeOK, LinksOK, KitsOK, ErrandsOK, KitRows, ErrandRows

\* The three make the type again after a step.
LEMMA TypeJoin ==
  ASSUME LinksOK', KitsOK', ErrandsOK'
  PROVE  TypeInv'
BY DEF TypeInv, TreeTypeOK, LinksOK, KitsOK, ErrandsOK, KitRows, ErrandRows

\* Requests that touch no client's or kit's existence.
LEMMA TypeErrands ==
  ASSUME ClientTreeAssumption, TypeInv, NEW r \in TreeRequests,
         \/ \E c, p \in ClientIds : SetParent(r, c, p)
         \/ \E c \in ClientIds : DeleteClientCheck(r, c)
         \/ DeleteClientUnlink(r) \/ ErrandEnds(r)
  PROVE  TypeInv'
<1>0. LinksOK /\ KitsOK /\ ErrandsOK BY TypeSplit
<1>1. UNCHANGED kit BY DEF SetParent, DeleteClientCheck, DeleteClientUnlink, ErrandEnds
<1>2. HomesStay BY <1>1 DEF HomesStay
<1>3. UNCHANGED clients BY DEF SetParent, DeleteClientCheck, DeleteClientUnlink, ErrandEnds
<1>4. KitsOK' BY <1>0, <1>1, <1>3 DEF KitsOK
<1>5. ASSUME errand' \in [TreeRequests -> ErrandRows], errand'[r].at # "insert kit",
             \A q \in TreeRequests \ {r} : errand'[q] = errand[q]
      PROVE  ErrandsOK' BY <1>2, <1>5, UploadingStays, UploadingNot DEF ErrandsOK
<1>6. ASSUME NEW c \in ClientIds, NEW p \in ClientIds, SetParent(r, c, p) PROVE TypeInv'
  <2>1. CASE errand[r] = AtRest
    <3> DEFINE task == [AtRest EXCEPT !.at = IF WalkEnds(c) THEN "reparent" ELSE "walking",
                                      !.client = c, !.to = p]
    <3>0. errand[r].at = "idle" BY <2>1 DEF AtRest
    <3>1. UNCHANGED <<clients, parent, gallery, booked, kit, tangled, halted>> /\ Sets(r, task)
      BY <1>6, <3>0 DEF SetParent
    <3>2. task \in ErrandRows /\ task.at # "insert kit" BY DEF AtRest, ErrandRows, Errands
    <3> HIDE DEF task
    <3>3. ErrandsOK' BY <1>5, <3>1, <3>2, ErrandSet
    <3>4. LinksOK' BY <1>0, <3>1 DEF LinksOK, Orphaned
    <3> QED BY <1>4, <3>3, <3>4, TypeJoin
  <2>2. CASE errand[r] # AtRest
    <3>1. /\ {c, p} \subseteq clients /\ parent' = [parent EXCEPT ![c] = p]
          /\ tangled' = (tangled \/ errand[r].stale)
          /\ errand' = [q \in TreeRequests |-> IF q = r THEN AtRest
                          ELSE [errand[q] EXCEPT !.stale = @ \/ errand[q].at = "reparent"]]
          /\ UNCHANGED <<clients, gallery, booked, kit, halted>> BY <1>6, <2>2 DEF SetParent
    <3>2. LinksOK'
      <4>1. tangled' \in BOOLEAN BY <3>1, <1>0 DEF LinksOK, ErrandsOK, ErrandRows
      <4> QED BY <4>1, <3>1, <1>0 DEF LinksOK, Orphaned
    <3>3. ASSUME NEW q \in TreeRequests
          PROVE  errand'[q] \in ErrandRows /\ Uploading(q)'
      <4>1. errand[q] \in ErrandRows /\ AtRest \in ErrandRows BY TypeParts
      <4>2. CASE q = r BY <3>1, <4>1, <4>2 DEF Uploading, AtRest
      <4>3. CASE q # r
        <5>1. errand'[q] = [errand[q] EXCEPT !.stale = @ \/ errand[q].at = "reparent"] BY <3>1, <4>3
        <5>2. errand'[q] \in ErrandRows BY <4>1, <5>1 DEF ErrandRows
        <5>3. /\ errand'[q].at = errand[q].at /\ errand'[q].kit = errand[q].kit
              /\ errand'[q].client = errand[q].client BY <4>1, <5>1 DEF ErrandRows
        <5> QED BY <1>0, <1>1, <5>2, <5>3 DEF ErrandsOK, Uploading
      <4> QED BY <4>2, <4>3
    <3>4. ErrandsOK' BY <3>1, <3>3 DEF ErrandsOK
    <3> QED BY <1>4, <3>2, <3>4, TypeJoin
  <2> QED BY <2>1, <2>2
<1>7. ASSUME NEW c \in ClientIds, DeleteClientCheck(r, c) PROVE TypeInv'
  <2> DEFINE task == [AtRest EXCEPT !.at = "unlink", !.client = c]
  <2>1. UNCHANGED <<clients, parent, gallery, booked, kit, tangled, halted>> /\ Sets(r, task)
    BY <1>7 DEF DeleteClientCheck
  <2>2. task \in ErrandRows /\ task.at # "insert kit" BY DEF AtRest, ErrandRows, Errands
  <2> HIDE DEF task
  <2>3. ErrandsOK' BY <1>5, <2>1, <2>2, ErrandSet
  <2>4. LinksOK' BY <1>0, <2>1 DEF LinksOK, Orphaned
  <2> QED BY <1>4, <2>3, <2>4, TypeJoin
<1>8. CASE DeleteClientUnlink(r)
  <2>1. UNCHANGED <<clients, parent, booked, kit, tangled, halted>> /\ Proceeds(r, "rmtree")
    BY <1>8 DEF DeleteClientUnlink
  <2>2. gallery' \in [Galleries -> clients \cup {NoClient}] BY <1>0, <1>8 DEF DeleteClientUnlink, LinksOK
  <2>3. "rmtree" \in Errands BY DEF Errands
  <2>4. ErrandsOK' BY <1>5, <2>1, <2>3, ErrandGoes
  <2>5. LinksOK' BY <1>0, <2>1, <2>2 DEF LinksOK, Orphaned
  <2> QED BY <1>4, <2>4, <2>5, TypeJoin
<1>9. CASE ErrandEnds(r)
  <2>1. UNCHANGED <<clients, parent, gallery, booked, kit, tangled>> /\ Finishes(r)
        /\ halted' = halted \cup Emptied(r) BY <1>9 DEF ErrandEnds
  <2>2. AtRest.at # "insert kit" BY DEF AtRest
  <2>3. ErrandsOK' BY <1>5, <2>1, <2>2, ErrandEnded
  <2>4. LinksOK' BY <1>0, <2>1 DEF LinksOK, Orphaned, Emptied
  <2> QED BY <1>4, <2>3, <2>4, TypeJoin
<1> QED BY <1>6, <1>7, <1>8, <1>9

\* Steps of the files and rows of kits.
LEMMA TypeKits ==
  ASSUME ClientTreeAssumption, TypeInv, NEW k \in Kits,
         \/ UpdateKit(k)
         \/ \E r \in TreeRequests : DeleteKit(r, k) \/ \E c \in ClientIds : UploadKit(r, c, k)
  PROVE  TypeInv'
<1>0. LinksOK /\ KitsOK /\ ErrandsOK BY TypeSplit
<1>1. UNCHANGED <<clients, parent, gallery, booked, tangled>> BY DEF UpdateKit, DeleteKit, UploadKit
<1>2. halted' \subseteq Kits BY <1>0 DEF UpdateKit, DeleteKit, UploadKit, LinksOK
<1>3. LinksOK' BY <1>0, <1>1, <1>2 DEF LinksOK, Orphaned
<1>k. kit \in [Kits -> KitRows] /\ kit[k] \in KitRows BY <1>0 DEF KitsOK
<1>4. ASSUME NEW w \in KitRows, kit' = [kit EXCEPT ![k] = w], w.row => w.home \in clients
      PROVE  KitsOK' BY <1>0, <1>1, <1>4 DEF KitsOK
<1>5. ASSUME NEW w \in KitRows, kit' = [kit EXCEPT ![k] = w],
             w.home = kit[k].home \/ kit[k].home = NoClient
      PROVE  HomesStay BY <1>k, <1>5 DEF HomesStay
<1>6. ASSUME HomesStay, NEW r \in TreeRequests, errand' \in [TreeRequests -> ErrandRows],
             Uploading(r)', \A q \in TreeRequests \ {r} : errand'[q] = errand[q]
      PROVE  ErrandsOK' BY <1>6, UploadingStays DEF ErrandsOK
<1>7. CASE UpdateKit(k)
  <2>1. PICK active \in BOOLEAN : kit' = [kit EXCEPT ![k].active = active] BY <1>7 DEF UpdateKit
  <2> DEFINE w == [kit[k] EXCEPT !.active = active]
  <2>2. w \in KitRows /\ w.home = kit[k].home /\ w.row = kit[k].row BY <1>k DEF KitRows
  <2>3. kit' = [kit EXCEPT ![k] = w] BY <1>k, <2>1
  <2> HIDE DEF w
  <2>4. KitsOK' /\ HomesStay BY <1>0, <1>4, <1>5, <2>2, <2>3 DEF KitsOK
  <2>5. errand' = errand BY <1>7 DEF UpdateKit
  <2>6. ErrandsOK' BY <1>0, <2>4, <2>5, UploadingStays DEF ErrandsOK
  <2> QED BY <1>3, <2>4, <2>6, TypeJoin
<1>8. ASSUME NEW r \in TreeRequests, DeleteKit(r, k) PROVE TypeInv'
  <2>1. CASE errand[r] = AtRest
    <3> DEFINE w == [kit[k] EXCEPT !.file = FALSE]
               task == [AtRest EXCEPT !.at = "delete kit", !.kit = k]
    <3>0. errand[r].at = "idle" BY <2>1 DEF AtRest
    <3>1. kit' = [kit EXCEPT ![k].file = FALSE] /\ Sets(r, task) BY <1>8, <3>0 DEF DeleteKit
    <3>2. w \in KitRows /\ w.home = kit[k].home /\ w.row = kit[k].row BY <1>k DEF KitRows
    <3>3. kit' = [kit EXCEPT ![k] = w] BY <1>k, <3>1
    <3>4. task \in ErrandRows /\ task.at # "insert kit" BY DEF AtRest, ErrandRows, Errands
    <3> HIDE DEF w, task
    <3>5. KitsOK' /\ HomesStay BY <1>0, <1>4, <1>5, <3>2, <3>3 DEF KitsOK
    <3>6. ErrandsOK' BY <1>6, <3>1, <3>4, <3>5, ErrandSet, UploadingNot
    <3> QED BY <1>3, <3>5, <3>6, TypeJoin
  <2>2. CASE errand[r] # AtRest
    <3> DEFINE w == [kit[k] EXCEPT !.row = FALSE, !.active = FALSE]
    <3>1. kit' = [kit EXCEPT ![k].row = FALSE, ![k].active = FALSE] /\ Finishes(r) BY <1>8, <2>2 DEF DeleteKit
    <3>2. w \in KitRows /\ w.home = kit[k].home /\ ~w.row BY <1>k DEF KitRows
    <3>3. kit' = [kit EXCEPT ![k] = w] BY <1>k, <3>1
    <3> HIDE DEF w
    <3>4. KitsOK' /\ HomesStay BY <1>0, <1>4, <1>5, <3>2, <3>3
    <3>5. AtRest.at # "insert kit" BY DEF AtRest
    <3>6. ErrandsOK' BY <1>6, <3>1, <3>4, <3>5, ErrandEnded, UploadingNot
    <3> QED BY <1>3, <3>4, <3>6, TypeJoin
  <2> QED BY <2>1, <2>2
<1>9. ASSUME NEW r \in TreeRequests, NEW c \in ClientIds, UploadKit(r, c, k) PROVE TypeInv'
  <2>1. CASE errand[r] = AtRest
    <3> DEFINE w == [kit[k] EXCEPT !.home = c, !.file = TRUE]
               task == [AtRest EXCEPT !.at = "insert kit", !.client = c, !.kit = k]
    <3>0. errand[r].at = "idle" BY <2>1 DEF AtRest
    <3>1. /\ kit' = [kit EXCEPT ![k].home = c, ![k].file = TRUE] /\ Sets(r, task)
          /\ kit[k].home = NoClient /\ c \in clients BY <1>9, <3>0 DEF UploadKit
    <3>2. w \in KitRows /\ w.home = c BY <1>k DEF KitRows
    <3>3. kit' = [kit EXCEPT ![k] = w] BY <1>k, <3>1
    <3>4. task \in ErrandRows /\ task.client = c /\ task.kit = k BY DEF AtRest, ErrandRows, Errands
    <3> HIDE DEF w, task
    <3>5. KitsOK' /\ HomesStay BY <1>4, <1>5, <3>1, <3>2, <3>3
    <3>6. kit'[k].home = c BY <1>k, <3>2, <3>3
    <3>7. errand'[r] = task BY <3>1, <3>4, ErrandSet
    <3>8. Uploading(r)' BY <3>4, <3>6, <3>7 DEF Uploading
    <3>9. ErrandsOK' BY <1>6, <3>1, <3>4, <3>5, <3>8, ErrandSet
    <3> QED BY <1>3, <3>5, <3>9, TypeJoin
  <2>2. CASE errand[r] # AtRest
    <3> DEFINE w == [kit[k] EXCEPT !.row = TRUE, !.active = TRUE]
    <3>1. /\ kit' = [kit EXCEPT ![k].row = TRUE, ![k].active = TRUE] /\ Finishes(r)
          /\ errand[r].at = "insert kit" /\ errand[r].kit = k /\ errand[r].client = c
          /\ c \in clients BY <1>9, <2>2 DEF UploadKit
    <3>2. w \in KitRows /\ w.home = kit[k].home BY <1>k DEF KitRows
    <3>3. kit' = [kit EXCEPT ![k] = w] BY <1>k, <3>1
    <3>4. kit[k].home = c BY <1>0, <3>1 DEF ErrandsOK, Uploading
    <3> HIDE DEF w
    <3>5. KitsOK' /\ HomesStay
      <4>1. w.home \in clients BY <3>1, <3>2, <3>4
      <4> QED BY <1>4, <1>5, <3>2, <3>3, <4>1
    <3>6. AtRest.at # "insert kit" BY DEF AtRest
    <3>7. ErrandsOK' BY <1>6, <3>1, <3>5, <3>6, ErrandEnded, UploadingNot
    <3> QED BY <1>3, <3>5, <3>7, TypeJoin
  <2> QED BY <2>1, <2>2
<1> QED BY <1>7, <1>8, <1>9

\* The deletion of a client: its files, then its row.
LEMMA TypeDeletes ==
  ASSUME ClientTreeAssumption, TypeInv, NEW r \in TreeRequests,
         DeleteClientFiles(r) \/ DeleteClientRow(r)
  PROVE  TypeInv'
<1>0. LinksOK /\ KitsOK /\ ErrandsOK BY TypeSplit
<1>1. CASE DeleteClientFiles(r)
  <2>1. /\ UNCHANGED <<clients, parent, gallery, booked, tangled, halted>>
        /\ kit' = [k \in Kits |-> IF kit[k].home = errand[r].client
                                   THEN [kit[k] EXCEPT !.file = FALSE] ELSE kit[k]]
        /\ Proceeds(r, "delete client") BY <1>1 DEF DeleteClientFiles
  <2>2. "delete client" \in Errands BY DEF Errands
  <2>3. ASSUME NEW k \in Kits
        PROVE  kit'[k] \in KitRows /\ kit'[k].home = kit[k].home /\ kit'[k].row = kit[k].row
    BY <1>0, <2>1 DEF KitsOK, KitRows
  <2>4. KitsOK' /\ HomesStay
    <3>1. kit' \in [Kits -> KitRows] BY <2>1, <2>3
    <3>2. ASSUME NEW k \in Kits, kit'[k].row PROVE kit'[k].home \in clients'
      <4>1. kit[k].row /\ kit'[k].home = kit[k].home BY <2>3, <3>2
      <4>2. kit[k].home \in clients BY <1>0, <4>1 DEF KitsOK
      <4>3. clients' = clients BY <2>1
      <4> QED BY <4>1, <4>2, <4>3
    <3> QED BY <2>3, <3>1, <3>2 DEF KitsOK, HomesStay
  <2>5. ErrandsOK' BY <2>1, <2>2, <2>4, ErrandGoes, UploadingStays, UploadingNot DEF ErrandsOK
  <2>6. LinksOK' BY <1>0, <2>1 DEF LinksOK, Orphaned
  <2> QED BY <2>4, <2>5, <2>6, TypeJoin
<1>2. CASE DeleteClientRow(r)
  <2>0. PICK c : c = errand[r].client OBVIOUS
  <2>1. /\ UNCHANGED <<gallery, booked, tangled, halted>> /\ clients' = clients \ {c}
        /\ parent' = [parent EXCEPT ![c] = NoClient]
        /\ kit' = [k \in Kits |-> IF kit[k].home = c
                                   THEN [kit[k] EXCEPT !.row = FALSE, !.active = FALSE] ELSE kit[k]]
        /\ Finishes(r) /\ Deletable(c) BY <1>2, <2>0 DEF DeleteClientRow
  <2>2. ASSUME NEW k \in Kits
        PROVE  /\ kit'[k] \in KitRows /\ kit'[k].home = kit[k].home
               /\ kit'[k].row => kit[k].row /\ kit[k].home # c BY <1>0, <2>1 DEF KitsOK, KitRows
  <2>3. KitsOK' BY <1>0, <2>1, <2>2 DEF KitsOK
  <2>4. HomesStay BY <2>2 DEF HomesStay
  <2>5. AtRest.at # "insert kit" BY DEF AtRest
  <2>6. ErrandsOK' BY <2>1, <2>4, <2>5, ErrandEnded, UploadingStays, UploadingNot DEF ErrandsOK
  <2>7. ASSUME NEW d \in ClientIds PROVE parent'[d] \in clients' \cup {NoClient}
    <3>1. CASE d = c BY <1>0, <2>1, <3>1 DEF LinksOK
    <3>2. CASE d # c
      <4>1. parent'[d] = parent[d] BY <1>0, <2>1, <3>2 DEF LinksOK
      <4>2. parent[d] # c \/ c = NoClient BY <1>0, <2>1 DEF LinksOK, Orphaned, Deletable, Children
      <4> QED BY <1>0, <2>1, <4>1, <4>2 DEF LinksOK
    <3> QED BY <3>1, <3>2
  <2>8. parent' \in [ClientIds -> clients' \cup {NoClient}] BY <1>0, <2>1, <2>7 DEF LinksOK
  <2>9. Orphaned' BY <1>0, <2>1 DEF LinksOK, Orphaned
  <2>10. gallery' \in [Galleries -> clients' \cup {NoClient}] BY <1>0, <2>1 DEF LinksOK, Deletable
  <2>11. booked' \in [Appointments -> clients' \cup {NoClient}] BY <1>0, <2>1 DEF LinksOK, Deletable
  <2>12. LinksOK' BY <1>0, <2>1, <2>8, <2>9, <2>10, <2>11 DEF LinksOK
  <2> QED BY <2>3, <2>6, <2>12, TypeJoin
<1> QED BY <1>1, <1>2

\* What a step of the tree is, with the two-step operations apart.
LEMMA TypeStep ==
  ASSUME ClientTreeAssumption, TypeInv, TreeNext
  PROVE  TypeInv'
BY TypeLinks, TypeErrands, TypeKits, TypeDeletes DEF TreeNext, TreeKeeps

(* The forest.                                                             *)

\* A check stays true as long as parents are only taken away.
LEMMA CheckedStays ==
  ASSUME NEW q \in TreeRequests, Checked(q), Fewer(parent, parent'),
         tangled => tangled',
         \/ errand'[q].at \notin {"reparent", "walking"}
         \/ errand'[q] = errand[q]
  PROVE  Checked(q)'
<1>1. CASE errand'[q].at \notin {"reparent", "walking"} BY <1>1 DEF Checked
<1>2. CASE errand'[q] = errand[q]
  <2>1. ASSUME errand[q].at = "reparent", ~errand[q].stale
        PROVE  Apart(parent', errand[q].to, errand[q].client) BY <2>1, FewerApart DEF Checked
  <2> QED BY <1>2, <2>1 DEF Checked
<1> QED BY <1>1, <1>2

\* Steps that set no parent.
LEMMA ForestStays ==
  ASSUME ForestInv, Fewer(parent, parent'), tangled' = tangled,
         \A q \in TreeRequests : \/ errand'[q].at \notin {"reparent", "walking"}
                                 \/ errand'[q] = errand[q]
  PROVE  ForestInv'
<1>1. ~tangled' => Forest(parent') BY FewerForest DEF ForestInv
<1>2. \A q \in TreeRequests : Checked(q)' BY CheckedStays DEF ForestInv
<1> QED BY <1>1, <1>2 DEF ForestInv

\* set_parent: a request whose check still holds adds an edge that closes no cycle.
LEMMA ForestParent ==
  ASSUME ClientTreeAssumption, TypeInv, ForestInv, NEW r \in TreeRequests,
         NEW c \in ClientIds, NEW p \in ClientIds, SetParent(r, c, p)
  PROVE  ForestInv'
<1>0. Parents /\ errand \in [TreeRequests -> ErrandRows] /\ AtRest \in ErrandRows BY TypeParts
<1>1. CASE errand[r] = AtRest
  <2> DEFINE task == [AtRest EXCEPT !.at = IF WalkEnds(c) THEN "reparent" ELSE "walking",
                                    !.client = c, !.to = p]
  <2>0. errand[r].at = "idle" BY <1>1 DEF AtRest
  <2>1. /\ UNCHANGED <<clients, parent, gallery, booked, kit, tangled, halted>> /\ Sets(r, task)
        /\ {c, p} \subseteq clients /\ p # c /\ (WalkEnds(c) => p \notin Descendants(c)) BY <1>1, <2>0 DEF SetParent
  <2>2. /\ task \in ErrandRows /\ task.client = c /\ task.to = p
        /\ task.at = IF WalkEnds(c) THEN "reparent" ELSE "walking" BY DEF AtRest, ErrandRows, Errands
  <2> HIDE DEF task
  <2>3. errand'[r] = task /\ \A q \in TreeRequests \ {r} : errand'[q] = errand[q] BY <2>1, <2>2, ErrandSet
  <2>4. Checked(r)'
    <3>1. CASE WalkEnds(c)
      <4>1. Apart(parent, p, c) BY <1>0, <2>1, <3>1, CheckedApart
      <4>2. errand'[r].at = "reparent" /\ errand'[r].to = p /\ errand'[r].client = c BY <2>2, <2>3, <3>1
      <4> QED BY <2>1, <4>1, <4>2 DEF Checked
    <3>2. CASE ~WalkEnds(c)
      <4>1. tangled BY <1>0, <3>2, ForestWalksEnd DEF ForestInv
      <4>2. errand'[r].at = "walking" BY <2>2, <2>3, <3>2
      <4> QED BY <2>1, <4>1, <4>2 DEF Checked
    <3> QED BY <3>1, <3>2
  <2>5. ASSUME NEW q \in TreeRequests \ {r} PROVE Checked(q)' BY <2>1, <2>3 DEF Checked, ForestInv
  <2>6. (~tangled => Forest(parent))' BY <2>1 DEF ForestInv
  <2> QED BY <2>4, <2>5, <2>6 DEF ForestInv
<1>2. CASE errand[r] # AtRest
  <2>1. /\ errand[r].at = "reparent" /\ errand[r].client = c /\ errand[r].to = p
        /\ {c, p} \subseteq clients /\ parent' = [parent EXCEPT ![c] = p]
        /\ tangled' = (tangled \/ errand[r].stale)
        /\ errand' = [q \in TreeRequests |-> IF q = r THEN AtRest
                        ELSE [errand[q] EXCEPT !.stale = @ \/ errand[q].at = "reparent"]] BY <1>2 DEF SetParent
  <2>2. ASSUME ~tangled' PROVE Forest(parent')
    <3>1. Forest(parent) /\ Apart(parent, p, c) BY <2>1, <2>2 DEF ForestInv, Checked
    <3>2. parent \in [ClientIds -> ClientIds \cup {NoClient}] BY <1>0 DEF Parents
    <3> QED BY <2>1, <3>1, <3>2, NewEdge
  <2>3. ASSUME NEW q \in TreeRequests PROVE Checked(q)'
    <3>1. CASE q = r BY <2>1, <3>1 DEF Checked, AtRest
    <3>2. CASE q # r
      <4>1. errand'[q] = [errand[q] EXCEPT !.stale = @ \/ errand[q].at = "reparent"] BY <2>1, <3>2
      <4>2. /\ errand'[q].at = errand[q].at
            /\ errand'[q].stale = (errand[q].stale \/ errand[q].at = "reparent") BY <1>0, <4>1 DEF ErrandRows
      <4>3. errand[q].at = "walking" => tangled' BY <2>1 DEF ForestInv, Checked
      <4> QED BY <4>2, <4>3 DEF Checked
    <3> QED BY <3>1, <3>2
  <2> QED BY <2>2, <2>3 DEF ForestInv
<1> QED BY <1>1, <1>2

\* No step of the tree makes a cycle while no two checks overlapped.
LEMMA ForestStep ==
  ASSUME ClientTreeAssumption, TypeInv, ForestInv, TreeNext
  PROVE  ForestInv'
<1>0. parent \in [ClientIds -> ClientIds \cup {NoClient}] BY TypeParts DEF Parents
<1>a. ASSUME NEW r \in TreeRequests, NEW task \in ErrandRows, Sets(r, task),
             task.at \notin {"reparent", "walking"}, Fewer(parent, parent'), tangled' = tangled
      PROVE  ForestInv'
  <2>1. errand'[r] = task /\ \A q \in TreeRequests \ {r} : errand'[q] = errand[q] BY <1>a, ErrandSet
  <2> QED BY <1>a, <2>1, ForestStays
<1>b. ASSUME NEW r \in TreeRequests, NEW at \in Errands, Proceeds(r, at),
             at \notin {"reparent", "walking"}, Fewer(parent, parent'), tangled' = tangled
      PROVE  ForestInv'
  <2>1. errand'[r].at = at /\ \A q \in TreeRequests \ {r} : errand'[q] = errand[q] BY <1>b, ErrandGoes
  <2> QED BY <1>b, <2>1, ForestStays
<1>c. ASSUME errand' = errand, Fewer(parent, parent'), tangled' = tangled PROVE ForestInv' BY <1>c, ForestStays
<1>d. AtRest \in ErrandRows /\ AtRest.at = "idle" BY TypeParts DEF AtRest
<1>e. UNCHANGED parent => Fewer(parent, parent') BY DEF Fewer
<1>f. ASSUME NEW c, parent' = [parent EXCEPT ![c] = NoClient] PROVE Fewer(parent, parent') BY <1>0, <1>f DEF Fewer
<1>1. ASSUME NEW c \in ClientIds, ClearParent(c) PROVE ForestInv' BY <1>1, <1>c, <1>f DEF ClearParent
<1>2. ASSUME NEW c \in ClientIds, NEW g \in Galleries, LinkGallery(g, c) PROVE ForestInv'
  BY <1>2, <1>c, <1>e DEF LinkGallery
<1>3. ASSUME NEW c \in ClientIds, NEW b \in Appointments, LinkBooking(b, c) PROVE ForestInv'
  BY <1>3, <1>c, <1>e DEF LinkBooking
<1>4. ASSUME NEW k \in Kits, UpdateKit(k) PROVE ForestInv' BY <1>4, <1>c, <1>e DEF UpdateKit
<1>5. ASSUME NEW c \in ClientIds, CreateClient(c) PROVE ForestInv' BY <1>5, <1>c, <1>e DEF CreateClient
<1>6. ASSUME NEW r \in TreeRequests, NEW c \in ClientIds, DeleteClientCheck(r, c) PROVE ForestInv'
  <2> DEFINE task == [AtRest EXCEPT !.at = "unlink", !.client = c]
  <2>1. task \in ErrandRows /\ task.at \notin {"reparent", "walking"} BY DEF AtRest, ErrandRows, Errands
  <2>2. Sets(r, task) /\ UNCHANGED <<parent, tangled>> BY <1>6 DEF DeleteClientCheck
  <2> HIDE DEF task
  <2> QED BY <2>1, <2>2, <1>a, <1>e
<1>7. ASSUME NEW r \in TreeRequests, DeleteClientUnlink(r) PROVE ForestInv'
  <2>1. "rmtree" \in Errands BY DEF Errands
  <2>2. Proceeds(r, "rmtree") /\ UNCHANGED <<parent, tangled>> BY <1>7 DEF DeleteClientUnlink
  <2> QED BY <2>1, <2>2, <1>b, <1>e
<1>8. ASSUME NEW r \in TreeRequests, DeleteClientFiles(r) PROVE ForestInv'
  <2>1. "delete client" \in Errands BY DEF Errands
  <2>2. Proceeds(r, "delete client") /\ UNCHANGED <<parent, tangled>> BY <1>8 DEF DeleteClientFiles
  <2> QED BY <2>1, <2>2, <1>b, <1>e
<1>9. ASSUME NEW r \in TreeRequests, ErrandEnds(r) PROVE ForestInv'
  <2>1. Sets(r, AtRest) /\ UNCHANGED <<parent, tangled>> BY <1>9 DEF ErrandEnds, Finishes
  <2> QED BY <2>1, <1>a, <1>d, <1>e
<1>10. ASSUME NEW r \in TreeRequests, DeleteClientRow(r) PROVE ForestInv'
  <2>1. PICK c : parent' = [parent EXCEPT ![c] = NoClient] BY <1>10 DEF DeleteClientRow
  <2>2. Sets(r, AtRest) /\ UNCHANGED tangled BY <1>10 DEF DeleteClientRow, Finishes
  <2> QED BY <2>1, <2>2, <1>a, <1>d, <1>f
<1>11. ASSUME NEW r \in TreeRequests, NEW k \in Kits, DeleteKit(r, k) PROVE ForestInv'
  <2> DEFINE task == [AtRest EXCEPT !.at = "delete kit", !.kit = k]
  <2>1. task \in ErrandRows /\ task.at \notin {"reparent", "walking"} BY DEF AtRest, ErrandRows, Errands
  <2>2. (Sets(r, task) \/ Sets(r, AtRest)) /\ UNCHANGED <<parent, tangled>> BY <1>11 DEF DeleteKit, Finishes
  <2> HIDE DEF task
  <2> QED BY <2>1, <2>2, <1>a, <1>d, <1>e
<1>12. ASSUME NEW r \in TreeRequests, NEW k \in Kits, NEW c \in ClientIds, UploadKit(r, c, k)
       PROVE  ForestInv'
  <2> DEFINE task == [AtRest EXCEPT !.at = "insert kit", !.client = c, !.kit = k]
  <2>1. task \in ErrandRows /\ task.at \notin {"reparent", "walking"} BY DEF AtRest, ErrandRows, Errands
  <2>2. (Sets(r, task) \/ Sets(r, AtRest)) /\ UNCHANGED <<parent, tangled>> BY <1>12 DEF UploadKit, Finishes
  <2> HIDE DEF task
  <2> QED BY <2>1, <2>2, <1>a, <1>d, <1>e
<1> QED BY <1>1, <1>2, <1>3, <1>4, <1>5, <1>6, <1>7, <1>8, <1>9, <1>10, <1>11, <1>12, ForestParent
        DEF TreeNext, TreeKeeps

(* The logos.                                                              *)

\* A step of request r keeps what it owes an explanation for.
LEMMA LogoBy ==
  ASSUME LogoLostOnlyByDeletion, NEW r \in TreeRequests, halted \subseteq halted',
         \A q \in TreeRequests \ {r} : /\ errand'[q].at = errand[q].at
                                       /\ errand'[q].client = errand[q].client
                                       /\ errand'[q].kit = errand[q].kit,
         \A k \in Kits : /\ kit'[k].home = kit[k].home \/ ~kit'[k].row
                         /\ kit'[k].row /\ ~kit'[k].file =>
                              \/ kit[k].row /\ ~kit[k].file
                              \/ k \in Emptied(r)' \/ k \in halted'
                         /\ k \in Emptied(r) => \/ k \in Emptied(r)' \/ k \in halted'
                                                \/ ~kit'[k].row
  PROVE  LogoLostOnlyByDeletion'
<1> SUFFICES ASSUME NEW k \in Kits, kit'[k].row, ~kit'[k].file, k \notin halted', k \notin Emptied(r)'
             PROVE  \E q \in TreeRequests : k \in Emptied(q)' BY DEF LogoLostOnlyByDeletion
<1>1. kit[k].row /\ ~kit[k].file /\ kit'[k].home = kit[k].home OBVIOUS
<1>2. PICK q \in TreeRequests : k \in Emptied(q) BY <1>1 DEF LogoLostOnlyByDeletion
<1>3. q # r BY <1>2
<1>4. k \in Emptied(q)' BY <1>1, <1>2, <1>3 DEF Emptied
<1> QED BY <1>4

\* Steps that touch no kit take no logo.
LEMMA LogoStays ==
  ASSUME TypeInv, LogoLostOnlyByDeletion, UNCHANGED <<kit, halted>>, NEW r \in TreeRequests,
         errand[r].at \notin {"delete kit", "delete client"},
         \A q \in TreeRequests \ {r} : /\ errand'[q].at = errand[q].at
                                       /\ errand'[q].client = errand[q].client
                                       /\ errand'[q].kit = errand[q].kit
  PROVE  LogoLostOnlyByDeletion'
<1>1. Emptied(r) = {} BY DEF Emptied
<1> QED BY <1>1, LogoBy

\* A step takes a logo only by deleting the client or the kit it hung on.
LEMMA LogoStep ==
  ASSUME ClientTreeAssumption, TypeInv, LogoLostOnlyByDeletion, TreeNext
  PROVE  LogoLostOnlyByDeletion'
<1>0. /\ errand \in [TreeRequests -> ErrandRows] /\ AtRest \in ErrandRows
      /\ kit \in [Kits -> KitRows] /\ KitsOK BY TypeParts, TypeSplit
<1>i. AtRest.at = "idle" BY DEF AtRest
<1>1. ASSUME UNCHANGED <<kit, errand, halted>> PROVE LogoLostOnlyByDeletion'
  BY <1>1 DEF LogoLostOnlyByDeletion, Emptied
<1>2. CASE \/ \E c \in ClientIds : \/ ClearParent(c) \/ CreateClient(c)
                                   \/ \E g \in Galleries : LinkGallery(g, c)
                                   \/ \E b \in Appointments : LinkBooking(b, c)
  BY <1>1, <1>2 DEF ClearParent, CreateClient, LinkGallery, LinkBooking
<1>3. ASSUME NEW k \in Kits, UpdateKit(k) PROVE LogoLostOnlyByDeletion'
  <2>1. \A j \in Kits : /\ kit'[j].home = kit[j].home /\ kit'[j].row = kit[j].row
                        /\ kit'[j].file = kit[j].file BY <1>0, <1>3 DEF UpdateKit, KitRows
  <2>2. UNCHANGED <<errand, halted>> BY <1>3 DEF UpdateKit
  <2>3. \A r \in TreeRequests : Emptied(r)' = Emptied(r) BY <2>1, <2>2 DEF Emptied
  <2> QED BY <2>1, <2>2, <2>3 DEF LogoLostOnlyByDeletion
<1>4. ASSUME NEW r \in TreeRequests, NEW c \in ClientIds, NEW p \in ClientIds, SetParent(r, c, p)
      PROVE  LogoLostOnlyByDeletion'
  <2>1. UNCHANGED <<kit, halted>> BY <1>4 DEF SetParent
  <2>2. errand[r].at \in {"idle", "reparent"} BY <1>4, <1>i DEF SetParent
  <2>3. \A q \in TreeRequests \ {r} : /\ errand'[q].at = errand[q].at
                                      /\ errand'[q].client = errand[q].client
                                      /\ errand'[q].kit = errand[q].kit
    <3>1. CASE \E task : Sets(r, task) BY <1>0, <3>1 DEF Sets
    <3>2. CASE errand' = [q \in TreeRequests |-> IF q = r THEN AtRest
                           ELSE [errand[q] EXCEPT !.stale = @ \/ errand[q].at = "reparent"]]
      BY <1>0, <3>2 DEF ErrandRows
    <3> QED BY <1>4, <3>1, <3>2 DEF SetParent
  <2> QED BY <2>1, <2>2, <2>3, LogoStays
<1>5. ASSUME NEW r \in TreeRequests, (\E c \in ClientIds : DeleteClientCheck(r, c)) \/ DeleteClientUnlink(r)
      PROVE  LogoLostOnlyByDeletion'
  <2>1. UNCHANGED <<kit, halted>> BY <1>5 DEF DeleteClientCheck, DeleteClientUnlink
  <2>2. errand[r].at \in {"idle", "unlink"} BY <1>5, <1>i DEF DeleteClientCheck, DeleteClientUnlink
  <2>3. \A q \in TreeRequests \ {r} : errand'[q] = errand[q]
    BY <1>0, <1>5 DEF DeleteClientCheck, DeleteClientUnlink, Sets, Proceeds
  <2> QED BY <2>1, <2>2, <2>3, LogoStays
<1>6. ASSUME NEW r \in TreeRequests, DeleteClientFiles(r) PROVE LogoLostOnlyByDeletion'
  <2>1. /\ kit' = [k \in Kits |-> IF kit[k].home = errand[r].client
                                   THEN [kit[k] EXCEPT !.file = FALSE] ELSE kit[k]]
        /\ Proceeds(r, "delete client") /\ halted' = halted /\ errand[r].at = "rmtree" BY <1>6 DEF DeleteClientFiles
  <2>2. "delete client" \in Errands BY DEF Errands
  <2>3. /\ errand'[r].at = "delete client" /\ errand'[r].client = errand[r].client
        /\ \A q \in TreeRequests \ {r} : errand'[q] = errand[q] BY <2>1, <2>2, ErrandGoes
  <2>4. Emptied(r) = {} BY <2>1 DEF Emptied
  <2>5. ASSUME NEW k \in Kits
        PROVE  /\ kit'[k].home = kit[k].home
               /\ kit'[k].row /\ ~kit'[k].file => (kit[k].row /\ ~kit[k].file) \/ k \in Emptied(r)'
    <3>1. CASE kit[k].home = errand[r].client
      <4>1. kit'[k] = [kit[k] EXCEPT !.file = FALSE] BY <2>1, <3>1
      <4>2. kit'[k].home = kit[k].home BY <1>0, <4>1 DEF KitRows
      <4>3. k \in Emptied(r)' BY <2>3, <3>1, <4>2 DEF Emptied
      <4> QED BY <4>2, <4>3
    <3>2. CASE kit[k].home # errand[r].client BY <2>1, <3>2
    <3> QED BY <3>1, <3>2
  <2> QED BY <2>1, <2>3, <2>4, <2>5, LogoBy
<1>7. ASSUME NEW r \in TreeRequests, ErrandEnds(r) PROVE LogoLostOnlyByDeletion'
  <2>1. kit' = kit /\ halted' = halted \cup Emptied(r) /\ Finishes(r) BY <1>7 DEF ErrandEnds
  <2>2. \A q \in TreeRequests \ {r} : errand'[q] = errand[q] BY <2>1, ErrandEnded
  <2> QED BY <2>1, <2>2, LogoBy
<1>8. ASSUME NEW r \in TreeRequests, DeleteClientRow(r) PROVE LogoLostOnlyByDeletion'
  <2>0. PICK c : c = errand[r].client OBVIOUS
  <2>1. /\ kit' = [k \in Kits |-> IF kit[k].home = c
                                   THEN [kit[k] EXCEPT !.row = FALSE, !.active = FALSE] ELSE kit[k]]
        /\ Finishes(r) /\ halted' = halted /\ errand[r].at = "delete client" BY <1>8, <2>0 DEF DeleteClientRow
  <2>2. \A q \in TreeRequests \ {r} : errand'[q] = errand[q] BY <2>1, ErrandEnded
  <2>3. \A k \in Kits : k \in Emptied(r) <=> kit[k].home = c BY <2>0, <2>1 DEF Emptied
  <2>4. ASSUME NEW k \in Kits
        PROVE  \/ kit[k].home = c /\ ~kit'[k].row
               \/ kit[k].home # c /\ kit'[k] = kit[k] BY <1>0, <2>1 DEF KitRows
  <2> QED BY <2>1, <2>2, <2>3, <2>4, LogoBy
<1>9. ASSUME NEW r \in TreeRequests, NEW k \in Kits, DeleteKit(r, k) PROVE LogoLostOnlyByDeletion'
  <2>1. CASE errand[r] = AtRest
    <3> DEFINE task == [AtRest EXCEPT !.at = "delete kit", !.kit = k]
    <3>0. errand[r].at = "idle" BY <2>1 DEF AtRest
    <3>1. kit' = [kit EXCEPT ![k].file = FALSE] /\ Sets(r, task) /\ halted' = halted BY <1>9, <3>0 DEF DeleteKit
    <3>2. task \in ErrandRows /\ task.at = "delete kit" /\ task.kit = k BY DEF AtRest, ErrandRows, Errands
    <3> HIDE DEF task
    <3>3. errand'[r] = task /\ \A q \in TreeRequests \ {r} : errand'[q] = errand[q] BY <3>1, <3>2, ErrandSet
    <3>4. k \in Emptied(r)' BY <3>2, <3>3 DEF Emptied
    <3>5. Emptied(r) = {} BY <3>0 DEF Emptied
    <3>6. ASSUME NEW j \in Kits
          PROVE kit'[j].home = kit[j].home /\ (j # k => kit'[j] = kit[j]) BY <1>0, <3>1 DEF KitRows
    <3> QED BY <3>1, <3>3, <3>4, <3>5, <3>6, LogoBy
  <2>2. CASE errand[r] # AtRest
    <3>1. /\ kit' = [kit EXCEPT ![k].row = FALSE, ![k].active = FALSE] /\ Finishes(r)
          /\ errand[r].at = "delete kit" /\ errand[r].kit = k /\ halted' = halted BY <1>9, <2>2 DEF DeleteKit
    <3>2. \A q \in TreeRequests \ {r} : errand'[q] = errand[q] BY <3>1, ErrandEnded
    <3>3. \A j \in Kits : j \in Emptied(r) => j = k BY <3>1 DEF Emptied
    <3>4. ASSUME NEW j \in Kits
          PROVE  /\ kit'[j].home = kit[j].home /\ (j # k => kit'[j] = kit[j])
                 /\ j = k => ~kit'[j].row BY <1>0, <3>1 DEF KitRows
    <3> QED BY <3>1, <3>2, <3>3, <3>4, LogoBy
  <2> QED BY <2>1, <2>2
<1>10. ASSUME NEW r \in TreeRequests, NEW k \in Kits, NEW c \in ClientIds, UploadKit(r, c, k)
       PROVE  LogoLostOnlyByDeletion'
  <2>1. CASE errand[r] = AtRest
    <3> DEFINE task == [AtRest EXCEPT !.at = "insert kit", !.client = c, !.kit = k]
    <3>0. errand[r].at = "idle" BY <2>1 DEF AtRest
    <3>1. /\ kit' = [kit EXCEPT ![k].home = c, ![k].file = TRUE] /\ Sets(r, task)
          /\ kit[k].home = NoClient /\ halted' = halted BY <1>10, <3>0 DEF UploadKit
    <3>2. task \in ErrandRows BY DEF AtRest, ErrandRows, Errands
    <3> HIDE DEF task
    <3>3. \A q \in TreeRequests \ {r} : errand'[q] = errand[q] BY <3>1, <3>2, ErrandSet
    <3>4. Emptied(r) = {} BY <3>0 DEF Emptied
    <3>5. ~kit[k].row
      <4>1. NoClient \notin clients BY TypeParts DEF Parents, ClientTreeAssumption
      <4> QED BY <1>0, <3>1, <4>1 DEF KitsOK
    <3>6. ASSUME NEW j \in Kits
          PROVE  (j # k => kit'[j] = kit[j]) /\ (j = k => kit'[j].row = kit[j].row) BY <1>0, <3>1 DEF KitRows
    <3> QED BY <3>1, <3>3, <3>4, <3>5, <3>6, LogoBy
  <2>2. CASE errand[r] # AtRest
    <3>1. /\ kit' = [kit EXCEPT ![k].row = TRUE, ![k].active = TRUE] /\ Finishes(r)
          /\ errand[r].at = "insert kit"
          /\ halted' = IF kit[k].file THEN halted ELSE halted \cup {k} BY <1>10, <2>2 DEF UploadKit
    <3>2. \A q \in TreeRequests \ {r} : errand'[q] = errand[q] BY <3>1, ErrandEnded
    <3>3. Emptied(r) = {} BY <3>1 DEF Emptied
    <3>4. ASSUME NEW j \in Kits
          PROVE  /\ kit'[j].home = kit[j].home /\ (j # k => kit'[j] = kit[j])
                 /\ j = k => kit'[j].file = kit[j].file BY <1>0, <3>1 DEF KitRows
    <3> QED BY <3>1, <3>2, <3>3, <3>4, LogoBy
  <2> QED BY <2>1, <2>2
<1> QED BY <1>2, <1>3, <1>4, <1>5, <1>6, <1>7, <1>8, <1>9, <1>10 DEF TreeNext, TreeKeeps

\* A step of the tree keeps its invariant, and so does one that leaves it alone.
LEMMA TreeStep ==
  ASSUME ClientTreeAssumption, TreeInv, [TreeNext]_treeVars
  PROVE  TreeInv'
<1>1. CASE TreeNext BY <1>1, TypeStep, ForestStep, LogoStep DEF TreeInv
<1>2. CASE UNCHANGED treeVars
  BY <1>2 DEF treeVars, TreeInv, TypeInv, TreeTypeOK, Orphaned, Uploading, ForestInv, Checked,
              LogoLostOnlyByDeletion, Emptied
<1> QED BY <1>1, <1>2

\* An empty tree has all of it.
LEMMA TreeInitially ==
  ASSUME TreeInit
  PROVE  TreeInv
<1> USE DEF TreeInit
<1>1. TypeInv BY DEF TypeInv, TreeTypeOK, Orphaned, Uploading, AtRest, Errands
<1>2. ForestInv BY DEF ForestInv, Forest, Checked, AtRest
<1>3. LogoLostOnlyByDeletion BY DEF LogoLostOnlyByDeletion
<1> QED BY <1>1, <1>2, <1>3 DEF TreeInv

(* The licences.                                                           *)

LicenceRows == [state : {"absent", "live", "deleted"}, holder : clients \cup {NoClient},
                scope : COVERAGE_SCOPES, listed : SUBSET clients, status : STATUSES]
ClerkRows == [at : {"idle", "form", "save", "status"}, licence : Licences \cup {NoLicence},
              seen : AllTerms, wants : AllTerms]

\* Who fills in a form has opened a licence.
Opened(r) == clerk[r].at # "idle" => clerk[r].licence \in Licences

\* The audit log tells what the row says, also of a licence that was hidden.
TrailKept == \A l \in Licences \ excused : licence[l].state # "absent" => trail[l] = Terms(l)

RowsOK ==
  /\ licence \in [Licences -> LicenceRows]
  /\ \A l \in Licences : licence[l].state = "absent" \/ licence[l].holder \in clients

ClerksOK == clerk \in [Clerks -> ClerkRows] /\ \A r \in Clerks : Opened(r)

TrailOK == trail \in [Licences -> AllTerms] /\ excused \subseteq Licences

LicenceInv == TreeInv /\ RowsOK /\ ClerksOK /\ TrailOK /\ TrailKept

\* The terms of a new licence, and a closed form, are of their kinds.
LEMMA TermsTyped == NewTerms \in AllTerms /\ NoForm \in ClerkRows
BY DEF NewTerms, NoForm, AllTerms, ClerkRows, COVERAGE_SCOPES, STATUSES

\* Nothing is licensed and nothing told at the start.
LEMMA LicenceInitially ==
  ASSUME LicenceInit
  PROVE  LicenceInv
<1> USE DEF LicenceInit
<1>1. TreeInv BY TreeInitially
<1>2. RowsOK /\ TrailKept BY DEF RowsOK, TrailKept, LicenceRows, Unwritten, COVERAGE_SCOPES, STATUSES
<1>3. ClerksOK BY TermsTyped DEF ClerksOK, Opened, NoForm
<1>4. TrailOK BY TermsTyped DEF TrailOK
<1> QED BY <1>1, <1>2, <1>3, <1>4 DEF LicenceInv

\* Forms: what a request reads and writes of the licence it has opened.
LEMMA FormStep ==
  ASSUME LicenceInv, UNCHANGED treeVars, NEW r \in Clerks,
         \/ \E l \in Licences : OpenForm(r, l, "form") \/ OpenForm(r, l, "status")
         \/ ReadForm(r) \/ FormEnds(r)
  PROVE  (RowsOK /\ ClerksOK /\ TrailOK /\ TrailKept)'
<1>0. RowsOK /\ ClerksOK /\ TrailOK /\ TrailKept /\ clients \subseteq ClientIds
      /\ clerk[r] \in ClerkRows BY DEF LicenceInv, TreeInv, TypeInv, TreeTypeOK, ClerksOK
<1>1. UNCHANGED <<licence, trail, excused, clients>> BY DEF OpenForm, ReadForm, FormEnds, treeVars
<1>2. (RowsOK /\ TrailOK /\ TrailKept)' BY <1>0, <1>1 DEF RowsOK, TrailOK, TrailKept, Terms, LicenceRows
<1>3. ASSUME NEW w \in ClerkRows, clerk' = [clerk EXCEPT ![r] = w],
             w.at # "idle" => w.licence \in Licences
      PROVE  ClerksOK' BY <1>0, <1>3 DEF ClerksOK, Opened
<1>4. ASSUME NEW l \in Licences, NEW at \in {"form", "status"}, OpenForm(r, l, at) PROVE ClerksOK'
  <2> DEFINE w == [NoForm EXCEPT !.at = at, !.licence = l,
                     !.seen.scope = IF at = "form" THEN licence[l].scope ELSE @,
                     !.seen.status = IF at = "status" THEN licence[l].status ELSE @]
  <2>1. clerk' = [clerk EXCEPT ![r] = w] BY <1>4 DEF OpenForm
  <2>2. PICK n \in ClerkRows : n = NoForm BY TermsTyped
  <2>3. PICK scope \in COVERAGE_SCOPES : scope = IF at = "form" THEN licence[l].scope ELSE n.seen.scope
    BY <1>0 DEF RowsOK, LicenceRows, ClerkRows, AllTerms
  <2>4. PICK status \in STATUSES : status = IF at = "status" THEN licence[l].status ELSE n.seen.status
    BY <1>0 DEF RowsOK, LicenceRows, ClerkRows, AllTerms
  <2>5. w = [n EXCEPT !.at = at, !.licence = l, !.seen.scope = scope, !.seen.status = status] BY <2>2, <2>3, <2>4
  <2> HIDE DEF w
  <2>6. w = [at |-> at, licence |-> l, wants |-> n.wants,
             seen |-> [n.seen EXCEPT !.scope = scope, !.status = status]] BY <2>5 DEF ClerkRows, AllTerms
  <2>7. [n.seen EXCEPT !.scope = scope, !.status = status] \in AllTerms BY DEF ClerkRows, AllTerms
  <2>8. w \in ClerkRows /\ w.licence = l BY <2>6, <2>7 DEF ClerkRows
  <2> QED BY <1>3, <2>1, <2>8
<1>5. CASE ReadForm(r)
  <2>0. clerk[r].at = "form" /\ clerk[r].licence \in Licences BY <1>0, <1>5 DEF ReadForm, ClerksOK, Opened
  <2>1. PICK scope \in COVERAGE_SCOPES, chosen \in SUBSET clients :
          clerk' = [clerk EXCEPT
            ![r] = IF scope = @.seen.scope /\ chosen = licence[clerk[r].licence].listed THEN NoForm
                   ELSE [@ EXCEPT !.at = "save", !.wants.scope = scope, !.wants.listed = chosen,
                                  !.seen.listed = licence[clerk[r].licence].listed]] BY <1>5 DEF ReadForm
  <2> DEFINE f == [clerk[r] EXCEPT !.at = "save", !.wants.scope = scope, !.wants.listed = chosen,
                                   !.seen.listed = licence[clerk[r].licence].listed]
  <2>2. CASE clerk' = [clerk EXCEPT ![r] = NoForm]
    <3>1. NoForm.at = "idle" BY DEF NoForm
    <3> QED BY <1>2, <1>3, <2>2, <3>1, TermsTyped
  <2>3. CASE clerk' = [clerk EXCEPT ![r] = f]
    <3>1. licence[clerk[r].licence].listed \subseteq ClientIds BY <1>0, <2>0 DEF RowsOK, LicenceRows
    <3>2. [clerk[r].seen EXCEPT !.listed = licence[clerk[r].licence].listed] \in AllTerms
      BY <1>0, <3>1 DEF ClerkRows, AllTerms
    <3>3. [clerk[r].wants EXCEPT !.scope = scope, !.listed = chosen] \in AllTerms BY <1>0 DEF ClerkRows, AllTerms
    <3>a. PICK t \in ClerkRows : t = clerk[r] BY <1>0
    <3>b. PICK old : old = licence[clerk[r].licence].listed OBVIOUS
    <3>c. f = [t EXCEPT !.at = "save", !.wants.scope = scope, !.wants.listed = chosen,
                        !.seen.listed = old] BY <3>a, <3>b
    <3>d. f = [at |-> "save", licence |-> t.licence, seen |-> [t.seen EXCEPT !.listed = old],
               wants |-> [t.wants EXCEPT !.scope = scope, !.listed = chosen]]
      <4> HIDE DEF f
      <4> QED BY <3>c DEF ClerkRows, AllTerms
    <3>4. f = [at |-> "save", licence |-> clerk[r].licence,
               seen |-> [clerk[r].seen EXCEPT !.listed = licence[clerk[r].licence].listed],
               wants |-> [clerk[r].wants EXCEPT !.scope = scope, !.listed = chosen]] BY <3>a, <3>b, <3>d
    <3>5. f \in ClerkRows /\ f.licence \in Licences BY <2>0, <3>2, <3>3, <3>4 DEF ClerkRows
    <3> HIDE DEF f
    <3> QED BY <1>2, <1>3, <2>3, <3>5
  <2>4. clerk' = [clerk EXCEPT ![r] = NoForm] \/ clerk' = [clerk EXCEPT ![r] = f] BY <2>1
  <2> QED BY <2>2, <2>3, <2>4
<1>6. CASE FormEnds(r)
  <2>1. NoForm.at = "idle" /\ clerk' = [clerk EXCEPT ![r] = NoForm] BY <1>6 DEF FormEnds, NoForm
  <2> QED BY <1>2, <1>3, <2>1, TermsTyped
<1> QED BY <1>2, <1>4, <1>5, <1>6

\* The writes: row and audit entry in one transaction.
LEMMA SaveStep ==
  ASSUME LicenceInv, UNCHANGED treeVars, NEW r \in Clerks, SaveForm(r)
  PROVE  (RowsOK /\ ClerksOK /\ TrailOK /\ TrailKept)'
<1>0. RowsOK /\ ClerksOK /\ TrailOK /\ TrailKept /\ clients \subseteq ClientIds
  BY DEF LicenceInv, TreeInv, TypeInv, TreeTypeOK
<1>1. PICK l : l = clerk[r].licence OBVIOUS
<1>2. PICK seen : seen = clerk[r].seen OBVIOUS
<1>3. PICK wants : wants = clerk[r].wants OBVIOUS
<1>4. /\ clerk[r].at = "save" /\ licence[l].state # "absent" /\ wants.listed \subseteq clients
      /\ licence' = [licence EXCEPT ![l].scope = wants.scope,
                                    ![l].listed = IF wants.listed = seen.listed THEN @ ELSE wants.listed]
      /\ trail' = [trail EXCEPT ![l].scope = Reported(@, seen.scope, wants.scope),
                                ![l].listed = Reported(@, seen.listed, wants.listed)]
      /\ excused' = IF licence[l].scope = seen.scope THEN excused ELSE excused \cup {l}
      /\ clerk' = [clerk EXCEPT ![r] = NoForm] BY <1>1, <1>2, <1>3 DEF SaveForm
<1>5. /\ l \in Licences /\ seen \in AllTerms /\ wants \in AllTerms
      /\ licence[l] \in LicenceRows /\ trail[l] \in AllTerms
  BY <1>0, <1>1, <1>2, <1>3, <1>4 DEF ClerksOK, Opened, ClerkRows, RowsOK, TrailOK
<1>6. clients' = clients BY DEF treeVars
<1>7. ClerksOK'
  <2>1. NoForm.at = "idle" BY DEF NoForm
  <2> QED BY <1>0, <1>4, <2>1, TermsTyped DEF ClerksOK, Opened
<1> DEFINE new == [licence[l] EXCEPT !.scope = wants.scope,
                     !.listed = IF wants.listed = seen.listed THEN licence[l].listed ELSE wants.listed]
           told == [trail[l] EXCEPT !.scope = Reported(trail[l].scope, seen.scope, wants.scope),
                                    !.listed = Reported(trail[l].listed, seen.listed, wants.listed)]
<1>8. licence' = [licence EXCEPT ![l] = new] BY <1>0, <1>4, <1>5 DEF RowsOK
<1>9. trail' = [trail EXCEPT ![l] = told] BY <1>0, <1>4, <1>5 DEF TrailOK
<1>10. /\ new \in LicenceRows /\ new.holder = licence[l].holder /\ new.state = licence[l].state
       /\ new.scope = wants.scope /\ new.status = licence[l].status
       /\ new.listed = IF wants.listed = seen.listed THEN licence[l].listed ELSE wants.listed
  BY <1>4, <1>5 DEF LicenceRows, AllTerms
<1>11. /\ told \in AllTerms /\ told.status = trail[l].status
       /\ told.scope = Reported(trail[l].scope, seen.scope, wants.scope)
       /\ told.listed = Reported(trail[l].listed, seen.listed, wants.listed) BY <1>5 DEF AllTerms, Reported
<1> HIDE DEF new, told
<1>12. RowsOK' BY <1>0, <1>4, <1>6, <1>8, <1>10 DEF RowsOK, LicenceRows
<1>13. TrailOK' BY <1>0, <1>4, <1>5, <1>9, <1>11 DEF TrailOK
<1>14. TrailKept'
  <2> SUFFICES ASSUME NEW k \in Licences, k \notin excused', licence'[k].state # "absent"
               PROVE  trail'[k] = Terms(k)' BY DEF TrailKept
  <2>1. k \notin excused BY <1>4
  <2>2. CASE k # l
    <3>1. licence'[k] = licence[k] /\ trail'[k] = trail[k] BY <1>0, <1>8, <1>9, <2>2 DEF RowsOK, TrailOK
    <3> QED BY <1>0, <2>1, <3>1 DEF TrailKept, Terms
  <2>3. CASE k = l
    <3>1. licence[l].scope = seen.scope BY <1>4, <2>3
    <3>2. trail[l] = Terms(l) BY <1>0, <1>4, <1>5, <2>1, <2>3 DEF TrailKept
    <3>3. /\ trail[l].scope = licence[l].scope /\ trail[l].listed = licence[l].listed
          /\ trail[l].status = licence[l].status BY <3>2 DEF Terms
    <3>4. told.scope = new.scope BY <1>10, <1>11, <3>1, <3>3 DEF Reported
    <3>5. told.listed = new.listed BY <1>10, <1>11, <3>3 DEF Reported
    <3>6. told.status = new.status BY <1>10, <1>11, <3>3
    <3>7. told = [scope |-> new.scope, listed |-> new.listed, status |-> new.status]
      BY <1>11, <3>4, <3>5, <3>6 DEF AllTerms
    <3>8. licence'[l] = new /\ trail'[l] = told BY <1>0, <1>5, <1>8, <1>9 DEF RowsOK, TrailOK
    <3> QED BY <2>3, <3>7, <3>8 DEF Terms
  <2> QED BY <2>2, <2>3
<1> QED BY <1>7, <1>12, <1>13, <1>14

\* change_status writes the one column it tells of.
LEMMA StatusStep ==
  ASSUME LicenceInv, UNCHANGED treeVars, NEW r \in Clerks, ChangeStatus(r)
  PROVE  (RowsOK /\ ClerksOK /\ TrailOK /\ TrailKept)'
<1>0. RowsOK /\ ClerksOK /\ TrailOK /\ TrailKept /\ clients \subseteq ClientIds
  BY DEF LicenceInv, TreeInv, TypeInv, TreeTypeOK
<1>1. PICK l : l = clerk[r].licence OBVIOUS
<1>2. PICK status \in STATUSES :
        /\ licence' = [licence EXCEPT ![l].status = status]
        /\ trail' = [trail EXCEPT ![l].status = status] BY <1>1 DEF ChangeStatus
<1>3. /\ clerk' = [clerk EXCEPT ![r] = NoForm] /\ excused' = excused /\ clients' = clients
      /\ clerk[r].at = "status" /\ licence[l].state # "absent" BY <1>1 DEF ChangeStatus, treeVars
<1>4. l \in Licences BY <1>0, <1>1, <1>3 DEF ClerksOK, Opened
<1>5. licence[l] \in LicenceRows /\ trail[l] \in AllTerms BY <1>0, <1>4 DEF RowsOK, TrailOK
<1>6. ClerksOK'
  <2>1. NoForm.at = "idle" BY DEF NoForm
  <2> QED BY <1>0, <1>3, <2>1, TermsTyped DEF ClerksOK, Opened
<1> DEFINE new == [licence[l] EXCEPT !.status = status]
           told == [trail[l] EXCEPT !.status = status]
<1>7. licence' = [licence EXCEPT ![l] = new] /\ trail' = [trail EXCEPT ![l] = told]
  BY <1>0, <1>2, <1>4 DEF RowsOK, TrailOK
<1>8. /\ new \in LicenceRows /\ new.holder = licence[l].holder /\ new.state = licence[l].state
      /\ new.scope = licence[l].scope /\ new.status = status /\ new.listed = licence[l].listed BY <1>5 DEF LicenceRows
<1>9. /\ told \in AllTerms /\ told.status = status
      /\ told.scope = trail[l].scope /\ told.listed = trail[l].listed BY <1>5 DEF AllTerms
<1> HIDE DEF new, told
<1>10. RowsOK' BY <1>0, <1>3, <1>7, <1>8 DEF RowsOK, LicenceRows
<1>11. TrailOK' BY <1>0, <1>3, <1>7, <1>9 DEF TrailOK
<1>12. TrailKept'
  <2> SUFFICES ASSUME NEW k \in Licences, k \notin excused', licence'[k].state # "absent"
               PROVE  trail'[k] = Terms(k)' BY DEF TrailKept
  <2>1. k \notin excused BY <1>3
  <2>2. CASE k # l
    <3>1. licence'[k] = licence[k] /\ trail'[k] = trail[k] BY <1>0, <1>7, <2>2 DEF RowsOK, TrailOK
    <3> QED BY <1>0, <2>1, <3>1 DEF TrailKept, Terms
  <2>3. CASE k = l
    <3>1. trail[l] = Terms(l) BY <1>0, <1>3, <1>4, <2>1, <2>3 DEF TrailKept
    <3>2. trail[l].scope = licence[l].scope /\ trail[l].listed = licence[l].listed BY <3>1 DEF Terms
    <3>3. told = [scope |-> new.scope, listed |-> new.listed, status |-> new.status] BY <1>8, <1>9, <3>2 DEF AllTerms
    <3>4. licence'[l] = new /\ trail'[l] = told BY <1>0, <1>4, <1>7 DEF RowsOK, TrailOK
    <3> QED BY <2>3, <3>3, <3>4 DEF Terms
  <2> QED BY <2>2, <2>3
<1> QED BY <1>6, <1>10, <1>11, <1>12

\* A licence comes, and is hidden.
LEMMA RowStep ==
  ASSUME LicenceInv, UNCHANGED treeVars, NEW l \in Licences,
         DeleteLicence(l) \/ \E c \in ClientIds : CreateLicence(l, c)
  PROVE  (RowsOK /\ ClerksOK /\ TrailOK /\ TrailKept)'
<1>0. RowsOK /\ ClerksOK /\ TrailOK /\ TrailKept /\ licence[l] \in LicenceRows BY DEF LicenceInv, RowsOK
<1>1. clients' = clients BY DEF treeVars
<1>2. ClerksOK'
  <2>1. clerk' = clerk BY DEF DeleteLicence, CreateLicence
  <2> QED BY <1>0, <2>1 DEF ClerksOK, Opened
<1>3. CASE DeleteLicence(l)
  <2> DEFINE new == [licence[l] EXCEPT !.state = "deleted"]
  <2>1. licence' = [licence EXCEPT ![l] = new] /\ licence[l].state = "live"
        /\ UNCHANGED <<trail, excused>> BY <1>0, <1>3 DEF DeleteLicence, RowsOK
  <2>2. /\ new \in LicenceRows /\ new.holder = licence[l].holder
        /\ new.scope = licence[l].scope /\ new.listed = licence[l].listed
        /\ new.status = licence[l].status BY <1>0 DEF LicenceRows
  <2> HIDE DEF new
  <2>3. RowsOK' BY <1>0, <1>1, <2>1, <2>2 DEF RowsOK, LicenceRows
  <2>4. TrailOK' BY <1>0, <2>1 DEF TrailOK
  <2>5. \A k \in Licences : Terms(k)' = Terms(k) BY <1>0, <2>1, <2>2 DEF Terms, RowsOK
  <2>6. \A k \in Licences : licence'[k].state # "absent" => licence[k].state # "absent" BY <1>0, <2>1 DEF RowsOK
  <2>7. TrailKept' BY <1>0, <2>1, <2>5, <2>6 DEF TrailKept
  <2> QED BY <1>2, <2>3, <2>4, <2>7
<1>4. ASSUME NEW c \in ClientIds, CreateLicence(l, c)
      PROVE  (RowsOK /\ ClerksOK /\ TrailOK /\ TrailKept)'
  <2> DEFINE new == [Unwritten EXCEPT !.state = "live", !.holder = c]
  <2>1. /\ licence' = [licence EXCEPT ![l] = new] /\ trail' = [trail EXCEPT ![l] = NewTerms]
        /\ excused' = excused \ {l} /\ c \in clients BY <1>4 DEF CreateLicence
  <2>2. /\ new \in LicenceRows /\ new.holder = c
        /\ [scope |-> new.scope, listed |-> new.listed, status |-> new.status] = NewTerms
    BY <2>1 DEF Unwritten, NewTerms, LicenceRows, COVERAGE_SCOPES, STATUSES
  <2> HIDE DEF new
  <2>3. RowsOK' BY <1>0, <1>1, <2>1, <2>2 DEF RowsOK, LicenceRows
  <2>4. TrailOK' BY <1>0, <2>1, TermsTyped DEF TrailOK
  <2>5. TrailKept'
    <3> SUFFICES ASSUME NEW k \in Licences, k \notin excused', licence'[k].state # "absent"
                 PROVE  trail'[k] = Terms(k)' BY DEF TrailKept
    <3>1. CASE k = l
      <4>1. licence'[l] = new /\ trail'[l] = NewTerms BY <1>0, <2>1 DEF RowsOK, TrailOK
      <4> QED BY <2>2, <3>1, <4>1 DEF Terms
    <3>2. CASE k # l
      <4>1. licence'[k] = licence[k] /\ trail'[k] = trail[k] /\ k \notin excused
        BY <1>0, <2>1, <3>2 DEF RowsOK, TrailOK
      <4> QED BY <1>0, <4>1 DEF TrailKept, Terms
    <3> QED BY <3>1, <3>2
  <2> QED BY <1>2, <2>3, <2>4, <2>5
<1> QED BY <1>3, <1>4

\* Whatever the tree does that deletes no client.
LEMMA GrowthStep ==
  ASSUME LicenceInv, clients \subseteq clients', UNCHANGED <<licence, trail, clerk, excused>>
  PROVE  (RowsOK /\ ClerksOK /\ TrailOK /\ TrailKept)'
<1>0. RowsOK /\ ClerksOK /\ TrailOK /\ TrailKept BY DEF LicenceInv
<1>1. \A w \in LicenceRows : w \in LicenceRows' BY DEF LicenceRows
<1>2. RowsOK' BY <1>0, <1>1 DEF RowsOK
<1>3. (ClerksOK /\ TrailOK /\ TrailKept)' BY <1>0 DEF ClerksOK, Opened, TrailOK, TrailKept, Terms
<1> QED BY <1>2, <1>3

\* The deletion of a client takes its licences, and its place in lists.
LEMMA CascadeStep ==
  ASSUME LicenceInv, NEW r \in TreeRequests, DeleteClientCascade(r)
  PROVE  (RowsOK /\ ClerksOK /\ TrailOK /\ TrailKept)'
<1>0. RowsOK /\ ClerksOK /\ TrailOK /\ TrailKept BY DEF LicenceInv
<1>1. PICK c : c = errand[r].client OBVIOUS
<1>2. /\ clients' = clients \ {c} /\ clerk' = clerk
      /\ licence' = [l \in Licences |->
           IF licence[l].holder = c THEN Unwritten ELSE [licence[l] EXCEPT !.listed = @ \ {c}]]
      /\ trail' = [l \in Licences |-> IF licence[l].holder = c THEN NewTerms ELSE trail[l]]
      /\ excused' = excused \cup {l \in Licences : c \in licence[l].listed}
  BY <1>1 DEF DeleteClientCascade, DeleteClientRow
<1>3. ClerksOK' BY <1>0, <1>2 DEF ClerksOK, Opened
<1>4. TrailOK' BY <1>0, <1>2, TermsTyped DEF TrailOK
<1>5. ASSUME NEW l \in Licences
      PROVE  /\ licence'[l] \in LicenceRows'
             /\ licence'[l].state = "absent" \/ licence'[l].holder \in clients'
             /\ l \notin excused' /\ licence'[l].state # "absent" => trail'[l] = Terms(l)'
  <2>0. licence[l] \in LicenceRows /\ (licence[l].state = "absent" \/ licence[l].holder \in clients)
    BY <1>0 DEF RowsOK
  <2>1. CASE licence[l].holder = c
    <3>1. licence'[l] = Unwritten BY <1>2, <2>1
    <3> QED BY <3>1 DEF Unwritten, LicenceRows, COVERAGE_SCOPES, STATUSES
  <2>2. CASE licence[l].holder # c
    <3> DEFINE new == [licence[l] EXCEPT !.listed = licence[l].listed \ {c}]
    <3>1. licence'[l] = new /\ trail'[l] = trail[l] BY <1>2, <2>2
    <3>2. /\ new \in [state : {"absent", "live", "deleted"}, holder : (clients \ {c}) \cup {NoClient},
                      scope : COVERAGE_SCOPES, listed : SUBSET (clients \ {c}), status : STATUSES]
          /\ new.state = licence[l].state /\ new.holder = licence[l].holder
          /\ new.scope = licence[l].scope /\ new.status = licence[l].status
          /\ new.listed = licence[l].listed \ {c} BY <2>0, <2>2 DEF LicenceRows
    <3> HIDE DEF new
    <3>3. new \in LicenceRows' BY <1>2, <3>2 DEF LicenceRows
    <3>4. new.state = "absent" \/ new.holder \in clients' BY <1>2, <2>0, <2>2, <3>2
    <3>5. ASSUME l \notin excused', new.state # "absent" PROVE trail'[l] = Terms(l)'
      <4>1. l \notin excused /\ c \notin licence[l].listed BY <1>2, <3>5
      <4>2. trail[l] = Terms(l) BY <1>0, <3>2, <3>5, <4>1 DEF TrailKept
      <4>3. new.listed = licence[l].listed BY <3>2, <4>1
      <4> QED BY <3>1, <3>2, <4>2, <4>3 DEF Terms
    <3> QED BY <3>1, <3>3, <3>4, <3>5
  <2> QED BY <2>1, <2>2
<1>6. RowsOK'
  <2>1. licence' = [l \in Licences |-> licence'[l]] BY <1>2
  <2> QED BY <1>5, <2>1 DEF RowsOK
<1>7. TrailKept' BY <1>5 DEF TrailKept
<1> QED BY <1>3, <1>4, <1>6, <1>7

\* Every step of the component preserves the invariant.
LEMMA LicenceStepInv ==
  ASSUME ClientTreeAssumption, LicenceInv, [LicenceNext]_licenceVars
  PROVE  LicenceInv'
<1>0. TreeInv BY DEF LicenceInv
<1>1. CASE LicenceStep /\ UNCHANGED treeVars
  <2>1. TreeInv' BY <1>0, <1>1, TreeStep
  <2>2. (RowsOK /\ ClerksOK /\ TrailOK /\ TrailKept)' BY <1>1, FormStep, SaveStep, StatusStep, RowStep DEF LicenceStep
  <2> QED BY <2>1, <2>2 DEF LicenceInv
<1>2. CASE /\ TreeKeeps \/ \E c \in ClientIds : CreateClient(c)
           /\ UNCHANGED <<licence, trail, clerk, excused>>
  <2>1. TreeInv' BY <1>0, <1>2, TreeStep DEF TreeNext
  <2>2. clients \subseteq clients'
    <3>1. CASE TreeKeeps
      <4>1. CASE \E c \in ClientIds :
                   \/ ClearParent(c) \/ \E g \in Galleries : LinkGallery(g, c)
                   \/ \E b \in Appointments : LinkBooking(b, c) BY <4>1 DEF ClearParent, LinkGallery, LinkBooking
      <4>2. CASE \E k \in Kits : UpdateKit(k) BY <4>2 DEF UpdateKit
      <4>3. CASE \E r \in TreeRequests, c, p \in ClientIds : SetParent(r, c, p) BY <4>3 DEF SetParent
      <4>4. CASE \E r \in TreeRequests, c \in ClientIds : DeleteClientCheck(r, c) BY <4>4 DEF DeleteClientCheck
      <4>5. CASE \E r \in TreeRequests : DeleteClientUnlink(r) \/ DeleteClientFiles(r) \/ ErrandEnds(r)
        BY <4>5 DEF DeleteClientUnlink, DeleteClientFiles, ErrandEnds
      <4>6. CASE \E r \in TreeRequests, k \in Kits : DeleteKit(r, k) \/ \E c \in ClientIds : UploadKit(r, c, k)
        BY <4>6 DEF DeleteKit, UploadKit
      <4> QED BY <3>1, <4>1, <4>2, <4>3, <4>4, <4>5, <4>6 DEF TreeKeeps
    <3>2. CASE \E c \in ClientIds : CreateClient(c) BY <3>2 DEF CreateClient
    <3> QED BY <1>2, <3>1, <3>2
  <2>3. (RowsOK /\ ClerksOK /\ TrailOK /\ TrailKept)' BY <1>2, <2>2, GrowthStep
  <2> QED BY <2>1, <2>3 DEF LicenceInv
<1>3. ASSUME NEW r \in TreeRequests, DeleteClientCascade(r) PROVE LicenceInv'
  <2>1. TreeInv' BY <1>0, <1>3, TreeStep DEF DeleteClientCascade, TreeNext
  <2>2. (RowsOK /\ ClerksOK /\ TrailOK /\ TrailKept)' BY <1>3, CascadeStep
  <2> QED BY <2>1, <2>2 DEF LicenceInv
<1>4. CASE UNCHANGED licenceVars
  <2>1. UNCHANGED <<licence, trail, clerk, excused>> /\ UNCHANGED treeVars BY <1>4 DEF licenceVars
  <2>2. TreeInv' BY <1>0, <2>1, TreeStep
  <2>3. clients' = clients BY <2>1 DEF treeVars
  <2>4. (RowsOK /\ ClerksOK /\ TrailOK /\ TrailKept)' BY <2>1, <2>3, GrowthStep
  <2> QED BY <2>2, <2>4 DEF LicenceInv
<1> QED BY <1>1, <1>2, <1>3, <1>4 DEF LicenceNext

\* The two ways to ask for a licence's reach agree in every hierarchy whose clients
\* have at most one parent that is there, a forest or not.
LEMMA ReachAgrees ==
  ASSUME ClientTreeAssumption, Parents, RowsOK
  PROVE  CoverageAgrees
<1> SUFFICES ASSUME NEW l \in Licences, NEW c \in clients, licence[l].state = "live",
                    c # licence[l].holder
             PROVE  c \in EffectiveCoverage(l) <=> l \in LicencesCovering(c) BY DEF CoverageAgrees
<1>1. /\ licence[l].holder \in clients /\ licence[l].scope \in COVERAGE_SCOPES
      /\ clients \subseteq ClientIds BY DEF RowsOK, LicenceRows, Parents
<1>2. CASE licence[l].scope = "holder_and_descendants"
  <2>1. c \in EffectiveCoverage(l) <=> c \in Descendants(licence[l].holder) BY <1>2 DEF EffectiveCoverage
  <2>2. l \in LicencesCovering(c) <=> licence[l].holder \in Ancestors(c) BY <1>2 DEF LicencesCovering
  <2>3. licence[l].holder \in ClientIds BY <1>1
  <2>4. c \in Descendants(licence[l].holder) <=> licence[l].holder \in Ancestors(c) BY <2>3, InverseWalks
  <2> QED BY <2>1, <2>2, <2>4
<1>3. CASE licence[l].scope = "specific" BY <1>3 DEF EffectiveCoverage, LicencesCovering
<1>4. CASE licence[l].scope = "holder_only" BY <1>4 DEF EffectiveCoverage, LicencesCovering
<1> QED BY <1>1, <1>2, <1>3, <1>4 DEF COVERAGE_SCOPES

(* The theorems.                                                           *)

\* The invariant of the hierarchy, its kits and its licences is inductive.
THEOREM LicencesInductive == LicenceSpec => []LicenceInv
<1>1. LicenceInit => LicenceInv BY LicenceInitially
<1>2. LicenceInv /\ [LicenceNext]_licenceVars => LicenceInv' BY ClientTreeAssumption, LicenceStepInv
<1> QED BY <1>1, <1>2, PTL DEF LicenceSpec

\* The hierarchy becomes a cycle only by overlapping checks (clients.py:8), a kit
\* loses its logo only by a deletion, the two walks over the hierarchy agree on
\* whom a licence reaches (licenses.py:119), and its audit trail tells the row
\* (licenses.py:4) but for the causes named in TrailTellsTheRow.
THEOREM TreeAndLicences == LicenceSpec => []TreeAndLicencesHold
<1>1. LicenceInv => TreeAndLicencesHold
  <2> SUFFICES ASSUME LicenceInv PROVE TreeAndLicencesHold OBVIOUS
  <2>1. TypeInv /\ ForestInv /\ LogoLostOnlyByDeletion /\ RowsOK /\ TrailKept /\ Parents
    BY TypeParts DEF LicenceInv, TreeInv
  <2>2. ~Acyclic => tangled BY <2>1, ClientTreeAssumption, ForestWalksEnd DEF Acyclic, ForestInv, Parents
  <2>3. CycleNeedsOverlap BY <2>1, <2>2 DEF CycleNeedsOverlap, ForestInv, Checked
  <2>4. CoverageAgrees BY <2>1, ClientTreeAssumption, ReachAgrees
  <2>5. TrailTellsTheRow BY <2>1 DEF TrailTellsTheRow, TrailKept
  <2> QED BY <2>1, <2>3, <2>4, <2>5 DEF TreeAndLicencesHold
<1> QED BY <1>1, LicencesInductive, PTL

\* Every variable keeps its type, and whoever names a client names one there is.
THEOREM LicencesTypeCorrect == LicenceSpec => []LicenceTypeOK
<1>1. LicenceInv => LicenceTypeOK
  BY DEF LicenceInv, TreeInv, TypeInv, RowsOK, ClerksOK, TrailOK, LicenceRows, ClerkRows, LicenceTypeOK
<1> QED BY <1>1, LicencesInductive, PTL

(* OwnerMail                                                               *)

(* The inductive invariant *)

InquiryRows == [there : BOOLEAN, stale : BOOLEAN, delivered : BOOLEAN,
                status : {"pending", "in_flight", "failed", "delivered"}]
SenderRows  == [at : {"idle", "claim", "send", "stamp", "fail"}, inquiry : Inquiries \cup {NoInquiry}]
TabRows     == [at : {"idle", "enqueue", "reset", "answered"}, inquiry : Inquiries \cup {NoInquiry}]

\* Who is at work is at work on an inquiry, and stamps what it has mailed.
SenderOK(s) ==
  /\ sender[s].at # "idle" => sender[s].inquiry \in Inquiries
  /\ sender[s].at = "stamp" => ownerMails[sender[s].inquiry] > 0
TabOK(r) == inboxTab[r].at # "idle" => inboxTab[r].inquiry \in Inquiries

Holds(s, i) == sender[s].inquiry = i /\ sender[s].at \in {"send", "stamp", "fail"}
Taken(i) == inquiry[i].delivered \/ inquiry[i].status = "in_flight"

\* While its claim is nobody else's, an inquiry has one thread past the claim, and
\* was mailed only if it is taken.
OneMail(i) ==
  i \notin unclaimed =>
    /\ ownerMails[i] <= 1
    /\ ownerMails[i] = 1 => Taken(i)
    /\ \A s \in Senders : Holds(s, i) => Taken(i) /\ (sender[s].at # "stamp" => ownerMails[i] = 0)
    /\ \A s, t \in Senders : Holds(s, i) /\ Holds(t, i) => s = t

\* NoLeadDropped, of one inquiry.
Enqueued(i) == \E r \in InboxTabs : inboxTab[r] = [at |-> "enqueue", inquiry |-> i]
LeadKept(i) ==
  /\ inquiry[i].delivered => ownerMails[i] > 0 \/ i \in answered
  /\ inquiry[i].there /\ ~inquiry[i].delivered =>
       mailJobs[i] > 0 \/ Running(i) \/ i \in abandoned \/ Enqueued(i)

ThreadsInv == /\ \A s \in Senders : SenderOK(s)
              /\ \A r \in InboxTabs : TabOK(r)
LeadsInv == \A i \in Inquiries : OneMail(i) /\ LeadKept(i)

OwnerMailInv == OwnerMailTypeOK /\ ThreadsInv /\ LeadsInv

LEMMA Typed ==
  OwnerMailTypeOK <=>
    /\ inquiry \in [Inquiries -> InquiryRows] /\ mailJobs \in [Inquiries -> 0..MaxMailJobs]
    /\ sender \in [Senders -> SenderRows] /\ inboxTab \in [InboxTabs -> TabRows]
    /\ ownerMails \in [Inquiries -> 0..MaxOwnerMails]
    /\ answered \subseteq Inquiries /\ unclaimed \subseteq Inquiries /\ abandoned \subseteq Inquiries
BY DEF OwnerMailTypeOK, InquiryRows, SenderRows, TabRows

LEMMA OwnerMailInitially == OwnerMailInit => OwnerMailInv
<1> SUFFICES ASSUME OwnerMailInit PROVE OwnerMailInv
  OBVIOUS
<1>1. inquiry \in [Inquiries -> InquiryRows] BY DEF OwnerMailInit, InquiryRows
<1>2. sender \in [Senders -> SenderRows] /\ inboxTab \in [InboxTabs -> TabRows]
  BY DEF OwnerMailInit, FreeSender, SenderRows, TabRows
<1>3. mailJobs \in [Inquiries -> 0..MaxMailJobs] /\ ownerMails \in [Inquiries -> 0..MaxOwnerMails]
  BY OwnerMailAssumption DEF OwnerMailInit
<1>4. OwnerMailTypeOK BY <1>1, <1>2, <1>3, Typed DEF OwnerMailInit
<1>5. ThreadsInv BY DEF OwnerMailInit, FreeSender, ThreadsInv, SenderOK, TabOK
<1>6. LeadsInv
  <2> SUFFICES ASSUME NEW i \in Inquiries PROVE OneMail(i) /\ LeadKept(i) BY DEF LeadsInv
  <2>1. ownerMails[i] = 0 /\ ~inquiry[i].there /\ ~inquiry[i].delivered BY DEF OwnerMailInit
  <2>2. \A s \in Senders : ~Holds(s, i) BY DEF OwnerMailInit, FreeSender, Holds
  <2> QED BY <2>1, <2>2 DEF OneMail, LeadKept
<1> QED BY <1>4, <1>5, <1>6 DEF OwnerMailInv

(* The requests *)

LEMMA SubmitStep ==
  ASSUME OwnerMailInv, NEW r \in InboxTabs, NEW i \in Inquiries, SubmitInquiry(r, i)
  PROVE  OwnerMailInv'
<1>1. /\ inquiry' = [inquiry EXCEPT ![i].there = TRUE]
      /\ inboxTab' = [inboxTab EXCEPT ![r] = [at |-> "enqueue", inquiry |-> i]]
      /\ inboxTab[r] = FreeSender
      /\ UNCHANGED <<mailJobs, sender, ownerMails, answered, unclaimed, abandoned>> BY DEF SubmitInquiry, Tab
<1>2. /\ inquiry \in [Inquiries -> InquiryRows] /\ inboxTab \in [InboxTabs -> TabRows] BY Typed DEF OwnerMailInv
<1>3. /\ inquiry' \in [Inquiries -> InquiryRows] /\ inboxTab' \in [InboxTabs -> TabRows]
      /\ \A j \in Inquiries : /\ inquiry'[j].delivered = inquiry[j].delivered
                              /\ inquiry'[j].status = inquiry[j].status
                              /\ j # i => inquiry'[j].there = inquiry[j].there
      /\ inboxTab'[r] = [at |-> "enqueue", inquiry |-> i]
      /\ \A q \in InboxTabs \ {r} : inboxTab'[q] = inboxTab[q] BY <1>1, <1>2 DEF InquiryRows, TabRows
<1>4. OwnerMailTypeOK' BY <1>1, <1>3, Typed DEF OwnerMailInv, OwnerMailTypeOK, InquiryRows, TabRows
<1>5. ThreadsInv' BY <1>1, <1>3 DEF OwnerMailInv, ThreadsInv, SenderOK, TabOK
<1>6. ASSUME NEW j \in Inquiries PROVE OneMail(j)' /\ LeadKept(j)'
  <2>1. OneMail(j) /\ LeadKept(j) BY DEF OwnerMailInv, LeadsInv
  <2>2. OneMail(j)' BY <1>1, <1>3, <2>1 DEF OneMail, Taken, Holds
  <2>3. Enqueued(j) => Enqueued(j)'
    <3> SUFFICES ASSUME NEW q \in InboxTabs, inboxTab[q] = [at |-> "enqueue", inquiry |-> j]
                 PROVE  Enqueued(j)' BY DEF Enqueued
    <3>1. q # r BY <1>1 DEF FreeSender
    <3> QED BY <1>3, <3>1 DEF Enqueued
  <2>4. j = i => Enqueued(j)' BY <1>3 DEF Enqueued
  <2>5. j # i => inquiry'[j].there = inquiry[j].there BY <1>3
  <2>6. LeadKept(j)' BY <1>1, <1>3, <2>1, <2>3, <2>4, <2>5 DEF LeadKept, Running
  <2> QED BY <2>2, <2>6
<1> QED BY <1>4, <1>5, <1>6 DEF OwnerMailInv, LeadsInv

\* A request that goes on to `row` having touched inquiry i, and that takes no lead
\* out of other hands.
TabKeeps(r, i, row) ==
  /\ row \in TabRows /\ (row.at # "idle" => row.inquiry \in Inquiries)
  /\ inboxTab' = [inboxTab EXCEPT ![r] = row]
  /\ inquiry' \in [Inquiries -> InquiryRows]
  /\ \A j \in Inquiries : /\ inquiry'[j].there = inquiry[j].there
                          /\ inquiry[j].delivered => inquiry'[j].delivered
                          /\ j # i => inquiry'[j] = inquiry[j]
  /\ inquiry'[i].delivered => inquiry[i].delivered \/ i \in answered'
  /\ i \notin unclaimed' => (Taken(i) => Taken(i)')
  /\ unclaimed \subseteq unclaimed' /\ unclaimed' \subseteq Inquiries
  /\ abandoned \subseteq abandoned' /\ abandoned' \subseteq Inquiries
  /\ answered \subseteq answered' /\ answered' \subseteq Inquiries
  /\ mailJobs' \in [Inquiries -> 0..MaxMailJobs]
  /\ \A j \in Inquiries : mailJobs[j] > 0 => mailJobs'[j] > 0
  /\ sender' = sender /\ ownerMails' = ownerMails
  /\ \A j \in Inquiries : inboxTab[r] = [at |-> "enqueue", inquiry |-> j] =>
       inquiry'[j].delivered \/ mailJobs'[j] > 0 \/ j \in abandoned'

LEMMA TabStep ==
  ASSUME OwnerMailInv, NEW r \in InboxTabs, NEW i \in Inquiries, NEW row, TabKeeps(r, i, row)
  PROVE  OwnerMailInv'
<1>1. inboxTab \in [InboxTabs -> TabRows] BY Typed DEF OwnerMailInv
<1>2. /\ inboxTab' \in [InboxTabs -> TabRows] /\ inboxTab'[r] = row
      /\ \A q \in InboxTabs \ {r} : inboxTab'[q] = inboxTab[q] BY <1>1 DEF TabKeeps
<1>3. OwnerMailTypeOK' BY <1>2, Typed DEF OwnerMailInv, OwnerMailTypeOK, InquiryRows, TabRows, TabKeeps
<1>4. ThreadsInv' BY <1>2 DEF OwnerMailInv, ThreadsInv, SenderOK, TabOK, TabKeeps
<1>5. ASSUME NEW j \in Inquiries PROVE OneMail(j)' /\ LeadKept(j)'
  <2>1. OneMail(j) /\ LeadKept(j) BY DEF OwnerMailInv, LeadsInv
  <2>2. j \notin unclaimed' => (Taken(j) => Taken(j)') BY DEF Taken, TabKeeps
  <2>3. OneMail(j)' BY <2>1, <2>2 DEF OneMail, Holds, TabKeeps
  <2>4. inquiry'[j].delivered => ownerMails'[j] > 0 \/ j \in answered' BY <2>1 DEF LeadKept, TabKeeps
  <2>5. ASSUME NEW q \in InboxTabs, inboxTab[q] = [at |-> "enqueue", inquiry |-> j]
        PROVE  Enqueued(j)' \/ inquiry'[j].delivered \/ mailJobs'[j] > 0 \/ j \in abandoned'
    <3>1. CASE q = r BY <2>5, <3>1 DEF TabKeeps
    <3>2. CASE q # r BY <1>2, <2>5, <3>2 DEF Enqueued
    <3> QED BY <3>1, <3>2
  <2>6. inquiry'[j].there /\ ~inquiry'[j].delivered =>
          mailJobs'[j] > 0 \/ Running(j)' \/ j \in abandoned' \/ Enqueued(j)'
    <3> SUFFICES ASSUME inquiry[j].there, ~inquiry[j].delivered, ~inquiry'[j].delivered
                 PROVE  mailJobs'[j] > 0 \/ Running(j)' \/ j \in abandoned' \/ Enqueued(j)' BY DEF TabKeeps
    <3>1. mailJobs[j] > 0 \/ Running(j) \/ j \in abandoned \/ Enqueued(j) BY <2>1 DEF LeadKept
    <3>2. CASE Enqueued(j) BY <2>5, <3>2 DEF Enqueued
    <3>3. CASE Running(j) BY <3>3 DEF Running, TabKeeps
    <3> QED BY <3>1, <3>2, <3>3 DEF TabKeeps
  <2> QED BY <2>3, <2>4, <2>6 DEF LeadKept
<1> QED BY <1>3, <1>4, <1>5 DEF OwnerMailInv, LeadsInv

LEMMA FreeSenderIsTyped == FreeSender \in TabRows /\ FreeSender \in SenderRows /\ FreeSender.at = "idle"
BY DEF FreeSender, TabRows, SenderRows

LEMMA EnqueueStep ==
  ASSUME OwnerMailInv, NEW r \in InboxTabs, EnqueueOwnerEmail(r)
  PROVE  OwnerMailInv'
<1>0. PICK i \in Inquiries : inboxTab[r].inquiry = i BY DEF OwnerMailInv, ThreadsInv, TabOK, EnqueueOwnerEmail
<1>1. inquiry \in [Inquiries -> InquiryRows] /\ mailJobs \in [Inquiries -> 0..MaxMailJobs] BY Typed DEF OwnerMailInv
<1>2. /\ inboxTab' = [inboxTab EXCEPT ![r] = FreeSender]
      /\ UNCHANGED <<inquiry, sender, ownerMails, answered, unclaimed, abandoned>>
      /\ \/ inquiry[i].delivered /\ mailJobs' = mailJobs
         \/ mailJobs[i] < MaxMailJobs /\ mailJobs' = [mailJobs EXCEPT ![i] = @ + 1]
  BY <1>0 DEF EnqueueOwnerEmail, CloseTab
<1>3. /\ mailJobs' \in [Inquiries -> 0..MaxMailJobs]
      /\ \A j \in Inquiries : mailJobs[j] > 0 => mailJobs'[j] > 0
      /\ inquiry[i].delivered \/ mailJobs'[i] > 0 BY <1>1, <1>2, OwnerMailAssumption
<1>4. unclaimed \subseteq Inquiries /\ abandoned \subseteq Inquiries /\ answered \subseteq Inquiries
  BY DEF OwnerMailInv, OwnerMailTypeOK
<1>5. Taken(i) => Taken(i)' BY <1>2 DEF Taken
<1>6. \A j \in Inquiries : inboxTab[r] = [at |-> "enqueue", inquiry |-> j] => j = i BY <1>0
<1>7. TabKeeps(r, i, FreeSender) BY <1>1, <1>2, <1>3, <1>4, <1>5, <1>6, FreeSenderIsTyped DEF TabKeeps
<1> QED BY <1>1, <1>7, TabStep

LEMMA RetryStep ==
  ASSUME OwnerMailInv, NEW r \in InboxTabs, NEW i \in Inquiries, RetryOwnerEmail(r, i)
  PROVE  OwnerMailInv'
<1>1. /\ inquiry \in [Inquiries -> InquiryRows] /\ mailJobs \in [Inquiries -> 0..MaxMailJobs]
      /\ unclaimed \subseteq Inquiries /\ abandoned \subseteq Inquiries /\ answered \subseteq Inquiries
  BY Typed DEF OwnerMailInv
<1>2. CASE inboxTab[r] = FreeSender
  <2> DEFINE row == [at |-> "reset", inquiry |-> i]
  <2>1. /\ inboxTab' = [inboxTab EXCEPT ![r] = row]
        /\ UNCHANGED <<inquiry, mailJobs, sender, ownerMails, answered, unclaimed, abandoned>>
    BY <1>2 DEF RetryOwnerEmail, Tab, FreeSender
  <2>2. row \in TabRows /\ (row.at # "idle" => row.inquiry \in Inquiries) BY DEF TabRows
  <2>3. \A j \in Inquiries : inboxTab[r] # [at |-> "enqueue", inquiry |-> j] BY <1>2 DEF FreeSender
  <2>4. Taken(i) => Taken(i)' BY <2>1 DEF Taken
  <2>5. TabKeeps(r, i, row)
    <3> HIDE DEF row
    <3> QED BY <1>1, <2>1, <2>2, <2>3, <2>4 DEF TabKeeps
  <2> QED BY <2>5, TabStep
<1>3. CASE inboxTab[r] = [at |-> "reset", inquiry |-> i]
  <2> DEFINE row == [at |-> "enqueue", inquiry |-> i]
  <2>1. /\ inboxTab' = [inboxTab EXCEPT ![r] = row]
        /\ UNCHANGED <<mailJobs, sender, ownerMails, answered, abandoned>>
        /\ \/ inquiry[i].delivered /\ UNCHANGED <<inquiry, unclaimed>>
           \/ /\ ~inquiry[i].delivered
              /\ inquiry' = [inquiry EXCEPT ![i].status = "failed", ![i].stale = FALSE]
              /\ unclaimed' = IF inquiry[i].status = "in_flight" THEN unclaimed \cup {i} ELSE unclaimed
    BY <1>3 DEF RetryOwnerEmail, Tab, FreeSender
  <2>2. /\ inquiry' \in [Inquiries -> InquiryRows]
        /\ \A j \in Inquiries : /\ j # i => inquiry'[j] = inquiry[j]
                                /\ inquiry'[j].there = inquiry[j].there
                                /\ inquiry'[j].delivered = inquiry[j].delivered BY <1>1, <2>1 DEF InquiryRows
  <2>3. i \notin unclaimed' => (Taken(i) => Taken(i)') BY <2>1, <2>2 DEF Taken
  <2>4. row \in TabRows /\ (row.at # "idle" => row.inquiry \in Inquiries) BY DEF TabRows
  <2>5. \A j \in Inquiries : inboxTab[r] # [at |-> "enqueue", inquiry |-> j] BY <1>3
  <2>6. unclaimed \subseteq unclaimed' /\ unclaimed' \subseteq Inquiries BY <1>1, <2>1
  <2>7. TabKeeps(r, i, row)
    <3> HIDE DEF row
    <3> QED BY <1>1, <2>1, <2>2, <2>3, <2>4, <2>5, <2>6 DEF TabKeeps
  <2> QED BY <2>7, TabStep
<1> QED BY <1>2, <1>3 DEF RetryOwnerEmail

LEMMA ReplyStep ==
  ASSUME OwnerMailInv, NEW r \in InboxTabs, NEW i \in Inquiries, Reply(r, i)
  PROVE  OwnerMailInv'
<1>1. /\ inquiry \in [Inquiries -> InquiryRows] /\ mailJobs \in [Inquiries -> 0..MaxMailJobs]
      /\ unclaimed \subseteq Inquiries /\ abandoned \subseteq Inquiries /\ answered \subseteq Inquiries
  BY Typed DEF OwnerMailInv
<1>2. CASE inboxTab[r] = FreeSender
  <2> DEFINE row == [at |-> "answered", inquiry |-> i]
  <2>1. /\ inboxTab' = [inboxTab EXCEPT ![r] = row]
        /\ UNCHANGED <<inquiry, mailJobs, sender, ownerMails, answered, unclaimed, abandoned>>
    BY <1>2 DEF Reply, Tab, FreeSender
  <2>2. row \in TabRows /\ (row.at # "idle" => row.inquiry \in Inquiries) BY DEF TabRows
  <2>3. \A j \in Inquiries : inboxTab[r] # [at |-> "enqueue", inquiry |-> j] BY <1>2 DEF FreeSender
  <2>4. Taken(i) => Taken(i)' BY <2>1 DEF Taken
  <2>5. TabKeeps(r, i, row)
    <3> HIDE DEF row
    <3> QED BY <1>1, <2>1, <2>2, <2>3, <2>4 DEF TabKeeps
  <2> QED BY <2>5, TabStep
<1>3. CASE inboxTab[r] = [at |-> "answered", inquiry |-> i]
  <2>1. /\ inboxTab' = [inboxTab EXCEPT ![r] = FreeSender]
        /\ inquiry' = [inquiry EXCEPT ![i].status = "delivered", ![i].delivered = TRUE]
        /\ answered' = answered \cup {i}
        /\ UNCHANGED <<mailJobs, sender, ownerMails, unclaimed, abandoned>> BY <1>3 DEF Reply, CloseTab, FreeSender
  <2>2. /\ inquiry' \in [Inquiries -> InquiryRows] /\ inquiry'[i].delivered
        /\ \A j \in Inquiries : /\ j # i => inquiry'[j] = inquiry[j]
                                /\ inquiry'[j].there = inquiry[j].there BY <1>1, <2>1 DEF InquiryRows
  <2>3. Taken(i)' BY <2>2 DEF Taken
  <2>4. \A j \in Inquiries : inboxTab[r] # [at |-> "enqueue", inquiry |-> j] BY <1>3
  <2>5. TabKeeps(r, i, FreeSender) BY <1>1, <2>1, <2>2, <2>3, <2>4, FreeSenderIsTyped DEF TabKeeps
  <2> QED BY <2>5, TabStep
<1> QED BY <1>2, <1>3 DEF Reply

LEMMA TabFailsStep ==
  ASSUME OwnerMailInv, NEW r \in InboxTabs, TabFails(r)
  PROVE  OwnerMailInv'
<1> DEFINE i == inboxTab[r].inquiry
<1>1. /\ inquiry \in [Inquiries -> InquiryRows] /\ mailJobs \in [Inquiries -> 0..MaxMailJobs]
      /\ unclaimed \subseteq Inquiries /\ abandoned \subseteq Inquiries /\ answered \subseteq Inquiries
      /\ inboxTab \in [InboxTabs -> TabRows] /\ TabOK(r) BY Typed DEF OwnerMailInv, ThreadsInv
<1>2. /\ inboxTab' = [inboxTab EXCEPT ![r] = FreeSender]
      /\ abandoned' = IF inboxTab[r].at = "enqueue" THEN abandoned \cup {i} ELSE abandoned
      /\ UNCHANGED <<inquiry, mailJobs, sender, ownerMails, answered, unclaimed>> BY DEF TabFails, CloseTab
<1>3. abandoned \subseteq abandoned' /\ abandoned' \subseteq Inquiries BY <1>1, <1>2 DEF TabOK
<1>4. \A j \in Inquiries : inboxTab[r] = [at |-> "enqueue", inquiry |-> j] => j \in abandoned' BY <1>2
<1>5. ASSUME NEW j \in Inquiries PROVE OwnerMailInv'
  <2>1. Taken(j) => Taken(j)' BY <1>2 DEF Taken
  <2>2. TabKeeps(r, j, FreeSender) BY <1>1, <1>2, <1>3, <1>4, <2>1, FreeSenderIsTyped DEF TabKeeps
  <2> QED BY <2>2, TabStep
<1>6. CASE Inquiries = {}
  <2>1. inboxTab' \in [InboxTabs -> TabRows] /\ \A q \in InboxTabs : inboxTab'[q] \in {inboxTab[q], FreeSender}
    BY <1>1, <1>2, FreeSenderIsTyped
  <2>2. OwnerMailTypeOK' BY <1>1, <1>2, <1>3, <2>1, Typed DEF OwnerMailInv, OwnerMailTypeOK, TabRows
  <2>3. ThreadsInv' BY <1>2, <2>1, FreeSenderIsTyped DEF OwnerMailInv, ThreadsInv, SenderOK, TabOK
  <2> QED BY <1>6, <2>2, <2>3 DEF OwnerMailInv, LeadsInv
<1> QED BY <1>5, <1>6

(* The job threads *)

\* A thread that goes on to `row` having touched inquiry i alone.
SenderKeeps(s, i, row) ==
  /\ row \in SenderRows /\ sender' = [sender EXCEPT ![s] = row]
  /\ sender[s].inquiry \in {i, NoInquiry} /\ row.inquiry \in {i, NoInquiry}
  /\ row.at # "idle" => row.inquiry = i
  /\ row.at = "stamp" => ownerMails'[i] > 0
  /\ inquiry' \in [Inquiries -> InquiryRows]
  /\ mailJobs' \in [Inquiries -> 0..MaxMailJobs] /\ ownerMails' \in [Inquiries -> 0..MaxOwnerMails]
  /\ \A j \in Inquiries : j # i => /\ inquiry'[j] = inquiry[j] /\ mailJobs'[j] = mailJobs[j]
                                   /\ ownerMails'[j] = ownerMails[j]
  /\ ownerMails[i] > 0 => ownerMails'[i] > 0
  /\ unclaimed \subseteq unclaimed' /\ unclaimed' \subseteq Inquiries
  /\ abandoned \subseteq abandoned' /\ abandoned' \subseteq Inquiries
  /\ inboxTab' = inboxTab /\ answered' = answered

LEMMA SenderFrame ==
  ASSUME OwnerMailInv, NEW s \in Senders, NEW i \in Inquiries, NEW row, SenderKeeps(s, i, row)
  PROVE  /\ sender'[s] = row /\ \A t \in Senders \ {s} : sender'[t] = sender[t]
         /\ \A t \in Senders \ {s} : Holds(t, i)' <=> Holds(t, i)
         /\ Holds(s, i)' <=> row.inquiry = i /\ row.at \in {"send", "stamp", "fail"}
         /\ OneMail(i)' /\ LeadKept(i)' => OwnerMailInv'
<1>1. sender \in [Senders -> SenderRows] BY Typed DEF OwnerMailInv
<1>2. sender' \in [Senders -> SenderRows] /\ sender'[s] = row /\ \A t \in Senders \ {s} : sender'[t] = sender[t]
  BY <1>1 DEF SenderKeeps
<1>3. OwnerMailTypeOK' BY <1>2, Typed DEF OwnerMailInv, OwnerMailTypeOK, InquiryRows, SenderRows, SenderKeeps
<1>4. ThreadsInv'
  <2>1. \A t \in Senders : SenderOK(t)'
    <3> SUFFICES ASSUME NEW t \in Senders PROVE SenderOK(t)'
      OBVIOUS
    <3>1. CASE t = s BY <1>2, <3>1 DEF SenderOK, SenderKeeps
    <3>2. CASE t # s BY <1>2, <3>2 DEF OwnerMailInv, ThreadsInv, SenderOK, SenderKeeps
    <3> QED BY <3>1, <3>2
  <2> QED BY <2>1 DEF OwnerMailInv, ThreadsInv, TabOK, SenderKeeps
<1>5. ASSUME NEW j \in Inquiries, j # i PROVE OneMail(j)' /\ LeadKept(j)'
  <2>1. OneMail(j) /\ LeadKept(j) BY DEF OwnerMailInv, LeadsInv
  <2>2. /\ inquiry'[j] = inquiry[j] /\ mailJobs'[j] = mailJobs[j] /\ ownerMails'[j] = ownerMails[j]
        /\ j \in abandoned => j \in abandoned'
        /\ j \notin unclaimed' => j \notin unclaimed
        /\ inboxTab' = inboxTab /\ answered' = answered BY <1>5 DEF SenderKeeps
  <2>3. sender[s].inquiry # j /\ sender'[s].inquiry # j BY <1>2, <1>5, OwnerMailAssumption DEF SenderKeeps
  <2>4. \A t \in Senders : /\ sender'[t].inquiry = j <=> sender[t].inquiry = j
                           /\ sender[t].inquiry = j => sender'[t] = sender[t] BY <1>2, <2>3
  <2>5. OneMail(j)' BY <2>1, <2>2, <2>4 DEF OneMail, Holds, Taken
  <2>6. LeadKept(j)' BY <2>1, <2>2, <2>4 DEF LeadKept, Running, Enqueued
  <2> QED BY <2>5, <2>6
<1>6. Holds(s, i)' <=> row.inquiry = i /\ row.at \in {"send", "stamp", "fail"} BY <1>2 DEF Holds
<1>7. \A t \in Senders \ {s} : Holds(t, i)' <=> Holds(t, i) BY <1>2 DEF Holds
<1> QED BY <1>2, <1>3, <1>4, <1>5, <1>6, <1>7 DEF OwnerMailInv, LeadsInv

\* A job that ends, having delivered, put itself back in the queue or been given up.
LEMMA JobEndsStep ==
  ASSUME OwnerMailInv, NEW s \in Senders, NEW i \in Inquiries, SenderKeeps(s, i, FreeSender),
         ownerMails' = ownerMails, inquiry'[i].there = inquiry[i].there,
         i \notin unclaimed' => (Taken(i) => Taken(i)') \/ (Holds(s, i) /\ ownerMails[i] = 0),
         inquiry'[i].delivered => ownerMails[i] > 0 \/ i \in answered,
         inquiry'[i].delivered \/ mailJobs'[i] > 0 \/ i \in abandoned'
  PROVE  OwnerMailInv'
<1>1. OneMail(i) /\ LeadKept(i) BY DEF OwnerMailInv, LeadsInv
<1>2. /\ ~Holds(s, i)' /\ \A t \in Senders \ {s} : (Holds(t, i)' <=> Holds(t, i)) /\ sender'[t] = sender[t]
      /\ OneMail(i)' /\ LeadKept(i)' => OwnerMailInv' BY SenderFrame, FreeSenderIsTyped
<1>3. OneMail(i)'
  <2> SUFFICES ASSUME i \notin unclaimed' PROVE OneMail(i)' BY DEF OneMail
  <2>1. i \notin unclaimed BY DEF SenderKeeps
  <2>2. CASE Taken(i) => Taken(i)' BY <1>1, <1>2, <2>1, <2>2 DEF OneMail
  <2>3. CASE Holds(s, i) /\ ownerMails[i] = 0
    <3>1. \A t \in Senders : ~Holds(t, i)' BY <1>1, <1>2, <2>1, <2>3 DEF OneMail
    <3> QED BY <2>3, <3>1 DEF OneMail
  <2> QED BY <2>2, <2>3
<1>4. LeadKept(i)' BY <1>1 DEF LeadKept, SenderKeeps
<1> QED BY <1>2, <1>3, <1>4

\* A job that raised is queued again or given up.
LEMMA RaisesKeeps ==
  ASSUME OwnerMailInv, NEW s \in Senders, NEW i \in Inquiries, sender[s].inquiry = i, JobRaises(s, i),
         inquiry' \in [Inquiries -> InquiryRows],
         \A j \in Inquiries : j # i => inquiry'[j] = inquiry[j],
         UNCHANGED <<inboxTab, ownerMails, answered, unclaimed>>
  PROVE  SenderKeeps(s, i, FreeSender) /\ (mailJobs'[i] > 0 \/ i \in abandoned')
<1>1. /\ mailJobs \in [Inquiries -> 0..MaxMailJobs] /\ ownerMails \in [Inquiries -> 0..MaxOwnerMails]
      /\ unclaimed \subseteq Inquiries /\ abandoned \subseteq Inquiries BY Typed DEF OwnerMailInv
<1>2. /\ sender' = [sender EXCEPT ![s] = FreeSender]
      /\ \/ mailJobs[i] < MaxMailJobs /\ mailJobs' = [mailJobs EXCEPT ![i] = @ + 1] /\ abandoned' = abandoned
         \/ abandoned' = abandoned \cup {i} /\ mailJobs' = mailJobs BY DEF JobRaises, JobEnds
<1>3. /\ mailJobs' \in [Inquiries -> 0..MaxMailJobs]
      /\ \A j \in Inquiries : j # i => mailJobs'[j] = mailJobs[j]
      /\ mailJobs'[i] > 0 \/ i \in abandoned'
      /\ abandoned \subseteq abandoned' /\ abandoned' \subseteq Inquiries BY <1>1, <1>2, OwnerMailAssumption
<1>4. FreeSender.inquiry = NoInquiry BY DEF FreeSender
<1> QED BY <1>1, <1>2, <1>3, <1>4, FreeSenderIsTyped DEF SenderKeeps

\* A thread that goes on in its work.
LEMMA WorksRow ==
  ASSUME sender \in [Senders -> SenderRows], NEW s \in Senders, NEW i \in Inquiries,
         sender[s].inquiry = i, NEW at \in {"send", "stamp", "fail"}, Works(s, at)
  PROVE  /\ [at |-> at, inquiry |-> i] \in SenderRows
         /\ sender' = [sender EXCEPT ![s] = [at |-> at, inquiry |-> i]]
<1>1. [at |-> at, inquiry |-> i] \in SenderRows BY DEF SenderRows
<1>2. [sender[s] EXCEPT !.at = at] = [at |-> at, inquiry |-> i] BY DEF SenderRows
<1> QED BY <1>1, <1>2 DEF Works

LEMMA DeliverStep ==
  ASSUME OwnerMailInv, NEW s \in Senders, NEW i \in Inquiries, DeliverOwnerEmail(s, i)
  PROVE  OwnerMailInv'
<1> DEFINE row == IF inquiry[i].delivered THEN FreeSender ELSE [at |-> "claim", inquiry |-> i]
<1>1. /\ inquiry \in [Inquiries -> InquiryRows] /\ mailJobs \in [Inquiries -> 0..MaxMailJobs]
      /\ ownerMails \in [Inquiries -> 0..MaxOwnerMails]
      /\ sender \in [Senders -> SenderRows]
      /\ unclaimed \subseteq Inquiries /\ abandoned \subseteq Inquiries
      /\ OneMail(i) /\ LeadKept(i) BY Typed DEF OwnerMailInv, LeadsInv
<1>2. /\ sender[s] = FreeSender /\ mailJobs[i] > 0 /\ mailJobs' = [mailJobs EXCEPT ![i] = @ - 1]
      /\ UNCHANGED <<inquiry, inboxTab, ownerMails, answered, unclaimed, abandoned>> BY DEF DeliverOwnerEmail
<1>3. sender' = [sender EXCEPT ![s] = row] BY <1>1, <1>2 DEF DeliverOwnerEmail
<1>4. mailJobs' \in [Inquiries -> 0..MaxMailJobs] /\ \A j \in Inquiries : j # i => mailJobs'[j] = mailJobs[j]
  BY <1>1, <1>2, OwnerMailAssumption
<1>5. /\ row \in SenderRows /\ row.inquiry \in {i, NoInquiry} /\ (row.at # "idle" => row.inquiry = i)
      /\ row.at \notin {"send", "stamp", "fail"} /\ (~inquiry[i].delivered => row.inquiry = i)
      /\ sender[s].inquiry = NoInquiry BY <1>2 DEF FreeSender, SenderRows
<1> HIDE DEF row
<1>6. SenderKeeps(s, i, row) BY <1>1, <1>2, <1>3, <1>4, <1>5 DEF SenderKeeps
<1>7. /\ ~Holds(s, i)' /\ sender'[s] = row
      /\ \A t \in Senders \ {s} : (Holds(t, i)' <=> Holds(t, i)) /\ sender'[t] = sender[t]
      /\ OneMail(i)' /\ LeadKept(i)' => OwnerMailInv' BY <1>5, <1>6, SenderFrame
<1>8. OneMail(i)' BY <1>1, <1>2, <1>7 DEF OneMail, Taken
<1>9. LeadKept(i)' BY <1>1, <1>2, <1>5, <1>7 DEF LeadKept, Running
<1> QED BY <1>7, <1>8, <1>9

LEMMA ClaimStep ==
  ASSUME OwnerMailInv, NEW s \in Senders, ClaimSend(s)
  PROVE  OwnerMailInv'
<1>0. PICK i \in Inquiries : sender[s].inquiry = i BY DEF OwnerMailInv, ThreadsInv, SenderOK, ClaimSend
<1>1. /\ inquiry \in [Inquiries -> InquiryRows] /\ mailJobs \in [Inquiries -> 0..MaxMailJobs]
      /\ ownerMails \in [Inquiries -> 0..MaxOwnerMails]
      /\ sender \in [Senders -> SenderRows]
      /\ unclaimed \subseteq Inquiries /\ abandoned \subseteq Inquiries
      /\ sender[s].at = "claim" BY <1>0, Typed DEF OwnerMailInv, ThreadsInv, SenderOK, ClaimSend
<1>2. OneMail(i) /\ LeadKept(i) BY DEF OwnerMailInv, LeadsInv
<1>3. UNCHANGED <<inboxTab, ownerMails, answered>> BY DEF ClaimSend
<1>4. CASE /\ ~inquiry[i].delivered /\ Claimable(i)
           /\ inquiry' = [inquiry EXCEPT ![i].status = "in_flight", ![i].stale = FALSE]
           /\ unclaimed' = IF inquiry[i].stale THEN unclaimed \cup {i} ELSE unclaimed
           /\ Works(s, "send")
           /\ UNCHANGED <<mailJobs, abandoned>>
  <2> DEFINE row == [at |-> "send", inquiry |-> i]
  <2>1. row \in SenderRows /\ sender' = [sender EXCEPT ![s] = row] BY <1>0, <1>1, <1>4, WorksRow
  <2>2. /\ inquiry' \in [Inquiries -> InquiryRows] /\ inquiry'[i].status = "in_flight"
        /\ \A j \in Inquiries : /\ j # i => inquiry'[j] = inquiry[j]
                                /\ inquiry'[j].delivered = inquiry[j].delivered BY <1>1, <1>4 DEF InquiryRows
  <2>3. row.at = "send" /\ row.inquiry = i
    OBVIOUS
  <2>4. SenderKeeps(s, i, row)
    <3> HIDE DEF row
    <3> QED BY <1>0, <1>1, <1>3, <1>4, <2>1, <2>2, <2>3 DEF SenderKeeps
  <2>5. /\ sender'[s] = row /\ \A t \in Senders \ {s} : sender'[t] = sender[t]
        /\ \A t \in Senders \ {s} : Holds(t, i)' <=> Holds(t, i)
        /\ OneMail(i)' /\ LeadKept(i)' => OwnerMailInv' BY <1>1, <2>4, SenderFrame
  <2>6. OneMail(i)'
    <3> SUFFICES ASSUME i \notin unclaimed' PROVE OneMail(i)' BY DEF OneMail
    <3>1. i \notin unclaimed /\ ~Taken(i) BY <1>4 DEF Claimable, Taken
    <3>2. ownerMails[i] = 0 /\ \A t \in Senders : ~Holds(t, i)
      <4>1. ownerMails[i] \in 0..MaxOwnerMails BY <1>1
      <4> QED BY <1>2, <3>1, <4>1, OwnerMailAssumption DEF OneMail
    <3>3. Taken(i)' BY <2>2 DEF Taken
    <3>4. \A t \in Senders : Holds(t, i)' => t = s BY <2>5, <3>2
    <3> QED BY <1>3, <3>2, <3>3, <3>4 DEF OneMail
  <2>7. LeadKept(i)'
    <3>1. Running(i)' BY <2>3, <2>5 DEF Running
    <3> QED BY <1>4, <2>2, <3>1 DEF LeadKept
  <2> QED BY <2>5, <2>6, <2>7
<1>5. CASE inquiry[i].delivered /\ JobEnds(s) /\ UNCHANGED <<inquiry, mailJobs, unclaimed, abandoned>>
  <2>1. SenderKeeps(s, i, FreeSender)
    BY <1>0, <1>1, <1>3, <1>5, FreeSenderIsTyped DEF SenderKeeps, JobEnds, FreeSender
  <2>2. Taken(i) => Taken(i)' BY <1>5 DEF Taken
  <2> QED BY <1>1, <1>2, <1>3, <1>5, <2>1, <2>2, JobEndsStep DEF LeadKept
<1>6. CASE /\ ~inquiry[i].delivered /\ ~Claimable(i)
           /\ JobRaises(s, i)
           /\ UNCHANGED <<inquiry, unclaimed>>
  <2>1. SenderKeeps(s, i, FreeSender) /\ (mailJobs'[i] > 0 \/ i \in abandoned') BY <1>0, <1>1, <1>3, <1>6, RaisesKeeps
  <2>2. Taken(i) => Taken(i)' BY <1>6 DEF Taken
  <2> QED BY <1>1, <1>2, <1>3, <1>6, <2>1, <2>2, JobEndsStep DEF LeadKept
<1> QED BY <1>0, <1>4, <1>5, <1>6 DEF ClaimSend

LEMMA MailerStep ==
  ASSUME OwnerMailInv, NEW s \in Senders, MailerSend(s)
  PROVE  OwnerMailInv'
<1>0. PICK i \in Inquiries : sender[s].inquiry = i BY DEF OwnerMailInv, ThreadsInv, SenderOK, MailerSend
<1>1. /\ inquiry \in [Inquiries -> InquiryRows] /\ mailJobs \in [Inquiries -> 0..MaxMailJobs]
      /\ ownerMails \in [Inquiries -> 0..MaxOwnerMails]
      /\ sender \in [Senders -> SenderRows]
      /\ unclaimed \subseteq Inquiries /\ abandoned \subseteq Inquiries
      /\ sender[s].at = "send" BY <1>0, Typed DEF OwnerMailInv, ThreadsInv, SenderOK, MailerSend
<1>2. OneMail(i) /\ LeadKept(i) BY DEF OwnerMailInv, LeadsInv
<1>3. UNCHANGED <<inquiry, mailJobs, inboxTab, answered, abandoned>> BY DEF MailerSend
<1>4. ASSUME NEW at \in {"stamp", "fail"}, Works(s, at),
             ownerMails' \in [Inquiries -> 0..MaxOwnerMails],
             \A j \in Inquiries : j # i => ownerMails'[j] = ownerMails[j],
             ownerMails'[i] \in {ownerMails[i], ownerMails[i] + 1},
             unclaimed \subseteq unclaimed', unclaimed' \subseteq Inquiries,
             at = "stamp" => ownerMails'[i] = ownerMails[i] + 1,
             at = "fail" => i \in unclaimed' \/ ownerMails'[i] = ownerMails[i]
      PROVE  OwnerMailInv'
  <2> DEFINE row == [at |-> at, inquiry |-> i]
  <2>1. row \in SenderRows /\ sender' = [sender EXCEPT ![s] = row]
    <3>1. CASE at = "stamp" BY <1>0, <1>1, <1>4, <3>1, WorksRow
    <3>2. CASE at = "fail" BY <1>0, <1>1, <1>4, <3>2, WorksRow
    <3> QED BY <1>4, <3>1, <3>2
  <2>2. row.at = at /\ row.inquiry = i
    OBVIOUS
  <2>3. ownerMails[i] \in Nat BY <1>1, OwnerMailAssumption
  <2> HIDE DEF row
  <2>4. SenderKeeps(s, i, row) BY <1>0, <1>1, <1>3, <1>4, <2>1, <2>3, <2>2 DEF SenderKeeps
  <2>5. /\ sender'[s] = row /\ \A t \in Senders \ {s} : sender'[t] = sender[t]
        /\ \A t \in Senders \ {s} : Holds(t, i)' <=> Holds(t, i)
        /\ OneMail(i)' /\ LeadKept(i)' => OwnerMailInv' BY <1>1, <2>4, SenderFrame
  <2>6. OneMail(i)'
    <3> SUFFICES ASSUME i \notin unclaimed' PROVE OneMail(i)' BY DEF OneMail
    <3>1. Holds(s, i) /\ i \notin unclaimed BY <1>0, <1>1, <1>4 DEF Holds
    <3>2. Taken(i) /\ ownerMails[i] = 0 /\ \A t \in Senders : Holds(t, i) => t = s BY <1>1, <1>2, <3>1 DEF OneMail
    <3>3. Taken(i)' BY <1>3, <3>2 DEF Taken
    <3>4. \A t \in Senders : Holds(t, i)' => t = s BY <2>5, <3>2
    <3>5. ownerMails'[i] <= 1 /\ (sender'[s].at # "stamp" => ownerMails'[i] = 0) BY <1>4, <2>1, <2>5, <2>2, <3>2
    <3> QED BY <3>3, <3>4, <3>5 DEF OneMail
  <2>7. LeadKept(i)'
    <3>1. Running(i)' BY <2>1, <2>5, <2>2 DEF Running
    <3>2. ownerMails[i] > 0 => ownerMails'[i] > 0 BY <1>4, <2>3
    <3> QED BY <1>2, <1>3, <3>1, <3>2 DEF LeadKept
  <2> QED BY <2>5, <2>6, <2>7
<1>5. CASE /\ ownerMails[i] < MaxOwnerMails
           /\ ownerMails' = [ownerMails EXCEPT ![i] = @ + 1]
           /\ \/ Works(s, "stamp") /\ UNCHANGED unclaimed
              \/ Works(s, "fail") /\ unclaimed' = unclaimed \cup {i}
  <2>1. /\ ownerMails' \in [Inquiries -> 0..MaxOwnerMails] /\ ownerMails'[i] = ownerMails[i] + 1
        /\ \A j \in Inquiries : j # i => ownerMails'[j] = ownerMails[j] BY <1>1, <1>5, OwnerMailAssumption
  <2>2. CASE Works(s, "stamp") /\ UNCHANGED unclaimed BY <1>1, <1>4, <2>1, <2>2
  <2>3. CASE Works(s, "fail") /\ unclaimed' = unclaimed \cup {i} BY <1>1, <1>4, <2>1, <2>3
  <2> QED BY <1>5, <2>2, <2>3
<1>6. CASE Works(s, "fail") /\ UNCHANGED <<ownerMails, unclaimed>> BY <1>1, <1>4, <1>6
<1> QED BY <1>0, <1>5, <1>6 DEF MailerSend

LEMMA StampStep ==
  ASSUME OwnerMailInv, NEW s \in Senders, StampDelivered(s)
  PROVE  OwnerMailInv'
<1>0. PICK i \in Inquiries : sender[s].inquiry = i BY DEF OwnerMailInv, ThreadsInv, SenderOK, StampDelivered
<1>1. /\ inquiry \in [Inquiries -> InquiryRows] /\ mailJobs \in [Inquiries -> 0..MaxMailJobs]
      /\ ownerMails \in [Inquiries -> 0..MaxOwnerMails]
      /\ sender \in [Senders -> SenderRows]
      /\ unclaimed \subseteq Inquiries /\ abandoned \subseteq Inquiries
      /\ ownerMails[i] > 0 BY <1>0, Typed DEF OwnerMailInv, ThreadsInv, SenderOK, StampDelivered
<1>2. /\ inquiry' = [inquiry EXCEPT ![i] = [@ EXCEPT !.status = "delivered", !.delivered = TRUE]]
      /\ sender' = [sender EXCEPT ![s] = FreeSender]
      /\ UNCHANGED <<mailJobs, inboxTab, ownerMails, answered, unclaimed, abandoned>>
  BY <1>0 DEF StampDelivered, JobEnds
<1>3. /\ inquiry' \in [Inquiries -> InquiryRows] /\ inquiry'[i].delivered
      /\ inquiry'[i].there = inquiry[i].there
      /\ \A j \in Inquiries : j # i => inquiry'[j] = inquiry[j] BY <1>1, <1>2 DEF InquiryRows
<1>4. SenderKeeps(s, i, FreeSender) BY <1>0, <1>1, <1>2, <1>3, FreeSenderIsTyped DEF SenderKeeps, FreeSender
<1>5. Taken(i)' BY <1>3 DEF Taken
<1> QED BY <1>1, <1>2, <1>3, <1>4, <1>5, JobEndsStep

LEMMA FailureStep ==
  ASSUME OwnerMailInv, NEW s \in Senders, RecordFailure(s)
  PROVE  OwnerMailInv'
<1>0. PICK i \in Inquiries : sender[s].inquiry = i BY DEF OwnerMailInv, ThreadsInv, SenderOK, RecordFailure
<1>1. /\ inquiry \in [Inquiries -> InquiryRows] /\ mailJobs \in [Inquiries -> 0..MaxMailJobs]
      /\ ownerMails \in [Inquiries -> 0..MaxOwnerMails]
      /\ sender \in [Senders -> SenderRows]
      /\ unclaimed \subseteq Inquiries /\ abandoned \subseteq Inquiries
      /\ sender[s].at = "fail" BY <1>0, Typed DEF OwnerMailInv, ThreadsInv, SenderOK, RecordFailure
<1>2. OneMail(i) /\ LeadKept(i) BY DEF OwnerMailInv, LeadsInv
<1>3. /\ inquiry' = IF inquiry[i].delivered THEN inquiry
                    ELSE [inquiry EXCEPT ![i].status = "failed", ![i].stale = FALSE]
      /\ JobRaises(s, i)
      /\ UNCHANGED <<inboxTab, ownerMails, answered, unclaimed>> BY <1>0 DEF RecordFailure
<1>4. /\ inquiry' \in [Inquiries -> InquiryRows]
      /\ \A j \in Inquiries : /\ j # i => inquiry'[j] = inquiry[j]
                              /\ inquiry'[j].there = inquiry[j].there
                              /\ inquiry'[j].delivered = inquiry[j].delivered BY <1>1, <1>3 DEF InquiryRows
<1>5. SenderKeeps(s, i, FreeSender) /\ (mailJobs'[i] > 0 \/ i \in abandoned') BY <1>0, <1>1, <1>3, <1>4, RaisesKeeps
<1>6. i \notin unclaimed => Holds(s, i) /\ ownerMails[i] = 0 BY <1>0, <1>1, <1>2 DEF OneMail, Holds
<1> QED BY <1>1, <1>2, <1>3, <1>4, <1>5, <1>6, JobEndsStep DEF LeadKept

LEMMA KillStep ==
  ASSUME OwnerMailInv, Kill
  PROVE  OwnerMailInv'
<1>1. /\ inboxTab \in [InboxTabs -> TabRows] /\ mailJobs \in [Inquiries -> 0..MaxMailJobs]
      /\ abandoned \subseteq Inquiries BY Typed DEF OwnerMailInv
<1>2. /\ mailJobs' = [i \in Inquiries |-> IF Running(i) /\ mailJobs[i] < MaxMailJobs
                                          THEN mailJobs[i] + 1 ELSE mailJobs[i]]
      /\ sender' = [s \in Senders |-> FreeSender]
      /\ inboxTab' = [r \in InboxTabs |-> FreeSender]
      /\ abandoned' = abandoned \cup {inboxTab[r].inquiry : r \in {q \in InboxTabs :
                                                                   inboxTab[q].at = "enqueue"}}
      /\ UNCHANGED <<inquiry, ownerMails, answered, unclaimed>> BY DEF Kill
<1>3. /\ mailJobs' \in [Inquiries -> 0..MaxMailJobs]
      /\ \A i \in Inquiries : mailJobs[i] > 0 \/ Running(i) => mailJobs'[i] > 0 BY <1>1, <1>2, OwnerMailAssumption
<1>4. abandoned' \subseteq Inquiries /\ abandoned \subseteq abandoned'
  BY <1>1, <1>2 DEF OwnerMailInv, ThreadsInv, TabOK
<1>5. sender' \in [Senders -> SenderRows] /\ inboxTab' \in [InboxTabs -> TabRows] BY <1>2, FreeSenderIsTyped
<1>6. OwnerMailTypeOK' BY <1>2, <1>3, <1>4, <1>5 DEF OwnerMailInv, OwnerMailTypeOK, SenderRows, TabRows
<1>7. ThreadsInv' BY <1>2, FreeSenderIsTyped DEF ThreadsInv, SenderOK, TabOK
<1>8. ASSUME NEW i \in Inquiries PROVE OneMail(i)' /\ LeadKept(i)'
  <2>1. OneMail(i) /\ LeadKept(i) BY DEF OwnerMailInv, LeadsInv
  <2>2. \A s \in Senders : ~Holds(s, i)' BY <1>2, FreeSenderIsTyped DEF Holds
  <2>3. Taken(i)' <=> Taken(i) BY <1>2 DEF Taken
  <2>4. OneMail(i)' BY <1>2, <2>1, <2>2, <2>3 DEF OneMail
  <2>5. Enqueued(i) => i \in abandoned' BY <1>2 DEF Enqueued
  <2>6. LeadKept(i)' BY <1>2, <1>3, <1>4, <2>1, <2>5 DEF LeadKept
  <2> QED BY <2>4, <2>6
<1> QED BY <1>6, <1>7, <1>8 DEF OwnerMailInv, LeadsInv

LEMMA AgesStep ==
  ASSUME OwnerMailInv, NEW i \in Inquiries, ClaimAges(i)
  PROVE  OwnerMailInv'
<1>1. /\ inquiry \in [Inquiries -> InquiryRows]
      /\ inquiry' = [inquiry EXCEPT ![i].stale = TRUE]
      /\ UNCHANGED <<mailJobs, sender, inboxTab, ownerMails, answered, unclaimed, abandoned>>
  BY Typed DEF OwnerMailInv, ClaimAges
<1>2. /\ inquiry' \in [Inquiries -> InquiryRows]
      /\ \A j \in Inquiries : /\ inquiry'[j].there = inquiry[j].there
                              /\ inquiry'[j].delivered = inquiry[j].delivered
                              /\ inquiry'[j].status = inquiry[j].status BY <1>1 DEF InquiryRows
<1>3. OwnerMailTypeOK' BY <1>1, <1>2 DEF OwnerMailInv, OwnerMailTypeOK, InquiryRows
<1>4. ThreadsInv' BY <1>1 DEF OwnerMailInv, ThreadsInv, SenderOK, TabOK
<1>5. ASSUME NEW j \in Inquiries PROVE OneMail(j)' /\ LeadKept(j)'
  <2>1. OneMail(j) /\ LeadKept(j) BY DEF OwnerMailInv, LeadsInv
  <2>2. Taken(j)' <=> Taken(j) BY <1>2 DEF Taken
  <2>3. OneMail(j)' BY <1>1, <2>1, <2>2 DEF OneMail, Holds
  <2>4. LeadKept(j)' BY <1>1, <1>2, <2>1 DEF LeadKept, Running, Enqueued
  <2> QED BY <2>3, <2>4
<1> QED BY <1>3, <1>4, <1>5 DEF OwnerMailInv, LeadsInv

(* The theorems *)

\* What holds of rows, requests and threads in every reachable state.
THEOREM OwnerMailInductive == OwnerMailSpec => []OwnerMailInv
<1>1. OwnerMailInv /\ [OwnerMailNext]_ownerMailVars => OwnerMailInv'
  <2> SUFFICES ASSUME OwnerMailInv, [OwnerMailNext]_ownerMailVars PROVE OwnerMailInv'
    OBVIOUS
  <2>1. ASSUME NEW r \in InboxTabs, EnqueueOwnerEmail(r) \/ TabFails(r) PROVE OwnerMailInv'
    BY <2>1, EnqueueStep, TabFailsStep
  <2>2. ASSUME NEW r \in InboxTabs, NEW i \in Inquiries,
               SubmitInquiry(r, i) \/ RetryOwnerEmail(r, i) \/ Reply(r, i)
        PROVE  OwnerMailInv' BY <2>2, SubmitStep, RetryStep, ReplyStep
  <2>3. ASSUME NEW s \in Senders,
               ClaimSend(s) \/ MailerSend(s) \/ StampDelivered(s) \/ RecordFailure(s)
        PROVE  OwnerMailInv' BY <2>3, ClaimStep, MailerStep, StampStep, FailureStep
  <2>4. ASSUME NEW s \in Senders, NEW i \in Inquiries, DeliverOwnerEmail(s, i) PROVE OwnerMailInv'
    BY <2>4, DeliverStep
  <2>5. CASE Kill BY <2>5, KillStep
  <2>6. ASSUME NEW i \in Inquiries, ClaimAges(i) PROVE OwnerMailInv' BY <2>6, AgesStep
  <2>7. CASE UNCHANGED ownerMailVars
    BY <2>7 DEF ownerMailVars, OwnerMailInv, OwnerMailTypeOK, ThreadsInv, SenderOK, TabOK, LeadsInv,
       OneMail, Holds, Taken, LeadKept, Running, Enqueued
  <2> QED BY <2>1, <2>2, <2>3, <2>4, <2>5, <2>6, <2>7 DEF OwnerMailNext
<1> QED BY <1>1, OwnerMailInitially, PTL DEF OwnerMailSpec

\* Every variable stays in its type.
THEOREM OwnerMailTypeCorrect == OwnerMailSpec => []OwnerMailTypeOK
BY OwnerMailInductive, PTL DEF OwnerMailInv

\* However jobs, retries and answers overlap, the owner gets a second mail about an
\* inquiry only after its claim was taken over or reset, or SMTP misreported a mail
\* (app/inquiry_notify.py:4).
THEOREM OwnerMailOnce == OwnerMailSpec => []OwnerMailedOnce
<1>1. OwnerMailInv => OwnerMailedOnce
  <2> SUFFICES ASSUME OwnerMailInv, NEW i \in Inquiries, i \notin unclaimed PROVE ~(ownerMails[i] > 1)
    BY DEF OwnerMailedOnce
  <2>1. ownerMails[i] <= 1 /\ ownerMails[i] \in 0..MaxOwnerMails
    BY DEF OwnerMailInv, LeadsInv, OneMail, OwnerMailTypeOK
  <2> QED BY <2>1, OwnerMailAssumption
<1> QED BY <1>1, OwnerMailInductive, PTL

\* A lead that nothing works on was delivered, answered, given up by its job or never
\* enqueued (app/inquiry_notify.py:26-40).
THEOREM OwnerMailKeepsLeads == OwnerMailSpec => []NoLeadDropped
<1>1. OwnerMailInv => NoLeadDropped BY DEF OwnerMailInv, LeadsInv, LeadKept, Enqueued, NoLeadDropped
<1> QED BY <1>1, OwnerMailInductive, PTL

\* Jobs, retries, takeovers and kills, however they overlap, neither mail a lead twice
\* nor leave it out, but for the causes named (app/inquiry_notify.py:4, 26-40).
THEOREM OwnerMailHolds == OwnerMailSpec => []OwnerHears
BY OwnerMailOnce, OwnerMailKeepsLeads, PTL DEF OwnerHears
(* Leads: the threads over a page, the tabs over a lead.                   *)

LeadRows  == [there : BOOLEAN, converted : BOOLEAN, client : ClientRows \cup {NoRowYet}, dismissed : BOOLEAN,
              page : Pages \cup {NoPage}, orphan : Pages \cup {NoPage}, orphanOpen : BOOLEAN]
MirrorRows == [at : {"idle", "create", "stamp", "orphan", "patch"}, lead : LeadIds \cup {NoLead},
               status : Statuses, page : Pages \cup {NoPage}]
TriageRows == [at : {"idle", "enqueue", "new client", "convert", "dismiss"}, lead : LeadIds \cup {NoLead},
               client : ClientRows \cup {NoRowYet}]
NotionRows == [lead : LeadIds \cup {NoLead}, status : Statuses]

MirrorsAreWhole == \A s \in Syncers :
  /\ syncer[s].at = "idle" => syncer[s] = FreeSyncer
  /\ syncer[s].at # "idle" => syncer[s].lead \in LeadIds /\ MaxSyncJobs > 0
  /\ syncer[s].at \in {"stamp", "orphan"} =>
       syncer[s].page \in Pages /\ page[syncer[s].page].lead = syncer[s].lead
  /\ syncer[s].at = "patch" => syncer[s].page \in Pages /\ syncer[s].page = lead[syncer[s].lead].page

TabsAreWhole == \A r \in TriageTabs :
  /\ triageTab[r].at = "idle" => triageTab[r] = FreeTab
  /\ triageTab[r].at # "idle" => triageTab[r].lead \in LeadIds
  /\ triageTab[r].at = "convert" =>
       /\ triageTab[r].client \in ClientRows /\ account[triageTab[r].client] \in LeadIds
       /\ AddressOf[account[triageTab[r].client]] = AddressOf[triageTab[r].lead]

\* A page carries the lead it was made for, whoever keeps its id.
PagesBelong ==
  /\ \A g \in Pages : page[g].lead = NoLead => page[g] = NotMade
  /\ \A l \in LeadIds : /\ lead[l].page # NoPage => page[lead[l].page].lead = l
                        /\ lead[l].orphan # NoPage => page[lead[l].orphan].lead = l
PagesKept ==
  \A g \in Pages \ (stray \cup surplus) : page[g] # NotMade =>
    InHand(g) \/ g \in {lead[page[g].lead].page, lead[page[g].lead].orphan}

\* Once a lead has a page no thread sets out to make one more, so the one that made it
\* and the one whose page was the orphan are not among those still making one.
Makes(s, l) == syncer[s].lead = l /\ syncer[s].at \in {"create", "stamp", "orphan"}
OneDone(l)  == \E s \in Syncers : ~Makes(s, l)
TwoDone(l)  == \E s, t \in Syncers : s # t /\ ~Makes(s, l) /\ ~Makes(t, l)
OrphansFollow ==
  /\ \A l \in LeadIds : /\ lead[l].orphanOpen => lead[l].orphan # NoPage
                        /\ lead[l].orphan # NoPage => lead[l].page # NoPage /\ TwoDone(l)
                        /\ lead[l].page # NoPage => OneDone(l)
  /\ \A s \in Syncers : syncer[s].at = "orphan" => lead[syncer[s].lead].page # NoPage
  /\ surplus # {} => \E s, t, u \in Syncers : s # t /\ s # u /\ t # u

\* Unless the history says otherwise: one thread at a lead; it holds what stands, or a
\* job is on its way; and so does the page once it is stamped.
Coming(l) == syncJobs[l] > 0 \/ \E r \in TriageTabs : triageTab[r].at = "enqueue" /\ triageTab[r].lead = l
HasLatest(s, l) == Coming(l) \/ syncer[s].status = InquiryStatus(l)
Alone(l) == \A s, t \in Syncers : syncer[s].lead = l /\ syncer[t].lead = l => s = t
InStep(l) == \A s \in Syncers : syncer[s].lead = l =>
  /\ HasLatest(s, l) /\ syncer[s].at # "orphan"
  /\ syncer[s].at \in {"create", "stamp"} => lead[l].page = NoPage
  /\ syncer[s].at = "stamp" => page[syncer[s].page].status = syncer[s].status
Shows(l) == lead[l].page # NoPage /\ ~Syncing(l) => Coming(l) \/ page[lead[l].page].status = InquiryStatus(l)
MirrorFollows == \A l \in LeadIds \ outpaced : Alone(l) /\ InStep(l) /\ Shows(l)

\* A client is made for an address that has none, unless two tabs made theirs at once.
ClientsAreTheirs == \A l \in LeadIds : lead[l].client # NoRowYet =>
  account[lead[l].client] \in LeadIds /\ AddressOf[account[lead[l].client]] = AddressOf[l]
OneClientEach == \A c, d \in ClientRows :
  /\ c # d /\ account[c] # NoLead /\ account[d] # NoLead
  /\ AddressOf[account[c]] = AddressOf[account[d]]
  => AddressOf[account[c]] \in twice
Asking(r, a) == triageTab[r].at = "new client" /\ AddressOf[triageTab[r].lead] = a
AskedForNone == \A r \in TriageTabs, a \in Addresses \ twice : Asking(r, a) =>
  /\ \A c \in ClientRows : account[c] # NoLead => AddressOf[account[c]] # a
  /\ \A q \in TriageTabs : Asking(q, a) => q = r
ClientsFound == ClientsAreTheirs /\ OneClientEach /\ AskedForNone

LeadInv == /\ LeadTypeOK /\ MirrorsAreWhole /\ TabsAreWhole /\ PagesBelong /\ PagesKept
           /\ OrphansFollow /\ MirrorFollows /\ ClientsFound

LEMMA LeadTyped ==
  ASSUME LeadTypeOK
  PROVE  /\ lead \in [LeadIds -> LeadRows] /\ syncer \in [Syncers -> MirrorRows]
         /\ triageTab \in [TriageTabs -> TriageRows] /\ page \in [Pages -> NotionRows]
         /\ account \in [ClientRows -> LeadIds \cup {NoLead}] /\ syncJobs \in [LeadIds -> 0..MaxSyncJobs]
BY DEF LeadTypeOK, LeadRows, MirrorRows, TriageRows, NotionRows

LEMMA FreeLeadRows ==
  /\ FreeSyncer \in MirrorRows /\ FreeSyncer.at = "idle" /\ FreeSyncer.lead = NoLead
  /\ FreeTab \in TriageRows /\ FreeTab.at = "idle" /\ FreeTab.lead = NoLead
  /\ NotMade \in NotionRows /\ NotMade.lead = NoLead
BY DEF FreeSyncer, FreeTab, NotMade, MirrorRows, TriageRows, NotionRows, Statuses

LEMMA StatusOf == ASSUME LeadTypeOK, NEW l \in LeadIds PROVE InquiryStatus(l) \in Statuses
BY DEF InquiryStatus, Statuses

(* What each part asks of a step.                                          *)

LEMMA MirrorsStay ==
  ASSUME LeadTypeOK, MirrorsAreWhole, UNCHANGED <<syncer, page>>, \A l \in LeadIds : lead'[l].page = lead[l].page
  PROVE  MirrorsAreWhole'
BY DEF MirrorsAreWhole

LEMMA PagesStay ==
  ASSUME LeadTypeOK, PagesBelong, PagesKept, UNCHANGED <<syncer, page, stray, surplus>>,
         \A l \in LeadIds : lead'[l].page = lead[l].page /\ lead'[l].orphan = lead[l].orphan
  PROVE  PagesBelong' /\ PagesKept'
<1>1. PagesBelong' BY DEF PagesBelong
<1>2. \A g \in Pages : page[g] # NotMade => page[g].lead \in LeadIds BY LeadTyped DEF PagesBelong, NotionRows
<1>3. \A g \in Pages : InHand(g)' <=> InHand(g) BY DEF InHand
<1>4. PagesKept' BY <1>2, <1>3 DEF PagesKept
<1> QED BY <1>1, <1>4

LEMMA OrphansStay ==
  ASSUME LeadTypeOK, MirrorsAreWhole, OrphansFollow, UNCHANGED <<syncer, surplus>>,
         \A l \in LeadIds : /\ lead'[l].page = lead[l].page /\ lead'[l].orphan = lead[l].orphan
                            /\ lead'[l].orphanOpen => lead[l].orphanOpen
  PROVE  OrphansFollow'
<1>1. \A l \in LeadIds : (OneDone(l)' <=> OneDone(l)) /\ (TwoDone(l)' <=> TwoDone(l)) BY DEF OneDone, TwoDone, Makes
<1>2. \A s \in Syncers : syncer[s].at = "orphan" => syncer[s].lead \in LeadIds BY DEF MirrorsAreWhole
<1> QED BY <1>1, <1>2 DEF OrphansFollow

LEMMA MirrorStays ==
  ASSUME MirrorFollows, UNCHANGED <<syncer, page>>, outpaced \subseteq outpaced',
         \A l \in LeadIds : lead'[l].page = lead[l].page,
         \A l \in LeadIds \ outpaced' : /\ Coming(l) => Coming(l)'
                                        /\ Coming(l)' \/ InquiryStatus(l)' = InquiryStatus(l)
  PROVE  MirrorFollows'
<1>1. \A l \in LeadIds : Syncing(l)' <=> Syncing(l) BY DEF Syncing
<1> SUFFICES ASSUME NEW l \in LeadIds \ outpaced' PROVE Alone(l)' /\ InStep(l)' /\ Shows(l)' BY DEF MirrorFollows
<1>2. Alone(l) /\ InStep(l) /\ Shows(l) BY DEF MirrorFollows
<1>3. (Coming(l) => Coming(l)') /\ (Coming(l)' \/ InquiryStatus(l)' = InquiryStatus(l)) OBVIOUS
<1>4. Alone(l)' BY <1>2 DEF Alone
<1>5. \A s \in Syncers : HasLatest(s, l) => HasLatest(s, l)' BY <1>3 DEF HasLatest
<1>6. InStep(l)' BY <1>2, <1>5 DEF InStep
<1>7. Shows(l)'
  <2>1. ASSUME lead'[l].page # NoPage, ~Syncing(l)', ~Coming(l)' PROVE page'[lead'[l].page].status = InquiryStatus(l)'
    <3>1. page[lead[l].page].status = InquiryStatus(l) BY <1>1, <1>2, <1>3, <2>1 DEF Shows
    <3>2. InquiryStatus(l)' = InquiryStatus(l) /\ lead'[l].page = lead[l].page BY <1>3, <2>1
    <3> QED BY <3>1, <3>2
  <2> QED BY <2>1 DEF Shows
<1> QED BY <1>4, <1>6, <1>7

LEMMA ClientsStay ==
  ASSUME ClientsFound, UNCHANGED <<account, twice>>,
         \A l \in LeadIds : lead'[l].client = lead[l].client \/ lead'[l].client = NoRowYet,
         \A r \in TriageTabs : triageTab'[r].at = "new client" => triageTab'[r] = triageTab[r]
  PROVE  ClientsFound'
<1>1. ClientsAreTheirs' BY DEF ClientsFound, ClientsAreTheirs
<1>2. OneClientEach' BY DEF ClientsFound, OneClientEach
<1>3. \A r \in TriageTabs, a \in Addresses : Asking(r, a)' => Asking(r, a) BY DEF Asking
<1>4. AskedForNone' BY <1>3 DEF ClientsFound, AskedForNone
<1> QED BY <1>1, <1>2, <1>4 DEF ClientsFound

\* A request's step.
LEMMA TriageStep ==
  ASSUME LeadTypeOK, TabsAreWhole, account' = account, NEW r \in TriageTabs, NEW row \in TriageRows,
         triageTab' = [triageTab EXCEPT ![r] = row],
         row.at = "idle" => row = FreeTab, row.at # "idle" => row.lead \in LeadIds,
         row.at = "convert" => /\ row.client \in ClientRows /\ account[row.client] \in LeadIds
                               /\ AddressOf[account[row.client]] = AddressOf[row.lead]
  PROVE  /\ TabsAreWhole' /\ triageTab' \in [TriageTabs -> TriageRows]
         /\ \A q \in TriageTabs : triageTab'[q] = IF q = r THEN row ELSE triageTab[q]
<1>1. \A q \in TriageTabs : triageTab'[q] = IF q = r THEN row ELSE triageTab[q] BY LeadTyped
<1>2. triageTab' \in [TriageTabs -> TriageRows] BY LeadTyped
<1>3. TabsAreWhole' BY <1>1 DEF TabsAreWhole
<1> QED BY <1>1, <1>2, <1>3

LEMMA LeadInitially == ASSUME LeadInit PROVE LeadInv
<1> USE LeadInit, LeadsAssumption, FreeLeadRows DEF LeadInit
<1>1. LeadTypeOK
  <2>1. lead \in [LeadIds -> LeadRows] BY DEF LeadRows
  <2>2. syncer \in [Syncers -> MirrorRows] /\ triageTab \in [TriageTabs -> TriageRows] /\ page \in [Pages -> NotionRows]
    OBVIOUS
  <2>3. account \in [ClientRows -> LeadIds \cup {NoLead}] /\ syncJobs \in [LeadIds -> 0..MaxSyncJobs] OBVIOUS
  <2> QED BY <2>1, <2>2, <2>3 DEF LeadTypeOK, LeadRows, MirrorRows, TriageRows, NotionRows
<1>2. MirrorsAreWhole BY DEF MirrorsAreWhole
<1>3. TabsAreWhole BY DEF TabsAreWhole
<1>4. PagesBelong BY DEF PagesBelong
<1>5. PagesKept BY DEF PagesKept
<1>6. OrphansFollow BY DEF OrphansFollow
<1>7. MirrorFollows
  <2> SUFFICES ASSUME NEW l \in LeadIds PROVE Alone(l) /\ InStep(l) /\ Shows(l) BY DEF MirrorFollows
  <2>1. \A s \in Syncers : syncer[s].lead # l OBVIOUS
  <2> QED BY <2>1 DEF Alone, InStep, Shows
<1>8. ClientsFound
  <2>1. ClientsAreTheirs BY DEF ClientsAreTheirs
  <2>2. OneClientEach BY DEF OneClientEach
  <2>3. AskedForNone BY DEF AskedForNone, Asking
  <2> QED BY <2>1, <2>2, <2>3 DEF ClientsFound
<1> QED BY <1>1, <1>2, <1>3, <1>4, <1>5, <1>6, <1>7, <1>8 DEF LeadInv

\* What a request does to a lead, short of its page.
LEMMA TriageKeeps ==
  ASSUME LeadInv, UNCHANGED <<syncer, page, stray, surplus>>,
         lead' \in [LeadIds -> LeadRows], triageTab' \in [TriageTabs -> TriageRows],
         account' \in [ClientRows -> LeadIds \cup {NoLead}], syncJobs' \in [LeadIds -> 0..MaxSyncJobs],
         twice' \subseteq Addresses, outpaced \subseteq outpaced', outpaced' \subseteq LeadIds,
         \A l \in LeadIds : /\ lead'[l].page = lead[l].page /\ lead'[l].orphan = lead[l].orphan
                            /\ lead'[l].orphanOpen = lead[l].orphanOpen,
         \A l \in LeadIds \ outpaced' : /\ Coming(l) => Coming(l)'
                                        /\ Coming(l)' \/ InquiryStatus(l)' = InquiryStatus(l),
         TabsAreWhole', ClientsFound'
  PROVE  LeadInv'
<1> USE DEF LeadInv
<1>1. LeadTypeOK' BY DEF LeadTypeOK, LeadRows, MirrorRows, TriageRows, NotionRows
<1>2. MirrorsAreWhole' BY MirrorsStay
<1>3. PagesBelong' /\ PagesKept' BY PagesStay
<1>4. OrphansFollow' BY OrphansStay
<1>5. MirrorFollows' BY MirrorStays
<1> QED BY <1>1, <1>2, <1>3, <1>4, <1>5

\* A request that only moves on.
LEMMA TabMoves ==
  ASSUME LeadInv, UNCHANGED <<lead, account, syncJobs, syncer, page, stray, surplus>>,
         twice' \subseteq Addresses, outpaced \subseteq outpaced', outpaced' \subseteq LeadIds,
         NEW r \in TriageTabs, NEW row \in TriageRows, triageTab' = [triageTab EXCEPT ![r] = row],
         row.at = "idle" => row = FreeTab, row.at # "idle" => row.lead \in LeadIds,
         row.at = "convert" => /\ row.client \in ClientRows /\ account[row.client] \in LeadIds
                               /\ AddressOf[account[row.client]] = AddressOf[row.lead],
         triageTab[r].at = "enqueue" => triageTab[r].lead \in outpaced',
         ClientsFound'
  PROVE  LeadInv'
<1>1. LeadTypeOK /\ TabsAreWhole BY DEF LeadInv
<1>2. /\ TabsAreWhole' /\ triageTab' \in [TriageTabs -> TriageRows]
      /\ \A q \in TriageTabs : triageTab'[q] = IF q = r THEN row ELSE triageTab[q]
  BY ONLY <1>1, TriageStep, account' = account, r \in TriageTabs, row \in TriageRows, triageTab' = [triageTab EXCEPT ![r] = row],
          row.at = "idle" => row = FreeTab, row.at # "idle" => row.lead \in LeadIds,
          row.at = "convert" => /\ row.client \in ClientRows /\ account[row.client] \in LeadIds
                                /\ AddressOf[account[row.client]] = AddressOf[row.lead]
<1>3. \A l \in LeadIds : InquiryStatus(l)' = InquiryStatus(l) BY DEF InquiryStatus
<1>4. \A l \in LeadIds \ outpaced' : Coming(l) => Coming(l)' BY <1>2 DEF Coming
<1>5. /\ lead' \in [LeadIds -> LeadRows] /\ account' \in [ClientRows -> LeadIds \cup {NoLead}]
      /\ syncJobs' \in [LeadIds -> 0..MaxSyncJobs] BY <1>1, LeadTyped
<1> QED BY <1>2, <1>3, <1>4, <1>5, TriageKeeps

\* A request that writes the row, and is to enqueue the sync.
LEMMA TabWrites ==
  ASSUME LeadInv, UNCHANGED <<account, syncJobs, syncer, page, stray, outpaced, surplus, twice>>,
         NEW r \in TriageTabs, NEW l \in LeadIds, triageTab[r].at # "enqueue",
         OnTab(r, "enqueue", l, NoRowYet), NEW row \in LeadRows, lead' = [lead EXCEPT ![l] = row],
         row.page = lead[l].page, row.orphan = lead[l].orphan, row.orphanOpen = lead[l].orphanOpen,
         row.client = lead[l].client \/ row.client = NoRowYet \/
           (account[row.client] \in LeadIds /\ AddressOf[account[row.client]] = AddressOf[l])
  PROVE  LeadInv'
<1> DEFINE tab == [at |-> "enqueue", lead |-> l, client |-> NoRowYet]
<1>1. LeadTypeOK /\ TabsAreWhole /\ ClientsFound BY DEF LeadInv
<1>2. tab \in TriageRows /\ tab.at = "enqueue" /\ tab.lead = l BY DEF TriageRows
<1>3. triageTab' = [triageTab EXCEPT ![r] = tab] BY DEF OnTab
<1> HIDE DEF tab
<1>4. /\ TabsAreWhole' /\ triageTab' \in [TriageTabs -> TriageRows]
      /\ \A q \in TriageTabs : triageTab'[q] = IF q = r THEN tab ELSE triageTab[q] BY <1>1, <1>2, <1>3, TriageStep
<1>5. lead' \in [LeadIds -> LeadRows] /\ \A k \in LeadIds : lead'[k] = IF k = l THEN row ELSE lead[k]
  BY <1>1, LeadTyped
<1>6. Coming(l)' BY <1>2, <1>4 DEF Coming
<1>7. \A k \in LeadIds \ {l} : InquiryStatus(k)' = InquiryStatus(k) BY <1>5 DEF InquiryStatus
<1>8. \A k \in LeadIds : Coming(k) => Coming(k)' BY <1>4 DEF Coming
<1>9. ClientsFound'
  <2>1. ClientsAreTheirs' BY <1>1, <1>5 DEF ClientsFound, ClientsAreTheirs
  <2>2. OneClientEach' BY <1>1 DEF ClientsFound, OneClientEach
  <2>3. \A q \in TriageTabs, a \in Addresses : Asking(q, a)' => Asking(q, a) BY <1>2, <1>4 DEF Asking
  <2>4. AskedForNone' BY <1>1, <2>3 DEF ClientsFound, AskedForNone
  <2> QED BY <2>1, <2>2, <2>4 DEF ClientsFound
<1>10. /\ account' \in [ClientRows -> LeadIds \cup {NoLead}] /\ syncJobs' \in [LeadIds -> 0..MaxSyncJobs]
       /\ twice' \subseteq Addresses /\ outpaced \subseteq outpaced' /\ outpaced' \subseteq LeadIds
  BY <1>1, LeadTyped DEF LeadTypeOK
<1>11. \A k \in LeadIds : /\ lead'[k].page = lead[k].page /\ lead'[k].orphan = lead[k].orphan
                          /\ lead'[k].orphanOpen = lead[k].orphanOpen BY <1>5
<1>12. \A k \in LeadIds \ outpaced' : /\ Coming(k) => Coming(k)'
                                      /\ Coming(k)' \/ InquiryStatus(k)' = InquiryStatus(k) BY <1>6, <1>7, <1>8
<1> QED BY <1>4, <1>5, <1>9, <1>10, <1>11, <1>12, TriageKeeps

(* The requests.                                                           *)

LEMMA EnqueueKeeps == ASSUME LeadInv, NEW r \in TriageTabs, EnqueueSync(r) PROVE LeadInv'
<1> DEFINE l == triageTab[r].lead
<1>1. LeadTypeOK /\ TabsAreWhole /\ ClientsFound BY DEF LeadInv
<1>2. /\ triageTab[r].at = "enqueue" /\ syncJobs[l] < MaxSyncJobs
      /\ syncJobs' = [syncJobs EXCEPT ![l] = @ + 1] /\ triageTab' = [triageTab EXCEPT ![r] = FreeTab]
      /\ UNCHANGED <<lead, account, syncer, page, stray, outpaced, surplus, twice>> BY DEF EnqueueSync, TabRests
<1>3. l \in LeadIds /\ MaxSyncJobs \in Nat BY <1>1, <1>2, LeadsAssumption DEF TabsAreWhole
<1>4. /\ TabsAreWhole' /\ triageTab' \in [TriageTabs -> TriageRows]
      /\ \A q \in TriageTabs : triageTab'[q] = IF q = r THEN FreeTab ELSE triageTab[q]
  BY <1>1, <1>2, FreeLeadRows, TriageStep
<1>5. /\ syncJobs[l] \in 0..MaxSyncJobs /\ syncJobs[l] + 1 \in 0..MaxSyncJobs /\ syncJobs'[l] = syncJobs[l] + 1
      /\ \A k \in LeadIds \ {l} : syncJobs'[k] = syncJobs[k] BY <1>1, <1>2, <1>3, LeadTyped
<1>6. syncJobs' \in [LeadIds -> 0..MaxSyncJobs] BY <1>1, <1>2, <1>5, LeadTyped
<1>7. \A k \in LeadIds : Coming(k) => Coming(k)'
  <2> SUFFICES ASSUME NEW k \in LeadIds, Coming(k) PROVE Coming(k)' OBVIOUS
  <2>1. CASE k = l BY <1>3, <1>5, <2>1 DEF Coming
  <2>2. CASE k # l BY <1>4, <1>5, <2>2 DEF Coming
  <2> QED BY <2>1, <2>2
<1>8. \A k \in LeadIds : InquiryStatus(k)' = InquiryStatus(k) BY <1>2 DEF InquiryStatus
<1>9. ClientsFound' BY <1>1, <1>2, <1>4, FreeLeadRows, ClientsStay
<1>10. /\ lead' \in [LeadIds -> LeadRows] /\ account' \in [ClientRows -> LeadIds \cup {NoLead}]
       /\ twice' \subseteq Addresses /\ outpaced \subseteq outpaced' /\ outpaced' \subseteq LeadIds
  BY <1>1, <1>2, LeadTyped DEF LeadTypeOK
<1>11. \A k \in LeadIds : /\ lead'[k].page = lead[k].page /\ lead'[k].orphan = lead[k].orphan
                          /\ lead'[k].orphanOpen = lead[k].orphanOpen BY <1>2
<1>12. UNCHANGED <<syncer, page, stray, surplus>> BY <1>2
<1> QED BY <1>4, <1>6, <1>7, <1>8, <1>9, <1>10, <1>11, <1>12, TriageKeeps

LEMMA TakeInKeeps == ASSUME LeadInv, NEW r \in TriageTabs, NEW l \in LeadIds, TakeIn(r, l) PROVE LeadInv'
<1>1. PICK row : row = [lead[l] EXCEPT !.there = TRUE] OBVIOUS
<1>2. lead[l] \in LeadRows BY LeadTyped DEF LeadInv
<1>3. /\ row \in LeadRows /\ row.page = lead[l].page /\ row.orphan = lead[l].orphan
      /\ row.orphanOpen = lead[l].orphanOpen /\ row.client = lead[l].client BY <1>1, <1>2 DEF LeadRows
<1>4. lead' = [lead EXCEPT ![l] = row] BY <1>1 DEF TakeIn
<1> QED BY <1>3, <1>4, TabWrites, FreeLeadRows DEF TakeIn

LEMMA UnconvertKeeps == ASSUME LeadInv, NEW r \in TriageTabs, NEW l \in LeadIds, Unconvert(r, l) PROVE LeadInv'
<1>1. PICK row : row = [lead[l] EXCEPT !.converted = FALSE, !.client = NoRowYet] OBVIOUS
<1>2. lead[l] \in LeadRows BY LeadTyped DEF LeadInv
<1>3. /\ row \in LeadRows /\ row.page = lead[l].page /\ row.orphan = lead[l].orphan
      /\ row.orphanOpen = lead[l].orphanOpen /\ row.client = NoRowYet BY <1>1, <1>2 DEF LeadRows
<1>0. lead' = [lead EXCEPT ![l].converted = FALSE, ![l].client = NoRowYet] /\ lead \in [LeadIds -> LeadRows]
  BY LeadTyped DEF Unconvert, LeadInv
<1>4. lead' = [lead EXCEPT ![l] = row] BY ONLY <1>0, <1>1, <1>2, l \in LeadIds DEF LeadRows
<1> QED BY <1>3, <1>4, TabWrites, FreeLeadRows DEF Unconvert

LEMMA UndismissKeeps == ASSUME LeadInv, NEW r \in TriageTabs, NEW l \in LeadIds, UndismissLead(r, l) PROVE LeadInv'
<1>1. PICK row : row = [lead[l] EXCEPT !.dismissed = FALSE] OBVIOUS
<1>2. lead[l] \in LeadRows BY LeadTyped DEF LeadInv
<1>3. /\ row \in LeadRows /\ row.page = lead[l].page /\ row.orphan = lead[l].orphan
      /\ row.orphanOpen = lead[l].orphanOpen /\ row.client = lead[l].client BY <1>1, <1>2 DEF LeadRows
<1>4. lead' = [lead EXCEPT ![l] = row] BY <1>1 DEF UndismissLead
<1> QED BY <1>3, <1>4, TabWrites, FreeLeadRows DEF UndismissLead

LEMMA DismissKeeps == ASSUME LeadInv, NEW r \in TriageTabs, NEW l \in LeadIds, DismissLead(r, l) PROVE LeadInv'
<1>1. PICK row : row = [lead[l] EXCEPT !.dismissed = TRUE] OBVIOUS
<1>2. lead[l] \in LeadRows /\ LeadTypeOK /\ TabsAreWhole /\ ClientsFound BY LeadTyped DEF LeadInv
<1>3. /\ row \in LeadRows /\ row.page = lead[l].page /\ row.orphan = lead[l].orphan
      /\ row.orphanOpen = lead[l].orphanOpen /\ row.client = lead[l].client BY <1>1, <1>2 DEF LeadRows
<1>4. CASE triageTab[r].at = "dismiss" /\ triageTab[r].lead = l /\ lead' = [lead EXCEPT ![l].dismissed = TRUE]
           /\ OnTab(r, "enqueue", l, NoRowYet)
           /\ UNCHANGED <<account, syncJobs, syncer, page, stray, outpaced, surplus, twice>>
  <2>1. lead' = [lead EXCEPT ![l] = row] BY <1>1, <1>4
  <2> QED BY <1>3, <1>4, <2>1, TabWrites
<1>5. CASE triageTab[r] = FreeTab /\ OnTab(r, "dismiss", l, NoRowYet)
           /\ UNCHANGED <<lead, account, syncJobs, syncer, page, stray, outpaced, surplus, twice>>
  <2>1. PICK tab : tab = [at |-> "dismiss", lead |-> l, client |-> NoRowYet] OBVIOUS
  <2>2. tab \in TriageRows /\ tab.at = "dismiss" /\ tab.lead = l BY <2>1 DEF TriageRows
  <2>3. triageTab' = [triageTab EXCEPT ![r] = tab] BY <1>5, <2>1 DEF OnTab
  <2>4. \A q \in TriageTabs : triageTab'[q] = IF q = r THEN tab ELSE triageTab[q] BY <1>2, <2>3, LeadTyped
  <2>5. ClientsFound' BY <1>2, <1>5, <2>2, <2>4, ClientsStay
  <2>6. twice' \subseteq Addresses /\ outpaced \subseteq outpaced' /\ outpaced' \subseteq LeadIds
    BY <1>2, <1>5 DEF LeadTypeOK
  <2>7. UNCHANGED <<lead, account, syncJobs, syncer, page, stray, surplus>> /\ triageTab[r].at # "enqueue"
    BY <1>5, FreeLeadRows
  <2> QED BY <2>2, <2>3, <2>5, <2>6, <2>7, TabMoves
<1> QED BY <1>4, <1>5 DEF DismissLead

LEMMA TabDiesKeeps == ASSUME LeadInv, NEW r \in TriageTabs, TabDies(r) PROVE LeadInv'
<1>1. LeadTypeOK /\ TabsAreWhole /\ ClientsFound BY DEF LeadInv
<1>2. /\ outpaced' = outpaced \cup Unsynced(r) /\ triageTab' = [triageTab EXCEPT ![r] = FreeTab]
      /\ UNCHANGED <<lead, account, syncJobs, syncer, page, stray, surplus, twice>> BY DEF TabDies, TabRests
<1>3. \A q \in TriageTabs : triageTab'[q] = IF q = r THEN FreeTab ELSE triageTab[q] BY <1>1, <1>2, LeadTyped
<1>4. ClientsFound' BY <1>1, <1>2, <1>3, FreeLeadRows, ClientsStay
<1>5. triageTab[r].at = "enqueue" => triageTab[r].lead \in outpaced' BY <1>2 DEF Unsynced
<1>6. twice' \subseteq Addresses /\ outpaced \subseteq outpaced' /\ outpaced' \subseteq LeadIds
  BY <1>1, <1>2 DEF LeadTypeOK, Unsynced, TabsAreWhole
<1> QED BY <1>2, <1>4, <1>5, <1>6, FreeLeadRows, TabMoves

LEMMA FindKeeps == ASSUME LeadInv, NEW r \in TriageTabs, NEW l \in LeadIds, ConvertFind(r, l) PROVE LeadInv'
<1> DEFINE a == AddressOf[l]
           askedNow == \E q \in TriageTabs : triageTab[q].at = "new client" /\ AddressOf[triageTab[q].lead] = a
<1>1. LeadTypeOK /\ TabsAreWhole /\ ClientsFound BY DEF LeadInv
<1>2. /\ triageTab[r] = FreeTab /\ UNCHANGED <<lead, account, syncJobs, syncer, page, stray, outpaced, surplus>>
  BY DEF ConvertFind
<1>0. twice' = IF askedNow THEN twice \cup {a} ELSE twice BY Zenon DEF ConvertFind
<1>3. PICK tab \in TriageRows :
        /\ triageTab' = [triageTab EXCEPT ![r] = tab] /\ tab.lead = l
        /\ \/ tab.at = "new client" /\ Holders(a) = {}
           \/ tab.at = "convert" /\ tab.client \in Holders(a)
  <2>1. CASE Holders(a) = {}
    <3>1. PICK tab : tab = [at |-> "new client", lead |-> l, client |-> NoRowYet] OBVIOUS
    <3>2. tab \in TriageRows /\ tab.at = "new client" /\ tab.lead = l BY <3>1 DEF TriageRows
    <3> QED BY <2>1, <3>1, <3>2 DEF ConvertFind, OnTab
  <2>2. CASE Holders(a) # {}
    <3>1. PICK c \in Holders(a) : OnTab(r, "convert", l, c) BY <2>2 DEF ConvertFind
    <3>2. PICK tab : tab = [at |-> "convert", lead |-> l, client |-> c] OBVIOUS
    <3>3. tab \in TriageRows /\ tab.at = "convert" /\ tab.lead = l /\ tab.client = c BY <3>1, <3>2 DEF TriageRows, Holders
    <3> QED BY <3>1, <3>2, <3>3 DEF OnTab
  <2> QED BY <2>1, <2>2
<1>4. a \in Addresses /\ twice \subseteq twice' /\ twice' \subseteq Addresses /\ (askedNow => a \in twice')
  <2>1. a \in Addresses /\ twice \subseteq Addresses BY <1>1, LeadsAssumption DEF LeadTypeOK
  <2>2. CASE askedNow
    <3>1. twice' = twice \cup {a} BY ONLY <1>0, <2>2, Zenon
    <3> QED BY ONLY <2>1, <3>1
  <2>3. CASE ~askedNow
    <3>1. twice' = twice BY ONLY <1>0, <2>3, Zenon
    <3> QED BY ONLY <2>1, <2>3, <3>1
  <2> QED BY ONLY <2>2, <2>3
<1>5. \A q \in TriageTabs : triageTab'[q] = IF q = r THEN tab ELSE triageTab[q] BY <1>1, <1>3, LeadTyped
<1>6. tab.at = "convert" => /\ tab.client \in ClientRows /\ account[tab.client] \in LeadIds
                            /\ AddressOf[account[tab.client]] = AddressOf[tab.lead]
  BY <1>1, <1>3, LeadTyped DEF Holders
<1>7. ClientsFound'
  <2>1. ClientsAreTheirs' BY <1>1, <1>2 DEF ClientsFound, ClientsAreTheirs
  <2>2. OneClientEach' BY <1>1, <1>2, <1>4 DEF ClientsFound, OneClientEach
  <2>3. \A q \in TriageTabs \ {r}, b \in Addresses : Asking(q, b)' => Asking(q, b) BY <1>5 DEF Asking
  <2>4. \A b \in Addresses : Asking(r, b)' => b = a /\ Holders(a) = {} BY <1>3, <1>5 DEF Asking
  <2>5. askedNow <=> \E q \in TriageTabs : Asking(q, a) BY DEF Asking
  <2>6. Holders(a) = {} => \A c \in ClientRows : account[c] # NoLead => AddressOf[account[c]] # a BY DEF Holders
  <2>8. \A q \in TriageTabs : Asking(q, a) => a \in twice' BY <1>4, <2>5
  <2>7. AskedForNone'
    <3> SUFFICES ASSUME NEW q \in TriageTabs, NEW b \in Addresses \ twice', Asking(q, b)'
                 PROVE  /\ \A c \in ClientRows : account[c] # NoLead => AddressOf[account[c]] # b
                        /\ \A p \in TriageTabs : Asking(p, b)' => p = q BY <1>2 DEF AskedForNone
    <3>1. b \in Addresses \ twice BY <1>4
    <3>2. CASE q = r
      <4>1. b = a /\ Holders(a) = {} BY <2>4, <3>2
      <4>2. \A p \in TriageTabs \ {r} : ~Asking(p, b)' BY <2>3, <2>8, <3>1, <4>1
      <4> QED BY <2>6, <3>2, <4>1, <4>2
    <3>3. CASE q # r
      <4>1. Asking(q, b) BY <2>3, <3>1, <3>3
      <4>2. ~Asking(r, b)' BY <2>4, <2>8, <4>1
      <4>3. AskedForNone BY <1>1 DEF ClientsFound
      <4> QED BY <2>3, <3>1, <4>1, <4>2, <4>3 DEF AskedForNone
    <3> QED BY <3>2, <3>3
  <2> QED BY <2>1, <2>2, <2>7 DEF ClientsFound
<1>8. /\ outpaced \subseteq outpaced' /\ outpaced' \subseteq LeadIds /\ triageTab[r].at # "enqueue"
      /\ UNCHANGED <<lead, account, syncJobs, syncer, page, stray, surplus>>
      /\ (tab.at = "idle" => tab = FreeTab) /\ tab.lead \in LeadIds BY <1>1, <1>2, <1>3, FreeLeadRows DEF LeadTypeOK
<1> QED BY <1>3, <1>4, <1>6, <1>7, <1>8, TabMoves

LEMMA NewClientKeeps == ASSUME LeadInv, NEW r \in TriageTabs, ConvertNewClient(r) PROVE LeadInv'
<1> DEFINE l == triageTab[r].lead
<1>1. LeadTypeOK /\ TabsAreWhole /\ ClientsFound BY DEF LeadInv
<1>2. PICK c \in ClientRows :
        account[c] = NoLead /\ account' = [account EXCEPT ![c] = l] /\ OnTab(r, "convert", l, c)
  BY DEF ConvertNewClient
<1>3. triageTab[r].at = "new client" /\ UNCHANGED <<lead, syncJobs, syncer, page, stray, outpaced, surplus, twice>>
  BY DEF ConvertNewClient
<1>4. l \in LeadIds /\ AddressOf[l] \in Addresses /\ NoLead \notin LeadIds BY <1>1, <1>3, LeadsAssumption DEF TabsAreWhole
<1>5. /\ account' \in [ClientRows -> LeadIds \cup {NoLead}]
      /\ \A d \in ClientRows : account'[d] = IF d = c THEN l ELSE account[d] BY <1>1, <1>2, <1>4, LeadTyped
<1>6. PICK tab : tab = [at |-> "convert", lead |-> l, client |-> c] OBVIOUS
<1>7. tab \in TriageRows /\ tab.at = "convert" /\ tab.lead = l /\ tab.client = c BY <1>4, <1>6 DEF TriageRows
<1>8. /\ triageTab' \in [TriageTabs -> TriageRows]
      /\ \A q \in TriageTabs : triageTab'[q] = IF q = r THEN tab ELSE triageTab[q]
  BY <1>1, <1>2, <1>6, <1>7, LeadTyped DEF OnTab
<1>9. TabsAreWhole' BY <1>1, <1>2, <1>4, <1>5, <1>7, <1>8 DEF TabsAreWhole
<1>10. ClientsFound'
  <2>0. \A d \in ClientRows : account[d] # NoLead => account'[d] = account[d] BY <1>2, <1>5
  <2>1. ClientsAreTheirs'
    <3>1. \A k \in LeadIds : lead[k].client \in ClientRows \cup {NoRowYet} BY <1>1, LeadTyped DEF LeadRows
    <3>2. lead' = lead /\ ClientsAreTheirs BY <1>1, <1>3 DEF ClientsFound
    <3> QED BY ONLY <1>4, <2>0, <3>1, <3>2 DEF ClientsAreTheirs
  <2>2. Asking(r, AddressOf[l]) BY <1>3 DEF Asking
  <2>3. AddressOf[l] \notin twice =>
          /\ \A d \in ClientRows : account[d] # NoLead => AddressOf[account[d]] # AddressOf[l]
          /\ \A q \in TriageTabs : Asking(q, AddressOf[l]) => q = r BY <1>1, <1>4, <2>2 DEF ClientsFound, AskedForNone
  <2>4. OneClientEach' BY <1>1, <1>3, <1>4, <1>5, <2>3 DEF ClientsFound, OneClientEach
  <2>5. \A q \in TriageTabs, b \in Addresses : Asking(q, b)' => Asking(q, b) /\ q # r BY <1>7, <1>8 DEF Asking
  <2>6. AskedForNone'
    <3> SUFFICES ASSUME NEW q \in TriageTabs, NEW b \in Addresses \ twice, Asking(q, b)'
                 PROVE  /\ \A d \in ClientRows : account'[d] # NoLead => AddressOf[account'[d]] # b
                        /\ \A p \in TriageTabs : Asking(p, b)' => p = q BY <1>3 DEF AskedForNone
    <3>1. Asking(q, b) /\ q # r BY <2>5
    <3>2. b # AddressOf[l] BY <2>3, <3>1
    <3> QED BY <1>1, <1>5, <2>5, <3>1, <3>2 DEF ClientsFound, AskedForNone
  <2> QED BY <2>1, <2>4, <2>6 DEF ClientsFound
<1>11. /\ lead' \in [LeadIds -> LeadRows] /\ syncJobs' \in [LeadIds -> 0..MaxSyncJobs]
       /\ twice' \subseteq Addresses /\ outpaced \subseteq outpaced' /\ outpaced' \subseteq LeadIds
  BY <1>1, <1>3, LeadTyped DEF LeadTypeOK
<1>12. \A k \in LeadIds : Coming(k) => Coming(k)' BY <1>3, <1>8 DEF Coming
<1>13. \A k \in LeadIds : InquiryStatus(k)' = InquiryStatus(k) BY <1>3 DEF InquiryStatus
<1>14. \A k \in LeadIds : /\ lead'[k].page = lead[k].page /\ lead'[k].orphan = lead[k].orphan
                          /\ lead'[k].orphanOpen = lead[k].orphanOpen BY <1>3
<1>15. UNCHANGED <<syncer, page, stray, surplus>> BY <1>3
<1> QED BY <1>5, <1>8, <1>9, <1>10, <1>11, <1>12, <1>13, <1>14, <1>15, TriageKeeps

LEMMA StampedKeeps == ASSUME LeadInv, NEW r \in TriageTabs, ConvertStamp(r) PROVE LeadInv'
<1> DEFINE l == triageTab[r].lead
<1>1. LeadTypeOK /\ TabsAreWhole BY DEF LeadInv
<1>2. /\ triageTab[r].at = "convert" /\ OnTab(r, "enqueue", l, NoRowYet)
      /\ lead' = [lead EXCEPT ![l].converted = TRUE, ![l].client = triageTab[r].client]
      /\ UNCHANGED <<account, syncJobs, syncer, page, stray, outpaced, surplus, twice>> BY DEF ConvertStamp
<1>3. /\ l \in LeadIds /\ triageTab[r].client \in ClientRows /\ account[triageTab[r].client] \in LeadIds
      /\ AddressOf[account[triageTab[r].client]] = AddressOf[l] BY <1>1, <1>2 DEF TabsAreWhole
<1>4. PICK row : row = [lead[l] EXCEPT !.converted = TRUE, !.client = triageTab[r].client] OBVIOUS
<1>5. lead[l] \in LeadRows BY <1>1, <1>3, LeadTyped
<1>6. /\ row \in LeadRows /\ row.page = lead[l].page /\ row.orphan = lead[l].orphan
      /\ row.orphanOpen = lead[l].orphanOpen /\ row.client = triageTab[r].client BY <1>3, <1>4, <1>5 DEF LeadRows
<1>7. lead' = [lead EXCEPT ![l] = row] BY <1>2, <1>3, <1>4, <1>5
<1>8. PICK k : k = l OBVIOUS
<1>9. /\ k \in LeadIds /\ triageTab[r].at # "enqueue" /\ OnTab(r, "enqueue", k, NoRowYet)
      /\ lead' = [lead EXCEPT ![k] = row]
      /\ UNCHANGED <<account, syncJobs, syncer, page, stray, outpaced, surplus, twice>> BY <1>2, <1>3, <1>7, <1>8
<1>10. /\ row.page = lead[k].page /\ row.orphan = lead[k].orphan /\ row.orphanOpen = lead[k].orphanOpen
       /\ account[row.client] \in LeadIds /\ AddressOf[account[row.client]] = AddressOf[k] BY <1>3, <1>6, <1>8
<1> HIDE DEF l
<1> QED BY ONLY LeadInv, r \in TriageTabs, <1>6, <1>9, <1>10, TabWrites

(* The threads.                                                            *)

LEMMA TabsStay ==
  ASSUME TabsAreWhole, ClientsFound, UNCHANGED <<account, triageTab, twice>>,
         \A l \in LeadIds : lead'[l].client = lead[l].client
  PROVE  TabsAreWhole' /\ ClientsFound'
<1>1. TabsAreWhole' BY DEF TabsAreWhole
<1>2. ClientsFound' BY ClientsStay
<1> QED BY <1>1, <1>2

LEMMA OrphansKeep ==
  ASSUME OrphansFollow, surplus' = surplus,
         \A l \in LeadIds : /\ lead'[l].page = lead[l].page /\ lead'[l].orphan = lead[l].orphan
                            /\ lead'[l].orphanOpen => lead[l].orphanOpen,
         \A l \in LeadIds : lead[l].page # NoPage => \A s \in Syncers : Makes(s, l)' => Makes(s, l),
         \A s \in Syncers : syncer'[s].at = "orphan" =>
           syncer'[s].lead \in LeadIds /\ lead[syncer'[s].lead].page # NoPage
  PROVE  OrphansFollow'
<1>1. \A l \in LeadIds : lead[l].page # NoPage => (OneDone(l) => OneDone(l)') /\ (TwoDone(l) => TwoDone(l)')
  BY DEF OneDone, TwoDone
<1> QED BY <1>1 DEF OrphansFollow

\* A thread that took up a lead, or is done with it, leaves the other leads alone.
LEMMA OthersFollow ==
  ASSUME LeadInv, NEW s \in Syncers, NEW l \in LeadIds,
         \A t \in Syncers \ {s} : syncer'[t] = syncer[t],
         syncer[s].lead \in {l, NoLead}, syncer'[s].lead \in {l, NoLead},
         UNCHANGED triageTab, outpaced \subseteq outpaced',
         \A k \in LeadIds \ {l} :
           /\ lead'[k] = lead[k] /\ syncJobs'[k] = syncJobs[k]
           /\ \A g \in Pages : page[g].lead = k => page'[g] = page[g],
         l \in outpaced' \/ (Alone(l)' /\ InStep(l)' /\ Shows(l)')
  PROVE  MirrorFollows'
<1> SUFFICES ASSUME NEW k \in LeadIds \ outpaced', k # l PROVE Alone(k)' /\ InStep(k)' /\ Shows(k)' BY DEF MirrorFollows
<1>1. Alone(k) /\ InStep(k) /\ Shows(k) BY DEF LeadInv, MirrorFollows
<1>2. k # NoLead /\ k \in LeadIds BY LeadsAssumption
<1>3. /\ \A t \in Syncers : syncer'[t].lead = k <=> syncer[t].lead = k
      /\ \A t \in Syncers : syncer[t].lead = k => syncer'[t] = syncer[t] BY <1>2
<1>4. lead'[k] = lead[k] OBVIOUS
<1>5. (Coming(k)' <=> Coming(k)) /\ InquiryStatus(k)' = InquiryStatus(k) BY <1>2, <1>4 DEF Coming, InquiryStatus
<1>6. Syncing(k)' <=> Syncing(k) BY <1>3 DEF Syncing
<1>7. MirrorsAreWhole /\ PagesBelong /\ LeadTypeOK BY DEF LeadInv
<1>8. \A t \in Syncers : syncer[t].lead = k /\ syncer[t].at = "stamp" => page'[syncer[t].page] = page[syncer[t].page]
  BY <1>2, <1>7 DEF MirrorsAreWhole
<1>9. lead[k].page # NoPage => page'[lead[k].page] = page[lead[k].page]
  <2>1. lead[k].page \in Pages \cup {NoPage} BY <1>2, <1>7, LeadTyped DEF LeadRows
  <2> QED BY <1>2, <1>7, <2>1 DEF PagesBelong
<1>10. Alone(k)' BY <1>1, <1>3 DEF Alone
<1>11. InStep(k)'
  <2> SUFFICES ASSUME NEW t \in Syncers, syncer'[t].lead = k
               PROVE  /\ HasLatest(t, k)' /\ syncer'[t].at # "orphan"
                      /\ syncer'[t].at \in {"create", "stamp"} => lead'[k].page = NoPage
                      /\ syncer'[t].at = "stamp" => page'[syncer'[t].page].status = syncer'[t].status BY DEF InStep
  <2>1. syncer[t].lead = k /\ syncer'[t] = syncer[t] BY <1>3
  <2>2. HasLatest(t, k)' BY <1>1, <1>5, <2>1 DEF InStep, HasLatest
  <2> QED BY <1>1, <1>4, <1>8, <2>1, <2>2 DEF InStep
<1>12. Shows(k)'
  <2>1. ASSUME lead'[k].page # NoPage, ~Syncing(k)', ~Coming(k)' PROVE page'[lead'[k].page].status = InquiryStatus(k)'
    <3>1. page[lead[k].page].status = InquiryStatus(k) BY <1>1, <1>4, <1>5, <1>6, <2>1 DEF Shows
    <3>2. page'[lead'[k].page] = page[lead[k].page] BY <1>4, <1>9, <2>1
    <3> QED BY <1>5, <3>1, <3>2
  <2> QED BY <2>1 DEF Shows
<1> QED BY <1>10, <1>11, <1>12

\* With one thread at a lead and that one done, nobody is at it.
LEMMA NobodyLeft ==
  ASSUME NEW s \in Syncers, NEW l \in LeadIds, Alone(l), syncer[s].lead = l,
         \A t \in Syncers \ {s} : syncer'[t] = syncer[t], syncer'[s] = FreeSyncer
  PROVE  \A t \in Syncers : syncer'[t].lead # l
BY LeadsAssumption, FreeLeadRows DEF Alone

LEMMA SyncerStep ==
  ASSUME LeadTypeOK, NEW s \in Syncers, NEW row \in MirrorRows, syncer' = [syncer EXCEPT ![s] = row]
  PROVE  /\ syncer' \in [Syncers -> MirrorRows] /\ syncer'[s] = row /\ \A t \in Syncers \ {s} : syncer'[t] = syncer[t]
BY LeadTyped

LEMMA RaiseKeeps ==
  ASSUME LeadInv, NEW s \in Syncers, syncer[s].at \in {"create", "patch"}, SyncRaises(s),
         UNCHANGED <<lead, account, triageTab, surplus, twice>>,
         page' \in [Pages -> NotionRows], stray \subseteq stray', stray' \subseteq Pages,
         \A g \in Pages : page'[g] = page[g] \/ (page[g] = NotMade /\ g \in stray' /\ page'[g].lead \in LeadIds)
  PROVE  LeadInv'
<1>0. PICK l : l = syncer[s].lead OBVIOUS
<1>1. /\ LeadTypeOK /\ MirrorsAreWhole /\ TabsAreWhole /\ PagesBelong /\ PagesKept
      /\ OrphansFollow /\ MirrorFollows /\ ClientsFound BY DEF LeadInv
<1>2. l \in LeadIds /\ l # NoLead /\ MaxSyncJobs \in Nat BY <1>0, <1>1, LeadsAssumption DEF MirrorsAreWhole
<1>3. syncer' = [syncer EXCEPT ![s] = FreeSyncer] BY DEF SyncRaises, SyncEnds
<1>4. /\ syncer' \in [Syncers -> MirrorRows] /\ syncer'[s] = FreeSyncer
      /\ \A t \in Syncers \ {s} : syncer'[t] = syncer[t] BY <1>1, <1>3, SyncerStep, FreeLeadRows
<1>5. \/ outpaced' = outpaced \cup {l} /\ syncJobs' = syncJobs
      \/ /\ outpaced' = outpaced /\ syncJobs' = [syncJobs EXCEPT ![l] = @ + 1] /\ syncJobs[l] < MaxSyncJobs
  BY <1>0 DEF SyncRaises
<1>6. /\ syncJobs' \in [LeadIds -> 0..MaxSyncJobs] /\ \A k \in LeadIds \ {l} : syncJobs'[k] = syncJobs[k]
      /\ l \in outpaced' \/ syncJobs'[l] > 0
  <2>1. syncJobs \in [LeadIds -> 0..MaxSyncJobs] BY <1>1, LeadTyped
  <2>2. syncJobs[l] < MaxSyncJobs => syncJobs[l] + 1 \in 0..MaxSyncJobs /\ syncJobs[l] + 1 > 0 BY <1>2, <2>1
  <2> QED BY <1>2, <1>5, <2>1, <2>2
<1>7. LeadTypeOK' BY <1>1, <1>2, <1>4, <1>5, <1>6 DEF LeadTypeOK, LeadRows, MirrorRows, NotionRows, TriageRows
<1>8. \A g \in Pages : page[g].lead \in LeadIds => page'[g] = page[g] BY FreeLeadRows, LeadsAssumption
<1>9. MirrorsAreWhole'
  <2>1. \A t \in Syncers : syncer'[t] = syncer[t] \/ syncer'[t] = FreeSyncer BY <1>4
  <2>2. \A t \in Syncers : syncer[t].at \in {"stamp", "orphan"} => page'[syncer[t].page] = page[syncer[t].page]
    BY <1>1, <1>8 DEF MirrorsAreWhole
  <2> QED BY <1>1, <2>1, <2>2, FreeLeadRows DEF MirrorsAreWhole
<1>10. PagesBelong'
  <2>1. \A k \in LeadIds : lead[k].page \in Pages \cup {NoPage} /\ lead[k].orphan \in Pages \cup {NoPage}
    BY <1>1, LeadTyped DEF LeadRows
  <2>2. \A g \in Pages : page'[g].lead = NoLead => page'[g] = NotMade BY <1>1, LeadsAssumption DEF PagesBelong
  <2> QED BY <1>1, <1>8, <2>1, <2>2 DEF PagesBelong
<1>11. PagesKept'
  <2>1. \A g \in Pages : InHand(g)' <=> InHand(g) BY <1>4, FreeLeadRows DEF InHand
  <2>2. \A g \in Pages \ stray' : page'[g] = page[g] OBVIOUS
  <2> QED BY <1>1, <2>1, <2>2 DEF PagesKept
<1>12. OrphansFollow'
  <2>1. \A t \in Syncers, k \in LeadIds : Makes(t, k)' => Makes(t, k) BY <1>4, FreeLeadRows DEF Makes
  <2>2. \A t \in Syncers : syncer'[t].at = "orphan" => syncer'[t].lead \in LeadIds /\ lead[syncer'[t].lead].page # NoPage
    BY <1>1, <1>4, FreeLeadRows DEF OrphansFollow, MirrorsAreWhole
  <2> QED BY <1>1, <2>1, <2>2, OrphansKeep
<1>13. MirrorFollows'
  <2>1. l \in outpaced' \/ (Alone(l)' /\ InStep(l)' /\ Shows(l)')
    <3> SUFFICES ASSUME l \notin outpaced' PROVE Alone(l)' /\ InStep(l)' /\ Shows(l)' OBVIOUS
    <3>1. l \notin outpaced /\ syncJobs'[l] > 0 BY <1>5, <1>6
    <3>2. Alone(l) BY <1>1, <1>2, <3>1 DEF MirrorFollows
    <3>3. \A t \in Syncers : syncer'[t].lead # l BY <1>0, <1>2, <1>4, <3>2, NobodyLeft
    <3>4. Coming(l)' BY <3>1 DEF Coming
    <3> QED BY <3>3, <3>4 DEF Alone, InStep, Shows
  <2>2. outpaced \subseteq outpaced' BY <1>5
  <2>3. syncer[s].lead \in {l, NoLead} /\ syncer'[s].lead \in {l, NoLead} BY <1>0, <1>4, FreeLeadRows
  <2>4. \A k \in LeadIds \ {l} : /\ lead'[k] = lead[k] /\ syncJobs'[k] = syncJobs[k]
                                 /\ \A g \in Pages : page[g].lead = k => page'[g] = page[g] BY <1>6, <1>8
  <2>5. triageTab' = triageTab OBVIOUS
  <2> QED BY <1>2, <1>4, <2>1, <2>2, <2>3, <2>4, <2>5, OthersFollow
<1>14. TabsAreWhole' /\ ClientsFound' BY <1>1, TabsStay
<1> QED BY <1>7, <1>9, <1>10, <1>11, <1>12, <1>13, <1>14 DEF LeadInv

LEMMA InquiryKeeps == ASSUME LeadInv, NEW s \in Syncers, NEW l \in LeadIds, SyncInquiry(s, l) PROVE LeadInv'
<1>1. /\ LeadTypeOK /\ MirrorsAreWhole /\ TabsAreWhole /\ PagesBelong /\ PagesKept
      /\ OrphansFollow /\ MirrorFollows /\ ClientsFound BY DEF LeadInv
<1>2. PICK row : row = [at |-> IF lead[l].page = NoPage THEN "create" ELSE "patch",
                        lead |-> l, status |-> InquiryStatus(l), page |-> lead[l].page]
  OBVIOUS
<1>3. /\ syncer[s] = FreeSyncer /\ syncJobs[l] > 0 /\ syncJobs' = [syncJobs EXCEPT ![l] = @ - 1]
      /\ syncer' = [syncer EXCEPT ![s] = row]
      /\ UNCHANGED <<lead, account, triageTab, page, stray, surplus, twice>> BY <1>2 DEF SyncInquiry
<1>4. (Syncing(l) => outpaced' = outpaced \cup {l}) /\ (~Syncing(l) => outpaced' = outpaced)
  <2>1. outpaced' = IF Syncing(l) THEN outpaced \cup {l} ELSE outpaced BY Zenon DEF SyncInquiry
  <2> QED BY <2>1, Zenon
<1>5. lead[l].page \in Pages \cup {NoPage} /\ lead[l] \in LeadRows /\ l # NoLead BY <1>1, LeadTyped, LeadsAssumption DEF LeadRows
<1>6. /\ row.at = IF lead[l].page = NoPage THEN "create" ELSE "patch"
      /\ row.lead = l /\ row.status = InquiryStatus(l) /\ row.page = lead[l].page BY <1>2
<1>7. row \in MirrorRows BY <1>1, <1>2, <1>5, StatusOf DEF MirrorRows
<1>8. /\ syncer' \in [Syncers -> MirrorRows] /\ syncer'[s] = row
      /\ \A t \in Syncers \ {s} : syncer'[t] = syncer[t] BY <1>1, <1>3, <1>7, SyncerStep
<1>9. /\ syncJobs' \in [LeadIds -> 0..MaxSyncJobs] /\ MaxSyncJobs > 0
      /\ \A k \in LeadIds \ {l} : syncJobs'[k] = syncJobs[k]
  <2>1. syncJobs[l] \in 0..MaxSyncJobs /\ MaxSyncJobs \in Nat BY <1>1, LeadTyped, LeadsAssumption
  <2>2. syncJobs[l] - 1 \in 0..MaxSyncJobs /\ MaxSyncJobs > 0 BY <1>3, <2>1
  <2> QED BY <1>1, <1>3, <2>2, LeadTyped
<1>10. outpaced \subseteq outpaced' /\ outpaced' \subseteq LeadIds BY <1>1, <1>4 DEF LeadTypeOK
<1>11. LeadTypeOK' BY <1>1, <1>3, <1>8, <1>9, <1>10 DEF LeadTypeOK, MirrorRows
<1>12. MirrorsAreWhole' BY <1>1, <1>3, <1>5, <1>6, <1>8, <1>9 DEF MirrorsAreWhole
<1>13. PagesBelong' BY <1>1, <1>3 DEF PagesBelong
<1>14. PagesKept'
  <2>1. \A g \in Pages : InHand(g)' <=> InHand(g) BY <1>3, <1>6, <1>8, FreeLeadRows DEF InHand
  <2> QED BY <1>1, <1>3, <2>1 DEF PagesKept
<1>15. OrphansFollow'
  <2>1. \A k \in LeadIds : lead[k].page # NoPage => \A t \in Syncers : Makes(t, k)' => Makes(t, k)
    BY <1>6, <1>8 DEF Makes
  <2>2. \A t \in Syncers : syncer'[t].at = "orphan" => syncer'[t].lead \in LeadIds /\ lead[syncer'[t].lead].page # NoPage
    BY <1>1, <1>6, <1>8 DEF OrphansFollow, MirrorsAreWhole
  <2> QED BY <1>1, <1>3, <2>1, <2>2, OrphansKeep
<1>16. MirrorFollows'
  <2>1. l \in outpaced' \/ (Alone(l)' /\ InStep(l)' /\ Shows(l)')
    <3> SUFFICES ASSUME l \notin outpaced' PROVE Alone(l)' /\ InStep(l)' /\ Shows(l)' OBVIOUS
    <3>1. ~Syncing(l) BY <1>4
    <3>2. \A t \in Syncers : syncer'[t].lead = l => t = s BY <1>8, <3>1 DEF Syncing
    <3>3. Syncing(l)' BY <1>6, <1>8 DEF Syncing
    <3>4. InquiryStatus(l)' = InquiryStatus(l) BY <1>3 DEF InquiryStatus
    <3>5. HasLatest(s, l)' BY <1>6, <1>8, <3>4 DEF HasLatest
    <3>6. Alone(l)' BY <3>2 DEF Alone
    <3>7. InStep(l)' BY <1>3, <1>6, <1>8, <3>2, <3>5 DEF InStep
    <3> QED BY <3>3, <3>6, <3>7 DEF Shows
  <2>2. syncer[s].lead \in {l, NoLead} /\ syncer'[s].lead \in {l, NoLead} BY <1>3, <1>6, <1>8, FreeLeadRows
  <2>3. \A k \in LeadIds \ {l} : /\ lead'[k] = lead[k] /\ syncJobs'[k] = syncJobs[k]
                                 /\ \A g \in Pages : page[g].lead = k => page'[g] = page[g] BY <1>3, <1>9
  <2>4. triageTab' = triageTab BY <1>3
  <2> QED BY <1>8, <1>10, <2>1, <2>2, <2>3, <2>4, OthersFollow
<1>17. TabsAreWhole' /\ ClientsFound' BY <1>1, <1>3, TabsStay
<1> QED BY <1>11, <1>12, <1>13, <1>14, <1>15, <1>16, <1>17 DEF LeadInv

LEMMA MadeKeeps ==
  ASSUME LeadInv, NEW s \in Syncers, NEW g \in Pages, syncer[s].at = "create", page[g] = NotMade,
         page' = [page EXCEPT ![g] = [lead |-> syncer[s].lead, status |-> syncer[s].status]],
         syncer' = [syncer EXCEPT ![s].at = "stamp", ![s].page = g],
         UNCHANGED <<lead, account, syncJobs, triageTab, stray, outpaced, surplus, twice>>
  PROVE  LeadInv'
<1>0. PICK l : l = syncer[s].lead OBVIOUS
<1>1. /\ LeadTypeOK /\ MirrorsAreWhole /\ TabsAreWhole /\ PagesBelong /\ PagesKept
      /\ OrphansFollow /\ MirrorFollows /\ ClientsFound BY DEF LeadInv
<1>2. l \in LeadIds /\ l # NoLead /\ MaxSyncJobs > 0 BY <1>0, <1>1, LeadsAssumption DEF MirrorsAreWhole
<1>3. PICK row : row = [syncer[s] EXCEPT !.at = "stamp", !.page = g] OBVIOUS
<1>4. syncer[s] \in MirrorRows /\ syncer \in [Syncers -> MirrorRows] BY <1>1, LeadTyped
<1>5. /\ row \in MirrorRows /\ row.at = "stamp" /\ row.page = g /\ row.lead = l /\ row.status = syncer[s].status
  BY <1>0, <1>3, <1>4 DEF MirrorRows
<1>6. syncer' = [syncer EXCEPT ![s] = row]
  BY ONLY <1>3, <1>4, syncer' = [syncer EXCEPT ![s].at = "stamp", ![s].page = g], s \in Syncers DEF MirrorRows
<1>7. /\ syncer' \in [Syncers -> MirrorRows] /\ syncer'[s] = row /\ \A t \in Syncers \ {s} : syncer'[t] = syncer[t]
  BY <1>1, <1>5, <1>6, SyncerStep
<1>8. PICK made : made = [lead |-> l, status |-> syncer[s].status] OBVIOUS
<1>9. made \in NotionRows /\ made.lead = l /\ made.status = syncer[s].status BY <1>2, <1>4, <1>8 DEF NotionRows, MirrorRows
<1>10. page' \in [Pages -> NotionRows] /\ page'[g] = made /\ \A h \in Pages \ {g} : page'[h] = page[h]
  BY <1>0, <1>1, <1>8, <1>9, LeadTyped
<1>11. \A h \in Pages : page[h].lead \in LeadIds => page'[h] = page[h] BY <1>10, FreeLeadRows, LeadsAssumption
<1>12. LeadTypeOK' BY <1>1, <1>7, <1>10 DEF LeadTypeOK, MirrorRows, NotionRows
<1>13. MirrorsAreWhole'
  <2>1. \A t \in Syncers : syncer[t].at \in {"stamp", "orphan"} => page'[syncer[t].page] = page[syncer[t].page]
    BY <1>1, <1>11 DEF MirrorsAreWhole
  <2> QED BY <1>1, <1>2, <1>5, <1>7, <1>9, <1>10, <2>1 DEF MirrorsAreWhole
<1>14. PagesBelong'
  <2>1. \A k \in LeadIds : lead[k].page \in Pages \cup {NoPage} /\ lead[k].orphan \in Pages \cup {NoPage}
    BY <1>1, LeadTyped DEF LeadRows
  <2> QED BY <1>1, <1>2, <1>9, <1>10, <1>11, <2>1 DEF PagesBelong
<1>15. PagesKept'
  <2>1. InHand(g)' BY <1>5, <1>7 DEF InHand
  <2>2. \A h \in Pages : InHand(h) => InHand(h)' BY <1>5, <1>7 DEF InHand
  <2> QED BY <1>1, <1>10, <2>1, <2>2 DEF PagesKept
<1>16. OrphansFollow'
  <2>1. \A t \in Syncers, k \in LeadIds : Makes(t, k)' => Makes(t, k) BY <1>0, <1>5, <1>7 DEF Makes
  <2>2. \A t \in Syncers : syncer'[t].at = "orphan" => syncer'[t].lead \in LeadIds /\ lead[syncer'[t].lead].page # NoPage
    BY <1>1, <1>5, <1>7 DEF OrphansFollow, MirrorsAreWhole
  <2> QED BY <1>1, <2>1, <2>2, OrphansKeep
<1>17. MirrorFollows'
  <2>1. l \in outpaced' \/ (Alone(l)' /\ InStep(l)' /\ Shows(l)')
    <3> SUFFICES ASSUME l \notin outpaced' PROVE Alone(l)' /\ InStep(l)' /\ Shows(l)' OBVIOUS
    <3>1. Alone(l) /\ InStep(l) BY <1>1, <1>2 DEF MirrorFollows
    <3>2. \A t \in Syncers : syncer'[t].lead = l => t = s BY <1>0, <1>7, <3>1 DEF Alone
    <3>3. Syncing(l)' BY <1>5, <1>7 DEF Syncing
    <3>4. HasLatest(s, l) /\ lead[l].page = NoPage BY <1>0, <3>1 DEF InStep
    <3>5. HasLatest(s, l)' BY <1>5, <1>7, <3>4 DEF HasLatest, Coming, InquiryStatus
    <3>6. Alone(l)' BY <3>2 DEF Alone
    <3>7. InStep(l)' BY <1>5, <1>7, <1>9, <1>10, <3>2, <3>4, <3>5 DEF InStep
    <3> QED BY <3>3, <3>6, <3>7 DEF Shows
  <2>2. syncer[s].lead \in {l, NoLead} /\ syncer'[s].lead \in {l, NoLead} BY <1>0, <1>5, <1>7
  <2>3. \A k \in LeadIds \ {l} : /\ lead'[k] = lead[k] /\ syncJobs'[k] = syncJobs[k]
                                 /\ \A h \in Pages : page[h].lead = k => page'[h] = page[h] BY <1>11
  <2> QED BY <1>2, <1>7, <2>1, <2>2, <2>3, OthersFollow
<1>18. TabsAreWhole' /\ ClientsFound' BY <1>1, TabsStay
<1> QED BY <1>12, <1>13, <1>14, <1>15, <1>16, <1>17, <1>18 DEF LeadInv

LEMMA CreateKeeps == ASSUME LeadInv, NEW s \in Syncers, CreatePage(s) PROVE LeadInv'
<1>1. syncer[s].at = "create" /\ UNCHANGED <<lead, account, triageTab, surplus, twice>> BY DEF CreatePage
<1>2. LeadTypeOK /\ MirrorsAreWhole BY DEF LeadInv
<1>3. ASSUME SyncRaises(s), UNCHANGED <<page, stray>> PROVE LeadInv'
  <2>1. page' \in [Pages -> NotionRows] /\ stray \subseteq stray' /\ stray' \subseteq Pages
    BY <1>2, <1>3, LeadTyped DEF LeadTypeOK
  <2> QED BY <1>1, <1>3, <2>1, RaiseKeeps
<1>4. ASSUME NEW g \in Pages, page[g] = NotMade, stray' = stray \cup {g}, SyncRaises(s),
             page' = [page EXCEPT ![g] = [lead |-> syncer[s].lead, status |-> syncer[s].status]]
      PROVE  LeadInv'
  <2>1. PICK made : made = [lead |-> syncer[s].lead, status |-> syncer[s].status] OBVIOUS
  <2>2. syncer[s] \in MirrorRows /\ syncer[s].lead \in LeadIds BY <1>1, <1>2, LeadTyped DEF MirrorsAreWhole
  <2>3. made \in NotionRows /\ made.lead \in LeadIds BY <2>1, <2>2 DEF NotionRows, MirrorRows
  <2>4. page' \in [Pages -> NotionRows] /\ page'[g] = made /\ \A h \in Pages \ {g} : page'[h] = page[h]
    BY <1>2, <1>4, <2>1, <2>3, LeadTyped
  <2>5. stray \subseteq stray' /\ stray' \subseteq Pages /\ g \in stray' BY <1>2, <1>4 DEF LeadTypeOK
  <2>6. \A h \in Pages : page'[h] = page[h] \/ (page[h] = NotMade /\ h \in stray' /\ page'[h].lead \in LeadIds)
    BY <1>4, <2>3, <2>4, <2>5
  <2> QED BY <1>1, <1>4, <2>4, <2>5, <2>6, RaiseKeeps
<1>5. ASSUME NEW g \in Pages, page[g] = NotMade,
             page' = [page EXCEPT ![g] = [lead |-> syncer[s].lead, status |-> syncer[s].status]],
             syncer' = [syncer EXCEPT ![s].at = "stamp", ![s].page = g],
             UNCHANGED <<syncJobs, stray, outpaced>>
      PROVE  LeadInv' BY <1>1, <1>5, MadeKeeps
<1>6. \/ SyncRaises(s) /\ UNCHANGED <<page, stray>>
      \/ \E g \in Pages :
           /\ page[g] = NotMade
           /\ page' = [page EXCEPT ![g] = [lead |-> syncer[s].lead, status |-> syncer[s].status]]
           /\ \/ /\ syncer' = [syncer EXCEPT ![s].at = "stamp", ![s].page = g]
                 /\ UNCHANGED <<syncJobs, stray, outpaced>>
              \/ stray' = stray \cup {g} /\ SyncRaises(s) BY DEF CreatePage
<1> HIDE DEF LeadInv
<1> QED BY ONLY <1>3, <1>4, <1>5, <1>6, Zenon

LEMMA PatchedKeeps ==
  ASSUME LeadInv, NEW s \in Syncers, syncer[s].at = "patch", SyncEnds(s),
         page' = [page EXCEPT ![syncer[s].page].status = syncer[s].status],
         UNCHANGED <<lead, account, syncJobs, triageTab, stray, outpaced, surplus, twice>>
  PROVE  LeadInv'
<1>0. PICK l, g : l = syncer[s].lead /\ g = syncer[s].page OBVIOUS
<1>1. /\ LeadTypeOK /\ MirrorsAreWhole /\ TabsAreWhole /\ PagesBelong /\ PagesKept
      /\ OrphansFollow /\ MirrorFollows /\ ClientsFound BY DEF LeadInv
<1>2. /\ l \in LeadIds /\ l # NoLead /\ g \in Pages /\ g = lead[l].page /\ g # NoPage
      /\ syncer[s].status \in Statuses /\ page \in [Pages -> NotionRows] /\ page[g].lead = l
  BY <1>0, <1>1, LeadTyped, LeadsAssumption DEF MirrorsAreWhole, MirrorRows, PagesBelong
<1>3. PICK row : row = [page[g] EXCEPT !.status = syncer[s].status] OBVIOUS
<1>4. row \in NotionRows /\ row.lead = l /\ row.status = syncer[s].status BY <1>2, <1>3 DEF NotionRows
<1>5. page' \in [Pages -> NotionRows] /\ page'[g] = row /\ \A h \in Pages \ {g} : page'[h] = page[h]
  BY <1>0, <1>2, <1>3, <1>4
<1>6. /\ syncer' \in [Syncers -> MirrorRows] /\ syncer'[s] = FreeSyncer
      /\ \A t \in Syncers \ {s} : syncer'[t] = syncer[t] BY <1>1, SyncerStep, FreeLeadRows DEF SyncEnds
<1>7. \A h \in Pages : page'[h].lead = page[h].lead BY <1>2, <1>4, <1>5
<1>8. LeadTypeOK' BY <1>1, <1>5, <1>6 DEF LeadTypeOK, MirrorRows, NotionRows
<1>9. MirrorsAreWhole' BY <1>1, <1>6, <1>7, FreeLeadRows DEF MirrorsAreWhole
<1>10. PagesBelong'
  <2>1. \A k \in LeadIds : lead[k].page \in Pages \cup {NoPage} /\ lead[k].orphan \in Pages \cup {NoPage}
    BY <1>1, LeadTyped DEF LeadRows
  <2> QED BY <1>1, <1>2, <1>5, <1>7, <2>1 DEF PagesBelong
<1>11. PagesKept'
  <2>1. \A h \in Pages : InHand(h)' <=> InHand(h) BY <1>6, FreeLeadRows DEF InHand
  <2>2. page[g] # NotMade BY <1>2, FreeLeadRows
  <2> QED BY <1>1, <1>5, <1>7, <2>1, <2>2 DEF PagesKept
<1>12. OrphansFollow'
  <2>1. \A t \in Syncers, k \in LeadIds : Makes(t, k)' => Makes(t, k) BY <1>6, FreeLeadRows DEF Makes
  <2>2. \A t \in Syncers : syncer'[t].at = "orphan" => syncer'[t].lead \in LeadIds /\ lead[syncer'[t].lead].page # NoPage
    BY <1>1, <1>6, FreeLeadRows DEF OrphansFollow, MirrorsAreWhole
  <2> QED BY <1>1, <2>1, <2>2, OrphansKeep
<1>13. MirrorFollows'
  <2>1. l \in outpaced' \/ (Alone(l)' /\ InStep(l)' /\ Shows(l)')
    <3> SUFFICES ASSUME l \notin outpaced' PROVE Alone(l)' /\ InStep(l)' /\ Shows(l)' OBVIOUS
    <3>1. Alone(l) /\ InStep(l) BY <1>1, <1>2 DEF MirrorFollows
    <3>2. \A t \in Syncers : syncer'[t].lead # l BY <1>0, <1>2, <1>6, <3>1, NobodyLeft
    <3>3. HasLatest(s, l) BY <1>0, <3>1 DEF InStep
    <3>4. Coming(l)' \/ page'[g].status = InquiryStatus(l)' BY <1>4, <1>5, <3>3 DEF HasLatest, Coming, InquiryStatus
    <3>5. Alone(l)' /\ InStep(l)' BY <3>2 DEF Alone, InStep
    <3> QED BY <1>2, <3>4, <3>5 DEF Shows
  <2>2. syncer[s].lead \in {l, NoLead} /\ syncer'[s].lead \in {l, NoLead} BY <1>0, <1>6, FreeLeadRows
  <2>3. \A k \in LeadIds \ {l} : /\ lead'[k] = lead[k] /\ syncJobs'[k] = syncJobs[k]
                                 /\ \A h \in Pages : page[h].lead = k => page'[h] = page[h] BY <1>2, <1>5
  <2> QED BY <1>2, <1>6, <2>1, <2>2, <2>3, OthersFollow
<1>14. TabsAreWhole' /\ ClientsFound' BY <1>1, TabsStay
<1> QED BY <1>8, <1>9, <1>10, <1>11, <1>12, <1>13, <1>14 DEF LeadInv

LEMMA PatchPageKeeps == ASSUME LeadInv, NEW s \in Syncers, PatchPage(s) PROVE LeadInv'
<1>1. syncer[s].at = "patch" /\ UNCHANGED <<lead, account, triageTab, stray, surplus, twice>> BY DEF PatchPage
<1>2. CASE SyncRaises(s) /\ page' = page
  <2>1. LeadTypeOK BY DEF LeadInv
  <2>2. page' \in [Pages -> NotionRows] /\ stray \subseteq stray' /\ stray' \subseteq Pages
    BY <1>1, <1>2, <2>1, LeadTyped DEF LeadTypeOK
  <2> QED BY <1>1, <1>2, <2>2, RaiseKeeps
<1>3. CASE /\ page' = [page EXCEPT ![syncer[s].page].status = syncer[s].status] /\ SyncEnds(s)
           /\ UNCHANGED <<syncJobs, outpaced>> BY <1>1, <1>3, PatchedKeeps
<1> QED BY <1>2, <1>3 DEF PatchPage

LEMMA StampKeeps == ASSUME LeadInv, NEW s \in Syncers, StampPage(s) PROVE LeadInv'
<1>0. PICK l, g : l = syncer[s].lead /\ g = syncer[s].page OBVIOUS
<1>1. /\ LeadTypeOK /\ MirrorsAreWhole /\ TabsAreWhole /\ PagesBelong /\ PagesKept
      /\ OrphansFollow /\ MirrorFollows /\ ClientsFound BY DEF LeadInv
<1>2. syncer[s].at = "stamp" /\ UNCHANGED <<account, syncJobs, triageTab, page, stray, outpaced, surplus, twice>>
  BY DEF StampPage
<1>3. /\ l \in LeadIds /\ l # NoLead /\ g \in Pages /\ g # NoPage /\ page[g].lead = l
      /\ lead[l] \in LeadRows /\ syncer[s] \in MirrorRows /\ lead \in [LeadIds -> LeadRows]
      /\ syncer \in [Syncers -> MirrorRows] BY <1>0, <1>1, <1>2, LeadTyped, LeadsAssumption DEF MirrorsAreWhole
<1>4. syncer[s].lead \in {l, NoLead} BY <1>0
<1>5. CASE lead[l].page = NoPage
  <2>1. PICK row : row = [lead[l] EXCEPT !.page = g] OBVIOUS
  <2>2. row \in LeadRows /\ row.page = g /\ row.orphan = lead[l].orphan /\ row.orphanOpen = lead[l].orphanOpen
        /\ row.client = lead[l].client /\ row.converted = lead[l].converted /\ row.dismissed = lead[l].dismissed
    BY <1>3, <2>1 DEF LeadRows
  <2>3. lead' = [lead EXCEPT ![l] = row] /\ syncer' = [syncer EXCEPT ![s] = FreeSyncer]
    BY <1>0, <1>5, <2>1 DEF StampPage, Stampable, SyncEnds
  <2>4. lead' \in [LeadIds -> LeadRows] /\ lead'[l] = row /\ \A k \in LeadIds \ {l} : lead'[k] = lead[k]
    BY <1>3, <2>2, <2>3
  <2>5. /\ syncer' \in [Syncers -> MirrorRows] /\ syncer'[s] = FreeSyncer
        /\ \A t \in Syncers \ {s} : syncer'[t] = syncer[t] BY <1>1, <2>3, SyncerStep, FreeLeadRows
  <2>6. LeadTypeOK' BY <1>1, <1>2, <2>4, <2>5 DEF LeadTypeOK, MirrorRows, LeadRows
  <2>7. MirrorsAreWhole'
    <3>1. \A t \in Syncers : syncer[t].at = "patch" => syncer[t].lead # l
      BY <1>1, <1>5, LeadsAssumption DEF MirrorsAreWhole
    <3> QED BY <1>1, <1>2, <2>4, <2>5, <3>1, FreeLeadRows DEF MirrorsAreWhole
  <2>8. PagesBelong' BY <1>1, <1>2, <1>3, <2>2, <2>4 DEF PagesBelong
  <2>9. PagesKept'
    <3>1. \A h \in Pages \ {g} : InHand(h) => InHand(h)' BY <1>0, <2>5 DEF InHand
    <3>2. \A h \in Pages : page[h] # NotMade => page[h].lead \in LeadIds BY <1>1, LeadTyped DEF PagesBelong, NotionRows
    <3>3. \A h \in Pages \ {g} : \A k \in LeadIds : h \in {lead[k].page, lead[k].orphan} => h \in {lead'[k].page, lead'[k].orphan}
      BY <1>5, <2>2, <2>4, LeadsAssumption
    <3>4. g = lead'[page[g].lead].page BY <1>3, <2>2, <2>4
    <3> SUFFICES ASSUME NEW h \in Pages \ (stray \cup surplus), page[h] # NotMade
                 PROVE  InHand(h)' \/ h \in {lead'[page[h].lead].page, lead'[page[h].lead].orphan}
      BY <1>2 DEF PagesKept
    <3>5. InHand(h) \/ h \in {lead[page[h].lead].page, lead[page[h].lead].orphan} BY <1>1 DEF PagesKept
    <3>6. CASE h = g BY <3>4, <3>6
    <3>7. CASE h # g
      <4>1. PICK k \in LeadIds : k = page[h].lead BY <3>2
      <4>2. h \in Pages \ {g} /\ h # NoPage BY <3>7, LeadsAssumption
      <4>3. InHand(h) \/ h \in {lead[k].page, lead[k].orphan} BY <3>5, <4>1
      <4>4. InHand(h)' \/ h \in {lead'[k].page, lead'[k].orphan} BY <3>1, <3>3, <4>2, <4>3
      <4> QED BY ONLY <4>1, <4>4, Zenon
    <3> QED BY <3>6, <3>7
  <2>10. OrphansFollow'
    <3>1. \A t \in Syncers, k \in LeadIds : Makes(t, k)' => Makes(t, k) /\ t # s BY <1>3, <2>5, FreeLeadRows DEF Makes
    <3>2. OneDone(l)' BY <1>3, <3>1 DEF OneDone
    <3>3. \A k \in LeadIds : (OneDone(k) => OneDone(k)') /\ (TwoDone(k) => TwoDone(k)') BY <3>1 DEF OneDone, TwoDone
    <3>4. \A k \in LeadIds : /\ lead'[k].orphanOpen => lead'[k].orphan # NoPage
                             /\ lead'[k].orphan # NoPage => lead'[k].page # NoPage /\ TwoDone(k)'
                             /\ lead'[k].page # NoPage => OneDone(k)'
      <4> SUFFICES ASSUME NEW k \in LeadIds
                   PROVE  /\ lead'[k].orphanOpen => lead'[k].orphan # NoPage
                          /\ lead'[k].orphan # NoPage => lead'[k].page # NoPage /\ TwoDone(k)'
                          /\ lead'[k].page # NoPage => OneDone(k)'
        OBVIOUS
      <4>1. CASE k = l BY <1>1, <1>3, <1>5, <2>2, <2>4, <3>2, <4>1 DEF OrphansFollow
      <4>2. CASE k # l BY <1>1, <2>4, <3>3, <4>2 DEF OrphansFollow
      <4> QED BY <4>1, <4>2
    <3>5. \A t \in Syncers : syncer'[t].at = "orphan" => lead'[syncer'[t].lead].page # NoPage
      BY <1>1, <1>3, <2>2, <2>4, <2>5, FreeLeadRows DEF OrphansFollow, MirrorsAreWhole
    <3> QED BY <1>1, <1>2, <3>4, <3>5 DEF OrphansFollow
  <2>11. MirrorFollows'
    <3>1. l \in outpaced' \/ (Alone(l)' /\ InStep(l)' /\ Shows(l)')
      <4> SUFFICES ASSUME l \notin outpaced' PROVE Alone(l)' /\ InStep(l)' /\ Shows(l)' OBVIOUS
      <4>1. Alone(l) /\ InStep(l) BY <1>1, <1>2, <1>3 DEF MirrorFollows
      <4>2. \A t \in Syncers : syncer'[t].lead # l BY <1>0, <1>3, <2>5, <4>1, NobodyLeft
      <4>3. HasLatest(s, l) /\ page[g].status = syncer[s].status BY <1>0, <1>2, <4>1 DEF InStep
      <4>4. InquiryStatus(l)' = InquiryStatus(l) BY <2>2, <2>4 DEF InquiryStatus
      <4>5. Coming(l)' \/ page'[lead'[l].page].status = InquiryStatus(l)'
        BY <1>2, <2>2, <2>4, <4>3, <4>4 DEF HasLatest, Coming
      <4>6. Alone(l)' /\ InStep(l)' BY <4>2 DEF Alone, InStep
      <4> QED BY <4>5, <4>6 DEF Shows
    <3>2. syncer'[s].lead \in {l, NoLead} BY <2>5, FreeLeadRows
    <3>3. \A k \in LeadIds \ {l} : /\ lead'[k] = lead[k] /\ syncJobs'[k] = syncJobs[k]
                                   /\ \A h \in Pages : page[h].lead = k => page'[h] = page[h] BY <1>2, <2>4
    <3>4. UNCHANGED triageTab /\ outpaced \subseteq outpaced' BY <1>2
    <3> QED BY <1>3, <1>4, <2>5, <3>1, <3>2, <3>3, <3>4, OthersFollow
  <2>12. TabsAreWhole' /\ ClientsFound'
    <3>1. \A k \in LeadIds : lead'[k].client = lead[k].client BY <2>2, <2>4
    <3> QED BY <1>1, <1>2, <3>1, TabsStay
  <2> QED BY <2>6, <2>7, <2>8, <2>9, <2>10, <2>11, <2>12 DEF LeadInv
<1>6. CASE lead[l].page # NoPage
  <2>1. lead' = lead /\ syncer' = [syncer EXCEPT ![s].at = "orphan"] BY <1>0, <1>6 DEF StampPage, Stampable
  <2>2. PICK row : row = [syncer[s] EXCEPT !.at = "orphan"] OBVIOUS
  <2>3. /\ row \in MirrorRows /\ row.at = "orphan" /\ row.page = g /\ row.lead = l /\ row.status = syncer[s].status
    BY <1>0, <1>3, <2>2 DEF MirrorRows
  <2>4. /\ syncer' \in [Syncers -> MirrorRows] /\ syncer'[s] = row /\ \A t \in Syncers \ {s} : syncer'[t] = syncer[t]
    BY <1>1, <2>1, <2>2, <2>3, SyncerStep
  <2>5. LeadTypeOK' BY <1>1, <1>2, <2>1, <2>4 DEF LeadTypeOK, MirrorRows
  <2>6. MirrorsAreWhole' BY <1>0, <1>1, <1>2, <1>3, <2>1, <2>3, <2>4 DEF MirrorsAreWhole
  <2>7. PagesBelong' BY <1>1, <1>2, <2>1 DEF PagesBelong
  <2>8. PagesKept'
    <3>1. \A h \in Pages : InHand(h) => InHand(h)' BY <1>0, <2>3, <2>4 DEF InHand
    <3> QED BY <1>1, <1>2, <2>1, <3>1 DEF PagesKept
  <2>9. OrphansFollow'
    <3>1. \A t \in Syncers, k \in LeadIds : Makes(t, k)' => Makes(t, k) BY <1>0, <1>2, <2>3, <2>4 DEF Makes
    <3>2. \A t \in Syncers : syncer'[t].at = "orphan" => syncer'[t].lead \in LeadIds /\ lead[syncer'[t].lead].page # NoPage
      BY <1>1, <1>3, <1>6, <2>3, <2>4 DEF OrphansFollow, MirrorsAreWhole
    <3> QED BY <1>1, <1>2, <2>1, <3>1, <3>2, OrphansKeep
  <2>10. MirrorFollows'
    <3>1. l \in outpaced' BY <1>0, <1>1, <1>2, <1>3, <1>6 DEF MirrorFollows, InStep
    <3>2. syncer'[s].lead \in {l, NoLead} BY <2>3, <2>4
    <3>3. \A k \in LeadIds \ {l} : /\ lead'[k] = lead[k] /\ syncJobs'[k] = syncJobs[k]
                                   /\ \A h \in Pages : page[h].lead = k => page'[h] = page[h] BY <1>2, <2>1
    <3>4. UNCHANGED triageTab /\ outpaced \subseteq outpaced' BY <1>2
    <3> QED BY <1>3, <1>4, <2>4, <3>1, <3>2, <3>3, <3>4, OthersFollow
  <2>11. TabsAreWhole' /\ ClientsFound' BY <1>1, <1>2, <2>1, TabsStay
  <2> QED BY <2>5, <2>6, <2>7, <2>8, <2>9, <2>10, <2>11 DEF LeadInv
<1> QED BY <1>5, <1>6

LEMMA RecordKeeps == ASSUME LeadInv, NEW s \in Syncers, RecordOrphan(s) PROVE LeadInv'
<1>0. PICK l, g : l = syncer[s].lead /\ g = syncer[s].page OBVIOUS
<1>1. /\ LeadTypeOK /\ MirrorsAreWhole /\ TabsAreWhole /\ PagesBelong /\ PagesKept
      /\ OrphansFollow /\ MirrorFollows /\ ClientsFound BY DEF LeadInv
<1>2. /\ syncer[s].at = "orphan" /\ syncer' = [syncer EXCEPT ![s] = FreeSyncer]
      /\ UNCHANGED <<account, syncJobs, triageTab, page, stray, outpaced, twice>> BY DEF RecordOrphan, SyncEnds
<1>3. /\ l \in LeadIds /\ l # NoLead /\ g \in Pages /\ g # NoPage /\ page[g].lead = l
      /\ lead[l] \in LeadRows /\ lead \in [LeadIds -> LeadRows] /\ lead[l].page # NoPage
  BY <1>0, <1>1, <1>2, LeadTyped, LeadsAssumption DEF MirrorsAreWhole, OrphansFollow
<1>4. /\ syncer' \in [Syncers -> MirrorRows] /\ syncer'[s] = FreeSyncer
      /\ \A t \in Syncers \ {s} : syncer'[t] = syncer[t] BY <1>1, <1>2, SyncerStep, FreeLeadRows
<1>5. PICK row : row = [lead[l] EXCEPT !.orphan = g, !.orphanOpen = TRUE] OBVIOUS
<1>6. row \in LeadRows /\ row.page = lead[l].page /\ row.orphan = g /\ row.client = lead[l].client
  BY <1>3, <1>5 DEF LeadRows
<1>7. \/ lead[l].orphan = NoPage /\ lead' = [lead EXCEPT ![l] = row] /\ surplus' = surplus
      \/ lead[l].orphan # NoPage /\ lead' = lead /\ surplus' = surplus \cup {g}
  <2>1. CASE lead[l].orphan = NoPage
    <3>1. lead' = [lead EXCEPT ![l].orphan = g, ![l].orphanOpen = TRUE] /\ surplus' = surplus
      BY <1>0, <2>1 DEF RecordOrphan
    <3> QED BY ONLY <1>3, <1>5, <2>1, <3>1 DEF LeadRows
  <2>2. CASE lead[l].orphan # NoPage BY <1>0, <2>2 DEF RecordOrphan
  <2> QED BY <2>1, <2>2
<1>8. /\ lead' \in [LeadIds -> LeadRows] /\ surplus \subseteq surplus' /\ surplus' \subseteq Pages
      /\ \A k \in LeadIds : /\ lead'[k].page = lead[k].page /\ lead'[k].client = lead[k].client
                             /\ (lead'[k].orphan = lead[k].orphan \/ lead[k].orphan = NoPage)
      /\ \A k \in LeadIds \ {l} : lead'[k] = lead[k]
      /\ lead'[l].orphan # NoPage /\ (g = lead'[l].orphan \/ g \in surplus') BY <1>1, <1>3, <1>6, <1>7 DEF LeadTypeOK
<1>9. LeadTypeOK' BY <1>1, <1>2, <1>4, <1>8 DEF LeadTypeOK, MirrorRows, LeadRows
<1>10. MirrorsAreWhole' BY <1>1, <1>2, <1>4, <1>8, FreeLeadRows DEF MirrorsAreWhole
<1>11. PagesBelong'
  <2>1. page[lead'[l].orphan].lead = l BY <1>1, <1>3, <1>6, <1>7 DEF PagesBelong
  <2> QED BY <1>1, <1>2, <1>8, <2>1 DEF PagesBelong
<1>12. PagesKept'
  <2>1. \A h \in Pages \ {g} : InHand(h) => InHand(h)' BY <1>0, <1>4 DEF InHand
  <2>2. \A h \in Pages : page[h] # NotMade => page[h].lead \in LeadIds BY <1>1, LeadTyped DEF PagesBelong, NotionRows
  <2> SUFFICES ASSUME NEW h \in Pages \ (stray \cup surplus'), page[h] # NotMade
               PROVE  InHand(h)' \/ h \in {lead'[page[h].lead].page, lead'[page[h].lead].orphan} BY <1>2 DEF PagesKept
  <2>3. InHand(h) \/ h \in {lead[page[h].lead].page, lead[page[h].lead].orphan} BY <1>1, <1>8 DEF PagesKept
  <2>4. CASE h = g BY <1>3, <1>8, <2>4
  <2>5. CASE h # g
    <3>1. PICK k \in LeadIds : k = page[h].lead BY <2>2
    <3>2. h \in Pages \ {g} /\ h # NoPage BY <2>5, LeadsAssumption
    <3>3. InHand(h) \/ h \in {lead[k].page, lead[k].orphan} BY <2>3, <3>1
    <3>4. InHand(h)' \/ h \in {lead'[k].page, lead'[k].orphan} BY <1>8, <2>1, <3>2, <3>3
    <3> QED BY ONLY <3>1, <3>4, Zenon
  <2> QED BY <2>4, <2>5
<1>13. OrphansFollow'
  <2>1. Makes(s, l) BY <1>0, <1>2 DEF Makes
  <2>2. \A t \in Syncers, k \in LeadIds : Makes(t, k)' => Makes(t, k) /\ t # s BY <1>3, <1>4, FreeLeadRows DEF Makes
  <2>3. PICK t \in Syncers : ~Makes(t, l) BY <1>1, <1>3 DEF OrphansFollow, OneDone
  <2>4. TwoDone(l)' BY <1>3, <2>1, <2>2, <2>3 DEF TwoDone
  <2>5. \A k \in LeadIds : (OneDone(k) => OneDone(k)') /\ (TwoDone(k) => TwoDone(k)') BY <2>2 DEF OneDone, TwoDone
  <2>6. \A k \in LeadIds : /\ lead'[k].orphanOpen => lead'[k].orphan # NoPage
                           /\ lead'[k].orphan # NoPage => lead'[k].page # NoPage /\ TwoDone(k)'
                           /\ lead'[k].page # NoPage => OneDone(k)'
    <3> SUFFICES ASSUME NEW k \in LeadIds
                 PROVE  /\ lead'[k].orphanOpen => lead'[k].orphan # NoPage
                        /\ lead'[k].orphan # NoPage => lead'[k].page # NoPage /\ TwoDone(k)'
                        /\ lead'[k].page # NoPage => OneDone(k)'
      OBVIOUS
    <3>1. CASE k = l BY <1>1, <1>3, <1>8, <2>4, <2>5, <3>1 DEF OrphansFollow
    <3>2. CASE k # l BY <1>1, <1>8, <2>5, <3>2 DEF OrphansFollow
    <3> QED BY <3>1, <3>2
  <2>7. \A u \in Syncers : syncer'[u].at = "orphan" => lead'[syncer'[u].lead].page # NoPage
    BY <1>1, <1>4, <1>8, FreeLeadRows DEF OrphansFollow, MirrorsAreWhole
  <2>8. surplus' # {} => \E u, v, w \in Syncers : u # v /\ u # w /\ v # w
    <3>1. CASE lead[l].orphan = NoPage BY <1>1, <1>7, <3>1 DEF OrphansFollow
    <3>2. CASE lead[l].orphan # NoPage
      <4>1. PICK v, w \in Syncers : v # w /\ ~Makes(v, l) /\ ~Makes(w, l)
        BY <1>1, <1>3, <3>2 DEF OrphansFollow, TwoDone
      <4> QED BY <2>1, <4>1
    <3> QED BY <3>1, <3>2
  <2> QED BY <2>6, <2>7, <2>8 DEF OrphansFollow
<1>14. MirrorFollows'
  <2>1. l \in outpaced' BY <1>0, <1>1, <1>2, <1>3 DEF MirrorFollows, InStep
  <2>2. syncer[s].lead \in {l, NoLead} /\ syncer'[s].lead \in {l, NoLead} BY <1>0, <1>4, FreeLeadRows
  <2>3. \A k \in LeadIds \ {l} : /\ lead'[k] = lead[k] /\ syncJobs'[k] = syncJobs[k]
                                 /\ \A h \in Pages : page[h].lead = k => page'[h] = page[h] BY <1>2, <1>8
  <2>4. UNCHANGED triageTab /\ outpaced \subseteq outpaced' BY <1>2
  <2> QED BY <1>3, <1>4, <2>1, <2>2, <2>3, <2>4, OthersFollow
<1>15. TabsAreWhole' /\ ClientsFound' BY <1>1, <1>2, <1>8, TabsStay
<1> QED BY <1>9, <1>10, <1>11, <1>12, <1>13, <1>14, <1>15 DEF LeadInv

\* The operator adopts nothing any more: an orphan is recorded where there is a page.
LEMMA OperatorKeeps == ASSUME LeadInv, NEW l \in LeadIds, RelinkOrphan(l) \/ DismissOrphan(l) PROVE LeadInv'
<1>1. /\ LeadTypeOK /\ MirrorsAreWhole /\ TabsAreWhole /\ PagesBelong /\ PagesKept
      /\ OrphansFollow /\ MirrorFollows /\ ClientsFound BY DEF LeadInv
<1>2. lead[l].orphanOpen /\ UNCHANGED <<account, syncJobs, syncer, triageTab, page, stray, outpaced, surplus, twice>>
  BY DEF RelinkOrphan, DismissOrphan
<1>3. lead[l].page # NoPage /\ lead[l] \in LeadRows /\ lead \in [LeadIds -> LeadRows]
  BY <1>1, <1>2, LeadTyped DEF OrphansFollow
<1>4. /\ lead' \in [LeadIds -> LeadRows]
      /\ \A k \in LeadIds : /\ lead'[k].page = lead[k].page /\ lead'[k].orphan = lead[k].orphan
                             /\ lead'[k].client = lead[k].client /\ (lead'[k].orphanOpen => lead[k].orphanOpen)
                             /\ lead'[k].converted = lead[k].converted /\ lead'[k].dismissed = lead[k].dismissed
  <2>1. CASE DismissOrphan(l)
    <3>1. lead' = [lead EXCEPT ![l].orphanOpen = FALSE] BY <2>1 DEF DismissOrphan
    <3> QED BY ONLY <1>2, <1>3, <3>1, l \in LeadIds DEF LeadRows
  <2>2. CASE RelinkOrphan(l)
    <3>1. PICK adopted : adopted = IF lead[l].page = NoPage THEN lead[l].orphan ELSE lead[l].page OBVIOUS
    <3>2. lead' = [lead EXCEPT ![l].orphanOpen = FALSE, ![l].page = adopted] BY <2>2, <3>1 DEF RelinkOrphan
    <3>3. adopted = lead[l].page BY <1>3, <3>1
    <3> QED BY ONLY <1>2, <1>3, <3>2, <3>3, l \in LeadIds DEF LeadRows
  <2> QED BY <2>1, <2>2
<1>5. LeadTypeOK' BY <1>1, <1>2, <1>4 DEF LeadTypeOK, LeadRows
<1>6. MirrorsAreWhole' BY <1>1, <1>2, <1>4, MirrorsStay
<1>7. PagesBelong' /\ PagesKept' BY <1>1, <1>2, <1>4, PagesStay
<1>8. OrphansFollow' BY <1>1, <1>2, <1>4, OrphansStay
<1>9. MirrorFollows'
  <2>1. \A k \in LeadIds : (Coming(k)' <=> Coming(k)) /\ InquiryStatus(k)' = InquiryStatus(k)
    BY <1>2, <1>4 DEF Coming, InquiryStatus
  <2> QED BY <1>1, <1>2, <1>4, <2>1, MirrorStays
<1>10. TabsAreWhole' /\ ClientsFound' BY <1>1, <1>2, <1>4, TabsStay
<1> QED BY <1>5, <1>6, <1>7, <1>8, <1>9, <1>10 DEF LeadInv

LEMMA LeadsKilledKeep == ASSUME LeadInv, ProcessKilled PROVE LeadInv'
<1>1. /\ LeadTypeOK /\ MirrorsAreWhole /\ TabsAreWhole /\ PagesBelong /\ PagesKept
      /\ OrphansFollow /\ MirrorFollows /\ ClientsFound BY DEF LeadInv
<1>2. /\ stray' = stray \cup {syncer[s].page : s \in {t \in Syncers : syncer[t].at \in {"stamp", "orphan"}}}
      /\ syncJobs' = [l \in LeadIds |-> IF Syncing(l) /\ syncJobs[l] < MaxSyncJobs
                                        THEN syncJobs[l] + 1 ELSE syncJobs[l]]
      /\ syncer' = [s \in Syncers |-> FreeSyncer]
      /\ outpaced' = outpaced \cup UNION {Unsynced(r) : r \in TriageTabs}
      /\ triageTab' = [r \in TriageTabs |-> FreeTab]
      /\ UNCHANGED <<lead, account, page, surplus, twice>> BY DEF ProcessKilled
<1>3. /\ \A s \in Syncers : syncer'[s] = FreeSyncer
      /\ \A r \in TriageTabs : triageTab'[r] = FreeTab
      /\ syncer' \in [Syncers -> MirrorRows] /\ triageTab' \in [TriageTabs -> TriageRows] BY <1>2, FreeLeadRows
<1>4. \A l \in LeadIds : /\ syncJobs[l] \in 0..MaxSyncJobs
                         /\ syncJobs'[l] = syncJobs[l] \/ (syncJobs[l] < MaxSyncJobs /\ syncJobs'[l] = syncJobs[l] + 1)
                         /\ Syncing(l) => syncJobs[l] >= MaxSyncJobs \/ syncJobs'[l] = syncJobs[l] + 1
  <2> SUFFICES ASSUME NEW l \in LeadIds
               PROVE  /\ syncJobs[l] \in 0..MaxSyncJobs
                      /\ syncJobs'[l] = syncJobs[l] \/ (syncJobs[l] < MaxSyncJobs /\ syncJobs'[l] = syncJobs[l] + 1)
                      /\ Syncing(l) => syncJobs[l] >= MaxSyncJobs \/ syncJobs'[l] = syncJobs[l] + 1
    OBVIOUS
  <2>1. syncJobs[l] \in 0..MaxSyncJobs /\ MaxSyncJobs \in Nat BY <1>1, LeadTyped, LeadsAssumption
  <2>2. syncJobs'[l] = IF Syncing(l) /\ syncJobs[l] < MaxSyncJobs THEN syncJobs[l] + 1 ELSE syncJobs[l] BY <1>2
  <2>3. CASE Syncing(l)
    <3>1. syncJobs'[l] = IF syncJobs[l] < MaxSyncJobs THEN syncJobs[l] + 1 ELSE syncJobs[l] BY <2>2, <2>3
    <3> QED BY <2>1, <3>1
  <2>4. CASE ~Syncing(l)
    <3>1. syncJobs'[l] = syncJobs[l] BY <2>2, <2>4
    <3> QED BY <2>1, <2>4, <3>1
  <2> QED BY <2>3, <2>4
<1>5. syncJobs' \in [LeadIds -> 0..MaxSyncJobs]
  <2>1. MaxSyncJobs \in Nat BY LeadsAssumption
  <2>2. \A l \in LeadIds : syncJobs'[l] \in 0..MaxSyncJobs
    <3> SUFFICES ASSUME NEW l \in LeadIds PROVE syncJobs'[l] \in 0..MaxSyncJobs OBVIOUS
    <3>1. /\ syncJobs[l] \in 0..MaxSyncJobs
          /\ syncJobs'[l] = syncJobs[l] \/ (syncJobs[l] < MaxSyncJobs /\ syncJobs'[l] = syncJobs[l] + 1) BY <1>4
    <3> QED BY ONLY <2>1, <3>1
  <2>3. syncJobs' = [l \in LeadIds |-> syncJobs'[l]] BY <1>2
  <2> QED BY ONLY <2>2, <2>3
<1>6. \A r \in TriageTabs : Unsynced(r) \subseteq LeadIds BY <1>1 DEF Unsynced, TabsAreWhole
<1>7. outpaced' \subseteq LeadIds /\ outpaced \subseteq outpaced' /\ \A r \in TriageTabs : Unsynced(r) \subseteq outpaced'
  <2>1. PICK S : S = UNION {Unsynced(r) : r \in TriageTabs} OBVIOUS
  <2>2. \A r \in TriageTabs : Unsynced(r) \subseteq S BY <2>1
  <2>3. S \subseteq LeadIds BY <1>6, <2>1
  <2>4. outpaced \subseteq LeadIds BY <1>1 DEF LeadTypeOK
  <2>5. outpaced' = outpaced \cup S BY <1>2, <2>1
  <2>6. outpaced' \subseteq LeadIds /\ outpaced \subseteq outpaced' BY ONLY <2>3, <2>4, <2>5
  <2>7. \A r \in TriageTabs : Unsynced(r) \subseteq outpaced' BY <2>2, <2>5
  <2> QED BY <2>6, <2>7
<1>8. /\ stray \subseteq stray' /\ stray' \subseteq Pages
      /\ \A s \in Syncers : syncer[s].at \in {"stamp", "orphan"} => syncer[s].page \in stray'
  <2>1. PICK S : S = {syncer[s].page : s \in {t \in Syncers : syncer[t].at \in {"stamp", "orphan"}}} OBVIOUS
  <2>2. \A s \in Syncers : syncer[s].at \in {"stamp", "orphan"} => syncer[s].page \in S BY <2>1
  <2>3. S \subseteq Pages BY <1>1, <2>1 DEF MirrorsAreWhole
  <2>4. stray \subseteq Pages BY <1>1 DEF LeadTypeOK
  <2>5. stray' = stray \cup S BY <1>2, <2>1
  <2>6. stray \subseteq stray' /\ stray' \subseteq Pages BY ONLY <2>3, <2>4, <2>5
  <2>7. S \subseteq stray' BY ONLY <2>5
  <2> QED BY <2>2, <2>6, <2>7
<1>9. LeadTypeOK' BY <1>1, <1>2, <1>3, <1>5, <1>7, <1>8 DEF LeadTypeOK, MirrorRows, TriageRows
<1>10. MirrorsAreWhole' BY <1>3, FreeLeadRows DEF MirrorsAreWhole
<1>11. TabsAreWhole' BY <1>3, FreeLeadRows DEF TabsAreWhole
<1>12. PagesBelong' BY <1>1, <1>2 DEF PagesBelong
<1>13. PagesKept'
  <2>1. \A g \in Pages \ stray' : ~InHand(g) BY <1>8 DEF InHand
  <2> QED BY <1>1, <1>2, <1>8, <2>1 DEF PagesKept
<1>14. OrphansFollow'
  <2>1. \A s \in Syncers, l \in LeadIds : ~Makes(s, l)' BY <1>3, FreeLeadRows DEF Makes
  <2>2. \A s \in Syncers : syncer'[s].at # "orphan" BY <1>3, FreeLeadRows
  <2> QED BY <1>1, <1>2, <2>1, <2>2, OrphansKeep
<1>15. MirrorFollows'
  <2> SUFFICES ASSUME NEW l \in LeadIds \ outpaced' PROVE Alone(l)' /\ InStep(l)' /\ Shows(l)' BY DEF MirrorFollows
  <2>1. l \in LeadIds \ outpaced BY <1>7
  <2>2. Alone(l) /\ InStep(l) /\ Shows(l) BY <1>1, <2>1 DEF MirrorFollows
  <2>3. \A s \in Syncers : syncer'[s].lead # l BY <1>3, FreeLeadRows, LeadsAssumption
  <2>4. \A r \in TriageTabs : ~(triageTab[r].at = "enqueue" /\ triageTab[r].lead = l) BY <1>7 DEF Unsynced
  <2>5. InquiryStatus(l)' = InquiryStatus(l) BY <1>2 DEF InquiryStatus
  <2>6. MaxSyncJobs \in Nat /\ syncJobs[l] \in 0..MaxSyncJobs BY <1>4, LeadsAssumption
  <2>7. Syncing(l) => syncJobs'[l] > 0
    <3> SUFFICES ASSUME Syncing(l) PROVE syncJobs'[l] > 0 OBVIOUS
    <3>1. MaxSyncJobs > 0 BY <1>1, FreeLeadRows, LeadsAssumption DEF Syncing, MirrorsAreWhole
    <3>2. syncJobs[l] >= MaxSyncJobs \/ syncJobs'[l] = syncJobs[l] + 1 BY <1>4
    <3>3. syncJobs'[l] = syncJobs[l] \/ syncJobs'[l] = syncJobs[l] + 1 BY <1>4
    <3> QED BY ONLY <2>6, <3>1, <3>2, <3>3
  <2>8. syncJobs[l] > 0 => syncJobs'[l] > 0
    <3>1. syncJobs'[l] = syncJobs[l] \/ syncJobs'[l] = syncJobs[l] + 1 BY <1>4
    <3> QED BY ONLY <2>6, <3>1
  <2>9. lead[l].page # NoPage => Coming(l)' \/ page[lead[l].page].status = InquiryStatus(l)
    <3>1. CASE Syncing(l) BY <2>7, <3>1 DEF Coming
    <3>2. CASE ~Syncing(l) BY <2>2, <2>4, <2>8, <3>2 DEF Shows, Coming
    <3> QED BY <3>1, <3>2
  <2>10. Alone(l)' /\ InStep(l)' BY <2>3 DEF Alone, InStep
  <2> QED BY <1>2, <2>5, <2>9, <2>10 DEF Shows
<1>16. ClientsFound' BY <1>1, <1>2, <1>3, FreeLeadRows, ClientsStay
<1> QED BY <1>9, <1>10, <1>11, <1>12, <1>13, <1>14, <1>15, <1>16 DEF LeadInv

LEMMA LeadStep == ASSUME LeadInv, LeadNext PROVE LeadInv'
<1>1. ASSUME NEW r \in TriageTabs, EnqueueSync(r) \/ ConvertNewClient(r) \/ ConvertStamp(r) \/ TabDies(r) PROVE LeadInv'
  <2>1. CASE EnqueueSync(r) BY <2>1, EnqueueKeeps
  <2>2. CASE ConvertNewClient(r) BY <2>2, NewClientKeeps
  <2>3. CASE ConvertStamp(r) BY <2>3, StampedKeeps
  <2>4. CASE TabDies(r) BY <2>4, TabDiesKeeps
  <2> QED BY <1>1, <2>1, <2>2, <2>3, <2>4
<1>2. ASSUME NEW r \in TriageTabs, NEW l \in LeadIds,
             TakeIn(r, l) \/ ConvertFind(r, l) \/ Unconvert(r, l) \/ DismissLead(r, l) \/ UndismissLead(r, l)
      PROVE  LeadInv'
  <2>1. CASE TakeIn(r, l) BY <2>1, TakeInKeeps
  <2>2. CASE ConvertFind(r, l) BY <2>2, FindKeeps
  <2>3. CASE Unconvert(r, l) BY <2>3, UnconvertKeeps
  <2>4. CASE DismissLead(r, l) BY <2>4, DismissKeeps
  <2>5. CASE UndismissLead(r, l) BY <2>5, UndismissKeeps
  <2> QED BY <1>2, <2>1, <2>2, <2>3, <2>4, <2>5
<1>3. ASSUME NEW s \in Syncers, CreatePage(s) \/ StampPage(s) \/ RecordOrphan(s) \/ PatchPage(s) PROVE LeadInv'
  BY <1>3, CreateKeeps, StampKeeps, RecordKeeps, PatchPageKeeps
<1>4. ASSUME NEW s \in Syncers, NEW l \in LeadIds, SyncInquiry(s, l) PROVE LeadInv' BY <1>4, InquiryKeeps
<1>5. ASSUME NEW l \in LeadIds, RelinkOrphan(l) \/ DismissOrphan(l) PROVE LeadInv' BY <1>5, OperatorKeeps
<1>6. ASSUME ProcessKilled PROVE LeadInv' BY <1>6, LeadsKilledKeep
<1> QED BY <1>1, <1>2, <1>3, <1>4, <1>5, <1>6 DEF LeadNext

\* Three threads are more than two.
LEMMA Three ==
  ASSUME NEW S, IsFiniteSet(S), NEW s \in S, NEW t \in S, NEW u \in S, s # t, s # u, t # u
  PROVE  Cardinality(S) > 2
<1>1. IsFiniteSet({s}) /\ Cardinality({s}) = 1 BY FS_Singleton
<1>2. IsFiniteSet({s} \cup {t}) /\ Cardinality({s} \cup {t}) = 2 BY <1>1, FS_AddElement
<1> PICK P : P = {s} \cup {t} OBVIOUS
<1> PICK Q : Q = P \cup {u} OBVIOUS
<1>3. /\ IsFiniteSet(P) /\ Cardinality(P) = 2 /\ Q = P \cup {u}
      /\ u \notin P /\ Q \subseteq S BY <1>2
<1>4. IsFiniteSet(P \cup {u}) /\ Cardinality(P \cup {u}) = IF u \in P THEN Cardinality(P) ELSE Cardinality(P) + 1
  BY ONLY <1>3, FS_AddElement
<1>5. Cardinality(Q) = 3 BY ONLY <1>3, <1>4
<1>6. Cardinality(Q) <= Cardinality(S) /\ Cardinality(S) \in Nat BY <1>3, FS_Subset, FS_CardinalityType
<1> QED BY ONLY <1>5, <1>6

LEMMA LeadsMean == ASSUME LeadInv PROVE PagesAreKnown /\ QuietMirrorTracks /\ ClientHasTheirAddress
<1>1. /\ LeadTypeOK /\ MirrorsAreWhole /\ PagesKept /\ OrphansFollow /\ MirrorFollows /\ ClientsFound BY DEF LeadInv
<1>2. PagesAreKnown
  <2>1. surplus # {} => Cardinality(Syncers) > 2
    <3> SUFFICES ASSUME surplus # {} PROVE Cardinality(Syncers) > 2 OBVIOUS
    <3>1. PICK s, t, u \in Syncers : s # t /\ s # u /\ t # u BY <1>1 DEF OrphansFollow
    <3>2. IsFiniteSet(Syncers) BY LeadsAssumption
    <3> QED BY <3>1, <3>2, Three
  <2> QED BY <1>1, <2>1 DEF PagesAreKnown, PagesKept
<1>3. QuietMirrorTracks
  <2> SUFFICES ASSUME NEW l \in LeadIds \ outpaced, lead[l].page # NoPage, syncJobs[l] = 0, ~Syncing(l),
                      \A r \in TriageTabs : triageTab[r].lead # l
               PROVE  page[lead[l].page].status = InquiryStatus(l) BY DEF QuietMirrorTracks
  <2>1. Shows(l) BY <1>1 DEF MirrorFollows
  <2>2. ~Coming(l) BY DEF Coming
  <2> QED BY <2>1, <2>2 DEF Shows
<1>4. ClientHasTheirAddress BY <1>1 DEF ClientsFound, ClientsAreTheirs, OneClientEach, ClientHasTheirAddress
<1> QED BY <1>2, <1>3, <1>4

LEMMA LeadRests == ASSUME LeadInv, UNCHANGED leadVars PROVE LeadInv'
<1> USE DEF leadVars
<1>1. LeadTypeOK' /\ MirrorsAreWhole' /\ TabsAreWhole' /\ PagesBelong' BY DEF LeadInv, LeadTypeOK, MirrorsAreWhole, TabsAreWhole, PagesBelong
<1>2. PagesKept' BY DEF LeadInv, PagesKept, InHand
<1>3. OrphansFollow' BY DEF LeadInv, OrphansFollow, Makes, OneDone, TwoDone
<1>4. MirrorFollows'
  <2>1. \A l \in LeadIds : (Coming(l)' <=> Coming(l)) /\ (InquiryStatus(l)' = InquiryStatus(l)) /\ (Syncing(l)' <=> Syncing(l))
    BY DEF Coming, InquiryStatus, Syncing
  <2>2. \A l \in LeadIds : (Alone(l)' <=> Alone(l)) BY DEF Alone
  <2>3. \A l \in LeadIds : Shows(l) => Shows(l)' BY <2>1 DEF Shows
  <2>4. \A l \in LeadIds : InStep(l) => InStep(l)' BY <2>1 DEF InStep, HasLatest
  <2> QED BY <2>2, <2>3, <2>4 DEF LeadInv, MirrorFollows
<1>5. ClientsFound' BY DEF LeadInv, ClientsFound, ClientsAreTheirs, OneClientEach, AskedForNone, Asking
<1> QED BY <1>1, <1>2, <1>3, <1>4, <1>5 DEF LeadInv
(* TextThreads: a number's threads, what is hung on them, what is added.   *)

\* A bounded set of naturals has a greatest element.
LEMMA LastOf ==
  ASSUME NEW I \in SUBSET Nat, I # {}, NEW n \in Nat, \A i \in I : i <= n
  PROVE  \E m \in I : \A j \in I : j <= m
<1> DEFINE T == {k \in Nat : n - k \in I}
<1>1. T # {}
  <2>1. PICK i \in I : TRUE OBVIOUS
  <2>2. n - i \in Nat /\ n - (n - i) = i BY <2>1
  <2> QED BY <2>2
<1> DEFINE Less == {l \in Nat \X Nat : l[1] < l[2]}
<1>0. IsWellFoundedOn(Less, Nat) BY NatLessThanWellFounded DEF OpToRel
<1>2. PICK k \in T : \A l \in T : ~(<<l, k>> \in Less)
  <2> HIDE DEF Less
  <2> QED BY <1>0, <1>1, WFMin, T \subseteq Nat
<1>3. ASSUME NEW j \in I PROVE j <= n - k
  <2>1. n - j \in Nat /\ n - (n - j) = j OBVIOUS
  <2>2. n - j \in T BY <2>1
  <2>3. ~(n - j < k) BY <1>2, <2>2
  <2> QED BY <2>1, <2>3, <1>2
<1> QED BY <1>2, <1>3

ThreadRows  == [number : Numbers \cup {NoNumber}, dismissed : BOOLEAN]
BubbleRows  == [thread : Threads \cup {NoThread}, notes : SUBSET Notes]
HandlerRows == [at : {"idle", "create", "reopen", "insert", "append"}, event : Events \cup {NoThread},
                thread : Threads \cup {NoThread}, notes : SUBSET Notes]

\* Threads are given out in order, so a number's have a last one.
ThreadsGiven ==
  /\ \E n \in Nat : \A t \in Threads : thread[t].number # NoNumber => t <= n
  /\ \A t \in Threads : thread[t].number = NoNumber => ~thread[t].dismissed
HandlersAreWhole == \A h \in Handlers :
  /\ handler[h].at = "idle" => handler[h] = FreeHandler
  /\ handler[h].at # "idle" => handler[h].event \in Events
  /\ handler[h].at \in {"reopen", "insert"} =>
       handler[h].thread \in Threads /\ thread[handler[h].thread].number = From[handler[h].event]
  /\ handler[h].at = "append" => handler[h].event \in Calls /\ bubble[handler[h].event] # NoBubble
BubblesHang == \A e \in Events :
  bubble[e] # NoBubble => bubble[e].thread \in Threads /\ thread[bubble[e].thread].number = From[e]

\* A first event's number has no thread yet, and no other first event.
FirstOf(h, n) == handler[h].at = "create" /\ From[handler[h].event] = n
OneThread == \A n \in Numbers \ crossed :
  /\ \A t, u \in Threads : thread[t].number = n /\ thread[u].number = n => t = u
  /\ \A h \in Handlers : FirstOf(h, n) =>
       /\ \A t \in Threads : thread[t].number # n
       /\ \A g \in Handlers : FirstOf(g, n) => g = h

\* An event about to be hung on a dismissed thread was at work when it was dismissed.
InSight == \A e \in Events \ shelved :
  /\ bubble[e] # NoBubble => ~thread[bubble[e].thread].dismissed
  /\ \A h \in Handlers : handler[h].at = "insert" /\ handler[h].event = e => ~thread[handler[h].thread].dismissed

\* What one request alone adds holds everything added before.
Adds(h, c) == handler[h].at = "append" /\ handler[h].event = c
NotesKept ==
  /\ NotesSurvive
  /\ \A c \in Calls \ overlaid, h \in Handlers : Adds(h, c) =>
       /\ bubble[c].notes \subseteq handler[h].notes
       /\ \A g \in Handlers : Adds(g, c) => g = h

TextInv == /\ TextTypeOK /\ ThreadsGiven /\ HandlersAreWhole /\ BubblesHang
           /\ OneThread /\ InSight /\ NotesKept

LEMMA TextTyped ==
  ASSUME TextTypeOK
  PROVE  /\ thread \in [Threads -> ThreadRows] /\ bubble \in [Events -> BubbleRows]
         /\ handler \in [Handlers -> HandlerRows]
BY DEF TextTypeOK, ThreadRows, BubbleRows, HandlerRows

LEMMA FreeTextRows ==
  /\ FreeHandler \in HandlerRows /\ FreeHandler.at = "idle" /\ NoBubble \in BubbleRows
  /\ NoBubble.thread = NoThread /\ NoBubble.notes = {} /\ FreeHandler.event = NoThread
  /\ FreeHandler.thread = NoThread
BY DEF FreeHandler, NoBubble, HandlerRows, BubbleRows

LEMMA Matched ==
  ASSUME TextInv, NEW n \in Numbers
  PROVE  \/ MatchInquiry(n) \in Threads /\ thread[MatchInquiry(n)].number = n
         \/ MatchInquiry(n) = NoThread /\ \A t \in Threads : thread[t].number # n
<1>1. CASE Of(n) = {} BY <1>1 DEF MatchInquiry, Of
<1>2. CASE Of(n) # {}
  <2>1. Of(n) \in SUBSET Nat BY TextThreadsAssumption DEF Of
  <2>2. PICK k \in Nat : \A t \in Threads : thread[t].number # NoNumber => t <= k BY DEF TextInv, ThreadsGiven
  <2>3. \A t \in Of(n) : t <= k BY <2>2, TextThreadsAssumption DEF Of
  <2>4. \E m \in Of(n) : \A j \in Of(n) : j <= m BY <1>2, <2>1, <2>3, LastOf
  <2>5. MatchInquiry(n) = CHOOSE t \in Of(n) : \A u \in Of(n) : u <= t BY <1>2 DEF MatchInquiry
  <2>6. MatchInquiry(n) \in Of(n) BY <2>4, <2>5
  <2> QED BY <2>6 DEF Of
<1> QED BY <1>1, <1>2

LEMMA TextInitially == ASSUME TextInit PROVE TextInv
<1>1. /\ thread = [t \in Threads |-> [number |-> NoNumber, dismissed |-> FALSE]]
      /\ bubble = [e \in Events |-> NoBubble] /\ handler = [h \in Handlers |-> FreeHandler]
      /\ crossed = {} /\ shelved = {} /\ sent = {} /\ overlaid = {} BY DEF TextInit
<1>2. TextTypeOK BY <1>1, FreeTextRows DEF TextTypeOK, HandlerRows, BubbleRows
<1>3. ThreadsGiven /\ HandlersAreWhole /\ BubblesHang
  BY <1>1, FreeTextRows DEF ThreadsGiven, HandlersAreWhole, BubblesHang
<1>4. OneThread /\ InSight /\ NotesKept
  BY <1>1, FreeTextRows, TextThreadsAssumption DEF OneThread, InSight, NotesKept, NotesSurvive, FirstOf, Adds
<1> QED BY <1>2, <1>3, <1>4 DEF TextInv

\* A request takes up a task, and nothing else changes but the history.
LEMMA TaskTaken ==
  ASSUME TextInv, NEW h \in Handlers, NEW task \in HandlerRows, handler' = [handler EXCEPT ![h] = task],
         UNCHANGED <<thread, bubble, shelved, sent>>,
         crossed \subseteq crossed', crossed' \subseteq Numbers, overlaid \subseteq overlaid', overlaid' \subseteq Calls,
         task.at = "idle" => task = FreeHandler,
         task.at # "idle" => task.event \in Events,
         task.at \in {"reopen", "insert"} =>
           task.thread \in Threads /\ thread[task.thread].number = From[task.event],
         task.at = "append" => task.event \in Calls /\ bubble[task.event] # NoBubble,
         task.at = "create" =>
           /\ \A t \in Threads : thread[t].number # From[task.event]
           /\ (\E g \in Handlers : FirstOf(g, From[task.event])) => From[task.event] \in crossed',
         task.at = "insert" => ~thread[task.thread].dismissed,
         task.at = "append" =>
           /\ bubble[task.event].notes \subseteq task.notes
           /\ (\E g \in Handlers : Adds(g, task.event)) => task.event \in overlaid'
  PROVE  TextInv'
<1>1. /\ TextTypeOK /\ ThreadsGiven /\ HandlersAreWhole /\ BubblesHang /\ OneThread /\ InSight /\ NotesKept
  BY DEF TextInv
<1>2. /\ handler' \in [Handlers -> HandlerRows] /\ handler'[h] = task
      /\ \A g \in Handlers : g # h => handler'[g] = handler[g] BY <1>1, TextTyped
<1>3. TextTypeOK' BY <1>1, <1>2 DEF TextTypeOK, HandlerRows
<1>4. ThreadsGiven' BY <1>1 DEF ThreadsGiven
<1>5. HandlersAreWhole' BY <1>1, <1>2 DEF HandlersAreWhole
<1>6. BubblesHang' BY <1>1 DEF BubblesHang
<1>7. OneThread'
  <2> SUFFICES ASSUME NEW n \in Numbers \ crossed'
               PROVE  /\ \A t, u \in Threads : thread'[t].number = n /\ thread'[u].number = n => t = u
                      /\ \A k \in Handlers : FirstOf(k, n)' =>
                           /\ \A t \in Threads : thread'[t].number # n
                           /\ \A g \in Handlers : FirstOf(g, n)' => g = k BY DEF OneThread
  <2>1. n \in Numbers \ crossed OBVIOUS
  <2>2. \A g \in Handlers : g # h => (FirstOf(g, n)' <=> FirstOf(g, n)) BY <1>2 DEF FirstOf
  <2>3. FirstOf(h, n)' => task.at = "create" /\ From[task.event] = n BY <1>2 DEF FirstOf
  <2>4. FirstOf(h, n)' => \A g \in Handlers : ~FirstOf(g, n) BY <2>3
  <2>5. FirstOf(h, n)' => \A t \in Threads : thread[t].number # n BY <2>3
  <2>6. /\ \A t, u \in Threads : thread[t].number = n /\ thread[u].number = n => t = u
        /\ \A k \in Handlers : FirstOf(k, n) =>
                           /\ \A t \in Threads : thread[t].number # n
                           /\ \A g \in Handlers : FirstOf(g, n) => g = k BY <1>1, <2>1 DEF OneThread
  <2> QED BY <2>2, <2>4, <2>5, <2>6
<1>8. InSight' BY <1>1, <1>2 DEF InSight
<1>9. NotesKept'
  <2>1. NotesSurvive' BY <1>1 DEF NotesKept, NotesSurvive
  <2>2. ASSUME NEW c \in Calls \ overlaid', NEW k \in Handlers, Adds(k, c)'
        PROVE  bubble[c].notes \subseteq handler'[k].notes /\ \A g \in Handlers : Adds(g, c)' => g = k
    <3>1. \A g \in Handlers : g # h => (Adds(g, c)' <=> Adds(g, c)) BY <1>2 DEF Adds
    <3>2. Adds(h, c)' => task.at = "append" /\ task.event = c BY <1>2 DEF Adds
    <3>3. Adds(h, c)' => \A g \in Handlers : ~Adds(g, c) BY <3>2, <2>2
    <3>4. \A m \in Handlers : Adds(m, c) =>
            bubble[c].notes \subseteq handler[m].notes /\ \A g \in Handlers : Adds(g, c) => g = m
      BY <1>1, <2>2 DEF NotesKept
    <3> QED BY <1>2, <2>2, <3>1, <3>2, <3>3, <3>4
  <2> QED BY <2>1, <2>2 DEF NotesKept
<1> QED BY <1>3, <1>4, <1>5, <1>6, <1>7, <1>8, <1>9 DEF TextInv

LEMMA ReceiveKeeps == ASSUME TextInv, NEW h \in Handlers, NEW e \in Events, Receive(h, e) PROVE TextInv'
<1>1. /\ TextTypeOK /\ From[e] \in Numbers BY TextThreadsAssumption DEF TextInv, Events
<1> PICK n \in Numbers : n = From[e] BY <1>1
<1> PICK t : t = MatchInquiry(n) OBVIOUS
<1>2. \/ t \in Threads /\ thread[t].number = n
      \/ t = NoThread /\ \A u \in Threads : thread[u].number # n BY Matched
<1> PICK at : at = IF t = NoThread THEN "create" ELSE IF Archived(t) THEN "reopen" ELSE "insert" OBVIOUS
<1> PICK task : task = [FreeHandler EXCEPT !.event = e, !.thread = t, !.at = at] OBVIOUS
<1>3. /\ handler' = [handler EXCEPT ![h] = task]
      /\ crossed' = IF t = NoThread /\ Creating(n) THEN crossed \cup {n} ELSE crossed
      /\ UNCHANGED <<thread, bubble, shelved, sent, overlaid>> BY DEF Receive, Handles
<1>4. /\ at \in {"create", "reopen", "insert"} /\ (at = "create" <=> t = NoThread)
      /\ (at = "insert" => ~thread[t].dismissed) BY <1>2, TextThreadsAssumption DEF Archived
<1>5. task.event = e /\ task.thread = t /\ task.at = at /\ task \in HandlerRows
  BY <1>2, <1>4, FreeTextRows DEF FreeHandler, HandlerRows
<1>6. at = "create" /\ (\E g \in Handlers : FirstOf(g, n)) => n \in crossed' BY <1>3, <1>4 DEF Creating, FirstOf
<1>7. crossed \subseteq crossed' /\ crossed' \subseteq Numbers BY <1>1, <1>3 DEF TextTypeOK
<1>8. overlaid \subseteq overlaid' /\ overlaid' \subseteq Calls BY <1>1, <1>3 DEF TextTypeOK
<1>9. UNCHANGED <<thread, bubble, shelved, sent>> BY <1>3
<1> QED BY <1>2, <1>3, <1>4, <1>5, <1>6, <1>7, <1>8, <1>9, TaskTaken, TextThreadsAssumption

LEMMA EnrichKeeps ==
  ASSUME TextInv, NEW h \in Handlers, NEW c \in Calls, NEW note \in Notes, EnrichCall(h, c, note)
  PROVE  TextInv'
<1>1. TextTypeOK BY DEF TextInv
<1>2. c \in Events /\ bubble[c] \in BubbleRows BY <1>1, TextTyped DEF Events
<1> PICK task : task = [FreeHandler EXCEPT !.at = "append", !.event = c, !.notes = bubble[c].notes \cup {note}] OBVIOUS
<1>3. /\ handler' = [handler EXCEPT ![h] = task] /\ bubble[c] # NoBubble
      /\ overlaid' = IF Enriching(c) THEN overlaid \cup {c} ELSE overlaid
      /\ UNCHANGED <<thread, bubble, shelved, sent, crossed>> BY DEF EnrichCall, Handles
<1>5. task.event = c /\ task.at = "append" /\ task \in HandlerRows /\ bubble[c].notes \subseteq task.notes
  BY <1>2, FreeTextRows DEF FreeHandler, HandlerRows, BubbleRows
<1>6. (\E g \in Handlers : Adds(g, c)) => c \in overlaid' BY <1>3 DEF Enriching, Adds
<1>7. crossed \subseteq crossed' /\ crossed' \subseteq Numbers BY <1>1, <1>3 DEF TextTypeOK
<1>8. overlaid \subseteq overlaid' /\ overlaid' \subseteq Calls BY <1>1, <1>3 DEF TextTypeOK
<1>9. UNCHANGED <<thread, bubble, shelved, sent>> BY <1>3
<1> QED BY <1>2, <1>3, <1>5, <1>6, <1>7, <1>8, <1>9, TaskTaken

LEMMA FailsKeeps == ASSUME TextInv, NEW h \in Handlers, HandlerFails(h) PROVE TextInv'
<1>1. TextTypeOK BY DEF TextInv
<1>2. /\ handler' = [handler EXCEPT ![h] = FreeHandler] /\ UNCHANGED <<thread, bubble, shelved, sent>>
      /\ crossed' = crossed /\ overlaid' = overlaid BY DEF HandlerFails, Answers, Handles
<1>3. crossed \subseteq crossed' /\ crossed' \subseteq Numbers /\ overlaid \subseteq overlaid' /\ overlaid' \subseteq Calls
  BY <1>1, <1>2 DEF TextTypeOK
<1> QED BY <1>2, <1>3, FreeTextRows, TaskTaken

LEMMA ReopenKeeps == ASSUME TextInv, NEW h \in Handlers, ReopenThread(h) PROVE TextInv'
<1>1. /\ TextTypeOK /\ ThreadsGiven /\ HandlersAreWhole /\ BubblesHang /\ OneThread /\ InSight /\ NotesKept
  BY DEF TextInv
<1> PICK t : t = handler[h].thread OBVIOUS
<1> PICK e : e = handler[h].event OBVIOUS
<1>2. /\ handler[h].at = "reopen" /\ thread' = [thread EXCEPT ![t].dismissed = FALSE]
      /\ handler' = [handler EXCEPT ![h].at = "insert"]
      /\ UNCHANGED <<bubble, crossed, shelved, sent, overlaid>> BY DEF ReopenThread
<1>3. t \in Threads /\ thread[t].number = From[e] /\ e \in Events BY <1>1, <1>2 DEF HandlersAreWhole
<1>4. /\ thread' \in [Threads -> ThreadRows] /\ \A u \in Threads : thread'[u].number = thread[u].number
      /\ \A u \in Threads : ~thread[u].dismissed => ~thread'[u].dismissed
      /\ ~thread'[t].dismissed BY <1>1, <1>2, <1>3, TextTyped DEF ThreadRows
<1>5. /\ handler' \in [Handlers -> HandlerRows] /\ handler'[h].at = "insert"
      /\ handler'[h].event = e /\ handler'[h].thread = t
      /\ \A g \in Handlers : g # h => handler'[g] = handler[g] BY <1>1, <1>2, TextTyped DEF HandlerRows
<1>6. TextTypeOK' BY <1>1, <1>2, <1>4, <1>5 DEF TextTypeOK, HandlerRows, ThreadRows
<1>7. ThreadsGiven' BY <1>1, <1>4 DEF ThreadsGiven
<1>8. HandlersAreWhole' BY <1>1, <1>2, <1>3, <1>4, <1>5 DEF HandlersAreWhole
<1>9. BubblesHang' BY <1>1, <1>2, <1>4 DEF BubblesHang
<1>10. \A g \in Handlers, n \in Numbers : FirstOf(g, n)' => FirstOf(g, n) BY <1>5 DEF FirstOf
<1>11. OneThread' BY <1>1, <1>2, <1>4, <1>10 DEF OneThread
<1>12. InSight'
  <2> SUFFICES ASSUME NEW d \in Events \ shelved
               PROVE  /\ bubble'[d] # NoBubble => ~thread'[bubble'[d].thread].dismissed
                      /\ \A g \in Handlers : handler'[g].at = "insert" /\ handler'[g].event = d
                           => ~thread'[handler'[g].thread].dismissed BY <1>2 DEF InSight
  <2>1. bubble'[d] # NoBubble => ~thread'[bubble'[d].thread].dismissed BY <1>1, <1>2, <1>4 DEF InSight, BubblesHang
  <2>2. ASSUME NEW g \in Handlers, handler'[g].at = "insert", handler'[g].event = d
        PROVE  ~thread'[handler'[g].thread].dismissed BY <1>1, <1>4, <1>5, <2>2 DEF InSight, HandlersAreWhole
  <2> QED BY <2>1, <2>2
<1>13. NotesKept'
  <2>1. \A g \in Handlers, c \in Calls : (Adds(g, c)' => Adds(g, c)) /\ (Adds(g, c)' => handler'[g] = handler[g])
    BY <1>5 DEF Adds
  <2> QED BY <1>1, <1>2, <2>1 DEF NotesKept, NotesSurvive
<1> QED BY <1>6, <1>7, <1>8, <1>9, <1>11, <1>12, <1>13 DEF TextInv

LEMMA CreateThreadKeeps == ASSUME TextInv, NEW h \in Handlers, CreateThread(h) PROVE TextInv'
<1>1. /\ TextTypeOK /\ ThreadsGiven /\ HandlersAreWhole /\ BubblesHang /\ OneThread /\ InSight /\ NotesKept
  BY DEF TextInv
<1> PICK e : e = handler[h].event OBVIOUS
<1> PICK n : n = From[e] OBVIOUS
<1>2. PICK t \in Threads :
        /\ thread[t].number = NoNumber
        /\ thread' = [thread EXCEPT ![t].number = n]
        /\ handler' = [handler EXCEPT ![h].at = "insert", ![h].thread = t] BY DEF CreateThread
<1>3. handler[h].at = "create" /\ UNCHANGED <<bubble, crossed, shelved, sent, overlaid>> BY DEF CreateThread
<1>4. e \in Events /\ n \in Numbers /\ n # NoNumber BY <1>1, <1>3, TextThreadsAssumption DEF HandlersAreWhole, Events
<1>5. /\ thread' \in [Threads -> ThreadRows] /\ thread'[t].number = n
      /\ \A u \in Threads : thread'[u].dismissed = thread[u].dismissed
      /\ \A u \in Threads : u # t => thread'[u] = thread[u] BY <1>1, <1>2, <1>4, TextTyped DEF ThreadRows
<1>6. /\ handler' \in [Handlers -> HandlerRows] /\ handler'[h].at = "insert"
      /\ handler'[h].event = e /\ handler'[h].thread = t
      /\ \A g \in Handlers : g # h => handler'[g] = handler[g] BY <1>1, <1>2, TextTyped DEF HandlerRows
<1>7. TextTypeOK' BY <1>1, <1>3, <1>5, <1>6 DEF TextTypeOK, HandlerRows, ThreadRows
<1>8. ThreadsGiven'
  <2>1. PICK k \in Nat : \A u \in Threads : thread[u].number # NoNumber => u <= k BY <1>1 DEF ThreadsGiven
  <2>2. t \in Nat /\ Threads \subseteq Nat BY TextThreadsAssumption
  <2>3. PICK m \in Nat : k <= m /\ t <= m BY <2>1, <2>2
  <2>4. \A u \in Threads : thread'[u].number # NoNumber => u <= m BY <1>5, <2>1, <2>2, <2>3
  <2> QED BY <1>1, <1>5, <1>4, <2>4 DEF ThreadsGiven
<1>9. HandlersAreWhole'
  <2>1. \A u \in Threads : thread[u].number # NoNumber => thread'[u] = thread[u] BY <1>2, <1>5
  <2>2. \A d \in Events : From[d] # NoNumber BY TextThreadsAssumption DEF Events
  <2> QED BY <1>1, <1>3, <1>4, <1>5, <1>6, <2>1, <2>2 DEF HandlersAreWhole
<1>10. BubblesHang'
  <2>1. \A u \in Threads : thread[u].number # NoNumber => thread'[u] = thread[u] BY <1>2, <1>5
  <2>2. \A d \in Events : From[d] # NoNumber BY TextThreadsAssumption DEF Events
  <2> QED BY <1>1, <1>3, <2>1, <2>2 DEF BubblesHang
<1>11. \A g \in Handlers, m \in Numbers : (FirstOf(g, m)' => FirstOf(g, m) /\ g # h) BY <1>6 DEF FirstOf
<1>12. FirstOf(h, n) BY <1>3 DEF FirstOf
<1>13. OneThread'
  <2> SUFFICES ASSUME NEW m \in Numbers \ crossed'
               PROVE  /\ \A v, u \in Threads : thread'[v].number = m /\ thread'[u].number = m => v = u
                      /\ \A k \in Handlers : FirstOf(k, m)' =>
                           /\ \A u \in Threads : thread'[u].number # m
                           /\ \A g \in Handlers : FirstOf(g, m)' => g = k BY DEF OneThread
  <2>1. /\ \A v, u \in Threads : thread[v].number = m /\ thread[u].number = m => v = u
        /\ \A k \in Handlers : FirstOf(k, m) =>
                           /\ \A u \in Threads : thread[u].number # m
                           /\ \A g \in Handlers : FirstOf(g, m) => g = k BY <1>1, <1>3 DEF OneThread
  <2>2. CASE m = n
    <3>1. \A u \in Threads : thread[u].number # n BY <1>12, <2>1, <2>2
    <3>2. \A k \in Handlers : ~FirstOf(k, m)' BY <1>11, <1>12, <2>1, <2>2
    <3> QED BY <1>5, <2>2, <3>1, <3>2
  <2>3. CASE m # n
    <3>1. \A u \in Threads : thread'[u].number = m => thread[u].number = m BY <1>5, <2>3
    <3> QED BY <1>11, <2>1, <3>1
  <2> QED BY <2>2, <2>3
<1>14. ~thread[t].dismissed BY <1>1, <1>2 DEF ThreadsGiven
<1>15. InSight'
  <2>1. ASSUME NEW g \in Handlers, NEW d \in Events \ shelved, handler'[g].at = "insert", handler'[g].event = d
        PROVE  ~thread'[handler'[g].thread].dismissed BY <1>1, <1>5, <1>6, <1>14, <2>1 DEF InSight, HandlersAreWhole
  <2>2. \A d \in Events \ shelved : bubble[d] # NoBubble => ~thread'[bubble[d].thread].dismissed
    BY <1>1, <1>5 DEF InSight, BubblesHang
  <2> QED BY <1>3, <2>1, <2>2 DEF InSight
<1>16. NotesKept'
  <2>1. \A g \in Handlers, c \in Calls : (Adds(g, c)' => Adds(g, c)) /\ (Adds(g, c)' => handler'[g] = handler[g])
    BY <1>6 DEF Adds
  <2> QED BY <1>1, <1>3, <2>1 DEF NotesKept, NotesSurvive
<1> QED BY <1>7, <1>8, <1>9, <1>10, <1>13, <1>15, <1>16 DEF TextInv

LEMMA InsertKeeps == ASSUME TextInv, NEW h \in Handlers, InsertMessage(h) PROVE TextInv'
<1>1. /\ TextTypeOK /\ ThreadsGiven /\ HandlersAreWhole /\ BubblesHang /\ OneThread /\ InSight /\ NotesKept
  BY DEF TextInv
<1> PICK e : e = handler[h].event OBVIOUS
<1> PICK t : t = handler[h].thread OBVIOUS
<1>2. /\ handler[h].at = "insert"
      /\ bubble' = IF bubble[e] = NoBubble THEN [bubble EXCEPT ![e].thread = t] ELSE bubble
      /\ handler' = [handler EXCEPT ![h] = FreeHandler]
      /\ UNCHANGED <<thread, crossed, shelved, sent, overlaid>> BY DEF InsertMessage, Answers, Handles
<1>3. e \in Events /\ t \in Threads /\ thread[t].number = From[e] /\ t # NoThread
  BY <1>1, <1>2, TextThreadsAssumption DEF HandlersAreWhole
<1>4. /\ bubble' \in [Events -> BubbleRows] /\ \A d \in Events : bubble'[d].notes = bubble[d].notes
      /\ \A d \in Events : bubble[d] # NoBubble => bubble'[d] = bubble[d]
      /\ \A d \in Events : d # e => bubble'[d] = bubble[d]
      /\ bubble'[e] = bubble[e] \/ bubble'[e].thread = t
      /\ bubble'[e] # NoBubble BY <1>1, <1>2, <1>3, TextTyped, FreeTextRows DEF BubbleRows
<1>5. /\ handler' \in [Handlers -> HandlerRows] /\ handler'[h] = FreeHandler
      /\ \A g \in Handlers : g # h => handler'[g] = handler[g] BY <1>1, <1>2, TextTyped, FreeTextRows
<1>6. TextTypeOK' BY <1>1, <1>2, <1>4, <1>5 DEF TextTypeOK, HandlerRows, BubbleRows
<1>7. ThreadsGiven' BY <1>1, <1>2 DEF ThreadsGiven
<1>8. HandlersAreWhole'
  <2>1. \A d \in Events : bubble[d] # NoBubble => bubble'[d] # NoBubble BY <1>4
  <2>2. Calls \subseteq Events BY DEF Events
  <2> QED BY <1>1, <1>2, <1>5, <2>1, <2>2, FreeTextRows DEF HandlersAreWhole
<1>9. BubblesHang' BY <1>1, <1>2, <1>3, <1>4 DEF BubblesHang
<1>10. \A g \in Handlers, n \in Numbers : FirstOf(g, n)' => FirstOf(g, n) BY <1>5, FreeTextRows DEF FirstOf
<1>11. OneThread' BY <1>1, <1>2, <1>10 DEF OneThread
<1>12. InSight' BY <1>1, <1>2, <1>3, <1>4, <1>5, FreeTextRows DEF InSight
<1>13. NotesKept'
  <2>1. \A g \in Handlers, c \in Calls : (Adds(g, c)' => Adds(g, c)) /\ (Adds(g, c)' => handler'[g] = handler[g])
    BY <1>5, FreeTextRows DEF Adds
  <2>2. Calls \subseteq Events /\ \A pair \in sent : pair[1] \in Events BY <1>1 DEF Events, TextTypeOK
  <2>3. NotesSurvive' BY <1>1, <1>2, <1>4, <2>2 DEF NotesKept, NotesSurvive
  <2> QED BY <1>1, <1>2, <1>4, <2>1, <2>2, <2>3 DEF NotesKept
<1> QED BY <1>6, <1>7, <1>8, <1>9, <1>11, <1>12, <1>13 DEF TextInv

LEMMA AppendKeeps == ASSUME TextInv, NEW h \in Handlers, AppendNote(h) PROVE TextInv'
<1>1. /\ TextTypeOK /\ ThreadsGiven /\ HandlersAreWhole /\ BubblesHang /\ OneThread /\ InSight /\ NotesKept
  BY DEF TextInv
<1> PICK c : c = handler[h].event OBVIOUS
<1> PICK N : N = handler[h].notes OBVIOUS
<1>2. /\ handler[h].at = "append"
      /\ bubble' = [bubble EXCEPT ![c].notes = N] /\ sent' = sent \cup ({c} \X N)
      /\ handler' = [handler EXCEPT ![h] = FreeHandler]
      /\ UNCHANGED <<thread, crossed, shelved, overlaid>> BY DEF AppendNote, Answers, Handles
<1>3. c \in Calls /\ c \in Events /\ bubble[c] # NoBubble /\ N \subseteq Notes
  BY <1>1, <1>2, TextTyped DEF HandlersAreWhole, Events, HandlerRows
<1>4. /\ bubble' \in [Events -> BubbleRows] /\ \A d \in Events : bubble'[d].thread = bubble[d].thread
      /\ \A d \in Events : d # c => bubble'[d] = bubble[d]
      /\ bubble'[c].notes = N BY <1>1, <1>2, <1>3, TextTyped DEF BubbleRows
<1>5. /\ handler' \in [Handlers -> HandlerRows] /\ handler'[h] = FreeHandler
      /\ \A g \in Handlers : g # h => handler'[g] = handler[g] BY <1>1, <1>2, TextTyped, FreeTextRows
<1>0. \A d \in Events : bubble[d] # NoBubble <=> bubble'[d] # NoBubble
  <2>1. bubble[c].thread \in Threads BY <1>1, <1>3 DEF BubblesHang
  <2>2. bubble'[c] # NoBubble BY <1>3, <1>4, <2>1, FreeTextRows, TextThreadsAssumption
  <2> QED BY <1>3, <1>4, <2>2
<1>6. TextTypeOK' BY <1>1, <1>2, <1>3, <1>4, <1>5 DEF TextTypeOK, HandlerRows, BubbleRows
<1>7. ThreadsGiven' BY <1>1, <1>2 DEF ThreadsGiven
<1>8. HandlersAreWhole' BY <1>0, <1>1, <1>2, <1>5, FreeTextRows DEF HandlersAreWhole, Events
<1>9. BubblesHang' BY <1>0, <1>1, <1>2, <1>4 DEF BubblesHang
<1>10. \A g \in Handlers, n \in Numbers : FirstOf(g, n)' => FirstOf(g, n) BY <1>5, FreeTextRows DEF FirstOf
<1>11. OneThread' BY <1>1, <1>2, <1>10 DEF OneThread
<1>12. InSight' BY <1>0, <1>1, <1>2, <1>4, <1>5, FreeTextRows DEF InSight
<1>13. NotesKept'
  <2>1. \A g \in Handlers, d \in Calls :
          (Adds(g, d)' => Adds(g, d) /\ g # h) /\ (Adds(g, d)' => handler'[g] = handler[g])
    BY <1>5, FreeTextRows DEF Adds
  <2>2. Adds(h, c) BY <1>2 DEF Adds
  <2>3. c \notin overlaid => bubble[c].notes \subseteq N /\ \A g \in Handlers : Adds(g, c) => g = h
    BY <1>1, <1>3, <2>2 DEF NotesKept
  <2>4. NotesSurvive'
    <3> SUFFICES ASSUME NEW pair \in sent' PROVE pair[2] \in bubble'[pair[1]].notes \/ pair[1] \in overlaid
      BY <1>2 DEF NotesSurvive
    <3>1. CASE pair \in {c} \X N BY <1>4, <3>1
    <3>2. CASE pair \in sent
      <4>1. pair[1] \in Events /\ (pair[2] \in bubble[pair[1]].notes \/ pair[1] \in overlaid)
        BY <1>1, <3>2 DEF NotesKept, NotesSurvive, TextTypeOK, Events
      <4> QED BY <1>4, <2>3, <4>1
    <3> QED BY <1>2, <3>1, <3>2
  <2>5. ASSUME NEW d \in Calls \ overlaid, NEW g \in Handlers, Adds(g, d)'
        PROVE  bubble'[d].notes \subseteq handler'[g].notes /\ \A k \in Handlers : Adds(k, d)' => k = g
    <3>1. Adds(g, d) /\ g # h /\ handler'[g] = handler[g] BY <2>1, <2>5
    <3>2. d # c BY <2>3, <3>1, <2>5
    <3>3. bubble[d].notes \subseteq handler[g].notes /\ \A k \in Handlers : Adds(k, d) => k = g
      BY <1>1, <3>1 DEF NotesKept
    <3>4. bubble'[d] = bubble[d] BY <1>4, <3>2 DEF Events
    <3> QED BY <2>1, <3>1, <3>3, <3>4
  <2> QED BY <1>2, <2>4, <2>5 DEF NotesKept
<1> QED BY <1>6, <1>7, <1>8, <1>9, <1>11, <1>12, <1>13 DEF TextInv

\* The studio's triage of the threads.
LEMMA ShelveKeeps == ASSUME TextInv, NEW t \in Threads, Dismiss(t) \/ Undismiss(t) PROVE TextInv'
<1>1. /\ TextTypeOK /\ ThreadsGiven /\ HandlersAreWhole /\ BubblesHang /\ OneThread /\ InSight /\ NotesKept
  BY DEF TextInv
<1>2. /\ thread' \in [Threads -> ThreadRows] /\ \A u \in Threads : thread'[u].number = thread[u].number
      /\ \A u \in Threads : u # t => thread'[u] = thread[u]
      /\ UNCHANGED <<bubble, handler, crossed, sent, overlaid>>
      /\ shelved \subseteq shelved' /\ shelved' \subseteq Events
      /\ thread'[t].dismissed => thread[t].number # NoNumber /\ OnThread(t) \subseteq shelved'
  <2>1. CASE Dismiss(t)
    <3>1. /\ thread[t].number # NoNumber /\ thread' = [thread EXCEPT ![t].dismissed = TRUE]
          /\ shelved' = shelved \cup OnThread(t) /\ UNCHANGED <<bubble, handler, crossed, sent, overlaid>>
      BY <2>1 DEF Dismiss
    <3>2. OnThread(t) \subseteq Events BY DEF OnThread
    <3> HIDE DEF OnThread
    <3>3. thread' \in [Threads -> ThreadRows] /\ \A u \in Threads : thread'[u].number = thread[u].number
      BY <1>1, <3>1, TextTyped DEF ThreadRows
    <3>4. \A u \in Threads : u # t => thread'[u] = thread[u] BY <1>1, <3>1, TextTyped
    <3>5. shelved \subseteq shelved' /\ shelved' \subseteq Events /\ OnThread(t) \subseteq shelved'
      <4>1. shelved \subseteq Events BY <1>1 DEF TextTypeOK
      <4> PICK O : O = OnThread(t) OBVIOUS
      <4>2. shelved' = shelved \cup O /\ O \subseteq Events BY <3>1, <3>2
      <4> QED BY <4>1, <4>2
    <3> QED BY <3>1, <3>3, <3>4, <3>5
  <2>2. CASE Undismiss(t)
    <3>1. /\ thread' = [thread EXCEPT ![t].dismissed = FALSE]
          /\ UNCHANGED <<bubble, handler, crossed, shelved, sent, overlaid>> BY <2>2 DEF Undismiss
    <3> QED BY <1>1, <3>1, TextTyped DEF ThreadRows, TextTypeOK
  <2> QED BY <2>1, <2>2
<1>3. TextTypeOK' BY <1>1, <1>2 DEF TextTypeOK, ThreadRows
<1>4. ThreadsGiven' BY <1>1, <1>2 DEF ThreadsGiven
<1>5. HandlersAreWhole' BY <1>1, <1>2 DEF HandlersAreWhole
<1>6. BubblesHang' BY <1>1, <1>2 DEF BubblesHang
<1>7. OneThread' BY <1>1, <1>2 DEF OneThread, FirstOf
<1>8. InSight'
  <2> SUFFICES ASSUME NEW e \in Events \ shelved'
               PROVE  /\ bubble[e] # NoBubble => ~thread'[bubble[e].thread].dismissed
                      /\ \A h \in Handlers : handler[h].at = "insert" /\ handler[h].event = e
                           => ~thread'[handler[h].thread].dismissed BY <1>2 DEF InSight
  <2>1. /\ bubble[e] # NoBubble => ~thread[bubble[e].thread].dismissed /\ bubble[e].thread \in Threads
        /\ \A h \in Handlers : handler[h].at = "insert" /\ handler[h].event = e
             => ~thread[handler[h].thread].dismissed /\ handler[h].thread \in Threads
    BY <1>1, <1>2 DEF InSight, BubblesHang, HandlersAreWhole
  <2>2. thread'[t].dismissed => bubble[e].thread # t /\ \A h \in Handlers : handler[h].event = e => handler[h].thread # t
    BY <1>2 DEF OnThread
  <2> QED BY <1>2, <2>1, <2>2
<1>9. NotesKept' BY <1>1, <1>2 DEF NotesKept, NotesSurvive, Adds
<1> QED BY <1>3, <1>4, <1>5, <1>6, <1>7, <1>8, <1>9 DEF TextInv

LEMMA TextStep == ASSUME TextInv, TextNext PROVE TextInv'
<1>1. ASSUME NEW h \in Handlers, NEW e \in Events, Receive(h, e) PROVE TextInv' BY <1>1, ReceiveKeeps
<1>2. ASSUME NEW h \in Handlers, CreateThread(h) PROVE TextInv' BY <1>2, CreateThreadKeeps
<1>3. ASSUME NEW h \in Handlers, ReopenThread(h) PROVE TextInv' BY <1>3, ReopenKeeps
<1>4. ASSUME NEW h \in Handlers, InsertMessage(h) PROVE TextInv' BY <1>4, InsertKeeps
<1>5. ASSUME NEW h \in Handlers, AppendNote(h) PROVE TextInv' BY <1>5, AppendKeeps
<1>6. ASSUME NEW h \in Handlers, HandlerFails(h) PROVE TextInv' BY <1>6, FailsKeeps
<1>7. ASSUME NEW h \in Handlers, NEW c \in Calls, NEW note \in Notes, EnrichCall(h, c, note) PROVE TextInv'
  BY <1>7, EnrichKeeps
<1>8. ASSUME NEW t \in Threads, Dismiss(t) \/ Undismiss(t) PROVE TextInv' BY <1>8, ShelveKeeps
<1> QED BY <1>1, <1>2, <1>3, <1>4, <1>5, <1>6, <1>7, <1>8 DEF TextNext

LEMMA TextRests == ASSUME TextInv, UNCHANGED textVars PROVE TextInv'
BY DEF textVars, TextInv, TextTypeOK, ThreadsGiven, HandlersAreWhole, BubblesHang, OneThread, InSight, NotesKept,
   NotesSurvive, FirstOf, Adds

LEMMA TextMeans == ASSUME TextInv PROVE OneThreadPerNumber /\ NothingNewArchived /\ NotesSurvive
BY DEF TextInv, OneThread, BubblesHang, InSight, NotesKept, OneThreadPerNumber, NothingNewArchived
(* IntakeForms: the orders of the fields, and the answers under them.      *)

Labels    == Questions \cup {NoQuestion}
FormIdRows  == [which : 0..MaxForms, kind : {"lead", "questionnaire"}, active : BOOLEAN]
FieldRows == [label : Labels, order : 0..MaxOrder]
BuildRows == [at : {"idle", "insert", "first", "second"}, field : FieldIds \cup {0}, order : Nat,
              other : FieldIds \cup {0}, otherOrder : Nat]
VisitRows == [at : {"away", "page", "loaded", "judged", "lead", "done", "cut"}, which : 0..MaxForms,
              kind : {"lead", "questionnaire"}, shown : [FieldIds -> Labels]]
AnswerRows == [visit : FormVisitors, under : 1..MaxForms, answers : [FieldIds -> Labels]]

TablesTyped ==
  /\ form \in FormIdRows /\ field \in [FieldIds -> FieldRows] /\ stored \subseteq AnswerRows
  /\ inquiries \subseteq FormVisitors /\ forms \in 0..MaxForms /\ renamed \subseteq FieldIds /\ overlapped \in BOOLEAN
MovesTyped == \A b \in FormEditors : builder[b].at \in {"first", "second"} =>
                 builder[b].order \in 0..MaxOrder /\ builder[b].otherOrder \in 0..MaxOrder
RequestsTyped == builder \in [FormEditors -> BuildRows] /\ visitor \in [FormVisitors -> VisitRows] /\ MovesTyped

FormIsKept ==
  /\ form.which <= forms /\ (form.which = 0 <=> form = NoFormRow)
  /\ form.active => form.which # 0
  /\ form.which = 0 => stored = {}
  /\ \A s \in stored : s.under = form.which
  /\ \A k \in FieldIds : field[k].label = NoQuestion => field[k] = NoField
VisitsAreKept ==
  /\ \A v \in FormVisitors :
       /\ visitor[v].at # "away" => visitor[v].which \in 1..forms
       /\ visitor[v].at \in {"away", "page", "loaded", "judged"} => v \notin inquiries
       /\ visitor[v].at = "lead" => v \in inquiries /\ visitor[v].kind = "lead"
  /\ SentIsStored
PagesKeepTheirQuestion ==
  \A v \in FormVisitors, k \in FieldIds :
    (visitor[v].at # "away" /\ k \in FieldsThere /\ visitor[v].shown[k] # NoQuestion /\ k \notin renamed)
      => field[k].label = visitor[v].shown[k]

\* Without an overlap one request at a time is on its way, and what it read holds.
OrdersApart(K) == \A i, j \in K : i # j => field[i].order # field[j].order
AddIsWhole(r) == \A i \in FieldsThere : field[i].order < r.order
MoveIsWhole(r) ==
  /\ r.order # r.otherOrder /\ r.field # r.other
  /\ \A i \in FieldsThere : /\ i # r.field => field[i].order # r.order
                            /\ i # r.other => field[i].order # r.otherOrder
HalfIsWhole(r) == \A i \in FieldsThere \ {r.other} : field[i].order # r.order
BuildersAreWhole == ~overlapped =>
  /\ \A b, c \in FormEditors : builder[b].at # "idle" /\ builder[c].at # "idle" => b = c
  /\ \A b \in FormEditors : /\ builder[b].at = "insert" => AddIsWhole(builder[b])
                            /\ builder[b].at = "first" => MoveIsWhole(builder[b])
                            /\ builder[b].at = "second" => /\ HalfIsWhole(builder[b])
                                                           /\ OrdersApart(FieldsThere \ {builder[b].other})
  /\ (\A b \in FormEditors : builder[b].at # "second") => OrdersApart(FieldsThere)

FormsInv ==
  /\ TablesTyped /\ RequestsTyped
  /\ FormIsKept /\ VisitsAreKept /\ AnswersKeepTheirQuestion /\ PagesKeepTheirQuestion /\ BuildersAreWhole

LEMMA FreeFormRows ==
  /\ NoFormRow \in FormIdRows /\ NoField \in FieldRows /\ NotBuilding \in BuildRows /\ Elsewhere \in VisitRows
  /\ NoFormRow.which = 0 /\ NoFormRow.active = FALSE /\ NoField.label = NoQuestion
  /\ NotBuilding.at = "idle" /\ Elsewhere.at = "away"
BY FormsAssumption DEF NoFormRow, NoField, NotBuilding, Elsewhere, FormIdRows, FieldRows, BuildRows, VisitRows, Labels

LEMMA FormsInitially == ASSUME FormsInit PROVE FormsInv
<1>1. /\ form = NoFormRow /\ field = [k \in FieldIds |-> NoField]
      /\ builder = [b \in FormEditors |-> NotBuilding] /\ visitor = [v \in FormVisitors |-> Elsewhere]
      /\ stored = {} /\ inquiries = {} /\ forms = 0 /\ renamed = {} /\ overlapped = FALSE BY DEF FormsInit
<1>2. 0 \in 0..MaxForms BY FormsAssumption
<1>3. TablesTyped /\ RequestsTyped BY <1>1, <1>2, FreeFormRows DEF TablesTyped, RequestsTyped, MovesTyped
<1>4. FieldsThere = {} BY <1>1 DEF FieldsThere
<1>5. FormIsKept BY <1>1, FreeFormRows DEF FormIsKept
<1>6. VisitsAreKept BY <1>1, FreeFormRows DEF VisitsAreKept, SentIsStored
<1>7. AnswersKeepTheirQuestion /\ PagesKeepTheirQuestion BY <1>1, <1>4 DEF AnswersKeepTheirQuestion, PagesKeepTheirQuestion
<1>8. BuildersAreWhole BY <1>1, <1>4, FreeFormRows DEF BuildersAreWhole, OrdersApart
<1> QED BY <1>3, <1>5, <1>6, <1>7, <1>8 DEF FormsInv

(* What a step leaves alone *)

\* Rows that go, or change their labels alone, leave the requests what they read.
LEMMA FewerFields ==
  ASSUME FormsInv, UNCHANGED <<builder, overlapped>>,
         \A k \in FieldIds : field'[k] # NoField => field[k] # NoField /\ field'[k].order = field[k].order
  PROVE  BuildersAreWhole'
<1>1. BuildersAreWhole BY DEF FormsInv
<1>2. FieldsThere' \subseteq FieldsThere /\ FieldsThere \subseteq FieldIds /\ \A k \in FieldsThere' : field'[k].order = field[k].order
  BY DEF FieldsThere
<1>3. ASSUME NEW r PROVE /\ AddIsWhole(r) => AddIsWhole(r)'
                         /\ MoveIsWhole(r) => MoveIsWhole(r)'
                         /\ HalfIsWhole(r) => HalfIsWhole(r)'
                         /\ OrdersApart(FieldsThere \ {r.other}) => OrdersApart(FieldsThere \ {r.other})'
  BY <1>2 DEF AddIsWhole, MoveIsWhole, HalfIsWhole, OrdersApart
<1>4. OrdersApart(FieldsThere) => OrdersApart(FieldsThere)' BY <1>2 DEF OrdersApart
<1>5. \A b \in FormEditors : /\ AddIsWhole(builder[b]) => AddIsWhole(builder[b])'
                             /\ MoveIsWhole(builder[b]) => MoveIsWhole(builder[b])'
                             /\ HalfIsWhole(builder[b]) => HalfIsWhole(builder[b])'
                             /\ OrdersApart(FieldsThere \ {builder[b].other}) => OrdersApart(FieldsThere \ {builder[b].other})'
  BY <1>3
<1> QED BY <1>1, <1>4, <1>5 DEF BuildersAreWhole

\* A label that an answer or a page knew is called renamed when it changes.
LEMMA KnownLabels ==
  ASSUME FormsInv, UNCHANGED visitor, stored' \subseteq stored, renamed \subseteq renamed',
         \A k \in FieldIds : field'[k] # NoField =>
           \/ field[k] # NoField /\ field'[k].label = field[k].label
           \/ k \notin Known \/ k \in renamed'
  PROVE  AnswersKeepTheirQuestion' /\ PagesKeepTheirQuestion'
<1>1. AnswersKeepTheirQuestion /\ PagesKeepTheirQuestion BY DEF FormsInv
<1>2. \A k \in FieldIds : (k \in FieldsThere <=> field[k] # NoField) /\ ((k \in FieldsThere)' <=> field'[k] # NoField)
  BY DEF FieldsThere
<1>3. /\ \A k \in FieldIds, s \in stored : s.answers[k] # NoQuestion => k \in Known
      /\ \A k \in FieldIds, v \in FormVisitors : visitor[v].at # "away" /\ visitor[v].shown[k] # NoQuestion => k \in Known
  BY DEF Known
<1>4. AnswersKeepTheirQuestion' BY <1>1, <1>2, <1>3 DEF AnswersKeepTheirQuestion
<1>5. PagesKeepTheirQuestion' BY <1>1, <1>2, <1>3 DEF PagesKeepTheirQuestion
<1> QED BY <1>4, <1>5

LEMMA TablesRest ==
  ASSUME FormsInv, UNCHANGED <<tables, forms, renamed>>, overlapped' \in BOOLEAN
  PROVE  TablesTyped' /\ FormIsKept' /\ FieldsThere' = FieldsThere
BY DEF FormsInv, TablesTyped, FormIsKept, FieldsThere, tables

LEMMA VisitsRest ==
  ASSUME FormsInv, UNCHANGED <<visitor, form, inquiries, stored>>, forms' \in Nat, forms <= forms'
  PROVE  VisitsAreKept'
BY DEF FormsInv, VisitsAreKept, SentIsStored, TablesTyped

\* A request of the builder alone.
LEMMA BuilderFrame ==
  ASSUME FormsInv, UNCHANGED <<tables, visitor, forms, renamed>>, overlapped' \in BOOLEAN,
         builder' \in [FormEditors -> BuildRows], MovesTyped', BuildersAreWhole'
  PROVE  FormsInv'
<1>1. TablesTyped /\ RequestsTyped BY DEF FormsInv
<1>2. TablesTyped' /\ FormIsKept' BY TablesRest
<1>3. RequestsTyped' BY <1>1 DEF RequestsTyped
<1>4. UNCHANGED <<form, field, stored, inquiries>> BY DEF tables
<1>5. VisitsAreKept' BY <1>1, <1>4, FormsAssumption, VisitsRest DEF TablesTyped
<1>6. AnswersKeepTheirQuestion' /\ PagesKeepTheirQuestion' BY <1>4, KnownLabels
<1> QED BY <1>2, <1>3, <1>5, <1>6 DEF FormsInv

\* A visit alone.
LEMMA VisitorFrame ==
  ASSUME FormsInv, UNCHANGED <<form, field, builder, forms, renamed, overlapped>>,
         inquiries' \subseteq FormVisitors, stored' \subseteq AnswerRows,
         \A s \in stored' : s.under = form.which, form.which = 0 => stored' = {},
         visitor' \in [FormVisitors -> VisitRows],
         VisitsAreKept', AnswersKeepTheirQuestion', PagesKeepTheirQuestion'
  PROVE  FormsInv'
<1>1. TablesTyped /\ RequestsTyped /\ FormIsKept BY DEF FormsInv
<1>2. TablesTyped' /\ RequestsTyped' BY <1>1 DEF TablesTyped, RequestsTyped, MovesTyped
<1>3. FormIsKept' BY <1>1 DEF FormIsKept
<1>4. BuildersAreWhole' BY FewerFields
<1> QED BY <1>2, <1>3, <1>4 DEF FormsInv

(* The builder *)

LEMMA FormRowKeeps ==
  ASSUME FormsInv, \/ FormUpdate \/ \E kind \in {"lead", "questionnaire"} : FormCreate(kind)
  PROVE  FormsInv'
<1>1. TablesTyped /\ RequestsTyped /\ FormIsKept /\ VisitsAreKept BY DEF FormsInv
<1>2. CASE FormUpdate
  <2> PICK on : on = ~form.active OBVIOUS
  <2>1. form # NoFormRow /\ form' = [form EXCEPT !.active = on]
        /\ UNCHANGED <<field, builder, visitor, stored, inquiries, forms, renamed, overlapped>>
    BY <1>2 DEF FormUpdate, trace
  <2>2. form' \in FormIdRows /\ form'.which = form.which BY <1>1, <2>1 DEF TablesTyped, FormIdRows
  <2>3. form'.which # 0 /\ form' # NoFormRow BY <1>1, <2>1, <2>2, FreeFormRows DEF FormIsKept
  <2>4. TablesTyped' /\ RequestsTyped' BY <1>1, <2>1, <2>2 DEF TablesTyped, RequestsTyped, MovesTyped
  <2>5. FormIsKept' BY <1>1, <2>1, <2>2, <2>3 DEF FormIsKept
  <2>6. VisitsAreKept' BY <1>1, <2>1, <2>2 DEF VisitsAreKept, SentIsStored
  <2>7. AnswersKeepTheirQuestion' /\ PagesKeepTheirQuestion' BY <2>1, KnownLabels
  <2>8. BuildersAreWhole' BY <2>1, FewerFields
  <2> QED BY <2>4, <2>5, <2>6, <2>7, <2>8 DEF FormsInv
<1>3. ASSUME NEW kind \in {"lead", "questionnaire"}, FormCreate(kind) PROVE FormsInv'
  <2>1. /\ form = NoFormRow /\ forms < MaxForms /\ form' = [which |-> forms + 1, kind |-> kind, active |-> TRUE]
        /\ forms' = forms + 1 /\ UNCHANGED <<field, builder, visitor, stored, inquiries, renamed, overlapped>>
    BY <1>3 DEF FormCreate
  <2>2. forms' \in 1..MaxForms /\ forms \in Nat /\ forms < forms' BY <1>1, <2>1, FormsAssumption DEF TablesTyped
  <2>3. form' \in FormIdRows /\ form'.which = forms' BY <2>1, <2>2 DEF FormIdRows
  <2>4. form' # NoFormRow BY <2>2, <2>3, FreeFormRows
  <2>5. TablesTyped' /\ RequestsTyped' BY <1>1, <2>1, <2>2, <2>3 DEF TablesTyped, RequestsTyped, MovesTyped
  <2>6. stored = {} BY <1>1, <2>1, FreeFormRows DEF FormIsKept
  <2>7. FormIsKept' BY <1>1, <2>1, <2>2, <2>3, <2>4, <2>6 DEF FormIsKept
  <2>8. VisitsAreKept' BY <1>1, <2>1, <2>2, <2>3, FormsAssumption DEF VisitsAreKept, SentIsStored, RequestsTyped, VisitRows
  <2>9. AnswersKeepTheirQuestion' /\ PagesKeepTheirQuestion' BY <2>1, KnownLabels
  <2>10. BuildersAreWhole' BY <2>1, FewerFields
  <2> QED BY <2>5, <2>7, <2>8, <2>9, <2>10 DEF FormsInv
<1> QED BY <1>2, <1>3

LEMMA FormDeleteKeeps == ASSUME FormsInv, FormDelete PROVE FormsInv'
<1>1. TablesTyped /\ RequestsTyped /\ FormIsKept /\ VisitsAreKept BY DEF FormsInv
<1>2. /\ form' = NoFormRow /\ field' = [k \in FieldIds |-> NoField] /\ stored' = {}
      /\ UNCHANGED <<builder, visitor, inquiries, forms, renamed, overlapped>> BY DEF FormDelete, trace
<1>3. TablesTyped' /\ RequestsTyped' BY <1>1, <1>2, FreeFormRows DEF TablesTyped, RequestsTyped, MovesTyped
<1>4. forms \in Nat BY <1>1, FormsAssumption DEF TablesTyped
<1>5. FormIsKept' BY <1>1, <1>2, <1>4, FreeFormRows DEF FormIsKept
<1>6. \A v \in FormVisitors : visitor[v].at = "done" => visitor[v].which # 0 BY <1>1 DEF VisitsAreKept
<1>7. VisitsAreKept' BY <1>1, <1>2, <1>6, FreeFormRows DEF VisitsAreKept, SentIsStored
<1>8. AnswersKeepTheirQuestion' /\ PagesKeepTheirQuestion' BY <1>2, KnownLabels
<1>9. BuildersAreWhole' BY <1>2, FewerFields
<1> QED BY <1>3, <1>5, <1>7, <1>8, <1>9 DEF FormsInv

\* A field's row alone.
LEMMA FieldFrame ==
  ASSUME FormsInv, UNCHANGED <<form, stored, inquiries, visitor, forms>>,
         field' \in [FieldIds -> FieldRows], \A k \in FieldIds : field'[k].label = NoQuestion => field'[k] = NoField,
         renamed \subseteq renamed', renamed' \subseteq FieldIds,
         \A k \in FieldIds : field'[k] # NoField =>
           \/ field[k] # NoField /\ field'[k].label = field[k].label
           \/ k \notin Known \/ k \in renamed',
         builder' \in [FormEditors -> BuildRows], MovesTyped', overlapped' \in BOOLEAN, BuildersAreWhole'
  PROVE  FormsInv'
<1>1. TablesTyped /\ RequestsTyped /\ FormIsKept BY DEF FormsInv
<1>2. TablesTyped' /\ RequestsTyped' BY <1>1 DEF TablesTyped, RequestsTyped
<1>3. FormIsKept' BY <1>1 DEF FormIsKept
<1>4. VisitsAreKept' BY <1>1, FormsAssumption, VisitsRest DEF TablesTyped
<1>5. AnswersKeepTheirQuestion' /\ PagesKeepTheirQuestion' BY KnownLabels
<1> QED BY <1>2, <1>3, <1>4, <1>5 DEF FormsInv

LEMMA FieldKeeps ==
  ASSUME FormsInv, NEW k \in FieldIds, FieldDelete(k) \/ \E q \in Questions : FieldUpdate(k, q)
  PROVE  FormsInv'
<1>1. TablesTyped /\ RequestsTyped /\ FormIsKept BY DEF FormsInv
<1>2. builder \in [FormEditors -> BuildRows] /\ overlapped \in BOOLEAN /\ renamed \subseteq FieldIds /\ field \in [FieldIds -> FieldRows]
  BY <1>1 DEF TablesTyped, RequestsTyped
<1>3. CASE FieldDelete(k)
  <2>1. field' = [field EXCEPT ![k] = NoField]
        /\ UNCHANGED <<form, stored, inquiries, builder, visitor, forms, renamed, overlapped>>
    BY <1>3 DEF FieldDelete, trace
  <2>2. /\ field' \in [FieldIds -> FieldRows] /\ \A i \in FieldIds : field'[i].label = NoQuestion => field'[i] = NoField
        /\ \A i \in FieldIds : field'[i] # NoField => field[i] # NoField /\ field'[i] = field[i]
    BY <1>1, <1>2, <2>1, FreeFormRows DEF FormIsKept
  <2>3. BuildersAreWhole' BY <2>1, <2>2, FewerFields
  <2>4. MovesTyped' BY <1>1, <2>1 DEF RequestsTyped, MovesTyped
  <2> QED BY <1>2, <2>1, <2>2, <2>3, <2>4, FieldFrame
<1>4. ASSUME NEW q \in Questions, FieldUpdate(k, q) PROVE FormsInv'
  <2> PICK row : row = [field[k] EXCEPT !.label = q] OBVIOUS
  <2> PICK retold : retold = IF k \in Known THEN renamed \cup {k} ELSE renamed OBVIOUS
  <2>1. /\ field[k] # NoField /\ field' = [field EXCEPT ![k] = row] /\ renamed' = retold
        /\ UNCHANGED <<form, stored, inquiries, builder, visitor, forms, overlapped>>
    BY <1>4 DEF FieldUpdate, FieldsThere
  <2>2. row \in FieldRows /\ row.label = q /\ row.order = field[k].order BY <1>2 DEF FieldRows, Labels
  <2>3. q # NoQuestion BY FormsAssumption
  <2>4. /\ field' \in [FieldIds -> FieldRows] /\ field'[k] = row /\ \A i \in FieldIds : i # k => field'[i] = field[i]
    BY <1>2, <2>1, <2>2
  <2>5. \A i \in FieldIds : field'[i].label = NoQuestion => field'[i] = NoField BY <1>1, <2>2, <2>3, <2>4 DEF FormIsKept
  <2>6. \A i \in FieldIds : field'[i] # NoField => field[i] # NoField /\ field'[i].order = field[i].order BY <2>1, <2>2, <2>4
  <2>7. renamed \subseteq retold /\ retold \subseteq FieldIds /\ (k \notin Known \/ k \in retold) BY <1>2
  <2>8. BuildersAreWhole' BY <2>1, <2>6, FewerFields
  <2>9. MovesTyped' BY <1>1, <2>1 DEF RequestsTyped, MovesTyped
  <2> QED BY <1>2, <2>1, <2>4, <2>5, <2>7, <2>8, <2>9, FieldFrame
<1> QED BY <1>3, <1>4

\* The next order is beyond those of the fields there.
LEMMA NextOrderIsBeyond ==
  ASSUME FormsInv PROVE NextOrder \in Nat /\ \A k \in FieldsThere : field[k].order < NextOrder
<1> PICK orders : orders = {0} \cup {field[k].order : k \in FieldsThere} OBVIOUS
<1>1. field \in [FieldIds -> FieldRows] BY DEF FormsInv, TablesTyped
<1>2. \A k \in FieldsThere : field[k].order \in 0..MaxOrder BY <1>1 DEF FieldsThere, FieldRows
<1>3. orders \in SUBSET Nat /\ orders # {} /\ \A o \in orders : o <= MaxOrder BY <1>2, FormsAssumption
<1>4. \E m \in orders : \A o \in orders : o <= m BY <1>3, FormsAssumption, LastOf
<1>5. \E m \in orders : \A o \in orders : m >= o BY <1>3, <1>4
<1>6. Max(orders) \in orders /\ \A o \in orders : Max(orders) >= o BY <1>5 DEF Max
<1>7. NextOrder = Max(orders) + 1 BY DEF NextOrder
<1>8. \A k \in FieldsThere : field[k].order \in orders OBVIOUS
<1> PICK top : top = Max(orders) OBVIOUS
<1>9. top \in Nat /\ \A o \in orders : o \in Nat /\ top >= o BY <1>3, <1>6
<1>10. ASSUME NEW k \in FieldsThere PROVE field[k].order < top + 1
  <2> PICK o : o = field[k].order OBVIOUS
  <2>1. o \in Nat /\ top >= o BY <1>8, <1>9
  <2> QED BY <1>9, <2>1
<1> QED BY <1>7, <1>9, <1>10

\* A request that reads when none is on its way finds the orders apart.
LEMMA ReadsApart ==
  ASSUME FormsInv, ~overlapped, \A b \in FormEditors : builder[b].at = "idle"
  PROVE  OrdersApart(FieldsThere)
<1>1. BuildersAreWhole BY DEF FormsInv
<1>2. \A b \in FormEditors : builder[b].at # "second" BY DEF FormsInv
<1> QED BY <1>1, <1>2 DEF BuildersAreWhole

\* A request that reads: of the fields it read what its row says.
LEMMA ReadsKeep ==
  ASSUME FormsInv, NEW b \in FormEditors, NEW r \in BuildRows, r.at \in {"insert", "first"},
         builder[b].at = "idle", builder' = [builder EXCEPT ![b] = r],
         overlapped' = (overlapped \/ Building(FormEditors)),
         UNCHANGED <<tables, visitor, forms, renamed>>,
         r.at = "insert" => AddIsWhole(r),
         r.at = "first" => r.order \in 0..MaxOrder /\ r.otherOrder \in 0..MaxOrder,
         r.at = "first" => (OrdersApart(FieldsThere) => MoveIsWhole(r))
  PROVE  FormsInv'
<1>1. TablesTyped /\ RequestsTyped /\ BuildersAreWhole BY DEF FormsInv
<1>2. builder \in [FormEditors -> BuildRows] /\ overlapped \in BOOLEAN BY <1>1 DEF TablesTyped, RequestsTyped
<1>3. builder' \in [FormEditors -> BuildRows] /\ builder'[b] = r /\ \A c \in FormEditors : c # b => builder'[c] = builder[c]
  BY <1>2
<1>4. overlapped' \in BOOLEAN BY <1>2
<1>5. BuildersAreWhole'
  <2> SUFFICES ASSUME ~overlapped' PROVE BuildersAreWhole' BY DEF BuildersAreWhole
  <2>1. ~overlapped /\ \A c \in FormEditors : builder[c].at = "idle" BY DEF Building
  <2>2. OrdersApart(FieldsThere) BY <2>1, ReadsApart
  <2>3. field' = field /\ FieldsThere' = FieldsThere BY DEF tables, FieldsThere
  <2>4. OrdersApart(FieldsThere)' BY <2>2, <2>3 DEF OrdersApart
  <2>5. \A c \in FormEditors : c # b => builder'[c].at = "idle" BY <1>3, <2>1
  <2>6. r.at = "insert" => AddIsWhole(r)' BY <2>3 DEF AddIsWhole
  <2>7. r.at = "first" => MoveIsWhole(r)' BY <2>2, <2>3 DEF MoveIsWhole
  <2>8. \A c \in FormEditors : /\ builder'[c].at = "insert" => c = b /\ AddIsWhole(builder[c])'
                               /\ builder'[c].at = "first" => c = b /\ MoveIsWhole(builder[c])'
                               /\ builder'[c].at # "second"
    <3> SUFFICES ASSUME NEW c \in FormEditors
        PROVE  /\ builder'[c].at = "insert" => c = b /\ AddIsWhole(builder[c])'
               /\ builder'[c].at = "first" => c = b /\ MoveIsWhole(builder[c])'
               /\ builder'[c].at # "second"
      OBVIOUS
    <3>1. CASE c # b BY <2>5, <3>1
    <3>2. CASE c = b BY <1>3, <2>6, <2>7, <3>2 DEF AddIsWhole, MoveIsWhole
    <3> QED BY <3>1, <3>2
  <2> QED BY <2>4, <2>5, <2>8 DEF BuildersAreWhole
<1>6. MovesTyped' BY <1>1, <1>3 DEF RequestsTyped, MovesTyped
<1> QED BY <1>3, <1>4, <1>5, <1>6, BuilderFrame

LEMMA FieldAddReadsKeeps == ASSUME FormsInv, NEW b \in FormEditors, FieldAddReads(b) PROVE FormsInv'
<1> PICK n : n = NextOrder OBVIOUS
<1> PICK r : r = [NotBuilding EXCEPT !.at = "insert", !.order = n] OBVIOUS
<1>1. n \in Nat /\ \A k \in FieldsThere : field[k].order < n BY NextOrderIsBeyond
<1>2. r \in BuildRows /\ r.at = "insert" /\ r.order = n BY <1>1, FreeFormRows DEF BuildRows, NotBuilding
<1>3. AddIsWhole(r) BY <1>1, <1>2 DEF AddIsWhole
<1>4. /\ builder[b].at = "idle" /\ builder' = [builder EXCEPT ![b] = r]
      /\ overlapped' = (overlapped \/ Building(FormEditors)) /\ UNCHANGED <<tables, visitor, forms, renamed>>
  BY DEF FieldAddReads
<1>5. r.at \in {"insert", "first"} /\ r.at # "first" BY <1>2
<1> QED BY <1>2, <1>3, <1>4, <1>5, ReadsKeep

LEMMA FieldMoveReadsKeeps ==
  ASSUME FormsInv, NEW b \in FormEditors, NEW k \in FieldIds, NEW up \in BOOLEAN, FieldMoveReads(b, k, up)
  PROVE  FormsInv'
<1>1. TablesTyped BY DEF FormsInv
<1>2. k \in FieldsThere /\ builder[b].at = "idle" BY DEF FieldMoveReads
<1>3. PICK j \in FieldsThere :
        /\ field[j].order # field[k].order \/ TRUE
        /\ j \in (IF up THEN FieldAbove(k) ELSE FieldBelow(k))
        /\ builder' = [builder EXCEPT ![b] = [at |-> "first", field |-> k, order |-> field[k].order,
                                              other |-> j, otherOrder |-> field[j].order]]
  BY DEF FieldMoveReads, FieldAbove, FieldBelow
<1> PICK r : r = [at |-> "first", field |-> k, order |-> field[k].order, other |-> j, otherOrder |-> field[j].order] OBVIOUS
<1>0. field[k].order \in 0..MaxOrder /\ field[j].order \in 0..MaxOrder /\ j \in FieldIds
  BY <1>1 DEF TablesTyped, FieldRows, FieldsThere
<1>4. field[k].order \in Nat /\ field[j].order \in Nat BY <1>0, FormsAssumption
<1>5. field[j].order # field[k].order BY <1>3, <1>4 DEF FieldAbove, FieldBelow
<1>6. r \in BuildRows /\ r.at = "first" BY <1>0, <1>4 DEF BuildRows
<1>7. r.field = k /\ r.order = field[k].order /\ r.other = j /\ r.otherOrder = field[j].order OBVIOUS
<1>8. OrdersApart(FieldsThere) => MoveIsWhole(r) BY <1>2, <1>5, <1>7 DEF OrdersApart, MoveIsWhole
<1>9. /\ builder' = [builder EXCEPT ![b] = r]
      /\ overlapped' = (overlapped \/ Building(FormEditors)) /\ UNCHANGED <<tables, visitor, forms, renamed>>
  BY <1>3 DEF FieldMoveReads
<1>10. r.at \in {"insert", "first"} /\ r.at # "insert" BY <1>6
<1> QED BY <1>0, <1>2, <1>6, <1>7, <1>8, <1>9, <1>10, ReadsKeep

LEMMA FieldAddInsertsKeeps ==
  ASSUME FormsInv, NEW b \in FormEditors, NEW q \in Questions, FieldAddInserts(b, q) PROVE FormsInv'
<1>1. TablesTyped /\ RequestsTyped /\ BuildersAreWhole /\ FormIsKept BY DEF FormsInv
<1> PICK k : k = Max({0} \cup FieldsThere) + 1 OBVIOUS
<1> PICK r : r = builder[b] OBVIOUS
<1> PICK row : row = [label |-> q, order |-> r.order] OBVIOUS
<1> PICK retold : retold = IF k \in Known THEN renamed \cup {k} ELSE renamed OBVIOUS
<1>2. /\ r.at = "insert" /\ k \in FieldIds /\ r.order <= MaxOrder /\ field' = [field EXCEPT ![k] = row]
      /\ renamed' = retold /\ builder' = [builder EXCEPT ![b] = NotBuilding]
      /\ UNCHANGED <<form, stored, inquiries, visitor, forms, overlapped>> BY DEF FieldAddInserts
<1>3. /\ builder \in [FormEditors -> BuildRows] /\ overlapped \in BOOLEAN /\ renamed \subseteq FieldIds
      /\ field \in [FieldIds -> FieldRows] BY <1>1 DEF TablesTyped, RequestsTyped
<1>4. r.order \in Nat BY <1>3 DEF BuildRows
<1>5. row \in FieldRows /\ row.label = q /\ row.order = r.order BY <1>2, <1>4, FormsAssumption DEF FieldRows, Labels
<1>6. q # NoQuestion BY FormsAssumption
<1>7. field' \in [FieldIds -> FieldRows] /\ field'[k] = row /\ \A i \in FieldIds : i # k => field'[i] = field[i]
  BY <1>2, <1>3, <1>5
<1>8. \A i \in FieldIds : field'[i].label = NoQuestion => field'[i] = NoField BY <1>1, <1>5, <1>6, <1>7 DEF FormIsKept
<1>9. renamed \subseteq retold /\ retold \subseteq FieldIds /\ (k \notin Known \/ k \in retold) BY <1>2, <1>3
<1>10. builder' \in [FormEditors -> BuildRows] /\ builder'[b] = NotBuilding /\ \A c \in FormEditors : c # b => builder'[c] = builder[c]
  BY <1>2, <1>3, FreeFormRows
<1>12. MovesTyped' BY <1>1, <1>10, FreeFormRows DEF RequestsTyped, MovesTyped
<1>11. BuildersAreWhole'
  <2> SUFFICES ASSUME ~overlapped PROVE BuildersAreWhole' BY <1>2 DEF BuildersAreWhole
  <2>1. AddIsWhole(r) /\ \A c \in FormEditors : c # b => builder[c].at = "idle" BY <1>1, <1>2 DEF BuildersAreWhole
  <2>2. \A c \in FormEditors : builder[c].at # "second" BY <1>2, <2>1
  <2>3. OrdersApart(FieldsThere) BY <1>1, <2>2 DEF BuildersAreWhole
  <2>4. \A i \in FieldIds : (i \in FieldsThere <=> field[i] # NoField) /\ ((i \in FieldsThere)' <=> field'[i] # NoField)
    BY DEF FieldsThere
  <2>5. FieldsThere' \subseteq FieldIds BY DEF FieldsThere
  <2>6. \A i \in FieldIds : field[i].order \in Nat
    <3>1. \A f \in FieldRows : f.order \in Nat BY FormsAssumption DEF FieldRows
    <3> QED BY <1>3, <3>1
  <2>7. \A i \in FieldsThere' : i # k => i \in FieldsThere /\ field'[i].order = field[i].order /\ field[i].order < r.order
    BY <1>7, <2>1, <2>4, <2>5 DEF AddIsWhole
  <2>8. OrdersApart(FieldsThere)'
    <3>1. \A i \in FieldsThere' : i # k => field'[i].order < row.order /\ field'[i].order \in Nat
      BY <1>5, <2>5, <2>6, <2>7
    <3>2. \A i \in FieldsThere' : i # k => field'[i].order # field'[k].order
      <4> SUFFICES ASSUME NEW i \in FieldsThere', i # k PROVE field'[i].order # row.order BY <1>7
      <4> PICK o : o = field'[i].order OBVIOUS
      <4> PICK p : p = row.order OBVIOUS
      <4>1. o \in Nat /\ p \in Nat /\ o < p BY <1>4, <1>5, <3>1
      <4> QED BY <4>1
    <3>3. \A i, j \in FieldsThere' : i # k /\ j # k /\ i # j => field'[i].order # field'[j].order
      BY <2>3, <2>7 DEF OrdersApart
    <3> QED BY <3>2, <3>3 DEF OrdersApart
  <2>9. \A c \in FormEditors : builder'[c].at = "idle" BY <1>10, <2>1, FreeFormRows
  <2> QED BY <2>8, <2>9 DEF BuildersAreWhole
<1> QED BY <1>2, <1>3, <1>7, <1>8, <1>9, <1>10, <1>11, <1>12, FieldFrame

LEMMA FieldAddRefusedKeeps == ASSUME FormsInv, NEW b \in FormEditors, FieldAddRefused(b) PROVE FormsInv'
<1>1. TablesTyped /\ RequestsTyped /\ BuildersAreWhole BY DEF FormsInv
<1>2. /\ builder[b].at = "insert" /\ builder' = [builder EXCEPT ![b] = NotBuilding]
      /\ UNCHANGED <<tables, visitor, forms, renamed, overlapped>> BY DEF FieldAddRefused, trace
<1>3. builder \in [FormEditors -> BuildRows] /\ overlapped \in BOOLEAN BY <1>1 DEF TablesTyped, RequestsTyped
<1>4. builder' \in [FormEditors -> BuildRows] /\ builder'[b] = NotBuilding /\ \A c \in FormEditors : c # b => builder'[c] = builder[c]
  BY <1>2, <1>3, FreeFormRows
<1>5. BuildersAreWhole'
  <2> SUFFICES ASSUME ~overlapped PROVE BuildersAreWhole' BY <1>2 DEF BuildersAreWhole
  <2>1. \A c \in FormEditors : c # b => builder[c].at = "idle" BY <1>1, <1>2 DEF BuildersAreWhole
  <2>2. \A c \in FormEditors : builder[c].at # "second" BY <1>2, <2>1
  <2>3. OrdersApart(FieldsThere) BY <1>1, <2>2 DEF BuildersAreWhole
  <2>4. OrdersApart(FieldsThere)' BY <1>2, <2>3 DEF OrdersApart, FieldsThere, tables
  <2>5. \A c \in FormEditors : builder'[c].at = "idle" BY <1>4, <2>1, FreeFormRows
  <2> QED BY <2>4, <2>5 DEF BuildersAreWhole
<1>6. MovesTyped' BY <1>1, <1>4, FreeFormRows DEF RequestsTyped, MovesTyped
<1> QED BY <1>2, <1>3, <1>4, <1>5, <1>6, BuilderFrame

\* Giving a field an order changes no label.
LEMMA Reordered ==
  ASSUME FormsInv, NEW f \in FieldIds \cup {0}, NEW n \in 0..MaxOrder, Reorder(f, n)
  PROVE  /\ field' \in [FieldIds -> FieldRows] /\ FieldsThere' = FieldsThere
         /\ \A i \in FieldIds : field'[i].label = field[i].label
         /\ \A i \in FieldIds : field'[i].label = NoQuestion => field'[i] = NoField
         /\ \A i \in FieldsThere : field'[i].order = IF i = f THEN n ELSE field[i].order
<1>1. field \in [FieldIds -> FieldRows] /\ \A i \in FieldIds : field[i].label = NoQuestion => field[i] = NoField
  BY DEF FormsInv, TablesTyped, FormIsKept
<1>2. CASE f \in FieldsThere
  <2>1. f \in FieldIds /\ field[f] # NoField /\ field[f].label # NoQuestion BY <1>1, <1>2 DEF FieldsThere
  <2> PICK row : row = [field[f] EXCEPT !.order = n] OBVIOUS
  <2>2. field' = [field EXCEPT ![f] = row] BY <1>2 DEF Reorder
  <2>3. row \in FieldRows /\ row.label = field[f].label /\ row.order = n BY <1>1, <2>1 DEF FieldRows
  <2>4. field' \in [FieldIds -> FieldRows] /\ field'[f] = row /\ \A i \in FieldIds : i # f => field'[i] = field[i]
    BY <1>1, <2>1, <2>2, <2>3
  <2>5. row # NoField BY <2>1, <2>3, FreeFormRows
  <2>6. FieldsThere' = FieldsThere BY <2>1, <2>4, <2>5 DEF FieldsThere
  <2> QED BY <1>1, <2>1, <2>3, <2>4, <2>6 DEF FieldsThere
<1>3. CASE f \notin FieldsThere
  <2>1. field' = field BY <1>3 DEF Reorder
  <2> QED BY <1>1, <1>3, <2>1 DEF FieldsThere
<1> QED BY <1>2, <1>3

LEMMA FieldMoveFirstKeeps == ASSUME FormsInv, NEW b \in FormEditors, FieldMoveFirst(b) PROVE FormsInv'
<1>1. TablesTyped /\ RequestsTyped /\ BuildersAreWhole BY DEF FormsInv
<1> PICK r : r = builder[b] OBVIOUS
<1> PICK half : half = [r EXCEPT !.at = "second"] OBVIOUS
<1>2. /\ r.at = "first" /\ Reorder(r.field, r.otherOrder)
      /\ UNCHANGED <<form, stored, inquiries, visitor, forms, renamed, overlapped>> BY DEF FieldMoveFirst, trace
<1>3. /\ builder \in [FormEditors -> BuildRows] /\ overlapped \in BOOLEAN /\ renamed \subseteq FieldIds
      /\ r.order \in 0..MaxOrder /\ r.otherOrder \in 0..MaxOrder
  BY <1>1, <1>2 DEF TablesTyped, RequestsTyped, MovesTyped
<1>4. builder' = [builder EXCEPT ![b] = half] BY <1>3 DEF FieldMoveFirst
<1>5. r \in BuildRows BY <1>3
<1>6. /\ half \in BuildRows /\ half.at = "second" /\ half.field = r.field /\ half.order = r.order
      /\ half.other = r.other /\ half.otherOrder = r.otherOrder /\ r.field \in FieldIds \cup {0} BY <1>5 DEF BuildRows
<1>7. builder' \in [FormEditors -> BuildRows] /\ builder'[b] = half /\ \A c \in FormEditors : c # b => builder'[c] = builder[c]
  BY <1>3, <1>4, <1>6
<1>8. MovesTyped' BY <1>1, <1>3, <1>6, <1>7 DEF RequestsTyped, MovesTyped
<1>9. /\ field' \in [FieldIds -> FieldRows] /\ FieldsThere' = FieldsThere
      /\ \A i \in FieldIds : field'[i].label = field[i].label
      /\ \A i \in FieldIds : field'[i].label = NoQuestion => field'[i] = NoField
      /\ \A i \in FieldsThere : field'[i].order = IF i = r.field THEN r.otherOrder ELSE field[i].order
  BY <1>2, <1>3, <1>6, Reordered
<1>10. \A i \in FieldIds : field'[i] # NoField => field[i] # NoField BY <1>9 DEF FieldsThere
<1>11. BuildersAreWhole'
  <2> SUFFICES ASSUME ~overlapped PROVE BuildersAreWhole' BY <1>2 DEF BuildersAreWhole
  <2>1. MoveIsWhole(r) /\ \A c \in FormEditors : c # b => builder[c].at = "idle" BY <1>1, <1>2 DEF BuildersAreWhole
  <2>2. \A c \in FormEditors : builder[c].at # "second" BY <1>2, <2>1
  <2>3. OrdersApart(FieldsThere) BY <1>1, <2>2 DEF BuildersAreWhole
  <2>4. \A i \in FieldsThere \ {r.other} : field'[i].order # r.order BY <1>9, <2>1 DEF MoveIsWhole
  <2>5. \A i, j \in FieldsThere \ {r.other} : i # j => field'[i].order # field'[j].order
    BY <1>9, <2>1, <2>3 DEF MoveIsWhole, OrdersApart
  <2>6. HalfIsWhole(builder[b])' /\ OrdersApart(FieldsThere \ {builder[b].other})'
    BY <1>6, <1>7, <1>9, <2>4, <2>5 DEF HalfIsWhole, OrdersApart
  <2>7. \A c \in FormEditors : c # b => builder'[c].at = "idle" BY <1>7, <2>1
  <2>8. builder'[b].at = "second" BY <1>6, <1>7
  <2> QED BY <2>6, <2>7, <2>8 DEF BuildersAreWhole
<1> QED BY <1>2, <1>3, <1>7, <1>8, <1>9, <1>10, <1>11, FieldFrame

LEMMA FieldMoveSecondKeeps == ASSUME FormsInv, NEW b \in FormEditors, FieldMoveSecond(b) PROVE FormsInv'
<1>1. TablesTyped /\ RequestsTyped /\ BuildersAreWhole BY DEF FormsInv
<1> PICK r : r = builder[b] OBVIOUS
<1>2. /\ r.at = "second" /\ Reorder(r.other, r.order) /\ builder' = [builder EXCEPT ![b] = NotBuilding]
      /\ UNCHANGED <<form, stored, inquiries, visitor, forms, renamed, overlapped>> BY DEF FieldMoveSecond, trace
<1>3. /\ builder \in [FormEditors -> BuildRows] /\ overlapped \in BOOLEAN /\ renamed \subseteq FieldIds
      /\ r.order \in 0..MaxOrder BY <1>1, <1>2 DEF TablesTyped, RequestsTyped, MovesTyped
<1>4. r \in BuildRows BY <1>3
<1>5. r.other \in FieldIds \cup {0} BY <1>4 DEF BuildRows
<1>6. builder' \in [FormEditors -> BuildRows] /\ builder'[b] = NotBuilding /\ \A c \in FormEditors : c # b => builder'[c] = builder[c]
  BY <1>2, <1>3, FreeFormRows
<1>7. MovesTyped' BY <1>1, <1>6, FreeFormRows DEF RequestsTyped, MovesTyped
<1>8. /\ field' \in [FieldIds -> FieldRows] /\ FieldsThere' = FieldsThere
      /\ \A i \in FieldIds : field'[i].label = field[i].label
      /\ \A i \in FieldIds : field'[i].label = NoQuestion => field'[i] = NoField
      /\ \A i \in FieldsThere : field'[i].order = IF i = r.other THEN r.order ELSE field[i].order
  BY <1>2, <1>3, <1>5, Reordered
<1>9. \A i \in FieldIds : field'[i] # NoField => field[i] # NoField BY <1>8 DEF FieldsThere
<1>10. BuildersAreWhole'
  <2> SUFFICES ASSUME ~overlapped PROVE BuildersAreWhole' BY <1>2 DEF BuildersAreWhole
  <2>1. HalfIsWhole(r) /\ OrdersApart(FieldsThere \ {r.other}) /\ \A c \in FormEditors : c # b => builder[c].at = "idle"
    BY <1>1, <1>2 DEF BuildersAreWhole
  <2>2. \A i, j \in FieldsThere : i # j => field'[i].order # field'[j].order BY <1>8, <2>1 DEF HalfIsWhole, OrdersApart
  <2>3. OrdersApart(FieldsThere)' BY <1>8, <2>2 DEF OrdersApart
  <2>4. \A c \in FormEditors : builder'[c].at = "idle" BY <1>6, <2>1, FreeFormRows
  <2> QED BY <2>3, <2>4 DEF BuildersAreWhole
<1> QED BY <1>2, <1>3, <1>6, <1>7, <1>8, <1>9, <1>10, FieldFrame

LEMMA AppRestartsKeeps == ASSUME FormsInv, AppRestarts PROVE FormsInv'
<1>1. TablesTyped /\ RequestsTyped /\ FormIsKept /\ VisitsAreKept /\ AnswersKeepTheirQuestion /\ PagesKeepTheirQuestion /\ BuildersAreWhole
  BY DEF FormsInv
<1> PICK next : next = [v \in FormVisitors |-> IF visitor[v].at \in {"loaded", "judged", "lead"}
                                                THEN [visitor[v] EXCEPT !.at = "cut"] ELSE visitor[v]]
  OBVIOUS
<1>2. /\ builder' = [b \in FormEditors |-> NotBuilding] /\ visitor' = next
      /\ overlapped' = (overlapped \/ \E b \in FormEditors : builder[b].at = "second")
      /\ UNCHANGED <<form, field, stored, inquiries, forms, renamed>> BY DEF AppRestarts, tables
<1>3. overlapped' \in BOOLEAN BY <1>1, <1>2 DEF TablesTyped
<1>4. \A v \in FormVisitors :
        /\ next[v] \in VisitRows /\ next[v].which = visitor[v].which /\ next[v].kind = visitor[v].kind
        /\ next[v].shown = visitor[v].shown
        /\ next[v].at # visitor[v].at => next[v].at = "cut" /\ visitor[v].at # "away"
  BY <1>1 DEF RequestsTyped, VisitRows
<1>5. visitor' \in [FormVisitors -> VisitRows] BY <1>2, <1>4
<1>6. TablesTyped' BY <1>1, <1>2, <1>3 DEF TablesTyped
<1>7. RequestsTyped' BY <1>2, <1>5, FreeFormRows DEF RequestsTyped, MovesTyped
<1>8. FormIsKept' BY <1>1, <1>2 DEF FormIsKept
<1>9. VisitsAreKept'
  <2>1. \A v \in FormVisitors :
          /\ next[v].at # "away" => next[v].which \in 1..forms
          /\ next[v].at \in {"away", "page", "loaded", "judged"} => v \notin inquiries
          /\ next[v].at = "lead" => v \in inquiries /\ next[v].kind = "lead" BY <1>1, <1>4 DEF VisitsAreKept
  <2>2. \A v \in FormVisitors : next[v].at = "done" => visitor[v].at = "done" BY <1>4
  <2>3. SentIsStored' BY <1>1, <1>2, <1>4, <2>2 DEF VisitsAreKept, SentIsStored
  <2> QED BY <1>2, <2>1, <2>3 DEF VisitsAreKept
<1>10. AnswersKeepTheirQuestion' BY <1>1, <1>2 DEF AnswersKeepTheirQuestion, FieldsThere
<1>11. PagesKeepTheirQuestion' BY <1>1, <1>2, <1>4 DEF PagesKeepTheirQuestion, FieldsThere
<1>12. BuildersAreWhole'
  <2> SUFFICES ASSUME ~overlapped' PROVE BuildersAreWhole' BY DEF BuildersAreWhole
  <2>1. ~overlapped /\ \A b \in FormEditors : builder[b].at # "second" BY <1>2
  <2>2. OrdersApart(FieldsThere) BY <1>1, <2>1 DEF BuildersAreWhole
  <2>3. OrdersApart(FieldsThere)' BY <1>2, <2>2 DEF OrdersApart, FieldsThere
  <2>4. \A b \in FormEditors : builder'[b].at = "idle" BY <1>2, FreeFormRows
  <2> QED BY <2>3, <2>4 DEF BuildersAreWhole
<1> QED BY <1>6, <1>7, <1>8, <1>9, <1>10, <1>11, <1>12 DEF FormsInv

(* The public page *)

\* One visit's row, with what it showed still under its question.
LEMMA VisitKeeps ==
  ASSUME FormsInv, NEW v \in FormVisitors, NEW w \in VisitRows,
         UNCHANGED <<form, field, builder, forms, renamed, overlapped>>,
         visitor' = [visitor EXCEPT ![v] = w], w.at # "away" => w.which \in 1..forms,
         inquiries' \subseteq FormVisitors, \A u \in FormVisitors \ {v} : u \in inquiries' <=> u \in inquiries,
         w.at \in {"away", "page", "loaded", "judged"} => v \notin inquiries',
         w.at = "lead" => v \in inquiries' /\ w.kind = "lead",
         stored \subseteq stored', stored' \subseteq AnswerRows,
         \A s \in stored' : s.under = form.which, form.which = 0 => stored' = {},
         w.at = "done" => /\ form.which # w.which \/ \E s \in stored' : s.visit = v /\ s.under = w.which
                          /\ v \in inquiries' <=> w.kind = "lead",
         \A k \in FieldsThere : w.shown[k] # NoQuestion /\ k \notin renamed => field[k].label = w.shown[k],
         \A s \in stored' : s \in stored \/ s.answers = w.shown
  PROVE  FormsInv'
<1>1. TablesTyped /\ RequestsTyped /\ VisitsAreKept /\ AnswersKeepTheirQuestion /\ PagesKeepTheirQuestion BY DEF FormsInv
<1>2. visitor' \in [FormVisitors -> VisitRows] /\ visitor'[v] = w /\ \A u \in FormVisitors : u # v => visitor'[u] = visitor[u]
  BY <1>1 DEF RequestsTyped
<1>3. VisitsAreKept'
  <2>1. \A u \in FormVisitors :
          /\ visitor'[u].at # "away" => visitor'[u].which \in 1..forms
          /\ visitor'[u].at \in {"away", "page", "loaded", "judged"} => u \notin inquiries'
          /\ visitor'[u].at = "lead" => u \in inquiries' /\ visitor'[u].kind = "lead" BY <1>1, <1>2 DEF VisitsAreKept
  <2>2. \A u \in FormVisitors : visitor'[u].at = "done" =>
          /\ form.which # visitor'[u].which \/ \E s \in stored' : s.visit = u /\ s.under = visitor'[u].which
          /\ u \in inquiries' <=> visitor'[u].kind = "lead"
    <3> SUFFICES ASSUME NEW u \in FormVisitors, visitor'[u].at = "done"
        PROVE  /\ form.which # visitor'[u].which \/ \E s \in stored' : s.visit = u /\ s.under = visitor'[u].which
               /\ u \in inquiries' <=> visitor'[u].kind = "lead"
      OBVIOUS
    <3>1. CASE u = v BY <1>2, <3>1
    <3>2. CASE u # v
      <4>1. visitor'[u] = visitor[u] /\ visitor[u].at = "done" BY <1>2, <3>2
      <4>2. /\ form.which # visitor[u].which \/ \E s \in stored : s.visit = u /\ s.under = visitor[u].which
            /\ u \in inquiries <=> visitor[u].kind = "lead" BY <1>1, <4>1 DEF VisitsAreKept, SentIsStored
      <4> QED BY <3>2, <4>1, <4>2
    <3> QED BY <3>1, <3>2
  <2>3. SentIsStored' BY <2>2 DEF SentIsStored
  <2> QED BY <2>1, <2>3 DEF VisitsAreKept
<1>4. AnswersKeepTheirQuestion' BY <1>1 DEF AnswersKeepTheirQuestion, FieldsThere
<1>5. PagesKeepTheirQuestion' BY <1>1, <1>2 DEF PagesKeepTheirQuestion, FieldsThere
<1> QED BY <1>2, <1>3, <1>4, <1>5, VisitorFrame

LEMMA VisitsKeep ==
  ASSUME FormsInv, NEW v \in FormVisitors,
         \/ ShowForm(v) \/ SubmitLoads(v) \/ SubmitJudges(v) \/ SubmitSentBack(v) \/ SubmitInquires(v) \/ SubmitStores(v)
  PROVE  FormsInv'
<1>1. TablesTyped /\ RequestsTyped /\ FormIsKept /\ VisitsAreKept /\ PagesKeepTheirQuestion BY DEF FormsInv
<1> PICK r : r = visitor[v] OBVIOUS
<1>2. /\ r \in VisitRows /\ visitor \in [FormVisitors -> VisitRows] /\ r.shown \in [FieldIds -> Labels]
      /\ inquiries \subseteq FormVisitors /\ stored \subseteq AnswerRows /\ form \in FormIdRows /\ field \in [FieldIds -> FieldRows]
      /\ forms \in Nat /\ forms <= MaxForms BY <1>1, FormsAssumption DEF TablesTyped, RequestsTyped, VisitRows
<1>3. /\ r.at # "away" => r.which \in 1..forms
      /\ r.at \in {"away", "page", "loaded", "judged"} => v \notin inquiries
      /\ r.at = "lead" => v \in inquiries /\ r.kind = "lead"
      /\ r.at # "away" => \A k \in FieldsThere : r.shown[k] # NoQuestion /\ k \notin renamed => field[k].label = r.shown[k]
      /\ \A s \in stored : s.under = form.which
      /\ form.which = 0 => stored = {} BY <1>1 DEF VisitsAreKept, PagesKeepTheirQuestion, FormIsKept, FieldsThere
<1>4. Shown \in [FieldIds -> Labels] /\ \A k \in FieldsThere : field[k].label = Shown[k]
  BY <1>2 DEF Shown, FieldRows, FieldsThere
<1>5. CASE ShowForm(v)
  <2> PICK w : w = [at |-> "page", which |-> form.which, kind |-> form.kind, shown |-> Shown] OBVIOUS
  <2>1. /\ r.at = "away" /\ form.active /\ visitor' = [visitor EXCEPT ![v] = w]
        /\ UNCHANGED <<form, field, stored, inquiries, builder, forms, renamed, overlapped>>
    BY <1>5 DEF ShowForm, tables, trace
  <2>2. form.which \in 1..forms /\ form.which \in 0..MaxForms BY <1>1, <1>2, <2>1, FormsAssumption DEF FormIsKept, FormIdRows
  <2>3. w \in VisitRows /\ w.at = "page" /\ w.which = form.which /\ w.shown = Shown
    BY <1>2, <1>4, <2>2 DEF VisitRows, FormIdRows
  <2>4. w.at # "away" => w.which \in 1..forms BY <2>2, <2>3
  <2>5. v \notin inquiries BY <1>3, <2>1
  <2>6. \A k \in FieldsThere : w.shown[k] # NoQuestion /\ k \notin renamed => field[k].label = w.shown[k] BY <1>4, <2>3
  <2> QED BY <1>2, <1>3, <2>1, <2>3, <2>4, <2>5, <2>6, VisitKeeps
<1>6. CASE SubmitLoads(v)
  <2> PICK w : w = [r EXCEPT !.at = "loaded"] OBVIOUS
  <2>1. /\ r.at = "page" /\ UNCHANGED <<form, field, stored, inquiries, builder, forms, renamed, overlapped>>
    BY <1>6 DEF SubmitLoads, tables, trace
  <2>2. visitor' = [visitor EXCEPT ![v] = w] BY <1>2, <1>6 DEF SubmitLoads
  <2>3. w \in VisitRows /\ w.at = "loaded" /\ w.which = r.which /\ w.kind = r.kind /\ w.shown = r.shown BY <1>2 DEF VisitRows
  <2>4. \A k \in FieldsThere : w.shown[k] # NoQuestion /\ k \notin renamed => field[k].label = w.shown[k] BY <1>3, <2>1, <2>3
  <2>5. w.which \in 1..forms /\ v \notin inquiries BY <1>3, <2>1, <2>3
  <2>6. w.at # "done" /\ w.at # "lead" BY <2>3
  <2> QED BY <1>2, <1>3, <2>1, <2>2, <2>3, <2>4, <2>5, <2>6, VisitKeeps
<1>7. CASE SubmitJudges(v)
  <2> PICK answers : answers = AnswerTo(v) OBVIOUS
  <2> PICK w : w = [r EXCEPT !.at = "judged", !.shown = answers] OBVIOUS
  <2>1. /\ r.at = "loaded" /\ UNCHANGED <<form, field, stored, inquiries, builder, forms, renamed, overlapped>>
    BY <1>7 DEF SubmitJudges, tables, trace
  <2>2. visitor' = [visitor EXCEPT ![v] = w] BY <1>2, <1>7 DEF SubmitJudges
  <2>3. answers = [k \in FieldIds |-> IF k \in FieldsThere THEN r.shown[k] ELSE NoQuestion] BY DEF AnswerTo
  <2>4. answers \in [FieldIds -> Labels] /\ \A k \in FieldsThere : answers[k] = r.shown[k]
    BY <1>2, <2>3 DEF Labels, FieldsThere
  <2>5. w \in VisitRows /\ w.at = "judged" /\ w.which = r.which /\ w.kind = r.kind /\ w.shown = answers
    BY <1>2, <2>4 DEF VisitRows
  <2>6. \A k \in FieldsThere : w.shown[k] # NoQuestion /\ k \notin renamed => field[k].label = w.shown[k]
    BY <1>3, <2>1, <2>4, <2>5
  <2> QED BY <1>2, <1>3, <2>1, <2>2, <2>5, <2>6, VisitKeeps
<1>8. CASE SubmitSentBack(v)
  <2> PICK w : w = [r EXCEPT !.at = "page", !.shown = Shown] OBVIOUS
  <2>1. /\ r.at = "loaded" /\ UNCHANGED <<form, field, stored, inquiries, builder, forms, renamed, overlapped>>
    BY <1>8 DEF SubmitSentBack, tables, trace
  <2>2. visitor' = [visitor EXCEPT ![v] = w] BY <1>2, <1>8 DEF SubmitSentBack
  <2>3. w \in VisitRows /\ w.at = "page" /\ w.which = r.which /\ w.kind = r.kind /\ w.shown = Shown BY <1>2, <1>4 DEF VisitRows
  <2>4. \A k \in FieldsThere : w.shown[k] # NoQuestion /\ k \notin renamed => field[k].label = w.shown[k] BY <1>4, <2>3
  <2> QED BY <1>2, <1>3, <2>1, <2>2, <2>3, <2>4, VisitKeeps
<1>9. CASE SubmitInquires(v)
  <2> PICK w : w = [r EXCEPT !.at = "lead"] OBVIOUS
  <2>1. /\ r.at = "judged" /\ r.kind = "lead" /\ inquiries' = inquiries \cup {v}
        /\ UNCHANGED <<form, field, stored, builder, forms, renamed, overlapped>>
    BY <1>9 DEF SubmitInquires, IsLead, trace
  <2>2. visitor' = [visitor EXCEPT ![v] = w] BY <1>2, <1>9 DEF SubmitInquires
  <2>3. w \in VisitRows /\ w.at = "lead" /\ w.which = r.which /\ w.kind = r.kind /\ w.shown = r.shown BY <1>2 DEF VisitRows
  <2> QED BY <1>2, <1>3, <2>1, <2>2, <2>3, VisitKeeps
<1>10. CASE SubmitStores(v)
  <2> PICK at : at = IF form # NoFormRow THEN "done" ELSE "cut" OBVIOUS
  <2> PICK w : w = [r EXCEPT !.at = at] OBVIOUS
  <2> PICK sub : sub = [visit |-> v, under |-> form.which, answers |-> r.shown] OBVIOUS
  <2>1. /\ r.at = "lead" \/ (r.at = "judged" /\ r.kind # "lead")
        /\ stored' = IF form # NoFormRow THEN stored \cup {sub} ELSE stored
        /\ UNCHANGED <<form, field, inquiries, builder, forms, renamed, overlapped>>
    BY <1>10 DEF SubmitStores, IsLead, trace
  <2>2. visitor' = [visitor EXCEPT ![v] = w] BY <1>2, <1>10 DEF SubmitStores
  <2>3. w \in VisitRows /\ w.at = at /\ w.which = r.which /\ w.kind = r.kind /\ w.shown = r.shown BY <1>2 DEF VisitRows
  <2>4. v \in inquiries <=> w.kind = "lead" BY <1>3, <2>1, <2>3
  <2>5. form # NoFormRow => form.which # 0 /\ form.which \in 1..MaxForms BY <1>1, <1>2, FormsAssumption DEF FormIsKept, FormIdRows
  <2>6. form # NoFormRow => sub \in AnswerRows BY <1>2, <2>5 DEF AnswerRows
  <2>7. stored \subseteq stored' /\ stored' \subseteq AnswerRows /\ \A s \in stored' : s \in stored \/ (s = sub /\ form # NoFormRow)
    BY <1>2, <2>1, <2>6
  <2>8. \A s \in stored' : s.under = form.which BY <1>3, <2>7
  <2>9. form.which = 0 => stored' = {} BY <1>3, <2>1, <2>5
  <2>10. at = "done" => form.which # w.which \/ \E s \in stored' : s.visit = v /\ s.under = w.which BY <2>1
  <2>11. \A s \in stored' : s \in stored \/ s.answers = w.shown BY <2>3, <2>7
  <2>12. w.at \notin {"away", "page", "loaded", "judged"} /\ w.at # "lead" BY <2>3
  <2>13. \A k \in FieldsThere : w.shown[k] # NoQuestion /\ k \notin renamed => field[k].label = w.shown[k] BY <1>3, <2>1, <2>3
  <2>14. w.which \in 1..forms BY <1>3, <2>1, <2>3
  <2>15. w.at = "done" => /\ form.which # w.which \/ \E s \in stored' : s.visit = v /\ s.under = w.which
                          /\ v \in inquiries' <=> w.kind = "lead" BY <2>1, <2>3, <2>4, <2>10
  <2> QED BY <1>2, <1>3, <2>1, <2>2, <2>3, <2>7, <2>8, <2>9, <2>11, <2>12, <2>13, <2>14, <2>15, VisitKeeps
<1> QED BY <1>5, <1>6, <1>7, <1>8, <1>9, <1>10

LEMMA FormsStep == ASSUME FormsInv, FormsNext PROVE FormsInv'
BY FormRowKeeps, FormDeleteKeeps, AppRestartsKeeps, FieldAddReadsKeeps, FieldAddRefusedKeeps, FieldAddInsertsKeeps,
   FieldMoveReadsKeeps, FieldMoveFirstKeeps, FieldMoveSecondKeeps, FieldKeeps, VisitsKeep DEF FormsNext

LEMMA FormsRest == ASSUME FormsInv, UNCHANGED formVars PROVE FormsInv'
<1>1. UNCHANGED <<form, field, builder, visitor, stored, inquiries, forms, renamed, overlapped>> BY DEF formVars
<1>2. TablesTyped /\ RequestsTyped /\ VisitsAreKept /\ AnswersKeepTheirQuestion /\ PagesKeepTheirQuestion BY DEF FormsInv
<1>3. builder' \in [FormEditors -> BuildRows] /\ overlapped' \in BOOLEAN /\ MovesTyped'
  BY <1>1, <1>2 DEF TablesTyped, RequestsTyped, MovesTyped
<1>4. BuildersAreWhole' BY <1>1, FewerFields
<1> QED BY <1>1, <1>3, <1>4, BuilderFrame DEF tables

\* The invariant gives the component's types and its property.
LEMMA FormsMean == ASSUME FormsInv PROVE FormsTypeOK /\ FormsAreSound
<1>1. TablesTyped /\ RequestsTyped /\ VisitsAreKept /\ AnswersKeepTheirQuestion /\ BuildersAreWhole BY DEF FormsInv
<1>2. FormsTypeOK BY <1>1 DEF TablesTyped, RequestsTyped, FormsTypeOK, FormIdRows, FieldRows, BuildRows, VisitRows, AnswerRows, Labels
<1>3. OrdersAreDistinct
  <2>1. CASE overlapped BY <2>1 DEF OrdersAreDistinct
  <2>2. CASE \E b \in FormEditors : builder[b].at = "second" BY <2>2 DEF OrdersAreDistinct
  <2>3. CASE ~overlapped /\ ~\E b \in FormEditors : builder[b].at = "second"
    <3>1. OrdersApart(FieldsThere) BY <1>1, <2>3 DEF BuildersAreWhole
    <3> QED BY <3>1 DEF OrdersAreDistinct, OrdersApart
  <2> QED BY <2>1, <2>2, <2>3
<1> QED BY <1>1, <1>2, <1>3 DEF FormsAreSound, VisitsAreKept
(* Testimonials: what was written through each link, and where it points.  *)

LinkRows   == [state : {"absent", "open", "submitted", "deleted"}, quote : 0..MaxQuotes]
QuoteRecs  == [by : Links \cup {Owner, NoLink}, published : BOOLEAN]
WriterRows == [at : {"idle", "insert", "point"}, link : Links \cup {NoLink}, id : 0..MaxQuotes]
FormRows   == [id : 0..MaxQuotes, by : Links \cup {Owner, NoLink}]

\* The quotes with a client's own words.
Own(l)       == {i \in QuoteRows \ mistaken : quote[i].by = l}
Writes(w, l) == writer[w].link = l /\ writer[w].at # "idle"

QuotesAreWhole ==
  /\ \A i \in QuoteIds : quote[i].by = NoLink => quote[i] = FreeRow
  /\ \A m \in Moderators : moderator[m].id # NoQuote => moderator[m].by # NoLink
  /\ \A l \in Links : link[l].quote # NoQuote => link[l].quote \in QuoteRows
  /\ mistaken \subseteq QuoteRows
WritersAreWhole == \A w \in Writers :
  /\ writer[w].at = "idle" => writer[w] = NoWriter
  /\ writer[w].at # "idle" => writer[w].link \in Links
  /\ writer[w].at = "point" => writer[w].id \in QuoteIds

\* A link that was not rushed is written through by one at a time, once.
Underway(l) == \A w \in Writers : Writes(w, l) =>
  /\ \A v \in Writers : Writes(v, l) => v = w
  /\ link[l].state \in {"open", "deleted"}
  /\ writer[w].at = "insert" => Own(l) = {}
  /\ writer[w].at = "point" => Own(l) \subseteq {writer[w].id}
Written(l) == (\A w \in Writers : ~Writes(w, l)) =>
  /\ link[l].state \in {"absent", "open"} => Own(l) = {}
  /\ link[l].state = "submitted" => Own(l) \subseteq {link[l].quote}
  /\ \E i \in 0..MaxQuotes : Own(l) \subseteq {i}
Points(l) == link[l].quote # NoQuote /\ link[l].quote \notin mistaken => quote[link[l].quote].by = l
LinksHold == \A l \in Links \ rushed : Underway(l) /\ Written(l) /\ Points(l)

QuotesInv == QuotesTypeOK /\ QuotesAreWhole /\ WritersAreWhole /\ LinksHold

LEMMA QuotesTyped ==
  ASSUME QuotesTypeOK
  PROVE  /\ link \in [Links -> LinkRows] /\ quote \in [QuoteIds -> QuoteRecs]
         /\ writer \in [Writers -> WriterRows] /\ moderator \in [Moderators -> FormRows]
BY DEF QuotesTypeOK, LinkRows, QuoteRecs, WriterRows, FormRows

LEMMA FreeQuoteRows ==
  /\ FreeRow \in QuoteRecs /\ NoWriter \in WriterRows /\ Unopened \in FormRows
  /\ FreeRow.by = NoLink /\ FreeRow.published = FALSE
  /\ NoWriter.at = "idle" /\ NoWriter.link = NoLink /\ NoWriter.id = NoQuote
  /\ Unopened.id = NoQuote /\ Unopened.by = NoLink
BY TestimonialsAssumption DEF FreeRow, NoWriter, Unopened, NoQuote, QuoteRecs, WriterRows, FormRows

LEMMA NextIsFree == ASSUME NEW i \in QuoteIds, NextId(i) PROVE i \notin QuoteRows
<1>1. QuoteRows \in SUBSET Nat /\ MaxQuotes \in Nat /\ \A k \in QuoteRows : k <= MaxQuotes
  BY TestimonialsAssumption DEF QuoteRows, QuoteIds
<1>2. CASE QuoteRows = {} BY <1>2
<1>3. CASE QuoteRows # {}
  <2>1. \E m \in QuoteRows : \A k \in QuoteRows : k <= m BY <1>1, <1>3, LastOf
  <2>2. PICK m \in QuoteRows : i = 1 + m /\ \A k \in QuoteRows : k <= m BY <1>3, <2>1 DEF NextId
  <2> QED BY <1>1, <2>2
<1> QED BY <1>2, <1>3

LEMMA QuotesInitially == ASSUME QuotesInit PROVE QuotesInv
<1>1. /\ link = [l \in Links |-> [state |-> "absent", quote |-> NoQuote]]
      /\ quote = [i \in QuoteIds |-> FreeRow] /\ writer = [w \in Writers |-> NoWriter]
      /\ moderator = [m \in Moderators |-> Unopened] /\ rushed = {} /\ mistaken = {} BY DEF QuotesInit
<1>2. NoQuote = 0 /\ 0 \in 0..MaxQuotes BY TestimonialsAssumption DEF NoQuote
<1>3. QuotesTypeOK BY <1>1, <1>2, FreeQuoteRows DEF QuotesTypeOK, QuoteRecs, WriterRows, FormRows
<1>4. QuoteRows = {} BY <1>1 DEF QuoteRows
<1>5. QuotesAreWhole /\ WritersAreWhole BY <1>1, <1>4, FreeQuoteRows DEF QuotesAreWhole, WritersAreWhole
<1>6. \A l \in Links : Own(l) = {} /\ \A w \in Writers : ~Writes(w, l) BY <1>1, <1>4, FreeQuoteRows DEF Own, Writes
<1>7. LinksHold BY <1>1, <1>2, <1>6 DEF LinksHold, Underway, Written, Points
<1> QED BY <1>3, <1>5, <1>7 DEF QuotesInv

\* The owner's forms, and what deletes rows: no writer moves, and no client gets words.
LEMMA OwnerSteps ==
  ASSUME QuotesInv, UNCHANGED <<writer, rushed>>, QuotesTypeOK', QuotesAreWhole',
         \A l \in Links : Own(l)' \subseteq Own(l),
         \A l \in Links : \/ link'[l] = link[l]
                          \/ link[l].quote \notin Own(l)' /\ link'[l] = [link[l] EXCEPT !.quote = NoQuote]
                          \/ link'[l] = [state |-> "deleted", quote |-> NoQuote]
                          \/ link[l].state = "absent" /\ link'[l].state = "open" /\ link'[l].quote = link[l].quote,
         \A l \in Links \ rushed : Points(l)'
  PROVE  QuotesInv'
<1>1. QuotesTypeOK /\ WritersAreWhole /\ LinksHold BY DEF QuotesInv
<1>2. WritersAreWhole' BY <1>1 DEF WritersAreWhole
<1>3. \A l \in Links : link[l] \in LinkRows BY <1>1, QuotesTyped
<1>4. ASSUME NEW l \in Links \ rushed PROVE Underway(l)' /\ Written(l)'
  <2>0. PICK old \in LinkRows : old = link[l] BY <1>3
  <2>1. \/ link'[l] = old
        \/ old.quote \notin Own(l)' /\ link'[l].state = old.state
        \/ link'[l].state = "deleted"
        \/ old.state = "absent" /\ link'[l].state = "open"
    <3>1. CASE link'[l] = link[l] BY <2>0, <3>1
    <3>2. CASE link[l].quote \notin Own(l)' /\ link'[l] = [link[l] EXCEPT !.quote = NoQuote]
      <4>1. link'[l] = [old EXCEPT !.quote = NoQuote] BY <2>0, <3>2
      <4>2. link'[l].state = old.state BY <4>1 DEF LinkRows
      <4> QED BY <2>0, <3>2, <4>2
    <3>3. CASE link'[l] = [state |-> "deleted", quote |-> NoQuote]
      <4>1. link'[l].state = "deleted" BY <3>3
      <4> QED BY <4>1
    <3>4. CASE link[l].state = "absent" /\ link'[l].state = "open" BY <2>0, <3>4
    <3> QED BY <3>1, <3>2, <3>3, <3>4
  <2>2. Underway(l) /\ Written(l) BY <1>1 DEF LinksHold
  <2>3. \A w \in Writers : Writes(w, l)' <=> Writes(w, l) BY DEF Writes
  <2>4. Own(l)' \subseteq Own(l) OBVIOUS
  <2>5. Underway(l)' BY <2>0, <2>1, <2>2, <2>3, <2>4 DEF Underway
  <2>6. Written(l)'
    <3> SUFFICES ASSUME \A w \in Writers : ~Writes(w, l)
                 PROVE  /\ link'[l].state \in {"absent", "open"} => Own(l)' = {}
                        /\ link'[l].state = "submitted" => Own(l)' \subseteq {link'[l].quote}
                        /\ \E i \in 0..MaxQuotes : Own(l)' \subseteq {i} BY <2>3 DEF Written
    <3>1. /\ old.state \in {"absent", "open"} => Own(l) = {}
          /\ old.state = "submitted" => Own(l) \subseteq {old.quote}
          /\ \E i \in 0..MaxQuotes : Own(l) \subseteq {i} BY <2>0, <2>2 DEF Written
    <3>2. \E i \in 0..MaxQuotes : Own(l)' \subseteq {i} BY <2>4, <3>1
    <3>3. CASE link'[l] = old BY <2>4, <3>1, <3>2, <3>3
    <3>4. CASE old.quote \notin Own(l)' /\ link'[l].state = old.state
      <4>1. link'[l].state = "submitted" => Own(l)' = {} BY <2>4, <3>1, <3>4
      <4> QED BY <2>4, <3>1, <3>2, <3>4, <4>1
    <3>5. CASE link'[l].state = "deleted" BY <3>2, <3>5
    <3>6. CASE old.state = "absent" /\ link'[l].state = "open" BY <2>4, <3>1, <3>2, <3>6
    <3> QED BY <2>1, <3>3, <3>4, <3>5, <3>6
  <2> QED BY <2>5, <2>6
<1> QED BY <1>2, <1>4 DEF QuotesInv, LinksHold

LEMMA RequestKeeps == ASSUME QuotesInv, NEW l \in Links, RequestTestimonial(l) \/ DeleteLink(l) PROVE QuotesInv'
<1>1. QuotesTypeOK /\ QuotesAreWhole /\ LinksHold BY DEF QuotesInv
<1>2. UNCHANGED <<quote, writer, moderator, rushed, mistaken>> BY DEF RequestTestimonial, DeleteLink
<1>0. NoQuote \in 0..MaxQuotes /\ NoQuote \notin QuoteIds BY TestimonialsAssumption DEF NoQuote, QuoteIds
<1>3. /\ link' \in [Links -> LinkRows] /\ \A k \in Links : k # l => link'[k] = link[k]
      /\ \/ link'[l] = [state |-> "deleted", quote |-> NoQuote]
         \/ link[l].state = "absent" /\ link'[l].state = "open" /\ link'[l].quote = link[l].quote
  <2>1. CASE RequestTestimonial(l)
    <3>1. link[l].state = "absent" /\ link' = [link EXCEPT ![l].state = "open"] BY <2>1 DEF RequestTestimonial
    <3> QED BY <1>1, <3>1, QuotesTyped DEF LinkRows
  <2>2. CASE DeleteLink(l)
    <3>1. link' = [link EXCEPT ![l] = [state |-> "deleted", quote |-> NoQuote]] BY <2>2 DEF DeleteLink
    <3>2. [state |-> "deleted", quote |-> NoQuote] \in LinkRows BY <1>0 DEF LinkRows
    <3> QED BY <1>1, <3>1, <3>2, QuotesTyped
  <2> QED BY <2>1, <2>2
<1>4. link'[l].quote = link[l].quote \/ link'[l].quote = NoQuote
  <2>1. [state |-> "deleted", quote |-> NoQuote].quote = NoQuote OBVIOUS
  <2> QED BY <1>3, <2>1
<1>5. QuotesTypeOK' BY <1>1, <1>2, <1>3 DEF QuotesTypeOK, LinkRows
<1>6. QuotesAreWhole' BY <1>1, <1>2, <1>3, <1>4 DEF QuotesAreWhole, QuoteRows
<1>7. \A k \in Links : Own(k)' = Own(k) BY <1>2 DEF Own, QuoteRows
<1>8. \A k \in Links \ rushed : Points(k)' BY <1>1, <1>2, <1>3, <1>4 DEF LinksHold, Points
<1>9. \A k \in Links : \/ link'[k] = link[k]
                       \/ link'[k] = [state |-> "deleted", quote |-> NoQuote]
                       \/ link[k].state = "absent" /\ link'[k].state = "open" /\ link'[k].quote = link[k].quote
  BY <1>3
<1> QED BY <1>2, <1>5, <1>6, <1>7, <1>8, <1>9, OwnerSteps

LEMMA OpenKeeps == ASSUME QuotesInv, NEW m \in Moderators, NEW i \in QuoteIds, OpenQuote(m, i) PROVE QuotesInv'
<1>1. QuotesTypeOK /\ QuotesAreWhole /\ LinksHold BY DEF QuotesInv
<1> PICK opened : opened = [id |-> i, by |-> quote[i].by] OBVIOUS
<1>2. /\ i \in QuoteRows /\ moderator' = [moderator EXCEPT ![m] = opened]
      /\ UNCHANGED <<link, quote, writer, rushed, mistaken>> BY DEF OpenQuote
<1>3. opened \in FormRows /\ opened.by # NoLink
  BY <1>1, <1>2, QuotesTyped, TestimonialsAssumption DEF FormRows, QuoteRecs, QuoteRows, QuotesAreWhole, QuoteIds
<1>4. moderator' \in [Moderators -> FormRows] /\ moderator'[m] = opened /\ \A n \in Moderators : n # m => moderator'[n] = moderator[n]
  BY <1>1, <1>2, <1>3, QuotesTyped
<1>5. QuotesTypeOK' BY <1>1, <1>2, <1>4 DEF QuotesTypeOK, FormRows
<1>6. QuotesAreWhole' BY <1>1, <1>2, <1>3, <1>4 DEF QuotesAreWhole, QuoteRows
<1>7. \A k \in Links : Own(k)' = Own(k) BY <1>2 DEF Own, QuoteRows
<1>8. \A k \in Links \ rushed : Points(k)' BY <1>1, <1>2 DEF LinksHold, Points
<1>9. \A k \in Links : link'[k] = link[k] BY <1>2
<1> QED BY <1>2, <1>5, <1>6, <1>7, <1>8, <1>9, OwnerSteps

\* Words written to one quote: its id was free, or its words were there or are marked.
LEMMA WrittenOver ==
  ASSUME QuotesInv, NEW i \in QuoteIds, NEW row \in QuoteRecs, quote' = [quote EXCEPT ![i] = row],
         row.by # NoLink, UNCHANGED <<link, writer, rushed>>, moderator' \in [Moderators -> FormRows],
         \A n \in Moderators : moderator'[n].id # NoQuote => moderator'[n].by # NoLink,
         mistaken \subseteq mistaken', mistaken' \subseteq mistaken \cup {i},
         row.by = Owner \/ row.by = quote[i].by \/ i \in mistaken',
         i \notin QuoteRows \/ row.by = quote[i].by \/ i \in mistaken'
  PROVE  QuotesInv'
<1>1. QuotesTypeOK /\ QuotesAreWhole /\ LinksHold BY DEF QuotesInv
<1>2. /\ quote' \in [QuoteIds -> QuoteRecs] /\ quote'[i] = row /\ \A k \in QuoteIds : k # i => quote'[k] = quote[k]
  BY <1>1, QuotesTyped
<1>3. row # FreeRow BY FreeQuoteRows
<1>4. QuoteRows' = QuoteRows \cup {i} BY <1>2, <1>3 DEF QuoteRows
<1>5. QuotesTypeOK' BY <1>1, <1>2 DEF QuotesTypeOK, QuoteRecs, FormRows
<1>6. QuotesAreWhole' BY <1>1, <1>2, <1>3, <1>4 DEF QuotesAreWhole
<1>7. ASSUME NEW k \in Links, NEW j \in Own(k)' PROVE j \in Own(k)
  <2>1. j \in QuoteRows' /\ j \notin mistaken' /\ quote'[j].by = k BY DEF Own
  <2>2. CASE j # i BY <1>2, <1>4, <2>1, <2>2 DEF Own, QuoteRows
  <2>3. CASE j = i
    <3>1. row.by = k /\ k # Owner /\ k # NoLink BY <1>2, <2>1, <2>3, TestimonialsAssumption
    <3>2. quote[i].by = k BY <2>1, <2>3, <3>1
    <3>3. i \in QuoteRows BY <3>1, <3>2, FreeQuoteRows DEF QuoteRows
    <3> QED BY <2>1, <2>3, <3>2, <3>3 DEF Own
  <2> QED BY <2>2, <2>3
<1>8. ASSUME NEW k \in Links \ rushed PROVE Points(k)'
  <2> SUFFICES ASSUME link[k].quote # NoQuote, link[k].quote \notin mistaken' PROVE quote'[link[k].quote].by = k
    BY DEF Points
  <2>1. link[k].quote \in QuoteRows /\ quote[link[k].quote].by = k BY <1>1 DEF LinksHold, Points, QuotesAreWhole
  <2>2. CASE link[k].quote = i BY <1>2, <2>1, <2>2
  <2>3. CASE link[k].quote # i BY <1>2, <2>1, <2>3 DEF QuoteRows
  <2> QED BY <2>2, <2>3
<1>9. \A k \in Links : link'[k] = link[k] OBVIOUS
<1>10. \A k \in Links : Own(k)' \subseteq Own(k) BY <1>7
<1> QED BY <1>5, <1>6, <1>8, <1>9, <1>10, OwnerSteps

LEMMA CreateQuoteKeeps == ASSUME QuotesInv, NEW p \in BOOLEAN, CreateTestimonial(p) PROVE QuotesInv'
<1>1. QuotesTypeOK /\ QuotesAreWhole BY DEF QuotesInv
<1> PICK row : row = [by |-> Owner, published |-> p] OBVIOUS
<1>2. UNCHANGED <<link, writer, moderator, rushed, mistaken>> BY DEF CreateTestimonial
<1>3. PICK i \in QuoteIds : NextId(i) /\ quote' = [quote EXCEPT ![i] = row] BY DEF CreateTestimonial
<1>4. row \in QuoteRecs /\ row.by = Owner /\ row.by # NoLink BY TestimonialsAssumption DEF QuoteRecs
<1>5. i \notin QuoteRows BY <1>3, NextIsFree
<1>6. moderator' \in [Moderators -> FormRows] /\ \A n \in Moderators : moderator'[n].id # NoQuote => moderator'[n].by # NoLink
  BY <1>1, <1>2, QuotesTyped DEF QuotesAreWhole
<1> QED BY <1>2, <1>3, <1>4, <1>5, <1>6, WrittenOver

LEMMA UpdateKeeps == ASSUME QuotesInv, NEW m \in Moderators, NEW p \in BOOLEAN, UpdateTestimonial(m, p) PROVE QuotesInv'
<1>1. QuotesTypeOK /\ QuotesAreWhole BY DEF QuotesInv
<1> PICK i : i = moderator[m].id OBVIOUS
<1> PICK row : row = [by |-> moderator[m].by, published |-> p] OBVIOUS
<1>2. /\ i \in QuoteRows /\ quote' = [quote EXCEPT ![i] = row]
      /\ mistaken' = IF quote[i].by # row.by THEN mistaken \cup {i} ELSE mistaken
      /\ moderator' = [moderator EXCEPT ![m] = Unopened]
      /\ UNCHANGED <<link, writer, rushed>> BY DEF UpdateTestimonial
<1>3. i \in QuoteIds /\ i # NoQuote BY <1>2, TestimonialsAssumption DEF QuoteRows, QuoteIds, NoQuote
<1>4. row \in QuoteRecs /\ row.by # NoLink BY <1>1, <1>3, QuotesTyped DEF QuoteRecs, FormRows, QuotesAreWhole
<1>5. /\ moderator' \in [Moderators -> FormRows] /\ moderator'[m] = Unopened
      /\ \A n \in Moderators : n # m => moderator'[n] = moderator[n] BY <1>1, <1>2, FreeQuoteRows, QuotesTyped
<1>6. \A n \in Moderators : moderator'[n].id # NoQuote => moderator'[n].by # NoLink
  BY <1>1, <1>5, FreeQuoteRows DEF QuotesAreWhole
<1>7. row.by = quote[i].by \/ i \in mistaken' BY <1>2
<1>8. mistaken \subseteq mistaken' /\ mistaken' \subseteq mistaken \cup {i} BY <1>2
<1> QED BY <1>2, <1>3, <1>4, <1>5, <1>6, <1>7, <1>8, WrittenOver

LEMMA DeleteQuoteKeeps == ASSUME QuotesInv, NEW i \in QuoteIds, DeleteTestimonial(i) PROVE QuotesInv'
<1>1. QuotesTypeOK /\ QuotesAreWhole /\ LinksHold BY DEF QuotesInv
<1>2. /\ i \in QuoteRows /\ quote' = [quote EXCEPT ![i] = FreeRow]
      /\ link' = [l \in Links |-> IF link[l].quote = i THEN [link[l] EXCEPT !.quote = NoQuote] ELSE link[l]]
      /\ mistaken' = mistaken \ {i} /\ UNCHANGED <<writer, moderator, rushed>> BY DEF DeleteTestimonial, Unpointed
<1>3. /\ quote' \in [QuoteIds -> QuoteRecs] /\ quote'[i] = FreeRow /\ \A k \in QuoteIds : k # i => quote'[k] = quote[k]
  BY <1>1, <1>2, FreeQuoteRows, QuotesTyped
<1>0. NoQuote \in 0..MaxQuotes /\ NoQuote \notin QuoteIds BY TestimonialsAssumption DEF NoQuote, QuoteIds
<1>4. \A l \in Links : \/ link'[l] = link[l] /\ link[l].quote # i
                       \/ /\ link[l].quote = i /\ link'[l] = [link[l] EXCEPT !.quote = NoQuote]
                          /\ link'[l].quote = NoQuote /\ link'[l] \in LinkRows
  BY <1>0, <1>1, <1>2, QuotesTyped DEF LinkRows
<1>5. link' \in [Links -> LinkRows]
  <2>1. \A l \in Links : link'[l] \in LinkRows BY <1>1, <1>4, QuotesTyped
  <2>2. link' = [l \in Links |-> link'[l]] BY <1>2
  <2> QED BY ONLY <2>1, <2>2
<1>6. QuoteRows' = QuoteRows \ {i} BY <1>3 DEF QuoteRows
<1>7. QuotesTypeOK' BY <1>1, <1>2, <1>3, <1>5 DEF QuotesTypeOK, QuoteRecs, LinkRows
<1>8. QuotesAreWhole' BY <1>1, <1>2, <1>3, <1>4, <1>6, FreeQuoteRows DEF QuotesAreWhole
<1>9. \A l \in Links : Own(l)' \subseteq Own(l) \ {i} BY <1>2, <1>3, <1>6 DEF Own, QuoteRows
<1>10. \A l \in Links \ rushed : Points(l)'
  <2> SUFFICES ASSUME NEW l \in Links \ rushed, link'[l].quote # NoQuote, link'[l].quote \notin mistaken'
               PROVE  quote'[link'[l].quote].by = l BY DEF Points
  <2>1. link'[l] = link[l] /\ link[l].quote # i BY <1>4
  <2>2. link[l].quote \in QuoteRows /\ link[l].quote \notin mistaken BY <1>1, <1>2, <2>1 DEF QuotesAreWhole
  <2>3. quote[link[l].quote].by = l BY <1>1, <2>1, <2>2 DEF LinksHold, Points
  <2> QED BY <1>3, <2>1, <2>2, <2>3 DEF QuoteRows
<1>11. \A l \in Links : \/ link'[l] = link[l]
                        \/ link[l].quote \notin Own(l)' /\ link'[l] = [link[l] EXCEPT !.quote = NoQuote] BY <1>4, <1>9
<1>12. \A l \in Links : Own(l)' \subseteq Own(l) BY <1>9
<1> QED BY <1>2, <1>7, <1>8, <1>10, <1>11, <1>12, OwnerSteps

\* A writer goes on; what is under way through the other links stays as it was.
LEMMA OtherLinks ==
  ASSUME QuotesInv, NEW w \in Writers, NEW row \in WriterRows, writer' = [writer EXCEPT ![w] = row],
         NEW l \in Links \ rushed, link'[l] = link[l], Own(l)' = Own(l), ~Writes(w, l),
         row.at # "idle" => row.link # l
  PROVE  Underway(l)' /\ Written(l)'
<1>1. QuotesTypeOK /\ LinksHold BY DEF QuotesInv
<1>2. writer'[w] = row /\ \A v \in Writers : v # w => writer'[v] = writer[v] BY <1>1, QuotesTyped
<1>3. \A v \in Writers : Writes(v, l)' <=> Writes(v, l) BY <1>2 DEF Writes
<1>4. \A v \in Writers : Writes(v, l) => writer'[v] = writer[v] BY <1>2
<1>5. Underway(l) /\ Written(l) BY <1>1 DEF LinksHold
<1>6. Underway(l)' BY <1>3, <1>4, <1>5 DEF Underway
<1>7. Written(l)' BY <1>3, <1>5 DEF Written
<1> QED BY <1>6, <1>7

LEMMA SubmitReadKeeps == ASSUME QuotesInv, NEW w \in Writers, NEW l \in Links, SubmitRead(w, l) PROVE QuotesInv'
<1>1. QuotesTypeOK /\ QuotesAreWhole /\ WritersAreWhole /\ LinksHold BY DEF QuotesInv
<1> PICK row : row = [at |-> "insert", link |-> l, id |-> NoQuote] OBVIOUS
<1>2. /\ writer[w] = NoWriter /\ link[l].state = "open" /\ writer' = [writer EXCEPT ![w] = row]
      /\ rushed' = IF \E v \in Writers : writer[v].link = l THEN rushed \cup {l} ELSE rushed
      /\ UNCHANGED <<link, quote, moderator, mistaken>> BY DEF SubmitRead, Submittable
<1>3. row \in WriterRows /\ row.at = "insert" /\ row.link = l BY TestimonialsAssumption DEF WriterRows, NoQuote
<1>4. /\ writer' \in [Writers -> WriterRows] /\ writer'[w] = row /\ \A v \in Writers : v # w => writer'[v] = writer[v]
  BY <1>1, <1>2, <1>3, QuotesTyped
<1>5. rushed \subseteq rushed' /\ rushed' \subseteq rushed \cup {l} BY <1>2
<1>6. QuotesTypeOK' BY <1>1, <1>2, <1>4, <1>5 DEF QuotesTypeOK, WriterRows
<1>7. QuotesAreWhole' BY <1>1, <1>2 DEF QuotesAreWhole, QuoteRows
<1>8. WritersAreWhole' BY <1>1, <1>3, <1>4 DEF WritersAreWhole
<1>9. \A k \in Links : Own(k)' = Own(k) BY <1>2 DEF Own, QuoteRows
<1>10. \A k \in Links \ rushed' : Points(k)' BY <1>1, <1>2, <1>5 DEF LinksHold, Points
<1>11. \A k \in Links : ~Writes(w, k) BY <1>2, FreeQuoteRows DEF Writes
<1>12. ASSUME NEW k \in Links \ rushed' PROVE Underway(k)' /\ Written(k)'
  <2>1. k \in Links \ rushed BY <1>5
  <2>2. CASE k # l BY <1>2, <1>3, <1>9, <1>11, <2>1, <2>2, OtherLinks
  <2>3. CASE k = l
    <3>1. \A v \in Writers : writer[v].link # l BY <1>2, <2>3
    <3>2. \A v \in Writers : ~Writes(v, l) /\ (v # w => ~Writes(v, l)') BY <1>4, <3>1 DEF Writes
    <3>3. Own(l) = {} BY <1>1, <1>2, <2>1, <2>3, <3>2 DEF LinksHold, Written
    <3>4. Writes(w, l)' BY <1>3, <1>4 DEF Writes
    <3>5. Underway(l)' BY <1>2, <1>3, <1>4, <1>9, <3>2, <3>3 DEF Underway
    <3>6. Written(l)' BY <3>4 DEF Written
    <3> QED BY <2>3, <3>5, <3>6
  <2> QED BY <2>2, <2>3
<1> QED BY <1>6, <1>7, <1>8, <1>10, <1>12 DEF QuotesInv, LinksHold

LEMMA SubmitInsertKeeps == ASSUME QuotesInv, NEW w \in Writers, SubmitInsert(w) PROVE QuotesInv'
<1>1. QuotesTypeOK /\ QuotesAreWhole /\ WritersAreWhole /\ LinksHold BY DEF QuotesInv
<1> PICK l : l = writer[w].link OBVIOUS
<1> PICK words : words = [by |-> l, published |-> FALSE] OBVIOUS
<1>2. writer[w].at = "insert" /\ UNCHANGED <<link, moderator, rushed, mistaken>> BY DEF SubmitInsert
<1>3. PICK i \in QuoteIds : /\ NextId(i) /\ quote' = [quote EXCEPT ![i] = words]
                            /\ writer' = [writer EXCEPT ![w].at = "point", ![w].id = i] BY DEF SubmitInsert, Landed
<1>4. l \in Links /\ i \notin QuoteRows /\ i \in 0..MaxQuotes
  BY <1>1, <1>2, <1>3, NextIsFree, TestimonialsAssumption DEF WritersAreWhole, QuoteIds
<1>5. words \in QuoteRecs /\ words.by = l /\ l # NoLink /\ words # FreeRow
  BY <1>4, FreeQuoteRows, TestimonialsAssumption DEF QuoteRecs
<1>6. /\ quote' \in [QuoteIds -> QuoteRecs] /\ quote'[i] = words /\ \A k \in QuoteIds : k # i => quote'[k] = quote[k]
  BY <1>1, <1>3, <1>5, QuotesTyped
<1> PICK row : row = [writer[w] EXCEPT !.at = "point", !.id = i] OBVIOUS
<1>7. /\ writer' = [writer EXCEPT ![w] = row] /\ row \in WriterRows
      /\ row.at = "point" /\ row.id = i /\ row.link = l BY <1>1, <1>3, <1>4, QuotesTyped DEF WriterRows
<1>8. /\ writer' \in [Writers -> WriterRows] /\ writer'[w] = row /\ \A v \in Writers : v # w => writer'[v] = writer[v]
  BY <1>1, <1>7, QuotesTyped
<1>9. QuoteRows' = QuoteRows \cup {i} BY <1>5, <1>6 DEF QuoteRows
<1>10. QuotesTypeOK' BY <1>1, <1>2, <1>6, <1>8 DEF QuotesTypeOK, WriterRows, QuoteRecs
<1>11. QuotesAreWhole' BY <1>1, <1>2, <1>5, <1>6, <1>9 DEF QuotesAreWhole
<1>12. WritersAreWhole' BY <1>1, <1>3, <1>4, <1>7, <1>8 DEF WritersAreWhole
<1>13. \A k \in Links : k # l => Own(k)' = Own(k)
  <2> SUFFICES ASSUME NEW k \in Links, k # l PROVE \A j \in QuoteIds : j \in Own(k)' <=> j \in Own(k)
    BY DEF Own, QuoteRows
  <2> QED BY <1>2, <1>4, <1>5, <1>6, <1>9 DEF Own, QuoteRows
<1>14. Own(l)' \subseteq Own(l) \cup {i} BY <1>2, <1>6, <1>9 DEF Own, QuoteRows
<1>15. \A k \in Links \ rushed' : Points(k)'
  <2> SUFFICES ASSUME NEW k \in Links \ rushed, link[k].quote # NoQuote, link[k].quote \notin mistaken
               PROVE  quote'[link[k].quote].by = k BY <1>2 DEF Points
  <2>1. link[k].quote \in QuoteRows /\ quote[link[k].quote].by = k BY <1>1 DEF LinksHold, Points, QuotesAreWhole
  <2> QED BY <1>4, <1>6, <2>1 DEF QuoteRows
<1>16. Writes(w, l) /\ \A k \in Links : k # l => ~Writes(w, k) BY <1>2 DEF Writes
<1>17. ASSUME NEW k \in Links \ rushed' PROVE Underway(k)' /\ Written(k)'
  <2>1. k \in Links \ rushed BY <1>2
  <2>2. CASE k # l BY <1>2, <1>7, <1>13, <1>16, <2>1, <2>2, OtherLinks
  <2>3. CASE k = l
    <3>1. Underway(l) BY <1>1, <2>1, <2>3 DEF LinksHold
    <3>2. Own(l) = {} /\ link[l].state \in {"open", "deleted"} /\ \A v \in Writers : Writes(v, l) => v = w
      BY <1>2, <1>16, <3>1 DEF Underway
    <3>3. \A v \in Writers : Writes(v, l)' <=> v = w BY <1>7, <1>8, <1>16, <3>2 DEF Writes
    <3>4. Own(l)' \subseteq {i} BY <1>14, <3>2
    <3>5. Underway(l)' BY <1>2, <1>7, <1>8, <3>2, <3>3, <3>4 DEF Underway
    <3>6. Written(l)' BY <3>3 DEF Written
    <3> QED BY <2>3, <3>5, <3>6
  <2> QED BY <2>2, <2>3
<1> QED BY <1>10, <1>11, <1>12, <1>15, <1>17 DEF QuotesInv, LinksHold

LEMMA SubmitPointKeeps == ASSUME QuotesInv, NEW w \in Writers, SubmitPoint(w) PROVE QuotesInv'
<1>1. QuotesTypeOK /\ QuotesAreWhole /\ WritersAreWhole /\ LinksHold BY DEF QuotesInv
<1> PICK l : l = writer[w].link OBVIOUS
<1> PICK i : i = writer[w].id OBVIOUS
<1> PICK row : row = [state |-> "submitted", quote |-> i] OBVIOUS
<1>2. /\ writer[w].at = "point"
      /\ link' = IF i \in QuoteRows /\ link[l].state # "deleted" THEN [link EXCEPT ![l] = row] ELSE link
      /\ rushed' = IF i \in QuoteRows /\ quote[i].by = l THEN rushed ELSE rushed \cup {l}
      /\ writer' = [writer EXCEPT ![w] = NoWriter]
      /\ UNCHANGED <<quote, moderator, mistaken>> BY DEF SubmitPoint
<1>3. l \in Links /\ i \in QuoteIds /\ i \in 0..MaxQuotes /\ i # NoQuote
  BY <1>1, <1>2, TestimonialsAssumption DEF WritersAreWhole, QuoteIds, NoQuote
<1>4. row \in LinkRows /\ row.state = "submitted" /\ row.quote = i BY <1>3 DEF LinkRows
<1>5. /\ link' \in [Links -> LinkRows] /\ \A k \in Links : k # l => link'[k] = link[k]
      /\ \/ link'[l] = row /\ i \in QuoteRows /\ link[l].state # "deleted"
         \/ link'[l] = link[l] /\ (i \notin QuoteRows \/ link[l].state = "deleted")
  BY <1>1, <1>2, <1>3, <1>4, QuotesTyped
<1>6. rushed \subseteq rushed' /\ rushed' \subseteq rushed \cup {l} /\ (l \notin rushed' => i \in QuoteRows /\ quote[i].by = l)
  BY <1>2
<1>7. /\ writer' \in [Writers -> WriterRows] /\ writer'[w] = NoWriter /\ \A v \in Writers : v # w => writer'[v] = writer[v]
  BY <1>1, <1>2, FreeQuoteRows, QuotesTyped
<1>8. QuotesTypeOK'
  <2>1. rushed' \subseteq Links BY <1>1, <1>3, <1>6 DEF QuotesTypeOK
  <2> QED BY <1>1, <1>2, <1>5, <1>7, <2>1 DEF QuotesTypeOK, WriterRows, LinkRows
<1>9. QuotesAreWhole'
  <2>1. \A k \in Links : link'[k].quote # NoQuote => link'[k].quote \in QuoteRows BY <1>1, <1>4, <1>5 DEF QuotesAreWhole
  <2> QED BY <1>1, <1>2, <2>1 DEF QuotesAreWhole, QuoteRows
<1>10. WritersAreWhole' BY <1>1, <1>7, FreeQuoteRows DEF WritersAreWhole
<1>11. \A k \in Links : Own(k)' = Own(k) BY <1>2 DEF Own, QuoteRows
<1>12. \A k \in Links \ rushed' : Points(k)'
  <2> SUFFICES ASSUME NEW k \in Links \ rushed', link'[k].quote # NoQuote, link'[k].quote \notin mistaken
               PROVE  quote[link'[k].quote].by = k BY <1>2 DEF Points
  <2>1. Points(k) BY <1>1, <1>6 DEF LinksHold
  <2>2. CASE link'[k] = link[k] BY <2>1, <2>2 DEF Points
  <2>3. CASE k = l /\ link'[l] = row BY <1>4, <1>6, <2>3
  <2> QED BY <1>5, <2>2, <2>3
<1>13. Writes(w, l) /\ \A k \in Links : k # l => ~Writes(w, k) BY <1>2 DEF Writes
<1>14. ASSUME NEW k \in Links \ rushed' PROVE Underway(k)' /\ Written(k)'
  <2>1. k \in Links \ rushed BY <1>6
  <2>2. CASE k # l BY <1>2, <1>5, <1>11, <1>13, <2>1, <2>2, FreeQuoteRows, OtherLinks
  <2>3. CASE k = l
    <3>1. Underway(l) BY <1>1, <2>1, <2>3 DEF LinksHold
    <3>2. Own(l) \subseteq {i} /\ link[l].state \in {"open", "deleted"} /\ \A v \in Writers : Writes(v, l) => v = w
      BY <1>2, <1>13, <3>1 DEF Underway
    <3>3. \A v \in Writers : ~Writes(v, l)' BY <1>7, <3>2, FreeQuoteRows DEF Writes
    <3>4. i \in QuoteRows BY <1>6, <2>3
    <3>5. (link'[l].state = "submitted" /\ link'[l].quote = i) \/ link'[l].state = "deleted" BY <1>4, <1>5, <3>2, <3>4
    <3>6. Written(l)' BY <1>3, <1>11, <3>2, <3>5 DEF Written
    <3>7. Underway(l)' BY <3>3 DEF Underway
    <3> QED BY <2>3, <3>6, <3>7
  <2> QED BY <2>2, <2>3
<1> QED BY <1>8, <1>9, <1>10, <1>12, <1>14 DEF QuotesInv, LinksHold

LEMMA WriterEndsKeeps == ASSUME QuotesInv, NEW w \in Writers, WriterEnds(w) PROVE QuotesInv'
<1>1. QuotesTypeOK /\ QuotesAreWhole /\ WritersAreWhole /\ LinksHold BY DEF QuotesInv
<1> PICK l : l = writer[w].link OBVIOUS
<1>2. /\ writer[w] # NoWriter /\ rushed' = rushed \cup {l} /\ writer' = [writer EXCEPT ![w] = NoWriter]
      /\ UNCHANGED <<link, quote, moderator, mistaken>> BY DEF WriterEnds
<1>3. l \in Links BY <1>1, <1>2 DEF WritersAreWhole
<1>4. /\ writer' \in [Writers -> WriterRows] /\ writer'[w] = NoWriter /\ \A v \in Writers : v # w => writer'[v] = writer[v]
  BY <1>1, <1>2, FreeQuoteRows, QuotesTyped
<1>5. QuotesTypeOK' BY <1>1, <1>2, <1>3, <1>4 DEF QuotesTypeOK, WriterRows
<1>6. QuotesAreWhole' BY <1>1, <1>2 DEF QuotesAreWhole, QuoteRows
<1>7. WritersAreWhole' BY <1>1, <1>4, FreeQuoteRows DEF WritersAreWhole
<1>8. \A k \in Links : Own(k)' = Own(k) BY <1>2 DEF Own, QuoteRows
<1>9. \A k \in Links \ rushed' : Points(k)' BY <1>1, <1>2 DEF LinksHold, Points
<1>10. ASSUME NEW k \in Links \ rushed' PROVE Underway(k)' /\ Written(k)'
  <2>1. k \in Links \ rushed /\ k # l BY <1>2
  <2>2. ~Writes(w, k) BY <2>1 DEF Writes
  <2> QED BY <1>2, <1>8, <2>1, <2>2, FreeQuoteRows, OtherLinks
<1> QED BY <1>5, <1>6, <1>7, <1>9, <1>10 DEF QuotesInv, LinksHold

LEMMA QuotesStep == ASSUME QuotesInv, QuotesNext PROVE QuotesInv'
<1>1. ASSUME NEW l \in Links, RequestTestimonial(l) \/ DeleteLink(l) PROVE QuotesInv' BY <1>1, RequestKeeps
<1>2. ASSUME NEW w \in Writers, SubmitInsert(w) \/ SubmitPoint(w) \/ WriterEnds(w) PROVE QuotesInv'
  BY <1>2, SubmitInsertKeeps, SubmitPointKeeps, WriterEndsKeeps
<1>3. ASSUME NEW w \in Writers, NEW l \in Links, SubmitRead(w, l) PROVE QuotesInv' BY <1>3, SubmitReadKeeps
<1>4. ASSUME NEW p \in BOOLEAN, CreateTestimonial(p) PROVE QuotesInv' BY <1>4, CreateQuoteKeeps
<1>5. ASSUME NEW p \in BOOLEAN, NEW m \in Moderators, UpdateTestimonial(m, p) PROVE QuotesInv' BY <1>5, UpdateKeeps
<1>6. ASSUME NEW i \in QuoteIds, DeleteTestimonial(i) PROVE QuotesInv' BY <1>6, DeleteQuoteKeeps
<1>7. ASSUME NEW i \in QuoteIds, NEW m \in Moderators, OpenQuote(m, i) PROVE QuotesInv' BY <1>7, OpenKeeps
<1> QED BY <1>1, <1>2, <1>3, <1>4, <1>5, <1>6, <1>7 DEF QuotesNext

LEMMA QuotesRest == ASSUME QuotesInv, UNCHANGED quoteVars PROVE QuotesInv'
<1> USE DEF quoteVars
<1>1. QuotesTypeOK' /\ QuotesAreWhole' /\ WritersAreWhole'
  BY DEF QuotesInv, QuotesTypeOK, QuotesAreWhole, WritersAreWhole, QuoteRows
<1>2. \A l \in Links : Own(l)' = Own(l) /\ \A w \in Writers : Writes(w, l)' <=> Writes(w, l) BY DEF Own, QuoteRows, Writes
<1>3. LinksHold' BY <1>2 DEF QuotesInv, LinksHold, Underway, Written, Points
<1> QED BY <1>1, <1>3 DEF QuotesInv

LEMMA QuotesMean == ASSUME QuotesInv PROVE TestimonialsHold
<1>1. QuotesTypeOK /\ QuotesAreWhole /\ WritersAreWhole /\ LinksHold BY DEF QuotesInv
<1>2. ASSUME NEW i \in QuoteRows \ mistaken, quote[i].by \in Links, quote[i].by \notin rushed,
             link[quote[i].by].state # "deleted"
      PROVE  link[quote[i].by].quote = i \/ \E w \in Writers : writer[w].id = i
  <2> PICK l \in Links \ rushed : l = quote[i].by BY <1>2
  <2>1. i \in Own(l) /\ Underway(l) /\ Written(l) BY <1>1, <1>2 DEF Own, LinksHold
  <2>2. CASE \E w \in Writers : Writes(w, l)
    <3>1. PICK w \in Writers : Writes(w, l) BY <2>2
    <3>2. writer[w].at \in {"insert", "point"} BY <1>1, <3>1, QuotesTyped DEF Writes, WriterRows
    <3>3. writer[w].id = i BY <2>1, <3>1, <3>2 DEF Underway
    <3> QED BY <3>3
  <2>3. CASE \A w \in Writers : ~Writes(w, l)
    <3>1. link[l].state \in {"absent", "open", "submitted", "deleted"} BY <1>1, QuotesTyped DEF LinkRows
    <3>2. link[l].quote = i BY <1>2, <2>1, <2>3, <3>1 DEF Written
    <3> QED BY <3>2
  <2> QED BY <2>2, <2>3
<1>3. SubmissionsAreNoticed BY <1>2 DEF SubmissionsAreNoticed
<1>4. ASSUME NEW l \in Links \ rushed PROVE Cardinality(Own(l)) <= 1
  <2>1. Underway(l) /\ Written(l) BY <1>1 DEF LinksHold
  <2>2. \E i \in 0..MaxQuotes : Own(l) \subseteq {i}
    <3>1. CASE \E w \in Writers : Writes(w, l)
      <4>1. PICK w \in Writers : Writes(w, l) BY <3>1
      <4>2. writer[w].at \in {"insert", "point"} /\ writer[w].id \in 0..MaxQuotes
        BY <1>1, <4>1, QuotesTyped DEF Writes, WriterRows
      <4>3. Own(l) \subseteq {writer[w].id} BY <2>1, <4>1, <4>2 DEF Underway
      <4> QED BY <4>2, <4>3
    <3>2. CASE \A w \in Writers : ~Writes(w, l) BY <2>1, <3>2 DEF Written
    <3> QED BY <3>1, <3>2
  <2>3. PICK i : Own(l) \subseteq {i} BY <2>2
  <2>4. IsFiniteSet({i}) /\ Cardinality({i}) = 1 BY FS_Singleton
  <2> QED BY <2>3, <2>4, FS_Subset
<1>5. OneQuotePerLink BY <1>1, <1>4 DEF OneQuotePerLink, LinksHold, Points, Own
<1> QED BY <1>3, <1>5 DEF TestimonialsHold
=============================================================================
