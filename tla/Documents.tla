----------------------------- MODULE Documents -----------------------------
(***************************************************************************)
(* The proposals and contracts of one project and the project's stage:     *)
(* the studio's handlers (app/admin/proposals.py, contracts.py, emails.py, *)
(* studio.py) and the client's (app/public/docs.py).                       *)
(*                                                                         *)
(* A handler reads its document in one statement, checks the status it     *)
(* read, and writes in a later statement that names only the id.  What it  *)
(* read is kept in desk; any other request may come in between.  A create  *)
(* or a duplicate only adds a row of its own, so it is one step.           *)
(*                                                                         *)
(* Of a document's content the model keeps the total: a proposal's, and    *)
(* the one a contract's text names (NoTotal: it names none).               *)
(***************************************************************************)
EXTENDS Naturals, Sequences

CONSTANTS
  Proposals, Contracts,  \* row ids
  Requests,              \* requests at work at once, the client's or the studio's
  HandStages,            \* bound: the stages the board moves the project to
  Totals,                \* amounts
  NoTotal,               \* a text that names no amount
  Nobody                 \* no document

\* PROJECT_STATUSES, in the order of the board.
Stages == {"inquiry_received", "consultation_call", "proposal_sent", "contract_signed",
           "retainer_paid", "session_planning", "project_closed", "archived"}

ASSUME DocumentsAssumption ==
  /\ NoTotal \notin Totals
  /\ Nobody \notin Proposals /\ Nobody \notin Contracts
  /\ Proposals \cap Contracts = {}
  /\ HandStages \subseteq Stages

Documents == Proposals \cup Contracts
Wordings == Totals \cup {NoTotal}

ProposalStates == {"absent", "draft", "sent", "viewed", "accepted", "declined"}
ContractStates == {"absent", "draft", "sent", "viewed", "signed"}

VARIABLES
  proposal,   \* each proposal: [status, total]
  contract,   \* each contract: [status, text, hashed, countersigned]
  accepts,    \* the acceptances in order: a proposal's last one is its accepted_at
  stage,      \* projects.status
  notices,    \* decision notices staged for the owner: <<proposal, decision>>
  desk,       \* each request: what it is doing, to which document, and what it read
  \* history
  agreed,     \* each contract: the text its last signer was shown
  converted,  \* each conversion: the totals of its contract and of its invoice, and
              \* whether its proposal was the one accepted last
  unlocked    \* TRUE once a decided or sent document was written over

rows     == <<proposal, contract, accepts, stage>>
docsVars == <<rows, notices, desk, agreed, converted, unlocked>>

NoRow == [status |-> "absent", total |-> NoTotal, text |-> NoTotal]
Resting == [at |-> "idle", doc |-> Nobody, row |-> NoRow]

DocsInit ==
  /\ proposal = [p \in Proposals |-> [status |-> "absent", total |-> NoTotal]]
  /\ contract = [c \in Contracts |-> [status |-> "absent", text |-> NoTotal,
                                      hashed |-> NoTotal, countersigned |-> FALSE]]
  /\ accepts = <<>>
  /\ stage = "inquiry_received"
  /\ notices = {}
  /\ desk = [r \in Requests |-> Resting]
  /\ agreed = [c \in Contracts |-> NoTotal]
  /\ converted = {}
  /\ unlocked = FALSE

-----------------------------------------------------------------------------
\* A request reads its document, and goes on to write it as "at" says.
Reads(r, at, d, status, total, text) ==
  /\ desk[r] = Resting
  /\ desk' = [desk EXCEPT ![r] =
        [at |-> at, doc |-> d, row |-> [status |-> status, total |-> total, text |-> text]]]

\* Of the content only what the handler uses again is kept.
ReadsProposal(r, at, p) ==
  Reads(r, at, p, proposal[p].status, IF at = "convert" THEN proposal[p].total ELSE NoTotal,
        NoTotal)

ReadsContract(r, at, c) ==
  Reads(r, at, c, contract[c].status, NoTotal,
        IF at \in {"sign", "send"} THEN contract[c].text ELSE NoTotal)

GoesOn(r, at) == desk' = [desk EXCEPT ![r].at = at]
Leaves(r) == desk' = [desk EXCEPT ![r] = Resting]

\* The statuses in which the client may still answer, and the owner still edit.
AnswerableMut(status) == status \in {"sent", "viewed", "accepted"}
Answerable(status) == status \in {"sent", "viewed"}
EditableMut(status) == status \in {"draft", "sent"}
Editable(status) == status = "draft"

\* The client opens a proposal.  The first reading by a person marks it viewed.
ViewProposal(r, p) ==
  \/ /\ proposal[p].status = "sent"
     /\ ReadsProposal(r, "view", p)
     /\ UNCHANGED <<rows, notices, agreed, converted>>
  \/ /\ desk[r].at = "view" /\ desk[r].doc = p
     /\ proposal' = [proposal EXCEPT ![p].status = "viewed"]
     /\ Leaves(r)
     /\ UNCHANGED <<contract, accepts, stage, notices, agreed, converted>>

\* The client accepts: the status is checked as it was read, accepted_at is
\* stamped with it, and the owner's notice is staged in a statement of its own.
AcceptProposal(r, p) ==
  \/ /\ Answerable(proposal[p].status)
     /\ ReadsProposal(r, "accept", p)
     /\ UNCHANGED <<rows, notices, agreed, converted>>
  \/ /\ desk[r].at = "accept" /\ desk[r].doc = p
     /\ proposal' = [proposal EXCEPT ![p].status = "accepted"]
     /\ accepts' = Append(accepts, p)
     /\ GoesOn(r, "tell accepted")
     /\ UNCHANGED <<contract, stage, notices, agreed, converted>>

DeclineProposal(r, p) ==
  \/ /\ Answerable(proposal[p].status)
     /\ ReadsProposal(r, "decline", p)
     /\ UNCHANGED <<rows, notices, agreed, converted>>
  \/ /\ desk[r].at = "decline" /\ desk[r].doc = p
     /\ proposal' = [proposal EXCEPT ![p].status = "declined"]
     /\ GoesOn(r, "tell declined")
     /\ UNCHANGED <<contract, accepts, stage, notices, agreed, converted>>

\* The notice of a decision that is already committed.
EnqueueDecision(r) ==
  /\ \E decision \in {"accepted", "declined"} :
        /\ desk[r].at = (IF decision = "accepted" THEN "tell accepted" ELSE "tell declined")
        /\ notices' = notices \cup {<<desk[r].doc, decision>>}
  /\ Leaves(r)
  /\ UNCHANGED <<rows, agreed, converted>>

ViewContract(r, c) ==
  \/ /\ contract[c].status = "sent"
     /\ ReadsContract(r, "view", c)
     /\ UNCHANGED <<rows, notices, agreed, converted>>
  \/ /\ desk[r].at = "view" /\ desk[r].doc = c
     /\ contract' = [contract EXCEPT ![c].status = "viewed"]
     /\ Leaves(r)
     /\ UNCHANGED <<proposal, accepts, stage, notices, agreed, converted>>

\* The stages a signature moves on from.
BeforeSignature == {"inquiry_received", "consultation_call", "proposal_sent"}

\* What the ESIGN check compares: the text read with the hash locked at send.
UntamperedMut(row) == row.hashed \in Wordings
Untampered(row) == row.text = row.hashed

\* The client signs the text that was read; the project's stage is moved by a
\* second statement.
SignContract(r, c) ==
  \/ /\ Answerable(contract[c].status)
     /\ Untampered(contract[c])
     /\ ReadsContract(r, "sign", c)
     /\ UNCHANGED <<rows, notices, agreed, converted>>
  \/ /\ desk[r].at = "sign" /\ desk[r].doc = c
     /\ contract' = [contract EXCEPT ![c].status = "signed"]
     /\ agreed' = [agreed EXCEPT ![c] = desk[r].row.text]
     /\ GoesOn(r, "move project")
     /\ UNCHANGED <<proposal, accepts, stage, notices, converted>>
  \/ /\ desk[r].at = "move project" /\ desk[r].doc = c
     /\ stage' = IF stage \in BeforeSignature THEN "contract_signed" ELSE stage
     /\ Leaves(r)
     /\ UNCHANGED <<proposal, contract, accepts, notices, agreed, converted>>

-----------------------------------------------------------------------------
\* The studio drafts a proposal from a preset or copies another one's lines.
CreateProposal(r, p) ==
  /\ desk[r] = Resting
  /\ proposal[p].status = "absent"
  /\ \E total \in Totals :
        proposal' = [proposal EXCEPT ![p] = [status |-> "draft", total |-> total]]
  /\ UNCHANGED <<contract, accepts, stage, notices, desk, agreed, converted>>

DuplicateProposal(r, from, p) ==
  /\ desk[r] = Resting
  /\ proposal[from].status # "absent" /\ proposal[p].status = "absent"
  /\ proposal' = [proposal EXCEPT ![p] = [status |-> "draft", total |-> proposal[from].total]]
  /\ UNCHANGED <<contract, accepts, stage, notices, desk, agreed, converted>>

\* An edit awaits the form between the check and the write.
UpdateProposal(r, p) ==
  \/ /\ Editable(proposal[p].status)
     /\ ReadsProposal(r, "edit", p)
     /\ UNCHANGED <<rows, notices, agreed, converted>>
  \/ /\ desk[r].at = "edit" /\ desk[r].doc = p
     /\ \E total \in Totals : proposal' = [proposal EXCEPT ![p].total = total]
     /\ Leaves(r)
     /\ UNCHANGED <<contract, accepts, stage, notices, agreed, converted>>

\* Sending locks the proposal and moves the project, in one transaction.
MarkProposalSent(r, p) ==
  \/ /\ Editable(proposal[p].status)
     /\ ReadsProposal(r, "send", p)
     /\ UNCHANGED <<rows, notices, agreed, converted>>
  \/ /\ desk[r].at = "send" /\ desk[r].doc = p
     /\ proposal' = [proposal EXCEPT ![p].status = "sent"]
     /\ stage' = IF stage \in {"inquiry_received", "consultation_call"}
                 THEN "proposal_sent" ELSE stage
     /\ Leaves(r)
     /\ UNCHANGED <<contract, accepts, notices, agreed, converted>>

\* The acceptances of the proposals that still are accepted.
Accepted == {i \in 1..Len(accepts) : proposal[accepts[i]].status = "accepted"}

\* Mutant of AgreedTotal: the project's first acceptance instead of its last.
AgreedTotalMut ==
  IF Accepted = {} THEN NoTotal
  ELSE proposal[accepts[CHOOSE i \in Accepted : \A j \in Accepted : i <= j]].total

\* The total of the standard contract: of the proposal accepted last, if it
\* still is accepted.
AgreedTotal ==
  IF Accepted = {} THEN NoTotal
  ELSE proposal[accepts[CHOOSE i \in Accepted : \A j \in Accepted : j <= i]].total

NewContract(c, text) ==
  [contract EXCEPT ![c] = [status |-> "draft", text |-> text, hashed |-> NoTotal,
                           countersigned |-> FALSE]]

\* A contract from the standard template, or from a library text that names no total.
CreateContract(r, c) ==
  /\ desk[r] = Resting
  /\ contract[c].status = "absent"
  /\ \E text \in {AgreedTotal, NoTotal} : contract' = NewContract(c, text)
  /\ UNCHANGED <<proposal, accepts, stage, notices, desk, agreed, converted>>

DuplicateContract(r, from, c) ==
  /\ desk[r] = Resting
  /\ contract[from].status # "absent" /\ contract[c].status = "absent"
  /\ contract' = NewContract(c, contract[from].text)
  /\ UNCHANGED <<proposal, accepts, stage, notices, desk, agreed, converted>>

UpdateContract(r, c) ==
  \/ /\ Editable(contract[c].status)
     /\ ReadsContract(r, "edit", c)
     /\ UNCHANGED <<rows, notices, agreed, converted>>
  \/ /\ desk[r].at = "edit" /\ desk[r].doc = c
     /\ \E text \in Wordings : contract' = [contract EXCEPT ![c].text = text]
     /\ Leaves(r)
     /\ UNCHANGED <<proposal, accepts, stage, notices, agreed, converted>>

\* Sending hashes the text that was read.
MarkContractSent(r, c) ==
  \/ /\ Editable(contract[c].status)
     /\ ReadsContract(r, "send", c)
     /\ UNCHANGED <<rows, notices, agreed, converted>>
  \/ /\ desk[r].at = "send" /\ desk[r].doc = c
     /\ contract' = [contract EXCEPT ![c].status = "sent", ![c].hashed = desk[r].row.text]
     /\ Leaves(r)
     /\ UNCHANGED <<proposal, accepts, stage, notices, agreed, converted>>

\* The studio signs after the client, once.
CountersignContract(r, c) ==
  \/ /\ contract[c].status = "signed" /\ ~contract[c].countersigned
     /\ ReadsContract(r, "countersign", c)
     /\ UNCHANGED <<rows, notices, agreed, converted>>
  \/ /\ desk[r].at = "countersign" /\ desk[r].doc = c
     /\ contract' = [contract EXCEPT ![c].countersigned = TRUE]
     /\ Leaves(r)
     /\ UNCHANGED <<proposal, accepts, stage, notices, agreed, converted>>

\* An accepted proposal becomes a draft contract and a draft invoice: two
\* inserts, the contract's text rendered from what is accepted by then, the
\* invoice copied from the proposal as it was read.
ConvertProposal(r, p) ==
  \/ /\ proposal[p].status = "accepted"
     /\ ReadsProposal(r, "convert", p)
     /\ UNCHANGED <<rows, notices, agreed, converted>>
  \/ /\ desk[r].at = "convert" /\ desk[r].doc = p
     /\ \E c \in Contracts :
           /\ contract[c].status = "absent"
           /\ contract' = NewContract(c, AgreedTotal)
     /\ converted' = converted \cup {<<AgreedTotal, desk[r].row.total, accepts[Len(accepts)] = p>>}
     /\ GoesOn(r, "invoice")
     /\ UNCHANGED <<proposal, accepts, stage, notices, agreed>>
  \/ /\ desk[r].at = "invoice" /\ desk[r].doc = p
     /\ Leaves(r)
     /\ UNCHANGED <<rows, notices, agreed, converted>>

\* The board, or the project form, puts the project anywhere.
MoveProjectStatus(r) ==
  /\ desk[r] = Resting
  /\ stage' \in HandStages
  /\ UNCHANGED <<proposal, contract, accepts, notices, desk, agreed, converted>>

\* A failed statement or send, a refusal, a kill: the request ends where it is.
RequestEnds(r) ==
  /\ desk[r] # Resting
  /\ Leaves(r)
  /\ UNCHANGED <<rows, notices, agreed, converted>>

OnProposal(r, p) ==
  \/ ViewProposal(r, p) \/ AcceptProposal(r, p) \/ DeclineProposal(r, p)
  \/ CreateProposal(r, p) \/ UpdateProposal(r, p) \/ MarkProposalSent(r, p)
  \/ ConvertProposal(r, p) \/ \E q \in Proposals : DuplicateProposal(r, q, p)

OnContract(r, c) ==
  \/ ViewContract(r, c) \/ SignContract(r, c)
  \/ CreateContract(r, c) \/ UpdateContract(r, c) \/ MarkContractSent(r, c)
  \/ CountersignContract(r, c) \/ \E d \in Contracts : DuplicateContract(r, d, c)

\* A step that takes back what a sent document says, or what was answered to it.
LockBroken ==
  \/ \E p \in Proposals :
        \/ /\ proposal[p].status \notin {"absent", "draft"}
           /\ proposal'[p].total # proposal[p].total
        \/ /\ proposal[p].status \in {"accepted", "declined"}
           /\ proposal'[p].status # proposal[p].status
  \/ \E c \in Contracts :
        \/ /\ contract[c].status \notin {"absent", "draft"}
           /\ \/ contract'[c].text # contract[c].text
              \/ contract'[c].hashed # contract[c].hashed
        \/ /\ contract[c].status = "signed"
           /\ contract'[c].status # "signed" \/ agreed'[c] # agreed[c]

DocsStep ==
  \E r \in Requests :
    \/ \E p \in Proposals : OnProposal(r, p)
    \/ \E c \in Contracts : OnContract(r, c)
    \/ EnqueueDecision(r) \/ MoveProjectStatus(r) \/ RequestEnds(r)

DocsNext == DocsStep /\ unlocked' = (unlocked \/ LockBroken)

DocsSpec == DocsInit /\ [][DocsNext]_docsVars

-----------------------------------------------------------------------------
Places == {"idle", "view", "accept", "tell accepted", "decline", "tell declined", "sign",
           "move project", "edit", "send", "convert", "invoice",
           "countersign"}

Rows == [status : ProposalStates \cup ContractStates, total : Wordings, text : Wordings]

\* Types of the rows, of what a request holds, and of the history.
DocsTypeOK ==
  /\ proposal \in [Proposals -> [status : ProposalStates, total : Wordings]]
  /\ contract \in [Contracts -> [status : ContractStates, text : Wordings, hashed : Wordings,
                                 countersigned : BOOLEAN]]
  /\ accepts \in Seq(Proposals)
  /\ stage \in Stages
  /\ notices \subseteq Proposals \X {"accepted", "declined"}
  /\ desk \in [Requests -> [at : Places, doc : Documents \cup {Nobody}, row : Rows]]
  /\ agreed \in [Contracts -> Wordings]
  /\ converted \subseteq Wordings \X Wordings \X BOOLEAN
  /\ unlocked \in BOOLEAN

\* 'sent proposals are locked' (proposals.py:347), 'sent contracts are locked'
\* (contracts.py:153), 'not open for acceptance' (docs.py:57): the checks hold
\* for what was read, so a sent document's content, a decision and a signature
\* can only be written over by a request that had read the document before.
OnlyStaleReadersUnlock ==
  [][LockBroken =>
       \E r \in Requests :
         \/ desk[r].at \in {"edit", "send"} /\ desk[r].row.status = "draft"
         \/ desk[r].at = "view" /\ desk[r].row.status = "sent"
         \/ desk[r].at \in {"accept", "decline", "sign"}
            /\ desk[r].row.status \in {"sent", "viewed"}]_docsVars

\* convert_proposal makes a contract and an invoice over the same amount, unless
\* another proposal was accepted after this one or a document was unlocked: the
\* contract names what was accepted last (contracts.py:98), the invoice what was
\* converted.
ConvertedTotalsAgree ==
  \A made \in converted : made[1] # made[2] => ~made[3] \/ unlocked

\* 'Refuse if the body no longer matches the hash locked at send' (docs.py:145): a
\* client signs the text that was sent, unless a sent document was unlocked.
SignedAsSent ==
  \A c \in Contracts :
    contract[c].status = "signed" /\ ~unlocked => agreed[c] = contract[c].hashed

\* 'accept and decline are one-shot' (proposal_notify.py:28): the owner is told
\* of a decision that was taken, and of two opposite ones only if one was
\* written over.
NoticesAreTrue ==
  \A p \in Proposals :
    /\ <<p, "accepted">> \in notices => \E i \in 1..Len(accepts) : accepts[i] = p
    /\ {<<p, "accepted">>, <<p, "declined">>} \subseteq notices => unlocked

\* What is written about one decision says the same: a conversion's papers name one
\* amount, what is signed is what was sent, and what the owner is told was decided.
PapersAgree == ConvertedTotalsAgree /\ SignedAsSent /\ NoticesAreTrue
=============================================================================
