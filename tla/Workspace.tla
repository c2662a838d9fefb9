------------------------------ MODULE Workspace ------------------------------
(***************************************************************************)
(* The founder workspace of apps/cli: one encrypted vault entry holding    *)
(* the business state, one signed audit chain, one outbox directory and    *)
(* one checkpointed workflow per approval.  A server process handles one   *)
(* request at a time; every durable write of a request is a step of its    *)
(* own, so that a crash (Interrupt) can separate any two of them.  The     *)
(* `sovereign integrity` command is a second, read-only process that may   *)
(* run between any two of those steps.                                     *)
(***************************************************************************)
EXTENDS Naturals, Sequences, FiniteSets

CONSTANTS
  Server,         \* server processes on one data directory
  Customer,       \* fresh UUIDs for customers
  Document,       \* fresh UUIDs for documents
  Approval,       \* fresh UUIDs for approvals
  Venture,        \* venture profiles the founder may enter
  None,           \* an absent value
  MaxCustomers,   \* MAX_CUSTOMERS of the code
  MaxDocuments,   \* MAX_DOCUMENTS of the code
  MaxOptional,    \* bound: repeatable requests (venture, assistant, export)
  MaxInterrupts   \* bound: crashes and failed durable calls

ASSUME NoneIsFresh == None \notin Venture \cup Document \cup Customer \cup Approval
ASSUME BoundsAreNaturals ==
  {MaxCustomers, MaxDocuments, MaxOptional, MaxInterrupts} \subseteq Nat

VARIABLES
  ws,          \* the workspace graph in the vault
  ledger,      \* the signed audit chain on disk
  outbox,      \* outbox[d]: what <d>.eml was composed from, or None
  flow,        \* flow[a]: workflow directory send-<a>
  pc,          \* pc[p]: the next durable step of server p
  op,          \* op[p]: what server p holds in memory for its request
  audit,       \* the integrity command: the state it read, its verdict
  minted,      \* identifiers handed out so far (UUIDs never repeat)
  executions,  \* executions[a]: capabilities consumed and run for a
  shown,       \* times a model provider was given customer data
  torn,        \* the newest operation on the chain has not reached the vault
  optional, interrupts

durable == <<ws, ledger, outbox, flow>>
process == <<pc, op>>
history == <<minted, executions, shown, torn>>
bounds  == <<optional, interrupts>>
vars    == <<ws, ledger, outbox, flow, pc, op, audit, minted, executions,
             shown, torn, optional, interrupts>>

------------------------------------------------------------------------------
(* The persisted data.                                                      *)

DocumentStatus == {"absent", "Draft", "PendingApproval", "ApprovedPendingDelivery",
                   "Rejected", "Revoked", "Delivered"}

\* States that only an executed approval may reach.
Granted == {"ApprovedPendingDelivery", "Revoked", "Delivered"}

\* A signed approval record: what the outbox file was composed from, and
\* which execution of the approval produced it.
SignedRecord == [content : Venture \cup {None}, attempt : Nat]

ASSUME RecordIsNotNone == None \notin SignedRecord

NoApproval == [document |-> None, status |-> "absent", evidence |-> None]

Approvals ==
  {NoApproval} \cup [document : Document, status : {"Pending", "Approved", "Rejected"},
                     evidence : SignedRecord \cup {None}]

Workspaces ==
  [venture     : Venture \cup {None},
   customers   : SUBSET Customer,
   documents   : [Document -> DocumentStatus],
   approvals   : [Approval -> Approvals],
   disclosures : Nat]

EmptyWorkspace ==
  [venture     |-> None,
   customers   |-> {},
   documents   |-> [d \in Document |-> "absent"],
   approvals   |-> [a \in Approval |-> NoApproval],
   disclosures |-> 0]

Checkpoint == [completed : 0 .. 2, done : BOOLEAN, record : SignedRecord \cup {None}]

EmptyFlow == [completed |-> 0, done |-> FALSE, record |-> None]

Action == {"venture.update", "customer.create", "model.drafted", "document.draft",
           "approval.requested", "approval.granted", "capability.executed",
           "effect.file_written", "approval.rejected", "effect.revoked",
           "delivery.confirmed", "workspace.export"}

Resource == Customer \cup Document \cup {"venture:profile", "workspace:all"}

Event == [action : Action, resource : Resource]

Ev(action, resource) == [action |-> action, resource |-> resource]

Has(chain, action, resource) == \E i \in DOMAIN chain : chain[i] = Ev(action, resource)

------------------------------------------------------------------------------
(* The integrity self-audit, over a workspace w and a chain.                *)

\* A document whose status lacks the signed event that should have produced it.
Unsigned(w, chain, d) ==
  \/ w.documents[d] \in Granted      /\ ~Has(chain, "approval.granted", d)
  \/ w.documents[d] = "Revoked"      /\ ~Has(chain, "effect.revoked", d)
  \/ w.documents[d] = "Delivered"    /\ ~Has(chain, "delivery.confirmed", d)

\* An approval whose evidence records an outbox file the chain does not.
UnsignedEffect(w, chain, a) ==
  /\ w.approvals[a].evidence # None
  /\ ~Has(chain, "effect.file_written", w.approvals[a].document)

CriticalFindings(w, chain) ==
       {c \in w.customers : ~Has(chain, "customer.create", c)}
  \cup {d \in Document : Unsigned(w, chain, d)}
  \cup {a \in Approval : UnsignedEffect(w, chain, a)}

\* Plausible bug: only the status an approval leads to first counts as landed.
Unlanded_Settled(w, e) ==
  \/ e.action = "approval.granted"   /\ w.documents[e.resource] # "ApprovedPendingDelivery"
  \/ e.action = "effect.revoked"     /\ w.documents[e.resource] # "Revoked"

\* A signed event whose state is not (or no longer) in the vault.  Every
\* other action is ignored by the audit.
Unlanded(w, e) ==
  \/ e.action = "customer.create"    /\ e.resource \notin w.customers
  \/ e.action = "approval.granted"   /\ w.documents[e.resource] \notin Granted
  \/ e.action = "effect.revoked"     /\ w.documents[e.resource] # "Revoked"
  \/ e.action = "delivery.confirmed" /\ w.documents[e.resource] # "Delivered"

\* Plausible bug: only the newest event is looked at.
TailTorn_LastEvent(w, chain) == chain # <<>> /\ Unlanded(w, chain[Len(chain)])

\* The warning: some event of the longest tail on one resource is unlanded.
TailTorn(w, chain) ==
  \E i \in DOMAIN chain :
    /\ \A j \in i .. Len(chain) : chain[j].resource = chain[Len(chain)].resource
    /\ Unlanded(w, chain[i])

------------------------------------------------------------------------------
(* Requests.  The part of a handler up to its first durable write reads     *)
(* one file and computes in memory, so it is one step.                      *)

\* `next` is where the request continues after its vault write; "no_save" is a
\* request that only appends to the chain.
NoOp == [ws |-> EmptyWorkspace, events |-> <<>>, chain |-> <<>>, next |-> "no_save",
         subject |-> None, record |-> None]

Init ==
  /\ ws = EmptyWorkspace
  /\ ledger = <<>>
  /\ outbox = [d \in Document |-> None]
  /\ flow = [a \in Approval |-> EmptyFlow]
  /\ pc = [p \in Server |-> "idle"]
  /\ op = [p \in Server |-> NoOp]
  /\ audit = [reading |-> FALSE, ws |-> EmptyWorkspace, critical |-> {}]
  /\ minted = {}
  /\ executions = [a \in Approval |-> 0]
  /\ shown = 0
  /\ torn = FALSE
  /\ optional = 0
  /\ interrupts = 0

GoTo(p, label) == pc' = [pc EXCEPT ![p] = label]

Finish(p) ==
  /\ GoTo(p, "idle")
  /\ op' = [op EXCEPT ![p] = NoOp]

\* Store::commit and Store::record: hand events (and, for commit, the new
\* workspace) to the two durable writes that follow.
Commit(p, w, events, next) ==
  /\ GoTo(p, "load_chain")
  /\ op' = [op EXCEPT ![p] = [@ EXCEPT !.ws = w, !.events = events, !.next = next]]

Record(p, events) ==
  /\ GoTo(p, "load_chain")
  /\ op' = [op EXCEPT ![p].events = events]

Mint(id) ==
  /\ id \notin minted
  /\ minted' = minted \cup {id}

Repeatable ==
  /\ optional < MaxOptional
  /\ optional' = optional + 1

SetVenture(p, v) ==
  /\ pc[p] = "idle"
  /\ Repeatable
  /\ Commit(p, [ws EXCEPT !.venture = v], <<Ev("venture.update", "venture:profile")>>, "idle")
  /\ UNCHANGED <<durable, audit, history, interrupts>>

AddCustomer(p, c) ==
  /\ pc[p] = "idle"
  /\ Cardinality(ws.customers) < MaxCustomers
  /\ Mint(c)
  /\ Commit(p, [ws EXCEPT !.customers = @ \cup {c}], <<Ev("customer.create", c)>>, "idle")
  /\ UNCHANGED <<durable, audit, executions, shown, torn, bounds>>

\* The drafting assistant: the gateway shows the prompt to a provider ...
DraftAssistant(p, c) ==
  /\ pc[p] = "idle"
  /\ ws.venture # None /\ c \in ws.customers
  /\ Repeatable
  /\ shown' = shown + 1
  /\ op' = [op EXCEPT ![p].subject = c]
  /\ GoTo(p, "disclose")
  /\ UNCHANGED <<durable, audit, minted, executions, torn, interrupts>>

\* Plausible bug: the showing is signed but not kept in the log.
Disclose_EventOnly(p) ==
  /\ pc[p] = "disclose"
  /\ Record(p, <<Ev("model.drafted", op[p].subject)>>)
  /\ UNCHANGED <<durable, audit, history, bounds>>

\* ... and only then is the disclosure committed, over a second load.
Disclose(p) ==
  /\ pc[p] = "disclose"
  /\ Commit(p, [ws EXCEPT !.disclosures = @ + 1], <<Ev("model.drafted", op[p].subject)>>, "idle")
  /\ UNCHANGED <<durable, audit, history, bounds>>

CreateDocument(p, d) ==
  /\ pc[p] = "idle"
  /\ ws.venture # None /\ ws.customers # {}
  /\ Cardinality({e \in Document : ws.documents[e] # "absent"}) < MaxDocuments
  /\ Mint(d)
  /\ Commit(p, [ws EXCEPT !.documents[d] = "Draft"], <<Ev("document.draft", d)>>, "idle")
  /\ UNCHANGED <<durable, audit, executions, shown, torn, bounds>>

RequestSend(p, d, a) ==
  /\ pc[p] = "idle"
  /\ ws.documents[d] = "Draft"
  /\ Mint(a)
  /\ Commit(p, [ws EXCEPT !.documents[d] = "PendingApproval",
                          !.approvals[a] = [document |-> d, status |-> "Pending",
                                            evidence |-> None]],
            <<Ev("approval.requested", d)>>, "idle")
  /\ UNCHANGED <<durable, audit, executions, shown, torn, bounds>>

Reject(p, a) ==
  LET d == ws.approvals[a].document IN
  /\ pc[p] = "idle"
  /\ ws.approvals[a].status = "Pending"
  /\ Commit(p, [ws EXCEPT !.approvals[a].status = "Rejected", !.documents[d] = "Rejected"],
            <<Ev("approval.rejected", d)>>, "idle")
  /\ UNCHANGED <<durable, audit, history, bounds>>

\* The outbox file goes first; "already gone" is an acceptable end state.
RevokeDelivery(p, d) ==
  /\ pc[p] = "idle"
  /\ ws.documents[d] = "ApprovedPendingDelivery"
  /\ \E a \in Approval : ws.approvals[a].document = d /\ ws.approvals[a].evidence # None
  /\ outbox' = [outbox EXCEPT ![d] = None]
  /\ Commit(p, [ws EXCEPT !.documents[d] = "Revoked"], <<Ev("effect.revoked", d)>>, "idle")
  /\ UNCHANGED <<ws, ledger, flow, audit, history, bounds>>

\* Plausible bug: a revoked document may still be confirmed.
ConfirmDelivery_AnyGranted(p, d) ==
  /\ pc[p] = "idle"
  /\ ws.documents[d] \in Granted
  /\ Commit(p, [ws EXCEPT !.documents[d] = "Delivered"], <<Ev("delivery.confirmed", d)>>, "idle")
  /\ UNCHANGED <<durable, audit, history, bounds>>

ConfirmDelivery(p, d) ==
  /\ pc[p] = "idle"
  /\ ws.documents[d] = "ApprovedPendingDelivery"
  /\ Commit(p, [ws EXCEPT !.documents[d] = "Delivered"], <<Ev("delivery.confirmed", d)>>, "idle")
  /\ UNCHANGED <<durable, audit, history, bounds>>

Export(p) ==
  /\ pc[p] = "idle"
  /\ Repeatable
  /\ Record(p, <<Ev("workspace.export", "workspace:all")>>)
  /\ UNCHANGED <<durable, audit, history, interrupts>>

------------------------------------------------------------------------------
(* Approving: the durable send workflow.                                    *)

\* Plausible bug: a retry starts over instead of resuming.
Approve_FromTheStart(p, a) ==
  /\ pc[p] = "idle"
  /\ ws.approvals[a].status = "Pending"
  /\ op' = [op EXCEPT ![p].subject = a]
  /\ GoTo(p, "execute")
  /\ UNCHANGED <<durable, audit, history, bounds>>

\* decide(approve) opens the workflow and resumes after its last receipt.
Approve(p, a) ==
  /\ pc[p] = "idle"
  /\ ws.approvals[a].status = "Pending"
  /\ op' = [op EXCEPT ![p].subject = a]
  /\ GoTo(p, CASE flow[a].completed = 0 -> "execute"
               [] flow[a].completed = 1 -> "commit_step"
               [] flow[a].completed = 2 -> "done")
  /\ UNCHANGED <<durable, audit, history, bounds>>

\* ExecuteSendStep: re-check, compose, remove an orphan of an earlier attempt.
ComposeSend(p) ==
  LET a == op[p].subject
      d == ws.approvals[a].document IN
  /\ pc[p] = "execute"
  /\ IF ws.approvals[a].status = "Pending"
       THEN /\ outbox' = [outbox EXCEPT ![d] = None]
            /\ op' = [op EXCEPT ![p].record = [content |-> ws.venture, attempt |-> 0]]
            /\ GoTo(p, "kernel")
       ELSE Finish(p) /\ UNCHANGED outbox
  /\ UNCHANGED <<ws, ledger, flow, audit, history, bounds>>

\* The signed kernel chain: a fresh session and idempotency key, so every
\* attempt consumes a capability of its own.
RunKernel(p) ==
  LET a == op[p].subject IN
  /\ pc[p] = "kernel"
  /\ executions' = [executions EXCEPT ![a] = @ + 1]
  /\ op' = [op EXCEPT ![p].record.attempt = executions[a] + 1]
  /\ GoTo(p, "write_outbox")
  /\ UNCHANGED <<durable, audit, minted, shown, torn, bounds>>

\* Plausible bug: the receipt is persisted without the signed record.
WriteOutbox_NoRecord(p) ==
  LET d == ws.approvals[op[p].subject].document IN
  /\ pc[p] = "write_outbox"
  /\ outbox' = [outbox EXCEPT ![d] = op[p].record.content]
  /\ GoTo(p, "execute_receipt")
  /\ UNCHANGED <<ws, ledger, flow, op, audit, history, bounds>>

WriteOutbox(p) ==
  LET d == ws.approvals[op[p].subject].document IN
  /\ pc[p] = "write_outbox"
  /\ outbox' = [outbox EXCEPT ![d] = op[p].record.content]
  /\ GoTo(p, "write_record")
  /\ UNCHANGED <<ws, ledger, flow, op, audit, history, bounds>>

WriteRecord(p) ==
  /\ pc[p] = "write_record"
  /\ flow' = [flow EXCEPT ![op[p].subject].record = op[p].record]
  /\ GoTo(p, "execute_receipt")
  /\ UNCHANGED <<ws, ledger, outbox, op, audit, history, bounds>>

\* WorkflowRunner::persist after the execute step.
PersistExecute(p) ==
  /\ pc[p] = "execute_receipt"
  /\ flow' = [flow EXCEPT ![op[p].subject].completed = 1]
  /\ GoTo(p, "commit_step")
  /\ UNCHANGED <<ws, ledger, outbox, op, audit, history, bounds>>

\* Plausible bug: the commit recomposes the message over the current state.
CommitDecision_Recomposed(p) ==
  LET a == op[p].subject
      d == ws.approvals[a].document IN
  /\ pc[p] = "commit_step"
  /\ ws.approvals[a].status = "Pending"
  /\ Commit(p, [ws EXCEPT !.approvals[a].status = "Approved",
                          !.approvals[a].evidence = [content |-> ws.venture,
                                                     attempt |-> executions[a]],
                          !.documents[d] = "ApprovedPendingDelivery"],
            <<Ev("approval.granted", d), Ev("capability.executed", d),
              Ev("effect.file_written", d)>>, "commit_receipt")
  /\ UNCHANGED <<durable, audit, history, bounds>>

\* Plausible bug: the file event is left out of the commit.
CommitDecision_NoFileEvent(p) ==
  LET a == op[p].subject
      d == ws.approvals[a].document IN
  /\ pc[p] = "commit_step"
  /\ ws.approvals[a].status = "Pending"
  /\ Commit(p, [ws EXCEPT !.approvals[a].status = "Approved",
                          !.approvals[a].evidence = flow[a].record,
                          !.documents[d] = "ApprovedPendingDelivery"],
            <<Ev("approval.granted", d), Ev("capability.executed", d)>>, "commit_receipt")
  /\ UNCHANGED <<durable, audit, history, bounds>>

\* Plausible bug: one decision moves every pending document.
CommitDecision_AllPending(p) ==
  LET a == op[p].subject
      d == ws.approvals[a].document IN
  /\ pc[p] = "commit_step"
  /\ ws.approvals[a].status = "Pending"
  /\ Commit(p, [ws EXCEPT !.approvals[a].status = "Approved",
                          !.approvals[a].evidence = flow[a].record,
                          !.documents = [e \in Document |->
                             IF @[e] = "PendingApproval" THEN "ApprovedPendingDelivery" ELSE @[e]]],
            <<Ev("approval.granted", d), Ev("capability.executed", d),
              Ev("effect.file_written", d)>>, "commit_receipt")
  /\ UNCHANGED <<durable, audit, history, bounds>>

\* CommitDecisionStep: read the record back; a decided approval is a no-op.
CommitDecision(p) ==
  LET a == op[p].subject
      d == ws.approvals[a].document
      r == flow[a].record IN
  /\ pc[p] = "commit_step"
  /\ \/ /\ r = None
        /\ Finish(p)
     \/ /\ r # None /\ ws.approvals[a].status # "Pending"
        /\ GoTo(p, "commit_receipt")
        /\ UNCHANGED op
     \/ /\ r # None /\ ws.approvals[a].status = "Pending"
        /\ Commit(p, [ws EXCEPT !.approvals[a].status = "Approved",
                                !.approvals[a].evidence = r,
                                !.documents[d] = "ApprovedPendingDelivery"],
                  <<Ev("approval.granted", d), Ev("capability.executed", d),
                    Ev("effect.file_written", d)>>, "commit_receipt")
  /\ UNCHANGED <<durable, audit, history, bounds>>

PersistCommit(p) ==
  /\ pc[p] = "commit_receipt"
  /\ flow' = [flow EXCEPT ![op[p].subject].completed = 2]
  /\ GoTo(p, "done")
  /\ UNCHANGED <<ws, ledger, outbox, op, audit, history, bounds>>

PersistDone(p) ==
  /\ pc[p] = "done"
  /\ flow' = [flow EXCEPT ![op[p].subject].done = TRUE]
  /\ Finish(p)
  /\ UNCHANGED <<ws, ledger, outbox, audit, history, bounds>>

------------------------------------------------------------------------------
(* The audit-first commit.                                                  *)

\* Plausible bug: the chain is started afresh instead of loaded.
LoadChain_Fresh(p) ==
  /\ pc[p] = "load_chain"
  /\ op' = [op EXCEPT ![p].chain = <<>>]
  /\ GoTo(p, "save_chain")
  /\ UNCHANGED <<durable, audit, history, bounds>>

LoadChain(p) ==
  /\ pc[p] = "load_chain"
  /\ op' = [op EXCEPT ![p].chain = ledger]
  /\ GoTo(p, "save_chain")
  /\ UNCHANGED <<durable, audit, history, bounds>>

\* Every event of the operation reaches the chain in one atomic replacement.
SaveChain(p) ==
  /\ pc[p] = "save_chain"
  /\ ledger' = op[p].chain \o op[p].events
  /\ IF op[p].next = "no_save"
       THEN Finish(p) /\ UNCHANGED torn
       ELSE GoTo(p, "save_vault") /\ torn' = TRUE /\ UNCHANGED op
  /\ UNCHANGED <<ws, outbox, flow, audit, minted, executions, shown, bounds>>

SaveVault(p) ==
  /\ pc[p] = "save_vault"
  /\ ws' = op[p].ws
  /\ torn' = FALSE
  /\ IF op[p].next = "idle"
       THEN Finish(p)
       ELSE GoTo(p, op[p].next) /\ UNCHANGED op
  /\ UNCHANGED <<ledger, outbox, flow, audit, minted, executions, shown, bounds>>

------------------------------------------------------------------------------
(* The process dies, or a durable call fails: the request is dropped where  *)
(* it stands and only what was written survives.                            *)
Interrupt(p) ==
  /\ pc[p] # "idle"
  /\ interrupts < MaxInterrupts
  /\ interrupts' = interrupts + 1
  /\ Finish(p)
  /\ UNCHANGED <<durable, audit, history, optional>>

(* `sovereign integrity` reads the vault and then the chain.                *)
AuditReadState ==
  /\ ~audit.reading
  /\ audit' = [audit EXCEPT !.reading = TRUE, !.ws = ws]
  /\ UNCHANGED <<durable, process, history, bounds>>

AuditReadChain ==
  /\ audit.reading
  /\ audit' = [reading |-> FALSE, ws |-> EmptyWorkspace,
               critical |-> CriticalFindings(audit.ws, ledger)]
  /\ UNCHANGED <<durable, process, history, bounds>>

Request(p) ==
  \/ \E v \in Venture : SetVenture(p, v)
  \/ \E c \in Customer : AddCustomer(p, c) \/ DraftAssistant(p, c)
  \/ \E d \in Document : CreateDocument(p, d) \/ RevokeDelivery(p, d) \/ ConfirmDelivery(p, d)
  \/ \E d \in Document, a \in Approval : RequestSend(p, d, a)
  \/ \E a \in Approval : Approve(p, a) \/ Reject(p, a)
  \/ Export(p)

\* What a server does on its own once a request has been accepted.
Continue(p) ==
  \/ Disclose(p)
  \/ ComposeSend(p) \/ RunKernel(p) \/ WriteOutbox(p) \/ WriteRecord(p)
  \/ PersistExecute(p) \/ CommitDecision(p) \/ PersistCommit(p) \/ PersistDone(p)
  \/ LoadChain(p) \/ SaveChain(p) \/ SaveVault(p)

Next ==
  \/ \E p \in Server : Request(p) \/ Continue(p) \/ Interrupt(p)
  \/ AuditReadState
  \/ AuditReadChain

Spec == Init /\ [][Next]_vars

\* The server loop carries an accepted request on, the founder repeats an
\* approval that did not go through; crashes are finitely many.
FairSpec ==
  /\ Spec
  /\ \A p \in Server : WF_vars(Continue(p))
  /\ \A p \in Server, a \in Approval : WF_vars(Approve(p, a))

------------------------------------------------------------------------------
(* Correctness.                                                             *)

Labels == {"idle", "disclose", "execute", "kernel", "write_outbox", "write_record",
           "execute_receipt", "commit_step", "commit_receipt", "done",
           "load_chain", "save_chain", "save_vault"}

Operation ==
  [ws : Workspaces, events : Seq(Event), chain : Seq(Event),
   next : {"no_save", "idle", "commit_receipt"}, subject : Approval \cup Customer \cup {None},
   record : SignedRecord \cup {None}]

\* Every variable keeps to the values the code's types allow.
TypeOK ==
  /\ ws \in Workspaces
  /\ ledger \in Seq(Event)
  /\ outbox \in [Document -> Venture \cup {None}]
  /\ flow \in [Approval -> Checkpoint]
  /\ pc \in [Server -> Labels]
  /\ op \in [Server -> Operation]
  /\ audit \in [reading : BOOLEAN, ws : Workspaces,
                critical : SUBSET (Customer \cup Document \cup Approval)]
  /\ minted \subseteq Customer \cup Document \cup Approval
  /\ executions \in [Approval -> Nat]
  /\ shown \in Nat
  /\ torn \in BOOLEAN
  /\ optional \in Nat
  /\ interrupts \in Nat

\* The integrity command, run at any moment beside the server and after any
\* crash, never reports state without its signed evidence: audit-first commits
\* make that impossible short of tampering (reporting.rs, store.rs commit).
AuditNeverCritical == audit.critical = {}

\* A durable execute receipt means the signed record is beside it, the outbox
\* holds what that record describes, and it is the last execution: the resumed
\* commit step of send_workflow.rs cannot sign for a file that is not there.
ReceiptMatchesOutbox ==
  \A a \in Approval :
    flow[a].completed >= 1 /\ ws.approvals[a].status = "Pending" =>
      /\ flow[a].record # None
      /\ flow[a].record.content = outbox[ws.approvals[a].document]
      /\ flow[a].record.attempt = executions[a]

\* Committed evidence is the evidence of the one execution that wrote the
\* file; the file is either exactly that or has been removed by a revocation.
EvidenceNamesTheFile ==
  \A a \in Approval :
    ws.approvals[a].evidence # None =>
      /\ outbox[ws.approvals[a].document] \in {None, ws.approvals[a].evidence.content}
      /\ ws.approvals[a].evidence.attempt = executions[a]

\* An approval and its document are decided together, and a document past
\* Draft has exactly one approval, whatever was torn and retried on the way.
DecisionsAgree ==
  \A d \in Document :
    LET of == {a \in Approval : ws.approvals[a].document = d} IN
    /\ ws.documents[d] \in {"absent", "Draft"} <=> of = {}
    /\ \A a, b \in of : a = b
    /\ \A a \in of :
         /\ ws.approvals[a].status = "Pending" <=> ws.documents[d] = "PendingApproval"
         /\ ws.approvals[a].status = "Rejected" <=> ws.documents[d] = "Rejected"
         /\ ws.approvals[a].status = "Approved" <=> ws.documents[d] \in Granted

\* Once an execution has its durable receipt, or the approval is decided, no
\* retry consumes another capability for it (send_workflow.rs, replay).
NoReplayAfterReceipt ==
  [][\A a \in Approval :
       flow[a].completed >= 1 \/ ws.approvals[a].status \in {"Approved", "Rejected"} =>
         executions'[a] = executions[a]]_vars

\* The signed chain only grows: no step loses or rewrites a signed event.
ChainIsAppendOnly ==
  [][/\ Len(ledger) <= Len(ledger')
     /\ \A i \in DOMAIN ledger : ledger'[i] = ledger[i]]_vars

\* A pending approval that the founder keeps approving is decided in the end:
\* no crash leaves a workflow directory that cannot be resumed.
PendingIsDecided ==
  \A a \in Approval :
    ws.approvals[a].status = "Pending" ~> ws.approvals[a].status # "Pending"

\* The workspace implements the abstract lifecycle: a status moves only along
\* it, and only after the event of the move is on the chain (ops.rs).
Lifecycle ==
  INSTANCE DocumentLifecycle WITH
    status <- ws.documents,
    signed <- [d \in Document |->
                 {x \in {"document.draft", "approval.requested", "approval.granted",
                         "approval.rejected", "effect.revoked", "delivery.confirmed"} :
                    Has(ledger, x, d)}]

FollowsLifecycle == Lifecycle!Spec

------------------------------------------------------------------------------
(* What an interruption leaves behind, and what it takes one for.           *)

Quiet == \A p \in Server : pc[p] = "idle"

\* A customer, an approval, a revocation or a delivery that was signed and cut
\* off before its state was saved is reported until the server signs something
\* else, whatever the earlier events of the same resource were (reporting.rs).
CutOffMoveIsReported ==
  Quiet /\ torn /\ ledger[Len(ledger)].action \in
      {"customer.create", "effect.file_written", "effect.revoked", "delivery.confirmed"} =>
    TailTorn(ws, ledger)

\* Without an interruption there is no trace of one: the audit does not warn
\* (reporting.rs), no document was both revoked and delivered (README.md), and
\* a decided document has no file that the chain does not record.
UninterruptedIsClean ==
  Quiet /\ interrupts = 0 =>
    /\ ~TailTorn(ws, ledger)
    /\ \A d \in Document :
         /\ ~(Has(ledger, "effect.revoked", d) /\ Has(ledger, "delivery.confirmed", d))
         /\ ws.documents[d] \in Granted \cup {"Rejected"} /\ outbox[d] # None =>
              Has(ledger, "effect.file_written", d)

\* The disclosure log names no showing that did not happen, and an
\* interruption costs it at most one (ops.rs, draft_assistant).
ShowingsAreLogged ==
  Quiet => ws.disclosures <= shown /\ shown <= ws.disclosures + interrupts

\* The same as the repository puts it: the log holds "every time a model provider
\* was shown customer data" (README.md, Security Center; Workspace::disclosures in
\* types.rs).  An interruption between showing and record refutes it.
EveryShowingIsLogged == Quiet => shown = ws.disclosures
==============================================================================
