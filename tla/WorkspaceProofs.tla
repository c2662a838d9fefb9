--------------------------- MODULE WorkspaceProofs ---------------------------
(***************************************************************************)
(* TypeOK for any number of servers, and what holds of the workspace with  *)
(* one server process at a time, however often it is interrupted; two      *)
(* would lose each other's writes.                                         *)
(*                                                                         *)
(* The audit-first commit keeps the vault behind the chain: the integrity  *)
(* command, which may read the two at any moment, never reports a critical *)
(* finding, and the chain only grows.                                      *)
(*                                                                         *)
(* What is on its way to the vault is one edit of what is there, so that   *)
(* approvals and documents agree.  The send workflow's checkpoint, record, *)
(* outbox file and executions describe the same execution.  The log        *)
(* accounts for what providers were shown.  The tail of the chain reveals  *)
(* an operation that was cut off, and without interruptions there is none. *)
(* Each commit is one step of DocumentLifecycle: sign, then land.          *)
(*                                                                         *)
(* All of it is for every set of customers, documents, approvals and       *)
(* ventures and every bound.                                               *)
(***************************************************************************)
EXTENDS Workspace, SequenceTheorems, TLAPS

\* The approval workflow's labels, and those where a record is in memory.
SendLabels == {"execute", "kernel", "write_outbox", "write_record",
               "execute_receipt", "commit_step", "commit_receipt", "done"}
RecordLabels == {"kernel", "write_outbox", "write_record"}
CommitLabels == {"load_chain", "save_chain", "save_vault"}

\* What a server holds in memory fits the step it is about to take.
Located(p) ==
  /\ pc[p] \in SendLabels => op[p].subject \in Approval
  /\ pc[p] \in CommitLabels /\ op[p].next = "commit_receipt" => op[p].subject \in Approval
  /\ pc[p] = "save_vault" => op[p].next # "no_save"
  /\ pc[p] = "disclose" => op[p].subject \in Customer
  /\ pc[p] \in RecordLabels => op[p].record \in SignedRecord
  /\ pc[p] = "idle" => op[p] = NoOp

ITypeOK == TypeOK /\ \A p \in Server : Located(p)

------------------------------------------------------------------------------
(* Values.                                                                  *)

LEMMA EmptyWorkspaceType == EmptyWorkspace \in Workspaces
  BY DEF EmptyWorkspace, Workspaces, DocumentStatus, Approvals

LEMMA NoOpType == NoOp \in Operation
  BY EmptyWorkspaceType, EmptySeq DEF NoOp, Operation

LEMMA EventType ==
  ASSUME NEW x \in Action, NEW r \in Resource
  PROVE  /\ Ev(x, r) \in Event
         /\ <<Ev(x, r)>> \in Seq(Event)
  BY DEF Ev, Event

\* What a commit leaves in memory, whoever calls it.
LEMMA CommitType ==
  ASSUME TypeOK, NEW p \in Server, NEW w \in Workspaces, NEW e \in Seq(Event),
         NEW n \in {"idle", "commit_receipt"}, Commit(p, w, e, n)
  PROVE  /\ pc' \in [Server -> Labels]
         /\ op' \in [Server -> Operation]
         /\ pc'[p] = "load_chain"
         /\ op'[p].ws = w /\ op'[p].events = e /\ op'[p].next = n
         /\ op'[p].subject = op[p].subject
         /\ \A q \in Server \ {p} : pc'[q] = pc[q] /\ op'[q] = op[q]
<1>1. pc' \in [Server -> Labels] /\ pc'[p] = "load_chain"
  BY DEF TypeOK, Commit, GoTo, Labels
<1>2. op \in [Server -> Operation] /\ op[p] \in Operation
  BY DEF TypeOK
<1>3. [op[p] EXCEPT !.ws = w, !.events = e, !.next = n] \in Operation
  BY <1>2 DEF Operation
<1>4. /\ op' = [op EXCEPT ![p] = [op[p] EXCEPT !.ws = w, !.events = e, !.next = n]]
      /\ pc' = [pc EXCEPT ![p] = "load_chain"]
  BY DEF Commit, GoTo
<1>5. op'[p] = [op[p] EXCEPT !.ws = w, !.events = e, !.next = n]
  BY <1>2, <1>4
<1>6. /\ op'[p].ws = w /\ op'[p].events = e /\ op'[p].next = n
      /\ op'[p].subject = op[p].subject
  BY <1>2, <1>5 DEF Operation
<1>7. op' \in [Server -> Operation]
  BY <1>2, <1>3, <1>4
<1>8. \A q \in Server \ {p} : pc'[q] = pc[q] /\ op'[q] = op[q]
  BY <1>2, <1>4 DEF TypeOK
<1> QED
  BY <1>1, <1>6, <1>7, <1>8

LEMMA RecordType ==
  ASSUME TypeOK, NEW p \in Server, NEW e \in Seq(Event), Record(p, e)
  PROVE  /\ pc' \in [Server -> Labels]
         /\ op' \in [Server -> Operation]
         /\ pc'[p] = "load_chain"
         /\ op'[p].events = e /\ op'[p].next = op[p].next
         /\ \A q \in Server \ {p} : pc'[q] = pc[q] /\ op'[q] = op[q]
<1>1. pc' \in [Server -> Labels] /\ pc'[p] = "load_chain"
  BY DEF TypeOK, Record, GoTo, Labels
<1>2. op \in [Server -> Operation] /\ op[p] \in Operation
  BY DEF TypeOK
<1>3. [op[p] EXCEPT !.events = e] \in Operation
  BY <1>2 DEF Operation
<1>4. op' = [op EXCEPT ![p] = [op[p] EXCEPT !.events = e]]
  BY DEF Record
<1>5. op'[p] = [op[p] EXCEPT !.events = e]
  BY <1>2, <1>4
<1>6. op'[p].events = e /\ op'[p].next = op[p].next
  BY <1>2, <1>5 DEF Operation
<1>7. op' \in [Server -> Operation]
  BY <1>2, <1>3, <1>4
<1>8. \A q \in Server \ {p} : pc'[q] = pc[q] /\ op'[q] = op[q]
  BY <1>2, <1>4 DEF TypeOK, Record, GoTo
<1> QED
  BY <1>1, <1>6, <1>7, <1>8

LEMMA FinishType ==
  ASSUME TypeOK, NEW p \in Server, Finish(p)
  PROVE  /\ pc' \in [Server -> Labels]
         /\ op' \in [Server -> Operation]
         /\ pc'[p] = "idle"
         /\ op'[p] = NoOp
         /\ \A q \in Server \ {p} : pc'[q] = pc[q] /\ op'[q] = op[q]
  BY NoOpType DEF TypeOK, Finish, GoTo, Labels

\* The workspace each request computes is a workspace.
LEMMA EditType ==
  ASSUME NEW w \in Workspaces
  PROVE  /\ \A v \in Venture : [w EXCEPT !.venture = v] \in Workspaces
         /\ \A c \in Customer : [w EXCEPT !.customers = @ \cup {c}] \in Workspaces
         /\ [w EXCEPT !.disclosures = @ + 1] \in Workspaces
         /\ \A d \in Document, s \in DocumentStatus :
              [w EXCEPT !.documents[d] = s] \in Workspaces
         /\ \A d \in Document, s \in DocumentStatus, a \in Approval, r \in Approvals :
              [w EXCEPT !.documents[d] = s, !.approvals[a] = r] \in Workspaces
<1>1. \A v \in Venture : [w EXCEPT !.venture = v] \in Workspaces
  BY DEF Workspaces
<1>2. \A c \in Customer : [w EXCEPT !.customers = @ \cup {c}] \in Workspaces
  BY DEF Workspaces
<1>3. [w EXCEPT !.disclosures = @ + 1] \in Workspaces
  BY DEF Workspaces
<1>4. \A d \in Document, s \in DocumentStatus :
        [w.documents EXCEPT ![d] = s] \in [Document -> DocumentStatus]
  BY DEF Workspaces
<1>5. \A a \in Approval, r \in Approvals :
        [w.approvals EXCEPT ![a] = r] \in [Approval -> Approvals]
  BY DEF Workspaces
<1>6. \A d \in Document, s \in DocumentStatus : [w EXCEPT !.documents[d] = s] \in Workspaces
  BY <1>4 DEF Workspaces
<1>7. \A d \in Document, s \in DocumentStatus, a \in Approval, r \in Approvals :
        [w EXCEPT !.documents[d] = s, !.approvals[a] = r] \in Workspaces
  BY <1>4, <1>5 DEF Workspaces
<1> QED
  BY <1>1, <1>2, <1>3, <1>6, <1>7

\* A decision edits one approval that is not absent, and its document.
LEMMA DecideType ==
  ASSUME NEW w \in Workspaces, NEW a \in Approval, w.approvals[a].status = "Pending"
  PROVE  LET d == w.approvals[a].document IN
         /\ d \in Document
         /\ [w EXCEPT !.approvals[a].status = "Rejected", !.documents[d] = "Rejected"]
              \in Workspaces
         /\ \A r \in SignedRecord :
              [w EXCEPT !.approvals[a].status = "Approved", !.approvals[a].evidence = r,
                        !.documents[d] = "ApprovedPendingDelivery"] \in Workspaces
<1> DEFINE d == w.approvals[a].document
<1>1. w.approvals[a] \in [document : Document, status : {"Pending", "Approved", "Rejected"},
                          evidence : SignedRecord \cup {None}]
  BY DEF Workspaces, Approvals, NoApproval
<1>2. [w.approvals EXCEPT ![a].status = "Rejected"] \in [Approval -> Approvals]
  BY <1>1 DEF Workspaces, Approvals
<1>3. ASSUME NEW r \in SignedRecord
      PROVE  [w.approvals EXCEPT ![a].status = "Approved", ![a].evidence = r]
               \in [Approval -> Approvals]
  BY <1>1 DEF Workspaces, Approvals
<1>4. /\ [w.documents EXCEPT ![d] = "Rejected"] \in [Document -> DocumentStatus]
      /\ [w.documents EXCEPT ![d] = "ApprovedPendingDelivery"] \in [Document -> DocumentStatus]
  BY DEF Workspaces, DocumentStatus
<1> QED
  BY <1>1, <1>2, <1>3, <1>4 DEF Workspaces

------------------------------------------------------------------------------
(* Type correctness.                                                        *)

\* A step of server p that leaves memory well placed keeps every server so.
LEMMA OthersLocated ==
  ASSUME ITypeOK, NEW p \in Server, Located(p)',
         \A q \in Server \ {p} : pc'[q] = pc[q] /\ op'[q] = op[q]
  PROVE  \A q \in Server : Located(q)'
  BY DEF ITypeOK, Located

\* Every request that commits a workspace leaves server p about to load the chain.
LEMMA CommitLocated ==
  ASSUME ITypeOK, NEW p \in Server, NEW w \in Workspaces, NEW e \in Seq(Event),
         Commit(p, w, e, "idle")
  PROVE  Located(p)'
<1>1. TypeOK /\ "idle" \in {"idle", "commit_receipt"}
  BY DEF ITypeOK
<1>2. pc'[p] = "load_chain" /\ op'[p].next = "idle"
  BY <1>1, CommitType
<1> QED
  BY <1>2 DEF Located, SendLabels, RecordLabels, CommitLabels

LEMMA InitTypeOK == Init => ITypeOK
<1> SUFFICES ASSUME Init PROVE ITypeOK
  OBVIOUS
<1>1. TypeOK
  <2>1. ws \in Workspaces /\ ledger \in Seq(Event)
    BY EmptyWorkspaceType, EmptySeq DEF Init
  <2>2. outbox \in [Document -> Venture \cup {None}]
    BY DEF Init
  <2>3. flow \in [Approval -> Checkpoint]
    BY DEF Init, Checkpoint, EmptyFlow
  <2>4. pc \in [Server -> Labels]
    BY DEF Init, Labels
  <2>5. op \in [Server -> Operation]
    BY NoOpType DEF Init
  <2>6. audit \in [reading : BOOLEAN, ws : Workspaces,
                  critical : SUBSET (Customer \cup Document \cup Approval)]
    BY EmptyWorkspaceType DEF Init
  <2>7. executions \in [Approval -> Nat]
    BY DEF Init
  <2> QED
    BY <2>1, <2>2, <2>3, <2>4, <2>5, <2>6, <2>7 DEF Init, TypeOK
<1>2. \A p \in Server : Located(p)
  BY DEF Init, Located, SendLabels, RecordLabels, CommitLabels
<1> QED
  BY <1>1, <1>2 DEF ITypeOK

\* What memory must look like for ITypeOK to be preserved.
MemoryOK ==
  /\ pc \in [Server -> Labels]
  /\ op \in [Server -> Operation]
  /\ \A q \in Server : Located(q)

LEMMA CommitMemory ==
  ASSUME ITypeOK, NEW p \in Server, NEW w \in Workspaces, NEW e \in Seq(Event),
         Commit(p, w, e, "idle")
  PROVE  MemoryOK'
<1>1. TypeOK /\ "idle" \in {"idle", "commit_receipt"}
  BY DEF ITypeOK
<1>2. /\ pc' \in [Server -> Labels] /\ op' \in [Server -> Operation]
      /\ \A q \in Server \ {p} : pc'[q] = pc[q] /\ op'[q] = op[q]
  BY <1>1, CommitType
<1> QED
  BY <1>2, CommitLocated, OthersLocated DEF MemoryOK

LEMMA FinishMemory ==
  ASSUME ITypeOK, NEW p \in Server, Finish(p)
  PROVE  MemoryOK'
<1>1. /\ pc' \in [Server -> Labels] /\ op' \in [Server -> Operation]
      /\ pc'[p] = "idle" /\ op'[p] = NoOp
      /\ \A q \in Server \ {p} : pc'[q] = pc[q] /\ op'[q] = op[q]
  BY FinishType DEF ITypeOK
<1>2. Located(p)'
  BY <1>1 DEF Located, SendLabels, RecordLabels, CommitLabels
<1> QED
  BY <1>1, <1>2, OthersLocated DEF MemoryOK

\* Moving on with the request in memory, or with one field of it replaced.
LEMMA StepMemory ==
  ASSUME ITypeOK, NEW p \in Server, NEW l \in Labels, GoTo(p, l),
         NEW o \in Operation, op' = [op EXCEPT ![p] = o], Located(p)'
  PROVE  MemoryOK'
<1>1. pc' \in [Server -> Labels] /\ op' \in [Server -> Operation]
  BY DEF ITypeOK, TypeOK, GoTo
<1>2. \A q \in Server \ {p} : pc'[q] = pc[q] /\ op'[q] = op[q]
  BY DEF ITypeOK, TypeOK, GoTo
<1> QED
  BY <1>1, <1>2, OthersLocated DEF MemoryOK

LEMMA MoveMemory ==
  ASSUME ITypeOK, NEW p \in Server, NEW l \in Labels, GoTo(p, l), UNCHANGED op, Located(p)'
  PROVE  MemoryOK'
<1>1. op[p] \in Operation /\ op' = [op EXCEPT ![p] = op[p]]
  BY DEF ITypeOK, TypeOK
<1> QED
  BY <1>1, StepMemory

LEMMA RequestTypeOK ==
  ASSUME ITypeOK, NEW p \in Server, Request(p)
  PROVE  ITypeOK'
<1>t. TypeOK /\ ws \in Workspaces
  BY DEF ITypeOK, TypeOK
<1>1. ASSUME NEW v \in Venture, SetVenture(p, v) PROVE ITypeOK'
  <2> DEFINE w == [ws EXCEPT !.venture = v]
             e == <<Ev("venture.update", "venture:profile")>>
  <2>1. w \in Workspaces /\ e \in Seq(Event)
    BY <1>t, EditType, EventType DEF Action, Resource
  <2>2. MemoryOK'
    BY <1>1, <2>1, CommitMemory DEF SetVenture
  <2> QED
    BY <1>1, <2>2, <1>t DEF SetVenture, ITypeOK, TypeOK, MemoryOK, durable, history, Repeatable
<1>2. ASSUME NEW c \in Customer, AddCustomer(p, c) PROVE ITypeOK'
  <2> DEFINE w == [ws EXCEPT !.customers = @ \cup {c}]
             e == <<Ev("customer.create", c)>>
  <2>1. w \in Workspaces /\ e \in Seq(Event)
    BY <1>t, EditType, EventType DEF Action, Resource
  <2>2. MemoryOK'
    BY <1>2, <2>1, CommitMemory DEF AddCustomer
  <2> QED
    BY <1>2, <2>2, <1>t DEF AddCustomer, ITypeOK, TypeOK, MemoryOK, durable, history, bounds, Mint
<1>3. ASSUME NEW c \in Customer, DraftAssistant(p, c) PROVE ITypeOK'
  <2> DEFINE o == [op[p] EXCEPT !.subject = c]
  <2>1. op[p] \in Operation
    BY <1>t DEF TypeOK
  <2>2. o \in Operation /\ o.subject = c
    BY <2>1 DEF Operation
  <2>3. op' = [op EXCEPT ![p] = o] /\ op'[p] = o /\ pc'[p] = "disclose"
    BY <1>3, <1>t DEF DraftAssistant, GoTo, TypeOK
  <2>4. Located(p)'
    BY <2>2, <2>3 DEF Located, SendLabels, RecordLabels, CommitLabels
  <2>5. MemoryOK'
    BY <1>3, <2>2, <2>3, <2>4, StepMemory DEF DraftAssistant, Labels
  <2> QED
    BY <1>3, <2>5, <1>t DEF DraftAssistant, ITypeOK, TypeOK, MemoryOK, durable, Repeatable
<1>4. ASSUME NEW d \in Document, CreateDocument(p, d) PROVE ITypeOK'
  <2> DEFINE w == [ws EXCEPT !.documents[d] = "Draft"]
             e == <<Ev("document.draft", d)>>
  <2>1. w \in Workspaces /\ e \in Seq(Event)
    BY <1>t, EditType, EventType DEF Action, Resource, DocumentStatus
  <2>2. MemoryOK'
    BY <1>4, <2>1, CommitMemory DEF CreateDocument
  <2> QED
    BY <1>4, <2>2, <1>t DEF CreateDocument, ITypeOK, TypeOK, MemoryOK, durable, history, bounds, Mint
<1>5. ASSUME NEW d \in Document, NEW a \in Approval, RequestSend(p, d, a) PROVE ITypeOK'
  <2> DEFINE r == [document |-> d, status |-> "Pending", evidence |-> None]
             w == [ws EXCEPT !.documents[d] = "PendingApproval", !.approvals[a] = r]
             e == <<Ev("approval.requested", d)>>
  <2>1. r \in Approvals
    BY DEF Approvals
  <2>2. w \in Workspaces /\ e \in Seq(Event)
    BY <1>t, <2>1, EditType, EventType DEF Action, Resource, DocumentStatus
  <2>3. MemoryOK'
    BY <1>5, <2>2, CommitMemory DEF RequestSend
  <2> QED
    BY <1>5, <2>3, <1>t DEF RequestSend, ITypeOK, TypeOK, MemoryOK, durable, bounds, Mint
<1>6. ASSUME NEW a \in Approval, Reject(p, a) PROVE ITypeOK'
  <2> DEFINE d == ws.approvals[a].document
             w == [ws EXCEPT !.approvals[a].status = "Rejected", !.documents[d] = "Rejected"]
             e == <<Ev("approval.rejected", d)>>
  <2>1. w \in Workspaces /\ e \in Seq(Event)
    BY <1>6, <1>t, DecideType, EventType DEF Reject, Action, Resource
  <2>2. MemoryOK'
    BY <1>6, <2>1, CommitMemory DEF Reject
  <2> QED
    BY <1>6, <2>2, <1>t DEF Reject, ITypeOK, TypeOK, MemoryOK, durable, history, bounds
<1>7. ASSUME NEW d \in Document, RevokeDelivery(p, d) PROVE ITypeOK'
  <2> DEFINE w == [ws EXCEPT !.documents[d] = "Revoked"]
             e == <<Ev("effect.revoked", d)>>
  <2>1. w \in Workspaces /\ e \in Seq(Event)
    BY <1>t, EditType, EventType DEF Action, Resource, DocumentStatus
  <2>2. MemoryOK'
    BY <1>7, <2>1, CommitMemory DEF RevokeDelivery
  <2> QED
    BY <1>7, <2>2, <1>t DEF RevokeDelivery, ITypeOK, TypeOK, MemoryOK, durable, history, bounds
<1>8. ASSUME NEW d \in Document, ConfirmDelivery(p, d) PROVE ITypeOK'
  <2> DEFINE w == [ws EXCEPT !.documents[d] = "Delivered"]
             e == <<Ev("delivery.confirmed", d)>>
  <2>1. w \in Workspaces /\ e \in Seq(Event)
    BY <1>t, EditType, EventType DEF Action, Resource, DocumentStatus
  <2>2. MemoryOK'
    BY <1>8, <2>1, CommitMemory DEF ConfirmDelivery
  <2> QED
    BY <1>8, <2>2, <1>t DEF ConfirmDelivery, ITypeOK, TypeOK, MemoryOK, durable, history, bounds
<1>9. ASSUME NEW a \in Approval, Approve(p, a) PROVE ITypeOK'
  <2> DEFINE o == [op[p] EXCEPT !.subject = a]
             l == CASE flow[a].completed = 0 -> "execute"
                    [] flow[a].completed = 1 -> "commit_step"
                    [] flow[a].completed = 2 -> "done"
  <2>1. op[p] \in Operation /\ flow[a].completed \in 0 .. 2
    BY <1>t DEF TypeOK, Checkpoint
  <2>2. o \in Operation /\ o.subject = a
    BY <2>1 DEF Operation
  <2>3. l \in {"execute", "commit_step", "done"}
    BY <2>1
  <2>4. op' = [op EXCEPT ![p] = o] /\ op'[p] = o /\ pc'[p] = l /\ GoTo(p, l)
    BY <1>9, <1>t DEF Approve, GoTo, TypeOK
  <2>5. Located(p)'
    BY <2>2, <2>3, <2>4 DEF Located, SendLabels, RecordLabels, CommitLabels
  <2>6. MemoryOK'
    BY <2>2, <2>3, <2>4, <2>5, StepMemory DEF Labels
  <2> QED
    BY <1>9, <2>6, <1>t DEF Approve, ITypeOK, TypeOK, MemoryOK, durable, history, bounds
<1>10. ASSUME Export(p) PROVE ITypeOK'
  <2> DEFINE e == <<Ev("workspace.export", "workspace:all")>>
  <2>1. e \in Seq(Event)
    BY EventType DEF Action, Resource
  <2>2. Record(p, e) /\ pc[p] = "idle"
    BY <1>10 DEF Export
  <2>3. /\ pc' \in [Server -> Labels] /\ op' \in [Server -> Operation]
        /\ pc'[p] = "load_chain" /\ op'[p].next = op[p].next
        /\ \A q \in Server \ {p} : pc'[q] = pc[q] /\ op'[q] = op[q]
    BY <2>1, <2>2, <1>t, RecordType
  <2>4. op[p].next = "no_save"
    BY <2>2 DEF ITypeOK, Located, NoOp
  <2>5. Located(p)'
    BY <2>3, <2>4 DEF Located, SendLabels, RecordLabels, CommitLabels
  <2>6. MemoryOK'
    BY <2>3, <2>5, OthersLocated DEF MemoryOK
  <2> QED
    BY <1>10, <2>6, <1>t DEF Export, ITypeOK, TypeOK, MemoryOK, durable, history, Repeatable
<1> QED
  BY <1>1, <1>2, <1>3, <1>4, <1>5, <1>6, <1>7, <1>8, <1>9, <1>10 DEF Request

\* A checkpoint edited by a step of the workflow is a checkpoint.
LEMMA FlowType ==
  ASSUME TypeOK, NEW a \in Approval
  PROVE  /\ \A n \in 0 .. 2 : [flow EXCEPT ![a].completed = n] \in [Approval -> Checkpoint]
         /\ [flow EXCEPT ![a].done = TRUE] \in [Approval -> Checkpoint]
         /\ \A r \in SignedRecord : [flow EXCEPT ![a].record = r] \in [Approval -> Checkpoint]
<1>1. flow \in [Approval -> Checkpoint] /\ flow[a] \in Checkpoint
  BY DEF TypeOK
<1>2. \A n \in 0 .. 2 : [flow[a] EXCEPT !.completed = n] \in Checkpoint
  BY <1>1 DEF Checkpoint
<1>3. [flow[a] EXCEPT !.done = TRUE] \in Checkpoint
  BY <1>1 DEF Checkpoint
<1>4. \A r \in SignedRecord : [flow[a] EXCEPT !.record = r] \in Checkpoint
  BY <1>1 DEF Checkpoint
<1> QED
  BY <1>1, <1>2, <1>3, <1>4

LEMMA ContinueTypeOK ==
  ASSUME ITypeOK, NEW p \in Server, Continue(p)
  PROVE  ITypeOK'
<1>t. TypeOK /\ ws \in Workspaces /\ op[p] \in Operation
  BY DEF ITypeOK, TypeOK
<1>l. Located(p)
  BY DEF ITypeOK
<1>1. ASSUME Disclose(p) PROVE ITypeOK'
  <2> DEFINE w == [ws EXCEPT !.disclosures = @ + 1]
             e == <<Ev("model.drafted", op[p].subject)>>
  <2>1. op[p].subject \in Customer
    BY <1>1, <1>l DEF Disclose, Located
  <2>2. w \in Workspaces /\ e \in Seq(Event)
    BY <2>1, <1>t, EditType, EventType DEF Action, Resource
  <2>3. MemoryOK'
    BY <1>1, <2>2, CommitMemory DEF Disclose
  <2> QED
    BY <1>1, <2>3, <1>t DEF Disclose, ITypeOK, TypeOK, MemoryOK, durable, history, bounds
<1>2. ASSUME ComposeSend(p) PROVE ITypeOK'
  <2> DEFINE a == op[p].subject
             r == [content |-> ws.venture, attempt |-> 0]
             o == [op[p] EXCEPT !.record = r]
  <2>1. outbox' \in [Document -> Venture \cup {None}]
    BY <1>2, <1>t DEF ComposeSend, TypeOK
  <2>2. ASSUME ws.approvals[a].status = "Pending" PROVE MemoryOK'
    <3>1. r \in SignedRecord
      BY <1>t DEF Workspaces, SignedRecord
    <3>2. o \in Operation /\ o.record = r /\ o.subject = a
      BY <3>1, <1>t DEF Operation
    <3>3. /\ op' = [op EXCEPT ![p] = o] /\ op'[p] = o
          /\ GoTo(p, "kernel") /\ pc'[p] = "kernel" /\ pc[p] = "execute"
      BY <1>2, <2>2, <1>t DEF ComposeSend, GoTo, TypeOK
    <3>4. Located(p)'
      BY <3>1, <3>2, <3>3, <1>l DEF Located, SendLabels, RecordLabels, CommitLabels
    <3> QED
      BY <3>2, <3>3, <3>4, StepMemory DEF Labels
  <2>3. ASSUME ws.approvals[a].status # "Pending" PROVE MemoryOK'
    BY <1>2, <2>3, FinishMemory DEF ComposeSend
  <2>4. MemoryOK'
    BY <2>2, <2>3
  <2> QED
    BY <1>2, <2>1, <2>4, <1>t DEF ComposeSend, ITypeOK, TypeOK, MemoryOK, history, bounds
<1>3. ASSUME RunKernel(p) PROVE ITypeOK'
  <2> DEFINE a == op[p].subject
             r == [op[p].record EXCEPT !.attempt = executions[a] + 1]
             o == [op[p] EXCEPT !.record = r]
  <2>1. a \in Approval /\ op[p].record \in SignedRecord /\ executions[a] \in Nat
    BY <1>3, <1>l, <1>t DEF RunKernel, Located, SendLabels, RecordLabels, TypeOK
  <2>2. r \in SignedRecord
    BY <2>1 DEF SignedRecord
  <2>3. o \in Operation /\ o.record = r /\ o.subject = a
    BY <2>2, <1>t DEF Operation
  <2>4. /\ op' = [op EXCEPT ![p] = o] /\ op'[p] = o
        /\ GoTo(p, "write_outbox") /\ pc'[p] = "write_outbox"
    BY <1>3, <1>t DEF RunKernel, GoTo, TypeOK
  <2>5. Located(p)'
    BY <2>1, <2>2, <2>3, <2>4 DEF Located, SendLabels, RecordLabels, CommitLabels
  <2>6. MemoryOK'
    BY <2>3, <2>4, <2>5, StepMemory DEF Labels
  <2>7. executions' \in [Approval -> Nat]
    BY <1>3, <2>1, <1>t DEF RunKernel, TypeOK
  <2> QED
    BY <1>3, <2>6, <2>7, <1>t DEF RunKernel, ITypeOK, TypeOK, MemoryOK, durable, bounds
<1>4. ASSUME WriteOutbox(p) PROVE ITypeOK'
  <2>1. pc[p] = "write_outbox" /\ pc'[p] = "write_record" /\ op'[p] = op[p]
    BY <1>4, <1>t DEF WriteOutbox, GoTo, TypeOK
  <2>2. Located(p)'
    BY <2>1, <1>l DEF Located, SendLabels, RecordLabels, CommitLabels
  <2>3. MemoryOK'
    BY <1>4, <2>2, MoveMemory DEF WriteOutbox, Labels
  <2>4. op[p].record.content \in Venture \cup {None}
    BY <2>1, <1>l DEF Located, RecordLabels, SignedRecord
  <2>5. outbox' \in [Document -> Venture \cup {None}]
    BY <1>4, <2>4, <1>t DEF WriteOutbox, TypeOK
  <2> QED
    BY <1>4, <2>3, <2>5, <1>t DEF WriteOutbox, ITypeOK, TypeOK, MemoryOK, history, bounds
<1>5. ASSUME WriteRecord(p) PROVE ITypeOK'
  <2>1. pc[p] = "write_record" /\ pc'[p] = "execute_receipt" /\ op'[p] = op[p]
    BY <1>5, <1>t DEF WriteRecord, GoTo, TypeOK
  <2>2. Located(p)'
    BY <2>1, <1>l DEF Located, SendLabels, RecordLabels, CommitLabels
  <2>3. MemoryOK'
    BY <1>5, <2>2, MoveMemory DEF WriteRecord, Labels
  <2>4. op[p].record \in SignedRecord /\ op[p].subject \in Approval
    BY <2>1, <1>l DEF Located, RecordLabels, SendLabels
  <2>5. flow' \in [Approval -> Checkpoint]
    BY <1>5, <2>4, <1>t, FlowType DEF WriteRecord
  <2> QED
    BY <1>5, <2>3, <2>5, <1>t DEF WriteRecord, ITypeOK, TypeOK, MemoryOK, history, bounds
<1>6. ASSUME PersistExecute(p) PROVE ITypeOK'
  <2>1. pc[p] = "execute_receipt" /\ pc'[p] = "commit_step" /\ op'[p] = op[p]
    BY <1>6, <1>t DEF PersistExecute, GoTo, TypeOK
  <2>2. Located(p)'
    BY <2>1, <1>l DEF Located, SendLabels, RecordLabels, CommitLabels
  <2>3. MemoryOK'
    BY <1>6, <2>2, MoveMemory DEF PersistExecute, Labels
  <2>4. flow' \in [Approval -> Checkpoint]
    <3>1. op[p].subject \in Approval
      BY <2>1, <1>l DEF Located, SendLabels
    <3>2. 1 \in 0 .. 2
      OBVIOUS
    <3> QED
      BY <1>6, <3>1, <3>2, <1>t, FlowType DEF PersistExecute
  <2> QED
    BY <1>6, <2>3, <2>4, <1>t DEF PersistExecute, ITypeOK, TypeOK, MemoryOK, history, bounds
<1>7. ASSUME CommitDecision(p) PROVE ITypeOK'
  <2> DEFINE a == op[p].subject
             d == ws.approvals[a].document
             r == flow[a].record
             w == [ws EXCEPT !.approvals[a].status = "Approved", !.approvals[a].evidence = r,
                             !.documents[d] = "ApprovedPendingDelivery"]
             e == <<Ev("approval.granted", d), Ev("capability.executed", d),
                    Ev("effect.file_written", d)>>
  <2>1. a \in Approval /\ pc[p] = "commit_step" /\ r \in SignedRecord \cup {None}
    BY <1>7, <1>l, <1>t DEF CommitDecision, Located, SendLabels, TypeOK, Checkpoint
  <2>2. ASSUME r = None /\ Finish(p) PROVE MemoryOK'
    BY <2>2, FinishMemory
  <2>3. ASSUME GoTo(p, "commit_receipt") /\ UNCHANGED op PROVE MemoryOK'
    <3>1. pc'[p] = "commit_receipt" /\ op'[p] = op[p]
      BY <2>3, <1>t DEF GoTo, TypeOK
    <3>2. Located(p)'
      BY <3>1, <2>1, <1>l DEF Located, SendLabels, RecordLabels, CommitLabels
    <3> QED
      BY <2>3, <3>2, MoveMemory DEF Labels
  <2>4. ASSUME r # None, ws.approvals[a].status = "Pending",
              Commit(p, w, e, "commit_receipt")
       PROVE  MemoryOK'
    <3>1. r \in SignedRecord
      BY <2>1, <2>4
    <3>2. w \in Workspaces /\ d \in Document
      BY <2>1, <2>4, <3>1, <1>t, DecideType
    <3>3. e \in Seq(Event)
      <4>1. /\ Ev("approval.granted", d) \in Event /\ Ev("capability.executed", d) \in Event
            /\ Ev("effect.file_written", d) \in Event
        BY <3>2, EventType DEF Action, Resource
      <4> QED
        BY <4>1
    <3>4. /\ pc' \in [Server -> Labels] /\ op' \in [Server -> Operation]
          /\ pc'[p] = "load_chain" /\ op'[p].subject = a
          /\ \A q \in Server \ {p} : pc'[q] = pc[q] /\ op'[q] = op[q]
      <4>1. "commit_receipt" \in {"idle", "commit_receipt"}
        OBVIOUS
      <4> QED
        BY <2>4, <3>2, <3>3, <4>1, <1>t, CommitType
    <3>5. Located(p)'
      BY <3>4, <2>1 DEF Located, SendLabels, RecordLabels, CommitLabels
    <3>6. \A q \in Server : Located(q)'
      BY <3>4, <3>5, OthersLocated
    <3> QED
      BY <3>4, <3>6 DEF MemoryOK
  <2>5. MemoryOK'
    BY <1>7, <2>2, <2>3, <2>4 DEF CommitDecision
  <2> QED
    BY <1>7, <2>5, <1>t DEF CommitDecision, ITypeOK, TypeOK, MemoryOK, durable, history, bounds
<1>8. ASSUME PersistCommit(p) PROVE ITypeOK'
  <2>1. pc[p] = "commit_receipt" /\ pc'[p] = "done" /\ op'[p] = op[p]
    BY <1>8, <1>t DEF PersistCommit, GoTo, TypeOK
  <2>2. Located(p)'
    BY <2>1, <1>l DEF Located, SendLabels, RecordLabels, CommitLabels
  <2>3. MemoryOK'
    BY <1>8, <2>2, MoveMemory DEF PersistCommit, Labels
  <2>4. flow' \in [Approval -> Checkpoint]
    <3>1. op[p].subject \in Approval
      BY <2>1, <1>l DEF Located, SendLabels
    <3>2. 2 \in 0 .. 2
      OBVIOUS
    <3> QED
      BY <1>8, <3>1, <3>2, <1>t, FlowType DEF PersistCommit
  <2> QED
    BY <1>8, <2>3, <2>4, <1>t DEF PersistCommit, ITypeOK, TypeOK, MemoryOK, history, bounds
<1>9. ASSUME PersistDone(p) PROVE ITypeOK'
  <2>1. flow' \in [Approval -> Checkpoint]
    <3>1. op[p].subject \in Approval
      BY <1>9, <1>l DEF PersistDone, Located, SendLabels
    <3> QED
      BY <1>9, <3>1, <1>t, FlowType DEF PersistDone
  <2>2. MemoryOK'
    BY <1>9, FinishMemory DEF PersistDone
  <2> QED
    BY <1>9, <2>1, <2>2, <1>t DEF PersistDone, ITypeOK, TypeOK, MemoryOK, history, bounds
<1>10. ASSUME LoadChain(p) PROVE ITypeOK'
  <2> DEFINE o == [op[p] EXCEPT !.chain = ledger]
  <2>1. o \in Operation /\ o.next = op[p].next /\ o.subject = op[p].subject
    BY <1>t DEF Operation, TypeOK
  <2>2. /\ op' = [op EXCEPT ![p] = o] /\ op'[p] = o
        /\ GoTo(p, "save_chain") /\ pc'[p] = "save_chain" /\ pc[p] = "load_chain"
    BY <1>10, <1>t DEF LoadChain, GoTo, TypeOK
  <2>3. Located(p)'
    BY <2>1, <2>2, <1>l DEF Located, SendLabels, RecordLabels, CommitLabels
  <2>4. MemoryOK'
    BY <2>1, <2>2, <2>3, StepMemory DEF Labels
  <2> QED
    BY <1>10, <2>4, <1>t DEF LoadChain, ITypeOK, TypeOK, MemoryOK, durable, history, bounds
<1>11. ASSUME SaveChain(p) PROVE ITypeOK'
  <2>1. ledger' \in Seq(Event)
    <3>1. op[p].chain \in Seq(Event) /\ op[p].events \in Seq(Event)
      BY <1>t DEF Operation
    <3>2. op[p].chain \o op[p].events \in Seq(Event)
      BY <3>1
    <3> QED
      BY <1>11, <3>2 DEF SaveChain
  <2>2. ASSUME op[p].next = "no_save" PROVE MemoryOK'
    BY <1>11, <2>2, FinishMemory DEF SaveChain
  <2>3. ASSUME op[p].next # "no_save" PROVE MemoryOK'
    <3>1. /\ pc[p] = "save_chain" /\ pc'[p] = "save_vault" /\ op'[p] = op[p]
          /\ GoTo(p, "save_vault") /\ UNCHANGED op
      BY <1>11, <2>3, <1>t DEF SaveChain, GoTo, TypeOK
    <3>2. Located(p)'
      BY <2>3, <3>1, <1>l DEF Located, SendLabels, RecordLabels, CommitLabels
    <3> QED
      BY <3>1, <3>2, MoveMemory DEF Labels
  <2>4. MemoryOK'
    BY <2>2, <2>3
  <2>5. torn' \in BOOLEAN
    BY <1>11, <1>t DEF SaveChain, TypeOK
  <2> QED
    BY <1>11, <2>1, <2>4, <2>5, <1>t DEF SaveChain, ITypeOK, TypeOK, MemoryOK, bounds
<1>12. ASSUME SaveVault(p) PROVE ITypeOK'
  <2>1. ws' \in Workspaces
    BY <1>12, <1>t DEF SaveVault, Operation
  <2>2. ASSUME op[p].next = "idle" PROVE MemoryOK'
    BY <1>12, <2>2, FinishMemory DEF SaveVault
  <2>3. ASSUME op[p].next = "commit_receipt" PROVE MemoryOK'
    <3>1. /\ pc[p] = "save_vault" /\ pc'[p] = "commit_receipt" /\ op'[p] = op[p]
          /\ GoTo(p, "commit_receipt") /\ UNCHANGED op
      BY <1>12, <2>3, <1>t DEF SaveVault, GoTo, TypeOK
    <3>2. Located(p)'
      BY <3>1, <2>3, <1>l DEF Located, SendLabels, RecordLabels, CommitLabels
    <3> QED
      BY <3>1, <3>2, MoveMemory DEF Labels
  <2>4. op[p].next # "no_save"
    BY <1>12, <1>l DEF SaveVault, Located
  <2>5. MemoryOK'
    BY <2>2, <2>3, <2>4, <1>t DEF Operation
  <2> QED
    BY <1>12, <2>1, <2>5, <1>t DEF SaveVault, ITypeOK, TypeOK, MemoryOK, bounds
<1> QED
  BY <1>1, <1>2, <1>3, <1>4, <1>5, <1>6, <1>7, <1>8, <1>9, <1>10, <1>11, <1>12 DEF Continue

LEMMA StepTypeOK == ITypeOK /\ [Next]_vars => ITypeOK'
<1> SUFFICES ASSUME ITypeOK, [Next]_vars PROVE ITypeOK'
  OBVIOUS
<1>1. ASSUME NEW p \in Server, Interrupt(p) PROVE ITypeOK'
  <2>1. MemoryOK'
    BY <1>1, FinishMemory DEF Interrupt
  <2> QED
    BY <1>1, <2>1 DEF Interrupt, ITypeOK, TypeOK, MemoryOK, durable, history
<1>2. CASE AuditReadState
  BY <1>2 DEF AuditReadState, ITypeOK, TypeOK, Located, durable, process, history, bounds
<1>3. CASE AuditReadChain
  <2>1. CriticalFindings(audit.ws, ledger) \subseteq Customer \cup Document \cup Approval
    BY DEF CriticalFindings, ITypeOK, TypeOK, Workspaces
  <2>2. audit' \in [reading : BOOLEAN, ws : Workspaces,
                    critical : SUBSET (Customer \cup Document \cup Approval)]
    BY <1>3, <2>1, EmptyWorkspaceType DEF AuditReadChain
  <2> QED
    BY <1>3, <2>2 DEF AuditReadChain, ITypeOK, TypeOK, Located, durable, process, history, bounds
<1>4. CASE UNCHANGED vars
  BY <1>4 DEF vars, ITypeOK, TypeOK, Located
<1> QED
  BY <1>1, <1>2, <1>3, <1>4, RequestTypeOK, ContinueTypeOK DEF Next

\* In every behaviour, with any number of server processes, every variable
\* keeps to its type and memory fits the step being taken.
THEOREM TypeCorrect == Spec => []TypeOK
<1>1. Spec => []ITypeOK
  BY InitTypeOK, StepTypeOK, PTL DEF Spec
<1>2. ITypeOK => TypeOK
  BY DEF ITypeOK
<1> QED
  BY <1>1, <1>2, PTL

------------------------------------------------------------------------------
(* One server at a time.                                                    *)

SingleServer == \A p, q \in Server : p = q

\* No critical finding, part by part.
Backed(w, chain) ==
  /\ \A c \in w.customers : Has(chain, "customer.create", c)
  /\ \A d \in Document : ~Unsigned(w, chain, d)
  /\ \A a \in Approval : ~UnsignedEffect(w, chain, a)

\* The workspace a server is about to save is backed by the chain it is about
\* to save, and that chain extends the one on disk.
InFlight(p) ==
  /\ pc[p] \in {"load_chain", "save_chain"} /\ op[p].next # "no_save" =>
       Backed(op[p].ws, ledger \o op[p].events)
  /\ pc[p] = "save_chain" => op[p].chain = ledger
  /\ pc[p] = "save_vault" => Backed(op[p].ws, ledger)

AuditInv ==
  /\ ITypeOK
  /\ Backed(ws, ledger)
  /\ audit.reading => Backed(audit.ws, ledger)
  /\ audit.critical = {}
  /\ \A p \in Server : InFlight(p)

------------------------------------------------------------------------------
(* Evidence on a chain survives appending.                                  *)

LEMMA HasLeft ==
  ASSUME NEW c \in Seq(Event), NEW e \in Seq(Event), NEW x, NEW r, Has(c, x, r)
  PROVE  Has(c \o e, x, r)
<1>1. PICK i \in DOMAIN c : c[i] = Ev(x, r)
  BY DEF Has
<1>2. i \in DOMAIN (c \o e) /\ (c \o e)[i] = c[i]
  BY <1>1
<1> QED
  BY <1>1, <1>2 DEF Has

LEMMA HasRight ==
  ASSUME NEW c \in Seq(Event), NEW e \in Seq(Event), NEW x, NEW r, Has(e, x, r)
  PROVE  Has(c \o e, x, r)
<1>1. PICK i \in DOMAIN e : e[i] = Ev(x, r)
  BY DEF Has
<1>2. i \in 1 .. Len(e) /\ Len(c) \in Nat
  BY <1>1
<1>3. Len(c) + i \in DOMAIN (c \o e) /\ (c \o e)[Len(c) + i] = e[i]
  BY <1>2
<1> QED
  BY <1>1, <1>3 DEF Has

LEMMA BackedGrows ==
  ASSUME NEW w, NEW c \in Seq(Event), NEW e \in Seq(Event), Backed(w, c)
  PROVE  Backed(w, c \o e)
<1>1. \A x, r : Has(c, x, r) => Has(c \o e, x, r)
  BY HasLeft
<1> QED
  BY <1>1 DEF Backed, Unsigned, UnsignedEffect

LEMMA BackedIsClean ==
  ASSUME NEW w, NEW c
  PROVE  Backed(w, c) <=> CriticalFindings(w, c) = {}
  BY DEF Backed, CriticalFindings

------------------------------------------------------------------------------
(* Each operation's event backs the state it commits.                       *)

LEMMA BackedEdits ==
  ASSUME NEW w \in Workspaces, NEW c \in Seq(Event), Backed(w, c)
  PROVE  /\ \A v \in Venture : Backed([w EXCEPT !.venture = v], c)
         /\ Backed([w EXCEPT !.disclosures = @ + 1], c)
         /\ \A x \in Customer : Has(c, "customer.create", x) =>
              Backed([w EXCEPT !.customers = @ \cup {x}], c)
         /\ \A d \in Document : Backed([w EXCEPT !.documents[d] = "Draft"], c)
<1>1. \A v \in Venture : Backed([w EXCEPT !.venture = v], c)
  BY DEF Backed, Unsigned, UnsignedEffect, Workspaces
<1>2. Backed([w EXCEPT !.disclosures = @ + 1], c)
  BY DEF Backed, Unsigned, UnsignedEffect, Workspaces
<1>3. ASSUME NEW x \in Customer, Has(c, "customer.create", x)
      PROVE  Backed([w EXCEPT !.customers = @ \cup {x}], c)
  BY <1>3 DEF Backed, Unsigned, UnsignedEffect, Workspaces
<1>4. ASSUME NEW d \in Document PROVE Backed([w EXCEPT !.documents[d] = "Draft"], c)
  <2> DEFINE n == [w EXCEPT !.documents[d] = "Draft"]
  <2>1. /\ n.customers = w.customers /\ n.approvals = w.approvals
        /\ \A e \in Document : n.documents[e] = IF e = d THEN "Draft" ELSE w.documents[e]
    BY DEF Workspaces
  <2> HIDE DEF n
  <2> QED
    BY <2>1 DEF Backed, Unsigned, UnsignedEffect, Granted
<1> QED
  BY <1>1, <1>2, <1>3, <1>4

\* A document moves to a state its events on the chain justify; its approvals
\* keep their evidence.
LEMMA BackedMove ==
  ASSUME NEW w \in Workspaces, NEW c \in Seq(Event), Backed(w, c), NEW d \in Document,
         NEW n \in Workspaces, n.customers = w.customers,
         \A a \in Approval : \/ n.approvals[a].evidence = None
                             \/ /\ n.approvals[a].evidence = w.approvals[a].evidence
                                /\ n.approvals[a].document = w.approvals[a].document
                             \/ /\ n.approvals[a].document = d
                                /\ Has(c, "effect.file_written", d),
         \A e \in Document : e # d => n.documents[e] = w.documents[e],
         n.documents[d] \in Granted => Has(c, "approval.granted", d),
         n.documents[d] = "Revoked" => Has(c, "effect.revoked", d),
         n.documents[d] = "Delivered" => Has(c, "delivery.confirmed", d)
  PROVE  Backed(n, c)
<1>1. \A x \in n.customers : Has(c, "customer.create", x)
  BY DEF Backed
<1>2. \A e \in Document : ~Unsigned(n, c, e)
  BY DEF Backed, Unsigned
<1>3. \A a \in Approval : ~UnsignedEffect(n, c, a)
  BY DEF Backed, UnsignedEffect
<1> QED
  BY <1>1, <1>2, <1>3 DEF Backed

------------------------------------------------------------------------------
(* The invariant.                                                           *)

LEMMA CommitAudit ==
  ASSUME SingleServer, AuditInv, NEW p \in Server, NEW w \in Workspaces,
         NEW e \in Seq(Event), NEW n \in {"idle", "commit_receipt"}, Commit(p, w, e, n),
         UNCHANGED ledger, Backed(w, ledger \o e)
  PROVE  \A q \in Server : InFlight(q)'
<1>1. pc'[p] = "load_chain" /\ op'[p].ws = w /\ op'[p].events = e
  BY CommitType DEF AuditInv, ITypeOK
<1>2. InFlight(p)'
  BY <1>1 DEF InFlight
<1> QED
  BY <1>2 DEF SingleServer

\* A server outside the commit has no obligation.
LEMMA ElsewhereAudit ==
  ASSUME SingleServer, NEW p \in Server, pc'[p] \notin CommitLabels
  PROVE  \A q \in Server : InFlight(q)'
  BY DEF SingleServer, InFlight, CommitLabels

LEMMA QuietAudit ==
  ASSUME AuditInv, ITypeOK', UNCHANGED <<ws, ledger, audit>>,
         \A q \in Server : InFlight(q)'
  PROVE  AuditInv'
  BY DEF AuditInv

LEMMA HasOne == \A x, r : Has(<<Ev(x, r)>>, x, r)
  BY DEF Has

\* A decision changes the status, and perhaps the evidence, of one approval.
LEMMA DecidedFields ==
  ASSUME NEW w \in Workspaces, NEW a \in Approval, w.approvals[a].status = "Pending"
  PROVE  LET d == w.approvals[a].document
             n == [w EXCEPT !.approvals[a].status = "Rejected", !.documents[d] = "Rejected"]
         IN  \A x \in Approval : /\ n.approvals[x].evidence = w.approvals[x].evidence
                                 /\ n.approvals[x].document = w.approvals[x].document
<1> DEFINE d == w.approvals[a].document
           n == [w EXCEPT !.approvals[a].status = "Rejected", !.documents[d] = "Rejected"]
<1>1. w.approvals[a] \in [document : Document, status : {"Pending", "Approved", "Rejected"},
                          evidence : SignedRecord \cup {None}]
  BY DEF Workspaces, Approvals, NoApproval
<1>2. n.approvals = [w.approvals EXCEPT ![a] = [w.approvals[a] EXCEPT !.status = "Rejected"]]
  BY DEF Workspaces
<1>3. /\ [w.approvals[a] EXCEPT !.status = "Rejected"].evidence = w.approvals[a].evidence
      /\ [w.approvals[a] EXCEPT !.status = "Rejected"].document = w.approvals[a].document
  BY <1>1
<1> QED
  BY <1>2, <1>3 DEF Workspaces

LEMMA RequestAudit ==
  ASSUME SingleServer, AuditInv, ITypeOK', NEW p \in Server, Request(p)
  PROVE  AuditInv'
<1>t. /\ ITypeOK /\ ws \in Workspaces /\ ledger \in Seq(Event) /\ Backed(ws, ledger)
      /\ \A e \in Seq(Event) : ledger \o e \in Seq(Event)
  BY DEF AuditInv, ITypeOK, TypeOK
<1>n. "idle" \in {"idle", "commit_receipt"}
  OBVIOUS
<1>1. ASSUME NEW v \in Venture, SetVenture(p, v) PROVE AuditInv'
  <2> DEFINE w == [ws EXCEPT !.venture = v]
             e == <<Ev("venture.update", "venture:profile")>>
  <2>1. w \in Workspaces /\ e \in Seq(Event)
    BY <1>t, EditType, EventType DEF Action, Resource, DocumentStatus
  <2>2. Backed(w, ledger \o e)
    BY <1>t, <2>1, BackedGrows, BackedEdits
  <2>3. \A q \in Server : InFlight(q)'
    BY <1>1, <2>1, <2>2, <1>n, CommitAudit DEF SetVenture, durable
  <2> QED
    BY <1>1, <2>3, QuietAudit DEF SetVenture, durable
<1>2. ASSUME NEW c \in Customer, AddCustomer(p, c) PROVE AuditInv'
  <2> DEFINE w == [ws EXCEPT !.customers = @ \cup {c}]
             e == <<Ev("customer.create", c)>>
  <2>1. w \in Workspaces /\ e \in Seq(Event)
    BY <1>t, EditType, EventType DEF Action, Resource, DocumentStatus
  <2>2. Has(ledger \o e, "customer.create", c)
    BY <1>t, <2>1, HasRight, HasOne
  <2>3. Backed(w, ledger \o e)
    BY <1>t, <2>1, <2>2, BackedGrows, BackedEdits
  <2>4. \A q \in Server : InFlight(q)'
    BY <1>2, <2>1, <2>3, <1>n, CommitAudit DEF AddCustomer, durable
  <2> QED
    BY <1>2, <2>4, QuietAudit DEF AddCustomer, durable
<1>3. ASSUME NEW c \in Customer, DraftAssistant(p, c) PROVE AuditInv'
  <2>1. pc'[p] = "disclose"
    BY <1>3, <1>t DEF DraftAssistant, GoTo, ITypeOK, TypeOK
  <2> QED
    BY <1>3, <2>1, ElsewhereAudit, QuietAudit DEF DraftAssistant, durable, CommitLabels
<1>4. ASSUME NEW d \in Document, CreateDocument(p, d) PROVE AuditInv'
  <2> DEFINE w == [ws EXCEPT !.documents[d] = "Draft"]
             e == <<Ev("document.draft", d)>>
  <2>1. w \in Workspaces /\ e \in Seq(Event)
    BY <1>t, EditType, EventType DEF Action, Resource, DocumentStatus
  <2>2. Backed(w, ledger \o e)
    BY <1>t, <2>1, BackedGrows, BackedEdits
  <2>3. \A q \in Server : InFlight(q)'
    BY <1>4, <2>1, <2>2, <1>n, CommitAudit DEF CreateDocument, durable
  <2> QED
    BY <1>4, <2>3, QuietAudit DEF CreateDocument, durable
<1>5. ASSUME NEW d \in Document, NEW a \in Approval, RequestSend(p, d, a) PROVE AuditInv'
  <2> DEFINE r == [document |-> d, status |-> "Pending", evidence |-> None]
             w == [ws EXCEPT !.documents[d] = "PendingApproval", !.approvals[a] = r]
             e == <<Ev("approval.requested", d)>>
  <2>1. r \in Approvals
    BY DEF Approvals
  <2>2. w \in Workspaces /\ e \in Seq(Event)
    BY <1>t, <2>1, EditType, EventType DEF Action, Resource, DocumentStatus
  <2>3. /\ w.customers = ws.customers /\ w.documents[d] = "PendingApproval"
        /\ \A x \in Approval : w.approvals[x] = IF x = a THEN r ELSE ws.approvals[x]
        /\ \A x \in Document : x # d => w.documents[x] = ws.documents[x]
    BY <1>t DEF Workspaces
  <2>4. \A x \in Approval : \/ w.approvals[x].evidence = None
                           \/ w.approvals[x] = ws.approvals[x]
    BY <2>3
  <2>5. Backed(ws, ledger \o e)
    BY <1>t, <2>2, BackedGrows
  <2>6. Backed(w, ledger \o e)
    <3>1. ledger \o e \in Seq(Event)
      BY <1>t, <2>2
    <3>2. w.documents[d] \notin Granted /\ w.documents[d] \notin {"Revoked", "Delivered"}
      BY <2>3 DEF Granted
    <3>3. /\ ws \in Workspaces /\ w \in Workspaces /\ w.customers = ws.customers
          /\ \A x \in Document : x # d => w.documents[x] = ws.documents[x]
      BY <1>t, <2>2, <2>3
    <3>4. \A x \in Approval : \/ w.approvals[x].evidence = None
                             \/ /\ w.approvals[x].evidence = ws.approvals[x].evidence
                                /\ w.approvals[x].document = ws.approvals[x].document
      BY <2>4
    <3> DEFINE c == ledger \o e
    <3>5. c \in Seq(Event) /\ Backed(ws, c)
      BY <2>5, <3>1
    <3> HIDE DEF w, e, c
    <3>6. Backed(w, c)
      BY <3>2, <3>3, <3>4, <3>5, BackedMove
    <3> QED
      BY <3>6 DEF c
  <2>7. \A q \in Server : InFlight(q)'
    BY <1>5, <2>2, <2>6, <1>n, CommitAudit DEF RequestSend, durable
  <2> QED
    BY <1>5, <2>7, QuietAudit DEF RequestSend, durable
<1>6. ASSUME NEW a \in Approval, Reject(p, a) PROVE AuditInv'
  <2> DEFINE d == ws.approvals[a].document
             w == [ws EXCEPT !.approvals[a].status = "Rejected", !.documents[d] = "Rejected"]
             e == <<Ev("approval.rejected", d)>>
  <2>1. w \in Workspaces /\ e \in Seq(Event) /\ d \in Document
    BY <1>6, <1>t, DecideType, EventType DEF Reject, Action, Resource
  <2>2. /\ w.customers = ws.customers /\ w.documents[d] = "Rejected"
        /\ \A x \in Document : x # d => w.documents[x] = ws.documents[x]
    BY <1>t, <2>1 DEF Workspaces
  <2>3. \A x \in Approval : /\ w.approvals[x].evidence = ws.approvals[x].evidence
                           /\ w.approvals[x].document = ws.approvals[x].document
    BY <1>6, <1>t, DecidedFields DEF Reject
  <2>4. Backed(ws, ledger \o e)
    BY <1>t, <2>1, BackedGrows
  <2>5. Backed(w, ledger \o e)
    <3>1. ledger \o e \in Seq(Event)
      BY <1>t, <2>1
    <3>2. w.documents[d] \notin Granted /\ w.documents[d] \notin {"Revoked", "Delivered"}
      BY <2>2 DEF Granted
    <3>3. ws \in Workspaces
      BY <1>t
    <3> DEFINE c == ledger \o e
    <3>4. c \in Seq(Event) /\ Backed(ws, c)
      BY <2>4, <3>1
    <3> HIDE DEF w, e, d, c
    <3>5. Backed(w, c)
      BY <2>1, <2>2, <2>3, <3>2, <3>3, <3>4, BackedMove
    <3> QED
      BY <3>5 DEF c
  <2>6. \A q \in Server : InFlight(q)'
    BY <1>6, <2>1, <2>5, <1>n, CommitAudit DEF Reject, durable
  <2> QED
    BY <1>6, <2>6, QuietAudit DEF Reject, durable
<1>7. ASSUME NEW d \in Document, RevokeDelivery(p, d) PROVE AuditInv'
  <2> DEFINE w == [ws EXCEPT !.documents[d] = "Revoked"]
             e == <<Ev("effect.revoked", d)>>
  <2>1. w \in Workspaces /\ e \in Seq(Event)
    BY <1>t, EditType, EventType DEF Action, Resource, DocumentStatus
  <2>2. ws.documents[d] = "ApprovedPendingDelivery"
    BY <1>7 DEF RevokeDelivery
  <2>3. Backed(ws, ledger \o e) /\ Has(ledger \o e, "effect.revoked", d)
    BY <1>t, <2>1, BackedGrows, HasRight, HasOne
  <2>4. Has(ledger \o e, "approval.granted", d)
    BY <2>2, <2>3 DEF Backed, Unsigned, Granted
  <2>5. /\ w.customers = ws.customers /\ w.approvals = ws.approvals
        /\ w.documents[d] = "Revoked"
        /\ \A x \in Document : x # d => w.documents[x] = ws.documents[x]
    BY <1>t DEF Workspaces
  <2>6. ledger \o e \in Seq(Event)
    BY <1>t, <2>1
  <2>7. Backed(w, ledger \o e)
    <3>1. ws \in Workspaces
      BY <1>t
    <3> DEFINE c == ledger \o e
    <3>2. /\ c \in Seq(Event) /\ Backed(ws, c)
          /\ Has(c, "effect.revoked", d) /\ Has(c, "approval.granted", d)
      BY <2>3, <2>4, <2>6
    <3> HIDE DEF w, e, c
    <3>3. Backed(w, c)
      BY <2>1, <2>5, <3>1, <3>2, BackedMove
    <3> QED
      BY <3>3 DEF c
  <2>8. \A q \in Server : InFlight(q)'
    BY <1>7, <2>1, <2>7, <1>n, CommitAudit DEF RevokeDelivery, durable
  <2> QED
    BY <1>7, <2>8, QuietAudit DEF RevokeDelivery, durable
<1>8. ASSUME NEW d \in Document, ConfirmDelivery(p, d) PROVE AuditInv'
  <2> DEFINE w == [ws EXCEPT !.documents[d] = "Delivered"]
             e == <<Ev("delivery.confirmed", d)>>
  <2>1. w \in Workspaces /\ e \in Seq(Event)
    BY <1>t, EditType, EventType DEF Action, Resource, DocumentStatus
  <2>2. ws.documents[d] = "ApprovedPendingDelivery"
    BY <1>8 DEF ConfirmDelivery
  <2>3. Backed(ws, ledger \o e) /\ Has(ledger \o e, "delivery.confirmed", d)
    BY <1>t, <2>1, BackedGrows, HasRight, HasOne
  <2>4. Has(ledger \o e, "approval.granted", d)
    BY <2>2, <2>3 DEF Backed, Unsigned, Granted
  <2>5. /\ w.customers = ws.customers /\ w.approvals = ws.approvals
        /\ w.documents[d] = "Delivered"
        /\ \A x \in Document : x # d => w.documents[x] = ws.documents[x]
    BY <1>t DEF Workspaces
  <2>6. ledger \o e \in Seq(Event)
    BY <1>t, <2>1
  <2>7. Backed(w, ledger \o e)
    <3>1. ws \in Workspaces
      BY <1>t
    <3> DEFINE c == ledger \o e
    <3>2. /\ c \in Seq(Event) /\ Backed(ws, c)
          /\ Has(c, "delivery.confirmed", d) /\ Has(c, "approval.granted", d)
      BY <2>3, <2>4, <2>6
    <3> HIDE DEF w, e, c
    <3>3. Backed(w, c)
      BY <2>1, <2>5, <3>1, <3>2, BackedMove
    <3> QED
      BY <3>3 DEF c
  <2>8. \A q \in Server : InFlight(q)'
    BY <1>8, <2>1, <2>7, <1>n, CommitAudit DEF ConfirmDelivery, durable
  <2> QED
    BY <1>8, <2>8, QuietAudit DEF ConfirmDelivery, durable
<1>9. ASSUME NEW a \in Approval, Approve(p, a) PROVE AuditInv'
  <2>1. flow[a].completed \in 0 .. 2
    BY <1>t DEF ITypeOK, TypeOK, Checkpoint
  <2>2. pc'[p] \in {"execute", "commit_step", "done"}
    BY <1>9, <2>1, <1>t DEF Approve, GoTo, ITypeOK, TypeOK
  <2> QED
    BY <1>9, <2>2, ElsewhereAudit, QuietAudit DEF Approve, durable, CommitLabels
<1>10. ASSUME Export(p) PROVE AuditInv'
  <2> DEFINE e == <<Ev("workspace.export", "workspace:all")>>
  <2>1. e \in Seq(Event)
    BY EventType DEF Action, Resource
  <2>2. Record(p, e) /\ op[p].next = "no_save"
    BY <1>10, <1>t DEF Export, ITypeOK, Located, NoOp
  <2>3. pc'[p] = "load_chain" /\ op'[p].next = "no_save"
    BY <2>1, <2>2, <1>t, RecordType DEF ITypeOK
  <2>4. \A q \in Server : InFlight(q)'
    BY <2>3 DEF SingleServer, InFlight
  <2> QED
    BY <1>10, <2>4, QuietAudit DEF Export, durable
<1> QED
  BY <1>1, <1>2, <1>3, <1>4, <1>5, <1>6, <1>7, <1>8, <1>9, <1>10 DEF Request

LEMMA ContinueAudit ==
  ASSUME SingleServer, AuditInv, ITypeOK', NEW p \in Server, Continue(p)
  PROVE  AuditInv'
<1>t. /\ ITypeOK /\ ws \in Workspaces /\ ledger \in Seq(Event) /\ Backed(ws, ledger)
      /\ \A e \in Seq(Event) : ledger \o e \in Seq(Event)
      /\ op[p] \in Operation /\ pc \in [Server -> Labels] /\ op \in [Server -> Operation]
  BY DEF AuditInv, ITypeOK, TypeOK
<1>l. Located(p) /\ InFlight(p)
  BY DEF AuditInv, ITypeOK
<1>1. ASSUME Disclose(p) PROVE AuditInv'
  <2> DEFINE w == [ws EXCEPT !.disclosures = @ + 1]
             e == <<Ev("model.drafted", op[p].subject)>>
  <2>1. op[p].subject \in Customer
    BY <1>1, <1>l DEF Disclose, Located
  <2>2. w \in Workspaces /\ e \in Seq(Event)
    BY <2>1, <1>t, EditType, EventType DEF Action, Resource
  <2>3. Backed(w, ledger \o e)
    BY <1>t, <2>2, BackedGrows, BackedEdits
  <2>4. "idle" \in {"idle", "commit_receipt"}
    OBVIOUS
  <2>5. \A q \in Server : InFlight(q)'
    BY <1>1, <2>2, <2>3, <2>4, CommitAudit DEF Disclose, durable
  <2> QED
    BY <1>1, <2>5, QuietAudit DEF Disclose, durable
<1>2. ASSUME ComposeSend(p) \/ RunKernel(p) \/ WriteOutbox(p) \/ WriteRecord(p)
             \/ PersistExecute(p) \/ PersistCommit(p) \/ PersistDone(p)
      PROVE  AuditInv'
  <2>1. pc'[p] \in SendLabels \cup {"idle"}
    BY <1>2, <1>t DEF ComposeSend, RunKernel, WriteOutbox, WriteRecord, PersistExecute,
                      PersistCommit, PersistDone, Finish, GoTo, SendLabels
  <2>2. UNCHANGED <<ws, ledger, audit>>
    BY <1>2 DEF ComposeSend, RunKernel, WriteOutbox, WriteRecord, PersistExecute,
                PersistCommit, PersistDone, durable
  <2> QED
    BY <2>1, <2>2, ElsewhereAudit, QuietAudit DEF SendLabels, CommitLabels
<1>3. ASSUME CommitDecision(p) PROVE AuditInv'
  <2> DEFINE a == op[p].subject
             d == ws.approvals[a].document
             r == flow[a].record
             w == [ws EXCEPT !.approvals[a].status = "Approved", !.approvals[a].evidence = r,
                             !.documents[d] = "ApprovedPendingDelivery"]
             e == <<Ev("approval.granted", d), Ev("capability.executed", d),
                    Ev("effect.file_written", d)>>
  <2>1. /\ a \in Approval /\ pc[p] = "commit_step" /\ r \in SignedRecord \cup {None}
        /\ UNCHANGED <<ws, ledger, audit>>
    BY <1>3, <1>l, <1>t DEF CommitDecision, Located, SendLabels, ITypeOK, TypeOK, Checkpoint,
                            durable
  <2>2. ASSUME Finish(p) \/ GoTo(p, "commit_receipt") PROVE \A q \in Server : InFlight(q)'
    <3>1. pc'[p] \in {"idle", "commit_receipt"}
      BY <2>2, <1>t DEF Finish, GoTo
    <3> QED
      BY <3>1, ElsewhereAudit DEF CommitLabels
  <2>3. ASSUME r # None, ws.approvals[a].status = "Pending",
              Commit(p, w, e, "commit_receipt")
        PROVE  \A q \in Server : InFlight(q)'
    <3>1. r \in SignedRecord
      BY <2>1, <2>3
    <3>2. w \in Workspaces /\ d \in Document
      BY <2>1, <2>3, <3>1, <1>t, DecideType
    <3>3. e \in Seq(Event)
      <4>1. /\ Ev("approval.granted", d) \in Event /\ Ev("capability.executed", d) \in Event
            /\ Ev("effect.file_written", d) \in Event
        BY <3>2, EventType DEF Action, Resource
      <4> QED
        BY <4>1
    <3>4. Has(e, "approval.granted", d) /\ Has(e, "effect.file_written", d)
      <4>1. 1 \in DOMAIN e /\ 3 \in DOMAIN e
        OBVIOUS
      <4>2. e[1] = Ev("approval.granted", d) /\ e[3] = Ev("effect.file_written", d)
        OBVIOUS
      <4> HIDE DEF e
      <4> QED
        BY <4>1, <4>2 DEF Has
    <3>5. /\ ledger \o e \in Seq(Event) /\ Backed(ws, ledger \o e)
          /\ Has(ledger \o e, "approval.granted", d)
          /\ Has(ledger \o e, "effect.file_written", d)
      BY <1>t, <3>3, <3>4, BackedGrows, HasRight
    <3>6. /\ w.customers = ws.customers /\ w.documents[d] = "ApprovedPendingDelivery"
          /\ \A x \in Document : x # d => w.documents[x] = ws.documents[x]
          /\ \A x \in Approval : x # a => w.approvals[x] = ws.approvals[x]
      BY <1>t, <2>1, <3>2 DEF Workspaces
    <3>7. w.approvals[a].document = d
      <4>1. ws.approvals[a] \in [document : Document,
                                 status : {"Pending", "Approved", "Rejected"},
                                 evidence : SignedRecord \cup {None}]
        BY <1>t, <2>1, <2>3 DEF Workspaces, Approvals, NoApproval
      <4>2. w.approvals[a] = [[ws.approvals[a] EXCEPT !.status = "Approved"]
                                               EXCEPT !.evidence = r]
        BY <1>t, <2>1 DEF Workspaces
      <4> HIDE DEF w
      <4> QED
        BY <4>1, <4>2
    <3>8. Backed(w, ledger \o e)
      <4> HIDE DEF w, e, d
      <4>1. \A x \in Approval : \/ w.approvals[x] = ws.approvals[x]
                                \/ w.approvals[x].document = d
        BY <3>6, <3>7
      <4>2. w.documents[d] \notin {"Revoked", "Delivered"}
        BY <3>6
      <4>3. /\ ws \in Workspaces /\ w \in Workspaces /\ d \in Document
            /\ w.customers = ws.customers
            /\ \A x \in Document : x # d => w.documents[x] = ws.documents[x]
        BY <1>t, <3>2, <3>6
      <4> DEFINE c == ledger \o e
      <4>4. /\ c \in Seq(Event) /\ Backed(ws, c)
            /\ Has(c, "approval.granted", d) /\ Has(c, "effect.file_written", d)
        BY <3>5
      <4> HIDE DEF c
      <4>5. Backed(w, c)
        BY <4>1, <4>2, <4>3, <4>4, BackedMove
      <4> QED
        BY <4>5 DEF c
    <3>9. "commit_receipt" \in {"idle", "commit_receipt"}
      OBVIOUS
    <3> QED
      BY <2>1, <2>3, <3>2, <3>3, <3>8, <3>9, CommitAudit
  <2>4. \A q \in Server : InFlight(q)'
    BY <1>3, <2>2, <2>3 DEF CommitDecision
  <2> QED
    BY <2>1, <2>4, QuietAudit
<1>4. ASSUME LoadChain(p) PROVE AuditInv'
  <2> DEFINE o == [op[p] EXCEPT !.chain = ledger]
  <2>1. o.ws = op[p].ws /\ o.events = op[p].events /\ o.next = op[p].next /\ o.chain = ledger
    BY <1>t DEF Operation
  <2>2. op'[p] = o /\ pc[p] = "load_chain" /\ pc'[p] = "save_chain" /\ UNCHANGED ledger
    BY <1>4, <1>t DEF LoadChain, GoTo, durable
  <2>3. InFlight(p)'
    BY <2>1, <2>2, <1>l DEF InFlight
  <2>4. \A q \in Server : InFlight(q)'
    BY <2>3 DEF SingleServer
  <2> QED
    BY <1>4, <2>4, QuietAudit DEF LoadChain, durable
<1>5. ASSUME SaveChain(p) PROVE AuditInv'
  <2>1. op[p].events \in Seq(Event) /\ pc[p] = "save_chain" /\ UNCHANGED <<ws, audit>>
    BY <1>5, <1>t DEF SaveChain, Operation
  <2>2. ledger' = ledger \o op[p].events
    BY <1>5, <1>l DEF SaveChain, InFlight
  <2>3. Backed(ws', ledger') /\ (audit'.reading => Backed(audit'.ws, ledger'))
    BY <1>t, <2>1, <2>2, BackedGrows DEF AuditInv
  <2>4. InFlight(p)'
    <3>1. CASE op[p].next = "no_save"
      <4>1. pc'[p] = "idle"
        BY <1>5, <1>t, <3>1 DEF SaveChain, Finish, GoTo
      <4> QED
        BY <4>1 DEF InFlight
    <3>2. CASE op[p].next # "no_save"
      <4>1. pc'[p] = "save_vault" /\ op'[p] = op[p]
        BY <1>5, <1>t, <3>2 DEF SaveChain, GoTo
      <4>2. Backed(op[p].ws, ledger')
        BY <1>l, <2>1, <2>2, <3>2 DEF InFlight
      <4> QED
        BY <4>1, <4>2 DEF InFlight
    <3> QED
      BY <3>1, <3>2
  <2> QED
    BY <2>1, <2>3, <2>4 DEF AuditInv, SingleServer
<1>6. ASSUME SaveVault(p) PROVE AuditInv'
  <2>1. /\ ws' = op[p].ws /\ pc[p] = "save_vault" /\ UNCHANGED <<ledger, audit>>
        /\ Backed(op[p].ws, ledger)
    BY <1>6, <1>l DEF SaveVault, InFlight
  <2>2. pc'[p] \in {"idle", "commit_receipt"}
    BY <1>6, <1>l, <1>t DEF SaveVault, Finish, GoTo, Operation, Located
  <2>3. \A q \in Server : InFlight(q)'
    BY <2>2, ElsewhereAudit DEF CommitLabels
  <2> QED
    BY <2>1, <2>3 DEF AuditInv
<1> QED
  BY <1>1, <1>2, <1>3, <1>4, <1>5, <1>6 DEF Continue

LEMMA InitAudit == Init => AuditInv
<1> SUFFICES ASSUME Init PROVE AuditInv
  OBVIOUS
<1>1. Backed(ws, ledger)
  BY DEF Init, Backed, EmptyWorkspace, Unsigned, UnsignedEffect, Granted, NoApproval
<1>2. \A p \in Server : InFlight(p)
  BY DEF Init, InFlight
<1> QED
  BY <1>1, <1>2, InitTypeOK DEF Init, AuditInv

LEMMA StepAudit == SingleServer /\ AuditInv /\ [Next]_vars => AuditInv'
<1> SUFFICES ASSUME SingleServer, AuditInv, [Next]_vars PROVE AuditInv'
  OBVIOUS
<1>t. ITypeOK'
  BY StepTypeOK DEF AuditInv
<1>1. ASSUME NEW p \in Server, Interrupt(p) PROVE AuditInv'
  <2>1. pc'[p] = "idle"
    BY <1>1 DEF Interrupt, Finish, GoTo, AuditInv, ITypeOK, TypeOK
  <2> QED
    BY <1>1, <1>t, <2>1, ElsewhereAudit, QuietAudit DEF Interrupt, durable, CommitLabels
<1>2. CASE AuditReadState
  <2>1. audit'.reading => Backed(audit'.ws, ledger)
    BY <1>2 DEF AuditReadState, AuditInv, ITypeOK, TypeOK
  <2>2. audit'.critical = {}
    BY <1>2 DEF AuditReadState, AuditInv, ITypeOK, TypeOK
  <2> QED
    BY <1>2, <1>t, <2>1, <2>2 DEF AuditReadState, AuditInv, InFlight, durable, process
<1>3. CASE AuditReadChain
  <2>1. audit'.critical = {} /\ ~audit'.reading
    BY <1>3, BackedIsClean DEF AuditReadChain, AuditInv
  <2> QED
    BY <1>3, <1>t, <2>1 DEF AuditReadChain, AuditInv, InFlight, durable, process
<1>4. CASE UNCHANGED vars
  BY <1>4, <1>t DEF vars, AuditInv, InFlight
<1> QED
  BY <1>t, <1>1, <1>2, <1>3, <1>4, RequestAudit, ContinueAudit DEF Next

LEMMA AuditInvariant == ASSUME SingleServer PROVE Spec => []AuditInv
<1>1. Init => AuditInv
  BY InitAudit
<1>2. AuditInv /\ [Next]_vars => AuditInv'
  BY StepAudit
<1> QED
  BY <1>1, <1>2, PTL DEF Spec

\* With one server process, the integrity command never reports a critical
\* finding, wherever it reads between the server's writes and its crashes.
THEOREM AuditIsSound == ASSUME SingleServer PROVE Spec => []AuditNeverCritical
<1>1. AuditInv => AuditNeverCritical
  BY DEF AuditInv, AuditNeverCritical
<1> QED
  BY <1>1, AuditInvariant, PTL

\* With one server process, no step loses or rewrites a signed event.
THEOREM ChainOnlyGrows == ASSUME SingleServer PROVE Spec => ChainIsAppendOnly
<1> DEFINE Grows == /\ Len(ledger) <= Len(ledger')
                    /\ \A i \in DOMAIN ledger : ledger'[i] = ledger[i]
<1>1. ASSUME AuditInv, [Next]_vars PROVE [Grows]_vars
  <2>t. ledger \in Seq(Event) /\ op \in [Server -> Operation]
    BY <1>1 DEF AuditInv, ITypeOK, TypeOK
  <2>1. ASSUME NEW p \in Server, SaveChain(p) PROVE Grows
    <3>1. ledger' = ledger \o op[p].events /\ op[p].events \in Seq(Event)
      BY <1>1, <2>t, <2>1 DEF SaveChain, AuditInv, InFlight, Operation
    <3> QED
      BY <2>t, <3>1
  <2>2. ASSUME UNCHANGED ledger PROVE Grows
    BY <2>t, <2>2
  <2>3. ASSUME NEW p \in Server, Request(p) PROVE UNCHANGED ledger
    BY <2>3 DEF Request, SetVenture, AddCustomer, DraftAssistant, CreateDocument, RevokeDelivery,
                ConfirmDelivery, RequestSend, Approve, Reject, Export, durable
  <2>4. ASSUME NEW p \in Server, Continue(p), ~SaveChain(p) PROVE UNCHANGED ledger
    BY <2>4 DEF Continue, Disclose, ComposeSend, RunKernel, WriteOutbox, WriteRecord,
                PersistExecute, CommitDecision, PersistCommit, PersistDone, LoadChain,
                SaveVault, durable
  <2>5. ASSUME AuditReadState \/ AuditReadChain \/ \E p \in Server : Interrupt(p)
        PROVE  UNCHANGED ledger
    BY <2>5 DEF AuditReadState, AuditReadChain, Interrupt, durable
  <2> QED
    BY <1>1, <2>1, <2>2, <2>3, <2>4, <2>5 DEF Next
<1>2. ASSUME SingleServer PROVE Spec => [][Grows]_vars
  BY <1>1, <1>2, AuditInvariant, PTL DEF Spec
<1> QED
  BY <1>2 DEF ChainIsAppendOnly

------------------------------------------------------------------------------
(* What a request may commit: every workspace on its way to the vault is    *)
(* one edit of the workspace that is there.                                 *)

\* Every identifier in use was minted, so a fresh one is in no use.
Minted(w, ids) ==
  /\ \A c \in w.customers : c \in ids
  /\ \A d \in Document : w.documents[d] # "absent" => d \in ids
  /\ \A a \in Approval : w.approvals[a] # NoApproval => a \in ids

Decided(d, status, evidence) == [document |-> d, status |-> status, evidence |-> evidence]

\* DecisionsAgree, approval by approval, and evidence only where it was granted.
Agree(w) ==
  /\ \A a \in Approval, d \in Document : w.approvals[a].document = d =>
       \/ w.approvals[a] = Decided(d, "Pending", None) /\ w.documents[d] = "PendingApproval"
       \/ w.approvals[a] = Decided(d, "Rejected", None) /\ w.documents[d] = "Rejected"
       \/ w.approvals[a].status = "Approved" /\ w.documents[d] \in Granted
  /\ \A a, b \in Approval :
       w.approvals[a] # NoApproval /\ w.approvals[a].document = w.approvals[b].document => a = b
  /\ \A d \in Document : w.documents[d] \notin {"absent", "Draft"} =>
       \E a \in Approval : w.approvals[a].document = d

\* The edits, from w to n under the events e: the venture or a disclosure ...
Plain(w, n, e) ==
  /\ n.customers = w.customers /\ n.documents = w.documents /\ n.approvals = w.approvals
  /\ \/ n.disclosures = w.disclosures /\ e = <<Ev("venture.update", "venture:profile")>>
     \/ /\ n.disclosures = w.disclosures + 1
        /\ \E c \in Customer : e = <<Ev("model.drafted", c)>>

\* ... a new customer ...
Joins(w, n, e, c) ==
  /\ c \notin w.customers /\ n.customers = w.customers \cup {c}
  /\ n.documents = w.documents /\ n.approvals = w.approvals /\ n.disclosures = w.disclosures
  /\ e = <<Ev("customer.create", c)>>

Moved(w, n, d, from, to) ==
  /\ n.customers = w.customers /\ n.disclosures = w.disclosures
  /\ w.documents[d] = from
  /\ n.documents = [w.documents EXCEPT ![d] = to]

\* ... a document on its own ...
Alone(w, n, e, d) ==
  /\ n.approvals = w.approvals
  /\ \/ Moved(w, n, d, "absent", "Draft") /\ e = <<Ev("document.draft", d)>>
     \/ Moved(w, n, d, "ApprovedPendingDelivery", "Revoked") /\ e = <<Ev("effect.revoked", d)>>
     \/ /\ Moved(w, n, d, "ApprovedPendingDelivery", "Delivered")
        /\ e = <<Ev("delivery.confirmed", d)>>

\* ... or a document with its approval.
Asks(w, n, e, d, a) ==
  /\ w.approvals[a] = NoApproval
  /\ n.approvals = [w.approvals EXCEPT ![a] = Decided(d, "Pending", None)]
  /\ Moved(w, n, d, "Draft", "PendingApproval")
  /\ e = <<Ev("approval.requested", d)>>

Rejects(w, n, e, d, a) ==
  /\ w.approvals[a] = Decided(d, "Pending", None)
  /\ n.approvals = [w.approvals EXCEPT ![a] = Decided(d, "Rejected", None)]
  /\ Moved(w, n, d, "PendingApproval", "Rejected")
  /\ e = <<Ev("approval.rejected", d)>>

\* A grant commits the record that the execute step left in the workflow.
Grants(w, n, e, d, a, f) ==
  /\ w.approvals[a] = Decided(d, "Pending", None)
  /\ f.record # None
  /\ n.approvals = [w.approvals EXCEPT ![a] = Decided(d, "Approved", f.record)]
  /\ Moved(w, n, d, "PendingApproval", "ApprovedPendingDelivery")
  /\ e = <<Ev("approval.granted", d), Ev("capability.executed", d), Ev("effect.file_written", d)>>

SmallEdit(w, n, e) ==
  \/ Plain(w, n, e)
  \/ \E c \in Customer : Joins(w, n, e, c)
  \/ \E d \in Document : Alone(w, n, e, d)
  \/ \E d \in Document, a \in Approval : Asks(w, n, e, d, a) \/ Rejects(w, n, e, d, a)

Edit(w, n, e, next, a, f) ==
  \/ next = "idle" /\ SmallEdit(w, n, e)
  \/ next = "commit_receipt" /\ \E d \in Document : Grants(w, n, e, d, a, f[a])

Saving(p) == pc[p] \in CommitLabels /\ op[p].next # "no_save"

OnChain(e, chain) == \A i \in DOMAIN e : Has(chain, e[i].action, e[i].resource)

\* What is about to be saved, and signed by the time it is.
InHand(p) ==
  /\ Saving(p) => /\ Edit(ws, op[p].ws, op[p].events, op[p].next, op[p].subject, flow)
                  /\ Minted(op[p].ws, minted)
  /\ pc[p] \in CommitLabels /\ op[p].next = "no_save" =>
       op[p].events = <<Ev("workspace.export", "workspace:all")>>
  /\ pc[p] = "save_vault" => OnChain(op[p].events, ledger)

EditInv == Agree(ws) /\ Minted(ws, minted) /\ \A p \in Server : InHand(p)

LEMMA KnownApproval ==
  ASSUME NEW w \in Workspaces, NEW a \in Approval
  PROVE  \/ w.approvals[a] = NoApproval
         \/ /\ w.approvals[a].document \in Document
            /\ w.approvals[a].status \in {"Pending", "Approved", "Rejected"}
            /\ w.approvals[a].evidence \in SignedRecord \cup {None}
            /\ w.approvals[a] = Decided(w.approvals[a].document, w.approvals[a].status,
                                        w.approvals[a].evidence)
<1> DEFINE r == w.approvals[a]
<1>1. \/ r = NoApproval
      \/ r \in [document : Document, status : {"Pending", "Approved", "Rejected"},
                evidence : SignedRecord \cup {None}]
  BY DEF Workspaces, Approvals
<1> HIDE DEF r
<1>2. ASSUME r \in [document : Document, status : {"Pending", "Approved", "Rejected"},
                    evidence : SignedRecord \cup {None}]
      PROVE  /\ r.document \in Document
             /\ r.status \in {"Pending", "Approved", "Rejected"}
             /\ r.evidence \in SignedRecord \cup {None}
             /\ r = [document |-> r.document, status |-> r.status, evidence |-> r.evidence]
  BY <1>2
<1> QED
  BY <1>1, <1>2 DEF Decided, r

\* A pending approval has no evidence yet, and its document is pending too.
LEMMA PendingAgrees ==
  ASSUME NEW w \in Workspaces, Agree(w), NEW a \in Approval, w.approvals[a].status = "Pending"
  PROVE  /\ w.approvals[a].document \in Document
         /\ w.approvals[a] = Decided(w.approvals[a].document, "Pending", None)
         /\ w.documents[w.approvals[a].document] = "PendingApproval"
<1> DEFINE r == w.approvals[a]  d == r.document
<1>1. d \in Document /\ r.status = "Pending"
  BY KnownApproval DEF NoApproval
<1>2. \/ r = Decided(d, "Pending", None) /\ w.documents[d] = "PendingApproval"
      \/ r = Decided(d, "Rejected", None)
      \/ r.status = "Approved"
  BY <1>1 DEF Agree
<1>3. Decided(d, "Rejected", None).status = "Rejected"
  BY DEF Decided
<1> HIDE DEF r, d
<1>4. r = Decided(d, "Pending", None) /\ w.documents[d] = "PendingApproval"
  BY <1>1, <1>2, <1>3
<1> QED
  BY <1>1, <1>4 DEF r, d

\* Every edit keeps approvals and documents in agreement.
LEMMA EditAgrees ==
  ASSUME NEW w \in Workspaces, NEW n, NEW e, NEW next, NEW b, NEW f,
         Agree(w), next = "commit_receipt" => b \in Approval, Edit(w, n, e, next, b, f)
  PROVE  Agree(n)
<1>n. /\ NoApproval.document = None /\ NoApproval.status = "absent"
      /\ None \notin Document
      /\ \A d, s, v : /\ Decided(d, s, v).document = d
                      /\ Decided(d, s, v).status = s
  BY NoneIsFresh DEF NoApproval, Decided
<1>t. /\ w.documents \in [Document -> DocumentStatus]
      /\ DOMAIN w.approvals = Approval
  BY DEF Workspaces
<1>1. ASSUME n.documents = w.documents, n.approvals = w.approvals PROVE Agree(n)
  BY <1>1 DEF Agree
<1>2. ASSUME NEW d \in Document, NEW from, NEW to, Moved(w, n, d, from, to),
             n.approvals = w.approvals,
             \/ from = "absent" /\ to = "Draft"
             \/ from = "ApprovedPendingDelivery" /\ to \in {"Revoked", "Delivered"}
      PROVE  Agree(n)
  <2>1. /\ \A x \in Document : n.documents[x] = IF x = d THEN to ELSE w.documents[x]
        /\ w.documents[d] = from
    BY <1>2, <1>t DEF Moved
  <2> QED
    BY <1>2, <2>1 DEF Agree, Granted
<1>3. ASSUME NEW d \in Document, NEW a \in Approval, Asks(w, n, e, d, a) PROVE Agree(n)
  <2>1. /\ \A x \in Document : n.documents[x] = IF x = d THEN "PendingApproval" ELSE w.documents[x]
        /\ w.documents[d] = "Draft" /\ w.approvals[a] = NoApproval
        /\ \A x \in Approval : n.approvals[x] =
             IF x = a THEN Decided(d, "Pending", None) ELSE w.approvals[x]
    BY <1>3, <1>t DEF Asks, Moved
  <2>2. \A x \in Approval : w.approvals[x].document # d
    BY <2>1 DEF Agree, Granted
  <2>3. \A x \in Approval : n.approvals[x].document = IF x = a THEN d ELSE w.approvals[x].document
    BY <2>1, <1>n
  <2>4. \A x, y \in Approval :
          n.approvals[x] # NoApproval /\ n.approvals[x].document = n.approvals[y].document => x = y
    BY <2>1, <2>2, <2>3 DEF Agree
  <2>5. \A x \in Document : n.documents[x] \notin {"absent", "Draft"} =>
          \E y \in Approval : n.approvals[y].document = x
    <3> SUFFICES ASSUME NEW x \in Document, n.documents[x] \notin {"absent", "Draft"}
                 PROVE  \E y \in Approval : n.approvals[y].document = x
      OBVIOUS
    <3>1. CASE x = d
      BY <3>1, <2>3
    <3>2. CASE x # d
      <4>1. PICK y \in Approval : w.approvals[y].document = x
        BY <3>2, <2>1 DEF Agree
      <4>2. y # a
        BY <4>1, <2>1, <1>n
      <4> QED
        BY <4>1, <4>2, <2>3
    <3> QED
      BY <3>1, <3>2
  <2>6. ASSUME NEW x \in Approval, NEW y \in Document, n.approvals[x].document = y
        PROVE  \/ n.approvals[x] = Decided(y, "Pending", None) /\ n.documents[y] = "PendingApproval"
               \/ n.approvals[x] = Decided(y, "Rejected", None) /\ n.documents[y] = "Rejected"
               \/ n.approvals[x].status = "Approved" /\ n.documents[y] \in Granted
    <3>1. CASE x = a
      BY <2>6, <3>1, <2>1, <2>3
    <3>2. CASE x # a
      <4>1. w.approvals[x].document = y /\ y # d
        BY <2>6, <3>2, <2>2, <2>3
      <4> QED
        BY <4>1, <3>2, <2>1 DEF Agree
    <3> QED
      BY <3>1, <3>2
  <2> QED
    BY <2>4, <2>5, <2>6 DEF Agree
<1>4. ASSUME NEW d \in Document, NEW a \in Approval, NEW status, NEW evidence,
             NEW to,
             w.approvals[a] = Decided(d, "Pending", None),
             n.approvals = [w.approvals EXCEPT ![a] = Decided(d, status, evidence)],
             Moved(w, n, d, "PendingApproval", to),
             \/ status = "Rejected" /\ to = "Rejected" /\ evidence = None
             \/ status = "Approved" /\ to = "ApprovedPendingDelivery"
      PROVE  Agree(n)
  <2>1. /\ \A x \in Document : n.documents[x] = IF x = d THEN to ELSE w.documents[x]
        /\ \A x \in Approval : n.approvals[x] =
             IF x = a THEN Decided(d, status, evidence) ELSE w.approvals[x]
    BY <1>4, <1>t DEF Moved
  <2>2. w.approvals[a].document = d /\ w.approvals[a] # NoApproval
    BY <1>4, <1>n
  <2>3. \A x \in Approval : n.approvals[x].document = w.approvals[x].document
    BY <2>1, <2>2, <1>n
  <2>4. \A x \in Approval : n.approvals[x] # NoApproval => w.approvals[x] # NoApproval
    BY <2>1, <2>2
  <2>5. \A x, y \in Approval :
          n.approvals[x] # NoApproval /\ n.approvals[x].document = n.approvals[y].document => x = y
    BY <2>3, <2>4 DEF Agree
  <2>6. \A x \in Document : n.documents[x] \notin {"absent", "Draft"} =>
          \E y \in Approval : n.approvals[y].document = x
    BY <2>1, <2>2, <2>3 DEF Agree
  <2>7. ASSUME NEW x \in Approval, NEW y \in Document, n.approvals[x].document = y
        PROVE  \/ n.approvals[x] = Decided(y, "Pending", None) /\ n.documents[y] = "PendingApproval"
               \/ n.approvals[x] = Decided(y, "Rejected", None) /\ n.documents[y] = "Rejected"
               \/ n.approvals[x].status = "Approved" /\ n.documents[y] \in Granted
    <3>1. CASE x = a
      BY <2>7, <3>1, <2>1, <2>2, <2>3, <1>4, <1>n DEF Granted
    <3>2. CASE x # a
      <4>1. w.approvals[x].document = y /\ y # d
        BY <2>7, <3>2, <2>2, <2>3 DEF Agree
      <4> QED
        BY <4>1, <3>2, <2>1 DEF Agree
    <3> QED
      BY <3>1, <3>2
  <2> QED
    BY <2>5, <2>6, <2>7 DEF Agree
<1>5. CASE SmallEdit(w, n, e)
  <2>1. ASSUME NEW d \in Document, Alone(w, n, e, d) PROVE Agree(n)
    BY <2>1, <1>2 DEF Alone
  <2>2. ASSUME NEW d \in Document, NEW a \in Approval, Rejects(w, n, e, d, a) PROVE Agree(n)
    BY <2>2, <1>4 DEF Rejects
  <2> QED
    BY <1>5, <1>1, <1>3, <2>1, <2>2 DEF SmallEdit, Plain, Joins
<1>6. ASSUME NEW d \in Document, b \in Approval, Grants(w, n, e, d, b, f[b]) PROVE Agree(n)
  BY <1>6, <1>4 DEF Grants
<1> QED
  BY <1>5, <1>6 DEF Edit

------------------------------------------------------------------------------
\* A request that commits an edit of the vault's workspace.
LEMMA CommitEdit ==
  ASSUME SingleServer, ITypeOK, EditInv, NEW p \in Server, NEW w \in Workspaces,
         NEW e \in Seq(Event), NEW n \in {"idle", "commit_receipt"}, Commit(p, w, e, n),
         UNCHANGED <<ws, flow>>, \A x \in minted : x \in minted', Minted(w, minted'),
         Edit(ws, w, e, n, op[p].subject, flow)
  PROVE  EditInv'
<1>1. /\ pc'[p] = "load_chain" /\ op'[p].ws = w /\ op'[p].events = e /\ op'[p].next = n
      /\ op'[p].subject = op[p].subject
  BY CommitType DEF ITypeOK
<1>2. InHand(p)'
  BY <1>1 DEF InHand, Saving
<1>3. Agree(ws)' /\ Minted(ws, minted)'
  BY DEF EditInv, Agree, Minted
<1> QED
  BY <1>2, <1>3 DEF EditInv, SingleServer

\* A server outside the commit has nothing in hand.
LEMMA ElsewhereEdit ==
  ASSUME SingleServer, EditInv, NEW p \in Server, pc'[p] \notin CommitLabels,
         UNCHANGED <<ws, minted>>
  PROVE  EditInv'
<1>1. InHand(p)'
  BY DEF InHand, Saving, CommitLabels
<1> QED
  BY <1>1 DEF EditInv, SingleServer, Agree, Minted

\* Every request that saves the vault computes an edit of it.
LEMMA RequestEdit ==
  ASSUME SingleServer, ITypeOK, EditInv, NEW p \in Server, Request(p)
  PROVE  EditInv'
<1>t. /\ TypeOK /\ ws \in Workspaces /\ Agree(ws) /\ Minted(ws, minted)
      /\ pc \in [Server -> Labels]
      /\ ws.documents \in [Document -> DocumentStatus]
      /\ ws.approvals \in [Approval -> Approvals]
  BY DEF ITypeOK, TypeOK, EditInv, Workspaces
<1>n. "idle" \in {"idle", "commit_receipt"}
  OBVIOUS
<1>1. ASSUME NEW v \in Venture, SetVenture(p, v) PROVE EditInv'
  <2> DEFINE w == [ws EXCEPT !.venture = v]
             e == <<Ev("venture.update", "venture:profile")>>
  <2>1. w \in Workspaces /\ e \in Seq(Event)
    BY <1>t, EditType, EventType DEF Action, Resource
  <2>2. /\ w.customers = ws.customers /\ w.documents = ws.documents
        /\ w.approvals = ws.approvals /\ w.disclosures = ws.disclosures
    BY <1>t DEF Workspaces
  <2>3. Edit(ws, w, e, "idle", op[p].subject, flow)
    BY <2>2 DEF Edit, SmallEdit, Plain
  <2>4. UNCHANGED <<ws, flow, minted>>
    BY <1>1 DEF SetVenture, durable, history
  <2>5. Minted(w, minted')
    BY <2>2, <2>4, <1>t DEF Minted
  <2> HIDE DEF w, e
  <2> QED
    BY <1>1, <1>n, <2>1, <2>3, <2>4, <2>5, CommitEdit DEF SetVenture, w, e
<1>2. ASSUME NEW c \in Customer, AddCustomer(p, c) PROVE EditInv'
  <2> DEFINE w == [ws EXCEPT !.customers = @ \cup {c}]
             e == <<Ev("customer.create", c)>>
  <2>1. w \in Workspaces /\ e \in Seq(Event)
    BY <1>t, EditType, EventType DEF Action, Resource
  <2>2. /\ w.customers = ws.customers \cup {c} /\ w.documents = ws.documents
        /\ w.approvals = ws.approvals /\ w.disclosures = ws.disclosures
    BY <1>t DEF Workspaces
  <2>3. UNCHANGED <<ws, flow>> /\ c \notin minted /\ minted' = minted \cup {c}
    BY <1>2 DEF AddCustomer, durable, Mint
  <2>4. Edit(ws, w, e, "idle", op[p].subject, flow)
    BY <2>2, <2>3, <1>t DEF Edit, SmallEdit, Joins, Minted
  <2>5. Minted(w, minted')
    BY <2>2, <2>3, <1>t DEF Minted
  <2> HIDE DEF w, e
  <2> QED
    BY <1>2, <1>n, <2>1, <2>3, <2>4, <2>5, CommitEdit DEF AddCustomer, w, e
<1>3. ASSUME NEW c \in Customer, DraftAssistant(p, c) PROVE EditInv'
  <2>1. pc'[p] = "disclose" /\ UNCHANGED <<ws, minted>>
    BY <1>3, <1>t DEF DraftAssistant, GoTo, durable
  <2> QED
    BY <2>1, ElsewhereEdit DEF CommitLabels
<1>4. ASSUME NEW d \in Document, NEW w, NEW e, NEW from, NEW to, NEW event \in Action,
             w = [ws EXCEPT !.documents[d] = to], e = <<Ev(event, d)>>,
             to \in DocumentStatus, Commit(p, w, e, "idle"),
             ws.documents[d] = from,
             \/ from = "absent" /\ to = "Draft" /\ event = "document.draft"
             \/ from = "ApprovedPendingDelivery" /\ to = "Revoked" /\ event = "effect.revoked"
             \/ /\ from = "ApprovedPendingDelivery" /\ to = "Delivered"
                /\ event = "delivery.confirmed",
             UNCHANGED <<ws, flow>>, \A x \in minted : x \in minted',
             from = "absent" => d \in minted'
      PROVE  EditInv'
  <2>1. w \in Workspaces /\ e \in Seq(Event)
    BY <1>4, <1>t, EditType, EventType DEF Resource
  <2>2. /\ w.customers = ws.customers /\ w.documents = [ws.documents EXCEPT ![d] = to]
        /\ w.approvals = ws.approvals /\ w.disclosures = ws.disclosures
    BY <1>4, <1>t DEF Workspaces
  <2>3. Alone(ws, w, e, d)
    BY <1>4, <2>2 DEF Alone, Moved
  <2>4. Edit(ws, w, e, "idle", op[p].subject, flow)
    BY <2>3 DEF Edit, SmallEdit
  <2>5. d \in minted'
    BY <1>4, <1>t DEF Minted
  <2>6. Minted(w, minted')
    BY <1>4, <2>2, <2>5, <1>t DEF Minted
  <2> QED
    BY <1>4, <1>n, <2>1, <2>4, <2>6, CommitEdit
<1>5. ASSUME NEW d \in Document, CreateDocument(p, d) PROVE EditInv'
  <2>1. UNCHANGED <<ws, flow>> /\ d \notin minted /\ minted' = minted \cup {d}
    BY <1>5 DEF CreateDocument, durable, Mint
  <2>2. ws.documents[d] = "absent"
    BY <2>1, <1>t DEF Minted
  <2> QED
    BY <1>5, <2>1, <2>2, <1>4 DEF CreateDocument, DocumentStatus, Action
<1>6. ASSUME NEW d \in Document, RevokeDelivery(p, d) \/ ConfirmDelivery(p, d) PROVE EditInv'
  <2>1. UNCHANGED <<ws, flow, minted>> /\ ws.documents[d] = "ApprovedPendingDelivery"
    BY <1>6 DEF RevokeDelivery, ConfirmDelivery, durable, history
  <2> QED
    BY <1>6, <2>1, <1>4 DEF RevokeDelivery, ConfirmDelivery, DocumentStatus, Action
<1>7. ASSUME NEW d \in Document, NEW a \in Approval, RequestSend(p, d, a) PROVE EditInv'
  <2> DEFINE r == [document |-> d, status |-> "Pending", evidence |-> None]
             w == [ws EXCEPT !.documents[d] = "PendingApproval", !.approvals[a] = r]
             e == <<Ev("approval.requested", d)>>
  <2>1. r \in Approvals
    BY DEF Approvals
  <2>2. w \in Workspaces /\ e \in Seq(Event)
    BY <1>t, <2>1, EditType, EventType DEF Action, Resource, DocumentStatus
  <2>3. /\ w.customers = ws.customers /\ w.disclosures = ws.disclosures
        /\ w.documents = [ws.documents EXCEPT ![d] = "PendingApproval"]
        /\ w.approvals = [ws.approvals EXCEPT ![a] = Decided(d, "Pending", None)]
    BY <1>t DEF Workspaces, Decided
  <2>4. /\ UNCHANGED <<ws, flow>> /\ a \notin minted /\ minted' = minted \cup {a}
        /\ ws.documents[d] = "Draft"
    BY <1>7 DEF RequestSend, durable, Mint
  <2>5. ws.approvals[a] = NoApproval
    BY <2>4, <1>t DEF Minted
  <2>6. Asks(ws, w, e, d, a)
    BY <2>3, <2>4, <2>5 DEF Asks, Moved
  <2>7. Edit(ws, w, e, "idle", op[p].subject, flow)
    BY <2>6 DEF Edit, SmallEdit
  <2>8. Minted(w, minted')
    BY <2>3, <2>4, <1>t DEF Minted
  <2>9. Commit(p, w, e, "idle")
    BY <1>7 DEF RequestSend
  <2> HIDE DEF w, e
  <2> QED
    BY <1>n, <2>2, <2>4, <2>7, <2>8, <2>9, CommitEdit
<1>8. ASSUME NEW a \in Approval, Reject(p, a) PROVE EditInv'
  <2> DEFINE d == ws.approvals[a].document
             w == [ws EXCEPT !.approvals[a].status = "Rejected", !.documents[d] = "Rejected"]
             e == <<Ev("approval.rejected", d)>>
  <2>1. w \in Workspaces /\ e \in Seq(Event) /\ d \in Document
    BY <1>8, <1>t, DecideType, EventType DEF Reject, Action, Resource
  <2>2. ws.approvals[a] = Decided(d, "Pending", None) /\ ws.documents[d] = "PendingApproval"
    BY <1>8, <1>t, PendingAgrees DEF Reject
  <2>3. [ws.approvals[a] EXCEPT !.status = "Rejected"] = Decided(d, "Rejected", None)
    <3> HIDE DEF d
    <3> QED
      BY <2>2 DEF Decided
  <2>4. /\ w.customers = ws.customers /\ w.disclosures = ws.disclosures
        /\ w.documents = [ws.documents EXCEPT ![d] = "Rejected"]
        /\ w.approvals = [ws.approvals EXCEPT ![a] = [ws.approvals[a] EXCEPT !.status = "Rejected"]]
    BY <1>t DEF Workspaces
  <2>5. UNCHANGED <<ws, flow, minted>> /\ Commit(p, w, e, "idle")
    BY <1>8 DEF Reject, durable, history
  <2> HIDE DEF w, e, d
  <2>6. Rejects(ws, w, e, d, a)
    BY <2>2, <2>3, <2>4 DEF Rejects, Moved, e
  <2>7. Edit(ws, w, e, "idle", op[p].subject, flow)
    BY <2>1, <2>6 DEF Edit, SmallEdit
  <2>8. d \in minted /\ a \in minted
    <3>1. ws.approvals[a] # NoApproval
      BY <2>2 DEF Decided, NoApproval
    <3> QED
      BY <2>1, <2>2, <3>1, <1>t DEF Minted
  <2>9. Minted(w, minted')
    BY <2>1, <2>4, <2>5, <2>8, <1>t DEF Minted
  <2> QED
    BY <1>n, <2>1, <2>5, <2>7, <2>9, CommitEdit
<1>9. ASSUME NEW a \in Approval, Approve(p, a) PROVE EditInv'
  <2>1. flow[a].completed \in 0 .. 2
    BY <1>t DEF TypeOK, Checkpoint
  <2>2. pc'[p] \in {"execute", "commit_step", "done"} /\ UNCHANGED <<ws, minted>>
    BY <1>9, <2>1, <1>t DEF Approve, GoTo, durable, history
  <2> QED
    BY <2>2, ElsewhereEdit DEF CommitLabels
<1>10. ASSUME Export(p) PROVE EditInv'
  <2> DEFINE e == <<Ev("workspace.export", "workspace:all")>>
  <2>1. e \in Seq(Event)
    BY EventType DEF Action, Resource
  <2>2. Record(p, e) /\ op[p].next = "no_save" /\ UNCHANGED <<ws, minted>>
    BY <1>10 DEF Export, ITypeOK, Located, NoOp, durable, history
  <2>3. pc'[p] = "load_chain" /\ op'[p].next = "no_save" /\ op'[p].events = e
    BY <2>1, <2>2, <1>t, RecordType
  <2>4. InHand(p)'
    BY <2>3 DEF InHand, Saving
  <2> QED
    BY <2>2, <2>4 DEF EditInv, SingleServer, Agree, Minted
<1> QED
  BY <1>1, <1>2, <1>3, <1>5, <1>6, <1>7, <1>8, <1>9, <1>10 DEF Request

\* What a server does after a request was accepted keeps its edit in hand until
\* the vault holds it.
LEMMA ContinueEdit ==
  ASSUME SingleServer, AuditInv, EditInv, NEW p \in Server, Continue(p)
  PROVE  EditInv'
<1>t. /\ ITypeOK /\ TypeOK /\ ws \in Workspaces /\ ledger \in Seq(Event)
      /\ Agree(ws) /\ Minted(ws, minted)
      /\ op[p] \in Operation /\ pc \in [Server -> Labels] /\ op \in [Server -> Operation]
  BY DEF AuditInv, ITypeOK, TypeOK, EditInv
<1>l. Located(p) /\ InFlight(p) /\ InHand(p)
  BY DEF AuditInv, ITypeOK, EditInv
<1>1. ASSUME Disclose(p) PROVE EditInv'
  <2> DEFINE w == [ws EXCEPT !.disclosures = @ + 1]
             e == <<Ev("model.drafted", op[p].subject)>>
  <2>1. op[p].subject \in Customer
    BY <1>1, <1>l DEF Disclose, Located
  <2>2. w \in Workspaces /\ e \in Seq(Event)
    BY <2>1, <1>t, EditType, EventType DEF Action, Resource
  <2>3. /\ w.customers = ws.customers /\ w.documents = ws.documents
        /\ w.approvals = ws.approvals /\ w.disclosures = ws.disclosures + 1
    BY <1>t DEF Workspaces
  <2>4. Edit(ws, w, e, "idle", op[p].subject, flow)
    BY <2>1, <2>3 DEF Edit, SmallEdit, Plain
  <2>5. UNCHANGED <<ws, flow, minted>> /\ Commit(p, w, e, "idle")
    BY <1>1 DEF Disclose, durable, history
  <2>6. Minted(w, minted')
    BY <2>3, <2>5, <1>t DEF Minted
  <2>7. "idle" \in {"idle", "commit_receipt"}
    OBVIOUS
  <2> HIDE DEF w, e
  <2> QED
    BY <1>t, <2>2, <2>4, <2>5, <2>6, <2>7, CommitEdit
<1>2. ASSUME ComposeSend(p) \/ RunKernel(p) \/ WriteOutbox(p) \/ WriteRecord(p)
             \/ PersistExecute(p) \/ PersistCommit(p) \/ PersistDone(p)
      PROVE  EditInv'
  <2>1. pc'[p] \in SendLabels \cup {"idle"}
    BY <1>2, <1>t DEF ComposeSend, RunKernel, WriteOutbox, WriteRecord, PersistExecute,
                      PersistCommit, PersistDone, Finish, GoTo, SendLabels
  <2>2. UNCHANGED <<ws, minted>>
    BY <1>2 DEF ComposeSend, RunKernel, WriteOutbox, WriteRecord, PersistExecute,
                PersistCommit, PersistDone, durable, history
  <2> QED
    BY <2>1, <2>2, ElsewhereEdit DEF SendLabels, CommitLabels
<1>3. ASSUME CommitDecision(p) PROVE EditInv'
  <2> DEFINE a == op[p].subject
             d == ws.approvals[a].document
             r == flow[a].record
             w == [ws EXCEPT !.approvals[a].status = "Approved", !.approvals[a].evidence = r,
                             !.documents[d] = "ApprovedPendingDelivery"]
             e == <<Ev("approval.granted", d), Ev("capability.executed", d),
                    Ev("effect.file_written", d)>>
  <2>1. /\ a \in Approval /\ pc[p] = "commit_step" /\ r \in SignedRecord \cup {None}
        /\ UNCHANGED <<ws, flow, minted>>
    BY <1>3, <1>l, <1>t DEF CommitDecision, Located, SendLabels, TypeOK, Checkpoint, durable,
                            history
  <2>2. ASSUME Finish(p) \/ GoTo(p, "commit_receipt") PROVE EditInv'
    <3>1. pc'[p] \in {"idle", "commit_receipt"}
      BY <2>2, <1>t DEF Finish, GoTo
    <3> QED
      BY <2>1, <3>1, ElsewhereEdit DEF CommitLabels
  <2>3. ASSUME r # None, ws.approvals[a].status = "Pending",
              Commit(p, w, e, "commit_receipt")
        PROVE  EditInv'
    <3>1. r \in SignedRecord
      BY <2>1, <2>3
    <3>2. w \in Workspaces /\ d \in Document
      BY <2>1, <2>3, <3>1, <1>t, DecideType
    <3>3. e \in Seq(Event)
      <4>1. /\ Ev("approval.granted", d) \in Event /\ Ev("capability.executed", d) \in Event
            /\ Ev("effect.file_written", d) \in Event
        BY <3>2, EventType DEF Action, Resource
      <4> QED
        BY <4>1
    <3>4. ws.approvals[a] = Decided(d, "Pending", None) /\ ws.documents[d] = "PendingApproval"
      BY <2>1, <2>3, <1>t, PendingAgrees
    <3>5. /\ w.customers = ws.customers /\ w.disclosures = ws.disclosures
          /\ w.documents = [ws.documents EXCEPT ![d] = "ApprovedPendingDelivery"]
          /\ w.approvals = [ws.approvals EXCEPT ![a] =
               [[ws.approvals[a] EXCEPT !.status = "Approved"] EXCEPT !.evidence = r]]
      BY <1>t, <2>1 DEF Workspaces
    <3>6. [[ws.approvals[a] EXCEPT !.status = "Approved"] EXCEPT !.evidence = r]
            = Decided(d, "Approved", r)
      <4> HIDE DEF a, d, r
      <4>1. [ws.approvals[a] EXCEPT !.status = "Approved"] = Decided(d, "Approved", None)
        BY <3>4 DEF Decided
      <4>2. [Decided(d, "Approved", None) EXCEPT !.evidence = r] = Decided(d, "Approved", r)
        BY DEF Decided
      <4> QED
        BY <4>1, <4>2
    <3>7. Commit(p, w, e, "commit_receipt")
      BY <2>3
    <3>8. "commit_receipt" \in {"idle", "commit_receipt"}
      OBVIOUS
    <3> HIDE DEF w, e, d
    <3>9. Grants(ws, w, e, d, a, flow[a])
      BY <2>3, <3>4, <3>5, <3>6 DEF Grants, Moved, e
    <3>10. Edit(ws, w, e, "commit_receipt", a, flow)
      BY <3>2, <3>9 DEF Edit
    <3>11. d \in minted /\ a \in minted
      <4>1. ws.approvals[a] # NoApproval
        BY <3>4 DEF Decided, NoApproval
      <4> QED
        BY <2>1, <3>2, <3>4, <4>1, <1>t DEF Minted
    <3>12. Minted(w, minted')
      <4>1. \A x \in Document : x # d => w.documents[x] = ws.documents[x]
        BY <3>5, <1>t DEF Workspaces
      <4>2. \A x \in Approval : x # a => w.approvals[x] = ws.approvals[x]
        BY <3>5, <1>t DEF Workspaces
      <4> QED
        BY <2>1, <3>5, <3>11, <4>1, <4>2, <1>t DEF Minted
    <3> QED
      BY <1>t, <2>1, <3>2, <3>3, <3>7, <3>8, <3>10, <3>12, CommitEdit
  <2> QED
    BY <1>3, <2>2, <2>3 DEF CommitDecision
<1>4. ASSUME LoadChain(p) PROVE EditInv'
  <2> DEFINE o == [op[p] EXCEPT !.chain = ledger]
  <2>1. /\ o.ws = op[p].ws /\ o.events = op[p].events /\ o.next = op[p].next
        /\ o.subject = op[p].subject
    BY <1>t DEF Operation
  <2>2. /\ op'[p] = o /\ pc[p] = "load_chain" /\ pc'[p] = "save_chain"
        /\ UNCHANGED <<ws, flow, minted>>
    BY <1>4, <1>t DEF LoadChain, GoTo, durable, history
  <2>3. InHand(p)'
    BY <2>1, <2>2, <1>l DEF InHand, Saving, CommitLabels
  <2> QED
    BY <2>2, <2>3 DEF EditInv, SingleServer, Agree, Minted
<1>5. ASSUME SaveChain(p) PROVE EditInv'
  <2>1. /\ op[p].events \in Seq(Event) /\ pc[p] = "save_chain" /\ UNCHANGED <<ws, flow, minted>>
        /\ ledger' = ledger \o op[p].events
    BY <1>5, <1>l, <1>t DEF SaveChain, Operation, InFlight
  <2>2. CASE op[p].next = "no_save"
    <3>1. pc'[p] = "idle"
      BY <1>5, <1>t, <2>2 DEF SaveChain, Finish, GoTo
    <3> QED
      BY <2>1, <3>1, ElsewhereEdit DEF CommitLabels
  <2>3. CASE op[p].next # "no_save"
    <3>1. pc'[p] = "save_vault" /\ op'[p] = op[p]
      BY <1>5, <1>t, <2>3 DEF SaveChain, GoTo
    <3>2. OnChain(op[p].events, ledger')
      <4> SUFFICES ASSUME NEW i \in DOMAIN op[p].events
                   PROVE  Has(ledger', op[p].events[i].action, op[p].events[i].resource)
        BY DEF OnChain
      <4>1. op[p].events[i] \in Event
        BY <2>1
      <4>2. op[p].events[i] = Ev(op[p].events[i].action, op[p].events[i].resource)
        BY <4>1 DEF Event, Ev
      <4>3. Has(op[p].events, op[p].events[i].action, op[p].events[i].resource)
        BY <4>2 DEF Has
      <4> QED
        BY <2>1, <4>3, <1>t, HasRight
    <3>3. InHand(p)'
      BY <2>1, <2>3, <3>1, <3>2, <1>l DEF InHand, Saving, CommitLabels
    <3> QED
      BY <2>1, <3>3 DEF EditInv, SingleServer, Agree, Minted
  <2> QED
    BY <2>2, <2>3
<1>6. ASSUME SaveVault(p) PROVE EditInv'
  <2>1. /\ ws' = op[p].ws /\ pc[p] = "save_vault" /\ UNCHANGED minted
        /\ op[p].next # "no_save"
    BY <1>6, <1>l DEF SaveVault, Located
  <2>2. /\ Edit(ws, op[p].ws, op[p].events, op[p].next, op[p].subject, flow)
        /\ Minted(op[p].ws, minted)
    BY <2>1, <1>l DEF InHand, Saving, CommitLabels
  <2>3. op[p].next = "commit_receipt" => op[p].subject \in Approval
    BY <2>1, <1>l DEF Located, CommitLabels
  <2>4. Agree(op[p].ws)
    BY <2>2, <2>3, <1>t, EditAgrees
  <2>5. pc'[p] \in {"idle", "commit_receipt"}
    BY <1>6, <1>l, <1>t DEF SaveVault, Finish, GoTo, Operation, Located
  <2>6. InHand(p)'
    BY <2>5 DEF InHand, Saving, CommitLabels
  <2> QED
    BY <2>1, <2>2, <2>4, <2>6 DEF EditInv, SingleServer, Agree, Minted
<1> QED
  BY <1>1, <1>2, <1>3, <1>4, <1>5, <1>6 DEF Continue

LEMMA InitEdit == Init => EditInv
<1> SUFFICES ASSUME Init PROVE EditInv
  OBVIOUS
<1>1. Agree(ws)
  BY NoneIsFresh DEF Init, EmptyWorkspace, Agree, NoApproval
<1>2. Minted(ws, minted)
  BY DEF Init, EmptyWorkspace, Minted
<1>3. \A p \in Server : InHand(p)
  BY DEF Init, InHand, Saving, CommitLabels
<1> QED
  BY <1>1, <1>2, <1>3 DEF EditInv

LEMMA StepEdit == SingleServer /\ AuditInv /\ EditInv /\ [Next]_vars => EditInv'
<1> SUFFICES ASSUME SingleServer, AuditInv, EditInv, [Next]_vars PROVE EditInv'
  OBVIOUS
<1>t. ITypeOK
  BY DEF AuditInv
<1>1. ASSUME NEW p \in Server, Interrupt(p) PROVE EditInv'
  <2>1. pc'[p] = "idle" /\ UNCHANGED <<ws, minted>>
    BY <1>1, <1>t DEF Interrupt, Finish, GoTo, ITypeOK, TypeOK, durable, history
  <2> QED
    BY <2>1, ElsewhereEdit DEF CommitLabels
<1>2. CASE AuditReadState \/ AuditReadChain \/ UNCHANGED vars
  <2>1. UNCHANGED <<ws, ledger, flow, pc, op, minted>>
    BY <1>2 DEF AuditReadState, AuditReadChain, vars, durable, process, history
  <2> QED
    BY <2>1 DEF EditInv, Agree, Minted, InHand, Saving
<1> QED
  BY <1>t, <1>1, <1>2, RequestEdit, ContinueEdit DEF Next

\* One server process: what is in the vault is always the result of whole edits,
\* an approval decided with its document and never two approvals for one.
THEOREM DecisionsStayTogether == ASSUME SingleServer PROVE Spec => []DecisionsAgree
<1>1. AuditInv /\ EditInv => DecisionsAgree
  <2> SUFFICES ASSUME ws \in Workspaces, Agree(ws) PROVE DecisionsAgree
    BY DEF AuditInv, ITypeOK, TypeOK, EditInv
  <2> SUFFICES ASSUME NEW d \in Document
               PROVE  LET of == {a \in Approval : ws.approvals[a].document = d} IN
                      /\ ws.documents[d] \in {"absent", "Draft"} <=> of = {}
                      /\ \A a, b \in of : a = b
                      /\ \A a \in of :
                           /\ ws.approvals[a].status = "Pending"
                                <=> ws.documents[d] = "PendingApproval"
                           /\ ws.approvals[a].status = "Rejected" <=> ws.documents[d] = "Rejected"
                           /\ ws.approvals[a].status = "Approved" <=> ws.documents[d] \in Granted
    BY DEF DecisionsAgree
  <2>1. ASSUME NEW a \in Approval, ws.approvals[a].document = d
        PROVE  /\ ws.documents[d] \notin {"absent", "Draft"}
               /\ ws.approvals[a] # NoApproval
               /\ ws.approvals[a].status = "Pending" <=> ws.documents[d] = "PendingApproval"
               /\ ws.approvals[a].status = "Rejected" <=> ws.documents[d] = "Rejected"
               /\ ws.approvals[a].status = "Approved" <=> ws.documents[d] \in Granted
    <3>1. \/ ws.approvals[a] = Decided(d, "Pending", None) /\ ws.documents[d] = "PendingApproval"
          \/ ws.approvals[a] = Decided(d, "Rejected", None) /\ ws.documents[d] = "Rejected"
          \/ ws.approvals[a].status = "Approved" /\ ws.documents[d] \in Granted
      BY <2>1 DEF Agree
    <3>2. /\ Decided(d, "Pending", None).status = "Pending"
          /\ Decided(d, "Rejected", None).status = "Rejected"
          /\ NoApproval.status = "absent"
      BY DEF Decided, NoApproval
    <3> QED
      BY <3>1, <3>2 DEF Granted
  <2>2. \A a, b \in {x \in Approval : ws.approvals[x].document = d} : a = b
    BY <2>1 DEF Agree
  <2>3. ws.documents[d] \in {"absent", "Draft"}
          <=> {a \in Approval : ws.approvals[a].document = d} = {}
    BY <2>1 DEF Agree
  <2> QED
    BY <2>1, <2>2, <2>3
<1> QED
  BY <1>1, InitAudit, StepAudit, InitEdit, StepEdit, PTL DEF Spec

------------------------------------------------------------------------------
(* The send workflow: what its checkpoint, its signed record, the outbox    *)
(* file and the count of executions say of each other.                      *)

\* The execute receipt is worth what it says: a record of the file that is in
\* the outbox, by the last execution.
Receipt(a) ==
  /\ flow[a].record # None
  /\ flow[a].record.content = outbox[ws.approvals[a].document]
  /\ flow[a].record.attempt = executions[a]

Sound(a) ==
  /\ ws.approvals[a] = NoApproval => flow[a].completed = 0
  /\ flow[a].completed >= 1 /\ ws.approvals[a].status = "Pending" => Receipt(a)
  /\ ws.approvals[a].evidence # None =>
       /\ outbox[ws.approvals[a].document] \in {None, ws.approvals[a].evidence.content}
       /\ ws.approvals[a].evidence.attempt = executions[a]

ExecuteLabels == {"execute", "kernel", "write_outbox", "write_record", "execute_receipt"}

\* How far the send has come when its server is at a label.
Sending(p) ==
  LET a == op[p].subject  r == op[p].record IN
  /\ pc[p] \in ExecuteLabels =>
       ws.approvals[a].status = "Pending" /\ flow[a].completed = 0
  /\ pc[p] \in {"write_outbox", "write_record"} => r.attempt = executions[a]
  /\ pc[p] = "write_record" => r.content = outbox[ws.approvals[a].document]
  /\ pc[p] = "execute_receipt" => Receipt(a)
  /\ pc[p] = "commit_step" => ws.approvals[a].status = "Pending" /\ flow[a].completed = 1
  /\ pc[p] \in CommitLabels /\ op[p].next = "commit_receipt" => flow[a].completed = 1
  /\ pc[p] = "commit_receipt" => ws.approvals[a].status = "Approved"

SendInv == (\A a \in Approval : Sound(a)) /\ \A p \in Server : Sending(p)

\* An approval whose data no step touched.
LEMMA SoundStays ==
  ASSUME NEW a \in Approval, Sound(a), ws'.approvals[a] = ws.approvals[a],
         flow'[a].completed = flow[a].completed, flow'[a].record = flow[a].record,
         executions'[a] = executions[a],
         ws.approvals[a] # NoApproval =>
           outbox'[ws.approvals[a].document] = outbox[ws.approvals[a].document]
  PROVE  Sound(a)'
  BY DEF Sound, Receipt, NoApproval

\* A step that touches no send but perhaps moves the server's own label.
LEMMA SendStays ==
  ASSUME SingleServer, SendInv, NEW p \in Server, Sending(p)',
         UNCHANGED <<ws, flow, outbox, executions>>
  PROVE  SendInv'
<1>1. \A a \in Approval : Sound(a)'
  BY DEF SendInv, Sound, Receipt
<1> QED
  BY <1>1 DEF SendInv, SingleServer

\* A step of the send of a, whose document no other approval has.
LEMMA SendMoves ==
  ASSUME SingleServer, SendInv, ws \in Workspaces, Agree(ws), NEW p \in Server, Sending(p)',
         NEW a \in Approval, ws.approvals[a] # NoApproval, Sound(a)',
         ws' = ws, \A b \in Approval : b # a => flow'[b] = flow[b] /\ executions'[b] = executions[b],
         \A d \in Document : d # ws.approvals[a].document => outbox'[d] = outbox[d]
  PROVE  SendInv'
<1>1. ASSUME NEW b \in Approval, b # a PROVE Sound(b)'
  <2>1. CASE ws.approvals[b] = NoApproval
    BY <1>1, <2>1, SoundStays DEF SendInv
  <2>2. CASE ws.approvals[b] # NoApproval
    <3>1. ws.approvals[b].document \in Document /\ ws.approvals[b].document # ws.approvals[a].document
      BY <1>1, <2>2, KnownApproval DEF Agree
    <3> QED
      BY <1>1, <3>1, SoundStays DEF SendInv
  <2> QED
    BY <2>1, <2>2
<1> QED
  BY <1>1 DEF SendInv, SingleServer

LEMMA IdleSend ==
  ASSUME NEW p \in Server, pc'[p] \in {"idle", "disclose", "done"}
  PROVE  Sending(p)'
  BY DEF Sending, ExecuteLabels, CommitLabels

\* A request begins a send, or has nothing to do with one.
LEMMA RequestSendInv ==
  ASSUME SingleServer, AuditInv, EditInv, SendInv, NEW p \in Server, Request(p)
  PROVE  SendInv'
<1>t. /\ ITypeOK /\ TypeOK /\ ws \in Workspaces /\ Agree(ws)
      /\ pc \in [Server -> Labels] /\ op \in [Server -> Operation] /\ op[p] \in Operation
      /\ outbox \in [Document -> Venture \cup {None}]
  BY DEF AuditInv, ITypeOK, TypeOK, EditInv
<1>1. ASSUME NEW w, NEW e, Commit(p, w, e, "idle") PROVE Sending(p)'
  <2>1. /\ op' = [op EXCEPT ![p] = [op[p] EXCEPT !.ws = w, !.events = e, !.next = "idle"]]
        /\ pc' = [pc EXCEPT ![p] = "load_chain"]
    BY <1>1 DEF Commit, GoTo
  <2>2. op'[p].next = "idle" /\ pc'[p] = "load_chain"
    BY <2>1, <1>t DEF Operation
  <2> QED
    BY <2>2 DEF Sending, ExecuteLabels, CommitLabels
<1>2. ASSUME \/ \E v \in Venture : SetVenture(p, v)
             \/ \E c \in Customer : AddCustomer(p, c)
             \/ \E d \in Document : CreateDocument(p, d) \/ ConfirmDelivery(p, d)
             \/ \E d \in Document, a \in Approval : RequestSend(p, d, a)
             \/ \E a \in Approval : Reject(p, a)
      PROVE  SendInv'
  <2>1. /\ \E w, e : Commit(p, w, e, "idle")
        /\ UNCHANGED <<ws, flow, outbox, executions>>
    BY <1>2 DEF SetVenture, AddCustomer, CreateDocument, ConfirmDelivery, RequestSend, Reject,
                durable, history
  <2> QED
    BY <2>1, <1>1, SendStays
<1>3. ASSUME NEW c \in Customer, DraftAssistant(p, c) PROVE SendInv'
  <2>1. pc'[p] = "disclose" /\ UNCHANGED <<ws, flow, outbox, executions>>
    BY <1>3, <1>t DEF DraftAssistant, GoTo, durable
  <2> QED
    BY <2>1, IdleSend, SendStays
<1>4. ASSUME Export(p) PROVE SendInv'
  <2> DEFINE e == <<Ev("workspace.export", "workspace:all")>>
  <2>1. e \in Seq(Event)
    BY EventType DEF Action, Resource
  <2>2. /\ Record(p, e) /\ op[p].next = "no_save"
        /\ UNCHANGED <<ws, flow, outbox, executions>>
    BY <1>4, <1>t DEF Export, ITypeOK, Located, NoOp, durable, history
  <2>3. pc'[p] = "load_chain" /\ op'[p].next = "no_save"
    BY <2>1, <2>2, <1>t, RecordType
  <2>4. Sending(p)'
    BY <2>3 DEF Sending, ExecuteLabels, CommitLabels
  <2> QED
    BY <2>2, <2>4, SendStays
<1>5. ASSUME NEW d \in Document, RevokeDelivery(p, d) PROVE SendInv'
  <2>1. /\ ws.documents[d] = "ApprovedPendingDelivery"
        /\ outbox' = [outbox EXCEPT ![d] = None]
        /\ UNCHANGED <<ws, flow, executions>>
        /\ \E w, e : Commit(p, w, e, "idle")
    BY <1>5 DEF RevokeDelivery, history
  <2>2. ASSUME NEW a \in Approval PROVE Sound(a)'
    <3>1. CASE ws.approvals[a].document = d
      <4>1. ws.approvals[a].status = "Approved"
        BY <2>1, <3>1, <1>t DEF Agree
      <4>2. ws.approvals[a] # NoApproval
        BY <4>1 DEF NoApproval
      <4>3. outbox'[d] = None
        BY <2>1, <1>t
      <4> QED
        BY <2>1, <3>1, <4>1, <4>2, <4>3 DEF Sound, SendInv
    <3>2. CASE ws.approvals[a].document # d
      <4>1. ws.approvals[a] # NoApproval =>
              outbox'[ws.approvals[a].document] = outbox[ws.approvals[a].document]
        BY <2>1, <3>2, <1>t, KnownApproval
      <4> QED
        BY <2>1, <4>1, SoundStays DEF SendInv
    <3> QED
      BY <3>1, <3>2
  <2>3. Sending(p)'
    BY <2>1, <1>1
  <2> QED
    BY <2>2, <2>3 DEF SendInv, SingleServer
<1>6. ASSUME NEW a \in Approval, Approve(p, a) PROVE SendInv'
  <2> DEFINE o == [op[p] EXCEPT !.subject = a]
  <2>1. flow[a].completed \in 0 .. 2
    BY <1>t DEF TypeOK, Checkpoint
  <2>2. o.subject = a
    BY <1>t DEF Operation
  <2>3. /\ ws.approvals[a].status = "Pending" /\ UNCHANGED <<ws, flow, outbox, executions>>
        /\ op' = [op EXCEPT ![p] = o]
    BY <1>6 DEF Approve, durable, history
  <2> HIDE DEF o
  <2>4. op'[p].subject = a
    BY <2>2, <2>3, <1>t
  <2>5. \/ flow[a].completed = 0 /\ pc'[p] = "execute"
        \/ flow[a].completed = 1 /\ pc'[p] = "commit_step"
        \/ pc'[p] = "done"
    BY <1>6, <2>1, <1>t DEF Approve, GoTo
  <2>6. Sending(p)'
    BY <2>3, <2>4, <2>5 DEF Sending, ExecuteLabels, CommitLabels
  <2> QED
    BY <2>3, <2>6, SendStays
<1> QED
  BY <1>2, <1>3, <1>4, <1>5, <1>6 DEF Request

\* From the first step of a send to its last receipt, and the saves in between.
LEMMA ContinueSendInv ==
  ASSUME SingleServer, AuditInv, EditInv, SendInv, NEW p \in Server, Continue(p)
  PROVE  SendInv'
<1>t. /\ ITypeOK /\ TypeOK /\ ws \in Workspaces /\ Agree(ws)
      /\ pc \in [Server -> Labels] /\ op \in [Server -> Operation] /\ op[p] \in Operation
      /\ outbox \in [Document -> Venture \cup {None}]
      /\ flow \in [Approval -> Checkpoint] /\ executions \in [Approval -> Nat]
  BY DEF AuditInv, ITypeOK, TypeOK, EditInv
<1>l. Located(p) /\ InFlight(p) /\ InHand(p) /\ Sending(p)
  BY DEF AuditInv, ITypeOK, EditInv, SendInv
<1> PICK a : a = op[p].subject
  OBVIOUS
<1> DEFINE d == ws.approvals[a].document
\* At a label of the execute step the approval is pending and nothing of it
\* has been receipted.
<1>e. ASSUME pc[p] \in ExecuteLabels
      PROVE  /\ a \in Approval /\ ws.approvals[a] # NoApproval /\ d \in Document
             /\ ws.approvals[a].status = "Pending" /\ ws.approvals[a].evidence = None
             /\ flow[a].completed = 0
  <2>1. /\ a \in Approval /\ ws.approvals[a].status = "Pending" /\ flow[a].completed = 0
    BY <1>e, <1>l DEF Located, SendLabels, ExecuteLabels, Sending
  <2>2. d \in Document /\ ws.approvals[a] = Decided(d, "Pending", None)
    BY <2>1, <1>t, PendingAgrees
  <2>3. ws.approvals[a] # NoApproval
    BY <2>1 DEF NoApproval
  <2> HIDE DEF d
  <2>4. ws.approvals[a].evidence = None
    BY <2>2 DEF Decided
  <2> QED
    BY <2>1, <2>2, <2>3, <2>4 DEF d
<1>1. ASSUME Disclose(p) PROVE SendInv'
  <2> DEFINE w == [ws EXCEPT !.disclosures = @ + 1]
             e == <<Ev("model.drafted", op[p].subject)>>
  <2>1. op[p].subject \in Customer
    BY <1>1, <1>l DEF Disclose, Located
  <2>2. w \in Workspaces /\ e \in Seq(Event)
    BY <2>1, <1>t, EditType, EventType DEF Action, Resource
  <2>3. UNCHANGED <<ws, flow, outbox, executions>> /\ Commit(p, w, e, "idle")
    BY <1>1 DEF Disclose, durable, history
  <2>4. "idle" \in {"idle", "commit_receipt"}
    OBVIOUS
  <2> HIDE DEF w, e
  <2>5. pc'[p] = "load_chain" /\ op'[p].next = "idle"
    BY <1>t, <2>2, <2>3, <2>4, CommitType
  <2>6. Sending(p)'
    BY <2>5 DEF Sending, ExecuteLabels, CommitLabels
  <2> QED
    BY <2>3, <2>6, SendStays
<1>2. ASSUME ComposeSend(p) PROVE SendInv'
  <2>1. pc[p] \in ExecuteLabels
    BY <1>2 DEF ComposeSend, ExecuteLabels
  <2> DEFINE r == [content |-> ws.venture, attempt |-> 0]
             o == [op[p] EXCEPT !.record = r]
  <2>2. o.subject = a
    BY <1>t DEF Operation
  <2>3. /\ outbox' = [outbox EXCEPT ![d] = None] /\ op' = [op EXCEPT ![p] = o]
        /\ pc' = [pc EXCEPT ![p] = "kernel"] /\ UNCHANGED <<ws, flow, executions>>
    BY <1>2, <1>e, <2>1 DEF ComposeSend, GoTo, history
  <2>4. /\ op'[p] = o /\ pc'[p] = "kernel"
        /\ \A x \in Document : x # d => outbox'[x] = outbox[x]
    BY <2>3, <1>t
  <2> HIDE DEF o
  <2>5. op'[p].subject = a
    BY <2>2, <2>4
  <2> HIDE DEF d
  <2>6. Sound(a)'
    BY <1>e, <2>1, <2>3 DEF Sound
  <2>7. Sending(p)'
    BY <1>e, <2>1, <2>3, <2>4, <2>5 DEF Sending, ExecuteLabels, CommitLabels
  <2> QED
    BY <1>t, <1>e, <2>1, <2>3, <2>4, <2>6, <2>7, SendMoves DEF d
<1>3. ASSUME RunKernel(p) PROVE SendInv'
  <2>1. pc[p] \in ExecuteLabels /\ op[p].record \in SignedRecord
    BY <1>3, <1>l DEF RunKernel, ExecuteLabels, Located, RecordLabels
  <2> DEFINE r == [op[p].record EXCEPT !.attempt = executions[a] + 1]
             o == [op[p] EXCEPT !.record = r]
  <2>2. r.attempt = executions[a] + 1
    BY <2>1 DEF SignedRecord
  <2>3. /\ executions' = [executions EXCEPT ![a] = @ + 1]
        /\ op' = [op EXCEPT ![p] = [op[p] EXCEPT !.record = [op[p].record EXCEPT !.attempt =
                    executions[a] + 1]]]
        /\ pc' = [pc EXCEPT ![p] = "write_outbox"] /\ UNCHANGED <<ws, flow, outbox>>
    BY <1>3 DEF RunKernel, GoTo, durable
  <2>4. op'[p] = o /\ pc'[p] = "write_outbox"
    BY <2>3, <1>t
  <2>5. executions'[a] = executions[a] + 1 /\ \A b \in Approval : b # a => executions'[b] = executions[b]
    BY <2>1, <2>3, <1>e, <1>t
  <2> HIDE DEF r
  <2>6. o.subject = a /\ o.record = r
    BY <1>t DEF Operation
  <2> HIDE DEF o
  <2>7. op'[p].subject = a /\ op'[p].record.attempt = executions'[a]
    BY <2>2, <2>4, <2>5, <2>6
  <2> HIDE DEF d
  <2>8. Sound(a)'
    BY <1>e, <2>1, <2>3 DEF Sound
  <2>9. Sending(p)'
    BY <1>e, <2>1, <2>3, <2>4, <2>7 DEF Sending, ExecuteLabels, CommitLabels
  <2> QED
    BY <1>t, <1>e, <2>1, <2>3, <2>5, <2>8, <2>9, SendMoves
<1>4. ASSUME WriteOutbox(p) PROVE SendInv'
  <2>1. pc[p] \in ExecuteLabels /\ op[p].record.attempt = executions[a]
    BY <1>4, <1>l DEF WriteOutbox, ExecuteLabels, Sending
  <2>2. /\ outbox' = [outbox EXCEPT ![d] = op[p].record.content]
        /\ pc' = [pc EXCEPT ![p] = "write_record"] /\ UNCHANGED <<ws, flow, op, executions>>
    BY <1>4 DEF WriteOutbox, GoTo, history
  <2>3. /\ pc'[p] = "write_record" /\ outbox'[d] = op[p].record.content
        /\ \A x \in Document : x # d => outbox'[x] = outbox[x]
    BY <1>e, <2>1, <2>2, <1>t
  <2>4. Sound(a)'
    BY <1>e, <2>1, <2>2, SMTT(30) DEF Sound
  <2>5. Sending(p)'
    BY <1>e, <2>1, <2>2, <2>3 DEF Sending, ExecuteLabels, CommitLabels
  <2> QED
    BY <1>t, <1>e, <2>1, <2>2, <2>3, <2>4, <2>5, SendMoves
<1>5. ASSUME WriteRecord(p) PROVE SendInv'
  <2>1. /\ pc[p] \in ExecuteLabels /\ op[p].record \in SignedRecord
        /\ op[p].record.attempt = executions[a] /\ op[p].record.content = outbox[d]
    BY <1>5, <1>l DEF WriteRecord, ExecuteLabels, Located, RecordLabels, Sending
  <2> DEFINE r == op[p].record
             f == [flow[a] EXCEPT !.record = r]
  <2>2. /\ flow' = [flow EXCEPT ![a] = f]
        /\ pc' = [pc EXCEPT ![p] = "execute_receipt"] /\ UNCHANGED <<ws, outbox, op, executions>>
    BY <1>5 DEF WriteRecord, GoTo, history
  <2> HIDE DEF r
  <2>3. f.record = r /\ f.completed = flow[a].completed
    BY <1>e, <2>1, <1>t DEF Checkpoint
  <2>4. /\ flow'[a] = f /\ pc'[p] = "execute_receipt"
        /\ \A b \in Approval : b # a => flow'[b] = flow[b]
    BY <1>e, <2>1, <2>2, <1>t
  <2>5. r # None
    <3>1. None \notin SignedRecord
      BY RecordIsNotNone
    <3> QED
      BY <2>1, <3>1 DEF r
  <2> HIDE DEF f
  <2>6. Receipt(a)'
    BY <2>1, <2>2, <2>3, <2>4, <2>5 DEF Receipt, r
  <2>7. Sound(a)'
    BY <1>e, <2>1, <2>2, <2>3, <2>4, SMTT(30) DEF Sound
  <2>8. Sending(p)'
    BY <1>e, <2>1, <2>2, <2>3, <2>4, <2>6 DEF Sending, ExecuteLabels, CommitLabels
  <2> QED
    BY <1>t, <1>e, <2>1, <2>2, <2>4, <2>7, <2>8, SendMoves
<1>6. ASSUME PersistExecute(p) PROVE SendInv'
  <2>1. pc[p] \in ExecuteLabels /\ Receipt(a)
    BY <1>6, <1>l DEF PersistExecute, ExecuteLabels, Sending
  <2> DEFINE f == [flow[a] EXCEPT !.completed = 1]
  <2>2. /\ flow' = [flow EXCEPT ![a] = f]
        /\ pc' = [pc EXCEPT ![p] = "commit_step"] /\ UNCHANGED <<ws, outbox, op, executions>>
    BY <1>6 DEF PersistExecute, GoTo, history
  <2>3. f.record = flow[a].record /\ f.completed = 1
    BY <1>e, <2>1, <1>t DEF Checkpoint
  <2>4. /\ flow'[a] = f /\ pc'[p] = "commit_step"
        /\ \A b \in Approval : b # a => flow'[b] = flow[b]
    BY <1>e, <2>1, <2>2, <1>t
  <2> HIDE DEF f
  <2>5. Receipt(a)'
    BY <2>1, <2>2, <2>3, <2>4 DEF Receipt
  <2>6. Sound(a)'
    BY <1>e, <2>1, <2>2, <2>5 DEF Sound
  <2>7. Sending(p)'
    BY <1>e, <2>1, <2>2, <2>3, <2>4 DEF Sending, ExecuteLabels, CommitLabels
  <2> QED
    BY <1>t, <1>e, <2>1, <2>2, <2>4, <2>6, <2>7, SendMoves
<1>7. ASSUME CommitDecision(p) PROVE SendInv'
  <2>1. /\ pc[p] = "commit_step" /\ UNCHANGED <<ws, flow, outbox, executions>>
        /\ a \in Approval /\ ws.approvals[a].status = "Pending" /\ flow[a].completed = 1
    BY <1>7, <1>l DEF CommitDecision, durable, history, Located, SendLabels, Sending
  <2> DEFINE r == flow[a].record
             w == [ws EXCEPT !.approvals[a].status = "Approved", !.approvals[a].evidence = r,
                             !.documents[d] = "ApprovedPendingDelivery"]
             e == <<Ev("approval.granted", d), Ev("capability.executed", d),
                    Ev("effect.file_written", d)>>
  <2>2. CASE Finish(p)
    <3>1. pc'[p] = "idle"
      BY <2>2, <1>t DEF Finish, GoTo
    <3> QED
      BY <2>1, <3>1, IdleSend, SendStays
  <2>3. CASE r # None /\ Commit(p, w, e, "commit_receipt")
    <3>1. r \in SignedRecord
      BY <2>1, <2>3, <1>t DEF Checkpoint
    <3>2. w \in Workspaces /\ d \in Document
      BY <2>1, <3>1, <1>t, DecideType
    <3>3. e \in Seq(Event)
      <4>1. /\ Ev("approval.granted", d) \in Event /\ Ev("capability.executed", d) \in Event
            /\ Ev("effect.file_written", d) \in Event
        BY <3>2, EventType DEF Action, Resource
      <4> QED
        BY <4>1
    <3>4. Commit(p, w, e, "commit_receipt")
      BY <2>3
    <3> HIDE DEF w, e, d
    <3>5. /\ pc'[p] = "load_chain" /\ op'[p].next = "commit_receipt"
          /\ op'[p].subject = a
      BY <3>2, <3>3, <3>4, <1>t, CommitType
    <3>6. Sending(p)'
      BY <2>1, <3>5 DEF Sending, ExecuteLabels, CommitLabels
    <3> QED
      BY <2>1, <3>6, SendStays
  <2> QED
    BY <1>7, <2>1, <2>2, <2>3 DEF CommitDecision
<1>8. ASSUME PersistCommit(p) PROVE SendInv'
  <2>1. /\ pc[p] = "commit_receipt" /\ a \in Approval /\ ws.approvals[a].status = "Approved"
    BY <1>8, <1>l DEF PersistCommit, Located, SendLabels, Sending
  <2>2. ws.approvals[a] # NoApproval
    BY <2>1 DEF NoApproval
  <2>3. /\ flow' = [flow EXCEPT ![a] = [flow[a] EXCEPT !.completed = 2]]
        /\ pc' = [pc EXCEPT ![p] = "done"] /\ UNCHANGED <<ws, outbox, executions>>
    BY <1>8 DEF PersistCommit, GoTo, history
  <2>4. pc'[p] = "done" /\ \A b \in Approval : b # a => flow'[b] = flow[b]
    BY <2>1, <2>3, <1>t
  <2>5. Sound(a)'
    BY <2>1, <2>2, <2>3 DEF Sound, SendInv
  <2>6. Sending(p)'
    BY <2>4, IdleSend
  <2> QED
    BY <1>t, <2>1, <2>2, <2>3, <2>4, <2>5, <2>6, SendMoves
<1>9. ASSUME PersistDone(p) PROVE SendInv'
  <2> DEFINE f == [flow[a] EXCEPT !.done = TRUE]
  <2>1. /\ a \in Approval /\ flow' = [flow EXCEPT ![a] = f]
        /\ Finish(p) /\ UNCHANGED <<ws, outbox, executions>>
    BY <1>9, <1>l DEF PersistDone, Located, SendLabels, history
  <2>2. f.completed = flow[a].completed /\ f.record = flow[a].record
    BY <2>1, <1>t DEF Checkpoint
  <2> HIDE DEF f
  <2>3. \A b \in Approval : flow'[b].completed = flow[b].completed /\ flow'[b].record = flow[b].record
    BY <2>1, <2>2, <1>t
  <2>4. \A b \in Approval : Sound(b)'
    BY <2>1, <2>3, SoundStays DEF SendInv
  <2>5. pc'[p] = "idle"
    BY <2>1, <1>t DEF Finish, GoTo
  <2> QED
    BY <2>4, <2>5, IdleSend DEF SendInv, SingleServer
<1>10. ASSUME LoadChain(p) PROVE SendInv'
  <2> DEFINE o == [op[p] EXCEPT !.chain = ledger]
  <2>1. o.next = op[p].next /\ o.subject = a
    BY <1>t DEF Operation
  <2>2. /\ op'[p] = o /\ pc[p] = "load_chain" /\ pc'[p] = "save_chain"
        /\ UNCHANGED <<ws, flow, outbox, executions>>
    BY <1>10, <1>t DEF LoadChain, GoTo, durable, history
  <2> HIDE DEF o
  <2>3. Sending(p)'
    BY <2>1, <2>2, <1>l DEF Sending, ExecuteLabels, CommitLabels
  <2> QED
    BY <2>2, <2>3, SendStays
<1>11. ASSUME SaveChain(p) PROVE SendInv'
  <2>1. pc[p] = "save_chain" /\ UNCHANGED <<ws, flow, outbox, executions>>
    BY <1>11 DEF SaveChain
  <2>2. pc'[p] = "idle" \/ (pc'[p] = "save_vault" /\ op'[p] = op[p])
    <3>1. CASE op[p].next = "no_save"
      BY <1>11, <3>1, <1>t DEF SaveChain, Finish, GoTo
    <3>2. CASE op[p].next # "no_save"
      BY <1>11, <3>2, <1>t DEF SaveChain, GoTo
    <3> QED
      BY <3>1, <3>2
  <2>3. Sending(p)'
    BY <2>1, <2>2, <1>l DEF Sending, ExecuteLabels, CommitLabels
  <2> QED
    BY <2>1, <2>3, SendStays
<1>12. ASSUME SaveVault(p) PROVE SendInv'
  <2> DEFINE n == op[p].ws  e == op[p].events
  <2>1. /\ ws' = n /\ pc[p] = "save_vault" /\ op[p].next # "no_save"
        /\ UNCHANGED <<flow, outbox, executions>>
    BY <1>12, <1>l DEF SaveVault, Located
  <2>2. Edit(ws, n, e, op[p].next, a, flow)
    BY <2>1, <1>l DEF InHand, Saving, CommitLabels
  <2>3. DOMAIN ws.approvals = Approval
    BY <1>t DEF Workspaces
  \* Only the approval x changes, and its new record is sound.
  <2>4. ASSUME NEW x \in Approval, \A b \in Approval : b # x => ws'.approvals[b] = ws.approvals[b],
               Sound(x)'
        PROVE  \A b \in Approval : Sound(b)'
    BY <2>1, <2>4, SoundStays DEF SendInv
  <2>5. CASE op[p].next = "idle"
    <3>1. SmallEdit(ws, n, e)
      BY <2>2, <2>5 DEF Edit
    <3>2. ASSUME n.approvals = ws.approvals PROVE \A b \in Approval : Sound(b)'
      BY <2>1, <3>2, SoundStays DEF SendInv
    <3>3. ASSUME NEW x \in Approval, NEW y \in Document, Asks(ws, n, e, y, x)
          PROVE  \A b \in Approval : Sound(b)'
      <4>1. ws'.approvals = [ws.approvals EXCEPT ![x] = Decided(y, "Pending", None)]
        BY <2>1, <3>3 DEF Asks
      <4>2. /\ ws'.approvals[x] = Decided(y, "Pending", None)
            /\ \A b \in Approval : b # x => ws'.approvals[b] = ws.approvals[b]
        BY <2>3, <4>1
      <4>3. flow'[x].completed = 0
        BY <2>1, <3>3 DEF Asks, SendInv, Sound
      <4>4. Sound(x)'
        BY <4>2, <4>3 DEF Sound, Decided
      <4> QED
        BY <2>4, <4>2, <4>4
    <3>4. ASSUME NEW x \in Approval, NEW y \in Document, Rejects(ws, n, e, y, x)
          PROVE  \A b \in Approval : Sound(b)'
      <4>1. ws'.approvals = [ws.approvals EXCEPT ![x] = Decided(y, "Rejected", None)]
        BY <2>1, <3>4 DEF Rejects
      <4>2. /\ ws'.approvals[x] = Decided(y, "Rejected", None)
            /\ \A b \in Approval : b # x => ws'.approvals[b] = ws.approvals[b]
        BY <2>3, <4>1
      <4>3. ws'.approvals[x] # NoApproval
        BY <4>2 DEF Decided, NoApproval
      <4>4. Sound(x)'
        BY <4>2, <4>3 DEF Sound, Decided
      <4> QED
        BY <2>4, <4>2, <4>4
    <3>5. \A b \in Approval : Sound(b)'
      BY <3>1, <3>2, <3>3, <3>4 DEF SmallEdit, Plain, Joins, Alone
    <3>6. pc'[p] = "idle"
      BY <1>12, <2>5, <1>t DEF SaveVault, Finish, GoTo
    <3> QED
      BY <3>5, <3>6, IdleSend DEF SendInv, SingleServer
  <2>6. CASE op[p].next = "commit_receipt"
    <3>1. a \in Approval /\ flow[a].completed = 1
      BY <2>1, <2>6, <1>l DEF Located, Sending, CommitLabels
    <3>2. PICK y \in Document : Grants(ws, n, e, y, a, flow[a])
      BY <2>2, <2>6 DEF Edit
    <3>3. /\ ws.approvals[a] = Decided(y, "Pending", None)
          /\ ws'.approvals = [ws.approvals EXCEPT ![a] = Decided(y, "Approved", flow[a].record)]
      BY <2>1, <3>2 DEF Grants
    <3>4. /\ ws'.approvals[a] = Decided(y, "Approved", flow[a].record)
          /\ \A b \in Approval : b # a => ws'.approvals[b] = ws.approvals[b]
      BY <2>3, <3>1, <3>3
    <3>5. ws.approvals[a].status = "Pending" /\ ws.approvals[a].document = y
      BY <3>3 DEF Decided
    <3>6. Receipt(a)
      BY <3>1, <3>5 DEF SendInv, Sound
    <3>7. /\ ws'.approvals[a].status = "Approved" /\ ws'.approvals[a].document = y
          /\ ws'.approvals[a].evidence = flow[a].record
      BY <3>4 DEF Decided
    <3>8. ws'.approvals[a] # NoApproval
      BY <3>7 DEF NoApproval
    <3>9. Sound(a)'
      BY <2>1, <3>5, <3>6, <3>7, <3>8 DEF Sound, Receipt
    <3>10. pc'[p] = "commit_receipt" /\ op'[p] = op[p]
      BY <1>12, <2>6, <1>t DEF SaveVault, GoTo
    <3>11. Sending(p)'
      BY <3>7, <3>10 DEF Sending, ExecuteLabels, CommitLabels
    <3> QED
      BY <2>4, <3>1, <3>4, <3>9, <3>11 DEF SendInv, SingleServer
  <2> QED
    BY <2>1, <2>5, <2>6, <1>t DEF Operation
<1> QED
  BY <1>1, <1>2, <1>3, <1>4, <1>5, <1>6, <1>7, <1>8, <1>9, <1>10, <1>11, <1>12 DEF Continue

LEMMA InitSend == Init => SendInv
<1> SUFFICES ASSUME Init PROVE SendInv
  OBVIOUS
<1>1. \A a \in Approval : Sound(a)
  BY DEF Init, EmptyWorkspace, EmptyFlow, NoApproval, Sound
<1>2. \A p \in Server : Sending(p)
  BY DEF Init, Sending, ExecuteLabels, CommitLabels
<1> QED
  BY <1>1, <1>2 DEF SendInv

LEMMA StepSend ==
  SingleServer /\ AuditInv /\ EditInv /\ SendInv /\ [Next]_vars => SendInv'
<1> SUFFICES ASSUME SingleServer, AuditInv, EditInv, SendInv, [Next]_vars PROVE SendInv'
  OBVIOUS
<1>t. pc \in [Server -> Labels]
  BY DEF AuditInv, ITypeOK, TypeOK
<1>1. ASSUME NEW p \in Server, Interrupt(p) PROVE SendInv'
  <2>1. pc'[p] = "idle" /\ UNCHANGED <<ws, flow, outbox, executions>>
    BY <1>1, <1>t DEF Interrupt, Finish, GoTo, durable, history
  <2> QED
    BY <2>1, IdleSend, SendStays
<1>2. CASE AuditReadState \/ AuditReadChain \/ UNCHANGED vars
  <2>1. UNCHANGED <<ws, flow, outbox, executions, pc, op>>
    BY <1>2 DEF AuditReadState, AuditReadChain, vars, durable, process, history
  <2>2. \A a \in Approval : Sound(a)'
    BY <2>1 DEF SendInv, Sound, Receipt
  <2>3. \A p \in Server : Sending(p)'
    BY <2>1 DEF SendInv, Sending, Receipt
  <2> QED
    BY <2>2, <2>3 DEF SendInv
<1> QED
  BY <1>1, <1>2, RequestSendInv, ContinueSendInv DEF Next

LEMMA SendInvariant == ASSUME SingleServer PROVE Spec => [](AuditInv /\ EditInv /\ SendInv)
<1> QED
  BY InitAudit, StepAudit, InitEdit, StepEdit, InitSend, StepSend, PTL DEF Spec

\* One server process: a durable execute receipt never describes another file
\* than the one in the outbox, nor another execution than the last.
THEOREM ReceiptIsSound == ASSUME SingleServer PROVE Spec => []ReceiptMatchesOutbox
<1>1. SendInv => ReceiptMatchesOutbox
  BY DEF SendInv, Sound, Receipt, ReceiptMatchesOutbox
<1> QED
  BY <1>1, SendInvariant, PTL

\* One server process: committed evidence names the file that is in the outbox,
\* or was until a revocation, and the one execution that wrote it.
THEOREM EvidenceIsTrue == ASSUME SingleServer PROVE Spec => []EvidenceNamesTheFile
<1>1. SendInv => EvidenceNamesTheFile
  BY DEF SendInv, Sound, EvidenceNamesTheFile
<1> QED
  BY <1>1, SendInvariant, PTL

\* One server process: no retry of a send executes again once an execution has
\* its receipt or the approval is decided.
THEOREM RetriesDoNotReplay == ASSUME SingleServer PROVE Spec => NoReplayAfterReceipt
<1>1. ASSUME ITypeOK, SendInv, Next, NEW a \in Approval,
             flow[a].completed >= 1 \/ ws.approvals[a].status \in {"Approved", "Rejected"}
      PROVE  executions'[a] = executions[a]
  <2>1. CASE \E p \in Server : RunKernel(p)
    <3>1. PICK p \in Server : RunKernel(p)
      BY <2>1
    <3>2. /\ executions' = [executions EXCEPT ![op[p].subject] = @ + 1]
          /\ pc[p] = "kernel" /\ executions \in [Approval -> Nat]
      BY <1>1, <3>1 DEF RunKernel, ITypeOK, TypeOK
    <3>3. ws.approvals[op[p].subject].status = "Pending" /\ flow[op[p].subject].completed = 0
      BY <1>1, <3>2 DEF SendInv, Sending, ExecuteLabels
    <3>4. a # op[p].subject
      BY <1>1, <3>3
    <3> QED
      BY <3>2, <3>4
  <2>2. ASSUME NEW p \in Server, Request(p) PROVE UNCHANGED executions
    BY <2>2 DEF Request, SetVenture, AddCustomer, DraftAssistant, CreateDocument, RequestSend,
         Reject, RevokeDelivery, ConfirmDelivery, Export, Approve, history
  <2>3. ASSUME NEW p \in Server, ComposeSend(p) \/ WriteOutbox(p) \/ WriteRecord(p)
        PROVE  UNCHANGED executions
    BY <2>3 DEF ComposeSend, WriteOutbox, WriteRecord, history
  <2>4. ASSUME NEW p \in Server,
               PersistExecute(p) \/ CommitDecision(p) \/ PersistCommit(p) \/ PersistDone(p)
        PROVE  UNCHANGED executions
    BY <2>4 DEF PersistExecute, CommitDecision, PersistCommit, PersistDone, history
  <2>5. ASSUME NEW p \in Server, Disclose(p) \/ LoadChain(p) \/ SaveChain(p) \/ SaveVault(p)
        PROVE  UNCHANGED executions
    BY <2>5 DEF Disclose, LoadChain, SaveChain, SaveVault, history
  <2>6. ASSUME AuditReadState \/ AuditReadChain \/ \E p \in Server : Interrupt(p)
        PROVE  UNCHANGED executions
    BY <2>6 DEF AuditReadState, AuditReadChain, Interrupt, history
  <2>7. ASSUME NEW p \in Server, Continue(p), ~RunKernel(p) PROVE UNCHANGED executions
    BY <2>3, <2>4, <2>5, <2>7 DEF Continue
  <2> QED
    BY <1>1, <2>1, <2>2, <2>6, <2>7 DEF Next
<1>2. AuditInv /\ EditInv /\ SendInv /\ [Next]_vars =>
        [\A a \in Approval :
           flow[a].completed >= 1 \/ ws.approvals[a].status \in {"Approved", "Rejected"} =>
             executions'[a] = executions[a]]_vars
  BY <1>1 DEF AuditInv
<1> QED
  BY <1>2, SendInvariant, PTL DEF Spec, NoReplayAfterReceipt

------------------------------------------------------------------------------
(* The disclosure log.                                                      *)

\* A showing that has not reached the log yet.
Owing(p) ==
  \/ pc[p] = "disclose"
  \/ Saving(p) /\ op[p].ws.disclosures # ws.disclosures

Owed == IF \E p \in Server : Owing(p) THEN 1 ELSE 0

\* One showing may be on its way; every other one is logged, or was interrupted.
ShowInv == ws.disclosures + Owed <= shown /\ shown <= ws.disclosures + Owed + interrupts

\* What any commit leaves in memory.
LEMMA CommitHand ==
  ASSUME TypeOK, NEW p \in Server, NEW w, NEW e, NEW n, Commit(p, w, e, n)
  PROVE  /\ pc'[p] = "load_chain" /\ op'[p].ws = w /\ op'[p].events = e /\ op'[p].next = n
         /\ op'[p].subject = op[p].subject
<1> DEFINE o == [op[p] EXCEPT !.ws = w, !.events = e, !.next = n]
<1>1. o.ws = w /\ o.events = e /\ o.next = n /\ o.subject = op[p].subject
  BY DEF TypeOK, Operation
<1>2. op' = [op EXCEPT ![p] = o] /\ pc' = [pc EXCEPT ![p] = "load_chain"]
  BY DEF Commit, GoTo
<1> HIDE DEF o
<1>3. op'[p] = o /\ pc'[p] = "load_chain"
  BY <1>2 DEF TypeOK
<1> QED
  BY <1>1, <1>3

LEMMA OwedAlone ==
  ASSUME SingleServer, NEW p \in Server
  PROVE  /\ Owed = IF Owing(p) THEN 1 ELSE 0
         /\ Owed' = IF Owing(p)' THEN 1 ELSE 0
<1>1. (\E q \in Server : Owing(q)) <=> Owing(p)
  BY DEF SingleServer
<1>2. (\E q \in Server : Owing(q)') <=> Owing(p)'
  BY DEF SingleServer
<1> QED
  BY <1>1, <1>2 DEF Owed

\* A step that neither shows nor logs.
LEMMA ShowStays ==
  ASSUME SingleServer, ShowInv, NEW p \in Server, Owing(p)' <=> Owing(p),
         ws'.disclosures = ws.disclosures, UNCHANGED <<shown, interrupts>>
  PROVE  ShowInv'
<1>1. Owed' = Owed
  BY OwedAlone
<1> QED
  BY <1>1 DEF ShowInv

\* Every request but the drafting assistant leaves the log as it is.
LEMMA RequestShow ==
  ASSUME SingleServer, AuditInv, ShowInv, NEW p \in Server, Request(p)
  PROVE  ShowInv'
<1>t. /\ TypeOK /\ ws \in Workspaces /\ pc \in [Server -> Labels] /\ op \in [Server -> Operation]
      /\ op[p] \in Operation /\ shown \in Nat /\ interrupts \in Nat /\ ws.disclosures \in Nat
  BY DEF AuditInv, ITypeOK, TypeOK, Workspaces
<1>0. ASSUME pc[p] = "idle" PROVE ~Owing(p)
  BY <1>0 DEF Owing, Saving, CommitLabels
<1>1. ASSUME NEW w, NEW e, pc[p] = "idle", Commit(p, w, e, "idle"),
             w.disclosures = ws.disclosures, UNCHANGED <<ws, shown, interrupts>>
      PROVE  ShowInv'
  <2>1. pc'[p] = "load_chain" /\ op'[p].ws = w
    BY <1>1, <1>t, CommitHand
  <2>2. ~Owing(p)'
    BY <1>1, <2>1 DEF Owing
  <2> QED
    BY <1>0, <1>1, <2>2, ShowStays
<1>2. ASSUME NEW v \in Venture, SetVenture(p, v) PROVE ShowInv'
  <2>1. [ws EXCEPT !.venture = v].disclosures = ws.disclosures
    BY <1>t DEF Workspaces
  <2> QED
    BY <1>2, <2>1, <1>1 DEF SetVenture, durable, history
<1>3. ASSUME NEW c \in Customer, AddCustomer(p, c) PROVE ShowInv'
  <2>1. [ws EXCEPT !.customers = @ \cup {c}].disclosures = ws.disclosures
    BY <1>t DEF Workspaces
  <2> QED
    BY <1>3, <2>1, <1>1 DEF AddCustomer, durable, bounds
<1>4. ASSUME NEW d \in Document, CreateDocument(p, d) \/ ConfirmDelivery(p, d) \/ RevokeDelivery(p, d)
      PROVE  ShowInv'
  <2>1. ASSUME NEW s PROVE [ws EXCEPT !.documents[d] = s].disclosures = ws.disclosures
    BY <1>t DEF Workspaces
  <2> QED
    BY <1>4, <2>1, <1>1 DEF CreateDocument, ConfirmDelivery, RevokeDelivery, durable, history, bounds
<1>5. ASSUME NEW d \in Document, NEW a \in Approval, RequestSend(p, d, a) PROVE ShowInv'
  <2> DEFINE w == [ws EXCEPT !.documents[d] = "PendingApproval",
                             !.approvals[a] = [document |-> d, status |-> "Pending",
                                               evidence |-> None]]
  <2>1. w.disclosures = ws.disclosures
    BY <1>t DEF Workspaces
  <2>2. \E e : Commit(p, w, e, "idle")
    BY <1>5 DEF RequestSend
  <2>3. pc[p] = "idle" /\ UNCHANGED <<ws, shown, interrupts>>
    BY <1>5 DEF RequestSend, durable, bounds
  <2> HIDE DEF w
  <2> QED
    BY <2>1, <2>2, <2>3, <1>1
<1>6. ASSUME NEW a \in Approval, Reject(p, a) PROVE ShowInv'
  <2> DEFINE w == [ws EXCEPT !.approvals[a].status = "Rejected",
                             !.documents[ws.approvals[a].document] = "Rejected"]
  <2>1. w.disclosures = ws.disclosures
    BY <1>t DEF Workspaces
  <2>2. \E e : Commit(p, w, e, "idle")
    BY <1>6 DEF Reject
  <2>3. pc[p] = "idle" /\ UNCHANGED <<ws, shown, interrupts>>
    BY <1>6 DEF Reject, durable, history, bounds
  <2> HIDE DEF w
  <2> QED
    BY <2>1, <2>2, <2>3, <1>1
<1>7. ASSUME NEW c \in Customer, DraftAssistant(p, c) PROVE ShowInv'
  <2>1. /\ pc[p] = "idle" /\ shown' = shown + 1 /\ UNCHANGED <<ws, interrupts>>
    BY <1>7 DEF DraftAssistant, durable
  <2>2. pc'[p] = "disclose"
    BY <1>7, <1>t DEF DraftAssistant, GoTo
  <2>3. Owed = 0 /\ Owed' = 1
    BY <2>1, <2>2, <1>0, OwedAlone DEF Owing
  <2> QED
    BY <2>1, <2>3, <1>t DEF ShowInv
<1>8. ASSUME NEW a \in Approval, Approve(p, a) PROVE ShowInv'
  <2>1. flow[a].completed \in 0 .. 2
    BY <1>t DEF TypeOK, Checkpoint
  <2>2. /\ pc'[p] \in {"execute", "commit_step", "done"} /\ pc[p] = "idle"
        /\ UNCHANGED <<ws, shown, interrupts>>
    BY <1>8, <2>1, <1>t DEF Approve, GoTo, durable, history, bounds
  <2>3. ~Owing(p)'
    BY <2>2 DEF Owing, Saving, CommitLabels
  <2> QED
    BY <2>2, <2>3, <1>0, ShowStays
<1>9. ASSUME Export(p) PROVE ShowInv'
  <2>1. <<Ev("workspace.export", "workspace:all")>> \in Seq(Event)
    BY EventType DEF Action, Resource
  <2>2. pc[p] = "idle" /\ op[p].next = "no_save" /\ UNCHANGED <<ws, shown, interrupts>>
    BY <1>9 DEF Export, AuditInv, ITypeOK, Located, NoOp, durable, history
  <2>3. pc'[p] = "load_chain" /\ op'[p].next = "no_save"
    BY <1>9, <2>1, <2>2, <1>t, RecordType DEF Export
  <2>4. ~Owing(p)'
    BY <2>3 DEF Owing, Saving
  <2> QED
    BY <2>2, <2>4, <1>0, ShowStays
<1> QED
  BY <1>2, <1>3, <1>4, <1>5, <1>6, <1>7, <1>8, <1>9 DEF Request

\* The showing is logged by the save of its own commit.
LEMMA ContinueShow ==
  ASSUME SingleServer, AuditInv, EditInv, ShowInv, NEW p \in Server, Continue(p)
  PROVE  ShowInv'
<1>t. /\ TypeOK /\ ws \in Workspaces /\ pc \in [Server -> Labels] /\ op \in [Server -> Operation]
      /\ op[p] \in Operation /\ shown \in Nat /\ interrupts \in Nat /\ ws.disclosures \in Nat
  BY DEF AuditInv, ITypeOK, TypeOK, Workspaces
<1>l. Located(p) /\ InHand(p)
  BY DEF AuditInv, ITypeOK, EditInv
<1>1. ASSUME Disclose(p) PROVE ShowInv'
  <2> DEFINE w == [ws EXCEPT !.disclosures = @ + 1]
  <2>1. w.disclosures = ws.disclosures + 1
    BY <1>t DEF Workspaces
  <2>2. \E e : Commit(p, w, e, "idle")
    BY <1>1 DEF Disclose
  <2>3. pc[p] = "disclose" /\ UNCHANGED <<ws, shown, interrupts>>
    BY <1>1 DEF Disclose, durable, history, bounds
  <2> HIDE DEF w
  <2>4. pc'[p] = "load_chain" /\ op'[p].ws = w /\ op'[p].next = "idle"
    BY <2>2, <1>t, CommitHand
  <2>5. w.disclosures # ws.disclosures
    BY <2>1, <1>t
  <2>6. Owing(p) /\ Owing(p)'
    BY <2>3, <2>4, <2>5 DEF Owing, Saving, CommitLabels
  <2> QED
    BY <2>3, <2>6, ShowStays
<1>2. ASSUME \/ ComposeSend(p) \/ RunKernel(p) \/ WriteOutbox(p) \/ WriteRecord(p)
             \/ PersistExecute(p) \/ PersistCommit(p) \/ PersistDone(p)
      PROVE  ShowInv'
  <2>1. pc[p] \in SendLabels /\ pc'[p] \in SendLabels \cup {"idle"}
    BY <1>2, <1>t DEF ComposeSend, RunKernel, WriteOutbox, WriteRecord, PersistExecute,
                      PersistCommit, PersistDone, Finish, GoTo, SendLabels
  <2>2. UNCHANGED <<ws, shown, interrupts>>
    BY <1>2 DEF ComposeSend, RunKernel, WriteOutbox, WriteRecord, PersistExecute,
                PersistCommit, PersistDone, durable, history, bounds
  <2>3. ~Owing(p) /\ ~Owing(p)'
    BY <2>1 DEF Owing, Saving, SendLabels, CommitLabels
  <2> QED
    BY <2>2, <2>3, ShowStays
<1>3. ASSUME CommitDecision(p) PROVE ShowInv'
  <2> DEFINE a == op[p].subject
             d == ws.approvals[a].document
             w == [ws EXCEPT !.approvals[a].status = "Approved",
                             !.approvals[a].evidence = flow[a].record,
                             !.documents[d] = "ApprovedPendingDelivery"]
  <2>1. pc[p] = "commit_step" /\ UNCHANGED <<ws, shown, interrupts>>
    BY <1>3 DEF CommitDecision, durable, history, bounds
  <2>2. w.disclosures = ws.disclosures
    BY <1>t DEF Workspaces
  <2>3. Finish(p) \/ GoTo(p, "commit_receipt") \/ \E e : Commit(p, w, e, "commit_receipt")
    BY <1>3 DEF CommitDecision
  <2> HIDE DEF w
  <2>4. \/ pc'[p] \in {"idle", "commit_receipt"}
        \/ pc'[p] = "load_chain" /\ op'[p].ws = w
    BY <2>3, <1>t, CommitHand DEF Finish, GoTo
  <2>5. ~Owing(p) /\ ~Owing(p)'
    BY <2>1, <2>2, <2>4 DEF Owing, Saving, CommitLabels
  <2> QED
    BY <2>1, <2>5, ShowStays
<1>4. ASSUME LoadChain(p) PROVE ShowInv'
  <2> DEFINE o == [op[p] EXCEPT !.chain = ledger]
  <2>1. o.next = op[p].next /\ o.ws = op[p].ws
    BY <1>t DEF Operation
  <2>2. /\ op'[p] = o /\ pc[p] = "load_chain" /\ pc'[p] = "save_chain"
        /\ UNCHANGED <<ws, shown, interrupts>>
    BY <1>4, <1>t DEF LoadChain, GoTo, durable, history, bounds
  <2> HIDE DEF o
  <2>3. Owing(p)' <=> Owing(p)
    BY <2>1, <2>2 DEF Owing, Saving, CommitLabels
  <2> QED
    BY <2>2, <2>3, ShowStays
<1>5. ASSUME SaveChain(p) PROVE ShowInv'
  <2>1. pc[p] = "save_chain" /\ UNCHANGED <<ws, shown, interrupts>>
    BY <1>5 DEF SaveChain, bounds
  <2>2. CASE op[p].next = "no_save"
    <3>1. pc'[p] = "idle"
      BY <1>5, <2>2, <1>t DEF SaveChain, Finish, GoTo
    <3>2. ~Owing(p) /\ ~Owing(p)'
      BY <2>1, <2>2, <3>1 DEF Owing, Saving, CommitLabels
    <3> QED
      BY <2>1, <3>2, ShowStays
  <2>3. CASE op[p].next # "no_save"
    <3>1. pc'[p] = "save_vault" /\ op'[p] = op[p]
      BY <1>5, <2>3, <1>t DEF SaveChain, GoTo
    <3>2. Owing(p)' <=> Owing(p)
      BY <2>1, <3>1 DEF Owing, Saving, CommitLabels
    <3> QED
      BY <2>1, <3>2, ShowStays
  <2> QED
    BY <2>2, <2>3
<1>6. ASSUME SaveVault(p) PROVE ShowInv'
  <2>1. /\ ws' = op[p].ws /\ pc[p] = "save_vault" /\ op[p].next # "no_save"
        /\ UNCHANGED <<shown, interrupts>>
    BY <1>6, <1>l DEF SaveVault, Located, bounds
  <2>2. Edit(ws, op[p].ws, op[p].events, op[p].next, op[p].subject, flow)
    BY <2>1, <1>l DEF InHand, Saving, CommitLabels
  <2>3. op[p].ws.disclosures \in {ws.disclosures, ws.disclosures + 1}
    BY <2>2 DEF Edit, SmallEdit, Plain, Joins, Alone, Asks, Rejects, Grants, Moved
  <2>4. pc'[p] \in {"idle", "commit_receipt"}
    BY <1>6, <1>l, <1>t DEF SaveVault, Finish, GoTo, Operation, Located
  <2>5. Owed' = 0
    BY <2>4, OwedAlone DEF Owing, Saving, CommitLabels
  <2>6. Owed = IF op[p].ws.disclosures # ws.disclosures THEN 1 ELSE 0
    BY <2>1, OwedAlone DEF Owing, Saving, CommitLabels
  <2>7. op[p].ws.disclosures = ws.disclosures + Owed
    BY <2>3, <2>6, <1>t
  <2> QED
    BY <2>1, <2>5, <2>6, <2>7, <1>t DEF ShowInv
<1> QED
  BY <1>1, <1>2, <1>3, <1>4, <1>5, <1>6 DEF Continue

LEMMA InitShow == SingleServer /\ Init => ShowInv
<1> SUFFICES ASSUME Init PROVE ShowInv
  OBVIOUS
<1>1. Owed = 0
  BY DEF Init, Owed, Owing, Saving, CommitLabels
<1> QED
  BY <1>1 DEF Init, EmptyWorkspace, ShowInv

LEMMA StepShow ==
  SingleServer /\ AuditInv /\ EditInv /\ ShowInv /\ [Next]_vars => ShowInv'
<1> SUFFICES ASSUME SingleServer, AuditInv, EditInv, ShowInv, [Next]_vars PROVE ShowInv'
  OBVIOUS
<1>t. /\ pc \in [Server -> Labels] /\ shown \in Nat /\ interrupts \in Nat /\ ws.disclosures \in Nat
  BY DEF AuditInv, ITypeOK, TypeOK, Workspaces
<1>1. ASSUME NEW p \in Server, Interrupt(p) PROVE ShowInv'
  <2>1. pc'[p] = "idle" /\ interrupts' = interrupts + 1 /\ UNCHANGED <<ws, shown>>
    BY <1>1, <1>t DEF Interrupt, Finish, GoTo, durable, history
  <2>2. Owed' = 0 /\ Owed \in {0, 1}
    BY <2>1, OwedAlone DEF Owing, Saving, CommitLabels
  <2> QED
    BY <2>1, <2>2, <1>t DEF ShowInv
<1>2. CASE AuditReadState \/ AuditReadChain \/ UNCHANGED vars
  <2>1. UNCHANGED <<ws, shown, interrupts, pc, op>>
    BY <1>2 DEF AuditReadState, AuditReadChain, vars, durable, process, history, bounds
  <2>2. Owed' = Owed
    BY <2>1 DEF Owed, Owing, Saving
  <2> QED
    BY <2>1, <2>2 DEF ShowInv
<1> QED
  BY <1>1, <1>2, RequestShow, ContinueShow DEF Next

\* One server process: the log names no showing that did not happen, and lacks
\* at most one for each interruption.
THEOREM LogAccountsForShowings == ASSUME SingleServer PROVE Spec => []ShowingsAreLogged
<1>1. AuditInv /\ ShowInv => ShowingsAreLogged
  <2> SUFFICES ASSUME AuditInv, ShowInv, Quiet PROVE ws.disclosures <= shown /\ shown <= ws.disclosures + interrupts
    BY DEF ShowingsAreLogged
  <2>1. Owed = 0
    BY DEF Quiet, Owed, Owing, Saving, CommitLabels
  <2>2. ws.disclosures \in Nat /\ interrupts \in Nat
    BY DEF AuditInv, ITypeOK, TypeOK, Workspaces
  <2> QED
    BY <2>1, <2>2 DEF ShowInv
<1> QED
  BY <1>1, InitAudit, StepAudit, InitEdit, StepEdit, InitShow, StepShow, PTL DEF Spec

------------------------------------------------------------------------------
(* The tail of the chain.                                                   *)

Reported == {"customer.create", "effect.file_written", "effect.revoked", "delivery.confirmed"}

\* While the newest operation on the chain is not in the vault, the audit sees
\* its last event, or the grant two events before it.
CutInv ==
  torn => /\ ledger # <<>>
          /\ ledger[Len(ledger)].action \in Reported => TailTorn(ws, ledger)

\* The end of a chain to which events were appended.
LEMMA EndOf ==
  ASSUME NEW c \in Seq(Event), NEW e \in Seq(Event), e # <<>>
  PROVE  /\ c \o e \in Seq(Event) /\ c \o e # <<>>
         /\ Len(c \o e) = Len(c) + Len(e) /\ Len(e) \in Nat \ {0} /\ Len(c) \in Nat
         /\ \A k \in 1 .. Len(e) : Len(c) + k \in DOMAIN (c \o e) /\ (c \o e)[Len(c) + k] = e[k]
         /\ \A k \in DOMAIN c : k \in DOMAIN (c \o e) /\ (c \o e)[k] = c[k]
         /\ \A k \in DOMAIN (c \o e) :
              k \in DOMAIN c \/ \E j \in 1 .. Len(e) : k = Len(c) + j
<1>1. Len(e) \in Nat \ {0}
  BY EmptySeq
<1>2. c \o e \in Seq(Event) /\ Len(c \o e) = Len(c) + Len(e) /\ Len(c) \in Nat
  OBVIOUS
<1>3. \A k \in 1 .. Len(e) : Len(c) + k \in DOMAIN (c \o e) /\ (c \o e)[Len(c) + k] = e[k]
  BY <1>1, <1>2
<1>4. \A k \in DOMAIN c : k \in DOMAIN (c \o e) /\ (c \o e)[k] = c[k]
  BY <1>1, <1>2
<1>5. ASSUME NEW k \in DOMAIN (c \o e), k \notin DOMAIN c
      PROVE  \E j \in 1 .. Len(e) : k = Len(c) + j
  <2>1. k \in 1 .. Len(c) + Len(e) /\ k \notin 1 .. Len(c)
    BY <1>2, <1>5
  <2>2. k - Len(c) \in 1 .. Len(e) /\ k = Len(c) + (k - Len(c))
    BY <1>1, <1>2, <2>1
  <2> QED
    BY <2>2
<1>6. c \o e # <<>>
  BY <1>1, <1>2, EmptySeq
<1> QED
  BY <1>1, <1>2, <1>3, <1>4, <1>5, <1>6

\* An edit on the chain whose last event is one the audit looks at shows in the
\* tail, as long as the vault is the one it was computed from.
LEMMA EditShows ==
  ASSUME NEW w \in Workspaces, NEW c \in Seq(Event), NEW n, NEW e \in Seq(Event),
         NEW next, NEW a, NEW f, Edit(w, n, e, next, a, f)
  PROVE  LET all == c \o e IN
         /\ all # <<>>
         /\ all[Len(all)].action \in Reported => TailTorn(w, all)
<1> DEFINE all == c \o e
<1>ev. \A x, r : Ev(x, r).action = x /\ Ev(x, r).resource = r
  BY DEF Ev
<1>one. ASSUME NEW x, NEW r, e = <<Ev(x, r)>>
        PROVE  /\ e # <<>> /\ Len(e) = 1 /\ all # <<>> /\ Len(all) \in DOMAIN all
               /\ Len(all) \in Nat /\ all[Len(all)] = Ev(x, r)
  <2>1. e # <<>> /\ Len(e) = 1 /\ e[1] = Ev(x, r) /\ 1 \in 1 .. Len(e)
    BY <1>one
  <2>2. /\ all # <<>> /\ Len(all) = Len(c) + 1 /\ Len(c) \in Nat
        /\ Len(c) + 1 \in DOMAIN all /\ all[Len(c) + 1] = e[1]
    BY <2>1, EndOf
  <2> QED
    BY <2>1, <2>2
<1>last. ASSUME NEW x, NEW r, e = <<Ev(x, r)>>, Unlanded(w, Ev(x, r)) PROVE TailTorn(w, all)
  <2>1. Len(all) \in DOMAIN all /\ Len(all) \in Nat /\ all[Len(all)] = Ev(x, r)
    BY <1>last, <1>one
  <2> HIDE DEF all
  <2>2. \A j \in Len(all) .. Len(all) : all[j].resource = all[Len(all)].resource
    BY <2>1
  <2>3. Unlanded(w, all[Len(all)])
    BY <2>1, <1>last
  <2> QED
    BY <2>1, <2>2, <2>3 DEF TailTorn
<1>1. CASE Plain(w, n, e)
  <2>1. \E x, r : e = <<Ev(x, r)>> /\ x \notin Reported
    BY <1>1 DEF Plain, Reported
  <2> QED
    BY <2>1, <1>one, <1>ev
<1>2. CASE \E y \in Customer : Joins(w, n, e, y)
  <2>1. PICK y \in Customer : e = <<Ev("customer.create", y)>> /\ y \notin w.customers
    BY <1>2 DEF Joins
  <2>2. Unlanded(w, Ev("customer.create", y))
    BY <2>1, <1>ev DEF Unlanded
  <2> QED
    BY <2>1, <2>2, <1>one, <1>last
<1>3. CASE \E d \in Document : Alone(w, n, e, d)
  <2>1. PICK d \in Document : Alone(w, n, e, d)
    BY <1>3
  <2>2. CASE e = <<Ev("document.draft", d)>>
    BY <2>2, <1>one, <1>ev DEF Reported
  <2>3. CASE w.documents[d] = "ApprovedPendingDelivery" /\ e = <<Ev("effect.revoked", d)>>
    <3>1. Unlanded(w, Ev("effect.revoked", d))
      BY <2>3, <1>ev DEF Unlanded
    <3> QED
      BY <2>3, <3>1, <1>one, <1>last
  <2>4. CASE w.documents[d] = "ApprovedPendingDelivery" /\ e = <<Ev("delivery.confirmed", d)>>
    <3>1. Unlanded(w, Ev("delivery.confirmed", d))
      BY <2>4, <1>ev DEF Unlanded
    <3> QED
      BY <2>4, <3>1, <1>one, <1>last
  <2> QED
    BY <2>1, <2>2, <2>3, <2>4 DEF Alone, Moved
<1>4. CASE \E d \in Document, x \in Approval : Asks(w, n, e, d, x) \/ Rejects(w, n, e, d, x)
  <2>1. \E x, r : e = <<Ev(x, r)>> /\ x \notin Reported
    BY <1>4 DEF Asks, Rejects, Reported
  <2> QED
    BY <2>1, <1>one, <1>ev
<1>5. CASE \E d \in Document : Grants(w, n, e, d, a, f[a])
  <2>1. PICK d \in Document :
          /\ e = <<Ev("approval.granted", d), Ev("capability.executed", d), Ev("effect.file_written", d)>>
          /\ w.documents[d] = "PendingApproval"
    BY <1>5 DEF Grants, Moved
  <2>2. /\ Len(e) = 3 /\ e # <<>> /\ e[1] = Ev("approval.granted", d)
        /\ e[2] = Ev("capability.executed", d) /\ e[3] = Ev("effect.file_written", d)
    BY <2>1
  <2>3. /\ all # <<>> /\ Len(all) = Len(c) + 3 /\ Len(c) \in Nat
        /\ Len(c) + 1 \in DOMAIN all
        /\ all[Len(c) + 1] = e[1] /\ all[Len(c) + 2] = e[2] /\ all[Len(c) + 3] = e[3]
    <3>1. 1 \in 1 .. Len(e) /\ 2 \in 1 .. Len(e) /\ 3 \in 1 .. Len(e)
      BY <2>2
    <3>2. /\ all # <<>> /\ Len(all) = Len(c) + Len(e) /\ Len(c) \in Nat
          /\ \A k \in 1 .. Len(e) : Len(c) + k \in DOMAIN all /\ all[Len(c) + k] = e[k]
      BY <2>2, EndOf
    <3> HIDE DEF all
    <3> QED
      BY <2>2, <3>1, <3>2
  <2>4. \A j \in Len(c) + 1 .. Len(all) : all[j].resource = all[Len(all)].resource
    <3> SUFFICES ASSUME NEW j \in Len(c) + 1 .. Len(all)
                 PROVE  all[j].resource = all[Len(all)].resource
      OBVIOUS
    <3> HIDE DEF all
    <3>1. j \in {Len(c) + 1, Len(c) + 2, Len(c) + 3}
      BY <2>3
    <3> QED
      BY <2>2, <2>3, <3>1, <1>ev
  <2>5. Unlanded(w, all[Len(c) + 1])
    BY <2>1, <2>2, <2>3, <1>ev DEF Unlanded, Granted
  <2>6. TailTorn(w, all)
    BY <2>3, <2>4, <2>5 DEF TailTorn
  <2> QED
    BY <2>3, <2>6
<1> QED
  BY <1>1, <1>2, <1>3, <1>4, <1>5 DEF Edit, SmallEdit

LEMMA StepCut == AuditInv /\ EditInv /\ CutInv /\ [Next]_vars => CutInv'
<1> SUFFICES ASSUME AuditInv, EditInv, CutInv, [Next]_vars PROVE CutInv'
  OBVIOUS
<1>t. ws \in Workspaces /\ ledger \in Seq(Event) /\ op \in [Server -> Operation]
  BY DEF AuditInv, ITypeOK, TypeOK
<1>1. ASSUME NEW p \in Server, SaveChain(p) PROVE CutInv'
  <2> DEFINE e == op[p].events
  <2>1. /\ pc[p] = "save_chain" /\ UNCHANGED ws /\ e \in Seq(Event)
        /\ op[p].chain = ledger /\ InHand(p)
    BY <1>1, <1>t DEF SaveChain, AuditInv, InFlight, EditInv, Operation
  <2>2. ledger' = ledger \o e
    BY <1>1, <2>1 DEF SaveChain
  <2>3. CASE op[p].next # "no_save"
    <3>1. Edit(ws, op[p].ws, e, op[p].next, op[p].subject, flow)
      BY <2>1, <2>3 DEF InHand, Saving, CommitLabels
    <3>2. ledger' # <<>> /\ (ledger'[Len(ledger')].action \in Reported => TailTorn(ws, ledger'))
      BY <2>1, <2>2, <3>1, <1>t, EditShows
    <3> QED
      BY <2>1, <3>2 DEF CutInv, TailTorn
  <2>4. CASE op[p].next = "no_save"
    <3>1. e = <<Ev("workspace.export", "workspace:all")>>
      BY <2>1, <2>4 DEF InHand, CommitLabels
    <3>2. e # <<>> /\ Len(e) = 1 /\ e[1].action = "workspace.export" /\ 1 \in 1 .. Len(e)
      BY <3>1 DEF Ev
    <3> HIDE DEF e
    <3>3. /\ ledger \o e # <<>> /\ Len(ledger \o e) = Len(ledger) + Len(e)
          /\ \A k \in 1 .. Len(e) : (ledger \o e)[Len(ledger) + k] = e[k]
      BY <2>1, <3>2, <1>t, EndOf
    <3>4. /\ ledger' # <<>> /\ Len(ledger') = Len(ledger) + 1
          /\ ledger'[Len(ledger) + 1] = e[1]
      BY <2>2, <3>2, <3>3
    <3> QED
      BY <3>2, <3>4 DEF CutInv, Reported
  <2> QED
    BY <2>3, <2>4
<1>2. ASSUME NEW p \in Server, SaveVault(p) PROVE CutInv'
  BY <1>2 DEF SaveVault, CutInv
<1>3. CASE UNCHANGED <<ws, ledger, torn>>
  BY <1>3 DEF CutInv, TailTorn
<1>4. CASE \E p \in Server : Request(p) \/ Interrupt(p)
  BY <1>4, <1>3, ZenonT(30) DEF Request, Interrupt, SetVenture, AddCustomer, DraftAssistant, CreateDocument,
       RequestSend, Reject, RevokeDelivery, ConfirmDelivery, Export, Approve, durable, history
<1>5. ASSUME NEW p \in Server, Continue(p) PROVE CutInv'
  BY <1>1, <1>2, <1>3, <1>5 DEF Continue, Disclose, ComposeSend, RunKernel, WriteOutbox,
       WriteRecord, PersistExecute, CommitDecision, PersistCommit, PersistDone, LoadChain,
       durable, history
<1>6. CASE AuditReadState \/ AuditReadChain \/ UNCHANGED vars
  BY <1>3, <1>6 DEF AuditReadState, AuditReadChain, durable, history, vars
<1> QED
  BY <1>4, <1>5, <1>6 DEF Next

\* One server process: whatever else the chain says of the same customer or
\* document, an operation cut off between its two writes is reported.
THEOREM CutOffMovesAreReported == ASSUME SingleServer PROVE Spec => []CutOffMoveIsReported
<1>1. Init => CutInv
  BY DEF Init, CutInv
<1>2. CutInv => CutOffMoveIsReported
  BY DEF CutInv, CutOffMoveIsReported, Reported
<1> QED
  BY <1>1, <1>2, InitAudit, StepAudit, InitEdit, StepEdit, StepCut, PTL DEF Spec

------------------------------------------------------------------------------
(* Without an interruption.                                                 *)

Decisive == {"approval.granted", "effect.revoked", "delivery.confirmed"}

\* Every event of the chain has its state in the workspace w.
Landed(w, chain) ==
  \A i \in DOMAIN chain :
    /\ chain[i].action \in Decisive => chain[i].resource \in Document
    /\ ~Unlanded(w, chain[i])

\* Server p has put the outbox file of d there and not yet signed for it.
Composing(p, d) ==
  /\ \/ pc[p] \in {"write_record", "execute_receipt", "commit_step"}
     \/ pc[p] \in {"load_chain", "save_chain"} /\ op[p].next = "commit_receipt"
  /\ ws.approvals[op[p].subject].document = d

Accounted(d) ==
  outbox[d] # None =>
    Has(ledger, "effect.file_written", d) \/ \E p \in Server : Composing(p, d)

CleanInv ==
  interrupts = 0 =>
    /\ (\A p \in Server : pc[p] # "save_vault") => Landed(ws, ledger)
    /\ \A p \in Server : pc[p] = "save_vault" => Landed(op[p].ws, ledger)
    /\ \A d \in Document : Accounted(d)

\* An edit undoes no event that has landed: a customer stays, a granted
\* document stays granted, a revoked or delivered one moves no more.
LEMMA EditKeepsLanded ==
  ASSUME NEW w \in Workspaces, NEW c \in Seq(Event), Landed(w, c), NEW n, NEW e, NEW next, NEW a,
         NEW f, Edit(w, n, e, next, a, f)
  PROVE  Landed(n, c)
<1> SUFFICES ASSUME NEW i \in DOMAIN c
             PROVE  /\ c[i].action \in Decisive => c[i].resource \in Document
                    /\ ~Unlanded(n, c[i])
  BY DEF Landed
<1> DEFINE r == c[i].resource
<1>1. /\ c[i].action \in Decisive => r \in Document
      /\ ~Unlanded(w, c[i])
  BY DEF Landed
<1>2. w.customers \subseteq n.customers
  BY DEF Edit, SmallEdit, Plain, Joins, Alone, Asks, Rejects, Grants, Moved
<1>3. \/ n.documents = w.documents
      \/ \E d \in Document :
           \/ Moved(w, n, d, "absent", "Draft") \/ Moved(w, n, d, "Draft", "PendingApproval")
           \/ Moved(w, n, d, "PendingApproval", "Rejected")
           \/ Moved(w, n, d, "PendingApproval", "ApprovedPendingDelivery")
           \/ Moved(w, n, d, "ApprovedPendingDelivery", "Revoked")
           \/ Moved(w, n, d, "ApprovedPendingDelivery", "Delivered")
  BY DEF Edit, SmallEdit, Plain, Joins, Alone, Asks, Rejects, Grants
<1>4. w.documents \in [Document -> DocumentStatus]
  BY DEF Workspaces
<1>5. ASSUME r \in Document
      PROVE  /\ w.documents[r] \in Granted => n.documents[r] \in Granted
             /\ w.documents[r] = "Revoked" => n.documents[r] = "Revoked"
             /\ w.documents[r] = "Delivered" => n.documents[r] = "Delivered"
  <2>1. CASE n.documents = w.documents
    BY <2>1
  <2>2. ASSUME NEW d \in Document, NEW from, NEW to, Moved(w, n, d, from, to),
               from \notin {"Revoked", "Delivered"},
               from \notin Granted \/ to \in Granted
        PROVE  /\ w.documents[r] \in Granted => n.documents[r] \in Granted
               /\ w.documents[r] = "Revoked" => n.documents[r] = "Revoked"
               /\ w.documents[r] = "Delivered" => n.documents[r] = "Delivered"
    <3>1. /\ w.documents[d] = from
          /\ \A x \in Document : n.documents[x] = IF x = d THEN to ELSE w.documents[x]
      BY <2>2, <1>4 DEF Moved
    <3> HIDE DEF r
    <3> QED
      BY <2>2, <3>1, <1>5
  <2> HIDE DEF r
  <2> QED
    BY <2>1, <2>2, <1>3 DEF Granted
<1> QED
  BY <1>1, <1>2, <1>5 DEF Unlanded, Decisive

\* The events of an edit land in the workspace they come with.
LEMMA EditLands ==
  ASSUME NEW w \in Workspaces, NEW n, NEW e \in Seq(Event), NEW next, NEW a, NEW f,
         Edit(w, n, e, next, a, f)
  PROVE  e # <<>> /\ Landed(n, e)
<1>t. w.documents \in [Document -> DocumentStatus]
  BY DEF Workspaces
<1>ev. \A x, r : Ev(x, r).action = x /\ Ev(x, r).resource = r
  BY DEF Ev
<1>one. ASSUME NEW x, NEW r, e = <<Ev(x, r)>>, x \in Decisive => r \in Document,
               ~Unlanded(n, Ev(x, r))
        PROVE  e # <<>> /\ Landed(n, e)
  <2>1. e # <<>> /\ DOMAIN e = {1} /\ e[1] = Ev(x, r)
    BY <1>one
  <2> QED
    BY <2>1, <1>one, <1>ev DEF Landed
<1>to. \A d \in Document : \A from, to : Moved(w, n, d, from, to) => n.documents[d] = to
  BY <1>t DEF Moved
<1>1. CASE Plain(w, n, e)
  <2>1. PICK x, r : x \in {"venture.update", "model.drafted"} /\ e = <<Ev(x, r)>>
    BY <1>1 DEF Plain
  <2>2. ~Unlanded(n, Ev(x, r)) /\ x \notin Decisive
    BY <2>1, <1>ev DEF Unlanded, Decisive
  <2> QED
    BY <2>1, <2>2, <1>one
<1>2. CASE \E y \in Customer : Joins(w, n, e, y)
  <2>1. PICK y \in Customer : e = <<Ev("customer.create", y)>> /\ n.customers = w.customers \cup {y}
    BY <1>2 DEF Joins
  <2>2. ~Unlanded(n, Ev("customer.create", y))
    BY <2>1, <1>ev DEF Unlanded
  <2> QED
    BY <2>1, <2>2, <1>one DEF Decisive
<1>3. CASE \E d \in Document : Alone(w, n, e, d)
  <2>1. PICK d \in Document : Alone(w, n, e, d)
    BY <1>3
  <2>2. CASE e = <<Ev("document.draft", d)>>
    <3>1. ~Unlanded(n, Ev("document.draft", d))
      BY <1>ev DEF Unlanded
    <3> QED
      BY <2>2, <3>1, <1>one
  <2>3. CASE n.documents[d] = "Revoked" /\ e = <<Ev("effect.revoked", d)>>
    <3>1. ~Unlanded(n, Ev("effect.revoked", d))
      BY <2>3, <1>ev DEF Unlanded
    <3> QED
      BY <2>3, <3>1, <1>one
  <2>4. CASE n.documents[d] = "Delivered" /\ e = <<Ev("delivery.confirmed", d)>>
    <3>1. ~Unlanded(n, Ev("delivery.confirmed", d))
      BY <2>4, <1>ev DEF Unlanded
    <3> QED
      BY <2>4, <3>1, <1>one
  <2> QED
    BY <2>1, <2>2, <2>3, <2>4, <1>to DEF Alone
<1>4. CASE \E d \in Document, x \in Approval : Asks(w, n, e, d, x) \/ Rejects(w, n, e, d, x)
  <2>1. PICK x, r : x \in {"approval.requested", "approval.rejected"} /\ e = <<Ev(x, r)>>
    BY <1>4 DEF Asks, Rejects
  <2>2. ~Unlanded(n, Ev(x, r)) /\ x \notin Decisive
    BY <2>1, <1>ev DEF Unlanded, Decisive
  <2> QED
    BY <2>1, <2>2, <1>one
<1>5. CASE \E d \in Document : Grants(w, n, e, d, a, f[a])
  <2>1. PICK d \in Document :
          /\ e = <<Ev("approval.granted", d), Ev("capability.executed", d), Ev("effect.file_written", d)>>
          /\ n.documents[d] = "ApprovedPendingDelivery"
    BY <1>5, <1>to DEF Grants
  <2>2. /\ e # <<>> /\ DOMAIN e = {1, 2, 3} /\ e[1] = Ev("approval.granted", d)
        /\ e[2] = Ev("capability.executed", d) /\ e[3] = Ev("effect.file_written", d)
    BY <2>1
  <2>3. \A i \in {1, 2, 3} : ~Unlanded(n, e[i]) /\ e[i].resource = d
    BY <2>1, <2>2, <1>ev DEF Unlanded, Granted
  <2> QED
    BY <2>2, <2>3 DEF Landed
<1> QED
  BY <1>1, <1>2, <1>3, <1>4, <1>5 DEF Edit, SmallEdit

LEMMA LandedJoins ==
  ASSUME NEW w, NEW c \in Seq(Event), NEW e \in Seq(Event), e # <<>>, Landed(w, c), Landed(w, e)
  PROVE  Landed(w, c \o e)
<1> SUFFICES ASSUME NEW i \in DOMAIN (c \o e)
             PROVE  /\ (c \o e)[i].action \in Decisive => (c \o e)[i].resource \in Document
                    /\ ~Unlanded(w, (c \o e)[i])
  BY DEF Landed
<1>1. CASE i \in DOMAIN c
  <2>1. (c \o e)[i] = c[i]
    BY <1>1, EndOf
  <2> QED
    BY <1>1, <2>1 DEF Landed
<1>2. CASE i \notin DOMAIN c
  <2>1. PICK j \in 1 .. Len(e) : i = Len(c) + j
    BY <1>2, EndOf
  <2>2. (c \o e)[i] = e[j] /\ j \in DOMAIN e
    BY <2>1, EndOf
  <2> QED
    BY <2>2 DEF Landed
<1> QED
  BY <1>1, <1>2

\* A step within a request that neither saves nor signs: a file it leaves in the
\* outbox is being composed, or was there before and accounted for.
LEMMA CleanStays ==
  ASSUME SingleServer, CleanInv, NEW p \in Server,
         UNCHANGED <<ws, ledger, interrupts>>,
         pc[p] # "save_vault", pc'[p] # "save_vault",
         \A d \in Document : outbox'[d] # None =>
           Composing(p, d)' \/ (outbox[d] # None /\ ~Composing(p, d))
  PROVE  CleanInv'
<1> SUFFICES ASSUME interrupts = 0 PROVE CleanInv'
  BY DEF CleanInv
<1>1. Landed(ws, ledger)'
  <2>1. \A q \in Server : pc[q] # "save_vault"
    BY DEF SingleServer
  <2>2. Landed(ws, ledger)
    BY <2>1 DEF CleanInv
  <2> QED
    BY <2>2 DEF Landed, Unlanded
<1>2. /\ (\A q \in Server : pc'[q] # "save_vault") => Landed(ws, ledger)'
      /\ \A q \in Server : pc'[q] = "save_vault" => Landed(op[q].ws, ledger)'
  BY <1>1 DEF SingleServer
<1>3. ASSUME NEW d \in Document PROVE Accounted(d)'
  <2> SUFFICES ASSUME outbox'[d] # None
               PROVE  Has(ledger, "effect.file_written", d)' \/ \E q \in Server : Composing(q, d)'
    BY DEF Accounted
  <2>1. CASE Composing(p, d)'
    BY <2>1
  <2>2. CASE outbox[d] # None /\ ~Composing(p, d)
    <3>1. Has(ledger, "effect.file_written", d)
      BY <2>2 DEF CleanInv, Accounted, SingleServer
    <3> QED
      BY <3>1 DEF Has
  <2> QED
    BY <2>1, <2>2
<1> QED
  BY <1>2, <1>3 DEF CleanInv

LEMMA IdleComposes ==
  ASSUME NEW p \in Server, NEW d,
         pc[p] \in {"idle", "disclose", "execute", "kernel", "write_outbox", "save_vault",
                    "commit_receipt", "done"}
  PROVE  ~Composing(p, d)
  BY DEF Composing

LEMMA RequestClean ==
  ASSUME SingleServer, AuditInv, CleanInv, NEW p \in Server, Request(p)
  PROVE  CleanInv'
<1>t. TypeOK /\ pc \in [Server -> Labels] /\ outbox \in [Document -> Venture \cup {None}]
  BY DEF AuditInv, ITypeOK, TypeOK
<1>1. pc[p] = "idle" /\ UNCHANGED <<ws, ledger, interrupts>>
  BY DEF Request, SetVenture, AddCustomer, DraftAssistant, CreateDocument, RevokeDelivery,
         ConfirmDelivery, RequestSend, Approve, Reject, Export, durable, bounds
<1>2. pc'[p] # "save_vault"
  <2>1. (\E w, e : Commit(p, w, e, "idle")) => pc'[p] = "load_chain"
    BY <1>t DEF Commit, GoTo
  <2>2. Export(p) => pc'[p] = "load_chain"
    BY <1>t DEF Export, Record, GoTo
  <2>3. (\E c \in Customer : DraftAssistant(p, c)) => pc'[p] = "disclose"
    BY <1>t DEF DraftAssistant, GoTo
  <2>4. ASSUME NEW a \in Approval, Approve(p, a) PROVE pc'[p] # "save_vault"
    <3>1. flow[a].completed \in 0 .. 2
      BY <1>t DEF TypeOK, Checkpoint
    <3> QED
      BY <2>4, <3>1, <1>t DEF Approve, GoTo
  <2> QED
    BY <2>1, <2>2, <2>3, <2>4 DEF Request, SetVenture, AddCustomer, CreateDocument,
       RevokeDelivery, ConfirmDelivery, RequestSend, Reject
<1>3. ASSUME NEW d \in Document PROVE outbox'[d] \in {None, outbox[d]}
  <2>1. CASE \E x \in Document : RevokeDelivery(p, x)
    BY <2>1, <1>t DEF RevokeDelivery
  <2>2. CASE UNCHANGED outbox
    BY <2>2
  <2> QED
    BY <2>1, <2>2 DEF Request, SetVenture, AddCustomer, DraftAssistant, CreateDocument,
           ConfirmDelivery, RequestSend, Approve, Reject, Export, durable
<1>4. \A d \in Document : ~Composing(p, d)
  BY <1>1, IdleComposes
<1> QED
  BY <1>1, <1>2, <1>3, <1>4, CleanStays

LEMMA ContinueClean ==
  ASSUME SingleServer, AuditInv, EditInv, SendInv, CleanInv, NEW p \in Server, Continue(p)
  PROVE  CleanInv'
<1>t. /\ TypeOK /\ ws \in Workspaces /\ ledger \in Seq(Event)
      /\ pc \in [Server -> Labels] /\ op \in [Server -> Operation] /\ op[p] \in Operation
      /\ outbox \in [Document -> Venture \cup {None}]
  BY DEF AuditInv, ITypeOK, TypeOK
<1>l. Located(p) /\ InFlight(p) /\ InHand(p) /\ Sending(p)
  BY DEF AuditInv, ITypeOK, EditInv, SendInv
<1>1. ASSUME Disclose(p) \/ ComposeSend(p) \/ RunKernel(p) \/ PersistCommit(p) \/ PersistDone(p)
      PROVE  CleanInv'
  <2>1. /\ pc[p] \in {"disclose", "execute", "kernel", "commit_receipt", "done"}
        /\ UNCHANGED <<ws, ledger, interrupts>>
    BY <1>1 DEF Disclose, ComposeSend, RunKernel, PersistCommit, PersistDone, durable, bounds
  <2>2. pc'[p] # "save_vault"
    BY <1>1, <1>t DEF Disclose, ComposeSend, RunKernel, PersistCommit, PersistDone, Commit,
                      Finish, GoTo
  <2>3. \A d \in Document : outbox'[d] \in {None, outbox[d]}
    BY <1>1, <1>t DEF Disclose, ComposeSend, RunKernel, PersistCommit, PersistDone, durable
  <2>4. \A d \in Document : ~Composing(p, d)
    BY <2>1, IdleComposes
  <2> QED
    BY <2>1, <2>2, <2>3, <2>4, CleanStays
<1>2. ASSUME WriteOutbox(p) PROVE CleanInv'
  <2> DEFINE d == ws.approvals[op[p].subject].document
  <2>1. /\ pc[p] = "write_outbox" /\ UNCHANGED <<ws, ledger, interrupts, op>>
        /\ outbox' = [outbox EXCEPT ![d] = op[p].record.content]
    BY <1>2 DEF WriteOutbox, bounds
  <2>2. pc'[p] = "write_record"
    BY <1>2, <1>t DEF WriteOutbox, GoTo
  <2>3. Composing(p, d)'
    BY <2>1, <2>2 DEF Composing
  <2>4. \A x \in Document : x = d \/ outbox'[x] = outbox[x]
    BY <2>1, <1>t
  <2>5. \A x \in Document : ~Composing(p, x)
    BY <2>1, IdleComposes
  <2>6. \A x \in Document : x = d => Composing(p, x)'
    BY <2>1, <2>2 DEF Composing
  <2> QED
    BY <2>1, <2>2, <2>4, <2>5, <2>6, CleanStays
<1>3. ASSUME WriteRecord(p) \/ PersistExecute(p) PROVE CleanInv'
  <2>1. /\ pc[p] \in {"write_record", "execute_receipt"}
        /\ UNCHANGED <<ws, ledger, interrupts, op, outbox>>
    BY <1>3 DEF WriteRecord, PersistExecute, bounds
  <2>2. pc'[p] \in {"execute_receipt", "commit_step"}
    BY <1>3, <1>t DEF WriteRecord, PersistExecute, GoTo
  <2>3. \A d \in Document : Composing(p, d) => Composing(p, d)'
    BY <2>1, <2>2 DEF Composing
  <2> QED
    BY <2>1, <2>2, <2>3, CleanStays
<1>4. ASSUME CommitDecision(p) PROVE CleanInv'
  <2> DEFINE a == op[p].subject
  <2>1. /\ pc[p] = "commit_step" /\ UNCHANGED <<ws, ledger, interrupts, outbox>>
    BY <1>4 DEF CommitDecision, durable, bounds
  <2>2. a \in Approval /\ ws.approvals[a].status = "Pending" /\ flow[a].completed = 1
    BY <2>1, <1>l DEF Located, SendLabels, Sending
  <2>3. flow[a].record # None
    BY <2>2 DEF SendInv, Sound, Receipt
  <2>4. \E w, e : Commit(p, w, e, "commit_receipt")
    BY <1>4, <2>2, <2>3 DEF CommitDecision
  <2>5. pc'[p] = "load_chain" /\ op'[p].next = "commit_receipt" /\ op'[p].subject = op[p].subject
    BY <2>4, <1>t, CommitHand
  <2>6. \A d \in Document : Composing(p, d) => Composing(p, d)'
    BY <2>1, <2>5 DEF Composing
  <2> QED
    BY <2>1, <2>5, <2>6, CleanStays
<1>5. ASSUME LoadChain(p) PROVE CleanInv'
  <2> DEFINE o == [op[p] EXCEPT !.chain = ledger]
  <2>1. o.next = op[p].next /\ o.subject = op[p].subject
    BY <1>t DEF Operation
  <2>2. /\ op'[p] = o /\ pc[p] = "load_chain" /\ pc'[p] = "save_chain"
        /\ UNCHANGED <<ws, ledger, interrupts, outbox>>
    BY <1>5, <1>t DEF LoadChain, GoTo, durable, bounds
  <2> HIDE DEF o
  <2>3. \A d \in Document : Composing(p, d) => Composing(p, d)'
    BY <2>1, <2>2 DEF Composing
  <2> QED
    BY <2>2, <2>3, CleanStays
<1>6. ASSUME SaveChain(p) PROVE CleanInv'
  <2> SUFFICES ASSUME interrupts = 0 PROVE CleanInv'
    BY <1>6 DEF SaveChain, bounds, CleanInv
  <2> DEFINE e == op[p].events  n == op[p].ws
  <2>1. /\ pc[p] = "save_chain" /\ UNCHANGED <<ws, outbox, interrupts>>
        /\ ledger' = ledger \o e /\ e \in Seq(Event) /\ Landed(ws, ledger)
    <3>1. \A q \in Server : pc[q] # "save_vault"
      BY <1>6 DEF SaveChain, SingleServer
    <3>2. Landed(ws, ledger)
      BY <3>1 DEF CleanInv
    <3> QED
      BY <1>6, <3>2, <1>l, <1>t DEF SaveChain, InFlight, Operation, bounds
  <2>2. CASE op[p].next = "no_save"
    <3>1. pc'[p] = "idle"
      BY <1>6, <2>2, <1>t DEF SaveChain, Finish, GoTo
    <3>2. e = <<Ev("workspace.export", "workspace:all")>>
      BY <2>1, <2>2, <1>l DEF InHand, CommitLabels
    <3>3. e # <<>> /\ Landed(ws, e)
      <4>1. e # <<>> /\ DOMAIN e = {1} /\ e[1] = Ev("workspace.export", "workspace:all")
        BY <3>2
      <4> QED
        BY <4>1 DEF Landed, Unlanded, Decisive, Ev
    <3>4. Landed(ws, ledger \o e)
      BY <2>1, <3>3, <1>t, LandedJoins
    <3>5. /\ (\A q \in Server : pc'[q] # "save_vault") => Landed(ws, ledger)'
          /\ \A q \in Server : pc'[q] = "save_vault" => Landed(op[q].ws, ledger)'
      BY <2>1, <3>1, <3>4 DEF SingleServer, Landed, Unlanded
    <3>6. \A d \in Document : ~Composing(p, d)
      BY <2>1, <2>2 DEF Composing
    <3>7. \A d \in Document : Accounted(d)'
      BY <2>1, <3>6, <1>t, HasLeft DEF CleanInv, Accounted, SingleServer
    <3> QED
      BY <3>5, <3>7 DEF CleanInv
  <2>3. CASE op[p].next # "no_save"
    <3>1. pc'[p] = "save_vault" /\ op'[p] = op[p]
      BY <1>6, <2>3, <1>t DEF SaveChain, GoTo
    <3>2. Edit(ws, n, e, op[p].next, op[p].subject, flow)
      BY <2>1, <2>3, <1>l DEF InHand, Saving, CommitLabels
    <3>3. Landed(n, ledger)
      BY <2>1, <3>2, <1>t, EditKeepsLanded
    <3>4. e # <<>> /\ Landed(n, e)
      BY <2>1, <3>2, <1>t, EditLands
    <3>5. Landed(n, ledger \o e)
      BY <2>1, <3>3, <3>4, <1>t, LandedJoins
    <3>6. /\ (\A q \in Server : pc'[q] # "save_vault") => Landed(ws, ledger)'
          /\ \A q \in Server : pc'[q] = "save_vault" => Landed(op[q].ws, ledger)'
      <4>1. op'[p].ws = n
        BY <3>1
      <4>2. Landed(op[p].ws, ledger)'
        BY <2>1, <3>5, <4>1 DEF Landed, Unlanded
      <4> QED
        BY <3>1, <4>2 DEF SingleServer
    <3>7. ASSUME NEW d \in Document, Composing(p, d) PROVE Has(e, "effect.file_written", d)
      <4>1. op[p].next = "commit_receipt" /\ ws.approvals[op[p].subject].document = d
        BY <2>1, <3>7 DEF Composing
      <4>2. PICK y \in Document : Grants(ws, n, e, y, op[p].subject, flow[op[p].subject])
        BY <3>2, <4>1 DEF Edit
      <4>3. ws.approvals[op[p].subject] = Decided(y, "Pending", None)
        BY <4>2 DEF Grants
      <4>4. y = d
        BY <4>1, <4>3 DEF Decided
      <4>5. e = <<Ev("approval.granted", d), Ev("capability.executed", d),
                  Ev("effect.file_written", d)>>
        BY <4>2, <4>4 DEF Grants
      <4>6. 3 \in DOMAIN e /\ e[3] = Ev("effect.file_written", d)
        BY <4>5
      <4> QED
        BY <4>6 DEF Has
    <3>8. \A d \in Document : Accounted(d)'
      <4> SUFFICES ASSUME NEW d \in Document, outbox[d] # None
                   PROVE  Has(ledger \o e, "effect.file_written", d)
        BY <2>1 DEF Accounted
      <4>1. Has(ledger, "effect.file_written", d) \/ Composing(p, d)
        BY DEF CleanInv, Accounted, SingleServer
      <4> QED
        BY <2>1, <3>7, <4>1, <1>t, HasLeft, HasRight
    <3> QED
      BY <3>6, <3>8 DEF CleanInv
  <2> QED
    BY <2>2, <2>3
<1>7. ASSUME SaveVault(p) PROVE CleanInv'
  <2> SUFFICES ASSUME interrupts = 0 PROVE CleanInv'
    BY <1>7 DEF SaveVault, bounds, CleanInv
  <2>1. /\ pc[p] = "save_vault" /\ ws' = op[p].ws /\ UNCHANGED <<outbox, ledger, interrupts>>
    BY <1>7 DEF SaveVault, bounds
  <2>2. Landed(op[p].ws, ledger)
    BY <2>1 DEF CleanInv
  <2>3. pc'[p] \in {"idle", "commit_receipt"}
    BY <1>7, <1>l, <1>t DEF SaveVault, Finish, GoTo, Operation, Located
  <2>4. /\ (\A q \in Server : pc'[q] # "save_vault") => Landed(ws, ledger)'
        /\ \A q \in Server : pc'[q] = "save_vault" => Landed(op[q].ws, ledger)'
    BY <2>1, <2>2, <2>3 DEF SingleServer, Landed, Unlanded
  <2>5. \A d \in Document : ~Composing(p, d)
    BY <2>1, IdleComposes
  <2>6. \A d \in Document : Accounted(d)'
    BY <2>1, <2>5 DEF CleanInv, Accounted, SingleServer, Has
  <2> QED
    BY <2>4, <2>6 DEF CleanInv
<1> QED
  BY <1>1, <1>2, <1>3, <1>4, <1>5, <1>6, <1>7 DEF Continue

LEMMA StepClean ==
  SingleServer /\ AuditInv /\ EditInv /\ SendInv /\ CleanInv /\ [Next]_vars => CleanInv'
<1> SUFFICES ASSUME SingleServer, AuditInv, EditInv, SendInv, CleanInv, [Next]_vars
             PROVE  CleanInv'
  OBVIOUS
<1>1. ASSUME NEW p \in Server, Interrupt(p) PROVE CleanInv'
  <2>1. interrupts' = interrupts + 1 /\ interrupts \in Nat
    BY <1>1 DEF Interrupt, AuditInv, ITypeOK, TypeOK
  <2> QED
    BY <2>1 DEF CleanInv
<1>2. CASE AuditReadState \/ AuditReadChain \/ UNCHANGED vars
  <2>1. UNCHANGED <<ws, ledger, outbox, pc, op, interrupts>>
    BY <1>2 DEF AuditReadState, AuditReadChain, vars, durable, process, bounds
  <2> QED
    BY <2>1 DEF CleanInv, Accounted, Composing, Landed, Unlanded, Has
<1> QED
  BY <1>1, <1>2, RequestClean, ContinueClean DEF Next

\* One server process that is never interrupted: at rest every signed event has
\* landed, so nothing is reported, no document was both revoked and delivered,
\* and a decided document has no file the chain does not record.
THEOREM UninterruptedLeavesNoTrace == ASSUME SingleServer PROVE Spec => []UninterruptedIsClean
<1>1. Init => CleanInv
  BY DEF Init, EmptyWorkspace, CleanInv, Landed, Accounted
<1>2. ASSUME SingleServer, AuditInv, CleanInv PROVE UninterruptedIsClean
  <2> SUFFICES ASSUME Quiet, interrupts = 0
               PROVE  /\ ~TailTorn(ws, ledger)
                      /\ \A d \in Document :
                           /\ ~(Has(ledger, "effect.revoked", d) /\ Has(ledger, "delivery.confirmed", d))
                           /\ outbox[d] # None => Has(ledger, "effect.file_written", d)
    BY DEF UninterruptedIsClean
  <2>1. \A d \in Document : Accounted(d)
    BY <1>2 DEF CleanInv
  <2>2. \A d \in Document : outbox[d] # None => Has(ledger, "effect.file_written", d)
    BY <2>1 DEF Accounted, Composing, Quiet
  <2>3. Landed(ws, ledger)
    BY <1>2 DEF CleanInv, Quiet
  <2>4. ~TailTorn(ws, ledger)
    BY <2>3 DEF Landed, TailTorn
  <2>5. ASSUME NEW d \in Document, Has(ledger, "effect.revoked", d) PROVE ws.documents[d] = "Revoked"
    BY <2>3, <2>5 DEF Has, Landed, Unlanded, Ev
  <2>6. ASSUME NEW d \in Document, Has(ledger, "delivery.confirmed", d)
        PROVE  ws.documents[d] = "Delivered"
    BY <2>3, <2>6 DEF Has, Landed, Unlanded, Ev
  <2> QED
    BY <2>2, <2>4, <2>5, <2>6
<1> QED
  BY <1>1, <1>2, InitAudit, StepAudit, InitEdit, StepEdit, InitSend, StepSend, StepClean, PTL DEF Spec

------------------------------------------------------------------------------
(* The workspace implements the document lifecycle.                         *)

Steps == {"document.draft", "approval.requested", "approval.granted",
          "approval.rejected", "effect.revoked", "delivery.confirmed"}

Signed == [d \in Document |-> {x \in Steps : Has(ledger, x, d)}]

\* Evidence on a chain with events appended is evidence on one or the other.
LEMMA HasEither ==
  ASSUME NEW c \in Seq(Event), NEW e \in Seq(Event), e # <<>>, NEW x, NEW r
  PROVE  Has(c \o e, x, r) <=> Has(c, x, r) \/ Has(e, x, r)
<1>1. ASSUME Has(c \o e, x, r) PROVE Has(c, x, r) \/ Has(e, x, r)
  <2>1. PICK i \in DOMAIN (c \o e) : (c \o e)[i] = Ev(x, r)
    BY <1>1 DEF Has
  <2>2. CASE i \in DOMAIN c
    <3>1. (c \o e)[i] = c[i]
      BY <2>2, EndOf
    <3> QED
      BY <2>1, <2>2, <3>1 DEF Has
  <2>3. CASE i \notin DOMAIN c
    <3>1. PICK j \in 1 .. Len(e) : i = Len(c) + j
      BY <2>3, EndOf
    <3>2. e[j] = Ev(x, r) /\ j \in DOMAIN e
      BY <2>1, <3>1, EndOf
    <3> QED
      BY <3>2 DEF Has
  <2> QED
    BY <2>2, <2>3
<1> QED
  BY <1>1, HasLeft, HasRight

\* An edit that concerns no document's life, or moves d along it.
Still(w, n, e) ==
  /\ n.documents = w.documents
  /\ \A x \in Steps, r \in Document : ~Has(e, x, r)

Moving(w, n, e, d, m) ==
  /\ w.documents[d] = m.from /\ n.documents = [w.documents EXCEPT ![d] = m.to]
  /\ \A x \in Steps, r \in Document : Has(e, x, r) <=> x = m.event /\ r = d

\* An edit moves no document and signs no move, or does both for one document.
LEMMA EditMoves ==
  ASSUME NEW w \in Workspaces, NEW n, NEW e, NEW next, NEW a, NEW f, Edit(w, n, e, next, a, f)
  PROVE  Still(w, n, e) \/ \E d \in Document, m \in Lifecycle!Moves : Moving(w, n, e, d, m)
<1>ev. \A x, r, y, s : Ev(x, r) = Ev(y, s) <=> x = y /\ r = s
  <2> SUFFICES ASSUME NEW x, NEW r, NEW y, NEW s, Ev(x, r) = Ev(y, s) PROVE x = y /\ r = s
    OBVIOUS
  <2>1. Ev(x, r).action = Ev(y, s).action /\ Ev(x, r).resource = Ev(y, s).resource
    OBVIOUS
  <2> QED
    BY <2>1 DEF Ev
<1>one. ASSUME NEW y, NEW s, e = <<Ev(y, s)>>
        PROVE  \A x, r : Has(e, x, r) <=> x = y /\ r = s
  <2>1. DOMAIN e = {1} /\ e[1] = Ev(y, s)
    BY <1>one
  <2> QED
    BY <2>1, <1>ev DEF Has
<1>m. /\ Lifecycle!Move("absent", "document.draft", "Draft") \in Lifecycle!Moves
      /\ Lifecycle!Move("Draft", "approval.requested", "PendingApproval") \in Lifecycle!Moves
      /\ Lifecycle!Move("PendingApproval", "approval.rejected", "Rejected") \in Lifecycle!Moves
      /\ Lifecycle!Move("ApprovedPendingDelivery", "effect.revoked", "Revoked") \in Lifecycle!Moves
      /\ Lifecycle!Move("ApprovedPendingDelivery", "delivery.confirmed", "Delivered") \in Lifecycle!Moves
  BY DEF Lifecycle!Moves
<1>mv. ASSUME NEW d \in Document, NEW m \in Lifecycle!Moves, Moved(w, n, d, m.from, m.to),
              \A x \in Steps, r \in Document : Has(e, x, r) <=> x = m.event /\ r = d
       PROVE  \E y \in Document, k \in Lifecycle!Moves : Moving(w, n, e, y, k)
  BY <1>mv DEF Moved, Moving
<1>1. ASSUME NEW y, NEW s, n.documents = w.documents, e = <<Ev(y, s)>>, y \notin Steps
      PROVE  Still(w, n, e)
  BY <1>1, <1>one DEF Still
<1>2. ASSUME NEW d \in Document, NEW from, NEW event, NEW to,
             Lifecycle!Move(from, event, to) \in Lifecycle!Moves,
             Moved(w, n, d, from, to), e = <<Ev(event, d)>>
      PROVE  \E y \in Document, k \in Lifecycle!Moves : Moving(w, n, e, y, k)
  <2>1. /\ Lifecycle!Move(from, event, to).from = from
        /\ Lifecycle!Move(from, event, to).event = event
        /\ Lifecycle!Move(from, event, to).to = to
    BY DEF Lifecycle!Move
  <2>2. \A x \in Steps, r \in Document : Has(e, x, r) <=> x = event /\ r = d
    BY <1>2, <1>one
  <2> QED
    BY <1>2, <2>1, <2>2, <1>mv
<1>3. CASE Plain(w, n, e)
  <2>1. \E y \in {"venture.update", "model.drafted"} : \E s : e = <<Ev(y, s)>>
    BY <1>3 DEF Plain
  <2> QED
    BY <1>3, <2>1, <1>1 DEF Plain, Steps
<1>4. CASE \E c \in Customer : Joins(w, n, e, c)
  BY <1>4, <1>1 DEF Joins, Steps
<1>5. CASE \E d \in Document : Alone(w, n, e, d)
  <2>1. PICK d \in Document : Alone(w, n, e, d)
    BY <1>5
  <2>2. CASE Moved(w, n, d, "absent", "Draft") /\ e = <<Ev("document.draft", d)>>
    BY <2>2, <1>m, <1>2
  <2>3. CASE Moved(w, n, d, "ApprovedPendingDelivery", "Revoked") /\ e = <<Ev("effect.revoked", d)>>
    BY <2>3, <1>m, <1>2
  <2>4. CASE /\ Moved(w, n, d, "ApprovedPendingDelivery", "Delivered")
             /\ e = <<Ev("delivery.confirmed", d)>>
    BY <2>4, <1>m, <1>2
  <2> QED
    BY <2>1, <2>2, <2>3, <2>4 DEF Alone
<1>6. CASE \E d \in Document, x \in Approval : Asks(w, n, e, d, x) \/ Rejects(w, n, e, d, x)
  <2>1. PICK d \in Document, x \in Approval : Asks(w, n, e, d, x) \/ Rejects(w, n, e, d, x)
    BY <1>6
  <2>2. CASE Asks(w, n, e, d, x)
    BY <2>2, <1>m, <1>2 DEF Asks
  <2>3. CASE Rejects(w, n, e, d, x)
    BY <2>3, <1>m, <1>2 DEF Rejects
  <2> QED
    BY <2>1, <2>2, <2>3
<1>7. CASE \E d \in Document : Grants(w, n, e, d, a, f[a])
  <2> DEFINE m == Lifecycle!Move("PendingApproval", "approval.granted", "ApprovedPendingDelivery")
  <2>1. /\ m.from = "PendingApproval" /\ m.event = "approval.granted"
        /\ m.to = "ApprovedPendingDelivery"
    BY DEF Lifecycle!Move
  <2>2. m \in Lifecycle!Moves
    BY DEF Lifecycle!Moves
  <2> HIDE DEF m
  <2>3. PICK d \in Document :
          /\ Moved(w, n, d, "PendingApproval", "ApprovedPendingDelivery")
          /\ e = <<Ev("approval.granted", d), Ev("capability.executed", d), Ev("effect.file_written", d)>>
    BY <1>7 DEF Grants
  <2>4. /\ DOMAIN e = {1, 2, 3} /\ e[1] = Ev("approval.granted", d)
        /\ e[2] = Ev("capability.executed", d) /\ e[3] = Ev("effect.file_written", d)
    BY <2>3
  <2>5. \A x \in Steps, r \in Document : Has(e, x, r) <=> x = "approval.granted" /\ r = d
    BY <2>4, <1>ev DEF Has, Steps
  <2> QED
    BY <2>1, <2>2, <2>3, <2>5, <1>mv
<1> QED
  BY <1>3, <1>4, <1>5, <1>6, <1>7 DEF Edit, SmallEdit

LEMMA LifecycleInit == Init => Lifecycle!Init
  BY DEF Init, EmptyWorkspace, Lifecycle!Init, Has

\* Signing is the save of the chain, landing the save of the vault.
LEMMA LifecycleStep ==
  AuditInv /\ EditInv /\ [Next]_vars => [Lifecycle!Next]_<<ws.documents, Signed>>
<1> SUFFICES ASSUME AuditInv, EditInv, [Next]_vars
             PROVE  Lifecycle!Next \/ UNCHANGED <<ws.documents, Signed>>
  BY DEF Signed
<1>t. ws \in Workspaces /\ ledger \in Seq(Event) /\ op \in [Server -> Operation]
  BY DEF AuditInv, ITypeOK, TypeOK
<1>1. ASSUME NEW p \in Server, SaveChain(p)
      PROVE  Lifecycle!Next \/ UNCHANGED <<ws.documents, Signed>>
  <2> DEFINE e == op[p].events
  <2>1. /\ pc[p] = "save_chain" /\ UNCHANGED ws /\ e \in Seq(Event)
        /\ op[p].chain = ledger /\ InHand(p)
    BY <1>1, <1>t DEF SaveChain, AuditInv, InFlight, EditInv, Operation
  <2>2. ledger' = ledger \o e
    BY <1>1, <2>1 DEF SaveChain
  <2>3. ASSUME e # <<>>, \A x \in Steps, r \in Document : ~Has(e, x, r)
        PROVE  Signed' = Signed
    BY <2>1, <2>2, <2>3, <1>t, HasEither DEF Signed
  <2>4. CASE op[p].next = "no_save"
    <3>1. e = <<Ev("workspace.export", "workspace:all")>>
      BY <2>1, <2>4 DEF InHand, CommitLabels
    <3>2. e # <<>> /\ DOMAIN e = {1} /\ e[1].action = "workspace.export"
      BY <3>1 DEF Ev
    <3>3. \A x \in Steps, r \in Document : ~Has(e, x, r)
      BY <3>2 DEF Has, Steps, Ev
    <3> QED
      BY <2>1, <2>3, <3>2, <3>3
  <2>5. CASE op[p].next # "no_save"
    <3>1. Edit(ws, op[p].ws, e, op[p].next, op[p].subject, flow)
      BY <2>1, <2>5 DEF InHand, Saving, CommitLabels
    <3>2. e # <<>>
      BY <2>1, <3>1, <1>t, EditLands
    <3>3. CASE Still(ws, op[p].ws, e)
      BY <2>1, <2>3, <3>2, <3>3 DEF Still
    <3>4. ASSUME NEW d \in Document, NEW m \in Lifecycle!Moves, Moving(ws, op[p].ws, e, d, m)
          PROVE  Lifecycle!Sign(d, m)
      <4>1. m.event \in Steps
        BY DEF Lifecycle!Moves, Lifecycle!Move, Steps
      <4>2. \A r \in Document : {x \in Steps : Has(ledger \o e, x, r)} =
              {x \in Steps : Has(ledger, x, r)} \cup (IF r = d THEN {m.event} ELSE {})
        <5> SUFFICES ASSUME NEW r \in Document
                     PROVE  {x \in Steps : Has(ledger \o e, x, r)} =
                              {x \in Steps : Has(ledger, x, r)} \cup (IF r = d THEN {m.event} ELSE {})
          OBVIOUS
        <5>1. \A x \in Steps : Has(ledger \o e, x, r) <=> Has(ledger, x, r) \/ (x = m.event /\ r = d)
          BY <2>1, <3>2, <3>4, <1>t, HasEither DEF Moving
        <5> HIDE DEF e
        <5>2. CASE r = d
          BY <4>1, <5>1, <5>2
        <5>3. CASE r # d
          BY <5>1, <5>3
        <5> QED
          BY <5>2, <5>3
      <4>3. Signed' = [Signed EXCEPT ![d] = Signed[d] \cup {m.event}]
        <5>1. Signed' = [r \in Document |-> {x \in Steps : Has(ledger \o e, x, r)}]
          BY <2>2 DEF Signed
        <5>2. Signed' = [r \in Document |->
                           Signed[r] \cup (IF r = d THEN {m.event} ELSE {})]
          BY <4>2, <5>1 DEF Signed
        <5>3. DOMAIN Signed = Document
          BY DEF Signed
        <5> QED
          BY <5>2, <5>3
      <4> QED
        BY <2>1, <3>4, <4>3 DEF Lifecycle!Sign, Signed, Steps, Moving
    <3>5. \/ Still(ws, op[p].ws, e)
          \/ \E d \in Document, m \in Lifecycle!Moves : Moving(ws, op[p].ws, e, d, m)
      BY <3>1, <1>t, EditMoves
    <3>6. ASSUME NEW d \in Document, NEW m \in Lifecycle!Moves, Lifecycle!Sign(d, m)
          PROVE  Lifecycle!Next
      BY <3>6 DEF Lifecycle!Next
    <3> QED
      BY <3>3, <3>4, <3>5, <3>6
  <2> QED
    BY <2>4, <2>5
<1>2. ASSUME NEW p \in Server, SaveVault(p)
      PROVE  Lifecycle!Next \/ UNCHANGED <<ws.documents, Signed>>
  <2> DEFINE e == op[p].events  n == op[p].ws
  <2>1. /\ pc[p] = "save_vault" /\ ws' = n /\ UNCHANGED ledger /\ InHand(p)
        /\ op[p].next # "no_save"
    BY <1>2 DEF SaveVault, EditInv, AuditInv, ITypeOK, Located
  <2>2. Edit(ws, n, e, op[p].next, op[p].subject, flow) /\ OnChain(e, ledger)
    BY <2>1 DEF InHand, Saving, CommitLabels
  <2>3. Signed' = Signed
    BY <2>1 DEF Signed
  <2>4. CASE Still(ws, n, e)
    BY <2>1, <2>3, <2>4 DEF Still
  <2>5. ASSUME NEW d \in Document, NEW m \in Lifecycle!Moves, Moving(ws, n, e, d, m)
        PROVE  Lifecycle!Land(d, m)
    <3>1. m.event \in Steps
      BY DEF Lifecycle!Moves, Lifecycle!Move, Steps
    <3>2. PICK i \in DOMAIN e : e[i] = Ev(m.event, d)
      BY <2>5, <3>1 DEF Has, Moving
    <3>3. Has(ledger, m.event, d)
      <4>1. Has(ledger, e[i].action, e[i].resource)
        BY <2>2 DEF OnChain
      <4> QED
        BY <3>2, <4>1 DEF Ev
    <3>4. m.event \in Signed[d]
      BY <3>1, <3>3 DEF Signed
    <3> QED
      BY <2>1, <2>3, <2>5, <3>4 DEF Lifecycle!Land, Signed, Steps, Moving
  <2>6. Still(ws, n, e) \/ \E d \in Document, m \in Lifecycle!Moves : Moving(ws, n, e, d, m)
    BY <2>2, <1>t, EditMoves
  <2>7. ASSUME NEW d \in Document, NEW m \in Lifecycle!Moves, Lifecycle!Land(d, m)
        PROVE  Lifecycle!Next
    BY <2>7 DEF Lifecycle!Next
  <2> QED
    BY <2>4, <2>5, <2>6, <2>7
<1>3. ASSUME UNCHANGED <<ws, ledger>> PROVE UNCHANGED <<ws.documents, Signed>>
  BY <1>3 DEF Signed
<1>4. CASE \E p \in Server : Request(p) \/ Interrupt(p)
  BY <1>4, <1>3, ZenonT(30) DEF Request, Interrupt, SetVenture, AddCustomer, DraftAssistant, CreateDocument,
       RequestSend, Reject, RevokeDelivery, ConfirmDelivery, Export, Approve, durable
<1>5. ASSUME NEW p \in Server, Continue(p)
      PROVE  Lifecycle!Next \/ UNCHANGED <<ws.documents, Signed>>
  BY <1>1, <1>2, <1>3, <1>5 DEF Continue, Disclose, ComposeSend, RunKernel, WriteOutbox,
       WriteRecord, PersistExecute, CommitDecision, PersistCommit, PersistDone, LoadChain, durable
<1>6. CASE AuditReadState \/ AuditReadChain \/ UNCHANGED vars
  BY <1>3, <1>6 DEF AuditReadState, AuditReadChain, durable, vars
<1> QED
  BY <1>4, <1>5, <1>6 DEF Next

\* One server process implements DocumentLifecycle: whatever is interrupted and
\* retried, a status moves only along the lifecycle, and signed for beforehand.
THEOREM ImplementsLifecycle == ASSUME SingleServer PROVE Spec => FollowsLifecycle
  BY InitAudit, StepAudit, InitEdit, StepEdit, LifecycleInit, LifecycleStep, PTL
     DEF Spec, FollowsLifecycle, Lifecycle!Spec, Signed, Steps
==============================================================================
