--------------------------- MODULE ExecutionProofs ---------------------------
(***************************************************************************)
(* OneUse (without purges), OncePerLife, PolicyIsObeyed and                *)
(* JournalIsHonest for any number of processes, decisions, approvals,      *)
(* tokens and executions, any lifetimes and any number of faults.          *)
(***************************************************************************)
EXTENDS VerifiedExecution, TLAPS

----------------------------------------------------------------------------
(* What recovery makes of a line appended to a file with an intent.         *)

Intended(lines) == lines \in Seq(Line) /\ \E i \in DOMAIN lines : lines[i] = "requested"

LEMMA RecoverLine ==
  ASSUME NEW lines, Intended(lines),
         NEW line \in {"started", "completed", "failed", "denied"}
  PROVE  Intended(Append(lines, line)) /\ Recovered(Append(lines, line)) = line
<1> DEFINE more == Append(lines, line)
<1>1. lines \in Seq(Line) /\ line \in Line
  BY DEF Intended, Line
<1>2. /\ more \in Seq(Line) /\ Len(more) = Len(lines) + 1 /\ more[Len(lines) + 1] = line
      /\ \A i \in 1 .. Len(lines) : more[i] = lines[i]
  BY <1>1
<1>3. DOMAIN more = 1 .. Len(lines) + 1 /\ DOMAIN lines = 1 .. Len(lines) /\ Len(lines) \in Nat
  BY <1>1, <1>2
<1> HIDE DEF more
<1>4. Intended(more)
  BY <1>2, <1>3 DEF Intended
<1>5. LastIs(more, line)
  BY <1>2, <1>3 DEF LastIs
<1>6. \A other \in {"started", "completed", "failed", "denied"} :
        other # line => ~LastIs(more, other)
  BY <1>2, <1>3 DEF LastIs
<1>7. \E i \in DOMAIN more : more[i] = "requested"
  BY <1>4 DEF Intended
<1>8. Recovered(more) = line
  BY <1>5, <1>6, <1>7 DEF Recovered
<1> QED
  BY <1>4, <1>8 DEF more

LEMMA RecoverTorn ==
  ASSUME NEW lines, Intended(lines)
  PROVE  /\ Intended(Append(lines, "torn"))
         /\ Recovered(Append(lines, "torn")) = Recovered(lines)
<1> DEFINE more == Append(lines, "torn")
<1>1. lines \in Seq(Line) /\ "torn" \in Line
  BY DEF Intended, Line
<1>2. /\ more \in Seq(Line) /\ Len(more) = Len(lines) + 1 /\ more[Len(lines) + 1] = "torn"
      /\ \A i \in 1 .. Len(lines) : more[i] = lines[i]
  BY <1>1
<1>3. DOMAIN more = 1 .. Len(lines) + 1 /\ DOMAIN lines = 1 .. Len(lines) /\ Len(lines) \in Nat
  BY <1>1, <1>2
<1> HIDE DEF more
<1>4. Intended(more)
  BY <1>2, <1>3 DEF Intended
<1>5. \A line \in {"started", "completed", "failed", "denied"} :
        LastIs(more, line) <=> LastIs(lines, line)
  BY <1>2, <1>3 DEF LastIs
<1>6. /\ \E i \in DOMAIN more : more[i] = "requested"
      /\ \E i \in DOMAIN lines : lines[i] = "requested"
  BY <1>4 DEF Intended
<1>7. Recovered(more) = Recovered(lines)
  BY <1>5, <1>6 DEF Recovered
<1> QED
  BY <1>4, <1>7 DEF more

LEMMA RecoverIntent ==
  /\ Intended(<<"requested">>)
  /\ Recovered(<<"requested">>) = "indeterminate"
  /\ <<"torn">> \in Seq(Line)
  /\ Recovered(<<"torn">>) = "none"
<1> DEFINE intent == <<"requested">>  torn == <<"torn">>
<1>1. /\ intent \in Seq(Line) /\ DOMAIN intent = {1} /\ intent[1] = "requested"
      /\ torn \in Seq(Line) /\ DOMAIN torn = {1} /\ torn[1] = "torn"
  BY DEF Line
<1> HIDE DEF intent, torn
<1>2. Intended(intent)
  BY <1>1 DEF Intended
<1>3. /\ ~LastIs(intent, "started")
      /\ ~LastIs(intent, "completed")
      /\ ~LastIs(intent, "failed")
      /\ ~LastIs(intent, "denied")
      /\ \E i \in DOMAIN intent : intent[i] = "requested"
  BY <1>1 DEF LastIs
<1>4. Recovered(intent) = "indeterminate"
  BY <1>1, <1>3 DEF Recovered
<1>5. Recovered(torn) = "none"
  <2>1. \A i \in DOMAIN torn : torn[i] # "requested"
    BY <1>1
  <2> QED
    BY <2>1 DEF Recovered
<1> QED
  BY <1>1, <1>2, <1>4, <1>5 DEF intent, torn

----------------------------------------------------------------------------
(* The inductive invariant.                                                 *)

\* Policy's part of PolicyIsObeyed, for a call or a grant.
Obeyed(g) ==
  /\ decisions[g.decision].verdict # "deny"
  /\ decisions[g.decision].verdict = "approve" =>
       g.approval # None /\ approvals[g.approval].decision = g.decision
  /\ tokens[g.token].decision = g.decision

Presented(c) ==
  /\ c \in Call
  /\ tokens[c.token] # None
  /\ decisions[c.decision] # None
  /\ c.approval # None => approvals[c.approval] # None

\* The claims an execution has made when its process is at a label.
Claimed(x, g, label) ==
  /\ label \in {"key", "approval", "authorize"} =>
       spentTokens[g.token] # None /\ spentTokens[g.token].by = x
  /\ label \in {"approval", "authorize"} =>
       boundKeys[KeyOf[g.decision]] # None /\ boundKeys[KeyOf[g.decision]].by = x
  /\ label = "authorize" /\ g.approval # None =>
       spentApprovals[g.approval] # None /\ spentApprovals[g.approval].by = x

Unauthorized == {"check", "token", "key", "approval", "authorize", "deny"}

\* Where an execution is when its process is at a label.
Progress(x, label) ==
  /\ journal[x] # None /\ Intended(journal[x])
  /\ granted[x] = None <=> label \in Unauthorized
  /\ label \in Unauthorized \cup {"start"} => State(x) = "indeterminate" /\ ran[x] = "no"
  /\ label = "run" => State(x) = "started" /\ ran[x] = "no"
  /\ label = "guest" => State(x) = "started" /\ ran[x] = "entered"
  /\ label = "finish" => State(x) = "started" /\ ran[x] \in {"completed", "failed"}

Cleared(c, label) == label \in {"token", "key", "approval", "authorize"} => Obeyed(c)

Busy(p) ==
  /\ Presented(call[p])
  /\ Progress(call[p].exec, pc[p])
  /\ Cleared(call[p], pc[p])
  /\ ~Purging => Claimed(call[p].exec, call[p], pc[p])

BusyOK == \A p \in Process : pc[p] # "idle" => Busy(p)

Exclusive ==
  \A p, q \in Process : p # q /\ pc[p] # "idle" /\ pc[q] # "idle" => call[p].exec # call[q].exec

Honest(x) ==
  /\ ran[x] # "no" => granted[x] # None /\ State(x) \in {"started", "completed", "failed"}
  /\ State(x) \in {"completed", "failed"} => ran[x] = State(x)
  /\ granted[x] # None => State(x) \notin {"none", "denied"}

\* A grant stays on record in all three places.
OnRecord(x) == granted[x] # None =>
  /\ Obeyed(granted[x])
  /\ tokens[granted[x].token] # None
  /\ decisions[granted[x].decision] # None
  /\ granted[x].approval # None => approvals[granted[x].approval] # None
  /\ ~Purging => Claimed(x, granted[x], "authorize")

IInv ==
  /\ TypeOK
  /\ BusyOK
  /\ Exclusive
  /\ \A x \in Execution : Honest(x)
  /\ \A x \in Execution : OnRecord(x)

----------------------------------------------------------------------------
(* What every step keeps: signed records for good, claims unless purged.    *)

RecordsStay ==
  /\ \A d \in Decision : decisions[d] # None => decisions'[d] = decisions[d]
  /\ \A a \in Approval : approvals[a] # None => approvals'[a] = approvals[a]
  /\ \A t \in Token : tokens[t] # None => tokens'[t] = tokens[t]

ClaimsStay ==
  /\ \A t \in Token : spentTokens[t] # None => spentTokens'[t] = spentTokens[t]
  /\ \A k \in Key : boundKeys[k] # None => boundKeys'[k] = boundKeys[k]
  /\ \A a \in Approval : spentApprovals[a] # None => spentApprovals'[a] = spentApprovals[a]

Keeps == RecordsStay /\ (~Purging => ClaimsStay)

Steps(p) == Begin(p) \/ BeginFails(p) \/ Consume(p) \/ Run(p) \/ Kill(p)

LEMMA ProcessKeeps ==
  ASSUME TypeOK, NEW p \in Process, Steps(p)
  PROVE  Keeps
<1>1. CASE ClaimToken(p)
  BY <1>1 DEF ClaimToken, Keeps, RecordsStay, ClaimsStay, authority, TypeOK
<1>2. CASE BindKey(p)
  BY <1>2 DEF BindKey, Keeps, RecordsStay, ClaimsStay, authority, TypeOK
<1>3. CASE ClaimApproval(p)
  BY <1>3 DEF ClaimApproval, Keeps, RecordsStay, ClaimsStay, authority, TypeOK
<1>4. CASE UNCHANGED <<authority, store>>
  BY <1>4 DEF Keeps, RecordsStay, ClaimsStay, authority, store
<1>5. CASE Begin(p) \/ BeginFails(p) \/ Run(p) \/ Kill(p)
  BY <1>4, <1>5 DEF Begin, BeginFails, Run, Kill, MarkStarted, EnterGuest, LeaveGuest,
                    Finish, RecordDenial, AppendFails
<1>6. CASE Check(p) \/ StoreFails(p) \/ Authorize(p)
  BY <1>4, <1>6 DEF Check, StoreFails, Authorize
<1> QED
  BY <1>1, <1>2, <1>3, <1>5, <1>6 DEF Steps, Consume

\* A process that does not move, on an execution nobody touches.
LEMMA BusyStays ==
  ASSUME TypeOK, Keeps, NEW q \in Process, Busy(q),
         pc'[q] = pc[q], call'[q] = call[q],
         NEW e \in Execution, e = call[q].exec,
         journal'[e] = journal[e], granted'[e] = granted[e], ran'[e] = ran[e]
  PROVE  Busy(q)'
<1> DEFINE c == call[q]
<1>1. /\ c \in Call /\ c.exec = e /\ c.token \in Token /\ c.decision \in Decision
      /\ c.approval \in Approval \cup {None} /\ KeyOf[c.decision] \in Key
  BY DEF Busy, Presented, Call, Key
<1>2. Presented(c)'
  BY <1>1 DEF Busy, Presented, Keeps, RecordsStay
<1>3. Progress(e, pc[q])'
  BY <1>1 DEF Busy, Progress, State, Exists
<1>4. Cleared(c, pc[q])'
  BY <1>1 DEF Busy, Presented, Cleared, Obeyed, Keeps, RecordsStay
<1>5. ~Purging => Claimed(e, c, pc[q])'
  BY <1>1 DEF Busy, Claimed, Keeps, ClaimsStay
<1> QED
  BY <1>1, <1>2, <1>3, <1>4, <1>5 DEF Busy

\* A process at a label, with a call that has everything the label requires.
LEMMA BusyNow ==
  ASSUME NEW p \in Process, NEW c, call'[p] = c, NEW label, pc'[p] = label,
         Presented(c)', Progress(c.exec, label)', Cleared(c, label)',
         ~Purging => Claimed(c.exec, c, label)'
  PROVE  Busy(p)'
BY DEF Busy

LEMMA HonestStays ==
  ASSUME NEW x \in Execution, Honest(x),
         journal'[x] = journal[x], granted'[x] = granted[x], ran'[x] = ran[x]
  PROVE  Honest(x)'
BY DEF Honest, State, Exists

LEMMA OnRecordStays ==
  ASSUME TypeOK, Keeps, NEW x \in Execution, OnRecord(x), granted'[x] = granted[x]
  PROVE  OnRecord(x)'
<1> SUFFICES ASSUME granted[x] # None PROVE OnRecord(x)'
  BY DEF OnRecord
<1> DEFINE g == granted[x]
<1>1. /\ g \in Grant /\ g.token \in Token /\ g.decision \in Decision
      /\ g.approval \in Approval \cup {None} /\ KeyOf[g.decision] \in Key
  BY DEF TypeOK, Grant, Key
<1>2. /\ tokens'[g.token] = tokens[g.token]
      /\ decisions'[g.decision] = decisions[g.decision]
      /\ g.approval # None => approvals'[g.approval] = approvals[g.approval]
  BY <1>1 DEF OnRecord, Keeps, RecordsStay
<1>3. Obeyed(g)'
  BY <1>1, <1>2 DEF OnRecord, Obeyed
<1>4. ~Purging => Claimed(x, g, "authorize")'
  BY <1>1 DEF OnRecord, Claimed, Keeps, ClaimsStay
<1> QED
  BY <1>2, <1>3, <1>4 DEF OnRecord

\* A step of p that touches one execution, p's own before and after it.
LEMMA OneProcessMoves ==
  ASSUME IInv, TypeOK', Keeps, NEW p \in Process, NEW e \in Execution,
         \A q \in Process \ {p} : pc'[q] = pc[q] /\ call'[q] = call[q],
         \A q \in Process \ {p} : pc[q] # "idle" => call[q].exec # e,
         \A x \in Execution \ {e} :
           journal'[x] = journal[x] /\ granted'[x] = granted[x] /\ ran'[x] = ran[x],
         pc'[p] = "idle" \/ (call'[p].exec = e /\ Busy(p)'),
         Honest(e)', OnRecord(e)'
  PROVE  IInv'
<1>1. \A q \in Process \ {p} : pc[q] # "idle" => Busy(q)'
  <2> TAKE q \in Process \ {p}
  <2> HAVE pc[q] # "idle"
  <2>1. Busy(q) /\ call[q].exec \in Execution /\ call[q].exec # e
    BY DEF IInv, BusyOK, Busy, Presented, Call
  <2>2. PICK x \in Execution : x = call[q].exec
    BY <2>1
  <2> QED
    BY <2>1, <2>2, BusyStays DEF IInv
<1>2. BusyOK'
  BY <1>1 DEF BusyOK
<1>3. Exclusive'
  BY DEF IInv, Exclusive
<1>4. \A x \in Execution \ {e} : Honest(x)' /\ OnRecord(x)'
  BY HonestStays, OnRecordStays DEF IInv
<1> QED
  BY <1>2, <1>3, <1>4 DEF IInv

\* The step of a busy process: what its execution is, and what is left alone.
OwnStep(p) ==
  /\ pc[p] # "idle"
  /\ \A q \in Process \ {p} : pc'[q] = pc[q] /\ call'[q] = call[q]
  /\ \A x \in Execution : x # call[p].exec =>
       journal'[x] = journal[x] /\ granted'[x] = granted[x] /\ ran'[x] = ran[x]

LEMMA OwnMoves ==
  ASSUME IInv, TypeOK', Keeps, NEW p \in Process, OwnStep(p),
         NEW e \in Execution, e = call[p].exec,
         pc'[p] = "idle" \/ (call'[p].exec = e /\ Busy(p)'),
         Honest(e)', OnRecord(e)'
  PROVE  IInv'
BY OneProcessMoves DEF IInv, Exclusive, OwnStep

LEMMA CallOK ==
  ASSUME IInv, NEW p \in Process, pc[p] # "idle"
  PROVE  /\ call[p] \in Call
         /\ call[p].exec \in Execution /\ call[p].token \in Token
         /\ call[p].decision \in Decision /\ call[p].approval \in Approval \cup {None}
         /\ KeyOf[call[p].decision] \in Key
         /\ tokens[call[p].token] \in Claims
         /\ decisions[call[p].decision] \in Verdict
         /\ call[p].approval # None => approvals[call[p].approval] \in SignedApproval
         /\ journal[call[p].exec] \in Seq(Line)
         /\ journal[call[p].exec] # None
<1>1. Busy(p)
  BY DEF IInv, BusyOK
<1>2. call[p] \in Call
  BY <1>1 DEF Busy, Presented
<1>3. /\ call[p].exec \in Execution /\ call[p].token \in Token
      /\ call[p].decision \in Decision /\ call[p].approval \in Approval \cup {None}
  BY <1>2 DEF Call
<1>4. KeyOf[call[p].decision] \in Key
  BY <1>3 DEF Key
<1>5. /\ tokens[call[p].token] \in Claims
      /\ decisions[call[p].decision] \in Verdict
      /\ call[p].approval # None => approvals[call[p].approval] \in SignedApproval
  BY <1>1, <1>3 DEF Busy, Presented, IInv, TypeOK
<1>6. journal[call[p].exec] \in Seq(Line) /\ journal[call[p].exec] # None
  BY <1>1, <1>3 DEF Busy, Progress, IInv, TypeOK
<1> QED
  BY <1>2, <1>3, <1>4, <1>5, <1>6

----------------------------------------------------------------------------
(* Types.                                                                   *)

LEMMA RecordTyped ==
  ASSUME IInv, NEW p \in Process, pc[p] # "idle"
  PROVE  ClaimRecord(p) \in Record /\ ClaimRecord(p) # None
<1>1. ClaimRecord(p) \in Record
  BY CallOK DEF ClaimRecord, Record, Claims
<1> QED
  BY <1>1, NoneIsFresh

LEMMA FaultTyped ==
  ASSUME TypeOK, Fault
  PROVE  faults' \in 0 .. MaxFaults
BY TimesAreNaturals DEF TypeOK, Fault

LEMMA CutShortTyped ==
  ASSUME IInv, NEW p \in Process, CutShort(p)
  PROVE  journal' \in [Execution -> Seq(Line) \cup {None}]
<1>1. CASE UNCHANGED journal
  BY <1>1 DEF IInv, TypeOK
<1>2. CASE pc[p] \in {"start", "finish", "deny"} /\
           \E line \in {Pending(p), "torn"} : AppendLine(call[p].exec, line)
  <2>1. Pending(p) \in Line
    <3>1. pc[p] = "finish" => ran[call[p].exec] \in {"completed", "failed"}
      BY DEF IInv, BusyOK, Busy, Progress
    <3> QED
      BY <1>2, <3>1 DEF Pending, Line
  <2>2. PICK line \in Line : AppendLine(call[p].exec, line)
    BY <1>2, <2>1 DEF Line
  <2>3. Append(journal[call[p].exec], line) \in Seq(Line)
    BY <1>2, CallOK
  <2> QED
    BY <2>2, <2>3 DEF AppendLine, IInv, TypeOK
<1> QED
  BY <1>1, <1>2 DEF CutShort

LEMMA SignedTyped ==
  ASSUME TypeOK,
         \/ \E d \in Decision : Evaluate(d)
         \/ \E a \in Approval, d \in Decision : Approve(a, d)
         \/ \E t \in Token, d \in Decision, a \in Approval \cup {None} : Issue(t, d, a)
  PROVE  TypeOK'
<1>1. ASSUME NEW d \in Decision, Evaluate(d) PROVE TypeOK'
  <2>1. PICK v \in {"allow", "approve", "deny"} :
          decisions' = [decisions EXCEPT ![d] = [verdict |-> v, at |-> clock]]
    BY <1>1 DEF Evaluate
  <2>2. [verdict |-> v, at |-> clock] \in Verdict
    BY DEF Verdict, TypeOK
  <2> QED
    BY <1>1, <2>1, <2>2 DEF Evaluate, TypeOK, store, history
<1>2. ASSUME NEW a \in Approval, NEW d \in Decision, Approve(a, d) PROVE TypeOK'
  <2>1. PICK ttl \in 1 .. ApprovalTTL :
          approvals' = [approvals EXCEPT ![a] =
                          [decision |-> d, at |-> clock, expires |-> clock + ttl]]
    BY <1>2 DEF Approve
  <2>2. [decision |-> d, at |-> clock, expires |-> clock + ttl] \in SignedApproval
    BY TimesAreNaturals DEF SignedApproval, TypeOK, Time
  <2> QED
    BY <1>2, <2>1, <2>2 DEF Approve, TypeOK, store, history
<1>3. ASSUME NEW t \in Token, NEW d \in Decision, NEW a \in Approval \cup {None}, Issue(t, d, a)
      PROVE  TypeOK'
  <2>1. PICK ttl \in 1 .. TokenTTL :
          tokens' = [tokens EXCEPT ![t] = [decision |-> d, approval |-> a,
                                           issued |-> clock, expires |-> clock + ttl]]
    BY <1>3 DEF Issue
  <2>2. [decision |-> d, approval |-> a, issued |-> clock, expires |-> clock + ttl] \in Claims
    BY TimesAreNaturals DEF Claims, TypeOK, Time
  <2> QED
    BY <1>3, <2>1, <2>2 DEF Issue, TypeOK, store, history
<1> QED
  BY <1>1, <1>2, <1>3

LEMMA BeginTyped ==
  ASSUME IInv, NEW p \in Process, Begin(p) \/ BeginFails(p)
  PROVE  TypeOK'
<1>1. CASE Begin(p)
  <2>1. PICK x \in Execution, t \in Token, d \in Decision, a \in Approval \cup {None} :
          /\ call' = [call EXCEPT ![p] = [exec |-> x, token |-> t, decision |-> d,
                                          approval |-> a, now |-> clock]]
          /\ journal' = [journal EXCEPT ![x] = <<"requested">>]
    BY <1>1 DEF Begin
  <2>2. [exec |-> x, token |-> t, decision |-> d, approval |-> a, now |-> clock] \in Call
    BY DEF IInv, TypeOK, Call
  <2>3. <<"requested">> \in Seq(Line)
    BY RecoverIntent DEF Intended
  <2> QED
    BY <1>1, <2>1, <2>2, <2>3
       DEF Begin, IInv, TypeOK, Go, Labels, authority, store, history
<1>2. CASE BeginFails(p)
  <2>1. PICK x \in Execution, line \in {"torn", "requested"} :
          journal' = [journal EXCEPT ![x] = <<line>>]
    BY <1>2 DEF BeginFails
  <2>2. <<line>> \in Seq(Line)
    BY RecoverIntent DEF Intended
  <2> QED
    BY <1>2, <2>1, <2>2, FaultTyped
       DEF BeginFails, IInv, TypeOK, authority, store, history
<1> QED
  BY <1>1, <1>2

LEMMA ConsumeTyped ==
  ASSUME IInv, NEW p \in Process, Consume(p)
  PROVE  TypeOK'
<1> USE DEF IInv, TypeOK, Go, Labels, authority, store, history
<1>1. CASE Check(p)
  <2>1. [call[p] EXCEPT !.now = clock] \in Call
    BY <1>1, CallOK, ZenonT(30) DEF Check, Call
  <2> QED
    BY <1>1, <2>1 DEF Check
<1>2. CASE ClaimToken(p)
  BY <1>2, RecordTyped DEF ClaimToken
<1>3. CASE BindKey(p)
  BY <1>3, RecordTyped DEF BindKey
<1>4. CASE ClaimApproval(p)
  BY <1>4, RecordTyped DEF ClaimApproval
<1>5. CASE StoreFails(p)
  BY <1>5, FaultTyped DEF StoreFails
<1>6. CASE Authorize(p)
  <2> DEFINE c == call[p]  mine == memory[p]
  <2>1. [token |-> c.token, decision |-> c.decision, approval |-> c.approval,
         process |-> p, life |-> lives[p]] \in Grant
    BY <1>6, CallOK DEF Authorize, Grant
  <2>2. [tokens |-> mine.tokens \cup {c.token}, keys |-> mine.keys \cup {KeyOf[c.decision]},
         approvals |-> mine.approvals \cup ({c.approval} \ {None})] \in Memory
    <3>1. mine \in Memory
      OBVIOUS
    <3>2. mine.tokens \subseteq Token /\ mine.keys \subseteq Key /\ mine.approvals \subseteq Approval
      BY <3>1 DEF Memory
    <3> QED
      BY <1>6, <3>2, CallOK DEF Authorize, Memory
  <2> QED
    BY <1>6, <2>1, <2>2 DEF Authorize
<1> QED
  BY <1>1, <1>2, <1>3, <1>4, <1>5, <1>6 DEF Consume

LEMMA RunTyped ==
  ASSUME IInv, NEW p \in Process, Run(p) \/ Kill(p)
  PROVE  TypeOK'
<1> USE DEF IInv, TypeOK, Go, Leave, Labels, authority, store, history
<1>1. ASSUME NEW line \in Line, pc[p] # "idle", AppendLine(call[p].exec, line)
      PROVE  journal' \in [Execution -> Seq(Line) \cup {None}]
  <2>1. Append(journal[call[p].exec], line) \in Seq(Line)
    BY <1>1, CallOK
  <2> QED
    BY <1>1, <2>1 DEF AppendLine
<1>2. CASE MarkStarted(p)
  BY <1>1, <1>2 DEF MarkStarted, Line
<1>3. CASE EnterGuest(p)
  BY <1>3 DEF EnterGuest
<1>4. CASE LeaveGuest(p)
  BY <1>4 DEF LeaveGuest
<1>5. CASE Finish(p)
  <2>1. ran[call[p].exec] \in {"completed", "failed"}
    BY <1>5 DEF Finish, BusyOK, Busy, Progress
  <2> QED
    BY <1>1, <1>5, <2>1 DEF Finish, Line
<1>6. CASE RecordDenial(p)
  BY <1>1, <1>6 DEF RecordDenial, Line
<1>7. CASE AppendFails(p)
  BY <1>7, CutShortTyped, FaultTyped DEF AppendFails
<1>8. CASE Kill(p)
  <2>1. Forgotten \in Memory
    BY DEF Forgotten, Memory
  <2> QED
    BY <1>8, <2>1, CutShortTyped, FaultTyped DEF Kill
<1> QED
  BY <1>2, <1>3, <1>4, <1>5, <1>6, <1>7, <1>8 DEF Run

LEMMA EnvironmentTyped ==
  ASSUME TypeOK, Purge \/ Tick
  PROVE  TypeOK'
<1>1. CASE Purge
  BY <1>1 DEF Purge, TypeOK, authority, history
<1>2. CASE Tick
  BY <1>2, TimesAreNaturals DEF Tick, TypeOK, Time, authority, store, history
<1> QED
  BY <1>1, <1>2

----------------------------------------------------------------------------
(* IInv is inductive.                                                       *)

LEMMA Initially == Init => IInv
<1> SUFFICES ASSUME Init PROVE IInv
  OBVIOUS
<1>1. TypeOK
  BY TimesAreNaturals
     DEF Init, TypeOK, Time, Memory, Forgotten, Labels
<1>2. BusyOK /\ Exclusive
  BY DEF Init, BusyOK, Exclusive
<1>3. \A x \in Execution : Honest(x) /\ OnRecord(x)
  BY DEF Init, Honest, OnRecord, State, Exists
<1> QED
  BY <1>1, <1>2, <1>3 DEF IInv

LEMMA NobodyMoves ==
  ASSUME IInv, TypeOK', Keeps, UNCHANGED <<journal, granted, ran>>,
         \A q \in Process : pc'[q] = pc[q] /\ (pc[q] # "idle" => call'[q] = call[q])
  PROVE  IInv'
<1>1. \A q \in Process : pc[q] # "idle" => Busy(q)'
  <2> TAKE q \in Process
  <2> HAVE pc[q] # "idle"
  <2>1. Busy(q) /\ call[q].exec \in Execution
    BY DEF IInv, BusyOK, Busy, Presented, Call
  <2>2. PICK x \in Execution : x = call[q].exec
    BY <2>1
  <2> QED
    BY <2>1, <2>2, BusyStays DEF IInv
<1>2. BusyOK' /\ Exclusive'
  BY <1>1 DEF BusyOK, Exclusive, IInv
<1>3. \A x \in Execution : Honest(x)' /\ OnRecord(x)'
  BY HonestStays, OnRecordStays DEF IInv
<1> QED
  BY <1>2, <1>3 DEF IInv

LEMMA SignedStep ==
  ASSUME IInv,
         \/ \E d \in Decision : Evaluate(d)
         \/ \E a \in Approval, d \in Decision : Approve(a, d)
         \/ \E t \in Token, d \in Decision, a \in Approval \cup {None} : Issue(t, d, a)
  PROVE  IInv'
<1>1. TypeOK'
  BY SignedTyped DEF IInv
<1>2. Keeps
  BY DEF Evaluate, Approve, Issue, Keeps, RecordsStay, ClaimsStay, IInv, TypeOK, store
<1>3. UNCHANGED <<pc, call, journal, granted, ran>>
  BY DEF Evaluate, Approve, Issue, history
<1> QED
  BY <1>1, <1>2, <1>3, NobodyMoves

LEMMA EnvironmentStep ==
  ASSUME IInv, Purge \/ Tick
  PROVE  IInv'
<1>1. TypeOK'
  BY EnvironmentTyped DEF IInv
<1>2. Keeps
  BY DEF Purge, Tick, Keeps, RecordsStay, ClaimsStay, authority, store
<1>3. UNCHANGED <<pc, call, journal, granted, ran>>
  BY DEF Purge, Tick, history
<1> QED
  BY <1>1, <1>2, <1>3, NobodyMoves

\* An execution without a file has done nothing.
LEMMA AbsentIsFresh ==
  ASSUME IInv, NEW x \in Execution, ~Exists(x)
  PROVE  granted[x] = None /\ ran[x] = "no" /\ \A q \in Process : pc[q] # "idle" => call[q].exec # x
<1>1. granted[x] = None /\ ran[x] = "no"
  BY DEF IInv, Honest, State
<1>2. \A q \in Process : pc[q] # "idle" => call[q].exec # x
  BY DEF IInv, BusyOK, Busy, Progress, Exists
<1> QED
  BY <1>1, <1>2

LEMMA BeginStep ==
  ASSUME IInv, NEW p \in Process, Begin(p)
  PROVE  IInv'
<1>1. TypeOK' /\ Keeps
  BY BeginTyped, ProcessKeeps DEF Steps, IInv
<1>2. PICK x \in Execution, t \in Token, d \in Decision, a \in Approval \cup {None} :
        /\ ~Exists(x) /\ tokens[t] # None /\ decisions[d] # None
        /\ a # None => approvals[a] # None
        /\ call' = [call EXCEPT ![p] = [exec |-> x, token |-> t, decision |-> d,
                                        approval |-> a, now |-> clock]]
        /\ journal' = [journal EXCEPT ![x] = <<"requested">>]
  BY DEF Begin
<1>3. /\ pc' = [pc EXCEPT ![p] = "check"]
      /\ UNCHANGED <<decisions, approvals, tokens, granted, ran>>
  BY DEF Begin, Go, authority, history
<1>4. /\ call'[p] = [exec |-> x, token |-> t, decision |-> d, approval |-> a, now |-> clock]
      /\ pc'[p] = "check" /\ journal'[x] = <<"requested">>
  BY <1>2, <1>3 DEF IInv, TypeOK
<1>5. granted[x] = None /\ ran[x] = "no" /\ \A q \in Process : pc[q] # "idle" => call[q].exec # x
  BY <1>2, AbsentIsFresh
<1>6. State(x)' = "indeterminate" /\ journal'[x] # None /\ Intended(journal'[x])
  BY <1>4, RecoverIntent, NoneIsFresh DEF State, Exists, Intended
<1>7. Busy(p)'
  <2>1. PICK c \in Call : c = [exec |-> x, token |-> t, decision |-> d,
                              approval |-> a, now |-> clock]
    BY DEF Call, IInv, TypeOK
  <2>2. Presented(c)'
    BY <1>2, <1>3, <2>1 DEF Presented
  <2>3. Progress(c.exec, "check")'
    BY <1>3, <1>5, <1>6, <2>1 DEF Progress, Unauthorized
  <2>4. Cleared(c, "check")' /\ Claimed(c.exec, c, "check")'
    BY DEF Cleared, Claimed
  <2> QED
    BY <1>4, <2>1, <2>2, <2>3, <2>4, BusyNow
<1>8. Honest(x)' /\ OnRecord(x)'
  BY <1>3, <1>5, <1>6 DEF Honest, OnRecord
<1>9. /\ \A q \in Process \ {p} : pc'[q] = pc[q] /\ call'[q] = call[q]
      /\ \A y \in Execution \ {x} :
           journal'[y] = journal[y] /\ granted'[y] = granted[y] /\ ran'[y] = ran[y]
      /\ call'[p].exec = x
  BY <1>2, <1>3, <1>4 DEF IInv, TypeOK
<1> QED
  BY <1>1, <1>5, <1>7, <1>8, <1>9, OneProcessMoves

LEMMA BeginFailsStep ==
  ASSUME IInv, NEW p \in Process, BeginFails(p)
  PROVE  IInv'
<1>1. TypeOK' /\ Keeps
  BY BeginTyped, ProcessKeeps DEF Steps, IInv
<1>2. PICK x \in Execution, line \in {"torn", "requested"} :
        ~Exists(x) /\ journal' = [journal EXCEPT ![x] = <<line>>]
  BY DEF BeginFails
<1>3. pc[p] = "idle" /\ UNCHANGED <<pc, call, granted, ran>>
  BY DEF BeginFails, history
<1>4. granted[x] = None /\ ran[x] = "no" /\ \A q \in Process : pc[q] # "idle" => call[q].exec # x
  BY <1>2, AbsentIsFresh
<1>5. journal'[x] = <<line>> /\ State(x)' \in {"none", "indeterminate"}
  BY <1>2, RecoverIntent DEF State, Exists, IInv, TypeOK
<1>6. Honest(x)' /\ OnRecord(x)'
  BY <1>3, <1>4, <1>5 DEF Honest, OnRecord
<1>7. \A y \in Execution \ {x} :
        journal'[y] = journal[y] /\ granted'[y] = granted[y] /\ ran'[y] = ran[y]
  BY <1>2, <1>3 DEF IInv, TypeOK
<1> QED
  BY <1>1, <1>3, <1>4, <1>6, <1>7, OneProcessMoves

\* While a call is being checked its execution does not change.
LEMMA CheckingStep ==
  ASSUME IInv, TypeOK', Keeps, NEW p \in Process,
         pc[p] \in Unauthorized, NEW label \in Unauthorized, pc'[p] = label,
         \A q \in Process \ {p} : pc'[q] = pc[q] /\ call'[q] = call[q],
         UNCHANGED <<journal, granted, ran>>,
         NEW c \in Call, call'[p] = c, c.exec = call[p].exec, Presented(c)',
         Cleared(c, label)', ~Purging => Claimed(c.exec, c, label)'
  PROVE  IInv'
<1>1. pc[p] # "idle"
  BY DEF Unauthorized
<1>2. Busy(p) /\ c.exec \in Execution
  BY <1>1, CallOK DEF IInv, BusyOK
<1>4. Progress(c.exec, label)'
  BY <1>2 DEF Busy, Progress, State, Exists, Unauthorized
<1>5. Busy(p)'
  BY <1>4, BusyNow
<1>6. Honest(c.exec)' /\ OnRecord(c.exec)'
  BY <1>2, HonestStays, OnRecordStays DEF IInv
<1>7. OwnStep(p)
  BY <1>1 DEF OwnStep
<1> QED
  BY <1>2, <1>5, <1>6, <1>7, OwnMoves

LEMMA CheckStep ==
  ASSUME IInv, NEW p \in Process, Check(p)
  PROVE  IInv'
<1>1. TypeOK' /\ Keeps
  BY ConsumeTyped, ProcessKeeps DEF Steps, Consume, IInv
<1>2. /\ pc[p] = "check" /\ pc' = [pc EXCEPT ![p] = IF Valid(p, clock) THEN "token" ELSE "deny"]
      /\ call' = [call EXCEPT ![p].now = clock]
      /\ UNCHANGED <<decisions, approvals, tokens, journal, granted, ran>>
  BY DEF Check, Go, authority, history
<1>3. PICK c \in Call : c = [call[p] EXCEPT !.now = clock]
  BY <1>2, CallOK DEF Call, IInv, TypeOK
<1>4. /\ c.exec = call[p].exec /\ c.token = call[p].token /\ c.decision = call[p].decision
      /\ c.approval = call[p].approval
  BY <1>2, <1>3, CallOK DEF Call
<1>5. /\ call'[p] = c
      /\ pc'[p] = IF Valid(p, clock) THEN "token" ELSE "deny"
      /\ \A q \in Process \ {p} : pc'[q] = pc[q] /\ call'[q] = call[q]
  BY <1>2, <1>3 DEF IInv, TypeOK
<1>6. Presented(c)'
  BY <1>2, <1>4 DEF IInv, BusyOK, Busy, Presented
<1>7. PICK label \in {"token", "deny"} :
        pc'[p] = label /\ (label = "token" => Valid(p, clock))
  BY <1>5
<1>8. Cleared(c, label)'
  <2>1. Valid(p, clock) => Obeyed(c)
    BY <1>4 DEF Valid, Permitted, ApprovalHolds, Obeyed
  <2> QED
    BY <1>2, <1>7, <2>1 DEF Cleared, Obeyed
<1>9. Claimed(c.exec, c, label)'
  BY <1>7 DEF Claimed
<1>10. pc[p] \in Unauthorized /\ label \in Unauthorized
  BY <1>2, <1>7 DEF Unauthorized
<1> QED
  BY <1>1, <1>2, <1>4, <1>5, <1>6, <1>7, <1>8, <1>9, <1>10, CheckingStep

LEMMA ClaimStep ==
  ASSUME IInv, NEW p \in Process,
         ClaimToken(p) \/ BindKey(p) \/ ClaimApproval(p) \/ StoreFails(p)
  PROVE  IInv'
<1>1. TypeOK' /\ Keeps
  BY ConsumeTyped, ProcessKeeps DEF Steps, Consume, IInv
<1>2. /\ pc[p] \in {"token", "key", "approval"}
      /\ UNCHANGED <<decisions, approvals, tokens, call, journal, granted, ran>>
      /\ \E label \in Labels : Go(p, label)
  BY DEF ClaimToken, BindKey, ClaimApproval, StoreFails, authority, history, Labels
<1>3. /\ pc[p] # "idle" /\ Busy(p)
      /\ \A q \in Process \ {p} : pc'[q] = pc[q] /\ call'[q] = call[q]
  BY <1>2 DEF IInv, TypeOK, BusyOK, Go
<1>4. PICK c \in Call : c = call[p]
  BY <1>3, CallOK
<1>5. /\ c.exec \in Execution /\ c.token \in Token /\ c.approval \in Approval \cup {None}
      /\ KeyOf[c.decision] \in Key
      /\ ClaimRecord(p).by = c.exec /\ ClaimRecord(p) # None
  BY <1>3, <1>4, CallOK, RecordTyped DEF ClaimRecord
<1>6. Presented(c)' /\ Obeyed(c)'
  BY <1>2, <1>3, <1>4 DEF Busy, Presented, Cleared, Obeyed
<1>7. PICK label \in {"key", "approval", "authorize", "deny"} :
        pc'[p] = label /\ (~Purging => Claimed(c.exec, c, label)')
  <2>0. \A label : label = "deny" => Claimed(c.exec, c, label)'
    BY DEF Claimed
  <2>1. CASE ClaimToken(p)
    <3>1. pc'[p] = "deny" \/ (pc'[p] = "key" /\ spentTokens'[c.token] = ClaimRecord(p))
      BY <1>4, <1>5, <2>1 DEF ClaimToken, Go, IInv, TypeOK
    <3>2. spentTokens'[c.token] = ClaimRecord(p) => Claimed(c.exec, c, "key")'
      BY <1>5 DEF Claimed
    <3> QED
      BY <2>0, <3>1, <3>2
  <2>2. CASE BindKey(p)
    <3>1. \/ pc'[p] = "deny"
          \/ /\ pc'[p] = IF c.approval = None THEN "authorize" ELSE "approval"
             /\ boundKeys'[KeyOf[c.decision]] = ClaimRecord(p)
             /\ pc[p] = "key" /\ UNCHANGED spentTokens
      BY <1>4, <1>5, <2>2 DEF BindKey, Go, IInv, TypeOK
    <3>2. ~Purging /\ pc[p] = "key" => spentTokens[c.token] # None /\ spentTokens[c.token].by = c.exec
      BY <1>3, <1>4 DEF Busy, Claimed
    <3>3. CASE pc'[p] = "deny"
      BY <2>0, <3>3
    <3>4. CASE pc'[p] # "deny"
      <4>1. PICK label \in {"approval", "authorize"} :
              pc'[p] = label /\ (label = "authorize" => c.approval = None)
        BY <3>1, <3>4
      <4>2. ~Purging => Claimed(c.exec, c, label)'
        BY <1>5, <3>1, <3>2, <3>4, <4>1 DEF Claimed
      <4> QED
        BY <4>1, <4>2
    <3> QED
      BY <3>3, <3>4
  <2>3. CASE ClaimApproval(p)
    <3>1. \/ pc'[p] = "deny"
          \/ /\ pc'[p] = "authorize"
             /\ c.approval \in Approval => spentApprovals'[c.approval] = ClaimRecord(p)
             /\ pc[p] = "approval" /\ UNCHANGED <<spentTokens, boundKeys>>
      BY <1>4, <1>5, <2>3 DEF ClaimApproval, Go, IInv, TypeOK
    <3>2. ~Purging /\ pc[p] = "approval" =>
            /\ spentTokens[c.token] # None /\ spentTokens[c.token].by = c.exec
            /\ boundKeys[KeyOf[c.decision]] # None /\ boundKeys[KeyOf[c.decision]].by = c.exec
      BY <1>3, <1>4 DEF Busy, Claimed
    <3>3. pc'[p] # "deny" => (~Purging => Claimed(c.exec, c, "authorize")')
      BY <1>5, <3>1, <3>2 DEF Claimed
    <3> QED
      BY <2>0, <3>1, <3>3
  <2>4. CASE StoreFails(p)
    <3>1. pc'[p] = "deny"
      BY <2>4 DEF StoreFails, Go, IInv, TypeOK
    <3> QED
      BY <2>0, <3>1
  <2> QED
    BY <2>1, <2>2, <2>3, <2>4
<1>8. pc[p] \in Unauthorized /\ label \in Unauthorized
  BY <1>2, <1>7 DEF Unauthorized
<1>9. Cleared(c, label)'
  BY <1>6 DEF Cleared
<1> QED
  BY <1>1, <1>2, <1>3, <1>4, <1>6, <1>7, <1>8, <1>9, CheckingStep

LEMMA AuthorizeStep ==
  ASSUME IInv, NEW p \in Process, Authorize(p)
  PROVE  IInv'
<1>1. TypeOK' /\ Keeps
  BY ConsumeTyped, ProcessKeeps DEF Steps, Consume, IInv
<1>2. pc[p] = "authorize" /\ pc[p] # "idle" /\ Busy(p)
  BY DEF Authorize, IInv, BusyOK
<1>3. PICK c \in Call : c = call[p]
  BY <1>2, CallOK
<1>4. PICK e \in Execution : e = c.exec
  BY <1>2, <1>3, CallOK
<1>5. PICK g \in Grant :
        /\ g.token = c.token /\ g.decision = c.decision /\ g.approval = c.approval
        /\ granted' = [granted EXCEPT ![e] = g]
  <2> DEFINE g == [token |-> c.token, decision |-> c.decision, approval |-> c.approval,
                   process |-> p, life |-> lives[p]]
  <2>1. g \in Grant
    BY <1>2, <1>3, CallOK DEF Grant, IInv, TypeOK
  <2>2. granted' = [granted EXCEPT ![e] = g]
    BY <1>3, <1>4 DEF Authorize
  <2> QED
    BY <2>1, <2>2
<1>6. /\ pc' = [pc EXCEPT ![p] = "start"]
      /\ UNCHANGED <<decisions, approvals, tokens, spentTokens, boundKeys, spentApprovals,
                     call, journal, ran>>
  BY DEF Authorize, Go, authority, store
<1>7. /\ granted'[e] = g /\ g # None /\ pc'[p] = "start" /\ call'[p] = c
      /\ OwnStep(p)
  BY <1>2, <1>3, <1>4, <1>5, <1>6, NoneIsFresh DEF OwnStep, IInv, TypeOK
<1>8. /\ Presented(c) /\ Obeyed(c) /\ Progress(e, "authorize")
      /\ ~Purging => Claimed(e, c, "authorize")
  BY <1>2, <1>3, <1>4 DEF Busy, Cleared
<1>9. Busy(p)'
  <2>1. Presented(c)'
    BY <1>6, <1>8 DEF Presented
  <2>2. Progress(c.exec, "start")'
    BY <1>4, <1>6, <1>7, <1>8 DEF Progress, Unauthorized, State, Exists
  <2>3. Cleared(c, "start")' /\ Claimed(c.exec, c, "start")'
    BY DEF Cleared, Claimed
  <2> QED
    BY <1>7, <2>1, <2>2, <2>3, BusyNow
<1>10. Honest(e)'
  BY <1>6, <1>7, <1>8 DEF Honest, Progress, State, Exists, Unauthorized
<1>11. OnRecord(e)'
  <2>1. Obeyed(g)'
    BY <1>5, <1>6, <1>8 DEF Obeyed
  <2>2. ~Purging => Claimed(e, g, "authorize")'
    BY <1>5, <1>6, <1>8 DEF Claimed
  <2>3. /\ tokens'[g.token] # None /\ decisions'[g.decision] # None
        /\ g.approval # None => approvals'[g.approval] # None
    BY <1>5, <1>6, <1>8 DEF Presented
  <2> QED
    BY <1>7, <2>1, <2>2, <2>3 DEF OnRecord
<1> QED
  BY <1>1, <1>3, <1>4, <1>7, <1>9, <1>10, <1>11, OwnMoves

\* From the authorization on nothing is left to claim: a step is about the
\* journal and the guest.
LEMMA RunningStep ==
  ASSUME IInv, TypeOK', Keeps, NEW p \in Process, OwnStep(p), UNCHANGED granted,
         NEW e \in Execution, e = call[p].exec, Honest(e)',
         \/ pc'[p] = "idle"
         \/ /\ UNCHANGED call
            /\ \E label \in {"run", "guest", "finish"} : pc'[p] = label /\ Progress(e, label)'
  PROVE  IInv'
<1>1. OnRecord(e)'
  BY OnRecordStays DEF IInv
<1>2. CASE pc'[p] = "idle"
  BY <1>1, <1>2, OwnMoves
<1>3. ASSUME UNCHANGED call, NEW label \in {"run", "guest", "finish"},
             pc'[p] = label, Progress(e, label)'
      PROVE  IInv'
  <2>1. PICK c \in Call : c = call[p]
    BY CallOK DEF OwnStep
  <2>2. Presented(c)
    BY <2>1 DEF OwnStep, IInv, BusyOK, Busy
  <2>3. Presented(c)'
    BY <2>2 DEF Presented, Keeps, RecordsStay, Call
  <2>4. Cleared(c, label)' /\ Claimed(c.exec, c, label)'
    BY DEF Cleared, Claimed
  <2>5. Busy(p)' /\ call'[p].exec = e
    BY <1>3, <2>1, <2>3, <2>4, BusyNow
  <2> QED
    BY <1>1, <2>5, OwnMoves
<1> QED
  BY <1>2, <1>3

LEMMA GuestStep ==
  ASSUME IInv, NEW p \in Process,
         MarkStarted(p) \/ EnterGuest(p) \/ LeaveGuest(p) \/ Finish(p) \/ RecordDenial(p)
  PROVE  IInv'
<1>1. TypeOK' /\ Keeps
  BY RunTyped, ProcessKeeps DEF Steps, Run, IInv
<1>2. pc[p] \in {"start", "run", "guest", "finish", "deny"} /\ pc[p] # "idle" /\ UNCHANGED granted
  BY DEF MarkStarted, EnterGuest, LeaveGuest, Finish, RecordDenial, history
<1>3. PICK e \in Execution : e = call[p].exec
  BY <1>2, CallOK
<1>4. /\ Progress(e, pc[p]) /\ Honest(e) /\ journal[e] \in Seq(Line) /\ journal[e] # None
      /\ Intended(journal[e])
  BY <1>2, <1>3, CallOK DEF IInv, BusyOK, Busy, Progress
<1>5. OwnStep(p)
  BY <1>2, <1>3 DEF MarkStarted, EnterGuest, LeaveGuest, Finish, RecordDenial, AppendLine,
                    Go, Leave, OwnStep, IInv, TypeOK, history
<1>6. ASSUME NEW line \in {"started", "completed", "failed", "denied"},
             AppendLine(e, line)
      PROVE  journal'[e] # None /\ Intended(journal'[e]) /\ State(e)' = line
  <2>1. journal'[e] = Append(journal[e], line)
    BY <1>6 DEF AppendLine, IInv, TypeOK
  <2>2. Intended(journal'[e]) /\ Recovered(journal'[e]) = line
    BY <1>4, <2>1, RecoverLine
  <2>3. journal'[e] # None
    BY <2>2, NoneIsFresh DEF Intended
  <2> QED
    BY <2>2, <2>3 DEF State, Exists
<1>7. CASE MarkStarted(p)
  <2>1. /\ pc[p] = "start" /\ pc'[p] = "run" /\ UNCHANGED <<call, ran>>
        /\ AppendLine(e, "started")
    BY <1>3, <1>7 DEF MarkStarted, Go, IInv, TypeOK, history
  <2>2. Progress(e, "run")' /\ Honest(e)'
    BY <1>2, <1>4, <1>6, <2>1 DEF Progress, Honest, Unauthorized
  <2> QED
    BY <1>1, <1>2, <1>3, <1>5, <2>1, <2>2, RunningStep
<1>8. CASE EnterGuest(p)
  <2>1. /\ pc[p] = "run" /\ pc'[p] = "guest" /\ UNCHANGED <<call, journal>>
        /\ ran'[e] = "entered"
    BY <1>3, <1>8 DEF EnterGuest, Go, IInv, TypeOK
  <2>2. Progress(e, "guest")' /\ Honest(e)'
    BY <1>2, <1>4, <2>1 DEF Progress, Honest, Unauthorized, State, Exists
  <2> QED
    BY <1>1, <1>2, <1>3, <1>5, <2>1, <2>2, RunningStep
<1>9. CASE LeaveGuest(p)
  <2>1. /\ pc[p] = "guest" /\ pc'[p] = "finish" /\ UNCHANGED <<call, journal>>
        /\ ran'[e] \in {"completed", "failed"}
    BY <1>3, <1>9 DEF LeaveGuest, Go, IInv, TypeOK
  <2>2. Progress(e, "finish")' /\ Honest(e)'
    BY <1>2, <1>4, <2>1 DEF Progress, Honest, Unauthorized, State, Exists
  <2> QED
    BY <1>1, <1>2, <1>3, <1>5, <2>1, <2>2, RunningStep
<1>10. CASE Finish(p)
  <2>1. pc[p] = "finish" /\ pc'[p] = "idle" /\ UNCHANGED ran /\ AppendLine(e, ran[e])
    BY <1>3, <1>10 DEF Finish, Leave, IInv, TypeOK, history
  <2>2. ran[e] \in {"completed", "failed"} /\ granted[e] # None
    BY <1>4, <2>1 DEF Progress, Unauthorized
  <2>3. Honest(e)'
    BY <1>2, <1>6, <2>1, <2>2 DEF Honest
  <2> QED
    BY <1>1, <1>2, <1>3, <1>5, <2>1, <2>3, RunningStep
<1>11. CASE RecordDenial(p)
  <2>1. pc[p] = "deny" /\ pc'[p] = "idle" /\ UNCHANGED ran /\ AppendLine(e, "denied")
    BY <1>3, <1>11 DEF RecordDenial, Leave, IInv, TypeOK, history
  <2>2. ran[e] = "no" /\ granted[e] = None
    BY <1>4, <2>1 DEF Progress, Unauthorized
  <2>3. Honest(e)'
    BY <1>2, <1>6, <2>1, <2>2 DEF Honest
  <2> QED
    BY <1>1, <1>2, <1>3, <1>5, <2>1, <2>3, RunningStep
<1> QED
  BY <1>7, <1>8, <1>9, <1>10, <1>11

\* Whatever an interrupted append left, recovery still tells the truth.
LEMMA CutShortIsHonest ==
  ASSUME IInv, NEW p \in Process, pc[p] # "idle", CutShort(p), UNCHANGED <<granted, ran>>,
         NEW e \in Execution, e = call[p].exec
  PROVE  /\ Honest(e)'
         /\ \A x \in Execution : x # e => journal'[x] = journal[x]
<1>1. /\ Progress(e, pc[p]) /\ Honest(e) /\ journal[e] # None /\ Intended(journal[e])
  BY DEF IInv, BusyOK, Busy, Progress
<1>2. CASE UNCHANGED journal
  BY <1>1, <1>2, HonestStays
<1>3. CASE pc[p] \in {"start", "finish", "deny"} /\
           \E line \in {Pending(p), "torn"} : AppendLine(e, line)
  <2>1. PICK line \in {Pending(p), "torn"} : AppendLine(e, line)
    BY <1>3
  <2>2. /\ journal'[e] = Append(journal[e], line)
        /\ \A x \in Execution : x # e => journal'[x] = journal[x]
    BY <2>1 DEF AppendLine, IInv, TypeOK
  <2>3. /\ pc[p] = "start" => Pending(p) = "started"
        /\ pc[p] = "finish" => Pending(p) = ran[e]
        /\ pc[p] = "deny" => Pending(p) = "denied"
    BY DEF Pending
  <2>4. pc[p] = "finish" => ran[e] \in {"completed", "failed"}
    BY <1>1 DEF Progress
  <2>5. State(e)' \in {State(e), Pending(p)}
    <3>1. CASE line = "torn"
      <4>1. Intended(journal'[e]) /\ Recovered(journal'[e]) = Recovered(journal[e])
        BY <1>1, <2>2, <3>1, RecoverTorn
      <4>2. journal'[e] # None
        BY <4>1, NoneIsFresh DEF Intended
      <4> QED
        BY <1>1, <4>1, <4>2 DEF State, Exists
    <3>2. CASE line = Pending(p)
      <4>1. Pending(p) \in {"started", "completed", "failed", "denied"}
        BY <1>3, <2>3, <2>4
      <4>2. Intended(journal'[e]) /\ Recovered(journal'[e]) = Pending(p)
        BY <1>1, <2>2, <3>2, <4>1, RecoverLine
      <4>3. journal'[e] # None
        BY <4>2, NoneIsFresh DEF Intended
      <4> QED
        BY <4>2, <4>3 DEF State, Exists
    <3> QED
      BY <2>1, <3>1, <3>2
  <2>6. \/ /\ State(e)' \in {"indeterminate", "started"}
           /\ ran'[e] = "no"
        \/ /\ State(e)' \in {"started", ran'[e]}
           /\ ran'[e] \in {"completed", "failed"}
        \/ /\ State(e)' \in {"indeterminate", "denied"}
           /\ ran'[e] = "no" /\ granted'[e] = None
    <3>1. CASE pc[p] = "start"
      <4>1. State(e) = "indeterminate" /\ ran[e] = "no"
        BY <1>1, <3>1 DEF Progress
      <4> QED
        BY <2>3, <2>5, <3>1, <4>1
    <3>2. CASE pc[p] = "finish"
      <4>1. State(e) = "started"
        BY <1>1, <3>2 DEF Progress
      <4> QED
        BY <2>3, <2>4, <2>5, <3>2, <4>1
    <3>3. CASE pc[p] = "deny"
      <4>1. State(e) = "indeterminate" /\ ran[e] = "no" /\ granted[e] = None
        BY <1>1, <3>3 DEF Progress, Unauthorized
      <4> QED
        BY <2>3, <2>5, <3>3, <4>1
    <3> QED
      BY <1>3, <3>1, <3>2, <3>3
  <2>7. ran'[e] # "no" => granted'[e] # None
    BY <1>1 DEF Honest
  <2>8. Honest(e)'
    BY <2>6, <2>7 DEF Honest
  <2> QED
    BY <2>2, <2>8
<1> QED
  BY <1>2, <1>3 DEF CutShort

LEMMA InterruptedStep ==
  ASSUME IInv, NEW p \in Process, AppendFails(p) \/ Kill(p)
  PROVE  IInv'
<1>1. TypeOK' /\ Keeps
  BY RunTyped, ProcessKeeps DEF Steps, Run, IInv
<1>2. /\ CutShort(p) /\ UNCHANGED <<granted, ran>>
      /\ pc' = [pc EXCEPT ![p] = "idle"] /\ call' = [call EXCEPT ![p] = None]
  BY DEF AppendFails, Kill, Leave, history
<1>3. pc'[p] = "idle" /\ \A q \in Process \ {p} : pc'[q] = pc[q] /\ call'[q] = call[q]
  BY <1>2 DEF IInv, TypeOK
<1>4. CASE pc[p] = "idle"
  <2>1. UNCHANGED journal
    BY <1>2, <1>4 DEF CutShort
  <2> QED
    BY <1>1, <1>2, <1>3, <1>4, <2>1, NobodyMoves
<1>5. CASE pc[p] # "idle"
  <2>1. PICK e \in Execution : e = call[p].exec
    BY <1>5, CallOK
  <2>2. Honest(e)' /\ OwnStep(p)
    BY <1>2, <1>3, <1>5, <2>1, CutShortIsHonest DEF OwnStep
  <2> QED
    BY <1>1, <1>2, <1>3, <2>1, <2>2, RunningStep
<1> QED
  BY <1>4, <1>5

LEMMA Inductive ==
  ASSUME IInv, [Next]_vars
  PROVE  IInv'
<1>1. CASE UNCHANGED vars
  BY <1>1, SMTT(30) DEF vars, IInv, TypeOK, BusyOK, Busy, Presented, Progress, Cleared, Claimed, Obeyed,
              Exclusive, Honest, OnRecord, State, Exists
<1>2. ASSUME NEW p \in Process, Steps(p) PROVE IInv'
  BY <1>2, BeginStep, BeginFailsStep, CheckStep, ClaimStep, AuthorizeStep, GuestStep,
     InterruptedStep DEF Steps, Consume, Run
<1> QED
  BY <1>1, <1>2, SignedStep, EnvironmentStep DEF Next, Steps

LEMMA Invariant == Spec => []IInv
<1>1. Init => IInv
  BY Initially
<1>2. IInv /\ [Next]_vars => IInv'
  BY Inductive
<1> QED
  BY <1>1, <1>2, PTL DEF Spec

----------------------------------------------------------------------------
(* What a validator remembers.  The store may have been purged under it.    *)

Consuming == {"token", "key", "approval", "authorize"}

\* A validator's memory knows nothing of what a call presents, or all of it.
Unknown(m, c) ==
  c.token \notin m.tokens /\ KeyOf[c.decision] \notin m.keys /\ c.approval \notin m.approvals

Known(m, g) ==
  /\ g.token \in m.tokens
  /\ KeyOf[g.decision] \in m.keys
  /\ g.approval # None => g.approval \in m.approvals

\* A grant of the current life is remembered; past the check, a call presents
\* nothing that is: the memory changes only when this process itself authorizes.
MemoryInv ==
  /\ \A x \in Execution : granted[x] # None =>
       LET g == granted[x] IN
       /\ g.life <= lives[g.process]
       /\ g.life = lives[g.process] => Known(memory[g.process], g)
  /\ \A p \in Process : pc[p] \in Consuming => Unknown(memory[p], call[p])
  /\ OncePerLife

\* A step that grants and forgets nothing, and lets nothing past the check that
\* is remembered.
LEMMA MemoryStays ==
  ASSUME MemoryInv, UNCHANGED <<granted, lives, memory>>,
         \A p \in Process : pc'[p] \in Consuming =>
           \/ pc[p] \in Consuming /\ call'[p] = call[p]
           \/ Unknown(memory[p], call'[p])
  PROVE  MemoryInv'
<1>1. OncePerLife'
  BY DEF MemoryInv, OncePerLife, Both, Overlap, SharesApproval
<1>2. \A p \in Process : pc'[p] \in Consuming => Unknown(memory'[p], call'[p])
  BY DEF MemoryInv
<1>3. \A x \in Execution : granted'[x] # None =>
        /\ granted'[x].life <= lives'[granted'[x].process]
        /\ granted'[x].life = lives'[granted'[x].process] =>
             Known(memory'[granted'[x].process], granted'[x])
  BY DEF MemoryInv
<1> QED
  BY <1>1, <1>2, <1>3 DEF MemoryInv, Unknown, Known

LEMMA AuthorizeRemembers ==
  ASSUME IInv, MemoryInv, NEW p \in Process, Authorize(p)
  PROVE  MemoryInv'
<1> DEFINE c == call[p]  e == call[p].exec
           g == [token |-> c.token, decision |-> c.decision, approval |-> c.approval,
                 process |-> p, life |-> lives[p]]
           m == [tokens |-> memory[p].tokens \cup {c.token},
                 keys |-> memory[p].keys \cup {KeyOf[c.decision]},
                 approvals |-> memory[p].approvals \cup ({c.approval} \ {None})]
<1>1. /\ pc[p] = "authorize"
      /\ memory' = [memory EXCEPT ![p] = m]
      /\ granted' = [granted EXCEPT ![e] = g]
      /\ pc' = [pc EXCEPT ![p] = "start"]
      /\ UNCHANGED <<call, lives>>
  BY DEF Authorize, Go
<1>2. /\ TypeOK /\ e \in Execution /\ lives[p] \in Nat
      /\ memory \in [Process -> Memory] /\ granted \in [Execution -> Grant \cup {None}]
      /\ granted[e] = None
  <2>1. Busy(p)
    BY <1>1 DEF IInv, BusyOK
  <2> QED
    BY <1>1, <2>1, CallOK DEF IInv, TypeOK, Busy, Progress, Unauthorized
<1>3. Unknown(memory[p], c)
  BY <1>1 DEF MemoryInv, Consuming
<1>4. /\ granted'[e] = g /\ memory'[p] = m
      /\ \A x \in Execution : x # e => granted'[x] = granted[x]
      /\ \A q \in Process : q # p => memory'[q] = memory[q]
  BY <1>1, <1>2
<1>5. Known(m, g) /\ g.life = lives[p] /\ g.process = p
      /\ g.token = c.token /\ g.decision = c.decision /\ g.approval = c.approval
  BY DEF Known
<1>6. \A h : Known(memory[p], h) => Known(m, h)
  BY DEF Known
<1>7. \A x \in Execution : granted[x] # None =>
        granted[x] \in Grant /\ granted[x].process \in Process
  BY <1>2 DEF Grant
<1> HIDE DEF c, e, g, m
<1>8. ASSUME NEW x \in Execution, granted'[x] # None
      PROVE  /\ granted'[x].life <= lives'[granted'[x].process]
             /\ granted'[x].life = lives'[granted'[x].process] =>
                  Known(memory'[granted'[x].process], granted'[x])
  <2>1. CASE x = e
    BY <1>1, <1>2, <1>4, <1>5, <2>1
  <2>2. CASE x # e
    <3>1. /\ granted'[x] = granted[x] /\ granted[x].life <= lives[granted[x].process]
          /\ granted[x].life = lives[granted[x].process] =>
               Known(memory[granted[x].process], granted[x])
      BY <1>4, <1>8, <2>2 DEF MemoryInv
    <3> QED
      BY <1>1, <1>4, <1>6, <1>7, <1>8, <3>1
  <2> QED
    BY <2>1, <2>2
<1>9. ASSUME NEW q \in Process, pc'[q] \in Consuming PROVE Unknown(memory'[q], call'[q])
  <2>1. q # p /\ pc[q] \in Consuming
    BY <1>1, <1>2, <1>9 DEF TypeOK, Consuming
  <2> QED
    BY <1>1, <1>4, <2>1 DEF MemoryInv
\* The new grant meets an earlier one of this life only in what is unknown.
<1>10. ASSUME NEW y \in Execution, y # e, granted[y] # None,
              granted[y].process = p, granted[y].life = lives[p]
       PROVE  /\ granted[y].token # g.token
              /\ KeyOf[granted[y].decision] # KeyOf[g.decision]
              /\ granted[y].approval # None => granted[y].approval # g.approval
  <2>1. Known(memory[p], granted[y])
    BY <1>10 DEF MemoryInv
  <2> QED
    BY <2>1, <1>3, <1>5 DEF Known, Unknown
<1>11. OncePerLife'
  <2> SUFFICES ASSUME NEW x \in Execution, NEW y \in Execution, x # y,
                      granted'[x] # None, granted'[y] # None,
                      granted'[x].process = granted'[y].process,
                      granted'[x].life = granted'[y].life
               PROVE  /\ granted'[x].token # granted'[y].token
                      /\ KeyOf[granted'[x].decision] # KeyOf[granted'[y].decision]
                      /\ granted'[x].approval = granted'[y].approval => granted'[x].approval = None
    BY DEF OncePerLife, Both, Overlap, SharesApproval
  <2>1. CASE x = e
    BY <1>4, <1>5, <1>10, <2>1
  <2>2. CASE y = e
    BY <1>4, <1>5, <1>10, <2>2
  <2>3. CASE x # e /\ y # e
    BY <1>4, <2>3 DEF MemoryInv, OncePerLife, Both, Overlap, SharesApproval
  <2> QED
    BY <2>1, <2>2, <2>3
<1>12. \A x \in Execution : granted'[x] # None =>
         /\ granted'[x].life <= lives'[granted'[x].process]
         /\ granted'[x].life = lives'[granted'[x].process] =>
              Known(memory'[granted'[x].process], granted'[x])
  BY <1>8
<1>13. \A q \in Process : pc'[q] \in Consuming => Unknown(memory'[q], call'[q])
  BY <1>9
<1> QED
  BY <1>11, <1>12, <1>13 DEF MemoryInv, Known, Unknown

LEMMA KillForgets ==
  ASSUME IInv, MemoryInv, NEW p \in Process, Kill(p)
  PROVE  MemoryInv'
<1>1. /\ granted' = granted
      /\ lives' = [lives EXCEPT ![p] = lives[p] + 1]
      /\ memory' = [memory EXCEPT ![p] = Forgotten]
      /\ pc' = [pc EXCEPT ![p] = "idle"] /\ call' = [call EXCEPT ![p] = None]
  BY DEF Kill, Leave
<1>2. /\ lives \in [Process -> Nat] /\ memory \in [Process -> Memory]
      /\ pc \in [Process -> Labels]
      /\ \A x \in Execution : granted[x] # None =>
           granted[x].process \in Process /\ granted[x].life \in Nat
  BY DEF IInv, TypeOK, Grant
<1>3. ASSUME NEW x \in Execution, granted[x] # None
      PROVE  /\ granted[x].life <= lives'[granted[x].process]
             /\ granted[x].life = lives'[granted[x].process] =>
                  Known(memory'[granted[x].process], granted[x])
  <2>1. granted[x].life <= lives[granted[x].process]
    BY <1>3 DEF MemoryInv
  <2>2. CASE granted[x].process = p
    BY <1>1, <1>2, <1>3, <2>1, <2>2
  <2>3. CASE granted[x].process # p
    BY <1>1, <1>2, <1>3, <2>3 DEF MemoryInv
  <2> QED
    BY <2>2, <2>3
<1>4. ASSUME NEW q \in Process, pc'[q] \in Consuming PROVE Unknown(memory'[q], call'[q])
  <2>1. q # p
    BY <1>1, <1>2, <1>4 DEF Consuming
  <2> QED
    BY <1>1, <1>2, <1>4, <2>1 DEF MemoryInv
<1>5. OncePerLife'
  BY <1>1 DEF MemoryInv, OncePerLife, Both, Overlap, SharesApproval
<1>6. \A x \in Execution : granted'[x] # None =>
        /\ granted'[x].life <= lives'[granted'[x].process]
        /\ granted'[x].life = lives'[granted'[x].process] =>
             Known(memory'[granted'[x].process], granted'[x])
  BY <1>1, <1>3
<1>7. \A q \in Process : pc'[q] \in Consuming => Unknown(memory'[q], call'[q])
  BY <1>4
<1> QED
  BY <1>5, <1>6, <1>7 DEF MemoryInv, Known, Unknown

\* Every step keeps what validators remember in line with what they granted.
LEMMA MemoryStep == IInv /\ MemoryInv /\ [Next]_vars => MemoryInv'
<1> SUFFICES ASSUME IInv, MemoryInv, [Next]_vars PROVE MemoryInv'
  OBVIOUS
<1>t. pc \in [Process -> Labels] /\ call \in [Process -> Call \cup {None}]
  BY DEF IInv, TypeOK
<1>1. ASSUME UNCHANGED <<granted, lives, memory, pc, call>> PROVE MemoryInv'
  BY <1>1, MemoryStays
<1>2. ASSUME NEW p \in Process, Begin(p) PROVE MemoryInv'
  BY <1>2, <1>t, MemoryStays DEF Begin, Go, history, Consuming
<1>3. ASSUME NEW p \in Process, BeginFails(p) PROVE MemoryInv'
  BY <1>3, <1>1 DEF BeginFails, history
<1>4. ASSUME NEW p \in Process, Check(p) PROVE MemoryInv'
  <2>1. /\ UNCHANGED <<granted, lives, memory>>
        /\ call' = [call EXCEPT ![p].now = clock]
        /\ pc' = [pc EXCEPT ![p] = IF Valid(p, clock) THEN "token" ELSE "deny"]
        /\ pc[p] = "check"
    BY <1>4 DEF Check, Go, history
  <2>2. call[p] \in Call
    BY <2>1, CallOK
  <2>3. /\ call'[p].token = call[p].token /\ call'[p].decision = call[p].decision
        /\ call'[p].approval = call[p].approval
    BY <2>1, <2>2, <1>t DEF Call
  <2>4. Valid(p, clock) => Unknown(memory[p], call'[p])
    BY <2>3 DEF Valid, Unknown
  <2>5. pc'[p] \in Consuming => Valid(p, clock)
    BY <2>1, <1>t DEF Consuming
  <2>6. \A q \in Process : q # p => pc'[q] = pc[q] /\ call'[q] = call[q]
    BY <2>1, <1>t
  <2> QED
    BY <2>1, <2>4, <2>5, <2>6, MemoryStays
<1>5. ASSUME NEW p \in Process,
             ClaimToken(p) \/ BindKey(p) \/ ClaimApproval(p) \/ StoreFails(p)
      PROVE  MemoryInv'
  <2>1. /\ UNCHANGED <<granted, lives, memory, call>>
        /\ pc[p] \in Consuming
        /\ \A q \in Process : q # p => pc'[q] = pc[q]
    BY <1>5, <1>t DEF ClaimToken, BindKey, ClaimApproval, StoreFails, Go, history, Consuming
  <2> QED
    BY <2>1, MemoryStays
<1>6. ASSUME NEW p \in Process, Run(p) PROVE MemoryInv'
  <2>1. /\ UNCHANGED <<granted, lives, memory>>
        /\ pc'[p] \notin Consuming
        /\ \A q \in Process : q # p => pc'[q] = pc[q] /\ call'[q] = call[q]
    BY <1>6, <1>t DEF Run, MarkStarted, EnterGuest, LeaveGuest, Finish, RecordDenial,
       AppendFails, Go, Leave, history, Consuming
  <2> QED
    BY <2>1, MemoryStays
<1>7. ASSUME \/ \E d \in Decision : Evaluate(d)
             \/ \E a \in Approval, d \in Decision : Approve(a, d)
             \/ \E t \in Token, d \in Decision, a \in Approval \cup {None} : Issue(t, d, a)
      PROVE  MemoryInv'
  BY <1>7, <1>1 DEF Evaluate, Approve, Issue, history
<1>8. CASE Purge \/ Tick
  BY <1>8, <1>1 DEF Purge, Tick, history
<1>9. CASE UNCHANGED vars
  BY <1>9, <1>1 DEF vars
<1> QED
  BY <1>2, <1>3, <1>4, <1>5, <1>6, <1>7, <1>8, <1>9, AuthorizeRemembers, KillForgets
     DEF Next, Consume

----------------------------------------------------------------------------
(* The theorems.                                                            *)

\* Every variable keeps its type.
THEOREM TypeCorrect == Spec => []TypeOK
<1>1. IInv => TypeOK
  BY DEF IInv
<1> QED
  BY <1>1, Invariant, PTL

\* Without purges a token, an idempotency key and an approval each authorize at
\* most one execution, whatever processes race, fail, die and restart.
THEOREM AuthorizedOnce ==
  ASSUME ~Purging
  PROVE  Spec => []OneUse
<1>1. IInv => OneUse
  <2> SUFFICES ASSUME IInv, NEW x \in Execution, NEW y \in Execution, Both(x, y), Overlap(x, y)
               PROVE  FALSE
    BY DEF OneUse
  <2>1. Claimed(x, granted[x], "authorize") /\ Claimed(y, granted[y], "authorize") /\ x # y
    BY DEF IInv, OnRecord, Both
  <2> QED
    BY <2>1 DEF Claimed, Overlap, SharesApproval
<1> QED
  BY <1>1, Invariant, PTL

\* A validator that does not restart authorizes no token, key or approval twice,
\* even when the records of the first use have been purged from the store.
THEOREM MemoryAuthorizesOnce == Spec => []OncePerLife
<1>1. Init => MemoryInv
  BY DEF Init, MemoryInv, OncePerLife, Both, Consuming
<1>2. MemoryInv => OncePerLife
  BY DEF MemoryInv
<1>3. Init => IInv
  BY Initially
<1>4. IInv /\ [Next]_vars => IInv'
  BY Inductive
<1> QED
  BY <1>1, <1>2, <1>3, <1>4, MemoryStep, PTL DEF Spec

\* Policy's verdict binds every execution that was ever authorized, purges and
\* restarts included.
THEOREM PolicyHolds == Spec => []PolicyIsObeyed
<1>1. IInv => PolicyIsObeyed
  BY DEF IInv, OnRecord, Obeyed, PolicyIsObeyed
<1> QED
  BY <1>1, Invariant, PTL

\* After any crash or failed write the journal does not misreport an execution.
THEOREM RecoveryIsHonest == Spec => []JournalIsHonest
<1>1. IInv => JournalIsHonest
  BY DEF IInv, Honest, JournalIsHonest
<1> QED
  BY <1>1, Invariant, PTL
==============================================================================
