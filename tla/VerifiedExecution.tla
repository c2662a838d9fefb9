-------------------------- MODULE VerifiedExecution --------------------------
(***************************************************************************)
(* From a policy decision to a sandboxed run: the owner approves, the      *)
(* issuer signs a Capability V2 token, and executors in several processes  *)
(* journal their intent, validate the token against one reading of the     *)
(* clock, consume it in the durable authority store and run the guest.     *)
(* Each durable operation is a step; a process may be killed before any    *)
(* of them.  A claim in the store is one step: AuthorityStore shows that   *)
(* its file operations amount to that.                                     *)
(***************************************************************************)
EXTENDS Naturals, Sequences, FiniteSets

CONSTANTS
  Process,      \* executors with their validators
  Decision,     \* policy authorizations; each binds one exact invocation
  KeyOf,        \* KeyOf[d]: the idempotency key d was evaluated for
  Approval,     \* fresh UUIDs for signed approvals
  Token,        \* fresh UUIDs for tokens
  Execution,    \* fresh UUIDs for executions
  None,
  TokenTTL,     \* CAPABILITY_V2_MAX_TTL_SECONDS, in ticks
  ApprovalTTL,  \* APPROVAL_MAX_TTL_SECONDS, in ticks
  DecisionAge,  \* CAPABILITY_V2_MAX_POLICY_AGE_SECONDS, in ticks
  Purging,      \* whether somebody calls purge_expired
  MaxTime,      \* bound: the last tick
  MaxFaults     \* bound: kills and failed durable operations

Key == {KeyOf[d] : d \in Decision}

VARIABLES
  clock,
  decisions,   \* decisions[d]: the verdict and when it was evaluated, or None
  approvals,   \* approvals[a]: the signed approval, or None
  tokens,      \* tokens[t]: the signed claims, or None
  spentTokens, boundKeys, spentApprovals,   \* the authority store
  memory,      \* memory[p]: what validator p remembers consuming
  pc, call,    \* the next durable step of p, and what p holds for it
  journal,     \* journal[x]: the complete and torn lines of the file of x
  granted,     \* granted[x]: what execution x was authorized with, or None
  ran,         \* ran[x]: how far the guest of x came
  lives,       \* lives[p]: restarts of process p
  faults

authority == <<decisions, approvals, tokens>>
store     == <<spentTokens, boundKeys, spentApprovals>>
history   == <<granted, ran, lives>>
vars      == <<clock, decisions, approvals, tokens, spentTokens, boundKeys,
               spentApprovals, memory, pc, call, journal, granted, ran, lives, faults>>

------------------------------------------------------------------------------
Time == 0 .. MaxTime

Verdict == [verdict : {"allow", "approve", "deny"}, at : Time]

SignedApproval == [decision : Decision, at : Time, expires : Nat]

Claims == [decision : Decision, approval : Approval \cup {None}, issued : Time, expires : Nat]

\* A record of the store; `by` is the execution whose claim wrote it.
Record == [by : Execution, expires : Nat]

Memory == [tokens : SUBSET Token, keys : SUBSET Key, approvals : SUBSET Approval]

Forgotten == [tokens |-> {}, keys |-> {}, approvals |-> {}]

Call == [exec : Execution, token : Token, decision : Decision,
         approval : Approval \cup {None}, now : Time]

Grant == [token : Token, decision : Decision, approval : Approval \cup {None},
          process : Process, life : Nat]

Line == {"requested", "started", "completed", "failed", "denied", "torn"}

ASSUME NoneIsFresh ==
  None \notin Approval \cup Record \cup Claims \cup SignedApproval \cup Verdict
              \cup Grant \cup Call \cup Seq(Line)
ASSUME TimesAreNaturals ==
  {TokenTTL, ApprovalTTL, DecisionAge, MaxTime, MaxFaults} \subseteq Nat
ASSUME PurgingIsBoolean == Purging \in BOOLEAN

\* ExecutionJournal::recover for one file: lines that do not parse are skipped,
\* a file without a complete intent is no execution, the last line decides.
LastIs(lines, line) ==
  \E i \in DOMAIN lines :
    /\ lines[i] = line
    /\ \A j \in DOMAIN lines : j > i => lines[j] = "torn"

Recovered(lines) ==
  IF \A i \in DOMAIN lines : lines[i] # "requested" THEN "none"
  ELSE CASE LastIs(lines, "started") -> "started"
         [] LastIs(lines, "completed") -> "completed"
         [] LastIs(lines, "failed") -> "failed"
         [] LastIs(lines, "denied") -> "denied"
         [] OTHER -> "indeterminate"

Exists(x) == journal[x] # None

State(x) == IF Exists(x) THEN Recovered(journal[x]) ELSE "none"

Terminal == {"completed", "failed", "denied"}

------------------------------------------------------------------------------
Init ==
  /\ clock = 0
  /\ decisions = [d \in Decision |-> None]
  /\ approvals = [a \in Approval |-> None]
  /\ tokens = [t \in Token |-> None]
  /\ spentTokens = [t \in Token |-> None]
  /\ boundKeys = [k \in Key |-> None]
  /\ spentApprovals = [a \in Approval |-> None]
  /\ memory = [p \in Process |-> Forgotten]
  /\ pc = [p \in Process |-> "idle"]
  /\ call = [p \in Process |-> None]
  /\ journal = [x \in Execution |-> None]
  /\ granted = [x \in Execution |-> None]
  /\ ran = [x \in Execution |-> "no"]
  /\ lives = [p \in Process |-> 0]
  /\ faults = 0

Fault == faults < MaxFaults /\ faults' = faults + 1

------------------------------------------------------------------------------
(* Decision, approval and token.                                            *)

\* evaluate_prepared
Evaluate(d) ==
  /\ decisions[d] = None
  /\ \E v \in {"allow", "approve", "deny"} :
       decisions' = [decisions EXCEPT ![d] = [verdict |-> v, at |-> clock]]
  /\ UNCHANGED <<clock, approvals, tokens, store, memory, pc, call, journal, history, faults>>

\* approve_invocation, on the owner's device
Approve(a, d) ==
  /\ approvals[a] = None
  /\ decisions[d] # None
  /\ \E ttl \in 1 .. ApprovalTTL :
       approvals' = [approvals EXCEPT ![a] =
                       [decision |-> d, at |-> clock, expires |-> clock + ttl]]
  /\ UNCHANGED <<clock, decisions, tokens, store, memory, pc, call, journal, history, faults>>

\* validate_policy_freshness: approval evidence extends the window.
Fresh(d, a, now) ==
  /\ decisions[d].at <= now
  /\ now - decisions[d].at <= (IF a # None THEN ApprovalTTL ELSE DecisionAge)

\* verify_approval
ApprovalHolds(a, d, now) ==
  /\ approvals[a].decision = d
  /\ approvals[a].at <= now
  /\ now < approvals[a].expires
  /\ decisions[d].at <= approvals[a].at

\* Plausible bug: evidence is verified when present, but nothing insists on it.
Permitted_EvidenceOptional(d, a, now) ==
  /\ decisions[d].verdict # "deny"
  /\ Fresh(d, a, now)
  /\ a # None => ApprovalHolds(a, d, now)

\* Evidence is there exactly when the decision requires it, and it verifies.
Permitted(d, a, now) ==
  /\ decisions[d].verdict # "deny"
  /\ Fresh(d, a, now)
  /\ (decisions[d].verdict = "approve") = (a # None)
  /\ a # None => ApprovalHolds(a, d, now)

\* issue and issue_approved.  The issuer remembers nothing: one decision and
\* one approval may back several tokens.
Issue(t, d, a) ==
  /\ tokens[t] = None
  /\ decisions[d] # None
  /\ a # None => approvals[a] # None
  /\ Permitted(d, a, clock)
  /\ \E ttl \in 1 .. TokenTTL :
       tokens' = [tokens EXCEPT ![t] = [decision |-> d, approval |-> a,
                                        issued |-> clock, expires |-> clock + ttl]]
  /\ UNCHANGED <<clock, decisions, approvals, store, memory, pc, call, journal, history, faults>>

------------------------------------------------------------------------------
(* VerifiedSandboxExecutor::execute_approved.                               *)

Go(p, label) == pc' = [pc EXCEPT ![p] = label]

Leave(p) ==
  /\ pc' = [pc EXCEPT ![p] = "idle"]
  /\ call' = [call EXCEPT ![p] = None]

AppendLine(x, line) == journal' = [journal EXCEPT ![x] = Append(@, line)]

\* Durable intent; an execution id is never used twice.
Begin(p) ==
  /\ pc[p] = "idle"
  /\ \E x \in Execution, t \in Token, d \in Decision, a \in Approval \cup {None} :
       /\ ~Exists(x) /\ tokens[t] # None /\ decisions[d] # None
       /\ a # None => approvals[a] # None
       /\ call' = [call EXCEPT ![p] = [exec |-> x, token |-> t, decision |-> d,
                                       approval |-> a, now |-> clock]]
       /\ journal' = [journal EXCEPT ![x] = <<"requested">>]
  /\ Go(p, "check")
  /\ UNCHANGED <<clock, authority, store, memory, history, faults>>

\* The intent cannot be written or flushed: execution is denied.
BeginFails(p) ==
  /\ pc[p] = "idle"
  /\ Fault
  /\ \E x \in Execution, line \in {"torn", "requested"} :
       /\ ~Exists(x)
       /\ journal' = [journal EXCEPT ![x] = <<line>>]
  /\ UNCHANGED <<clock, authority, store, memory, pc, call, history>>

\* The read-only part of authorize_and_consume_approved: everything is decided
\* at one reading of the clock, against this validator's own memory.
Valid(p, now) ==
  LET c == call[p]  claims == tokens[c.token]  mine == memory[p] IN
  /\ claims.issued <= now /\ now < claims.expires
  /\ claims.decision = c.decision
  /\ claims.approval = c.approval
  /\ Permitted(c.decision, c.approval, now)
  /\ c.token \notin mine.tokens
  /\ c.approval \notin mine.approvals
  /\ KeyOf[c.decision] \notin mine.keys

Check(p) ==
  /\ pc[p] = "check"
  /\ call' = [call EXCEPT ![p].now = clock]
  /\ Go(p, IF Valid(p, clock) THEN "token" ELSE "deny")
  /\ UNCHANGED <<clock, authority, store, memory, journal, history, faults>>

\* Every record of a claim carries the token's expiry.
ClaimRecord(p) == [by |-> call[p].exec, expires |-> tokens[call[p].token].expires]

ClaimToken(p) ==
  /\ pc[p] = "token"
  /\ IF spentTokens[call[p].token] = None
     THEN /\ spentTokens' = [spentTokens EXCEPT ![call[p].token] = ClaimRecord(p)]
          /\ Go(p, "key")
     ELSE Go(p, "deny") /\ UNCHANGED spentTokens
  /\ UNCHANGED <<clock, authority, boundKeys, spentApprovals, memory, call, journal,
                 history, faults>>

\* Plausible bug: a bound key is rebound, as if every retry were the same invocation.
BindKey_Rebinds(p) ==
  LET k == KeyOf[call[p].decision] IN
  /\ pc[p] = "key"
  /\ boundKeys' = [boundKeys EXCEPT ![k] = ClaimRecord(p)]
  /\ Go(p, IF call[p].approval = None THEN "authorize" ELSE "approval")
  /\ UNCHANGED <<clock, authority, spentTokens, spentApprovals, memory, call, journal,
                 history, faults>>

\* A bound key denies, as a replay or as a conflict.
BindKey(p) ==
  LET k == KeyOf[call[p].decision] IN
  /\ pc[p] = "key"
  /\ IF boundKeys[k] = None
     THEN /\ boundKeys' = [boundKeys EXCEPT ![k] = ClaimRecord(p)]
          /\ Go(p, IF call[p].approval = None THEN "authorize" ELSE "approval")
     ELSE Go(p, "deny") /\ UNCHANGED boundKeys
  /\ UNCHANGED <<clock, authority, spentTokens, spentApprovals, memory, call, journal,
                 history, faults>>

ClaimApproval(p) ==
  /\ pc[p] = "approval"
  /\ IF spentApprovals[call[p].approval] = None
     THEN /\ spentApprovals' = [spentApprovals EXCEPT ![call[p].approval] = ClaimRecord(p)]
          /\ Go(p, "authorize")
     ELSE Go(p, "deny") /\ UNCHANGED spentApprovals
  /\ UNCHANGED <<clock, authority, spentTokens, boundKeys, memory, call, journal,
                 history, faults>>

\* The store is unavailable or corrupt: deny; earlier claims stay burnt.
StoreFails(p) ==
  /\ pc[p] \in {"token", "key", "approval"}
  /\ Fault
  /\ Go(p, "deny")
  /\ UNCHANGED <<clock, authority, store, memory, call, journal, history>>

\* Plausible bug: with a durable store attached, the validator's own memory is not kept.
Authorize_Forgetful(p) ==
  LET c == call[p] IN
  /\ pc[p] = "authorize"
  /\ granted' = [granted EXCEPT ![c.exec] =
       [token |-> c.token, decision |-> c.decision, approval |-> c.approval,
        process |-> p, life |-> lives[p]]]
  /\ Go(p, "start")
  /\ UNCHANGED <<clock, authority, store, memory, call, journal, ran, lives, faults>>

Authorize(p) ==
  LET c == call[p] IN
  /\ pc[p] = "authorize"
  /\ memory' = [memory EXCEPT ![p] =
       [tokens |-> @.tokens \cup {c.token}, keys |-> @.keys \cup {KeyOf[c.decision]},
        approvals |-> @.approvals \cup ({c.approval} \ {None})]]
  /\ granted' = [granted EXCEPT ![c.exec] =
       [token |-> c.token, decision |-> c.decision, approval |-> c.approval,
        process |-> p, life |-> lives[p]]]
  /\ Go(p, "start")
  /\ UNCHANGED <<clock, authority, store, call, journal, ran, lives, faults>>

\* Plausible bug: the started record is written after the guest instead of before it.
MarkStarted_Late(p) ==
  /\ pc[p] = "start"
  /\ Go(p, "run")
  /\ UNCHANGED <<clock, authority, store, memory, call, journal, history, faults>>

\* ExecutionGuard::started; if it cannot be written the guest does not run.
MarkStarted(p) ==
  /\ pc[p] = "start"
  /\ AppendLine(call[p].exec, "started")
  /\ Go(p, "run")
  /\ UNCHANGED <<clock, authority, store, memory, call, history, faults>>

EnterGuest(p) ==
  /\ pc[p] = "run"
  /\ ran' = [ran EXCEPT ![call[p].exec] = "entered"]
  /\ Go(p, "guest")
  /\ UNCHANGED <<clock, authority, store, memory, call, journal, granted, lives, faults>>

\* The guest returns or traps.
LeaveGuest(p) ==
  /\ pc[p] = "guest"
  /\ \E result \in {"completed", "failed"} :
       ran' = [ran EXCEPT ![call[p].exec] = result]
  /\ Go(p, "finish")
  /\ UNCHANGED <<clock, authority, store, memory, call, journal, granted, lives, faults>>

Finish(p) ==
  /\ pc[p] = "finish"
  /\ AppendLine(call[p].exec, ran[call[p].exec])
  /\ Leave(p)
  /\ UNCHANGED <<clock, authority, store, memory, history, faults>>

RecordDenial(p) ==
  /\ pc[p] = "deny"
  /\ AppendLine(call[p].exec, "denied")
  /\ Leave(p)
  /\ UNCHANGED <<clock, authority, store, memory, history, faults>>

\* The line p is about to append, and what an interrupted append leaves: all
\* of it (only the flush was missing), part of it, or nothing.
Pending(p) ==
  CASE pc[p] = "start" -> "started"
    [] pc[p] = "finish" -> ran[call[p].exec]
    [] pc[p] = "deny" -> "denied"

CutShort(p) ==
  \/ UNCHANGED journal
  \/ /\ pc[p] \in {"start", "finish", "deny"}
     /\ \E line \in {Pending(p), "torn"} : AppendLine(call[p].exec, line)

\* An append fails: started and the verdict return an error, the denial's error
\* is discarded; either way the request is over.
AppendFails(p) ==
  /\ pc[p] \in {"start", "finish", "deny"}
  /\ Fault
  /\ CutShort(p)
  /\ Leave(p)
  /\ UNCHANGED <<clock, authority, store, memory, history>>

\* The process dies, possibly in the middle of an append, and starts again.
Kill(p) ==
  /\ Fault
  /\ CutShort(p)
  /\ Leave(p)
  /\ memory' = [memory EXCEPT ![p] = Forgotten]
  /\ lives' = [lives EXCEPT ![p] = @ + 1]
  /\ UNCHANGED <<clock, authority, store, granted, ran>>

------------------------------------------------------------------------------
(* purge_expired removes one expired record after another.                  *)

Stale(record) == record # None /\ record.expires <= clock

Purge ==
  /\ Purging
  /\ \/ /\ \E t \in Token : Stale(spentTokens[t]) /\ spentTokens' = [spentTokens EXCEPT ![t] = None]
        /\ UNCHANGED <<boundKeys, spentApprovals>>
     \/ /\ \E k \in Key : Stale(boundKeys[k]) /\ boundKeys' = [boundKeys EXCEPT ![k] = None]
        /\ UNCHANGED <<spentTokens, spentApprovals>>
     \/ /\ \E a \in Approval : Stale(spentApprovals[a])
                               /\ spentApprovals' = [spentApprovals EXCEPT ![a] = None]
        /\ UNCHANGED <<spentTokens, boundKeys>>
  /\ UNCHANGED <<clock, authority, memory, pc, call, journal, history, faults>>

Tick ==
  /\ clock < MaxTime
  /\ clock' = clock + 1
  /\ UNCHANGED <<authority, store, memory, pc, call, journal, history, faults>>

Consume(p) ==
  Check(p) \/ ClaimToken(p) \/ BindKey(p) \/ ClaimApproval(p) \/ StoreFails(p) \/ Authorize(p)

Run(p) ==
  \/ MarkStarted(p) \/ EnterGuest(p) \/ LeaveGuest(p) \/ Finish(p) \/ RecordDenial(p)
  \/ AppendFails(p)

Next ==
  \/ \E d \in Decision : Evaluate(d)
  \/ \E a \in Approval, d \in Decision : Approve(a, d)
  \/ \E t \in Token, d \in Decision, a \in Approval \cup {None} : Issue(t, d, a)
  \/ \E p \in Process : Begin(p) \/ BeginFails(p) \/ Consume(p) \/ Run(p) \/ Kill(p)
  \/ Purge
  \/ Tick

Spec == Init /\ [][Next]_vars

------------------------------------------------------------------------------
(* Properties.                                                              *)

Labels == {"idle", "check", "token", "key", "approval", "authorize", "start", "run",
           "guest", "finish", "deny"}

\* Every variable has its type.
TypeOK ==
  /\ clock \in Time
  /\ decisions \in [Decision -> Verdict \cup {None}]
  /\ approvals \in [Approval -> SignedApproval \cup {None}]
  /\ tokens \in [Token -> Claims \cup {None}]
  /\ spentTokens \in [Token -> Record \cup {None}]
  /\ boundKeys \in [Key -> Record \cup {None}]
  /\ spentApprovals \in [Approval -> Record \cup {None}]
  /\ memory \in [Process -> Memory]
  /\ pc \in [Process -> Labels]
  /\ call \in [Process -> Call \cup {None}]
  /\ journal \in [Execution -> Seq(Line) \cup {None}]
  /\ granted \in [Execution -> Grant \cup {None}]
  /\ ran \in [Execution -> {"no", "entered", "completed", "failed"}]
  /\ lives \in [Process -> Nat]
  /\ faults \in 0 .. MaxFaults

\* Two executions that were both authorized.
Both(x, y) == x # y /\ granted[x] # None /\ granted[y] # None

SharesApproval(x, y) == granted[x].approval = granted[y].approval /\ granted[x].approval # None

Overlap(x, y) ==
  \/ granted[x].token = granted[y].token
  \/ KeyOf[granted[x].decision] = KeyOf[granted[y].decision]
  \/ SharesApproval(x, y)

\* Without a purge, one token, one idempotency key and one approval authorize
\* one execution, ever: across validators, processes and restarts.
OneUse == \A x, y \in Execution : Both(x, y) => ~Overlap(x, y)

\* What a validator remembers keeps it from authorizing twice until it
\* restarts, even when the store has been purged under it.
OncePerLife ==
  \A x, y \in Execution :
    /\ Both(x, y)
    /\ granted[x].process = granted[y].process
    /\ granted[x].life = granted[y].life
    => ~Overlap(x, y)

\* Nothing is authorized that policy denied, and what policy made subject to
\* approval is authorized only under the owner's approval of that very decision.
PolicyIsObeyed ==
  \A x \in Execution : granted[x] # None =>
    LET g == granted[x] IN
    /\ decisions[g.decision].verdict # "deny"
    /\ decisions[g.decision].verdict = "approve" =>
         g.approval # None /\ approvals[g.approval].decision = g.decision
    /\ tokens[g.token].decision = g.decision

\* Recovery tells the truth after any crash or failed write: a guest that may
\* have run is never reported as denied, absent or merely intended, a verdict is
\* the guest's own, and only an authorized execution enters the guest.
JournalIsHonest ==
  \A x \in Execution :
    /\ ran[x] # "no" => granted[x] # None /\ State(x) \in {"started", "completed", "failed"}
    /\ State(x) \in {"completed", "failed"} => ran[x] = State(x)
    /\ granted[x] # None => State(x) \notin {"none", "denied"}

\* The store's documentation: purging never re-enables a still-valid authority.
PurgeNeverRevives ==
  \A x, y \in Execution : Both(x, y) /\ SharesApproval(x, y) =>
    clock >= approvals[granted[x].approval].expires
==============================================================================
