---------------------------- MODULE Authorization ----------------------------
(***************************************************************************)
(* From a policy decision to a consumed capability (crates/policy and      *)
(* crates/capability: v2.rs, approval.rs).  The policy decides on one      *)
(* prepared invocation, the owner may approve, the issuer signs a token    *)
(* and the validator consumes it.  The caller chooses freely which         *)
(* decision, token, approval and invocation it presents together, owners   *)
(* revoke and reinstate keys, and the clock may be set back.  A digest is  *)
(* what it is a digest of.  The validator has no durable store here:       *)
(* AuthorityStore and VerifiedExecution model the one that has.            *)
(***************************************************************************)
EXTENDS RoleTrust, PolicyRules, FiniteSets

CONSTANTS
  Principal,    \* a venture, a subject and a session
  Audience,     \* hosts a decision may be for
  Host,         \* the audience of this issuer and this validator
  Key,          \* idempotency keys
  Invocation,   \* prepared invocations, as records
  Request,      \* what the policy may be asked for, as records
  AuthorityKey, ApproverKey,
  MaxPolicyAge, MaxTtl, MaxApprovalTtl,   \* the limits of the protocol
  TokenTtls, ApprovalTtls,   \* lifetimes callers ask for
  MaxTime, MaxTokens, MaxDecisions, MaxApprovals   \* bounds

\* PreparedInvocation, as far as it is compared.
InvocationField ==
  {"tool", "operation", "artifact", "input", "bindings", "resource", "risk", "backend"}

ASSUME HostIsAnAudience == Host \in Audience
ASSUME KeysExist == {AuthorityKey, ApproverKey} \subseteq PublicKey
ASSUME InvocationsAreRecords ==
  \A i \in Invocation : i \in [InvocationField -> {i[f] : f \in InvocationField}]
ASSUME RequestsAreTyped ==
  \A r \in Request : /\ r.principal \in Principal /\ r.audience \in Audience
                     /\ r.invocation \in Invocation /\ r.key \in Key
ASSUME LimitsAreOrdered ==
  /\ {MaxPolicyAge, MaxTtl, MaxApprovalTtl, MaxTime} \subseteq Nat
  /\ MaxPolicyAge < MaxTtl /\ MaxTtl < MaxApprovalTtl

VARIABLES
  decisions,    \* PolicyAuthorizationV2 values
  approvals,    \* signed approvals
  tokens,       \* signed capabilities
  authority, approver,              \* trust stores of the two roles
  consumedTokens, consumedApprovals, idempotency,   \* the validator's memory
  clock,
  granted       \* history: what the validator authorized

memory == <<consumedTokens, consumedApprovals, idempotency>>
trust == <<authority, approver>>
vars == <<decisions, approvals, tokens, authority, approver, consumedTokens,
          consumedApprovals, idempotency, clock, granted>>

Forever == [from |-> 0, until |-> MaxTime + 1]

Init ==
  /\ decisions = {} /\ approvals = {} /\ tokens = {}
  /\ authority = [EmptyStore EXCEPT ![AuthorityKey] = Trusted(Host, Forever)]
  /\ approver = [EmptyStore EXCEPT ![ApproverKey] = Trusted(Host, Forever)]
  /\ consumedTokens = {} /\ consumedApprovals = {} /\ idempotency = <<>>
  /\ clock = 0
  /\ granted = {}

------------------------------------------------------------------------------
(* The policy.                                                              *)

\* PolicyEngine::evaluate_prepared: the decision repeats everything it was made
\* from.  Without a primary resource there is none.
Evaluate(r) ==
  LET i == r.invocation IN
  /\ Cardinality(decisions) < MaxDecisions
  /\ i.resource # None
  /\ decisions' = decisions \cup
       {[id |-> Cardinality(decisions) + 1, at |-> clock, audience |-> r.audience,
         principal |-> r.principal, key |-> r.key, invocation |-> i,
         class |-> r.class, level |-> r.level,
         allowed |-> Allowed(i.tool, i.resource, r.class),
         requiresApproval |-> RequiresApproval(i.tool, i.operation, r.level)]}
  /\ UNCHANGED <<approvals, tokens, trust, memory, clock, granted>>

------------------------------------------------------------------------------
(* Checks the issuer and the validator share.                               *)

\* validate_supported_invocation
Supported(i) == i.risk = "pure-compute" /\ i.backend = "core-wasm" /\ i.resource # None

\* Plausible bug: the decision is compared by tool and resource, not by digest.
DecisionMatches_ByName(d, principal, key, i) ==
  /\ d.audience = Host /\ d.principal = principal /\ d.key = key
  /\ d.invocation.tool = i.tool /\ d.invocation.operation = i.operation
  /\ d.invocation.resource = i.resource

\* validate_policy_authorization: every field of the decision, one by one.
DecisionMatches(d, principal, key, i) ==
  /\ d.audience = Host /\ d.principal = principal /\ d.key = key
  /\ \A field \in DOMAIN i : d.invocation[field] = i[field]

\* validate_policy_freshness
Fresh(d, now, maxAge) == d.at <= now /\ now - d.at <= maxAge

MaxAge(a) == IF a = None THEN MaxPolicyAge ELSE MaxApprovalTtl

\* verify_approval
ApprovalHolds(a, principal, d, i, now) ==
  LET c == a.payload IN
  /\ Verifies("approval", approver, a, Host, now)
  /\ c.approverKey = a.by
  /\ c.audience = Host /\ c.principal = principal
  /\ c.invocation = i
  /\ c.decision = d
  /\ c.at < c.expires /\ c.expires - c.at <= MaxApprovalTtl
  /\ c.at <= now /\ now < c.expires
  /\ c.at >= d.at

\* Evidence is there exactly if the decision needs it, and then it holds.
EvidenceFits(a, principal, d, i, now) ==
  IF d.requiresApproval
  THEN a # None /\ ApprovalHolds(a, principal, d, i, now)
  ELSE a = None

\* What a token remembers of its approval: id, approver and time.
Evidence(a) == IF a = None THEN None ELSE [id |-> a.payload.id, at |-> a.payload.at]

------------------------------------------------------------------------------
(* approve_invocation, on the owner's device: whatever the owner is shown.  *)

Approve(audience, principal, d, i, ttl) ==
  /\ Cardinality(approvals) < MaxApprovals
  /\ ttl \in 1 .. MaxApprovalTtl
  /\ i.resource # None
  /\ approvals' = approvals \cup
       {Sign("approval", ApproverKey,
             [id |-> Cardinality(approvals) + 1, approverKey |-> ApproverKey,
              audience |-> audience, principal |-> principal, invocation |-> i,
              decision |-> d, at |-> clock, expires |-> clock + ttl])}
  /\ UNCHANGED <<decisions, tokens, trust, memory, clock, granted>>

------------------------------------------------------------------------------
(* CapabilityIssuerV2::issue_inner                                          *)

IssueToken(principal, d, i, key, a, ttl) ==
  /\ Cardinality(tokens) < MaxTokens
  /\ Supported(i)
  /\ DecisionMatches(d, principal, key, i)
  /\ Fresh(d, clock, MaxAge(a))
  /\ d.allowed
  /\ EvidenceFits(a, principal, d, i, clock)
  /\ ttl \in 1 .. MaxTtl
  /\ tokens' = tokens \cup
       {Sign("authority", AuthorityKey,
             [id |-> Cardinality(tokens) + 1, issuerKey |-> AuthorityKey, audience |-> Host,
              principal |-> principal, invocation |-> i, decision |-> d,
              evidence |-> Evidence(a), key |-> key, uses |-> 1,
              issued |-> clock, expires |-> clock + ttl])}
  /\ UNCHANGED <<decisions, approvals, trust, memory, clock, granted>>

------------------------------------------------------------------------------
(* CapabilityValidatorV2::authorize_and_consume_approved                    *)

\* validate_claim_lifetime
InLifetime(c, now) ==
  /\ c.issued < c.expires /\ c.expires - c.issued <= MaxTtl
  /\ c.issued <= now /\ now < c.expires

\* invocation_fingerprint: everything of the claims but ids, key, evidence and times.
FingerprintOf(c) ==
  [audience |-> c.audience, principal |-> c.principal, invocation |-> c.invocation,
   decision |-> c.decision]

\* Plausible bug: a key that was bound to another invocation may be used again.
KeyIsFree_Rebinds(c) ==
  c.key \in DOMAIN idempotency => idempotency[c.key] # FingerprintOf(c)

\* Bound to the same invocation it is a replay, bound to another a conflict.
KeyIsFree(c) == c.key \notin DOMAIN idempotency

Remember(c, a) ==
  /\ consumedTokens' = consumedTokens \cup {c.id}
  /\ idempotency' = [k \in DOMAIN idempotency \cup {c.key} |->
                       IF k = c.key THEN FingerprintOf(c) ELSE idempotency[k]]
  /\ consumedApprovals' = IF a = None THEN consumedApprovals
                          ELSE consumedApprovals \cup {a.payload.id}

\* compare_invocation_claims, field by field
ClaimsMatch(c, i) == \A field \in DOMAIN i : c.invocation[field] = i[field]

\* The token's signature and its own claims.
TokenHolds(t, now) ==
  LET c == t.payload IN
  /\ Verifies("authority", authority, t, Host, now)
  /\ c.issuerKey = t.by
  /\ c.audience = Host
  /\ InLifetime(c, now)
  /\ c.uses = 1

\* Plausible bug: the approval was verified when the token was issued.
ApprovalStillHolds_AtIssue(c, principal, d, i, a, now) ==
  /\ d.requiresApproval <=> a # None
  /\ c.evidence = Evidence(a)
  /\ a # None => a.payload.id \notin consumedApprovals

\* The token's evidence, the approval presented and the decision agree, and the
\* approval is verified again and not spent.
ApprovalStillHolds(c, principal, d, i, a, now) ==
  /\ EvidenceFits(a, principal, d, i, now)
  /\ c.evidence = Evidence(a)
  /\ a # None => a.payload.id \notin consumedApprovals

Consume(t, principal, d, i, a) ==
  LET c == t.payload IN
  /\ TokenHolds(t, clock)
  /\ c.principal = principal
  /\ Supported(i)
  /\ ClaimsMatch(c, i)
  /\ DecisionMatches(d, principal, c.key, i)
  /\ Fresh(d, clock, MaxAge(c.evidence))
  /\ d.allowed
  /\ c.decision = d
  /\ c.id \notin consumedTokens
  /\ ApprovalStillHolds(c, principal, d, i, a, clock)
  /\ KeyIsFree(c)
  /\ Remember(c, a)
  /\ granted' = granted \cup {[token |-> c.id, principal |-> principal, invocation |-> i,
                               decision |-> d, key |-> c.key, at |-> clock,
                               approval |-> IF a = None THEN None ELSE a.payload.id]}
  /\ UNCHANGED <<decisions, approvals, tokens, trust, clock>>

------------------------------------------------------------------------------
(* Keys and clocks.                                                         *)

\* RoleTrustStore::set_status, for either role
SetStatus(revoked) ==
  /\ \/ /\ authority' = [authority EXCEPT ![AuthorityKey].revoked = revoked]
        /\ UNCHANGED approver
     \/ /\ approver' = [approver EXCEPT ![ApproverKey].revoked = revoked]
        /\ UNCHANGED authority
  /\ UNCHANGED <<decisions, approvals, tokens, memory, clock, granted>>

\* The wall clock, which may be set back.
Tick ==
  /\ clock' \in (0 .. MaxTime) \ {clock}
  /\ UNCHANGED <<decisions, approvals, tokens, trust, memory, granted>>

Next ==
  \/ \E r \in Request : Evaluate(r)
  \/ \E audience \in Audience, principal \in Principal, i \in Invocation :
       \E d \in decisions, ttl \in ApprovalTtls : Approve(audience, principal, d, i, ttl)
  \/ \E principal \in Principal, i \in Invocation, key \in Key, ttl \in TokenTtls :
       \E d \in decisions, a \in approvals \cup {None} : IssueToken(principal, d, i, key, a, ttl)
  \/ \E principal \in Principal, i \in Invocation :
       \E t \in tokens, d \in decisions, a \in approvals \cup {None} :
         Consume(t, principal, d, i, a)
  \/ \E revoked \in BOOLEAN : SetStatus(revoked)
  \/ Tick

Spec == Init /\ [][Next]_vars

------------------------------------------------------------------------------
(* Properties.                                                              *)

TypeOK ==
  /\ \A d \in decisions : d.invocation \in Invocation /\ d.principal \in Principal
  /\ \A t \in tokens : t.by = AuthorityKey /\ t.payload.decision \in decisions
  /\ \A a \in approvals : a.by = ApproverKey /\ a.payload.decision \in decisions
  /\ clock \in 0 .. MaxTime
  /\ consumedTokens \subseteq {t.payload.id : t \in tokens}
  /\ consumedApprovals \subseteq {a.payload.id : a \in approvals}
  /\ DOMAIN idempotency \subseteq Key

\* Whatever is presented together, an authorization is for exactly the principal,
\* idempotency key and invocation the policy allowed, a decision that needs
\* approval was approved for exactly this after it was made, the decision was
\* no older than the limit, and the token presented was signed for this decision
\* and key and is used within its lifetime.
GrantIsExact ==
  \A g \in granted :
    /\ g.decision \in decisions
    /\ \E t \in tokens :
         /\ t.payload.id = g.token /\ t.payload.decision = g.decision /\ t.payload.key = g.key
         /\ t.payload.issued <= g.at /\ g.at < t.payload.expires
    /\ g.decision.audience = Host
    /\ g.decision.principal = g.principal
    /\ g.decision.key = g.key
    /\ g.decision.invocation = g.invocation
    /\ g.invocation.resource \notin Escaping
    /\ ~(g.invocation.tool \in CloudTool /\ g.decision.class = "red")
    /\ \/ /\ ~RequiresApproval(g.invocation.tool, g.invocation.operation, g.decision.level)
          /\ g.at - g.decision.at <= MaxPolicyAge
       \/ \E a \in approvals :
            /\ a.payload.id = g.approval
            /\ a.payload.decision = g.decision /\ a.payload.invocation = g.invocation
            /\ a.payload.principal = g.principal
            /\ g.decision.at <= a.payload.at /\ g.at < a.payload.expires

\* In the life of one validator no token, no approval and no idempotency key is
\* good for two authorizations, also when the clock goes back.
OneUse ==
  \A g, h \in granted :
    g # h =>
      /\ g.token # h.token
      /\ g.key # h.key
      /\ g.approval = None \/ g.approval # h.approval

\* A key that is revoked between issuance and use stops the use, the owner's
\* approval key as much as the issuer's.
RevocationStops ==
  [][granted' # granted =>
       /\ ~authority[AuthorityKey].revoked
       /\ \A g \in granted' \ granted :
            g.approval # None => ~approver[ApproverKey].revoked]_vars
==============================================================================
