------------------------ MODULE AuthorizationProofs ------------------------
(***************************************************************************)
(* TypeOK, GrantIsExact, OneUse and RevocationStops for any principals,    *)
(* invocations, keys, limits and any number of decisions, approvals and    *)
(* tokens.                                                                 *)
(***************************************************************************)
EXTENDS Authorization, TLAPS

----------------------------------------------------------------------------
(* The inductive invariant.                                                *)

\* A decision carries the verdict of the rules on the invocation it binds.
Decided ==
  \A d \in decisions :
    /\ d.allowed = Allowed(d.invocation.tool, d.invocation.resource, d.class)
    /\ d.requiresApproval =
         RequiresApproval(d.invocation.tool, d.invocation.operation, d.level)

\* A token's key is one that was asked for: Consume will bind it.
TokensAreKeyed == \A t \in tokens : t.payload.key \in Key

\* What was granted is remembered.
Remembered ==
  \A g \in granted :
    /\ g.token \in consumedTokens
    /\ g.key \in DOMAIN idempotency
    /\ g.approval = None \/ g.approval \in consumedApprovals

IInv == TypeOK /\ Decided /\ TokensAreKeyed /\ Remembered /\ GrantIsExact /\ OneUse

----------------------------------------------------------------------------
(* Two records that agree on every field are one.                          *)

LEMMA FieldsDecide ==
  ASSUME NEW i \in Invocation, NEW j \in Invocation,
         \A field \in DOMAIN i : j[field] = i[field]
  PROVE  j = i
<1>1. i \in [InvocationField -> {i[f] : f \in InvocationField}]
      /\ j \in [InvocationField -> {j[f] : f \in InvocationField}]
  BY InvocationsAreRecords
<1>2. DOMAIN i = InvocationField /\ DOMAIN j = InvocationField
  BY <1>1
<1> QED
  BY <1>1, <1>2

\* A step of Consume, and all that the checks before it establish.
Granted(t, principal, i, a) ==
  [token |-> t.payload.id, principal |-> principal, invocation |-> i,
   decision |-> t.payload.decision, key |-> t.payload.key, at |-> clock,
   approval |-> IF a = None THEN None ELSE a.payload.id]

LEMMA ConsumeGrants ==
  ASSUME IInv, NEW t \in tokens, NEW principal \in Principal, NEW i \in Invocation,
         NEW d \in decisions, NEW a \in approvals \cup {None},
         Consume(t, principal, d, i, a)
  PROVE  /\ d = t.payload.decision
         /\ granted' = granted \cup {Granted(t, principal, i, a)}
         /\ d.audience = Host /\ d.principal = principal /\ d.key = t.payload.key
         /\ d.invocation = i
         /\ Allowed(i.tool, i.resource, d.class)
         /\ \/ /\ ~RequiresApproval(i.tool, i.operation, d.level)
               /\ a = None
               /\ clock - d.at <= MaxPolicyAge
            \/ /\ a \in approvals /\ a # None
               /\ ApprovalHolds(a, principal, d, i, clock)
<1>1. t.payload.decision = d /\ granted' = granted \cup {Granted(t, principal, i, a)}
  BY DEF Consume, Granted
<1>2. DecisionMatches(d, principal, t.payload.key, i) /\ d.allowed
  BY DEF Consume
<1>3. d.invocation \in Invocation
  BY DEF IInv, TypeOK
<1>4. d.invocation = i
  <2>1. \A field \in DOMAIN i : d.invocation[field] = i[field]
    BY <1>2 DEF DecisionMatches
  <2> QED
    BY <1>3, <2>1, FieldsDecide
<1>5. /\ d.allowed = Allowed(i.tool, i.resource, d.class)
      /\ d.requiresApproval = RequiresApproval(i.tool, i.operation, d.level)
  BY <1>4 DEF IInv, Decided
<1>6. EvidenceFits(a, principal, d, i, clock) /\ t.payload.evidence = Evidence(a)
      /\ Fresh(d, clock, MaxAge(t.payload.evidence))
  BY DEF Consume, ApprovalStillHolds
<1>7. CASE d.requiresApproval
  BY <1>1, <1>2, <1>4, <1>5, <1>6, <1>7 DEF EvidenceFits, DecisionMatches
<1>8. CASE ~d.requiresApproval
  <2>1. a = None
    BY <1>6, <1>8 DEF EvidenceFits
  <2>2. clock - d.at <= MaxPolicyAge
    BY <1>6, <2>1 DEF Evidence, MaxAge, Fresh
  <2> QED
    BY <1>1, <1>2, <1>4, <1>5, <1>8, <2>1, <2>2 DEF DecisionMatches
<1> QED
  BY <1>7, <1>8

LEMMA Initially == Init => IInv
<1> SUFFICES ASSUME Init PROVE IInv
  OBVIOUS
<1>1. TypeOK
  BY LimitsAreOrdered DEF Init, TypeOK
<1> QED
  BY <1>1 DEF Init, IInv, Decided, TokensAreKeyed, Remembered, GrantIsExact, OneUse

----------------------------------------------------------------------------
(* The steps that grant nothing.                                           *)

\* Decisions and approvals that are there stay as they are, so that what was
\* granted stays justified.
LEMMA GrantsStayExact ==
  ASSUME GrantIsExact, granted' = granted, decisions \subseteq decisions',
         approvals \subseteq approvals', tokens \subseteq tokens'
  PROVE  GrantIsExact'
BY DEF GrantIsExact

LEMMA EvaluateKeeps ==
  ASSUME IInv, NEW r \in Request, Evaluate(r)
  PROVE  IInv'
<1> DEFINE i == r.invocation
           new == [id |-> Cardinality(decisions) + 1, at |-> clock, audience |-> r.audience,
                   principal |-> r.principal, key |-> r.key, invocation |-> i,
                   class |-> r.class, level |-> r.level,
                   allowed |-> Allowed(i.tool, i.resource, r.class),
                   requiresApproval |-> RequiresApproval(i.tool, i.operation, r.level)]
<1>1. decisions' = decisions \cup {new}
      /\ UNCHANGED <<approvals, tokens, trust, memory, clock, granted>>
  BY DEF Evaluate
<1>2. TypeOK'
  BY <1>1, RequestsAreTyped DEF IInv, TypeOK, memory, trust
<1>3. Decided'
  <2> SUFFICES ASSUME NEW d \in decisions'
               PROVE  /\ d.allowed = Allowed(d.invocation.tool, d.invocation.resource, d.class)
                      /\ d.requiresApproval =
                           RequiresApproval(d.invocation.tool, d.invocation.operation, d.level)
    BY DEF Decided
  <2>1. CASE d \in decisions
    BY <2>1 DEF IInv, Decided
  <2>2. CASE d = new
    BY <2>2
  <2> QED
    BY <1>1, <2>1, <2>2
<1>4. TokensAreKeyed' /\ Remembered' /\ OneUse'
  BY <1>1 DEF IInv, TokensAreKeyed, Remembered, OneUse, memory
<1>5. GrantIsExact'
  BY <1>1, GrantsStayExact DEF IInv
<1> QED
  BY <1>2, <1>3, <1>4, <1>5 DEF IInv

LEMMA ApproveKeeps ==
  ASSUME IInv, NEW audience \in Audience, NEW principal \in Principal, NEW i \in Invocation,
         NEW d \in decisions, NEW ttl, Approve(audience, principal, d, i, ttl)
  PROVE  IInv'
<1> DEFINE new == Sign("approval", ApproverKey,
             [id |-> Cardinality(approvals) + 1, approverKey |-> ApproverKey,
              audience |-> audience, principal |-> principal, invocation |-> i,
              decision |-> d, at |-> clock, expires |-> clock + ttl])
<1>1. approvals' = approvals \cup {new}
      /\ UNCHANGED <<decisions, tokens, trust, memory, clock, granted>>
  BY DEF Approve
<1>2. TypeOK'
  <2>1. new.by = ApproverKey /\ new.payload.decision \in decisions
    BY DEF Sign
  <2> HIDE DEF new
  <2> QED
    BY <1>1, <2>1 DEF IInv, TypeOK, memory
<1>3. Decided' /\ TokensAreKeyed' /\ Remembered' /\ OneUse'
  BY <1>1 DEF IInv, Decided, TokensAreKeyed, Remembered, OneUse, memory
<1>4. GrantIsExact'
  <2> HIDE DEF new
  <2> QED
    BY <1>1, GrantsStayExact DEF IInv
<1> QED
  BY <1>2, <1>3, <1>4 DEF IInv

LEMMA IssueKeeps ==
  ASSUME IInv, NEW principal \in Principal, NEW i \in Invocation, NEW key \in Key, NEW ttl,
         NEW d \in decisions, NEW a \in approvals \cup {None},
         IssueToken(principal, d, i, key, a, ttl)
  PROVE  IInv'
<1> DEFINE new == Sign("authority", AuthorityKey,
             [id |-> Cardinality(tokens) + 1, issuerKey |-> AuthorityKey, audience |-> Host,
              principal |-> principal, invocation |-> i, decision |-> d,
              evidence |-> Evidence(a), key |-> key, uses |-> 1,
              issued |-> clock, expires |-> clock + ttl])
<1>1. tokens' = tokens \cup {new}
      /\ UNCHANGED <<decisions, approvals, trust, memory, clock, granted>>
  BY DEF IssueToken
<1>2. new.by = AuthorityKey /\ new.payload.decision \in decisions /\ new.payload.key \in Key
  BY DEF Sign
<1> HIDE DEF new
<1>3. TypeOK' /\ TokensAreKeyed'
  BY <1>1, <1>2 DEF IInv, TypeOK, TokensAreKeyed, memory
<1>4. Decided' /\ Remembered' /\ OneUse'
  BY <1>1 DEF IInv, Decided, Remembered, OneUse, memory
<1>5. GrantIsExact'
  BY <1>1, GrantsStayExact DEF IInv
<1> QED
  BY <1>3, <1>4, <1>5 DEF IInv

\* Neither a key's status nor the clock takes back what was granted.
LEMMA WorldKeeps ==
  ASSUME IInv, Tick \/ \E revoked \in BOOLEAN : SetStatus(revoked)
  PROVE  IInv'
<1>1. UNCHANGED <<decisions, approvals, tokens, memory, granted>> /\ clock' \in 0 .. MaxTime
  BY DEF Tick, SetStatus, IInv, TypeOK
<1>2. TypeOK' /\ Decided' /\ TokensAreKeyed' /\ Remembered' /\ OneUse'
  BY <1>1 DEF IInv, TypeOK, Decided, TokensAreKeyed, Remembered, OneUse, memory
<1>3. GrantIsExact'
  BY <1>1, GrantsStayExact DEF IInv
<1> QED
  BY <1>2, <1>3 DEF IInv

----------------------------------------------------------------------------
(* The step that grants.                                                   *)

LEMMA ConsumeKeeps ==
  ASSUME IInv, NEW t \in tokens, NEW principal \in Principal, NEW i \in Invocation,
         NEW d \in decisions, NEW a \in approvals \cup {None},
         Consume(t, principal, d, i, a)
  PROVE  IInv'
<1> DEFINE new == Granted(t, principal, i, a)
           c == t.payload
<1>1. UNCHANGED <<decisions, approvals, tokens, trust, clock>> /\ Remember(c, a)
      /\ c.id \notin consumedTokens /\ KeyIsFree(c)
      /\ (a # None => a.payload.id \notin consumedApprovals)
  BY DEF Consume, ApprovalStillHolds
<1>2. /\ d = c.decision
      /\ granted' = granted \cup {new}
      /\ d.audience = Host /\ d.principal = principal /\ d.key = c.key
      /\ d.invocation = i
      /\ Allowed(i.tool, i.resource, d.class)
      /\ \/ /\ ~RequiresApproval(i.tool, i.operation, d.level)
            /\ a = None
            /\ clock - d.at <= MaxPolicyAge
         \/ /\ a \in approvals /\ a # None
            /\ ApprovalHolds(a, principal, d, i, clock)
  BY ConsumeGrants
<1>3. /\ new.token = c.id /\ new.principal = principal /\ new.invocation = i
      /\ new.decision = d /\ new.key = c.key /\ new.at = clock
      /\ new.approval = IF a = None THEN None ELSE a.payload.id
  BY <1>2 DEF Granted
<1>4. /\ consumedTokens' = consumedTokens \cup {c.id}
      /\ DOMAIN idempotency' = DOMAIN idempotency \cup {c.key}
      /\ consumedApprovals' = IF a = None THEN consumedApprovals
                              ELSE consumedApprovals \cup {a.payload.id}
  BY <1>1 DEF Remember
<1> HIDE DEF new
<1>5. TypeOK'
  <2>1. c.key \in Key
    BY DEF IInv, TokensAreKeyed
  <2> QED
    BY <1>1, <1>4, <2>1 DEF IInv, TypeOK
<1>6. Decided' /\ TokensAreKeyed'
  BY <1>1 DEF IInv, Decided, TokensAreKeyed
<1>7. Remembered'
  BY <1>2, <1>3, <1>4 DEF IInv, Remembered
<1>8. GrantIsExact'
  <2> SUFFICES ASSUME NEW g \in granted', g \notin granted
               PROVE  /\ g.decision \in decisions
                      /\ \E u \in tokens :
                           /\ u.payload.id = g.token /\ u.payload.decision = g.decision
                           /\ u.payload.key = g.key
                           /\ u.payload.issued <= g.at /\ g.at < u.payload.expires
                      /\ g.decision.audience = Host
                      /\ g.decision.principal = g.principal
                      /\ g.decision.key = g.key
                      /\ g.decision.invocation = g.invocation
                      /\ g.invocation.resource \notin Escaping
                      /\ ~(g.invocation.tool \in CloudTool /\ g.decision.class = "red")
                      /\ \/ /\ ~RequiresApproval(g.invocation.tool, g.invocation.operation,
                                                 g.decision.level)
                            /\ g.at - g.decision.at <= MaxPolicyAge
                         \/ \E b \in approvals :
                              /\ b.payload.id = g.approval
                              /\ b.payload.decision = g.decision
                              /\ b.payload.invocation = g.invocation
                              /\ b.payload.principal = g.principal
                              /\ g.decision.at <= b.payload.at /\ g.at < b.payload.expires
    BY <1>1 DEF IInv, GrantIsExact
  <2>1. g = new
    BY <1>2
  <2>2. /\ t.payload.id = g.token /\ t.payload.decision = g.decision /\ t.payload.key = g.key
        /\ t.payload.issued <= g.at /\ g.at < t.payload.expires
    <3>1. InLifetime(c, clock)
      BY DEF Consume, TokenHolds
    <3> QED
      BY <1>2, <1>3, <2>1, <3>1 DEF InLifetime
  <2>3. i.resource \notin Escaping /\ ~(i.tool \in CloudTool /\ d.class = "red")
    BY <1>2 DEF Allowed, DenialReasons, CloudBlockedClasses
  <2>4. CASE /\ ~RequiresApproval(i.tool, i.operation, d.level)
             /\ clock - d.at <= MaxPolicyAge
    BY <1>2, <1>3, <2>1, <2>3, <2>4, <2>2
  <2>5. CASE a \in approvals /\ a # None /\ ApprovalHolds(a, principal, d, i, clock)
    <3>1. /\ a.payload.id = g.approval
          /\ a.payload.decision = d /\ a.payload.invocation = i
          /\ a.payload.principal = principal
          /\ d.at <= a.payload.at /\ clock < a.payload.expires
      <4>1. a.payload.at >= d.at <=> d.at <= a.payload.at
        OBVIOUS
      <4> QED
        BY <1>3, <2>1, <2>5, <4>1 DEF ApprovalHolds
    <3> QED
      BY <1>2, <1>3, <2>1, <2>3, <2>5, <2>2, <3>1
  <2> QED
    BY <1>2, <2>4, <2>5
<1>9. OneUse'
  <2>1. ASSUME NEW g \in granted
        PROVE  /\ g.token # new.token /\ g.key # new.key
               /\ g.approval = None \/ g.approval # new.approval
               /\ new.approval = None \/ new.approval # g.approval
    BY <1>1, <1>3 DEF IInv, Remembered, KeyIsFree
  <2> QED
    BY <1>2, <2>1 DEF IInv, OneUse
<1> QED
  BY <1>5, <1>6, <1>7, <1>8, <1>9 DEF IInv

LEMMA Inductive == IInv /\ [Next]_vars => IInv'
<1> SUFFICES ASSUME IInv, [Next]_vars PROVE IInv'
  OBVIOUS
<1>1. CASE \E r \in Request : Evaluate(r)
  BY <1>1, EvaluateKeeps
<1>2. CASE \E audience \in Audience, principal \in Principal, i \in Invocation :
             \E d \in decisions, ttl \in ApprovalTtls : Approve(audience, principal, d, i, ttl)
  BY <1>2, ApproveKeeps
<1>3. CASE \E principal \in Principal, i \in Invocation, key \in Key, ttl \in TokenTtls :
             \E d \in decisions, a \in approvals \cup {None} :
               IssueToken(principal, d, i, key, a, ttl)
  BY <1>3, IssueKeeps
<1>4. CASE \E principal \in Principal, i \in Invocation :
             \E t \in tokens, d \in decisions, a \in approvals \cup {None} :
               Consume(t, principal, d, i, a)
  BY <1>4, ConsumeKeeps
<1>5. CASE Tick \/ \E revoked \in BOOLEAN : SetStatus(revoked)
  BY <1>5, WorldKeeps
<1>6. CASE UNCHANGED vars
  BY <1>6 DEF vars, memory, trust, IInv, TypeOK, Decided, TokensAreKeyed, Remembered,
              GrantIsExact, OneUse
<1> QED
  BY <1>1, <1>2, <1>3, <1>4, <1>5, <1>6 DEF Next

----------------------------------------------------------------------------
(* The theorems.                                                           *)

\* Decisions, approvals, tokens and the validator's memory keep to their types.
THEOREM TypeCorrect == Spec => []TypeOK
<1>1. IInv => TypeOK
  BY DEF IInv
<1> QED
  BY <1>1, Initially, Inductive, PTL DEF Spec

\* Whatever is presented together, what is authorized was allowed by policy for
\* exactly this, and approved by the owner where policy asked for it.
THEOREM GrantsAreJustified == Spec => []GrantIsExact
<1>1. IInv => GrantIsExact
  BY DEF IInv
<1> QED
  BY <1>1, Initially, Inductive, PTL DEF Spec

\* No token, approval or idempotency key is good for two authorizations of one
\* validator, wherever the clock is set.
THEOREM AuthorizedOnce == Spec => []OneUse
<1>1. IInv => OneUse
  BY DEF IInv
<1> QED
  BY <1>1, Initially, Inductive, PTL DEF Spec

\* What grants is Consume, and it verifies token and approval under the trust
\* stores of that moment.
LEMMA GrantingStep ==
  ASSUME IInv, [Next]_vars, granted' # granted
  PROVE  \E principal \in Principal, i \in Invocation :
           \E t \in tokens, d \in decisions, a \in approvals \cup {None} :
             Consume(t, principal, d, i, a)
<1>1. ASSUME NEW r \in Request PROVE Evaluate(r) => granted' = granted
  BY DEF Evaluate
<1>2. ASSUME NEW audience, NEW principal, NEW i, NEW d, NEW ttl
      PROVE  Approve(audience, principal, d, i, ttl) => granted' = granted
  BY DEF Approve
<1>3. ASSUME NEW principal, NEW i, NEW key, NEW ttl, NEW d, NEW a
      PROVE  IssueToken(principal, d, i, key, a, ttl) => granted' = granted
  BY DEF IssueToken
<1>4. Tick \/ (\E revoked \in BOOLEAN : SetStatus(revoked)) => granted' = granted
  BY DEF Tick, SetStatus
<1>5. UNCHANGED vars => granted' = granted
  BY DEF vars
<1> QED
  BY <1>1, <1>2, <1>3, <1>4, <1>5 DEF Next

LEMMA RevokedGrantsNothing ==
  ASSUME IInv, [Next]_vars, granted' # granted
  PROVE  /\ ~authority[AuthorityKey].revoked
         /\ \A g \in granted' \ granted : g.approval # None => ~approver[ApproverKey].revoked
<1>1. PICK principal \in Principal, i \in Invocation, t \in tokens, d \in decisions,
           a \in approvals \cup {None} : Consume(t, principal, d, i, a)
  BY GrantingStep
<1>2. ~authority[AuthorityKey].revoked
  <2>1. TokenHolds(t, clock)
    BY <1>1 DEF Consume
  <2> QED
    BY <2>1 DEF TokenHolds, Verifies, InForce, IInv, TypeOK
<1>3. ASSUME NEW g \in granted', g \notin granted, g.approval # None
      PROVE  ~approver[ApproverKey].revoked
  <2>1. g = Granted(t, principal, i, a)
    BY <1>1, <1>3, ConsumeGrants
  <2>2. a # None
    BY <1>3, <2>1 DEF Granted
  <2>3. a \in approvals /\ ApprovalHolds(a, principal, d, i, clock)
    BY <1>1, <2>2, ConsumeGrants
  <2> QED
    BY <2>3 DEF ApprovalHolds, Verifies, InForce, IInv, TypeOK
<1> QED
  BY <1>2, <1>3

\* A revoked key, the issuer's or the approver's, stops every further use.
THEOREM RevocationIsFinal == Spec => RevocationStops
<1>1. IInv /\ [Next]_vars =>
        [granted' # granted =>
           /\ ~authority[AuthorityKey].revoked
           /\ \A g \in granted' \ granted :
                g.approval # None => ~approver[ApproverKey].revoked]_vars
  BY RevokedGrantsNothing
<1> QED
  BY <1>1, Initially, Inductive, PTL DEF Spec, RevocationStops
============================================================================
