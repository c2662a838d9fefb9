----------------------------- MODULE CapabilityV1 -----------------------------
(***************************************************************************)
(* The legacy capability (crates/capability/src/lib.rs): a signed token    *)
(* with a scope, an expiry and a number of uses that the validator counts  *)
(* in memory.  An executor owns its validator, so each of its processes    *)
(* counts from zero.                                                       *)
(***************************************************************************)
EXTENDS PolicyRules

CONSTANTS
  Executor,     \* the processes that validate
  Token,        \* CapabilityToken::token_id
  Forged,       \* those another issuer signed
  V1Request,    \* ActionRequest, as records
  None,
  Ttls, UseLimits, MaxTime

ASSUME TokenBounds == Forged \subseteq Token /\ Ttls \cup UseLimits \subseteq Nat /\ MaxTime \in Nat

VARIABLES
  now,
  token,     \* what each token says, once issued
  uses       \* CapabilityValidator::uses

v1 == <<now, token, uses>>

V1Init ==
  /\ now = 0
  /\ token = [t \in Token |-> None]
  /\ uses = [e \in Executor |-> [t \in Token |-> 0]]

\* evaluate
DecisionAllows(r, approved) ==
  /\ Allowed(r.tool, r.resource, r.class)
  /\ RequiresApproval(r.tool, r.operation, r.level) => approved

\* CapabilityIssuer::issue.  A token carries no trace of the approval.
Issue(t) ==
  \E r \in V1Request, approved \in BOOLEAN, ttl \in Ttls, limit \in UseLimits :
    /\ token[t] = None
    /\ DecisionAllows(r, approved)
    /\ ttl > 0 /\ limit > 0
    /\ token' = [token EXCEPT ![t] =
         [scope |-> <<r.venture, r.actor, r.tool, r.operation, r.resource>>,
          max_uses |-> limit, expires |-> now + ttl]]
    /\ UNCHANGED <<now, uses>>

V1Tick == now < MaxTime /\ now' = now + 1 /\ UNCHANGED <<token, uses>>

Expired(t) == now >= token[t].expires

\* CapabilityValidator::validate: the checks, and what passing them costs.
Valid(e, t, scope) ==
  /\ token[t] # None
  /\ t \notin Forged
  /\ token[t].scope = scope
  /\ ~Expired(t)
  /\ uses[e][t] < token[t].max_uses

Spend_Nothing(e, t) == UNCHANGED uses

Spend(e, t) == uses' = [uses EXCEPT ![e][t] = @ + 1]

\* The count lives and dies with the validator's process.
Forget(e) == uses' = [uses EXCEPT ![e] = [t \in Token |-> 0]]

V1TypeOK ==
  /\ now \in 0 .. MaxTime
  /\ \A t \in Token : token[t] # None => token[t].max_uses \in UseLimits \ {0}
  /\ uses \in [Executor -> [Token -> Nat]]
==============================================================================
