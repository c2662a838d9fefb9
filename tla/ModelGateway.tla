---------------------------- MODULE ModelGateway ----------------------------
(***************************************************************************)
(* The model gateway (crates/model): one request is offered to the         *)
(* providers in order, in two passes.  Providers are outside the program:  *)
(* each time it is asked, a provider may report any health and a call to   *)
(* it may fail, succeed, or answer with more than was asked for.           *)
(***************************************************************************)
EXTENDS Naturals, Sequences, FiniteSets

CONSTANTS
  Provider,       \* providers, by id
  Local,          \* those on the founder's device
  None

ASSUME LocalAreProviders == Local \subseteq Provider

VARIABLES
  request,        \* the request being routed: its data class and provider list
  place,          \* pass and position of the provider considered next
  skipped,        \* the trail: the first reason each provider was passed over
  shown,          \* who was given the prompt
  last,           \* what came of each provider when it was last considered
  result          \* who served, or why nobody did

gateway == <<request, place, skipped, shown, last, result>>

Health == {"healthy", "degraded", "down"}
SkipCause == {"red_data_confidentiality", "unhealthy", "failed"}
Failure == {"no_providers", "output_too_large", "all_failed"}

ASSUME NoneIsNothing ==
  /\ None \notin Provider \cup SkipCause \cup Failure
  /\ Provider \cap Failure = {}

AtRest == None

NobodyTried == [p \in Provider |-> None]

GatewayInit ==
  /\ request = AtRest
  /\ place = <<1, 1>>
  /\ skipped = NobodyTried
  /\ shown = {}
  /\ last = NobodyTried
  /\ result = None

(***************************************************************************)
(* ModelGateway::complete                                                  *)
(***************************************************************************)
Route(req, outcome) ==
  /\ request' = req
  /\ place' = <<1, 1>>
  /\ skipped' = NobodyTried
  /\ shown' = {}
  /\ last' = NobodyTried
  /\ result' = outcome

Ask(class, providers) ==
  Route([class |-> class, providers |-> providers],
        IF providers = <<>> THEN "no_providers" ELSE None)

\* The caller has the answer, or is gone.
Release == Route(AtRest, None)

Asking == request # AtRest /\ result = None

Considered == request.providers[place[2]]

\* The degraded are tried in the second pass only.
LastPlace == place = <<2, Len(request.providers)>>

NextPlace ==
  CASE LastPlace -> place
    [] ~LastPlace /\ place[2] = Len(request.providers) -> <<2, 1>>
    [] OTHER -> <<place[1], place[2] + 1>>

Advance ==
  /\ place' = NextPlace
  /\ result' = IF LastPlace THEN "all_failed" ELSE None

\* record_skip: the first reason stands.
RecordSkip(p, cause) == [skipped EXCEPT ![p] = IF @ = None THEN cause ELSE @]

\* classify
Confidential(p) == request.class = "red" /\ p \notin Local

TriedWhen_HealthyOnly(health, pass) == health = "healthy"

TriedWhen(health, pass) == health = "healthy" \/ (health = "degraded" /\ pass = 2)

SkipRed ==
  /\ Asking
  /\ Confidential(Considered)
  /\ skipped' = RecordSkip(Considered, "red_data_confidentiality")
  /\ last' = [last EXCEPT ![Considered] = "red"]
  /\ Advance
  /\ UNCHANGED <<request, shown>>

\* A provider first found unfit in the second pass is not written down.
SkipUnhealthy(health) ==
  /\ Asking
  /\ ~Confidential(Considered)
  /\ ~TriedWhen(health, place[1])
  /\ skipped' = IF place[1] = 1 THEN RecordSkip(Considered, "unhealthy") ELSE skipped
  /\ last' = [last EXCEPT ![Considered] = health]
  /\ Advance
  /\ UNCHANGED <<request, shown>>

Show(health) ==
  /\ Asking
  /\ ~Confidential(Considered)
  /\ TriedWhen(health, place[1])
  /\ shown' = shown \cup {Considered}

ProviderFails_Untold(health) ==
  /\ Show(health)
  /\ last' = [last EXCEPT ![Considered] = "failed"]
  /\ Advance
  /\ UNCHANGED <<request, skipped>>

ProviderFails(health) ==
  /\ Show(health)
  /\ skipped' = RecordSkip(Considered, "failed")
  /\ last' = [last EXCEPT ![Considered] = "failed"]
  /\ Advance
  /\ UNCHANGED request

ProviderAnswers(health, tooLarge) ==
  /\ Show(health)
  /\ result' = IF tooLarge THEN "output_too_large" ELSE Considered
  /\ last' = [last EXCEPT ![Considered] = "answered"]
  /\ UNCHANGED <<request, place, skipped>>

GatewayStep ==
  \/ SkipRed
  \/ \E health \in Health :
       \/ SkipUnhealthy(health)
       \/ ProviderFails(health)
       \/ \E tooLarge \in BOOLEAN : ProviderAnswers(health, tooLarge)

Served == result \in Provider

\* The DisclosureRecord of a request that was served.
Disclosure == [provider |-> result, trail |-> {p \in Provider : skipped[p] # None}]

(***************************************************************************)
(* Properties                                                              *)
(***************************************************************************)
\* Whoever was given the prompt is named by the disclosure, as the one that
\* served it or on the trail: a failed provider has seen it too (complete,
\* record_skip).
DisclosureNamesWhoSaw ==
  Served => shown \subseteq {Disclosure.provider} \cup Disclosure.trail

\* Red data stays on the device whatever fails or degrades during the request,
\* and the trail charges a failure only to a provider that was really called
\* (classify, complete).
TrailIsTrue ==
  request # AtRest =>
    /\ request.class = "red" => shown \subseteq Local
    /\ \A p \in Provider : skipped[p] = "failed" => p \in shown

\* A request is given up only when every provider it may be shown to was last
\* found down or failed at its last call: losing the primary never stops work
\* that another provider could do (complete's two passes).
GivesUpLast ==
  result = "all_failed" =>
    \A i \in DOMAIN request.providers :
      LET p == request.providers[i]
      IN  Confidential(p) \/ last[p] \in {"down", "failed"}
==============================================================================
