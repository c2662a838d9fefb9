---------------------------- MODULE AuthorityStore ----------------------------
(***************************************************************************)
(* One directory of crates/authority: a claim writes its record to a       *)
(* temporary file, publishes it with hard_link under the authority's id    *)
(* and flushes the directory.  Calls come from any number of processes;    *)
(* any of them may be killed, and the machine may lose power.  purge_      *)
(* expired reads a record and removes its name in two steps.               *)
(***************************************************************************)
EXTENDS Naturals, FiniteSets

CONSTANTS
  Call,         \* one claim each: consume_token, consume_approval or bind_idempotency
  Id,           \* token, approval or idempotency-key ids
  Fingerprint,  \* invocations an idempotency key may be bound to
  Purger,       \* concurrent runs of purge_expired
  None,
  MaxTime,      \* bound: expiry times
  MaxFailures,  \* bound: kills, failed file operations, power losses
  SyncMayFail   \* whether flushing the directory may fail unnoticed

ASSUME BoundsAreNaturals == {MaxTime, MaxFailures} \subseteq Nat
ASSUME SyncIsBoolean == SyncMayFail \in BOOLEAN

VARIABLES
  entry,    \* entry[id]: the record under the name id, or None
  flushed,  \* flushed[id]: what the disk is sure to hold under that name
  temp,     \* temp[c]: the temporary file of call c
  request,  \* request[c]: the record call c wants to publish
  pc,       \* pc[c]: the next file operation of call c
  outcome,  \* outcome[c]: what call c returned
  doomed,   \* doomed[q]: the id whose record q found expired and will remove
  clock, failures

directory == <<entry, flushed, temp>>
callers   == <<request, pc, outcome>>
vars      == <<entry, flushed, temp, request, pc, outcome, doomed, clock, failures>>

Record == [by : Call, whole : BOOLEAN]

Request == [id : Id, fingerprint : Fingerprint, expires : 1 .. MaxTime + 1]

ASSUME NoneIsFresh == None \notin Call \cup Id \cup Record \cup Request

Running == {"create", "fill", "link", "compare", "flush"}

Expired(c) == request[c] # None /\ request[c].expires <= clock

Init ==
  /\ entry = [id \in Id |-> None]
  /\ flushed = [id \in Id |-> None]
  /\ temp = [c \in Call |-> "none"]
  /\ request = [c \in Call |-> None]
  /\ pc = [c \in Call |-> "idle"]
  /\ outcome = [c \in Call |-> "none"]
  /\ doomed = [q \in Purger |-> None]
  /\ clock = 0
  /\ failures = 0

------------------------------------------------------------------------------
(* A claim.                                                                 *)

Return(c, result) ==
  /\ pc' = [pc EXCEPT ![c] = "done"]
  /\ outcome' = [outcome EXCEPT ![c] = result]
  /\ temp' = [temp EXCEPT ![c] = "none"]

Fail == failures < MaxFailures /\ failures' = failures + 1

\* A caller asks only for an authority that its own check found unexpired.
Begin(c) ==
  /\ pc[c] = "idle"
  /\ \E r \in Request :
       /\ r.expires > clock
       /\ request' = [request EXCEPT ![c] = r]
  /\ pc' = [pc EXCEPT ![c] = "create"]
  /\ UNCHANGED <<directory, outcome, doomed, clock, failures>>

\* Plausible bug: the link is published before the record is written and flushed.
CreateTemp_LinkFirst(c) ==
  /\ pc[c] = "create"
  /\ temp' = [temp EXCEPT ![c] = "partial"]
  /\ pc' = [pc EXCEPT ![c] = "link"]
  /\ UNCHANGED <<entry, flushed, request, outcome, doomed, clock, failures>>

CreateTemp(c) ==
  /\ pc[c] = "create"
  /\ temp' = [temp EXCEPT ![c] = "partial"]
  /\ pc' = [pc EXCEPT ![c] = "fill"]
  /\ UNCHANGED <<entry, flushed, request, outcome, doomed, clock, failures>>

\* The open file is written and flushed even if a purge unlinked its name.
FillTemp(c) ==
  /\ pc[c] = "fill"
  /\ temp' = [temp EXCEPT ![c] = IF @ = "none" THEN "none" ELSE "whole"]
  /\ pc' = [pc EXCEPT ![c] = "link"]
  /\ UNCHANGED <<entry, flushed, request, outcome, doomed, clock, failures>>

\* Creating, writing, flushing or linking fails: the claim is denied.
FileOperationFails(c) ==
  /\ pc[c] \in {"create", "fill", "link"}
  /\ Fail
  /\ Return(c, "unavailable")
  /\ UNCHANGED <<entry, flushed, request, doomed, clock>>

\* hard_link finds no temporary file.
LinkMissing(c) ==
  /\ pc[c] = "link"
  /\ temp[c] = "none"
  /\ Return(c, "unavailable")
  /\ UNCHANGED <<entry, flushed, request, doomed, clock, failures>>

\* Plausible bug: the slot is inspected after the link, and the winner meets its own record.
LinkFree_Rechecks(c) ==
  /\ pc[c] = "link"
  /\ temp[c] # "none"
  /\ entry[request[c].id] = None
  /\ entry' = [entry EXCEPT ![request[c].id] = [by |-> c, whole |-> temp[c] = "whole"]]
  /\ pc' = [pc EXCEPT ![c] = "compare"]
  /\ UNCHANGED <<flushed, temp, request, outcome, doomed, clock, failures>>

LinkFree(c) ==
  /\ pc[c] = "link"
  /\ temp[c] # "none"
  /\ entry[request[c].id] = None
  /\ entry' = [entry EXCEPT ![request[c].id] = [by |-> c, whole |-> temp[c] = "whole"]]
  /\ pc' = [pc EXCEPT ![c] = "flush"]
  /\ UNCHANGED <<flushed, temp, request, outcome, doomed, clock, failures>>

\* Plausible bug: the record is renamed into place, which replaces an existing one.
LinkTaken_Rename(c) ==
  /\ pc[c] = "link"
  /\ temp[c] # "none"
  /\ entry[request[c].id] # None
  /\ entry' = [entry EXCEPT ![request[c].id] = [by |-> c, whole |-> temp[c] = "whole"]]
  /\ pc' = [pc EXCEPT ![c] = "flush"]
  /\ UNCHANGED <<flushed, temp, request, outcome, doomed, clock, failures>>

LinkTaken(c) ==
  /\ pc[c] = "link"
  /\ temp[c] # "none"
  /\ entry[request[c].id] # None
  /\ temp' = [temp EXCEPT ![c] = "none"]
  /\ pc' = [pc EXCEPT ![c] = "compare"]
  /\ UNCHANGED <<entry, flushed, request, outcome, doomed, clock, failures>>

\* The existing record is read after the failed link; it may be gone by then.
CompareExisting(c) ==
  LET existing == entry[request[c].id] IN
  /\ pc[c] = "compare"
  /\ \/ existing = None /\ Return(c, "corrupt")
     \/ /\ existing # None
        /\ Return(c, IF request[existing.by].fingerprint = request[c].fingerprint
                     THEN "replay" ELSE "conflict")
  /\ UNCHANGED <<entry, flushed, request, doomed, clock, failures>>

\* Plausible bug: the directory is not flushed.
Flush_NoSync(c) ==
  /\ pc[c] = "flush"
  /\ Return(c, "claimed")
  /\ UNCHANGED <<entry, flushed, request, doomed, clock, failures>>

\* sync_directory, whose error is discarded: the call returns Ok either way.
Flush(c) ==
  /\ pc[c] = "flush"
  /\ \/ flushed' = entry
     \/ SyncMayFail /\ flushed' = flushed
  /\ Return(c, "claimed")
  /\ UNCHANGED <<entry, request, doomed, clock, failures>>

------------------------------------------------------------------------------
(* purge_expired, in any process.                                           *)

\* Every tmp- file goes, whether its claim crashed or is still running.
PurgeTemp(c) ==
  /\ Purger # {}
  /\ temp[c] # "none"
  /\ temp' = [temp EXCEPT ![c] = "none"]
  /\ UNCHANGED <<entry, flushed, callers, doomed, clock, failures>>

PurgeRead(q, id) ==
  /\ doomed[q] = None
  /\ entry[id] # None
  /\ Expired(entry[id].by)
  /\ doomed' = [doomed EXCEPT ![q] = id]
  /\ UNCHANGED <<directory, callers, clock, failures>>

PurgeRemove(q) ==
  /\ doomed[q] # None
  /\ entry' = [entry EXCEPT ![doomed[q]] = None]
  /\ doomed' = [doomed EXCEPT ![q] = None]
  /\ UNCHANGED <<flushed, temp, callers, clock, failures>>

------------------------------------------------------------------------------
(* The machine.                                                             *)

Kill(c) ==
  /\ pc[c] \in Running
  /\ Fail
  /\ pc' = [pc EXCEPT ![c] = "dead"]
  /\ UNCHANGED <<directory, request, outcome, doomed, clock>>

\* What a directory entry may be after a power loss.
Survivors(id) ==
  IF entry[id] = flushed[id] THEN {entry[id]} ELSE {entry[id], flushed[id], None}

PowerLoss ==
  /\ Fail
  /\ entry' \in [Id -> UNION {Survivors(id) : id \in Id}]
  /\ \A id \in Id : entry'[id] \in Survivors(id)
  /\ flushed' = entry'
  /\ pc' = [c \in Call |-> IF pc[c] \in Running THEN "dead" ELSE pc[c]]
  /\ doomed' = [q \in Purger |-> None]
  /\ UNCHANGED <<temp, request, outcome, clock>>

Tick ==
  /\ clock < MaxTime + 1
  /\ clock' = clock + 1
  /\ UNCHANGED <<directory, callers, doomed, failures>>

Claim(c) ==
  \/ Begin(c) \/ CreateTemp(c) \/ FillTemp(c) \/ FileOperationFails(c)
  \/ LinkMissing(c) \/ LinkFree(c) \/ LinkTaken(c) \/ CompareExisting(c) \/ Flush(c)

Next ==
  \/ \E c \in Call : Claim(c) \/ PurgeTemp(c) \/ Kill(c)
  \/ \E q \in Purger : PurgeRemove(q) \/ \E id \in Id : PurgeRead(q, id)
  \/ PowerLoss
  \/ Tick

Spec == Init /\ [][Next]_vars

------------------------------------------------------------------------------
(* Properties.                                                              *)

\* Every variable has its type.
TypeOK ==
  /\ entry \in [Id -> Record \cup {None}]
  /\ flushed \in [Id -> Record \cup {None}]
  /\ temp \in [Call -> {"none", "partial", "whole"}]
  /\ request \in [Call -> Request \cup {None}]
  /\ pc \in [Call -> Running \cup {"idle", "done", "dead"}]
  /\ outcome \in [Call -> {"none", "claimed", "replay", "conflict", "corrupt", "unavailable"}]
  /\ doomed \in [Purger -> Id \cup {None}]
  /\ clock \in 0 .. MaxTime + 1
  /\ failures \in 0 .. MaxFailures

\* A claim that was acknowledged and has not expired still stands, whatever
\* was killed, purged or lost with the power since ("live record must survive
\* the purge", and consumption that "survives reopen").  Two live claims of
\* one id are impossible in consequence.
LiveClaimStands ==
  \A c \in Call : outcome[c] = "claimed" /\ ~Expired(c) =>
    entry[request[c].id] # None /\ entry[request[c].id].by = c

\* A record that can be read is complete: a reader never meets a partial one.
RecordsAreWhole == \A id \in Id : entry[id] # None => entry[id].whole

\* Racers for one id do not all lose: when every call for it was answered and
\* no file operation went wrong, one of them was told that it won.
SomeoneWins ==
  \A id \in Id :
    LET racers == {c \in Call : request[c] # None /\ request[c].id = id} IN
    /\ racers # {}
    /\ \A c \in racers : pc[c] = "done" /\ outcome[c] # "unavailable"
    => \E c \in racers : outcome[c] = "claimed"

\* The store implements its promise.
Promise == INSTANCE OneUse WITH
  holder  <- [id \in Id |-> IF entry[id] = None THEN None ELSE entry[id].by],
  granted <- {c \in Call : outcome[c] = "claimed"},
  expired <- {c \in Call : Expired(c)}

KeepsPromise == Promise!Spec
==============================================================================
