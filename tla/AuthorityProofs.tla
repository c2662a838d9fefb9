--------------------------- MODULE AuthorityProofs ---------------------------
(***************************************************************************)
(* TypeOK, RecordsAreWhole, SomeoneWins, LiveClaimStands and KeepsPromise  *)
(* for any number of calls, ids, fingerprints, failures and any time       *)
(* bound.  The last two assume that one purge runs at a time (the slower   *)
(* of two could remove what was claimed since) and that a directory flush  *)
(* that returns has happened (a power loss could otherwise forget an       *)
(* acknowledged claim).                                                    *)
(***************************************************************************)
EXTENDS AuthorityStore, TLAPS

\* The code has no call of purge_expired yet; nothing would serialise two.
OneSweep == \A q, r \in Purger : q = r

----------------------------------------------------------------------------
(* The inductive invariant.                                                 *)

\* A name on disk was published by a call that asked for it and got past
\* hard_link, so that its request is settled.
PublishedBy(c, id) ==
  /\ request[c] # None
  /\ request[c].id = id
  /\ pc[c] \in {"flush", "done", "dead"}

Published ==
  \A id \in Id :
    /\ entry[id] # None => PublishedBy(entry[id].by, id)
    /\ flushed[id] # None => PublishedBy(flushed[id].by, id)

Asked == \A c \in Call : request[c] = None <=> pc[c] = "idle"

Answered == \A c \in Call : outcome[c] # "none" => pc[c] = "done"

Holds(c) == entry[request[c].id] # None /\ entry[request[c].id].by = c

\* Between hard_link and the flush the record is there, but not yet durable.
WinnerHolds == \A c \in Call : pc[c] = "flush" /\ ~Expired(c) => Holds(c)

\* Afterwards a power loss has only one thing to choose from.
WinnerIsDurable ==
  \A c \in Call : outcome[c] = "claimed" /\ ~Expired(c) =>
    Holds(c) /\ flushed[request[c].id] = entry[request[c].id]

\* What a purge is about to remove is still the expired record it read.
DoomedIsExpired ==
  \A q \in Purger : doomed[q] # None =>
    entry[doomed[q]] # None /\ Expired(entry[doomed[q]].by)

\* A flushed record that was removed since had expired.
RemovedHadExpired ==
  \A id \in Id : flushed[id] # None =>
    flushed[id] = entry[id] \/ Expired(flushed[id].by)

IInv ==
  /\ TypeOK
  /\ RemovedHadExpired
  /\ Published
  /\ Asked
  /\ Answered
  /\ WinnerHolds
  /\ WinnerIsDurable
  /\ DoomedIsExpired

----------------------------------------------------------------------------
\* Every variable keeps its type.
LEMMA TypeStep == TypeOK /\ [Next]_vars => TypeOK'
<1> SUFFICES ASSUME TypeOK, [Next]_vars PROVE TypeOK'
  OBVIOUS
<1> USE NoneIsFresh, BoundsAreNaturals DEF TypeOK
<1>1. ASSUME NEW c \in Call, Begin(c) PROVE TypeOK'
  BY <1>1 DEF Begin, directory, Running
<1>2. ASSUME NEW c \in Call, CreateTemp(c) \/ FillTemp(c) PROVE TypeOK'
  BY <1>2 DEF CreateTemp, FillTemp, Running
<1>3. ASSUME NEW c \in Call, FileOperationFails(c) PROVE TypeOK'
  BY <1>3 DEF FileOperationFails, Return, Fail, Running
<1>4. ASSUME NEW c \in Call, LinkMissing(c) PROVE TypeOK'
  BY <1>4 DEF LinkMissing, Return, Running
<1>5. ASSUME NEW c \in Call, LinkFree(c) PROVE TypeOK'
  <2>1. [by |-> c, whole |-> temp[c] = "whole"] \in Record
    BY DEF Record
  <2>2. entry' \in [Id -> Record \cup {None}]
    BY <1>5, <2>1 DEF LinkFree
  <2> QED BY <1>5, <2>2 DEF LinkFree, Running
<1>6. ASSUME NEW c \in Call, LinkTaken(c) PROVE TypeOK'
  BY <1>6 DEF LinkTaken, Running
<1>7. ASSUME NEW c \in Call, CompareExisting(c) PROVE TypeOK'
  BY <1>7 DEF CompareExisting, Return, Running
<1>8. ASSUME NEW c \in Call, Flush(c) PROVE TypeOK'
  BY <1>8 DEF Flush, Return, Running
<1>9. ASSUME NEW c \in Call, PurgeTemp(c) PROVE TypeOK'
  BY <1>9 DEF PurgeTemp, callers
<1>10. ASSUME NEW c \in Call, Kill(c) PROVE TypeOK'
  BY <1>10 DEF Kill, Fail, directory, Running
<1>11. ASSUME NEW q \in Purger, PurgeRemove(q) PROVE TypeOK'
  BY <1>11 DEF PurgeRemove, callers
<1>12. ASSUME NEW q \in Purger, NEW id \in Id, PurgeRead(q, id) PROVE TypeOK'
  BY <1>12 DEF PurgeRead, directory, callers
<1>13. ASSUME PowerLoss PROVE TypeOK'
  <2>1. \A id \in Id : Survivors(id) \subseteq Record \cup {None}
    BY DEF Survivors
  <2>2. entry' \in [Id -> Record \cup {None}]
    BY <1>13, <2>1 DEF PowerLoss
  <2> QED BY <1>13, <2>2 DEF PowerLoss, Fail, Running
<1>14. ASSUME Tick PROVE TypeOK'
  BY <1>14 DEF Tick, directory, callers
<1>15. CASE UNCHANGED vars
  BY <1>15 DEF vars
<1> QED
  BY <1>1, <1>2, <1>3, <1>4, <1>5, <1>6, <1>7, <1>8, <1>9, <1>10, <1>11, <1>12,
     <1>13, <1>14, <1>15 DEF Next, Claim

\* Every reachable state of the store is well typed.
THEOREM TypeCorrect == Spec => []TypeOK
<1>1. Init => TypeOK
  BY NoneIsFresh, BoundsAreNaturals DEF Init, TypeOK
<1> QED
  BY <1>1, TypeStep, PTL DEF Spec

----------------------------------------------------------------------------
\* A file operation of c that leaves the directory and the clock alone.
LEMMA PrivateStep ==
  ASSUME IInv, TypeOK', NEW c \in Call,
         UNCHANGED <<entry, flushed, request, doomed, clock>>,
         pc[c] \in {"create", "fill", "link", "compare"},
         \/ pc'[c] \in Running \ {"flush"} /\ outcome' = outcome
         \/ pc'[c] = "done" /\ outcome' = [outcome EXCEPT ![c] = outcome'[c]]
                            /\ outcome'[c] # "claimed",
         pc' = [pc EXCEPT ![c] = pc'[c]]
  PROVE  IInv'
<1> USE DEF IInv
<1>1. \A d \in Call : Expired(d)' = Expired(d)
  BY DEF Expired
<1>2. Published'
  BY DEF Published, PublishedBy, TypeOK, Record
<1>3. Asked' /\ Answered'
  BY DEF Asked, Answered, TypeOK, Running
<1>4. WinnerHolds' /\ WinnerIsDurable'
  BY <1>1 DEF WinnerHolds, WinnerIsDurable, Holds, TypeOK, Running
<1>5. DoomedIsExpired' /\ RemovedHadExpired'
  BY <1>1 DEF DoomedIsExpired, RemovedHadExpired, Expired
<1> QED
  BY <1>2, <1>3, <1>4, <1>5

LEMMA Initially == Init => IInv
<1> SUFFICES ASSUME Init PROVE IInv
  OBVIOUS
<1> QED
  BY NoneIsFresh, BoundsAreNaturals DEF Init, IInv, TypeOK, Published, Asked, Answered,
     WinnerHolds, WinnerIsDurable, DoomedIsExpired, RemovedHadExpired

LEMMA Step == ASSUME OneSweep, ~SyncMayFail PROVE IInv /\ [Next]_vars => IInv'
<1> SUFFICES ASSUME IInv, [Next]_vars PROVE IInv'
  OBVIOUS
<1>t. TypeOK /\ TypeOK'
  BY TypeStep DEF IInv
<1>1. ASSUME NEW c \in Call, Begin(c) PROVE IInv'
  <2>1. PICK r \in Request : r.expires > clock /\ request' = [request EXCEPT ![c] = r]
    BY <1>1 DEF Begin
  <2>2. pc[c] = "idle" /\ pc' = [pc EXCEPT ![c] = "create"]
        /\ UNCHANGED <<entry, flushed, outcome, doomed, clock>>
    BY <1>1 DEF Begin, directory
  <2>3. outcome[c] = "none"
    BY <1>t, <2>2 DEF IInv, Answered, TypeOK
  <2>4. \A d \in Call : d # c => request'[d] = request[d] /\ (Expired(d)' <=> Expired(d))
    BY <2>1, <2>2, <1>t DEF Expired, TypeOK
  <2>5. Published'
    BY <2>1, <2>2, <1>t DEF IInv, Published, PublishedBy, TypeOK, Record
  <2>6. Asked' /\ Answered'
    BY <2>1, <2>2, <2>3, <1>t, NoneIsFresh DEF IInv, Asked, Answered, TypeOK
  <2>7. WinnerHolds' /\ WinnerIsDurable'
    BY <2>2, <2>3, <2>4, <1>t DEF IInv, WinnerHolds, WinnerIsDurable, Holds, TypeOK
  <2>8. DoomedIsExpired'
    <3> SUFFICES ASSUME NEW q \in Purger, doomed[q] # None
                 PROVE  entry[doomed[q]] # None /\ Expired(entry[doomed[q]].by)'
      BY <2>2 DEF DoomedIsExpired
    <3>1. doomed[q] \in Id /\ entry[doomed[q]] # None /\ Expired(entry[doomed[q]].by)
      BY <1>t DEF IInv, DoomedIsExpired, TypeOK
    <3>2. entry[doomed[q]].by \in Call /\ pc[entry[doomed[q]].by] # "idle"
      BY <3>1, <1>t DEF IInv, Published, PublishedBy, TypeOK, Record
    <3> QED
      BY <3>1, <3>2, <2>2, <2>4
  <2>9. RemovedHadExpired'
    <3> SUFFICES ASSUME NEW id \in Id, flushed[id] # None, flushed[id] # entry[id]
                 PROVE  Expired(flushed[id].by)'
      BY <2>2 DEF RemovedHadExpired
    <3>1. flushed[id].by \in Call /\ pc[flushed[id].by] # "idle" /\ Expired(flushed[id].by)
      BY <1>t DEF IInv, RemovedHadExpired, Published, PublishedBy, TypeOK, Record
    <3> QED
      BY <3>1, <2>2, <2>4
  <2> QED
    BY <2>5, <2>6, <2>7, <2>8, <2>9, <1>t DEF IInv
<1>2. ASSUME NEW c \in Call, CreateTemp(c) \/ FillTemp(c) \/ LinkTaken(c) PROVE IInv'
  <2>1. /\ UNCHANGED <<entry, flushed, request, doomed, clock, outcome>>
        /\ pc[c] \in {"create", "fill", "link"}
        /\ pc'[c] \in Running \ {"flush"}
        /\ pc' = [pc EXCEPT ![c] = pc'[c]]
    BY <1>2, <1>t DEF CreateTemp, FillTemp, LinkTaken, TypeOK, Running
  <2> QED
    BY <2>1, <1>t, PrivateStep
<1>3. ASSUME NEW c \in Call, FileOperationFails(c) \/ LinkMissing(c) \/ CompareExisting(c)
      PROVE IInv'
  <2>1. /\ UNCHANGED <<entry, flushed, request, doomed, clock>>
        /\ pc[c] \in {"create", "fill", "link", "compare"}
        /\ \E result \in {"unavailable", "corrupt", "replay", "conflict"} : Return(c, result)
    BY <1>3 DEF FileOperationFails, LinkMissing, CompareExisting
  <2>2. /\ pc'[c] = "done" /\ pc' = [pc EXCEPT ![c] = pc'[c]]
        /\ outcome' = [outcome EXCEPT ![c] = outcome'[c]] /\ outcome'[c] # "claimed"
    BY <2>1, <1>t DEF Return, TypeOK
  <2> QED
    BY <2>1, <2>2, <1>t, PrivateStep
<1>4. ASSUME NEW c \in Call, LinkFree(c) PROVE IInv'
  <2> DEFINE id == request[c].id
             record == [by |-> c, whole |-> temp[c] = "whole"]
  <2>1. /\ pc[c] = "link" /\ entry[id] = None
        /\ entry' = [entry EXCEPT ![id] = record]
        /\ pc' = [pc EXCEPT ![c] = "flush"]
        /\ UNCHANGED <<flushed, request, outcome, doomed, clock>>
    BY <1>4 DEF LinkFree
  <2>2. request[c] # None /\ id \in Id
    BY <2>1, <1>t DEF IInv, Asked, TypeOK, Request
  <2>3. \A d \in Call : Expired(d)' = Expired(d)
    BY <2>1 DEF Expired
  <2>4. record.by = c /\ record # None
    <3>1. record \in Record
      BY DEF Record
    <3> QED BY <3>1, NoneIsFresh
  <2> HIDE DEF record, id
  <2>5. Published'
    BY <2>1, <2>2, <2>4, <1>t DEF IInv, Published, PublishedBy, TypeOK, Record, id
  <2>6. Asked' /\ Answered'
    BY <2>1, <2>2, <1>t DEF IInv, Asked, Answered, TypeOK
  <2>7. WinnerHolds' /\ WinnerIsDurable'
    BY <2>1, <2>2, <2>3, <2>4, <1>t
       DEF IInv, WinnerHolds, WinnerIsDurable, Holds, Asked, Answered, TypeOK, id
  <2>8. DoomedIsExpired'
    <3> SUFFICES ASSUME NEW q \in Purger, doomed[q] # None
                 PROVE  (entry[doomed[q]] # None /\ Expired(entry[doomed[q]].by))'
      BY <2>1 DEF DoomedIsExpired
    <3>1. doomed[q] \in Id /\ entry[doomed[q]] # None /\ Expired(entry[doomed[q]].by)
      BY <1>t DEF IInv, DoomedIsExpired, TypeOK
    <3>2. entry'[doomed[q]] = entry[doomed[q]]
      BY <3>1, <2>1, <2>2, <1>t DEF TypeOK
    <3>3. entry[doomed[q]].by \in Call
      BY <3>1, <1>t DEF TypeOK, Record
    <3> QED
      BY <3>1, <3>2, <3>3, <2>1, <2>3
  <2>9. RemovedHadExpired'
    <3> SUFFICES ASSUME NEW i \in Id, flushed[i] # None
                 PROVE  flushed[i] = entry'[i] \/ Expired(flushed[i].by)'
      BY <2>1 DEF RemovedHadExpired
    <3>1. flushed[i] = entry[i] \/ Expired(flushed[i].by)
      BY DEF IInv, RemovedHadExpired
    <3>2. flushed[i].by \in Call
      BY <1>t DEF TypeOK, Record
    <3> QED
      BY <3>1, <3>2, <2>1, <2>2, <2>3, <1>t DEF TypeOK
  <2> QED
    BY <2>5, <2>6, <2>7, <2>8, <2>9, <1>t DEF IInv
<1>5. ASSUME ~SyncMayFail, NEW c \in Call, Flush(c) PROVE IInv'
  <2>1. /\ pc[c] = "flush" /\ flushed' = entry
        /\ pc' = [pc EXCEPT ![c] = "done"]
        /\ outcome' = [outcome EXCEPT ![c] = "claimed"]
        /\ UNCHANGED <<entry, request, doomed, clock>>
    BY <1>5 DEF Flush, Return
  <2>2. \A d \in Call : Expired(d)' = Expired(d)
    BY <2>1 DEF Expired
  <2>3. Published'
    BY <2>1, <1>t DEF IInv, Published, PublishedBy, TypeOK, Record
  <2>4. Asked' /\ Answered'
    BY <2>1, <1>t DEF IInv, Asked, Answered, TypeOK
  <2>5. WinnerHolds' /\ WinnerIsDurable'
    BY <2>1, <2>2, <1>t DEF IInv, WinnerHolds, WinnerIsDurable, Holds, TypeOK
  <2>6. DoomedIsExpired' /\ RemovedHadExpired'
    BY <2>1, <2>2, <1>t DEF IInv, DoomedIsExpired, RemovedHadExpired, Expired
  <2> QED
    BY <2>3, <2>4, <2>5, <2>6, <1>t DEF IInv
<1>6. ASSUME NEW c \in Call, PurgeTemp(c) PROVE IInv'
  BY <1>6, <1>t DEF PurgeTemp, callers, IInv, Published, PublishedBy, Asked, Answered,
     WinnerHolds, WinnerIsDurable, DoomedIsExpired, RemovedHadExpired, Holds, Expired
<1>7. ASSUME NEW c \in Call, Kill(c) PROVE IInv'
  <2>1. /\ pc[c] \in Running /\ pc' = [pc EXCEPT ![c] = "dead"]
        /\ UNCHANGED <<entry, flushed, request, outcome, doomed, clock>>
    BY <1>7 DEF Kill, directory
  <2>2. \A d \in Call : Expired(d)' = Expired(d)
    BY <2>1 DEF Expired
  <2>3. Published'
    BY <2>1, <1>t DEF IInv, Published, PublishedBy, TypeOK, Record
  <2>4. Asked' /\ Answered'
    BY <2>1, <1>t DEF IInv, Asked, Answered, TypeOK, Running
  <2>5. WinnerHolds' /\ WinnerIsDurable'
    BY <2>1, <2>2, <1>t DEF IInv, WinnerHolds, WinnerIsDurable, Holds, TypeOK
  <2>6. DoomedIsExpired' /\ RemovedHadExpired'
    BY <2>1, <2>2, <1>t DEF IInv, DoomedIsExpired, RemovedHadExpired, Expired
  <2> QED
    BY <2>3, <2>4, <2>5, <2>6, <1>t DEF IInv
<1>8. ASSUME OneSweep, NEW q \in Purger, PurgeRemove(q) PROVE IInv'
  <2>1. /\ doomed[q] # None /\ doomed[q] \in Id
        /\ entry' = [entry EXCEPT ![doomed[q]] = None]
        /\ doomed' = [doomed EXCEPT ![q] = None]
        /\ UNCHANGED <<flushed, request, pc, outcome, clock>>
    BY <1>8, <1>t DEF PurgeRemove, callers, TypeOK
  <2>2. \A d \in Call : Expired(d)' = Expired(d)
    BY <2>1 DEF Expired
  <2>3. Expired(entry[doomed[q]].by) /\ entry[doomed[q]] # None
    BY <2>1 DEF IInv, DoomedIsExpired
  <2>4. Published'
    BY <2>1, <1>t DEF IInv, Published, PublishedBy, TypeOK, Record
  <2>5. Asked' /\ Answered'
    BY <2>1 DEF IInv, Asked, Answered
  <2>6. \A c \in Call : Holds(c) /\ ~Expired(c) => request[c].id # doomed[q]
    BY <2>3 DEF Holds
  <2>7. WinnerHolds' /\ WinnerIsDurable'
    BY <2>1, <2>2, <2>6, <1>t DEF IInv, WinnerHolds, WinnerIsDurable, Holds, TypeOK
  <2>8. DoomedIsExpired'
    BY <2>1, <1>8, <1>t DEF OneSweep, DoomedIsExpired, TypeOK
  <2>9. RemovedHadExpired'
    BY <2>1, <2>2, <2>3, <1>t DEF IInv, RemovedHadExpired, Expired, TypeOK
  <2> QED
    BY <2>4, <2>5, <2>7, <2>8, <2>9, <1>t DEF IInv
<1>9. ASSUME NEW q \in Purger, NEW id \in Id, PurgeRead(q, id) PROVE IInv'
  <2>1. /\ entry[id] # None /\ Expired(entry[id].by)
        /\ doomed' = [doomed EXCEPT ![q] = id]
        /\ UNCHANGED <<entry, flushed, request, pc, outcome, clock>>
    BY <1>9 DEF PurgeRead, directory, callers
  <2>2. \A d \in Call : Expired(d)' = Expired(d)
    BY <2>1 DEF Expired
  <2>3. Published' /\ Asked' /\ Answered' /\ WinnerHolds' /\ WinnerIsDurable'
    BY <2>1, <2>2 DEF IInv, Published, PublishedBy, Asked, Answered, WinnerHolds,
       WinnerIsDurable, Holds
  <2>4. DoomedIsExpired' /\ RemovedHadExpired'
    BY <2>1, <2>2, <1>t DEF IInv, DoomedIsExpired, RemovedHadExpired, Expired, TypeOK
  <2> QED
    BY <2>3, <2>4, <1>t DEF IInv
<1>10. ASSUME PowerLoss PROVE IInv'
  <2>1. /\ \A id \in Id : entry'[id] \in Survivors(id)
        /\ flushed' = entry'
        /\ pc' = [c \in Call |-> IF pc[c] \in Running THEN "dead" ELSE pc[c]]
        /\ doomed' = [q \in Purger |-> None]
        /\ UNCHANGED <<request, outcome, clock>>
    BY <1>10 DEF PowerLoss
  <2>2. \A d \in Call : Expired(d)' = Expired(d)
    BY <2>1 DEF Expired
  <2>3. \A id \in Id : entry'[id] \in {None, entry[id], flushed[id]}
    BY <2>1 DEF Survivors
  <2>4. Published'
    <3> SUFFICES ASSUME NEW id \in Id, entry'[id] # None
                 PROVE  PublishedBy(entry[id].by, id)'
      BY <2>1 DEF Published, PublishedBy
    <3>1. LET c == entry'[id].by IN PublishedBy(c, id) /\ c \in Call
      BY <2>3, <1>t DEF IInv, Published, TypeOK, Record
    <3> QED
      BY <3>1, <2>1, <1>t DEF PublishedBy, TypeOK, Running
  <2>5. Asked' /\ Answered'
    BY <2>1, <1>t DEF IInv, Asked, Answered, TypeOK, Running
  <2>6. WinnerHolds'
    BY <2>1, <1>t DEF WinnerHolds, TypeOK, Running
  <2>7. WinnerIsDurable'
    <3> SUFFICES ASSUME NEW c \in Call, outcome[c] = "claimed", ~Expired(c)
                 PROVE  Holds(c)' /\ flushed'[request[c].id] = entry'[request[c].id]
      BY <2>1, <2>2 DEF WinnerIsDurable
    <3>1. Holds(c) /\ flushed[request[c].id] = entry[request[c].id]
      BY DEF IInv, WinnerIsDurable
    <3>2. request[c].id \in Id
      BY <1>t DEF IInv, Answered, Asked, TypeOK, Request
    <3>3. entry'[request[c].id] = entry[request[c].id]
      BY <3>1, <3>2, <2>1 DEF Survivors
    <3> QED
      BY <3>1, <3>3, <2>1 DEF Holds
  <2>8. DoomedIsExpired' /\ RemovedHadExpired'
    BY <2>1 DEF DoomedIsExpired, RemovedHadExpired
  <2> QED
    BY <2>4, <2>5, <2>6, <2>7, <2>8, <1>t DEF IInv
<1>11. ASSUME Tick PROVE IInv'
  <2>1. clock' = clock + 1 /\ clock \in Nat
        /\ UNCHANGED <<entry, flushed, request, pc, outcome, doomed>>
    BY <1>11, <1>t, BoundsAreNaturals DEF Tick, directory, callers, TypeOK
  <2>2. \A d \in Call : Expired(d) => Expired(d)'
    BY <2>1, <1>t, BoundsAreNaturals DEF Expired, TypeOK, Request
  <2>3. Published' /\ Asked' /\ Answered'
    BY <2>1 DEF IInv, Published, PublishedBy, Asked, Answered
  <2>4. WinnerHolds' /\ WinnerIsDurable'
    BY <2>1, <2>2 DEF IInv, WinnerHolds, WinnerIsDurable, Holds
  <2>5. DoomedIsExpired'
    BY <2>1, <2>2, <1>t DEF IInv, DoomedIsExpired, TypeOK, Record
  <2>6. RemovedHadExpired'
    BY <2>1, <2>2, <1>t DEF IInv, RemovedHadExpired, TypeOK, Record
  <2> QED
    BY <2>3, <2>4, <2>5, <2>6, <1>t DEF IInv
<1>12. CASE UNCHANGED vars
  BY <1>12, <1>t DEF vars, IInv, Published, PublishedBy, Asked, Answered, WinnerHolds,
     WinnerIsDurable, DoomedIsExpired, RemovedHadExpired, Holds, Expired
<1> QED
  BY <1>1, <1>2, <1>3, <1>4, <1>5, <1>6, <1>7, <1>8, <1>9, <1>10, <1>11, <1>12
     DEF Next, Claim

\* An acknowledged, unexpired claim stands through every kill, purge and power
\* loss, for any number of claims.
THEOREM ClaimsStand == ASSUME OneSweep, ~SyncMayFail PROVE Spec => []LiveClaimStands
<1>1. IInv => LiveClaimStands
  BY DEF IInv, WinnerIsDurable, Holds, LiveClaimStands
<1> QED
  BY Initially, Step, <1>1, PTL DEF Spec

----------------------------------------------------------------------------
(* Records and races.  Neither theorem needs OneSweep or a flush that never *)
(* fails: a record is whole and a race has a winner even where the promise  *)
(* above is not kept.                                                       *)

\* A temporary file is linked only once it is written, and only a linked file
\* gets a name, on disk or off it.
WholeInv ==
  /\ \A c \in Call : pc[c] = "link" => temp[c] # "partial"
  /\ \A id \in Id : entry[id] # None => entry[id].whole
  /\ \A id \in Id : flushed[id] # None => flushed[id].whole

\* Every step keeps partial records out of the directory.
LEMMA WholeStep == TypeOK /\ WholeInv /\ [Next]_vars => WholeInv'
<1> SUFFICES ASSUME TypeOK, WholeInv, [Next]_vars PROVE WholeInv'
  OBVIOUS
<1> USE DEF TypeOK, WholeInv
<1>1. ASSUME NEW c \in Call, Begin(c) \/ CreateTemp(c) \/ FillTemp(c) PROVE WholeInv'
  BY <1>1 DEF Begin, CreateTemp, FillTemp, directory
<1>2. ASSUME NEW c \in Call,
             FileOperationFails(c) \/ LinkMissing(c) \/ CompareExisting(c) \/ Flush(c)
      PROVE  WholeInv'
  BY <1>2 DEF FileOperationFails, LinkMissing, CompareExisting, Flush, Return
<1>3. ASSUME NEW c \in Call, LinkTaken(c) PROVE WholeInv'
  BY <1>3 DEF LinkTaken
<1>4. ASSUME NEW c \in Call, LinkFree(c) PROVE WholeInv'
  <2>1. temp[c] = "whole"
    BY <1>4 DEF LinkFree
  <2> QED
    BY <1>4, <2>1 DEF LinkFree
<1>5. ASSUME NEW c \in Call, PurgeTemp(c) PROVE WholeInv'
  BY <1>5 DEF PurgeTemp, callers
<1>6. ASSUME NEW c \in Call, Kill(c) PROVE WholeInv'
  BY <1>6 DEF Kill, directory
<1>7. ASSUME NEW q \in Purger, PurgeRemove(q) PROVE WholeInv'
  BY <1>7 DEF PurgeRemove, callers
<1>8. ASSUME NEW q \in Purger, NEW id \in Id, PurgeRead(q, id) PROVE WholeInv'
  BY <1>8 DEF PurgeRead, directory, callers
<1>9. ASSUME PowerLoss PROVE WholeInv'
  <2>1. \A id \in Id : entry'[id] \in {None, entry[id], flushed[id]}
    BY <1>9 DEF PowerLoss, Survivors
  <2>2. \A c \in Call : pc'[c] = "link" => pc[c] = "link"
    BY <1>9 DEF PowerLoss
  <2> QED
    BY <1>9, <2>1, <2>2 DEF PowerLoss
<1>10. ASSUME Tick PROVE WholeInv'
  BY <1>10 DEF Tick, directory, callers
<1>11. CASE UNCHANGED vars
  BY <1>11 DEF vars
<1> QED
  BY <1>1, <1>2, <1>3, <1>4, <1>5, <1>6, <1>7, <1>8, <1>9, <1>10, <1>11 DEF Next, Claim

\* A reader never meets a partly written record, whatever is killed, purged or
\* lost with the power, and even where directory flushes fail unnoticed.
THEOREM ReadersSeeWholeRecords == Spec => []RecordsAreWhole
<1>1. Init => TypeOK /\ WholeInv
  BY NoneIsFresh, BoundsAreNaturals DEF Init, TypeOK, WholeInv
<1>2. WholeInv => RecordsAreWhole
  BY DEF WholeInv, RecordsAreWhole
<1> QED
  BY <1>1, <1>2, TypeStep, WholeStep, PTL DEF Spec

\* Call c was published under id, or will never be answered, which settles the
\* race for id as well: SomeoneWins is about races in which everyone was answered.
Wins(c, id) ==
  /\ request[c] # None
  /\ request[c].id = id
  /\ pc[c] \in {"flush", "dead"} \/ outcome[c] = "claimed"

Settled(id) == \E c \in Call : Wins(c, id)

\* Whoever is on disk settles the race, and whoever lost it lost it to someone:
\* the records may be purged since, the winner's answer is not.
RaceInv ==
  /\ Asked
  /\ Answered
  /\ \A c \in Call : pc[c] = "done" => outcome[c] # "none"
  /\ \A id \in Id : entry[id] # None => Wins(entry[id].by, id)
  /\ \A id \in Id : flushed[id] # None => Wins(flushed[id].by, id)
  /\ \A c \in Call :
       pc[c] = "compare" \/ outcome[c] \in {"replay", "conflict", "corrupt"} =>
         Settled(request[c].id)

\* A winner stays one: its request is fixed, and it leaves "flush" only for an
\* answer that grants the claim or for death.
LEMMA WinnersStay ==
  ASSUME TypeOK, Asked, Answered, [Next]_vars, NEW c \in Call, NEW id, Wins(c, id)
  PROVE  Wins(c, id)'
<1> USE DEF TypeOK, Asked, Answered, Wins
<1>1. pc[c] \in {"flush", "dead", "done"}
  OBVIOUS
<1>2. ASSUME NEW d \in Call, Begin(d) PROVE Wins(c, id)'
  BY <1>1, <1>2 DEF Begin
<1>3. ASSUME NEW d \in Call, CreateTemp(d) \/ FillTemp(d) \/ LinkTaken(d) \/ LinkFree(d)
      PROVE  Wins(c, id)'
  BY <1>1, <1>3 DEF CreateTemp, FillTemp, LinkTaken, LinkFree
<1>4. ASSUME NEW d \in Call, FileOperationFails(d) \/ LinkMissing(d) \/ CompareExisting(d)
      PROVE  Wins(c, id)'
  BY <1>1, <1>4 DEF FileOperationFails, LinkMissing, CompareExisting, Return
<1>5. ASSUME NEW d \in Call, Flush(d) PROVE Wins(c, id)'
  BY <1>1, <1>5 DEF Flush, Return
<1>6. ASSUME NEW d \in Call, PurgeTemp(d) \/ Kill(d) PROVE Wins(c, id)'
  BY <1>1, <1>6 DEF PurgeTemp, Kill, callers
<1>7. ASSUME NEW q \in Purger, PurgeRemove(q) \/ \E i \in Id : PurgeRead(q, i)
      PROVE  Wins(c, id)'
  BY <1>7 DEF PurgeRemove, PurgeRead, callers
<1>8. ASSUME PowerLoss PROVE Wins(c, id)'
  BY <1>1, <1>8 DEF PowerLoss, Running
<1>9. CASE Tick
  BY <1>9 DEF Tick, callers
<1>10. CASE UNCHANGED vars
  BY <1>10 DEF vars
<1> QED
  BY <1>2, <1>3, <1>4, <1>5, <1>6, <1>7, <1>8, <1>9, <1>10 DEF Next, Claim

\* Every step keeps the record of who settled which race.
LEMMA RaceStep == TypeOK /\ RaceInv /\ [Next]_vars => RaceInv'
<1> SUFFICES ASSUME TypeOK, RaceInv, [Next]_vars PROVE RaceInv'
  OBVIOUS
<1> USE DEF TypeOK
<1>t. Asked /\ Answered /\ TypeOK'
  BY TypeStep DEF RaceInv
<1>w. \A c \in Call, id \in Id : Wins(c, id) => Wins(c, id)'
  BY <1>t, WinnersStay
<1>s. \A id \in Id : Settled(id) => Settled(id)'
  BY <1>w DEF Settled
<1>b. \A id \in Id : /\ entry[id] # None => entry[id].by \in Call
                     /\ flushed[id] # None => flushed[id].by \in Call
  BY DEF Record
<1>r. \A c \in Call : pc[c] # "idle" => request[c].id \in Id
  BY DEF RaceInv, Asked, Request
\* The three parts about records and losers, when no name appears and no call
\* newly loses.
<1>k. ASSUME \A id \in Id : entry'[id] \in {None, entry[id], flushed[id]},
             \A id \in Id : flushed'[id] \in {None, entry[id], flushed[id]},
             \A c \in Call :
               pc'[c] = "compare" \/ outcome'[c] \in {"replay", "conflict", "corrupt"} =>
                 \/ pc[c] = "compare"
                 \/ outcome[c] \in {"replay", "conflict", "corrupt"},
             \A c \in Call : pc[c] # "idle" => request'[c] = request[c],
             Asked', Answered', \A c \in Call : pc'[c] = "done" => outcome'[c] # "none"
      PROVE  RaceInv'
  <2>1. \A id \in Id : entry'[id] # None => Wins(entry[id].by, id)'
    BY <1>k, <1>w, <1>b DEF RaceInv
  <2>2. \A id \in Id : flushed'[id] # None => Wins(flushed[id].by, id)'
    BY <1>k, <1>w, <1>b DEF RaceInv
  <2>3. ASSUME NEW c \in Call,
               pc'[c] = "compare" \/ outcome'[c] \in {"replay", "conflict", "corrupt"}
        PROVE  Settled(request[c].id)'
    <3>1. Settled(request[c].id)
      BY <1>k, <2>3 DEF RaceInv
    <3>2. pc[c] # "idle"
      BY <1>k, <2>3, <1>t DEF Answered
    <3>3. request'[c] = request[c] /\ request[c].id \in Id
      BY <1>k, <1>r, <3>2
    <3> QED
      BY <1>s, <3>1, <3>3
  <2> QED
    BY <1>k, <2>1, <2>2, <2>3 DEF RaceInv, Wins
<1>1. ASSUME NEW c \in Call, Begin(c) PROVE RaceInv'
  <2>1. Asked' /\ Answered' /\ \A d \in Call : pc'[d] = "done" => outcome'[d] # "none"
    BY <1>1, <1>t, NoneIsFresh DEF Begin, RaceInv, Asked, Answered
  <2> QED
    BY <1>1, <2>1, <1>k DEF Begin, directory
<1>2. ASSUME NEW c \in Call, CreateTemp(c) \/ FillTemp(c) PROVE RaceInv'
  <2>1. Asked' /\ Answered' /\ \A d \in Call : pc'[d] = "done" => outcome'[d] # "none"
    BY <1>2, <1>t DEF CreateTemp, FillTemp, RaceInv, Asked, Answered
  <2> QED
    BY <1>2, <2>1, <1>k DEF CreateTemp, FillTemp
<1>3. ASSUME NEW c \in Call,
             FileOperationFails(c) \/ LinkMissing(c) \/ CompareExisting(c) \/ Flush(c)
      PROVE  RaceInv'
  <2>1. Asked' /\ Answered' /\ \A d \in Call : pc'[d] = "done" => outcome'[d] # "none"
    BY <1>3, <1>t DEF FileOperationFails, LinkMissing, CompareExisting, Flush, Return,
       RaceInv, Asked, Answered
  <2>2. /\ entry' = entry /\ request' = request
        /\ \A id \in Id : flushed'[id] \in {entry[id], flushed[id]}
    BY <1>3 DEF FileOperationFails, LinkMissing, CompareExisting, Flush
  <2>3. /\ \A d \in Call : pc'[d] = "compare" => pc[d] = "compare"
        /\ \A d \in Call : outcome'[d] \in {"replay", "conflict", "corrupt"} =>
             pc[d] = "compare" \/ outcome[d] \in {"replay", "conflict", "corrupt"}
    BY <1>3 DEF FileOperationFails, LinkMissing, CompareExisting, Flush, Return
  <2> QED
    BY <2>1, <2>2, <2>3, <1>k
<1>4. ASSUME NEW c \in Call, LinkFree(c) PROVE RaceInv'
  <2> DEFINE id == request[c].id
  <2>1. /\ pc[c] = "link" /\ id \in Id
        /\ entry' = [entry EXCEPT ![id] = [by |-> c, whole |-> temp[c] = "whole"]]
        /\ pc' = [pc EXCEPT ![c] = "flush"]
        /\ UNCHANGED <<flushed, request, outcome>>
    BY <1>4, <1>r DEF LinkFree
  <2>2. Asked' /\ Answered' /\ \A d \in Call : pc'[d] = "done" => outcome'[d] # "none"
    BY <2>1, <1>t DEF RaceInv, Asked, Answered
  <2>3. Wins(c, id)'
    BY <2>1, <1>t DEF Wins, Asked
  <2>4. \A i \in Id : entry'[i] # None => Wins(entry[i].by, i)'
    BY <2>1, <2>3, <1>w, <1>b DEF RaceInv
  <2>5. \A i \in Id : flushed'[i] # None => Wins(flushed[i].by, i)'
    BY <2>1, <1>w, <1>b DEF RaceInv
  <2>6. \A d \in Call :
          pc'[d] = "compare" \/ outcome'[d] \in {"replay", "conflict", "corrupt"} =>
            Settled(request[d].id)'
    BY <2>1, <1>s, <1>r, <1>t DEF RaceInv, Answered
  <2> QED
    BY <2>2, <2>4, <2>5, <2>6 DEF RaceInv, Wins
<1>5. ASSUME NEW c \in Call, LinkTaken(c) PROVE RaceInv'
  <2> DEFINE id == request[c].id
  <2>1. /\ pc[c] = "link" /\ id \in Id /\ entry[id] # None
        /\ pc' = [pc EXCEPT ![c] = "compare"]
        /\ UNCHANGED <<entry, flushed, request, outcome>>
    BY <1>5, <1>r DEF LinkTaken
  <2>2. Asked' /\ Answered' /\ \A d \in Call : pc'[d] = "done" => outcome'[d] # "none"
    BY <2>1, <1>t DEF RaceInv, Asked, Answered
  <2>3. Settled(id)
    BY <2>1, <1>b DEF RaceInv, Settled
  <2>4. \A i \in Id : entry'[i] # None => Wins(entry[i].by, i)'
    BY <2>1, <1>w, <1>b DEF RaceInv
  <2>5. \A i \in Id : flushed'[i] # None => Wins(flushed[i].by, i)'
    BY <2>1, <1>w, <1>b DEF RaceInv
  <2>6. \A d \in Call :
          pc'[d] = "compare" \/ outcome'[d] \in {"replay", "conflict", "corrupt"} =>
            Settled(request[d].id)'
    BY <2>1, <2>3, <1>s, <1>r, <1>t DEF RaceInv, Answered
  <2> QED
    BY <2>2, <2>4, <2>5, <2>6 DEF RaceInv, Wins
<1>6. ASSUME NEW c \in Call, PurgeTemp(c) PROVE RaceInv'
  BY <1>6, <1>k, <1>t DEF PurgeTemp, callers, RaceInv, Asked, Answered
<1>7. ASSUME NEW c \in Call, Kill(c) PROVE RaceInv'
  <2>1. Asked' /\ Answered' /\ \A d \in Call : pc'[d] = "done" => outcome'[d] # "none"
    BY <1>7, <1>t DEF Kill, RaceInv, Asked, Answered, Running
  <2> QED
    BY <1>7, <2>1, <1>k DEF Kill, directory
<1>8. ASSUME NEW q \in Purger, PurgeRemove(q) PROVE RaceInv'
  BY <1>8, <1>k, <1>t DEF PurgeRemove, callers, RaceInv, Asked, Answered
<1>9. ASSUME NEW q \in Purger, NEW id \in Id, PurgeRead(q, id) PROVE RaceInv'
  BY <1>9, <1>k, <1>t DEF PurgeRead, directory, callers, RaceInv, Asked, Answered
<1>10. ASSUME PowerLoss PROVE RaceInv'
  <2>1. Asked' /\ Answered' /\ \A d \in Call : pc'[d] = "done" => outcome'[d] # "none"
    BY <1>10, <1>t DEF PowerLoss, RaceInv, Asked, Answered, Running
  <2>2. \A id \in Id : entry'[id] \in {None, entry[id], flushed[id]}
    BY <1>10 DEF PowerLoss, Survivors
  <2> QED
    BY <1>10, <2>1, <2>2, <1>k DEF PowerLoss
<1>11. CASE Tick
  BY <1>11, <1>k, <1>t DEF Tick, directory, callers, RaceInv, Asked, Answered
<1>12. CASE UNCHANGED vars
  BY <1>12, <1>k, <1>t DEF vars, RaceInv, Asked, Answered
<1> QED
  BY <1>1, <1>2, <1>3, <1>4, <1>5, <1>6, <1>7, <1>8, <1>9, <1>10, <1>11, <1>12
     DEF Next, Claim

\* When every racer for an id was answered and no file operation failed, one of
\* them was granted the claim: purges and failed flushes cannot make all lose.
THEOREM RacesHaveAWinner == Spec => []SomeoneWins
<1>1. Init => TypeOK /\ RaceInv
  BY NoneIsFresh, BoundsAreNaturals DEF Init, TypeOK, RaceInv, Asked, Answered
<1>2. TypeOK /\ RaceInv => SomeoneWins
  <2> SUFFICES ASSUME TypeOK, RaceInv, NEW id \in Id, NEW c \in Call,
                      request[c] # None, request[c].id = id,
                      \A d \in Call : request[d] # None /\ request[d].id = id =>
                        pc[d] = "done" /\ outcome[d] # "unavailable"
               PROVE  \E d \in Call :
                        request[d] # None /\ request[d].id = id /\ outcome[d] = "claimed"
    BY DEF SomeoneWins
  <2>1. outcome[c] \in {"claimed", "replay", "conflict", "corrupt"}
    BY DEF TypeOK, RaceInv
  <2>2. CASE outcome[c] = "claimed"
    BY <2>2
  <2>3. CASE outcome[c] # "claimed"
    <3>1. Settled(id)
      BY <2>1, <2>3 DEF RaceInv
    <3> QED
      BY <3>1 DEF Settled, Wins
  <2> QED
    BY <2>2, <2>3
<1> QED
  BY <1>1, <1>2, TypeStep, RaceStep, PTL DEF Spec
----------------------------------------------------------------------------
(* The store implements OneUse.                                             *)

Holder == [id \in Id |-> IF entry[id] = None THEN None ELSE entry[id].by]
Granted == {c \in Call : outcome[c] = "claimed"}
Gone == {c \in Call : Expired(c)}

LEMMA PromiseInit == Init => Promise!Init
  BY DEF Init, Promise!Init, Expired

LEMMA PromiseStep ==
  ASSUME OneSweep, ~SyncMayFail
  PROVE  IInv /\ [Next]_vars => [Promise!Next]_<<Holder, Granted, Gone>>
<1> SUFFICES ASSUME IInv, [Next]_vars
             PROVE  Promise!Next \/ UNCHANGED <<Holder, Granted, Gone>>
  BY DEF Holder, Granted, Gone
<1>t. TypeOK
  BY DEF IInv
<1>1. ASSUME NEW c \in Call, Begin(c) PROVE UNCHANGED <<Holder, Granted, Gone>>
  <2>1. PICK r \in Request : r.expires > clock /\ request' = [request EXCEPT ![c] = r]
    BY <1>1 DEF Begin
  <2>2. \A d \in Call : Expired(d)' <=> Expired(d)
    <3>1. request[c] = None \/ ~Expired(c)
      BY <1>1, <1>t DEF Begin, IInv, Asked, TypeOK
    <3> QED
      BY <2>1, <3>1, <1>1, <1>t, BoundsAreNaturals DEF Begin, Expired, TypeOK, Request
  <2> QED
    BY <1>1, <2>2 DEF Begin, directory, Holder, Granted, Gone
<1>2. ASSUME NEW c \in Call,
             CreateTemp(c) \/ FillTemp(c) \/ LinkTaken(c) \/ FileOperationFails(c)
               \/ LinkMissing(c) \/ CompareExisting(c)
      PROVE UNCHANGED <<Holder, Granted, Gone>>
  <2>1. /\ UNCHANGED <<entry, request, clock>>
        /\ pc[c] \in {"create", "fill", "link", "compare"}
        /\ \/ outcome' = outcome
           \/ \E result \in {"unavailable", "corrupt", "replay", "conflict"} :
                outcome' = [outcome EXCEPT ![c] = result]
    BY <1>2 DEF CreateTemp, FillTemp, LinkTaken, FileOperationFails, LinkMissing,
       CompareExisting, Return
  <2>2. outcome[c] = "none"
    BY <2>1, <1>t DEF IInv, Answered, TypeOK
  <2>3. Granted' = Granted
    BY <2>1, <2>2, <1>t DEF Granted, TypeOK
  <2> QED
    BY <2>1, <2>3 DEF Holder, Gone, Expired
<1>3. ASSUME NEW c \in Call, NEW id \in Id, id = request[c].id, LinkFree(c)
      PROVE  Promise!Take(c, id)
  <2>1. entry[id] = None
    BY <1>3 DEF LinkFree
  <2>2. c # None /\ [by |-> c, whole |-> temp[c] = "whole"] # None
    <3>1. [by |-> c, whole |-> temp[c] = "whole"] \in Record
      BY DEF Record
    <3> QED BY <3>1, NoneIsFresh
  <2>3. Holder' = [Holder EXCEPT ![id] = c]
    BY <1>3, <2>1, <2>2, <1>t DEF LinkFree, Holder, TypeOK
  <2>4. Holder[id] = None
    BY <2>1 DEF Holder
  <2>5. UNCHANGED <<Granted, Gone>>
    BY <1>3 DEF LinkFree, Granted, Gone, Expired
  <2> QED
    BY <2>3, <2>4, <2>5 DEF Promise!Take, Holder, Granted, Gone
<1>4. ASSUME NEW c \in Call, Flush(c) PROVE Promise!Grant(c)
  <2>1. c \in Gone \/ \E id \in Id : Holder[id] = c
    BY <1>4, <1>t DEF Flush, IInv, WinnerHolds, Holds, Asked, Gone, Holder, TypeOK, Request
  <2>2. Granted' = Granted \cup {c}
    BY <1>4, <1>t DEF Flush, Return, Granted, TypeOK
  <2>3. UNCHANGED <<Holder, Gone>>
    BY <1>4 DEF Flush, Holder, Gone, Expired
  <2> QED
    BY <2>1, <2>2, <2>3 DEF Promise!Grant, Holder, Granted, Gone
<1>5. ASSUME NEW c \in Call, PurgeTemp(c) \/ Kill(c)
      PROVE UNCHANGED <<Holder, Granted, Gone>>
  BY <1>5 DEF PurgeTemp, Kill, directory, callers, Holder, Granted, Gone, Expired
<1>6. ASSUME NEW q \in Purger, NEW id \in Id, PurgeRead(q, id)
      PROVE UNCHANGED <<Holder, Granted, Gone>>
  BY <1>6 DEF PurgeRead, directory, callers, Holder, Granted, Gone, Expired
<1>7. ASSUME NEW q \in Purger, PurgeRemove(q) PROVE Promise!Release
  <2>1. /\ doomed[q] \in Id /\ entry[doomed[q]] # None
        /\ entry[doomed[q]].by \in Gone
        /\ entry' = [entry EXCEPT ![doomed[q]] = None]
    BY <1>7, <1>t DEF PurgeRemove, IInv, DoomedIsExpired, Gone, TypeOK, Record
  <2>2. \A id \in Id : Holder'[id] # Holder[id] => id = doomed[q] /\ Holder'[id] = None
    BY <2>1, <1>t DEF Holder, TypeOK
  <2>3. Holder[doomed[q]] \in Gone
    BY <2>1 DEF Holder
  <2>4. Holder' \in [Id -> Gone \cup Call \cup {None}]
    BY <2>1, <1>t DEF Holder, TypeOK, Record
  <2>5. UNCHANGED <<Granted, Gone>>
    BY <1>7 DEF PurgeRemove, callers, Granted, Gone, Expired
  <2> QED
    BY <2>2, <2>3, <2>4, <2>5 DEF Promise!Release, Holder, Granted, Gone
<1>8. ASSUME PowerLoss PROVE Promise!Release
  <2>1. /\ \A id \in Id : entry'[id] \in Survivors(id)
        /\ UNCHANGED <<request, outcome, clock>>
    BY <1>8 DEF PowerLoss
  <2>2. UNCHANGED <<Granted, Gone>>
    BY <2>1 DEF Granted, Gone, Expired
  <2>3. Holder' \in [Id -> Gone \cup Call \cup {None}]
    BY <1>t, TypeStep DEF Holder, TypeOK, Record
  <2>4. ASSUME NEW id \in Id, Holder'[id] # Holder[id]
        PROVE  Holder[id] \notin Granted \ Gone /\ Holder'[id] \in Gone \cup {None}
    <3>1. entry[id] # flushed[id] /\ entry'[id] \in {None, flushed[id]}
      BY <2>1, <2>4 DEF Survivors, Holder
    <3>2. Holder'[id] \in Gone \cup {None}
      BY <3>1, <1>t DEF IInv, RemovedHadExpired, Holder, Gone, TypeOK, Record
    <3>3. ASSUME Holder[id] \in Granted, Holder[id] \notin Gone PROVE FALSE
      <4>1. PICK c \in Call : c = Holder[id] /\ outcome[c] = "claimed" /\ ~Expired(c)
        BY <3>3 DEF Granted, Gone
      <4>2. c # None
        BY NoneIsFresh
      <4>3. entry[id] # None /\ entry[id].by = c
        BY <4>1, <4>2 DEF Holder
      <4>4. request[c].id = id
        BY <4>3 DEF IInv, Published, PublishedBy
      <4> QED
        BY <3>1, <4>1, <4>4 DEF IInv, WinnerIsDurable
    <3> QED
      BY <3>2, <3>3
  <2> QED
    BY <2>2, <2>3, <2>4 DEF Promise!Release, Holder, Granted, Gone
<1>9. ASSUME Tick PROVE Promise!Expire
  <2>1. \A d \in Call : Expired(d) => Expired(d)'
    BY <1>9, <1>t, BoundsAreNaturals DEF Tick, callers, Expired, TypeOK, Request
  <2>2. Gone' = Gone \cup Gone' /\ Gone' \in SUBSET Call
    BY <2>1 DEF Gone
  <2>3. UNCHANGED <<Holder, Granted>>
    BY <1>9 DEF Tick, directory, callers, Holder, Granted
  <2> QED
    BY <2>2, <2>3 DEF Promise!Expire, Holder, Granted, Gone
<1>10. CASE UNCHANGED vars
  BY <1>10 DEF vars, Holder, Granted, Gone, Expired
<1>11. ASSUME NEW c \in Call, LinkFree(c) PROVE Promise!Next
  <2>1. request[c].id \in Id
    BY <1>11, <1>t DEF LinkFree, IInv, Asked, TypeOK, Request
  <2>2. PICK id \in Id : id = request[c].id
    BY <2>1
  <2>3. Promise!Take(c, id)
    BY <1>3, <1>11, <2>2
  <2> QED
    BY <2>3 DEF Promise!Next
<1>12. ASSUME NEW c \in Call, Claim(c) \/ PurgeTemp(c) \/ Kill(c)
       PROVE  Promise!Next \/ UNCHANGED <<Holder, Granted, Gone>>
  <2>1. ASSUME Flush(c) PROVE Promise!Next
    BY <2>1, <1>4 DEF Promise!Next
  <2> QED
    BY <1>12, <1>1, <1>2, <1>5, <1>11, <2>1 DEF Claim
<1>13. CASE PowerLoss
  BY <1>13, <1>8 DEF Promise!Next
<1>14. CASE Tick
  BY <1>14, <1>9 DEF Promise!Next
<1>15. ASSUME NEW q \in Purger, PurgeRemove(q) PROVE Promise!Next
  BY <1>15, <1>7 DEF Promise!Next
<1> QED
  BY <1>6, <1>10, <1>12, <1>13, <1>14, <1>15 DEF Next

\* The store keeps the promise of OneUse: hard_link, the directory flush and
\* the expiry test of the purge together make an identifier usable once.
THEOREM ImplementsOneUse == ASSUME OneSweep, ~SyncMayFail PROVE Spec => KeepsPromise
  BY Initially, Step, PromiseInit, PromiseStep, PTL
     DEF Spec, KeepsPromise, Promise!Spec, Holder, Granted, Gone
==============================================================================
