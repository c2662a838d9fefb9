-------------------------------- MODULE OneUse --------------------------------
(***************************************************************************)
(* What the durable authority store promises, without files: an identifier *)
(* has at most one holder, only a holder is told that it won, and a holder *)
(* that was told keeps the identifier until its record expires.            *)
(***************************************************************************)
CONSTANTS Call, Id, None

VARIABLES
  holder,   \* holder[id]: the call whose record stands under id, or None
  granted,  \* calls that were told they consumed their identifier
  expired   \* calls whose record has expired

Init ==
  /\ holder = [id \in Id |-> None]
  /\ granted = {}
  /\ expired = {}

Take(c, id) ==
  /\ holder[id] = None
  /\ holder' = [holder EXCEPT ![id] = c]
  /\ UNCHANGED <<granted, expired>>

\* A caller whose record has expired may be told late, when the identifier
\* is no longer its own: the authority is worthless by then.
Grant(c) ==
  /\ c \in expired \/ \E id \in Id : holder[id] = c
  /\ granted' = granted \cup {c}
  /\ UNCHANGED <<holder, expired>>

Expire ==
  /\ \E more \in SUBSET Call : expired' = expired \cup more
  /\ UNCHANGED <<holder, granted>>

\* A purge or a power loss.  It may also bring an expired record back.
Release ==
  /\ holder' \in [Id -> expired \cup Call \cup {None}]
  /\ \A id \in Id : holder'[id] # holder[id] =>
       /\ holder[id] \notin granted \ expired
       /\ holder'[id] \in expired \cup {None}
  /\ UNCHANGED <<granted, expired>>

Next ==
  \/ \E c \in Call, id \in Id : Take(c, id)
  \/ \E c \in Call : Grant(c)
  \/ Expire
  \/ Release

Spec == Init /\ [][Next]_<<holder, granted, expired>>
==============================================================================
