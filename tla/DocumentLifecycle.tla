-------------------------- MODULE DocumentLifecycle --------------------------
(***************************************************************************)
(* What the workspace promises about a document, without files, processes  *)
(* or crashes: its status moves only along the lifecycle, and only after   *)
(* the founder's device has signed the event of that move.  An event may   *)
(* be signed and its move never land (an interrupted operation); a move    *)
(* never lands unsigned.                                                   *)
(***************************************************************************)
CONSTANT Document

VARIABLES
  status,   \* status[d]: where d is in its life
  signed    \* signed[d]: the lifecycle events of d on the signed chain

\* A move of the lifecycle and the event that signs it.
Move(from, event, to) == [from |-> from, event |-> event, to |-> to]

Moves ==
  {Move("absent", "document.draft", "Draft"),
   Move("Draft", "approval.requested", "PendingApproval"),
   Move("PendingApproval", "approval.granted", "ApprovedPendingDelivery"),
   Move("PendingApproval", "approval.rejected", "Rejected"),
   Move("ApprovedPendingDelivery", "effect.revoked", "Revoked"),
   Move("ApprovedPendingDelivery", "delivery.confirmed", "Delivered")}

Init ==
  /\ status = [d \in Document |-> "absent"]
  /\ signed = [d \in Document |-> {}]

Sign(d, m) ==
  /\ status[d] = m.from
  /\ signed' = [signed EXCEPT ![d] = @ \cup {m.event}]
  /\ UNCHANGED status

Land(d, m) ==
  /\ status[d] = m.from
  /\ m.event \in signed[d]
  /\ status' = [status EXCEPT ![d] = m.to]
  /\ UNCHANGED signed

Next == \E d \in Document, m \in Moves : Sign(d, m) \/ Land(d, m)

Spec == Init /\ [][Next]_<<status, signed>>
==============================================================================
