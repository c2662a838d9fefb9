----------------------------- MODULE MCWorkspace -----------------------------
(* Instance of Workspace for TLC: identifiers are model values. *)
EXTENDS Workspace, TLC

CONSTANTS s1, c1, c2, d1, d2, a1, a2, v1, v2

OneServer  == {s1}
OneCustomer  == {c1}
TwoCustomers == {c1, c2}
OneDocument  == {d1}
TwoDocuments == {d1, d2}
OneApproval  == {a1}
TwoApprovals == {a1, a2}
OneVenture  == {v1}
TwoVentures == {v1, v2}

Symmetry == Permutations(TwoDocuments) \cup Permutations(TwoApprovals)
==============================================================================
