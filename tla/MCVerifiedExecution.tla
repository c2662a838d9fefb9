------------------------- MODULE MCVerifiedExecution -------------------------
(* Instance of VerifiedExecution for TLC: identifiers are model values. *)
EXTENDS VerifiedExecution, TLC

CONSTANTS p1, p2, d1, d2, k1, a1, t1, t2, x1, x2

OneProcess   == {p1}
TwoProcesses == {p1, p2}
OneDecision  == {d1}
TwoDecisions == {d1, d2}
SameKey  == [d \in Decision |-> k1]
OneApproval  == {a1}
OneToken  == {t1}
TwoTokens == {t1, t2}
TwoExecutions == {x1, x2}

Symmetry == Permutations(TwoProcesses) \cup Permutations(TwoTokens)
            \cup Permutations(TwoExecutions)

\* Sound when the decisions share their key.
DecisionSymmetry == Symmetry \cup Permutations(TwoDecisions)
==============================================================================
