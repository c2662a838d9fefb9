--------------------------- MODULE MCArtifactStore ---------------------------
(* Two components, a manifest for each, one key and a second of validity.    *)
EXTENDS ArtifactStore, TLC

CONSTANTS p1, p2, c1, c2, k1, acme, owner

M1 == [issuer |-> acme, key |-> k1, component |-> c1, profile |-> "core-v1", sound |-> TRUE]
M2 == [issuer |-> acme, key |-> k1, component |-> c2, profile |-> "core-v1", sound |-> TRUE]

MCManifest == {M1, M2}

\* Also in circulation: a manifest that is not sound and one signed under the
\* wrong role.
MCPublishable ==
  {Sign("publisher", k1, m) :
     m \in {M1, M2, [M1 EXCEPT !.sound = FALSE]}}
  \cup {Sign("artifact-admission", k1, M1)}

Symmetry == Permutations(Process)

MCSpan == {[from |-> 0, until |-> MaxTime]}
==============================================================================
