--------------------------- MODULE MCAuthorityStore ---------------------------
(* Instance of AuthorityStore for TLC: calls, ids and purges are model values. *)
EXTENDS AuthorityStore, TLC

CONSTANTS c1, c2, c3, k1, f1, f2, q1

ThreeCalls == {c1, c2, c3}
OneId  == {k1}
TwoFingerprints == {f1, f2}
OnePurger  == {q1}

Symmetry == Permutations(ThreeCalls) \cup Permutations(TwoFingerprints)
==============================================================================
