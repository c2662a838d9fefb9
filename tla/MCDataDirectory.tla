--------------------------- MODULE MCDataDirectory ---------------------------
(* The drafter's providers are local; model-check's second one is not.        *)
EXTENDS DataDirectory, TLC

CONSTANTS p1, p2, d1, d2, d3, v1, v2, v3, drafter, backup, cloud

MCDraftChain == <<drafter, backup>>
MCCheckChain == <<cloud, drafter, backup>>
Symmetry == Permutations(Device) \cup Permutations(VaultKey)
==============================================================================
