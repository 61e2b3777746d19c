---------------------------- MODULE MCQueryBatch ----------------------------
(* Instances of QueryHistory for TLC: two readers, two identities.          *)
EXTENDS QueryHistory, TLC

CONSTANTS r1, r2, A, B

MCReaders == {r1, r2}
MCIdentities == {A, B}
MCSymmetry == Permutations(MCReaders) \cup Permutations(MCIdentities)
=============================================================================
