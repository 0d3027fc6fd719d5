---------------------------- MODULE MCRiskLedger ----------------------------
(* Model checking of the risk ledger: one tick stands for five seconds.    *)
EXTENDS RiskLedger, TLC

Symmetry == Permutations(Key) \union Permutations(Instance)
                \union Permutations(SnapshotId)
=============================================================================
