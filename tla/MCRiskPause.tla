----------------------------- MODULE MCRiskPause -----------------------------
(* TLC instances of RiskPause. *)
EXTENDS RiskPause, TLC

\* Used by the safety runs only.
Symmetry == Permutations(Slots) \union Permutations(Cids)
=============================================================================
