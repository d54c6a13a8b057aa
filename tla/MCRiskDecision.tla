--------------------------- MODULE MCRiskDecision ---------------------------
(* Model-checking instance of RiskDecision: the dispatchers are             *)
(* interchangeable.                                                         *)
EXTENDS RiskDecision, TLC

MCDecisions == {"rejected", "deferred"}
Symmetry == Permutations(Dispatchers)
=============================================================================
