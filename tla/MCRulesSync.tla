----------------------------- MODULE MCRulesSync -----------------------------
(* Small instances of RulesSync for TLC. *)
EXTENDS RulesSync, TLC

Symmetry == Permutations(Agent) \cup Permutations(Policy) \cup Permutations(Rule) \cup Permutations(Name)
=============================================================================
