---------------------------- MODULE MCPolicyStore ----------------------------
(* Small instances of PolicyStore, with what its rules match, for TLC. *)
EXTENDS RuleMatching, TLC

Deep == <<"https:", "/", "/", "host", "/", "v1", "/", "users", "?", "page">>
Bare == <<"http:", "/", "/", "host">>
MCRequest == {[method |-> "GET", url |-> Deep], [method |-> "POST", url |-> Bare]}
MCTyped == {[pattern |-> <<"^", "*">>, methods |-> {}], [pattern |-> <<"host", "/", "?", "v", ".", "*">>, methods |-> {"*"}]}

Symmetry == Permutations(Policy) \cup Permutations(Rule) \cup Permutations(Agent) \cup Permutations(Name)
=============================================================================
