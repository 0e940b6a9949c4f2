---------------------------- MODULE MCProxyProcess ----------------------------
(* Small instances of ProxyProcess for TLC. *)
EXTENDS ProxyProcess, TLC

Symmetry == Permutations(Thread) \cup Permutations(Token)
=============================================================================
