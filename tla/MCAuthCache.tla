----------------------------- MODULE MCAuthCache -----------------------------
(* Small instances of AuthCache for TLC. *)
EXTENDS AuthCache, TLC

Symmetry == Permutations(Thread) \cup Permutations(Token)
=============================================================================
