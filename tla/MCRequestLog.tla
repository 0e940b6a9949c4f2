----------------------------- MODULE MCRequestLog -----------------------------
(* Small instances of RequestLog for TLC. *)
EXTENDS RequestLog, TLC

Symmetry == Permutations(Request)
=============================================================================
