--------------------------- MODULE MCApprovalFlow ---------------------------
(* Small instances of ApprovalFlow for TLC. *)
EXTENDS ApprovalFlow, TLC

Symmetry == Permutations(Request) \cup Permutations(Entry)
=============================================================================
