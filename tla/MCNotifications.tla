-------------------------- MODULE MCNotifications ---------------------------
(* Small instances of Notifications for TLC. *)
EXTENDS Notifications

(* h1 retries once, h2 has no secret. *)
CONSTANTS h1, h2
MCRetries == [h \in Hook |-> IF h = h1 THEN 1 ELSE 0]
=============================================================================
