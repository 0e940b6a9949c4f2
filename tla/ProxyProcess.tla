---------------------------- MODULE ProxyProcess ----------------------------
(***************************************************************************)
(* What the Go process keeps besides the rules and the held requests: the  *)
(* Handler that authenticates agents and the Writer of the body log.  New  *)
(* is given the one and makes the other, and they end together when the    *)
(* process dies: the cache and the registry are gone, the log file stays   *)
(* with what the crash left in it.  They share nothing else; a behaviour   *)
(* has agents or bodies to watch.                                          *)
(***************************************************************************)
EXTENDS AuthCache, LogWriter

VARIABLE bodies      \* whether there are bodies to log

vars == <<authVars, writerVars, bodies>>

TypeOK == AuthTypeOK /\ WriterTypeOK /\ bodies \in BOOLEAN

Init == AuthInit /\ WriterInit /\ bodies \in BOOLEAN

Authenticates == ~bodies /\ AuthStep /\ UNCHANGED writerVars

Logs == bodies /\ WriterStep /\ UNCHANGED authVars

(* The process stops or crashes and is started again. *)
ProcessEnds ==
  /\ HandlerDies
  /\ IF bodies THEN WriterDies ELSE UNCHANGED writerVars

Next == (Authenticates \/ Logs \/ ProcessEnds) /\ UNCHANGED bodies

Spec == Init /\ [][Next]_vars
=============================================================================
