----------------------------- MODULE Notifications -----------------------------
(***************************************************************************)
(* What the server tells the outside of an approval: onMessage emits the   *)
(* event and hands it to the webhooks in one step, so EventStream and      *)
(* Webhooks meet in Needed, and they end together when the server dies.    *)
(* They share nothing else; a behaviour has streams or webhooks to watch.  *)
(***************************************************************************)
EXTENDS EventStream, Webhooks

vars == <<streamVars, hookVars>>

Init ==
  /\ StreamInit
  /\ HooksInit
  /\ viewer = "none" \/ list = {}

TypeOK == StreamTypeOK /\ HooksTypeOK

(* onMessage, approval.needed *)
ApprovalNeeded ==
  /\ Needed
  /\ IF viewer = "none" THEN Dispatch ELSE UNCHANGED hookVars

(* sighupHandler, the part that concerns webhooks *)
Sighup ==
  /\ viewer = "none"
  /\ Reload
  /\ UNCHANGED streamVars

ServerRestart ==
  /\ Restart
  /\ IF viewer = "none" THEN Die ELSE UNCHANGED hookVars

Deliver == viewer = "none" /\ HookStep /\ UNCHANGED streamVars

Next ==
  \/ ApprovalNeeded \/ Sighup \/ ServerRestart \/ Deliver
  \/ /\ ServerStep \/ ClientStep \/ \E s \in Stream : Break(s)
     /\ UNCHANGED hookVars

Spec == Init /\ [][Next]_vars /\ StreamFairness /\ HooksFairness
=============================================================================
