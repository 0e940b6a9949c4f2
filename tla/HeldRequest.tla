---------------------------- MODULE HeldRequest ----------------------------
(***************************************************************************)
(* What the hold-and-ask mode of the proxy promises, told without any of   *)
(* its machinery: an agent's request that no rule decides is held, an      *)
(* operator may pass one verdict on it, and the agent gets exactly one     *)
(* answer.  ApprovalFlow implements this with two processes, a socket,     *)
(* four queues and a database.                                             *)
(***************************************************************************)

CONSTANT Request        \* the requests agents make

VARIABLES
  hold,                 \* hold[r]: where request r stands, as its agent sees it
  verdict               \* verdict[r]: what the approval queue says about r

vars == <<hold, verdict>>

Verdict == {"none", "approved", "rejected", "expired"}

TypeOK ==
  /\ hold \in [Request -> {"new", "held", "forwarded", "denied", "lost"}]
  /\ verdict \in [Request -> Verdict]

Init ==
  /\ hold = [r \in Request |-> "new"]
  /\ verdict = [r \in Request |-> "none"]

Moves(r, from, to) == hold[r] = from /\ hold' = [hold EXCEPT ![r] = to]

Hold(r) == Moves(r, "new", "held") /\ UNCHANGED verdict

(* An operator decides, possibly too late for the agent. *)
Decide(r, v) ==
  /\ hold[r] # "new"
  /\ verdict[r] = "none"
  /\ verdict' = [verdict EXCEPT ![r] = v]
  /\ UNCHANGED hold

(* Stale questions are closed, but only those nobody waits for any more. *)
Expire(S) ==
  /\ \A r \in S : hold[r] \notin {"new", "held"} /\ verdict[r] = "none"
  /\ verdict' = [r \in Request |-> IF r \in S THEN "expired" ELSE verdict[r]]
  /\ UNCHANGED hold

Forward(r) == verdict[r] = "approved" /\ Moves(r, "held", "forwarded") /\ UNCHANGED verdict

(* A rejection, or a hold that ran out whatever the verdict. *)
Deny(r) == Moves(r, "held", "denied") /\ UNCHANGED verdict

(* The proxy died under all the requests it was holding. *)
LoseAll ==
  /\ hold' = [r \in Request |-> IF hold[r] = "held" THEN "lost" ELSE hold[r]]
  /\ UNCHANGED verdict

Next ==
  \/ \E r \in Request : Hold(r) \/ Forward(r) \/ Deny(r)
  \/ \E r \in Request, v \in {"approved", "rejected"} : Decide(r, v)
  \/ \E S \in SUBSET Request : Expire(S)
  \/ LoseAll

Safety == Init /\ [][Next]_vars

(* Every held request is answered, or lost with the proxy. *)
Spec == Safety /\ \A r \in Request : WF_vars(Forward(r) \/ Deny(r))
=============================================================================
