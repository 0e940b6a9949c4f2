------------------------------- MODULE Webhooks -------------------------------
(***************************************************************************)
(* The dispatcher of webhooks (webhooks/dispatcher.js): every event goes   *)
(* to the hooks of the list of that moment, each with its own retries, and *)
(* SIGHUP replaces the list while deliveries are under way.                *)
(*                                                                         *)
(* A request that times out is aborted here; it may reach the receiver all *)
(* the same, later than the retry.  Nothing is kept over a restart.        *)
(***************************************************************************)
EXTENDS Naturals, Sequences

CONSTANTS
  Hook,                  \* the webhooks a configuration can name
  Retries,               \* webhook.retries ?? 3, of each
  Keyless,               \* hooks without a secret: createHmac throws
  MaxDispatches,         \* bound: events dispatched
  MaxReloads             \* bound: SIGHUPs and restarts of the server

ASSUME RetriesAssumption == Retries \in [Hook -> Nat]

VARIABLES
  list,                  \* the dispatcher's #webhooks
  job,                   \* one delivery per event and hook
  dispatched, reloads    \* counters of the bounds

hookVars == <<list, job, dispatched, reloads>>

Delivery == (1 .. MaxDispatches) \X Hook
None == [phase |-> "none", tries |-> << >>]
New == [phase |-> "asking", tries |-> <<"flying">>]
Job == [phase : {"none", "asking", "backoff", "done", "dropped", "lost"},
        tries : Seq({"flying", "heard"})]
Active(d) == job[d].phase \in {"asking", "backoff"}
RetriesOf(d) == Retries[d[2]]

HooksTypeOK ==
  /\ list \in SUBSET Hook
  /\ job \in [Delivery -> Job]
  /\ dispatched \in 0 .. MaxDispatches /\ reloads \in 0 .. MaxReloads

HooksInit ==
  /\ list \in SUBSET Hook
  /\ job = [d \in Delivery |-> None]
  /\ dispatched = 0 /\ reloads = 0

(* dispatch: the hooks that want the event; allSettled keeps the failure   *)
(* of one from the others, and that of a keyless one from everybody.       *)
Dispatch ==
  /\ dispatched < MaxDispatches
  /\ dispatched' = dispatched + 1
  /\ job' = [d \in Delivery |->
               IF d[1] = dispatched + 1 /\ d[2] \in list \ Keyless THEN New ELSE job[d]]
  /\ UNCHANGED <<list, reloads>>

(* The receiver gets a request, perhaps one that has been given up. *)
Hear(d, k) ==
  /\ k \in DOMAIN job[d].tries /\ job[d].tries[k] = "flying"
  /\ job' = [job EXCEPT ![d] = [phase |-> job[d].phase,
                                tries |-> [job[d].tries EXCEPT ![k] = "heard"]]]
  /\ UNCHANGED <<list, dispatched, reloads>>

To(d, phase) ==
  /\ job' = [job EXCEPT ![d] = [phase |-> phase, tries |-> job[d].tries]]
  /\ UNCHANGED <<list, dispatched, reloads>>

Ok(d) ==
  /\ job[d].phase = "asking"
  /\ job[d].tries[Len(job[d].tries)] = "heard"
  /\ To(d, "done")

(* slip: no timeout; a receiver that does not answer is waited for *)
FailedAnswered(d) ==
  /\ job[d].phase = "asking"
  /\ job[d].tries[Len(job[d].tries)] = "heard"
  /\ To(d, IF Len(job[d].tries) <= RetriesOf(d) THEN "backoff" ELSE "dropped")

(* An answer that is not ok, an error, or the timeout; attempt is the      *)
(* number of requests before this one.                                     *)
Failed(d) ==
  /\ job[d].phase = "asking"
  /\ To(d, IF Len(job[d].tries) <= RetriesOf(d) THEN "backoff" ELSE "dropped")

(* 100 * 2 ** attempt milliseconds later *)
Again(d) ==
  /\ job[d].phase = "backoff"
  /\ job' = [job EXCEPT ![d] = [phase |-> "asking", tries |-> Append(job[d].tries, "flying")]]
  /\ UNCHANGED <<list, dispatched, reloads>>

(* slip: reload also forgets what is under way *)
ReloadForgets ==
  /\ reloads < MaxReloads
  /\ reloads' = reloads + 1
  /\ list' \in SUBSET Hook
  /\ job' = [d \in Delivery |->
               IF Active(d) /\ d[2] \notin list' THEN [phase |-> "dropped", tries |-> job[d].tries] ELSE job[d]]
  /\ UNCHANGED dispatched

(* SIGHUP: loadConfig may throw before anything has happened; otherwise    *)
(* the list is the one of the file, and a delivery keeps its hook.         *)
Reload ==
  /\ reloads < MaxReloads
  /\ reloads' = reloads + 1
  /\ list' \in SUBSET Hook
  /\ UNCHANGED <<job, dispatched>>

(* The server dies with its deliveries and starts with what the file says. *)
Die ==
  /\ reloads < MaxReloads
  /\ reloads' = reloads + 1
  /\ list' \in SUBSET Hook
  /\ job' = [d \in Delivery |->
               IF Active(d) THEN [phase |-> "lost", tries |-> job[d].tries] ELSE job[d]]
  /\ UNCHANGED dispatched

HookStep ==
  \E d \in Delivery : Ok(d) \/ Failed(d) \/ Again(d) \/ \E k \in 1 .. RetriesOf(d) + 1 : Hear(d, k)

HooksNext == Dispatch \/ HookStep \/ Reload \/ Die

(* The timeout aborts what is not answered and the backoff timers fire; no *)
(* receiver has to answer.                                                 *)
HooksFairness == \A d \in Delivery : WF_hookVars(Failed(d)) /\ WF_hookVars(Again(d))

HooksSpec == HooksInit /\ [][HooksNext]_hookVars /\ HooksFairness
-----------------------------------------------------------------------------

(* A delivery is tried at most retries + 1 times, and it is given up only  *)
(* after that many: neither a reload nor an answer that comes too late     *)
(* shortens or lengthens it (dispatcher.js #deliver, reload).              *)
RetriesSpent ==
  \A d \in Delivery :
    /\ Len(job[d].tries) <= RetriesOf(d) + 1
    /\ job[d].phase = "dropped" => Len(job[d].tries) = RetriesOf(d) + 1

(* Every delivery ends, whatever its receiver does: nothing is waited for  *)
(* or repeated for ever (dispatcher.js, the timeout and the retries).      *)
DeliveriesEnd == \A d \in Delivery : <>[]~Active(d)
=============================================================================
