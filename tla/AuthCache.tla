------------------------------- MODULE AuthCache -------------------------------
(***************************************************************************)
(* Authentication of an agent at the proxy, and the cache in front of      *)
(* bcrypt.  Any number of request goroutines run Authenticate, which takes *)
(* the lock three times: to look the agent up, to look into the cache and  *)
(* to store the outcome of the comparison.  agents.reload replaces the     *)
(* registry and clears the cache at any point in between.                  *)
(*                                                                         *)
(* One agent name: entries of another name are other keys of both maps.    *)
(* Tick makes the entries of the cache and the comparisons one unit older. *)
(***************************************************************************)
EXTENDS Naturals

CONSTANTS
  Token,         \* the tokens the agent ever had, and wrong ones
  Thread,        \* goroutines
  NoAgent,       \* the registry does not list the agent
  TTL,           \* how long an outcome is cached
  Slack          \* how long a goroutine may need from its look-up to its end

ASSUME TimeAssumption == TTL \in Nat \ {0} /\ Slack \in Nat

VARIABLES
  registry,      \* the agent's token_hash and enabled flag, or NoAgent
  cache,         \* outcome for each token, and its age
  thread,        \* where each goroutine is, the token it was given, the hash it read
  busy,          \* how long it has been running
  since          \* history: ticks since a token became right, or wrong

authVars == <<registry, cache, thread, busy, since>>

Entry == [outcome : {"none", "yes", "no"}, age : 0 .. TTL]
Empty == [outcome |-> "none", age |-> 0]
Running == {"looked", "comparing"}
Cap == TTL + Slack         \* nothing depends on how much older a change is

AuthTypeOK ==
  /\ registry \in [hash : Token, enabled : BOOLEAN] \cup {NoAgent}
  /\ cache \in [Token -> Entry]
  /\ thread \in [Thread -> [at : {"idle", "yes", "no"} \cup Running, token : Token, hash : Token]]
  /\ busy \in [Thread -> 0 .. Slack]
  /\ since \in [Token -> 0 .. Cap]

AuthInit ==
  /\ registry = NoAgent
  /\ cache = [t \in Token |-> Empty]
  /\ thread \in [Thread -> [at : {"idle"}, token : Token, hash : Token]]
  /\ \A g \in Thread : thread[g].token = thread[g].hash
  /\ busy = [g \in Thread |-> 0]
  /\ since = [t \in Token |-> Cap]

Right(t) == registry # NoAgent /\ registry.hash = t

Becomes(r) ==
  /\ registry' = r
  /\ cache' = [t \in Token |-> Empty]
  /\ since' = [t \in Token |-> IF Right(t) # Right(t)' THEN 0 ELSE since[t]]
  /\ UNCHANGED busy

(* Reload: a token was rotated, the agent disabled, enabled, deleted or    *)
(* renamed away and back, or the same list was sent again.                 *)
Reload(r) == Becomes(r) /\ UNCHANGED thread

(* The process ends, and a new one starts with a new Handler. *)
HandlerDies ==
  /\ Becomes(NoAgent)
  /\ thread' = [g \in Thread |-> [thread[g] EXCEPT !.at = "idle"]]

(* Under the read lock; an agent that is missing or disabled is refused    *)
(* here and leaves nothing behind.                                         *)
LookUp(g, t) ==
  /\ thread[g].at \notin Running
  /\ registry # NoAgent
  /\ registry.enabled
  /\ thread' = [thread EXCEPT ![g] = [at |-> "looked", token |-> t, hash |-> registry.hash]]
  /\ busy' = [busy EXCEPT ![g] = 0]
  /\ UNCHANGED <<registry, cache, since>>

Fresh(e) == e.outcome # "none" /\ e.age < TTL

GoTo(g, where) ==
  thread' = [thread EXCEPT ![g] = [at |-> where, token |-> thread[g].token, hash |-> thread[g].hash]]

(* slip: a hit starts the TTL of its entry again *)
CheckCacheSlides(g) ==
  /\ thread[g].at = "looked"
  /\ LET e == cache[thread[g].token] IN
       /\ GoTo(g, IF Fresh(e) THEN e.outcome ELSE "comparing")
       /\ cache' = IF Fresh(e) THEN [cache EXCEPT ![thread[g].token].age = 0] ELSE cache
  /\ UNCHANGED <<registry, busy, since>>

(* Under the read lock again: a fresh entry is the answer. *)
CheckCache(g) ==
  /\ thread[g].at = "looked"
  /\ LET e == cache[thread[g].token] IN
       GoTo(g, IF Fresh(e) THEN e.outcome ELSE "comparing")
  /\ UNCHANGED <<registry, cache, busy, since>>

(* bcrypt against the hash that was read at first, then the write lock. *)
Compare(g) ==
  /\ thread[g].at = "comparing"
  /\ LET ok == IF thread[g].hash = thread[g].token THEN "yes" ELSE "no" IN
       /\ GoTo(g, ok)
       /\ cache' = [cache EXCEPT ![thread[g].token] = [outcome |-> ok, age |-> 0]]
  /\ UNCHANGED <<registry, busy, since>>

Tick ==
  /\ \A g \in Thread : thread[g].at \in Running => busy[g] < Slack
  /\ cache' = [t \in Token |-> IF cache[t].outcome # "none" /\ cache[t].age < TTL
                               THEN [cache[t] EXCEPT !.age = @ + 1] ELSE cache[t]]
  /\ busy' = [g \in Thread |-> IF thread[g].at \in Running THEN busy[g] + 1 ELSE busy[g]]
  /\ since' = [t \in Token |-> IF since[t] < Cap THEN since[t] + 1 ELSE since[t]]
  /\ UNCHANGED <<registry, thread>>

AuthStep ==
  \/ \E r \in [hash : Token, enabled : BOOLEAN] \cup {NoAgent} : Reload(r)
  \/ \E g \in Thread : CheckCache(g) \/ Compare(g) \/ \E t \in Token : LookUp(g, t)
  \/ Tick

AuthNext == AuthStep \/ HandlerDies

AuthSpec == AuthInit /\ [][AuthNext]_authVars
-----------------------------------------------------------------------------
Answers(g, outcome) == thread[g].at \in Running /\ thread'[g].at = outcome

(* The design, the GUI and a test say of Reload that the old token stops   *)
(* working at once: a call that found another hash in the registry is not  *)
(* answered yes.  The cache is cleared for that; but a comparison that     *)
(* began before the reload stores its outcome after it.                    *)
OldTokenStops ==
  [][\A g \in Thread : Answers(g, "yes") => thread[g].hash = thread[g].token]_authVars

(* How far it goes: no answer is older than the TTL and one comparison     *)
(* (basic.go Authenticate).  A token that was replaced, or the token of a  *)
(* deleted agent, is accepted for less than that, and a token that was     *)
(* just issued is refused for less than that, however the reloads fall     *)
(* between the three critical sections.                                    *)
AnswersAreFresh ==
  [][\A g \in Thread :
       /\ Answers(g, "yes") => Right(thread[g].token) \/ since[thread[g].token] < Cap
       /\ Answers(g, "no") => ~Right(thread[g].token) \/ since[thread[g].token] < Cap]_authVars

(* Why: an entry is at most one comparison younger than the registry it    *)
(* was made from, and so is a goroutine that has not ended.                *)
Agrees(t, outcome, bound) ==
  /\ outcome = "yes" => Right(t) \/ since[t] <= bound
  /\ outcome = "no" => ~Right(t) \/ since[t] <= bound

EntriesAreYoung == \A t \in Token : Agrees(t, cache[t].outcome, Slack + cache[t].age)

HashesAreYoung ==
  \A g \in Thread : thread[g].at \in Running =>
    Agrees(thread[g].token, IF thread[g].hash = thread[g].token THEN "yes" ELSE "no", busy[g])

FreshnessInv == EntriesAreYoung /\ HashesAreYoung
=============================================================================
