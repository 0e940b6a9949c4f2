--------------------------- MODULE AuthCacheProofs ---------------------------
(***************************************************************************)
(* For any number of tokens and goroutines, any TTL and any speed of the   *)
(* goroutines, no answer of Authenticate is older than the TTL and one     *)
(* comparison; nor in the process that also writes the body log.           *)
(***************************************************************************)
EXTENDS ProxyProcess, TLAPS

Verdict(g) == IF thread[g].hash = thread[g].token THEN "yes" ELSE "no"

(* Every action leaves the types of AuthCache as they are. *)
LEMMA TypeStep == AuthTypeOK /\ [AuthNext]_authVars => AuthTypeOK'
<1> SUFFICES ASSUME AuthTypeOK, [AuthNext]_authVars PROVE AuthTypeOK'
  OBVIOUS
<1> USE TimeAssumption
<1>0. ASSUME NEW r \in [hash : Token, enabled : BOOLEAN] \cup {NoAgent}, Becomes(r)
      PROVE  /\ registry' \in [hash : Token, enabled : BOOLEAN] \cup {NoAgent}
             /\ cache' \in [Token -> Entry]
             /\ since' \in [Token -> 0 .. Cap]
             /\ busy' = busy
  <2>1. registry' \in [hash : Token, enabled : BOOLEAN] \cup {NoAgent}
    BY <1>0 DEF Becomes
  <2>2. cache' \in [Token -> Entry]
    BY <1>0 DEF Becomes, Empty, Entry
  <2>3. since' \in [Token -> 0 .. Cap]
    BY <1>0 DEF Becomes, AuthTypeOK, Cap
  <2>. QED BY <1>0, <2>1, <2>2, <2>3 DEF Becomes
<1>1. ASSUME NEW r \in [hash : Token, enabled : BOOLEAN] \cup {NoAgent}, Reload(r) PROVE AuthTypeOK'
  BY <1>0, <1>1 DEF Reload, AuthTypeOK
<1>2. ASSUME NEW g \in Thread, NEW t \in Token, LookUp(g, t) PROVE AuthTypeOK'
  BY <1>2 DEF LookUp, AuthTypeOK, Running
<1>3. ASSUME NEW g \in Thread, CheckCache(g) PROVE AuthTypeOK'
  BY <1>3 DEF CheckCache, GoTo, AuthTypeOK, Running, Entry, Fresh
<1>4. ASSUME NEW g \in Thread, Compare(g) PROVE AuthTypeOK'
  BY <1>4 DEF Compare, GoTo, AuthTypeOK, Running, Entry
<1>5. CASE Tick
  <2>1. cache' \in [Token -> Entry]
    BY <1>5 DEF Tick, AuthTypeOK, Entry
  <2>2. busy' \in [Thread -> 0 .. Slack]
    BY <1>5 DEF Tick, AuthTypeOK
  <2>3. since' \in [Token -> 0 .. Cap]
    BY <1>5 DEF Tick, AuthTypeOK, Cap
  <2>. QED BY <1>5, <2>1, <2>2, <2>3 DEF Tick, AuthTypeOK
<1>6. CASE HandlerDies
  BY <1>0, <1>6 DEF HandlerDies, AuthTypeOK
<1>7. CASE UNCHANGED authVars
  BY <1>7 DEF authVars, AuthTypeOK
<1>. QED BY <1>1, <1>2, <1>3, <1>4, <1>5, <1>6, <1>7 DEF AuthNext, AuthStep

(* A reload leaves an entry or a verdict as true as it was, or the token   *)
(* has just changed.                                                       *)
LEMMA ReloadAgrees ==
  ASSUME AuthTypeOK, NEW r, Becomes(r), NEW t \in Token, NEW outcome, NEW bound \in Nat,
         Agrees(t, outcome, bound)
  PROVE  Agrees(t, outcome, bound)'
<1>1. since'[t] = IF Right(t) # Right(t)' THEN 0 ELSE since[t]
  BY DEF Becomes
<1>2. CASE Right(t) # Right(t)'
  BY <1>1, <1>2 DEF Agrees
<1>3. CASE Right(t) = Right(t)'
  BY <1>1, <1>3 DEF Agrees
<1>. QED BY <1>2, <1>3

(* FreshnessInv is inductive given the types. *)
LEMMA FreshnessStep == AuthTypeOK /\ FreshnessInv /\ [AuthNext]_authVars => FreshnessInv'
<1> SUFFICES ASSUME AuthTypeOK, FreshnessInv, [AuthNext]_authVars PROVE FreshnessInv'
  OBVIOUS
<1> USE TimeAssumption
<1>1. ASSUME NEW r \in [hash : Token, enabled : BOOLEAN] \cup {NoAgent}, Reload(r)
      PROVE  FreshnessInv'
  <2>1. EntriesAreYoung'
    BY <1>1 DEF Reload, Becomes, EntriesAreYoung, Agrees, Empty
  <2>2. ASSUME NEW g \in Thread, (thread[g].at \in Running)'
        PROVE  Agrees(thread[g].token, Verdict(g), busy[g])'
    <3> DEFINE t == thread[g].token  b == busy[g]  v == Verdict(g)
    <3>1. t \in Token /\ b \in Nat
      BY DEF AuthTypeOK
    <3>2. Agrees(t, v, b)
      BY <1>1, <2>2 DEF Reload, Becomes, FreshnessInv, HashesAreYoung, Verdict
    <3>3. t' = t /\ b' = b /\ v' = v
      BY <1>1 DEF Reload, Becomes, Verdict
    <3> HIDE DEF t, b, v
    <3>4. Agrees(t, v, b)'
      <4> PICK t0, b0, v0 : t0 = t /\ b0 = b /\ v0 = v
        OBVIOUS
      <4>1. Agrees(t0, v0, b0)'
        BY <1>1, <3>1, <3>2, ReloadAgrees DEF Reload
      <4>. QED BY <4>1, <3>3
    <3>. QED BY <3>4 DEF t, b, v
  <2>. QED BY <2>1, <2>2 DEF FreshnessInv, HashesAreYoung, Verdict
<1>2. ASSUME NEW g \in Thread, NEW t \in Token, LookUp(g, t) PROVE FreshnessInv'
  <2>1. EntriesAreYoung'
    BY <1>2 DEF LookUp, FreshnessInv, EntriesAreYoung, Agrees, Right
  <2>2. HashesAreYoung'
    BY <1>2 DEF LookUp, FreshnessInv, HashesAreYoung, Agrees, Right, AuthTypeOK
  <2>. QED BY <2>1, <2>2 DEF FreshnessInv
<1>3. ASSUME NEW g \in Thread, CheckCache(g) PROVE FreshnessInv'
  <2>1. EntriesAreYoung'
    BY <1>3 DEF CheckCache, GoTo, FreshnessInv, EntriesAreYoung, Agrees, Right
  <2>2. HashesAreYoung'
    BY <1>3 DEF CheckCache, GoTo, FreshnessInv, HashesAreYoung, Agrees, Right, AuthTypeOK, Running
  <2>. QED BY <2>1, <2>2 DEF FreshnessInv
<1>4. ASSUME NEW g \in Thread, Compare(g) PROVE FreshnessInv'
  <2>1. Agrees(thread[g].token, Verdict(g), busy[g])
    BY <1>4 DEF Compare, GoTo, FreshnessInv, HashesAreYoung, Verdict, Running
  <2>2. EntriesAreYoung'
    BY <1>4, <2>1 DEF Compare, GoTo, FreshnessInv, EntriesAreYoung, Agrees, Right, AuthTypeOK, Verdict, Cap
  <2>3. HashesAreYoung'
    BY <1>4 DEF Compare, GoTo, FreshnessInv, HashesAreYoung, Agrees, Right, AuthTypeOK, Running
  <2>. QED BY <2>2, <2>3 DEF FreshnessInv
<1>5. CASE Tick
  <2>1. EntriesAreYoung'
    BY <1>5 DEF Tick, FreshnessInv, EntriesAreYoung, Agrees, Right, AuthTypeOK, Entry, Cap
  <2>2. HashesAreYoung'
    BY <1>5 DEF Tick, FreshnessInv, HashesAreYoung, Agrees, Right, AuthTypeOK, Cap
  <2>. QED BY <2>1, <2>2 DEF FreshnessInv
<1>6. CASE HandlerDies
  <2>1. EntriesAreYoung'
    BY <1>6 DEF HandlerDies, Becomes, EntriesAreYoung, Agrees, Empty
  <2>2. HashesAreYoung'
    BY <1>6 DEF HandlerDies, HashesAreYoung, AuthTypeOK, Running
  <2>. QED BY <2>1, <2>2 DEF FreshnessInv
<1>7. CASE UNCHANGED authVars
  BY <1>7 DEF authVars, FreshnessInv, EntriesAreYoung, HashesAreYoung, Agrees, Right
<1>. QED BY <1>1, <1>2, <1>3, <1>4, <1>5, <1>6, <1>7 DEF AuthNext, AuthStep

(* The registry is empty and the cache as well when the proxy starts. *)
LEMMA StartsFresh == AuthInit => AuthTypeOK /\ FreshnessInv
<1> SUFFICES ASSUME AuthInit PROVE AuthTypeOK /\ FreshnessInv
  OBVIOUS
<1> USE TimeAssumption
<1>1. AuthTypeOK
  BY DEF AuthInit, AuthTypeOK, Empty, Entry, Cap
<1>2. FreshnessInv
  BY DEF AuthInit, FreshnessInv, EntriesAreYoung, HashesAreYoung, Agrees, Empty, Running
<1>. QED BY <1>1, <1>2

(* No cache entry and no running goroutine is older than the TTL and one   *)
(* comparison (basic.go Handler.cache, Authenticate).                      *)
THEOREM CacheIsFresh == AuthSpec => [](AuthTypeOK /\ FreshnessInv)
<1>1. AuthTypeOK /\ FreshnessInv /\ [AuthNext]_authVars => (AuthTypeOK /\ FreshnessInv)'
  BY TypeStep, FreshnessStep
<1>. QED BY StartsFresh, <1>1, PTL DEF AuthSpec

(* The answers of Authenticate are no older than that. *)
THEOREM AnswersStayFresh == AuthSpec => AnswersAreFresh
<1>1. AuthTypeOK /\ FreshnessInv /\ [AuthNext]_authVars =>
        [\A g \in Thread :
           /\ Answers(g, "yes") => Right(thread[g].token) \/ since[thread[g].token] < Cap
           /\ Answers(g, "no") => ~Right(thread[g].token) \/ since[thread[g].token] < Cap]_authVars
  <2> SUFFICES ASSUME AuthTypeOK, FreshnessInv, [AuthNext]_authVars, NEW g \in Thread, NEW outcome \in {"yes", "no"},
                      Answers(g, outcome)
               PROVE  \E bound \in Nat : bound < Cap /\ Agrees(thread[g].token, outcome, bound)
    BY TimeAssumption DEF Agrees, AuthTypeOK, Cap
  <2> USE TimeAssumption
  <2>1. CheckCache(g) \/ Compare(g)
    BY DEF Answers, AuthNext, AuthStep, HandlerDies, Becomes, Reload, LookUp, CheckCache, Compare, GoTo, Tick, authVars, Running, AuthTypeOK
  <2>2. ASSUME CheckCache(g) PROVE \E bound \in Nat : bound < Cap /\ Agrees(thread[g].token, outcome, bound)
    <3> DEFINE e == cache[thread[g].token]
    <3>1. e.outcome = outcome /\ e.age < TTL /\ e.age \in Nat
      BY <2>2 DEF CheckCache, GoTo, Answers, Fresh, AuthTypeOK, Entry
    <3>2. Agrees(thread[g].token, outcome, Slack + e.age)
      BY <3>1 DEF FreshnessInv, EntriesAreYoung, AuthTypeOK
    <3>. QED BY <3>1, <3>2 DEF Cap
  <2>3. ASSUME Compare(g) PROVE \E bound \in Nat : bound < Cap /\ Agrees(thread[g].token, outcome, bound)
    <3>1. outcome = Verdict(g) /\ busy[g] \in Nat /\ busy[g] < Cap
      BY <2>3 DEF Compare, GoTo, Answers, AuthTypeOK, Verdict, Cap
    <3>2. Agrees(thread[g].token, outcome, busy[g])
      BY <2>3, <3>1 DEF Compare, GoTo, FreshnessInv, HashesAreYoung, Verdict, Running
    <3>. QED BY <3>1, <3>2
  <2>. QED BY <2>1, <2>2, <2>3
<1>. QED BY CacheIsFresh, <1>1, PTL DEF AuthSpec, AnswersAreFresh

-----------------------------------------------------------------------------
(* The parts of the process take no steps in ProxyProcess but their own,   *)
(* so what is shown of each by itself holds there (mitm.New, Proxy.Stop).  *)
THEOREM ProcessRunsItsParts == Spec => AuthSpec /\ WriterSpec
<1>1. Init => AuthInit /\ WriterInit
  BY DEF Init
<1>2. [Next]_vars => [AuthNext]_authVars /\ [WriterNext]_writerVars
  BY DEF Next, vars, Authenticates, Logs, ProcessEnds, AuthNext, WriterNext
<1>. QED BY <1>1, <1>2, PTL DEF Spec, AuthSpec, WriterSpec

(* The answers of Authenticate in the whole process. *)
THEOREM ProcessAnswersStayFresh == Spec => AnswersAreFresh
  BY ProcessRunsItsParts, AnswersStayFresh
=============================================================================
