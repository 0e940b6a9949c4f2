------------------------------ MODULE PolicyStore ------------------------------
(***************************************************************************)
(* The tables of the server that say which rules an agent has: agents,     *)
(* policies, their parent-child edges, the policies of each agent and the  *)
(* rules of each policy.  One action per DAO operation that writes them;   *)
(* each is one statement or one transaction of SQLite, with the cascades   *)
(* the foreign keys ask for.                                               *)
(*                                                                         *)
(* A table is a function from the ids of its rows; a rule is its policy    *)
(* and its enabled flag, since nothing here depends on what it matches.    *)
(***************************************************************************)
EXTENDS Naturals, FiniteSets, Functions

CONSTANTS
  Agent, Policy, Rule,   \* row ids, handed out once each (AUTOINCREMENT)
  Name,                  \* agent names
  NoPolicy               \* policy_id IS NULL

ASSUME NoPolicyAssumption == NoPolicy \notin Policy
ASSUME PolicyAssumption == IsFiniteSet(Policy)   \* a row id has 64 bits

VARIABLES
  agents,                \* name of each agent
  policies,              \* policies that exist
  children,              \* policy_children, <<parent, child>>
  assigned,              \* agent_policies, <<agent, policy>>
  rules,                 \* policy and enabled of each rule
  used                   \* ids that have been handed out

tables == <<agents, policies, children, assigned, rules>>
store == <<tables, used>>

RuleRow == [policy : Policy \cup {NoPolicy}, enabled : BOOLEAN]

TypeOK ==
  /\ DOMAIN agents \subseteq Agent
  /\ agents \in [DOMAIN agents -> Name]
  /\ policies \subseteq Policy
  /\ children \subseteq policies \X policies
  /\ assigned \subseteq (DOMAIN agents) \X policies
  /\ DOMAIN rules \subseteq Rule
  /\ rules \in [DOMAIN rules -> [policy : policies \cup {NoPolicy}, enabled : BOOLEAN]]
  /\ DOMAIN agents \cup policies \cup DOMAIN rules \subseteq used
  /\ used \subseteq Agent \cup Policy \cup Rule

(* The database after its last migration: the default policy holds every   *)
(* rule there was, and no agent has a policy yet.                          *)
Init ==
  \E p \in Policy, A \in SUBSET Agent, R \in SUBSET Rule :
    /\ policies = {p}
    /\ agents \in [A -> Name] /\ IsInjective(agents)
    /\ rules \in [R -> [policy : {p}, enabled : BOOLEAN]]
    /\ used = A \cup {p} \cup R
    /\ children = {}
    /\ assigned = {}

-----------------------------------------------------------------------------
(* The two recursive queries.  A recursive CTE returns the least set that  *)
(* holds its first rows and is closed under its step.                      *)

(* cycleCheck: every policy above p. *)
Ancestors(p) ==
  {q \in Policy : \A T \in SUBSET Policy :
      (\A e \in children : e[2] = p \/ e[2] \in T => e[1] \in T) => q \in T}

(* resolveAgentPolicyIds: what a is assigned, and every policy below it. *)
Reachable(a) ==
  {q \in Policy : \A T \in SUBSET Policy :
      /\ \A g \in assigned : g[1] = a => g[2] \in T
      /\ \A e \in children : e[1] \in T => e[2] \in T
      => q \in T}

RulesOf(P) == {r \in DOMAIN rules : rules[r].policy \in P /\ rules[r].enabled}

(* resolveAgentRules *)
Resolve(a) == RulesOf(Reachable(a))

-----------------------------------------------------------------------------
(* policies.js *)

CreatePolicy(p) ==
  /\ p \notin used
  /\ policies' = policies \cup {p}
  /\ used' = used \cup {p}
  /\ UNCHANGED <<agents, children, assigned, rules>>

(* slip: the rules of p fall to another policy *)
DeletePolicyPassesOn(p) ==
  /\ p \in policies
  /\ policies' = policies \ {p}
  /\ children' = {e \in children : e[1] # p /\ e[2] # p}
  /\ assigned' = {g \in assigned : g[2] # p}
  /\ \E q \in (policies \cup {NoPolicy}) \ {p} :
       rules' = [r \in DOMAIN rules |-> IF rules[r].policy = p THEN [rules[r] EXCEPT !.policy = q]
                                                              ELSE rules[r]]
  /\ UNCHANGED <<agents, used>>

(* The edges and assignments of p go with it, its rules lose their policy. *)
DeletePolicy(p) ==
  /\ p \in policies
  /\ policies' = policies \ {p}
  /\ children' = {e \in children : e[1] # p /\ e[2] # p}
  /\ assigned' = {g \in assigned : g[2] # p}
  /\ rules' = [r \in DOMAIN rules |-> IF rules[r].policy = p THEN [rules[r] EXCEPT !.policy = NoPolicy]
                                                             ELSE rules[r]]
  /\ UNCHANGED <<agents, used>>

(* slip: only a policy that is its own parent's parent is found *)
AddChildLooksOnce(p, c) ==
  /\ {p, c} \subseteq policies
  /\ p # c
  /\ <<c, p>> \notin children
  /\ <<p, c>> \notin children
  /\ children' = children \cup {<<p, c>>}
  /\ UNCHANGED <<agents, policies, assigned, rules, used>>

(* slip: the two arguments of cycleCheck are swapped *)
AddChildSwapped(p, c) ==
  /\ {p, c} \subseteq policies
  /\ p # c
  /\ p \notin Ancestors(c)
  /\ <<p, c>> \notin children
  /\ children' = children \cup {<<p, c>>}
  /\ UNCHANGED <<agents, policies, assigned, rules, used>>

(* Rejected as a cycle; the primary key rejects a second edge. *)
AddChild(p, c) ==
  /\ {p, c} \subseteq policies
  /\ p # c
  /\ c \notin Ancestors(p)
  /\ <<p, c>> \notin children
  /\ children' = children \cup {<<p, c>>}
  /\ UNCHANGED <<agents, policies, assigned, rules, used>>

RemoveChild(p, c) ==
  /\ <<p, c>> \in children
  /\ children' = children \ {<<p, c>>}
  /\ UNCHANGED <<agents, policies, assigned, rules, used>>

(* INSERT OR IGNORE *)
AssignToAgent(p, a) ==
  /\ p \in policies
  /\ a \in DOMAIN agents
  /\ assigned' = assigned \cup {<<a, p>>}
  /\ UNCHANGED <<agents, policies, children, rules, used>>

UnassignFromAgent(p, a) ==
  /\ <<a, p>> \in assigned
  /\ assigned' = assigned \ {<<a, p>>}
  /\ UNCHANGED <<agents, policies, children, rules, used>>

-----------------------------------------------------------------------------
(* rules.js *)

RowsToday == [policy : policies \cup {NoPolicy}, enabled : BOOLEAN]

CreateRule(r, row) ==
  /\ r \notin used
  /\ row \in RowsToday
  /\ rules' = [s \in DOMAIN rules \cup {r} |-> IF s = r THEN row ELSE rules[s]]
  /\ used' = used \cup {r}
  /\ UNCHANGED <<agents, policies, children, assigned>>

(* Any columns, policy_id among them. *)
UpdateRule(r, row) ==
  /\ r \in DOMAIN rules
  /\ row \in RowsToday
  /\ rules' = [rules EXCEPT ![r] = row]
  /\ UNCHANGED <<agents, policies, children, assigned, used>>

MoveToPolicy(r, p) ==
  /\ r \in DOMAIN rules
  /\ p \in policies \cup {NoPolicy}
  /\ rules' = [rules EXCEPT ![r].policy = p]
  /\ UNCHANGED <<agents, policies, children, assigned, used>>

DeleteRule(r) ==
  /\ r \in DOMAIN rules
  /\ rules' = Restrict(rules, DOMAIN rules \ {r})
  /\ UNCHANGED <<agents, policies, children, assigned, used>>

-----------------------------------------------------------------------------
(* agents.js; names are UNIQUE. *)

NameIsFree(n, a) == \A b \in DOMAIN agents \ {a} : agents[b] # n

CreateAgent(a, n) ==
  /\ a \notin used
  /\ NameIsFree(n, a)
  /\ agents' = [b \in DOMAIN agents \cup {a} |-> IF b = a THEN n ELSE agents[b]]
  /\ used' = used \cup {a}
  /\ UNCHANGED <<policies, children, assigned, rules>>

RenameAgent(a, n) ==
  /\ a \in DOMAIN agents
  /\ NameIsFree(n, a)
  /\ agents' = [agents EXCEPT ![a] = n]
  /\ UNCHANGED <<policies, children, assigned, rules, used>>

DeleteAgent(a) ==
  /\ a \in DOMAIN agents
  /\ agents' = Restrict(agents, DOMAIN agents \ {a})
  /\ assigned' = {g \in assigned : g[1] # a}
  /\ UNCHANGED <<policies, children, rules, used>>

-----------------------------------------------------------------------------

PolicyWrite ==
  \E p \in Policy :
    \/ CreatePolicy(p)
    \/ DeletePolicy(p)
    \/ \E c \in Policy : AddChild(p, c) \/ RemoveChild(p, c)
    \/ \E a \in Agent : AssignToAgent(p, a) \/ UnassignFromAgent(p, a)

RuleWrite ==
  \E r \in Rule :
    \/ \E row \in RuleRow : CreateRule(r, row) \/ UpdateRule(r, row)
    \/ DeleteRule(r)

RuleMove == \E r \in Rule, p \in Policy \cup {NoPolicy} : MoveToPolicy(r, p)

AgentWrite ==
  \E a \in Agent :
    \/ \E n \in Name : CreateAgent(a, n) \/ RenameAgent(a, n)
    \/ DeleteAgent(a)

Next == PolicyWrite \/ RuleWrite \/ RuleMove \/ AgentWrite

Spec == Init /\ [][Next]_store
-----------------------------------------------------------------------------
(* The hierarchy is a DAG (policies.js addChild): in every set of policies *)
(* one has no parent in the set, so the recursive queries end and no       *)
(* policy reaches itself through any sequence of edge edits and deletions. *)
HierarchyIsAcyclic ==
  \A S \in SUBSET Policy :
    S # {} => \E p \in S : \A q \in S : <<q, p>> \notin children

(* How SQLite runs a recursive CTE: the rows of a round are the step       *)
(* applied to those of the round before, until a round is empty.  With     *)
(* UNION ALL a row is taken up again each time it is found.                *)
Up(P) == {e[1] : e \in {d \in children : d[2] \in P}}
Down(P) == {e[2] : e \in {d \in children : d[1] \in P}}

AncestorRounds(p) ==
  LET f[k \in 0 .. Cardinality(Policy)] == Up(IF k = 0 THEN {p} ELSE f[k - 1]) IN f

ReachableRounds(a) ==
  LET f[k \in 0 .. Cardinality(Policy)] ==
        IF k = 0 THEN {g[2] : g \in {h \in assigned : h[1] = a}} ELSE Down(f[k - 1])
  IN f

Ends(f) == f[Cardinality(Policy)] = {}
Rows(f) == UNION {f[k] : k \in DOMAIN f}

(* The cycle check and the resolution of an agent's rules (policies.js     *)
(* cycleCheck, resolveAgentPolicyIds) stop after at most one round per     *)
(* policy, and have then found exactly the policies they are meant to.     *)
QueriesEnd ==
  /\ \A p \in policies : Ends(AncestorRounds(p)) /\ Rows(AncestorRounds(p)) = Ancestors(p)
  /\ \A a \in DOMAIN agents : Ends(ReachableRounds(a)) /\ Rows(ReachableRounds(a)) = Reachable(a)

Revokes ==
  \E p \in Policy :
    \/ DeletePolicy(p)
    \/ \E c \in Policy : RemoveChild(p, c)
    \/ \E a \in Agent : UnassignFromAgent(p, a)
GrantsNothing == \A a \in DOMAIN agents : Resolve(a)' \subseteq Resolve(a)

(* Taking away a policy, an edge or an assignment never gives an agent a   *)
(* rule it did not have (the ON DELETE clauses of connection.js): the      *)
(* rules of a deleted policy go to nobody and its sub-policies stay apart. *)
RevokingGrantsNothing == [][Revokes => GrantsNothing]_store
=============================================================================
