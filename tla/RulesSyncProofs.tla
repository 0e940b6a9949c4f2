---------------------------- MODULE RulesSyncProofs ----------------------------
(***************************************************************************)
(* For any tables, calls, buffer, breaks and crashes: the rules in force   *)
(* are those of the tables once everything sent has been read.             *)
(*                                                                         *)
(* RulesInForce speaks of an empty socket and is not inductive.  LastIsMap *)
(* follows the newest push: on a live connection it is the last frame on   *)
(* its way and holds the map of the tables, or it has been read.  That the *)
(* map, which is keyed by name, gives an agent its own rules rests on      *)
(* NamesAreUnique.                                                         *)
(*                                                                         *)
(* First, for any calls on the tables alone (PolicyStore's Spec): the      *)
(* hierarchy stays acyclic, so the recursive queries end; what takes away  *)
(* gives nothing; and what the search for matching policies names helps.   *)
(***************************************************************************)
EXTENDS RulesSync, RuleMatching, SequenceTheorems, FiniteSetTheorems, WellFoundedInduction, TLAPS

-----------------------------------------------------------------------------
(* The tables: the hierarchy.                                             *)

EdgeType == children \subseteq Policy \X Policy /\ policies \subseteq Policy

(* Some policy of every set of policies has no parent in the set.          *)
AcyclicEdges(E) ==
  \A S \in SUBSET Policy : S # {} => \E p \in S : \A q \in S : <<q, p>> \notin E

(* What cycleCheck finds holds the parents of p and the parents of all it  *)
(* holds (policies.js cycleCheck).                                         *)
LEMMA AncestorsAreClosed ==
  ASSUME EdgeType, NEW p \in Policy, NEW q \in Policy, NEW c \in {p} \cup Ancestors(p),
         <<q, c>> \in children
  PROVE  q \in Ancestors(p)
<1> SUFFICES ASSUME NEW T \in SUBSET Policy,
                    \A e \in children : e[2] = p \/ e[2] \in T => e[1] \in T
             PROVE  q \in T
  BY DEF Ancestors
<1>1. c = p \/ c \in T
  BY DEF Ancestors
<1> QED
  BY <1>1

(* Removing edges closes no cycle (policies.js removeChild, the cascades). *)
LEMMA FewerEdges ==
  ASSUME NEW E, NEW F, F \subseteq E, AcyclicEdges(E)
  PROVE  AcyclicEdges(F)
BY DEF AcyclicEdges

(* An edge that passes the cycle check closes no cycle: in a set that      *)
(* holds both its ends, look at what lies at or above the parent.          *)
LEMMA CheckedEdge ==
  ASSUME EdgeType, AcyclicEdges(children),
         NEW p \in Policy, NEW c \in Policy, p # c, c \notin Ancestors(p)
  PROVE  AcyclicEdges(children \cup {<<p, c>>})
<1> SUFFICES ASSUME NEW S \in SUBSET Policy, S # {}
             PROVE  \E x \in S : \A y \in S : <<y, x>> \notin children \cup {<<p, c>>}
  BY DEF AcyclicEdges
<1>1. CASE p \notin S
  <2>1. PICK x \in S : \A y \in S : <<y, x>> \notin children
    BY DEF AcyclicEdges
  <2> QED
    BY <1>1, <2>1
<1>2. CASE p \in S
  <2> DEFINE T == S \cap ({p} \cup Ancestors(p))
  <2>1. T \in SUBSET Policy /\ p \in T
    BY <1>2
  <2>2. PICK x \in T : \A y \in T : <<y, x>> \notin children
    BY <2>1 DEF AcyclicEdges
  <2>3. ASSUME NEW y \in S
        PROVE  <<y, x>> \notin children \cup {<<p, c>>}
    <3>1. <<y, x>> \notin children
      <4>1. SUFFICES ASSUME <<y, x>> \in children
                     PROVE  FALSE
        OBVIOUS
      <4>2. y \in Ancestors(p)
        BY <4>1, AncestorsAreClosed
      <4> QED
        BY <4>1, <4>2, <2>2
    <3>2. x # c
      OBVIOUS
    <3> QED
      BY <3>1, <3>2
  <2> QED
    BY <2>3
<1> QED
  BY <1>1, <1>2

(* Every write keeps the edges between policies and free of cycles: only   *)
(* addChild adds an edge, and only one that passed the check.              *)
LEMMA AcyclicStep ==
  ASSUME EdgeType, HierarchyIsAcyclic, [Next]_store
  PROVE  EdgeType' /\ HierarchyIsAcyclic'
<1> USE DEF HierarchyIsAcyclic
<1>1. AcyclicEdges(children)
  BY DEF AcyclicEdges
<1>2. CASE PolicyWrite
  <2>1. PICK p \in Policy :
          \/ CreatePolicy(p) \/ DeletePolicy(p)
          \/ \E c \in Policy : AddChild(p, c) \/ RemoveChild(p, c)
          \/ \E a \in Agent : AssignToAgent(p, a) \/ UnassignFromAgent(p, a)
    BY <1>2 DEF PolicyWrite
  <2>2. CASE \E c \in Policy : AddChild(p, c)
    <3>1. PICK c \in Policy : AddChild(p, c)
      BY <2>2
    <3>2. AcyclicEdges(children \cup {<<p, c>>})
      BY <3>1, <1>1, CheckedEdge DEF AddChild
    <3>3. children' = children \cup {<<p, c>>} /\ policies' = policies
      BY <3>1 DEF AddChild
    <3> QED
      BY <3>2, <3>3 DEF EdgeType, AcyclicEdges
  <2>3. CASE ~\E c \in Policy : AddChild(p, c)
    <3>1. children' \subseteq children
      BY <2>1, <2>3 DEF CreatePolicy, DeletePolicy, RemoveChild, AssignToAgent, UnassignFromAgent
    <3>2. policies' \subseteq Policy
      BY <2>1, <2>3 DEF EdgeType, CreatePolicy, DeletePolicy, RemoveChild, AssignToAgent,
                        UnassignFromAgent
    <3>3. AcyclicEdges(children')
      BY <3>1, <1>1, FewerEdges
    <3> QED
      BY <3>1, <3>2, <3>3 DEF EdgeType, AcyclicEdges
  <2> QED
    BY <2>2, <2>3
<1>3. CASE RuleWrite \/ RuleMove \/ AgentWrite \/ UNCHANGED store
  <2>1. children' = children /\ policies' = policies
    BY <1>3 DEF RuleWrite, RuleMove, AgentWrite, CreateRule, UpdateRule, DeleteRule, MoveToPolicy,
                CreateAgent, RenameAgent, DeleteAgent, store, tables
  <2> QED
    BY <2>1 DEF EdgeType
<1> QED
  BY <1>2, <1>3 DEF Next

(* No sequence of policy calls makes the hierarchy cyclic (policies.js     *)
(* addChild, index.js sendAgentRulesReload): the recursive queries the     *)
(* server runs after every write always end.                               *)
THEOREM HierarchyStaysAcyclic == Spec => []HierarchyIsAcyclic
<1>1. Init => EdgeType /\ HierarchyIsAcyclic
  BY DEF Init, EdgeType, HierarchyIsAcyclic
<1>2. EdgeType /\ HierarchyIsAcyclic /\ [Next]_store => EdgeType' /\ HierarchyIsAcyclic'
  BY AcyclicStep
<1> QED
  BY <1>1, <1>2, PTL DEF Spec

-----------------------------------------------------------------------------
(* The recursive queries.  Each round is a function of the round before; a *)
(* policy of the k-th round has k edges above it or below it, and without  *)
(* cycles no policy has as many as there are policies.                     *)

(* A set of numbers that has one has a least one. *)
LEMMA LeastOne == \A T \in SUBSET Nat : T # {} => \E n \in T : \A m \in T : n <= m
<1>. SUFFICES ASSUME NEW T \in SUBSET Nat, T # {} PROVE \E n \in T : \A m \in T : n <= m
  OBVIOUS
<1>. DEFINE R == {ss \in Nat \X Nat : ss[1] < ss[2]}
<1>1. IsWellFoundedOn(R, Nat)
  BY NatLessThanWellFounded DEF OpToRel
<1>2. PICK n \in T : \A m \in T : <<m, n>> \notin R
  <2>. HIDE DEF R
  <2>. QED  BY <1>1, WFMin
<1>3. ASSUME NEW m \in T PROVE n <= m
  <2>1. m \in Nat /\ n \in Nat
    OBVIOUS
  <2>2. <<m, n>> \in Nat \X Nat /\ <<m, n>>[1] = m /\ <<m, n>>[2] = n
    BY <2>1
  <2>. QED  BY <1>2, <2>1, <2>2
<1>. QED  BY <1>3

(* The numbers up to m have what 0 has and each has after the one before.  *)
LEMMA StepByStep ==
  ASSUME NEW m \in Nat, NEW G \in SUBSET Nat,
         0 \in G, \A k \in 1 .. m : k - 1 \in G => k \in G
  PROVE  \A k \in 0 .. m : k \in G
<1>. DEFINE T == {k \in 0 .. m : k \notin G}
<1>1. SUFFICES ASSUME T # {} PROVE FALSE
  OBVIOUS
<1>2. T \in SUBSET Nat
  OBVIOUS
<1>3. PICK i \in T : \A k \in T : i <= k
  <2>. HIDE DEF T
  <2>. QED  BY <1>1, <1>2, LeastOne
<1>4. i \in 1 .. m /\ i - 1 \in 0 .. m /\ ~(i <= i - 1)
  OBVIOUS
<1>5. i - 1 \in G
  BY <1>3, <1>4
<1>. QED  BY <1>4, <1>5

(* The rounds that start with x and go on with g. *)
Rounds(x, g, m, f) ==
  /\ f \in [0 .. m -> SUBSET Policy]
  /\ f[0] = x
  /\ \A k \in 1 .. m : f[k] = g[f[k - 1]]

(* There are that many rounds, for any first one and any step. *)
LEMMA RoundsExist ==
  ASSUME NEW x \in SUBSET Policy, NEW g \in [SUBSET Policy -> SUBSET Policy], NEW m \in Nat
  PROVE  \E f : Rounds(x, g, m, f)
<1>. DEFINE G == {k \in Nat : \E f : Rounds(x, g, k, f)}
<1>1. 0 \in G
  <2>1. Rounds(x, g, 0, [k \in 0 .. 0 |-> x])
    BY DEF Rounds
  <2>. QED  BY <2>1
<1>2. ASSUME NEW k \in 1 .. m, k - 1 \in G PROVE k \in G
  <2>1. PICK n \in Nat : n = k - 1 /\ k = n + 1
    OBVIOUS
  <2>2. PICK f : Rounds(x, g, n, f)
    BY <1>2, <2>1
  <2>. DEFINE h == [j \in 0 .. n + 1 |-> IF j = n + 1 THEN g[f[n]] ELSE f[j]]
  <2>3. \A j \in 0 .. n + 1 : j # n + 1 => j \in 0 .. n
    OBVIOUS
  <2>4. h \in [0 .. n + 1 -> SUBSET Policy] /\ h[0] = x
    BY <2>2, <2>3 DEF Rounds
  <2>5. ASSUME NEW j \in 1 .. n + 1 PROVE h[j] = g[h[j - 1]]
    <3>1. j - 1 \in 0 .. n + 1 /\ j - 1 # n + 1 /\ j \in 0 .. n + 1
      OBVIOUS
    <3>2. CASE j = n + 1
      <4>1. j - 1 = n
        BY <3>2
      <4>. QED  BY <3>1, <3>2, <4>1
    <3>3. CASE j # n + 1
      <4>1. j \in 1 .. n
        BY <3>3
      <4>. QED  BY <2>2, <3>1, <3>3, <4>1 DEF Rounds
    <3>. QED  BY <3>2, <3>3
  <2>6. Rounds(x, g, n + 1, h)
    BY <2>4, <2>5 DEF Rounds
  <2>. QED  BY <2>1, <2>6
<1>. HIDE DEF G
<1>3. G \in SUBSET Nat
  BY DEF G
<1>4. m \in 0 .. m
  OBVIOUS
<1>5. m \in G
  BY <1>1, <1>2, <1>3, <1>4, StepByStep
<1>. QED  BY <1>5 DEF G

(* The step down, as a function of sets of policies, and the step up. *)
DownFrom == [P \in SUBSET Policy |-> Down(P)]
UpFrom == [P \in SUBSET Policy |-> Up(P)]

(* Both steps find policies. *)
LEMMA StepsAreTyped ==
  ASSUME EdgeType
  PROVE  /\ \A P : Down(P) \in SUBSET Policy /\ Up(P) \in SUBSET Policy
         /\ {DownFrom, UpFrom} \subseteq [SUBSET Policy -> SUBSET Policy]
<1>1. \A P : Down(P) \in SUBSET Policy /\ Up(P) \in SUBSET Policy
  BY DEF EdgeType, Down, Up
<1>. QED  BY <1>1 DEF DownFrom, UpFrom

(* The rounds of the query for what is above a policy: the recursive       *)
(* definition has a solution, so it is one.                                *)
LEMMA AncestorRoundsAre ==
  ASSUME EdgeType, NEW p \in Policy, NEW N \in Nat, N = Cardinality(Policy)
  PROVE  Rounds(Up({p}), UpFrom, N, AncestorRounds(p))
<1>. DEFINE F(f) == f = [k \in 0 .. N |-> Up(IF k = 0 THEN {p} ELSE f[k - 1])]
            c == AncestorRounds(p)
<1>1. c = CHOOSE f : F(f)
  BY DEF AncestorRounds
<1>2. PICK g : Rounds(Up({p}), UpFrom, N, g)
  BY RoundsExist, StepsAreTyped
<1>3. \A k \in 0 .. N : k # 0 => k \in 1 .. N /\ k - 1 \in 0 .. N
  OBVIOUS
<1>4. F(g)
  BY <1>2, <1>3 DEF Rounds, UpFrom
<1>. HIDE DEF c
<1>5. F(c)
  BY <1>1, <1>4
<1>. HIDE DEF F
<1>6. c \in [0 .. N -> SUBSET Policy] /\ c[0] = Up({p})
  BY <1>5, StepsAreTyped DEF F
<1>7. \A k \in 1 .. N : k \in 0 .. N /\ k - 1 \in 0 .. N /\ k # 0
  OBVIOUS
<1>8. \A k \in 1 .. N : c[k] = UpFrom[c[k - 1]]
  BY <1>5, <1>6, <1>7 DEF F, UpFrom
<1>. QED  BY <1>6, <1>8 DEF Rounds, c

(* The rounds of the query for what an agent reaches. *)
Given(a) == {g[2] : g \in {h \in assigned : h[1] = a}}
GivenType == \A g \in assigned : g[2] \in Policy

(* They too are what the recursive definition says. *)
LEMMA ReachableRoundsAre ==
  ASSUME EdgeType, GivenType, NEW a, NEW N \in Nat, N = Cardinality(Policy)
  PROVE  Rounds(Given(a), DownFrom, N, ReachableRounds(a))
<1>. DEFINE F(f) == f = [k \in 0 .. N |-> IF k = 0 THEN Given(a) ELSE Down(f[k - 1])]
            c == ReachableRounds(a)
<1>1. c = CHOOSE f : F(f)
  BY DEF ReachableRounds, Given
<1>2. Given(a) \in SUBSET Policy
  BY DEF Given, GivenType
<1>3. PICK g : Rounds(Given(a), DownFrom, N, g)
  BY <1>2, RoundsExist, StepsAreTyped
<1>4. \A k \in 0 .. N : k # 0 => k \in 1 .. N /\ k - 1 \in 0 .. N
  OBVIOUS
<1>5. F(g)
  BY <1>3, <1>4 DEF Rounds, DownFrom
<1>. HIDE DEF c
<1>6. F(c)
  BY <1>1, <1>5
<1>. HIDE DEF F
<1>7. c \in [0 .. N -> SUBSET Policy] /\ c[0] = Given(a)
  BY <1>2, <1>6, StepsAreTyped DEF F
<1>8. \A k \in 1 .. N : k \in 0 .. N /\ k - 1 \in 0 .. N /\ k # 0
  OBVIOUS
<1>9. \A k \in 1 .. N : c[k] = DownFrom[c[k - 1]]
  BY <1>6, <1>7, <1>8 DEF F, DownFrom
<1>. QED  BY <1>7, <1>9 DEF Rounds, c

(* What has k edges above it is less than all policies by k at least: of   *)
(* those with k - 1, one has no parent among them.                         *)
LEMMA DepthIsBounded ==
  ASSUME EdgeType, HierarchyIsAcyclic, NEW N \in Nat, N = Cardinality(Policy),
         NEW w, Rounds(Policy, DownFrom, N + 1, w)
  PROVE  w[N] = {} /\ w[N + 1] = {}
<1>1. /\ \A k \in 0 .. N + 1 : w[k] \in SUBSET Policy /\ IsFiniteSet(w[k])
      /\ w[0] = Policy
      /\ \A k \in 1 .. N + 1 : k - 1 \in 0 .. N + 1 /\ w[k] = Down(w[k - 1])
  <2>1. \A k \in 0 .. N + 1 : w[k] \in SUBSET Policy
    BY DEF Rounds
  <2>2. \A k \in 0 .. N + 1 : IsFiniteSet(w[k])
    BY <2>1, PolicyAssumption, FS_Subset
  <2>3. \A k \in 1 .. N + 1 : k - 1 \in 0 .. N + 1
    OBVIOUS
  <2>. QED  BY <2>1, <2>2, <2>3 DEF Rounds, DownFrom
<1>2. \A k \in 0 .. N : w[k + 1] \subseteq w[k]
  <2>. DEFINE G == {k \in 0 .. N : w[k + 1] \subseteq w[k]}
  <2>1. 0 \in G
    <3>1. 0 \in 0 .. N /\ 0 + 1 \in 0 .. N + 1
      OBVIOUS
    <3>. QED  BY <1>1, <3>1
  <2>2. ASSUME NEW k \in 1 .. N, k - 1 \in G PROVE k \in G
    <3>1. k \in 0 .. N /\ k \in 1 .. N + 1 /\ k + 1 \in 1 .. N + 1 /\ (k + 1) - 1 = k /\ (k - 1) + 1 = k
      OBVIOUS
    <3>2. w[k] \subseteq w[k - 1]
      BY <2>2, <3>1
    <3>3. w[k + 1] = Down(w[k]) /\ w[k] = Down(w[k - 1])
      BY <1>1, <3>1
    <3>4. Down(w[k]) \subseteq Down(w[k - 1])
      BY <3>2 DEF Down
    <3>. QED  BY <3>1, <3>3, <3>4
  <2>. HIDE DEF G
  <2>3. \A k \in 0 .. N : k \in G
    <3>1. G \in SUBSET Nat
      BY DEF G
    <3>. QED  BY <2>1, <2>2, <3>1, StepByStep
  <2>. QED  BY <2>3 DEF G
<1>3. \A k \in 0 .. N : Cardinality(w[k]) \in Nat /\ Cardinality(w[k]) + k <= N
  <2>. DEFINE G == {k \in 0 .. N : Cardinality(w[k]) \in Nat /\ Cardinality(w[k]) + k <= N}
  <2>1. 0 \in G
    <3>1. 0 \in 0 .. N
      OBVIOUS
    <3>. QED  BY <1>1, <3>1
  <2>2. ASSUME NEW k \in 1 .. N, k - 1 \in G PROVE k \in G
    <3>1. k \in 0 .. N /\ k \in 0 .. N + 1 /\ k - 1 \in 0 .. N + 1 /\ k - 1 \in 0 .. N /\ (k - 1) + 1 = k
      OBVIOUS
    <3>2. PICK c \in Nat : c = Cardinality(w[k - 1]) /\ c + (k - 1) <= N
      BY <2>2
    <3>3. IsFiniteSet(w[k - 1]) /\ IsFiniteSet(w[k]) /\ w[k] \subseteq w[k - 1] /\ w[k - 1] \in SUBSET Policy
      BY <1>1, <1>2, <3>1
    <3>4. w[k] = Down(w[k - 1])
      BY <1>1
    <3>5. CASE w[k - 1] = {}
      <4>1. w[k] = {}
        BY <3>3, <3>5
      <4>2. Cardinality(w[k]) = 0
        BY <4>1, FS_EmptySet
      <4>. QED  BY <3>1, <4>2
    <3>6. CASE w[k - 1] # {}
      <4>1. PICK v \in w[k - 1] : \A q \in w[k - 1] : <<q, v>> \notin children
        BY <3>3, <3>6 DEF HierarchyIsAcyclic
      <4>2. v \notin w[k]
        <5>1. \A e \in children : e = <<e[1], e[2]>>
          BY DEF EdgeType
        <5>. QED  BY <3>4, <4>1, <5>1 DEF Down
      <4>3. IsFiniteSet(w[k - 1] \ {v}) /\ Cardinality(w[k - 1] \ {v}) = c - 1
        BY <3>2, <3>3, <4>1, FS_RemoveElement
      <4>4. w[k] \subseteq w[k - 1] \ {v}
        BY <3>3, <4>2
      <4>5. Cardinality(w[k]) <= Cardinality(w[k - 1] \ {v})
        BY <4>3, <4>4, FS_Subset
      <4>6. Cardinality(w[k]) \in Nat
        BY <3>3, FS_CardinalityType
      <4>. QED  BY <3>1, <3>2, <4>3, <4>5, <4>6
    <3>. QED  BY <3>5, <3>6
  <2>. HIDE DEF G
  <2>3. \A k \in 0 .. N : k \in G
    <3>1. G \in SUBSET Nat
      BY DEF G
    <3>. QED  BY <2>1, <2>2, <3>1, StepByStep
  <2>. QED  BY <2>3 DEF G
<1>4. N \in 0 .. N /\ N \in 0 .. N + 1 /\ N + 1 \in 1 .. N + 1 /\ (N + 1) - 1 = N
  OBVIOUS
<1>5. w[N] = {}
  <2>1. PICK c \in Nat : c = Cardinality(w[N]) /\ c + N <= N
    BY <1>3, <1>4
  <2>2. c = 0
    BY <2>1
  <2>. QED  BY <1>1, <1>4, <2>1, <2>2, FS_EmptySet
<1>6. w[N + 1] = Down(w[N])
  BY <1>1, <1>4
<1>7. Down({}) = {}
  BY DEF Down
<1>. QED  BY <1>5, <1>6, <1>7

(* There are such rounds, so at some depth there is no policy. *)
LEMMA DepthsExist ==
  ASSUME EdgeType, HierarchyIsAcyclic, NEW N \in Nat, N = Cardinality(Policy)
  PROVE  \E w : Rounds(Policy, DownFrom, N + 1, w) /\ w[N] = {} /\ w[N + 1] = {}
<1>1. N + 1 \in Nat
  OBVIOUS
<1>2. PICK w : Rounds(Policy, DownFrom, N + 1, w)
  BY <1>1, RoundsExist, StepsAreTyped
<1>. QED  BY <1>2, DepthIsBounded

(* Whatever k edges lead to from where an agent starts has k edges above.  *)
LEMMA ReachableEnds ==
  ASSUME EdgeType, GivenType, HierarchyIsAcyclic, NEW N \in Nat, N = Cardinality(Policy), NEW a
  PROVE  ReachableRounds(a)[N] = {}
<1>. DEFINE f == ReachableRounds(a)
<1>1. PICK w : Rounds(Policy, DownFrom, N + 1, w) /\ w[N] = {}
  BY DepthsExist
<1>2. Rounds(Given(a), DownFrom, N, f)
  BY ReachableRoundsAre
<1>. HIDE DEF f
<1>. DEFINE G == {k \in 0 .. N : f[k] \subseteq w[k]}
<1>3. 0 \in G
  BY <1>1, <1>2 DEF Rounds
<1>4. ASSUME NEW k \in 1 .. N, k - 1 \in G PROVE k \in G
  <2>1. k \in 0 .. N /\ k \in 1 .. N + 1 /\ k - 1 \in 0 .. N /\ k - 1 \in 0 .. N + 1
    OBVIOUS
  <2>2. f[k] = Down(f[k - 1]) /\ w[k] = Down(w[k - 1])
    BY <1>1, <1>2, <2>1 DEF Rounds, DownFrom
  <2>3. f[k - 1] \subseteq w[k - 1]
    BY <1>4
  <2>. QED  BY <2>1, <2>2, <2>3 DEF Down
<1>. HIDE DEF G
<1>5. N \in G
  <2>1. G \in SUBSET Nat /\ N \in 0 .. N
    BY DEF G
  <2>. QED  BY <1>3, <1>4, <2>1, StepByStep
<1>. QED  BY <1>1, <1>5 DEF G, f

(* If k + 1 edges lead from p up to what has j edges above it, p has       *)
(* j + k + 1 above.                                                        *)
LEMMA AncestorsEnd ==
  ASSUME EdgeType, HierarchyIsAcyclic, NEW N \in Nat, N = Cardinality(Policy), NEW p \in Policy
  PROVE  AncestorRounds(p)[N] = {}
<1>. DEFINE f == AncestorRounds(p)
<1>1. PICK w : Rounds(Policy, DownFrom, N + 1, w) /\ w[N + 1] = {}
  BY DepthsExist
<1>2. Rounds(Up({p}), UpFrom, N, f)
  BY AncestorRoundsAre
<1>. HIDE DEF f
<1>3. \A j \in 0 .. N : w[j + 1] = Down(w[j])
  <2>1. \A j \in 0 .. N : j + 1 \in 1 .. N + 1 /\ (j + 1) - 1 = j /\ j \in 0 .. N + 1
    OBVIOUS
  <2>. QED  BY <1>1, <2>1 DEF Rounds, DownFrom
<1>4. ASSUME NEW P, NEW Q, Up(P) \cap Q # {} PROVE P \cap Down(Q) # {}
  BY <1>4 DEF Up, Down
<1>. DEFINE G == {k \in 0 .. N : \A j \in 0 .. N - k : f[k] \cap w[j] # {} => p \in w[j + k + 1]}
<1>5. 0 \in G
  <2>1. ASSUME NEW j \in 0 .. N - 0, f[0] \cap w[j] # {} PROVE p \in w[j + 0 + 1]
    <3>1. j \in 0 .. N /\ j + 0 + 1 = j + 1
      OBVIOUS
    <3>2. {p} \cap Down(w[j]) # {}
      BY <1>2, <1>4, <2>1 DEF Rounds
    <3>. QED  BY <1>3, <3>1, <3>2
  <2>2. 0 \in 0 .. N
    OBVIOUS
  <2>. QED  BY <2>1, <2>2
<1>6. ASSUME NEW k \in 1 .. N, k - 1 \in G PROVE k \in G
  <2>1. ASSUME NEW j \in 0 .. N - k, f[k] \cap w[j] # {} PROVE p \in w[j + k + 1]
    <3>1. /\ j \in 0 .. N /\ j + 1 \in 0 .. N - (k - 1) /\ (j + 1) + (k - 1) + 1 = j + k + 1
          /\ k - 1 \in 0 .. N
      OBVIOUS
    <3>2. f[k] = Up(f[k - 1])
      BY <1>2, <3>1 DEF Rounds, UpFrom
    <3>3. f[k - 1] \cap w[j + 1] # {}
      BY <1>3, <1>4, <2>1, <3>1, <3>2
    <3>4. p \in w[(j + 1) + (k - 1) + 1]
      BY <1>6, <3>1, <3>3
    <3>. QED  BY <3>1, <3>4
  <2>2. k \in 0 .. N
    OBVIOUS
  <2>. QED  BY <2>1, <2>2
<1>. HIDE DEF G
<1>7. N \in G
  <2>1. G \in SUBSET Nat /\ N \in 0 .. N
    BY DEF G
  <2>. QED  BY <1>5, <1>6, <2>1, StepByStep
<1>8. f[N] \cap w[0] # {} => p \in w[N + 1]
  <2>1. 0 \in 0 .. N - N /\ 0 + N + 1 = N + 1
    OBVIOUS
  <2>. QED  BY <1>7, <2>1 DEF G
<1>9. w[0] = Policy /\ f[N] \in SUBSET Policy
  BY <1>1, <1>2 DEF Rounds
<1>. QED  BY <1>1, <1>8, <1>9 DEF f

(* The rounds of cycleCheck find nothing that is not above p; as the last  *)
(* one is empty, they are closed under its step, so they find all that is. *)
LEMMA AncestorsAreFound ==
  ASSUME EdgeType, NEW N \in Nat, N = Cardinality(Policy), NEW p \in Policy, AncestorRounds(p)[N] = {}
  PROVE  Rows(AncestorRounds(p)) = Ancestors(p)
<1>. DEFINE f == AncestorRounds(p)
<1>1. Rounds(Up({p}), UpFrom, N, f) /\ f[N] = {}
  BY AncestorRoundsAre
<1>. HIDE DEF f
<1>2. /\ f \in [0 .. N -> SUBSET Policy]
      /\ f[0] = Up({p})
      /\ \A k \in 1 .. N : f[k] = Up(f[k - 1])
  <2>1. \A k \in 1 .. N : k - 1 \in 0 .. N
    OBVIOUS
  <2>. QED  BY <1>1, <2>1 DEF Rounds, UpFrom
<1>3. Rows(f) \subseteq Ancestors(p)
  <2>. DEFINE G == {k \in 0 .. N : f[k] \subseteq Ancestors(p)}
  <2>1. 0 \in G
    <3>1. 0 \in 0 .. N
      OBVIOUS
    <3>2. Up({p}) \subseteq Ancestors(p)
      <4>1. ASSUME NEW e \in children, e[2] = p PROVE e[1] \in Ancestors(p)
        <5>1. e = <<e[1], e[2]>> /\ e[1] \in Policy
          BY DEF EdgeType
        <5>. QED  BY <4>1, <5>1, AncestorsAreClosed
      <4>. QED  BY <4>1 DEF Up
    <3>. QED  BY <1>2, <3>1, <3>2
  <2>2. ASSUME NEW k \in 1 .. N, k - 1 \in G PROVE k \in G
    <3>1. ASSUME NEW e \in children, e[2] \in f[k - 1] PROVE e[1] \in Ancestors(p)
      <4>1. e = <<e[1], e[2]>> /\ e[1] \in Policy
        BY DEF EdgeType
      <4>2. e[2] \in Ancestors(p)
        BY <2>2, <3>1
      <4>. QED  BY <4>1, <4>2, AncestorsAreClosed
    <3>2. k \in 0 .. N /\ f[k] = Up(f[k - 1])
      BY <1>2
    <3>. QED  BY <3>1, <3>2 DEF Up
  <2>. HIDE DEF G
  <2>3. \A k \in 0 .. N : k \in G
    <3>1. G \in SUBSET Nat
      BY DEF G
    <3>. QED  BY <2>1, <2>2, <3>1, StepByStep
  <2>. QED  BY <1>2, <2>3 DEF G, Rows
<1>4. Ancestors(p) \subseteq Rows(f)
  <2>1. Rows(f) \in SUBSET Policy /\ \A k \in 0 .. N : f[k] \subseteq Rows(f)
    BY <1>2 DEF Rows
  <2>2. ASSUME NEW e \in children, e[2] = p \/ e[2] \in Rows(f) PROVE e[1] \in Rows(f)
    <3>1. CASE e[2] = p
      <4>1. e[1] \in f[0] /\ 0 \in 0 .. N
        BY <1>2, <3>1 DEF Up
      <4>. QED  BY <2>1, <4>1
    <3>2. CASE e[2] \in Rows(f)
      <4>1. PICK k \in 0 .. N : e[2] \in f[k]
        BY <1>2, <3>2 DEF Rows
      <4>2. k # N
        BY <1>1, <4>1
      <4>3. k + 1 \in 1 .. N /\ (k + 1) - 1 = k /\ k + 1 \in 0 .. N
        BY <4>2
      <4>4. e[1] \in f[k + 1]
        BY <1>2, <4>1, <4>3 DEF Up
      <4>. QED  BY <2>1, <4>3, <4>4
    <3>. QED  BY <2>2, <3>1, <3>2
  <2>. QED  BY <2>1, <2>2 DEF Ancestors
<1>. QED  BY <1>3, <1>4 DEF f

(* What holds the policies of a and all below what it holds. *)
ClosedUnder(E, G, a, T) ==
  /\ \A g \in G : g[1] = a => g[2] \in T
  /\ \A e \in E : e[1] \in T => e[2] \in T

(* The same of what an agent reaches. *)
LEMMA ReachableAreFound ==
  ASSUME EdgeType, GivenType, NEW N \in Nat, N = Cardinality(Policy), NEW a, ReachableRounds(a)[N] = {}
  PROVE  Rows(ReachableRounds(a)) = Reachable(a)
<1>. DEFINE f == ReachableRounds(a)
<1>1. Rounds(Given(a), DownFrom, N, f) /\ f[N] = {}
  BY ReachableRoundsAre
<1>. HIDE DEF f
<1>2. /\ f \in [0 .. N -> SUBSET Policy]
      /\ f[0] = Given(a)
      /\ \A k \in 1 .. N : f[k] = Down(f[k - 1])
  <2>1. \A k \in 1 .. N : k - 1 \in 0 .. N
    OBVIOUS
  <2>. QED  BY <1>1, <2>1 DEF Rounds, DownFrom
<1>3. ASSUME NEW T \in SUBSET Policy, ClosedUnder(children, assigned, a, T) PROVE Rows(f) \subseteq T
  <2>. DEFINE G == {k \in 0 .. N : f[k] \subseteq T}
  <2>1. 0 \in G
    <3>1. 0 \in 0 .. N
      OBVIOUS
    <3>. QED  BY <1>2, <1>3, <3>1 DEF Given, ClosedUnder
  <2>2. ASSUME NEW k \in 1 .. N, k - 1 \in G PROVE k \in G
    <3>1. k \in 0 .. N /\ f[k] = Down(f[k - 1]) /\ f[k - 1] \subseteq T
      BY <1>2, <2>2
    <3>. QED  BY <1>3, <3>1 DEF Down, ClosedUnder
  <2>. HIDE DEF G
  <2>3. \A k \in 0 .. N : k \in G
    <3>1. G \in SUBSET Nat
      BY DEF G
    <3>. QED  BY <2>1, <2>2, <3>1, StepByStep
  <2>. QED  BY <1>2, <2>3 DEF G, Rows
<1>4. Rows(f) \in SUBSET Policy /\ \A k \in 0 .. N : f[k] \subseteq Rows(f)
  BY <1>2 DEF Rows
<1>5. ClosedUnder(children, assigned, a, Rows(f))
  <2>1. ASSUME NEW g \in assigned, g[1] = a PROVE g[2] \in Rows(f)
    <3>1. g[2] \in f[0] /\ 0 \in 0 .. N
      BY <1>2, <2>1 DEF Given
    <3>. QED  BY <1>4, <3>1
  <2>2. ASSUME NEW e \in children, e[1] \in Rows(f) PROVE e[2] \in Rows(f)
    <3>1. PICK k \in 0 .. N : e[1] \in f[k]
      BY <1>2, <2>2 DEF Rows
    <3>2. k # N
      BY <1>1, <3>1
    <3>3. k + 1 \in 1 .. N /\ (k + 1) - 1 = k /\ k + 1 \in 0 .. N
      BY <3>2
    <3>4. e[2] \in f[k + 1]
      BY <1>2, <3>1, <3>3 DEF Down
    <3>. QED  BY <1>4, <3>3, <3>4
  <2>. QED  BY <2>1, <2>2 DEF ClosedUnder
<1>6. Reachable(a) = {q \in Policy : \A T \in SUBSET Policy : ClosedUnder(children, assigned, a, T) => q \in T}
  BY DEF Reachable, ClosedUnder
<1>. QED  BY <1>3, <1>4, <1>5, <1>6 DEF f

(* Only policies are assigned. *)
LEMMA GivenTypeStep ==
  ASSUME EdgeType, GivenType, [Next]_store
  PROVE  GivenType'
<1>1. CASE PolicyWrite
  <2>1. assigned' \subseteq assigned \cup (Agent \X Policy)
    <3>1. PICK p \in Policy :
            \/ CreatePolicy(p) \/ DeletePolicy(p)
            \/ \E c \in Policy : AddChild(p, c) \/ RemoveChild(p, c)
            \/ \E a \in Agent : AssignToAgent(p, a) \/ UnassignFromAgent(p, a)
      BY <1>1 DEF PolicyWrite
    <3>2. CASE \E a \in Agent : AssignToAgent(p, a)
      BY <3>2 DEF AssignToAgent
    <3>3. CASE ~ \E a \in Agent : AssignToAgent(p, a)
      <4>1. assigned' \subseteq assigned
        BY <3>1, <3>3 DEF CreatePolicy, DeletePolicy, AddChild, RemoveChild, UnassignFromAgent
      <4>. QED  BY <4>1
    <3>. QED  BY <3>2, <3>3
  <2>. QED  BY <2>1 DEF GivenType
<1>2. CASE AgentWrite
  BY <1>2 DEF AgentWrite, CreateAgent, RenameAgent, DeleteAgent, GivenType
<1>3. CASE RuleWrite \/ RuleMove \/ UNCHANGED store
  BY <1>3 DEF RuleWrite, RuleMove, CreateRule, UpdateRule, DeleteRule, MoveToPolicy, GivenType, store, tables
<1>. QED  BY <1>1, <1>2, <1>3 DEF Next

(* The queries end after at most one round per policy, and have then found *)
(* exactly what they are meant to (policies.js cycleCheck and              *)
(* resolveAgentPolicyIds), after any sequence of writes: without a cycle   *)
(* the UNION ALL that never looks back comes to an empty round.            *)
THEOREM TheQueriesEnd == Spec => []QueriesEnd
<1>. DEFINE Inv == EdgeType /\ GivenType /\ HierarchyIsAcyclic
<1>1. Init => Inv
  BY DEF Init, EdgeType, GivenType, HierarchyIsAcyclic
<1>2. Inv /\ [Next]_store => Inv'
  BY AcyclicStep, GivenTypeStep
<1>3. Inv => QueriesEnd
  <2>. SUFFICES ASSUME Inv PROVE QueriesEnd
    OBVIOUS
  <2>1. PICK N \in Nat : N = Cardinality(Policy)
    BY PolicyAssumption, FS_CardinalityType
  <2>2. ASSUME NEW p \in policies
        PROVE  Ends(AncestorRounds(p)) /\ Rows(AncestorRounds(p)) = Ancestors(p)
    <3>1. p \in Policy
      BY DEF EdgeType
    <3>2. AncestorRounds(p)[N] = {}
      BY <2>1, <3>1, AncestorsEnd
    <3>. QED  BY <2>1, <3>1, <3>2, AncestorsAreFound DEF Ends
  <2>3. ASSUME NEW a \in DOMAIN agents
        PROVE  Ends(ReachableRounds(a)) /\ Rows(ReachableRounds(a)) = Reachable(a)
    <3>1. ReachableRounds(a)[N] = {}
      BY <2>1, ReachableEnds
    <3>. QED  BY <2>1, <3>1, ReachableAreFound DEF Ends
  <2>. QED  BY <2>2, <2>3 DEF QueriesEnd
<1>. QED  BY <1>1, <1>2, <1>3, PTL DEF Spec

-----------------------------------------------------------------------------
(* Revocations.  The least fixed point of fewer edges and assignments is   *)
(* smaller, and a rule of a policy that remains is where it was.           *)

(* Whatever is closed under more is closed under less. *)
LEMMA FewerEdgesReachLess ==
  ASSUME children' \subseteq children, assigned' \subseteq assigned, NEW a
  PROVE  Reachable(a)' \subseteq Reachable(a)
<1>1. \A T : ClosedUnder(children, assigned, a, T) => ClosedUnder(children', assigned', a, T)
  BY DEF ClosedUnder
<1>2. Reachable(a) = {q \in Policy : \A T \in SUBSET Policy : ClosedUnder(children, assigned, a, T) => q \in T}
  BY DEF Reachable, ClosedUnder
<1>3. Reachable(a)' = {q \in Policy : \A T \in SUBSET Policy : ClosedUnder(children', assigned', a, T) => q \in T}
  BY DEF Reachable, ClosedUnder
<1> QED
  BY <1>1, <1>2, <1>3

RuleType == rules \in [DOMAIN rules -> RuleRow]

(* Every row of the table of rules has a policy or none, and a flag: with  *)
(* this the rules of a deleted policy are known to belong to no policy.    *)
LEMMA RuleTypeStep ==
  ASSUME RuleType, EdgeType, [Next]_store
  PROVE  RuleType'
<1> USE DEF RuleType
<1>1. CASE rules' = rules
  BY <1>1 DEF RuleRow
<1>2. RowsToday \subseteq RuleRow
  BY DEF RowsToday, RuleRow, EdgeType
<1>3. ASSUME NEW p \in Policy, DeletePolicy(p) PROVE RuleType'
  BY <1>3 DEF DeletePolicy, RuleRow
<1>4. ASSUME NEW r \in Rule, NEW row, CreateRule(r, row) PROVE RuleType'
  BY <1>2, <1>4 DEF CreateRule
<1>5. ASSUME NEW r \in Rule, NEW row, UpdateRule(r, row) PROVE RuleType'
  BY <1>2, <1>5 DEF UpdateRule
<1>6. ASSUME NEW r \in Rule, DeleteRule(r) PROVE RuleType'
  BY <1>6 DEF DeleteRule, Restrict
<1>7. ASSUME NEW r \in Rule, NEW p \in Policy \cup {NoPolicy}, MoveToPolicy(r, p) PROVE RuleType'
  BY <1>7 DEF MoveToPolicy, RuleRow
<1>8. CASE PolicyWrite
  BY <1>1, <1>3, <1>8 DEF PolicyWrite, CreatePolicy, AddChild, RemoveChild, AssignToAgent, UnassignFromAgent
<1>9. CASE RuleWrite \/ RuleMove
  BY <1>4, <1>5, <1>6, <1>7, <1>9 DEF RuleWrite, RuleMove
<1>10. CASE AgentWrite \/ UNCHANGED store
  BY <1>1, <1>10 DEF AgentWrite, CreateAgent, RenameAgent, DeleteAgent, store, tables
<1> QED
  BY <1>8, <1>9, <1>10 DEF Next

(* A call that takes away gives no agent a rule. *)
LEMMA RevocationStep ==
  ASSUME RuleType, Revokes, NEW a
  PROVE  Resolve(a)' \subseteq Resolve(a)
<1>1. children' \subseteq children /\ assigned' \subseteq assigned
  BY DEF Revokes, DeletePolicy, RemoveChild, UnassignFromAgent
<1>2. Reachable(a)' \subseteq Reachable(a) /\ NoPolicy \notin Reachable(a)'
  BY <1>1, FewerEdgesReachLess, NoPolicyAssumption DEF Reachable
<1> DEFINE OrNone == /\ DOMAIN rules' = DOMAIN rules
                     /\ \A r \in DOMAIN rules : /\ rules'[r].enabled = rules[r].enabled
                                                /\ rules'[r].policy \in {rules[r].policy, NoPolicy}
<1>3. OrNone
  <2>1. CASE rules' = rules
    BY <2>1
  <2>2. ASSUME NEW p \in Policy, DeletePolicy(p) PROVE OrNone
    <3>1. rules' = [r \in DOMAIN rules |-> IF rules[r].policy = p THEN [rules[r] EXCEPT !.policy = NoPolicy]
                                                                  ELSE rules[r]]
      BY <2>2 DEF DeletePolicy
    <3>2. \A row \in RuleRow : /\ [row EXCEPT !.policy = NoPolicy].policy = NoPolicy
                               /\ [row EXCEPT !.policy = NoPolicy].enabled = row.enabled
      BY DEF RuleRow
    <3> QED
      BY <3>1, <3>2 DEF RuleType
  <2> QED
    BY <2>1, <2>2 DEF Revokes, RemoveChild, UnassignFromAgent
<1> QED
  BY <1>2, <1>3 DEF Resolve, RulesOf

(* Taking away a policy, an edge or an assignment never gives an agent a   *)
(* rule it did not have (the ON DELETE clauses of connection.js and the    *)
(* resolution in policies.js), whatever the hierarchy is.                  *)
THEOREM RevocationsOnlyTakeAway == Spec => RevokingGrantsNothing
<1>1. Init => RuleType /\ EdgeType /\ HierarchyIsAcyclic
  BY DEF Init, RuleType, RuleRow, EdgeType, HierarchyIsAcyclic
<1>2. EdgeType /\ HierarchyIsAcyclic /\ [Next]_store => EdgeType' /\ HierarchyIsAcyclic'
  BY AcyclicStep
<1>3. RuleType /\ EdgeType /\ [Next]_store => RuleType'
  BY RuleTypeStep
<1>4. RuleType => [Revokes => GrantsNothing]_store
  BY RevocationStep DEF GrantsNothing
<1> QED
  BY <1>1, <1>2, <1>3, <1>4, PTL DEF Spec, RevokingGrantsNothing

-----------------------------------------------------------------------------
(* What rules match. *)

(* With what its rules match, the tables change in no other way: builder,  *)
(* form and modal write through the same calls (api/rules.js), so what is  *)
(* proved of the tables holds beside them.                                 *)
THEOREM BuilderWritesTheTables == MatchingSpec => Spec
<1>1. MatchingInit => Init
  BY DEF MatchingInit
<1>2. ASSUME [MatchingNext]_matching PROVE [Next]_store
  <2>1. CASE Build
    <3>1. CASE \E r \in Rule, p \in Policy \cup {NoPolicy} : \E text \in Drafts(desk) : Submit(r, p, text)
      <4>1. PICK r \in Rule, p \in Policy \cup {NoPolicy} : CreateRule(r, [policy |-> p, enabled |-> TRUE])
        BY <3>1 DEF Submit
      <4>2. [policy |-> p, enabled |-> TRUE] \in RuleRow
        BY DEF RuleRow
      <4>. QED  BY <4>1, <4>2 DEF Next, RuleWrite
    <3>2. CASE Cancel \/ \E q \in Request : OpenFromLog(q) \/ OpenFromApproval(q)
      BY <3>2 DEF Cancel, OpenFromLog, OpenFromApproval
    <3>. QED  BY <2>1, <3>1, <3>2 DEF Build
  <2>2. CASE Write
    <3>1. PICK r \in Rule :
            \/ \E row \in RuleRow : CreateRule(r, row) \/ UpdateRule(r, row)
            \/ DeleteRule(r)
            \/ \E p \in Policy \cup {NoPolicy} : MoveToPolicy(r, p)
      BY <2>2 DEF Write, SaveNewRule, SaveRule, RemoveRule, MoveRule
    <3>. QED  BY <3>1 DEF Next, RuleWrite, RuleMove
  <2>3. CASE OtherWrite
    BY <2>3 DEF OtherWrite, Next
  <2>4. CASE UNCHANGED matching
    BY <2>4 DEF matching
  <2>. QED  BY <1>2, <2>1, <2>2, <2>3, <2>4 DEF MatchingNext
<1>. QED  BY <1>1, <1>2, PTL DEF MatchingSpec, Spec

-----------------------------------------------------------------------------
(* The push: what is in force. *)

NamesAreUnique ==
  /\ agents \in [DOMAIN agents -> Name]
  /\ \A a, b \in DOMAIN agents : agents[a] = agents[b] => a = b

QueuesAreSequences == (\E S : toProxy \in Seq(S)) /\ (\E S : serverBuffer \in Seq(S))
LastIsMap ==
  client = "live" /\ ~drifted =>
    \/ toProxy = << >> /\ byAgent = AgentMap
    \/ toProxy # << >> /\ toProxy[Len(toProxy)] = MapPush

SyncInv == NamesAreUnique /\ QueuesAreSequences /\ LastIsMap

-----------------------------------------------------------------------------
(* The names. *)

(* What a write leaves of the names, and that a new one was free. *)
LEMMA StoreKeepsNames ==
  ASSUME NamesAreUnique, Next
  PROVE  NamesAreUnique'
  <1>1. CASE agents' = agents
    BY <1>1 DEF NamesAreUnique
  <1>2. ASSUME NEW a \in Agent, NEW n \in Name, CreateAgent(a, n) PROVE NamesAreUnique'
    BY <1>2 DEF CreateAgent, NameIsFree, NamesAreUnique
  <1>3. ASSUME NEW a \in Agent, NEW n \in Name, RenameAgent(a, n) PROVE NamesAreUnique'
    BY <1>3 DEF RenameAgent, NameIsFree, NamesAreUnique
  <1>4. ASSUME NEW a \in Agent, DeleteAgent(a) PROVE NamesAreUnique'
    BY <1>4 DEF DeleteAgent, Restrict, NamesAreUnique
  <1>5. CASE AgentWrite
    BY <1>2, <1>3, <1>4, <1>5 DEF AgentWrite
  <1>6. CASE PolicyWrite \/ RuleWrite \/ RuleMove
    <2>1. agents' = agents
      BY <1>6 DEF PolicyWrite, RuleWrite, RuleMove, CreatePolicy, DeletePolicy, AddChild, RemoveChild,
                  AssignToAgent, UnassignFromAgent, CreateRule, UpdateRule, DeleteRule, MoveToPolicy
    <2> QED
      BY <2>1, <1>1
  <1> QED
    BY <1>5, <1>6 DEF Next

(* The tables are as they were, so the names and the map are. *)
LEMMA SameStore ==
  ASSUME store' = store
  PROVE  AgentMap' = AgentMap /\ MapPush' = MapPush /\ (NamesAreUnique => NamesAreUnique')
  <1>1. agents' = agents /\ children' = children /\ assigned' = assigned /\ rules' = rules
    BY DEF store, tables
  <1>2. AgentMap' = AgentMap
    BY <1>1 DEF AgentMap, NameOf, Resolve, Reachable, RulesOf
  <1> QED
    BY <1>1, <1>2 DEF MapPush, NamesAreUnique

(* The names stay unique under any call of the API. *)
LEMMA CallsKeepNames ==
  ASSUME NamesAreUnique, Api
  PROVE  NamesAreUnique'
  <1>1. CASE store' = store
    BY <1>1, SameStore
  <1>2. CASE PolicyWrite \/ RuleWrite \/ RuleMove \/ AgentWrite
    BY <1>2, StoreKeepsNames DEF Next
  <1>3. CASE ApprovalCall
    <2>1. agents' = agents
      BY <1>3 DEF ApprovalCall, CreateRule
    <2> QED
      BY <2>1 DEF NamesAreUnique
  <1> QED
    BY <1>1, <1>2, <1>3 DEF Api, PolicyCall, RuleCall, MoveCall, AgentCall, Sighup

-----------------------------------------------------------------------------
(* The queues. *)

(* One message sent. *)
LEMMA SendKeepsQueues ==
  ASSUME QueuesAreSequences, NEW m, ServerSend(<<m>>)
  PROVE  /\ QueuesAreSequences'
         /\ client = "live" => toProxy' # << >> /\ toProxy'[Len(toProxy')] = m
  <1>1. PICK S, B : toProxy \in Seq(S) /\ serverBuffer \in Seq(B)
    BY DEF QueuesAreSequences
  <1>2. PICK s \in Seq(S), b \in Seq(B) : s = toProxy /\ b = serverBuffer
    BY <1>1
  <1>3. s \o <<m>> \in Seq(S \cup {m}) /\ b \o <<m>> \in Seq(B \cup {m})
    <2>1. s \in Seq(S \cup {m}) /\ b \in Seq(B \cup {m}) /\ <<m>> \in Seq(S \cup {m}) /\ <<m>> \in Seq(B \cup {m})
      OBVIOUS
    <2> QED
      BY <2>1
  <1>4. PICK t \in Seq(B \cup {m}) : t = b \o <<m>>
    BY <1>3
  <1>5. Newest(t, ServerBuffer) \in Seq(B \cup {m})
    BY BoundAssumption DEF Newest
  <1>6. s \o <<m>> # << >> /\ (s \o <<m>>)[Len(s \o <<m>>)] = m
    OBVIOUS
  <1>7. \/ client = "live" /\ toProxy' = s \o <<m>> /\ serverBuffer' = b
        \/ client # "live" /\ toProxy' = s /\ serverBuffer' = b
        \/ client # "live" /\ toProxy' = s /\ serverBuffer' = Newest(t, ServerBuffer)
    BY <1>2, <1>4 DEF ServerSend
  <1> QED
    BY <1>3, <1>5, <1>6, <1>7 DEF QueuesAreSequences

(* A call that sends the map, or one after which the history says that     *)
(* there is no map to be expected.                                         *)
LEMMA CallsKeepLast ==
  ASSUME QueuesAreSequences, Api
  PROVE  QueuesAreSequences' /\ LastIsMap'
  <1>1. ASSUME ServerSend(<<MapPush'>>), client' = client PROVE QueuesAreSequences' /\ LastIsMap'
    <2>1. PICK m : m = MapPush'
      OBVIOUS
    <2>2. ServerSend(<<m>>)
      BY <1>1, <2>1
    <2>3. QueuesAreSequences' /\ (client = "live" => toProxy' # << >> /\ toProxy'[Len(toProxy')] = m)
      BY <2>2, SendKeepsQueues
    <2> QED
      BY <1>1, <2>1, <2>3 DEF LastIsMap
  <1>2. ASSUME NEW m, ServerSend(<<m>>), drifted' PROVE QueuesAreSequences' /\ LastIsMap'
    BY <1>2, SendKeepsQueues DEF LastIsMap
  <1>3. CASE PolicyCall \/ MoveCall
    BY <1>1, <1>3 DEF PolicyCall, MoveCall, Handler
  <1>4. CASE Sighup
    <2>1. ServerSend(<<MapPush'>>)
      BY <1>4, SameStore DEF Sighup
    <2> QED
      BY <1>1, <1>4, <2>1 DEF Sighup, Handler
  <1>5. CASE RuleCall
    <2>1. PICK m : m = ListPush'
      OBVIOUS
    <2> QED
      BY <1>2, <1>5, <2>1 DEF RuleCall, Handler
  <1>6. CASE ApprovalCall
    <2>1. PICK m : m = NothingPush
      OBVIOUS
    <2> QED
      BY <1>2, <1>6, <2>1 DEF ApprovalCall, Handler
  <1>7. CASE AgentCall
    BY <1>7 DEF AgentCall, Handler, QueuesAreSequences, LastIsMap
  <1> QED
    BY <1>3, <1>4, <1>5, <1>6, <1>7 DEF Api

(* The buffer is flushed first, so the map onConnect pushes is the last.   *)
LEMMA AcceptKeepsInv == SyncInv /\ Accept => SyncInv'
  <1> SUFFICES ASSUME SyncInv, Accept PROVE SyncInv'
    OBVIOUS
  <1>1. NamesAreUnique' /\ MapPush' = MapPush
    BY SameStore DEF Accept, SyncInv
  <1>2. PICK m : m = MapPush
    OBVIOUS
  <1>3. PICK S, B : toProxy \in Seq(S) /\ serverBuffer \in Seq(B)
    BY DEF SyncInv, QueuesAreSequences
  <1>4. PICK s \in Seq(S \cup B \cup {m}) : s = toProxy \o serverBuffer
    <2>1. toProxy \in Seq(S \cup B \cup {m}) /\ serverBuffer \in Seq(S \cup B \cup {m})
      BY <1>3
    <2>2. toProxy \o serverBuffer \in Seq(S \cup B \cup {m})
      BY <2>1
    <2> QED
      BY <2>2
  <1>5. toProxy' = s \o <<m>> /\ serverBuffer' = << >>
    BY <1>2, <1>4 DEF Accept
  <1>6. s \o <<m>> \in Seq(S \cup B \cup {m}) /\ << >> \in Seq(S) /\ s \o <<m>> # << >> /\ (s \o <<m>>)[Len(s \o <<m>>)] = m
    OBVIOUS
  <1> QED
    BY <1>1, <1>2, <1>5, <1>6 DEF SyncInv, QueuesAreSequences, LastIsMap

(* The last frame read is the map of the tables. *)
LEMMA ReadKeepsInv == SyncInv /\ Read => SyncInv'
  <1> SUFFICES ASSUME SyncInv, Read PROVE SyncInv'
    OBVIOUS
  <1>1. NamesAreUnique' /\ MapPush' = MapPush /\ AgentMap' = AgentMap
    BY SameStore DEF Read, SyncInv
  <1>2. PICK S : toProxy \in Seq(S)
    BY DEF SyncInv, QueuesAreSequences
  <1>3. PICK s \in Seq(S) : s = toProxy
    BY <1>2
  <1>4. /\ s # << >> /\ toProxy' = Tail(s) /\ byAgent' = Load(Head(s))
        /\ serverBuffer' = serverBuffer /\ client' = client /\ drifted' = drifted
    BY <1>3 DEF Read, serverVars
  <1>5. /\ Tail(s) \in Seq(S) /\ Len(s) \in Nat \ {0} /\ Head(s) = s[1]
        /\ Len(s) = 1 => Tail(s) = << >>
        /\ Len(s) # 1 => Tail(s) # << >> /\ Tail(s)[Len(Tail(s))] = s[Len(s)]
    <2>1. s # << >>
      BY <1>4
    <2>2. /\ Tail(s) \in Seq(S) /\ Len(s) \in Nat \ {0} /\ Head(s) = s[1]
          /\ Len(Tail(s)) = Len(s) - 1 /\ \A i \in 1 .. Len(s) - 1 : Tail(s)[i] = s[i + 1]
      BY <2>1
    <2>3. CASE Len(s) = 1
      <3>1. PICK t \in Seq(S) : t = Tail(s)
        BY <2>2
      <3>2. Len(t) = 0
        BY <2>2, <2>3, <3>1
      <3>3. t = << >>
        BY <3>2, EmptySeq
      <3> QED
        BY <2>2, <2>3, <3>1, <3>3
    <2>4. CASE Len(s) # 1
      <3>1. Len(s) - 1 \in 1 .. Len(s) - 1 /\ Len(s) - 1 + 1 = Len(s)
        BY <2>2, <2>4
      <3>2. Tail(s)[Len(s) - 1] = s[Len(s)]
        BY <2>2, <3>1
      <3> QED
        BY <2>2, <2>4, <3>1, <3>2
    <2> QED
      BY <2>3, <2>4
  <1>6. Load(MapPush) = AgentMap
    BY DEF Load, MapPush
  <1>7. LastIsMap'
    BY <1>1, <1>3, <1>4, <1>5, <1>6 DEF SyncInv, LastIsMap
  <1> QED
    BY <1>1, <1>4, <1>5, <1>7 DEF SyncInv, QueuesAreSequences

(* Nothing is sent, read or written. *)
LEMMA SilentKeepsInv ==
  ASSUME SyncInv, store' = store, drifted' = drifted, client' = client, toProxy' = toProxy,
         serverBuffer' = serverBuffer, byAgent' = byAgent
  PROVE  SyncInv'
  BY SameStore DEF SyncInv, QueuesAreSequences, LastIsMap

(* No live connection: nothing is expected of it. *)
LEMMA DeadKeepsInv ==
  ASSUME SyncInv, store' = store, client' # "live",
         (\E S : toProxy' \in Seq(S)) /\ (\E S : serverBuffer' \in Seq(S))
  PROVE  SyncInv'
  BY SameStore DEF SyncInv, QueuesAreSequences, LastIsMap

(* Of what was in a socket that broke, the beginning arrives. *)
LEMMA ArrivalsAreSequences ==
  ASSUME QueuesAreSequences, \E j \in 0 .. Len(toProxy) : toProxy' = SubSeq(toProxy, 1, j)
  PROVE  \E S : toProxy' \in Seq(S)
  <1>1. PICK S : toProxy \in Seq(S)
    BY DEF QueuesAreSequences
  <1>2. PICK j \in 0 .. Len(toProxy) : toProxy' = SubSeq(toProxy, 1, j)
    OBVIOUS
  <1>3. SubSeq(toProxy, 1, j) \in Seq(S)
    BY <1>1
  <1> QED
    BY <1>2, <1>3

(* A break or crash leaves no live connection, and a new process is sent the map. *)
LEMMA FaultsKeepInv == SyncInv /\ Faults => SyncInv'
  <1> SUFFICES ASSUME SyncInv, Faults PROVE SyncInv'
    OBVIOUS
  <1>1. << >> \in Seq({})
    OBVIOUS
  <1>2. CASE Break
    BY <1>2, ArrivalsAreSequences, DeadKeepsInv DEF Break, SyncInv, QueuesAreSequences
  <1>3. CASE ProxyCrash
    BY <1>1, <1>3, DeadKeepsInv DEF ProxyCrash, SyncInv, QueuesAreSequences
  <1>4. CASE ServerCrash
    BY <1>1, <1>4, ArrivalsAreSequences, DeadKeepsInv DEF ServerCrash, SyncInv, QueuesAreSequences
  <1>5. CASE ServerStart
    BY <1>5, SilentKeepsInv DEF ServerStart, linkVars, proxyVars
  <1>6. CASE ProxyStart
    <2>1. store' = store /\ drifted' = drifted /\ client' = client /\ byAgent' = byAgent
      BY <1>6 DEF ProxyStart
    <2>2. CASE UNCHANGED <<toProxy, serverBuffer>>
      BY <2>1, <2>2, SilentKeepsInv
    <2>3. CASE ServerSend(<<MapPush>>)
      <3>1. PICK m : m = MapPush
        OBVIOUS
      <3>2. QueuesAreSequences' /\ (client = "live" => toProxy' # << >> /\ toProxy'[Len(toProxy')] = m)
        BY <2>3, <3>1, SendKeepsQueues DEF SyncInv
      <3> QED
        BY <2>1, <3>1, <3>2, SameStore DEF SyncInv, LastIsMap
    <2> QED
      BY <1>6, <2>2, <2>3 DEF ProxyStart
  <1> QED
    BY <1>2, <1>3, <1>4, <1>5, <1>6 DEF Faults

(* Every step keeps the invariant. *)
LEMMA StepKeepsInv == SyncInv /\ [SyncNext]_vars => SyncInv'
  <1> SUFFICES ASSUME SyncInv, [SyncNext]_vars PROVE SyncInv'
    OBVIOUS
  <1>1. CASE Api
    BY <1>1, CallsKeepNames, CallsKeepLast DEF SyncInv
  <1>2. CASE Link
    <2>1. CASE Dial \/ ConnLost
      BY <2>1, SilentKeepsInv DEF Dial, ConnLost, serverVars, linkVars
    <2>2. CASE ClientGone
      BY <2>2, DeadKeepsInv DEF ClientGone, linkVars, SyncInv, QueuesAreSequences
    <2> QED
      BY <1>2, <2>1, <2>2, AcceptKeepsInv, ReadKeepsInv DEF Link
  <1>3. CASE Faults
    BY <1>3, FaultsKeepInv
  <1>4. CASE UNCHANGED vars
    BY <1>4, SilentKeepsInv DEF vars, serverVars, linkVars, proxyVars
  <1> QED
    BY <1>1, <1>2, <1>3, <1>4 DEF SyncNext

(* Nothing has been sent at first. *)
LEMMA InitInv == SyncInit => SyncInv
  <1> SUFFICES ASSUME SyncInit PROVE SyncInv
    OBVIOUS
  <1>1. NamesAreUnique
    BY DEF SyncInit, Init, IsInjective, NamesAreUnique
  <1>2. toProxy \in Seq({}) /\ serverBuffer \in Seq({}) /\ client = "none"
    BY DEF SyncInit
  <1> QED
    BY <1>1, <1>2 DEF SyncInv, QueuesAreSequences, LastIsMap

(* The map gives each agent the rules of its policies, and nobody falls    *)
(* back on the bucket of everybody, which a map does not have.             *)
LEMMA MapIsInForce ==
  ASSUME NamesAreUnique, byAgent = AgentMap
  PROVE  InForce
  <1> SUFFICES ASSUME NEW a \in DOMAIN agents PROVE Applicable(agents[a]) = Resolve(a)
    BY DEF InForce
  <1>1. agents[a] \in DOMAIN byAgent
    BY DEF AgentMap, NameOf
  <1>2. (CHOOSE b \in DOMAIN agents : agents[b] = agents[a]) = a
    BY DEF NamesAreUnique
  <1>3. Bucket(agents[a]) = Resolve(a)
    BY <1>1, <1>2 DEF Bucket, AgentMap, NameOf
  <1>4. Bucket(All) = {}
    BY AllAssumption DEF Bucket, AgentMap, NameOf, NamesAreUnique
  <1> QED
    BY <1>3, <1>4 DEF Applicable

(* Once everything sent has been read, the proxy judges each agent by      *)
(* exactly the rules of its policies, unless the last write pushed no map  *)
(* (index.js onConnect and sendAgentRulesReload, evaluator.go LoadMap).    *)
THEOREM TheRulesAreInForce == SyncSafety => []RulesInForce
  <1>1. SyncInv => RulesInForce
    <2> SUFFICES ASSUME SyncInv, Synced, ~drifted PROVE InForce
      BY DEF RulesInForce
    <2>1. byAgent = AgentMap
      BY DEF SyncInv, LastIsMap, Synced
    <2> QED
      BY <2>1, MapIsInForce DEF SyncInv
  <1> QED
    BY <1>1, InitInv, StepKeepsInv, PTL DEF SyncSafety
=============================================================================
