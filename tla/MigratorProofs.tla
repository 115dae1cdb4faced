--------------------------- MODULE MigratorProofs ---------------------------
(***************************************************************************)
(* What the planner promises of the first pending migration, and that the  *)
(* executors record each migration once and after its dependencies,        *)
(* however many processes with old and new builds run, fail and retry.     *)
(***************************************************************************)
EXTENDS Migrator, FiniteSetTheorems, WellFoundedInduction, TLAPS

-----------------------------------------------------------------------------
(* Numbers.                                                                *)

LEMMA LeastOf ==
  ASSUME NEW T \in SUBSET Nat, T # {}
  PROVE  \E x \in T : \A y \in T : x <= y
<1> DEFINE R == {ss \in Nat \X Nat : ss[1] < ss[2]}
<1>1. IsWellFoundedOn(R, Nat)
  BY NatLessThanWellFounded DEF OpToRel
<1>2. \E x \in T : \A y \in T : <<y, x>> \notin R
  <2> HIDE DEF R
  <2> QED
    BY <1>1, WFMin
<1>3. PICK x \in T : \A y \in T : ~(y < x)
  BY <1>2
<1> QED
  BY <1>3

LEMMA LeastValue ==
  ASSUME NEW S, S # {}, NEW f, \A x \in S : f[x] \in Nat
  PROVE  \E x \in S : \A y \in S : f[x] <= f[y]
<1>1. {f[x] : x \in S} \in SUBSET Nat /\ {f[x] : x \in S} # {}
  OBVIOUS
<1>2. PICK n \in {f[x] : x \in S} : \A k \in {f[x] : x \in S} : n <= k
  BY <1>1, LeastOf
<1> QED
  BY <1>2

LEMMA MinOf ==
  ASSUME NEW T \in SUBSET Nat, T # {}
  PROVE  Min(T) \in T /\ \A y \in T : Min(T) <= y
BY LeastOf DEF Min

-----------------------------------------------------------------------------
(* The order of a graph.                                                   *)

Identity == Nat \X Nat \X Nat

\* A graph that a build may contain.
Graph(g) == IsFiniteSet(DOMAIN g) /\ DOMAIN g \subseteq Identity

\* What has become ready once the migrations of a set are done.
ReadyAfter(g, ids) == {id \in DOMAIN g : g[id].deps \subseteq ids}

\* f lists the batches of g up to the n-th.
Batches(g, f, n) ==
  f = [m \in 0..n |-> IF m = 0 THEN {} ELSE f[m - 1] \cup ReadyAfter(g, f[m - 1])]

LEMMA BatchesExist ==
  ASSUME NEW g, NEW n \in Nat
  PROVE  \E f : Batches(g, f, n)
<1> DEFINE T == {m \in Nat : ~\E f : Batches(g, f, m)}
<1>1. SUFFICES ASSUME T # {}
               PROVE  FALSE
  OBVIOUS
<1>2. PICK m \in T : \A k \in T : m <= k
  BY <1>1, LeastOf
<1>3. CASE m = 0
  <2> DEFINE f == [k \in 0..0 |-> {}]
  <2>1. Batches(g, f, 0)
    BY DEF Batches
  <2> QED
    BY <1>2, <1>3, <2>1
<1>4. CASE m # 0
  <2>1. m - 1 \in Nat /\ m - 1 \notin T
    BY <1>2, <1>4
  <2>2. PICK f : Batches(g, f, m - 1)
    BY <2>1
  <2> DEFINE h == [k \in 0..m |-> IF k = m THEN f[m - 1] \cup ReadyAfter(g, f[m - 1]) ELSE f[k]]
  <2>3. \A k \in 0..m - 1 : h[k] = f[k]
    BY <2>1
  <2>4. \A k \in 0..m - 1 : f[k] = IF k = 0 THEN {} ELSE f[k - 1] \cup ReadyAfter(g, f[k - 1])
    BY <2>2 DEF Batches
  <2>5. \A k \in 0..m : h[k] = IF k = 0 THEN {} ELSE h[k - 1] \cup ReadyAfter(g, h[k - 1])
    <3> SUFFICES ASSUME NEW k \in 0..m
                 PROVE  h[k] = IF k = 0 THEN {} ELSE h[k - 1] \cup ReadyAfter(g, h[k - 1])
      OBVIOUS
    <3>1. CASE k = m
      <4>1. h[k - 1] = f[m - 1]
        BY <1>4, <2>1, <2>3, <3>1
      <4> QED
        BY <1>4, <3>1, <4>1
    <3>2. CASE k # m
      <4>1. k \in 0..m - 1 /\ (k # 0 => k - 1 \in 0..m - 1)
        BY <3>2
      <4> HIDE DEF h
      <4> QED
        BY <2>3, <2>4, <4>1
    <3> QED
      BY <3>1, <3>2
  <2>6. Batches(g, h, m)
    <3>1. h = [k \in 0..m |-> h[k]]
      OBVIOUS
    <3> HIDE DEF h
    <3> QED
      BY <2>5, <3>1 DEF Batches
  <2> QED
    BY <1>2, <2>6
<1> QED
  BY <1>3, <1>4

LEMMA DoneForms ==
  ASSUME NEW g, Graph(g)
  PROVE  Batches(g, Done(g), Cardinality(DOMAIN g))
<1>1. Cardinality(DOMAIN g) \in Nat
  BY FS_CardinalityType DEF Graph
<1>2. PICK f : Batches(g, f, Cardinality(DOMAIN g))
  BY <1>1, BatchesExist
<1> QED
  BY <1>2 DEF Done, Batches, ReadyAfter

(* A migration comes in a later batch than each of its dependencies.       *)
LEMMA BatchAfterDependencies ==
  ASSUME NEW g, Graph(g), WellFormed(g), NEW id \in DOMAIN g
  PROVE  /\ Batch(g, id) \in Nat
         /\ \A needed \in g[id].deps : Batch(g, needed) < Batch(g, id)
<1> DEFINE N == Cardinality(DOMAIN g)
           D == Done(g)
           T(x) == {n \in 1..N : x \in D[n]}
<1>1. N \in Nat
  BY FS_CardinalityType DEF Graph
<1>2. /\ D[0] = {}
      /\ \A n \in 1..N : D[n] = D[n - 1] \cup ReadyAfter(g, D[n - 1])
  <2>1. Batches(g, D, N)
    BY DoneForms
  <2> HIDE DEF N, D
  <2>2. \A n \in 0..N : D[n] = IF n = 0 THEN {} ELSE D[n - 1] \cup ReadyAfter(g, D[n - 1])
    BY <1>1, <2>1 DEF Batches
  <2>3. D[0] = {}
    BY <1>1, <2>2, 0 \in 0..N
  <2>4. ASSUME NEW n \in 1..N
        PROVE  D[n] = D[n - 1] \cup ReadyAfter(g, D[n - 1])
    BY <1>1, <2>2, n \in 0..N, n # 0
  <2> QED
    BY <2>3, <2>4
<1>3. D[N] = DOMAIN g
  BY DEF WellFormed
<1>4. \A x : T(x) \in SUBSET Nat /\ Batch(g, x) = Min(T(x))
  BY <1>1 DEF Batch
<1> HIDE DEF N, D
<1>5. N \in T(id)
  <2>1. N # 0
    BY <1>2, <1>3
  <2> QED
    BY <1>1, <1>3, <2>1
<1>6. PICK b : b = Batch(g, id)
  OBVIOUS
<1>7. b \in 1..N /\ id \in D[b] /\ \A n \in T(id) : b <= n
  <2>1. T(id) # {}
    BY <1>5
  <2>2. b \in T(id) /\ \A n \in T(id) : b <= n
    <3> HIDE DEF T
    <3> QED
      BY <1>4, <1>6, <2>1, MinOf
  <2> QED
    BY <2>2
<1>8. g[id].deps \subseteq D[b - 1]
  <2>1. id \notin D[b - 1]
    <3>1. CASE b = 1
      BY <1>2, <3>1
    <3>2. CASE b # 1
      BY <1>1, <1>7, <3>2, b - 1 \in 1..N, ~(b <= b - 1)
    <3> QED
      BY <3>1, <3>2
  <2> QED
    BY <1>2, <1>7, <2>1 DEF ReadyAfter
<1>9. ASSUME NEW needed \in g[id].deps
      PROVE  Batch(g, needed) < b
  <2>1. b # 1
    BY <1>2, <1>8
  <2>2. b - 1 \in T(needed)
    BY <1>1, <1>7, <1>8, <2>1
  <2>3. Min(T(needed)) \in T(needed) /\ Min(T(needed)) <= b - 1
    <3> HIDE DEF T
    <3> QED
      BY <1>4, <2>2, MinOf
  <2>4. Batch(g, needed) \in Nat /\ Batch(g, needed) <= b - 1
    BY <1>4, <2>3
  <2> QED
    BY <1>1, <1>7, <2>4
<1> QED
  BY <1>1, <1>6, <1>7, <1>9

(* In a set of migrations one comes first.                                 *)
LEMMA FirstOf ==
  ASSUME NEW g, Graph(g), WellFormed(g), NEW ids \in SUBSET DOMAIN g, ids # {}
  PROVE  \E id \in ids : \A other \in ids : ~Earlier(g, other, id)
<1>1. \A id \in ids : Batch(g, id) \in Nat /\ id[1] \in Nat /\ id[2] \in Nat /\ id[3] \in Nat
  BY BatchAfterDependencies DEF Graph, Identity
<1> DEFINE F == [id \in ids |-> Batch(g, id)]
<1>2. PICK x \in ids : \A y \in ids : Batch(g, x) <= Batch(g, y)
  <2>1. \A id \in ids : F[id] = Batch(g, id) /\ F[id] \in Nat
    BY <1>1
  <2> HIDE DEF F
  <2>2. \E x \in ids : \A y \in ids : F[x] <= F[y]
    BY <2>1, LeastValue
  <2> QED
    BY <2>1, <2>2
<1> DEFINE A == {id \in ids : Batch(g, id) = Batch(g, x)}
<1>3. PICK k \in A : \A y \in A : k[1] <= y[1]
  <2> DEFINE G == [id \in A |-> id[1]]
  <2>1. \A id \in A : G[id] = id[1] /\ G[id] \in Nat
    BY <1>1
  <2>2. A # {}
    OBVIOUS
  <2> HIDE DEF A, G
  <2>3. \E k \in A : \A y \in A : G[k] <= G[y]
    BY <2>1, <2>2, LeastValue
  <2> QED
    BY <2>1, <2>3
<1> DEFINE B == {id \in A : id[1] = k[1]}
<1>4. PICK l \in B : \A y \in B : l[2] <= y[2]
  <2> DEFINE G == [id \in B |-> id[2]]
  <2>1. \A id \in B : G[id] = id[2] /\ G[id] \in Nat
    BY <1>1
  <2>2. B # {}
    BY <1>3
  <2> HIDE DEF B, G
  <2>3. \E l \in B : \A y \in B : G[l] <= G[y]
    BY <2>1, <2>2, LeastValue
  <2> QED
    BY <2>1, <2>3
<1> DEFINE C == {id \in B : id[2] = l[2]}
<1>5. PICK m \in C : \A y \in C : m[3] <= y[3]
  <2> DEFINE G == [id \in C |-> id[3]]
  <2>1. \A id \in C : G[id] = id[3] /\ G[id] \in Nat
    BY <1>1
  <2>2. C # {}
    BY <1>4
  <2> HIDE DEF C, G
  <2>3. \E m \in C : \A y \in C : G[m] <= G[y]
    BY <2>1, <2>2, LeastValue
  <2> QED
    BY <2>1, <2>3
<1>6. ASSUME NEW other \in ids, Earlier(g, other, m)
      PROVE  FALSE
  <2>1. Batch(g, m) = Batch(g, x) /\ m[1] = k[1] /\ m[2] = l[2] /\ m \in ids
    BY <1>5
  <2>2. Batch(g, other) = Batch(g, m) /\ Before(other, m)
    BY <1>1, <1>2, <1>6, <2>1 DEF Earlier
  <2>3. other \in A /\ k[1] <= other[1]
    BY <1>3, <2>1, <2>2
  <2>4. other[1] = m[1]
    BY <1>1, <2>1, <2>2, <2>3 DEF Before
  <2>5. other \in B /\ l[2] <= other[2]
    BY <1>4, <2>1, <2>3, <2>4
  <2>6. other[2] = m[2]
    BY <1>1, <2>1, <2>2, <2>4, <2>5 DEF Before
  <2>7. other \in C /\ m[3] <= other[3]
    BY <1>5, <2>1, <2>5, <2>6
  <2> QED
    BY <1>1, <2>1, <2>2, <2>4, <2>6, <2>7 DEF Before
<1> QED
  BY <1>5, <1>6

(* The first of a set of migrations in graph order has no earlier one.     *)
LEMMA HeadInGraphOrder ==
  ASSUME NEW g, Graph(g), WellFormed(g), NEW ids \in SUBSET DOMAIN g,
         InGraphOrder(g, ids) # <<>>
  PROVE  /\ InGraphOrder(g, ids)[1] \in ids
         /\ \A other \in ids : ~Earlier(g, other, InGraphOrder(g, ids)[1])
<1> DEFINE Sooner(id) == {other \in ids : Earlier(g, other, id)}
<1>1. IsFiniteSet(ids) /\ Cardinality(ids) \in Nat
  BY FS_Subset, FS_CardinalityType DEF Graph
<1>2. Cardinality(ids) # 0
  <2>1. PICK n : n = Cardinality(ids)
    OBVIOUS
  <2>2. n = 0 => InGraphOrder(g, ids) = <<>>
    BY <2>1 DEF InGraphOrder
  <2> QED
    BY <2>1, <2>2
<1>3. ids # {}
  BY <1>2, FS_EmptySet
<1>4. PICK first \in ids : Sooner(first) = {}
  BY <1>3, FirstOf
<1>5. Cardinality(Sooner(first)) = 0
  BY <1>4, FS_EmptySet
<1>6. PICK head : head = CHOOSE id \in ids : Cardinality(Sooner(id)) = 0
  OBVIOUS
<1>7. head \in ids /\ Cardinality(Sooner(head)) = 0
  <2> HIDE DEF Sooner
  <2> QED
    BY <1>5, <1>6
<1>8. Sooner(head) = {}
  <2>1. IsFiniteSet(Sooner(head))
    BY <1>1, FS_Subset
  <2> QED
    BY <1>7, <2>1, FS_EmptySet
<1>9. InGraphOrder(g, ids)[1] = head
  <2>1. 1 \in 1..Cardinality(ids)
    BY <1>1, <1>2
  <2>2. 1 - 1 = 0
    OBVIOUS
  <2> QED
    BY <1>6, <2>1, <2>2 DEF InGraphOrder
<1> QED
  BY <1>7, <1>8, <1>9

LEMMA ClosureIsClosed ==
  ASSUME NEW g, WellFormed(g), NEW target, NEW id \in TargetClosure(g, target)
  PROVE  g[id].deps \subseteq TargetClosure(g, target)
BY DEF TargetClosure, WellFormed

(* What the planner selects first is pending, and all that it depends on   *)
(* is applied.                                                             *)
LEMMA PlanHead ==
  ASSUME NEW g, Graph(g), WellFormed(g), NEW applied, NEW target,
         NEW plan, plan = PlanForward(g, applied, target), plan \notin {Invalid, <<>>}
  PROVE  /\ plan[1] \in DOMAIN g \ applied
         /\ g[plan[1]].deps \subseteq applied
<1> DEFINE ids == Desired(g, target) \ applied
<1>1. plan = InGraphOrder(g, ids)
  BY DEF PlanForward
<1>2. Desired(g, target) \subseteq DOMAIN g
  BY DEF Desired, TargetClosure
<1>3. plan[1] \in ids /\ \A other \in ids : ~Earlier(g, other, plan[1])
  BY <1>1, <1>2, HeadInGraphOrder
<1>4. g[plan[1]].deps \subseteq Desired(g, target)
  <2>1. CASE target = <<>>
    BY <1>2, <1>3, <2>1 DEF Desired, WellFormed
  <2>2. CASE target # <<>>
    BY <1>3, <2>2, ClosureIsClosed DEF Desired
  <2> QED
    BY <2>1, <2>2
<1>5. ASSUME NEW needed \in g[plan[1]].deps
      PROVE  needed \in applied
  <2>1. Batch(g, needed) < Batch(g, plan[1])
    BY <1>2, <1>3, BatchAfterDependencies
  <2> QED
    BY <1>3, <1>4, <2>1 DEF Earlier
<1> QED
  BY <1>2, <1>3, <1>5

-----------------------------------------------------------------------------
(* The source tree.                                                        *)

LEMMA GreatestValue ==
  ASSUME NEW S, IsFiniteSet(S), S # {}, NEW f, \A x \in S : f[x] \in Nat
  PROVE  \E x \in S : \A y \in S : f[y] <= f[x]
<1> DEFINE Lacks(U) == ~\E x \in U : \A y \in U : f[y] <= f[x]
           T == {Cardinality(U) : U \in {V \in SUBSET S : V # {} /\ Lacks(V)}}
<1>1. SUFFICES ASSUME T # {}
               PROVE  FALSE
  OBVIOUS
<1>2. T \in SUBSET Nat
  BY FS_Subset, FS_CardinalityType
<1>3. PICK n \in T : \A m \in T : n <= m
  <2> HIDE DEF T
  <2> QED
    BY <1>1, <1>2, LeastOf
<1>4. PICK U \in SUBSET S : U # {} /\ Lacks(U) /\ n = Cardinality(U)
  BY <1>3
<1>5. PICK x \in U : TRUE
  BY <1>4
<1>6. U \ {x} # {}
  <2>1. SUFFICES ASSUME U = {x}
                 PROVE  FALSE
    BY <1>5
  <2>2. f[x] <= f[x]
    OBVIOUS
  <2> QED
    BY <1>4, <2>1, <2>2
<1>7. Cardinality(U \ {x}) < n
  <2>1. IsFiniteSet(U)
    BY FS_Subset
  <2>2. Cardinality(U) \in Nat /\ Cardinality(U \ {x}) = Cardinality(U) - 1
    BY <1>5, <2>1, FS_CardinalityType, FS_RemoveElement
  <2> QED
    BY <1>4, <2>2
<1>8. ~Lacks(U \ {x})
  <2> HIDE DEF Lacks
  <2>1. Cardinality(U \ {x}) \in Nat
    BY FS_Subset, FS_CardinalityType
  <2> QED
    BY <1>2, <1>3, <1>6, <1>7, <2>1
<1>9. PICK y \in U \ {x} : \A z \in U \ {x} : f[z] <= f[y]
  BY <1>8
<1>10. CASE f[x] <= f[y]
  BY <1>4, <1>9, <1>10
<1>11. CASE ~(f[x] <= f[y])
  <2>1. \A z \in U : f[z] \in Nat
    OBVIOUS
  <2>2. \A z \in U : f[z] <= f[x]
    BY <1>5, <1>9, <1>11, <2>1
  <2> QED
    BY <1>4, <1>5, <2>2
<1> QED
  BY <1>10, <1>11

LEMMA NextNumberType ==
  ASSUME NEW g, Graph(g)
  PROVE  NextNumber(g) \in Nat
<1>1. CASE DOMAIN g = {}
  BY <1>1 DEF NextNumber
<1>2. CASE DOMAIN g # {}
  <2> DEFINE f == [id \in DOMAIN g |-> id[2]]
             numbers == {id[2] : id \in DOMAIN g}
  <2>1. \A id \in DOMAIN g : f[id] = id[2] /\ f[id] \in Nat
    BY DEF Graph, Identity
  <2>2. PICK last \in DOMAIN g : \A id \in DOMAIN g : f[id] <= f[last]
    <3> HIDE DEF f
    <3> QED
      BY <1>2, <2>1, GreatestValue DEF Graph
  <2>3. \E n \in numbers : \A m \in numbers : n >= m
    BY <2>1, <2>2
  <2>4. Max(numbers) \in numbers
    BY <2>3 DEF Max
  <2>5. Max(numbers) \in Nat
    BY <2>1, <2>4
  <2>6. NextNumber(g) = 1 + Max(numbers)
    BY <1>2 DEF NextNumber
  <2> HIDE DEF numbers
  <2> QED
    BY <2>5, <2>6
<1> QED
  BY <1>1, <1>2

LEMMA WithGraph ==
  ASSUME NEW g, Graph(g), NEW id \in Identity, NEW migration
  PROVE  /\ Graph(With(g, id, migration))
         /\ DOMAIN With(g, id, migration) = DOMAIN g \cup {id}
         /\ With(g, id, migration)[id] = migration
         /\ \A x \in DOMAIN g \ {id} : With(g, id, migration)[x] = g[x]
BY FS_AddElement DEF Graph, With

(* Whatever developers write stays a source tree.                          *)
LEMMA DevelopKeepsGraph ==
  ASSUME Graph(sources), Develop
  PROVE  Graph(sources') /\ UNCHANGED <<database, process>>
<1>1. ASSUME NEW models \in Registered, NEW branch \in 1..2, MakeMigrations(models, branch)
      PROVE  Graph(sources') /\ UNCHANGED <<database, process>>
  <2> DEFINE base == IF branch = 2 THEN DOMAIN sources ELSE DOMAIN sources \ AppHeads(sources, App)
  <2>1. PICK made \in Generated(Restrict(sources, base), models, branch) :
           sources' = [id \in DOMAIN sources \cup DOMAIN made |->
                         IF id \in DOMAIN made THEN made[id] ELSE sources[id]]
    BY <1>1 DEF MakeMigrations
  <2>2. PICK g : g = Restrict(sources, base)
    OBVIOUS
  <2>3. Graph(g)
    <3>1. DOMAIN g = base /\ base \subseteq DOMAIN sources
      BY <2>2 DEF Restrict
    <3> QED
      BY <3>1, FS_Subset DEF Graph
  <2>4. PICK ops : made = With(g, <<App, NextNumber(g), branch>>,
                               [deps |-> AppHeads(g, App), ops |-> ops])
    BY <2>1, <2>2 DEF Generated
  <2>5. Graph(made)
    <3>1. <<App, NextNumber(g), branch>> \in Identity
      BY <2>3, NextNumberType DEF Identity, App
    <3> QED
      BY <2>3, <2>4, <3>1, WithGraph
  <2>6. DOMAIN sources' = DOMAIN sources \cup DOMAIN made
    BY <2>1
  <2>7. IsFiniteSet(DOMAIN sources \cup DOMAIN made)
    BY <2>5, FS_Union DEF Graph
  <2> QED
    BY <1>1, <2>5, <2>6, <2>7 DEF Graph, MakeMigrations
<1>2. ASSUME NEW written \in Written, WriteMigration(written[1], written[2])
      PROVE  Graph(sources') /\ UNCHANGED <<database, process>>
  <2>1. <<written[1], NextNumber(sources), 1>> \in Identity
    BY NextNumberType, MigratorAssumption DEF Identity
  <2> QED
    BY <1>2, <2>1, WithGraph DEF WriteMigration
<1>3. CASE MergeHeads
  <2>1. <<App, NextNumber(sources), 1>> \in Identity
    BY NextNumberType DEF Identity, App
  <2> QED
    BY <1>3, <2>1, WithGraph DEF MergeHeads
<1>4. ASSUME NEW id \in DOMAIN sources, EditMigration(id)
      PROVE  Graph(sources') /\ UNCHANGED <<database, process>>
  BY <1>4 DEF EditMigration, Graph
<1> QED
  BY <1>1, <1>2, <1>3, <1>4 DEF Develop

-----------------------------------------------------------------------------
(* The processes.                                                          *)

Building(x) == Graph(x.graph) /\ WellFormed(x.graph)

Running(x) ==
  x = [phase |-> "run", graph |-> x.graph, target |-> x.target, fault |-> x.fault,
       id |-> x.id, state |-> x.state, todo |-> x.todo, pending |-> x.pending,
       work |-> x.work]

\* What a process is in, when the migrations in recorded are applied: the
\* migration it runs has all its dependencies.
ProcOk(x, recorded) ==
  \/ x.phase = "idle"
  \/ x.phase = "begin" /\ Building(x)
  \/ /\ x.phase = "run" /\ Running(x) /\ Building(x)
     /\ x.id \in DOMAIN x.graph
     /\ x.graph[x.id].deps \subseteq recorded

Processing ==
  /\ proc = [p \in Processes |-> proc[p]]
  /\ \A p \in Processes : /\ ProcOk(proc[p], DOMAIN history)
                          /\ (proc[p].phase = "run") <=> (lock = p)

Recording ==
  /\ log \in Seq(DOMAIN history)
  /\ Range(log) = DOMAIN history
  /\ DependenciesFirst

Counting == runs \in 0..MaxRuns /\ aborts \in 0..MaxAborts /\ drift \in 0..MaxDrift

\* The inductive invariant.  No other process records anything while one
\* holds the lock, so what it read stays true until it commits.
MigratorInv == backend \in Backends /\ Graph(sources) /\ Processing /\ Recording /\ Counting

LEMMA IdleForms ==
  \A fault : [Idle EXCEPT !.fault = fault].phase = "idle"
BY DEF Idle

(* A process that ends leaves the lock, if it had it.                      *)
LEMMA EndedKeeps ==
  ASSUME Processing, NEW p \in Processes, NEW fault, Ended(p, fault),
         IF proc[p].phase = "run" THEN lock' = NoProcess ELSE UNCHANGED lock,
         UNCHANGED history
  PROVE  Processing'
<1>1. proc' = [q \in Processes |-> IF q = p THEN [Idle EXCEPT !.fault = fault] ELSE proc[q]]
  BY DEF Processing, Ended
<1>2. proc'[p].phase = "idle"
  BY <1>1, IdleForms
<1>3. \A q \in Processes \ {p} : proc'[q] = proc[q]
  BY <1>1
<1>4. ASSUME NEW q \in Processes
      PROVE  ProcOk(proc'[q], DOMAIN history)
  <2>1. CASE q = p
    BY <1>2, <2>1 DEF ProcOk
  <2>2. CASE q # p
    BY <1>3, <2>2 DEF Processing
  <2> QED
    BY <2>1, <2>2
<1>5. ASSUME NEW q \in Processes
      PROVE  (proc'[q].phase = "run") <=> (lock' = q)
  <2>1. CASE q = p
    BY <1>2, <2>1, MigratorAssumption DEF Processing
  <2>2. CASE q # p
    BY <1>3, <2>2, MigratorAssumption DEF Processing
  <2> QED
    BY <2>1, <2>2
<1>6. proc' = [q \in Processes |-> proc'[q]]
  BY <1>1
<1> QED
  BY <1>4, <1>5, <1>6 DEF Processing

(* A process gets a state that fits, and the lock if it runs.              *)
LEMMA ProcessKeeps ==
  ASSUME Processing, NEW p \in Processes, NEW next,
         proc' = [proc EXCEPT ![p] = next],
         DOMAIN history \subseteq DOMAIN history', ProcOk(next, DOMAIN history'),
         \/ next.phase = "run" /\ lock' = p /\ (lock = NoProcess \/ lock = p)
         \/ next.phase # "run" /\ lock' = NoProcess /\ lock = p
         \/ next.phase # "run" /\ lock' = lock /\ lock # p
  PROVE  Processing'
<1>1. proc' = [q \in Processes |-> IF q = p THEN next ELSE proc[q]]
  BY DEF Processing
<1>2. proc'[p] = next /\ \A q \in Processes \ {p} : proc'[q] = proc[q]
  BY <1>1
<1>3. ASSUME NEW q \in Processes
      PROVE  ProcOk(proc'[q], DOMAIN history')
  <2>1. CASE q = p
    BY <1>2, <2>1
  <2>2. CASE q # p
    BY <1>2, <2>2 DEF Processing, ProcOk
  <2> QED
    BY <2>1, <2>2
<1>4. ASSUME NEW q \in Processes
      PROVE  (proc'[q].phase = "run") <=> (lock' = q)
  <2>1. CASE q = p
    BY <1>2, <2>1, MigratorAssumption
  <2>2. CASE q # p
    BY <1>2, <2>2, MigratorAssumption DEF Processing
  <2> QED
    BY <2>1, <2>2
<1>5. proc' = [q \in Processes |-> proc'[q]]
  BY <1>1
<1> QED
  BY <1>3, <1>4, <1>5 DEF Processing

(* One operation changes what the process works on, not what it is about.  *)
SameRun(run, x) == Running(x) /\ x.graph = run.graph /\ x.id = run.id

LEMMA WorkKeepsRun ==
  ASSUME NEW run, NEW x, SameRun(run, x), NEW v
  PROVE  /\ SameRun(run, [x EXCEPT !.state = v])
         /\ SameRun(run, [x EXCEPT !.todo = v])
         /\ SameRun(run, [x EXCEPT !.pending = v])
         /\ SameRun(run, [x EXCEPT !.work = v])
<1>1. x = [phase |-> "run", graph |-> run.graph, target |-> x.target, fault |-> x.fault,
           id |-> run.id, state |-> x.state, todo |-> x.todo, pending |-> x.pending,
           work |-> x.work]
  BY DEF SameRun, Running
<1>2. \A state, todo, pending, work :
        SameRun(run, [phase |-> "run", graph |-> run.graph, target |-> x.target,
                      fault |-> x.fault, id |-> run.id, state |-> state, todo |-> todo,
                      pending |-> pending, work |-> work])
  BY DEF SameRun, Running
<1>3. [x EXCEPT !.state = v] =
        [phase |-> "run", graph |-> run.graph, target |-> x.target, fault |-> x.fault,
         id |-> run.id, state |-> v, todo |-> x.todo, pending |-> x.pending, work |-> x.work]
  BY <1>1
<1>4. [x EXCEPT !.todo = v] =
        [phase |-> "run", graph |-> run.graph, target |-> x.target, fault |-> x.fault,
         id |-> run.id, state |-> x.state, todo |-> v, pending |-> x.pending, work |-> x.work]
  BY <1>1
<1>5. [x EXCEPT !.pending = v] =
        [phase |-> "run", graph |-> run.graph, target |-> x.target, fault |-> x.fault,
         id |-> run.id, state |-> x.state, todo |-> x.todo, pending |-> v, work |-> x.work]
  BY <1>1
<1>6. [x EXCEPT !.work = v] =
        [phase |-> "run", graph |-> run.graph, target |-> x.target, fault |-> x.fault,
         id |-> run.id, state |-> x.state, todo |-> x.todo, pending |-> x.pending, work |-> v]
  BY <1>1
<1> QED
  BY <1>2, <1>3, <1>4, <1>5, <1>6

LEMMA StepKeepsRun ==
  ASSUME NEW run, Running(run), NEW op,
         NEW next \in PostgresStep(run, op) \cup SqliteStep(run, op)
  PROVE  SameRun(run, next)
<1>1. SameRun(run, run)
  BY DEF SameRun
<1>2. \A state, todo, pending, work :
        /\ SameRun(run, [run EXCEPT !.state = state, !.todo = todo, !.work = work])
        /\ SameRun(run, [run EXCEPT !.state = state, !.todo = todo,
                                    !.pending = pending, !.work = work])
  <2> TAKE state, todo, pending, work
  <2>1. PICK a : a = [run EXCEPT !.state = state]
    OBVIOUS
  <2>2. PICK b : b = [a EXCEPT !.todo = todo]
    OBVIOUS
  <2>3. PICK c : c = [b EXCEPT !.pending = pending]
    OBVIOUS
  <2>4. SameRun(run, a)
    BY <1>1, <2>1, WorkKeepsRun
  <2>5. SameRun(run, b)
    BY <2>2, <2>4, WorkKeepsRun
  <2>6. SameRun(run, c)
    BY <2>3, <2>5, WorkKeepsRun
  <2>7. SameRun(run, [b EXCEPT !.work = work]) /\ SameRun(run, [c EXCEPT !.work = work])
    BY <2>5, <2>6, WorkKeepsRun
  <2> QED
    BY Zenon, <2>1, <2>2, <2>3, <2>7
<1>3. CASE next \in PostgresStep(run, op)
  <2> DEFINE Ready(after, pending) == {key \in pending : KeyReady(after, key)}
             Result(after, work, pending) ==
               [run EXCEPT !.state = after, !.todo = Tail(@),
                           !.pending = pending \ Ready(after, pending),
                           !.work = AddKeys(work, after, Ready(after, pending))]
  <2>1. PostgresStep(run, op) =
          {Result(after, work, pending) :
             after \in {StateForwards(run.state, op)},
             work \in {ExecuteAll(run.work, PostgresPlan(run.state, op, run.pending).sql)},
             pending \in {Deferred(op, StateForwards(run.state, op), run.pending,
                                   PostgresPlan(run.state, op, run.pending).deferred)}}
    BY DEF PostgresStep
  <2>2. \A after, work, pending : SameRun(run, Result(after, work, pending))
    BY Zenon, <1>2
  <2> HIDE DEF Result
  <2> QED
    BY <1>3, <2>1, <2>2
<1>4. CASE next \in SqliteStep(run, op)
  <2>1. next = [run EXCEPT !.state = StateForwards(@, op), !.todo = Tail(@),
                           !.work = ExecuteAll(@, SqlitePlan(run.state, op))]
    BY Zenon, <1>4 DEF SqliteStep
  <2>2. PICK after, todo, work :
           next = [run EXCEPT !.state = after, !.todo = todo, !.work = work]
    BY Zenon, <2>1
  <2> QED
    BY Zenon, <1>2, <2>2
<1> QED
  BY <1>3, <1>4

-----------------------------------------------------------------------------
(* The steps.                                                              *)

LEMMA InitEstablishes == Init => MigratorInv
<1> SUFFICES ASSUME Init
             PROVE  MigratorInv
  OBVIOUS
<1>1. DOMAIN sources = {} /\ DOMAIN history = {} /\ DOMAIN log = {} /\ log = <<>>
  BY DEF Init
<1>2. Graph(sources)
  BY <1>1, FS_EmptySet DEF Graph
<1>3. \A p \in Processes : proc[p].phase = "idle"
  BY DEF Init, Idle
<1>4. Processing
  BY <1>3, MigratorAssumption DEF Init, Processing, ProcOk
<1>5. Recording
  BY <1>1 DEF Recording, DependenciesFirst, Range, IsInjective
<1>6. Counting
  BY MigratorAssumption DEF Init, Counting
<1> QED
  BY <1>2, <1>4, <1>5, <1>6 DEF Init, MigratorInv

LEMMA StartKeeps ==
  ASSUME MigratorInv, NEW p \in Processes, NEW target, Start(p, target)
  PROVE  MigratorInv'
<1>1. proc[p].phase = "idle" /\ UNCHANGED <<source, database, aborts>>
  BY DEF Start
<1>2. Processing'
  <2>1. CASE \E fault : Ended(p, fault)
    BY <1>1, <2>1, EndedKeeps DEF MigratorInv, database
  <2>2. CASE /\ WellFormed(sources)
             /\ proc' = [proc EXCEPT ![p] = [phase |-> "begin", graph |-> sources,
                                             target |-> target, fault |-> "none"]]
    <3>1. PICK next : next = [phase |-> "begin", graph |-> sources,
                              target |-> target, fault |-> "none"]
      OBVIOUS
    <3>2. next.phase = "begin" /\ next.graph = sources
      BY <3>1
    <3>3. ProcOk(next, DOMAIN history')
      BY <2>2, <3>2 DEF MigratorInv, ProcOk, Building
    <3>4. lock # p /\ lock' = lock /\ history' = history
      BY <1>1 DEF MigratorInv, Processing, database
    <3>5. proc' = [proc EXCEPT ![p] = next]
      BY <2>2, <3>1
    <3> QED
      BY <3>2, <3>3, <3>4, <3>5, ProcessKeeps DEF MigratorInv
  <2> QED
    BY <2>1, <2>2 DEF Start
<1>3. Counting'
  BY <1>1, MigratorAssumption DEF Start, MigratorInv, Counting, database
<1> QED
  BY <1>1, <1>2, <1>3 DEF MigratorInv, source, database, Recording, DependenciesFirst

(* The first pending migration, chosen under the lock, has all that it     *)
(* depends on in the history that was read.                                *)
LEMMA BeginKeeps ==
  ASSUME MigratorInv, NEW p \in Processes, Begin(p)
  PROVE  MigratorInv'
<1> DEFINE g == proc[p].graph
<1>1. /\ proc[p].phase = "begin" /\ lock = NoProcess
      /\ UNCHANGED <<source, backend, catalog, drift, history, log, runs, aborts>>
  BY DEF Begin
<1>2. Building(proc[p])
  BY <1>1 DEF MigratorInv, Processing, ProcOk
<1>3. PICK plan :
        /\ plan = IF HistoryMatches(g, Seen) THEN PlanForward(g, DOMAIN Seen, proc[p].target)
                  ELSE Invalid
        /\ \/ (\E fault : Ended(p, fault)) /\ UNCHANGED lock
           \/ /\ plan \notin {Invalid, <<>>}
              /\ lock' = p
              /\ proc' = [proc EXCEPT ![p] =
                   [phase |-> "run", graph |-> g, target |-> proc[p].target, fault |-> "none",
                    id |-> plan[1], state |-> ReplaySelected(g, DOMAIN Seen),
                    todo |-> g[plan[1]].ops, pending |-> {}, work |-> catalog]]
  BY DEF Begin
<1>4. Processing'
  <2>1. CASE (\E fault : Ended(p, fault)) /\ UNCHANGED lock
    BY <1>1, <2>1, EndedKeeps DEF MigratorInv
  <2>2. CASE /\ plan \notin {Invalid, <<>>}
             /\ lock' = p
             /\ proc' = [proc EXCEPT ![p] =
                  [phase |-> "run", graph |-> g, target |-> proc[p].target, fault |-> "none",
                   id |-> plan[1], state |-> ReplaySelected(g, DOMAIN Seen),
                   todo |-> g[plan[1]].ops, pending |-> {}, work |-> catalog]]
    <3>1. PICK next : next =
             [phase |-> "run", graph |-> g, target |-> proc[p].target, fault |-> "none",
              id |-> plan[1], state |-> ReplaySelected(g, DOMAIN Seen),
              todo |-> g[plan[1]].ops, pending |-> {}, work |-> catalog]
      OBVIOUS
    <3>2. next.phase = "run" /\ next.graph = g /\ next.id = plan[1] /\ Running(next)
      BY <3>1 DEF Running
    <3>3. plan = PlanForward(g, DOMAIN history, proc[p].target)
      BY <1>3, <2>2 DEF Seen
    <3>4. plan[1] \in DOMAIN g /\ g[plan[1]].deps \subseteq DOMAIN history
      BY <1>2, <2>2, <3>3, PlanHead DEF Building
    <3>5. ProcOk(next, DOMAIN history')
      BY <1>1, <1>2, <3>2, <3>4 DEF ProcOk, Building
    <3>6. proc' = [proc EXCEPT ![p] = next]
      BY <2>2, <3>1
    <3> QED
      BY <1>1, <2>2, <3>2, <3>5, <3>6, ProcessKeeps DEF MigratorInv
  <2> QED
    BY <1>3, <2>1, <2>2
<1> QED
  BY <1>1, <1>4 DEF MigratorInv, source, Recording, DependenciesFirst, Counting

LEMMA RollbackKeeps ==
  ASSUME MigratorInv, NEW p \in Processes, proc[p].phase = "run", NEW fault,
         Rollback(p, fault), aborts' \in 0..MaxAborts
  PROVE  MigratorInv'
<1>1. Processing'
  BY EndedKeeps DEF Rollback, MigratorInv
<1> QED
  BY <1>1 DEF MigratorInv, Rollback, source, Recording, DependenciesFirst, Counting

LEMMA OperationKeeps ==
  ASSUME MigratorInv, NEW p \in Processes, ExecuteOperation(p)
  PROVE  MigratorInv'
<1>1. proc[p].phase = "run" /\ UNCHANGED aborts
  BY Zenon DEF ExecuteOperation
<1>2. CASE \E fault : Rollback(p, fault)
  BY <1>1, <1>2, RollbackKeeps DEF MigratorInv, Counting
<1>3. CASE \E op : \E next \in PostgresStep(proc[p], op) \cup SqliteStep(proc[p], op) :
             /\ proc' = [proc EXCEPT ![p] = next]
             /\ UNCHANGED <<source, database, runs>>
  <2>1. PICK op : \E next \in PostgresStep(proc[p], op) \cup SqliteStep(proc[p], op) :
           /\ proc' = [proc EXCEPT ![p] = next]
           /\ UNCHANGED <<source, database, runs>>
    BY <1>3
  <2>2. PICK run : run = proc[p]
    OBVIOUS
  <2>3. PICK next \in PostgresStep(run, op) \cup SqliteStep(run, op) :
           /\ proc' = [proc EXCEPT ![p] = next]
           /\ UNCHANGED <<source, database, runs>>
    BY <2>1, <2>2
  <2>4. ProcOk(run, DOMAIN history) /\ lock = p /\ run.phase = "run"
    BY <1>1, <2>2 DEF MigratorInv, Processing
  <2>5. SameRun(run, next)
    BY <2>4, StepKeepsRun DEF ProcOk
  <2>6. next.phase = "run" /\ ProcOk(next, DOMAIN history)
    <3>1. next.phase = "run" /\ Running(next)
      BY <2>5 DEF SameRun, Running
    <3> QED
      BY <2>4, <2>5, <3>1 DEF SameRun, ProcOk, Building
  <2>7. Processing'
    BY <2>3, <2>4, <2>6, ProcessKeeps DEF MigratorInv, database
  <2> QED
    BY <1>1, <2>3, <2>7
       DEF MigratorInv, source, database, Recording, DependenciesFirst, Counting
<1> QED
  <2>1. \/ \E fault : Rollback(p, fault)
        \/ \E next \in IF backend = "postgres" THEN PostgresStep(proc[p], Head(proc[p].todo))
                       ELSE SqliteStep(proc[p], Head(proc[p].todo)) :
             /\ proc' = [proc EXCEPT ![p] = next]
             /\ UNCHANGED <<source, database, runs>>
    BY Zenon DEF ExecuteOperation
  <2> QED
    BY <1>2, <1>3, <2>1

(* The commit: the migration was not recorded, its dependencies are.       *)
LEMMA FinishKeeps ==
  ASSUME MigratorInv, NEW p \in Processes, Finish(p)
  PROVE  MigratorInv'
<1> DEFINE run == proc[p]
<1>1. run.phase = "run" /\ UNCHANGED aborts /\ lock = p
  BY Zenon DEF Finish, MigratorInv, Processing
<1>2. CASE \E fault : Rollback(p, fault)
  BY <1>1, <1>2, RollbackKeeps DEF MigratorInv, Counting
<1>3. CASE /\ run.id \notin DOMAIN history
           /\ history' = With(history, run.id, Checksum(run.graph, run.id))
           /\ log' = Append(log, run.id)
           /\ lock' = NoProcess
           /\ proc' = [proc EXCEPT ![p] = [phase |-> "begin", graph |-> run.graph,
                                           target |-> run.target, fault |-> "none"]]
           /\ UNCHANGED <<source, backend, drift, runs>>
  <2>1. ProcOk(run, DOMAIN history)
    BY DEF MigratorInv, Processing
  <2>2. run.id \in DOMAIN run.graph /\ run.graph[run.id].deps \subseteq DOMAIN history
        /\ Building(run)
    BY <1>1, <2>1 DEF ProcOk
  <2>3. PICK id : id = run.id
    OBVIOUS
  <2>4. /\ DOMAIN history' = DOMAIN history \cup {id}
        /\ history'[id].deps \subseteq DOMAIN history
        /\ \A x \in DOMAIN history : history'[x] = history[x]
    BY <1>3, <2>2, <2>3 DEF With, Checksum
  <2>5. Processing'
    <3>1. PICK next : next = [phase |-> "begin", graph |-> run.graph,
                              target |-> run.target, fault |-> "none"]
      OBVIOUS
    <3>2. next.phase = "begin" /\ next.graph = run.graph
      BY <3>1
    <3>3. ProcOk(next, DOMAIN history')
      BY <2>2, <3>2 DEF ProcOk, Building
    <3>4. proc' = [proc EXCEPT ![p] = next]
      BY <1>3, <3>1
    <3> QED
      BY <1>1, <1>3, <2>4, <3>2, <3>3, <3>4, ProcessKeeps DEF MigratorInv
  <2>6. Recording'
    <3>1. /\ log \in Seq(DOMAIN history) /\ log' = Append(log, id)
          /\ Range(log) = DOMAIN history /\ id \notin DOMAIN history
          /\ IsInjective(log)
          /\ \A i \in DOMAIN log : history[log[i]].deps \subseteq {log[j] : j \in 1..i - 1}
      BY <1>3, <2>3 DEF MigratorInv, Recording, DependenciesFirst
    <3>2. PICK n : n = Len(log)
      OBVIOUS
    <3>3. /\ n \in Nat /\ DOMAIN log = 1..n /\ DOMAIN log' = 1..n + 1
          /\ log'[n + 1] = id
          /\ \A i \in 1..n : log'[i] = log[i] /\ log[i] \in DOMAIN history
      BY <3>1, <3>2
    <3>4. log' \in Seq(DOMAIN history')
      BY <2>4, <3>1
    <3>5. Range(log') = DOMAIN history'
      <4>1. \A x \in DOMAIN history : \E i \in 1..n : log[i] = x
        BY <3>1, <3>3 DEF Range
      <4>2. \A x \in DOMAIN history' : \E i \in 1..n + 1 : log'[i] = x
        BY <2>4, <3>3, <4>1
      <4>3. \A i \in 1..n + 1 : log'[i] \in DOMAIN history'
        BY <2>4, <3>3
      <4> QED
        BY <3>3, <4>2, <4>3 DEF Range
    <3>6. IsInjective(log')
      <4>1. \A i, j \in 1..n : log[i] = log[j] => i = j
        BY <3>1, <3>3 DEF IsInjective
      <4>2. \A i, j \in 1..n + 1 : log'[i] = log'[j] => i = j
        BY <3>1, <3>3, <4>1
      <4> QED
        BY <3>3, <4>2 DEF IsInjective
    <3>7. ASSUME NEW i \in 1..n + 1
          PROVE  history'[log'[i]].deps \subseteq {log'[j] : j \in 1..i - 1}
      <4>1. CASE i = n + 1
        <5>1. \A x \in DOMAIN history : \E j \in 1..n : log[j] = x
          BY <3>1, <3>3 DEF Range
        <5> QED
          BY <2>4, <3>3, <4>1, <5>1
      <4>2. CASE i # n + 1
        <5>1. i \in 1..n /\ \A j \in 1..i - 1 : j \in 1..n
          BY <3>3, <4>2
        <5>2. history[log[i]].deps \subseteq {log[j] : j \in 1..i - 1}
          BY <3>1, <3>3, <5>1
        <5>3. history'[log'[i]] = history[log[i]]
          BY <2>4, <3>3, <5>1
        <5>4. \A j \in 1..i - 1 : log'[j] = log[j]
          BY <3>3, <5>1
        <5> QED
          BY <5>2, <5>3, <5>4
      <4> QED
        BY <4>1, <4>2
    <3> QED
      BY <3>3, <3>4, <3>5, <3>6, <3>7 DEF Recording, DependenciesFirst
  <2> QED
    BY <1>1, <1>3, <2>5, <2>6 DEF MigratorInv, source, Counting
<1> QED
  BY Zenon, <1>2, <1>3 DEF Finish

LEMMA StepKeeps == MigratorInv /\ [Next]_vars => MigratorInv'
<1> SUFFICES ASSUME MigratorInv, [Next]_vars
             PROVE  MigratorInv'
  OBVIOUS
<1>1. CASE Develop
  <2>1. Graph(sources') /\ UNCHANGED <<database, process>>
    BY <1>1, DevelopKeepsGraph DEF MigratorInv
  <2> QED
    BY <2>1
       DEF MigratorInv, database, process, Processing, Recording, DependenciesFirst, Counting
<1>2. ASSUME NEW p \in Processes, NEW target \in Targets, Start(p, target)
      PROVE  MigratorInv'
  BY <1>2, StartKeeps
<1>3. ASSUME NEW p \in Processes, Begin(p)
      PROVE  MigratorInv'
  BY <1>3, BeginKeeps
<1>4. ASSUME NEW p \in Processes, LockTimesOut(p)
      PROVE  MigratorInv'
  <2>1. proc[p].phase = "begin" /\ UNCHANGED <<source, database, runs, aborts>> /\ Ended(p, "busy")
    BY <1>4 DEF LockTimesOut
  <2>2. Processing'
    BY <2>1, EndedKeeps DEF MigratorInv, database
  <2> QED
    BY <2>1, <2>2
       DEF MigratorInv, source, database, Recording, DependenciesFirst, Counting
<1>5. ASSUME NEW p \in Processes, ExecuteOperation(p)
      PROVE  MigratorInv'
  BY <1>5, OperationKeeps
<1>6. ASSUME NEW p \in Processes, Finish(p)
      PROVE  MigratorInv'
  BY <1>6, FinishKeeps
<1>7. ASSUME NEW p \in Processes, Abort(p)
      PROVE  MigratorInv'
  <2>1. aborts' \in 0..MaxAborts
    BY <1>7, MigratorAssumption DEF Abort, MigratorInv, Counting
  <2> QED
    BY <1>7, <2>1, RollbackKeeps DEF Abort
<1>8. ASSUME NEW t, NEW c, CreateIndexByHand(t, c)
      PROVE  MigratorInv'
  <2>1. UNCHANGED <<source, backend, history, log, lock, process>>
    BY <1>8 DEF CreateIndexByHand
  <2>2. drift' \in 0..MaxDrift
    BY <1>8, MigratorAssumption DEF CreateIndexByHand, MigratorInv, Counting
  <2> QED
    BY <2>1, <2>2
       DEF MigratorInv, source, process, Processing, Recording, DependenciesFirst, Counting
<1>9. CASE UNCHANGED vars
  BY <1>9
     DEF vars, MigratorInv, Processing, Recording, DependenciesFirst, Counting
<1> QED
  BY <1>1, <1>2, <1>3, <1>4, <1>5, <1>6, <1>7, <1>8, <1>9 DEF Next, Work

-----------------------------------------------------------------------------
(* The theorems.                                                           *)

LEMMA MigratorAlways == Spec => []MigratorInv
BY InitEstablishes, StepKeeps, PTL DEF Spec

(* A process is in a migration transaction exactly when it holds the lock, *)
(* through every failure, timeout and retry, and the log of commits and    *)
(* the recorded history name the same migrations.                          *)
THEOREM MigratorTyped == Spec => []TypeOK
<1>1. MigratorInv => TypeOK
  BY DEF MigratorInv, Processing, ProcOk, Recording, Counting, TypeOK
<1> QED
  BY <1>1, MigratorAlways, PTL

(* Each migration is recorded once, and after all that it depends on,      *)
(* although a process plans with the graph of its own build, and other     *)
(* processes with older or newer ones commit between two of its            *)
(* transactions.                                                           *)
THEOREM RecordedInOrder == Spec => []DependenciesFirst
<1>1. MigratorInv => DependenciesFirst
  BY DEF MigratorInv, Recording
<1> QED
  BY <1>1, MigratorAlways, PTL
=============================================================================
