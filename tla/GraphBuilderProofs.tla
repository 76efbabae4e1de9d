------------------------- MODULE GraphBuilderProofs -------------------------
(***************************************************************************)
(* What the directed graphs of pkg/dag promise, for every finite set of    *)
(* vertices: a graph is refused exactly if it is cyclic, the sort is a     *)
(* stable topological order, and the waves are as high as the dependents   *)
(* allow.  From these, what the builder promises of every definition.      *)
(*                                                                         *)
(* The recursive functions of Dag exist because their domain is finite     *)
(* (RunExists, FoldExists); every other argument is an invariant of the    *)
(* rounds of a loop, proved with Rising.                                   *)
(***************************************************************************)
EXTENDS GraphBuilder, TLAPS, FiniteSetTheorems, WellFoundedInduction

-----------------------------------------------------------------------------
(* Induction over sets instead of predicates.                              *)

LEMMA Smallest ==
    ASSUME NEW T \in SUBSET Nat, T # {}
    PROVE  \E x \in T : \A y \in T : x <= y
<1> DEFINE R == OpToRel(<, Nat)
<1>1. \A x, y \in Nat : y < x => <<y, x>> \in R
  BY DEF OpToRel
<1>2. IsWellFoundedOn(R, Nat)
  BY NatLessThanWellFounded
<1> HIDE DEF R
<1>3. PICK x \in T : \A y \in T : ~(<<y, x>> \in R)
  BY <1>2, WFMin
<1>4. ASSUME NEW y \in T PROVE x <= y
  <2>1. x \in Nat /\ y \in Nat
    OBVIOUS
  <2>2. ~(y < x)
    BY <1>1, <1>3, <2>1
  <2> QED
    BY <2>1, <2>2
<1> QED
  BY <1>4

\* What holds at the start and after each round holds in all of the first N rounds.
LEMMA Rising ==
    ASSUME NEW N \in Nat, NEW T, 0 \in T, \A n \in 1..N : n - 1 \in T => n \in T
    PROVE  0..N \subseteq T
<1> DEFINE Bad == {n \in 0..N : n \notin T}
<1> SUFFICES ASSUME Bad # {} PROVE FALSE
  OBVIOUS
<1>1. PICK n \in Bad : \A m \in Bad : n <= m
  <2>1. Bad \in SUBSET Nat
    OBVIOUS
  <2> HIDE DEF Bad
  <2> QED
    BY <2>1, Smallest
<1>2. n \in 1..N
  BY <1>1
<1>3. n - 1 \in 0..N /\ n - 1 < n
  BY <1>2
<1>4. n - 1 \notin Bad
  BY <1>1, <1>2, <1>3
<1> QED
  BY <1>1, <1>2, <1>3, <1>4

\* Every nonempty set of positions has a last one.
LEMMA Last ==
    ASSUME NEW N \in Nat, NEW S \in SUBSET (1..N), S # {}
    PROVE  \E x \in S : \A y \in S : y <= x
<1> DEFINE T == {N - x : x \in S}
<1>1. T \in SUBSET Nat /\ T # {}
  <2>1. \A x \in S : N - x \in Nat
    OBVIOUS
  <2> QED
    BY <2>1
<1> HIDE DEF T
<1>2. PICK m \in T : \A y \in T : m <= y
  BY <1>1, Smallest
<1>3. PICK x \in S : m = N - x
  BY DEF T
<1>4. ASSUME NEW y \in S PROVE y <= x
  <2>1. N - y \in T
    BY DEF T
  <2>2. N - x <= N - y
    BY <1>2, <1>3, <2>1
  <2> QED
    BY <2>2
<1> QED
  BY <1>4

LEMMA TopIn == \A S : S # {} => Top(S) \in S
BY DEF Top

\* What holds of no vertex and, with a vertex more, still holds is true of all sets
\* of vertices.
LEMMA Growing ==
    ASSUME NEW S, IsFiniteSet(S), NEW T, {} \in T,
           \A s \in SUBSET S : s # {} /\ s \ {Top(s)} \in T => s \in T
    PROVE  SUBSET S \subseteq T
<1> DEFINE N == Cardinality(S)
           K == {n \in 0..N : \A s \in SUBSET S : Cardinality(s) = n => s \in T}
<1>0. N \in Nat /\ \A s \in SUBSET S : IsFiniteSet(s) /\ Cardinality(s) \in 0..N
  <2>1. ASSUME NEW s \in SUBSET S PROVE IsFiniteSet(s) /\ Cardinality(s) <= N
    BY FS_Subset
  <2> QED
    BY <2>1, FS_CardinalityType
<1>1. 0 \in K
  BY <1>0, FS_EmptySet
<1>2. ASSUME NEW n \in 1..N, n - 1 \in K PROVE n \in K
  <2> SUFFICES ASSUME NEW s \in SUBSET S, Cardinality(s) = n PROVE s \in T
    BY <1>0
  <2>1. s # {}
    BY <1>0, FS_EmptySet
  <2>2. Cardinality(s \ {Top(s)}) = n - 1
    BY <1>0, <2>1, TopIn, FS_RemoveElement
  <2> QED
    BY <1>2, <2>1, <2>2
<1> HIDE DEF K
<1>3. 0..N \subseteq K
  BY <1>0, <1>1, <1>2, Rising
<1> QED
  BY <1>0, <1>3 DEF K

-----------------------------------------------------------------------------
(* The recursive functions of Dag.                                         *)

\* A round of the loop of findPath, TopologicalSort or ReverseTopologicalLayers.
Round(loop, g, s) == CASE loop = "walk" -> Visit(g, s)
                       [] loop = "sort" -> Place(g, s)
                       [] OTHER -> Layer(g, s)

IsRun(loop, g, base, f) ==
    f = [n \in Rounds(g) |-> IF n = 0 THEN base ELSE Round(loop, g, f[n - 1])]

LEMMA RunExists ==
    ASSUME NEW g, IsFiniteSet(Vertices(g)), NEW loop, NEW base
    PROVE  \E f : IsRun(loop, g, base, f)
<1> DEFINE N == Cardinality(Vertices(g))
           Upto(k, f) == f = [n \in 0..k |-> IF n = 0 THEN base ELSE Round(loop, g, f[n - 1])]
           K == {k \in 0..N : \E f : Upto(k, f)}
<1>0. N \in Nat
  BY FS_CardinalityType
<1>1. 0 \in K
  <2> DEFINE e == [n \in 0..0 |-> base]
  <2>1. Upto(0, e)
    OBVIOUS
  <2> HIDE DEF e
  <2>2. \E f : Upto(0, f)
    BY <2>1
  <2> QED
    BY <1>0, <2>2
<1>2. ASSUME NEW k \in 1..N, k - 1 \in K PROVE k \in K
  <2>1. PICK f : Upto(k - 1, f)
    BY <1>2
  <2> DEFINE h == [n \in 0..k |-> IF n = k THEN Round(loop, g, f[k - 1]) ELSE f[n]]
  <2>2. ASSUME NEW n \in 0..k PROVE h[n] = IF n = 0 THEN base ELSE Round(loop, g, h[n - 1])
    <3>1. n # 0 => n - 1 \in 0..k /\ n - 1 # k /\ h[n - 1] = f[n - 1]
      OBVIOUS
    <3>2. n # k => n \in 0..(k - 1) /\ h[n] = f[n]
      OBVIOUS
    <3>3. n = k => h[n] = Round(loop, g, f[n - 1]) /\ n # 0
      OBVIOUS
    <3>4. n # k => f[n] = IF n = 0 THEN base ELSE Round(loop, g, f[n - 1])
      BY <2>1, <3>2
    <3> HIDE DEF h
    <3> QED
      BY <3>1, <3>2, <3>3, <3>4
  <2>3. h = [n \in 0..k |-> h[n]]
    OBVIOUS
  <2> HIDE DEF h
  <2>4. Upto(k, h)
    BY <2>2, <2>3
  <2> QED
    BY <2>4
<1> HIDE DEF K
<1>3. N \in K
  BY <1>0, <1>1, <1>2, Rising
<1> QED
  BY <1>3 DEF K, IsRun, Rounds

\* The states of a loop, round by round.
Run(loop, g, base) == CHOOSE f : IsRun(loop, g, base, f)

LEMMA RunFacts ==
    ASSUME NEW g, IsFiniteSet(Vertices(g)), NEW loop, NEW base
    PROVE  LET N == Cardinality(Vertices(g)) r == Run(loop, g, base) IN
           N \in Nat /\ r[0] = base /\ \A n \in 1..N : r[n] = Round(loop, g, r[n - 1])
<1> DEFINE N == Cardinality(Vertices(g))
           r == Run(loop, g, base)
<1>1. IsRun(loop, g, base, r)
  BY RunExists DEF Run
<1>2. N \in Nat
  BY FS_CardinalityType
<1> HIDE DEF r
<1> QED
  BY <1>1, <1>2 DEF IsRun, Rounds, r

LEMMA LoopsRun ==
    ASSUME NEW g, NEW from, NEW to
    PROVE  LET N == Cardinality(Vertices(g))
               walk == Run("walk", g, [visited |-> from, stack |-> from])
               order == Run("sort", g, <<>>)[N]
               layers == Run("layers", g, <<>>)[N]
           IN  /\ findPath(g, from, to) =
                    \E n \in 0..N : walk[n].stack # {} /\ to \in g.deps[Top(walk[n].stack)]
               /\ TopologicalSort(g) = IF Len(order) = N THEN [ok |-> TRUE, order |-> order] ELSE Fail("cycle")
               /\ ReverseTopologicalLayers(g) = IF UNION Elements(layers) = Vertices(g)
                                                THEN [ok |-> TRUE, layers |-> layers] ELSE Fail("cycle")
<1>1. \A base : Run("walk", g, base) = CHOOSE f : f = [n \in Rounds(g) |-> IF n = 0 THEN base ELSE Visit(g, f[n - 1])]
  BY DEF Run, IsRun, Round
<1>2. \A base : Run("sort", g, base) = CHOOSE f : f = [n \in Rounds(g) |-> IF n = 0 THEN base ELSE Place(g, f[n - 1])]
  BY DEF Run, IsRun, Round
<1>3. \A base : Run("layers", g, base) = CHOOSE f : f = [n \in Rounds(g) |-> IF n = 0 THEN base ELSE Layer(g, f[n - 1])]
  BY DEF Run, IsRun, Round
<1>4. Rounds(g) = 0..Cardinality(Vertices(g))
  BY DEF Rounds
<1> QED
  BY <1>1, <1>2, <1>3, <1>4, Zenon DEF findPath, TopologicalSort, ReverseTopologicalLayers

-----------------------------------------------------------------------------
(* The search for a path.                                                  *)

IsGraph(g) ==
    /\ IsFiniteSet(Vertices(g))
    /\ \A v \in Vertices(g) : g.deps[v] \subseteq Vertices(g)

\* C leads nowhere else.
IsClosed(g, C) == C \subseteq Vertices(g) /\ \A v \in C : g.deps[v] \subseteq C

\* What the walk has seen and not pushed any more has been taken off the stack, in
\* rounds of one vertex each.
Walked(g, from, n, s) ==
    /\ DOMAIN s = {"visited", "stack"}
    /\ from \subseteq s.visited /\ s.stack \subseteq s.visited /\ s.visited \subseteq Vertices(g)
    /\ \A v \in s.visited \ s.stack : g.deps[v] \subseteq s.visited
    /\ s.stack = {} \/ Cardinality(s.visited \ s.stack) = n

LEMMA WalkStep ==
    ASSUME NEW g, IsGraph(g), NEW from, NEW n \in Nat, NEW s, Walked(g, from, n, s)
    PROVE  /\ Walked(g, from, n + 1, Visit(g, s))
           /\ s.stack # {} => Visit(g, s).visited \ Visit(g, s).stack = (s.visited \ s.stack) \cup {Top(s.stack)}
           /\ s.stack = {} => Visit(g, s) = s
           /\ \A C : IsClosed(g, C) /\ s.visited \subseteq C => Visit(g, s).visited \subseteq C
<1> DEFINE node == Top(s.stack)
           new == g.deps[node] \ s.visited
           t == Visit(g, s)
           done == s.visited \ s.stack
<1>1. CASE s.stack = {}
  BY <1>1 DEF Visit, Walked
<1>2. CASE s.stack # {}
  <2>1. node \in s.stack /\ node \in s.visited /\ node \in Vertices(g)
    BY <1>2, TopIn DEF Walked
  <2>2. t = [visited |-> s.visited \cup new, stack |-> (s.stack \ {node}) \cup new]
    BY <1>2 DEF Visit
  <2>3. DOMAIN t = {"visited", "stack"} /\ t.visited = s.visited \cup new /\ t.stack = (s.stack \ {node}) \cup new
    BY <2>2
  <2>4. g.deps[node] \subseteq Vertices(g)
    BY <2>1 DEF IsGraph
  <2> HIDE DEF t, node
  <2>5. t.visited \ t.stack = done \cup {node}
    BY <2>1, <2>3 DEF Walked
  <2>6. Cardinality(done \cup {node}) = n + 1
    <3>1. IsFiniteSet(done)
      BY FS_Subset DEF Walked, IsGraph
    <3>2. node \notin done /\ Cardinality(done) = n
      BY <1>2, <2>1 DEF Walked
    <3> QED
      BY <3>1, <3>2, FS_AddElement
  <2>7. \A v \in done \cup {node} : g.deps[v] \subseteq t.visited
    BY <2>3 DEF Walked
  <2>8. from \subseteq t.visited /\ t.stack \subseteq t.visited /\ t.visited \subseteq Vertices(g)
    BY <2>3, <2>4 DEF Walked
  <2>9. Walked(g, from, n + 1, t)
    BY <2>3, <2>5, <2>6, <2>7, <2>8 DEF Walked
  <2>10. ASSUME NEW C, IsClosed(g, C), s.visited \subseteq C PROVE t.visited \subseteq C
    BY <2>1, <2>3, <2>10 DEF IsClosed
  <2> QED
    BY <1>2, <2>5, <2>9, <2>10 DEF t, node
<1> QED
  BY <1>1, <1>2

\* dag.go:256.  The walk finds the vertex it looks for exactly if no closed set of
\* vertices holds the start of the walk and leaves the vertex out.
LEMMA PathFacts ==
    ASSUME NEW g, IsGraph(g), NEW from \in SUBSET Vertices(g), NEW to
    PROVE  findPath(g, from, to) <=>
             \A C : IsClosed(g, C) /\ from \subseteq C => \E v \in C : to \in g.deps[v]
<1> DEFINE N == Cardinality(Vertices(g))
           base == [visited |-> from, stack |-> from]
           r == Run("walk", g, base)
           at(n) == r[n].stack # {} /\ to \in g.deps[Top(r[n].stack)]
<1>1. findPath(g, from, to) <=> \E n \in 0..N : at(n)
  BY LoopsRun
<1>2. IsFiniteSet(Vertices(g))
  BY DEF IsGraph
<1>3. N \in Nat /\ r[0] = base /\ \A n \in 1..N : r[n] = Visit(g, r[n - 1])
  <2>1. \A s : Round("walk", g, s) = Visit(g, s)
    BY DEF Round
  <2> QED
    BY <1>2, <2>1, RunFacts
<1> HIDE DEF r
<1>4. ASSUME NEW n \in 0..N PROVE Walked(g, from, n, r[n])
  <2> DEFINE T == {k \in 0..N : Walked(g, from, k, r[k])}
  <2>1. Walked(g, from, 0, base)
    BY FS_EmptySet DEF Walked
  <2>2. 0 \in T
    BY <1>3, <2>1
  <2>3. ASSUME NEW k \in 1..N, k - 1 \in T PROVE k \in T
    <3>1. k - 1 \in Nat /\ (k - 1) + 1 = k /\ Walked(g, from, k - 1, r[k - 1])
      BY <2>3
    <3> QED
      BY <1>3, <3>1, WalkStep
  <2> HIDE DEF T
  <2>4. n \in T
    BY <1>3, <2>2, <2>3, Rising
  <2> QED
    BY <2>4 DEF T
<1>5. ASSUME NEW k \in 1..N
       PROVE  /\ r[k - 1].stack # {} =>
                   r[k].visited \ r[k].stack = (r[k - 1].visited \ r[k - 1].stack) \cup {Top(r[k - 1].stack)}
              /\ r[k - 1].stack = {} => r[k] = r[k - 1]
              /\ \A C : IsClosed(g, C) /\ r[k - 1].visited \subseteq C => r[k].visited \subseteq C
  <2> DEFINE s == r[k - 1]
  <2>1. k - 1 \in Nat /\ k - 1 \in 0..N
    BY <1>3
  <2>2. Walked(g, from, k - 1, s) /\ r[k] = Visit(g, s)
    BY <1>3, <1>4, <2>1
  <2> HIDE DEF s
  <2> DEFINE m == k - 1
             w == Visit(g, s)
  <2>3. m \in Nat /\ Walked(g, from, m, s)
    BY <2>1, <2>2
  <2> HIDE DEF m
  <2>4. /\ s.stack # {} => w.visited \ w.stack = (s.visited \ s.stack) \cup {Top(s.stack)}
        /\ s.stack = {} => w = s
        /\ \A C : IsClosed(g, C) /\ s.visited \subseteq C => w.visited \subseteq C
    BY <2>3, WalkStep
  <2> QED
    BY <2>2, <2>4 DEF s
<1>6. ASSUME NEW n \in 0..N, at(n), NEW C, IsClosed(g, C), from \subseteq C
      PROVE  \E v \in C : to \in g.deps[v]
  <2> DEFINE T == {k \in 0..N : r[k].visited \subseteq C}
  <2>1. 0 \in T
    BY <1>3, <1>6
  <2>2. ASSUME NEW k \in 1..N, k - 1 \in T PROVE k \in T
    <3>1. r[k - 1].visited \subseteq C /\ k \in 0..N
      BY <2>2
    <3> QED
      BY <1>6, <1>5, <3>1
  <2> HIDE DEF T
  <2>3. n \in T
    BY <1>3, <2>1, <2>2, Rising
  <2>4. Top(r[n].stack) \in r[n].stack /\ r[n].stack \subseteq r[n].visited
    BY <1>4, <1>6, TopIn DEF Walked
  <2> QED
    BY <1>6, <2>3, <2>4 DEF T
<1>7. ASSUME \A n \in 0..N : ~at(n) PROVE \E C : IsClosed(g, C) /\ from \subseteq C /\ \A v \in C : to \notin g.deps[v]
  <2> DEFINE T == {k \in 0..N : \A v \in r[k].visited \ r[k].stack : to \notin g.deps[v]}
             C == r[N].visited
  <2>1. 0 \in T
    BY <1>3
  <2>2. ASSUME NEW k \in 1..N, k - 1 \in T PROVE k \in T
    <3>1. k - 1 \in 0..N /\ k \in 0..N
      BY <2>2
    <3>2. CASE r[k - 1].stack = {}
      <4>1. r[k] = r[k - 1]
        BY <1>5, <3>2
      <4> QED
        BY <2>2, <3>1, <4>1
    <3>3. CASE r[k - 1].stack # {}
      <4>1. r[k].visited \ r[k].stack = (r[k - 1].visited \ r[k - 1].stack) \cup {Top(r[k - 1].stack)}
        BY <1>5, <3>3
      <4>2. to \notin g.deps[Top(r[k - 1].stack)]
        BY <1>7, <3>1, <3>3
      <4> QED
        BY <2>2, <3>1, <4>1, <4>2
    <3> QED
      BY <3>2, <3>3
  <2> HIDE DEF T
  <2>3. N \in T
    BY <1>3, <2>1, <2>2, Rising
  <2>4. Walked(g, from, N, r[N])
    BY <1>3, <1>4
  <2>5. r[N].stack = {}
    <3> SUFFICES ASSUME r[N].stack # {} PROVE FALSE
      OBVIOUS
    <3> DEFINE done == r[N].visited \ r[N].stack
    <3>1. done \subseteq Vertices(g) /\ Cardinality(done) = N
      BY <2>4 DEF Walked
    <3>2. done = Vertices(g)
      BY <1>2, <3>1, FS_Subset
    <3> QED
      BY <2>4, <3>2 DEF Walked
  <2>6. IsClosed(g, C) /\ from \subseteq C
    BY <2>4, <2>5 DEF Walked, IsClosed
  <2>7. \A v \in C : to \notin g.deps[v]
    BY <2>3, <2>5 DEF T
  <2> QED
    BY <2>6, <2>7
<1> HIDE DEF at, N
<1> QED
  BY <1>1, <1>6, <1>7

-----------------------------------------------------------------------------
(* Dependencies are added until they close a cycle.                        *)

LEMMA MoreCyclic ==
    ASSUME NEW V, NEW d, NEW e, \A v \in V : d[v] \subseteq e[v], Cyclic(V, d)
    PROVE  Cyclic(V, e)
<1>1. PICK S \in (SUBSET V) \ {{}} : \A v \in S : d[v] \cap S # {}
  BY DEF Cyclic
<1>2. \A v \in S : e[v] \cap S # {}
  BY <1>1
<1> QED
  BY <1>2 DEF Cyclic

\* New dependencies that close a path back to their vertex close a cycle: of the
\* vertices that lead to it, each leads to another.
LEMMA PathsClose ==
    ASSUME NEW g, IsGraph(g), NEW from \in Vertices(g), NEW added \in SUBSET g.deps[from],
           findPath(g, added, from)
    PROVE  Cyclic(Vertices(g), g.deps)
<1> DEFINE V == Vertices(g)
           Up(X) == X \subseteq V /\ from \in X /\ \A u \in V : g.deps[u] \cap X # {} => u \in X
           Anc == {v \in V : \A X \in SUBSET V : Up(X) => v \in X}
           C == V \ Anc
<1>1. added \subseteq V
  BY DEF IsGraph
<1>2. from \in Anc
  OBVIOUS
<1>3. Up(Anc)
  <2> SUFFICES ASSUME NEW u \in V, NEW x \in g.deps[u], x \in Anc, NEW X \in SUBSET V, Up(X) PROVE u \in X
    BY <1>2
  <2>1. x \in X
    OBVIOUS
  <2> QED
    BY <2>1
<1>4. ASSUME NEW v \in Anc, v # from PROVE g.deps[v] \cap Anc # {}
  <2> SUFFICES ASSUME g.deps[v] \cap Anc = {} PROVE FALSE
    OBVIOUS
  <2> DEFINE X == Anc \ {v}
  <2> HIDE DEF Anc
  <2>1. ASSUME NEW u \in V, g.deps[u] \cap X # {} PROVE u \in X
    <3>1. g.deps[u] \cap Anc # {}
      BY <2>1
    <3>2. u \in Anc
      BY <1>3, <3>1
    <3> QED
      BY <3>1, <3>2
  <2>2. Up(X)
    BY <1>2, <1>3, <1>4, <2>1
  <2>3. X \in SUBSET V
    BY <1>3
  <2> HIDE DEF X
  <2>4. v \in X
    BY <2>2, <2>3 DEF Anc
  <2> QED
    BY <2>4 DEF X
<1>5. IsClosed(g, C)
  <2> HIDE DEF Anc
  <2> SUFFICES ASSUME NEW v \in C, NEW x \in g.deps[v] PROVE x \in C
    BY DEF IsClosed
  <2>1. x \in V
    BY DEF IsGraph
  <2> QED
    BY <1>3, <2>1
<1> HIDE DEF Anc
<1>6. \A v \in C : from \notin g.deps[v]
  BY <1>2, <1>3
<1>7. ~(added \subseteq C)
  <2> HIDE DEF C
  <2> QED
    BY <1>1, <1>5, <1>6, PathFacts
<1>8. g.deps[from] \cap Anc # {}
  BY <1>1, <1>7
<1>9. Anc \in (SUBSET V) \ {{}} /\ \A v \in Anc : g.deps[v] \cap Anc # {}
  BY <1>2, <1>3, <1>4, <1>8
<1> QED
  BY <1>9 DEF Cyclic

\* An acyclic graph stays acyclic when no path leads back.
LEMMA NoPathNoCycle ==
    ASSUME NEW g, IsGraph(g), NEW d, NEW from \in Vertices(g), NEW added,
           ~Cyclic(Vertices(g), d), \A v \in Vertices(g) \ {from} : g.deps[v] = d[v],
           g.deps[from] = d[from] \cup added, ~findPath(g, added, from)
    PROVE  ~Cyclic(Vertices(g), g.deps)
<1> DEFINE V == Vertices(g)
<1>1. added \subseteq V
  BY DEF IsGraph
<1>2. PICK C : IsClosed(g, C) /\ added \subseteq C /\ \A v \in C : from \notin g.deps[v]
  BY <1>1, PathFacts
<1> SUFFICES ASSUME NEW S \in (SUBSET V) \ {{}}, \A v \in S : g.deps[v] \cap S # {} PROVE FALSE
  BY DEF Cyclic
<1> DEFINE D == S \cap (C \ {from})
<1>3. from \in C => \A v \in C : v = from \/ from \notin g.deps[v]
  BY <1>2
<1>4. ASSUME NEW v \in D PROVE d[v] \cap D # {}
  <2>1. g.deps[v] = d[v] /\ v \in S /\ v \in C
    BY <1>4
  <2>2. PICK x \in g.deps[v] : x \in S
    BY <2>1
  <2>3. x \in C /\ x # from
    BY <1>2, <2>1, <2>2 DEF IsClosed
  <2> QED
    BY <2>1, <2>2, <2>3
<1>5. D = {}
  <2>1. ~(D \in (SUBSET V) \ {{}})
    BY <1>4 DEF Cyclic
  <2> QED
    BY <2>1
<1>6. ASSUME NEW v \in S PROVE d[v] \cap S # {}
  <2>1. CASE v # from
    BY <2>1
  <2>2. CASE v = from
    <3>1. PICK x \in g.deps[from] : x \in S
      BY <2>2
    <3>2. CASE x \in d[from]
      BY <2>2, <3>1, <3>2
    <3>3. CASE x \in added
      <4>1. x \in C /\ x = from
        BY <1>2, <1>5, <3>1, <3>3
      <4> QED
        BY <1>2, <3>1, <4>1
    <3> QED
      BY <3>1, <3>2, <3>3
  <2> QED
    BY <2>1, <2>2
<1> QED
  BY <1>6 DEF Cyclic

\* dag.go:212.  The dependencies of a vertex are added exactly if they are vertices and
\* leave the graph without a cycle.
LEMMA AddedFacts ==
    ASSUME NEW g, IsGraph(g), ~Cyclic(Vertices(g), g.deps), DOMAIN g = {"order", "deps"},
           NEW from \in Vertices(g), NEW dependencies
    PROVE  LET r == AddDependencies(g, from, dependencies)
               d == [g.deps EXCEPT ![from] = @ \cup dependencies]
           IN  /\ r.ok \in BOOLEAN
               /\ r.ok <=> dependencies \subseteq Vertices(g) /\ ~Cyclic(Vertices(g), d)
               /\ r.ok => r.g = [g EXCEPT !.deps = d]
               /\ ~r.ok /\ r.why # "missing" => Cyclic(Vertices(g), d)
<1> DEFINE V == Vertices(g)
           added == dependencies \ g.deps[from]
           d == [g.deps EXCEPT ![from] = @ \cup dependencies]
           next == [g EXCEPT !.deps[from] = @ \cup dependencies]
           r == AddDependencies(g, from, dependencies)
<1>1. next = [g EXCEPT !.deps = d] /\ next.deps = d /\ Vertices(next) = V
  BY DEF Vertices
<1>2. CASE ~(dependencies \subseteq V)
  <2>1. r = Fail("missing")
    BY <1>2 DEF AddDependencies
  <2> QED
    BY <1>2, <2>1 DEF Fail
<1>3. CASE dependencies \subseteq V /\ from \in dependencies
  <2>1. r = Fail("self")
    BY <1>3 DEF AddDependencies
  <2>2. {from} \in (SUBSET V) \ {{}} /\ \A v \in {from} : d[v] \cap {from} # {}
    BY <1>3 DEF Vertices
  <2>3. Cyclic(V, d)
    <3> HIDE DEF d, V
    <3> QED
      BY <2>2 DEF Cyclic
  <2> QED
    BY <2>1, <2>3 DEF Fail
<1>4. CASE dependencies \subseteq V /\ from \notin dependencies
  <2>1. /\ d[from] = g.deps[from] \cup dependencies /\ d[from] = g.deps[from] \cup added
        /\ \A v \in V \ {from} : d[v] = g.deps[v]
    BY DEF Vertices
  <2>2. IsGraph(next)
    BY <1>1, <1>4, <2>1 DEF IsGraph
  <2>3. r = IF findPath(next, added, from) THEN Fail("cycle") ELSE [ok |-> TRUE, g |-> next]
    BY <1>4 DEF AddDependencies
  <2> HIDE DEF next, d, added, r
  <2>4. findPath(next, added, from) => Cyclic(V, d)
    BY <1>1, <2>1, <2>2, PathsClose
  <2>5. ~findPath(next, added, from) => ~Cyclic(V, d)
    BY <1>1, <2>1, <2>2, NoPathNoCycle
  <2>6. findPath(next, added, from) => r = Fail("cycle") /\ r.ok = FALSE
    BY <2>3 DEF Fail
  <2>7. ~findPath(next, added, from) => r.ok = TRUE /\ r.g = next
    BY <2>3
  <2> QED
    BY <1>1, <1>4, <2>4, <2>5, <2>6, <2>7 DEF d, r
<1> QED
  BY <1>2, <1>3, <1>4

-----------------------------------------------------------------------------
(* The graph of a definition.                                              *)

WithVertex(index, id, r) == IF r.ok THEN AddVertex(r.g, id, index[id]) ELSE r
WithDeps(deps, id, r) == IF r.ok THEN AddDependencies(r.g, id, deps[id]) ELSE r
Grown(phase, index, deps, id, r) == IF phase = "vertices" THEN WithVertex(index, id, r) ELSE WithDeps(deps, id, r)

IsFold(phase, ids, index, deps, base, f) ==
    f = [s \in SUBSET ids |-> IF s = {} THEN base
                              ELSE Grown(phase, index, deps, Top(s), f[s \ {Top(s)}])]

LEMMA FoldExists ==
    ASSUME NEW phase, NEW ids, IsFiniteSet(ids), NEW index, NEW deps, NEW base
    PROVE  \E f : IsFold(phase, ids, index, deps, base, f)
<1> DEFINE N == Cardinality(ids)
           Small(k) == {s \in SUBSET ids : Cardinality(s) <= k}
           More(f, s) == Grown(phase, index, deps, Top(s), f[s \ {Top(s)}])
           Upto(k, f) == f = [s \in Small(k) |-> IF s = {} THEN base ELSE More(f, s)]
           K == {k \in 0..N : \E f : Upto(k, f)}
<1>0. N \in Nat /\ \A s \in SUBSET ids : IsFiniteSet(s) /\ Cardinality(s) \in Nat /\ Cardinality(s) <= N
  <2>1. ASSUME NEW s \in SUBSET ids PROVE IsFiniteSet(s) /\ Cardinality(s) <= N
    BY FS_Subset
  <2> QED
    BY <2>1, FS_CardinalityType
<1>1. ASSUME NEW s \in SUBSET ids, s # {}
      PROVE  s \ {Top(s)} \in SUBSET ids /\ Cardinality(s \ {Top(s)}) = Cardinality(s) - 1
  BY <1>0, <1>1, TopIn, FS_RemoveElement
<1>2. 0 \in K
  <2> DEFINE e == [s \in Small(0) |-> base]
  <2>1. \A s \in Small(0) : s = {}
    BY <1>0, FS_EmptySet
  <2>2. Upto(0, e)
    BY <2>1
  <2> HIDE DEF e
  <2> HIDE DEF Upto
  <2> QED
    BY <1>0, <2>2
<1>3. ASSUME NEW k \in 1..N, k - 1 \in K PROVE k \in K
  <2>1. PICK f : Upto(k - 1, f)
    BY <1>3
  <2> DEFINE h == [s \in Small(k) |-> IF s \in Small(k - 1) THEN f[s] ELSE More(f, s)]
  <2>2. ASSUME NEW s \in Small(k), s # {} PROVE h[s \ {Top(s)}] = f[s \ {Top(s)}]
    <3> DEFINE t == s \ {Top(s)}
    <3>1. t \in SUBSET ids /\ Cardinality(t) = Cardinality(s) - 1 /\ Cardinality(s) \in Nat /\ Cardinality(s) <= k
      BY <1>0, <1>1, <2>2
    <3> HIDE DEF t
    <3>2. t \in Small(k - 1) /\ t \in Small(k)
      BY <3>1
    <3> QED
      BY <3>2 DEF t
  <2>3. ASSUME NEW s \in Small(k) PROVE h[s] = IF s = {} THEN base ELSE More(h, s)
    <3>1. s # {} => More(h, s) = More(f, s)
      BY <2>2
    <3>2. s \in Small(k - 1) => f[s] = IF s = {} THEN base ELSE More(f, s)
      BY <2>1
    <3>3. h[s] = IF s \in Small(k - 1) THEN f[s] ELSE More(f, s)
      OBVIOUS
    <3>4. s = {} => s \in Small(k - 1)
      BY <1>0, FS_EmptySet
    <3> HIDE DEF h, Small, More
    <3> QED
      BY <3>1, <3>2, <3>3, <3>4
  <2>4. h = [s \in Small(k) |-> h[s]]
    OBVIOUS
  <2> HIDE DEF h
  <2>5. Upto(k, h)
    BY <2>3, <2>4
  <2> HIDE DEF Upto
  <2> QED
    BY <2>5
<1> HIDE DEF K
<1>4. N \in K
  BY <1>0, <1>2, <1>3, Rising
<1>5. PICK f : Upto(N, f)
  BY <1>4 DEF K
<1>6. Small(N) = SUBSET ids
  BY <1>0
<1>7. IsFold(phase, ids, index, deps, base, f)
  <2> HIDE DEF Small
  <2> QED
    BY <1>5, <1>6 DEF IsFold
<1> QED
  BY <1>7

Fold(phase, ids, index, deps, base) == CHOOSE f : IsFold(phase, ids, index, deps, base, f)

NoGraph == [ok |-> TRUE, g |-> NewDirectedAcyclicGraph]

LEMMA GraphFolds ==
    ASSUME NEW ids, NEW index, NEW deps
    PROVE  GraphOf(ids, index, deps) =
             Fold("deps", ids, index, deps, Fold("vertices", ids, index, deps, NoGraph)[ids])[ids]
<1> DEFINE first == CHOOSE f : f = [s \in SUBSET ids |->
                      IF s = {} THEN NoGraph
                      ELSE WithVertex(index, (CHOOSE x \in s : TRUE), f[s \ {CHOOSE x \in s : TRUE}])]
           then(base) == CHOOSE f : f = [s \in SUBSET ids |->
                      IF s = {} THEN base
                      ELSE WithDeps(deps, (CHOOSE x \in s : TRUE), f[s \ {CHOOSE x \in s : TRUE}])]
<1>1. Fold("vertices", ids, index, deps, NoGraph) = first
  BY DEF Fold, IsFold, Grown, Top
<1>2. \A base : Fold("deps", ids, index, deps, base) = then(base)
  BY DEF Fold, IsFold, Grown, Top
<1>3. GraphOf(ids, index, deps) = then(first[ids])[ids]
  BY Zenon DEF GraphOf, FoldSet, MapThenFoldSet, WithVertex, WithDeps, NoGraph
<1> HIDE DEF first, then
<1> QED
  BY <1>1, <1>2, <1>3

LEMMA FoldFacts ==
    ASSUME NEW phase, NEW ids, IsFiniteSet(ids), NEW index, NEW deps, NEW base
    PROVE  LET f == Fold(phase, ids, index, deps, base) IN
           /\ f[{}] = base
           /\ \A s \in SUBSET ids : s # {} => f[s] = Grown(phase, index, deps, Top(s), f[s \ {Top(s)}])
<1> DEFINE f == Fold(phase, ids, index, deps, base)
<1>1. IsFold(phase, ids, index, deps, base, f)
  BY FoldExists DEF Fold
<1> HIDE DEF f
<1>2. {} \in SUBSET ids
  OBVIOUS
<1> QED
  BY <1>1, <1>2 DEF IsFold, f

\* All vertices are there, without dependencies.
Bare(index, s) == [order |-> [v \in s |-> index[v]], deps |-> [v \in s |-> {}]]

LEMMA VerticesAdded ==
    ASSUME NEW ids, IsFiniteSet(ids), NEW index, NEW deps
    PROVE  Fold("vertices", ids, index, deps, NoGraph)[ids] = [ok |-> TRUE, g |-> Bare(index, ids)]
<1> DEFINE f == Fold("vertices", ids, index, deps, NoGraph)
           T == {s \in SUBSET ids : f[s] = [ok |-> TRUE, g |-> Bare(index, s)]}
<1>1. f[{}] = NoGraph /\ \A s \in SUBSET ids : s # {} => f[s] = WithVertex(index, Top(s), f[s \ {Top(s)}])
  <2>1. \A id, r : Grown("vertices", index, deps, id, r) = WithVertex(index, id, r)
    BY DEF Grown
  <2>2. f[{}] = NoGraph /\ \A s \in SUBSET ids : s # {} => f[s] = Grown("vertices", index, deps, Top(s), f[s \ {Top(s)}])
    BY FoldFacts
  <2> HIDE DEF f
  <2> QED
    BY <2>1, <2>2
<1> HIDE DEF f
<1>2. {} \in T
  <2>1. Bare(index, {}) = NewDirectedAcyclicGraph
    BY DEF Bare, NewDirectedAcyclicGraph
  <2> QED
    BY <1>1, <2>1 DEF NoGraph
<1>3. ASSUME NEW s \in SUBSET ids, s # {}, s \ {Top(s)} \in T PROVE s \in T
  <2> DEFINE x == Top(s)
             t == s \ {x}
             b == Bare(index, t)
  <2>1. x \in s /\ t \cup {x} = s /\ x \notin t
    BY <1>3, TopIn
  <2>2. f[t] = [ok |-> TRUE, g |-> b] /\ f[s] = WithVertex(index, x, f[t])
    BY <1>1, <1>3
  <2> HIDE DEF x, t
  <2>3. /\ Vertices(b) = t /\ b.order = [v \in t |-> index[v]] /\ b.deps = [v \in t |-> {}]
    BY DEF Bare, Vertices
  <2> HIDE DEF b
  <2>4. f[s] = AddVertex(b, x, index[x])
    BY <2>2 DEF WithVertex
  <2>5. f[s] = [ok |-> TRUE, g |-> [order |-> [v \in s |-> IF v = x THEN index[x] ELSE b.order[v]],
                                   deps |-> [v \in s |-> IF v = x THEN {} ELSE b.deps[v]]]]
    BY <2>1, <2>3, <2>4 DEF AddVertex
  <2>6. [v \in s |-> IF v = x THEN index[x] ELSE b.order[v]] = [v \in s |-> index[v]]
    BY <2>1, <2>3
  <2>7. [v \in s |-> IF v = x THEN {} ELSE b.deps[v]] = [v \in s |-> {}]
    BY <2>1, <2>3
  <2> QED
    BY <2>5, <2>6, <2>7 DEF Bare
<1> HIDE DEF T
<1>4. SUBSET ids \subseteq T
  BY <1>2, <1>3, Growing
<1> QED
  BY <1>4 DEF T, f

\* The dependencies of the vertices in s have been added.
Partly(ids, deps, s) == [v \in ids |-> IF v \in s THEN deps[v] ELSE {}]

LEMMA DependenciesAdded ==
    ASSUME NEW ids, IsFiniteSet(ids), NEW index, NEW deps
    PROVE  LET r == Fold("deps", ids, index, deps, [ok |-> TRUE, g |-> Bare(index, ids)])[ids]
               d == Partly(ids, deps, ids)
           IN  /\ r.ok <=> (\A v \in ids : deps[v] \subseteq ids) /\ ~Cyclic(ids, d)
               /\ r.ok => r.g = [Bare(index, ids) EXCEPT !.deps = d]
               /\ ~r.ok /\ r.why # "missing" => Cyclic(ids, d)
<1> DEFINE f == Fold("deps", ids, index, deps, [ok |-> TRUE, g |-> Bare(index, ids)])
           d(s) == Partly(ids, deps, s)
           Fine(s) == (\A v \in s : deps[v] \subseteq ids) /\ ~Cyclic(ids, d(s))
           Done(s) == /\ f[s].ok \in BOOLEAN /\ (f[s].ok <=> Fine(s))
                      /\ f[s].ok => f[s].g = [Bare(index, ids) EXCEPT !.deps = d(s)]
                      /\ ~f[s].ok /\ f[s].why # "missing" => Cyclic(ids, d(s))
           T == {s \in SUBSET ids : Done(s)}
<1>1. /\ f[{}] = [ok |-> TRUE, g |-> Bare(index, ids)]
      /\ \A s \in SUBSET ids : s # {} => f[s] = WithDeps(deps, Top(s), f[s \ {Top(s)}])
  <2>1. \A id, r : Grown("deps", index, deps, id, r) = WithDeps(deps, id, r)
    BY DEF Grown
  <2>2. /\ f[{}] = [ok |-> TRUE, g |-> Bare(index, ids)]
        /\ \A s \in SUBSET ids : s # {} => f[s] = Grown("deps", index, deps, Top(s), f[s \ {Top(s)}])
    BY FoldFacts
  <2> HIDE DEF f
  <2> QED
    BY <2>1, <2>2
<1> HIDE DEF f
<1>2. {} \in T
  <2>1. d({}) = [v \in ids |-> {}]
    BY DEF Partly
  <2>2. ~Cyclic(ids, d({}))
    BY <2>1 DEF Cyclic
  <2>3. Bare(index, ids) = [Bare(index, ids) EXCEPT !.deps = d({})]
    BY <2>1 DEF Bare
  <2> HIDE DEF d
  <2>4. f[{}].ok = TRUE /\ f[{}].g = Bare(index, ids)
    BY <1>1
  <2>5. Fine({})
    BY <2>2
  <2>6. Done({})
    BY <2>3, <2>4, <2>5
  <2> HIDE DEF Done
  <2> QED
    BY <2>6
<1>3. ASSUME NEW s \in SUBSET ids, s # {}, s \ {Top(s)} \in T PROVE s \in T
  <2> DEFINE x == Top(s)
             t == s \ {x}
  <2>1. x \in s /\ x \in ids /\ t \cup {x} = s /\ x \notin t
    BY <1>3, TopIn
  <2>2. Done(t) /\ f[s] = WithDeps(deps, x, f[t])
    BY <1>1, <1>3
  <2> HIDE DEF x, t
  <2>3. d(s) = [d(t) EXCEPT ![x] = @ \cup deps[x]] /\ DOMAIN d(t) = ids
    BY <2>1 DEF Partly
  <2>4. \A v \in ids : d(t)[v] \subseteq d(s)[v]
    BY <2>1 DEF Partly
  <2>5. CASE ~f[t].ok
    <3>1. f[s] = f[t]
      BY <2>2, <2>5 DEF WithDeps
    <3>2. ~Fine(s)
      <4>1. CASE Cyclic(ids, d(t))
        BY <2>4, <4>1, MoreCyclic
      <4>2. CASE ~(\A v \in t : deps[v] \subseteq ids)
        BY <2>1, <4>2
      <4> QED
        BY <2>2, <2>5, <4>1, <4>2
    <3>3. f[s].why # "missing" => Cyclic(ids, d(s))
      BY <2>2, <2>4, <2>5, <3>1, MoreCyclic
    <3> QED
      BY <2>2, <2>5, <3>1, <3>2, <3>3
  <2>6. CASE f[t].ok
    <3> DEFINE g == [Bare(index, ids) EXCEPT !.deps = d(t)]
               r == AddDependencies(g, x, deps[x])
    <3>1. f[t].g = g /\ f[s] = r /\ Fine(t)
      BY <2>2, <2>6 DEF WithDeps
    <3>2. DOMAIN g = {"order", "deps"} /\ g.deps = d(t) /\ Vertices(g) = ids
      BY <2>3 DEF Bare, Vertices
    <3>3. IsGraph(g)
      BY <3>1, <3>2 DEF IsGraph, Partly
    <3>4. [g EXCEPT !.deps = d(s)] = [Bare(index, ids) EXCEPT !.deps = d(s)]
      BY DEF Bare
    <3>5. d(s) = [g.deps EXCEPT ![x] = @ \cup deps[x]]
      BY <2>3, <3>2
    <3> HIDE DEF g, d
    <3>6. /\ r.ok \in BOOLEAN
          /\ r.ok <=> deps[x] \subseteq ids /\ ~Cyclic(ids, d(s))
          /\ r.ok => r.g = [g EXCEPT !.deps = d(s)]
          /\ ~r.ok /\ r.why # "missing" => Cyclic(ids, d(s))
      <4> DEFINE e == [g.deps EXCEPT ![x] = @ \cup deps[x]]
      <4>1. ~Cyclic(Vertices(g), g.deps) /\ x \in Vertices(g)
        BY <2>1, <3>1, <3>2
      <4>2. /\ r.ok \in BOOLEAN
            /\ r.ok <=> deps[x] \subseteq Vertices(g) /\ ~Cyclic(Vertices(g), e)
            /\ r.ok => r.g = [g EXCEPT !.deps = e]
            /\ ~r.ok /\ r.why # "missing" => Cyclic(Vertices(g), e)
        BY <3>2, <3>3, <4>1, AddedFacts
      <4> HIDE DEF r
      <4> QED
        BY <3>2, <3>5, <4>2
    <3>7. (\A v \in s : deps[v] \subseteq ids) <=> deps[x] \subseteq ids
      BY <2>1, <3>1
    <3> QED
      BY <3>1, <3>4, <3>6, <3>7
  <2> QED
    BY <2>2, <2>5, <2>6
<1> HIDE DEF T
<1>4. ids \in T
  BY <1>2, <1>3, Growing
<1> QED
  BY <1>4 DEF T, f

\* builder.go:557 and dag.go:212.  Adding the nodes of a definition one by one succeeds
\* exactly if all they depend on is in the definition and no set of them depends on
\* itself, whatever the order they are added in; the graph is then the one declared.
\* A refusal that does not name a missing node is due to a cycle.
THEOREM CyclesAreRefused ==
    ASSUME NEW ids, IsFiniteSet(ids), NEW index, NEW deps, DOMAIN index = ids, DOMAIN deps = ids,
           index = [v \in ids |-> index[v]], deps = [v \in ids |-> deps[v]]
    PROVE  LET r == GraphOf(ids, index, deps) IN
           /\ r.ok <=> (\A v \in ids : deps[v] \subseteq ids) /\ ~Cyclic(ids, deps)
           /\ r.ok => r.g = [order |-> index, deps |-> deps]
           /\ ~r.ok /\ r.why # "missing" => Cyclic(ids, deps)
<1>1. Partly(ids, deps, ids) = deps
  BY DEF Partly
<1>2. [Bare(index, ids) EXCEPT !.deps = deps] = [order |-> index, deps |-> deps]
  <2>1. Bare(index, ids) = [order |-> index, deps |-> [v \in ids |-> {}]]
    BY DEF Bare
  <2> QED
    BY <2>1
<1>3. GraphOf(ids, index, deps) = Fold("deps", ids, index, deps, [ok |-> TRUE, g |-> Bare(index, ids)])[ids]
  BY GraphFolds, VerticesAdded
<1> DEFINE r == Fold("deps", ids, index, deps, [ok |-> TRUE, g |-> Bare(index, ids)])[ids]
<1>4. /\ r.ok <=> (\A v \in ids : deps[v] \subseteq ids) /\ ~Cyclic(ids, Partly(ids, deps, ids))
      /\ r.ok => r.g = [Bare(index, ids) EXCEPT !.deps = Partly(ids, deps, ids)]
      /\ ~r.ok /\ r.why # "missing" => Cyclic(ids, Partly(ids, deps, ids))
  BY DependenciesAdded
<1> HIDE DEF r
<1> QED
  BY <1>1, <1>2, <1>3, <1>4 DEF r

-----------------------------------------------------------------------------
(* The sort.                                                               *)

\* Every vertex was declared at some place.
IsOrdered(g) == \A v \in Vertices(g) : g.order[v] \in Nat

LEMMA PopFacts ==
    ASSUME NEW g, IsOrdered(g), NEW ready \in SUBSET Vertices(g), ready # {}
    PROVE  popReady(g, ready) \in ready /\ \A v \in ready : g.order[popReady(g, ready)] <= g.order[v]
<1> DEFINE T == {g.order[v] : v \in ready}
<1>1. T \in SUBSET Nat /\ T # {}
  BY DEF IsOrdered
<1>2. PICK x \in T : \A y \in T : x <= y
  <2> HIDE DEF T
  <2> QED
    BY <1>1, Smallest
<1>3. \E v \in ready : \A u \in ready : g.order[v] <= g.order[u]
  BY <1>2
<1> QED
  BY <1>3, Zenon DEF popReady

Before(q, i) == {q[k] : k \in 1..(i - 1)}

\* Each element was ready when it was taken, and among the ready ones the first.
Sorted(g, q) ==
    \A i \in 1..Len(q) :
      LET ready == Ready(g.deps, Before(q, i)) IN
      q[i] \in ready /\ \A v \in ready : g.order[q[i]] <= g.order[v]

\* The state of the sort: what was taken was taken once.
Sorting(g, q) ==
    /\ q \in Seq(Vertices(g)) /\ Sorted(g, q)
    /\ Cardinality(Elements(q)) = Len(q)

\* Where nothing is ready although something is left, what is left is a cycle.
LEMMA SomethingReady ==
    ASSUME NEW g, IsGraph(g), ~Cyclic(Vertices(g), g.deps), NEW done,
           ~(Vertices(g) \subseteq done)
    PROVE  Ready(g.deps, done) # {}
<1> DEFINE S == Vertices(g) \ done
<1>1. PICK v \in S : g.deps[v] \cap S = {}
  BY DEF Cyclic
<1>2. g.deps[v] \subseteq done /\ v \in DOMAIN g.deps
  BY <1>1 DEF IsGraph, Vertices
<1> QED
  BY <1>1, <1>2 DEF Ready

LEMMA PlaceStep ==
    ASSUME NEW g, IsGraph(g), IsOrdered(g), NEW q, Sorting(g, q)
    PROVE  /\ Sorting(g, Place(g, q))
           /\ Len(q) < Cardinality(Vertices(g)) /\ ~Cyclic(Vertices(g), g.deps) =>
                Len(Place(g, q)) = Len(q) + 1
<1> DEFINE V == Vertices(g)
           done == Elements(q)
           ready == Ready(g.deps, done)
           v == popReady(g, ready)
           r == Append(q, v)
<1>0. Len(q) \in Nat /\ DOMAIN q = 1..Len(q) /\ q \in Seq(V) /\ done \subseteq V
  BY DEF Sorting, Elements
<1>1. IsFiniteSet(done) /\ Cardinality(done) = Len(q) /\ IsFiniteSet(V)
  BY <1>0, FS_Subset DEF IsGraph, Sorting
<1>2. ready \subseteq V \ done
  BY DEF Ready, Vertices
<1>3. Place(g, q) = IF ready = {} THEN q ELSE r
  BY DEF Place, dependenciesFirst
<1>4. ASSUME ready # {} PROVE Sorting(g, r) /\ Len(r) = Len(q) + 1
  <2>1. v \in ready /\ (\A u \in ready : g.order[v] <= g.order[u]) /\ v \in V /\ v \notin done
    BY <1>2, <1>4, PopFacts
  <2> HIDE DEF v
  <2>2. r \in Seq(V) /\ Len(r) = Len(q) + 1 /\ r[Len(q) + 1] = v /\ \A i \in 1..Len(q) : r[i] = q[i]
    BY <1>0, <2>1
  <2> HIDE DEF r
  <2>3. ASSUME NEW i \in 1..(Len(q) + 1) PROVE Before(r, i) = Before(q, i)
    BY <1>0, <2>2 DEF Before
  <2>4. Before(q, Len(q) + 1) = done
    BY <1>0 DEF Before, Elements
  <2>5. Elements(r) = done \cup {v}
    <3>1. DOMAIN r = 1..(Len(q) + 1)
      BY <1>0, <2>2
    <3> QED
      BY <1>0, <2>2, <3>1 DEF Elements
  <2>6. Cardinality(Elements(r)) = Len(r)
    <3>1. Cardinality(done \cup {v}) = Cardinality(done) + 1
      <4> HIDE DEF done, ready
      <4> QED
        BY <1>1, <2>1, FS_AddElement
    <3> QED
      BY <1>1, <2>2, <2>5, <3>1
  <2>7. Sorted(g, r)
    <3> SUFFICES ASSUME NEW i \in 1..(Len(q) + 1)
                 PROVE  /\ r[i] \in Ready(g.deps, Before(q, i))
                        /\ \A u \in Ready(g.deps, Before(q, i)) : g.order[r[i]] <= g.order[u]
      BY <2>2, <2>3 DEF Sorted
    <3>1. CASE i = Len(q) + 1
      BY <2>1, <2>2, <2>4, <3>1
    <3>2. CASE i # Len(q) + 1
      <4>1. i \in 1..Len(q) /\ r[i] = q[i]
        BY <1>0, <2>2, <3>2
      <4> QED
        BY <4>1 DEF Sorting, Sorted
    <3> QED
      BY <3>1, <3>2
  <2> QED
    BY <2>2, <2>6, <2>7 DEF Sorting
<1>5. ASSUME Len(q) < Cardinality(V), ~Cyclic(V, g.deps) PROVE ready # {}
  <2>1. ~(V \subseteq done)
    <3> SUFFICES ASSUME V \subseteq done PROVE FALSE
      OBVIOUS
    <3>1. done = V
      BY <1>0
    <3> QED
      BY <1>0, <1>1, <1>5, <3>1
  <2> HIDE DEF done
  <2> QED
    BY <1>5, <2>1, SomethingReady
<1> HIDE DEF r, ready
<1> QED
  BY <1>3, <1>4, <1>5

LEMMA SortRuns ==
    ASSUME NEW g, IsGraph(g), IsOrdered(g)
    PROVE  LET N == Cardinality(Vertices(g)) q == Run("sort", g, <<>>)[N] IN
           /\ N \in Nat /\ Sorting(g, q)
           /\ ~Cyclic(Vertices(g), g.deps) => Len(q) = N
<1> DEFINE V == Vertices(g)
           N == Cardinality(V)
           r == Run("sort", g, <<>>)
           T == {n \in 0..N : Sorting(g, r[n]) /\ (~Cyclic(V, g.deps) => Len(r[n]) = n)}
<1>1. N \in Nat /\ r[0] = <<>> /\ \A n \in 1..N : r[n] = Place(g, r[n - 1])
  <2>1. \A s : Round("sort", g, s) = Place(g, s)
    BY DEF Round
  <2>2. IsFiniteSet(V)
    BY DEF IsGraph
  <2> QED
    BY <2>1, <2>2, RunFacts
<1> HIDE DEF r
<1>2. Sorting(g, <<>>) /\ Len(<<>>) = 0
  <2>1. Elements(<<>>) = {}
    BY DEF Elements
  <2> QED
    BY <2>1, FS_EmptySet DEF Sorting, Sorted
<1>3. 0 \in T
  BY <1>1, <1>2
<1>4. ASSUME NEW n \in 1..N, n - 1 \in T PROVE n \in T
  <2> DEFINE q == r[n - 1]
  <2>1. Sorting(g, q) /\ (~Cyclic(V, g.deps) => Len(q) = n - 1) /\ r[n] = Place(g, q)
    BY <1>1, <1>4
  <2> HIDE DEF q
  <2>2. Sorting(g, r[n])
    BY <2>1, PlaceStep
  <2>3. ~Cyclic(V, g.deps) => Len(r[n]) = n
    <3>1. n - 1 < N /\ (n - 1) + 1 = n
      BY <1>1
    <3> QED
      BY <2>1, <3>1, PlaceStep
  <2> QED
    BY <2>2, <2>3
<1> HIDE DEF T
<1>5. N \in T
  <2> HIDE DEF N
  <2>1. 0..N \subseteq T
    BY <1>1, <1>3, <1>4, Rising
  <2> QED
    BY <1>1, <2>1
<1> QED
  BY <1>1, <1>5 DEF T, r

\* What Sorted says of an order of all vertices.
LEMMA SortedFacts ==
    ASSUME NEW g, IsGraph(g), NEW q, Sorting(g, q), Len(q) = Cardinality(Vertices(g))
    PROVE  /\ Permutes(q, Vertices(g)) /\ Follows(q, g.deps)
           /\ \A i, j \in DOMAIN q : i # j => q[i] # q[j]
           /\ \A i, j \in DOMAIN q : i < j /\ g.deps[q[j]] \subseteq Before(q, i) => g.order[q[i]] <= g.order[q[j]]
<1> DEFINE V == Vertices(g)
<1>0. Len(q) \in Nat /\ DOMAIN q = 1..Len(q) /\ Elements(q) \subseteq V /\ \A i \in DOMAIN q : q[i] \in V
  BY DEF Sorting, Elements
<1>1. Elements(q) = V
  <2>1. Cardinality(Elements(q)) = Cardinality(V) /\ IsFiniteSet(V)
    BY DEF Sorting, IsGraph
  <2> QED
    BY <1>0, <2>1, FS_Subset
<1>2. ASSUME NEW i \in DOMAIN q
      PROVE  /\ q[i] \notin Before(q, i) /\ g.deps[q[i]] \subseteq Before(q, i)
             /\ \A v \in V \ Before(q, i) : g.deps[v] \subseteq Before(q, i) => g.order[q[i]] <= g.order[v]
  BY <1>0 DEF Sorting, Sorted, Ready, Vertices
<1>3. ASSUME NEW i \in DOMAIN q, NEW j \in DOMAIN q, i < j PROVE q[i] # q[j]
  <2>1. i \in 1..(j - 1)
    BY <1>0, <1>3
  <2> QED
    BY <1>2, <2>1 DEF Before
<1>4. ASSUME NEW i \in DOMAIN q, NEW j \in DOMAIN q, i # j PROVE q[i] # q[j]
  <2>1. i < j \/ j < i
    BY <1>0, <1>4
  <2> QED
    BY <1>3, <2>1
<1>5. ASSUME NEW i \in DOMAIN q, NEW j \in DOMAIN q, i < j PROVE q[j] \in V \ Before(q, i)
  <2>1. ASSUME NEW k \in 1..(i - 1) PROVE q[k] # q[j]
    BY <1>0, <1>3, <1>5
  <2> QED
    BY <1>0, <2>1 DEF Before
<1>6. Follows(q, g.deps)
  BY <1>2 DEF Follows, Before
<1>7. Permutes(q, V)
  BY <1>1 DEF Permutes
<1> QED
  BY <1>2, <1>4, <1>5, <1>6, <1>7

\* No order follows the dependencies of a cycle.
LEMMA OrderedNotCyclic ==
    ASSUME NEW V, NEW d, NEW q, Len(q) \in Nat, DOMAIN q = 1..Len(q), Elements(q) = V, Follows(q, d)
    PROVE  ~Cyclic(V, d)
<1> SUFFICES ASSUME NEW S \in (SUBSET V) \ {{}}, \A v \in S : d[v] \cap S # {} PROVE FALSE
  BY DEF Cyclic
<1> DEFINE T == {i \in 1..Len(q) : q[i] \in S}
<1>1. T \in SUBSET Nat /\ T # {}
  BY DEF Elements
<1>2. PICK i \in T : \A j \in T : i <= j
  <2> HIDE DEF T
  <2> QED
    BY <1>1, Smallest
<1>3. PICK x \in d[q[i]] : x \in S
  BY <1>2
<1>4. PICK j \in 1..(i - 1) : q[j] = x
  BY <1>2, <1>3 DEF Follows
<1>5. j \in T /\ j < i
  BY <1>2, <1>3, <1>4
<1> QED
  BY <1>2, <1>5

\* Every vertex once, after all it depends on; of two vertices that could have come next
\* the one declared first does.
IsStableOrder(g, order) ==
    /\ order \in Seq(Vertices(g))
    /\ Permutes(order, Vertices(g)) /\ Follows(order, g.deps)
    /\ \A i, j \in DOMAIN order : i # j => order[i] # order[j]
    /\ \A i, j \in DOMAIN order :
         i < j /\ g.deps[order[j]] \subseteq {order[k] : k \in 1..(i - 1)}
         => g.order[order[i]] <= g.order[order[j]]

\* dag.go:323.  The sort fails exactly on a cycle.  What it returns has every vertex once,
\* after all it depends on; and of two vertices that could have come next the one declared
\* first does.
THEOREM SortIsStable ==
    ASSUME NEW g, IsGraph(g), IsOrdered(g)
    PROVE  LET r == TopologicalSort(g) IN
           /\ r.ok <=> ~Cyclic(Vertices(g), g.deps)
           /\ r.ok => IsStableOrder(g, r.order)
<1> DEFINE V == Vertices(g)
           N == Cardinality(V)
           q == Run("sort", g, <<>>)[N]
           r == TopologicalSort(g)
<1>1. r = IF Len(q) = N THEN [ok |-> TRUE, order |-> q] ELSE Fail("cycle")
  BY LoopsRun
<1>2. N \in Nat /\ Sorting(g, q) /\ (~Cyclic(V, g.deps) => Len(q) = N)
  BY SortRuns
<1> HIDE DEF q, r
<1>3. CASE Len(q) = N
  <2>1. r.ok = TRUE /\ r.order = q
    BY <1>1, <1>3
  <2>2. /\ q \in Seq(V) /\ Permutes(q, V) /\ Follows(q, g.deps)
        /\ \A i, j \in DOMAIN q : i # j => q[i] # q[j]
        /\ \A i, j \in DOMAIN q : i < j /\ g.deps[q[j]] \subseteq Before(q, i) => g.order[q[i]] <= g.order[q[j]]
    BY <1>2, <1>3, SortedFacts DEF Sorting
  <2>3. ~Cyclic(V, g.deps)
    <3>1. Len(q) \in Nat /\ DOMAIN q = 1..Len(q) /\ Elements(q) = V
      BY <1>2, <2>2 DEF Sorting, Permutes
    <3> QED
      BY <2>2, <3>1, OrderedNotCyclic
  <2>4. IsStableOrder(g, q)
    BY <2>2 DEF IsStableOrder, Before
  <2> QED
    BY <2>1, <2>3, <2>4 DEF r
<1>4. CASE Len(q) # N
  <2>1. r.ok = FALSE
    BY <1>1, <1>4 DEF Fail
  <2> QED
    BY <1>2, <1>4, <2>1 DEF r
<1> QED
  BY <1>3, <1>4

-----------------------------------------------------------------------------
(* The layers and the waves.                                               *)

\* Of the vertices that are left, what comes last in the sort has no dependent left.
LEMMA SomethingFree ==
    ASSUME NEW g, IsGraph(g), IsOrdered(g), ~Cyclic(Vertices(g), g.deps), NEW done,
           ~(Vertices(g) \subseteq done)
    PROVE  Ready(dependentsFirst(g), done) # {}
<1> DEFINE V == Vertices(g)
           N == Cardinality(V)
           S == V \ done
           q == Run("sort", g, <<>>)[N]
           T == {i \in 1..N : q[i] \in S}
<1>1. N \in Nat /\ Sorting(g, q) /\ Len(q) = N
  BY SortRuns
<1> HIDE DEF q
<1>2. DOMAIN q = 1..N
  BY <1>1 DEF Sorting
<1>3. /\ Elements(q) = V /\ Follows(q, g.deps)
      /\ \A i, j \in DOMAIN q : i # j => q[i] # q[j]
  BY <1>1, SortedFacts DEF Permutes
<1>4. T \in SUBSET (1..N) /\ T # {}
  BY <1>2, <1>3 DEF Elements
<1>5. PICK i \in T : \A j \in T : j <= i
  <2> HIDE DEF T
  <2> QED
    BY <1>1, <1>4, Last
<1>6. q[i] \in S /\ i \in 1..N
  BY <1>5
<1>7. ASSUME NEW u \in V, q[i] \in g.deps[u] PROVE u \in done
  <2>1. PICK j \in 1..N : q[j] = u
    BY <1>2, <1>3 DEF Elements
  <2>2. PICK k \in 1..(j - 1) : q[k] = q[i]
    BY <1>2, <1>3, <1>7, <2>1 DEF Follows
  <2>3. k \in 1..N /\ k < j
    BY <1>1, <2>1, <2>2
  <2>4. k = i
    BY <1>2, <1>3, <1>6, <2>2, <2>3
  <2>5. j \notin T
    BY <1>1, <1>5, <2>1, <2>3, <2>4
  <2> QED
    BY <2>1, <2>5
<1>8. q[i] \in Ready(dependentsFirst(g), done)
  BY <1>6, <1>7 DEF Ready, dependentsFirst
<1> QED
  BY <1>8

\* Each layer is all that was free when it was taken.
Layering(g, q) ==
    /\ q \in Seq(SUBSET Vertices(g))
    /\ \A i \in 1..Len(q) : q[i] # {} /\ q[i] = Ready(dependentsFirst(g), UNION Before(q, i))

LEMMA LayerStep ==
    ASSUME NEW g, IsGraph(g), IsOrdered(g), ~Cyclic(Vertices(g), g.deps), NEW q, Layering(g, q)
    PROVE  LET r == Layer(g, q) done == UNION Elements(q) more == UNION Elements(r) IN
           /\ Layering(g, r)
           /\ done = Vertices(g) => more = Vertices(g)
           /\ done # Vertices(g) => Cardinality(more) > Cardinality(done)
<1> DEFINE V == Vertices(g)
           done == UNION Elements(q)
           ready == Ready(dependentsFirst(g), done)
           a == Append(q, ready)
           r == Layer(g, q)
<1>0. q \in Seq(SUBSET V) /\ Len(q) \in Nat /\ DOMAIN q = 1..Len(q)
  BY DEF Layering
<1>1. done \subseteq V /\ ready \subseteq V \ done
  BY <1>0 DEF Elements, Ready, dependentsFirst
<1>2. r = IF ready = {} THEN q ELSE a
  BY DEF Layer
<1>3. CASE ready = {}
  <2>1. V \subseteq done
    <3> HIDE DEF done
    <3> QED
      BY <1>3, SomethingFree
  <2>2. done = V
    BY <1>1, <2>1
  <2> HIDE DEF ready, r, done
  <2> QED
    BY <1>2, <1>3, <2>2 DEF done, r
<1>4. CASE ready # {}
  <2>1. r = a
    BY <1>2, <1>4
  <2> HIDE DEF ready
  <2>2. a \in Seq(SUBSET V) /\ Len(a) = Len(q) + 1 /\ a[Len(q) + 1] = ready /\ \A i \in 1..Len(q) : a[i] = q[i]
    BY <1>0, <1>1
  <2> HIDE DEF a
  <2>3. ASSUME NEW i \in 1..(Len(q) + 1) PROVE Before(a, i) = Before(q, i)
    BY <1>0, <2>2 DEF Before
  <2>4. Before(q, Len(q) + 1) = Elements(q)
    BY <1>0 DEF Before, Elements
  <2>5. Elements(a) = Elements(q) \cup {ready}
    <3>1. DOMAIN a = 1..(Len(q) + 1)
      BY <1>0, <2>2
    <3> QED
      BY <1>0, <2>2, <3>1 DEF Elements
  <2>6. UNION Elements(a) = done \cup ready
    BY <2>5
  <2>7. Layering(g, a)
    <3> SUFFICES ASSUME NEW i \in 1..(Len(q) + 1)
                 PROVE  a[i] # {} /\ a[i] = Ready(dependentsFirst(g), UNION Before(q, i))
      BY <2>2, <2>3 DEF Layering
    <3>1. CASE i = Len(q) + 1
      BY <1>4, <2>2, <2>4, <3>1 DEF ready
    <3>2. CASE i # Len(q) + 1
      <4>1. i \in 1..Len(q) /\ a[i] = q[i]
        BY <1>0, <2>2, <3>2
      <4> QED
        BY <4>1 DEF Layering
    <3> QED
      BY <3>1, <3>2
  <2> HIDE DEF done
  <2>8. done # V /\ Cardinality(done \cup ready) > Cardinality(done)
    <3>1. done \cup ready \subseteq V /\ done \cup ready # done /\ done \subseteq done \cup ready
      BY <1>1, <1>4
    <3>2. IsFiniteSet(done \cup ready) /\ IsFiniteSet(done)
      BY <3>1, <1>1, FS_Subset DEF IsGraph
    <3>3. Cardinality(done) <= Cardinality(done \cup ready) /\ Cardinality(done) # Cardinality(done \cup ready)
      BY <3>1, <3>2, FS_Subset
    <3>4. Cardinality(done) \in Nat /\ Cardinality(done \cup ready) \in Nat
      BY <3>2, FS_CardinalityType
    <3> QED
      BY <1>1, <1>4, <3>3, <3>4
  <2> QED
    BY <2>1, <2>6, <2>7, <2>8 DEF done, r
<1> QED
  BY <1>3, <1>4

LEMMA LayersRun ==
    ASSUME NEW g, IsGraph(g), IsOrdered(g), ~Cyclic(Vertices(g), g.deps)
    PROVE  LET q == Run("layers", g, <<>>)[Cardinality(Vertices(g))] IN
           Layering(g, q) /\ UNION Elements(q) = Vertices(g)
<1> DEFINE V == Vertices(g)
           N == Cardinality(V)
           r == Run("layers", g, <<>>)
           all(n) == UNION Elements(r[n])
           T == {n \in 0..N : Layering(g, r[n]) /\ (all(n) = V \/ Cardinality(all(n)) >= n)}
<1>1. N \in Nat /\ r[0] = <<>> /\ IsFiniteSet(V) /\ \A n \in 1..N : r[n] = Layer(g, r[n - 1])
  <2>1. \A s : Round("layers", g, s) = Layer(g, s)
    BY DEF Round
  <2>2. IsFiniteSet(V)
    BY DEF IsGraph
  <2> QED
    BY <2>1, <2>2, RunFacts
<1> HIDE DEF r
<1>2. Layering(g, <<>>) /\ UNION Elements(<<>>) = {}
  BY DEF Layering, Elements
<1>3. 0 \in T
  <2>1. all(0) = {} /\ Cardinality({}) = 0
    BY <1>1, <1>2, FS_EmptySet
  <2>2. Layering(g, r[0]) /\ 0 \in 0..N
    BY <1>1, <1>2
  <2> HIDE DEF all, N
  <2>3. Cardinality(all(0)) >= 0
    BY <2>1
  <2> QED
    BY <2>2, <2>3
<1>4. ASSUME NEW n \in 0..N, Layering(g, r[n]) PROVE all(n) \subseteq V /\ Cardinality(all(n)) \in Nat
  <2>1. all(n) \subseteq V
    BY <1>4 DEF Layering, Elements
  <2> QED
    BY <1>1, <2>1, FS_Subset, FS_CardinalityType
<1>5. ASSUME NEW n \in 1..N, n - 1 \in T PROVE n \in T
  <2> DEFINE q == r[n - 1]
             done == UNION Elements(q)
             more == UNION Elements(r[n])
  <2>1. Layering(g, q) /\ (done = V \/ Cardinality(done) >= n - 1) /\ r[n] = Layer(g, q)
    BY <1>1, <1>5
  <2> HIDE DEF q
  <2>2. /\ Layering(g, r[n]) /\ (done = V => more = V)
        /\ done # V => Cardinality(more) > Cardinality(done)
    BY <2>1, LayerStep
  <2>3. Cardinality(done) \in Nat /\ Cardinality(more) \in Nat
    <3>1. n - 1 \in 0..N /\ n \in 0..N
      BY <1>1
    <3> QED
      BY <1>4, <2>1, <2>2, <3>1 DEF q
  <2> HIDE DEF done, more
  <2>4. more = V \/ Cardinality(more) >= n
    BY <2>1, <2>2, <2>3
  <2> QED
    BY <2>2, <2>4 DEF more
<1> HIDE DEF T
<1>6. N \in T
  <2> HIDE DEF N
  <2>1. 0..N \subseteq T
    BY <1>1, <1>3, <1>5, Rising
  <2> QED
    BY <1>1, <2>1
<1>7. Layering(g, r[N]) /\ (all(N) = V \/ Cardinality(all(N)) >= N)
  BY <1>6 DEF T
<1>8. all(N) \subseteq V /\ Cardinality(all(N)) \in Nat
  <2>1. N \in 0..N
    BY <1>1
  <2> HIDE DEF all, N
  <2> QED
    BY <1>4, <1>7, <2>1
<1>9. all(N) = V
  <2> DEFINE m == all(N)
  <2> HIDE DEF m
  <2>1. CASE Cardinality(m) >= N
    <3>1. m \subseteq V /\ Cardinality(m) <= N /\ Cardinality(m) \in Nat
      BY <1>1, <1>8, FS_Subset DEF m
    <3>2. Cardinality(m) = N
      BY <1>1, <2>1, <3>1
    <3> QED
      BY <1>1, <3>1, <3>2, FS_Subset DEF m
  <2> QED
    BY <1>7, <2>1 DEF m
<1> QED
  BY <1>7, <1>9 DEF r

\* graph.go:56.  The wave of a vertex is above those of all it depends on, and below the
\* last one only because a dependent of it is in the very next wave: deletion, which goes
\* through the waves from the last to the first, removes dependents first and waits for
\* no wave that it need not wait for.
THEOREM WavesAreExact ==
    ASSUME NEW g, IsGraph(g), IsOrdered(g), ~Cyclic(Vertices(g), g.deps)
    PROVE  LET r == applyOrdersForDAG(g) V == Vertices(g) IN
           /\ r.ok /\ \A v \in V : r.orders[v] \in Nat \ {0}
           /\ \A v \in V :
                /\ \A u \in g.deps[v] : r.orders[u] < r.orders[v]
                /\ \/ \A u \in V : r.orders[u] <= r.orders[v]
                   \/ \E u \in V : v \in g.deps[u] /\ r.orders[u] = r.orders[v] + 1
<1> DEFINE V == Vertices(g)
           q == Run("layers", g, <<>>)[Cardinality(V)]
           r == applyOrdersForDAG(g)
           at(v) == CHOOSE i \in DOMAIN q : v \in q[i]
           users == dependentsFirst(g)
<1>1. Layering(g, q) /\ UNION Elements(q) = V
  BY LayersRun
<1>2. ReverseTopologicalLayers(g) = [ok |-> TRUE, layers |-> q]
  <2>1. ReverseTopologicalLayers(g) = IF UNION Elements(q) = V THEN [ok |-> TRUE, layers |-> q] ELSE Fail("cycle")
    BY LoopsRun
  <2> HIDE DEF q
  <2> QED
    BY <1>1, <2>1
<1> HIDE DEF q
<1>3. r.ok /\ \A v \in V : r.orders[v] = Len(q) - at(v) + 1
  <2>1. r = [ok |-> TRUE, orders |-> [v \in V |-> Len(q) - at(v) + 1]]
    BY <1>2 DEF applyOrdersForDAG, Then
  <2> HIDE DEF r, at
  <2> QED
    BY <2>1
<1>4. Len(q) \in Nat /\ DOMAIN q = 1..Len(q)
  BY <1>1 DEF Layering
<1>5. ASSUME NEW v \in V PROVE at(v) \in 1..Len(q) /\ v \in q[at(v)]
  <2>1. \E i \in DOMAIN q : v \in q[i]
    BY <1>1 DEF Elements
  <2> QED
    BY <1>4, <2>1
<1>6. ASSUME NEW v \in V, NEW i \in 1..Len(q)
      PROVE  v \in q[i] <=> /\ \A k \in 1..(i - 1) : v \notin q[k]
                            /\ \A u \in users[v] : \E k \in 1..(i - 1) : u \in q[k]
  <2>1. q[i] = Ready(users, UNION Before(q, i)) /\ DOMAIN users = V
    BY <1>1 DEF Layering, dependentsFirst
  <2>2. \A x : x \in UNION Before(q, i) <=> \E k \in 1..(i - 1) : x \in q[k]
    BY DEF Before
  <2> HIDE DEF users
  <2> QED
    BY <2>1, <2>2 DEF Ready
<1>7. ASSUME NEW v \in V, NEW i \in 1..Len(q), v \in q[i] PROVE at(v) = i
  <2> DEFINE j == at(v)
  <2>1. j \in 1..Len(q) /\ v \in q[j]
    BY <1>5
  <2> HIDE DEF j
  <2>2. ~(j < i)
    <3>1. j < i => j \in 1..(i - 1)
      BY <2>1
    <3> QED
      BY <1>6, <1>7, <2>1, <3>1
  <2>3. ~(i < j)
    <3>1. i < j => i \in 1..(j - 1)
      BY <2>1
    <3> QED
      BY <1>6, <1>7, <2>1, <3>1
  <2> QED
    BY <2>1, <2>2, <2>3 DEF j
<1> HIDE DEF at, r
<1>8. ASSUME NEW v \in V, NEW u \in users[v] PROVE u \in V /\ at(u) < at(v)
  <2>1. u \in V
    BY DEF dependentsFirst
  <2>2. PICK k \in 1..(at(v) - 1) : u \in q[k]
    BY <1>5, <1>6
  <2>3. k \in 1..Len(q) /\ k < at(v)
    BY <1>4, <1>5, <2>2
  <2> QED
    BY <1>7, <2>1, <2>2, <2>3
<1>9. \A v \in V : r.orders[v] \in Nat \ {0}
  BY <1>3, <1>4, <1>5
<1>10. ASSUME NEW v \in V, NEW u \in g.deps[v] PROVE r.orders[u] < r.orders[v]
  <2>1. u \in V /\ v \in users[u]
    BY DEF IsGraph, dependentsFirst
  <2>2. at(v) < at(u) /\ at(u) \in 1..Len(q) /\ at(v) \in 1..Len(q)
    BY <1>5, <1>8, <2>1
  <2> QED
    BY <1>3, <1>4, <2>1, <2>2
<1>11. ASSUME NEW v \in V, at(v) = 1 PROVE \A u \in V : r.orders[u] <= r.orders[v]
  BY <1>3, <1>4, <1>5, <1>11
<1>12. ASSUME NEW v \in V, at(v) # 1 PROVE \E u \in V : v \in g.deps[u] /\ r.orders[u] = r.orders[v] + 1
  <2> DEFINE i == at(v)
  <2>1. i \in 1..Len(q) /\ i - 1 \in 1..Len(q) /\ v \in q[i]
    BY <1>4, <1>5, <1>12
  <2>2. v \notin q[i - 1]
    BY <1>7, <2>1
  <2> HIDE DEF i
  <2>3. \A k \in 1..((i - 1) - 1) : v \notin q[k] /\ k \in 1..(i - 1)
    BY <1>6, <2>1
  <2>4. PICK u \in users[v] : ~ \E k \in 1..((i - 1) - 1) : u \in q[k]
    BY <1>6, <2>1, <2>2, <2>3
  <2>5. PICK k \in 1..(i - 1) : u \in q[k]
    BY <1>6, <2>1, <2>4
  <2>6. k = i - 1
    BY <2>1, <2>4, <2>5
  <2>7. u \in V /\ v \in g.deps[u]
    BY <2>4 DEF dependentsFirst
  <2>8. at(u) = i - 1
    BY <1>7, <2>1, <2>5, <2>6, <2>7
  <2>9. r.orders[u] = Len(q) - (i - 1) + 1 /\ r.orders[v] = Len(q) - i + 1
    BY <1>3, <2>7, <2>8 DEF i
  <2>10. r.orders[u] = r.orders[v] + 1
    BY <1>4, <2>1, <2>9
  <2> QED
    BY <2>7, <2>10
<1> QED
  BY <1>3, <1>9, <1>10, <1>11, <1>12 DEF r

-----------------------------------------------------------------------------
(* The builder.                                                            *)

\* What the inspector finds in one expression.
LEMMA Extracted ==
    ASSUME NEW ids, NEW e, NEW iterators, SchemaVarName \notin ids,
           extractDependencies(ids, e, iterators).ok
    PROVE  /\ extractDependencies(ids, e, iterators).deps \cap ids = e.refs \cap ids
           /\ extractDependencies(ids, e, iterators).iterators \cap ids = {}
<1> DEFINE unknown == e.refs \ Known(ids)
<1>1. /\ ~(e.omit /\ ~CELOmitFunction) /\ RuntimeVarName \notin e.refs /\ unknown \subseteq iterators
  BY DEF extractDependencies, Fail
<1>2. extractDependencies(ids, e, iterators) =
        [ok |-> TRUE, deps |-> (e.refs \cap Known(ids)) \ {SchemaVarName}, iterators |-> unknown]
  BY <1>1 DEF extractDependencies
<1>3. ids \subseteq Known(ids)
  BY DEF Known
<1> QED
  BY <1>2, <1>3

\* What is found in several is what is found in each.
LEMMA Collected ==
    ASSUME NEW ids, SchemaVarName \notin ids, NEW X, NEW expr, NEW iterators, NEW of,
           of = [x \in X |-> extractDependencies(ids, expr[x], iterators)],
           \A x \in X : of[x].ok
    PROVE  DepsOf(of) \cap ids = (UNION {expr[x].refs : x \in X}) \cap ids
<1>1. \A x \in X : of[x].deps \cap ids = expr[x].refs \cap ids
  BY Extracted
<1>2. DepsOf(of) = UNION {of[x].deps : x \in X}
  BY DEF DepsOf
<1> HIDE DEF DepsOf
<1> QED
  BY <1>1, <1>2

\* builder.go:592.  The dependencies of a node among the resources are the resources it
\* names, whichever part of it names them.
LEMMA NodeNamed ==
    ASSUME NEW ids, NEW r, SchemaVarName \notin ids, IteratorNames(r) \cap ids = {},
           NodeDependencies(ids, r).ok
    PROVE  NodeDependencies(ids, r).deps \cap ids = Named(r) \cap ids
<1> DEFINE t == extractTemplateDependencies(ids, r)
           f == extractForEachDependencies(ids, r)
           c == extractConditionDependencies(ids, r.includeWhen)
           F == UNION {x.expr.refs : x \in r.fields}
           E == UNION {r.forEach[i].expr.refs : i \in DOMAIN r.forEach}
           C == UNION {e.refs : e \in r.includeWhen}
<1>1. /\ t.ok /\ f.ok /\ c.ok
      /\ NodeDependencies(ids, r).deps = t.deps \cup f.deps \cup c.deps
  BY DEF NodeDependencies, Fail
<1>2. t.deps \cap ids = F \cap ids
  <2> DEFINE of == [x \in r.fields |-> extractDependencies(ids, x.expr, IteratorNames(r))]
  <2>1. AllOk(of) /\ t.deps = DepsOf(of)
    BY <1>1 DEF extractTemplateDependencies, Fail
  <2>2. \A x \in r.fields : of[x].ok
    BY <2>1 DEF AllOk
  <2> DEFINE expr == [x \in r.fields |-> x.expr]
  <2>3. of = [x \in r.fields |-> extractDependencies(ids, expr[x], IteratorNames(r))]
    OBVIOUS
  <2>4. F = UNION {expr[x].refs : x \in r.fields}
    OBVIOUS
  <2> HIDE DEF of, expr
  <2>5. DepsOf(of) \cap ids = (UNION {expr[x].refs : x \in r.fields}) \cap ids
    BY <2>2, <2>3, Collected
  <2> QED
    BY <2>1, <2>4, <2>5
<1>3. f.deps \cap ids = E \cap ids
  <2> DEFINE of == [i \in DOMAIN r.forEach |->
                       extractDependencies(ids, r.forEach[i].expr, IteratorNames(r))]
  <2>1. (\A i \in DOMAIN of : of[i].ok) /\ f.deps = DepsOf(of)
    BY <1>1 DEF extractForEachDependencies, Fail
  <2>2. \A i \in DOMAIN r.forEach : of[i].ok
    BY <2>1
  <2> DEFINE expr == [i \in DOMAIN r.forEach |-> r.forEach[i].expr]
  <2>3. of = [i \in DOMAIN r.forEach |-> extractDependencies(ids, expr[i], IteratorNames(r))]
    OBVIOUS
  <2>4. E = UNION {expr[i].refs : i \in DOMAIN r.forEach}
    OBVIOUS
  <2> HIDE DEF of, expr
  <2>5. DepsOf(of) \cap ids = (UNION {expr[i].refs : i \in DOMAIN r.forEach}) \cap ids
    BY <2>2, <2>3, Collected
  <2> QED
    BY <2>1, <2>4, <2>5
<1>4. c.deps \cap ids = C \cap ids
  <2> DEFINE of == [e \in r.includeWhen |-> extractDependencies(ids, e, {})]
  <2>1. AllOk(of) /\ c.deps = DepsOf(of)
    BY <1>1 DEF extractConditionDependencies, Fail
  <2>2. \A e \in r.includeWhen : of[e].ok
    BY <2>1 DEF AllOk
  <2> DEFINE expr == [e \in r.includeWhen |-> e]
             none == {}
             when == r.includeWhen
  <2>3. of = [e \in when |-> extractDependencies(ids, expr[e], none)]
    OBVIOUS
  <2>4. C = UNION {expr[e].refs : e \in r.includeWhen}
    OBVIOUS
  <2> HIDE DEF of, expr, none
  <2>5. DepsOf(of) \cap ids = (UNION {expr[e].refs : e \in when}) \cap ids
    <3> HIDE DEF when
    <3> QED
      BY <2>2, <2>3, Collected DEF when
  <2> QED
    BY <2>1, <2>4, <2>5
<1>5. Named(r) = (F \ IteratorNames(r)) \cup E \cup C
  BY Zenon DEF Named
<1> HIDE DEF t, f, c, F, E, C
<1> QED
  BY <1>1, <1>2, <1>3, <1>4, <1>5

\* What the validation leaves: resources of distinct and finitely many names, none of them
\* that of an iterator or of the schema.
LEMMA Validated ==
    ASSUME NEW Resources, NEW rgd, rgd.resources \in Seq(Resources),
           validateResourceGraphDefinition(rgd)
    PROVE  /\ IsFiniteSet(ResourceIDs(rgd)) /\ SchemaVarName \notin ResourceIDs(rgd)
           /\ IndexOf(rgd) \in [ResourceIDs(rgd) -> Nat]
           /\ \A a, b \in ResourceIDs(rgd) : a # b => IndexOf(rgd)[a] # IndexOf(rgd)[b]
           /\ \A id \in ResourceIDs(rgd) : IteratorNames(ByID(rgd)[id]) \cap ResourceIDs(rgd) = {}
<1> DEFINE q == rgd.resources
           ids == ResourceIDs(rgd)
           at(id) == CHOOSE i \in DOMAIN q : q[i].id = id
<1>1. Len(q) \in Nat /\ DOMAIN q = 1..Len(q) /\ ids = {q[i].id : i \in DOMAIN q}
  BY DEF ResourceIDs
<1>2. IsFiniteSet(ids)
  <2>1. IsFiniteSet(DOMAIN q)
    BY <1>1, FS_Interval
  <2> DEFINE name == [i \in DOMAIN q |-> q[i].id]
  <2>2. name \in Surjection(DOMAIN q, ids)
    BY <1>1 DEF Surjection
  <2> QED
    BY <2>1, <2>2, FS_Surjection
<1>3. \A id \in ids : at(id) \in DOMAIN q /\ q[at(id)].id = id
  BY <1>1
<1>4. IndexOf(rgd) = [id \in ids |-> at(id)] /\ ByID(rgd) = [id \in ids |-> q[at(id)]]
  BY DEF IndexOf, ByID
<1>5. SchemaVarName \notin ids
  <2>1. \A i \in DOMAIN q : q[i].id \notin reservedKeyWords
    BY DEF validateResourceGraphDefinition, validateResourceIDs
  <2>2. SchemaVarName \in reservedKeyWords
    BY DEF SchemaVarName, reservedKeyWords
  <2> QED
    BY <1>1, <2>1, <2>2
<1>6. \A i \in DOMAIN q : IteratorNames(q[i]) \cap ids = {}
  BY DEF validateResourceGraphDefinition, validateForEachDimensions
<1> HIDE DEF q, ids, at
<1>7. IndexOf(rgd) \in [ids -> Nat]
  BY <1>1, <1>3, <1>4
<1>8. \A a, b \in ids : a # b => IndexOf(rgd)[a] # IndexOf(rgd)[b]
  BY <1>3, <1>4
<1>9. \A id \in ids : IteratorNames(ByID(rgd)[id]) \cap ids = {}
  BY <1>3, <1>4, <1>6
<1> QED
  BY <1>2, <1>5, <1>7, <1>8, <1>9 DEF ids

\* The sort and the waves of the references of a definition.
LEMMA ReferencesOrdered ==
    ASSUME NEW Resources, NEW rgd, rgd.resources \in Seq(Resources),
           validateResourceGraphDefinition(rgd), NEW g,
           g = [order |-> IndexOf(rgd), deps |-> ResourceReferences(rgd)],
           ~Cyclic(ResourceIDs(rgd), ResourceReferences(rgd))
    PROVE  /\ TopologicalSort(g).ok /\ OrderIsExact(rgd, TopologicalSort(g).order)
           /\ WavesAreTight(rgd, applyOrdersForDAG(g).orders)
<1> DEFINE ids == ResourceIDs(rgd)
           refs == ResourceReferences(rgd)
           index == IndexOf(rgd)
           q == TopologicalSort(g).order
           w == applyOrdersForDAG(g).orders
<1>1. /\ IsFiniteSet(ids) /\ index \in [ids -> Nat]
      /\ \A a, b \in ids : a # b => index[a] # index[b]
  BY Validated
<1>2. refs \in [ids -> SUBSET ids]
  BY DEF ResourceReferences
<1> HIDE DEF ids, refs, index
<1>3. Vertices(g) = ids /\ g.deps = refs /\ g.order = index
  BY <1>2 DEF Vertices, refs, index
<1>4. IsGraph(g) /\ IsOrdered(g)
  BY <1>1, <1>2, <1>3 DEF IsGraph, IsOrdered
<1>5. /\ TopologicalSort(g).ok /\ Permutes(q, ids) /\ Follows(q, refs)
      /\ q \in Seq(ids) /\ \A i, j \in DOMAIN q : i # j => q[i] # q[j]
      /\ \A i, j \in DOMAIN q : i < j /\ refs[q[j]] \subseteq {q[k] : k \in 1..(i - 1)}
                                => index[q[i]] <= index[q[j]]
  <2>1. ~Cyclic(Vertices(g), g.deps)
    BY <1>3 DEF ids, refs
  <2>2. TopologicalSort(g).ok
    BY <1>4, <2>1, SortIsStable, Zenon
  <2>3. IsStableOrder(g, q)
    BY <1>4, <2>2, SortIsStable, Zenon
  <2> HIDE DEF q
  <2> QED
    BY <1>3, <2>2, <2>3 DEF IsStableOrder
<1>6. OrderIsExact(rgd, q)
  <2> SUFFICES ASSUME NEW i \in DOMAIN q, NEW j \in DOMAIN q, i < j,
                      refs[q[j]] \subseteq {q[k] : k \in 1..(i - 1)}
               PROVE  index[q[i]] < index[q[j]]
    BY <1>5 DEF OrderIsExact, ids, refs, index
  <2>1. q[i] \in ids /\ q[j] \in ids
    BY <1>5 DEF Permutes, Elements
  <2>2. i # j
    <3>1. DOMAIN q = 1..Len(q) /\ Len(q) \in Nat
      BY <1>5
    <3> QED
      BY <3>1
  <2>3. index[q[i]] # index[q[j]] /\ index[q[i]] <= index[q[j]]
    BY <1>1, <1>5, <2>1, <2>2
  <2> QED
    BY <1>1, <2>1, <2>3
<1>7. WavesAreTight(rgd, w)
  <2>1. \A v \in ids : w[v] \in Nat
    BY <1>3, <1>4, WavesAreExact DEF ids, refs
  <2>2. \A v \in ids :
          /\ \A u \in refs[v] : w[u] < w[v]
          /\ \/ \A u \in ids : w[u] <= w[v]
             \/ \E u \in ids : v \in refs[u] /\ w[u] = w[v] + 1
    BY <1>3, <1>4, WavesAreExact DEF ids, refs
  <2> HIDE DEF w
  <2> SUFFICES ASSUME NEW id \in ids
               PROVE  LET users == {u \in ids : id \in refs[u]} IN
                      /\ \A u \in users : w[u] > w[id]
                      /\ \/ \A other \in ids : w[other] <= w[id]
                         \/ \E u \in users : w[u] = w[id] + 1
    BY DEF WavesAreTight, ids, refs
  <2>3. ASSUME NEW u \in ids, id \in refs[u] PROVE w[u] > w[id]
    BY <2>1, <2>2, <2>3
  <2> QED
    BY <2>2, <2>3
<1> QED
  BY <1>5, <1>6, <1>7

\* builder.go:141.  For every definition, whatever its resources name: it is refused as
\* cyclic only if resources name one another in a circle, and it is never accepted then.
\* Of an accepted definition the dependencies are the resources named in templates,
\* forEach and includeWhen, the order is the stable topological order of these, and the
\* waves are as tight as they allow.  This is what Definitions!OrdersAreExact says of the
\* definitions of a run.
THEOREM BuilderIsExact ==
    ASSUME NEW Resources, NEW rgd, rgd.resources \in Seq(Resources)
    PROVE  IsExact(rgd, NewResourceGraphDefinition(rgd))
<1> DEFINE ids == ResourceIDs(rgd)
           refs == ResourceReferences(rgd)
           result == NewResourceGraphDefinition(rgd)
           rs == {rgd.resources[i] : i \in DOMAIN rgd.resources}
           of == [id \in ids |-> NodeDependencies(ids, ByID(rgd)[id])]
           deps == [id \in ids |-> of[id].deps]
           dag == GraphOf(ids, IndexOf(rgd), deps)
           sort == TopologicalSort(dag.g)
<1>1. CASE ~validateResourceGraphDefinition(rgd)
  <2>1. result = Fail("naming")
    BY <1>1 DEF NewResourceGraphDefinition
  <2> HIDE DEF result
  <2> QED
    BY <2>1 DEF IsExact, Fail, result
<1>2. CASE /\ validateResourceGraphDefinition(rgd)
           /\ ~(\A i \in DOMAIN rgd.resources : rgResourceSpec(rgd.resources[i]))
  <2>1. result = Fail("shape")
    BY <1>2 DEF NewResourceGraphDefinition
  <2> HIDE DEF result
  <2> QED
    BY <2>1 DEF IsExact, Fail, result
<1>3. CASE /\ validateResourceGraphDefinition(rgd)
           /\ \A i \in DOMAIN rgd.resources : rgResourceSpec(rgd.resources[i])
  <2>1. result = compileSource(rgd)
    BY <1>3 DEF NewResourceGraphDefinition
  <2>2. CASE \E r \in rs : ~buildResourceNode(r, Namespaced(rgd))
    <3>1. result = Fail("resource")
      BY <2>1, <2>2 DEF compileSource
    <3> HIDE DEF result
    <3> QED
      BY <3>1 DEF IsExact, Fail, result
  <2>3. CASE /\ ~\E r \in rs : ~buildResourceNode(r, Namespaced(rgd))
             /\ ~AllOk(of)
    <3>1. buildDependencyGraph(rgd) = Fail("dependencies")
      BY <2>3 DEF buildDependencyGraph
    <3>2. result = Fail("dependencies")
      BY <2>1, <2>3, <3>1 DEF compileSource, Then, Fail
    <3> HIDE DEF result
    <3> QED
      BY <3>2 DEF IsExact, Fail, result
  <2>4. CASE /\ ~\E r \in rs : ~buildResourceNode(r, Namespaced(rgd))
             /\ AllOk(of)
    <3>1. buildDependencyGraph(rgd) = dag
      BY <2>4 DEF buildDependencyGraph
    <3>2. /\ DOMAIN deps = ids /\ deps = [v \in ids |-> deps[v]]
          /\ \A id \in ids : deps[id] \cap ids = refs[id]
      <4>1. ASSUME NEW id \in ids PROVE deps[id] \cap ids = Named(ByID(rgd)[id]) \cap ids
        <5>1. NodeDependencies(ids, ByID(rgd)[id]).ok
          BY <2>4 DEF AllOk
        <5>2. SchemaVarName \notin ids /\ IteratorNames(ByID(rgd)[id]) \cap ids = {}
          BY <1>3, Validated
        <5>3. NodeDependencies(ids, ByID(rgd)[id]).deps \cap ids = Named(ByID(rgd)[id]) \cap ids
          BY <5>1, <5>2, NodeNamed
        <5> QED
          BY <5>3
      <4> QED
        BY <4>1 DEF ResourceReferences
    <3>3. IsFiniteSet(ids) /\ IndexOf(rgd) \in [ids -> Nat] /\ DOMAIN refs = ids
      BY <1>3, Validated DEF ResourceReferences
    <3> HIDE DEF ids, refs, of, deps
    <3>4. /\ dag.ok <=> (\A v \in ids : deps[v] \subseteq ids) /\ ~Cyclic(ids, deps)
          /\ dag.ok => dag.g = [order |-> IndexOf(rgd), deps |-> deps]
          /\ ~dag.ok /\ dag.why # "missing" => Cyclic(ids, deps)
      BY <3>2, <3>3, CyclesAreRefused
    <3>5. Cyclic(ids, deps) => Cyclic(ids, refs)
      <4> SUFFICES ASSUME NEW S \in (SUBSET ids) \ {{}}, \A v \in S : deps[v] \cap S # {}
                   PROVE  \A v \in S : refs[v] \cap S # {}
        BY DEF Cyclic
      <4> QED
        BY <3>2
    <3> HIDE DEF dag
    <3>6. CASE ~dag.ok
      <4>1. result = dag
        BY <2>1, <2>4, <3>1, <3>6 DEF compileSource, Then
      <4> HIDE DEF result
      <4> QED
        BY <3>4, <3>5, <3>6, <4>1 DEF IsExact, ids, refs, result
    <3>7. CASE dag.ok
      <4>1. deps = refs
        <5>1. ASSUME NEW v \in ids PROVE deps[v] = refs[v]
          <6>1. deps[v] \subseteq ids /\ deps[v] \cap ids = refs[v]
            BY <3>2, <3>4, <3>7
          <6>2. deps[v] \cap ids = deps[v]
            BY <6>1
          <6> QED
            BY <6>1, <6>2
        <5>2. refs = [v \in ids |-> refs[v]]
          BY DEF refs, ids, ResourceReferences
        <5> QED
          BY <3>2, <5>1, <5>2
      <4>2. dag.g = [order |-> IndexOf(rgd), deps |-> refs] /\ ~Cyclic(ids, refs)
        BY <3>4, <3>7, <4>1
      <4>3. /\ sort.ok /\ OrderIsExact(rgd, sort.order)
            /\ WavesAreTight(rgd, applyOrdersForDAG(dag.g).orders)
        BY <1>3, <4>2, ReferencesOrdered DEF ids, refs
      <4> HIDE DEF sort
      <4>4. \/ result.ok = FALSE /\ result.why \in {"identity", "expression", "status"}
            \/ result = [ok |-> TRUE, deps |-> dag.g.deps, order |-> sort.order,
                         applyOrders |-> applyOrdersForDAG(dag.g).orders,
                         instanceDeps |-> buildInstanceNode(rgd).deps]
        BY <2>1, <2>4, <3>1, <3>7, <4>3 DEF compileSource, Then, Fail, buildInstanceNode, sort
      <4> HIDE DEF result
      <4>5. CASE result.ok = FALSE /\ result.why \in {"identity", "expression", "status"}
        BY <4>5 DEF IsExact, result
      <4>6. CASE result = [ok |-> TRUE, deps |-> dag.g.deps, order |-> sort.order,
                           applyOrders |-> applyOrdersForDAG(dag.g).orders,
                           instanceDeps |-> buildInstanceNode(rgd).deps]
        <5>1. /\ result.ok = TRUE /\ result.deps = refs /\ result.order = sort.order
              /\ result.applyOrders = applyOrdersForDAG(dag.g).orders
          BY <4>2, <4>6
        <5> QED
          BY <4>2, <4>3, <5>1 DEF IsExact, ids, refs, result
      <4> QED
        BY <4>4, <4>5, <4>6
    <3> QED
      BY <3>6, <3>7
  <2> QED
    BY <2>2, <2>3, <2>4
<1> QED
  BY <1>1, <1>2, <1>3
=============================================================================
