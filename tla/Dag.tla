-------------------------------- MODULE Dag --------------------------------
(***************************************************************************)
(* pkg/dag/dag.go: the directed graph of dependencies the graph builder,   *)
(* the Graph compiler and SimpleSchema's custom types are ordered with.    *)
(*                                                                         *)
(* A graph is a record of two functions over its vertices: the order the   *)
(* vertex was declared in and the set of vertices it depends on.  The      *)
(* operations are pure: each returns a record with "ok", and on success    *)
(* the new graph or the order computed.  The identity of the cycle an      *)
(* error reports is left out: it is only printed.                          *)
(***************************************************************************)
EXTENDS Integers, FiniteSets, Sequences, FiniteSetsExt

Fail(why) == [ok |-> FALSE, why |-> why]

(* The next step of a computation that stops at its first error. *)
Then(r, next(_)) == IF r.ok THEN next(r) ELSE r

NewDirectedAcyclicGraph == [order |-> <<>>, deps |-> <<>>]

Vertices(g) == DOMAIN g.deps

(* A vertex is added once. *)
AddVertex(g, id, order) ==
    IF id \in Vertices(g) THEN Fail("exists")
    ELSE [ok |-> TRUE,
          g  |-> [order |-> [v \in Vertices(g) \cup {id} |->
                                IF v = id THEN order ELSE g.order[v]],
                  deps  |-> [v \in Vertices(g) \cup {id} |->
                                IF v = id THEN {} ELSE g.deps[v]]]]

(* The loops below run for as many rounds as there are vertices at the      *)
(* most: every round takes at least one vertex, and none is taken twice.    *)
Rounds(g) == 0..Cardinality(Vertices(g))

(* The walk along DependsOn edges.  A round takes a vertex off the stack    *)
(* and pushes what it depends on and has not been seen.                     *)
Top(stack) == CHOOSE node \in stack : TRUE

Visit(g, s) ==
    LET node == Top(s.stack)
        new  == g.deps[node] \ s.visited
    IN  IF s.stack = {} THEN s
        ELSE [visited |-> s.visited \cup new, stack |-> (s.stack \ {node}) \cup new]

(* An edge into "to" is found before the stack is empty. *)
findPath(g, from, to) ==
    LET walk[n \in Rounds(g)] == IF n = 0 THEN [visited |-> from, stack |-> from]
                                 ELSE Visit(g, walk[n - 1])
    IN  \E n \in Rounds(g) : walk[n].stack # {} /\ to \in g.deps[Top(walk[n].stack)]

(* All of dependencies are added, or none of those that were new: a missing *)
(* vertex, a self reference and a cycle closed by one of the new edges roll *)
(* the call back.                                                           *)
AddDependencies(g, from, dependencies) ==
    LET added == dependencies \ g.deps[from]
        next  == [g EXCEPT !.deps[from] = @ \cup dependencies]
    IN  IF from \notin Vertices(g) \/ ~(dependencies \subseteq Vertices(g)) THEN Fail("missing")
        ELSE IF from \in dependencies THEN Fail("self")
        ELSE IF findPath(next, added, from) THEN Fail("cycle")
        ELSE [ok |-> TRUE, g |-> next]

(* newTopologicalTraversal, popReady and advance.  "before" gives for each  *)
(* vertex the ones that must be done first: what it depends on              *)
(* (dependenciesFirst) or what depends on it (dependentsFirst).  Ready is a *)
(* vertex whose remaining count has reached zero; the heap pops the one     *)
(* declared first.                                                          *)
dependenciesFirst(g) == g.deps
dependentsFirst(g) == [v \in Vertices(g) |-> {w \in Vertices(g) : v \in g.deps[w]}]

Ready(before, done) == {v \in DOMAIN before \ done : before[v] \subseteq done}

popReady(g, ready) == CHOOSE v \in ready : \A w \in ready : g.order[v] <= g.order[w]

Elements(seq) == {seq[i] : i \in DOMAIN seq}

(* A round of the sort: the first of the ready vertices. *)
Place(g, order) ==
    LET ready == Ready(dependenciesFirst(g), Elements(order))
    IN  IF ready = {} THEN order ELSE Append(order, popReady(g, ready))

(* Every vertex after the ones it depends on; among the ready ones the      *)
(* order of declaration decides.                                            *)
TopologicalSort(g) ==
    LET sorted[n \in Rounds(g)] == IF n = 0 THEN <<>> ELSE Place(g, sorted[n - 1])
        order == sorted[Cardinality(Vertices(g))]
    IN  IF Len(order) = Cardinality(Vertices(g))
        THEN [ok |-> TRUE, order |-> order]
        ELSE Fail("cycle")

(* A round of the layers: all that is ready. *)
Layer(g, layers) ==
    LET ready == Ready(dependentsFirst(g), UNION Elements(layers))
    IN  IF ready = {} THEN layers ELSE Append(layers, ready)

(* The vertices in layers, dependents before what they depend on.           *)
ReverseTopologicalLayers(g) ==
    LET layered[n \in Rounds(g)] == IF n = 0 THEN <<>> ELSE Layer(g, layered[n - 1])
        layers == layered[Cardinality(Vertices(g))]
    IN  IF UNION Elements(layers) = Vertices(g)
        THEN [ok |-> TRUE, layers |-> layers]
        ELSE Fail("cycle")

(* A bug: the waves numbered in the order the layers come. *)
applyOrdersForward(g) ==
    Then(ReverseTopologicalLayers(g), LAMBDA r :
         [ok |-> TRUE,
          orders |-> [v \in Vertices(g) |-> CHOOSE i \in DOMAIN r.layers : v \in r.layers[i]]])

(* pkg/graph/graph.go: the one-based wave of each vertex, counted from the  *)
(* last layer.                                                              *)
applyOrdersForDAG(g) ==
    Then(ReverseTopologicalLayers(g), LAMBDA r :
         [ok |-> TRUE,
          orders |-> [v \in Vertices(g) |->
             Len(r.layers) - (CHOOSE i \in DOMAIN r.layers : v \in r.layers[i]) + 1]])

(* Both ways of adding the nodes of one definition: all vertices first, in  *)
(* the order given by index, then each node's dependencies in turn.  The    *)
(* order the nodes come in does not matter to the result: a cycle is        *)
(* rejected by whichever edge closes it.                                    *)
GraphOf(ids, index, deps) ==
    LET addVertex(id, r) == IF r.ok THEN AddVertex(r.g, id, index[id]) ELSE r
        addDeps(id, r)   == IF r.ok THEN AddDependencies(r.g, id, deps[id]) ELSE r
        vertices == FoldSet(addVertex, [ok |-> TRUE, g |-> NewDirectedAcyclicGraph], ids)
    IN  FoldSet(addDeps, vertices, ids)

----------------------------------------------------------------------------
(* What is expected of an order.                                            *)

Follows(order, deps) ==
    \A i \in DOMAIN order : \A d \in deps[order[i]] : \E j \in 1..(i - 1) : order[j] = d

Permutes(order, ids) == Len(order) = Cardinality(ids) /\ Elements(order) = ids

(* Some vertices all depend on one another. *)
Cyclic(ids, deps) ==
    \E S \in (SUBSET ids) \ {{}} : \A v \in S : deps[v] \cap S # {}
============================================================================
