----------------------------- MODULE Definitions -----------------------------
(***************************************************************************)
(* What happens to a definition: the author edits a ResourceGraphDefinition*)
(* (or submits a Graph), the RGD controller builds it and updates the CRD  *)
(* it serves, users store instances of the CRD, and the instance controller*)
(* compiles the latest revision for the engine through its cache.          *)
(*                                                                         *)
(* The steps compose the pure parts of the code: GraphBuilder,             *)
(* SimpleSchema, SchemaCompat, RgdAdapter and GraphCompiler.  Revisions,   *)
(* the registry and the serving of instances are in GraphRevisions, which  *)
(* sees a definition only as accepted or rejected.                         *)
(***************************************************************************)
EXTENDS SchemaCompat

CONSTANTS
    CELOmitFunction, DeletionPolicy,   \* feature gates
    MaxCollectionDimensionSize,
    Kinds, LowerCamelCase, Identifiers,
    Histories,    \* the author's successive definitions: a set of sequences
    Graphs,       \* the Graphs submitted: a set of sequences of nodes
    Specs,        \* the instance specs users write
    Existing      \* what may be in the place of the CRD: a set of sets

ASSUME IdentifierAssumption == LowerCamelCase \subseteq Identifiers
ASSUME KindsAssumption ==
    /\ {"Instance", "ClusterInstance"} \subseteq DOMAIN Kinds
    /\ Kinds["Instance"].namespaced /\ ~Kinds["ClusterInstance"].namespaced

B == INSTANCE GraphBuilder
A == INSTANCE RgdAdapter

VARIABLES
    todo,       \* the definitions the author has not written yet
    rgd,        \* the definition in the API server
    built,      \* what the builder made of the last definition it was given
    revision,   \* the latest revision: the last definition that was built
    serving,    \* the last revision with its CRD in place
    crd,        \* the CRD served under the definition's kind: at most one
    forced,     \* history: a breaking change has been let through
    instance,   \* the stored instance's spec: at most one
    cache,      \* the program cache of the instance controller
    graph,      \* the Graph submitted
    compiled    \* what the compiler made of it

definition == <<todo, rgd>>
served == <<serving, crd, forced>>
submitted == <<graph, compiled>>
vars == <<definition, built, revision, served, instance, cache, submitted>>

NoRGD == [name |-> "none"]
NotYet == [of |-> NoRGD]

Init ==
    /\ todo \in Histories
    /\ rgd = NoRGD
    /\ built = NotYet
    /\ revision = NoRGD
    /\ serving = NoRGD
    /\ crd \in Existing
    /\ forced = FALSE
    /\ instance = {}
    /\ cache = {}
    /\ graph = <<>>
    /\ compiled = NotYet

(* The author writes the next definition. *)
Edit ==
    /\ todo # <<>>
    /\ rgd' = Head(todo)
    /\ todo' = Tail(todo)
    /\ UNCHANGED <<built, revision, served, instance, cache, submitted>>

(* The schema the builder infers for the status. *)
statusSchema(r) ==
    LET types == B!statusTypes(r) IN
    [p \in DOMAIN types |-> IF types[p] \in {"string", "integer"} THEN Blank(types[p])
                            ELSE [Blank("object") EXCEPT !.preserve = TRUE]]

(* A definition that differs from the latest revision is built; when that  *)
(* succeeds it becomes the latest revision, which the instances run.       *)
Build ==
    /\ rgd # NoRGD /\ revision # rgd /\ built.of # rgd
    /\ LET g == IF SynthesizeCRD(rgd, <<>>).ok
                THEN B!NewResourceGraphDefinition(rgd) ELSE Fail("schema")
       IN  /\ built' = [of |-> rgd, graph |-> g]
           /\ revision' = IF g.ok THEN rgd ELSE revision
    /\ UNCHANGED <<definition, served, instance, cache, submitted>>

(* The CRD of the latest revision. *)
Serve ==
    /\ rgd # NoRGD /\ revision = rgd
    /\ LET e == Ensure(crd, SynthesizeCRD(rgd, statusSchema(rgd)).crd, rgd.allow)
       IN  /\ crd' = e.crd
           /\ forced' = (forced \/ e.forced)
           /\ serving' = IF e.ok THEN rgd ELSE serving
    /\ UNCHANGED <<definition, built, revision, instance, cache, submitted>>

SpecSchema(c) == c.schema.properties.spec

(* A user creates or replaces an instance; the API server admits it. *)
Store(v) ==
    /\ serving # NoRGD
    /\ \E c \in crd : /\ Valid(SpecSchema(c), Admit(SpecSchema(c), v))
                      /\ instance' = {Admit(SpecSchema(c), v)}
    /\ UNCHANGED <<definition, built, revision, served, cache, submitted>>

(* The instance controller compiles the latest revision for a reconcile,   *)
(* whether or not its CRD could be updated.                                *)
Compile ==
    /\ instance # {}
    /\ LET r == A!BuildRuntimeForInstanceCached(revision, cache)
       IN  r.ok /\ cache' = r.cache
    /\ UNCHANGED <<definition, built, revision, served, instance, submitted>>

(* A Graph is submitted and compiled. *)
Submit(g) ==
    /\ todo = <<>> /\ rgd = NoRGD /\ graph = <<>>
    /\ graph' = g
    /\ compiled' = [of |-> g, result |-> A!CompileWithOptions(g, A!NoOptions)]
    /\ UNCHANGED <<definition, built, revision, served, instance, cache>>

Next == \/ Edit
        \/ Build
        \/ Serve
        \/ \E v \in Specs : Store(v)
        \/ Compile
        \/ \E g \in Graphs : Submit(g)

Spec == Init /\ [][Next]_vars

----------------------------------------------------------------------------
(* What is expected *)

(* builder.go:557, dag.go:323 and graph.go:56.  A definition is refused as *)
(* cyclic exactly when resources name one another in a circle.  Of an      *)
(* accepted one the order has every resource after all it names, and of    *)
(* the resources that could come next the first declared; the last wave    *)
(* holds what nothing names, and every other resource is named from the    *)
(* wave after it and from no earlier one.                                  *)
OrdersAreExact == built # NotYet => B!IsExact(built.of, built.graph)

(* runtime.go:139 and builder.go:141.  Whatever was compiled before, the   *)
(* program the cache gives for the latest revision is the one a compile   *)
(* from nothing gives, that compile succeeds, and the engine's program     *)
(* runs the builder's resources in the builder's order with the builder's  *)
(* dependencies, after the schema and before the status.                   *)
AcceptedCompiles ==
    LET agrees(fresh, cached, g) ==
            /\ fresh.ok /\ cached.ok
            /\ cached.prog = fresh.prog
            /\ fresh.prog.order = <<"schema">> \o g.order \o
                                  (IF A!AuthorStatus(revision) = {} THEN <<>> ELSE <<"instance">>)
            /\ \A id \in B!ResourceIDs(revision) :
                  fresh.prog.nodes[id].hard \ {"schema"} = g.deps[id]
    IN  revision # NoRGD =>
            agrees(A!BuildRuntimeForInstance(revision),
                   A!BuildRuntimeForInstanceCached(revision, cache),
                   B!NewResourceGraphDefinition(revision))

(* What a node takes from outside itself. *)
RECURSIVE Free(_)
Free(n) ==
    IF n.kind = "graph"
    THEN (UNION {Free(n.nodes[i]) : i \in DOMAIN n.nodes}) \ {n.nodes[i].id : i \in DOMAIN n.nodes}
    ELSE B!Named(n)

RECURSIVE KindsIn(_)
KindsIn(nodes) ==
    UNION {IF nodes[i].kind = "graph" THEN KindsIn(nodes[i].nodes)
           ELSE IF nodes[i].kind = "def" THEN {} ELSE {nodes[i].gvk} : i \in DOMAIN nodes}

RECURSIVE Closed(_, _)
Closed(nodes, prog) ==
    LET ids == {nodes[i].id : i \in DOMAIN nodes}
        deps == [id \in ids |-> prog.nodes[id].hard]
    IN  /\ \A i \in DOMAIN nodes : deps[nodes[i].id] = Free(nodes[i]) \cap ids
        /\ Permutes(prog.order, ids) /\ Follows(prog.order, deps)
        /\ prog.kinds = KindsIn(nodes) \ {"dynamic"}
        /\ prog.dynamic = ("dynamic" \in KindsIn(nodes))
        /\ \A i \in DOMAIN nodes : nodes[i].kind = "graph" =>
              Closed(nodes[i].nodes, prog.nodes[nodes[i].id].sub)

(* compiler.go:282 and context.go:153.  A compiled Graph has no free name, *)
(* and at every depth a node runs after exactly the nodes of its frame     *)
(* that it, or anything nested in it, takes its names from when every name *)
(* means the nearest declaration; the kinds to watch are those of all      *)
(* depths.                                                                 *)
ProgramsAreClosed ==
    compiled # NotYet /\ compiled.result.ok =>
      LET nodes == compiled.of
          ids == {nodes[i].id : i \in DOMAIN nodes}
      IN  /\ \A i \in DOMAIN nodes : Free(nodes[i]) \subseteq ids
          /\ Closed(nodes, compiled.result.prog)

(* schema.go:108 and client/crd.go:111.  What is served is what the         *)
(* accepted definition asks for (no change is taken for none), and as long *)
(* as no breaking change was let through, no update of the CRD makes the   *)
(* instance that is stored invalid.  It holds with the feature gate        *)
(* ConservativeCRDComparison on, which is not the default: off, the        *)
(* comparison passes over rules, formats, list types and map values, as    *)
(* pkg/graph/crd/compat/doc.go says, and the second half fails.            *)
ServedFits ==
    /\ serving # NoRGD =>
          \A c \in crd : c.schema = SynthesizeCRD(serving, statusSchema(serving)).crd.schema
    /\ ~forced => \A c \in crd, v \in instance :
                     Valid(SpecSchema(c), Admit(SpecSchema(c), v))
=============================================================================
