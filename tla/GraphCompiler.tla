--------------------------- MODULE GraphCompiler ----------------------------
(***************************************************************************)
(* pkg/graphengine/compiler: a Graph compiled into a program, one lexical  *)
(* frame at a time.  A nested graph sees its own nodes and, where no node  *)
(* of its own has the name, those of the graphs around it; the ancestors   *)
(* it captures become dependencies of the node that holds it.              *)
(*                                                                         *)
(* Expressions, fields and forEach are as in GraphBuilder.  A node is a    *)
(* record of id, kind ("template", "ref", "def", "graph", "patch" or       *)
(* "none"), gvk (as there, or "dynamic" when it is an expression), ns,     *)
(* ref, fields, forEach, includeWhen, readyWhen, body (what a patch        *)
(* contributes: subset of {"main", "status", "lifecycle"}; "nameless" if   *)
(* its target has no metadata.name) and nodes, the sequence a nested graph *)
(* holds.  A context is the sequence of frames from the innermost outwards.*)
(***************************************************************************)
EXTENDS Dag

CONSTANTS
    CELOmitFunction,   \* the feature gate
    Kinds,             \* what discovery knows: gvk -> [namespaced]
    Identifiers        \* the names that match nodeIDRegex

EachVarName == "each"
MetadataNamePath == "metadata.name"
MetadataNamespacePath == "metadata.namespace"
MetadataPaths == {MetadataNamePath, MetadataNamespacePath, "metadata.selector"}

----------------------------------------------------------------------------
(* validation.go *)

reservedNodeIDs ==
    {"true", "false", "null", "in", "as", "break", "const", "continue", "else",
     "for", "function", "if", "import", "let", "loop", "package", "namespace",
     "return", "var", "void", "while"} \cup
    {"apiVersion", "kind", "metadata", "namespace", "spec", "status", "graph",
     "graphengine", "kro", "each", "item", "items", "object", "self", "this",
     "context"}

validateNodeID(id) == id \in Identifiers \ reservedNodeIDs

validateNodeShape(n) == n.kind # "none"

nodeIteratorNames(n) == {n.forEach[i].name : i \in DOMAIN n.forEach}

validateForEachShape(n) ==
    /\ nodeIteratorNames(n) \subseteq Identifiers \ (reservedNodeIDs \cup {n.id})
    /\ \A i, j \in DOMAIN n.forEach : n.forEach[i].name = n.forEach[j].name => i = j

validateKindCompatibility(n) ==
    /\ n.kind = "graph" => n.forEach = <<>> /\ n.includeWhen = {} /\ n.readyWhen = {}
    /\ n.kind = "patch" => n.readyWhen = {}
    /\ n.kind = "ref"   => n.forEach = <<>>

validateFrameNodes(nodes) ==
    /\ nodes # <<>>
    /\ \A i \in DOMAIN nodes : /\ validateNodeID(nodes[i].id)
                               /\ validateNodeShape(nodes[i])
                               /\ validateForEachShape(nodes[i])
                               /\ validateKindCompatibility(nodes[i])
    /\ \A i, j \in DOMAIN nodes : nodes[i].id = nodes[j].id => i = j

requireResolvableRoot(g) == \E v \in Vertices(g) : g.deps[v] = {}

----------------------------------------------------------------------------
(* context.go: frames and the building of one node *)

frameOf(nodes) ==
    [ids     |-> {nodes[i].id : i \in DOMAIN nodes},
     patches |-> {nodes[i].id : i \in {j \in DOMAIN nodes : nodes[j].kind = "patch"}}]

Declares(ctx, id) == {d \in DOMAIN ctx : id \in ctx[d].ids}

(* A bug: the outermost frame that declares the name wins. *)
frameDepthOutermost(ctx, id) ==
    IF Declares(ctx, id) = {} THEN -1 ELSE Max(Declares(ctx, id)) - 1

(* How many frames out id is declared, the nearest one first; -1 for none.  *)
frameDepth(ctx, id) ==
    IF Declares(ctx, id) = {} THEN -1 ELSE Min(Declares(ctx, id)) - 1

framePatchKind(ctx, id) ==
    Declares(ctx, id) # {} /\ id \in ctx[Min(Declares(ctx, id))].patches

ancestorIDs(ctx) == (UNION {ctx[d].ids : d \in DOMAIN ctx}) \ ctx[1].ids

isDynamicGVK(n) == n.gvk = "dynamic"

validateRefMetadata(n) == n.kind = "ref" => n.ref \in {"name", "selector"}

validatePatchPayload(n) == "lifecycle" \notin n.body

(* A patch contributes to one endpoint of a named target. *)
derivePatchEndpoint(n) ==
    LET main   == n.body \cap {"main", "lifecycle"} # {}
        status == "status" \in n.body
    IN  IF "nameless" \in n.body THEN Fail("name")
        ELSE IF main = status THEN Fail("endpoint")
        ELSE [ok |-> TRUE, sub |-> IF status THEN "status" ELSE "main"]

PatchesStatus(n) == derivePatchEndpoint(n) = [ok |-> TRUE, sub |-> "status"]

validateKubernetesObjectStructure(n) == n.gvk # "malformed"

NamespacedNode(n) ==
    n.kind \in {"template", "ref", "patch"} /\ n.gvk \in DOMAIN Kinds /\ Kinds[n.gvk].namespaced

buildDynamicNode(n) ==
    n.kind = "patch" => validatePatchPayload(n) /\ derivePatchEndpoint(n).ok

buildStaticNode(n) ==
    /\ validateKubernetesObjectStructure(n)
    /\ n.gvk \in DOMAIN Kinds
    /\ ~Kinds[n.gvk].namespaced => n.ns # "set"
    /\ n.kind = "template" /\ n.gvk = "CustomResourceDefinition" =>
          \A f \in n.fields : f.path \in MetadataPaths
    /\ n.kind = "patch" => validatePatchPayload(n) /\ derivePatchEndpoint(n).ok

buildNode(n) ==
    /\ validateRefMetadata(n)
    /\ \/ n.kind = "def"
       \/ n.kind # "def" /\ IF isDynamicGVK(n) THEN buildDynamicNode(n) ELSE buildStaticNode(n)

IsCollection(n) == n.forEach # <<>> \/ (n.kind = "ref" /\ n.ref = "selector")

----------------------------------------------------------------------------
(* compiler.go: the references of a node *)

isIdentityFieldPath(path, namespaced) ==
    path = MetadataNamePath \/ (path = MetadataNamespacePath /\ namespaced)

(* Every identifier is an iterator, a node of this frame, or a node of one  *)
(* enclosing frame; no expression mixes two frames.                         *)
extractDependencies(ctx, e, iterators) ==
    LET ids == e.refs \ {EachVarName}
        resolved(depth) ==
            IF e.omit /\ ~CELOmitFunction THEN Fail("omit")
            ELSE IF \E id \in ids : framePatchKind(ctx, id) THEN Fail("patch")
            ELSE IF -1 \in Range(depth) THEN Fail("unknown identifier")
            ELSE IF Cardinality(Range(depth)) > 1 THEN Fail("mixes scopes")
            ELSE [ok |-> TRUE,
                  deps      |-> {id \in DOMAIN depth : depth[id] = 0},
                  captured  |-> {id \in DOMAIN depth : depth[id] > 0},
                  iterators |-> ids \cap iterators]
    IN  resolved([id \in ids \ iterators |-> frameDepth(ctx, id)])

AllOk(of) == \A x \in DOMAIN of : of[x].ok
DepsOf(of) == UNION {of[x].deps : x \in DOMAIN of}
CapturedBy(of) == UNION {of[x].captured : x \in DOMAIN of}
References(of) == [ok |-> TRUE, deps |-> DepsOf(of), captured |-> CapturedBy(of)]

analyzeVariables(ctx, n) ==
    LET identity == {f \in n.fields : isIdentityFieldPath(f.path, NamespacedNode(n))}
        checked(of) ==
            IF ~AllOk(of) THEN Fail("variable")
            ELSE IF \E f \in identity : f.expr.omit THEN Fail("omit in identity")
            ELSE IF /\ n.kind \in {"template", "patch"}
                    /\ ~(nodeIteratorNames(n) \subseteq UNION {of[f].iterators : f \in identity})
                 THEN Fail("iterator not in identity")
            ELSE References(of)
    IN  checked([f \in n.fields |-> extractDependencies(ctx, f.expr, nodeIteratorNames(n))])

analyzeForEach(ctx, n) ==
    LET checked(of) ==
            IF \E i \in DOMAIN of : \/ ~of[i].ok
                                    \/ of[i].iterators # {}
                                    \/ n.forEach[i].expr.omit
            THEN Fail("forEach") ELSE References(of)
    IN  checked([i \in DOMAIN n.forEach |->
                    extractDependencies(ctx, n.forEach[i].expr, nodeIteratorNames(n))])

analyzeIncludeWhen(ctx, n) ==
    LET checked(of) ==
            IF ~AllOk(of) \/ (\E e \in n.includeWhen : e.omit) \/ n.id \in DepsOf(of)
            THEN Fail("includeWhen") ELSE References(of)
    IN  checked([e \in n.includeWhen |-> extractDependencies(ctx, e, {})])

(* A readyWhen reads its own node and is no dependency. *)
analyzeReadyWhen(ctx, n) ==
    LET checked(of) ==
            IF \/ ~AllOk(of)
               \/ \E e \in n.readyWhen : e.omit
               \/ CapturedBy(of) # {}
               \/ ~(DepsOf(of) \subseteq {n.id})
            THEN Fail("readyWhen")
            ELSE [ok |-> TRUE, deps |-> {}, captured |-> {}]
    IN  checked([e \in n.readyWhen |-> extractDependencies(ctx, e, {})])

analyzeNodeRefs(ctx, n) ==
    LET checked(of) == IF AllOk(of) THEN References(of) ELSE Fail("references")
    IN  checked(<<analyzeVariables(ctx, n), analyzeForEach(ctx, n),
                  analyzeIncludeWhen(ctx, n), analyzeReadyWhen(ctx, n)>>)

----------------------------------------------------------------------------
(* typecheck.go.  An expression over a schemaless identifier is dyn.        *)

schemalessIdentifiers(ctx, nodes) ==
    ancestorIDs(ctx) \cup
    {nodes[i].id : i \in {j \in DOMAIN nodes :
        ~IsCollection(nodes[j]) /\ (nodes[j].kind = "graph" \/ isDynamicGVK(nodes[j]))}}

TypeOf(e, dyn) == IF e.refs \cap dyn # {} THEN "dyn" ELSE e.type

expectedTypeForField(n, path) ==
    IF n.kind \notin {"template", "patch"} \/ isDynamicGVK(n) THEN "dyn"
    ELSE IF path \in {MetadataNamePath, MetadataNamespacePath, "spec.text"} THEN "string"
    ELSE IF path = "spec.items" THEN "list"
    ELSE "dyn"

validateExpressionType(out, expected) == expected = "dyn" \/ out = "dyn" \/ out = expected

validateAndCompileConditions(es, dyn) == \A e \in es : TypeOf(e, dyn) \in {"bool", "dyn"}

validateAndCompileForEach(n, dyn) ==
    \A i \in DOMAIN n.forEach : TypeOf(n.forEach[i].expr, dyn) \in {"list", "dyn"}

(* "each" is declared for the readyWhen of a collection only. *)
validateAndCompileNode(n, dyn) ==
    LET iterators == {n.forEach[i].name : i \in {j \in DOMAIN n.forEach :
                          TypeOf(n.forEach[j].expr, dyn) = "dyn"}}
        elsewhere == {f.expr : f \in n.fields} \cup n.includeWhen
                     \cup {n.forEach[i].expr : i \in DOMAIN n.forEach}
                     \cup (IF IsCollection(n) THEN {} ELSE n.readyWhen)
    IN  /\ validateAndCompileForEach(n, dyn)
        /\ \A f \in n.fields : validateExpressionType(TypeOf(f.expr, dyn \cup iterators),
                                                      expectedTypeForField(n, f.path))
        /\ validateAndCompileConditions(n.includeWhen, dyn)
        /\ validateAndCompileConditions(n.readyWhen, dyn \cup {EachVarName})
        /\ \A e \in elsewhere : EachVarName \notin e.refs

----------------------------------------------------------------------------
(* compiler.go: one frame.  opts carries the sets of node ids the caller    *)
(* marks soft, tolerant, exempt and replacing, and the schema override.     *)

NoOptions == [soft |-> {}, tolerant |-> {}, exempt |-> {}, replace |-> {}, schema |-> {}]

NoProgram == [nodes |-> <<>>, order |-> <<>>, kinds |-> {}, dynamic |-> FALSE, schema |-> {}]

(* The kinds a program reads, nested ones included, for the schema watcher. *)
emitSchemaDependencies(nodes, subs) ==
    LET own == {nodes[i].gvk : i \in {j \in DOMAIN nodes :
                    nodes[j].kind \notin {"def", "graph"} /\ ~isDynamicGVK(nodes[j])}}
    IN  [kinds   |-> own \cup UNION {subs[i].kinds : i \in DOMAIN subs},
         dynamic |-> \/ \E i \in DOMAIN nodes : nodes[i].kind # "def" /\ isDynamicGVK(nodes[i])
                     \/ \E i \in DOMAIN subs : subs[i].dynamic]

(* The captures of a nested graph that this frame declares become the       *)
(* dependencies of its node; the others bubble up.                          *)
subgraphDependencies(ctx, captured) == {id \in captured : frameDepth(ctx, id) = 0}

captureBubble(ctx, captured) == captured \ subgraphDependencies(ctx, captured)

(* The references of node n, s being what its nested graph compiled to. *)
linkNode(ctx, n, s) ==
    IF n.kind = "graph"
    THEN [ok |-> TRUE, captured |-> captureBubble(ctx, s.captured),
          deps |-> subgraphDependencies(ctx, s.captured)]
    ELSE analyzeNodeRefs(ctx, n)

(* The order of a frame; a soft dependency does not order. *)
orderFrame(nodes, hard, isRoot) ==
    LET index == [id \in DOMAIN hard |-> CHOOSE i \in DOMAIN nodes : nodes[i].id = id]
    IN  Then(GraphOf(DOMAIN hard, index, hard), LAMBDA dag :
             IF isRoot /\ ~requireResolvableRoot(dag.g) THEN Fail("cycle")
             ELSE TopologicalSort(dag.g))

compiledNode(n, refs, sub, opts, isRoot) ==
    LET soft == IF n.id \in opts.soft THEN refs.deps ELSE {} IN
    [hard |-> refs.deps \ soft,
     soft |-> soft,
     tolerant |-> n.kind # "graph" /\ n.id \in opts.tolerant,
     exempt   |-> n.kind # "graph" /\ n.id \in opts.exempt,
     replace  |-> isRoot /\ n.id \in opts.replace /\ n.kind = "patch" /\ PatchesStatus(n),
     sub      |-> sub]

RECURSIVE compileFrame(_, _, _, _)
compileFrame(nodes, outer, opts, isRoot) ==
    LET ctx   == <<frameOf(nodes)>> \o outer
        I     == DOMAIN nodes
        at(id) == CHOOSE i \in I : nodes[i].id = id
        ordered(refs, compiled, emit) ==
            Then(orderFrame(nodes, [id \in DOMAIN compiled |-> compiled[id].hard], isRoot),
                 LAMBDA sort :
                    IF \E i \in I : /\ nodes[i].kind # "graph"
                                    /\ ~validateAndCompileNode(nodes[i],
                                                               schemalessIdentifiers(ctx, nodes))
                    THEN Fail("type")
                    ELSE [ok |-> TRUE,
                          captured |-> CapturedBy(refs),
                          prog |-> [nodes |-> compiled, order |-> sort.order,
                                    kinds |-> emit.kinds, dynamic |-> emit.dynamic,
                                    schema |-> opts.schema]])
        linked(subs, refs) ==
            IF ~AllOk(refs) THEN Fail("references")
            ELSE ordered(refs,
                         [id \in ctx[1].ids |->
                             compiledNode(nodes[at(id)], refs[at(id)], subs[at(id)].prog, opts, isRoot)],
                         emitSchemaDependencies(nodes, [i \in I |-> subs[i].prog]))
        nested(subs) ==
            IF ~AllOk(subs) THEN Fail("subgraph")
            ELSE linked(subs, [i \in I |-> linkNode(ctx, nodes[i], subs[i])])
    IN  IF ~validateFrameNodes(nodes) THEN Fail("invalid")
        ELSE IF \E i \in I : nodes[i].kind # "graph" /\ ~buildNode(nodes[i]) THEN Fail("build node")
        ELSE nested([i \in I |-> IF nodes[i].kind = "graph"
                                 THEN compileFrame(nodes[i].nodes, ctx, opts, FALSE)
                                 ELSE [ok |-> TRUE, captured |-> {}, prog |-> NoProgram]])

CompileWithOptions(nodes, opts) ==
    Then(compileFrame(nodes, <<>>, opts, TRUE), LAMBDA r : [ok |-> TRUE, prog |-> r.prog])
=============================================================================
