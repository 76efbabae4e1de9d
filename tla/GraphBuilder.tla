---------------------------- MODULE GraphBuilder ----------------------------
(***************************************************************************)
(* pkg/graph/builder.go, validation.go and conditions.go: the checks a     *)
(* ResourceGraphDefinition has to pass and the graph built from it.        *)
(*                                                                         *)
(* An expression is a record [refs, omit, type]: the identifiers it names, *)
(* whether it calls omit(), and the CEL type it has when every identifier  *)
(* is typed.  Expressions parse and call only known functions; every field *)
(* of a template exists in the target's schema.                            *)
(*                                                                         *)
(* A resource is a record of                                               *)
(*   id, gvk        a member of the domain of Kinds, "unknown" (no schema) *)
(*                  or "malformed" (no apiVersion, kind or metadata)       *)
(*   template       whether a template is given                            *)
(*   ref            externalRef: "none", "name", "selector", "both",       *)
(*                  "neither" or "malformed" (a selector of another shape) *)
(*   ns             metadata.namespace: "none", "blank" or "set"           *)
(*   fields         the set of [path, expr] of the payload                 *)
(*   owned          the kro-owned metadata keys the payload sets: subset   *)
(*                  of {"label", "annotation", "policy", "badPolicy"}      *)
(*   forEach        the sequence of [name, expr]                           *)
(*   includeWhen, readyWhen   sets of expressions                          *)
(* and a definition of kind, scope, schema, resources, status (a set of    *)
(* [path, expr]) and conditions (a sequence of [refs, type, declares,      *)
(* lookups, valid]).                                                       *)
(***************************************************************************)
EXTENDS Dag

CONSTANTS
    CELOmitFunction,             \* the feature gates
    DeletionPolicy,
    MaxCollectionDimensionSize,  \* Config.MaxCollectionDimensionSize
    Kinds,                       \* what discovery knows: gvk -> [namespaced]
    LowerCamelCase               \* the names that match lowerCamelCaseRegex

SchemaVarName  == "schema"
EachVarName    == "each"
RuntimeVarName == "runtime"
InstanceNodeID == "instance"
MetadataNamePath == "metadata.name"
MetadataNamespacePath == "metadata.namespace"
MetadataPaths == {MetadataNamePath, MetadataNamespacePath, "metadata.selector"}

(* The CEL type a field of the target's schema has; a path the schema does  *)
(* not know is dyn.                                                         *)
expectedTypeForField(path) ==
    CASE path = "metadata.selector" -> "map"
      [] path \in {MetadataNamePath, MetadataNamespacePath, "spec.text"} -> "string"
      [] path = "spec.items" -> "list"
      [] OTHER -> "dyn"

validateExpressionType(out, expected) == expected = "dyn" \/ out = expected \/ out = "dyn"

----------------------------------------------------------------------------
(* validation.go *)

celReservedSymbols ==
    {"true", "false", "null", "in", "as", "break", "const", "continue", "else",
     "for", "function", "if", "import", "let", "loop", "package", "namespace",
     "return", "var", "void", "while"}

reservedKeyWords == celReservedSymbols \cup
    {"apiVersion", "context", "dependency", "dependencies", "each",
     "externalRef", "externalReference", "externalRefs", "externalReferences",
     "graph", "graphengine", "instance", "item", "items", "kind", "kro",
     "metadata", "namespace", "object", "resource", "resourcegraphdefinition",
     "resourceGraphDefinition", "resources", "root", "runtime", "schema",
     "self", "serviceAccountName", "spec", "status", "this", "variables",
     "vars", "version"}

Distinct(s) == \A i, j \in DOMAIN s : i # j => s[i] # s[j]

validateResourceIDs(ids) ==
    /\ \A i \in DOMAIN ids : ids[i] \notin reservedKeyWords /\ ids[i] \in LowerCamelCase
    /\ Distinct(ids)

IteratorNames(r) == {r.forEach[i].name : i \in DOMAIN r.forEach}

validateForEachDimensions(r, ids) ==
    /\ Len(r.forEach) <= MaxCollectionDimensionSize
    /\ IteratorNames(r) \subseteq LowerCamelCase \ (reservedKeyWords \cup ids)
    /\ Distinct([i \in DOMAIN r.forEach |-> r.forEach[i].name])

ResourceIDs(rgd) == {rgd.resources[i].id : i \in DOMAIN rgd.resources}

validateResourceGraphDefinition(rgd) ==
    /\ rgd.kind # "lowercase"
    /\ validateResourceIDs([i \in DOMAIN rgd.resources |-> rgd.resources[i].id])
    /\ \A i \in DOMAIN rgd.resources :
          validateForEachDimensions(rgd.resources[i], ResourceIDs(rgd))

validateKubernetesObjectStructure(r) == r.gvk # "malformed"

validateCombinableResourceFields(r) ==
    /\ r.template # (r.ref # "none")
    /\ r.ref # "none" => r.forEach = <<>>

validateExternalRefMetadata(r) == r.ref \in {"none", "name", "selector"}

IsExternalCollection(r) == r.ref = "selector"

validateNoKROOwnedLabels(r) == "label" \notin r.owned

validateDeletionPolicyAnnotation(r) ==
    r.owned \cap {"policy", "badPolicy"} # {} => DeletionPolicy /\ "badPolicy" \notin r.owned

validateNoKROOwnedAnnotations(r) ==
    "annotation" \notin r.owned /\ validateDeletionPolicyAnnotation(r)

(* A cluster-scoped resource has no namespace; a namespaced one under a     *)
(* cluster-scoped instance names one, unless it is a collection listed      *)
(* across namespaces.                                                       *)
validateTemplateConstraints(r, instanceNamespaced) ==
    LET namespaced == Kinds[r.gvk].namespaced IN
    /\ ~namespaced => r.ns = "none"
    /\ namespaced /\ ~instanceNamespaced /\ ~IsExternalCollection(r) => r.ns = "set"
    /\ validateNoKROOwnedLabels(r)
    /\ validateNoKROOwnedAnnotations(r)

isRequiredIdentityField(path, namespaced, instanceNamespaced) ==
    \/ path = MetadataNamePath
    \/ path = MetadataNamespacePath /\ namespaced /\ ~instanceNamespaced

validateIdentityFields(rs, instanceNamespaced) ==
    \A r \in rs : \A f \in r.fields :
        isRequiredIdentityField(f.path, Kinds[r.gvk].namespaced, instanceNamespaced)
            => ~f.expr.omit

----------------------------------------------------------------------------
(* conditions.go: a type is declared by one entry, and an entry reads only  *)
(* kro's own conditions from the instance.                                  *)
KROBuiltinConditionTypes == {"InstanceManaged", "GraphResolved", "ResourcesReady", "Ready"}

validateConditionExpressions(cs) ==
    /\ \A i, j \in DOMAIN cs : i # j => cs[i].declares \cap cs[j].declares = {}
    /\ \A i \in DOMAIN cs : cs[i].valid /\ cs[i].lookups \subseteq KROBuiltinConditionTypes

----------------------------------------------------------------------------
(* builder.go *)

rgResourceSpec(r) == validateCombinableResourceFields(r) /\ validateExternalRefMetadata(r)

nodeType(r) ==
    IF r.ref = "selector" THEN "ExternalCollection"
    ELSE IF r.ref = "name" THEN "External"
    ELSE IF r.forEach # <<>> THEN "Collection"
    ELSE "Resource"

buildResourceNode(r, instanceNamespaced) ==
    /\ validateKubernetesObjectStructure(r)
    /\ r.gvk \in DOMAIN Kinds
    /\ validateTemplateConstraints(r, instanceNamespaced)
    /\ r.template /\ r.gvk = "CustomResourceDefinition" =>
          \A f \in r.fields : f.path \in MetadataPaths

(* What the inspector knows besides the resources. *)
Known(ids) == ids \cup {SchemaVarName, EachVarName, RuntimeVarName}

AllOk(of) == \A x \in DOMAIN of : of[x].ok
DepsOf(of) == UNION {of[x].deps : x \in DOMAIN of}

extractDependencies(ids, e, iterators) ==
    LET unknown == e.refs \ Known(ids) IN
    IF e.omit /\ ~CELOmitFunction THEN Fail("omit")
    ELSE IF RuntimeVarName \in e.refs THEN Fail("runtime")
    ELSE IF ~(unknown \subseteq iterators) THEN Fail("unknown identifier")
    ELSE [ok |-> TRUE,
          deps |-> (e.refs \cap Known(ids)) \ {SchemaVarName},
          iterators |-> unknown]

(* The resources the fields name, and the iterators in identity fields.     *)
extractTemplateDependencies(ids, r) ==
    LET identity == {MetadataNamePath} \cup
                    (IF Kinds[r.gvk].namespaced THEN {MetadataNamespacePath} ELSE {})
        merged(of) ==
            IF ~AllOk(of) THEN Fail("template")
            ELSE [ok |-> TRUE, deps |-> DepsOf(of),
                  iterators |-> UNION {of[f].iterators :
                                          f \in {g \in r.fields : g.path \in identity}}]
    IN  merged([f \in r.fields |-> extractDependencies(ids, f.expr, IteratorNames(r))])

extractForEachDependencies(ids, r) ==
    LET merged(of) ==
            IF \E i \in DOMAIN of : ~of[i].ok \/ of[i].iterators # {} THEN Fail("forEach")
            ELSE [ok |-> TRUE, deps |-> DepsOf(of)]
    IN  merged([i \in DOMAIN r.forEach |->
                   extractDependencies(ids, r.forEach[i].expr, IteratorNames(r))])

extractConditionDependencies(ids, exprs) ==
    LET merged(of) ==
            IF ~AllOk(of) \/ \E e \in exprs : e.omit THEN Fail("includeWhen")
            ELSE [ok |-> TRUE, deps |-> DepsOf(of)]
    IN  merged([e \in exprs |-> extractDependencies(ids, e, {})])

(* The dependencies of one node; every iterator has to be part of the       *)
(* identity of what is rendered.                                            *)
NodeDependencies(ids, r) ==
    LET merged(t, f, c) ==
            IF ~t.ok THEN t
            ELSE IF ~(IteratorNames(r) \subseteq t.iterators) THEN Fail("identity")
            ELSE IF ~f.ok THEN f
            ELSE IF ~c.ok THEN c
            ELSE [ok |-> TRUE, deps |-> t.deps \cup f.deps \cup c.deps]
    IN  merged(extractTemplateDependencies(ids, r), extractForEachDependencies(ids, r),
               extractConditionDependencies(ids, r.includeWhen))

ByID(rgd) == [id \in ResourceIDs(rgd) |->
                 LET i == CHOOSE i \in DOMAIN rgd.resources : rgd.resources[i].id = id
                 IN  rgd.resources[i]]
IndexOf(rgd) == [id \in ResourceIDs(rgd) |->
                    CHOOSE i \in DOMAIN rgd.resources : rgd.resources[i].id = id]

buildDependencyGraph(rgd) ==
    LET ids == ResourceIDs(rgd)
        merged(of) == IF ~AllOk(of) THEN Fail("dependencies")
                      ELSE GraphOf(ids, IndexOf(rgd), [id \in ids |-> of[id].deps])
    IN  merged([id \in ids |-> NodeDependencies(ids, ByID(rgd)[id])])

(* Restricted contexts name only what is allowed there and never omit().    *)
inspectExpressionRestricted(e, allowed) == e.refs \subseteq allowed /\ ~e.omit

validateAndCompileForEach(r) ==
    \A i \in DOMAIN r.forEach : ~r.forEach[i].expr.omit /\ r.forEach[i].expr.type = "list"

validateAndCompileTemplates(r) ==
    \A f \in r.fields : validateExpressionType(f.expr.type, expectedTypeForField(f.path))

validateConditionExpression(e) == e.type = "bool"

(* readyWhen sees the node alone, or one element of a forEach collection.   *)
validateAndCompileNode(r, deps) ==
    LET self == IF nodeType(r) = "Collection" THEN EachVarName ELSE r.id IN
    /\ validateAndCompileForEach(r)
    /\ validateAndCompileTemplates(r)
    /\ \A e \in r.includeWhen : e.refs \subseteq {SchemaVarName} \cup deps
                                /\ validateConditionExpression(e)
    /\ \A e \in r.readyWhen : inspectExpressionRestricted(e, {self})
                              /\ validateConditionExpression(e)

(* The status schema has the types of the expressions. *)
statusTypes(rgd) == [p \in {s.path : s \in rgd.status} |->
                        (CHOOSE s \in rgd.status : s.path = p).expr.type]

inferStatusSchema(rgd) ==
    \A s \in rgd.status :
        inspectExpressionRestricted(s.expr, ResourceIDs(rgd) \cup {SchemaVarName})

buildConditions(rgd) ==
    LET cs == rgd.conditions
        allowed == ResourceIDs(rgd) \cup {SchemaVarName, RuntimeVarName} IN
    /\ validateConditionExpressions(cs)
    /\ \A i \in DOMAIN cs : cs[i].refs \subseteq allowed /\ cs[i].type \in {"condition", "dyn"}

(* A status field names a resource or the schema; the instance depends on   *)
(* what its status and its conditions read.                                 *)
buildInstanceNode(rgd) ==
    LET read == UNION {s.expr.refs : s \in rgd.status}
        conditions == UNION {rgd.conditions[i].refs : i \in DOMAIN rgd.conditions}
    IN  IF \E s \in rgd.status : s.expr.refs = {} THEN Fail("status")
        ELSE [ok |-> TRUE,
              deps |-> (read \ {SchemaVarName})
                       \cup (IF SchemaVarName \in read THEN {InstanceNodeID} ELSE {})
                       \cup (conditions \ {SchemaVarName, RuntimeVarName})]

Namespaced(rgd) == rgd.scope # "Cluster"

compileSource(rgd) ==
    LET rs == {rgd.resources[i] : i \in DOMAIN rgd.resources}
        graph(g, sort, inst) ==
            IF ~sort.ok THEN Fail("cycle")
            ELSE IF CELOmitFunction /\ ~validateIdentityFields(rs, Namespaced(rgd))
                 THEN Fail("identity")
            ELSE IF ~(\A r \in rs : validateAndCompileNode(r, g.deps[r.id]))
                 THEN Fail("expression")
            ELSE IF ~(inferStatusSchema(rgd) /\ buildConditions(rgd)) THEN Fail("status")
            ELSE IF ~inst.ok THEN inst
            ELSE [ok    |-> TRUE,
                  deps  |-> g.deps,
                  order |-> sort.order,
                  applyOrders  |-> applyOrdersForDAG(g).orders,
                  instanceDeps |-> inst.deps]
    IN  IF \E r \in rs : ~buildResourceNode(r, Namespaced(rgd)) THEN Fail("resource")
        ELSE Then(buildDependencyGraph(rgd), LAMBDA dag :
                  graph(dag.g, TopologicalSort(dag.g), buildInstanceNode(rgd)))

NewResourceGraphDefinition(rgd) ==
    IF ~validateResourceGraphDefinition(rgd) THEN Fail("naming")
    ELSE IF ~(\A i \in DOMAIN rgd.resources : rgResourceSpec(rgd.resources[i])) THEN Fail("shape")
    ELSE compileSource(rgd)

----------------------------------------------------------------------------
(* What is expected of a graph.                                             *)

(* The identifiers in the payload, the forEach and the conditions of a      *)
(* resource, its own iterators apart.                                       *)
Named(r) ==
    ((UNION {f.expr.refs : f \in r.fields}) \ IteratorNames(r))
    \cup (UNION {r.forEach[i].expr.refs : i \in DOMAIN r.forEach})
    \cup (UNION {e.refs : e \in r.includeWhen})

(* The resources each resource names. *)
ResourceReferences(rgd) ==
    LET ids == ResourceIDs(rgd) IN [id \in ids |-> Named(ByID(rgd)[id]) \cap ids]

(* The order of an accepted definition: every resource once, after all it   *)
(* names, and of the resources that could come next the first declared.     *)
OrderIsExact(rgd, order) ==
    LET refs == ResourceReferences(rgd) IN
    /\ Permutes(order, ResourceIDs(rgd)) /\ Follows(order, refs)
    /\ \A i, j \in DOMAIN order :
          i < j /\ refs[order[j]] \subseteq {order[k] : k \in 1..(i - 1)}
          => IndexOf(rgd)[order[i]] < IndexOf(rgd)[order[j]]

(* Its waves: a resource is named from later waves only, and from the next  *)
(* one unless it is in the last.                                            *)
WavesAreTight(rgd, wave) ==
    LET ids == ResourceIDs(rgd) IN
    \A id \in ids :
        LET users == {u \in ids : id \in ResourceReferences(rgd)[u]} IN
        /\ \A u \in users : wave[u] > wave[id]
        /\ \/ \A other \in ids : wave[other] <= wave[id]
           \/ \E u \in users : wave[u] = wave[id] + 1

(* What the builder makes of a definition. *)
IsExact(rgd, g) ==
    LET refs == ResourceReferences(rgd) IN
    /\ ~g.ok /\ g.why \in {"cycle", "self"} => Cyclic(ResourceIDs(rgd), refs)
    /\ g.ok => /\ ~Cyclic(ResourceIDs(rgd), refs)
               /\ g.deps = refs
               /\ OrderIsExact(rgd, g.order)
               /\ WavesAreTight(rgd, g.applyOrders)
=============================================================================
