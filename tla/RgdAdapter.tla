----------------------------- MODULE RgdAdapter -----------------------------
(***************************************************************************)
(* pkg/graphengine/rgdadapter: a ResourceGraphDefinition translated into a *)
(* Graph and compiled, through a cache shared by its instances, for the    *)
(* engine.  Definitions are the records of GraphBuilder, nodes those of    *)
(* GraphCompiler.                                                          *)
(***************************************************************************)
EXTENDS GraphCompiler

SchemaNodeID == "schema"
StatusPatchNodeID == "instance"

BareNode(id, kind) ==
    [id |-> id, kind |-> kind, gvk |-> "none", ns |-> "none", ref |-> "none",
     fields |-> {}, forEach |-> <<>>, includeWhen |-> {}, readyWhen |-> {},
     body |-> {}, nodes |-> <<>>]

(* The type comes from the schema override, the data from the runtime. *)
emptySchemaNode == BareNode(SchemaNodeID, "def")

(* One resource; FALSE where the translation returns ErrUnsupported. *)
Supported(r) ==
    /\ r.template # (r.ref # "none")
    /\ r.ref # "none" => r.ref \in {"name", "selector", "both", "malformed"} /\ r.forEach = <<>>

resourceToNode(r) ==
    [BareNode(r.id, IF r.template THEN "template" ELSE "ref") EXCEPT
        !.gvk = r.gvk, !.ns = r.ns, !.ref = r.ref, !.fields = r.fields,
        !.forEach = r.forEach, !.includeWhen = r.includeWhen, !.readyWhen = r.readyWhen]

FromSchema(path) == [path |-> path, expr |-> [refs |-> {SchemaNodeID}, omit |-> FALSE, type |-> "string"]]

AuthorStatus(rgd) == {s \in rgd.status : s.path \notin {"conditions", "state"}}

(* The patch of the instance's own status; none without author fields. *)
authorStatusPatchNode(rgd) ==
    LET cluster == rgd.scope = "Cluster" IN
    [BareNode(StatusPatchNodeID, "patch") EXCEPT
        !.gvk    = IF cluster THEN "ClusterInstance" ELSE "Instance",
        !.ns     = IF cluster THEN "none" ELSE "set",
        !.fields = {FromSchema(MetadataNamePath)} \cup AuthorStatus(rgd)
                   \cup (IF cluster THEN {} ELSE {FromSchema(MetadataNamespacePath)}),
        !.body   = {"status"}]

ResourceGraphDefinitionToGraph(rgd) ==
    LET resources == [i \in DOMAIN rgd.resources |-> resourceToNode(rgd.resources[i])]
    IN  IF \E i \in DOMAIN rgd.resources : ~Supported(rgd.resources[i])
        THEN Fail("unsupported")
        ELSE [ok |-> TRUE,
              nodes |-> resources \o (IF AuthorStatus(rgd) = {} THEN <<>>
                                      ELSE <<authorStatusPatchNode(rgd)>>)]

(* What InstanceSchemaForCEL computes from, the status left out. *)
SchemaType(rgd) == [spec |-> rgd.schema.spec, types |-> rgd.schema.types, scope |-> rgd.scope]

(* The status patch waits for nothing, skips what is not there yet, is not  *)
(* watched and replaces the whole status.                                   *)
schemaCompileOpts(rgd, nodes) ==
    LET status == {nodes[i].id : i \in {j \in DOMAIN nodes :
                      nodes[j].id = StatusPatchNodeID /\ nodes[j].kind = "patch"}}
    IN  [soft |-> status, tolerant |-> status, exempt |-> status, replace |-> status,
         schema |-> {SchemaType(rgd)}]

(* A bug: the key leaves the schema out. *)
keyOfName(rgd) == <<rgd.name>>

(* The cache key: the definition and the fingerprint of its whole schema.   *)
schemaFingerprint(rgd) ==
    <<rgd.name, rgd.kind, rgd.scope, rgd.schema, rgd.status, rgd.conditions>>

(* registry.Compile: an entry is used while the hash of the nodes is the    *)
(* same, replaced otherwise; an error is not kept.                          *)
Compile(cache, key, nodes, opts) ==
    LET hit == {e \in cache : e.key = key /\ e.nodes = nodes}
        kept(prog) == {e \in cache : e.key # key} \cup {[key |-> key, nodes |-> nodes, prog |-> prog]}
    IN  IF hit # {} THEN [ok |-> TRUE, prog |-> (CHOOSE e \in hit : TRUE).prog, cache |-> cache]
        ELSE Then(CompileWithOptions(nodes, opts), LAMBDA r :
                  [ok |-> TRUE, prog |-> r.prog, cache |-> kept(r.prog)])

BuildRuntimeForInstanceCached(rgd, cache) ==
    LET compile(nodes) ==
            Compile(cache, schemaFingerprint(rgd), nodes, schemaCompileOpts(rgd, nodes))
    IN  Then(ResourceGraphDefinitionToGraph(rgd),
             LAMBDA g : compile(<<emptySchemaNode>> \o g.nodes))

(* The path without a cache bakes the instance's data into the schema node. *)
BuildRuntimeForInstance(rgd) ==
    LET compile(nodes) == CompileWithOptions(nodes, schemaCompileOpts(rgd, nodes))
    IN  Then(ResourceGraphDefinitionToGraph(rgd),
             LAMBDA g : compile(<<emptySchemaNode>> \o g.nodes))
=============================================================================
