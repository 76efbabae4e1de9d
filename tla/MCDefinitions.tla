---------------------------- MODULE MCDefinitions ----------------------------
EXTENDS Definitions

MCKinds == [k \in {"ConfigMap", "CustomResourceDefinition", "Namespace",
                   "Instance", "ClusterInstance"} |->
               [namespaced |-> k \in {"ConfigMap", "Instance"}]]
MCNames == {"a", "b", "c", "g", "h", "x", "schema", "instance"}
MCStringLength == [s \in {"", "u", "vv"} |-> CASE s = "" -> 0 [] s = "u" -> 1 [] OTHER -> 2]
MCMatching == [m \in {"pu", "pv", "ru"} |-> IF m = "pv" THEN {"vv"} ELSE {"u"}]

----------------------------------------------------------------------------
(* Schemas: one field f of the spec in many forms. *)

Str(s) == [string |-> s]
String == [atomic |-> "string"]
F(type, markers) == [type |-> type, markers |-> markers]
One(field) == [f |-> field]
Struct(fields) == [fields |-> fields]
Strings(S) == {Str(s) : s \in S}
T == [custom |-> "T"]

SchemaOf(spec, types) ==
    [spec |-> spec, types |-> types, name |-> <<>>, version |-> "v1",
     shortNames |-> {}, columns |-> {}, labels |-> {}]
Plain(field) == SchemaOf(One(field), <<>>)

Scalars ==
    {Plain(F(String, ms)) : ms \in
        {<<>>, <<[required |-> TRUE]>>, <<[required |-> FALSE]>>, <<[default |-> Str("u")]>>,
         <<[required |-> TRUE], [default |-> Str("u")]>>,
         <<[enum |-> Strings({"u"})]>>, <<[enum |-> Strings({"u", "vv"})]>>,
         <<[enum |-> Strings({"u"})], [default |-> Str("vv")]>>,
         <<[maxLength |-> 1]>>, <<[maxLength |-> 2]>>, <<[minLength |-> 1]>>,
         <<[pattern |-> "pu"]>>, <<[pattern |-> "pv"]>>, <<[validation |-> "ru"]>>,
         <<[immutable |-> TRUE]>>, <<[description |-> "text"]>>, <<[unknown |-> 0]>>,
         <<[maxItems |-> 1]>>}}
    \cup {Plain(F([atomic |-> "integer"], ms)) : ms \in {<<>>, <<[minimum |-> 1]>>, <<[maximum |-> 1]>>}}

Composites ==
    {SchemaOf(<<>>, <<>>), Plain(F([object |-> "any"], <<>>)),
     Plain(F([map |-> String], <<>>)), Plain(F([map |-> [atomic |-> "integer"]], <<>>)),
     Plain(F([slice |-> String], <<>>)), Plain(F([slice |-> String], <<[uniqueItems |-> TRUE]>>)),
     Plain(F([slice |-> String], <<[minItems |-> 1]>>)),
     Plain(F([slice |-> String], <<[listMapKey |-> "k"]>>)),
     Plain(F(T, <<>>))}
    \cup {SchemaOf(One(F(t, <<>>)), [T |-> Struct([k |-> F(String, ms)])]) :
             t \in {T, [slice |-> T]},
             ms \in {<<>>, <<[required |-> TRUE]>>, <<[default |-> Str("u")]>>,
                     <<[required |-> TRUE], [default |-> Str("u")]>>}}
    \cup {SchemaOf(One(F(T, <<>>)), [T |-> F(String, <<[required |-> TRUE]>>)]),
          SchemaOf(One(F(T, <<>>)), [T |-> Struct([k |-> F([custom |-> "U"], <<>>)]),
                                     U |-> Struct([k |-> F([slice |-> T], <<>>)])]),
          SchemaOf(One(F([slice |-> T], <<[listType |-> "map"], [listMapKey |-> "k"]>>)),
                   [T |-> Struct([k |-> F(String, <<[required |-> TRUE]>>)])])}

(* The other parts of the schema section. *)
Others == LET s == Plain(F(String, <<>>)) IN
    {[s EXCEPT !.name = <<[maxLength |-> 2]>>], [s EXCEPT !.name = <<[maxLength |-> 1]>>],
     [s EXCEPT !.name = <<[minLength |-> 2], [maxLength |-> 1]>>],
     [s EXCEPT !.name = <<[required |-> TRUE]>>],
     [s EXCEPT !.version = "v2"], [s EXCEPT !.shortNames = {"s"}],
     [s EXCEPT !.columns = {"c"}], [s EXCEPT !.labels = {"l"}]}

Object1(v) == [object |-> [f |-> v]]
MCSpecs == {[object |-> <<>>], Object1(Str("u")), Object1(Str("vv")), Object1([integer |-> 2]),
            Object1([array |-> <<>>]), Object1([array |-> <<Str("u"), Str("u")>>]),
            Object1([array |-> <<[object |-> <<>>]>>]),
            Object1([object |-> <<>>]), Object1([object |-> [k |-> Str("vv")]])}

----------------------------------------------------------------------------
(* Resources *)

E(refs, type) == [refs |-> refs, omit |-> FALSE, type |-> type]
Field(path, refs) == [path |-> path, expr |-> E(refs, "string")]
Resource(id, refs) ==
    [id |-> id, gvk |-> "ConfigMap", template |-> TRUE, ref |-> "none", ns |-> "none",
     fields |-> {Field("metadata.name", {"schema"})} \cup
                (IF refs = {} THEN {} ELSE {Field("spec.text", refs)}),
     owned |-> {}, forEach |-> <<>>, includeWhen |-> {}, readyWhen |-> {}]

Definition(schema, resources) ==
    [name |-> "rgd", kind |-> "Thing", scope |-> "Namespaced", allow |-> FALSE,
     schema |-> schema, resources |-> resources, status |-> {}, conditions |-> <<>>]

Trivial == Plain(F(String, <<>>))
Alone(schema) == Definition(schema, <<Resource("a", {})>>)
With3(a, b, c) == Definition(Trivial, <<Resource("b", b), Resource("a", a), Resource("c", c)>>)

IDs == {"a", "b", "c"}
AllReferences == {With3(a, b, c) : a \in SUBSET IDs, b \in SUBSET IDs, c \in SUBSET IDs}

If(r, refs) == [r EXCEPT !.includeWhen = {E(refs, "bool")}]
When(r, refs) == [r EXCEPT !.readyWhen = {E(refs, "bool")}]
Each(r, over, names) ==
    [r EXCEPT !.forEach = <<[name |-> "x", expr |-> E(over, "list")]>>,
              !.fields  = {Field("metadata.name", names)}]
External(r, ref) == [r EXCEPT !.template = FALSE, !.ref = ref]

(* One resource b in many forms beside a, which reads it. *)
Forms == LET r == Resource("b", {"schema"}) IN
    {r, If(r, {"schema"}), If(r, {"c"}), If(r, {"b"}), If(r, {"a"}), If(r, {"each"}),
     When(r, {"b"}), When(r, {"c"}), When(r, {"each"}),
     Each(r, {"c"}, {"x"}), Each(r, {"schema"}, {"x"}), Each(r, {"c"}, {"schema"}),
     Each(r, {"x"}, {"x"}), Each(r, {"b"}, {"x"}), When(Each(r, {"c"}, {"x"}), {"each"}),
     [Each(r, {"schema"}, {"x"}) EXCEPT !.forEach[1].name = "c"],
     [Each(r, {"schema"}, {"c"}) EXCEPT !.forEach[1].name = "c"],
     External(r, "name"), External(r, "selector"), External(r, "both"),
     External(r, "neither"), When(External(r, "selector"), {"b"}),
     External(Each(r, {"c"}, {"x"}), "name"),
     [r EXCEPT !.template = FALSE], [r EXCEPT !.ref = "name"],
     [r EXCEPT !.gvk = "unknown"], [r EXCEPT !.gvk = "malformed"],
     [r EXCEPT !.gvk = "CustomResourceDefinition"],
     [r EXCEPT !.gvk = "Namespace"], [r EXCEPT !.gvk = "Namespace", !.ns = "blank"],
     [r EXCEPT !.ns = "set"], [r EXCEPT !.owned = {"label"}], [r EXCEPT !.owned = {"policy"}],
     [r EXCEPT !.id = "namespace"], [r EXCEPT !.id = "schema"], [r EXCEPT !.id = "c"],
     [r EXCEPT !.fields = {Field("spec.text", {"runtime"})}],
     [r EXCEPT !.fields = {Field("spec.text", {"nobody"})}],
     [r EXCEPT !.fields = {[path |-> "spec.items", expr |-> E({"c"}, "string")]}],
     [r EXCEPT !.fields = {[path |-> "spec.text", expr |-> [E({"c"}, "string") EXCEPT !.omit = TRUE]]}]}

FormsOf(scope, ns) ==
    {[Definition(Trivial, <<[Resource("a", {"b"}) EXCEPT !.ns = ns],
                            IF r.gvk = "Namespace" \/ r.ns # "none" THEN r ELSE [r EXCEPT !.ns = ns],
                            [Resource("c", {}) EXCEPT !.ns = ns]>>) EXCEPT !.scope = scope]
        : r \in Forms}

(* Status fields and conditions. *)
Status(refs, path) == {[path |-> path, expr |-> E(refs, "string")]}
Condition(refs, declares, lookups) ==
    [refs |-> refs, type |-> "condition", declares |-> declares, lookups |-> lookups, valid |-> TRUE]
Statuses == LET d == With3({"b"}, {}, {}) IN
    {[d EXCEPT !.status = Status(refs, p)] :
        refs \in {{"a"}, {"a", "schema"}, {}, {"nobody"}}, p \in {"phase", "state"}}
    \cup {[d EXCEPT !.status = Status({"a"}, "phase"), !.conditions = cs] :
            cs \in {<<Condition({"b"}, {"Up"}, {"Ready"})>>,
                    <<Condition({"b"}, {"Up"}, {"Up"})>>,
                    <<Condition({"runtime"}, {"Up"}, {}), Condition({}, {"Up"}, {})>>}}
    \cup {[d EXCEPT !.status = {[path |-> "phase", expr |-> E({"a"}, "integer")]}],
          [d EXCEPT !.scope = "Cluster"]}

Allowing(d) == [d EXCEPT !.allow = TRUE]

MCHistories ==
    {<<>>}
    \cup {<<d>> : d \in AllReferences \cup FormsOf("Namespaced", "none") \cup FormsOf("Cluster", "set")}
    \cup {<<Alone(s), Alone(t)>> : s, t \in Scalars}
    \cup {<<Alone(s), Alone(t)>> : s, t \in Composites}
    \cup {<<Alone(Trivial), Alone(t), Alone(Trivial)>> : t \in Scalars \cup Composites \cup Others}
    \cup {<<Alone(Trivial), Allowing(Alone(t)), Alone(Trivial)>> : t \in Scalars \cup Composites}
    \cup {<<d, e>> : d, e \in Statuses}

Foreign(owner) == [SynthesizeCRD(Alone(Trivial), <<>>).crd EXCEPT !.owner = owner]
MCExisting == {{}, {Foreign("none")}, {Foreign("other")}}

----------------------------------------------------------------------------
(* Graphs nested three deep in which the names a, b and g, h are reused. *)

Leaf(id, refs) ==
    [id |-> id, kind |-> "template", gvk |-> "ConfigMap", ns |-> "none", ref |-> "none",
     fields |-> {Field("spec.text", refs)}, forEach |-> <<>>, includeWhen |-> {},
     readyWhen |-> {}, body |-> {}, nodes |-> <<>>]
Sub(id, nodes) == [Leaf(id, {}) EXCEPT !.kind = "graph", !.gvk = "none", !.fields = {}, !.nodes = nodes]

References == {{}, {"a"}, {"b"}, {"g"}, {"h"}, {"c"}, {"a", "b"}, {"b", "c"}}
Nested ==
    {<<Leaf(x, rx), Sub("g", <<Leaf(y, ry), Sub("h", <<Leaf(z, rz)>>)>>), Leaf("c", rc)>> :
        x \in {"a", "b"}, y \in {"a", "b"}, z \in {"a", "b"},
        rx \in {{}, {"c"}, {"g"}}, ry \in References, rz \in References, rc \in {{}, {"a"}, {"g"}}}

(* One node of every kind in a frame of its own. *)
Def(id) == [Leaf(id, {}) EXCEPT !.kind = "def", !.gvk = "none"]
Patch(id, body) == [Leaf(id, {"a"}) EXCEPT !.kind = "patch", !.body = body]
Kinded ==
    {<<Leaf("b", {}), Sub("g", <<n>>), Leaf("a", {"g"})>> : n \in
       {Def("x"), Patch("x", {"main"}), Patch("x", {"status"}), Patch("x", {"main", "status"}),
        Patch("x", {"main", "lifecycle"}), Patch("x", {"main", "nameless"}), Patch("x", {}),
        [Leaf("x", {"b"}) EXCEPT !.gvk = "dynamic"], [Leaf("x", {"b"}) EXCEPT !.gvk = "unknown"],
        [Leaf("x", {"b"}) EXCEPT !.gvk = "Namespace"], [Leaf("x", {"b"}) EXCEPT !.kind = "none"],
        [Leaf("x", {"b"}) EXCEPT !.kind = "ref", !.ref = "name"],
        [Leaf("x", {"b"}) EXCEPT !.kind = "ref", !.ref = "selector", !.readyWhen = {E({"each"}, "bool")}],
        [Leaf("x", {"b"}) EXCEPT !.kind = "ref", !.ref = "both"],
        [Leaf("x", {"b"}) EXCEPT !.readyWhen = {E({"x"}, "bool")}],
        [Leaf("x", {"b"}) EXCEPT !.readyWhen = {E({"b"}, "bool")}],
        [Leaf("x", {"b"}) EXCEPT !.includeWhen = {E({"x"}, "bool")}],
        [Leaf("x", {"b"}) EXCEPT !.includeWhen = {E({"b"}, "string")}],
        [Leaf("x", {"y"}) EXCEPT !.forEach = <<[name |-> "c", expr |-> E({"b"}, "list")]>>],
        [Leaf("x", {"b"}) EXCEPT !.fields = {Field("metadata.name", {"c"})},
                                 !.forEach = <<[name |-> "c", expr |-> E({"b"}, "list")]>>],
        Leaf("each", {"b"}), Leaf("x", {"x"})}}

MCGraphs == Nested \cup Kinded
=============================================================================
