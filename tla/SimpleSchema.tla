---------------------------- MODULE SimpleSchema ----------------------------
(***************************************************************************)
(* pkg/simpleschema: the schema an author writes, turned into the OpenAPI  *)
(* schema of the generated CRD.                                            *)
(*                                                                         *)
(* A JSON value is a record with one field, its type: [string |-> "a"],    *)
(* [integer |-> 1], [object |-> f].  A marker is a record with one field,  *)
(* its key: [required |-> TRUE], [default |-> value], [minLength |-> 2].   *)
(* A type is [atomic |-> name], [custom |-> name], [slice |-> type],       *)
(* [map |-> type] or [object |-> "any"].  A field is [type, markers] or    *)
(* [fields |-> f] with f a function from names to fields.  The text is     *)
(* parsed already, and a type nests at most maxTypeNestingDepth deep.      *)
(*                                                                         *)
(* A schema is JSONSchemaProps with its pointers as sets of at most one    *)
(* value and its six bounds as one partial function.                       *)
(***************************************************************************)
EXTENDS Dag, SequencesExt

KeyOf(r) == CHOOSE k \in DOMAIN r : TRUE

Blank(type) ==
    [type |-> type, description |-> "", default |-> {}, format |-> "", enum |-> {},
     pattern |-> {}, bounds |-> <<>>, properties |-> <<>>, required |-> {},
     nullable |-> FALSE, preserve |-> FALSE, items |-> {}, additional |-> {},
     listType |-> {}, listMapKeys |-> {}, validations |-> <<>>]

Empty == [object |-> <<>>]   \* the default {}

(* f with k mapped to v. *)
With(f, k, v) == [x \in DOMAIN f \cup {k} |-> IF x = k THEN v ELSE f[x]]

----------------------------------------------------------------------------
(* types/*.go and parse.go *)

RECURSIVE Deps(_)
Deps(type) ==
    CASE KeyOf(type) = "custom" -> {type.custom}
      [] KeyOf(type) = "slice"  -> Deps(type.slice)
      [] KeyOf(type) = "map"    -> Deps(type.map)
      [] OTHER                  -> {}

RECURSIVE parseSpec(_)
parseSpec(field) ==
    IF "fields" \in DOMAIN field
    THEN UNION {parseSpec(field.fields[n]) : n \in DOMAIN field.fields}
    ELSE Deps(field.type)

Built(schema) == [ok |-> TRUE, schema |-> schema]

RECURSIVE Schema(_, _)
Schema(type, customTypes) ==
    LET of(t, s(_)) == Then(Schema(t, customTypes), LAMBDA r : Built(s(r.schema)))
        slice(e) == [Blank("array") EXCEPT !.items = {e}]
        map(e)   == [Blank("object") EXCEPT !.additional = {e}]
    IN  CASE KeyOf(type) = "atomic" ->
                Built(Blank(IF type.atomic = "float" THEN "number" ELSE type.atomic))
          [] KeyOf(type) = "object" -> Built([Blank("object") EXCEPT !.preserve = TRUE])
          [] KeyOf(type) = "slice"  -> of(type.slice, slice)
          [] KeyOf(type) = "map"    -> of(type.map, map)
          [] KeyOf(type) = "custom" /\ type.custom \in DOMAIN customTypes ->
                Built(customTypes[type.custom].schema)
          [] OTHER -> Fail("unknown type")

----------------------------------------------------------------------------
(* markers.go.  A field under construction is [ok, schema, required].       *)

NumberMarkers == {"minimum", "maximum"}
LengthMarkers == {"minLength", "maxLength"}
ItemsMarkers  == {"minItems", "maxItems"}

Set(f, component, value) == [f EXCEPT !.schema = [@ EXCEPT ![component] = value]]

(* The text of a default has to parse as the type; of an object or an array *)
(* it is taken as it is.                                                    *)
applyDefaultMarker(f, value) ==
    IF f.schema.type \in {"string", "integer", "number", "boolean"} /\ KeyOf(value) # f.schema.type
    THEN Fail("default") ELSE Set(f, "default", {value})

applyEnumMarker(f, values) ==
    IF f.schema.type \in {"string", "integer"} /\ \A v \in values : KeyOf(v) = f.schema.type
    THEN Set(f, "enum", values) ELSE Fail("enum")

applyBoundMarker(f, key, bound) ==
    IF \/ key \in LengthMarkers /\ f.schema.type # "string"
       \/ key \in ItemsMarkers  /\ f.schema.type # "array"
    THEN Fail("bound") ELSE Set(f, "bounds", With(f.schema.bounds, key, bound))

applyPatternMarker(f, pattern) ==
    IF f.schema.type # "string" THEN Fail("pattern") ELSE Set(f, "pattern", {pattern})

(* uniqueItems is the list type "set"; neither overwrites another list type. *)
applyListTypeMarker(f, listType) ==
    IF \/ f.schema.type # "array"
       \/ listType \notin {"atomic", "set", "map"}
       \/ ~(f.schema.listType \subseteq {listType})
    THEN Fail("listType") ELSE Set(f, "listType", {listType})

applyListMapKeyMarker(f, key) ==
    IF f.schema.type # "array" \/ key \in f.schema.listMapKeys
    THEN Fail("listMapKey") ELSE Set(f, "listMapKeys", f.schema.listMapKeys \cup {key})

applyValidationMarker(f, rule) ==
    Set(f, "validations", Append(f.schema.validations, rule))

applyImmutableMarker(f, immutable) ==
    IF immutable THEN applyValidationMarker(f, "self == oldSelf") ELSE f

applyMarker(f, marker) ==
    LET key == KeyOf(marker) IN
    IF ~f.ok THEN f
    ELSE CASE key = "required"    -> [f EXCEPT !.required = @ \/ marker.required]
           [] key = "default"     -> applyDefaultMarker(f, marker.default)
           [] key = "description" -> Set(f, "description", marker.description)
           [] key \in NumberMarkers \cup LengthMarkers \cup ItemsMarkers ->
                 applyBoundMarker(f, key, marker[key])
           [] key = "validation"  -> applyValidationMarker(f, marker.validation)
           [] key = "immutable"   -> applyImmutableMarker(f, marker.immutable)
           [] key = "enum"        -> applyEnumMarker(f, marker.enum)
           [] key = "pattern"     -> applyPatternMarker(f, marker.pattern)
           [] key = "uniqueItems" -> IF marker.uniqueItems THEN applyListTypeMarker(f, "set")
                                     ELSE IF f.schema.type = "array" THEN f ELSE Fail("uniqueItems")
           [] key = "listType"    -> applyListTypeMarker(f, marker.listType)
           [] key = "listMapKey"  -> applyListMapKeyMarker(f, marker.listMapKey)
           [] OTHER -> Fail("unknown marker")

fieldLevelValidation(schema) == schema.listMapKeys # {} => schema.listType = {"map"}

applyMarkers(f, markers) ==
    Then(FoldLeft(applyMarker, f, markers),
         LAMBDA r : IF fieldLevelValidation(r.schema) THEN r ELSE Fail("listMapKey"))

----------------------------------------------------------------------------
(* transform.go *)

buildFieldFromString(field, customTypes) ==
    LET required == /\ KeyOf(field.type) = "custom"
                    /\ customTypes[field.type.custom].required
    IN  Then(Schema(field.type, customTypes),
             LAMBDA r : applyMarkers([ok |-> TRUE, schema |-> r.schema, required |-> required],
                                     field.markers))

(* An object gets the default {} when a child has one and none is required. *)
defaultOf(required, children) ==
    IF required = {} /\ \E s \in children : s.default # {} THEN {Empty} ELSE {}

ObjectOf(fields) ==
    LET names    == DOMAIN fields
        required == {n \in names : fields[n].required}
    IN  IF \E n \in names : ~fields[n].ok THEN Fail("field")
        ELSE Built([Blank("object") EXCEPT
                      !.properties = [n \in names |-> fields[n].schema],
                      !.required   = required,
                      !.default    = defaultOf(required, {fields[n].schema : n \in names})])

RECURSIVE buildSchema(_, _)
buildFieldSchema(field, customTypes) ==
    IF "fields" \in DOMAIN field
    THEN Then(buildSchema(field.fields, customTypes),
              LAMBDA r : [ok |-> TRUE, schema |-> r.schema, required |-> FALSE])
    ELSE buildFieldFromString(field, customTypes)

buildSchema(spec, customTypes) ==
    ObjectOf([n \in DOMAIN spec |-> buildFieldSchema(spec[n], customTypes)])

(* A type alias may be required wherever it is used; a struct is not. *)
buildCustomTypeSchema(field, customTypes) == buildFieldSchema(field, customTypes)

(* The custom types are built in the order of their dependencies. *)
loadCustomTypes(types) ==
    LET names == DOMAIN types
        load(r, n) == Then(r, LAMBDA loaded :
                         Then(buildCustomTypeSchema(types[n], loaded.types), LAMBDA t :
                              [ok |-> TRUE, types |-> With(loaded.types, n, t)]))
    IN  Then(GraphOf(names, [n \in names |-> 0], [n \in names |-> parseSpec(types[n])]),
             LAMBDA dag : FoldLeft(load, [ok |-> TRUE, types |-> <<>>],
                                   TopologicalSort(dag.g).order))

ToOpenAPISpec(obj, types) ==
    Then(loadCustomTypes(types), LAMBDA t : buildSchema(obj, t.types))

(* metadata.validation.name: markers only, of a string. *)
StringSchemaFromMarkers(markers) ==
    LET supported == LengthMarkers \cup {"pattern", "enum", "validation"}
        checked(schema) ==
            LET b == schema.bounds IN
            IF \E k \in DOMAIN b : b[k] < 0 THEN Fail("negative")
            ELSE IF LengthMarkers \subseteq DOMAIN b /\ b.minLength > b.maxLength THEN Fail("bounds")
            ELSE Built(schema)
    IN  IF \E i \in DOMAIN markers : KeyOf(markers[i]) \notin supported THEN Fail("marker")
        ELSE Then(applyMarkers([ok |-> TRUE, schema |-> Blank("string"), required |-> FALSE],
                               markers),
                  LAMBDA r : checked(r.schema))
=============================================================================
