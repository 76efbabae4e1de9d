---------------------------- MODULE SchemaCompat ----------------------------
(***************************************************************************)
(* pkg/graph/crd and pkg/client/crd.go: the CRD generated from a           *)
(* definition, the comparison of the served schema with the new one, and   *)
(* the update of the served CRD.                                           *)
(*                                                                         *)
(* A report is a pair of sets of change types: what breaks and what does   *)
(* not.  Paths and the old and new values are only printed.  JSONSchema    *)
(* fields that no schema made by SimpleSchema sets (the unclassified ones  *)
(* and x-kubernetes-map-type) are left out.                                *)
(***************************************************************************)
EXTENDS SimpleSchema

CONSTANT ConservativeCRDComparison   \* the feature gate

NoChange == [breaking |-> {}, minor |-> {}]
Breaking(c) == [breaking |-> {c}, minor |-> {}]
Minor(c)    == [breaking |-> {}, minor |-> {c}]

(* changes.go *)
IsCompatible(r) == r.breaking = {}
HasChanges(r)   == r.breaking # {} \/ r.minor # {}
appendReport(rs) == [breaking |-> UNION {r.breaking : r \in rs},
                     minor    |-> UNION {r.minor : r \in rs}]

----------------------------------------------------------------------------
(* schema.go *)

comparePattern(old, new) ==
    IF old.pattern = new.pattern THEN NoChange
    ELSE IF new.pattern = {} THEN Minor("pattern removed")
    ELSE Breaking("pattern")

(* A lower bound may fall and an upper bound may rise. *)
LowerBounds == {"minimum", "minLength", "minItems"}

compareConstraint(old, new, b) ==
    IF b \notin DOMAIN old.bounds THEN Breaking("bound added")
    ELSE IF b \notin DOMAIN new.bounds THEN Minor("bound removed")
    ELSE IF old.bounds[b] = new.bounds[b] THEN NoChange
    ELSE IF b \in LowerBounds /\ new.bounds[b] > old.bounds[b] THEN Breaking("bound tightened")
    ELSE IF b \notin LowerBounds /\ new.bounds[b] < old.bounds[b] THEN Breaking("bound tightened")
    ELSE Minor("bound relaxed")

compareConstraints(old, new) ==
    appendReport({compareConstraint(old, new, b) : b \in DOMAIN old.bounds \cup DOMAIN new.bounds})

(* A required property may be added with a default only. *)
compareAdded(new, p) ==
    IF p \in new.required /\ new.properties[p].default = {}
    THEN Breaking("required property added") ELSE Minor("property added")

(* A bug: a property that becomes required breaks nothing. *)
requiredAddedUnnoticed(old, new) ==
    appendReport({IF p \in old.required THEN NoChange ELSE Minor("required")
                     : p \in new.required \cap DOMAIN old.properties})

compareRequiredFields(old, new) ==
    LET existing == new.required \cap DOMAIN old.properties
        lost(p)  == old.properties[p].default # {} /\ (p \in DOMAIN new.properties =>
                                                          new.properties[p].default = {})
    IN  appendReport(
          {IF p \in old.required THEN NoChange ELSE Breaking("required added") : p \in existing}
          \cup {Minor("required removed") : p \in old.required \ new.required}
          \cup {IF lost(p) THEN Breaking("default of required removed") ELSE NoChange
                   : p \in existing \cap old.required})

compareEnumValues(old, new) ==
    IF old.enum = new.enum THEN NoChange
    ELSE IF old.enum = {} THEN Breaking("enum added")
    ELSE IF new.enum = {} THEN Minor("enum removed")
    ELSE appendReport(
         {IF old.enum \subseteq new.enum THEN NoChange ELSE Breaking("enum restricted"),
          IF new.enum \subseteq old.enum THEN NoChange ELSE Minor("enum expanded")})

(* A permission may be given and not taken away. *)
comparePermission(old, new, what) ==
    IF old = new THEN NoChange
    ELSE IF new THEN Minor(what)
    ELSE Breaking(what)

compareNullable(old, new) == comparePermission(old.nullable, new.nullable, "nullable")

comparePreserveUnknownFields(old, new) ==
    comparePermission(old.preserve, new.preserve, "preserve unknown fields")

compareFormat(old, new) ==
    IF old.format = new.format THEN NoChange
    ELSE IF new.format = "" THEN Minor("format removed")
    ELSE Breaking("format")

listTypeValue(s) == IF s.listType = {} THEN {"atomic"} ELSE s.listType

compareTopology(old, new) ==
    IF old.listMapKeys = new.listMapKeys /\ listTypeValue(old) = listTypeValue(new)
    THEN NoChange ELSE Breaking("topology")

compareValidationRules(old, new) ==
    IF old.validations = new.validations THEN NoChange
    ELSE IF new.validations = <<>> THEN Minor("rules removed")
    ELSE Breaking("rules")

(* The element schemas of two lists, or the value schemas of two maps. *)
RECURSIVE compare(_, _, _)
compareElements(old, new, conservative) ==
    IF old = {} /\ new = {} THEN NoChange
    ELSE IF old = {} THEN Minor("elements added")
    ELSE IF new = {} THEN Breaking("elements removed")
    ELSE compare(CHOOSE s \in old : TRUE, CHOOSE s \in new : TRUE, conservative)

compareArrayItems(old, new, conservative) ==
    IF old.type = "array" THEN compareElements(old.items, new.items, conservative) ELSE NoChange

compareAdditionalProperties(old, new, conservative) ==
    compareElements(old.additional, new.additional, conservative)

compareProperties(old, new, conservative) ==
    LET both == DOMAIN old.properties \cap DOMAIN new.properties IN
    appendReport(
        {compare(old.properties[p], new.properties[p], conservative) : p \in both}
        \cup {Breaking("property removed") : p \in DOMAIN old.properties \ both}
        \cup {compareAdded(new, p) : p \in DOMAIN new.properties \ both})

(* A change of type ends the comparison. *)
compare(old, new, conservative) ==
    appendReport(
      {IF old.description = new.description THEN NoChange ELSE Minor("description"),
       IF old.default = new.default THEN NoChange ELSE Minor("default")}
      \cup
      IF old.type # new.type THEN {Breaking("type")}
      ELSE {comparePattern(old, new),
            compareConstraints(old, new),
            compareProperties(old, new, conservative),
            compareRequiredFields(old, new),
            compareEnumValues(old, new),
            compareNullable(old, new),
            comparePreserveUnknownFields(old, new),
            compareArrayItems(old, new, conservative)}
           \cup IF ~conservative THEN {}
                ELSE {compareAdditionalProperties(old, new, conservative),
                      compareFormat(old, new),
                      compareTopology(old, new),
                      compareValidationRules(old, new)})

(* Kubernetes gives every object a metadata.name of type string. *)
withImplicitInstanceName(s) ==
    LET metadata == s.properties.metadata IN
    IF "name" \in DOMAIN metadata.properties THEN s
    ELSE [s EXCEPT !.properties.metadata.properties = With(@, "name", Blank("string"))]

Compare(old, new) ==
    compare(withImplicitInstanceName(old), withImplicitInstanceName(new),
            ConservativeCRDComparison)

(* compat.go: kro's CRDs have one version, served and with a status. *)
CompareVersions(old, new) ==
    IF old.version # new.version THEN Breaking("version")
    ELSE appendReport({Compare(old.schema, new.schema),
                       IF old.columns = new.columns THEN NoChange ELSE Minor("columns")})

----------------------------------------------------------------------------
(* crd.go *)

Object(properties) == [Blank("object") EXCEPT !.properties = properties]

defaultStatus == [state |-> Blank("string"), conditions |-> Blank("array")]

newCRDSchema(spec, status, name) ==
    Object([metadata |-> Object(IF name = {} THEN <<>>
                                ELSE [name |-> CHOOSE s \in name : TRUE]),
            spec     |-> spec,
            status   |-> Object([p \in DOMAIN defaultStatus \cup DOMAIN status |->
                                   IF p \in DOMAIN status THEN status[p] ELSE defaultStatus[p]])])

buildInstanceSpecSchema(schema) == ToOpenAPISpec(schema.spec, schema.types)

(* The CRD of a definition's schema: its SimpleSchema fields and types, the *)
(* markers on the name, and the schema inferred for its status.             *)
SynthesizeCRD(rgd, status) ==
    LET markers == rgd.schema.name
        crd(spec, name) ==
           [ok |-> TRUE,
            crd |-> [owner   |-> rgd.name,
                     version |-> rgd.schema.version,
                     names   |-> rgd.schema.shortNames,
                     columns |-> rgd.schema.columns,
                     labels  |-> rgd.schema.labels,
                     schema  |-> newCRDSchema(spec, status, name)]]
    IN  Then(buildInstanceSpecSchema(rgd.schema), LAMBDA spec :
             IF markers = <<>> THEN crd(spec.schema, {})
             ELSE Then(StringSchemaFromMarkers(markers), LAMBDA name :
                       crd(spec.schema, {name.schema})))

----------------------------------------------------------------------------
(* The API server, as far as the code relies on it.                         *)

CONSTANTS StringLength,   \* string -> Nat
          Matching        \* pattern or rule -> the strings it admits

(* What is kept of a value: fields that the schema does not know are        *)
(* dropped, and the defaults of absent fields are filled in.                *)
RECURSIVE Admit(_, _)
Admit(s, v) ==
    IF KeyOf(v) = "array" THEN [array |-> [i \in DOMAIN v.array |->
            IF s.items = {} THEN v.array[i] ELSE Admit(CHOOSE e \in s.items : TRUE, v.array[i])]]
    ELSE IF KeyOf(v) # "object" THEN v
    ELSE LET kept == {p \in DOMAIN v.object : \/ p \in DOMAIN s.properties
                                              \/ s.preserve \/ s.additional # {}}
             defaulted == {p \in DOMAIN s.properties \ kept : s.properties[p].default # {}}
         IN  [object |-> [p \in kept \cup defaulted |->
                LET given == IF p \in kept THEN v.object[p]
                             ELSE CHOOSE d \in s.properties[p].default : TRUE
                IN  IF p \in DOMAIN s.properties THEN Admit(s.properties[p], given)
                    ELSE IF s.additional = {} THEN given
                    ELSE Admit(CHOOSE e \in s.additional : TRUE, given)]]

Within(s, n, lower, upper) ==
    /\ lower \in DOMAIN s.bounds => n >= s.bounds[lower]
    /\ upper \in DOMAIN s.bounds => n <= s.bounds[upper]

Rules(s) == {s.validations[i] : i \in DOMAIN s.validations} \ {"self == oldSelf"}

RECURSIVE Valid(_, _)
Valid(s, v) ==
    LET k == KeyOf(v) IN
    /\ k = s.type
    /\ s.enum # {} => v \in s.enum
    /\ k = "string"  => /\ Within(s, StringLength[v.string], "minLength", "maxLength")
                        /\ \A m \in s.pattern \cup Rules(s) : v.string \in Matching[m]
    /\ k = "integer" => Within(s, v.integer, "minimum", "maximum")
    /\ k = "array"   => /\ Within(s, Len(v.array), "minItems", "maxItems")
                        /\ s.listType = {"set"} => \A i, j \in DOMAIN v.array :
                                                      v.array[i] = v.array[j] => i = j
                        /\ \A i \in DOMAIN v.array : \A e \in s.items : Valid(e, v.array[i])
    /\ k = "object"  => /\ s.required \subseteq DOMAIN v.object
                        /\ \A p \in DOMAIN v.object :
                              IF p \in DOMAIN s.properties
                              THEN Valid(s.properties[p], v.object[p])
                              ELSE \A e \in s.additional : Valid(e, v.object[p])

(* A default has to be valid where it is given; a list keyed by fields has  *)
(* elements with these fields.                                              *)
RECURSIVE Structural(_)
Structural(s) ==
    /\ \A d \in s.default : Valid(s, Admit(s, d))
    /\ \A p \in DOMAIN s.properties : Structural(s.properties[p])
    /\ \A e \in s.items \cup s.additional : Structural(e)
    /\ \A e \in s.items : s.listMapKeys \subseteq e.required

----------------------------------------------------------------------------
(* client/crd.go *)

(* metadata.CompareRGDOwnership *)
kroOwned(crd) == crd.owner # "none"
nameMatch(crd, desired) == crd.owner = desired.owner

(* A merge patch: the labels are merged, the rest is replaced. *)
crdMergePatch(crd, desired) == [desired EXCEPT !.labels = @ \cup crd.labels]

(* crd is the served CRD or the empty set; the result is the CRD served     *)
(* after the call, with "ok" for no error and "forced" for a breaking       *)
(* change let through.  Its calls succeed and the CRD is established in     *)
(* time; the scope of a CRD cannot change and is left out.                  *)
Ensure(served, desired, allowBreakingChanges) ==
    LET crd    == CHOOSE c \in served : TRUE
        report == CompareVersions(crd, desired)
        Refused == [ok |-> FALSE, crd |-> served, forced |-> FALSE]
        Update(new) == IF Structural(desired.schema)
                       THEN [ok |-> TRUE, crd |-> {new}, forced |-> FALSE] ELSE Refused
    IN  IF served = {} THEN Update(desired)
        ELSE IF ~kroOwned(crd) THEN Refused
        ELSE IF ~nameMatch(crd, desired) THEN Refused
        ELSE IF ~HasChanges(report) /\ crd.names = desired.names
             THEN [ok |-> TRUE, crd |-> served, forced |-> FALSE]
        ELSE IF ~IsCompatible(report) /\ ~allowBreakingChanges THEN Refused
        ELSE [Update(crdMergePatch(crd, desired)) EXCEPT !.forced = ~IsCompatible(report)]
=============================================================================
