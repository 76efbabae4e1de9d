------------------------------ MODULE ApplySet ------------------------------
(***************************************************************************)
(* The inventory an instance keeps of the objects it manages (KEP-3659):   *)
(* which group-kinds and which namespaces to search for objects that carry *)
(* its part-of label.  It is kept in annotations of the instance, so it is *)
(* all that a controller which restarts, or deletes, has to go by.         *)
(*                                                                         *)
(* An object stands for its identity: group, kind, namespace and name.     *)
(* The annotations' text and the hash over them are left out: the four are *)
(* always written together.                                                *)
(***************************************************************************)
EXTENDS Naturals

CONSTANTS
    Objects,            \* the objects that a graph may ever render
    Kind,               \* the group-kind of each object
    Namespace,          \* the namespace of each object, or ClusterScope
    ParentNamespace,    \* the namespace of the instance
    ClusterScope        \* stands for the namespace of a cluster-scoped object

ASSUME ApplySetAssumption ==
    /\ Kind \in [Objects -> {Kind[o] : o \in Objects}]
    /\ Namespace \in [Objects -> {Namespace[o] : o \in Objects}]
    /\ ParentNamespace # ClusterScope

Kinds == {Kind[o] : o \in Objects}
Namespaces == {Namespace[o] : o \in Objects}

\* Metadata: GroupKinds and AdditionalNamespaces.
Metadata == [gks : SUBSET Kinds, nss : SUBSET Namespaces]
EmptyMetadata == [gks |-> {}, nss |-> {}]

\* The metadata of a batch of objects.  The parent's namespace is implied.
MetadataOf(os) ==
    [gks |-> {Kind[o] : o \in os},
     nss |-> {Namespace[o] : o \in os} \ {ParentNamespace, ClusterScope}]

Union(batch, parent) ==
    [gks |-> batch.gks \cup parent.gks, nss |-> batch.nss \cup parent.nss]

\* What a prune or a deletion that starts from metadata m gets to see: every
\* group-kind is listed in every namespace of m and in the parent's.
InScope(o, m) ==
    /\ Kind[o] \in m.gks
    /\ Namespace[o] \in m.nss \cup {ParentNamespace, ClusterScope}

=============================================================================
