------------------------------ MODULE Executor ------------------------------
(***************************************************************************)
(* What the graph engine's executor does to one object of the cluster      *)
(* (pkg/graphengine/executor/simple.go) on the path of a standalone Graph, *)
(* where ConflictDetection is on, and what it makes of the answers.        *)
(*                                                                         *)
(* An object is what ownership and deletion depend on: its uid, the value  *)
(* and the managers of each field, whether it is terminating, whether a    *)
(* foreign ApplySet labels it, and the status its own controller has       *)
(* reported.  The resourceVersion is the object itself: a precondition on  *)
(* it holds when the object is equal to the one that was read.             *)
(***************************************************************************)
EXTENDS Naturals, Sequences, FiniteSets, FiniteSetsExt

CONSTANTS
    Graphs,      \* the Graph objects, named by their UIDs
    Objects,     \* the identities (kind, namespace, name) that nodes render
    Finalizing,  \* the objects that carry a finalizer of their own
    MayWrite     \* MayWrite[user]: what RBAC lets a ServiceAccount write

ASSUME ExecutorAssumption ==
    /\ IsFiniteSet(Objects) /\ Finalizing \subseteq Objects
    /\ \A u \in DOMAIN MayWrite : MayWrite[u] \subseteq Objects

None == "none"
Someone == [kind |-> "other"]

\* "meta" stands for the identity metadata stampKROMeta adds to every
\* template object: the node-id label, the node-path and order annotations.
Fields == {"meta", "data", "aux"}

\* A template writes under a manager of its Graph, a patch under one of its
\* Graph and node.
templateFieldManager(g) == [kind |-> "tmpl", graph |-> g]
patchFieldManager(g, id) == [kind |-> "patch", graph |-> g, node |-> id]

IsTemplate(m) == m.kind = "tmpl"

Managers(o) == UNION {o.own[f] : f \in Fields}

NoObject == [uid |-> 0]
Exists(o) == o.uid # 0

New(uid) == [uid |-> uid, val |-> [f \in Fields |-> None],
             own |-> [f \in Fields |-> {}],
             term |-> FALSE, part |-> FALSE, st |-> None]

-----------------------------------------------------------------------------
(* Server-side apply.                                                      *)

\* The managers a 409 names: those of the fields m wants with another value.
Conflicts(o, m, wants) ==
    UNION {o.own[f] \ {m} : f \in {f \in DOMAIN wants : o.val[f] # wants[f]}}

\* m owns what it applies, alone if the value is new, and gives up the rest;
\* a field nobody owns any more disappears.
Merge(o, m, wants) ==
    LET own == [f \in Fields |->
                  IF f \notin DOMAIN wants THEN o.own[f] \ {m}
                  ELSE IF o.val[f] = wants[f] THEN o.own[f] \union {m}
                  ELSE {m}]
    IN  [o EXCEPT !.own = own,
                  !.val = [f \in Fields |->
                             IF f \in DOMAIN wants THEN wants[f]
                             ELSE IF own[f] = {} /\ o.own[f] # {} THEN None
                             ELSE o.val[f]]]

\* An apply creates the object if it is absent.
ssaApply(o, m, wants, uid) == Merge(IF Exists(o) THEN o ELSE New(uid), m, wants)

-----------------------------------------------------------------------------
(* Who owns an object.                                                     *)

ownedByForeignGraphTemplate(o, g) ==
    Exists(o) /\ \E m \in Managers(o) : IsTemplate(m) /\ m.graph # g

\* A bug: an object that is there counts as the Graph's own.
ownedByGraphUnchecked(o, g) == Exists(o)

\* This Graph's template manager and no other Graph's.
ownedByGraph(o, g) ==
    /\ Exists(o)
    /\ templateFieldManager(g) \in Managers(o)
    /\ \A m \in Managers(o) : IsTemplate(m) => m.graph = g

anyConflictOwnedByForeignGraphTemplate(causes, g) ==
    \E m \in causes : IsTemplate(m) /\ m.graph # g

\* Only patch managers of the same Graph may be forced aside by a patch.
allConflictsAreReclaimable(causes, m) ==
    causes # {} /\ \A c \in causes : c.kind = "patch" /\ c.graph = m.graph

-----------------------------------------------------------------------------
(* The nodes of a compiled program, flattened: the nodes of a subgraph     *)
(* follow the node that holds it and name it as their frame.               *)

\* What applyScalarTemplate decides from the object it has read, before any
\* write: go on, or the error it returns.
templateGuard(cur, g) ==
    CASE Exists(cur) /\ cur.term -> "deleting"
      [] Exists(cur) /\ ~cur.term /\ cur.part -> "hard"
      [] Exists(cur) /\ ~cur.term /\ ~cur.part
           /\ ownedByForeignGraphTemplate(cur, g) -> "conflict"
      [] OTHER -> "go"

\* applyPatchOne: the target must exist and not be terminating.
patchGuard(cur) == IF ~Exists(cur) \/ cur.term THEN "notready" ELSE "go"

\* An unforced template apply: done, a peer's field, or drift to be reclaimed.
applyTemplateObject(o, g, wants) ==
    LET causes == IF Exists(o) THEN Conflicts(o, templateFieldManager(g), wants)
                  ELSE {}
    IN  IF causes = {} THEN "done"
        ELSE IF anyConflictOwnedByForeignGraphTemplate(causes, g) THEN "conflict"
        ELSE "force"

\* An unforced patch: done, somebody else's field, or a stale name of its own.
contributeApply(o, m, wants) ==
    LET causes == IF Exists(o) THEN Conflicts(o, m, wants) ELSE {}
    IN  IF causes = {} THEN "done"
        ELSE IF allConflictsAreReclaimable(causes, m) THEN "force"
        ELSE "conflict"

\* What the API server makes of a delete: an object with a finalizer stays
\* as terminating until its controller lets it go.
Deleted(obj, o) == IF obj \in Finalizing THEN [o EXCEPT !.term = TRUE]
                   ELSE NoObject

\* An item of a collection whose apply failed: an update refused for good
\* keeps the live object and converges, any other failure of an update keeps
\* the identity and holds the node; a create refused for good is hard.
classifyRejection(exists, permanent) ==
    IF exists THEN IF permanent THEN "kept" ELSE "held"
    ELSE IF permanent THEN "hard" ELSE "notready"

=============================================================================
