------------------------- MODULE InstanceReconcile --------------------------
(***************************************************************************)
(* The life of one instance of a ResourceGraphDefinition: the reconciler   *)
(* applies the objects its graph asks for, prunes the ones it no longer    *)
(* asks for, and when the instance is deleted tears all of them down.      *)
(*                                                                         *)
(* What it manages it recognises by a label on the object and finds        *)
(* through the inventory on the instance (ApplySet).  Each step of the     *)
(* worker ends at a call that changes the API server or reads it; between  *)
(* two steps users, other controllers and the API server's own deletion    *)
(* act, and the process may die.  The work queue hands the instance's key  *)
(* to one worker at a time.                                                *)
(***************************************************************************)
EXTENDS ApplySet, Sequences, FiniteSets, FiniteSetsExt

CONSTANTS
    Nodes,              \* the identifiers of template nodes
    Graphs,             \* the graphs that may be served to the instance
    ReadyWhen,          \* the nodes with a readyWhen condition
    Orphaned,           \* the objects with deletion policy Orphaned
    NoGraph,            \* the latest revision is not active
    NoNode,             \* an object carries no node label
    Suspends,           \* whether users may suspend the instance
    Faults,             \* the faults that may happen
    MaxEdits,           \* bound: what users do to the instance and its graph
    MaxFaults           \* bound: the faults

\* "error": a call fails.  "lost": it takes effect and its reply is lost.
\* "pending": an expression waits for data.  "crash": the process restarts,
\* "upgrade": as another version.  "delete": somebody deletes an object,
\* "recreate": somebody creates one that does not exist.
FaultKinds == {"error", "lost", "pending", "crash", "upgrade", "delete", "recreate"}

\* A graph, with the values of its expressions:
\*   walk      the nodes in topological order,
\*   deps      the dependencies of each node,
\*   target    the object each node renders,
\*   included  the nodes whose includeWhen holds,
\*   known     what of the target can be rendered before any node is applied:
\*             "full", "kind" (the node waits for another one's data) or
\*             "none" (includeWhen looks false until then).
IsGraph(g) ==
    /\ g.walk \in Seq(Nodes)
    /\ \A i, j \in DOMAIN g.walk : g.walk[i] = g.walk[j] => i = j
    /\ g.deps \in [Nodes -> SUBSET Nodes]
    /\ \A i \in DOMAIN g.walk : \A m \in g.deps[g.walk[i]] :
          \E j \in 1..(i - 1) : g.walk[j] = m
    /\ g.target \in [Nodes -> Objects]
    /\ \A m, n \in Nodes : g.target[m] = g.target[n] => m = n
    /\ g.included \subseteq Nodes
    /\ g.known \in [Nodes -> {"full", "kind", "none"}]

ASSUME InstanceReconcileAssumption ==
    /\ \A g \in Graphs : IsGraph(g)
    /\ NoGraph \notin Graphs
    /\ NoNode \notin Nodes
    /\ ReadyWhen \subseteq Nodes
    /\ Orphaned \subseteq Objects
    /\ Suspends \in BOOLEAN
    /\ Faults \subseteq FaultKinds
    /\ MaxEdits \in Nat
    /\ MaxFaults \in Nat

VARIABLES
    inst,       \* the instance in the API server
    objs,       \* the objects in the API server
    graph,      \* the graph of the latest revision, or NoGraph
    queued,     \* the instance's key is in the work queue
    watched,    \* the objects that the last committed reconcile declared a watch on
    w,          \* the worker
    edits,      \* the edits so far
    faults      \* the faults so far

vars == <<inst, objs, graph, queued, watched, w, edits, faults>>

-----------------------------------------------------------------------------
(* Objects.                                                                *)

\* fin: kro's finalizer.  labels: the labels are those of the running version.
\* owner: the field manager that owns the inventory's annotations; "none" if
\* the annotations are missing.  "parent" also stands for both managers.
Instance == [st : {"none", "live", "deleting"}, fin : BOOLEAN, labels : BOOLEAN,
             suspended : BOOLEAN, owner : {"none", "labeller", "parent"},
             inv : Metadata]
NoInstance == [st |-> "none", fin |-> FALSE, labels |-> FALSE,
               suspended |-> FALSE, owner |-> "none", inv |-> EmptyMetadata]

\* member: the part-of label.  node, order: the node and the apply order that
\* were stamped.  ready: readyWhen holds.  An object that is being deleted is
\* "terminating" until its own finalizers are gone.
Object == [st : {"none", "live", "terminating"}, uid : Nat, member : BOOLEAN,
           node : Nodes \cup {NoNode}, order : Nat, ready : BOOLEAN]
Absent(uid) == [st |-> "none", uid |-> uid, member |-> FALSE, node |-> NoNode,
                order |-> 0, ready |-> FALSE]

Members == {o \in Objects : objs[o].st # "none" /\ objs[o].member}

-----------------------------------------------------------------------------
(* Graphs.                                                                 *)

NodesOf(g) == {g.walk[i] : i \in DOMAIN g.walk}

\* The nodes that are ignored: includeWhen is contagious along dependencies.
Ignored(g) ==
    LET ign[n \in NodesOf(g)] == n \notin g.included \/ \E m \in g.deps[n] : ign[m]
    IN  {n \in NodesOf(g) : ign[n]}

Wanted(g) == {g.target[n] : n \in NodesOf(g) \ Ignored(g)}

\* The wave of a node: one more than the highest of its dependencies'.
ApplyOrder(g, node) ==
    LET order[n \in NodesOf(g)] == 1 + Max({0} \cup {order[m] : m \in g.deps[n]})
    IN  order[node]

\* What is known of the objects to come before the first of them is applied.
CandidateMetadata(g) ==
    LET nodes == NodesOf(g) \ Ignored(g)
        full  == {n \in nodes : g.known[n] = "full"}
        kind  == {n \in nodes : g.known[n] = "kind"}
    IN  Union(MetadataOf({g.target[n] : n \in full}),
              [gks |-> {Kind[g.target[n]] : n \in kind}, nss |-> {}])

-----------------------------------------------------------------------------
(* The worker.                                                             *)

\* A candidate for deletion: an object as it was when it was listed.
Candidate == [obj : Objects, was : Object]

Idle == [pc |-> "idle", g |-> NoGraph, suspended |-> FALSE, i |-> 1, declared |-> {},
         prior |-> EmptyMetadata, superset |-> EmptyMetadata,
         ready |-> {}, unresolved |-> {}, observed |-> {}, hard |-> FALSE,
         applied |-> {}, cands |-> {}, conflict |-> FALSE]

\* The outcomes of a call, each counted in `faults'.
Outcomes == {"ok"} \cup (Faults \cap {"error", "lost"})
Outcome(out) ==
    /\ out = "ok" \/ faults < MaxFaults
    /\ faults' = IF out = "ok" THEN faults ELSE faults + 1
TakesEffect(out) == out # "error"

Fault(kind) ==
    /\ kind \in Faults
    /\ faults < MaxFaults
    /\ faults' = faults + 1

\* The reconcile returns nil or asks to be called again: its watches replace
\* those of the last one.  Events of the meantime are still in the queue.
Return(again) ==
    /\ w' = Idle
    /\ watched' = w.declared
    /\ queued' = (queued \/ again)

\* It returns an error: the key goes back to the queue, the watches stay.
ReturnError ==
    /\ w' = Idle
    /\ UNCHANGED watched
    /\ queued' = TRUE

Continue(w1) ==
    /\ w' = w1
    /\ UNCHANGED <<queued, watched>>

\* An event of object o reaches the instance through a watch.
Event(o) == queued' = (queued \/ o \in watched \cup w.declared)

Init ==
    /\ inst = NoInstance
    /\ objs = [o \in Objects |-> Absent(0)]
    /\ graph \in Graphs
    /\ queued = FALSE
    /\ watched = {}
    /\ w = Idle
    /\ edits = 0
    /\ faults = 0

\* Reconcile: load the instance, then its graph.  While the latest revision is
\* not active the key goes back to the queue, with no watch left; if that
\* revision failed it does not, and the watches stay.
Start ==
    /\ w.pc = "idle"
    /\ queued
    /\ \/ /\ inst.st = "none"
          /\ w' = Idle /\ watched' = {} /\ queued' = FALSE
       \/ /\ inst.st = "live" /\ ~inst.suspended /\ graph = NoGraph
          /\ w' = Idle
          /\ queued' \in BOOLEAN
          /\ watched' = IF queued' THEN {} ELSE watched
       \/ /\ inst.st = "deleting"
          /\ w' = [Idle EXCEPT !.pc = "deletion"]
          /\ queued' = FALSE
          /\ UNCHANGED watched
       \/ /\ inst.st = "live"
          /\ inst.suspended
          /\ w' = [Idle EXCEPT !.pc = "stamp", !.suspended = TRUE]
          /\ queued' = FALSE
          /\ UNCHANGED watched
       \/ /\ inst.st = "live"
          /\ ~inst.suspended
          /\ graph # NoGraph
          /\ w' = [Idle EXCEPT !.pc = "stamp", !.g = graph]
          /\ queued' = FALSE
          /\ UNCHANGED watched
    /\ UNCHANGED <<inst, objs, graph, edits, faults>>

\* The instance after the labeller's server-side apply.  The first one installs
\* an empty inventory; a later one does not mention the inventory, and drops
\* what no other manager owns.  Applied to an instance that is gone it creates
\* a new one.
Stamped ==
    LET install == ~inst.fin /\ inst.owner = "none"
        dropped == ~install /\ inst.owner = "labeller"
    IN  [st        |-> IF inst.st = "none" THEN "live" ELSE inst.st,
         fin       |-> TRUE,
         labels    |-> TRUE,
         suspended |-> inst.suspended,
         owner     |-> IF install THEN "labeller"
                       ELSE IF dropped THEN "none" ELSE inst.owner,
         inv       |-> IF install \/ dropped THEN EmptyMetadata ELSE inst.inv]

\* stampInstanceMetadata.  An instance without its spec may be rejected.
StampInstanceMetadata(out) ==
    /\ w.pc = "stamp"
    /\ Outcome(out)
    /\ \/ /\ ~inst.fin \/ ~inst.labels
          /\ inst' = IF TakesEffect(out) THEN Stamped ELSE inst
          /\ IF out # "ok" THEN ReturnError
             ELSE IF w.suspended THEN Return(FALSE)
             ELSE Continue([w EXCEPT !.pc = "inventory"])
       \/ /\ inst.fin /\ inst.labels
          /\ out = "ok"
          /\ UNCHANGED inst
          /\ IF w.suspended THEN Return(FALSE)
             ELSE Continue([w EXCEPT !.pc = "inventory"])
       \/ /\ inst.st = "none"
          /\ out = "ok"
          /\ UNCHANGED inst
          /\ ReturnError
    /\ UNCHANGED <<objs, graph, edits>>

\* patchInstanceApplySetMetadata: skipped when the annotations are up to date.
PatchInventory(m, out) ==
    inst' = IF (inst.owner # "none" /\ inst.inv = m) \/ ~TakesEffect(out)
            THEN inst
            ELSE [inst EXCEPT !.inv = m, !.owner = "parent"]

\* Mutant: the superset is computed and not persisted.
PreApplyInventorySkips(out) ==
    /\ w.pc = "inventory"
    /\ Outcome(out)
    /\ Continue([w EXCEPT !.pc = "walk", !.prior = inst.inv,
                          !.superset = Union(CandidateMetadata(w.g), inst.inv)])
    /\ UNCHANGED <<inst, objs, graph, edits>>

\* preApplyApplySetInventory: the candidates are persisted before any of them
\* is applied.  The ApplySet keeps the annotations it was created with.
PreApplyInventory(out) ==
    LET superset == Union(CandidateMetadata(w.g), inst.inv)
    IN  /\ w.pc = "inventory"
        /\ Outcome(out)
        /\ PatchInventory(superset, out)
        /\ IF out = "ok"
           THEN Continue([w EXCEPT !.pc = "walk", !.prior = inst.inv,
                                   !.superset = superset])
           ELSE Return(TRUE)
        /\ UNCHANGED <<objs, graph, edits>>

-----------------------------------------------------------------------------
(* The walk (executor.Simple.Apply): the nodes in order, none of which     *)
(* stops it.                                                               *)

Walking == w.pc = "walk" /\ w.i <= Len(w.g.walk)
Walked == w.pc = "walk" /\ w.i > Len(w.g.walk)
Node == w.g.walk[w.i]
Target == w.g.target[Node]
Gated == \E m \in w.g.deps[Node] : m \notin w.ready

Unresolved(w1) == [w1 EXCEPT !.pc = "walk", !.i = @ + 1, !.unresolved = @ \cup {Node}]
\* Mutant: the walk goes on as if the next node were about to be applied.
FailedStays(w1) == [w1 EXCEPT !.i = @ + 1, !.hard = TRUE]
Failed(w1) == [w1 EXCEPT !.pc = "walk", !.i = @ + 1, !.hard = TRUE]

\* A dependency is not ready: the node waits.
WalkGated ==
    /\ Walking
    /\ Gated
    /\ Continue(Unresolved(w))
    /\ UNCHANGED <<inst, objs, graph, edits, faults>>

WalkIgnored ==
    /\ Walking
    /\ ~Gated
    /\ Node \in Ignored(w.g)
    /\ Continue([w EXCEPT !.i = @ + 1, !.ready = @ \cup {Node}])
    /\ UNCHANGED <<inst, objs, graph, edits, faults>>

\* An expression waits for data, or the kind is not installed yet.
WalkPending ==
    /\ Walking
    /\ ~Gated
    /\ Fault("pending")
    /\ Continue(Unresolved(w))
    /\ UNCHANGED <<inst, objs, graph, edits>>

\* Mutant: no watch is declared.
WalkGetNoWatch(out) ==
    /\ Walking
    /\ ~Gated
    /\ Node \notin Ignored(w.g)
    /\ out # "lost"
    /\ Outcome(out)
    /\ Continue(IF out = "error" THEN Failed(w)
                ELSE IF objs[Target].st = "terminating" THEN Unresolved(w)
                ELSE [w EXCEPT !.pc = "apply"])
    /\ UNCHANGED <<inst, objs, graph, edits>>

\* Declare the watch, then read the live object; one that is being deleted is
\* not applied.
WalkGet(out) ==
    /\ Walking
    /\ ~Gated
    /\ Node \notin Ignored(w.g)
    /\ out # "lost"
    /\ Outcome(out)
    /\ LET w1 == [w EXCEPT !.declared = @ \cup {Target}]
       IN  Continue(IF out = "error" THEN Failed(w1)
                    ELSE IF objs[Target].st = "terminating" THEN Unresolved(w1)
                    ELSE [w1 EXCEPT !.pc = "apply"])
    /\ UNCHANGED <<inst, objs, graph, edits>>

\* The target after a server-side apply: created, or adopted and stamped.
AppliedObject ==
    LET old == objs[Target]
        new == IF old.st = "none"
               THEN [Absent(old.uid + 1) EXCEPT !.st = "live",
                                                !.ready = Node \notin ReadyWhen]
               ELSE old
    IN  [new EXCEPT !.member = TRUE, !.node = Node,
                    !.order = ApplyOrder(w.g, Node)]

\* Only an apply that returns is recorded.  readyWhen is checked on its reply.
WalkApply(out) ==
    /\ w.pc = "apply"
    /\ Outcome(out)
    /\ objs' = IF TakesEffect(out) THEN [objs EXCEPT ![Target] = AppliedObject]
               ELSE objs
    /\ w' = IF out # "ok" THEN Failed(w)
            ELSE [w EXCEPT !.pc = "walk", !.i = @ + 1,
                    !.applied = @ \cup {[obj |-> Target, uid |-> AppliedObject.uid]},
                    !.observed = @ \cup {Node},
                    !.ready = IF AppliedObject.ready THEN @ \cup {Node} ELSE @]
    /\ queued' = (queued \/ objs' # objs)
    /\ UNCHANGED <<inst, graph, watched, edits>>

-----------------------------------------------------------------------------
(* After the walk (reconcileApplySetInventory).                            *)

Batch == MetadataOf({a.obj : a \in w.applied})
FullyResolved == ~w.hard /\ w.unresolved = {}
\* Mutant: every node of the graph counts as completed.
CompletedAll == IF w.hard THEN {} ELSE NodesOf(w.g)
Completed == IF w.hard THEN {} ELSE w.observed \ w.unresolved
NotReady == ~(NodesOf(w.g) \subseteq w.ready)

\* A partial cycle records what it applied in what the ApplySet remembers.
GrowInventory(out) ==
    /\ Walked
    /\ ~FullyResolved
    /\ Outcome(out)
    /\ PatchInventory(Union(Batch, w.prior), out)
    /\ IF out = "ok" /\ Completed # {}
       THEN Continue([w EXCEPT !.pc = "list"])
       ELSE Return(TRUE)
    /\ UNCHANGED <<objs, graph, edits>>

\* ListOrphans: the members in scope whose UID is not one to keep.
Listed(m, keep) ==
    {[obj |-> o, was |-> objs[o]] :
        o \in {x \in Members : InScope(x, m) /\ objs[x].uid \notin keep[x]}}

\* A partial cycle prunes only what a completed node had applied before.
ListOrphans(out) ==
    LET keep  == [o \in Objects |-> {a.uid : a \in {b \in w.applied : b.obj = o}}]
        scope == IF w.superset.gks = {} THEN Union(Batch, w.prior) ELSE w.superset
        all   == Listed(scope, keep)
    IN  /\ w.pc = "list" \/ (Walked /\ FullyResolved)
        /\ out # "lost"
        /\ Outcome(out)
        /\ IF out = "ok"
           THEN Continue([w EXCEPT !.pc = "prune",
                    !.cands = IF FullyResolved THEN all
                              ELSE {c \in all : c.was.node \in Completed}])
           ELSE Return(TRUE)
        /\ UNCHANGED <<inst, objs, graph, edits>>

\* DeleteOrphan, with the listed UID as a precondition; the mutant has none.
DeleteConflictNever(c) == FALSE
DeleteConflict(c) == objs[c.obj].st # "none" /\ objs[c.obj].uid # c.was.uid
Deleted(c) ==
    IF objs[c.obj].st = "none" \/ DeleteConflict(c) THEN objs
    ELSE [objs EXCEPT ![c.obj].st = "terminating"]

\* ReleaseOrphan, an update that fails when the object changed since.
ReleaseConflict(c) == objs[c.obj].st # "none" /\ objs[c.obj] # c.was
Released(c) ==
    IF objs[c.obj].st = "none" \/ ReleaseConflict(c) THEN objs
    ELSE [objs EXCEPT ![c.obj] = [@ EXCEPT !.member = FALSE, !.node = NoNode,
                                           !.order = 0]]

\* One orphan less; the dependents' waves come first.
PruneOrphan(c, out) ==
    LET release == c.obj \in Orphaned
    IN  /\ w.pc = "prune"
        /\ c \in w.cands
        /\ \A d \in w.cands : d.was.order <= c.was.order
        /\ Outcome(out)
        /\ objs' = IF ~TakesEffect(out) THEN objs
                   ELSE IF release THEN Released(c) ELSE Deleted(c)
        /\ IF out = "ok"
           THEN Continue([w EXCEPT !.cands = @ \ {c},
                    !.conflict = @ \/ IF release THEN ReleaseConflict(c)
                                      ELSE DeleteConflict(c)])
           ELSE Return(TRUE)
        /\ UNCHANGED <<inst, graph, edits>>

\* Mutant: the inventory shrinks after every prune.
AlignInventoryAlways(out) ==
    /\ w.pc = "prune"
    /\ w.cands = {}
    /\ Outcome(out)
    /\ PatchInventory(Batch, out)
    /\ Return(NotReady \/ out # "ok")
    /\ UNCHANGED <<objs, graph, edits>>

\* The inventory shrinks to the batch when all of the rest was pruned.
AlignInventory(out) ==
    /\ w.pc = "prune"
    /\ w.cands = {}
    /\ Outcome(out)
    /\ \/ /\ FullyResolved /\ ~w.conflict
          /\ PatchInventory(Batch, out)
          /\ Return(NotReady \/ out # "ok")
       \/ /\ ~(FullyResolved /\ ~w.conflict)
          /\ out = "ok"
          /\ UNCHANGED inst
          /\ Return(TRUE)
    /\ UNCHANGED <<objs, graph, edits>>

-----------------------------------------------------------------------------
(* Deletion (reconcileDeletion), from the inventory alone.                 *)

\* discoverDeletionInventory.  An instance without an inventory is refused.
DiscoverDeletionInventory(out) ==
    /\ w.pc = "deletion"
    /\ out # "lost"
    /\ Outcome(out)
    /\ IF inst.owner # "none" /\ out = "ok"
       THEN Continue([w EXCEPT !.pc = "release",
                !.cands = Listed(inst.inv, [o \in Objects |-> {}])])
       ELSE ReturnError
    /\ UNCHANGED <<inst, objs, graph, edits>>

ReleaseOrphanedResource(c, out) ==
    /\ w.pc = "release"
    /\ c \in w.cands
    /\ c.obj \in Orphaned
    /\ Outcome(out)
    /\ objs' = IF TakesEffect(out) THEN Released(c) ELSE objs
    /\ IF out = "ok"
       THEN Continue([w EXCEPT !.cands = @ \ {c},
                               !.conflict = @ \/ ReleaseConflict(c)])
       ELSE ReturnError
    /\ UNCHANGED <<inst, graph, edits>>

\* Mutant: objects that are terminating do not hold back the next wave.
HighestDeletionWaveLive(cands) ==
    LET live == {c \in cands : c.was.st = "live"}
    IN  {c \in live : \A d \in live : d.was.order <= c.was.order}

HighestDeletionWave(cands) ==
    {c \in cands : \A d \in cands : d.was.order <= c.was.order}

\* Nothing is left: on to the finalizer.  Otherwise one wave is deleted.
ChooseDeletionWave ==
    /\ w.pc = "release"
    /\ \A c \in w.cands : c.obj \notin Orphaned
    /\ \/ /\ w.conflict
          /\ Return(TRUE)
       \/ /\ ~w.conflict
          /\ w.cands = {}
          /\ Continue([w EXCEPT !.pc = "finalizer"])
       \/ /\ ~w.conflict
          /\ w.cands # {}
          /\ Continue([w EXCEPT !.pc = "wave",
                !.cands = {c \in HighestDeletionWave(w.cands) :
                              c.was.st # "terminating"}])
    /\ UNCHANGED <<inst, objs, graph, edits, faults>>

DeleteInWave(c, out) ==
    /\ w.pc = "wave"
    /\ c \in w.cands
    /\ Outcome(out)
    /\ objs' = IF TakesEffect(out) THEN Deleted(c) ELSE objs
    /\ IF out = "ok"
       THEN Continue([w EXCEPT !.cands = @ \ {c}])
       ELSE ReturnError
    /\ UNCHANGED <<inst, graph, edits>>

\* Mutant: nothing asks for the next reconcile.
EndWaveForgets ==
    /\ w.pc = "wave"
    /\ w.cands = {}
    /\ Return(FALSE)
    /\ UNCHANGED <<inst, objs, graph, edits, faults>>

\* The next reconcile looks whether the wave is gone.
EndWave ==
    /\ w.pc = "wave"
    /\ w.cands = {}
    /\ Return(TRUE)
    /\ UNCHANGED <<inst, objs, graph, edits, faults>>

\* removeFinalizer: the watches go first.
RemoveFinalizer(out) ==
    /\ w.pc = "finalizer"
    /\ Outcome(out)
    /\ inst' = IF TakesEffect(out) THEN NoInstance ELSE inst
    /\ w' = Idle
    /\ watched' = {}
    /\ queued' = (queued \/ out # "ok")
    /\ UNCHANGED <<objs, graph, edits>>

-----------------------------------------------------------------------------
(* Users, other controllers, the API server and the process.               *)

Edit ==
    /\ edits < MaxEdits
    /\ edits' = edits + 1

CreateInstance(suspended) ==
    /\ inst.st = "none"
    /\ Edit
    /\ suspended => Suspends
    /\ inst' = [NoInstance EXCEPT !.st = "live", !.suspended = suspended]
    /\ queued' = TRUE
    /\ UNCHANGED <<objs, graph, watched, w, faults>>

DeleteInstance ==
    /\ inst.st = "live"
    /\ Edit
    /\ inst' = IF inst.fin THEN [inst EXCEPT !.st = "deleting"] ELSE NoInstance
    /\ queued' = TRUE
    /\ UNCHANGED <<objs, graph, watched, w, faults>>

\* The suspended annotation is set or removed.
Suspend ==
    /\ Suspends
    /\ inst.st = "live"
    /\ Edit
    /\ inst' = [inst EXCEPT !.suspended = ~@]
    /\ queued' = TRUE
    /\ UNCHANGED <<objs, graph, watched, w, faults>>

\* Another revision, or another spec of the instance.
ChangeGraph(g) ==
    /\ g # graph
    /\ Edit
    /\ graph' = g
    /\ queued' = (queued \/ inst.st # "none")
    /\ UNCHANGED <<inst, objs, watched, w, faults>>

ObjectReady(o) ==
    /\ objs[o].st = "live"
    /\ ~objs[o].ready
    /\ objs' = [objs EXCEPT ![o].ready = TRUE]
    /\ Event(o)
    /\ UNCHANGED <<inst, graph, watched, w, edits, faults>>

ObjectGone(o) ==
    /\ objs[o].st = "terminating"
    /\ objs' = [objs EXCEPT ![o] = Absent(objs[o].uid)]
    /\ Event(o)
    /\ UNCHANGED <<inst, graph, watched, w, edits, faults>>

DeleteObject(o) ==
    /\ objs[o].st = "live"
    /\ Fault("delete")
    /\ objs' = [objs EXCEPT ![o].st = "terminating"]
    /\ Event(o)
    /\ UNCHANGED <<inst, graph, watched, w, edits>>

RecreateObject(o) ==
    /\ objs[o].st = "none"
    /\ objs[o].uid > 0
    /\ Fault("recreate")
    /\ objs' = [objs EXCEPT ![o] = [Absent(objs[o].uid + 1) EXCEPT !.st = "live",
                                                                   !.ready = TRUE]]
    /\ Event(o)
    /\ UNCHANGED <<inst, graph, watched, w, edits>>

\* The process restarts, and finds every instance in its informer.  Another
\* version asks for other labels.
Restart(kind) ==
    /\ Fault(kind)
    /\ w' = Idle
    /\ watched' = {}
    /\ queued' = (inst.st # "none")
    /\ inst' = IF kind = "upgrade" THEN [inst EXCEPT !.labels = FALSE] ELSE inst
    /\ UNCHANGED <<objs, graph, edits>>

-----------------------------------------------------------------------------

Work ==
    \/ Start
    \/ \E out \in Outcomes :
          \/ StampInstanceMetadata(out)
          \/ PreApplyInventory(out)
          \/ WalkGet(out)
          \/ WalkApply(out)
          \/ GrowInventory(out)
          \/ ListOrphans(out)
          \/ \E c \in w.cands : PruneOrphan(c, out)
          \/ AlignInventory(out)
          \/ DiscoverDeletionInventory(out)
          \/ \E c \in w.cands : ReleaseOrphanedResource(c, out)
          \/ \E c \in w.cands : DeleteInWave(c, out)
          \/ RemoveFinalizer(out)
    \/ WalkGated
    \/ WalkIgnored
    \/ WalkPending
    \/ ChooseDeletionWave
    \/ EndWave

Environment ==
    \/ \E s \in BOOLEAN : CreateInstance(s)
    \/ DeleteInstance
    \/ Suspend
    \/ \E g \in Graphs \cup {NoGraph} : ChangeGraph(g)
    \/ \E o \in Objects : ObjectReady(o) \/ ObjectGone(o) \/ DeleteObject(o)
                          \/ RecreateObject(o)
    \/ \E kind \in {"crash", "upgrade"} : Restart(kind)

Next == Work \/ Environment

Spec == Init /\ [][Next]_vars

\* A worker takes what the queue holds; objects become ready, and go away
\* once they are deleted.
FairSpec ==
    /\ Spec
    /\ WF_vars(Work)
    /\ \A o \in Objects : WF_vars(ObjectReady(o)) /\ WF_vars(ObjectGone(o))

-----------------------------------------------------------------------------
(* Properties.                                                             *)

WorkerType ==
    /\ w.pc \in {"idle", "stamp", "inventory", "walk", "apply", "list", "prune",
                 "deletion", "release", "wave", "finalizer"}
    /\ w.g \in Graphs \cup {NoGraph}
    /\ w.pc \in {"inventory", "walk", "apply", "list", "prune"} => w.g # NoGraph
    /\ w.pc = "apply" => w.i <= Len(w.g.walk)
    /\ w.suspended \in BOOLEAN
    /\ w.i \in Nat \ {0}
    /\ w.declared \subseteq Objects
    /\ w.prior \in Metadata
    /\ w.superset \in Metadata
    /\ w.ready \subseteq Nodes
    /\ w.unresolved \subseteq Nodes
    /\ w.observed \subseteq Nodes
    /\ w.hard \in BOOLEAN
    /\ w.applied \subseteq [obj : Objects, uid : Nat]
    /\ \A c \in w.cands : c \in Candidate
    /\ w.conflict \in BOOLEAN

\* Every variable has its type, and a worker that walks has a graph.
TypeOK ==
    /\ inst \in Instance
    /\ \A o \in Objects : objs[o] \in Object
    /\ DOMAIN objs = Objects
    /\ graph \in Graphs \cup {NoGraph}
    /\ queued \in BOOLEAN
    /\ watched \subseteq Objects
    /\ WorkerType
    /\ edits \in 0..MaxEdits
    /\ faults \in 0..MaxFaults

\* Whatever kro created or adopted and did not delete or release, it would find
\* again: every live member lies in the persisted inventory's scope, at every
\* moment at which the process may die or the instance be deleted.
InventoryCovers ==
    \A o \in Members : objs[o].st = "live" => InScope(o, inst.inv)

\* Once the finalizer let the instance go, none of its objects is left alive
\* (reconcileDeletion, removeFinalizer).
NoOrphans ==
    inst.st = "none" => \A o \in Members : objs[o].st # "live"

\* kro deletes object o in this step.
KroDeletes(o) ==
    /\ w.pc \in {"prune", "wave"}
    /\ objs[o].st = "live"
    /\ objs'[o].st = "terminating"
    /\ w' # w

\* A prune never deletes an object that the node it was applied for still asks
\* for, whatever that node's turn in this cycle came to: gated, pending,
\* failed, applied and not ready, or applied to an object that was deleted and
\* created anew in the meantime.
PruneSparesWanted ==
    [][\A o \in Objects : KroDeletes(o) /\ w.pc = "prune" =>
          ~\E n \in NodesOf(w.g) \ Ignored(w.g) :
              w.g.target[n] = o /\ objs[o].node = n]_vars

\* kro deletes members only: an object that somebody else put in the place of
\* a member after it was listed is left alone (DeleteOrphan).
ForeignSpared ==
    [][\A o \in Objects : KroDeletes(o) => objs[o].member]_vars

\* The deletion of an instance takes an object down only when every member of
\* a higher wave is gone; one that an earlier prune is still deleting, and that
\* left the inventory since, is not waited for (highestDeletionWave).
DependentsFirst ==
    [][\A o \in Objects : KroDeletes(o) /\ w.pc = "wave" =>
          \A p \in Members : objs[p].order > objs[o].order =>
              objs[p].st = "terminating" /\ ~InScope(p, inst.inv)]_vars

\* An instance that is being deleted is gone at last.
DeletionCompletes ==
    inst.st = "deleting" ~> inst.st # "deleting"

\* When users and faults come to rest, so does the instance: exactly the
\* objects its graph asks for are members, alive and ready, and the inventory
\* is theirs.
Converged ==
    /\ Members = Wanted(graph)
    /\ \A o \in Members : objs[o].st = "live" /\ objs[o].ready
    /\ inst.inv = MetadataOf(Wanted(graph))

Converges ==
    <>[](inst.st = "live" /\ ~inst.suspended /\ graph # NoGraph => Converged)

=============================================================================
