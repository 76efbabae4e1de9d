# A TLA+ verification of kro

kro turns a `ResourceGraphDefinition` (RGD) into an API of its own: it generates
a CRD, compiles the RGD's graph of resources, and reconciles every instance of
the CRD by applying that graph. A `Graph` is the same engine without an API of
its own. This directory specifies the parts of kro that run concurrently or keep
state across failures, and the pure functions that decide what they run: the
builder, the compiler, the schemas. TLC checks small instances of the
specifications and TLAPS proves the central invariants for all instances. Paths
below are relative to `src/`.

## 1. Inventory

### Components, state and operations

| Component | State | Operations |
|---|---|---|
| RGD controller (`pkg/controller/resourcegraphdefinition`) | RGD object (finalizer, conditions, `lastIssuedRevision`), `registeredControllers` | reconcile (manage, list and adopt revisions, resolve, issue, serve, collect, status), cleanup |
| GraphRevision controller (`pkg/controller/graphrevision`) | GraphRevision objects (immutable spec, finalizer, `GraphVerified`) | reconcile (manage, pend, compile, status, publish), finalize and evict |
| Revision registry (`pkg/graph/revisions`) | in memory: per RGD name, entries by revision and a pointer to the latest | Put, Get, Latest, Delete, DeleteAll, DeleteRevisionsBefore |
| Watch manager (`pkg/watch`) | informers by GVR and the owner IDs that retain them | EnsureWatch, ReleaseWatch, Shutdown |
| Watch coordinator (`pkg/watch/coordinator`) | per owner the watches declared and committed; the indexes that route events | For, Watch, Done(true), Done(false), Remove, RemoveWhere, RouteEvent |
| Dynamic controller (`pkg/dynamiccontroller`) | handlers by parent GVR, one work queue, parent event handlers | Register, Deregister, the workers, requeue rules |
| Instance controller (`pkg/controller/instance`) | instance object (finalizer, ApplySet annotations, patch contributions, conditions) | reconcile through the graph engine, suspension, deletion in waves |
| ApplySet (`pkg/controller/instance/applyset`) | the inventory: group-kinds and namespaces in annotations of the instance | Project, Union, ListOrphans, DeleteOrphan, ReleaseOrphan |
| Executor and runtime (`pkg/graphengine/{executor,runtime}`) | per reconcile: node results, scope, identities claimed | Apply (a walk in topological order), Delete, Release |
| Graph controller (`pkg/controller/graph`) | Graph objects: finalizer, managed resources with UIDs, patch contributions, applied identity | reconcile, write-ahead, prune, release, teardown |
| Schema watcher, engine registry (`pkg/graphengine/{schemawatcher,registry}`) | which Graphs read which CRD, the hash last seen; compiled programs with epochs | Track, Done, CRD events; Lookup, Compile, Delete |
| Watch router (`pkg/graphengine/watchrouter`) | the committed watches of Graphs | ForGraph, routeEvent |
| Builder, validation, DAG (`pkg/graph`, `pkg/dag`) | none | an RGD checked and turned into a graph with its order and waves |
| Graph compiler, RGD adapter (`pkg/graphengine/{compiler,rgdadapter}`) | the program cache shared by the instances of an RGD | frames, name resolution, captures; translation of an RGD |
| Simple schema, CRD generation, compatibility, client (`pkg/simpleschema`, `pkg/graph/crd`, `pkg/client`) | the CRD served | schema from text, comparison of two schemas, `Ensure` |
| Hash, condition sets, CEL (`pkg/graph/hash`, `pkg/apis`, `pkg/cel`) | none | pure functions |
| CLI, tools, metrics, main (`cmd`, `tools`, `pkg/metrics`) | none that matters here | pure I/O and wiring |

### How they interact

A user's edit of an RGD reaches the RGD controller through the manager's cache.
It lists the GraphRevisions in the API server, compares the newest one's entry in
the registry with the hash of the spec, and creates a new GraphRevision or waits.
The GraphRevision controller compiles each object and puts the result in the
registry. Once the newest entry is Active, the RGD controller ensures the CRD and
registers a micro-controller with the dynamic controller; instances resolve the
graph through `Registry.Latest`. An instance reconcile declares its watches to the
coordinator while the executor applies the nodes, and commits them at the end;
the coordinator retains the informers it needs in the watch manager, which it
shares with the dynamic controller. Events come back through `RouteEvent` to the
queue.

An RGD reaches the engine twice: the builder checks it and orders its resources
when the revision is made, and the RGD adapter translates the revision into a
Graph that the engine's own compiler compiles, through a cache, when an instance
is reconciled. The two have separate code for names, dependencies and types and
must agree. A `Graph` goes to the compiler directly; the schema watcher drops its
program when a CRD it reads changes, and the router re-enqueues it when an object
it reads or wrote changes.

### What is hard

The hazards are listed in `PROJECT.json`, each at its line. The families:

- two controllers and a registry in memory between them, with restarts, stale
  caches, terminating objects and re-created RGDs;
- critical sections that compute something under one lock and act on it under
  another (coordinator and manager);
- ordered writes to two objects with a crash between them (inventory and
  children, status and number, finalizer and entry);
- waits that rely on an event or a requeue that must come;
- an inventory that is the only way back to the objects a Graph or an instance
  has written, while nodes come, go, wait and fail;
- two compilers for one definition, names captured across nested graphs, and a
  chain of CRD updates each judged only against the last.

### What makes each component correct

- Registry: `Latest` is the newest entry, whatever the order of writes.
- RGD controller: numbers are never taken, no revision is issued twice for a
  spec, retention spares what is served, a good spec ends up served, deletion
  completes and takes the micro-controller along.
- GraphRevision controller: Active means verified and persisted.
- Manager and coordinator: informers run exactly while retained, the index is
  exactly what owners declared, nothing leaks, committed watches stay alive.
- Instance controller and ApplySet: the persisted inventory covers the children
  in the cluster at every moment, pruning spares what is wanted, deletion goes
  in reverse apply order and removes the finalizer last.
- Dynamic controller: no event of an instance or of a child it watches is lost,
  whatever the order of registrations, and every served instance is reconciled
  in its last version.
- Graph controller and executor: the inventory lists what the Graph holds before
  it writes it, teardown leaves nothing and touches nothing of others, a
  converged Graph is what its spec says, a stored program is not stale.
- Builder, compiler, adapter: cycles and orders are exact, what the builder
  accepts the engine compiles with the same dependencies, names mean the nearest
  declaration.
- Schemas: an accepted definition is what is served, and no sequence of
  compatible updates makes a stored instance invalid.

## 2. Modules

| Module | Models | Extends |
|---|---|---|
| `RevisionRegistry` | the registry's bucket, one operator per method | |
| `GraphRevisions` | RGD controller, GraphRevision controller, API server, users, Kubernetes garbage collector, restarts | `RevisionRegistry` |
| `MCGraphRevisions` | its instances for TLC | `GraphRevisions` |
| `GraphRevisionsProofs` | the registry's operators, inductive invariant and theorems | `GraphRevisions` |
| `WatchManager` | the shared informers, one operator per method | |
| `WatchCoordinator` | coordinator and manager, interleaved at their critical sections | `WatchManager` |
| `MCWatchCoordinator` | its instances for TLC | `WatchCoordinator` |
| `WatchCoordinatorProofs` | inductive invariant and theorems | `WatchCoordinator` |
| `ApplySet` | the inventory: metadata, union, search scope | |
| `InstanceReconcile` | instance controller, the executor's walk of template nodes, API server, users, restarts | `ApplySet` |
| `MCInstanceReconcile` | its instances for TLC | `InstanceReconcile` |
| `InstanceReconcileProofs` | inductive invariant and theorems | `InstanceReconcile` |
| `DynamicController` | queue, workers, registration, parent and child events, verdicts and retries | |
| `MCDynamicController` | its instances for TLC | `DynamicController` |
| `DynamicControllerProofs` | inductive invariant and theorems | `DynamicController` |
| `Executor` | objects under server-side apply, field managers, the ownership checks before a write | |
| `SchemaWatcher` | CRDs, subscriptions, the registry of programs with its epochs | |
| `GraphInventory` | abstract: what the inventory of a Graph promises | |
| `GraphController` | the reconcile and teardown of Graphs, a step per API call, with users, peers, CRDs and crashes | `Executor`, `SchemaWatcher`; `GraphInventory` by `INSTANCE` |
| `MCGraphController` | eleven situations and the two of the findings | `GraphController` |
| `GraphControllerProofs` | the effect of each action, inductive invariants and theorems | `GraphController` |
| `GraphOwnershipProofs` | what a Graph lists and deletes: invariants and theorems | `GraphControllerProofs` |
| `GraphInventoryProofs` | what a Graph leaves behind: invariants, theorems and the refinement of `GraphInventory` | `GraphOwnershipProofs` |
| `Dag` | vertices, edges with rollback, the stable sort, the layers | |
| `GraphBuilder` | the checks of an RGD and the graph built from it | `Dag` |
| `GraphBuilderProofs` | what the graphs of `Dag` and the builder promise, for every finite graph and every definition | `GraphBuilder` |
| `GraphCompiler` | the compiler of Graphs: frames, captures, checks, programs | `Dag` |
| `RgdAdapter` | an RGD as a Graph, the compile options, the program cache | `GraphCompiler` |
| `SimpleSchema` | types, markers, custom types to a schema | `Dag` |
| `SchemaCompat` | the generated CRD, the comparison, `Ensure`; what the API server admits | `SimpleSchema` |
| `Definitions` | an author, the builder, the CRD, instances and the program cache together | `SchemaCompat`; `GraphBuilder`, `RgdAdapter` by `INSTANCE` |
| `MCDefinitions` | the definitions and graphs TLC enumerates | `Definitions` |

### GraphRevisions

One RGD name. `rgd`, `gr` and `crd` are the objects in the API server, `rgdC` the
manager's cached copy of the RGD (the GraphRevisions are read uncached by
`listGraphRevisions`; their reconciler starts from an object and every write of
it fails or succeeds against the current one). `rq` and `gq` are the work queues,
`reg` the registry bucket, `w` the RGD worker, `g[r]` the worker of revision `r`,
`handler` and `registered` the micro-controller and `registeredControllers`.

controller-runtime never runs two reconciles of one key, so the RGD reconciler is
one process with a program counter and there is one process per revision, at most
`GRWorkers` of them at once. A step ends at a call that others can see:

| Code | Actions |
|---|---|
| `Reconcile` reads the object | `RgdStart`, `GrStart` |
| `setManaged`, `setUnmanaged` | `RgdSetManaged`, `RgdSetUnmanaged`, `GrSetManaged`, `GrSetUnmanaged` |
| `listGraphRevisions`, `adoptGraphRevisions` | `RgdList` |
| `resolveGraphRevisions` | `RgdResolve`, `Resolution` |
| `createGraphRevision` | `RgdCreate`, `NextRevision` |
| `ensureServingState` | `RgdServe` |
| `garbageCollectGraphRevisions` | `RgdGC`, `Collectable` |
| `updateStatus` | `RgdUpdateStatus`, `GrUpdateStatus` |
| `cleanupResourceGraphDefinition` | `RgdCleanup` |
| `reconcileGraphRevision` and the publication | `GrPend`, `GrCompile`, `GrPublish` |
| eviction | `GrEvict` |
| watch predicates | `RgdSync` |

`Hash` and `BadSpecs` stand for the spec hash and for the builder: which specs
are equal up to form, and which never compile. `Fault` counts what the
environment does wrong: failed calls, replies that are lost after the call took
effect (`LostReplies`), restarts, deletions by hand. Left out: the conditions
GraphAccepted and GraphRevisionsResolved, events, metrics, the rejection of a
breaking CRD change, two RGDs that claim one CRD, and the immutability of
GraphRevision specs, which the API server enforces.

### WatchCoordinator

`m` is the Manager; `owners`, `current`, `previous`, `index` the coordinator's
maps (both indexes are one set of pairs: an entry is a key and a request). `w[k]`
is the reconcile of key `k`: declare (`addWatch`), release what it orphaned
(`stopWatches`), `Ensure` the informer and wait for its initial list
(`WaitSucceeds`; or `WaitExpires`, `WaitTimesOut`, then `Rollback`), and end with `done` or `abort`.
`Remove` and `RemoveWhere` are the deletion of an owner and of a parent. Each
action is one critical section of `Coordinator.mu` or `Manager.mu`, since the code
never holds both. A waiting worker observes its own informer: if that one is
stopped, it never syncs and the wait ends in a timeout, even if another informer
of the GVR starts (`Observed`). Left out: label matching in `RouteEvent`, metrics
observers, `Shutdown`.

### InstanceReconcile

One instance and the objects its graphs may render. `inst` and `objs` are the
objects in the API server, `graph` the graph of the latest revision together with
the values its expressions take for the instance's spec, `queued` the key in the
work queue, `watched` the committed watches, `w` the worker. The dynamic
controller's queue hands a key to one worker at a time, so there is one worker; a
step ends at an API call, and every call may fail (`"error"`) or take effect while
its reply is lost (`"lost"`).

| Code | Actions |
|---|---|
| `Reconcile`, `reconcileSuspended` | `Start` |
| `stampInstanceMetadata` | `StampInstanceMetadata`, `Stamped` |
| `preApplyApplySetInventory`, `candidateMetadata` | `PreApplyInventory`, `CandidateMetadata` |
| `Simple.Apply`, template nodes | `WalkGated`, `WalkIgnored`, `WalkPending`, `WalkGet`, `WalkApply` |
| `pruneGate`, `reconcileApplySetInventory` | `FullyResolved`, `Completed`, `GrowInventory`, `AlignInventory` |
| `pruneGraphEngineOrphans` | `ListOrphans`, `PruneOrphan` |
| `reconcileDeletion` | `DiscoverDeletionInventory`, `ReleaseOrphanedResource`, `ChooseDeletionWave`, `DeleteInWave`, `EndWave` |
| `removeFinalizer` | `RemoveFinalizer` |

What server-side apply does to fields that a manager owned and no longer mentions
matters for the inventory, so `inst.owner` says which manager owns its
annotations. `known` says how much of a node's object can be rendered before the
walk. An object is its identity, with the UID, the part-of label, the node and
the apply order of the last apply; objects somebody else creates carry none.

Left out: patch contributions, refs, collections and subgraphs, status and
conditions, two nodes that render one object (refused before the walk, and a
precondition on graphs here), members of other ApplySets, members without apply
order, a retry limit on raw errors, and `DefaultRequeueDuration` 0. The worker
reads the instance where the code uses the copy it loaded: nobody else writes
the finalizer or the inventory, and both are gone only after the worker's own
last step.

### DynamicController

`obj` are the instances in the API server, `store` and `events` what the parent
informers hold and have still to deliver, `registrar[p]` the RGD reconciler inside
`Register` or `Deregister`, which hold no lock across their steps. The child side is the
coordinator at the level of its promise: a key's watch is declared, committed or
absent; `RouteEvent` matches (`RouteEvent`) and enqueues later (`RouteEnqueue`).
`run[k]` is a reconcile: `Get`, `Load`, `Watch`, `Read`, `Converge` or `Unmanage`,
each of which may fail, panic or end with one of the verdicts of `pkg/requeue`
(`Ends`), on which the queue forgets, retries with a limit, or waits for a timer.
`acted[k]` records what the last reconcile read. The dropping of a key after
`QueueMaxRetries` is part of the model, and `Converges` excepts it.

### Executor, SchemaWatcher, GraphController

An object (`objs[o]`) is its UID, its fields with the managers that own them, its
status and whether it is being deleted. `ssaApply` is server-side apply: a conflict
unless forced, and fields the manager no longer mentions are dropped. The guards
before a write (`templateGuard`, `patchGuard`), the reclaiming of stale patch
managers and the deletion by UID are operators of `Executor`. A spec is a sequence
of nodes in topological order with their kind (template, patch, ref, graph), the
objects they render, the nodes they read, and the frame they belong to.

| Code | Actions |
|---|---|
| `Reconcile`, `setManaged` | `Begin`, `setManaged` |
| `trackSchemaDependencies`, `Registry.Compile` | `CompileStart`, `CompileEnd` |
| `writeAheadIntent` | `WriteAheadManaged`, `WriteAheadContributions` |
| `Simple.Apply` | `EnterNode`, `Skip`, `Unresolved`, `GetLive`, `ApplyObject` |
| after the apply | `Finish`, `DeleteEntry`, `DeleteChecked`, `EndPrune`, `ReleaseGet`, `ReleaseApply`, `SettleContributions` |
| `updateStatus` | `updateStatus` |
| `reconcileDelete`, `setUnmanaged` | `DeleteEntry`, `EndDelete`, `ReleaseFailed`, `setUnmanaged` |
| schema watcher | `CrdChanges`, `CrdEvent`, `Drain` |

Every API call may fail, or take effect while its reply is lost. Others edit and
delete Graphs (`EditGraph`, `DeleteGraph`), change or delete objects (`Meddle`),
report statuses (`Report`), install and remove CRDs, and the process dies
(`Crash`). The entries of an inventory are deleted in any order; the code goes
backwards. Reads see the current state.

`GraphInventory` is the abstract specification: `known[g]` is what the inventory
lists, `held[g]` the objects that only it can remove. An object is listed before
it is written, leaves the list only when it is held no more, and the Graph goes
after the last of them. An apply of one Graph can take a field from another, so a
write may cost other Graphs the object. `ImplementsInventory` maps `known` to
`status.managedResources` and `held` to `Held(g)`: the objects that are there to
stay, carry the Graph's template manager, and either can be foreseen by the
write-ahead (`Foreseen`: the first object under its name, written by no other Graph,
all of whose nodes can be announced) or are led to by the inventory. A foreseen
object is held from the moment it is written, listed or not, so a write that the
write-ahead has not announced is no step of `GraphInventory`. The inventory leads to an
object if it lists its UID, or if it lists no UID (the write-ahead knows none) and no
template of another Graph has reached the object, since then the teardown finds this
Graph's manager alone on it and deletes it. The history `wrote` holds who has reached
which object under which UID; `uids[o]` counts the UIDs a name has had.

`NoOrphans` speaks of the objects themselves: after teardown none is left. After a
crash, a failed call or a lost reply three kinds are exempt, because the code does not
cover them: the object of a node that the write-ahead cannot announce (its kind,
inclusion or rendering waits for a status; `Late`), one that has come up again under a
new UID while the inventory lists the old one (the run `replaced`), and one that a
peer's template has written too, which the teardown leaves to the peer. `NoResidue`
is the same for the fields a patch owns; only the first exemption applies.

### Definitions

The author writes a history of definitions (`Edit`). `Build` is the builder and the
new revision, `Serve` the generated CRD through `Ensure`, `Store` a user's instance
as the API server prunes, defaults and validates it, `Compile` the instance
controller's compile of the latest revision through the cache, `Submit` a Graph
given to the compiler. `Serve` runs apart from `Compile` because it does so in the
code: instances run the latest revision even while its CRD update is refused.

An expression is the set of names it reads, whether it calls `omit()` and its
type. A schema is a record of its constraints; a value is an atom, a list or a
record. The checks are those of the code, one operator per function, with its
name; what the code decides in order is IF and ELSE, and a CASE has guards that
exclude each other. The loops of `pkg/dag` are recursive functions over their rounds,
of which there are at most as many as vertices: `Dag` and `GraphBuilder` are proved
about. Frames and schemas nest without a bound and are RECURSIVE operators, so the
compiler and the schemas are only model-checked.

## 3. Runs

| Run | Instance | Shows |
|---|---|---|
| `issue` | 3 specs, two of equal hash, 2 edits, 3 revisions, retention of 1, 1 fault | `LatestIsNewest`, `ActiveIsPersisted`, `NoDuplicateIssue`, `RetentionKeepsServed` |
| `recreate` | 2 incarnations, both cascades, deletions by hand, 1 fault | `NumberIsFree`, and the inductive invariant `Inv` |
| `served` | a good and a bad spec, 1 edit, deletion of RGD and CRD, lost replies, 1 fault; fair | `ControllerHasRGD`, `Converges`, `DeletionCompletes` |
| `watches` | 2 keys of different parents, 2 GVRs, 2 targets, 2 workers and the removal of parents interleaved, timeouts | `IndexExact`, `InformersRetained`, `NothingLeaks`, `CommittedStaysActive` |
| `dynamic` | 2 instances of one parent, 1 worker, 1 retry, 2 writes, 2 faults; fair | `NothingForgotten`, `ChildEventsDrive`, `WatchCountExact`, `RetriesReset`, `Converges` |
| `untimed` | 1 instance, timers disabled | a violation of `WatchesDriveNext` |
| `instances` | 5 graphs over 2 nodes and 3 objects (2 kinds, 2 namespaces, one with policy Orphaned), 3 edits, 1 fault; fair | `TypeOK`, `InventoryCovers`, `NoOrphans`, `PruneSparesWanted`, `ForeignSpared`, `DependentsFirst`, `DeletionCompletes`, `Converges` |
| `orphaned` | 2 graphs, 1 lost reply | a violation of `NoOrphans` |
| `graphs` | 11 situations of 1 or 2 Graphs over 3 objects and 1 CRD | `NotForgotten`, `NoOrphans`, `NoResidue`, `ConvergedIsExact`, `ImplementsInventory`, `DeletesOnlyOwn` |
| `replaced` | 1 template, its object deleted once, 1 fault | a violation of `NothingLeftBehind` |
| `undecided` | a subgraph that captures a conditional node | a violation of `UndecidedIsKept` |
| `definitions` | 1,700 histories of definitions, 13,900 submissions of 4,600 nested graphs | `OrdersAreExact`, `AcceptedCompiles`, `ProgramsAreClosed`, `ServedFits` |

Bounds. Three revisions are the fewest with which an old one is collected while a
newer one compiles and a third is issued; two incarnations the fewest for
adoption and for the collision of numbers; one fault is one failed or lost call,
restart or deletion by hand at any point, and the proofs cover any number of them
for the invariants they state. Two keys, GVRs and targets are the fewest with
sharing and with retargeting; GVRs and targets are interchangeable and TLC uses
the symmetry where no liveness is checked. `MaxRev` blocks the creation of
revisions beyond it, so the liveness run allows fewer edits than revisions: `served`
issues a single one, and waits for settling revisions are left to the safety runs.
In `watches` each key has one node, which retargets over four requests; the proofs
cover any number of nodes. Reconciles and the removal of a parent, which
`Deregister` runs in the goroutine of the RGD reconciler, interleave at every
critical section. The code leaves windows open there (see "Seen while
modelling" below), and the history variable `raced` collects the GVRs on which one was
met: `CommittedStaysActive` and `NothingLeaks` speak of all others. A GVR enters
`raced` in two cases only: a watch of it came to count on its informer between the
decision to release it and the release, or a key lost its entry while its
`addWatch` was still in `EnsureWatch`.

In `dynamic`, two writes are a creation with an edit, a suspension or a deletion;
two faults are any two of a failed call, a panic, a failed watch, a registration
or a deregistration; one retry reaches the queue's limit.

Three edits of `instances` are the creation of an instance, one change of its graph or its
suspension, and its deletion, each at any point of a cycle; the graphs move an
object to another namespace, drop a node, exclude one, and reverse a dependency.
One fault is a failed call, a restart, an expression that waits, or somebody
deleting or creating an object. `instances` excludes lost replies, which
`orphaned` is about, upgrades that change only the labels to stamp (the stamp
then drops the inventory and the deletion is refused), and graphs of which a kind or
a namespace becomes known only during the walk (`Conditional`): for those the
pre-apply inventory is incomplete, as the comment at
`controller_graph_engine.go:591` concedes.

The situations of `graphs` each combine a few hazards, since all of them together
exceed TLC: a node is dropped while calls fail and the process dies; two Graphs
want one object; people change what a template and a patch wrote; a patch is
replaced; conditions flip with a status; a collection shrinks beside an object of
somebody else; a subgraph has a condition of its own; a CRD changes, goes and
returns during a compile; the identity of a Graph changes to one that may write
less; the template of an object in somebody's ApplySet makes way for an empty
collection. Three objects and two versions of a spec are enough for a node to move, to
be dropped and to be contested. Its liveness is stated as the invariant
`NotForgotten`: a Graph that is not what it should be is queued, running, or
waits for something whose event re-enqueues it.

`definitions` enumerates families: all 512 reference patterns of three resources;
one resource in some forty forms (conditions, forEach, external references, every
reserved or unknown name, kinds without schema, owned metadata) under either
scope; all pairs of scalar schemas and of composite ones, triples that come back
to the first with and without allowed breaking changes, and pairs of
statuses and conditions; in the place of the CRD nothing, a CRD of nobody, or one
of another RGD; and all graphs nested three deep over the names a, b, c, g, h
with each combination of references, and one node of each kind in a frame of its
own. `OrdersAreExact` states order, waves and cycles without the traversal;
`ProgramsAreClosed` states scope by free names, as substitution would. The run sets
`ConservativeCRDComparison`: without it the comparison ignores rules, formats,
list types and map values, as its documentation says, and `ServedFits` fails; off is
the default. The calls of `Ensure` succeed and the CRD is established in time.

Deadlock is not checked except in `watches`, where a reconcile can always start:
elsewhere, with users done and queues empty, the system rests.

Fairness (`FairSpec`). In GraphRevisions weak for the RGD worker, for its informer
and for the Kubernetes garbage collector: a queued key is handed out, a running
reconcile goes on, events are delivered. Strong per revision: the queue is first in, first
out, so a waiting key gets a worker although each worker is only free from time
to time. Faults are bounded, so retries end. Users owe nothing.
In InstanceReconcile: weak for the worker, and weak per object for getting ready
and for going away once deleted, which kro waits for and other controllers owe.
In DynamicController: weak per key for its timer and its reconcile, for the
delivery of events, and for `Register` and `Deregister` once called.

The four violations are findings of `PROJECT.json`, each with the line of the
documentation or comment that the code contradicts. The facts that do hold are
the passing runs: no child is orphaned when no reply is lost, instances
are driven when timers run, a Graph leaves nothing behind when the UIDs in its
status are current, and nodes outside subgraphs keep their objects while
undecided.

### Seen while modelling, not checked by a run

- The epoch guard of `Registry.Compile` does not see every CRD event. `Delete` prunes
  the epoch (registry.go:92-98), so a compile that starts without one, a Graph's
  first or any that a CRD event asks for, finds it absent again after another
  `Delete` and stores the program of the old schema, which stays until the next
  event; the comment at registry.go:113-116 says it "still trips the guard".
  Only a compile that starts with an epoch is guarded.
- The coordinator decides a release under its lock and carries it out after it
  (coordinator.go:402): a watch that another key makes in between, of the same GVR,
  is committed without an informer. The same holds between a failed wait and its
  `ReleaseWatch` (manager.go:153). A key that `RemoveWhere` drops between the
  insertion of its entry and `EnsureWatch` (coordinator.go:357-361) leaves an
  informer that nobody indexes, and the rollback does not release it.
- After an upgrade of kro that changes the labels to stamp, the stamp of an instance
  (instance/controller.go:393) takes the inventory away, since it shares the manager
  and does not mention it; the deletion is then refused. TLC finds it with
  `"upgrade"` in `Faults`.
- `Release` and a patch read their target and then apply: a target deleted in between
  is created anew as a bare object.
- A teardown that meets an entry whose CRD is gone cannot map it and does not end.
- The program cache of the instance controller is neither bounded nor
  invalidated when the schema of a resource's kind changes.
- An author's `status.state` passes the builder and is dropped by the adapter.
- A change of a CRD's labels or annotations alone, or of the RGD's ID, is not
  served; a property removed by an allowed breaking change and added again with another type counts as
  compatible although old instances may still hold the first.
- `omit()` in `metadata.namespace` of a namespaced resource passes the builder under a
  namespaced instance (validation.go:431) and is refused by the engine
  (compiler.go:556). `AcceptedCompiles` has the gate `CELOmitFunction` off.
- A revision deleted by hand leaves its number to be issued again; the worker of
  the first object can then publish or evict the entry of the second.
- An RGD deleted and created anew under a stale cache can leave a micro-controller
  registered under the first UID that no cleanup stops.
- The CRD of an RGD is ensured but its read fails: the error only marks the condition
  KindReady (controller_reconcile.go:403), and nothing retries.

## 4. Proofs

For every value of the constants, under the named `ASSUME`s of the modules, TLAPS
proves the following; a hypothesis is given where a theorem has one.

| Module | Theorems |
|---|---|
| `GraphRevisionsProofs` | `PutOK`, `DeleteOK`, `DeleteRevisionsBeforeOK`: every operation of the registry keeps `LatestOK`; `TypeCorrect`, `LatestIsNewestHolds`, `NumberIsFreeHolds`, `ActiveIsPersistedHolds`, `InvariantHolds`; `ControllerHasRGDHolds` if `MaxUid = 1`; `NoDuplicateIssueHolds`, `RetentionKeepsServedHolds` if `Undisturbed` |
| `WatchCoordinatorProofs` | `TypeCorrect`, `InformersRetainedHolds`, `IndexExactHolds`, `NoInformerLeaks`, `CommittedWatchesStay` |
| `DynamicControllerProofs` | `DynamicInvariant`, `DynamicTypeCorrect`, `WatchCountsExact`, `RetriesAlwaysReset`, `NoInstanceEventForgotten`; `NoChildEventForgotten` if `Timers` |
| `InstanceReconcileProofs` | `DependenciesHaveLowerWaves`, `ExclusionIsContagious`, `InstanceTypeCorrect`, `ForeignSparedHolds`, `PruneSparesWantedHolds`; `InventoryCoversHolds`, `NoOrphansHolds`, `DependentsFirstHolds` without `"lost"` and `"upgrade"`, if `Foreseen` |
| `GraphControllerProofs` | `NoGraphForgotten` |
| `GraphOwnershipProofs` | `GraphTypeCorrect`, `DeletesAreOwn` |
| `GraphInventoryProofs` | `PatchesAreReleased`, `NothingIsOrphaned`, `InventoryIsImplemented` |
| `GraphBuilderProofs` | `CyclesAreRefused`, `SortIsStable`, `WavesAreExact`, `BuilderIsExact` |

Each proof states first what an action does to the variables it writes, as a
lemma, and then uses only that. An invariant is a conjunction of named parts, and
every part has a lemma for its step.

**GraphRevisions.** `TypeOK` and `LatestIsNewest` are inductive with the registry's
theorems. `NumberIsFree` needs to know that the worker's listing still covers the
objects when it creates one (`ListingCovers`): only that worker creates revisions,
so between its listing and its create the set of objects can only shrink, and a
terminating one would have made it wait. `ActiveIsPersisted` needs `RevInv`: while
the worker of a revision acts on a copy that holds the finalizer (`Pinned`) the
object cannot go away, because only that worker removes the finalizer; hence the
status it wrote is the status of the object it publishes. With lost replies the
entry may outlive the object, so that part assumes `~LostReplies`, as the property
does. `Inv` conjoins these parts; the run `recreate` checks it with TLC.

`ControllerHasRGD` needs `Lifecycle`: a micro-controller or a registration implies
a finalizer on the RGD or a cleanup that has still to come. `NoDuplicateIssue` and
`RetentionKeepsServed` need the invariant `Lineage`: no entry, status or worker
speaks of a number beyond the objects (`NothingBeyond`), an entry holds the spec of
its object (`Agrees`), a worker that is about to issue has compared the newest
object it listed (`Decided`), and the newest entry that was found Active stays so
until the listing of the collection (`ServedStays`).

**WatchCoordinator.** `IndexExact` is inductive given `TypeOK`: every action adds
or removes an entry together with the request it stands for. `InformersRetained`
is a property of the manager's operators alone. `NothingLeaks` and
`CommittedStaysActive` relate the index to informers that are retained and
released after the unlock. Their invariant `Windows` has a part per worker
(`InOrder`: what it holds between its critical sections) and a part per GVR outside
`raced` (`SoundOn`): a watch that counts on the informer (`Backed`) has a synced one
and no release of it is decided, and an informer that the coordinator retains has
an entry, or someone is about to release or to give it one. Every action has a lemma
that it keeps `SoundOn`; most follow from `WindowsShrink`, for steps that leave the
manager alone and take entries away.

**DynamicController.** `Inv` says that a reconcile holds its key and only one past
`Watch` has declarations; what `Register` and `Deregister` have set up at each
step; that the events under way lead from the stored version to the present one
and each differs for `enqueueFromInformer` (`DeliveryInOrder`, with lemmas on
`Append` and `Tail`); that an instance goes by its own reconcile, which takes the
watch along; and that what changed since the running reconcile read it is queued
again (`RunsSeeEvents`, `RunsSeeChildren`). `WatchCountExact` needs that owners
are a finite set, and lemmas on the cardinality with one more or one less.
`ChildEventsDrive` is inductive only when it also covers a parent that is being
registered anew and whose first list misses the instance (`Awaits`).

**InstanceReconcile.** The invariant grows in parts. `Managed`: finalizer, labels
and inventory come and go together, and a worker past the stamp still has its
instance, since only its own last step lets it go. `Typed`: the types, and a graph
wherever one is read. `Candidates`: what is about to be deleted is what was listed,
as it was listed, or has another UID. `Books`: of each node that had its turn, the
walk recorded what it applied or saw, with the UID the object still has; hence a
prune spares what the graph asks for. `Teardown`: the deletion found every member
in reach and takes the highest wave. `Coverage`: every live member lies in the
scope of the persisted inventory; during the walk it lies in the scope of the
inventory before the walk or was applied by it, and after a full walk it was
applied or is among the candidates, so that the inventory shrinks only when what
it forgets is gone.

**GraphController.** Each of the twenty odd actions of a reconcile has a lemma that
says which fields of the run and of the stored Graph it may change and where the run
goes next; the invariants are proved from these. `Attention`: a run is about the
generation it read, a newer one is queued behind it, and a run that ends without an
error left a verdict that is final for its generation; `NotForgotten` follows.
`Versions`: the specs and generations there are. `Schemas`: what the watcher
has seen of a CRD, its marks and the epochs of the registry.
`Accounts`: every inventory and ledger, the stored ones and the nine copies a run
works with, lists objects that some version of the spec renders, and lists under a
UID only an object that a template of the Graph has reached. `Stock`: an object
carries the template manager of a Graph only if a template of it has reached it. A
delete needs an entry with the UID, or for one without a UID the manager on the live
object, so `DeletesOnlyOwn` follows. It exempts objects that some version renders as
items of a collection, since a collection lists the items that refused its update too.

What a Graph leaves behind rests on `Ground`: `Unserved` (an object whose kind is not
served carries no manager of a Graph), `Newest` (an object has the last UID of its
name), `Budgeted` (a failed call or a crash shows in the budget) and `Lifecycle`
(nothing is recorded before the finalizer, and no run past it finds its Graph gone).
`Turned` says what any step can make of an object and under which manager; from it
follows that nobody but g leaves a manager of g behind (`Inherits`), which settles
the steps of everybody else at once.

`NoResidue` then needs `Residual`: while a patch's manager is on an object, its
contribution is in the ledger, or in what the run has applied or has still to release,
or a fault has happened and its node is late. `NoOrphans` needs more, because a run
carries the inventory in seven copies: `Tidy` is `Filed` (how the copies follow the
stored one from phase to phase), `Timed` (none lists a UID that is still to come),
`Walked` (an object is applied once and, until something fails, all announced templates
behind the walk are), `Sighted` (what the run read before its apply is still the
object that is the Graph's, if it is one) and `Tethered`. The last is the heart: of
an object that is the Graph's, the stored inventory leads to it if it was announced;
as long as nothing has failed the inventory or the run lists its UID; and once the
stored inventory leads to it, the copy that will replace it does too, or the object is
still to be deleted, or an error has been noted. That an announced node is not left out
later is an argument about `IsIgnored` for all statuses, by induction over the nodes.

The refinement follows step by step from the same invariant. `held` is what the
stored inventory has to answer for, listed or not: the objects the write-ahead can
foresee (`Foreseen`), and any other once it is listed. An apply is a `Write`, which
needs its object to be known before, and the first clause of `Tethered` gives that
(`ForeseenLeads`); an apply of an object that is neither loses at most the old one;
the write-ahead and `updateStatus` are `Record`, and the last clause of `Tethered` is
why nothing held drops out; `setUnmanaged` is `Remove`, since after a teardown without
error the inventory leads to nothing; every other step loses objects only. The
invariants were checked with TLC on the configuration of the run `graphs` as well (the
quantifiers over every manager and node id restricted to those of the state).

**GraphBuilder.** The theorems are about operators, not behaviours: they hold for
every finite set of vertices and every definition whose resources are a sequence. A
recursive function is a CHOOSE in TLA+, so the proofs show first that one exists
(`RunExists` for the loops, `FoldExists` for adding nodes in any order), by the least
round or the smallest set for which it would not. `PathFacts`: the walk of `findPath`
finds its target exactly if every set that is closed under dependencies and holds the
start has an edge into it; hence an edge is refused exactly if it closes a cycle
(`PathsClose`, `NoPathNoCycle`), and since the graph is acyclic before each call, a
definition is refused exactly if it is cyclic, whatever the order (`CyclesAreRefused`).
Each place of the sort was ready when it was taken and the first declared of those
(`Sorted`), and while there is no cycle something is ready (`SomethingReady`). A layer
holds what all of its dependents precede, one of them in the layer just before
(`Layering`). `BuilderIsExact` adds that the inspector's findings of a resource are the
resources it names (`NodeNamed`) once the validation has excluded reserved names and
iterators called like resources (`Validated`). It is the formula `IsExact` that the
invariant `OrdersAreExact` states of the definitions of the run; the invariant itself
is in a module that reaches RECURSIVE operators, where no theorem can be stated.

The hypotheses are needed: without them TLC finds a counterexample, or a run of
section 3 is one.

| Hypothesis | Without it |
|---|---|
| `Timers` | the run `untimed`: a reconcile that waits is re-enqueued by no one |
| `MaxUid = 1` | a worker with a cached copy of the first incarnation puts the finalizer on the second and registers under the first UID; the cleanup of the second deregisters nothing |
| `Undisturbed` (`MaxUid = 1`, no revision deleted by hand) | the number of a deleted revision is issued again while the worker of the first one still puts or evicts the entry under it |
| `"lost" \notin Faults` | the run `orphaned` |
| `"upgrade" \notin Faults` | a stamp that changes only labels drops the inventory, and the deletion is refused |
| `Foreseen` | a kind or namespace known only during the walk is not in the pre-apply inventory (`controller_graph_engine.go:590`) |

Assumptions of the modules that the proofs rest on and TLC evaluates in the runs:
the bounds are numbers and positive where a state of one needs it
(`DynamicAssumption`, `MaxGeneration > 0`); graphs are well formed; a
Graph's spec has at least one version, its nodes render objects of the model, and the
objects there are at first were written by no Graph (`CasesAssumption`); its nodes are
of the four kinds, have ids of their own and read nodes there are, as the compiler
sees to (`ProgramsAssumption`); objects and subscribers are finite
(`ExecutorAssumption`, `SchemaAssumption`).

Recursive functions are proved about by the least position at which they would
fail, since the library's induction theorems take an operator and cannot be used;
besides those of `Dag` these are `IsIgnored` (`DecidesAll`) and the waves of an
instance's graph. `ApplyOrder` is a number and above those of a node's dependencies
(`DependenciesHaveLowerWaves`), so that deleting the highest wave first is deleting
dependents first.

Only model-checked:

- the liveness properties, since fairness and `ENABLED` are out of the prover's reach;
- of Definitions what depends on the compiler and on schemas, which are RECURSIVE
  operators: `AcceptedCompiles`, `ProgramsAreClosed`, `ServedFits`;
- of GraphController `ConvergedIsExact`.

## 5. Plan

Open: `ConvergedIsExact` of GraphController as a theorem. It adds what a run without
error has seen of each node, and that its watches cover all of it.

Not modelled, and why:

- CEL: parsing, typing and evaluation (`pkg/cel`, `pkg/graph/parser`) work on rich
  data; expressions are abstracted to what they read and to their type.
- The lag of informer caches in GraphController, and relists of informers in
  DynamicController: reads see the current state there. GraphRevisions has the lag
  where the code depends on it.
- Patch contributions of instances, collections of refs, the replacement of a whole status.
- The spec hash (the constant `Hash` of GraphRevisions), condition sets (computed
  for display), the growth of backoff delays, the wait for a CRD to be established.
- The CLI, the tools, metrics and main: I/O and wiring.
