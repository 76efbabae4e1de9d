-------------------------- MODULE DynamicController --------------------------
(***************************************************************************)
(* pkg/dynamiccontroller: one work queue and a pool of workers for the     *)
(* instances of every registered parent GVR (one per RGD), the parent      *)
(* informers that feed it, and the coordinator that routes the events of   *)
(* the instances' children.  pkg/requeue are the verdicts of a reconcile,  *)
(* pkg/controller/backoff the delays of its retries.                       *)
(*                                                                         *)
(* The coordinator is taken at the level of its promise (WatchCoordinator  *)
(* has the detail): an instance has one child, and its watch is declared,  *)
(* committed or absent.                                                    *)
(***************************************************************************)
EXTENDS Naturals, Sequences, FiniteSets

CONSTANTS
    Instances,          \* the instance keys
    Parents,            \* the parent GVRs
    ParentOf,           \* ObjectIdentifiers.GVR of each key
    Workers,            \* Config.Workers
    QueueMaxRetries,    \* Config.QueueMaxRetries
    Timers,             \* whether DefaultRequeueDuration # 0
    MaxGeneration,      \* bound on the edits of an instance
    MaxChild,           \* bound on the changes of a child
    MaxFaults,          \* bound on failed calls, panics and calls of the registrar
    MaxWrites           \* bound on the writes of users

ASSUME DynamicAssumption ==
    /\ ParentOf \in [Instances -> Parents]
    /\ {Workers, QueueMaxRetries, MaxGeneration, MaxChild, MaxFaults, MaxWrites} \subseteq Nat
    /\ Workers > 0 /\ MaxGeneration > 0
    /\ Timers \in BOOLEAN

VARIABLES
    obj,            \* the instances in the API server
    store,          \* the parent informers' stores
    events,         \* the versions that the parent informers have still to deliver
    informers,      \* the parents whose informer runs, retained by "parent"
    parentWatches,  \* the parents with an event handler on their informer
    handlers,       \* the parents with a Handler
    registrar,      \* the RGD reconciler inside Register or Deregister, per parent
    child,          \* the version of each instance's child
    childStore,     \* the version the child informer delivered
    routing,        \* the keys RouteEvent matched and has still to enqueue
    owners,         \* the keys the coordinator tracks
    declared,       \* the keys that declared their watch in this cycle
    committed,      \* the keys whose watch is committed
    watchCount,     \* dynObserver.owners, with DynInstanceWatchCount
    queue,          \* the work queue
    run,            \* the reconcile of each key
    acted,          \* what the last reconcile of each key read and acted on
    faults, writes  \* how much of the bounds is spent

apiVars == <<obj, child>>
informerVars == <<store, events, informers, childStore>>
registerVars == <<parentWatches, handlers, registrar>>
coordVars == <<routing, owners, declared, committed, watchCount>>
vars == <<apiVars, informerVars, registerVars, coordVars, queue, run, acted, faults, writes>>

Absent == [gen |-> 0, suspended |-> FALSE, deleting |-> FALSE]
Object == [gen : 0..MaxGeneration, suspended : BOOLEAN, deleting : BOOLEAN]

\* acted also says how the reconcile ended.
Ends == {"never", "converged", "waiting", "retried", "dropped"}
Queue == [dirty : SUBSET Instances, processing : SUBSET Instances,
          timers : SUBSET Instances, requeues : [Instances -> 0..QueueMaxRetries],
          shuttingDown : BOOLEAN]

TypeOK ==
    /\ obj \in [Instances -> Object] /\ store \in [Instances -> Object]
    /\ \A k \in Instances : \A i \in 1..Len(events[k]) : events[k][i] \in Object
    /\ child \in [Instances -> 0..MaxChild] /\ childStore \in [Instances -> 0..MaxChild]
    /\ {informers, parentWatches, handlers} \subseteq SUBSET Parents
    /\ registrar \in [Parents -> {"idle", "ensure", "attach", "detach", "unhandle"}]
    /\ {routing, owners, declared, committed} \subseteq SUBSET Instances
    /\ watchCount \in [Parents -> Nat]
    /\ queue \in Queue
    /\ run \in [Instances -> [pc : {"idle", "load", "watch", "read", "end"},
                              obj : Object, child : 0..MaxChild]]
    /\ acted \in [Instances -> [obj : Object, child : 0..MaxChild, end : Ends]]
    /\ faults \in 0..MaxFaults /\ writes \in 0..MaxWrites

Of(p) == {k \in Instances : ParentOf[k] = p}
Idle == [pc |-> "idle", obj |-> Absent, child |-> 0]

Init ==
    /\ obj = [k \in Instances |-> Absent] /\ store = obj
    /\ events = [k \in Instances |-> <<>>]
    /\ child = [k \in Instances |-> 0] /\ childStore = child
    /\ informers = {} /\ parentWatches = {} /\ handlers = {}
    /\ registrar = [p \in Parents |-> "idle"]
    /\ routing = {} /\ owners = {} /\ declared = {} /\ committed = {}
    /\ watchCount = [p \in Parents |-> 0]
    /\ queue = [dirty |-> {}, processing |-> {}, timers |-> {},
                requeues |-> [k \in Instances |-> 0], shuttingDown |-> FALSE]
    /\ run = [k \in Instances |-> Idle]
    /\ acted = [k \in Instances |-> [obj |-> Absent, child |-> 0, end |-> "never"]]
    /\ faults = 0 /\ writes = 0

Fault == faults < MaxFaults /\ faults' = faults + 1

-----------------------------------------------------------------------------
(* The work queue (client-go): a key added while a worker has it is handed *)
(* out again after Done; nothing is added once it shuts down.              *)

Add(q, K) == IF q.shuttingDown THEN q ELSE [q EXCEPT !.dirty = @ \cup K]
AddAfter(q, k) == IF q.shuttingDown THEN q ELSE [q EXCEPT !.timers = @ \cup {k}]
AddRateLimited(q, k) == AddAfter([q EXCEPT !.requeues[k] = @ + 1], k)
Forget(q, k) == [q EXCEPT !.requeues[k] = 0]
Done(q, k) == [q EXCEPT !.processing = @ \ {k}]

\* A delay ends.
TimerFires(k) ==
    /\ k \in queue.timers
    /\ queue' = Add([queue EXCEPT !.timers = @ \ {k}], {k})
    /\ UNCHANGED <<apiVars, informerVars, registerVars, coordVars, run, acted, faults, writes>>

Live(q, k) == k \in q.dirty \cup q.processing \cup q.timers

-----------------------------------------------------------------------------
(* The API server and the informers.                                       *)

\* A write, and the event it sends to a running informer.
Write(k, new) ==
    /\ obj' = [obj EXCEPT ![k] = new]
    /\ events' = IF ParentOf[k] \in informers
                 THEN [events EXCEPT ![k] = Append(@, new)] ELSE events

\* Users: creation, an edit of the spec, a flip of the suspend annotation (which
\* keeps the generation), a deletion (which the finalizer holds back).
UserWrites(k) ==
    /\ ~queue.shuttingDown /\ writes < MaxWrites
    /\ writes' = writes + 1
    /\ \/ /\ obj[k] = Absent
          /\ Write(k, [Absent EXCEPT !.gen = 1])
       \/ /\ obj[k].gen \in 1..(MaxGeneration - 1) /\ ~obj[k].deleting
          /\ \E d \in BOOLEAN : Write(k, [obj[k] EXCEPT !.gen = @ + 1, !.deleting = d])
       \/ /\ obj[k].gen > 0 /\ ~obj[k].deleting
          /\ Write(k, [obj[k] EXCEPT !.suspended = ~@])
    /\ UNCHANGED <<child, store, informers, childStore, registerVars, coordVars, queue, run, acted, faults>>

ChildChanges(k) ==
    /\ child[k] < MaxChild /\ obj[k].gen > 0
    /\ child' = [child EXCEPT ![k] = @ + 1]
    /\ UNCHANGED <<obj, informerVars, registerVars, coordVars, queue, run, acted, faults, writes>>

\* A bug: only the generation tells two versions apart.
enqueueIgnoresSuspension(old, new) == old.gen # new.gen

\* enqueueFromInformer: an update counts if the generation changed, or the
\* suspension flipped (reconcileSuspensionChangedInUpdate).
enqueueFromInformer(old, new) == old.gen # new.gen \/ old.suspended # new.suspended

\* The parent informer delivers: the store changes, and the event handler, if
\* there is one, enqueues (parentEventHandlerFor, enqueueParent).
ParentEvent(k) ==
    /\ ParentOf[k] \in informers /\ events[k] # <<>>
    /\ store' = [store EXCEPT ![k] = Head(events[k])]
    /\ events' = [events EXCEPT ![k] = Tail(@)]
    /\ queue' = IF ParentOf[k] \in parentWatches /\ enqueueFromInformer(store[k], Head(events[k]))
                THEN Add(queue, {k}) ELSE queue
    /\ UNCHANGED <<apiVars, informers, childStore, registerVars, coordVars, run, acted, faults, writes>>

Indexed == declared \cup committed

\* A bug: an event is matched against the committed watches only.
RouteEventCommitted(k) ==
    /\ childStore[k] # child[k] /\ routing = {} /\ ~queue.shuttingDown
    /\ childStore' = [childStore EXCEPT ![k] = child[k]]
    /\ routing' = {k} \cap committed
    /\ UNCHANGED <<apiVars, store, events, informers, registerVars, owners, declared, committed,
                   watchCount, queue, run, acted, faults, writes>>

\* RouteEvent of a child's change: matched under the read lock.  Some informer
\* of that GVR may run for another instance, so the event also comes when k has
\* no watch, and is lost on it.
RouteEvent(k) ==
    /\ childStore[k] # child[k] /\ routing = {} /\ ~queue.shuttingDown
    /\ childStore' = [childStore EXCEPT ![k] = child[k]]
    /\ routing' = {k} \cap Indexed
    /\ UNCHANGED <<apiVars, store, events, informers, registerVars, owners, declared, committed,
                   watchCount, queue, run, acted, faults, writes>>

\* RouteEvent after the unlock: enqueueInstance for each matched key.
RouteEnqueue ==
    /\ routing # {}
    /\ queue' = Add(queue, routing)
    /\ routing' = {}
    /\ UNCHANGED <<apiVars, informerVars, registerVars, owners, declared, committed,
                   watchCount, run, acted, faults, writes>>

-----------------------------------------------------------------------------
(* Register and Deregister, called by the reconciler of the parent's RGD.  *)

\* enqueueExistingInstances.
Existing(p) == {k \in Of(p) : store[k] # Absent}

\* Register, up to EnsureWatch; a registered parent is only enqueued again.
Register(p) ==
    /\ registrar[p] = "idle" /\ ~queue.shuttingDown
    /\ p \in parentWatches => Fault
    /\ p \notin parentWatches => UNCHANGED faults
    /\ handlers' = handlers \cup {p}
    /\ IF p \in parentWatches
       THEN queue' = Add(queue, Existing(p)) /\ UNCHANGED registrar
       ELSE registrar' = [registrar EXCEPT ![p] = "ensure"] /\ UNCHANGED queue
    /\ UNCHANGED <<apiVars, informerVars, parentWatches, coordVars, run, acted, writes>>

\* EnsureWatch returns: with a store that holds the first list, or in error.
RegisterEnsured(p) ==
    /\ registrar[p] = "ensure"
    /\ \/ /\ informers' = informers \cup {p}
          /\ store' = [k \in Instances |-> IF k \in Of(p) THEN obj[k] ELSE store[k]]
          /\ events' = [k \in Instances |-> IF k \in Of(p) THEN <<>> ELSE events[k]]
          /\ registrar' = [registrar EXCEPT ![p] = "attach"]
          /\ UNCHANGED <<handlers, faults>>
       \/ /\ Fault
          /\ handlers' = handlers \ {p}
          /\ registrar' = [registrar EXCEPT ![p] = "idle"]
          /\ UNCHANGED <<informers, store, events>>
    /\ UNCHANGED <<apiVars, childStore, parentWatches, coordVars, queue, run, acted, writes>>

\* A bug: a new registration leaves the existing instances to the next event.
RegisterAttachOnly(p) ==
    /\ registrar[p] = "attach"
    /\ parentWatches' = parentWatches \cup {p}
    /\ registrar' = [registrar EXCEPT ![p] = "idle"]
    /\ UNCHANGED <<apiVars, informerVars, handlers, coordVars, queue, run, acted, faults, writes>>

\* AddEventHandler, which replays the store, and the enqueue of what is there.
RegisterAttach(p) ==
    /\ registrar[p] = "attach"
    /\ parentWatches' = parentWatches \cup {p}
    /\ registrar' = [registrar EXCEPT ![p] = "idle"]
    /\ queue' = Add(queue, Existing(p))
    /\ UNCHANGED <<apiVars, informerVars, handlers, coordVars, run, acted, faults, writes>>

\* OnRemoveOwner, for the keys in K.
Decremented(K) == [p \in Parents |-> watchCount[p] - Cardinality(K \cap Of(p))]

\* Deregister: RemoveParentGVR drops the watches of all instances of p ...
Deregister(p) ==
    /\ registrar[p] = "idle" /\ p \in handlers /\ ~queue.shuttingDown /\ Fault
    /\ owners' = owners \ Of(p) /\ declared' = declared \ Of(p)
    /\ committed' = committed \ Of(p) /\ watchCount' = Decremented(owners \cap Of(p))
    /\ registrar' = [registrar EXCEPT ![p] = "detach"]
    /\ UNCHANGED <<apiVars, informerVars, parentWatches, handlers, routing, queue, run, acted, writes>>

\* ... then the event handler goes and the informer is released ...
DeregisterDetach(p) ==
    /\ registrar[p] = "detach"
    /\ parentWatches' = parentWatches \ {p}
    /\ informers' = informers \ {p}
    /\ store' = [k \in Instances |-> IF k \in Of(p) THEN Absent ELSE store[k]]
    /\ events' = [k \in Instances |-> IF k \in Of(p) THEN <<>> ELSE events[k]]
    /\ registrar' = [registrar EXCEPT ![p] = "unhandle"]
    /\ UNCHANGED <<apiVars, childStore, handlers, coordVars, queue, run, acted, faults, writes>>

\* ... and the Handler last: until then a worker still finds it.
DeregisterUnhandle(p) ==
    /\ registrar[p] = "unhandle"
    /\ handlers' = handlers \ {p}
    /\ registrar' = [registrar EXCEPT ![p] = "idle"]
    /\ UNCHANGED <<apiVars, informerVars, parentWatches, coordVars, queue, run, acted, faults, writes>>

\* gracefulShutdown: the informers stop, the queue takes nothing more.
Shutdown ==
    /\ ~queue.shuttingDown /\ \A p \in Parents : registrar[p] = "idle"
    /\ Fault
    /\ informers' = {}
    /\ queue' = [queue EXCEPT !.shuttingDown = TRUE, !.timers = {}]
    /\ UNCHANGED <<apiVars, store, events, childStore, registerVars, coordVars, run, acted, writes>>

-----------------------------------------------------------------------------
(* The reconcile of a key: processNextWorkItem around the instance         *)
(* controller's Reconcile.                                                 *)

\* A worker takes the key and looks its Handler up.
Get(k) ==
    /\ k \in queue.dirty \ queue.processing /\ Cardinality(queue.processing) < Workers
    /\ LET taken == [queue EXCEPT !.dirty = @ \ {k}, !.processing = @ \cup {k}]
       IN IF ParentOf[k] \in handlers
          THEN queue' = taken /\ run' = [run EXCEPT ![k] = [Idle EXCEPT !.pc = "load"]]
          ELSE queue' = Done(Forget(taken, k), k) /\ UNCHANGED run
    /\ UNCHANGED <<apiVars, informerVars, registerVars, coordVars, acted, faults, writes>>

\* Reconcile reads the instance from the API server.
Load(k) ==
    /\ run[k].pc = "load"
    /\ run' = [run EXCEPT ![k].obj = obj[k],
                          ![k].pc = IF obj[k] # Absent /\ ~obj[k].deleting /\ ~obj[k].suspended
                                    THEN "watch" ELSE "end"]
    /\ UNCHANGED <<apiVars, informerVars, registerVars, coordVars, queue, acted, faults, writes>>

\* Watch declares the child before it is read; a watch that cannot be
\* registered is logged, and the reconcile goes on.
Watch(k) ==
    /\ run[k].pc = "watch"
    /\ \/ /\ owners' = owners \cup {k} /\ declared' = declared \cup {k}
          /\ watchCount' = [watchCount EXCEPT ![ParentOf[k]] = @ + Cardinality({k} \ owners)]
          /\ UNCHANGED faults
       \/ Fault /\ UNCHANGED <<owners, declared, watchCount>>
    /\ run' = [run EXCEPT ![k].pc = "read"]
    /\ UNCHANGED <<apiVars, informerVars, registerVars, routing, committed, queue, acted, writes>>

Read(k) ==
    /\ run[k].pc = "read"
    /\ run' = [run EXCEPT ![k].pc = "end", ![k].child = child[k]]
    /\ UNCHANGED <<apiVars, informerVars, registerVars, coordVars, queue, acted, faults, writes>>

\* Done(true) commits the watch declared in this cycle, or drops the old one.
Commit(k) ==
    /\ committed' = IF k \in declared THEN committed \cup {k} ELSE committed \ {k}
    /\ declared' = declared \ {k}
    /\ UNCHANGED <<owners, watchCount>>

\* A bug: an aborted owner is forgotten without OnRemoveOwner.
AbortUncounted(k) ==
    /\ declared' = declared \ {k}
    /\ owners' = owners \ ({k} \ committed)
    /\ UNCHANGED <<committed, watchCount>>

\* Done(false) drops what this cycle declared, and an owner left without watches.
Abort(k) ==
    /\ declared' = declared \ {k}
    /\ owners' = owners \ ({k} \ committed)
    /\ watchCount' = Decremented((owners \cap {k}) \ committed)
    /\ UNCHANGED committed

\* The verdicts of a reconcile that commit its watches (Reconcile's deferred
\* Done): nil, IsRequeueError, and a panic, which leaves err at nil.
Commits == {"nil", "RequeueNeeded", "RequeueNeededAfter", "panic"}

\* The verdicts without a case of their own in processNextWorkItem; a panic
\* comes back as an error.
Errors == {"error", "panic"}

\* A bug: QueueMaxRetries is not looked at.
RequeueUncapped(q, k, verdict) ==
    CASE verdict = "nil"                     -> <<Forget(q, k), "converged">>
      [] verdict \in {"NoRequeue", "NotFound"} -> <<Forget(q, k), "dropped">>
      [] verdict = "RequeueNeeded"           -> <<Add(q, {k}), "waiting">>
      [] verdict = "RequeueNeededAfter"      -> <<AddAfter(q, k), "waiting">>
      [] OTHER                               -> <<AddRateLimited(q, k), "retried">>

\* A bug: an item out of retries keeps its count.
RequeueWithoutForget(q, k, verdict) ==
    CASE verdict = "nil"                     -> <<q, "converged">>
      [] verdict \in {"NoRequeue", "NotFound"} -> <<q, "dropped">>
      [] verdict = "RequeueNeeded"           -> <<Add(q, {k}), "waiting">>
      [] verdict = "RequeueNeededAfter"      -> <<AddAfter(q, k), "waiting">>
      [] verdict \in Errors /\ q.requeues[k] < QueueMaxRetries -> <<AddRateLimited(q, k), "retried">>
      [] OTHER                               -> <<q, "dropped">>

\* processNextWorkItem, once syncFunc has returned the verdict.
Requeue(q, k, verdict) ==
    CASE verdict = "nil"                     -> <<Forget(q, k), "converged">>
      [] verdict \in {"NoRequeue", "NotFound"} -> <<Forget(q, k), "dropped">>
      [] verdict = "RequeueNeeded"           -> <<Add(q, {k}), "waiting">>
      [] verdict = "RequeueNeededAfter"      -> <<AddAfter(q, k), "waiting">>
      [] verdict \in Errors /\ q.requeues[k] < QueueMaxRetries -> <<AddRateLimited(q, k), "retried">>
      [] OTHER                               -> <<Forget(q, k), "dropped">>

\* Reconcile ends: its deferred Done, then the queue's part.  end overrides how
\* the reconcile counts, where the verdict does not say it.
Finish(k, verdict, end) ==
    LET after == Requeue(queue, k, verdict)
    IN /\ IF verdict \in Commits THEN Commit(k) ELSE Abort(k)
       /\ queue' = Done(after[1], k)
       /\ run' = [run EXCEPT ![k] = Idle]
       /\ acted' = [acted EXCEPT ![k] = [obj |-> run[k].obj, child |-> run[k].child,
                                         end |-> IF end = "" THEN after[2] ELSE end]]
       /\ UNCHANGED <<child, store, informers, childStore, registerVars, routing>>

\* The instance is gone, suspended, or converged.
Converge(k) ==
    /\ run[k].pc = "end" /\ ~run[k].obj.deleting
    /\ Finish(k, "nil", "")
    /\ UNCHANGED <<obj, events, faults, writes>>

\* The deletion ends: RemoveInstance, then the finalizer goes (removeFinalizer).
Unmanage(k) ==
    /\ run[k].pc = "end" /\ run[k].obj.deleting
    /\ owners' = owners \ {k} /\ declared' = declared \ {k} /\ committed' = committed \ {k}
    /\ watchCount' = Decremented(owners \cap {k})
    /\ Write(k, Absent)
    /\ queue' = Done(Forget(queue, k), k)
    /\ run' = [run EXCEPT ![k] = Idle]
    /\ acted' = [acted EXCEPT ![k] = [obj |-> run[k].obj, child |-> 0, end |-> "converged"]]
    /\ UNCHANGED <<child, store, informers, childStore, registerVars, routing, faults, writes>>

\* A soft apply error (backoffRequeue): a delay, or, with DefaultRequeueDuration
\* at 0, no requeue.
NotReady(k) ==
    /\ run[k].pc = "end" /\ run[k].obj # Absent /\ ~run[k].obj.suspended
    /\ Fault
    /\ Finish(k, IF Timers THEN "RequeueNeededAfter" ELSE "NoRequeue", "waiting")
    /\ UNCHANGED <<obj, events, writes>>

\* Another verdict: an error of any call, a NotFound among them; a panic; a
\* failed revision (NoRequeue); an immediate requeue.
Fail(k) ==
    /\ run[k].pc \in {"load", "watch", "read", "end"}
    /\ Fault
    /\ \E verdict \in {"error", "NotFound", "panic", "NoRequeue", "RequeueNeeded"} :
          Finish(k, verdict, "")
    /\ UNCHANGED <<obj, events, writes>>

-----------------------------------------------------------------------------
KeyNext(k) ==
    \/ TimerFires(k) \/ UserWrites(k) \/ ChildChanges(k) \/ ParentEvent(k) \/ RouteEvent(k)
    \/ Get(k) \/ Load(k) \/ Watch(k) \/ Read(k)
    \/ Converge(k) \/ Unmanage(k) \/ NotReady(k) \/ Fail(k)

RegistrarNext(p) ==
    \/ Register(p) \/ RegisterEnsured(p) \/ RegisterAttach(p)
    \/ Deregister(p) \/ DeregisterDetach(p) \/ DeregisterUnhandle(p)

Next == \/ \E k \in Instances : KeyNext(k)
        \/ \E p \in Parents : RegistrarNext(p)
        \/ RouteEnqueue
        \/ Shutdown

Spec == Init /\ [][Next]_vars

\* Workers, informers, timers and the registrar go on; users and faults need not.
Fairness ==
    /\ \A k \in Instances :
          WF_vars(TimerFires(k) \/ Get(k) \/ Load(k) \/ Watch(k) \/ Read(k)
                  \/ Converge(k) \/ Unmanage(k))
          /\ WF_vars(ParentEvent(k)) /\ WF_vars(RouteEvent(k))
    /\ \A p \in Parents :
          WF_vars(RegisterEnsured(p) \/ RegisterAttach(p) \/ DeregisterDetach(p)
                  \/ DeregisterUnhandle(p))
    /\ WF_vars(RouteEnqueue)

FairSpec == Spec /\ Fairness

-----------------------------------------------------------------------------
(* Properties.                                                             *)

\* k is served: its parent is registered and the controller runs.
Served(k) == /\ ParentOf[k] \in handlers \cap parentWatches
             /\ registrar[ParentOf[k]] = "idle" /\ ~queue.shuttingDown

\* What the last reconcile of k read is what is there, if anything is.
UpToDate(k) == store[k] \in {acted[k].obj, Absent}

\* No instance event is forgotten: once the informer has delivered an instance
\* that the last reconcile did not read, the key is in the queue, waits for a
\* timer or is being reconciled, whatever order the registration, the event, the
\* worker's read and a concurrent requeue came in; unless that last reconcile
\* ended in a verdict that drops the item.
NothingForgotten ==
    \A k \in Instances :
        Served(k) /\ events[k] = <<>> /\ ~UpToDate(k) /\ acted[k].end # "dropped"
            => Live(queue, k)

\* No child event is forgotten: a committed watch whose child changed after the
\* last reconcile read it leaves the key to be enqueued or enqueued, though a
\* cycle only declares its watch, and the event is enqueued after the match.
ChildEventsDrive ==
    \A k \in committed :
        Served(k) /\ childStore[k] = child[k] /\ acted[k].child # child[k]
            /\ acted[k].end \in {"converged", "waiting"}
            => Live(queue, k) \/ k \in routing

\* DynInstanceWatchCount is the number of owners of each parent, and a parent
\* without owners has no label left.
WatchCountExact == \A p \in Parents : watchCount[p] = Cardinality(owners \cap Of(p))

\* "NumRequeues": a key that is neither retried nor waiting for one starts its
\* next streak of failures from zero.
RetriesReset ==
    \A k \in Instances :
        acted[k].end \in {"converged", "dropped"} /\ run[k].pc = "idle" => queue.requeues[k] = 0

\* Every served instance is reconciled in its last version, and its watched
\* child in the last one read, or the queue gave it up.
Converges ==
    \A k \in Instances :
        <>[](Served(k) /\ store[k] # Absent /\ acted[k].end # "dropped"
                => UpToDate(k) /\ acted[k].end # "retried"
                   /\ (k \in committed => acted[k].child = child[k]))

\* "child watch events still drive the next cycle": an instance that waits
\* without a timer has its watch.
WatchesDriveNext ==
    \A k \in Instances :
        acted[k].end = "waiting" /\ ~acted[k].obj.deleting /\ Served(k)
            => Live(queue, k) \/ k \in routing \cup Indexed

=============================================================================
