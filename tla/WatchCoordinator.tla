-------------------------- MODULE WatchCoordinator --------------------------
(***************************************************************************)
(* pkg/watch/coordinator: which owners (instances, or Graphs) want events  *)
(* of which resources, and the informers retained for them in the shared   *)
(* Manager.  A reconcile declares its watches one by one, then commits     *)
(* them (Done(true)) or aborts (Done(false)).                              *)
(*                                                                         *)
(* Coordinator.mu and Manager.mu are never held together: a step of this   *)
(* specification is one critical section of one of them.  A work queue     *)
(* never hands one key to two workers, so each key has one process; the    *)
(* RGD reconciler, which drops all keys of a parent, is another.           *)
(***************************************************************************)
EXTENDS WatchManager, FiniteSets, Naturals

CONSTANTS
    Keys,           \* the owners
    Parents,        \* the parent GVRs (RGDs) that owners belong to
    ParentOf,       \* instanceKey.parentGVR
    Nodes,          \* the graph nodes of an owner
    Targets,        \* a name, or a namespace with a selector
    Workers,        \* reconciles that run at once
    SyncTimeouts    \* whether a running informer may miss SyncTimeout

ASSUME CoordinatorAssumption ==
    /\ "coordinator" \in OwnerIDs
    /\ ParentOf \in [Keys -> Parents]
    /\ Workers \in Nat \ {0}
    /\ SyncTimeouts \in BOOLEAN

\* With the same keyOf, SameWatchTarget is equality.
WatchRequest == [node : Nodes, gvr : Gvrs, target : Targets]
keyOf(req) == <<req.node, req.gvr>>

VARIABLES
    m,          \* the Manager
    owners,     \* the keys in Coordinator.owners
    current,    \* ownerState.current of each key
    previous,   \* ownerState.previous of each key
    index,      \* scalarIndex and collectionIndex: pairs of a key and a request
    w,          \* the worker of each key
    dropping,   \* RemoveWhere: the GVRs it has still to release
    raced       \* history: the GVRs on which a release overlapped a watch

vars == <<m, owners, current, previous, index, w, dropping, raced>>

\* req: the requests being added, at most one; inf: the informer waited for,
\* dead when the wait for it fails; orphaned: the GVRs to release before going on.
Worker == [pc : {"idle", "run", "ensure", "wait", "rollback"},
           req : SUBSET WatchRequest,
           inf : {"none", "running", "synced", "dead"},
           orphaned : SUBSET Gvrs]
Idle == [pc |-> "idle", req |-> {}, inf |-> "none", orphaned |-> {}]

TypeOK ==
    /\ m \in Manager
    /\ owners \subseteq Keys
    /\ current \in [Keys -> SUBSET WatchRequest]
    /\ previous \in [Keys -> SUBSET WatchRequest]
    /\ index \subseteq Keys \X WatchRequest
    /\ w \in [Keys -> Worker]
    /\ dropping \subseteq Gvrs
    /\ raced \subseteq Gvrs

Init ==
    /\ m = NewManager
    /\ owners = {}
    /\ current = [k \in Keys |-> {}]
    /\ previous = [k \in Keys |-> {}]
    /\ index = {}
    /\ w = [k \in Keys |-> Idle]
    /\ dropping = {}
    /\ raced = {}

-----------------------------------------------------------------------------
(* The indexes.                                                            *)

GvrsOf(S) == {req.gvr : req \in S}

Entries(K, S) == K \X S

Indexed(ix) == {e[2].gvr : e \in ix}

\* A bug: every affected GVR is taken for orphaned.
findOrphanedKeepsAll(ix, affected) == affected

\* Of the affected GVRs, the ones without an entry.
findOrphanedGVRsLocked(ix, affected) == affected \ Indexed(ix)

\* A worker that waits sees its own informer: it syncs, or it is stopped first.
Observed(ws, mgr) ==
    [k \in Keys |->
        IF ws[k].inf # "running" THEN ws[k]
        ELSE [ws[k] EXCEPT !.inf = IF ~(GvrsOf(ws[k].req) \subseteq mgr.watches) THEN "dead"
                                   ELSE IF GvrsOf(ws[k].req) \subseteq mgr.synced THEN "synced"
                                   ELSE "running"]]

-----------------------------------------------------------------------------
(* The windows between the critical sections, which the properties name.   *)

\* The request that k is adding has no informer yet, or none any more.
Unbacked(k) ==
    IF w[k].pc \in {"ensure", "rollback"} \/ w[k].inf \in {"running", "dead"}
    THEN w[k].req \ previous[k] ELSE {}

\* The watches of k that count on their informer.
Backed(k) == (current[k] \cup previous[k]) \ Unbacked(k)

\* The keys whose addWatch has failed and has still to be undone.
Failing == {k \in Keys : w[k].inf = "dead" \/ w[k].pc = "rollback"}

\* The GVRs whose release is decided: as orphans, or by a failed wait.
Pending == {v \in Gvrs : \/ v \in dropping
                         \/ \E k \in Keys : v \in w[k].orphaned
                         \/ \E k \in Failing : v \in GvrsOf(w[k].req)}

\* The GVRs whose entry was removed before their EnsureWatch returned.
Undercut == {v \in Gvrs : \E k \in Keys : /\ w[k].pc \in {"ensure", "wait"}
                                        /\ v \in GvrsOf(w[k].req \ current[k])}

\* The history, written by every step: a watch is made of a GVR whose release is
\* decided but not carried out, or a key is dropped in the middle of addWatch.
Record ==
    raced' = raced \cup Undercut'
                   \cup {v \in Pending : \E k \in Keys :
                           v \in GvrsOf(Backed(k)') \ GvrsOf(Backed(k))}

-----------------------------------------------------------------------------
(* The reconcile of key k.                                                 *)

\* The keys that occupy a worker: Done returns after its releases.
Busy == {k \in Keys : w[k].pc # "idle" \/ w[k].orphaned # {}}

\* A worker takes the key: Coordinator.For.
Start(k) ==
    /\ k \notin Busy /\ Cardinality(Busy) < Workers
    /\ w' = [w EXCEPT ![k].pc = "run"]
    /\ UNCHANGED <<m, owners, current, previous, index, dropping>>
    /\ Record

CanCall(k) == w[k].pc = "run" /\ w[k].orphaned = {}

\* A bug: the entry of the old target stays in the index.
addWatchKeepsOld(k, req) ==
    LET old == {q \in current[k] : keyOf(q) = keyOf(req)}
    IN /\ CanCall(k)
       /\ owners' = owners \cup {k}
       /\ current' = [current EXCEPT ![k] = (@ \ old) \cup {req}]
       /\ index' = index \cup Entries({k}, {req} \ previous[k])
       /\ w' = [w EXCEPT ![k].pc = "ensure", ![k].req = {req}]
       /\ UNCHANGED <<m, previous, dropping>>
       /\ Record

\* addWatch, its first critical section: the new target replaces the one that
\* this cycle declared for the same node and GVR.
addWatch(k, req) ==
    LET old == {q \in current[k] : keyOf(q) = keyOf(req)}
        evicted == old \ ({req} \cup previous[k])
        ix == index \ Entries({k}, evicted)
    IN /\ CanCall(k)
       /\ owners' = owners \cup {k}
       /\ current' = [current EXCEPT ![k] = (@ \ old) \cup {req}]
       /\ index' = ix \cup Entries({k}, {req} \ previous[k])
       /\ w' = [w EXCEPT ![k].pc = "ensure", ![k].req = {req},
                         ![k].orphaned = findOrphanedGVRsLocked(ix, GvrsOf(evicted))]
       /\ UNCHANGED <<m, previous, dropping>>
       /\ Record

\* stopWatches: one ReleaseWatch per orphaned GVR, after the unlock.
stopWatches(k) ==
    \E v \in w[k].orphaned :
        /\ m' = ReleaseWatch(m, v, "coordinator")
        /\ w' = Observed([w EXCEPT ![k].orphaned = @ \ {v}], m')
        /\ UNCHANGED <<owners, current, previous, index, dropping>>
        /\ Record

\* EnsureWatch, under the Manager's lock.
Ensure(k) ==
    /\ w[k].pc = "ensure" /\ w[k].orphaned = {}
    /\ \E req \in w[k].req :
          /\ m' = EnsureWatch(m, req.gvr, "coordinator")
          /\ w' = [w EXCEPT ![k].pc = "wait",
                            ![k].inf = IF req.gvr \in m.synced THEN "synced" ELSE "running"]
    /\ UNCHANGED <<owners, current, previous, index, dropping>>
    /\ Record

WaitSucceeds(k) ==
    /\ w[k].pc = "wait" /\ w[k].inf = "synced"
    /\ w' = [w EXCEPT ![k].pc = "run", ![k].req = {}, ![k].inf = "none"]
    /\ UNCHANGED <<m, owners, current, previous, index, dropping>>
    /\ Record

\* SyncTimeout passes before the list arrives.
WaitExpires(k) ==
    /\ SyncTimeouts
    /\ w[k].pc = "wait" /\ w[k].inf = "running"
    /\ w' = [w EXCEPT ![k].inf = "dead"]
    /\ UNCHANGED <<m, owners, current, previous, index, dropping>>
    /\ Record

\* After a failed wait EnsureWatch takes the lock again and drops the retention of
\* its owner ID, which all keys share.  An informer that was stopped never syncs.
WaitTimesOut(k) ==
    /\ w[k].pc = "wait" /\ w[k].inf = "dead"
    /\ \E req \in w[k].req : m' = ReleaseWatch(m, req.gvr, "coordinator")
    /\ w' = Observed([w EXCEPT ![k].pc = "rollback", ![k].inf = "none"], m')
    /\ UNCHANGED <<owners, current, previous, index, dropping>>
    /\ Record

\* addWatch, the critical section of its error path.
Rollback(k) ==
    LET req == w[k].req \cap current[k]
    IN /\ w[k].pc = "rollback"
       /\ IF k \in owners
          THEN /\ current' = [current EXCEPT ![k] = @ \ req]
               /\ index' = index \ Entries({k}, req \ previous[k])
          ELSE UNCHANGED <<current, index>>
       /\ w' = [w EXCEPT ![k].pc = "run", ![k].req = {}]
       /\ UNCHANGED <<m, owners, previous, dropping>>
       /\ Record

\* Done(true): what this cycle did not declare again goes.
done(k) ==
    LET stale == previous[k] \ current[k]
        ix == index \ Entries({k}, stale)
    IN /\ CanCall(k)
       /\ IF k \in owners
          THEN /\ previous' = [previous EXCEPT ![k] = current[k]]
               /\ current' = [current EXCEPT ![k] = {}]
               /\ index' = ix
               /\ w' = [w EXCEPT ![k].pc = "idle",
                                 ![k].orphaned = findOrphanedGVRsLocked(ix, GvrsOf(stale))]
          ELSE /\ w' = [w EXCEPT ![k].pc = "idle"]
               /\ UNCHANGED <<current, previous, index>>
       /\ UNCHANGED <<m, owners, dropping>>
       /\ Record

\* Done(false): what only this cycle declared goes; a key without a committed
\* set is forgotten.
abort(k) ==
    LET dropped == current[k] \ previous[k]
        ix == index \ Entries({k}, dropped)
    IN /\ CanCall(k)
       /\ IF k \in owners
          THEN /\ current' = [current EXCEPT ![k] = {}]
               /\ index' = ix
               /\ owners' = IF previous[k] = {} THEN owners \ {k} ELSE owners
               /\ w' = [w EXCEPT ![k].pc = "idle",
                                 ![k].orphaned = findOrphanedGVRsLocked(ix, GvrsOf(dropped))]
          ELSE /\ w' = [w EXCEPT ![k].pc = "idle"]
               /\ UNCHANGED <<owners, current, index>>
       /\ UNCHANGED <<m, previous, dropping>>
       /\ Record

-----------------------------------------------------------------------------
(* Removal.                                                                *)

\* unindexOwnerStateLocked and the deletion from owners, for the keys in K.
Forget(K) ==
    LET ix == index \ Entries(K, WatchRequest)
    IN /\ index' = ix
       /\ owners' = owners \ K
       /\ current' = [k \in Keys |-> IF k \in K THEN {} ELSE current[k]]
       /\ previous' = [k \in Keys |-> IF k \in K THEN {} ELSE previous[k]]

\* The GVRs that the removal of K affects and orphans.
OrphanedBy(K) ==
    findOrphanedGVRsLocked(index \ Entries(K, WatchRequest),
                           UNION {GvrsOf(current[k] \cup previous[k]) : k \in K})

\* Remove: the reconcile of a deleted owner drops its watches.
Remove(k) ==
    /\ CanCall(k) /\ k \in owners
    /\ Forget({k})
    /\ w' = [w EXCEPT ![k].orphaned = OrphanedBy({k})]
    /\ UNCHANGED <<m, dropping>>
    /\ Record

\* RemoveWhere, called by Deregister: the keys of parent p go, whatever their
\* reconciles are doing.
RemoveWhere(p) ==
    LET K == {k \in owners : ParentOf[k] = p}
    IN /\ dropping = {}
       /\ K # {}
       /\ Forget(K)
       /\ dropping' = OrphanedBy(K)
       /\ UNCHANGED <<m, w>>
       /\ Record

\* stopWatches, for RemoveWhere.
DropRelease ==
    \E v \in dropping :
        /\ m' = ReleaseWatch(m, v, "coordinator")
        /\ dropping' = dropping \ {v}
        /\ w' = Observed(w, m')
        /\ UNCHANGED <<owners, current, previous, index>>
        /\ Record

\* The initial list of an informer arrives.
InformerSyncs(v) ==
    /\ v \in m.watches \ m.synced
    /\ m' = Synced(m, v)
    /\ w' = Observed(w, m')
    /\ UNCHANGED <<owners, current, previous, index, dropping>>
    /\ Record

-----------------------------------------------------------------------------
KeyNext(k) ==
    \/ Start(k)
    \/ \E req \in WatchRequest : addWatch(k, req)
    \/ stopWatches(k) \/ Ensure(k) \/ WaitSucceeds(k) \/ WaitExpires(k)
    \/ WaitTimesOut(k) \/ Rollback(k)
    \/ done(k) \/ abort(k) \/ Remove(k)

Next == \/ \E k \in Keys : KeyNext(k)
        \/ \E p \in Parents : RemoveWhere(p)
        \/ DropRelease
        \/ \E v \in Gvrs : InformerSyncs(v)

Spec == Init /\ [][Next]_vars

-----------------------------------------------------------------------------
(* Properties.                                                             *)

\* RouteEvent sees exactly the declared watches: an entry per request that a key
\* has committed or declared in this cycle, and none of a key that is gone,
\* through retargets, rollbacks, aborts and removals in any order.
IndexExact ==
    \A k \in Keys :
        /\ k \notin owners => current[k] = {} /\ previous[k] = {}
        /\ \A req \in WatchRequest :
              <<k, req>> \in index <=> req \in current[k] \cup previous[k]

\* "Informers run until the last owner releases them".
InformersRetained == ManagerOK(m)

\* Nothing is between two critical sections.
Quiet == /\ dropping = {}
         /\ \A k \in Keys : w[k].pc \in {"idle", "run"} /\ w[k].orphaned = {}

\* No informer is retained for nobody: at rest, a GVR that the coordinator
\* retains has an entry, whoever retargeted, timed out, aborted or was dropped,
\* unless its release had met a new watch of it (Record).
NothingLeaks ==
    Quiet => \A v \in Gvrs \ raced :
                "coordinator" \in m.owners[v] => v \in Indexed(index)

\* "On Done(false) the in-flight set is discarded and the previously committed
\* set stays active": a committed watch has a running informer at all times,
\* whatever the other workers and RemoveWhere are doing, unless it was made
\* between the decision to release its GVR and the release (Record).
CommittedStaysActive ==
    \A k \in Keys : GvrsOf(previous[k]) \ raced \subseteq m.watches

=============================================================================
