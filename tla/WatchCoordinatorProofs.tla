----------------------- MODULE WatchCoordinatorProofs -----------------------
(***************************************************************************)
(* The Manager and the coordinator for every number of owners, resource    *)
(* types, targets and workers.                                             *)
(***************************************************************************)
EXTENDS WatchCoordinator, TLAPS

-----------------------------------------------------------------------------
(* The Manager.                                                            *)

LEMMA NewManagerOK == NewManager \in Manager /\ ManagerOK(NewManager)
BY DEF NewManager, Manager, ManagerOK

LEMMA EnsureWatchOK ==
    ASSUME NEW x \in Manager, ManagerOK(x), NEW v \in Gvrs, NEW id \in OwnerIDs
    PROVE  EnsureWatch(x, v, id) \in Manager /\ ManagerOK(EnsureWatch(x, v, id))
<1> DEFINE y == EnsureWatch(x, v, id)
<1>1. /\ y.owners = [x.owners EXCEPT ![v] = @ \cup {id}]
      /\ y.watches = x.watches \cup {v} /\ y.synced = x.synced
  BY DEF EnsureWatch, Manager
<1>2. y \in Manager
  BY DEF EnsureWatch, Manager
<1>3. x.owners \in [Gvrs -> SUBSET OwnerIDs]
  BY DEF Manager
<1>4. \A u \in Gvrs : u \in y.watches <=> y.owners[u] # {}
  BY <1>1, <1>3 DEF ManagerOK
<1>5. y.synced \subseteq y.watches
  BY <1>1 DEF ManagerOK
<1> QED
  BY <1>2, <1>4, <1>5 DEF ManagerOK

LEMMA ReleaseWatchOK ==
    ASSUME NEW x \in Manager, ManagerOK(x), NEW v \in Gvrs, NEW id \in OwnerIDs
    PROVE  ReleaseWatch(x, v, id) \in Manager /\ ManagerOK(ReleaseWatch(x, v, id))
<1> DEFINE os == [x.owners EXCEPT ![v] = @ \ {id}]
           y == ReleaseWatch(x, v, id)
<1>1. x.owners \in [Gvrs -> SUBSET OwnerIDs] /\ os \in [Gvrs -> SUBSET OwnerIDs]
      /\ x.watches \subseteq Gvrs /\ x.synced \subseteq Gvrs
  BY DEF Manager
<1>2. y.owners = os
  BY DEF ReleaseWatch, stopWatchLocked, Manager
<1>3. CASE os[v] # {}
  <2>1. y.watches = x.watches /\ y.synced = x.synced
    BY <1>3 DEF ReleaseWatch, stopWatchLocked, Manager
  <2>2. y \in Manager
    BY <1>1, <1>3 DEF ReleaseWatch, stopWatchLocked, Manager
  <2> QED
    BY <1>1, <1>2, <1>3, <2>1, <2>2 DEF ManagerOK
<1>4. CASE os[v] = {}
  <2>1. y.watches = x.watches \ {v} /\ y.synced = x.synced \ {v}
    BY <1>4 DEF ReleaseWatch, stopWatchLocked, Manager
  <2>2. y \in Manager
    BY <1>1, <1>4 DEF ReleaseWatch, stopWatchLocked, Manager
  <2> QED
    BY <1>1, <1>2, <1>4, <2>1, <2>2 DEF ManagerOK
<1> QED
  BY <1>3, <1>4

LEMMA SyncedOK ==
    ASSUME NEW x \in Manager, ManagerOK(x), NEW v \in x.watches
    PROVE  Synced(x, v) \in Manager /\ ManagerOK(Synced(x, v))
<1> DEFINE y == Synced(x, v)
<1>1. y.watches = x.watches /\ y.owners = x.owners /\ y.synced = x.synced \cup {v}
  BY DEF Synced, Manager
<1>2. y \in Manager
  BY DEF Synced, Manager
<1> QED
  BY <1>1, <1>2 DEF ManagerOK

-----------------------------------------------------------------------------
(* Types.                                                                  *)

Base == TypeOK /\ InformersRetained

LEMMA ObservedType ==
    ASSUME NEW ws \in [Keys -> Worker], NEW mgr
    PROVE  Observed(ws, mgr) \in [Keys -> Worker]
<1>1. ASSUME NEW k \in Keys, NEW i \in {"none", "running", "synced", "dead"}
      PROVE  [ws[k] EXCEPT !.inf = i] \in Worker
  BY DEF Worker
<1> QED
  BY <1>1 DEF Observed

LEMMA OrphanedType ==
    ASSUME NEW S \in SUBSET WatchRequest, NEW ix
    PROVE  findOrphanedGVRsLocked(ix, GvrsOf(S)) \in SUBSET Gvrs
BY DEF findOrphanedGVRsLocked, GvrsOf, WatchRequest

LEMMA ForgetType ==
    ASSUME TypeOK, NEW K \in SUBSET Keys, Forget(K)
    PROVE  /\ owners' \subseteq Keys
           /\ current' \in [Keys -> SUBSET WatchRequest]
           /\ previous' \in [Keys -> SUBSET WatchRequest]
           /\ index' \subseteq Keys \X WatchRequest
           /\ OrphanedBy(K) \in SUBSET Gvrs
<1>1. OrphanedBy(K) \in SUBSET Gvrs
  BY DEF OrphanedBy, findOrphanedGVRsLocked, GvrsOf, TypeOK, WatchRequest
<1> QED
  BY <1>1 DEF Forget, TypeOK

\* The history stays a set of GVRs.
LEMMA RecordType ==
    ASSUME raced \subseteq Gvrs, Record
    PROVE  raced' \subseteq Gvrs
BY DEF Record, Pending, Undercut

LEMMA BaseInit == Init => Base
BY NewManagerOK DEF Init, Base, TypeOK, InformersRetained, Idle, Worker

LEMMA BaseKey ==
    ASSUME Base, NEW k \in Keys, KeyNext(k)
    PROVE  Base'
<1>0. /\ m \in Manager /\ ManagerOK(m) /\ owners \subseteq Keys
      /\ current \in [Keys -> SUBSET WatchRequest]
      /\ previous \in [Keys -> SUBSET WatchRequest]
      /\ index \subseteq Keys \X WatchRequest
      /\ w \in [Keys -> Worker] /\ dropping \subseteq Gvrs /\ raced \subseteq Gvrs
      /\ "coordinator" \in OwnerIDs
  BY CoordinatorAssumption DEF Base, TypeOK, InformersRetained
<1>r. ASSUME Record PROVE raced' \subseteq Gvrs
  BY <1>0, <1>r, RecordType
<1>1. CASE Start(k)
  <2>1. [w[k] EXCEPT !.pc = "run"] \in Worker
    BY <1>0 DEF Worker
  <2> QED
    BY <1>0, <1>r, <1>1, <2>1 DEF Start, Base, TypeOK, InformersRetained
<1>2. ASSUME NEW req \in WatchRequest, addWatch(k, req) PROVE Base'
  <2> DEFINE old == {q \in current[k] : keyOf(q) = keyOf(req)}
             evicted == old \ ({req} \cup previous[k])
             ix == index \ Entries({k}, evicted)
             orphaned == findOrphanedGVRsLocked(ix, GvrsOf(evicted))
  <2>1. orphaned \in SUBSET Gvrs
    BY <1>0, OrphanedType
  <2>2. [w[k] EXCEPT !.pc = "ensure", !.req = {req}, !.orphaned = orphaned] \in Worker
    BY <1>0, <2>1 DEF Worker
  <2>3. w' \in [Keys -> Worker]
    BY <1>0, <1>2, <2>2 DEF addWatch
  <2>4. /\ current' \in [Keys -> SUBSET WatchRequest]
        /\ owners' \subseteq Keys /\ index' \subseteq Keys \X WatchRequest
    BY <1>0, <1>2 DEF addWatch, Entries
  <2> QED
    BY <1>0, <1>r, <1>2, <2>3, <2>4 DEF addWatch, Base, TypeOK, InformersRetained
<1>3. CASE stopWatches(k)
  <2>1. PICK v \in w[k].orphaned :
           /\ m' = ReleaseWatch(m, v, "coordinator")
           /\ w' = Observed([w EXCEPT ![k].orphaned = @ \ {v}], m')
    BY <1>3 DEF stopWatches
  <2>2. w[k].orphaned \subseteq Gvrs
    BY <1>0 DEF Worker
  <2>3. [w[k] EXCEPT !.orphaned = @ \ {v}] \in Worker
    BY <1>0, <2>2 DEF Worker
  <2>4. w' \in [Keys -> Worker]
    BY <1>0, <2>1, <2>3, ObservedType
  <2>5. m' \in Manager /\ ManagerOK(m)'
    BY <1>0, <2>1, <2>2, ReleaseWatchOK
  <2> QED
    BY <1>0, <1>r, <1>3, <2>4, <2>5 DEF stopWatches, Base, TypeOK, InformersRetained
<1>4. CASE Ensure(k)
  <2>1. PICK req \in w[k].req :
           /\ m' = EnsureWatch(m, req.gvr, "coordinator")
           /\ w' = [w EXCEPT ![k].pc = "wait",
                             ![k].inf = IF req.gvr \in m.synced THEN "synced" ELSE "running"]
    BY <1>4 DEF Ensure
  <2>2. req.gvr \in Gvrs
    BY <1>0, <2>1 DEF Worker, WatchRequest
  <2>3. ASSUME NEW i \in {"synced", "running"}
        PROVE  [w[k] EXCEPT !.pc = "wait", !.inf = i] \in Worker
    BY <1>0 DEF Worker
  <2>4. w' \in [Keys -> Worker]
    BY <1>0, <2>1, <2>3
  <2>5. m' \in Manager /\ ManagerOK(m)'
    BY <1>0, <2>1, <2>2, EnsureWatchOK
  <2> QED
    BY <1>0, <1>r, <1>4, <2>4, <2>5 DEF Ensure, Base, TypeOK, InformersRetained
<1>5. CASE WaitSucceeds(k)
  <2>1. [w[k] EXCEPT !.pc = "run", !.req = {}, !.inf = "none"] \in Worker
    BY <1>0 DEF Worker
  <2> QED
    BY <1>0, <1>r, <1>5, <2>1 DEF WaitSucceeds, Base, TypeOK, InformersRetained
<1>12. CASE WaitExpires(k)
  <2>1. [w[k] EXCEPT !.inf = "dead"] \in Worker
    BY <1>0 DEF Worker
  <2> QED
    BY <1>0, <1>r, <1>12, <2>1 DEF WaitExpires, Base, TypeOK, InformersRetained
<1>6. CASE WaitTimesOut(k)
  <2>1. PICK req \in w[k].req : m' = ReleaseWatch(m, req.gvr, "coordinator")
    BY <1>6 DEF WaitTimesOut
  <2>2. req.gvr \in Gvrs
    BY <1>0, <2>1 DEF Worker, WatchRequest
  <2>3. [w[k] EXCEPT !.pc = "rollback", !.inf = "none"] \in Worker
    BY <1>0 DEF Worker
  <2>4. w' \in [Keys -> Worker]
    BY <1>0, <1>6, <2>3, ObservedType DEF WaitTimesOut
  <2>5. m' \in Manager /\ ManagerOK(m)'
    BY <1>0, <2>1, <2>2, ReleaseWatchOK
  <2> QED
    BY <1>0, <1>r, <1>6, <2>4, <2>5 DEF WaitTimesOut, Base, TypeOK, InformersRetained
<1>7. CASE Rollback(k)
  <2>1. [w[k] EXCEPT !.pc = "run", !.req = {}] \in Worker
    BY <1>0 DEF Worker
  <2>2. /\ w' \in [Keys -> Worker] /\ index' \subseteq Keys \X WatchRequest
        /\ current' \in [Keys -> SUBSET WatchRequest]
    BY <1>0, <1>7, <2>1 DEF Rollback
  <2> QED
    BY <1>0, <1>r, <1>7, <2>2 DEF Rollback, Base, TypeOK, InformersRetained
<1>8. ASSUME NEW S \in SUBSET WatchRequest, NEW ix
      PROVE  /\ [w[k] EXCEPT !.pc = "idle", !.orphaned = findOrphanedGVRsLocked(ix, GvrsOf(S))]
                \in Worker
             /\ [w[k] EXCEPT !.pc = "idle"] \in Worker
  <2>1. findOrphanedGVRsLocked(ix, GvrsOf(S)) \in SUBSET Gvrs
    BY OrphanedType
  <2> QED
    BY <1>0, <2>1 DEF Worker
<1>9. CASE done(k)
  <2> DEFINE stale == previous[k] \ current[k]
             orphaned == findOrphanedGVRsLocked(index \ Entries({k}, stale), GvrsOf(stale))
  <2>a. stale \in SUBSET WatchRequest
    BY <1>0
  <2>b. /\ [w[k] EXCEPT !.pc = "idle", !.orphaned = orphaned] \in Worker
        /\ [w[k] EXCEPT !.pc = "idle"] \in Worker
    BY <1>8, <2>a
  <2>c. w' = [w EXCEPT ![k] = [w[k] EXCEPT !.pc = "idle", !.orphaned = orphaned]]
        \/ w' = [w EXCEPT ![k] = [w[k] EXCEPT !.pc = "idle"]]
    BY <1>0, <1>9 DEF done
  <2> HIDE DEF orphaned
  <2>1. w' \in [Keys -> Worker]
    BY <1>0, <2>b, <2>c
  <2>2. /\ current' \in [Keys -> SUBSET WatchRequest]
        /\ previous' \in [Keys -> SUBSET WatchRequest]
        /\ index' \subseteq Keys \X WatchRequest
    BY <1>0, <1>9 DEF done
  <2> QED
    BY <1>0, <1>r, <1>9, <2>1, <2>2 DEF done, Base, TypeOK, InformersRetained
<1>10. CASE abort(k)
  <2> DEFINE dropped == current[k] \ previous[k]
             orphaned == findOrphanedGVRsLocked(index \ Entries({k}, dropped), GvrsOf(dropped))
  <2>a. dropped \in SUBSET WatchRequest
    BY <1>0
  <2>b. /\ [w[k] EXCEPT !.pc = "idle", !.orphaned = orphaned] \in Worker
        /\ [w[k] EXCEPT !.pc = "idle"] \in Worker
    BY <1>8, <2>a
  <2>c. w' = [w EXCEPT ![k] = [w[k] EXCEPT !.pc = "idle", !.orphaned = orphaned]]
        \/ w' = [w EXCEPT ![k] = [w[k] EXCEPT !.pc = "idle"]]
    BY <1>0, <1>10 DEF abort
  <2> HIDE DEF orphaned
  <2>1. w' \in [Keys -> Worker]
    BY <1>0, <2>b, <2>c
  <2>2. /\ current' \in [Keys -> SUBSET WatchRequest]
        /\ index' \subseteq Keys \X WatchRequest /\ owners' \subseteq Keys
    BY <1>0, <1>10 DEF abort
  <2> QED
    BY <1>0, <1>r, <1>10, <2>1, <2>2 DEF abort, Base, TypeOK, InformersRetained
<1>11. CASE Remove(k)
  <2>1. /\ owners' \subseteq Keys /\ index' \subseteq Keys \X WatchRequest
        /\ current' \in [Keys -> SUBSET WatchRequest]
        /\ previous' \in [Keys -> SUBSET WatchRequest]
        /\ OrphanedBy({k}) \in SUBSET Gvrs
    BY <1>11, ForgetType DEF Remove, Base
  <2>2. [w[k] EXCEPT !.orphaned = OrphanedBy({k})] \in Worker
    BY <1>0, <2>1 DEF Worker
  <2> QED
    BY <1>0, <1>r, <1>11, <2>1, <2>2 DEF Remove, Base, TypeOK, InformersRetained
<1> QED
  BY <1>1, <1>2, <1>3, <1>4, <1>5, <1>6, <1>7, <1>9, <1>10, <1>11, <1>12
  DEF KeyNext

LEMMA BaseStep == Base /\ [Next]_vars => Base'
<1> SUFFICES ASSUME Base, [Next]_vars PROVE Base'
  OBVIOUS
<1>0. /\ m \in Manager /\ ManagerOK(m) /\ owners \subseteq Keys
      /\ w \in [Keys -> Worker] /\ dropping \subseteq Gvrs /\ raced \subseteq Gvrs
      /\ "coordinator" \in OwnerIDs
  BY CoordinatorAssumption DEF Base, TypeOK, InformersRetained
<1>r. ASSUME Record PROVE raced' \subseteq Gvrs
  BY <1>0, <1>r, RecordType
<1>1. ASSUME NEW k \in Keys, KeyNext(k) PROVE Base'
  BY <1>1, BaseKey
<1>2. ASSUME NEW p \in Parents, RemoveWhere(p) PROVE Base'
  <2> DEFINE K == {k \in owners : ParentOf[k] = p}
  <2>1. K \in SUBSET Keys /\ TypeOK /\ Forget(K)
    BY <1>0, <1>2 DEF RemoveWhere, Base
  <2> HIDE DEF K
  <2>2. /\ owners' \subseteq Keys /\ index' \subseteq Keys \X WatchRequest
        /\ current' \in [Keys -> SUBSET WatchRequest]
        /\ previous' \in [Keys -> SUBSET WatchRequest]
        /\ OrphanedBy(K) \in SUBSET Gvrs
    BY <2>1, ForgetType
  <2>3. dropping' = OrphanedBy(K) /\ m' = m /\ w' = w /\ Record
    BY <1>2 DEF RemoveWhere, K
  <2> QED
    BY <1>0, <1>r, <2>2, <2>3 DEF Base, TypeOK, InformersRetained
<1>3. CASE DropRelease
  <2>1. PICK v \in dropping :
           /\ m' = ReleaseWatch(m, v, "coordinator")
           /\ dropping' = dropping \ {v}
           /\ w' = Observed(w, m')
           /\ UNCHANGED <<owners, current, previous, index>> /\ Record
    BY <1>3 DEF DropRelease
  <2>2. m' \in Manager /\ ManagerOK(m)'
    BY <1>0, <2>1, ReleaseWatchOK
  <2>3. w' \in [Keys -> Worker]
    BY <1>0, <2>1, ObservedType
  <2> QED
    BY <1>0, <1>r, <2>1, <2>2, <2>3 DEF Base, TypeOK, InformersRetained
<1>4. ASSUME NEW v \in Gvrs, InformerSyncs(v) PROVE Base'
  <2>1. m' \in Manager /\ ManagerOK(m)'
    BY <1>0, <1>4, SyncedOK DEF InformerSyncs
  <2>2. w' \in [Keys -> Worker]
    BY <1>0, <1>4, ObservedType DEF InformerSyncs
  <2> QED
    BY <1>r, <1>4, <2>1, <2>2 DEF InformerSyncs, Base, TypeOK, InformersRetained
<1>5. CASE UNCHANGED vars
  BY <1>5 DEF vars, Base, TypeOK, InformersRetained
<1> QED
  BY <1>1, <1>2, <1>3, <1>4, <1>5 DEF Next

\* Every state of the coordinator and of the Manager is well-formed, whatever
\* the workers, timeouts and removals do (Coordinator, Manager).
THEOREM TypeCorrect == Spec => []TypeOK
<1>1. Base => TypeOK
  BY DEF Base
<1> QED
  BY <1>1, BaseInit, BaseStep, PTL DEF Spec

\* An informer runs exactly as long as some owner ID retains it, for every order
\* of EnsureWatch, ReleaseWatch, timeouts and late synchronisation.
THEOREM InformersRetainedHolds == Spec => []InformersRetained
<1>1. Base => InformersRetained
  BY DEF Base
<1> QED
  BY <1>1, BaseInit, BaseStep, PTL DEF Spec

-----------------------------------------------------------------------------
(* The index.                                                              *)

LEMMA IndexInit == Init => IndexExact
BY DEF Init, IndexExact

\* IndexExact speaks of one key at a time.
KeyExact(k) ==
    /\ k \notin owners => current[k] = {} /\ previous[k] = {}
    /\ \A req \in WatchRequest :
          <<k, req>> \in index <=> req \in current[k] \cup previous[k]

\* A step that leaves the coordinator alone.
LEMMA IndexStutter ==
    ASSUME IndexExact, UNCHANGED <<owners, current, previous, index>>
    PROVE  IndexExact'
BY DEF IndexExact

LEMMA IndexForget ==
    ASSUME TypeOK, IndexExact, NEW K \in SUBSET Keys, Forget(K)
    PROVE  IndexExact'
<1> SUFFICES ASSUME NEW k \in Keys PROVE KeyExact(k)'
  BY DEF IndexExact, KeyExact
<1>0. KeyExact(k)
  BY DEF IndexExact, KeyExact
<1>1. CASE k \in K
  BY <1>0, <1>1 DEF Forget, Entries, KeyExact, TypeOK
<1>2. CASE k \notin K
  BY <1>0, <1>2 DEF Forget, Entries, KeyExact, TypeOK
<1> QED
  BY <1>1, <1>2

LEMMA IndexKey ==
    ASSUME TypeOK, IndexExact, NEW k \in Keys, KeyNext(k)
    PROVE  IndexExact'
<1>0. /\ owners \subseteq Keys /\ index \subseteq Keys \X WatchRequest
      /\ current \in [Keys -> SUBSET WatchRequest]
      /\ previous \in [Keys -> SUBSET WatchRequest]
  BY DEF TypeOK
<1>a. \A j \in Keys : KeyExact(j)
  BY DEF IndexExact, KeyExact
<1>b. ASSUME \A j \in Keys : KeyExact(j)' PROVE IndexExact'
  BY <1>b DEF IndexExact, KeyExact
<1>1. ASSUME NEW req \in WatchRequest, addWatch(k, req) PROVE IndexExact'
  <2> SUFFICES ASSUME NEW j \in Keys PROVE KeyExact(j)'
    BY <1>b
  <2>1. CASE j = k
    BY <1>0, <1>a, <1>1, <2>1 DEF addWatch, Entries, KeyExact
  <2>2. CASE j # k
    BY <1>0, <1>a, <1>1, <2>2 DEF addWatch, Entries, KeyExact
  <2> QED
    BY <2>1, <2>2
<1>2. CASE Rollback(k)
  <2> SUFFICES ASSUME NEW j \in Keys PROVE KeyExact(j)'
    BY <1>b
  <2>1. CASE j = k
    BY <1>0, <1>a, <1>2, <2>1 DEF Rollback, Entries, KeyExact
  <2>2. CASE j # k
    BY <1>0, <1>a, <1>2, <2>2 DEF Rollback, Entries, KeyExact
  <2> QED
    BY <2>1, <2>2
<1>3. CASE done(k)
  <2> SUFFICES ASSUME NEW j \in Keys PROVE KeyExact(j)'
    BY <1>b
  <2>1. CASE j = k
    BY <1>0, <1>a, <1>3, <2>1 DEF done, Entries, KeyExact
  <2>2. CASE j # k
    BY <1>0, <1>a, <1>3, <2>2 DEF done, Entries, KeyExact
  <2> QED
    BY <2>1, <2>2
<1>4. CASE abort(k)
  <2> SUFFICES ASSUME NEW j \in Keys PROVE KeyExact(j)'
    BY <1>b
  <2>1. CASE j = k
    BY <1>0, <1>a, <1>4, <2>1 DEF abort, Entries, KeyExact
  <2>2. CASE j # k
    BY <1>0, <1>a, <1>4, <2>2 DEF abort, Entries, KeyExact
  <2> QED
    BY <2>1, <2>2
<1>5. CASE Remove(k)
  BY <1>5, IndexForget DEF Remove
<1>6. CASE \/ Start(k) \/ stopWatches(k) \/ Ensure(k) \/ WaitSucceeds(k)
           \/ WaitExpires(k) \/ WaitTimesOut(k)
  BY <1>6, IndexStutter
  DEF Start, stopWatches, Ensure, WaitSucceeds, WaitExpires, WaitTimesOut
<1> QED
  BY <1>1, <1>2, <1>3, <1>4, <1>5, <1>6 DEF KeyNext

LEMMA IndexStep == TypeOK /\ IndexExact /\ [Next]_vars => IndexExact'
<1> SUFFICES ASSUME TypeOK, IndexExact, [Next]_vars PROVE IndexExact'
  OBVIOUS
<1>1. ASSUME NEW k \in Keys, KeyNext(k) PROVE IndexExact'
  BY <1>1, IndexKey
<1>2. ASSUME NEW p \in Parents, RemoveWhere(p) PROVE IndexExact'
  <2>1. {k \in owners : ParentOf[k] = p} \in SUBSET Keys
    BY DEF TypeOK
  <2> QED
    BY <1>2, <2>1, IndexForget DEF RemoveWhere
<1>3. CASE DropRelease \/ (\E v \in Gvrs : InformerSyncs(v)) \/ UNCHANGED vars
  BY <1>3, IndexStutter DEF DropRelease, InformerSyncs, vars
<1> QED
  BY <1>1, <1>2, <1>3 DEF Next

\* RouteEvent's indexes hold exactly the watches that the owners have committed
\* or declared, for every interleaving of reconciles, rollbacks and removals.
THEOREM IndexExactHolds == Spec => []IndexExact
BY TypeCorrect, IndexInit, IndexStep, PTL DEF Spec

-----------------------------------------------------------------------------
(* Releases that are decided in one critical section and carried out in a  *)
(* later one.                                                              *)
(*                                                                         *)
(* All keys retain informers under one owner ID, and the index is read in  *)
(* one critical section and acted upon in another.  The argument, for a    *)
(* GVR on which no release has met a new watch: whoever counts on the      *)
(* informer has it synchronised and nobody is about to release it; and     *)
(* what the coordinator retains is about to be released, or declared by an *)
(* addWatch that is not being undone.                                      *)

Uses(S, v) == \E r \in S : r.gvr = v

\* A release of v is decided as an orphan's.
Decided(v) == v \in dropping \/ \E k \in Keys : v \in w[k].orphaned

\* The members of Pending; and the GVRs that somebody will still release.
PendingOn(v) ==
    Decided(v) \/ \E k \in Keys : (w[k].inf = "dead" \/ w[k].pc = "rollback")
                                  /\ Uses(w[k].req, v)
DueOn(v) == Decided(v) \/ \E k \in Keys : w[k].inf = "dead" /\ Uses(w[k].req, v)

\* The watches of k but the one that a rollback is about to remove.
Kept(k) == (current[k] \cup previous[k])
              \ (IF w[k].pc = "rollback" THEN w[k].req \ previous[k] ELSE {})

\* The worker of key k between its critical sections.
InOrder(k) ==
    /\ w[k].pc \in {"idle", "run"} => w[k].req = {}
    /\ w[k].pc \notin {"idle", "run"} => \E r \in WatchRequest : w[k].req = {r}
    /\ w[k].pc = "wait" <=> w[k].inf # "none"
    /\ w[k].inf = "running" => \A r \in w[k].req : r.gvr \in m.watches \ m.synced

\* The invariant of a GVR.
SoundOn(v) ==
    /\ \A k \in Keys : Uses(Backed(k), v) => v \in m.synced /\ ~PendingOn(v)
    /\ "coordinator" \in m.owners[v] => DueOn(v) \/ \E k \in Keys : Uses(Kept(k), v)

Windows == /\ Base /\ IndexExact
           /\ \A k \in Keys : InOrder(k)
           /\ \A v \in Gvrs \ raced : SoundOn(v)

LEMMA UsesIs ==
    ASSUME NEW S, NEW v
    PROVE  v \in GvrsOf(S) <=> Uses(S, v)
BY DEF GvrsOf, Uses

LEMMA PendingIs ==
    ASSUME NEW v \in Gvrs
    PROVE  v \in Pending <=> PendingOn(v)
<1>1. \A k \in Keys : v \in GvrsOf(w[k].req) <=> Uses(w[k].req, v)
  BY UsesIs
<1> QED
  BY <1>1 DEF Pending, PendingOn, Decided, Failing

\* What a step that leaves v out of the history has not done.
LEMMA RecordGives ==
    ASSUME Record, NEW v \in Gvrs, v \notin raced'
    PROVE  /\ v \notin raced
           /\ PendingOn(v) => \A k \in Keys : Uses(Backed(k)', v) => Uses(Backed(k), v)
           /\ \A k \in Keys : w'[k].pc \in {"ensure", "wait"} =>
                                 ~Uses(w'[k].req \ current'[k], v)
<1>1. v \notin raced /\ v \notin Undercut'
  BY DEF Record
<1>2. ASSUME PendingOn(v), NEW k \in Keys, Uses(Backed(k)', v) PROVE Uses(Backed(k), v)
  <2>1. v \in Pending /\ v \in GvrsOf(Backed(k)')
    BY <1>2, PendingIs, UsesIs
  <2>2. v \in GvrsOf(Backed(k)) \/ v \in raced'
    BY <2>1 DEF Record
  <2> QED
    BY <2>2, UsesIs
<1>3. ASSUME NEW k \in Keys, w'[k].pc \in {"ensure", "wait"}, Uses(w'[k].req \ current'[k], v)
      PROVE  FALSE
  <2>1. v \in GvrsOf(w'[k].req \ current'[k])
    BY <1>3, UsesIs
  <2>2. v \in Undercut'
    BY <1>3, <2>1 DEF Undercut, GvrsOf
  <2> QED
    BY <1>1, <2>2
<1> QED
  BY <1>1, <1>2, <1>3

\* After a step, nobody counts on an informer whose release was decided before.
LEMMA BackedIsFree ==
    ASSUME Windows, Record, NEW v \in Gvrs \ raced', NEW k \in Keys, Uses(Backed(k)', v)
    PROVE  ~PendingOn(v)
<1>1. v \in Gvrs \ raced /\ (PendingOn(v) => Uses(Backed(k), v))
  BY RecordGives
<1> QED
  BY <1>1 DEF Windows, SoundOn


\* The effect of a release on the Manager.
LEMMA ReleaseEffect ==
    ASSUME NEW x \in Manager, NEW v \in Gvrs, NEW id
    PROVE  /\ id \notin ReleaseWatch(x, v, id).owners[v]
           /\ \A u \in Gvrs \ {v} :
                 /\ ReleaseWatch(x, v, id).owners[u] = x.owners[u]
                 /\ u \in ReleaseWatch(x, v, id).watches <=> u \in x.watches
                 /\ u \in ReleaseWatch(x, v, id).synced <=> u \in x.synced
<1> DEFINE os == [x.owners EXCEPT ![v] = @ \ {id}]
           y == ReleaseWatch(x, v, id)
<1>1. x.owners \in [Gvrs -> SUBSET OwnerIDs]
  BY DEF Manager
<1>2. y.owners = os
  BY DEF ReleaseWatch, stopWatchLocked, Manager
<1>3. CASE os[v] # {}
  <2>1. y.watches = x.watches /\ y.synced = x.synced
    BY <1>3 DEF ReleaseWatch, stopWatchLocked, Manager
  <2> QED
    BY <1>1, <1>2, <2>1
<1>4. CASE os[v] = {}
  <2>1. y.watches = x.watches \ {v} /\ y.synced = x.synced \ {v}
    BY <1>4 DEF ReleaseWatch, stopWatchLocked, Manager
  <2> QED
    BY <1>1, <1>2, <2>1
<1> QED
  BY <1>3, <1>4

LEMMA EnsureEffect ==
    ASSUME NEW x \in Manager, NEW v \in Gvrs, NEW id
    PROVE  /\ EnsureWatch(x, v, id).watches = x.watches \cup {v}
           /\ EnsureWatch(x, v, id).synced = x.synced
           /\ \A u \in Gvrs \ {v} : EnsureWatch(x, v, id).owners[u] = x.owners[u]
BY DEF EnsureWatch, Manager

\* The GVRs that are found orphaned are the affected ones without an entry.
LEMMA OrphanedIs ==
    ASSUME NEW ix, NEW A, NEW v
    PROVE  v \in findOrphanedGVRsLocked(ix, A) <=> v \in A /\ \A e \in ix : e[2].gvr # v
BY DEF findOrphanedGVRsLocked, Indexed

\* A step that drops entries, and decides to release the GVRs left without one:
\* done, abort, Remove and RemoveWhere.  O: what it found orphaned among the
\* affected A.
LEMMA WindowsShrink ==
    ASSUME Windows, Record, IndexExact', TypeOK', m' = m,
           NEW A, NEW O, O = findOrphanedGVRsLocked(index', A),
           index' \subseteq index,
           \A e \in index \ index' : e[2].gvr \in A,
           \A v \in Gvrs : Decided(v)' <=> Decided(v) \/ v \in O,
           \A j \in Keys : /\ w'[j].req = w[j].req /\ w'[j].inf = w[j].inf
                           /\ \/ w'[j].pc = w[j].pc
                              \/ w[j].pc \in {"idle", "run"} /\ w'[j].pc \in {"idle", "run"},
           \A j \in Keys : \/ current'[j] = current[j] /\ previous'[j] = previous[j]
                           \/ current'[j] = {} /\ previous'[j] = {}
                           \/ /\ w[j].pc \in {"idle", "run"}
                              /\ current'[j] \cup previous'[j] \subseteq current[j] \cup previous[j]
    PROVE  (\A k \in Keys : InOrder(k)') /\ (\A v \in Gvrs \ raced' : SoundOn(v)')
<1>0. /\ current \in [Keys -> SUBSET WatchRequest] /\ previous \in [Keys -> SUBSET WatchRequest]
      /\ current' \in [Keys -> SUBSET WatchRequest] /\ previous' \in [Keys -> SUBSET WatchRequest]
      /\ w \in [Keys -> Worker]
  BY DEF Windows, Base, TypeOK
<1>1. ASSUME NEW k \in Keys PROVE InOrder(k) /\ InOrder(k)'
  BY <1>1 DEF Windows, InOrder
<1>2. ASSUME NEW k \in Keys
      PROVE  Backed(k)' \subseteq Backed(k) /\ Backed(k)' \subseteq current'[k] \cup previous'[k]
  BY <1>1, <1>2 DEF Backed, Unbacked, InOrder
<1>3. ASSUME NEW v \in Gvrs
      PROVE  /\ PendingOn(v)' <=> PendingOn(v) \/ v \in O
             /\ DueOn(v)' <=> DueOn(v) \/ v \in O
  <2>1. \A j \in Keys : /\ Uses(w[j].req, v)' <=> Uses(w[j].req, v)
                        /\ (w[j].pc = "rollback")' <=> w[j].pc = "rollback"
    BY DEF Uses
  <2> QED
    BY <2>1, <1>3 DEF PendingOn, DueOn
<1>4. ASSUME NEW k \in Keys, NEW r \in current'[k] \cup previous'[k]
      PROVE  r.gvr \notin O
  <2>1. <<k, r>> \in index'
    BY <1>0, <1>4 DEF IndexExact
  <2>2. <<k, r>>[2].gvr = r.gvr
    OBVIOUS
  <2> QED
    BY <2>1, <2>2, OrphanedIs
<1>5. ASSUME NEW v \in Gvrs \ raced', NEW k \in Keys, Uses(Backed(k)', v)
      PROVE  v \in m'.synced /\ ~PendingOn(v)'
  <2>1. v \notin raced /\ Uses(Backed(k), v)
    BY <1>2, <1>5, RecordGives DEF Uses
  <2>2. v \in m.synced /\ ~PendingOn(v)
    BY <2>1 DEF Windows, SoundOn
  <2>3. v \notin O
    BY <1>2, <1>4, <1>5 DEF Uses
  <2> QED
    BY <1>3, <2>2, <2>3
<1>6. ASSUME NEW v \in Gvrs \ raced', "coordinator" \in m'.owners[v]
      PROVE  DueOn(v)' \/ \E k \in Keys : Uses(Kept(k)', v)
  <2> SUFFICES ASSUME ~DueOn(v)' PROVE \E k \in Keys : Uses(Kept(k)', v)
    OBVIOUS
  <2>1. /\ v \notin raced
        /\ \A k \in Keys : w'[k].pc \in {"ensure", "wait"} => ~Uses(w'[k].req \ current'[k], v)
    BY <1>6, RecordGives
  <2>2. SoundOn(v) /\ ~DueOn(v) /\ v \notin O
    BY <1>3, <2>1 DEF Windows
  <2>a. PICK i \in Keys : Uses(Kept(i), v)
    BY <1>6, <2>2 DEF SoundOn
  <2>3. PICK r \in Kept(i) : r.gvr = v
    BY <2>a DEF Uses
  <2>4. CASE r \in current'[i] \cup previous'[i]
    <3>1. r \in Kept(i)'
      BY <1>1, <2>3, <2>4 DEF Kept, InOrder
    <3> QED
      BY <2>3, <3>1 DEF Uses
  <2>5. CASE r \notin current'[i] \cup previous'[i]
    <3>1. r \in Backed(i)
      <4> SUFFICES ASSUME r \in Unbacked(i) PROVE FALSE
        BY <2>3 DEF Kept, Backed
      <4>1. r \in w[i].req /\ r \notin previous[i]
        BY DEF Unbacked
      <4>2. w[i].pc \in {"ensure", "wait"}
        BY <1>0, <1>1, <2>3, <4>1 DEF Unbacked, Kept, InOrder, Worker
      <4>3. r \in w'[i].req \ current'[i] /\ w'[i].pc \in {"ensure", "wait"}
        BY <2>5, <4>1, <4>2
      <4> QED
        BY <2>1, <2>3, <4>3 DEF Uses
    <3>2. ~PendingOn(v)
      BY <2>2, <2>3, <3>1 DEF SoundOn, Uses
    <3>3. <<i, r>> \in index \ index' /\ <<i, r>>[2].gvr = v
      BY <1>0, <2>3, <2>5 DEF Windows, IndexExact, Kept
    <3>4. PICK e \in index' : e[2].gvr = v
      BY <2>2, <3>3, OrphanedIs
    <3>5. PICK j \in Keys, q \in WatchRequest : e = <<j, q>>
      BY <3>4 DEF TypeOK
    <3>6. q \in current'[j] \cup previous'[j] /\ q.gvr = v
      BY <3>4, <3>5 DEF IndexExact
    <3>7. q \in Kept(j)'
      <4> SUFFICES ASSUME w'[j].pc = "rollback", q \in w'[j].req PROVE FALSE
        BY <3>6 DEF Kept
      <4> QED
        BY <3>2, <3>6 DEF PendingOn, Uses
    <3> QED
      BY <3>6, <3>7 DEF Uses
  <2> QED
    BY <2>4, <2>5
<1> QED
  BY <1>1, <1>5, <1>6 DEF SoundOn, Uses

\* The worker of a key that may call the coordinator.
LEMMA CallerIs ==
    ASSUME Windows, NEW k \in Keys, CanCall(k)
    PROVE  w[k].pc = "run" /\ w[k].orphaned = {} /\ w[k].req = {} /\ w[k].inf = "none"
BY DEF CanCall, Windows, InOrder

LEMMA WindowsDone ==
    ASSUME Windows, NEW k \in Keys, done(k) \/ abort(k), IndexExact', TypeOK'
    PROVE  (\A j \in Keys : InOrder(j)') /\ (\A v \in Gvrs \ raced' : SoundOn(v)')
<1>0. /\ current \in [Keys -> SUBSET WatchRequest] /\ previous \in [Keys -> SUBSET WatchRequest]
      /\ w \in [Keys -> Worker] /\ index \subseteq Keys \X WatchRequest
  BY DEF Windows, Base, TypeOK
<1>1. w[k].pc = "run" /\ w[k].orphaned = {} /\ w[k].req = {} /\ w[k].inf = "none" /\ Record
  BY CallerIs DEF done, abort
<1>2. \A j \in Keys \ {k} : /\ w'[j] = w[j] /\ current'[j] = current[j]
                            /\ previous'[j] = previous[j]
  BY <1>0 DEF done, abort
<1>3. /\ w'[k].pc = "idle" /\ w'[k].req = {} /\ w'[k].inf = "none"
      /\ m' = m /\ dropping' = dropping
  BY <1>0, <1>1 DEF done, abort, Worker
<1>4. current'[k] \cup previous'[k] \subseteq current[k] \cup previous[k]
  BY <1>0 DEF done, abort
<1>a. \A j \in Keys : /\ w'[j].req = w[j].req /\ w'[j].inf = w[j].inf
                      /\ \/ w'[j].pc = w[j].pc
                         \/ w[j].pc \in {"idle", "run"} /\ w'[j].pc \in {"idle", "run"}
  BY <1>1, <1>2, <1>3
<1>b. \A j \in Keys : \/ current'[j] = current[j] /\ previous'[j] = previous[j]
                      \/ current'[j] = {} /\ previous'[j] = {}
                      \/ /\ w[j].pc \in {"idle", "run"}
                         /\ current'[j] \cup previous'[j] \subseteq current[j] \cup previous[j]
  BY <1>1, <1>2, <1>4
<1>5. CASE k \notin owners
  <2>1. w'[k].orphaned = {} /\ index' = index
    BY <1>0, <1>1, <1>5 DEF done, abort, Worker
  <2>2. {} = findOrphanedGVRsLocked(index', {})
    BY DEF findOrphanedGVRsLocked
  <2>3. \A v \in Gvrs : Decided(v)' <=> Decided(v) \/ v \in {}
    BY <1>1, <1>2, <1>3, <2>1 DEF Decided
  <2> QED
    BY <1>1, <1>3, <1>a, <1>b, <2>1, <2>2, <2>3, WindowsShrink
<1>6. ASSUME NEW S \in SUBSET WatchRequest, index' = index \ Entries({k}, S),
             w'[k].orphaned = findOrphanedGVRsLocked(index', GvrsOf(S))
      PROVE  (\A j \in Keys : InOrder(j)') /\ (\A v \in Gvrs \ raced' : SoundOn(v)')
  <2>1. \A e \in index \ index' : e[2].gvr \in GvrsOf(S)
    BY <1>0, <1>6 DEF Entries, GvrsOf
  <2>2. \A v \in Gvrs : Decided(v)' <=> Decided(v) \/ v \in w'[k].orphaned
    BY <1>1, <1>2, <1>3 DEF Decided
  <2> QED
    BY <1>1, <1>3, <1>a, <1>b, <1>6, <2>1, <2>2, WindowsShrink
<1>7. CASE k \in owners /\ done(k)
  <2> DEFINE O == findOrphanedGVRsLocked(index \ Entries({k}, previous[k] \ current[k]), GvrsOf(previous[k] \ current[k]))
  <2>a. /\ index' = index \ Entries({k}, previous[k] \ current[k])
        /\ w' = [w EXCEPT ![k] = [w[k] EXCEPT !.pc = "idle", !.orphaned = O]]
    BY <1>0, <1>7 DEF done
  <2>b. O = findOrphanedGVRsLocked(index', GvrsOf(previous[k] \ current[k]))
    BY <2>a
  <2> HIDE DEF O
  <2>c. w'[k].orphaned = O
    BY <1>0, <2>a DEF Worker
  <2>2. previous[k] \ current[k] \in SUBSET WatchRequest
    BY <1>0
  <2> QED
    BY <1>6, <2>2, <2>a, <2>b, <2>c
<1>8. CASE k \in owners /\ abort(k)
  <2> DEFINE O == findOrphanedGVRsLocked(index \ Entries({k}, current[k] \ previous[k]), GvrsOf(current[k] \ previous[k]))
  <2>a. /\ index' = index \ Entries({k}, current[k] \ previous[k])
        /\ w' = [w EXCEPT ![k] = [w[k] EXCEPT !.pc = "idle", !.orphaned = O]]
    BY <1>0, <1>8 DEF abort
  <2>b. O = findOrphanedGVRsLocked(index', GvrsOf(current[k] \ previous[k]))
    BY <2>a
  <2> HIDE DEF O
  <2>c. w'[k].orphaned = O
    BY <1>0, <2>a DEF Worker
  <2>2. current[k] \ previous[k] \in SUBSET WatchRequest
    BY <1>0
  <2> QED
    BY <1>6, <2>2, <2>a, <2>b, <2>c
<1> QED
  BY <1>5, <1>7, <1>8

\* Forget names the GVRs of the entries it drops.
LEMMA ForgetAffects ==
    ASSUME Windows, NEW K \in SUBSET Keys, Forget(K)
    PROVE  /\ index' \subseteq index
           /\ \A e \in index \ index' :
                 e[2].gvr \in UNION {GvrsOf(current[k] \cup previous[k]) : k \in K}
           /\ OrphanedBy(K) = findOrphanedGVRsLocked(index',
                                UNION {GvrsOf(current[k] \cup previous[k]) : k \in K})
           /\ \A k \in K : current'[k] = {} /\ previous'[k] = {}
           /\ \A k \in Keys \ K : current'[k] = current[k] /\ previous'[k] = previous[k]
<1>0. index \subseteq Keys \X WatchRequest
  BY DEF Windows, Base, TypeOK
<1>1. index' = index \ Entries(K, WatchRequest)
  BY DEF Forget
<1>2. ASSUME NEW e \in index \ index'
      PROVE  e[2].gvr \in UNION {GvrsOf(current[k] \cup previous[k]) : k \in K}
  <2>1. PICK k \in K, r \in WatchRequest : e = <<k, r>>
    BY <1>1, <1>2 DEF Entries
  <2>2. r \in current[k] \cup previous[k]
    BY <1>2, <2>1 DEF Windows, IndexExact
  <2>3. e[2].gvr \in GvrsOf(current[k] \cup previous[k])
    BY <2>1, <2>2 DEF GvrsOf
  <2> QED
    BY <2>3
<1>3. /\ \A k \in K : current'[k] = {} /\ previous'[k] = {}
      /\ \A k \in Keys \ K : current'[k] = current[k] /\ previous'[k] = previous[k]
  BY DEF Forget
<1> QED
  BY <1>1, <1>2, <1>3 DEF OrphanedBy

LEMMA WindowsRemove ==
    ASSUME Windows, NEW k \in Keys, Remove(k), IndexExact', TypeOK'
    PROVE  (\A j \in Keys : InOrder(j)') /\ (\A v \in Gvrs \ raced' : SoundOn(v)')
<1> DEFINE A == UNION {GvrsOf(current[j] \cup previous[j]) : j \in {k}}
<1>0. w \in [Keys -> Worker]
  BY DEF Windows, Base, TypeOK
<1>1. w[k].pc = "run" /\ w[k].orphaned = {} /\ Record
  BY CallerIs DEF Remove
<1>2. /\ \A j \in Keys \ {k} : w'[j] = w[j]
      /\ w'[k].pc = w[k].pc /\ w'[k].req = w[k].req /\ w'[k].inf = w[k].inf
      /\ w'[k].orphaned = OrphanedBy({k})
      /\ m' = m /\ dropping' = dropping
  BY <1>0 DEF Remove, Worker
<1>3. /\ index' \subseteq index
      /\ \A e \in index \ index' : e[2].gvr \in A
      /\ OrphanedBy({k}) = findOrphanedGVRsLocked(index', A)
      /\ current'[k] = {} /\ previous'[k] = {}
      /\ \A j \in Keys \ {k} : current'[j] = current[j] /\ previous'[j] = previous[j]
  <2>1. {k} \in SUBSET Keys /\ Forget({k})
    BY DEF Remove
  <2> QED
    BY <2>1, ForgetAffects
<1> HIDE DEF A
<1>4. \A v \in Gvrs : Decided(v)' <=> Decided(v) \/ v \in OrphanedBy({k})
  BY <1>1, <1>2 DEF Decided
<1> QED
  BY <1>1, <1>2, <1>3, <1>4, WindowsShrink

LEMMA WindowsRemoveWhere ==
    ASSUME Windows, NEW p \in Parents, RemoveWhere(p), IndexExact', TypeOK'
    PROVE  (\A j \in Keys : InOrder(j)') /\ (\A v \in Gvrs \ raced' : SoundOn(v)')
<1> DEFINE K == {k \in owners : ParentOf[k] = p}
           A == UNION {GvrsOf(current[j] \cup previous[j]) : j \in K}
<1>1. K \in SUBSET Keys /\ Forget(K)
  BY DEF RemoveWhere, Windows, Base, TypeOK
<1>2. w' = w /\ m' = m /\ dropping = {} /\ dropping' = OrphanedBy(K) /\ Record
  BY DEF RemoveWhere
<1> HIDE DEF K
<1>3. /\ index' \subseteq index
      /\ \A e \in index \ index' : e[2].gvr \in A
      /\ OrphanedBy(K) = findOrphanedGVRsLocked(index', A)
      /\ \A j \in K : current'[j] = {} /\ previous'[j] = {}
      /\ \A j \in Keys \ K : current'[j] = current[j] /\ previous'[j] = previous[j]
  BY <1>1, ForgetAffects
<1> HIDE DEF A
<1>4. \A v \in Gvrs : Decided(v)' <=> Decided(v) \/ v \in OrphanedBy(K)
  BY <1>2 DEF Decided
<1> QED
  BY <1>2, <1>3, <1>4, WindowsShrink

\* addWatch's first critical section: it evicts before it finds the orphans.
LEMMA WindowsAdd ==
    ASSUME Windows, NEW k \in Keys, NEW req \in WatchRequest, addWatch(k, req),
           IndexExact', TypeOK'
    PROVE  (\A j \in Keys : InOrder(j)') /\ (\A v \in Gvrs \ raced' : SoundOn(v)')
<1> DEFINE old == {q \in current[k] : keyOf(q) = keyOf(req)}
           evicted == old \ ({req} \cup previous[k])
           ix == index \ Entries({k}, evicted)
           O == findOrphanedGVRsLocked(ix, GvrsOf(evicted))
<1>0. /\ current \in [Keys -> SUBSET WatchRequest] /\ previous \in [Keys -> SUBSET WatchRequest]
      /\ w \in [Keys -> Worker] /\ index \subseteq Keys \X WatchRequest
      /\ index' \subseteq Keys \X WatchRequest
  BY DEF Windows, Base, TypeOK
<1>1. w[k].pc = "run" /\ w[k].orphaned = {} /\ w[k].req = {} /\ w[k].inf = "none" /\ Record
  BY CallerIs DEF addWatch
<1>2. /\ m' = m /\ dropping' = dropping /\ previous' = previous
      /\ current' = [current EXCEPT ![k] = (@ \ old) \cup {req}]
      /\ index' = ix \cup Entries({k}, {req} \ previous[k])
      /\ w' = [w EXCEPT ![k] = [w[k] EXCEPT !.pc = "ensure", !.req = {req}, !.orphaned = O]]
  BY <1>0 DEF addWatch
<1>3. old \subseteq current[k] /\ evicted \subseteq current[k] \ ({req} \cup previous[k])
  OBVIOUS
<1>4. \A j \in Keys, r \in WatchRequest :
         <<j, r>> \in ix <=> <<j, r>> \in index /\ ~(j = k /\ r \in evicted)
  BY DEF Entries
<1>5. \A v : v \in O <=> (\E r \in evicted : r.gvr = v) /\ \A e \in ix : e[2].gvr # v
  <2>1. \A v : v \in GvrsOf(evicted) <=> \E r \in evicted : r.gvr = v
    BY DEF GvrsOf
  <2> HIDE DEF ix, evicted
  <2> QED
    BY <2>1, OrphanedIs
<1>6. ix \subseteq index' /\ ix \subseteq index
  BY <1>2
<1>7. evicted = old \ ({req} \cup previous[k])
  OBVIOUS
<1> HIDE DEF O, ix, evicted, old
<1>8. /\ \A j \in Keys \ {k} : w'[j] = w[j] /\ current'[j] = current[j]
      /\ w'[k].pc = "ensure" /\ w'[k].req = {req} /\ w'[k].inf = "none" /\ w'[k].orphaned = O
      /\ current'[k] = (current[k] \ old) \cup {req}
  BY <1>0, <1>1, <1>2 DEF Worker
<1>9. ASSUME NEW j \in Keys PROVE InOrder(j) /\ InOrder(j)'
  BY <1>2, <1>8, <1>9 DEF Windows, InOrder
<1>10. ASSUME NEW j \in Keys
       PROVE  /\ Backed(j)' \subseteq Backed(j)
              /\ \A r \in Backed(j)' : <<j, r>> \in ix
  <2>1. \A r \in current[j] \cup previous[j] : r \in WatchRequest /\ <<j, r>> \in index
    BY <1>0, <1>10 DEF Windows, IndexExact
  <2>2. CASE j # k
    <3>1. Backed(j)' = Backed(j) /\ Backed(j) \subseteq current[j] \cup previous[j]
      BY <1>2, <1>8, <1>10, <2>2 DEF Backed, Unbacked
    <3> QED
      BY <1>4, <2>1, <2>2, <3>1
  <2>3. CASE j = k
    <3>1. Backed(k) = current[k] \cup previous[k]
      BY <1>1 DEF Backed, Unbacked
    <3>2. Backed(k)' = ((current[k] \ old) \cup {req} \cup previous[k]) \ ({req} \ previous[k])
      BY <1>2, <1>8 DEF Backed, Unbacked
    <3>3. Backed(k)' \subseteq (current[k] \cup previous[k]) \ evicted
      BY <1>7, <3>2
    <3> QED
      BY <1>4, <2>1, <2>3, <3>1, <3>3
  <2> QED
    BY <2>2, <2>3
<1>11. ASSUME NEW v \in Gvrs
       PROVE  /\ PendingOn(v)' <=> PendingOn(v) \/ v \in O
              /\ DueOn(v)' <=> DueOn(v) \/ v \in O
  <2>1. \A j \in Keys \ {k} : Uses(w[j].req, v)' <=> Uses(w[j].req, v)
    BY <1>8 DEF Uses
  <2>2. Decided(v)' <=> Decided(v) \/ v \in O
    BY <1>1, <1>2, <1>8 DEF Decided
  <2> QED
    BY <1>1, <1>8, <2>1, <2>2 DEF PendingOn, DueOn
<1>12. ASSUME NEW v \in Gvrs \ raced', NEW j \in Keys, Uses(Backed(j)', v)
       PROVE  v \in m'.synced /\ ~PendingOn(v)'
  <2>1. PICK r \in Backed(j)' : r.gvr = v
    BY <1>12 DEF Uses
  <2>2. v \notin raced /\ Uses(Backed(j), v)
    BY <1>1, <1>10, <1>12, <2>1, RecordGives DEF Uses
  <2>3. v \in m.synced /\ ~PendingOn(v)
    BY <2>2 DEF Windows, SoundOn
  <2>4. <<j, r>> \in ix /\ <<j, r>>[2].gvr = v
    BY <1>10, <2>1
  <2>5. v \notin O
    BY <1>5, <2>4
  <2> QED
    BY <1>2, <1>11, <2>3, <2>5
<1>13. ASSUME NEW v \in Gvrs \ raced', "coordinator" \in m'.owners[v]
       PROVE  DueOn(v)' \/ \E j \in Keys : Uses(Kept(j)', v)
  <2> SUFFICES ASSUME ~DueOn(v)' PROVE \E j \in Keys : Uses(Kept(j)', v)
    OBVIOUS
  <2>1. v \notin raced
    BY <1>1, <1>13, RecordGives
  <2>2. SoundOn(v) /\ ~DueOn(v) /\ v \notin O /\ "coordinator" \in m.owners[v]
    BY <1>2, <1>11, <1>13, <2>1 DEF Windows
  <2>3. PICK i \in Keys : Uses(Kept(i), v)
    BY <2>2 DEF SoundOn
  <2>4. PICK r \in Kept(i) : r.gvr = v
    BY <2>3 DEF Uses
  <2>5. CASE r \in current'[i] \cup previous'[i]
    <3>1. r \in Kept(i)'
      BY <1>2, <1>8, <2>4, <2>5 DEF Kept
    <3> QED
      BY <2>4, <3>1 DEF Uses
  <2>6. CASE r \notin current'[i] \cup previous'[i]
    <3>1. i = k /\ r \in evicted /\ r \in Backed(k)
      BY <1>1, <1>2, <1>3, <1>7, <1>8, <2>4, <2>6 DEF Kept, Backed, Unbacked
    <3>2. ~PendingOn(v)
      BY <2>2, <2>4, <3>1 DEF SoundOn, Uses
    <3>3. PICK e \in ix : e[2].gvr = v
      BY <1>5, <2>2, <2>4, <3>1
    <3>4. PICK j \in Keys, q \in WatchRequest : e = <<j, q>>
      BY <1>0, <1>6, <3>3
    <3>5. q \in current'[j] \cup previous'[j] /\ q.gvr = v
      BY <1>6, <3>3, <3>4 DEF IndexExact
    <3>6. q \in Kept(j)'
      <4> SUFFICES ASSUME w'[j].pc = "rollback", q \in w'[j].req PROVE FALSE
        BY <3>5 DEF Kept
      <4>1. w[j].pc = "rollback" /\ q \in w[j].req
        BY <1>8
      <4> QED
        BY <3>2, <3>5, <4>1 DEF PendingOn, Uses
    <3> QED
      BY <3>5, <3>6 DEF Uses
  <2> QED
    BY <2>5, <2>6
<1> QED
  BY <1>9, <1>12, <1>13 DEF SoundOn, Uses

\* A step that decides nothing and makes no watch.
LEMMA WindowsSame ==
    ASSUME Windows, Record, m' = m,
           \A j \in Keys : Backed(j)' \subseteq Backed(j) /\ Kept(j) \subseteq Kept(j)',
           \A v \in Gvrs : (PendingOn(v)' => PendingOn(v)) /\ (DueOn(v) => DueOn(v)')
    PROVE  \A v \in Gvrs \ raced' : SoundOn(v)'
<1> SUFFICES ASSUME NEW v \in Gvrs \ raced' PROVE SoundOn(v)'
  OBVIOUS
<1>1. SoundOn(v)
  BY RecordGives DEF Windows
<1> QED
  BY <1>1 DEF SoundOn, Uses

LEMMA WindowsStart ==
    ASSUME Windows, NEW k \in Keys, Start(k) \/ WaitSucceeds(k) \/ Rollback(k)
    PROVE  (\A j \in Keys : InOrder(j)') /\ (\A v \in Gvrs \ raced' : SoundOn(v)')
<1>0. /\ current \in [Keys -> SUBSET WatchRequest] /\ previous \in [Keys -> SUBSET WatchRequest]
      /\ w \in [Keys -> Worker]
  BY DEF Windows, Base, TypeOK
<1>1. /\ m' = m /\ dropping' = dropping /\ previous' = previous /\ Record
      /\ \A j \in Keys \ {k} : w'[j] = w[j] /\ current'[j] = current[j]
  BY <1>0 DEF Start, WaitSucceeds, Rollback
<1>2. InOrder(k)
  BY DEF Windows
<1>3. \/ w[k].pc = "idle" /\ w[k].inf = "none" /\ w[k].req = {} /\ current'[k] = current[k]
      \/ w[k].pc = "wait" /\ w[k].inf = "synced" /\ current'[k] = current[k]
      \/ /\ w[k].pc = "rollback" /\ w[k].inf = "none"
         /\ current'[k] \cup previous[k] = (current[k] \cup previous[k]) \ (w[k].req \ previous[k])
  <2>1. CASE Start(k)
    BY <1>2, <2>1 DEF Start, Busy, InOrder
  <2>2. CASE WaitSucceeds(k)
    BY <2>2 DEF WaitSucceeds
  <2>3. CASE Rollback(k)
    <3>1. w[k].pc = "rollback" /\ w[k].inf = "none"
      BY <1>2, <2>3 DEF Rollback, InOrder
    <3>2. CASE k \in owners
      BY <1>0, <2>3, <3>1, <3>2 DEF Rollback
    <3>3. CASE k \notin owners
      <4>1. current'[k] = {} /\ current[k] = {} /\ previous[k] = {}
        BY <2>3, <3>3 DEF Rollback, Windows, IndexExact
      <4> QED
        BY <3>1, <4>1
    <3> QED
      BY <3>2, <3>3
  <2> QED
    BY <2>1, <2>2, <2>3
<1>4. w'[k].pc = "run" /\ w'[k].req = {} /\ w'[k].inf = "none" /\ w'[k].orphaned = w[k].orphaned
  BY <1>0, <1>2 DEF Start, WaitSucceeds, Rollback, Worker, InOrder, Busy
<1>5. ASSUME NEW j \in Keys PROVE InOrder(j)'
  BY <1>1, <1>4, <1>5 DEF Windows, InOrder
<1>6. ASSUME NEW j \in Keys PROVE Backed(j)' \subseteq Backed(j) /\ Kept(j) \subseteq Kept(j)'
  <2>1. CASE j # k
    BY <1>1, <1>6, <2>1 DEF Backed, Unbacked, Kept
  <2>2. CASE j = k
    BY <1>1, <1>3, <1>4, <2>2 DEF Backed, Unbacked, Kept
  <2> QED
    BY <2>1, <2>2
<1>7. ASSUME NEW v \in Gvrs PROVE (PendingOn(v)' => PendingOn(v)) /\ (DueOn(v) => DueOn(v)')
  <2>1. \A j \in Keys \ {k} : Uses(w[j].req, v)' <=> Uses(w[j].req, v)
    BY <1>1 DEF Uses
  <2>2. Decided(v)' <=> Decided(v)
    BY <1>1, <1>4 DEF Decided
  <2> QED
    BY <1>1, <1>3, <1>4, <2>1, <2>2 DEF PendingOn, DueOn
<1> QED
  BY <1>1, <1>5, <1>6, <1>7, WindowsSame

\* The wait fails: the informer has not synchronised, so nobody counts on it.
LEMMA WindowsExpires ==
    ASSUME Windows, NEW k \in Keys, WaitExpires(k)
    PROVE  (\A j \in Keys : InOrder(j)') /\ (\A v \in Gvrs \ raced' : SoundOn(v)')
<1>0. w \in [Keys -> Worker]
  BY DEF Windows, Base, TypeOK
<1>1. /\ UNCHANGED <<m, dropping, current, previous>> /\ Record
      /\ \A j \in Keys \ {k} : w'[j] = w[j]
      /\ w[k].pc = "wait" /\ w[k].inf = "running"
      /\ w'[k].pc = "wait" /\ w'[k].inf = "dead" /\ w'[k].req = w[k].req
      /\ w'[k].orphaned = w[k].orphaned
  BY <1>0 DEF WaitExpires, Worker
<1>2. ASSUME NEW j \in Keys PROVE InOrder(j)'
  BY <1>1, <1>2 DEF Windows, InOrder
<1>3. ASSUME NEW j \in Keys PROVE Backed(j)' = Backed(j) /\ Kept(j)' = Kept(j)
  BY <1>1, <1>3 DEF Backed, Unbacked, Kept
<1>4. ASSUME NEW v \in Gvrs
      PROVE  /\ PendingOn(v)' => PendingOn(v) \/ Uses(w[k].req, v)
             /\ DueOn(v) => DueOn(v)'
  <2>1. \A j \in Keys : Uses(w[j].req, v)' <=> Uses(w[j].req, v)
    BY <1>1 DEF Uses
  <2>2. Decided(v)' <=> Decided(v)
    BY <1>1 DEF Decided
  <2> QED
    BY <1>1, <2>1, <2>2 DEF PendingOn, DueOn
<1>5. ASSUME NEW v \in Gvrs \ raced' PROVE SoundOn(v)'
  <2>1. SoundOn(v)
    BY <1>1, <1>5, RecordGives DEF Windows
  <2>2. Uses(w[k].req, v) => v \notin m.synced
    BY <1>1 DEF Windows, InOrder, Uses
  <2> QED
    BY <1>1, <1>3, <1>4, <2>1, <2>2 DEF SoundOn, Uses
<1> QED
  BY <1>2, <1>5

LEMMA WindowsEnsure ==
    ASSUME Windows, NEW k \in Keys, Ensure(k)
    PROVE  (\A j \in Keys : InOrder(j)') /\ (\A v \in Gvrs \ raced' : SoundOn(v)')
<1>0. w \in [Keys -> Worker] /\ m \in Manager /\ w[k].pc = "ensure" /\ Record
  BY DEF Windows, Base, TypeOK, Ensure
<1>1. PICK r \in WatchRequest : w[k].req = {r}
  BY <1>0 DEF Windows, InOrder
<1>2. /\ m' = EnsureWatch(m, r.gvr, "coordinator")
      /\ w' = [w EXCEPT ![k].pc = "wait",
                        ![k].inf = IF r.gvr \in m.synced THEN "synced" ELSE "running"]
      /\ UNCHANGED <<dropping, current, previous>>
  BY <1>1 DEF Ensure
<1>3. r.gvr \in Gvrs
  BY DEF WatchRequest
<1>4. /\ \A j \in Keys \ {k} : w'[j] = w[j]
      /\ w'[k].pc = "wait" /\ w'[k].req = {r} /\ w'[k].orphaned = w[k].orphaned
      /\ w'[k].inf = IF r.gvr \in m.synced THEN "synced" ELSE "running"
  BY <1>0, <1>1, <1>2 DEF Worker
<1>5. /\ m'.watches = m.watches \cup {r.gvr} /\ m'.synced = m.synced
      /\ \A u \in Gvrs \ {r.gvr} : m'.owners[u] = m.owners[u]
  BY <1>0, <1>2, <1>3, EnsureEffect
<1>6. w[k].inf = "none"
  BY <1>0 DEF Windows, InOrder
<1>7. ASSUME NEW j \in Keys PROVE InOrder(j)'
  BY <1>4, <1>5, <1>7 DEF Windows, InOrder
<1>8. ASSUME NEW j \in Keys
      PROVE  /\ \A q \in Backed(j)' : q \in Backed(j) \/ (q = r /\ r.gvr \in m.synced)
             /\ Kept(j)' = Kept(j)
  <2>1. CASE j # k
    BY <1>2, <1>4, <1>8, <2>1 DEF Backed, Unbacked, Kept
  <2>2. CASE j = k
    BY <1>0, <1>1, <1>2, <1>4, <2>2 DEF Backed, Unbacked, Kept
  <2> QED
    BY <2>1, <2>2
<1>9. ASSUME NEW v \in Gvrs PROVE (PendingOn(v)' <=> PendingOn(v)) /\ (DueOn(v)' <=> DueOn(v))
  <2>1. \A j \in Keys : Uses(w[j].req, v)' <=> Uses(w[j].req, v)
    BY <1>1, <1>4 DEF Uses
  <2>2. Decided(v)' <=> Decided(v)
    BY <1>2, <1>4 DEF Decided
  <2> QED
    BY <1>0, <1>4, <1>6, <2>1, <2>2 DEF PendingOn, DueOn
<1>10. ASSUME NEW v \in Gvrs \ raced', NEW j \in Keys, Uses(Backed(j)', v)
       PROVE  v \in m'.synced /\ ~PendingOn(v)'
  <2>1. ~PendingOn(v) /\ v \notin raced
    BY <1>0, <1>10, BackedIsFree, RecordGives
  <2>2. v \in m.synced
    BY <1>8, <1>10, <2>1 DEF Windows, SoundOn, Uses
  <2> QED
    BY <1>5, <1>9, <2>1, <2>2
<1>11. ASSUME NEW v \in Gvrs \ raced', "coordinator" \in m'.owners[v]
       PROVE  DueOn(v)' \/ \E j \in Keys : Uses(Kept(j)', v)
  <2>1. /\ v \notin raced
        /\ ~Uses(w'[k].req \ current'[k], v)
    BY <1>0, <1>4, <1>11, RecordGives
  <2>2. CASE v = r.gvr
    <3>1. r \in current[k]
      BY <1>2, <1>4, <2>1, <2>2 DEF Uses
    <3>2. r \in Kept(k)'
      BY <1>2, <1>4, <3>1 DEF Kept
    <3> QED
      BY <2>2, <3>2 DEF Uses
  <2>3. CASE v # r.gvr
    <3>1. DueOn(v) \/ \E j \in Keys : Uses(Kept(j), v)
      BY <1>5, <1>11, <2>1, <2>3 DEF Windows, SoundOn
    <3> QED
      BY <1>8, <1>9, <3>1
  <2> QED
    BY <2>2, <2>3
<1> QED
  BY <1>7, <1>10, <1>11 DEF SoundOn, Uses

\* A worker sees its own informer, and nothing else of its record changes.
LEMMA ObservedIs ==
    ASSUME NEW ws \in [Keys -> Worker], NEW mgr, NEW j \in Keys
    PROVE  /\ Observed(ws, mgr)[j].pc = ws[j].pc
           /\ Observed(ws, mgr)[j].req = ws[j].req
           /\ Observed(ws, mgr)[j].orphaned = ws[j].orphaned
           /\ ws[j].inf # "running" => Observed(ws, mgr)[j].inf = ws[j].inf
           /\ ws[j].inf = "running" =>
                Observed(ws, mgr)[j].inf = IF ~(GvrsOf(ws[j].req) \subseteq mgr.watches) THEN "dead"
                                           ELSE IF GvrsOf(ws[j].req) \subseteq mgr.synced
                                                THEN "synced" ELSE "running"
BY DEF Observed, Worker

\* The GVRs of a single request.
LEMMA GvrsOfOne ==
    ASSUME NEW r
    PROVE  GvrsOf({r}) = {r.gvr}
BY DEF GvrsOf

LEMMA WindowsSyncs ==
    ASSUME Windows, NEW u \in Gvrs, InformerSyncs(u)
    PROVE  (\A j \in Keys : InOrder(j)') /\ (\A v \in Gvrs \ raced' : SoundOn(v)')
<1>0. w \in [Keys -> Worker] /\ m \in Manager /\ Record
  BY DEF Windows, Base, TypeOK, InformerSyncs
<1>1. /\ u \in m.watches \ m.synced
      /\ m' = Synced(m, u) /\ w' = Observed(w, m')
      /\ UNCHANGED <<dropping, current, previous>>
  BY DEF InformerSyncs
<1>2. m'.watches = m.watches /\ m'.owners = m.owners /\ m'.synced = m.synced \cup {u}
  BY <1>0, <1>1 DEF Synced, Manager
<1>3. ASSUME NEW j \in Keys
      PROVE  /\ w'[j].pc = w[j].pc /\ w'[j].req = w[j].req /\ w'[j].orphaned = w[j].orphaned
             /\ \/ w'[j].inf = w[j].inf /\ (w[j].inf = "running" => ~Uses(w[j].req, u))
                \/ w[j].inf = "running" /\ w'[j].inf = "synced" /\ \A r \in w[j].req : r.gvr = u
  <2>1. /\ w'[j].pc = w[j].pc /\ w'[j].req = w[j].req /\ w'[j].orphaned = w[j].orphaned
        /\ w[j].inf # "running" => w'[j].inf = w[j].inf
    BY <1>0, <1>1, ObservedIs
  <2>2. ASSUME w[j].inf = "running"
        PROVE  \/ w'[j].inf = "running" /\ ~Uses(w[j].req, u)
               \/ w'[j].inf = "synced" /\ \A r \in w[j].req : r.gvr = u
    <3>1. PICK r \in WatchRequest : w[j].req = {r} /\ r.gvr \in m.watches \ m.synced
      BY <1>3, <2>2 DEF Windows, InOrder
    <3>2. GvrsOf(w[j].req) = {r.gvr}
      BY <3>1, GvrsOfOne
    <3>a. /\ GvrsOf(w[j].req) \subseteq m'.watches
          /\ GvrsOf(w[j].req) \subseteq m'.synced <=> r.gvr = u
      BY <1>2, <3>1, <3>2
    <3>b. w'[j].inf = IF ~(GvrsOf(w[j].req) \subseteq m'.watches) THEN "dead"
                      ELSE IF GvrsOf(w[j].req) \subseteq m'.synced THEN "synced" ELSE "running"
      BY <1>0, <1>1, <2>2, ObservedIs
    <3>3. w'[j].inf = IF r.gvr = u THEN "synced" ELSE "running"
      BY <3>a, <3>b
    <3> QED
      BY <3>1, <3>3 DEF Uses
  <2> QED
    BY <2>1, <2>2
<1>4. ASSUME NEW j \in Keys PROVE InOrder(j)'
  BY <1>2, <1>3, <1>4 DEF Windows, InOrder, Uses
<1>5. ASSUME NEW j \in Keys
      PROVE  /\ \A q \in Backed(j)' : q \in Backed(j) \/ q.gvr = u
             /\ Kept(j)' = Kept(j)
  BY <1>1, <1>3, <1>5 DEF Backed, Unbacked, Kept
<1>6. ASSUME NEW v \in Gvrs PROVE (PendingOn(v)' <=> PendingOn(v)) /\ (DueOn(v)' <=> DueOn(v))
  <2>1. \A j \in Keys : /\ Uses(w[j].req, v)' <=> Uses(w[j].req, v)
                        /\ (w[j].inf = "dead")' <=> w[j].inf = "dead"
                        /\ (w[j].pc = "rollback")' <=> w[j].pc = "rollback"
    BY <1>3 DEF Uses
  <2>2. Decided(v)' <=> Decided(v)
    BY <1>1, <1>3 DEF Decided
  <2> QED
    BY <2>1, <2>2 DEF PendingOn, DueOn
<1>7. ASSUME NEW v \in Gvrs \ raced', NEW j \in Keys, Uses(Backed(j)', v)
      PROVE  v \in m'.synced /\ ~PendingOn(v)'
  <2>1. ~PendingOn(v) /\ v \notin raced
    BY <1>0, <1>7, BackedIsFree, RecordGives
  <2>2. v \in m.synced \/ v = u
    BY <1>5, <1>7, <2>1 DEF Windows, SoundOn, Uses
  <2> QED
    BY <1>2, <1>6, <2>1, <2>2
<1>8. ASSUME NEW v \in Gvrs \ raced', "coordinator" \in m'.owners[v]
      PROVE  DueOn(v)' \/ \E j \in Keys : Uses(Kept(j)', v)
  <2>1. DueOn(v) \/ \E j \in Keys : Uses(Kept(j), v)
    BY <1>0, <1>2, <1>8, RecordGives DEF Windows, SoundOn
  <2> QED
    BY <1>5, <1>6, <2>1
<1> QED
  BY <1>4, <1>7, <1>8 DEF SoundOn, Uses

\* A release of u, by stopWatches or after a failed wait: nobody counts on u.
LEMMA WindowsRelease ==
    ASSUME Windows, Record, NEW u \in Gvrs, PendingOn(u),
           m' = ReleaseWatch(m, u, "coordinator"),
           UNCHANGED <<current, previous>>,
           \A v \in Gvrs \ {u} : Decided(v)' <=> Decided(v),
           NEW ws \in [Keys -> Worker], w' = Observed(ws, m'),
           \A j \in Keys :
              /\ ws[j].req = w[j].req
              /\ \/ ws[j].pc = w[j].pc /\ ws[j].inf = w[j].inf
                 \/ /\ w[j].pc = "wait" /\ w[j].inf = "dead"
                    /\ ws[j].pc = "rollback" /\ ws[j].inf = "none"
                    /\ \A r \in w[j].req : r.gvr = u
    PROVE  (\A j \in Keys : InOrder(j)') /\ (\A v \in Gvrs \ raced' : SoundOn(v)')
<1>0. w \in [Keys -> Worker] /\ m \in Manager /\ "coordinator" \in OwnerIDs
  BY CoordinatorAssumption DEF Windows, Base, TypeOK
<1>1. /\ "coordinator" \notin m'.owners[u]
      /\ \A v \in Gvrs \ {u} : /\ m'.owners[v] = m.owners[v]
                               /\ v \in m'.watches <=> v \in m.watches
                               /\ v \in m'.synced <=> v \in m.synced
  BY <1>0, ReleaseEffect
<1>a. m' \in Manager /\ ManagerOK(m')
  BY <1>0, ReleaseWatchOK DEF Windows, Base, InformersRetained
<1>b. u \in m'.synced => u \in m.synced
  BY <1>0 DEF ReleaseWatch, stopWatchLocked, Manager
<1>2. ASSUME NEW j \in Keys
      PROVE  /\ w'[j].pc = ws[j].pc /\ w'[j].req = w[j].req
             /\ \/ /\ w'[j].inf = ws[j].inf
                   /\ w'[j].inf = "running" => \A r \in w[j].req : r.gvr \in m'.watches \ m'.synced
                \/ /\ ws[j].inf = "running" /\ w'[j].inf = "dead"
                   /\ \A r \in w[j].req : r.gvr = u
  <2>1. /\ w'[j].pc = ws[j].pc /\ w'[j].req = ws[j].req
        /\ ws[j].inf # "running" => w'[j].inf = ws[j].inf
    BY ObservedIs
  <2>2. ASSUME ws[j].inf = "running"
        PROVE  \/ /\ w'[j].inf = "running"
                  /\ \A r \in w[j].req : r.gvr \in m'.watches \ m'.synced
               \/ w'[j].inf = "dead" /\ \A r \in w[j].req : r.gvr = u
    <3>1. PICK r \in WatchRequest : w[j].req = {r} /\ r.gvr \in m.watches \ m.synced
      BY <2>2 DEF Windows, InOrder
    <3>2. GvrsOf(ws[j].req) = {r.gvr} /\ r.gvr \in Gvrs
      BY <3>1, GvrsOfOne DEF WatchRequest
    <3>3. w'[j].inf = IF ~(GvrsOf(ws[j].req) \subseteq m'.watches) THEN "dead"
                      ELSE IF GvrsOf(ws[j].req) \subseteq m'.synced THEN "synced" ELSE "running"
      BY <2>2, ObservedIs
    <3>4. r.gvr \notin m'.synced
      BY <1>1, <1>b, <3>1, <3>2
    <3>5. r.gvr \notin m'.watches => r.gvr = u
      BY <1>1, <3>1, <3>2
    <3>6. w'[j].inf = IF r.gvr \notin m'.watches THEN "dead" ELSE "running"
      BY <3>2, <3>3, <3>4
    <3> QED
      BY <3>1, <3>4, <3>5, <3>6
  <2> QED
    BY <2>1, <2>2
<1>3. ASSUME NEW j \in Keys PROVE InOrder(j)'
  BY <1>2, <1>3 DEF Windows, InOrder
<1>4. ASSUME NEW j \in Keys
      PROVE  /\ Backed(j)' = Backed(j)
             /\ \A r \in Kept(j) : r.gvr = u \/ r \in Kept(j)'
  BY <1>2, <1>4 DEF Windows, InOrder, Backed, Unbacked, Kept
<1>5. ASSUME NEW v \in Gvrs \ {u}
      PROVE  (PendingOn(v)' <=> PendingOn(v)) /\ (DueOn(v) <=> DueOn(v)')
  <2>1. \A j \in Keys : Uses(w[j].req, v)' <=> Uses(w[j].req, v)
    BY <1>2 DEF Uses
  <2>2. \A j \in Keys : Uses(w[j].req, v) => /\ w'[j].pc = w[j].pc
                                             /\ w'[j].inf = w[j].inf
    BY <1>2, <1>5 DEF Uses
  <2> QED
    BY <1>5, <2>1, <2>2 DEF PendingOn, DueOn
<1>6. ASSUME NEW v \in Gvrs \ raced', NEW j \in Keys, Uses(Backed(j)', v)
      PROVE  v \in m'.synced /\ ~PendingOn(v)'
  <2>1. ~PendingOn(v) /\ v \notin raced
    BY <1>6, BackedIsFree, RecordGives
  <2>2. v # u /\ v \in m.synced
    BY <1>4, <1>6, <2>1 DEF Windows, SoundOn, Uses
  <2> QED
    BY <1>1, <1>5, <1>6, <2>1, <2>2
<1>7. ASSUME NEW v \in Gvrs \ raced', "coordinator" \in m'.owners[v]
      PROVE  DueOn(v)' \/ \E j \in Keys : Uses(Kept(j)', v)
  <2>1. v # u /\ v \notin raced
    BY <1>1, <1>7, RecordGives
  <2>2. DueOn(v) \/ \E j \in Keys : Uses(Kept(j), v)
    BY <1>1, <1>7, <2>1 DEF Windows, SoundOn
  <2>3. ASSUME NEW j \in Keys, Uses(Kept(j), v) PROVE Uses(Kept(j)', v)
    BY <1>4, <2>1, <2>3 DEF Uses
  <2> QED
    BY <1>5, <1>7, <2>1, <2>2, <2>3
<1> QED
  BY <1>3, <1>6, <1>7 DEF SoundOn, Uses

LEMMA WindowsStops ==
    ASSUME Windows, NEW k \in Keys, stopWatches(k) \/ WaitTimesOut(k)
    PROVE  (\A j \in Keys : InOrder(j)') /\ (\A v \in Gvrs \ raced' : SoundOn(v)')
<1>0. w \in [Keys -> Worker]
  BY DEF Windows, Base, TypeOK
<1>1. CASE stopWatches(k)
  <2>1. PICK u \in w[k].orphaned :
          /\ m' = ReleaseWatch(m, u, "coordinator")
          /\ w' = Observed([w EXCEPT ![k].orphaned = @ \ {u}], m')
          /\ UNCHANGED <<owners, current, previous, index, dropping>> /\ Record
    BY <1>1 DEF stopWatches
  <2> DEFINE ws == [w EXCEPT ![k].orphaned = @ \ {u}]
  <2>2. u \in Gvrs /\ w[k].orphaned \subseteq Gvrs
    BY <1>0, <2>1 DEF Worker
  <2>a. [w[k] EXCEPT !.orphaned = @ \ {u}] \in Worker
    BY <1>0, <2>2 DEF Worker
  <2>3. ws \in [Keys -> Worker]
    BY <1>0, <2>a
  <2>4. /\ \A j \in Keys \ {k} : ws[j] = w[j]
        /\ ws[k].pc = w[k].pc /\ ws[k].req = w[k].req /\ ws[k].inf = w[k].inf
        /\ ws[k].orphaned = w[k].orphaned \ {u}
    BY <1>0 DEF Worker
  <2>b. w' = Observed(ws, m')
    BY <2>1
  <2> HIDE DEF ws
  <2>5. \A j \in Keys : w'[j].orphaned = ws[j].orphaned
    BY <2>3, <2>b, ObservedIs
  <2>6. \A v \in Gvrs \ {u} : Decided(v)' <=> Decided(v)
    BY <2>1, <2>4, <2>5 DEF Decided
  <2>7. PendingOn(u)
    BY <2>1 DEF PendingOn, Decided
  <2>8. \A j \in Keys : ws[j].req = w[j].req /\ ws[j].pc = w[j].pc /\ ws[j].inf = w[j].inf
    BY <2>4
  <2> QED
    BY <2>1, <2>2, <2>3, <2>b, <2>6, <2>7, <2>8, WindowsRelease
<1>2. CASE WaitTimesOut(k)
  <2> DEFINE ws == [w EXCEPT ![k].pc = "rollback", ![k].inf = "none"]
  <2>0. /\ w[k].pc = "wait" /\ w[k].inf = "dead" /\ Record
        /\ UNCHANGED <<owners, current, previous, index, dropping>>
        /\ w' = Observed(ws, m')
    BY <1>2 DEF WaitTimesOut
  <2>1. PICK r \in WatchRequest : w[k].req = {r}
    BY <2>0 DEF Windows, InOrder
  <2>2. r.gvr \in Gvrs /\ m' = ReleaseWatch(m, r.gvr, "coordinator")
    BY <1>2, <2>1 DEF WaitTimesOut, WatchRequest
  <2>a. [w[k] EXCEPT !.pc = "rollback", !.inf = "none"] \in Worker
    BY <1>0 DEF Worker
  <2>3. ws \in [Keys -> Worker]
    BY <1>0, <2>a
  <2>4. /\ \A j \in Keys \ {k} : ws[j] = w[j]
        /\ ws[k].pc = "rollback" /\ ws[k].req = w[k].req /\ ws[k].inf = "none"
        /\ ws[k].orphaned = w[k].orphaned
    BY <1>0 DEF Worker
  <2> HIDE DEF ws
  <2>5. \A j \in Keys : w'[j].orphaned = w[j].orphaned
    BY <2>0, <2>3, <2>4, ObservedIs
  <2>6. \A v \in Gvrs \ {r.gvr} : Decided(v)' <=> Decided(v)
    BY <2>0, <2>5 DEF Decided
  <2>7. PendingOn(r.gvr)
    BY <2>0, <2>1 DEF PendingOn, Uses
  <2>8. \A j \in Keys :
           /\ ws[j].req = w[j].req
           /\ \/ ws[j].pc = w[j].pc /\ ws[j].inf = w[j].inf
              \/ /\ w[j].pc = "wait" /\ w[j].inf = "dead"
                 /\ ws[j].pc = "rollback" /\ ws[j].inf = "none"
                 /\ \A q \in w[j].req : q.gvr = r.gvr
    BY <2>0, <2>1, <2>4
  <2> QED
    BY <2>0, <2>2, <2>3, <2>6, <2>7, <2>8, WindowsRelease
<1> QED
  BY <1>1, <1>2

LEMMA WindowsDrop ==
    ASSUME Windows, DropRelease
    PROVE  (\A j \in Keys : InOrder(j)') /\ (\A v \in Gvrs \ raced' : SoundOn(v)')
<1>0. w \in [Keys -> Worker] /\ dropping \subseteq Gvrs
  BY DEF Windows, Base, TypeOK
<1>1. PICK u \in dropping :
        /\ m' = ReleaseWatch(m, u, "coordinator")
        /\ dropping' = dropping \ {u} /\ w' = Observed(w, m')
        /\ UNCHANGED <<owners, current, previous, index>> /\ Record
  BY DEF DropRelease
<1>2. \A j \in Keys : w'[j].orphaned = w[j].orphaned
  BY <1>0, <1>1, ObservedIs
<1>3. u \in Gvrs /\ PendingOn(u) /\ \A v \in Gvrs \ {u} : Decided(v)' <=> Decided(v)
  BY <1>0, <1>1, <1>2 DEF PendingOn, Decided
<1> QED
  BY <1>0, <1>1, <1>3, WindowsRelease

LEMMA WindowsInit == Init => Windows
<1> SUFFICES ASSUME Init PROVE Windows
  OBVIOUS
<1>1. Base /\ IndexExact
  BY BaseInit, IndexInit
<1>2. /\ m = NewManager /\ dropping = {}
      /\ \A k \in Keys : /\ current[k] = {} /\ previous[k] = {}
                         /\ w[k].pc = "idle" /\ w[k].req = {} /\ w[k].inf = "none"
                         /\ w[k].orphaned = {}
  BY DEF Init, Idle
<1>3. \A v \in Gvrs : "coordinator" \notin m.owners[v]
  BY <1>2 DEF NewManager
<1>4. \A k \in Keys : InOrder(k) /\ Backed(k) = {}
  BY <1>2 DEF InOrder, Backed
<1>5. \A v \in Gvrs : SoundOn(v)
  BY <1>3, <1>4 DEF SoundOn, Uses
<1> QED
  BY <1>1, <1>4, <1>5 DEF Windows

LEMMA WindowsStep == Windows /\ [Next]_vars => Windows'
<1> SUFFICES ASSUME Windows, [Next]_vars PROVE Windows'
  OBVIOUS
<1>0. Base' /\ IndexExact' /\ TypeOK'
  BY BaseStep, IndexStep DEF Windows, Base
<1> DEFINE Goal == (\A j \in Keys : InOrder(j)') /\ (\A v \in Gvrs \ raced' : SoundOn(v)')
<1>a. Goal => Windows'
  BY <1>0 DEF Windows
<1>1. ASSUME NEW k \in Keys, KeyNext(k) PROVE Goal
  <2>1. ASSUME NEW req \in WatchRequest, addWatch(k, req) PROVE Goal
    <3>1. IndexExact' /\ TypeOK'
      BY <1>0
    <3> QED
      BY <2>1, <3>1, WindowsAdd
  <2>2. CASE Start(k) \/ WaitSucceeds(k) \/ Rollback(k)
    BY <2>2, WindowsStart
  <2>3. CASE stopWatches(k) \/ WaitTimesOut(k)
    BY <2>3, WindowsStops
  <2>4. CASE Ensure(k)
    BY <2>4, WindowsEnsure
  <2>5. CASE WaitExpires(k)
    BY <2>5, WindowsExpires
  <2>6. CASE done(k) \/ abort(k)
    BY <1>0, <2>6, WindowsDone
  <2>7. CASE Remove(k)
    BY <1>0, <2>7, WindowsRemove
  <2> QED
    BY <1>1, <2>1, <2>2, <2>3, <2>4, <2>5, <2>6, <2>7 DEF KeyNext
<1>2. ASSUME NEW p \in Parents, RemoveWhere(p) PROVE Goal
  <2>1. IndexExact' /\ TypeOK'
    BY <1>0
  <2> QED
    BY <1>2, <2>1, WindowsRemoveWhere
<1>3. CASE DropRelease
  BY <1>a, <1>3, WindowsDrop
<1>4. ASSUME NEW v \in Gvrs, InformerSyncs(v) PROVE Goal
  BY <1>4, WindowsSyncs
<1>5. CASE UNCHANGED vars
  <2>1. UNCHANGED <<m, current, previous, w, dropping, raced>>
    BY <1>5 DEF vars
  <2>2. \A j \in Keys : InOrder(j)'
    BY <2>1 DEF Windows, InOrder
  <2>3. ASSUME NEW v \in Gvrs \ raced' PROVE SoundOn(v)'
    <3>1. SoundOn(v)
      BY <2>1 DEF Windows
    <3>2. \A j \in Keys : Backed(j)' = Backed(j) /\ Kept(j)' = Kept(j)
      BY <2>1 DEF Backed, Unbacked, Kept
    <3>3. (PendingOn(v)' <=> PendingOn(v)) /\ (DueOn(v)' <=> DueOn(v))
      BY <2>1 DEF PendingOn, DueOn, Decided, Uses
    <3> QED
      BY <2>1, <3>1, <3>2, <3>3 DEF SoundOn, Uses
  <2> QED
    BY <1>a, <2>2, <2>3
<1> HIDE DEF Goal
<1> QED
  BY <1>a, <1>1, <1>2, <1>3, <1>4, <1>5 DEF Next

\* For every number of keys, workers and GVRs, and every interleaving of
\* reconciles, timeouts and RemoveWhere: an informer that is kept for nobody is
\* one on which a release met a new watch (addWatch, done, abort, Remove,
\* RemoveWhere, stopWatches; Record names the two windows).
THEOREM NoInformerLeaks == Spec => []NothingLeaks
<1>1. Windows => NothingLeaks
  <2> SUFFICES ASSUME Windows, Quiet, NEW v \in Gvrs \ raced, "coordinator" \in m.owners[v]
               PROVE  v \in Indexed(index)
    BY DEF NothingLeaks
  <2>0. /\ current \in [Keys -> SUBSET WatchRequest]
        /\ previous \in [Keys -> SUBSET WatchRequest]
    BY DEF Windows, Base, TypeOK
  <2>1. ~DueOn(v)
    BY DEF Quiet, DueOn, Decided, Windows, InOrder
  <2>2. PICK k \in Keys : Uses(Kept(k), v)
    BY <2>1 DEF Windows, SoundOn
  <2>3. PICK r \in Kept(k) : r.gvr = v
    BY <2>2 DEF Uses
  <2>4. <<k, r>> \in index /\ <<k, r>>[2].gvr = v
    BY <2>0, <2>3 DEF Windows, IndexExact, Kept
  <2> QED
    BY <2>4 DEF Indexed
<1> QED
  BY <1>1, WindowsInit, WindowsStep, PTL DEF Spec

\* In every state of every interleaving a committed watch has a running informer,
\* unless it was made between the decision to release its GVR and the release
\* (done and abort at coordinator.go:402 and :435, EnsureWatch at manager.go:153).
THEOREM CommittedWatchesStay == Spec => []CommittedStaysActive
<1>1. Windows => CommittedStaysActive
  <2> SUFFICES ASSUME Windows, NEW k \in Keys, NEW r \in previous[k], r.gvr \notin raced
               PROVE  r.gvr \in m.watches
    BY DEF CommittedStaysActive, GvrsOf
  <2>1. r \in Backed(k) /\ r.gvr \in Gvrs
    BY DEF Backed, Unbacked, Windows, Base, TypeOK, WatchRequest
  <2>2. r.gvr \in m.synced
    BY <2>1 DEF Windows, SoundOn, Uses
  <2> QED
    BY <2>2 DEF Windows, Base, InformersRetained, ManagerOK
<1> QED
  BY <1>1, WindowsInit, WindowsStep, PTL DEF Spec

=============================================================================
