--------------------------- MODULE GraphRevisions ---------------------------
(***************************************************************************)
(* How a change of a ResourceGraphDefinition becomes the graph that its    *)
(* instances are reconciled with (KREP-013).  One RGD name, and:           *)
(*                                                                         *)
(*   - the RGD reconciler, which issues GraphRevision objects, serves the  *)
(*     latest one and collects old ones;                                   *)
(*   - the GraphRevision reconciler, which compiles each object and        *)
(*     publishes the result in the in-memory registry;                     *)
(*   - the API server, users, the Kubernetes garbage collector, restarts,  *)
(*     failing calls and replies that are lost.                            *)
(*                                                                         *)
(* A work queue never hands one key to two workers: the RGD reconciler is  *)
(* one process, the GraphRevision reconciler one process per revision.     *)
(* Each step of a process ends at a call that other processes can see.     *)
(***************************************************************************)
EXTENDS RevisionRegistry, FiniteSets

CONSTANTS
    Hash,               \* graphhash.Spec: equal for specs that differ in form only
    BadSpecs,           \* specs that never compile
    MaxGraphRevisions,  \* --rgd-max-graph-revisions, 0 disables the collection
    AllowCRDDeletion,   \* --allow-crd-deletion
    GRWorkers,          \* --graph-revision-concurrent-reconciles
    UserDeletes,        \* what users delete: among "rgd", "gr", "crd"
    LostReplies,        \* whether a patch may be applied and its reply lost
    MaxUid,             \* bound: incarnations of the RGD
    MaxEdits,           \* bound: edits of the RGD's spec
    MaxFaults           \* bound: restarts, failed calls, lost replies, deletions by hand

ASSUME GraphRevisionsAssumption ==
    /\ BadSpecs \subseteq Specs
    /\ Hash \in [Specs -> Specs]
    /\ MaxGraphRevisions \in Nat
    /\ AllowCRDDeletion \in BOOLEAN
    /\ GRWorkers \in Nat \ {0}
    /\ UserDeletes \subseteq {"rgd", "gr", "crd"}
    /\ LostReplies \in BOOLEAN
    /\ MaxUid \in Nat \ {0}
    /\ MaxEdits \in Nat
    /\ MaxFaults \in Nat

VARIABLES
    rgd,        \* the RGD in the API server
    gr,         \* the GraphRevisions in the API server, by revision
    crd,        \* the schema of the generated CRD in the API server, or NoSpec
    rgdC,       \* the RGD in the manager's cache
    rq,         \* the RGD's key is in its work queue
    gq,         \* the GraphRevisions' keys are in theirs
    reg,        \* the registry bucket of the RGD's name
    w,          \* the worker of the RGD reconciler
    g,          \* the worker of each GraphRevision's key
    handler,    \* the graph of the registered micro-controller, or NoSpec
    registered, \* registeredControllers: the UIDs ever registered
    issued,     \* history: the numbers issued by each incarnation
    born,       \* the incarnations so far: the last UID given out
    edits,      \* the edits so far
    faults      \* the faults so far

api == <<rgd, gr, crd>>
mem == <<reg, handler, registered>>
history == <<issued, born, edits, faults>>
vars == <<rgd, gr, crd, rgdC, rq, gq, reg, w, g, handler, registered,
          issued, born, edits, faults>>

-----------------------------------------------------------------------------
(* Objects.                                                                *)

Uids == 1..MaxUid
Tri == {"True", "False", "Unknown"}

\* The conditions that report what is served: KindReady and ControllerReady.
\* The two that report the decisions are left out.
Conds == [kind : Tri, ctrl : Tri]
NewConds == [kind |-> "Unknown", ctrl |-> "Unknown"]

\* uid = 0: there is no RGD.  orphan: the deletion's orphan finalizer.
RGD == [uid : 0..MaxUid, spec : Specs \cup {NoSpec}, deleting : BOOLEAN,
        orphan : BOOLEAN, fin : BOOLEAN, last : 0..MaxRev, cond : Conds]
NoRGD == [uid |-> 0, spec |-> NoSpec, deleting |-> FALSE, orphan |-> FALSE,
          fin |-> FALSE, last |-> 0, cond |-> NewConds]
NewRGD(u, s) == [NoRGD EXCEPT !.uid = u, !.spec = s]

\* owner = 0: no ownerReference.  verified: the GraphVerified condition.
GR == [st : {"none", "live", "terminating"}, spec : Specs \cup {NoSpec},
       owner : 0..MaxUid, fin : BOOLEAN, verified : Tri]
NoGR == [st |-> "none", spec |-> NoSpec, owner |-> 0, fin |-> FALSE,
         verified |-> "Unknown"]
NewGR(s, u) == [st |-> "live", spec |-> s, owner |-> u, fin |-> FALSE,
                verified |-> "Unknown"]

\* A deletion request on a GraphRevision: the finalizer keeps the object.
Deleted(o) == IF o.fin THEN [o EXCEPT !.st = "terminating"] ELSE NoGR

\* An object whose last finalizer is gone is gone.
Finalized(o) == IF o.deleting /\ ~o.fin /\ ~o.orphan THEN NoRGD ELSE o

Max2(a, b) == IF a >= b THEN a ELSE b

Live == {r \in Revs : gr[r].st = "live"}
HasTerminating == \E r \in Revs : gr[r].st = "terminating"

-----------------------------------------------------------------------------
(* Workers.                                                                *)

RgdPc == {"idle", "manage", "list", "resolve", "create", "serve", "gc",
          "status", "cleanup", "unmanage"}

\* o: the copy being reconciled; live, term: the listing; graph: the compiled
\* graph to serve; retry: an error or a RequeueAfter.
RgdWorker == [pc : RgdPc, o : RGD, live : SUBSET Revs, term : BOOLEAN,
              graph : Specs \cup {NoSpec}, retry : BOOLEAN]
IdleRgd == [pc |-> "idle", o |-> NoRGD, live |-> {}, term |-> FALSE,
            graph |-> NoSpec, retry |-> FALSE]

GrPc == {"idle", "manage", "pend", "compile", "status", "publish",
         "unmanage", "evict"}

\* fin, spec: of the copy being reconciled; ok: it compiled.
GrWorker == [pc : GrPc, fin : BOOLEAN, spec : Specs \cup {NoSpec}, ok : BOOLEAN]
IdleGr == [pc |-> "idle", fin |-> FALSE, spec |-> NoSpec, ok |-> FALSE]

TypeOK ==
    /\ rgd \in RGD
    /\ gr \in [Revs -> GR]
    /\ crd \in Specs \cup {NoSpec}
    /\ rgdC \in RGD
    /\ rq \in BOOLEAN
    /\ gq \in [Revs -> BOOLEAN]
    /\ reg \in Bucket
    /\ w \in RgdWorker
    /\ g \in [Revs -> GrWorker]
    /\ handler \in Specs \cup {NoSpec}
    /\ registered \subseteq Uids
    /\ issued \in [Uids -> SUBSET Revs]
    /\ born \in 0..MaxUid
    /\ edits \in 0..MaxEdits
    /\ faults \in 0..MaxFaults

Init ==
    /\ rgd = NoRGD
    /\ gr = [r \in Revs |-> NoGR]
    /\ crd = NoSpec
    /\ rgdC = NoRGD
    /\ rq = FALSE
    /\ gq = [r \in Revs |-> FALSE]
    /\ reg = EmptyBucket
    /\ w = IdleRgd
    /\ g = [r \in Revs |-> IdleGr]
    /\ handler = NoSpec
    /\ registered = {}
    /\ issued = [u \in Uids |-> {}]
    /\ born = 0
    /\ edits = 0
    /\ faults = 0

\* A step that needs the environment to misbehave.
Fault == faults < MaxFaults /\ faults' = faults + 1
NoFault == UNCHANGED faults

-----------------------------------------------------------------------------
(* The RGD reconciler.                                                     *)

\* A bug: errors are not retried.
RgdEndForgets(retry) == /\ w' = IdleRgd
                        /\ rq' = rq

\* The reconcile ends: an error or a RequeueAfter puts the key back.
RgdEnd(retry) == /\ w' = IdleRgd
                 /\ rq' = (rq \/ retry)

\* reconcile.AsReconciler reads the RGD from the cache; a missing one is done.
RgdStart ==
    /\ rq /\ w.pc = "idle"
    /\ rq' = FALSE
    /\ w' = IF rgdC.uid = 0 THEN IdleRgd
            ELSE [IdleRgd EXCEPT !.o = rgdC,
                                 !.pc = IF rgdC.deleting THEN "cleanup" ELSE "manage"]
    /\ UNCHANGED <<api, rgdC, gq, mem, g, history>>

\* A merge patch replaces the whole list of finalizers, on whatever object has
\* the name now.  The API server refuses new ones on a terminating object.
CanPatchFinalizers(fin, orphan) ==
    /\ rgd.uid # 0
    /\ rgd.deleting => (fin => rgd.fin) /\ (orphan => rgd.orphan)

PatchFinalizers(fin, orphan) ==
    rgd' = Finalized([rgd EXCEPT !.fin = fin, !.orphan = orphan])

\* setManaged
RgdSetManaged ==
    /\ w.pc = "manage"
    /\ IF w.o.fin
       THEN /\ w' = [w EXCEPT !.pc = "list"]
            /\ NoFault
            /\ UNCHANGED <<rgd, rq>>
       ELSE \/ /\ CanPatchFinalizers(TRUE, w.o.orphan)
               /\ PatchFinalizers(TRUE, w.o.orphan)
               /\ w' = [w EXCEPT !.pc = "list"]
               /\ NoFault
               /\ UNCHANGED rq
            \/ /\ IF CanPatchFinalizers(TRUE, w.o.orphan) THEN Fault ELSE NoFault
               /\ RgdEnd(TRUE)
               /\ UNCHANGED rgd
    /\ UNCHANGED <<gr, crd, rgdC, gq, mem, g, issued, born, edits>>

\* listGraphRevisions reads the API server, not the cache; then
\* adoptGraphRevisions makes the current RGD the owner of every orphan.
RgdList ==
    LET orphans == {r \in Live : gr[r].owner # w.o.uid}
    IN /\ w.pc = "list"
       /\ \/ /\ gr' = [r \in Revs |-> IF r \in orphans
                                      THEN [gr[r] EXCEPT !.owner = w.o.uid] ELSE gr[r]]
             /\ w' = [w EXCEPT !.pc = "resolve", !.live = Live, !.term = HasTerminating]
             /\ NoFault
          \* an update fails after some of them were adopted
          \/ /\ \E adopted \in SUBSET orphans :
                    gr' = [r \in Revs |-> IF r \in adopted
                                          THEN [gr[r] EXCEPT !.owner = w.o.uid] ELSE gr[r]]
             /\ w' = [w EXCEPT !.pc = "status", !.retry = TRUE]
             /\ Fault
       /\ rq' = (rq \/ gr' # gr)
       /\ UNCHANGED <<rgd, crd, rgdC, gq, mem, g, issued, born, edits>>

\* A bug: a revision that the registry does not hold counts as changed.
ResolutionNoWarmup(live, term, e, spec) ==
    IF term THEN "settling"
    ELSE IF live = {} \/ e.state = "Absent" THEN "issue"
    ELSE IF Hash[e.spec] # Hash[spec] THEN "changed"
    ELSE e.state

\* A bug: terminating revisions do not hold the decision back.
ResolutionNoSettling(live, term, e, spec) ==
    IF live = {} THEN "issue"
    ELSE IF e.state = "Absent" THEN "warmup"
    ELSE IF Hash[e.spec] # Hash[spec] THEN "changed"
    ELSE e.state

\* The decision order of resolveGraphRevisions.  e: the entry of the newest
\* listed revision (getLatestGraphRevisionView).
Resolution(live, term, e, spec) ==
    IF term THEN "settling"
    ELSE IF live = {} THEN "issue"
    ELSE IF e.state = "Absent" THEN "warmup"
    ELSE IF Hash[e.spec] # Hash[spec] THEN "changed"
    ELSE e.state

\* An empty lineage clears the bucket; then the registry decides.  A wait asks
\* for a RequeueAfter, a failed revision returns an error: both come back.
RgdResolve ==
    LET latest == Newest(w.live)
        e == IF latest = 0 THEN NoEntry ELSE reg.entries[latest]
        d == Resolution(w.live, w.term, e, w.o.spec)
        known == [w.o EXCEPT !.last = Max2(@, latest)]
        Wait(o) == [w EXCEPT !.o = o, !.retry = TRUE, !.pc = "status"]
    IN /\ w.pc = "resolve"
       /\ reg' = IF w.live = {} /\ ~w.term THEN DeleteAll(reg) ELSE reg
       /\ \/ /\ d \in {"settling", "warmup"}
             /\ w' = Wait(w.o)
          \/ /\ d = "issue"
             /\ w' = [w EXCEPT !.pc = "create"]
          \/ /\ d = "changed"
             /\ w' = [w EXCEPT !.o = known, !.pc = "create"]
          \/ /\ d \in {"Pending", "Failed"}
             /\ w' = Wait(known)
          \/ /\ d = "Active"
             /\ w' = [w EXCEPT !.o = known, !.graph = e.spec, !.pc = "serve"]
       /\ UNCHANGED <<api, rgdC, rq, gq, handler, registered, g, history>>

\* The number that createGraphRevision uses.
NextRevision == Max2(w.o.last, Newest(w.live)) + 1

\* buildResourceGraphDefinition validates the spec, createGraphRevision creates
\* the object.  The name is a function of the number: an existing object of any
\* state refuses it.  MaxRev bounds the numbers.
RgdCreate ==
    LET Invalid == [w EXCEPT !.retry = TRUE, !.pc = "status"]
        rev == NextRevision
        Create == /\ gr' = [gr EXCEPT ![rev] = NewGR(w.o.spec, w.o.uid)]
                  /\ gq' = [gq EXCEPT ![rev] = TRUE]
                  /\ rq' = TRUE
                  /\ issued' = [issued EXCEPT ![w.o.uid] = @ \cup {rev}]
    IN /\ w.pc = "create"
       /\ \/ /\ w.o.spec \in BadSpecs
             /\ w' = Invalid
             /\ NoFault
             /\ UNCHANGED <<gr, gq, rq, issued>>
          \/ /\ w.o.spec \notin BadSpecs
             /\ rev <= MaxRev
             /\ gr[rev].st = "none"
             /\ Create
             /\ w' = [w EXCEPT !.o.last = rev, !.retry = TRUE, !.pc = "status"]
             /\ NoFault
          \/ /\ w.o.spec \notin BadSpecs
             /\ rev <= MaxRev
             /\ gr[rev].st # "none"
             /\ w' = Invalid
             /\ NoFault
             /\ UNCHANGED <<gr, gq, rq, issued>>
          \* the build or the call fails, or its reply is lost
          \/ /\ w.o.spec \notin BadSpecs
             /\ rev <= MaxRev
             /\ \/ UNCHANGED <<gr, gq, rq, issued>>
                \/ LostReplies /\ gr[rev].st = "none" /\ Create
             /\ w' = Invalid
             /\ Fault
       /\ UNCHANGED <<rgd, crd, rgdC, mem, g, born, edits>>

\* ensureServingState: the CRD, then the micro-controller.  The RGD watches its
\* CRD: the creation alone is filtered, and Established follows it.
RgdServe ==
    /\ w.pc = "serve"
    /\ \/ /\ crd' = w.graph
          /\ handler' = w.graph
          /\ registered' = registered \cup {w.o.uid}
          /\ w' = [w EXCEPT !.o.cond.kind = "True", !.o.cond.ctrl = "True", !.pc = "gc"]
          /\ NoFault
       \* crdManager.Ensure fails
       \/ /\ w' = [w EXCEPT !.o.cond.kind = "False", !.retry = TRUE, !.pc = "gc"]
          /\ Fault
          /\ UNCHANGED <<crd, handler, registered>>
       \* crdManager.Get fails: reported, and the micro-controller starts
       \/ /\ crd' = w.graph
          /\ handler' = w.graph
          /\ registered' = registered \cup {w.o.uid}
          /\ w' = [w EXCEPT !.o.cond.kind = "False", !.o.cond.ctrl = "True", !.pc = "gc"]
          /\ Fault
       \* dynamicController.Register fails
       \/ /\ crd' = w.graph
          /\ w' = [w EXCEPT !.o.cond.kind = "True", !.o.cond.ctrl = "False",
                            !.retry = TRUE, !.pc = "gc"]
          /\ Fault
          /\ UNCHANGED <<handler, registered>>
    /\ rq' = (rq \/ crd' # crd)
    /\ UNCHANGED <<rgd, gr, rgdC, gq, reg, g, issued, born, edits>>

\* A bug: one revision too few is kept.
CollectableOffByOne(live) ==
    IF MaxGraphRevisions = 0 THEN {}
    ELSE {r \in live : Cardinality({x \in live : x >= r}) >= MaxGraphRevisions}

\* The live revisions below graphRevisionRetentionFloor.
Collectable(live) ==
    IF MaxGraphRevisions = 0 THEN {}
    ELSE {r \in live : Cardinality({x \in live : x >= r}) > MaxGraphRevisions}

\* garbageCollectGraphRevisions lists again; an error stops it and is dropped.
RgdGC ==
    /\ w.pc = "gc"
    /\ \E S \in SUBSET Collectable(Live) :
          /\ IF S = Collectable(Live) THEN NoFault ELSE Fault
          /\ gr' = [r \in Revs |-> IF r \in S THEN Deleted(gr[r]) ELSE gr[r]]
          /\ gq' = [r \in Revs |-> gq[r] \/ r \in S]
          /\ rq' = (rq \/ S # {})
    /\ w' = [w EXCEPT !.pc = "status"]
    /\ UNCHANGED <<rgd, crd, rgdC, mem, g, issued, born, edits>>

\* updateStatus: a merge patch against the cached object, so a field is written
\* when it differs from the cache, on whatever object has the name now.
RgdUpdateStatus ==
    /\ w.pc = "status"
    /\ \/ /\ rgdC.uid # 0 /\ rgd.uid # 0
          /\ rgd' = [rgd EXCEPT
                        !.cond = IF w.o.cond = rgdC.cond THEN @ ELSE w.o.cond,
                        !.last = IF w.o.last = rgdC.last THEN @ ELSE w.o.last]
          /\ RgdEnd(w.retry)
          /\ NoFault
       \/ /\ IF rgdC.uid # 0 /\ rgd.uid # 0 THEN Fault ELSE NoFault
          /\ RgdEnd(TRUE)
          /\ UNCHANGED rgd
    /\ UNCHANGED <<gr, crd, rgdC, gq, mem, g, issued, born, edits>>

\* A bug: the micro-controller is left running.
RgdCleanupKeepsController ==
    /\ w.pc = "cleanup"
    /\ crd' = IF AllowCRDDeletion THEN NoSpec ELSE crd
    /\ rq' = (rq \/ crd' # crd)
    /\ w' = [w EXCEPT !.pc = "unmanage"]
    /\ UNCHANGED <<rgd, gr, rgdC, gq, reg, handler, registered, g, history>>

\* cleanupResourceGraphDefinition: the micro-controller stops when this process
\* registered it, then the CRD goes; the registry is left to the finalizers.
RgdCleanup ==
    LET stopped == IF w.o.uid \in registered THEN NoSpec ELSE handler
    IN /\ w.pc = "cleanup"
       /\ \/ /\ handler' = stopped
             /\ crd' = IF AllowCRDDeletion THEN NoSpec ELSE crd
             /\ rq' = (rq \/ crd' # crd)
             /\ w' = [w EXCEPT !.pc = "unmanage"]
             /\ NoFault
          \* the CRD cannot be read, which is taken for its absence
          \/ /\ AllowCRDDeletion
             /\ handler' = stopped
             /\ w' = [w EXCEPT !.pc = "unmanage"]
             /\ Fault
             /\ UNCHANGED <<crd, rq>>
          \* Deregister fails, or the deletion of the CRD after it
          \/ /\ handler' \in {handler, stopped}
             /\ RgdEnd(TRUE)
             /\ Fault
             /\ UNCHANGED crd
       /\ UNCHANGED <<rgd, gr, rgdC, gq, reg, registered, g, issued, born, edits>>

\* setUnmanaged: the last finalizer lets the object go.
RgdSetUnmanaged ==
    /\ w.pc = "unmanage"
    /\ IF ~w.o.fin
       THEN RgdEnd(FALSE) /\ NoFault /\ UNCHANGED rgd
       ELSE \/ /\ CanPatchFinalizers(FALSE, w.o.orphan)
               /\ PatchFinalizers(FALSE, w.o.orphan)
               /\ RgdEnd(FALSE)
               /\ NoFault
            \/ /\ IF CanPatchFinalizers(FALSE, w.o.orphan) THEN Fault ELSE NoFault
               /\ \/ UNCHANGED rgd
                  \/ /\ LostReplies /\ CanPatchFinalizers(FALSE, w.o.orphan)
                     /\ PatchFinalizers(FALSE, w.o.orphan)
               /\ RgdEnd(TRUE)
    /\ UNCHANGED <<gr, crd, rgdC, gq, mem, g, issued, born, edits>>

\* The informer delivers the RGD.  The predicates let a new object, a new
\* generation and the start of a deletion through, and no status change.
RgdSync ==
    /\ rgdC # rgd
    /\ rgdC' = rgd
    /\ rq' = (rq \/ (rgd.uid # 0 /\ \/ rgd.uid # rgdC.uid
                                    \/ rgd.spec # rgdC.spec
                                    \/ rgd.deleting # rgdC.deleting))
    /\ UNCHANGED <<api, gq, mem, w, g, history>>

-----------------------------------------------------------------------------
(* The GraphRevision reconciler, for revision r.                           *)

\* A bug: errors are not retried.
GrEndForgets(r, retry) == /\ g' = [g EXCEPT ![r] = IdleGr]
                          /\ gq' = gq

GrEnd(r, retry) == /\ g' = [g EXCEPT ![r] = IdleGr]
                   /\ gq' = [gq EXCEPT ![r] = @ \/ retry]

GrGoto(r, pc) == g' = [g EXCEPT ![r].pc = pc]

GrStart(r) ==
    /\ gq[r] /\ g[r].pc = "idle"
    /\ Cardinality({x \in Revs : g[x].pc # "idle"}) < GRWorkers
    /\ gq' = [gq EXCEPT ![r] = FALSE]
    /\ g' = [g EXCEPT ![r] =
               IF gr[r].st = "none" THEN IdleGr
               ELSE [IdleGr EXCEPT !.fin = gr[r].fin, !.spec = gr[r].spec,
                                   !.pc = IF gr[r].st = "live" THEN "manage"
                                          ELSE "unmanage"]]
    /\ UNCHANGED <<api, rgdC, rq, mem, w, history>>

\* A bug: the revision is processed without its finalizer.
GrSetManagedSkips(r) ==
    /\ g[r].pc = "manage"
    /\ GrGoto(r, "pend")
    /\ UNCHANGED <<api, rgdC, rq, gq, mem, w, history>>

\* setManaged
GrSetManaged(r) ==
    /\ g[r].pc = "manage"
    /\ \/ /\ g[r].fin \/ gr[r].st = "live"
          /\ gr' = IF g[r].fin THEN gr ELSE [gr EXCEPT ![r].fin = TRUE]
          /\ rq' = (rq \/ ~g[r].fin)
          /\ GrGoto(r, "pend")
          /\ NoFault
          /\ UNCHANGED gq
       \/ /\ ~g[r].fin
          /\ IF gr[r].st = "live" THEN Fault ELSE NoFault
          /\ GrEnd(r, TRUE)
          /\ UNCHANGED <<gr, rq>>
    /\ UNCHANGED <<rgd, crd, rgdC, mem, w, issued, born, edits>>

\* reconcileGraphRevision, up to the compilation: Pending, the first time only.
GrPend(r) ==
    /\ g[r].pc = "pend"
    /\ reg' = IF HasEntry(reg, r) THEN reg
              ELSE Put(reg, r, [state |-> "Pending", spec |-> g[r].spec])
    /\ GrGoto(r, "compile")
    /\ UNCHANGED <<api, rgdC, rq, gq, handler, registered, w, history>>

\* A bug: success is published before the status is written.
GrCompilePublishes(r) ==
    /\ g[r].pc = "compile"
    /\ g[r].spec \notin BadSpecs
    /\ reg' = Put(reg, r, [state |-> "Active", spec |-> g[r].spec])
    /\ g' = [g EXCEPT ![r].ok = TRUE, ![r].pc = "status"]
    /\ UNCHANGED <<api, rgdC, rq, gq, handler, registered, w, history>>

\* The rest of reconcileGraphRevision: a failure is published at once.
GrCompile(r) ==
    /\ g[r].pc = "compile"
    /\ \/ /\ g[r].spec \notin BadSpecs
          /\ g' = [g EXCEPT ![r].ok = TRUE, ![r].pc = "status"]
          /\ NoFault
          /\ UNCHANGED reg
       \/ /\ IF g[r].spec \in BadSpecs THEN NoFault ELSE Fault
          /\ reg' = Put(reg, r, [state |-> "Failed", spec |-> g[r].spec])
          /\ g' = [g EXCEPT ![r].ok = FALSE, ![r].pc = "status"]
    /\ UNCHANGED <<api, rgdC, rq, gq, handler, registered, w, issued, born, edits>>

\* updateStatus: when it fails, nothing is published and the key is retried;
\* so is a failed compilation.
GrUpdateStatus(r) ==
    /\ g[r].pc = "status"
    /\ \/ /\ gr[r].st # "none"
          /\ gr' = [gr EXCEPT ![r].verified = IF g[r].ok THEN "True" ELSE "False"]
          /\ rq' = (rq \/ gr' # gr)
          /\ IF g[r].ok THEN GrGoto(r, "publish") /\ UNCHANGED gq ELSE GrEnd(r, TRUE)
          /\ NoFault
       \/ /\ IF gr[r].st # "none" THEN Fault ELSE NoFault
          /\ GrEnd(r, TRUE)
          /\ UNCHANGED <<gr, rq>>
    /\ UNCHANGED <<rgd, crd, rgdC, mem, w, issued, born, edits>>

\* Active is published after the status is persisted.
GrPublish(r) ==
    /\ g[r].pc = "publish"
    /\ reg' = Put(reg, r, [state |-> "Active", spec |-> g[r].spec])
    /\ GrEnd(r, FALSE)
    /\ UNCHANGED <<api, rgdC, rq, handler, registered, w, history>>

\* setUnmanaged: the finalizer goes, and a terminating object with it.
GrSetUnmanaged(r) ==
    LET Unfinalized == [gr EXCEPT ![r] = IF @.st = "terminating" THEN NoGR
                                         ELSE [@ EXCEPT !.fin = FALSE]]
    IN /\ g[r].pc = "unmanage"
       /\ \/ /\ ~g[r].fin \/ gr[r].st # "none"
             /\ gr' = IF g[r].fin THEN Unfinalized ELSE gr
             /\ rq' = (rq \/ g[r].fin)
             /\ GrGoto(r, "evict")
             /\ NoFault
             /\ UNCHANGED gq
          \/ /\ g[r].fin
             /\ IF gr[r].st # "none" THEN Fault ELSE NoFault
             /\ \/ UNCHANGED <<gr, rq>>
                \/ LostReplies /\ gr[r].st # "none" /\ gr' = Unfinalized /\ rq' = TRUE
             /\ GrEnd(r, TRUE)
       /\ UNCHANGED <<rgd, crd, rgdC, mem, w, issued, born, edits>>

\* The eviction follows the removal of the finalizer.
GrEvict(r) ==
    /\ g[r].pc = "evict"
    /\ reg' = Delete(reg, r)
    /\ GrEnd(r, FALSE)
    /\ UNCHANGED <<api, rgdC, rq, handler, registered, w, history>>

-----------------------------------------------------------------------------
(* Users, the Kubernetes garbage collector, and restarts.                  *)

UserCreates(s) ==
    /\ rgd.uid = 0
    /\ born < MaxUid /\ born' = born + 1
    /\ rgd' = NewRGD(born + 1, s)
    /\ UNCHANGED <<gr, crd, rgdC, rq, gq, mem, w, g, issued, edits, faults>>

UserEdits(s) ==
    /\ rgd.uid # 0 /\ ~rgd.deleting /\ s # rgd.spec
    /\ edits < MaxEdits /\ edits' = edits + 1
    /\ rgd' = [rgd EXCEPT !.spec = s]
    /\ UNCHANGED <<gr, crd, rgdC, rq, gq, mem, w, g, issued, born, faults>>

\* kubectl delete rgd, with --cascade=background or --cascade=orphan.
UserDeletesRGD(orphan) ==
    /\ "rgd" \in UserDeletes /\ rgd.uid # 0 /\ ~rgd.deleting
    /\ rgd' = Finalized([rgd EXCEPT !.deleting = TRUE, !.orphan = orphan])
    /\ UNCHANGED <<gr, crd, rgdC, rq, gq, mem, w, g, history>>

UserDeletesGR(r) ==
    /\ "gr" \in UserDeletes /\ gr[r].st = "live"
    /\ gr' = [gr EXCEPT ![r] = Deleted(@)]
    /\ gq' = [gq EXCEPT ![r] = TRUE]
    /\ rq' = TRUE
    /\ Fault
    /\ UNCHANGED <<rgd, crd, rgdC, mem, w, g, issued, born, edits>>

\* kubectl delete crd
UserDeletesCRD ==
    /\ "crd" \in UserDeletes /\ crd # NoSpec /\ crd' = NoSpec
    /\ rq' = TRUE
    /\ Fault
    /\ UNCHANGED <<rgd, gr, rgdC, gq, mem, w, g, issued, born, edits>>

\* The orphan finalizer: the dependents lose their ownerReference.
KubeOrphans ==
    /\ rgd.deleting /\ rgd.orphan
    /\ gr' = [r \in Revs |-> IF gr[r].owner = rgd.uid
                             THEN [gr[r] EXCEPT !.owner = 0] ELSE gr[r]]
    /\ rgd' = Finalized([rgd EXCEPT !.orphan = FALSE])
    /\ rq' = (rq \/ gr' # gr)
    /\ UNCHANGED <<crd, rgdC, gq, mem, w, g, history>>

\* The background cascade: a dependent whose owner is gone is deleted.
KubeCollects(r) ==
    /\ gr[r].st = "live" /\ gr[r].owner \notin {0, rgd.uid}
    /\ gr' = [gr EXCEPT ![r] = Deleted(@)]
    /\ gq' = [gq EXCEPT ![r] = TRUE]
    /\ rq' = TRUE
    /\ UNCHANGED <<rgd, crd, rgdC, mem, w, g, history>>

\* The process restarts: its memory is gone, the informers list everything.
Restart ==
    /\ Fault
    /\ reg' = EmptyBucket
    /\ handler' = NoSpec
    /\ registered' = {}
    /\ w' = IdleRgd
    /\ g' = [r \in Revs |-> IdleGr]
    /\ rgdC' = rgd
    /\ rq' = (rgd.uid # 0)
    /\ gq' = [r \in Revs |-> gr[r].st # "none"]
    /\ UNCHANGED <<api, issued, born, edits>>

-----------------------------------------------------------------------------
RgdNext == \/ RgdStart \/ RgdSetManaged \/ RgdList \/ RgdResolve \/ RgdCreate
           \/ RgdServe \/ RgdGC \/ RgdUpdateStatus \/ RgdCleanup
           \/ RgdSetUnmanaged

GrNext(r) == \/ GrStart(r) \/ GrSetManaged(r) \/ GrPend(r) \/ GrCompile(r)
             \/ GrUpdateStatus(r) \/ GrPublish(r) \/ GrSetUnmanaged(r) \/ GrEvict(r)

UserNext == \/ \E s \in Specs : UserCreates(s)
            \/ \E s \in Specs : UserEdits(s)
            \/ \E orphan \in BOOLEAN : UserDeletesRGD(orphan)
            \/ \E r \in Revs : UserDeletesGR(r)
            \/ UserDeletesCRD

KubeNext == KubeOrphans \/ \E r \in Revs : KubeCollects(r)

Next == \/ RgdNext
        \/ RgdSync
        \/ \E r \in Revs : GrNext(r)
        \/ UserNext
        \/ KubeNext
        \/ Restart

Spec == Init /\ [][Next]_vars

\* Queues hand out keys, running reconciles go on, informers deliver, and the
\* garbage collector collects; users owe nothing.
FairSpec == /\ Spec
            /\ WF_vars(RgdNext)
            /\ WF_vars(RgdSync)
            /\ \A r \in Revs : SF_vars(GrNext(r))
            /\ WF_vars(KubeNext)

-----------------------------------------------------------------------------
(* Properties.                                                             *)

\* Registry.Latest is O(1) because the bucket carries a pointer: whatever the
\* order of Put, Delete and DeleteAll by the two reconcilers, the pointer is the
\* newest revision that has an entry.
LatestIsNewest == LatestOK(reg)

\* "Publish Active only after status has been persisted": an Active entry whose
\* object exists has GraphVerified=True in the API server, except in the window
\* where the finalizer is removed, the eviction is still to come and the number
\* has already been issued again.
ActiveIsPersisted ==
    \A r \in Revs :
        (/\ ~LostReplies
         /\ reg.entries[r].state = "Active"
         /\ gr[r].st # "none"
         /\ g[r].pc # "evict") => gr[r].verified = "True"

\* The number of a new GraphRevision is never taken, although the high-water
\* mark comes from a cache that may be stale and the listing is one call old:
\* createGraphRevision never meets AlreadyExists.
NumberIsFree ==
    w.pc = "create" /\ NextRevision <= MaxRev => gr[NextRevision].st = "none"

\* "kro deduplicates by spec hash": next to a live revision of the number before
\* it, a new revision has another hash, restarts and stale caches included.
NoDuplicateIssue ==
    [][\A r \in Revs :
          (gr[r].st = "none" /\ gr'[r].st = "live" /\ r > 1 /\ gr[r-1].st = "live")
          => Hash[gr[r-1].spec] # Hash[gr'[r].spec]]_vars

\* Retention never takes the revision that instances resolve, nor the newest
\* live one, and leaves MaxGraphRevisions of them.
RetentionKeepsServed ==
    [][w.pc = "gc" /\ w'.pc = "status" =>
          \A r \in Live : gr'[r].st # "live" =>
              /\ r # reg.latest
              /\ Cardinality({x \in Revs : gr'[x].st = "live"}) >= MaxGraphRevisions]_vars

\* A micro-controller does not outlive its RGD: while one is registered, the RGD
\* is there and holds the finalizer that makes its deletion come back here.
ControllerHasRGD == handler # NoSpec => rgd.uid # 0 /\ rgd.fin

\* The last accepted spec is served: the newest entry is its compiled graph, the
\* CRD has its schema and a micro-controller runs.
Served(s) ==
    /\ Latest(reg).state = "Active"
    /\ Hash[Latest(reg).spec] = Hash[s]
    /\ crd # NoSpec /\ Hash[crd] = Hash[s]
    /\ handler # NoSpec

\* A spec that compiles ends up served, after restarts, failed calls, lost
\* replies and stale caches: no wait of the reconcilers is left without a wake-up.
Converges ==
    <>[](rgd.uid # 0 /\ ~rgd.deleting /\ rgd.spec \notin BadSpecs => Served(rgd.spec))

\* A deleted RGD goes away, and no revision is left terminating.
DeletionCompletes ==
    /\ rgd.deleting ~> ~rgd.deleting
    /\ HasTerminating ~> ~HasTerminating

\* "Revision numbers are monotonic and never reused, even after garbage
\* collection": an incarnation of the RGD issues a number once.
NumberIssuedOnce ==
    [][\A r \in Revs : (gr[r].st = "none" /\ gr'[r].st = "live") => r \notin issued[w.o.uid]]_vars

-----------------------------------------------------------------------------
(* What the invariants above rest on: the parts of the inductive invariant *)
(* that GraphRevisionsProofs proves.                                       *)

\* A running reconcile works on a copy of an RGD that existed.
WorkerHasRGD == w.pc # "idle" => w.o.uid # 0

\* Nothing but the worker itself adds revisions: its listing still covers them.
ListingCovers ==
    /\ w.pc = "resolve" => \A r \in Revs : gr[r].st # "none" => r \in w.live \/ w.term
    /\ w.pc = "create" => \A r \in Revs : gr[r].st # "none" => r \in w.live

\* Only the worker of a revision removes its finalizer: while it works on a live
\* copy that has it, the object stays.
Pinned(r) == \/ g[r].pc \in {"pend", "compile", "status", "publish"}
             \/ g[r].pc \in {"manage", "unmanage"} /\ g[r].fin

\* An entry has an object that holds the finalizer, until its eviction is due;
\* and what the worker knows of the status and of the entry.
RevInv(r) ==
    /\ gr[r].st = "terminating" => gr[r].fin
    /\ Pinned(r) => gr[r].st # "none" /\ gr[r].fin
    /\ ~LostReplies /\ HasEntry(reg, r) /\ g[r].pc # "evict"
       => gr[r].st # "none" /\ gr[r].fin
    /\ g[r].pc = "publish" => gr[r].verified = "True"
    /\ g[r].pc = "status" /\ ~g[r].ok => reg.entries[r].state # "Active"
    /\ ~LostReplies /\ reg.entries[r].state = "Active" /\ gr[r].st # "none"
       /\ g[r].pc # "evict" => gr[r].verified = "True"

Inv == /\ TypeOK
       /\ LatestIsNewest
       /\ WorkerHasRGD
       /\ ListingCovers
       /\ \A r \in Revs : RevInv(r)

=============================================================================
