----------------------- MODULE DynamicControllerProofs -----------------------
(***************************************************************************)
(* The dynamic controller for every set of instances and parents, every    *)
(* number of workers and retries, and every bound on edits and faults.     *)
(***************************************************************************)
EXTENDS DynamicController, FiniteSetTheorems, TLAPS

-----------------------------------------------------------------------------
(* The inductive invariant, by what each part is about.                    *)

\* The types, and what TypeOK leaves to the counts and to the sequences.
Types == TypeOK /\ events \in [Instances -> Seq(Object)]

\* A reconcile holds its key, and only a reconcile past Watch has declarations.
RunsHoldKeys ==
    \A k \in Instances :
        /\ run[k].pc # "idle" => k \in queue.processing
        /\ k \in declared => run[k].pc \in {"read", "end"}

\* What Register and Deregister have set up at each of their steps.
RegistrationInOrder ==
    \A p \in Parents :
        /\ p \in parentWatches => p \in handlers /\ registrar[p] \in {"idle", "detach"}
        /\ registrar[p] \in {"ensure", "attach"} => p \in handlers
        /\ registrar[p] = "attach" => p \in informers
        /\ p \in informers => p \in parentWatches \/ registrar[p] = "attach"
        /\ p \in parentWatches /\ ~queue.shuttingDown => p \in informers
        /\ queue.shuttingDown => registrar[p] = "idle"

\* A running informer has still to deliver every version up to the present one,
\* and enqueueFromInformer tells each of them from the one before.
InOrder(s, o, e) ==
    /\ e = <<>> => s = o
    /\ e # <<>> => e[Len(e)] = o /\ enqueueFromInformer(s, e[1])
    /\ \A i \in 1..Len(e) : i < Len(e) => enqueueFromInformer(e[i], e[i + 1])
DeliveryInOrder ==
    \A k \in Instances : ParentOf[k] \in informers => InOrder(store[k], obj[k], events[k])

\* An instance goes only by its own reconcile, which takes its watch along.
InstancesEndByReconcile ==
    \A k \in Instances :
        /\ obj[k].gen = 0 => obj[k] = Absent
        /\ k \in Indexed \/ run[k].pc \in {"watch", "read"} => obj[k] # Absent
        /\ run[k].pc \in {"watch", "read"} => ~run[k].obj.deleting
        /\ run[k].pc = "end" /\ run[k].obj.deleting => obj[k] = run[k].obj

\* An instance that changed since the running reconcile read it is queued again.
Stale(k, o) == Served(k) /\ events[k] = <<>> /\ store[k] \notin {o, Absent}
RunsSeeEvents ==
    \A k \in Instances :
        run[k].pc \in {"watch", "read", "end"} /\ Stale(k, run[k].obj)
            => k \in queue.dirty \cup queue.timers

\* So is a child that changed since the running reconcile declared and read it.
ChildStale(k, c) == childStore[k] = child[k] /\ c # child[k]
RunsSeeChildren ==
    \A k \in declared :
        run[k].pc = "end" /\ ~queue.shuttingDown /\ ChildStale(k, run[k].child)
            => k \in queue.dirty \cup queue.timers \cup routing

\* k is served, or will be by a registration whose first list, and what followed
\* it, misses k, so that it is not enqueued on that account.
Missed(k) == store[k] = Absent \/ \E i \in 1..Len(events[k]) : events[k][i] = Absent
Awaits(k) == Served(k) \/ (registrar[ParentOf[k]] = "attach" /\ Missed(k))

\* ChildEventsDrive, also for a registration that has yet to enqueue.
ChildrenDrive ==
    \A k \in committed :
        Awaits(k) /\ ChildStale(k, acted[k].child) /\ acted[k].end \in {"converged", "waiting"}
            => Live(queue, k) \/ k \in routing

\* No child event is delivered that did not happen.
ChildrenInOrder == \A k \in Instances : childStore[k] <= child[k]

\* The observer's counts, which are numbers as there are finitely many owners.
OwnersCounted == IsFiniteSet(owners) /\ WatchCountExact

\* The inductive invariant.  ChildrenDrive is apart: it holds if backoffRequeue
\* sets timers, and rests on the rest.
Inv == /\ Types /\ OwnersCounted /\ RetriesReset
       /\ RunsHoldKeys /\ RegistrationInOrder /\ DeliveryInOrder /\ InstancesEndByReconcile
       /\ RunsSeeEvents /\ NothingForgotten
       /\ ChildrenInOrder /\ RunsSeeChildren

-----------------------------------------------------------------------------
(* The work queue's operations.                                            *)

LEMMA QueueFields ==
    ASSUME NEW q \in Queue
    PROVE  /\ q.dirty \subseteq Instances /\ q.processing \subseteq Instances
           /\ q.timers \subseteq Instances /\ q.shuttingDown \in BOOLEAN
           /\ q.requeues \in [Instances -> 0..QueueMaxRetries]
BY DEF Queue

LEMMA AddEffect ==
    ASSUME NEW q \in Queue, NEW K \in SUBSET Instances
    PROVE  /\ Add(q, K) \in Queue
           /\ Add(q, K).dirty = IF q.shuttingDown THEN q.dirty ELSE q.dirty \cup K
           /\ Add(q, K).processing = q.processing /\ Add(q, K).timers = q.timers
           /\ Add(q, K).requeues = q.requeues /\ Add(q, K).shuttingDown = q.shuttingDown
BY DEF Add, Queue

LEMMA AddAfterEffect ==
    ASSUME NEW q \in Queue, NEW k \in Instances
    PROVE  /\ AddAfter(q, k) \in Queue
           /\ AddAfter(q, k).timers = IF q.shuttingDown THEN q.timers ELSE q.timers \cup {k}
           /\ AddAfter(q, k).processing = q.processing /\ AddAfter(q, k).dirty = q.dirty
           /\ AddAfter(q, k).requeues = q.requeues
           /\ AddAfter(q, k).shuttingDown = q.shuttingDown
BY DEF AddAfter, Queue

LEMMA AddRateLimitedEffect ==
    ASSUME NEW q \in Queue, NEW k \in Instances, q.requeues[k] < QueueMaxRetries
    PROVE  LET r == AddRateLimited(q, k)
           IN /\ r \in Queue
              /\ r.timers = IF q.shuttingDown THEN q.timers ELSE q.timers \cup {k}
              /\ r.processing = q.processing /\ r.dirty = q.dirty
              /\ \A j \in Instances \ {k} : r.requeues[j] = q.requeues[j]
              /\ r.shuttingDown = q.shuttingDown
<1> DEFINE x == [q EXCEPT !.requeues[k] = @ + 1]
<1>1. q.requeues \in [Instances -> 0..QueueMaxRetries] /\ QueueMaxRetries \in Nat
  BY DynamicAssumption DEF Queue
<1>2. [q.requeues EXCEPT ![k] = @ + 1] \in [Instances -> 0..QueueMaxRetries]
  BY <1>1
<1>3. x \in Queue
  BY <1>2 DEF Queue
<1>4. /\ x.timers = q.timers /\ x.processing = q.processing /\ x.dirty = q.dirty
      /\ x.shuttingDown = q.shuttingDown
      /\ \A j \in Instances \ {k} : x.requeues[j] = q.requeues[j]
  BY <1>1 DEF Queue
<1> HIDE DEF x
<1>5. AddRateLimited(q, k) = AddAfter(x, k)
  BY DEF AddRateLimited, x
<1> QED
  BY <1>3, <1>4, <1>5, AddAfterEffect

LEMMA ForgetEffect ==
    ASSUME NEW q \in Queue, NEW k \in Instances
    PROVE  LET r == Forget(q, k)
           IN /\ r \in Queue /\ r.requeues[k] = 0
              /\ r.timers = q.timers /\ r.processing = q.processing /\ r.dirty = q.dirty
              /\ \A j \in Instances \ {k} : r.requeues[j] = q.requeues[j]
              /\ r.shuttingDown = q.shuttingDown
<1>1. q.requeues \in [Instances -> 0..QueueMaxRetries] /\ QueueMaxRetries \in Nat
  BY DynamicAssumption DEF Queue
<1>2. [q.requeues EXCEPT ![k] = 0] \in [Instances -> 0..QueueMaxRetries]
  BY <1>1
<1> QED
  BY <1>1, <1>2 DEF Queue, Forget

LEMMA DoneEffect ==
    ASSUME NEW q \in Queue, NEW k \in Instances
    PROVE  /\ Done(q, k) \in Queue
           /\ Done(q, k).processing = q.processing \ {k}
           /\ Done(q, k).dirty = q.dirty /\ Done(q, k).timers = q.timers
           /\ Done(q, k).requeues = q.requeues /\ Done(q, k).shuttingDown = q.shuttingDown
BY DEF Done, Queue

Verdicts == {"nil", "error", "NotFound", "panic", "NoRequeue",
             "RequeueNeeded", "RequeueNeededAfter"}

\* Requeue adds the key or leaves the queue, and resets the count unless it
\* retries or waits; what it counts as "waiting" or "retried" it has added.
Requeued(q, k, verdict, r, said) ==
    /\ r \in Queue /\ said \in Ends \ {"never"}
    /\ r.processing = q.processing /\ r.shuttingDown = q.shuttingDown
    /\ \A j \in Instances \ {k} :
          /\ r.requeues[j] = q.requeues[j]
          /\ j \in r.dirty <=> j \in q.dirty
          /\ j \in r.timers <=> j \in q.timers
    /\ k \in q.dirty => k \in r.dirty
    /\ k \in q.timers => k \in r.timers
    /\ said \in {"converged", "dropped"} => r.requeues[k] = 0
    /\ said = "converged" <=> verdict = "nil"
    /\ said \in {"waiting", "retried"} /\ ~q.shuttingDown => k \in r.dirty \cup r.timers
    /\ verdict \in {"NotFound", "NoRequeue"} => said = "dropped"
    /\ verdict \in {"error", "panic"} => said \in {"retried", "dropped"}
    /\ verdict \in {"RequeueNeeded", "RequeueNeededAfter"} => said = "waiting"

LEMMA RequeueEffect ==
    ASSUME NEW q \in Queue, NEW k \in Instances, NEW verdict \in Verdicts
    PROVE  Requeued(q, k, verdict, Requeue(q, k, verdict)[1], Requeue(q, k, verdict)[2])
<1> DEFINE f == Forget(q, k)
           a == Add(q, {k})
           t == AddAfter(q, k)
           l == AddRateLimited(q, k)
<1>f. /\ f \in Queue /\ f.requeues[k] = 0
      /\ f.timers = q.timers /\ f.processing = q.processing /\ f.dirty = q.dirty
      /\ \A j \in Instances \ {k} : f.requeues[j] = q.requeues[j]
      /\ f.shuttingDown = q.shuttingDown
  BY ForgetEffect
<1>a. /\ a \in Queue /\ a.dirty = IF q.shuttingDown THEN q.dirty ELSE q.dirty \cup {k}
      /\ a.processing = q.processing /\ a.timers = q.timers
      /\ a.requeues = q.requeues /\ a.shuttingDown = q.shuttingDown
  BY AddEffect
<1>t. /\ t \in Queue /\ t.timers = IF q.shuttingDown THEN q.timers ELSE q.timers \cup {k}
      /\ t.processing = q.processing /\ t.dirty = q.dirty
      /\ t.requeues = q.requeues /\ t.shuttingDown = q.shuttingDown
  BY AddAfterEffect
<1>l. ASSUME q.requeues[k] < QueueMaxRetries
      PROVE  /\ l \in Queue
             /\ l.timers = IF q.shuttingDown THEN q.timers ELSE q.timers \cup {k}
             /\ l.processing = q.processing /\ l.dirty = q.dirty
             /\ \A j \in Instances \ {k} : l.requeues[j] = q.requeues[j]
             /\ l.shuttingDown = q.shuttingDown
  BY <1>l, AddRateLimitedEffect
<1>r. /\ Requeue(q, k, "nil") = <<f, "converged">>
      /\ Requeue(q, k, "NoRequeue") = <<f, "dropped">>
      /\ Requeue(q, k, "NotFound") = <<f, "dropped">>
      /\ Requeue(q, k, "RequeueNeeded") = <<a, "waiting">>
      /\ Requeue(q, k, "RequeueNeededAfter") = <<t, "waiting">>
  BY DEF Requeue, Errors
<1>e. ASSUME verdict \in {"error", "panic"}
      PROVE  Requeue(q, k, verdict) = IF q.requeues[k] < QueueMaxRetries
                                      THEN <<l, "retried">> ELSE <<f, "dropped">>
  BY <1>e DEF Requeue, Errors
<1> HIDE DEF f, a, t, l
<1> USE DEF Ends, Requeued
<1>1. CASE verdict = "nil"
  BY <1>1, <1>f, <1>r
<1>2. CASE verdict \in {"NoRequeue", "NotFound"}
  BY <1>2, <1>f, <1>r
<1>3. CASE verdict = "RequeueNeeded"
  BY <1>3, <1>a, <1>r
<1>4. CASE verdict = "RequeueNeededAfter"
  BY <1>4, <1>t, <1>r
<1>5. CASE verdict \in {"error", "panic"} /\ q.requeues[k] < QueueMaxRetries
  BY <1>5, <1>e, <1>l
<1>6. CASE verdict \in {"error", "panic"} /\ ~(q.requeues[k] < QueueMaxRetries)
  BY <1>6, <1>e, <1>f
<1> QED
  BY <1>1, <1>2, <1>3, <1>4, <1>5, <1>6 DEF Verdicts

-----------------------------------------------------------------------------
(* The end of a reconcile, whichever of its four actions it is.            *)

\* What every end of k's reconcile does with the queue, the run and the record
\* of what it read.
EndOf(k) ==
    /\ run[k].pc # "idle" /\ run' = [run EXCEPT ![k] = Idle]
    /\ queue' \in Queue /\ queue'.processing = queue.processing \ {k}
    /\ queue'.shuttingDown = queue.shuttingDown
    /\ \A j \in Instances \ {k} :
          /\ queue'.requeues[j] = queue.requeues[j]
          /\ j \in queue'.dirty <=> j \in queue.dirty
          /\ j \in queue'.timers <=> j \in queue.timers
    /\ k \in queue.dirty \cup queue.timers => k \in queue'.dirty \cup queue'.timers
    /\ acted' = [acted EXCEPT ![k] = acted'[k]]
    /\ acted'[k] \in [obj : Object, child : 0..MaxChild, end : Ends]
    /\ acted'[k].obj = run[k].obj
    /\ acted'[k].end \in {"converged", "dropped"} => queue'.requeues[k] = 0
    /\ acted'[k].end = "converged" => run[k].pc = "end"
    /\ acted'[k].end # "dropped" /\ ~queue.shuttingDown
          => k \in queue'.dirty \cup queue'.timers \/ run[k].pc = "end"
    /\ UNCHANGED <<child, childStore, store, informers, parentWatches, handlers, registrar,
                   routing, writes>>

\* What it does with the watch: a watch that stays committed without the key in
\* the queue is one that this reconcile declared and read.
EndOfWatch(k) ==
    /\ declared' = declared \ {k}
    /\ committed' \subseteq committed \cup ({k} \cap declared)
    /\ k \in committed' /\ ~queue.shuttingDown
          /\ acted'[k].end \in {"converged", "waiting"}
          => \/ k \in queue'.dirty \cup queue'.timers
             \/ k \in declared /\ run[k].pc = "end" /\ acted'[k].child = run[k].child

LEMMA FinishEffect ==
    ASSUME Types, NEW k \in Instances,
           NEW verdict \in Verdicts,
           NEW end \in {"", "waiting"}, Finish(k, verdict, end), UNCHANGED writes,
           run[k].pc # "idle",
           verdict = "nil" => run[k].pc = "end" /\ end = "",
           end = "waiting" => run[k].pc = "end" /\ verdict \in {"NoRequeue", "RequeueNeededAfter"}
    PROVE  /\ EndOf(k)
           /\ Timers /\ (end = "waiting" => verdict = "RequeueNeededAfter") => EndOfWatch(k)
<1> DEFINE after == Requeue(queue, k, verdict)
           r == after[1]
           said == after[2]
           act == [obj |-> run[k].obj, child |-> run[k].child,
                   end |-> IF end = "" THEN said ELSE end]
<1>1. queue \in Queue /\ run[k].obj \in Object /\ run[k].child \in 0..MaxChild
      /\ acted \in [Instances -> [obj : Object, child : 0..MaxChild, end : Ends]]
  BY DEF Types, TypeOK
<1>2. Requeued(queue, k, verdict, r, said)
  BY <1>1, RequeueEffect
<1>3. /\ queue' = Done(r, k)
      /\ run' = [run EXCEPT ![k] = Idle]
      /\ acted' = [acted EXCEPT ![k] = act]
      /\ UNCHANGED <<child, store, informers, childStore, parentWatches, handlers, registrar, routing>>
  BY DEF Finish, registerVars
<1>0. IF verdict \in Commits THEN Commit(k) ELSE Abort(k)
  BY DEF Finish
<1> HIDE DEF r, said, after
<1>4. /\ queue' \in Queue /\ queue'.processing = queue.processing \ {k}
      /\ queue'.dirty = r.dirty /\ queue'.timers = r.timers
      /\ queue'.requeues = r.requeues /\ queue'.shuttingDown = queue.shuttingDown
  <2>1. r \in Queue /\ r.processing = queue.processing /\ r.shuttingDown = queue.shuttingDown
    BY <1>2 DEF Requeued
  <2>2. /\ Done(r, k) \in Queue /\ Done(r, k).processing = r.processing \ {k}
        /\ Done(r, k).dirty = r.dirty /\ Done(r, k).timers = r.timers
        /\ Done(r, k).requeues = r.requeues /\ Done(r, k).shuttingDown = r.shuttingDown
    BY <2>1, DoneEffect
  <2>3. queue' = Done(r, k)
    BY <1>3
  <2> QED
    BY <2>1, <2>2, <2>3
<1>5. act \in [obj : Object, child : 0..MaxChild, end : Ends] /\ acted'[k] = act
  BY <1>1, <1>2, <1>3 DEF Ends, Requeued
<1>6. acted' = [acted EXCEPT ![k] = acted'[k]]
  BY <1>1, <1>3, <1>5
<1>10. /\ act.obj = run[k].obj /\ act.child = run[k].child
       /\ act.end = IF end = "" THEN said ELSE end
  OBVIOUS
<1> HIDE DEF act
<1>7. /\ acted'[k].obj = run[k].obj /\ acted'[k].child = run[k].child
      /\ acted'[k].end = IF end = "" THEN said ELSE end
  BY <1>5, <1>10
<1>8. EndOf(k)
  <2>1. acted'[k].end \in {"converged", "dropped"} => queue'.requeues[k] = 0
    BY <1>2, <1>4, <1>7 DEF Requeued
  <2>2. acted'[k].end = "converged" => run[k].pc = "end"
    BY <1>2, <1>7 DEF Requeued
  <2>3. acted'[k].end # "dropped" /\ ~queue.shuttingDown
          => k \in queue'.dirty \cup queue'.timers \/ run[k].pc = "end"
    BY <1>2, <1>4, <1>7 DEF Ends, Requeued
  <2>4. k \in queue.dirty \cup queue.timers => k \in queue'.dirty \cup queue'.timers
    BY <1>2, <1>4 DEF Requeued
  <2>5. \A j \in Instances \ {k} :
          /\ queue'.requeues[j] = queue.requeues[j]
          /\ j \in queue'.dirty <=> j \in queue.dirty
          /\ j \in queue'.timers <=> j \in queue.timers
    BY <1>2, <1>4 DEF Requeued
  <2>6. acted'[k] \in [obj : Object, child : 0..MaxChild, end : Ends]
    BY <1>5
  <2> QED
    BY <1>3, <1>4, <1>6, <1>7, <2>1, <2>2, <2>3, <2>4, <2>5, <2>6 DEF EndOf
<1>9. ASSUME Timers, end = "waiting" => verdict = "RequeueNeededAfter" PROVE EndOfWatch(k)
  <2>1. declared' = declared \ {k} /\ committed' \subseteq committed \cup ({k} \cap declared)
    BY <1>0 DEF Commit, Abort
  <2>2. k \in committed' => verdict \notin Commits \/ k \in declared
    BY <1>0 DEF Commit, Commits
  <2>3. acted'[k].end \in {"converged", "waiting"} => verdict \in Commits
    BY <1>2, <1>7, <1>9 DEF Commits, Requeued, Verdicts
  <2> QED
    BY <1>2, <1>4, <1>7, <1>9, <2>1, <2>2, <2>3 DEF EndOfWatch, Requeued
<1> QED
  BY <1>8, <1>9

LEMMA EndEffect ==
    ASSUME Types, NEW k \in Instances,
           Converge(k) \/ Unmanage(k) \/ NotReady(k) \/ Fail(k)
    PROVE  EndOf(k) /\ (Timers => EndOfWatch(k))
<1>1. CASE Converge(k)
  <2>1. Finish(k, "nil", "") /\ run[k].pc = "end" /\ UNCHANGED writes
    BY <1>1 DEF Converge
  <2> QED
    BY <2>1, FinishEffect DEF Verdicts
<1>2. CASE Unmanage(k)
  <2>1. queue \in Queue /\ run[k] \in [pc : {"idle", "load", "watch", "read", "end"},
                                       obj : Object, child : 0..MaxChild]
        /\ acted \in [Instances -> [obj : Object, child : 0..MaxChild, end : Ends]]
        /\ MaxChild \in Nat
    BY DynamicAssumption DEF Types, TypeOK
  <2> DEFINE act == [obj |-> run[k].obj, child |-> 0, end |-> "converged"]
             f == Forget(queue, k)
  <2>2. act \in [obj : Object, child : 0..MaxChild, end : Ends]
    BY <2>1 DEF Ends
  <2>3. acted' = [acted EXCEPT ![k] = act] /\ acted'[k] = act
    BY <1>2, <2>1 DEF Unmanage
  <2>4. acted' = [acted EXCEPT ![k] = acted'[k]] /\ acted'[k].end = "converged"
        /\ acted'[k].obj = run[k].obj
    <3>1. act.end = "converged" /\ act.obj = run[k].obj
      OBVIOUS
    <3> QED
      BY <2>3, <3>1
  <2>5. /\ f \in Queue /\ f.requeues[k] = 0
        /\ f.timers = queue.timers /\ f.processing = queue.processing /\ f.dirty = queue.dirty
        /\ \A j \in Instances \ {k} : f.requeues[j] = queue.requeues[j]
        /\ f.shuttingDown = queue.shuttingDown
    BY <2>1, ForgetEffect
  <2>6. queue' = Done(f, k)
    BY <1>2 DEF Unmanage
  <2> HIDE DEF f, act
  <2>7. /\ queue' \in Queue /\ queue'.processing = queue.processing \ {k}
        /\ queue'.dirty = queue.dirty /\ queue'.timers = queue.timers
        /\ queue'.requeues = f.requeues /\ queue'.shuttingDown = queue.shuttingDown
    BY <2>5, <2>6, DoneEffect
  <2>8. EndOf(k)
    BY <1>2, <2>2, <2>3, <2>4, <2>5, <2>7 DEF EndOf, Unmanage, registerVars
  <2>9. EndOfWatch(k)
    BY <1>2 DEF Unmanage, EndOfWatch
  <2> QED
    BY <2>8, <2>9
<1>3. CASE NotReady(k)
  <2>1. run[k].pc = "end" /\ UNCHANGED writes
        /\ Finish(k, IF Timers THEN "RequeueNeededAfter" ELSE "NoRequeue", "waiting")
    BY <1>3 DEF NotReady
  <2>2. CASE Timers
    BY <2>1, <2>2, FinishEffect DEF Verdicts
  <2>3. CASE ~Timers
    BY <2>1, <2>3, FinishEffect DEF Verdicts
  <2> QED
    BY <2>2, <2>3
<1>4. CASE Fail(k)
  <2>1. run[k].pc # "idle" /\ UNCHANGED writes
    BY <1>4 DEF Fail
  <2>2. PICK verdict \in {"error", "NotFound", "panic", "NoRequeue", "RequeueNeeded"} :
            Finish(k, verdict, "")
    BY <1>4 DEF Fail
  <2> QED
    BY <2>1, <2>2, FinishEffect DEF Verdicts
<1> QED
  BY <1>1, <1>2, <1>3, <1>4

-----------------------------------------------------------------------------
(* The observer's counts.                                                  *)

LEMMA DecrementedCount ==
    ASSUME owners \subseteq Instances, OwnersCounted, NEW K \in SUBSET owners
    PROVE  /\ IsFiniteSet(owners \ K) /\ Decremented(K) \in [Parents -> Nat]
           /\ \A p \in Parents : Decremented(K)[p] = Cardinality((owners \ K) \cap Of(p))
<1>1. IsFiniteSet(owners \ K)
  BY FS_Difference DEF OwnersCounted
<1>2. ASSUME NEW p \in Parents
      PROVE  /\ Decremented(K)[p] = Cardinality((owners \ K) \cap Of(p))
             /\ Decremented(K)[p] \in Nat
  <2> DEFINE S == owners \cap Of(p)
  <2>1. IsFiniteSet(S)
    BY FS_Subset DEF OwnersCounted
  <2>2. IsFiniteSet(S \ K) /\ Cardinality(S \ K) = Cardinality(S) - Cardinality(S \cap K)
    BY <2>1, FS_Difference
  <2>3. S \cap K = K \cap Of(p) /\ S \ K = (owners \ K) \cap Of(p)
    OBVIOUS
  <2>4. Cardinality(S \ K) \in Nat
    BY <2>2, FS_CardinalityType
  <2>5. watchCount[p] = Cardinality(S)
    BY DEF OwnersCounted, WatchCountExact
  <2>6. Decremented(K)[p] = watchCount[p] - Cardinality(K \cap Of(p))
    BY DEF Decremented
  <2> QED
    BY <2>2, <2>3, <2>4, <2>5, <2>6
<1>3. Decremented(K) = [p \in Parents |-> Decremented(K)[p]]
  BY DEF Decremented
<1> QED
  BY <1>1, <1>2, <1>3

LEMMA IncrementedCount ==
    ASSUME owners \subseteq Instances, OwnersCounted, watchCount \in [Parents -> Nat],
           NEW k \in Instances,
           owners' = owners \cup {k},
           watchCount' = [watchCount EXCEPT ![ParentOf[k]] = @ + Cardinality({k} \ owners)]
    PROVE  OwnersCounted' /\ watchCount' \in [Parents -> Nat]
<1>1. ParentOf[k] \in Parents
  BY DynamicAssumption
<1>2. CASE k \in owners
  <2>1. owners' = owners /\ {k} \ owners = {}
    BY <1>2
  <2>2. Cardinality({k} \ owners) = 0
    BY <2>1, FS_EmptySet
  <2>3. watchCount' = watchCount
    BY <1>1, <2>2
  <2> QED
    BY <2>1, <2>3 DEF OwnersCounted, WatchCountExact
<1>3. CASE k \notin owners
  <2>1. {k} \ owners = {k} /\ Cardinality({k}) = 1
    BY <1>3, FS_Singleton
  <2>2. watchCount' = [watchCount EXCEPT ![ParentOf[k]] = @ + 1]
    BY <2>1
  <2>3. watchCount' \in [Parents -> Nat]
    BY <1>1, <2>2
  <2>4. IsFiniteSet(owners')
    BY FS_AddElement DEF OwnersCounted
  <2>5. ASSUME NEW p \in Parents PROVE watchCount'[p] = Cardinality(owners' \cap Of(p))
    <3>1. IsFiniteSet(owners \cap Of(p)) /\ watchCount[p] = Cardinality(owners \cap Of(p))
      BY FS_Subset DEF OwnersCounted, WatchCountExact
    <3>2. CASE ParentOf[k] = p
      <4>1. owners' \cap Of(p) = (owners \cap Of(p)) \cup {k} /\ k \notin owners \cap Of(p)
        BY <1>3, <3>2 DEF Of
      <4>2. Cardinality(owners' \cap Of(p)) = Cardinality(owners \cap Of(p)) + 1
        BY <3>1, <4>1, FS_AddElement
      <4> QED
        BY <2>2, <3>1, <3>2, <4>2
    <3>3. CASE ParentOf[k] # p
      <4>1. owners' \cap Of(p) = owners \cap Of(p)
        BY <3>3 DEF Of
      <4> QED
        BY <1>1, <2>2, <3>1, <3>3, <4>1
    <3> QED
      BY <3>2, <3>3
  <2> QED
    BY <2>3, <2>4, <2>5 DEF OwnersCounted, WatchCountExact, Of
<1> QED
  BY <1>2, <1>3

\* An end of k's reconcile leaves the owners alone or removes k, counted.
LEMMA EndOfOwners ==
    ASSUME NEW k \in Instances,
           Converge(k) \/ Unmanage(k) \/ NotReady(k) \/ Fail(k)
    PROVE  \/ UNCHANGED <<owners, watchCount>>
           \/ \E K \in SUBSET owners : owners' = owners \ K /\ watchCount' = Decremented(K)
<1>1. ASSUME NEW verdict, NEW end, Finish(k, verdict, end)
      PROVE  \/ UNCHANGED <<owners, watchCount>>
             \/ \E K \in SUBSET owners : owners' = owners \ K /\ watchCount' = Decremented(K)
  <2>1. CASE Commit(k)
    BY <2>1 DEF Commit
  <2>2. CASE Abort(k)
    <3> DEFINE K == (owners \cap {k}) \ committed
    <3>1. K \in SUBSET owners /\ owners' = owners \ K /\ watchCount' = Decremented(K)
      BY <2>2 DEF Abort
    <3> QED
      BY <3>1
  <2> QED
    BY <1>1, <2>1, <2>2 DEF Finish
<1>2. CASE Unmanage(k)
  <2> DEFINE K == owners \cap {k}
  <2>1. K \in SUBSET owners /\ owners' = owners \ K /\ watchCount' = Decremented(K)
    BY <1>2 DEF Unmanage
  <2> QED
    BY <2>1
<1> QED
  BY <1>1, <1>2 DEF Converge, NotReady, Fail

LEMMA CountStep ==
    ASSUME Types, OwnersCounted, [Next]_vars
    PROVE  OwnersCounted' /\ watchCount' \in [Parents -> Nat]
<1> owners \subseteq Instances /\ watchCount \in [Parents -> Nat]
  BY DEF Types, TypeOK
<1>1. CASE UNCHANGED <<owners, watchCount>>
  BY <1>1 DEF OwnersCounted, WatchCountExact, Of
<1>2. ASSUME NEW K \in SUBSET owners, owners' = owners \ K, watchCount' = Decremented(K)
      PROVE  OwnersCounted' /\ watchCount' \in [Parents -> Nat]
  BY <1>2, DecrementedCount DEF OwnersCounted, WatchCountExact, Of
<1>3. ASSUME NEW k \in Instances, Watch(k) PROVE OwnersCounted' /\ watchCount' \in [Parents -> Nat]
  BY <1>1, <1>3, IncrementedCount DEF Watch
<1>4. ASSUME NEW p \in Parents, Deregister(p)
      PROVE  \E K \in SUBSET owners : owners' = owners \ K /\ watchCount' = Decremented(K)
  <2> DEFINE K == owners \cap Of(p)
  <2>1. K \in SUBSET owners /\ owners' = owners \ K /\ watchCount' = Decremented(K)
    BY <1>4 DEF Deregister
  <2> QED
    BY <2>1
<1>5. CASE UNCHANGED vars
  BY <1>1, <1>5 DEF vars, coordVars
<1>6. ASSUME NEW k \in Instances, KeyNext(k)
      PROVE  OwnersCounted' /\ watchCount' \in [Parents -> Nat]
  <2>1. CASE TimerFires(k) \/ UserWrites(k) \/ ChildChanges(k) \/ ParentEvent(k) \/ RouteEvent(k)
             \/ Get(k) \/ Load(k) \/ Read(k)
    BY <1>1, <2>1 DEF TimerFires, UserWrites, ChildChanges, ParentEvent, RouteEvent, Get, Load,
                      Read, coordVars
  <2>2. CASE Watch(k)
    BY <1>3, <2>2
  <2>3. CASE Converge(k) \/ Unmanage(k) \/ NotReady(k) \/ Fail(k)
    BY <1>1, <1>2, <2>3, EndOfOwners
  <2> QED
    BY <1>6, <2>1, <2>2, <2>3 DEF KeyNext
<1>7. ASSUME NEW p \in Parents, RegistrarNext(p)
      PROVE  OwnersCounted' /\ watchCount' \in [Parents -> Nat]
  <2>1. CASE Register(p) \/ RegisterEnsured(p) \/ RegisterAttach(p) \/ DeregisterDetach(p)
             \/ DeregisterUnhandle(p)
    BY <1>1, <2>1 DEF Register, RegisterEnsured, RegisterAttach, DeregisterDetach,
                      DeregisterUnhandle, coordVars
  <2>2. CASE Deregister(p)
    BY <1>2, <1>4, <2>2
  <2> QED
    BY <1>7, <2>1, <2>2 DEF RegistrarNext
<1>8. CASE RouteEnqueue \/ Shutdown
  BY <1>1, <1>8 DEF RouteEnqueue, Shutdown, coordVars
<1> QED
  BY <1>5, <1>6, <1>7, <1>8 DEF Next

-----------------------------------------------------------------------------
(* Type correctness.                                                       *)

LEMMA Bounds ==
    /\ ParentOf \in [Instances -> Parents]
    /\ QueueMaxRetries \in Nat /\ MaxGeneration \in Nat \ {0} /\ MaxChild \in Nat
    /\ MaxFaults \in Nat /\ MaxWrites \in Nat /\ Workers \in Nat
BY DynamicAssumption

LEMMA ObjectFacts ==
    /\ Absent \in Object
    /\ [Absent EXCEPT !.gen = 1] \in Object
    /\ Absent.gen = 0 /\ ~Absent.deleting /\ ~Absent.suspended
    /\ \A o \in Object : /\ o.gen \in 0..MaxGeneration
                         /\ o.suspended \in BOOLEAN /\ o.deleting \in BOOLEAN
                         /\ [o EXCEPT !.suspended = ~@] \in Object
                         /\ o.gen \in 1..(MaxGeneration - 1) =>
                               \A d \in BOOLEAN : [o EXCEPT !.gen = @ + 1, !.deleting = d] \in Object
<1>0. 0 \in 0..MaxGeneration /\ 1 \in 0..MaxGeneration
  BY Bounds
<1>1. Absent \in Object /\ [Absent EXCEPT !.gen = 1] \in Object
  BY <1>0 DEF Absent, Object
<1>2. Absent.gen = 0 /\ ~Absent.deleting /\ ~Absent.suspended
  BY DEF Absent
<1>3. ASSUME NEW o \in Object
      PROVE  /\ o.gen \in 0..MaxGeneration
             /\ o.suspended \in BOOLEAN /\ o.deleting \in BOOLEAN
  BY DEF Object
<1>4. ASSUME NEW o \in Object PROVE [o EXCEPT !.suspended = ~@] \in Object
  <2>1. (~o.suspended) \in BOOLEAN
    OBVIOUS
  <2> DEFINE b == ~o.suspended
  <2>2. b \in BOOLEAN
    BY <2>1
  <2> HIDE DEF b
  <2>3. [o EXCEPT !.suspended = b] \in Object
    BY <2>2 DEF Object
  <2> QED
    BY <2>3 DEF b
<1>5. ASSUME NEW o \in Object, o.gen \in 1..(MaxGeneration - 1), NEW d \in BOOLEAN
      PROVE  [o EXCEPT !.gen = @ + 1, !.deleting = d] \in Object
  <2>1. o.gen + 1 \in 0..MaxGeneration
    BY <1>5, Bounds
  <2> QED
    BY <2>1 DEF Object
<1> QED
  BY <1>1, <1>2, <1>3, <1>4, <1>5

\* A write keeps the instances and the events well formed.
LEMMA WriteTypes ==
    ASSUME Types, NEW k \in Instances, NEW new \in Object, Write(k, new)
    PROVE  /\ obj' \in [Instances -> Object] /\ events' \in [Instances -> Seq(Object)]
           /\ obj'[k] = new /\ \A j \in Instances \ {k} : obj'[j] = obj[j] /\ events'[j] = events[j]
           /\ events'[k] = IF ParentOf[k] \in informers THEN Append(events[k], new) ELSE events[k]
<1>1. obj \in [Instances -> Object] /\ events \in [Instances -> Seq(Object)]
  BY DEF Types, TypeOK
<1>2. Append(events[k], new) \in Seq(Object)
  BY <1>1
<1> HIDE DEF Object
<1> QED
  BY <1>1, <1>2 DEF Write

\* Everything but watchCount, whose type is CountStep's.
TypesLess ==
    /\ obj \in [Instances -> Object] /\ store \in [Instances -> Object]
    /\ events \in [Instances -> Seq(Object)]
    /\ child \in [Instances -> 0..MaxChild] /\ childStore \in [Instances -> 0..MaxChild]
    /\ informers \subseteq Parents /\ parentWatches \subseteq Parents /\ handlers \subseteq Parents
    /\ registrar \in [Parents -> {"idle", "ensure", "attach", "detach", "unhandle"}]
    /\ routing \subseteq Instances /\ owners \subseteq Instances
    /\ declared \subseteq Instances /\ committed \subseteq Instances
    /\ queue \in Queue
    /\ run \in [Instances -> [pc : {"idle", "load", "watch", "read", "end"},
                              obj : Object, child : 0..MaxChild]]
    /\ acted \in [Instances -> [obj : Object, child : 0..MaxChild, end : Ends]]
    /\ faults \in 0..MaxFaults /\ writes \in 0..MaxWrites

LEMMA TypesSplit == Types <=> TypesLess /\ watchCount \in [Parents -> Nat]
<1>1. ASSUME events \in [Instances -> Seq(Object)]
      PROVE  \A k \in Instances : \A i \in 1..Len(events[k]) : events[k][i] \in Object
  BY <1>1
<1> QED
  BY <1>1 DEF Types, TypeOK, TypesLess

\* The user's writes: each tells the instance's new version from the old one.
LEMMA UserWriteEffect ==
    ASSUME Types, NEW k \in Instances, UserWrites(k)
    PROVE  \E new \in Object :
              /\ Write(k, new) /\ enqueueFromInformer(obj[k], new) /\ new.gen > 0
              /\ ~obj[k].deleting
<1>0. obj[k] \in Object
  BY DEF Types, TypeOK
<1>1. CASE obj[k] = Absent /\ Write(k, [Absent EXCEPT !.gen = 1])
  <2> DEFINE new == [Absent EXCEPT !.gen = 1]
  <2>1. new \in Object /\ new.gen = 1
    BY ObjectFacts DEF Absent
  <2>2. obj[k].gen = 0 /\ ~obj[k].deleting
    BY <1>1, ObjectFacts
  <2>3. Write(k, new) /\ enqueueFromInformer(obj[k], new)
    BY <1>1, <2>1, <2>2 DEF enqueueFromInformer
  <2> HIDE DEF new
  <2> QED
    BY <2>1, <2>2, <2>3
<1>2. ASSUME obj[k].gen \in 1..(MaxGeneration - 1), ~obj[k].deleting, NEW d \in BOOLEAN,
             Write(k, [obj[k] EXCEPT !.gen = @ + 1, !.deleting = d])
      PROVE  \E new \in Object :
                /\ Write(k, new) /\ enqueueFromInformer(obj[k], new) /\ new.gen > 0
                /\ ~obj[k].deleting
  <2> DEFINE new == [obj[k] EXCEPT !.gen = @ + 1, !.deleting = d]
  <2>1. new \in Object
    BY <1>0, <1>2, ObjectFacts
  <2>2. new.gen = obj[k].gen + 1 /\ obj[k].gen \in Nat
    BY <1>0, <1>2, Bounds DEF Object
  <2>3. new.gen # obj[k].gen /\ new.gen > 0
    BY <2>2
  <2> QED
    BY <1>2, <2>1, <2>3 DEF enqueueFromInformer
<1>3. CASE /\ obj[k].gen > 0 /\ ~obj[k].deleting
           /\ Write(k, [obj[k] EXCEPT !.suspended = ~@])
  <2> DEFINE new == [obj[k] EXCEPT !.suspended = ~@]
  <2>1. new \in Object
    BY <1>0, ObjectFacts
  <2>2. new.gen = obj[k].gen /\ new.suspended = ~obj[k].suspended
    BY <1>0 DEF Object
  <2>3. obj[k].suspended # new.suspended
    <3>1. CASE obj[k].suspended = TRUE
      BY <2>2, <3>1
    <3>2. CASE obj[k].suspended = FALSE
      BY <2>2, <3>2
    <3> QED
      BY <1>0, <3>1, <3>2, ObjectFacts
  <2>4. Write(k, new) /\ enqueueFromInformer(obj[k], new)
    BY <1>3, <2>3 DEF enqueueFromInformer
  <2> HIDE DEF new
  <2> QED
    BY <1>3, <2>1, <2>2, <2>4
<1> QED
  BY <1>1, <1>2, <1>3 DEF UserWrites

LEMMA TypesStep ==
    ASSUME Types, OwnersCounted, [Next]_vars
    PROVE  Types'
<1> USE DEF apiVars, informerVars, registerVars, coordVars
<1>0. TypesLess
  BY TypesSplit
<1> SUFFICES TypesLess'
  <2>1. watchCount' \in [Parents -> Nat]
    BY CountStep
  <2>2. events' \in [Instances -> Seq(Object)]
    BY DEF TypesLess
  <2>3. \A k \in Instances : \A i \in 1..Len(events'[k]) : events'[k][i] \in Object
    BY <2>2
  <2> QED
    BY <2>1, <2>2, <2>3 DEF Types, TypeOK, TypesLess
<1>1. CASE UNCHANGED vars
  BY <1>0, <1>1 DEF TypesLess, vars
<1>2. ASSUME NEW k \in Instances, KeyNext(k) PROVE TypesLess'
  <2> Absent \in Object
    BY ObjectFacts
  <2> 0 \in 0..MaxChild
    BY Bounds
  <2>q. queue \in Queue
    BY <1>0 DEF TypesLess
  <2>1. CASE TimerFires(k)
    <3> DEFINE q == [queue EXCEPT !.timers = @ \ {k}]
    <3>1. q \in Queue
      BY <2>q DEF Queue
    <3> HIDE DEF q
    <3>2. queue' \in Queue
      BY <2>1, <3>1, AddEffect DEF TimerFires, q
    <3> QED
      BY <1>0, <2>1, <3>2 DEF TypesLess, TimerFires
  <2>2. CASE UserWrites(k)
    <3>1. obj' \in [Instances -> Object] /\ events' \in [Instances -> Seq(Object)]
      <4>1. PICK new \in Object : Write(k, new)
        BY <2>2, UserWriteEffect
      <4> QED
        BY <4>1, WriteTypes
    <3>2. writes' \in 0..MaxWrites
      <4>1. writes < MaxWrites /\ writes' = writes + 1
        BY <2>2 DEF UserWrites
      <4> QED
        BY <1>0, <4>1, Bounds DEF TypesLess
    <3> QED
      BY <1>0, <2>2, <3>1, <3>2 DEF TypesLess, UserWrites
  <2>3. CASE ChildChanges(k)
    <3>1. child' \in [Instances -> 0..MaxChild]
      BY <1>0, <2>3, Bounds DEF ChildChanges, TypesLess
    <3> QED
      BY <1>0, <2>3, <3>1 DEF TypesLess, ChildChanges
  <2>4. CASE ParentEvent(k)
    <3>1. Head(events[k]) \in Object /\ Tail(events[k]) \in Seq(Object)
      BY <1>0, <2>4 DEF ParentEvent, TypesLess
    <3>2. queue' \in Queue
      BY <2>q, <2>4, AddEffect DEF ParentEvent
    <3>3. store' \in [Instances -> Object] /\ events' \in [Instances -> Seq(Object)]
      BY <1>0, <2>4, <3>1 DEF ParentEvent, TypesLess
    <3> QED
      BY <1>0, <2>4, <3>2, <3>3 DEF TypesLess, ParentEvent
  <2>5. CASE RouteEvent(k)
    BY <1>0, <2>5 DEF TypesLess, RouteEvent
  <2>6. CASE Get(k)
    <3> DEFINE q == [queue EXCEPT !.dirty = @ \ {k}, !.processing = @ \cup {k}]
               r == [Idle EXCEPT !.pc = "load"]
    <3>1. q \in Queue
      BY <2>q DEF Queue
    <3>2. r \in [pc : {"idle", "load", "watch", "read", "end"}, obj : Object, child : 0..MaxChild]
      BY DEF Idle
    <3> HIDE DEF q, r
    <3>3. queue' \in Queue
      BY <2>6, <3>1, ForgetEffect, DoneEffect DEF Get, q
    <3>4. run' \in [Instances -> [pc : {"idle", "load", "watch", "read", "end"},
                                 obj : Object, child : 0..MaxChild]]
      BY <1>0, <2>6, <3>2 DEF Get, TypesLess, r
    <3> QED
      BY <1>0, <2>6, <3>3, <3>4 DEF TypesLess, Get
  <2>7. CASE Load(k)
    <3>1. run' \in [Instances -> [pc : {"idle", "load", "watch", "read", "end"},
                                 obj : Object, child : 0..MaxChild]]
      <4>1. obj[k] \in Object
            /\ run[k] \in [pc : {"idle", "load", "watch", "read", "end"},
                          obj : Object, child : 0..MaxChild]
        BY <1>0 DEF TypesLess
      <4>2. PICK pc \in {"watch", "end"} :
              run' = [run EXCEPT ![k].obj = obj[k], ![k].pc = pc]
        BY <2>7 DEF Load
      <4>3. [run[k] EXCEPT !.obj = obj[k], !.pc = pc]
              \in [pc : {"idle", "load", "watch", "read", "end"},
                  obj : Object, child : 0..MaxChild]
        BY <4>1
      <4>4. run' = [run EXCEPT ![k] = [run[k] EXCEPT !.obj = obj[k], !.pc = pc]]
        BY <1>0, <4>2 DEF TypesLess
      <4> QED
        BY <1>0, <4>3, <4>4 DEF TypesLess
    <3> QED
      BY <1>0, <2>7, <3>1 DEF TypesLess, Load
  <2>8. CASE Watch(k)
    <3>1. run' \in [Instances -> [pc : {"idle", "load", "watch", "read", "end"},
                                 obj : Object, child : 0..MaxChild]]
      <4>1. run' = [run EXCEPT ![k].pc = "read"]
        BY <2>8 DEF Watch
      <4> QED
        BY <1>0, <4>1 DEF TypesLess
    <3>2. faults' \in 0..MaxFaults
      <4>1. faults' = faults \/ (faults < MaxFaults /\ faults' = faults + 1)
        BY <2>8 DEF Watch, Fault
      <4> QED
        BY <1>0, <4>1, Bounds DEF TypesLess
    <3> QED
      BY <1>0, <2>8, <3>1, <3>2 DEF TypesLess, Watch
  <2>9. CASE Read(k)
    <3>1. run' \in [Instances -> [pc : {"idle", "load", "watch", "read", "end"},
                                 obj : Object, child : 0..MaxChild]]
      <4>1. child[k] \in 0..MaxChild
            /\ run[k] \in [pc : {"idle", "load", "watch", "read", "end"},
                          obj : Object, child : 0..MaxChild]
        BY <1>0 DEF TypesLess
      <4>2. [run[k] EXCEPT !.pc = "end", !.child = child[k]]
              \in [pc : {"idle", "load", "watch", "read", "end"},
                  obj : Object, child : 0..MaxChild]
        BY <4>1
      <4>3. run' = [run EXCEPT ![k] = [run[k] EXCEPT !.pc = "end", !.child = child[k]]]
        BY <1>0, <2>9 DEF Read, TypesLess
      <4> QED
        BY <1>0, <4>2, <4>3 DEF TypesLess
    <3> QED
      BY <1>0, <2>9, <3>1 DEF TypesLess, Read
  <2>10. CASE Converge(k) \/ Unmanage(k) \/ NotReady(k) \/ Fail(k)
    <3>1. EndOf(k)
      BY <2>10, EndEffect
    <3>2. obj' \in [Instances -> Object] /\ events' \in [Instances -> Seq(Object)]
          /\ faults' \in 0..MaxFaults
      <4>1. CASE Unmanage(k)
        BY <1>0, <4>1, WriteTypes DEF Unmanage, TypesLess
      <4>2. CASE Converge(k) \/ NotReady(k) \/ Fail(k)
        <5>1. UNCHANGED <<obj, events>>
          BY <4>2 DEF Converge, NotReady, Fail
        <5>2. faults' = faults \/ (faults < MaxFaults /\ faults' = faults + 1)
          BY <4>2 DEF Converge, NotReady, Fail, Fault
        <5> QED
          BY <1>0, <5>1, <5>2, Bounds DEF TypesLess
      <4> QED
        BY <2>10, <4>1, <4>2
    <3>3. owners' \subseteq owners
      BY <2>10, EndOfOwners
    <3>4. declared' \subseteq declared /\ committed' \subseteq committed \cup {k}
      BY <2>10 DEF Converge, NotReady, Fail, Unmanage, Finish, Commit, Abort
    <3>5. Idle \in [pc : {"idle", "load", "watch", "read", "end"}, obj : Object, child : 0..MaxChild]
      BY DEF Idle
    <3>6. run' \in [Instances -> [pc : {"idle", "load", "watch", "read", "end"},
                                 obj : Object, child : 0..MaxChild]]
      BY <1>0, <3>1, <3>5 DEF EndOf, TypesLess
    <3>7. acted' \in [Instances -> [obj : Object, child : 0..MaxChild, end : Ends]]
      BY <1>0, <3>1 DEF EndOf, TypesLess
    <3> QED
      BY <1>0, <3>1, <3>2, <3>3, <3>4, <3>6, <3>7 DEF TypesLess, EndOf
  <2> QED
    BY <1>2, <2>1, <2>2, <2>3, <2>4, <2>5, <2>6, <2>7, <2>8, <2>9, <2>10 DEF KeyNext
<1>3. ASSUME NEW p \in Parents, RegistrarNext(p) PROVE TypesLess'
  <2>q. queue \in Queue /\ Existing(p) \in SUBSET Instances
    BY <1>0 DEF TypesLess, Existing, Of
  <2> Absent \in Object
    BY ObjectFacts
  <2>1. CASE Register(p)
    <3>1. queue' \in Queue
      BY <2>q, <2>1, AddEffect DEF Register
    <3>2. faults' \in 0..MaxFaults
      BY <1>0, <2>1, Bounds DEF Register, Fault, TypesLess
    <3> QED
      BY <1>0, <2>1, <3>1, <3>2 DEF TypesLess, Register
  <2>2. CASE RegisterEnsured(p)
    <3>1. faults' \in 0..MaxFaults
      <4>1. faults' = faults \/ (faults < MaxFaults /\ faults' = faults + 1)
        BY <2>2 DEF RegisterEnsured, Fault
      <4> QED
        BY <1>0, <4>1, Bounds DEF TypesLess
    <3>2. <<>> \in Seq(Object)
      OBVIOUS
    <3>3. store' \in [Instances -> Object] /\ events' \in [Instances -> Seq(Object)]
      <4>1. obj \in [Instances -> Object] /\ store \in [Instances -> Object]
            /\ events \in [Instances -> Seq(Object)]
        BY <1>0 DEF TypesLess
      <4> QED
        BY <2>2, <3>2, <4>1 DEF RegisterEnsured
    <3> QED
      BY <1>0, <2>2, <3>1, <3>3 DEF TypesLess, RegisterEnsured
  <2>3. CASE RegisterAttach(p)
    <3>1. queue' \in Queue
      BY <2>q, <2>3, AddEffect DEF RegisterAttach
    <3> QED
      BY <1>0, <2>3, <3>1 DEF TypesLess, RegisterAttach
  <2>4. CASE Deregister(p)
    <3>1. faults' \in 0..MaxFaults
      BY <1>0, <2>4, Bounds DEF Deregister, Fault, TypesLess
    <3> QED
      BY <1>0, <2>4, <3>1 DEF TypesLess, Deregister
  <2>5. CASE DeregisterDetach(p)
    <3>2. <<>> \in Seq(Object)
      OBVIOUS
    <3>3. store' \in [Instances -> Object] /\ events' \in [Instances -> Seq(Object)]
      BY <1>0, <2>5, <3>2 DEF TypesLess, DeregisterDetach
    <3> QED
      BY <1>0, <2>5, <3>3 DEF TypesLess, DeregisterDetach
  <2>6. CASE DeregisterUnhandle(p)
    BY <1>0, <2>6 DEF TypesLess, DeregisterUnhandle
  <2> QED
    BY <1>3, <2>1, <2>2, <2>3, <2>4, <2>5, <2>6 DEF RegistrarNext
<1>4. CASE RouteEnqueue
  <2>1. queue' \in Queue
    BY <1>0, <1>4, AddEffect DEF RouteEnqueue, TypesLess
  <2> QED
    BY <1>0, <1>4, <2>1 DEF TypesLess, RouteEnqueue
<1>5. CASE Shutdown
  <2>1. queue' \in Queue
    BY <1>0, <1>5 DEF Shutdown, TypesLess, Queue
  <2>2. faults' \in 0..MaxFaults
    BY <1>0, <1>5, Bounds DEF Shutdown, Fault, TypesLess
  <2> QED
    BY <1>0, <1>5, <2>1, <2>2 DEF TypesLess, Shutdown
<1> QED
  BY <1>1, <1>2, <1>3, <1>4, <1>5 DEF Next

-----------------------------------------------------------------------------
(* What the other actions do with the queue.                               *)

Queued(q) == q.dirty \cup q.timers

\* Nothing leaves the queue, short of a shutdown.
Grown ==
    /\ queue'.processing = queue.processing /\ queue'.requeues = queue.requeues
    /\ queue'.shuttingDown = queue.shuttingDown
    /\ ~queue.shuttingDown => Queued(queue) \subseteq Queued(queue')

LEMMA AddGrows ==
    ASSUME queue \in Queue, NEW K \in SUBSET Instances, queue' = Add(queue, K)
    PROVE  Grown /\ (~queue.shuttingDown => K \subseteq queue'.dirty)
<1>1. /\ queue'.dirty = IF queue.shuttingDown THEN queue.dirty ELSE queue.dirty \cup K
      /\ queue'.processing = queue.processing /\ queue'.timers = queue.timers
      /\ queue'.requeues = queue.requeues /\ queue'.shuttingDown = queue.shuttingDown
  BY AddEffect
<1> QED
  BY <1>1 DEF Grown, Queued

LEMMA TimerEffect ==
    ASSUME Types, NEW k \in Instances, TimerFires(k)
    PROVE  Grown
<1> DEFINE q == [queue EXCEPT !.timers = @ \ {k}]
<1>1. queue \in Queue
  BY DEF Types, TypeOK
<1>2. /\ q \in Queue /\ q.timers = queue.timers \ {k} /\ q.dirty = queue.dirty
      /\ q.processing = queue.processing /\ q.requeues = queue.requeues
      /\ q.shuttingDown = queue.shuttingDown
  BY <1>1 DEF Queue
<1>3. queue' = Add(q, {k}) /\ {k} \in SUBSET Instances
  BY DEF TimerFires
<1> HIDE DEF q
<1>4. /\ queue'.dirty = IF q.shuttingDown THEN q.dirty ELSE q.dirty \cup {k}
      /\ queue'.processing = q.processing /\ queue'.timers = q.timers
      /\ queue'.requeues = q.requeues /\ queue'.shuttingDown = q.shuttingDown
  BY <1>2, <1>3, AddEffect
<1> QED
  BY <1>2, <1>4 DEF Grown, Queued

LEMMA ParentEventEffect ==
    ASSUME Types, NEW k \in Instances, ParentEvent(k)
    PROVE  /\ Grown
           /\ ParentOf[k] \in parentWatches /\ enqueueFromInformer(store[k], Head(events[k]))
                 /\ ~queue.shuttingDown => k \in queue'.dirty
<1>1. queue \in Queue /\ {k} \in SUBSET Instances
  BY DEF Types, TypeOK
<1>2. CASE UNCHANGED queue
  BY <1>1, <1>2, AddGrows DEF Grown, ParentEvent
<1>3. CASE queue' = Add(queue, {k})
  BY <1>1, <1>3, AddGrows
<1> QED
  BY <1>1, <1>2, <1>3, AddGrows DEF ParentEvent

LEMMA GetEffect ==
    ASSUME Types, NEW k \in Instances, Get(k)
    PROVE  /\ k \notin queue.processing /\ k \in queue.dirty
           /\ queue'.dirty = queue.dirty \ {k} /\ queue'.timers = queue.timers
           /\ queue'.shuttingDown = queue.shuttingDown
           /\ \A j \in Instances \ {k} : queue'.requeues[j] = queue.requeues[j]
           /\ ParentOf[k] \in handlers =>
                 /\ queue'.processing = queue.processing \cup {k}
                 /\ queue'.requeues = queue.requeues
                 /\ run' = [run EXCEPT ![k] = [Idle EXCEPT !.pc = "load"]]
           /\ ParentOf[k] \notin handlers =>
                 /\ queue'.processing = queue.processing /\ queue'.requeues[k] = 0
                 /\ run' = run
<1> DEFINE q == [queue EXCEPT !.dirty = @ \ {k}, !.processing = @ \cup {k}]
           f == Forget(q, k)
<1>1. queue \in Queue /\ k \in queue.dirty /\ k \notin queue.processing
  BY DEF Types, TypeOK, Get
<1>2. /\ q \in Queue /\ q.dirty = queue.dirty \ {k} /\ q.processing = queue.processing \cup {k}
      /\ q.timers = queue.timers /\ q.requeues = queue.requeues
      /\ q.shuttingDown = queue.shuttingDown
  BY <1>1 DEF Queue
<1>3. CASE ParentOf[k] \in handlers
  <2>1. queue' = q /\ run' = [run EXCEPT ![k] = [Idle EXCEPT !.pc = "load"]]
    BY <1>3 DEF Get
  <2> HIDE DEF q
  <2> QED
    BY <1>1, <1>2, <1>3, <2>1
<1>4. CASE ParentOf[k] \notin handlers
  <2>1. queue' = Done(f, k) /\ run' = run
    BY <1>4 DEF Get
  <2> HIDE DEF q
  <2>2. /\ f \in Queue /\ f.requeues[k] = 0
        /\ f.timers = q.timers /\ f.processing = q.processing /\ f.dirty = q.dirty
        /\ \A j \in Instances \ {k} : f.requeues[j] = q.requeues[j]
        /\ f.shuttingDown = q.shuttingDown
    BY <1>2, ForgetEffect
  <2> HIDE DEF f
  <2>3. /\ queue'.processing = f.processing \ {k}
        /\ queue'.dirty = f.dirty /\ queue'.timers = f.timers
        /\ queue'.requeues = f.requeues /\ queue'.shuttingDown = f.shuttingDown
    BY <2>1, <2>2, DoneEffect
  <2> QED
    BY <1>1, <1>2, <1>4, <2>1, <2>2, <2>3
<1> QED
  BY <1>3, <1>4

LEMMA RegistrarEffect ==
    ASSUME Types, NEW p \in Parents, RegistrarNext(p)
    PROVE  /\ Grown
           /\ RegisterAttach(p) /\ ~queue.shuttingDown => Existing(p) \subseteq queue'.dirty
<1>1. queue \in Queue /\ Existing(p) \in SUBSET Instances
  BY DEF Types, TypeOK, Existing, Of
<1>2. queue' = queue \/ queue' = Add(queue, Existing(p))
  BY DEF RegistrarNext, Register, RegisterEnsured, RegisterAttach, Deregister, DeregisterDetach,
         DeregisterUnhandle
<1>3. CASE queue' = queue
  BY <1>1, <1>3, AddGrows DEF Grown, RegisterAttach
<1>4. CASE queue' = Add(queue, Existing(p))
  BY <1>1, <1>4, AddGrows
<1> QED
  BY <1>2, <1>3, <1>4

LEMMA RouteEnqueueEffect ==
    ASSUME Types, RouteEnqueue
    PROVE  Grown /\ (~queue.shuttingDown => routing \subseteq queue'.dirty)
<1>1. queue \in Queue /\ routing \in SUBSET Instances /\ queue' = Add(queue, routing)
  BY DEF Types, TypeOK, RouteEnqueue
<1> QED
  BY <1>1, AddGrows

LEMMA ShutdownEffect ==
    ASSUME Types, Shutdown
    PROVE  /\ queue'.shuttingDown /\ queue'.processing = queue.processing
           /\ queue'.requeues = queue.requeues /\ queue'.dirty = queue.dirty
<1>1. queue \in Queue
  BY DEF Types, TypeOK
<1> QED
  BY <1>1 DEF Shutdown, Queue

\* The actions on a key that leave the queue alone.
LEMMA QuietEffect ==
    ASSUME NEW k, UserWrites(k) \/ ChildChanges(k) \/ RouteEvent(k) \/ Load(k) \/ Watch(k) \/ Read(k)
    PROVE  queue' = queue /\ Grown
<1>1. queue' = queue
  BY DEF UserWrites, ChildChanges, RouteEvent, Load, Watch, Read
<1> QED
  BY <1>1 DEF Grown

-----------------------------------------------------------------------------
(* The steps of a reconcile.                                               *)

LEMMA LoadEffect ==
    ASSUME Types, NEW k \in Instances, Load(k)
    PROVE  /\ run[k].pc = "load" /\ run'[k].obj = obj[k] /\ run'[k].child = run[k].child
           /\ run'[k].pc = IF obj[k] # Absent /\ ~obj[k].deleting /\ ~obj[k].suspended
                           THEN "watch" ELSE "end"
           /\ \A j \in Instances \ {k} : run'[j] = run[j]
BY DEF Types, TypeOK, Load

LEMMA WatchEffect ==
    ASSUME Types, NEW k \in Instances, Watch(k)
    PROVE  /\ run[k].pc = "watch" /\ run'[k].obj = run[k].obj /\ run'[k].child = run[k].child
           /\ run'[k].pc = "read" /\ declared' \subseteq declared \cup {k}
           /\ \A j \in Instances \ {k} : run'[j] = run[j]
BY DEF Types, TypeOK, Watch

LEMMA ReadEffect ==
    ASSUME Types, NEW k \in Instances, Read(k)
    PROVE  /\ run[k].pc = "read" /\ run'[k].obj = run[k].obj /\ run'[k].child = child[k]
           /\ run'[k].pc = "end"
           /\ \A j \in Instances \ {k} : run'[j] = run[j]
BY DEF Types, TypeOK, Read

\* The actions that are no steps of a reconcile.
Outside ==
    \/ \E k \in Instances :
          TimerFires(k) \/ UserWrites(k) \/ ChildChanges(k) \/ ParentEvent(k) \/ RouteEvent(k)
    \/ \E p \in Parents : RegistrarNext(p)
    \/ RouteEnqueue \/ Shutdown \/ UNCHANGED vars

\* What they leave alone.
LEMMA OutsideRuns ==
    ASSUME Outside
    PROVE  UNCHANGED <<run, acted>> /\ declared' \subseteq declared /\ committed' \subseteq committed
BY DEF Outside, TimerFires, UserWrites, ChildChanges, ParentEvent, RouteEvent, RegistrarNext,
       Register, RegisterEnsured, RegisterAttach, Deregister, DeregisterDetach, DeregisterUnhandle,
       RouteEnqueue, Shutdown, vars, coordVars

\* They leave the counts and the keys under way alone too.
LEMMA OutsideQueue ==
    ASSUME Types,
           Outside
    PROVE  queue'.processing = queue.processing /\ queue'.requeues = queue.requeues
<1>1. CASE UNCHANGED vars
  BY <1>1 DEF vars
<1>2. CASE Shutdown
  BY <1>2, ShutdownEffect
<1>3. CASE RouteEnqueue
  BY <1>3, RouteEnqueueEffect DEF Grown
<1>4. ASSUME NEW p \in Parents, RegistrarNext(p)
      PROVE  queue'.processing = queue.processing /\ queue'.requeues = queue.requeues
  BY <1>4, RegistrarEffect DEF Grown
<1>5. ASSUME NEW k \in Instances, \/ TimerFires(k) \/ UserWrites(k) \/ ChildChanges(k)
                                  \/ ParentEvent(k) \/ RouteEvent(k)
      PROVE  queue'.processing = queue.processing /\ queue'.requeues = queue.requeues
  BY <1>5, TimerEffect, ParentEventEffect, QuietEffect DEF Grown
<1> QED
  BY <1>1, <1>2, <1>3, <1>4, <1>5 DEF Outside

\* The steps, by what they do to the reconciles.
LEMMA NextCases ==
    ASSUME [Next]_vars
    PROVE  \/ Outside
           \/ \E k \in Instances : Get(k)
           \/ \E k \in Instances : Load(k) \/ Watch(k) \/ Read(k)
           \/ \E k \in Instances : Converge(k) \/ Unmanage(k) \/ NotReady(k) \/ Fail(k)
BY DEF Next, KeyNext, Outside

LEMMA OutsideIsNext ==
    ASSUME Outside
    PROVE  [Next]_vars
BY DEF Outside, Next, KeyNext

LEMMA RunsHoldKeysStep ==
    ASSUME Types, RunsHoldKeys, [Next]_vars
    PROVE  RunsHoldKeys'
<1>0. run \in [Instances -> [pc : {"idle", "load", "watch", "read", "end"},
                             obj : Object, child : 0..MaxChild]]
  BY DEF Types, TypeOK
<1>1. CASE Outside
  <2>1. UNCHANGED run /\ declared' \subseteq declared
    BY <1>1, OutsideRuns
  <2>2. queue'.processing = queue.processing
    BY <1>1, OutsideQueue
  <2> QED
    BY <2>1, <2>2 DEF RunsHoldKeys
<1>2. ASSUME NEW k \in Instances, Get(k) PROVE RunsHoldKeys'
  <2>1. declared' = declared
    BY <1>2 DEF Get, coordVars
  <2>2. k \notin declared
    BY <1>2, GetEffect DEF RunsHoldKeys
  <2>3. CASE ParentOf[k] \in handlers
    <3>1. /\ queue'.processing = queue.processing \cup {k}
          /\ \A j \in Instances \ {k} : run'[j] = run[j]
      BY <1>0, <1>2, <2>3, GetEffect
    <3> QED
      BY <2>1, <2>2, <3>1 DEF RunsHoldKeys
  <2>4. CASE ParentOf[k] \notin handlers
    BY <1>2, <2>1, <2>4, GetEffect DEF RunsHoldKeys
  <2> QED
    BY <2>3, <2>4
<1>3. ASSUME NEW k \in Instances, Load(k) \/ Watch(k) \/ Read(k) PROVE RunsHoldKeys'
  <2>1. queue' = queue
    BY <1>3, QuietEffect
  <2>2. CASE Load(k)
    <3>1. declared' = declared
      BY <2>2 DEF Load, coordVars
    <3> QED
      BY <2>1, <2>2, <3>1, LoadEffect DEF RunsHoldKeys
  <2>3. CASE Watch(k)
    BY <2>1, <2>3, WatchEffect DEF RunsHoldKeys
  <2>4. CASE Read(k)
    <3>1. declared' = declared
      BY <2>4 DEF Read, coordVars
    <3> QED
      BY <2>1, <2>4, <3>1, ReadEffect DEF RunsHoldKeys
  <2> QED
    BY <1>3, <2>2, <2>3, <2>4
<1>4. ASSUME NEW k \in Instances, Converge(k) \/ Unmanage(k) \/ NotReady(k) \/ Fail(k)
      PROVE  RunsHoldKeys'
  <2>1. EndOf(k)
    BY <1>4, EndEffect
  <2>2. declared' = declared \ {k}
    BY <1>4 DEF Converge, Unmanage, NotReady, Fail, Finish, Commit, Abort
  <2>3. run'[k].pc = "idle" /\ \A j \in Instances \ {k} : run'[j] = run[j]
    BY <1>0, <2>1 DEF EndOf, Idle
  <2>4. queue'.processing = queue.processing \ {k}
    BY <2>1 DEF EndOf
  <2> QED
    BY <2>2, <2>3, <2>4 DEF RunsHoldKeys
<1> QED
  BY <1>1, <1>2, <1>3, <1>4, NextCases

LEMMA RetriesResetStep ==
    ASSUME Types, RunsHoldKeys, RetriesReset, [Next]_vars
    PROVE  RetriesReset'
<1>0. run \in [Instances -> [pc : {"idle", "load", "watch", "read", "end"},
                             obj : Object, child : 0..MaxChild]]
      /\ acted \in [Instances -> [obj : Object, child : 0..MaxChild, end : Ends]]
  BY DEF Types, TypeOK
<1>1. CASE Outside
  <2>1. UNCHANGED <<run, acted>>
    BY <1>1, OutsideRuns
  <2>2. queue'.requeues = queue.requeues
    BY <1>1, OutsideQueue
  <2> QED
    BY <2>1, <2>2 DEF RetriesReset
<1>2. ASSUME NEW k \in Instances, Get(k) PROVE RetriesReset'
  <2>1. acted' = acted
    BY <1>2 DEF Get
  <2>2. \A j \in Instances \ {k} : queue'.requeues[j] = queue.requeues[j] /\ run'[j] = run[j]
    BY <1>0, <1>2, GetEffect
  <2>3. queue'.requeues[k] = 0 \/ run'[k].pc = "load"
    BY <1>0, <1>2, GetEffect DEF Idle
  <2> QED
    BY <2>1, <2>2, <2>3 DEF RetriesReset
<1>3. ASSUME NEW k \in Instances, Load(k) \/ Watch(k) \/ Read(k) PROVE RetriesReset'
  <2>1. queue' = queue
    BY <1>3, QuietEffect
  <2>2. acted' = acted
    BY <1>3 DEF Load, Watch, Read
  <2>3. run'[k].pc # "idle" /\ \A j \in Instances \ {k} : run'[j] = run[j]
    BY <1>3, LoadEffect, WatchEffect, ReadEffect
  <2> QED
    BY <2>1, <2>2, <2>3 DEF RetriesReset
<1>4. ASSUME NEW k \in Instances, Converge(k) \/ Unmanage(k) \/ NotReady(k) \/ Fail(k)
      PROVE  RetriesReset'
  <2>1. EndOf(k)
    BY <1>4, EndEffect
  <2>2. \A j \in Instances \ {k} :
            run'[j] = run[j] /\ acted'[j] = acted[j] /\ queue'.requeues[j] = queue.requeues[j]
    BY <1>0, <2>1 DEF EndOf
  <2>3. acted'[k].end \in {"converged", "dropped"} => queue'.requeues[k] = 0
    BY <2>1 DEF EndOf
  <2> QED
    BY <2>2, <2>3 DEF RetriesReset
<1> QED
  BY <1>1, <1>2, <1>3, <1>4, NextCases

-----------------------------------------------------------------------------
(* Registration, and the versions of an instance.                          *)

LEMMA RegistrationStep ==
    ASSUME Types, RegistrationInOrder, [Next]_vars
    PROVE  RegistrationInOrder'
<1>0. /\ informers \subseteq Parents /\ parentWatches \subseteq Parents
      /\ handlers \subseteq Parents
      /\ registrar \in [Parents -> {"idle", "ensure", "attach", "detach", "unhandle"}]
      /\ queue \in Queue
  BY TypesSplit DEF TypesLess
<1>1. ASSUME queue'.shuttingDown = queue.shuttingDown,
             UNCHANGED <<informers, parentWatches, handlers, registrar>>
      PROVE  RegistrationInOrder'
  BY <1>1 DEF RegistrationInOrder
<1>2. ASSUME NEW k \in Instances, KeyNext(k) PROVE RegistrationInOrder'
  <2>1. UNCHANGED <<informers, parentWatches, handlers, registrar>>
    <3>1. CASE Converge(k) \/ Unmanage(k) \/ NotReady(k) \/ Fail(k)
      BY <3>1, EndEffect DEF EndOf
    <3> QED
      BY <1>2, <3>1 DEF KeyNext, TimerFires, UserWrites, ChildChanges, ParentEvent, RouteEvent,
                        Get, Load, Watch, Read, informerVars, registerVars
  <2>2. queue'.shuttingDown = queue.shuttingDown
    <3>1. CASE Converge(k) \/ Unmanage(k) \/ NotReady(k) \/ Fail(k)
      BY <3>1, EndEffect DEF EndOf
    <3>2. CASE Get(k)
      BY <3>2, GetEffect
    <3> QED
      BY <1>2, <3>1, <3>2, TimerEffect, ParentEventEffect, QuietEffect DEF KeyNext, Grown
  <2> QED
    BY <1>1, <2>1, <2>2
<1>3. ASSUME NEW p \in Parents, RegistrarNext(p) PROVE RegistrationInOrder'
  <2>1. queue'.shuttingDown = queue.shuttingDown
    BY <1>3, RegistrarEffect DEF Grown
  <2>2. CASE Register(p)
    BY <1>0, <2>1, <2>2 DEF Register, RegistrationInOrder, informerVars
  <2>3. CASE RegisterEnsured(p)
    <3>1. registrar[p] = "ensure" /\ parentWatches' = parentWatches
      BY <2>3 DEF RegisterEnsured
    <3>2. CASE /\ informers' = informers \cup {p} /\ handlers' = handlers
               /\ registrar' = [registrar EXCEPT ![p] = "attach"]
      BY <1>0, <2>1, <3>1, <3>2 DEF RegistrationInOrder
    <3>3. CASE /\ informers' = informers /\ handlers' = handlers \ {p}
               /\ registrar' = [registrar EXCEPT ![p] = "idle"]
      BY <1>0, <2>1, <3>1, <3>3 DEF RegistrationInOrder
    <3> QED
      BY <2>3, <3>2, <3>3 DEF RegisterEnsured
  <2>4. CASE RegisterAttach(p)
    BY <1>0, <2>1, <2>4 DEF RegisterAttach, RegistrationInOrder, informerVars
  <2>5. CASE Deregister(p)
    BY <1>0, <2>1, <2>5 DEF Deregister, RegistrationInOrder, informerVars
  <2>6. CASE DeregisterDetach(p)
    BY <1>0, <2>1, <2>6 DEF DeregisterDetach, RegistrationInOrder
  <2>7. CASE DeregisterUnhandle(p)
    BY <1>0, <2>1, <2>7 DEF DeregisterUnhandle, RegistrationInOrder, informerVars
  <2> QED
    BY <1>3, <2>2, <2>3, <2>4, <2>5, <2>6, <2>7 DEF RegistrarNext
<1>4. CASE RouteEnqueue
  BY <1>1, <1>4, RouteEnqueueEffect DEF RouteEnqueue, Grown, informerVars, registerVars
<1>5. CASE Shutdown
  BY <1>0, <1>5, ShutdownEffect DEF Shutdown, RegistrationInOrder, registerVars
<1>6. CASE UNCHANGED vars
  BY <1>1, <1>6 DEF vars, informerVars, registerVars
<1> QED
  BY <1>2, <1>3, <1>4, <1>5, <1>6 DEF Next

\* Every step but a child's change leaves the children alone, and only RouteEvent
\* delivers one.
LEMMA ChildrenStep ==
    ASSUME Types, ChildrenInOrder, [Next]_vars
    PROVE  ChildrenInOrder'
<1>0. child \in [Instances -> 0..MaxChild] /\ childStore \in [Instances -> 0..MaxChild]
      /\ MaxChild \in Nat
  BY Bounds DEF Types, TypeOK
<1>1. CASE UNCHANGED <<child, childStore>>
  BY <1>1 DEF ChildrenInOrder
<1>2. ASSUME NEW k \in Instances, ChildChanges(k) PROVE ChildrenInOrder'
  BY <1>0, <1>2 DEF ChildChanges, ChildrenInOrder, informerVars
<1>3. ASSUME NEW k \in Instances, RouteEvent(k) PROVE ChildrenInOrder'
  BY <1>0, <1>3 DEF RouteEvent, ChildrenInOrder, apiVars
<1>4. ASSUME NEW k \in Instances, Converge(k) \/ Unmanage(k) \/ NotReady(k) \/ Fail(k)
      PROVE  UNCHANGED <<child, childStore>>
  BY <1>4, EndEffect DEF EndOf
<1>5. ASSUME NEW k \in Instances, KeyNext(k) PROVE ChildrenInOrder'
  BY <1>1, <1>2, <1>3, <1>4, <1>5 DEF KeyNext, TimerFires, UserWrites, ParentEvent, Get, Load,
                                      Watch, Read, apiVars, informerVars
<1>6. ASSUME NEW p \in Parents, RegistrarNext(p) PROVE UNCHANGED <<child, childStore>>
  BY <1>6 DEF RegistrarNext, Register, RegisterEnsured, RegisterAttach, Deregister,
              DeregisterDetach, DeregisterUnhandle, apiVars, informerVars
<1>7. CASE RouteEnqueue \/ Shutdown \/ UNCHANGED vars
  BY <1>1, <1>7 DEF RouteEnqueue, Shutdown, vars, apiVars, informerVars
<1> QED
  BY <1>1, <1>5, <1>6, <1>7 DEF Next

LEMMA UnmanageEffect ==
    ASSUME Types, InstancesEndByReconcile, NEW k \in Instances, Unmanage(k)
    PROVE  /\ Write(k, Absent) /\ obj[k].deleting /\ enqueueFromInformer(obj[k], Absent)
           /\ k \notin declared' /\ k \notin committed'
<1>1. run[k].pc = "end" /\ run[k].obj.deleting /\ Write(k, Absent)
      /\ k \notin declared' /\ k \notin committed'
  BY DEF Unmanage
<1>2. obj[k] = run[k].obj
  BY <1>1 DEF InstancesEndByReconcile
<1>3. obj[k] # Absent
  BY <1>1, <1>2, ObjectFacts
<1>4. obj[k].gen # 0
  BY <1>3 DEF InstancesEndByReconcile
<1> QED
  BY <1>1, <1>2, <1>4, ObjectFacts DEF enqueueFromInformer

LEMMA InstancesStep ==
    ASSUME Types, RunsHoldKeys, InstancesEndByReconcile, [Next]_vars
    PROVE  InstancesEndByReconcile'
<1>0. /\ run \in [Instances -> [pc : {"idle", "load", "watch", "read", "end"},
                                obj : Object, child : 0..MaxChild]]
      /\ obj \in [Instances -> Object]
      /\ declared \subseteq Instances /\ committed \subseteq Instances
  BY DEF Types, TypeOK
<1> USE DEF Indexed
<1>1. ASSUME UNCHANGED <<obj, run>>, declared' \subseteq declared, committed' \subseteq committed
      PROVE  InstancesEndByReconcile'
  BY <1>1 DEF InstancesEndByReconcile
<1>2. ASSUME NEW k \in Instances, UserWrites(k) PROVE InstancesEndByReconcile'
  <2>1. PICK new \in Object : Write(k, new) /\ new.gen > 0 /\ ~obj[k].deleting
    BY <1>2, UserWriteEffect
  <2>2. obj'[k] = new /\ \A j \in Instances \ {k} : obj'[j] = obj[j]
    BY <2>1, WriteTypes
  <2>3. new # Absent /\ new.gen # 0
    BY <2>1 DEF Absent
  <2>4. UNCHANGED <<run, declared, committed>>
    BY <1>2 DEF UserWrites, coordVars
  <2>5. run[k].pc = "end" => ~run[k].obj.deleting
    BY <2>1 DEF InstancesEndByReconcile
  <2> QED
    BY <2>2, <2>3, <2>4, <2>5 DEF InstancesEndByReconcile
<1>3. ASSUME NEW k \in Instances, Get(k) PROVE InstancesEndByReconcile'
  <2>1. UNCHANGED <<obj, declared, committed>>
    BY <1>3 DEF Get, apiVars, coordVars
  <2>2. run'[k].pc \in {"idle", "load"} /\ \A j \in Instances \ {k} : run'[j] = run[j]
    BY <1>0, <1>3, GetEffect DEF Idle, RunsHoldKeys
  <2> QED
    BY <2>1, <2>2 DEF InstancesEndByReconcile
<1>4. ASSUME NEW k \in Instances, Load(k) \/ Watch(k) \/ Read(k) PROVE InstancesEndByReconcile'
  <2>1. UNCHANGED <<obj, committed>>
    BY <1>4 DEF Load, Watch, Read, apiVars, coordVars
  <2>2. CASE Load(k)
    <3>1. declared' = declared
      BY <2>2 DEF Load, coordVars
    <3> QED
      BY <2>1, <2>2, <3>1, LoadEffect DEF InstancesEndByReconcile
  <2>3. CASE Watch(k)
    BY <2>1, <2>3, WatchEffect DEF InstancesEndByReconcile
  <2>4. CASE Read(k)
    <3>1. declared' = declared
      BY <2>4 DEF Read, coordVars
    <3> QED
      BY <2>1, <2>4, <3>1, ReadEffect DEF InstancesEndByReconcile
  <2> QED
    BY <1>4, <2>2, <2>3, <2>4
<1>5. ASSUME NEW k \in Instances, Converge(k) \/ Unmanage(k) \/ NotReady(k) \/ Fail(k)
      PROVE  InstancesEndByReconcile'
  <2>1. run'[k].pc = "idle" /\ \A j \in Instances \ {k} : run'[j] = run[j]
    BY <1>0, <1>5, EndEffect DEF EndOf, Idle
  <2>2. declared' = declared \ {k} /\ committed' \subseteq committed \cup ({k} \cap declared)
    BY <1>5 DEF Converge, Unmanage, NotReady, Fail, Finish, Commit, Abort
  <2>3. CASE Unmanage(k)
    <3>1. obj'[k] = Absent /\ \A j \in Instances \ {k} : obj'[j] = obj[j]
      BY <2>3, UnmanageEffect, WriteTypes, ObjectFacts
    <3>2. k \notin declared' /\ k \notin committed'
      BY <2>3, UnmanageEffect
    <3> QED
      BY <2>1, <2>2, <3>1, <3>2 DEF InstancesEndByReconcile
  <2>4. CASE Converge(k) \/ NotReady(k) \/ Fail(k)
    <3>1. obj' = obj
      BY <2>4 DEF Converge, NotReady, Fail
    <3> QED
      BY <2>1, <2>2, <3>1 DEF InstancesEndByReconcile
  <2> QED
    BY <1>5, <2>3, <2>4
<1>6. CASE Outside
  <2>1. (\E k \in Instances : UserWrites(k)) \/ obj' = obj
    BY <1>6 DEF Outside, TimerFires, ChildChanges, ParentEvent, RouteEvent, RegistrarNext, Register,
                RegisterEnsured, RegisterAttach, Deregister, DeregisterDetach, DeregisterUnhandle,
                RouteEnqueue, Shutdown, vars, apiVars
  <2> QED
    BY <1>1, <1>2, <1>6, <2>1, OutsideRuns
<1> QED
  BY <1>3, <1>4, <1>5, <1>6, NextCases

LEMMA AppendNotEmpty ==
    ASSUME NEW S, NEW s \in Seq(S), NEW x \in S
    PROVE  Append(s, x) # <<>>
<1>1. Len(Append(s, x)) = Len(s) + 1 /\ Len(s) \in Nat
  OBVIOUS
<1> QED
  BY <1>1

LEMMA InOrderAppend ==
    ASSUME NEW s, NEW o, NEW new \in Object, NEW e \in Seq(Object), InOrder(s, o, e),
           enqueueFromInformer(o, new)
    PROVE  InOrder(s, new, Append(e, new))
<1> DEFINE f == Append(e, new)
<1>1. /\ f \in Seq(Object) /\ Len(f) = Len(e) + 1 /\ f # <<>> /\ f[Len(f)] = new
      /\ \A i \in 1..Len(e) : f[i] = e[i]
  OBVIOUS
<1>2. Len(e) \in Nat /\ (e = <<>> <=> Len(e) = 0)
  OBVIOUS
<1> HIDE DEF f
<1>3. CASE e = <<>>
  BY <1>1, <1>2, <1>3 DEF InOrder
<1>4. CASE e # <<>>
  <2>1. f[1] = e[1] /\ f[Len(e)] = o /\ Len(e) > 0
    BY <1>1, <1>2, <1>4 DEF InOrder
  <2>2. ASSUME NEW i \in 1..Len(f), i < Len(f) PROVE enqueueFromInformer(f[i], f[i + 1])
    <3>1. CASE i = Len(e)
      BY <1>1, <2>1, <3>1
    <3>2. CASE i # Len(e)
      <4>1. i \in 1..Len(e) /\ i + 1 \in 1..Len(e) /\ i < Len(e)
        BY <1>1, <1>2, <2>2, <3>2
      <4>2. f[i] = e[i] /\ f[i + 1] = e[i + 1]
        BY <1>1, <4>1
      <4> QED
        BY <4>1, <4>2 DEF InOrder
    <3> QED
      BY <3>1, <3>2
  <2> QED
    BY <1>1, <1>4, <2>1, <2>2 DEF InOrder
<1> QED
  BY <1>3, <1>4 DEF f

LEMMA InOrderTail ==
    ASSUME NEW s, NEW o, NEW e \in Seq(Object), e # <<>>, InOrder(s, o, e)
    PROVE  /\ InOrder(Head(e), o, Tail(e)) /\ enqueueFromInformer(s, Head(e))
           /\ Tail(e) = <<>> => Head(e) = o
           /\ \A i \in 1..Len(Tail(e)) : i + 1 \in 1..Len(e) /\ Tail(e)[i] = e[i + 1]
<1> DEFINE t == Tail(e)
<1>1. /\ t \in Seq(Object) /\ Len(t) = Len(e) - 1 /\ Head(e) = e[1] /\ Len(e) \in Nat \ {0}
      /\ \A i \in 1..Len(t) : t[i] = e[i + 1]
  OBVIOUS
<1> HIDE DEF t
<1>2. t = <<>> <=> Len(t) = 0
  BY <1>1
<1>3. enqueueFromInformer(s, Head(e))
  BY <1>1 DEF InOrder
<1>4. ASSUME t = <<>> PROVE Head(e) = o
  <2>1. Len(e) = 1
    BY <1>1, <1>2, <1>4
  <2> QED
    BY <1>1, <2>1 DEF InOrder
<1>5. t # <<>> => t[Len(t)] = o /\ enqueueFromInformer(Head(e), t[1])
  <2> SUFFICES ASSUME t # <<>> PROVE t[Len(t)] = o /\ enqueueFromInformer(Head(e), t[1])
    OBVIOUS
  <2>1. Len(t) \in 1..Len(t) /\ 1 \in 1..Len(t) /\ Len(t) + 1 = Len(e)
    BY <1>1, <1>2
  <2>2. t[Len(t)] = e[Len(e)] /\ t[1] = e[2] /\ 1 \in 1..Len(e) /\ 1 < Len(e)
    BY <1>1, <2>1
  <2>3. enqueueFromInformer(e[1], e[1 + 1]) /\ 1 + 1 = 2
    BY <2>2 DEF InOrder
  <2> QED
    BY <1>1, <2>2, <2>3 DEF InOrder
<1>6. ASSUME NEW i \in 1..Len(t), i < Len(t) PROVE enqueueFromInformer(t[i], t[i + 1])
  <2>1. i + 1 \in 1..Len(t) /\ i + 1 \in 1..Len(e) /\ i + 1 < Len(e)
    BY <1>1, <1>6
  <2>2. t[i] = e[i + 1] /\ t[i + 1] = e[(i + 1) + 1]
    BY <1>1, <2>1
  <2> QED
    BY <2>1, <2>2 DEF InOrder
<1>7. \A i \in 1..Len(t) : i + 1 \in 1..Len(e) /\ t[i] = e[i + 1]
  BY <1>1
<1> QED
  BY <1>3, <1>4, <1>5, <1>6, <1>7 DEF InOrder, t

LEMMA DeliveryStep ==
    ASSUME Types, InstancesEndByReconcile, DeliveryInOrder, [Next]_vars
    PROVE  DeliveryInOrder'
<1>0. /\ obj \in [Instances -> Object] /\ store \in [Instances -> Object]
      /\ events \in [Instances -> Seq(Object)]
  BY DEF Types, TypeOK
<1>1. CASE UNCHANGED <<obj, store, events, informers>>
  BY <1>1 DEF DeliveryInOrder
<1>2. ASSUME NEW k \in Instances, NEW new \in Object, Write(k, new),
             enqueueFromInformer(obj[k], new), UNCHANGED <<store, informers>>
      PROVE  DeliveryInOrder'
  <2>1. /\ obj'[k] = new /\ \A j \in Instances \ {k} : obj'[j] = obj[j] /\ events'[j] = events[j]
        /\ events'[k] = IF ParentOf[k] \in informers THEN Append(events[k], new) ELSE events[k]
    BY <1>2, WriteTypes
  <2>2. ASSUME ParentOf[k] \in informers PROVE InOrder(store[k], new, Append(events[k], new))
    <3>1. InOrder(store[k], obj[k], events[k]) /\ events[k] \in Seq(Object)
      BY <1>0, <2>2 DEF DeliveryInOrder
    <3> QED
      BY <1>2, <3>1, InOrderAppend
  <2> QED
    BY <1>2, <2>1, <2>2 DEF DeliveryInOrder
<1>3. ASSUME NEW k \in Instances, ParentEvent(k) PROVE DeliveryInOrder'
  <2>1. /\ ParentOf[k] \in informers /\ events[k] # <<>> /\ UNCHANGED <<obj, informers>>
        /\ store' = [store EXCEPT ![k] = Head(events[k])]
        /\ events' = [events EXCEPT ![k] = Tail(@)]
    BY <1>3 DEF ParentEvent, apiVars
  <2>2. InOrder(Head(events[k]), obj[k], Tail(events[k]))
    BY <1>0, <2>1, InOrderTail DEF DeliveryInOrder
  <2>3. /\ store'[k] = Head(events[k]) /\ events'[k] = Tail(events[k])
        /\ \A j \in Instances \ {k} : store'[j] = store[j] /\ events'[j] = events[j]
    BY <1>0, <2>1
  <2> QED
    BY <2>1, <2>2, <2>3 DEF DeliveryInOrder
<1>4. ASSUME NEW p \in Parents, RegisterEnsured(p) PROVE DeliveryInOrder'
  <2>1. CASE UNCHANGED <<store, events, informers>>
    BY <1>1, <1>4, <2>1 DEF RegisterEnsured, apiVars
  <2>2. CASE /\ informers' = informers \cup {p}
             /\ store' = [k \in Instances |-> IF k \in Of(p) THEN obj[k] ELSE store[k]]
             /\ events' = [k \in Instances |-> IF k \in Of(p) THEN <<>> ELSE events[k]]
    <3>1. obj' = obj
      BY <1>4 DEF RegisterEnsured, apiVars
    <3>2. ASSUME NEW k \in Instances, ParentOf[k] \in informers'
          PROVE  InOrder(store'[k], obj'[k], events'[k])
      <4>1. CASE k \in Of(p)
        <5>1. store'[k] = obj'[k] /\ events'[k] = <<>>
          BY <2>2, <3>1, <4>1
        <5> QED
          BY <5>1 DEF InOrder
      <4>2. CASE k \notin Of(p)
        <5>1. store'[k] = store[k] /\ events'[k] = events[k] /\ ParentOf[k] \in informers
          BY <2>2, <3>2, <4>2 DEF Of
        <5> QED
          BY <3>1, <5>1 DEF DeliveryInOrder
      <4> QED
        BY <4>1, <4>2
    <3> QED
      BY <3>2 DEF DeliveryInOrder
  <2> QED
    BY <1>4, <2>1, <2>2 DEF RegisterEnsured
<1>5. ASSUME NEW p \in Parents, DeregisterDetach(p) PROVE DeliveryInOrder'
  <2>1. /\ obj' = obj /\ informers' = informers \ {p}
        /\ \A k \in Instances \ Of(p) : store'[k] = store[k] /\ events'[k] = events[k]
    BY <1>5 DEF DeregisterDetach, apiVars
  <2> QED
    BY <2>1 DEF DeliveryInOrder, Of
<1>6. CASE Shutdown
  BY <1>6 DEF Shutdown, DeliveryInOrder
<1>7. ASSUME NEW k \in Instances, KeyNext(k) PROVE DeliveryInOrder'
  <2>1. CASE UserWrites(k)
    <3>1. UNCHANGED <<store, informers>>
      BY <2>1 DEF UserWrites
    <3> QED
      BY <1>2, <2>1, <3>1, UserWriteEffect
  <2>2. CASE Unmanage(k)
    <3>1. UNCHANGED <<store, informers>>
      BY <2>2 DEF Unmanage
    <3> QED
      BY <1>2, <2>2, <3>1, UnmanageEffect, ObjectFacts
  <2>3. CASE Converge(k) \/ NotReady(k) \/ Fail(k)
    <3>1. UNCHANGED <<store, informers>>
      BY <2>3, EndEffect DEF EndOf
    <3>2. UNCHANGED <<obj, events>>
      BY <2>3 DEF Converge, NotReady, Fail
    <3> QED
      BY <1>1, <3>1, <3>2
  <2> QED
    BY <1>1, <1>3, <1>7, <2>1, <2>2, <2>3
       DEF KeyNext, TimerFires, ChildChanges, RouteEvent, Get, Load, Watch, Read, apiVars, informerVars
<1>8. CASE UNCHANGED vars \/ RouteEnqueue
  BY <1>1, <1>8 DEF vars, RouteEnqueue, apiVars, informerVars
<1>9. ASSUME NEW p \in Parents, RegistrarNext(p) PROVE DeliveryInOrder'
  BY <1>1, <1>4, <1>5, <1>9 DEF RegistrarNext, Register, RegisterAttach, Deregister,
                                DeregisterUnhandle, apiVars, informerVars
<1> QED
  BY <1>6, <1>7, <1>8, <1>9 DEF Next

-----------------------------------------------------------------------------
(* No instance event is forgotten.                                         *)

\* A key whose store is stale with respect to what a reconcile read was so before,
\* or has just been enqueued.
LEMMA StaleOutside ==
    ASSUME Types, RegistrationInOrder, DeliveryInOrder, Outside,
           NEW j \in Instances, NEW o, Stale(j, o)'
    PROVE  /\ Grown /\ ~queue.shuttingDown
           /\ Stale(j, o) \/ j \in Queued(queue')
<1>0. /\ ParentOf \in [Instances -> Parents]
      /\ store \in [Instances -> Object] /\ events \in [Instances -> Seq(Object)]
      /\ registrar \in [Parents -> {"idle", "ensure", "attach", "detach", "unhandle"}]
  BY Bounds DEF Types, TypeOK
<1>1. /\ ParentOf[j] \in handlers' /\ ParentOf[j] \in parentWatches'
      /\ registrar'[ParentOf[j]] = "idle" /\ ~queue'.shuttingDown
      /\ events'[j] = <<>> /\ store'[j] \notin {o, Absent}
  BY DEF Stale, Served
<1>2. ASSUME Grown, UNCHANGED <<store, events, registrar, parentWatches, handlers>>
      PROVE  Grown /\ ~queue.shuttingDown /\ Stale(j, o)
  BY <1>1, <1>2 DEF Grown, Stale, Served
<1>3. CASE UNCHANGED vars
  BY <1>2, <1>3 DEF vars, Grown, informerVars, registerVars
<1>4. CASE Shutdown
  BY <1>1, <1>4, ShutdownEffect
<1>5. CASE RouteEnqueue
  BY <1>2, <1>5, RouteEnqueueEffect DEF RouteEnqueue, informerVars, registerVars
<1>6. ASSUME NEW k \in Instances, TimerFires(k) \/ ChildChanges(k) \/ RouteEvent(k)
      PROVE  Grown /\ ~queue.shuttingDown /\ Stale(j, o)
  <2>1. Grown
    BY <1>6, TimerEffect, QuietEffect
  <2>2. UNCHANGED <<store, events, registrar, parentWatches, handlers>>
    BY <1>6 DEF TimerFires, ChildChanges, RouteEvent, informerVars, registerVars
  <2> QED
    BY <1>2, <2>1, <2>2
<1>7. ASSUME NEW k \in Instances, UserWrites(k)
      PROVE  Grown /\ ~queue.shuttingDown /\ Stale(j, o)
  <2>1. Grown /\ UNCHANGED <<store, registrar, parentWatches, handlers>>
    BY <1>7, QuietEffect DEF UserWrites, registerVars
  <2>2. PICK new \in Object : Write(k, new)
    BY <1>7, UserWriteEffect
  <2>3. events[j] = <<>>
    <3>1. events'[k] = IF ParentOf[k] \in informers THEN Append(events[k], new) ELSE events[k]
      BY <2>2, WriteTypes
    <3>2. Append(events[k], new) # <<>>
      <4>1. events[k] \in Seq(Object)
        BY <1>0
      <4> QED
        BY <4>1, AppendNotEmpty
    <3>3. \A i \in Instances \ {k} : events'[i] = events[i]
      BY <2>2, WriteTypes
    <3> QED
      BY <1>1, <3>1, <3>2, <3>3
  <2> QED
    BY <1>1, <2>1, <2>3 DEF Grown, Stale, Served
<1>8. ASSUME NEW k \in Instances, ParentEvent(k)
      PROVE  Grown /\ ~queue.shuttingDown /\ (Stale(j, o) \/ j \in Queued(queue'))
  <2>1. Grown
    BY <1>8, ParentEventEffect
  <2>2. /\ ParentOf[k] \in informers /\ events[k] # <<>>
        /\ UNCHANGED <<registrar, parentWatches, handlers>>
        /\ \A i \in Instances \ {k} : store'[i] = store[i] /\ events'[i] = events[i]
    BY <1>0, <1>8 DEF ParentEvent, registerVars
  <2>3. CASE j = k
    <3>1. enqueueFromInformer(store[k], Head(events[k]))
      BY <1>0, <2>2, InOrderTail DEF DeliveryInOrder
    <3>2. ParentOf[k] \in parentWatches /\ ~queue.shuttingDown
      BY <1>1, <2>1, <2>2, <2>3 DEF Grown
    <3> QED
      BY <1>8, <2>1, <2>3, <3>1, <3>2, ParentEventEffect DEF Queued
  <2>4. CASE j # k
    BY <1>1, <2>1, <2>2, <2>4 DEF Grown, Stale, Served
  <2> QED
    BY <2>3, <2>4
<1>9. ASSUME NEW p \in Parents, RegistrarNext(p)
      PROVE  Grown /\ ~queue.shuttingDown /\ (Stale(j, o) \/ j \in Queued(queue'))
  <2>1. Grown /\ ~queue.shuttingDown
    BY <1>1, <1>9, RegistrarEffect DEF Grown
  <2>2. CASE ParentOf[j] = p
    <3>1. CASE Register(p)
      <4>1. UNCHANGED <<store, events, parentWatches>> /\ registrar[p] = "idle"
        BY <3>1 DEF Register, informerVars
      <4>2. p \in handlers
        BY <1>1, <2>2, <4>1 DEF RegistrationInOrder
      <4> QED
        BY <1>1, <2>1, <2>2, <4>1, <4>2 DEF Stale, Served
    <3>2. CASE RegisterEnsured(p)
      <4>1. p \notin parentWatches'
        BY <3>2 DEF RegisterEnsured, RegistrationInOrder
      <4> QED
        BY <1>1, <2>2, <4>1
    <3>3. CASE RegisterAttach(p)
      <4>1. store' = store
        BY <3>3 DEF RegisterAttach, informerVars
      <4>2. j \in Existing(p)
        BY <1>1, <2>2, <4>1 DEF Existing, Of
      <4> QED
        BY <1>9, <2>1, <3>3, <4>2, RegistrarEffect DEF Queued
    <3>4. CASE Deregister(p) \/ DeregisterDetach(p)
      <4>1. registrar'[p] \in {"detach", "unhandle"}
        BY <1>0, <3>4 DEF Deregister, DeregisterDetach
      <4> QED
        BY <1>1, <2>2, <4>1
    <3>5. CASE DeregisterUnhandle(p)
      <4>1. p \notin parentWatches'
        BY <3>5 DEF DeregisterUnhandle, RegistrationInOrder
      <4> QED
        BY <1>1, <2>2, <4>1
    <3> QED
      BY <1>9, <3>1, <3>2, <3>3, <3>4, <3>5 DEF RegistrarNext
  <2>3. CASE ParentOf[j] # p
    <3>1. /\ store'[j] = store[j] /\ events'[j] = events[j]
          /\ ParentOf[j] \in parentWatches /\ ParentOf[j] \in handlers
          /\ registrar[ParentOf[j]] = "idle"
      BY <1>0, <1>1, <1>9, <2>3
         DEF RegistrarNext, Register, RegisterEnsured, RegisterAttach, Deregister,
             DeregisterDetach, DeregisterUnhandle, informerVars, Of
    <3> QED
      BY <1>1, <2>1, <3>1 DEF Stale, Served
  <2> QED
    BY <2>2, <2>3
<1> QED
  BY <1>3, <1>4, <1>5, <1>6, <1>7, <1>8, <1>9 DEF Outside

\* The key that ends its reconcile: what it misses was missed before.
LEMMA StaleEnd ==
    ASSUME Types, NEW k \in Instances, Converge(k) \/ Unmanage(k) \/ NotReady(k) \/ Fail(k),
           NEW j \in Instances, NEW o, Stale(j, o)'
    PROVE  Stale(j, o) /\ ~queue.shuttingDown
<1>1. EndOf(k)
  BY EndEffect
<1>2. events'[j] = <<>> => events[j] = <<>>
  <2>1. CASE Unmanage(k)
    <3>1. Write(k, Absent) /\ Absent \in Object /\ events[k] \in Seq(Object)
      BY <2>1, ObjectFacts DEF Unmanage, Types
    <3>2. /\ \A i \in Instances \ {k} : events'[i] = events[i]
          /\ events'[k] = IF ParentOf[k] \in informers THEN Append(events[k], Absent) ELSE events[k]
      BY <3>1, WriteTypes
    <3>3. Append(events[k], Absent) # <<>>
      BY <3>1, AppendNotEmpty
    <3> QED
      BY <3>2, <3>3
  <2>2. CASE Converge(k) \/ NotReady(k) \/ Fail(k)
    BY <2>2 DEF Converge, NotReady, Fail
  <2> QED
    BY <2>1, <2>2
<1> QED
  BY <1>1, <1>2 DEF EndOf, Stale, Served

\* The steps of a reconcile before its end leave the events and the stores alone.
LEMMA StaleInside ==
    ASSUME Types, NEW k \in Instances, Get(k) \/ Load(k) \/ Watch(k) \/ Read(k),
           NEW j \in Instances, NEW o, Stale(j, o)'
    PROVE  Stale(j, o) /\ ~queue.shuttingDown
<1>1. UNCHANGED <<store, events, registrar, parentWatches, handlers>>
  BY DEF Get, Load, Watch, Read, informerVars, registerVars
<1>2. queue'.shuttingDown = queue.shuttingDown
  BY GetEffect, QuietEffect
<1> QED
  BY <1>1, <1>2 DEF Stale, Served

LEMMA RunsSeeEventsStep ==
    ASSUME Types, RunsHoldKeys, RegistrationInOrder, DeliveryInOrder, RunsSeeEvents, [Next]_vars
    PROVE  RunsSeeEvents'
<1>0. run \in [Instances -> [pc : {"idle", "load", "watch", "read", "end"},
                             obj : Object, child : 0..MaxChild]]
      /\ ParentOf \in [Instances -> Parents]
  BY Bounds DEF Types, TypeOK
<1> SUFFICES ASSUME NEW j \in Instances, run'[j].pc \in {"watch", "read", "end"},
                    Stale(j, run[j].obj)'
             PROVE  j \in Queued(queue')
  BY DEF RunsSeeEvents, Queued
<1>s. ASSUME Stale(j, run[j].obj), run[j].pc \in {"watch", "read", "end"}
      PROVE  j \in Queued(queue)
  BY <1>s DEF RunsSeeEvents, Queued
<1>1. CASE Outside
  <2>1. run' = run
    BY <1>1, OutsideRuns
  <2>2. Grown /\ ~queue.shuttingDown /\ (Stale(j, run[j].obj) \/ j \in Queued(queue'))
    <3> DEFINE o == run'[j].obj
    <3>1. Served(j)' /\ events'[j] = <<>> /\ store'[j] \notin {o, Absent}
      BY DEF Stale
    <3> QED
      BY <1>1, <2>1, <3>1, StaleOutside DEF Stale
  <2> QED
    BY <1>s, <2>1, <2>2 DEF Grown
<1>2. ASSUME NEW k \in Instances, Get(k) PROVE j \in Queued(queue')
  <2>1. j # k
    BY <1>0, <1>2, GetEffect DEF Idle, RunsHoldKeys
  <2>2. run'[j] = run[j]
    BY <1>0, <1>2, <2>1, GetEffect
  <2>3. Stale(j, run[j].obj)
    BY <1>2, <2>2, StaleInside DEF Stale
  <2> QED
    BY <1>s, <1>2, <2>1, <2>2, <2>3, GetEffect DEF Queued
<1>3. ASSUME NEW k \in Instances, Load(k) \/ Watch(k) \/ Read(k) PROVE j \in Queued(queue')
  <2>1. queue' = queue
    BY <1>3, QuietEffect
  <2>2. CASE Load(k) /\ j = k
    <3>1. run'[k].obj = obj[k] /\ UNCHANGED <<store, events, informers, parentWatches, obj>>
      BY <2>2, LoadEffect DEF Load, informerVars, registerVars, apiVars
    <3>2. ParentOf[k] \in informers
      BY <1>0, <2>1, <2>2, <3>1 DEF Stale, Served, RegistrationInOrder
    <3>3. store[k] = obj[k]
      BY <2>2, <3>1, <3>2 DEF Stale, DeliveryInOrder, InOrder
    <3> QED
      BY <2>2, <3>1, <3>3 DEF Stale
  <2>3. CASE ~(Load(k) /\ j = k)
    <3>1. run'[j].obj = run[j].obj /\ run[j].pc \in {"watch", "read", "end"}
      BY <1>3, <2>3, LoadEffect, WatchEffect, ReadEffect
    <3>2. Stale(j, run[j].obj)
      BY <1>3, <3>1, StaleInside DEF Stale
    <3> QED
      BY <1>s, <2>1, <3>1, <3>2
  <2> QED
    BY <2>2, <2>3
<1>4. ASSUME NEW k \in Instances, Converge(k) \/ Unmanage(k) \/ NotReady(k) \/ Fail(k)
      PROVE  j \in Queued(queue')
  <2>1. EndOf(k)
    BY <1>4, EndEffect
  <2>2. j # k /\ run'[j] = run[j]
    BY <1>0, <2>1 DEF EndOf, Idle
  <2>3. Stale(j, run[j].obj)
    BY <1>4, <2>2, StaleEnd DEF Stale
  <2> QED
    BY <1>s, <2>1, <2>2, <2>3 DEF EndOf, Queued
<1> QED
  BY <1>1, <1>2, <1>3, <1>4, NextCases

LEMMA NothingForgottenStep ==
    ASSUME Types, RegistrationInOrder, DeliveryInOrder, RunsSeeEvents, NothingForgotten, [Next]_vars
    PROVE  NothingForgotten'
<1>0. /\ acted \in [Instances -> [obj : Object, child : 0..MaxChild, end : Ends]]
      /\ queue \in Queue
  BY DEF Types, TypeOK
<1> SUFFICES ASSUME NEW j \in Instances, Stale(j, acted[j].obj)', acted'[j].end # "dropped"
             PROVE  Live(queue', j)
  BY DEF NothingForgotten, Stale, UpToDate
<1>s. ASSUME Stale(j, acted[j].obj), acted[j].end # "dropped"
      PROVE  j \in Queued(queue) \cup queue.processing
  BY <1>s DEF NothingForgotten, Stale, UpToDate, Live, Queued
<1>l. ASSUME j \in Queued(queue') \cup queue'.processing PROVE Live(queue', j)
  BY <1>l DEF Live, Queued
<1>1. CASE Outside
  <2>1. acted' = acted
    BY <1>1, OutsideRuns
  <2>2. Grown /\ ~queue.shuttingDown /\ (Stale(j, acted[j].obj) \/ j \in Queued(queue'))
    <3> DEFINE o == acted'[j].obj
    <3>1. Served(j)' /\ events'[j] = <<>> /\ store'[j] \notin {o, Absent}
      BY DEF Stale
    <3> QED
      BY <1>1, <2>1, <3>1, StaleOutside DEF Stale
  <2> QED
    BY <1>s, <1>l, <2>1, <2>2 DEF Grown
<1>2. ASSUME NEW k \in Instances, Get(k) PROVE Live(queue', j)
  <2>1. acted' = acted
    BY <1>2 DEF Get
  <2>2. Stale(j, acted[j].obj)
    BY <1>2, <2>1, StaleInside DEF Stale
  <2>3. ParentOf[j] \in handlers
    BY <2>2 DEF Stale, Served
  <2> QED
    BY <1>s, <1>l, <1>2, <2>1, <2>2, <2>3, GetEffect DEF Queued
<1>3. ASSUME NEW k \in Instances, Load(k) \/ Watch(k) \/ Read(k) PROVE Live(queue', j)
  <2>1. queue' = queue
    BY <1>3, QuietEffect
  <2>2. acted' = acted
    BY <1>3 DEF Load, Watch, Read
  <2>3. Stale(j, acted[j].obj)
    BY <1>3, <2>2, StaleInside DEF Stale
  <2> QED
    BY <1>s, <1>l, <2>1, <2>2, <2>3
<1>4. ASSUME NEW k \in Instances, Converge(k) \/ Unmanage(k) \/ NotReady(k) \/ Fail(k)
      PROVE  Live(queue', j)
  <2>1. EndOf(k)
    BY <1>4, EndEffect
  <2>2. CASE j = k
    <3>1. acted'[k].obj = run[k].obj
      BY <2>1 DEF EndOf
    <3>2. Stale(k, run[k].obj) /\ ~queue.shuttingDown
      BY <1>4, <2>2, <3>1, StaleEnd DEF Stale
    <3>3. k \in Queued(queue') \/ run[k].pc = "end"
      BY <2>1, <2>2, <3>2 DEF EndOf, Queued
    <3>4. CASE run[k].pc = "end"
      <4>1. k \in Queued(queue)
        BY <3>2, <3>4 DEF RunsSeeEvents, Queued
      <4> QED
        BY <1>l, <2>1, <2>2, <4>1 DEF EndOf, Queued
    <3> QED
      BY <1>l, <2>2, <3>3, <3>4
  <2>3. CASE j # k
    <3>1. acted'[j] = acted[j]
      BY <1>0, <2>1, <2>3 DEF EndOf
    <3>2. Stale(j, acted[j].obj)
      BY <1>4, <3>1, StaleEnd DEF Stale
    <3> QED
      BY <1>s, <1>l, <2>1, <2>3, <3>1, <3>2 DEF EndOf, Queued
  <2> QED
    BY <2>2, <2>3
<1> QED
  BY <1>1, <1>2, <1>3, <1>4, NextCases

-----------------------------------------------------------------------------
(* No child event is forgotten.                                            *)

\* A key whose child is stale with respect to what a reconcile read was so before,
\* or has just been matched; a matched key is enqueued.
LEMMA ChildStaleOutside ==
    ASSUME Types, ChildrenInOrder, Outside, NEW j \in Indexed, NEW c,
           ChildStale(j, c)', ~queue'.shuttingDown
    PROVE  /\ Grown /\ ~queue.shuttingDown
           /\ ChildStale(j, c) \/ j \in routing'
           /\ j \in routing => j \in routing' \cup Queued(queue')
<1>0. /\ child \in [Instances -> 0..MaxChild] /\ childStore \in [Instances -> 0..MaxChild]
      /\ MaxChild \in Nat /\ j \in Instances
  BY Bounds DEF Types, TypeOK, Indexed
<1>1. childStore'[j] = child'[j] /\ c # child'[j]
  BY DEF ChildStale
<1>2. ASSUME Grown, UNCHANGED <<child, childStore, routing>>
      PROVE  /\ Grown /\ ~queue.shuttingDown
             /\ ChildStale(j, c) /\ (j \in routing => j \in routing')
  BY <1>1, <1>2 DEF Grown, ChildStale
<1>3. CASE UNCHANGED vars
  BY <1>2, <1>3 DEF vars, Grown, apiVars, informerVars, coordVars
<1>4. CASE Shutdown
  BY <1>4, ShutdownEffect
<1>5. CASE RouteEnqueue
  <2>1. UNCHANGED <<child, childStore>>
    BY <1>5 DEF RouteEnqueue, apiVars, informerVars
  <2>2. Grown /\ ~queue.shuttingDown /\ routing \subseteq queue'.dirty
    BY <1>5, RouteEnqueueEffect DEF Grown
  <2> QED
    BY <1>1, <2>1, <2>2 DEF ChildStale, Queued
<1>6. ASSUME NEW k \in Instances, TimerFires(k) \/ UserWrites(k) \/ ParentEvent(k)
      PROVE  Grown /\ UNCHANGED <<child, childStore, routing>>
  <2>1. Grown
    BY <1>6, TimerEffect, QuietEffect, ParentEventEffect
  <2> QED
    BY <1>6, <2>1 DEF TimerFires, UserWrites, ParentEvent, apiVars, informerVars, coordVars
<1>7. ASSUME NEW k \in Instances, ChildChanges(k)
      PROVE  Grown /\ ~queue.shuttingDown /\ ChildStale(j, c) /\ UNCHANGED routing
  <2>1. Grown /\ UNCHANGED <<childStore, routing>> /\ child' = [child EXCEPT ![k] = @ + 1]
    BY <1>7, QuietEffect DEF ChildChanges, informerVars, coordVars
  <2>2. j # k
    BY <1>0, <1>1, <2>1 DEF ChildrenInOrder
  <2> QED
    BY <1>0, <1>1, <2>1, <2>2 DEF Grown, ChildStale
<1>8. ASSUME NEW k \in Instances, RouteEvent(k)
      PROVE  /\ Grown /\ ~queue.shuttingDown /\ routing = {}
             /\ ChildStale(j, c) \/ j \in routing'
  <2>1. /\ Grown /\ routing = {} /\ routing' = {k} \cap Indexed /\ child' = child
        /\ childStore' = [childStore EXCEPT ![k] = child[k]]
    BY <1>8, QuietEffect DEF RouteEvent, apiVars
  <2>2. CASE j = k
    BY <2>1, <2>2 DEF Grown
  <2>3. CASE j # k
    BY <1>0, <1>1, <2>1, <2>3 DEF Grown, ChildStale
  <2> QED
    BY <2>2, <2>3
<1>9. ASSUME NEW p \in Parents, RegistrarNext(p)
      PROVE  Grown /\ UNCHANGED <<child, childStore, routing>>
  <2>1. Grown
    BY <1>9, RegistrarEffect
  <2> QED
    BY <1>9, <2>1
       DEF RegistrarNext, Register, RegisterEnsured, RegisterAttach, Deregister, DeregisterDetach,
           DeregisterUnhandle, apiVars, informerVars, coordVars
<1> QED
  BY <1>2, <1>3, <1>4, <1>5, <1>6, <1>7, <1>8, <1>9 DEF Outside

LEMMA RunsSeeChildrenStep ==
    ASSUME Types, RunsHoldKeys, ChildrenInOrder, RunsSeeChildren, [Next]_vars
    PROVE  RunsSeeChildren'
<1>0. /\ run \in [Instances -> [pc : {"idle", "load", "watch", "read", "end"},
                                obj : Object, child : 0..MaxChild]]
      /\ declared \subseteq Instances
  BY DEF Types, TypeOK
<1> SUFFICES ASSUME NEW j, j \in declared', run'[j].pc = "end", ~queue'.shuttingDown,
                    childStore'[j] = child'[j], run'[j].child # child'[j]
             PROVE  j \in Queued(queue') \cup routing'
  BY DEF RunsSeeChildren, Queued, ChildStale
<1>s. ASSUME j \in declared, run[j].pc = "end", ~queue.shuttingDown, ChildStale(j, run[j].child)
      PROVE  j \in Queued(queue) \cup routing
  BY <1>s DEF RunsSeeChildren, Queued
<1>1. CASE Outside
  <2>1. run' = run /\ j \in declared
    BY <1>1, OutsideRuns
  <2>2. /\ Grown /\ ~queue.shuttingDown
        /\ ChildStale(j, run[j].child) \/ j \in routing'
        /\ j \in routing => j \in routing' \cup Queued(queue')
    BY <1>1, <2>1, ChildStaleOutside DEF ChildStale, Indexed
  <2> QED
    BY <1>s, <2>1, <2>2 DEF Grown
<1>2. ASSUME NEW k \in Instances, Get(k) PROVE j \in Queued(queue') \cup routing'
  <2>1. UNCHANGED <<child, childStore, routing, declared>>
    BY <1>2 DEF Get, apiVars, informerVars, coordVars
  <2>2. j # k
    BY <1>2, <2>1, GetEffect DEF RunsHoldKeys
  <2>3. run'[j] = run[j] /\ ~queue.shuttingDown
    BY <1>0, <1>2, <2>1, <2>2, GetEffect
  <2> QED
    BY <1>s, <1>2, <2>1, <2>2, <2>3, GetEffect DEF Queued, ChildStale
<1>3. ASSUME NEW k \in Instances, Load(k) \/ Watch(k) \/ Read(k)
      PROVE  j \in Queued(queue') \cup routing'
  <2>1. queue' = queue
    BY <1>3, QuietEffect
  <2>2. UNCHANGED <<child, childStore, routing>>
    BY <1>3 DEF Load, Watch, Read, apiVars, informerVars, coordVars
  <2>3. declared' \subseteq declared \cup {k} /\ (Load(k) => declared' = declared)
    BY <1>3 DEF Load, Watch, Read, coordVars
  <2>4. j # k
    BY <1>3, <2>2, <2>3, LoadEffect, WatchEffect, ReadEffect DEF RunsHoldKeys
  <2>5. run'[j] = run[j]
    BY <1>0, <1>3, <2>3, <2>4, LoadEffect, WatchEffect, ReadEffect
  <2> QED
    BY <1>s, <2>1, <2>2, <2>3, <2>4, <2>5 DEF ChildStale
<1>4. ASSUME NEW k \in Instances, Converge(k) \/ Unmanage(k) \/ NotReady(k) \/ Fail(k)
      PROVE  j \in Queued(queue') \cup routing'
  <2>1. EndOf(k)
    BY <1>4, EndEffect
  <2>2. declared' = declared \ {k}
    BY <1>4 DEF Converge, Unmanage, NotReady, Fail, Finish, Commit, Abort
  <2>3. j # k /\ j \in declared /\ j \in Instances
    BY <1>0, <2>2
  <2>4. run'[j] = run[j] /\ ~queue.shuttingDown /\ UNCHANGED <<child, childStore, routing>>
    BY <1>0, <2>1, <2>3 DEF EndOf
  <2> QED
    BY <1>s, <2>1, <2>3, <2>4 DEF EndOf, Queued, ChildStale
<1> QED
  BY <1>1, <1>2, <1>3, <1>4, NextCases

\* A key that awaits its events did so before, or has just been enqueued.
LEMMA AwaitsOutside ==
    ASSUME Types, RegistrationInOrder, InstancesEndByReconcile, Outside,
           NEW j \in committed, Awaits(j)'
    PROVE  ~queue'.shuttingDown /\ (Awaits(j) \/ j \in Queued(queue'))
<1>0. /\ ParentOf \in [Instances -> Parents] /\ j \in Instances
      /\ store \in [Instances -> Object] /\ events \in [Instances -> Seq(Object)]
      /\ registrar \in [Parents -> {"idle", "ensure", "attach", "detach", "unhandle"}]
  BY Bounds DEF Types, TypeOK
<1> DEFINE q == ParentOf[j]
<1>1. /\ Served(j) <=> /\ q \in handlers /\ q \in parentWatches /\ registrar[q] = "idle"
                       /\ ~queue.shuttingDown
      /\ Served(j)' <=> /\ q \in handlers' /\ q \in parentWatches' /\ registrar'[q] = "idle"
                        /\ ~queue'.shuttingDown
  BY DEF Served
<1>2. ~queue'.shuttingDown
  <2>1. RegistrationInOrder'
    BY RegistrationStep, OutsideIsNext
  <2> QED
    BY <1>0, <1>1, <2>1 DEF Awaits, RegistrationInOrder
<1>3. ASSUME UNCHANGED <<registrar, parentWatches, handlers>>,
             queue'.shuttingDown = queue.shuttingDown, Missed(j)' => Missed(j)
      PROVE  Awaits(j)
  BY <1>1, <1>3 DEF Awaits
<1>4. CASE UNCHANGED vars
  BY <1>2, <1>3, <1>4 DEF vars, informerVars, registerVars, Missed
<1>5. CASE Shutdown
  BY <1>2, <1>5, ShutdownEffect
<1>6. CASE RouteEnqueue
  BY <1>2, <1>3, <1>6, RouteEnqueueEffect DEF RouteEnqueue, informerVars, registerVars, Missed, Grown
<1>7. ASSUME NEW k \in Instances, TimerFires(k) \/ ChildChanges(k) \/ RouteEvent(k)
      PROVE  Awaits(j)
  <2>1. queue'.shuttingDown = queue.shuttingDown
    BY <1>7, TimerEffect, QuietEffect DEF Grown
  <2>2. UNCHANGED <<store, events, registrar, parentWatches, handlers>>
    BY <1>7 DEF TimerFires, ChildChanges, RouteEvent, informerVars, registerVars
  <2> QED
    BY <1>3, <2>1, <2>2 DEF Missed
<1>8. ASSUME NEW k \in Instances, UserWrites(k) PROVE Awaits(j)
  <2>1. /\ queue' = queue /\ UNCHANGED <<store, registrar, parentWatches, handlers>>
    BY <1>8, QuietEffect DEF UserWrites, registerVars
  <2>2. PICK new \in Object : Write(k, new) /\ new.gen > 0
    BY <1>8, UserWriteEffect
  <2>3. new # Absent
    BY <2>2 DEF Absent
  <2>4. Missed(j)' => Missed(j)
    <3>1. CASE events'[j] = events[j]
      BY <2>1, <3>1 DEF Missed
    <3>2. CASE events'[j] = Append(events[j], new)
      <4>1. events[j] \in Seq(Object)
        BY <1>0
      <4>2. \A i \in 1..Len(events'[j]) : events'[j][i] = new
                                          \/ (i \in 1..Len(events[j]) /\ events'[j][i] = events[j][i])
        BY <3>2, <4>1
      <4> QED
        BY <2>1, <2>3, <4>2 DEF Missed
    <3> QED
      BY <1>0, <2>2, <3>1, <3>2, WriteTypes
  <2> QED
    BY <1>3, <2>1, <2>4
<1>9. ASSUME NEW k \in Instances, ParentEvent(k) PROVE Awaits(j)
  <2>1. /\ queue'.shuttingDown = queue.shuttingDown
        /\ UNCHANGED <<registrar, parentWatches, handlers>>
        /\ events[k] # <<>> /\ store'[k] = Head(events[k]) /\ events'[k] = Tail(events[k])
        /\ \A i \in Instances \ {k} : store'[i] = store[i] /\ events'[i] = events[i]
    BY <1>0, <1>9, ParentEventEffect DEF ParentEvent, registerVars, Grown
  <2>2. CASE j = k
    <3>1. events[k] \in Seq(Object)
      BY <1>0
    <3>2. /\ 1 \in 1..Len(events[k]) /\ store'[k] = events[k][1]
          /\ \A i \in 1..Len(events'[k]) : i + 1 \in 1..Len(events[k])
                                           /\ events'[k][i] = events[k][i + 1]
      BY <2>1, <3>1
    <3>3. Missed(j)' => Missed(j)
      BY <2>2, <3>2 DEF Missed
    <3> QED
      BY <1>3, <2>1, <3>3
  <2>3. CASE j # k
    BY <1>0, <1>3, <2>1, <2>3 DEF Missed
  <2> QED
    BY <2>2, <2>3
<1>10. ASSUME NEW p \in Parents, RegistrarNext(p) PROVE Awaits(j) \/ j \in Queued(queue')
  <2>0. queue'.shuttingDown = queue.shuttingDown /\ ~queue.shuttingDown
    BY <1>2, <1>10, RegistrarEffect DEF Grown
  <2>1. CASE q = p
    <3>1. CASE Register(p)
      <4>1. /\ UNCHANGED <<store, events, parentWatches>> /\ registrar[p] = "idle"
            /\ registrar'[p] \in {"idle", "ensure"}
        BY <1>0, <3>1 DEF Register, informerVars
      <4> QED
        BY <1>1, <2>0, <2>1, <4>1 DEF RegistrationInOrder, Awaits
    <3>2. CASE RegisterEnsured(p)
      <4>1. p \notin parentWatches'
        BY <3>2 DEF RegisterEnsured, RegistrationInOrder
      <4>2. registrar'[p] = "attach" => store'[j] = obj[j] /\ events'[j] = <<>>
        BY <1>0, <2>1, <3>2 DEF RegisterEnsured, Of
      <4>3. obj[j] # Absent
        BY <1>0 DEF InstancesEndByReconcile, Indexed
      <4> QED
        BY <1>1, <2>1, <4>1, <4>2, <4>3 DEF Awaits, Missed
    <3>3. CASE RegisterAttach(p)
      <4>1. registrar[p] = "attach"
        BY <3>3 DEF RegisterAttach
      <4>2. CASE store[j] = Absent
        BY <2>1, <4>1, <4>2 DEF Awaits, Missed
      <4>3. CASE store[j] # Absent
        <5>1. j \in Existing(p)
          BY <1>0, <2>1, <4>3 DEF Existing, Of
        <5> QED
          BY <1>10, <2>0, <3>3, <5>1, RegistrarEffect DEF Queued
      <4> QED
        BY <4>2, <4>3
    <3>4. CASE Deregister(p) \/ DeregisterDetach(p)
      <4>1. registrar'[p] \in {"detach", "unhandle"}
        BY <1>0, <3>4 DEF Deregister, DeregisterDetach
      <4> QED
        BY <1>1, <2>1, <4>1 DEF Awaits
    <3>5. CASE DeregisterUnhandle(p)
      <4>1. p \notin parentWatches' /\ registrar'[p] = "idle"
        BY <1>0, <3>5 DEF DeregisterUnhandle, RegistrationInOrder
      <4> QED
        BY <1>1, <2>1, <4>1 DEF Awaits
    <3> QED
      BY <1>10, <3>1, <3>2, <3>3, <3>4, <3>5 DEF RegistrarNext
  <2>2. CASE q # p
    <3>1. /\ store'[j] = store[j] /\ events'[j] = events[j]
          /\ q \in parentWatches' => q \in parentWatches
          /\ q \in handlers' => q \in handlers
          /\ registrar'[q] = registrar[q]
      BY <1>0, <1>10, <2>2
         DEF RegistrarNext, Register, RegisterEnsured, RegisterAttach, Deregister,
             DeregisterDetach, DeregisterUnhandle, informerVars, Of
    <3> QED
      BY <1>1, <2>0, <3>1 DEF Awaits, Missed
  <2> QED
    BY <2>1, <2>2
<1> QED
  BY <1>2, <1>4, <1>5, <1>6, <1>7, <1>8, <1>9, <1>10 DEF Outside

\* The steps of other reconciles, and of its own short of Unmanage, leave a key's
\* events alone.
LEMMA AwaitsRuns ==
    ASSUME Types, RegistrationInOrder, NEW j \in Instances, NEW k \in Instances,
           \/ Get(k) \/ Load(k) \/ Watch(k) \/ Read(k)
           \/ Converge(k) \/ NotReady(k) \/ Fail(k)
           \/ Unmanage(k) /\ j # k,
           Awaits(j)'
    PROVE  Awaits(j) /\ ~queue.shuttingDown /\ ParentOf[j] \in handlers
<1>1. UNCHANGED <<registrar, parentWatches, handlers>> /\ store' = store /\ events'[j] = events[j]
  <2>1. CASE Get(k) \/ Load(k) \/ Watch(k) \/ Read(k)
    BY <2>1 DEF Get, Load, Watch, Read, informerVars, registerVars
  <2>2. CASE Converge(k) \/ NotReady(k) \/ Fail(k)
    <3>1. events' = events
      BY <2>2 DEF Converge, NotReady, Fail
    <3> QED
      BY <2>2, <3>1, EndEffect DEF EndOf
  <2>3. CASE Unmanage(k) /\ j # k
    <3>1. Write(k, Absent)
      BY <2>3 DEF Unmanage
    <3>2. events'[j] = events[j]
      BY <2>3, <3>1, WriteTypes, ObjectFacts
    <3> QED
      BY <2>3, <3>2, EndEffect DEF EndOf
  <2> QED
    BY <2>1, <2>2, <2>3
<1>2. queue'.shuttingDown = queue.shuttingDown
  BY GetEffect, QuietEffect, EndEffect DEF EndOf
<1>3. Awaits(j)
  BY <1>1, <1>2 DEF Awaits, Served, Missed
<1> QED
  BY <1>3, Bounds DEF Awaits, Served, RegistrationInOrder

LEMMA ChildrenDriveStep ==
    ASSUME Types, RunsHoldKeys, RegistrationInOrder, InstancesEndByReconcile, ChildrenInOrder,
           RunsSeeChildren, ChildrenDrive, Timers, [Next]_vars
    PROVE  ChildrenDrive'
<1>0. /\ acted \in [Instances -> [obj : Object, child : 0..MaxChild, end : Ends]]
      /\ committed \subseteq Instances /\ declared \subseteq Instances
  BY DEF Types, TypeOK
<1> SUFFICES ASSUME NEW j, j \in committed', Awaits(j)', childStore'[j] = child'[j],
                    acted'[j].child # child'[j], acted'[j].end \in {"converged", "waiting"}
             PROVE  Live(queue', j) \/ j \in routing'
  BY DEF ChildrenDrive, ChildStale
<1>s. ASSUME j \in committed, Awaits(j), ChildStale(j, acted[j].child),
             acted[j].end \in {"converged", "waiting"}
      PROVE  j \in Queued(queue) \cup queue.processing \cup routing
  BY <1>s DEF ChildrenDrive, Live, Queued
<1>l. ASSUME j \in Queued(queue') \cup queue'.processing PROVE Live(queue', j)
  BY <1>l DEF Live, Queued
<1>1. CASE Outside
  <2>1. acted' = acted /\ j \in committed
    BY <1>1, OutsideRuns
  <2>2. ~queue'.shuttingDown /\ (Awaits(j) \/ j \in Queued(queue'))
    BY <1>1, <2>1, AwaitsOutside
  <2>3. /\ Grown /\ ~queue.shuttingDown
        /\ ChildStale(j, acted[j].child) \/ j \in routing'
        /\ j \in routing => j \in routing' \cup Queued(queue')
    BY <1>1, <2>1, <2>2, ChildStaleOutside DEF ChildStale, Indexed
  <2> QED
    BY <1>s, <1>l, <2>1, <2>2, <2>3 DEF Grown
<1>2. ASSUME NEW k \in Instances, Get(k) PROVE Live(queue', j) \/ j \in routing'
  <2>1. UNCHANGED <<child, childStore, routing, committed, acted>>
    BY <1>2 DEF Get, apiVars, informerVars, coordVars
  <2>2. Awaits(j) /\ ParentOf[j] \in handlers
    BY <1>0, <1>2, <2>1, AwaitsRuns
  <2>3. j \in Queued(queue) \cup queue.processing \cup routing
    BY <1>s, <2>1, <2>2 DEF ChildStale
  <2> QED
    BY <1>l, <1>2, <2>1, <2>2, <2>3, GetEffect DEF Queued
<1>3. ASSUME NEW k \in Instances, Load(k) \/ Watch(k) \/ Read(k)
      PROVE  Live(queue', j) \/ j \in routing'
  <2>1. queue' = queue
    BY <1>3, QuietEffect
  <2>2. UNCHANGED <<child, childStore, routing, committed, acted>>
    BY <1>3 DEF Load, Watch, Read, apiVars, informerVars, coordVars
  <2>3. Awaits(j)
    BY <1>0, <1>3, <2>2, AwaitsRuns
  <2> QED
    BY <1>s, <1>l, <2>1, <2>2, <2>3 DEF ChildStale
<1>4. ASSUME NEW k \in Instances, Converge(k) \/ Unmanage(k) \/ NotReady(k) \/ Fail(k)
      PROVE  Live(queue', j) \/ j \in routing'
  <2>1. EndOf(k) /\ EndOfWatch(k)
    BY <1>4, EndEffect
  <2>2. UNCHANGED <<child, childStore, routing>>
    BY <2>1 DEF EndOf
  <2>3. j \in Instances /\ (j = k => ~Unmanage(k))
    BY <1>0, <2>1 DEF EndOfWatch, Unmanage
  <2>4. Awaits(j) /\ ~queue.shuttingDown
    BY <1>4, <2>3, AwaitsRuns
  <2>5. CASE j = k
    <3>1. \/ k \in Queued(queue')
          \/ k \in declared /\ run[k].pc = "end" /\ acted'[k].child = run[k].child
      BY <2>1, <2>4, <2>5 DEF EndOfWatch, Queued
    <3>2. CASE k \in declared /\ run[k].pc = "end" /\ acted'[k].child = run[k].child
      <4>1. k \in Queued(queue) \cup routing
        BY <2>2, <2>4, <2>5, <3>2 DEF RunsSeeChildren, Queued, ChildStale
      <4> QED
        BY <1>l, <2>1, <2>2, <2>5, <4>1 DEF EndOf, Queued
    <3> QED
      BY <1>l, <2>5, <3>1, <3>2
  <2>6. CASE j # k
    <3>1. acted'[j] = acted[j] /\ j \in committed
      BY <1>0, <2>1, <2>3, <2>6 DEF EndOf, EndOfWatch
    <3>2. j \in Queued(queue) \cup queue.processing \cup routing
      BY <1>s, <2>2, <2>4, <3>1 DEF ChildStale
    <3> QED
      BY <1>l, <2>1, <2>2, <2>3, <2>6, <3>2 DEF EndOf, Queued
  <2> QED
    BY <2>5, <2>6
<1> QED
  BY <1>1, <1>2, <1>3, <1>4, NextCases

-----------------------------------------------------------------------------
(* The theorems.                                                           *)

LEMMA InvInit == ASSUME Init PROVE Inv /\ ChildrenDrive
<1> USE DEF Init
<1>1. Types
  <2>1. Absent \in Object /\ 0 \in 0..MaxChild /\ 0 \in 0..MaxFaults /\ 0 \in 0..MaxWrites
        /\ 0 \in 0..QueueMaxRetries /\ <<>> \in Seq(Object)
    <3>1. Absent \in Object
      BY ObjectFacts
    <3>2. 0 \in 0..MaxChild /\ 0 \in 0..MaxFaults /\ 0 \in 0..MaxWrites /\ 0 \in 0..QueueMaxRetries
      BY Bounds
    <3> QED
      BY <3>1, <3>2
  <2>2. Idle \in [pc : {"idle", "load", "watch", "read", "end"}, obj : Object, child : 0..MaxChild]
    BY <2>1 DEF Idle
  <2>3. queue \in Queue
    BY <2>1 DEF Queue
  <2>4. TypesLess
    BY <2>1, <2>2, <2>3 DEF TypesLess, Ends
  <2>5. watchCount \in [Parents -> Nat]
    OBVIOUS
  <2> QED
    BY <2>4, <2>5, TypesSplit
<1>2. OwnersCounted
  <2>1. ASSUME NEW p \in Parents PROVE watchCount[p] = Cardinality(owners \cap Of(p))
    <3>1. owners \cap Of(p) = {}
      OBVIOUS
    <3> QED
      BY <3>1, FS_EmptySet
  <2> QED
    BY <2>1, FS_EmptySet DEF OwnersCounted, WatchCountExact
<1>3. \A k \in Instances : run[k].pc = "idle" /\ obj[k] = Absent /\ store[k] = Absent
  BY DEF Idle
<1>4. RunsHoldKeys /\ RegistrationInOrder /\ DeliveryInOrder
  BY <1>3 DEF RunsHoldKeys, RegistrationInOrder, DeliveryInOrder
<1>5. InstancesEndByReconcile
  BY <1>3 DEF InstancesEndByReconcile, Indexed
<1>6. RetriesReset /\ RunsSeeEvents /\ NothingForgotten
  BY <1>3 DEF RetriesReset, RunsSeeEvents, NothingForgotten, UpToDate
<1>7. ChildrenInOrder /\ RunsSeeChildren /\ ChildrenDrive
  BY DEF ChildrenInOrder, RunsSeeChildren, ChildrenDrive
<1> QED
  BY <1>1, <1>2, <1>4, <1>5, <1>6, <1>7 DEF Inv

LEMMA InvStep == ASSUME Inv, [Next]_vars PROVE Inv'
<1>1. Types' /\ OwnersCounted'
  BY TypesStep, CountStep DEF Inv
<1>2. RunsHoldKeys' /\ RetriesReset'
  BY RunsHoldKeysStep, RetriesResetStep DEF Inv
<1>3. RegistrationInOrder' /\ InstancesEndByReconcile' /\ DeliveryInOrder'
  BY RegistrationStep, InstancesStep, DeliveryStep DEF Inv
<1>4. RunsSeeEvents' /\ NothingForgotten'
  BY RunsSeeEventsStep, NothingForgottenStep DEF Inv
<1>5. ChildrenInOrder' /\ RunsSeeChildren'
  BY ChildrenStep, RunsSeeChildrenStep DEF Inv
<1> QED
  BY <1>1, <1>2, <1>3, <1>4, <1>5 DEF Inv

\* The invariant holds in every reachable state of the dynamic controller.
THEOREM DynamicInvariant == Spec => []Inv
<1>1. Init => Inv
  BY InvInit
<1>2. Inv /\ [Next]_vars => Inv'
  BY InvStep
<1> QED
  BY <1>1, <1>2, PTL DEF Spec

\* Type correctness: the retries stay within QueueMaxRetries, and the observer's
\* counts are never negative.
THEOREM DynamicTypeCorrect == Spec => []TypeOK
<1>1. Inv => TypeOK
  BY DEF Inv, Types
<1> QED
  BY <1>1, DynamicInvariant, PTL

\* DynInstanceWatchCount is the number of owners of each parent, through every
\* Watch, Abort, RemoveInstance and RemoveParentGVR.
THEOREM WatchCountsExact == Spec => []WatchCountExact
<1>1. Inv => WatchCountExact
  BY DEF Inv, OwnersCounted
<1> QED
  BY <1>1, DynamicInvariant, PTL

\* A key that is neither retried nor waiting starts its next streak of failures
\* from zero: processNextWorkItem forgets it on every such path.
THEOREM RetriesAlwaysReset == Spec => []RetriesReset
<1>1. Inv => RetriesReset
  BY DEF Inv
<1> QED
  BY <1>1, DynamicInvariant, PTL

\* No instance event is forgotten between the informer, the registration, the
\* queue and the reconcile that runs meanwhile.
THEOREM NoInstanceEventForgotten == Spec => []NothingForgotten
<1>1. Inv => NothingForgotten
  BY DEF Inv
<1> QED
  BY <1>1, DynamicInvariant, PTL

\* With a requeue duration (DefaultRequeueDuration is not 0), no child event is
\* forgotten between its match, the queue, and the reconcile that runs meanwhile.
THEOREM NoChildEventForgotten ==
    ASSUME Timers = TRUE
    PROVE  Spec => []ChildEventsDrive
<1>1. Init => ChildrenDrive
  BY InvInit
<1>2. Inv /\ ChildrenDrive /\ [Next]_vars => ChildrenDrive'
  BY ChildrenDriveStep DEF Inv
<1>3. ChildrenDrive => ChildEventsDrive
  BY DEF ChildrenDrive, ChildEventsDrive, Awaits, ChildStale
<1> QED
  BY <1>1, <1>2, <1>3, DynamicInvariant, PTL DEF Spec

=============================================================================
