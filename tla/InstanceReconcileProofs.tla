---------------------- MODULE InstanceReconcileProofs -----------------------
(***************************************************************************)
(* What the life of an instance guarantees for every graph, number of      *)
(* objects, of edits and of faults.  The inductive invariant grows from    *)
(* part to part:                                                           *)
(*                                                                         *)
(*   Managed     the finalizer comes with labels and an inventory,         *)
(*   Typed       types, and a worker that applies has a graph,             *)
(*   Candidates  what is about to be deleted is what was listed,           *)
(*   Books       what the walk recorded of each node, and the UIDs,        *)
(*   Teardown    what the deletion found of the members,                   *)
(*   Coverage    what is alive lies in the persisted inventory's scope.    *)
(***************************************************************************)
EXTENDS InstanceReconcile, TLAPS, WellFoundedInduction

-----------------------------------------------------------------------------
(* What the recursion over a graph computes.  Dependencies come first in   *)
(* the walk, so a least position at which it fails there is none.          *)

LEMMA Least ==
    ASSUME NEW T \in SUBSET Nat, T # {}
    PROVE  \E x \in T : \A y \in T : x <= y
<1> DEFINE R == OpToRel(<, Nat)
<1>1. \A x, y \in Nat : y < x => <<y, x>> \in R
  BY DEF OpToRel
<1>2. IsWellFoundedOn(R, Nat)
  BY NatLessThanWellFounded
<1> HIDE DEF R
<1>3. PICK x \in T : \A y \in T : ~(<<y, x>> \in R)
  BY <1>2, WFMin
<1>4. ASSUME NEW y \in T PROVE x <= y
  <2>1. x \in Nat /\ y \in Nat
    OBVIOUS
  <2>2. ~(y < x)
    BY <1>1, <1>3, <2>1
  <2> QED
    BY <2>1, <2>2
<1> QED
  BY <1>4

LEMMA MaxFacts ==
    ASSUME NEW k \in Nat, NEW S \in SUBSET (0..k), S # {}
    PROVE  Max(S) \in S /\ \A x \in S : x <= Max(S)
<1> DEFINE T == {y \in Nat : \A x \in S : x <= y}
<1>1. k \in T
  OBVIOUS
<1>2. PICK b \in T : \A y \in T : b <= y
  BY <1>1, Least
<1>3. b \in S
  <2>1. CASE b = 0
    <3>1. PICK x \in S : TRUE
      OBVIOUS
    <3>2. x \in Nat /\ x <= 0
      BY <1>2, <2>1
    <3> QED
      BY <2>1, <3>1, <3>2
  <2>2. CASE b # 0
    <3>1. b - 1 \in Nat /\ b - 1 \notin T
      BY <1>2, <2>2
    <3>2. PICK x \in S : ~(x <= b - 1)
      BY <3>1
    <3> QED
      BY <1>2, <3>1, <3>2
  <2> QED
    BY <2>1, <2>2
<1>4. \A y \in S : b >= y
  BY <1>2
<1>5. Max(S) \in S /\ \A y \in S : Max(S) >= y
  BY <1>3, <1>4 DEF Max
<1> QED
  BY <1>5

\* The nodes at the first k positions of the walk.
First(g, k) == {g.walk[i] : i \in 1..k}

LEMMA FirstFacts ==
    ASSUME NEW g \in Graphs, NEW k \in Nat, k <= Len(g.walk)
    PROVE  /\ First(g, k) \subseteq NodesOf(g) /\ First(g, Len(g.walk)) = NodesOf(g)
           /\ \A n \in First(g, k) : g.deps[n] \subseteq First(g, k - 1)
           /\ k # 0 => /\ First(g, k) = First(g, k - 1) \cup {g.walk[k]}
                       /\ \A n \in First(g, k - 1) : n \in First(g, k) /\ g.deps[n] \subseteq First(g, k - 1)
<1>0. /\ DOMAIN g.walk = 1..Len(g.walk) /\ Len(g.walk) \in Nat
      /\ \A i \in DOMAIN g.walk : \A m \in g.deps[g.walk[i]] : \E j \in 1..(i - 1) : g.walk[j] = m
  BY InstanceReconcileAssumption DEF IsGraph
<1>1. First(g, k) \subseteq NodesOf(g) /\ First(g, Len(g.walk)) = NodesOf(g)
  BY <1>0 DEF First, NodesOf
<1>2. ASSUME NEW n \in First(g, k), NEW m \in g.deps[n] PROVE m \in First(g, k - 1)
  <2>1. PICK i \in 1..k : n = g.walk[i]
    BY DEF First
  <2>2. i \in DOMAIN g.walk
    BY <1>0
  <2>3. PICK j \in 1..(i - 1) : g.walk[j] = m
    BY <1>0, <1>2, <2>1, <2>2
  <2>4. j \in 1..(k - 1)
    OBVIOUS
  <2> QED
    BY <2>3, <2>4 DEF First
<1>3. ASSUME k # 0 PROVE First(g, k) = First(g, k - 1) \cup {g.walk[k]}
  <2>1. 1..k = (1..(k - 1)) \cup {k}
    BY <1>3
  <2> QED
    BY <2>1 DEF First
<1> QED
  BY <1>1, <1>2, <1>3

Wave(g, f, n) == 1 + Max({0} \cup {f[m] : m \in g.deps[n]})

LEMMA WaveLocally ==
    ASSUME NEW g, NEW f, NEW h, NEW n, \A m \in g.deps[n] : f[m] = h[m]
    PROVE  Wave(g, f, n) = Wave(g, h, n)
<1>1. {f[m] : m \in g.deps[n]} = {h[m] : m \in g.deps[n]}
  OBVIOUS
<1> QED
  BY <1>1 DEF Wave

LEMMA WavesExist ==
    ASSUME NEW g \in Graphs
    PROVE  \E f : f = [n \in NodesOf(g) |-> Wave(g, f, n)]
<1> DEFINE Good(k, f) == DOMAIN f = First(g, k) /\ f = [n \in First(g, k) |-> Wave(g, f, n)]
           T == {k \in Nat : k <= Len(g.walk) /\ ~ \E f : Good(k, f)}
<1>0. Len(g.walk) \in Nat
  BY InstanceReconcileAssumption DEF IsGraph
<1>1. ASSUME T # {} PROVE FALSE
  <2>1. PICK k \in T : \A y \in T : k <= y
    BY <1>1, Least
  <2>2. k # 0
    <3> DEFINE e == [n \in First(g, 0) |-> 0]
    <3>1. Good(0, e)
      BY DEF First
    <3> QED
      BY <3>1
  <2>3. k - 1 \in Nat /\ k - 1 \notin T /\ k \in Nat /\ k <= Len(g.walk) /\ k - 1 <= Len(g.walk)
    BY <1>0, <2>1, <2>2
  <2>4. PICK f : Good(k - 1, f)
    BY <2>3
  <2> DEFINE h == [n \in First(g, k) |-> IF n \in First(g, k - 1) THEN f[n] ELSE Wave(g, f, n)]
  <2>5. ASSUME NEW n \in First(g, k) PROVE h[n] = Wave(g, h, n)
    <3>1. \A m \in g.deps[n] : m \in First(g, k - 1) /\ m \in First(g, k)
      BY <2>2, <2>3, FirstFacts
    <3>2. \A m \in g.deps[n] : h[m] = f[m]
      BY <3>1
    <3>3. Wave(g, h, n) = Wave(g, f, n)
      <4> HIDE DEF h
      <4> QED
        BY <3>2, WaveLocally
    <3>4. n \in First(g, k - 1) => f[n] = Wave(g, f, n)
      BY <2>4
    <3> QED
      BY <3>3, <3>4
  <2>6. DOMAIN h = First(g, k) /\ h = [n \in First(g, k) |-> Wave(g, h, n)]
    <3>1. DOMAIN h = First(g, k) /\ h = [n \in First(g, k) |-> h[n]]
      OBVIOUS
    <3> HIDE DEF h
    <3> QED
      BY <2>5, <3>1
  <2>7. Good(k, h)
    BY <2>6
  <2> QED
    BY <2>1, <2>7
<1>2. \E f : Good(Len(g.walk), f)
  BY <1>0, <1>1
<1>3. First(g, Len(g.walk)) = NodesOf(g)
  BY <1>0, FirstFacts
<1> QED
  BY <1>2, <1>3

\* A wave is a number no greater than the position in the walk.
LEMMA WavesAreBounded ==
    ASSUME NEW g \in Graphs, NEW f, f = [n \in NodesOf(g) |-> Wave(g, f, n)]
    PROVE  \A i \in 1..Len(g.walk) : f[g.walk[i]] \in 1..i
<1>0. /\ DOMAIN g.walk = 1..Len(g.walk) /\ Len(g.walk) \in Nat
      /\ \A i \in DOMAIN g.walk : \A m \in g.deps[g.walk[i]] : \E j \in 1..(i - 1) : g.walk[j] = m
  BY InstanceReconcileAssumption DEF IsGraph
<1> DEFINE T == {i \in 1..Len(g.walk) : f[g.walk[i]] \notin 1..i}
<1>1. ASSUME T # {} PROVE FALSE
  <2>1. PICK i \in T : \A y \in T : i <= y
    <3>1. T \in SUBSET Nat
      BY <1>0
    <3> HIDE DEF T
    <3> QED
      BY <1>1, <3>1, Least
  <2> DEFINE n == g.walk[i]
             S == {0} \cup {f[m] : m \in g.deps[n]}
  <2>2. n \in NodesOf(g) /\ f[n] = 1 + Max(S)
    BY <1>0 DEF NodesOf, Wave
  <2>3. ASSUME NEW m \in g.deps[n] PROVE f[m] \in 0..(i - 1)
    <3>1. PICK j \in 1..(i - 1) : g.walk[j] = m
      BY <1>0
    <3>2. j \in 1..Len(g.walk) /\ j < i /\ j \in Nat
      BY <1>0
    <3>3. j \notin T
      BY <1>0, <2>1, <3>2
    <3>4. f[m] \in 1..j
      BY <3>1, <3>2, <3>3
    <3> QED
      BY <1>0, <3>2, <3>4
  <2>4. S \in SUBSET (0..(i - 1)) /\ S # {} /\ i - 1 \in Nat
    <3>1. i \in 1..Len(g.walk) /\ i - 1 \in Nat
      BY <1>0
    <3>2. 0 \in 0..(i - 1)
      BY <3>1
    <3> QED
      BY <2>3, <3>1, <3>2
  <2> HIDE DEF S, n
  <2>5. Max(S) \in 0..(i - 1)
    BY <2>4, MaxFacts
  <2>6. f[n] \in 1..i
    BY <1>0, <2>2, <2>5
  <2> QED
    BY <2>1, <2>6 DEF n
<1> QED
  BY <1>1

\* The order that is stamped on an object (Runtime.ApplyOrder) is a number, and above
\* those of the nodes it depends on: to delete the highest wave first, as the deletion
\* does, is to delete dependents first.
THEOREM DependenciesHaveLowerWaves ==
    ASSUME NEW g \in Graphs, NEW n \in NodesOf(g)
    PROVE  /\ ApplyOrder(g, n) \in Nat
           /\ \A m \in g.deps[n] : ApplyOrder(g, m) \in Nat /\ ApplyOrder(g, m) < ApplyOrder(g, n)
<1> DEFINE f == CHOOSE f : f = [p \in NodesOf(g) |-> Wave(g, f, p)]
<1>0. /\ DOMAIN g.walk = 1..Len(g.walk) /\ Len(g.walk) \in Nat
      /\ \A i \in DOMAIN g.walk : \A m \in g.deps[g.walk[i]] : \E j \in 1..(i - 1) : g.walk[j] = m
  BY InstanceReconcileAssumption DEF IsGraph
<1>1. f = [p \in NodesOf(g) |-> Wave(g, f, p)]
  BY WavesExist
<1>2. \A p : ApplyOrder(g, p) = f[p]
  BY Zenon DEF ApplyOrder, Wave
<1> HIDE DEF f
<1>3. \A i \in 1..Len(g.walk) : f[g.walk[i]] \in 1..i
  BY <1>1, WavesAreBounded
<1>4. PICK i \in 1..Len(g.walk) : n = g.walk[i]
  BY <1>0 DEF NodesOf
<1>5. i \in Nat /\ f[n] \in 1..i /\ f[n] \in Nat
  BY <1>0, <1>3, <1>4
<1> DEFINE S == {0} \cup {f[m] : m \in g.deps[n]}
<1>6. ASSUME NEW m \in g.deps[n] PROVE f[m] \in Nat /\ f[m] \in 0..i
  <2>1. PICK j \in 1..(i - 1) : g.walk[j] = m
    BY <1>0, <1>4
  <2>2. j \in 1..Len(g.walk) /\ j <= i /\ j \in Nat
    BY <1>0, <1>5
  <2>3. f[m] \in 1..j
    BY <1>3, <2>1, <2>2
  <2> QED
    BY <1>5, <2>2, <2>3
<1>7. S \in SUBSET (0..i) /\ S # {} /\ \A m \in g.deps[n] : f[m] \in S
  BY <1>5, <1>6
<1>8. f[n] = 1 + Max(S)
  BY <1>1 DEF Wave
<1> HIDE DEF S
<1>9. Max(S) \in 0..i /\ \A x \in S : x <= Max(S)
  BY <1>5, <1>7, MaxFacts
<1>10. ASSUME NEW m \in g.deps[n] PROVE f[m] < f[n]
  <2>1. f[m] \in Nat /\ f[m] <= Max(S) /\ Max(S) \in Nat
    BY <1>5, <1>6, <1>7, <1>9
  <2> QED
    BY <1>8, <2>1
<1> QED
  BY <1>2, <1>5, <1>6, <1>10

Shut(g, f, n) == n \notin g.included \/ \E m \in g.deps[n] : f[m]

LEMMA ShutExists ==
    ASSUME NEW g \in Graphs
    PROVE  \E f : f = [n \in NodesOf(g) |-> Shut(g, f, n)]
<1> DEFINE Good(k, f) == DOMAIN f = First(g, k) /\ f = [n \in First(g, k) |-> Shut(g, f, n)]
           T == {k \in Nat : k <= Len(g.walk) /\ ~ \E f : Good(k, f)}
<1>0. Len(g.walk) \in Nat
  BY InstanceReconcileAssumption DEF IsGraph
<1>1. ASSUME T # {} PROVE FALSE
  <2>1. PICK k \in T : \A y \in T : k <= y
    BY <1>1, Least
  <2>2. k # 0
    <3> DEFINE e == [n \in First(g, 0) |-> 0]
    <3>1. Good(0, e)
      BY DEF First
    <3> QED
      BY <3>1
  <2>3. k - 1 \in Nat /\ k - 1 \notin T /\ k \in Nat /\ k <= Len(g.walk) /\ k - 1 <= Len(g.walk)
    BY <1>0, <2>1, <2>2
  <2>4. PICK f : Good(k - 1, f)
    BY <2>3
  <2> DEFINE h == [n \in First(g, k) |-> IF n \in First(g, k - 1) THEN f[n] ELSE Shut(g, f, n)]
  <2>5. ASSUME NEW n \in First(g, k) PROVE h[n] = Shut(g, h, n)
    <3>1. \A m \in g.deps[n] : m \in First(g, k - 1) /\ m \in First(g, k)
      BY <2>2, <2>3, FirstFacts
    <3>2. \A m \in g.deps[n] : h[m] = f[m]
      BY <3>1
    <3>3. Shut(g, h, n) = Shut(g, f, n)
      <4> HIDE DEF h
      <4> QED
        BY <3>2 DEF Shut
    <3>4. n \in First(g, k - 1) => f[n] = Shut(g, f, n)
      BY <2>4
    <3> QED
      BY <3>3, <3>4
  <2>6. DOMAIN h = First(g, k) /\ h = [n \in First(g, k) |-> Shut(g, h, n)]
    <3>1. DOMAIN h = First(g, k) /\ h = [n \in First(g, k) |-> h[n]]
      OBVIOUS
    <3> HIDE DEF h
    <3> QED
      BY <2>5, <3>1
  <2>7. Good(k, h)
    BY <2>6
  <2> QED
    BY <2>1, <2>7
<1>2. \E f : Good(Len(g.walk), f)
  BY <1>0, <1>1
<1>3. First(g, Len(g.walk)) = NodesOf(g)
  BY <1>0, FirstFacts
<1> QED
  BY <1>2, <1>3

\* What IsIgnored comes to for a whole graph: a node is left out exactly if its own
\* includeWhen says so or one that it depends on is left out.
THEOREM ExclusionIsContagious ==
    ASSUME NEW g \in Graphs, NEW n \in NodesOf(g)
    PROVE  n \in Ignored(g) <=> n \notin g.included \/ \E m \in g.deps[n] : m \in Ignored(g)
<1> DEFINE f == CHOOSE f : f = [p \in NodesOf(g) |-> Shut(g, f, p)]
<1>1. f = [p \in NodesOf(g) |-> Shut(g, f, p)]
  BY ShutExists
<1>2. Ignored(g) = {p \in NodesOf(g) : f[p]}
  BY Zenon DEF Ignored, Shut
<1> HIDE DEF f
<1>3. g.deps[n] \subseteq NodesOf(g)
  <2>1. Len(g.walk) \in Nat
    BY InstanceReconcileAssumption DEF IsGraph
  <2>2. n \in First(g, Len(g.walk)) /\ (Len(g.walk) # 0 => First(g, Len(g.walk) - 1) \subseteq First(g, Len(g.walk)))
    BY <2>1, FirstFacts
  <2>3. Len(g.walk) # 0
    BY <2>1, <2>2 DEF First
  <2> QED
    BY <2>1, <2>2, <2>3, FirstFacts
<1>4. f[n] <=> n \notin g.included \/ \E m \in g.deps[n] : f[m]
  BY <1>1 DEF Shut
<1> QED
  BY <1>2, <1>3, <1>4

-----------------------------------------------------------------------------
(* The finalizer comes with the labels and the inventory.                  *)

\* The worker is past the stamp, on the way to apply its graph.
Applying == w.pc \in {"inventory", "walk", "apply", "list", "prune"}

\* The inventory comes with the finalizer, the labels come with both, and a
\* worker that got past the stamp left an instance that nobody but it can let go.
Managed ==
    /\ DOMAIN w = DOMAIN Idle
    /\ DOMAIN inst = DOMAIN NoInstance
    /\ inst.fin \in BOOLEAN
    /\ inst.fin => inst.labels = TRUE /\ inst.owner # "none"
    /\ ~inst.fin => inst.owner = "none"
    /\ inst.st = "none" => ~inst.fin
    /\ Applying => inst.fin

\* The stamp of an instance that needs one gives it an inventory.
LEMMA StampedOK ==
    ASSUME Managed, ~inst.fin \/ ~inst.labels
    PROVE  /\ DOMAIN Stamped = DOMAIN NoInstance
           /\ Stamped.fin = TRUE
           /\ Stamped.labels = TRUE
           /\ Stamped.owner # "none"
           /\ Stamped.st # "none"
  BY DEF Managed, Stamped, NoInstance

\* Whatever inventory is written on a managed instance, it stays managed.
LEMMA PatchInventoryOK ==
    ASSUME Managed, inst.fin, NEW m, NEW out, PatchInventory(m, out)
    PROVE  /\ DOMAIN inst' = DOMAIN NoInstance
           /\ inst'.fin = TRUE
           /\ inst'.labels = TRUE
           /\ inst'.owner # "none"
           /\ inst'.st # "none"
  <1>1. CASE inst' = inst
    BY <1>1 DEF Managed
  <1>2. CASE inst' = [inst EXCEPT !.inv = m, !.owner = "parent"]
    BY <1>2 DEF Managed, NoInstance
  <1> QED BY <1>1, <1>2 DEF PatchInventory

\* What the initial worker looks like.
LEMMA IdleShape == Idle.pc = "idle" /\ "pc" \in DOMAIN Idle
  BY DEF Idle

\* There is no instance and no reconcile at the start.
LEMMA ManagedInit == Init => Managed
  BY DEF Init, Managed, Applying, Idle, NoInstance

\* A step that leaves the instance alone, and the worker where it was, or ends.
LEMMA Unmoved ==
    ASSUME Managed, UNCHANGED inst, DOMAIN w' = DOMAIN Idle, Applying' => inst.fin
    PROVE  Managed'
  BY DEF Managed, Applying

\* One case per action: the stamp and the inventory's writes keep the instance
\* managed, the finalizer goes with the whole instance, the rest does not touch it.
LEMMA ManagedStep ==
    ASSUME Managed, Next, "upgrade" \notin Faults
    PROVE  Managed'
  <1>1. CASE Start
    <2>1. UNCHANGED inst
      BY <1>1 DEF Start
    <2>2. DOMAIN w' = DOMAIN Idle
      BY <1>1 DEF Start
    <2>3. w'.pc \in {"idle", "deletion", "stamp"}
      BY <1>1, IdleShape DEF Start
    <2> QED BY <2>1, <2>2, <2>3, Unmoved DEF Applying
  <1>2. ASSUME NEW out \in Outcomes, StampInstanceMetadata(out) PROVE Managed'
    <2>1. CASE inst' = Stamped /\ (~inst.fin \/ ~inst.labels)
      <3>1. DOMAIN w' = DOMAIN Idle
        BY <1>2 DEF StampInstanceMetadata, ReturnError, Return, Continue, Managed
      <3> QED BY <2>1, <3>1, StampedOK DEF Managed
    <2>2. CASE inst' = inst /\ inst.fin
      <3>1. DOMAIN w' = DOMAIN Idle
        BY <1>2 DEF StampInstanceMetadata, ReturnError, Return, Continue, Managed
      <3> QED BY <2>2, <3>1, Unmoved
    <2>3. CASE inst' = inst /\ w' = Idle
      BY <2>3, Unmoved DEF Applying, Idle
    <2> QED BY <1>2, <2>1, <2>2, <2>3 DEF StampInstanceMetadata, ReturnError, TakesEffect
  <1>3. ASSUME NEW out \in Outcomes, PreApplyInventory(out) PROVE Managed'
    <2>1. inst.fin
      BY <1>3 DEF PreApplyInventory, Managed, Applying
    <2>2. DOMAIN w' = DOMAIN Idle
      BY <1>3 DEF PreApplyInventory, Return, Continue, Managed
    <2> QED BY <1>3, <2>1, <2>2, PatchInventoryOK DEF PreApplyInventory, Managed
  <1>4. CASE WalkGated \/ WalkIgnored \/ WalkPending
    <2>1. UNCHANGED inst /\ DOMAIN w' = DOMAIN w /\ Applying
      BY <1>4 DEF WalkGated, WalkIgnored, WalkPending, Walking, Continue, Unresolved,
                  Applying
    <2> QED BY <2>1, Unmoved DEF Managed
  <1>5. ASSUME NEW out \in Outcomes, WalkGet(out) \/ WalkApply(out) PROVE Managed'
    <2>1. UNCHANGED inst /\ DOMAIN w' = DOMAIN w /\ Applying
      BY <1>5 DEF WalkGet, WalkApply, Walking, Continue, Unresolved, Failed, Applying
    <2> QED BY <2>1, Unmoved DEF Managed
  <1>6. ASSUME NEW out \in Outcomes, GrowInventory(out) PROVE Managed'
    <2>1. inst.fin
      BY <1>6 DEF GrowInventory, Walked, Managed, Applying
    <2>2. DOMAIN w' = DOMAIN Idle
      BY <1>6 DEF GrowInventory, Return, Continue, Managed
    <2> QED BY <1>6, <2>1, <2>2, PatchInventoryOK DEF GrowInventory, Managed
  <1>7. ASSUME NEW out \in Outcomes,
               ListOrphans(out) \/ \E c \in w.cands : PruneOrphan(c, out)
        PROVE  Managed'
    <2>1. UNCHANGED inst /\ DOMAIN w' = DOMAIN Idle /\ Applying
      BY <1>7 DEF ListOrphans, PruneOrphan, Walked, Continue, Return, Applying, Managed
    <2> QED BY <2>1, Unmoved DEF Managed
  <1>8. ASSUME NEW out \in Outcomes, AlignInventory(out) PROVE Managed'
    <2>1. inst.fin /\ w' = Idle
      BY <1>8 DEF AlignInventory, Return, Managed, Applying
    <2>2. CASE UNCHANGED inst
      BY <2>1, <2>2, Unmoved
    <2>3. CASE PatchInventory(Batch, out)
      BY <2>1, <2>3, PatchInventoryOK DEF Managed
    <2> QED BY <1>8, <2>2, <2>3 DEF AlignInventory
  <1>9. ASSUME NEW out \in Outcomes,
               \/ DiscoverDeletionInventory(out)
               \/ \E c \in w.cands : ReleaseOrphanedResource(c, out)
               \/ \E c \in w.cands : DeleteInWave(c, out)
        PROVE  Managed'
    <2>1. UNCHANGED inst
      BY <1>9 DEF DiscoverDeletionInventory, ReleaseOrphanedResource, DeleteInWave
    <2>2. DOMAIN w' = DOMAIN Idle
      BY <1>9 DEF DiscoverDeletionInventory, ReleaseOrphanedResource, DeleteInWave,
                  Continue, ReturnError, Managed
    <2>3. w'.pc \in {"idle", "release", "wave"}
      BY <1>9, IdleShape DEF DiscoverDeletionInventory, ReleaseOrphanedResource,
                  DeleteInWave, Continue, ReturnError, Managed
    <2> QED BY <2>1, <2>2, <2>3, Unmoved DEF Applying
  <1>10. CASE ChooseDeletionWave \/ EndWave
    <2>1. UNCHANGED inst
      BY <1>10 DEF ChooseDeletionWave, EndWave
    <2>2. DOMAIN w' = DOMAIN Idle
      BY <1>10 DEF ChooseDeletionWave, EndWave, Continue, Return, Managed
    <2>3. w'.pc \in {"idle", "finalizer", "wave"}
      BY <1>10, IdleShape DEF ChooseDeletionWave, EndWave, Continue, Return, Managed
    <2> QED BY <2>1, <2>2, <2>3, Unmoved DEF Applying
  <1>11. ASSUME NEW out \in Outcomes, RemoveFinalizer(out) PROVE Managed'
    <2>1. w' = Idle /\ (inst' = inst \/ inst' = NoInstance)
      BY <1>11 DEF RemoveFinalizer
    <2>2. CASE inst' = inst
      BY <2>1, <2>2, Unmoved, IdleShape DEF Applying
    <2>3. CASE inst' = NoInstance
      BY <2>1, <2>3, IdleShape DEF Managed, Applying, NoInstance
    <2> QED BY <2>1, <2>2, <2>3
  <1>12. ASSUME NEW s \in BOOLEAN, CreateInstance(s) PROVE Managed'
    <2>1. ~Applying
      BY <1>12 DEF CreateInstance, Managed
    <2> QED BY <1>12, <2>1 DEF CreateInstance, Managed, Applying, NoInstance
  <1>13. CASE DeleteInstance
    <2>1. CASE inst.fin
      BY <1>13, <2>1 DEF DeleteInstance, Managed, Applying, NoInstance
    <2>2. CASE ~inst.fin
      BY <1>13, <2>2 DEF DeleteInstance, Managed, Applying, NoInstance
    <2> QED BY <2>1, <2>2
  <1>14. CASE Suspend
    BY <1>14 DEF Suspend, Managed, Applying, NoInstance
  <1>15. ASSUME NEW g, ChangeGraph(g) PROVE Managed'
    BY <1>15, Unmoved DEF ChangeGraph, Managed, Applying
  <1>16. ASSUME NEW o \in Objects,
                ObjectReady(o) \/ ObjectGone(o) \/ DeleteObject(o) \/ RecreateObject(o)
         PROVE  Managed'
    BY <1>16, Unmoved DEF ObjectReady, ObjectGone, DeleteObject, RecreateObject,
                          Managed, Applying
  <1>17. ASSUME NEW kind \in {"crash", "upgrade"}, Restart(kind) PROVE Managed'
    <2>1. UNCHANGED inst /\ w' = Idle
      BY <1>17 DEF Restart, Fault
    <2> QED BY <2>1, Unmoved DEF Applying, Idle
  <1> QED
    BY <1>1, <1>2, <1>3, <1>4, <1>5, <1>6, <1>7, <1>8, <1>9, <1>10, <1>11, <1>12,
       <1>13, <1>14, <1>15, <1>16, <1>17 DEF Next, Work, Environment

LEMMA ManagedHolds == ASSUME "upgrade" \notin Faults PROVE Spec => []Managed
  <1>1. Managed /\ [Next]_vars => Managed'
    <2>1. ASSUME Managed, UNCHANGED vars PROVE Managed'
      BY <2>1 DEF vars, Managed, Applying
    <2> QED
      BY <2>1, ManagedStep
  <1> QED
    BY <1>1, ManagedInit, PTL DEF Spec

-----------------------------------------------------------------------------
(* Types.                                                                  *)

Pc == {"idle", "stamp", "inventory", "walk", "apply", "list", "prune", "deletion",
       "release", "wave", "finalizer"}
Worker ==
    [pc : Pc,
     g : Graphs \cup {NoGraph}, suspended : BOOLEAN, i : Nat \ {0},
     declared : SUBSET Objects, prior : Metadata, superset : Metadata,
     ready : SUBSET Nodes, unresolved : SUBSET Nodes, observed : SUBSET Nodes,
     hard : BOOLEAN, applied : SUBSET [obj : Objects, uid : Nat],
     cands : SUBSET Candidate, conflict : BOOLEAN]

\* A worker that applies has a graph, one that applies a node is inside its walk.
HasGraph ==
    /\ Applying \/ (w.pc = "stamp" /\ ~w.suspended) => w.g \in Graphs
    /\ w.pc = "apply" => w.i \in DOMAIN w.g.walk

Typed ==
    /\ inst \in Instance
    /\ objs \in [Objects -> Object]
    /\ graph \in Graphs \cup {NoGraph}
    /\ queued \in BOOLEAN
    /\ watched \subseteq Objects
    /\ w \in Worker
    /\ HasGraph
    /\ edits \in 0..MaxEdits
    /\ faults \in 0..MaxFaults

LEMMA MetadataFacts ==
    /\ EmptyMetadata \in Metadata
    /\ \A os \in SUBSET Objects : MetadataOf(os) \in Metadata
    /\ \A l, m \in Metadata : Union(l, m) \in Metadata
BY DEF EmptyMetadata, Metadata, MetadataOf, Union, Kinds, Namespaces

LEMMA ConstantObjects ==
    /\ NoInstance \in Instance
    /\ Idle \in Worker
    /\ \A u \in Nat : Absent(u) \in Object
BY MetadataFacts DEF NoInstance, Instance, Idle, Worker, Pc, Absent, Object

\* What the actions do to the worker's record.
LEMMA WorkerEdits ==
    ASSUME NEW v \in Worker, NEW p \in Pc
    PROVE  /\ [v EXCEPT !.pc = p] \in Worker
           /\ \A x \in BOOLEAN : [v EXCEPT !.pc = p, !.suspended = x] \in Worker
           /\ \A x \in Graphs \cup {NoGraph} : [v EXCEPT !.pc = p, !.g = x] \in Worker
           /\ \A x \in SUBSET Candidate : [v EXCEPT !.pc = p, !.cands = x] \in Worker
           /\ \A x, y \in Metadata : [v EXCEPT !.pc = p, !.prior = x, !.superset = y] \in Worker
<1>1. [v EXCEPT !.pc = p] \in Worker
  BY DEF Worker
<1>2. \A x \in BOOLEAN : [v EXCEPT !.pc = p, !.suspended = x] \in Worker
  BY DEF Worker
<1>3. \A x \in Graphs \cup {NoGraph} : [v EXCEPT !.pc = p, !.g = x] \in Worker
  BY DEF Worker
<1>4. \A x \in SUBSET Candidate : [v EXCEPT !.pc = p, !.cands = x] \in Worker
  BY DEF Worker
<1>5. \A x, y \in Metadata : [v EXCEPT !.pc = p, !.prior = x, !.superset = y] \in Worker
  BY DEF Worker
<1> QED
  BY <1>1, <1>2, <1>3, <1>4, <1>5

LEMMA GraphFacts ==
    ASSUME NEW g \in Graphs
    PROVE  /\ g.walk \in Seq(Nodes) /\ g.target \in [Nodes -> Objects]
           /\ NodesOf(g) \in SUBSET Nodes
           /\ \A i \in DOMAIN g.walk : g.walk[i] \in NodesOf(g)
           /\ \A n \in NodesOf(g) : \E i \in DOMAIN g.walk : g.walk[i] = n
           /\ \A i, j \in DOMAIN g.walk : g.walk[i] = g.walk[j] => i = j
           /\ \A m, n \in Nodes : g.target[m] = g.target[n] => m = n
           /\ DOMAIN g.walk = 1..Len(g.walk) /\ Len(g.walk) \in Nat
<1>1. IsGraph(g)
  BY InstanceReconcileAssumption
<1> QED
  BY <1>1 DEF IsGraph, NodesOf

LEMMA CandidateMetadataType ==
    ASSUME NEW g \in Graphs
    PROVE  CandidateMetadata(g) \in Metadata
<1> DEFINE nodes == NodesOf(g) \ Ignored(g)
           full == {n \in nodes : g.known[n] = "full"}
           kind == {n \in nodes : g.known[n] = "kind"}
           kinds == [gks |-> {Kind[g.target[n]] : n \in kind}, nss |-> {}]
<1>1. {g.target[n] : n \in full} \in SUBSET Objects /\ \A n \in kind : g.target[n] \in Objects
  BY GraphFacts
<1>2. kinds \in Metadata
  BY <1>1 DEF Metadata, Kinds
<1>3. CandidateMetadata(g) = Union(MetadataOf({g.target[n] : n \in full}), kinds)
  BY DEF CandidateMetadata
<1> HIDE DEF kinds, full
<1> QED
  BY <1>1, <1>2, <1>3, MetadataFacts

LEMMA BatchType ==
    ASSUME w \in Worker
    PROVE  Batch \in Metadata
<1>1. {a.obj : a \in w.applied} \in SUBSET Objects
  BY DEF Worker
<1> QED
  BY <1>1, MetadataFacts DEF Batch

LEMMA FaultsType ==
    ASSUME faults \in 0..MaxFaults
    PROVE  /\ \A out \in Outcomes : Outcome(out) => faults' \in 0..MaxFaults
           /\ \A kind \in FaultKinds : Fault(kind) => faults' \in 0..MaxFaults
BY InstanceReconcileAssumption DEF Outcome, Fault

LEMMA TypedInit == Init => Typed
<1> SUFFICES ASSUME Init PROVE Typed
  OBVIOUS
<1>1. 0 \in 0..MaxEdits /\ 0 \in 0..MaxFaults
  BY InstanceReconcileAssumption
<1>2. w.pc = "idle"
  BY DEF Init, Idle
<1> QED
  BY <1>1, <1>2, ConstantObjects DEF Init, Typed, HasGraph, Applying

\* The ends of a reconcile, and going on with it.
LEMMA ReturnTyped ==
    ASSUME Typed, (\E again \in BOOLEAN : Return(again)) \/ ReturnError
    PROVE  w' \in Worker /\ HasGraph' /\ watched' \subseteq Objects /\ queued' \in BOOLEAN
<1>1. w' = Idle => w' \in Worker /\ HasGraph'
  BY ConstantObjects, IdleShape DEF HasGraph, Applying
<1>2. w.declared \subseteq Objects /\ watched \subseteq Objects /\ queued \in BOOLEAN
  BY DEF Typed, Worker
<1>3. ASSUME NEW again \in BOOLEAN, Return(again)
      PROVE  w' = Idle /\ watched' \subseteq Objects /\ queued' \in BOOLEAN
  BY <1>2, <1>3 DEF Return
<1>4. ASSUME ReturnError
      PROVE  w' = Idle /\ watched' \subseteq Objects /\ queued' \in BOOLEAN
  BY <1>2, <1>4 DEF ReturnError
<1>5. w' = Idle /\ watched' \subseteq Objects /\ queued' \in BOOLEAN
  <2>1. CASE \E again \in BOOLEAN : Return(again)
    <3>1. PICK again \in BOOLEAN : Return(again)
      BY <2>1
    <3> QED
      BY <3>1, <1>3
  <2>2. CASE ReturnError
    BY <2>2, <1>4
  <2> QED
    BY <2>1, <2>2
<1> QED
  BY <1>1, <1>5

LEMMA ContinueTyped ==
    ASSUME Typed, NEW v, Continue(v)
    PROVE  w' = v /\ watched' \subseteq Objects /\ queued' \in BOOLEAN
BY DEF Continue, Typed

LEMMA PatchTyped ==
    ASSUME inst \in Instance, NEW m \in Metadata, NEW out, PatchInventory(m, out)
    PROVE  inst' \in Instance
<1>1. inst' = inst \/ inst' = [inst EXCEPT !.inv = m, !.owner = "parent"]
  BY DEF PatchInventory
<1> QED
  BY <1>1 DEF Instance

LEMMA TypedStart == ASSUME Typed, Start PROVE Typed'
<1>1. w' \in Worker
  <2>1. \/ w' = Idle
        \/ w' = [Idle EXCEPT !.pc = "deletion"]
        \/ w' = [Idle EXCEPT !.pc = "stamp", !.suspended = TRUE]
        \/ w' = [Idle EXCEPT !.pc = "stamp", !.g = graph]
    BY DEF Start
  <2>2. graph \in Graphs \cup {NoGraph}
    BY DEF Typed
  <2>3. "deletion" \in Pc /\ "stamp" \in Pc /\ TRUE \in BOOLEAN /\ Idle \in Worker
    BY ConstantObjects DEF Pc
  <2>4. /\ [Idle EXCEPT !.pc = "deletion"] \in Worker
        /\ [Idle EXCEPT !.pc = "stamp", !.suspended = TRUE] \in Worker
        /\ [Idle EXCEPT !.pc = "stamp", !.g = graph] \in Worker
    BY <2>2, <2>3, WorkerEdits
  <2> QED
    BY <2>1, <2>3, <2>4
<1>2. HasGraph'
  <2>1. /\ w'.pc \in {"idle", "deletion", "stamp"}
        /\ w'.pc = "stamp" => w'.suspended \/ w'.g \in Graphs
    BY IdleShape DEF Start, Typed, Idle
  <2> QED
    BY <2>1 DEF HasGraph, Applying
<1> QED
  BY <1>1, <1>2 DEF Start, Typed

LEMMA TypedStamp ==
    ASSUME Typed, NEW out \in Outcomes, StampInstanceMetadata(out)
    PROVE  Typed'
<1>0. inst \in Instance /\ w \in Worker /\ HasGraph /\ w.pc = "stamp"
  BY DEF Typed, StampInstanceMetadata
<1>1. Stamped \in Instance
  BY <1>0, MetadataFacts DEF Stamped, Instance
<1>2. inst' \in Instance
  BY <1>0, <1>1 DEF StampInstanceMetadata
<1>3. /\ w' \in Worker /\ HasGraph' /\ watched' \subseteq Objects /\ queued' \in BOOLEAN
  <2>1. CASE (\E again \in BOOLEAN : Return(again)) \/ ReturnError
    BY <2>1, ReturnTyped
  <2>2. CASE Continue([w EXCEPT !.pc = "inventory"]) /\ ~w.suspended
    <3>1. w' = [w EXCEPT !.pc = "inventory"] /\ watched' \subseteq Objects /\ queued' \in BOOLEAN
      BY <2>2, ContinueTyped
    <3>2. w' \in Worker
      <4>1. "inventory" \in Pc
        BY DEF Pc
      <4> QED
        BY <1>0, <3>1, <4>1, WorkerEdits
    <3>3. w'.pc = "inventory" /\ w'.g = w.g
      BY <1>0, <3>1 DEF Worker
    <3>4. HasGraph'
      BY <1>0, <2>2, <3>3 DEF HasGraph, Applying
    <3> QED
      BY <3>1, <3>2, <3>4
  <2> QED
    BY <2>1, <2>2 DEF StampInstanceMetadata
<1> QED
  BY <1>2, <1>3, FaultsType DEF StampInstanceMetadata, Typed

LEMMA TypedPreApply ==
    ASSUME Typed, NEW out \in Outcomes, PreApplyInventory(out)
    PROVE  /\ Typed'
           /\ \/ w' = Idle
              \/ /\ w'.pc = "walk" /\ w'.prior = inst.inv /\ out = "ok"
                 /\ w'.superset = Union(CandidateMetadata(w.g), inst.inv)
                 /\ w' = [w EXCEPT !.pc = "walk", !.prior = inst.inv,
                                   !.superset = Union(CandidateMetadata(w.g), inst.inv)]
<1> DEFINE S == Union(CandidateMetadata(w.g), inst.inv)
<1>0. /\ inst \in Instance /\ w \in Worker /\ HasGraph /\ inst.inv \in Metadata
      /\ w.pc = "inventory" /\ w.g \in Graphs
  BY DEF Typed, PreApplyInventory, HasGraph, Applying, Instance
<1>1. S \in Metadata
  BY <1>0, CandidateMetadataType, MetadataFacts
<1>2. PatchInventory(S, out)
  BY DEF PreApplyInventory
<1>3. \/ Return(TRUE)
      \/ out = "ok" /\ Continue([w EXCEPT !.pc = "walk", !.prior = inst.inv, !.superset = S])
  BY DEF PreApplyInventory
<1> HIDE DEF S
<1>4. inst' \in Instance
  BY <1>0, <1>1, <1>2, PatchTyped
<1>5. CASE Return(TRUE)
  <2>1. w' \in Worker /\ HasGraph' /\ watched' \subseteq Objects /\ queued' \in BOOLEAN
    BY <1>5, ReturnTyped
  <2> QED
    BY <1>4, <1>5, <2>1, FaultsType DEF PreApplyInventory, Typed, Return
<1>6. CASE out = "ok" /\ Continue([w EXCEPT !.pc = "walk", !.prior = inst.inv, !.superset = S])
  <2>1. /\ w' = [w EXCEPT !.pc = "walk", !.prior = inst.inv, !.superset = S]
        /\ watched' \subseteq Objects /\ queued' \in BOOLEAN
    BY <1>6, ContinueTyped
  <2>2. "walk" \in Pc
    BY DEF Pc
  <2>3. w' \in Worker
    BY <1>0, <1>1, <2>1, <2>2, WorkerEdits
  <2>4. w'.pc = "walk" /\ w'.g = w.g /\ w'.prior = inst.inv /\ w'.superset = S
    BY <1>0, <2>1 DEF Worker
  <2>5. HasGraph'
    BY <1>0, <2>4 DEF HasGraph, Applying
  <2>6. Typed'
    BY <1>4, <2>1, <2>3, <2>5, FaultsType DEF PreApplyInventory, Typed
  <2> QED
    BY <1>6, <2>1, <2>4, <2>6 DEF S
<1> QED
  BY <1>3, <1>5, <1>6

\* What an apply makes of the target.
LEMMA AppliedFacts ==
    ASSUME Typed, w.g \in Graphs, w.i \in DOMAIN w.g.walk
    PROVE  /\ Node \in Nodes /\ Node \in NodesOf(w.g) /\ Target \in Objects
           /\ AppliedObject \in Object
           /\ AppliedObject.member = TRUE /\ AppliedObject.node = Node
           /\ AppliedObject.st # "none" /\ AppliedObject.uid \in Nat
<1>1. Node \in Nodes /\ Node \in NodesOf(w.g) /\ Target \in Objects
  BY GraphFacts DEF Node, Target
<1>2. objs[Target] \in Object /\ objs[Target].uid + 1 \in Nat
  BY <1>1 DEF Typed, Object
<1>3. ApplyOrder(w.g, Node) \in Nat
  BY <1>1, DependenciesHaveLowerWaves
<1> DEFINE new == IF objs[Target].st = "none"
                  THEN [Absent(objs[Target].uid + 1) EXCEPT !.st = "live",
                                                            !.ready = Node \notin ReadyWhen]
                  ELSE objs[Target]
<1>4. new \in Object /\ new.st # "none"
  <2>1. CASE objs[Target].st = "none"
    <3>1. new = [Absent(objs[Target].uid + 1) EXCEPT !.st = "live",
                                                     !.ready = Node \notin ReadyWhen]
      BY <2>1
    <3>2. Absent(objs[Target].uid + 1) \in Object
      BY <1>2, ConstantObjects
    <3> HIDE DEF new
    <3> QED
      BY <3>1, <3>2 DEF Object
  <2>2. CASE objs[Target].st # "none"
    BY <1>2, <2>2
  <2> QED
    BY <2>1, <2>2
<1>5. AppliedObject = [new EXCEPT !.member = TRUE, !.node = Node,
                                  !.order = ApplyOrder(w.g, Node)]
  BY DEF AppliedObject
<1> HIDE DEF new
<1>6. /\ AppliedObject \in Object
      /\ AppliedObject.member = TRUE /\ AppliedObject.node = Node
      /\ AppliedObject.st # "none" /\ AppliedObject.uid \in Nat
  BY <1>1, <1>3, <1>4, <1>5 DEF Object
<1> QED
  BY <1>1, <1>6

\* A step of the walk: on to the apply of a node, past a node that was not
\* applied, or past one that was.
ToApply ==
    /\ w.pc = "walk" /\ w'.pc = "apply" /\ w'.i = w.i /\ Node \notin Ignored(w.g)
    /\ w'.applied = w.applied /\ w'.observed = w.observed
    /\ w'.hard = w.hard /\ w'.unresolved = w.unresolved
Skips ==
    /\ w'.pc = "walk" /\ w'.i = w.i + 1
    /\ w'.applied = w.applied /\ w'.observed = w.observed
    /\ \/ w'.hard = TRUE
       \/ w'.hard = w.hard /\ w'.unresolved = w.unresolved \cup {Node}
       \/ w'.hard = w.hard /\ w'.unresolved = w.unresolved /\ Node \in Ignored(w.g)
Applies ==
    /\ w.pc = "apply" /\ w'.pc = "walk" /\ w'.i = w.i + 1
    /\ w'.hard = w.hard /\ w'.unresolved = w.unresolved
    /\ w'.applied = w.applied \cup {[obj |-> Target, uid |-> AppliedObject.uid]}
    /\ w'.observed = w.observed \cup {Node}
Moves ==
    /\ w'.g = w.g /\ w'.prior = w.prior /\ w'.superset = w.superset
    /\ w'.cands = w.cands /\ w'.conflict = w.conflict
    /\ ToApply \/ Skips \/ Applies

\* The records that the walk makes of the worker.
LEMMA WalkRecords ==
    ASSUME NEW v \in Worker, NEW n \in Nodes
    PROVE  /\ [v EXCEPT !.pc = "walk", !.i = @ + 1, !.unresolved = @ \cup {n}] \in Worker
           /\ [v EXCEPT !.pc = "walk", !.i = @ + 1, !.hard = TRUE] \in Worker
           /\ [v EXCEPT !.i = @ + 1, !.ready = @ \cup {n}] \in Worker
           /\ \A o \in Objects : [v EXCEPT !.declared = @ \cup {o}] \in Worker
           /\ \A a \in [obj : Objects, uid : Nat] : \A r \in SUBSET Nodes :
                [v EXCEPT !.pc = "walk", !.i = @ + 1, !.applied = @ \cup {a},
                          !.observed = @ \cup {n}, !.ready = r] \in Worker
<1>0. "walk" \in Pc /\ v.i + 1 \in Nat \ {0}
  BY DEF Worker, Pc
<1>1. [v EXCEPT !.pc = "walk", !.i = @ + 1, !.unresolved = @ \cup {n}] \in Worker
  BY <1>0 DEF Worker
<1>2. [v EXCEPT !.pc = "walk", !.i = @ + 1, !.hard = TRUE] \in Worker
  BY <1>0 DEF Worker
<1>3. [v EXCEPT !.i = @ + 1, !.ready = @ \cup {n}] \in Worker
  BY <1>0 DEF Worker
<1>4. \A o \in Objects : [v EXCEPT !.declared = @ \cup {o}] \in Worker
  BY DEF Worker
<1>5. ASSUME NEW a \in [obj : Objects, uid : Nat], NEW r \in SUBSET Nodes
      PROVE  [v EXCEPT !.pc = "walk", !.i = @ + 1, !.applied = @ \cup {a},
                       !.observed = @ \cup {n}, !.ready = r] \in Worker
  <2>1. v.applied \cup {a} \in SUBSET [obj : Objects, uid : Nat] /\ v.observed \cup {n} \in SUBSET Nodes
    BY DEF Worker
  <2> QED
    BY <1>0, <2>1 DEF Worker
<1> QED
  BY <1>1, <1>2, <1>3, <1>4, <1>5

LEMMA WalkFields ==
    ASSUME w \in Worker, NEW v \in Worker,
           v = w \/ \E o \in Objects : v = [w EXCEPT !.declared = @ \cup {o}]
    PROVE  /\ v.pc = w.pc /\ v.g = w.g /\ v.i = w.i /\ v.prior = w.prior
           /\ v.superset = w.superset /\ v.cands = w.cands /\ v.conflict = w.conflict
           /\ v.applied = w.applied /\ v.observed = w.observed
           /\ v.hard = w.hard /\ v.unresolved = w.unresolved
BY DEF Worker

LEMMA WalkMoves ==
    ASSUME Typed,
           \/ WalkGated \/ WalkIgnored \/ WalkPending
           \/ \E out \in Outcomes : WalkGet(out) \/ WalkApply(out)
    PROVE  /\ w.pc \in {"walk", "apply"} /\ w.g \in Graphs /\ w.i \in DOMAIN w.g.walk
           /\ Moves /\ w' \in Worker
<1>0. w \in Worker /\ HasGraph /\ w.i \in Nat \ {0}
  BY DEF Typed, Worker
<1>1. w.pc \in {"walk", "apply"}
  BY DEF WalkGated, WalkIgnored, WalkPending, WalkGet, WalkApply, Walking
<1>2. w.g \in Graphs
  BY <1>0, <1>1 DEF HasGraph, Applying
<1>3. w.i \in DOMAIN w.g.walk
  <2>1. CASE w.pc = "apply"
    BY <1>0, <2>1 DEF HasGraph
  <2>2. CASE w.pc = "walk"
    <3>1. w.i <= Len(w.g.walk)
      BY <2>2 DEF WalkGated, WalkIgnored, WalkPending, WalkGet, WalkApply, Walking
    <3> QED
      BY <1>0, <1>2, <3>1, GraphFacts
  <2> QED
    BY <1>1, <2>1, <2>2
<1>4. Node \in Nodes /\ Target \in Objects /\ AppliedObject.uid \in Nat
  BY <1>2, <1>3, AppliedFacts
<1>5. ASSUME NEW v \in Worker, v = w \/ \E o \in Objects : v = [w EXCEPT !.declared = @ \cup {o}],
             \/ w' = Unresolved(v)
             \/ w' = Failed(v)
             \/ w.pc = "walk" /\ Node \notin Ignored(w.g) /\ w' = [v EXCEPT !.pc = "apply"]
      PROVE  Moves /\ w' \in Worker
  <2>0. /\ v.pc = w.pc /\ v.g = w.g /\ v.i = w.i /\ v.prior = w.prior
        /\ v.superset = w.superset /\ v.cands = w.cands /\ v.conflict = w.conflict
        /\ v.applied = w.applied /\ v.observed = w.observed
        /\ v.hard = w.hard /\ v.unresolved = w.unresolved
    BY <1>0, <1>5, WalkFields
  <2>1. CASE w' = Unresolved(v)
    <3>1. w' = [v EXCEPT !.pc = "walk", !.i = @ + 1, !.unresolved = @ \cup {Node}]
      BY <2>1 DEF Unresolved
    <3>2. w' \in Worker
      BY <1>4, <3>1, WalkRecords
    <3>3. Moves
      BY <2>0, <3>1 DEF Moves, Skips, Worker
    <3> QED
      BY <3>2, <3>3
  <2>2. CASE w' = Failed(v)
    <3>1. w' = [v EXCEPT !.pc = "walk", !.i = @ + 1, !.hard = TRUE]
      BY <2>2 DEF Failed
    <3>2. w' \in Worker
      BY <1>4, <3>1, WalkRecords
    <3>3. Moves
      BY <2>0, <3>1 DEF Moves, Skips, Worker
    <3> QED
      BY <3>2, <3>3
  <2>3. CASE w.pc = "walk" /\ Node \notin Ignored(w.g) /\ w' = [v EXCEPT !.pc = "apply"]
    <3>1. "apply" \in Pc
      BY DEF Pc
    <3>2. w' \in Worker
      BY <2>3, <3>1, WorkerEdits
    <3>3. Moves
      BY <2>0, <2>3 DEF Moves, ToApply, Worker
    <3> QED
      BY <3>2, <3>3
  <2> QED
    BY <1>5, <2>1, <2>2, <2>3
<1>6. ASSUME WalkGated \/ WalkPending PROVE Moves /\ w' \in Worker
  <2>1. w' = Unresolved(w)
    BY <1>6 DEF WalkGated, WalkPending, Continue
  <2> QED
    BY <1>0, <1>5, <2>1
<1>7. ASSUME WalkIgnored PROVE Moves /\ w' \in Worker
  <2>1. w.pc = "walk" /\ Node \in Ignored(w.g) /\ w' = [w EXCEPT !.i = @ + 1, !.ready = @ \cup {Node}]
    BY <1>7 DEF WalkIgnored, Walking, Continue
  <2>2. w' \in Worker
    BY <1>0, <1>4, <2>1, WalkRecords
  <2>3. Moves
    BY <1>0, <2>1 DEF Moves, Skips, Worker
  <2> QED
    BY <2>2, <2>3
<1>8. ASSUME NEW out \in Outcomes, WalkGet(out) PROVE Moves /\ w' \in Worker
  <2> DEFINE v == [w EXCEPT !.declared = @ \cup {Target}]
  <2>1. v \in Worker /\ \E o \in Objects : v = [w EXCEPT !.declared = @ \cup {o}]
    BY <1>0, <1>4, WalkRecords
  <2>2. \/ w' = Unresolved(v)
        \/ w' = Failed(v)
        \/ w.pc = "walk" /\ Node \notin Ignored(w.g) /\ w' = [v EXCEPT !.pc = "apply"]
    BY <1>8 DEF WalkGet, Walking, Continue
  <2> HIDE DEF v
  <2> QED
    BY <1>5, <2>1, <2>2
<1>9. ASSUME NEW out \in Outcomes, WalkApply(out) PROVE Moves /\ w' \in Worker
  <2> DEFINE r == IF AppliedObject.ready THEN w.ready \cup {Node} ELSE w.ready
             a == [obj |-> Target, uid |-> AppliedObject.uid]
  <2>1. \/ w' = Failed(w)
        \/ w' = [w EXCEPT !.pc = "walk", !.i = @ + 1, !.applied = @ \cup {a},
                          !.observed = @ \cup {Node}, !.ready = r]
    BY <1>9 DEF WalkApply
  <2>2. w.pc = "apply" /\ a \in [obj : Objects, uid : Nat] /\ r \in SUBSET Nodes
    BY <1>0, <1>4, <1>9 DEF WalkApply, Worker
  <2>3. CASE w' = Failed(w)
    BY <1>0, <1>5, <2>3
  <2>4. CASE w' # Failed(w)
    <3> HIDE DEF r
    <3>1. w' = [w EXCEPT !.pc = "walk", !.i = @ + 1, !.applied = @ \cup {a},
                         !.observed = @ \cup {Node}, !.ready = r]
      BY <2>1, <2>4
    <3>2. /\ w'.g = w.g /\ w'.prior = w.prior /\ w'.superset = w.superset
          /\ w'.cands = w.cands /\ w'.conflict = w.conflict
          /\ w'.pc = "walk" /\ w'.i = w.i + 1
          /\ w'.hard = w.hard /\ w'.unresolved = w.unresolved
          /\ w'.applied = w.applied \cup {a}
          /\ w'.observed = w.observed \cup {Node}
      BY <1>0, <3>1 DEF Worker
    <3>3. w' \in Worker
      <4> HIDE DEF a
      <4> QED
        BY <1>0, <1>4, <2>2, <3>1, WalkRecords
    <3>4. Moves
      BY <2>2, <3>2 DEF Moves, Applies
    <3> QED
      BY <3>3, <3>4
  <2> QED
    BY <2>3, <2>4
<1> QED
  BY <1>1, <1>2, <1>3, <1>6, <1>7, <1>8, <1>9

LEMMA TypedWalk ==
    ASSUME Typed,
           \/ WalkGated \/ WalkIgnored \/ WalkPending
           \/ \E out \in Outcomes : WalkGet(out) \/ WalkApply(out)
    PROVE  Typed'
<1>1. /\ w.pc \in {"walk", "apply"} /\ w.g \in Graphs /\ w.i \in DOMAIN w.g.walk
      /\ Moves /\ w' \in Worker
  BY WalkMoves
<1>2. HasGraph'
  BY <1>1 DEF HasGraph, Applying, Moves, ToApply, Skips, Applies
<1>3. objs' \in [Objects -> Object]
  <2>1. AppliedObject \in Object /\ Target \in Objects /\ objs \in [Objects -> Object]
    BY <1>1, AppliedFacts DEF Typed
  <2>2. objs' = objs \/ objs' = [objs EXCEPT ![Target] = AppliedObject]
    BY DEF WalkGated, WalkIgnored, WalkPending, WalkGet, WalkApply
  <2> QED
    BY <2>1, <2>2
<1>4. watched' \subseteq Objects /\ queued' \in BOOLEAN /\ UNCHANGED <<inst, graph, edits>>
  BY DEF Typed, WalkGated, WalkIgnored, WalkPending, WalkGet, WalkApply, Continue
<1>5. faults' \in 0..MaxFaults
  <2>1. faults \in 0..MaxFaults /\ "pending" \in FaultKinds
    BY DEF Typed, FaultKinds
  <2> QED
    BY <2>1, FaultsType DEF WalkGated, WalkIgnored, WalkPending, WalkGet, WalkApply
<1> QED
  BY <1>1, <1>2, <1>3, <1>4, <1>5 DEF Typed

\* The objects of the graph stay what they are in the rest of the worker's steps.
Rest ==
    /\ w'.g = w.g /\ w'.i = w.i /\ w'.applied = w.applied /\ w'.observed = w.observed
    /\ w'.unresolved = w.unresolved /\ w'.hard = w.hard
    /\ w'.superset = w.superset /\ w'.prior = w.prior

LEMMA RestEdits ==
    ASSUME w \in Worker
    PROVE  /\ \A p \in Pc : w' = [w EXCEPT !.pc = p] =>
                 w' \in Worker /\ Rest /\ w'.pc = p /\ w'.cands = w.cands /\ w'.conflict = w.conflict
           /\ \A p \in Pc : \A C \in SUBSET Candidate : w' = [w EXCEPT !.pc = p, !.cands = C] =>
                 w' \in Worker /\ Rest /\ w'.pc = p /\ w'.cands = C /\ w'.conflict = w.conflict
<1>1. ASSUME NEW p \in Pc, w' = [w EXCEPT !.pc = p]
      PROVE  w' \in Worker /\ Rest /\ w'.pc = p /\ w'.cands = w.cands /\ w'.conflict = w.conflict
  <2>1. w' \in Worker
    BY <1>1, WorkerEdits
  <2> QED
    BY <1>1, <2>1 DEF Worker, Rest
<1>2. ASSUME NEW p \in Pc, NEW C \in SUBSET Candidate, w' = [w EXCEPT !.pc = p, !.cands = C]
      PROVE  w' \in Worker /\ Rest /\ w'.pc = p /\ w'.cands = C /\ w'.conflict = w.conflict
  <2>1. w' \in Worker
    BY <1>2, WorkerEdits
  <2> QED
    BY <1>2, <2>1 DEF Worker, Rest
<1> QED
  BY <1>1, <1>2

\* One candidate less.
Drops(c) == /\ Rest /\ w'.pc = w.pc /\ w'.cands = w.cands \ {c}
            /\ w.conflict => w'.conflict

LEMMA DropEdits ==
    ASSUME w \in Worker, NEW c
    PROVE  /\ w' = [w EXCEPT !.cands = @ \ {c}] => w' \in Worker /\ Drops(c)
           /\ \A b \in BOOLEAN : w' = [w EXCEPT !.cands = @ \ {c}, !.conflict = @ \/ b] =>
                 w' \in Worker /\ Drops(c) /\ (b => w'.conflict)
<1>0. w.cands \ {c} \in SUBSET Candidate /\ w.conflict \in BOOLEAN
  BY DEF Worker
<1>1. ASSUME w' = [w EXCEPT !.cands = @ \ {c}]
      PROVE  w' \in Worker /\ Drops(c)
  <2>1. w' \in Worker
    BY <1>0, <1>1 DEF Worker
  <2> QED
    BY <1>1, <2>1 DEF Worker, Drops, Rest
<1>2. ASSUME NEW b \in BOOLEAN, w' = [w EXCEPT !.cands = @ \ {c}, !.conflict = @ \/ b]
      PROVE  w' \in Worker /\ Drops(c) /\ (b => w'.conflict)
  <2> DEFINE x == w.conflict \/ b
  <2>1. w' = [w EXCEPT !.cands = @ \ {c}, !.conflict = x] /\ x \in BOOLEAN
    BY <1>0, <1>2
  <2> HIDE DEF x
  <2>2. w' \in Worker
    BY <1>0, <2>1 DEF Worker
  <2>3. Rest /\ w'.pc = w.pc /\ w'.cands = w.cands \ {c} /\ w'.conflict = x
    BY <2>1, <2>2 DEF Worker, Rest
  <2> QED
    BY <2>2, <2>3 DEF Drops, x
<1> QED
  BY <1>1, <1>2

-----------------------------------------------------------------------------
(* What becomes of an object in a step.                                    *)

Same(o) ==
    /\ objs'[o].uid = objs[o].uid /\ objs'[o].member = objs[o].member
    /\ objs'[o].node = objs[o].node /\ objs'[o].order = objs[o].order
    /\ objs'[o].st = objs[o].st \/ (objs[o].st = "live" /\ objs'[o].st = "terminating")
Gone(o) == objs'[o].st = "none" /\ objs'[o].uid = objs[o].uid /\ ~objs'[o].member
Anew(o) == /\ objs[o].st = "none" /\ objs'[o].uid = objs[o].uid + 1
           /\ ~objs'[o].member
Freed(o) == /\ objs'[o].uid = objs[o].uid /\ objs'[o].st = objs[o].st
            /\ ~objs'[o].member
Ages == \A o \in Objects : Same(o) \/ Gone(o) \/ Anew(o)

LEMMA DeletedFacts ==
    ASSUME objs \in [Objects -> Object], NEW c \in Candidate, objs' = Deleted(c)
    PROVE  /\ objs' \in [Objects -> Object] /\ Ages
           /\ \A o \in Objects : o # c.obj => objs'[o] = objs[o]
           /\ objs'[c.obj].st # "live" \/ DeleteConflict(c)
           /\ objs'[c.obj].st # objs[c.obj].st => objs[c.obj].uid = c.was.uid /\ objs[c.obj].st # "none"
<1>0. c.obj \in Objects /\ objs[c.obj] \in Object
  BY DEF Candidate
<1>1. CASE objs[c.obj].st = "none" \/ DeleteConflict(c)
  BY <1>0, <1>1 DEF Deleted, Ages, Same
<1>2. CASE objs[c.obj].st # "none" /\ ~DeleteConflict(c)
  <2>1. objs' = [objs EXCEPT ![c.obj].st = "terminating"]
    BY <1>2 DEF Deleted
  <2>2. objs'[c.obj] = [objs[c.obj] EXCEPT !.st = "terminating"]
    BY <1>0, <2>1
  <2>3. objs[c.obj].st \in {"live", "terminating"}
    BY <1>0, <1>2 DEF Object
  <2>4. objs'[c.obj] \in Object /\ Same(c.obj) /\ objs'[c.obj].st # "live"
    BY <1>0, <2>2, <2>3 DEF Object, Same
  <2>5. \A o \in Objects : o # c.obj => objs'[o] = objs[o]
    BY <2>1
  <2>6. objs' \in [Objects -> Object]
    BY <1>0, <2>1, <2>2, <2>4
  <2>7. Ages
    BY <2>4, <2>5 DEF Ages, Same
  <2> QED
    BY <1>2, <2>4, <2>5, <2>6, <2>7 DEF DeleteConflict
<1> QED
  BY <1>1, <1>2

LEMMA ReleasedFacts ==
    ASSUME objs \in [Objects -> Object], NEW c \in Candidate, objs' = Released(c)
    PROVE  /\ objs' \in [Objects -> Object]
           /\ \A o \in Objects : o # c.obj => objs'[o] = objs[o]
           /\ \/ Freed(c.obj)
              \/ objs' = objs /\ (objs[c.obj].st = "none" \/ ReleaseConflict(c))
<1>0. c.obj \in Objects /\ objs[c.obj] \in Object
  BY DEF Candidate
<1>1. CASE objs[c.obj].st = "none" \/ ReleaseConflict(c)
  BY <1>0, <1>1 DEF Released
<1>2. CASE ~(objs[c.obj].st = "none" \/ ReleaseConflict(c))
  <2> DEFINE x == [objs[c.obj] EXCEPT !.member = FALSE, !.node = NoNode, !.order = 0]
  <2>1. objs' = [objs EXCEPT ![c.obj] = x]
    BY <1>2 DEF Released
  <2>2. x \in Object /\ x.uid = objs[c.obj].uid /\ x.st = objs[c.obj].st /\ ~x.member
    BY <1>0 DEF Object
  <2> HIDE DEF x
  <2> QED
    BY <1>0, <2>1, <2>2 DEF Freed
<1> QED
  BY <1>1, <1>2

LEMMA HasGraphGoesOn ==
    ASSUME HasGraph, Rest,
           w'.pc \in {"deletion", "release", "wave", "finalizer"}
           \/ (Applying /\ w'.pc \in {"list", "prune"})
    PROVE  HasGraph'
BY DEF HasGraph, Rest, Applying

LEMMA TypedGrow ==
    ASSUME Typed, NEW out \in Outcomes, GrowInventory(out)
    PROVE  /\ Typed'
           /\ \/ w' = Idle
              \/ /\ Rest /\ w'.pc = "list" /\ w'.cands = w.cands /\ w'.conflict = w.conflict
                 /\ out = "ok" /\ Completed # {}
<1>0. /\ inst \in Instance /\ w \in Worker /\ HasGraph /\ w.pc = "walk" /\ "list" \in Pc
      /\ w.prior \in Metadata
  BY DEF Typed, GrowInventory, Walked, Pc, Worker
<1>1. inst' \in Instance
  <2>1. PatchInventory(Union(Batch, w.prior), out)
    BY DEF GrowInventory
  <2>2. Union(Batch, w.prior) \in Metadata
    BY <1>0, BatchType, MetadataFacts
  <2> QED
    BY <1>0, <2>1, <2>2, PatchTyped
<1>2. CASE Return(TRUE)
  <2>1. w' \in Worker /\ HasGraph' /\ watched' \subseteq Objects /\ queued' \in BOOLEAN
    BY <1>2, ReturnTyped
  <2> QED
    BY <1>1, <1>2, <2>1, FaultsType DEF GrowInventory, Typed, Return
<1>3. CASE out = "ok" /\ Completed # {} /\ Continue([w EXCEPT !.pc = "list"])
  <2>1. w' = [w EXCEPT !.pc = "list"] /\ watched' \subseteq Objects /\ queued' \in BOOLEAN
    BY <1>3, ContinueTyped
  <2>2. w' \in Worker /\ Rest /\ w'.pc = "list" /\ w'.cands = w.cands /\ w'.conflict = w.conflict
    BY <1>0, <2>1, RestEdits
  <2>3. HasGraph'
    BY <1>0, <2>2, HasGraphGoesOn DEF Applying
  <2>4. Typed'
    BY <1>1, <2>1, <2>2, <2>3, FaultsType DEF GrowInventory, Typed
  <2> QED
    BY <1>3, <2>2, <2>4
<1> QED
  BY <1>2, <1>3 DEF GrowInventory

\* A listing: members as they are, at most one candidate each.
LEMMA ListedFacts ==
    ASSUME objs \in [Objects -> Object], NEW m, NEW keep
    PROVE  /\ Listed(m, keep) \in SUBSET Candidate
           /\ \A c \in Listed(m, keep) :
                 /\ c.obj \in Members /\ c.was = objs[c.obj] /\ InScope(c.obj, m)
                 /\ objs[c.obj].uid \notin keep[c.obj]
           /\ \A o \in Members : InScope(o, m) /\ objs[o].uid \notin keep[o] =>
                 \E c \in Listed(m, keep) : c.obj = o
<1> DEFINE X == {x \in Members : InScope(x, m) /\ objs[x].uid \notin keep[x]}
<1>1. X \in SUBSET Objects /\ \A o \in X : o \in Members /\ InScope(o, m) /\ objs[o].uid \notin keep[o]
  BY DEF Members
<1>2. \A o \in Members : InScope(o, m) /\ objs[o].uid \notin keep[o] => o \in X
  OBVIOUS
<1>3. Listed(m, keep) = {[obj |-> o, was |-> objs[o]] : o \in X}
  BY DEF Listed
<1> HIDE DEF X
<1>4. ASSUME NEW c \in Listed(m, keep)
      PROVE  c \in Candidate /\ c.obj \in X /\ c.was = objs[c.obj]
  <2>1. PICK o \in X : c = [obj |-> o, was |-> objs[o]]
    BY <1>3, <1>4
  <2> QED
    BY <1>1, <2>1 DEF Candidate
<1>5. ASSUME NEW o \in X PROVE \E c \in Listed(m, keep) : c.obj = o
  <2>1. [obj |-> o, was |-> objs[o]] \in Listed(m, keep)
    BY <1>3, <1>5
  <2> QED
    BY <2>1
<1> QED
  BY <1>1, <1>2, <1>4, <1>5

Keep == [o \in Objects |-> {a.uid : a \in {b \in w.applied : b.obj = o}}]
Scope == IF w.superset.gks = {} THEN Union(Batch, w.prior) ELSE w.superset

LEMMA TypedList ==
    ASSUME Typed, NEW out \in Outcomes, ListOrphans(out)
    PROVE  /\ Typed' /\ Applying
           /\ \/ w' = Idle
              \/ /\ Rest /\ w'.pc = "prune" /\ w'.conflict = w.conflict
                 /\ w'.cands \subseteq Listed(Scope, Keep)
                 /\ FullyResolved => w'.cands = Listed(Scope, Keep)
                 /\ ~FullyResolved => \A c \in w'.cands : c.was.node \in Completed
<1>0. /\ inst \in Instance /\ w \in Worker /\ HasGraph /\ Applying /\ "prune" \in Pc
      /\ objs \in [Objects -> Object]
  BY DEF Typed, ListOrphans, Walked, Pc, Applying
<1> DEFINE C == IF FullyResolved THEN Listed(Scope, Keep)
                ELSE {c \in Listed(Scope, Keep) : c.was.node \in Completed}
<1>1. C \in SUBSET Candidate
  BY <1>0, ListedFacts
<1>2. \/ Return(TRUE)
      \/ Continue([w EXCEPT !.pc = "prune", !.cands = C])
  BY DEF ListOrphans, Keep, Scope
<1>3. CASE Return(TRUE)
  <2>1. w' \in Worker /\ HasGraph' /\ watched' \subseteq Objects /\ queued' \in BOOLEAN
    BY <1>3, ReturnTyped
  <2> QED
    BY <1>0, <1>3, <2>1, FaultsType DEF ListOrphans, Typed, Return
<1>4. CASE Continue([w EXCEPT !.pc = "prune", !.cands = C])
  <2> HIDE DEF C
  <2>1. w' = [w EXCEPT !.pc = "prune", !.cands = C] /\ watched' \subseteq Objects /\ queued' \in BOOLEAN
    BY <1>4, ContinueTyped
  <2>2. w' \in Worker /\ Rest /\ w'.pc = "prune" /\ w'.cands = C /\ w'.conflict = w.conflict
    BY <1>0, <1>1, <2>1, RestEdits
  <2>3. HasGraph'
    BY <1>0, <2>2, HasGraphGoesOn
  <2>4. Typed'
    BY <2>1, <2>2, <2>3, FaultsType DEF ListOrphans, Typed
  <2> QED
    BY <1>0, <2>2, <2>4 DEF C
<1> QED
  BY <1>2, <1>3, <1>4

\* A candidate is dealt with, or the reconcile ends.
LEMMA TypedDrop ==
    ASSUME Typed, NEW out \in Outcomes, NEW c \in w.cands,
           PruneOrphan(c, out) \/ ReleaseOrphanedResource(c, out) \/ DeleteInWave(c, out)
    PROVE  /\ Typed' /\ c \in Candidate /\ w.pc \in {"prune", "release", "wave"}
           /\ UNCHANGED inst
           /\ objs' = objs \/ objs' = Deleted(c) \/ objs' = Released(c)
           /\ w.pc = "release" /\ objs' # objs => objs' = Released(c)
           /\ w.pc = "wave" /\ objs' # objs => objs' = Deleted(c)
           /\ \/ w' = Idle
              \/ /\ Drops(c)
                 /\ w.pc = "prune" /\ c.obj \in Orphaned =>
                       objs' = Released(c) /\ (ReleaseConflict(c) => w'.conflict)
                 /\ w.pc = "prune" /\ c.obj \notin Orphaned =>
                       objs' = Deleted(c) /\ (DeleteConflict(c) => w'.conflict)
                 /\ w.pc = "release" => objs' = Released(c) /\ (ReleaseConflict(c) => w'.conflict)
<1>0. /\ w \in Worker /\ HasGraph /\ objs \in [Objects -> Object] /\ c \in Candidate
      /\ w.pc \in {"prune", "release", "wave"}
  BY DEF Typed, Worker, PruneOrphan, ReleaseOrphanedResource, DeleteInWave
<1>1. /\ UNCHANGED <<inst, graph, edits>>
      /\ objs' = objs \/ objs' = Deleted(c) \/ objs' = Released(c)
      /\ w.pc = "release" /\ objs' # objs => objs' = Released(c)
      /\ w.pc = "wave" /\ objs' # objs => objs' = Deleted(c)
  BY DEF PruneOrphan, ReleaseOrphanedResource, DeleteInWave
<1>2. objs' \in [Objects -> Object]
  BY <1>0, <1>1, DeletedFacts, ReleasedFacts
<1>3. faults' \in 0..MaxFaults
  BY FaultsType DEF PruneOrphan, ReleaseOrphanedResource, DeleteInWave, Typed
<1>4. ASSUME (\E again \in BOOLEAN : Return(again)) \/ ReturnError
      PROVE  Typed' /\ w' = Idle
  <2>1. w' \in Worker /\ HasGraph' /\ watched' \subseteq Objects /\ queued' \in BOOLEAN
    BY <1>4, ReturnTyped
  <2>2. w' = Idle
    BY <1>4 DEF Return, ReturnError
  <2> QED
    BY <1>1, <1>2, <1>3, <2>1, <2>2 DEF Typed
<1>5. ASSUME w' \in Worker, Drops(c), UNCHANGED <<queued, watched>>
      PROVE  Typed'
  <2>1. HasGraph'
    BY <1>0, <1>5 DEF HasGraph, Drops, Rest, Applying
  <2> QED
    BY <1>1, <1>2, <1>3, <1>5, <2>1 DEF Typed
<1>6. CASE PruneOrphan(c, out)
  <2> DEFINE b == IF c.obj \in Orphaned THEN ReleaseConflict(c) ELSE DeleteConflict(c)
  <2>1. b \in BOOLEAN /\ w.pc = "prune"
    BY <1>6 DEF PruneOrphan, ReleaseConflict, DeleteConflict
  <2>2. \/ Return(TRUE)
        \/ /\ out = "ok"
           /\ w' = [w EXCEPT !.cands = @ \ {c}, !.conflict = @ \/ b]
           /\ UNCHANGED <<queued, watched>>
    BY <1>6 DEF PruneOrphan, Continue
  <2>3. out = "ok" => objs' = IF c.obj \in Orphaned THEN Released(c) ELSE Deleted(c)
    BY <1>6 DEF PruneOrphan, TakesEffect
  <2>4. CASE Return(TRUE)
    BY <1>0, <1>1, <1>4, <2>1, <2>4
  <2>5. CASE out = "ok" /\ w' = [w EXCEPT !.cands = @ \ {c}, !.conflict = @ \/ b]
             /\ UNCHANGED <<queued, watched>>
    <3> HIDE DEF b
    <3>1. w' \in Worker /\ Drops(c) /\ (b => w'.conflict)
      BY <1>0, <2>1, <2>5, DropEdits
    <3>2. Typed'
      BY <1>5, <2>5, <3>1
    <3> QED
      BY <1>0, <1>1, <2>1, <2>3, <2>5, <3>1, <3>2 DEF b
  <2> QED
    BY <2>2, <2>4, <2>5
<1>7. CASE ReleaseOrphanedResource(c, out)
  <2> DEFINE b == ReleaseConflict(c)
  <2>1. b \in BOOLEAN /\ w.pc = "release"
    BY <1>7 DEF ReleaseOrphanedResource, ReleaseConflict
  <2>2. \/ ReturnError
        \/ /\ out = "ok"
           /\ w' = [w EXCEPT !.cands = @ \ {c}, !.conflict = @ \/ b]
           /\ UNCHANGED <<queued, watched>>
    BY <1>7 DEF ReleaseOrphanedResource, Continue
  <2>3. out = "ok" => objs' = Released(c)
    BY <1>7 DEF ReleaseOrphanedResource, TakesEffect
  <2>4. CASE ReturnError
    BY <1>0, <1>1, <1>4, <2>1, <2>4
  <2>5. CASE out = "ok" /\ w' = [w EXCEPT !.cands = @ \ {c}, !.conflict = @ \/ b]
             /\ UNCHANGED <<queued, watched>>
    <3> HIDE DEF b
    <3>1. w' \in Worker /\ Drops(c) /\ (b => w'.conflict)
      BY <1>0, <2>1, <2>5, DropEdits
    <3>2. Typed'
      BY <1>5, <2>5, <3>1
    <3> QED
      BY <1>0, <1>1, <2>1, <2>3, <2>5, <3>1, <3>2 DEF b
  <2> QED
    BY <2>2, <2>4, <2>5
<1>8. CASE DeleteInWave(c, out)
  <2>1. w.pc = "wave"
    BY <1>8 DEF DeleteInWave
  <2>2. \/ ReturnError
        \/ w' = [w EXCEPT !.cands = @ \ {c}] /\ UNCHANGED <<queued, watched>>
    BY <1>8 DEF DeleteInWave, Continue
  <2>3. CASE ReturnError
    BY <1>0, <1>1, <1>4, <2>1, <2>3
  <2>4. CASE w' = [w EXCEPT !.cands = @ \ {c}] /\ UNCHANGED <<queued, watched>>
    <3>1. w' \in Worker /\ Drops(c)
      BY <1>0, <2>4, DropEdits
    <3>2. Typed'
      BY <1>5, <2>4, <3>1
    <3> QED
      BY <1>0, <1>1, <2>1, <3>1, <3>2
  <2> QED
    BY <2>2, <2>3, <2>4
<1> QED
  BY <1>6, <1>7, <1>8

LEMMA TypedDiscover ==
    ASSUME Typed, NEW out \in Outcomes, DiscoverDeletionInventory(out)
    PROVE  /\ Typed'
           /\ \/ w' = Idle
              \/ /\ Rest /\ w'.pc = "release" /\ w'.conflict = w.conflict
                 /\ w'.cands = Listed(inst.inv, [o \in Objects |-> {}])
<1>0. w \in Worker /\ HasGraph /\ "release" \in Pc /\ objs \in [Objects -> Object]
  BY DEF Typed, Pc
<1> DEFINE C == Listed(inst.inv, [o \in Objects |-> {}])
<1>1. C \in SUBSET Candidate
  BY <1>0, ListedFacts
<1>2. \/ ReturnError
      \/ Continue([w EXCEPT !.pc = "release", !.cands = C])
  BY DEF DiscoverDeletionInventory
<1>3. CASE ReturnError
  <2>1. w' \in Worker /\ HasGraph' /\ watched' \subseteq Objects /\ queued' \in BOOLEAN
    BY <1>3, ReturnTyped
  <2> QED
    BY <1>3, <2>1, FaultsType DEF DiscoverDeletionInventory, Typed, ReturnError
<1>4. CASE Continue([w EXCEPT !.pc = "release", !.cands = C])
  <2> HIDE DEF C
  <2>1. w' = [w EXCEPT !.pc = "release", !.cands = C] /\ watched' \subseteq Objects /\ queued' \in BOOLEAN
    BY <1>4, ContinueTyped
  <2>2. w' \in Worker /\ Rest /\ w'.pc = "release" /\ w'.cands = C /\ w'.conflict = w.conflict
    BY <1>0, <1>1, <2>1, RestEdits
  <2>3. HasGraph'
    BY <1>0, <2>2, HasGraphGoesOn
  <2>4. Typed'
    BY <2>1, <2>2, <2>3, FaultsType DEF DiscoverDeletionInventory, Typed
  <2> QED
    BY <2>2, <2>4 DEF C
<1> QED
  BY <1>2, <1>3, <1>4

LEMMA TypedChoose ==
    ASSUME Typed, ChooseDeletionWave
    PROVE  /\ Typed'
           /\ \/ w' = Idle
              \/ /\ Rest /\ w'.pc = "finalizer" /\ w'.cands = {} /\ w.cands = {} /\ ~w.conflict
              \/ /\ Rest /\ w'.pc = "wave" /\ ~w.conflict
                 /\ w'.cands \subseteq HighestDeletionWave(w.cands)
<1>0. /\ w \in Worker /\ HasGraph /\ "finalizer" \in Pc /\ "wave" \in Pc
      /\ w.cands \in SUBSET Candidate
  BY DEF Typed, Pc, Worker
<1> DEFINE C == {c \in HighestDeletionWave(w.cands) : c.was.st # "terminating"}
<1>1. C \in SUBSET Candidate /\ C \subseteq HighestDeletionWave(w.cands)
  BY <1>0 DEF HighestDeletionWave
<1>2. \/ Return(TRUE)
      \/ ~w.conflict /\ w.cands = {} /\ Continue([w EXCEPT !.pc = "finalizer"])
      \/ ~w.conflict /\ Continue([w EXCEPT !.pc = "wave", !.cands = C])
  BY DEF ChooseDeletionWave
<1> HIDE DEF C
<1>3. CASE Return(TRUE)
  <2>1. w' \in Worker /\ HasGraph' /\ watched' \subseteq Objects /\ queued' \in BOOLEAN
    BY <1>3, ReturnTyped
  <2> QED
    BY <1>3, <2>1 DEF ChooseDeletionWave, Typed, Return
<1>4. CASE ~w.conflict /\ w.cands = {} /\ Continue([w EXCEPT !.pc = "finalizer"])
  <2>1. w' = [w EXCEPT !.pc = "finalizer"] /\ watched' \subseteq Objects /\ queued' \in BOOLEAN
    BY <1>4, ContinueTyped
  <2>2. w' \in Worker /\ Rest /\ w'.pc = "finalizer" /\ w'.cands = w.cands
    BY <1>0, <2>1, RestEdits
  <2>3. HasGraph'
    BY <1>0, <2>2, HasGraphGoesOn
  <2> QED
    BY <1>4, <2>1, <2>2, <2>3 DEF ChooseDeletionWave, Typed
<1>5. CASE ~w.conflict /\ Continue([w EXCEPT !.pc = "wave", !.cands = C])
  <2>1. w' = [w EXCEPT !.pc = "wave", !.cands = C] /\ watched' \subseteq Objects /\ queued' \in BOOLEAN
    BY <1>5, ContinueTyped
  <2>2. w' \in Worker /\ Rest /\ w'.pc = "wave" /\ w'.cands = C
    BY <1>0, <1>1, <2>1, RestEdits
  <2>3. HasGraph'
    BY <1>0, <2>2, HasGraphGoesOn
  <2> QED
    BY <1>1, <1>5, <2>1, <2>2, <2>3 DEF ChooseDeletionWave, Typed
<1> QED
  BY <1>2, <1>3, <1>4, <1>5

LEMMA TypedEnds ==
    ASSUME Typed, \/ EndWave
                  \/ \E out \in Outcomes : AlignInventory(out) \/ RemoveFinalizer(out)
    PROVE  Typed' /\ w' = Idle
<1>0. inst \in Instance /\ w \in Worker /\ HasGraph
  BY DEF Typed
<1>1. CASE EndWave
  <2>1. Return(TRUE)
    BY <1>1 DEF EndWave
  <2>2. w' \in Worker /\ HasGraph' /\ watched' \subseteq Objects /\ queued' \in BOOLEAN
    BY <2>1, ReturnTyped
  <2> QED
    BY <1>1, <2>1, <2>2 DEF EndWave, Typed, Return
<1>2. ASSUME NEW out \in Outcomes, AlignInventory(out) PROVE Typed' /\ w' = Idle
  <2>1. inst' \in Instance
    <3>1. inst' = inst \/ PatchInventory(Batch, out)
      BY <1>2 DEF AlignInventory
    <3> QED
      BY <1>0, <3>1, BatchType, PatchTyped
  <2>2. \E again \in BOOLEAN : Return(again)
    <3>1. (NotReady \/ out # "ok") \in BOOLEAN
      BY DEF NotReady
    <3>2. Return(NotReady \/ out # "ok") \/ Return(TRUE)
      BY <1>2 DEF AlignInventory
    <3> QED
      BY <3>1, <3>2 DEF NotReady
  <2>3. w' \in Worker /\ HasGraph' /\ watched' \subseteq Objects /\ queued' \in BOOLEAN
    BY <2>2, ReturnTyped
  <2>4. w' = Idle
    BY <2>2 DEF Return
  <2> QED
    BY <1>2, <2>1, <2>3, <2>4, FaultsType DEF AlignInventory, Typed
<1>3. ASSUME NEW out \in Outcomes, RemoveFinalizer(out) PROVE Typed' /\ w' = Idle
  <2>1. inst' \in Instance /\ w' = Idle /\ w' \in Worker /\ HasGraph'
    BY <1>0, <1>3, ConstantObjects, IdleShape DEF RemoveFinalizer, HasGraph, Applying
  <2>2. watched' \subseteq Objects /\ queued' \in BOOLEAN
    BY <1>3 DEF RemoveFinalizer, Typed
  <2> QED
    BY <1>3, <2>1, <2>2, FaultsType DEF RemoveFinalizer, Typed
<1> QED
  BY <1>1, <1>2, <1>3

\* Others act on an object.
Others(o) == ObjectReady(o) \/ ObjectGone(o) \/ DeleteObject(o) \/ RecreateObject(o)

LEMMA OthersFacts ==
    ASSUME Typed, NEW o \in Objects, Others(o)
    PROVE  Typed' /\ Ages /\ UNCHANGED <<inst, w>>
<1>0. objs \in [Objects -> Object] /\ objs[o] \in Object /\ objs[o].uid \in Nat
      /\ UNCHANGED <<inst, graph, watched, w, edits>>
  BY DEF Typed, Object, Others, ObjectReady, ObjectGone, DeleteObject, RecreateObject
<1>1. ASSUME NEW x \in Object, objs' = [objs EXCEPT ![o] = x],
             \/ x = [objs[o] EXCEPT !.ready = TRUE]
             \/ x = Absent(objs[o].uid)
             \/ objs[o].st = "live" /\ x = [objs[o] EXCEPT !.st = "terminating"]
             \/ objs[o].st = "none" /\ x.uid = objs[o].uid + 1 /\ ~x.member
      PROVE  objs' \in [Objects -> Object] /\ Ages
  <2>1. objs'[o] = x /\ objs' \in [Objects -> Object]
        /\ \A y \in Objects : y # o => objs'[y] = objs[y]
    BY <1>0, <1>1
  <2>2. Same(o) \/ Gone(o) \/ Anew(o)
    BY <1>0, <1>1, <2>1 DEF Same, Gone, Anew, Object, Absent
  <2> QED
    BY <2>1, <2>2 DEF Ages, Same
<1>2. objs' \in [Objects -> Object] /\ Ages
  <2>1. CASE ObjectReady(o)
    <3>1. objs' = [objs EXCEPT ![o] = [objs[o] EXCEPT !.ready = TRUE]]
      BY <1>0, <2>1 DEF ObjectReady
    <3>2. [objs[o] EXCEPT !.ready = TRUE] \in Object
      BY <1>0 DEF Object
    <3> QED
      BY <1>1, <3>1, <3>2
  <2>2. CASE ObjectGone(o)
    <3>1. objs' = [objs EXCEPT ![o] = Absent(objs[o].uid)] /\ Absent(objs[o].uid) \in Object
      BY <1>0, <2>2, ConstantObjects DEF ObjectGone
    <3> QED
      BY <1>1, <3>1
  <2>3. CASE DeleteObject(o)
    <3>1. objs' = [objs EXCEPT ![o] = [objs[o] EXCEPT !.st = "terminating"]] /\ objs[o].st = "live"
      BY <1>0, <2>3 DEF DeleteObject
    <3>2. [objs[o] EXCEPT !.st = "terminating"] \in Object
      BY <1>0 DEF Object
    <3> QED
      BY <1>1, <3>1, <3>2
  <2>4. CASE RecreateObject(o)
    <3> DEFINE x == [Absent(objs[o].uid + 1) EXCEPT !.st = "live", !.ready = TRUE]
    <3>1. objs' = [objs EXCEPT ![o] = x] /\ objs[o].st = "none"
      BY <2>4 DEF RecreateObject
    <3>2. Absent(objs[o].uid + 1) \in Object
      BY <1>0, ConstantObjects
    <3>3. x \in Object /\ x.uid = objs[o].uid + 1 /\ ~x.member
      BY <3>2 DEF Object, Absent
    <3> HIDE DEF x
    <3> QED
      BY <1>1, <3>1, <3>3
  <2> QED
    BY <2>1, <2>2, <2>3, <2>4 DEF Others
<1>3. faults' \in 0..MaxFaults
  <2>1. "delete" \in FaultKinds /\ "recreate" \in FaultKinds
    BY DEF FaultKinds
  <2> QED
    BY <2>1, FaultsType DEF Typed, Others, ObjectReady, ObjectGone, DeleteObject, RecreateObject
<1>4. queued' \in BOOLEAN
  BY DEF Typed, Others, ObjectReady, ObjectGone, DeleteObject, RecreateObject, Event
<1>5. HasGraph'
  BY <1>0 DEF Typed, HasGraph, Applying
<1> QED
  BY <1>0, <1>2, <1>3, <1>4, <1>5 DEF Typed

\* Users act on the instance, the graph is replaced or the process restarts.
Users ==
    \/ \E s \in BOOLEAN : CreateInstance(s)
    \/ DeleteInstance
    \/ Suspend
    \/ \E g \in Graphs \cup {NoGraph} : ChangeGraph(g)

LEMMA UsersFacts ==
    ASSUME Typed, Users
    PROVE  Typed' /\ UNCHANGED <<objs, w>>
<1>0. inst \in Instance /\ UNCHANGED <<objs, watched, w, faults>>
  BY DEF Typed, Users, CreateInstance, DeleteInstance, Suspend, ChangeGraph
<1>1. inst' \in Instance
  <2>1. ASSUME NEW s \in BOOLEAN, CreateInstance(s) PROVE inst' \in Instance
    BY <2>1, ConstantObjects DEF CreateInstance, Instance
  <2>2. CASE DeleteInstance
    BY <1>0, <2>2, ConstantObjects DEF DeleteInstance, Instance
  <2>3. CASE Suspend
    BY <1>0, <2>3 DEF Suspend, Instance
  <2>4. ASSUME NEW g, ChangeGraph(g) PROVE inst' \in Instance
    BY <1>0, <2>4 DEF ChangeGraph
  <2> QED
    BY <2>1, <2>2, <2>3, <2>4 DEF Users
<1>2. edits' \in 0..MaxEdits
  <2>1. edits < MaxEdits /\ edits' = edits + 1
    BY DEF Users, CreateInstance, DeleteInstance, Suspend, ChangeGraph, Edit
  <2> QED
    BY <2>1, InstanceReconcileAssumption DEF Typed
<1>3. graph' \in Graphs \cup {NoGraph} /\ queued' \in BOOLEAN
  BY DEF Typed, Users, CreateInstance, DeleteInstance, Suspend, ChangeGraph
<1>4. HasGraph'
  BY <1>0 DEF Typed, HasGraph, Applying
<1> QED
  BY <1>0, <1>1, <1>2, <1>3, <1>4 DEF Typed

LEMMA RestartFacts ==
    ASSUME Typed, NEW kind \in {"crash", "upgrade"}, Restart(kind)
    PROVE  Typed' /\ w' = Idle /\ UNCHANGED objs
<1>1. inst' \in Instance
  <2>1. inst' = inst \/ inst' = [inst EXCEPT !.labels = FALSE]
    BY DEF Restart
  <2> QED
    BY <2>1 DEF Typed, Instance
<1>2. w' = Idle /\ w' \in Worker /\ HasGraph'
  BY ConstantObjects, IdleShape DEF Restart, HasGraph, Applying
<1>3. faults' \in 0..MaxFaults
  <2>1. kind \in FaultKinds
    BY DEF FaultKinds
  <2> QED
    BY <2>1, FaultsType DEF Restart, Typed
<1> QED
  BY <1>1, <1>2, <1>3 DEF Restart, Typed

\* Every step is one of these.
StepsOfWalk ==
    \/ WalkGated \/ WalkIgnored \/ WalkPending
    \/ \E out \in Outcomes : WalkGet(out) \/ WalkApply(out)
Drop(c, out) ==
    PruneOrphan(c, out) \/ ReleaseOrphanedResource(c, out) \/ DeleteInWave(c, out)
Ends ==
    EndWave \/ \E out \in Outcomes : AlignInventory(out) \/ RemoveFinalizer(out)

LEMMA NextKinds ==
    ASSUME Next
    PROVE  \/ Start \/ StepsOfWalk \/ ChooseDeletionWave \/ Ends \/ Users
           \/ \E out \in Outcomes : StampInstanceMetadata(out)
           \/ \E out \in Outcomes : PreApplyInventory(out)
           \/ \E out \in Outcomes : GrowInventory(out)
           \/ \E out \in Outcomes : ListOrphans(out)
           \/ \E out \in Outcomes : DiscoverDeletionInventory(out)
           \/ \E out \in Outcomes : \E c \in w.cands : Drop(c, out)
           \/ \E o \in Objects : Others(o)
           \/ \E kind \in {"crash", "upgrade"} : Restart(kind)
BY Zenon DEF Next, Work, Environment, StepsOfWalk, Drop, Ends, Users, Others

LEMMA TypedStep == Typed /\ [Next]_vars => Typed'
<1> SUFFICES ASSUME Typed, [Next]_vars PROVE Typed'
  OBVIOUS
<1>1. CASE UNCHANGED vars
  BY <1>1 DEF vars, Typed, HasGraph, Applying
<1>2. CASE Next
  BY <1>2, NextKinds, TypedStart, TypedWalk, TypedChoose, TypedEnds, UsersFacts, TypedStamp,
     TypedPreApply, TypedGrow, TypedList, TypedDiscover, TypedDrop, OthersFacts, RestartFacts
     DEF StepsOfWalk, Drop, Ends
<1> QED
  BY <1>1, <1>2

LEMMA TypedHolds == Spec => []Typed
BY TypedInit, TypedStep, PTL DEF Spec

\* Every variable keeps its type, and the worker has a graph wherever it reads one
\* and is inside the walk when it applies, whatever the graphs, edits and faults.
THEOREM InstanceTypeCorrect == Spec => []TypeOK
<1>1. Typed => TypeOK
  <2> SUFFICES ASSUME Typed PROVE TypeOK
    OBVIOUS
  <2>1. w \in Worker /\ HasGraph
    BY DEF Typed
  <2>2. WorkerType
    <3>1. w.pc \in {"inventory", "walk", "apply", "list", "prune"} => w.g # NoGraph
      BY <2>1, InstanceReconcileAssumption DEF HasGraph, Applying
    <3>2. w.pc = "apply" => w.i <= Len(w.g.walk)
      <4> SUFFICES ASSUME w.pc = "apply" PROVE w.i <= Len(w.g.walk)
        OBVIOUS
      <4>1. w.g \in Graphs /\ w.i \in DOMAIN w.g.walk
        BY <2>1 DEF HasGraph, Applying
      <4>2. w.i \in 1..Len(w.g.walk) /\ Len(w.g.walk) \in Nat
        BY <4>1, GraphFacts
      <4> QED
        BY <4>2
    <3> QED
      BY <2>1, <3>1, <3>2 DEF WorkerType, Worker, Pc
  <2> QED
    BY <2>2 DEF Typed, TypeOK
<1> QED
  BY <1>1, TypedHolds, PTL

-----------------------------------------------------------------------------
(* Candidates for deletion.  The one that is there under a candidate's     *)
(* name is the listed one, still a member, still of the same node and      *)
(* wave, or a later one, which is nobody's member.                         *)

Current(c) ==
    /\ objs[c.obj].uid >= c.was.uid
    /\ objs[c.obj].st # "none" /\ (objs[c.obj].member \/ objs[c.obj].uid = c.was.uid)
       => /\ objs[c.obj].uid = c.was.uid
          /\ objs[c.obj].member
          /\ objs[c.obj].node = c.was.node
          /\ objs[c.obj].order = c.was.order

Candidates ==
    /\ w.pc \notin {"prune", "release", "wave"} => w.cands = {}
    /\ \A c, d \in w.cands : c.obj = d.obj => c = d
    /\ \A c \in w.cands : Current(c)

LEMMA IdleFacts ==
    /\ Idle.pc = "idle" /\ Idle.cands = {} /\ Idle.conflict = FALSE /\ Idle.observed = {}
    /\ Idle.applied = {} /\ Idle.unresolved = {} /\ Idle.hard = FALSE /\ Idle.i = 1
BY DEF Idle

\* The first steps of a reconcile begin with nothing.
LEMMA FirstSteps ==
    ASSUME Typed, Start \/ \E out \in Outcomes : StampInstanceMetadata(out)
    PROVE  /\ w' = Idle \/ w'.pc \in {"deletion", "stamp", "inventory"}
           /\ w'.cands = {} \/ w'.cands = w.cands
           /\ w'.pc = "deletion" => Start /\ inst.st = "deleting"
           /\ UNCHANGED objs
<1>0. w \in Worker
  BY DEF Typed
<1>1. CASE Start
  BY <1>1, IdleFacts, ConstantObjects DEF Start, Worker
<1>2. CASE \E out \in Outcomes : StampInstanceMetadata(out)
  <2>1. /\ w.pc = "stamp" /\ UNCHANGED objs
        /\ w' = Idle \/ w' = [w EXCEPT !.pc = "inventory"]
    BY <1>2 DEF StampInstanceMetadata, Return, ReturnError, Continue
  <2> QED
    BY <1>0, <2>1, IdleFacts DEF Worker
<1> QED
  BY <1>1, <1>2

LEMMA CurrentStays ==
    ASSUME objs \in [Objects -> Object], objs' \in [Objects -> Object],
           NEW c \in Candidate, Current(c),
           \/ Same(c.obj) \/ Gone(c.obj) \/ Anew(c.obj) \/ objs'[c.obj] = objs[c.obj]
    PROVE  Current(c)'
<1>1. /\ c.obj \in Objects /\ c.was.uid \in Nat /\ objs[c.obj] \in Object
      /\ objs'[c.obj] \in Object /\ objs[c.obj].uid \in Nat /\ objs'[c.obj].uid \in Nat
  BY DEF Candidate, Object
<1>2. CASE Same(c.obj)
  BY <1>1, <1>2 DEF Current, Same
<1>3. CASE Gone(c.obj)
  BY <1>1, <1>3 DEF Current, Gone
<1>4. CASE Anew(c.obj)
  BY <1>1, <1>4 DEF Current, Anew
<1>5. CASE objs'[c.obj] = objs[c.obj]
  BY <1>1, <1>5 DEF Current
<1> QED
  BY <1>2, <1>3, <1>4, <1>5

\* A fresh list is current.
LEMMA ListedCurrent ==
    ASSUME objs \in [Objects -> Object], NEW m, NEW keep, UNCHANGED objs,
           w'.cands \subseteq Listed(m, keep), w'.pc \in {"prune", "release", "wave"}
    PROVE  Candidates'
<1>1. \A c \in w'.cands : c \in Candidate /\ c.obj \in Members /\ c.was = objs[c.obj]
  BY ListedFacts
<1>2. \A c \in w'.cands : Current(c)'
  <2> SUFFICES ASSUME NEW c \in w'.cands PROVE Current(c)'
    OBVIOUS
  <2>1. /\ c.was = objs[c.obj] /\ objs[c.obj].uid \in Nat /\ objs[c.obj].member
    BY <1>1 DEF Candidate, Object, Members
  <2> QED
    BY <2>1 DEF Current
<1>3. \A c, d \in w'.cands : c.obj = d.obj => c = d
  BY <1>1 DEF Candidate
<1> QED
  BY <1>2, <1>3 DEF Candidates

LEMMA CandidatesStep ==
    ASSUME Typed, Candidates, Next
    PROVE  Candidates'
<1>0. /\ w \in Worker /\ objs \in [Objects -> Object] /\ objs' \in [Objects -> Object]
      /\ w.cands \subseteq Candidate
  BY TypedStep DEF Typed, Worker
<1>1. ASSUME w'.cands = {} PROVE Candidates'
  BY <1>1 DEF Candidates
<1>2. CASE w' = Idle
  BY <1>1, <1>2, IdleFacts
<1>3. CASE Start \/ \E out \in Outcomes : StampInstanceMetadata(out)
  <2>1. w.cands = {}
    BY <1>3 DEF Candidates, Start, StampInstanceMetadata
  <2> QED
    BY <1>1, <1>3, <2>1, FirstSteps
<1>4. ASSUME NEW out \in Outcomes, PreApplyInventory(out) PROVE Candidates'
  <2>1. w.cands = {}
    BY <1>4 DEF Candidates, PreApplyInventory
  <2>2. CASE w' # Idle
    <3>1. w' = [w EXCEPT !.pc = "walk", !.prior = inst.inv,
                         !.superset = Union(CandidateMetadata(w.g), inst.inv)]
      BY <1>4, <2>2, TypedPreApply
    <3>2. w'.cands = {}
      BY <1>0, <2>1, <3>1 DEF Worker
    <3> QED
      BY <1>1, <3>2
  <2> QED
    BY <1>2, <2>2
<1>5. CASE StepsOfWalk
  <2>1. w.pc \in {"walk", "apply"} /\ w'.cands = w.cands
    BY <1>5, WalkMoves DEF StepsOfWalk, Moves
  <2> QED
    BY <1>1, <2>1 DEF Candidates
<1>6. ASSUME NEW out \in Outcomes, GrowInventory(out) PROVE Candidates'
  <2>1. w.cands = {} /\ (w' = Idle \/ w'.cands = w.cands)
    BY <1>6, TypedGrow DEF Candidates, GrowInventory, Walked
  <2> QED
    BY <1>1, <1>2, <2>1
<1>7. ASSUME NEW out \in Outcomes, ListOrphans(out) PROVE Candidates'
  <2>1. UNCHANGED objs
    BY <1>7 DEF ListOrphans
  <2>2. \/ w' = Idle
        \/ w'.cands \subseteq Listed(Scope, Keep) /\ w'.pc = "prune"
    BY <1>7, TypedList
  <2> QED
    BY <1>0, <1>2, <2>1, <2>2, ListedCurrent
<1>8. ASSUME NEW out \in Outcomes, DiscoverDeletionInventory(out) PROVE Candidates'
  <2>1. UNCHANGED objs
    BY <1>8 DEF DiscoverDeletionInventory
  <2>2. \/ w' = Idle
        \/ w'.cands = Listed(inst.inv, [o \in Objects |-> {}]) /\ w'.pc = "release"
    BY <1>8, TypedDiscover
  <2> QED
    BY <1>0, <1>2, <2>1, <2>2, ListedCurrent
<1>9. ASSUME w'.pc \in {"prune", "release", "wave"} \/ w'.pc = w.pc,
             w'.cands \subseteq w.cands,
             \A d \in w'.cands : \/ Same(d.obj) \/ Gone(d.obj) \/ Anew(d.obj)
                                 \/ objs'[d.obj] = objs[d.obj]
      PROVE  Candidates'
  <2>1. \A d \in w'.cands : Current(d)'
    BY <1>0, <1>9, CurrentStays DEF Candidates
  <2>2. w'.pc \notin {"prune", "release", "wave"} => w'.cands = {}
    BY <1>9 DEF Candidates
  <2> QED
    BY <1>9, <2>1, <2>2 DEF Candidates
<1>10. CASE ChooseDeletionWave
  <2>1. UNCHANGED objs
    BY <1>10 DEF ChooseDeletionWave
  <2>2. w' = Idle \/ w'.cands = {} \/ (w'.pc = "wave" /\ w'.cands \subseteq w.cands)
    BY <1>10, TypedChoose DEF HighestDeletionWave
  <2> QED
    BY <1>1, <1>2, <1>9, <2>1, <2>2
<1>11. ASSUME NEW out \in Outcomes, NEW c \in w.cands, Drop(c, out) PROVE Candidates'
  <2>1. /\ c \in Candidate /\ (w' = Idle \/ Drops(c))
        /\ objs' = objs \/ objs' = Deleted(c) \/ objs' = Released(c)
    BY <1>11, TypedDrop DEF Drop
  <2>2. \A o \in Objects : o # c.obj => objs'[o] = objs[o]
    BY <1>0, <2>1, DeletedFacts, ReleasedFacts
  <2>3. CASE Drops(c)
    <3>1. w'.pc = w.pc /\ w'.cands \subseteq w.cands /\ c \notin w'.cands
      BY <2>3 DEF Drops
    <3>2. \A d \in w'.cands : d.obj # c.obj /\ d.obj \in Objects
      BY <1>0, <1>11, <3>1 DEF Candidates, Candidate
    <3> QED
      BY <1>9, <2>2, <3>1, <3>2
  <2> QED
    BY <1>2, <2>1, <2>3
<1>12. CASE Users
  <2>1. UNCHANGED <<objs, w>>
    BY <1>12, UsersFacts
  <2> QED
    BY <1>9, <2>1
<1>13. ASSUME NEW o \in Objects, Others(o) PROVE Candidates'
  <2>1. Ages /\ w' = w
    BY <1>13, OthersFacts
  <2>2. \A d \in w'.cands : Same(d.obj) \/ Gone(d.obj) \/ Anew(d.obj)
    BY <1>0, <2>1 DEF Ages, Candidate
  <2> QED
    BY <1>9, <2>1, <2>2
<1>14. CASE Ends \/ \E kind \in {"crash", "upgrade"} : Restart(kind)
  BY <1>2, <1>14, TypedEnds, RestartFacts DEF Ends
<1> QED
  BY NextKinds, <1>3, <1>4, <1>5, <1>6, <1>7, <1>8, <1>10, <1>11, <1>12, <1>13, <1>14

LEMMA CandidatesHold == Spec => []Candidates
<1>1. Init => Candidates
  BY IdleFacts DEF Init, Candidates
<1>2. Typed /\ Candidates /\ [Next]_vars => Candidates'
  <2>1. ASSUME Candidates, UNCHANGED vars PROVE Candidates'
    BY <2>1 DEF Candidates, Current, vars
  <2> QED
    BY <2>1, CandidatesStep
<1> QED
  BY <1>1, <1>2, TypedHolds, PTL DEF Spec

\* What kro deletes is a candidate, as it was listed.
LEMMA DeletesCandidates ==
    ASSUME Typed, Candidates, Next, NEW o \in Objects, KroDeletes(o)
    PROVE  \E c \in w.cands : /\ c.obj = o /\ objs[o].member
                              /\ objs[o].node = c.was.node /\ objs[o].order = c.was.order
<1>0. /\ w.pc \in {"prune", "wave"} /\ objs[o].st = "live" /\ objs'[o].st = "terminating"
      /\ w' # w /\ objs' # objs /\ objs \in [Objects -> Object]
  BY DEF KroDeletes, Typed
<1>1. ~Start /\ ~StepsOfWalk /\ ~ChooseDeletionWave /\ ~Ends /\ ~Users
  BY <1>0 DEF Start, StepsOfWalk, WalkGated, WalkIgnored, WalkPending, WalkGet, WalkApply,
     Walking, ChooseDeletionWave, Ends, EndWave, AlignInventory, RemoveFinalizer, Users,
     CreateInstance, DeleteInstance, Suspend, ChangeGraph
<1>2. \A out \in Outcomes : /\ ~StampInstanceMetadata(out) /\ ~PreApplyInventory(out)
                            /\ ~GrowInventory(out) /\ ~ListOrphans(out)
                            /\ ~DiscoverDeletionInventory(out)
  BY <1>0 DEF StampInstanceMetadata, PreApplyInventory, GrowInventory, ListOrphans,
     DiscoverDeletionInventory
<1>3. \A x \in Objects : ~Others(x)
  BY <1>0, OthersFacts
<1>4. \A kind : ~Restart(kind)
  BY <1>0 DEF Restart
<1>5. PICK out \in Outcomes : \E c \in w.cands : Drop(c, out)
  BY <1>1, <1>2, <1>3, <1>4, NextKinds
<1>6. PICK c \in w.cands : Drop(c, out)
  BY <1>5
<1>7. /\ c \in Candidate /\ Current(c)
      /\ objs' = Deleted(c) \/ objs' = Released(c)
  BY <1>0, <1>6, TypedDrop DEF Drop, Candidates
<1>8. c.obj = o
  BY <1>0, <1>7, DeletedFacts, ReleasedFacts
<1>9. objs' = Deleted(c)
  BY <1>0, <1>7, <1>8, ReleasedFacts DEF Freed
<1>10. objs[o].uid = c.was.uid /\ objs[o].st # "none"
  BY <1>0, <1>7, <1>8, <1>9, DeletedFacts
<1> QED
  BY <1>7, <1>8, <1>10 DEF Current

\* DeleteOrphan deletes members only: the UID that it sends along spares an object
\* that somebody created in the place of a listed one, whatever comes in between.
THEOREM ForeignSparedHolds == Spec => ForeignSpared
<1>1. ASSUME Typed, Candidates, [Next]_vars
      PROVE  [\A o \in Objects : KroDeletes(o) => objs[o].member]_vars
  BY <1>1, DeletesCandidates
<1> QED
  BY <1>1, TypedHolds, CandidatesHold, PTL DEF Spec, ForeignSpared

-----------------------------------------------------------------------------
(* The walk's books: what was applied, and for which node.                 *)

Member(o) == objs[o].st # "none" /\ objs[o].member
InWalk == w.pc \in {"walk", "apply", "list", "prune"}

\* A reconcile begins with empty books,
Fresh == w.pc \in {"stamp", "inventory"} => w.i = 1 /\ w.applied = {} /\ w.observed = {}

\* walks to the end, and applies the nodes that are not ignored;
Progress ==
    /\ w.pc \in {"list", "prune"} => w.i > Len(w.g.walk)
    /\ w.pc = "apply" => Node \notin Ignored(w.g)

\* the observed nodes are those whose apply is recorded, and a node that was
\* passed is observed, unresolved or ignored, unless something failed;
Tally ==
    InWalk => /\ \A n \in w.observed :
                   /\ \E j \in DOMAIN w.g.walk : j < w.i /\ w.g.walk[j] = n
                   /\ \E a \in w.applied : a.obj = w.g.target[n]
              /\ \A a \in w.applied : \E n \in w.observed : a.obj = w.g.target[n]
              /\ w.hard \/ \A j \in DOMAIN w.g.walk : j < w.i =>
                    w.g.walk[j] \in w.observed \cup w.unresolved \cup Ignored(w.g)

\* a member of a recorded name is the recorded one;
Uids == InWalk => \A a \in w.applied : Member(a.obj) => objs[a.obj].uid = a.uid

\* and no candidate of a prune is what its node still asks for.
Spares ==
    w.pc = "prune" => \A c \in w.cands : \A n \in NodesOf(w.g) \ Ignored(w.g) :
                          w.g.target[n] = c.obj => c.was.node # n

Books == Fresh /\ Progress /\ Tally /\ Uids /\ Spares

\* Only an apply makes members.
KeepsMembers ==
    \A o \in Objects : Member(o)' =>
        /\ Member(o) /\ objs'[o].uid = objs[o].uid /\ objs'[o].node = objs[o].node
        /\ objs'[o].order = objs[o].order /\ (objs'[o].st = "live" => objs[o].st = "live")

LEMMA MembersKept ==
    ASSUME Typed, Next, \A out \in Outcomes : ~WalkApply(out)
    PROVE  KeepsMembers
<1>0. objs \in [Objects -> Object]
  BY DEF Typed
<1>1. ASSUME UNCHANGED objs PROVE KeepsMembers
  BY <1>1 DEF KeepsMembers, Member
<1>2. ASSUME Ages PROVE KeepsMembers
  BY <1>2 DEF KeepsMembers, Member, Ages, Same, Gone, Anew
<1>3. ASSUME NEW c \in Candidate, objs' = Released(c) PROVE KeepsMembers
  <2>1. /\ \A o \in Objects : o # c.obj => objs'[o] = objs[o]
        /\ Freed(c.obj) \/ objs' = objs
    BY <1>0, <1>3, ReleasedFacts
  <2> QED
    BY <2>1 DEF KeepsMembers, Member, Freed
<1>4. ASSUME NEW c \in Candidate, objs' = Deleted(c) PROVE KeepsMembers
  BY <1>0, <1>2, <1>4, DeletedFacts
<1>5. ASSUME NEW out \in Outcomes, NEW c \in w.cands, Drop(c, out) PROVE KeepsMembers
  <2>1. c \in Candidate /\ (objs' = objs \/ objs' = Deleted(c) \/ objs' = Released(c))
    BY <1>5, TypedDrop DEF Drop
  <2> QED
    BY <1>1, <1>3, <1>4, <2>1
<1>6. ASSUME NEW o \in Objects, Others(o) PROVE KeepsMembers
  BY <1>2, <1>6, OthersFacts
<1>7. CASE Start \/ StepsOfWalk \/ ChooseDeletionWave \/ Ends \/ Users
  BY <1>1, <1>7 DEF Start, StepsOfWalk, WalkGated, WalkIgnored, WalkPending, WalkGet,
     ChooseDeletionWave, Ends, EndWave, AlignInventory, RemoveFinalizer, Users,
     CreateInstance, DeleteInstance, Suspend, ChangeGraph
<1>8. ASSUME NEW out \in Outcomes,
             \/ StampInstanceMetadata(out) \/ PreApplyInventory(out) \/ GrowInventory(out)
             \/ ListOrphans(out) \/ DiscoverDeletionInventory(out)
      PROVE  KeepsMembers
  BY <1>1, <1>8 DEF StampInstanceMetadata, PreApplyInventory, GrowInventory, ListOrphans,
     DiscoverDeletionInventory
<1>9. ASSUME NEW kind, Restart(kind) PROVE KeepsMembers
  BY <1>1, <1>9 DEF Restart
<1> QED
  BY NextKinds, <1>5, <1>6, <1>7, <1>8, <1>9

\* A step that neither walks nor lists leaves the books as they are.
LEMMA BooksKept ==
    ASSUME Typed, Books, KeepsMembers, Rest, w.pc \in {"walk", "list", "prune"},
           \/ w'.pc = w.pc /\ w'.cands \subseteq w.cands
           \/ w.pc = "walk" /\ w'.pc = "list" /\ w.i > Len(w.g.walk)
    PROVE  Books'
<1>0. w \in Worker /\ w.applied \subseteq [obj : Objects, uid : Nat]
  BY DEF Typed, Worker
<1>1. Fresh' /\ Progress'
  BY DEF Books, Fresh, Progress, Rest
<1>2. Tally'
  BY DEF Books, Tally, Rest, InWalk
<1>3. Uids'
  <2> SUFFICES ASSUME NEW a \in w.applied, Member(a.obj)' PROVE objs'[a.obj].uid = a.uid
    BY DEF Uids, Rest
  <2>1. Member(a.obj) /\ objs'[a.obj].uid = objs[a.obj].uid
    BY <1>0 DEF KeepsMembers
  <2> QED
    BY <2>1 DEF Books, Uids, InWalk
<1>4. Spares'
  BY DEF Books, Spares, Rest, InWalk
<1> QED
  BY <1>1, <1>2, <1>3, <1>4 DEF Books

LEMMA BooksSame ==
    ASSUME Typed, Books, KeepsMembers, w' = w
    PROVE  Books'
<1>0. w.applied \subseteq [obj : Objects, uid : Nat]
  BY DEF Typed, Worker
<1>1. Fresh' /\ Progress' /\ Tally' /\ Spares'
  BY DEF Books, Fresh, Progress, Tally, Spares, InWalk, Node
<1>2. Uids'
  <2> SUFFICES ASSUME InWalk, NEW a \in w.applied, Member(a.obj)' PROVE objs'[a.obj].uid = a.uid
    BY DEF Uids, InWalk
  <2>1. Member(a.obj) /\ objs'[a.obj].uid = objs[a.obj].uid
    BY <1>0 DEF KeepsMembers
  <2> QED
    BY <2>1 DEF Books, Uids
<1> QED
  BY <1>1, <1>2 DEF Books

\* A node is applied once: no other record has its target.
LEMMA TargetIsNew ==
    ASSUME Typed, Books, w.pc \in {"walk", "apply"}, w.g \in Graphs, w.i \in DOMAIN w.g.walk
    PROVE  \A a \in w.applied : a.obj # Target
<1> SUFFICES ASSUME NEW a \in w.applied, a.obj = Target PROVE FALSE
  OBVIOUS
<1>1. PICK n \in w.observed : a.obj = w.g.target[n]
  BY DEF Books, Tally, InWalk
<1>2. PICK j \in DOMAIN w.g.walk : j < w.i /\ w.g.walk[j] = n
  BY <1>1 DEF Books, Tally, InWalk
<1>3. n \in Nodes /\ Node \in Nodes /\ w.g.target[n] = w.g.target[Node]
  BY <1>1, AppliedFacts DEF Typed, Worker, Target
<1>4. n = Node
  BY <1>3, GraphFacts
<1>5. j = w.i
  BY <1>2, <1>4, GraphFacts DEF Node
<1>6. j \in Nat /\ w.i \in Nat
  BY <1>2, GraphFacts DEF Typed, Worker
<1> QED
  BY <1>2, <1>5, <1>6

LEMMA BooksWalk ==
    ASSUME Typed, Books, StepsOfWalk, Next
    PROVE  Books'
<1>0. /\ w.pc \in {"walk", "apply"} /\ w.g \in Graphs /\ w.i \in DOMAIN w.g.walk
      /\ Moves /\ w' \in Worker /\ w.applied \subseteq [obj : Objects, uid : Nat]
  BY WalkMoves DEF StepsOfWalk, Typed, Worker
<1>a. w'.pc \in {"walk", "apply"} /\ w'.g = w.g
  BY <1>0 DEF Moves, ToApply, Skips, Applies
<1>b. /\ w.i \in Nat /\ \A j \in DOMAIN w.g.walk : j \in Nat
      /\ Node \in NodesOf(w.g) /\ Node = w.g.walk[w.i] /\ Node \in Nodes
  BY <1>0, GraphFacts, AppliedFacts DEF Typed, Worker, Node
<1>c. \A a \in w.applied : a.obj # Target
  BY <1>0, TargetIsNew
<1>1. Fresh' /\ Spares'
  BY <1>a DEF Fresh, Spares
<1>2. Progress'
  <2>1. w'.pc = "apply" => w'.i = w.i /\ Node \notin Ignored(w.g)
    BY <1>0 DEF Moves, ToApply, Skips, Applies
  <2> QED
    BY <1>a, <2>1 DEF Progress, Node
<1>3. \A j \in DOMAIN w.g.walk : j < w.i + 1 => j < w.i \/ j = w.i
  BY <1>b
<1>4. Tally'
  <2>0. /\ \A n \in w.observed :
             /\ \E j \in DOMAIN w.g.walk : j < w.i /\ w.g.walk[j] = n
             /\ \E a \in w.applied : a.obj = w.g.target[n]
        /\ \A a \in w.applied : \E n \in w.observed : a.obj = w.g.target[n]
        /\ w.hard \/ \A j \in DOMAIN w.g.walk : j < w.i =>
              w.g.walk[j] \in w.observed \cup w.unresolved \cup Ignored(w.g)
    BY <1>0 DEF Books, Tally, InWalk
  <2>1. CASE ToApply
    <3>1. w'.i = w.i /\ w'.applied = w.applied /\ w'.observed = w.observed
          /\ w'.hard = w.hard /\ w'.unresolved = w.unresolved
      BY <2>1 DEF ToApply
    <3> QED
      BY <1>a, <2>0, <3>1 DEF Tally
  <2>2. CASE Skips
    <3>1. w'.i = w.i + 1 /\ w'.applied = w.applied /\ w'.observed = w.observed
      BY <2>2 DEF Skips
    <3>2. \A n \in w.observed : \E j \in DOMAIN w.g.walk : j < w.i + 1 /\ w.g.walk[j] = n
      BY <1>b, <2>0
    <3>3. w'.hard \/ \A j \in DOMAIN w.g.walk : j < w.i + 1 =>
              w.g.walk[j] \in w.observed \cup w'.unresolved \cup Ignored(w.g)
      BY <1>b, <1>3, <2>0, <2>2 DEF Skips
    <3> QED
      BY <1>a, <2>0, <3>1, <3>2, <3>3 DEF Tally
  <2>3. CASE Applies
    <3> DEFINE b == [obj |-> Target, uid |-> AppliedObject.uid]
    <3>1. /\ w'.i = w.i + 1 /\ w'.hard = w.hard /\ w'.unresolved = w.unresolved
          /\ w'.applied = w.applied \cup {b} /\ w'.observed = w.observed \cup {Node}
      BY <2>3 DEF Applies
    <3>2. b.obj = w.g.target[Node] /\ b \in w'.applied /\ Node \in w'.observed
      BY <3>1 DEF Target
    <3> HIDE DEF b
    <3>3. \A n \in w'.observed : \E j \in DOMAIN w.g.walk : j < w.i + 1 /\ w.g.walk[j] = n
      <4>1. \A n \in w.observed : \E j \in DOMAIN w.g.walk : j < w.i + 1 /\ w.g.walk[j] = n
        BY <1>b, <2>0
      <4>2. w.i < w.i + 1
        BY <1>b
      <4> QED
        BY <1>0, <1>b, <3>1, <4>1, <4>2
    <3>4. \A n \in w'.observed : \E a \in w'.applied : a.obj = w.g.target[n]
      BY <2>0, <3>1, <3>2
    <3>5. \A a \in w'.applied : \E n \in w'.observed : a.obj = w.g.target[n]
      BY <2>0, <3>1, <3>2
    <3>6. w'.hard \/ \A j \in DOMAIN w.g.walk : j < w.i + 1 =>
              w.g.walk[j] \in w'.observed \cup w'.unresolved \cup Ignored(w.g)
      BY <1>b, <1>3, <2>0, <3>1
    <3>7. \A n \in w'.observed : \E j \in DOMAIN w'.g.walk : j < w'.i /\ w'.g.walk[j] = n
      BY <1>a, <3>1, <3>3
    <3>8. w'.hard \/ \A j \in DOMAIN w'.g.walk : j < w'.i =>
              w'.g.walk[j] \in w'.observed \cup w'.unresolved \cup Ignored(w'.g)
      BY <1>a, <3>1, <3>6
    <3>9. /\ \A n \in w'.observed : \E a \in w'.applied : a.obj = w'.g.target[n]
          /\ \A a \in w'.applied : \E n \in w'.observed : a.obj = w'.g.target[n]
      BY <1>a, <3>4, <3>5
    <3> QED
      BY <3>7, <3>8, <3>9 DEF Tally
  <2> QED
    BY <1>0, <2>1, <2>2, <2>3 DEF Moves
<1>5. Uids'
  <2>1. \A a \in w.applied : Member(a.obj)' => objs'[a.obj].uid = a.uid
    <3> SUFFICES ASSUME NEW a \in w.applied, Member(a.obj)' PROVE objs'[a.obj].uid = a.uid
      OBVIOUS
    <3>1. Member(a.obj) /\ objs'[a.obj].uid = objs[a.obj].uid
      <4>1. CASE \A out \in Outcomes : ~WalkApply(out)
        BY <1>0, <4>1, MembersKept DEF KeepsMembers
      <4>2. CASE \E out \in Outcomes : WalkApply(out)
        <5>1. objs' = objs \/ objs' = [objs EXCEPT ![Target] = AppliedObject]
          BY <4>2 DEF WalkApply
        <5>2. objs'[a.obj] = objs[a.obj]
          BY <1>0, <1>c, <5>1 DEF Typed
        <5> QED
          BY <5>2 DEF Member
      <4> QED
        BY <4>1, <4>2
    <3> QED
      BY <1>0, <3>1 DEF Books, Uids, InWalk
  <2>2. CASE Applies
    <3> DEFINE b == [obj |-> Target, uid |-> AppliedObject.uid]
    <3>1. w'.applied = w.applied \cup {b} /\ b.obj = Target /\ b.uid = AppliedObject.uid
      BY <2>2 DEF Applies
    <3>2. objs'[Target].uid = AppliedObject.uid
      <4>1. w.pc = "apply" /\ w'.applied # w.applied
        <5>1. b \notin w.applied
          BY <1>c
        <5> QED
          BY <2>2, <3>1, <5>1 DEF Applies
      <4>2. PICK out \in Outcomes : WalkApply(out)
        BY <4>1 DEF StepsOfWalk, WalkGated, WalkIgnored, WalkPending, WalkGet, Walking
      <4>3. out = "ok"
        <5>1. CASE out # "ok"
          <6>1. w' = [w EXCEPT !.pc = "walk", !.i = @ + 1, !.hard = TRUE]
            BY <4>2, <5>1 DEF WalkApply, Failed
          <6>2. w'.applied = w.applied
            BY <6>1 DEF Typed, Worker
          <6> QED
            BY <4>1, <6>2
        <5> QED
          BY <5>1
      <4>4. objs' = [objs EXCEPT ![Target] = AppliedObject]
        BY <4>2, <4>3 DEF WalkApply, TakesEffect
      <4> QED
        BY <1>0, <4>4, AppliedFacts DEF Typed
    <3> HIDE DEF b
    <3> QED
      BY <2>1, <3>1, <3>2 DEF Uids
  <2>3. CASE ~Applies
    <3>1. w'.applied = w.applied
      BY <1>0, <2>3 DEF Moves, ToApply, Skips
    <3> QED
      BY <2>1, <3>1 DEF Uids
  <2> QED
    BY <2>2, <2>3
<1> QED
  BY <1>1, <1>2, <1>4, <1>5 DEF Books

\* The list of a prune: what the node of an object still asks for was applied in
\* this walk, so that its UID is one to keep.
LEMMA BooksList ==
    ASSUME Typed, Books, NEW out \in Outcomes, ListOrphans(out), w' # Idle
    PROVE  Books'
<1>0. /\ w.pc \in {"walk", "list"} /\ w.g \in Graphs /\ w.i > Len(w.g.walk) /\ w.i \in Nat
      /\ UNCHANGED objs /\ objs \in [Objects -> Object] /\ InWalk
  BY DEF ListOrphans, Walked, Typed, HasGraph, Applying, Books, Progress, Worker, InWalk
<1>1. /\ Rest /\ w'.pc = "prune" /\ w'.cands \subseteq Listed(Scope, Keep)
      /\ ~FullyResolved => \A c \in w'.cands : c.was.node \in Completed
  BY TypedList
<1>2. Fresh' /\ Progress'
  BY <1>0, <1>1 DEF Fresh, Progress, Rest
<1>3. Tally' /\ Uids'
  BY <1>0, <1>1 DEF Books, Tally, Uids, Rest, InWalk, Member
<1>4. Spares'
  <2> SUFFICES ASSUME NEW c \in w'.cands, NEW n \in NodesOf(w.g) \ Ignored(w.g),
                      w.g.target[n] = c.obj, c.was.node = n
               PROVE  FALSE
    BY <1>1 DEF Spares, Rest
  <2>1. /\ c.obj \in Objects /\ Member(c.obj) /\ c.was = objs[c.obj]
        /\ objs[c.obj].uid \notin Keep[c.obj]
    BY <1>0, <1>1, ListedFacts DEF Members, Member
  <2>2. n \in w.observed
    <3>1. CASE FullyResolved
      <4>1. PICK j \in DOMAIN w.g.walk : w.g.walk[j] = n
        BY <1>0, GraphFacts
      <4>2. j < w.i
        BY <1>0, <4>1, GraphFacts
      <4> QED
        BY <1>0, <3>1, <4>1, <4>2 DEF Books, Tally, FullyResolved
    <3>2. CASE ~FullyResolved
      BY <1>1, <3>2 DEF Completed
    <3> QED
      BY <3>1, <3>2
  <2>3. PICK a \in w.applied : a.obj = c.obj
    BY <1>0, <2>2 DEF Books, Tally
  <2>4. objs[c.obj].uid = a.uid
    BY <1>0, <2>1, <2>3 DEF Books, Uids
  <2>5. a.uid \in Keep[c.obj]
    BY <2>1, <2>3 DEF Keep
  <2> QED
    BY <2>1, <2>4, <2>5
<1> QED
  BY <1>2, <1>3, <1>4 DEF Books

LEMMA BooksStep ==
    ASSUME Typed, Books, Next
    PROVE  Books'
<1>0. w \in Worker /\ w' \in Worker
  BY TypedStep DEF Typed
<1>1. ASSUME w'.pc \notin {"stamp", "inventory", "walk", "apply", "list", "prune"}
      PROVE  Books'
  BY <1>1 DEF Books, Fresh, Progress, Tally, Uids, Spares, InWalk
<1>2. CASE w' = Idle
  BY <1>1, <1>2, IdleFacts
<1>3. ASSUME w'.pc \in {"stamp", "inventory"}, w'.i = 1, w'.applied = {}, w'.observed = {}
      PROVE  Books'
  BY <1>3 DEF Books, Fresh, Progress, Tally, Uids, Spares, InWalk
<1>4. CASE Start
  <2>1. \/ w' = Idle
        \/ w' = [Idle EXCEPT !.pc = "deletion"]
        \/ w' = [Idle EXCEPT !.pc = "stamp", !.suspended = TRUE]
        \/ w' = [Idle EXCEPT !.pc = "stamp", !.g = graph]
    BY <1>4 DEF Start
  <2>2. \/ w'.pc = "deletion" \/ w' = Idle
        \/ w'.pc = "stamp" /\ w'.i = 1 /\ w'.applied = {} /\ w'.observed = {}
    <3>1. Idle \in Worker /\ Idle.i = 1 /\ Idle.applied = {} /\ Idle.observed = {}
      BY IdleFacts, ConstantObjects
    <3>2. CASE w' = [Idle EXCEPT !.pc = "stamp", !.suspended = TRUE]
      BY <3>1, <3>2 DEF Worker
    <3>3. CASE w' = [Idle EXCEPT !.pc = "stamp", !.g = graph]
      BY <3>1, <3>3 DEF Worker
    <3>4. CASE w' = [Idle EXCEPT !.pc = "deletion"]
      BY <3>1, <3>4 DEF Worker
    <3> QED
      BY <2>1, <3>2, <3>3, <3>4
  <2> QED
    BY <1>1, <1>2, <1>3, <2>2
<1>5. ASSUME NEW out \in Outcomes, StampInstanceMetadata(out) PROVE Books'
  <2>1. w.pc = "stamp" /\ (w' = Idle \/ w' = [w EXCEPT !.pc = "inventory"])
    BY <1>5 DEF StampInstanceMetadata, Return, ReturnError, Continue
  <2>2. CASE w' = [w EXCEPT !.pc = "inventory"]
    <3>1. w'.pc = "inventory" /\ w'.i = w.i /\ w'.applied = w.applied /\ w'.observed = w.observed
      BY <1>0, <2>2 DEF Worker
    <3> QED
      BY <1>3, <2>1, <3>1 DEF Books, Fresh
  <2> QED
    BY <1>2, <2>1, <2>2
<1>6. ASSUME NEW out \in Outcomes, PreApplyInventory(out) PROVE Books'
  <2>1. CASE w' # Idle
    <3>1. w' = [w EXCEPT !.pc = "walk", !.prior = inst.inv,
                         !.superset = Union(CandidateMetadata(w.g), inst.inv)]
      BY <1>6, <2>1, TypedPreApply
    <3>2. /\ w'.pc = "walk" /\ w'.i = w.i /\ w'.applied = w.applied
          /\ w'.observed = w.observed /\ w'.g = w.g
      BY <1>0, <3>1 DEF Worker
    <3>3. /\ w.i = 1 /\ w.applied = {} /\ w.observed = {} /\ w.g \in Graphs
      BY <1>6 DEF PreApplyInventory, Books, Fresh, Typed, HasGraph, Applying
    <3>4. \A j \in DOMAIN w'.g.walk : ~(j < w'.i)
      BY <3>2, <3>3, GraphFacts
    <3> QED
      BY <3>2, <3>3, <3>4 DEF Books, Fresh, Progress, Tally, Uids, Spares
  <2> QED
    BY <1>2, <2>1
<1>7. CASE StepsOfWalk
  BY <1>7, BooksWalk
<1>8. ASSUME NEW out \in Outcomes, GrowInventory(out) PROVE Books'
  <2>1. w.pc = "walk" /\ w.i > Len(w.g.walk) /\ UNCHANGED objs
    BY <1>8 DEF GrowInventory, Walked
  <2>2. KeepsMembers
    BY <2>1 DEF KeepsMembers, Member
  <2>3. w' = Idle \/ (Rest /\ w'.pc = "list")
    BY <1>8, TypedGrow
  <2> QED
    BY <1>2, <2>1, <2>2, <2>3, BooksKept
<1>9. ASSUME NEW out \in Outcomes, ListOrphans(out) PROVE Books'
  BY <1>2, <1>9, BooksList
<1>10. ASSUME NEW out \in Outcomes, DiscoverDeletionInventory(out) PROVE Books'
  BY <1>1, <1>2, <1>10, TypedDiscover
<1>11. CASE ChooseDeletionWave
  BY <1>1, <1>2, <1>11, TypedChoose
<1>12. ASSUME NEW out \in Outcomes, NEW c \in w.cands, Drop(c, out) PROVE Books'
  <2>1. w.pc \in {"prune", "release", "wave"} /\ (w' = Idle \/ Drops(c))
    BY <1>12, TypedDrop DEF Drop
  <2>2. KeepsMembers
    <3>1. \A x \in Outcomes : ~WalkApply(x)
      BY <2>1 DEF WalkApply
    <3> QED
      BY <3>1, MembersKept
  <2>3. CASE w.pc = "prune" /\ Drops(c)
    <3>1. Rest /\ w'.pc = w.pc /\ w'.cands \subseteq w.cands
      BY <2>3 DEF Drops
    <3> QED
      BY <2>2, <2>3, <3>1, BooksKept
  <2>4. CASE w.pc # "prune" /\ Drops(c)
    BY <1>1, <2>1, <2>4 DEF Drops
  <2> QED
    BY <1>2, <2>1, <2>3, <2>4
<1>13. CASE Users \/ \E o \in Objects : Others(o)
  <2>1. w' = w
    BY <1>13, UsersFacts, OthersFacts
  <2>2. KeepsMembers
    <3>1. \A out \in Outcomes : ~WalkApply(out)
      <4>1. ASSUME NEW out \in Outcomes, WalkApply(out) PROVE FALSE
        <5>1. StepsOfWalk
          BY <4>1 DEF StepsOfWalk
        <5>2. Moves /\ w.i \in Nat
          BY <5>1, WalkMoves DEF StepsOfWalk, Typed, Worker
        <5>3. w'.pc # w.pc
          BY <4>1, <5>2 DEF WalkApply, Moves, ToApply, Skips, Applies
        <5> QED
          BY <2>1, <5>3
      <4> QED
        BY <4>1
    <3> QED
      BY <3>1, MembersKept
  <2> QED
    BY <2>1, <2>2, BooksSame
<1>14. CASE Ends \/ \E kind \in {"crash", "upgrade"} : Restart(kind)
  BY <1>2, <1>14, TypedEnds, RestartFacts DEF Ends
<1> QED
  BY NextKinds, <1>4, <1>5, <1>6, <1>7, <1>8, <1>9, <1>10, <1>11, <1>12, <1>13, <1>14

LEMMA BooksHold == Spec => []Books
<1>1. Init => Books
  BY IdleFacts DEF Init, Books, Fresh, Progress, Tally, Uids, Spares, InWalk
<1>2. Typed /\ Books /\ [Next]_vars => Books'
  <2>1. ASSUME Typed, Books, UNCHANGED vars PROVE Books'
    <3>1. w' = w /\ KeepsMembers
      BY <2>1 DEF vars, KeepsMembers, Member
    <3> QED
      BY <2>1, <3>1, BooksSame
  <2> QED
    BY <2>1, BooksStep
<1> QED
  BY <1>1, <1>2, TypedHolds, PTL DEF Spec

\* A prune spares what the graph asks for, whatever became of the node in this
\* walk: pruneGraphEngineOrphans prunes by UID after a full walk, and after a
\* partial one only for nodes whose turn was completed.
THEOREM PruneSparesWantedHolds == Spec => PruneSparesWanted
<1>1. ASSUME Typed, Candidates, Books, Next, NEW o \in Objects, KroDeletes(o), w.pc = "prune",
             NEW n \in NodesOf(w.g) \ Ignored(w.g), w.g.target[n] = o, objs[o].node = n
      PROVE  FALSE
  <2>1. PICK c \in w.cands : c.obj = o /\ objs[o].node = c.was.node
    BY <1>1, DeletesCandidates
  <2> QED
    BY <1>1, <2>1 DEF Books, Spares
<1>2. ASSUME Typed, Candidates, Books, [Next]_vars
      PROVE  [\A o \in Objects : KroDeletes(o) /\ w.pc = "prune" =>
                ~\E n \in NodesOf(w.g) \ Ignored(w.g) :
                    w.g.target[n] = o /\ objs[o].node = n]_vars
  BY <1>1, <1>2
<1> QED
  BY <1>2, TypedHolds, CandidatesHold, BooksHold, PTL DEF Spec, PruneSparesWanted

-----------------------------------------------------------------------------
(* The deletion.  From the list until the finalizer goes, every member in  *)
(* the inventory's scope is a candidate, or a conflict sends the reconcile *)
(* back; no candidate of the wave has a member above it.                   *)

Deleting == w.pc \in {"deletion", "release", "wave", "finalizer"}
Found(o) == \E c \in w.cands : c.obj = o
InReach(o) == Member(o) /\ InScope(o, inst.inv)

Releases == w.conflict \/ \A o \in Objects : InReach(o) => Found(o)
HighestFirst ==
    \A o \in Objects : InReach(o) => \A c \in w.cands : objs[o].order <= c.was.order

Teardown ==
    /\ Deleting => inst.st = "deleting"
    /\ w.pc = "release" => Releases
    /\ w.pc = "wave" => HighestFirst
    /\ w.pc = "finalizer" => \A o \in Objects : ~InReach(o)

\* The deletion waits where it is: what is found stays found.
LEMMA TeardownKept ==
    ASSUME Typed, Teardown, KeepsMembers, UNCHANGED inst, w' = w
    PROVE  Teardown'
<1>1. \A o \in Objects : InReach(o)' => InReach(o) /\ objs'[o].order = objs[o].order
  BY DEF InReach, KeepsMembers
<1>2. \A o \in Objects : Found(o)' <=> Found(o)
  BY DEF Found
<1>3. w.pc = "release" => Releases'
  BY <1>1, <1>2 DEF Teardown, Releases
<1>4. w.pc = "wave" => HighestFirst'
  BY <1>1 DEF Teardown, HighestFirst
<1>5. w.pc = "finalizer" => \A o \in Objects : ~InReach(o)'
  BY <1>1 DEF Teardown
<1> QED
  BY <1>3, <1>4, <1>5 DEF Teardown, Deleting

\* A candidate was released: it is no member any more, or a conflict is noted.
LEMMA ReleaseKeepsFound ==
    ASSUME Typed, Candidates, KeepsMembers, UNCHANGED inst, NEW c \in w.cands,
           c \in Candidate, Drops(c), objs' = Released(c), ReleaseConflict(c) => w'.conflict,
           Releases
    PROVE  Releases'
<1>0. objs \in [Objects -> Object]
  BY DEF Typed
<1>1. CASE w'.conflict
  BY <1>1 DEF Releases
<1>2. CASE ~w'.conflict
  <2>1. ~w.conflict
    BY <1>2 DEF Drops
  <2> SUFFICES ASSUME NEW o \in Objects, InReach(o)' PROVE Found(o)'
    BY DEF Releases
  <2>2. InReach(o)
    BY DEF InReach, KeepsMembers
  <2>3. PICK d \in w.cands : d.obj = o
    BY <2>1, <2>2 DEF Releases, Found
  <2>4. o # c.obj
    <3>1. Freed(c.obj) \/ (objs' = objs /\ objs[c.obj].st = "none")
      BY <1>0, <1>2, ReleasedFacts
    <3> QED
      BY <3>1 DEF InReach, Member, Freed
  <2>5. d \in w'.cands
    BY <2>3, <2>4 DEF Drops
  <2> QED
    BY <2>3, <2>5 DEF Found
<1> QED
  BY <1>1, <1>2

LEMMA TeardownStep ==
    ASSUME Typed, Candidates, Teardown, Next
    PROVE  Teardown'
<1>0. w \in Worker /\ objs \in [Objects -> Object] /\ w.cands \subseteq Candidate
  BY DEF Typed, Worker
<1>1. ASSUME w'.pc \notin {"deletion", "release", "wave", "finalizer"} PROVE Teardown'
  BY <1>1 DEF Teardown, Deleting
<1>2. CASE w' = Idle
  BY <1>1, <1>2, IdleFacts
<1>3. CASE Start \/ \E out \in Outcomes : StampInstanceMetadata(out)
  <2>1. CASE w'.pc = "deletion"
    <3>1. Start /\ inst.st = "deleting"
      BY <1>3, <2>1, FirstSteps
    <3>2. UNCHANGED inst
      BY <3>1 DEF Start
    <3> QED
      BY <2>1, <3>1, <3>2 DEF Teardown
  <2>2. CASE w'.pc # "deletion"
    <3>1. w' = Idle \/ w'.pc \in {"stamp", "inventory"}
      BY <1>3, <2>2, FirstSteps
    <3> QED
      BY <1>1, <1>2, <3>1
  <2> QED
    BY <2>1, <2>2
<1>4. ASSUME NEW out \in Outcomes,
             PreApplyInventory(out) \/ GrowInventory(out) \/ ListOrphans(out)
      PROVE  Teardown'
  <2>1. w' = Idle \/ w'.pc \in {"walk", "list", "prune"}
    BY <1>4, TypedPreApply, TypedGrow, TypedList
  <2> QED
    BY <1>1, <1>2, <2>1
<1>5. CASE StepsOfWalk
  <2>1. w'.pc \in {"walk", "apply"}
    BY <1>5, WalkMoves DEF StepsOfWalk, Moves, ToApply, Skips, Applies
  <2> QED
    BY <1>1, <2>1
<1>6. ASSUME NEW out \in Outcomes, DiscoverDeletionInventory(out) PROVE Teardown'
  <2>1. UNCHANGED <<inst, objs>> /\ inst.st = "deleting"
    BY <1>6 DEF DiscoverDeletionInventory, Teardown, Deleting
  <2>2. CASE w' # Idle
    <3>1. w'.pc = "release" /\ w'.cands = Listed(inst.inv, [o \in Objects |-> {}])
      BY <1>6, <2>2, TypedDiscover
    <3>2. \A o \in Objects : InReach(o)' => Found(o)'
      <4> SUFFICES ASSUME NEW o \in Objects, InReach(o)' PROVE Found(o)'
        OBVIOUS
      <4>1. o \in Members /\ InScope(o, inst.inv) /\ objs[o].uid \notin [x \in Objects |-> {}][o]
        BY <2>1 DEF InReach, Member, Members
      <4>2. \E c \in Listed(inst.inv, [x \in Objects |-> {}]) : c.obj = o
        BY <1>0, <4>1, ListedFacts
      <4> QED
        BY <3>1, <4>2 DEF Found
    <3> QED
      BY <2>1, <3>1, <3>2 DEF Teardown, Releases
  <2> QED
    BY <1>2, <2>2
<1>7. CASE ChooseDeletionWave
  <2>1. UNCHANGED <<inst, objs>> /\ w.pc = "release" /\ inst.st = "deleting" /\ Releases
    BY <1>7 DEF ChooseDeletionWave, Teardown, Deleting
  <2>2. \A o \in Objects : InReach(o)' <=> InReach(o)
    BY <2>1 DEF InReach, Member
  <2>3. CASE w'.pc = "finalizer" /\ w.cands = {} /\ ~w.conflict
    <3>1. \A o \in Objects : ~InReach(o)
      BY <2>1, <2>3 DEF Releases, Found
    <3> QED
      BY <2>1, <2>2, <2>3, <3>1 DEF Teardown
  <2>4. CASE w'.pc = "wave" /\ ~w.conflict /\ w'.cands \subseteq HighestDeletionWave(w.cands)
    <3>1. HighestFirst'
      <4> SUFFICES ASSUME NEW o \in Objects, InReach(o), NEW d \in w'.cands
                   PROVE  objs[o].order <= d.was.order
        BY <2>1, <2>2 DEF HighestFirst
      <4>1. PICK c \in w.cands : c.obj = o
        BY <2>1, <2>4 DEF Releases, Found
      <4>2. Current(c) /\ objs[o].order = c.was.order
        BY <4>1 DEF Candidates, Current, InReach, Member
      <4>3. c.was.order <= d.was.order
        BY <2>4, <4>1 DEF HighestDeletionWave
      <4> QED
        BY <4>2, <4>3
    <3> QED
      BY <2>1, <2>4, <3>1 DEF Teardown
  <2> QED
    BY <1>2, <1>7, <2>3, <2>4, TypedChoose
<1>8. ASSUME NEW out \in Outcomes, NEW c \in w.cands, Drop(c, out) PROVE Teardown'
  <2>1. /\ c \in Candidate /\ w.pc \in {"prune", "release", "wave"} /\ UNCHANGED inst
        /\ w' = Idle \/ Drops(c)
        /\ w' # Idle /\ w.pc = "release" => objs' = Released(c) /\ (ReleaseConflict(c) => w'.conflict)
    BY <1>8, TypedDrop DEF Drop
  <2>2. KeepsMembers
    <3>1. \A x \in Outcomes : ~WalkApply(x)
      BY <2>1 DEF WalkApply
    <3> QED
      BY <3>1, MembersKept
  <2>3. ASSUME Drops(c), w.pc = "release", w' # Idle PROVE Teardown'
    <3>1. w'.pc = "release" /\ Releases' /\ inst.st = "deleting"
      BY <2>1, <2>2, <2>3, ReleaseKeepsFound DEF Teardown, Deleting, Drops
    <3> QED
      BY <2>1, <3>1 DEF Teardown
  <2>4. ASSUME Drops(c), w.pc = "wave" PROVE Teardown'
    <3>1. w'.pc = "wave" /\ w'.cands \subseteq w.cands /\ inst.st = "deleting" /\ HighestFirst
      BY <2>4 DEF Teardown, Deleting, Drops
    <3>2. \A o \in Objects : InReach(o)' => InReach(o) /\ objs'[o].order = objs[o].order
      BY <2>1, <2>2 DEF InReach, KeepsMembers
    <3>3. HighestFirst'
      BY <3>1, <3>2 DEF HighestFirst
    <3> QED
      BY <2>1, <3>1, <3>3 DEF Teardown
  <2>5. ASSUME Drops(c), w.pc = "prune" PROVE Teardown'
    BY <1>1, <2>5 DEF Drops
  <2> QED
    BY <1>2, <2>1, <2>3, <2>4, <2>5
<1>9. CASE Users \/ \E o \in Objects : Others(o)
  <2>1. w' = w
    BY <1>9, UsersFacts, OthersFacts
  <2>2. CASE Deleting
    <3>1. inst.st = "deleting" /\ w.pc \in {"deletion", "release", "wave", "finalizer"}
      BY <2>2 DEF Teardown, Deleting
    <3>2. KeepsMembers
      <4>1. \A x \in Outcomes : ~WalkApply(x)
        BY <3>1 DEF WalkApply
      <4> QED
        BY <4>1, MembersKept
    <3>3. UNCHANGED inst
      <4>1. CASE Users
        BY <3>1, <4>1 DEF Users, CreateInstance, DeleteInstance, Suspend, ChangeGraph
      <4> QED
        BY <1>9, <4>1, OthersFacts
    <3> QED
      BY <2>1, <3>2, <3>3, TeardownKept
  <2>3. CASE ~Deleting
    BY <1>1, <2>1, <2>3 DEF Deleting
  <2> QED
    BY <2>2, <2>3
<1>10. CASE Ends \/ \E kind \in {"crash", "upgrade"} : Restart(kind)
  BY <1>2, <1>10, TypedEnds, RestartFacts DEF Ends
<1> QED
  BY NextKinds, <1>3, <1>4, <1>5, <1>6, <1>7, <1>8, <1>9, <1>10

LEMMA TeardownHolds == Spec => []Teardown
<1>1. Init => Teardown
  BY IdleFacts DEF Init, Teardown, Deleting
<1>2. Typed /\ Candidates /\ Teardown /\ [Next]_vars => Teardown'
  <2>1. ASSUME Typed, Teardown, UNCHANGED vars PROVE Teardown'
    <3>1. w' = w /\ KeepsMembers /\ UNCHANGED inst
      BY <2>1 DEF vars, KeepsMembers, Member
    <3> QED
      BY <2>1, <3>1, TeardownKept
  <2> QED
    BY <2>1, TeardownStep
<1> QED
  BY <1>1, <1>2, TypedHolds, CandidatesHold, PTL DEF Spec

-----------------------------------------------------------------------------
(* The inventory covers what is alive.  It holds as long as an apply that  *)
(* takes effect returns (no "lost"), the labels stay (no "upgrade") and    *)
(* the inventory that is written before the walk foresees every object     *)
(* that the walk applies.                                                  *)

\* A node's object is rendered before the walk, or at least its kind is and the
\* object lies where the inventory looks anyway.
Foreseen ==
    \A g \in Graphs : \A n \in NodesOf(g) \ Ignored(g) :
        \/ g.known[n] = "full"
        \/ /\ g.known[n] = "kind"
           /\ Namespace[g.target[n]] \in {ParentNamespace, ClusterScope}

LiveMember(o) == objs[o].st = "live" /\ objs[o].member
Recorded(o) == \E a \in w.applied : a.obj = o

Covered == \A o \in Objects : LiveMember(o) => InScope(o, inst.inv)
Unborn == ~inst.fin => \A o \in Objects : ~LiveMember(o)

\* During the walk the inventory is the superset that was written before it, and
\* an object that is alive was in the inventory before or was applied since.
Persisted ==
    w.pc \in {"walk", "apply"} =>
        /\ inst.inv = w.superset
        /\ CandidateMetadata(w.g).gks \subseteq w.superset.gks
        /\ CandidateMetadata(w.g).nss \subseteq w.superset.nss
        /\ \A o \in Objects : LiveMember(o) => InScope(o, w.prior) \/ Recorded(o)

\* What a full walk did not apply is a candidate, or a conflict keeps the
\* inventory from shrinking.
Accounted ==
    /\ w.pc = "list" => ~FullyResolved
    /\ w.pc = "prune" /\ FullyResolved => \A o \in Objects :
          LiveMember(o) => w.conflict \/ Recorded(o) \/ Found(o)

Coverage == Covered /\ Unborn /\ Persisted /\ Accounted

\* Scopes grow with the metadata, and what was applied lies in the batch's.
LEMMA ScopeFacts ==
    ASSUME Typed, NEW o \in Objects
    PROVE  /\ \A l, m : InScope(o, l) \/ InScope(o, m) => InScope(o, Union(l, m))
           /\ Recorded(o) => InScope(o, Batch)
           /\ \A m : m.gks = {} => ~InScope(o, m)
<1>1. \A l, m : InScope(o, l) \/ InScope(o, m) => InScope(o, Union(l, m))
  BY DEF InScope, Union
<1>2. Recorded(o) => InScope(o, Batch)
  BY DEF InScope, Batch, MetadataOf, Recorded
<1>3. \A m : m.gks = {} => ~InScope(o, m)
  BY DEF InScope
<1> QED
  BY <1>1, <1>2, <1>3

LEMMA ForeseenScope ==
    ASSUME Foreseen, NEW g \in Graphs, NEW n \in NodesOf(g) \ Ignored(g)
    PROVE  InScope(g.target[n], CandidateMetadata(g))
<1> DEFINE full == {m \in NodesOf(g) \ Ignored(g) : g.known[m] = "full"}
           kind == {m \in NodesOf(g) \ Ignored(g) : g.known[m] = "kind"}
           C == CandidateMetadata(g)
<1>1. /\ C.gks = {Kind[x] : x \in {g.target[m] : m \in full}} \cup {Kind[g.target[m]] : m \in kind}
      /\ C.nss = ({Namespace[x] : x \in {g.target[m] : m \in full}} \ {ParentNamespace, ClusterScope})
                 \cup {}
  BY DEF CandidateMetadata, Union, MetadataOf
<1>2. CASE g.known[n] = "full"
  <2>1. n \in full
    BY <1>2
  <2>2. Kind[g.target[n]] \in C.gks
    BY <1>1, <2>1
  <2>3. Namespace[g.target[n]] \in C.nss \cup {ParentNamespace, ClusterScope}
    BY <1>1, <2>1
  <2> QED
    BY <2>2, <2>3 DEF InScope
<1>3. CASE g.known[n] = "kind" /\ Namespace[g.target[n]] \in {ParentNamespace, ClusterScope}
  <2>1. n \in kind
    BY <1>3
  <2>2. Kind[g.target[n]] \in C.gks
    BY <1>1, <2>1
  <2> QED
    BY <1>3, <2>2 DEF InScope
<1> QED
  BY <1>2, <1>3 DEF Foreseen

\* What a patch of the inventory leaves, when a call that fails has no effect.
LEMMA PatchEffect ==
    ASSUME "lost" \notin Faults, inst \in Instance, NEW m \in Metadata, NEW out \in Outcomes,
           PatchInventory(m, out)
    PROVE  /\ inst'.fin = inst.fin
           /\ out = "ok" => inst'.inv = m
           /\ out # "ok" => inst' = inst
<1>1. out # "ok" => ~TakesEffect(out)
  BY DEF Outcomes, TakesEffect
<1>2. CASE inst' = inst
  BY <1>1, <1>2 DEF PatchInventory, TakesEffect, Instance
<1>3. CASE inst' = [inst EXCEPT !.inv = m, !.owner = "parent"] /\ TakesEffect(out)
  BY <1>1, <1>3 DEF PatchInventory, Instance
<1> QED
  BY <1>2, <1>3 DEF PatchInventory

\* Nothing came alive and the inventory still covers it: the reconcile may end.
LEMMA CoverageEnds ==
    ASSUME Covered', Unborn', w'.pc \notin {"walk", "apply", "list", "prune"}
    PROVE  Coverage'
BY DEF Coverage, Persisted, Accounted

LEMMA StillCovered ==
    ASSUME Typed, Covered, Unborn, KeepsMembers, inst'.inv = inst.inv, inst'.fin = inst.fin
    PROVE  Covered' /\ Unborn' /\ \A o \in Objects : LiveMember(o)' => LiveMember(o)
<1>1. \A o \in Objects : LiveMember(o)' => LiveMember(o)
  BY DEF KeepsMembers, LiveMember, Member
<1> QED
  BY <1>1 DEF Covered, Unborn

LEMMA CoverageSame ==
    ASSUME Typed, Coverage, KeepsMembers, inst'.inv = inst.inv, inst'.fin = inst.fin, w' = w
    PROVE  Coverage'
<1>1. Covered' /\ Unborn' /\ \A o \in Objects : LiveMember(o)' => LiveMember(o)
  BY StillCovered DEF Coverage
<1>2. \A o \in Objects : (Recorded(o)' <=> Recorded(o)) /\ (Found(o)' <=> Found(o))
  BY DEF Recorded, Found
<1>3. FullyResolved' <=> FullyResolved
  BY DEF FullyResolved
<1>4. Persisted'
  BY <1>1, <1>2 DEF Coverage, Persisted
<1>5. Accounted'
  BY <1>1, <1>2, <1>3 DEF Coverage, Accounted
<1> QED
  BY <1>1, <1>4, <1>5 DEF Coverage

\* The candidates are persisted before the first of them is applied.
LEMMA CoveragePreApply ==
    ASSUME "lost" \notin Faults, Typed, Managed, Books, Coverage, NEW out \in Outcomes,
           PreApplyInventory(out)
    PROVE  Coverage'
<1> DEFINE S == Union(CandidateMetadata(w.g), inst.inv)
<1>0. /\ w.pc = "inventory" /\ inst.fin /\ w.g \in Graphs /\ inst \in Instance /\ w \in Worker
      /\ UNCHANGED objs /\ PatchInventory(S, out)
  BY DEF PreApplyInventory, Managed, Typed, HasGraph, Applying
<1>1. S \in Metadata /\ inst.inv \in Metadata
  BY <1>0, MetadataFacts, CandidateMetadataType DEF Instance
<1>2. \A o \in Objects : LiveMember(o)' <=> LiveMember(o)
  BY <1>0 DEF LiveMember
<1>3. S.gks = CandidateMetadata(w.g).gks \cup inst.inv.gks
      /\ S.nss = CandidateMetadata(w.g).nss \cup inst.inv.nss
  BY DEF Union
<1>4. \A o \in Objects : LiveMember(o) => InScope(o, inst.inv) /\ InScope(o, S)
  BY ScopeFacts DEF Coverage, Covered
<1> HIDE DEF S
<1>5. inst'.fin = inst.fin /\ (out = "ok" => inst'.inv = S) /\ (out # "ok" => inst' = inst)
  BY <1>0, <1>1, PatchEffect
<1>6. Covered' /\ Unborn'
  BY <1>0, <1>2, <1>4, <1>5 DEF Covered, Unborn
<1>7. CASE w' = Idle
  BY <1>6, <1>7, CoverageEnds, IdleFacts
<1>8. CASE w' # Idle
  <2>1. /\ w'.pc = "walk" /\ w'.prior = inst.inv /\ out = "ok" /\ w'.superset = S
        /\ w' = [w EXCEPT !.pc = "walk", !.prior = inst.inv, !.superset = S]
    BY <1>8, TypedPreApply DEF S
  <2>2. w'.g = w.g
    BY <1>0, <2>1 DEF Worker
  <2>3. Persisted'
    BY <1>2, <1>3, <1>4, <1>5, <2>1, <2>2 DEF Persisted
  <2>4. Accounted'
    BY <2>1 DEF Accounted
  <2> QED
    BY <1>6, <2>3, <2>4 DEF Coverage
<1> QED
  BY <1>7, <1>8

\* The walk applies only what the persisted inventory foresees.
LEMMA CoverageWalk ==
    ASSUME "lost" \notin Faults, Foreseen, Typed, Managed, Books, Coverage, StepsOfWalk, Next
    PROVE  Coverage'
<1>0. /\ w.pc \in {"walk", "apply"} /\ w.g \in Graphs /\ w.i \in DOMAIN w.g.walk
      /\ Moves /\ inst.fin /\ objs \in [Objects -> Object]
  BY WalkMoves DEF StepsOfWalk, Managed, Applying, Typed
<1>1. UNCHANGED inst
  BY DEF StepsOfWalk, WalkGated, WalkIgnored, WalkPending, WalkGet, WalkApply
<1>2. /\ w'.pc \in {"walk", "apply"} /\ w'.g = w.g /\ w'.prior = w.prior
      /\ w'.superset = w.superset /\ w.applied \subseteq w'.applied
  BY <1>0 DEF Moves, ToApply, Skips, Applies
<1>3. \A o \in Objects : Recorded(o) => Recorded(o)'
  BY <1>2 DEF Recorded
<1>4. \A o \in Objects : LiveMember(o)' =>
          \/ LiveMember(o)
          \/ o = Target /\ Recorded(o)' /\ Node \notin Ignored(w.g)
  <2>1. CASE UNCHANGED objs
    BY <2>1 DEF LiveMember
  <2>2. CASE ~UNCHANGED objs
    <3>1. PICK out \in Outcomes : WalkApply(out)
      BY <2>2 DEF StepsOfWalk, WalkGated, WalkIgnored, WalkPending, WalkGet
    <3>2. out = "ok"
      BY <2>2, <3>1 DEF Outcomes, WalkApply, TakesEffect
    <3>3. /\ objs' = [objs EXCEPT ![Target] = AppliedObject]
          /\ w.pc = "apply"
          /\ w' = [w EXCEPT !.pc = "walk", !.i = @ + 1,
                     !.applied = @ \cup {[obj |-> Target, uid |-> AppliedObject.uid]},
                     !.observed = @ \cup {Node},
                     !.ready = IF AppliedObject.ready THEN @ \cup {Node} ELSE @]
      BY <3>1, <3>2 DEF WalkApply, TakesEffect
    <3>4. [obj |-> Target, uid |-> AppliedObject.uid] \in w'.applied
      BY <3>3 DEF Typed, Worker
    <3>5. \A o \in Objects : o = Target => Recorded(o)'
      BY <3>4 DEF Recorded
    <3>6. Node \notin Ignored(w.g)
      BY <3>3 DEF Books, Progress
    <3>7. \A o \in Objects : o # Target => objs'[o] = objs[o]
      BY <1>0, <3>3
    <3> QED
      BY <3>5, <3>6, <3>7 DEF LiveMember
  <2> QED
    BY <2>1, <2>2
<1>5. Node \notin Ignored(w.g) => InScope(Target, inst.inv)
  <2> SUFFICES ASSUME Node \notin Ignored(w.g) PROVE InScope(Target, inst.inv)
    OBVIOUS
  <2>1. Node \in NodesOf(w.g)
    BY <1>0, AppliedFacts
  <2>2. InScope(Target, CandidateMetadata(w.g))
    BY <1>0, <2>1, ForeseenScope DEF Target
  <2>3. /\ CandidateMetadata(w.g).gks \subseteq inst.inv.gks
        /\ CandidateMetadata(w.g).nss \subseteq inst.inv.nss
    BY <1>0 DEF Coverage, Persisted
  <2> QED
    BY <2>2, <2>3 DEF InScope
<1>6. Covered' /\ Unborn'
  BY <1>0, <1>1, <1>4, <1>5 DEF Coverage, Covered, Unborn
<1>7. /\ inst.inv = w.superset
      /\ CandidateMetadata(w.g).gks \subseteq w.superset.gks
      /\ CandidateMetadata(w.g).nss \subseteq w.superset.nss
      /\ \A o \in Objects : LiveMember(o) => InScope(o, w.prior) \/ Recorded(o)
  BY <1>0 DEF Coverage, Persisted
<1>8. \A o \in Objects : LiveMember(o)' => InScope(o, w.prior) \/ Recorded(o)'
  BY <1>3, <1>4, <1>7
<1>9. Persisted'
  BY <1>1, <1>2, <1>7, <1>8 DEF Persisted
<1>10. Accounted'
  BY <1>2 DEF Accounted
<1> QED
  BY <1>6, <1>9, <1>10 DEF Coverage

\* A partial walk ends with what was there before it and what it applied.
LEMMA CoverageGrow ==
    ASSUME "lost" \notin Faults, Typed, Managed, Coverage, NEW out \in Outcomes,
           GrowInventory(out)
    PROVE  Coverage'
<1> DEFINE G == Union(Batch, w.prior)
<1>0. /\ w.pc = "walk" /\ inst.fin /\ inst \in Instance /\ w \in Worker /\ ~FullyResolved
      /\ UNCHANGED objs /\ PatchInventory(G, out)
  BY DEF GrowInventory, Walked, Managed, Typed, Applying
<1>1. G \in Metadata
  <2>1. {a.obj : a \in w.applied} \in SUBSET Objects
    BY <1>0 DEF Worker
  <2>2. Batch \in Metadata /\ w.prior \in Metadata
    BY <1>0, <2>1, MetadataFacts DEF Batch, Worker
  <2> QED
    BY <2>2, MetadataFacts
<1>2. \A o \in Objects : LiveMember(o)' <=> LiveMember(o)
  BY <1>0 DEF LiveMember
<1>3. \A o \in Objects : LiveMember(o) => InScope(o, G)
  <2>1. \A o \in Objects : LiveMember(o) => InScope(o, w.prior) \/ Recorded(o)
    BY <1>0 DEF Coverage, Persisted
  <2> QED
    BY <2>1, ScopeFacts
<1> HIDE DEF G
<1>4. inst'.fin = inst.fin /\ (out = "ok" => inst'.inv = G) /\ (out # "ok" => inst' = inst)
  BY <1>0, <1>1, PatchEffect
<1>5. Covered' /\ Unborn'
  BY <1>0, <1>2, <1>3, <1>4 DEF Coverage, Covered, Unborn
<1>6. CASE w' = Idle
  BY <1>5, <1>6, CoverageEnds, IdleFacts
<1>7. CASE w' # Idle
  <2>1. w'.pc = "list" /\ Rest
    BY <1>7, TypedGrow
  <2>2. ~FullyResolved'
    BY <1>0, <2>1 DEF Rest, FullyResolved
  <2> QED
    BY <1>5, <2>1, <2>2 DEF Coverage, Persisted, Accounted
<1> QED
  BY <1>6, <1>7

\* The list after a full walk finds every member that was not applied.
LEMMA CoverageList ==
    ASSUME Typed, Coverage, NEW out \in Outcomes, ListOrphans(out)
    PROVE  Coverage'
<1>0. UNCHANGED <<inst, objs>> /\ objs \in [Objects -> Object] /\ w \in Worker
  BY DEF ListOrphans, Typed
<1>1. \A o \in Objects : LiveMember(o)' <=> LiveMember(o)
  BY <1>0 DEF LiveMember
<1>2. Covered' /\ Unborn'
  BY <1>0, <1>1 DEF Coverage, Covered, Unborn
<1>3. CASE w' = Idle
  BY <1>2, <1>3, CoverageEnds, IdleFacts
<1>4. CASE w' # Idle
  <2>1. Rest /\ w'.pc = "prune" /\ (FullyResolved => w'.cands = Listed(Scope, Keep))
    BY <1>4, TypedList
  <2>2. FullyResolved' <=> FullyResolved
    BY <2>1 DEF Rest, FullyResolved
  <2>3. ASSUME FullyResolved, NEW o \in Objects, LiveMember(o)
        PROVE  Recorded(o)' \/ Found(o)'
    <3>1. w.pc = "walk"
      BY <2>3 DEF ListOrphans, Walked, Coverage, Accounted
    <3>2. InScope(o, w.superset)
      BY <2>3, <3>1 DEF Coverage, Covered, Persisted
    <3>3. InScope(o, Scope)
      BY <3>2, ScopeFacts DEF Scope
    <3>4. o \in Members
      BY <2>3 DEF Members, LiveMember
    <3>5. CASE objs[o].uid \in Keep[o]
      BY <2>1, <3>5 DEF Keep, Recorded, Rest
    <3>6. CASE objs[o].uid \notin Keep[o]
      BY <1>0, <2>1, <2>3, <3>3, <3>4, <3>6, ListedFacts DEF Found
    <3> QED
      BY <3>5, <3>6
  <2>4. Accounted'
    BY <1>1, <2>1, <2>2, <2>3 DEF Accounted
  <2>5. Persisted'
    BY <2>1 DEF Persisted
  <2> QED
    BY <1>2, <2>4, <2>5 DEF Coverage
<1> QED
  BY <1>3, <1>4

\* A prune takes a candidate away that is no longer alive or no longer a member,
\* or notes a conflict.
LEMMA CoverageDrop ==
    ASSUME Typed, Coverage, NEW out \in Outcomes, NEW c \in w.cands, Drop(c, out), Next
    PROVE  Coverage'
<1>0. /\ c \in Candidate /\ w.pc \in {"prune", "release", "wave"} /\ UNCHANGED inst
      /\ objs \in [Objects -> Object] /\ (w' = Idle \/ Drops(c))
      /\ w' # Idle /\ w.pc = "prune" =>
            \/ objs' = Released(c) /\ (ReleaseConflict(c) => w'.conflict)
            \/ objs' = Deleted(c) /\ (DeleteConflict(c) => w'.conflict)
  BY TypedDrop DEF Drop, Typed
<1>1. KeepsMembers
  <2>1. \A x \in Outcomes : ~WalkApply(x)
    BY <1>0 DEF WalkApply
  <2> QED
    BY <2>1, MembersKept
<1>2. Covered' /\ Unborn' /\ \A o \in Objects : LiveMember(o)' => LiveMember(o)
  BY <1>0, <1>1, StillCovered DEF Coverage
<1>3. CASE w' = Idle \/ w.pc # "prune"
  <2>1. w'.pc \notin {"walk", "apply", "list", "prune"}
    BY <1>0, <1>3, IdleFacts DEF Drops
  <2> QED
    BY <1>2, <2>1, CoverageEnds
<1>4. CASE w' # Idle /\ w.pc = "prune"
  <2>1. Rest /\ w'.pc = "prune" /\ w'.cands = w.cands \ {c} /\ (w.conflict => w'.conflict)
    BY <1>0, <1>4 DEF Drops
  <2>2. LiveMember(c.obj)' => w'.conflict
    <3>1. CASE objs' = Released(c) /\ (ReleaseConflict(c) => w'.conflict)
      <4>1. Freed(c.obj) \/ (objs' = objs /\ (objs[c.obj].st = "none" \/ ReleaseConflict(c)))
        BY <1>0, <3>1, ReleasedFacts
      <4> QED
        BY <3>1, <4>1 DEF Freed, LiveMember
    <3>2. CASE objs' = Deleted(c) /\ (DeleteConflict(c) => w'.conflict)
      <4>1. objs'[c.obj].st # "live" \/ DeleteConflict(c)
        BY <1>0, <3>2, DeletedFacts
      <4> QED
        BY <3>2, <4>1 DEF LiveMember
    <3> QED
      BY <1>0, <1>4, <3>1, <3>2
  <2>3. ASSUME FullyResolved', NEW o \in Objects, LiveMember(o)'
        PROVE  w'.conflict \/ Recorded(o)' \/ Found(o)'
    <3>1. FullyResolved
      BY <2>1, <2>3 DEF Rest, FullyResolved
    <3>2. w.conflict \/ Recorded(o) \/ Found(o)
      BY <1>2, <1>4, <2>3, <3>1 DEF Coverage, Accounted
    <3>3. CASE w.conflict \/ Recorded(o)
      BY <2>1, <3>3 DEF Recorded, Rest
    <3>4. CASE Found(o)
      <4>1. PICK d \in w.cands : d.obj = o
        BY <3>4 DEF Found
      <4>2. CASE d = c
        BY <2>2, <2>3, <4>1, <4>2
      <4>3. CASE d # c
        BY <2>1, <4>1, <4>3 DEF Found
      <4> QED
        BY <4>2, <4>3
    <3> QED
      BY <3>2, <3>3, <3>4
  <2>4. Accounted'
    BY <2>1, <2>3 DEF Accounted
  <2>5. Persisted'
    BY <2>1 DEF Persisted
  <2> QED
    BY <1>2, <2>4, <2>5 DEF Coverage
<1> QED
  BY <1>3, <1>4

\* The inventory shrinks to the batch only when nothing else is alive.
LEMMA CoverageAlign ==
    ASSUME "lost" \notin Faults, Typed, Managed, Coverage, NEW out \in Outcomes,
           AlignInventory(out)
    PROVE  Coverage'
<1>0. /\ w.pc = "prune" /\ inst.fin /\ inst \in Instance /\ w \in Worker /\ w.cands = {}
      /\ UNCHANGED objs /\ w' = Idle
  BY DEF AlignInventory, Return, Managed, Typed, Applying
<1>1. \A o \in Objects : LiveMember(o)' <=> LiveMember(o)
  BY <1>0 DEF LiveMember
<1>2. CASE UNCHANGED inst
  <2>1. Covered' /\ Unborn'
    BY <1>1, <1>2 DEF Coverage, Covered, Unborn
  <2> QED
    BY <1>0, <2>1, CoverageEnds, IdleFacts
<1>3. CASE FullyResolved /\ ~w.conflict /\ PatchInventory(Batch, out)
  <2>1. Batch \in Metadata
    <3>1. {a.obj : a \in w.applied} \in SUBSET Objects
      BY <1>0 DEF Worker
    <3> QED
      BY <3>1, MetadataFacts DEF Batch
  <2>2. \A o \in Objects : LiveMember(o) => Recorded(o)
    BY <1>0, <1>3 DEF Coverage, Accounted, Found
  <2>3. \A o \in Objects : LiveMember(o) => InScope(o, Batch)
    BY <2>2, ScopeFacts
  <2>4. inst'.fin = inst.fin /\ (out = "ok" => inst'.inv = Batch) /\ (out # "ok" => inst' = inst)
    BY <1>0, <1>3, <2>1, PatchEffect
  <2>5. Covered' /\ Unborn'
    <3>1. CASE out = "ok"
      BY <1>0, <1>1, <2>3, <2>4, <3>1 DEF Covered, Unborn
    <3>2. CASE out # "ok"
      BY <1>1, <2>4, <3>2 DEF Coverage, Covered, Unborn
    <3> QED
      BY <3>1, <3>2
  <2> QED
    BY <1>0, <2>5, CoverageEnds, IdleFacts
<1> QED
  BY <1>2, <1>3 DEF AlignInventory

\* The finalizer goes when the deletion found nothing in the inventory's scope.
LEMMA CoverageFinalizer ==
    ASSUME Typed, Teardown, Coverage, NEW out \in Outcomes, RemoveFinalizer(out)
    PROVE  Coverage'
<1>0. w.pc = "finalizer" /\ UNCHANGED objs /\ w' = Idle /\ (inst' = inst \/ inst' = NoInstance)
  BY DEF RemoveFinalizer
<1>1. \A o \in Objects : LiveMember(o)' <=> LiveMember(o)
  BY <1>0 DEF LiveMember
<1>2. \A o \in Objects : ~LiveMember(o)
  BY <1>0 DEF Teardown, Coverage, Covered, InReach, Member, LiveMember
<1>3. Covered' /\ Unborn'
  BY <1>1, <1>2 DEF Covered, Unborn
<1> QED
  BY <1>0, <1>3, CoverageEnds, IdleFacts

\* The stamp empties the inventory of an instance that has nothing yet.
LEMMA CoverageStamp ==
    ASSUME Typed, Managed, Coverage, NEW out \in Outcomes, StampInstanceMetadata(out)
    PROVE  Coverage'
<1>0. UNCHANGED objs
  BY DEF StampInstanceMetadata
<1>1. \A o \in Objects : LiveMember(o)' <=> LiveMember(o)
  BY <1>0 DEF LiveMember
<1>2. w' = Idle \/ w'.pc \in {"deletion", "stamp", "inventory"}
  BY FirstSteps
<1>3. inst' = inst \/ ~inst.fin
  BY DEF StampInstanceMetadata, Managed
<1>4. Covered' /\ Unborn'
  <2>1. CASE inst' = inst
    BY <1>1, <2>1 DEF Coverage, Covered, Unborn
  <2>2. CASE ~inst.fin
    BY <1>1, <2>2 DEF Coverage, Covered, Unborn
  <2> QED
    BY <1>3, <2>1, <2>2
<1> QED
  BY <1>2, <1>4, CoverageEnds, IdleFacts

\* Users delete, create and suspend the instance: the inventory goes only with an
\* instance that nothing was applied for.
LEMMA CoverageUsers ==
    ASSUME Typed, Managed, Coverage, Users
    PROVE  Coverage'
<1>0. UNCHANGED <<objs, w>>
  BY UsersFacts
<1>1. KeepsMembers
  BY <1>0 DEF KeepsMembers, Member
<1>2. inst \in Instance
  BY DEF Typed
<1>3. CASE inst'.inv = inst.inv /\ inst'.fin = inst.fin
  BY <1>0, <1>1, <1>3, CoverageSame
<1>4. CASE ~inst.fin
  <2>1. w.pc \notin {"walk", "apply", "list", "prune"}
    BY <1>4 DEF Managed, Applying
  <2>2. \A o \in Objects : ~LiveMember(o)'
    BY <1>0, <1>4 DEF Coverage, Unborn, LiveMember
  <2>3. Covered' /\ Unborn'
    BY <2>2 DEF Covered, Unborn
  <2> QED
    BY <1>0, <2>1, <2>3, CoverageEnds
<1>5. (inst'.inv = inst.inv /\ inst'.fin = inst.fin) \/ ~inst.fin
  <2>1. ASSUME NEW s \in BOOLEAN, CreateInstance(s) PROVE ~inst.fin
    BY <2>1 DEF CreateInstance, Managed
  <2>2. CASE DeleteInstance
    BY <1>2, <2>2 DEF DeleteInstance, Instance
  <2>3. CASE Suspend
    BY <1>2, <2>3 DEF Suspend, Instance
  <2>4. ASSUME NEW g, ChangeGraph(g) PROVE inst' = inst
    BY <2>4 DEF ChangeGraph
  <2> QED
    BY <2>1, <2>2, <2>3, <2>4 DEF Users
<1> QED
  BY <1>3, <1>4, <1>5

LEMMA CoverageStep ==
    ASSUME "lost" \notin Faults, "upgrade" \notin Faults, Foreseen,
           Typed, Managed, Books, Teardown, Coverage, Next
    PROVE  Coverage'
<1>1. CASE UNCHANGED inst /\ KeepsMembers /\ w'.pc \notin {"walk", "apply", "list", "prune"}
  BY <1>1, StillCovered, CoverageEnds DEF Coverage
<1>2. CASE Start
  <2>1. UNCHANGED <<inst, objs>> /\ (w' = Idle \/ w'.pc \in {"deletion", "stamp", "inventory"})
    BY <1>2, FirstSteps DEF Start
  <2>2. KeepsMembers
    BY <2>1 DEF KeepsMembers, Member
  <2> QED
    BY <1>1, <2>1, <2>2, IdleFacts
<1>3. ASSUME NEW out \in Outcomes, DiscoverDeletionInventory(out) PROVE Coverage'
  <2>1. UNCHANGED <<inst, objs>> /\ (w' = Idle \/ w'.pc = "release")
    BY <1>3, TypedDiscover DEF DiscoverDeletionInventory
  <2>2. KeepsMembers
    BY <2>1 DEF KeepsMembers, Member
  <2> QED
    BY <1>1, <2>1, <2>2, IdleFacts
<1>4. CASE ChooseDeletionWave \/ EndWave
  <2>1. UNCHANGED <<inst, objs>> /\ (w' = Idle \/ w'.pc \in {"finalizer", "wave"})
    BY <1>4, TypedChoose, TypedEnds DEF ChooseDeletionWave, EndWave
  <2>2. KeepsMembers
    BY <2>1 DEF KeepsMembers, Member
  <2> QED
    BY <1>1, <2>1, <2>2, IdleFacts
<1>5. ASSUME NEW kind \in {"crash", "upgrade"}, Restart(kind) PROVE Coverage'
  <2>1. UNCHANGED <<inst, objs>> /\ w' = Idle
    BY <1>5 DEF Restart, Fault
  <2>2. KeepsMembers
    BY <2>1 DEF KeepsMembers, Member
  <2> QED
    BY <1>1, <2>1, <2>2, IdleFacts
<1>6. ASSUME NEW o \in Objects, Others(o) PROVE Coverage'
  <2>1. Ages /\ UNCHANGED <<inst, w>>
    BY <1>6, OthersFacts
  <2>2. KeepsMembers
    BY <2>1 DEF KeepsMembers, Member, Ages, Same, Gone, Anew
  <2> QED
    BY <2>1, <2>2, CoverageSame
<1>7. CASE Ends
  BY <1>4, <1>7, CoverageAlign, CoverageFinalizer DEF Ends
<1> QED
  BY NextKinds, <1>2, <1>3, <1>4, <1>5, <1>6, <1>7, CoverageStamp, CoveragePreApply,
     CoverageWalk, CoverageGrow, CoverageList, CoverageDrop, CoverageUsers

LEMMA CoverageHolds ==
    ASSUME "lost" \notin Faults, "upgrade" \notin Faults, Foreseen
    PROVE  Spec => []Coverage
<1>1. Init => Coverage
  BY IdleFacts DEF Init, Coverage, Covered, Unborn, Persisted, Accounted, LiveMember, Absent
<1>2. Typed /\ Managed /\ Books /\ Teardown /\ Coverage /\ [Next]_vars => Coverage'
  <2>1. ASSUME Typed, Coverage, UNCHANGED vars PROVE Coverage'
    <3>1. w' = w /\ KeepsMembers /\ UNCHANGED inst
      BY <2>1 DEF vars, KeepsMembers, Member
    <3> QED
      BY <2>1, <3>1, CoverageSame
  <2> QED
    BY <2>1, CoverageStep
<1>3. Spec => []Managed
  BY ManagedHolds
<1> QED
  BY <1>1, <1>2, <1>3, TypedHolds, BooksHold, TeardownHolds, PTL DEF Spec

\* Whatever kro created or adopted and neither deleted nor released lies in the
\* scope of the inventory that is persisted at that moment, wherever the process
\* dies between preApplyApplySetInventory, the walk, the prune and the shrinking
\* of the inventory.
THEOREM InventoryCoversHolds ==
    ASSUME "lost" \notin Faults, "upgrade" \notin Faults, Foreseen
    PROVE  Spec => []InventoryCovers
<1>1. Coverage => InventoryCovers
  BY DEF Coverage, Covered, InventoryCovers, Members, LiveMember
<1>2. Spec => []Coverage
  BY CoverageHolds
<1> QED
  BY <1>1, <1>2, PTL

\* The finalizer lets an instance go only when none of its objects is alive, and
\* nothing that is applied for an instance outlives it unseen (reconcileDeletion).
THEOREM NoOrphansHolds ==
    ASSUME "lost" \notin Faults, "upgrade" \notin Faults, Foreseen
    PROVE  Spec => []NoOrphans
<1>1. Coverage /\ Managed => NoOrphans
  BY DEF Coverage, Unborn, Managed, NoOrphans, Members, LiveMember
<1>2. Spec => []Coverage
  BY CoverageHolds
<1>3. Spec => []Managed
  BY ManagedHolds
<1> QED
  BY <1>1, <1>2, <1>3, PTL

\* The deletion takes an object down when every member above it is gone, or is
\* going and out of the inventory's sight (highestDeletionWave).
THEOREM DependentsFirstHolds ==
    ASSUME "lost" \notin Faults, "upgrade" \notin Faults, Foreseen
    PROVE  Spec => DependentsFirst
<1>1. ASSUME Typed, Candidates, Teardown, Coverage, Next, NEW o \in Objects, KroDeletes(o),
             w.pc = "wave", NEW p \in Members, objs[p].order > objs[o].order
      PROVE  objs[p].st = "terminating" /\ ~InScope(p, inst.inv)
  <2>0. p \in Objects /\ Member(p) /\ objs \in [Objects -> Object]
    BY <1>1 DEF Members, Member, Typed
  <2>1. PICK c \in w.cands : objs[o].order = c.was.order
    BY <1>1, DeletesCandidates
  <2>2. objs[p].order \in Nat /\ objs[o].order \in Nat
        /\ objs[p].st \in {"none", "live", "terminating"}
    BY <2>0 DEF Object
  <2>3. InReach(p) => objs[p].order <= objs[o].order
    BY <1>1, <2>0, <2>1 DEF Teardown, HighestFirst
  <2>4. ~InScope(p, inst.inv)
    BY <1>1, <2>0, <2>2, <2>3 DEF InReach
  <2>5. objs[p].st # "live"
    BY <1>1, <2>0, <2>4 DEF Coverage, Covered, LiveMember, Member
  <2> QED
    BY <2>0, <2>2, <2>4, <2>5 DEF Member
<1>2. ASSUME Typed, Candidates, Teardown, Coverage, [Next]_vars
      PROVE  [\A o \in Objects : KroDeletes(o) /\ w.pc = "wave" =>
                \A p \in Members : objs[p].order > objs[o].order =>
                    objs[p].st = "terminating" /\ ~InScope(p, inst.inv)]_vars
  BY <1>1, <1>2
<1>3. Spec => []Coverage
  BY CoverageHolds
<1> QED
  BY <1>2, <1>3, TypedHolds, CandidatesHold, TeardownHolds, PTL DEF Spec, DependentsFirst

=============================================================================
