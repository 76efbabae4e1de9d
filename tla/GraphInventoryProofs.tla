----------------------- MODULE GraphInventoryProofs -----------------------
(***************************************************************************)
(* What a Graph leaves behind, for any Graphs, objects, specs and budgets: *)
(* nothing of its patches (NoResidue), nothing of its templates (NoOrphans)*)
(* and, which is more, no object that its inventory does not answer for    *)
(* (the refinement of GraphInventory).  The invariant follows an object of *)
(* a Graph, from the write-ahead that announces it through the inventories *)
(* a run carries (what it has read, intended, applied, kept, is to delete  *)
(* and will record) to its delete: Residual for patches, Tidy for          *)
(* templates, both on top of Ground.                                       *)
(***************************************************************************)
EXTENDS GraphOwnershipProofs, FiniteSetTheorems, WellFoundedInduction

-----------------------------------------------------------------------------
(* What a step makes of the objects.                                       *)

\* What an actor that writes as m makes y of an object x: it deletes it, edits it
\* or creates it, with k UIDs given out before and l after.
Turn(x, y, k, l, m) ==
    \/ ~Exists(y) /\ l = k
    \/ /\ Exists(x) /\ Exists(y) /\ y.uid = x.uid /\ l = k
       /\ Managers(y) \subseteq Managers(x) \cup {m} /\ (x.term => y.term)
    \/ /\ ~Exists(x) /\ Exists(y) /\ y.uid = k + 1 /\ l = k + 1
       /\ Managers(y) \subseteq {m}

Turned(m) == \A o \in Objects : Turn(objs[o], objs'[o], uids[o], uids'[o], m)

LEMMA StillTurn == ASSUME NEW x, NEW k, NEW m PROVE Turn(x, x, k, k, m)
BY DEF Turn

LEMMA TurnedAside == ASSUME UNCHANGED <<objs, uids>>, NEW m PROVE Turned(m)
BY StillTurn DEF Turned

LEMMA TurnedOne ==
    ASSUME Stock, NEW o, NEW x, SetObject(o, x), NEW m,
           \A p \in Objects \ {o} : uids'[p] = uids[p],
           o \in Objects => Turn(objs[o], x, uids[o], uids'[o], m)
    PROVE  Turned(m)
<1>1. objs' = [objs EXCEPT ![o] = x] /\ DOMAIN objs = Objects
  BY DEF SetObject, Stock
<1> SUFFICES ASSUME NEW p \in Objects PROVE Turn(objs[p], objs'[p], uids[p], uids'[p], m)
  BY DEF Turned
<1>2. CASE p = o
  <2>1. objs'[o] = x
    BY <1>1, <1>2
  <2> QED
    BY <1>2, <2>1
<1>3. CASE p # o
  <2>1. objs'[p] = objs[p] /\ uids'[p] = uids[p]
    BY <1>1, <1>3
  <2> QED
    BY <2>1, StillTurn
<1> QED
  BY <1>2, <1>3

LEMMA CountElsewhere ==
    ASSUME Stock, NEW o, uids' = Count(o) PROVE \A p \in Objects \ {o} : uids'[p] = uids[p]
BY DEF Count, Stock

LEMMA ExistingFields ==
    ASSUME Stock, NEW o \in Objects
    PROVE  /\ uids[o] \in Nat /\ uids[o] + 1 # 0
           /\ Exists(objs[o]) => DOMAIN objs[o] = ObjectFields /\ objs[o].uid \in 1..uids[o]
<1>1. Sound(wrote, o, uids[o], objs[o]) /\ uids[o] \in Nat
  BY DEF Stock
<1>2. Exists(objs[o]) => Real(wrote, o, uids[o], objs[o])
  BY <1>1, ExistingIsReal
<1> QED
  BY <1>1, <1>2 DEF Real

\* An apply.
LEMMA MergeTurns ==
    ASSUME NEW x, DOMAIN x = ObjectFields, NEW m, NEW wants
    PROVE  /\ Merge(x, m, wants).term = x.term
           /\ DOMAIN wants = {} => m \notin Managers(Merge(x, m, wants))
<1> DEFINE own == [f \in Fields |->
                     IF f \notin DOMAIN wants THEN x.own[f] \ {m}
                     ELSE IF x.val[f] = wants[f] THEN x.own[f] \union {m}
                     ELSE {m}]
           val == [f \in Fields |->
                     IF f \in DOMAIN wants THEN wants[f]
                     ELSE IF own[f] = {} /\ x.own[f] # {} THEN None
                     ELSE x.val[f]]
           y == [x EXCEPT !.own = own, !.val = val]
<1>1. Merge(x, m, wants) = y
  BY DEF Merge
<1>2. DOMAIN wants = {} => \A f \in Fields : m \notin own[f]
  OBVIOUS
<1> HIDE DEF own, val
<1>3. y.term = x.term /\ y.own = own
  BY DEF ObjectFields
<1> HIDE DEF y
<1> QED
  BY <1>1, <1>2, <1>3 DEF Managers

LEMMA AppliedTurns ==
    ASSUME NEW x, Exists(x) => DOMAIN x = ObjectFields, NEW m, NEW wants, NEW u, u # 0,
           NEW y, y = ssaApply(x, m, wants, u), NEW n, NEW k, Exists(x) => k = n,
           ~Exists(x) => u = n + 1 /\ k = u, NEW a, a = m \/ DOMAIN wants = {}
    PROVE  /\ Turn(x, y, n, k, a) /\ Exists(y)
           /\ IF Exists(x) THEN y.uid = x.uid /\ y.term = x.term ELSE y.uid = u
           /\ DOMAIN wants = {} => m \notin Managers(y)
<1>1. CASE Exists(x)
  <2>1. y = Merge(x, m, wants)
    BY <1>1 DEF ssaApply
  <2>2. DOMAIN x = ObjectFields
    BY <1>1
  <2>3. /\ y.uid = x.uid /\ Managers(y) \subseteq Managers(x) \cup {m} /\ y.term = x.term
        /\ DOMAIN wants = {} => Managers(y) \subseteq Managers(x) /\ m \notin Managers(y)
    BY <2>1, <2>2, MergeManagers, MergeTurns
  <2> QED
    BY <1>1, <2>3 DEF Turn, Exists
<1>2. CASE ~Exists(x)
  <2> DEFINE b == New(u)
  <2>1. y = Merge(b, m, wants)
    BY <1>2 DEF ssaApply
  <2>2. DOMAIN b = ObjectFields /\ b.uid = u /\ Managers(b) = {}
    BY NewFacts
  <2> HIDE DEF b
  <2>3. /\ y.uid = u /\ Managers(y) \subseteq {m}
        /\ DOMAIN wants = {} => Managers(y) \subseteq {} /\ m \notin Managers(y)
    BY <2>1, <2>2, MergeManagers, MergeTurns
  <2>4. Exists(y) /\ k = u
    BY <1>2, <2>3 DEF Exists
  <2> QED
    BY <1>2, <2>3, <2>4 DEF Turn
<1> QED
  BY <1>1, <1>2

\* A delete.
LEMMA DeletedTurns ==
    ASSUME NEW W, NEW p, NEW n, NEW o, NEW x, Sound(W, p, n, x), NEW m, NEW k
    PROVE  /\ Turn(x, Deleted(o, x), k, k, m)
           /\ ~Exists(Deleted(o, x)) \/ Deleted(o, x).term
<1> DEFINE y == [x EXCEPT !.term = TRUE]
<1>0. ~Exists(NoObject)
  BY DEF Exists, NoObject
<1>1. CASE Exists(x)
  <2>1. Real(W, p, n, x)
    BY <1>1, ExistingIsReal
  <2>2. y.uid = x.uid /\ y.own = x.own /\ y.term = TRUE
    BY <2>1 DEF Real, ObjectFields
  <2>3. Deleted(o, x) = y \/ Deleted(o, x) = NoObject
    BY DEF Deleted
  <2> HIDE DEF y
  <2> QED
    BY <1>0, <1>1, <2>2, <2>3 DEF Turn, Exists, Managers
<1>2. CASE ~Exists(x)
  <2>1. y.uid = x.uid
    BY DEF NoObject
  <2>2. Deleted(o, x) = y \/ Deleted(o, x) = NoObject
    BY DEF Deleted
  <2> HIDE DEF y
  <2> QED
    BY <1>0, <1>2, <2>1, <2>2 DEF Turn, Exists
<1> QED
  BY <1>1, <1>2

\* Deletes of a reconcile, and what people and controllers do.
LEMMA DeleteTurns ==
    ASSUME Stock, NEW g \in Graphs, DeleteEntry(g) \/ DeleteChecked(g) PROVE Turned(Someone)
<1>1. UNCHANGED uids /\ (UNCHANGED objs \/ \E o : SetObject(o, Deleted(o, objs[o])))
  BY DEF DeleteEntry, DeleteChecked
<1>2. ASSUME NEW o, SetObject(o, Deleted(o, objs[o])) PROVE Turned(Someone)
  <2> DEFINE x == Deleted(o, objs[o])
  <2>1. o \in Objects => Turn(objs[o], x, uids[o], uids'[o], Someone)
    BY <1>1, DeletedTurns DEF Stock
  <2>2. SetObject(o, x) /\ \A p \in Objects \ {o} : uids'[p] = uids[p]
    BY <1>1, <1>2
  <2> HIDE DEF x
  <2> QED
    BY <2>1, <2>2, TurnedOne
<1> QED
  BY <1>1, <1>2, TurnedAside

LEMMA MeddleTurns == ASSUME Stock, NEW o \in Objects, Meddle(o) PROVE Turned(Someone)
<1> DEFINE wants == [f \in {"data"} |-> "theirs"]
           new == ssaApply(NoObject, Someone, wants, uids[o] + 1)
           y(f) == [objs[o] EXCEPT !.val[f] = "theirs", !.own[f] = {Someone}]
<1>0. Sound(wrote, o, uids[o], objs[o]) /\ uids[o] \in Nat
  BY DEF Stock
<1>1. \/ ~Exists(objs[o]) /\ SetObject(o, new) /\ uids' = Count(o)
      \/ Exists(objs[o]) /\ UNCHANGED uids /\ SetObject(o, Deleted(o, objs[o]))
      \/ Exists(objs[o]) /\ UNCHANGED uids /\ \E f \in {"data", "aux"} : SetObject(o, y(f))
  BY DEF Meddle
<1>2. CASE ~Exists(objs[o]) /\ SetObject(o, new) /\ uids' = Count(o)
  <2>1. ~Exists(NoObject)
    BY DEF Exists, NoObject
  <2>2. uids'[o] = uids[o] + 1 /\ \A p \in Objects \ {o} : uids'[p] = uids[p]
    BY <1>2, CountGrows, CountElsewhere
  <2> HIDE DEF wants
  <2>4. SetObject(o, new) /\ new = ssaApply(NoObject, Someone, wants, uids[o] + 1)
    BY <1>2
  <2> HIDE DEF new
  <2>3. Turn(NoObject, new, uids[o], uids'[o], Someone)
    <3> DEFINE u == uids[o] + 1
    <3>1. /\ u = uids[o] + 1 /\ u # 0 /\ uids'[o] = IF Exists(NoObject) THEN uids[o] ELSE u
          /\ new = ssaApply(NoObject, Someone, wants, u)
      BY <1>0, <2>1, <2>2, <2>4
    <3> HIDE DEF u
    <3> QED
      BY <2>1, <3>1, AppliedTurns
  <2>5. Turn(objs[o], new, uids[o], uids'[o], Someone)
    BY <1>2, <2>1, <2>3 DEF Turn
  <2> QED
    BY <2>2, <2>4, <2>5, TurnedOne
<1>3. CASE Exists(objs[o]) /\ UNCHANGED uids /\ SetObject(o, Deleted(o, objs[o]))
  <2> DEFINE x == Deleted(o, objs[o])
  <2>1. Turn(objs[o], x, uids[o], uids'[o], Someone)
    BY <1>0, <1>3, DeletedTurns
  <2>2. SetObject(o, x)
    BY <1>3
  <2> HIDE DEF x
  <2> QED
    BY <1>3, <2>1, <2>2, TurnedOne
<1>4. CASE Exists(objs[o]) /\ UNCHANGED uids /\ \E f \in {"data", "aux"} : SetObject(o, y(f))
  <2>0. PICK f \in {"data", "aux"} : SetObject(o, y(f))
    BY <1>4
  <2>2. Real(wrote, o, uids[o], objs[o])
    BY <1>0, <1>4, ExistingIsReal
  <2> DEFINE x == objs[o]
             val == [x.val EXCEPT ![f] = "theirs"]
             own == [x.own EXCEPT ![f] = {Someone}]
             z == [x EXCEPT !.val = val, !.own = own]
  <2>3. y(f) = z
    BY <2>2 DEF Real, ObjectFields
  <2>4. \A e \in Fields : own[e] \subseteq x.own[e] \cup {Someone}
    BY <2>2 DEF Real
  <2> HIDE DEF val, own
  <2>5. z.uid = x.uid /\ z.own = own /\ z.term = x.term
    BY <2>2 DEF Real, ObjectFields
  <2>6. SetObject(o, z)
    BY <2>0, <2>3
  <2> HIDE DEF z
  <2>7. Turn(objs[o], z, uids[o], uids'[o], Someone)
    BY <1>4, <2>4, <2>5 DEF Turn, Managers, Exists
  <2> QED
    BY <1>4, <2>6, <2>7, TurnedOne
<1> QED
  BY <1>1, <1>2, <1>3, <1>4

LEMMA ReportTurns == ASSUME Stock, NEW o \in Objects, Report(o) \/ Gone(o) PROVE Turned(Someone)
<1>0. UNCHANGED uids /\ Exists(objs[o]) /\ Real(wrote, o, uids[o], objs[o])
  BY ExistingIsReal DEF Report, Gone, Stock
<1> DEFINE y(st) == [objs[o] EXCEPT !.st = st]
<1>1. SetObject(o, NoObject) \/ \E st : SetObject(o, y(st))
  BY DEF Report, Gone
<1>2. CASE SetObject(o, NoObject)
  <2>1. ~Exists(NoObject)
    BY DEF Exists, NoObject
  <2> QED
    BY <1>0, <1>2, <2>1, TurnedOne DEF Turn
<1>3. CASE \E st : SetObject(o, y(st))
  <2>0. PICK st : SetObject(o, y(st))
    BY <1>3
  <2> DEFINE z == y(st)
  <2>1. z.uid = objs[o].uid /\ z.own = objs[o].own /\ z.term = objs[o].term /\ SetObject(o, z)
    BY <1>0, <2>0 DEF Real, ObjectFields
  <2> HIDE DEF z
  <2>2. Turn(objs[o], z, uids[o], uids'[o], Someone)
    BY <1>0, <2>1 DEF Turn, Managers, Exists
  <2> QED
    BY <1>0, <2>1, <2>2, TurnedOne
<1> QED
  BY <1>1, <1>2, <1>3

\* A release adds no manager, and takes away the one it applies as.
LEMMA ReleaseTurns ==
    ASSUME Stock, NEW g \in Graphs, ReleaseApply(g)
    PROVE  /\ Turned(Someone)
           /\ \/ ReleaseFailed(g) \/ ~Served(w[g].at.obj) \/ w[g].at.obj \notin Objects
              \/ w[g].at.manager \notin Managers(objs'[w[g].at.obj])
<1> DEFINE c == w[g].at
           o == c.obj
           none == <<>>
           new == ssaApply(objs[o], c.manager, none, uids[o] + 1)
<1>1. \/ SetObject(o, new) /\ uids' = Count(o)
      \/ UNCHANGED <<objs, uids>> /\ (~Served(o) \/ ReleaseFailed(g))
  BY DEF ReleaseApply
<1>2. CASE SetObject(o, new) /\ uids' = Count(o)
  <2>1. \A p \in Objects \ {o} : uids'[p] = uids[p]
    BY <1>2, CountElsewhere
  <2>2. DOMAIN none = {}
    OBVIOUS
  <2>3. o \in Objects => /\ Exists(objs[o]) => DOMAIN objs[o] = ObjectFields
                         /\ uids[o] \in Nat
                         /\ uids'[o] = IF Exists(objs[o]) THEN uids[o] ELSE uids[o] + 1
    BY <1>2, CountGrows, ExistingFields
  <2> HIDE DEF c, o, none
  <2>5. SetObject(o, new) /\ new = ssaApply(objs[o], c.manager, none, uids[o] + 1)
    BY <1>2
  <2> HIDE DEF new
  <2>4. o \in Objects => /\ Turn(objs[o], new, uids[o], uids'[o], Someone)
                         /\ c.manager \notin Managers(new)
    <3> DEFINE u == uids[o] + 1
    <3>1. /\ u = uids[o] + 1 /\ new = ssaApply(objs[o], c.manager, none, u)
          /\ o \in Objects => u # 0 /\ uids'[o] = IF Exists(objs[o]) THEN uids[o] ELSE u
      BY <2>3, <2>5
    <3> HIDE DEF u
    <3>2. ASSUME o \in Objects
          PROVE  Turn(objs[o], new, uids[o], uids'[o], Someone) /\ c.manager \notin Managers(new)
      <4> DEFINE m == c.manager
                 a == Someone
                 x == objs[o]
                 n == uids[o]
                 k == uids'[o]
      <4>1. /\ Exists(x) => DOMAIN x = ObjectFields
            /\ u # 0 /\ (Exists(x) => k = n) /\ (~Exists(x) => u = n + 1 /\ k = u)
            /\ new = ssaApply(x, m, none, u) /\ (a = m \/ DOMAIN none = {})
        BY <2>2, <2>3, <3>1, <3>2
      <4> HIDE DEF m, a, x, n, k
      <4>2. Turn(x, new, n, k, a) /\ (DOMAIN none = {} => m \notin Managers(new))
        BY <4>1, AppliedTurns
      <4> QED
        BY <2>2, <4>2 DEF m, a, x, n, k
    <3> QED
      BY <3>2
  <2>6. o \in Objects => objs'[o] = new
    BY <2>5 DEF SetObject, Stock
  <2>7. Turned(Someone)
    BY <2>1, <2>4, <2>5, TurnedOne
  <2> QED
    BY <2>4, <2>6, <2>7 DEF o, c
<1>3. CASE UNCHANGED <<objs, uids>> /\ (~Served(o) \/ ReleaseFailed(g))
  <2>1. Turned(Someone)
    BY <1>3, TurnedAside
  <2> QED
    BY <1>3, <2>1
<1> QED
  BY <1>1, <1>2, <1>3
\* Only an apply of a reconcile leaves a manager of a Graph behind.
LEMMA StepTurns ==
    ASSUME Stock, [Next]_vars
    PROVE  Turned(Someone) \/ \E g \in Graphs : \E force \in BOOLEAN : ApplyObject(g, force)
<1>1. ASSUME NEW g \in Graphs, Reconcile(g), ~\E force \in BOOLEAN : ApplyObject(g, force)
      PROVE  Turned(Someone)
  <2>1. CASE Begin(g) \/ setManaged(g) \/ CompileStart(g) \/ CompileEnd(g)
             \/ WriteAheadManaged(g) \/ WriteAheadContributions(g)
    BY <2>1, TurnedAside DEF Begin, setManaged, CompileStart, CompileEnd, WriteAheadManaged,
                             WriteAheadContributions
  <2>2. CASE EnterNode(g) \/ GetLive(g) \/ Finish(g) \/ EndPrune(g) \/ EndDelete(g)
    BY <2>2, TurnedAside DEF EnterNode, GetLive, Finish, EndPrune, EndDelete
  <2>3. CASE ReleaseGet(g) \/ SettleContributions(g) \/ updateStatus(g) \/ setUnmanaged(g)
    BY <2>3, TurnedAside DEF ReleaseGet, SettleContributions, updateStatus, setUnmanaged
  <2>4. CASE ReleaseApply(g) \/ DeleteEntry(g) \/ DeleteChecked(g)
    BY <2>4, ReleaseTurns, DeleteTurns
  <2> QED
    BY <1>1, <2>1, <2>2, <2>3, <2>4 DEF Reconcile
<1>2. CASE \E o \in Objects : Meddle(o) \/ Report(o) \/ Gone(o)
  BY <1>2, MeddleTurns, ReportTurns
<1>3. ASSUME NEW k \in Kinds, CrdChanges(k) PROVE Turned(Someone)
  <2>1. UNCHANGED uids /\ \A o \in Objects : objs'[o] = NoObject \/ objs'[o] = objs[o]
    BY <1>3 DEF CrdChanges
  <2>2. ~Exists(NoObject)
    BY DEF Exists, NoObject
  <2>3. ASSUME NEW o \in Objects PROVE Turn(objs[o], objs'[o], uids[o], uids'[o], Someone)
    <3>1. CASE objs'[o] = NoObject
      BY <2>1, <2>2, <3>1 DEF Turn
    <3>2. CASE objs'[o] = objs[o]
      BY <2>1, <3>2, StillTurn
    <3> QED
      BY <2>1, <3>1, <3>2
  <2> QED
    BY <2>3 DEF Turned
<1>4. CASE (\E g \in Graphs : EditGraph(g) \/ DeleteGraph(g) \/ Drain(g))
           \/ (\E k \in Kinds : CrdEvent(k)) \/ Crash \/ UNCHANGED vars
  BY <1>4, TurnedAside DEF EditGraph, DeleteGraph, Drain, CrdEvent, Crash, vars
<1> QED
  BY <1>1, <1>2, <1>3, <1>4 DEF Next

\* The manager an apply of g writes as.
Writer(g) == IF NodeAt(g).kind = "patch" THEN patchFieldManager(g, NodeAt(g).id)
             ELSE templateFieldManager(g)

\* An apply: nothing is written, or one object that is served, as the writer.
LEMMA ApplyTurns ==
    ASSUME Stock, NEW g \in Graphs, NEW force \in BOOLEAN, ApplyObject(g, force), w[g].at \in Objects
    PROVE  /\ Turned(Writer(g))
           /\ \A p \in Objects \ {w[g].at} : objs'[p] = objs[p] /\ uids'[p] = uids[p]
           /\ \/ UNCHANGED <<objs, uids>>
              \/ /\ Served(w[g].at) /\ Exists(objs'[w[g].at])
                 /\ IF Exists(objs[w[g].at])
                    THEN objs'[w[g].at].uid = objs[w[g].at].uid /\ objs'[w[g].at].term = objs[w[g].at].term
                    ELSE objs'[w[g].at].uid = uids[w[g].at] + 1
<1> DEFINE o == w[g].at
           m == Writer(g)
           wants == NodeAt(g).set
           u == uids[o] + 1
           new == ssaApply(objs[o], m, wants, u)
<1>1. UNCHANGED <<objs, uids>> \/ (Served(o) /\ SetObject(o, new) /\ uids' = Count(o))
  BY DEF ApplyObject, Writer
<1>2. CASE UNCHANGED <<objs, uids>>
  BY <1>2, TurnedAside
<1>3. CASE Served(o) /\ SetObject(o, new) /\ uids' = Count(o)
  <2>1. \A p \in Objects \ {o} : uids'[p] = uids[p]
    BY <1>3, CountElsewhere
  <2>2. o \in Objects /\ (Exists(objs[o]) => DOMAIN objs[o] = ObjectFields) /\ u # 0
        /\ uids'[o] = IF Exists(objs[o]) THEN uids[o] ELSE u
    BY <1>3, CountGrows, ExistingFields
  <2> DEFINE x == objs[o]
             n == uids[o]
             k == uids'[o]
  <2>3. /\ Exists(x) => DOMAIN x = ObjectFields
        /\ u # 0 /\ (Exists(x) => k = n) /\ (~Exists(x) => u = n + 1 /\ k = u)
        /\ new = ssaApply(x, m, wants, u)
    BY <2>2
  <2>4. objs' = [objs EXCEPT ![o] = new] /\ SetObject(o, new)
    BY <1>3 DEF SetObject
  <2> HIDE DEF x, n, k, m, wants, u, new
  <2>5. /\ Turn(x, new, n, k, m) /\ Exists(new)
        /\ IF Exists(x) THEN new.uid = x.uid /\ new.term = x.term ELSE new.uid = u
    BY <2>3, AppliedTurns
  <2>6. objs'[o] = new /\ \A p \in Objects \ {o} : objs'[p] = objs[p]
    BY <2>2, <2>4 DEF Stock
  <2>7. Turned(m)
    <3>1. Turn(objs[o], new, uids[o], uids'[o], m)
      BY <2>5 DEF x, n, k
    <3> HIDE DEF o
    <3> QED
      BY <2>1, <2>4, <3>1, TurnedOne
  <2> QED
    BY <1>3, <2>1, <2>5, <2>6, <2>7 DEF x, u, m
<1> QED
  BY <1>1, <1>2, <1>3
\* The managers that write for g.
OfGraph(g, m) == m = templateFieldManager(g) \/ (m.kind = "patch" /\ m.graph = g)

\* What carries a manager of g after the step has carried it before.
Inherits(g) ==
    \A o \in Objects : Exists(objs'[o]) => \A m \in Managers(objs'[o]) : OfGraph(g, m) =>
      /\ Exists(objs[o]) /\ m \in Managers(objs[o]) /\ objs'[o].uid = objs[o].uid
      /\ ~objs'[o].term => ~objs[o].term

LEMMA TurnedInherits ==
    ASSUME NEW g, NEW m, Turned(m), ~OfGraph(g, m) PROVE Inherits(g)
<1> SUFFICES ASSUME NEW o \in Objects, Exists(objs'[o]), NEW k \in Managers(objs'[o]), OfGraph(g, k)
             PROVE  /\ Exists(objs[o]) /\ k \in Managers(objs[o]) /\ objs'[o].uid = objs[o].uid
                    /\ ~objs'[o].term => ~objs[o].term
  BY DEF Inherits
<1>1. Turn(objs[o], objs'[o], uids[o], uids'[o], m)
  BY DEF Turned
<1>2. k # m
  OBVIOUS
<1> QED
  BY <1>1, <1>2 DEF Turn

LEMMA SomeoneInherits == ASSUME NEW g, Turned(Someone) PROVE Inherits(g)
<1>1. ~OfGraph(g, Someone)
  BY DEF OfGraph, Someone, templateFieldManager
<1> QED
  BY <1>1, TurnedInherits

\* The writer of one Graph is no manager of another, and a patch no template.
LEMMA WriterIsOwn ==
    ASSUME NEW g, NEW h, h # g PROVE ~OfGraph(h, Writer(g))
<1>1. /\ Writer(g) = templateFieldManager(g) \/ Writer(g) = patchFieldManager(g, NodeAt(g).id)
  BY DEF Writer
<1>2. templateFieldManager(g).graph = g /\ templateFieldManager(g).kind = "tmpl"
      /\ templateFieldManager(h).graph = h /\ templateFieldManager(h).kind = "tmpl"
  BY DEF templateFieldManager
<1>3. /\ patchFieldManager(g, NodeAt(g).id).graph = g
      /\ patchFieldManager(g, NodeAt(g).id).kind = "patch"
  BY DEF patchFieldManager
<1> QED
  BY <1>1, <1>2, <1>3 DEF OfGraph

\* An apply of g goes to an object of the model.
LEMMA AppliesObjects ==
    ASSUME Ordered, NEW g \in Graphs, NEW force \in BOOLEAN, ApplyObject(g, force)
    PROVE  /\ w[g].at \in Objects /\ w[g].i \in DOMAIN Nodes(g) /\ w[g].at \in NodeAt(g).items
           /\ w[g].pc \in {"apply", "force"}
<1>0. Shapes /\ Versions /\ Accounts
  BY DEF Ordered, Tracked, Attention
<1>1. w[g].pc \in {"apply", "force"}
  BY DEF ApplyObject
<1>2. /\ g \in DOMAIN case.specs /\ w[g].ver \in DOMAIN case.specs[g]
      /\ Nodes(g) = case.specs[g][w[g].ver].nodes /\ Books(case.specs[g], wrote, g, w[g])
  BY <1>0, <1>1, AtWork
<1>3. w[g].i \in DOMAIN Nodes(g) /\ w[g].at \in NodeAt(g).items
  BY <1>1, <1>2 DEF Books, Placed, NodeAt
<1>4. Rendered(case.specs[g], w[g].at, NodeAt(g).id)
  BY <1>2, <1>3 DEF Rendered, NodeAt
<1> QED
  BY <1>0, <1>1, <1>2, <1>3, <1>4, RenderedAreObjects

\* Nobody but g leaves a manager of g behind.
LEMMA OthersInherit ==
    ASSUME Ordered, [Next]_vars, NEW g \in Graphs,
           ~\E force \in BOOLEAN : ApplyObject(g, force)
    PROVE  Inherits(g)
<1>0. Stock
  BY DEF Ordered
<1>1. CASE Turned(Someone)
  BY <1>1, SomeoneInherits
<1>2. ASSUME NEW h \in Graphs, h # g, NEW force \in BOOLEAN, ApplyObject(h, force)
      PROVE  Inherits(g)
  <2>1. Turned(Writer(h))
    BY <1>0, <1>2, ApplyTurns, AppliesObjects
  <2> QED
    BY <1>2, <2>1, WriterIsOwn, TurnedInherits
<1> QED
  BY <1>0, <1>1, <1>2, StepTurns

-----------------------------------------------------------------------------
(* Kinds, UIDs, budgets and the life of a Graph.                           *)

\* An object whose kind is not served carries no manager of a Graph.
Unserved == \A o \in Objects : ~Served(o) /\ Exists(objs[o]) => Managers(objs[o]) \subseteq {Someone}

\* An object that is there has the UID given out last.
Newest == \A o \in Objects : Exists(objs[o]) => objs[o].uid = uids[o]

LEMMA CrdFixed ==
    ASSUME [Next]_vars, ~\E k \in Kinds : CrdChanges(k) PROVE UNCHANGED crd
<1>1. ASSUME NEW g \in Graphs, Reconcile(g) PROVE UNCHANGED crd
  <2>1. CASE CompileStart(g) \/ CompileEnd(g) \/ setUnmanaged(g)
    BY <2>1 DEF CompileStart, CompileEnd, setUnmanaged
  <2>2. CASE ~(CompileStart(g) \/ CompileEnd(g) \/ setUnmanaged(g))
    BY <1>1, <2>2, ReconcileAside DEF swVars
  <2> QED
    BY <2>1, <2>2
<1>2. CASE \E g \in Graphs : EditGraph(g) \/ DeleteGraph(g) \/ Drain(g)
  BY <1>2 DEF EditGraph, DeleteGraph, Drain, swVars
<1>3. CASE \E o \in Objects : Meddle(o) \/ Report(o) \/ Gone(o)
  BY <1>3 DEF Meddle, Report, Gone, swVars
<1>4. CASE \E k \in Kinds : CrdEvent(k)
  BY <1>4 DEF CrdEvent, onEvent, Invalidate, swVars
<1>5. CASE Crash \/ UNCHANGED vars
  BY <1>5 DEF Crash, SWRestart, vars, swVars
<1> QED
  BY <1>1, <1>2, <1>3, <1>4, <1>5 DEF Next

LEMMA UnservedStep == ASSUME Ordered, Unserved, [Next]_vars PROVE Unserved'
<1>0. Stock
  BY DEF Ordered
<1>1. ASSUME NEW k \in Kinds, CrdChanges(k) PROVE Unserved'
  <2>1. \A o \in Objects : objs'[o] = IF KindOf[o] = k /\ ~crd'[k].up THEN NoObject ELSE objs[o]
    BY <1>1 DEF CrdChanges
  <2>2. DOMAIN crd = Kinds /\ \A j \in Kinds \ {k} : crd'[j] = crd[j]
    BY <1>1 DEF CrdChanges, ChangeCrd, Ordered, Tracked, Schemas, Seen
  <2>3. ~Exists(NoObject)
    BY DEF Exists, NoObject
  <2>4. ASSUME NEW o \in Objects, ~Served(o)', Exists(objs'[o]) PROVE Managers(objs'[o]) \subseteq {Someone}
    <3>1. KindOf[o] \in Kinds /\ ~crd'[KindOf[o]].up
      BY <2>4, GraphsAssumption DEF Served
    <3>2. KindOf[o] # k /\ objs'[o] = objs[o]
      BY <2>1, <2>3, <2>4, <3>1
    <3>3. ~Served(o)
      BY <2>2, <2>4, <3>1, <3>2 DEF Served
    <3> QED
      BY <2>4, <3>2, <3>3 DEF Unserved
  <2> QED
    BY <2>4 DEF Unserved
<1>2. ASSUME UNCHANGED crd, Turned(Someone) PROVE Unserved'
  <2> SUFFICES ASSUME NEW o \in Objects, ~Served(o), Exists(objs'[o])
               PROVE  Managers(objs'[o]) \subseteq {Someone}
    BY <1>2 DEF Unserved, Served
  <2>1. Turn(objs[o], objs'[o], uids[o], uids'[o], Someone)
    BY <1>2 DEF Turned
  <2> QED
    BY <2>1 DEF Turn, Unserved
<1>3. ASSUME UNCHANGED crd, NEW g \in Graphs, NEW force \in BOOLEAN, ApplyObject(g, force)
      PROVE  Unserved'
  <2>1. \A o \in Objects : objs'[o] = objs[o] \/ Served(o)
    BY <1>0, <1>3, AppliesObjects, ApplyTurns
  <2> QED
    BY <1>3, <2>1 DEF Unserved, Served
<1> QED
  BY <1>0, <1>1, <1>2, <1>3, CrdFixed, StepTurns

LEMMA NewestStep == ASSUME Ordered, Newest, [Next]_vars PROVE Newest'
<1>1. \E m : Turned(m)
  BY StepTurns, ApplyTurns, AppliesObjects DEF Ordered
<1>2. PICK m : Turned(m)
  BY <1>1
<1> SUFFICES ASSUME NEW o \in Objects, Exists(objs'[o]) PROVE objs'[o].uid = uids'[o]
  BY DEF Newest
<1>3. Turn(objs[o], objs'[o], uids[o], uids'[o], m)
  BY <1>2 DEF Turned
<1> QED
  BY <1>3 DEF Turn, Newest
\* Faults are only spent.
Budgeted ==
    /\ case \in Cases /\ "faults" \in DOMAIN left
    /\ left.faults \in Nat /\ case.budget.faults \in Nat /\ left.faults <= case.budget.faults

LEMMA Spends ==
    ASSUME Budgeted, case' = case, NEW reply \in Replies, Spend(reply)
    PROVE  Budgeted' /\ (Undisturbed' => Undisturbed /\ reply = "ok")
<1>1. CASE reply = "ok"
  <2>1. left' = left
    BY <1>1 DEF Spend
  <2> QED
    BY <1>1, <2>1 DEF Budgeted, Undisturbed
<1>2. CASE reply # "ok"
  <2>1. left.faults > 0
    BY <1>2 DEF Replies
  <2>2. left' = [left EXCEPT !.faults = left.faults - 1]
    BY <1>2 DEF Spend
  <2>3. DOMAIN left' = DOMAIN left /\ left'.faults = left.faults - 1
    BY <2>2 DEF Budgeted
  <2> QED
    BY <2>1, <2>3 DEF Budgeted, Undisturbed
<1> QED
  BY <1>1, <1>2

\* A call of a reconcile is answered, or nothing is called.
Answered == UNCHANGED left \/ \E reply \in Replies : Spend(reply)

LEMMA ReconcileAnswered == ASSUME NEW g \in Graphs, Reconcile(g) PROVE Answered
<1>1. CASE Begin(g) \/ CompileStart(g) \/ CompileEnd(g) \/ EnterNode(g) \/ EndPrune(g) \/ EndDelete(g)
  BY <1>1 DEF Begin, CompileStart, CompileEnd, EnterNode, EndPrune, EndDelete, Answered
<1>2. CASE setManaged(g) \/ updateStatus(g) \/ setUnmanaged(g) \/ GetLive(g)
  BY <1>2 DEF setManaged, updateStatus, setUnmanaged, GetLive, Answered
<1>3. CASE WriteAheadManaged(g) \/ WriteAheadContributions(g) \/ Finish(g) \/ SettleContributions(g)
  BY <1>3 DEF WriteAheadManaged, WriteAheadContributions, Finish, SettleContributions,
              persistContributions, WriteGraph, Answered
<1>4. CASE \E force \in BOOLEAN : ApplyObject(g, force)
  BY <1>4 DEF ApplyObject, Answered
<1>5. CASE DeleteEntry(g) \/ DeleteChecked(g) \/ ReleaseGet(g) \/ ReleaseApply(g)
  BY <1>5 DEF DeleteEntry, DeleteChecked, ReleaseGet, ReleaseApply, Answered
<1> QED
  BY <1>1, <1>2, <1>3, <1>4, <1>5 DEF Reconcile

LEMMA BudgetStep ==
    ASSUME Budgeted, [Next]_vars PROVE Budgeted' /\ (Undisturbed' => Undisturbed)
<1>0. case' = case
  BY CaseFixed DEF vars
<1>1. ASSUME Answered PROVE Budgeted' /\ (Undisturbed' => Undisturbed)
  BY <1>0, <1>1, Spends DEF Answered, Budgeted, Undisturbed
<1>2. ASSUME NEW g \in Graphs, Reconcile(g) PROVE Answered
  BY <1>2, ReconcileAnswered
<1>3. CASE \E o \in Objects : Meddle(o) \/ Report(o)
  <2>1. \/ left' = [left EXCEPT !.humans = left.humans - 1]
        \/ left' = [left EXCEPT !.reports = left.reports - 1]
    BY <1>3 DEF Meddle, Report
  <2>2. DOMAIN left' = DOMAIN left /\ left'.faults = left.faults
    BY <2>1 DEF Budgeted
  <2> QED
    BY <1>0, <2>2 DEF Budgeted, Undisturbed
<1>4. CASE Crash
  <2>1. left.faults > 0 /\ left' = [left EXCEPT !.faults = left.faults - 1]
    BY <1>4 DEF Crash
  <2>2. DOMAIN left' = DOMAIN left /\ left'.faults = left.faults - 1
    BY <2>1 DEF Budgeted
  <2> QED
    BY <1>0, <2>1, <2>2 DEF Budgeted, Undisturbed
<1>5. CASE (\E g \in Graphs : EditGraph(g) \/ DeleteGraph(g) \/ Drain(g))
           \/ (\E o \in Objects : Gone(o))
           \/ (\E k \in Kinds : CrdChanges(k) \/ CrdEvent(k)) \/ UNCHANGED vars
  <2>1. UNCHANGED left
    BY <1>5 DEF EditGraph, DeleteGraph, Drain, Gone, CrdChanges, CrdEvent, vars
  <2> QED
    BY <1>1, <2>1 DEF Answered
<1> QED
  BY <1>1, <1>2, <1>3, <1>4, <1>5 DEF Next

\* A crash disturbs.
LEMMA CrashDisturbs == ASSUME Budgeted, Crash, case' = case PROVE ~Undisturbed'
<1>1. left.faults > 0 /\ left' = [left EXCEPT !.faults = left.faults - 1]
  BY DEF Crash
<1>2. left'.faults = left.faults - 1
  BY <1>1 DEF Budgeted
<1> QED
  BY <1>1, <1>2 DEF Budgeted, Undisturbed

\* Before a Graph has its finalizer, and when it is gone, nothing is recorded; what
\* runs after the finalizer has been set finds the Graph there.
Living(g) ==
    /\ ~graphs[g].up => ~graphs[g].fin
    /\ graphs[g].up /\ graphs[g].deleting => graphs[g].fin
    /\ ~graphs[g].fin => graphs[g].managed = <<>> /\ graphs[g].contribs = {}
    /\ w[g].pc \notin {"idle", "manage"} => graphs[g].up /\ graphs[g].fin
Lifecycle == \A g \in Graphs : Living(g)

LEMMA LivingStays ==
    ASSUME NEW g, Living(g),
           \A f \in {"up", "deleting", "fin", "managed", "contribs"} : graphs'[g][f] = graphs[g][f],
           w'[g].pc \in {"idle", "manage"} \/ w[g].pc \notin {"idle", "manage"}
    PROVE  Living(g)'
<1>1. graphs'[g].up = graphs[g].up /\ graphs'[g].fin = graphs[g].fin
      /\ graphs'[g].deleting = graphs[g].deleting /\ graphs'[g].managed = graphs[g].managed /\ graphs'[g].contribs = graphs[g].contribs
  OBVIOUS
<1> QED
  BY <1>1 DEF Living

\* A run past the finalizer writes the records of its Graph.
LEMMA LivingWrites ==
    ASSUME NEW g, Living(g), w[g].pc \notin {"idle", "manage"}, NEW G, Writes(g, G),
           G \cap {"up", "deleting", "fin"} = {}
    PROVE  Living(g)'
<1>1. graphs'[g].up = graphs[g].up /\ graphs'[g].fin = graphs[g].fin
      /\ graphs'[g].deleting = graphs[g].deleting
  BY DEF Writes, GraphFields
<1> QED
  BY <1>1 DEF Living

LEMMA NoGraphFields ==
    ASSUME Shapes, NEW g \in Graphs
    PROVE  NoGraph(g).up = FALSE /\ NoGraph(g).fin = FALSE
           /\ NoGraph(g).managed = <<>> /\ NoGraph(g).contribs = {}
BY DEF NoGraph, GraphFields, Shapes
\* What the steps of a run past the finalizer write.
LEMMA RecordWrites ==
    ASSUME Shapes, NEW g \in Graphs, Reconcile(g), ~Begin(g), ~setManaged(g), ~setUnmanaged(g)
    PROVE  w[g].pc \notin {"idle", "manage"} /\ Writes(g, {"managed", "contribs", "sa", "cond"})
<1> DEFINE W(G) == w[g].pc \notin {"idle", "manage"} /\ Writes(g, G)
           G0 == {"managed", "contribs", "sa", "cond"}
<1>0. \A G \in SUBSET G0 : W(G) => W(G0)
  BY WritesWide
<1>1. CASE CompileStart(g) \/ CompileEnd(g)
  <2>1. W({})
    BY <1>1, CompileStartFacts, CompileEndFacts
  <2> QED
    BY <1>0, <2>1
<1>2. CASE WriteAheadManaged(g)
  <2>1. W({"managed"})
    BY <1>2, WriteAheadManagedFacts
  <2> QED
    BY <1>0, <2>1
<1>3. CASE WriteAheadContributions(g) \/ Finish(g) \/ SettleContributions(g)
  <2>1. W({"contribs"})
    BY <1>3, WriteAheadContributionsFacts, FinishFacts, SettleFacts
  <2> QED
    BY <1>0, <2>1
<1>4. CASE EnterNode(g) \/ GetLive(g) \/ \E force \in BOOLEAN : ApplyObject(g, force)
  <2>1. W({})
    BY <1>4, EnterNodeFacts, GetLiveFacts, ApplyObjectFacts
  <2> QED
    BY <1>0, <2>1
<1>5. CASE DeleteEntry(g) \/ DeleteChecked(g) \/ EndPrune(g) \/ EndDelete(g)
  <2>1. W({})
    BY <1>5, DeleteEntryFacts, DeleteCheckedFacts, EndPruneFacts, EndDeleteFacts
  <2> QED
    BY <1>0, <2>1
<1>6. CASE ReleaseGet(g) \/ ReleaseApply(g)
  <2>1. W({})
    BY <1>6, ReleaseGetFacts, ReleaseApplyFacts
  <2> QED
    BY <1>0, <2>1
<1>7. CASE updateStatus(g)
  <2>1. W({"managed", "sa", "cond"})
    BY <1>7, UpdateStatusFacts
  <2> QED
    BY <1>0, <2>1
<1> QED
  BY <1>1, <1>2, <1>3, <1>4, <1>5, <1>6, <1>7 DEF Reconcile

LEMMA SetManagedLiving ==
    ASSUME Shapes, NEW g \in Graphs, Living(g), setManaged(g)
    PROVE  /\ Living(g)'
           /\ graphs'[g].managed = graphs[g].managed /\ graphs'[g].contribs = graphs[g].contribs
           /\ graphs'[g].up = graphs[g].up
<1> DEFINE new == [graphs[g] EXCEPT !.fin = TRUE]
           invalid == [w[g] EXCEPT !.pc = "status", !.cond = "invalid", !.err = FALSE]
           ready == [w[g] EXCEPT !.pc = "compile"]
<1>0. w[g].pc = "manage" /\ DOMAIN w = Graphs /\ DOMAIN graphs = Graphs /\ DOMAIN graphs[g] = GraphFields
  BY DEF setManaged, Shapes
<1>1. \/ graphs' = graphs /\ Go(g, Idle)
      \/ /\ graphs[g].up /\ graphs' = [graphs EXCEPT ![g] = new]
         /\ Go(g, Idle) \/ Go(g, invalid) \/ Go(g, ready)
  BY <1>0 DEF setManaged, Return, Step, Replies
<1>2. Idle.pc = "idle"
  BY DEF Idle
<1>3. /\ new.up = graphs[g].up /\ new.fin = TRUE
      /\ new.managed = graphs[g].managed /\ new.contribs = graphs[g].contribs
  BY <1>0 DEF GraphFields
<1> HIDE DEF new, invalid, ready
<1>4. CASE graphs' = graphs /\ Go(g, Idle)
  <2>1. w'[g].pc = "idle"
    BY <1>0, <1>2, <1>4 DEF Go
  <2> QED
    BY <1>4, <2>1 DEF Living
<1>5. CASE graphs[g].up /\ graphs' = [graphs EXCEPT ![g] = new]
  <2>1. graphs'[g] = new
    BY <1>0, <1>5
  <2> QED
    BY <1>3, <1>5, <2>1 DEF Living
<1> QED
  BY <1>1, <1>4, <1>5

LEMMA SetUnmanagedLiving ==
    ASSUME Shapes, NEW g \in Graphs, Living(g), setUnmanaged(g)
    PROVE  Living(g)'
<1>0. Stops(g)
  BY SetUnmanagedFacts
<1>1. graphs' = graphs \/ graphs' = [graphs EXCEPT ![g] = NoGraph(g)]
  BY DEF setUnmanaged
<1>2. w'[g].pc = "idle"
  BY <1>0 DEF Stops, Idle
<1>3. graphs'[g] = graphs[g] \/ graphs'[g] = NoGraph(g)
  BY <1>1 DEF Shapes
<1> QED
  BY <1>2, <1>3, NoGraphFields DEF Living

\* What users do to a Graph leaves its records as they are.
LEMMA UsersLiving ==
    ASSUME Shapes, NEW g \in Graphs, Living(g), EditGraph(g) \/ DeleteGraph(g)
    PROVE  /\ Living(g)' /\ UNCHANGED w /\ \A h \in Graphs \ {g} : graphs'[h] = graphs[h]
           /\ graphs'[g].managed = graphs[g].managed /\ graphs'[g].contribs = graphs[g].contribs
           /\ \/ graphs'[g].up = graphs[g].up
              \/ graphs[g].up /\ ~graphs'[g].up /\ graphs[g].managed = <<>>
<1> DEFINE x == [graphs[g] EXCEPT !.deleting = TRUE, !.gen = graphs[g].gen + 1]
           y == [graphs[g] EXCEPT !.ver = graphs[g].ver + 1, !.gen = graphs[g].gen + 1]
<1>0. DOMAIN graphs = Graphs /\ DOMAIN graphs[g] = GraphFields
  BY DEF Shapes
<1>1. /\ UNCHANGED w
      /\ \/ graphs[g].fin /\ graphs' = [graphs EXCEPT ![g] = x]
         \/ graphs' = [graphs EXCEPT ![g] = y]
         \/ graphs[g].up /\ ~graphs[g].fin /\ graphs' = [graphs EXCEPT ![g] = NoGraph(g)]
  <2>1. CASE EditGraph(g)
    BY <1>0, <2>1 DEF EditGraph
  <2>2. CASE DeleteGraph(g)
    BY <2>2 DEF DeleteGraph
  <2> QED
    BY <2>1, <2>2
<1>2. /\ x.managed = graphs[g].managed /\ x.contribs = graphs[g].contribs
      /\ x.up = graphs[g].up /\ x.fin = graphs[g].fin /\ y.deleting = graphs[g].deleting
      /\ y.managed = graphs[g].managed /\ y.contribs = graphs[g].contribs
      /\ y.up = graphs[g].up /\ y.fin = graphs[g].fin
  BY <1>0 DEF GraphFields
<1> HIDE DEF x, y
<1>3. /\ \A h \in Graphs \ {g} : graphs'[h] = graphs[h]
      /\ \/ graphs[g].fin /\ graphs'[g] = x
         \/ graphs'[g] = y
         \/ graphs[g].up /\ ~graphs[g].fin /\ graphs'[g] = NoGraph(g)
  BY <1>0, <1>1
<1>4. CASE (graphs[g].fin /\ graphs'[g] = x) \/ graphs'[g] = y
  BY <1>1, <1>2, <1>3, <1>4 DEF Living
<1>5. CASE graphs[g].up /\ ~graphs[g].fin /\ graphs'[g] = NoGraph(g)
  BY <1>1, <1>3, <1>5, NoGraphFields DEF Living
<1> QED
  BY <1>3, <1>4, <1>5

\* A new run, in full.
NewRun(g, r) ==
    /\ DOMAIN r = RunFields /\ r.ver = graphs[g].ver /\ r.gen = graphs[g].gen
    /\ r.managed = graphs[g].managed /\ r.prev = graphs[g].managed /\ r.intent = graphs[g].managed
    /\ r.contribs = graphs[g].contribs /\ r.prior = graphs[g].contribs
    /\ r.val = NoValues(specOf(g, graphs[g].ver).nodes) /\ r.i = 1
    /\ r.applied = <<>> /\ r.contr = {} /\ r.soft = None /\ r.hard = FALSE /\ r.err = FALSE
    /\ r.res = {} /\ r.claims = {}

LEMMA BeginOpens ==
    ASSUME Shapes, NEW g \in Graphs, Begin(g)
    PROVE  /\ w[g] = Idle /\ UNCHANGED <<graphs, objs, uids, left, wrote, case>>
           /\ \/ ~graphs[g].up /\ UNCHANGED w
              \/ /\ graphs[g].up /\ NewRun(g, w'[g])
                 /\ \/ /\ graphs[g].deleting /\ w'[g].pc = "delete"
                       /\ w'[g].todo = graphs[g].managed /\ w'[g].rel = graphs[g].contribs
                    \/ ~graphs[g].fin /\ w'[g].pc = "manage"
                    \/ graphs[g].fin /\ w'[g].pc \in {"compile", "status"}
<1> DEFINE gr == graphs[g]
           user == specOf(g, gr.ver).sa
           val == NoValues(specOf(g, gr.ver).nodes)
           run == [pc |-> "compile", gen |-> gr.gen, ver |-> gr.ver,
                   managed |-> gr.managed, prev |-> gr.managed, intent |-> gr.managed,
                   contribs |-> gr.contribs, prior |-> gr.contribs, sa |-> gr.sa,
                   user |-> user, ep |-> 0, read |-> <<>>,
                   i |-> 1, val |-> val, items |-> {},
                   res |-> {}, at |-> None, cur |-> NoObject, claims |-> {},
                   decl |-> {}, applied |-> <<>>, contr |-> {}, unres |-> {},
                   soft |-> None, hard |-> FALSE, todo |-> <<>>, rel |-> {},
                   newSet |-> <<>>, cond |-> gr.cond.is, err |-> FALSE]
           as == teardownExecutorFor(gr, user)
           x == [run EXCEPT !.pc = "delete", !.todo = gr.managed, !.rel = gr.contribs, !.user = as]
           y == [run EXCEPT !.pc = "manage"]
           z == [run EXCEPT !.pc = "status", !.cond = "invalid", !.err = FALSE]
<1>0. run.user = user
  OBVIOUS
<1>1. /\ w[g] = Idle /\ UNCHANGED <<graphs, objs, uids, left, wrote, case>>
      /\ \/ ~gr.up /\ UNCHANGED w
         \/ gr.up /\ gr.deleting /\ Go(g, x)
         \/ gr.up /\ ~gr.fin /\ Go(g, y)
         \/ gr.up /\ gr.fin /\ (Go(g, z) \/ Go(g, run))
  BY <1>0 DEF Begin, Running, Return
<1>2. NewRun(g, run) /\ run.pc = "compile"
  BY DEF NewRun, RunFields
<1> HIDE DEF run, as
<1>3. /\ NewRun(g, x) /\ x.pc = "delete" /\ x.todo = gr.managed /\ x.rel = gr.contribs
      /\ NewRun(g, y) /\ y.pc = "manage"
      /\ NewRun(g, z) /\ z.pc = "status"
  BY <1>2 DEF NewRun, RunFields
<1> HIDE DEF x, y, z
<1>4. \A r : Go(g, r) => w'[g] = r
  BY DEF Go, Shapes
<1> QED
  BY <1>1, <1>2, <1>3, <1>4

LEMMA BeginLiving ==
    ASSUME Shapes, NEW g \in Graphs, Living(g), Begin(g)
    PROVE  Living(g)'
<1>1. UNCHANGED graphs /\ Idle.pc = "idle"
  BY BeginOpens DEF Idle
<1>2. UNCHANGED w \/ w'[g].pc = "manage" \/ (graphs[g].up /\ graphs[g].fin)
  BY BeginOpens DEF Living
<1> QED
  BY <1>1, <1>2 DEF Living

LEMMA LifecycleStep ==
    ASSUME Shapes, Lifecycle, [Next]_vars PROVE Lifecycle'
<1>0. ASSUME NEW g \in Graphs, graphs'[g] = graphs[g], w'[g] = w[g] \/ w'[g] = Idle
      PROVE  Living(g)'
  BY <1>0 DEF Lifecycle, Living, Idle
<1>1. ASSUME NEW g \in Graphs, Reconcile(g) PROVE Lifecycle'
  <2>1. Living(g)
    BY DEF Lifecycle
  <2>2. Living(g)'
    BY <1>1, <2>1, BeginLiving, SetManagedLiving, SetUnmanagedLiving, RecordWrites, LivingWrites
  <2> QED
    BY <1>0, <1>1, <2>2, ReconcileLocal DEF Lifecycle
<1>2. ASSUME NEW g \in Graphs, EditGraph(g) \/ DeleteGraph(g) PROVE Lifecycle'
  BY <1>0, <1>2, UsersLiving DEF Lifecycle
<1>3. CASE (\E g \in Graphs : Drain(g)) \/ (\E o \in Objects : Meddle(o) \/ Report(o) \/ Gone(o))
           \/ (\E k \in Kinds : CrdChanges(k) \/ CrdEvent(k)) \/ UNCHANGED vars
  <2>1. UNCHANGED <<graphs, w>>
    BY <1>3 DEF Drain, Meddle, Report, Gone, CrdChanges, CrdEvent, vars
  <2> QED
    BY <1>0, <2>1 DEF Lifecycle
<1>4. CASE Crash
  <2>1. UNCHANGED graphs /\ w' = [g \in Graphs |-> Idle]
    BY <1>4 DEF Crash
  <2> QED
    BY <1>0, <2>1 DEF Lifecycle
<1> QED
  BY <1>1, <1>2, <1>3, <1>4 DEF Next

\* The ground the rest stands on.
Ground == Ordered /\ Unserved /\ Newest /\ Budgeted /\ Lifecycle

LEMMA GroundStep == ASSUME Ground, [Next]_vars PROVE Unserved' /\ Newest' /\ Budgeted' /\ Lifecycle'
BY UnservedStep, NewestStep, BudgetStep, LifecycleStep DEF Ground, Ordered, Tracked, Attention

LEMMA GroundInit == ASSUME Init PROVE Unserved /\ Newest /\ Budgeted /\ Lifecycle
<1>1. case \in Cases /\ objs = case.objs /\ uids = [o \in Objects |-> objs[o].uid] /\ left = case.budget
  BY DEF Init
<1>2. Unserved
  <2>1. \A o \in Objects : objs[o] = NoObject \/ Managers(objs[o]) \subseteq {Someone}
    BY <1>1, CasesAssumption
  <2>2. ~Exists(NoObject)
    BY DEF Exists, NoObject
  <2> QED
    BY <2>1, <2>2 DEF Unserved
<1>3. Newest
  BY <1>1 DEF Newest
<1>4. Budgeted
  <2>1. left \in [faults : Nat, humans : Nat, reports : Nat]
    BY <1>1, ProgramsAssumption
  <2> QED
    BY <1>1, <2>1 DEF Budgeted
<1>5. ASSUME NEW g \in Graphs PROVE Living(g)
  <2>1. /\ graphs[g].fin = FALSE /\ graphs[g].deleting = FALSE
        /\ graphs[g].managed = <<>> /\ graphs[g].contribs = {} /\ w[g] = Idle
    BY DEF Init
  <2> QED
    BY <2>1 DEF Living, Idle
<1> QED
  BY <1>2, <1>3, <1>4, <1>5 DEF Lifecycle
-----------------------------------------------------------------------------
(* What an item and an apply do to the run.                                *)

Walking == {"walk", "get", "apply", "force"}

\* A run that has failed for good, or will at the end of its node.
Doomed(r) == r.hard \/ (r.pc # "walk" /\ "hard" \in r.res)

\* A verdict is kept until the end of the node, and then on the run.
LEMMA ItemDoneVerdicts ==
    ASSUME NEW r, DOMAIN r = RunFields, NEW n, NEW o, NEW verdict, NEW st, NEW s,
           s = ItemDone(r, n, o, verdict, st)
    PROVE  /\ r.hard \/ "hard" \in r.res \/ verdict = "hard" => Doomed(s)
           /\ r.hard => s.hard
           /\ r.soft # None => s.soft # None
           /\ s.pc = "get" => r.res \subseteq s.res /\ (verdict # "done" => verdict \in s.res)
           /\ s.pc = "walk" => \/ s.hard \/ s.soft # None
                               \/ r.res = {} /\ verdict = "done"
           /\ s.pc = "get" /\ s.res = {} => r.res = {} /\ verdict = "done"
           /\ s.pc = "walk" => r.items \ {o} = {}
           /\ s.pc = "walk" => s.res = {}
           /\ s.pc = "get" => r.items \ {o} # {}
<1> DEFINE res == IF verdict # "done" THEN r.res \union {verdict}
                  ELSE IF ~CheckReadiness(n, st) THEN r.res \union {"waiting"}
                  ELSE r.res
           items == r.items \ {o}
           next == [r EXCEPT !.pc = "get", !.items = items, !.res = res,
                             !.at = None, !.cur = NoObject]
           end == [next EXCEPT !.pc = "walk", !.i = @ + 1, !.res = {}]
           said == IF n.coll \/ res \ {"waiting"} # {} \/ n.kind = "patch" THEN end
                   ELSE [end EXCEPT !.val[n.id] = st]
           failed == [end EXCEPT !.hard = TRUE]
           waits == [said EXCEPT !.soft = recordSoft(said.soft, "notready")]
           soft == Unresolved(end, n.id, SoftOf(res))
<1>0. /\ r.res \subseteq res /\ (verdict # "done" => verdict \in res)
      /\ res = {} => verdict = "done" /\ r.res = {}
      /\ res = {"waiting"} => "hard" \notin res
  OBVIOUS
<1>1. DOMAIN next = RunFields /\ next.pc = "get" /\ next.items = items /\ next.res = res
      /\ next.hard = r.hard /\ next.soft = r.soft
  BY DEF RunFields
<1>2. \/ items # {} /\ s = next
      \/ items = {} /\ "hard" \in res /\ s = failed
      \/ items = {} /\ "hard" \notin res /\ res = {} /\ s = said
      \/ items = {} /\ "hard" \notin res /\ s = waits
      \/ items = {} /\ "hard" \notin res /\ s = soft
  BY <1>1 DEF ItemDone
<1> HIDE DEF res, items, next
<1>3. DOMAIN end = RunFields /\ end.pc = "walk" /\ end.hard = r.hard /\ end.soft = r.soft /\ end.res = {}
  BY <1>1 DEF RunFields
<1> HIDE DEF end
<1>4. DOMAIN said = RunFields /\ said.pc = "walk" /\ said.hard = r.hard /\ said.soft = r.soft /\ said.res = {}
  BY <1>3 DEF RunFields
<1> HIDE DEF said
<1>5. /\ failed.pc = "walk" /\ failed.hard = TRUE /\ failed.soft = r.soft /\ failed.res = {}
      /\ waits.pc = "walk" /\ waits.hard = r.hard /\ waits.soft = recordSoft(r.soft, "notready") /\ waits.res = {}
      /\ soft.pc = "walk" /\ soft.hard = r.hard /\ soft.soft = recordSoft(r.soft, SoftOf(res)) /\ soft.res = {}
  BY <1>3, <1>4 DEF RunFields, Unresolved
<1>6. SoftOf(res) \in {"notready", "conflict", "schema"}
  BY DEF SoftOf
<1>7. waits.soft # None /\ soft.soft # None
  BY <1>5, <1>6 DEF recordSoft, None
<1> HIDE DEF failed, waits, soft
<1>8. CASE items # {} /\ s = next
  BY <1>0, <1>1, <1>8 DEF Doomed, items
<1>9. CASE items = {} /\ "hard" \in res /\ s = failed
  BY <1>5, <1>9 DEF Doomed, items
<1>10. CASE items = {} /\ "hard" \notin res /\ res = {} /\ s = said
  BY <1>0, <1>4, <1>10 DEF Doomed, items
<1>11. CASE items = {} /\ "hard" \notin res /\ (s = waits \/ s = soft)
  BY <1>0, <1>5, <1>7, <1>11 DEF Doomed, items
<1> QED
  BY <1>2, <1>8, <1>9, <1>10, <1>11

Collects(n) == n.kind = "template" /\ n.coll

\* What Landed records of an object o with the UID u.
Records(g, n, o, u, r, s) ==
    /\ n.kind = "patch" => s.applied = r.applied /\ s.contr = r.contr \cup {Contribution(g, n, o)}
    /\ n.kind # "patch" =>
         /\ s.contr = r.contr /\ DOMAIN s.applied = DOMAIN r.applied \cup {o}
         /\ s.applied[o] = [node |-> n.id, uid |-> u]
         /\ \A p \in DOMAIN r.applied \ {o} : s.applied[p] = r.applied[p]

LEMMA LandedRecords ==
    ASSUME NEW g, NEW r, DOMAIN r = RunFields, NEW n, NEW o, NEW u
    PROVE  Records(g, n, o, u, r, Landed(g, r, n, o, u))
<1>1. CASE n.kind = "patch"
  <2> DEFINE c == Contribution(g, n, o)
             x == [r EXCEPT !.contr = r.contr \cup {c}]
  <2>1. Landed(g, r, n, o, u) = x
    BY <1>1 DEF Landed
  <2> HIDE DEF c
  <2>2. x.applied = r.applied /\ x.contr = r.contr \cup {c}
    BY DEF RunFields
  <2> QED
    BY <1>1, <2>1, <2>2 DEF c, Records
<1>2. CASE n.kind # "patch"
  <2> DEFINE e == [node |-> n.id, uid |-> u]
             a == [z \in DOMAIN r.applied \cup {o} |-> IF z = o THEN e ELSE r.applied[z]]
             x == [r EXCEPT !.applied = a]
  <2>1. Landed(g, r, n, o, u) = x
    BY <1>2 DEF Landed
  <2>2. DOMAIN a = DOMAIN r.applied \cup {o} /\ a[o] = e /\ \A p \in DOMAIN r.applied \ {o} : a[p] = r.applied[p]
    OBVIOUS
  <2> HIDE DEF a, e
  <2>3. x.applied = a /\ x.contr = r.contr
    BY DEF RunFields
  <2> QED
    BY <1>2, <2>1, <2>2, <2>3 DEF e, Records
<1> QED
  BY <1>1, <1>2

\* An apply, in full: refused, failed or carried out, and then answered or not.
LEMMA ApplyEffect ==
    ASSUME Ground, NEW g \in Graphs, NEW force \in BOOLEAN, ApplyObject(g, force), case' = case,
           NEW r, r = w[g], NEW s, s = w'[g], NEW n, n = NodeAt(g), NEW o, o = w[g].at
    PROVE  /\ o \in Objects /\ DOMAIN r = RunFields /\ r.pc \in {"apply", "force"} /\ UNCHANGED graphs
           /\ \/ /\ UNCHANGED <<objs, uids, wrote>>
                 /\ \/ s = [r EXCEPT !.pc = "force"]
                    \/ \E v, st : v # "done" /\ s = ItemDone(r, n, o, v, st)
                    \/ /\ Collects(n) /\ Exists(r.cur)
                       /\ \E v, st : s = ItemDone(Landed(g, r, n, o, r.cur.uid), n, o, v, st)
              \/ /\ Served(o) /\ Exists(objs'[o])
                 /\ wrote' = IF n.kind = "patch" THEN wrote ELSE wrote \cup {<<g, o, objs'[o].uid>>}
                 /\ \/ \E st : s = ItemDone(Landed(g, r, n, o, objs'[o].uid), n, o, "done", st)
                    \/ ~Undisturbed' /\ ~Collects(n) /\ \E st : s = ItemDone(r, n, o, "hard", st)
                    \/ ~Undisturbed' /\ Collects(n) /\ \E v, st : v # "done" /\ s = ItemDone(r, n, o, v, st)
                    \/ /\ ~Undisturbed' /\ Collects(n) /\ Exists(r.cur)
                       /\ \E v, st : s = ItemDone(Landed(g, r, n, o, r.cur.uid), n, o, v, st)
<1> DEFINE m == Writer(g)
           new == ssaApply(objs[o], m, n.set, uids[o] + 1)
           Bad(p) == \/ \E v, st : v # "done" /\ p = ItemDone(r, n, o, v, st)
                     \/ /\ Collects(n) /\ Exists(r.cur)
                        /\ \E v, st : p = ItemDone(Landed(g, r, n, o, r.cur.uid), n, o, v, st)
<1>0. /\ Ordered /\ Shapes /\ Stock /\ Budgeted
  BY DEF Ground, Ordered, Tracked, Attention
<1>1. /\ o \in Objects /\ r.pc \in {"apply", "force"} /\ DOMAIN r = RunFields
      /\ UNCHANGED graphs /\ DOMAIN w = Graphs
  <2>1. o \in Objects /\ r.pc \in {"apply", "force"}
    BY <1>0, AppliesObjects
  <2> QED
    BY <1>0, <2>1, RunsFacts DEF ApplyObject, Shapes
<1>2. \A permanent : Bad(Failed(g, n, o, permanent))
  <2> SUFFICES ASSUME NEW permanent PROVE Bad(Failed(g, n, o, permanent))
    OBVIOUS
  <2>1. CASE ~Collects(n)
    <3>1. Failed(g, n, o, permanent) = ItemDone(r, n, o, "hard", None)
      BY <2>1 DEF Failed, Collects
    <3> QED
      BY <3>1
  <2>2. CASE Collects(n) /\ Exists(r.cur)
    <3>1. \E v, st : Failed(g, n, o, permanent) = ItemDone(Landed(g, r, n, o, r.cur.uid), n, o, v, st)
      BY <2>2 DEF Failed, Collects, classifyRejection
    <3> QED
      BY <2>2, <3>1
  <2>3. CASE Collects(n) /\ ~Exists(r.cur)
    <3>1. \/ Failed(g, n, o, permanent) = ItemDone(r, n, o, "hard", None)
          \/ Failed(g, n, o, permanent) = ItemDone(r, n, o, "notready", None)
      BY <2>3 DEF Failed, Collects, classifyRejection
    <3> QED
      BY <3>1
  <2> QED
    BY <2>1, <2>2, <2>3
<1>3. ~Collects(n) => Failed(g, n, o, FALSE) = ItemDone(r, n, o, "hard", None)
  BY DEF Failed, Collects
<1>4. \E reply \in Replies : \E permanent :
        /\ Spend(reply)
        /\ \/ Go(g, Failed(g, n, o, permanent)) /\ UNCHANGED <<objs, uids, wrote>>
           \/ /\ Step(g, "force") \/ Go(g, ItemDone(w[g], n, o, "conflict", None))
              /\ UNCHANGED <<objs, uids, wrote>>
           \/ /\ Served(o) /\ SetObject(o, new)
              /\ wrote' = IF n.kind = "patch" THEN wrote ELSE wrote \union {<<g, o, new.uid>>}
              /\ \/ reply = "lost" /\ Go(g, Failed(g, n, o, FALSE))
                 \/ Go(g, ItemDone(Landed(g, w[g], n, o, new.uid), n, o, "done", new.st))
  BY DEF ApplyObject, Writer
<1>5. PICK reply \in Replies : \E permanent :
        /\ Spend(reply)
        /\ \/ Go(g, Failed(g, n, o, permanent)) /\ UNCHANGED <<objs, uids, wrote>>
           \/ /\ Step(g, "force") \/ Go(g, ItemDone(w[g], n, o, "conflict", None))
              /\ UNCHANGED <<objs, uids, wrote>>
           \/ /\ Served(o) /\ SetObject(o, new)
              /\ wrote' = IF n.kind = "patch" THEN wrote ELSE wrote \union {<<g, o, new.uid>>}
              /\ \/ reply = "lost" /\ Go(g, Failed(g, n, o, FALSE))
                 \/ Go(g, ItemDone(Landed(g, w[g], n, o, new.uid), n, o, "done", new.st))
  BY <1>4
<1> HIDE DEF Bad
<1>6. \A p : Go(g, p) => s = p
  BY <1>1 DEF Go
<1>7. Undisturbed' => reply = "ok"
  BY <1>0, <1>5, Spends
<1>8. SetObject(o, new) => objs'[o] = new
  BY <1>0, <1>1 DEF SetObject, Stock
<1>9. Served(o) /\ SetObject(o, new) => Exists(objs'[o])
  <2> SUFFICES ASSUME SetObject(o, new) PROVE Exists(new)
    BY <1>8
  <2> DEFINE x == objs[o]
             u == uids[o] + 1
             wants == n.set
             k == IF Exists(x) THEN uids[o] ELSE u
             l == uids[o]
  <2>1. (Exists(x) => DOMAIN x = ObjectFields) /\ u # 0 /\ new = ssaApply(x, m, wants, u)
        /\ (Exists(x) => k = l) /\ (~Exists(x) => u = l + 1 /\ k = u)
    BY <1>0, <1>1, ExistingFields
  <2> HIDE DEF x, u, wants, k, l, new, m
  <2>2. Turn(x, new, l, k, m) /\ Exists(new)
    BY <2>1, AppliedTurns
  <2> QED
    BY <2>2
<1>10. CASE (\E permanent : Go(g, Failed(g, n, o, permanent))) /\ UNCHANGED <<objs, uids, wrote>>
  <2>1. Bad(s)
    BY <1>2, <1>6, <1>10
  <2> QED
    BY <1>1, <1>10, <2>1 DEF Bad
<1>11. CASE /\ Step(g, "force") \/ Go(g, ItemDone(w[g], n, o, "conflict", None))
            /\ UNCHANGED <<objs, uids, wrote>>
  <2>1. s = [r EXCEPT !.pc = "force"] \/ s = ItemDone(r, n, o, "conflict", None)
    BY <1>6, <1>11 DEF Step
  <2> QED
    BY <1>1, <1>11, <2>1
<1>12. CASE /\ Served(o) /\ SetObject(o, new)
            /\ wrote' = IF n.kind = "patch" THEN wrote ELSE wrote \union {<<g, o, new.uid>>}
            /\ \/ reply = "lost" /\ Go(g, Failed(g, n, o, FALSE))
               \/ Go(g, ItemDone(Landed(g, w[g], n, o, new.uid), n, o, "done", new.st))
  <2>1. objs'[o] = new /\ Exists(objs'[o])
    BY <1>8, <1>9, <1>12
  <2>2. wrote' = IF n.kind = "patch" THEN wrote ELSE wrote \cup {<<g, o, objs'[o].uid>>}
    BY <1>12, <2>1
  <2>3. CASE Go(g, ItemDone(Landed(g, w[g], n, o, new.uid), n, o, "done", new.st))
    <3>1. s = ItemDone(Landed(g, r, n, o, objs'[o].uid), n, o, "done", new.st)
      BY <1>6, <2>1, <2>3
    <3> QED
      BY <1>1, <1>12, <2>1, <2>2, <3>1
  <2>4. CASE reply = "lost" /\ Go(g, Failed(g, n, o, FALSE))
    <3>1. s = Failed(g, n, o, FALSE) /\ ~Undisturbed'
      BY <1>6, <1>7, <2>4
    <3>2. CASE ~Collects(n)
      BY <1>1, <1>3, <1>12, <2>1, <2>2, <3>1, <3>2
    <3>3. CASE Collects(n)
      <4>1. Bad(s)
        BY <1>2, <3>1
      <4> QED
        BY <1>1, <1>12, <2>1, <2>2, <3>1, <3>3, <4>1 DEF Bad
    <3> QED
      BY <3>2, <3>3
  <2> QED
    BY <1>12, <2>3, <2>4
<1> QED
  BY <1>5, <1>10, <1>11, <1>12
-----------------------------------------------------------------------------
(* The fields of patches.                                                  *)

Before == {"manage", "compile", "compiling", "intent", "intent2"}
After == {"prune", "pruning", "release", "releasing"}

\* m, a patch manager of g, owns fields of o.
Patches(g, o, m) == Exists(objs[o]) /\ m \in Managers(objs[o]) /\ m.kind = "patch" /\ m.graph = g

\* The patch is one the write-ahead cannot announce.
LateManager(g, m) == \E n \in Late(g) : n.kind = "patch" /\ n.id = m.node

\* The ledger st and the ledgers of the run account for a contribution c: what is
\* stored lists it, and what will be stored or released does.
Covers(r, st, c, late, quiet) ==
    /\ c \in st \/ (late /\ ~quiet) \/ (late /\ r.pc \in Walking /\ c \in r.contr)
    /\ r.pc \in Walking => c \in r.prior \cup r.contr \/ (late /\ ~quiet) \/ Doomed(r)
    /\ r.pc \in {"prune", "pruning"} => c \in r.prior \cup r.contr \/ (late /\ ~quiet)
    /\ r.pc \in {"release", "releasing"} => c \in r.rel \cup r.contr \/ (late /\ ~quiet)
    /\ r.pc \in {"unlink", "unlinking"} => c \in r.rel \/ (late /\ ~quiet)

\* The ledgers of a run follow the stored one.
Mirrors(g, nodes, r, st) ==
    /\ r.pc \in Before => st = r.prior /\ st = r.contribs /\ r.val = NoValues(nodes)
    /\ r.pc \in Walking \cup After => st = r.contribs
    /\ r.pc \in Walking => intendedContributions(g, nodes, NoValues(nodes)) \subseteq st
    /\ r.pc \in {"delete", "deleting"} => r.rel = st

Accounted(g) ==
    \A o \in Objects : \A m : Patches(g, o, m) =>
      Covers(w[g], graphs[g].contribs, [obj |-> o, manager |-> m], LateManager(g, m), Undisturbed)

Residual(g) == Mirrors(g, Nodes(g), w[g], graphs[g].contribs) /\ Accounted(g)

\* A step that leaves no manager of g behind.
LEMMA AccountedStep ==
    ASSUME NEW g, Accounted(g), case' = case, Inherits(g),
           \A o \in Objects : \A m : \A late \in BOOLEAN :
             Patches(g, o, m)' /\ Patches(g, o, m)
               /\ Covers(w[g], graphs[g].contribs, [obj |-> o, manager |-> m], late, Undisturbed)
             => Covers(w'[g], graphs'[g].contribs, [obj |-> o, manager |-> m], late, Undisturbed')
    PROVE  Accounted(g)'
<1> SUFFICES ASSUME NEW o \in Objects, NEW m, Patches(g, o, m)'
             PROVE  Covers(w'[g], graphs'[g].contribs, [obj |-> o, manager |-> m],
                           LateManager(g, m)', Undisturbed')
  BY DEF Accounted
<1>1. LateManager(g, m)' = LateManager(g, m) /\ LateManager(g, m) \in BOOLEAN
  BY DEF LateManager, Late, Announced, specOf
<1>2. Patches(g, o, m)
  BY DEF Patches, Inherits, OfGraph
<1>3. Covers(w[g], graphs[g].contribs, [obj |-> o, manager |-> m], LateManager(g, m), Undisturbed)
  BY <1>2 DEF Accounted
<1> QED
  BY <1>1, <1>2, <1>3

\* From the records alone: where a run r with the ledger st goes to s with t.
LEMMA ResidualNext ==
    ASSUME NEW g \in Graphs, Residual(g), case' = case, Inherits(g),
           NEW r, r = w[g], NEW st, st = graphs[g].contribs,
           NEW s, s = w'[g], NEW t, t = graphs'[g].contribs,
           Mirrors(g, case.specs[g][s.ver].nodes, s, t),
           \A c : \A late \in BOOLEAN :
             Covers(r, st, c, late, Undisturbed) => Covers(s, t, c, late, Undisturbed')
    PROVE  Residual(g)'
<1>1. Nodes(g)' = case.specs[g][s.ver].nodes
  BY DEF Nodes, specOf
<1>2. Accounted(g)'
  BY AccountedStep DEF Residual
<1> QED
  BY <1>1, <1>2 DEF Residual

\* A step that only moves on and gives no ledger another value.
LEMMA ResidualMoves ==
    ASSUME NEW g \in Graphs, Residual(g), case' = case, Inherits(g), Undisturbed' => Undisturbed,
           graphs'[g].contribs = graphs[g].contribs,
           NEW F, NEW pcs, Moves(g, F, pcs), F \cap {"ver", "prior", "contr", "contribs", "rel", "hard", "res"} = {},
           \/ w[g].pc \in Before /\ w'[g].pc \in Before /\ "val" \notin F
           \/ w[g].pc = "walk" /\ w'[g].pc \in {"walk", "get"}
           \/ w[g].pc \in {"prune", "pruning"} /\ w'[g].pc \in {"prune", "pruning"}
           \/ w[g].pc \in {"release", "releasing"} /\ w'[g].pc \in {"release", "releasing"}
           \/ w[g].pc \in {"delete", "deleting"} /\ w'[g].pc \in {"delete", "deleting", "unlink"}
           \/ w[g].pc \in {"unlink", "unlinking"} /\ w'[g].pc \in {"unlink", "unlinking"}
           \/ w[g].pc \notin Walking /\ w'[g].pc = "status"
    PROVE  Residual(g)'
<1> DEFINE r == w[g]
           s == w'[g]
           st == graphs[g].contribs
           nodes == case.specs[g][r.ver].nodes
<1>1. /\ s.ver = r.ver /\ s.prior = r.prior /\ s.contr = r.contr /\ s.contribs = r.contribs
      /\ s.rel = r.rel /\ s.hard = r.hard /\ s.res = r.res /\ ("val" \notin F => s.val = r.val)
  BY DEF Moves, Edited, RunFields
<1>2. Mirrors(g, nodes, r, st)
  BY DEF Residual, Nodes, specOf
<1>3. \/ r.pc \in Before /\ s.pc \in Before /\ "val" \notin F
      \/ r.pc = "walk" /\ s.pc \in {"walk", "get"}
      \/ r.pc \in {"prune", "pruning"} /\ s.pc \in {"prune", "pruning"}
      \/ r.pc \in {"release", "releasing"} /\ s.pc \in {"release", "releasing"}
      \/ r.pc \in {"delete", "deleting"} /\ s.pc \in {"delete", "deleting", "unlink"}
      \/ r.pc \in {"unlink", "unlinking"} /\ s.pc \in {"unlink", "unlinking"}
      \/ r.pc \notin Walking /\ s.pc = "status"
  OBVIOUS
<1>4. st = graphs'[g].contribs /\ nodes = case.specs[g][s.ver].nodes
  BY <1>1
<1> HIDE DEF r, s, st, nodes
<1>5. Mirrors(g, nodes, s, st)
  BY <1>1, <1>2, <1>3 DEF Mirrors, Before, Walking, After
<1>6. ASSUME NEW c, NEW late \in BOOLEAN, Covers(r, st, c, late, Undisturbed)
      PROVE  Covers(s, st, c, late, Undisturbed')
  BY <1>1, <1>2, <1>3, <1>6 DEF Mirrors, Covers, Doomed, Before, Walking
<1> QED
  BY <1>4, <1>5, <1>6, ResidualNext DEF r, s, st

\* A step of g, or one beside it, from where the ledgers account for everything.
Afoot(g) == Ground /\ Residual(g) /\ case' = case /\ (Undisturbed' => Undisturbed)

LEMMA QuietResidual ==
    ASSUME NEW g \in Graphs, Afoot(g), Inherits(g),
           \/ CompileStart(g) \/ CompileEnd(g) \/ WriteAheadManaged(g) \/ EnterNode(g)
           \/ DeleteEntry(g) \/ DeleteChecked(g) \/ EndDelete(g)
    PROVE  Residual(g)'
<1>0. Shapes /\ Residual(g) /\ case' = case /\ (Undisturbed' => Undisturbed)
  BY DEF Afoot, Ground, Ordered, Tracked, Attention
<1>1. \A G : Writes(g, G) /\ "contribs" \notin G => graphs'[g].contribs = graphs[g].contribs
  BY DEF Writes, GraphFields
<1> DEFINE Fixed == {"ver", "prior", "contr", "contribs", "rel", "hard", "res"}
<1>2. CASE CompileStart(g) \/ CompileEnd(g)
  <2> DEFINE F == Ended \cup {"ep", "read"}
             pcs == {"status", "intent", "compiling"}
  <2>0. Ended \subseteq F /\ {"pc", "ep", "read"} \subseteq F /\ {"status", "intent"} \subseteq pcs
        /\ {"intent", "compiling"} \subseteq pcs
    BY DEF Ended
  <2> HIDE DEF F, pcs
  <2>a. Moves(g, F, pcs)
    <3>1. CASE Moves(g, {"pc", "ep", "read"}, {"intent", "compiling"})
      BY <2>0, <3>1, MovesWide
    <3>2. CASE Moves(g, Ended, {"status", "intent"})
      BY <2>0, <3>2, MovesWide
    <3> QED
      BY <1>0, <1>2, <3>1, <3>2, CompileStartFacts, CompileEndFacts
  <2>1. /\ w[g].pc \in Before /\ w[g].pc \notin Walking /\ Writes(g, {})
        /\ Moves(g, Ended \cup {"ep", "read"}, {"status", "intent", "compiling"})
    BY <1>0, <1>2, <2>a, CompileStartFacts, CompileEndFacts DEF Before, Walking, F, pcs
  <2>2. (Ended \cup {"ep", "read"}) \cap Fixed = {} /\ "val" \notin Ended \cup {"ep", "read"}
    BY DEF Ended
  <2>3. graphs'[g].contribs = graphs[g].contribs
    BY <1>1, <2>1
  <2>4. w'[g].pc = "status" \/ w'[g].pc \in Before
    BY <2>1 DEF Moves, Before
  <2> QED
    BY <1>0, <2>1, <2>2, <2>3, <2>4, ResidualMoves
<1>3. CASE WriteAheadManaged(g)
  <2>1. /\ w[g].pc \in Before /\ w[g].pc \notin Walking /\ Writes(g, {"managed"})
        /\ Moves(g, Ended \cup {"intent", "managed"}, {"status", "intent2"})
    BY <1>0, <1>3, WriteAheadManagedFacts DEF Before, Walking
  <2>2. (Ended \cup {"intent", "managed"}) \cap Fixed = {} /\ "val" \notin Ended \cup {"intent", "managed"}
    BY DEF Ended
  <2>3. graphs'[g].contribs = graphs[g].contribs
    BY <1>1, <2>1
  <2>4. w'[g].pc = "status" \/ w'[g].pc \in Before
    BY <2>1 DEF Moves, Before
  <2> QED
    BY <1>0, <2>1, <2>2, <2>3, <2>4, ResidualMoves
<1>4. CASE EnterNode(g)
  <2> DEFINE F == {"pc", "i", "unres", "soft", "items", "decl"}
  <2>1. w[g].pc = "walk" /\ Writes(g, {}) /\ Moves(g, F, {"walk", "get"})
    BY <1>0, <1>4, EnterNodeFacts
  <2>2. F \cap Fixed = {} /\ w'[g].pc \in {"walk", "get"}
    BY <2>1 DEF Moves
  <2>3. graphs'[g].contribs = graphs[g].contribs
    BY <1>1, <2>1
  <2> HIDE DEF F
  <2> QED
    BY <1>0, <2>1, <2>2, <2>3, ResidualMoves
<1>5. CASE DeleteEntry(g) \/ DeleteChecked(g)
  <2>1. /\ w[g].pc \in {"prune", "pruning", "delete", "deleting"} /\ Writes(g, {})
        /\ Moves(g, DeleteFields, Phase(w[g].pc))
    BY <1>0, <1>5, DeleteEntryFacts, DeleteCheckedFacts
  <2>2. DeleteFields \cap Fixed = {}
    BY DEF DeleteFields
  <2>3. graphs'[g].contribs = graphs[g].contribs
    BY <1>1, <2>1
  <2>4. \/ w[g].pc \in {"prune", "pruning"} /\ w'[g].pc \in {"prune", "pruning"}
        \/ w[g].pc \in {"delete", "deleting"} /\ w'[g].pc \in {"delete", "deleting", "unlink"}
    BY <2>1 DEF Moves, Phase
  <2> QED
    BY <1>0, <2>1, <2>2, <2>3, <2>4, ResidualMoves
<1>6. CASE EndDelete(g)
  <2>1. w[g].pc = "delete" /\ Writes(g, {}) /\ Moves(g, Ended, {"status", "unlink"})
    BY <1>0, <1>6, EndDeleteFacts
  <2>2. Ended \cap Fixed = {} /\ w'[g].pc \in {"status", "unlink"} /\ w[g].pc \notin Walking
    BY <2>1 DEF Moves, Ended, Walking
  <2>3. graphs'[g].contribs = graphs[g].contribs
    BY <1>1, <2>1
  <2> QED
    BY <1>0, <2>1, <2>2, <2>3, ResidualMoves
<1> QED
  BY <1>2, <1>3, <1>4, <1>5, <1>6

\* A run that is over: outside the walk, what is stored accounts for everything.
LEMMA StopsResidual ==
    ASSUME NEW g \in Graphs, Afoot(g), Inherits(g), w'[g] = Idle,
           graphs'[g].contribs = graphs[g].contribs, w[g].pc \notin Walking \/ ~Undisturbed'
    PROVE  Residual(g)'
<1> DEFINE r == w[g]
           st == graphs[g].contribs
<1>0. Residual(g) /\ case' = case /\ (Undisturbed' => Undisturbed)
  BY DEF Afoot
<1>1. Idle.pc = "idle"
  BY DEF Idle
<1>2. r.pc \notin Walking \/ ~Undisturbed'
  OBVIOUS
<1> HIDE DEF r, st
<1>3. Mirrors(g, case.specs[g][Idle.ver].nodes, Idle, st)
  BY <1>1 DEF Mirrors, Before, Walking, After
<1>4. ASSUME NEW c, NEW late \in BOOLEAN, Covers(r, st, c, late, Undisturbed)
      PROVE  Covers(Idle, st, c, late, Undisturbed')
  BY <1>0, <1>1, <1>2, <1>4 DEF Covers, Walking
<1> QED
  BY <1>0, <1>3, <1>4, ResidualNext DEF r, st

LEMMA BeginResidual ==
    ASSUME NEW g \in Graphs, Afoot(g), Inherits(g), Begin(g) PROVE Residual(g)'
<1> DEFINE r == w[g]
           s == w'[g]
           st == graphs[g].contribs
           nodes == case.specs[g][s.ver].nodes
<1>0. Shapes /\ Residual(g) /\ case' = case /\ (Undisturbed' => Undisturbed)
  BY DEF Afoot, Ground, Ordered, Tracked, Attention
<1>1. UNCHANGED graphs /\ r = Idle
  BY <1>0, BeginOpens
<1>2. CASE UNCHANGED w
  BY <1>0, <1>1, <1>2, StopsResidual DEF Idle, Walking
<1>3. CASE s.pc \in {"delete", "manage", "compile", "status"} /\ NewRun(g, s)
           /\ (s.pc = "delete" => s.rel = st)
  <2>1. s.prior = st /\ s.contribs = st /\ s.val = NoValues(nodes) /\ st = graphs'[g].contribs
    BY <1>1, <1>3 DEF NewRun, specOf
  <2>2. r.pc = "idle"
    BY <1>1 DEF Idle
  <2>3. s.pc \in {"delete", "manage", "compile", "status"} /\ (s.pc = "delete" => s.rel = st)
    BY <1>3
  <2> HIDE DEF r, s, st, nodes
  <2>4. Mirrors(g, nodes, s, st)
    BY <2>1, <2>3 DEF Mirrors, Before, Walking, After
  <2>5. ASSUME NEW c, NEW late \in BOOLEAN, Covers(r, st, c, late, Undisturbed)
        PROVE  Covers(s, st, c, late, Undisturbed')
    BY <1>0, <2>1, <2>2, <2>3, <2>5 DEF Covers, Walking
  <2> QED
    BY <1>0, <2>1, <2>4, <2>5, ResidualNext DEF r, s, st, nodes
<1> QED
  BY <1>0, <1>2, <1>3, BeginOpens

LEMMA SetManagedResidual ==
    ASSUME NEW g \in Graphs, Afoot(g), Inherits(g), setManaged(g) PROVE Residual(g)'
<1>0. Shapes /\ Living(g) /\ Residual(g) /\ case' = case /\ (Undisturbed' => Undisturbed)
  BY DEF Afoot, Ground, Ordered, Tracked, Attention, Lifecycle
<1>1. /\ w[g].pc = "manage" /\ graphs'[g].contribs = graphs[g].contribs
      /\ Stops(g) \/ Moves(g, Ended, {"status", "compile"})
  BY <1>0, SetManagedFacts, SetManagedLiving
<1>2. w[g].pc \in Before /\ w[g].pc \notin Walking
  BY <1>1 DEF Before, Walking
<1>3. CASE Stops(g)
  BY <1>1, <1>2, <1>3, StopsResidual DEF Stops
<1>4. CASE Moves(g, Ended, {"status", "compile"})
  <2>1. w'[g].pc = "status" \/ w'[g].pc \in Before
    BY <1>4 DEF Moves, Before
  <2>2. Ended \cap {"ver", "prior", "contr", "contribs", "rel", "hard", "res"} = {} /\ "val" \notin Ended
    BY DEF Ended
  <2> QED
    BY <1>0, <1>1, <1>2, <1>4, <2>1, <2>2, ResidualMoves
<1> QED
  BY <1>1, <1>3, <1>4

LEMMA WriteAheadContributionsResidual ==
    ASSUME NEW g \in Graphs, Afoot(g), Inherits(g), WriteAheadContributions(g) PROVE Residual(g)'
<1> DEFINE r == w[g]
           q == w'[g]
           st == graphs[g].contribs
           t == graphs'[g].contribs
           nodes == Nodes(g)
           ledger == r.prior \union intendedContributions(g, nodes, r.val)
           new == [graphs[g] EXCEPT !.contribs = ledger]
           x == [r EXCEPT !.pc = "walk", !.contribs = ledger]
           y == [r EXCEPT !.pc = "walk"]
           z == [r EXCEPT !.pc = "status", !.cond = "failed", !.err = TRUE]
<1>0. Shapes /\ Residual(g) /\ case' = case /\ (Undisturbed' => Undisturbed)
  BY DEF Afoot, Ground, Ordered, Tracked, Attention
<1>1. /\ r.pc = "intent2"
      /\ \/ ledger = r.prior /\ Go(g, y) /\ UNCHANGED graphs
         \/ Go(g, x) /\ graphs' = [graphs EXCEPT ![g] = new]
         \/ Go(g, z) /\ (UNCHANGED graphs \/ graphs' = [graphs EXCEPT ![g] = new])
  BY DEF WriteAheadContributions, persistContributions, WriteGraph, Return, Step, Replies
<1>2. DOMAIN r = RunFields /\ DOMAIN w = Graphs /\ DOMAIN graphs = Graphs /\ DOMAIN graphs[g] = GraphFields
  BY <1>0, <1>1, RunsFacts DEF Shapes
<1>3. Mirrors(g, nodes, r, st)
  BY <1>0 DEF Residual
<1>4. st = r.prior /\ st = r.contribs /\ ledger = st \cup intendedContributions(g, nodes, NoValues(nodes))
  BY <1>1, <1>3 DEF Mirrors, Before
<1>5. Nodes(g) = case.specs[g][r.ver].nodes
  BY DEF Nodes, specOf
<1> HIDE DEF ledger
<1>6. /\ x.pc = "walk" /\ x.contribs = ledger /\ x.prior = r.prior /\ x.ver = r.ver
      /\ y.pc = "walk" /\ y.contribs = r.contribs /\ y.prior = r.prior /\ y.ver = r.ver
      /\ z.pc = "status" /\ z.ver = r.ver
  BY <1>2 DEF RunFields
<1>7. new.contribs = ledger
  BY <1>2 DEF GraphFields
<1> HIDE DEF x, y, z, new
<1>8. /\ \/ ledger = r.prior /\ q = y /\ t = st
         \/ q = x /\ t = ledger
         \/ q = z /\ (t = st \/ t = ledger)
  BY <1>1, <1>2, <1>7 DEF Go
<1>9. /\ q.ver = r.ver /\ (t = st \/ t = ledger)
      /\ \/ q.pc = "walk" /\ q.contribs = ledger /\ q.prior = st /\ t = ledger
         \/ q.pc = "status"
  BY <1>4, <1>6, <1>8
<1>10. nodes = case.specs[g][q.ver].nodes
  BY <1>5, <1>9
<1> HIDE DEF r, q, st, t, nodes
<1>11. Mirrors(g, nodes, q, t)
  BY <1>4, <1>9 DEF Mirrors, Before, Walking, After
<1>12. ASSUME NEW c, NEW late \in BOOLEAN, Covers(r, st, c, late, Undisturbed)
       PROVE  Covers(q, t, c, late, Undisturbed')
  BY <1>0, <1>1, <1>4, <1>9, <1>12 DEF Covers, Walking
<1> QED
  BY <1>0, <1>10, <1>11, <1>12, ResidualNext DEF r, q, st, t

LEMMA GetLiveResidual ==
    ASSUME NEW g \in Graphs, Afoot(g), Inherits(g), GetLive(g) PROVE Residual(g)'
<1> DEFINE r == w[g]
           q == w'[g]
           st == graphs[g].contribs
           t == graphs'[g].contribs
           nodes == case.specs[g][q.ver].nodes
           F == ItemFields \cup {"claims", "decl"}
<1>0. Shapes /\ Residual(g) /\ case' = case /\ (Undisturbed' => Undisturbed) /\ DOMAIN w = Graphs
  BY DEF Afoot, Ground, Ordered, Tracked, Attention, Shapes
<1>1. /\ r.pc = "get" /\ Moves(g, F, {"apply", "get", "walk"}) /\ UNCHANGED graphs
  BY <1>0, GetLiveFacts DEF GetLive
<1>2. /\ q.ver = r.ver /\ q.prior = r.prior /\ q.contr = r.contr /\ q.contribs = r.contribs
      /\ q.pc \in {"apply", "get", "walk"} /\ DOMAIN r = RunFields
  BY <1>1 DEF Moves, Edited, RunFields, ItemFields
<1>3. Mirrors(g, nodes, r, st) /\ t = st
  BY <1>0, <1>1, <1>2 DEF Residual, Nodes, specOf
<1>4. Doomed(r) => Doomed(q)
  <2>1. PICK o : \E c, d, v, m :
             \/ Go(g, [[r EXCEPT !.claims = c, !.decl = d] EXCEPT !.pc = "apply", !.at = o, !.cur = objs[o]])
             \/ Go(g, ItemDone([r EXCEPT !.claims = c, !.decl = d], NodeAt(g), o, v, m))
    BY GetLiveGoes
  <2>2. PICK c, d, v, m :
             \/ Go(g, [[r EXCEPT !.claims = c, !.decl = d] EXCEPT !.pc = "apply", !.at = o, !.cur = objs[o]])
             \/ Go(g, ItemDone([r EXCEPT !.claims = c, !.decl = d], NodeAt(g), o, v, m))
    BY <2>1
  <2> DEFINE x == [r EXCEPT !.claims = c, !.decl = d]
             y == [x EXCEPT !.pc = "apply", !.at = o, !.cur = objs[o]]
  <2>3. DOMAIN x = RunFields /\ x.hard = r.hard /\ x.res = r.res
    BY <1>2 DEF RunFields
  <2> HIDE DEF x
  <2>4. y.hard = r.hard /\ y.res = r.res /\ y.pc = "apply"
    BY <2>3 DEF RunFields
  <2> HIDE DEF y
  <2>5. q = y \/ q = ItemDone(x, NodeAt(g), o, v, m)
    BY <1>0, <2>2 DEF Go, x, y
  <2>6. CASE q = y
    BY <1>1, <2>4, <2>6 DEF Doomed
  <2>7. CASE q = ItemDone(x, NodeAt(g), o, v, m)
    <3>1. x.hard \/ "hard" \in x.res => Doomed(q)
      BY <2>3, <2>7, ItemDoneVerdicts
    <3> QED
      BY <2>3, <3>1 DEF Doomed
  <2> QED
    BY <2>5, <2>6, <2>7
<1> HIDE DEF r, q, st, t, nodes
<1>5. Mirrors(g, nodes, q, t)
  BY <1>1, <1>2, <1>3 DEF Mirrors, Before, Walking, After
<1>6. ASSUME NEW c, NEW late \in BOOLEAN, Covers(r, st, c, late, Undisturbed)
      PROVE  Covers(q, t, c, late, Undisturbed')
  BY <1>0, <1>1, <1>2, <1>3, <1>4, <1>6 DEF Covers, Walking
<1> QED
  BY <1>0, <1>5, <1>6, ResidualNext DEF r, q, st, t, nodes

\* An apply keeps what the run has recorded and how it has failed, and records or
\* fails with what it writes for a patch.
LEMMA ApplyLedgers ==
    ASSUME Ground, NEW g \in Graphs, NEW force \in BOOLEAN, ApplyObject(g, force), case' = case,
           NEW r, r = w[g], NEW s, s = w'[g], NEW n, n = NodeAt(g), NEW o, o = w[g].at
    PROVE  /\ s.ver = r.ver /\ s.prior = r.prior /\ s.contribs = r.contribs /\ r.contr \subseteq s.contr
           /\ r.pc \in {"apply", "force"} /\ s.pc \in {"force", "get", "walk"} /\ UNCHANGED graphs
           /\ Doomed(r) => Doomed(s)
           /\ n.kind = "patch" => \/ objs' = objs \/ Contribution(g, n, o) \in s.contr
                                  \/ ~Undisturbed' /\ Doomed(s)
<1>0. Shapes
  BY DEF Ground, Ordered, Tracked, Attention
<1>1. /\ r.pc \in {"apply", "force"} /\ UNCHANGED graphs /\ DOMAIN r = RunFields
      /\ Moves(g, ItemFields \cup {"applied", "contr"}, {"force", "get", "walk"})
  BY <1>0, ApplyObjectFacts, ApplyEffect
<1>2. s.ver = r.ver /\ s.prior = r.prior /\ s.contribs = r.contribs /\ s.pc \in {"force", "get", "walk"}
  BY <1>1 DEF Moves, Edited, RunFields, ItemFields
<1> DEFINE C(p) == r.contr \subseteq p.contr /\ (Doomed(r) => Doomed(p))
<1>3. ASSUME NEW v, NEW st, s = ItemDone(r, n, o, v, st)
      PROVE  C(s) /\ (v = "hard" => Doomed(s))
  <2>1. s.contr = r.contr
    BY <1>1, <1>3, ItemDoneEdits DEF Edited, RunFields, ItemFields
  <2>2. r.hard \/ "hard" \in r.res \/ v = "hard" => Doomed(s)
    BY <1>1, <1>3, ItemDoneVerdicts
  <2> QED
    BY <2>1, <2>2 DEF Doomed
<1>4. ASSUME NEW u, NEW v, NEW st, s = ItemDone(Landed(g, r, n, o, u), n, o, v, st)
      PROVE  C(s) /\ (n.kind = "patch" => Contribution(g, n, o) \in s.contr)
  <2> DEFINE x == Landed(g, r, n, o, u)
  <2>1. DOMAIN x = RunFields /\ x.hard = r.hard /\ x.res = r.res
    BY <1>1, LandedEdits DEF Edited, RunFields
  <2>2. r.contr \subseteq x.contr /\ (n.kind = "patch" => Contribution(g, n, o) \in x.contr)
    <3>1. Records(g, n, o, u, r, x)
      BY <1>1, LandedRecords
    <3> HIDE DEF x
    <3> QED
      BY <3>1 DEF Records
  <2> HIDE DEF x
  <2>3. s = ItemDone(x, n, o, v, st)
    BY <1>4 DEF x
  <2>4. s.contr = x.contr
    BY <2>1, <2>3, ItemDoneEdits DEF Edited, RunFields, ItemFields
  <2>5. x.hard \/ "hard" \in x.res => Doomed(s)
    BY <2>1, <2>3, ItemDoneVerdicts
  <2> QED
    BY <2>1, <2>2, <2>4, <2>5 DEF Doomed
<1>5. ASSUME s = [r EXCEPT !.pc = "force"] PROVE C(s)
  <2>1. s.contr = r.contr /\ s.hard = r.hard /\ s.res = r.res /\ s.pc = "force"
    BY <1>1, <1>5 DEF RunFields
  <2> QED
    BY <1>1, <2>1 DEF Doomed
<1>6. n.kind = "patch" => ~Collects(n)
  BY DEF Collects
<1> HIDE DEF C
<1>7. C(s) /\ (n.kind = "patch" => \/ objs' = objs \/ Contribution(g, n, o) \in s.contr
                                   \/ ~Undisturbed' /\ Doomed(s))
  <2>1. CASE UNCHANGED <<objs, uids, wrote>>
    <3>1. \/ s = [r EXCEPT !.pc = "force"]
          \/ \E v, st : s = ItemDone(r, n, o, v, st)
          \/ \E u, v, st : s = ItemDone(Landed(g, r, n, o, u), n, o, v, st)
          \/ Served(o)
      BY ApplyEffect
    <3> QED
      BY <1>3, <1>4, <1>5, <1>6, <2>1, <3>1, ApplyEffect
  <2>2. CASE /\ Served(o) /\ Exists(objs'[o])
             /\ \/ \E st : s = ItemDone(Landed(g, r, n, o, objs'[o].uid), n, o, "done", st)
                \/ ~Undisturbed' /\ ~Collects(n) /\ \E st : s = ItemDone(r, n, o, "hard", st)
                \/ ~Undisturbed' /\ Collects(n) /\ \E v, st : v # "done" /\ s = ItemDone(r, n, o, v, st)
                \/ /\ ~Undisturbed' /\ Collects(n) /\ Exists(r.cur)
                   /\ \E v, st : s = ItemDone(Landed(g, r, n, o, r.cur.uid), n, o, v, st)
    BY <1>3, <1>4, <1>6, <2>2
  <2> QED
    BY <2>1, <2>2, ApplyEffect
<1> QED
  BY <1>1, <1>2, <1>7 DEF C

\* A node is announced, or it is late.
LEMMA LateOrAnnounced ==
    ASSUME NEW g, NEW v \in DOMAIN case.specs[g], NEW nodes, nodes = specOf(g, v).nodes,
           NEW i \in DOMAIN nodes
    PROVE  nodes[i] \in Announced(nodes) \/ nodes[i] \in Late(g)
<1> DEFINE L(u) == {specOf(g, u).nodes[j] : j \in DOMAIN specOf(g, u).nodes} \ Announced(specOf(g, u).nodes)
<1>1. Late(g) = UNION {L(u) : u \in DOMAIN case.specs[g]}
  BY DEF Late
<1>2. nodes[i] \notin Announced(nodes) => nodes[i] \in L(v)
  OBVIOUS
<1> HIDE DEF L
<1>3. L(v) \in {L(u) : u \in DOMAIN case.specs[g]}
  OBVIOUS
<1> QED
  BY <1>1, <1>2, <1>3

\* What the write-ahead announces of a patch.
LEMMA AnnouncedContribution ==
    ASSUME NEW g, NEW nodes, NEW n \in Announced(nodes), n.kind = "patch", NEW o \in n.items
    PROVE  Contribution(g, n, o) \in intendedContributions(g, nodes, NoValues(nodes))
<1> DEFINE N == {x \in projected(nodes, NoValues(nodes)) : x.kind = "patch" /\ ~x.dyn}
           C(x) == {Contribution(g, x, p) : p \in x.items}
<1>1. intendedContributions(g, nodes, NoValues(nodes)) = UNION {C(x) : x \in N}
  BY DEF intendedContributions
<1>2. n \in N /\ Contribution(g, n, o) \in C(n)
  BY DEF Announced
<1> HIDE DEF N, C
<1>3. C(n) \in {C(x) : x \in N}
  BY <1>2
<1> QED
  BY <1>1, <1>2, <1>3

LEMMA ApplyObjectResidual ==
    ASSUME NEW g \in Graphs, Afoot(g), NEW force \in BOOLEAN, ApplyObject(g, force)
    PROVE  Residual(g)'
<1> DEFINE r == w[g]
           q == w'[g]
           st == graphs[g].contribs
           nodes == Nodes(g)
           n == NodeAt(g)
           a == w[g].at
<1>0. /\ Ground /\ Ordered /\ Shapes /\ Stock /\ Versions /\ Accounts /\ Residual(g) /\ case' = case
      /\ (Undisturbed' => Undisturbed)
  BY DEF Afoot, Ground, Ordered, Tracked, Attention
<1>1. /\ q.ver = r.ver /\ q.prior = r.prior /\ q.contribs = r.contribs /\ r.contr \subseteq q.contr
      /\ r.pc \in {"apply", "force"} /\ q.pc \in {"force", "get", "walk"} /\ UNCHANGED graphs
      /\ Doomed(r) => Doomed(q)
      /\ n.kind = "patch" => \/ objs' = objs \/ Contribution(g, n, a) \in q.contr
                             \/ ~Undisturbed' /\ Doomed(q)
  BY <1>0, ApplyLedgers
<1>2. /\ a \in Objects /\ w[g].i \in DOMAIN nodes /\ a \in n.items /\ n = nodes[w[g].i]
      /\ g \in DOMAIN case.specs /\ w[g].ver \in DOMAIN case.specs[g]
      /\ nodes = case.specs[g][w[g].ver].nodes
  BY <1>0, <1>1, AppliesObjects, AtWork DEF NodeAt
<1>3. /\ Turned(Writer(g)) /\ \A p \in Objects \ {a} : objs'[p] = objs[p]
  BY <1>0, <1>2, ApplyTurns
<1>4. Mirrors(g, nodes, r, st) /\ Nodes(g)' = nodes
  BY <1>0, <1>1 DEF Residual, Nodes, specOf
<1>5. Mirrors(g, nodes, q, st)
  <2> HIDE DEF r, q, st, nodes
  <2> QED
    BY <1>1, <1>4 DEF Mirrors, Before, Walking, After
<1>6. n.kind = "patch" => Contribution(g, n, a) \in st \/ n \in Late(g)
  <2>1. n \in Announced(nodes) \/ n \in Late(g)
    BY <1>2, LateOrAnnounced DEF specOf
  <2>2. n.kind = "patch" /\ n \in Announced(nodes)
          => Contribution(g, n, a) \in intendedContributions(g, nodes, NoValues(nodes))
    BY <1>2, AnnouncedContribution
  <2>3. intendedContributions(g, nodes, NoValues(nodes)) \subseteq st
    BY <1>1, <1>4 DEF Mirrors, Walking
  <2> QED
    BY <2>1, <2>2, <2>3
<1>7. Accounted(g)'
  <2> SUFFICES ASSUME NEW p \in Objects, NEW m, Patches(g, p, m)'
               PROVE  Covers(q, st, [obj |-> p, manager |-> m], LateManager(g, m)', Undisturbed')
    BY <1>1 DEF Accounted
  <2>1. LateManager(g, m)' = LateManager(g, m) /\ LateManager(g, m) \in BOOLEAN
    BY <1>0 DEF LateManager, Late, Announced, specOf
  <2> DEFINE late == LateManager(g, m)
             c == [obj |-> p, manager |-> m]
  <2>2. CASE Patches(g, p, m)
    <3>1. Covers(r, st, c, late, Undisturbed)
      BY <1>0, <2>2 DEF Residual, Accounted
    <3> HIDE DEF r, q, st, late, c
    <3>2. Covers(q, st, c, late, Undisturbed')
      BY <1>0, <1>1, <3>1 DEF Covers, Walking
    <3> QED
      BY <2>1, <3>2 DEF late, c
  <2>3. CASE ~Patches(g, p, m)
    <3>1. m = Writer(g) /\ m.kind = "patch" /\ objs'[p] # objs[p]
      <4>1. Turn(objs[p], objs'[p], uids[p], uids'[p], Writer(g))
        BY <1>3 DEF Turned
      <4> QED
        BY <2>3, <4>1 DEF Turn, Patches
    <3>2. templateFieldManager(g).kind # "patch"
      BY DEF templateFieldManager
    <3>3. n.kind = "patch" /\ m = patchFieldManager(g, n.id) /\ p = a /\ m.node = n.id /\ objs' # objs
      BY <1>3, <3>1, <3>2 DEF Writer, patchFieldManager
    <3>4. c = Contribution(g, n, a)
      BY <3>3 DEF Contribution
    <3>5. c \in st \/ late
      BY <1>6, <3>3, <3>4 DEF LateManager
    <3>6. c \in q.contr \/ (~Undisturbed' /\ Doomed(q))
      BY <1>1, <3>3, <3>4
    <3> HIDE DEF q, st, late, c
    <3>7. Covers(q, st, c, late, Undisturbed')
      BY <1>1, <2>1, <3>5, <3>6 DEF Covers, Walking
    <3> QED
      BY <2>1, <3>7 DEF late, c
  <2> QED
    BY <2>2, <2>3
<1> QED
  BY <1>1, <1>4, <1>5, <1>7 DEF Residual

\* The end of a walk: what was contributed is in the ledger before the prune, or the
\* run has failed.
Ends(g, r, s, st, t) ==
    LET retained == r.contribs \cup r.contr
        diff == diffManagedResources(r.prev, r.applied, r.unres)
    IN  /\ s.newSet = diff.newSet /\ s.todo = diff.prune
        /\ \/ /\ s.pc = "prune" /\ ~r.hard /\ s.contribs = retained /\ s.err = r.err
              /\ t = retained \/ (retained = r.contribs /\ t = st)
           \/ /\ s.pc = "status" /\ s.managed = unionManagedResources(r.intent, r.applied)
              /\ \/ t = retained \/ (retained = r.contribs /\ t = st)
                 \/ ~Undisturbed' /\ t = st

LEMMA FinishEnds ==
    ASSUME NEW g \in Graphs, Shapes, Budgeted, case' = case, Finish(g)
    PROVE  Ends(g, w[g], w'[g], graphs[g].contribs, graphs'[g].contribs)
<1> DEFINE v == w[g]
           newSet == diffManagedResources(v.prev, v.applied, v.unres).newSet
           prune == diffManagedResources(v.prev, v.applied, v.unres).prune
           retained == v.contribs \union v.contr
           cond == IF hardErr(g) THEN "failed" ELSE IF v.soft = None THEN "ok" ELSE v.soft
           record == ~hardErr(g) \/ (v.sa = None /\ (DOMAIN v.applied # {} \/ v.contr # {}))
           sa == IF record THEN v.user ELSE v.sa
           super == superset(g)
           r == [v EXCEPT !.cond = cond, !.sa = sa, !.newSet = newSet, !.todo = prune]
           x == [r EXCEPT !.managed = super, !.contribs = retained, !.pc = "status", !.cond = cond, !.err = TRUE]
           y == [r EXCEPT !.managed = super, !.pc = "status", !.cond = "failed", !.err = TRUE]
           z == [r EXCEPT !.pc = "prune", !.contribs = retained]
           new == [graphs[g] EXCEPT !.contribs = retained]
<1>1. /\ v.pc = "walk"
      /\ \/ /\ (hardErr(g) /\ Go(g, x)) \/ (~hardErr(g) /\ Go(g, z))
            /\ (retained = v.contribs /\ UNCHANGED graphs) \/ graphs' = [graphs EXCEPT ![g] = new]
         \/ /\ Go(g, y) /\ \E reply \in Replies : Spend(reply) /\ reply # "ok"
            /\ UNCHANGED graphs \/ graphs' = [graphs EXCEPT ![g] = new]
  BY DEF Finish, persistContributions, WriteGraph, Return
<1>2. (\E reply \in Replies : Spend(reply) /\ reply # "ok") => ~Undisturbed'
  BY Spends
<1>3. DOMAIN v = RunFields /\ DOMAIN w = Graphs /\ DOMAIN graphs = Graphs /\ DOMAIN graphs[g] = GraphFields
  BY <1>1, RunsFacts DEF Shapes
<1>4. super = unionManagedResources(v.intent, v.applied)
  BY DEF superset
<1> HIDE DEF newSet, prune, retained, cond, sa, super
<1>5. /\ x.managed = super /\ x.newSet = newSet /\ x.todo = prune /\ x.contribs = retained /\ x.pc = "status"
      /\ y.managed = super /\ y.newSet = newSet /\ y.todo = prune /\ y.pc = "status"
      /\ z.newSet = newSet /\ z.todo = prune /\ z.contribs = retained /\ z.pc = "prune" /\ z.err = v.err
  BY <1>3 DEF RunFields
<1>6. new.contribs = retained
  BY <1>3 DEF GraphFields
<1> HIDE DEF x, y, z, new
<1>7. /\ graphs' = [graphs EXCEPT ![g] = new] => graphs'[g].contribs = retained
      /\ UNCHANGED graphs => graphs'[g].contribs = graphs[g].contribs
      /\ \A p : Go(g, p) => w'[g] = p
  BY <1>3, <1>6 DEF Go
<1>8. ~hardErr(g) => ~v.hard
  BY DEF hardErr
<1>9. \/ w'[g] = z /\ ~v.hard /\ (graphs'[g].contribs = retained
                                  \/ (retained = v.contribs /\ graphs'[g].contribs = graphs[g].contribs))
      \/ w'[g] = x /\ (graphs'[g].contribs = retained
                                  \/ (retained = v.contribs /\ graphs'[g].contribs = graphs[g].contribs))
      \/ w'[g] = y /\ ~Undisturbed' /\ (graphs'[g].contribs = retained \/ graphs'[g].contribs = graphs[g].contribs)
  BY <1>1, <1>2, <1>7, <1>8
<1> QED
  BY <1>4, <1>5, <1>9 DEF Ends, newSet, prune, retained

LEMMA FinishResidual ==
    ASSUME NEW g \in Graphs, Afoot(g), Inherits(g), Finish(g) PROVE Residual(g)'
<1> DEFINE r == w[g]
           q == w'[g]
           st == graphs[g].contribs
           t == graphs'[g].contribs
           nodes == case.specs[g][q.ver].nodes
<1>0. Shapes /\ Budgeted /\ Residual(g) /\ case' = case /\ (Undisturbed' => Undisturbed)
  BY DEF Afoot, Ground, Ordered, Tracked, Attention
<1>1. r.pc = "walk" /\ Moves(g, FinishFields, {"status", "prune"})
  BY <1>0, FinishFacts
<1>2. q.ver = r.ver /\ q.prior = r.prior /\ q.contr = r.contr /\ q.pc \in {"status", "prune"}
  BY <1>1 DEF Moves, Edited, RunFields, FinishFields, Ended
<1>3. Mirrors(g, nodes, r, st)
  BY <1>0, <1>2 DEF Residual, Nodes, specOf
<1>4. Ends(g, r, q, st, t)
  BY <1>0, FinishEnds
<1>5. st = r.contribs
  BY <1>1, <1>3 DEF Mirrors, Walking
<1> HIDE DEF r, q, st, t, nodes
<1>6. /\ q.pc = "prune" => q.contribs = t /\ ~r.hard
      /\ t = st \cup r.contr \/ (q.pc = "status" /\ ~Undisturbed' /\ t = st)
  BY <1>4, <1>5 DEF Ends
<1>7. Mirrors(g, nodes, q, t)
  BY <1>2, <1>6 DEF Mirrors, Before, Walking, After
<1>8. ASSUME NEW c, NEW late \in BOOLEAN, Covers(r, st, c, late, Undisturbed)
      PROVE  Covers(q, t, c, late, Undisturbed')
  BY <1>0, <1>1, <1>2, <1>6, <1>8 DEF Covers, Walking, Doomed
<1> QED
  BY <1>0, <1>7, <1>8, ResidualNext DEF r, q, st, t, nodes

\* The end of a prune: what the status will record, and what is to be released.
Prunes(r, s, intended) ==
    \/ s.pc = "status" /\ r.err /\ s.managed = unionManagedResources(r.intent, r.applied)
    \/ s.pc = "status" /\ ~r.err /\ r.soft # None /\ s.managed = unionManagedResources(r.newSet, intended)
    \/ /\ s.pc = "release" /\ ~r.err /\ r.soft = None /\ s.managed = r.newSet
       /\ s.rel = r.prior \ r.contr

LEMMA EndPrunePrunes ==
    ASSUME Shapes, NEW g \in Graphs, EndPrune(g)
    PROVE  Prunes(w[g], w'[g], intendedManagedResources(Nodes(g), w[g].val))
<1> DEFINE r == w[g]
           intended == intendedManagedResources(Nodes(g), w[g].val)
           super == superset(g)
           some == unionManagedResources(r.newSet, intended)
           rest == r.prior \ r.contr
           x == [r EXCEPT !.managed = super, !.pc = "status", !.cond = "prune", !.err = TRUE]
           y == [r EXCEPT !.managed = some, !.pc = "status", !.cond = r.cond, !.err = TRUE]
           z == [r EXCEPT !.pc = "release", !.managed = r.newSet, !.rel = rest]
<1>1. /\ r.pc = "prune"
      /\ \/ r.err /\ Go(g, x)
         \/ ~r.err /\ r.soft # None /\ Go(g, y)
         \/ ~r.err /\ r.soft = None /\ Go(g, z)
  BY DEF EndPrune, Return
<1>2. DOMAIN r = RunFields /\ DOMAIN w = Graphs
  BY <1>1, RunsFacts DEF Shapes
<1>3. super = unionManagedResources(r.intent, r.applied)
  BY DEF superset
<1> HIDE DEF super, some, rest
<1>4. /\ x.pc = "status" /\ x.managed = super /\ y.pc = "status" /\ y.managed = some
      /\ z.pc = "release" /\ z.managed = r.newSet /\ z.rel = rest
  BY <1>2 DEF RunFields
<1> HIDE DEF x, y, z
<1>5. \A p : Go(g, p) => w'[g] = p
  BY <1>2 DEF Go
<1> QED
  BY <1>1, <1>3, <1>4, <1>5 DEF Prunes, some, rest

LEMMA EndPruneResidual ==
    ASSUME NEW g \in Graphs, Afoot(g), Inherits(g), EndPrune(g) PROVE Residual(g)'
<1> DEFINE r == w[g]
           q == w'[g]
           st == graphs[g].contribs
           nodes == case.specs[g][q.ver].nodes
           intended == intendedManagedResources(Nodes(g), w[g].val)
           F == Ended \cup {"managed", "rel"}
<1>0. Shapes /\ Residual(g) /\ case' = case /\ (Undisturbed' => Undisturbed)
  BY DEF Afoot, Ground, Ordered, Tracked, Attention
<1>1. r.pc = "prune" /\ Moves(g, F, {"status", "release"}) /\ UNCHANGED graphs
  BY <1>0, EndPruneFacts DEF EndPrune
<1>2. /\ q.ver = r.ver /\ q.prior = r.prior /\ q.contr = r.contr /\ q.contribs = r.contribs
      /\ q.pc \in {"status", "release"}
  BY <1>1 DEF Moves, Edited, RunFields, Ended
<1>3. Mirrors(g, nodes, r, st) /\ st = graphs'[g].contribs
  BY <1>0, <1>1, <1>2 DEF Residual, Nodes, specOf
<1>4. q.pc = "release" => q.rel = r.prior \ r.contr
  <2>1. Prunes(r, q, intended)
    BY <1>0, EndPrunePrunes
  <2> HIDE DEF r, q, intended
  <2> QED
    BY <2>1 DEF Prunes
<1> HIDE DEF r, q, st, nodes
<1>5. Mirrors(g, nodes, q, st)
  BY <1>1, <1>2, <1>3 DEF Mirrors, Before, Walking, After
<1>6. ASSUME NEW c, NEW late \in BOOLEAN, Covers(r, st, c, late, Undisturbed)
      PROVE  Covers(q, st, c, late, Undisturbed')
  BY <1>0, <1>1, <1>2, <1>4, <1>6 DEF Covers, Walking
<1> QED
  BY <1>0, <1>3, <1>5, <1>6, ResidualNext DEF r, q, st, nodes

\* What a release does not go on with has no field left, or the run has failed.
Frees(g, r, s) ==
    \/ s.pc = "status"
    \/ s.rel = r.rel
    \/ \E c : /\ s.rel = r.rel \ {c}
              /\ \A o \in Objects : \A m : c = [obj |-> o, manager |-> m] => ~Patches(g, o, m)'

LEMMA ReleaseGetFrees ==
    ASSUME NEW g \in Graphs, Afoot(g), ReleaseGet(g) PROVE Frees(g, w[g], w'[g])
<1>0. Shapes /\ Unserved /\ w[g].pc # "idle" /\ DOMAIN w = Graphs
  BY DEF Afoot, Ground, Ordered, Tracked, Attention, ReleaseGet, Shapes
<1>1. DOMAIN w[g] = RunFields
  BY <1>0, RunsFacts
<1>2. UNCHANGED objs
  BY DEF ReleaseGet
<1>3. PICK c \in w[g].rel :
        \/ ReleaseFailed(g)
        \/ (~Served(c.obj) \/ ~Exists(objs[c.obj])) /\ Go(g, [w[g] EXCEPT !.rel = w[g].rel \ {c}])
        \/ \E pc : Go(g, [w[g] EXCEPT !.at = c, !.pc = pc])
  BY DEF ReleaseGet
<1>4. CASE ReleaseFailed(g)
  <2>1. Moves(g, Ended, {"status"})
    BY <1>0, <1>1, <1>4, FailMoves DEF ReleaseFailed, Edited
  <2> QED
    BY <2>1 DEF Moves, Frees
<1>5. CASE (~Served(c.obj) \/ ~Exists(objs[c.obj])) /\ Go(g, [w[g] EXCEPT !.rel = w[g].rel \ {c}])
  <2>1. w'[g].rel = w[g].rel \ {c}
    BY <1>0, <1>1, <1>5 DEF Go, RunFields
  <2>2. ASSUME NEW o \in Objects, NEW m, c = [obj |-> o, manager |-> m] PROVE ~Patches(g, o, m)'
    <3>1. c.obj = o
      BY <2>2
    <3>2. Exists(objs[o]) => ~Served(o)
      BY <1>5, <3>1
    <3>3. Exists(objs[o]) => Managers(objs[o]) \subseteq {Someone}
      BY <1>0, <3>2 DEF Unserved
    <3>4. ~Patches(g, o, m)
      BY <3>3 DEF Patches, Someone
    <3> QED
      BY <1>2, <3>4 DEF Patches
  <2> QED
    BY <2>1, <2>2 DEF Frees
<1>6. CASE \E pc : Go(g, [w[g] EXCEPT !.at = c, !.pc = pc])
  <2>1. w'[g].rel = w[g].rel
    BY <1>0, <1>1, <1>6 DEF Go, RunFields
  <2> QED
    BY <2>1 DEF Frees
<1> QED
  BY <1>3, <1>4, <1>5, <1>6

LEMMA ReleaseApplyFrees ==
    ASSUME NEW g \in Graphs, Afoot(g), Unserved', ReleaseApply(g) PROVE Frees(g, w[g], w'[g])
<1> DEFINE c == w[g].at
<1>0. Shapes /\ Stock /\ w[g].pc # "idle" /\ DOMAIN w = Graphs
  BY DEF Afoot, Ground, Ordered, Tracked, Attention, ReleaseApply, Shapes
<1>1. DOMAIN w[g] = RunFields
  BY <1>0, RunsFacts
<1>2. ReleaseFailed(g) \/ \E pc : Go(g, [w[g] EXCEPT !.rel = w[g].rel \ {c}, !.at = None, !.pc = pc])
  BY DEF ReleaseApply
<1>3. CASE ReleaseFailed(g)
  <2>1. Moves(g, Ended, {"status"})
    BY <1>0, <1>1, <1>3, FailMoves DEF ReleaseFailed, Edited
  <2> QED
    BY <2>1 DEF Moves, Frees
<1>4. CASE ~ReleaseFailed(g)
  <2>1. w'[g].rel = w[g].rel \ {c}
    <3> HIDE DEF c
    <3> QED
      BY <1>0, <1>1, <1>2, <1>4 DEF Go, RunFields
  <2>2. ~Served(c.obj) \/ c.obj \notin Objects \/ c.manager \notin Managers(objs'[c.obj])
    BY <1>0, <1>4, ReleaseTurns
  <2>3. \A o : Served(o)' = Served(o)
    BY DEF ReleaseApply, Served, swVars
  <2>4. ASSUME NEW o \in Objects, NEW m, c = [obj |-> o, manager |-> m] PROVE ~Patches(g, o, m)'
    <3>1. c.obj = o /\ c.manager = m
      BY <2>4
    <3>2. CASE m \notin Managers(objs'[o])
      BY <3>2 DEF Patches
    <3>3. CASE ~Served(o)
      <4>1. Exists(objs'[o]) => Managers(objs'[o]) \subseteq {Someone}
        BY <2>3, <3>3 DEF Unserved
      <4> QED
        BY <4>1 DEF Patches, Someone
    <3> QED
      BY <2>2, <3>1, <3>2, <3>3
  <2> QED
    BY <2>1, <2>4 DEF Frees
<1> QED
  BY <1>3, <1>4

LEMMA ReleaseResidual ==
    ASSUME NEW g \in Graphs, Afoot(g), Inherits(g), Frees(g, w[g], w'[g]),
           ReleaseGet(g) \/ ReleaseApply(g)
    PROVE  Residual(g)'
<1> DEFINE r == w[g]
           q == w'[g]
           st == graphs[g].contribs
           nodes == Nodes(g)
<1>0. Shapes /\ Residual(g) /\ case' = case /\ (Undisturbed' => Undisturbed)
  BY DEF Afoot, Ground, Ordered, Tracked, Attention
<1>1. /\ r.pc \in {"release", "unlink", "releasing", "unlinking"} /\ UNCHANGED graphs
      /\ Moves(g, ReleaseFields, Releasing(r.pc) \cup {"status"})
  BY <1>0, ReleaseGetFacts, ReleaseApplyFacts DEF ReleaseGet, ReleaseApply
<1>2. /\ q.ver = r.ver /\ q.prior = r.prior /\ q.contr = r.contr /\ q.contribs = r.contribs
      /\ q.pc \in Releasing(r.pc) \cup {"status"}
  BY <1>1 DEF Moves, Edited, RunFields, ReleaseFields, Ended
<1>3. Mirrors(g, nodes, r, st) /\ st = graphs'[g].contribs /\ Nodes(g)' = nodes
  BY <1>0, <1>1, <1>2 DEF Residual, Nodes, specOf
<1>4. Mirrors(g, nodes, q, st)
  <2> HIDE DEF r, q, st, nodes
  <2> QED
    BY <1>1, <1>2, <1>3 DEF Mirrors, Before, Walking, After, Releasing
<1>5. ASSUME NEW o \in Objects, NEW m, NEW late \in BOOLEAN, Patches(g, o, m)',
             Covers(r, st, [obj |-> o, manager |-> m], late, Undisturbed)
      PROVE  Covers(q, st, [obj |-> o, manager |-> m], late, Undisturbed')
  <2> DEFINE c == [obj |-> o, manager |-> m]
  <2>1. q.pc = "status" \/ (c \in r.rel => c \in q.rel)
    BY <1>5 DEF Frees
  <2>2. Covers(r, st, c, late, Undisturbed)
    BY <1>5
  <2> HIDE DEF r, q, st, c
  <2>3. Covers(q, st, c, late, Undisturbed')
    BY <1>0, <1>1, <1>2, <2>1, <2>2 DEF Covers, Walking, Releasing
  <2> QED
    BY <2>3 DEF c
<1>6. Accounted(g)'
  <2>1. Accounted(g)
    BY <1>0 DEF Residual
  <2>2. st = graphs'[g].contribs
    BY <1>3
  <2> QED
    BY <1>0, <1>5, <2>1, <2>2, AccountedStep
<1> QED
  BY <1>3, <1>4, <1>6 DEF Residual

LEMMA SettleResidual ==
    ASSUME NEW g \in Graphs, Afoot(g), Inherits(g), SettleContributions(g) PROVE Residual(g)'
<1> DEFINE r == w[g]
           q == w'[g]
           st == graphs[g].contribs
           t == graphs'[g].contribs
           nodes == case.specs[g][q.ver].nodes
           new == [graphs[g] EXCEPT !.contribs = r.contr]
<1>0. Shapes /\ Residual(g) /\ case' = case /\ (Undisturbed' => Undisturbed)
  BY DEF Afoot, Ground, Ordered, Tracked, Attention
<1>1. r.pc = "release" /\ r.rel = {} /\ Moves(g, Ended, {"status"})
  BY <1>0, SettleFacts DEF SettleContributions
<1>2. q.pc = "status"
  BY <1>1 DEF Moves
<1>3. graphs' = graphs \/ graphs' = [graphs EXCEPT ![g] = new]
  BY DEF SettleContributions, persistContributions, WriteGraph
<1>4. t = st \/ t = r.contr
  BY <1>0, <1>3 DEF Shapes, GraphFields
<1> HIDE DEF r, q, st, t, nodes
<1>5. Mirrors(g, nodes, q, t)
  BY <1>2 DEF Mirrors, Before, Walking, After
<1>6. ASSUME NEW c, NEW late \in BOOLEAN, Covers(r, st, c, late, Undisturbed)
      PROVE  Covers(q, t, c, late, Undisturbed')
  BY <1>0, <1>1, <1>2, <1>4, <1>6 DEF Covers, Walking
<1> QED
  BY <1>0, <1>5, <1>6, ResidualNext DEF r, q, st, t, nodes

LEMMA UpdateStatusResidual ==
    ASSUME NEW g \in Graphs, Afoot(g), Inherits(g), updateStatus(g) PROVE Residual(g)'
<1>1. w[g].pc = "status" /\ Writes(g, {"managed", "sa", "cond"}) /\ Stops(g)
  BY UpdateStatusFacts DEF Afoot, Ground, Ordered, Tracked, Attention
<1>2. graphs'[g].contribs = graphs[g].contribs
  BY <1>1 DEF Writes, GraphFields
<1>3. w[g].pc \notin Walking /\ w'[g] = Idle
  BY <1>1 DEF Walking, Stops
<1> QED
  BY <1>2, <1>3, StopsResidual

\* The finalizer goes when there is nothing left to release.
LEMMA SetUnmanagedResidual ==
    ASSUME NEW g \in Graphs, Afoot(g), Inherits(g), setUnmanaged(g) PROVE Residual(g)'
<1> DEFINE r == w[g]
           st == graphs[g].contribs
           t == graphs'[g].contribs
<1>0. Shapes /\ Residual(g) /\ case' = case /\ (Undisturbed' => Undisturbed)
  BY DEF Afoot, Ground, Ordered, Tracked, Attention
<1>1. r.pc = "unlink" /\ r.rel = {} /\ w'[g] = Idle
  BY <1>0, SetUnmanagedFacts DEF setUnmanaged, Stops
<1>2. Idle.pc = "idle"
  BY DEF Idle
<1> HIDE DEF r, st, t
<1>3. Mirrors(g, case.specs[g][Idle.ver].nodes, Idle, t)
  BY <1>2 DEF Mirrors, Before, Walking, After
<1>4. ASSUME NEW c, NEW late \in BOOLEAN, Covers(r, st, c, late, Undisturbed)
      PROVE  Covers(Idle, t, c, late, Undisturbed')
  BY <1>0, <1>1, <1>2, <1>4 DEF Covers, Walking
<1> QED
  BY <1>0, <1>1, <1>3, <1>4, ResidualNext DEF r, st, t

LEMMA ReconcileResidual ==
    ASSUME NEW g \in Graphs, Afoot(g), Unserved', Reconcile(g), [Next]_vars PROVE Residual(g)'
<1>1. CASE \E force \in BOOLEAN : ApplyObject(g, force)
  BY <1>1, ApplyObjectResidual
<1>2. CASE ~\E force \in BOOLEAN : ApplyObject(g, force)
  <2>1. Inherits(g)
    BY <1>2, OthersInherit DEF Afoot, Ground
  <2>2. CASE \/ CompileStart(g) \/ CompileEnd(g) \/ WriteAheadManaged(g) \/ EnterNode(g)
             \/ DeleteEntry(g) \/ DeleteChecked(g) \/ EndDelete(g)
    BY <2>1, <2>2, QuietResidual
  <2>3. CASE Begin(g) \/ setManaged(g) \/ WriteAheadContributions(g) \/ GetLive(g) \/ Finish(g)
    BY <2>1, <2>3, BeginResidual, SetManagedResidual, WriteAheadContributionsResidual,
       GetLiveResidual, FinishResidual
  <2>4. CASE EndPrune(g) \/ SettleContributions(g) \/ updateStatus(g) \/ setUnmanaged(g)
    BY <2>1, <2>4, EndPruneResidual, SettleResidual, UpdateStatusResidual, SetUnmanagedResidual
  <2>5. CASE ReleaseGet(g) \/ ReleaseApply(g)
    BY <2>1, <2>5, ReleaseGetFrees, ReleaseApplyFrees, ReleaseResidual
  <2> QED
    BY <1>2, <2>2, <2>3, <2>4, <2>5 DEF Reconcile
<1> QED
  BY <1>1, <1>2

\* A step that leaves the run and the ledger of g alone.
LEMMA ResidualStays ==
    ASSUME NEW g \in Graphs, Afoot(g), Inherits(g), w'[g] = w[g],
           graphs'[g].contribs = graphs[g].contribs
    PROVE  Residual(g)'
<1> DEFINE r == w[g]
           st == graphs[g].contribs
           nodes == case.specs[g][r.ver].nodes
<1>0. Residual(g) /\ case' = case /\ (Undisturbed' => Undisturbed)
  BY DEF Afoot
<1>1. Mirrors(g, nodes, r, st)
  BY <1>0 DEF Residual, Nodes, specOf
<1> HIDE DEF r, st, nodes
<1>2. ASSUME NEW c, NEW late \in BOOLEAN, Covers(r, st, c, late, Undisturbed)
      PROVE  Covers(r, st, c, late, Undisturbed')
  BY <1>0, <1>2 DEF Covers
<1> QED
  BY <1>0, <1>1, <1>2, ResidualNext DEF r, st, nodes

Residuals == \A g \in Graphs : Residual(g)

LEMMA ResidualStep ==
    ASSUME Ground, Residuals, [Next]_vars PROVE Residuals'
<1>0. /\ Ordered /\ Shapes /\ Budgeted /\ Lifecycle /\ case' = case /\ (Undisturbed' => Undisturbed) /\ Unserved'
  BY CaseFixed, BudgetStep, GroundStep DEF Ground, Ordered, Tracked, Attention, vars
<1>1. \A g \in Graphs : Afoot(g)
  BY <1>0 DEF Residuals, Afoot
<1>2. ASSUME NEW g \in Graphs, ~\E force \in BOOLEAN : ApplyObject(g, force) PROVE Inherits(g)
  BY <1>0, <1>2, OthersInherit
<1>3. \A g \in Graphs : w[g].pc = "idle" => ~\E force \in BOOLEAN : ApplyObject(g, force)
  BY DEF ApplyObject
<1>4. ASSUME NEW g \in Graphs, Reconcile(g), NEW h \in Graphs PROVE Residual(h)'
  <2>1. CASE h = g
    BY <1>0, <1>1, <1>4, <2>1, ReconcileResidual
  <2>2. CASE h # g
    <3>1. graphs'[h] = graphs[h] /\ w'[h] = w[h]
      BY <1>0, <1>4, <2>2, ReconcileLocal
    <3>2. CASE ~\E force \in BOOLEAN : ApplyObject(h, force)
      BY <1>1, <1>2, <3>1, <3>2, ResidualStays
    <3>3. CASE \E force \in BOOLEAN : ApplyObject(h, force)
      BY <1>0, <1>1, <3>3, ApplyObjectResidual
    <3> QED
      BY <3>2, <3>3
  <2> QED
    BY <2>1, <2>2
<1>5. ASSUME NEW h \in Graphs,
             \/ \E g \in Graphs : EditGraph(g) \/ DeleteGraph(g) \/ Drain(g)
             \/ \E o \in Objects : Meddle(o) \/ Report(o) \/ Gone(o)
             \/ \E k \in Kinds : CrdChanges(k) \/ CrdEvent(k)
             \/ UNCHANGED vars
      PROVE  Residual(h)'
  <2>1. w'[h] = w[h] /\ graphs'[h].contribs = graphs[h].contribs
    <3>1. CASE \E g \in Graphs : EditGraph(g) \/ DeleteGraph(g)
      BY <1>0, <3>1, UsersLiving DEF Lifecycle
    <3>2. CASE ~\E g \in Graphs : EditGraph(g) \/ DeleteGraph(g)
      BY <1>5, <3>2 DEF Drain, Meddle, Report, Gone, CrdChanges, CrdEvent, vars
    <3> QED
      BY <3>1, <3>2
  <2>2. CASE \E force \in BOOLEAN : ApplyObject(h, force)
    BY <1>1, <2>2, ApplyObjectResidual
  <2> QED
    BY <1>1, <1>2, <2>1, <2>2, ResidualStays
<1>6. ASSUME NEW h \in Graphs, Crash PROVE Residual(h)'
  <2>1. UNCHANGED graphs /\ w'[h] = Idle /\ ~Undisturbed'
    BY <1>0, <1>6, CrashDisturbs DEF Crash
  <2>2. CASE \E force \in BOOLEAN : ApplyObject(h, force)
    BY <1>1, <2>2, ApplyObjectResidual
  <2> QED
    BY <1>1, <1>2, <2>1, <2>2, StopsResidual
<1> QED
  BY <1>4, <1>5, <1>6 DEF Next, Residuals

LEMMA ResidualInit == ASSUME Init PROVE Residuals
<1> SUFFICES ASSUME NEW g \in Graphs PROVE Residual(g)
  BY DEF Residuals
<1>1. w[g] = Idle /\ Idle.pc = "idle"
  BY DEF Init, Idle
<1>2. ASSUME NEW o \in Objects, NEW m PROVE ~Patches(g, o, m)
  <2>1. objs[o] = NoObject \/ Managers(objs[o]) \subseteq {Someone}
    BY CasesAssumption DEF Init
  <2>2. ~Exists(NoObject)
    BY DEF Exists, NoObject
  <2> QED
    BY <2>1, <2>2 DEF Patches, Someone
<1>3. Mirrors(g, Nodes(g), Idle, graphs[g].contribs)
  BY <1>1 DEF Mirrors, Before, Walking, After
<1> QED
  BY <1>1, <1>2, <1>3 DEF Residual, Accounted

LEMMA ResidualHolds == Spec => [](Ground /\ Residuals)
<1>1. Init => Unserved /\ Newest /\ Budgeted /\ Lifecycle /\ Residuals
  BY GroundInit, ResidualInit
<1>2. Ordered /\ (Unserved /\ Newest /\ Budgeted /\ Lifecycle /\ Residuals) /\ [Next]_vars
      => (Unserved /\ Newest /\ Budgeted /\ Lifecycle /\ Residuals)'
  BY GroundStep, ResidualStep DEF Ground
<1> QED
  BY <1>1, <1>2, OrderedHolds, PTL DEF Spec, Ground

\* A Graph that is gone has released every field a patch of it owned (the ledger of
\* contributions: writeAheadContributions, persistContributions, Release and
\* cleanupContributions), however the edits, deletions, peers, CRD changes, crashes,
\* failed calls and lost answers fell; after a crash or a failed call alone there may
\* be those of a node the write-ahead cannot announce.
THEOREM PatchesAreReleased == Spec => []NoResidue
<1>1. Ground /\ Residuals => NoResidue
  <2> SUFFICES ASSUME Ground, Residuals, NEW g \in DOMAIN case.specs, NEW o \in Objects,
                      ~graphs[g].up, Exists(objs[o]), NEW m \in Managers(objs[o]),
                      m.kind = "patch", m.graph = g
               PROVE  ~Undisturbed /\ \E n \in Late(g) : n.kind = "patch" /\ n.id = m.node
    BY DEF NoResidue
  <2>1. g \in Graphs
    BY CasesAssumption DEF Ground, Budgeted
  <2>2. Living(g) /\ Residual(g)
    BY <2>1 DEF Ground, Lifecycle, Residuals
  <2>3. graphs[g].contribs = {} /\ w[g].pc \in {"idle", "manage"}
    BY <2>2 DEF Living
  <2>4. Covers(w[g], graphs[g].contribs, [obj |-> o, manager |-> m], LateManager(g, m), Undisturbed)
    BY <2>2 DEF Residual, Accounted, Patches
  <2>5. LateManager(g, m) /\ ~Undisturbed
    BY <2>3, <2>4 DEF Covers, Walking
  <2> QED
    BY <2>5 DEF LateManager
<1> QED
  BY <1>1, ResidualHolds, PTL

-----------------------------------------------------------------------------
(* What the write-ahead announces is not left out later.                   *)

LEMMA Least ==
    ASSUME NEW T \in SUBSET Nat, T # {}
    PROVE  \E x \in T : \A y \in T : x <= y
<1> DEFINE R == OpToRel(<, Nat)
<1>1. \A x, y \in Nat : y < x => <<y, x>> \in R
  BY DEF OpToRel
<1>2. IsWellFoundedOn(R, Nat)
  BY NatLessThanWellFounded
<1> HIDE DEF R
<1>3. PICK x \in T : \A y \in T : ~(<<y, x>> \in R)
  BY <1>2, WFMin
<1>4. ASSUME NEW y \in T PROVE x <= y
  <2>1. x \in Nat /\ y \in Nat
    OBVIOUS
  <2>2. ~(y < x)
    BY <1>1, <1>3, <2>1
  <2> QED
    BY <2>1, <2>2
<1> QED
  BY <1>4

\* How IsIgnored decides node i from what f says of the nodes before it.
Decides(nodes, val, f, i) ==
    LET n == nodes[i]
        deps == {f[j] : j \in {j \in 1..(i - 1) : nodes[j].id \in n.deps}}
        own == IF n.inc = None \/ val[n.inc] = "on" THEN "no"
               ELSE IF val[n.inc] = "off" THEN "yes" ELSE "pending"
    IN  IF \A d \in deps : d = {"no"} THEN {own}
        ELSE (UNION deps) \ {"no"}

LEMMA DecidesLocally ==
    ASSUME NEW nodes, NEW val, NEW f, NEW h, NEW i \in Nat, \A j \in 1..(i - 1) : f[j] = h[j]
    PROVE  Decides(nodes, val, f, i) = Decides(nodes, val, h, i)
<1> DEFINE J == {j \in 1..(i - 1) : nodes[j].id \in nodes[i].deps}
<1>1. {f[j] : j \in J} = {h[j] : j \in J}
  OBVIOUS
<1> QED
  BY <1>1 DEF Decides

\* The recursion is well founded, node by node.
LEMMA DecidesAll ==
    ASSUME NEW nodes, NEW val
    PROVE  \A k \in Nat : \E f : f = [i \in 1..k |-> Decides(nodes, val, f, i)]
<1> DEFINE Good(k, f) == DOMAIN f = 1..k /\ f = [i \in 1..k |-> Decides(nodes, val, f, i)]
           T == {k \in Nat : ~ \E f : Good(k, f)}
<1>1. ASSUME T # {} PROVE FALSE
  <2>1. PICK k \in T : \A y \in T : k <= y
    BY <1>1, Least
  <2>2. k # 0
    <3> DEFINE e == [i \in 1..0 |-> {}]
    <3>1. Good(0, e)
      OBVIOUS
    <3> QED
      BY <3>1
  <2>3. k - 1 \in Nat /\ k - 1 \notin T /\ k \in Nat
    BY <2>1, <2>2
  <2>4. PICK f : Good(k - 1, f)
    BY <2>3
  <2> DEFINE h == [i \in 1..k |-> IF i = k THEN Decides(nodes, val, f, k) ELSE f[i]]
  <2>5. ASSUME NEW i \in 1..k PROVE h[i] = Decides(nodes, val, h, i)
    <3>1. i \in Nat /\ \A j \in 1..(i - 1) : h[j] = f[j] /\ j \in 1..(k - 1)
      BY <2>3
    <3>2. Decides(nodes, val, f, i) = Decides(nodes, val, h, i)
      <4> HIDE DEF h
      <4> QED
        BY <3>1, DecidesLocally
    <3>3. CASE i = k
      BY <3>2, <3>3
    <3>4. CASE i # k
      <4>1. i \in 1..(k - 1)
        BY <2>3, <3>4
      <4>2. f[i] = Decides(nodes, val, f, i)
        BY <2>4, <4>1
      <4> QED
        BY <3>2, <3>4, <4>2
    <3> QED
      BY <3>3, <3>4
  <2>6. h = [i \in 1..k |-> Decides(nodes, val, h, i)] /\ DOMAIN h = 1..k
    <3>1. DOMAIN h = 1..k /\ h = [i \in 1..k |-> h[i]]
      OBVIOUS
    <3> HIDE DEF h
    <3> QED
      BY <2>5, <3>1
  <2>7. Good(k, h)
    BY <2>6
  <2> QED
    BY <2>1, <2>7
<1> HIDE DEF Good
<1>2. \A k \in Nat : \E f : Good(k, f)
  BY <1>1
<1> QED
  BY <1>2 DEF Good

LEMMA IgnoredDecides ==
    ASSUME NEW nodes, NEW val, Len(nodes) \in Nat
    PROVE  IsIgnored(nodes, val) = [i \in 1..Len(nodes) |-> Decides(nodes, val, IsIgnored(nodes, val), i)]
<1>1. \E f : f = [i \in 1..Len(nodes) |-> Decides(nodes, val, f, i)]
  BY DecidesAll
<1>2. IsIgnored(nodes, val) = CHOOSE f : f = [i \in 1..Len(nodes) |-> Decides(nodes, val, f, i)]
  BY Zenon DEF IsIgnored, Decides
<1> QED
  BY <1>1, <1>2

\* The nodes of a version: in order, under ids of their own, reading nodes there are.
Compiled(nodes) ==
    /\ Len(nodes) \in Nat /\ DOMAIN nodes = 1..Len(nodes)
    /\ \A i, j \in DOMAIN nodes : nodes[i].id = nodes[j].id => i = j
    /\ \A i \in DOMAIN nodes :
         /\ nodes[i].items \subseteq Objects
         /\ nodes[i].kind \in {"template", "patch", "ref", "graph"}
         /\ nodes[i].use \subseteq {nodes[k].id : k \in DOMAIN nodes}
         /\ nodes[i].inc \in {nodes[k].id : k \in DOMAIN nodes} \union {None}

LEMMA NodesCompiled ==
    ASSUME case \in Cases, NEW g \in DOMAIN case.specs, NEW v \in DOMAIN case.specs[g]
    PROVE  Compiled(case.specs[g][v].nodes)
BY CasesAssumption, ProgramsAssumption DEF Compiled

\* A node that no value of another decides about stays in.
LEMMA IncludedStays ==
    ASSUME NEW nodes, Compiled(nodes), NEW val, NEW k \in DOMAIN nodes,
           IsIgnored(nodes, NoValues(nodes))[k] = {"no"}
    PROVE  IsIgnored(nodes, val)[k] = {"no"}
<1> DEFINE none == NoValues(nodes)
           f == IsIgnored(nodes, none)
           h == IsIgnored(nodes, val)
           T == {i \in DOMAIN nodes : f[i] = {"no"} /\ h[i] # {"no"}}
<1>0. Len(nodes) \in Nat /\ DOMAIN nodes = 1..Len(nodes)
  BY DEF Compiled
<1>1. \A i \in DOMAIN nodes : f[i] = Decides(nodes, none, f, i) /\ h[i] = Decides(nodes, val, h, i)
  <2>1. f = [i \in 1..Len(nodes) |-> Decides(nodes, none, f, i)]
    BY <1>0, IgnoredDecides
  <2>2. h = [i \in 1..Len(nodes) |-> Decides(nodes, val, h, i)]
    BY <1>0, IgnoredDecides
  <2> HIDE DEF f, h
  <2> QED
    BY <1>0, <2>1, <2>2
<1>2. \A i \in DOMAIN nodes : nodes[i].inc # None => none[nodes[i].inc] = "none"
  BY DEF Compiled, NoValues
<1> HIDE DEF f, h, none
<1>3. ASSUME T # {} PROVE FALSE
  <2>1. T \subseteq Nat
    BY <1>0
  <2>2. PICK i \in T : \A y \in T : i <= y
    BY <1>3, <2>1, Least
  <2> DEFINE J == {j \in 1..(i - 1) : nodes[j].id \in nodes[i].deps}
             D == {f[j] : j \in J}
             E == {h[j] : j \in J}
  <2>3. i \in DOMAIN nodes /\ f[i] = {"no"} /\ h[i] # {"no"}
    OBVIOUS
  <2>4. \A d \in D : d = {"no"}
    <3>1. (UNION D) \ {"no"} # {"no"}
      OBVIOUS
    <3> QED
      BY <1>1, <2>3, <3>1 DEF Decides
  <2>5. nodes[i].inc = None
    <3>1. CASE nodes[i].inc # None
      <4>1. none[nodes[i].inc] = "none"
        BY <1>2, <2>3, <3>1
      <4>2. f[i] = {"pending"}
        BY <1>1, <2>3, <2>4, <3>1, <4>1 DEF Decides
      <4> QED
        BY <2>3, <4>2
    <3> QED
      BY <3>1
  <2>6. \A d \in E : d = {"no"}
    <3> SUFFICES ASSUME NEW j \in J PROVE h[j] = {"no"}
      OBVIOUS
    <3>1. j \in DOMAIN nodes /\ ~(i <= j)
      BY <1>0, <2>3
    <3>2. f[j] = {"no"}
      BY <2>4
    <3> QED
      BY <2>2, <3>1, <3>2
  <2>7. h[i] = {"no"}
    BY <1>1, <2>3, <2>5, <2>6 DEF Decides
  <2> QED
    BY <2>3, <2>7
<1> QED
  BY <1>3 DEF f, h, none

LEMMA NothingSeen == \A nodes : childRuntime(nodes, NoValues(nodes)) = NoValues(nodes)
BY DEF childRuntime, NoValues

\* What is announced waits for nothing, and neither does its frame.
LEMMA AnnouncedFacts ==
    ASSUME NEW nodes, Compiled(nodes), NEW i \in DOMAIN nodes, nodes[i] \in Announced(nodes)
    PROVE  /\ IsIgnored(nodes, NoValues(nodes))[i] = {"no"} /\ nodes[i].use = {} /\ ~nodes[i].dyn
           /\ \A j \in DOMAIN nodes : nodes[j].id = nodes[i].frame
                => IsIgnored(nodes, NoValues(nodes))[j] = {"no"}
<1> DEFINE none == NoValues(nodes)
           f == IsIgnored(nodes, none)
           K == {k \in DOMAIN nodes : /\ f[k] = {"no"} /\ Resolves(nodes[k], none)
                                      /\ \A j \in DOMAIN nodes : nodes[j].id = nodes[k].frame => f[j] = {"no"}}
<1>1. projected(nodes, none) = {nodes[k] : k \in K}
  BY NothingSeen DEF projected
<1>2. PICK k \in K : nodes[i] = nodes[k]
  BY <1>1 DEF Announced
<1>3. i = k /\ ~nodes[i].dyn
  BY <1>2 DEF Compiled, Announced
<1>4. \A u \in nodes[i].use : none[u] = "none"
  BY DEF Compiled, NoValues
<1> HIDE DEF f, none
<1>5. nodes[i].use = {}
  BY <1>2, <1>3, <1>4 DEF Resolves
<1> QED
  BY <1>2, <1>3, <1>5 DEF f, none

LEMMA ProjectedStays ==
    ASSUME NEW nodes, Compiled(nodes), NEW i \in DOMAIN nodes, nodes[i] \in Announced(nodes), NEW val
    PROVE  nodes[i] \in projected(nodes, val)
<1> DEFINE seed == childRuntime(nodes, val)
           h == IsIgnored(nodes, seed)
           K == {k \in DOMAIN nodes : /\ h[k] = {"no"} /\ Resolves(nodes[k], seed)
                                      /\ \A j \in DOMAIN nodes : nodes[j].id = nodes[k].frame => h[j] = {"no"}}
<1>1. projected(nodes, val) = {nodes[k] : k \in K}
  BY DEF projected
<1>2. /\ IsIgnored(nodes, NoValues(nodes))[i] = {"no"} /\ nodes[i].use = {}
      /\ \A j \in DOMAIN nodes : nodes[j].id = nodes[i].frame => IsIgnored(nodes, NoValues(nodes))[j] = {"no"}
  BY AnnouncedFacts
<1>3. /\ h[i] = {"no"} /\ \A j \in DOMAIN nodes : nodes[j].id = nodes[i].frame => h[j] = {"no"}
  BY <1>2, IncludedStays
<1>4. Resolves(nodes[i], seed)
  BY <1>2 DEF Resolves
<1>5. i \in K
  BY <1>3, <1>4
<1> QED
  BY <1>1, <1>5

\* What the write-ahead lists, and with which UID.
LEMMA IntendedIs ==
    ASSUME NEW nodes, NEW val
    PROVE  /\ \A o : o \in DOMAIN intendedManagedResources(nodes, val)
                <=> \E n \in projected(nodes, val) : n.kind = "template" /\ ~n.dyn /\ o \in n.items
           /\ \A o \in DOMAIN intendedManagedResources(nodes, val) :
                intendedManagedResources(nodes, val)[o].uid = 0
<1> DEFINE ns == {n \in projected(nodes, val) : n.kind = "template" /\ ~n.dyn}
           os == UNION {n.items : n \in ns}
           owner(o) == CHOOSE n \in ns : o \in n.items
           m == [o \in os |-> [node |-> owner(o).id, uid |-> 0]]
<1>1. intendedManagedResources(nodes, val) = m
  BY DEF intendedManagedResources, Entries
<1>2. \A o : o \in os <=> \E n \in ns : o \in n.items
  OBVIOUS
<1>3. DOMAIN m = os /\ \A o \in os : m[o].uid = 0
  OBVIOUS
<1> HIDE DEF m, os
<1> QED
  BY <1>1, <1>2, <1>3

\* What a cycle writes ahead before its walk.
Intended(nodes) == DOMAIN intendedManagedResources(nodes, NoValues(nodes))

LEMMA IntendedAnnounced ==
    ASSUME NEW nodes, NEW o \in Intended(nodes)
    PROVE  \E i \in DOMAIN nodes : /\ nodes[i] \in Announced(nodes)
                                   /\ nodes[i].kind = "template" /\ o \in nodes[i].items
<1>1. PICK n \in projected(nodes, NoValues(nodes)) : n.kind = "template" /\ ~n.dyn /\ o \in n.items
  BY IntendedIs DEF Intended
<1>2. PICK i \in DOMAIN nodes : n = nodes[i]
  BY ProjectedNodes
<1> QED
  BY <1>1, <1>2 DEF Announced

LEMMA AnnouncedIntended ==
    ASSUME NEW nodes, NEW n \in Announced(nodes), n.kind = "template", NEW o \in n.items
    PROVE  o \in Intended(nodes)
BY IntendedIs DEF Intended, Announced

LEMMA IntendedStays ==
    ASSUME NEW nodes, Compiled(nodes), NEW val
    PROVE  Intended(nodes) \subseteq DOMAIN intendedManagedResources(nodes, val)
<1> SUFFICES ASSUME NEW o \in Intended(nodes) PROVE o \in DOMAIN intendedManagedResources(nodes, val)
  OBVIOUS
<1>1. PICK i \in DOMAIN nodes : nodes[i] \in Announced(nodes) /\ nodes[i].kind = "template" /\ o \in nodes[i].items
  BY IntendedAnnounced
<1>2. nodes[i] \in projected(nodes, val) /\ ~nodes[i].dyn
  BY <1>1, ProjectedStays, AnnouncedFacts
<1> QED
  BY <1>1, <1>2, IntendedIs

-----------------------------------------------------------------------------
(* The objects of templates.                                               *)

Pre == {"manage", "compile", "compiling", "intent"}
Pruning == {"prune", "pruning"}
Closing == {"release", "releasing", "status"}
Down == {"delete", "deleting", "unlink", "unlinking"}

\* Two inventories of the same objects under the same UIDs.
Alike(l, m) == DOMAIN l = DOMAIN m /\ \A o \in DOMAIN l : l[o].uid = m[o].uid

\* The inventories of a run follow the stored one, m: what the run has read is what is
\* stored, then the union with the intent is, and what is to be deleted is listed.
Filed(nodes, r, m) ==
    /\ r.pc \in Pre => m = r.prev /\ m = r.managed /\ r.val = NoValues(nodes)
    /\ r.pc = "intent2" => m = r.managed
    /\ r.pc \in Before => r.applied = <<>> /\ r.i = 1 /\ r.soft = None /\ ~r.hard
    /\ r.pc \in {"intent2"} \cup Walking \cup Pruning =>
         /\ Alike(m, r.intent) /\ Intended(nodes) \subseteq DOMAIN m
         /\ \A o \in DOMAIN r.prev : o \in DOMAIN m /\ m[o].uid = r.prev[o].uid
         /\ \A o \in DOMAIN m \ DOMAIN r.prev : o \in Intended(nodes) /\ m[o].uid = 0
    /\ r.pc \in Walking \cup Pruning => \A o \in DOMAIN r.applied : r.applied[o].uid # 0
    /\ r.pc \in Pruning => \A o \in DOMAIN r.applied : o \in DOMAIN r.newSet /\ r.newSet[o] = r.applied[o]
    /\ r.pc \in Down => m = r.managed
    /\ r.pc \in Pruning \cup {"delete", "deleting"} =>
         \A o \in DOMAIN r.todo : o \in DOMAIN m /\ r.todo[o].uid = m[o].uid

\* No inventory lists a UID that has not been given out; k counts them.
InTime(l, k) == \A o \in DOMAIN l \cap Objects : l[o].uid \in Nat /\ l[o].uid <= k[o]
Timed(r, m, k) ==
    /\ InTime(m, k)
    /\ r.pc \in Walking \cup Pruning => InTime(r.applied, k)
    /\ r.pc \in Pruning => InTime(r.newSet, k)
    /\ r.pc \in Closing => InTime(r.managed, k)

\* A walk applies an object once, for the node that claimed it first, and until
\* something fails it has applied every announced template behind it.
Walked(nodes, r) ==
    r.pc \in Walking =>
      /\ r.i \in 1..(Len(nodes) + 1)
      /\ \A o \in DOMAIN r.applied :
           /\ [obj |-> o, node |-> r.applied[o].node] \in r.claims
           /\ \E j \in DOMAIN nodes : /\ j < r.i \/ (j = r.i /\ r.pc # "walk")
                                      /\ nodes[j].id = r.applied[o].node
           /\ r.pc # "walk" /\ o \in r.items => r.applied[o].node # nodes[r.i].id
      /\ r.pc # "walk" => nodes[r.i].kind # "graph"
      /\ r.pc \in {"apply", "force"} =>
           /\ nodes[r.i].kind # "ref" /\ r.at \in r.items
           /\ nodes[r.i].kind = "template" =>
                r.at \notin DOMAIN r.applied /\ [obj |-> r.at, node |-> nodes[r.i].id] \in r.claims
      /\ r.soft = None /\ ~r.hard =>
           /\ \A j \in DOMAIN nodes :
                j < r.i /\ nodes[j] \in Announced(nodes) /\ nodes[j].kind = "template"
                  => nodes[j].items \subseteq DOMAIN r.applied
           /\ r.pc # "walk" /\ r.res = {} /\ nodes[r.i].kind = "template"
                => nodes[r.i].items \ r.items \subseteq DOMAIN r.applied

\* What a run that is about to apply has seen of the object: if it is the Graph's, it
\* is still the one that was read, and the inventory lists none that came after it.
Sighted(g) ==
    w[g].pc \in {"apply", "force"} =>
      /\ Mine(g, w[g].at) => objs[w[g].at].uid = w[g].cur.uid
      /\ Exists(w[g].cur) =>
           /\ w[g].cur.uid \in 1..uids[w[g].at]
           /\ w[g].at \in DOMAIN graphs[g].managed => graphs[g].managed[w[g].at].uid <= w[g].cur.uid

\* The inventory l lists o under the UID u; it leads to it if it does, or lists no UID
\* and the Graph is alone with the object (ok).
Sure(l, o, u) == o \in DOMAIN l /\ l[o].uid = u
Leads(l, o, u, ok) == Sure(l, o, u) \/ (Sure(l, o, 0) /\ ok)

\* What the inventory m and the run r hold of an object o with the UID u that is the
\* Graph's.  First what is written ahead: the inventory leads to it, unless its node is
\* late or it has come up again.  Then what holds as long as nothing has failed: it is
\* listed under its UID, in the cluster or by the run.  And once the inventory leads to
\* it no step of the run loses it: what was applied has its UID, the prune and the
\* teardown keep, delete or stumble over it, and what will be recorded still leads to it.
Tied(r, m, I, o, u, ok, late, quiet) ==
    /\ u = 1 /\ ok /\ ~late => Leads(m, o, u, ok)
    /\ quiet => IF r.pc \in Walking \cup Pruning THEN Sure(m, o, u) \/ Sure(r.applied, o, u)
                ELSE IF r.pc \in Closing THEN Sure(r.managed, o, u)
                ELSE Sure(m, o, u)
    /\ Leads(m, o, u, ok) =>
         /\ r.pc \in Walking \cup Pruning => (o \in DOMAIN r.applied => r.applied[o].uid = u)
         /\ r.pc \in Pruning => \/ r.err \/ o \in DOMAIN r.todo \/ Sure(r.newSet, o, u)
                                \/ Sure(r.newSet, o, 0) /\ Sure(m, o, 0)
                                \/ o \in I /\ Sure(m, o, 0) /\ r.soft # None /\ o \notin DOMAIN r.newSet
         /\ r.pc \in Closing => Sure(r.managed, o, u) \/ (Sure(r.managed, o, 0) /\ Sure(m, o, 0))
         /\ r.pc \in {"delete", "deleting"} => r.err \/ o \in DOMAIN r.todo
         /\ r.pc \notin {"unlink", "unlinking"}

LateTemplate(g, o) == \E n \in Late(g) : n.kind = "template" /\ o \in n.items
Sole(g, o) == Alone(g, o) /\ (Collected(case.specs[g], o) => objs[o].uid = 1)
Tethered(g) ==
    \A o \in Objects : Mine(g, o) =>
      Tied(w[g], graphs[g].managed, Intended(Nodes(g)), o, objs[o].uid,
           Sole(g, o), LateTemplate(g, o), Undisturbed)

Tidy(g) ==
    /\ Filed(Nodes(g), w[g], graphs[g].managed) /\ Timed(w[g], graphs[g].managed, uids)
    /\ Walked(Nodes(g), w[g]) /\ Sighted(g) /\ Tethered(g)

LEMMA TiedLess ==
    ASSUME NEW r, NEW m, NEW I, NEW o, NEW u, NEW ok \in BOOLEAN, NEW late, NEW quiet,
           NEW fine \in BOOLEAN, fine => ok, Tied(r, m, I, o, u, ok, late, quiet)
    PROVE  Tied(r, m, I, o, u, fine, late, quiet)
BY DEF Tied, Leads

\* What is the Graph's after the step was its before, and alone before if after.
LEMMA MineInherits ==
    ASSUME NEW g, Inherits(g), case' = case, wrote \subseteq wrote', NEW o \in Objects, Mine(g, o)'
    PROVE  /\ Mine(g, o) /\ objs'[o].uid = objs[o].uid /\ objs[o].uid # 0 /\ (Sole(g, o)' => Sole(g, o))
<1>1. /\ Exists(objs[o]) /\ ~objs[o].term /\ templateFieldManager(g) \in Managers(objs[o])
      /\ objs'[o].uid = objs[o].uid
  BY DEF Mine, Inherits, OfGraph
<1> QED
  BY <1>1 DEF Mine, Sole, Alone, Exists

LEMMA LateFixed == ASSUME NEW g, NEW o, case' = case PROVE LateTemplate(g, o)' = LateTemplate(g, o) /\ LateTemplate(g, o) \in BOOLEAN
BY DEF LateTemplate, Late, Announced, specOf

LEMMA TetheredStep ==
    ASSUME NEW g, Tethered(g), case' = case, Inherits(g), wrote \subseteq wrote',
           NEW r, r = w[g], NEW m, m = graphs[g].managed, NEW I, I = Intended(Nodes(g)),
           NEW s, s = w'[g], NEW t, t = graphs'[g].managed, NEW J, J = Intended(case.specs[g][s.ver].nodes),
           \A o \in Objects : \A u : \A ok, late \in BOOLEAN :
             Mine(g, o)' /\ Mine(g, o) /\ u = objs[o].uid /\ u # 0 /\ (ok => Alone(g, o))
               /\ Tied(r, m, I, o, u, ok, late, Undisturbed)
             => Tied(s, t, J, o, u, ok, late, Undisturbed')
    PROVE  Tethered(g)'
<1>1. J = Intended(Nodes(g)')
  BY DEF Nodes, specOf
<1> SUFFICES ASSUME NEW o \in Objects, Mine(g, o)'
             PROVE  Tied(s, t, J, o, objs'[o].uid, Sole(g, o)', LateTemplate(g, o)', Undisturbed')
  BY <1>1 DEF Tethered
<1> DEFINE u == objs[o].uid
           ok == Sole(g, o)
           fine == Sole(g, o)'
           late == LateTemplate(g, o)
<1>2. Mine(g, o) /\ objs'[o].uid = u /\ u # 0 /\ (fine => ok)
  BY MineInherits
<1>3. late \in BOOLEAN /\ LateTemplate(g, o)' = late
  BY LateFixed
<1>4. ok \in BOOLEAN /\ fine \in BOOLEAN /\ (ok => Alone(g, o))
  BY DEF Sole
<1>5. Tied(r, m, I, o, u, ok, late, Undisturbed)
  BY <1>2 DEF Tethered
<1> HIDE DEF u, ok, fine, late
<1>6. Tied(r, m, I, o, u, fine, late, Undisturbed) /\ (fine => Alone(g, o))
  BY <1>2, <1>4, <1>5, TiedLess
<1>7. Tied(s, t, J, o, u, fine, late, Undisturbed')
  BY <1>2, <1>3, <1>4, <1>6 DEF u
<1> QED
  BY <1>2, <1>3, <1>7 DEF fine

LEMMA InTimeGrows ==
    ASSUME NEW l, Stock, Grown, InTime(l, uids) PROVE InTime(l, uids')
<1> SUFFICES ASSUME NEW o \in DOMAIN l \cap Objects PROVE l[o].uid \in Nat /\ l[o].uid <= uids'[o]
  BY DEF InTime
<1>1. l[o].uid \in Nat /\ l[o].uid <= uids[o]
  BY DEF InTime
<1>2. uids[o] \in Nat /\ uids'[o] \in Nat /\ uids[o] <= uids'[o]
  BY DEF Grown, Stock
<1> QED
  BY <1>1, <1>2

\* A step of g, or one beside it, from where everything is tidy.
Poised(g) ==
    /\ Ground /\ Tidy(g) /\ case' = case /\ wrote \subseteq wrote' /\ Grown
    /\ Undisturbed' => Undisturbed

LEMMA PoisedFacts ==
    ASSUME NEW g \in Graphs, Poised(g)
    PROVE  /\ Ordered /\ Shapes /\ Versions /\ Accounts /\ Stock /\ Budgeted /\ Living(g) /\ Unserved /\ Newest
           /\ Filed(Nodes(g), w[g], graphs[g].managed) /\ Timed(w[g], graphs[g].managed, uids)
           /\ Walked(Nodes(g), w[g]) /\ Sighted(g) /\ Tethered(g)
           /\ case' = case /\ wrote \subseteq wrote' /\ Grown /\ (Undisturbed' => Undisturbed)
           /\ DOMAIN w = Graphs /\ DOMAIN graphs = Graphs /\ DOMAIN graphs[g] = GraphFields
BY DEF Poised, Tidy, Ground, Ordered, Tracked, Attention, Lifecycle, Shapes

\* What a step leaves of a run and its inventory, with the nodes of the run it leads to.
Keeps(g, r, m, I, s, t, J) ==
    \A o \in Objects : \A u : \A ok, late \in BOOLEAN :
      Mine(g, o)' /\ Mine(g, o) /\ u = objs[o].uid /\ u # 0 /\ (ok => Alone(g, o))
        /\ Tied(r, m, I, o, u, ok, late, Undisturbed)
      => Tied(s, t, J, o, u, ok, late, Undisturbed')
Leaves(g, s, t, nodes) ==
    /\ Filed(nodes, s, t) /\ Timed(s, t, uids') /\ Walked(nodes, s)
    /\ Keeps(g, w[g], graphs[g].managed, Intended(Nodes(g)), s, t, Intended(nodes))

LEMMA TidyNext ==
    ASSUME NEW g \in Graphs, Poised(g), Inherits(g), Sighted(g)',
           Leaves(g, w'[g], graphs'[g].managed, case.specs[g][w'[g].ver].nodes)
    PROVE  Tidy(g)'
<1> DEFINE r == w[g]
           m == graphs[g].managed
           I == Intended(Nodes(g))
           s == w'[g]
           t == graphs'[g].managed
           nodes == case.specs[g][s.ver].nodes
           J == Intended(nodes)
<1>1. Nodes(g)' = nodes
  BY DEF Nodes, specOf, Poised
<1>2. Tethered(g)'
  <2>1. case' = case /\ wrote \subseteq wrote' /\ Tethered(g)
    BY PoisedFacts
  <2>2. Keeps(g, r, m, I, s, t, J)
    BY DEF Leaves
  <2>3. r = w[g] /\ m = graphs[g].managed /\ I = Intended(Nodes(g)) /\ s = w'[g] /\ t = graphs'[g].managed
        /\ J = Intended(case.specs[g][s.ver].nodes)
    OBVIOUS
  <2> HIDE DEF r, m, I, s, t, J
  <2>4. \A o \in Objects : \A u : \A ok, late \in BOOLEAN :
             Mine(g, o)' /\ Mine(g, o) /\ u = objs[o].uid /\ u # 0 /\ (ok => Alone(g, o))
               /\ Tied(r, m, I, o, u, ok, late, Undisturbed)
             => Tied(s, t, J, o, u, ok, late, Undisturbed')
    BY <2>2 DEF Keeps
  <2> QED
    BY <2>1, <2>3, <2>4, TetheredStep
<1>3. Filed(nodes, s, t) /\ Timed(s, t, uids') /\ Walked(nodes, s)
  BY DEF Leaves
<1> HIDE DEF nodes
<1> QED
  BY <1>1, <1>2, <1>3 DEF Tidy

\* A run moves on and gives none of its inventories another value.
Onward(r, s) ==
    /\ s.ver = r.ver /\ s.managed = r.managed /\ s.prev = r.prev /\ s.intent = r.intent /\ s.val = r.val
    /\ s.applied = r.applied /\ s.i = r.i /\ s.soft = r.soft /\ s.hard = r.hard /\ s.newSet = r.newSet
    /\ s.todo = r.todo
    /\ \/ r.pc \in Pre /\ s.pc \in Pre
       \/ r.pc \in Before /\ s.pc = "status"
       \/ r.pc = "intent2" /\ s.pc = "walk"
       \/ r.pc = "delete" /\ s.pc = "status"
       \/ r.pc = "delete" /\ s.pc = "unlink" /\ ~r.err /\ DOMAIN r.todo = {}
       \/ r.pc \in {"unlink", "unlinking"} /\ s.pc \in {"unlink", "unlinking", "status"}
       \/ r.pc \in {"release", "releasing"} /\ s.pc \in {"release", "releasing", "status"}

LEMMA OnwardTidy ==
    ASSUME NEW g \in Graphs, Poised(g), Inherits(g), graphs'[g].managed = graphs[g].managed,
           w[g].pc # "idle", Onward(w[g], w'[g])
    PROVE  Tidy(g)'
<1> DEFINE r == w[g]
           s == w'[g]
           m == graphs[g].managed
           nodes == Nodes(g)
           I == Intended(nodes)
<1>0. /\ Filed(nodes, r, m) /\ Timed(r, m, uids) /\ Walked(nodes, r) /\ Onward(r, s) /\ Stock /\ Grown
      /\ (Undisturbed' => Undisturbed) /\ m = graphs'[g].managed
  BY PoisedFacts
<1>1. nodes = case.specs[g][s.ver].nodes /\ Len(nodes) \in Nat /\ DOMAIN nodes = 1..Len(nodes)
  <2>1. g \in DOMAIN case.specs /\ r.ver \in DOMAIN case.specs[g] /\ nodes = case.specs[g][r.ver].nodes
        /\ case \in Cases
    BY PoisedFacts, AtWork DEF Budgeted
  <2>2. s.ver = r.ver
    BY <1>0 DEF Onward
  <2>3. Compiled(nodes)
    BY <2>1, NodesCompiled
  <2> HIDE DEF r, s, nodes
  <2> QED
    BY <2>1, <2>2, <2>3 DEF Compiled
<1> HIDE DEF r, s, m, nodes
<1>2. Filed(nodes, s, m)
  <2>1. CASE s.pc = "status"
    BY <2>1 DEF Filed, Pre, Before, Walking, Pruning, Down
  <2>2. CASE s.pc # "status"
    BY <1>0, <2>2 DEF Filed, Onward, Pre, Before, Walking, Pruning, Down
  <2> QED
    BY <2>1, <2>2
<1>3. Timed(s, m, uids')
  <2>1. InTime(m, uids) /\ InTime(m, uids')
    BY <1>0, InTimeGrows DEF Timed
  <2>2. s.pc = "walk" => DOMAIN s.applied = {}
    BY <1>0 DEF Onward, Filed, Pre, Before
  <2>3. s.pc \in Closing => InTime(s.managed, uids)
    BY <1>0, <2>1 DEF Timed, Onward, Filed, Closing, Pre, Before, Down
  <2>4. s.pc \in Closing => InTime(s.managed, uids')
    BY <1>0, <2>3, InTimeGrows
  <2>5. s.pc \notin Pruning /\ (s.pc \in Walking => s.pc = "walk")
    BY <1>0 DEF Onward, Pruning, Pre, Walking
  <2> QED
    BY <2>1, <2>2, <2>4, <2>5 DEF Timed, InTime
<1>4. Walked(nodes, s)
  <2>1. CASE s.pc = "walk"
    <3>1. s.i = 1 /\ DOMAIN s.applied = {}
      BY <1>0, <2>1 DEF Onward, Filed, Pre, Before
    <3>2. s.i \in 1..(Len(nodes) + 1)
      <4>1. ASSUME NEW L \in Nat PROVE 1 \in 1..(L + 1)
        OBVIOUS
      <4> QED
        BY <1>1, <3>1, <4>1
    <3>3. \A j \in DOMAIN nodes : ~(j < s.i)
      <4>1. ASSUME NEW L \in Nat, NEW j \in 1..L PROVE ~(j < 1)
        OBVIOUS
      <4> QED
        BY <1>1, <3>1, <4>1
    <3> QED
      BY <2>1, <3>1, <3>2, <3>3 DEF Walked
  <2>2. CASE s.pc # "walk"
    BY <1>0, <2>2 DEF Walked, Onward, Walking, Pre
  <2> QED
    BY <2>1, <2>2
<1>5. ASSUME NEW o, NEW u, u # 0, NEW ok \in BOOLEAN, NEW late \in BOOLEAN,
             Tied(r, m, I, o, u, ok, late, Undisturbed)
      PROVE  Tied(s, m, I, o, u, ok, late, Undisturbed')
  <2>1. CASE s.pc = "walk"
    <3>1. DOMAIN s.applied = {} /\ r.pc = "intent2"
      BY <1>0, <2>1 DEF Onward, Filed, Pre, Before
    <3> QED
      BY <1>0, <1>5, <2>1, <3>1 DEF Tied, Walking, Pruning, Closing
  <2>2. CASE s.pc = "status"
    <3>1. m = s.managed \/ r.pc \in {"release", "releasing"}
      BY <1>0, <2>2 DEF Onward, Filed, Pre, Before, Down
    <3>2. CASE m = s.managed
      <4>1. r.pc \notin Walking \cup Pruning /\ (r.pc \in Closing => m = r.managed)
        BY <1>0, <2>2, <3>2 DEF Onward, Filed, Pre, Before, Walking, Pruning
      <4> QED
        BY <1>0, <1>5, <2>2, <3>2, <4>1 DEF Tied, Leads, Closing, Walking, Pruning
    <3>3. CASE r.pc \in {"release", "releasing"}
      BY <1>0, <1>5, <2>2, <3>3 DEF Tied, Onward, Closing, Walking, Pruning
    <3> QED
      BY <3>1, <3>2, <3>3
  <2>3. CASE s.pc \notin {"walk", "status"}
    BY <1>0, <1>5, <2>3 DEF Tied, Onward, Pre, Before, Closing, Walking, Pruning, Leads, Sure
  <2> QED
    BY <2>1, <2>2, <2>3
<1>6. s.pc \notin {"apply", "force"}
  BY <1>0 DEF Onward, Pre
<1>7. Sighted(g)'
  BY <1>6 DEF Sighted, s
<1>8. Keeps(g, r, m, I, s, m, I)
  BY <1>5 DEF Keeps
<1>9. Leaves(g, s, m, nodes)
  BY <1>2, <1>3, <1>4, <1>8 DEF Leaves, r, m, nodes
<1>10. m = graphs'[g].managed /\ nodes = case.specs[g][w'[g].ver].nodes
  BY <1>0, <1>1 DEF s
<1> QED
  BY <1>7, <1>9, <1>10, TidyNext DEF s

\* The fields Onward speaks of.
Carried == {"ver", "managed", "prev", "intent", "val", "applied", "i", "soft", "hard", "newSet", "todo"}

\* Where a run may go on to without another value for these.
Leading(r, pc) ==
    \/ r.pc \in Pre /\ pc \in Pre
    \/ r.pc \in Before /\ pc = "status"
    \/ r.pc = "intent2" /\ pc = "walk"
    \/ r.pc = "delete" /\ pc = "status"
    \/ r.pc = "delete" /\ pc = "unlink" /\ ~r.err /\ DOMAIN r.todo = {}
    \/ r.pc \in {"unlink", "unlinking"} /\ pc \in {"unlink", "unlinking", "status"}
    \/ r.pc \in {"release", "releasing"} /\ pc \in {"release", "releasing", "status"}

LEMMA MovesTidy ==
    ASSUME NEW g \in Graphs, Poised(g), Inherits(g), w[g].pc # "idle",
           NEW G, Writes(g, G), "managed" \notin G,
           NEW F, NEW pcs, Moves(g, F, pcs), F \cap Carried = {},
           \A pc \in pcs : pc = w'[g].pc => Leading(w[g], pc)
    PROVE  Tidy(g)'
<1>1. graphs'[g].managed = graphs[g].managed
  BY DEF Writes, GraphFields
<1> DEFINE r == w[g]
           s == w'[g]
<1>2. Edited(r, s, F) /\ s.pc \in pcs /\ Leading(r, s.pc)
  BY DEF Moves
<1> HIDE DEF r, s
<1>3. Onward(r, s)
  BY <1>2 DEF Onward, Edited, RunFields, Carried, Leading
<1> QED
  BY <1>1, <1>3, OnwardTidy DEF r, s

LEMMA QuietTidy ==
    ASSUME NEW g \in Graphs, Poised(g), Inherits(g),
           \/ CompileStart(g) \/ CompileEnd(g) \/ WriteAheadContributions(g)
           \/ EndDelete(g) \/ ReleaseGet(g) \/ ReleaseApply(g) \/ SettleContributions(g)
    PROVE  Tidy(g)'
<1>0. Shapes
  BY PoisedFacts
<1>1. CASE CompileStart(g)
  <2>1. /\ w[g].pc = "compile" /\ Writes(g, {}) /\ Moves(g, {"pc", "ep", "read"}, {"intent", "compiling"})
    BY <1>0, <1>1, CompileStartFacts
  <2>2. {"pc", "ep", "read"} \cap Carried = {} /\ \A pc \in {"intent", "compiling"} : Leading(w[g], pc)
    BY <2>1 DEF Leading, Pre, Carried
  <2> QED
    BY <2>1, <2>2, MovesTidy
<1>2. CASE CompileEnd(g)
  <2>1. /\ w[g].pc = "compiling" /\ Writes(g, {}) /\ Moves(g, Ended, {"status", "intent"})
    BY <1>0, <1>2, CompileEndFacts
  <2>2. Ended \cap Carried = {} /\ \A pc \in {"status", "intent"} : Leading(w[g], pc)
    BY <2>1 DEF Leading, Pre, Before, Carried, Ended
  <2> QED
    BY <2>1, <2>2, MovesTidy
<1>3. CASE WriteAheadContributions(g)
  <2>1. /\ w[g].pc = "intent2" /\ Writes(g, {"contribs"}) /\ Moves(g, Ended \cup {"contribs"}, {"status", "walk"})
    BY <1>0, <1>3, WriteAheadContributionsFacts
  <2>2. (Ended \cup {"contribs"}) \cap Carried = {} /\ \A pc \in {"status", "walk"} : Leading(w[g], pc)
    BY <2>1 DEF Leading, Before, Carried, Ended
  <2>3. "managed" \notin {"contribs"} /\ w[g].pc # "idle"
    BY <2>1
  <2> DEFINE F == Ended \cup {"contribs"}
  <2> HIDE DEF F
  <2> QED
    BY <2>1, <2>2, <2>3, MovesTidy DEF F
<1>4. CASE EndDelete(g)
  <2>1. w[g].pc = "delete" /\ Writes(g, {}) /\ Moves(g, Ended, {"status", "unlink"})
    BY <1>0, <1>4, EndDeleteFacts
  <2>2. DOMAIN w[g].todo = {} /\ (w'[g].pc = "unlink" => ~w[g].err)
    <3>1. DOMAIN w[g] = RunFields /\ g \in DOMAIN w
      BY <1>0, <2>1, RunsFacts DEF Shapes
    <3>2. CASE w[g].err
      <4> DEFINE s == [w[g] EXCEPT !.pc = "status", !.cond = "delete", !.err = TRUE]
      <4>1. w'[g] = s
        BY <1>4, <3>1, <3>2 DEF EndDelete, Return, Go
      <4>2. s.pc = "status"
        BY <3>1 DEF RunFields
      <4> QED
        BY <1>4, <4>1, <4>2 DEF EndDelete
    <3> QED
      BY <1>4, <3>2 DEF EndDelete
  <2>3. Ended \cap Carried = {} /\ \A pc \in {"status", "unlink"} : pc = w'[g].pc => Leading(w[g], pc)
    BY <2>1, <2>2 DEF Leading, Carried, Ended
  <2> QED
    BY <2>1, <2>3, MovesTidy
<1>5. CASE ReleaseGet(g) \/ ReleaseApply(g)
  <2>1. /\ w[g].pc \in {"release", "unlink", "releasing", "unlinking"} /\ Writes(g, {})
        /\ Moves(g, ReleaseFields, Releasing(w[g].pc) \cup {"status"})
    BY <1>0, <1>5, ReleaseGetFacts, ReleaseApplyFacts
  <2>2. ReleaseFields \cap Carried = {} /\ \A pc \in Releasing(w[g].pc) \cup {"status"} : Leading(w[g], pc)
    BY <2>1 DEF Leading, Releasing, Carried, Ended, ReleaseFields
  <2> QED
    BY <2>1, <2>2, MovesTidy
<1>6. CASE SettleContributions(g)
  <2>1. w[g].pc = "release" /\ Writes(g, {"contribs"}) /\ Moves(g, Ended, {"status"})
    BY <1>0, <1>6, SettleFacts
  <2>2. Ended \cap Carried = {} /\ \A pc \in {"status"} : Leading(w[g], pc)
    BY <2>1 DEF Leading, Carried, Ended
  <2>3. "managed" \notin {"contribs"} /\ w[g].pc # "idle"
    BY <2>1
  <2> QED
    BY <2>1, <2>2, <2>3, MovesTidy
<1> QED
  BY <1>1, <1>2, <1>3, <1>4, <1>5, <1>6

\* A run that is over, with the inventory it leaves.
Rests(g, r, m, I, t) ==
    \A o \in Objects : \A u : \A ok, late \in BOOLEAN :
      Mine(g, o)' /\ Mine(g, o) /\ u = objs[o].uid /\ u # 0 /\ (ok => Alone(g, o))
        /\ Tied(r, m, I, o, u, ok, late, Undisturbed)
      => /\ u = 1 /\ ok /\ ~late => Leads(t, o, u, ok)
         /\ Undisturbed' => Sure(t, o, u)

LEMMA StopsTidy ==
    ASSUME NEW g \in Graphs, Poised(g), Inherits(g), w'[g] = Idle, InTime(graphs'[g].managed, uids'),
           Rests(g, w[g], graphs[g].managed, Intended(Nodes(g)), graphs'[g].managed)
    PROVE  Tidy(g)'
<1> DEFINE r == w[g]
           t == graphs'[g].managed
           m == graphs[g].managed
           I == Intended(Nodes(g))
           nodes == case.specs[g][Idle.ver].nodes
<1>1. Idle.pc = "idle"
  BY DEF Idle
<1>2. Rests(g, r, m, I, t) /\ InTime(t, uids')
  OBVIOUS
<1> HIDE DEF r, m, I, nodes, t
<1>3. Filed(nodes, Idle, t) /\ Timed(Idle, t, uids') /\ Walked(nodes, Idle)
  BY <1>1, <1>2 DEF Filed, Timed, Walked, Pre, Before, Walking, Pruning, Closing, Down
<1>4. Keeps(g, r, m, I, Idle, t, Intended(nodes))
  <2> SUFFICES ASSUME NEW o \in Objects, NEW u, NEW ok \in BOOLEAN, NEW late \in BOOLEAN,
                      u = 1 /\ ok /\ ~late => Leads(t, o, u, ok), Undisturbed' => Sure(t, o, u)
               PROVE  Tied(Idle, t, Intended(nodes), o, u, ok, late, Undisturbed')
    BY <1>2 DEF Keeps, Rests
  <2> QED
    BY <1>1 DEF Tied, Walking, Pruning, Closing
<1>5. Sighted(g)'
  BY <1>1 DEF Sighted
<1>6. Leaves(g, Idle, t, nodes)
  BY <1>3, <1>4 DEF Leaves, r, m, I
<1> QED
  BY <1>5, <1>6, TidyNext DEF nodes, t

\* Where a run outside its cycle, or one that a fault ends, leaves the inventory alone.
LEMMA HaltsTidy ==
    ASSUME NEW g \in Graphs, Poised(g), Inherits(g), w'[g] = Idle,
           graphs'[g].managed = graphs[g].managed,
           w[g].pc \notin Walking \cup Pruning \cup Closing \/ ~Undisturbed'
    PROVE  Tidy(g)'
<1> DEFINE r == w[g]
           m == graphs[g].managed
           I == Intended(Nodes(g))
<1>1. /\ InTime(m, uids) /\ Stock /\ Grown /\ (Undisturbed' => Undisturbed)
      /\ r.pc \notin Walking \cup Pruning \cup Closing \/ ~Undisturbed'
  BY PoisedFacts DEF Timed
<1>2. InTime(m, uids')
  <2> HIDE DEF m
  <2> QED
    BY <1>1, InTimeGrows
<1> HIDE DEF r, m, I
<1>3. ASSUME NEW o, NEW u, NEW ok, NEW late, Tied(r, m, I, o, u, ok, late, Undisturbed)
      PROVE  /\ u = 1 /\ ok /\ ~late => Leads(m, o, u, ok)
             /\ Undisturbed' => Sure(m, o, u)
  BY <1>1, <1>3 DEF Tied
<1>4. Rests(g, r, m, I, m)
  BY <1>3 DEF Rests
<1> QED
  BY <1>2, <1>4, StopsTidy DEF r, m, I

LEMMA SetManagedTidy ==
    ASSUME NEW g \in Graphs, Poised(g), Inherits(g), setManaged(g) PROVE Tidy(g)'
<1>0. Shapes /\ Living(g)
  BY PoisedFacts
<1>1. /\ w[g].pc = "manage" /\ graphs'[g].managed = graphs[g].managed /\ Writes(g, {"fin"})
      /\ Stops(g) \/ Moves(g, Ended, {"status", "compile"})
  BY <1>0, SetManagedFacts, SetManagedLiving
<1>2. CASE Stops(g)
  <2>1. w[g].pc \notin Walking \cup Pruning \cup Closing /\ w'[g] = Idle
    BY <1>1, <1>2 DEF Walking, Pruning, Closing, Stops
  <2> QED
    BY <1>1, <2>1, HaltsTidy
<1>3. CASE Moves(g, Ended, {"status", "compile"})
  <2>1. Ended \cap Carried = {} /\ \A pc \in {"status", "compile"} : Leading(w[g], pc)
    BY <1>1 DEF Leading, Carried, Ended, Pre, Before
  <2>2. "managed" \notin {"fin"} /\ w[g].pc # "idle"
    BY <1>1
  <2> QED
    BY <1>1, <1>3, <2>1, <2>2, MovesTidy
<1> QED
  BY <1>1, <1>2, <1>3

\* A run at work, at its place.
LEMMA InPlace ==
    ASSUME NEW g \in Graphs, Poised(g), w[g].pc # "idle"
    PROVE  /\ Nodes(g) = case.specs[g][w[g].ver].nodes /\ Compiled(Nodes(g))
           /\ g \in DOMAIN case.specs /\ w[g].ver \in DOMAIN case.specs[g]
           /\ DOMAIN w[g] = RunFields /\ Books(case.specs[g], wrote, g, w[g])
           /\ Listing(case.specs[g], wrote, g, graphs[g].managed)
           /\ w[g].pc \in {"get", "apply", "force"} =>
                /\ w[g].i \in DOMAIN Nodes(g) /\ w[g].items \subseteq Nodes(g)[w[g].i].items
                /\ w[g].items \subseteq Objects
           /\ w[g].pc \in {"apply", "force"} => w[g].at \in Nodes(g)[w[g].i].items /\ w[g].at \in Objects
<1> DEFINE r == w[g]
           nodes == Nodes(g)
           S == case.specs[g]
<1>1. /\ nodes = S[r.ver].nodes /\ g \in DOMAIN case.specs /\ r.ver \in DOMAIN S
      /\ DOMAIN r = RunFields /\ Books(S, wrote, g, r) /\ Kempt(g)
  BY PoisedFacts, AtWork
<1>2. Compiled(nodes)
  <2>1. case \in Cases
    BY PoisedFacts DEF Budgeted
  <2> QED
    BY <1>1, <2>1, NodesCompiled
<1>3. Placed(S, g, r) /\ Listing(S, wrote, g, graphs[g].managed)
  BY <1>1 DEF Books, Kempt
<1> HIDE DEF r, nodes, S
<1>4. r.pc \in {"get", "apply", "force"} => r.i \in DOMAIN nodes /\ r.items \subseteq nodes[r.i].items
  BY <1>1, <1>3 DEF Placed
<1>5. r.pc \in {"apply", "force"} => r.at \in nodes[r.i].items
  BY <1>1, <1>3 DEF Placed
<1>6. \A i \in DOMAIN nodes : nodes[i].items \subseteq Objects
  BY <1>2 DEF Compiled
<1> QED
  BY <1>1, <1>2, <1>3, <1>4, <1>5, <1>6 DEF r, nodes, S

\* Everything that leaves the run and the inventory of g alone.
LEMMA StaysTidy ==
    ASSUME NEW g \in Graphs, Poised(g), Inherits(g), w'[g] = w[g],
           graphs'[g].managed = graphs[g].managed, Newest', Stock'
    PROVE  Tidy(g)'
<1> DEFINE r == w[g]
           m == graphs[g].managed
           I == Intended(Nodes(g))
           nodes == Nodes(g)
<1>0. /\ Filed(nodes, r, m) /\ Timed(r, m, uids) /\ Walked(nodes, r) /\ Sighted(g) /\ Stock /\ Grown
      /\ (Undisturbed' => Undisturbed) /\ wrote \subseteq wrote' /\ case' = case
  BY PoisedFacts
<1>1. nodes = case.specs[g][r.ver].nodes
  BY DEF Nodes, specOf
<1>2. Sighted(g)'
  <2> SUFFICES ASSUME r.pc \in {"apply", "force"}
               PROVE  /\ Mine(g, r.at)' => objs'[r.at].uid = r.cur.uid
                      /\ Exists(r.cur) => /\ r.cur.uid \in 1..uids'[r.at]
                                          /\ r.at \in DOMAIN m => m[r.at].uid <= r.cur.uid
    BY DEF Sighted
  <2>1. r.at \in Objects
    BY InPlace
  <2> DEFINE o == r.at
  <2>2. /\ Mine(g, o) => objs[o].uid = r.cur.uid
        /\ Exists(r.cur) => /\ r.cur.uid \in 1..uids[o]
                            /\ o \in DOMAIN m => m[o].uid <= r.cur.uid
    BY <1>0 DEF Sighted
  <2>3. Mine(g, o)' => Mine(g, o) /\ objs'[o].uid = objs[o].uid
    BY <1>0, <2>1, MineInherits
  <2>4. uids[o] \in Nat /\ uids'[o] \in Nat /\ uids[o] <= uids'[o]
    BY <1>0, <2>1 DEF Grown, Stock
  <2> HIDE DEF r, m
  <2>5. Exists(r.cur) => r.cur.uid \in 1..uids'[o]
    <3> DEFINE a == uids[o]
               b == uids'[o]
    <3> HIDE DEF a, b
    <3>1. a \in Nat /\ b \in Nat /\ a <= b /\ (Exists(r.cur) => r.cur.uid \in 1..a)
      BY <2>2, <2>4 DEF a, b
    <3>2. \A x \in 1..a : x \in 1..b
      BY <3>1
    <3> QED
      BY <3>1, <3>2 DEF b
  <2> QED
    BY <2>2, <2>3, <2>5
<1> HIDE DEF r, m, I, nodes
<1>3. Timed(r, m, uids')
  <2>1. \A l : InTime(l, uids) => InTime(l, uids')
    BY <1>0, InTimeGrows
  <2> QED
    BY <1>0, <2>1 DEF Timed
<1>4. ASSUME NEW o, NEW u, NEW ok, NEW late, Tied(r, m, I, o, u, ok, late, Undisturbed)
      PROVE  Tied(r, m, I, o, u, ok, late, Undisturbed')
  BY <1>0, <1>4 DEF Tied
<1>5. Keeps(g, r, m, I, r, m, I)
  BY <1>4 DEF Keeps
<1>6. Leaves(g, r, m, nodes)
  BY <1>0, <1>3, <1>5 DEF Leaves, r, m, I, nodes
<1> QED
  BY <1>1, <1>2, <1>6, TidyNext DEF r, m

\* The union of two inventories, as far as UIDs go.
Joins(p, a, x) ==
    /\ DOMAIN x = DOMAIN p \cup DOMAIN a
    /\ \A o \in DOMAIN a : (o \notin DOMAIN p \/ a[o].uid # 0) => x[o].uid = a[o].uid
    /\ \A o \in DOMAIN p : (o \notin DOMAIN a \/ a[o].uid = 0) => x[o].uid = p[o].uid

LEMMA UnionJoins ==
    ASSUME NEW S, NEW W, NEW g, NEW p, NEW a, Listing(S, W, g, p)
    PROVE  Joins(p, a, unionManagedResources(p, a))
<1> DEFINE x == unionManagedResources(p, a)
<1>0. DOMAIN x = DOMAIN p \cup DOMAIN a
  BY DEF unionManagedResources
<1>1. ASSUME NEW o \in DOMAIN a, o \notin DOMAIN p \/ a[o].uid # 0 PROVE x[o].uid = a[o].uid
  <2>1. CASE o \notin DOMAIN p
    BY <1>0, <2>1 DEF unionManagedResources
  <2>2. CASE o \in DOMAIN p /\ a[o].uid # 0
    <3>1. x[o] = [p[o] EXCEPT !.uid = a[o].uid]
      BY <1>0, <2>2 DEF unionManagedResources
    <3>2. DOMAIN p[o] = {"node", "uid"}
      BY <2>2 DEF Listing, Entry
    <3> QED
      BY <3>1, <3>2
  <2> QED
    BY <1>1, <2>1, <2>2
<1>2. ASSUME NEW o \in DOMAIN p, o \notin DOMAIN a \/ a[o].uid = 0 PROVE x[o].uid = p[o].uid
  <2>1. ~(o \in DOMAIN a /\ a[o].uid # 0) /\ o \in DOMAIN x
    BY <1>0, <1>2
  <2>2. x[o] = p[o]
    BY <1>0, <2>1 DEF unionManagedResources
  <2> QED
    BY <2>2
<1> HIDE DEF x
<1>3. Joins(p, a, x)
  BY <1>0, <1>1, <1>2 DEF Joins
<1> QED
  BY <1>3 DEF x

LEMMA JoinsInTime ==
    ASSUME NEW p, NEW a, NEW x, NEW k, Joins(p, a, x), InTime(p, k), InTime(a, k)
    PROVE  InTime(x, k)
<1> SUFFICES ASSUME NEW o \in DOMAIN x \cap Objects PROVE x[o].uid \in Nat /\ x[o].uid <= k[o]
  BY DEF InTime
<1>1. CASE o \in DOMAIN a /\ (o \notin DOMAIN p \/ a[o].uid # 0)
  <2>1. x[o].uid = a[o].uid
    BY <1>1 DEF Joins
  <2> QED
    BY <1>1, <2>1 DEF InTime
<1>2. CASE o \in DOMAIN p /\ (o \notin DOMAIN a \/ a[o].uid = 0)
  <2>1. x[o].uid = p[o].uid
    BY <1>2 DEF Joins
  <2> QED
    BY <1>2, <2>1 DEF InTime
<1> QED
  BY <1>1, <1>2 DEF Joins

LEMMA BeginTidy ==
    ASSUME NEW g \in Graphs, Poised(g), Inherits(g), Newest', Stock', Begin(g) PROVE Tidy(g)'
<1> DEFINE s == w'[g]
           m == graphs[g].managed
           I == Intended(Nodes(g))
           nodes == case.specs[g][s.ver].nodes
<1>0. /\ Shapes /\ (Undisturbed' => Undisturbed) /\ Timed(w[g], m, uids)
  BY PoisedFacts
<1>1. UNCHANGED <<graphs, uids>> /\ w[g] = Idle
  BY <1>0, BeginOpens
<1>2. CASE UNCHANGED w
  BY <1>1, <1>2, StaysTidy
<1>3. CASE s.pc \in {"delete", "manage", "compile", "status"} /\ NewRun(g, s)
           /\ (s.pc = "delete" => s.todo = m)
  <2>1. /\ s.prev = m /\ s.managed = m /\ s.val = NoValues(nodes) /\ m = graphs'[g].managed
        /\ s.applied = <<>> /\ s.i = 1 /\ s.soft = None /\ ~s.hard
    BY <1>1, <1>3 DEF NewRun, specOf
  <2>2. InTime(m, uids') /\ Idle.pc = "idle"
    BY <1>0, <1>1 DEF Timed, Idle
  <2>3. s.pc \in {"delete", "manage", "compile", "status"} /\ (s.pc = "delete" => s.todo = m)
    BY <1>3
  <2> HIDE DEF s, m, nodes, I
  <2>4. Filed(nodes, s, m) /\ Timed(s, m, uids') /\ Walked(nodes, s)
    BY <2>1, <2>2, <2>3 DEF Filed, Timed, Walked, Pre, Before, Walking, Pruning, Closing, Down
  <2>5. ASSUME NEW o, NEW u, NEW ok, NEW late, Tied(Idle, m, I, o, u, ok, late, Undisturbed)
        PROVE  Tied(s, m, Intended(nodes), o, u, ok, late, Undisturbed')
    BY <1>0, <2>1, <2>2, <2>3, <2>5 DEF Tied, Leads, Sure, Walking, Pruning, Closing
  <2>6. Keeps(g, Idle, m, I, s, m, Intended(nodes))
    BY <2>5 DEF Keeps
  <2>7. Leaves(g, s, m, nodes)
    BY <1>1, <2>4, <2>6 DEF Leaves, m, I
  <2>8. Sighted(g)'
    BY <2>3 DEF Sighted, s
  <2> QED
    BY <2>1, <2>7, <2>8, TidyNext DEF s, nodes
<1> QED
  BY <1>0, <1>2, <1>3, BeginOpens

\* The inventory a status update leaves: what was stored, when the call failed, the union
\* with it, when the Graph has been edited since, or the run's own.
LEMMA StatusWrites ==
    ASSUME NEW g \in Graphs, Shapes, Budgeted, case' = case, updateStatus(g)
    PROVE  \/ graphs'[g].managed = graphs[g].managed /\ ~Undisturbed'
           \/ graphs'[g].managed = unionManagedResources(graphs[g].managed, w[g].managed)
           \/ graphs'[g].managed = w[g].managed
<1> DEFINE gr == graphs[g]
           sa == IF w[g].sa = None THEN gr.sa ELSE w[g].sa
           cond == [of |-> gr.gen, is |-> w[g].cond]
           more == unionManagedResources(gr.managed, w[g].managed)
           x == [gr EXCEPT !.managed = more, !.sa = sa]
           y == [gr EXCEPT !.managed = w[g].managed, !.sa = sa, !.cond = cond]
<1>1. PICK reply \in Replies :
         /\ Spend(reply)
         /\ IF reply = "fail" THEN graphs' = graphs
            ELSE graphs' = [graphs EXCEPT ![g] = x] \/ graphs' = [graphs EXCEPT ![g] = y]
  BY DEF updateStatus
<1>2. reply = "fail" => ~Undisturbed'
  BY <1>1, Spends
<1>3. DOMAIN gr = GraphFields /\ DOMAIN graphs = Graphs
  BY DEF Shapes
<1> HIDE DEF more, sa, cond
<1>4. x.managed = more /\ y.managed = w[g].managed
  BY <1>3 DEF GraphFields
<1> HIDE DEF x, y
<1> QED
  BY <1>1, <1>2, <1>3, <1>4 DEF more

\* The status that is written at the end leads to all that the run has led to.
LEMMA UpdateStatusTidy ==
    ASSUME NEW g \in Graphs, Poised(g), Inherits(g), updateStatus(g) PROVE Tidy(g)'
<1> DEFINE r == w[g]
           m == graphs[g].managed
           t == graphs'[g].managed
           I == Intended(Nodes(g))
           more == unionManagedResources(m, r.managed)
<1>0. /\ Shapes /\ Budgeted /\ case' = case /\ Stock /\ Grown /\ (Undisturbed' => Undisturbed)
      /\ Timed(r, m, uids)
  BY PoisedFacts
<1>1. r.pc = "status" /\ w'[g] = Idle
  BY <1>0, UpdateStatusFacts DEF Stops
<1>2. Listing(case.specs[g], wrote, g, m)
  BY <1>1, InPlace
<1>3. Joins(m, r.managed, more)
  BY <1>2, UnionJoins
<1>4. (t = m /\ ~Undisturbed') \/ t = more \/ t = r.managed
  BY <1>0, StatusWrites
<1> HIDE DEF r, m, t, I, more
<1>5. InTime(m, uids) /\ InTime(r.managed, uids)
  BY <1>0, <1>1 DEF Timed, Closing
<1>6. InTime(more, uids)
  BY <1>3, <1>5, JoinsInTime
<1>7. InTime(t, uids)
  BY <1>4, <1>5, <1>6
<1>8. InTime(t, uids')
  BY <1>0, <1>7, InTimeGrows
<1>9. ASSUME NEW o, NEW u, u # 0, NEW ok, NEW late, Tied(r, m, I, o, u, ok, late, Undisturbed)
      PROVE  /\ u = 1 /\ ok /\ ~late => Leads(t, o, u, ok)
             /\ Undisturbed' => Sure(t, o, u)
  <2>1. Undisturbed' => Sure(r.managed, o, u)
    BY <1>0, <1>1, <1>9 DEF Tied, Closing, Walking, Pruning
  <2>2. u = 1 /\ ok /\ ~late => /\ Leads(m, o, u, ok)
                                /\ Sure(r.managed, o, u) \/ (Sure(r.managed, o, 0) /\ Sure(m, o, 0))
    BY <1>1, <1>9 DEF Tied, Closing
  <2>3. Sure(r.managed, o, u) => Sure(more, o, u)
    BY <1>3, <1>9 DEF Sure, Joins
  <2>4. Sure(r.managed, o, 0) /\ Sure(m, o, 0) => Sure(more, o, 0)
    BY <1>3 DEF Sure, Joins
  <2> QED
    BY <1>4, <2>1, <2>2, <2>3, <2>4 DEF Leads
<1>10. Rests(g, r, m, I, t)
  BY <1>9 DEF Rests
<1> QED
  BY <1>1, <1>8, <1>10, StopsTidy DEF r, m, I, t

\* The finalizer goes when the inventory leads to nothing any more.
LEMMA SetUnmanagedTidy ==
    ASSUME NEW g \in Graphs, Poised(g), Inherits(g), setUnmanaged(g) PROVE Tidy(g)'
<1> DEFINE r == w[g]
           m == graphs[g].managed
           t == graphs'[g].managed
           I == Intended(Nodes(g))
<1>0. /\ Shapes /\ Stock /\ Grown /\ (Undisturbed' => Undisturbed) /\ Timed(r, m, uids)
  BY PoisedFacts
<1>1. r.pc = "unlink" /\ w'[g] = Idle
  BY <1>0, SetUnmanagedFacts DEF Stops
<1>2. t = m \/ t = <<>>
  <2>1. graphs' = graphs \/ graphs' = [graphs EXCEPT ![g] = NoGraph(g)]
    BY DEF setUnmanaged
  <2>2. NoGraph(g).managed = <<>> /\ DOMAIN graphs = Graphs
    BY PoisedFacts DEF NoGraph, GraphFields
  <2> QED
    BY <2>1, <2>2
<1> HIDE DEF r, m, t, I
<1>3. InTime(t, uids')
  <2>1. InTime(m, uids) /\ InTime(<<>>, uids)
    BY <1>0 DEF Timed, InTime
  <2> QED
    BY <1>0, <1>2, <2>1, InTimeGrows
<1>4. ASSUME NEW o, NEW u, NEW ok, NEW late, Tied(r, m, I, o, u, ok, late, Undisturbed)
      PROVE  /\ u = 1 /\ ok /\ ~late => Leads(t, o, u, ok)
             /\ Undisturbed' => Sure(t, o, u)
  BY <1>0, <1>1, <1>4 DEF Tied, Leads, Walking, Pruning, Closing
<1>5. Rests(g, r, m, I, t)
  BY <1>4 DEF Rests
<1> QED
  BY <1>1, <1>3, <1>5, StopsTidy DEF r, m, I, t

\* The write-ahead, in full: the union is stored, or it is not and the run fails, or
\* there was nothing to add.  (x is the intent, y the union with what is stored.)
Foresees(r, s, m, t, x, y) ==
    /\ s.ver = r.ver /\ s.prev = r.prev /\ s.val = r.val /\ s.applied = r.applied /\ s.i = r.i
    /\ s.soft = r.soft /\ s.hard = r.hard /\ s.intent = x
    /\ \/ s.pc = "intent2" /\ s.managed = y /\ t = y
       \/ s.pc = "status" /\ s.managed = y /\ ~Undisturbed' /\ (t = y \/ t = m)
       \/ /\ s.pc = "intent2" /\ s.managed = r.managed /\ t = m
          /\ ~(Cardinality(DOMAIN x) > Cardinality(DOMAIN r.prev))

LEMMA WriteAheadForesees ==
    ASSUME NEW g \in Graphs, Shapes, Budgeted, case' = case, WriteAheadManaged(g),
           NEW x, x = unionManagedResources(w[g].prev, intendedManagedResources(Nodes(g), w[g].val)),
           NEW y, y = unionManagedResources(graphs[g].managed, x)
    PROVE  Foresees(w[g], w'[g], graphs[g].managed, graphs'[g].managed, x, y)
<1> DEFINE m == graphs[g].managed
           r == [w[g] EXCEPT !.intent = x]
           s == [r EXCEPT !.pc = "intent2", !.managed = y]
           f == [r EXCEPT !.managed = y, !.pc = "status", !.cond = "failed", !.err = TRUE]
           u == [r EXCEPT !.pc = "intent2"]
           F == Ended \cup {"intent", "managed"}
           new == [graphs[g] EXCEPT !.managed = y]
           small == ~(Cardinality(DOMAIN x) > Cardinality(DOMAIN w[g].prev))
<1>0. w[g].pc = "intent" /\ Moves(g, F, {"status", "intent2"})
  BY WriteAheadManagedFacts
<1>1. \/ \E reply \in Replies : WriteGraph(g, new, reply) /\ (IF reply = "ok" THEN Go(g, s) ELSE Go(g, f))
      \/ small /\ Go(g, u) /\ UNCHANGED graphs
  BY DEF WriteAheadManaged, Return
<1>2. DOMAIN w[g] = RunFields /\ DOMAIN graphs[g] = GraphFields /\ DOMAIN graphs = Graphs /\ DOMAIN w = Graphs
  BY <1>0, RunsFacts DEF Shapes
<1>3. /\ s.pc = "intent2" /\ s.intent = x /\ s.managed = y
      /\ f.pc = "status" /\ f.intent = x /\ f.managed = y
      /\ u.pc = "intent2" /\ u.intent = x /\ u.managed = w[g].managed
      /\ new.managed = y
  BY <1>2 DEF RunFields, GraphFields
<1> HIDE DEF r, s, f, u, new, small
<1>4. \A h : Go(g, h) => w'[g] = h
  BY <1>2 DEF Go
<1>5. \A reply : WriteGraph(g, new, reply) =>
         /\ Spend(reply)
         /\ graphs'[g].managed = m \/ graphs'[g].managed = y
         /\ reply = "ok" => graphs'[g].managed = y
  BY <1>2, <1>3 DEF WriteGraph
<1>6. /\ w'[g].ver = w[g].ver /\ w'[g].prev = w[g].prev /\ w'[g].val = w[g].val
      /\ w'[g].applied = w[g].applied /\ w'[g].i = w[g].i /\ w'[g].soft = w[g].soft /\ w'[g].hard = w[g].hard
  BY <1>0 DEF Moves, Edited, RunFields, Ended
<1>7. CASE \E reply \in Replies : WriteGraph(g, new, reply) /\ (IF reply = "ok" THEN Go(g, s) ELSE Go(g, f))
  <2>1. PICK reply \in Replies : WriteGraph(g, new, reply) /\ (IF reply = "ok" THEN Go(g, s) ELSE Go(g, f))
    BY <1>7
  <2>2. reply # "ok" => ~Undisturbed'
    BY <1>5, <2>1, Spends
  <2>3. \/ w'[g] = s /\ graphs'[g].managed = y
        \/ w'[g] = f /\ ~Undisturbed' /\ (graphs'[g].managed = y \/ graphs'[g].managed = m)
    BY <1>4, <1>5, <2>1, <2>2
  <2> QED
    BY <1>3, <1>6, <2>3 DEF Foresees
<1>8. CASE small /\ Go(g, u) /\ UNCHANGED graphs
  BY <1>3, <1>4, <1>6, <1>8 DEF Foresees, small
<1> QED
  BY <1>1, <1>7, <1>8

\* The union with the intent has the UIDs of what is stored, and none for the rest.
Widens(m, x, I) ==
    /\ DOMAIN x = DOMAIN m \cup I
    /\ \A o \in DOMAIN m : x[o].uid = m[o].uid
    /\ \A o \in I \ DOMAIN m : x[o].uid = 0

LEMMA WriteAheadManagedTidy ==
    ASSUME NEW g \in Graphs, Poised(g), Inherits(g), WriteAheadManaged(g) PROVE Tidy(g)'
<1> DEFINE r == w[g]
           s == w'[g]
           m == graphs[g].managed
           t == graphs'[g].managed
           nodes == Nodes(g)
           I == Intended(nodes)
           S == case.specs[g]
           i == intendedManagedResources(nodes, r.val)
           x == unionManagedResources(r.prev, i)
           y == unionManagedResources(m, x)
<1>0. /\ Shapes /\ Budgeted /\ case' = case /\ Stock /\ Grown /\ (Undisturbed' => Undisturbed)
      /\ Timed(r, m, uids) /\ Filed(nodes, r, m) /\ Versions
  BY PoisedFacts
<1>1. r.pc = "intent"
  BY <1>0, WriteAheadManagedFacts
<1>2. /\ nodes = S[r.ver].nodes /\ g \in DOMAIN case.specs /\ r.ver \in DOMAIN S
      /\ Listing(S, wrote, g, m)
  BY <1>1, InPlace
<1>3. Foresees(r, s, m, t, x, y)
  BY <1>0, WriteAheadForesees
<1>4. m = r.prev /\ m = r.managed /\ r.val = NoValues(nodes) /\ r.applied = <<>> /\ r.i = 1 /\ r.soft = None /\ ~r.hard
  BY <1>0, <1>1 DEF Filed, Pre, Before
<1>5. DOMAIN i = I /\ \A o \in I : i[o].uid = 0
  BY <1>4, IntendedIs DEF Intended
<1>6. Listing(S, wrote, g, i)
  BY <1>2, IntendedListing
<1>7. Joins(m, i, x) /\ Joins(m, x, y)
  BY <1>2, <1>4, UnionJoins
<1>8. Listing(S, wrote, g, x)
  BY <1>2, <1>4, <1>6, UnionListing
<1>9. \A o \in DOMAIN x : o \in Objects
  BY <1>0, <1>2, <1>8, RenderedAreObjects DEF Listing, Entry
<1>10. s.ver = r.ver
  BY <1>3 DEF Foresees
<1>11. nodes = case.specs[g][s.ver].nodes
  BY <1>2, <1>10
<1> HIDE DEF r, s, m, t, nodes, I, S, i, x, y
<1>12. Widens(m, x, I)
  BY <1>5, <1>7 DEF Joins, Widens
<1>13. Widens(m, y, I) /\ Alike(y, x)
  BY <1>7, <1>12 DEF Joins, Widens, Alike
<1>14. InTime(m, uids) /\ InTime(m, uids')
  BY <1>0, InTimeGrows DEF Timed
<1>15. InTime(y, uids')
  <2> SUFFICES ASSUME NEW o \in DOMAIN y \cap Objects PROVE y[o].uid \in Nat /\ y[o].uid <= uids'[o]
    BY DEF InTime
  <2>1. uids'[o] \in Nat
    BY <1>0 DEF Grown
  <2>2. CASE o \in DOMAIN m
    BY <1>13, <1>14, <2>2 DEF Widens, InTime
  <2>3. CASE o \notin DOMAIN m
    <3>1. y[o].uid = 0
      BY <1>13, <2>3 DEF Widens
    <3> QED
      BY <2>1, <3>1
  <2> QED
    BY <2>2, <2>3
<1>16. ASSUME ~(Cardinality(DOMAIN x) > Cardinality(DOMAIN m)) PROVE DOMAIN x = DOMAIN m
  <2>1. IsFiniteSet(DOMAIN x)
    <3>1. DOMAIN x \in SUBSET Objects
      BY <1>9
    <3> QED
      BY <3>1, FS_Subset, ExecutorAssumption
  <2>2. DOMAIN m \in SUBSET DOMAIN x
    BY <1>12 DEF Widens
  <2>3. IsFiniteSet(DOMAIN m) /\ Cardinality(DOMAIN m) <= Cardinality(DOMAIN x)
        /\ (Cardinality(DOMAIN x) = Cardinality(DOMAIN m) => DOMAIN x = DOMAIN m)
    BY <2>1, <2>2, FS_Subset
  <2>4. Cardinality(DOMAIN x) \in Nat /\ Cardinality(DOMAIN m) \in Nat
    BY <2>1, <2>3, FS_CardinalityType
  <2>5. Cardinality(DOMAIN x) = Cardinality(DOMAIN m)
    BY <1>16, <2>3, <2>4
  <2> QED
    BY <2>3, <2>5
<1>17. \/ s.pc = "intent2" /\ s.managed = t /\ Widens(m, t, I) /\ Alike(t, x) /\ InTime(t, uids') /\ I \subseteq DOMAIN t
       \/ s.pc = "status" /\ s.managed = y /\ ~Undisturbed' /\ (t = y \/ t = m)
  <2>1. CASE s.pc = "intent2" /\ s.managed = y /\ t = y
    BY <1>13, <1>15, <2>1 DEF Widens
  <2>2. CASE s.pc = "status" /\ s.managed = y /\ ~Undisturbed' /\ (t = y \/ t = m)
    BY <1>13, <2>2 DEF Widens
  <2>3. CASE s.pc = "intent2" /\ s.managed = r.managed /\ t = m /\ ~(Cardinality(DOMAIN x) > Cardinality(DOMAIN r.prev))
    <3>1. DOMAIN x = DOMAIN m
      BY <1>4, <1>16, <2>3
    <3> QED
      BY <1>4, <1>12, <1>14, <2>3, <3>1 DEF Widens, Alike
  <2> QED
    BY <1>3, <2>1, <2>2, <2>3 DEF Foresees
<1>18. /\ s.prev = m /\ s.val = r.val /\ s.applied = <<>> /\ s.i = 1 /\ s.soft = None /\ ~s.hard /\ s.intent = x
  BY <1>3, <1>4 DEF Foresees
<1>19. Filed(nodes, s, t) /\ Walked(nodes, s)
  BY <1>17, <1>18 DEF Filed, Walked, Pre, Before, Walking, Pruning, Closing, Down, Widens, I
<1>20. Timed(s, t, uids')
  BY <1>14, <1>15, <1>17 DEF Timed, Walking, Pruning, Closing
<1>21. ASSUME NEW o, NEW u, NEW ok, NEW late, Tied(r, m, I, o, u, ok, late, Undisturbed)
       PROVE  Tied(s, t, I, o, u, ok, late, Undisturbed')
  <2>1. \A v : Sure(m, o, v) => Sure(t, o, v) /\ Sure(y, o, v)
    BY <1>13, <1>17 DEF Widens, Sure
  <2>2. (u = 1 /\ ok /\ ~late => Leads(m, o, u, ok)) /\ (Undisturbed' => Sure(m, o, u))
    BY <1>0, <1>1, <1>21 DEF Tied, Walking, Pruning, Closing
  <2>3. CASE s.pc = "intent2"
    BY <2>1, <2>2, <2>3 DEF Tied, Leads, Walking, Pruning, Closing
  <2>4. CASE s.pc = "status" /\ s.managed = y /\ ~Undisturbed' /\ (t = y \/ t = m)
    BY <2>1, <2>2, <2>4 DEF Tied, Leads, Walking, Pruning, Closing
  <2> QED
    BY <1>17, <2>3, <2>4
<1>22. Keeps(g, r, m, I, s, t, I)
  BY <1>21 DEF Keeps
<1>23. Leaves(g, s, t, nodes)
  BY <1>19, <1>20, <1>22 DEF Leaves, r, m, I, nodes
<1>24. Sighted(g)'
  BY <1>17 DEF Sighted, s
<1> QED
  BY <1>11, <1>23, <1>24, TidyNext DEF s, t

LEMMA IgnoredValues ==
    ASSUME NEW nodes, NEW val, Len(nodes) \in Nat, NEW k \in 1..Len(nodes)
    PROVE  IsIgnored(nodes, val)[k] \subseteq {"yes", "pending", "no"}
<1> DEFINE f == IsIgnored(nodes, val)
           T == {i \in 1..Len(nodes) : ~(f[i] \subseteq {"yes", "pending", "no"})}
<1>1. \A i \in 1..Len(nodes) : f[i] = Decides(nodes, val, f, i)
  <2>1. f = [i \in 1..Len(nodes) |-> Decides(nodes, val, f, i)]
    BY IgnoredDecides
  <2> HIDE DEF f
  <2> QED
    BY <2>1
<1> HIDE DEF f
<1>2. ASSUME T # {} PROVE FALSE
  <2>0. T \in SUBSET Nat
    OBVIOUS
  <2>1. PICK i \in T : \A y \in T : i <= y
    BY <1>2, <2>0, Least
  <2> DEFINE J == {j \in 1..(i - 1) : nodes[j].id \in nodes[i].deps}
             D == {f[j] : j \in J}
  <2>2. \A j \in J : f[j] \subseteq {"yes", "pending", "no"}
    <3> SUFFICES ASSUME NEW j \in J PROVE f[j] \subseteq {"yes", "pending", "no"}
      OBVIOUS
    <3>1. j \in 1..Len(nodes) /\ ~(i <= j)
      OBVIOUS
    <3> QED
      BY <2>1, <3>1
  <2>3. \A d \in D : d \subseteq {"yes", "pending", "no"}
    BY <2>2
  <2>4. f[i] = Decides(nodes, val, f, i)
    BY <1>1
  <2>5. (UNION D) \ {"no"} \subseteq {"yes", "pending", "no"}
    BY <2>3
  <2>6. \/ Decides(nodes, val, f, i) \in {{"yes"}, {"pending"}, {"no"}}
        \/ Decides(nodes, val, f, i) = (UNION D) \ {"no"}
    BY DEF Decides
  <2> HIDE DEF D
  <2>7. f[i] \subseteq {"yes", "pending", "no"}
    BY <2>4, <2>5, <2>6
  <2> QED
    BY <2>7
<1> QED
  BY <1>2 DEF f

\* What is skipped with a node are the nodes of its subgraph.
LEMMA SkipFacts ==
    ASSUME NEW nodes, Len(nodes) \in Nat, NEW i \in 1..Len(nodes)
    PROVE  /\ Skip(nodes, i) \in (i + 1)..(Len(nodes) + 1)
           /\ \A j \in (i + 1)..Len(nodes) : j < Skip(nodes, i) => nodes[j].frame = nodes[i].id
<1> DEFINE N == Len(nodes)
           T == {j \in (i + 1)..(N + 1) : j > N \/ nodes[j].frame # nodes[i].id}
<1>1. Skip(nodes, i) = CHOOSE x \in T : \A y \in T : x <= y
  BY DEF Skip, Min
<1>2. N + 1 \in T /\ T \in SUBSET Nat
  OBVIOUS
<1>3. \E x \in T : \A y \in T : x <= y
  BY <1>2, Least
<1>4. Skip(nodes, i) \in T /\ \A y \in T : Skip(nodes, i) <= y
  BY <1>1, <1>3
<1> DEFINE k == Skip(nodes, i)
<1>5. k \in T /\ \A y \in T : k <= y
  BY <1>4
<1> HIDE DEF k
<1>6. ASSUME NEW j \in (i + 1)..N, j < k PROVE nodes[j].frame = nodes[i].id
  <2>1. j \notin T
    BY <1>5, <1>6
  <2> QED
    BY <2>1
<1> QED
  BY <1>5, <1>6 DEF k

\* A node is entered, in full.
Enters(nodes, r, s) ==
    /\ \/ s.pc = "walk" /\ s.i = Skip(nodes, r.i) /\ s.soft = r.soft /\ IsIgnored(nodes, r.val)[r.i] # {"no"}
       \/ s.pc = "walk" /\ s.i = Skip(nodes, r.i) /\ s.soft # None
       \/ s.pc = "walk" /\ s.i = r.i + 1 /\ s.soft = r.soft /\ (nodes[r.i].kind = "graph" \/ nodes[r.i].items = {})
       \/ s.pc = "get" /\ s.i = r.i /\ s.soft = r.soft /\ nodes[r.i].kind # "graph" /\ s.items = nodes[r.i].items

LEMMA EnterNodeEnters ==
    ASSUME NEW g \in Graphs, Poised(g), EnterNode(g) PROVE Enters(Nodes(g), w[g], w'[g])
<1> DEFINE n == NodeAt(g)
           nodes == Nodes(g)
           skip == Skip(Nodes(g), w[g].i)
           ignored == IsIgnored(Nodes(g), w[g].val)[w[g].i]
           over == [w[g] EXCEPT !.i = skip]
           late == Unresolved(over, n.id, "pending")
           unknown == Unresolved(over, n.id, "notready")
           into == [w[g] EXCEPT !.i = w[g].i + 1]
           decl == IF n.kind = "template" /\ n.coll
                   THEN w[g].decl \union Watching(w[g].user, n.items, TRUE) ELSE w[g].decl
           begun == [w[g] EXCEPT !.pc = "get", !.items = n.items, !.decl = decl]
           graph == n.kind = "graph"
<1>0. w[g].pc = "walk" /\ w[g].i \in DOMAIN Nodes(g)
  BY DEF EnterNode
<1>1. DOMAIN w[g] = RunFields /\ Compiled(nodes) /\ DOMAIN w = Graphs
  BY <1>0, InPlace, PoisedFacts
<1>2. PICK ign \in ignored :
         Go(g, CASE ign = "yes" -> over
                 [] ign = "pending" -> late
                 [] ign = "no" /\ graph -> into
                 [] ign = "no" /\ n.kind # "graph" /\ Resolves(n, w[g].val) /\ n.items = {} -> into
                 [] ign = "no" /\ n.kind # "graph" /\ ~Resolves(n, w[g].val) -> late
                 [] ign = "no" /\ n.kind \in {"template", "ref"} /\ n.dyn
                      /\ Resolves(n, w[g].val) /\ \E o \in n.items : ~Served(o) -> unknown
                 [] OTHER -> begun)
  BY DEF EnterNode
<1>3. ign \in {"yes", "pending", "no"}
  <2>1. Len(nodes) \in Nat /\ w[g].i \in 1..Len(nodes)
    BY <1>0, <1>1 DEF Compiled
  <2>2. ignored \subseteq {"yes", "pending", "no"}
    BY <2>1, IgnoredValues
  <2> QED
    BY <1>2, <2>2
<1>4. ign = "yes" => ignored # {"no"}
  BY <1>2
<1>5. n = nodes[w[g].i]
  BY DEF NodeAt
<1> HIDE DEF n, nodes, skip, decl, ignored
<1>6. over.i = skip /\ over.pc = "walk" /\ DOMAIN over = RunFields /\ over.soft = w[g].soft
  BY <1>0, <1>1 DEF RunFields
<1>7. into.i = w[g].i + 1 /\ into.pc = "walk" /\ into.soft = w[g].soft
  BY <1>0, <1>1 DEF RunFields
<1>8. begun.i = w[g].i /\ begun.pc = "get" /\ begun.items = n.items /\ begun.soft = w[g].soft
  BY <1>1 DEF RunFields
<1> HIDE DEF over, into, begun
<1>9. /\ late.i = skip /\ late.pc = "walk" /\ late.soft # None
      /\ unknown.i = skip /\ unknown.pc = "walk" /\ unknown.soft # None
  <2>1. \A old : recordSoft(old, "pending") # None /\ recordSoft(old, "notready") # None
    BY DEF recordSoft, None
  <2> DEFINE a == recordSoft(over.soft, "pending")
             b == recordSoft(over.soft, "notready")
  <2>2. /\ late = [over EXCEPT !.unres = over.unres \union {n.id}, !.soft = a]
        /\ unknown = [over EXCEPT !.unres = over.unres \union {n.id}, !.soft = b]
    BY DEF Unresolved
  <2> HIDE DEF a, b, late, unknown
  <2>3. late.soft = a /\ unknown.soft = b /\ late.i = skip /\ late.pc = "walk" /\ unknown.i = skip /\ unknown.pc = "walk"
    BY <1>6, <2>2 DEF RunFields
  <2> QED
    BY <2>1, <2>3 DEF a, b
<1> HIDE DEF late, unknown
<1>10. \/ Go(g, over) /\ ign = "yes"
       \/ Go(g, late) \/ Go(g, unknown)
       \/ Go(g, into) /\ (graph \/ n.items = {})
       \/ Go(g, begun) /\ ~graph
  <2> HIDE DEF graph
  <2>1. n.kind # "graph" <=> ~graph
    BY DEF graph
  <2>2. CASE ign = "yes"
    BY <1>2, <2>2
  <2>3. CASE ign = "pending"
    BY <1>2, <2>3
  <2>4. CASE ign = "no"
    BY <1>2, <2>1, <2>4
  <2> QED
    BY <1>3, <2>2, <2>3, <2>4
<1>11. \A h : Go(g, h) => w'[g] = h
  BY <1>1 DEF Go
<1>12. CASE Go(g, over) /\ ign = "yes"
  BY <1>4, <1>6, <1>11, <1>12 DEF Enters, skip, nodes, ignored
<1>13. CASE Go(g, late) \/ Go(g, unknown)
  BY <1>9, <1>11, <1>13 DEF Enters, skip, nodes
<1>14. CASE Go(g, into) /\ (graph \/ n.items = {})
  BY <1>5, <1>7, <1>11, <1>14 DEF Enters, nodes
<1>15. CASE Go(g, begun) /\ ~graph
  BY <1>5, <1>8, <1>11, <1>15 DEF Enters, nodes
<1> QED
  BY <1>10, <1>12, <1>13, <1>14, <1>15

\* A walk goes on, and has applied nothing more.
LEMMA StrollsTidy ==
    ASSUME NEW g \in Graphs, Poised(g), Inherits(g), graphs'[g].managed = graphs[g].managed,
           w[g].pc \in Walking, w'[g].pc \in Walking,
           NEW F, NEW pcs, Moves(g, F, pcs), F \cap {"ver", "prev", "intent", "applied"} = {},
           Walked(Nodes(g), w'[g]), Sighted(g)'
    PROVE  Tidy(g)'
<1> DEFINE r == w[g]
           s == w'[g]
           m == graphs[g].managed
           nodes == Nodes(g)
           I == Intended(nodes)
<1>0. /\ Filed(nodes, r, m) /\ Timed(r, m, uids) /\ Stock /\ Grown /\ (Undisturbed' => Undisturbed)
  BY PoisedFacts
<1>1. r.pc \in Walking /\ s.pc \in Walking /\ Walked(nodes, s) /\ m = graphs'[g].managed
  OBVIOUS
<1>2. s.ver = r.ver /\ s.prev = r.prev /\ s.intent = r.intent /\ s.applied = r.applied
  BY DEF Moves, Edited, RunFields
<1>3. nodes = case.specs[g][s.ver].nodes
  BY <1>2 DEF Nodes, specOf
<1> HIDE DEF r, s, m, nodes, I
<1>4. Filed(nodes, s, m)
  BY <1>0, <1>1, <1>2 DEF Filed, Pre, Before, Walking, Pruning, Down
<1>5. Timed(s, m, uids')
  <2>1. InTime(m, uids') /\ InTime(s.applied, uids')
    BY <1>0, <1>1, <1>2, InTimeGrows DEF Timed
  <2> QED
    BY <1>1, <2>1 DEF Timed, Walking, Pruning, Closing
<1>6. ASSUME NEW o, NEW u, NEW ok, NEW late, Tied(r, m, I, o, u, ok, late, Undisturbed)
      PROVE  Tied(s, m, I, o, u, ok, late, Undisturbed')
  BY <1>0, <1>1, <1>2, <1>6 DEF Tied, Walking, Pruning, Closing
<1>7. Keeps(g, r, m, I, s, m, I)
  BY <1>6 DEF Keeps
<1>8. Leaves(g, s, m, nodes)
  BY <1>1, <1>4, <1>5, <1>7 DEF Leaves, r, m, I, nodes
<1> QED
  BY <1>1, <1>3, <1>8, TidyNext DEF s, m

\* What is skipped without an error is not announced.
LEMMA EnterNodeTidy ==
    ASSUME NEW g \in Graphs, Poised(g), Inherits(g), EnterNode(g) PROVE Tidy(g)'
<1> DEFINE r == w[g]
           s == w'[g]
           nodes == Nodes(g)
           F == {"pc", "i", "unres", "soft", "items", "decl"}
<1>0. Shapes /\ Walked(nodes, r)
  BY PoisedFacts
<1>1. r.pc = "walk" /\ Writes(g, {}) /\ Moves(g, F, {"walk", "get"}) /\ r.i \in DOMAIN nodes
  BY <1>0, EnterNodeFacts DEF EnterNode
<1>2. Compiled(nodes)
  BY <1>1, InPlace
<1>3. /\ s.applied = r.applied /\ s.claims = r.claims /\ s.hard = r.hard
      /\ s.pc \in {"walk", "get"} /\ graphs'[g].managed = graphs[g].managed
  BY <1>1 DEF Moves, Edited, RunFields, Writes, GraphFields
<1>4. Enters(nodes, r, s)
  BY EnterNodeEnters
<1> HIDE DEF r, s, nodes
<1> DEFINE N == Len(nodes)
           k == r.i
           skip == Skip(nodes, k)
<1>5. N \in Nat /\ DOMAIN nodes = 1..N /\ k \in 1..N
  BY <1>1, <1>2 DEF Compiled
<1>6. /\ skip \in (k + 1)..(N + 1)
      /\ \A j \in (k + 1)..N : j < skip => nodes[j].frame = nodes[k].id
  BY <1>5, SkipFacts
<1> DEFINE Done(j) == nodes[j] \in Announced(nodes) /\ nodes[j].kind = "template" => nodes[j].items \subseteq DOMAIN r.applied
<1>7. r.soft = None /\ ~r.hard => \A j \in 1..N : j < k => Done(j)
  BY <1>0, <1>1, <1>5 DEF Walked, Walking
<1>8. ASSUME IsIgnored(nodes, r.val)[k] # {"no"}, NEW j \in 1..N, ~(j < k), j < skip PROVE Done(j)
  <2> SUFFICES ASSUME nodes[j] \in Announced(nodes) PROVE FALSE
    OBVIOUS
  <2>1. j \in DOMAIN nodes /\ k \in DOMAIN nodes
    BY <1>5
  <2>2. /\ IsIgnored(nodes, NoValues(nodes))[j] = {"no"}
        /\ nodes[k].id = nodes[j].frame => IsIgnored(nodes, NoValues(nodes))[k] = {"no"}
    BY <1>2, <2>1, AnnouncedFacts
  <2>3. j = k \/ nodes[j].frame = nodes[k].id
    <3>1. j = k \/ j \in (k + 1)..N
      BY <1>5, <1>8
    <3> QED
      BY <1>6, <1>8, <3>1
  <2>4. IsIgnored(nodes, NoValues(nodes))[k] = {"no"}
    BY <2>2, <2>3
  <2>5. IsIgnored(nodes, r.val)[k] = {"no"}
    BY <1>2, <2>1, <2>4, IncludedStays
  <2> QED
    BY <1>8, <2>5
<1> HIDE DEF N, k, skip, Done
<1>9. s.i \in 1..(N + 1) /\ ~(s.i < k) /\ (s.pc = "get" => s.i = k /\ s.items = nodes[k].items /\ nodes[k].kind # "graph")
  <2>1. CASE s.i = skip /\ s.pc = "walk"
    BY <1>5, <1>6, <2>1
  <2>2. CASE s.i = k + 1 /\ s.pc = "walk"
    BY <1>5, <2>2
  <2>3. CASE s.i = k /\ s.pc = "get" /\ s.items = nodes[k].items /\ nodes[k].kind # "graph"
    BY <1>5, <2>3
  <2> QED
    BY <1>4, <2>1, <2>2, <2>3 DEF Enters, k, skip
<1>10. ASSUME s.soft = None, ~s.hard, NEW j \in 1..N, j < s.i PROVE Done(j)
  <2>0. ~r.hard
    BY <1>3, <1>10
  <2>1. CASE s.i = skip /\ s.soft = r.soft /\ IsIgnored(nodes, r.val)[k] # {"no"}
    <3>1. CASE j < k
      BY <1>7, <1>10, <2>0, <2>1, <3>1
    <3>2. CASE ~(j < k)
      BY <1>8, <1>10, <2>1, <3>2
    <3> QED
      BY <3>1, <3>2
  <2>2. CASE s.i = k + 1 /\ s.soft = r.soft /\ (nodes[k].kind = "graph" \/ nodes[k].items = {})
    <3>1. CASE j < k
      BY <1>7, <1>10, <2>0, <2>2, <3>1
    <3>2. CASE j = k
      BY <2>2, <3>2 DEF Done
    <3>3. j < k \/ j = k
      BY <1>5, <1>10, <2>2
    <3> QED
      BY <3>1, <3>2, <3>3
  <2>3. CASE s.i = k /\ s.soft = r.soft
    BY <1>7, <1>10, <2>0, <2>3
  <2> QED
    BY <1>4, <1>10, <2>1, <2>2, <2>3 DEF Enters, k, skip
<1>11. \A o \in DOMAIN r.applied :
         /\ [obj |-> o, node |-> r.applied[o].node] \in r.claims
         /\ \E j \in DOMAIN nodes : j < k /\ nodes[j].id = r.applied[o].node
  BY <1>0, <1>1 DEF Walked, Walking, k
<1>12. \A o \in DOMAIN s.applied :
         /\ [obj |-> o, node |-> s.applied[o].node] \in s.claims
         /\ \E j \in DOMAIN nodes : /\ j < s.i \/ (j = s.i /\ s.pc # "walk")
                                    /\ nodes[j].id = s.applied[o].node
         /\ s.pc # "walk" /\ o \in s.items => s.applied[o].node # nodes[s.i].id
  <2> SUFFICES ASSUME NEW o \in DOMAIN r.applied
               PROVE  /\ [obj |-> o, node |-> r.applied[o].node] \in r.claims
                      /\ \E j \in DOMAIN nodes : /\ j < s.i \/ (j = s.i /\ s.pc # "walk")
                                                 /\ nodes[j].id = r.applied[o].node
                      /\ s.pc # "walk" => r.applied[o].node # nodes[s.i].id
    BY <1>3
  <2>1. PICK j \in DOMAIN nodes : j < k /\ nodes[j].id = r.applied[o].node
    BY <1>11
  <2>2. j < s.i
    <3>1. j \in Nat /\ k \in Nat /\ s.i \in Nat
      BY <1>5, <1>9
    <3> QED
      BY <1>9, <2>1, <3>1
  <2>3. s.pc # "walk" => s.i = k
    BY <1>3, <1>9
  <2>4. nodes[j].id # nodes[k].id
    <3>1. j \in 1..N /\ k \in 1..N /\ j # k
      BY <1>5, <2>1
    <3> QED
      BY <1>2, <1>5, <3>1 DEF Compiled
  <2> QED
    BY <1>11, <2>1, <2>2, <2>3, <2>4
<1>13. Walked(nodes, s)
  <2>1. s.pc \notin {"apply", "force"}
    BY <1>3
  <2>2. s.pc # "walk" => nodes[s.i].kind # "graph" /\ nodes[s.i].items \ s.items = {}
    BY <1>3, <1>9
  <2>3. s.soft = None /\ ~s.hard =>
          \A j \in DOMAIN nodes :
            j < s.i /\ nodes[j] \in Announced(nodes) /\ nodes[j].kind = "template"
              => nodes[j].items \subseteq DOMAIN s.applied
    BY <1>3, <1>5, <1>10 DEF Done
  <2> QED
    BY <1>9, <1>12, <2>1, <2>2, <2>3 DEF Walked, N
<1>14. Sighted(g)'
  BY <1>3 DEF Sighted, s
<1>15. w[g].pc \in Walking /\ w'[g].pc \in Walking /\ F \cap {"ver", "prev", "intent", "applied"} = {}
  BY <1>1, <1>3 DEF r, s, Walking
<1> HIDE DEF F
<1> QED
  BY <1>1, <1>3, <1>13, <1>14, <1>15, StrollsTidy DEF s, nodes

\* An item r was at, o, is over, well or not.
ItemOver(r, s, o, good) ==
    /\ \/ s.pc = "get" /\ s.i = r.i /\ s.items = r.items \ {o} /\ (s.res = {} => r.res = {} /\ good)
       \/ /\ s.pc = "walk" /\ s.i = r.i + 1 /\ r.items \ {o} = {}
          /\ s.soft = None /\ ~s.hard => r.res = {} /\ good
    /\ s.soft = None => r.soft = None
    /\ ~s.hard => ~r.hard

LEMMA ItemDoneIsOver ==
    ASSUME NEW r, DOMAIN r = RunFields, NEW n, NEW o, NEW verdict, NEW st, NEW s,
           s = ItemDone(r, n, o, verdict, st)
    PROVE  ItemOver(r, s, o, verdict = "done")
<1>1. /\ r.hard => s.hard
      /\ r.soft # None => s.soft # None
      /\ s.pc = "walk" => \/ s.hard \/ s.soft # None
                          \/ r.res = {} /\ verdict = "done"
      /\ s.pc = "get" /\ s.res = {} => r.res = {} /\ verdict = "done"
      /\ s.pc = "walk" => r.items \ {o} = {}
  BY ItemDoneVerdicts
<1>2. \/ s.pc = "get" /\ s.i = r.i /\ s.items = r.items \ {o}
      \/ s.pc = "walk" /\ s.i = r.i + 1
  BY ItemDoneValues
<1> QED
  BY <1>1, <1>2 DEF ItemOver

\* What has been applied after it: the same, or o too, for the node n that has claimed it.
Adds(r, s, n, o) ==
    \/ s.applied = r.applied
    \/ /\ n.kind = "template" /\ o \notin DOMAIN r.applied /\ [obj |-> o, node |-> n.id] \in r.claims
       /\ DOMAIN s.applied = DOMAIN r.applied \cup {o} /\ s.applied[o].node = n.id
       /\ \A p \in DOMAIN r.applied : s.applied[p] = r.applied[p]

LEMMA WalkedOn ==
    ASSUME NEW nodes, Compiled(nodes), NEW r, NEW s, Walked(nodes, r), r.pc \in {"get", "apply", "force"},
           r.i \in DOMAIN nodes, r.items \subseteq nodes[r.i].items, NEW o \in r.items,
           NEW good, ItemOver(r, s, o, good), r.claims \subseteq s.claims,
           Adds(r, s, nodes[r.i], o), good /\ nodes[r.i].kind = "template" => o \in DOMAIN s.applied
    PROVE  Walked(nodes, s)
<1> DEFINE N == Len(nodes)
           n == nodes[r.i]
<1>0. N \in Nat /\ DOMAIN nodes = 1..N /\ r.i \in 1..N
  BY DEF Compiled
<1> HIDE DEF N
<1>1. s.pc \in {"get", "walk"} /\ s.i \in 1..(N + 1) /\ (s.pc = "get" => s.i = r.i) /\ (s.pc = "walk" => s.i = r.i + 1)
  <2>1. r.i \in 1..(N + 1) /\ r.i + 1 \in 1..(N + 1)
    BY <1>0
  <2> QED
    BY <2>1 DEF ItemOver
<1>2. /\ \A p \in DOMAIN r.applied :
           /\ [obj |-> p, node |-> r.applied[p].node] \in r.claims
           /\ \E j \in DOMAIN nodes : (j < r.i \/ j = r.i) /\ nodes[j].id = r.applied[p].node
           /\ p \in r.items => r.applied[p].node # nodes[r.i].id
      /\ n.kind # "graph"
      /\ r.soft = None /\ ~r.hard =>
           /\ \A j \in DOMAIN nodes :
                j < r.i /\ nodes[j] \in Announced(nodes) /\ nodes[j].kind = "template"
                  => nodes[j].items \subseteq DOMAIN r.applied
           /\ r.res = {} /\ n.kind = "template" => n.items \ r.items \subseteq DOMAIN r.applied
  BY DEF Walked, Walking
<1>3. DOMAIN r.applied \subseteq DOMAIN s.applied
  BY DEF Adds
<1>4. ASSUME NEW p \in DOMAIN s.applied
      PROVE  /\ [obj |-> p, node |-> s.applied[p].node] \in s.claims
             /\ \E j \in DOMAIN nodes : (j < r.i \/ j = r.i) /\ nodes[j].id = s.applied[p].node
             /\ s.pc = "get" /\ p \in s.items => s.applied[p].node # nodes[r.i].id
  <2>1. CASE p \in DOMAIN r.applied
    <3>1. s.applied[p] = r.applied[p]
      BY <2>1 DEF Adds
    <3>2. s.pc = "get" /\ p \in s.items => p \in r.items
      BY DEF ItemOver
    <3> QED
      BY <1>2, <2>1, <3>1, <3>2
  <2>2. CASE p \notin DOMAIN r.applied
    <3>1. p = o /\ s.applied[o].node = n.id /\ [obj |-> o, node |-> n.id] \in r.claims
      BY <2>2 DEF Adds
    <3>2. s.pc = "get" => o \notin s.items
      BY DEF ItemOver
    <3> QED
      BY <3>1, <3>2
  <2> QED
    BY <2>1, <2>2
<1>5. \A j \in DOMAIN nodes : j < r.i \/ j = r.i => j < s.i \/ (j = s.i /\ s.pc # "walk")
  <2> SUFFICES ASSUME NEW j \in 1..N, j < r.i \/ j = r.i PROVE j < s.i \/ (j = s.i /\ s.pc # "walk")
    BY <1>0
  <2>1. CASE s.pc = "get"
    BY <1>1, <2>1
  <2>2. CASE s.pc = "walk"
    BY <1>0, <1>1, <2>2
  <2> QED
    BY <1>1, <2>1, <2>2
<1>6. ASSUME s.soft = None, ~s.hard
      PROVE  /\ \A j \in DOMAIN nodes :
                  j < s.i /\ nodes[j] \in Announced(nodes) /\ nodes[j].kind = "template"
                    => nodes[j].items \subseteq DOMAIN s.applied
             /\ s.pc = "get" /\ s.res = {} /\ n.kind = "template" => n.items \ s.items \subseteq DOMAIN s.applied
  <2>1. r.soft = None /\ ~r.hard
    BY <1>6 DEF ItemOver
  <2>2. s.pc = "get" /\ s.res = {} => r.res = {} /\ good /\ s.items = r.items \ {o}
    BY DEF ItemOver
  <2>3. s.pc = "walk" => r.res = {} /\ good /\ r.items \ {o} = {}
    BY <1>6 DEF ItemOver
  <2>4. r.res = {} /\ good /\ n.kind = "template" => n.items \ (r.items \ {o}) \subseteq DOMAIN s.applied
    BY <1>2, <1>3, <2>1
  <2>5. s.pc = "get" /\ s.res = {} /\ n.kind = "template" => n.items \ s.items \subseteq DOMAIN s.applied
    BY <2>2, <2>4
  <2>6. s.pc = "walk" /\ n.kind = "template" => n.items \subseteq DOMAIN s.applied
    BY <2>3, <2>4
  <2>7. ASSUME NEW j \in DOMAIN nodes, j < s.i, nodes[j] \in Announced(nodes), nodes[j].kind = "template"
        PROVE  nodes[j].items \subseteq DOMAIN s.applied
    <3>1. j < r.i \/ (j = r.i /\ s.pc = "walk")
      <4>1. j \in 1..N
        BY <1>0
      <4>2. CASE s.pc = "get"
        BY <1>1, <2>7, <4>2
      <4>3. CASE s.pc = "walk"
        BY <1>0, <1>1, <2>7, <4>1, <4>3
      <4> QED
        BY <1>1, <4>2, <4>3
    <3>2. CASE j < r.i
      BY <1>2, <1>3, <2>1, <2>7, <3>2
    <3>3. CASE j = r.i /\ s.pc = "walk"
      BY <2>6, <2>7, <3>3
    <3> QED
      BY <3>1, <3>2, <3>3
  <2> QED
    BY <2>5, <2>7
<1>7. \A p \in DOMAIN s.applied :
           /\ [obj |-> p, node |-> s.applied[p].node] \in s.claims
           /\ \E j \in DOMAIN nodes : /\ j < s.i \/ (j = s.i /\ s.pc # "walk")
                                      /\ nodes[j].id = s.applied[p].node
           /\ s.pc # "walk" /\ p \in s.items => s.applied[p].node # nodes[s.i].id
  <2> SUFFICES ASSUME NEW p \in DOMAIN s.applied
               PROVE  /\ [obj |-> p, node |-> s.applied[p].node] \in s.claims
                      /\ \E j \in DOMAIN nodes : /\ j < s.i \/ (j = s.i /\ s.pc # "walk")
                                                 /\ nodes[j].id = s.applied[p].node
                      /\ s.pc # "walk" /\ p \in s.items => s.applied[p].node # nodes[s.i].id
    OBVIOUS
  <2>1. PICK j \in DOMAIN nodes : (j < r.i \/ j = r.i) /\ nodes[j].id = s.applied[p].node
    BY <1>4
  <2>2. j < s.i \/ (j = s.i /\ s.pc # "walk")
    BY <1>5, <2>1
  <2> QED
    BY <1>1, <1>4, <2>1, <2>2
<1> QED
  BY <1>1, <1>2, <1>6, <1>7 DEF Walked, N

\* An item is looked at, in full: it is applied next, or is over.
Looks(r, s, n, o, live) ==
    /\ r.claims \subseteq s.claims
    /\ \/ /\ s.pc = "apply" /\ s.at = o /\ s.cur = live /\ s.i = r.i /\ s.items = r.items
          /\ s.res = r.res /\ s.soft = r.soft /\ s.hard = r.hard
          /\ n.kind \in {"template", "patch"}
          /\ n.kind = "template" => ~claimed(r.claims, o, n.id) /\ [obj |-> o, node |-> n.id] \in s.claims
       \/ ItemOver(r, s, o, n.kind = "ref")

LEMMA GetLiveLooks ==
    ASSUME NEW g \in Graphs, Shapes, GetLive(g), NodeAt(g).kind \in {"template", "patch", "ref"}
    PROVE  \E o \in w[g].items : Looks(w[g], w'[g], NodeAt(g), o, objs[o])
<1> DEFINE n == NodeAt(g)
           clash(o) == n.kind = "template" /\ claimed(w[g].claims, o, n.id)
           unmapped(o) == n.kind = "patch" /\ n.dyn /\ ~Served(o)
           guard(o) == CASE n.kind = "template" -> templateGuard(objs[o], g)
                         [] n.kind = "patch" -> patchGuard(objs[o])
                         [] n.kind = "ref" -> IF Exists(objs[o]) THEN "read" ELSE "notready"
           verdict(o, reply) ==
                   IF clash(o) THEN "hard" ELSE IF unmapped(o) THEN "schema"
                   ELSE IF ~May(w[g].user, o) \/ ~Served(o) \/ reply = "fail" THEN "hard"
                   ELSE guard(o)
           c(o) == IF n.kind = "template" /\ ~clash(o)
                   THEN w[g].claims \union {[obj |-> o, node |-> n.id]} ELSE w[g].claims
           d(o) == IF clash(o) \/ unmapped(o) \/ (n.kind = "template" /\ n.coll)
                   THEN w[g].decl ELSE w[g].decl \union Watching(w[g].user, {o}, FALSE)
           r(o) == [w[g] EXCEPT !.claims = c(o), !.decl = d(o)]
<1>1. PICK o \in w[g].items : \E reply \in Replies \ {"lost"} :
         Go(g, CASE verdict(o, reply) = "go" -> [r(o) EXCEPT !.pc = "apply", !.at = o, !.cur = objs[o]]
                 [] verdict(o, reply) = "read" -> ItemDone(r(o), n, o, "done", objs[o].st)
                 [] OTHER -> ItemDone(r(o), n, o, verdict(o, reply), None))
  BY ZenonT(60) DEF GetLive
<1>2. PICK reply \in Replies \ {"lost"} :
         Go(g, CASE verdict(o, reply) = "go" -> [r(o) EXCEPT !.pc = "apply", !.at = o, !.cur = objs[o]]
                 [] verdict(o, reply) = "read" -> ItemDone(r(o), n, o, "done", objs[o].st)
                 [] OTHER -> ItemDone(r(o), n, o, verdict(o, reply), None))
  BY <1>1
<1> DEFINE v == verdict(o, reply)
           x == r(o)
           y == [x EXCEPT !.pc = "apply", !.at = o, !.cur = objs[o]]
           z == ItemDone(x, n, o, "done", objs[o].st)
           f == ItemDone(x, n, o, v, None)
<1>3. Go(g, CASE v = "go" -> y [] v = "read" -> z [] OTHER -> f)
  BY <1>2
<1>4. /\ v # "done" /\ (v = "read" => n.kind = "ref")
      /\ v = "go" => n.kind \in {"template", "patch"} /\ ~clash(o)
  <2>1. /\ guard(o) # "done" /\ (guard(o) = "read" => n.kind = "ref")
        /\ guard(o) = "go" => n.kind \in {"template", "patch"}
    <3>1. CASE n.kind = "template"
      <4>1. guard(o) = templateGuard(objs[o], g)
        BY <3>1
      <4>2. templateGuard(objs[o], g) \in {"deleting", "hard", "conflict", "go"}
        BY DEF templateGuard
      <4> QED
        BY <3>1, <4>1, <4>2
    <3>2. CASE n.kind = "patch"
      <4>1. guard(o) = patchGuard(objs[o])
        BY <3>2
      <4>2. patchGuard(objs[o]) \in {"notready", "go"}
        BY DEF patchGuard
      <4> QED
        BY <3>2, <4>1, <4>2
    <3>3. CASE n.kind = "ref"
      <4>1. guard(o) \in {"read", "notready"}
        BY <3>3
      <4> QED
        BY <3>3, <4>1
    <3> QED
      BY <3>1, <3>2, <3>3
  <2> HIDE DEF guard, clash, unmapped
  <2>2. v \in {"hard", "schema"} \/ (v = guard(o) /\ ~clash(o))
    OBVIOUS
  <2> HIDE DEF v
  <2> QED
    BY <2>1, <2>2
<1>5. w[g].pc = "get" /\ DOMAIN w = Graphs
  BY DEF GetLive, Shapes
<1>6. DOMAIN w[g] = RunFields
  BY <1>5, RunsFacts
<1>7. w[g].claims \subseteq c(o) /\ (n.kind = "template" /\ ~clash(o) => [obj |-> o, node |-> n.id] \in c(o))
  OBVIOUS
<1>8. n.kind = "template" /\ ~clash(o) => ~claimed(w[g].claims, o, n.id)
  OBVIOUS
<1> HIDE DEF n, c, d, v, clash
<1>9. /\ DOMAIN x = RunFields /\ x.claims = c(o) /\ x.i = w[g].i /\ x.items = w[g].items /\ x.res = w[g].res
      /\ x.soft = w[g].soft /\ x.hard = w[g].hard
  BY <1>6 DEF RunFields
<1> HIDE DEF x
<1>10. /\ y.pc = "apply" /\ y.at = o /\ y.cur = objs[o] /\ y.i = x.i /\ y.items = x.items
       /\ y.res = x.res /\ y.soft = x.soft /\ y.hard = x.hard /\ y.claims = x.claims
  BY <1>9 DEF RunFields
<1>11. ItemOver(x, z, o, TRUE) /\ z.claims = x.claims
  <2>1. ItemOver(x, z, o, "done" = "done") /\ Edited(x, z, ItemFields)
    BY <1>9, ItemDoneIsOver, ItemDoneEdits
  <2> QED
    BY <2>1 DEF Edited, ItemFields, RunFields, ItemOver
<1>12. ItemOver(x, f, o, v = "done") /\ f.claims = x.claims
  <2>1. ItemOver(x, f, o, v = "done") /\ Edited(x, f, ItemFields)
    BY <1>9, ItemDoneIsOver, ItemDoneEdits
  <2> QED
    BY <2>1 DEF Edited, ItemFields, RunFields
<1> HIDE DEF y, z, f
<1>13. (w'[g] = y /\ v = "go") \/ (w'[g] = z /\ v = "read") \/ w'[g] = f
  BY <1>3, <1>5 DEF Go
<1>14. CASE w'[g] = y /\ v = "go"
  BY <1>4, <1>7, <1>8, <1>9, <1>10, <1>14 DEF Looks, n
<1>15. CASE w'[g] = z /\ v = "read"
  <2>1. n.kind = "ref"
    BY <1>4, <1>15
  <2>2. ItemOver(w[g], w'[g], o, n.kind = "ref")
    BY <1>9, <1>11, <1>15, <2>1 DEF ItemOver
  <2> QED
    BY <1>7, <1>9, <1>11, <1>15, <2>2 DEF Looks, n
<1>16. CASE w'[g] = f
  <2>1. ItemOver(w[g], w'[g], o, n.kind = "ref")
    BY <1>4, <1>9, <1>12, <1>16 DEF ItemOver
  <2> QED
    BY <1>7, <1>9, <1>12, <1>16, <2>1 DEF Looks, n
<1> QED
  BY <1>13, <1>14, <1>15, <1>16

LEMMA GetLiveTidy ==
    ASSUME NEW g \in Graphs, Poised(g), Inherits(g), GetLive(g) PROVE Tidy(g)'
<1> DEFINE r == w[g]
           s == w'[g]
           nodes == Nodes(g)
           m == graphs[g].managed
           n == NodeAt(g)
           F == ItemFields \cup {"claims", "decl"}
<1>0. Shapes /\ Walked(nodes, r) /\ Timed(r, m, uids) /\ Newest /\ Stock
  BY PoisedFacts
<1>1. /\ r.pc = "get" /\ Writes(g, {}) /\ Moves(g, F, {"apply", "get", "walk"})
      /\ UNCHANGED <<graphs, objs, uids>>
  BY <1>0, GetLiveFacts DEF GetLive
<1>2. /\ Compiled(nodes) /\ r.i \in DOMAIN nodes /\ r.items \subseteq nodes[r.i].items /\ r.items \subseteq Objects
  BY <1>1, InPlace
<1>3. n = nodes[r.i] /\ n.kind \in {"template", "patch", "ref"}
  <2>1. n = nodes[r.i]
    BY DEF NodeAt
  <2>2. nodes[r.i].kind # "graph"
    BY <1>0, <1>1 DEF Walked, Walking
  <2> HIDE DEF n, r, nodes
  <2> QED
    BY <1>2, <2>1, <2>2 DEF Compiled
<1>4. PICK o \in r.items : Looks(r, s, n, o, objs[o])
  BY <1>0, <1>3, GetLiveLooks
<1>5. s.applied = r.applied /\ s.pc \in {"apply", "get", "walk"}
  BY <1>1 DEF Moves, Edited, RunFields, ItemFields
<1>6. F \cap {"ver", "prev", "intent", "applied"} = {}
  BY DEF ItemFields
<1> HIDE DEF r, s, nodes, m, n, F
<1>7. Walked(nodes, s) /\ Sighted(g)'
  <2>1. CASE ItemOver(r, s, o, n.kind = "ref")
    <3>1. Adds(r, s, nodes[r.i], o)
      BY <1>5 DEF Adds
    <3>2. Walked(nodes, s)
      <4>1. (n.kind = "ref") /\ nodes[r.i].kind = "template" => o \in DOMAIN s.applied
        BY <1>3
      <4>2. r.claims \subseteq s.claims
        BY <1>4 DEF Looks
      <4> QED
        BY <1>0, <1>1, <1>2, <2>1, <3>1, <4>1, <4>2, WalkedOn
    <3>3. s.pc # "apply"
      BY <2>1 DEF ItemOver
    <3>4. Sighted(g)'
      BY <1>5, <3>3 DEF Sighted, s
    <3> QED
      BY <3>2, <3>4
  <2>2. CASE /\ s.pc = "apply" /\ s.at = o /\ s.cur = objs[o] /\ s.i = r.i /\ s.items = r.items
             /\ s.res = r.res /\ s.soft = r.soft /\ s.hard = r.hard
             /\ n.kind \in {"template", "patch"}
             /\ n.kind = "template" => ~claimed(r.claims, o, n.id) /\ [obj |-> o, node |-> n.id] \in s.claims
    <3>1. r.claims \subseteq s.claims
      BY <1>4 DEF Looks
    <3>2. n.kind = "template" => o \notin DOMAIN r.applied
      <4> SUFFICES ASSUME n.kind = "template", o \in DOMAIN r.applied PROVE FALSE
        OBVIOUS
      <4>1. [obj |-> o, node |-> r.applied[o].node] \in r.claims /\ r.applied[o].node # n.id
        BY <1>0, <1>1, <1>3 DEF Walked, Walking
      <4>2. claimed(r.claims, o, n.id)
        BY <4>1 DEF claimed
      <4> QED
        BY <2>2, <4>2
    <3>3. Walked(nodes, s)
      <4>1. \A p \in DOMAIN s.applied :
               /\ [obj |-> p, node |-> s.applied[p].node] \in s.claims
               /\ \E j \in DOMAIN nodes : /\ j < s.i \/ (j = s.i /\ s.pc # "walk")
                                          /\ nodes[j].id = s.applied[p].node
               /\ s.pc # "walk" /\ p \in s.items => s.applied[p].node # nodes[s.i].id
        BY <1>0, <1>1, <1>5, <2>2, <3>1 DEF Walked, Walking
      <4>2. s.i \in 1..(Len(nodes) + 1) /\ nodes[s.i].kind # "graph"
        BY <1>0, <1>1, <2>2 DEF Walked, Walking
      <4>3. /\ nodes[s.i].kind # "ref" /\ s.at \in s.items
            /\ nodes[s.i].kind = "template" =>
                 s.at \notin DOMAIN s.applied /\ [obj |-> s.at, node |-> nodes[s.i].id] \in s.claims
        BY <1>3, <1>4, <1>5, <2>2, <3>2
      <4>4. s.soft = None /\ ~s.hard =>
              /\ \A j \in DOMAIN nodes :
                   j < s.i /\ nodes[j] \in Announced(nodes) /\ nodes[j].kind = "template"
                     => nodes[j].items \subseteq DOMAIN s.applied
              /\ s.pc # "walk" /\ s.res = {} /\ nodes[s.i].kind = "template"
                   => nodes[s.i].items \ s.items \subseteq DOMAIN s.applied
        BY <1>0, <1>1, <1>5, <2>2 DEF Walked, Walking
      <4> QED
        BY <4>1, <4>2, <4>3, <4>4 DEF Walked
    <3>4. Sighted(g)'
      <4>1. o \in Objects
        BY <1>2, <1>4
      <4> SUFFICES ASSUME Exists(objs[o])
                   PROVE  /\ objs[o].uid \in 1..uids[o]
                          /\ o \in DOMAIN m => m[o].uid <= objs[o].uid
        BY <1>1, <2>2 DEF Sighted, s, m, Mine
      <4>2. objs[o].uid = uids[o] /\ uids[o] \in Nat /\ uids[o] # 0
        BY <1>0, <4>1 DEF Newest, Stock, Exists
      <4>3. uids[o] \in 1..uids[o]
        <5> DEFINE k == uids[o]
        <5> HIDE DEF k
        <5>1. k \in Nat /\ k # 0 => k \in 1..k
          OBVIOUS
        <5> QED
          BY <4>2, <5>1 DEF k
      <4>4. o \in DOMAIN m => m[o].uid <= uids[o]
        BY <1>0, <4>1 DEF Timed, InTime
      <4> QED
        BY <4>2, <4>3, <4>4
    <3> QED
      BY <3>3, <3>4
  <2> QED
    BY <1>4, <2>1, <2>2 DEF Looks
<1>8. w[g].pc \in Walking /\ w'[g].pc \in Walking /\ graphs'[g].managed = graphs[g].managed
  BY <1>1, <1>5 DEF r, s, Walking
<1> QED
  BY <1>1, <1>6, <1>7, <1>8, StrollsTidy DEF s, nodes

\* What an apply makes of the run r: it tries again by force, or the item is over, and
\* recorded with the UID a or not.
Forces(r, s) ==
    /\ s.pc = "force" /\ s.applied = r.applied /\ s.claims = r.claims /\ s.i = r.i /\ s.items = r.items
    /\ s.res = r.res /\ s.soft = r.soft /\ s.hard = r.hard /\ s.at = r.at /\ s.cur = r.cur
Unlanded(r, s, n, o) ==
    /\ s.claims = r.claims /\ s.applied = r.applied
    /\ \E good \in BOOLEAN : ItemOver(r, s, o, good) /\ (good => n.kind = "patch")
LandedAs(r, s, n, o, a) ==
    /\ s.claims = r.claims /\ n.kind # "patch"
    /\ DOMAIN s.applied = DOMAIN r.applied \cup {o} /\ s.applied[o] = [node |-> n.id, uid |-> a]
    /\ \A p \in DOMAIN r.applied \ {o} : s.applied[p] = r.applied[p]
    /\ \E good \in BOOLEAN : ItemOver(r, s, o, good)

LEMMA ItemUnlanded ==
    ASSUME NEW r, DOMAIN r = RunFields, NEW n, NEW o, NEW v, v # "done", NEW st, NEW s,
           s = ItemDone(r, n, o, v, st)
    PROVE  Unlanded(r, s, n, o)
<1>1. ItemOver(r, s, o, v = "done")
  BY ItemDoneIsOver
<1>2. Edited(r, s, ItemFields)
  BY ItemDoneEdits
<1>3. s.claims = r.claims /\ s.applied = r.applied
  BY <1>2 DEF Edited, ItemFields, RunFields
<1>4. ItemOver(r, s, o, FALSE)
  BY <1>1 DEF ItemOver
<1> QED
  BY <1>3, <1>4 DEF Unlanded

LEMMA ItemLanded ==
    ASSUME NEW g, NEW r, DOMAIN r = RunFields, NEW n, NEW o, NEW a, NEW v, NEW st, NEW s,
           s = ItemDone(Landed(g, r, n, o, a), n, o, v, st)
    PROVE  IF n.kind = "patch" THEN Unlanded(r, s, n, o) ELSE LandedAs(r, s, n, o, a)
<1> DEFINE x == Landed(g, r, n, o, a)
           good == v = "done"
<1>1. Records(g, n, o, a, r, x)
  BY LandedRecords
<1>2. Edited(r, x, {"contr", "applied"}) /\ s = ItemDone(x, n, o, v, st)
  BY LandedEdits
<1> HIDE DEF x
<1>3. DOMAIN x = RunFields /\ x.claims = r.claims /\ x.items = r.items /\ x.i = r.i /\ x.res = r.res
      /\ x.soft = r.soft /\ x.hard = r.hard
  BY <1>2 DEF Edited, RunFields
<1>4. Edited(x, s, ItemFields)
  BY <1>2, <1>3, ItemDoneEdits
<1>5. ItemOver(x, s, o, good) /\ s.claims = x.claims /\ s.applied = x.applied
  BY <1>2, <1>3, <1>4, ItemDoneIsOver DEF Edited, ItemFields, RunFields
<1>6. good \in BOOLEAN
  OBVIOUS
<1> HIDE DEF good
<1>7. ItemOver(r, s, o, good) /\ s.claims = r.claims
  BY <1>3, <1>5 DEF ItemOver
<1>8. CASE n.kind = "patch"
  <2>1. s.applied = r.applied
    BY <1>1, <1>5, <1>8 DEF Records
  <2> QED
    BY <1>6, <1>7, <1>8, <2>1 DEF Unlanded
<1>9. CASE n.kind # "patch"
  BY <1>1, <1>5, <1>6, <1>7, <1>9 DEF Records, LandedAs
<1> QED
  BY <1>8, <1>9

\* The outcomes of an apply: nothing was written, or it was and perhaps not answered.
Outcome(r, s, n, o) ==
    \/ /\ UNCHANGED <<objs, uids, wrote>>
       /\ \/ Forces(r, s) \/ Unlanded(r, s, n, o)
          \/ Collects(n) /\ Exists(r.cur) /\ LandedAs(r, s, n, o, r.cur.uid)
    \/ /\ Exists(objs'[o])
       /\ \/ n.kind = "patch" /\ Unlanded(r, s, n, o)
          \/ n.kind # "patch" /\ LandedAs(r, s, n, o, objs'[o].uid)
          \/ ~Undisturbed' /\ Unlanded(r, s, n, o)
          \/ ~Undisturbed' /\ Collects(n) /\ Exists(r.cur) /\ LandedAs(r, s, n, o, r.cur.uid)

Barren(r, s, n, o) == \E v, st : v # "done" /\ s = ItemDone(r, n, o, v, st)
Lands(g, r, s, n, o, a) == \E v, st : s = ItemDone(Landed(g, r, n, o, a), n, o, v, st)

LEMMA BarrenUnlanded ==
    ASSUME NEW r, DOMAIN r = RunFields, NEW n, NEW o, NEW s, Barren(r, s, n, o)
    PROVE  Unlanded(r, s, n, o)
<1>1. PICK v : \E st : v # "done" /\ s = ItemDone(r, n, o, v, st)
  BY DEF Barren
<1>2. PICK st : v # "done" /\ s = ItemDone(r, n, o, v, st)
  BY <1>1
<1> QED
  BY <1>2, ItemUnlanded

LEMMA LandsLanded ==
    ASSUME NEW g, NEW r, DOMAIN r = RunFields, NEW n, NEW o, NEW a, NEW s, Lands(g, r, s, n, o, a)
    PROVE  (n.kind = "patch" /\ Unlanded(r, s, n, o)) \/ (n.kind # "patch" /\ LandedAs(r, s, n, o, a))
<1>1. PICK v : \E st : s = ItemDone(Landed(g, r, n, o, a), n, o, v, st)
  BY DEF Lands
<1>2. PICK st : s = ItemDone(Landed(g, r, n, o, a), n, o, v, st)
  BY <1>1
<1> QED
  BY <1>2, ItemLanded

LEMMA ApplyOutcome ==
    ASSUME Ground, NEW g \in Graphs, NEW force \in BOOLEAN, ApplyObject(g, force), case' = case
    PROVE  /\ w[g].at \in Objects /\ UNCHANGED graphs /\ w[g].pc \in {"apply", "force"}
           /\ wrote' = wrote \/ wrote' = wrote \cup {<<g, w[g].at, objs'[w[g].at].uid>>}
           /\ Outcome(w[g], w'[g], NodeAt(g), w[g].at)
<1> DEFINE r == w[g]
           s == w'[g]
           n == NodeAt(g)
           o == w[g].at
<1>1. r = w[g] /\ s = w'[g] /\ n = NodeAt(g) /\ o = w[g].at
  OBVIOUS
<1>2. /\ o \in Objects /\ DOMAIN r = RunFields /\ r.pc \in {"apply", "force"} /\ UNCHANGED graphs
      /\ \/ /\ UNCHANGED <<objs, uids, wrote>>
            /\ \/ s = [r EXCEPT !.pc = "force"]
               \/ \E v, st : v # "done" /\ s = ItemDone(r, n, o, v, st)
               \/ /\ Collects(n) /\ Exists(r.cur)
                  /\ \E v, st : s = ItemDone(Landed(g, r, n, o, r.cur.uid), n, o, v, st)
         \/ /\ Served(o) /\ Exists(objs'[o])
            /\ wrote' = IF n.kind = "patch" THEN wrote ELSE wrote \cup {<<g, o, objs'[o].uid>>}
            /\ \/ \E st : s = ItemDone(Landed(g, r, n, o, objs'[o].uid), n, o, "done", st)
               \/ ~Undisturbed' /\ ~Collects(n) /\ \E st : s = ItemDone(r, n, o, "hard", st)
               \/ ~Undisturbed' /\ Collects(n) /\ \E v, st : v # "done" /\ s = ItemDone(r, n, o, v, st)
               \/ /\ ~Undisturbed' /\ Collects(n) /\ Exists(r.cur)
                  /\ \E v, st : s = ItemDone(Landed(g, r, n, o, r.cur.uid), n, o, v, st)
  BY <1>1, ApplyEffect
<1> HIDE DEF r, s, n, o
<1> DEFINE b == Barren(r, s, n, o)
           l(a) == Lands(g, r, s, n, o, a)
<1>3. (\E v, st : v # "done" /\ s = ItemDone(r, n, o, v, st)) => b
  BY DEF Barren
<1>4. (\E st : s = ItemDone(r, n, o, "hard", st)) => b
  BY DEF Barren
<1>5. (\E v, st : s = ItemDone(Landed(g, r, n, o, r.cur.uid), n, o, v, st)) => l(r.cur.uid)
  BY DEF Lands
<1>6. (\E st : s = ItemDone(Landed(g, r, n, o, objs'[o].uid), n, o, "done", st)) => l(objs'[o].uid)
  BY DEF Lands
<1> HIDE DEF b, l
<1>7. b => Unlanded(r, s, n, o)
  BY <1>2, BarrenUnlanded DEF b
<1>8. ASSUME NEW a, l(a)
      PROVE  (n.kind = "patch" /\ Unlanded(r, s, n, o)) \/ (n.kind # "patch" /\ LandedAs(r, s, n, o, a))
  BY <1>2, <1>8, LandsLanded DEF l
<1>9. Collects(n) => n.kind # "patch"
  BY DEF Collects
<1>10. s = [r EXCEPT !.pc = "force"] => Forces(r, s)
  BY <1>2 DEF Forces, RunFields
<1>11. \/ /\ UNCHANGED <<objs, uids, wrote>>
          /\ \/ s = [r EXCEPT !.pc = "force"] \/ b
             \/ Collects(n) /\ Exists(r.cur) /\ l(r.cur.uid)
       \/ /\ Exists(objs'[o])
          /\ \/ l(objs'[o].uid) \/ (~Undisturbed' /\ b)
             \/ ~Undisturbed' /\ Collects(n) /\ Exists(r.cur) /\ l(r.cur.uid)
  BY <1>2, <1>3, <1>4, <1>5, <1>6
<1>12. l(r.cur.uid) /\ Collects(n) => LandedAs(r, s, n, o, r.cur.uid)
  BY <1>8, <1>9
<1>13. l(objs'[o].uid) => (n.kind = "patch" /\ Unlanded(r, s, n, o))
                          \/ (n.kind # "patch" /\ LandedAs(r, s, n, o, objs'[o].uid))
  BY <1>8
<1>14. Outcome(r, s, n, o)
  BY <1>7, <1>10, <1>11, <1>12, <1>13 DEF Outcome
<1>15. wrote' = wrote \/ wrote' = wrote \cup {<<g, o, objs'[o].uid>>}
  BY <1>2
<1> QED
  BY <1>1, <1>2, <1>14, <1>15

\* What a walk has applied after an item: the same, or o too, under the UID a.
Extends(r, s, o, a) ==
    /\ o \notin DOMAIN r.applied /\ DOMAIN s.applied = DOMAIN r.applied \cup {o} /\ s.applied[o].uid = a
    /\ \A p \in DOMAIN r.applied : s.applied[p] = r.applied[p]

LEMMA AppliesWalked ==
    ASSUME NEW nodes, Compiled(nodes), NEW r, NEW s, Walked(nodes, r), r.pc \in {"apply", "force"},
           r.i \in DOMAIN nodes, r.items \subseteq nodes[r.i].items, NEW a,
           Forces(r, s) \/ Unlanded(r, s, nodes[r.i], r.at) \/ LandedAs(r, s, nodes[r.i], r.at, a)
    PROVE  /\ Walked(nodes, s) /\ s.pc \in {"get", "walk", "force"} /\ (s.pc = "force" => Forces(r, s))
           /\ LandedAs(r, s, nodes[r.i], r.at, a) => Extends(r, s, r.at, a)
<1> DEFINE n == nodes[r.i]
           o == r.at
<1>1. /\ n.kind \in {"template", "patch"} /\ o \in r.items
      /\ n.kind = "template" => o \notin DOMAIN r.applied /\ [obj |-> o, node |-> n.id] \in r.claims
  BY DEF Walked, Walking, Compiled
<1> HIDE DEF n, o
<1>2. LandedAs(r, s, n, o, a) => Extends(r, s, o, a) /\ Adds(r, s, n, o) /\ o \in DOMAIN s.applied
  BY <1>1 DEF LandedAs, Extends, Adds
<1>3. CASE Forces(r, s)
  <2>1. s.pc = "force"
    BY <1>3 DEF Forces
  <2>2. Walked(nodes, s)
    BY <1>3 DEF Forces, Walked, Walking
  <2> QED
    BY <1>2, <1>3, <2>1, <2>2 DEF n, o
<1>4. CASE Unlanded(r, s, n, o)
  <2>1. PICK good \in BOOLEAN : ItemOver(r, s, o, good) /\ (good => n.kind = "patch")
    BY <1>4 DEF Unlanded
  <2>2. Adds(r, s, n, o) /\ r.claims \subseteq s.claims
    BY <1>4 DEF Unlanded, Adds
  <2>3. Walked(nodes, s)
    BY <1>1, <2>1, <2>2, WalkedOn DEF n
  <2>4. s.pc \in {"get", "walk"}
    BY <2>1 DEF ItemOver
  <2> QED
    BY <1>2, <2>3, <2>4 DEF n, o
<1>5. CASE LandedAs(r, s, n, o, a)
  <2>1. PICK good \in BOOLEAN : ItemOver(r, s, o, good)
    BY <1>5 DEF LandedAs
  <2>2. r.claims \subseteq s.claims
    BY <1>5 DEF LandedAs
  <2>3. Walked(nodes, s)
    BY <1>1, <1>2, <1>5, <2>1, <2>2, WalkedOn DEF n
  <2>4. s.pc \in {"get", "walk"}
    BY <2>1 DEF ItemOver
  <2> QED
    BY <1>2, <1>5, <2>3, <2>4 DEF n, o
<1> QED
  BY <1>3, <1>4, <1>5 DEF n, o

LEMMA OldTied ==
    ASSUME NEW r, NEW s, NEW m, NEW I, NEW x, NEW u, NEW ok, NEW late, NEW quiet, NEW still, still => quiet,
           r.pc \in Walking, s.pc \in Walking, Tied(r, m, I, x, u, ok, late, quiet),
           NEW o, NEW a, s.applied = r.applied \/ (Extends(r, s, o, a) /\ (x = o => a = u))
    PROVE  Tied(s, m, I, x, u, ok, late, still)
<1>1. x \in DOMAIN r.applied => x \in DOMAIN s.applied /\ s.applied[x] = r.applied[x]
  BY DEF Extends
<1>2. x \in DOMAIN s.applied => x \in DOMAIN r.applied \/ s.applied[x].uid = u
  BY DEF Extends
<1> QED
  BY <1>1, <1>2 DEF Tied, Sure, Walking, Pruning, Closing

LEMMA NewTied ==
    ASSUME NEW r, NEW s, NEW m, NEW I, NEW o, NEW k \in Nat, NEW u \in Nat, k <= u, NEW c \in Nat,
           NEW ok \in BOOLEAN, NEW late, NEW still, s.pc \in Walking,
           ~late => o \in DOMAIN m, o \in DOMAIN m => m[o].uid \in Nat /\ m[o].uid <= k,
           still => o \in DOMAIN s.applied /\ s.applied[o].uid = u,
           o \in DOMAIN s.applied => s.applied[o].uid = u
              \/ /\ s.applied[o].uid = c /\ 1 <= c /\ c <= k /\ (ok => u = 1)
                 /\ o \in DOMAIN m => m[o].uid <= c
    PROVE  Tied(s, m, I, o, u, ok, late, still)
<1>1. u = 1 /\ ok /\ ~late => Leads(m, o, u, ok)
  <2> SUFFICES ASSUME u = 1, ok, ~late PROVE Leads(m, o, u, ok)
    OBVIOUS
  <2>1. o \in DOMAIN m /\ (m[o].uid = 0 \/ m[o].uid = u)
    OBVIOUS
  <2> QED
    BY <2>1 DEF Leads, Sure
<1>2. Leads(m, o, u, ok) => (o \in DOMAIN s.applied => s.applied[o].uid = u)
  <2> SUFFICES ASSUME o \in DOMAIN m, m[o].uid = u \/ ok, o \in DOMAIN s.applied PROVE s.applied[o].uid = u
    BY DEF Leads, Sure
  <2> QED
    OBVIOUS
<1>3. still => Sure(s.applied, o, u)
  BY DEF Sure
<1> QED
  BY <1>1, <1>2, <1>3 DEF Tied, Walking, Pruning, Closing

\* What an apply has made of the run, and of the object, which is written (done) or not.
Applied(g, r, s, nodes, o, done) ==
    /\ Walked(nodes, s) /\ s.pc \in {"get", "walk", "force"}
    /\ s.pc = "force" => Forces(r, s) /\ ~done
    /\ ~done => UNCHANGED <<objs, uids>>
    /\ done => Exists(objs'[o])
    /\ done /\ nodes[r.i].kind = "template" /\ Undisturbed' => Extends(r, s, o, objs'[o].uid)
    /\ \/ s.applied = r.applied
       \/ nodes[r.i].kind = "template" /\ Exists(objs'[o]) /\ Extends(r, s, o, objs'[o].uid)
       \/ Collects(nodes[r.i]) /\ Exists(r.cur) /\ Extends(r, s, o, r.cur.uid)

LEMMA ApplyApplied ==
    ASSUME NEW g \in Graphs, Poised(g), NEW force \in BOOLEAN, ApplyObject(g, force)
    PROVE  \E done \in BOOLEAN : Applied(g, w[g], w'[g], Nodes(g), w[g].at, done)
<1> DEFINE r == w[g]
           s == w'[g]
           nodes == Nodes(g)
           n == nodes[r.i]
           o == r.at
<1>0. Ground /\ case' = case /\ Walked(nodes, r)
  BY PoisedFacts DEF Poised
<1>1. r.pc \in {"apply", "force"} /\ NodeAt(g) = n
  BY <1>0, ApplyOutcome DEF NodeAt
<1>2. /\ Compiled(nodes) /\ r.i \in DOMAIN nodes /\ r.items \subseteq n.items
  BY <1>1, InPlace
<1>3. Outcome(r, s, n, o)
  BY <1>0, <1>1, ApplyOutcome
<1>4. n.kind \in {"template", "patch"}
  BY <1>0, <1>1, <1>2 DEF Walked, Walking, Compiled
<1> HIDE DEF r, s, nodes
<1>5. ASSUME Forces(r, s)
      PROVE  Walked(nodes, s) /\ s.pc = "force" /\ s.applied = r.applied
  BY <1>0, <1>1, <1>2, <1>5, AppliesWalked DEF Forces
<1>6. ASSUME Unlanded(r, s, n, o)
      PROVE  Walked(nodes, s) /\ s.pc \in {"get", "walk"} /\ s.applied = r.applied
  <2>1. Walked(nodes, s) /\ s.applied = r.applied
    BY <1>0, <1>1, <1>2, <1>6, AppliesWalked DEF Unlanded
  <2>2. s.pc \in {"get", "walk"}
    BY <1>6 DEF Unlanded, ItemOver
  <2> QED
    BY <2>1, <2>2
<1>7. ASSUME NEW a, LandedAs(r, s, n, o, a)
      PROVE  Walked(nodes, s) /\ s.pc \in {"get", "walk"} /\ Extends(r, s, o, a) /\ n.kind = "template"
  <2>1. Walked(nodes, s) /\ Extends(r, s, o, a)
    BY <1>0, <1>1, <1>2, <1>7, AppliesWalked
  <2>2. s.pc \in {"get", "walk"}
    BY <1>7 DEF LandedAs, ItemOver
  <2> QED
    BY <1>4, <1>7, <2>1, <2>2 DEF LandedAs
<1> DEFINE L(a) == LandedAs(r, s, n, o, a)
<1>8. CASE /\ UNCHANGED <<objs, uids, wrote>>
           /\ \/ Forces(r, s) \/ Unlanded(r, s, n, o) \/ (Collects(n) /\ Exists(r.cur) /\ L(r.cur.uid))
  <2>1. Applied(g, r, s, nodes, o, FALSE)
    <3>1. CASE Forces(r, s)
      BY <1>5, <1>8, <3>1 DEF Applied
    <3>2. CASE Unlanded(r, s, n, o)
      BY <1>6, <1>8, <3>2 DEF Applied
    <3>3. CASE Collects(n) /\ Exists(r.cur) /\ L(r.cur.uid)
      BY <1>7, <1>8, <3>3 DEF Applied
    <3> QED
      BY <1>8, <3>1, <3>2, <3>3
  <2> QED
    BY <2>1 DEF r, s, nodes
<1>9. CASE /\ Exists(objs'[o])
           /\ \/ n.kind = "patch" /\ Unlanded(r, s, n, o)
              \/ n.kind # "patch" /\ L(objs'[o].uid)
              \/ ~Undisturbed' /\ Unlanded(r, s, n, o)
              \/ ~Undisturbed' /\ Collects(n) /\ Exists(r.cur) /\ L(r.cur.uid)
  <2>1. Applied(g, r, s, nodes, o, TRUE)
    <3>1. CASE Unlanded(r, s, n, o) /\ (n.kind = "patch" \/ ~Undisturbed')
      BY <1>6, <1>9, <3>1 DEF Applied
    <3>2. CASE L(objs'[o].uid)
      BY <1>7, <1>9, <3>2 DEF Applied
    <3>3. CASE ~Undisturbed' /\ Collects(n) /\ Exists(r.cur) /\ L(r.cur.uid)
      BY <1>7, <1>9, <3>3 DEF Applied
    <3> QED
      BY <1>9, <3>1, <3>2, <3>3
  <2> QED
    BY <2>1 DEF r, s, nodes
<1> QED
  BY <1>3, <1>8, <1>9 DEF Outcome

\* An apply makes an object the Graph's that was not its only if it is a template's.
LEMMA ApplyOwns ==
    ASSUME NEW g \in Graphs, Poised(g), NEW force \in BOOLEAN, ApplyObject(g, force), Newest',
           NEW x \in Objects, Mine(g, x)', ~(Mine(g, x) /\ objs'[x].uid = objs[x].uid)
    PROVE  /\ x = w[g].at /\ objs'[x] # objs[x] /\ NodeAt(g).kind # "patch"
           /\ uids[x] \in Nat /\ objs'[x].uid \in Nat /\ uids[x] <= objs'[x].uid
<1> DEFINE o == w[g].at
           y == objs'[o]
<1>0. Stock /\ Newest /\ Grown /\ Ground /\ case' = case
  BY PoisedFacts DEF Poised
<1>1. o \in Objects
  BY <1>0, ApplyOutcome
<1>2. /\ Turned(Writer(g))
      /\ \A p \in Objects \ {o} : objs'[p] = objs[p] /\ uids'[p] = uids[p]
      /\ \/ UNCHANGED <<objs, uids>>
         \/ /\ Served(o) /\ Exists(y)
            /\ IF Exists(objs[o]) THEN y.uid = objs[o].uid /\ y.term = objs[o].term
               ELSE y.uid = uids[o] + 1
  BY <1>0, <1>1, ApplyTurns
<1>3. x = o /\ objs'[o] # objs[o]
  BY <1>2 DEF Mine
<1>4. Turn(objs[o], y, uids[o], uids'[o], Writer(g))
  BY <1>1, <1>2 DEF Turned
<1>5. Exists(y) /\ ~y.term /\ templateFieldManager(g) \in Managers(y)
  BY <1>3 DEF Mine
<1>6. NodeAt(g).kind # "patch"
  <2> SUFFICES ASSUME NodeAt(g).kind = "patch" PROVE FALSE
    OBVIOUS
  <2>1. Writer(g) = patchFieldManager(g, NodeAt(g).id)
    BY DEF Writer
  <2>2. Writer(g) # templateFieldManager(g)
    BY <2>1 DEF patchFieldManager, templateFieldManager
  <2>3. Exists(objs[o]) /\ templateFieldManager(g) \in Managers(objs[o]) /\ y.uid = objs[o].uid
    BY <1>4, <1>5, <2>2 DEF Turn
  <2>4. y.term = objs[o].term
    BY <1>2, <1>3, <2>3
  <2> QED
    BY <1>3, <1>5, <2>3, <2>4 DEF Mine
<1>7. uids[o] \in Nat /\ uids'[o] \in Nat /\ uids[o] <= uids'[o] /\ y.uid = uids'[o]
  BY <1>0, <1>1, <1>5 DEF Grown, Stock, Newest
<1> QED
  BY <1>3, <1>6, <1>7

LEMMA ApplyObjectTidy ==
    ASSUME NEW g \in Graphs, Poised(g), NEW force \in BOOLEAN, ApplyObject(g, force), Newest'
    PROVE  Tidy(g)'
<1> DEFINE r == w[g]
           s == w'[g]
           m == graphs[g].managed
           nodes == Nodes(g)
           n == nodes[r.i]
           I == Intended(nodes)
           o == r.at
<1>0. /\ Ground /\ Shapes /\ Stock /\ Newest /\ Grown /\ case' = case /\ wrote \subseteq wrote'
      /\ (Undisturbed' => Undisturbed) /\ Filed(nodes, r, m) /\ Timed(r, m, uids) /\ Sighted(g) /\ Tethered(g)
  BY PoisedFacts DEF Poised
<1>1. /\ r.pc \in {"apply", "force"} /\ Moves(g, ItemFields \cup {"applied", "contr"}, {"force", "get", "walk"})
      /\ graphs' = graphs
  BY <1>0, ApplyObjectFacts, ApplyOutcome
<1>2. /\ Compiled(nodes) /\ r.i \in DOMAIN nodes /\ nodes = case.specs[g][r.ver].nodes
      /\ o \in Objects /\ o \in n.items /\ g \in DOMAIN case.specs /\ r.ver \in DOMAIN case.specs[g]
  BY <1>1, InPlace
<1>3. s.ver = r.ver /\ s.prev = r.prev /\ s.intent = r.intent /\ Nodes(g)' = nodes /\ graphs'[g].managed = m
      /\ NodeAt(g) = n
  BY <1>0, <1>1, <1>2 DEF Moves, Edited, RunFields, ItemFields, Nodes, specOf, NodeAt
<1>4. PICK done \in BOOLEAN : Applied(g, r, s, nodes, o, done)
  BY ApplyApplied
<1>5. r.pc \in Walking /\ s.pc \in Walking /\ Walked(nodes, s)
  BY <1>1, <1>4 DEF Applied, Walking
<1>6. /\ uids[o] \in Nat /\ uids'[o] \in Nat /\ uids[o] <= uids'[o]
      /\ Exists(objs'[o]) => objs'[o].uid = uids'[o] /\ objs'[o].uid # 0
      /\ Exists(r.cur) => r.cur.uid \in 1..uids[o] /\ (o \in DOMAIN m => m[o].uid <= r.cur.uid)
      /\ Mine(g, o) => objs[o].uid = r.cur.uid
      /\ o \in DOMAIN m => m[o].uid \in Nat /\ m[o].uid <= uids[o]
  BY <1>0, <1>1, <1>2 DEF Stock, Grown, Newest, Exists, Sighted, Timed, InTime
<1>7. \/ s.applied = r.applied
      \/ n.kind = "template" /\ Exists(objs'[o]) /\ Extends(r, s, o, objs'[o].uid)
      \/ Collects(n) /\ Exists(r.cur) /\ Extends(r, s, o, r.cur.uid)
  BY <1>4 DEF Applied
<1>8. s.applied = r.applied \/ \E a \in Nat \ {0} : a <= uids'[o] /\ Extends(r, s, o, a)
  <2>1. Exists(objs'[o]) => objs'[o].uid \in Nat \ {0} /\ objs'[o].uid <= uids'[o]
    BY <1>6
  <2>2. Exists(r.cur) => r.cur.uid \in Nat \ {0} /\ r.cur.uid <= uids'[o]
    <3> DEFINE c == r.cur.uid
               k == uids[o]
               l == uids'[o]
    <3>1. k \in Nat /\ l \in Nat /\ k <= l /\ (Exists(r.cur) => c \in 1..k)
      BY <1>6
    <3> HIDE DEF c, k, l
    <3> QED
      BY <3>1 DEF c, k, l
  <2> HIDE DEF r, s, o
  <2> QED
    BY <1>7, <2>1, <2>2
<1>9. Sighted(g)'
  <2> SUFFICES ASSUME s.pc \in {"apply", "force"}
               PROVE  Sighted(g)'
    BY DEF Sighted
  <2>1. Forces(r, s) /\ UNCHANGED <<objs, uids>>
    BY <1>4 DEF Applied
  <2>2. s.at = r.at /\ s.cur = r.cur
    BY <2>1 DEF Forces
  <2>3. /\ Mine(g, o) => objs[o].uid = r.cur.uid
        /\ Exists(r.cur) => r.cur.uid \in 1..uids[o] /\ (o \in DOMAIN m => m[o].uid <= r.cur.uid)
    BY <1>6
  <2>4. objs' = objs /\ uids' = uids /\ graphs' = graphs /\ w'[g].at = o /\ w'[g].cur = r.cur
    BY <1>1, <2>1, <2>2
  <2>5. Mine(g, w[g].at)' => Mine(g, o)
    BY <2>4 DEF Mine
  <2> HIDE DEF r, s, o
  <2> QED
    BY <2>3, <2>4, <2>5 DEF Sighted, m
<1> HIDE DEF r, s, m, nodes, I, o
<1>10. Filed(nodes, s, m)
  <2>1. \A p \in DOMAIN s.applied : s.applied[p].uid # 0
    <3>1. \A p \in DOMAIN r.applied : r.applied[p].uid # 0
      BY <1>0, <1>5 DEF Filed
    <3>2. CASE s.applied = r.applied
      BY <3>1, <3>2
    <3>3. CASE \E a \in Nat \ {0} : a <= uids'[o] /\ Extends(r, s, o, a)
      BY <3>1, <3>3 DEF Extends
    <3> QED
      BY <1>8, <3>2, <3>3
  <2> QED
    BY <1>0, <1>3, <1>5, <2>1 DEF Filed, Pre, Before, Walking, Pruning, Down
<1>11. Timed(s, m, uids')
  <2>1. InTime(m, uids') /\ InTime(r.applied, uids')
    BY <1>0, <1>5, InTimeGrows DEF Timed
  <2>2. InTime(s.applied, uids')
    <3>1. CASE s.applied = r.applied
      BY <2>1, <3>1
    <3>2. CASE \E a \in Nat \ {0} : a <= uids'[o] /\ Extends(r, s, o, a)
      BY <2>1, <3>2 DEF Extends, InTime
    <3> QED
      BY <1>8, <3>1, <3>2
  <2> QED
    BY <1>5, <2>1, <2>2 DEF Timed, Walking, Pruning, Closing
<1>12. ASSUME NEW x \in Objects, Mine(g, x)'
       PROVE  Tied(s, m, I, x, objs'[x].uid, Sole(g, x)', LateTemplate(g, x)', Undisturbed')
  <2> DEFINE u == objs'[x].uid
             ok == Sole(g, x)
             fine == Sole(g, x)'
             late == LateTemplate(g, x)
  <2>1. late \in BOOLEAN /\ LateTemplate(g, x)' = late /\ ok \in BOOLEAN /\ fine \in BOOLEAN
    BY <1>0, LateFixed DEF Sole
  <2>2. CASE Mine(g, x) /\ objs'[x].uid = objs[x].uid
    <3>1. fine => ok
      BY <1>0, <2>2 DEF Sole, Alone
    <3>2. Tied(r, m, I, x, u, ok, late, Undisturbed)
      BY <1>0, <2>2 DEF Tethered, r, m, I, nodes
    <3>3. x = o => r.cur.uid = u
      BY <1>6, <2>2
    <3> HIDE DEF u, ok, fine, late
    <3>4. Tied(r, m, I, x, u, fine, late, Undisturbed)
      BY <2>1, <3>1, <3>2, TiedLess
    <3>5. s.applied = r.applied \/ \E a : Extends(r, s, o, a) /\ (x = o => a = u)
      BY <1>7, <3>3 DEF u
    <3>6. Tied(s, m, I, x, u, fine, late, Undisturbed')
      BY <1>0, <1>5, <3>4, <3>5, OldTied
    <3> QED
      BY <2>1, <3>6 DEF u, fine
  <2>3. CASE ~(Mine(g, x) /\ objs'[x].uid = objs[x].uid)
    <3>1. x = o /\ objs'[x] # objs[x] /\ n.kind # "patch"
          /\ uids[x] \in Nat /\ u \in Nat /\ uids[x] <= u
      BY <1>3, <1>12, <2>3, ApplyOwns DEF r, o
    <3>2. done /\ n.kind = "template"
      <4>1. done
        BY <1>4, <3>1 DEF Applied
      <4>2. n.kind \in {"template", "patch"}
        <5>1. nodes[r.i].kind # "graph" /\ nodes[r.i].kind # "ref"
          <6>1. Walked(nodes, r)
            BY PoisedFacts DEF nodes, r
          <6> QED
            BY <1>1, <1>5, <6>1 DEF Walked
        <5> QED
          BY <1>2, <5>1 DEF Compiled
      <4> QED
        BY <3>1, <4>1, <4>2
    <3>3. Undisturbed' => Extends(r, s, o, u)
      BY <1>4, <3>1, <3>2 DEF Applied
    <3>4. ~late => o \in DOMAIN m
      <4> SUFFICES ASSUME ~late PROVE o \in DOMAIN m
        OBVIOUS
      <4>1. n \notin Late(g)
        BY <1>2, <3>1, <3>2 DEF LateTemplate
      <4>2. n \in Announced(nodes)
        BY <1>2, <4>1, LateOrAnnounced DEF specOf
      <4>3. o \in I
        BY <1>2, <3>2, <4>2, AnnouncedIntended DEF I
      <4> QED
        BY <1>0, <1>5, <4>3 DEF Filed, I
    <3>5. Collects(n) => (fine => u = 1)
      <4> SUFFICES ASSUME Collects(n), fine PROVE u = 1
        OBVIOUS
      <4>1. Collected(case.specs[g], o)
        BY <1>2 DEF Collected, Collects
      <4> QED
        BY <1>0, <3>1, <4>1 DEF Sole
    <3>6. o \in DOMAIN m => m[o].uid \in Nat /\ m[o].uid <= uids[o]
      BY <1>6
    <3> DEFINE k == uids[o]
               c == IF Exists(r.cur) THEN r.cur.uid ELSE 0
               still == Undisturbed'
    <3>7. k \in Nat /\ c \in Nat /\ k <= u
      BY <1>6, <3>1
    <3>8. still => o \in DOMAIN s.applied /\ s.applied[o].uid = u
      BY <3>3 DEF Extends
    <3>9. o \in DOMAIN s.applied => s.applied[o].uid = u
              \/ /\ s.applied[o].uid = c /\ 1 <= c /\ c <= k /\ (fine => u = 1)
                 /\ o \in DOMAIN m => m[o].uid <= c
      <4>1. CASE s.applied = r.applied
        <5>1. o \notin DOMAIN r.applied
          <6>1. Walked(nodes, r)
            BY PoisedFacts DEF nodes, r
          <6> QED
            BY <1>1, <1>5, <3>2, <6>1 DEF Walked, o
        <5> QED
          BY <4>1, <5>1
      <4>2. CASE Extends(r, s, o, objs'[o].uid)
        BY <3>1, <4>2 DEF Extends
      <4>3. CASE Collects(n) /\ Exists(r.cur) /\ Extends(r, s, o, r.cur.uid)
        <5>1. s.applied[o].uid = c /\ c \in 1..k /\ (o \in DOMAIN m => m[o].uid <= c)
          BY <1>6, <4>3 DEF Extends
        <5> HIDE DEF c, k
        <5> QED
          BY <3>5, <3>7, <4>3, <5>1
      <4> QED
        BY <1>7, <4>1, <4>2, <4>3
    <3> HIDE DEF u, ok, fine, late, k, c, still
    <3>10. Tied(s, m, I, o, u, fine, late, still)
      BY <1>5, <2>1, <3>1, <3>4, <3>6, <3>7, <3>8, <3>9, NewTied DEF k
    <3> QED
      BY <2>1, <3>1, <3>10 DEF u, fine, still
  <2> QED
    BY <2>2, <2>3
<1>13. Tethered(g)'
  BY <1>3, <1>12 DEF Tethered, s, I
<1> QED
  BY <1>3, <1>5, <1>9, <1>10, <1>11, <1>13 DEF Tidy, s, nodes, m

\* The difference of an inventory p and what was applied, a: what stays and what goes.
Splits(p, a, n, t) ==
    /\ DOMAIN a \subseteq DOMAIN n /\ DOMAIN n \subseteq DOMAIN a \cup DOMAIN p
    /\ \A o \in DOMAIN a : n[o] = a[o]
    /\ \A o \in DOMAIN n \ DOMAIN a : n[o] = p[o]
    /\ DOMAIN t \subseteq DOMAIN p /\ \A o \in DOMAIN t : t[o] = p[o]
    /\ DOMAIN p \subseteq DOMAIN n \cup DOMAIN t

LEMMA DiffSplits ==
    ASSUME NEW p, NEW a, NEW unres
    PROVE  Splits(p, a, diffManagedResources(p, a, unres).newSet, diffManagedResources(p, a, unres).prune)
<1> DEFINE gone == DOMAIN p \ DOMAIN a
           kept == {o \in gone : p[o].node \in unres}
           new == [o \in DOMAIN a \cup kept |-> IF o \in DOMAIN a THEN a[o] ELSE p[o]]
           prune == [o \in gone \ kept |-> p[o]]
<1>1. diffManagedResources(p, a, unres).newSet = new /\ diffManagedResources(p, a, unres).prune = prune
  BY DEF diffManagedResources
<1>2. DOMAIN new = DOMAIN a \cup kept /\ DOMAIN prune = gone \ kept
  OBVIOUS
<1>3. (\A o \in DOMAIN a : new[o] = a[o]) /\ (\A o \in DOMAIN new \ DOMAIN a : new[o] = p[o])
  BY <1>2
<1>4. \A o \in DOMAIN prune : prune[o] = p[o]
  BY <1>2
<1> HIDE DEF new, prune
<1> QED
  BY <1>1, <1>2, <1>3, <1>4 DEF Splits

\* What a failed run records: the union of the intent and what was applied.
LEMMA WideTied ==
    ASSUME NEW r, NEW s, NEW m, NEW I, NEW o, NEW u, u # 0, NEW ok \in BOOLEAN, NEW late, NEW quiet,
           NEW still, still => quiet, Tied(r, m, I, o, u, ok, late, quiet),
           r.pc \in Walking \cup Pruning, s.pc = "status",
           Alike(m, r.intent), Joins(r.intent, r.applied, s.managed),
           \A p \in DOMAIN r.applied : r.applied[p].uid # 0
    PROVE  Tied(s, m, I, o, u, ok, late, still)
<1> DEFINE x == s.managed
<1>1. /\ o \in DOMAIN r.applied => o \in DOMAIN x /\ x[o].uid = r.applied[o].uid
      /\ o \notin DOMAIN r.applied /\ o \in DOMAIN m => o \in DOMAIN x /\ x[o].uid = m[o].uid
  BY DEF Joins, Alike
<1>2. Leads(m, o, u, ok) => (o \in DOMAIN r.applied => r.applied[o].uid = u)
  BY DEF Tied
<1>3. Leads(m, o, u, ok) => Sure(x, o, u) \/ (Sure(x, o, 0) /\ Sure(m, o, 0))
  BY <1>1, <1>2 DEF Leads, Sure
<1>4. still => Sure(m, o, u) \/ Sure(r.applied, o, u)
  BY DEF Tied
<1>5. still => Sure(x, o, u)
  BY <1>1, <1>2, <1>4 DEF Leads, Sure
<1> HIDE DEF x
<1>6. u = 1 /\ ok /\ ~late => Leads(m, o, u, ok)
  BY DEF Tied
<1> QED
  BY <1>3, <1>5, <1>6 DEF Tied, Walking, Pruning, Closing, x

\* The walk ends well: what was announced is there, and what is not applied is pruned or kept.
LEMMA SplitTied ==
    ASSUME NEW nodes, NEW r, NEW s, NEW m, NEW o, NEW u, NEW ok \in BOOLEAN, NEW late, NEW quiet,
           NEW still, still => quiet, Tied(r, m, Intended(nodes), o, u, ok, late, quiet),
           r.pc \in Walking, s.pc = "prune", Filed(nodes, r, m), s.soft = r.soft, s.applied = r.applied,
           Splits(r.prev, r.applied, s.newSet, s.todo),
           r.soft = None => Intended(nodes) \subseteq DOMAIN r.applied
    PROVE  Tied(s, m, Intended(nodes), o, u, ok, late, still)
<1> DEFINE I == Intended(nodes)
<1>1. /\ \A p \in DOMAIN r.prev : p \in DOMAIN m /\ m[p].uid = r.prev[p].uid
      /\ \A p \in DOMAIN m \ DOMAIN r.prev : p \in I /\ m[p].uid = 0
  BY DEF Filed
<1> HIDE DEF I
<1>2. Leads(m, o, u, ok) => (o \in DOMAIN r.applied => r.applied[o].uid = u)
  BY DEF Tied
<1>3. ASSUME Leads(m, o, u, ok)
      PROVE  \/ o \in DOMAIN s.todo \/ Sure(s.newSet, o, u) \/ (Sure(s.newSet, o, 0) /\ Sure(m, o, 0))
             \/ o \in I /\ Sure(m, o, 0) /\ r.soft # None /\ o \notin DOMAIN s.newSet
  <2>1. CASE o \in DOMAIN r.applied
    BY <1>2, <1>3, <2>1 DEF Splits, Sure
  <2>2. CASE o \notin DOMAIN r.applied /\ o \in DOMAIN r.prev
    <3>1. o \in DOMAIN s.todo \/ (o \in DOMAIN s.newSet /\ s.newSet[o] = r.prev[o])
      BY <2>2 DEF Splits
    <3>2. m[o].uid = r.prev[o].uid
      BY <1>1, <2>2
    <3> QED
      BY <1>3, <3>1, <3>2 DEF Leads, Sure
  <2>3. CASE o \notin DOMAIN r.applied /\ o \notin DOMAIN r.prev
    <3>1. o \in I /\ m[o].uid = 0 /\ o \in DOMAIN m
      BY <1>1, <1>3, <2>3 DEF Leads, Sure
    <3>2. o \notin DOMAIN s.newSet
      BY <2>3 DEF Splits
    <3>3. r.soft # None
      BY <2>3, <3>1 DEF I
    <3> QED
      BY <3>1, <3>2, <3>3 DEF Sure
  <2> QED
    BY <2>1, <2>2, <2>3
<1>4. u = 1 /\ ok /\ ~late => Leads(m, o, u, ok)
  BY DEF Tied
<1>5. still => Sure(m, o, u) \/ Sure(r.applied, o, u)
  BY DEF Tied
<1> QED
  BY <1>2, <1>3, <1>4, <1>5 DEF Tied, Walking, Pruning, Closing, I

LEMMA AlikeInTime == ASSUME NEW l, NEW m, NEW k, Alike(m, l), InTime(m, k) PROVE InTime(l, k)
BY DEF Alike, InTime

LEMMA FinishTidy ==
    ASSUME NEW g \in Graphs, Poised(g), Inherits(g), Finish(g) PROVE Tidy(g)'
<1> DEFINE r == w[g]
           s == w'[g]
           m == graphs[g].managed
           nodes == Nodes(g)
           I == Intended(nodes)
           new == diffManagedResources(r.prev, r.applied, r.unres).newSet
           prune == diffManagedResources(r.prev, r.applied, r.unres).prune
           super == unionManagedResources(r.intent, r.applied)
<1>0. /\ Shapes /\ Budgeted /\ Stock /\ Grown /\ case' = case /\ (Undisturbed' => Undisturbed)
      /\ Filed(nodes, r, m) /\ Timed(r, m, uids) /\ Walked(nodes, r)
  BY PoisedFacts
<1>1. r.pc = "walk" /\ r.i \notin DOMAIN nodes /\ Moves(g, FinishFields, {"status", "prune"}) /\ Writes(g, {"contribs"})
  BY <1>0, FinishFacts DEF Finish
<1>2. /\ s.ver = r.ver /\ s.prev = r.prev /\ s.intent = r.intent /\ s.applied = r.applied /\ s.soft = r.soft
      /\ graphs'[g].managed = m
  BY <1>1 DEF Moves, Writes, Edited, RunFields, FinishFields, Ended, GraphFields
<1>3. /\ Compiled(nodes) /\ nodes = case.specs[g][s.ver].nodes /\ Books(case.specs[g], wrote, g, r)
  BY <1>1, <1>2, InPlace
<1>4. /\ s.newSet = new /\ s.todo = prune
      /\ (s.pc = "prune" /\ ~r.hard) \/ (s.pc = "status" /\ s.managed = super)
  <2>1. Ends(g, r, s, graphs[g].contribs, graphs'[g].contribs)
    BY <1>0, FinishEnds
  <2> HIDE DEF r, s
  <2> QED
    BY <2>1 DEF Ends
<1>5. Splits(r.prev, r.applied, new, prune)
  BY DiffSplits
<1>6. Joins(r.intent, r.applied, super)
  <2>1. Listing(case.specs[g], wrote, g, r.intent)
    BY <1>3 DEF Books, Lists
  <2> QED
    BY <2>1, UnionJoins
<1>7. Sighted(g)'
  BY <1>4 DEF Sighted
<1> HIDE DEF r, s, m, nodes, I, new, prune, super
<1>8. /\ Alike(m, r.intent) /\ I \subseteq DOMAIN m /\ \A p \in DOMAIN r.applied : r.applied[p].uid # 0
      /\ \A o \in DOMAIN r.prev : o \in DOMAIN m /\ m[o].uid = r.prev[o].uid
      /\ \A o \in DOMAIN m \ DOMAIN r.prev : o \in I /\ m[o].uid = 0
  BY <1>0, <1>1 DEF Filed, Walking, I
<1>9. InTime(m, uids') /\ InTime(r.applied, uids')
  BY <1>0, <1>1, InTimeGrows DEF Timed, Walking
<1>10. CASE s.pc = "status" /\ s.managed = super
  <2>1. Filed(nodes, s, m)
    BY <1>10 DEF Filed, Pre, Before, Walking, Pruning, Down
  <2>2. Timed(s, m, uids')
    <3>1. InTime(r.intent, uids')
      BY <1>8, <1>9, AlikeInTime
    <3>2. InTime(super, uids')
      BY <1>6, <1>9, <3>1, JoinsInTime
    <3> QED
      BY <1>9, <1>10, <3>2 DEF Timed, Walking, Pruning
  <2>3. Walked(nodes, s)
    BY <1>10 DEF Walked, Walking
  <2>4. ASSUME NEW o, NEW u, u # 0, NEW ok \in BOOLEAN, NEW late, Tied(r, m, I, o, u, ok, late, Undisturbed)
        PROVE  Tied(s, m, I, o, u, ok, late, Undisturbed')
    BY <1>0, <1>1, <1>6, <1>8, <1>10, <2>4, WideTied DEF Walking
  <2>5. Keeps(g, r, m, I, s, m, I)
    BY <2>4 DEF Keeps
  <2>6. Leaves(g, s, m, nodes)
    BY <2>1, <2>2, <2>3, <2>5 DEF Leaves, r, m, I, nodes
  <2> QED
    BY <1>2, <1>3, <1>7, <2>6, TidyNext DEF s, m
<1>11. CASE s.pc = "prune" /\ ~r.hard
  <2>1. Filed(nodes, s, m)
    <3>1. \A o \in DOMAIN s.todo : o \in DOMAIN m /\ s.todo[o].uid = m[o].uid
      BY <1>4, <1>5, <1>8 DEF Splits
    <3>2. \A o \in DOMAIN s.applied : o \in DOMAIN s.newSet /\ s.newSet[o] = s.applied[o]
      BY <1>2, <1>4, <1>5 DEF Splits
    <3> QED
      BY <1>2, <1>8, <1>11, <3>1, <3>2 DEF Filed, Pre, Before, Pruning, Down, I
  <2>2. Timed(s, m, uids')
    <3>1. InTime(new, uids')
      <4> SUFFICES ASSUME NEW o \in DOMAIN new \cap Objects PROVE new[o].uid \in Nat /\ new[o].uid <= uids'[o]
        BY DEF InTime
      <4>1. CASE o \in DOMAIN r.applied
        BY <1>5, <1>9, <4>1 DEF Splits, InTime
      <4>2. CASE o \notin DOMAIN r.applied
        <5>1. new[o] = r.prev[o] /\ o \in DOMAIN m /\ m[o].uid = r.prev[o].uid
          BY <1>5, <1>8, <4>2 DEF Splits
        <5> QED
          BY <1>9, <5>1 DEF InTime
      <4> QED
        BY <4>1, <4>2
    <3> QED
      BY <1>2, <1>4, <1>9, <1>11, <3>1 DEF Timed, Closing
  <2>3. Walked(nodes, s)
    BY <1>11 DEF Walked, Walking
  <2>4. r.soft = None => I \subseteq DOMAIN r.applied
    <3> SUFFICES ASSUME r.soft = None, NEW o \in I PROVE o \in DOMAIN r.applied
      OBVIOUS
    <3>1. PICK j \in DOMAIN nodes : nodes[j] \in Announced(nodes) /\ nodes[j].kind = "template" /\ o \in nodes[j].items
      BY IntendedAnnounced DEF I
    <3>2. j < r.i
      <4> DEFINE N == Len(nodes)
                 k == r.i
      <4>1. N \in Nat /\ j \in 1..N /\ k \in 1..(N + 1) /\ k \notin 1..N
        BY <1>0, <1>1, <1>3 DEF Compiled, Walked, Walking
      <4> HIDE DEF N, k
      <4>2. k = N + 1 /\ j < N + 1
        BY <4>1
      <4> QED
        BY <4>2 DEF k
    <3> QED
      BY <1>0, <1>1, <1>11, <3>1, <3>2 DEF Walked, Walking
  <2>5. Splits(r.prev, r.applied, s.newSet, s.todo)
    BY <1>4, <1>5
  <2>6. ASSUME NEW o, NEW u, NEW ok \in BOOLEAN, NEW late, Tied(r, m, I, o, u, ok, late, Undisturbed)
        PROVE  Tied(s, m, I, o, u, ok, late, Undisturbed')
    BY <1>0, <1>1, <1>2, <1>11, <2>4, <2>5, <2>6, SplitTied DEF Walking, I
  <2>7. Keeps(g, r, m, I, s, m, I)
    BY <2>6 DEF Keeps
  <2>8. Leaves(g, s, m, nodes)
    BY <2>1, <2>2, <2>3, <2>7 DEF Leaves, r, m, I, nodes
  <2> QED
    BY <1>2, <1>3, <1>7, <2>8, TidyNext DEF s, m
<1> QED
  BY <1>4, <1>10, <1>11

LEMMA PrunedTied ==
    ASSUME NEW nodes, NEW r, NEW s, NEW m, NEW o, NEW u, u # 0, NEW ok \in BOOLEAN, NEW late, NEW quiet,
           NEW still, still => quiet, Tied(r, m, Intended(nodes), o, u, ok, late, quiet),
           r.pc = "prune", s.pc \in Closing, Filed(nodes, r, m), DOMAIN r.todo = {}, ~r.err,
           NEW x, Intended(nodes) \subseteq DOMAIN x, \A p \in DOMAIN x : x[p].uid = 0,
           (s.managed = r.newSet /\ r.soft = None) \/ Joins(r.newSet, x, s.managed)
    PROVE  Tied(s, m, Intended(nodes), o, u, ok, late, still)
<1> DEFINE I == Intended(nodes)
           y == s.managed
<1>1. o \in DOMAIN r.newSet => o \in DOMAIN y /\ y[o].uid = r.newSet[o].uid
  BY DEF Joins
<1>2. o \in I /\ r.soft # None /\ o \notin DOMAIN r.newSet => o \in DOMAIN y /\ y[o].uid = 0
  BY DEF Joins
<1>3. o \in DOMAIN r.applied => o \in DOMAIN r.newSet /\ r.newSet[o] = r.applied[o]
  BY DEF Filed, Pruning
<1> HIDE DEF I, y
<1>4. /\ Leads(m, o, u, ok) => \/ Sure(r.newSet, o, u)
                               \/ Sure(r.newSet, o, 0) /\ Sure(m, o, 0)
                               \/ o \in I /\ Sure(m, o, 0) /\ r.soft # None /\ o \notin DOMAIN r.newSet
      /\ still => Sure(m, o, u) \/ Sure(r.applied, o, u)
      /\ u = 1 /\ ok /\ ~late => Leads(m, o, u, ok)
  <2>1. r.pc \in Pruning /\ r.pc \in Walking \cup Pruning
    BY DEF Pruning
  <2>2. Leads(m, o, u, ok) => \/ r.err \/ o \in DOMAIN r.todo \/ Sure(r.newSet, o, u)
                              \/ Sure(r.newSet, o, 0) /\ Sure(m, o, 0)
                              \/ o \in I /\ Sure(m, o, 0) /\ r.soft # None /\ o \notin DOMAIN r.newSet
    BY <2>1 DEF Tied, I
  <2>3. still => Sure(m, o, u) \/ Sure(r.applied, o, u)
    BY <2>1 DEF Tied
  <2>4. u = 1 /\ ok /\ ~late => Leads(m, o, u, ok)
    BY DEF Tied
  <2>5. ~(r.err) /\ o \notin DOMAIN r.todo
    OBVIOUS
  <2>6. Leads(m, o, u, ok) => \/ Sure(r.newSet, o, u)
                              \/ Sure(r.newSet, o, 0) /\ Sure(m, o, 0)
                              \/ o \in I /\ Sure(m, o, 0) /\ r.soft # None /\ o \notin DOMAIN r.newSet
    BY <2>2, <2>5
  <2> QED
    BY <2>3, <2>4, <2>6
<1>5. Leads(m, o, u, ok) => Sure(y, o, u) \/ (Sure(y, o, 0) /\ Sure(m, o, 0))
  BY <1>1, <1>2, <1>4 DEF Sure
<1>6. still => Sure(y, o, u)
  <2>1. CASE Sure(m, o, u)
    <3>1. Sure(y, o, u) \/ Sure(m, o, 0)
      BY <1>5, <2>1 DEF Leads
    <3> QED
      BY <2>1, <3>1 DEF Sure
  <2>2. CASE Sure(r.applied, o, u)
    BY <1>1, <1>3, <2>2 DEF Sure
  <2> QED
    BY <1>4, <2>1, <2>2
<1> QED
  BY <1>4, <1>5, <1>6 DEF Tied, Walking, Pruning, Closing, y, I

LEMMA EndPruneTidy ==
    ASSUME NEW g \in Graphs, Poised(g), Inherits(g), EndPrune(g) PROVE Tidy(g)'
<1> DEFINE r == w[g]
           s == w'[g]
           m == graphs[g].managed
           nodes == Nodes(g)
           I == Intended(nodes)
           x == intendedManagedResources(nodes, r.val)
           some == unionManagedResources(r.newSet, x)
           super == unionManagedResources(r.intent, r.applied)
<1>0. /\ Shapes /\ Stock /\ Grown /\ case' = case /\ (Undisturbed' => Undisturbed)
      /\ Filed(nodes, r, m) /\ Timed(r, m, uids)
  BY PoisedFacts
<1>1. /\ r.pc = "prune" /\ DOMAIN r.todo = {} /\ Moves(g, Ended \cup {"managed", "rel"}, {"status", "release"})
      /\ UNCHANGED graphs
  BY <1>0, EndPruneFacts DEF EndPrune
<1>2. s.ver = r.ver /\ graphs'[g].managed = m /\ s.pc \in {"status", "release"}
  BY <1>1 DEF Moves, Edited, RunFields, Ended
<1>3. /\ Compiled(nodes) /\ nodes = case.specs[g][s.ver].nodes /\ Books(case.specs[g], wrote, g, r)
  BY <1>1, <1>2, InPlace
<1>4. \/ r.err /\ s.pc = "status" /\ s.managed = super
      \/ ~r.err /\ s.managed = some
      \/ ~r.err /\ r.soft = None /\ s.managed = r.newSet
  <2>1. Prunes(r, s, x)
    BY <1>0, EndPrunePrunes
  <2> HIDE DEF r, s, x
  <2> QED
    BY <2>1 DEF Prunes
<1>5. Joins(r.intent, r.applied, super) /\ Joins(r.newSet, x, some)
  <2>1. Listing(case.specs[g], wrote, g, r.intent) /\ Listing(case.specs[g], wrote, g, r.newSet)
    BY <1>3 DEF Books, Lists
  <2>2. Joins(r.intent, r.applied, super)
    BY <2>1, UnionJoins
  <2> HIDE DEF x
  <2>3. Joins(r.newSet, x, some)
    BY <2>1, UnionJoins
  <2> QED
    BY <2>2, <2>3
<1>6. I \subseteq DOMAIN x /\ \A p \in DOMAIN x : x[p].uid = 0
  BY <1>3, IntendedStays, IntendedIs
<1>7. Sighted(g)'
  BY <1>2 DEF Sighted
<1> HIDE DEF r, s, m, nodes, I, x, some, super
<1>8. Alike(m, r.intent) /\ \A p \in DOMAIN r.applied : r.applied[p].uid # 0
  BY <1>0, <1>1 DEF Filed, Pruning
<1>9. InTime(m, uids') /\ InTime(r.applied, uids') /\ InTime(r.newSet, uids')
  BY <1>0, <1>1, InTimeGrows DEF Timed, Pruning
<1>10. Filed(nodes, s, m) /\ Walked(nodes, s)
  BY <1>2 DEF Filed, Walked, Pre, Before, Walking, Pruning, Down
<1>11. Timed(s, m, uids')
  <2>1. InTime(super, uids')
    <3>1. InTime(r.intent, uids')
      BY <1>8, <1>9, AlikeInTime
    <3> QED
      BY <1>5, <1>9, <3>1, JoinsInTime
  <2>2. InTime(x, uids')
    BY <1>0, <1>6 DEF InTime, Grown
  <2>3. InTime(some, uids')
    BY <1>5, <1>9, <2>2, JoinsInTime
  <2>4. InTime(s.managed, uids')
    BY <1>4, <1>9, <2>1, <2>3
  <2> QED
    BY <1>2, <1>9, <2>4 DEF Timed, Walking, Pruning
<1>12. ASSUME NEW o, NEW u, u # 0, NEW ok \in BOOLEAN, NEW late, Tied(r, m, I, o, u, ok, late, Undisturbed)
       PROVE  Tied(s, m, I, o, u, ok, late, Undisturbed')
  <2>1. CASE r.err /\ s.pc = "status" /\ s.managed = super
    BY <1>0, <1>1, <1>5, <1>8, <1>12, <2>1, WideTied DEF Pruning
  <2>2. CASE ~r.err /\ (s.managed = some \/ (r.soft = None /\ s.managed = r.newSet))
    <3>1. s.pc \in Closing
      BY <1>2 DEF Closing
    <3>2. (s.managed = r.newSet /\ r.soft = None) \/ Joins(r.newSet, x, s.managed)
      BY <1>5, <2>2
    <3> QED
      BY <1>0, <1>1, <1>6, <1>12, <2>2, <3>1, <3>2, PrunedTied DEF I
  <2> QED
    BY <1>4, <2>1, <2>2
<1>13. Keeps(g, r, m, I, s, m, I)
  BY <1>12 DEF Keeps
<1>14. Leaves(g, s, m, nodes)
  BY <1>10, <1>11, <1>13 DEF Leaves, r, m, I, nodes
<1> QED
  BY <1>2, <1>3, <1>7, <1>14, TidyNext DEF s, m

\* A manager of templates is a Graph's.
Manned ==
    \A o \in Objects : Exists(objs[o]) =>
      \A m \in Managers(objs[o]) : IsTemplate(m) => \E h \in Graphs : m = templateFieldManager(h)

LEMMA TurnedManned ==
    ASSUME Manned, NEW m, Turned(m), IsTemplate(m) => \E h \in Graphs : m = templateFieldManager(h)
    PROVE  Manned'
<1> SUFFICES ASSUME NEW o \in Objects, Exists(objs'[o]), NEW k \in Managers(objs'[o]), IsTemplate(k)
             PROVE  \E h \in Graphs : k = templateFieldManager(h)
  BY DEF Manned
<1>1. Turn(objs[o], objs'[o], uids[o], uids'[o], m)
  BY DEF Turned
<1>2. k = m \/ (Exists(objs[o]) /\ k \in Managers(objs[o]))
  BY <1>1 DEF Turn
<1> QED
  BY <1>2 DEF Manned

LEMMA MannedStep == ASSUME Ground, Manned, [Next]_vars, case' = case PROVE Manned'
<1>1. Stock /\ Ordered
  BY DEF Ground, Ordered
<1>2. CASE Turned(Someone)
  <2>1. ~IsTemplate(Someone)
    BY DEF IsTemplate, Someone
  <2> QED
    BY <1>2, <2>1, TurnedManned
<1>3. ASSUME NEW g \in Graphs, NEW force \in BOOLEAN, ApplyObject(g, force) PROVE Manned'
  <2>1. w[g].at \in Objects
    BY <1>3, ApplyOutcome
  <2>2. Turned(Writer(g))
    BY <1>1, <1>3, <2>1, ApplyTurns
  <2>3. IsTemplate(Writer(g)) => Writer(g) = templateFieldManager(g)
    BY DEF IsTemplate, Writer, patchFieldManager
  <2> QED
    BY <2>2, <2>3, TurnedManned
<1> QED
  BY <1>1, <1>2, <1>3, StepTurns

\* What g does not own for its templates alone is not its own, or has a peer.
LEMMA NotOwned ==
    ASSUME Stock, Manned, NEW g \in Graphs, NEW o \in Objects, ~ownedByGraph(objs[o], g)
    PROVE  ~Mine(g, o) \/ ~Alone(g, o)
<1> SUFFICES ASSUME Mine(g, o) PROVE ~Alone(g, o)
  OBVIOUS
<1>1. Exists(objs[o]) /\ templateFieldManager(g) \in Managers(objs[o])
  BY DEF Mine
<1>2. PICK m \in Managers(objs[o]) : IsTemplate(m) /\ m.graph # g
  BY <1>1 DEF ownedByGraph
<1>3. PICK h \in Graphs : m = templateFieldManager(h)
  BY <1>1, <1>2 DEF Manned
<1>4. h # g
  BY <1>2, <1>3 DEF templateFieldManager
<1>5. Real(wrote, o, uids[o], objs[o])
  BY <1>1, ExistingIsReal DEF Stock
<1>6. <<h, o, objs[o].uid>> \in wrote
  BY <1>2, <1>3, <1>5 DEF Real, Marked
<1> QED
  BY <1>4, <1>6 DEF Alone

\* An entry is done with: it has failed, or the object is not g's to answer for any more.
Resolved(g, o, uid, failed) ==
    \/ failed \/ o \notin Objects \/ ~Mine(g, o)'
    \/ uid # 0 /\ objs[o].uid # uid
    \/ uid = 0 /\ ~Alone(g, o)
Sheds(g, r, s) ==
    \/ s.todo = r.todo /\ s.err = r.err
    \/ \E o, failed : s = Drop(r, o, failed) /\ Resolved(g, o, r.todo[o].uid, failed)

LEMMA DeletedIsGone ==
    ASSUME Stock, NEW g, NEW o \in Objects, SetObject(o, Deleted(o, objs[o])) PROVE ~Mine(g, o)'
<1>1. ~Exists(Deleted(o, objs[o])) \/ Deleted(o, objs[o]).term
  BY DeletedTurns DEF Stock
<1>2. objs'[o] = Deleted(o, objs[o])
  BY DEF SetObject, Stock
<1> QED
  BY <1>1, <1>2 DEF Mine

LEMMA DeleteEntrySheds ==
    ASSUME Shapes, Stock, Unserved, Manned, NEW g \in Graphs, DeleteEntry(g)
    PROVE  Sheds(g, w[g], w'[g])
<1> DEFINE r == w[g]
           s == w'[g]
           pc == IF r.pc = "prune" THEN "pruning" ELSE "deleting"
           x(o) == [r EXCEPT !.at = o, !.cur = objs[o], !.pc = pc]
           denied(o, reply) == ~MayClean(g, o) \/ reply = "fail"
           hit(o, reply) == Served(o) /\ ~denied(o, reply) /\ r.todo[o].uid # 0 /\ objs[o].uid = r.todo[o].uid
           lost(o, reply) == denied(o, reply) \/ ~Served(o) \/ reply = "lost"
<1>0. r.pc # "idle" /\ DOMAIN w = Graphs
  BY DEF DeleteEntry, Shapes
<1>1. DOMAIN r = RunFields
  BY <1>0, RunsFacts
<1>2. PICK o \in DOMAIN r.todo : \E reply \in Replies :
        /\ IF hit(o, reply) THEN SetObject(o, Deleted(o, objs[o])) ELSE UNCHANGED objs
        /\ Go(g, IF r.todo[o].uid # 0 THEN Drop(r, o, lost(o, reply))
                 ELSE IF ~Served(o) \/ denied(o, reply) THEN Drop(r, o, Served(o))
                 ELSE IF ~ownedByGraph(objs[o], g) THEN Drop(r, o, FALSE)
                 ELSE x(o))
  BY DEF DeleteEntry
<1>3. PICK reply \in Replies :
        /\ IF hit(o, reply) THEN SetObject(o, Deleted(o, objs[o])) ELSE UNCHANGED objs
        /\ Go(g, IF r.todo[o].uid # 0 THEN Drop(r, o, lost(o, reply))
                 ELSE IF ~Served(o) \/ denied(o, reply) THEN Drop(r, o, Served(o))
                 ELSE IF ~ownedByGraph(objs[o], g) THEN Drop(r, o, FALSE)
                 ELSE x(o))
  BY <1>2
<1> DEFINE uid == r.todo[o].uid
<1>4. s = IF uid # 0 THEN Drop(r, o, lost(o, reply))
          ELSE IF ~Served(o) \/ denied(o, reply) THEN Drop(r, o, Served(o))
          ELSE IF ~ownedByGraph(objs[o], g) THEN Drop(r, o, FALSE)
          ELSE x(o)
  BY <1>0, <1>3 DEF Go
<1>5. x(o).todo = r.todo /\ x(o).err = r.err
  BY <1>1 DEF RunFields
<1>6. o \in Objects /\ ~Served(o) => ~Mine(g, o)
  <2> SUFFICES ASSUME o \in Objects, ~Served(o), Mine(g, o) PROVE FALSE
    OBVIOUS
  <2>1. templateFieldManager(g) = Someone
    BY DEF Unserved, Mine
  <2> QED
    BY <2>1 DEF templateFieldManager, Someone
<1>7. UNCHANGED objs => (Mine(g, o)' <=> Mine(g, o))
  BY DEF Mine
<1>8. o \in Objects /\ hit(o, reply) => ~Mine(g, o)'
  BY <1>3, DeletedIsGone
<1>9. CASE uid # 0
  <2>1. Resolved(g, o, uid, lost(o, reply))
    BY <1>8, <1>9 DEF Resolved
  <2> QED
    BY <1>4, <1>9, <2>1 DEF Sheds
<1>10. CASE uid = 0 /\ (~Served(o) \/ denied(o, reply))
  <2>1. Resolved(g, o, uid, Served(o))
    BY <1>3, <1>6, <1>7, <1>10 DEF Resolved
  <2> QED
    BY <1>4, <1>10, <2>1 DEF Sheds
<1>11. CASE uid = 0 /\ ~(~Served(o) \/ denied(o, reply)) /\ ~ownedByGraph(objs[o], g)
  <2>1. Resolved(g, o, uid, FALSE)
    BY <1>3, <1>7, <1>11, NotOwned DEF Resolved
  <2> QED
    BY <1>4, <1>11, <2>1 DEF Sheds
<1>12. CASE uid = 0 /\ ~(~Served(o) \/ denied(o, reply)) /\ ownedByGraph(objs[o], g)
  BY <1>4, <1>5, <1>12 DEF Sheds
<1> QED
  BY <1>9, <1>10, <1>11, <1>12

LEMMA DeleteCheckedSheds ==
    ASSUME Shapes, Stock, NEW g \in Graphs, DeleteChecked(g)
    PROVE  Sheds(g, w[g], w'[g])
<1>0. PICK o : o = w[g].at
  OBVIOUS
<1> DEFINE r == w[g]
           hit(reply) == reply # "fail" /\ objs[o] = r.cur
           failed(reply) == reply # "ok" \/ (Exists(objs[o]) /\ ~hit(reply))
<1>1. PICK reply \in Replies :
        /\ IF hit(reply) THEN SetObject(o, Deleted(o, objs[o])) ELSE UNCHANGED objs
        /\ Go(g, Drop(r, o, failed(reply)))
  BY <1>0 DEF DeleteChecked
<1>2. w'[g] = Drop(r, o, failed(reply))
  BY <1>1 DEF Go, Shapes
<1>3. o \in Objects /\ hit(reply) => ~Mine(g, o)'
  BY <1>1, DeletedIsGone
<1>4. UNCHANGED objs /\ ~Exists(objs[o]) => ~Mine(g, o)'
  BY DEF Mine
<1>5. Resolved(g, o, r.todo[o].uid, failed(reply))
  BY <1>1, <1>3, <1>4 DEF Resolved
<1> QED
  BY <1>2, <1>5 DEF Sheds

\* The entries left after a drop.
Shrinks(r, s, o, failed) ==
    /\ DOMAIN s.todo = DOMAIN r.todo \ {o} /\ \A p \in DOMAIN s.todo : s.todo[p] = r.todo[p]
    /\ r.err \/ failed => s.err

LEMMA DropShrinks ==
    ASSUME NEW r, DOMAIN r = RunFields, NEW o, NEW failed, NEW s, s = Drop(r, o, failed)
    PROVE  Shrinks(r, s, o, failed)
<1> DEFINE e == r.err \/ failed
           t == [x \in DOMAIN r.todo \ {o} |-> r.todo[x]]
           p == IF r.pc \in {"prune", "pruning"} THEN "prune" ELSE "delete"
           y == [r EXCEPT !.todo = t, !.err = e, !.at = None, !.cur = NoObject, !.pc = p]
<1>1. Drop(r, o, failed) = y
  BY DEF Drop
<1>2. DOMAIN t = DOMAIN r.todo \ {o} /\ \A x \in DOMAIN t : t[x] = r.todo[x]
  OBVIOUS
<1>3. r.err \/ failed => e
  OBVIOUS
<1> HIDE DEF e, t, p
<1>4. y.todo = t /\ y.err = e
  BY DEF RunFields
<1> HIDE DEF y
<1> QED
  BY <1>1, <1>2, <1>3, <1>4 DEF Shrinks

LEMMA ShedsTidy ==
    ASSUME NEW g \in Graphs, Poised(g), Inherits(g), Sheds(g, w[g], w'[g]),
           w[g].pc \in Pruning \cup {"delete", "deleting"}, Moves(g, DeleteFields, Phase(w[g].pc)), Writes(g, {})
    PROVE  Tidy(g)'
<1> DEFINE r == w[g]
           s == w'[g]
           m == graphs[g].managed
           nodes == Nodes(g)
           I == Intended(nodes)
<1>0. /\ Stock /\ Grown /\ case' = case /\ (Undisturbed' => Undisturbed)
      /\ Filed(nodes, r, m) /\ Timed(r, m, uids) /\ DOMAIN r = RunFields /\ nodes = case.specs[g][r.ver].nodes
  <2>1. r.pc # "idle"
    BY DEF Pruning
  <2> QED
    BY <2>1, PoisedFacts, InPlace
<1>1. /\ s.ver = r.ver /\ s.prev = r.prev /\ s.intent = r.intent /\ s.applied = r.applied /\ s.newSet = r.newSet
      /\ s.soft = r.soft /\ s.managed = r.managed /\ graphs'[g].managed = m
  BY DEF Moves, Writes, Edited, RunFields, DeleteFields, GraphFields
<1>2. \/ r.pc \in Pruning /\ s.pc \in Pruning
      \/ r.pc \in {"delete", "deleting"} /\ s.pc \in {"delete", "deleting"}
  BY DEF Moves, Phase, Pruning
<1>3. \/ s.todo = r.todo /\ s.err = r.err
      \/ \E o, failed : Shrinks(r, s, o, failed) /\ Resolved(g, o, r.todo[o].uid, failed)
  <2>1. CASE \E o, failed : s = Drop(r, o, failed) /\ Resolved(g, o, r.todo[o].uid, failed)
    <3>1. PICK o : \E failed : s = Drop(r, o, failed) /\ Resolved(g, o, r.todo[o].uid, failed)
      BY <2>1
    <3>2. PICK failed : s = Drop(r, o, failed) /\ Resolved(g, o, r.todo[o].uid, failed)
      BY <3>1
    <3>3. Shrinks(r, s, o, failed)
      BY <1>0, <3>2, DropShrinks
    <3> QED
      BY <3>2, <3>3
  <2> QED
    BY <2>1 DEF Sheds
<1>4. Sighted(g)'
  BY <1>2 DEF Sighted, Pruning
<1> HIDE DEF r, s, m, nodes, I
<1>5. DOMAIN s.todo \subseteq DOMAIN r.todo /\ \A p \in DOMAIN s.todo : s.todo[p] = r.todo[p]
  BY <1>3 DEF Shrinks
<1>6. Filed(nodes, s, m)
  <2>1. \A o \in DOMAIN s.todo : o \in DOMAIN m /\ s.todo[o].uid = m[o].uid
    BY <1>0, <1>2, <1>5 DEF Filed
  <2>2. CASE r.pc \in Pruning /\ s.pc \in Pruning
    BY <1>0, <1>1, <2>1, <2>2 DEF Filed, Pre, Before, Walking, Pruning, Down
  <2>3. CASE r.pc \in {"delete", "deleting"} /\ s.pc \in {"delete", "deleting"}
    BY <1>0, <1>1, <2>1, <2>3 DEF Filed, Pre, Before, Walking, Pruning, Down
  <2> QED
    BY <1>2, <2>2, <2>3
<1>7. Timed(s, m, uids')
  <2>1. InTime(m, uids') /\ (s.pc \in Pruning => InTime(s.applied, uids') /\ InTime(s.newSet, uids'))
    BY <1>0, <1>1, <1>2, InTimeGrows DEF Timed, Pruning
  <2> QED
    BY <1>2, <2>1 DEF Timed, Walking, Pruning, Closing
<1>8. Walked(nodes, s)
  BY <1>2 DEF Walked, Walking, Pruning
<1>9. ASSUME NEW o \in Objects, NEW u, u = objs[o].uid, u # 0, Mine(g, o)', NEW ok \in BOOLEAN, ok => Alone(g, o),
             NEW late, Tied(r, m, I, o, u, ok, late, Undisturbed)
      PROVE  Tied(s, m, I, o, u, ok, late, Undisturbed')
  <2>1. Leads(m, o, u, ok) /\ o \in DOMAIN r.todo => s.err \/ o \in DOMAIN s.todo
    <3> SUFFICES ASSUME Leads(m, o, u, ok), o \in DOMAIN r.todo, o \notin DOMAIN s.todo PROVE s.err
      OBVIOUS
    <3>1. PICK p : \E failed : Shrinks(r, s, p, failed) /\ Resolved(g, p, r.todo[p].uid, failed)
      BY <1>3
    <3>2. PICK failed : Shrinks(r, s, p, failed) /\ Resolved(g, p, r.todo[p].uid, failed)
      BY <3>1
    <3>3. p = o
      BY <3>2 DEF Shrinks
    <3>4. Resolved(g, o, r.todo[o].uid, failed)
      BY <3>2, <3>3
    <3>5. r.todo[o].uid = m[o].uid
      BY <1>0, <1>2 DEF Filed
    <3>6. failed \/ (m[o].uid # 0 /\ u # m[o].uid) \/ (m[o].uid = 0 /\ ~Alone(g, o))
      BY <1>9, <3>4, <3>5 DEF Resolved
    <3>7. failed
      BY <1>9, <3>6 DEF Leads, Sure
    <3> QED
      BY <3>2, <3>7 DEF Shrinks
  <2>2. r.err => s.err
    BY <1>3 DEF Shrinks
  <2>3. CASE r.pc \in Pruning /\ s.pc \in Pruning
    <3>1. r.pc \in Walking \cup Pruning /\ s.pc \in Walking \cup Pruning /\ s.pc \notin Closing
          /\ s.pc \notin {"delete", "deleting"} /\ s.pc \notin {"unlink", "unlinking"}
      BY <2>3 DEF Pruning, Closing
    <3>2. Leads(m, o, u, ok) => \/ s.err \/ o \in DOMAIN s.todo \/ Sure(s.newSet, o, u)
                                \/ Sure(s.newSet, o, 0) /\ Sure(m, o, 0)
                                \/ o \in I /\ Sure(m, o, 0) /\ s.soft # None /\ o \notin DOMAIN s.newSet
      BY <1>1, <1>9, <2>1, <2>2, <2>3 DEF Tied
    <3> QED
      BY <1>0, <1>1, <1>9, <3>1, <3>2 DEF Tied
  <2>4. CASE r.pc \in {"delete", "deleting"} /\ s.pc \in {"delete", "deleting"}
    <3>1. s.pc \notin Walking \cup Pruning /\ s.pc \notin Closing /\ s.pc \notin {"unlink", "unlinking"}
          /\ r.pc \notin Walking \cup Pruning /\ r.pc \notin Closing
      BY <2>4 DEF Pruning, Closing, Walking
    <3>2. Leads(m, o, u, ok) => s.err \/ o \in DOMAIN s.todo
      BY <1>9, <2>1, <2>2, <2>4 DEF Tied
    <3> QED
      BY <1>0, <1>9, <2>4, <3>1, <3>2 DEF Tied
  <2> QED
    BY <1>2, <2>3, <2>4
<1>10. Keeps(g, r, m, I, s, m, I)
  BY <1>9 DEF Keeps
<1>11. Leaves(g, s, m, nodes)
  BY <1>6, <1>7, <1>8, <1>10 DEF Leaves, r, m, I, nodes
<1> QED
  BY <1>0, <1>1, <1>4, <1>11, TidyNext DEF s, m

LEMMA DeleteTidy ==
    ASSUME NEW g \in Graphs, Poised(g), Inherits(g), Manned, DeleteEntry(g) \/ DeleteChecked(g) PROVE Tidy(g)'
<1>0. Shapes /\ Stock /\ Unserved
  BY PoisedFacts
<1>1. CASE DeleteEntry(g)
  <2>1. Sheds(g, w[g], w'[g])
    BY <1>0, <1>1, DeleteEntrySheds
  <2>2. w[g].pc \in Pruning \cup {"delete", "deleting"} /\ Moves(g, DeleteFields, Phase(w[g].pc)) /\ Writes(g, {})
    BY <1>0, <1>1, DeleteEntryFacts DEF Pruning
  <2> QED
    BY <2>1, <2>2, ShedsTidy
<1>2. CASE DeleteChecked(g)
  <2>1. Sheds(g, w[g], w'[g])
    BY <1>0, <1>2, DeleteCheckedSheds
  <2>2. w[g].pc \in Pruning \cup {"delete", "deleting"} /\ Moves(g, DeleteFields, Phase(w[g].pc)) /\ Writes(g, {})
    BY <1>0, <1>2, DeleteCheckedFacts DEF Pruning
  <2> QED
    BY <2>1, <2>2, ShedsTidy
<1> QED
  BY <1>1, <1>2

LEMMA ReconcileTidy ==
    ASSUME NEW g \in Graphs, Poised(g), Manned, Newest', Stock', Reconcile(g), [Next]_vars PROVE Tidy(g)'
<1>1. CASE \E force \in BOOLEAN : ApplyObject(g, force)
  BY <1>1, ApplyObjectTidy
<1>2. CASE ~\E force \in BOOLEAN : ApplyObject(g, force)
  <2>1. Inherits(g)
    BY <1>2, OthersInherit DEF Poised, Ground
  <2>2. CASE \/ CompileStart(g) \/ CompileEnd(g) \/ WriteAheadContributions(g)
             \/ EndDelete(g) \/ ReleaseGet(g) \/ ReleaseApply(g) \/ SettleContributions(g)
    BY <2>1, <2>2, QuietTidy
  <2>3. CASE Begin(g) \/ setManaged(g) \/ WriteAheadManaged(g) \/ EnterNode(g) \/ GetLive(g)
    BY <2>1, <2>3, BeginTidy, SetManagedTidy, WriteAheadManagedTidy, EnterNodeTidy, GetLiveTidy
  <2>4. CASE Finish(g) \/ DeleteEntry(g) \/ DeleteChecked(g) \/ EndPrune(g)
    BY <2>1, <2>4, FinishTidy, DeleteTidy, EndPruneTidy
  <2>5. CASE updateStatus(g) \/ setUnmanaged(g)
    BY <2>1, <2>5, UpdateStatusTidy, SetUnmanagedTidy
  <2> QED
    BY <1>2, <2>2, <2>3, <2>4, <2>5 DEF Reconcile
<1> QED
  BY <1>1, <1>2

LEMMA StepGrows ==
    ASSUME Ground, Stock', [Next]_vars, case' = case PROVE Grown /\ wrote \subseteq wrote'
<1>0. Stock
  BY DEF Ground, Ordered
<1>1. \E m : Turned(m)
  <2>1. ASSUME NEW g \in Graphs, NEW force \in BOOLEAN, ApplyObject(g, force) PROVE Turned(Writer(g))
    BY <1>0, <2>1, ApplyOutcome, ApplyTurns
  <2> QED
    BY <1>0, <2>1, StepTurns
<1>2. PICK m : Turned(m)
  BY <1>1
<1>3. ASSUME NEW o \in Objects PROVE uids[o] <= uids'[o]
  <2>1. Turn(objs[o], objs'[o], uids[o], uids'[o], m)
    BY <1>2 DEF Turned
  <2>2. uids[o] \in Nat /\ (uids'[o] = uids[o] \/ uids'[o] = uids[o] + 1)
    BY <1>0, <2>1 DEF Turn, Stock
  <2> QED
    BY <2>2
<1>4. wrote \subseteq wrote'
  <2>1. CASE \E g \in Graphs : Reconcile(g)
    BY <2>1, WroteGrows
  <2>2. CASE ~\E g \in Graphs : Reconcile(g)
    BY <2>2 DEF Next, EditGraph, DeleteGraph, Drain, Meddle, Report, Gone, CrdChanges, CrdEvent, Crash, vars
  <2> QED
    BY <2>1, <2>2
<1> QED
  BY <1>3, <1>4 DEF Grown, Stock

Tidied == \A g \in Graphs : Tidy(g)

LEMMA TidyStep ==
    ASSUME Ground, Manned, Tidied, Stock', [Next]_vars PROVE Tidied'
<1>0. /\ Ordered /\ Shapes /\ Budgeted /\ Lifecycle /\ case' = case /\ (Undisturbed' => Undisturbed) /\ Newest'
  BY CaseFixed, BudgetStep, GroundStep DEF Ground, Ordered, Tracked, Attention, vars
<1>1. \A g \in Graphs : Poised(g)
  BY <1>0, StepGrows DEF Tidied, Poised
<1>2. ASSUME NEW g \in Graphs, ~\E force \in BOOLEAN : ApplyObject(g, force) PROVE Inherits(g)
  BY <1>0, <1>2, OthersInherit
<1>3. ASSUME NEW h \in Graphs, w'[h] = w[h], graphs'[h].managed = graphs[h].managed PROVE Tidy(h)'
  <2>1. CASE \E force \in BOOLEAN : ApplyObject(h, force)
    BY <1>0, <1>1, <2>1, ApplyObjectTidy
  <2>2. CASE ~\E force \in BOOLEAN : ApplyObject(h, force)
    BY <1>0, <1>1, <1>2, <1>3, <2>2, StaysTidy
  <2> QED
    BY <2>1, <2>2
<1>4. ASSUME NEW g \in Graphs, Reconcile(g), NEW h \in Graphs PROVE Tidy(h)'
  <2>1. CASE h = g
    BY <1>0, <1>1, <1>4, <2>1, ReconcileTidy
  <2>2. CASE h # g
    BY <1>0, <1>3, <1>4, <2>2, ReconcileLocal
  <2> QED
    BY <2>1, <2>2
<1>5. ASSUME NEW h \in Graphs,
             \/ \E g \in Graphs : EditGraph(g) \/ DeleteGraph(g) \/ Drain(g)
             \/ \E o \in Objects : Meddle(o) \/ Report(o) \/ Gone(o)
             \/ \E k \in Kinds : CrdChanges(k) \/ CrdEvent(k)
             \/ UNCHANGED vars
      PROVE  Tidy(h)'
  <2>1. w'[h] = w[h] /\ graphs'[h].managed = graphs[h].managed
    <3>1. CASE \E g \in Graphs : EditGraph(g) \/ DeleteGraph(g)
      BY <1>0, <3>1, UsersLiving DEF Lifecycle
    <3>2. CASE ~\E g \in Graphs : EditGraph(g) \/ DeleteGraph(g)
      BY <1>5, <3>2 DEF Drain, Meddle, Report, Gone, CrdChanges, CrdEvent, vars
    <3> QED
      BY <3>1, <3>2
  <2> QED
    BY <1>3, <2>1
<1>6. ASSUME NEW h \in Graphs, Crash PROVE Tidy(h)'
  <2>1. graphs' = graphs /\ w'[h] = Idle /\ ~Undisturbed'
    BY <1>0, <1>6, CrashDisturbs DEF Crash
  <2>2. CASE \E force \in BOOLEAN : ApplyObject(h, force)
    BY <1>0, <1>1, <2>2, ApplyObjectTidy
  <2>3. CASE ~\E force \in BOOLEAN : ApplyObject(h, force)
    BY <1>1, <1>2, <2>1, <2>3, HaltsTidy
  <2> QED
    BY <2>2, <2>3
<1> QED
  BY <1>4, <1>5, <1>6 DEF Next, Tidied

LEMMA TidyInit == ASSUME Init PROVE Manned /\ Tidied
<1>1. \A o \in Objects : objs[o] = NoObject \/ Managers(objs[o]) \subseteq {Someone}
  BY CasesAssumption DEF Init
<1>2. ~Exists(NoObject) /\ ~IsTemplate(Someone) /\ \A g : Someone # templateFieldManager(g)
  BY DEF Exists, NoObject, IsTemplate, Someone, templateFieldManager
<1>3. Manned
  BY <1>1, <1>2 DEF Manned
<1>4. ASSUME NEW g \in Graphs PROVE Tidy(g)
  <2> DEFINE m == graphs[g].managed
             nodes == Nodes(g)
  <2>1. w[g] = Idle /\ Idle.pc = "idle" /\ m = <<>>
    BY DEF Init, Idle
  <2>2. \A o \in Objects : ~Mine(g, o)
    BY <1>1, <1>2 DEF Mine
  <2>3. InTime(m, uids)
    BY <2>1 DEF InTime
  <2> HIDE DEF m, nodes
  <2>4. Filed(nodes, Idle, m) /\ Timed(Idle, m, uids) /\ Walked(nodes, Idle)
    BY <2>1, <2>3 DEF Filed, Timed, Walked, Pre, Before, Walking, Pruning, Closing, Down
  <2> QED
    BY <2>1, <2>2, <2>4 DEF Tidy, Tethered, Sighted, m, nodes
<1> QED
  BY <1>3, <1>4 DEF Tidied

LEMMA TidyHolds == Spec => [](Ground /\ Manned /\ Tidied)
<1>1. Init => (Unserved /\ Newest /\ Budgeted /\ Lifecycle) /\ Manned /\ Tidied
  BY GroundInit, TidyInit
<1>2. Ordered /\ Ordered' /\ (Unserved /\ Newest /\ Budgeted /\ Lifecycle) /\ Manned /\ Tidied /\ [Next]_vars
      => ((Unserved /\ Newest /\ Budgeted /\ Lifecycle) /\ Manned /\ Tidied)'
  <2> SUFFICES ASSUME Ground, Ordered', Manned, Tidied, [Next]_vars
               PROVE  ((Unserved /\ Newest /\ Budgeted /\ Lifecycle) /\ Manned /\ Tidied)'
    BY DEF Ground
  <2>1. Stock' /\ Shapes
    BY DEF Ordered, Ground, Tracked, Attention
  <2>2. case' = case
    BY CaseFixed DEF vars
  <2>3. Unserved' /\ Newest' /\ Budgeted' /\ Lifecycle'
    BY GroundStep
  <2>4. Manned'
    BY <2>2, MannedStep
  <2>5. Tidied'
    BY <2>1, TidyStep
  <2> QED
    BY <2>3, <2>4, <2>5
<1> QED
  BY <1>1, <1>2, OrderedHolds, PTL DEF Spec, Ground

\* Of a Graph that is gone no template object is left (the inventory of
\* status.managedResources: the write-ahead of Reconcile, diffManagedResources, Delete
\* and the finalizer), however the edits, deletions, peers, people, CRD changes,
\* crashes, failed calls and lost answers fell; after a crash or a failed call alone
\* there may be the object of a node the write-ahead cannot announce, one that has come
\* up again under a new UID, or one that a peer has written too.
THEOREM NothingIsOrphaned == Spec => []NoOrphans
<1>1. Ground /\ Manned /\ Tidied => NoOrphans
  <2> SUFFICES ASSUME Ground, Tidied, NEW g \in DOMAIN case.specs, NEW o \in Objects, ~graphs[g].up, Mine(g, o)
               PROVE  /\ ~Undisturbed
                      /\ LateTemplate(g, o) \/ objs[o].uid > 1 \/ ~Alone(g, o)
    BY DEF NoOrphans, LateTemplate
  <2>1. g \in Graphs
    BY CasesAssumption DEF Ground, Budgeted
  <2>2. Living(g) /\ Tethered(g) /\ Stock
    BY <2>1 DEF Ground, Lifecycle, Tidied, Tidy, Ordered
  <2> DEFINE m == graphs[g].managed
             u == objs[o].uid
             I == Intended(Nodes(g))
             r == w[g]
             ok == Sole(g, o)
             late == LateTemplate(g, o)
  <2>3. m = <<>> /\ r.pc \in {"idle", "manage"}
    BY <2>2 DEF Living
  <2>4. Tied(r, m, I, o, u, ok, late, Undisturbed)
    BY <2>2 DEF Tethered
  <2>5. uids[o] \in Nat /\ u \in 1..uids[o]
    BY <2>2, ExistingIsReal DEF Mine, Stock, Real
  <2>6. ~Sure(m, o, u) /\ ~Leads(m, o, u, ok)
    BY <2>3 DEF Sure, Leads
  <2>7. ~ok => ~Alone(g, o) \/ u # 1
    BY DEF Sole
  <2> HIDE DEF m, u, I, r, ok, late
  <2>8. r.pc \notin Walking \cup Pruning /\ r.pc \notin Closing
    BY <2>3 DEF Walking, Pruning, Closing
  <2>9. ~Undisturbed /\ (late \/ ~ok \/ u # 1)
    BY <2>4, <2>6, <2>8 DEF Tied
  <2>10. u # 1 => u > 1
    <3> DEFINE k == uids[o]
    <3>1. k \in Nat /\ u \in 1..k
      BY <2>5
    <3> HIDE DEF k
    <3> QED
      BY <3>1
  <2> QED
    BY <2>7, <2>9, <2>10 DEF late, u
<1> QED
  BY <1>1, TidyHolds, PTL

-----------------------------------------------------------------------------
(* The inventory of a Graph is one: the refinement.                        *)

\* No object is a Graph's at first.
LEMMA NoneIsMine == ASSUME Init, NEW g \in Graphs, NEW o \in Objects PROVE ~Mine(g, o)
<1>1. objs[o] = NoObject \/ Managers(objs[o]) \subseteq {Someone}
  BY CasesAssumption DEF Init
<1>2. ~Exists(NoObject) /\ Someone # templateFieldManager(g)
  BY DEF Exists, NoObject, Someone, templateFieldManager
<1> QED
  BY <1>1, <1>2 DEF Mine

LEMMA InventoryInit == ASSUME Init PROVE Inventory!Init
<1>1. \A g \in Graphs : graphs[g].managed = <<>>
  BY DEF Init
<1>2. \A g \in Graphs : Held(g) = {}
  BY NoneIsMine DEF Held
<1>3. \A g \in Graphs : DOMAIN graphs[g].managed = {}
  BY <1>1
<1> QED
  BY <1>2, <1>3 DEF Inventory!Init

\* The inventories are the same, and what is held was held.
Losing ==
    /\ \A g \in Graphs : graphs'[g].up = graphs[g].up /\ graphs'[g].managed = graphs[g].managed
    /\ \A g \in Graphs : Held(g)' \subseteq Held(g)

LEMMA LosingLoses == ASSUME Losing PROVE Inventory!Lose
<1>1. {g \in Graphs : graphs'[g].up} = {g \in Graphs : graphs[g].up}
  BY DEF Losing
<1>2. [g \in Graphs |-> DOMAIN graphs'[g].managed] = [g \in Graphs |-> DOMAIN graphs[g].managed]
  BY DEF Losing
<1>3. [g \in Graphs |-> Held(g)'] \in [Graphs -> SUBSET Objects]
  BY DEF Held
<1>4. \A g \in Graphs : [h \in Graphs |-> Held(h)'][g] \subseteq [h \in Graphs |-> Held(h)][g]
  BY DEF Losing
<1> QED
  BY <1>1, <1>2, <1>3, <1>4 DEF Inventory!Lose

\* The stored inventory leads to every object it has to answer for: what can be
\* foreseen is listed, whatever has failed, because it was written ahead.
LEMMA ForeseenLeads ==
    ASSUME NEW g, Tethered(g), NEW o \in Objects, Mine(g, o), Foreseen(g, o)
    PROVE  Leads(graphs[g].managed, o, objs[o].uid, Sole(g, o))
<1>1. Tied(w[g], graphs[g].managed, Intended(Nodes(g)), o, objs[o].uid,
           Sole(g, o), LateTemplate(g, o), Undisturbed)
  BY DEF Tethered
<1>2. objs[o].uid = 1 /\ Sole(g, o) /\ ~LateTemplate(g, o)
  BY DEF Foreseen, Sole, LateTemplate
<1> QED
  BY <1>1, <1>2 DEF Tied

LEMMA HeldLeads ==
    ASSUME NEW g, Tethered(g), NEW o \in Objects
    PROVE  o \in Held(g) <=> Mine(g, o) /\ Leads(graphs[g].managed, o, objs[o].uid, Sole(g, o))
<1>1. Listed(g, graphs[g].managed, o) <=> Leads(graphs[g].managed, o, objs[o].uid, Sole(g, o))
  BY DEF Listed, Leads, Sure, Sole
<1> QED
  BY <1>1, ForeseenLeads DEF Held

LEMMA HeldLeadsAfter ==
    ASSUME NEW g, Tethered(g)', NEW o \in Objects
    PROVE  o \in Held(g)' <=> Mine(g, o)' /\ Leads(graphs'[g].managed, o, objs'[o].uid, Sole(g, o)')
<1>1. Listed(g, graphs[g].managed, o)' <=> Leads(graphs'[g].managed, o, objs'[o].uid, Sole(g, o)')
  BY DEF Listed, Leads, Sure, Sole
<1>2. Mine(g, o)' /\ Foreseen(g, o)' => Leads(graphs'[g].managed, o, objs'[o].uid, Sole(g, o)')
  <2> SUFFICES ASSUME Mine(g, o)', Foreseen(g, o)'
               PROVE  Leads(graphs'[g].managed, o, objs'[o].uid, Sole(g, o)')
    OBVIOUS
  <2>1. Tied(w'[g], graphs'[g].managed, Intended(Nodes(g))', o, objs'[o].uid,
             Sole(g, o)', LateTemplate(g, o)', Undisturbed')
    BY DEF Tethered
  <2>2. objs'[o].uid = 1 /\ Sole(g, o)' /\ ~LateTemplate(g, o)'
    BY DEF Foreseen, Sole, LateTemplate
  <2> QED
    BY <2>1, <2>2 DEF Tied
<1> QED
  BY <1>1, <1>2 DEF Held

\* Every Graph's objects are tethered, before and after the step.
Fast == \A g \in Graphs : Tethered(g) /\ Tethered(g)'

LEMMA HeldInherits ==
    ASSUME Fast, NEW h \in Graphs, Inherits(h), case' = case, wrote \subseteq wrote', graphs'[h].managed = graphs[h].managed
    PROVE  Held(h)' \subseteq Held(h)
<1> SUFFICES ASSUME NEW o \in Objects, o \in Held(h)' PROVE o \in Held(h)
  BY DEF Held
<1>1. Mine(h, o)' /\ Leads(graphs'[h].managed, o, objs'[o].uid, Sole(h, o)')
  BY HeldLeadsAfter DEF Fast
<1>2. Mine(h, o) /\ objs'[o].uid = objs[o].uid /\ (Sole(h, o)' => Sole(h, o))
  BY <1>1, MineInherits
<1>3. Leads(graphs[h].managed, o, objs[o].uid, Sole(h, o))
  BY <1>1, <1>2 DEF Leads
<1> QED
  BY <1>2, <1>3, HeldLeads DEF Fast

\* An inventory that is replaced by one that leads to all that is held.
LEMMA KeepingRecords ==
    ASSUME Fast, NEW g \in Graphs, graphs[g].up, graphs'[g].up = graphs[g].up, TypeOK', UNCHANGED <<objs, wrote, case>>,
           \A h \in Graphs \ {g} : graphs'[h] = graphs[h],
           NEW t, t = graphs'[g].managed,
           \A o \in Held(g) : Leads(t, o, objs[o].uid, Sole(g, o))
    PROVE  Inventory!Record(g)
<1>1. ASSUME NEW h \in Graphs, NEW o \in Objects
      PROVE  Mine(h, o)' = Mine(h, o) /\ Sole(h, o)' = Sole(h, o) /\ Mine(h, o) \in BOOLEAN /\ Sole(h, o) \in BOOLEAN
  BY DEF Mine, Sole, Alone
<1>2. ASSUME NEW h \in Graphs \ {g} PROVE Held(h)' = Held(h) /\ graphs'[h] = graphs[h]
  <2>1. ASSUME NEW o \in Objects PROVE o \in Held(h)' <=> o \in Held(h)
    BY <1>1, <1>2, <2>1, HeldLeads, HeldLeadsAfter DEF Fast
  <2> QED
    BY <2>1 DEF Held
<1>3. Held(g) \subseteq Held(g)'
  <2> SUFFICES ASSUME NEW o \in Objects, o \in Held(g) PROVE o \in Held(g)'
    BY DEF Held
  <2>1. Mine(g, o) /\ Leads(t, o, objs[o].uid, Sole(g, o))
    BY HeldLeads DEF Fast
  <2> QED
    BY <1>1, <2>1, HeldLeadsAfter DEF Fast
<1>4. Held(g)' \subseteq DOMAIN t
  <2> SUFFICES ASSUME NEW o \in Objects, o \in Held(g)' PROVE o \in DOMAIN t
    BY DEF Held
  <2> QED
    BY HeldLeadsAfter DEF Fast, Leads, Sure
<1>5. {h \in Graphs : graphs'[h].up} = {h \in Graphs : graphs[h].up} /\ g \in {h \in Graphs : graphs[h].up}
  BY <1>2
<1>6. [h \in Graphs |-> DOMAIN graphs'[h].managed] \in [Graphs -> SUBSET Objects]
  BY DEF TypeOK
<1>7. [h \in Graphs |-> Held(h)'] \in [Graphs -> SUBSET Objects]
  BY DEF Held
<1>8. \A h \in Graphs \ {g} : DOMAIN graphs'[h].managed = DOMAIN graphs[h].managed /\ Held(h)' = Held(h)
  BY <1>2
<1> QED
  BY <1>3, <1>4, <1>5, <1>6, <1>7, <1>8 DEF Inventory!Record

LEMMA WriteAheadRecords ==
    ASSUME Fast, NEW g \in Graphs, Poised(g), TypeOK', WriteAheadManaged(g) PROVE Inventory!Record(g)
<1> DEFINE r == w[g]
           m == graphs[g].managed
           t == graphs'[g].managed
           nodes == Nodes(g)
           i == intendedManagedResources(nodes, r.val)
           x == unionManagedResources(r.prev, i)
           y == unionManagedResources(m, x)
<1>0. Shapes /\ Budgeted /\ case' = case /\ Filed(nodes, r, m) /\ Living(g)
  BY PoisedFacts
<1>1. r.pc = "intent" /\ Writes(g, {"managed"})
  BY <1>0, WriteAheadManagedFacts
<1>2. Listing(case.specs[g], wrote, g, m)
  BY <1>1, InPlace
<1>3. t = y \/ t = m
  <2>1. Foresees(r, w'[g], m, t, x, y)
    BY <1>0, WriteAheadForesees
  <2> HIDE DEF r, m, t, x, y
  <2> QED
    BY <2>1 DEF Foresees
<1>4. m = r.prev
  BY <1>0, <1>1 DEF Filed, Pre
<1>5. \A o \in DOMAIN i : i[o].uid = 0
  BY IntendedIs
<1>6. Joins(m, i, x) /\ Joins(m, x, y)
  BY <1>2, <1>4, UnionJoins
<1>7. graphs[g].up /\ graphs'[g].up = graphs[g].up /\ UNCHANGED <<objs, wrote, case>>
      /\ \A h \in Graphs \ {g} : graphs'[h] = graphs[h]
  BY <1>0, <1>1 DEF Writes, GraphFields, Living, WriteAheadManaged
<1> HIDE DEF r, m, t, nodes, i, x, y
<1>8. \A o \in DOMAIN m : o \in DOMAIN y /\ y[o].uid = m[o].uid
  BY <1>5, <1>6 DEF Joins
<1>9. ASSUME NEW o, NEW u, NEW ok, Leads(m, o, u, ok) PROVE Leads(t, o, u, ok)
  BY <1>3, <1>8, <1>9 DEF Leads, Sure
<1>10. \A o \in Held(g) : Leads(t, o, objs[o].uid, Sole(g, o))
  <2> SUFFICES ASSUME NEW o \in Objects, o \in Held(g) PROVE Leads(t, o, objs[o].uid, Sole(g, o))
    BY DEF Held
  <2> QED
    BY <1>9, HeldLeads DEF m, Fast
<1> QED
  BY <1>7, <1>10, KeepingRecords DEF t

LEMMA StatusRecords ==
    ASSUME Fast, NEW g \in Graphs, Poised(g), TypeOK', updateStatus(g) PROVE Inventory!Record(g)
<1> DEFINE r == w[g]
           m == graphs[g].managed
           t == graphs'[g].managed
           I == Intended(Nodes(g))
           more == unionManagedResources(m, r.managed)
<1>0. Shapes /\ Budgeted /\ Stock /\ case' = case /\ Living(g) /\ Tethered(g)
  BY PoisedFacts
<1>1. r.pc = "status" /\ Writes(g, {"managed", "sa", "cond"})
  BY <1>0, UpdateStatusFacts
<1>2. Listing(case.specs[g], wrote, g, m)
  BY <1>1, InPlace
<1>3. Joins(m, r.managed, more)
  BY <1>2, UnionJoins
<1>4. t = m \/ t = more \/ t = r.managed
  BY <1>0, StatusWrites
<1>5. graphs[g].up /\ graphs'[g].up = graphs[g].up /\ UNCHANGED <<objs, wrote, case>>
      /\ \A h \in Graphs \ {g} : graphs'[h] = graphs[h]
  BY <1>0, <1>1 DEF Writes, GraphFields, Living, updateStatus
<1> HIDE DEF r, m, t, I, more
<1>6. ASSUME NEW o, NEW u, u # 0, NEW ok, NEW late, Tied(r, m, I, o, u, ok, late, Undisturbed), Leads(m, o, u, ok)
      PROVE  Leads(t, o, u, ok)
  <2>1. Sure(r.managed, o, u) \/ (Sure(r.managed, o, 0) /\ Sure(m, o, 0))
    BY <1>1, <1>6 DEF Tied, Closing
  <2>2. Sure(r.managed, o, u) => Sure(more, o, u)
    BY <1>3, <1>6 DEF Sure, Joins
  <2>3. Sure(r.managed, o, 0) /\ Sure(m, o, 0) => Sure(more, o, 0)
    BY <1>3 DEF Sure, Joins
  <2>4. Sure(m, o, 0) => ok \/ Sure(m, o, u)
    BY <1>6 DEF Leads
  <2>5. Sure(m, o, 0) => ok
    BY <1>6, <2>4 DEF Sure
  <2> QED
    BY <1>4, <1>6, <2>1, <2>2, <2>3, <2>5 DEF Leads
<1>7. \A o \in Held(g) : Leads(t, o, objs[o].uid, Sole(g, o))
  <2> SUFFICES ASSUME NEW o \in Objects, o \in Held(g) PROVE Leads(t, o, objs[o].uid, Sole(g, o))
    BY DEF Held
  <2>1. Mine(g, o) /\ Leads(m, o, objs[o].uid, Sole(g, o))
    BY HeldLeads DEF m, Fast
  <2>2. Tied(r, m, I, o, objs[o].uid, Sole(g, o), LateTemplate(g, o), Undisturbed)
    BY <1>0, <2>1 DEF Tethered, r, m, I
  <2>3. objs[o].uid # 0
    BY <2>1 DEF Mine, Exists
  <2> QED
    BY <1>6, <2>1, <2>2, <2>3
<1> QED
  BY <1>5, <1>7, KeepingRecords DEF t

\* A Graph that goes leaves nothing that its inventory leads to.
LEMMA EmptyRemoves ==
    ASSUME Fast, NEW g \in Graphs, DOMAIN graphs = Graphs, graphs[g].up, Held(g) = {}, ~graphs'[g].up, graphs'[g].managed = <<>>,
           UNCHANGED <<objs, wrote, case>>, \A h \in Graphs \ {g} : graphs'[h] = graphs[h]
    PROVE  Inventory!Remove(g)
<1>1. ASSUME NEW h \in Graphs PROVE Held(h)' = Held(h)
  <2>1. CASE h = g
    <3> SUFFICES ASSUME NEW o \in Objects, o \in Held(g)' PROVE FALSE
      BY <2>1 DEF Held
    <3> QED
      BY HeldLeadsAfter DEF Fast, Leads, Sure
  <2>2. CASE h # g
    BY <2>2 DEF Held, Listed, Foreseen, Late, specOf, Mine, Alone
  <2> QED
    BY <2>1, <2>2
<1>2. {h \in Graphs : graphs'[h].up} = {h \in Graphs : graphs[h].up} \ {g}
  OBVIOUS
<1>3. [h \in Graphs |-> Held(h)'] = [h \in Graphs |-> Held(h)]
  BY <1>1
<1>4. [h \in Graphs |-> DOMAIN graphs'[h].managed] = [[h \in Graphs |-> DOMAIN graphs[h].managed] EXCEPT ![g] = {}]
  <2>1. DOMAIN graphs'[g].managed = {} /\ \A h \in Graphs \ {g} : DOMAIN graphs'[h].managed = DOMAIN graphs[h].managed
    OBVIOUS
  <2> QED
    BY <2>1
<1> QED
  BY <1>2, <1>3, <1>4 DEF Inventory!Remove

LEMMA SetUnmanagedRemoves ==
    ASSUME Fast, NEW g \in Graphs, Poised(g), Inherits(g), setUnmanaged(g) PROVE Inventory!Remove(g) \/ Losing
<1>0. Shapes /\ Living(g) /\ Tethered(g) /\ case' = case /\ wrote \subseteq wrote' /\ DOMAIN graphs = Graphs
  BY PoisedFacts
<1>1. w[g].pc = "unlink" /\ UNCHANGED <<objs, wrote>>
      /\ (graphs' = graphs \/ graphs' = [graphs EXCEPT ![g] = NoGraph(g)])
  BY DEF setUnmanaged
<1>2. CASE graphs' = graphs
  <2>1. ASSUME NEW h \in Graphs PROVE Held(h)' = Held(h)
    BY <1>0, <1>1, <1>2 DEF Held, Listed, Foreseen, Late, specOf, Mine, Alone
  <2> QED
    BY <1>2, <2>1 DEF Losing
<1>3. CASE graphs' = [graphs EXCEPT ![g] = NoGraph(g)]
  <2>1. Held(g) = {}
    <3> SUFFICES ASSUME NEW o \in Objects, o \in Held(g) PROVE FALSE
      BY DEF Held
    <3>1. Mine(g, o) /\ Leads(graphs[g].managed, o, objs[o].uid, Sole(g, o))
      BY HeldLeads DEF Fast
    <3>2. Tied(w[g], graphs[g].managed, Intended(Nodes(g)), o, objs[o].uid, Sole(g, o), LateTemplate(g, o), Undisturbed)
      BY <1>0, <3>1 DEF Tethered
    <3> DEFINE r == w[g]
               m == graphs[g].managed
               I == Intended(Nodes(g))
               u == objs[o].uid
               ok == Sole(g, o)
               late == LateTemplate(g, o)
    <3>3. Tied(r, m, I, o, u, ok, late, Undisturbed) /\ Leads(m, o, u, ok) /\ r.pc = "unlink"
      BY <1>1, <3>1, <3>2
    <3> HIDE DEF r, m, I, u, ok, late
    <3> QED
      BY <3>3 DEF Tied
  <2>2. graphs[g].up
    BY <1>0, <1>1 DEF Living
  <2>3. ~graphs'[g].up /\ graphs'[g].managed = <<>> /\ \A h \in Graphs \ {g} : graphs'[h] = graphs[h]
    BY <1>0, <1>3, NoGraphFields
  <2> QED
    BY <1>0, <1>1, <2>1, <2>2, <2>3, EmptyRemoves
<1> QED
  BY <1>1, <1>2, <1>3

\* An apply leaves what the Graphs hold of other objects.
LEMMA ApplyAside ==
    ASSUME Fast, NEW g \in Graphs, Poised(g), NEW force \in BOOLEAN, ApplyObject(g, force)
    PROVE  /\ w[g].at \in Objects /\ graphs[g].up /\ UNCHANGED graphs /\ Turned(Writer(g))
           /\ \A h \in Graphs, x \in Objects \ {w[g].at} : x \in Held(h)' <=> x \in Held(h)
<1> DEFINE o == w[g].at
<1>0. Ground /\ Ordered /\ Stock /\ Living(g) /\ case' = case
  BY PoisedFacts DEF Poised
<1>1. o \in Objects /\ w[g].pc \in {"apply", "force"}
  BY <1>0, AppliesObjects
<1>2. graphs[g].up
  BY <1>0, <1>1 DEF Living
<1>3. Turned(Writer(g)) /\ \A p \in Objects \ {o} : objs'[p] = objs[p]
  BY <1>0, <1>1, ApplyTurns
<1>4. UNCHANGED graphs /\ \E u : wrote' = wrote \/ wrote' = wrote \union {<<g, o, u>>}
  BY DEF ApplyObject
<1>5. PICK u : wrote' = wrote \/ wrote' = wrote \union {<<g, o, u>>}
  BY <1>4
<1> HIDE DEF o
<1>6. ASSUME NEW h \in Graphs, NEW x \in Objects \ {o} PROVE x \in Held(h)' <=> x \in Held(h)
  <2>1. objs'[x] = objs[x]
    BY <1>3
  <2>2. \A y, v : <<y, x, v>> \in wrote' <=> <<y, x, v>> \in wrote
    BY <1>5
  <2>3. Mine(h, x)' = Mine(h, x) /\ Mine(h, x) \in BOOLEAN
    BY <2>1 DEF Mine
  <2>4. Alone(h, x)' = Alone(h, x) /\ Alone(h, x) \in BOOLEAN
    BY <2>1, <2>2 DEF Alone
  <2>5. Sole(h, x)' = Sole(h, x) /\ Sole(h, x) \in BOOLEAN
    BY <1>0, <2>1, <2>4 DEF Sole
  <2> QED
    BY <1>4, <2>1, <2>3, <2>5, HeldLeads, HeldLeadsAfter DEF Fast
<1> QED
  BY <1>1, <1>2, <1>3, <1>4, <1>6 DEF o

LEMMA ApplyWrites ==
    ASSUME Fast, NEW g \in Graphs, Poised(g), NEW force \in BOOLEAN, ApplyObject(g, force)
    PROVE  Losing \/ \E o \in Objects : Inventory!Write(g, o)
<1>0. case' = case /\ wrote \subseteq wrote'
  BY PoisedFacts
<1>1. PICK o \in Objects : o = w[g].at
  BY ApplyAside
<1>2. /\ graphs[g].up /\ UNCHANGED graphs /\ Turned(Writer(g))
      /\ \A h \in Graphs, x \in Objects \ {o} : x \in Held(h)' <=> x \in Held(h)
  BY <1>1, ApplyAside
<1>3. \A h \in Graphs : Held(h) \subseteq Objects /\ Held(h)' \subseteq Objects
  BY DEF Held
<1>4. ASSUME NEW h \in Graphs \ {g} PROVE Held(h)' \subseteq Held(h) /\ Held(h) \ {o} \subseteq Held(h)'
  <2>1. Inherits(h)
    BY <1>2, WriterIsOwn, TurnedInherits
  <2>2. Held(h)' \subseteq Held(h)
    BY <1>0, <1>2, <2>1, HeldInherits
  <2> QED
    BY <1>2, <1>3, <2>2
<1>5. CASE o \in Held(g)'
  <2>1. Held(g)' = Held(g) \union {o}
    BY <1>2, <1>3, <1>5
  <2>2. o \in DOMAIN graphs[g].managed
    BY <1>2, <1>5, HeldLeadsAfter DEF Fast, Leads, Sure
  <2>3. [h \in Graphs |-> Held(h)'] \in [Graphs -> SUBSET Objects]
    BY <1>3
  <2>4. Inventory!Write(g, o)
    BY <1>2, <1>4, <2>1, <2>2, <2>3 DEF Inventory!Write
  <2> QED
    BY <2>4
<1>6. CASE o \notin Held(g)'
  <2>1. Held(g)' \subseteq Held(g)
    BY <1>2, <1>3, <1>6
  <2> QED
    BY <1>2, <1>4, <2>1 DEF Losing
<1> QED
  BY <1>5, <1>6

\* The rest of a run leaves the inventory alone.
LEMMA RunLoses ==
    ASSUME Ground, Tidied, [Next]_vars, case' = case, wrote \subseteq wrote', NEW g \in Graphs, Reconcile(g),
           ~WriteAheadManaged(g), ~updateStatus(g), ~setUnmanaged(g), ~\E force \in BOOLEAN : ApplyObject(g, force)
    PROVE  graphs'[g].up = graphs[g].up /\ graphs'[g].managed = graphs[g].managed
<1>0. Shapes /\ Living(g)
  BY DEF Ground, Ordered, Tracked, Attention, Lifecycle
<1>1. CASE Begin(g) \/ setManaged(g)
  BY <1>0, <1>1, BeginOpens, SetManagedLiving
<1>2. ASSUME NEW G, Writes(g, G), G \cap {"up", "managed"} = {}
      PROVE  graphs'[g].up = graphs[g].up /\ graphs'[g].managed = graphs[g].managed
  BY <1>2 DEF Writes, GraphFields
<1>3. CASE CompileStart(g) \/ CompileEnd(g)
  <2>1. Writes(g, {})
    BY <1>0, <1>3, CompileStartFacts, CompileEndFacts
  <2> QED
    BY <1>2, <2>1
<1>4. CASE WriteAheadContributions(g) \/ Finish(g) \/ SettleContributions(g)
  <2>1. Writes(g, {"contribs"})
    BY <1>0, <1>4, WriteAheadContributionsFacts, FinishFacts, SettleFacts
  <2> QED
    BY <1>2, <2>1
<1>5. CASE EnterNode(g) \/ GetLive(g) \/ DeleteEntry(g) \/ DeleteChecked(g)
  <2>1. Writes(g, {})
    BY <1>0, <1>5, EnterNodeFacts, GetLiveFacts, DeleteEntryFacts, DeleteCheckedFacts
  <2> QED
    BY <1>2, <2>1
<1>6. CASE EndPrune(g) \/ EndDelete(g) \/ ReleaseGet(g) \/ ReleaseApply(g)
  <2>1. Writes(g, {})
    BY <1>0, <1>6, EndPruneFacts, EndDeleteFacts, ReleaseGetFacts, ReleaseApplyFacts
  <2> QED
    BY <1>2, <2>1
<1> QED
  BY <1>1, <1>3, <1>4, <1>5, <1>6 DEF Reconcile

LEMMA InventoryStep ==
    ASSUME Ground, Tidied, Tidied', Ordered', TypeOK', [Next]_vars
    PROVE  [Inventory!Next]_(Inventory!invVars)
<1>a. Fast
  BY DEF Fast, Tidied, Tidy
<1>0. /\ Ordered /\ Shapes /\ Budgeted /\ Lifecycle /\ case' = case /\ (Undisturbed' => Undisturbed) /\ Stock'
  BY CaseFixed, BudgetStep DEF Ground, Ordered, Tracked, Attention, vars
<1>1. wrote \subseteq wrote' /\ \A g \in Graphs : Poised(g)
  BY <1>0, StepGrows DEF Tidied, Poised
<1>2. ASSUME NEW g \in Graphs, ~\E force \in BOOLEAN : ApplyObject(g, force) PROVE Inherits(g)
  BY <1>0, <1>2, OthersInherit
<1>3. CASE Losing
  BY <1>3, LosingLoses DEF Inventory!Next
<1>4. ASSUME NEW g \in Graphs, NEW force \in BOOLEAN, ApplyObject(g, force)
      PROVE  [Inventory!Next]_(Inventory!invVars)
  <2>1. Losing \/ \E o \in Objects : Inventory!Write(g, o)
    BY <1>a, <1>1, <1>4, ApplyWrites
  <2> QED
    BY <1>3, <2>1 DEF Inventory!Next
<1>5. ASSUME \A g \in Graphs : ~\E force \in BOOLEAN : ApplyObject(g, force),
             \A g \in Graphs : graphs'[g].up = graphs[g].up /\ graphs'[g].managed = graphs[g].managed
      PROVE  Losing
  BY <1>a, <1>0, <1>1, <1>2, <1>5, HeldInherits DEF Losing
<1>6. ASSUME NEW g \in Graphs, Reconcile(g), \A h \in Graphs : ~\E force \in BOOLEAN : ApplyObject(h, force)
      PROVE  [Inventory!Next]_(Inventory!invVars)
  <2>1. CASE WriteAheadManaged(g) \/ updateStatus(g)
    <3>1. Inventory!Record(g)
      BY <1>a, <1>1, <2>1, WriteAheadRecords, StatusRecords
    <3> QED
      BY <3>1 DEF Inventory!Next
  <2>2. CASE setUnmanaged(g)
    <3>1. Inventory!Remove(g) \/ Losing
      BY <1>a, <1>1, <1>2, <1>6, <2>2, SetUnmanagedRemoves
    <3> QED
      BY <1>3, <3>1 DEF Inventory!Next
  <2>3. CASE ~WriteAheadManaged(g) /\ ~updateStatus(g) /\ ~setUnmanaged(g)
    <3>1. graphs'[g].up = graphs[g].up /\ graphs'[g].managed = graphs[g].managed
      BY <1>0, <1>1, <1>6, <2>3, RunLoses
    <3>2. \A h \in Graphs \ {g} : graphs'[h] = graphs[h]
      BY <1>0, <1>6, ReconcileLocal
    <3> QED
      BY <1>3, <1>5, <1>6, <3>1, <3>2
  <2> QED
    BY <2>1, <2>2, <2>3
<1>7. ASSUME NEW g \in Graphs, EditGraph(g) \/ DeleteGraph(g), \A h \in Graphs : ~\E force \in BOOLEAN : ApplyObject(h, force)
      PROVE  [Inventory!Next]_(Inventory!invVars)
  <2>1. /\ \A h \in Graphs \ {g} : graphs'[h] = graphs[h]
        /\ graphs'[g].managed = graphs[g].managed
        /\ \/ graphs'[g].up = graphs[g].up
           \/ graphs[g].up /\ ~graphs'[g].up /\ graphs[g].managed = <<>>
    BY <1>0, <1>7, UsersLiving DEF Lifecycle
  <2>2. CASE graphs'[g].up = graphs[g].up
    BY <1>3, <1>5, <1>7, <2>1, <2>2
  <2>3. CASE graphs[g].up /\ ~graphs'[g].up /\ graphs[g].managed = <<>>
    <3>1. Held(g) = {}
      <4> SUFFICES ASSUME NEW o \in Objects, o \in Held(g) PROVE FALSE
        BY DEF Held
      <4> QED
        BY <1>a, <2>3, HeldLeads DEF Fast, Leads, Sure
    <3>2. UNCHANGED <<objs, wrote, case>> /\ DOMAIN graphs = Graphs
      BY <1>0, <1>7 DEF EditGraph, DeleteGraph, Shapes
    <3>3. Inventory!Remove(g)
      BY <1>a, <2>1, <2>3, <3>1, <3>2, EmptyRemoves
    <3> QED
      BY <3>3 DEF Inventory!Next
  <2> QED
    BY <2>1, <2>2, <2>3
<1>8. ASSUME \A h \in Graphs : ~\E force \in BOOLEAN : ApplyObject(h, force),
             \/ \E g \in Graphs : Drain(g)
             \/ \E o \in Objects : Meddle(o) \/ Report(o) \/ Gone(o)
             \/ \E k \in Kinds : CrdChanges(k) \/ CrdEvent(k)
             \/ Crash \/ UNCHANGED vars
      PROVE  [Inventory!Next]_(Inventory!invVars)
  <2>1. UNCHANGED graphs
    BY <1>8 DEF Drain, Meddle, Report, Gone, CrdChanges, CrdEvent, Crash, vars
  <2> QED
    BY <1>3, <1>5, <1>8, <2>1
<1> QED
  BY <1>4, <1>6, <1>7, <1>8 DEF Next

\* The reconciler implements GraphInventory for any Graphs, objects, specs and budgets
\* (status.managedResources: persistManagedResources, updateStatus, diffManagedResources,
\* Delete and setUnmanaged): every step records, writes what is recorded, loses what is
\* deleted or taken over, removes a Graph that holds nothing, or changes none of this.
\* What a step writes and can be foreseen is held whether it is listed or not, so that
\* the write-ahead is part of what is proved.
THEOREM InventoryIsImplemented == Spec => ImplementsInventory
<1>1. Ordered' /\ TypeOK' /\ (Ground /\ Manned /\ Tidied) /\ (Ground /\ Manned /\ Tidied)' /\ [Next]_vars
        => [Inventory!Next]_(Inventory!invVars)
  BY InventoryStep
<1>2. Init => Inventory!Init
  BY InventoryInit
<1> QED
  BY <1>1, <1>2, TidyHolds, OrderedHolds, GraphTypeCorrect, PTL DEF Spec, ImplementsInventory, Inventory!Spec
=============================================================================
