------------------------ MODULE GraphRevisionsProofs ------------------------
(***************************************************************************)
(* The invariants of GraphRevisions for every number of revisions, of      *)
(* incarnations, of workers, of edits and of faults.                       *)
(***************************************************************************)
EXTENDS GraphRevisions, FiniteSetTheorems, WellFoundedInduction, TLAPS

-----------------------------------------------------------------------------
(* What the operations of the registry do to a bucket.                     *)

\* Every nonempty set of revisions has a greatest element: what the loop of
\* recomputeLatest looks for exists.
LEMMA GreatestExists ==
    ASSUME NEW S \in SUBSET Revs, S # {}
    PROVE  \E r \in S : \A x \in S : x <= r
<1> DEFINE T == {n \in Nat : \E x \in S : n = MaxRev - x}
<1>1. MaxRev \in Nat \ {0}
  BY RegistryAssumption
<1>2. T \subseteq Nat /\ T # {}
  <2>1. PICK y \in S : TRUE
    OBVIOUS
  <2>2. y \in Revs
    BY <2>1
  <2>3. MaxRev - y \in T
    BY <1>1, <2>1, <2>2 DEF Revs
  <2> QED
    BY <2>3
<1>3. PICK m \in T : \A n \in T : ~ (<<n, m>> \in OpToRel(<, Nat))
  BY <1>2, NatLessThanWellFounded, WFMin
<1>4. \A n \in T : ~ (n < m)
  BY <1>3 DEF OpToRel
<1>5. PICK r \in S : m = MaxRev - r
  OBVIOUS
<1>6. ASSUME NEW x \in S PROVE x <= r
  <2>1. MaxRev - x \in T
    BY <1>1 DEF Revs
  <2> QED
    BY <2>1, <1>1, <1>4, <1>5 DEF Revs
<1> QED
  BY <1>5, <1>6

\* Newest is the greatest element, and 0 for the empty set.
LEMMA NewestFacts ==
    ASSUME NEW S \in SUBSET Revs
    PROVE  /\ Newest(S) \in 0..MaxRev
           /\ S = {} => Newest(S) = 0
           /\ S # {} => Newest(S) \in S
           /\ \A x \in S : x <= Newest(S)
<1>0. MaxRev \in Nat \ {0}
  BY RegistryAssumption
<1>1. CASE S = {}
  BY <1>0, <1>1 DEF Newest
<1>2. CASE S # {}
  <2>1. \E r \in S : \A x \in S : x <= r
    BY <1>2, GreatestExists
  <2>2. Newest(S) \in S /\ \A x \in S : x <= Newest(S)
    BY <1>2, <2>1 DEF Newest
  <2>3. Newest(S) \in Revs
    BY <2>2
  <2>4. Newest(S) \in 0..MaxRev
    BY <1>0, <2>3 DEF Revs
  <2> QED
    BY <1>2, <2>2, <2>4
<1> QED
  BY <1>1, <1>2

\* Newest is the only element that bounds its set.
LEMMA NewestUnique ==
    ASSUME NEW S \in SUBSET Revs, NEW r \in S, \A x \in S : x <= r
    PROVE  Newest(S) = r
<1>1. Newest(S) \in S /\ \A x \in S : x <= Newest(S)
  BY NewestFacts
<1>2. Newest(S) \in Revs /\ r \in Revs
  BY <1>1
<1>3. Newest(S) <= r /\ r <= Newest(S)
  BY <1>1
<1> QED
  BY <1>2, <1>3, RegistryAssumption DEF Revs

\* recomputeLatest gives a bucket whose pointer is right.
LEMMA RecomputeLatestOK ==
    ASSUME NEW es \in [Revs -> Entry]
    PROVE  recomputeLatest(es) \in Bucket /\ LatestOK(recomputeLatest(es))
<1> DEFINE present == {r \in Revs : es[r].state # "Absent"}
<1>1. Newest(present) \in 0..MaxRev /\ 0 \in 0..MaxRev
  BY NewestFacts, RegistryAssumption
<1>2. CASE present = {}
  <2> DEFINE c == [entries |-> es, latest |-> 0, hasLatest |-> FALSE]
  <2>1. recomputeLatest(es) = c
    BY <1>2 DEF recomputeLatest
  <2>2. Revisions(c) = {}
    BY <1>2 DEF Revisions, HasEntry
  <2>3. c \in Bucket
    BY <1>1 DEF Bucket
  <2>4. c.hasLatest = FALSE
    OBVIOUS
  <2>5. LatestOK(c)
    BY <2>2, <2>4 DEF LatestOK
  <2> QED
    BY <2>1, <2>3, <2>5
<1>3. CASE present # {}
  <2> DEFINE c == [entries |-> es, latest |-> Newest(present), hasLatest |-> TRUE]
  <2>1. recomputeLatest(es) = c
    BY <1>3 DEF recomputeLatest
  <2>2. Revisions(c) = present
    BY DEF Revisions, HasEntry
  <2>3. c \in Bucket
    BY <1>1 DEF Bucket
  <2>4. LatestOK(c)
    BY <1>3, <2>2 DEF LatestOK
  <2> QED
    BY <2>1, <2>3, <2>4
<1> QED
  BY <1>2, <1>3

\* The empty bucket.
LEMMA EmptyBucketOK == EmptyBucket \in Bucket /\ LatestOK(EmptyBucket)
<1>1. NoEntry \in Entry
  BY DEF NoEntry, Entry, States
<1>2. EmptyBucket \in Bucket
  BY <1>1, RegistryAssumption DEF EmptyBucket, Bucket
<1>3. Revisions(EmptyBucket) = {}
  BY DEF EmptyBucket, Revisions, HasEntry, NoEntry
<1> QED
  BY <1>2, <1>3 DEF LatestOK, EmptyBucket

\* Put keeps the pointer right: a write of an older revision does not move it.
THEOREM PutOK ==
    ASSUME NEW b \in Bucket, LatestOK(b), NEW r \in Revs,
           NEW e \in Entry, e.state # "Absent"
    PROVE  Put(b, r, e) \in Bucket /\ LatestOK(Put(b, r, e))
<1> DEFINE c == Put(b, r, e)
<1>0. MaxRev \in Nat \ {0}
  BY RegistryAssumption
<1>1. /\ b.entries \in [Revs -> Entry]
      /\ b.latest \in 0..MaxRev
      /\ b.hasLatest \in BOOLEAN
  BY DEF Bucket
<1>2. /\ c.entries = [b.entries EXCEPT ![r] = e]
      /\ c.latest = IF ~b.hasLatest \/ r > b.latest THEN r ELSE b.latest
      /\ c.hasLatest = TRUE
  BY DEF Put
<1>3. c \in Bucket
  BY <1>0, <1>1 DEF Put, Bucket, Revs
<1>4. Revisions(c) = Revisions(b) \cup {r}
  BY <1>1, <1>2 DEF Revisions, HasEntry
<1>5. Revisions(b) \in SUBSET Revs /\ Revisions(c) \in SUBSET Revs
  BY DEF Revisions
<1>6. c.latest \in Revisions(c) /\ \A x \in Revisions(c) : x <= c.latest
  <2>1. CASE ~b.hasLatest
    <3>1. Revisions(b) = {}
      BY <2>1 DEF LatestOK
    <3> QED
      BY <2>1, <3>1, <1>2, <1>4, <1>0 DEF Revs
  <2>2. CASE b.hasLatest
    <3>1. b.latest \in Revisions(b) /\ \A x \in Revisions(b) : x <= b.latest
      BY <2>2, <1>5, NewestFacts DEF LatestOK
    <3> QED
      BY <2>2, <3>1, <1>0, <1>1, <1>2, <1>4, <1>5 DEF Revs
  <2> QED
    BY <2>1, <2>2, <1>1
<1>7. c.latest = Newest(Revisions(c))
  BY <1>5, <1>6, NewestUnique
<1> QED
  BY <1>2, <1>3, <1>4, <1>7 DEF LatestOK

\* Delete keeps the pointer right, whichever of its three exits it takes.
THEOREM DeleteOK ==
    ASSUME NEW b \in Bucket, LatestOK(b), NEW r \in Revs
    PROVE  Delete(b, r) \in Bucket /\ LatestOK(Delete(b, r))
<1> DEFINE es == [b.entries EXCEPT ![r] = NoEntry]
<1>0. MaxRev \in Nat \ {0} /\ NoEntry \in Entry
  BY RegistryAssumption DEF NoEntry, Entry
<1>1. /\ b.entries \in [Revs -> Entry]
      /\ b.latest \in 0..MaxRev
      /\ b.hasLatest \in BOOLEAN
      /\ es \in [Revs -> Entry]
  BY <1>0 DEF Bucket
<1>2. CASE ~HasEntry(b, r)
  BY <1>2 DEF Delete
<1>3. CASE HasEntry(b, r) /\ \A x \in Revs : es[x].state = "Absent"
  <2>1. Delete(b, r) = EmptyBucket
    BY <1>3 DEF Delete
  <2> QED
    BY <2>1, EmptyBucketOK
<1>4. CASE HasEntry(b, r) /\ ~(\A x \in Revs : es[x].state = "Absent") /\ b.latest # r
  <2> DEFINE c == [b EXCEPT !.entries = es]
  <2>1. Delete(b, r) = c
    BY <1>4 DEF Delete
  <2>2. c \in Bucket
    BY <1>1 DEF Bucket
  <2>3. Revisions(c) = Revisions(b) \ {r} /\ Revisions(c) # {}
    BY <1>1, <1>4 DEF Revisions, HasEntry, NoEntry, Bucket
  <2>4. b.hasLatest
    BY <1>4 DEF LatestOK, Revisions
  <2>5. Revisions(b) \in SUBSET Revs /\ Revisions(b) # {}
    BY <2>4 DEF Revisions, LatestOK
  <2>6. b.latest \in Revisions(b) /\ \A x \in Revisions(b) : x <= b.latest
    BY <2>4, <2>5, NewestFacts DEF LatestOK
  <2>7. b.latest = Newest(Revisions(c))
    <3>1. Revisions(c) \in SUBSET Revs /\ b.latest \in Revisions(c)
      BY <2>3, <2>5, <2>6, <1>4
    <3>2. \A x \in Revisions(c) : x <= b.latest
      BY <2>3, <2>6
    <3> QED
      BY <3>1, <3>2, NewestUnique
  <2>8. c.latest = b.latest /\ c.hasLatest = b.hasLatest
    BY DEF Bucket
  <2>9. LatestOK(c)
    BY <2>3, <2>4, <2>7, <2>8 DEF LatestOK
  <2> QED
    BY <2>1, <2>2, <2>9
<1>5. CASE HasEntry(b, r) /\ ~(\A x \in Revs : es[x].state = "Absent") /\ b.latest = r
  <2>1. Delete(b, r) = recomputeLatest(es)
    BY <1>5 DEF Delete
  <2> QED
    BY <2>1, <1>1, RecomputeLatestOK
<1> QED
  BY <1>2, <1>3, <1>4, <1>5

\* DeleteRevisionsBefore keeps the pointer right: below the floor it is looked
\* for again, at or above it is untouched.
THEOREM DeleteRevisionsBeforeOK ==
    ASSUME NEW b \in Bucket, LatestOK(b), NEW min \in Nat
    PROVE  /\ DeleteRevisionsBefore(b, min) \in Bucket
           /\ LatestOK(DeleteRevisionsBefore(b, min))
<1> DEFINE es == [r \in Revs |-> IF r < min THEN NoEntry ELSE b.entries[r]]
<1>0. MaxRev \in Nat \ {0} /\ NoEntry \in Entry
  BY RegistryAssumption DEF NoEntry, Entry
<1>1. /\ b.entries \in [Revs -> Entry]
      /\ b.latest \in 0..MaxRev
      /\ b.hasLatest \in BOOLEAN
      /\ es \in [Revs -> Entry]
  BY <1>0 DEF Bucket
<1>2. CASE \A x \in Revs : es[x].state = "Absent"
  <2>1. DeleteRevisionsBefore(b, min) = EmptyBucket
    BY <1>2 DEF DeleteRevisionsBefore
  <2> QED
    BY <2>1, EmptyBucketOK
<1>3. CASE ~(\A x \in Revs : es[x].state = "Absent") /\ b.latest >= min
  <2> DEFINE c == [b EXCEPT !.entries = es]
  <2>1. DeleteRevisionsBefore(b, min) = c
    BY <1>3 DEF DeleteRevisionsBefore
  <2>2. c \in Bucket
    BY <1>1 DEF Bucket
  <2>3. c.entries = es /\ c.latest = b.latest /\ c.hasLatest = b.hasLatest
    BY DEF Bucket
  <2>4. Revisions(c) = {x \in Revisions(b) : ~(x < min)}
    BY <1>1, <2>3 DEF Revisions, HasEntry, NoEntry
  <2>5. Revisions(c) # {}
    BY <1>3, <2>3 DEF Revisions, HasEntry
  <2>6. b.hasLatest
    BY <2>4, <2>5 DEF LatestOK
  <2>7. Revisions(b) \in SUBSET Revs /\ Revisions(b) # {}
    BY <2>6 DEF Revisions, LatestOK
  <2>8. b.latest \in Revisions(b) /\ \A x \in Revisions(b) : x <= b.latest
    BY <2>6, <2>7, NewestFacts DEF LatestOK
  <2>9. Revisions(c) \in SUBSET Revs /\ b.latest \in Revisions(c)
    BY <1>1, <1>3, <2>4, <2>7, <2>8
  <2>10. \A x \in Revisions(c) : x <= b.latest
    BY <2>4, <2>8
  <2>11. b.latest = Newest(Revisions(c))
    BY <2>9, <2>10, NewestUnique
  <2>12. LatestOK(c)
    BY <2>3, <2>5, <2>6, <2>11 DEF LatestOK
  <2> QED
    BY <2>1, <2>2, <2>12
<1>4. CASE ~(\A x \in Revs : es[x].state = "Absent") /\ ~(b.latest >= min)
  <2>1. DeleteRevisionsBefore(b, min) = recomputeLatest(es)
    BY <1>4 DEF DeleteRevisionsBefore
  <2> QED
    BY <2>1, <1>1, RecomputeLatestOK
<1> QED
  BY <1>2, <1>3, <1>4

-----------------------------------------------------------------------------
(* Types of the objects and of the operators on them.                      *)

LEMMA ConstantObjects ==
    /\ NewConds \in Conds /\ NoRGD \in RGD /\ NoGR \in GR
    /\ IdleRgd \in RgdWorker /\ IdleGr \in GrWorker
<1>1. MaxUid \in Nat /\ MaxRev \in Nat
  BY GraphRevisionsAssumption, RegistryAssumption
<1>2. NewConds \in Conds
  BY DEF NewConds, Conds, Tri
<1>3. NoRGD \in RGD
  BY <1>1, <1>2 DEF NoRGD, RGD
<1>4. NoGR \in GR
  BY <1>1 DEF NoGR, GR, Tri
<1>5. IdleRgd \in RgdWorker
  BY <1>3 DEF IdleRgd, RgdWorker, RgdPc
<1>6. IdleGr \in GrWorker
  BY DEF IdleGr, GrWorker, GrPc
<1> QED
  BY <1>2, <1>3, <1>4, <1>5, <1>6

LEMMA NewObjects ==
    ASSUME NEW s \in Specs, NEW u \in Uids
    PROVE  NewRGD(u, s) \in RGD
<1>1. u \in 0..MaxUid
  BY GraphRevisionsAssumption DEF Uids
<1> QED
  BY <1>1, ConstantObjects DEF NewRGD, RGD

LEMMA DeletedType ==
    ASSUME NEW o \in GR
    PROVE  Deleted(o) \in GR
BY ConstantObjects DEF Deleted, GR

LEMMA FinalizedType ==
    ASSUME NEW o \in RGD
    PROVE  Finalized(o) \in RGD
BY ConstantObjects DEF Finalized

LEMMA LiveType == Live \subseteq Revs /\ HasTerminating \in BOOLEAN
BY DEF Live, HasTerminating

LEMMA FaultType ==
    ASSUME faults \in 0..MaxFaults, Fault \/ NoFault
    PROVE  faults' \in 0..MaxFaults
BY GraphRevisionsAssumption DEF Fault, NoFault

-----------------------------------------------------------------------------
(* Every action keeps the types, the pointer of the bucket and the RGD of  *)
(* a running reconcile.                                                    *)

Base == TypeOK /\ LatestIsNewest /\ WorkerHasRGD

LEMMA BaseInit == Init => Base
<1> SUFFICES ASSUME Init PROVE Base
  OBVIOUS
<1>1. TypeOK
  <2>1. 0 \in 0..MaxUid /\ 0 \in 0..MaxEdits /\ 0 \in 0..MaxFaults
    BY GraphRevisionsAssumption
  <2> QED
    BY <2>1, ConstantObjects, EmptyBucketOK DEF Init, TypeOK
<1>2. LatestIsNewest
  BY EmptyBucketOK DEF Init, LatestIsNewest
<1>3. WorkerHasRGD
  BY DEF Init, WorkerHasRGD, IdleRgd
<1> QED
  BY <1>1, <1>2, <1>3 DEF Base

LEMMA BaseRgdStart ==
    ASSUME Base, RgdStart
    PROVE  Base'
<1> USE DEF RgdStart, api, mem, history
<1>1. w' \in RgdWorker
  BY ConstantObjects DEF Base, TypeOK, RgdWorker, RgdPc
<1>2. WorkerHasRGD'
  BY DEF Base, TypeOK, WorkerHasRGD, IdleRgd
<1> QED
  BY <1>1, <1>2 DEF Base, TypeOK, LatestIsNewest

\* A worker that goes idle, and one that goes on with its copy.
LEMMA WorkerGoesIdle ==
    ASSUME w' = IdleRgd
    PROVE  w' \in RgdWorker /\ WorkerHasRGD'
BY ConstantObjects DEF WorkerHasRGD, IdleRgd

LEMMA WorkerGoesOn ==
    ASSUME Base, w.pc # "idle", w'.o.uid = w.o.uid
    PROVE  WorkerHasRGD'
BY DEF Base, WorkerHasRGD

LEMMA WorkerParts ==
    ASSUME Base
    PROVE  /\ w \in RgdWorker /\ w.o \in RGD /\ w.live \in SUBSET Revs
           /\ w.graph \in Specs \cup {NoSpec}
           /\ w.o.uid \in 0..MaxUid /\ w.o.spec \in Specs \cup {NoSpec}
           /\ w.o.last \in 0..MaxRev /\ w.o.cond \in Conds
           /\ w.o.orphan \in BOOLEAN /\ w.o.fin \in BOOLEAN /\ w.retry \in BOOLEAN
           /\ w.term \in BOOLEAN
BY DEF Base, TypeOK, RgdWorker, RGD

LEMMA Max2Type ==
    ASSUME NEW x \in 0..MaxRev, NEW y \in 0..MaxRev
    PROVE  Max2(x, y) \in 0..MaxRev /\ Max2(x, y) >= x /\ Max2(x, y) >= y
BY RegistryAssumption DEF Max2

LEMMA BaseRgdSetManaged ==
    ASSUME Base, RgdSetManaged
    PROVE  Base'
<1> USE DEF RgdSetManaged, mem
<1>0. rgd \in RGD /\ rq \in BOOLEAN
  BY DEF Base, TypeOK
<1>1. rgd' \in RGD
  <2>1. [rgd EXCEPT !.fin = TRUE, !.orphan = w.o.orphan] \in RGD
    BY <1>0, WorkerParts DEF RGD
  <2> QED
    BY <2>1, <1>0, FinalizedType DEF PatchFinalizers
<1>2. w' \in RgdWorker /\ WorkerHasRGD'
  <2>1. CASE w' = IdleRgd
    BY <2>1, WorkerGoesIdle
  <2>2. CASE w' = [w EXCEPT !.pc = "list"]
    <3>1. w' \in RgdWorker /\ w'.o.uid = w.o.uid
      BY <2>2, WorkerParts DEF RgdWorker, RgdPc
    <3> QED
      BY <3>1, WorkerGoesOn
  <2> QED
    BY <2>1, <2>2 DEF RgdEnd
<1>3. rq' \in BOOLEAN
  BY <1>0 DEF RgdEnd
<1>4. faults' \in 0..MaxFaults
  BY FaultType DEF Base, TypeOK
<1> QED
  BY <1>1, <1>2, <1>3, <1>4 DEF Base, TypeOK, LatestIsNewest

LEMMA BaseRgdList ==
    ASSUME Base, RgdList
    PROVE  Base'
<1> USE DEF RgdList, mem
<1>0. gr \in [Revs -> GR] /\ rq \in BOOLEAN
  BY DEF Base, TypeOK
<1>1. gr' \in [Revs -> GR]
  <2>1. \A r \in Revs : [gr[r] EXCEPT !.owner = w.o.uid] \in GR
    BY <1>0, WorkerParts DEF GR
  <2> QED
    BY <2>1, <1>0
<1>2. w' \in RgdWorker /\ w'.o.uid = w.o.uid
  BY WorkerParts, LiveType DEF RgdWorker, RgdPc
<1>3. WorkerHasRGD'
  BY <1>2, WorkerGoesOn
<1>4. rq' \in BOOLEAN
  BY <1>0
<1>5. faults' \in 0..MaxFaults
  BY FaultType DEF Base, TypeOK
<1> QED
  BY <1>1, <1>2, <1>3, <1>4, <1>5 DEF Base, TypeOK, LatestIsNewest

LEMMA BaseRgdResolve ==
    ASSUME Base, RgdResolve
    PROVE  Base'
<1> USE DEF api, history
<1> DEFINE latest == Newest(w.live)
           e == IF latest = 0 THEN NoEntry ELSE reg.entries[latest]
           known == [w.o EXCEPT !.last = Max2(@, latest)]
<1>1. latest \in 0..MaxRev /\ (latest # 0 => latest \in Revs)
  BY WorkerParts, NewestFacts
<1>2. e.spec \in Specs \cup {NoSpec}
  BY <1>1 DEF Base, TypeOK, Bucket, Entry, NoEntry
<1>3. known \in RGD /\ known.uid = w.o.uid
  <2>1. Max2(w.o.last, latest) \in 0..MaxRev
    BY <1>1, WorkerParts, Max2Type
  <2> QED
    BY <2>1, WorkerParts DEF RGD
<1>4. \/ w' = [w EXCEPT !.o = w.o, !.retry = TRUE, !.pc = "status"]
      \/ w' = [w EXCEPT !.pc = "create"]
      \/ w' = [w EXCEPT !.o = known, !.pc = "create"]
      \/ w' = [w EXCEPT !.o = known, !.retry = TRUE, !.pc = "status"]
      \/ w' = [w EXCEPT !.o = known, !.graph = e.spec, !.pc = "serve"]
  BY DEF RgdResolve
<1>5. w' \in RgdWorker /\ w'.o.uid = w.o.uid
  <2> HIDE DEF known, e
  <2> QED
    BY <1>2, <1>3, <1>4, WorkerParts DEF RgdWorker, RgdPc
<1>6. WorkerHasRGD'
  BY <1>5, WorkerGoesOn DEF RgdResolve
<1>7. reg' \in Bucket /\ LatestIsNewest'
  BY EmptyBucketOK DEF RgdResolve, Base, TypeOK, LatestIsNewest, DeleteAll
<1> QED
  BY <1>5, <1>6, <1>7 DEF RgdResolve, Base, TypeOK

LEMMA NextRevisionFacts ==
    ASSUME Base
    PROVE  /\ NextRevision \in Nat
           /\ NextRevision <= MaxRev => NextRevision \in Revs
           /\ \A r \in w.live : r < NextRevision
<1>1. Newest(w.live) \in 0..MaxRev /\ \A r \in w.live : r <= Newest(w.live)
  BY WorkerParts, NewestFacts
<1>2. /\ Max2(w.o.last, Newest(w.live)) \in 0..MaxRev
      /\ Max2(w.o.last, Newest(w.live)) >= Newest(w.live)
  BY <1>1, WorkerParts, Max2Type
<1>3. w.live \in SUBSET Revs /\ MaxRev \in Nat
  BY WorkerParts, RegistryAssumption
<1> QED
  BY <1>1, <1>2, <1>3 DEF NextRevision, Revs

LEMMA BaseRgdCreate ==
    ASSUME Base, RgdCreate
    PROVE  Base'
<1> USE DEF RgdCreate, mem
<1> DEFINE rev == NextRevision
<1>0. /\ gr \in [Revs -> GR] /\ rq \in BOOLEAN /\ gq \in [Revs -> BOOLEAN]
      /\ issued \in [Uids -> SUBSET Revs]
      /\ rev <= MaxRev => rev \in Revs /\ rev \in 0..MaxRev
  BY NextRevisionFacts, RegistryAssumption DEF Base, TypeOK, Revs
<1> HIDE DEF rev
<1>1. gr' \in [Revs -> GR]
  <2>1. NewGR(w.o.spec, w.o.uid) \in GR
    BY WorkerParts DEF NewGR, GR, Tri
  <2> QED
    BY <2>1, <1>0 DEF rev
<1>2. gq' \in [Revs -> BOOLEAN] /\ rq' \in BOOLEAN
  BY <1>0 DEF rev
<1>3. issued' \in [Uids -> SUBSET Revs]
  BY <1>0 DEF rev
<1>4. w' \in RgdWorker /\ w'.o.uid = w.o.uid
  <2>1. CASE w' = [w EXCEPT !.retry = TRUE, !.pc = "status"]
    BY <2>1, WorkerParts DEF RgdWorker, RgdPc
  <2>2. CASE rev <= MaxRev /\ w' = [w EXCEPT !.o.last = rev, !.retry = TRUE, !.pc = "status"]
    <3>1. [w.o EXCEPT !.last = rev] \in RGD /\ [w.o EXCEPT !.last = rev].uid = w.o.uid
      BY <2>2, <1>0, WorkerParts DEF RGD
    <3> QED
      BY <2>2, <3>1, WorkerParts DEF RgdWorker, RgdPc
  <2> QED
    BY <2>1, <2>2 DEF rev
<1>5. WorkerHasRGD'
  BY <1>4, WorkerGoesOn
<1>6. faults' \in 0..MaxFaults
  BY FaultType DEF Base, TypeOK
<1> QED
  BY <1>1, <1>2, <1>3, <1>4, <1>5, <1>6 DEF Base, TypeOK, LatestIsNewest

LEMMA BaseRgdServe ==
    ASSUME Base, RgdServe
    PROVE  Base'
<1> USE DEF RgdServe
<1>0. rq \in BOOLEAN /\ crd \in Specs \cup {NoSpec} /\ handler \in Specs \cup {NoSpec}
      /\ registered \subseteq Uids
  BY DEF Base, TypeOK
<1>1. w.o.uid \in Uids
  BY WorkerParts, GraphRevisionsAssumption DEF Base, WorkerHasRGD, Uids
<1>2. /\ crd' \in Specs \cup {NoSpec} /\ handler' \in Specs \cup {NoSpec}
      /\ registered' \subseteq Uids
  BY <1>0, <1>1, WorkerParts
<1>3. rq' \in BOOLEAN
  BY <1>0
<1>4. w' \in RgdWorker /\ w'.o.uid = w.o.uid
  <2>1. ASSUME NEW c \in Conds
        PROVE  [w.o EXCEPT !.cond = c] \in RGD /\ [w.o EXCEPT !.cond = c].uid = w.o.uid
    BY WorkerParts DEF RGD
  <2>2. ASSUME NEW k \in Tri
        PROVE  [w.o.cond EXCEPT !.kind = k] \in Conds
    BY WorkerParts DEF Conds
  <2>3. ASSUME NEW k \in Tri, NEW c \in Tri
        PROVE  [w.o.cond EXCEPT !.kind = k, !.ctrl = c] \in Conds
    BY WorkerParts DEF Conds
  <2>4. CASE w' = [w EXCEPT !.o.cond.kind = "False", !.retry = TRUE, !.pc = "gc"]
    <3>1. [w.o.cond EXCEPT !.kind = "False"] \in Conds
      BY <2>2 DEF Tri
    <3>2. [w.o EXCEPT !.cond.kind = "False"] \in RGD /\ [w.o EXCEPT !.cond.kind = "False"].uid = w.o.uid
      BY <2>1, <3>1, WorkerParts DEF RGD
    <3> QED
      BY <2>4, <3>2, WorkerParts DEF RgdWorker, RgdPc
  <2>5. ASSUME NEW k \in Tri, NEW c \in Tri,
               \/ w' = [w EXCEPT !.o.cond.kind = k, !.o.cond.ctrl = c, !.pc = "gc"]
               \/ w' = [w EXCEPT !.o.cond.kind = k, !.o.cond.ctrl = c,
                                 !.retry = TRUE, !.pc = "gc"]
        PROVE  w' \in RgdWorker /\ w'.o.uid = w.o.uid
    <3>1. [w.o.cond EXCEPT !.kind = k, !.ctrl = c] \in Conds
      BY <2>3
    <3>2. /\ [w.o EXCEPT !.cond.kind = k, !.cond.ctrl = c] \in RGD
          /\ [w.o EXCEPT !.cond.kind = k, !.cond.ctrl = c].uid = w.o.uid
      BY <2>1, <3>1, WorkerParts DEF RGD
    <3> QED
      BY <2>5, <3>2, WorkerParts DEF RgdWorker, RgdPc
  <2> QED
    BY <2>4, <2>5 DEF Tri
<1>5. WorkerHasRGD'
  BY <1>4, WorkerGoesOn
<1>6. faults' \in 0..MaxFaults
  BY FaultType DEF Base, TypeOK
<1> QED
  BY <1>2, <1>3, <1>4, <1>5, <1>6 DEF Base, TypeOK, LatestIsNewest

LEMMA BaseRgdGC ==
    ASSUME Base, RgdGC
    PROVE  Base'
<1> USE DEF RgdGC, mem
<1>0. gr \in [Revs -> GR] /\ rq \in BOOLEAN /\ gq \in [Revs -> BOOLEAN]
  BY DEF Base, TypeOK
<1>1. gr' \in [Revs -> GR]
  BY <1>0, DeletedType
<1>2. gq' \in [Revs -> BOOLEAN] /\ rq' \in BOOLEAN
  BY <1>0
<1>3. w' \in RgdWorker /\ w'.o.uid = w.o.uid
  BY WorkerParts DEF RgdWorker, RgdPc
<1>4. WorkerHasRGD'
  BY <1>3, WorkerGoesOn
<1>5. faults' \in 0..MaxFaults
  BY FaultType DEF Base, TypeOK
<1> QED
  BY <1>1, <1>2, <1>3, <1>4, <1>5 DEF Base, TypeOK, LatestIsNewest

LEMMA BaseRgdUpdateStatus ==
    ASSUME Base, RgdUpdateStatus
    PROVE  Base'
<1> USE DEF RgdUpdateStatus, mem, RgdEnd
<1>0. rgd \in RGD /\ rq \in BOOLEAN
  BY DEF Base, TypeOK
<1>1. rgd' \in RGD
  BY <1>0, WorkerParts DEF RGD
<1>2. rq' \in BOOLEAN
  BY <1>0, WorkerParts
<1>3. w' \in RgdWorker /\ WorkerHasRGD'
  BY WorkerGoesIdle
<1>4. faults' \in 0..MaxFaults
  BY FaultType DEF Base, TypeOK
<1> QED
  BY <1>1, <1>2, <1>3, <1>4 DEF Base, TypeOK, LatestIsNewest

LEMMA BaseRgdCleanup ==
    ASSUME Base, RgdCleanup
    PROVE  Base'
<1> USE DEF RgdCleanup, RgdEnd
<1>0. rq \in BOOLEAN /\ crd \in Specs \cup {NoSpec} /\ handler \in Specs \cup {NoSpec}
  BY DEF Base, TypeOK
<1>1. crd' \in Specs \cup {NoSpec} /\ handler' \in Specs \cup {NoSpec}
  BY <1>0
<1>2. rq' \in BOOLEAN
  BY <1>0
<1>3. w' \in RgdWorker /\ WorkerHasRGD'
  <2>1. CASE w' = IdleRgd
    BY <2>1, WorkerGoesIdle
  <2>2. CASE w' = [w EXCEPT !.pc = "unmanage"]
    <3>1. w' \in RgdWorker /\ w'.o.uid = w.o.uid
      BY <2>2, WorkerParts DEF RgdWorker, RgdPc
    <3> QED
      BY <3>1, WorkerGoesOn
  <2> QED
    BY <2>1, <2>2
<1>4. faults' \in 0..MaxFaults
  BY FaultType DEF Base, TypeOK
<1> QED
  BY <1>1, <1>2, <1>3, <1>4 DEF Base, TypeOK, LatestIsNewest

LEMMA BaseRgdSetUnmanaged ==
    ASSUME Base, RgdSetUnmanaged
    PROVE  Base'
<1> USE DEF RgdSetUnmanaged, mem, RgdEnd
<1>0. rgd \in RGD /\ rq \in BOOLEAN
  BY DEF Base, TypeOK
<1>1. rgd' \in RGD
  <2>1. [rgd EXCEPT !.fin = FALSE, !.orphan = w.o.orphan] \in RGD
    BY <1>0, WorkerParts DEF RGD
  <2> QED
    BY <2>1, <1>0, FinalizedType DEF PatchFinalizers
<1>2. rq' \in BOOLEAN
  BY <1>0
<1>3. w' \in RgdWorker /\ WorkerHasRGD'
  BY WorkerGoesIdle
<1>4. faults' \in 0..MaxFaults
  BY FaultType DEF Base, TypeOK
<1> QED
  BY <1>1, <1>2, <1>3, <1>4 DEF Base, TypeOK, LatestIsNewest

LEMMA BaseRgdSync ==
    ASSUME Base, RgdSync
    PROVE  Base'
<1>1. rq' \in BOOLEAN
  BY DEF RgdSync, Base, TypeOK
<1> QED
  BY <1>1 DEF RgdSync, api, mem, history, Base, TypeOK, LatestIsNewest, WorkerHasRGD

\* The worker of a revision moves, or ends.
LEMMA GrWorkerType ==
    ASSUME Base, NEW r \in Revs
    PROVE  /\ \A pc \in GrPc : GrGoto(r, pc) => g' \in [Revs -> GrWorker]
           /\ \A retry \in BOOLEAN :
                 GrEnd(r, retry) => g' \in [Revs -> GrWorker] /\ gq' \in [Revs -> BOOLEAN]
<1>1. g \in [Revs -> GrWorker] /\ gq \in [Revs -> BOOLEAN]
  BY DEF Base, TypeOK
<1>2. ASSUME NEW pc \in GrPc, GrGoto(r, pc)
      PROVE  g' \in [Revs -> GrWorker]
  <2>1. [g[r] EXCEPT !.pc = pc] \in GrWorker
    BY <1>1 DEF GrWorker
  <2> QED
    BY <1>1, <1>2, <2>1 DEF GrGoto
<1>3. ASSUME NEW retry \in BOOLEAN, GrEnd(r, retry)
      PROVE  g' \in [Revs -> GrWorker] /\ gq' \in [Revs -> BOOLEAN]
  BY <1>1, <1>3, ConstantObjects DEF GrEnd
<1> QED
  BY <1>2, <1>3

LEMMA PutType ==
    ASSUME Base, NEW r \in Revs, NEW st \in States
    PROVE  LET b == Put(reg, r, [state |-> st, spec |-> g[r].spec])
           IN b \in Bucket /\ LatestOK(b)
<1>1. g[r].spec \in Specs \cup {NoSpec} /\ reg \in Bucket /\ LatestOK(reg)
  BY DEF Base, TypeOK, GrWorker, LatestIsNewest
<1>2. [state |-> st, spec |-> g[r].spec] \in Entry /\ st # "Absent"
  BY <1>1 DEF Entry, States
<1> QED
  BY <1>1, <1>2, PutOK

LEMMA BaseGrStart ==
    ASSUME Base, NEW r \in Revs, GrStart(r)
    PROVE  Base'
<1>0. gr[r] \in GR /\ g \in [Revs -> GrWorker] /\ gq \in [Revs -> BOOLEAN]
  BY DEF Base, TypeOK
<1>1. ASSUME NEW pc \in GrPc
      PROVE  [IdleGr EXCEPT !.fin = gr[r].fin, !.spec = gr[r].spec, !.pc = pc] \in GrWorker
  BY <1>0, ConstantObjects DEF GR, GrWorker
<1>2. g' \in [Revs -> GrWorker]
  BY <1>0, <1>1, ConstantObjects DEF GrStart, GrPc
<1>3. gq' \in [Revs -> BOOLEAN]
  BY <1>0 DEF GrStart
<1> QED
  BY <1>2, <1>3 DEF GrStart, api, mem, history, Base, TypeOK, LatestIsNewest, WorkerHasRGD

LEMMA BaseGrSetManaged ==
    ASSUME Base, NEW r \in Revs, GrSetManaged(r)
    PROVE  Base'
<1> USE DEF GrSetManaged
<1>0. gr \in [Revs -> GR] /\ gq \in [Revs -> BOOLEAN] /\ rq \in BOOLEAN
  BY DEF Base, TypeOK
<1>1. gr' \in [Revs -> GR]
  <2>1. [gr[r] EXCEPT !.fin = TRUE] \in GR
    BY <1>0 DEF GR
  <2> QED
    BY <1>0, <2>1
<1>2. rq' \in BOOLEAN
  BY <1>0
<1>3. g' \in [Revs -> GrWorker] /\ gq' \in [Revs -> BOOLEAN]
  BY <1>0, GrWorkerType DEF GrPc
<1>4. faults' \in 0..MaxFaults
  BY FaultType DEF Base, TypeOK
<1> QED
  BY <1>1, <1>2, <1>3, <1>4 DEF mem, Base, TypeOK, LatestIsNewest, WorkerHasRGD

LEMMA BaseGrPend ==
    ASSUME Base, NEW r \in Revs, GrPend(r)
    PROVE  Base'
<1>1. reg' \in Bucket /\ LatestIsNewest'
  BY PutType DEF GrPend, States, Base, TypeOK, LatestIsNewest
<1>2. g' \in [Revs -> GrWorker]
  BY GrWorkerType DEF GrPend, GrPc
<1> QED
  BY <1>1, <1>2 DEF GrPend, api, history, Base, TypeOK, WorkerHasRGD

LEMMA BaseGrCompile ==
    ASSUME Base, NEW r \in Revs, GrCompile(r)
    PROVE  Base'
<1>1. reg' \in Bucket /\ LatestIsNewest'
  BY PutType DEF GrCompile, States, Base, TypeOK, LatestIsNewest
<1>2. g' \in [Revs -> GrWorker]
  <2>1. ASSUME NEW ok \in BOOLEAN
        PROVE  [g[r] EXCEPT !.ok = ok, !.pc = "status"] \in GrWorker
    <3>1. g[r] \in GrWorker
      BY DEF Base, TypeOK
    <3> QED
      BY <3>1 DEF GrWorker, GrPc
  <2>2. g \in [Revs -> GrWorker]
    BY DEF Base, TypeOK
  <2>3. \E ok \in BOOLEAN : g' = [g EXCEPT ![r] = [g[r] EXCEPT !.ok = ok, !.pc = "status"]]
    BY <2>2 DEF GrCompile
  <2> QED
    BY <2>1, <2>2, <2>3
<1>3. faults' \in 0..MaxFaults
  BY FaultType DEF GrCompile, Base, TypeOK
<1> QED
  BY <1>1, <1>2, <1>3 DEF GrCompile, api, Base, TypeOK, WorkerHasRGD

LEMMA BaseGrUpdateStatus ==
    ASSUME Base, NEW r \in Revs, GrUpdateStatus(r)
    PROVE  Base'
<1> USE DEF GrUpdateStatus
<1>0. gr \in [Revs -> GR] /\ gq \in [Revs -> BOOLEAN] /\ rq \in BOOLEAN
  BY DEF Base, TypeOK
<1>1. gr' \in [Revs -> GR]
  <2>1. ASSUME NEW v \in Tri
        PROVE  [gr[r] EXCEPT !.verified = v] \in GR
    BY <1>0 DEF GR
  <2> QED
    BY <1>0, <2>1 DEF Tri
<1>2. rq' \in BOOLEAN
  BY <1>0
<1>3. g' \in [Revs -> GrWorker] /\ gq' \in [Revs -> BOOLEAN]
  BY <1>0, GrWorkerType DEF GrPc
<1>4. faults' \in 0..MaxFaults
  BY FaultType DEF Base, TypeOK
<1> QED
  BY <1>1, <1>2, <1>3, <1>4 DEF mem, Base, TypeOK, LatestIsNewest, WorkerHasRGD

LEMMA BaseGrPublish ==
    ASSUME Base, NEW r \in Revs, GrPublish(r)
    PROVE  Base'
<1>1. reg' \in Bucket /\ LatestIsNewest'
  BY PutType DEF GrPublish, States, LatestIsNewest
<1>2. g' \in [Revs -> GrWorker] /\ gq' \in [Revs -> BOOLEAN]
  BY GrWorkerType DEF GrPublish
<1> QED
  BY <1>1, <1>2 DEF GrPublish, api, history, Base, TypeOK, WorkerHasRGD

LEMMA BaseGrSetUnmanaged ==
    ASSUME Base, NEW r \in Revs, GrSetUnmanaged(r)
    PROVE  Base'
<1> USE DEF GrSetUnmanaged
<1>0. gr \in [Revs -> GR] /\ gq \in [Revs -> BOOLEAN] /\ rq \in BOOLEAN
  BY DEF Base, TypeOK
<1>1. gr' \in [Revs -> GR]
  <2>1. [gr[r] EXCEPT !.fin = FALSE] \in GR
    BY <1>0 DEF GR
  <2> QED
    BY <1>0, <2>1, ConstantObjects
<1>2. rq' \in BOOLEAN
  BY <1>0 DEF Base, TypeOK, GrWorker
<1>3. g' \in [Revs -> GrWorker] /\ gq' \in [Revs -> BOOLEAN]
  BY <1>0, GrWorkerType DEF GrPc
<1>4. faults' \in 0..MaxFaults
  BY FaultType DEF Base, TypeOK
<1> QED
  BY <1>1, <1>2, <1>3, <1>4 DEF mem, Base, TypeOK, LatestIsNewest, WorkerHasRGD

LEMMA BaseGrEvict ==
    ASSUME Base, NEW r \in Revs, GrEvict(r)
    PROVE  Base'
<1>1. reg' \in Bucket /\ LatestIsNewest'
  BY DeleteOK DEF GrEvict, Base, TypeOK, LatestIsNewest
<1>2. g' \in [Revs -> GrWorker] /\ gq' \in [Revs -> BOOLEAN]
  BY GrWorkerType DEF GrEvict
<1> QED
  BY <1>1, <1>2 DEF GrEvict, api, history, Base, TypeOK, WorkerHasRGD

LEMMA BaseUser == ASSUME Base, UserNext PROVE Base'
<1> USE DEF mem, history
<1>0. rgd \in RGD /\ gr \in [Revs -> GR] /\ gq \in [Revs -> BOOLEAN] /\ born \in 0..MaxUid
      /\ edits \in 0..MaxEdits
  BY DEF Base, TypeOK
<1>1. ASSUME NEW s \in Specs, UserCreates(s) PROVE Base'
  <2>1. born + 1 \in Uids /\ born' \in 0..MaxUid
    BY <1>0, <1>1, GraphRevisionsAssumption DEF UserCreates, Uids
  <2>2. rgd' \in RGD
    BY <1>1, <2>1, NewObjects DEF UserCreates
  <2> QED
    BY <1>1, <2>1, <2>2 DEF UserCreates, Base, TypeOK, LatestIsNewest, WorkerHasRGD
<1>2. ASSUME NEW s \in Specs, UserEdits(s) PROVE Base'
  <2>1. edits' \in 0..MaxEdits
    BY <1>0, <1>2, GraphRevisionsAssumption DEF UserEdits
  <2>2. rgd' \in RGD
    BY <1>0, <1>2 DEF UserEdits, RGD
  <2> QED
    BY <1>2, <2>1, <2>2 DEF UserEdits, Base, TypeOK, LatestIsNewest, WorkerHasRGD
<1>3. ASSUME NEW orphan \in BOOLEAN, UserDeletesRGD(orphan) PROVE Base'
  <2>1. [rgd EXCEPT !.deleting = TRUE, !.orphan = orphan] \in RGD
    BY <1>0 DEF RGD
  <2>2. rgd' \in RGD
    BY <1>3, <2>1, FinalizedType DEF UserDeletesRGD
  <2> QED
    BY <1>3, <2>2 DEF UserDeletesRGD, Base, TypeOK, LatestIsNewest, WorkerHasRGD
<1>4. ASSUME NEW r \in Revs, UserDeletesGR(r) PROVE Base'
  <2>1. gr' \in [Revs -> GR] /\ gq' \in [Revs -> BOOLEAN]
    BY <1>0, <1>4, DeletedType DEF UserDeletesGR
  <2>2. faults' \in 0..MaxFaults
    BY <1>4, FaultType DEF UserDeletesGR, Base, TypeOK
  <2> QED
    BY <1>4, <2>1, <2>2 DEF UserDeletesGR, Base, TypeOK, LatestIsNewest, WorkerHasRGD
<1>5. ASSUME UserDeletesCRD PROVE Base'
  <2>1. faults' \in 0..MaxFaults
    BY <1>5, FaultType DEF UserDeletesCRD, Base, TypeOK
  <2> QED
    BY <1>5, <2>1 DEF UserDeletesCRD, Base, TypeOK, LatestIsNewest, WorkerHasRGD
<1> QED
  BY <1>1, <1>2, <1>3, <1>4, <1>5 DEF UserNext

LEMMA BaseKube == ASSUME Base, KubeNext PROVE Base'
<1> USE DEF mem, history
<1>0. rgd \in RGD /\ gr \in [Revs -> GR] /\ gq \in [Revs -> BOOLEAN] /\ rq \in BOOLEAN
  BY DEF Base, TypeOK
<1>1. ASSUME KubeOrphans PROVE Base'
  <2>1. \A r \in Revs : [gr[r] EXCEPT !.owner = 0] \in GR
    BY <1>0, GraphRevisionsAssumption DEF GR
  <2>2. gr' \in [Revs -> GR]
    BY <1>0, <1>1, <2>1 DEF KubeOrphans
  <2>3. [rgd EXCEPT !.orphan = FALSE] \in RGD
    BY <1>0 DEF RGD
  <2>4. rgd' \in RGD
    BY <1>1, <2>3, FinalizedType DEF KubeOrphans
  <2>5. rq' \in BOOLEAN
    BY <1>0, <1>1 DEF KubeOrphans
  <2> QED
    BY <1>1, <2>2, <2>4, <2>5 DEF KubeOrphans, Base, TypeOK, LatestIsNewest, WorkerHasRGD
<1>2. ASSUME NEW r \in Revs, KubeCollects(r) PROVE Base'
  <2>1. gr' \in [Revs -> GR] /\ gq' \in [Revs -> BOOLEAN]
    BY <1>0, <1>2, DeletedType DEF KubeCollects
  <2> QED
    BY <1>2, <2>1 DEF KubeCollects, Base, TypeOK, LatestIsNewest, WorkerHasRGD
<1> QED
  BY <1>1, <1>2 DEF KubeNext

LEMMA BaseRestart == ASSUME Base, Restart PROVE Base'
<1>1. reg' \in Bucket /\ LatestIsNewest'
  BY EmptyBucketOK DEF Restart, LatestIsNewest
<1>2. w' \in RgdWorker /\ WorkerHasRGD'
  BY WorkerGoesIdle DEF Restart
<1>3. g' \in [Revs -> GrWorker] /\ gq' \in [Revs -> BOOLEAN] /\ rq' \in BOOLEAN
  BY ConstantObjects DEF Restart
<1>4. faults' \in 0..MaxFaults
  BY FaultType DEF Restart, Base, TypeOK
<1> QED
  BY <1>1, <1>2, <1>3, <1>4 DEF Restart, api, Base, TypeOK

LEMMA BaseStep == Base /\ [Next]_vars => Base'
<1> SUFFICES ASSUME Base, [Next]_vars PROVE Base'
  OBVIOUS
<1>1. CASE RgdNext
  BY <1>1, BaseRgdStart, BaseRgdSetManaged, BaseRgdList, BaseRgdResolve, BaseRgdCreate,
     BaseRgdServe, BaseRgdGC, BaseRgdUpdateStatus, BaseRgdCleanup, BaseRgdSetUnmanaged
     DEF RgdNext
<1>2. CASE RgdSync
  BY <1>2, BaseRgdSync
<1>3. ASSUME NEW r \in Revs, GrNext(r) PROVE Base'
  BY <1>3, BaseGrStart, BaseGrSetManaged, BaseGrPend, BaseGrCompile, BaseGrUpdateStatus,
     BaseGrPublish, BaseGrSetUnmanaged, BaseGrEvict DEF GrNext
<1>4. CASE UserNext
  BY <1>4, BaseUser
<1>5. CASE KubeNext
  BY <1>5, BaseKube
<1>6. CASE Restart
  BY <1>6, BaseRestart
<1>7. CASE UNCHANGED vars
  BY <1>7 DEF vars, Base, TypeOK, LatestIsNewest, WorkerHasRGD
<1> QED
  BY <1>1, <1>2, <1>3, <1>4, <1>5, <1>6, <1>7 DEF Next

\* Type correctness: every object, worker and queue of the two reconcilers keeps
\* its type, whatever they, users, the cluster and restarts do.
THEOREM TypeCorrect == Spec => []TypeOK
<1>1. Base => TypeOK
  BY DEF Base
<1> QED
  BY <1>1, BaseInit, BaseStep, PTL DEF Spec

\* The O(1) pointer behind Registry.Latest is the newest entry in every state
\* of the two reconcilers together.
THEOREM LatestIsNewestHolds == Spec => []LatestIsNewest
<1>1. Base => LatestIsNewest
  BY DEF Base
<1> QED
  BY <1>1, BaseInit, BaseStep, PTL DEF Spec

-----------------------------------------------------------------------------
(* Numbers: the listing that a number is computed from stays complete.     *)

\* A revision that exists after a step existed before it, except for the one
\* that RgdCreate creates.
NoNewRevision == \A r \in Revs : gr'[r].st # "none" => gr[r].st # "none"

LEMMA NothingNew ==
    ASSUME Base, Next, ~RgdCreate
    PROVE  NoNewRevision
<1>0. gr \in [Revs -> GR]
  BY DEF Base, TypeOK
<1>1. ASSUME NEW S \in SUBSET Revs, S \subseteq Live,
             gr' = [r \in Revs |-> IF r \in S THEN Deleted(gr[r]) ELSE gr[r]]
      PROVE  NoNewRevision
  BY <1>1 DEF NoNewRevision, Live
<1>2. CASE RgdNext
  <2>1. CASE RgdList
    <3> DEFINE orphans == {r \in Live : gr[r].owner # w.o.uid}
    <3>1. CASE gr' = [r \in Revs |-> IF r \in orphans
                                     THEN [gr[r] EXCEPT !.owner = w.o.uid] ELSE gr[r]]
      BY <3>1, <1>0 DEF NoNewRevision, GR
    <3>2. CASE \E S \in SUBSET orphans :
                 gr' = [r \in Revs |-> IF r \in S
                                       THEN [gr[r] EXCEPT !.owner = w.o.uid] ELSE gr[r]]
      BY <3>2, <1>0 DEF NoNewRevision, GR
    <3> QED
      BY <2>1, <3>1, <3>2 DEF RgdList
  <2>2. CASE RgdGC
    <3>1. PICK S \in SUBSET Collectable(Live) :
             gr' = [r \in Revs |-> IF r \in S THEN Deleted(gr[r]) ELSE gr[r]]
      BY <2>2 DEF RgdGC
    <3>2. Collectable(Live) \subseteq Live /\ Live \subseteq Revs
      BY DEF Collectable, Live
    <3> QED
      BY <3>1, <3>2, <1>1
  <2>3. CASE UNCHANGED gr
    BY <2>3 DEF NoNewRevision
  <2> QED
    BY <1>2, <2>1, <2>2, <2>3 DEF RgdNext, RgdStart, RgdSetManaged, RgdResolve, RgdServe,
       RgdUpdateStatus, RgdCleanup, RgdSetUnmanaged, api
<1>3. ASSUME NEW r \in Revs, GrNext(r) PROVE NoNewRevision
  <2>1. CASE UNCHANGED gr
    BY <2>1 DEF NoNewRevision
  <2>2. CASE GrSetManaged(r)
    BY <1>0, <2>2 DEF GrSetManaged, NoNewRevision, GR
  <2>3. CASE GrUpdateStatus(r)
    BY <1>0, <2>3 DEF GrUpdateStatus, NoNewRevision, GR
  <2>4. CASE GrSetUnmanaged(r)
    <3> DEFINE u == [gr EXCEPT ![r] = IF @.st = "terminating" THEN NoGR
                                      ELSE [@ EXCEPT !.fin = FALSE]]
    <3>1. gr' = gr \/ gr' = u
      BY <2>4 DEF GrSetUnmanaged
    <3>2. \A x \in Revs : u[x].st # "none" => gr[x].st # "none"
      BY <1>0 DEF NoGR, GR
    <3> QED
      BY <3>1, <3>2 DEF NoNewRevision
  <2> QED
    BY <1>3, <2>1, <2>2, <2>3, <2>4 DEF GrNext, GrStart, GrPend, GrCompile, GrPublish,
       GrEvict, api
<1>4. CASE UserNext
  <2>1. CASE UNCHANGED gr
    BY <2>1 DEF NoNewRevision
  <2>2. ASSUME NEW r \in Revs, UserDeletesGR(r) PROVE NoNewRevision
    BY <1>0, <2>2 DEF UserDeletesGR, NoNewRevision
  <2> QED
    BY <1>4, <2>1, <2>2 DEF UserNext, UserCreates, UserEdits, UserDeletesRGD, UserDeletesCRD
<1>5. CASE KubeNext
  <2>1. ASSUME KubeOrphans PROVE NoNewRevision
    BY <1>0, <2>1 DEF KubeOrphans, NoNewRevision, GR
  <2>2. ASSUME NEW r \in Revs, KubeCollects(r) PROVE NoNewRevision
    BY <1>0, <2>2 DEF KubeCollects, NoNewRevision
  <2> QED
    BY <1>5, <2>1, <2>2 DEF KubeNext
<1>6. CASE RgdSync \/ Restart
  BY <1>6 DEF RgdSync, Restart, api, NoNewRevision
<1> QED
  BY <1>2, <1>3, <1>4, <1>5, <1>6 DEF Next

\* Where a step may leave the worker at the two places that use the listing.
LEMMA ListingStep ==
    ASSUME Base, ListingCovers, Next
    PROVE  ListingCovers'
<1>1. CASE RgdCreate
  <2>1. w'.pc = "status"
    BY <1>1, WorkerParts DEF RgdCreate, RgdWorker
  <2> QED
    BY <2>1 DEF ListingCovers
<1>2. CASE RgdList
  <2>1. \A r \in Revs : gr'[r].st # "none" => gr[r].st # "none"
    BY <1>2, NothingNew DEF NoNewRevision, RgdList, RgdCreate
  <2>2. \A r \in Revs : gr[r].st # "none" => r \in Live \/ HasTerminating
    BY DEF Live, HasTerminating, Base, TypeOK, GR
  <2>3. \/ w'.pc = "resolve" /\ w'.live = Live /\ w'.term = HasTerminating
        \/ w'.pc = "status"
    BY <1>2, WorkerParts DEF RgdList, RgdWorker
  <2> QED
    BY <2>1, <2>2, <2>3 DEF ListingCovers
<1>3. CASE RgdResolve
  <2> DEFINE d == Resolution(w.live, w.term,
                    IF Newest(w.live) = 0 THEN NoEntry ELSE reg.entries[Newest(w.live)],
                    w.o.spec)
  <2>1. w.term => d = "settling"
    BY DEF Resolution
  <2>2. w'.pc \in {"create", "status", "serve"} /\ w'.live = w.live
    BY <1>3, WorkerParts DEF RgdResolve, RgdWorker
  <2>3. w.term => w'.pc = "status"
    BY <1>3, <2>1, WorkerParts DEF RgdResolve, RgdWorker
  <2>4. w.pc = "resolve" /\ gr' = gr
    BY <1>3 DEF RgdResolve, api
  <2> QED
    BY <2>2, <2>3, <2>4 DEF ListingCovers
<1>4. CASE ~RgdCreate /\ ~RgdList /\ ~RgdResolve
  <2>1. NoNewRevision
    BY <1>4, NothingNew
  <2>2. w' = w \/ w'.pc \notin {"resolve", "create"}
    <3>1. CASE RgdNext
      <4>1. CASE RgdStart
        BY <4>1 DEF RgdStart, IdleRgd
      <4>2. ASSUME NEW pc \in {"list", "unmanage"},
                   w' = IdleRgd \/ w' = [w EXCEPT !.pc = pc]
            PROVE  w'.pc \notin {"resolve", "create"}
        BY <4>2, WorkerParts DEF IdleRgd, RgdWorker
      <4>3. CASE RgdSetManaged
        BY <4>2, <4>3 DEF RgdSetManaged, RgdEnd
      <4>4. CASE RgdCleanup
        BY <4>2, <4>4 DEF RgdCleanup, RgdEnd
      <4>5. CASE RgdServe
        BY <4>5, WorkerParts DEF RgdServe, RgdWorker
      <4>6. CASE RgdGC
        BY <4>6, WorkerParts DEF RgdGC, RgdWorker
      <4>7. CASE RgdUpdateStatus
        BY <4>7 DEF RgdUpdateStatus, RgdEnd, IdleRgd
      <4>8. CASE RgdSetUnmanaged
        <5>1. w' = IdleRgd
          BY <4>8 DEF RgdSetUnmanaged, RgdEnd
        <5> QED
          BY <5>1 DEF IdleRgd
      <4> QED
        BY <1>4, <3>1, <4>1, <4>3, <4>4, <4>5, <4>6, <4>7, <4>8 DEF RgdNext
    <3>2. ASSUME NEW r \in Revs, GrNext(r) PROVE w' = w
      BY <3>2 DEF GrNext, GrStart, GrSetManaged, GrPend, GrCompile, GrUpdateStatus,
         GrPublish, GrSetUnmanaged, GrEvict
    <3>3. CASE UserNext
      BY <3>3 DEF UserNext, UserCreates, UserEdits, UserDeletesRGD, UserDeletesGR,
         UserDeletesCRD
    <3>4. CASE KubeNext \/ RgdSync \/ Restart
      BY <3>4 DEF KubeNext, KubeOrphans, KubeCollects, RgdSync, Restart, IdleRgd
    <3> QED
      BY <3>1, <3>2, <3>3, <3>4 DEF Next
  <2> QED
    BY <2>1, <2>2 DEF ListingCovers, NoNewRevision
<1> QED
  BY <1>1, <1>2, <1>3, <1>4

LEMMA BaseHolds == Spec => []Base
BY BaseInit, BaseStep, PTL DEF Spec

LEMMA ListingHolds == Spec => []ListingCovers
<1>1. Init => ListingCovers
  BY DEF Init, ListingCovers, IdleRgd
<1>2. Base /\ ListingCovers /\ [Next]_vars => ListingCovers'
  <2>1. CASE UNCHANGED vars
    BY <2>1 DEF vars, ListingCovers
  <2> QED
    BY <2>1, ListingStep
<1> QED
  BY <1>1, <1>2, BaseHolds, PTL DEF Spec

\* createGraphRevision never meets an object of its number, however stale the
\* cached status that the number is computed from, for every history of edits,
\* deletions, re-creations, restarts and failures.
THEOREM NumberIsFreeHolds == Spec => []NumberIsFree
<1>1. Base /\ ListingCovers => NumberIsFree
  <2> SUFFICES ASSUME Base, ListingCovers, w.pc = "create", NextRevision <= MaxRev
               PROVE  gr[NextRevision].st = "none"
    BY DEF NumberIsFree
  <2>1. NextRevision \in Revs /\ \A r \in w.live : r < NextRevision
    BY NextRevisionFacts
  <2>2. NextRevision \notin w.live
    BY <2>1, RegistryAssumption DEF Revs
  <2> QED
    BY <2>1, <2>2 DEF ListingCovers
<1> QED
  BY <1>1, BaseHolds, ListingHolds, PTL

-----------------------------------------------------------------------------
(* Publication: what a step of anybody but its own worker may do to a      *)
(* revision.                                                               *)

\* The object keeps what the invariant speaks of, is deleted, or is created.
Kept(r) == /\ gr'[r].st = gr[r].st
           /\ gr'[r].fin = gr[r].fin
           /\ gr'[r].verified = gr[r].verified
Removed(r) == gr[r].st = "live" /\ gr'[r] = Deleted(gr[r])
Created(r) == gr[r].st = "none" /\ gr'[r].st = "live"

\* A step that is not the worker's own.
Foreign(r) ==
    \/ /\ g'[r] = g[r]
       /\ reg'.entries[r] = reg.entries[r] \/ reg'.entries[r] = NoEntry
       /\ Kept(r) \/ Removed(r) \/ Created(r)
    \/ g'[r] = IdleGr /\ Kept(r) /\ reg'.entries[r] = NoEntry

LEMMA ForeignKeeps ==
    ASSUME Base, NEW r \in Revs, RevInv(r), Foreign(r)
    PROVE  RevInv(r)'
<1>0. gr[r] \in GR /\ g[r] \in GrWorker
  BY DEF Base, TypeOK
<1>1. CASE g'[r] = IdleGr /\ Kept(r) /\ reg'.entries[r] = NoEntry
  BY <1>1 DEF RevInv, Pinned, Kept, HasEntry, NoEntry, IdleGr
<1>2. ASSUME g'[r] = g[r],
             reg'.entries[r] = reg.entries[r] \/ reg'.entries[r] = NoEntry,
             Kept(r) \/ Removed(r) \/ Created(r)
      PROVE  RevInv(r)'
  <2>1. CASE Kept(r)
    BY <1>2, <2>1 DEF RevInv, Pinned, Kept, HasEntry, NoEntry
  <2>2. CASE Removed(r)
    <3>1. gr[r].st = "live" /\ gr'[r] = Deleted(gr[r])
      BY <2>2 DEF Removed
    <3>2. CASE gr[r].fin
      <4>1. gr'[r] = [gr[r] EXCEPT !.st = "terminating"]
        BY <3>1, <3>2 DEF Deleted
      <4>2. gr'[r].st = "terminating" /\ gr'[r].verified = gr[r].verified
        BY <4>1, <1>0 DEF GR
      <4>3. gr'[r].fin
        BY <4>1, <1>0, <3>2 DEF GR
      <4> QED
        BY <1>2, <3>1, <3>2, <4>2, <4>3 DEF RevInv, Pinned, HasEntry, NoEntry
    <3>3. CASE ~gr[r].fin
      <4>1. gr'[r].st = "none"
        BY <3>1, <3>3 DEF Deleted, NoGR
      <4> QED
        BY <1>2, <3>1, <3>3, <4>1 DEF RevInv, Pinned, HasEntry, NoEntry
    <3> QED
      BY <3>2, <3>3
  <2>3. CASE Created(r)
    BY <1>2, <2>3 DEF Created, RevInv, Pinned, HasEntry, NoEntry
  <2> QED
    BY <1>2, <2>1, <2>2, <2>3
<1> QED
  BY <1>1, <1>2 DEF Foreign

\* The worker's own steps.
LEMMA OwnKeeps ==
    ASSUME Base, NEW r \in Revs, RevInv(r), GrNext(r)
    PROVE  RevInv(r)'
<1>0. /\ gr \in [Revs -> GR] /\ g \in [Revs -> GrWorker]
      /\ reg.entries \in [Revs -> Entry] /\ gr[r] \in GR /\ g[r] \in GrWorker
  BY DEF Base, TypeOK, Bucket
<1>1. ASSUME NEW e, reg' = Put(reg, r, e)
      PROVE  reg'.entries[r] = e
  BY <1>0, <1>1 DEF Put
<1>2. CASE GrStart(r)
  BY <1>0, <1>2 DEF GrStart, api, mem, RevInv, Pinned, HasEntry, IdleGr, GR
<1>3. CASE GrSetManaged(r)
  <2>1. /\ gr' = gr \/ gr' = [gr EXCEPT ![r].fin = TRUE]
        /\ reg' = reg
    BY <1>3 DEF GrSetManaged, mem
  <2>3. /\ gr'[r].st = gr[r].st /\ gr'[r].verified = gr[r].verified
        /\ gr[r].fin => gr'[r].fin
    BY <1>0, <2>1 DEF GR
  <2>2. \/ g'[r] = IdleGr
        \/ g'[r].pc = "pend" /\ gr'[r].st # "none" /\ gr'[r].fin
    BY <1>0, <1>3 DEF GrSetManaged, GrGoto, GrEnd, GR, GrWorker, RevInv, Pinned
  <2> QED
    BY <1>3, <2>1, <2>2, <2>3 DEF GrSetManaged, RevInv, Pinned, HasEntry, IdleGr
<1>4. CASE GrPend(r)
  <2>1. gr' = gr /\ g[r].pc = "pend" /\ g'[r].pc = "compile"
    BY <1>0, <1>4 DEF GrPend, GrGoto, GrWorker, api
  <2>2. reg' = reg \/ reg'.entries[r].state = "Pending"
    BY <1>1, <1>4 DEF GrPend
  <2> QED
    BY <2>1, <2>2 DEF RevInv, Pinned, HasEntry
<1>5. CASE GrCompile(r)
  <2>1. gr' = gr /\ g[r].pc = "compile" /\ g'[r].pc = "status"
    BY <1>0, <1>5 DEF GrCompile, GrWorker, api
  <2>2. \/ reg' = reg /\ g'[r].ok
        \/ reg'.entries[r].state = "Failed"
    BY <1>0, <1>1, <1>5 DEF GrCompile, GrWorker
  <2> QED
    BY <2>1, <2>2 DEF RevInv, Pinned, HasEntry
<1>6. CASE GrUpdateStatus(r)
  <2>1. /\ gr' = gr \/ \E v \in Tri : gr' = [gr EXCEPT ![r].verified = v]
        /\ reg' = reg /\ g[r].pc = "status"
    BY <1>6 DEF GrUpdateStatus, mem, Tri
  <2>3. gr'[r].st = gr[r].st /\ (gr[r].fin => gr'[r].fin)
    BY <1>0, <2>1 DEF GR
  <2>2. \/ g'[r] = IdleGr /\ gr' = gr
        \/ g'[r] = IdleGr /\ ~g[r].ok
        \/ g'[r].pc = "publish" /\ gr'[r].verified = "True"
    BY <1>0, <1>6 DEF GrUpdateStatus, GrGoto, GrEnd, GrWorker, GR
  <2> QED
    BY <2>1, <2>2, <2>3 DEF RevInv, Pinned, HasEntry, IdleGr
<1>7. CASE GrPublish(r)
  <2>1. gr' = gr /\ g[r].pc = "publish" /\ g'[r] = IdleGr
    BY <1>0, <1>7 DEF GrPublish, GrEnd, api
  <2> QED
    BY <2>1 DEF RevInv, Pinned, IdleGr
<1>8. CASE GrSetUnmanaged(r)
  <2>1. /\ reg' = reg /\ g[r].pc = "unmanage"
        /\ g'[r] = IdleGr \/ g'[r].pc = "evict"
    BY <1>0, <1>8 DEF GrSetUnmanaged, GrGoto, GrEnd, GrWorker, mem
  <2> DEFINE u == [gr EXCEPT ![r] = IF @.st = "terminating" THEN NoGR
                                    ELSE [@ EXCEPT !.fin = FALSE]]
  <2>2. gr' = gr \/ gr' = u
    BY <1>8 DEF GrSetUnmanaged
  <2>3. \/ u[r].st = "none"
        \/ gr[r].st # "terminating" /\ u[r].st = gr[r].st
    BY <1>0 DEF NoGR, GR
  <2>4. ~LostReplies /\ gr' # gr => GrGoto(r, "evict")
    BY <1>8 DEF GrSetUnmanaged
  <2>5. ~LostReplies /\ gr' # gr => g'[r].pc = "evict"
    BY <1>0, <2>4 DEF GrGoto, GrWorker
  <2>6. \/ gr' = gr
        \/ gr'[r].st = "none"
        \/ gr[r].st # "terminating" /\ gr'[r].st = gr[r].st
    BY <2>2, <2>3
  <2> QED
    BY <2>1, <2>5, <2>6 DEF RevInv, Pinned, HasEntry, IdleGr
<1>9. CASE GrEvict(r)
  <2>1. gr' = gr /\ g'[r] = IdleGr
    BY <1>0, <1>9 DEF GrEvict, GrEnd, api
  <2>2. reg'.entries[r].state = "Absent"
    BY <1>0, <1>9 DEF GrEvict, Delete, EmptyBucket, recomputeLatest, HasEntry, NoEntry, Bucket, Base, TypeOK
  <2> QED
    BY <2>1, <2>2 DEF RevInv, Pinned, HasEntry, IdleGr
<1> QED
  BY <1>2, <1>3, <1>4, <1>5, <1>6, <1>7, <1>8, <1>9 DEF GrNext

LEMMA StepKinds ==
    ASSUME Base, Next, NEW r \in Revs
    PROVE  GrNext(r) \/ Foreign(r)
<1>0. gr \in [Revs -> GR] /\ g \in [Revs -> GrWorker] /\ reg.entries \in [Revs -> Entry]
  BY DEF Base, TypeOK, Bucket
<1>1. ASSUME g' = g, reg' = reg, Kept(r) \/ Removed(r) \/ Created(r)
      PROVE  Foreign(r)
  BY <1>1 DEF Foreign
<1>2. ASSUME NEW u, gr'[r] = gr[r] \/ gr'[r] = [gr[r] EXCEPT !.owner = u]
      PROVE  Kept(r)
  BY <1>0, <1>2 DEF Kept, GR
<1>3. CASE RgdNext
  <2>1. g' = g
    BY <1>3 DEF RgdNext, RgdStart, RgdSetManaged, RgdList, RgdResolve, RgdCreate, RgdServe,
       RgdGC, RgdUpdateStatus, RgdCleanup, RgdSetUnmanaged
  <2>2. CASE RgdList
    <3>1. gr'[r] = gr[r] \/ gr'[r] = [gr[r] EXCEPT !.owner = w.o.uid]
      BY <2>2 DEF RgdList
    <3>2. reg' = reg
      BY <2>2 DEF RgdList, mem
    <3> QED
      BY <1>1, <1>2, <2>1, <3>1, <3>2
  <2>3. CASE RgdResolve
    <3>1. gr' = gr /\ (reg' = reg \/ reg' = EmptyBucket)
      BY <2>3 DEF RgdResolve, api, DeleteAll
    <3>2. EmptyBucket.entries[r] = NoEntry
      BY DEF EmptyBucket
    <3> QED
      BY <2>1, <3>1, <3>2 DEF Foreign, Kept
  <2>4. CASE RgdCreate
    <3>1. \/ gr' = gr
          \/ NextRevision <= MaxRev /\ gr[NextRevision].st = "none"
             /\ gr' = [gr EXCEPT ![NextRevision] = NewGR(w.o.spec, w.o.uid)]
      BY <2>4 DEF RgdCreate
    <3>2. NewGR(w.o.spec, w.o.uid).st = "live"
      BY DEF NewGR
    <3>3. Kept(r) \/ Created(r)
      BY <1>0, <3>1, <3>2 DEF Kept, Created
    <3>4. reg' = reg
      BY <2>4 DEF RgdCreate, mem
    <3> QED
      BY <1>1, <2>1, <3>3, <3>4
  <2>5. CASE RgdGC
    <3>1. PICK S \in SUBSET Collectable(Live) :
             gr' = [x \in Revs |-> IF x \in S THEN Deleted(gr[x]) ELSE gr[x]]
      BY <2>5 DEF RgdGC
    <3>2. Collectable(Live) \subseteq Live
      BY DEF Collectable
    <3>3. Kept(r) \/ Removed(r)
      BY <3>1, <3>2 DEF Kept, Removed, Live
    <3>4. reg' = reg
      BY <2>5 DEF RgdGC, mem
    <3> QED
      BY <1>1, <2>1, <3>3, <3>4
  <2>6. CASE RgdStart \/ RgdSetManaged \/ RgdServe \/ RgdUpdateStatus \/ RgdCleanup
             \/ RgdSetUnmanaged
    <3>1. gr' = gr /\ reg' = reg
      BY <2>6 DEF RgdStart, RgdSetManaged, RgdServe, RgdUpdateStatus, RgdCleanup,
         RgdSetUnmanaged, api, mem
    <3> QED
      BY <1>1, <2>1, <3>1 DEF Kept
  <2> QED
    BY <1>3, <2>2, <2>3, <2>4, <2>5, <2>6 DEF RgdNext
<1>4. ASSUME NEW x \in Revs, GrNext(x), x # r PROVE Foreign(r)
  <2>1. g'[r] = g[r]
    BY <1>0, <1>4 DEF GrNext, GrStart, GrSetManaged, GrPend, GrCompile, GrUpdateStatus,
       GrPublish, GrSetUnmanaged, GrEvict, GrGoto, GrEnd
  <2>2. gr'[r] = gr[r]
    BY <1>0, <1>4 DEF GrNext, GrStart, GrSetManaged, GrPend, GrCompile, GrUpdateStatus,
       GrPublish, GrSetUnmanaged, GrEvict, api
  <2>3. \/ reg' = reg \/ reg' = Delete(reg, x)
        \/ \E st \in States : reg' = Put(reg, x, [state |-> st, spec |-> g[x].spec])
    BY <1>4 DEF GrNext, GrStart, GrSetManaged, GrPend, GrCompile, GrUpdateStatus,
       GrPublish, GrSetUnmanaged, GrEvict, mem, States
  <2>4. ASSUME NEW st \in States, reg' = Put(reg, x, [state |-> st, spec |-> g[x].spec])
        PROVE  reg'.entries[r] = reg.entries[r]
    BY <1>0, <1>4, <2>4 DEF Put
  <2>5. ASSUME reg' = Delete(reg, x)
        PROVE  reg'.entries[r] = reg.entries[r] \/ reg'.entries[r] = NoEntry
    BY <1>0, <1>4, <2>5 DEF Delete, EmptyBucket, recomputeLatest, Bucket, Base, TypeOK
  <2> QED
    BY <2>1, <2>2, <2>3, <2>4, <2>5 DEF Foreign, Kept
<1>5. CASE UserNext
  <2>1. g' = g /\ reg' = reg
    BY <1>5 DEF UserNext, UserCreates, UserEdits, UserDeletesRGD, UserDeletesGR,
       UserDeletesCRD, mem
  <2>2. CASE UNCHANGED gr
    BY <1>1, <2>1, <2>2 DEF Kept
  <2>3. ASSUME NEW x \in Revs, UserDeletesGR(x) PROVE Foreign(r)
    <3>1. Kept(r) \/ Removed(r)
      BY <1>0, <2>3 DEF UserDeletesGR, Kept, Removed
    <3> QED
      BY <1>1, <2>1, <3>1
  <2> QED
    BY <1>5, <2>2, <2>3 DEF UserNext, UserCreates, UserEdits, UserDeletesRGD, UserDeletesCRD
<1>6. CASE KubeNext
  <2>1. g' = g /\ reg' = reg
    BY <1>6 DEF KubeNext, KubeOrphans, KubeCollects, mem
  <2>2. ASSUME KubeOrphans PROVE Foreign(r)
    <3>1. gr'[r] = gr[r] \/ gr'[r] = [gr[r] EXCEPT !.owner = 0]
      BY <2>2 DEF KubeOrphans
    <3> QED
      BY <1>1, <1>2, <2>1, <3>1
  <2>3. ASSUME NEW x \in Revs, KubeCollects(x) PROVE Foreign(r)
    <3>1. Kept(r) \/ Removed(r)
      BY <1>0, <2>3 DEF KubeCollects, Kept, Removed
    <3> QED
      BY <1>1, <2>1, <3>1
  <2> QED
    BY <1>6, <2>2, <2>3 DEF KubeNext
<1>7. CASE RgdSync
  BY <1>1, <1>7 DEF RgdSync, api, mem, Kept
<1>8. CASE Restart
  BY <1>8 DEF Restart, api, EmptyBucket, Foreign, Kept
<1> QED
  BY <1>3, <1>4, <1>5, <1>6, <1>7, <1>8 DEF Next

AllRevs == \A r \in Revs : RevInv(r)

LEMMA RevInvHolds == Spec => []AllRevs
<1>1. Init => AllRevs
  <2> SUFFICES ASSUME Init, NEW r \in Revs PROVE RevInv(r)
    BY DEF AllRevs
  <2>1. gr[r] = NoGR /\ g[r] = IdleGr /\ reg.entries[r] = NoEntry
    BY DEF Init, EmptyBucket
  <2> QED
    BY <2>1 DEF RevInv, Pinned, HasEntry, NoGR, IdleGr, NoEntry
<1>2. Base /\ AllRevs /\ [Next]_vars => AllRevs'
  <2> SUFFICES ASSUME Base, AllRevs, [Next]_vars, NEW r \in Revs PROVE RevInv(r)'
    BY DEF AllRevs
  <2>1. CASE UNCHANGED vars
    BY <2>1 DEF AllRevs, vars, RevInv, Pinned, HasEntry
  <2>2. CASE Next
    BY <2>2, StepKinds, ForeignKeeps, OwnKeeps DEF AllRevs
  <2> QED
    BY <2>1, <2>2
<1> QED
  BY <1>1, <1>2, BaseHolds, PTL DEF Spec

\* An Active entry is one whose status was persisted first: reconcileGraphRevision
\* publishes in that order, and the finalizer keeps the object, as long as no
\* reply of a finalizer patch is lost.
THEOREM ActiveIsPersistedHolds == Spec => []ActiveIsPersisted
<1>1. AllRevs => ActiveIsPersisted
  BY DEF AllRevs, RevInv, ActiveIsPersisted
<1> QED
  BY <1>1, RevInvHolds, PTL

\* The inductive invariant of the two reconcilers: the registry's pointer, the
\* completeness of the listing, and the bond between an entry of the registry,
\* the finalizer of its object and the persisted status.
THEOREM InvariantHolds == Spec => []Inv
<1>1. Base /\ ListingCovers /\ AllRevs => Inv
  BY DEF Base, AllRevs, Inv
<1> QED
  BY <1>1, BaseHolds, ListingHolds, RevInvHolds, PTL

-----------------------------------------------------------------------------
(* One incarnation of the RGD: the name is not used again after a          *)
(* deletion.  A second one takes over what the worker holds of the first:  *)
(* its patches carry no UID, and TLC then finds a micro-controller that    *)
(* nobody stops.                                                           *)

\* The RGD is there, and its deletion comes back to the reconciler.
Held == rgd.uid # 0 /\ rgd.fin

\* The RGD is on its way out, in the API server and in the cache.
Leaving == rgd.uid = 0 \/ rgd.deleting
SeenLeaving == rgdC.uid = 0 \/ rgdC.deleting

\* The places of a reconcile that found, or set, the finalizer.
Managing == {"list", "resolve", "create", "serve", "gc", "status"}

\* Before the RGD is created there is nothing.
Unborn ==
    /\ rgd = NoRGD /\ rgdC = NoRGD /\ w = IdleRgd /\ handler = NoSpec
    /\ \A r \in Revs : gr[r].st = "none" /\ g[r].pc = "idle" /\ ~HasEntry(reg, r)

\* The finalizer holds the RGD for a running micro-controller and for a reconcile
\* that works on it; a copy in the cache may lack a deletion, and not invent one.
Life ==
    /\ handler # NoSpec => Held /\ 1 \in registered
    /\ w.pc \in Managing => Held
    /\ w.pc = "manage" /\ w.o.fin => Held
    /\ rgdC.uid # 0 /\ ~rgdC.deleting /\ rgdC.fin => Held
    /\ rgdC.deleting => Leaving
    /\ w.pc \in {"cleanup", "unmanage"} => Leaving /\ SeenLeaving
    /\ w.pc = "unmanage" => handler = NoSpec

Lifecycle == (born = 0 => Unborn) /\ Life

LEMMA FinalizedFacts ==
    ASSUME NEW o \in RGD
    PROVE  /\ o.fin => Finalized(o) = o
           /\ Finalized(o).uid = 0 \/ Finalized(o) = o
           /\ o.uid = 0 => Finalized(o).uid = 0
BY DEF Finalized, NoRGD

LEMMA LifeInit == Init => Lifecycle
<1> SUFFICES ASSUME Init PROVE Lifecycle
  OBVIOUS
<1>1. ~NoRGD.deleting /\ NoRGD.uid = 0 /\ IdleRgd.pc = "idle" /\ IdleGr.pc = "idle"
      /\ NoGR.st = "none"
  BY DEF NoRGD, IdleRgd, IdleGr, NoGR
<1>2. Unborn
  BY <1>1 DEF Init, Unborn, HasEntry, EmptyBucket, NoEntry
<1>3. Life
  BY <1>1 DEF Init, Life, Managing
<1> QED
  BY <1>2, <1>3 DEF Lifecycle

\* The steps that leave the RGD and the reconciler's worker alone.
LEMMA LifeStutter ==
    ASSUME Lifecycle, UNCHANGED <<rgd, rgdC, w, handler, registered, born>>,
           born = 0 => UNCHANGED <<gr, g, reg>>
    PROVE  Lifecycle'
<1>1. Life'
  BY DEF Lifecycle, Life, Held, Leaving, SeenLeaving
<1>2. born = 0 => Unborn'
  BY DEF Lifecycle, Unborn
<1> QED
  BY <1>1, <1>2 DEF Lifecycle

\* A busy worker has seen the RGD.
LEMMA BusyIsBorn ==
    ASSUME Lifecycle, w.pc # "idle"
    PROVE  born # 0
BY DEF Lifecycle, Unborn, IdleRgd

LEMMA LifeRgdStart ==
    ASSUME Base, Lifecycle, RgdStart
    PROVE  Lifecycle'
<1>0. /\ UNCHANGED <<rgd, rgdC, handler, registered, born, gr, g, reg>>
  BY DEF RgdStart, api, mem, history
<1>1. CASE rgdC.uid = 0
  <2>1. w' = IdleRgd
    BY <1>1 DEF RgdStart
  <2>2. Life'
    BY <1>0, <2>1 DEF Lifecycle, Life, Held, Leaving, SeenLeaving, IdleRgd, Managing
  <2>3. born = 0 => Unborn'
    BY <1>0, <2>1 DEF Lifecycle, Unborn
  <2> QED
    BY <1>0, <2>2, <2>3 DEF Lifecycle
<1>2. CASE rgdC.uid # 0
  <2>1. born # 0
    BY <1>2 DEF Lifecycle, Unborn, NoRGD
  <2>2. w' = [IdleRgd EXCEPT !.o = rgdC, !.pc = IF rgdC.deleting THEN "cleanup" ELSE "manage"]
    BY <1>2 DEF RgdStart
  <2>3. w'.o = rgdC /\ w'.pc = IF rgdC.deleting THEN "cleanup" ELSE "manage"
    BY <2>2 DEF IdleRgd
  <2>4. Life'
    BY <1>0, <1>2, <2>3 DEF Lifecycle, Life, Held, Leaving, SeenLeaving, Managing
  <2> QED
    BY <1>0, <2>1, <2>4 DEF Lifecycle
<1> QED
  BY <1>1, <1>2

\* The worker ends, and the RGD stays.
LEMMA LifeEnds ==
    ASSUME Lifecycle, w.pc # "idle", w' = IdleRgd,
           UNCHANGED <<rgd, rgdC, registered, born>>, handler' \in {handler, NoSpec}
    PROVE  Lifecycle'
<1>1. born' # 0
  BY BusyIsBorn
<1>2. w'.pc = "idle"
  BY DEF IdleRgd
<1>3. Life'
  BY <1>2 DEF Lifecycle, Life, Held, Leaving, SeenLeaving, Managing
<1> QED
  BY <1>1, <1>3 DEF Lifecycle

LEMMA LifeRgdSetManaged ==
    ASSUME Base, Lifecycle, RgdSetManaged
    PROVE  Lifecycle'
<1>0. /\ UNCHANGED <<rgdC, handler, registered, born>> /\ w.pc = "manage"
      /\ w \in RgdWorker /\ rgd \in RGD
  BY WorkerParts DEF RgdSetManaged, mem, Base, TypeOK
<1>1. born' # 0
  BY <1>0, BusyIsBorn
<1>2. CASE w' = IdleRgd /\ rgd' = rgd
  BY <1>0, <1>2, LifeEnds
<1>3. CASE w.o.fin /\ w' = [w EXCEPT !.pc = "list"] /\ rgd' = rgd
  <2>1. w'.pc = "list" /\ Held
    BY <1>0, <1>3 DEF RgdWorker, Lifecycle, Life
  <2>2. Life'
    BY <1>0, <1>3, <2>1 DEF Lifecycle, Life, Held, Leaving, SeenLeaving, Managing
  <2> QED
    BY <1>1, <2>2 DEF Lifecycle
<1>4. CASE /\ CanPatchFinalizers(TRUE, w.o.orphan) /\ PatchFinalizers(TRUE, w.o.orphan)
           /\ w' = [w EXCEPT !.pc = "list"]
  <2> DEFINE o == [rgd EXCEPT !.fin = TRUE, !.orphan = w.o.orphan]
  <2>1. o \in RGD /\ o.fin = TRUE /\ o.uid = rgd.uid /\ o.deleting = rgd.deleting
    BY <1>0, WorkerParts DEF RGD
  <2>2. rgd' = o
    BY <1>4, <2>1, FinalizedFacts DEF PatchFinalizers
  <2>3. rgd'.fin = TRUE /\ rgd'.uid = rgd.uid /\ rgd'.deleting = rgd.deleting
    BY <2>1, <2>2
  <2>4. rgd.uid # 0 /\ w'.pc = "list"
    BY <1>0, <1>4 DEF CanPatchFinalizers, RgdWorker
  <2>5. Life'
    BY <1>0, <2>3, <2>4 DEF Lifecycle, Life, Held, Leaving, SeenLeaving, Managing
  <2> QED
    BY <1>1, <2>5 DEF Lifecycle
<1> QED
  BY <1>2, <1>3, <1>4 DEF RgdSetManaged, RgdEnd

\* The reconcile of an RGD that is held goes on, and the RGD keeps its metadata.
LEMMA LifeGoesOn ==
    ASSUME Lifecycle, w.pc \in Managing, w'.pc \in Managing,
           UNCHANGED <<rgd, rgdC, handler, registered, born>>
    PROVE  Lifecycle'
<1>1. born' # 0
  BY BusyIsBorn DEF Managing
<1>2. Life'
  BY DEF Lifecycle, Life, Held, Leaving, SeenLeaving, Managing
<1> QED
  BY <1>1, <1>2 DEF Lifecycle

LEMMA LifeRgdSteps ==
    ASSUME Base, Lifecycle, RgdList \/ RgdResolve \/ RgdCreate \/ RgdGC
    PROVE  Lifecycle'
<1>0. w \in RgdWorker
  BY WorkerParts
<1>1. UNCHANGED <<rgd, rgdC, handler, registered, born>> /\ w.pc \in Managing
  BY DEF RgdList, RgdResolve, RgdCreate, RgdGC, Managing, api, mem, history
<1>2. w'.pc \in Managing
  <2>1. CASE RgdList
    BY <1>0, <2>1 DEF RgdList, RgdWorker, Managing
  <2>2. CASE RgdResolve
    BY <1>0, <2>2 DEF RgdResolve, RgdWorker, Managing
  <2>3. CASE RgdCreate
    BY <1>0, <2>3 DEF RgdCreate, RgdWorker, Managing
  <2>4. CASE RgdGC
    BY <1>0, <2>4 DEF RgdGC, RgdWorker, Managing
  <2> QED
    BY <2>1, <2>2, <2>3, <2>4
<1> QED
  BY <1>1, <1>2, LifeGoesOn

\* The worker's copy is of the one incarnation.
LEMMA OnlyUid ==
    ASSUME Base, MaxUid = 1, w.pc # "idle"
    PROVE  w.o.uid = 1
BY WorkerParts DEF Base, WorkerHasRGD

LEMMA LifeRgdServe ==
    ASSUME Base, Lifecycle, MaxUid = 1, RgdServe
    PROVE  Lifecycle'
<1>0. /\ UNCHANGED <<rgd, rgdC, born>> /\ w.pc = "serve" /\ w \in RgdWorker
  BY WorkerParts DEF RgdServe
<1>1. w'.pc = "gc" /\ born' # 0 /\ w.o.uid = 1
  BY <1>0, BusyIsBorn, OnlyUid DEF RgdServe, RgdWorker
<1>2. Held
  BY <1>0 DEF Lifecycle, Life, Managing
<1>3. handler' # NoSpec => 1 \in registered'
  BY <1>1 DEF RgdServe, Lifecycle, Life
<1>4. Life'
  BY <1>0, <1>1, <1>2, <1>3 DEF Lifecycle, Life, Held, Leaving, SeenLeaving, Managing
<1> QED
  BY <1>1, <1>4 DEF Lifecycle

LEMMA LifeRgdUpdateStatus ==
    ASSUME Base, Lifecycle, RgdUpdateStatus
    PROVE  Lifecycle'
<1>0. /\ UNCHANGED <<rgdC, born, handler, registered>> /\ w.pc = "status"
      /\ w' = IdleRgd /\ rgd \in RGD
  BY DEF RgdUpdateStatus, RgdEnd, mem, Base, TypeOK
<1>1. rgd'.uid = rgd.uid /\ rgd'.fin = rgd.fin /\ rgd'.deleting = rgd.deleting
  BY <1>0 DEF RgdUpdateStatus, RGD
<1>2. born' # 0 /\ w'.pc = "idle"
  BY <1>0, BusyIsBorn DEF IdleRgd
<1>3. Life'
  BY <1>0, <1>1, <1>2 DEF Lifecycle, Life, Held, Leaving, SeenLeaving, Managing
<1> QED
  BY <1>2, <1>3 DEF Lifecycle

\* Deregister runs when this process has registered the one UID.
LEMMA LifeRgdCleanup ==
    ASSUME Base, Lifecycle, MaxUid = 1, RgdCleanup
    PROVE  Lifecycle'
<1>0. /\ UNCHANGED <<rgd, rgdC, registered, born>> /\ w.pc = "cleanup" /\ w \in RgdWorker
  BY WorkerParts DEF RgdCleanup
<1>1. w.o.uid = 1 /\ born' # 0
  BY <1>0, OnlyUid, BusyIsBorn
<1>2. (IF w.o.uid \in registered THEN NoSpec ELSE handler) = NoSpec
  BY <1>1 DEF Lifecycle, Life
<1>3. CASE w' = [w EXCEPT !.pc = "unmanage"] /\ handler' = NoSpec
  <2>1. w'.pc = "unmanage"
    BY <1>0, <1>3 DEF RgdWorker
  <2>2. Life'
    BY <1>0, <1>3, <2>1 DEF Lifecycle, Life, Held, Leaving, SeenLeaving, Managing
  <2> QED
    BY <1>1, <2>2 DEF Lifecycle
<1>4. CASE w' = IdleRgd /\ handler' \in {handler, NoSpec}
  BY <1>0, <1>4, LifeEnds
<1> QED
  BY <1>2, <1>3, <1>4 DEF RgdCleanup, RgdEnd

\* The finalizer goes after the micro-controller.
LEMMA LifeRgdSetUnmanaged ==
    ASSUME Base, Lifecycle, RgdSetUnmanaged
    PROVE  Lifecycle'
<1>0. /\ UNCHANGED <<rgdC, registered, born, handler>> /\ w.pc = "unmanage"
      /\ w' = IdleRgd /\ rgd \in RGD
  BY DEF RgdSetUnmanaged, RgdEnd, mem, Base, TypeOK
<1>1. born' # 0 /\ w'.pc = "idle"
  BY <1>0, BusyIsBorn DEF IdleRgd
<1>2. handler = NoSpec /\ Leaving /\ SeenLeaving
  BY <1>0 DEF Lifecycle, Life
<1>3. CASE rgd' = rgd
  BY <1>0, <1>3, LifeEnds
<1>4. CASE PatchFinalizers(FALSE, w.o.orphan)
  <2> DEFINE o == [rgd EXCEPT !.fin = FALSE, !.orphan = w.o.orphan]
  <2>1. o \in RGD /\ o.uid = rgd.uid /\ o.deleting = rgd.deleting
    BY <1>0, WorkerParts DEF RGD
  <2>2. rgd' = Finalized(o)
    BY <1>4 DEF PatchFinalizers
  <2> HIDE DEF o
  <2>3. rgd'.uid = 0 \/ (rgd'.uid = rgd.uid /\ rgd'.deleting = rgd.deleting)
    BY <2>1, <2>2, FinalizedFacts
  <2>4. Leaving'
    BY <1>2, <2>3 DEF Leaving
  <2>5. Life'
    BY <1>0, <1>1, <1>2, <2>4 DEF Lifecycle, Life, SeenLeaving, Managing
  <2> QED
    BY <1>1, <2>5 DEF Lifecycle
<1> QED
  BY <1>3, <1>4 DEF RgdSetUnmanaged

LEMMA LifeRgdSync ==
    ASSUME Base, Lifecycle, RgdSync
    PROVE  Lifecycle'
<1>0. /\ rgdC' = rgd /\ UNCHANGED <<rgd, w, handler, registered, born, gr, g, reg>>
  BY DEF RgdSync, api, mem, history
<1>1. born = 0 => Unborn'
  BY <1>0 DEF Lifecycle, Unborn
<1>2. Life'
  BY <1>0 DEF Lifecycle, Life, Held, Leaving, SeenLeaving, Managing
<1> QED
  BY <1>0, <1>1, <1>2 DEF Lifecycle

LEMMA LifeUserCreates ==
    ASSUME Base, Lifecycle, MaxUid = 1, NEW s \in Specs, UserCreates(s)
    PROVE  Lifecycle'
<1>0. /\ UNCHANGED <<rgdC, w, handler, registered>> /\ born = 0 /\ born' = 1
  BY DEF UserCreates, mem, Base, TypeOK
<1>1. rgdC = NoRGD /\ w = IdleRgd /\ handler = NoSpec
  BY <1>0 DEF Lifecycle, Unborn
<1>2. rgdC.uid = 0 /\ ~rgdC.deleting /\ w.pc = "idle"
  BY <1>1 DEF NoRGD, IdleRgd
<1>3. Life'
  BY <1>0, <1>1, <1>2 DEF Life, Managing
<1> QED
  BY <1>0, <1>3 DEF Lifecycle

\* What users and the garbage collector do to the RGD: its finalizer stays, a
\* deletion goes on, and only an RGD without finalizers goes.
LEMMA LifeRgdChanges ==
    ASSUME Lifecycle, UNCHANGED <<rgdC, w, handler, registered, born>>,
           rgd.uid # 0,
           Held => Held', Leaving => Leaving'
    PROVE  Lifecycle'
<1>1. born' # 0
  BY DEF Lifecycle, Unborn, NoRGD
<1>2. Life'
  BY DEF Lifecycle, Life, SeenLeaving
<1> QED
  BY <1>1, <1>2 DEF Lifecycle

LEMMA LifeUsers ==
    ASSUME Base, Lifecycle, MaxUid = 1, UserNext
    PROVE  Lifecycle'
<1>0. rgd \in RGD
  BY DEF Base, TypeOK
<1>1. ASSUME NEW s \in Specs, UserEdits(s) PROVE Lifecycle'
  <2>1. /\ UNCHANGED <<rgdC, w, handler, registered, born>> /\ rgd.uid # 0
        /\ rgd' = [rgd EXCEPT !.spec = s]
    BY <1>1 DEF UserEdits, mem
  <2>2. rgd'.uid = rgd.uid /\ rgd'.fin = rgd.fin /\ rgd'.deleting = rgd.deleting
    BY <1>0, <2>1 DEF RGD
  <2>3. (Held => Held') /\ (Leaving => Leaving')
    BY <2>2 DEF Held, Leaving
  <2> QED
    BY <2>1, <2>3, LifeRgdChanges
<1>2. ASSUME NEW orphan \in BOOLEAN, UserDeletesRGD(orphan) PROVE Lifecycle'
  <2> DEFINE o == [rgd EXCEPT !.deleting = TRUE, !.orphan = orphan]
  <2>1. /\ UNCHANGED <<rgdC, w, handler, registered, born>> /\ rgd.uid # 0
        /\ rgd' = Finalized(o)
    BY <1>2 DEF UserDeletesRGD, mem, history
  <2>2. o \in RGD /\ o.uid = rgd.uid /\ o.fin = rgd.fin /\ o.deleting = TRUE
    BY <1>0 DEF RGD
  <2> HIDE DEF o
  <2>3. (Held => Held') /\ Leaving'
    BY <2>1, <2>2, FinalizedFacts DEF Held, Leaving
  <2> QED
    BY <2>1, <2>3, LifeRgdChanges
<1>3. ASSUME NEW r \in Revs, UserDeletesGR(r) PROVE Lifecycle'
  <2>1. gr[r].st = "live" /\ UNCHANGED <<rgd, rgdC, w, handler, registered, born>>
    BY <1>3 DEF UserDeletesGR, mem
  <2>2. born # 0
    BY <2>1 DEF Lifecycle, Unborn
  <2> QED
    BY <2>1, <2>2, LifeStutter
<1>4. CASE UserDeletesCRD
  BY <1>4, LifeStutter DEF UserDeletesCRD, mem
<1> QED
  BY <1>1, <1>2, <1>3, <1>4, LifeUserCreates DEF UserNext

LEMMA LifeKube ==
    ASSUME Base, Lifecycle, KubeNext
    PROVE  Lifecycle'
<1>0. rgd \in RGD
  BY DEF Base, TypeOK
<1>1. CASE KubeOrphans
  <2> DEFINE o == [rgd EXCEPT !.orphan = FALSE]
  <2>1. /\ UNCHANGED <<rgdC, w, handler, registered, born>> /\ rgd.deleting
        /\ rgd' = Finalized(o)
    BY <1>1 DEF KubeOrphans, mem, history
  <2>2. o \in RGD /\ o.uid = rgd.uid /\ o.fin = rgd.fin /\ o.deleting = rgd.deleting
    BY <1>0 DEF RGD
  <2> HIDE DEF o
  <2>3. (Held => Held') /\ Leaving'
    BY <2>1, <2>2, FinalizedFacts DEF Held, Leaving
  <2>4. born' # 0
    BY <2>1 DEF Lifecycle, Unborn, NoRGD
  <2>5. Life'
    BY <2>1, <2>3 DEF Lifecycle, Life, SeenLeaving
  <2> QED
    BY <2>4, <2>5 DEF Lifecycle
<1>2. ASSUME NEW r \in Revs, KubeCollects(r) PROVE Lifecycle'
  <2>1. gr[r].st = "live" /\ UNCHANGED <<rgd, rgdC, w, handler, registered, born>>
    BY <1>2 DEF KubeCollects, mem, history
  <2>2. born # 0
    BY <2>1 DEF Lifecycle, Unborn
  <2> QED
    BY <2>1, <2>2, LifeStutter
<1> QED
  BY <1>1, <1>2 DEF KubeNext

LEMMA LifeRestart ==
    ASSUME Base, Lifecycle, Restart
    PROVE  Lifecycle'
<1>0. /\ UNCHANGED <<rgd, gr, born>> /\ rgdC' = rgd /\ w' = IdleRgd /\ handler' = NoSpec
      /\ g' = [r \in Revs |-> IdleGr] /\ reg' = EmptyBucket
  BY DEF Restart, api
<1>1. w'.pc = "idle" /\ \A r \in Revs : g'[r].pc = "idle" /\ reg'.entries[r] = NoEntry
  BY <1>0 DEF IdleRgd, IdleGr, EmptyBucket
<1>2. Life'
  BY <1>0, <1>1 DEF Life, Held, Leaving, Managing
<1>3. born = 0 => Unborn'
  BY <1>0, <1>1 DEF Lifecycle, Unborn, HasEntry, NoEntry
<1> QED
  BY <1>0, <1>2, <1>3 DEF Lifecycle

\* The worker of a revision has something to work on.
LEMMA LifeGr ==
    ASSUME Base, Lifecycle, NEW r \in Revs, GrNext(r)
    PROVE  Lifecycle'
<1>1. UNCHANGED <<rgd, rgdC, w, handler, registered, born>>
  BY DEF GrNext, GrStart, GrSetManaged, GrPend, GrCompile, GrUpdateStatus, GrPublish,
         GrSetUnmanaged, GrEvict, api, mem, history
<1>2. CASE g[r].pc # "idle"
  <2>1. born # 0
    BY <1>2 DEF Lifecycle, Unborn
  <2> QED
    BY <1>1, <2>1, LifeStutter
<1>3. CASE GrStart(r)
  <2>1. gr' = gr /\ reg' = reg /\ g \in [Revs -> GrWorker]
    BY <1>3 DEF GrStart, api, mem, Base, TypeOK
  <2>2. CASE born # 0
    BY <1>1, <2>2, LifeStutter
  <2>3. CASE born = 0
    <3>1. gr[r].st = "none" /\ \A x \in Revs : g[x].pc = "idle"
      BY <2>3 DEF Lifecycle, Unborn
    <3>2. g' = [g EXCEPT ![r] = IdleGr]
      BY <1>3, <3>1 DEF GrStart
    <3>3. \A x \in Revs : g'[x].pc = "idle"
      BY <2>1, <3>1, <3>2 DEF IdleGr
    <3>4. Unborn'
      BY <1>1, <2>1, <2>3, <3>3 DEF Lifecycle, Unborn
    <3>5. Life'
      BY <1>1 DEF Lifecycle, Life, Held, Leaving, SeenLeaving
    <3> QED
      BY <3>4, <3>5 DEF Lifecycle
  <2> QED
    BY <2>2, <2>3
<1> QED
  BY <1>2, <1>3 DEF GrNext, GrSetManaged, GrPend, GrCompile, GrUpdateStatus, GrPublish,
                    GrSetUnmanaged, GrEvict

LEMMA LifeStep ==
    ASSUME MaxUid = 1
    PROVE  Base /\ Lifecycle /\ [Next]_vars => Lifecycle'
<1> SUFFICES ASSUME Base, Lifecycle, [Next]_vars PROVE Lifecycle'
  OBVIOUS
<1>1. CASE RgdNext
  BY <1>1, LifeRgdStart, LifeRgdSetManaged, LifeRgdSteps, LifeRgdServe, LifeRgdUpdateStatus,
     LifeRgdCleanup, LifeRgdSetUnmanaged DEF RgdNext
<1>2. CASE RgdSync \/ UserNext \/ KubeNext \/ Restart \/ \E r \in Revs : GrNext(r)
  BY <1>2, LifeRgdSync, LifeUsers, LifeKube, LifeRestart, LifeGr
<1>3. CASE UNCHANGED vars
  BY <1>3, LifeStutter DEF vars
<1> QED
  BY <1>1, <1>2, <1>3 DEF Next

LEMMA LifeHolds ==
    ASSUME MaxUid = 1
    PROVE  Spec => []Lifecycle
BY LifeInit, LifeStep, BaseHolds, PTL DEF Spec

\* A micro-controller does not outlive an RGD whose name is not used again: the
\* finalizer is there before Register and goes after Deregister, through stale
\* caches, failed calls, lost replies and restarts.  With a second incarnation
\* of the name TLC finds one that does.
THEOREM ControllerHasRGDHolds ==
    ASSUME MaxUid = 1
    PROVE  Spec => []ControllerHasRGD
<1>1. Lifecycle => ControllerHasRGD
  BY DEF Lifecycle, Life, Held, ControllerHasRGD
<1> QED
  BY <1>1, LifeHolds, PTL

-----------------------------------------------------------------------------
(* One incarnation, and no revision deleted by hand: then only retention   *)
(* deletes revisions of an RGD that is there, and never the newest one, so *)
(* that a number is not used twice and the registry, the workers and the   *)
(* objects speak of the same specs.                                        *)

Undisturbed == MaxUid = 1 /\ "gr" \notin UserDeletes

Covered(r) == \E x \in Live : x >= r

\* Something is known of number r.
Known(r) == HasEntry(reg, r) \/ g[r].pc # "idle" \/ gr[r].st # "none"

\* Beyond the newest live revision there is nothing.
NothingBeyond == rgd.uid # 0 => \A r \in Revs : Known(r) => Covered(r)

\* The entry of a revision and the copy of its worker have its spec; and nobody
\* is dismantling a live one.
Agrees(r) ==
    gr[r].st # "none" =>
        /\ HasEntry(reg, r) => reg.entries[r].spec = gr[r].spec
        /\ g[r].pc \in {"manage", "pend", "compile", "status", "publish"}
              => g[r].spec = gr[r].spec
        /\ gr[r].st = "live" => g[r].pc \notin {"unmanage", "evict"}

\* A revision is about to be issued because the newest one has another hash.
Decided ==
    w.pc = "create" /\ w.live # {} /\ gr[Newest(w.live)].st # "none"
    => Hash[gr[Newest(w.live)].spec] # Hash[w.o.spec]

\* The newest listed revision is live as long as the reconcile relies on it, and
\* has its entry while it is served.
Listed == {"resolve", "create", "serve", "gc"}
ServedStays ==
    /\ w.pc \in Listed /\ w.live # {} => gr[Newest(w.live)].st = "live"
    /\ w.pc \in {"serve", "gc"} =>
          /\ w.live # {} /\ HasEntry(reg, Newest(w.live))
          /\ \A r \in Revs : gr[r].st # "none" => r \in w.live

Lineage == /\ Base /\ ListingCovers /\ AllRevs /\ Lifecycle
           /\ NothingBeyond
           /\ \A r \in Revs : Agrees(r)
           /\ Decided
           /\ ServedStays

\* What every step leaves of a revision: its spec, and a deletion once requested.
SpecStays ==
    \A r \in Revs : gr[r].st # "none" /\ gr'[r].st # "none" =>
        /\ gr'[r].spec = gr[r].spec
        /\ gr[r].st # "live" => gr'[r].st # "live"

LEMMA SpecStaysStep ==
    ASSUME Base, Next
    PROVE  SpecStays
<1>0. gr \in [Revs -> GR]
  BY DEF Base, TypeOK
<1>1. CASE UNCHANGED gr
  BY <1>1 DEF SpecStays
<1>2. ASSUME NEW u, \A r \in Revs : gr'[r] = gr[r] \/ gr'[r] = [gr[r] EXCEPT !.owner = u]
      PROVE  SpecStays
  BY <1>0, <1>2 DEF SpecStays, GR
<1>3. ASSUME \A r \in Revs : gr'[r] = gr[r] \/ gr'[r] = Deleted(gr[r])
      PROVE  SpecStays
  <2> SUFFICES ASSUME NEW r \in Revs, gr'[r] = Deleted(gr[r]), gr'[r].st # "none"
               PROVE  gr'[r].spec = gr[r].spec /\ gr'[r].st # "live"
    BY <1>3 DEF SpecStays
  <2> QED
    BY <1>0 DEF Deleted, GR, NoGR
<1>4. CASE RgdList
  <2>1. \A r \in Revs : gr'[r] = gr[r] \/ gr'[r] = [gr[r] EXCEPT !.owner = w.o.uid]
    BY <1>4 DEF RgdList
  <2> QED
    BY <1>2, <2>1
<1>5. CASE RgdCreate
  <2>1. \/ gr' = gr
        \/ gr[NextRevision].st = "none" /\
           gr' = [gr EXCEPT ![NextRevision] = NewGR(w.o.spec, w.o.uid)]
    BY <1>5 DEF RgdCreate
  <2> QED
    BY <1>0, <2>1 DEF SpecStays
<1>6. CASE RgdGC
  BY <1>3, <1>6 DEF RgdGC
<1>7. ASSUME NEW r \in Revs, GrNext(r) PROVE SpecStays
  <2>1. CASE GrSetManaged(r)
    <3>1. gr' = gr \/ gr' = [gr EXCEPT ![r].fin = TRUE]
      BY <2>1 DEF GrSetManaged
    <3> QED
      BY <1>0, <3>1 DEF SpecStays, GR
  <2>2. CASE GrUpdateStatus(r)
    <3>1. gr' = gr \/ \E v \in Tri : gr' = [gr EXCEPT ![r].verified = v]
      BY <2>2 DEF GrUpdateStatus, Tri
    <3> QED
      BY <1>0, <3>1 DEF SpecStays, GR
  <2>3. CASE GrSetUnmanaged(r)
    <3> DEFINE u == [gr EXCEPT ![r] = IF @.st = "terminating" THEN NoGR
                                      ELSE [@ EXCEPT !.fin = FALSE]]
    <3>1. gr' = gr \/ gr' = u
      BY <2>3 DEF GrSetUnmanaged
    <3>2. u[r].st = "none" \/ (u[r].spec = gr[r].spec /\ u[r].st = gr[r].st)
      BY <1>0 DEF NoGR, GR
    <3>3. \A x \in Revs \ {r} : u[x] = gr[x]
      BY <1>0
    <3> HIDE DEF u
    <3> QED
      BY <3>1, <3>2, <3>3 DEF SpecStays
  <2> QED
    BY <1>1, <1>7, <2>1, <2>2, <2>3 DEF GrNext, GrStart, GrPend, GrCompile, GrPublish,
       GrEvict, api
<1>8. CASE UserNext
  <2>1. ASSUME NEW r \in Revs, UserDeletesGR(r) PROVE SpecStays
    BY <1>0, <1>3, <2>1 DEF UserDeletesGR
  <2> QED
    BY <1>1, <1>8, <2>1 DEF UserNext, UserCreates, UserEdits, UserDeletesRGD, UserDeletesCRD
<1>9. CASE KubeNext
  <2>1. CASE KubeOrphans
    <3>1. \A r \in Revs : gr'[r] = gr[r] \/ gr'[r] = [gr[r] EXCEPT !.owner = 0]
      BY <2>1 DEF KubeOrphans
    <3> QED
      BY <1>2, <3>1
  <2>2. ASSUME NEW r \in Revs, KubeCollects(r) PROVE SpecStays
    BY <1>0, <1>3, <2>2 DEF KubeCollects
  <2> QED
    BY <1>9, <2>1, <2>2 DEF KubeNext
<1>10. CASE RgdStart \/ RgdSetManaged \/ RgdResolve \/ RgdServe \/ RgdUpdateStatus \/ RgdCleanup
            \/ RgdSetUnmanaged \/ RgdSync \/ Restart
  BY <1>1, <1>10 DEF RgdStart, RgdSetManaged, RgdResolve, RgdServe, RgdUpdateStatus,
     RgdCleanup, RgdSetUnmanaged, RgdSync, Restart, api
<1> QED
  BY <1>4, <1>5, <1>6, <1>7, <1>8, <1>9, <1>10 DEF Next, RgdNext

\* Nobody but retention deletes a revision of an RGD that is there.
LiveStays == \A r \in Revs : gr[r].st = "live" => gr'[r].st = "live"

LEMMA LiveStaysStep ==
    ASSUME Base, Undisturbed, Next, ~RgdGC, rgd.uid # 0
    PROVE  LiveStays
<1>0. gr \in [Revs -> GR] /\ rgd.uid = 1 /\ \A r \in Revs : gr[r].owner \in {0, 1}
  BY DEF Base, TypeOK, RGD, GR, Undisturbed
<1>1. CASE UNCHANGED gr
  BY <1>1 DEF LiveStays
<1>2. ASSUME NEW u, \A r \in Revs : gr'[r] = gr[r] \/ gr'[r] = [gr[r] EXCEPT !.owner = u]
      PROVE  LiveStays
  BY <1>0, <1>2 DEF LiveStays, GR
<1>3. CASE RgdList
  <2>1. \A r \in Revs : gr'[r] = gr[r] \/ gr'[r] = [gr[r] EXCEPT !.owner = w.o.uid]
    BY <1>3 DEF RgdList
  <2> QED
    BY <1>2, <2>1
<1>4. CASE RgdCreate
  <2>1. \/ gr' = gr
        \/ gr[NextRevision].st = "none" /\
           gr' = [gr EXCEPT ![NextRevision] = NewGR(w.o.spec, w.o.uid)]
    BY <1>4 DEF RgdCreate
  <2> QED
    BY <1>0, <2>1 DEF LiveStays
<1>5. ASSUME NEW r \in Revs, GrNext(r) PROVE LiveStays
  <2>1. CASE GrSetManaged(r)
    <3>1. gr' = gr \/ gr' = [gr EXCEPT ![r].fin = TRUE]
      BY <2>1 DEF GrSetManaged
    <3> QED
      BY <1>0, <3>1 DEF LiveStays, GR
  <2>2. CASE GrUpdateStatus(r)
    <3>1. gr' = gr \/ \E v \in Tri : gr' = [gr EXCEPT ![r].verified = v]
      BY <2>2 DEF GrUpdateStatus, Tri
    <3> QED
      BY <1>0, <3>1 DEF LiveStays, GR
  <2>3. CASE GrSetUnmanaged(r)
    <3> DEFINE u == [gr EXCEPT ![r] = IF @.st = "terminating" THEN NoGR
                                      ELSE [@ EXCEPT !.fin = FALSE]]
    <3>1. gr' = gr \/ gr' = u
      BY <2>3 DEF GrSetUnmanaged
    <3>2. gr[r].st = "live" => u[r].st = "live"
      BY <1>0 DEF GR
    <3>3. \A x \in Revs \ {r} : u[x] = gr[x]
      BY <1>0
    <3> HIDE DEF u
    <3> QED
      BY <3>1, <3>2, <3>3 DEF LiveStays
  <2> QED
    BY <1>1, <1>5, <2>1, <2>2, <2>3 DEF GrNext, GrStart, GrPend, GrCompile, GrPublish,
       GrEvict, api
<1>6. CASE UserNext
  BY <1>1, <1>6 DEF UserNext, UserCreates, UserEdits, UserDeletesRGD, UserDeletesCRD,
     UserDeletesGR, Undisturbed
<1>7. CASE KubeNext
  <2>1. CASE KubeOrphans
    <3>1. \A r \in Revs : gr'[r] = gr[r] \/ gr'[r] = [gr[r] EXCEPT !.owner = 0]
      BY <2>1 DEF KubeOrphans
    <3> QED
      BY <1>2, <3>1
  <2> QED
    BY <1>0, <1>7, <2>1 DEF KubeNext, KubeCollects
<1>8. CASE RgdStart \/ RgdSetManaged \/ RgdResolve \/ RgdServe \/ RgdUpdateStatus \/ RgdCleanup
           \/ RgdSetUnmanaged \/ RgdSync \/ Restart
  BY <1>1, <1>8 DEF RgdStart, RgdSetManaged, RgdResolve, RgdServe, RgdUpdateStatus,
     RgdCleanup, RgdSetUnmanaged, RgdSync, Restart, api
<1> QED
  BY <1>3, <1>4, <1>5, <1>6, <1>7, <1>8 DEF Next, RgdNext

\* Retention: the newest revision is never below the floor, and what stays is at
\* least what the flag asks for.
LEMMA RevsFinite ==
    ASSUME NEW S \in SUBSET Revs
    PROVE  IsFiniteSet(S) /\ Cardinality(S) \in Nat
<1>1. IsFiniteSet(Revs)
  BY FS_Interval, RegistryAssumption DEF Revs
<1> QED
  BY <1>1, FS_Subset, FS_CardinalityType

LEMMA NewestIsKept ==
    ASSUME NEW S \in SUBSET Revs
    PROVE  \A r \in Collectable(S) : r \in S /\ r < Newest(S)
<1> SUFFICES ASSUME NEW r \in Collectable(S) PROVE r \in S /\ r < Newest(S)
  OBVIOUS
<1>1. /\ r \in S /\ MaxGraphRevisions \in Nat /\ MaxGraphRevisions # 0
      /\ Cardinality({x \in S : x >= r}) > MaxGraphRevisions
  BY GraphRevisionsAssumption DEF Collectable
<1>2. Newest(S) \in S /\ \A x \in S : x <= Newest(S)
  BY <1>1, NewestFacts
<1>a. Revs \subseteq Nat
  BY RegistryAssumption DEF Revs
<1>3. r \in Nat /\ Newest(S) \in Nat /\ \A x \in S : x \in Nat
  BY <1>1, <1>2, <1>a
<1>4. ASSUME r = Newest(S) PROVE FALSE
  <2>a. \A x \in S : x <= r
    BY <1>2, <1>4
  <2>b. \A x \in S : x >= r <=> x = r
    BY <1>3, <2>a
  <2>1. {x \in S : x >= r} = {r}
    BY <1>1, <2>b
  <2>2. Cardinality({x \in S : x >= r}) = 1
    BY <2>1, FS_Singleton
  <2> QED
    BY <1>1, <2>2
<1> QED
  BY <1>1, <1>2, <1>3, <1>4

LEMMA RetentionKeeps ==
    ASSUME NEW S \in SUBSET Revs, NEW D \in SUBSET Collectable(S), D # {}
    PROVE  Cardinality(S \ D) >= MaxGraphRevisions
<1> DEFINE C == Collectable(S)
           c == Newest(C)
           U == {x \in S : x >= c}
           V == U \ {c}
<1>1. C \in SUBSET Revs /\ C \subseteq S /\ C # {}
  BY NewestIsKept
<1>2. c \in C /\ \A x \in C : x <= c
  BY <1>1, NewestFacts
<1>3. MaxGraphRevisions \in Nat /\ Cardinality(U) > MaxGraphRevisions
  <2>1. \A r \in Collectable(S) : Cardinality({x \in S : x >= r}) > MaxGraphRevisions
    BY DEF Collectable
  <2> HIDE DEF c
  <2> QED
    BY <1>2, <2>1, GraphRevisionsAssumption
<1>4. c \in Nat /\ \A x \in S : x \in Nat
  BY <1>1, <1>2, RegistryAssumption DEF Revs
<1> HIDE DEF C, c
<1>5. c \in U /\ U \in SUBSET Revs /\ V \in SUBSET Revs /\ S \ D \in SUBSET Revs
  BY <1>1, <1>2, <1>4
<1>6. Cardinality(V) = Cardinality(U) - 1
  BY <1>5, RevsFinite, FS_RemoveElement
<1>7. V \subseteq S \ D
  <2> SUFFICES ASSUME NEW x \in V PROVE x \notin D
    OBVIOUS
  <2>1. x >= c /\ x # c /\ x \in Nat
    BY <1>4
  <2>2. x \notin C
    BY <1>2, <1>4, <2>1
  <2> QED
    BY <2>2 DEF C
<1>8. Cardinality(V) <= Cardinality(S \ D)
  BY <1>5, <1>7, RevsFinite, FS_Subset
<1>9. /\ Cardinality(U) \in Nat /\ Cardinality(V) \in Nat
      /\ Cardinality(S \ D) \in Nat
  BY <1>5, RevsFinite
<1> QED
  BY <1>3, <1>6, <1>8, <1>9

\* What is known of a number after a step was known before it, or is created.
LEMMA KnownBefore ==
    ASSUME Base, Next, NEW r \in Revs, Known(r)'
    PROVE  Known(r) \/ gr'[r].st = "live"
<1>0. g \in [Revs -> GrWorker] /\ gr \in [Revs -> GR] /\ gr' \in [Revs -> GR]
  BY BaseStep DEF Base, TypeOK
<1>1. CASE Foreign(r)
  <2>1. HasEntry(reg, r)' => HasEntry(reg, r)
    BY <1>1 DEF Foreign, HasEntry, NoEntry
  <2>2. g'[r].pc # "idle" => g[r].pc # "idle"
    BY <1>1 DEF Foreign, IdleGr
  <2>3. gr'[r].st # "none" => gr[r].st # "none" \/ gr'[r].st = "live"
    BY <1>1 DEF Foreign, Kept, Removed, Created
  <2> QED
    BY <2>1, <2>2, <2>3 DEF Known
<1>2. CASE GrNext(r) /\ g[r].pc # "idle"
  BY <1>2 DEF Known
<1>3. CASE GrStart(r)
  <2>1. gr' = gr /\ reg' = reg
    BY <1>3 DEF GrStart, api, mem
  <2>2. g'[r].pc # "idle" => gr[r].st # "none"
    BY <1>0, <1>3 DEF GrStart, IdleGr
  <2> QED
    BY <2>1, <2>2 DEF Known, HasEntry
<1> QED
  BY <1>1, <1>2, <1>3, StepKinds DEF GrNext, GrSetManaged, GrPend, GrCompile, GrUpdateStatus,
     GrPublish, GrSetUnmanaged, GrEvict

\* An RGD appears by its creation only.
LEMMA Appears ==
    ASSUME Base, Next, rgd.uid = 0, rgd'.uid # 0
    PROVE  \E s \in Specs : UserCreates(s)
<1>0. rgd \in RGD
  BY DEF Base, TypeOK
<1>1. rgd' # rgd
  OBVIOUS
<1>2. ~RgdNext
  <2>1. ~RgdSetManaged /\ ~RgdSetUnmanaged
    BY <1>1 DEF RgdSetManaged, RgdSetUnmanaged, CanPatchFinalizers
  <2>2. ~RgdUpdateStatus
    BY <1>1 DEF RgdUpdateStatus
  <2> QED
    BY <1>1, <2>1, <2>2 DEF RgdNext, RgdStart, RgdList, RgdResolve, RgdCreate, RgdServe,
       RgdGC, RgdCleanup, api
<1>3. ~KubeNext
  <2>1. ASSUME KubeOrphans PROVE FALSE
    <3>1. [rgd EXCEPT !.orphan = FALSE] \in RGD /\ [rgd EXCEPT !.orphan = FALSE].uid = 0
      BY <1>0 DEF RGD
    <3> QED
      BY <2>1, <3>1, FinalizedFacts DEF KubeOrphans
  <2> QED
    BY <1>1, <2>1 DEF KubeNext, KubeCollects
<1>4. ~RgdSync /\ ~Restart /\ \A r \in Revs : ~GrNext(r)
  BY <1>1 DEF RgdSync, Restart, GrNext, GrStart, GrSetManaged, GrPend, GrCompile,
     GrUpdateStatus, GrPublish, GrSetUnmanaged, GrEvict, api
<1> QED
  BY <1>1, <1>2, <1>3, <1>4 DEF Next, UserNext, UserEdits, UserDeletesRGD, UserDeletesGR,
     UserDeletesCRD

LEMMA NothingBeyondStep ==
    ASSUME Base, Base', Lifecycle, NothingBeyond, Undisturbed, Next
    PROVE  NothingBeyond'
<1> SUFFICES ASSUME rgd'.uid # 0, NEW r \in Revs, Known(r)' PROVE Covered(r)'
  BY DEF NothingBeyond
<1>0. gr \in [Revs -> GR] /\ gr' \in [Revs -> GR] /\ Live \in SUBSET Revs
  BY DEF Base, TypeOK, Live
<1>a. \A x \in Revs : x \in Nat
  BY RegistryAssumption DEF Revs
<1>1. CASE rgd.uid = 0
  <2>1. PICK s \in Specs : UserCreates(s)
    BY <1>1, Appears
  <2>2. born = 0 /\ UNCHANGED <<gr, g, reg>>
    BY <2>1 DEF UserCreates, mem, Base, TypeOK, Undisturbed
  <2>3. ~Known(r)'
    BY <2>2 DEF Lifecycle, Unborn, Known, HasEntry
  <2> QED
    BY <2>3
<1>2. CASE rgd.uid # 0
  <2>1. CASE gr'[r].st = "live"
    BY <1>a, <2>1 DEF Covered, Live
  <2>2. CASE Covered(r)
    <3>1. PICK x \in Live : x >= r
      BY <2>2 DEF Covered
    <3>2. CASE ~RgdGC
      <4>1. LiveStays
        BY <1>2, <3>2, LiveStaysStep
      <4> QED
        BY <3>1, <4>1 DEF LiveStays, Covered, Live
    <3>3. CASE RgdGC
      <4>1. Newest(Live) \in Live /\ x <= Newest(Live)
        BY <1>0, <3>1, NewestFacts
      <4>2. Newest(Live) \notin Collectable(Live)
        BY <1>0, <1>a, <4>1, NewestIsKept
      <4>3. gr'[Newest(Live)] = gr[Newest(Live)]
        BY <1>0, <3>3, <4>1, <4>2 DEF RgdGC
      <4>4. Newest(Live) \in Live'
        BY <4>1, <4>3 DEF Live
      <4>5. Newest(Live) >= r
        BY <1>0, <1>a, <3>1, <4>1
      <4> QED
        BY <4>4, <4>5 DEF Covered
    <3> QED
      BY <3>2, <3>3
  <2> QED
    BY <1>2, <2>1, <2>2, KnownBefore DEF NothingBeyond
<1> QED
  BY <1>1, <1>2

\* The number of a new revision is one that nothing is known of.
LEMMA CreatedIsFresh ==
    ASSUME Lineage, Next, NEW r \in Revs, gr[r].st = "none", gr'[r].st # "none"
    PROVE  /\ RgdCreate /\ r = NextRevision /\ ~Known(r)
           /\ gr'[r] = NewGR(w.o.spec, w.o.uid)
           /\ UNCHANGED <<g, reg>>
<1>0. Base /\ gr \in [Revs -> GR] /\ w.live \in SUBSET Revs
  BY WorkerParts DEF Lineage, Base, TypeOK
<1>1. RgdCreate
  BY <1>0, NothingNew DEF NoNewRevision
<1>2. /\ gr' = [gr EXCEPT ![NextRevision] = NewGR(w.o.spec, w.o.uid)]
      /\ w.pc = "create" /\ UNCHANGED <<g, reg>>
  BY <1>1 DEF RgdCreate, mem
<1>3. r = NextRevision /\ gr'[r] = NewGR(w.o.spec, w.o.uid)
  BY <1>0, <1>2
<1>4. \A x \in w.live : x < r
  BY <1>0, <1>3, NextRevisionFacts
<1>5. Live \subseteq w.live
  BY <1>2 DEF Lineage, ListingCovers, Live
<1>6. ~Covered(r)
  <2> SUFFICES ASSUME NEW x \in Live, x >= r PROVE FALSE
    BY DEF Covered
  <2>1. x \in Nat /\ r \in Nat
    BY <1>0, <1>5, RegistryAssumption DEF Revs
  <2> QED
    BY <1>4, <1>5, <2>1
<1>7. rgd.uid # 0
  BY <1>2 DEF Lineage, Lifecycle, Life, Managing, Held
<1> QED
  BY <1>1, <1>2, <1>3, <1>6, <1>7 DEF Lineage, NothingBeyond

LEMMA AgreesStep ==
    ASSUME Lineage, Next, NEW r \in Revs
    PROVE  Agrees(r)'
<1>0. /\ gr \in [Revs -> GR] /\ g \in [Revs -> GrWorker] /\ reg.entries \in [Revs -> Entry]
      /\ Base
  BY DEF Lineage, Base, TypeOK, Bucket
<1>1. CASE gr'[r].st = "none"
  BY <1>1 DEF Agrees
<1>2. CASE gr[r].st = "none" /\ gr'[r].st # "none"
  <2>1. ~HasEntry(reg, r) /\ g[r].pc = "idle" /\ UNCHANGED <<g, reg>>
    BY <1>2, CreatedIsFresh DEF Known
  <2> QED
    BY <2>1 DEF Agrees
<1>3. CASE gr[r].st # "none" /\ gr'[r].st # "none"
  <2>0. /\ gr'[r].spec = gr[r].spec /\ (gr'[r].st = "live" => gr[r].st = "live")
        /\ HasEntry(reg, r) => reg.entries[r].spec = gr[r].spec
        /\ g[r].pc \in {"manage", "pend", "compile", "status", "publish"}
              => g[r].spec = gr[r].spec
        /\ gr[r].st = "live" => g[r].pc \notin {"unmanage", "evict"}
    BY <1>0, <1>3, SpecStaysStep DEF SpecStays, Lineage, Agrees
  <2>1. CASE Foreign(r)
    <3>1. HasEntry(reg, r)' => HasEntry(reg, r) /\ reg'.entries[r] = reg.entries[r]
      BY <2>1 DEF Foreign, HasEntry, NoEntry
    <3>2. g'[r] = g[r] \/ g'[r].pc = "idle"
      BY <2>1 DEF Foreign, IdleGr
    <3> QED
      BY <2>0, <3>1, <3>2 DEF Agrees
  <2>2. CASE GrNext(r)
    <3>1. ASSUME NEW st, reg' = Put(reg, r, [state |-> st, spec |-> g[r].spec])
          PROVE  reg'.entries[r].spec = g[r].spec
      BY <1>0, <3>1 DEF Put
    <3>2. CASE GrStart(r)
      <4>1. gr' = gr /\ reg' = reg
        BY <3>2 DEF GrStart, api, mem
      <4>2. g'[r].spec = gr[r].spec /\ (gr[r].st = "live" => g'[r].pc = "manage")
        BY <1>0, <1>3, <3>2 DEF GrStart, IdleGr
      <4> QED
        BY <2>0, <4>1, <4>2 DEF Agrees, HasEntry
    <3>3. CASE GrSetManaged(r)
      <4>1. reg' = reg /\ g[r].pc = "manage"
        BY <3>3 DEF GrSetManaged, mem
      <4>2. g'[r].pc = "idle" \/ (g'[r].pc = "pend" /\ g'[r].spec = g[r].spec)
        BY <1>0, <3>3 DEF GrSetManaged, GrGoto, GrEnd, IdleGr, GrWorker
      <4> QED
        BY <2>0, <4>1, <4>2 DEF Agrees, HasEntry
    <3>4. CASE GrPend(r)
      <4>1. g[r].pc = "pend" /\ g'[r].pc = "compile" /\ g'[r].spec = g[r].spec
        BY <1>0, <3>4 DEF GrPend, GrGoto, GrWorker
      <4>2. reg' = reg \/ reg'.entries[r].spec = g[r].spec
        BY <3>1, <3>4 DEF GrPend
      <4> QED
        BY <2>0, <4>1, <4>2 DEF Agrees, HasEntry
    <3>5. CASE GrCompile(r)
      <4>1. g[r].pc = "compile" /\ g'[r].pc = "status" /\ g'[r].spec = g[r].spec
        BY <1>0, <3>5 DEF GrCompile, GrWorker
      <4>2. reg' = reg \/ reg'.entries[r].spec = g[r].spec
        BY <3>1, <3>5 DEF GrCompile
      <4> QED
        BY <2>0, <4>1, <4>2 DEF Agrees, HasEntry
    <3>6. CASE GrUpdateStatus(r)
      <4>1. reg' = reg /\ g[r].pc = "status"
        BY <3>6 DEF GrUpdateStatus, mem
      <4>2. g'[r].pc = "idle" \/ (g'[r].pc = "publish" /\ g'[r].spec = g[r].spec)
        BY <1>0, <3>6 DEF GrUpdateStatus, GrGoto, GrEnd, IdleGr, GrWorker
      <4> QED
        BY <2>0, <4>1, <4>2 DEF Agrees, HasEntry
    <3>7. CASE GrPublish(r)
      <4>1. g[r].pc = "publish" /\ g'[r].pc = "idle"
        BY <1>0, <3>7 DEF GrPublish, GrEnd, IdleGr
      <4>2. reg'.entries[r].spec = g[r].spec
        BY <3>1, <3>7 DEF GrPublish
      <4> QED
        BY <2>0, <4>1, <4>2 DEF Agrees, HasEntry
    <3>8. CASE GrSetUnmanaged(r)
      <4>1. reg' = reg /\ g[r].pc = "unmanage"
        BY <3>8 DEF GrSetUnmanaged, mem
      <4>2. g'[r].pc \in {"idle", "evict"}
        BY <1>0, <3>8 DEF GrSetUnmanaged, GrGoto, GrEnd, IdleGr, GrWorker
      <4> QED
        BY <2>0, <4>1, <4>2 DEF Agrees, HasEntry
    <3>9. CASE GrEvict(r)
      <4>1. g[r].pc = "evict" /\ g'[r].pc = "idle"
        BY <1>0, <3>9 DEF GrEvict, GrEnd, IdleGr
      <4>2. reg'.entries[r].state = "Absent"
        BY <1>0, <3>9 DEF GrEvict, Delete, EmptyBucket, recomputeLatest, HasEntry, NoEntry,
           Bucket, Base, TypeOK
      <4> QED
        BY <4>1, <4>2 DEF Agrees, HasEntry
    <3> QED
      BY <2>2, <3>2, <3>3, <3>4, <3>5, <3>6, <3>7, <3>8, <3>9 DEF GrNext
  <2> QED
    BY <1>0, <2>1, <2>2, StepKinds
<1> QED
  BY <1>1, <1>2, <1>3

\* Where the reconcile gets to rely on its listing.
LEMMA WorkerMoves ==
    ASSUME Base, Next, ~RgdList, ~RgdResolve, ~RgdServe
    PROVE  w' = w \/ w'.pc \notin Listed
<1>1. CASE RgdNext
  <2>1. CASE RgdStart
    BY <2>1 DEF RgdStart, IdleRgd, Listed
  <2>2. ASSUME NEW pc \in {"list", "unmanage", "status"},
               w' = IdleRgd \/ w' = [w EXCEPT !.pc = pc]
        PROVE  w'.pc \notin Listed
    BY <2>2, WorkerParts DEF IdleRgd, RgdWorker, Listed
  <2>3. CASE RgdSetManaged \/ RgdCleanup \/ RgdGC \/ RgdUpdateStatus \/ RgdSetUnmanaged
    BY <2>2, <2>3 DEF RgdSetManaged, RgdCleanup, RgdGC, RgdUpdateStatus, RgdSetUnmanaged, RgdEnd
  <2>4. CASE RgdCreate
    BY <2>4, WorkerParts DEF RgdCreate, RgdWorker, Listed
  <2> QED
    BY <1>1, <2>1, <2>3, <2>4 DEF RgdNext
<1>2. ASSUME NEW r \in Revs, GrNext(r) PROVE w' = w
  BY <1>2 DEF GrNext, GrStart, GrSetManaged, GrPend, GrCompile, GrUpdateStatus,
     GrPublish, GrSetUnmanaged, GrEvict
<1>3. CASE UserNext \/ KubeNext \/ RgdSync
  BY <1>3 DEF UserNext, UserCreates, UserEdits, UserDeletesRGD, UserDeletesGR,
     UserDeletesCRD, KubeNext, KubeOrphans, KubeCollects, RgdSync
<1>4. CASE Restart
  BY <1>4 DEF Restart, IdleRgd, Listed
<1> QED
  BY <1>1, <1>2, <1>3, <1>4 DEF Next

\* What resolveGraphRevisions knows when it issues or serves.
LEMMA ResolveFacts ==
    ASSUME Base, RgdResolve
    PROVE  /\ w.pc = "resolve" /\ w'.live = w.live /\ w'.o.spec = w.o.spec /\ gr' = gr
           /\ w'.pc = "create" /\ w.live # {} =>
                 /\ ~w.term /\ HasEntry(reg, Newest(w.live))
                 /\ Hash[reg.entries[Newest(w.live)].spec] # Hash[w.o.spec]
           /\ w'.pc = "serve" =>
                 ~w.term /\ w.live # {} /\ HasEntry(reg, Newest(w.live)) /\ reg' = reg
<1> DEFINE n == Newest(w.live)
           e == IF n = 0 THEN NoEntry ELSE reg.entries[n]
           d == Resolution(w.live, w.term, e, w.o.spec)
           known == [w.o EXCEPT !.last = Max2(@, n)]
<1>0. w.pc = "resolve" /\ gr' = gr
  BY DEF RgdResolve, api
<1>1. known.spec = w.o.spec /\ w \in RgdWorker
  BY WorkerParts DEF RGD
<1>2. \/ d \in {"settling", "warmup"} /\ w' = [w EXCEPT !.o = w.o, !.retry = TRUE, !.pc = "status"]
      \/ d = "issue" /\ w' = [w EXCEPT !.pc = "create"]
      \/ d = "changed" /\ w' = [w EXCEPT !.o = known, !.pc = "create"]
      \/ d \in {"Pending", "Failed"} /\ w' = [w EXCEPT !.o = known, !.retry = TRUE, !.pc = "status"]
      \/ d = "Active" /\ w' = [w EXCEPT !.o = known, !.graph = e.spec, !.pc = "serve"]
  BY DEF RgdResolve
<1> HIDE DEF known
<1>3. w'.live = w.live /\ w'.o.spec = w.o.spec
  BY <1>1, <1>2 DEF RgdWorker
<1>4. (w'.pc = "create" => d \in {"issue", "changed"}) /\ (w'.pc = "serve" => d = "Active")
  BY <1>1, <1>2 DEF RgdWorker
<1>5. w.live # {} => n \in Revs /\ n # 0
  BY WorkerParts, NewestFacts, RegistryAssumption DEF Revs
<1>6. e.state \in States \cup {"Absent"}
  <2>1. reg.entries \in [Revs -> Entry]
    BY DEF Base, TypeOK, Bucket
  <2>2. w.live = {} => n = 0
    BY DEF Newest
  <2> QED
    BY <1>5, <2>1, <2>2 DEF Entry, NoEntry
<1>7. w.live # {} => e = reg.entries[n]
  BY <1>5
<1> HIDE DEF e
<1>8. CASE w'.pc = "create" /\ w.live # {}
  <2>1. ~w.term /\ e.state # "Absent" /\ Hash[e.spec] # Hash[w.o.spec]
    BY <1>4, <1>6, <1>8 DEF Resolution, States
  <2> QED
    BY <1>0, <1>3, <1>7, <1>8, <2>1 DEF HasEntry
<1>9. CASE w'.pc = "serve"
  <2>1. ~w.term /\ w.live # {} /\ e.state # "Absent"
    BY <1>4, <1>6, <1>9 DEF Resolution, States
  <2>2. reg' = reg
    BY <2>1 DEF RgdResolve
  <2> QED
    BY <1>0, <1>3, <1>7, <1>9, <2>1, <2>2 DEF HasEntry
<1> QED
  BY <1>0, <1>3, <1>8, <1>9

LEMMA DecidedStep ==
    ASSUME Lineage, Next
    PROVE  Decided'
<1> SUFFICES ASSUME w'.pc = "create", w'.live # {}, gr'[Newest(w'.live)].st # "none"
             PROVE  Hash[gr'[Newest(w'.live)].spec] # Hash[w'.o.spec]
  BY DEF Decided
<1>0. Base /\ w.live \in SUBSET Revs /\ w \in RgdWorker
  BY WorkerParts DEF Lineage
<1>1. CASE RgdResolve
  <2>1. /\ w'.live = w.live /\ w'.o.spec = w.o.spec /\ gr' = gr
        /\ HasEntry(reg, Newest(w.live))
        /\ Hash[reg.entries[Newest(w.live)].spec] # Hash[w.o.spec]
    BY <1>0, <1>1, ResolveFacts
  <2>2. Newest(w.live) \in Revs
    BY <1>0, <2>1, NewestFacts
  <2>3. Agrees(Newest(w.live))
    BY <2>2 DEF Lineage
  <2>4. reg.entries[Newest(w.live)].spec = gr[Newest(w.live)].spec
    BY <2>1, <2>3 DEF Agrees
  <2> QED
    BY <2>1, <2>4
<1>2. CASE ~RgdResolve
  <2>1. ~RgdList /\ ~RgdServe /\ ~RgdCreate
    BY <1>0 DEF RgdList, RgdServe, RgdCreate, RgdWorker
  <2>2. w' = w
    BY <1>0, <1>2, <2>1, WorkerMoves DEF Listed
  <2>3. Newest(w.live) \in Revs
    BY <1>0, <2>2, NewestFacts
  <2>4. NoNewRevision /\ SpecStays
    BY <1>0, <2>1, NothingNew, SpecStaysStep
  <2>5. gr[Newest(w.live)].st # "none" /\ gr'[Newest(w.live)].spec = gr[Newest(w.live)].spec
    BY <2>2, <2>3, <2>4 DEF NoNewRevision, SpecStays
  <2> QED
    BY <2>2, <2>5 DEF Lineage, Decided
<1> QED
  BY <1>1, <1>2

\* The entry of a live revision stays while no reconcile clears the bucket.
LEMMA EntryStays ==
    ASSUME Lineage, Next, ~RgdResolve, ~Restart,
           NEW r \in Revs, gr[r].st = "live", HasEntry(reg, r)
    PROVE  HasEntry(reg, r)'
<1>0. reg.entries \in [Revs -> Entry] /\ g[r].pc # "evict" /\ reg \in Bucket
  BY DEF Lineage, Base, TypeOK, Bucket, Agrees
<1>1. ASSUME NEW x \in Revs, GrNext(x) PROVE HasEntry(reg, r)'
  <2>1. CASE reg' = reg
    BY <2>1 DEF HasEntry
  <2>2. ASSUME NEW st \in States, reg' = Put(reg, x, [state |-> st, spec |-> g[x].spec])
        PROVE  HasEntry(reg, r)'
    BY <1>0, <2>2 DEF Put, HasEntry, States
  <2>3. CASE GrEvict(x)
    <3>1. reg' = Delete(reg, x) /\ x # r
      BY <1>0, <2>3 DEF GrEvict
    <3> DEFINE es == [reg.entries EXCEPT ![x] = NoEntry]
    <3>2. es[r] = reg.entries[r] /\ es[r].state # "Absent"
      BY <1>0, <3>1 DEF HasEntry
    <3>3. reg' = reg \/ reg' = [reg EXCEPT !.entries = es] \/ reg' = recomputeLatest(es)
      BY <3>1, <3>2 DEF Delete
    <3> HIDE DEF es
    <3>4. reg' = reg \/ reg'.entries = es
      BY <1>0, <3>3 DEF recomputeLatest, Bucket
    <3> QED
      BY <3>2, <3>4 DEF HasEntry
  <2> QED
    BY <1>1, <2>1, <2>2, <2>3 DEF GrNext, GrStart, GrSetManaged, GrPend, GrCompile,
       GrUpdateStatus, GrPublish, GrSetUnmanaged, mem, States
<1>2. CASE reg' = reg
  BY <1>2 DEF HasEntry
<1>3. CASE RgdNext \/ RgdSync \/ UserNext \/ KubeNext
  BY <1>2, <1>3 DEF RgdNext, RgdStart, RgdSetManaged, RgdList, RgdCreate, RgdServe, RgdGC,
     RgdUpdateStatus, RgdCleanup, RgdSetUnmanaged, RgdSync, UserNext, UserCreates, UserEdits,
     UserDeletesRGD, UserDeletesGR, UserDeletesCRD, KubeNext, KubeOrphans, KubeCollects, mem
<1> QED
  BY <1>1, <1>3 DEF Next

LEMMA ServedStaysStep ==
    ASSUME Lineage, Undisturbed, Next
    PROVE  ServedStays'
<1>0. /\ Base /\ w.live \in SUBSET Revs /\ w \in RgdWorker /\ gr \in [Revs -> GR]
      /\ Live \in SUBSET Revs
  BY WorkerParts DEF Lineage, Base, TypeOK, Live
<1>a. w.live # {} => Newest(w.live) \in Revs
  BY <1>0, NewestFacts
<1>1. CASE RgdList
  <2>1. \/ w'.pc = "status"
        \/ w'.pc = "resolve" /\ w'.live = Live
    BY <1>0, <1>1 DEF RgdList, RgdWorker
  <2>2. CASE w'.pc = "status"
    BY <2>2 DEF ServedStays, Listed
  <2>3. CASE w'.pc = "resolve" /\ w'.live = Live /\ Live # {}
    <3>1. Newest(Live) \in Live
      BY <1>0, <2>3, NewestFacts
    <3>2. \A r \in Revs : gr'[r] = gr[r] \/ gr'[r] = [gr[r] EXCEPT !.owner = w.o.uid]
      BY <1>1 DEF RgdList
    <3>3. gr'[Newest(Live)].st = "live"
      BY <1>0, <3>1, <3>2 DEF Live, GR
    <3> QED
      BY <2>3, <3>3 DEF ServedStays
  <2>4. CASE w'.pc = "resolve" /\ w'.live = {}
    BY <2>4 DEF ServedStays
  <2> QED
    BY <2>1, <2>2, <2>3, <2>4
<1>2. CASE RgdResolve
  <2>1. /\ w.pc = "resolve" /\ w'.live = w.live /\ gr' = gr
        /\ w'.pc = "serve" =>
              ~w.term /\ w.live # {} /\ HasEntry(reg, Newest(w.live)) /\ reg' = reg
    BY <1>0, <1>2, ResolveFacts
  <2>2. w.live # {} => gr[Newest(w.live)].st = "live"
    BY <2>1 DEF Lineage, ServedStays, Listed
  <2>3. w'.pc # "gc"
    BY <1>0, <1>2 DEF RgdResolve, RgdWorker
  <2>4. w'.pc = "serve" => \A r \in Revs : gr[r].st # "none" => r \in w.live
    BY <2>1 DEF Lineage, ListingCovers
  <2> QED
    BY <2>1, <2>2, <2>3, <2>4 DEF ServedStays, HasEntry
<1>3. CASE RgdServe
  <2>1. w.pc = "serve" /\ w'.pc = "gc" /\ w'.live = w.live /\ gr' = gr /\ reg' = reg
    BY <1>0, <1>3 DEF RgdServe, RgdWorker
  <2> QED
    BY <2>1 DEF Lineage, ServedStays, Listed, HasEntry
<1>4. CASE ~RgdList /\ ~RgdResolve /\ ~RgdServe /\ w'.pc \notin Listed
  BY <1>4 DEF ServedStays, Listed
<1>5. CASE ~RgdList /\ ~RgdResolve /\ ~RgdServe /\ w' = w /\ w.pc \in Listed
  <2>1. rgd.uid # 0 /\ ~RgdGC /\ ~RgdCreate /\ ~Restart
    <3>1. rgd.uid # 0
      BY <1>5 DEF Lineage, Lifecycle, Life, Managing, Listed, Held
    <3>2. ~RgdGC
      BY <1>0, <1>5 DEF RgdGC, RgdWorker
    <3>3. ~RgdCreate
      BY <1>0, <1>5 DEF RgdCreate, RgdWorker
    <3>4. ~Restart
      BY <1>5 DEF Restart, IdleRgd, Listed
    <3> QED
      BY <3>1, <3>2, <3>3, <3>4
  <2>2. LiveStays /\ NoNewRevision
    BY <1>0, <2>1, LiveStaysStep, NothingNew
  <2>3. w.live # {} => gr[Newest(w.live)].st = "live" /\ gr'[Newest(w.live)].st = "live"
    BY <1>5, <1>a, <2>2 DEF Lineage, ServedStays, LiveStays
  <2>4. w.pc \in {"serve", "gc"} =>
          /\ w.live # {} /\ HasEntry(reg, Newest(w.live))
          /\ \A r \in Revs : gr[r].st # "none" => r \in w.live
    BY DEF Lineage, ServedStays
  <2>5. w.pc \in {"serve", "gc"} => HasEntry(reg, Newest(w.live))'
    <3> SUFFICES ASSUME w.pc \in {"serve", "gc"} PROVE HasEntry(reg', Newest(w.live))
      BY <1>5 DEF HasEntry
    <3>1. Newest(w.live) \in Revs /\ gr[Newest(w.live)].st = "live"
      BY <1>a, <2>3, <2>4
    <3> DEFINE n == Newest(w.live)
    <3>2. n \in Revs /\ gr[n].st = "live" /\ HasEntry(reg, n)
      BY <2>4, <3>1
    <3> HIDE DEF n
    <3>3. HasEntry(reg', n)
      BY <1>5, <2>1, <3>2, EntryStays DEF HasEntry
    <3> QED
      BY <3>3 DEF n
  <2>6. w.pc \in {"serve", "gc"} => \A r \in Revs : gr'[r].st # "none" => r \in w.live
    BY <2>2, <2>4 DEF NoNewRevision
  <2> QED
    BY <1>5, <2>3, <2>4, <2>5, <2>6 DEF ServedStays, HasEntry
<1> QED
  BY <1>0, <1>1, <1>2, <1>3, <1>4, <1>5, WorkerMoves

LEMMA LineageInit == Init => Lineage
<1> SUFFICES ASSUME Init PROVE Lineage
  OBVIOUS
<1>1. \A r \in Revs : gr[r] = NoGR /\ g[r] = IdleGr /\ reg.entries[r] = NoEntry
  BY DEF Init, EmptyBucket
<1>2. Base /\ Lifecycle
  BY BaseInit, LifeInit
<1>3. ListingCovers /\ Decided /\ ServedStays
  BY DEF Init, ListingCovers, Decided, ServedStays, Listed, IdleRgd
<1>4. AllRevs
  BY <1>1 DEF AllRevs, RevInv, Pinned, HasEntry, NoGR, IdleGr, NoEntry
<1>5. NothingBeyond
  BY DEF Init, NothingBeyond, NoRGD
<1>6. \A r \in Revs : Agrees(r)
  BY <1>1 DEF Agrees, NoGR
<1> QED
  BY <1>2, <1>3, <1>4, <1>5, <1>6 DEF Lineage

LEMMA LineageStutter ==
    ASSUME Lineage, UNCHANGED vars
    PROVE  Lineage'
<1> USE DEF Lineage, vars
<1>1. Base' /\ Lifecycle'
  <2>1. Base'
    BY BaseStep
  <2>2. Lifecycle'
    BY LifeStutter
  <2> QED
    BY <2>1, <2>2
<1>2. ListingCovers' /\ Decided' /\ ServedStays'
  BY DEF ListingCovers, Decided, ServedStays, HasEntry
<1>3. AllRevs'
  BY DEF AllRevs, RevInv, Pinned, HasEntry
<1>4. NothingBeyond'
  BY DEF NothingBeyond, Known, Covered, Live, HasEntry
<1>5. \A r \in Revs : Agrees(r)'
  BY DEF Agrees, HasEntry
<1> QED
  BY <1>1, <1>2, <1>3, <1>4, <1>5

LEMMA LineageStep ==
    ASSUME Undisturbed
    PROVE  Lineage /\ [Next]_vars => Lineage'
<1> SUFFICES ASSUME Lineage, [Next]_vars PROVE Lineage'
  OBVIOUS
<1>1. CASE UNCHANGED vars
  BY <1>1, LineageStutter
<1>2. CASE Next
  <2>0. Base /\ ListingCovers /\ AllRevs /\ Lifecycle /\ NothingBeyond /\ MaxUid = 1
    BY DEF Lineage, Undisturbed
  <2>1. Base' /\ Lifecycle'
    BY <1>2, <2>0, BaseStep, LifeStep
  <2>2. ListingCovers'
    BY <1>2, <2>0, ListingStep
  <2>3. AllRevs'
    <3> SUFFICES ASSUME NEW r \in Revs PROVE RevInv(r)'
      BY DEF AllRevs
    <3> QED
      BY <1>2, <2>0, StepKinds, ForeignKeeps, OwnKeeps DEF AllRevs
  <2>4. NothingBeyond'
    BY <1>2, <2>0, <2>1, NothingBeyondStep
  <2>5. \A r \in Revs : Agrees(r)'
    BY <1>2, AgreesStep
  <2>6. Decided'
    BY <1>2, DecidedStep
  <2>7. ServedStays'
    BY <1>2, ServedStaysStep
  <2> QED
    BY <2>1, <2>2, <2>3, <2>4, <2>5, <2>6, <2>7 DEF Lineage
<1> QED
  BY <1>1, <1>2

LEMMA LineageHolds ==
    ASSUME Undisturbed
    PROVE  Spec => []Lineage
BY LineageInit, LineageStep, PTL DEF Spec

\* A revision is issued only when its spec differs from that of the number before
\* it, through stale caches, lost replies, restarts and retention.  Deleting a
\* revision by hand breaks it: its number is issued again while the worker of the
\* first one puts the old spec under it, and the comparison reads that entry.
THEOREM NoDuplicateIssueHolds ==
    ASSUME Undisturbed
    PROVE  Spec => NoDuplicateIssue
<1>1. ASSUME Lineage, Next, NEW r \in Revs, gr[r].st = "none", gr'[r].st = "live",
             r > 1, gr[r-1].st = "live"
      PROVE  Hash[gr[r-1].spec] # Hash[gr'[r].spec]
  <2>0. Base /\ ListingCovers /\ Decided /\ w.live \in SUBSET Revs
    BY <1>1, WorkerParts DEF Lineage
  <2>1. RgdCreate /\ r = NextRevision /\ gr'[r] = NewGR(w.o.spec, w.o.uid)
    BY <1>1, CreatedIsFresh
  <2>2. w.pc = "create" /\ gr'[r].spec = w.o.spec
    BY <2>1 DEF RgdCreate, NewGR
  <2>3. r - 1 \in Revs
    BY <1>1, RegistryAssumption DEF Revs
  <2>4. r - 1 \in w.live
    BY <1>1, <2>0, <2>2, <2>3 DEF ListingCovers
  <2>5. \A x \in w.live : x < r
    BY <2>0, <2>1, NextRevisionFacts
  <2>6. Newest(w.live) \in w.live /\ \A x \in w.live : x <= Newest(w.live)
    BY <2>0, <2>4, NewestFacts
  <2>7. Newest(w.live) = r - 1
    <3>1. Newest(w.live) \in Revs /\ Newest(w.live) < r /\ r - 1 <= Newest(w.live)
      BY <2>0, <2>4, <2>5, <2>6
    <3> HIDE DEF Newest
    <3> QED
      BY <3>1, RegistryAssumption DEF Revs
  <2> QED
    BY <1>1, <2>0, <2>2, <2>4, <2>7 DEF Decided
<1>2. ASSUME Lineage, [Next]_vars
      PROVE  [\A r \in Revs :
                (gr[r].st = "none" /\ gr'[r].st = "live" /\ r > 1 /\ gr[r-1].st = "live")
                => Hash[gr[r-1].spec] # Hash[gr'[r].spec]]_vars
  BY <1>1, <1>2
<1> QED
  BY <1>2, LineageHolds, PTL DEF Spec, NoDuplicateIssue

\* Retention spares the revision that instances resolve, which is the newest live
\* one, and leaves MaxGraphRevisions: garbageCollectGraphRevisions lists again
\* after the entry of the newest revision was found Active.  With a number issued
\* again after a deletion by hand, the worker of the first revision evicts the
\* entry of the second in between, and the pointer falls back to an older one.
THEOREM RetentionKeepsServedHolds ==
    ASSUME Undisturbed
    PROVE  Spec => RetentionKeepsServed
<1>1. ASSUME Lineage, Next, w.pc = "gc", w'.pc = "status",
             NEW r \in Live, gr'[r].st # "live"
      PROVE  /\ r # reg.latest
             /\ Cardinality({x \in Revs : gr'[x].st = "live"}) >= MaxGraphRevisions
  <2>0. /\ Base /\ w \in RgdWorker /\ w.live \in SUBSET Revs /\ Live \in SUBSET Revs
        /\ ServedStays /\ gr \in [Revs -> GR] /\ LatestOK(reg)
    BY <1>1, WorkerParts DEF Lineage, Base, TypeOK, Live, LatestIsNewest
  <2>1. RgdGC
    <3>1. ~RgdList /\ ~RgdResolve /\ ~RgdServe /\ ~RgdCreate
      BY <1>1 DEF RgdList, RgdResolve, RgdServe, RgdCreate
    <3>2. ~RgdStart /\ ~RgdSetManaged /\ ~RgdUpdateStatus /\ ~RgdCleanup /\ ~RgdSetUnmanaged
      BY <1>1 DEF RgdStart, RgdSetManaged, RgdUpdateStatus, RgdCleanup, RgdSetUnmanaged
    <3>3. ~Restart
      BY <1>1 DEF Restart, IdleRgd
    <3>4. w' # w
      BY <1>1
    <3>5. ~RgdSync /\ ~UserNext /\ ~KubeNext
      BY <3>4 DEF RgdSync, UserNext, UserCreates, UserEdits, UserDeletesRGD, UserDeletesGR,
         UserDeletesCRD, KubeNext, KubeOrphans, KubeCollects, mem
    <3>6. \A x \in Revs : ~GrNext(x)
      BY <3>4 DEF GrNext, GrStart, GrSetManaged, GrPend, GrCompile, GrUpdateStatus, GrPublish,
         GrSetUnmanaged, GrEvict, mem
    <3> QED
      BY <1>1, <3>1, <3>2, <3>3, <3>5, <3>6 DEF Next, RgdNext
  <2>2. PICK D \in SUBSET Collectable(Live) :
            gr' = [x \in Revs |-> IF x \in D THEN Deleted(gr[x]) ELSE gr[x]]
    BY <2>1 DEF RgdGC
  <2>3. r \in D
    BY <1>1, <2>0, <2>2 DEF Live
  <2>4. r < Newest(Live)
    BY <2>0, <2>2, <2>3, NewestIsKept
  <2>5. w.live # {} /\ HasEntry(reg, Newest(w.live)) /\ Live \subseteq w.live
    BY <1>1, <2>0 DEF ServedStays, Live
  <2>6. Newest(Live) \in w.live /\ Newest(Live) <= Newest(w.live)
    BY <2>0, <2>5, NewestFacts
  <2>7. Newest(w.live) \in Revs /\ Newest(w.live) <= reg.latest
    <3>1. Newest(w.live) \in Revs
      BY <2>0, <2>5, NewestFacts
    <3>2. Newest(w.live) \in Revisions(reg) /\ Revisions(reg) \in SUBSET Revs
      BY <2>5, <3>1 DEF Revisions
    <3>3. reg.latest = Newest(Revisions(reg))
      BY <2>0, <3>2 DEF LatestOK
    <3> QED
      BY <3>1, <3>2, <3>3, NewestFacts
  <2>8. r # reg.latest
    <3> DEFINE m == Newest(Live)
               n == Newest(w.live)
    <3>1. r < m /\ m <= n /\ n <= reg.latest /\ r \in Revs /\ m \in Revs /\ n \in Revs
      BY <2>0, <2>4, <2>6, <2>7
    <3> HIDE DEF m, n
    <3> QED
      BY <3>1, RegistryAssumption DEF Revs
  <2>9. {x \in Revs : gr'[x].st = "live"} = Live \ D
    <3>1. \A x \in D : x \in Live /\ Deleted(gr[x]).st # "live"
      BY <2>0, <2>2, NewestIsKept DEF Deleted, NoGR, GR
    <3> QED
      BY <2>0, <2>2, <3>1 DEF Live
  <2>10. Cardinality(Live \ D) >= MaxGraphRevisions
    BY <2>0, <2>2, <2>3, RetentionKeeps
  <2> QED
    BY <2>8, <2>9, <2>10
<1>2. ASSUME Lineage, [Next]_vars
      PROVE  [w.pc = "gc" /\ w'.pc = "status" =>
                \A r \in Live : gr'[r].st # "live" =>
                    /\ r # reg.latest
                    /\ Cardinality({x \in Revs : gr'[x].st = "live"}) >= MaxGraphRevisions]_vars
  BY <1>1, <1>2
<1> QED
  BY <1>2, LineageHolds, PTL DEF Spec, RetentionKeepsServed

=============================================================================
