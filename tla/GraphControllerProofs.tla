----------------------- MODULE GraphControllerProofs ------------------------
(***************************************************************************)
(* Proofs about GraphController, for any Graphs, objects, specs and        *)
(* budgets.                                                                *)
(*                                                                         *)
(* The reconcile of a Graph has some twenty actions, each of which builds  *)
(* the next record of its run from the present one.  The proofs never look *)
(* at these records twice: for every action a lemma (CompileStartFacts ... *)
(* BeginFacts) says which fields of the run it may change, where the run   *)
(* goes, and which fields of the stored Graph it writes.  The invariants   *)
(* are then proved from these lemmas: Attention (who looks after a Graph), *)
(* Versions (which specs and generations there are) and Schemas (what the  *)
(* watcher has seen, and the epochs of the cache).                         *)
(***************************************************************************)
EXTENDS GraphController, TLAPS, FiniteSetTheorems

-----------------------------------------------------------------------------
(* The records of a run.                                                   *)

\* The fields of a run, as Begin makes it.
RunFields ==
    {"pc", "gen", "ver", "managed", "prev", "intent", "contribs", "prior", "sa", "user",
     "ep", "read", "i", "val", "items", "res", "at", "cur", "claims", "decl", "applied",
     "contr", "unres", "soft", "hard", "todo", "rel", "newSet", "cond", "err"}

\* A step changes the fields F of a record and no other.
Edited(r, s, F) ==
    /\ DOMAIN r = RunFields /\ DOMAIN s = RunFields
    /\ \A f \in RunFields \ F : s[f] = r[f]

LEMMA UnresolvedEdits ==
    ASSUME NEW r, DOMAIN r = RunFields, NEW id, NEW err
    PROVE  Edited(r, Unresolved(r, id, err), {"unres", "soft"})
BY DEF Edited, RunFields, Unresolved

ItemFields == {"pc", "i", "items", "res", "at", "cur", "val", "unres", "soft", "hard"}

\* The end of an item, or with the last one of its node, leaves the inventory,
\* the ledger and the verdict of the run as they are.
LEMMA ItemDoneEdits ==
    ASSUME NEW r, DOMAIN r = RunFields, NEW n, NEW o, NEW verdict, NEW st
    PROVE  /\ Edited(r, ItemDone(r, n, o, verdict, st), ItemFields)
           /\ ItemDone(r, n, o, verdict, st).pc \in {"get", "walk"}
<1> DEFINE res == IF verdict # "done" THEN r.res \union {verdict}
                  ELSE IF ~CheckReadiness(n, st) THEN r.res \union {"waiting"}
                  ELSE r.res
           next == [r EXCEPT !.pc = "get", !.items = @ \ {o}, !.res = res,
                             !.at = None, !.cur = NoObject]
           end == [next EXCEPT !.pc = "walk", !.i = @ + 1, !.res = {}]
           said == IF n.coll \/ res \ {"waiting"} # {} \/ n.kind = "patch" THEN end
                   ELSE [end EXCEPT !.val[n.id] = st]
           failed == [end EXCEPT !.hard = TRUE]
           waits == [said EXCEPT !.soft = recordSoft(@, "notready")]
           soft == Unresolved(end, n.id, SoftOf(res))
           F == ItemFields
<1>0. ItemDone(r, n, o, verdict, st) \in {next, failed, said, waits, soft}
  BY DEF ItemDone
<1> HIDE DEF res
<1>1. Edited(r, next, F) /\ next.pc = "get"
  BY DEF Edited, RunFields, ItemFields
<1> HIDE DEF next
<1>2. Edited(next, end, F) /\ end.pc = "walk"
  BY <1>1 DEF Edited, RunFields, ItemFields
<1> HIDE DEF end
<1>3. Edited(end, said, F) /\ said.pc = "walk"
  BY <1>2 DEF Edited, RunFields, ItemFields
<1> HIDE DEF said
<1>4. Edited(end, failed, F) /\ failed.pc = "walk"
  BY <1>2 DEF Edited, RunFields, ItemFields
<1>5. Edited(said, waits, F) /\ waits.pc = "walk"
  BY <1>3 DEF Edited, RunFields, ItemFields
<1>6. Edited(end, soft, F) /\ soft.pc = "walk"
  BY <1>2, UnresolvedEdits DEF Edited, RunFields, ItemFields
<1> HIDE DEF failed, waits, soft, F
<1>7. /\ Edited(r, end, F) /\ Edited(r, said, F) /\ Edited(r, failed, F)
      /\ Edited(r, waits, F) /\ Edited(r, soft, F)
  <2>1. \A x, y : Edited(r, x, F) /\ Edited(x, y, F) => Edited(r, y, F)
    BY DEF Edited
  <2> QED
    BY <1>1, <1>2, <1>3, <1>4, <1>5, <1>6, <2>1
<1> QED
  BY <1>0, <1>1, <1>2, <1>3, <1>4, <1>5, <1>6, <1>7 DEF F

\* The fields of a stored Graph, and the points a run can be at.
GraphFields == {"up", "gen", "ver", "deleting", "fin", "managed", "contribs", "sa", "cond"}
Pcs == {"manage", "compile", "compiling", "intent", "intent2", "walk", "get", "apply", "force",
        "prune", "pruning", "release", "releasing", "status",
        "delete", "deleting", "unlink", "unlinking"}
Run(r) == DOMAIN r = RunFields /\ r.pc \in Pcs

\* Every run is idle or a record of RunFields.
Shapes ==
    /\ DOMAIN w = Graphs /\ \A g \in Graphs : w[g] = Idle \/ Run(w[g])
    /\ DOMAIN graphs = Graphs /\ \A g \in Graphs : DOMAIN graphs[g] = GraphFields

LEMMA IdleIsNoRun == \A r : DOMAIN r = RunFields => r # Idle
<1>1. DOMAIN Idle = {"pc"}
  BY DEF Idle
<1>2. "gen" \in RunFields
  BY DEF RunFields
<1> QED
  BY <1>1, <1>2

LEMMA RunsFacts ==
    ASSUME Shapes, NEW g \in Graphs, w[g].pc # "idle"
    PROVE  Run(w[g]) /\ DOMAIN w[g] = RunFields
<1>1. Idle.pc = "idle"
  BY DEF Idle
<1> QED
  BY <1>1 DEF Shapes, Run

-----------------------------------------------------------------------------
(* What a step does to the run of g and to the Graph.                      *)

\* The run of g goes on, with some of its fields changed; the others stay.
Moves(g, F, pcs) ==
    /\ DOMAIN w' = Graphs /\ \A h \in Graphs \ {g} : w'[h] = w[h]
    /\ Edited(w[g], w'[g], F) /\ w'[g].pc \in pcs

\* The run of g is over.
Stops(g) == DOMAIN w' = Graphs /\ w'[g] = Idle /\ \A h \in Graphs \ {g} : w'[h] = w[h]

\* Only these fields of g's Graph are written, and nothing is taken from the queue.
Writes(g, G) ==
    /\ DOMAIN graphs' = Graphs /\ \A h \in Graphs \ {g} : graphs'[h] = graphs[h]
    /\ DOMAIN graphs'[g] = GraphFields
    /\ \A f \in GraphFields \ G : graphs'[g][f] = graphs[g][f]
    /\ queue \subseteq queue'

LEMMA GoMoves ==
    ASSUME Shapes, NEW g \in Graphs, NEW r, NEW F, NEW pcs,
           Go(g, r), Edited(w[g], r, F), r.pc \in pcs
    PROVE  Moves(g, F, pcs) /\ w'[g] = r
BY DEF Go, Shapes, Moves

LEMMA MovesMore ==
    ASSUME NEW g, NEW F, NEW pcs, NEW more, Moves(g, F, pcs), pcs \subseteq more
    PROVE  Moves(g, F, more)
BY DEF Moves

LEMMA GoIdleStops ==
    ASSUME Shapes, NEW g \in Graphs, Go(g, Idle)
    PROVE  Stops(g)
BY DEF Go, Shapes, Stops

LEMMA Untouched ==
    ASSUME Shapes, NEW g \in Graphs, NEW G, UNCHANGED graphs, queue \subseteq queue'
    PROVE  Writes(g, G)
BY DEF Shapes, Writes

LEMMA GraphWritten ==
    ASSUME Shapes, NEW g \in Graphs, NEW G, NEW new, NEW reply, WriteGraph(g, new, reply),
           DOMAIN new = GraphFields, \A f \in GraphFields \ G : new[f] = graphs[g][f]
    PROVE  Writes(g, G)
BY DEF Shapes, Writes, WriteGraph

\* What Return changes.
Ended == {"pc", "cond", "err"}

LEMMA FailMoves ==
    ASSUME Shapes, NEW g \in Graphs, NEW r, NEW F, NEW cond, Return(g, r, cond, TRUE),
           Edited(w[g], r, F), Ended \subseteq F
    PROVE  /\ Moves(g, F, {"status"})
           /\ w'[g].pc = "status" /\ w'[g].cond = cond /\ w'[g].err = TRUE
<1> DEFINE s == [r EXCEPT !.pc = "status", !.cond = cond, !.err = TRUE]
<1>1. /\ Edited(r, s, Ended) /\ s.pc = "status" /\ s.cond = cond /\ s.err = TRUE
  BY DEF Edited, RunFields, Ended
<1>2. Go(g, s)
  BY DEF Return
<1> HIDE DEF s
<1>3. Edited(w[g], s, F)
  BY <1>1 DEF Edited
<1> QED
  BY <1>1, <1>2, <1>3, GoMoves

LEMMA SettleMoves ==
    ASSUME Shapes, NEW g \in Graphs, NEW r, NEW F, NEW cond, Return(g, r, cond, FALSE),
           Edited(w[g], r, F), Ended \subseteq F
    PROVE  /\ Moves(g, F, {"status"})
           /\ w'[g].pc = "status" /\ w'[g].cond = cond /\ w'[g].err = FALSE
<1> DEFINE s == [r EXCEPT !.pc = "status", !.cond = cond, !.err = FALSE]
<1>1. /\ Edited(r, s, Ended) /\ s.pc = "status" /\ s.cond = cond /\ s.err = FALSE
  BY DEF Edited, RunFields, Ended
<1>2. Go(g, s)
  BY DEF Return
<1> HIDE DEF s
<1>3. Edited(w[g], s, F)
  BY <1>1 DEF Edited
<1> QED
  BY <1>1, <1>2, <1>3, GoMoves

-----------------------------------------------------------------------------
(* The actions of a reconcile.                                             *)

LEMMA CompileStartFacts ==
    ASSUME Shapes, NEW g \in Graphs, CompileStart(g)
    PROVE  /\ w[g].pc = "compile" /\ Writes(g, {})
           /\ Moves(g, {"pc", "ep", "read"}, {"intent", "compiling"})
<1>0. w[g].pc = "compile" /\ UNCHANGED <<graphs, queue>>
  BY DEF CompileStart
<1>a. DOMAIN w[g] = RunFields
  BY <1>0, RunsFacts
<1>1. CASE Step(g, "intent")
  <2> DEFINE s == [w[g] EXCEPT !.pc = "intent"]
  <2>1. Edited(w[g], s, {"pc", "ep", "read"}) /\ s.pc = "intent" /\ Go(g, s)
    BY <1>a, <1>1 DEF Edited, RunFields, Step
  <2> HIDE DEF s
  <2> QED
    BY <1>0, <2>1, GoMoves, Untouched
<1>2. ASSUME NEW read, Go(g, [w[g] EXCEPT !.pc = "compiling", !.ep = epochs[g], !.read = read])
      PROVE  Moves(g, {"pc", "ep", "read"}, {"intent", "compiling"})
  <2> DEFINE s == [w[g] EXCEPT !.pc = "compiling", !.ep = epochs[g], !.read = read]
  <2>1. Edited(w[g], s, {"pc", "ep", "read"}) /\ s.pc = "compiling"
    BY <1>a DEF Edited, RunFields
  <2> HIDE DEF s
  <2>2. Go(g, s)
    BY <1>2 DEF s
  <2> QED
    BY <2>1, <2>2, GoMoves
<1> QED
  BY <1>0, <1>1, <1>2, Untouched DEF CompileStart

LEMMA CompileEndFacts ==
    ASSUME Shapes, NEW g \in Graphs, CompileEnd(g)
    PROVE  /\ w[g].pc = "compiling" /\ Writes(g, {})
           /\ Moves(g, Ended, {"status", "intent"})
           /\ w'[g].pc = "status" => w'[g].err = TRUE
<1>0. w[g].pc = "compiling" /\ UNCHANGED <<graphs, queue>>
  BY DEF CompileEnd
<1>a. DOMAIN w[g] = RunFields
  BY <1>0, RunsFacts
<1>b. Edited(w[g], w[g], Ended)
  BY <1>a DEF Edited
<1>1. CASE Return(g, w[g], "invalid", TRUE)
  <2>1. Moves(g, Ended, {"status"}) /\ w'[g].err = TRUE
    BY <1>b, <1>1, FailMoves
  <2> QED
    BY <1>0, <2>1, MovesMore, Untouched
<1>2. CASE Step(g, "intent")
  <2> DEFINE s == [w[g] EXCEPT !.pc = "intent"]
  <2>1. Edited(w[g], s, Ended) /\ s.pc = "intent" /\ Go(g, s)
    BY <1>a, <1>2 DEF Edited, RunFields, Ended, Step
  <2> HIDE DEF s
  <2>2. Moves(g, Ended, {"status", "intent"}) /\ w'[g] = s
    BY <2>1, GoMoves
  <2> QED
    BY <1>0, <2>1, <2>2, Untouched
<1> QED
  BY <1>0, <1>1, <1>2 DEF CompileEnd

LEMMA WriteAheadManagedFacts ==
    ASSUME Shapes, NEW g \in Graphs, WriteAheadManaged(g)
    PROVE  /\ w[g].pc = "intent" /\ Writes(g, {"managed"})
           /\ Moves(g, Ended \cup {"intent", "managed"}, {"status", "intent2"})
           /\ w'[g].pc = "status" => w'[g].err = TRUE
<1> DEFINE intent == unionManagedResources(w[g].prev, intendedManagedResources(Nodes(g), w[g].val))
           union == unionManagedResources(graphs[g].managed, intent)
           r == [w[g] EXCEPT !.intent = intent]
           s == [r EXCEPT !.pc = "intent2", !.managed = union]
           t == [r EXCEPT !.managed = union]
           u == [r EXCEPT !.pc = "intent2"]
           F == Ended \cup {"intent", "managed"}
           new == [graphs[g] EXCEPT !.managed = union]
<1>0. w[g].pc = "intent"
  BY DEF WriteAheadManaged
<1>1. \/ \E reply \in Replies :
            WriteGraph(g, new, reply) /\ (Go(g, s) \/ Return(g, t, "failed", TRUE))
      \/ Go(g, u) /\ UNCHANGED <<graphs, queue, left>>
  BY DEF WriteAheadManaged
<1>2. DOMAIN w[g] = RunFields /\ DOMAIN graphs[g] = GraphFields
  BY <1>0, RunsFacts DEF Shapes
<1> HIDE DEF intent, union
<1>3. /\ Edited(w[g], s, F) /\ s.pc = "intent2" /\ Edited(w[g], t, F)
      /\ Edited(w[g], u, F) /\ u.pc = "intent2" /\ Ended \subseteq F
  BY <1>2 DEF Edited, RunFields, Ended
<1>4. DOMAIN new = GraphFields /\ \A f \in GraphFields \ {"managed"} : new[f] = graphs[g][f]
  BY <1>2 DEF GraphFields
<1> HIDE DEF r, s, t, u, new, F
<1>5. Writes(g, {"managed"})
  BY <1>1, <1>4, GraphWritten, Untouched
<1>6. CASE Go(g, s)
  <2>1. Moves(g, F, {"status", "intent2"}) /\ w'[g] = s
    BY <1>3, <1>6, GoMoves
  <2> QED
    BY <1>0, <1>3, <1>5, <2>1 DEF F
<1>7. CASE Return(g, t, "failed", TRUE)
  <2>1. Moves(g, F, {"status"}) /\ w'[g].err = TRUE
    BY <1>3, <1>7, FailMoves
  <2> QED
    BY <1>0, <1>5, <2>1, MovesMore DEF F
<1>8. CASE Go(g, u)
  <2>1. Moves(g, F, {"status", "intent2"}) /\ w'[g] = u
    BY <1>3, <1>8, GoMoves
  <2> QED
    BY <1>0, <1>3, <1>5, <2>1 DEF F
<1> QED
  BY <1>1, <1>6, <1>7, <1>8

LEMMA WriteAheadContributionsFacts ==
    ASSUME Shapes, NEW g \in Graphs, WriteAheadContributions(g)
    PROVE  /\ w[g].pc = "intent2" /\ Writes(g, {"contribs"})
           /\ Moves(g, Ended \cup {"contribs"}, {"status", "walk"})
           /\ w'[g].pc = "status" => w'[g].err = TRUE
<1> DEFINE ledger == w[g].prior \union intendedContributions(g, Nodes(g), w[g].val)
           F == Ended \cup {"contribs"}
           new == [graphs[g] EXCEPT !.contribs = ledger]
           s == [w[g] EXCEPT !.pc = "walk", !.contribs = ledger]
           t == [w[g] EXCEPT !.pc = "walk"]
<1>0. w[g].pc = "intent2"
  BY DEF WriteAheadContributions
<1>1. \/ \E reply \in Replies :
            WriteGraph(g, new, reply) /\ (Go(g, s) \/ Return(g, w[g], "failed", TRUE))
      \/ Go(g, t) /\ UNCHANGED <<graphs, queue, left>>
  BY DEF WriteAheadContributions, persistContributions, Step
<1>2. DOMAIN w[g] = RunFields /\ DOMAIN graphs[g] = GraphFields
  BY <1>0, RunsFacts DEF Shapes
<1> HIDE DEF ledger
<1>3. /\ Edited(w[g], s, F) /\ s.pc = "walk" /\ Edited(w[g], w[g], F)
      /\ Edited(w[g], t, F) /\ t.pc = "walk" /\ Ended \subseteq F
  BY <1>2 DEF Edited, RunFields, Ended
<1>4. DOMAIN new = GraphFields /\ \A f \in GraphFields \ {"contribs"} : new[f] = graphs[g][f]
  BY <1>2 DEF GraphFields
<1> HIDE DEF s, t, new, F
<1>5. Writes(g, {"contribs"})
  BY <1>1, <1>4, GraphWritten, Untouched
<1>6. CASE Go(g, s)
  <2>1. Moves(g, F, {"status", "walk"}) /\ w'[g] = s
    BY <1>3, <1>6, GoMoves
  <2> QED
    BY <1>0, <1>3, <1>5, <2>1 DEF F
<1>7. CASE Return(g, w[g], "failed", TRUE)
  <2>1. Moves(g, F, {"status"}) /\ w'[g].err = TRUE
    BY <1>3, <1>7, FailMoves
  <2> QED
    BY <1>0, <1>5, <2>1, MovesMore DEF F
<1>8. CASE Go(g, t)
  <2>1. Moves(g, F, {"status", "walk"}) /\ w'[g] = t
    BY <1>3, <1>8, GoMoves
  <2> QED
    BY <1>0, <1>3, <1>5, <2>1 DEF F
<1> QED
  BY <1>1, <1>6, <1>7, <1>8

LEMMA EnterNodeFacts ==
    ASSUME Shapes, NEW g \in Graphs, EnterNode(g)
    PROVE  /\ w[g].pc = "walk" /\ Writes(g, {})
           /\ Moves(g, {"pc", "i", "unres", "soft", "items", "decl"}, {"walk", "get"})
<1> DEFINE n == NodeAt(g)
           F == {"pc", "i", "unres", "soft", "items", "decl"}
           over == [w[g] EXCEPT !.i = Skip(Nodes(g), @)]
           late == Unresolved(over, n.id, "pending")
           unknown == Unresolved(over, n.id, "notready")
           into == [w[g] EXCEPT !.i = @ + 1]
           decl == IF n.kind = "template" /\ n.coll
                   THEN w[g].decl \union Watching(w[g].user, n.items, TRUE) ELSE w[g].decl
           begun == [w[g] EXCEPT !.pc = "get", !.items = n.items, !.decl = decl]
<1>0. w[g].pc = "walk" /\ UNCHANGED <<graphs, queue>>
  BY DEF EnterNode
<1>1. \E s \in {over, late, unknown, into, begun} : Go(g, s)
  BY DEF EnterNode
<1>2. DOMAIN w[g] = RunFields
  BY <1>0, RunsFacts
<1> HIDE DEF decl, n
<1>3. Edited(w[g], over, F) /\ over.pc = "walk"
  BY <1>0, <1>2 DEF Edited, RunFields
<1>4. Edited(w[g], into, F) /\ into.pc = "walk"
  BY <1>0, <1>2 DEF Edited, RunFields
<1>5. Edited(w[g], begun, F) /\ begun.pc = "get"
  BY <1>0, <1>2 DEF Edited, RunFields
<1> HIDE DEF over, into, begun
<1>6. ASSUME NEW id, NEW err
      PROVE  Edited(w[g], Unresolved(over, id, err), F) /\ Unresolved(over, id, err).pc = "walk"
  <2>1. Edited(over, Unresolved(over, id, err), {"unres", "soft"})
    BY <1>3, UnresolvedEdits DEF Edited
  <2> QED
    BY <1>3, <2>1 DEF Edited, RunFields
<1>7. \A s \in {over, late, unknown, into, begun} : Edited(w[g], s, F) /\ s.pc \in {"walk", "get"}
  BY <1>3, <1>4, <1>5, <1>6
<1> HIDE DEF F, late, unknown
<1> QED
  BY <1>0, <1>1, <1>7, GoMoves, Untouched DEF F

\* The object is applied next, or is done with.
LEMMA GetLiveGoes ==
    ASSUME NEW g \in Graphs, GetLive(g)
    PROVE  \E o \in w[g].items : \E c, d, v, st :
             \/ Go(g, [[w[g] EXCEPT !.claims = c, !.decl = d] EXCEPT
                         !.pc = "apply", !.at = o, !.cur = objs[o]])
             \/ Go(g, ItemDone([w[g] EXCEPT !.claims = c, !.decl = d], NodeAt(g), o, v, st))
BY ZenonT(90) DEF GetLive

LEMMA GetLiveFacts ==
    ASSUME Shapes, NEW g \in Graphs, GetLive(g)
    PROVE  /\ w[g].pc = "get" /\ Writes(g, {})
           /\ Moves(g, ItemFields \cup {"claims", "decl"}, {"apply", "get", "walk"})
<1> DEFINE n == NodeAt(g)
           F == ItemFields \cup {"claims", "decl"}
           r(c, d) == [w[g] EXCEPT !.claims = c, !.decl = d]
<1>0. w[g].pc = "get" /\ UNCHANGED <<graphs, queue>>
  BY DEF GetLive
<1>1. \E c, d, o, v, st :
         \/ Go(g, [r(c, d) EXCEPT !.pc = "apply", !.at = o, !.cur = objs[o]])
         \/ Go(g, ItemDone(r(c, d), n, o, v, st))
  BY GetLiveGoes
<1>2. DOMAIN w[g] = RunFields
  BY <1>0, RunsFacts
<1>3. PICK c, d, o, v, st :
         \/ Go(g, [r(c, d) EXCEPT !.pc = "apply", !.at = o, !.cur = objs[o]])
         \/ Go(g, ItemDone(r(c, d), n, o, v, st))
  BY <1>1
<1> DEFINE x == r(c, d)
<1>4. Edited(w[g], x, {"claims", "decl"})
  BY <1>2 DEF Edited, RunFields
<1> HIDE DEF x, n
<1> DEFINE y == [x EXCEPT !.pc = "apply", !.at = o, !.cur = objs[o]]
           z == ItemDone(x, n, o, v, st)
<1>5. Edited(x, y, ItemFields) /\ y.pc = "apply"
  BY <1>4 DEF Edited, RunFields, ItemFields
<1>6. Edited(x, z, ItemFields) /\ z.pc \in {"get", "walk"}
  BY <1>4, ItemDoneEdits DEF Edited
<1>7. Go(g, y) \/ Go(g, z)
  BY <1>3 DEF x
<1> HIDE DEF y, z
<1>8. Edited(w[g], y, F) /\ Edited(w[g], z, F)
  BY <1>4, <1>5, <1>6 DEF Edited
<1> HIDE DEF F
<1> QED
  BY <1>0, <1>5, <1>6, <1>7, <1>8, GoMoves, Untouched DEF F

LEMMA LandedEdits ==
    ASSUME NEW g, NEW r, DOMAIN r = RunFields, NEW n, NEW o, NEW uid
    PROVE  Edited(r, Landed(g, r, n, o, uid), {"applied", "contr"})
BY DEF Edited, RunFields, Landed

LEMMA ApplyObjectFacts ==
    ASSUME Shapes, NEW g \in Graphs, NEW force \in BOOLEAN, ApplyObject(g, force)
    PROVE  /\ w[g].pc \in {"apply", "force"} /\ Writes(g, {})
           /\ Moves(g, ItemFields \cup {"applied", "contr"}, {"force", "get", "walk"})
<1> DEFINE n == NodeAt(g)
           o == w[g].at
           F == ItemFields \cup {"applied", "contr"}
           forced == [w[g] EXCEPT !.pc = "force"]
<1>0. w[g].pc \in {"apply", "force"} /\ UNCHANGED graphs /\ queue \subseteq queue'
  BY DEF ApplyObject, SetObject
<1>1. \/ Go(g, forced)
      \/ \E v, st : Go(g, ItemDone(w[g], n, o, v, st))
      \/ \E uid, v, st : Go(g, ItemDone(Landed(g, w[g], n, o, uid), n, o, v, st))
  BY DEF ApplyObject, Failed, Step
<1>2. DOMAIN w[g] = RunFields
  BY <1>0, RunsFacts
<1> HIDE DEF n, o
<1>3. CASE Go(g, forced)
  <2>1. Edited(w[g], forced, F) /\ forced.pc = "force"
    BY <1>2 DEF Edited, RunFields, ItemFields
  <2> HIDE DEF F, forced
  <2> QED
    BY <1>0, <1>3, <2>1, GoMoves, Untouched DEF F
<1>4. ASSUME NEW r, NEW v, NEW st, Edited(w[g], r, {"applied", "contr"}),
             Go(g, ItemDone(r, n, o, v, st))
      PROVE  Moves(g, F, {"force", "get", "walk"})
  <2> DEFINE s == ItemDone(r, n, o, v, st)
  <2>1. Edited(r, s, ItemFields) /\ s.pc \in {"get", "walk"}
    BY <1>4, ItemDoneEdits DEF Edited
  <2>2. Go(g, s)
    BY <1>4
  <2> HIDE DEF s
  <2>3. Edited(w[g], s, F)
    BY <1>4, <2>1 DEF Edited
  <2> HIDE DEF F
  <2> QED
    BY <2>1, <2>2, <2>3, GoMoves
<1>5. Edited(w[g], w[g], {"applied", "contr"})
  BY <1>2 DEF Edited
<1>6. \A uid : Edited(w[g], Landed(g, w[g], n, o, uid), {"applied", "contr"})
  BY <1>2, LandedEdits
<1> HIDE DEF F, forced
<1>7. CASE \E v, st : Go(g, ItemDone(w[g], n, o, v, st))
  <2>1. PICK v, st : Go(g, ItemDone(w[g], n, o, v, st))
    BY <1>7
  <2> QED
    BY <1>0, <1>4, <1>5, <2>1, Untouched DEF F
<1>8. CASE \E uid, v, st : Go(g, ItemDone(Landed(g, w[g], n, o, uid), n, o, v, st))
  <2>1. PICK uid, v, st : Go(g, ItemDone(Landed(g, w[g], n, o, uid), n, o, v, st))
    BY <1>8
  <2> QED
    BY <1>0, <1>4, <1>6, <2>1, Untouched DEF F
<1> QED
  BY <1>1, <1>3, <1>7, <1>8

FinishFields == Ended \cup {"sa", "newSet", "todo", "managed", "contribs"}

LEMMA FinishFacts ==
    ASSUME Shapes, NEW g \in Graphs, Finish(g)
    PROVE  /\ w[g].pc = "walk" /\ Writes(g, {"contribs"})
           /\ Moves(g, FinishFields, {"status", "prune"})
           /\ w'[g].pc = "status" => w'[g].err = TRUE
           /\ w'[g].pc = "prune" /\ w'[g].soft = None => w'[g].cond = "ok"
<1> DEFINE diff == diffManagedResources(w[g].prev, w[g].applied, w[g].unres)
           retained == w[g].contribs \union w[g].contr
           cond == IF hardErr(g) THEN "failed" ELSE IF w[g].soft = None THEN "ok" ELSE w[g].soft
           record == ~hardErr(g) \/ (w[g].sa = None /\ (DOMAIN w[g].applied # {} \/ w[g].contr # {}))
           sa == IF record THEN w[g].user ELSE w[g].sa
           r == [w[g] EXCEPT !.cond = cond, !.sa = sa, !.newSet = diff.newSet, !.todo = diff.prune]
           wide == [r EXCEPT !.managed = superset(g)]
           failed == [wide EXCEPT !.contribs = retained]
           prune == [r EXCEPT !.pc = "prune", !.contribs = retained]
           new == [graphs[g] EXCEPT !.contribs = retained]
<1>0. w[g].pc = "walk"
  BY DEF Finish
<1>1. /\ \/ UNCHANGED <<graphs, queue, left>>
         \/ \E reply \in Replies : WriteGraph(g, new, reply)
      /\ \/ Return(g, failed, cond, TRUE) \/ Return(g, wide, "failed", TRUE)
         \/ ~hardErr(g) /\ Go(g, prune)
  BY DEF Finish, persistContributions
<1>2. DOMAIN w[g] = RunFields /\ DOMAIN graphs[g] = GraphFields
  BY <1>0, RunsFacts DEF Shapes
<1>c. ~hardErr(g) /\ w[g].soft = None => cond = "ok"
  OBVIOUS
<1> HIDE DEF diff, retained, cond, sa
<1>3. Edited(w[g], r, FinishFields) /\ r.cond = cond
  BY <1>2 DEF Edited, RunFields, FinishFields, Ended
<1> HIDE DEF r
<1>4. Edited(w[g], wide, FinishFields)
  BY <1>3 DEF Edited, RunFields, FinishFields, Ended
<1> HIDE DEF wide
<1>5. Edited(w[g], failed, FinishFields)
  BY <1>4 DEF Edited, RunFields, FinishFields, Ended
<1>6. Edited(w[g], prune, FinishFields) /\ prune.pc = "prune" /\ prune.cond = cond
      /\ prune.soft = w[g].soft
  BY <1>3 DEF Edited, RunFields, FinishFields, Ended
<1>7. DOMAIN new = GraphFields /\ \A f \in GraphFields \ {"contribs"} : new[f] = graphs[g][f]
  BY <1>2 DEF GraphFields
<1> HIDE DEF failed, prune, new
<1>8. Writes(g, {"contribs"}) /\ Ended \subseteq FinishFields
  BY <1>1, <1>7, GraphWritten, Untouched DEF FinishFields
<1>9. ASSUME NEW x, NEW c, Return(g, x, c, TRUE), Edited(w[g], x, FinishFields)
      PROVE  Moves(g, FinishFields, {"status", "prune"}) /\ w'[g].pc = "status" /\ w'[g].err = TRUE
  <2>1. Moves(g, FinishFields, {"status"}) /\ w'[g].pc = "status" /\ w'[g].err = TRUE
    BY <1>8, <1>9, FailMoves
  <2> QED
    BY <2>1, MovesMore
<1>10. CASE ~hardErr(g) /\ Go(g, prune)
  <2>1. Moves(g, FinishFields, {"status", "prune"}) /\ w'[g] = prune
    BY <1>6, <1>10, GoMoves
  <2> QED
    BY <1>0, <1>6, <1>8, <1>10, <1>c, <2>1
<1> QED
  BY <1>0, <1>1, <1>4, <1>5, <1>8, <1>9, <1>10

DeleteFields == {"todo", "err", "at", "cur", "pc"}

\* The phase of a deletion: that of a prune, or that of a teardown.
Phase(pc) == IF pc \in {"prune", "pruning"} THEN {"prune", "pruning"} ELSE {"delete", "deleting"}

LEMMA DropEdits ==
    ASSUME NEW r, DOMAIN r = RunFields, NEW o, NEW failed
    PROVE  /\ Edited(r, Drop(r, o, failed), DeleteFields)
           /\ Drop(r, o, failed).pc \in Phase(r.pc)
<1> DEFINE e == r.err \/ failed
           t == [x \in DOMAIN r.todo \ {o} |-> r.todo[x]]
           p == IF r.pc \in {"prune", "pruning"} THEN "prune" ELSE "delete"
           s == [r EXCEPT !.todo = t, !.err = e, !.at = None, !.cur = NoObject, !.pc = p]
<1>1. Drop(r, o, failed) = s
  BY DEF Drop
<1>2. p \in Phase(r.pc)
  BY DEF Phase
<1> HIDE DEF e, t, p
<1>3. Edited(r, s, DeleteFields) /\ s.pc = p
  BY DEF Edited, RunFields, DeleteFields
<1> QED
  BY <1>1, <1>2, <1>3

LEMMA DeleteEntryFacts ==
    ASSUME Shapes, NEW g \in Graphs, DeleteEntry(g)
    PROVE  /\ w[g].pc \in {"prune", "delete"} /\ Writes(g, {})
           /\ Moves(g, DeleteFields, Phase(w[g].pc))
<1>0. w[g].pc \in {"prune", "delete"} /\ UNCHANGED graphs /\ queue \subseteq queue'
  BY DEF DeleteEntry, SetObject
<1> DEFINE pc == IF w[g].pc = "prune" THEN "pruning" ELSE "deleting"
           s(o) == [w[g] EXCEPT !.at = o, !.cur = objs[o], !.pc = pc]
<1>1. \E o : Go(g, s(o)) \/ \E failed : Go(g, Drop(w[g], o, failed))
  BY DEF DeleteEntry
<1>2. DOMAIN w[g] = RunFields
  BY <1>0, RunsFacts
<1>3. pc \in Phase(w[g].pc)
  BY <1>0 DEF Phase
<1> HIDE DEF pc
<1>4. PICK o : Go(g, s(o)) \/ \E failed : Go(g, Drop(w[g], o, failed))
  BY <1>1
<1>5. CASE Go(g, s(o))
  <2> DEFINE r == s(o)
  <2>1. Edited(w[g], r, DeleteFields) /\ r.pc = pc /\ Go(g, r)
    BY <1>2, <1>5 DEF Edited, RunFields, DeleteFields
  <2> HIDE DEF r
  <2> QED
    BY <1>0, <1>3, <2>1, GoMoves, Untouched
<1>6. CASE \E failed : Go(g, Drop(w[g], o, failed))
  <2>1. PICK failed : Go(g, Drop(w[g], o, failed))
    BY <1>6
  <2> DEFINE r == Drop(w[g], o, failed)
  <2>2. Edited(w[g], r, DeleteFields) /\ r.pc \in Phase(w[g].pc) /\ Go(g, r)
    BY <1>2, <2>1, DropEdits
  <2> HIDE DEF r
  <2> QED
    BY <1>0, <2>2, GoMoves, Untouched
<1> QED
  BY <1>4, <1>5, <1>6

LEMMA DeleteCheckedFacts ==
    ASSUME Shapes, NEW g \in Graphs, DeleteChecked(g)
    PROVE  /\ w[g].pc \in {"pruning", "deleting"} /\ Writes(g, {})
           /\ Moves(g, DeleteFields, Phase(w[g].pc))
<1>0. w[g].pc \in {"pruning", "deleting"} /\ UNCHANGED graphs /\ queue \subseteq queue'
  BY DEF DeleteChecked, SetObject
<1>1. \E o, failed : Go(g, Drop(w[g], o, failed))
  BY DEF DeleteChecked
<1>2. DOMAIN w[g] = RunFields
  BY <1>0, RunsFacts
<1>3. PICK o, failed : Go(g, Drop(w[g], o, failed))
  BY <1>1
<1> DEFINE r == Drop(w[g], o, failed)
<1>4. Edited(w[g], r, DeleteFields) /\ r.pc \in Phase(w[g].pc) /\ Go(g, r)
  BY <1>2, <1>3, DropEdits
<1> HIDE DEF r
<1> QED
  BY <1>0, <1>4, GoMoves, Untouched

LEMMA EndPruneFacts ==
    ASSUME Shapes, NEW g \in Graphs, EndPrune(g)
    PROVE  /\ w[g].pc = "prune" /\ Writes(g, {})
           /\ Moves(g, Ended \cup {"managed", "rel"}, {"status", "release"})
           /\ w'[g].pc = "status" => w'[g].err = TRUE
           /\ w'[g].pc = "release" => w[g].soft = None /\ w'[g].cond = w[g].cond
<1> DEFINE F == Ended \cup {"managed", "rel"}
           x(m) == [w[g] EXCEPT !.managed = m]
           rel == w[g].prior \ w[g].contr
           y == [w[g] EXCEPT !.pc = "release", !.managed = w[g].newSet, !.rel = rel]
<1>0. w[g].pc = "prune" /\ UNCHANGED <<graphs, queue>>
  BY DEF EndPrune
<1>1. \/ \E m, c : Return(g, x(m), c, TRUE)
      \/ w[g].soft = None /\ Go(g, y)
  BY DEF EndPrune
<1>2. DOMAIN w[g] = RunFields
  BY <1>0, RunsFacts
<1>3. \A m : Edited(w[g], x(m), F)
  BY <1>2 DEF Edited, RunFields
<1> HIDE DEF x, rel
<1>4. Edited(w[g], y, F) /\ y.pc = "release" /\ y.cond = w[g].cond /\ Ended \subseteq F
  BY <1>2 DEF Edited, RunFields, Ended
<1> HIDE DEF y, F
<1>5. CASE \E m, c : Return(g, x(m), c, TRUE)
  <2>1. PICK m, c : Return(g, x(m), c, TRUE)
    BY <1>5
  <2>2. Moves(g, F, {"status"}) /\ w'[g].pc = "status" /\ w'[g].err = TRUE
    BY <1>3, <1>4, <2>1, FailMoves
  <2> QED
    BY <1>0, <2>2, MovesMore, Untouched DEF F
<1>6. CASE w[g].soft = None /\ Go(g, y)
  <2>1. Moves(g, F, {"status", "release"}) /\ w'[g] = y
    BY <1>4, <1>6, GoMoves
  <2> QED
    BY <1>0, <1>4, <1>6, <2>1, Untouched DEF F
<1> QED
  BY <1>1, <1>5, <1>6

LEMMA EndDeleteFacts ==
    ASSUME Shapes, NEW g \in Graphs, EndDelete(g)
    PROVE  /\ w[g].pc = "delete" /\ Writes(g, {})
           /\ Moves(g, Ended, {"status", "unlink"})
           /\ w'[g].pc = "status" => w'[g].err = TRUE
<1>0. w[g].pc = "delete" /\ UNCHANGED <<graphs, queue>>
  BY DEF EndDelete
<1>a. DOMAIN w[g] = RunFields
  BY <1>0, RunsFacts
<1>b. Edited(w[g], w[g], Ended)
  BY <1>a DEF Edited
<1>1. CASE Return(g, w[g], "delete", TRUE)
  <2>1. Moves(g, Ended, {"status"}) /\ w'[g].err = TRUE
    BY <1>b, <1>1, FailMoves
  <2> QED
    BY <1>0, <2>1, MovesMore, Untouched
<1>2. CASE Step(g, "unlink")
  <2> DEFINE s == [w[g] EXCEPT !.pc = "unlink"]
  <2>1. Edited(w[g], s, Ended) /\ s.pc = "unlink" /\ Go(g, s)
    BY <1>a, <1>2 DEF Edited, RunFields, Ended, Step
  <2> HIDE DEF s
  <2>2. Moves(g, Ended, {"status", "unlink"}) /\ w'[g] = s
    BY <2>1, GoMoves
  <2> QED
    BY <1>0, <2>1, <2>2, Untouched
<1> QED
  BY <1>0, <1>1, <1>2 DEF EndDelete

ReleaseFields == Ended \cup {"rel", "at"}

\* The steps of a release: after a clean apply, or of a teardown.
Releasing(pc) == IF pc \in {"release", "releasing"} THEN {"release", "releasing"}
                 ELSE {"unlink", "unlinking"}

LEMMA ReleaseGetFacts ==
    ASSUME Shapes, NEW g \in Graphs, ReleaseGet(g)
    PROVE  /\ w[g].pc \in {"release", "unlink"} /\ Writes(g, {})
           /\ Moves(g, ReleaseFields, Releasing(w[g].pc) \cup {"status"})
           /\ w'[g].pc = "status" => w'[g].err = TRUE
           /\ w'[g].pc # "status" => w'[g].cond = w[g].cond
<1> DEFINE pc == IF w[g].pc = "release" THEN "releasing" ELSE "unlinking"
           x(c) == [w[g] EXCEPT !.rel = @ \ {c}]
           y(c) == [w[g] EXCEPT !.at = c, !.pc = pc]
<1>0. w[g].pc \in {"release", "unlink"} /\ UNCHANGED <<graphs, queue>>
  BY DEF ReleaseGet
<1>1. \/ \E d : Return(g, w[g], d, TRUE)
      \/ \E c : Go(g, x(c)) \/ Go(g, y(c))
  BY DEF ReleaseGet, ReleaseFailed
<1>2. DOMAIN w[g] = RunFields
  BY <1>0, RunsFacts
<1>3. /\ {pc, w[g].pc} \subseteq Releasing(w[g].pc) /\ "status" \notin {pc, w[g].pc}
      /\ Ended \subseteq ReleaseFields
  BY <1>0 DEF Releasing, ReleaseFields
<1> HIDE DEF pc
<1>4. ASSUME NEW c
      PROVE  /\ Edited(w[g], x(c), ReleaseFields) /\ x(c).pc = w[g].pc /\ x(c).cond = w[g].cond
             /\ Edited(w[g], y(c), ReleaseFields) /\ y(c).pc = pc /\ y(c).cond = w[g].cond
  BY <1>2 DEF Edited, RunFields, ReleaseFields, Ended
<1> HIDE DEF x, y
<1>5. CASE \E d : Return(g, w[g], d, TRUE)
  <2>1. PICK d : Return(g, w[g], d, TRUE)
    BY <1>5
  <2>2. Edited(w[g], w[g], ReleaseFields)
    BY <1>2 DEF Edited
  <2>3. Moves(g, ReleaseFields, {"status"}) /\ w'[g].pc = "status" /\ w'[g].err = TRUE
    BY <1>3, <2>1, <2>2, FailMoves
  <2> QED
    BY <1>0, <2>3, MovesMore, Untouched
<1>6. CASE \E c : Go(g, x(c)) \/ Go(g, y(c))
  <2>1. PICK c : Go(g, x(c)) \/ Go(g, y(c))
    BY <1>6
  <2>2. /\ Moves(g, ReleaseFields, Releasing(w[g].pc) \cup {"status"})
        /\ w'[g] = x(c) \/ w'[g] = y(c)
    BY <1>3, <1>4, <2>1, GoMoves
  <2> QED
    BY <1>0, <1>3, <1>4, <2>2, Untouched
<1> QED
  BY <1>1, <1>5, <1>6

LEMMA ReleaseApplyFacts ==
    ASSUME Shapes, NEW g \in Graphs, ReleaseApply(g)
    PROVE  /\ w[g].pc \in {"releasing", "unlinking"} /\ Writes(g, {})
           /\ Moves(g, ReleaseFields, Releasing(w[g].pc) \cup {"status"})
           /\ w'[g].pc = "status" => w'[g].err = TRUE
           /\ w'[g].pc # "status" => w'[g].cond = w[g].cond
<1> DEFINE pc == IF w[g].pc = "releasing" THEN "release" ELSE "unlink"
           rel == w[g].rel \ {w[g].at}
           x == [w[g] EXCEPT !.rel = rel, !.at = None, !.pc = pc]
<1>0. w[g].pc \in {"releasing", "unlinking"} /\ UNCHANGED graphs /\ queue \subseteq queue'
  BY DEF ReleaseApply, SetObject
<1>1. (\E d : Return(g, w[g], d, TRUE)) \/ Go(g, x)
  BY DEF ReleaseApply, ReleaseFailed
<1>2. DOMAIN w[g] = RunFields
  BY <1>0, RunsFacts
<1>3. pc \in Releasing(w[g].pc) /\ "status" # pc /\ Ended \subseteq ReleaseFields
  BY <1>0 DEF Releasing, ReleaseFields
<1> HIDE DEF pc, rel
<1>4. Edited(w[g], x, ReleaseFields) /\ x.pc = pc /\ x.cond = w[g].cond
  BY <1>2 DEF Edited, RunFields, ReleaseFields, Ended
<1> HIDE DEF x
<1>5. CASE \E d : Return(g, w[g], d, TRUE)
  <2>1. PICK d : Return(g, w[g], d, TRUE)
    BY <1>5
  <2>2. Edited(w[g], w[g], ReleaseFields)
    BY <1>2 DEF Edited
  <2>3. Moves(g, ReleaseFields, {"status"}) /\ w'[g].pc = "status" /\ w'[g].err = TRUE
    BY <1>3, <2>1, <2>2, FailMoves
  <2> QED
    BY <1>0, <2>3, MovesMore, Untouched
<1>6. CASE Go(g, x)
  <2>1. Moves(g, ReleaseFields, Releasing(w[g].pc) \cup {"status"}) /\ w'[g] = x
    BY <1>3, <1>4, <1>6, GoMoves
  <2> QED
    BY <1>0, <1>3, <1>4, <2>1, Untouched
<1> QED
  BY <1>1, <1>5, <1>6

LEMMA SettleFacts ==
    ASSUME Shapes, NEW g \in Graphs, SettleContributions(g)
    PROVE  /\ w[g].pc = "release" /\ Writes(g, {"contribs"})
           /\ Moves(g, Ended, {"status"})
           /\ w'[g].err = TRUE \/ w'[g].cond = w[g].cond
<1> DEFINE new == [graphs[g] EXCEPT !.contribs = w[g].contr]
<1>0. w[g].pc = "release"
  BY DEF SettleContributions
<1>1. /\ UNCHANGED <<graphs, queue, left>> \/ \E reply \in Replies : WriteGraph(g, new, reply)
      /\ Return(g, w[g], w[g].cond, FALSE) \/ Return(g, w[g], "failed", TRUE)
  BY DEF SettleContributions, persistContributions
<1>2. DOMAIN w[g] = RunFields /\ DOMAIN graphs[g] = GraphFields
  BY <1>0, RunsFacts DEF Shapes
<1>3. DOMAIN new = GraphFields /\ \A f \in GraphFields \ {"contribs"} : new[f] = graphs[g][f]
  BY <1>2 DEF GraphFields
<1> HIDE DEF new
<1>4. Writes(g, {"contribs"})
  BY <1>1, <1>3, GraphWritten, Untouched
<1>5. Edited(w[g], w[g], Ended)
  BY <1>2 DEF Edited
<1>6. CASE Return(g, w[g], w[g].cond, FALSE)
  BY <1>0, <1>4, <1>5, <1>6, SettleMoves
<1>7. CASE Return(g, w[g], "failed", TRUE)
  BY <1>0, <1>4, <1>5, <1>7, FailMoves
<1> QED
  BY <1>1, <1>6, <1>7

LEMMA UpdateStatusFacts ==
    ASSUME Shapes, NEW g \in Graphs, updateStatus(g)
    PROVE  /\ w[g].pc = "status" /\ Writes(g, {"managed", "sa", "cond"}) /\ Stops(g)
           /\ g \notin queue' => /\ w[g].err # TRUE /\ graphs'[g] = graphs[g]
                                 /\ graphs[g].gen = w[g].gen
                                      => graphs[g].cond = [of |-> graphs[g].gen, is |-> w[g].cond]
<1> DEFINE gr == graphs[g]
           sa == IF w[g].sa = None THEN gr.sa ELSE w[g].sa
           more == unionManagedResources(gr.managed, w[g].managed)
           cond == [of |-> gr.gen, is |-> w[g].cond]
           new == IF gr.gen # w[g].gen
                  THEN [gr EXCEPT !.managed = more, !.sa = sa]
                  ELSE [gr EXCEPT !.managed = w[g].managed, !.sa = sa, !.cond = cond]
<1>0. w[g].pc = "status" /\ Go(g, Idle)
  BY DEF updateStatus
<1>1. PICK reply \in Replies :
         /\ graphs' = IF reply = "fail" THEN graphs ELSE [graphs EXCEPT ![g] = new]
         /\ queue' = IF w[g].err \/ reply # "ok" \/ new # gr THEN queue \union {g} ELSE queue
  BY DEF updateStatus
<1>2. DOMAIN gr = GraphFields /\ DOMAIN graphs = Graphs
  BY DEF Shapes
<1> HIDE DEF sa, more
<1>3. /\ DOMAIN new = GraphFields
      /\ \A f \in GraphFields \ {"managed", "sa", "cond"} : new[f] = gr[f]
      /\ gr.gen = w[g].gen => new.cond = cond
  BY <1>2 DEF GraphFields
<1> HIDE DEF new, cond
<1>4. Writes(g, {"managed", "sa", "cond"})
  BY <1>1, <1>2, <1>3 DEF Writes
<1>5. g \notin queue' => w[g].err # TRUE /\ new = gr /\ graphs'[g] = new
  BY <1>1, <1>2
<1> QED
  BY <1>0, <1>3, <1>4, <1>5, GoIdleStops DEF cond

LEMMA SetUnmanagedFacts ==
    ASSUME Shapes, NEW g \in Graphs, setUnmanaged(g)
    PROVE  /\ w[g].pc = "unlink" /\ Writes(g, {"up", "fin", "managed", "contribs", "sa"}) /\ Stops(g)
           /\ g \in queue' \/ ~graphs'[g].up
<1>0. w[g].pc = "unlink" /\ Go(g, Idle)
  BY DEF setUnmanaged
<1>1. PICK reply \in Replies :
         /\ graphs' = IF reply = "fail" THEN graphs ELSE [graphs EXCEPT ![g] = NoGraph(g)]
         /\ queue' = IF reply = "ok" THEN queue ELSE queue \union {g}
  BY DEF setUnmanaged
<1>2. DOMAIN graphs[g] = GraphFields /\ DOMAIN graphs = Graphs
  BY DEF Shapes
<1>3. /\ DOMAIN NoGraph(g) = GraphFields /\ ~NoGraph(g).up
      /\ \A f \in GraphFields \ {"up", "fin", "managed", "contribs", "sa"} :
            NoGraph(g)[f] = graphs[g][f]
  BY <1>2 DEF NoGraph, GraphFields
<1>4. Writes(g, {"up", "fin", "managed", "contribs", "sa"})
  BY <1>1, <1>2, <1>3 DEF Writes
<1>5. g \in queue' \/ ~graphs'[g].up
  BY <1>1, <1>2, <1>3
<1> QED
  BY <1>0, <1>4, <1>5, GoIdleStops

LEMMA SetManagedFacts ==
    ASSUME Shapes, NEW g \in Graphs, setManaged(g)
    PROVE  /\ w[g].pc = "manage" /\ Writes(g, {"fin"}) /\ g \in queue'
           /\ \/ Stops(g)
              \/ /\ Moves(g, Ended, {"status", "compile"})
                 /\ w'[g].pc = "status" => w'[g].cond = "invalid" /\ w[g].user = KroUser
<1>0. w[g].pc = "manage" /\ g \in queue' /\ queue \subseteq queue'
  BY DEF setManaged
<1>1. \/ Go(g, Idle)
      \/ w[g].user = KroUser /\ Return(g, w[g], "invalid", FALSE)
      \/ Step(g, "compile")
  BY DEF setManaged, impersonatesControllerSelf
<1>2. DOMAIN w[g] = RunFields /\ DOMAIN graphs[g] = GraphFields /\ DOMAIN graphs = Graphs
  BY <1>0, RunsFacts DEF Shapes
<1>3. graphs' = graphs \/ graphs' = [graphs EXCEPT ![g].fin = TRUE]
  BY DEF setManaged
<1>4. Writes(g, {"fin"})
  BY <1>0, <1>2, <1>3 DEF Writes, GraphFields
<1>5. Edited(w[g], w[g], Ended)
  BY <1>2 DEF Edited
<1>6. CASE Go(g, Idle)
  BY <1>0, <1>4, <1>6, GoIdleStops
<1>7. CASE w[g].user = KroUser /\ Return(g, w[g], "invalid", FALSE)
  <2>1. Moves(g, Ended, {"status"}) /\ w'[g].cond = "invalid"
    BY <1>5, <1>7, SettleMoves
  <2> QED
    BY <1>0, <1>4, <1>7, <2>1, MovesMore
<1>8. CASE Step(g, "compile")
  <2> DEFINE s == [w[g] EXCEPT !.pc = "compile"]
  <2>1. Edited(w[g], s, Ended) /\ s.pc = "compile" /\ Go(g, s)
    BY <1>2, <1>8 DEF Edited, RunFields, Ended, Step
  <2> HIDE DEF s
  <2>2. Moves(g, Ended, {"status", "compile"}) /\ w'[g] = s
    BY <2>1, GoMoves
  <2> QED
    BY <1>0, <1>4, <2>1, <2>2
<1> QED
  BY <1>1, <1>6, <1>7, <1>8

\* The books of a new run are those of the Graph as it is stored.
Opened(g, r) ==
    /\ r.managed = graphs[g].managed /\ r.prev = graphs[g].managed /\ r.intent = graphs[g].managed
    /\ r.contribs = graphs[g].contribs /\ r.prior = graphs[g].contribs
    /\ r.applied = <<>> /\ r.newSet = <<>> /\ r.contr = {} /\ r.i = 1
    /\ r.todo = <<>> \/ r.todo = graphs[g].managed

\* A new run, of the generation that is stored.
Starts(g) ==
    /\ DOMAIN w' = Graphs /\ \A h \in Graphs \ {g} : w'[h] = w[h]
    /\ DOMAIN w'[g] = RunFields
    /\ w'[g].gen = graphs[g].gen /\ w'[g].ver = graphs[g].ver /\ Opened(g, w'[g])
    /\ IF graphs[g].deleting THEN w'[g].pc = "delete"
       ELSE /\ w'[g].user = specOf(g, graphs[g].ver).sa
            /\ \/ w'[g].pc \in {"manage", "compile"}
               \/ w'[g].pc = "status" /\ w'[g].cond = "invalid" /\ w'[g].user = KroUser

LEMMA BeginFacts ==
    ASSUME Shapes, NEW g \in Graphs, Begin(g)
    PROVE  /\ w[g] = Idle /\ queue' = queue \ {g} /\ UNCHANGED graphs
           /\ (~graphs[g].up /\ UNCHANGED w) \/ (graphs[g].up /\ Starts(g))
<1> DEFINE gr == graphs[g]
           val == NoValues(specOf(g, gr.ver).nodes)
           user == specOf(g, gr.ver).sa
           run == [pc |-> "compile", gen |-> gr.gen, ver |-> gr.ver,
                managed |-> gr.managed, prev |-> gr.managed, intent |-> gr.managed,
                contribs |-> gr.contribs, prior |-> gr.contribs, sa |-> gr.sa,
                user |-> user, ep |-> 0, read |-> <<>>,
                i |-> 1, val |-> val, items |-> {},
                res |-> {}, at |-> None, cur |-> NoObject, claims |-> {},
                decl |-> {}, applied |-> <<>>, contr |-> {}, unres |-> {},
                soft |-> None, hard |-> FALSE, todo |-> <<>>, rel |-> {},
                newSet |-> <<>>, cond |-> gr.cond.is, err |-> FALSE]
           cleaner == teardownExecutorFor(gr, user)
           teardown == [run EXCEPT !.pc = "delete", !.todo = gr.managed, !.rel = gr.contribs,
                                   !.user = cleaner]
           manage == [run EXCEPT !.pc = "manage"]
           refused == [run EXCEPT !.pc = "status", !.cond = "invalid", !.err = FALSE]
<1>0. ~Running(g) /\ queue' = queue \ {g} /\ UNCHANGED graphs
  BY DEF Begin
<1>1. \/ ~gr.up /\ UNCHANGED w
      \/ gr.up /\ gr.deleting /\ Go(g, teardown)
      \/ gr.up /\ ~gr.deleting /\ Go(g, manage)
      \/ gr.up /\ ~gr.deleting /\ user = KroUser /\ Go(g, refused)
      \/ gr.up /\ ~gr.deleting /\ Go(g, run)
  BY DEF Begin, Return, impersonatesControllerSelf
<1> HIDE DEF val, user, cleaner
<1>2. DOMAIN run = RunFields /\ run.gen = gr.gen /\ run.ver = gr.ver /\ run.pc = "compile"
      /\ run.user = user
  BY DEF RunFields
<1>a. Opened(g, run)
  BY DEF Opened
<1> HIDE DEF run
<1>3. /\ DOMAIN teardown = RunFields /\ teardown.gen = gr.gen /\ teardown.ver = gr.ver
      /\ teardown.pc = "delete"
      /\ DOMAIN manage = RunFields /\ manage.gen = gr.gen /\ manage.ver = gr.ver
      /\ manage.pc = "manage" /\ manage.user = user
      /\ DOMAIN refused = RunFields /\ refused.gen = gr.gen /\ refused.ver = gr.ver
      /\ refused.pc = "status" /\ refused.user = user /\ refused.cond = "invalid"
  BY <1>2 DEF RunFields
<1>b. Opened(g, teardown) /\ Opened(g, manage) /\ Opened(g, refused)
  BY <1>2, <1>a DEF Opened, RunFields
<1> HIDE DEF teardown, manage, refused
<1>4. ASSUME NEW r, Go(g, r)
      PROVE  DOMAIN w' = Graphs /\ w'[g] = r /\ \A h \in Graphs \ {g} : w'[h] = w[h]
  BY <1>4 DEF Go, Shapes
<1>5. \/ ~gr.up /\ UNCHANGED w
      \/ /\ gr.up /\ DOMAIN w' = Graphs /\ \A h \in Graphs \ {g} : w'[h] = w[h]
         /\ \/ gr.deleting /\ w'[g] = teardown
            \/ ~gr.deleting /\ (w'[g] = manage \/ w'[g] = run \/ (w'[g] = refused /\ user = KroUser))
  BY <1>1, <1>4
<1>6. CASE gr.up /\ Starts(g)
  BY <1>0, <1>6 DEF Running
<1>7. CASE ~gr.up /\ UNCHANGED w
  BY <1>0, <1>7 DEF Running
<1>8. ASSUME gr.up, DOMAIN w' = Graphs, \A h \in Graphs \ {g} : w'[h] = w[h],
             \/ gr.deleting /\ w'[g] = teardown
             \/ ~gr.deleting /\ (w'[g] = manage \/ w'[g] = run \/ (w'[g] = refused /\ user = KroUser))
      PROVE  Starts(g)
  <2>1. CASE gr.deleting /\ w'[g] = teardown
    BY <1>3, <1>8, <1>b, <2>1 DEF Starts
  <2>2. CASE ~gr.deleting /\ w'[g] = manage
    BY <1>3, <1>8, <1>b, <2>2 DEF Starts, user
  <2>3. CASE ~gr.deleting /\ w'[g] = run
    BY <1>2, <1>8, <1>a, <2>3 DEF Starts, user
  <2>4. CASE ~gr.deleting /\ w'[g] = refused /\ user = KroUser
    BY <1>3, <1>8, <1>b, <2>4 DEF Starts, user
  <2> QED
    BY <1>8, <2>1, <2>2, <2>3, <2>4
<1> QED
  BY <1>5, <1>6, <1>7, <1>8

-----------------------------------------------------------------------------
(* No Graph is forgotten.                                                  *)

TeardownPcs == {"delete", "deleting", "unlink", "unlinking"}

\* A verdict that brings nobody back: converged, or refused for good.
Final(g, ver, cond) == cond = "ok" \/ (cond = "invalid" /\ specOf(g, ver).sa = KroUser)

\* A run is about the generation it has read: a newer one is queued behind it,
\* and one that deletes the Graph is torn down.
Follows(g) ==
    /\ w[g].gen \in Nat /\ w[g].gen <= graphs[g].gen
    /\ graphs[g].up /\ w[g].gen # graphs[g].gen => g \in queue
    /\ w[g].gen = graphs[g].gen => w[g].ver = graphs[g].ver
    /\ graphs[g].up /\ graphs[g].deleting /\ w[g].gen = graphs[g].gen
         => w[g].pc \in TeardownPcs \/ (w[g].pc = "status" /\ w[g].err = TRUE)

\* A run that reaches its status without an error has a final verdict.
Verdicts(g) ==
    /\ w[g].pc = "manage" => w[g].user = specOf(g, w[g].ver).sa
    /\ w[g].pc \in {"prune", "pruning"} /\ w[g].soft = None => w[g].cond = "ok"
    /\ w[g].pc \in {"release", "releasing"} => w[g].cond = "ok"
    /\ w[g].pc = "status" => w[g].err = TRUE \/ Final(g, w[g].ver, w[g].cond)

\* NotForgotten, of one Graph.
Attended(g) ==
    graphs[g].up => \/ w[g] # Idle \/ g \in queue
                    \/ /\ ~graphs[g].deleting /\ graphs[g].cond.of = graphs[g].gen
                       /\ Final(g, graphs[g].ver, graphs[g].cond.is)

Tended(g) ==
    /\ graphs[g].gen \in Nat
    /\ w[g] # Idle => Follows(g) /\ Verdicts(g)
    /\ Attended(g)

Attention == Shapes /\ \A g \in Graphs : Tended(g)

\* A Graph that a step does not touch stays tended, if it keeps its place in the queue.
LEMMA TendedStays ==
    ASSUME NEW g \in Graphs, Tended(g), w'[g] = w[g], graphs'[g] = graphs[g], case' = case,
           g \in queue => g \in queue'
    PROVE  Tended(g)'
BY DEF Tended, Follows, Verdicts, Attended, Final, specOf

\* The Graph changes in nothing that its generation covers.
LEMMA MovesTended ==
    ASSUME Attention, NEW g \in Graphs, NEW F, NEW pcs, NEW G, case' = case,
           Moves(g, F, pcs), Writes(g, G), F \cap {"gen", "ver"} = {}, w[g] # Idle,
           G \cap {"up", "gen", "ver", "deleting"} = {}, pcs \subseteq Pcs,
           w[g].pc \in TeardownPcs
             => w'[g].pc \in TeardownPcs \/ (w'[g].pc = "status" /\ w'[g].err = TRUE),
           w[g].pc # "status",
           w'[g].pc # "manage",
           w'[g].pc \in {"prune", "pruning"} /\ w'[g].soft = None => w'[g].cond = "ok",
           w'[g].pc \in {"release", "releasing"} => w'[g].cond = "ok",
           w'[g].pc = "status" => w'[g].err = TRUE \/ Final(g, w[g].ver, w'[g].cond)
    PROVE  Attention'
<1>0. Shapes /\ Tended(g) /\ Follows(g)
  BY DEF Attention, Tended
<1>1. /\ DOMAIN w' = Graphs /\ \A h \in Graphs \ {g} : w'[h] = w[h]
      /\ DOMAIN graphs' = Graphs /\ \A h \in Graphs \ {g} : graphs'[h] = graphs[h]
      /\ queue \subseteq queue' /\ DOMAIN w'[g] = RunFields /\ w'[g].pc \in Pcs
      /\ DOMAIN graphs'[g] = GraphFields
  BY DEF Moves, Writes, Edited
<1>2. Shapes'
  BY <1>0, <1>1 DEF Shapes, Run
<1>3. \A h \in Graphs \ {g} : Tended(h)'
  BY <1>1, TendedStays DEF Attention
<1>4. w'[g].gen = w[g].gen /\ w'[g].ver = w[g].ver
  BY DEF Moves, Edited, RunFields
<1>5. /\ graphs'[g].up = graphs[g].up /\ graphs'[g].gen = graphs[g].gen
      /\ graphs'[g].ver = graphs[g].ver /\ graphs'[g].deleting = graphs[g].deleting
  BY DEF Writes, GraphFields
<1>6. w'[g] # Idle
  BY <1>1, IdleIsNoRun
<1>7. Follows(g)'
  BY <1>0, <1>1, <1>4, <1>5 DEF Follows
<1>8. Verdicts(g)'
  BY <1>4 DEF Verdicts, Final, specOf
<1>9. Tended(g)'
  BY <1>0, <1>5, <1>6, <1>7, <1>8 DEF Tended, Attended
<1> QED
  BY <1>2, <1>3, <1>9 DEF Attention

\* A run that is over leaves a Graph that is queued, gone or final.
LEMMA StopsTended ==
    ASSUME Attention, NEW g \in Graphs, NEW G, case' = case, Stops(g), Writes(g, G),
           G \cap {"gen", "ver"} = {}, Attended(g)'
    PROVE  Attention'
<1>1. /\ DOMAIN w' = Graphs /\ \A h \in Graphs \ {g} : w'[h] = w[h]
      /\ DOMAIN graphs' = Graphs /\ \A h \in Graphs \ {g} : graphs'[h] = graphs[h]
      /\ queue \subseteq queue' /\ w'[g] = Idle /\ DOMAIN graphs'[g] = GraphFields
      /\ graphs'[g].gen = graphs[g].gen
  BY DEF Stops, Writes, GraphFields
<1>2. Shapes'
  BY <1>1 DEF Attention, Shapes
<1>3. \A h \in Graphs \ {g} : Tended(h)'
  BY <1>1, TendedStays DEF Attention
<1>4. Tended(g)'
  BY <1>1 DEF Attention, Tended
<1> QED
  BY <1>2, <1>3, <1>4 DEF Attention

LEMMA ReconcileTended ==
    ASSUME Attention, NEW g \in Graphs, Reconcile(g), case' = case
    PROVE  Attention'
<1>0. Shapes /\ Tended(g)
  BY DEF Attention
<1>i. w[g].pc # "idle" => w[g] # Idle /\ Follows(g) /\ Verdicts(g)
  BY <1>0 DEF Idle, Tended
<1>s. None = "none"
  BY DEF None
<1>1. CASE Begin(g)
  <2>1. /\ w[g] = Idle /\ queue' = queue \ {g} /\ UNCHANGED graphs
        /\ (~graphs[g].up /\ UNCHANGED w) \/ (graphs[g].up /\ Starts(g))
    BY <1>0, <1>1, BeginFacts
  <2>2. CASE ~graphs[g].up /\ UNCHANGED w
    <3>1. Shapes' /\ \A h \in Graphs \ {g} : Tended(h)'
      BY <2>1, <2>2, TendedStays DEF Attention, Shapes
    <3>2. Tended(g)'
      BY <1>0, <2>1, <2>2 DEF Tended, Attended
    <3> QED
      BY <3>1, <3>2 DEF Attention
  <2>3. CASE graphs[g].up /\ Starts(g)
    <3>1. w'[g].pc \in {"delete", "manage", "compile", "status"} /\ DOMAIN w'[g] = RunFields
      BY <2>3 DEF Starts
    <3>2. Shapes' /\ \A h \in Graphs \ {g} : Tended(h)'
      BY <2>1, <2>3, <3>1, TendedStays DEF Attention, Shapes, Starts, Run, Pcs
    <3>3. w'[g] # Idle
      BY <3>1, IdleIsNoRun
    <3>4. Follows(g)'
      BY <1>0, <2>1, <2>3 DEF Follows, Starts, Tended, TeardownPcs
    <3>5. Verdicts(g)'
      BY <2>1, <2>3, <3>1 DEF Verdicts, Starts, Final, specOf
    <3>6. Tended(g)'
      BY <1>0, <2>1, <3>3, <3>4, <3>5 DEF Tended, Attended
    <3> QED
      BY <3>2, <3>6 DEF Attention
  <2> QED
    BY <2>1, <2>2, <2>3
<1>2. CASE CompileStart(g)
  <2>1. /\ w[g].pc = "compile" /\ Writes(g, {}) /\ Moves(g, {"pc", "ep", "read"}, {"intent", "compiling"})
    BY <1>0, <1>2, CompileStartFacts
  <2>2. /\ w'[g].pc \in {"intent", "compiling"} /\ {"intent", "compiling"} \subseteq Pcs
        /\ ({"pc", "ep", "read"}) \cap {"gen", "ver"} = {}
    BY <2>1 DEF Moves, Pcs, Ended, ItemFields, FinishFields
  <2> QED
    BY <1>i, <2>1, <2>2, MovesTended DEF TeardownPcs
<1>3. CASE CompileEnd(g)
  <2>1. /\ w[g].pc = "compiling" /\ Writes(g, {}) /\ Moves(g, Ended, {"status", "intent"})
        /\ w'[g].pc = "status" => w'[g].err = TRUE
    BY <1>0, <1>3, CompileEndFacts
  <2>2. /\ w'[g].pc \in {"status", "intent"} /\ {"status", "intent"} \subseteq Pcs
        /\ (Ended) \cap {"gen", "ver"} = {}
    BY <2>1 DEF Moves, Pcs, Ended, ItemFields, FinishFields
  <2> QED
    BY <1>i, <2>1, <2>2, MovesTended DEF TeardownPcs
<1>4. CASE WriteAheadManaged(g)
  <2>1. /\ w[g].pc = "intent" /\ Writes(g, {"managed"}) /\ Moves(g, Ended \cup {"intent", "managed"}, {"status", "intent2"})
        /\ w'[g].pc = "status" => w'[g].err = TRUE
    BY <1>0, <1>4, WriteAheadManagedFacts
  <2>2. /\ w'[g].pc \in {"status", "intent2"} /\ {"status", "intent2"} \subseteq Pcs
        /\ (Ended \cup {"intent", "managed"}) \cap {"gen", "ver"} = {}
    BY <2>1 DEF Moves, Pcs, Ended, ItemFields, FinishFields
  <2> QED
    BY <1>i, <2>1, <2>2, MovesTended DEF TeardownPcs
<1>5. CASE WriteAheadContributions(g)
  <2>1. /\ w[g].pc = "intent2" /\ Writes(g, {"contribs"}) /\ Moves(g, Ended \cup {"contribs"}, {"status", "walk"})
        /\ w'[g].pc = "status" => w'[g].err = TRUE
    BY <1>0, <1>5, WriteAheadContributionsFacts
  <2>2. /\ w'[g].pc \in {"status", "walk"} /\ {"status", "walk"} \subseteq Pcs
        /\ (Ended \cup {"contribs"}) \cap {"gen", "ver"} = {}
    BY <2>1 DEF Moves, Pcs, Ended, ItemFields, FinishFields
  <2> QED
    BY <1>i, <2>1, <2>2, MovesTended DEF TeardownPcs
<1>6. CASE EnterNode(g)
  <2>1. /\ w[g].pc = "walk" /\ Writes(g, {}) /\ Moves(g, {"pc", "i", "unres", "soft", "items", "decl"}, {"walk", "get"})
    BY <1>0, <1>6, EnterNodeFacts
  <2>2. /\ w'[g].pc \in {"walk", "get"} /\ {"walk", "get"} \subseteq Pcs
        /\ ({"pc", "i", "unres", "soft", "items", "decl"}) \cap {"gen", "ver"} = {}
    BY <2>1 DEF Moves, Pcs, Ended, ItemFields, FinishFields
  <2> QED
    BY <1>i, <2>1, <2>2, MovesTended DEF TeardownPcs
<1>7. CASE GetLive(g)
  <2>1. /\ w[g].pc = "get" /\ Writes(g, {}) /\ Moves(g, ItemFields \cup {"claims", "decl"}, {"apply", "get", "walk"})
    BY <1>0, <1>7, GetLiveFacts
  <2>2. /\ w'[g].pc \in {"apply", "get", "walk"} /\ {"apply", "get", "walk"} \subseteq Pcs
        /\ (ItemFields \cup {"claims", "decl"}) \cap {"gen", "ver"} = {}
    BY <2>1 DEF Moves, Pcs, Ended, ItemFields, FinishFields
  <2> QED
    BY <1>i, <2>1, <2>2, MovesTended DEF TeardownPcs
<1>8. CASE \E force \in BOOLEAN : ApplyObject(g, force)
  <2>1. /\ w[g].pc \in {"apply", "force"} /\ Writes(g, {}) /\ Moves(g, ItemFields \cup {"applied", "contr"}, {"force", "get", "walk"})
    BY <1>0, <1>8, ApplyObjectFacts
  <2>2. /\ w'[g].pc \in {"force", "get", "walk"} /\ {"force", "get", "walk"} \subseteq Pcs
        /\ (ItemFields \cup {"applied", "contr"}) \cap {"gen", "ver"} = {}
    BY <2>1 DEF Moves, Pcs, Ended, ItemFields, FinishFields
  <2> QED
    BY ZenonT(60), <1>i, <2>1, <2>2, MovesTended DEF TeardownPcs
<1>9. CASE Finish(g)
  <2>1. /\ w[g].pc = "walk" /\ Writes(g, {"contribs"}) /\ Moves(g, FinishFields, {"status", "prune"})
        /\ w'[g].pc = "status" => w'[g].err = TRUE
        /\ w'[g].pc = "prune" /\ w'[g].soft = None => w'[g].cond = "ok"
    BY <1>0, <1>9, FinishFacts
  <2>2. /\ w'[g].pc \in {"status", "prune"} /\ {"status", "prune"} \subseteq Pcs
        /\ (FinishFields) \cap {"gen", "ver"} = {}
    BY <2>1 DEF Moves, Pcs, Ended, ItemFields, FinishFields
  <2> QED
    BY ZenonT(60), <1>i, <2>1, <2>2, MovesTended DEF TeardownPcs
<1>10. CASE DeleteEntry(g) \/ DeleteChecked(g)
  <2>1. /\ w[g].pc \in {"prune", "delete", "pruning", "deleting"} /\ Writes(g, {})
        /\ Moves(g, DeleteFields, Phase(w[g].pc))
    BY <1>0, <1>10, DeleteEntryFacts, DeleteCheckedFacts
  <2>2. /\ w'[g].pc \in Phase(w[g].pc) /\ Phase(w[g].pc) \subseteq Pcs
        /\ DeleteFields \cap {"gen", "ver"} = {}
        /\ w'[g].soft = w[g].soft /\ w'[g].cond = w[g].cond
    BY <2>1 DEF Moves, Pcs, Phase, DeleteFields, Edited, RunFields
  <2>3. CASE w[g].pc \in {"prune", "pruning"}
    <3>1. w'[g].pc \in {"prune", "pruning"} /\ (w[g].soft = None => w[g].cond = "ok")
      BY <1>i, <2>2, <2>3 DEF Phase, Verdicts
    <3> QED
      BY <1>i, <2>1, <2>2, <2>3, <3>1, MovesTended DEF TeardownPcs
  <2>4. CASE w[g].pc \in {"delete", "deleting"}
    <3>1. w'[g].pc \in {"delete", "deleting"}
      BY <2>2, <2>4 DEF Phase
    <3> QED
      BY <1>i, <2>1, <2>2, <2>4, <3>1, MovesTended DEF TeardownPcs
  <2> QED
    BY <2>1, <2>3, <2>4
<1>11. CASE EndPrune(g)
  <2>1. /\ w[g].pc = "prune" /\ Writes(g, {})
        /\ Moves(g, Ended \cup {"managed", "rel"}, {"status", "release"})
        /\ w'[g].pc = "status" => w'[g].err = TRUE
        /\ w'[g].pc = "release" => w[g].soft = None /\ w'[g].cond = w[g].cond
    BY <1>0, <1>11, EndPruneFacts
  <2>2. /\ w'[g].pc \in {"status", "release"} /\ {"status", "release"} \subseteq Pcs
        /\ (Ended \cup {"managed", "rel"}) \cap {"gen", "ver"} = {}
    BY <2>1 DEF Moves, Pcs, Ended
  <2>3. w'[g].pc = "release" => w'[g].cond = "ok"
    BY <1>i, <2>1 DEF Verdicts
  <2> QED
    BY <1>i, <2>1, <2>2, <2>3, MovesTended DEF TeardownPcs
<1>12. CASE EndDelete(g)
  <2>1. /\ w[g].pc = "delete" /\ Writes(g, {}) /\ Moves(g, Ended, {"status", "unlink"})
        /\ w'[g].pc = "status" => w'[g].err = TRUE
    BY <1>0, <1>12, EndDeleteFacts
  <2>2. /\ w'[g].pc \in {"status", "unlink"} /\ {"status", "unlink"} \subseteq Pcs
        /\ Ended \cap {"gen", "ver"} = {}
    BY <2>1 DEF Moves, Pcs, Ended
  <2> QED
    BY <1>i, <2>1, <2>2, MovesTended DEF TeardownPcs
<1>13. CASE ReleaseGet(g) \/ ReleaseApply(g)
  <2>1. /\ w[g].pc \in {"release", "unlink", "releasing", "unlinking"} /\ Writes(g, {})
        /\ Moves(g, ReleaseFields, Releasing(w[g].pc) \cup {"status"})
        /\ w'[g].pc = "status" => w'[g].err = TRUE
        /\ w'[g].pc # "status" => w'[g].cond = w[g].cond
    BY <1>0, <1>13, ReleaseGetFacts, ReleaseApplyFacts
  <2>2. /\ w'[g].pc \in Releasing(w[g].pc) \cup {"status"}
        /\ Releasing(w[g].pc) \cup {"status"} \subseteq Pcs
        /\ ReleaseFields \cap {"gen", "ver"} = {}
    BY <2>1 DEF Moves, Pcs, Releasing, ReleaseFields, Ended
  <2>3. CASE w[g].pc \in {"release", "releasing"}
    <3>1. w'[g].pc \in {"release", "releasing", "status"} /\ w[g].cond = "ok"
      BY <1>i, <2>2, <2>3 DEF Releasing, Verdicts
    <3> QED
      BY <1>i, <2>1, <2>2, <2>3, <3>1, MovesTended DEF TeardownPcs
  <2>4. CASE w[g].pc \in {"unlink", "unlinking"}
    <3>1. w'[g].pc \in {"unlink", "unlinking", "status"}
      BY <2>2, <2>4 DEF Releasing
    <3> QED
      BY <1>i, <2>1, <2>2, <2>4, <3>1, MovesTended DEF TeardownPcs
  <2> QED
    BY <2>1, <2>3, <2>4
<1>14. CASE SettleContributions(g)
  <2>1. /\ w[g].pc = "release" /\ Writes(g, {"contribs"}) /\ Moves(g, Ended, {"status"})
        /\ w'[g].err = TRUE \/ w'[g].cond = w[g].cond
    BY <1>0, <1>14, SettleFacts
  <2>2. w'[g].pc = "status" /\ {"status"} \subseteq Pcs /\ Ended \cap {"gen", "ver"} = {}
    BY <2>1 DEF Moves, Pcs, Ended
  <2>3. w'[g].err = TRUE \/ Final(g, w[g].ver, w'[g].cond)
    BY <1>i, <2>1 DEF Verdicts, Final
  <2> QED
    BY <1>i, <2>1, <2>2, <2>3, MovesTended DEF TeardownPcs
<1>15. CASE setManaged(g)
  <2>1. /\ w[g].pc = "manage" /\ Writes(g, {"fin"}) /\ g \in queue'
        /\ \/ Stops(g)
           \/ /\ Moves(g, Ended, {"status", "compile"})
              /\ w'[g].pc = "status" => w'[g].cond = "invalid" /\ w[g].user = KroUser
    BY <1>0, <1>15, SetManagedFacts
  <2>2. CASE Stops(g)
    <3>1. Attended(g)'
      BY <2>1 DEF Attended
    <3> QED
      BY <2>1, <2>2, <3>1, StopsTended
  <2>3. ASSUME Moves(g, Ended, {"status", "compile"}),
               w'[g].pc = "status" => w'[g].cond = "invalid" /\ w[g].user = KroUser
        PROVE  Attention'
    <3>1. /\ w'[g].pc \in {"status", "compile"} /\ {"status", "compile"} \subseteq Pcs
          /\ Ended \cap {"gen", "ver"} = {}
      BY <2>3 DEF Moves, Pcs, Ended
    <3>2. w'[g].pc = "status" => Final(g, w[g].ver, w'[g].cond)
      BY <1>i, <2>1, <2>3 DEF Verdicts, Final
    <3> QED
      BY ZenonT(60), <1>i, <2>1, <2>3, <3>1, <3>2, MovesTended DEF TeardownPcs
  <2> QED
    BY <2>1, <2>2, <2>3
<1>16. CASE updateStatus(g)
  <2>1. /\ w[g].pc = "status" /\ Writes(g, {"managed", "sa", "cond"}) /\ Stops(g)
        /\ g \notin queue' => /\ w[g].err # TRUE /\ graphs'[g] = graphs[g]
                              /\ graphs[g].gen = w[g].gen
                                   => graphs[g].cond = [of |-> graphs[g].gen, is |-> w[g].cond]
    BY <1>0, <1>16, UpdateStatusFacts
  <2>2. Attended(g)'
    <3> SUFFICES ASSUME graphs'[g].up, g \notin queue'
                 PROVE  /\ ~graphs'[g].deleting /\ graphs'[g].cond.of = graphs'[g].gen
                        /\ Final(g, graphs[g].ver, graphs'[g].cond.is)
      BY <2>1 DEF Attended, Final, specOf, Writes, GraphFields
    <3>1. graphs'[g] = graphs[g] /\ w[g].err # TRUE /\ g \notin queue
      BY <2>1 DEF Writes
    <3>2. w[g].gen = graphs[g].gen /\ w[g].ver = graphs[g].ver /\ ~graphs[g].deleting
      BY <1>i, <2>1, <3>1 DEF Follows, TeardownPcs
    <3>3. Final(g, w[g].ver, w[g].cond)
      BY <1>i, <2>1, <3>1 DEF Verdicts
    <3>4. graphs[g].cond.of = graphs[g].gen /\ graphs[g].cond.is = w[g].cond
      BY <2>1, <3>2
    <3> QED
      BY <3>1, <3>2, <3>3, <3>4
  <2> QED
    BY <2>1, <2>2, StopsTended
<1>17. CASE setUnmanaged(g)
  <2>1. /\ w[g].pc = "unlink" /\ Writes(g, {"up", "fin", "managed", "contribs", "sa"}) /\ Stops(g)
        /\ g \in queue' \/ ~graphs'[g].up
    BY <1>0, <1>17, SetUnmanagedFacts
  <2>2. Attended(g)'
    BY <2>1 DEF Attended
  <2> QED
    BY <2>1, <2>2, StopsTended
<1> QED
  BY <1>1, <1>2, <1>3, <1>4, <1>5, <1>6, <1>7, <1>8, <1>9, <1>10, <1>11, <1>12, <1>13, <1>14, <1>15, <1>16, <1>17 DEF Reconcile

LEMMA CaseFixed == ASSUME Next PROVE case' = case
<1>1. ASSUME NEW g \in Graphs, Reconcile(g) PROVE case' = case
  <2>1. CASE Begin(g) \/ setManaged(g) \/ CompileStart(g) \/ CompileEnd(g)
             \/ WriteAheadManaged(g) \/ WriteAheadContributions(g)
    BY <2>1 DEF Begin, setManaged, CompileStart, CompileEnd, WriteAheadManaged,
                WriteAheadContributions
  <2>2. CASE EnterNode(g) \/ GetLive(g) \/ \E force \in BOOLEAN : ApplyObject(g, force)
    BY <2>2 DEF EnterNode, GetLive, ApplyObject
  <2>3. CASE Finish(g) \/ DeleteEntry(g) \/ DeleteChecked(g) \/ EndPrune(g) \/ EndDelete(g)
    BY <2>3 DEF Finish, DeleteEntry, DeleteChecked, EndPrune, EndDelete
  <2>4. CASE ReleaseGet(g) \/ ReleaseApply(g) \/ SettleContributions(g)
             \/ updateStatus(g) \/ setUnmanaged(g)
    BY <2>4 DEF ReleaseGet, ReleaseApply, SettleContributions, updateStatus, setUnmanaged
  <2> QED
    BY <1>1, <2>1, <2>2, <2>3, <2>4 DEF Reconcile
<1>2. CASE \E g \in Graphs : EditGraph(g) \/ DeleteGraph(g) \/ Drain(g)
  BY <1>2 DEF EditGraph, DeleteGraph, Drain
<1>3. CASE \E o \in Objects : Meddle(o) \/ Report(o) \/ Gone(o)
  BY <1>3 DEF Meddle, Report, Gone
<1>4. CASE (\E k \in Kinds : CrdChanges(k) \/ CrdEvent(k)) \/ Crash
  BY <1>4 DEF CrdChanges, CrdEvent, Crash
<1> QED
  BY <1>1, <1>2, <1>3, <1>4 DEF Next

\* A step that changes neither Graphs nor runs.
LEMMA AsideTended ==
    ASSUME Attention, case' = case, UNCHANGED <<graphs, w>>, queue \subseteq queue'
    PROVE  Attention'
<1>1. \A g \in Graphs : Tended(g)'
  BY TendedStays DEF Attention
<1> QED
  BY <1>1 DEF Attention, Shapes

\* What users do to a Graph.
LEMMA UserWrites ==
    ASSUME Shapes, NEW g \in Graphs, graphs[g].gen \in Nat, EditGraph(g) \/ DeleteGraph(g)
    PROVE  /\ DOMAIN graphs' = Graphs /\ \A h \in Graphs \ {g} : graphs'[h] = graphs[h]
           /\ DOMAIN graphs'[g] = GraphFields
           /\ graphs'[g].gen = graphs[g].gen + 1 \/ (~graphs'[g].up /\ graphs'[g].gen = graphs[g].gen
                                                      /\ graphs'[g].ver = graphs[g].ver)
           /\ queue' = queue \cup {g} /\ UNCHANGED w
<1>1. DOMAIN graphs = Graphs /\ DOMAIN graphs[g] = GraphFields
  BY DEF Shapes
<1>2. CASE EditGraph(g)
  <2> DEFINE new == [graphs[g] EXCEPT !.ver = @ + 1, !.gen = @ + 1]
  <2>1. graphs' = [graphs EXCEPT ![g] = new] /\ queue' = queue \cup {g} /\ UNCHANGED w
    BY <1>1, <1>2 DEF EditGraph
  <2>2. DOMAIN new = GraphFields /\ new.gen = graphs[g].gen + 1
    BY <1>1 DEF GraphFields
  <2> QED
    BY <1>1, <2>1, <2>2
<1>3. CASE DeleteGraph(g)
  <2> DEFINE new == [graphs[g] EXCEPT !.deleting = TRUE, !.gen = graphs[g].gen + 1]
  <2>1. /\ graphs' = [graphs EXCEPT ![g] = new] \/ graphs' = [graphs EXCEPT ![g] = NoGraph(g)]
        /\ queue' = queue \cup {g} /\ UNCHANGED w
    <3> DEFINE v == IF graphs[g].fin THEN new ELSE NoGraph(g)
    <3>1. graphs' = [graphs EXCEPT ![g] = v] /\ queue' = queue \cup {g} /\ UNCHANGED w
      BY <1>3 DEF DeleteGraph
    <3>2. v = new \/ v = NoGraph(g)
      OBVIOUS
    <3> HIDE DEF v
    <3> QED
      BY <3>1, <3>2
  <2>2. DOMAIN new = GraphFields /\ new.gen = graphs[g].gen + 1
    BY <1>1 DEF GraphFields
  <2>3. /\ DOMAIN NoGraph(g) = GraphFields /\ ~NoGraph(g).up
        /\ NoGraph(g).gen = graphs[g].gen /\ NoGraph(g).ver = graphs[g].ver
    BY <1>1 DEF GraphFields, NoGraph
  <2> QED
    BY <1>1, <2>1, <2>2, <2>3
<1> QED
  BY <1>2, <1>3

LEMMA AttentionStep == ASSUME Attention, [Next]_vars PROVE Attention'
<1>0. ASSUME Next PROVE case' = case
  BY <1>0, CaseFixed
<1>1. ASSUME NEW g \in Graphs, Next, Reconcile(g) PROVE Attention'
  BY <1>0, <1>1, ReconcileTended
<1>2. ASSUME NEW g \in Graphs, Next, EditGraph(g) \/ DeleteGraph(g) PROVE Attention'
  <2>0. Shapes /\ Tended(g) /\ graphs[g].gen \in Nat
    BY DEF Attention, Tended
  <2>1. /\ DOMAIN graphs' = Graphs /\ \A h \in Graphs \ {g} : graphs'[h] = graphs[h]
        /\ DOMAIN graphs'[g] = GraphFields
        /\ graphs'[g].gen = graphs[g].gen + 1 \/ (~graphs'[g].up /\ graphs'[g].gen = graphs[g].gen
                                                   /\ graphs'[g].ver = graphs[g].ver)
        /\ queue' = queue \cup {g} /\ UNCHANGED w
    BY <1>2, <2>0, UserWrites
  <2>2. Shapes' /\ \A h \in Graphs \ {g} : Tended(h)'
    BY <1>0, <1>2, <2>0, <2>1, TendedStays DEF Attention, Shapes
  <2>3. w[g] # Idle => Follows(g)'
    BY <2>0, <2>1 DEF Tended, Follows
  <2>4. w[g] # Idle => Verdicts(g)'
    BY <1>0, <1>2, <2>0, <2>1 DEF Tended, Verdicts, Final, specOf
  <2>5. Tended(g)'
    BY <2>0, <2>1, <2>3, <2>4 DEF Tended, Attended
  <2> QED
    BY <2>2, <2>5 DEF Attention
<1>3. ASSUME Next, \/ \E g \in Graphs : Drain(g)
                   \/ \E o \in Objects : Meddle(o) \/ Report(o) \/ Gone(o)
                   \/ \E k \in Kinds : CrdChanges(k) \/ CrdEvent(k)
      PROVE  Attention'
  <2>1. UNCHANGED <<graphs, w>> /\ queue \subseteq queue'
    BY <1>3 DEF Drain, Meddle, Report, Gone, CrdChanges, CrdEvent, SetObject
  <2> QED
    BY <1>0, <1>3, <2>1, AsideTended
<1>4. ASSUME Next, Crash PROVE Attention'
  <2>1. UNCHANGED graphs /\ w' = [g \in Graphs |-> Idle] /\ queue' = {g \in Graphs : graphs[g].up}
    BY <1>4 DEF Crash
  <2>2. Shapes'
    BY <2>1 DEF Attention, Shapes
  <2>3. \A g \in Graphs : Tended(g)'
    BY <2>1 DEF Attention, Tended, Attended
  <2> QED
    BY <2>2, <2>3 DEF Attention
<1>5. CASE UNCHANGED vars
  BY <1>5, AsideTended DEF vars
<1> QED
  BY <1>1, <1>2, <1>3, <1>4, <1>5 DEF Next

LEMMA AttentionInit == ASSUME Init PROVE Attention
<1>1. w = [g \in Graphs |-> Idle] /\ queue = DOMAIN case.specs
  BY DEF Init
<1>2. \A g \in Graphs :
        /\ DOMAIN graphs[g] = GraphFields /\ graphs[g].gen = 1
        /\ graphs[g].up => g \in DOMAIN case.specs
  BY DEF Init, GraphFields
<1>3. DOMAIN graphs = Graphs
  BY DEF Init
<1>4. Shapes
  BY <1>1, <1>2, <1>3 DEF Shapes
<1>5. \A g \in Graphs : Tended(g)
  BY <1>1, <1>2 DEF Tended, Attended
<1> QED
  BY <1>4, <1>5 DEF Attention

LEMMA AttentionHolds == Spec => []Attention
BY AttentionInit, AttentionStep, PTL DEF Spec

\* No Graph with work to do is forgotten, whatever fails, whoever edits, and
\* wherever the process dies: it runs, is queued, or ended with a verdict that is
\* final for its present generation (Reconcile, updateStatus, setManaged).
THEOREM NoGraphForgotten == Spec => []NotForgotten
<1>1. Attention => NotForgotten
  BY DEF Attention, Tended, Attended, Final, NotForgotten, Running
<1> QED
  BY <1>1, AttentionHolds, PTL

-----------------------------------------------------------------------------
(* A reconcile as a whole: a run starts, goes on or stops.                 *)

LEMMA MovesWide ==
    ASSUME NEW g, NEW F, NEW pcs, NEW G, NEW more,
           Moves(g, F, pcs), F \subseteq G, pcs \subseteq more
    PROVE  Moves(g, G, more)
BY DEF Moves, Edited

LEMMA WritesWide ==
    ASSUME NEW g, NEW F, NEW G, Writes(g, F), F \subseteq G
    PROVE  Writes(g, G)
BY DEF Writes

\* What a run may change of itself; what it may change of the stored Graph.
Steered == RunFields \ {"gen", "ver"}
Kept == {"fin", "managed", "contribs", "sa"}

\* The run of g goes on.
GoesOn(g) ==
    /\ w[g].pc # "idle" /\ Moves(g, Steered, Pcs)
    /\ w'[g].pc = "compiling" => CompileStart(g)

LEMMA GoesOnFacts ==
    ASSUME NEW g, NEW F, NEW pcs, w[g].pc # "idle", Moves(g, F, pcs),
           F \subseteq Steered, pcs \subseteq Pcs \ {"compiling"}
    PROVE  GoesOn(g)
BY MovesWide DEF GoesOn, Moves

LEMMA ReconcileMoves ==
    ASSUME Shapes, NEW g \in Graphs, Reconcile(g), ~Begin(g)
    PROVE  \/ Writes(g, Kept) /\ (Stops(g) \/ GoesOn(g))
           \/ updateStatus(g) \/ setUnmanaged(g)
<1> USE DEF Steered, Kept
<1>2. CASE CompileStart(g)
  <2>1. /\ w[g].pc = "compile" /\ Writes(g, {}) /\ Moves(g, {"pc", "ep", "read"}, {"intent", "compiling"})
    BY <1>2, CompileStartFacts
  <2>2. {"pc", "ep", "read"} \subseteq Steered /\ {"intent", "compiling"} \subseteq Pcs
    BY DEF RunFields, Pcs
  <2> QED
    BY <1>2, <2>1, <2>2, MovesWide, WritesWide DEF GoesOn
<1>3. CASE CompileEnd(g)
  <2>1. /\ w[g].pc = "compiling" /\ Writes(g, {}) /\ Moves(g, Ended, {"status", "intent"})
    BY <1>3, CompileEndFacts
  <2>2. Ended \subseteq Steered /\ {"status", "intent"} \subseteq Pcs \ {"compiling"}
    BY DEF Ended, RunFields, Pcs
  <2> QED
    BY <2>1, <2>2, GoesOnFacts, WritesWide
<1>4. CASE WriteAheadManaged(g)
  <2>1. /\ w[g].pc = "intent" /\ Writes(g, {"managed"})
        /\ Moves(g, Ended \cup {"intent", "managed"}, {"status", "intent2"})
    BY <1>4, WriteAheadManagedFacts
  <2>2. /\ Ended \cup {"intent", "managed"} \subseteq Steered
        /\ {"status", "intent2"} \subseteq Pcs \ {"compiling"} /\ {"managed"} \subseteq Kept
    BY DEF Ended, RunFields, Pcs
  <2> QED
    BY <2>1, <2>2, GoesOnFacts, WritesWide
<1>5. CASE WriteAheadContributions(g)
  <2>1. /\ w[g].pc = "intent2" /\ Writes(g, {"contribs"})
        /\ Moves(g, Ended \cup {"contribs"}, {"status", "walk"})
    BY <1>5, WriteAheadContributionsFacts
  <2>2. /\ Ended \cup {"contribs"} \subseteq Steered
        /\ {"status", "walk"} \subseteq Pcs \ {"compiling"} /\ {"contribs"} \subseteq Kept
    BY DEF Ended, RunFields, Pcs
  <2> QED
    BY <2>1, <2>2, GoesOnFacts, WritesWide
<1>6. CASE EnterNode(g)
  <2>1. /\ w[g].pc = "walk" /\ Writes(g, {})
        /\ Moves(g, {"pc", "i", "unres", "soft", "items", "decl"}, {"walk", "get"})
    BY <1>6, EnterNodeFacts
  <2>2. /\ {"pc", "i", "unres", "soft", "items", "decl"} \subseteq Steered
        /\ {"walk", "get"} \subseteq Pcs \ {"compiling"}
    BY DEF RunFields, Pcs
  <2> QED
    BY <2>1, <2>2, GoesOnFacts, WritesWide
<1>7. CASE GetLive(g)
  <2>1. /\ w[g].pc = "get" /\ Writes(g, {})
        /\ Moves(g, ItemFields \cup {"claims", "decl"}, {"apply", "get", "walk"})
    BY <1>7, GetLiveFacts
  <2>2. /\ ItemFields \cup {"claims", "decl"} \subseteq Steered
        /\ {"apply", "get", "walk"} \subseteq Pcs \ {"compiling"}
    BY DEF ItemFields, RunFields, Pcs
  <2> QED
    BY <2>1, <2>2, GoesOnFacts, WritesWide
<1>8. CASE \E force \in BOOLEAN : ApplyObject(g, force)
  <2>1. /\ w[g].pc \in {"apply", "force"} /\ Writes(g, {})
        /\ Moves(g, ItemFields \cup {"applied", "contr"}, {"force", "get", "walk"})
    BY <1>8, ApplyObjectFacts
  <2>2. /\ ItemFields \cup {"applied", "contr"} \subseteq Steered
        /\ {"force", "get", "walk"} \subseteq Pcs \ {"compiling"}
    BY DEF ItemFields, RunFields, Pcs
  <2> QED
    BY <2>1, <2>2, GoesOnFacts, WritesWide
<1>9. CASE Finish(g)
  <2>1. /\ w[g].pc = "walk" /\ Writes(g, {"contribs"}) /\ Moves(g, FinishFields, {"status", "prune"})
    BY <1>9, FinishFacts
  <2>2. /\ FinishFields \subseteq Steered /\ {"contribs"} \subseteq Kept
        /\ {"status", "prune"} \subseteq Pcs \ {"compiling"}
    BY DEF FinishFields, Ended, RunFields, Pcs
  <2> QED
    BY <2>1, <2>2, GoesOnFacts, WritesWide
<1>10. CASE DeleteEntry(g) \/ DeleteChecked(g)
  <2>1. /\ w[g].pc \in {"prune", "delete", "pruning", "deleting"} /\ Writes(g, {})
        /\ Moves(g, DeleteFields, Phase(w[g].pc))
    BY <1>10, DeleteEntryFacts, DeleteCheckedFacts
  <2>2. DeleteFields \subseteq Steered /\ Phase(w[g].pc) \subseteq Pcs \ {"compiling"}
    BY DEF DeleteFields, RunFields, Pcs, Phase
  <2> QED
    BY <2>1, <2>2, GoesOnFacts, WritesWide
<1>11. CASE EndPrune(g)
  <2>1. /\ w[g].pc = "prune" /\ Writes(g, {})
        /\ Moves(g, Ended \cup {"managed", "rel"}, {"status", "release"})
    BY <1>11, EndPruneFacts
  <2>2. /\ Ended \cup {"managed", "rel"} \subseteq Steered
        /\ {"status", "release"} \subseteq Pcs \ {"compiling"}
    BY DEF Ended, RunFields, Pcs
  <2> QED
    BY <2>1, <2>2, GoesOnFacts, WritesWide
<1>12. CASE EndDelete(g)
  <2>1. /\ w[g].pc = "delete" /\ Writes(g, {}) /\ Moves(g, Ended, {"status", "unlink"})
    BY <1>12, EndDeleteFacts
  <2>2. Ended \subseteq Steered /\ {"status", "unlink"} \subseteq Pcs \ {"compiling"}
    BY DEF Ended, RunFields, Pcs
  <2> QED
    BY <2>1, <2>2, GoesOnFacts, WritesWide
<1>13. CASE ReleaseGet(g) \/ ReleaseApply(g)
  <2>1. /\ w[g].pc \in {"release", "unlink", "releasing", "unlinking"} /\ Writes(g, {})
        /\ Moves(g, ReleaseFields, Releasing(w[g].pc) \cup {"status"})
    BY <1>13, ReleaseGetFacts, ReleaseApplyFacts
  <2>2. /\ ReleaseFields \subseteq Steered
        /\ Releasing(w[g].pc) \cup {"status"} \subseteq Pcs \ {"compiling"}
    BY DEF ReleaseFields, Ended, RunFields, Pcs, Releasing
  <2> QED
    BY <2>1, <2>2, GoesOnFacts, WritesWide
<1>14. CASE SettleContributions(g)
  <2>1. /\ w[g].pc = "release" /\ Writes(g, {"contribs"}) /\ Moves(g, Ended, {"status"})
    BY <1>14, SettleFacts
  <2>2. Ended \subseteq Steered /\ {"status"} \subseteq Pcs \ {"compiling"} /\ {"contribs"} \subseteq Kept
    BY DEF Ended, RunFields, Pcs
  <2> QED
    BY <2>1, <2>2, GoesOnFacts, WritesWide
<1>15. CASE setManaged(g)
  <2>1. /\ w[g].pc = "manage" /\ Writes(g, {"fin"})
        /\ Stops(g) \/ Moves(g, Ended, {"status", "compile"})
    BY <1>15, SetManagedFacts
  <2>2. Ended \subseteq Steered /\ {"status", "compile"} \subseteq Pcs \ {"compiling"} /\ {"fin"} \subseteq Kept
    BY DEF Ended, RunFields, Pcs
  <2> QED
    BY <2>1, <2>2, GoesOnFacts, WritesWide
<1> QED
  BY <1>2, <1>3, <1>4, <1>5, <1>6, <1>7, <1>8, <1>9, <1>10, <1>11, <1>12, <1>13, <1>14, <1>15 DEF Reconcile

-----------------------------------------------------------------------------
(* Generations and versions.                                               *)

Known(g, ver) == g \in DOMAIN case.specs /\ ver \in 1..Len(case.specs[g])

\* A Graph has a spec, of which it has a version; a run has one too.
Versioned(g) ==
    /\ graphs[g].up => g \in DOMAIN case.specs
    /\ g \in DOMAIN case.specs => Known(g, graphs[g].ver)
    /\ w[g] # Idle => Known(g, w[g].ver)
    /\ graphs[g].gen \in Nat
    /\ graphs[g].ver \in Nat /\ graphs[g].ver <= graphs[g].gen
    /\ graphs[g].cond.of \in Nat /\ graphs[g].cond.of <= graphs[g].gen

Versions == case \in Cases /\ \A g \in Graphs : Versioned(g)

LEMMA VerdictWritten ==
    ASSUME Shapes, NEW g \in Graphs, updateStatus(g)
    PROVE  graphs'[g].cond.of \in {graphs[g].cond.of, graphs[g].gen}
<1> DEFINE gr == graphs[g]
           sa == IF w[g].sa = None THEN gr.sa ELSE w[g].sa
           more == unionManagedResources(gr.managed, w[g].managed)
           cond == [of |-> gr.gen, is |-> w[g].cond]
           x == [gr EXCEPT !.managed = more, !.sa = sa]
           y == [gr EXCEPT !.managed = w[g].managed, !.sa = sa, !.cond = cond]
<1>1. graphs' \in {graphs, [graphs EXCEPT ![g] = x], [graphs EXCEPT ![g] = y]}
  BY DEF updateStatus
<1>2. DOMAIN graphs = Graphs /\ DOMAIN gr = GraphFields
  BY DEF Shapes
<1> HIDE DEF sa, more
<1>3. x.cond = gr.cond /\ y.cond = cond /\ cond.of = gr.gen
  BY <1>2 DEF GraphFields
<1> HIDE DEF x, y, cond
<1> QED
  BY <1>1, <1>2, <1>3

LEMMA ReconcileVersions ==
    ASSUME Shapes, Versions, NEW g \in Graphs, Reconcile(g), case' = case
    PROVE  Versions'
<1>0. Versioned(g) /\ case \in Cases
  BY DEF Versions
<1>1. ASSUME /\ DOMAIN graphs' = Graphs /\ \A h \in Graphs \ {g} : graphs'[h] = graphs[h]
             /\ \A h \in Graphs \ {g} : w'[h] = w[h],
             Versioned(g)'
      PROVE  Versions'
  <2>1. \A h \in Graphs \ {g} : Versioned(h)'
    BY <1>1 DEF Versions, Versioned, Known
  <2> QED
    BY <1>0, <1>1, <2>1 DEF Versions
<1>2. CASE Begin(g)
  <2>1. /\ w[g] = Idle /\ UNCHANGED graphs
        /\ (~graphs[g].up /\ UNCHANGED w) \/ (graphs[g].up /\ Starts(g))
    BY <1>2, BeginFacts
  <2>2. CASE UNCHANGED w
    BY <1>0, <1>1, <2>1, <2>2 DEF Versioned, Known, Shapes
  <2>3. CASE graphs[g].up /\ Starts(g)
    <3>1. Versioned(g)'
      BY <1>0, <2>1, <2>3 DEF Versioned, Known, Starts
    <3> QED
      BY <1>1, <2>1, <2>3, <3>1 DEF Starts, Shapes
  <2> QED
    BY <2>1, <2>2, <2>3
<1>3. CASE Writes(g, Kept) /\ (Stops(g) \/ GoesOn(g))
  <2>1. /\ DOMAIN graphs' = Graphs /\ \A h \in Graphs \ {g} : graphs'[h] = graphs[h]
        /\ graphs'[g].up = graphs[g].up /\ graphs'[g].gen = graphs[g].gen
        /\ graphs'[g].ver = graphs[g].ver /\ graphs'[g].cond = graphs[g].cond
    BY <1>3 DEF Writes, Kept, GraphFields
  <2>2. CASE Stops(g)
    <3>1. Versioned(g)'
      BY <1>0, <2>1, <2>2 DEF Versioned, Known, Stops
    <3> QED
      BY <1>1, <2>1, <2>2, <3>1 DEF Stops
  <2>3. CASE GoesOn(g)
    <3>1. w[g] # Idle /\ w'[g].ver = w[g].ver
      BY <2>3 DEF GoesOn, Idle, Moves, Edited, Steered, RunFields
    <3>2. Versioned(g)'
      BY <1>0, <2>1, <3>1 DEF Versioned, Known
    <3> QED
      BY <1>1, <2>1, <2>3, <3>2 DEF GoesOn, Moves
  <2> QED
    BY <1>3, <2>2, <2>3
<1>4. CASE updateStatus(g)
  <2>1. Writes(g, {"managed", "sa", "cond"}) /\ Stops(g)
    BY <1>4, UpdateStatusFacts
  <2>2. /\ DOMAIN graphs' = Graphs /\ \A h \in Graphs \ {g} : graphs'[h] = graphs[h]
        /\ graphs'[g].up = graphs[g].up /\ graphs'[g].gen = graphs[g].gen
        /\ graphs'[g].ver = graphs[g].ver
    BY <2>1 DEF Writes, GraphFields
  <2>3. graphs'[g].cond.of \in {graphs[g].cond.of, graphs[g].gen}
    BY <1>4, VerdictWritten
  <2>4. Versioned(g)'
    BY <1>0, <2>1, <2>2, <2>3 DEF Versioned, Known, Stops
  <2> QED
    BY <1>1, <2>1, <2>2, <2>4 DEF Stops
<1>5. CASE setUnmanaged(g)
  <2>1. Writes(g, {"up", "fin", "managed", "contribs", "sa"}) /\ Stops(g)
    BY <1>5, SetUnmanagedFacts
  <2>2. /\ DOMAIN graphs' = Graphs /\ \A h \in Graphs \ {g} : graphs'[h] = graphs[h]
        /\ graphs'[g].gen = graphs[g].gen /\ graphs'[g].cond = graphs[g].cond
        /\ graphs'[g].ver = graphs[g].ver
    BY <2>1 DEF Writes, GraphFields
  <2>3. graphs'[g].up => graphs[g].up
    BY <1>5 DEF setUnmanaged, NoGraph, Shapes, GraphFields
  <2>4. Versioned(g)'
    BY <1>0, <2>1, <2>2, <2>3 DEF Versioned, Known, Stops
  <2> QED
    BY <1>1, <2>1, <2>2, <2>4 DEF Stops
<1> QED
  BY <1>2, <1>3, <1>4, <1>5, ReconcileMoves

LEMMA VersionsStep == ASSUME Shapes, Versions, [Next]_vars PROVE Versions'
<1>0. ASSUME Next PROVE case' = case
  BY <1>0, CaseFixed
<1>1. ASSUME NEW g \in Graphs, Next, Reconcile(g) PROVE Versions'
  BY <1>0, <1>1, ReconcileVersions
<1>2. ASSUME NEW g \in Graphs, Next, EditGraph(g) \/ DeleteGraph(g) PROVE Versions'
  <2>0. Versioned(g) /\ case \in Cases
    BY DEF Versions
  <2>c. g \in DOMAIN case.specs => Len(case.specs[g]) \in Nat
    BY <2>0, CasesAssumption
  <2>1. DOMAIN graphs = Graphs /\ DOMAIN graphs[g] = GraphFields
    BY DEF Shapes
  <2>2. /\ DOMAIN graphs' = Graphs /\ \A h \in Graphs \ {g} : graphs'[h] = graphs[h]
        /\ UNCHANGED w
    BY <1>2, <2>1 DEF EditGraph, DeleteGraph
  <2>3. CASE EditGraph(g)
    <3>1. /\ graphs[g].up /\ graphs'[g].up = graphs[g].up /\ graphs'[g].cond = graphs[g].cond
          /\ graphs'[g].gen = graphs[g].gen + 1 /\ graphs'[g].ver = graphs[g].ver + 1
          /\ graphs[g].ver < Len(case.specs[g])
      BY <2>1, <2>3 DEF EditGraph, GraphFields
    <3>2. case' = case
      BY <1>0, <1>2
    <3>3. Known(g, graphs[g].ver)'
      BY <2>0, <2>c, <3>1, <3>2 DEF Versioned, Known
    <3> QED
      BY SMTT(30), <2>0, <2>2, <3>1, <3>2, <3>3 DEF Versioned, Known, Versions
  <2>4. CASE DeleteGraph(g)
    <3>1. /\ graphs[g].up /\ graphs'[g].cond = graphs[g].cond
          /\ graphs'[g].gen \in {graphs[g].gen, graphs[g].gen + 1} /\ graphs'[g].ver = graphs[g].ver
      BY <2>1, <2>4 DEF DeleteGraph, GraphFields, NoGraph
    <3>2. case' = case
      BY <1>0, <1>2
    <3> QED
      BY <2>0, <2>2, <3>1, <3>2 DEF Versioned, Known, Versions
  <2> QED
    BY <1>2, <2>3, <2>4
<1>3. ASSUME case' = case, UNCHANGED <<graphs, w>> PROVE Versions'
  BY <1>3 DEF Versions, Versioned, Known
<1>4. ASSUME Next, \/ \E g \in Graphs : Drain(g)
                   \/ \E o \in Objects : Meddle(o) \/ Report(o) \/ Gone(o)
                   \/ \E k \in Kinds : CrdChanges(k) \/ CrdEvent(k)
      PROVE  Versions'
  <2>1. UNCHANGED <<graphs, w>>
    BY <1>4 DEF Drain, Meddle, Report, Gone, CrdChanges, CrdEvent
  <2> QED
    BY <1>0, <1>3, <1>4, <2>1
<1>5. ASSUME Next, Crash PROVE Versions'
  <2>1. UNCHANGED graphs /\ w' = [g \in Graphs |-> Idle]
    BY <1>5 DEF Crash
  <2> QED
    BY <1>0, <1>5, <2>1 DEF Versions, Versioned, Known
<1>6. CASE UNCHANGED vars
  BY <1>3, <1>6 DEF vars
<1> QED
  BY <1>1, <1>2, <1>4, <1>5, <1>6 DEF Next

LEMMA VersionsInit == ASSUME Init PROVE Versions
<1>1. case \in Cases /\ w = [g \in Graphs |-> Idle]
  BY DEF Init
<1>2. \A g \in DOMAIN case.specs : Len(case.specs[g]) \in Nat \ {0}
  BY <1>1, CasesAssumption
<1>3. \A g \in Graphs :
        /\ graphs[g].up => g \in DOMAIN case.specs
        /\ graphs[g].gen = 1 /\ graphs[g].ver = 1 /\ graphs[g].cond.of = 0
  BY DEF Init
<1> QED
  BY <1>1, <1>2, <1>3 DEF Versions, Versioned, Known

-----------------------------------------------------------------------------
(* The cache of programs and the watcher of schemas.                       *)

\* The watcher has seen no version of a CRD that is not there yet.
Seen ==
    /\ crd \in [Kinds -> Crd] /\ hashes \in [Kinds -> Crd]
    /\ \A k \in Kinds : hashes[k].ver <= crd[k].ver

Marks ==
    /\ DOMAIN subs = Graphs
    /\ \A g \in Graphs : subs[g].gks \subseteq Kinds /\ subs[g].dyn \in BOOLEAN
    /\ dirty \subseteq Graphs /\ DOMAIN entries = Graphs

Epochs ==
    /\ nextEpoch \in Nat
    /\ DOMAIN epochs = Graphs /\ \A g \in Graphs : epochs[g] \in Nat /\ epochs[g] <= nextEpoch

Schemas == Seen /\ Marks /\ Epochs

\* The kinds a version names are kinds.
LEMMA StaticKindsAreKinds ==
    ASSUME Versions, NEW g \in Graphs, w[g] # Idle
    PROVE  StaticKinds(Nodes(g)) \subseteq Kinds
<1>1. case \in Cases /\ Known(g, w[g].ver)
  BY DEF Versions, Versioned
<1>2. \A i \in DOMAIN Nodes(g) : Nodes(g)[i].items \subseteq Objects
  BY <1>1, CasesAssumption DEF Known, Nodes, specOf
<1>3. \A o \in Objects : KindOf[o] \in Kinds \cup {None}
  BY GraphsAssumption
<1>4. ASSUME NEW k \in StaticKinds(Nodes(g)) PROVE k \in Kinds
  <2>1. k # None /\ \E i \in DOMAIN Nodes(g) : \E o \in Nodes(g)[i].items : k = KindOf[o]
    <3> DEFINE S(i) == {KindOf[o] : o \in Nodes(g)[i].items}
               I == {i \in DOMAIN Nodes(g) : ~Nodes(g)[i].dyn}
    <3>1. k # None /\ k \in UNION {S(i) : i \in I}
      BY <1>4 DEF StaticKinds
    <3>2. PICK i \in I : k \in S(i)
      BY <3>1
    <3> QED
      BY <3>1, <3>2
  <2> QED
    BY <1>2, <1>3, <2>1
<1> QED
  BY <1>4

LEMMA CompileStartSchemas ==
    ASSUME Shapes, Versions, Schemas, NEW g \in Graphs, CompileStart(g)
    PROVE  Schemas'
<1> DEFINE kinds == StaticKinds(Nodes(g))
           dyn == \E i \in DOMAIN Nodes(g) : Nodes(g)[i].dyn
<1>0. /\ w[g].pc = "compile" /\ Moves(g, {"pc", "ep", "read"}, {"intent", "compiling"})
      /\ DOMAIN w[g] = RunFields /\ w[g] # Idle
  BY CompileStartFacts, RunsFacts, IdleIsNoRun DEF CompileStart
<1>1. kinds \subseteq Kinds
  BY <1>0, StaticKindsAreKinds
<1>2. /\ subs' = [subs EXCEPT ![g] = [gks |-> kinds, dyn |-> dyn]]
      /\ UNCHANGED <<crd, hashes, dirty, entries, epochs, nextEpoch>>
  BY DEF CompileStart, trackSchemaDependencies, Subscribe
<1>3. dyn \in BOOLEAN
  OBVIOUS
<1> HIDE DEF kinds, dyn
<1>5. Seen' /\ Epochs' /\ dirty' \subseteq Graphs /\ DOMAIN entries' = Graphs
  BY <1>2 DEF Schemas, Seen, Epochs, Marks
<1>6. DOMAIN subs' = Graphs /\ subs'[g].gks = kinds /\ subs'[g].dyn = dyn
      /\ \A h \in Graphs \ {g} : subs'[h] = subs[h]
  BY <1>2 DEF Schemas, Marks
<1>7. \A h \in Graphs : subs'[h].gks \subseteq Kinds /\ subs'[h].dyn \in BOOLEAN
  BY <1>1, <1>3, <1>6 DEF Schemas, Marks
<1> QED
  BY <1>5, <1>6, <1>7 DEF Schemas, Marks

LEMMA CompileEndSchemas ==
    ASSUME Shapes, Schemas, NEW g \in Graphs, CompileEnd(g)
    PROVE  Schemas'
<1>0. Moves(g, Ended, {"status", "intent"}) /\ UNCHANGED <<crd, hashes, subs, dirty>>
  BY CompileEndFacts DEF CompileEnd
<1>1. \/ UNCHANGED <<entries, epochs, nextEpoch>>
      \/ /\ nextEpoch' = nextEpoch + 1
         /\ epochs' = [epochs EXCEPT ![g] = nextEpoch + 1]
         /\ \E prog : entries' = [entries EXCEPT ![g] = prog]
  BY DEF CompileEnd, StoreBack
<1>2. Seen' /\ Marks'
  BY <1>0, <1>1 DEF Schemas, Seen, Marks
<1>3. Epochs'
  BY <1>1 DEF Schemas, Epochs
<1> QED
  BY <1>2, <1>3 DEF Schemas

LEMMA InvalidateFacts ==
    ASSUME Marks, Epochs, NEW gs \in SUBSET Graphs, Invalidate(gs)
    PROVE  /\ Epochs' /\ DOMAIN entries' = Graphs
           /\ \A g \in Graphs : epochs'[g] = IF g \in gs THEN 0 ELSE epochs[g]
<1>1. Cardinality(gs) \in Nat
  BY SchemaAssumption, GraphsAssumption, FS_Subset, FS_CardinalityType
<1>2. nextEpoch' = nextEpoch + Cardinality(gs) /\ DOMAIN epochs' = Graphs /\ DOMAIN entries' = Graphs
  BY GraphsAssumption DEF Invalidate
<1>3. \A g \in Graphs : epochs'[g] = IF g \in gs THEN 0 ELSE epochs[g]
  BY GraphsAssumption DEF Invalidate
<1>4. nextEpoch' \in Nat /\ nextEpoch <= nextEpoch'
  BY <1>1, <1>2 DEF Epochs
<1>5. \A g \in Graphs : epochs'[g] \in Nat /\ epochs'[g] <= nextEpoch'
  BY <1>3, <1>4 DEF Epochs
<1> QED
  BY <1>2, <1>3, <1>4, <1>5 DEF Epochs

LEMMA UnmanageSchemas ==
    ASSUME Shapes, Schemas, NEW g \in Graphs, setUnmanaged(g)
    PROVE  Schemas'
<1>0. Stops(g) /\ UNCHANGED <<crd, hashes, dirty>> /\ Invalidate({g}) /\ RemoveGraph(g)
  BY SetUnmanagedFacts DEF setUnmanaged
<1>1. /\ Epochs' /\ DOMAIN entries' = Graphs
      /\ \A h \in Graphs : epochs'[h] = IF h \in {g} THEN 0 ELSE epochs[h]
  BY <1>0, InvalidateFacts DEF Schemas
<1>2. /\ DOMAIN subs' = Graphs /\ \A h \in Graphs \ {g} : subs'[h] = subs[h]
      /\ subs'[g] = [gks |-> {}, dyn |-> FALSE]
  BY <1>0 DEF RemoveGraph, Subscribe, Schemas, Marks
<1>a. subs'[g].gks \subseteq Kinds /\ subs'[g].dyn \in BOOLEAN
  BY <1>2
<1>3. Seen' /\ Marks'
  BY <1>0, <1>1, <1>2, <1>a DEF Schemas, Seen, Marks
<1> QED
  BY <1>1, <1>3 DEF Schemas

\* The other steps of a reconcile leave cache and watcher alone.
LEMMA ReconcileAside ==
    ASSUME NEW g \in Graphs, Reconcile(g), ~CompileStart(g), ~CompileEnd(g), ~setUnmanaged(g)
    PROVE  UNCHANGED swVars
<1>1. CASE Begin(g) \/ setManaged(g) \/ WriteAheadManaged(g) \/ WriteAheadContributions(g)
  BY <1>1 DEF Begin, setManaged, WriteAheadManaged, WriteAheadContributions
<1>2. CASE EnterNode(g) \/ GetLive(g) \/ \E force \in BOOLEAN : ApplyObject(g, force)
  BY <1>2 DEF EnterNode, GetLive, ApplyObject
<1>3. CASE Finish(g) \/ DeleteEntry(g) \/ DeleteChecked(g) \/ EndPrune(g) \/ EndDelete(g)
  BY <1>3 DEF Finish, DeleteEntry, DeleteChecked, EndPrune, EndDelete
<1>4. CASE ReleaseGet(g) \/ ReleaseApply(g) \/ SettleContributions(g) \/ updateStatus(g)
  BY <1>4 DEF ReleaseGet, ReleaseApply, SettleContributions, updateStatus
<1> QED
  BY <1>1, <1>2, <1>3, <1>4 DEF Reconcile

LEMMA SchemasStay ==
    ASSUME Schemas, UNCHANGED swVars
    PROVE  Schemas'
<1>1. UNCHANGED <<crd, hashes, subs, dirty, entries, epochs, nextEpoch>>
  BY DEF swVars
<1>2. Seen' /\ Marks' /\ Epochs'
  BY <1>1 DEF Schemas, Seen, Marks, Epochs
<1> QED
  BY <1>2 DEF Schemas

LEMMA EventSchemas ==
    ASSUME Schemas, NEW k \in Kinds, onEvent(k)
    PROVE  Schemas'
<1> DEFINE gs == affectedLocked(k)
<1>0. gs \in SUBSET Graphs
  BY GraphsAssumption DEF affectedLocked
<1>1. /\ hashes' = [hashes EXCEPT ![k] = crd[k]] /\ Invalidate(gs)
      /\ dirty' = dirty \union gs /\ UNCHANGED <<crd, subs>>
  BY DEF onEvent
<1>2. \A g \in Graphs : k \in subs[g].gks => g \in gs
  BY GraphsAssumption DEF affectedLocked
<1> HIDE DEF gs
<1>3. /\ Epochs' /\ DOMAIN entries' = Graphs
      /\ \A g \in Graphs : epochs'[g] = IF g \in gs THEN 0 ELSE epochs[g]
  BY <1>0, <1>1, InvalidateFacts DEF Schemas
<1>4. Marks'
  BY <1>0, <1>1, <1>3 DEF Schemas, Marks
<1>5. Seen'
  <2>1. /\ crd \in [Kinds -> Crd] /\ hashes' \in [Kinds -> Crd] /\ UNCHANGED crd
        /\ hashes'[k] = crd[k] /\ \A x \in Kinds \ {k} : hashes'[x] = hashes[x]
    BY <1>1 DEF Schemas, Seen
  <2>2. crd[k].ver <= crd[k].ver
    BY <2>1, SchemaAssumption DEF Crd
  <2> QED
    BY <2>1, <2>2 DEF Schemas, Seen
<1> QED
  BY <1>3, <1>4, <1>5 DEF Schemas

LEMMA ChangeSchemas ==
    ASSUME Schemas, NEW k \in Kinds, CrdChanges(k)
    PROVE  Schemas'
<1>1. UNCHANGED <<w, hashes, subs, dirty, entries, epochs, nextEpoch>>
  BY DEF CrdChanges
<1>2. PICK up \in BOOLEAN : crd[k].ver < MaxCrd /\ crd' = [crd EXCEPT ![k] = [ver |-> crd[k].ver + 1, up |-> up]]
  BY DEF CrdChanges, ChangeCrd
<1>3. \A x \in Kinds : crd[x].ver \in 0..MaxCrd /\ hashes[x].ver \in 0..MaxCrd
  BY DEF Schemas, Seen, Crd
<1>4. crd[k].ver + 1 \in 0..MaxCrd /\ hashes[k].ver <= crd[k].ver + 1
  BY <1>2, <1>3, SchemaAssumption DEF Schemas, Seen
<1>5. /\ crd' \in [Kinds -> Crd] /\ crd'[k].ver = crd[k].ver + 1
      /\ \A x \in Kinds \ {k} : crd'[x] = crd[x]
  BY <1>2, <1>4 DEF Schemas, Seen, Crd
<1>6. Seen'
  BY <1>1, <1>4, <1>5 DEF Schemas, Seen
<1>7. Marks' /\ Epochs'
  BY <1>1 DEF Schemas, Marks, Epochs
<1> QED
  BY <1>6, <1>7 DEF Schemas

LEMMA NewSchemas ==
    ASSUME NEW c \in [Kinds -> Crd], crd = c, hashes = c,
           subs = [g \in Graphs |-> [gks |-> {}, dyn |-> FALSE]], dirty = {},
           entries = [g \in Graphs |-> Nothing], epochs = [g \in Graphs |-> 0], nextEpoch = 0
    PROVE  Schemas
<1>1. Seen
  BY SchemaAssumption DEF Seen, Crd
<1>2. \A g \in Graphs : subs[g].gks = {} /\ subs[g].dyn = FALSE
  OBVIOUS
<1>3. Marks
  BY <1>2 DEF Marks
<1>4. Epochs
  BY DEF Epochs
<1> QED
  BY <1>1, <1>3, <1>4 DEF Schemas

LEMMA SchemasStep == ASSUME Shapes, Versions, Schemas, [Next]_vars PROVE Schemas'
<1>1. ASSUME NEW g \in Graphs, Reconcile(g) PROVE Schemas'
  <2>1. CASE CompileStart(g)
    BY <2>1, CompileStartSchemas
  <2>2. CASE CompileEnd(g)
    BY <2>2, CompileEndSchemas
  <2>3. CASE setUnmanaged(g)
    BY <2>3, UnmanageSchemas
  <2>4. CASE ~CompileStart(g) /\ ~CompileEnd(g) /\ ~setUnmanaged(g)
    BY <1>1, <2>4, ReconcileAside, SchemasStay
  <2> QED
    BY <2>1, <2>2, <2>3, <2>4
<1>2. CASE \/ \E g \in Graphs : EditGraph(g) \/ DeleteGraph(g)
           \/ \E o \in Objects : Meddle(o) \/ Report(o) \/ Gone(o)
           \/ UNCHANGED vars
  <2>1. UNCHANGED <<w, swVars>>
    BY <1>2 DEF EditGraph, DeleteGraph, Meddle, Report, Gone, vars
  <2> QED
    BY <2>1, SchemasStay
<1>3. ASSUME NEW g \in Graphs, Drain(g) PROVE Schemas'
  <2>1. UNCHANGED <<w, crd, hashes, subs, entries, epochs, nextEpoch>> /\ dirty' \subseteq dirty
    BY <1>3 DEF Drain
  <2>2. Seen' /\ Marks' /\ Epochs'
    BY <2>1 DEF Schemas, Seen, Marks, Epochs
  <2> QED
    BY <2>2 DEF Schemas
<1>4. ASSUME NEW k \in Kinds, CrdChanges(k) \/ CrdEvent(k) PROVE Schemas'
  BY <1>4, ChangeSchemas, EventSchemas DEF CrdEvent
<1>5. ASSUME Crash PROVE Schemas'
  <2>1. /\ w' = [g \in Graphs |-> Idle] /\ hashes' = crd /\ crd' = crd
        /\ subs' = [g \in Graphs |-> [gks |-> {}, dyn |-> FALSE]] /\ dirty' = {}
        /\ entries' = [g \in Graphs |-> Nothing] /\ epochs' = [g \in Graphs |-> 0] /\ nextEpoch' = 0
    BY <1>5, GraphsAssumption DEF Crash, SWRestart
  <2>2. crd \in [Kinds -> Crd]
    BY DEF Schemas, Seen
  <2>3. \A g \in Graphs : w'[g] = Idle /\ subs'[g].gks = {} /\ subs'[g].dyn = FALSE /\ epochs'[g] = 0
    BY <2>1
  <2>4. Seen'
    BY <2>1, <2>2, SchemaAssumption DEF Seen, Crd
  <2>5. Marks'
    BY <2>1, <2>3 DEF Marks
  <2>6. Epochs'
    BY <2>1 DEF Epochs
  <2> QED
    BY <2>4, <2>5, <2>6 DEF Schemas
<1> QED
  BY <1>1, <1>2, <1>3, <1>4, <1>5 DEF Next

LEMMA SchemasInit == ASSUME Init PROVE Schemas
<1> DEFINE c == [k \in Kinds |-> [ver |-> 0, up |-> k \in case.installed]]
<1>1. c \in [Kinds -> Crd]
  BY SchemaAssumption DEF Crd
<1>2. /\ w = [g \in Graphs |-> Idle] /\ crd = c /\ hashes = c
      /\ subs = [g \in Graphs |-> [gks |-> {}, dyn |-> FALSE]] /\ dirty = {}
      /\ entries = [g \in Graphs |-> Nothing] /\ epochs = [g \in Graphs |-> 0] /\ nextEpoch = 0
  BY GraphsAssumption DEF Init, SWInit
<1> HIDE DEF c
<1> QED
  BY <1>1, <1>2, NewSchemas

\* What holds of the reconciler's own state, whatever happens.
Tracked == Attention /\ Versions /\ Schemas

LEMMA TrackedInit == ASSUME Init PROVE Tracked
BY AttentionInit, VersionsInit, SchemasInit DEF Tracked

LEMMA TrackedStep == ASSUME Tracked, [Next]_vars PROVE Tracked'
BY AttentionStep, VersionsStep, SchemasStep DEF Tracked, Attention

LEMMA TrackedHolds == Spec => []Tracked
BY TrackedInit, TrackedStep, PTL DEF Spec

=============================================================================
