-------------------------- MODULE GraphController --------------------------
(***************************************************************************)
(* The reconciler of standalone Graphs (pkg/controller/graph) driving the  *)
(* executor (pkg/graphengine/executor), the runtime                        *)
(* (pkg/graphengine/runtime), the cache of compiled programs and the       *)
(* watches.  Every call to the API server is a step of its own: between    *)
(* two of them users edit and delete Graphs, people and controllers change *)
(* objects, a peer Graph reconciles, a CRD changes, or the process dies.   *)
(* A call may fail, or be carried out and its answer lost.                 *)
(***************************************************************************)
EXTENDS Executor, SchemaWatcher

CONSTANTS
    KindOf,   \* KindOf[o]: the CRD that serves an object, or None
    Cases,    \* the situations to explore: specs, objects and budgets
    KroUser   \* the ServiceAccount of the controller itself

ASSUME GraphsAssumption ==
    /\ Subscribers = Graphs
    /\ KindOf \in [Objects -> Kinds \union {None}]

\* Every spec has a version, its nodes render objects of the model, and what
\* objects there are at first no Graph has written.
ASSUME CasesAssumption ==
    \A c \in Cases :
      /\ DOMAIN c.specs \subseteq Graphs
      /\ \A g \in DOMAIN c.specs :
           /\ Len(c.specs[g]) \in Nat \ {0} /\ DOMAIN c.specs[g] = 1..Len(c.specs[g])
           /\ \A v \in DOMAIN c.specs[g] :
                LET nodes == c.specs[g][v].nodes
                IN  /\ Len(nodes) \in Nat /\ DOMAIN nodes = 1..Len(nodes)
                    /\ \A i \in DOMAIN nodes : nodes[i].items \subseteq Objects
      /\ DOMAIN c.objs = Objects
      /\ \A o \in Objects :
           \/ c.objs[o] = NoObject
           \/ /\ DOMAIN c.objs[o] = DOMAIN New(1) /\ c.objs[o].uid = 1
              /\ DOMAIN c.objs[o].own = Fields /\ Managers(c.objs[o]) \subseteq {Someone}

\* What the compiler lets pass: nodes of the four kinds that have ids of their own
\* and read the status of nodes there are.  Budgets are numbers.
ASSUME ProgramsAssumption ==
    \A c \in Cases :
      /\ \A g \in DOMAIN c.specs : \A v \in DOMAIN c.specs[g] :
           LET nodes == c.specs[g][v].nodes
               ids == {nodes[i].id : i \in DOMAIN nodes}
           IN  /\ \A i, j \in DOMAIN nodes : nodes[i].id = nodes[j].id => i = j
               /\ \A i \in DOMAIN nodes :
                    /\ nodes[i].kind \in {"template", "patch", "ref", "graph"}
                    /\ nodes[i].use \subseteq ids /\ nodes[i].inc \in ids \union {None}
      /\ c.budget \in [faults : Nat, humans : Nat, reports : Nat]

VARIABLES
    case,     \* the situation explored
    graphs,   \* the Graphs, as stored
    objs,     \* the cluster's objects
    watches,  \* watches[g]: what the router has committed for g
    queue,    \* the Graphs to reconcile
    w,        \* w[g]: the reconcile of g that runs
    uids,     \* uids[o]: how often an object has come up under this name
    left,     \* what is left of the budgets for faults and other actors
    wrote     \* history: <<g, o, uid>> when a template of g reached the object

vars == <<case, graphs, objs, watches, queue, w, uids, left, wrote, swVars>>

Idle == [pc |-> "idle"]
Running(g) == w[g] # Idle

specOf(g, ver) == case.specs[g][ver]
Nodes(g) == specOf(g, w[g].ver).nodes

-----------------------------------------------------------------------------
(* Which nodes a runtime includes, and what it renders.                    *)

\* IsIgnored for each node, from what the nodes before it have published: an
\* ignored dependency is contagious, one that cannot be decided is an error,
\* and which of the two is met first is open.  A node's own condition waits
\* for the status it reads.
IsIgnored(nodes, val) ==
    LET ign[i \in 1..Len(nodes)] ==
          LET n == nodes[i]
              deps == {ign[j] : j \in {j \in 1..(i - 1) : nodes[j].id \in n.deps}}
              own == IF n.inc = None \/ val[n.inc] = "on" THEN "no"
                     ELSE IF val[n.inc] = "off" THEN "yes" ELSE "pending"
          IN  IF \A d \in deps : d = {"no"} THEN {own}
              ELSE (UNION deps) \ {"no"}
    IN  ign

\* Resolve: every status the node renders from has been reported.
Resolves(n, val) == \A u \in n.use : val[u] \in {"on", "off"}

\* readyWhen, for the object or for each object of a collection.
CheckReadiness(n, st) == n.rdy => st = "on"

NoValues(nodes) == [id \in {nodes[i].id : i \in DOMAIN nodes} |-> "none"]

\* A child frame is a new runtime: it captures the values of its parent and
\* has seen nothing of its own nodes.
childRuntime(nodes, val) ==
    LET framed == {nodes[i].id : i \in {i \in DOMAIN nodes : nodes[i].frame # None}}
    IN  [id \in DOMAIN val |-> IF id \in framed THEN "none" ELSE val[id]]

\* The nodes intendedManagedResources and intendedContributions project.
projected(nodes, val) ==
    LET seed == childRuntime(nodes, val)
        ign == IsIgnored(nodes, seed)
        in(i) == ign[i] = {"no"}
    IN  {nodes[i] : i \in {i \in DOMAIN nodes :
           /\ in(i) /\ Resolves(nodes[i], seed)
           /\ \A j \in DOMAIN nodes : nodes[j].id = nodes[i].frame => in(j)}}

Entries(ns, uid(_)) ==
    LET os == UNION {n.items : n \in ns}
    IN  [o \in os |-> [node |-> (CHOOSE n \in ns : o \in n.items).id, uid |-> uid(o)]]

\* Without UIDs; a dynamic kind has no scope yet to place its objects in.
intendedManagedResources(nodes, val) ==
    Entries({n \in projected(nodes, val) : n.kind = "template" /\ ~n.dyn},
            LAMBDA o : 0)

Contribution(g, n, o) == [obj |-> o, manager |-> patchFieldManager(g, n.id)]

intendedContributions(g, nodes, val) ==
    UNION {{Contribution(g, n, o) : o \in n.items} :
             n \in {n \in projected(nodes, val) : n.kind = "patch" /\ ~n.dyn}}

unionManagedResources(previous, applied) ==
    [o \in DOMAIN previous \union DOMAIN applied |->
       IF o \notin DOMAIN previous THEN applied[o]
       ELSE IF o \in DOMAIN applied /\ applied[o].uid # 0
       THEN [previous[o] EXCEPT !.uid = applied[o].uid]
       ELSE previous[o]]

\* What was applied before and is not now: kept if its node could not be
\* decided or rendered this time, pruned otherwise.
diffManagedResources(previous, applied, unresolved) ==
    LET gone == DOMAIN previous \ DOMAIN applied
        kept == {o \in gone : previous[o].node \in unresolved}
    IN  [newSet |-> [o \in DOMAIN applied \union kept |->
                       IF o \in DOMAIN applied THEN applied[o] ELSE previous[o]],
         prune |-> [o \in gone \ kept |-> previous[o]]]

\* recordSoft: the first soft error, unless a later one is a conflict.
recordSoft(old, err) ==
    IF old = None \/ (err = "conflict" /\ old # "conflict") THEN err ELSE old

-----------------------------------------------------------------------------
(* Answers, events and the queue.                                          *)

Replies == {"ok"} \union (IF left.faults > 0 THEN {"fail", "lost"} ELSE {})

Spend(reply) ==
    left' = IF reply = "ok" THEN left ELSE [left EXCEPT !.faults = @ - 1]

May(user, o) == user \in DOMAIN MayWrite /\ o \in MayWrite[user]

Served(o) == IF KindOf[o] = None THEN TRUE ELSE crd[KindOf[o]].up

\* A watch on a name sees every change of it; the watch of a collection sees
\* the objects that carry the Graph's label.
Sees(g, o, old, new) ==
    \E wt \in watches[g] \union (IF Running(g) THEN w[g].decl ELSE {}) :
      /\ wt.obj = o
      /\ wt.label => \E x \in {old, new} :
                       Exists(x) /\ templateFieldManager(g) \in x.own["meta"]

Woken(o, new) ==
    IF new = objs[o] THEN {}
    ELSE {g \in Graphs : graphs[g].up /\ Sees(g, o, objs[o], new)}

\* An object that is not there yet gets the next UID of its name.
Count(o) == IF Exists(objs[o]) THEN uids ELSE [uids EXCEPT ![o] = @ + 1]

SetObject(o, new) ==
    /\ objs' = [objs EXCEPT ![o] = new]
    /\ queue' = queue \union Woken(o, new)

\* A write of the Graph itself; every change of a Graph enqueues it.
WriteGraph(g, new, reply) ==
    /\ Spend(reply)
    /\ IF reply = "fail" THEN UNCHANGED <<graphs, queue>>
       ELSE /\ graphs' = [graphs EXCEPT ![g] = new]
            /\ queue' = IF new = graphs[g] THEN queue ELSE queue \union {g}

Go(g, r) == w' = [w EXCEPT ![g] = r]
Step(g, pc) == Go(g, [w[g] EXCEPT !.pc = pc])

\* The body of the reconcile is over: the status is written next.
Return(g, r, cond, err) ==
    Go(g, [r EXCEPT !.pc = "status", !.cond = cond, !.err = err])

-----------------------------------------------------------------------------
(* The start of a reconcile.                                               *)

\* A deleted Graph is torn down as the identity that applied it, or else as
\* the one its spec names.
teardownExecutorFor(gr, current) == IF gr.sa = None THEN current ELSE gr.sa

\* A Graph may not act as the controller itself.
impersonatesControllerSelf(user) == user = KroUser

\* The Graph is read.
Begin(g) ==
    LET gr == graphs[g]
        run == [pc |-> "compile", gen |-> gr.gen, ver |-> gr.ver,
                managed |-> gr.managed, prev |-> gr.managed, intent |-> gr.managed,
                contribs |-> gr.contribs, prior |-> gr.contribs, sa |-> gr.sa,
                user |-> specOf(g, gr.ver).sa, ep |-> 0, read |-> <<>>,
                i |-> 1, val |-> NoValues(specOf(g, gr.ver).nodes), items |-> {},
                res |-> {}, at |-> None, cur |-> NoObject, claims |-> {},
                decl |-> {}, applied |-> <<>>, contr |-> {}, unres |-> {},
                soft |-> None, hard |-> FALSE, todo |-> <<>>, rel |-> {},
                newSet |-> <<>>, cond |-> gr.cond.is, err |-> FALSE]
    IN  /\ g \in queue /\ ~Running(g)
        /\ queue' = queue \ {g}
        /\ IF ~gr.up THEN UNCHANGED w
           ELSE IF gr.deleting
           THEN Go(g, [run EXCEPT !.pc = "delete", !.todo = gr.managed, !.rel = gr.contribs,
                                  !.user = teardownExecutorFor(gr, @)])
           ELSE IF ~gr.fin THEN Go(g, [run EXCEPT !.pc = "manage"])
           ELSE IF impersonatesControllerSelf(run.user)
           THEN Return(g, run, "invalid", FALSE)
           ELSE Go(g, run)
        /\ UNCHANGED <<case, graphs, objs, watches, uids, left, wrote, swVars>>

\* setManaged: the finalizer is there before anything is applied.
setManaged(g) ==
    /\ w[g].pc = "manage"
    /\ \E reply \in Replies :
         /\ Spend(reply)
         /\ graphs' = IF reply = "fail" \/ ~graphs[g].up THEN graphs
                      ELSE [graphs EXCEPT ![g].fin = TRUE]
         /\ IF reply # "ok" \/ ~graphs[g].up THEN Go(g, Idle)
            ELSE IF impersonatesControllerSelf(w[g].user) THEN Return(g, w[g], "invalid", FALSE)
            ELSE Step(g, "compile")
         /\ queue' = queue \union {g}
    /\ UNCHANGED <<case, objs, watches, uids, wrote, swVars>>

-----------------------------------------------------------------------------
(* Compilation.                                                            *)

StaticKinds(nodes) ==
    (UNION {{KindOf[o] : o \in nodes[i].items} :
              i \in {i \in DOMAIN nodes : ~nodes[i].dyn}}) \ {None}

trackSchemaDependencies(g) ==
    Subscribe(g, StaticKinds(Nodes(g)), \E i \in DOMAIN Nodes(g) : Nodes(g)[i].dyn)

\* The schema subscription is replaced and the cache is asked; on a miss the
\* compiler starts reading schemas, the key's epoch in hand.
CompileStart(g) ==
    /\ w[g].pc = "compile"
    /\ trackSchemaDependencies(g)
    /\ IF Cached(g, w[g].ver) THEN Step(g, "intent")
       ELSE \E read \in [StaticKinds(Nodes(g)) -> UNION {Readable(k) : k \in Kinds}] :
              /\ \A k \in DOMAIN read : read[k] \in Readable(k)
              /\ Go(g, [w[g] EXCEPT !.pc = "compiling", !.ep = epochs[g], !.read = read])
    /\ UNCHANGED <<case, graphs, objs, watches, queue, uids, left, wrote,
                   crd, hashes, dirty, entries, epochs, nextEpoch>>

CompileEnd(g) ==
    /\ w[g].pc = "compiling"
    /\ IF \E k \in DOMAIN w[g].read : ~w[g].read[k].up
       THEN /\ Return(g, w[g], "invalid", TRUE)
            /\ UNCHANGED <<entries, epochs, nextEpoch>>
       ELSE /\ StoreBack(g, w[g].ep, [hash |-> w[g].ver, read |-> w[g].read])
            /\ Step(g, "intent")
    /\ UNCHANGED <<case, graphs, objs, watches, queue, uids, left, wrote,
                   crd, hashes, subs, dirty>>

-----------------------------------------------------------------------------
(* The write-ahead of the intent.                                          *)

\* A bug: the intent is computed and not persisted.
WriteAheadManagedInMemory(g) ==
    /\ w[g].pc = "intent"
    /\ Go(g, [w[g] EXCEPT !.pc = "intent2",
                !.intent = unionManagedResources(w[g].prev,
                             intendedManagedResources(Nodes(g), w[g].val))])
    /\ UNCHANGED <<case, graphs, objs, watches, queue, uids, left, wrote, swVars>>

\* persistManagedResources, when the union is larger than the inventory read.
WriteAheadManaged(g) ==
    LET intent == unionManagedResources(w[g].prev,
                    intendedManagedResources(Nodes(g), w[g].val))
        union == unionManagedResources(graphs[g].managed, intent)
        r == [w[g] EXCEPT !.intent = intent]
    IN  /\ w[g].pc = "intent"
        /\ IF Cardinality(DOMAIN intent) > Cardinality(DOMAIN w[g].prev)
           THEN \E reply \in Replies :
                  /\ WriteGraph(g, [graphs[g] EXCEPT !.managed = union], reply)
                  /\ IF reply = "ok"
                     THEN Go(g, [r EXCEPT !.pc = "intent2", !.managed = union])
                     ELSE Return(g, [r EXCEPT !.managed = union], "failed", TRUE)
           ELSE Go(g, [r EXCEPT !.pc = "intent2"]) /\ UNCHANGED <<graphs, queue, left>>
        /\ UNCHANGED <<case, objs, watches, uids, wrote, swVars>>

\* persistContributions replaces the ledger by what it is given.
persistContributions(g, ledger, reply) ==
    WriteGraph(g, [graphs[g] EXCEPT !.contribs = ledger], reply)

\* A bug: the ledger is written only after the walk.
WriteAheadNoContributions(g) ==
    /\ w[g].pc = "intent2" /\ Step(g, "walk")
    /\ UNCHANGED <<case, graphs, objs, watches, queue, uids, left, wrote, swVars>>

WriteAheadContributions(g) ==
    LET ledger == w[g].prior \union intendedContributions(g, Nodes(g), w[g].val)
    IN  /\ w[g].pc = "intent2"
        /\ IF ledger # w[g].prior
           THEN \E reply \in Replies :
                  /\ persistContributions(g, ledger, reply)
                  /\ IF reply = "ok"
                     THEN Go(g, [w[g] EXCEPT !.pc = "walk", !.contribs = ledger])
                     ELSE Return(g, w[g], "failed", TRUE)
           ELSE Step(g, "walk") /\ UNCHANGED <<graphs, queue, left>>
        /\ UNCHANGED <<case, objs, watches, uids, wrote, swVars>>

-----------------------------------------------------------------------------
(* The walk over the nodes.                                                *)

NodeAt(g) == Nodes(g)[w[g].i]

\* The first node after this one and, for a subgraph, after its children.
Skip(nodes, i) ==
    Min({j \in (i + 1)..(Len(nodes) + 1) :
           j > Len(nodes) \/ nodes[j].frame # nodes[i].id})

Unresolved(r, id, err) ==
    [r EXCEPT !.unres = @ \union {id}, !.soft = recordSoft(@, err)]

\* A bug: only collections are watched.
WatchingCollections(user, os, label) ==
    {[obj |-> o, label |-> label] : o \in {o \in os : label /\ May(user, o)}}

Watching(user, os, label) ==
    {[obj |-> o, label |-> label] : o \in {o \in os : May(user, o)}}

\* A node is skipped if it is ignored, left unresolved if that or what it
\* renders cannot be decided or its kind is unknown yet, and otherwise applied
\* object by object.  A collection's watch is declared at once; of an empty one
\* nothing is.
EnterNode(g) ==
    LET n == NodeAt(g)
        over == [w[g] EXCEPT !.i = Skip(Nodes(g), @)]
    IN  /\ w[g].pc = "walk" /\ w[g].i \in DOMAIN Nodes(g)
        /\ \E ign \in IsIgnored(Nodes(g), w[g].val)[w[g].i] :
             Go(g, CASE ign = "yes" -> over
                     [] ign = "pending" -> Unresolved(over, n.id, "pending")
                     [] ign = "no" /\ n.kind = "graph" -> [w[g] EXCEPT !.i = @ + 1]
                     [] ign = "no" /\ n.kind # "graph" /\ Resolves(n, w[g].val) /\ n.items = {} ->
                          [w[g] EXCEPT !.i = @ + 1]
                     [] ign = "no" /\ n.kind # "graph" /\ ~Resolves(n, w[g].val) ->
                          Unresolved(over, n.id, "pending")
                     [] ign = "no" /\ n.kind \in {"template", "ref"} /\ n.dyn
                          /\ Resolves(n, w[g].val) /\ \E o \in n.items : ~Served(o) ->
                          Unresolved(over, n.id, "notready")
                     [] OTHER ->
                          [w[g] EXCEPT
                             !.pc = "get", !.items = n.items,
                             !.decl = IF n.kind = "template" /\ n.coll
                                      THEN @ \union Watching(w[g].user, n.items, TRUE)
                                      ELSE @])
        /\ UNCHANGED <<case, graphs, objs, watches, queue, uids, left, wrote, swVars>>

\* What the errors of a node's objects amount to.
SoftOf(res) == CASE "deleting" \in res -> "notready"
                 [] "deleting" \notin res /\ "conflict" \in res -> "conflict"
                 [] res \intersect {"deleting", "conflict"} = {}
                      /\ res \intersect {"notready", "waiting"} # {} -> "notready"
                 [] OTHER -> "schema"

\* An object is done with; the last one ends the node.  A node that waits for
\* readyWhen has been applied, any other soft error leaves it unresolved.
ItemDone(r, n, o, verdict, st) ==
    LET res == IF verdict # "done" THEN r.res \union {verdict}
               ELSE IF ~CheckReadiness(n, st) THEN r.res \union {"waiting"}
               ELSE r.res
        next == [r EXCEPT !.pc = "get", !.items = @ \ {o}, !.res = res,
                          !.at = None, !.cur = NoObject]
        end == [next EXCEPT !.pc = "walk", !.i = @ + 1, !.res = {}]
        said == IF n.coll \/ res \ {"waiting"} # {} \/ n.kind = "patch" THEN end
                ELSE [end EXCEPT !.val[n.id] = st]
    IN  IF next.items # {} THEN next
        ELSE IF "hard" \in res THEN [end EXCEPT !.hard = TRUE]
        ELSE IF res = {} THEN said
        ELSE IF res = {"waiting"} THEN [said EXCEPT !.soft = recordSoft(@, "notready")]
        ELSE Unresolved(end, n.id, SoftOf(res))

\* An identity belongs to the first template that renders it in a walk.
claimed(claims, o, id) == \E c \in claims : c.obj = o /\ c.node # id

\* The object is claimed for its node, watched and read.
GetLive(g) ==
    LET n == NodeAt(g)
    IN  /\ w[g].pc = "get"
        /\ \E o \in w[g].items, reply \in Replies \ {"lost"} :
             LET clash == n.kind = "template" /\ claimed(w[g].claims, o, n.id)
                 unmapped == n.kind = "patch" /\ n.dyn /\ ~Served(o)
                 verdict ==
                   IF clash THEN "hard" ELSE IF unmapped THEN "schema"
                   ELSE IF ~May(w[g].user, o) \/ ~Served(o) \/ reply = "fail" THEN "hard"
                   ELSE CASE n.kind = "template" -> templateGuard(objs[o], g)
                          [] n.kind = "patch" -> patchGuard(objs[o])
                          [] n.kind = "ref" -> IF Exists(objs[o]) THEN "read" ELSE "notready"
                 r == [w[g] EXCEPT
                         !.claims = IF n.kind = "template" /\ ~clash
                                    THEN @ \union {[obj |-> o, node |-> n.id]} ELSE @,
                         !.decl = IF clash \/ unmapped \/ (n.kind = "template" /\ n.coll)
                                  THEN @ ELSE @ \union Watching(w[g].user, {o}, FALSE)]
             IN  /\ Spend(reply)
                 /\ Go(g, CASE verdict = "go" -> [r EXCEPT !.pc = "apply", !.at = o, !.cur = objs[o]]
                            [] verdict = "read" -> ItemDone(r, n, o, "done", objs[o].st)
                            [] OTHER -> ItemDone(r, n, o, verdict, None))
        /\ UNCHANGED <<case, graphs, objs, watches, queue, uids, wrote, swVars>>

\* managedResourceFrom and the contribution of a patch.
Landed(g, r, n, o, uid) ==
    IF n.kind = "patch" THEN [r EXCEPT !.contr = @ \union {Contribution(g, n, o)}]
    ELSE [r EXCEPT !.applied = [x \in DOMAIN @ \union {o} |->
                                  IF x = o THEN [node |-> n.id, uid |-> uid] ELSE @[x]]]

\* An apply that failed: a collection keeps what it had seen of the object.
Failed(g, n, o, permanent) ==
    LET r == w[g]
        seen == Landed(g, r, n, o, r.cur.uid)
        verdict == IF n.kind = "template" /\ n.coll
                   THEN classifyRejection(Exists(r.cur), permanent) ELSE "hard"
    IN  CASE verdict = "kept" -> ItemDone(seen, n, o, "done", r.cur.st)
          [] verdict = "held" -> ItemDone(seen, n, o, "notready", None)
          [] OTHER -> ItemDone(r, n, o, verdict, None)

\* The server-side apply of one object.  A conflict is refused, or answered
\* by a second, forced apply, decided by the owners the refusal names.
ApplyObject(g, force) ==
    LET n == NodeAt(g)
        o == w[g].at
        m == IF n.kind = "patch" THEN patchFieldManager(g, n.id) ELSE templateFieldManager(g)
        out == IF force THEN "done"
               ELSE IF n.kind = "patch" THEN contributeApply(objs[o], m, n.set)
               ELSE applyTemplateObject(objs[o], g, n.set)
        new == ssaApply(objs[o], m, n.set, uids[o] + 1)
    IN  /\ w[g].pc = IF force THEN "force" ELSE "apply"
        /\ \E reply \in Replies, permanent \in {FALSE} \union {n.coll} :
             /\ permanent => reply = "fail"
             /\ Spend(reply)
             /\ IF reply = "fail" \/ ~Served(o)
                THEN /\ Go(g, Failed(g, n, o, permanent))
                     /\ UNCHANGED <<objs, queue, uids, wrote>>
                ELSE IF out # "done"
                THEN /\ reply = "ok"
                     /\ IF out = "force" THEN Step(g, "force")
                        ELSE Go(g, ItemDone(w[g], n, o, "conflict", None))
                     /\ UNCHANGED <<objs, queue, uids, wrote>>
                ELSE /\ SetObject(o, new)
                     /\ uids' = Count(o)
                     /\ wrote' = IF n.kind = "patch" THEN wrote
                                 ELSE wrote \union {<<g, o, new.uid>>}
                     /\ Go(g, IF reply = "lost" THEN Failed(g, n, o, FALSE)
                              ELSE ItemDone(Landed(g, w[g], n, o, new.uid),
                                            n, o, "done", new.st))
        /\ UNCHANGED <<case, graphs, watches, swVars>>

-----------------------------------------------------------------------------
(* After the walk.                                                         *)

hardErr(g) == w[g].hard \/ w[g].soft = "schema"

superset(g) == unionManagedResources(w[g].intent, w[g].applied)

\* The watches are committed whatever the outcome, the identity recorded, the
\* inventory compared with what was applied, and the ledger of contributions
\* widened before anything is pruned.
Finish(g) ==
    LET diff == diffManagedResources(w[g].prev, w[g].applied, w[g].unres)
        retained == w[g].contribs \union w[g].contr
        cond == IF hardErr(g) THEN "failed" ELSE IF w[g].soft = None THEN "ok" ELSE w[g].soft
        record == ~hardErr(g) \/ (w[g].sa = None /\ (DOMAIN w[g].applied # {} \/ w[g].contr # {}))
        r == [w[g] EXCEPT !.cond = cond, !.sa = IF record THEN w[g].user ELSE @,
                          !.newSet = diff.newSet, !.todo = diff.prune]
        wide == [r EXCEPT !.managed = superset(g)]
        go == IF hardErr(g) THEN Return(g, [wide EXCEPT !.contribs = retained], cond, TRUE)
              ELSE Go(g, [r EXCEPT !.pc = "prune", !.contribs = retained])
    IN  /\ w[g].pc = "walk" /\ w[g].i \notin DOMAIN Nodes(g)
        /\ watches' = [watches EXCEPT ![g] = w[g].decl]
        /\ IF retained = w[g].contribs THEN go /\ UNCHANGED <<graphs, queue, left>>
           ELSE \E reply \in Replies :
                  /\ persistContributions(g, retained, reply)
                  /\ IF reply = "ok" THEN go ELSE Return(g, wide, "failed", TRUE)
        /\ UNCHANGED <<case, objs, uids, wrote, swVars>>

\* A denied cleanup of a deleted Graph is tried again as the ServiceAccount
\* of the current spec.
MayClean(g, o) ==
    \/ May(w[g].user, o)
    \/ LET current == specOf(g, w[g].ver).sa
       IN  /\ w[g].pc \in {"delete", "unlink"}
           /\ w[g].sa # None /\ current # w[g].sa /\ current # KroUser
           /\ May(current, o)

Drop(r, o, failed) ==
    [r EXCEPT !.todo = [x \in DOMAIN @ \ {o} |-> @[x]], !.err = @ \/ failed,
              !.at = None, !.cur = NoObject,
              !.pc = IF @ \in {"prune", "pruning"} THEN "prune" ELSE "delete"]

\* Delete, one entry: by its UID if it has one, so that a replacement is left
\* alone; otherwise the object is read and must be this Graph's.
DeleteEntry(g) ==
    /\ w[g].pc \in {"prune", "delete"}
    /\ \E o \in DOMAIN w[g].todo, reply \in Replies :
         LET uid == w[g].todo[o].uid
             denied == ~MayClean(g, o) \/ reply = "fail"
             hit == Served(o) /\ ~denied /\ uid # 0 /\ objs[o].uid = uid
         IN  /\ Spend(reply)
             /\ reply = "lost" => hit
             /\ IF hit THEN SetObject(o, Deleted(o, objs[o])) ELSE UNCHANGED <<objs, queue>>
             /\ Go(g, IF uid # 0 THEN Drop(w[g], o, denied \/ ~Served(o) \/ reply = "lost")
                      ELSE IF ~Served(o) \/ denied THEN Drop(w[g], o, Served(o))
                      ELSE IF ~ownedByGraph(objs[o], g) THEN Drop(w[g], o, FALSE)
                      ELSE [w[g] EXCEPT !.at = o, !.cur = objs[o],
                              !.pc = IF @ = "prune" THEN "pruning" ELSE "deleting"])
    /\ UNCHANGED <<case, graphs, watches, uids, wrote, swVars>>

\* The delete of an entry without UID, if the object has not changed since.
DeleteChecked(g) ==
    /\ w[g].pc \in {"pruning", "deleting"}
    /\ \E reply \in Replies :
         LET o == w[g].at
             hit == reply # "fail" /\ objs[o] = w[g].cur
         IN  /\ Spend(reply)
             /\ reply = "lost" => hit
             /\ IF hit THEN SetObject(o, Deleted(o, objs[o])) ELSE UNCHANGED <<objs, queue>>
             /\ Go(g, Drop(w[g], o, reply # "ok" \/ (Exists(objs[o]) /\ ~hit)))
    /\ UNCHANGED <<case, graphs, watches, uids, wrote, swVars>>

\* Everything pruned: what is left is the inventory.  A soft outcome ends the
\* reconcile here, with this cycle's intent folded back in.
EndPrune(g) ==
    LET intended == intendedManagedResources(Nodes(g), w[g].val)
    IN  /\ w[g].pc = "prune" /\ DOMAIN w[g].todo = {}
        /\ IF w[g].err
           THEN Return(g, [w[g] EXCEPT !.managed = superset(g)], "prune", TRUE)
           ELSE IF w[g].soft # None
           THEN Return(g, [w[g] EXCEPT !.managed =
                             unionManagedResources(w[g].newSet, intended)], w[g].cond, TRUE)
           ELSE Go(g, [w[g] EXCEPT !.pc = "release", !.managed = w[g].newSet,
                                   !.rel = w[g].prior \ w[g].contr])
        /\ UNCHANGED <<case, graphs, objs, watches, queue, uids, left, wrote, swVars>>

\* A bug: teardown goes on whatever the deletes said.
EndDeleteAnyway(g) ==
    /\ w[g].pc = "delete" /\ DOMAIN w[g].todo = {}
    /\ Step(g, "unlink")
    /\ UNCHANGED <<case, graphs, objs, watches, queue, uids, left, wrote, swVars>>

\* Teardown: with an error the entries stay and the condition says why.
EndDelete(g) ==
    /\ w[g].pc = "delete" /\ DOMAIN w[g].todo = {}
    /\ IF w[g].err THEN Return(g, w[g], "delete", TRUE) ELSE Step(g, "unlink")
    /\ UNCHANGED <<case, graphs, objs, watches, queue, uids, left, wrote, swVars>>

ReleaseFailed(g) ==
    Return(g, w[g], IF w[g].pc \in {"release", "releasing"} THEN "release" ELSE "delete", TRUE)

\* Release, one contribution: only a target that is there is written to.
ReleaseGet(g) ==
    /\ w[g].pc \in {"release", "unlink"}
    /\ \E c \in w[g].rel, reply \in Replies \ {"lost"} :
         /\ Spend(reply)
         /\ IF reply = "fail" \/ (Served(c.obj) /\ ~MayClean(g, c.obj)) THEN ReleaseFailed(g)
            ELSE IF ~Served(c.obj) \/ ~Exists(objs[c.obj])
            THEN Go(g, [w[g] EXCEPT !.rel = @ \ {c}])
            ELSE Go(g, [w[g] EXCEPT !.at = c, !.pc = IF @ = "release" THEN "releasing" ELSE "unlinking"])
    /\ UNCHANGED <<case, graphs, objs, watches, queue, uids, wrote, swVars>>

\* An identity-only apply: the manager gives up all it owned.
ReleaseApply(g) ==
    LET c == w[g].at
    IN  /\ w[g].pc \in {"releasing", "unlinking"}
        /\ \E reply \in Replies :
             /\ Spend(reply)
             /\ IF reply = "fail" \/ ~Served(c.obj) THEN UNCHANGED <<objs, queue, uids>>
                ELSE /\ SetObject(c.obj, ssaApply(objs[c.obj], c.manager, <<>>, uids[c.obj] + 1))
                     /\ uids' = Count(c.obj)
             /\ IF reply # "ok" THEN ReleaseFailed(g)
                ELSE Go(g, [w[g] EXCEPT !.rel = @ \ {c}, !.at = None,
                              !.pc = IF @ = "releasing" THEN "release" ELSE "unlink"])
        /\ UNCHANGED <<case, graphs, watches, wrote, swVars>>

\* A clean apply ends with the ledger it produced.
SettleContributions(g) ==
    /\ w[g].pc = "release" /\ w[g].rel = {}
    /\ IF w[g].contr = w[g].contribs
       THEN Return(g, w[g], w[g].cond, FALSE) /\ UNCHANGED <<graphs, queue, left>>
       ELSE \E reply \in Replies :
              /\ persistContributions(g, w[g].contr, reply)
              /\ IF reply = "ok" THEN Return(g, w[g], w[g].cond, FALSE)
                 ELSE Return(g, w[g], "failed", TRUE)
    /\ UNCHANGED <<case, objs, watches, uids, wrote, swVars>>

\* A bug: an error is reported in the status and not returned.
updateStatusForgets(g) ==
    LET gr == graphs[g]
        new == IF gr.gen # w[g].gen
               THEN [gr EXCEPT !.managed = unionManagedResources(@, w[g].managed)]
               ELSE [gr EXCEPT !.managed = w[g].managed, !.sa = w[g].sa,
                               !.cond = [of |-> gr.gen, is |-> w[g].cond]]
    IN  /\ w[g].pc = "status"
        /\ graphs' = [graphs EXCEPT ![g] = new] /\ Go(g, Idle)
        /\ queue' = IF new # gr THEN queue \union {g} ELSE queue
        /\ UNCHANGED <<case, objs, watches, uids, left, wrote, swVars>>

\* updateStatus: a status computed for another generation only widens the
\* inventory.  An error, or anything not ready, brings the Graph back.
updateStatus(g) ==
    LET gr == graphs[g]
        sa == IF w[g].sa = None THEN gr.sa ELSE w[g].sa
        new == IF gr.gen # w[g].gen
               THEN [gr EXCEPT !.managed = unionManagedResources(@, w[g].managed), !.sa = sa]
               ELSE [gr EXCEPT !.managed = w[g].managed, !.sa = sa,
                               !.cond = [of |-> gr.gen, is |-> w[g].cond]]
    IN  /\ w[g].pc = "status"
        /\ \E reply \in Replies :
             /\ Spend(reply)
             /\ graphs' = IF reply = "fail" THEN graphs ELSE [graphs EXCEPT ![g] = new]
             /\ queue' = IF w[g].err \/ reply # "ok" \/ new # gr THEN queue \union {g} ELSE queue
        /\ Go(g, Idle)
        /\ UNCHANGED <<case, objs, watches, uids, wrote, swVars>>

NoGraph(g) == [graphs[g] EXCEPT !.up = FALSE, !.fin = FALSE, !.managed = <<>>,
                                !.contribs = {}, !.sa = None]

\* The last step of a teardown: every trace of the Graph in memory goes, then
\* its finalizer, and with it the Graph.
setUnmanaged(g) ==
    /\ w[g].pc = "unlink" /\ w[g].rel = {}
    /\ Invalidate({g}) /\ RemoveGraph(g)
    /\ watches' = [watches EXCEPT ![g] = {}]
    /\ \E reply \in Replies :
         /\ Spend(reply)
         /\ graphs' = IF reply = "fail" THEN graphs ELSE [graphs EXCEPT ![g] = NoGraph(g)]
         /\ queue' = IF reply = "ok" THEN queue ELSE queue \union {g}
    /\ Go(g, Idle)
    /\ UNCHANGED <<case, objs, uids, wrote, crd, hashes, dirty>>

Reconcile(g) ==
    \/ Begin(g) \/ setManaged(g) \/ CompileStart(g) \/ CompileEnd(g)
    \/ WriteAheadManaged(g) \/ WriteAheadContributions(g)
    \/ EnterNode(g) \/ GetLive(g) \/ \E force \in BOOLEAN : ApplyObject(g, force)
    \/ Finish(g) \/ DeleteEntry(g) \/ DeleteChecked(g) \/ EndPrune(g) \/ EndDelete(g)
    \/ ReleaseGet(g) \/ ReleaseApply(g) \/ SettleContributions(g)
    \/ updateStatus(g) \/ setUnmanaged(g)

-----------------------------------------------------------------------------
(* Everybody else.                                                         *)

\* A user applies the next version of the spec.
EditGraph(g) ==
    /\ graphs[g].up /\ ~graphs[g].deleting
    /\ graphs[g].ver < Len(case.specs[g])
    /\ graphs' = [graphs EXCEPT ![g].ver = @ + 1, ![g].gen = @ + 1]
    /\ queue' = queue \union {g}
    /\ UNCHANGED <<case, objs, watches, w, uids, left, wrote, swVars>>

DeleteGraph(g) ==
    LET gr == graphs[g]
    IN  /\ gr.up /\ ~gr.deleting /\ g \in case.kill
        /\ graphs' = [graphs EXCEPT ![g] =
                        IF gr.fin THEN [gr EXCEPT !.deleting = TRUE, !.gen = gr.gen + 1]
                        ELSE NoGraph(g)]
        /\ queue' = queue \union {g}
        /\ UNCHANGED <<case, objs, watches, w, uids, left, wrote, swVars>>

\* Somebody else creates, edits or deletes an object.
Meddle(o) ==
    /\ left.humans > 0 /\ o \in case.open /\ Served(o)
    /\ left' = [left EXCEPT !.humans = @ - 1]
    /\ \/ /\ ~Exists(objs[o])
          /\ SetObject(o, ssaApply(NoObject, Someone, [f \in {"data"} |-> "theirs"], uids[o] + 1))
          /\ uids' = Count(o)
       \/ /\ Exists(objs[o]) /\ UNCHANGED uids
          /\ \/ SetObject(o, Deleted(o, objs[o]))
             \/ \E f \in {"data", "aux"} :
                  SetObject(o, [objs[o] EXCEPT !.val[f] = "theirs", !.own[f] = {Someone}])
    /\ UNCHANGED <<case, graphs, watches, w, wrote, swVars>>

\* An object's own controller reports a status.
Report(o) ==
    /\ left.reports > 0 /\ o \in case.lively /\ Exists(objs[o])
    /\ left' = [left EXCEPT !.reports = @ - 1]
    /\ \E st \in {"on", "off"} \ {objs[o].st} : SetObject(o, [objs[o] EXCEPT !.st = st])
    /\ UNCHANGED <<case, graphs, watches, w, uids, wrote, swVars>>

\* A terminating object loses its last finalizer.
Gone(o) ==
    /\ Exists(objs[o]) /\ objs[o].term
    /\ SetObject(o, NoObject)
    /\ UNCHANGED <<case, graphs, watches, w, uids, left, wrote, swVars>>

\* A CRD that goes takes its objects with it.
CrdChanges(k) ==
    /\ ChangeCrd(k)
    /\ objs' = [o \in Objects |-> IF KindOf[o] = k /\ ~crd'[k].up THEN NoObject ELSE objs[o]]
    /\ queue' = queue \union UNION {Woken(o, objs'[o]) : o \in Objects}
    /\ UNCHANGED <<case, graphs, watches, w, uids, left, wrote,
                   hashes, subs, dirty, entries, epochs, nextEpoch>>

CrdEvent(k) ==
    /\ onEvent(k)
    /\ UNCHANGED <<case, graphs, objs, watches, queue, w, uids, left, wrote>>

\* The watcher hands a Graph it has marked to the controller's queue.
Drain(g) ==
    /\ g \in dirty
    /\ dirty' = dirty \ {g} /\ queue' = queue \union {g}
    /\ UNCHANGED <<case, graphs, objs, watches, w, uids, left, wrote,
                   crd, hashes, subs, entries, epochs, nextEpoch>>

Crash ==
    /\ left.faults > 0
    /\ left' = [left EXCEPT !.faults = @ - 1]
    /\ w' = [g \in Graphs |-> Idle]
    /\ queue' = {g \in Graphs : graphs[g].up}
    /\ watches' = [g \in Graphs |-> {}]
    /\ SWRestart
    /\ UNCHANGED <<case, graphs, objs, uids, wrote>>

Init ==
    /\ case \in Cases
    /\ graphs = [g \in Graphs |->
         [up |-> g \in DOMAIN case.specs, gen |-> 1, ver |-> 1, deleting |-> FALSE,
          fin |-> FALSE, managed |-> <<>>, contribs |-> {}, sa |-> None,
          cond |-> [of |-> 0, is |-> "none"]]]
    /\ objs = case.objs
    /\ watches = [g \in Graphs |-> {}]
    /\ queue = DOMAIN case.specs
    /\ w = [g \in Graphs |-> Idle]
    /\ uids = [o \in Objects |-> objs[o].uid]
    /\ left = case.budget
    /\ wrote = {}
    /\ SWInit(case.installed)

Next ==
    \/ \E g \in Graphs : Reconcile(g) \/ EditGraph(g) \/ DeleteGraph(g) \/ Drain(g)
    \/ \E o \in Objects : Meddle(o) \/ Report(o) \/ Gone(o)
    \/ \E k \in Kinds : CrdChanges(k) \/ CrdEvent(k)
    \/ Crash

Spec == Init /\ [][Next]_vars

-----------------------------------------------------------------------------
(* Properties.                                                             *)

TypeOK ==
    /\ \A g \in Graphs :
         /\ graphs[g].ver <= graphs[g].gen /\ graphs[g].cond.of <= graphs[g].gen
         /\ DOMAIN graphs[g].managed \subseteq Objects
         /\ \A c \in graphs[g].contribs : c.obj \in Objects /\ c.manager.graph = g
    /\ \A o \in Objects : objs[o].uid <= uids[o]
    /\ queue \subseteq Graphs
    /\ SWTypeOK

\* What the write-ahead of a cycle announces.
Announced(nodes) == {n \in projected(nodes, NoValues(nodes)) : ~n.dyn}

\* The nodes it cannot: their kind, their inclusion or their rendering waits
\* for what others report.
Late(g) ==
    UNION {LET nodes == specOf(g, v).nodes
           IN  {nodes[i] : i \in DOMAIN nodes} \ Announced(nodes) : v \in DOMAIN case.specs[g]}

Undisturbed == left.faults = case.budget.faults

\* A collection of some version of the spec S renders o.
Collected(S, o) ==
    \E v \in DOMAIN S : \E i \in DOMAIN S[v].nodes :
      S[v].nodes[i].coll /\ o \in S[v].nodes[i].items

\* The object is there to stay and carries the Graph's template manager.
Mine(g, o) ==
    Exists(objs[o]) /\ ~objs[o].term /\ templateFieldManager(g) \in Managers(objs[o])

\* No template of another Graph has reached it.
Alone(g, o) == \A h \in Graphs \ {g} : <<h, o, objs[o].uid>> \notin wrote

\* An inventory m of g that leads to the object: it lists its UID, or no UID and
\* g alone has written it.  (A collection may have listed it under the UID of one
\* that it replaced.)
Listed(g, m, o) ==
    /\ o \in DOMAIN m
    /\ \/ m[o].uid = objs[o].uid
       \/ m[o].uid = 0 /\ Alone(g, o) /\ (Collected(case.specs[g], o) => objs[o].uid = 1)

\* What the write-ahead has to cover, listed or not: the first object under its
\* name, written by no other Graph, of nodes that can all be announced.
Foreseen(g, o) ==
    /\ objs[o].uid = 1 /\ Alone(g, o)
    /\ ~\E n \in Late(g) : n.kind = "template" /\ o \in n.items

\* The objects the stored inventory has to answer for: what the write-ahead
\* covers, from the moment it is written, and any other once it is listed.
Held(g) ==
    {o \in Objects : Mine(g, o) /\ (Foreseen(g, o) \/ Listed(g, graphs[g].managed, o))}

Inventory == INSTANCE GraphInventory WITH
    up <- {g \in Graphs : graphs[g].up},
    known <- [g \in Graphs |-> DOMAIN graphs[g].managed],
    held <- [g \in Graphs |-> Held(g)]

\* The reconciler implements GraphInventory: through crashes, failed calls,
\* edits and deletion, an object that can be foreseen is listed in
\* status.managedResources before it is written (others from the status of the
\* cycle that wrote them on), what is listed is dropped only once deleted or
\* replaced, and the finalizer goes last.
ImplementsInventory == Inventory!Spec

\* Of a Graph that is gone no template object is left.  After a crash or a
\* failed call three are outside what the write-ahead covers: the object of a
\* node it cannot announce, one that has come up again under a new UID, and one
\* that a peer has written too.
NoOrphans ==
    \A g \in DOMAIN case.specs, o \in Objects :
      ~graphs[g].up /\ Mine(g, o)
        => /\ ~Undisturbed
           /\ \/ \E n \in Late(g) : n.kind = "template" /\ o \in n.items
              \/ objs[o].uid > 1
              \/ ~Alone(g, o)

\* A Graph that is gone has released every field a patch of it owned, but after
\* a crash or a failed call those of a node the write-ahead cannot announce.
NoResidue ==
    \A g \in DOMAIN case.specs, o \in Objects :
      ~graphs[g].up /\ Exists(objs[o]) =>
        \A m \in Managers(objs[o]) :
          m.kind = "patch" /\ m.graph = g
            => ~Undisturbed /\ \E n \in Late(g) : n.kind = "patch" /\ n.id = m.node

Deletes(g, o) ==
    /\ Running(g) /\ w[g].pc \in {"prune", "pruning", "delete", "deleting"}
    /\ w'[g] # w[g] /\ o \in DOMAIN w[g].todo
    /\ Exists(objs[o]) /\ objs'[o] # objs[o]

\* Prune and teardown delete no object that no template of the Graph has
\* reached in this incarnation, whatever the inventory lists: an entry of the
\* intent, an object a peer created first, a replacement under the same name.
\* (A collection also lists the items of it that refused its update.)
DeletesOnlyOwn ==
    [][\A g \in Graphs, o \in Objects :
         Deletes(g, o) /\ ~Collected(case.specs[g], o)
           => <<g, o, objs[o].uid>> \in wrote]_vars

\* What a node publishes once its object is there.
LiveVal(nodes) ==
    [id \in {nodes[i].id : i \in DOMAIN nodes} |->
       LET n == nodes[CHOOSE i \in DOMAIN nodes : nodes[i].id = id]
       IN  IF n.kind \in {"template", "ref"} /\ ~n.coll /\ n.items # {}
           THEN LET o == CHOOSE x \in n.items : TRUE
                IN  IF Exists(objs[o]) THEN objs[o].st ELSE "none"
           ELSE "none"]

Included(nodes) ==
    LET ign == IsIgnored(nodes, LiveVal(nodes))
    IN  {nodes[i] : i \in {i \in DOMAIN nodes : ign[i] = {"no"}
           /\ \A j \in DOMAIN nodes : nodes[j].id = nodes[i].frame => ign[j] = {"no"}}}

Owns(o, m, set) ==
    Exists(objs[o]) /\ \A f \in DOMAIN set : objs[o].val[f] = set[f] /\ m \in objs[o].own[f]

\* A Graph at rest that reports its current generation as converged is what
\* it says: every template it includes is in place with its fields, the
\* inventory lists exactly these objects under their UIDs, the ledger exactly
\* its patches, and no drift or status has gone unnoticed.  (At rest includes
\* that the watcher has seen the CRDs as they are; which version of them the
\* program was compiled from is not compared.)
ConvergedIsExact ==
    \A g \in Graphs :
      LET gr == graphs[g]
          on == Included(specOf(g, gr.ver).nodes)
          templates == {n \in on : n.kind = "template"}
          patches == {n \in on : n.kind = "patch"}
      IN  /\ gr.up /\ ~gr.deleting /\ ~Running(g) /\ g \notin queue /\ g \notin dirty
          /\ gr.cond = [of |-> gr.gen, is |-> "ok"]
          /\ hashes = crd
          => /\ gr.managed = Entries(templates, LAMBDA o : objs[o].uid)
             /\ gr.contribs = UNION {{Contribution(g, n, o) : o \in n.items} : n \in patches}
             /\ \A n \in templates : \A o \in n.items :
                  Exists(objs[o]) /\ (n.coll \/ Owns(o, templateFieldManager(g), n.set))
             /\ \A n \in patches : \A o \in n.items : Owns(o, patchFieldManager(g, n.id), n.set)

\* No Graph with work to do is forgotten: it converged at its generation or
\* was refused for good, or a reconcile of it runs or is queued.
NotForgotten ==
    \A g \in Graphs :
      graphs[g].up => \/ Running(g) \/ g \in queue
                      \/ /\ ~graphs[g].deleting /\ graphs[g].cond.of = graphs[g].gen
                         /\ \/ graphs[g].cond.is = "ok"
                            \/ /\ graphs[g].cond.is = "invalid"
                               /\ specOf(g, graphs[g].ver).sa = KroUser

\* The guarantee writeAheadIntent states: of a Graph that is gone nothing a
\* template of it has written is left, also after a crash or a failed call.
NothingLeftBehind ==
    \A g \in DOMAIN case.specs, o \in Objects :
      ~graphs[g].up /\ Exists(objs[o]) /\ ~objs[o].term
        => templateFieldManager(g) \notin Managers(objs[o])

\* Prune deletes nothing of a node that could not be decided or rendered in
\* this cycle, nor of a subgraph that could not: the previous entries are
\* preserved until it can.
UndecidedIsKept ==
    [][\A g \in Graphs, o \in Objects :
         Deletes(g, o) /\ w[g].pc \in {"prune", "pruning"}
           => \A i \in DOMAIN Nodes(g) :
                LET n == Nodes(g)[i]
                IN  n.id = w[g].todo[o].node => {n.id, n.frame} \intersect w[g].unres = {}]_vars

=============================================================================
