----------------------- MODULE GraphOwnershipProofs -----------------------
(***************************************************************************)
(* Proofs about what a Graph deletes.                                      *)
(*                                                                         *)
(* Two invariants carry them.  Accounts: every inventory and ledger, the   *)
(* stored ones and the nine copies a run works with, lists objects that a  *)
(* version of the spec renders, and under a UID only an object that a      *)
(* template of the Graph has reached.  Stock: an object of the cluster     *)
(* carries a Graph's template manager only if a template of it has.        *)
(***************************************************************************)
EXTENDS GraphControllerProofs

-----------------------------------------------------------------------------
(* What inventories list.                                                  *)

\* A node of some version of the spec S renders o.
Rendered(S, o, id) ==
    \E v \in DOMAIN S : \E i \in DOMAIN S[v].nodes :
      S[v].nodes[i].id = id /\ o \in S[v].nodes[i].items

\* An entry names a node that renders its object, and under a UID only an object
\* that a template of the Graph has reached (W is wrote), unless it is a collection's.
Entry(S, W, g, o, e) ==
    /\ DOMAIN e = {"node", "uid"} /\ Rendered(S, o, e.node)
    /\ e.uid = 0 \/ <<g, o, e.uid>> \in W \/ Collected(S, o)
Listing(S, W, g, m) == \A o \in DOMAIN m : Entry(S, W, g, o, m[o])

\* The ledger of contributions.
Ledger(S, g, cs) == \A c \in cs : c.manager.graph = g /\ \E id : Rendered(S, c.obj, id)

LEMMA ListingGrows ==
    ASSUME NEW S, NEW W, NEW V, W \subseteq V, NEW g, NEW m, Listing(S, W, g, m)
    PROVE  Listing(S, V, g, m)
BY DEF Listing, Entry

LEMMA EmptyListing == \A S, W, g : Listing(S, W, g, <<>>) /\ Ledger(S, g, {})
BY DEF Listing, Ledger

LEMMA UnionListing ==
    ASSUME NEW S, NEW W, NEW g, NEW p, NEW a, Listing(S, W, g, p), Listing(S, W, g, a)
    PROVE  Listing(S, W, g, unionManagedResources(p, a))
<1> DEFINE u == unionManagedResources(p, a)
<1>0. DOMAIN u = DOMAIN p \cup DOMAIN a
  BY DEF unionManagedResources
<1> SUFFICES ASSUME NEW o \in DOMAIN u PROVE Entry(S, W, g, o, u[o])
  BY DEF Listing
<1>1. CASE o \notin DOMAIN p
  <2>1. u[o] = a[o] /\ o \in DOMAIN a
    BY <1>0, <1>1 DEF unionManagedResources
  <2> QED
    BY <2>1 DEF Listing
<1>2. CASE o \in DOMAIN p /\ o \in DOMAIN a /\ a[o].uid # 0
  <2>1. u[o] = [p[o] EXCEPT !.uid = a[o].uid]
    BY <1>0, <1>2 DEF unionManagedResources
  <2>2. Entry(S, W, g, o, p[o]) /\ Entry(S, W, g, o, a[o])
    BY <1>2 DEF Listing
  <2>3. u[o].node = p[o].node /\ u[o].uid = a[o].uid /\ DOMAIN u[o] = {"node", "uid"}
    BY <2>1, <2>2 DEF Entry
  <2> HIDE DEF u
  <2> QED
    BY <2>2, <2>3 DEF Entry
<1>3. CASE o \in DOMAIN p /\ ~(o \in DOMAIN a /\ a[o].uid # 0)
  <2>1. u[o] = p[o]
    BY <1>0, <1>3 DEF unionManagedResources
  <2> QED
    BY <1>3, <2>1 DEF Listing
<1> QED
  BY <1>1, <1>2, <1>3

LEMMA DiffListing ==
    ASSUME NEW S, NEW W, NEW g, NEW p, NEW a, NEW unres, Listing(S, W, g, p), Listing(S, W, g, a)
    PROVE  /\ Listing(S, W, g, diffManagedResources(p, a, unres).newSet)
           /\ Listing(S, W, g, diffManagedResources(p, a, unres).prune)
<1> DEFINE gone == DOMAIN p \ DOMAIN a
           kept == {o \in gone : p[o].node \in unres}
           new == [o \in DOMAIN a \cup kept |-> IF o \in DOMAIN a THEN a[o] ELSE p[o]]
           prune == [o \in gone \ kept |-> p[o]]
<1>1. diffManagedResources(p, a, unres).newSet = new /\ diffManagedResources(p, a, unres).prune = prune
  BY DEF diffManagedResources
<1>2. Listing(S, W, g, prune)
  BY DEF Listing
<1>3. Listing(S, W, g, new)
  <2>1. DOMAIN new = DOMAIN a \cup kept
    OBVIOUS
  <2>2. ASSUME NEW o \in DOMAIN new PROVE Entry(S, W, g, o, new[o])
    <3>1. CASE o \in DOMAIN a
      <4>1. new[o] = a[o]
        BY <3>1
      <4> QED
        BY <3>1, <4>1 DEF Listing
    <3>2. CASE o \notin DOMAIN a
      <4>1. o \in DOMAIN p /\ new[o] = p[o]
        BY <2>1, <3>2
      <4> QED
        BY <4>1 DEF Listing
    <3> QED
      BY <3>1, <3>2
  <2> QED
    BY <2>2 DEF Listing
<1> HIDE DEF new, prune
<1> QED
  BY <1>1, <1>2, <1>3

LEMMA ProjectedNodes ==
    ASSUME NEW nodes, NEW val, NEW n \in projected(nodes, val)
    PROVE  \E i \in DOMAIN nodes : n = nodes[i]
BY DEF projected

LEMMA IntendedListing ==
    ASSUME NEW S, NEW W, NEW g, NEW v \in DOMAIN S, NEW val
    PROVE  Listing(S, W, g, intendedManagedResources(S[v].nodes, val))
<1> DEFINE nodes == S[v].nodes
           ns == {n \in projected(nodes, val) : n.kind = "template" /\ ~n.dyn}
           os == UNION {n.items : n \in ns}
           owner(o) == CHOOSE n \in ns : o \in n.items
           m == [o \in os |-> [node |-> owner(o).id, uid |-> 0]]
<1>1. intendedManagedResources(nodes, val) = m
  BY DEF intendedManagedResources, Entries
<1>2. \A n \in ns : \E i \in DOMAIN nodes : n = nodes[i]
  BY ProjectedNodes
<1> HIDE DEF ns
<1>3. ASSUME NEW o \in os PROVE Entry(S, W, g, o, m[o])
  <2>1. \E n \in ns : o \in n.items
    BY <1>3
  <2>2. owner(o) \in ns /\ o \in owner(o).items
    BY <2>1
  <2>3. Rendered(S, o, owner(o).id)
    BY <1>2, <2>2 DEF Rendered
  <2>4. m[o] = [node |-> owner(o).id, uid |-> 0]
    BY <1>3
  <2> HIDE DEF m, owner
  <2> QED
    BY <2>3, <2>4 DEF Entry
<1> QED
  BY <1>1, <1>3 DEF Listing

LEMMA IntendedLedger ==
    ASSUME NEW S, NEW g, NEW v \in DOMAIN S, NEW val
    PROVE  Ledger(S, g, intendedContributions(g, S[v].nodes, val))
<1> DEFINE nodes == S[v].nodes
           ns == {n \in projected(nodes, val) : n.kind = "patch" /\ ~n.dyn}
           of(n) == {Contribution(g, n, o) : o \in n.items}
<1>1. intendedContributions(g, nodes, val) = UNION {of(n) : n \in ns}
  BY DEF intendedContributions
<1>2. \A n \in ns : \E i \in DOMAIN nodes : n = nodes[i]
  BY ProjectedNodes
<1> HIDE DEF ns
<1>3. ASSUME NEW c \in UNION {of(n) : n \in ns}
      PROVE  c.manager.graph = g /\ \E id : Rendered(S, c.obj, id)
  <2>1. PICK n \in ns : c \in of(n)
    BY <1>3
  <2>2. PICK o \in n.items : c = Contribution(g, n, o)
    BY <2>1
  <2>3. c.obj = o /\ c.manager.graph = g
    BY <2>2 DEF Contribution, patchFieldManager
  <2>4. Rendered(S, o, n.id)
    BY <1>2 DEF Rendered
  <2> QED
    BY <2>3, <2>4
<1> QED
  BY <1>1, <1>3 DEF Ledger

-----------------------------------------------------------------------------
(* The books of a run: its inventories, ledgers and place in the walk.     *)

Lists == {"managed", "prev", "intent", "applied", "newSet", "todo"}
Ledgers == {"contribs", "prior", "contr"}

\* A run applies items of the node it is at, and deletes without a UID only what
\* it has seen to be its own.
Placed(S, g, r) ==
    /\ r.pc \in {"get", "apply", "force"} =>
         r.i \in DOMAIN S[r.ver].nodes /\ r.items \subseteq S[r.ver].nodes[r.i].items
    /\ r.pc \in {"apply", "force"} => r.at \in S[r.ver].nodes[r.i].items
    /\ r.pc \in {"pruning", "deleting"} => templateFieldManager(g) \in Managers(r.cur)

Books(S, W, g, r) ==
    /\ \A f \in Lists : Listing(S, W, g, r[f])
    /\ \A f \in Ledgers : Ledger(S, g, r[f])
    /\ Placed(S, g, r)

LEMMA BooksKept ==
    ASSUME NEW S, NEW W, NEW V, W \subseteq V, NEW g, NEW r, NEW s, NEW F,
           Books(S, W, g, r), Edited(r, s, F),
           \A f \in Lists \cap F : Listing(S, V, g, s[f]),
           \A f \in Ledgers \cap F : Ledger(S, g, s[f]),
           Placed(S, g, s)
    PROVE  Books(S, V, g, s)
<1>1. Lists \subseteq RunFields /\ Ledgers \subseteq RunFields
  BY DEF Lists, Ledgers, RunFields
<1>2. \A f \in Lists : Listing(S, V, g, s[f])
  BY <1>1, ListingGrows DEF Books, Edited
<1>3. \A f \in Ledgers : Ledger(S, g, s[f])
  BY <1>1 DEF Books, Edited
<1> QED
  BY <1>2, <1>3 DEF Books

\* A run that neither walks nor deletes keeps its place.
LEMMA StaysPlaced ==
    ASSUME NEW S, NEW g, NEW r, NEW s, NEW F, Placed(S, g, r), Edited(r, s, F), "i" \notin F,
           s.pc \notin {"get", "apply", "force", "pruning", "deleting"}
    PROVE  Placed(S, g, s)
<1>1. s.i = r.i
  BY DEF Edited, RunFields
<1> QED
  BY <1>1 DEF Placed

\* The books of everything: of the Graphs, and of their runs.
Kempt(g) ==
    /\ Listing(case.specs[g], wrote, g, graphs[g].managed)
    /\ Ledger(case.specs[g], g, graphs[g].contribs)
    /\ w[g] # Idle => Books(case.specs[g], wrote, g, w[g])
Blank(g) == graphs[g].managed = <<>> /\ graphs[g].contribs = {}
Accounts == \A g \in Graphs : IF g \in DOMAIN case.specs THEN Kempt(g) ELSE Blank(g)

\* What a step of g must leave of its books.
KemptAfter(g) ==
    /\ Listing(case.specs[g], wrote', g, graphs'[g].managed)
    /\ Ledger(case.specs[g], g, graphs'[g].contribs)
    /\ w'[g] # Idle => Books(case.specs[g], wrote', g, w'[g])

LEMMA AccountsFollow ==
    ASSUME Accounts, NEW g \in Graphs, case' = case, wrote \subseteq wrote',
           \A h \in Graphs \ {g} : graphs'[h] = graphs[h] /\ (w'[h] = w[h] \/ w'[h] = Idle),
           IF g \in DOMAIN case.specs THEN KemptAfter(g) ELSE graphs'[g] = graphs[g]
    PROVE  Accounts'
<1>1. ASSUME NEW h \in Graphs \ {g}, h \in DOMAIN case.specs PROVE KemptAfter(h)
  <2>1. Kempt(h)
    BY <1>1 DEF Accounts
  <2>2. Listing(case.specs[h], wrote', h, graphs'[h].managed)
    BY <2>1, ListingGrows DEF Kempt
  <2>3. Ledger(case.specs[h], h, graphs'[h].contribs)
    BY <2>1 DEF Kempt
  <2>4. ASSUME w[h] # Idle PROVE Books(case.specs[h], wrote', h, w[h])
    BY <2>1, <2>4, ListingGrows DEF Kempt, Books
  <2> QED
    BY <2>2, <2>3, <2>4 DEF KemptAfter
<1>2. ASSUME NEW h \in Graphs, h \in DOMAIN case.specs PROVE KemptAfter(h)
  BY <1>1, <1>2
<1>3. ASSUME NEW h \in Graphs, h \in DOMAIN case.specs PROVE Kempt(h)'
  BY <1>2, <1>3 DEF KemptAfter, Kempt
<1>4. ASSUME NEW h \in Graphs, h \notin DOMAIN case.specs PROVE Blank(h)'
  BY <1>4 DEF Accounts, Blank
<1> QED
  BY <1>3, <1>4 DEF Accounts

\* A run that goes on with some of its books changed.
LEMMA MovesKempt ==
    ASSUME Accounts, NEW g \in Graphs, g \in DOMAIN case.specs, w[g] # Idle,
           wrote \subseteq wrote', NEW F, NEW G, NEW pcs, Moves(g, F, pcs), Writes(g, G),
           \A f \in Lists \cap F : Listing(case.specs[g], wrote', g, w'[g][f]),
           \A f \in Ledgers \cap F : Ledger(case.specs[g], g, w'[g][f]),
           Placed(case.specs[g], g, w'[g]),
           "managed" \in G => Listing(case.specs[g], wrote', g, graphs'[g].managed),
           "contribs" \in G => Ledger(case.specs[g], g, graphs'[g].contribs)
    PROVE  KemptAfter(g)
<1>1. Kempt(g)
  BY DEF Accounts
<1>2. Books(case.specs[g], wrote', g, w'[g])
  BY <1>1, BooksKept DEF Kempt, Moves
<1>3. Listing(case.specs[g], wrote', g, graphs'[g].managed)
  <2>1. CASE "managed" \in G
    BY <2>1
  <2>2. CASE "managed" \notin G
    <3>1. graphs'[g].managed = graphs[g].managed
      BY <2>2 DEF Writes, GraphFields
    <3> QED
      BY <1>1, <3>1, ListingGrows DEF Kempt
  <2> QED
    BY <2>1, <2>2
<1>4. Ledger(case.specs[g], g, graphs'[g].contribs)
  BY <1>1 DEF Kempt, Writes, GraphFields
<1> QED
  BY <1>2, <1>3, <1>4 DEF KemptAfter

LEMMA AtWork ==
    ASSUME Shapes, Versions, Accounts, NEW g \in Graphs, w[g].pc # "idle"
    PROVE  /\ g \in DOMAIN case.specs /\ w[g].ver \in DOMAIN case.specs[g]
           /\ Nodes(g) = case.specs[g][w[g].ver].nodes
           /\ w[g] # Idle /\ DOMAIN w[g] = RunFields /\ DOMAIN graphs[g] = GraphFields
           /\ Kempt(g) /\ Books(case.specs[g], wrote, g, w[g])
<1>1. w[g] # Idle /\ DOMAIN w[g] = RunFields /\ DOMAIN graphs[g] = GraphFields
  BY RunsFacts, IdleIsNoRun DEF Shapes
<1>2. case \in Cases /\ Known(g, w[g].ver)
  BY <1>1 DEF Versions, Versioned
<1>3. g \in DOMAIN case.specs /\ w[g].ver \in DOMAIN case.specs[g]
  BY <1>2, CasesAssumption DEF Known
<1>4. Kempt(g) /\ Books(case.specs[g], wrote, g, w[g])
  BY <1>1, <1>3 DEF Accounts, Kempt
<1> QED
  BY <1>1, <1>3, <1>4 DEF Nodes, specOf

\* A step that leaves the books and the walk alone.
LEMMA QuietKempt ==
    ASSUME Shapes, Versions, Accounts, NEW g \in Graphs, w[g].pc # "idle", UNCHANGED wrote,
           NEW F, NEW pcs, Moves(g, F, pcs), Writes(g, {"fin"}),
           F \cap (Lists \cup Ledgers \cup {"i"}) = {},
           pcs \cap {"get", "apply", "force", "pruning", "deleting"} = {}
    PROVE  KemptAfter(g)
<1>1. g \in DOMAIN case.specs /\ w[g] # Idle /\ Books(case.specs[g], wrote, g, w[g])
  BY AtWork
<1>2. Placed(case.specs[g], g, w'[g])
  BY <1>1, StaysPlaced DEF Books, Moves
<1>3. Lists \cap F = {} /\ Ledgers \cap F = {}
  OBVIOUS
<1> QED
  BY <1>1, <1>2, <1>3, MovesKempt

LEMMA WriteAheadManagedKempt ==
    ASSUME Shapes, Versions, Accounts, NEW g \in Graphs, WriteAheadManaged(g)
    PROVE  KemptAfter(g)
<1> DEFINE S == case.specs[g]
           intent == unionManagedResources(w[g].prev, intendedManagedResources(Nodes(g), w[g].val))
           union == unionManagedResources(graphs[g].managed, intent)
           r == [w[g] EXCEPT !.intent = intent]
           s == [r EXCEPT !.pc = "intent2", !.managed = union]
           t == [r EXCEPT !.managed = union, !.pc = "status", !.cond = "failed", !.err = TRUE]
           u == [r EXCEPT !.pc = "intent2"]
           F == Ended \cup {"intent", "managed"}
           new == [graphs[g] EXCEPT !.managed = union]
<1>0. /\ w[g].pc = "intent" /\ Writes(g, {"managed"}) /\ Moves(g, F, {"status", "intent2"})
      /\ UNCHANGED wrote
  BY WriteAheadManagedFacts DEF WriteAheadManaged
<1>1. /\ Go(g, s) \/ Go(g, t) \/ Go(g, u)
      /\ graphs' = graphs \/ graphs' = [graphs EXCEPT ![g] = new]
  BY DEF WriteAheadManaged, WriteGraph, Return
<1>2. /\ g \in DOMAIN case.specs /\ w[g].ver \in DOMAIN S /\ Nodes(g) = S[w[g].ver].nodes
      /\ w[g] # Idle /\ DOMAIN w[g] = RunFields /\ DOMAIN graphs[g] = GraphFields
      /\ Kempt(g) /\ Books(S, wrote, g, w[g])
  BY <1>0, AtWork
<1>3. Listing(S, wrote, g, w[g].prev) /\ Listing(S, wrote, g, w[g].managed)
  BY <1>2 DEF Books, Lists
<1>4. Listing(S, wrote, g, intent)
  BY <1>2, <1>3, IntendedListing, UnionListing
<1>5. Listing(S, wrote, g, union)
  BY <1>2, <1>4, UnionListing DEF Kempt
<1> HIDE DEF intent, union
<1>6. /\ s.intent = intent /\ s.managed = union
      /\ t.intent = intent /\ t.managed = union
      /\ u.intent = intent /\ u.managed = w[g].managed
  BY <1>2 DEF RunFields
<1>7. w'[g] = s \/ w'[g] = t \/ w'[g] = u
  BY <1>1 DEF Go, Shapes
<1> HIDE DEF s, t, u
<1>8. Listing(S, wrote, g, w'[g].intent) /\ Listing(S, wrote, g, w'[g].managed)
  BY <1>3, <1>4, <1>5, <1>6, <1>7
<1>9. graphs'[g].managed = graphs[g].managed \/ graphs'[g].managed = union
  BY <1>1, <1>2 DEF Shapes, GraphFields
<1>10. \A f \in Lists \cap F : f \in {"intent", "managed"}
  BY DEF Lists, Ended
<1>11. Ledgers \cap F = {} /\ "i" \notin F
  BY DEF Ledgers, Ended
<1> HIDE DEF F
<1>12. Placed(S, g, w'[g])
  BY <1>0, <1>2, <1>11, StaysPlaced DEF Books, Moves
<1>13. Listing(S, wrote, g, graphs'[g].managed)
  BY <1>2, <1>5, <1>9 DEF Kempt
<1>14. \A f \in Lists \cap F : Listing(S, wrote, g, w'[g][f])
  BY <1>8, <1>10
<1> QED
  BY <1>0, <1>2, <1>11, <1>12, <1>13, <1>14, MovesKempt

LEMMA LedgersJoin ==
    ASSUME NEW S, NEW g, NEW a, NEW b, Ledger(S, g, a), Ledger(S, g, b)
    PROVE  Ledger(S, g, a \cup b)
BY DEF Ledger

LEMMA WriteAheadContributionsKempt ==
    ASSUME Shapes, Versions, Accounts, NEW g \in Graphs, WriteAheadContributions(g)
    PROVE  KemptAfter(g)
<1> DEFINE S == case.specs[g]
           ledger == w[g].prior \union intendedContributions(g, Nodes(g), w[g].val)
           F == Ended \cup {"contribs"}
           new == [graphs[g] EXCEPT !.contribs = ledger]
           s == [w[g] EXCEPT !.pc = "walk", !.contribs = ledger]
           t == [w[g] EXCEPT !.pc = "walk"]
           u == [w[g] EXCEPT !.pc = "status", !.cond = "failed", !.err = TRUE]
<1>0. /\ w[g].pc = "intent2" /\ Writes(g, {"contribs"}) /\ Moves(g, F, {"status", "walk"})
      /\ UNCHANGED wrote
  BY WriteAheadContributionsFacts DEF WriteAheadContributions
<1>1. /\ Go(g, s) \/ Go(g, t) \/ Go(g, u)
      /\ graphs' = graphs \/ graphs' = [graphs EXCEPT ![g] = new]
  BY DEF WriteAheadContributions, persistContributions, WriteGraph, Return, Step
<1>2. /\ g \in DOMAIN case.specs /\ w[g].ver \in DOMAIN S /\ Nodes(g) = S[w[g].ver].nodes
      /\ w[g] # Idle /\ DOMAIN w[g] = RunFields /\ DOMAIN graphs[g] = GraphFields
      /\ Kempt(g) /\ Books(S, wrote, g, w[g])
  BY <1>0, AtWork
<1>3. Ledger(S, g, w[g].prior) /\ Ledger(S, g, w[g].contribs)
  BY <1>2 DEF Books, Ledgers
<1>4. Ledger(S, g, ledger)
  BY <1>2, <1>3, IntendedLedger, LedgersJoin
<1> HIDE DEF ledger
<1>6. s.contribs = ledger /\ t.contribs = w[g].contribs /\ u.contribs = w[g].contribs
  BY <1>2 DEF RunFields
<1>7. w'[g] = s \/ w'[g] = t \/ w'[g] = u
  BY <1>1 DEF Go, Shapes
<1> HIDE DEF s, t, u
<1>8. Ledger(S, g, w'[g].contribs)
  BY <1>3, <1>4, <1>6, <1>7
<1>9. graphs'[g].contribs = graphs[g].contribs \/ graphs'[g].contribs = ledger
  BY <1>1, <1>2 DEF Shapes, GraphFields
<1>10. \A f \in Ledgers \cap F : f = "contribs"
  BY DEF Ledgers, Ended
<1>11. Lists \cap F = {} /\ "i" \notin F
  BY DEF Lists, Ended
<1> HIDE DEF F
<1>12. Placed(S, g, w'[g])
  BY <1>0, <1>2, <1>11, StaysPlaced DEF Books, Moves
<1>13. Ledger(S, g, graphs'[g].contribs)
  BY <1>2, <1>4, <1>9 DEF Kempt
<1>14. \A f \in Ledgers \cap F : Ledger(S, g, w'[g][f])
  BY <1>8, <1>10
<1> QED
  BY <1>0, <1>2, <1>11, <1>12, <1>13, <1>14, MovesKempt

LEMMA EndPruneKempt ==
    ASSUME Shapes, Versions, Accounts, NEW g \in Graphs, EndPrune(g)
    PROVE  KemptAfter(g)
<1> DEFINE S == case.specs[g]
           wide == superset(g)
           back == unionManagedResources(w[g].newSet, intendedManagedResources(Nodes(g), w[g].val))
           F == Ended \cup {"managed", "rel"}
           rel == w[g].prior \ w[g].contr
           x == [w[g] EXCEPT !.managed = wide, !.pc = "status", !.cond = "prune", !.err = TRUE]
           y == [w[g] EXCEPT !.managed = back, !.pc = "status", !.cond = w[g].cond, !.err = TRUE]
           z == [w[g] EXCEPT !.pc = "release", !.managed = w[g].newSet, !.rel = rel]
<1>0. /\ w[g].pc = "prune" /\ Writes(g, {}) /\ Moves(g, F, {"status", "release"})
      /\ UNCHANGED wrote
  BY EndPruneFacts DEF EndPrune
<1>1. Go(g, x) \/ Go(g, y) \/ Go(g, z)
  BY DEF EndPrune, Return
<1>2. /\ g \in DOMAIN case.specs /\ w[g].ver \in DOMAIN S /\ Nodes(g) = S[w[g].ver].nodes
      /\ w[g] # Idle /\ DOMAIN w[g] = RunFields /\ Books(S, wrote, g, w[g])
  BY <1>0, AtWork
<1>3. Listing(S, wrote, g, w[g].newSet) /\ Listing(S, wrote, g, w[g].intent)
      /\ Listing(S, wrote, g, w[g].applied)
  BY <1>2 DEF Books, Lists
<1>4. Listing(S, wrote, g, wide)
  BY <1>3, UnionListing DEF superset
<1>5. Listing(S, wrote, g, back)
  BY <1>2, <1>3, IntendedListing, UnionListing
<1> HIDE DEF wide, back, rel
<1>6. x.managed = wide /\ y.managed = back /\ z.managed = w[g].newSet
  BY <1>2 DEF RunFields
<1>7. w'[g] = x \/ w'[g] = y \/ w'[g] = z
  BY <1>1 DEF Go, Shapes
<1> HIDE DEF x, y, z
<1>8. Listing(S, wrote, g, w'[g].managed)
  BY <1>3, <1>4, <1>5, <1>6, <1>7
<1>10. \A f \in Lists \cap F : f = "managed"
  BY DEF Lists, Ended
<1>11. Ledgers \cap F = {} /\ "i" \notin F
  BY DEF Ledgers, Ended
<1> HIDE DEF F
<1>12. Placed(S, g, w'[g])
  BY <1>0, <1>2, <1>11, StaysPlaced DEF Books, Moves
<1>14. \A f \in Lists \cap F : Listing(S, wrote, g, w'[g][f])
  BY <1>8, <1>10
<1> QED
  BY <1>0, <1>2, <1>11, <1>12, <1>14, MovesKempt

LEMMA FinishKempt ==
    ASSUME Shapes, Versions, Accounts, NEW g \in Graphs, Finish(g)
    PROVE  KemptAfter(g)
<1> DEFINE S == case.specs[g]
           newSet == diffManagedResources(w[g].prev, w[g].applied, w[g].unres).newSet
           prune == diffManagedResources(w[g].prev, w[g].applied, w[g].unres).prune
           retained == w[g].contribs \union w[g].contr
           cond == IF hardErr(g) THEN "failed" ELSE IF w[g].soft = None THEN "ok" ELSE w[g].soft
           record == ~hardErr(g) \/ (w[g].sa = None /\ (DOMAIN w[g].applied # {} \/ w[g].contr # {}))
           sa == IF record THEN w[g].user ELSE w[g].sa
           super == superset(g)
           r == [w[g] EXCEPT !.cond = cond, !.sa = sa, !.newSet = newSet, !.todo = prune]
           x == [r EXCEPT !.managed = super, !.contribs = retained, !.pc = "status", !.cond = cond, !.err = TRUE]
           y == [r EXCEPT !.managed = super, !.pc = "status", !.cond = "failed", !.err = TRUE]
           z == [r EXCEPT !.pc = "prune", !.contribs = retained]
           new == [graphs[g] EXCEPT !.contribs = retained]
<1>0. /\ w[g].pc = "walk" /\ Writes(g, {"contribs"}) /\ Moves(g, FinishFields, {"status", "prune"})
      /\ UNCHANGED wrote
  BY FinishFacts DEF Finish
<1>1. /\ Go(g, x) \/ Go(g, y) \/ Go(g, z)
      /\ graphs' = graphs \/ graphs' = [graphs EXCEPT ![g] = new]
  BY DEF Finish, persistContributions, WriteGraph, Return
<1>2. /\ g \in DOMAIN case.specs /\ w[g] # Idle /\ DOMAIN w[g] = RunFields
      /\ DOMAIN graphs[g] = GraphFields /\ Kempt(g) /\ Books(S, wrote, g, w[g])
  BY <1>0, AtWork
<1>3. /\ Listing(S, wrote, g, w[g].prev) /\ Listing(S, wrote, g, w[g].intent)
      /\ Listing(S, wrote, g, w[g].applied) /\ Listing(S, wrote, g, w[g].managed)
  BY <1>2 DEF Books, Lists
<1>4. Ledger(S, g, w[g].contribs) /\ Ledger(S, g, w[g].contr)
  BY <1>2 DEF Books, Ledgers
<1>5. Listing(S, wrote, g, super)
  BY <1>3, UnionListing DEF superset
<1>6. Listing(S, wrote, g, newSet) /\ Listing(S, wrote, g, prune)
  BY <1>3, DiffListing
<1>7. Ledger(S, g, retained)
  BY <1>4, LedgersJoin
<1> HIDE DEF newSet, prune, retained, cond, sa, super
<1>8. /\ x.managed = super /\ x.newSet = newSet /\ x.todo = prune /\ x.contribs = retained
      /\ y.managed = super /\ y.newSet = newSet /\ y.todo = prune /\ y.contribs = w[g].contribs
      /\ z.managed = w[g].managed /\ z.newSet = newSet /\ z.todo = prune /\ z.contribs = retained
  BY <1>2 DEF RunFields
<1>9. w'[g] = x \/ w'[g] = y \/ w'[g] = z
  BY <1>1 DEF Go, Shapes
<1> HIDE DEF x, y, z
<1>10. /\ Listing(S, wrote, g, w'[g].managed) /\ Listing(S, wrote, g, w'[g].newSet)
       /\ Listing(S, wrote, g, w'[g].todo) /\ Ledger(S, g, w'[g].contribs)
  BY <1>3, <1>4, <1>5, <1>6, <1>7, <1>8, <1>9
<1>11. graphs'[g].contribs = graphs[g].contribs \/ graphs'[g].contribs = retained
  BY <1>1, <1>2 DEF Shapes, GraphFields
<1>12. /\ \A f \in Lists \cap FinishFields : f \in {"managed", "newSet", "todo"}
       /\ \A f \in Ledgers \cap FinishFields : f = "contribs"
       /\ "i" \notin FinishFields
  BY DEF Lists, Ledgers, FinishFields, Ended
<1>13. Placed(S, g, w'[g])
  BY <1>0, <1>2, <1>12, StaysPlaced DEF Books, Moves
<1>14. Ledger(S, g, graphs'[g].contribs)
  BY <1>2, <1>7, <1>11 DEF Kempt
<1>15. /\ \A f \in Lists \cap FinishFields : Listing(S, wrote, g, w'[g][f])
       /\ \A f \in Ledgers \cap FinishFields : Ledger(S, g, w'[g][f])
  BY <1>10, <1>12
<1> QED
  BY <1>0, <1>2, <1>13, <1>14, <1>15, MovesKempt

LEMMA SettleKempt ==
    ASSUME Shapes, Versions, Accounts, NEW g \in Graphs, SettleContributions(g)
    PROVE  KemptAfter(g)
<1> DEFINE S == case.specs[g]
           new == [graphs[g] EXCEPT !.contribs = w[g].contr]
<1>0. /\ w[g].pc = "release" /\ Writes(g, {"contribs"}) /\ Moves(g, Ended, {"status"})
      /\ UNCHANGED wrote
  BY SettleFacts DEF SettleContributions
<1>1. graphs' = graphs \/ graphs' = [graphs EXCEPT ![g] = new]
  BY DEF SettleContributions, persistContributions, WriteGraph
<1>2. /\ g \in DOMAIN case.specs /\ w[g] # Idle /\ DOMAIN graphs[g] = GraphFields
      /\ Kempt(g) /\ Books(S, wrote, g, w[g])
  BY <1>0, AtWork
<1>3. graphs'[g].contribs = graphs[g].contribs \/ graphs'[g].contribs = w[g].contr
  BY <1>1, <1>2 DEF Shapes, GraphFields
<1>4. Ledger(S, g, graphs'[g].contribs)
  BY <1>2, <1>3 DEF Kempt, Books, Ledgers
<1>5. Lists \cap Ended = {} /\ Ledgers \cap Ended = {} /\ "i" \notin Ended
  BY DEF Lists, Ledgers, Ended
<1>6. Placed(S, g, w'[g])
  BY <1>0, <1>2, <1>5, StaysPlaced DEF Books, Moves
<1> QED
  BY <1>0, <1>2, <1>4, <1>5, <1>6, MovesKempt

LEMMA UpdateStatusKempt ==
    ASSUME Shapes, Versions, Accounts, NEW g \in Graphs, updateStatus(g)
    PROVE  KemptAfter(g)
<1> DEFINE S == case.specs[g]
           gr == graphs[g]
           sa == IF w[g].sa = None THEN gr.sa ELSE w[g].sa
           more == unionManagedResources(gr.managed, w[g].managed)
           cond == [of |-> gr.gen, is |-> w[g].cond]
           x == [gr EXCEPT !.managed = more, !.sa = sa]
           y == [gr EXCEPT !.managed = w[g].managed, !.sa = sa, !.cond = cond]
<1>0. /\ w[g].pc = "status" /\ Writes(g, {"managed", "sa", "cond"}) /\ Stops(g)
      /\ UNCHANGED wrote
  BY UpdateStatusFacts DEF updateStatus
<1>1. graphs' \in {graphs, [graphs EXCEPT ![g] = x], [graphs EXCEPT ![g] = y]}
  BY DEF updateStatus
<1>2. Kempt(g) /\ Books(S, wrote, g, w[g]) /\ DOMAIN gr = GraphFields /\ DOMAIN graphs = Graphs
  BY <1>0, AtWork DEF Shapes
<1>3. Listing(S, wrote, g, w[g].managed) /\ Listing(S, wrote, g, gr.managed)
  BY <1>2 DEF Books, Lists, Kempt
<1>4. Listing(S, wrote, g, more)
  BY <1>3, UnionListing
<1> HIDE DEF more, sa, cond
<1>5. x.managed = more /\ y.managed = w[g].managed
  BY <1>2 DEF GraphFields
<1> HIDE DEF x, y
<1>6. graphs'[g].managed = gr.managed \/ graphs'[g].managed = more \/ graphs'[g].managed = w[g].managed
  BY <1>1, <1>2, <1>5
<1>7. graphs'[g].contribs = gr.contribs
  BY <1>0 DEF Writes, GraphFields
<1> QED
  BY <1>0, <1>2, <1>3, <1>4, <1>6, <1>7 DEF KemptAfter, Stops, Kempt

LEMMA UnmanageKempt ==
    ASSUME Shapes, Versions, Accounts, NEW g \in Graphs, setUnmanaged(g)
    PROVE  KemptAfter(g)
<1>0. w[g].pc = "unlink" /\ Stops(g) /\ UNCHANGED wrote
  BY SetUnmanagedFacts DEF setUnmanaged
<1>1. graphs' = graphs \/ graphs' = [graphs EXCEPT ![g] = NoGraph(g)]
  BY DEF setUnmanaged
<1>2. Kempt(g) /\ DOMAIN graphs[g] = GraphFields /\ DOMAIN graphs = Graphs
  BY <1>0, AtWork DEF Shapes
<1>3. NoGraph(g).managed = <<>> /\ NoGraph(g).contribs = {}
  BY <1>2 DEF NoGraph, GraphFields
<1>4. \/ graphs'[g] = graphs[g]
      \/ graphs'[g].managed = <<>> /\ graphs'[g].contribs = {}
  BY <1>1, <1>2, <1>3
<1> QED
  BY <1>0, <1>2, <1>4, EmptyListing DEF KemptAfter, Stops, Kempt

LEMMA SetManagedKempt ==
    ASSUME Shapes, Versions, Accounts, NEW g \in Graphs, setManaged(g)
    PROVE  KemptAfter(g)
<1>0. /\ w[g].pc = "manage" /\ Writes(g, {"fin"}) /\ UNCHANGED wrote
      /\ Stops(g) \/ Moves(g, Ended, {"status", "compile"})
  BY SetManagedFacts DEF setManaged
<1>1. CASE Moves(g, Ended, {"status", "compile"})
  <2>1. Ended \cap (Lists \cup Ledgers \cup {"i"}) = {}
    BY DEF Ended, Lists, Ledgers
  <2> QED
    BY <1>0, <1>1, <2>1, QuietKempt
<1>2. CASE Stops(g)
  <2>1. Kempt(g)
    BY <1>0, AtWork
  <2>2. graphs'[g].managed = graphs[g].managed /\ graphs'[g].contribs = graphs[g].contribs
    BY <1>0 DEF Writes, GraphFields
  <2> QED
    BY <1>0, <1>2, <2>1, <2>2 DEF KemptAfter, Stops, Kempt
<1> QED
  BY <1>0, <1>1, <1>2

LEMMA BeginKempt ==
    ASSUME Shapes, Versions, Accounts, NEW g \in Graphs, Begin(g), g \in DOMAIN case.specs
    PROVE  KemptAfter(g)
<1>0. /\ w[g] = Idle /\ UNCHANGED graphs
      /\ UNCHANGED w \/ Starts(g)
  BY BeginFacts
<1>1. UNCHANGED wrote
  BY DEF Begin
<1>2. Kempt(g)
  BY DEF Accounts
<1>3. CASE UNCHANGED w
  BY <1>0, <1>1, <1>2, <1>3 DEF KemptAfter, Kempt
<1>4. CASE Starts(g)
  <2>1. Opened(g, w'[g]) /\ w'[g].pc \in {"delete", "manage", "compile", "status"}
    BY <1>4 DEF Starts
  <2>2. \A f \in Lists : w'[g][f] = graphs[g].managed \/ w'[g][f] = <<>>
    BY <2>1 DEF Opened, Lists
  <2>3. \A f \in Ledgers : w'[g][f] = graphs[g].contribs \/ w'[g][f] = {}
    BY <2>1 DEF Opened, Ledgers
  <2>4. Placed(case.specs[g], g, w'[g])
    BY <2>1 DEF Opened, Placed
  <2>5. Books(case.specs[g], wrote, g, w'[g])
    BY <1>2, <2>2, <2>3, <2>4, EmptyListing DEF Books, Kempt
  <2> QED
    BY <1>0, <1>1, <1>2, <2>5 DEF KemptAfter, Kempt
<1> QED
  BY <1>0, <1>3, <1>4

LEMMA EnterNodeKempt ==
    ASSUME Shapes, Versions, Accounts, NEW g \in Graphs, EnterNode(g)
    PROVE  KemptAfter(g)
<1> DEFINE S == case.specs[g]
           n == NodeAt(g)
           F == {"pc", "i", "unres", "soft", "items", "decl"}
           skip == Skip(Nodes(g), w[g].i)
           over == [w[g] EXCEPT !.i = skip]
           late == Unresolved(over, n.id, "pending")
           unknown == Unresolved(over, n.id, "notready")
           into == [w[g] EXCEPT !.i = @ + 1]
           decl == IF n.kind = "template" /\ n.coll
                   THEN w[g].decl \union Watching(w[g].user, n.items, TRUE) ELSE w[g].decl
           begun == [w[g] EXCEPT !.pc = "get", !.items = n.items, !.decl = decl]
<1>0. /\ w[g].pc = "walk" /\ Writes(g, {}) /\ Moves(g, F, {"walk", "get"})
      /\ UNCHANGED wrote /\ w[g].i \in DOMAIN Nodes(g)
  BY EnterNodeFacts DEF EnterNode
<1>1. \E s \in {over, late, unknown, into, begun} : Go(g, s)
  BY DEF EnterNode
<1>2. /\ g \in DOMAIN case.specs /\ Nodes(g) = S[w[g].ver].nodes
      /\ w[g] # Idle /\ DOMAIN w[g] = RunFields /\ Books(S, wrote, g, w[g])
  BY <1>0, AtWork
<1>6. n = S[w[g].ver].nodes[w[g].i]
  BY <1>2 DEF NodeAt
<1> HIDE DEF n, skip, decl
<1>7. over.i = skip /\ over.pc = "walk" /\ DOMAIN over = RunFields
  BY <1>0, <1>2 DEF RunFields
<1>8. into.i = w[g].i + 1 /\ into.pc = "walk"
  BY <1>0, <1>2 DEF RunFields
<1>9. begun.i = w[g].i /\ begun.pc = "get" /\ begun.items = n.items /\ begun.ver = w[g].ver
  BY <1>2 DEF RunFields
<1> HIDE DEF over, into, begun
<1>10. late.i = skip /\ late.pc = "walk" /\ unknown.i = skip /\ unknown.pc = "walk"
  BY <1>7 DEF Unresolved, RunFields
<1> HIDE DEF late, unknown
<1>11. \A s \in {over, late, unknown, into, begun} : Placed(S, g, s)
  BY <1>0, <1>2, <1>6, <1>7, <1>8, <1>9, <1>10 DEF Placed
<1>12. w'[g] \in {over, late, unknown, into, begun}
  BY <1>1 DEF Go, Shapes
<1>13. Lists \cap F = {} /\ Ledgers \cap F = {}
  BY DEF Lists, Ledgers
<1> HIDE DEF F
<1> QED
  BY <1>0, <1>2, <1>11, <1>12, <1>13, MovesKempt

\* After an item the run is at the next one of its node, or at the next node.
LEMMA ItemDoneValues ==
    ASSUME NEW r, DOMAIN r = RunFields, NEW n, NEW o, NEW verdict, NEW st
    PROVE  \/ /\ ItemDone(r, n, o, verdict, st).pc = "get"
              /\ ItemDone(r, n, o, verdict, st).i = r.i
              /\ ItemDone(r, n, o, verdict, st).items = r.items \ {o}
           \/ /\ ItemDone(r, n, o, verdict, st).pc = "walk"
              /\ ItemDone(r, n, o, verdict, st).i = r.i + 1
<1> DEFINE res == IF verdict # "done" THEN r.res \union {verdict}
                  ELSE IF ~CheckReadiness(n, st) THEN r.res \union {"waiting"}
                  ELSE r.res
           next == [r EXCEPT !.pc = "get", !.items = @ \ {o}, !.res = res,
                             !.at = None, !.cur = NoObject]
           end == [next EXCEPT !.pc = "walk", !.i = @ + 1, !.res = {}]
           said == IF n.coll \/ res \ {"waiting"} # {} \/ n.kind = "patch" THEN end
                   ELSE [end EXCEPT !.val[n.id] = st]
           failed == [end EXCEPT !.hard = TRUE]
           waits == [said EXCEPT !.soft = recordSoft(@, "notready")]
           soft == Unresolved(end, n.id, SoftOf(res))
<1>0. ItemDone(r, n, o, verdict, st) \in {next, failed, said, waits, soft}
  BY DEF ItemDone
<1> HIDE DEF res
<1>1. DOMAIN next = RunFields /\ next.pc = "get" /\ next.i = r.i /\ next.items = r.items \ {o}
  BY DEF RunFields
<1> HIDE DEF next
<1>2. DOMAIN end = RunFields /\ end.pc = "walk" /\ end.i = r.i + 1
  BY <1>1 DEF RunFields
<1> HIDE DEF end
<1>3. DOMAIN said = RunFields /\ said.pc = "walk" /\ said.i = r.i + 1
  BY <1>2 DEF RunFields
<1> HIDE DEF said
<1>4. failed.pc = "walk" /\ failed.i = r.i + 1
  BY <1>2 DEF RunFields
<1>5. waits.pc = "walk" /\ waits.i = r.i + 1
  BY <1>3 DEF RunFields
<1>6. soft.pc = "walk" /\ soft.i = r.i + 1
  BY <1>2 DEF RunFields, Unresolved
<1> HIDE DEF failed, waits, soft
<1> QED
  BY <1>0, <1>1, <1>2, <1>3, <1>4, <1>5, <1>6

LEMMA ItemDonePlaced ==
    ASSUME NEW S, NEW g, NEW r, DOMAIN r = RunFields, NEW n, NEW o, NEW verdict, NEW st,
           r.i \in DOMAIN S[r.ver].nodes,
           r.items \subseteq S[r.ver].nodes[r.i].items
    PROVE  Placed(S, g, ItemDone(r, n, o, verdict, st))
<1> DEFINE s == ItemDone(r, n, o, verdict, st)
<1>1. Edited(r, s, ItemFields)
  BY ItemDoneEdits
<1>2. s.ver = r.ver
  BY <1>1 DEF Edited, ItemFields, RunFields
<1>3. \/ s.pc = "get" /\ s.i = r.i /\ s.items = r.items \ {o}
      \/ s.pc = "walk" /\ s.i = r.i + 1
  BY ItemDoneValues
<1> HIDE DEF s
<1>4. Placed(S, g, s)
  BY <1>2, <1>3 DEF Placed
<1> QED
  BY <1>4 DEF s

LEMMA GetLiveKempt ==
    ASSUME Shapes, Versions, Accounts, NEW g \in Graphs, GetLive(g)
    PROVE  KemptAfter(g)
<1> DEFINE S == case.specs[g]
           n == NodeAt(g)
           F == ItemFields \cup {"claims", "decl"}
           r(c, d) == [w[g] EXCEPT !.claims = c, !.decl = d]
<1>0. /\ w[g].pc = "get" /\ Writes(g, {}) /\ Moves(g, F, {"apply", "get", "walk"})
      /\ UNCHANGED wrote
  BY GetLiveFacts DEF GetLive
<1>1. \E o \in w[g].items : \E c, d, v, st :
         \/ Go(g, [r(c, d) EXCEPT !.pc = "apply", !.at = o, !.cur = objs[o]])
         \/ Go(g, ItemDone(r(c, d), n, o, v, st))
  BY GetLiveGoes
<1>2. /\ g \in DOMAIN case.specs /\ w[g] # Idle /\ DOMAIN w[g] = RunFields
      /\ Books(S, wrote, g, w[g])
  BY <1>0, AtWork
<1>3. PICK o \in w[g].items : \E c, d, v, st :
         \/ Go(g, [r(c, d) EXCEPT !.pc = "apply", !.at = o, !.cur = objs[o]])
         \/ Go(g, ItemDone(r(c, d), n, o, v, st))
  BY <1>1
<1>4. PICK c, d, v, st :
         \/ Go(g, [r(c, d) EXCEPT !.pc = "apply", !.at = o, !.cur = objs[o]])
         \/ Go(g, ItemDone(r(c, d), n, o, v, st))
  BY <1>3
<1> DEFINE x == r(c, d)
<1>5. /\ DOMAIN x = RunFields /\ x.i = w[g].i /\ x.items = w[g].items /\ x.ver = w[g].ver
  BY <1>2 DEF RunFields
<1> HIDE DEF x, n
<1> DEFINE y == [x EXCEPT !.pc = "apply", !.at = o, !.cur = objs[o]]
           z == ItemDone(x, n, o, v, st)
<1>6. Go(g, y) \/ Go(g, z)
  BY <1>4 DEF x
<1>7. /\ w[g].i \in DOMAIN S[w[g].ver].nodes
      /\ w[g].items \subseteq S[w[g].ver].nodes[w[g].i].items
  BY <1>0, <1>2 DEF Books, Placed
<1>8. y.pc = "apply" /\ y.at = o /\ y.i = w[g].i /\ y.items = w[g].items /\ y.ver = w[g].ver
  BY <1>5 DEF RunFields
<1>9. Placed(S, g, z)
  BY <1>5, <1>7, ItemDonePlaced
<1> HIDE DEF y, z
<1>10. Placed(S, g, y)
  BY <1>7, <1>8 DEF Placed
<1>11. Placed(S, g, w'[g])
  BY <1>6, <1>9, <1>10 DEF Go, Shapes
<1>12. Lists \cap F = {} /\ Ledgers \cap F = {}
  BY DEF Lists, Ledgers, ItemFields
<1> HIDE DEF F
<1> QED
  BY <1>0, <1>2, <1>11, <1>12, MovesKempt

LEMMA DropListing ==
    ASSUME NEW S, NEW W, NEW g, NEW r, DOMAIN r = RunFields, NEW o, NEW failed, Listing(S, W, g, r.todo)
    PROVE  /\ Listing(S, W, g, Drop(r, o, failed).todo)
           /\ Drop(r, o, failed).pc \in {"prune", "delete"}
<1> DEFINE e == r.err \/ failed
           t == [x \in DOMAIN r.todo \ {o} |-> r.todo[x]]
           p == IF r.pc \in {"prune", "pruning"} THEN "prune" ELSE "delete"
           s == [r EXCEPT !.todo = t, !.err = e, !.at = None, !.cur = NoObject, !.pc = p]
<1>1. Drop(r, o, failed) = s
  BY DEF Drop
<1>2. p \in {"prune", "delete"}
  OBVIOUS
<1>3. Listing(S, W, g, t)
  BY DEF Listing
<1> HIDE DEF e, t, p
<1>4. s.todo = t /\ s.pc = p
  BY DEF RunFields
<1> QED
  BY <1>1, <1>2, <1>3, <1>4

\* An entry is dropped, or its object has been seen to be the Graph's own.
LEMMA DeletingKempt ==
    ASSUME Shapes, Versions, Accounts, NEW g \in Graphs, UNCHANGED wrote, w[g].pc # "idle",
           NEW pcs, Moves(g, DeleteFields, pcs), Writes(g, {}),
           \/ \E o, failed : w'[g] = Drop(w[g], o, failed)
           \/ w'[g].todo = w[g].todo /\ templateFieldManager(g) \in Managers(w'[g].cur)
                /\ w'[g].pc \in {"pruning", "deleting"}
    PROVE  KemptAfter(g)
<1> DEFINE S == case.specs[g]
<1>1. /\ g \in DOMAIN case.specs /\ w[g] # Idle /\ DOMAIN w[g] = RunFields
      /\ Books(S, wrote, g, w[g]) /\ Listing(S, wrote, g, w[g].todo)
  BY AtWork DEF Books, Lists
<1>2. \/ Listing(S, wrote, g, w'[g].todo) /\ w'[g].pc \in {"prune", "delete"}
      \/ /\ w'[g].todo = w[g].todo /\ templateFieldManager(g) \in Managers(w'[g].cur)
         /\ w'[g].pc \in {"pruning", "deleting"}
  <2>1. CASE \E o, failed : w'[g] = Drop(w[g], o, failed)
    <3>1. PICK o, failed : w'[g] = Drop(w[g], o, failed)
      BY <2>1
    <3>2. Listing(S, wrote, g, Drop(w[g], o, failed).todo) /\ Drop(w[g], o, failed).pc \in {"prune", "delete"}
      BY <1>1, DropListing
    <3> QED
      BY <3>1, <3>2
  <2> QED
    BY <2>1
<1>3. Placed(S, g, w'[g])
  BY <1>2 DEF Placed
<1>4. Listing(S, wrote, g, w'[g].todo)
  BY <1>1, <1>2
<1>5. (\A f \in Lists \cap DeleteFields : f = "todo") /\ Ledgers \cap DeleteFields = {}
  BY DEF Lists, Ledgers, DeleteFields
<1>6. \A f \in Lists \cap DeleteFields : Listing(S, wrote, g, w'[g][f])
  BY <1>4, <1>5
<1> QED
  BY <1>1, <1>3, <1>5, <1>6, MovesKempt

LEMMA DeleteEntryKempt ==
    ASSUME Shapes, Versions, Accounts, NEW g \in Graphs, DeleteEntry(g)
    PROVE  KemptAfter(g)
<1> DEFINE pc == IF w[g].pc = "prune" THEN "pruning" ELSE "deleting"
           s(o) == [w[g] EXCEPT !.at = o, !.cur = objs[o], !.pc = pc]
<1>0. /\ w[g].pc \in {"prune", "delete"} /\ Writes(g, {}) /\ Moves(g, DeleteFields, Phase(w[g].pc))
      /\ UNCHANGED wrote
  BY DeleteEntryFacts DEF DeleteEntry
<1>1. \E o : \/ Go(g, s(o)) /\ ownedByGraph(objs[o], g)
             \/ \E failed : Go(g, Drop(w[g], o, failed))
  BY DEF DeleteEntry
<1>2. DOMAIN w[g] = RunFields /\ DOMAIN w = Graphs
  BY <1>0, RunsFacts DEF Shapes
<1>3. PICK o : \/ Go(g, s(o)) /\ ownedByGraph(objs[o], g)
               \/ \E failed : Go(g, Drop(w[g], o, failed))
  BY <1>1
<1>4. pc \in {"pruning", "deleting"}
  OBVIOUS
<1> HIDE DEF pc
<1>5. s(o).todo = w[g].todo /\ s(o).cur = objs[o] /\ s(o).pc = pc
  BY <1>2 DEF RunFields
<1> HIDE DEF s
<1>6. CASE Go(g, s(o)) /\ ownedByGraph(objs[o], g)
  <2>1. w'[g] = s(o) /\ templateFieldManager(g) \in Managers(objs[o])
    BY <1>2, <1>6 DEF Go, ownedByGraph
  <2> QED
    BY <1>0, <1>4, <1>5, <2>1, DeletingKempt
<1>7. CASE \E failed : Go(g, Drop(w[g], o, failed))
  <2>1. \E failed : w'[g] = Drop(w[g], o, failed)
    BY <1>2, <1>7 DEF Go
  <2> QED
    BY <1>0, <2>1, DeletingKempt
<1> QED
  BY <1>3, <1>6, <1>7

LEMMA DeleteCheckedKempt ==
    ASSUME Shapes, Versions, Accounts, NEW g \in Graphs, DeleteChecked(g)
    PROVE  KemptAfter(g)
<1>0. /\ w[g].pc \in {"pruning", "deleting"} /\ Writes(g, {}) /\ Moves(g, DeleteFields, Phase(w[g].pc))
      /\ UNCHANGED wrote
  BY DeleteCheckedFacts DEF DeleteChecked
<1>1. \E o, failed : Go(g, Drop(w[g], o, failed))
  BY DEF DeleteChecked
<1>2. \E o, failed : w'[g] = Drop(w[g], o, failed)
  BY <1>1 DEF Go, Shapes
<1> QED
  BY <1>0, <1>2, DeletingKempt

\* What an apply records is of the node and the object that it is at.
LEMMA LandedBooks ==
    ASSUME NEW S, NEW W, NEW g, NEW r, DOMAIN r = RunFields,
           Listing(S, W, g, r.applied), Ledger(S, g, r.contr),
           NEW v \in DOMAIN S, NEW i \in DOMAIN S[v].nodes, NEW o \in S[v].nodes[i].items, NEW uid,
           \/ S[v].nodes[i].kind = "patch" \/ <<g, o, uid>> \in W \/ S[v].nodes[i].coll
    PROVE  /\ Listing(S, W, g, Landed(g, r, S[v].nodes[i], o, uid).applied)
           /\ Ledger(S, g, Landed(g, r, S[v].nodes[i], o, uid).contr)
<1> DEFINE n == S[v].nodes[i]
<1>0. Rendered(S, o, n.id) /\ (n.coll => Collected(S, o))
  BY DEF Rendered, Collected
<1>1. CASE n.kind = "patch"
  <2> DEFINE c == Contribution(g, n, o)
             x == [r EXCEPT !.contr = r.contr \cup {c}]
  <2>1. Landed(g, r, n, o, uid) = x
    BY <1>1 DEF Landed
  <2>2. c.obj = o /\ c.manager.graph = g
    BY DEF Contribution, patchFieldManager
  <2> HIDE DEF c
  <2>3. x.applied = r.applied /\ x.contr = r.contr \cup {c}
    BY DEF RunFields
  <2>4. Ledger(S, g, r.contr \cup {c})
    BY <1>0, <2>2 DEF Ledger
  <2> HIDE DEF x, n
  <2> QED
    BY <2>1, <2>3, <2>4 DEF n
<1>2. CASE n.kind # "patch"
  <2> DEFINE e == [node |-> n.id, uid |-> uid]
             a == [z \in DOMAIN r.applied \cup {o} |-> IF z = o THEN e ELSE r.applied[z]]
             x == [r EXCEPT !.applied = a]
  <2>1. Landed(g, r, n, o, uid) = x
    BY <1>2 DEF Landed
  <2>2. Entry(S, W, g, o, e)
    BY <1>0, <1>2 DEF Entry
  <2>3. Listing(S, W, g, a)
    BY <2>2 DEF Listing
  <2> HIDE DEF a
  <2>4. x.applied = a /\ x.contr = r.contr
    BY DEF RunFields
  <2> HIDE DEF x, n
  <2> QED
    BY <2>1, <2>3, <2>4 DEF n
<1> QED
  BY <1>1, <1>2

LEMMA ApplyObjectKempt ==
    ASSUME Shapes, Versions, Accounts, NEW g \in Graphs, NEW force \in BOOLEAN, ApplyObject(g, force)
    PROVE  KemptAfter(g)
<1> DEFINE S == case.specs[g]
           n == NodeAt(g)
           o == w[g].at
           m == IF n.kind = "patch" THEN patchFieldManager(g, n.id) ELSE templateFieldManager(g)
           new == ssaApply(objs[o], m, n.set, uids[o] + 1)
           F == ItemFields \cup {"applied", "contr"}
           forced == [w[g] EXCEPT !.pc = "force"]
           land(uid) == Landed(g, w[g], n, o, uid)
<1>0. /\ w[g].pc \in {"apply", "force"} /\ Writes(g, {}) /\ Moves(g, F, {"force", "get", "walk"})
      /\ wrote \subseteq wrote'
  BY ApplyObjectFacts DEF ApplyObject
<1>1. \/ Go(g, forced)
      \/ \E v, st : Go(g, ItemDone(w[g], n, o, v, st))
      \/ n.coll /\ \E v, st : Go(g, ItemDone(land(w[g].cur.uid), n, o, v, st))
      \/ /\ n.kind = "patch" \/ <<g, o, new.uid>> \in wrote'
         /\ \E v, st : Go(g, ItemDone(land(new.uid), n, o, v, st))
  BY DEF ApplyObject, Failed, Step
<1>2. /\ g \in DOMAIN case.specs /\ w[g].ver \in DOMAIN S /\ Nodes(g) = S[w[g].ver].nodes
      /\ w[g] # Idle /\ DOMAIN w[g] = RunFields /\ Books(S, wrote, g, w[g])
  BY <1>0, AtWork
<1>3. /\ w[g].i \in DOMAIN S[w[g].ver].nodes /\ n = S[w[g].ver].nodes[w[g].i]
      /\ w[g].items \subseteq n.items /\ o \in n.items
  BY <1>0, <1>2 DEF Books, Placed, NodeAt
<1>4. /\ Listing(S, wrote', g, w[g].applied) /\ Ledger(S, g, w[g].contr)
  BY <1>0, <1>2, ListingGrows DEF Books, Lists, Ledgers
<1> HIDE DEF n, o, new
<1>5. \/ Go(g, forced)
      \/ \E r, v, st :
           /\ Edited(w[g], r, {"applied", "contr"}) /\ Go(g, ItemDone(r, n, o, v, st))
           /\ Listing(S, wrote', g, r.applied) /\ Ledger(S, g, r.contr)
  <2>0. ASSUME NEW uid, n.kind = "patch" \/ <<g, o, uid>> \in wrote' \/ n.coll
        PROVE  /\ Edited(w[g], land(uid), {"applied", "contr"})
               /\ Listing(S, wrote', g, land(uid).applied) /\ Ledger(S, g, land(uid).contr)
    <3> HIDE DEF S
    <3> QED
      BY <1>2, <1>3, <1>4, <2>0, LandedBooks, LandedEdits
  <2>1. CASE \E v, st : Go(g, ItemDone(w[g], n, o, v, st))
    <3>1. Edited(w[g], w[g], {"applied", "contr"})
      BY <1>2 DEF Edited
    <3> QED
      BY <1>4, <2>1, <3>1
  <2>2. CASE n.coll /\ \E v, st : Go(g, ItemDone(land(w[g].cur.uid), n, o, v, st))
    BY <2>0, <2>2
  <2>3. CASE /\ n.kind = "patch" \/ <<g, o, new.uid>> \in wrote'
             /\ \E v, st : Go(g, ItemDone(land(new.uid), n, o, v, st))
    BY <2>0, <2>3
  <2> QED
    BY <1>1, <2>1, <2>2, <2>3
<1>6. /\ Placed(S, g, w'[g]) /\ Listing(S, wrote', g, w'[g].applied) /\ Ledger(S, g, w'[g].contr)
  <2>1. CASE Go(g, forced)
    <3>1. /\ forced.pc = "force" /\ forced.i = w[g].i /\ forced.items = w[g].items
          /\ forced.at = w[g].at /\ forced.ver = w[g].ver
          /\ forced.applied = w[g].applied /\ forced.contr = w[g].contr
      BY <1>2 DEF RunFields
    <3>2. w'[g] = forced
      BY <2>1 DEF Go, Shapes
    <3> HIDE DEF forced
    <3>3. Placed(S, g, forced)
      BY <1>3, <3>1 DEF Placed, o
    <3> QED
      BY <1>4, <3>1, <3>2, <3>3
  <2>2. ASSUME NEW r, NEW v, NEW st, Edited(w[g], r, {"applied", "contr"}),
               Go(g, ItemDone(r, n, o, v, st)),
               Listing(S, wrote', g, r.applied), Ledger(S, g, r.contr)
        PROVE  /\ Placed(S, g, w'[g])
               /\ Listing(S, wrote', g, w'[g].applied) /\ Ledger(S, g, w'[g].contr)
    <3> DEFINE s == ItemDone(r, n, o, v, st)
    <3>1. /\ DOMAIN r = RunFields /\ r.i = w[g].i /\ r.items = w[g].items /\ r.ver = w[g].ver
      BY <2>2 DEF Edited, RunFields
    <3>2. Placed(S, g, s)
      BY <1>3, <3>1, ItemDonePlaced
    <3>3. Edited(r, s, ItemFields)
      BY <3>1, ItemDoneEdits
    <3>4. w'[g] = s
      BY <2>2 DEF Go, Shapes
    <3> HIDE DEF s
    <3>5. s.applied = r.applied /\ s.contr = r.contr
      BY <3>3 DEF Edited, ItemFields, RunFields
    <3> QED
      BY <2>2, <3>2, <3>4, <3>5
  <2> QED
    BY <1>5, <2>1, <2>2
<1>7. (\A f \in Lists \cap F : f = "applied") /\ (\A f \in Ledgers \cap F : f = "contr")
  BY DEF Lists, Ledgers, ItemFields
<1> HIDE DEF F
<1>8. /\ \A f \in Lists \cap F : Listing(S, wrote', g, w'[g][f])
      /\ \A f \in Ledgers \cap F : Ledger(S, g, w'[g][f])
  BY <1>6, <1>7
<1> QED
  BY <1>0, <1>2, <1>6, <1>8, MovesKempt

LEMMA OthersKempt ==
    ASSUME Shapes, Versions, Accounts, NEW g \in Graphs,
           CompileStart(g) \/ CompileEnd(g) \/ EndDelete(g) \/ ReleaseGet(g) \/ ReleaseApply(g)
    PROVE  KemptAfter(g)
<1> DEFINE Still(F) == F \cap (Lists \cup Ledgers \cup {"i"}) = {}
           Calm(pcs) == pcs \cap {"get", "apply", "force", "pruning", "deleting"} = {}
<1>0. UNCHANGED wrote
  BY DEF CompileStart, CompileEnd, EndDelete, ReleaseGet, ReleaseApply
<1>1. \E F, pcs : w[g].pc # "idle" /\ Moves(g, F, pcs) /\ Writes(g, {}) /\ Still(F) /\ Calm(pcs)
  <2>1. CASE CompileStart(g)
    <3>1. w[g].pc # "idle" /\ Moves(g, {"pc", "ep", "read"}, {"intent", "compiling"}) /\ Writes(g, {})
      BY <2>1, CompileStartFacts
    <3>2. Still({"pc", "ep", "read"}) /\ Calm({"intent", "compiling"})
      BY DEF Lists, Ledgers
    <3> HIDE DEF Still, Calm
    <3> QED
      BY <3>1, <3>2
  <2>2. CASE CompileEnd(g)
    <3>1. w[g].pc # "idle" /\ Moves(g, Ended, {"status", "intent"}) /\ Writes(g, {})
      BY <2>2, CompileEndFacts
    <3>2. Still(Ended) /\ Calm({"status", "intent"})
      BY DEF Lists, Ledgers, Ended
    <3> HIDE DEF Still, Calm
    <3> QED
      BY <3>1, <3>2
  <2>3. CASE EndDelete(g)
    <3>1. w[g].pc # "idle" /\ Moves(g, Ended, {"status", "unlink"}) /\ Writes(g, {})
      BY <2>3, EndDeleteFacts
    <3>2. Still(Ended) /\ Calm({"status", "unlink"})
      BY DEF Lists, Ledgers, Ended
    <3> HIDE DEF Still, Calm
    <3> QED
      BY <3>1, <3>2
  <2>4. CASE ReleaseGet(g) \/ ReleaseApply(g)
    <3>1. /\ w[g].pc # "idle" /\ Writes(g, {})
          /\ Moves(g, ReleaseFields, Releasing(w[g].pc) \cup {"status"})
      BY <2>4, ReleaseGetFacts, ReleaseApplyFacts
    <3>2. Still(ReleaseFields) /\ Calm(Releasing(w[g].pc) \cup {"status"})
      BY DEF Lists, Ledgers, ReleaseFields, Ended, Releasing
    <3> HIDE DEF Still, Calm
    <3> QED
      BY <3>1, <3>2
  <2> QED
    BY <2>1, <2>2, <2>3, <2>4
<1>2. PICK F, pcs : w[g].pc # "idle" /\ Moves(g, F, pcs) /\ Writes(g, {}) /\ Still(F) /\ Calm(pcs)
  BY <1>1
<1>3. Writes(g, {"fin"})
  BY <1>2, WritesWide
<1> QED
  BY <1>0, <1>2, <1>3, QuietKempt

\* A step of a reconcile is about one Graph.
LEMMA ReconcileLocal ==
    ASSUME Shapes, NEW g \in Graphs, Reconcile(g)
    PROVE  \A h \in Graphs \ {g} : graphs'[h] = graphs[h] /\ w'[h] = w[h]
<1>1. CASE Begin(g)
  BY <1>1, BeginFacts DEF Starts
<1>2. CASE Writes(g, Kept) /\ (Stops(g) \/ GoesOn(g))
  BY <1>2 DEF Writes, Stops, GoesOn, Moves
<1>3. CASE updateStatus(g) \/ setUnmanaged(g)
  BY <1>3, UpdateStatusFacts, SetUnmanagedFacts DEF Writes, Stops
<1> QED
  BY <1>1, <1>2, <1>3, ReconcileMoves

LEMMA WroteGrows == ASSUME NEW g \in Graphs, Reconcile(g) PROVE wrote \subseteq wrote'
<1>1. CASE Begin(g) \/ setManaged(g) \/ CompileStart(g) \/ CompileEnd(g)
           \/ WriteAheadManaged(g) \/ WriteAheadContributions(g)
  BY <1>1 DEF Begin, setManaged, CompileStart, CompileEnd, WriteAheadManaged,
              WriteAheadContributions
<1>2. CASE EnterNode(g) \/ GetLive(g) \/ \E force \in BOOLEAN : ApplyObject(g, force)
  BY <1>2 DEF EnterNode, GetLive, ApplyObject
<1>3. CASE Finish(g) \/ DeleteEntry(g) \/ DeleteChecked(g) \/ EndPrune(g) \/ EndDelete(g)
  BY <1>3 DEF Finish, DeleteEntry, DeleteChecked, EndPrune, EndDelete
<1>4. CASE ReleaseGet(g) \/ ReleaseApply(g) \/ SettleContributions(g)
           \/ updateStatus(g) \/ setUnmanaged(g)
  BY <1>4 DEF ReleaseGet, ReleaseApply, SettleContributions, updateStatus, setUnmanaged
<1> QED
  BY <1>1, <1>2, <1>3, <1>4 DEF Reconcile

LEMMA ReconcileRuns ==
    ASSUME NEW g \in Graphs, Reconcile(g), ~Begin(g)
    PROVE  w[g].pc # "idle"
<1>1. CASE setManaged(g) \/ CompileStart(g) \/ CompileEnd(g)
           \/ WriteAheadManaged(g) \/ WriteAheadContributions(g)
  BY <1>1 DEF setManaged, CompileStart, CompileEnd, WriteAheadManaged, WriteAheadContributions
<1>2. CASE EnterNode(g) \/ GetLive(g) \/ \E force \in BOOLEAN : ApplyObject(g, force)
  BY <1>2 DEF EnterNode, GetLive, ApplyObject
<1>3. CASE Finish(g) \/ DeleteEntry(g) \/ DeleteChecked(g) \/ EndPrune(g) \/ EndDelete(g)
  BY <1>3 DEF Finish, DeleteEntry, DeleteChecked, EndPrune, EndDelete
<1>4. CASE ReleaseGet(g) \/ ReleaseApply(g) \/ SettleContributions(g)
           \/ updateStatus(g) \/ setUnmanaged(g)
  BY <1>4 DEF ReleaseGet, ReleaseApply, SettleContributions, updateStatus, setUnmanaged
<1> QED
  BY <1>1, <1>2, <1>3, <1>4 DEF Reconcile

LEMMA ReconcileAccounts ==
    ASSUME Shapes, Versions, Accounts, NEW g \in Graphs, Reconcile(g), case' = case
    PROVE  Accounts'
<1>1. wrote \subseteq wrote' /\ \A h \in Graphs \ {g} : graphs'[h] = graphs[h] /\ w'[h] = w[h]
  BY WroteGrows, ReconcileLocal
<1>2. CASE Begin(g)
  <2>1. UNCHANGED graphs
    BY <1>2 DEF Begin
  <2>2. g \in DOMAIN case.specs => KemptAfter(g)
    BY <1>2, BeginKempt
  <2> QED
    BY <1>1, <2>1, <2>2, AccountsFollow
<1>3. CASE ~Begin(g)
  <2>1. KemptAfter(g)
    BY <1>3, WriteAheadManagedKempt, WriteAheadContributionsKempt, EnterNodeKempt, GetLiveKempt,
       ApplyObjectKempt, FinishKempt, DeleteEntryKempt, DeleteCheckedKempt, EndPruneKempt,
       OthersKempt, SettleKempt, UpdateStatusKempt, UnmanageKempt, SetManagedKempt DEF Reconcile
  <2>2. w[g].pc # "idle"
    BY <1>3, ReconcileRuns
  <2>3. g \in DOMAIN case.specs
    BY <2>2, AtWork
  <2> QED
    BY <1>1, <2>1, <2>3, AccountsFollow
<1> QED
  BY <1>2, <1>3

LEMMA AccountsStep == ASSUME Shapes, Versions, Accounts, [Next]_vars PROVE Accounts'
<1>0. ASSUME Next PROVE case' = case
  BY <1>0, CaseFixed
<1>1. ASSUME NEW g \in Graphs, Next, Reconcile(g) PROVE Accounts'
  BY <1>0, <1>1, ReconcileAccounts
<1>2. ASSUME NEW g \in Graphs, Next, EditGraph(g) \/ DeleteGraph(g) PROVE Accounts'
  <2>0. graphs[g].gen \in Nat /\ graphs[g].up /\ g \in DOMAIN case.specs
    BY <1>2 DEF Versions, Versioned, EditGraph, DeleteGraph
  <2>1. /\ \A h \in Graphs \ {g} : graphs'[h] = graphs[h] /\ w'[h] = w[h]
        /\ UNCHANGED <<w, wrote>>
    BY <1>2, <2>0, UserWrites DEF EditGraph, DeleteGraph
  <2>2. DOMAIN graphs = Graphs /\ DOMAIN graphs[g] = GraphFields /\ Kempt(g)
    BY <2>0 DEF Shapes, Accounts
  <2>3. \/ graphs'[g].managed = graphs[g].managed /\ graphs'[g].contribs = graphs[g].contribs
        \/ graphs'[g].managed = <<>> /\ graphs'[g].contribs = {}
    <3> DEFINE x == [graphs[g] EXCEPT !.deleting = TRUE, !.gen = graphs[g].gen + 1]
               y == [graphs[g] EXCEPT !.ver = graphs[g].ver + 1, !.gen = graphs[g].gen + 1]
               z == IF graphs[g].fin THEN x ELSE NoGraph(g)
    <3>1. graphs' = [graphs EXCEPT ![g] = y] \/ graphs' = [graphs EXCEPT ![g] = z]
      <4>1. CASE EditGraph(g)
        BY <2>2, <4>1 DEF EditGraph
      <4>2. CASE DeleteGraph(g)
        BY <4>2 DEF DeleteGraph
      <4> QED
        BY <1>2, <4>1, <4>2
    <3>2. /\ x.managed = graphs[g].managed /\ x.contribs = graphs[g].contribs
          /\ y.managed = graphs[g].managed /\ y.contribs = graphs[g].contribs
      BY <2>2 DEF GraphFields
    <3>3. NoGraph(g).managed = <<>> /\ NoGraph(g).contribs = {}
      BY <2>2 DEF NoGraph, GraphFields
    <3> HIDE DEF x, y
    <3>4. z = x \/ z = NoGraph(g)
      OBVIOUS
    <3> HIDE DEF z
    <3> QED
      BY <2>2, <3>1, <3>2, <3>3, <3>4
  <2>4. KemptAfter(g)
    BY <2>1, <2>2, <2>3, EmptyListing DEF KemptAfter, Kempt
  <2> QED
    BY <1>0, <1>2, <2>0, <2>1, <2>4, AccountsFollow
<1>3. ASSUME case' = case, UNCHANGED <<graphs, wrote>>,
             \A g \in Graphs : w'[g] = w[g] \/ w'[g] = Idle
      PROVE  Accounts'
  BY <1>3 DEF Accounts, Kempt, Blank
<1>4. ASSUME Next, \/ \E g \in Graphs : Drain(g)
                   \/ \E o \in Objects : Meddle(o) \/ Report(o) \/ Gone(o)
                   \/ \E k \in Kinds : CrdChanges(k) \/ CrdEvent(k)
      PROVE  Accounts'
  <2>1. UNCHANGED <<graphs, w, wrote>>
    BY <1>4 DEF Drain, Meddle, Report, Gone, CrdChanges, CrdEvent
  <2> QED
    BY <1>0, <1>3, <1>4, <2>1
<1>5. ASSUME Next, Crash PROVE Accounts'
  <2>1. UNCHANGED <<graphs, wrote>> /\ w' = [g \in Graphs |-> Idle]
    BY <1>5 DEF Crash
  <2> QED
    BY <1>0, <1>3, <1>5, <2>1
<1>6. CASE UNCHANGED vars
  BY <1>3, <1>6 DEF vars
<1> QED
  BY <1>1, <1>2, <1>4, <1>5, <1>6 DEF Next

LEMMA AccountsInit == ASSUME Init PROVE Accounts
<1>1. w = [g \in Graphs |-> Idle]
  BY DEF Init
<1>2. \A g \in Graphs : graphs[g].managed = <<>> /\ graphs[g].contribs = {}
  BY DEF Init
<1> QED
  BY <1>1, <1>2, EmptyListing DEF Accounts, Kempt, Blank

-----------------------------------------------------------------------------
(* The cluster's objects.                                                  *)

ObjectFields == {"uid", "val", "own", "term", "part", "st"}

\* An object has one of the n UIDs given out, and carries the template manager of
\* a Graph only if a template of that Graph has reached it (W is wrote).
Marked(W, p, x) == \A g \in Graphs : templateFieldManager(g) \in Managers(x) => <<g, p, x.uid>> \in W
Real(W, p, n, x) ==
    /\ DOMAIN x = ObjectFields /\ DOMAIN x.own = Fields
    /\ x.uid \in 1..n /\ Marked(W, p, x)
Sound(W, p, n, x) == x = NoObject \/ Real(W, p, n, x)

Stock == uids \in [Objects -> Nat] /\ DOMAIN objs = Objects /\ \A o \in Objects : Sound(wrote, o, uids[o], objs[o])

\* UIDs are only given out.
Grown == uids' \in [Objects -> Nat] /\ \A o \in Objects : uids[o] <= uids'[o]

LEMMA NothingIsSound == \A W, p, n : Sound(W, p, n, NoObject)
BY DEF Sound

LEMMA ExistingIsReal ==
    ASSUME NEW W, NEW p, NEW n, NEW x, Sound(W, p, n, x), Exists(x)
    PROVE  Real(W, p, n, x)
BY DEF Sound, Exists, NoObject

LEMMA RealExists ==
    ASSUME NEW W, NEW p, NEW n \in Nat, NEW x, Real(W, p, n, x)
    PROVE  Exists(x) /\ x # NoObject
BY DEF Real, Exists, NoObject

LEMMA SoundGrows ==
    ASSUME NEW W, NEW p, NEW V, W \subseteq V, NEW n \in Nat, NEW k \in Nat, n <= k, NEW x, Sound(W, p, n, x)
    PROVE  Sound(V, p, k, x)
<1>1. CASE x = NoObject
  BY <1>1 DEF Sound
<1>2. CASE Real(W, p, n, x)
  <2>1. x.uid \in 1..k
    BY <1>2 DEF Real
  <2>2. Marked(V, p, x)
    BY <1>2 DEF Real, Marked
  <2> QED
    BY <1>2, <2>1, <2>2 DEF Sound, Real
<1> QED
  BY <1>1, <1>2 DEF Sound

\* An edit of other fields than uid and own.
LEMMA EditIsSound ==
    ASSUME NEW W, NEW p, NEW n, NEW x, Real(W, p, n, x), NEW y, DOMAIN y = ObjectFields,
           y.uid = x.uid, y.own = x.own
    PROVE  Sound(W, p, n, y)
BY DEF Sound, Real, Marked, Managers

LEMMA DeletedIsSound ==
    ASSUME NEW W, NEW p, NEW n, NEW o, NEW x, Real(W, p, n, x)
    PROVE  Sound(W, p, n, Deleted(o, x))
<1> DEFINE y == [x EXCEPT !.term = TRUE]
<1>1. DOMAIN y = ObjectFields /\ y.uid = x.uid /\ y.own = x.own
  BY DEF Real, ObjectFields
<1>2. Deleted(o, x) = y \/ Deleted(o, x) = NoObject
  BY DEF Deleted
<1> HIDE DEF y
<1> QED
  BY <1>1, <1>2, EditIsSound, NothingIsSound

\* An apply adds no manager but its own, and none if it wants nothing.
LEMMA MergeManagers ==
    ASSUME NEW x, DOMAIN x = ObjectFields, NEW m, NEW wants
    PROVE  /\ DOMAIN Merge(x, m, wants) = ObjectFields
           /\ DOMAIN Merge(x, m, wants).own = Fields
           /\ Merge(x, m, wants).uid = x.uid
           /\ Managers(Merge(x, m, wants)) \subseteq Managers(x) \cup {m}
           /\ DOMAIN wants = {} => Managers(Merge(x, m, wants)) \subseteq Managers(x)
<1> DEFINE own == [f \in Fields |->
                     IF f \notin DOMAIN wants THEN x.own[f] \ {m}
                     ELSE IF x.val[f] = wants[f] THEN x.own[f] \union {m}
                     ELSE {m}]
           val == [f \in Fields |->
                     IF f \in DOMAIN wants THEN wants[f]
                     ELSE IF own[f] = {} /\ x.own[f] # {} THEN None
                     ELSE x.val[f]]
           y == [x EXCEPT !.own = own, !.val = val]
<1>1. Merge(x, m, wants) = y
  BY DEF Merge
<1>2. /\ DOMAIN own = Fields /\ \A f \in Fields : own[f] \subseteq x.own[f] \cup {m}
      /\ DOMAIN wants = {} => \A f \in Fields : own[f] \subseteq x.own[f]
  OBVIOUS
<1> HIDE DEF own, val
<1>3. DOMAIN y = ObjectFields /\ y.uid = x.uid /\ y.own = own
  BY DEF ObjectFields
<1> HIDE DEF y
<1>4. /\ Managers(y) \subseteq Managers(x) \cup {m}
      /\ DOMAIN wants = {} => Managers(y) \subseteq Managers(x)
  BY <1>2, <1>3 DEF Managers
<1> QED
  BY <1>1, <1>2, <1>3, <1>4

LEMMA NewFacts ==
    ASSUME NEW uid
    PROVE  DOMAIN New(uid) = ObjectFields /\ New(uid).uid = uid /\ Managers(New(uid)) = {}
BY DEF New, ObjectFields, Managers, Fields

LEMMA AppliedIsSound ==
    ASSUME NEW W, NEW p, NEW n \in Nat, NEW x, Sound(W, p, n, x), NEW m, NEW wants,
           NEW V, W \subseteq V, NEW k \in Nat, k = IF Exists(x) THEN n ELSE n + 1,
           DOMAIN wants = {} \/ \A g \in Graphs :
             m = templateFieldManager(g) => <<g, p, ssaApply(x, m, wants, n + 1).uid>> \in V
    PROVE  Sound(V, p, k, ssaApply(x, m, wants, n + 1))
<1> DEFINE b == IF Exists(x) THEN x ELSE New(n + 1)
           y == Merge(b, m, wants)
<1>0. ssaApply(x, m, wants, n + 1) = y
  BY DEF ssaApply
<1>1. DOMAIN b = ObjectFields /\ b.uid \in 1..k /\ Marked(V, p, b)
  <2>1. CASE Exists(x)
    <3>1. Real(W, p, n, x)
      BY <2>1, ExistingIsReal
    <3> QED
      BY <2>1, <3>1 DEF Real, Marked
  <2>2. CASE ~Exists(x)
    <3>1. b = New(n + 1) /\ k = n + 1
      BY <2>2
    <3>2. DOMAIN b = ObjectFields /\ b.uid = n + 1 /\ Managers(b) = {}
      BY <3>1, NewFacts
    <3> HIDE DEF b
    <3>3. b.uid \in 1..k
      BY <3>1, <3>2
    <3> QED
      BY <3>2, <3>3 DEF Marked
  <2> QED
    BY <2>1, <2>2
<1> HIDE DEF b
<1>2. /\ DOMAIN y = ObjectFields /\ DOMAIN y.own = Fields /\ y.uid = b.uid
      /\ Managers(y) \subseteq Managers(b) \cup {m}
      /\ DOMAIN wants = {} => Managers(y) \subseteq Managers(b)
  BY <1>1, MergeManagers
<1>3. DOMAIN wants = {} \/ \A g \in Graphs : m = templateFieldManager(g) => <<g, p, y.uid>> \in V
  BY <1>0
<1> HIDE DEF y
<1>4. Marked(V, p, y)
  BY <1>1, <1>2, <1>3 DEF Marked
<1> QED
  BY <1>0, <1>1, <1>2, <1>4 DEF Sound, Real

LEMMA CountGrows ==
    ASSUME Stock, NEW o, uids' = Count(o)
    PROVE  /\ Grown
           /\ o \in Objects => /\ uids[o] \in Nat /\ uids'[o] \in Nat
                               /\ uids'[o] = IF Exists(objs[o]) THEN uids[o] ELSE uids[o] + 1
<1>1. uids \in [Objects -> Nat]
  BY DEF Stock
<1>2. CASE Exists(objs[o])
  BY <1>1, <1>2 DEF Count, Grown
<1>3. CASE ~Exists(objs[o])
  <2>1. uids' = [uids EXCEPT ![o] = uids[o] + 1]
    BY <1>3 DEF Count
  <2>2. uids' \in [Objects -> Nat]
    <3>1. o \in Objects => uids[o] + 1 \in Nat
      BY <1>1
    <3> DEFINE k == uids[o] + 1
    <3> HIDE DEF k
    <3> QED
      BY <1>1, <2>1, <3>1 DEF k
  <2>3. ASSUME NEW p \in Objects PROVE uids[p] <= uids'[p]
    <3>1. uids[p] \in Nat /\ (uids'[p] = uids[p] \/ uids'[p] = uids[p] + 1)
      BY <1>1, <2>1
    <3> QED
      BY <3>1
  <2> QED
    BY <1>1, <1>3, <2>1, <2>2, <2>3 DEF Grown
<1> QED
  BY <1>2, <1>3

LEMMA UnchangedGrows == ASSUME Stock, UNCHANGED uids PROVE Grown
BY DEF Stock, Grown

\* One object is replaced by a sound one.
LEMMA StockSet ==
    ASSUME Stock, NEW o, NEW x, SetObject(o, x), wrote \subseteq wrote',
           Grown, o \in Objects => Sound(wrote', o, uids'[o], x)
    PROVE  Stock'
<1>1. objs' = [objs EXCEPT ![o] = x] /\ DOMAIN objs = Objects
  BY DEF SetObject, Stock
<1>2. DOMAIN objs' = Objects
  BY <1>1
<1>3. ASSUME NEW p \in Objects PROVE Sound(wrote', p, uids'[p], objs'[p])
  <2>1. objs'[p] = objs[p] \/ (p = o /\ objs'[p] = x)
    BY <1>1
  <2>2. Sound(wrote', p, uids'[p], objs[p])
    BY SoundGrows DEF Stock, Grown
  <2> QED
    BY <2>1, <2>2
<1> QED
  BY <1>2, <1>3 DEF Stock, Grown

LEMMA StockKept == ASSUME Stock, UNCHANGED <<objs, uids>>, wrote \subseteq wrote' PROVE Stock'
BY SoundGrows DEF Stock

\* A delete of an object that is there.
LEMMA StockDeletes ==
    ASSUME Stock, NEW o, Exists(objs[o]), SetObject(o, Deleted(o, objs[o])), UNCHANGED <<uids, wrote>>
    PROVE  Stock'
<1>1. o \in Objects => Real(wrote, o, uids[o], objs[o])
  BY ExistingIsReal DEF Stock
<1>2. o \in Objects => Sound(wrote', o, uids'[o], Deleted(o, objs[o]))
  BY <1>1, DeletedIsSound
<1>3. Grown /\ wrote \subseteq wrote'
  BY UnchangedGrows
<1> DEFINE x == Deleted(o, objs[o])
<1>4. SetObject(o, x) /\ (o \in Objects => Sound(wrote', o, uids'[o], x))
  BY <1>2
<1> HIDE DEF x
<1> QED
  BY <1>3, <1>4, StockSet

LEMMA DeleteEntryStock == ASSUME Stock, NEW g \in Graphs, DeleteEntry(g) PROVE Stock'
<1>0. UNCHANGED <<uids, wrote>>
  BY DEF DeleteEntry
<1>1. \/ UNCHANGED objs
      \/ \E o : Exists(objs[o]) /\ SetObject(o, Deleted(o, objs[o]))
  BY DEF DeleteEntry, Exists
<1> QED
  BY <1>0, <1>1, StockKept, StockDeletes

LEMMA DeleteCheckedStock ==
    ASSUME Stock, NEW g \in Graphs, DeleteChecked(g) PROVE Stock'
<1> DEFINE o == w[g].at
<1>0. UNCHANGED <<uids, wrote>>
  BY DEF DeleteChecked
<1>1. UNCHANGED objs \/ SetObject(o, Deleted(o, objs[o]))
  BY DEF DeleteChecked
<1>2. CASE UNCHANGED objs
  BY <1>0, <1>2, StockKept
<1> HIDE DEF o
<1>3. CASE SetObject(o, Deleted(o, objs[o])) /\ Exists(objs[o])
  BY <1>0, <1>3, StockDeletes
<1>4. CASE SetObject(o, Deleted(o, objs[o])) /\ ~Exists(objs[o])
  <2>1. o \in Objects => objs[o] = NoObject
    BY <1>4, RealExists DEF Stock, Sound
  <2>2. DOMAIN NoObject = {"uid"} /\ "term" \notin {"uid"}
    BY DEF NoObject
  <2>3. [NoObject EXCEPT !.term = TRUE] = NoObject
    BY <2>2 DEF NoObject
  <2>4. o \in Objects => Deleted(o, objs[o]) = NoObject
    BY <2>1, <2>3 DEF Deleted
  <2> DEFINE x == Deleted(o, objs[o])
  <2>5. SetObject(o, x) /\ (o \in Objects => Sound(wrote', o, uids'[o], x))
    BY <1>4, <2>4, NothingIsSound
  <2>6. Grown /\ wrote \subseteq wrote'
    BY <1>0, UnchangedGrows
  <2> HIDE DEF x
  <2> QED
    BY <2>5, <2>6, StockSet
<1> QED
  BY <1>1, <1>2, <1>3, <1>4

LEMMA ApplyObjectStock ==
    ASSUME Stock, NEW g \in Graphs, NEW force \in BOOLEAN, ApplyObject(g, force) PROVE Stock'
<1> DEFINE n == NodeAt(g)
           o == w[g].at
           m == IF n.kind = "patch" THEN patchFieldManager(g, n.id) ELSE templateFieldManager(g)
           new == ssaApply(objs[o], m, n.set, uids[o] + 1)
           k == Count(o)
<1>1. \/ UNCHANGED <<objs, uids, wrote>>
      \/ /\ SetObject(o, new) /\ uids' = k
         /\ wrote' = IF n.kind = "patch" THEN wrote ELSE wrote \union {<<g, o, new.uid>>}
  BY DEF ApplyObject
<1>2. CASE UNCHANGED <<objs, uids, wrote>>
  BY <1>2, StockKept
<1>3. CASE /\ SetObject(o, new) /\ uids' = k
           /\ wrote' = IF n.kind = "patch" THEN wrote ELSE wrote \union {<<g, o, new.uid>>}
  <2>1. Grown /\ wrote \subseteq wrote'
    BY <1>3, CountGrows
  <2>2. \A h \in Graphs : m = templateFieldManager(h) => <<h, o, new.uid>> \in wrote'
    <3> SUFFICES ASSUME NEW h \in Graphs, m = templateFieldManager(h)
                 PROVE  <<h, o, new.uid>> \in wrote'
      OBVIOUS
    <3>1. n.kind # "patch"
      BY DEF patchFieldManager, templateFieldManager
    <3>2. h = g
      BY <3>1 DEF templateFieldManager
    <3> QED
      BY <1>3, <3>1, <3>2
  <2> HIDE DEF n, m
  <2>3. o \in Objects => Sound(wrote, o, uids[o], objs[o])
    BY DEF Stock
  <2>4. o \in Objects => Sound(wrote', o, uids'[o], new)
    BY <1>3, <2>1, <2>2, <2>3, CountGrows, AppliedIsSound
  <2>5. SetObject(o, new)
    BY <1>3
  <2> HIDE DEF new, o
  <2> QED
    BY <2>1, <2>4, <2>5, StockSet
<1> QED
  BY <1>1, <1>2, <1>3

LEMMA ReleaseApplyStock == ASSUME Stock, NEW g \in Graphs, ReleaseApply(g) PROVE Stock'
<1> DEFINE c == w[g].at
           o == c.obj
           new == ssaApply(objs[o], c.manager, <<>>, uids[o] + 1)
           k == Count(o)
<1>0. UNCHANGED wrote
  BY DEF ReleaseApply
<1>1. UNCHANGED <<objs, uids>> \/ (SetObject(o, new) /\ uids' = k)
  BY DEF ReleaseApply
<1>2. CASE UNCHANGED <<objs, uids>>
  BY <1>0, <1>2, StockKept
<1>3. CASE SetObject(o, new) /\ uids' = k
  <2>1. Grown /\ wrote \subseteq wrote'
    BY <1>0, <1>3, CountGrows
  <2>2. DOMAIN <<>> = {}
    OBVIOUS
  <2>3. o \in Objects => Sound(wrote, o, uids[o], objs[o])
    BY DEF Stock
  <2> HIDE DEF c, o
  <2>4. o \in Objects => Sound(wrote', o, uids'[o], new)
    BY <1>3, <2>1, <2>2, <2>3, CountGrows, AppliedIsSound
  <2>5. SetObject(o, new)
    BY <1>3
  <2> HIDE DEF new
  <2> QED
    BY <2>1, <2>4, <2>5, StockSet
<1> QED
  BY <1>1, <1>2, <1>3

LEMMA MeddleStock == ASSUME Stock, NEW o \in Objects, Meddle(o) PROVE Stock'
<1>0. UNCHANGED wrote
  BY DEF Meddle
<1> DEFINE wants == [f \in {"data"} |-> "theirs"]
           new == ssaApply(NoObject, Someone, wants, uids[o] + 1)
           y(f) == [objs[o] EXCEPT !.val[f] = "theirs", !.own[f] = {Someone}]
<1>1. \/ ~Exists(objs[o]) /\ SetObject(o, new) /\ uids' = Count(o)
      \/ Exists(objs[o]) /\ UNCHANGED uids /\ SetObject(o, Deleted(o, objs[o]))
      \/ Exists(objs[o]) /\ UNCHANGED uids /\ \E f \in {"data", "aux"} : SetObject(o, y(f))
  BY DEF Meddle
<1>2. CASE ~Exists(objs[o]) /\ SetObject(o, new) /\ uids' = Count(o)
  <2>1. Grown /\ wrote \subseteq wrote'
    BY <1>0, <1>2, CountGrows
  <2>2. \A h \in Graphs : Someone # templateFieldManager(h)
    BY DEF Someone, templateFieldManager
  <2>3. Sound(wrote, o, uids[o], NoObject) /\ ~Exists(NoObject)
    BY NothingIsSound DEF Exists, NoObject
  <2> HIDE DEF wants
  <2>4. Sound(wrote', o, uids'[o], new)
    BY <1>2, <2>1, <2>2, <2>3, CountGrows, AppliedIsSound
  <2>5. SetObject(o, new)
    BY <1>2
  <2> HIDE DEF new
  <2> QED
    BY <2>1, <2>4, <2>5, StockSet
<1>3. CASE Exists(objs[o]) /\ UNCHANGED uids /\ SetObject(o, Deleted(o, objs[o]))
  BY <1>0, <1>3, StockDeletes
<1>4. CASE Exists(objs[o]) /\ UNCHANGED uids /\ \E f \in {"data", "aux"} : SetObject(o, y(f))
  <2>0. PICK f \in {"data", "aux"} : SetObject(o, y(f))
    BY <1>4
  <2>1. Grown /\ wrote \subseteq wrote'
    BY <1>0, <1>4, UnchangedGrows
  <2>2. Real(wrote, o, uids[o], objs[o])
    BY <1>4, ExistingIsReal DEF Stock
  <2> DEFINE x == objs[o]
             val == [x.val EXCEPT ![f] = "theirs"]
             own == [x.own EXCEPT ![f] = {Someone}]
             z == [x EXCEPT !.val = val, !.own = own]
  <2>3. y(f) = z
    BY <2>2 DEF Real, ObjectFields
  <2>4. DOMAIN own = Fields /\ \A e \in Fields : own[e] \subseteq x.own[e] \cup {Someone}
    BY <2>2 DEF Real
  <2> HIDE DEF val, own
  <2>5. DOMAIN z = ObjectFields /\ z.uid = x.uid /\ z.own = own
    BY <2>2 DEF Real, ObjectFields
  <2> HIDE DEF z
  <2>6. Managers(z) \subseteq Managers(x) \cup {Someone}
    BY <2>4, <2>5 DEF Managers
  <2>7. \A h \in Graphs : Someone # templateFieldManager(h)
    BY DEF Someone, templateFieldManager
  <2>8. Marked(wrote, o, z)
    BY <2>2, <2>5, <2>6, <2>7 DEF Marked, Real
  <2>9. Sound(wrote', o, uids'[o], z)
    BY <1>0, <1>4, <2>2, <2>4, <2>5, <2>8 DEF Sound, Real
  <2>10. SetObject(o, z)
    BY <2>0, <2>3
  <2> QED
    BY <2>1, <2>9, <2>10, StockSet
<1> QED
  BY <1>1, <1>2, <1>3, <1>4

LEMMA ReportStock == ASSUME Stock, NEW o \in Objects, Report(o) \/ Gone(o) PROVE Stock'
<1>0. UNCHANGED <<uids, wrote>> /\ Exists(objs[o])
  BY DEF Report, Gone
<1>1. Grown /\ wrote \subseteq wrote'
  BY <1>0, UnchangedGrows
<1>2. CASE SetObject(o, NoObject)
  BY <1>1, <1>2, NothingIsSound, StockSet
<1> DEFINE y(st) == [objs[o] EXCEPT !.st = st]
<1>3. CASE \E st : SetObject(o, y(st))
  <2>1. PICK st : SetObject(o, y(st))
    BY <1>3
  <2>2. Real(wrote, o, uids[o], objs[o])
    BY <1>0, ExistingIsReal DEF Stock
  <2> DEFINE z == y(st)
  <2>3. DOMAIN z = ObjectFields /\ z.uid = objs[o].uid /\ z.own = objs[o].own /\ SetObject(o, z)
    BY <2>1, <2>2 DEF Real, ObjectFields
  <2> HIDE DEF z
  <2>4. Sound(wrote', o, uids'[o], z)
    BY <1>0, <2>2, <2>3, EditIsSound
  <2> QED
    BY <1>1, <2>3, <2>4, StockSet
<1> QED
  BY <1>2, <1>3 DEF Report, Gone

LEMMA StockStep == ASSUME Stock, [Next]_vars PROVE Stock'
<1>1. ASSUME NEW g \in Graphs, Reconcile(g) PROVE Stock'
  <2>0. ASSUME UNCHANGED <<objs, uids, wrote>> PROVE Stock'
    BY <2>0, StockKept
  <2>1. CASE Begin(g) \/ setManaged(g) \/ CompileStart(g) \/ CompileEnd(g)
             \/ WriteAheadManaged(g) \/ WriteAheadContributions(g)
    BY <2>0, <2>1 DEF Begin, setManaged, CompileStart, CompileEnd, WriteAheadManaged,
                      WriteAheadContributions
  <2>2. CASE EnterNode(g) \/ GetLive(g) \/ Finish(g) \/ EndPrune(g) \/ EndDelete(g)
    BY <2>0, <2>2 DEF EnterNode, GetLive, Finish, EndPrune, EndDelete
  <2>3. CASE ReleaseGet(g) \/ SettleContributions(g) \/ updateStatus(g) \/ setUnmanaged(g)
    BY <2>0, <2>3 DEF ReleaseGet, SettleContributions, updateStatus, setUnmanaged
  <2>4. CASE (\E force \in BOOLEAN : ApplyObject(g, force)) \/ ReleaseApply(g)
             \/ DeleteEntry(g) \/ DeleteChecked(g)
    BY <2>4, ApplyObjectStock, ReleaseApplyStock, DeleteEntryStock, DeleteCheckedStock
  <2> QED
    BY <1>1, <2>1, <2>2, <2>3, <2>4 DEF Reconcile
<1>2. CASE \E o \in Objects : Meddle(o) \/ Report(o) \/ Gone(o)
  BY <1>2, MeddleStock, ReportStock
<1>3. ASSUME NEW k \in Kinds, CrdChanges(k) PROVE Stock'
  <2>1. UNCHANGED <<uids, wrote>> /\ DOMAIN objs' = Objects
        /\ \A o \in Objects : objs'[o] = NoObject \/ objs'[o] = objs[o]
    BY <1>3 DEF CrdChanges
  <2> QED
    BY <2>1, NothingIsSound DEF Stock
<1>4. CASE (\E g \in Graphs : EditGraph(g) \/ DeleteGraph(g) \/ Drain(g))
           \/ (\E k \in Kinds : CrdEvent(k)) \/ Crash \/ UNCHANGED vars
  <2>1. UNCHANGED <<objs, uids, wrote>>
    BY <1>4 DEF EditGraph, DeleteGraph, Drain, CrdEvent, Crash, vars
  <2> QED
    BY <2>1, StockKept
<1> QED
  BY <1>1, <1>2, <1>3, <1>4 DEF Next

LEMMA StockInit == ASSUME Init PROVE Stock
<1>1. case \in Cases /\ objs = case.objs /\ uids = [o \in Objects |-> objs[o].uid]
  BY DEF Init
<1>3. DOMAIN objs = Objects
  BY <1>1, CasesAssumption
<1>4. ASSUME NEW o \in Objects PROVE Sound(wrote, o, uids[o], objs[o])
  <2>1. \/ objs[o] = NoObject
        \/ /\ DOMAIN objs[o] = DOMAIN New(1) /\ objs[o].uid = 1 /\ uids[o] = 1
           /\ DOMAIN objs[o].own = Fields /\ Managers(objs[o]) \subseteq {Someone}
    BY <1>1, CasesAssumption
  <2>2. DOMAIN New(1) = ObjectFields
    BY NewFacts
  <2>3. \A h \in Graphs : Someone # templateFieldManager(h)
    BY DEF Someone, templateFieldManager
  <2> QED
    BY <2>1, <2>2, <2>3 DEF Sound, Real, Marked
<1>5. uids \in [Objects -> Nat]
  <2>1. \A o \in Objects : objs[o].uid \in Nat
    BY <1>1, CasesAssumption DEF NoObject
  <2> QED
    BY <1>1, <2>1
<1> QED
  BY <1>3, <1>4, <1>5 DEF Stock

LEMMA WokenAreGraphs == \A o, x : Woken(o, x) \subseteq Graphs
BY DEF Woken

LEMMA QueueStep == ASSUME queue \subseteq Graphs, dirty \subseteq Graphs, [Next]_vars PROVE queue' \subseteq Graphs
<1>1. ASSUME NEW g \in Graphs, Reconcile(g) PROVE queue' \subseteq Graphs
  <2>1. CASE Begin(g) \/ setManaged(g) \/ CompileStart(g) \/ CompileEnd(g)
    BY <2>1 DEF Begin, setManaged, CompileStart, CompileEnd
  <2>2. CASE WriteAheadManaged(g) \/ WriteAheadContributions(g) \/ Finish(g) \/ SettleContributions(g)
    BY <2>2 DEF WriteAheadManaged, WriteAheadContributions, Finish, SettleContributions,
                persistContributions, WriteGraph
  <2>3. CASE EnterNode(g) \/ GetLive(g) \/ EndPrune(g) \/ EndDelete(g) \/ ReleaseGet(g)
    BY <2>3 DEF EnterNode, GetLive, EndPrune, EndDelete, ReleaseGet
  <2>4. CASE (\E force \in BOOLEAN : ApplyObject(g, force)) \/ ReleaseApply(g)
             \/ DeleteEntry(g) \/ DeleteChecked(g)
    <3>1. UNCHANGED queue \/ \E o, x : SetObject(o, x)
      BY <2>4 DEF ApplyObject, ReleaseApply, DeleteEntry, DeleteChecked
    <3> QED
      BY <3>1, WokenAreGraphs DEF SetObject
  <2>5. CASE updateStatus(g) \/ setUnmanaged(g)
    BY <2>5 DEF updateStatus, setUnmanaged
  <2> QED
    BY <1>1, <2>1, <2>2, <2>3, <2>4, <2>5 DEF Reconcile
<1>2. ASSUME NEW o \in Objects, Meddle(o) \/ Report(o) \/ Gone(o) PROVE queue' \subseteq Graphs
  <2>1. \E x : SetObject(o, x)
    BY <1>2 DEF Meddle, Report, Gone
  <2> QED
    BY <2>1, WokenAreGraphs DEF SetObject
<1>3. ASSUME NEW k \in Kinds, CrdChanges(k) PROVE queue' \subseteq Graphs
  BY <1>3, WokenAreGraphs DEF CrdChanges
<1>4. CASE (\E g \in Graphs : EditGraph(g) \/ DeleteGraph(g) \/ Drain(g))
           \/ (\E k \in Kinds : CrdEvent(k)) \/ Crash \/ UNCHANGED vars
  BY <1>4 DEF EditGraph, DeleteGraph, Drain, CrdEvent, Crash, vars
<1> QED
  BY <1>1, <1>2, <1>3, <1>4 DEF Next

LEMMA QueueInit == ASSUME Init PROVE queue \subseteq Graphs
<1>1. case \in Cases /\ queue = DOMAIN case.specs
  BY DEF Init
<1> QED
  BY <1>1, CasesAssumption

-----------------------------------------------------------------------------
(* The two theorems.                                                       *)

Ordered == Tracked /\ Accounts /\ Stock /\ queue \subseteq Graphs

LEMMA OrderedHolds == Spec => []Ordered
<1>1. Init => Ordered
  BY TrackedInit, AccountsInit, StockInit, QueueInit DEF Ordered
<1>2. Ordered /\ [Next]_vars => Ordered'
  <2>1. Ordered /\ [Next]_vars => Tracked'
    BY TrackedStep DEF Ordered
  <2>2. Ordered /\ [Next]_vars => Accounts' /\ Stock'
    BY AccountsStep, StockStep DEF Ordered, Tracked, Attention
  <2>3. Ordered /\ [Next]_vars => queue' \subseteq Graphs
    BY QueueStep DEF Ordered, Tracked, Schemas, Marks
  <2> QED
    BY <2>1, <2>2, <2>3 DEF Ordered
<1> QED
  BY <1>1, <1>2, PTL DEF Spec

\* What a version renders is an object of the model.
LEMMA RenderedAreObjects ==
    ASSUME Versions, NEW g \in Graphs, g \in DOMAIN case.specs, NEW o, NEW id, Rendered(case.specs[g], o, id)
    PROVE  o \in Objects
<1>1. case \in Cases
  BY DEF Versions
<1>2. \A v \in DOMAIN case.specs[g] : \A i \in DOMAIN case.specs[g][v].nodes :
        case.specs[g][v].nodes[i].items \subseteq Objects
  BY <1>1, CasesAssumption
<1> QED
  BY <1>2 DEF Rendered

\* The reconciler's state is well formed in every reachable state, however many
\* Graphs, objects and versions there are: inventories and ledgers list objects that
\* some version renders, conditions are of generations that were, UIDs are those
\* given out, and the watcher's tables are of the kinds and Graphs there are.
THEOREM GraphTypeCorrect == Spec => []TypeOK
<1>1. Ordered => TypeOK
  <2> SUFFICES ASSUME Ordered PROVE TypeOK
    OBVIOUS
  <2>0. Versions /\ Schemas /\ Accounts /\ Stock /\ queue \subseteq Graphs
    BY DEF Ordered, Tracked
  <2>1. \A g \in Graphs : graphs[g].ver <= graphs[g].gen /\ graphs[g].cond.of <= graphs[g].gen
    BY <2>0 DEF Versions, Versioned
  <2>2. ASSUME NEW g \in Graphs
        PROVE  /\ DOMAIN graphs[g].managed \subseteq Objects
               /\ \A c \in graphs[g].contribs : c.obj \in Objects /\ c.manager.graph = g
    <3>1. CASE g \in DOMAIN case.specs
      <4>1. /\ Listing(case.specs[g], wrote, g, graphs[g].managed)
            /\ Ledger(case.specs[g], g, graphs[g].contribs)
        BY <2>0, <3>1 DEF Accounts, Kempt
      <4>2. \A o \in DOMAIN graphs[g].managed : \E id : Rendered(case.specs[g], o, id)
        BY <4>1 DEF Listing, Entry
      <4>3. \A c \in graphs[g].contribs : c.manager.graph = g /\ \E id : Rendered(case.specs[g], c.obj, id)
        BY <4>1 DEF Ledger
      <4> QED
        BY <2>0, <3>1, <4>2, <4>3, RenderedAreObjects
    <3>2. CASE g \notin DOMAIN case.specs
      BY <2>0, <3>2 DEF Accounts, Blank
    <3> QED
      BY <3>1, <3>2
  <2>3. \A o \in Objects : objs[o].uid <= uids[o]
    BY <2>0 DEF Stock, Sound, Real, NoObject
  <2>4. SWTypeOK
    BY <2>0, GraphsAssumption DEF SWTypeOK, Schemas, Seen, Marks, Epochs
  <2> QED
    BY <2>0, <2>1, <2>2, <2>3, <2>4 DEF TypeOK
<1> QED
  BY <1>1, OrderedHolds, PTL

\* A step that deletes for g is one of its DeleteEntry and DeleteChecked, and what it
\* deletes is the entry's own UID, or an object that was seen to be the Graph's.
LEMMA DeletesWhatItKnows ==
    ASSUME Shapes, Stock, [Next]_vars, NEW g \in Graphs, NEW o \in Objects, Deletes(g, o)
    PROVE  \/ w[g].todo[o].uid = objs[o].uid
           \/ w[g].pc \in {"pruning", "deleting"} /\ objs[o] = w[g].cur
<1>0. /\ w'[g] # w[g] /\ objs'[o] # objs[o] /\ Exists(objs[o])
      /\ w[g].pc \in {"prune", "pruning", "delete", "deleting"}
  BY DEF Deletes
<1>1. Reconcile(g)
  <2>1. ASSUME NEW h \in Graphs, Reconcile(h), h # g PROVE FALSE
    BY <1>0, <2>1, ReconcileLocal
  <2>2. CASE \/ \E h \in Graphs : EditGraph(h) \/ DeleteGraph(h) \/ Drain(h)
             \/ \E p \in Objects : Meddle(p) \/ Report(p) \/ Gone(p)
             \/ \E k \in Kinds : CrdChanges(k) \/ CrdEvent(k)
             \/ UNCHANGED vars
    <3>1. UNCHANGED w
      BY <2>2 DEF EditGraph, DeleteGraph, Drain, Meddle, Report, Gone, CrdChanges, CrdEvent, vars
    <3> QED
      BY <1>0, <3>1
  <2>3. CASE Crash
    BY <1>0, <2>3 DEF Crash
  <2> QED
    BY <2>1, <2>2, <2>3 DEF Next
<1>2. DeleteEntry(g) \/ DeleteChecked(g)
  <2>0. w[g] # Idle
    BY <1>0 DEF Idle
  <2>1. ~Begin(g)
    BY <2>0 DEF Begin, Running
  <2>2. ~(EndPrune(g) \/ EndDelete(g))
    BY <1>0 DEF EndPrune, EndDelete
  <2>3. ~(setManaged(g) \/ CompileStart(g) \/ CompileEnd(g) \/ WriteAheadManaged(g)
          \/ WriteAheadContributions(g))
    BY <1>0 DEF setManaged, CompileStart, CompileEnd, WriteAheadManaged, WriteAheadContributions
  <2>4. ~(EnterNode(g) \/ GetLive(g) \/ Finish(g) \/ \E force \in BOOLEAN : ApplyObject(g, force))
    BY <1>0 DEF EnterNode, GetLive, Finish, ApplyObject
  <2>5. ~(ReleaseGet(g) \/ ReleaseApply(g) \/ SettleContributions(g) \/ updateStatus(g) \/ setUnmanaged(g))
    BY <1>0 DEF ReleaseGet, ReleaseApply, SettleContributions, updateStatus, setUnmanaged
  <2> QED
    BY <1>1, <2>1, <2>2, <2>3, <2>4, <2>5 DEF Reconcile
<1>3. CASE DeleteEntry(g)
  <2>1. \E p \in DOMAIN w[g].todo :
          UNCHANGED objs \/ (objs[p].uid = w[g].todo[p].uid /\ \E x : objs' = [objs EXCEPT ![p] = x])
    BY <1>3 DEF DeleteEntry, SetObject
  <2> QED
    BY <1>0, <2>1 DEF Stock
<1>4. CASE DeleteChecked(g)
  <2>1. /\ w[g].pc \in {"pruning", "deleting"}
        /\ UNCHANGED objs \/ (objs[w[g].at] = w[g].cur /\ \E x : objs' = [objs EXCEPT ![w[g].at] = x])
    BY <1>4 DEF DeleteChecked, SetObject
  <2> QED
    BY <1>0, <2>1 DEF Stock
<1> QED
  BY <1>2, <1>3, <1>4

\* Prune and teardown delete no object that no template of the Graph has reached in
\* this incarnation (Delete and deleteByUID of the executor, diffManagedResources
\* and updateStatus of the controller), collections aside: whatever the inventory
\* lists, whoever created or replaced the object, and wherever the process died.
THEOREM DeletesAreOwn == Spec => DeletesOnlyOwn
<1> DEFINE F == \A g \in Graphs, o \in Objects :
                  Deletes(g, o) /\ ~Collected(case.specs[g], o) => <<g, o, objs[o].uid>> \in wrote
<1>1. Ordered /\ [Next]_vars => F
  <2> SUFFICES ASSUME Ordered, [Next]_vars, NEW g \in Graphs, NEW o \in Objects,
                      Deletes(g, o), ~Collected(case.specs[g], o)
               PROVE  <<g, o, objs[o].uid>> \in wrote
    OBVIOUS
  <2>0. Shapes /\ Versions /\ Accounts /\ Stock
    BY DEF Ordered, Tracked, Attention
  <2>1. Exists(objs[o]) /\ o \in DOMAIN w[g].todo /\ w[g].pc # "idle"
    BY DEF Deletes
  <2>2. Books(case.specs[g], wrote, g, w[g])
    BY <2>0, <2>1, AtWork
  <2>3. CASE w[g].todo[o].uid = objs[o].uid
    <3>1. Entry(case.specs[g], wrote, g, o, w[g].todo[o])
      BY <2>1, <2>2 DEF Books, Lists, Listing
    <3> QED
      BY <2>1, <2>3, <3>1 DEF Entry, Exists
  <2>4. CASE w[g].pc \in {"pruning", "deleting"} /\ objs[o] = w[g].cur
    <3>1. templateFieldManager(g) \in Managers(objs[o])
      BY <2>2, <2>4 DEF Books, Placed
    <3>2. Real(wrote, o, uids[o], objs[o])
      BY <2>0, <2>1, ExistingIsReal DEF Stock
    <3> QED
      BY <3>1, <3>2 DEF Real, Marked
  <2> QED
    BY <2>0, <2>3, <2>4, DeletesWhatItKnows
<1>2. Ordered /\ [Next]_vars => [F]_vars
  BY <1>1
<1> HIDE DEF F
<1>3. Spec => [][F]_vars
  BY <1>2, OrderedHolds, PTL DEF Spec
<1> QED
  BY <1>3 DEF DeletesOnlyOwn, F

=============================================================================
