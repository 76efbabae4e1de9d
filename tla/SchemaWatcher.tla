--------------------------- MODULE SchemaWatcher ---------------------------
(***************************************************************************)
(* The cache of compiled programs (pkg/graphengine/registry) and the       *)
(* watcher that invalidates it when a CRD changes                          *)
(* (pkg/graphengine/schemawatcher).  A compile runs outside the cache's    *)
(* lock: it takes the key's epoch before and stores its program after only *)
(* if the epoch has not moved.                                             *)
(***************************************************************************)
EXTENDS Naturals, FiniteSets

CONSTANTS
    Subscribers,  \* the Graphs
    Kinds,        \* the GroupKinds served by a CRD
    MaxCrd        \* bound on the changes to each CRD

ASSUME SchemaAssumption == IsFiniteSet(Subscribers) /\ MaxCrd \in Nat

VARIABLES
    crd,        \* crd[k]: the version of the CRD and whether it is installed
    hashes,     \* schemaHashes: what the watcher has last seen of it
    subs,       \* subs[g]: the kinds g tracks, and whether it tracks all
    dirty,      \* the Graphs the watcher has yet to enqueue
    entries,    \* entries[g]: the cached program, with what it was compiled from
    epochs,     \* epochs[g]: 0 when the key has none
    nextEpoch

swVars == <<crd, hashes, subs, dirty, entries, epochs, nextEpoch>>

Nothing == [hash |-> "none"]

Crd == [ver : 0..MaxCrd, up : BOOLEAN]

SWTypeOK ==
    /\ crd \in [Kinds -> Crd] /\ hashes \in [Kinds -> Crd]
    /\ \A g \in Subscribers : subs[g].gks \subseteq Kinds /\ subs[g].dyn \in BOOLEAN
    /\ dirty \subseteq Subscribers
    /\ \A g \in Subscribers : epochs[g] <= nextEpoch

SWInit(installed) ==
    /\ crd = [k \in Kinds |-> [ver |-> 0, up |-> k \in installed]]
    /\ hashes = crd
    /\ subs = [g \in Subscribers |-> [gks |-> {}, dyn |-> FALSE]]
    /\ dirty = {}
    /\ entries = [g \in Subscribers |-> Nothing]
    /\ epochs = [g \in Subscribers |-> 0]
    /\ nextEpoch = 0

-----------------------------------------------------------------------------
(* The registry.                                                           *)

Cached(g, hash) == entries[g] # Nothing /\ entries[g].hash = hash

\* Delete: the counter moves, the key's epoch is pruned with its entry.
Invalidate(gs) ==
    /\ entries' = [g \in Subscribers |-> IF g \in gs THEN Nothing ELSE entries[g]]
    /\ epochs' = [g \in Subscribers |-> IF g \in gs THEN 0 ELSE epochs[g]]
    /\ nextEpoch' = nextEpoch + Cardinality(gs)

\* A bug: the counter does not move with the epoch.
StoreBackUncounted(g, ep, prog) ==
    IF epochs[g] = ep
    THEN /\ epochs' = [epochs EXCEPT ![g] = nextEpoch + 1]
         /\ entries' = [entries EXCEPT ![g] = prog] /\ UNCHANGED nextEpoch
    ELSE UNCHANGED <<entries, epochs, nextEpoch>>

\* The second half of Compile: prog is stored unless the epoch has moved
\* since it was read as ep, or been set or pruned.
StoreBack(g, ep, prog) ==
    IF epochs[g] = ep
    THEN /\ nextEpoch' = nextEpoch + 1
         /\ epochs' = [epochs EXCEPT ![g] = nextEpoch + 1]
         /\ entries' = [entries EXCEPT ![g] = prog]
    ELSE UNCHANGED <<entries, epochs, nextEpoch>>

-----------------------------------------------------------------------------
(* The watcher.                                                            *)

\* Track and TrackDynamic for every node, then Done(TRUE): what is no longer
\* tracked is dropped.
Subscribe(g, gks, dyn) == subs' = [subs EXCEPT ![g] = [gks |-> gks, dyn |-> dyn]]

RemoveGraph(g) == Subscribe(g, {}, FALSE)

affectedLocked(k) == {g \in Subscribers : k \in subs[g].gks \/ subs[g].dyn}

\* onAdd, onUpdate and onDelete: remember what was seen, drop the programs of
\* the Graphs concerned, and mark them to be enqueued.
onEvent(k) ==
    /\ hashes[k] # crd[k]
    /\ hashes' = [hashes EXCEPT ![k] = crd[k]]
    /\ Invalidate(affectedLocked(k))
    /\ dirty' = dirty \union affectedLocked(k)
    /\ UNCHANGED <<crd, subs>>

\* What a compile may read of a kind: the cached schema, which the watcher
\* invalidates with the event, or the CRD as it is.
Readable(k) == {hashes[k], crd[k]}

\* Somebody installs, changes or removes the CRD.
ChangeCrd(k) ==
    /\ crd[k].ver < MaxCrd
    /\ \E up \in BOOLEAN :
         /\ up \/ crd[k].up
         /\ crd' = [crd EXCEPT ![k] = [ver |-> @.ver + 1, up |-> up]]

\* A restarted process lists the CRDs afresh and has nothing else.
SWRestart ==
    /\ hashes' = crd
    /\ subs' = [g \in Subscribers |-> [gks |-> {}, dyn |-> FALSE]]
    /\ dirty' = {}
    /\ entries' = [g \in Subscribers |-> Nothing]
    /\ epochs' = [g \in Subscribers |-> 0]
    /\ nextEpoch' = 0
    /\ UNCHANGED crd

=============================================================================
