---------------------------- MODULE WatchManager ----------------------------
(***************************************************************************)
(* pkg/watch Manager: one shared informer per GVR, kept as long as some    *)
(* owner ID retains it.  Every operation runs under Manager.mu, so each is *)
(* one operator from a manager to a manager; the wait for the initial list *)
(* that ends EnsureWatch is outside the lock and belongs to the callers.   *)
(***************************************************************************)

CONSTANTS
    Gvrs,       \* the resource types
    OwnerIDs    \* the owner IDs: "coordinator", and "parent"

\* watches: the running informers; synced: the ones whose list has arrived.
Manager == [watches : SUBSET Gvrs, synced : SUBSET Gvrs,
            owners : [Gvrs -> SUBSET OwnerIDs]]

NewManager == [watches |-> {}, synced |-> {}, owners |-> [v \in Gvrs |-> {}]]

\* EnsureWatch, up to the wait: retain, and start the informer if there is none.
EnsureWatch(m, v, id) ==
    [m EXCEPT !.owners[v] = @ \cup {id}, !.watches = @ \cup {v}]

\* stopWatchLocked(gvr, false): nothing happens while an owner is left.
stopWatchLocked(m, v) ==
    IF m.owners[v] # {} THEN m
    ELSE [m EXCEPT !.watches = @ \ {v}, !.synced = @ \ {v}]

\* A bug: the informer of the last owner is not stopped.
ReleaseWatchKeeps(m, v, id) == [m EXCEPT !.owners[v] = @ \ {id}]

ReleaseWatch(m, v, id) == stopWatchLocked([m EXCEPT !.owners[v] = @ \ {id}], v)

\* The informer's initial list arrives: HasSynced.
Synced(m, v) == [m EXCEPT !.synced = @ \cup {v}]

\* An informer runs exactly as long as somebody retains it.
ManagerOK(m) ==
    /\ \A v \in Gvrs : v \in m.watches <=> m.owners[v] # {}
    /\ m.synced \subseteq m.watches

=============================================================================
