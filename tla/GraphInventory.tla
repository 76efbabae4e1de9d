--------------------------- MODULE GraphInventory ---------------------------
(***************************************************************************)
(* What a Graph's inventory promises: an object a Graph holds is in the    *)
(* inventory before the Graph writes it, leaves it only when it is held no *)
(* more, and the Graph does not go before the last of them.                *)
(***************************************************************************)
CONSTANTS Graphs, Objects

VARIABLES
    up,     \* the Graphs that exist
    known,  \* known[g]: what the inventory of g lists
    held    \* held[g]: the objects that only the inventory of g can remove

invVars == <<up, known, held>>

Init ==
    /\ up \subseteq Graphs
    /\ known = [g \in Graphs |-> {}] /\ held = [g \in Graphs |-> {}]

\* An object that is listed is written; others may lose it by that.
Write(g, o) ==
    /\ g \in up /\ o \in known[g]
    /\ held' \in [Graphs -> SUBSET Objects] /\ held'[g] = held[g] \union {o}
    /\ \A x \in Graphs \ {g} : held[x] \ {o} \subseteq held'[x] /\ held'[x] \subseteq held[x]
    /\ UNCHANGED <<up, known>>

\* The inventory is replaced: nothing held drops out of it, and it may list
\* objects that have been written already.
Record(g) ==
    /\ g \in up
    /\ known' \in [Graphs -> SUBSET Objects] /\ held' \in [Graphs -> SUBSET Objects]
    /\ held[g] \subseteq held'[g] /\ held'[g] \subseteq known'[g]
    /\ \A x \in Graphs \ {g} : known'[x] = known[x] /\ held'[x] = held[x]
    /\ UNCHANGED up

\* Objects are deleted, taken over or replaced.
Lose ==
    /\ held' \in [Graphs -> SUBSET Objects]
    /\ \A g \in Graphs : held'[g] \subseteq held[g]
    /\ UNCHANGED <<up, known>>

Remove(g) ==
    /\ g \in up /\ held[g] = {}
    /\ up' = up \ {g} /\ known' = [known EXCEPT ![g] = {}]
    /\ UNCHANGED held

Next ==
    \/ \E g \in Graphs : Record(g) \/ Remove(g) \/ \E o \in Objects : Write(g, o)
    \/ Lose

Spec == Init /\ [][Next]_invVars

=============================================================================
