-------------------------- MODULE RevisionRegistry --------------------------
(***************************************************************************)
(* The in-memory revision registry of pkg/graph/revisions: one bucket, the *)
(* revisions of one RGD name.  Buckets of different names share nothing    *)
(* but the lock, so one bucket is the whole state that matters.            *)
(*                                                                         *)
(* Every operation runs under Registry.mu, so each is one operator from a  *)
(* bucket to a bucket.  A bucket that byRGD does not hold is EmptyBucket.  *)
(***************************************************************************)
EXTENDS Integers

CONSTANTS
    Specs,      \* the RGD specs that users submit
    NoSpec,     \* no spec
    MaxRev      \* bound: the largest revision number of the instance

ASSUME RegistryAssumption ==
    /\ MaxRev \in Nat \ {0}
    /\ NoSpec \notin Specs

Revs == 1..MaxRev

States == {"Pending", "Active", "Failed"}

\* An entry; spec stands for SpecHash, CompiledGraph and RGDSpec, which are
\* all computed from the snapshot of the revision.
Entry == [state : States \cup {"Absent"}, spec : Specs \cup {NoSpec}]

NoEntry == [state |-> "Absent", spec |-> NoSpec]

Bucket == [entries : [Revs -> Entry],
           latest : 0..MaxRev,
           hasLatest : BOOLEAN]

EmptyBucket == [entries |-> [r \in Revs |-> NoEntry],
                latest |-> 0,
                hasLatest |-> FALSE]

\* Get: the second result is HasEntry.
HasEntry(b, r) == b.entries[r].state # "Absent"

Revisions(b) == {r \in Revs : HasEntry(b, r)}

\* The greatest element of a set of revisions, 0 for the empty one.
Newest(S) == IF S = {} THEN 0 ELSE CHOOSE r \in S : \A x \in S : x <= r

\* Latest: NoEntry where the code returns false.
Latest(b) ==
    IF b.hasLatest /\ b.latest \in Revs THEN b.entries[b.latest] ELSE NoEntry

\* A bug: latest follows every write.
PutFollowsWrites(b, r, e) ==
    [entries |-> [b.entries EXCEPT ![r] = e], latest |-> r, hasLatest |-> TRUE]

\* Put inserts or overwrites, and advances latest to a strictly newer revision.
Put(b, r, e) ==
    LET newer == ~b.hasLatest \/ r > b.latest
    IN [entries |-> [b.entries EXCEPT ![r] = e],
        latest |-> IF newer THEN r ELSE b.latest,
        hasLatest |-> TRUE]

recomputeLatest(es) ==
    LET present == {r \in Revs : es[r].state # "Absent"}
    IN IF present = {}
       THEN [entries |-> es, latest |-> 0, hasLatest |-> FALSE]
       ELSE [entries |-> es, latest |-> Newest(present), hasLatest |-> TRUE]

Delete(b, r) ==
    IF ~HasEntry(b, r) THEN b
    ELSE LET es == [b.entries EXCEPT ![r] = NoEntry]
         IN IF \A x \in Revs : es[x].state = "Absent" THEN EmptyBucket
            ELSE IF b.latest # r THEN [b EXCEPT !.entries = es]
            ELSE recomputeLatest(es)

DeleteAll(b) == EmptyBucket

\* DeleteRevisionsBefore removes the entries below min.
DeleteRevisionsBefore(b, min) ==
    LET es == [r \in Revs |-> IF r < min THEN NoEntry ELSE b.entries[r]]
    IN IF \A x \in Revs : es[x].state = "Absent" THEN EmptyBucket
       ELSE IF b.latest >= min THEN [b EXCEPT !.entries = es]
       ELSE recomputeLatest(es)

\* The pointer that makes Latest O(1) is the newest revision with an entry.
LatestOK(b) ==
    /\ b.hasLatest <=> Revisions(b) # {}
    /\ b.hasLatest => b.latest = Newest(Revisions(b))

=============================================================================
