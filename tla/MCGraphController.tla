------------------------- MODULE MCGraphController -------------------------
EXTENDS GraphController, TLC

Node(id, kind, items) ==
    [id |-> id, kind |-> kind, items |-> items, deps |-> {}, inc |-> None, use |-> {},
     frame |-> None, coll |-> FALSE, dyn |-> FALSE, rdy |-> FALSE,
     set |-> IF kind = "patch" THEN [aux |-> id]
             ELSE [meta |-> id, data |-> "v"]]

T(id, o) == Node(id, "template", {o})
Using(n, x) == [n EXCEPT !.use = {x}, !.deps = {x}]
If(n, x) == [n EXCEPT !.inc = x, !.deps = {x}]
Ready(n) == [n EXCEPT !.rdy = TRUE]
Each(n, os) == [n EXCEPT !.coll = TRUE, !.items = os]
Dyn(n) == [n EXCEPT !.dyn = TRUE]
In(n, f) == [n EXCEPT !.frame = f]
P(id, o) == Node(id, "patch", {o})
Ref(id, o) == Node(id, "ref", {o})
Sub(id, captured) == [Node(id, "graph", {}) EXCEPT !.deps = captured]

By(sa, nodes) == [nodes |-> nodes, sa |-> sa]

NoObjects == [o \in Objects |-> NoObject]
Theirs(os) == [o \in Objects |->
    IF o \in os THEN ssaApply(NoObject, Someone, [f \in {"data"} |-> "theirs"], 1)
    ELSE NoObject]

Case(specs, budget) ==
    [specs |-> specs, objs |-> NoObjects, installed |-> Kinds, kill |-> Graphs,
     open |-> Objects, lively |-> Objects, budget |-> budget]

Budget(faults, humans, reports) ==
    [faults |-> faults, humans |-> humans, reports |-> reports]

CONSTANTS g1, g2, o1, o2, o3, k1

MCKindOf == (o1 :> None) @@ (o2 :> None) @@ (o3 :> k1)
MCMayWrite == ("s1" :> {o1, o2, o3}) @@ ("s2" :> {o1})

\* A Graph loses a node and is deleted while calls fail and the process dies;
\* b is rendered from the status of a.
Faulty == Case(g1 :> <<By("s1", <<T("a", o1), Using(T("b", o2), "a")>>),
                       By("s1", <<T("c", o1)>>)>>, Budget(1, 0, 1))

\* Two Graphs want the same object.
Peers == Case((g1 :> <<By("s1", <<T("a", o1)>>)>>) @@
              (g2 :> <<By("s1", <<T("b", o1)>>)>>), Budget(0, 0, 0))

\* People change what a template and a patch have written.
Drift == [Case(g1 :> <<By("s1", <<T("a", o1), P("p", o2)>>), By("s1", <<T("a", o1)>>)>>,
               Budget(0, 2, 0)) EXCEPT !.objs = Theirs({o2}), !.open = {o1, o2}, !.kill = {}]

\* A patch is replaced and its Graph deleted while a call fails.
PatchFaults == [Case(g1 :> <<By("s1", <<T("a", o1), P("p", o2)>>), By("s1", <<P("q", o2)>>)>>,
               Budget(1, 0, 0)) EXCEPT !.objs = Theirs({o2})]

\* Conditions flip with a status.
Conditions == [Case(g1 :> <<By("s1", <<Ready(T("z", o1)), If(T("a", o2), "z"), Using(T("b", o3), "a")>>)>>,
               Budget(0, 0, 2)) EXCEPT !.lively = {o1, o2}]

\* A collection shrinks; one of its objects is somebody else's already.
Collection == [Case(g1 :> <<By("s1", <<Each(T("c", o1), {o1, o2})>>),
                            By("s1", <<Each(T("c", o1), {o1})>>)>>,
               Budget(1, 0, 0)) EXCEPT !.objs = Theirs({o1}), !.open = {o2}]

\* A subgraph with a condition of its own, then two nodes for one object.
Nested == [Case(g1 :> <<By("s1", <<Ref("r", o1), Sub("s", {"r"}), In(T("s/x", o2), "s"),
                                   In(If(P("s/p", o1), "s/x"), "s")>>),
                        By("s1", <<T("x", o2), T("y", o2)>>)>>,
               Budget(0, 1, 1)) EXCEPT !.objs = Theirs({o1}), !.open = {o1}, !.lively = {o2}]

\* A CRD changes, goes and returns while a program is compiled and run.
Crds == Case(g1 :> <<By("s1", <<T("a", o3)>>), By("s1", <<T("b", o1), Dyn(T("c", o3))>>)>>,
             Budget(0, 0, 0))

Recompiled == [Case(g1 :> <<By("s1", <<T("a", o3)>>), By("s1", <<T("b", o3)>>)>>,
                    Budget(0, 0, 0)) EXCEPT !.kill = {}]

\* The ServiceAccount of a Graph changes, to one that may write less and then
\* to the controller's own.
Identities == Case(g1 :> <<By("s1", <<T("a", o1), T("b", o2)>>), By("s2", <<T("a", o1), T("b", o2)>>),
                           By("kro", <<>>)>>, Budget(1, 0, 0))

\* An object is labelled as part of somebody's ApplySet, until it is deleted;
\* then the template makes way for a collection without items.
Labelled == [Case(g1 :> <<By("s1", <<T("a", o1)>>), By("s1", <<Each(T("a", o1), {}), T("b", o2)>>)>>,
                  Budget(0, 1, 0)) EXCEPT
               !.objs = [Theirs({o1}) EXCEPT ![o1].part = TRUE], !.open = {o1}]

MCCases == {Faulty, Peers, Drift, PatchFaults, Conditions, Collection, Nested,
            Crds, Recompiled, Identities, Labelled}

\* One template; somebody deletes its object, and a call fails.
Replaced == {[Case(g1 :> <<By("s1", <<T("a", o1)>>)>>, Budget(1, 1, 0)) EXCEPT
                !.open = {o1}]}

\* A subgraph that captures a node whose condition reads a status.
Captured == {[Case(g1 :> <<By("s1", <<T("z", o1), If(T("a", o2), "z"), Sub("s", {"a"}),
                                      In(T("s/x", o3), "s")>>)>>, Budget(0, 1, 2)) EXCEPT
                !.open = {o1}, !.lively = {o1}, !.kill = {}]}

=============================================================================
