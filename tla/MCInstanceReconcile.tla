------------------------ MODULE MCInstanceReconcile -------------------------
(* The instances of InstanceReconcile that TLC checks.                     *)
EXTENDS InstanceReconcile, TLC

CONSTANTS
    db, app,            \* nodes; app depends on db
    o1, o2, o3,         \* objects
    k1, k2,             \* group-kinds
    home, away          \* namespaces

\* o1 and o2 differ in kind, o3 lies in another namespace than the instance.
MCKind == (o1 :> k1) @@ (o2 :> k2) @@ (o3 :> k2)
MCNamespace == (o1 :> home) @@ (o2 :> home) @@ (o3 :> away)

Full == [n \in Nodes |-> "full"]
Late == [n \in Nodes |-> IF n = app THEN "kind" ELSE "full"]
Unknown == [n \in Nodes |-> IF n = app THEN "none" ELSE "full"]

\* app follows db and waits for its data.
Both ==
    [walk |-> <<db, app>>, deps |-> (db :> {}) @@ (app :> {db}),
     target |-> (db :> o1) @@ (app :> o2), included |-> {db, app},
     known |-> Late]

\* app moves to the other namespace, which is known from the start.
Moved == [Both EXCEPT !.target = (db :> o1) @@ (app :> o3), !.known = Full]

\* db is switched off, and app with it.
Off == [Both EXCEPT !.included = {app}]

\* app alone, which no longer depends on db.
Alone == [Both EXCEPT !.walk = <<app>>, !.deps = (db :> {}) @@ (app :> {}),
                      !.known = Full]

\* The nodes exchange their objects and the direction of the dependency.
Swapped ==
    [walk |-> <<app, db>>, deps |-> (db :> {app}) @@ (app :> {}),
     target |-> (db :> o2) @@ (app :> o1), included |-> {db, app},
     known |-> Full]

\* includeWhen of app waits for data of db.
Conditional == [Both EXCEPT !.known = Unknown]

FiveGraphs == {Both, Moved, Off, Alone, Swapped}
TwoGraphs == {Both, Moved}
OneConditional == {Conditional}

=============================================================================
