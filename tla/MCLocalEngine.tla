--------------------------- MODULE MCLocalEngine ----------------------------
(* Instances of LocalEngine for TLC.  A behaviour works on some of the     *)
(* tables, in one or two sessions at a time.                               *)
EXTENDS LocalEngine, TLC

CONSTANT Instances
VARIABLE instance   \* the bounds of this behaviour

Column(unique, references) == [index |-> TRUE, unique |-> unique, references |-> references]

\* A table with a unique column; one whose unique column references the table
\* itself; and a table with a child that references it.
Database ==
    "unique" :> Column(TRUE, Null) @@ "self" :> Column(TRUE, "self")
    @@ "parent" :> [index |-> FALSE, unique |-> FALSE, references |-> Null]
    @@ "child" :> Column(FALSE, "parent")

Bounds(tables, sessions, txns, writes) ==
    [tables |-> tables, sessions |-> sessions, txns |-> txns, writes |-> writes]
Constraints == {Bounds({"unique"}, 2, 3, 1), Bounds({"unique"}, 2, 2, 2),
                Bounds({"self"}, 1, 3, 3),
                Bounds({"parent", "child"}, 1, 2, 3)}

MCInit == Init /\ instance \in Instances
MCNext ==
    /\ \E s \in Sessions :
          Begin(s) \/ Commit(s) \/ Rollback(s) \/ \E t \in instance.tables : Statement(s, t)
    /\ instance' = instance
    /\ begun' <= instance.txns
    /\ Cardinality({s \in Sessions : Open(s)'}) <= instance.sessions
    /\ \A s \in Sessions : Open(s)' => txn'[s].writes <= instance.writes
MCSpec == MCInit /\ [][MCNext]_<<vars, instance>>

Symmetry == Permutations(Sessions)
=============================================================================
