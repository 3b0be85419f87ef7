----------------------------- MODULE SqlQueries -----------------------------
(***************************************************************************)
(* Statements from their tokens to their results: the parser, the planner, *)
(* the optimizer and the executor put together, on small databases.        *)
(***************************************************************************)
EXTENDS SqlFrontEnd, SqlMeaning, SqlOptimizer

CONSTANT Databases      \* each a function from table names to rows in key order

(* The plan of a statement that the executor gets rows for. *)
IsPlanned(s) == s.ok /\ "source" \in DOMAIN BuildPlan(s.ast)

\* A lone * in an aggregate query is not expanded: it has the aggregates for
\* columns, for which SQL has no meaning.
IsLoneStar(s) == s.type = "Select" /\ s.select = <<AllItem>> /\ IsAggregateQuery(s)

ResultAsWritten(plan, statement, db) ==
    LET got == Execute(plan, db) IN got.ok => IsResultOf(got.items, statement, db)

PlannedAsWritten(s) ==
    LET plan == BuildPlan(s.ast)
    IN (IsPlanned(s) /\ ~IsLoneStar(s.ast)) =>
        \A db \in Databases : ResultAsWritten(plan, s.ast, db)

(* A plan computes what the statement says: where the unoptimized plan of  *)
(* a statement succeeds, it returns (or writes) the rows that the names in *)
(* the statement stand for, in an order that ORDER BY allows - whatever    *)
(* column indexes, hidden columns, remappings and aggregate columns the    *)
(* planner has put into the plan.                                          *)
ExecutesAsWritten == [][PlannedAsWritten(ParseControl(toks', 1))]_toks

RECURSIVE HasOuterJoin(_)
HasOuterJoin(node) ==
    \/ node.type = "NestedLoopJoin" /\ node.outer
    \/ \E i \in DOMAIN node.srcs : HasOuterJoin(node.srcs[i])

RECURSIVE RepeatsKeys(_)
RepeatsKeys(node) ==
    \/ node.type = "KeyLookup" /\ ~IsInjective(node.keys)
    \/ \E i \in DOMAIN node.srcs : RepeatsKeys(node.srcs[i])

UnchangedByOptimizer(s) ==
    LET plan == BuildPlan(s.ast)
        optimized == Optimize(plan)
    IN (/\ IsPlanned(s) /\ ~IsLoneStar(s.ast)
        /\ ~HasOuterJoin(plan.source) /\ CanOptimize(plan) /\ ~RepeatsKeys(optimized.source)) =>
        \A db \in Databases : Execute(plan, db).ok => ResultAsWritten(optimized, s.ast, db)

(* The optimizer changes no result: where a plan without outer joins       *)
(* succeeds both as it was planned and as Plan::optimize leaves it, the    *)
(* optimized plan too computes what the statement says, with its filters   *)
(* pushed down, its constants folded, and lookups and hash joins in the    *)
(* place of scans and nested loops.  A primary key that OR names twice is  *)
(* looked up twice, so it is left out.                                     *)
OptimizedAsWritten == [][UnchangedByOptimizer(ParseControl(toks', 1))]_toks

OuterJoinPreserved(s) ==
    LET plan == BuildPlan(s.ast)
    IN (IsPlanned(s) /\ HasOuterJoin(plan.source) /\ CanOptimize(plan)) =>
        \A db \in Databases : ResultAsWritten(Optimize(plan), s.ast, db)

(* What docs/sql.md says of an outer join: its rows are the joined ones,   *)
(* and one row, padded with NULL, for each row of the outer table that     *)
(* joins with none - also after Plan::optimize.                            *)
OuterJoinsAsWritten == [][OuterJoinPreserved(ParseControl(toks', 1))]_toks
=============================================================================
