----------------------------- MODULE SqlPlanner -----------------------------
(***************************************************************************)
(* The planner (sql/planner/planner.rs): it builds a plan from a syntax    *)
(* tree and resolves names to column indexes with scopes.  Why a statement *)
(* cannot be planned is left out.                                          *)
(***************************************************************************)
EXTENDS SqlPlan

CONSTANT Catalog      \* table name |-> table

-----------------------------------------------------------------------------
(* Scopes: the visible columns by label, the visible tables, the columns   *)
(* of aggregate and GROUP BY expressions (pairs of an expression and an    *)
(* index), and the hidden columns.                                         *)

NewScope == [columns |-> <<>>, tables |-> {}, aggregates |-> {}, hidden |-> {}]
Spawn(scope) == [NewScope EXCEPT !.tables = scope.tables]

TableScope(table, alias) ==
    LET name == IF alias # <<>> THEN alias[1] ELSE table.name
    IN [NewScope EXCEPT !.tables = {name},
            !.columns = [i \in DOMAIN table.columns |-> Qualified(name, table.columns[i].name)]]

(* The index of the column that a name stands for: <<>> if it is unknown,  *)
(* or unqualified and ambiguous.                                           *)
LookupColumn(scope, table, name) ==
    LET named == {i \in DOMAIN scope.columns :
                    scope.columns[i] # NoLabel /\ Last(scope.columns[i]) = name}
        in == {i \in named : table # <<>> /\ scope.columns[i] = Qualified(table[1], name)}
    IN CASE table # <<>> /\ in # {} -> <<Max(in) - 1>>
         [] table = <<>> /\ Cardinality(named) = 1 -> <<Max(named) - 1>>
         [] OTHER -> <<>>

LookupAggregate(scope, expr) ==
    LET found == {a \in scope.aggregates : a[1] = expr}
    IN IF found = {} THEN <<>> ELSE <<(CHOOSE a \in found : TRUE)[2]>>

(* entry(expr).or_insert(index) *)
OrInsert(aggregates, exprs, index) ==
    aggregates \union
        {<<e, index>> : e \in {x \in exprs : \A a \in aggregates : a[1] # x}}

AddPassthrough(scope, parent, index, hide) ==
    LET new == Len(scope.columns)
    IN [scope EXCEPT
          !.columns = Append(@, parent.columns[index + 1]),
          !.aggregates = OrInsert(@, {a[1] : a \in {b \in parent.aggregates : b[2] = index}}, new),
          !.hidden = IF hide \/ index \in parent.hidden THEN @ \union {new} ELSE @]

(* Appends a scope: its tables must be others. *)
CanMerge(scope, other) == scope.tables \intersect other.tables = {}
MergeScope(scope, other) ==
    LET offset == Len(scope.columns)
    IN [columns |-> scope.columns \o other.columns,
        tables |-> scope.tables \union other.tables,
        aggregates |-> scope.aggregates \union {<<a[1], a[2] + offset>> : a \in other.aggregates},
        hidden |-> scope.hidden \union {i + offset : i \in other.hidden}]

(* The label that a simple column reference passes on. *)
LabelOf(scope, expr) ==
    LET index == IF expr[1] = "Column" THEN LookupColumn(scope, expr[2], expr[3]) ELSE <<>>
    IN IF index = <<>> THEN NoLabel ELSE scope.columns[index[1] + 1]

ProjectScope(scope, select) ==
    LET First(i) == \A j \in 1..(i - 1) : select[j][1] # select[i][1]
    IN [Spawn(scope) EXCEPT
          !.columns = [i \in DOMAIN select |->
                        IF select[i][2] # <<>> THEN Unqualified(select[i][2][1])
                        ELSE LabelOf(scope, select[i][1])],
          !.aggregates = IF scope.aggregates = {} THEN {}
                         ELSE {<<select[i][1], i - 1>> : i \in {j \in DOMAIN select : First(j)}}]

RemapScope(scope, targets) ==
    FoldLeft(LAMBDA child, index : AddPassthrough(child, scope, index, FALSE),
             Spawn(scope), InvertRemap(targets))

(* The targets that drop the hidden columns (remove_hidden, remap_hidden). *)
RemapHidden(scope) ==
    [i \in DOMAIN scope.columns |->
        IF i - 1 \in scope.hidden THEN <<>>
        ELSE <<Cardinality((0..(i - 2)) \ scope.hidden)>>]

-----------------------------------------------------------------------------
(* Expressions. *)

AggregateNames == {"avg", "count", "max", "min", "sum"}
IsAggregateFunction(e) == e[1] = "Function" /\ e[2] \in AggregateNames

(* Whether ast::Expression::walk runs to the end.  It goes on with the     *)
(* arguments of a function only until one of them was walked to its end.   *)
(* With stop it ends at aggregate functions, as contains does.             *)
RECURSIVE Walks(_, _)
Walks(e, stop) ==
    /\ ~(stop /\ IsAggregateFunction(e))
    /\ IF e[1] = "Function" THEN \E arg \in ToSet(e[3]) : Walks(arg, stop)
       ELSE \A s \in ToSet(Operands(e)) : Walks(s, stop)

RECURSIVE Walked(_)
Walked(e) ==
    LET subs == IF e[1] = "Function" THEN e[3] ELSE Operands(e)
        Reached(i) == \A j \in 1..(i - 1) : Walks(subs[j], FALSE) = (e[1] # "Function")
    IN <<e>> \o FlattenSeq([i \in DOMAIN subs |-> IF Reached(i) THEN Walked(subs[i]) ELSE <<>>])

(* The outermost aggregate functions of the expressions (collect). *)
RECURSIVE AggregatesIn(_)
AggregatesIn(exprs) ==
    IF exprs = <<>> THEN <<>>
    ELSE LET e == Head(exprs)
         IN (IF IsAggregateFunction(e) THEN <<e>>
             ELSE AggregatesIn(IF e[1] = "Function" THEN e[3] ELSE Operands(e)))
            \o AggregatesIn(Tail(exprs))

(* The comparisons that the planned expressions do not have. *)
Lower(e, subs) ==
    CASE e[1] = "GreaterThanOrEqual" ->
            <<"Or", <<"GreaterThan", subs[1], subs[2]>>, <<"Equal", subs[1], subs[2]>>>>
      [] e[1] = "LessThanOrEqual" ->
            <<"Or", <<"LessThan", subs[1], subs[2]>>, <<"Equal", subs[1], subs[2]>>>>
      [] e[1] = "NotEqual" -> <<"Not", <<"Equal", subs[1], subs[2]>>>>
      [] OTHER -> WithOperands(e, subs)

RECURSIVE BuildExpression(_, _), BuildAll(_, _)
BuildExpression(e, scope) ==
    LET aggregate == LookupAggregate(scope, e)
        sqrt == e[1] = "Function" /\ e[2] = "sqrt" /\ Len(e[3]) = 1
        subs == IF sqrt THEN e[3] ELSE Operands(e)
        built == BuildAll(subs, scope)
        column == LookupColumn(scope, e[2], e[3])
    IN CASE aggregate # <<>> -> ColumnRef(aggregate[1])
         [] aggregate = <<>> /\ e[1] = "Literal" -> Constant(e[2])
         [] aggregate = <<>> /\ e[1] = "Column" -> IF column = <<>> THEN Error ELSE ColumnRef(column[1])
         [] aggregate = <<>> /\ (e[1] = "All" \/ (e[1] = "Function" /\ ~sqrt)) -> Error
         [] OTHER -> IF Error \in ToSet(built) THEN Error
                     ELSE IF sqrt THEN <<"SquareRoot", built[1]>> ELSE Lower(e, built)

BuildAll(exprs, scope) ==
    IF exprs = <<>> THEN <<>>
    ELSE <<BuildExpression(Head(exprs), scope)>> \o BuildAll(Tail(exprs), scope)

BuildConstantValue(e) ==
    LET built == BuildExpression(e, NewScope) IN IF built = Error THEN Error ELSE Evaluate(built, <<>>)

BuildAggregateFunction(e, scope) ==
    LET arg == IF e[3] = <<All>> /\ e[2] = "count" THEN Constant(Boolean(TRUE))
               ELSE BuildExpression(e[3][1], scope)
    IN IF Len(e[3]) # 1 \/ ~Walks(e[3][1], TRUE) \/ arg = Error THEN Error ELSE <<e[2], arg>>

-----------------------------------------------------------------------------
(* FROM.  Building a clause gives its node and scope, or fails. *)

Built(node, scope) == [ok |-> TRUE, node |-> node, scope |-> scope]
NotBuilt == [ok |-> FALSE, node |-> Nothing(<<>>), scope |-> NewScope]

BuildOption(expr, scope) == BuildAll(expr, scope)

Merged(parent, node, scope) ==
    IF CanMerge(parent, scope) THEN Built(node, MergeScope(parent, scope)) ELSE NotBuilt

\* Mutant: the columns of a right join are swapped by the size of the wrong side.
SwapTargetsWrong(left, right) ==
    [i \in 1..(left + right) |-> <<(i - 1 + left) % (left + right)>>]
SwapTargets(left, right) ==
    [i \in 1..(left + right) |-> <<(i - 1 + right) % (left + right)>>]

(* A right join is built as a left join of the swapped items, and its       *)
(* columns are then swapped back.                                          *)
RECURSIVE BuildFrom(_, _)
BuildFrom(from, parent) ==
    IF from[1] = "Table"
    THEN IF from[2] \notin DOMAIN Catalog THEN NotBuilt
         ELSE Merged(parent, Scan(Catalog[from[2]], from[3], <<>>),
                     TableScope(Catalog[from[2]], from[3]))
    ELSE LET swap == from[4] = "Right"
             left == BuildFrom(IF swap THEN from[3] ELSE from[2], NewScope)
             right == BuildFrom(IF swap THEN from[2] ELSE from[3], left.scope)
             predicate == BuildOption(from[5], right.scope)
             join == NestedLoopJoin(left.node, right.node, predicate, from[4] \in {"Left", "Right"})
             targets == SwapTargets(Columns(left.node), Columns(right.node))
         IN IF ~left.ok \/ ~right.ok \/ predicate = <<Error>> THEN NotBuilt
            ELSE IF swap THEN Merged(parent, Remap(join, targets), RemapScope(right.scope, targets))
            ELSE Merged(parent, join, right.scope)

CrossJoin(done, from) ==
    LET item == BuildFrom(from, done.scope)
    IN IF done.ok /\ item.ok
       THEN Built(NestedLoopJoin(done.node, item.node, <<>>, FALSE), item.scope) ELSE NotBuilt

(* A SELECT without FROM has one empty row. *)
BuildFromClause(from) ==
    IF from = <<>> THEN Built(Values(<<<<>>>>), NewScope)
    ELSE FoldLeft(CrossJoin, BuildFrom(from[1], NewScope), Tail(from))

-----------------------------------------------------------------------------
(* SELECT. *)

AllItem == <<All, <<>>>>

(* A * among other items, or with GROUP BY, stands for all columns. *)
ExpandAll(select, group_by, node) ==
    LET columns == [i \in 1..Columns(node) |->
                     LET label == ColumnLabel(node, i - 1) IN <<Column(<<label[2]>>, label[3]), <<>>>>]
    IN IF AllItem \in ToSet(select) /\ (Len(select) > 1 \/ group_by # <<>>)
       THEN FlattenSeq([i \in DOMAIN select |->
                          IF select[i][1] = All THEN columns ELSE <<select[i]>>])
       ELSE select

AddFilter(built, predicate) ==
    LET expr == BuildOption(predicate, built.scope)
    IN CASE predicate = <<>> -> built
         [] predicate # <<>> /\ (~built.ok \/ expr = <<Error>>) -> NotBuilt
         [] OTHER -> Built(Filter(built.node, expr[1]), built.scope)

FirstOnly(seq) == FoldLeft(LAMBDA done, e : IF e \in ToSet(done) THEN done ELSE Append(done, e), <<>>, seq)

(* Aggregates of duplicate expressions are built once (build_aggregate). *)
BuildAggregate(built, group_by, functions) ==
    LET scope == built.scope
        groups == FirstOnly(group_by)
        exprs == FirstOnly(group_by \o functions)
        child == [Spawn(scope) EXCEPT
                    !.columns = [i \in DOMAIN exprs |-> LabelOf(scope, exprs[i])],
                    !.aggregates = {<<exprs[i], i - 1>> : i \in DOMAIN exprs}]
        by == BuildAll(groups, scope)
        aggregates == [i \in 1..(Len(exprs) - Len(groups)) |->
                         BuildAggregateFunction(exprs[Len(groups) + i], scope)]
    IN CASE exprs = <<>> -> built
         [] exprs # <<>> /\ (~built.ok \/ Error \in ToSet(by) \union ToSet(aggregates)) -> NotBuilt
         [] OTHER -> Built(Aggregate(built.node, by, aggregates), child)

CollectAggregates(select, having, order_by) ==
    AggregatesIn(Firsts(select) \o having \o Firsts(order_by))

(* The column of the unprojected scope, if any, that HAVING or ORDER BY    *)
(* needs passed through the projection for the expression e.               *)
HiddenColumn(scope, child, e) ==
    IF LookupAggregate(scope, e) # <<>> /\ LookupAggregate(child, e) = <<>>
    THEN LookupAggregate(scope, e)
    ELSE IF e[1] = "Column" /\ LookupColumn(child, e[2], e[3]) = <<>>
    THEN LookupColumn(scope, e[2], e[3]) ELSE <<>>

(* build_select_hidden *)
AddHidden(scope, projection, e) ==
    LET index == HiddenColumn(scope, projection.scope, e)
    IN IF index = <<>> THEN projection
       ELSE [scope |-> AddPassthrough(projection.scope, scope, index[1], TRUE),
             hidden |-> Append(projection.hidden, ColumnRef(index[1]))]

BuildProjection(built, select, having, order_by) ==
    LET scope == built.scope
        exprs == BuildAll(Firsts(select), scope)
        later == having \o Firsts(order_by)
        walked == FlattenSeq([i \in DOMAIN later |-> Walked(later[i])])
        projection == FoldLeft(LAMBDA p, e : AddHidden(scope, p, e),
                               [scope |-> ProjectScope(scope, select), hidden |-> <<>>], walked)
        aliases == [i \in 1..(Len(select) + Len(projection.hidden)) |->
                      IF i <= Len(select) /\ select[i][2] # <<>> THEN Unqualified(select[i][2][1])
                      ELSE NoLabel]
    IN CASE select = <<AllItem>> -> built
         [] select # <<AllItem>> /\ (~built.ok \/ Error \in ToSet(exprs)) -> NotBuilt
         [] OTHER -> Built(Projection(built.node, exprs \o projection.hidden, aliases), projection.scope)

BuildOrder(built, order_by) ==
    LET key == BuildAll(Firsts(order_by), built.scope)
    IN CASE order_by = <<>> -> built
         [] order_by # <<>> /\ (~built.ok \/ Error \in ToSet(key)) -> NotBuilt
         [] OTHER -> Built(Order(built.node, [i \in DOMAIN key |-> <<key[i], order_by[i][2]>>]), built.scope)

(* OFFSET and LIMIT take a constant that is a natural number. *)
BuildCount(built, expr, Node(_, _)) ==
    LET n == BuildConstantValue(expr[1])
    IN CASE expr = <<>> -> built
         [] expr # <<>> /\ (~built.ok \/ ~IsInteger(n) \/ (IsInteger(n) /\ n[2] < 0)) -> NotBuilt
         [] OTHER -> Built(Node(built.node, n[2]), built.scope)

BuildSelect(s) ==
    LET from == BuildFromClause(s.from)
        select == ExpandAll(s.select, s.group_by, from.node)
        where == AddFilter(from, s.where)
        functions == CollectAggregates(select, s.having, s.order_by)
        aggregated == BuildAggregate(where, s.group_by, functions)
        projected == BuildProjection(aggregated, select, s.having, s.order_by)
        having == AddFilter(projected, s.having)
        ordered == BuildOrder(having, s.order_by)
        limited == BuildCount(BuildCount(ordered, s.offset, Offset), s.limit, Limit)
    IN IF \/ ~limited.ok
          \/ AllItem \in ToSet(s.select) /\ Columns(from.node) = 0
          \/ s.having # <<>> /\ projected.scope.aggregates = {}
       THEN NotBuilt
       ELSE IF limited.scope.hidden = {} THEN limited
       ELSE Built(Remap(limited.node, RemapHidden(limited.scope)), limited.scope)

-----------------------------------------------------------------------------
(* Statements. *)

NoPlan == [type |-> "none"]

BuildDelete(s) ==
    LET table == Catalog[s.table]
        filter == BuildOption(s.where, TableScope(table, <<>>))
    IN IF s.table \notin DOMAIN Catalog \/ filter = <<Error>> THEN NoPlan
       ELSE [type |-> "Delete", table |-> table, source |-> Scan(table, <<>>, filter)]

ColumnNamed(table, name) == {i \in DOMAIN table.columns : table.columns[i].name = name}

(* The column map says which value goes into which column. *)
BuildInsert(s) ==
    LET table == Catalog[s.table]
        names == s.columns[1]
        known == \A i \in DOMAIN names : ColumnNamed(table, names[i]) # {}
        rows == [i \in DOMAIN s.values |-> BuildAll(s.values[i], NewScope)]
    IN IF \/ s.table \notin DOMAIN Catalog
          \/ s.columns # <<>> /\ ~(known /\ IsInjective(names))
          \/ \E row \in ToSet(rows) : Error \in ToSet(row)
       THEN NoPlan
       ELSE [type |-> "Insert", table |-> table, source |-> Values(rows),
             column_map |-> IF s.columns = <<>> THEN <<>>
                            ELSE <<{<<Min(ColumnNamed(table, names[i])), i>> : i \in DOMAIN names}>>]

BuildUpdate(s) ==
    LET table == Catalog[s.table]
        scope == TableScope(table, <<>>)
        filter == BuildOption(s.where, scope)
        Index(c) == LookupColumn(scope, <<>>, c)
        Default(c) == table.columns[Index(c)[1] + 1].default
        Assigned(c) == CASE Index(c) = <<>> -> Error
                         [] Index(c) # <<>> /\ s.set[c] # <<>> -> BuildExpression(s.set[c][1], scope)
                         [] OTHER -> IF Default(c) = <<>> THEN Error ELSE Constant(Default(c)[1])
    IN IF s.table \notin DOMAIN Catalog \/ filter = <<Error>> \/ \E c \in DOMAIN s.set : Assigned(c) = Error
       THEN NoPlan
       ELSE [type |-> "Update", table |-> table, source |-> Scan(table, <<>>, filter),
             expressions |-> {<<Index(c)[1] + 1, Assigned(c)>> : c \in DOMAIN s.set}]

BuildCreateTable(s) ==
    LET keys == {i \in DOMAIN s.columns : s.columns[i].primary_key}
        Nullable(c) == IF c.nullable # <<>> THEN c.nullable[1] ELSE ~c.primary_key
        Default(c) == IF c.default # <<>> THEN <<BuildConstantValue(c.default[1])>>
                      ELSE IF Nullable(c) THEN <<Null>> ELSE <<>>
        Planned(c) == [name |-> c.name, datatype |-> c.datatype, nullable |-> Nullable(c),
                       default |-> Default(c), unique |-> c.unique \/ c.primary_key,
                       index |-> (c.index \/ c.unique \/ c.references # <<>>) /\ ~c.primary_key,
                       references |-> c.references]
    IN IF Cardinality(keys) # 1 \/ \E c \in ToSet(s.columns) : \E v \in ToSet(Default(c)) : Failed(v)
       THEN NoPlan
       ELSE [type |-> "CreateTable",
             schema |-> [name |-> s.name, primary_key |-> Max(keys) - 1,
                         columns |-> [i \in DOMAIN s.columns |-> Planned(s.columns[i])]]]

(* Plan::build.  The session handles the other statements itself. *)
BuildPlan(s) ==
    CASE s.type = "Select" ->
            IF BuildSelect(s).ok THEN [type |-> "Select", source |-> BuildSelect(s).node] ELSE NoPlan
      [] s.type = "Delete" -> BuildDelete(s)
      [] s.type = "Insert" -> BuildInsert(s)
      [] s.type = "Update" -> BuildUpdate(s)
      [] s.type = "CreateTable" -> BuildCreateTable(s)
      [] s.type = "DropTable" -> s
      [] OTHER -> NoPlan
=============================================================================
