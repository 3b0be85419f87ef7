------------------------------- MODULE SqlPlan -------------------------------
(***************************************************************************)
(* Plan nodes (sql/planner/plan.rs): a record with its type, its sources   *)
(* (srcs) and its own fields.  A table is a record of its name, the index  *)
(* of its primary key and its columns; column indexes count from 0.        *)
(***************************************************************************)
EXTENDS SqlExpressions

Aggregate(source, group_by, aggregates) ==
    [type |-> "Aggregate", srcs |-> <<source>>, group_by |-> group_by, aggregates |-> aggregates]
Filter(source, predicate) == [type |-> "Filter", srcs |-> <<source>>, predicate |-> predicate]
HashJoin(left, left_column, right, right_column, outer) ==
    [type |-> "HashJoin", srcs |-> <<left, right>>, left_column |-> left_column,
     right_column |-> right_column, outer |-> outer]
IndexLookup(table, column, values, alias) ==
    [type |-> "IndexLookup", srcs |-> <<>>, table |-> table, column |-> column,
     values |-> values, alias |-> alias]
KeyLookup(table, keys, alias) ==
    [type |-> "KeyLookup", srcs |-> <<>>, table |-> table, keys |-> keys, alias |-> alias]
Limit(source, n) == [type |-> "Limit", srcs |-> <<source>>, count |-> n]
NestedLoopJoin(left, right, predicate, outer) ==
    [type |-> "NestedLoopJoin", srcs |-> <<left, right>>, predicate |-> predicate, outer |-> outer]
Nothing(columns) == [type |-> "Nothing", srcs |-> <<>>, columns |-> columns]
Offset(source, n) == [type |-> "Offset", srcs |-> <<source>>, count |-> n]
Order(source, key) == [type |-> "Order", srcs |-> <<source>>, key |-> key]
Projection(source, expressions, aliases) ==
    [type |-> "Projection", srcs |-> <<source>>, expressions |-> expressions, aliases |-> aliases]
Remap(source, targets) == [type |-> "Remap", srcs |-> <<source>>, targets |-> targets]
Scan(table, alias, filter) ==
    [type |-> "Scan", srcs |-> <<>>, table |-> table, alias |-> alias, filter |-> filter]
Values(rows) == [type |-> "Values", srcs |-> <<>>, rows |-> rows]

IsNode(node, types) == node.type \in types
TableNodes == {"IndexLookup", "KeyLookup", "Scan"}
Joins == {"HashJoin", "NestedLoopJoin"}

Firsts(pairs) == [i \in DOMAIN pairs |-> pairs[i][1]]

(* How many columns the targets of a Remap make. *)
TargetCount(targets) == Cardinality(UNION {ToSet(t) : t \in ToSet(targets)})

(* The source column of each target (every one has one: see BuildFrom and  *)
(* RemapHidden in SqlPlanner).                                             *)
InvertRemap(targets) ==
    [t \in 1..TargetCount(targets) |-> (CHOOSE i \in DOMAIN targets : targets[i] = <<t - 1>>) - 1]

(* Node::columns *)
RECURSIVE Columns(_)
Columns(node) ==
    CASE IsNode(node, TableNodes) -> Len(node.table.columns)
      [] node.type = "Aggregate" -> Len(node.group_by) + Len(node.aggregates)
      [] node.type = "Projection" -> Len(node.expressions)
      [] node.type = "Remap" -> TargetCount(node.targets)
      [] IsNode(node, Joins) -> Columns(node.srcs[1]) + Columns(node.srcs[2])
      [] node.type = "Nothing" -> Len(node.columns)
      [] node.type = "Values" -> IF node.rows = <<>> THEN 0 ELSE Len(node.rows[1])
      [] OTHER -> Columns(node.srcs[1])

NoLabel == <<"None">>
Unqualified(name) == <<"Unqualified", name>>
Qualified(table, name) == <<"Qualified", table, name>>

(* Node::column_label *)
RECURSIVE ColumnLabel(_, _)
ColumnLabel(node, index) ==
    LET Routed(expr) ==
            IF expr[1] = "Column" THEN ColumnLabel(node.srcs[1], expr[2]) ELSE NoLabel
    IN CASE IsNode(node, TableNodes) ->
              Qualified(IF node.alias # <<>> THEN node.alias[1] ELSE node.table.name,
                        node.table.columns[index + 1].name)
         [] node.type = "Aggregate" ->
              IF index < Len(node.group_by) THEN Routed(node.group_by[index + 1]) ELSE NoLabel
         [] node.type = "Projection" ->
              IF node.aliases[index + 1] # NoLabel THEN node.aliases[index + 1]
              ELSE Routed(node.expressions[index + 1])
         [] node.type = "Remap" ->
              ColumnLabel(node.srcs[1], InvertRemap(node.targets)[index + 1])
         [] IsNode(node, Joins) ->
              LET left == Columns(node.srcs[1])
              IN IF index < left THEN ColumnLabel(node.srcs[1], index)
                 ELSE ColumnLabel(node.srcs[2], index - left)
         [] node.type = "Nothing" -> node.columns[index + 1]
         [] node.type = "Values" -> NoLabel
         [] OTHER -> ColumnLabel(node.srcs[1], index)
=============================================================================
