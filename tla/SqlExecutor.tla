----------------------------- MODULE SqlExecutor -----------------------------
(***************************************************************************)
(* The executor (sql/execution/executor.rs, join.rs, aggregator.rs) over   *)
(* the rows of the tables, and the reads it makes of the engine            *)
(* (sql/engine/local.rs).  A row iterator is the sequence of what it       *)
(* yields: rows, and errors in between, each a row of the failed value.    *)
(* An execution that fails before it returns an iterator has ok FALSE.     *)
(***************************************************************************)
EXTENDS SqlPlan

Stream(items) == [ok |-> TRUE, items |-> items]
Fails == [ok |-> FALSE, items |-> <<>>]

IsError(row) == \E v \in ToSet(row) : Failed(v)

(* What every iterator does with an error: it passes it on. *)
EachItem(items, Op(_)) ==
    FlattenSeq([i \in DOMAIN items |-> IF IsError(items[i]) THEN <<items[i]>> ELSE Op(items[i])])

EvaluateAll(exprs, row) == [i \in DOMAIN exprs |-> Evaluate(exprs[i], row)]

(* The row if the predicate is TRUE, nothing if it is FALSE or NULL. *)
Keep(predicate, row) ==
    LET v == Evaluate(predicate, row)
    IN CASE v = Boolean(TRUE) -> <<row>>
         [] v \in {Boolean(FALSE), Null} -> <<>>
         [] OTHER -> <<<<IF Failed(v) THEN v ELSE Error>>>>

-----------------------------------------------------------------------------
(* Reads of the engine: rows are stored in the order of their keys.  A key *)
(* or index entry is found by a value of the same type.                    *)

KeyOf(table, row) == row[table.primary_key + 1]

ScanRows(db, table, filter) ==
    LET rows == db[table.name]
    IN IF filter = <<>> THEN rows ELSE EachItem(rows, LAMBDA row : Keep(filter[1], row))

GetRows(db, table, ids) ==
    FlattenSeq([i \in DOMAIN ids |-> SelectSeq(db[table.name], LAMBDA row : KeyOf(table, row) = ids[i])])

(* The ids under any of the values, each of them once and in order. *)
LookupIndex(db, table, column, values) ==
    LET found == SelectSeq(db[table.name], LAMBDA row : row[column + 1] \in ToSet(values))
    IN [i \in DOMAIN found |-> KeyOf(table, found[i])]

-----------------------------------------------------------------------------
(* Joins. *)

Nulls(n) == [i \in 1..n |-> Null]

(* NestedLoopJoiner: the right rows are gone through for each left row. *)
NestedLoopJoiner(left, right, right_columns, predicate, outer) ==
    LET Joined(l, r) == IF predicate = <<>> THEN <<l \o r>> ELSE Keep(predicate[1], l \o r)
        Matches(l) == EachItem(right, LAMBDA r : Joined(l, r))
    IN EachItem(left, LAMBDA l :
          IF outer /\ \A row \in ToSet(Matches(l)) : IsError(row)
          THEN Append(Matches(l), l \o Nulls(right_columns)) ELSE Matches(l))

(* HashJoiner: undefined values match nothing. *)
HashJoiner(left, left_column, right, right_column, right_columns, outer) ==
    LET Matches(l) == SelectSeq(right, LAMBDA r : /\ ~IsUndefined(r[right_column + 1])
                                                  /\ r[right_column + 1] = l[left_column + 1])
        Joined(l) == [i \in DOMAIN Matches(l) |-> l \o Matches(l)[i]]
    IN EachItem(left, LAMBDA l :
          IF Matches(l) = <<>> /\ outer THEN <<l \o Nulls(right_columns)>> ELSE Joined(l))

-----------------------------------------------------------------------------
(* Sorting: the row at each place is the one that as many others precede.  *)

SortBy(rows, Before(_, _)) ==
    LET Place(i) == 1 + Cardinality({j \in DOMAIN rows :
                            Before(j, i) \/ (~Before(i, j) /\ j < i)})
        place == [i \in DOMAIN rows |-> Place(i)]
    IN [p \in DOMAIN rows |-> rows[CHOOSE i \in DOMAIN rows : place[i] = p]]

(* Keys compare lexicographically, each in its own direction. *)
KeyBefore(a, b, key) ==
    LET Ahead(i, x, y) == IF key[i][2] = "Descending" THEN Less(y[i], x[i]) ELSE Less(x[i], y[i])
    IN \E i \in DOMAIN key :
          Ahead(i, a, b) /\ \A j \in 1..(i - 1) : ~Ahead(j, a, b) /\ ~Ahead(j, b, a)

OrderRows(rows, key) ==
    LET keys == [i \in DOMAIN rows |-> EvaluateAll(Firsts(key), rows[i])]
    IN IF \E i \in DOMAIN rows : IsError(rows[i]) \/ IsError(keys[i]) THEN Fails
       ELSE Stream(SortBy(rows, LAMBDA i, j : KeyBefore(keys[i], keys[j], key)))

-----------------------------------------------------------------------------
(* Aggregation.  An accumulator is the count and the value so far. *)

Accumulator(kind) == <<0, IF kind = "avg" THEN Integer(0) ELSE Null>>

Accumulate(kind, acc, v) ==
    LET first == acc[1] = 0
    IN IF v = Null THEN acc
       ELSE <<acc[1] + 1,
              CASE kind = "avg" -> CheckedAdd(acc[2], v)
                [] kind = "count" -> Null
                [] kind = "max" -> IF first \/ Less(acc[2], v) THEN v ELSE acc[2]
                [] kind = "min" -> IF first \/ Less(v, acc[2]) THEN v ELSE acc[2]
                [] kind = "sum" -> CheckedAdd(IF first THEN Integer(0) ELSE acc[2], v)>>

AccumulatorValue(kind, acc) ==
    CASE kind = "count" -> Integer(acc[1])
      [] kind = "avg" -> IF acc[1] = 0 THEN Null ELSE CheckedDiv(acc[2], Integer(acc[1]))
      [] OTHER -> acc[2]

Accumulated(kind, values) ==
    FoldLeft(LAMBDA acc, v : Accumulate(kind, acc, v), Accumulator(kind), values)

(* Aggregator: one bucket for each list of GROUP BY values, in their       *)
(* order; without GROUP BY there is a bucket even if there are no rows.    *)
Aggregator(rows, group_by, aggregates) ==
    LET keys == [i \in DOMAIN rows |-> EvaluateAll(group_by, rows[i])]
        args == [i \in DOMAIN rows |-> EvaluateAll([a \in DOMAIN aggregates |-> aggregates[a][2]], rows[i])]
        Same(i, j) == ~LessRow(keys[i], keys[j]) /\ ~LessRow(keys[j], keys[i])
        all == [i \in DOMAIN rows |-> i]
        firsts == SelectSeq(all, LAMBDA i : \A j \in 1..(i - 1) : ~Same(i, j))
        buckets == SortBy(firsts, LAMBDA i, j : LessRow(keys[firsts[i]], keys[firsts[j]]))
        Members(b) == SelectSeq(all, LAMBDA i : Same(i, b))
        Acc(b, a) == LET of == Members(b)
                     IN Accumulated(aggregates[a][1], [m \in DOMAIN of |-> args[of[m]][a]])
        Row(b) == keys[b] \o [a \in DOMAIN aggregates |-> AccumulatorValue(aggregates[a][1], Acc(b, a))]
        empty == [a \in DOMAIN aggregates |->
                    AccumulatorValue(aggregates[a][1], Accumulator(aggregates[a][1]))]
    IN IF \/ \E i \in DOMAIN rows : IsError(rows[i]) \/ IsError(keys[i]) \/ IsError(args[i])
          \/ \E i \in DOMAIN buckets : \E a \in DOMAIN aggregates : Failed(Acc(buckets[i], a)[2])
       THEN Fails
       ELSE IF rows = <<>> /\ group_by = <<>> THEN Stream(<<empty>>)
       ELSE Stream([i \in DOMAIN buckets |-> Row(buckets[i])])

-----------------------------------------------------------------------------
(* Nodes. *)

RemapRow(targets, row) ==
    [t \in 1..TargetCount(targets) |-> row[InvertRemap(targets)[t] + 1]]

RECURSIVE ExecuteNode(_, _)
ExecuteNode(node, db) ==
    LET sources == [i \in DOMAIN node.srcs |-> ExecuteNode(node.srcs[i], db)]
        items == sources[1].items
        right == sources[2].items
        right_columns == Columns(node.srcs[2])
    IN CASE \E i \in DOMAIN sources : ~sources[i].ok -> Fails
         [] OTHER ->
         CASE node.type = "Aggregate" -> Aggregator(items, node.group_by, node.aggregates)
           [] node.type = "Filter" -> Stream(EachItem(items, LAMBDA row : Keep(node.predicate, row)))
           [] node.type = "HashJoin" ->
                IF \E i \in DOMAIN right : IsError(right[i]) THEN Fails
                ELSE Stream(HashJoiner(items, node.left_column, right, node.right_column,
                                     right_columns, node.outer))
           [] node.type = "IndexLookup" ->
                Stream(GetRows(db, node.table, LookupIndex(db, node.table, node.column, node.values)))
           [] node.type = "KeyLookup" -> Stream(GetRows(db, node.table, node.keys))
           [] node.type = "Limit" -> Stream(SubSeq(items, 1, Min({node.count, Len(items)})))
           [] node.type = "NestedLoopJoin" ->
                Stream(NestedLoopJoiner(items, right, right_columns, node.predicate, node.outer))
           [] node.type = "Nothing" -> Stream(<<>>)
           [] node.type = "Offset" -> Stream(SubSeq(items, node.count + 1, Len(items)))
           [] node.type = "Order" -> OrderRows(items, node.key)
           [] node.type = "Projection" ->
                Stream(EachItem(items, LAMBDA row : <<EvaluateAll(node.expressions, row)>>))
           [] node.type = "Remap" -> Stream(EachItem(items, LAMBDA row : <<RemapRow(node.targets, row)>>))
           [] node.type = "Scan" -> Stream(ScanRows(db, node.table, node.filter))
           [] node.type = "Values" ->
                Stream([i \in DOMAIN node.rows |-> EvaluateAll(node.rows[i], <<>>)])

-----------------------------------------------------------------------------
(* Statements: what they return or hand to the engine. *)

CompleteRow(plan, values) ==
    LET columns == plan.table.columns
        map == plan.column_map
        Given(c) == IF map = <<>> THEN {c} \intersect DOMAIN values
                    ELSE {m[2] : m \in {n \in map[1] : n[1] = c}}
        Value(c) == IF Given(c) # {} THEN values[Max(Given(c))]
                    ELSE IF columns[c].default # <<>> THEN columns[c].default[1] ELSE Error
    IN IF Len(values) > Len(columns) \/ (map # <<>> /\ Cardinality(map[1]) # Len(values)) THEN <<Error>>
       ELSE [c \in DOMAIN columns |-> Value(c)]

UpdateRow(plan, row) ==
    [c \in DOMAIN row |->
        LET set == {e \in plan.expressions : e[1] = c}
        IN IF set = {} THEN row[c] ELSE Evaluate((CHOOSE e \in set : TRUE)[2], row)]

(* Executor::execute: the rows returned, inserted or deleted, or the       *)
(* updated rows after their keys.                                          *)
Execute(plan, db) ==
    LET source == ExecuteNode(plan.source, db)
        items == source.items
        table == plan.table
        written == CASE plan.type = "Select" -> items
                     [] plan.type = "Delete" -> EachItem(items, LAMBDA row : <<<<KeyOf(table, row)>>>>)
                     [] plan.type = "Insert" -> EachItem(items, LAMBDA row : <<CompleteRow(plan, row)>>)
                     [] plan.type = "Update" ->
                          EachItem(items, LAMBDA row : <<<<KeyOf(table, row)>> \o UpdateRow(plan, row)>>)
    IN IF ~source.ok \/ \E i \in DOMAIN written : IsError(written[i]) THEN Fails ELSE Stream(written)
=============================================================================
