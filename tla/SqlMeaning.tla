----------------------------- MODULE SqlMeaning -----------------------------
(***************************************************************************)
(* What a statement means, by the names in it: the reference that plans    *)
(* and their execution are checked against.  A joined row is a function    *)
(* from the names <<table, column>> to values.                             *)
(***************************************************************************)
EXTENDS SqlPlanner, SqlExecutor

TableName(from) == IF from[3] # <<>> THEN from[3][1] ELSE from[2]

RECURSIVE NamesOf(_)
NamesOf(from) ==
    IF from[1] = "Table"
    THEN [i \in DOMAIN Catalog[from[2]].columns |-> <<TableName(from), Catalog[from[2]].columns[i].name>>]
    ELSE NamesOf(from[2]) \o NamesOf(from[3])

NamedRow(names, row) == [n \in ToSet(names) |-> row[PositionIn(names, n)]]
NullRow(from) == [n \in ToSet(NamesOf(from)) |-> Null]

-----------------------------------------------------------------------------
(* Expressions.  The context is the named row; in an aggregate query, the  *)
(* rows of the group that it stands for; and, in HAVING and ORDER BY, the  *)
(* output columns and the GROUP BY expressions.                            *)

Context(row) == [row |-> row, group |-> <<>>, outputs |-> <<>>, group_by |-> {}]

(* The output columns that an unqualified name can stand for. *)
Outputs(ctx, name) ==
    {i \in DOMAIN ctx.outputs :
        LET item == ctx.outputs[i]
        IN IF item[2] # <<>> THEN item[2] = <<name>> ELSE item[1][1] = "Column" /\ item[1][3] = name}

AggregateMeaning(name, values) ==
    LET given == SelectSeq(values, LAMBDA v : v # Null)
        sum == FoldLeft(CheckedAdd, Integer(0), given)
        Extreme(Beyond(_, _)) == CHOOSE v \in ToSet(given) : \A w \in ToSet(given) : ~Beyond(w, v)
    IN CASE name = "count" -> Integer(Len(given))
         [] name # "count" /\ given = <<>> -> Null
         [] OTHER -> CASE name = "sum" -> sum
                       [] name = "avg" -> CheckedDiv(sum, Integer(Len(given)))
                       [] name = "max" -> Extreme(LAMBDA w, v : Less(v, w))
                       [] name = "min" -> Extreme(LAMBDA w, v : Less(w, v))

\* The comparison holds, or the values are equal.
Either(op, l, r) == EvaluateBinary("Or", EvaluateBinary(op, l, r), EvaluateBinary("Equal", l, r))

RECURSIVE Meaning(_, _)
Meaning(e, ctx) ==
    LET Sub(i) == Meaning(e[i], ctx)
        named == {n \in DOMAIN ctx.row : n[2] = e[3] /\ (e[2] = <<>> \/ e[2] = <<n[1]>>)}
        outputs == Outputs(ctx, e[3])
    IN CASE e[1] = "Literal" -> e[2]
         [] e[1] = "Column" ->
              IF e[2] = <<>> /\ e \notin ctx.group_by /\ outputs # {}
              THEN Meaning(ctx.outputs[Min(outputs)][1], [ctx EXCEPT !.outputs = <<>>])
              ELSE ctx.row[CHOOSE n \in named : TRUE]
         [] e[1] = "Function" ->
              IF e[2] = "sqrt" THEN EvaluateUnary("SquareRoot", Meaning(e[3][1], ctx))
              ELSE AggregateMeaning(e[2], [i \in DOMAIN ctx.group |->
                        IF e[3][1] = All THEN Boolean(TRUE) ELSE Meaning(e[3][1], Context(ctx.group[i]))])
         [] e[1] = "Is" -> EvaluateIs(Sub(2), e[3])
         [] e[1] = "NotEqual" -> EvaluateUnary("Not", EvaluateBinary("Equal", Sub(2), Sub(3)))
         [] e[1] = "GreaterThanOrEqual" -> Either("GreaterThan", Sub(2), Sub(3))
         [] e[1] = "LessThanOrEqual" -> Either("LessThan", Sub(2), Sub(3))
         [] e[1] \in UnaryOps -> EvaluateUnary(e[1], Sub(2))
         [] OTHER -> EvaluateBinary(e[1], Sub(2), Sub(3))

Holds(option, ctx) == option = <<>> \/ Meaning(option[1], ctx) = Boolean(TRUE)

-----------------------------------------------------------------------------
(* FROM: a cross product of joins. *)

Product(left, right) ==
    FlattenSeq([i \in DOMAIN left |-> [j \in DOMAIN right |-> left[i] @@ right[j]]])

RECURSIVE FromMeaning(_, _)
FromMeaning(from, db) ==
    IF from[1] = "Table"
    THEN LET rows == db[from[2]] IN [i \in DOMAIN rows |-> NamedRow(NamesOf(from), rows[i])]
    ELSE LET left == FromMeaning(from[2], db)
             right == FromMeaning(from[3], db)
             Joins2(l, r) == Holds(from[5], Context(l @@ r))
             matched == SelectSeq(Product(left, right), LAMBDA row : Holds(from[5], Context(row)))
             lone_left == SelectSeq(left, LAMBDA l : \A r \in ToSet(right) : ~Joins2(l, r))
             lone_right == SelectSeq(right, LAMBDA r : \A l \in ToSet(left) : ~Joins2(l, r))
         IN CASE from[4] = "Left" -> matched \o Product(lone_left, <<NullRow(from[3])>>)
              [] from[4] = "Right" -> matched \o Product(<<NullRow(from[2])>>, lone_right)
              [] OTHER -> matched

FromClauseMeaning(from, db) ==
    FoldLeft(Product, <<<<>>>>, [i \in DOMAIN from |-> FromMeaning(from[i], db)])

-----------------------------------------------------------------------------
(* SELECT: the rows with their sort keys, in any order. *)

IsAggregateQuery(s) == s.group_by # <<>> \/ CollectAggregates(s.select, s.having, s.order_by) # <<>>

Groups(s, rows) ==
    LET Key(row) == [i \in DOMAIN s.group_by |-> Meaning(s.group_by[i], Context(row))]
        Same(r, k) == LET key == Key(r) IN ~LessRow(key, k) /\ ~LessRow(k, key)
        firsts == SelectSeq([i \in DOMAIN rows |-> i],
                            LAMBDA i : \A j \in 1..(i - 1) : ~Same(rows[j], Key(rows[i])))
    IN IF s.group_by = <<>> THEN <<rows>>
       ELSE [g \in DOMAIN firsts |-> SelectSeq(rows, LAMBDA r : Same(r, Key(rows[firsts[g]])))]

Contexts(s, rows) ==
    IF IsAggregateQuery(s)
    THEN LET groups == Groups(s, rows)
         IN [g \in DOMAIN groups |->
               [Context(IF groups[g] = <<>> THEN <<>> ELSE groups[g][1]) EXCEPT !.group = groups[g]]]
    ELSE [i \in DOMAIN rows |-> Context(rows[i])]

AllColumns(s) ==
    LET names == FlattenSeq([i \in DOMAIN s.from |-> NamesOf(s.from[i])])
    IN [i \in DOMAIN names |-> <<Column(<<names[i][1]>>, names[i][2]), <<>>>>]

SelectMeaning(s, db) ==
    LET select == FlattenSeq([i \in DOMAIN s.select |->
                     IF s.select[i][1] = All THEN AllColumns(s) ELSE <<s.select[i]>>])
        rows == SelectSeq(FromClauseMeaning(s.from, db), LAMBDA row : Holds(s.where, Context(row)))
        Later(ctx) == [ctx EXCEPT !.outputs = select, !.group_by = ToSet(s.group_by)]
        kept == SelectSeq(Contexts(s, rows), LAMBDA ctx : Holds(s.having, Later(ctx)))
    IN [i \in DOMAIN kept |->
          [row |-> [j \in DOMAIN select |-> Meaning(select[j][1], kept[i])],
           keys |-> [j \in DOMAIN s.order_by |-> Meaning(s.order_by[j][1], Later(kept[i]))]]]

(* DELETE, UPDATE and INSERT: what Execute says of them. *)
WriteMeaning(s, db) ==
    LET table == Catalog[s.table]
        names == NamesOf(<<"Table", s.table, <<>>>>)
        rows == SelectSeq(db[s.table], LAMBDA row : Holds(s.where, Context(NamedRow(names, row))))
        Assigned(c, row) ==
            LET name == table.columns[c].name
            IN CASE name \notin DOMAIN s.set -> row[c]
                 [] name \in DOMAIN s.set /\ s.set[name] = <<>> -> table.columns[c].default[1]
                 [] OTHER -> Meaning(s.set[name][1], Context(NamedRow(names, row)))
        columns == IF s.columns = <<>> THEN [i \in DOMAIN names |-> names[i][2]] ELSE s.columns[1]
        Inserted(c, exprs) ==
            LET given == {i \in DOMAIN exprs : columns[i] = table.columns[c].name}
            IN IF given = {} THEN table.columns[c].default[1] ELSE Meaning(exprs[Max(given)], Context(<<>>))
    IN CASE s.type = "Delete" -> [i \in DOMAIN rows |-> <<KeyOf(table, rows[i])>>]
         [] s.type = "Update" ->
              [i \in DOMAIN rows |-> <<KeyOf(table, rows[i])>> \o [c \in DOMAIN rows[i] |-> Assigned(c, rows[i])]]
         [] s.type = "Insert" ->
              [i \in DOMAIN s.values |-> [c \in DOMAIN table.columns |-> Inserted(c, s.values[i])]]

-----------------------------------------------------------------------------
(* Whether the rows are a result that the statement allows. *)

Count(seq, x) == Cardinality({i \in DOMAIN seq : seq[i] = x})
NoMoreThan(s, t) == \A x \in ToSet(s) : Count(s, x) <= Count(t, x)
SameBag(s, t) == Len(s) = Len(t) /\ NoMoreThan(s, t)

SortsAfter(a, b, order_by) ==
    LET Differ(i) == Less(a[i], b[i]) \/ Less(b[i], a[i])
    IN \E i \in DOMAIN order_by :
          /\ Differ(i) /\ \A j \in 1..(i - 1) : ~Differ(j)
          /\ Less(b[i], a[i]) <=> order_by[i][2] = "Ascending"

(* The rows got are those at the positions from offset + 1 on, for some    *)
(* order that order_by allows: the positions of rows with equal keys hold  *)
(* such rows, each no more often than meant.                               *)
AllowedAt(got, offset, meant, order_by) ==
    \A i \in DOMAIN meant :
        LET before == SelectSeq(meant, LAMBDA m : SortsAfter(meant[i].keys, m.keys, order_by))
            ties == SelectSeq(meant, LAMBDA m : /\ ~SortsAfter(meant[i].keys, m.keys, order_by)
                                                /\ ~SortsAfter(m.keys, meant[i].keys, order_by))
            first == Len(before) - offset + 1
            part == SubSeq(got, Max({1, first}), Min({first + Len(ties) - 1, Len(got)}))
        IN NoMoreThan(part, [j \in DOMAIN ties |-> ties[j].row])

IsResultOf(got, s, db) ==
    IF s.type # "Select" THEN SameBag(got, WriteMeaning(s, db))
    ELSE LET meant == SelectMeaning(s, db)
             Value(option) == BuildConstantValue(option[1])[2]
             offset == IF s.offset = <<>> THEN 0 ELSE Value(s.offset)
             rest == Max({0, Len(meant) - offset})
         IN /\ Len(got) = IF s.limit = <<>> THEN rest ELSE Min({rest, Value(s.limit)})
            /\ AllowedAt(got, offset, meant, s.order_by)
=============================================================================
