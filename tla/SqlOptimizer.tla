---------------------------- MODULE SqlOptimizer ----------------------------
(***************************************************************************)
(* The optimizers (sql/planner/optimizer.rs): each rewrites all nodes of a *)
(* plan, from the root down unless noted.                                  *)
(***************************************************************************)
EXTENDS SqlPlan

WithSources(node, srcs) == [node EXCEPT !.srcs = srcs]

-----------------------------------------------------------------------------
(* ConstantFolding.  It fails where the evaluation of a constant fails.    *)
(* Aggregates are not folded.                                              *)

Fold(e) ==
    LET v == Evaluate(e, <<>>)
        sides == ToSet(Operands(e))
        True == Constant(Boolean(TRUE))
        False == Constant(Boolean(FALSE))
    IN CASE ColumnsIn(e) = {} -> IF Failed(v) THEN v ELSE Constant(v)
         [] ColumnsIn(e) # {} /\ e[1] = "And" ->
              IF False \in sides THEN False ELSE IF e[2] = True THEN e[3] ELSE IF e[3] = True THEN e[2] ELSE e
         [] ColumnsIn(e) # {} /\ e[1] = "Or" ->
              IF True \in sides THEN True ELSE IF e[2] = False THEN e[3] ELSE IF e[3] = False THEN e[2] ELSE e
         [] OTHER -> e

(* Operands first. *)
RECURSIVE FoldExpression(_)
FoldExpression(e) ==
    LET subs == [i \in DOMAIN Operands(e) |-> FoldExpression(Operands(e)[i])]
        failed == SelectSeq(subs, Failed)
    IN IF failed # <<>> THEN failed[1] ELSE Fold(WithOperands(e, subs))

(* Node::transform_expressions *)
TransformExpressions(node, Op(_)) ==
    CASE node.type = "Filter" -> [node EXCEPT !.predicate = Op(@)]
      [] node.type = "NestedLoopJoin" -> [node EXCEPT !.predicate = [i \in DOMAIN @ |-> Op(@[i])]]
      [] node.type = "Scan" -> [node EXCEPT !.filter = [i \in DOMAIN @ |-> Op(@[i])]]
      [] node.type = "Order" -> [node EXCEPT !.key = [i \in DOMAIN @ |-> <<Op(@[i][1]), @[i][2]>>]]
      [] node.type = "Projection" -> [node EXCEPT !.expressions = [i \in DOMAIN @ |-> Op(@[i])]]
      [] node.type = "Values" ->
            [node EXCEPT !.rows = [i \in DOMAIN @ |-> [j \in DOMAIN @[i] |-> Op(@[i][j])]]]
      [] OTHER -> node

NodeExpressions(node) ==
    CASE node.type = "Filter" -> {node.predicate}
      [] node.type = "NestedLoopJoin" -> ToSet(node.predicate)
      [] node.type = "Scan" -> ToSet(node.filter)
      [] node.type = "Order" -> {k[1] : k \in ToSet(node.key)}
      [] node.type = "Projection" -> ToSet(node.expressions)
      [] node.type = "Values" -> UNION {ToSet(row) : row \in ToSet(node.rows)}
      [] OTHER -> {}

RECURSIVE FoldConstants(_)
FoldConstants(node) ==
    WithSources(TransformExpressions(node, LAMBDA e : FoldExpression(e)),
                [i \in DOMAIN node.srcs |-> FoldConstants(node.srcs[i])])

RECURSIVE FoldingFailed(_)
FoldingFailed(folded) ==
    \/ \E e \in NodeExpressions(folded) : Failed(e)
    \/ \E i \in DOMAIN folded.srcs : FoldingFailed(folded.srcs[i])

-----------------------------------------------------------------------------
(* FilterPushdown. *)

CanPushInto(target) == IsNode(target, {"Filter", "NestedLoopJoin", "Scan"})

\* Mutant: a pushed expression replaces the predicate that is there.
PushIntoReplaces(expr, target) ==
    CASE target.type = "Filter" -> [target EXCEPT !.predicate = expr]
      [] target.type = "NestedLoopJoin" -> [target EXCEPT !.predicate = <<expr>>]
      [] target.type = "Scan" -> [target EXCEPT !.filter = <<expr>>]

PushInto(expr, target) ==
    LET Conjoin(old) == IF old = <<>> THEN <<expr>> ELSE <<<<"And", expr, old[1]>>>>
    IN CASE target.type = "Filter" -> [target EXCEPT !.predicate = <<"And", expr, @>>]
         [] target.type = "NestedLoopJoin" -> [target EXCEPT !.predicate = Conjoin(@)]
         [] target.type = "Scan" -> [target EXCEPT !.filter = Conjoin(@)]

IsEquijoin(e) == e[1] = "Equal" /\ e[2][1] = "Column" /\ e[3][1] = "Column"
LowerColumn(e) == IF e[2][2] > e[3][2] THEN e[3][2] ELSE e[2][2]
UpperColumn(e) == IF e[2][2] > e[3][2] THEN e[2][2] ELSE e[3][2]

(* The last lookup of the column among the pushed conjuncts, if any. *)
LookupOf(pushed, column) ==
    LET found == {i \in DOMAIN pushed : IsColumnLookup(pushed[i]) = <<column>>}
    IN IF found = {} THEN <<>> ELSE <<pushed[Max(found)]>>

(* Lookups of one side of an equijoin, copied to the other side's column. *)
CopiedLookups(joining, pushed, From(_), To(_)) ==
    LET Copies(e) == IF ~IsEquijoin(e) THEN <<>>
                     ELSE LET found == LookupOf(pushed, From(e))
                          IN IF found = <<>> THEN <<>> ELSE <<ReplaceColumn(found[1], From(e), To(e))>>
    IN FlattenSeq([i \in DOMAIN joining |-> Copies(joining[i])])

(* Right columns have indexes in the joined row. *)
ToRight(expr, left_columns) == ShiftColumn(expr, -left_columns)

(* Conjuncts about one side of a join go into that side, constants into    *)
(* both, and what a side cannot take goes back into the predicate.         *)
MaybePushJoin(node) ==
    LET left == node.srcs[1]
        right == node.srcs[2]
        size == Columns(left)
        cnf == IntoCnfVec(node.predicate[1])
        RefLeft(e) == \E c \in ColumnsIn(e) : c < size
        RefRight(e) == \E c \in ColumnsIn(e) : c >= size
        joining == SelectSeq(cnf, LAMBDA e : RefLeft(e) /\ RefRight(e))
        on_left == SelectSeq(cnf, LAMBDA e : ~RefRight(e))
        on_right == SelectSeq(cnf, LAMBDA e : ~RefLeft(e))
        push_left == AndVec(on_left \o CopiedLookups(joining, on_right, UpperColumn, LowerColumn))
        push_right == AndVec(on_right \o CopiedLookups(joining, on_left, LowerColumn, UpperColumn))
        into_left == push_left # <<>> /\ CanPushInto(left)
        into_right == push_right # <<>> /\ CanPushInto(right)
        rest == joining \o (IF into_left THEN <<>> ELSE push_left)
                        \o (IF into_right THEN <<>> ELSE push_right)
    IN IF node.type # "NestedLoopJoin" THEN node
       ELSE IF node.predicate = <<>> THEN node
       ELSE NestedLoopJoin(IF into_left THEN PushInto(push_left[1], left) ELSE left,
                           IF into_right THEN PushInto(ToRight(push_right[1], size), right) ELSE right,
                           AndVec(rest), node.outer)

(* A filter that is pushed into its source leaves the source in its place. *)
RECURSIVE PushFilters(_)
PushFilters(node) ==
    MaybePushJoin(IF node.type = "Filter" /\ CanPushInto(node.srcs[1])
                  THEN PushFilters(PushInto(node.predicate, node.srcs[1])) ELSE node)

RECURSIVE PushDown(_)
PushDown(node) ==
    LET pushed == PushFilters(node)
    IN WithSources(pushed, [i \in DOMAIN pushed.srcs |-> PushDown(pushed.srcs[i])])

-----------------------------------------------------------------------------
(* IndexLookup. *)

(* The first conjunct that is a lookup of the primary key or an index      *)
(* becomes a lookup node; the others become a filter.                      *)
LookUp(node) ==
    LET table == node.table
        cnf == IntoCnfVec(node.filter[1])
        Indexed(c) == c = table.primary_key \/ table.columns[c + 1].index
        found == {i \in DOMAIN cnf : \E c \in ToSet(IsColumnLookup(cnf[i])) : Indexed(c)}
        at == Min(found)
        column == IsColumnLookup(cnf[at])[1]
        values == IntoColumnValues(cnf[at])
        lookup == IF column = table.primary_key THEN KeyLookup(table, values, node.alias)
                  ELSE IndexLookup(table, column, values, node.alias)
        rest == AndVec(RemoveAt(cnf, at))
    IN IF node.type # "Scan" THEN node
       ELSE IF node.filter = <<>> THEN node
       ELSE IF found = {} THEN node
       ELSE IF rest = <<>> THEN lookup ELSE Filter(lookup, rest[1])

RECURSIVE UseIndexes(_)
UseIndexes(node) ==
    LET n == LookUp(node) IN WithSources(n, [i \in DOMAIN n.srcs |-> UseIndexes(n.srcs[i])])

-----------------------------------------------------------------------------
(* HashJoin. *)

(* An equijoin of single columns becomes a hash join. *)
JoinByHash(node) ==
    IF node.type # "NestedLoopJoin" THEN node
    ELSE IF node.predicate = <<>> THEN node
    ELSE LET e == node.predicate[1] IN
         IF ~IsEquijoin(e) THEN node
         ELSE HashJoin(node.srcs[1], LowerColumn(e), node.srcs[2],
                       UpperColumn(e) - Columns(node.srcs[1]), node.outer)

RECURSIVE UseHashJoins(_)
UseHashJoins(node) ==
    LET n == JoinByHash(node) IN WithSources(n, [i \in DOMAIN n.srcs |-> UseHashJoins(n.srcs[i])])

-----------------------------------------------------------------------------
(* ShortCircuit, from the leaves up. *)

IsConstant(e, values) == e[1] = "Constant" /\ e[2] \in values
Always(option) == option # <<>> /\ IsConstant(option[1], {Boolean(TRUE)})
Never(option) == option # <<>> /\ IsConstant(option[1], {Boolean(FALSE), Null})

IsNoop(node) ==
    /\ node.type = "Projection"
    /\ Columns(node.srcs[1]) = Len(node.expressions)
    /\ \A i \in DOMAIN node.expressions :
          node.expressions[i] = ColumnRef(i - 1) /\ node.aliases[i] = NoLabel

RemoveUseless(node) ==
    CASE node.type = "Filter" -> IF Always(<<node.predicate>>) THEN node.srcs[1] ELSE node
      [] node.type = "Scan" -> IF Always(node.filter) THEN [node EXCEPT !.filter = <<>>] ELSE node
      [] node.type = "NestedLoopJoin" ->
            IF Always(node.predicate) THEN [node EXCEPT !.predicate = <<>>] ELSE node
      [] OTHER -> IF IsNoop(node) THEN node.srcs[1] ELSE node

(* The node cannot emit a row. *)
IsEmpty(node) ==
    \/ node.type = "Filter" /\ Never(<<node.predicate>>)
    \/ node.type = "IndexLookup" /\ node.values = <<>>
    \/ node.type = "KeyLookup" /\ node.keys = <<>>
    \/ node.type = "Limit" /\ node.count = 0
    \/ node.type = "NestedLoopJoin" /\ Never(node.predicate)
    \/ node.type = "Scan" /\ Never(node.filter)
    \/ node.type = "Values" /\ node.rows = <<>>
    \/ /\ IsNode(node, Joins \union {"Filter", "Offset", "Order", "Projection"})
       /\ \E i \in DOMAIN node.srcs : node.srcs[i].type = "Nothing"

RECURSIVE ShortCircuit(_)
ShortCircuit(node) ==
    LET n == RemoveUseless(WithSources(node, [i \in DOMAIN node.srcs |-> ShortCircuit(node.srcs[i])]))
    IN IF IsEmpty(n) THEN Nothing([i \in 1..Columns(n) |-> ColumnLabel(n, i - 1)]) ELSE n

-----------------------------------------------------------------------------

(* OPTIMIZERS and Plan::optimize. *)
CanOptimize(plan) == "source" \in DOMAIN plan => ~FoldingFailed(FoldConstants(plan.source))
Optimize(plan) ==
    IF "source" \in DOMAIN plan
    THEN [plan EXCEPT !.source = ShortCircuit(UseHashJoins(UseIndexes(PushDown(FoldConstants(@)))))]
    ELSE plan
=============================================================================
