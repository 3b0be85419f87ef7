--------------------------- MODULE SqlExpressions ---------------------------
(***************************************************************************)
(* Planned expressions (sql/types/expression.rs): how they are evaluated   *)
(* on a row, and the rewrites that the optimizer uses.  They have the      *)
(* operators of the syntax tree that Lower of SqlPlanner keeps, constants, *)
(* and columns by their index in the row, from 0.                          *)
(***************************************************************************)
EXTENDS SqlValues

CONSTANT LikeMatches     \* the pairs <<string, pattern>> that match

Constant(v) == <<"Constant", v>>
ColumnRef(index) == <<"Column", index>>

(* The operands of an expression, planned or not, and the same expression  *)
(* with others (the shared part of Expression::walk and transform).        *)
Operands(e) ==
    CASE e[1] \in BinaryOps -> <<e[2], e[3]>>
      [] e[1] \in UnaryOps \union {"SquareRoot", "Is"} -> <<e[2]>>
      [] OTHER -> <<>>

WithOperands(e, subs) ==
    CASE e[1] \in BinaryOps -> <<e[1], subs[1], subs[2]>>
      [] e[1] = "Is" -> <<"Is", subs[1], e[3]>>
      [] e[1] \in UnaryOps \union {"SquareRoot"} -> <<e[1], subs[1]>>
      [] OTHER -> e

-----------------------------------------------------------------------------
(* Evaluation. *)

IsLogical(v) == v = Null \/ v[1] = "Boolean"

(* FALSE decides a conjunction and TRUE a disjunction, whatever the NULLs. *)
Decide(l, r, decisive) ==
    IF ~(IsLogical(l) /\ IsLogical(r)) THEN Error
    ELSE IF Boolean(decisive) \in {l, r} THEN Boolean(decisive)
    ELSE IF Null \in {l, r} THEN Null ELSE Boolean(~decisive)

Compare(l, r, outcome) ==
    IF Null \in {l, r} THEN Null
    ELSE IF l[1] # r[1] /\ ~(IsNumber(l) /\ IsNumber(r)) THEN Error
    ELSE Boolean(outcome /\ NaN \notin {l, r})

EvaluateLike(l, r) ==
    IF \E v \in {l, r} : v # Null /\ v[1] # "String" THEN Error
    ELSE IF Null \in {l, r} THEN Null ELSE Boolean(<<l[2], r[2]>> \in LikeMatches)

EvaluateBinary(op, l, r) ==
    CASE Failed(l) -> l
      [] ~Failed(l) /\ Failed(r) -> r
      [] OTHER ->
        CASE op = "And" -> Decide(l, r, FALSE)
          [] op = "Or" -> Decide(l, r, TRUE)
          [] op = "Equal" -> Compare(l, r, Eq(l, r))
          [] op = "GreaterThan" -> Compare(l, r, Less(r, l))
          [] op = "LessThan" -> Compare(l, r, Less(l, r))
          [] op = "Add" -> CheckedAdd(l, r)
          [] op = "Divide" -> CheckedDiv(l, r)
          [] op = "Exponentiate" -> CheckedPow(l, r)
          [] op = "Multiply" -> CheckedMul(l, r)
          [] op = "Remainder" -> CheckedRem(l, r)
          [] op = "Subtract" -> CheckedSub(l, r)
          [] op = "Like" -> EvaluateLike(l, r)

RECURSIVE FactorialOf(_)
FactorialOf(n) == IF n = 0 THEN Integer(1) ELSE CheckedMul(FactorialOf(n - 1), Integer(n))

\* The whole part of a square root: roots are modelled where they are exact.
Root(n) == CHOOSE r \in 0..n : r * r <= n /\ n < (r + 1) * (r + 1)

(* Negating the least integer panics (a release build wraps it around). *)
EvaluateUnary(op, v) ==
    CASE Failed(v) \/ v = Null -> v
      [] op = "Not" /\ v[1] = "Boolean" -> Boolean(~v[2])
      [] op = "Identity" /\ IsNumber(v) -> v
      [] op = "Negate" /\ IsInteger(v) -> IF FitsI64(-v[2]) THEN Integer(-v[2]) ELSE Panic
      [] op = "Negate" /\ v[1] = "Float" -> <<"Float", Negated(v[2])>>
      [] op = "Factorial" /\ IsInteger(v) /\ v[2] >= 0 -> FactorialOf(v[2])
      [] op = "SquareRoot" /\ IsInteger(v) /\ v[2] >= 0 -> Float(Root(v[2]), 1)
      [] op = "SquareRoot" /\ v[1] = "Float" ->
            IF v[2][1] < 0 THEN NaN ELSE Float(Root(v[2][1]), Root(v[2][2]))
      [] OTHER -> Error

EvaluateIs(v, what) ==
    CASE Failed(v) -> v
      [] what = Null -> Boolean(v = Null)
      [] what = NaN /\ v[1] = "Float" -> Boolean(v = NaN)
      [] what = NaN /\ v = Null -> Null
      [] OTHER -> Error

RECURSIVE Evaluate(_, _)
Evaluate(e, row) ==
    CASE e[1] = "Constant" -> e[2]
      [] e[1] = "Column" -> IF e[2] + 1 \in DOMAIN row THEN row[e[2] + 1] ELSE Panic
      [] e[1] = "Is" -> EvaluateIs(Evaluate(e[2], row), e[3])
      [] e[1] \in BinaryOps -> EvaluateBinary(e[1], Evaluate(e[2], row), Evaluate(e[3], row))
      [] OTHER -> EvaluateUnary(e[1], Evaluate(e[2], row))

-----------------------------------------------------------------------------
(* Rewrites. *)

(* The columns that an expression refers to (what contains is asked about). *)
RECURSIVE ColumnsIn(_)
ColumnsIn(e) ==
    IF e[1] = "Column" THEN {e[2]} ELSE UNION {ColumnsIn(s) : s \in ToSet(Operands(e))}

(* into_nnf: each node is rewritten once, before its operands. *)
PushNot(e) ==
    IF e[1] # "Not" THEN e
    ELSE LET inner == e[2] IN
         CASE inner[1] = "And" -> <<"Or", <<"Not", inner[2]>>, <<"Not", inner[3]>>>>
           [] inner[1] = "Or" -> <<"And", <<"Not", inner[2]>>, <<"Not", inner[3]>>>>
           [] inner[1] = "Not" -> inner[2]
           [] OTHER -> e

RECURSIVE IntoNnf(_)
IntoNnf(e) ==
    LET x == PushNot(e)
    IN WithOperands(x, [i \in DOMAIN Operands(x) |-> IntoNnf(Operands(x)[i])])

DistributeOr(e) ==
    IF e[1] # "Or" THEN e
    ELSE LET l == e[2]  r == e[3] IN
         CASE l[1] = "And" -> <<"And", <<"Or", l[2], r>>, <<"Or", l[3], r>>>>
           [] l[1] # "And" /\ r[1] = "And" -> <<"And", <<"Or", l, r[2]>>, <<"Or", l, r[3]>>>>
           [] OTHER -> e

RECURSIVE Distributed(_)
Distributed(e) ==
    LET x == DistributeOr(e)
    IN WithOperands(x, [i \in DOMAIN Operands(x) |-> Distributed(Operands(x)[i])])

IntoCnf(e) == Distributed(IntoNnf(e))

RECURSIVE Conjuncts(_)
Conjuncts(e) == IF e[1] = "And" THEN Conjuncts(e[2]) \o Conjuncts(e[3]) ELSE <<e>>

IntoCnfVec(e) == Conjuncts(IntoCnf(e))
AndVec(es) ==
    IF es = <<>> THEN <<>> ELSE <<FoldLeft(LAMBDA l, r : <<"And", l, r>>, es[1], Tail(es))>>

(* The column that the expression is a lookup of, if it is one. *)
RECURSIVE IsColumnLookup(_)
IsColumnLookup(e) ==
    CASE e[1] = "Equal" /\ e[2][1] = "Column" /\ e[3][1] = "Constant" -> <<e[2][2]>>
      [] e[1] = "Equal" /\ e[2][1] = "Constant" /\ e[3][1] = "Column" -> <<e[3][2]>>
      [] e[1] = "Is" /\ e[2][1] = "Column" -> <<e[2][2]>>
      [] e[1] = "Or" -> LET l == IsColumnLookup(e[2])
                        IN IF l = IsColumnLookup(e[3]) THEN l ELSE <<>>
      [] OTHER -> <<>>

(* The values that a column lookup looks up. *)
RECURSIVE IntoColumnValues(_)
IntoColumnValues(e) ==
    CASE e[1] = "Equal" ->
            LET v == IF e[2][1] = "Constant" THEN e[2][2] ELSE e[3][2]
            IN IF IsUndefined(v) THEN <<>> ELSE <<v>>
      [] e[1] = "Is" -> <<e[3]>>
      [] e[1] = "Or" -> IntoColumnValues(e[2]) \o IntoColumnValues(e[3])

RECURSIVE ReplaceColumn(_, _, _)
ReplaceColumn(e, from, to) ==
    IF e[1] = "Column" THEN ColumnRef(IF e[2] = from THEN to ELSE e[2])
    ELSE WithOperands(e, [i \in DOMAIN Operands(e) |-> ReplaceColumn(Operands(e)[i], from, to)])

RECURSIVE ShiftColumn(_, _)
ShiftColumn(e, diff) ==
    IF e[1] = "Column" THEN ColumnRef(e[2] + diff)
    ELSE WithOperands(e, [i \in DOMAIN Operands(e) |-> ShiftColumn(Operands(e)[i], diff)])
=============================================================================
