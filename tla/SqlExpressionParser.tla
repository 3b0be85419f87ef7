------------------------ MODULE SqlExpressionParser ------------------------
(***************************************************************************)
(* The precedence-climbing expression parser                               *)
(* (sql/parser/verified_precedence.rs).  Every function takes the token    *)
(* sequence s and a position; fuel bounds the recursion.                   *)
(***************************************************************************)
EXTENDS SqlSyntax

(* IS [NOT] NULL and IS [NOT] NAN, and !.  An IS that neither follows is   *)
(* left where it is.                                                       *)
ParsePostfixAt(s, pos, min) ==
    LET negated == At(s, pos + 1) = "NOT"
        p == IF negated THEN pos + 2 ELSE pos + 1
    IN CASE At(s, pos) = "IS" /\ IsPrec >= min /\ At(s, p) \in {"NAN", "NULL"} ->
                [op |-> <<"Is", negated, At(s, p) = "NAN">>, pos |-> p + 1]
         [] At(s, pos) = "!" /\ FactorialPrec >= min ->
                [op |-> <<"Factorial">>, pos |-> pos + 1]
         [] OTHER -> [op |-> <<>>, pos |-> pos]

BuildPostfix(op, lhs) ==
    IF op[1] = "Factorial" THEN <<"Factorial", lhs>>
    ELSE LET is == <<"Is", lhs, IF op[3] THEN NaN ELSE Null>>
         IN IF op[2] THEN <<"Not", is>> ELSE is

RECURSIVE PostfixLoop(_, _, _, _)
PostfixLoop(s, lhs, pos, min) ==
    LET r == ParsePostfixAt(s, pos, min)
    IN IF r.op = <<>> THEN Ok(lhs, pos)
       ELSE PostfixLoop(s, BuildPostfix(r.op, lhs), r.pos, min)

(* Number, string and keyword literals. *)
ParseLiteral(tok) ==
    CASE tok \in Numbers -> NumberLiteral(tok)
      [] tok \in Strings -> <<"String", tok>>
      [] tok = "TRUE" -> <<"Boolean", TRUE>>
      [] tok = "FALSE" -> <<"Boolean", FALSE>>
      [] tok = "INFINITY" -> Infinity
      [] tok = "NAN" -> NaN
      [] tok = "NULL" -> Null
      [] OTHER -> <<"ExpectedAtom", tok>>

IsLiteral(l) == l[1] \in {"Null", "Boolean", "Integer", "Float", "String"}

RECURSIVE ParseExpressionAt(_, _, _, _), ParseFnArgs(_, _, _)

ParseFunctionCall(s, name, pos, fuel) ==
    Then(IF At(s, pos) = ")" THEN Ok(<<>>, pos) ELSE ParseFnArgs(s, pos, fuel),
         LAMBDA args, p : Then(Expect(s, p, ")"),
                               LAMBDA t, q : Ok(Function(name, args), q)))

(* One or more arguments, one recursive call for each.  The list ends      *)
(* before its closing parenthesis.                                         *)
ParseFnArgs(s, pos, fuel) ==
    IF AtEnd(s, pos) THEN Fail(Eof)
    ELSE Then(ParseExpressionAt(s, pos, 0, fuel - 1), LAMBDA e, p :
            CASE AtEnd(s, p) -> Fail(Eof)
              [] At(s, p) = ")" -> Ok(<<e>>, p)
              [] At(s, p) = "," -> Then(ParseFnArgs(s, p + 1, fuel - 1),
                                        LAMBDA more, q : Ok(<<e>> \o more, q))
              [] OTHER -> Fail(<<"ExpectedToken", ",", s[p]>>))

ParseAtom(s, pos, fuel) ==
    CASE fuel = 0 \/ AtEnd(s, pos) -> Fail(Eof)
      [] At(s, pos) = "*" -> Ok(All, pos + 1)
      [] At(s, pos) = "(" ->
            Then(ParseExpressionAt(s, pos + 1, 0, fuel - 1),
                 LAMBDA e, p : Then(Expect(s, p, ")"), LAMBDA t, q : Ok(e, q)))
      [] At(s, pos) \in Idents /\ At(s, pos + 1) = "(" ->
            ParseFunctionCall(s, s[pos], pos + 2, fuel)
      [] At(s, pos) \in Idents /\ At(s, pos + 1) = "." ->
            Then(ExpectIdent(s, pos + 2),
                 LAMBDA name, p : Ok(Column(<<s[pos]>>, name), p))
      [] At(s, pos) \in Idents /\ At(s, pos + 1) \notin {"(", "."} ->
            Ok(Column(<<>>, s[pos]), pos + 1)
      [] OTHER -> LET l == ParseLiteral(s[pos])
                  IN IF IsLiteral(l) THEN Ok(Literal(l), pos + 1) ELSE Fail(l)

RECURSIVE InfixLoop(_, _, _, _, _)
InfixLoop(s, lhs, pos, min, fuel) ==
    LET op == BinaryTag(At(s, pos))
    IN IF op # "none" /\ BinaryPrec(op) >= min
       THEN Then(ParseExpressionAt(s, pos + 1, BinaryPrec(op) + BinaryAssoc(op), fuel - 1),
                 LAMBDA rhs, p : InfixLoop(s, <<op, lhs, rhs>>, p, min, fuel))
       ELSE Ok(lhs, pos)

(* A prefix operator or an atom, then postfix operators, then infix        *)
(* operators of at least the given precedence, then postfix operators that *)
(* apply to all of it.                                                     *)
ParseExpressionAt(s, pos, min, fuel) ==
    IF fuel = 0 \/ AtEnd(s, pos) THEN Fail(Eof)
    ELSE LET op == PrefixTag(s[pos])
             lhs == IF op # "none" /\ PrefixPrec(op) >= min
                    THEN Then(ParseExpressionAt(s, pos + 1, PrefixPrec(op), fuel - 1),
                              LAMBDA e, p : Ok(<<op, e>>, p))
                    ELSE ParseAtom(s, pos, fuel - 1)
             postfixed == Then(lhs, LAMBDA e, p : PostfixLoop(s, e, p, min))
             infixed == Then(postfixed, LAMBDA e, p : InfixLoop(s, e, p, min, fuel))
         IN Then(infixed, LAMBDA e, p : PostfixLoop(s, e, p, min))

Fuel(s) == 2 * Len(s) + 3

(* An expression that takes up the whole input. *)
ParseExpressionFull(s) ==
    Then(ParseExpressionAt(s, 1, 0, Fuel(s)), LAMBDA e, p :
        IF AtEnd(s, p) THEN Ok(e, p) ELSE Fail(<<"UnexpectedToken", s[p]>>))
=============================================================================
