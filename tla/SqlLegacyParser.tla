-------------------------- MODULE SqlLegacyParser --------------------------
(***************************************************************************)
(* The recursive-descent parser over a token stream that the tests keep as *)
(* the oracle of the verified one (StreamingParser in                      *)
(* sql/parser/parser.rs).  The position in a result is the rest of the     *)
(* stream.                                                                 *)
(***************************************************************************)
EXTENDS SqlSyntax, TLC

Peek(rest) == IF rest = <<>> THEN "end of input" ELSE Head(rest)
Skip(rest, tok) == IF Peek(rest) = tok THEN Tail(rest) ELSE rest

Next1(rest) == IF rest = <<>> THEN Fail(Eof) ELSE Ok(Head(rest), Tail(rest))

NextIdent(rest) ==
    Then(Next1(rest), LAMBDA tok, r :
        IF tok \in Idents THEN Ok(tok, r) ELSE Fail(<<"ExpectedIdent", tok>>))

ExpectNext(rest, expected) ==
    Then(Next1(rest), LAMBDA tok, r :
        IF tok = expected THEN Ok(tok, r) ELSE Fail(<<"ExpectedToken", expected, tok>>))

-----------------------------------------------------------------------------
(* Expressions *)

InfixOperator(tok) ==
    CASE tok = "*" -> "Multiply" [] tok = "^" -> "Exponentiate" [] tok = "=" -> "Equal"
      [] tok = ">" -> "GreaterThan" [] tok = ">=" -> "GreaterThanOrEqual"
      [] tok = "AND" -> "And" [] tok = "LIKE" -> "Like" [] tok = "OR" -> "Or"
      [] tok = "<>" -> "NotEqual" [] tok = "<" -> "LessThan" [] tok = "<=" -> "LessThanOrEqual"
      [] tok = "-" -> "Subtract" [] tok = "!=" -> "NotEqual" [] tok = "%" -> "Remainder"
      [] tok = "+" -> "Add" [] tok = "/" -> "Divide" [] OTHER -> "none"

InfixPrecedence(op) ==
    CASE op = "Or" -> 1 [] op = "And" -> 2 [] op \in {"Equal", "NotEqual", "Like"} -> 4
      [] op \in {"GreaterThan", "GreaterThanOrEqual", "LessThan", "LessThanOrEqual"} -> 5
      [] op \in {"Add", "Subtract"} -> 6 [] op \in {"Multiply", "Divide", "Remainder"} -> 7
      [] op = "Exponentiate" -> 8

InfixAssociativity(op) == IF op = "Exponentiate" THEN 0 ELSE 1

PrefixOperator(tok) ==
    CASE tok = "NOT" -> "Not" [] tok = "-" -> "Negate" [] tok = "+" -> "Identity"
      [] OTHER -> "none"

PrefixPrecedence(op) == IF op = "Not" THEN 3 ELSE 10

(* The operators after an operand; an IS must be one. *)
RECURSIVE PostfixOperators(_, _, _)
PostfixOperators(lhs, rest, min) ==
    CASE Peek(rest) = "IS" /\ 4 >= min ->
            LET negated == Peek(Tail(rest)) = "NOT"
            IN Then(Next1(Skip(Tail(rest), "NOT")), LAMBDA tok, r :
                 IF tok \notin {"NAN", "NULL"} THEN Fail(<<"UnexpectedToken", tok>>)
                 ELSE LET is == <<"Is", lhs, IF tok = "NAN" THEN NaN ELSE Null>>
                      IN PostfixOperators(IF negated THEN <<"Not", is>> ELSE is, r, min))
      [] Peek(rest) = "!" /\ 9 >= min -> PostfixOperators(<<"Factorial", lhs>>, Tail(rest), min)
      [] OTHER -> Ok(lhs, rest)

AtomLiteral(tok) ==
    CASE tok \in Numbers -> NumberLiteral(tok)
      [] tok \in Strings -> <<"String", tok>>
      [] tok \in {"TRUE", "FALSE"} -> <<"Boolean", tok = "TRUE">>
      [] tok = "INFINITY" -> Infinity [] tok = "NAN" -> NaN [] tok = "NULL" -> Null
      [] OTHER -> <<"ExpectedAtom", tok>>

RECURSIVE Expression(_, _), Arguments(_, _), InfixOperators(_, _, _)

Arguments(done, rest) ==
    IF Peek(rest) = ")" THEN Ok(done, Tail(rest))
    ELSE Then(IF done = <<>> THEN Ok("", rest) ELSE ExpectNext(rest, ","), LAMBDA t, r :
         Then(Expression(r, 0), LAMBDA e, q : Arguments(Append(done, e), q)))

Atom(rest) ==
    Then(Next1(rest), LAMBDA tok, r :
        CASE tok = "*" -> Ok(All, r)
          [] tok = "(" -> Then(Expression(r, 0), LAMBDA e, q :
                               Then(ExpectNext(q, ")"), LAMBDA t, p : Ok(e, p)))
          [] tok \in Idents /\ Peek(r) = "(" ->
                Then(Arguments(<<>>, Tail(r)), LAMBDA args, q : Ok(Function(tok, args), q))
          [] tok \in Idents /\ Peek(r) = "." ->
                Then(NextIdent(Tail(r)), LAMBDA name, q : Ok(Column(<<tok>>, name), q))
          [] tok \in Idents /\ Peek(r) \notin {"(", "."} -> Ok(Column(<<>>, tok), r)
          [] OTHER -> LET l == AtomLiteral(tok)
                      IN IF l[1] \in {"Null", "Boolean", "Integer", "Float", "String"}
                         THEN Ok(Literal(l), r) ELSE Fail(l))

InfixOperators(lhs, rest, min) ==
    LET op == InfixOperator(Peek(rest))
    IN IF op # "none" /\ InfixPrecedence(op) >= min
       THEN Then(Expression(Tail(rest), InfixPrecedence(op) + InfixAssociativity(op)),
                 LAMBDA rhs, r : InfixOperators(<<op, lhs, rhs>>, r, min))
       ELSE Ok(lhs, rest)

Expression(rest, min) ==
    LET op == PrefixOperator(Peek(rest))
        lhs == IF op # "none" /\ PrefixPrecedence(op) >= min
               THEN Then(Expression(Tail(rest), PrefixPrecedence(op)), LAMBDA e, r : Ok(<<op, e>>, r))
               ELSE Atom(rest)
    IN Then(lhs, LAMBDA e, r :
       Then(PostfixOperators(e, r, min), LAMBDA f, q :
       Then(InfixOperators(f, q, min), LAMBDA g, p : PostfixOperators(g, p, min))))

-----------------------------------------------------------------------------
(* Clauses *)

IfPresent(rest, keyword) ==
    IF Peek(rest) # keyword THEN Ok(<<>>, rest)
    ELSE Then(Expression(Tail(rest), 0), LAMBDA e, r : Ok(<<e>>, r))

RECURSIVE Expressions(_, _)
Expressions(done, rest) ==
    Then(Expression(rest, 0), LAMBDA e, r :
        IF Peek(r) = "," THEN Expressions(Append(done, e), Tail(r)) ELSE Ok(Append(done, e), r))

Alias(rest) ==
    IF Peek(rest) = "AS" \/ Peek(rest) \in Idents
    THEN Then(NextIdent(Skip(rest, "AS")), LAMBDA a, r : Ok(<<a>>, r))
    ELSE Ok(<<>>, rest)

RECURSIVE SelectClause(_, _)
SelectClause(done, rest) ==
    Then(Expression(rest, 0), LAMBDA e, r :
        IF e = All /\ (Peek(r) = "AS" \/ Peek(r) \in Idents) THEN Fail(<<"CantAliasStar">>)
        ELSE Then(Alias(r), LAMBDA alias, q :
                IF Peek(q) = "," THEN SelectClause(Append(done, <<e, alias>>), Tail(q))
                ELSE Ok(Append(done, <<e, alias>>), q)))

FromTable(rest) ==
    Then(NextIdent(rest), LAMBDA name, r :
        Then(Alias(r), LAMBDA alias, q : Ok(<<"Table", name, alias>>, q)))

FromJoin(rest) ==
    LET Joined(type, r) == Then(ExpectNext(r, "JOIN"), LAMBDA t, q : Ok(<<type>>, q))
    IN CASE Peek(rest) = "JOIN" -> Ok(<<"Inner">>, Tail(rest))
         [] Peek(rest) = "CROSS" -> Joined("Cross", Tail(rest))
         [] Peek(rest) = "INNER" -> Joined("Inner", Tail(rest))
         [] Peek(rest) = "LEFT" -> Joined("Left", Skip(Tail(rest), "OUTER"))
         [] Peek(rest) = "RIGHT" -> Joined("Right", Skip(Tail(rest), "OUTER"))
         [] OTHER -> Ok(<<>>, rest)

RECURSIVE FromItem(_, _)
FromItem(item, rest) ==
    Then(FromJoin(rest), LAMBDA type, r :
        IF type = <<>> THEN Ok(item, r)
        ELSE Then(FromTable(r), LAMBDA right, q :
             Then(IF type[1] = "Cross" THEN Ok(<<>>, q)
                  ELSE Then(ExpectNext(q, "ON"), LAMBDA t, p :
                       Then(Expression(p, 0), LAMBDA e, o : Ok(<<e>>, o))),
                  LAMBDA predicate, n : FromItem(<<"Join", item, right, type[1], predicate>>, n))))

RECURSIVE FromClause(_, _)
FromClause(done, rest) ==
    Then(FromTable(rest), LAMBDA table, r :
        Then(FromItem(table, r), LAMBDA item, q :
            IF Peek(q) = "," THEN FromClause(Append(done, item), Tail(q))
            ELSE Ok(Append(done, item), q)))

GroupByClause(rest) ==
    IF Peek(rest) # "GROUP" THEN Ok(<<>>, rest)
    ELSE Then(ExpectNext(Tail(rest), "BY"), LAMBDA t, r : Expressions(<<>>, r))

RECURSIVE OrderList(_, _)
OrderList(done, rest) ==
    Then(Expression(rest, 0), LAMBDA e, r :
        LET order == <<e, IF Peek(r) = "DESC" THEN "Descending" ELSE "Ascending">>
            q == Skip(Skip(r, "ASC"), IF Peek(r) = "DESC" THEN "DESC" ELSE "")
        IN IF Peek(q) = "," THEN OrderList(Append(done, order), Tail(q))
           ELSE Ok(Append(done, order), q))

OrderByClause(rest) ==
    IF Peek(rest) # "ORDER" THEN Ok(<<>>, rest)
    ELSE Then(ExpectNext(Tail(rest), "BY"), LAMBDA t, r : OrderList(<<>>, r))

-----------------------------------------------------------------------------
(* Statements *)

SelectStatement(rest) ==
    Then(SelectClause(<<>>, rest), LAMBDA select, r1 :
    Then(IF Peek(r1) = "FROM" THEN FromClause(<<>>, Tail(r1)) ELSE Ok(<<>>, r1), LAMBDA from, r2 :
    Then(IfPresent(r2, "WHERE"), LAMBDA where, r3 :
    Then(GroupByClause(r3), LAMBDA group_by, r4 :
    Then(IfPresent(r4, "HAVING"), LAMBDA having, r5 :
    Then(OrderByClause(r5), LAMBDA order_by, r6 :
    Then(IfPresent(r6, "LIMIT"), LAMBDA limit, r7 :
    Then(IfPresent(r7, "OFFSET"), LAMBDA offset, r8 :
        Ok([type |-> "Select", select |-> select, from |-> from, where |-> where,
            group_by |-> group_by, having |-> having, order_by |-> order_by,
            offset |-> offset, limit |-> limit], r8)))))))))

ReadMode(rest) ==
    IF Peek(rest) # "READ" THEN Ok(FALSE, rest)
    ELSE Then(Next1(Tail(rest)), LAMBDA tok, r :
            IF tok \in {"ONLY", "WRITE"} THEN Ok(tok = "ONLY", r)
            ELSE Fail(<<"UnexpectedToken", tok>>))

AsOf(rest) ==
    IF Peek(rest) # "AS" THEN Ok(<<>>, rest)
    ELSE Then(ExpectNext(Tail(rest), "OF"), LAMBDA t, r :
         Then(ExpectNext(r, "SYSTEM"), LAMBDA u, q :
         Then(ExpectNext(q, "TIME"), LAMBDA v, p :
         Then(Next1(p), LAMBDA tok, o :
            CASE tok \in DOMAIN NumberDigits /\ ParseDigits(NumberDigits[tok]) # <<>> ->
                    Ok(ParseDigits(NumberDigits[tok]), o)
              [] tok \notin Numbers -> Fail(<<"WantedNumber", tok>>)
              [] OTHER -> Fail(<<"InvalidSystemTime", tok>>)))))

BeginStatement(rest) ==
    Then(ReadMode(Skip(rest, "TRANSACTION")), LAMBDA read_only, r :
        Then(AsOf(r), LAMBDA as_of, q :
            Ok([type |-> "Begin", read_only |-> read_only, as_of |-> as_of], q)))

DataType(tok) ==
    CASE tok \in {"BOOL", "BOOLEAN"} -> "Boolean" [] tok \in {"FLOAT", "DOUBLE"} -> "Float"
      [] tok \in {"INT", "INTEGER"} -> "Integer"
      [] tok \in {"STRING", "TEXT", "VARCHAR"} -> "String" [] OTHER -> "none"

RECURSIVE Constraints(_, _)
Constraints(col, rest) ==
    LET keyword == Peek(rest)
        r == Tail(rest)
        Nullable(b, q) == IF col.nullable # <<>> THEN Fail(<<"NullabilityAlreadySet", col.name>>)
                          ELSE Constraints([col EXCEPT !.nullable = <<b>>], q)
    IN CASE keyword \notin Keywords -> Ok(col, rest)
         [] keyword = "PRIMARY" -> Then(ExpectNext(r, "KEY"), LAMBDA t, q :
                                        Constraints([col EXCEPT !.primary_key = TRUE], q))
         [] keyword = "NULL" -> Nullable(TRUE, r)
         [] keyword = "NOT" -> Then(ExpectNext(r, "NULL"), LAMBDA t, q : Nullable(FALSE, q))
         [] keyword = "DEFAULT" -> Then(Expression(r, 0), LAMBDA e, q :
                                        Constraints([col EXCEPT !.default = <<e>>], q))
         [] keyword = "UNIQUE" -> Constraints([col EXCEPT !.unique = TRUE], r)
         [] keyword = "INDEX" -> Constraints([col EXCEPT !.index = TRUE], r)
         [] keyword = "REFERENCES" -> Then(NextIdent(r), LAMBDA t, q :
                                           Constraints([col EXCEPT !.references = <<t>>], q))
         [] OTHER -> Fail(<<"UnexpectedKeyword", keyword>>)

ColumnDefinition(rest) ==
    Then(NextIdent(rest), LAMBDA name, r :
    Then(Next1(r), LAMBDA tok, q :
        IF DataType(tok) = "none" THEN Fail(<<"UnexpectedToken", tok>>)
        ELSE Constraints([name |-> name, datatype |-> DataType(tok), primary_key |-> FALSE,
                          nullable |-> <<>>, default |-> <<>>, unique |-> FALSE,
                          index |-> FALSE, references |-> <<>>], q)))

RECURSIVE ColumnDefinitions(_, _)
ColumnDefinitions(done, rest) ==
    Then(ColumnDefinition(rest), LAMBDA col, r :
        IF Peek(r) = "," THEN ColumnDefinitions(Append(done, col), Tail(r))
        ELSE Ok(Append(done, col), r))

CreateStatement(rest) ==
    Then(ExpectNext(rest, "TABLE"), LAMBDA t, r :
    Then(NextIdent(r), LAMBDA name, q :
    Then(ExpectNext(q, "("), LAMBDA u, p :
    Then(ColumnDefinitions(<<>>, p), LAMBDA columns, o :
    Then(ExpectNext(o, ")"), LAMBDA v, n :
        Ok([type |-> "CreateTable", name |-> name, columns |-> columns], n))))))

DropStatement(rest) ==
    Then(ExpectNext(rest, "TABLE"), LAMBDA t, r :
    Then(IF Peek(r) = "IF" THEN ExpectNext(Tail(r), "EXISTS") ELSE Ok("", r), LAMBDA e, q :
    Then(NextIdent(q), LAMBDA name, p :
        Ok([type |-> "DropTable", name |-> name, if_exists |-> Peek(r) = "IF"], p))))

DeleteStatement(rest) ==
    Then(ExpectNext(rest, "FROM"), LAMBDA t, r :
    Then(NextIdent(r), LAMBDA table, q :
    Then(IfPresent(q, "WHERE"), LAMBDA where, p :
        Ok([type |-> "Delete", table |-> table, where |-> where], p))))

RECURSIVE Names(_, _), Rows(_, _), Sets(_, _)
Names(done, rest) ==
    Then(NextIdent(rest), LAMBDA name, r :
        IF Peek(r) = "," THEN Names(Append(done, name), Tail(r)) ELSE Ok(Append(done, name), r))

Rows(done, rest) ==
    Then(ExpectNext(rest, "("), LAMBDA t, r :
    Then(Expressions(<<>>, r), LAMBDA row, q :
    Then(ExpectNext(q, ")"), LAMBDA u, p :
        IF Peek(p) = "," THEN Rows(Append(done, row), Tail(p)) ELSE Ok(Append(done, row), p))))

InsertStatement(rest) ==
    Then(ExpectNext(rest, "INTO"), LAMBDA t, r :
    Then(NextIdent(r), LAMBDA table, q :
    Then(IF Peek(q) # "(" THEN Ok(<<>>, q)
         ELSE Then(Names(<<>>, Tail(q)), LAMBDA names, p :
              Then(ExpectNext(p, ")"), LAMBDA u, o : Ok(<<names>>, o))), LAMBDA columns, n :
    Then(ExpectNext(n, "VALUES"), LAMBDA v, m :
    Then(Rows(<<>>, m), LAMBDA values, k :
        Ok([type |-> "Insert", table |-> table, columns |-> columns, values |-> values], k))))))

Sets(set, rest) ==
    Then(NextIdent(rest), LAMBDA column, r :
    Then(ExpectNext(r, "="), LAMBDA t, q :
    Then(IF Peek(q) = "DEFAULT" THEN Ok(<<>>, Tail(q))
         ELSE Then(Expression(q, 0), LAMBDA e, p : Ok(<<e>>, p)), LAMBDA value, o :
        IF column \in DOMAIN set THEN Fail(<<"DuplicateColumn", column>>)
        ELSE LET next == set @@ (column :> value)
             IN IF Peek(o) = "," THEN Sets(next, Tail(o)) ELSE Ok(next, o))))

UpdateStatement(rest) ==
    Then(NextIdent(rest), LAMBDA table, r :
    Then(ExpectNext(r, "SET"), LAMBDA t, q :
    Then(Sets(<<>>, q), LAMBDA set, p :
    Then(IfPresent(p, "WHERE"), LAMBDA where, o :
        Ok([type |-> "Update", table |-> table, set |-> set, where |-> where], o)))))

RECURSIVE Statement(_)
Statement(rest) ==
    LET tok == Peek(rest)
    IN CASE rest = <<>> -> Fail(Eof)
         [] tok = "BEGIN" -> BeginStatement(Tail(rest))
         [] tok = "COMMIT" -> Ok([type |-> "Commit"], Tail(rest))
         [] tok = "ROLLBACK" -> Ok([type |-> "Rollback"], Tail(rest))
         [] tok = "EXPLAIN" ->
               IF Peek(Tail(rest)) = "EXPLAIN" THEN Fail(<<"NestedExplain">>)
               ELSE Then(Statement(Tail(rest)), LAMBDA stmt, r :
                        Ok([type |-> "Explain", statement |-> stmt], r))
         [] tok = "CREATE" -> CreateStatement(Tail(rest))
         [] tok = "DROP" -> DropStatement(Tail(rest))
         [] tok = "DELETE" -> DeleteStatement(Tail(rest))
         [] tok = "INSERT" -> InsertStatement(Tail(rest))
         [] tok = "SELECT" -> SelectStatement(Tail(rest))
         [] tok = "UPDATE" -> UpdateStatement(Tail(rest))
         [] OTHER -> Fail(<<"UnexpectedToken", tok>>)

ParseLegacy(s) ==
    Then(Statement(s), LAMBDA stmt, r :
        LET left == Skip(r, ";")
        IN IF left = <<>> THEN Ok(stmt, 0) ELSE Fail(<<"UnexpectedToken", Head(left)>>))
=============================================================================
