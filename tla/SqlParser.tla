------------------------------ MODULE SqlParser ------------------------------
(***************************************************************************)
(* The statement parser that the server uses                               *)
(* (sql/parser/verified_control.rs, Parser::parse in parser.rs), one       *)
(* operator per parsing function or per clause of a long one.              *)
(***************************************************************************)
EXTENDS SqlExpressionParser, TLC

ParseClauseExpr(s, pos) == ParseExpressionAt(s, pos, 0, 2 * (Len(s) + 1 - pos) + 3)

(* A keyword and an expression, or nothing. *)
OptionalClause(s, pos, keyword) ==
    IF At(s, pos) = keyword
    THEN Then(ParseClauseExpr(s, pos + 1), LAMBDA e, p : Ok(<<e>>, p))
    ELSE Ok(<<>>, pos)

(* [AS] alias *)
ParseAlias(s, pos) ==
    CASE At(s, pos) = "AS" -> Then(ExpectIdent(s, pos + 1), LAMBDA a, p : Ok(<<a>>, p))
      [] At(s, pos) \in Idents -> Ok(<<s[pos]>>, pos + 1)
      [] OTHER -> Ok(<<>>, pos)

RECURSIVE ExprList(_, _, _)
ExprList(s, done, pos) ==
    Then(ParseClauseExpr(s, pos), LAMBDA e, p :
        IF At(s, p) = "," THEN ExprList(s, Append(done, e), p + 1)
        ELSE Ok(Append(done, e), p))

-----------------------------------------------------------------------------
(* SELECT *)

SelectItem(s, pos) ==
    Then(ParseClauseExpr(s, pos), LAMBDA e, p :
        IF e = All /\ (At(s, p) = "AS" \/ At(s, p) \in Idents) THEN Fail(<<"CantAliasStar">>)
        ELSE Then(ParseAlias(s, p), LAMBDA alias, q : Ok(<<e, alias>>, q)))

RECURSIVE SelectItems(_, _, _)
SelectItems(s, done, pos) ==
    Then(SelectItem(s, pos), LAMBDA item, p :
        IF At(s, p) = "," THEN SelectItems(s, Append(done, item), p + 1)
        ELSE Ok(Append(done, item), p))

ParseFromTable(s, pos) ==
    Then(ExpectIdent(s, pos), LAMBDA name, p :
        Then(ParseAlias(s, p), LAMBDA alias, q : Ok(<<"Table", name, alias>>, q)))

\* Mutant of ParseJoinType: OUTER may not be left out.
ParseJoinTypeOuter(s, pos) ==
    LET Joined(type, p) == Then(Expect(s, p, "JOIN"), LAMBDA t, q : Ok(type, q))
        Outer(type) == Then(Expect(s, pos + 1, "OUTER"), LAMBDA t, p : Joined(type, p))
    IN CASE At(s, pos) = "JOIN" -> Ok("Inner", pos + 1)
         [] At(s, pos) = "CROSS" -> Joined("Cross", pos + 1)
         [] At(s, pos) = "INNER" -> Joined("Inner", pos + 1)
         [] At(s, pos) = "LEFT" -> Outer("Left")
         [] At(s, pos) = "RIGHT" -> Outer("Right")
         [] OTHER -> Ok("none", pos)

(* JOIN, CROSS JOIN, INNER JOIN, and LEFT or RIGHT [OUTER] JOIN; no join   *)
(* is the type "none".                                                     *)
ParseJoinType(s, pos) ==
    LET outer == IF At(s, pos + 1) = "OUTER" THEN pos + 2 ELSE pos + 1
        Joined(type, p) == Then(Expect(s, p, "JOIN"), LAMBDA t, q : Ok(type, q))
    IN CASE At(s, pos) = "JOIN" -> Ok("Inner", pos + 1)
         [] At(s, pos) = "CROSS" -> Joined("Cross", pos + 1)
         [] At(s, pos) = "INNER" -> Joined("Inner", pos + 1)
         [] At(s, pos) = "LEFT" -> Joined("Left", outer)
         [] At(s, pos) = "RIGHT" -> Joined("Right", outer)
         [] OTHER -> Ok("none", pos)

ParseJoinPredicate(s, type, pos) ==
    IF type = "Cross" THEN Ok(<<>>, pos)
    ELSE Then(Expect(s, pos, "ON"), LAMBDA t, p :
            Then(ParseClauseExpr(s, p), LAMBDA e, q : Ok(<<e>>, q)))

(* Joins associate to the left. *)
RECURSIVE FromJoins(_, _, _)
FromJoins(s, left, pos) ==
    Then(ParseJoinType(s, pos), LAMBDA type, p :
        IF type = "none" THEN Ok(left, pos)
        ELSE Then(ParseFromTable(s, p), LAMBDA right, q :
                Then(ParseJoinPredicate(s, type, q), LAMBDA predicate, r :
                    FromJoins(s, <<"Join", left, right, type, predicate>>, r))))

RECURSIVE FromItems(_, _, _)
FromItems(s, done, pos) ==
    Then(ParseFromTable(s, pos), LAMBDA table, p :
        Then(FromJoins(s, table, p), LAMBDA item, q :
            IF At(s, q) = "," THEN FromItems(s, Append(done, item), q + 1)
            ELSE Ok(Append(done, item), q)))

ParseFromClause(s, pos) ==
    IF At(s, pos) = "FROM" THEN FromItems(s, <<>>, pos + 1) ELSE Ok(<<>>, pos)

ParseGroupBy(s, pos) ==
    IF At(s, pos) = "GROUP"
    THEN Then(Expect(s, pos + 1, "BY"), LAMBDA t, p : ExprList(s, <<>>, p))
    ELSE Ok(<<>>, pos)

RECURSIVE OrderItems(_, _, _)
OrderItems(s, done, pos) ==
    Then(ParseClauseExpr(s, pos), LAMBDA e, p :
        LET item == <<e, IF At(s, p) = "DESC" THEN "Descending" ELSE "Ascending">>
            q == IF At(s, p) \in {"ASC", "DESC"} THEN p + 1 ELSE p
        IN IF At(s, q) = "," THEN OrderItems(s, Append(done, item), q + 1)
           ELSE Ok(Append(done, item), q))

ParseOrderBy(s, pos) ==
    IF At(s, pos) = "ORDER"
    THEN Then(Expect(s, pos + 1, "BY"), LAMBDA t, p : OrderItems(s, <<>>, p))
    ELSE Ok(<<>>, pos)

ParseHaving(s, pos) == OptionalClause(s, pos, "HAVING")
ParseLimit(s, pos) == OptionalClause(s, pos, "LIMIT")
ParseOffset(s, pos) == OptionalClause(s, pos, "OFFSET")
ParseWhere(s, pos) == OptionalClause(s, pos, "WHERE")

(* The clauses after the select list and FROM, in the only order they may  *)
(* come in.                                                                *)
ParseSelectTail(s, select, from, pos) ==
    Then(ParseWhere(s, pos), LAMBDA where, p1 :
    Then(ParseGroupBy(s, p1), LAMBDA group, p2 :
    Then(ParseHaving(s, p2), LAMBDA having, p3 :
    Then(ParseOrderBy(s, p3), LAMBDA order, p4 :
    Then(ParseLimit(s, p4), LAMBDA limit, p5 :
    Then(ParseOffset(s, p5), LAMBDA offset, p6 :
        Ok([type |-> "Select", select |-> select, from |-> from,
            where |-> where, group_by |-> group, having |-> having,
            order_by |-> order, offset |-> offset, limit |-> limit], p6)))))))

ParseSelect(s, pos) ==
    Then(SelectItems(s, <<>>, pos), LAMBDA select, p :
        Then(ParseFromClause(s, p), LAMBDA from, q : ParseSelectTail(s, select, from, q)))

-----------------------------------------------------------------------------
(* CREATE TABLE and DROP TABLE *)

DataTypeOf(tok) ==
    CASE tok \in {"BOOL", "BOOLEAN"} -> "Boolean" [] tok \in {"FLOAT", "DOUBLE"} -> "Float"
      [] tok \in {"INT", "INTEGER"} -> "Integer"
      [] tok \in {"STRING", "TEXT", "VARCHAR"} -> "String" [] OTHER -> "none"

SetNullable(col, nullable, pos) ==
    IF col.nullable # <<>> THEN Fail(<<"NullabilityAlreadySet", col.name>>)
    ELSE Ok([col EXCEPT !.nullable = <<nullable>>], pos)

(* One column constraint, beginning with the keyword at pos. *)
ParseConstraint(s, col, pos) ==
    CASE s[pos] = "PRIMARY" -> Then(Expect(s, pos + 1, "KEY"), LAMBDA t, p :
                                    Ok([col EXCEPT !.primary_key = TRUE], p))
      [] s[pos] = "NULL" -> SetNullable(col, TRUE, pos + 1)
      [] s[pos] = "NOT" -> Then(Expect(s, pos + 1, "NULL"), LAMBDA t, p :
                                SetNullable(col, FALSE, p))
      [] s[pos] = "DEFAULT" -> Then(ParseClauseExpr(s, pos + 1), LAMBDA e, p :
                                    Ok([col EXCEPT !.default = <<e>>], p))
      [] s[pos] = "UNIQUE" -> Ok([col EXCEPT !.unique = TRUE], pos + 1)
      [] s[pos] = "INDEX" -> Ok([col EXCEPT !.index = TRUE], pos + 1)
      [] s[pos] = "REFERENCES" -> Then(ExpectIdent(s, pos + 1), LAMBDA t, p :
                                       Ok([col EXCEPT !.references = <<t>>], p))
      [] OTHER -> Fail(<<"UnexpectedKeyword", s[pos]>>)

RECURSIVE ColumnConstraints(_, _, _)
ColumnConstraints(s, col, pos) ==
    IF At(s, pos) \in Keywords
    THEN Then(ParseConstraint(s, col, pos), LAMBDA c, p : ColumnConstraints(s, c, p))
    ELSE Ok(col, pos)

ParseCreateColumn(s, pos) ==
    Then(ExpectIdent(s, pos), LAMBDA name, p :
        CASE AtEnd(s, p) -> Fail(Eof)
          [] DataTypeOf(At(s, p)) = "none" -> Fail(<<"UnexpectedToken", At(s, p)>>)
          [] OTHER -> ColumnConstraints(s,
                [name |-> name, datatype |-> DataTypeOf(s[p]), primary_key |-> FALSE,
                 nullable |-> <<>>, default |-> <<>>, unique |-> FALSE,
                 index |-> FALSE, references |-> <<>>], p + 1))

RECURSIVE CreateColumns(_, _, _)
CreateColumns(s, done, pos) ==
    Then(ParseCreateColumn(s, pos), LAMBDA col, p :
        IF At(s, p) = "," THEN CreateColumns(s, Append(done, col), p + 1)
        ELSE Ok(Append(done, col), p))

ParseCreate(s, pos) ==
    Then(Expect(s, pos, "TABLE"), LAMBDA t, p :
    Then(ExpectIdent(s, p), LAMBDA name, q :
    Then(Expect(s, q, "("), LAMBDA u, r :
    Then(CreateColumns(s, <<>>, r), LAMBDA columns, v :
    Then(Expect(s, v, ")"), LAMBDA w, x :
        Ok([type |-> "CreateTable", name |-> name, columns |-> columns], x))))))

ParseDrop(s, pos) ==
    Then(Expect(s, pos, "TABLE"), LAMBDA t, p :
    Then(IF At(s, p) = "IF" THEN Expect(s, p + 1, "EXISTS") ELSE Ok("", p), LAMBDA e, q :
    Then(ExpectIdent(s, q), LAMBDA name, r :
        Ok([type |-> "DropTable", name |-> name, if_exists |-> e = "EXISTS"], r))))

-----------------------------------------------------------------------------
(* UPDATE, INSERT and DELETE *)

ParseAssignedColumn(s, pos) ==
    Then(ExpectIdent(s, pos), LAMBDA column, p :
    Then(Expect(s, p, "="), LAMBDA t, q : Ok(column, q)))

ParseAssignedValue(s, pos) ==
    IF At(s, pos) = "DEFAULT" THEN Ok(<<>>, pos + 1)
    ELSE Then(ParseClauseExpr(s, pos), LAMBDA e, p : Ok(<<e>>, p))

(* Assignments to distinct columns; the value is parsed before a repeated  *)
(* column is noticed.                                                      *)
RECURSIVE Assignments(_, _, _)
Assignments(s, set, pos) ==
    Then(ParseAssignedColumn(s, pos), LAMBDA column, p :
    Then(ParseAssignedValue(s, p), LAMBDA value, q :
        LET assigned == set @@ (column :> value)
        IN CASE column \in DOMAIN set -> Fail(<<"DuplicateColumn", column>>)
             [] column \notin DOMAIN set /\ At(s, q) = "," -> Assignments(s, assigned, q + 1)
             [] OTHER -> Ok(assigned, q)))

ParseUpdate(s, pos) ==
    Then(ExpectIdent(s, pos), LAMBDA table, p :
    Then(Expect(s, p, "SET"), LAMBDA t, q :
    Then(Assignments(s, <<>>, q), LAMBDA set, r :
    Then(ParseWhere(s, r), LAMBDA where, u :
        Ok([type |-> "Update", table |-> table, set |-> set, where |-> where], u)))))

RECURSIVE InsertColumns(_, _, _)
InsertColumns(s, done, pos) ==
    Then(ExpectIdent(s, pos), LAMBDA name, p :
        IF At(s, p) = "," THEN InsertColumns(s, Append(done, name), p + 1)
        ELSE Then(Expect(s, p, ")"), LAMBDA t, q : Ok(<<Append(done, name)>>, q)))

InsertRow(s, pos) ==
    Then(Expect(s, pos, "("), LAMBDA t, p :
    Then(ExprList(s, <<>>, p), LAMBDA row, q :
    Then(Expect(s, q, ")"), LAMBDA u, r : Ok(row, r))))

RECURSIVE InsertRows(_, _, _)
InsertRows(s, done, pos) ==
    Then(InsertRow(s, pos), LAMBDA row, p :
        IF At(s, p) = "," THEN InsertRows(s, Append(done, row), p + 1)
        ELSE Ok(Append(done, row), p))

ParseInsert(s, pos) ==
    Then(Expect(s, pos, "INTO"), LAMBDA t, p :
    Then(ExpectIdent(s, p), LAMBDA table, q :
    Then(IF At(s, q) = "(" THEN InsertColumns(s, <<>>, q + 1) ELSE Ok(<<>>, q), LAMBDA columns, r :
    Then(Expect(s, r, "VALUES"), LAMBDA u, v :
    Then(InsertRows(s, <<>>, v), LAMBDA values, w :
        Ok([type |-> "Insert", table |-> table, columns |-> columns, values |-> values], w))))))

ParseDelete(s, pos) ==
    Then(Expect(s, pos, "FROM"), LAMBDA t, p :
    Then(ExpectIdent(s, p), LAMBDA table, q :
    Then(ParseWhere(s, q), LAMBDA where, r :
        Ok([type |-> "Delete", table |-> table, where |-> where], r))))

-----------------------------------------------------------------------------
(* BEGIN, EXPLAIN and the statement as a whole *)

ParseReadMode(s, pos) ==
    CASE At(s, pos) # "READ" -> Ok(FALSE, pos)
      [] At(s, pos) = "READ" /\ At(s, pos + 1) \in {"ONLY", "WRITE"} ->
            Ok(At(s, pos + 1) = "ONLY", pos + 2)
      [] OTHER -> Fail(IF AtEnd(s, pos + 1) THEN Eof ELSE <<"UnexpectedToken", s[pos + 1]>>)

Version(tok) == IF tok \in DOMAIN NumberDigits THEN ParseDigits(NumberDigits[tok]) ELSE <<>>

(* AS OF SYSTEM TIME version *)
ParseAsOf(s, pos) ==
    IF At(s, pos) # "AS" THEN Ok(<<>>, pos)
    ELSE Then(Expect(s, pos + 1, "OF"), LAMBDA t, p :
         Then(Expect(s, p, "SYSTEM"), LAMBDA u, q :
         Then(Expect(s, q, "TIME"), LAMBDA v, r :
            CASE AtEnd(s, r) -> Fail(Eof)
              [] At(s, r) \in Numbers /\ Version(At(s, r)) # <<>> -> Ok(Version(s[r]), r + 1)
              [] At(s, r) \in Numbers /\ Version(At(s, r)) = <<>> ->
                    Fail(<<"InvalidSystemTime", s[r]>>)
              [] OTHER -> Fail(<<"WantedNumber", s[r]>>))))

ParseBegin(s, pos) ==
    Then(ParseReadMode(s, IF At(s, pos) = "TRANSACTION" THEN pos + 1 ELSE pos),
         LAMBDA read_only, p : Then(ParseAsOf(s, p), LAMBDA as_of, q :
            Ok([type |-> "Begin", read_only |-> read_only, as_of |-> as_of], q)))

RECURSIVE ParseControl(_, _)
ParseExplain(s, pos) ==
    IF At(s, pos) = "EXPLAIN" THEN Fail(<<"NestedExplain">>)
    ELSE Then(ParseControl(s, pos), LAMBDA stmt, p :
            Ok([type |-> "Explain", statement |-> stmt], p))

ParseControl(s, pos) ==
    LET tok == At(s, pos)
    IN CASE AtEnd(s, pos) -> Fail(Eof)
         [] tok = "COMMIT" -> Ok([type |-> "Commit"], pos + 1)
         [] tok = "ROLLBACK" -> Ok([type |-> "Rollback"], pos + 1)
         [] tok = "BEGIN" -> ParseBegin(s, pos + 1)
         [] tok = "DROP" -> ParseDrop(s, pos + 1)
         [] tok = "DELETE" -> ParseDelete(s, pos + 1)
         [] tok = "INSERT" -> ParseInsert(s, pos + 1)
         [] tok = "UPDATE" -> ParseUpdate(s, pos + 1)
         [] tok = "CREATE" -> ParseCreate(s, pos + 1)
         [] tok = "SELECT" -> ParseSelect(s, pos + 1)
         [] tok = "EXPLAIN" -> ParseExplain(s, pos + 1)
         [] OTHER -> Fail(<<"UnexpectedToken", tok>>)
=============================================================================
