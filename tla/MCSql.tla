------------------------------- MODULE MCSql -------------------------------
(***************************************************************************)
(* Statements and databases for the SQL layer.  ExpressionSeeds mix every  *)
(* precedence level, StatementSeeds have every kind of statement and       *)
(* clause, and QuerySeeds are statements the planner can plan, which run   *)
(* on two small tables, either of which may be empty.                      *)
(***************************************************************************)
EXTENDS SqlQueries

MCIdentOrder == <<"a", "avg", "b", "count", "max", "min", "s", "sum", "t", "u">>
MCStringOrder == <<"'x'", "'y'">>
MCNumberDigits == ("0" :> <<0>>) @@ ("1" :> <<1>>) @@ ("01" :> <<0, 1>>)
    @@ ("19" :> <<1, 9>>) @@ ("20" :> <<2, 0>>) @@ ("40" :> <<4, 0>>)
MCFloatValue == ("1.5" :> <<3, 2>>) @@ ("1e999" :> <<1, 0>>) @@ ("1e" :> <<>>)
MCLikeMatches == {<<"'x'", "'x'">>}

Col(name, datatype, default, index) ==
    [name |-> name, datatype |-> datatype, nullable |-> TRUE, default |-> default,
     unique |-> FALSE, index |-> index, references |-> <<>>]

Table(name, columns) == [name |-> name, primary_key |-> 0, columns |-> columns]

MCCatalog ==
    "t" :> Table("t", <<Col("a", "Integer", <<>>, FALSE), Col("b", "Integer", <<Null>>, TRUE)>>) @@
    "u" :> Table("u", <<Col("b", "Integer", <<>>, FALSE), Col("a", "Float", <<Null>>, FALSE),
                        Col("s", "String", <<Null>>, TRUE)>>)

TRows == <<<<Integer(0), Integer(1)>>, <<Integer(1), Null>>, <<Integer(2), Integer(1)>>>>
URows == <<<<Integer(0), Null, <<"String", "'y'">>>>,
           <<Integer(1), Float(3, 2), <<"String", "'x'">>>>,
           <<Integer(2), NaN, Null>>>>

MCDatabases == {"t" :> t @@ "u" :> u : t \in {TRows, <<>>}, u \in {URows, <<>>}}

Expr(e) == [toks |-> <<"SELECT">> \o e, edits |-> 1]
Stmt(s) == [toks |-> s, edits |-> 1]

ExpressionSeeds == {
    Expr(<<"a", "OR", "b", "AND", "NOT", "a", "=", "b", "<", "a", "+", "b", "*", "-", "a", "^",
           "b", "!">>),
    Expr(<<"a", "^", "b", "^", "(", "a", "-", "b", "-", "1", ")", "!", "IS", "NOT", "NULL">>),
    Expr(<<"NOT", "count", "(", "*", ",", "t", ".", "a", ",", "1.5", ")", "IS", "NAN", "LIKE",
           "'x'">>),
    Expr(<<"a", "^", "1", "+", "a", "^", "1", "+", "a", "^", "1", "+", "a", "^", "1", "+", "a",
           "^", "1">>),
    Expr(<<"(", "NOT", "a", ")", "=", "-", "(", "b", "-", "(", "a", "-", "1", ")", ")", "IS",
           "NULL">>),
    Expr(<<"(", "(", "1", "/", "-", "19", ")", "%", "TRUE", ")", ">=", "INFINITY">>)}

StatementSeeds == {
    Stmt(<<"SELECT", "a", "AS", "b", ",", "t", ".", "a", "u", "FROM", "t", "AS", "u", "LEFT",
           "OUTER", "JOIN", "u", "ON", "a", "CROSS", "JOIN", "t", "b", ",", "u", "WHERE", "a",
           ";">>),
    Stmt(<<"SELECT", "*", "FROM", "t", "RIGHT", "JOIN", "u", "ON", "1", "INNER", "JOIN", "a",
           "ON", "b", "GROUP", "BY", "a", ",", "b", "HAVING", "a", "ORDER", "BY", "a", "DESC",
           ",", "b", "LIMIT", "1", "OFFSET", "0">>),
    Stmt(<<"UPDATE", "t", "SET", "b", "=", "DEFAULT", ",", "a", "=", "a", "+", "1", "WHERE",
           "a", "=", "b">>),
    Stmt(<<"CREATE", "TABLE", "t", "(", "a", "INT", "PRIMARY", "KEY", "NOT", "NULL", ",", "b",
           "TEXT", "DEFAULT", "-", "1", "NULL", "UNIQUE", "INDEX", "REFERENCES", "u", ")">>),
    Stmt(<<"DROP", "TABLE", "IF", "EXISTS", "t", ";">>),
    Stmt(<<"BEGIN", "TRANSACTION", "READ", "ONLY", "AS", "OF", "SYSTEM", "TIME", "20">>),
    Stmt(<<"EXPLAIN", "DELETE", "FROM", "t", "WHERE", "a", "IS", "NOT", "NULL">>),
    Stmt(<<"COMMIT">>),
    Stmt(<<"ROLLBACK", ";">>)}

QuerySeeds == {
    Stmt(<<"SELECT", "a", ",", "sum", "(", "b", ")", "AS", "u", "FROM", "t", "WHERE", "b", "=",
           "1", "OR", "b", "IS", "NULL", "GROUP", "BY", "a", "HAVING", "count", "(", "*", ")",
           ">", "0", "ORDER", "BY", "u", "DESC">>),
    Stmt(<<"SELECT", "t", ".", "a", ",", "u", ".", "a", "FROM", "t", "JOIN", "u", "ON", "t",
           ".", "b", "=", "u", ".", "b", "AND", "u", ".", "b", "=", "1", "WHERE", "t", ".",
           "a", ">=", "0">>),
    Stmt(<<"SELECT", "*", "FROM", "t", "LEFT", "JOIN", "u", "ON", "t", ".", "b", "=", "u", ".",
           "b", "ORDER", "BY", "u", ".", "a", ",", "t", ".", "a", "DESC">>),
    Stmt(<<"SELECT", "u", ".", "b", "AS", "a", "FROM", "t", "RIGHT", "JOIN", "u", "ON", "u",
           ".", "b", "=", "t", ".", "b", "WHERE", "NOT", "(", "t", ".", "a", "=", "0", "AND",
           "u", ".", "a", "IS", "NAN", ")">>),
    Stmt(<<"SELECT", "b", "FROM", "t", "ORDER", "BY", "a", "DESC", "LIMIT", "1", "OFFSET",
           "1">>),
    Stmt(<<"SELECT", "b", "FROM", "u", "WHERE", "s", "LIKE", "'x'", "AND", "NOT", "(", "a",
           "IS", "NAN", "OR", "b", "=", "0", ")">>),
    Stmt(<<"DELETE", "FROM", "t", "WHERE", "a", "=", "1", "OR", "a", "=", "0">>),
    Stmt(<<"UPDATE", "t", "SET", "b", "=", "a", ",", "a", "=", "a", "+", "1", "WHERE", "NOT",
           "b", "<>", "1">>),
    Stmt(<<"INSERT", "INTO", "t", "(", "b", ",", "a", ")", "VALUES", "(", "1", ",", "0", ")",
           ",", "(", "NULL", ",", "19", ")">>),
    Stmt(<<"SELECT", "count", "(", "u", ".", "a", ")", ",", "max", "(", "u", ".", "a", ")",
           ",", "avg", "(", "t", ".", "b", ")", "FROM", "u", ",", "t", "WHERE", "t", ".", "a",
           "=", "u", ".", "b">>),
    Stmt(<<"SELECT", "*", "FROM", "t", "JOIN", "u", "ON", "t", ".", "a", "=", "u", ".", "b",
           "JOIN", "t", "AS", "a", "ON", "a", ".", "a", "=", "u", ".", "b", "AND", "a", ".",
           "b", "=", "1">>)}

MCSeeds == ExpressionSeeds \union StatementSeeds \union QuerySeeds

\* An outer join with a condition on its left table alone.
OuterJoinSeeds == {
    Stmt(<<"SELECT", "t", ".", "a", ",", "u", ".", "b", "FROM", "t", "LEFT", "JOIN", "u", "ON",
           "t", ".", "b", "=", "u", ".", "b", "AND", "t", ".", "a", "=", "0">>)}

MCAlphabet == {"a", "t", "'x'", "01", "40", "1e", "1e999", "(", ")", ",", ".", ";", "+", "-", "*",
    "^", "!", "=", "<>", ">=", "NOT", "IS", "AND", "NULL", "NAN", "TRUE", "AS", "FROM", "JOIN",
    "OUTER", "LEFT", "ON", "WHERE", "GROUP", "BY", "ASC", "DESC", "LIMIT", "OFFSET", "SELECT",
    "EXPLAIN", "VALUES", "DEFAULT", "UNIQUE", "KEY", "WRITE", "READ"}
=============================================================================
