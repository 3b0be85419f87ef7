----------------------------- MODULE SqlPrinter -----------------------------
(***************************************************************************)
(* The minimal-parentheses printers of expressions                         *)
(* (sql/parser/verified_minparen.rs) and statements                        *)
(* (verified_minparen_stmt.rs), and the trees they can print.              *)
(***************************************************************************)
EXTENDS SqlSyntax

FiniteFloats == {FloatValue[t] : t \in DOMAIN FloatValue} \ {<<>>, <<1, 0>>}

(* No token stands for a negative number, an infinity or a NaN. *)
PrintableLiteral(l) ==
    CASE l[1] = "Integer" -> l[2] >= 0 [] l[1] = "Float" -> l[2] \in FiniteFloats
      [] OTHER -> TRUE

RECURSIVE Printable(_)
Printable(e) ==
    CASE e[1] = "Literal" -> PrintableLiteral(e[2])
      [] e[1] \in UnaryOps \union {"Is"} -> Printable(e[2])
      [] e[1] \in BinaryOps -> Printable(e[2]) /\ Printable(e[3])
      [] e[1] = "Function" -> \A i \in DOMAIN e[3] : Printable(e[3][i])
      [] OTHER -> TRUE

AllPrintable(exprs) == \A i \in DOMAIN exprs : Printable(exprs[i])

PrintNumber(n) == CHOOSE t \in DOMAIN NumberDigits : NumberDigits[t] = PrintU64(n)

PrintLiteral(l) ==
    CASE l = Null -> "NULL" [] l[1] = "String" -> l[2]
      [] l[1] = "Boolean" -> IF l[2] THEN "TRUE" ELSE "FALSE"
      [] l[1] = "Integer" -> PrintNumber(l[2])
      [] l[1] = "Float" -> CHOOSE t \in DOMAIN FloatValue : FloatValue[t] = l[2]

BinaryToken(op) ==
    CASE op = "And" -> "AND" [] op = "Or" -> "OR" [] op = "Like" -> "LIKE"
      [] op = "Equal" -> "=" [] op = "NotEqual" -> "!="
      [] op = "GreaterThan" -> ">" [] op = "GreaterThanOrEqual" -> ">="
      [] op = "LessThan" -> "<" [] op = "LessThanOrEqual" -> "<="
      [] op = "Add" -> "+" [] op = "Subtract" -> "-" [] op = "Multiply" -> "*"
      [] op = "Divide" -> "/" [] op = "Remainder" -> "%" [] op = "Exponentiate" -> "^"

PrefixToken(op) == CASE op = "Not" -> "NOT" [] op = "Identity" -> "+" [] op = "Negate" -> "-"

(* How tightly the outermost operator binds; an atom binds tightest. *)
PrecMin(e) ==
    CASE e[1] \in BinaryOps -> BinaryPrec(e[1])
      [] e[1] \in {"Not", "Identity", "Negate"} -> PrefixPrec(e[1])
      [] e[1] = "Factorial" -> FactorialPrec
      [] e[1] = "Is" -> IsPrec
      [] OTHER -> 11

(* The loosest operator that may stand on either side without parentheses. *)
LeftContext(op) == BinaryPrec(op) + (IF op = "Exponentiate" THEN 1 ELSE 0)

\* Mutant: the right operand may bind as loosely as the operator itself.
RightContextLoose(op) == BinaryPrec(op)
RightContext(op) == BinaryPrec(op) + BinaryAssoc(op)

Wrap(toks) == <<"(">> \o toks \o <<")">>

Commas(parts) ==
    FoldLeft(LAMBDA acc, p : IF acc = <<>> THEN p ELSE acc \o <<",">> \o p, <<>>, parts)

RECURSIVE PrintMinAt(_, _)
PrintMinAtom(e) ==
    CASE e = All -> <<"*">>
      [] e[1] = "Column" -> IF e[2] = <<>> THEN <<e[3]>> ELSE <<e[2][1], ".", e[3]>>
      [] e[1] = "Literal" -> <<PrintLiteral(e[2])>>
      [] e[1] = "Function" ->
            <<e[2]>> \o Wrap(Commas([i \in DOMAIN e[3] |-> PrintMinAt(e[3][i], 0)]))

PrintMinBody(e) ==
    CASE e[1] \in BinaryOps -> PrintMinAt(e[2], LeftContext(e[1])) \o <<BinaryToken(e[1])>>
                               \o PrintMinAt(e[3], RightContext(e[1]))
      [] e[1] \in {"Not", "Identity", "Negate"} ->
            <<PrefixToken(e[1])>> \o PrintMinAt(e[2], PrefixPrec(e[1]))
      [] e[1] = "Factorial" -> PrintMinAt(e[2], 10) \o <<"!">>
      [] e[1] = "Is" -> PrintMinAt(e[2], 10) \o <<"IS", IF e[3] = Null THEN "NULL" ELSE "NAN">>
      [] OTHER -> PrintMinAtom(e)

PrintMinAt(e, context) ==
    IF PrecMin(e) < context THEN Wrap(PrintMinBody(e)) ELSE PrintMinBody(e)

PrintMin(e) == PrintMinAt(e, 0)

-----------------------------------------------------------------------------
(* Statements *)

PrintableFrom(f) ==
    LET RECURSIVE P(_)
        P(g) == g[1] = "Join" =>
            /\ P(g[2])
            /\ g[3][1] = "Table"
            /\ IF g[4] = "Cross" THEN g[5] = <<>> ELSE g[5] # <<>> /\ AllPrintable(g[5])
    IN P(f)

PrintableSelect(s) ==
    /\ s.select # <<>>
    /\ \A i \in DOMAIN s.select :
          Printable(s.select[i][1]) /\ (s.select[i][2] # <<>> => s.select[i][1] # All)
    /\ \A i \in DOMAIN s.from : PrintableFrom(s.from[i])
    /\ \A i \in DOMAIN s.order_by : Printable(s.order_by[i][1])
    /\ AllPrintable(s.where \o s.group_by \o s.having \o s.limit \o s.offset)

RECURSIVE PrintableStmt(_)
PrintableStmt(s) ==
    CASE s.type = "CreateTable" ->
            s.columns # <<>> /\ \A i \in DOMAIN s.columns : AllPrintable(s.columns[i].default)
      [] s.type = "Delete" -> AllPrintable(s.where)
      [] s.type = "Insert" ->
            /\ s.columns # <<<<>>>> /\ s.values # <<>>
            /\ \A i \in DOMAIN s.values : s.values[i] # <<>> /\ AllPrintable(s.values[i])
      [] s.type = "Update" ->
            /\ DOMAIN s.set # {} /\ \A c \in DOMAIN s.set : AllPrintable(s.set[c])
            /\ AllPrintable(s.where)
      [] s.type = "Select" -> PrintableSelect(s)
      [] s.type = "Explain" -> s.statement.type # "Explain" /\ PrintableStmt(s.statement)
      [] OTHER -> TRUE

PrintExprs(exprs) == Commas([i \in DOMAIN exprs |-> PrintMin(exprs[i])])

PrintAlias(alias) == IF alias = <<>> THEN <<>> ELSE <<"AS", alias[1]>>

PrintSelectItems(items) ==
    Commas([i \in DOMAIN items |-> PrintMin(items[i][1]) \o PrintAlias(items[i][2])])

PrintOrderItems(items) ==
    Commas([i \in DOMAIN items |->
        Append(PrintMin(items[i][1]), IF items[i][2] = "Ascending" THEN "ASC" ELSE "DESC")])

PrintIdents(names) == Commas([i \in DOMAIN names |-> <<names[i]>>])
PrintRows(rows) == Commas([i \in DOMAIN rows |-> Wrap(PrintExprs(rows[i]))])

PrintColumn(c) ==
    <<c.name, CASE c.datatype = "Boolean" -> "BOOLEAN" [] c.datatype = "Integer" -> "INTEGER"
                [] c.datatype = "Float" -> "FLOAT" [] c.datatype = "String" -> "STRING">>
    \o (IF c.primary_key THEN <<"PRIMARY", "KEY">> ELSE <<>>)
    \o (CASE c.nullable = <<>> -> <<>> [] c.nullable = <<TRUE>> -> <<"NULL">>
          [] c.nullable = <<FALSE>> -> <<"NOT", "NULL">>)
    \o (IF c.unique THEN <<"UNIQUE">> ELSE <<>>)
    \o (IF c.index THEN <<"INDEX">> ELSE <<>>)
    \o (IF c.references = <<>> THEN <<>> ELSE <<"REFERENCES", c.references[1]>>)
    \o (IF c.default = <<>> THEN <<>> ELSE <<"DEFAULT">> \o PrintMin(c.default[1]))

PrintColumns(cols) == Commas([i \in DOMAIN cols |-> PrintColumn(cols[i])])

RECURSIVE PrintFromItem(_)
PrintFromItem(f) ==
    IF f[1] = "Table" THEN <<f[2]>> \o PrintAlias(f[3])
    ELSE PrintFromItem(f[2])
         \o (IF f[4] = "Inner" THEN <<"JOIN">>
             ELSE <<CASE f[4] = "Cross" -> "CROSS" [] f[4] = "Left" -> "LEFT"
                      [] f[4] = "Right" -> "RIGHT", "JOIN">>)
         \o PrintFromItem(f[3])
         \o (IF f[5] = <<>> THEN <<>> ELSE <<"ON">> \o PrintMin(f[5][1]))

PrintFromItems(from) == Commas([i \in DOMAIN from |-> PrintFromItem(from[i])])

(* A keyword and what follows it, when there is something. *)
Clause(words, toks) == IF toks = <<>> THEN <<>> ELSE words \o toks

PrintUpdate(s) ==
    LET columns == SelectSeq(IdentOrder, LAMBDA c : c \in DOMAIN s.set)
        Value(c) == IF s.set[c] = <<>> THEN <<"DEFAULT">> ELSE PrintMin(s.set[c][1])
    IN <<"UPDATE", s.table, "SET">>
       \o Commas([i \in DOMAIN columns |-> <<columns[i], "=">> \o Value(columns[i])])
       \o Clause(<<"WHERE">>, PrintExprs(s.where))

PrintSelect(s) ==
    <<"SELECT">> \o PrintSelectItems(s.select)
    \o Clause(<<"FROM">>, PrintFromItems(s.from))
    \o Clause(<<"WHERE">>, PrintExprs(s.where))
    \o Clause(<<"GROUP", "BY">>, PrintExprs(s.group_by))
    \o Clause(<<"HAVING">>, PrintExprs(s.having))
    \o Clause(<<"ORDER", "BY">>, PrintOrderItems(s.order_by))
    \o Clause(<<"LIMIT">>, PrintExprs(s.limit))
    \o Clause(<<"OFFSET">>, PrintExprs(s.offset))

PrintBegin(s) ==
    <<"BEGIN">> \o (IF s.read_only THEN <<"READ", "ONLY">> ELSE <<>>)
    \o (IF s.as_of = <<>> THEN <<>>
        ELSE <<"AS", "OF", "SYSTEM", "TIME", PrintNumber(s.as_of[1])>>)

PrintInsert(s) ==
    <<"INSERT", "INTO", s.table>>
    \o (IF s.columns = <<>> THEN <<>> ELSE Wrap(PrintIdents(s.columns[1])))
    \o <<"VALUES">> \o PrintRows(s.values)

RECURSIVE PrintStmt(_)
PrintStmt(s) ==
    CASE s.type = "Commit" -> <<"COMMIT">>
      [] s.type = "Rollback" -> <<"ROLLBACK">>
      [] s.type = "Begin" -> PrintBegin(s)
      [] s.type = "DropTable" ->
            <<"DROP", "TABLE">> \o (IF s.if_exists THEN <<"IF", "EXISTS">> ELSE <<>>) \o <<s.name>>
      [] s.type = "Delete" -> <<"DELETE", "FROM", s.table>> \o Clause(<<"WHERE">>, PrintExprs(s.where))
      [] s.type = "CreateTable" -> <<"CREATE", "TABLE", s.name>> \o Wrap(PrintColumns(s.columns))
      [] s.type = "Insert" -> PrintInsert(s)
      [] s.type = "Update" -> PrintUpdate(s)
      [] s.type = "Select" -> PrintSelect(s)
      [] s.type = "Explain" -> <<"EXPLAIN">> \o PrintStmt(s.statement)
=============================================================================
