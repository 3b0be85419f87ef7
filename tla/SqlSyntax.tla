------------------------------ MODULE SqlSyntax ------------------------------
(***************************************************************************)
(* Tokens and syntax trees of the SQL front end (sql/parser/lexer.rs,      *)
(* ast.rs).  A token is a string: a keyword, a symbol, or one of the       *)
(* identifiers, strings and numbers that the constants name.  An           *)
(* expression is a tuple tagged with its constructor, a statement a record *)
(* tagged with its type, and an option a sequence of at most one element.  *)
(***************************************************************************)
EXTENDS Naturals, Sequences, SequencesExt

CONSTANTS
    IdentOrder,      \* the identifiers, in the order of their names
    StringOrder,     \* the string literals, in the order of their contents
    NumberDigits,    \* number token of digits only |-> its digits
    FloatValue,      \* any other number token |-> its value, <<>> if malformed
    MaxI64, MaxU64   \* the largest integers

Idents == Range(IdentOrder)
Strings == Range(StringOrder)
Numbers == DOMAIN NumberDigits \union DOMAIN FloatValue

Keywords == {"AND", "AS", "ASC", "BEGIN", "BOOL", "BOOLEAN", "BY", "COMMIT",
    "CREATE", "CROSS", "DEFAULT", "DELETE", "DESC", "DOUBLE", "DROP", "EXISTS",
    "EXPLAIN", "FALSE", "FLOAT", "FROM", "GROUP", "HAVING", "IF", "INDEX",
    "INFINITY", "INNER", "INSERT", "INT", "INTEGER", "INTO", "IS", "JOIN",
    "KEY", "LEFT", "LIKE", "LIMIT", "NAN", "NOT", "NULL", "OF", "OFFSET", "ON",
    "ONLY", "OR", "ORDER", "OUTER", "PRIMARY", "READ", "REFERENCES", "RIGHT",
    "ROLLBACK", "SELECT", "SET", "STRING", "SYSTEM", "TABLE", "TEXT", "TIME",
    "TRANSACTION", "TRUE", "UNIQUE", "UPDATE", "VALUES", "VARCHAR", "WHERE",
    "WRITE"}

-----------------------------------------------------------------------------
(* Expressions (ast::Expression, ast::Operator, ast::Literal). *)

All == <<"All">>
Column(table, name) == <<"Column", table, name>>
Literal(l) == <<"Literal", l>>
Function(name, args) == <<"Function", name, args>>

\* A float is the fraction it stands for.  An infinity has the denominator
\* zero, and NaN is 0/0.
Null == <<"Null">>
NaN == <<"Float", <<0, 0>>>>
Infinity == <<"Float", <<1, 0>>>>

(* Decimal integers (verified_integer.rs): a scan from the left that gives  *)
(* up before the value can leave the range.                                *)
ParseDigits(digits) ==
    FoldLeft(LAMBDA acc, d : IF acc # <<>> /\ acc[1] <= (MaxU64 - d) \div 10
                             THEN <<acc[1] * 10 + d>> ELSE <<>>,
             <<0>>, digits)

ParseI64(digits) ==
    LET n == ParseDigits(digits) IN IF n # <<>> /\ n[1] <= MaxI64 THEN n ELSE <<>>

RECURSIVE PrintU64(_)
PrintU64(n) == IF n < 10 THEN <<n>> ELSE Append(PrintU64(n \div 10), n % 10)

(* The literal that a number token stands for, or why it has none. *)
NumberLiteral(tok) ==
    IF tok \in DOMAIN NumberDigits
    THEN LET n == ParseI64(NumberDigits[tok])
         IN IF n # <<>> THEN <<"Integer", n[1]>> ELSE <<"NumberTooLarge">>
    ELSE IF FloatValue[tok] # <<>> THEN <<"Float", FloatValue[tok]>>
    ELSE <<"InvalidFloatLiteral", tok>>

UnaryOps == {"Not", "Identity", "Negate", "Factorial"}
BinaryOps == {"And", "Or", "Equal", "GreaterThan", "GreaterThanOrEqual",
    "LessThan", "LessThanOrEqual", "NotEqual", "Add", "Divide",
    "Exponentiate", "Multiply", "Remainder", "Subtract", "Like"}

(* The tokens of the operators: two of them spell NotEqual. *)
BinaryTag(tok) ==
    CASE tok = "AND" -> "And"   [] tok = "OR" -> "Or"    [] tok = "LIKE" -> "Like"
      [] tok = "=" -> "Equal"   [] tok \in {"!=", "<>"} -> "NotEqual"
      [] tok = ">" -> "GreaterThan" [] tok = ">=" -> "GreaterThanOrEqual"
      [] tok = "<" -> "LessThan"    [] tok = "<=" -> "LessThanOrEqual"
      [] tok = "+" -> "Add"     [] tok = "-" -> "Subtract" [] tok = "*" -> "Multiply"
      [] tok = "/" -> "Divide"  [] tok = "%" -> "Remainder"
      [] tok = "^" -> "Exponentiate" [] OTHER -> "none"

PrefixTag(tok) ==
    CASE tok = "+" -> "Identity" [] tok = "-" -> "Negate" [] tok = "NOT" -> "Not"
      [] OTHER -> "none"

BinaryPrec(op) ==
    CASE op = "Or" -> 1 [] op = "And" -> 2
      [] op \in {"Equal", "NotEqual", "Like"} -> 4
      [] op \in {"GreaterThan", "GreaterThanOrEqual", "LessThan", "LessThanOrEqual"} -> 5
      [] op \in {"Add", "Subtract"} -> 6
      [] op \in {"Multiply", "Divide", "Remainder"} -> 7
      [] op = "Exponentiate" -> 8

BinaryAssoc(op) == IF op = "Exponentiate" THEN 0 ELSE 1
PrefixPrec(op) == IF op = "Not" THEN 3 ELSE 10
IsPrec == 4
FactorialPrec == 9

-----------------------------------------------------------------------------
(* What a parsing function returns: a tree and the position after it, or   *)
(* an error (parse_error.rs).                                              *)

Ok(ast, pos) == [ok |-> TRUE, ast |-> ast, pos |-> pos, err |-> <<>>]
Fail(err) == [ok |-> FALSE, ast |-> <<>>, pos |-> 0, err |-> err]
Eof == <<"UnexpectedEof">>

\* The next step of a parser, unless the last one failed.
Then(r, F(_, _)) == IF r.ok THEN F(r.ast, r.pos) ELSE r

At(s, pos) == IF pos <= Len(s) THEN s[pos] ELSE "end of input"
AtEnd(s, pos) == pos > Len(s)

Expect(s, pos, tok) ==
    IF AtEnd(s, pos) THEN Fail(Eof)
    ELSE IF s[pos] = tok THEN Ok(tok, pos + 1)
    ELSE Fail(<<"ExpectedToken", tok, s[pos]>>)

ExpectIdent(s, pos) ==
    IF AtEnd(s, pos) THEN Fail(Eof)
    ELSE IF s[pos] \in Idents THEN Ok(s[pos], pos + 1)
    ELSE Fail(<<"ExpectedIdent", s[pos]>>)
=============================================================================
