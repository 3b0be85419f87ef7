----------------------------- MODULE SqlValues -----------------------------
(***************************************************************************)
(* SQL values (sql/types/value.rs): equality, order and arithmetic.  A     *)
(* value has the form of a literal of the syntax tree.  A float is an      *)
(* exact fraction: rounding and the sign of zero are not modelled.         *)
(***************************************************************************)
EXTENDS Integers, SqlSyntax

Boolean(b) == <<"Boolean", b>>
Integer(i) == <<"Integer", i>>

\* What an operation gives instead of a value: an error (its text is left
\* out), or a panic.
Error == <<"Error">>
Panic == <<"Panic">>
Failed(v) == v[1] \in {"Error", "Panic"}

IsInteger(v) == v[1] = "Integer"
IsNumber(v) == v[1] \in {"Integer", "Float"}
IsUndefined(v) == v \in {Null, NaN}
Fraction(v) == IF IsInteger(v) THEN <<v[2], 1>> ELSE v[2]

Magnitude(n) == IF n < 0 THEN -n ELSE n
Sign(n) == IF n < 0 THEN -1 ELSE 1

RECURSIVE Gcd(_, _)
Gcd(m, n) == IF n = 0 THEN m ELSE Gcd(n, m % n)

(* The float n / d in lowest terms: infinite if only d is zero. *)
Float(n, d) ==
    LET g == Gcd(Magnitude(n), Magnitude(d))
    IN IF g = 0 THEN NaN ELSE <<"Float", <<Sign(d) * (n \div g), Magnitude(d) \div g>>>>

-----------------------------------------------------------------------------
(* Equality and order. *)

(* PartialEq::eq: an integer can equal a float.  Values that hash alike    *)
(* (Hash::hash) are those that are the same value of the same type.        *)
Eq(a, b) == a = b \/ (IsNumber(a) /\ IsNumber(b) /\ Fraction(a) = Fraction(b))

FractionLess(p, q) ==
    \/ p[1] * q[2] < q[1] * p[2]
    \/ p[2] = 0 /\ q[2] = 0 /\ p[1] < q[1]

PositionIn(seq, x) == CHOOSE i \in DOMAIN seq : seq[i] = x

LessSameType(a, b) ==
    CASE a[1] = "Boolean" -> ~a[2] /\ b[2]
      [] IsNumber(a) -> FractionLess(Fraction(a), Fraction(b))
      [] a[1] = "String" -> PositionIn(StringOrder, a[2]) < PositionIn(StringOrder, b[2])
      [] OTHER -> FALSE

Rank(v) ==
    CASE v = Null -> 0 [] v[1] = "Boolean" -> 1 [] IsNumber(v) -> 2 [] OTHER -> 3

(* Ord::cmp is Less: a total order of all values, NaN above the numbers. *)
Less(a, b) ==
    \/ Rank(a) < Rank(b)
    \/ /\ Rank(a) = Rank(b) /\ a # NaN
       /\ b = NaN \/ LessSameType(a, b)

(* Vec<Value> compares lexicographically. *)
LessRow(r, s) ==
    \E i \in DOMAIN r : Less(r[i], s[i]) /\ \A j \in 1..(i - 1) : ~Less(r[j], s[j]) /\ ~Less(s[j], r[j])

-----------------------------------------------------------------------------
(* Arithmetic.  With a NULL and a number, or two NULLs, it gives NULL. *)

FitsI64(n) == n \in (-MaxI64 - 1)..MaxI64
CheckedI64(n) == IF FitsI64(n) THEN Integer(n) ELSE Error

Arithmetic(a, b, OnIntegers(_, _), OnFractions(_, _)) ==
    CASE IsInteger(a) /\ IsInteger(b) -> OnIntegers(a[2], b[2])
      [] IsNumber(a) /\ IsNumber(b) -> OnFractions(Fraction(a), Fraction(b))
      [] (a = Null /\ (IsNumber(b) \/ b = Null)) \/ (IsNumber(a) /\ b = Null) -> Null
      [] OTHER -> Error

AddFloat(p, q) ==
    IF p = q /\ p[2] = 0 THEN <<"Float", p>> ELSE Float(p[1] * q[2] + q[1] * p[2], p[2] * q[2])
Negated(p) == <<-p[1], p[2]>>
MultiplyFloat(p, q) == Float(p[1] * q[1], p[2] * q[2])
DivideFloat(p, q) == Float(Sign(q[1]) * p[1] * q[2], p[2] * Magnitude(q[1]))

CheckedAdd(a, b) == Arithmetic(a, b, LAMBDA m, n : CheckedI64(m + n), AddFloat)
CheckedSub(a, b) ==
    Arithmetic(a, b, LAMBDA m, n : CheckedI64(m - n), LAMBDA p, q : AddFloat(p, Negated(q)))
CheckedMul(a, b) == Arithmetic(a, b, LAMBDA m, n : CheckedI64(m * n), MultiplyFloat)

(* Integer division truncates, the remainder has the dividend's sign, and   *)
(* dividing the least integer by -1 panics.                                *)
Quotient(m, n) == Sign(m) * Sign(n) * (Magnitude(m) \div Magnitude(n))
DivideI64(m, n) ==
    IF n = 0 THEN Error ELSE IF ~FitsI64(Quotient(m, n)) THEN Panic ELSE Integer(Quotient(m, n))
RemainderI64(m, n) ==
    IF Failed(DivideI64(m, n)) THEN DivideI64(m, n) ELSE Integer(m - n * Quotient(m, n))
RemainderFloat(p, q) ==
    IF p[2] = 0 \/ q[1] = 0 THEN NaN
    ELSE IF q[2] = 0 THEN <<"Float", p>>
    ELSE LET m == p[1] * q[2]  n == q[1] * p[2]
         IN Float(m - n * Quotient(m, n), p[2] * q[2])

CheckedDiv(a, b) == Arithmetic(a, b, DivideI64, DivideFloat)
CheckedRem(a, b) == Arithmetic(a, b, RemainderI64, RemainderFloat)

RECURSIVE PowI64(_, _)
PowI64(m, n) ==
    IF n = 0 THEN Integer(1)
    ELSE LET p == PowI64(m, n - 1) IN IF Failed(p) THEN p ELSE CheckedI64(m * p[2])

(* Float powers are modelled for whole exponents. *)
PowFloat(p, q) ==
    LET n == Magnitude(q[1])
        power == IF n = 0 THEN Float(1, 1) ELSE Float(p[1] ^ n, p[2] ^ n)
    IN IF q[1] >= 0 THEN power ELSE DivideFloat(<<1, 1>>, power[2])

CheckedPow(a, b) ==
    Arithmetic(a, b,
        LAMBDA m, n : IF n >= 0 THEN PowI64(m, n) ELSE PowFloat(<<m, 1>>, <<n, 1>>), PowFloat)
=============================================================================
