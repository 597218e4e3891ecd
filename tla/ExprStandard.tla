---------------------------- MODULE ExprStandard ----------------------------
(***************************************************************************)
(* What an operator yields by C11 6.3 and 6.5, as a type and the set of    *)
(* the values it may have: one value, or none when the behaviour is        *)
(* undefined.  A conversion to a signed type that does not fit wraps, and  *)
(* >> of a negative value keeps the sign, as gcc has it.  The value of a   *)
(* double is a number of halves, and pointers point into one array.        *)
(***************************************************************************)
EXTENDS ArithTypes, Bitwise

CONSTANTS
    Elements,      \* the addresses of the array's elements and of its end
    ElemWidth,     \* the width of an element
    DoubleMax      \* the largest number of halves that is told

Additive == {"+", "-"}
Relational == {"<", ">", "<=", ">=", "==", "!="}
BitOps == {"&", "|", "^"}
Shifts == {"<<", ">>"}
Logical == {"&&", "||"}
Chosen == {"?true", "?false"}      \* the conditional operator, by its condition

UnaryOps == {"PLUS", "MINUS", "~", "!"}

Truth(b) == IF b THEN 1 ELSE 0

Represents(t, v) ==
    CASE t = "bool" -> v \in 0 .. 1
      [] t = "pointer" -> v \in Elements \cup {0}
      [] t = "double" -> v \in (-DoubleMax) .. DoubleMax
      [] IsUnsigned(t) -> v \in 0 .. 2 ^ Bits(t) - 1
      [] OTHER -> v \in (-(2 ^ (Bits(t) - 1))) .. 2 ^ (Bits(t) - 1) - 1

If(t, v) == IF Represents(t, v) THEN {v} ELSE {}

(* 6.3.1.1 [2]; field is the width of a bit-field, or 0 *)
Promoted(t, field) ==
    CASE t \in {"double", "pointer"} -> t
      [] field > 0 /\ field < Bits("int") -> "int"
      [] IntegerPromote(t) = t -> t
      [] OTHER -> "int"

(* 6.3.1.8 for types that are promoted *)
Usual(a, b) ==
    LET signed == IF IsUnsigned(a) THEN b ELSE a
        unsigned == IF IsUnsigned(a) THEN a ELSE b
    IN  CASE "double" \in {a, b} -> "double"
          [] IsUnsigned(a) = IsUnsigned(b) -> IF Rank(a) > Rank(b) THEN a ELSE b
          [] Rank(unsigned) >= Rank(signed) -> unsigned
          [] Bits(signed) > Bits(unsigned) -> signed
          [] OTHER -> WithUnsigned(signed)

(* 6.3.1.2 - 6.3.1.4 and 6.3.2.3 *)
Converted(from, to, v) ==
    CASE to = from -> {v}
      [] to = "bool" -> {Truth(v # 0)}
      [] from = "double" -> If(to, Quotient(v, 2))
      [] to = "double" -> If(to, 2 * v)
      [] to = "pointer" -> If(to, v)
      [] IsUnsigned(to) -> {Low(v, Bits(to))}
      [] OTHER -> {Signed(v, Bits(to))}

(* the result of arithmetic: reduced when unsigned, otherwise it must fit *)
Arith(t, x) == IF IsUnsigned(t) THEN {Low(x, Bits(t))} ELSE If(t, x)

-----------------------------------------------------------------------------
StandardUnaryType(op, t, field) == IF op = "!" THEN "int" ELSE Promoted(t, field)

StandardUnary(op, t, v) ==
    CASE op = "PLUS" -> {v}
      [] op = "MINUS" -> Arith(t, -v)
      [] op = "~" -> Arith(t, -v - 1)
      [] op = "!" -> {Truth(v = 0)}

StandardCommon(l, r) == Usual(Promoted(l.type, l.field), Promoted(r.type, r.field))

StandardBinaryType(op, l, r) ==
    CASE op \in Relational \cup Logical -> "int"
      [] op \in Shifts -> Promoted(l.type, l.field)
      [] op = "," -> r.type
      [] l.type = "pointer" /\ r.type = "pointer" -> IF op = "-" THEN "long" ELSE "pointer"
      [] "pointer" \in {l.type, r.type} -> "pointer"
      [] OTHER -> StandardCommon(l, r)

Compared(op, a, b) ==
    CASE op = "<" -> a < b
      [] op = ">" -> a > b
      [] op = "<=" -> a <= b
      [] op = ">=" -> a >= b
      [] op = "==" -> a = b
      [] op = "!=" -> a # b

(* the bits of two values of n bits, combined *)
BitOp(op, n, a, b) ==
    CASE op = "&" -> Low(a, n) & Low(b, n)
      [] op = "|" -> Low(a, n) | Low(b, n)
      [] op = "^" -> Low(a, n) ^^ Low(b, n)

Doubles(op, a, b) ==
    CASE op = "+" -> {a + b}
      [] op = "-" -> {a - b}
      [] op = "*" -> {Quotient(a * b, 2)}
      [] op = "/" -> IF b = 0 THEN {} ELSE {Quotient(2 * a, b)}

(* 6.5.5 - 6.5.12: a and b have the type t; the amount of a shift is a     *)
(* value of its own type                                                   *)
StandardArith(op, t, a, b) ==
    CASE op \in Relational -> {Truth(Compared(op, a, b))}
      [] t = "double" -> {x \in Doubles(op, a, b) : Represents(t, x)}
      [] op = "+" -> Arith(t, a + b)
      [] op = "-" -> Arith(t, a - b)
      [] op = "*" -> Arith(t, a * b)
      [] op = "/" -> IF b = 0 THEN {} ELSE If(t, Quotient(a, b))
      [] op = "%" -> IF b = 0 \/ ~Represents(t, Quotient(a, b)) THEN {} ELSE {Remainder(a, b)}
      [] op \in BitOps -> {ValueOf(t, BitOp(op, Bits(t), a, b))}
      [] op = "<<" -> IF b \notin 0 .. Bits(t) - 1 \/ a < 0 THEN {} ELSE Arith(t, a * 2 ^ b)
      [] op = ">>" -> IF b \notin 0 .. Bits(t) - 1 THEN {} ELSE {a \div 2 ^ b}

(* a comma yields its right operand, which keeps the width of a bit-field *)
StandardField(op, r) == IF op = "," THEN r.field ELSE 0

(* 6.5.6 [7] - [9]: within the array *)
Within(v) == {x \in {v} : x \in Elements}
StandardPointer(op, l, r) ==
    CASE l.type = "pointer" /\ r.type = "pointer" ->
           IF {l.value, r.value} \subseteq Elements
             THEN {Quotient(l.value - r.value, ElemWidth)} ELSE {}
      [] l.type # "pointer" -> IF r.value = 0 THEN {} ELSE Within(r.value + l.value * ElemWidth)
      [] l.value = 0 -> {}
      [] op = "+" -> Within(l.value + r.value * ElemWidth)
      [] op = "-" -> Within(l.value - r.value * ElemWidth)

StandardBinary(op, l, r) ==
    LET common == StandardCommon(l, r)
        shifted == Promoted(l.type, l.field)
        at(e, t) == Converted(e.type, t, e.value)
        picked == IF op = "?true" THEN l ELSE r
    IN  CASE op = "," -> {r.value}
          [] op = "&&" -> {Truth(l.value # 0 /\ r.value # 0)}
          [] op = "||" -> {Truth(l.value # 0 \/ r.value # 0)}
          [] op \in Shifts -> StandardArith(op, shifted, l.value, r.value)
          [] op \in Chosen -> IF l.type = "pointer" THEN {picked.value} ELSE at(picked, common)
          [] l.type = "pointer" /\ op \in Relational -> {Truth(Compared(op, l.value, r.value))}
          [] "pointer" \in {l.type, r.type} -> StandardPointer(op, l, r)
          [] OTHER -> UNION {UNION {StandardArith(op, common, a, b) : b \in at(r, common)} :
                             a \in at(l, common)}

(* x += 1, by C11 6.5.2.4 and 6.5.3.1; field is the width of a bit-field, or 0 *)
Incremented(t, field, v, by) ==
    LET promoted == Promoted(t, field)
    IN  CASE t = "pointer" -> IF v = 0 THEN {} ELSE Within(v + by * ElemWidth)
          [] t = "double" -> If(t, v + 2 * by)
          [] OTHER -> UNION {Converted(promoted, t, x) : x \in Arith(promoted, v + by)}

(* 6.7.2.1 [10]: f is a field with its type and width *)
FieldValue(f, v) == IF IsUnsigned(f.type) \/ f.type = "bool" THEN Low(v, f.width)
                    ELSE Signed(v, f.width)
=============================================================================
