----------------------------- MODULE ArithTypes -----------------------------
(***************************************************************************)
(* The arithmetic types and one type of pointers (type.h 195-240,          *)
(* type.cc 122-183): widths, ranks, and the conversions the parser inserts *)
(* when it builds a unary or a binary operator.  Widths are parameters, so *)
(* that a machine of few bits has all the relations of the real one: a     *)
(* byte of ByteBits, an int of IntWidth bytes, a long twice as wide.       *)
(***************************************************************************)
EXTENDS Integers

CONSTANTS ByteBits, IntWidth

ASSUME WidthAssumption == ByteBits \in Nat \ {0} /\ IntWidth \in Nat \ {0, 1}

IntegerTypes == {"bool", "char", "uchar", "short", "ushort", "int", "uint", "long", "ulong"}
ArithmTypes == IntegerTypes \cup {"double"}
ScalarTypes == ArithmTypes \cup {"pointer"}

IsUnsigned(t) == t \in {"uchar", "ushort", "uint", "ulong"}

Width(t) ==
    CASE t \in {"bool", "char", "uchar"} -> 1
      [] t \in {"short", "ushort"} -> IntWidth \div 2
      [] t \in {"int", "uint"} -> IntWidth
      [] OTHER -> 2 * IntWidth

Rank(t) ==
    CASE t = "bool" -> 0
      [] t \in {"char", "uchar"} -> 1
      [] t \in {"short", "ushort"} -> 2
      [] t \in {"int", "uint"} -> 3
      [] t \in {"long", "ulong"} -> 4
      [] OTHER -> 7

(* T_UNSIGNED | tag: an unsigned double fails an assertion of New *)
WithUnsigned(t) ==
    CASE t = "int" -> "uint"
      [] t = "long" -> "ulong"
      [] t = "double" -> "none"
      [] OTHER -> t

IntegerPromote(t) == IF Rank(t) < Rank("int") THEN "int" ELSE t

Promote(t) == IF t \in IntegerTypes THEN IntegerPromote(t) ELSE t

MaxType(lhs, rhs) ==
    LET l == Promote(lhs)
        r == Promote(rhs)
        max == IF Rank(l) > Rank(r) THEN l ELSE r
    IN  IF Width(l) = Width(r) /\ (IsUnsigned(l) \/ IsUnsigned(r)) THEN WithUnsigned(max) ELSE max

(***************************************************************************)
(* Bits: what a register holds is a number of Bits("long") bits.           *)
(***************************************************************************)
Bits(t) == ByteBits * Width(t)
Word == Bits("long")

Low(v, n) == v % (2 ^ n)
Signed(v, n) == IF Low(v, n) >= 2 ^ (n - 1) THEN Low(v, n) - 2 ^ n ELSE Low(v, n)

(* the value that the low bits of a register have in an integer type *)
ValueOf(t, bits) == IF IsUnsigned(t) \/ t \in {"bool", "pointer"} THEN Low(bits, Bits(t))
                    ELSE Signed(bits, Bits(t))

(* division as C and the processor have it: towards zero *)
Quotient(a, b) ==
    LET abs(x) == IF x < 0 THEN -x ELSE x
        q == abs(a) \div abs(b)
    IN  IF (a < 0) = (b < 0) THEN q ELSE -q
Remainder(a, b) == a - b * Quotient(a, b)
=============================================================================
