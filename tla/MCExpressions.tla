--------------------------- MODULE MCExpressions ---------------------------
(***************************************************************************)
(* Leaves at the limits of the types on a machine with two bits to a byte  *)
(* and four to an int, and the differences to C11 that are known.          *)
(***************************************************************************)
EXTENDS Expressions

Of(t, values) == {[type |-> t, value |-> v] : v \in values}

MCLeaves ==
    Of("bool", {0, 1}) \cup Of("char", {-2, -1, 1}) \cup Of("uchar", {0, 3})
    \cup Of("int", {-8, -1, 0, 2, 7}) \cup Of("uint", {0, 2, 15})
    \cup Of("long", {-128, -1, 2, 8, 127}) \cup Of("ulong", {0, 128, 255})
    \cup Of("double", {-1, 0, 1, 5}) \cup Of("pointer", {0, 4, 8})

MCVisitors == {"code", "long", "double", "address"}

MCFields ==
    {[type |-> "bool", begin |-> 0, width |-> 1, value |-> 1, rest |-> 0],
     [type |-> "bool", begin |-> 1, width |-> 1, value |-> 0, rest |-> 1],
     [type |-> "int", begin |-> 1, width |-> 2, value |-> -1, rest |-> 1],
     [type |-> "uint", begin |-> 0, width |-> 3, value |-> 6, rest |-> 8],
     [type |-> "uint", begin |-> 0, width |-> 4, value |-> 15, rest |-> 0],
     [type |-> "ulong", begin |-> 3, width |-> 2, value |-> 2, rest |-> 71]}

Result == stack[Len(stack)]

-----------------------------------------------------------------------------
(***************************************************************************)
(* What the generator is known to do differently                           *)
(***************************************************************************)
Narrow(t) == t \in IntegerTypes /\ Width(t) <= IntWidth
Big(v) == v >= 2 ^ (Word - 1)

(* an unsigned int is widened with cltq *)
UnsignedWidened(e, to) == e.type = "uint" /\ Width(to) > IntWidth /\ to # "double" /\ e.value > 7

(* an int is compared with zero in all of %rax *)
WholeTested(e, to) == e.type \in {"int", "uint"} /\ to = "bool" /\ e.value = 0 /\ 0 \notin e.held

(* an integer is converted to double from all of %rax *)
WholeConverted(e, to) == to = "double" /\ Narrow(e.type) /\ \E h \in e.held : Signed(h, Word) # e.value

(* an unsigned long is converted as a long *)
LongConverted(e, to) ==
    \/ to = "double" /\ Big(e.value)
    \/ to = "ulong" /\ e.type = "double" /\ Big(Quotient(e.value, 2))

CastGap(e, to) ==
    UnsignedWidened(e, to) \/ WholeTested(e, to) \/ WholeConverted(e, to) \/ LongConverted(e, to)

(* the index is all of %r11 *)
IndexNotExtended(e) == Narrow(e.type) /\ \E h \in e.held : h # Low(e.value, Word)

(* a _Bool is incremented like a char *)
BoolIncremented(op, e) == op \in {"prefix", "postfix", "incremented"} /\ e.type = "bool"

(* a _Bool field is read as a signed one *)
SignedBool(op, e) == op \in {"field", "reread", "beside"} /\ e.type = "bool" /\ e.value = 1

(* an assignment to a field yields all of its unit *)
InPart(e) == e.field > 0 /\ e.field < Bits(e.type)
UnitYielded(op, e) == op = "assign" /\ InPart(e)

(* ++ and -- of a field are those of its unit, of which the first field has *)
(* the right value afterwards                                               *)
First(e) == \A f \in Fields : f.type = e.type /\ f.width = e.field => f.begin = 0
UnitIncremented(op, e) ==
    \/ op \in {"prefix", "postfix"} /\ InPart(e)
    \/ op = "incremented" /\ ~First(e)

FieldGap(op, e) ==
    SignedBool(op, e) \/ UnitYielded(op, e) \/ UnitIncremented(op, e) \/ BoolIncremented(op, e)

(* a field that an int can represent is not promoted to int *)
NotPromoted(e) == e.field > 0 /\ e.field < Bits("int") /\ Promote(e.type) # "int"

(* an unsigned double *)
NoType(op, l, r) == BinaryType(op, l.type, r.type) = "none" \/ OperandType(op, l.type, l.type, r.type) = "none"

BinaryGap(op, l, r) ==
    \/ op \notin {","} \cup Logical /\ NoType(op, l, r)
    \/ op \in Additive /\ l.type = "pointer" /\ (IndexNotExtended(r) \/ (op = "-" /\ r.type # "pointer"))
    \/ op \in Additive /\ r.type = "pointer" /\ IndexNotExtended(l)
    \/ "pointer" \notin {l.type, r.type} /\ op \notin {","} \cup Logical /\
        \/ CastGap(l, OperandType(op, l.type, l.type, r.type))
        \/ CastGap(r, OperandType(op, r.type, l.type, r.type))
    \/ op \notin {","} \cup Logical /\ NotPromoted(l)
    \/ op \notin {","} \cup Logical \cup Shifts /\ NotPromoted(r)

CodeGap ==
    LET op == operator'
        e == stack'[Len(stack')]
    IN  CASE op \in UnaryOps -> NotPromoted(Result)
          [] op = "cast" -> CastGap(Result, e.type)
          [] op \in {"assign", "reread"} -> CastGap(Result, e.type) \/ FieldGap(op, e)
          [] op \in BinaryOps -> BinaryGap(op, stack[1], stack[2])
          [] OTHER -> FieldGap(op, e)

(***************************************************************************)
(* Every operator, cast, increment, call and access of a bit-field leaves  *)
(* in the register, in as many bits as its type has, the value that C11    *)
(* gives it, and the program gives it the type that C11 gives it, whatever *)
(* is above the operands' bits; an assignment to a bit-field changes it and*)
(* none of the others in its unit.  What is known to be wrong is in        *)
(* CodeGap: of bit-fields the reading of a _Bool, the value of an          *)
(* assignment, and the increments of all but those that fill their unit.   *)
(***************************************************************************)
CodeAsStandard == [][visitor = "code" => Right(stack'[Len(stack')]) \/ CodeGap]_vars
-----------------------------------------------------------------------------
(***************************************************************************)
(* What the evaluators are known to do differently                         *)
(***************************************************************************)
Fraction(e) == e.type = "double" /\ e.value % 2 # 0
BigLong(e) == e.type = "ulong" /\ Big(e.value)

(* a cast to an integer type does not reduce the value, nor make it a truth value *)
NotReduced(e, to) ==
    /\ to # "double" /\ e.type # "double"
    /\ Converted(e.type, to, e.value) # {e.value}

(* what is evaluated as a long has lost its fraction, and what is evaluated *)
(* as a double is not made a truth value                                    *)
FractionLost(e, to) == e.type = "double" /\ to = "bool" /\ e.value \notin {0, 2}

(* unsigned arithmetic is not reduced either, except that longs wrap by themselves *)
NotWrapped(t, x) ==
    /\ IsUnsigned(t) /\ ~Represents(t, x)
    /\ t = "ulong" => visitor = "double"

(* an integer constant is an int when it is an address *)
AddressCut(e) == visitor = "address" /\ ~Represents("int", e.value)

FoldCastGap(e, to) ==
    \/ NotReduced(e, to)
    \/ FractionLost(e, to)
    \/ BigLong(e)

FoldUnaryGap(op, e, t) ==
    \/ visitor = "address"
    \/ visitor = "long" /\ Fraction(e)
    \/ op = "MINUS" /\ NotWrapped(t, -e.value)
    \/ op = "~" /\ NotWrapped(t, -e.value - 1)

FoldBinaryGap(op, l, r) ==
    LET lt == OperandType(op, l.type, l.type, r.type)
        rt == OperandType(op, r.type, l.type, r.type)
        a == Cast(l, lt).value
        b == Cast(r, rt).value
    IN  \/ NoType(op, l, r)
        \/ FoldCastGap(l, lt) \/ FoldCastGap(r, rt)
        \/ visitor = "long" /\ (Fraction(l) \/ Fraction(r))
        \/ visitor = "address" /\ (BinaryType(op, l.type, r.type) # "pointer" \/ op \notin Additive)
        \/ op = "-" /\ l.type = "pointer"
        \/ op = "+" /\ NotWrapped(lt, a + b)
        \/ op = "-" /\ NotWrapped(lt, a - b)
        \/ op = "*" /\ NotWrapped(lt, a * b)
        \/ op = "<<" /\ (NotWrapped(lt, a * 2 ^ b) \/ (visitor = "double" /\ Big(a * 2 ^ b)))
        \/ op = "," /\ r.type = "pointer"
        \/ visitor = "double" /\ op = "/" /\ lt # "double"

(* a double that a long does not hold *)
TooLarge(e) == visitor = "long" /\ e.type = "double" /\ ~Represents("long", Quotient(e.value, 2))

FoldGap ==
    LET op == operator'
        e == stack'[Len(stack')]
    IN  CASE TooLarge(e) -> TRUE
          [] op \in UnaryOps -> FoldUnaryGap(op, Result, e.type)
          [] op = "cast" -> FoldCastGap(Result, e.type)
          [] op \in BinaryOps -> FoldBinaryGap(op, stack[1], stack[2])
          [] OTHER -> (visitor = "double" /\ BigLong(e)) \/ AddressCut(e)

(***************************************************************************)
(* Every operator and cast of a constant expression gives each of the      *)
(* evaluators the value of C11: in a long (sizes of arrays, enumerators,   *)
(* case labels, conditions of #if), in a double or as an address (static   *)
(* initializers).                                                          *)
(***************************************************************************)
FoldingAsStandard == [][visitor # "code" => Right(stack'[Len(stack')]) \/ FoldGap]_vars
=============================================================================
