---------------------------- MODULE Expressions -----------------------------
(***************************************************************************)
(* Expressions as they are built, typed, and visited: by the generator,    *)
(* which computes in %rax and %xmm0, or by one of the evaluators, which    *)
(* compute in a long, a double or an address (ast.cc 126-583, code_gen.cc  *)
(* 278-776, evaluator.cc).                                                 *)
(*                                                                         *)
(* An entry of stack is an expression: the type the program gives it, the  *)
(* type and value C11 gives it, and what the visitor holds for it: the set *)
(* is empty where the visitor ends the program.  Postorder is the order of *)
(* visiting, and the lower entry of two is the operand that is spilled.    *)
(* Expressions are built on from operands that are right; what an operator *)
(* does to them is the subject here.                                       *)
(***************************************************************************)
EXTENDS ExprStandard, Sequences

CONSTANTS
    Visitors,      \* of "code", "long", "double", "address"
    Leaves,        \* [type, value] of objects and constants
    Garbage,       \* what a callee may leave above a narrow result
    MaxNodes,      \* of an expression
    Fields         \* [type, begin, width, value, rest]: bit-fields and their units

VARIABLES
    visitor,       \* who visits the expression
    stack,         \* of at most two expressions
    operator       \* the last one applied

vars == <<visitor, stack, operator>>

-----------------------------------------------------------------------------
(***************************************************************************)
(* Typing                                                                  *)
(***************************************************************************)
UnaryType(op, t) == IF op = "!" THEN "int" ELSE Promote(t)

LegalUnary(op, t) ==
    CASE op = "!" -> TRUE
      [] op = "~" -> t \in IntegerTypes
      [] OTHER -> t \in ArithmTypes

LegalCast(from, to) == {from, to} # {"pointer", "double"}

LegalBinary(op, lt, rt) ==
    CASE op \in Logical \cup {","} -> TRUE
      [] op \in Shifts \cup BitOps \cup {"%"} -> {lt, rt} \subseteq IntegerTypes
      [] lt = "pointer" /\ rt = "pointer" -> op \in Relational \cup Chosen \cup {"-"}
      [] lt = "pointer" -> op \in Additive /\ rt \in IntegerTypes
      [] rt = "pointer" -> op = "+" /\ lt \in IntegerTypes
      [] OTHER -> TRUE

BinaryType(op, lt, rt) ==
    CASE op \in Relational \cup Logical -> "int"
      [] op = "," -> rt
      [] op \in Shifts -> IntegerPromote(lt)
      [] lt = "pointer" /\ rt = "pointer" -> IF op = "-" THEN "long" ELSE lt
      [] "pointer" \in {lt, rt} -> "pointer"
      [] OTHER -> MaxType(lt, rt)

(* the type an operand is cast to by Convert or MayCast, or its own *)
OperandType(op, t, lt, rt) ==
    CASE op \in Logical \cup {","} \/ "pointer" \in {lt, rt} -> t
      [] op \in Shifts -> IntegerPromote(t)
      [] OTHER -> MaxType(lt, rt)

-----------------------------------------------------------------------------
(***************************************************************************)
(* The generator: b is what %rax holds, or the double in %xmm0             *)
(***************************************************************************)
SetByte(b, truth) == b - Low(b, ByteBits) + Truth(truth)

Loaded(t, v) == IF t = "double" THEN v ELSE Low(v, Bits(t))

Zero(t, b) == IF t = "double" THEN b = 0 ELSE Low(b, Bits(t)) = 0

(* cvttsd2si *)
Truncated(b) == IF Quotient(b, 2) \in (-(2 ^ (Word - 1))) .. 2 ^ (Word - 1) - 1
                THEN Low(Quotient(b, 2), Word) ELSE 2 ^ (Word - 1)

(* A bug to be caught: chars are widened with zeroes, as they are loaded *)
ExtendedAsLoaded(from, to, b) ==
    CASE Width(from) < IntWidth -> Low(b, Bits(from))
      [] Width(from) = IntWidth /\ Width(to) = 2 * IntWidth -> Low(Signed(b, Bits(from)), Word)
      [] OTHER -> b

Extended(from, to, b) ==
    CASE Width(from) < IntWidth ->
           IF IsUnsigned(from) THEN Low(b, Bits(from)) ELSE Low(Signed(b, Bits(from)), Word)
      [] Width(from) = IntWidth /\ Width(to) = 2 * IntWidth -> Low(Signed(b, Bits(from)), Word)
      [] OTHER -> b

GenCastOp(from, to, b) ==
    LET extended == IF from = "pointer" THEN b ELSE Extended(from, to, b)
    IN  CASE from = "double" /\ to = "double" -> b
          [] from = "double" /\ to = "bool" -> Truth(b # 0)
          [] from = "double" -> Truncated(b)
          [] to = "double" -> 2 * Signed(b, Word)
          [] to = "bool" -> SetByte(extended, extended # 0)
          [] OTHER -> extended

GenUnaryOp(op, from, t, b) ==
    CASE op = "PLUS" -> GenCastOp(from, t, b)
      [] op = "MINUS" -> IF t = "double" THEN -b ELSE Low(-GenCastOp(from, t, b), Bits(t))
      [] op = "~" -> Low(-GenCastOp(from, t, b) - 1, Word)
      [] op = "!" -> Truth(Zero(from, b))

GenCompOp(op, t, a, b) ==
    LET seen(x) == CASE t = "double" -> x
                     [] IsUnsigned(t) -> Low(x, Bits(t))
                     [] OTHER -> Signed(x, Bits(t))
    IN  Truth(Compared(op, seen(a), seen(b)))

(* a quotient that the register does not hold is a trap *)
GenDivOp(op, t, a, b) ==
    LET n == Bits(t)
        x == IF IsUnsigned(t) THEN Low(a, n) ELSE Signed(a, n)
        y == IF IsUnsigned(t) THEN Low(b, n) ELSE Signed(b, n)
    IN  IF y = 0 \/ ~Represents(t, Quotient(x, y)) THEN {}
        ELSE {Low(IF op = "/" THEN Quotient(x, y) ELSE Remainder(x, y), n)}

(* 2^n-bit registers write zeroes above an int *)
GenArithOp(op, t, a, b) ==
    LET n == Bits(t)
        count == b % n
    IN  CASE op \in Relational -> {GenCompOp(op, t, a, b)}
          [] t = "double" -> Doubles(op, a, b)
          [] op = "+" -> {Low(a + b, n)}
          [] op = "-" -> {Low(a - b, n)}
          [] op = "*" -> {Low(a * b, n)}
          [] op \in {"/", "%"} -> GenDivOp(op, t, a, b)
          [] op \in BitOps -> {BitOp(op, n, a, b)}
          [] op = "<<" -> {Low(a * 2 ^ count, n)}
          [] op = ">>" -> {Low((IF IsUnsigned(t) THEN Low(a, n) ELSE Signed(a, n)) \div 2 ^ count, n)}

(* the index is used as a whole register, and scaled unless it is subtracted *)
GenPointerArithm(op, pointer, b) ==
    IF op = "+" THEN {Low(pointer + ElemWidth * b, Word)}
    ELSE {Low(Quotient(Signed(pointer - b, Word), ElemWidth), Word)}

GenBinaryOp(op, lt, rt, a, b) ==
    LET t == OperandType(op, lt, lt, rt)
    IN  CASE op = "," -> {b}
          [] op = "&&" -> {Truth(~Zero(lt, a) /\ ~Zero(rt, b))}
          [] op = "||" -> {Truth(~Zero(lt, a) \/ ~Zero(rt, b))}
          [] op = "?true" -> {GenCastOp(lt, t, a)}
          [] op = "?false" -> {GenCastOp(rt, OperandType(op, rt, lt, rt), b)}
          [] lt = "pointer" /\ op \in Additive -> GenPointerArithm(op, a, b)
          [] rt = "pointer" /\ op \in Additive -> GenPointerArithm(op, b, a)
          [] OTHER -> GenArithOp(op, t, GenCastOp(lt, t, a),
                                 GenCastOp(rt, OperandType(op, rt, lt, rt), b))

(***************************************************************************)
(* Bit-fields: unit is what the object that the field is in holds          *)
(***************************************************************************)
Mask(f) == (2 ^ f.width - 1) * 2 ^ f.begin
Unit(f) == f.rest + Low(f.value, f.width) * 2 ^ f.begin

(* the bits of the unit below and above f, as fields *)
Beside(f) ==
    LET end == f.begin + f.width
        At(begin, width) == [f EXCEPT !.begin = begin, !.width = width, !.value = f.rest \div 2 ^ begin]
    IN  {g \in {At(0, f.begin), At(end, Bits(f.type) - end)} : g.width > 0}

EmitLoadBitField(f, unit) ==
    LET high == Low((unit & Mask(f)) * 2 ^ (Word - f.begin - f.width), Word)
        signed == IF IsUnsigned(f.type) THEN high ELSE Signed(high, Word)
    IN  Low(signed \div 2 ^ (Word - f.width), Word)

(* and %rax is left as the unit *)
EmitStoreBitField(f, b) ==
    Low((Low(Unit(f), Word) & (2 ^ Word - 1 - Mask(f))) | (Low(b * 2 ^ f.begin, Word) & Mask(f)),
        Bits(f.type))

-----------------------------------------------------------------------------
(***************************************************************************)
(* The evaluators.  An operand that a visitor leaves to another evaluator  *)
(* is taken to be right there: that is the other one's subject.            *)
(***************************************************************************)
RightFor(by, t, v) ==
    CASE by = "double" -> IF t = "double" THEN v ELSE 2 * v
      [] by = "long" -> IF t = "double" THEN Quotient(v, 2) ELSE Signed(v, Word)
      [] by = "address" -> v

(* A bug to be caught: a cast never changes what is evaluated *)
EvalCastKept(to, v) == v

(* a cast to an integer type makes a long of a double, and no less *)
EvalCast(to, v) == IF visitor = "double" /\ to \in IntegerTypes THEN 2 * Quotient(v, 2) ELSE v

(* of the value v of an operand, which is long for the evaluator of longs *)
EvalUnary(op, v, long) ==
    CASE visitor = "address" -> {}
      [] op = "PLUS" -> {v}
      [] op = "MINUS" -> IF visitor = "long" THEN {Signed(-v, Word)} ELSE {-v}
      [] op = "~" -> IF visitor = "long" THEN {Signed(-long - 1, Word)} ELSE {2 * (-long - 1)}
      [] op = "!" -> {IF visitor = "long" THEN Truth(v = 0) ELSE 2 * Truth(v = 0)}

(* Evaluator<Addr>: a difference is computed as a sum *)
EvalAddress(op, lt, rt, l, r) ==
    CASE op \notin Additive \/ BinaryType(op, lt, rt) # "pointer" -> {}
      [] lt = "pointer" -> {l + r * ElemWidth}
      [] OTHER -> {r + l * ElemWidth}

EvalLong(op, a, b) ==
    CASE op = "+" -> {Signed(a + b, Word)}
      [] op = "-" -> {Signed(a - b, Word)}
      [] op = "*" -> {Signed(a * b, Word)}
      [] op \in {"/", "%"} /\ (b = 0 \/ ~Represents("long", Quotient(a, b))) -> {}
      [] op = "/" -> {Quotient(a, b)}
      [] op = "%" -> {Remainder(a, b)}
      [] op \in BitOps -> {Signed(BitOp(op, Word, a, b), Word)}
      [] op = "<<" -> {Signed(a * 2 ^ (b % Word), Word)}
      [] op = ">>" -> {a \div 2 ^ (b % Word)}

EvalTruth(b) == IF visitor = "double" THEN 2 * Truth(b) ELSE Truth(b)

(* l and r are the operands with their casts, x and y what visitor holds *)
(* for them                                                              *)
EvalBinary(op, lt, rt, l, r, x, y) ==
    LET long(e) == RightFor("long", e.type, e.value)
    IN  CASE op = "?true" -> {x}
          [] op = "?false" -> {y}
          [] visitor = "address" -> EvalAddress(op, lt, rt,
                 IF lt = "pointer" THEN x ELSE long(l), IF rt = "pointer" THEN y ELSE long(r))
          [] BinaryType(op, lt, rt) = "pointer" ->
                 EvalAddress(op, lt, rt, RightFor("address", lt, l.value), RightFor("address", rt, r.value))
          [] op = "," -> {y}
          [] op = "&&" -> {EvalTruth(x # 0 /\ y # 0)}
          [] op = "||" -> {EvalTruth(x # 0 \/ y # 0)}
          [] op \in Relational -> {EvalTruth(Compared(op, x, y))}
          [] visitor = "long" -> EvalLong(op, x, y)
          [] op \in BitOps \cup Shifts \cup {"%"} -> {2 * v : v \in EvalLong(op, long(l), long(r))}
          [] OTHER -> Doubles(op, x, y)

-----------------------------------------------------------------------------
(***************************************************************************)
(* What a visitor holds is right                                           *)
(***************************************************************************)
Held(e, h) ==
    IF visitor # "code" THEN h = RightFor(visitor, e.type, e.value)
    ELSE IF e.type = "double" THEN h = e.value
    ELSE Low(h, Bits(e.type)) = Low(e.value, Bits(e.type))

Right(e) == e.type = e.standard /\ e.held # {} /\ \A h \in e.held : Held(e, h)

The(set) == CHOOSE x \in set : TRUE
Top == stack[Len(stack)]
Nodes == IF Len(stack) = 2 THEN stack[1].nodes + stack[2].nodes ELSE Len(stack) * Top.nodes

Expr(type, standard, value, held, width, nodes) ==
    [type |-> type, standard |-> standard, value |-> value, held |-> held,
     field |-> width, nodes |-> nodes]

Leaf(type, value, held, width) == Expr(type, type, value, {held}, width, 1)

Replace(e) == stack' = Append(SubSeq(stack, 1, Len(stack) - 1), e)

(***************************************************************************)
(* Visiting                                                                *)
(***************************************************************************)
(* The bounds: an expression has up to MaxNodes nodes, and of two operands *)
(* one is a leaf, so that either of an operator's operands may be large.   *)
(* An operator is still to come for the nodes of the second operand.       *)
Room(leaves) ==
    /\ Len(stack) = 2 => stack[1].nodes = 1
    /\ IF stack = <<>> THEN TRUE ELSE Nodes + 1 + leaves <= MaxNodes

Init ==
    /\ visitor \in Visitors
    /\ stack = <<>>
    /\ operator = "none"

(* an operand is visited by one of those who *)
Visiting(who) ==
    /\ visitor \in who
    /\ Len(stack) < 2 /\ Room(1)
    /\ \A i \in DOMAIN stack : Right(stack[i])

Visit(op, e) == stack' = Append(stack, e) /\ operator' = op /\ UNCHANGED visitor

VisitObject ==
    /\ Visiting({"code"})
    /\ \E l \in Leaves : Visit("object", Leaf(l.type, l.value, Loaded(l.type, l.value), 0))

(* constants have no narrow types, and enumerators may be negative;        *)
(* addresses are those of an array                                         *)
VisitConstant ==
    /\ Visiting(Visitors \ {"code"})
    /\ \E l \in Leaves :
        /\ l.type = "pointer" => visitor = "address" /\ l.value \in Elements
        /\ Rank(l.type) >= Rank("int") /\ (l.value < 0 => l.type = "int")
        /\ visitor = "address" => l.type # "double"
        /\ Visit("constant", Leaf(l.type, l.value,
              CASE visitor = "address" /\ l.type # "pointer" -> Signed(l.value, Bits("int"))
                [] l.type = "double" \/ visitor = "address" -> RightFor(visitor, l.type, l.value)
                [] OTHER -> RightFor(visitor, "long", Signed(l.value, Word)), 0))

(* the result of a call: the bits above its type are not specified *)
VisitFuncCall ==
    /\ Visiting({"code"})
    /\ \E l \in Leaves, g \in Garbage :
        /\ l.type \in IntegerTypes
        /\ Visit("call", Leaf(l.type, l.value,
                              Low(Low(l.value, Bits(l.type)) + g * 2 ^ Bits(l.type), Word), 0))

VisitField ==
    /\ Visiting({"code"})
    /\ \E f \in Fields :
        Visit("field", Leaf(f.type, FieldValue(f, f.value), EmitLoadBitField(f, Unit(f)), f.width))

(* One is two halves *)
Step(t) == CASE t = "pointer" -> ElemWidth [] t = "double" -> 2 [] OTHER -> 1

GenIncDec ==
    /\ Visiting({"code"})
    /\ \E l \in Leaves, by \in {1, -1}, postfix \in BOOLEAN :
        \E v \in Incremented(l.type, 0, l.value, by) :
            LET old == Loaded(l.type, l.value)
                new == Loaded(l.type, old + by * Step(l.type))
            IN  IF postfix THEN Visit("postfix", Leaf(l.type, l.value, old, 0))
                ELSE Visit("prefix", Leaf(l.type, v, new, 0))

(* The same for a bit-field.  Repr() of its address is that of its unit,    *)
(* which is loaded, changed, stored, and yielded.  The field is read again. *)
GenIncDecField ==
    /\ Visiting({"code"})
    /\ \E f \in Fields, by \in {1, -1} :
        LET value == FieldValue(f, f.value)
            old == Loaded(f.type, Unit(f))
            new == Loaded(f.type, old + by * Step(f.type))
        IN  \E x \in Incremented(f.type, f.width, value, by) :
            LET v == FieldValue(f, x)
            IN  \/ Visit("postfix", Leaf(f.type, value, old, f.width))
                \/ Visit("prefix", Leaf(f.type, v, new, f.width))
                \/ Visit("incremented", Leaf(f.type, v, EmitLoadBitField(f, new), f.width))

VisitUnaryOp ==
    /\ stack # <<>> /\ Right(Top)
    /\ Room(0)
    /\ \E op \in UnaryOps :
        /\ LegalUnary(op, Top.type)
        /\ LET t == UnaryType(op, Top.type)
               std == StandardUnaryType(op, Top.type, Top.field)
           IN  \E v \in StandardUnary(op, std, Top.value) :
                 Replace(Expr(t, std, v,
                   IF visitor = "code" THEN {GenUnaryOp(op, Top.type, t, h) : h \in Top.held}
                   ELSE EvalUnary(op, The(Top.held), RightFor("long", Top.type, Top.value)), 0,
                   Top.nodes + 1))
        /\ operator' = op
    /\ UNCHANGED visitor

VisitCast ==
    /\ stack # <<>> /\ Right(Top)
    /\ Room(0)
    /\ \E t \in {l.type : l \in Leaves} :
        /\ LegalCast(Top.type, t)
        /\ <<visitor, t>> \notin {<<"double", "pointer">>, <<"address", "double">>}
        /\ \E v \in Converted(Top.type, t, Top.value) :
            Replace(Expr(t, t, v,
              {IF visitor = "code" THEN GenCastOp(Top.type, t, h) ELSE EvalCast(t, h) : h \in Top.held}, 0,
              Top.nodes + 1))
    /\ operator' = "cast"
    /\ UNCHANGED visitor

(* A value is assigned to a bit-field, which is what the expression yields; *)
(* or the field is read again, or one of the others in its unit             *)
GenAssignField ==
    /\ visitor = "code"
    /\ Len(stack) = 1 /\ Right(Top) /\ Room(0)
    /\ \E f \in Fields :
        /\ LegalCast(Top.type, f.type)
        /\ \E v \in Converted(Top.type, f.type, Top.value) :
            LET unit == EmitStoreBitField(f, GenCastOp(Top.type, f.type, The(Top.held)))
                Result(g, value, b) ==
                    Replace(Expr(f.type, f.type, FieldValue(g, value), {b}, g.width, Top.nodes + 1))
            IN  \/ Result(f, v, unit) /\ operator' = "assign"
                \/ Result(f, v, EmitLoadBitField(f, unit)) /\ operator' = "reread"
                \/ \E g \in Beside(f) :
                    Result(g, g.value, EmitLoadBitField(g, unit)) /\ operator' = "beside"
    /\ UNCHANGED visitor

BinaryOps ==
    Additive \cup {"*", "/", "%", ","} \cup Relational
    \cup BitOps \cup Shifts \cup Logical \cup Chosen

(* an operand with the cast that its operator puts on it *)
Cast(e, t) ==
    [e EXCEPT !.type = t,
              !.value = IF Converted(e.type, t, e.value) = {} THEN 0
                        ELSE The(Converted(e.type, t, e.value)),
              !.held = IF e.type = t \/ visitor = "code" THEN e.held
                       ELSE {EvalCast(t, h) : h \in e.held}]

VisitBinaryOp ==
    /\ Len(stack) = 2 /\ Right(stack[1]) /\ Right(stack[2])
    /\ \E op \in BinaryOps :
        LET l == stack[1]
            r == stack[2]
            lcast == Cast(l, OperandType(op, l.type, l.type, r.type))
            rcast == Cast(r, OperandType(op, r.type, l.type, r.type))
            t == BinaryType(op, l.type, r.type)
            std == StandardBinaryType(op, l, r)
        IN  /\ LegalBinary(op, l.type, r.type)
            /\ \E v \in StandardBinary(op, l, r) :
                stack' = <<Expr(t, std, v,
                    CASE t = "none" -> {}
                      [] visitor = "code" ->
                           GenBinaryOp(op, l.type, r.type, The(l.held), The(r.held))
                      [] OTHER -> EvalBinary(op, l.type, r.type, lcast, rcast,
                                             The(lcast.held), The(rcast.held)),
                    StandardField(op, r), Nodes + 1)>>
            /\ operator' = op
    /\ UNCHANGED visitor

Next ==
    \/ VisitObject \/ VisitConstant \/ VisitFuncCall \/ VisitField
    \/ GenIncDec \/ GenIncDecField
    \/ VisitUnaryOp
    \/ VisitCast
    \/ GenAssignField
    \/ VisitBinaryOp

Spec == Init /\ [][Next]_vars
=============================================================================
