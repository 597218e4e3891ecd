--------------------------- MODULE Initializers ---------------------------
(***************************************************************************)
(* The initializer of an object, from the tokens to the bytes.             *)
(*                                                                         *)
(* The parser (Parser::ParseInitializer and what it calls) walks the type  *)
(* and the tokens together.  calls has its loops in progress, innermost    *)
(* last: a record for each ParseArrayInitializer and ParseStructInitializer*)
(* with their local variables.  A turn of a loop is two actions, up to the *)
(* call of ParseInitializer for an element and from its return.  What      *)
(* comes out is inits, the ordered set Declaration::inits_.                *)
(*                                                                         *)
(* The generator then walks that set: for an object on the stack with a    *)
(* store for each initializer and zeros stored between them, for a static  *)
(* one with directives one after the other.                                *)
(*                                                                         *)
(* An expression is one token, and its value is told by the token's        *)
(* identity: image maps a bit of the object to the token and the bit of    *)
(* its value that is there, to Zero, or to Garbage.                        *)
(***************************************************************************)
EXTENDS ObjectTypes, SequencesExt

CONSTANTS
  Inputs,        \* records: type, the object's, and tokens, its initializer's
  Margin         \* bytes behind the object that the image covers

VARIABLES
  input, static,                      \* the declaration and its storage
  status,
  pos, calls, inits, len,             \* the parser
  turns,                              \* history: of its loops
  rest, offset, place, image          \* the generator

parser == <<pos, calls, inits, len>>
generator == <<rest, offset, place, image>>
vars == <<input, static, status, parser, turns, generator>>

object == input.type
tokens == input.tokens

Garbage == <<-1, 0>>
Zero == <<0, 0>>

ObjectWidth ==
  IF Complete(object) THEN Width(object) ELSE len * Width(Elem(object))

Init ==
  /\ input \in Inputs
  /\ static \in BOOLEAN
  /\ status = "parsing"
  /\ pos = 1
  /\ calls = <<>>
  /\ inits = {}
  /\ len = Unknown
  /\ turns = 0
  /\ rest = <<>>
  /\ offset = 0
  /\ place = 0
  /\ image = <<>>

-----------------------------------------------------------------------------
(* The parser. *)

Is(i, kind) == i \in DOMAIN tokens /\ tokens[i].is = kind
IsExpr(i) == Is(i, "expr") \/ Is(i, "literal")
IsDesignator(i) == Is(i, ".") \/ Is(i, "[")
Try(i, kind) == IF Is(i, kind) THEN i + 1 ELSE i

\* Initializers are ordered by byte and first bit; an equal one is replaced.
Before(i, j) == i.offset < j.offset \/ (i.offset = j.offset /\ i.begin < j.begin)

\* A bug to be caught: an equal initializer is not replaced.
AddUnlessThere(set, new) ==
  set \cup {i \in {new} : \A j \in set : Before(i, j) \/ Before(j, i)}
Add(set, new) == {i \in set : Before(i, new) \/ Before(new, i)} \cup {new}

Plain == [begin |-> 0, bits |-> 0]

Initializer(kind, width, at, field, i, from) ==
  [kind |-> kind, width |-> width, offset |-> at, begin |-> field.begin,
   bits |-> field.bits, value |-> tokens[i].value, from |-> from]

Top == Last(calls)
Callers == Front(calls)

\* Error() ends the compilation.
Refuse == status' = "refused" /\ UNCHANGED <<pos, calls>>
Error == Refuse /\ UNCHANGED <<inits, len>>

\* ParseInitializer, or a loop, returns to the loops in stack.
Return(stack, i) == calls' = stack /\ pos' = i /\ UNCHANGED status

Enter(stack, i, type, at, designated) ==
  /\ calls' = Append(stack,
       [type |-> type, at |-> at, designated |-> designated, brace |-> Is(i, "{"),
        next |-> IF IsArray(type) THEN 0 ELSE 1, turn |-> "begin"])
  /\ pos' = Try(i, "{")
  /\ UNCHANGED status

\* A literal is cut into the largest units that fit.
Chunks(width) ==
  {[at |-> 8 * k, width |-> 8] : k \in 0..(width \div 8) - 1}
    \cup {[at |-> width - (width % (2 * u)), width |-> u] :
            u \in {v \in {4, 2, 1} : width % (2 * v) >= v}}

\* An expression that may be in braces, with a comma behind it.  Behind is the
\* position after it.
ClosedAt(i) == Try(Try(i, "{") + 1, ",")
Unclosed(i) == Is(i, "{") /\ ~Is(ClosedAt(i), "}")
Behind(i) == IF Is(i, "{") THEN ClosedAt(i) + 1 ELSE i + 1

\* Otherwise ParseLiteralInitializer puts the brace back and is not concerned.
LiteralFor(type, i) == IsInteger(Elem(type)) /\ Is(Try(i, "{"), "literal")

AddLiteral(stack, i, type, at) ==
  LET first == Try(i, "{")
      size == tokens[first].len
      width == IF Complete(type) THEN Min({Width(type), size}) ELSE size
      New(c) == Initializer("integer", c.width, at + c.at, Plain, first, ByteBits * c.at)
  IN  /\ inits' = FoldSet(LAMBDA c, set : Add(set, New(c)), inits, Chunks(width))
      /\ len' = IF Complete(type) THEN len ELSE size
      /\ Return(stack, Behind(i))

ArrayInitializer(stack, i, type, at, designated, forceBrace) ==
  IF forceBrace /\ ~Is(i, "{") /\ ~Is(i, "literal") THEN Error
  ELSE IF LiteralFor(type, i)
  THEN IF Unclosed(i) THEN Error ELSE AddLiteral(stack, i, type, at)
  ELSE /\ Enter(stack, i, type, at, designated)
       /\ len' = IF Complete(type) THEN len ELSE 0
       /\ UNCHANGED inits

\* An expression of the struct's type is its initializer; any other is read
\* again, by the loop over the members.
StructInitializer(stack, i, type, at, designated, forceBrace) ==
  LET trial == ~Is(i, ".") /\ ~Is(i, "{")
      taken == trial /\ IsExpr(i) /\ tokens[i].type = type
  IN  IF trial /\ ~taken /\ (forceBrace \/ ~IsExpr(i)) THEN Error
      ELSE /\ UNCHANGED len
           /\ IF taken
              THEN /\ inits' = Add(inits, Initializer("struct", Width(type), at, Plain, i, 0))
                   /\ Return(stack, i + 1)
              ELSE Enter(stack, i, type, at, designated) /\ UNCHANGED inits

\* AddInit casts.  A struct cannot be cast to an integer, the address of a
\* literal can.
ScalarInitializer(stack, i, type, at, field) ==
  LET first == Try(i, "{")
  IN  IF ~IsExpr(first) \/ Unclosed(i) THEN Error
      ELSE IF tokens[first].type \in StructTypes THEN Error
      ELSE /\ inits' = Add(inits,
                Initializer(IF Is(first, "literal") THEN "address" ELSE "integer",
                            Width(type), at, field, first, 0))
           /\ Return(stack, Behind(i))
           /\ UNCHANGED len

ParseInitializer(stack, i, type, at, designated, forceBrace, field) ==
  LET expects == designated /\ ~IsDesignator(i)
      j == IF expects THEN i + 1 ELSE i
  IN  IF expects /\ ~Is(i, "=") THEN Error
      ELSE \/ /\ IsArray(type)
              /\ ArrayInitializer(stack, j, type, at, designated, forceBrace)
           \/ /\ IsStruct(type)
              /\ StructInitializer(stack, j, type, at, designated, forceBrace)
           \/ /\ IsInteger(type)
              /\ ScalarInitializer(stack, j, type, at, field)

\* The end of either loop after a break.
Close ==
  LET close == Try(pos, ",")
  IN  IF ~Top.brace THEN Return(Callers, pos)
      ELSE IF Is(close, "}") THEN Return(Callers, close + 1)
      ELSE Refuse

\* The turn ends with a comma and the next begins, or the loop returns.
Comma ==
  IF Is(pos, ",")
  THEN Return(Append(Callers, [Top EXCEPT !.next = @ + 1, !.turn = "begin"]), pos + 1)
  ELSE IF ~Top.brace THEN Return(Callers, pos)
  ELSE IF Is(pos, "}") THEN Return(Callers, pos + 1)
  ELSE Refuse

\* What both loops look at first.  The token put back is the comma that the
\* previous turn has read.

\* A bug to be caught: the designator a loop was entered with ends it.
LeavesDesignated == Is(pos, "}") \/ (~Top.brace /\ IsDesignator(pos))
Leaves == Is(pos, "}") \/ (~Top.designated /\ ~Top.brace /\ IsDesignator(pos))

\* A bug to be caught: the comma that was read is not put back.
LeaveBehindComma ==
  /\ Return(Callers, IF Is(pos, "}") /\ Top.brace THEN pos + 1 ELSE pos)
  /\ UNCHANGED <<inits, len>>
Leave ==
  /\ Return(Callers, IF ~Is(pos, "}") THEN pos - 1
                     ELSE IF Top.brace THEN pos + 1
                     ELSE pos)
  /\ UNCHANGED <<inits, len>>

\* The loop's frame while ParseInitializer is called for the element next.
Calling(next) ==
  Append(Callers, [Top EXCEPT !.designated = FALSE, !.next = next, !.turn = "end"])

Parsing == status = "parsing" /\ UNCHANGED <<input, static, generator>>
InLoop(kinds, turn) ==
  /\ Parsing
  /\ calls # <<>>
  /\ Kind(Top.type) \in kinds
  /\ Top.turn = turn
  /\ turns' = turns + 1

Begin ==
  /\ Parsing
  /\ calls = <<>>
  /\ pos = 1
  /\ UNCHANGED turns
  /\ ParseInitializer(<<>>, 1, object, 0, FALSE, TRUE, Plain)

ArrayBegin ==
  /\ InLoop({"array"}, "begin")
  /\ LET designated == Is(pos, "[")
         idx == IF designated THEN tokens[pos + 1].index ELSE Top.next
         type == Elem(Top.type)
     IN  IF Leaves THEN Leave
         ELSE IF designated /\ Complete(Top.type) /\ idx >= Types[Top.type].len THEN Error
         ELSE ParseInitializer(Calling(idx), IF designated THEN pos + 3 ELSE pos, type,
                               Top.at + idx * Width(type), designated, FALSE, Plain)

ArrayEnd ==
  /\ InLoop({"array"}, "end")
  /\ LET next == Top.next + 1
     IN  IF Complete(Top.type) /\ next >= Types[Top.type].len
         THEN Close /\ UNCHANGED len
         ELSE /\ Comma
              /\ len' = IF Complete(Top.type) THEN len ELSE Max({len, next})
  /\ UNCHANGED inits

StructBegin ==
  /\ InLoop({"struct", "union"}, "begin")
  /\ LET type == Top.type
         designated == Is(pos, ".")
         name == tokens[pos + 1].name
         next == IF designated THEN MemberFor(type, name) ELSE Top.next
         m == Members(type)[next]
     IN  IF Leaves THEN Leave
         ELSE IF designated /\ ~HasMember(type, name) THEN Error
         ELSE IF ~designated /\ next > Len(Members(type))
         THEN Close /\ UNCHANGED <<inits, len>>
         ELSE ParseInitializer(Calling(next),
                IF designated /\ ~m.anonymous THEN pos + 2 ELSE pos, m.type,
                IF m.anonymous THEN Top.at ELSE Top.at + m.offset,
                designated, FALSE, [begin |-> m.begin, bits |-> m.bits])

StructEnd ==
  /\ InLoop({"struct", "union"}, "end")
  /\ IF \/ Kind(Top.type) = "union"
        \/ ~Top.brace /\ Top.next = Len(Members(Top.type))
     THEN Close
     ELSE Comma
  /\ UNCHANGED <<inits, len>>

\* Back in ParseInitDeclarator.  The token behind the initializer has to be the
\* end of the declaration.
Finish ==
  /\ Parsing
  /\ calls = <<>>
  /\ pos > 1
  /\ status' = IF pos <= Len(tokens) THEN "refused" ELSE "parsed"
  /\ UNCHANGED <<parser, turns>>

-----------------------------------------------------------------------------
(* The generator. *)

Generating(from, to) ==
  /\ status = from
  /\ status' = to
  /\ UNCHANGED <<input, static, parser, turns>>

\* The iterator over inits starts, and the object's bytes are what was there.
Generate ==
  /\ Generating("parsed", IF static THEN "static" ELSE "auto")
  /\ rest' = SetToSortSeq(inits, Before)
  /\ offset' = 0
  /\ place' = 0
  /\ image' = [b \in 0..ByteBits * (ObjectWidth + Margin) - 1 |-> Garbage]

\* Zeros to the bytes from first to last; nothing if that is less than none.
Zeroed(memory, first, last) ==
  [b \in DOMAIN memory |->
     IF b >= ByteBits * first /\ b < ByteBits * last THEN Zero ELSE memory[b]]

\* A bit-field changes its bits of the unit it is in.
Stored(memory, i, at) ==
  LET first == ByteBits * at + i.begin
      bits == IF i.bits = 0 THEN ByteBits * i.width ELSE i.bits
  IN  [b \in DOMAIN memory |->
         IF b \in first..first + bits - 1 THEN <<i.value, i.from + b - first>> ELSE memory[b]]

\* VisitDeclaration's loop; offset is lastEnd, from the object's begin.
Store ==
  LET i == Head(rest)
  IN  /\ rest # <<>>
      /\ Generating("auto", "auto")
      /\ image' = Stored(Zeroed(image, offset, i.offset), i, i.offset)
      /\ offset' = i.offset + i.width
      /\ rest' = Tail(rest)
      /\ UNCHANGED place

StoreEnd ==
  /\ rest = <<>>
  /\ Generating("auto", "done")
  /\ image' = Zeroed(image, offset, ObjectWidth)
  /\ offset' = ObjectWidth
  /\ UNCHANGED <<rest, place>>

\* A byte of bit-fields: those of s that begin in the byte at, or have bits left
\* for it, from the bit where the last one ended.
RECURSIVE BitFieldByte(_, _, _, _)
BitFieldByte(s, at, end, byte) ==
  IF s = <<>> \/ end >= ByteBits THEN [byte |-> byte, rest |-> s]
  ELSE IF Head(s).offset > at THEN [byte |-> byte, rest |-> s]
  ELSE LET i == Head(s)
           begin == IF i.offset < at THEN 0 ELSE i.begin
           left == IF i.offset < at
                   THEN i.bits - (ByteBits - i.begin) - ByteBits * (at - i.offset - 1)
                   ELSE i.bits
           taken == Min({ByteBits - begin, left})
       IN  BitFieldByte(IF left <= taken THEN Tail(s) ELSE s, at, begin + taken,
             [b \in 0..ByteBits - 1 |->
                IF b \in begin..begin + taken - 1
                THEN <<i.value, i.bits - left + b - begin>> ELSE byte[b]])

\* GenStaticDecl's loop: directives that fill the bytes from place on.  What the
\* generator takes for the place is offset.
Directive(at, width, content) ==
  LET skipped == Max({0, at - offset})
      begin == ByteBits * (place + skipped)
  IN  /\ image' = [b \in DOMAIN image |->
           IF b \in begin..begin + ByteBits * width - 1 THEN content[b - begin]
           ELSE Zeroed(image, place, place + skipped)[b]]
      /\ offset' = at + width
      /\ place' = place + skipped + width

Emit ==
  LET i == Head(rest)
      at == Max({i.offset, offset})
      byte == BitFieldByte(rest, at, 0, [b \in 0..ByteBits - 1 |-> Zero])
  IN  /\ rest # <<>>
      /\ i.kind = "integer"
      /\ Generating("static", "static")
      /\ IF i.bits = 0
         THEN /\ Directive(i.offset, i.width,
                             [b \in 0..ByteBits * i.width - 1 |-> <<i.value, i.from + b>>])
              /\ rest' = Tail(rest)
         ELSE /\ Directive(at, 1, byte.byte)
              /\ rest' = byte.rest

\* "initializer element is not constant"
NotConstant ==
  /\ rest # <<>>
  /\ Head(rest).kind # "integer"
  /\ Generating("static", "refused")
  /\ UNCHANGED generator

EmitEnd ==
  /\ rest = <<>>
  /\ Generating("static", "done")
  /\ image' = Zeroed(image, place, place + Max({0, ObjectWidth - offset}))
  /\ place' = place + Max({0, ObjectWidth - offset})
  /\ UNCHANGED <<rest, offset>>

Stopped == status \in {"done", "refused"} /\ UNCHANGED vars

Next ==
  \/ Begin \/ ArrayBegin \/ ArrayEnd \/ StructBegin \/ StructEnd \/ Finish
  \/ Generate \/ Store \/ StoreEnd \/ Emit \/ NotConstant \/ EmitEnd
  \/ Stopped

Spec == Init /\ [][Next]_vars
=============================================================================
