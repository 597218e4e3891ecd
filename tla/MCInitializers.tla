-------------------------- MODULE MCInitializers --------------------------
(***************************************************************************)
(* Objects of thirteen types and lists of up to four items for them, with  *)
(* expressions of an integer, of a struct and literals, in braces of their *)
(* own or not, behind every designator that leads to a subobject and some  *)
(* that lead nowhere.                                                      *)
(*                                                                         *)
(* A member's name in a list for an array without a length, of arrays, is  *)
(* left out: the two loops then put the comma back and read it again       *)
(* without end.  An item with an empty list, which C11 does not have, is   *)
(* left out too.                                                           *)
(***************************************************************************)
EXTENDS Initializers

CONSTANT TurnsPerToken

Integer(width) == [kind |-> "integer", width |-> width]
Array(elem, n) == [kind |-> "array", elem |-> elem, len |-> n]
Member(name, type, at) ==
  [name |-> name, type |-> type, offset |-> at, begin |-> 0, bits |-> 0, anonymous |-> FALSE]
BitField(name, type, at, begin, bits) ==
  [name |-> name, type |-> type, offset |-> at, begin |-> begin, bits |-> bits,
   anonymous |-> FALSE]
Unnamed(type, at) == [Member("", type, at) EXCEPT !.anonymous = TRUE]
Struct(width, members) == [kind |-> "struct", width |-> width, members |-> members]
Union(width, members) == [kind |-> "union", width |-> width, members |-> members]

\* As StructLayout places them.
MCTypes == [
  char   |-> Integer(1),
  short  |-> Integer(2),
  int    |-> Integer(4),
  pair   |-> Array("char", 2),
  text   |-> Array("char", 3),
  open   |-> Array("char", Unknown),
  square |-> Array("pair", 2),
  rows   |-> Array("pair", Unknown),
  lines  |-> Array("text", 2),
  wide   |-> Array("short", 2),
  P      |-> Struct(2, <<Member("x", "char", 0), Member("y", "char", 1)>>),
  S      |-> Struct(4, <<Member("a", "char", 0), Member("b", "short", 2)>>),
  N      |-> Struct(6, <<Member("p", "S", 0), Member("c", "short", 4)>>),
  points |-> Array("P", 2),
  U      |-> Union(2, <<Member("a", "char", 0), Member("b", "short", 0), Member("p", "P", 0)>>),
  H      |-> Struct(4, <<Member("u", "U", 0), Member("c", "char", 2)>>),
  F      |-> Struct(2, <<BitField("a", "short", 0, 0, 3), BitField("b", "short", 0, 3, 7),
                         BitField("c", "short", 1, 2, 5)>>),
  B      |-> Struct(4, <<BitField("a", "int", 0, 0, 17), BitField("b", "int", 2, 1, 3),
                         Member("c", "char", 3)>>),
  inner  |-> Struct(2, <<Member("a", "char", 0), Member("b", "char", 1)>>),
  M      |-> Struct(3, <<Unnamed("inner", 0), Member("d", "char", 2)>>),
  L      |-> Struct(4, <<Member("s", "text", 0), Member("d", "char", 3)>>)]

\* Expressions, and lists of them; values are given later.
Value(type) == [is |-> "expr", type |-> type, value |-> 0]
E == Value("integer")
Text(n) == [is |-> "literal", len |-> n, value |-> 0]
At(i) == [is |-> "index", index |-> i]
Dot(name) == [is |-> "member", name |-> name]
Item(designators, init) == [designators |-> designators, init |-> init]
List(items) == [is |-> "list", items |-> items]
Next1(init) == Item(<<>>, init)

Braces == {E, List(<<Next1(E)>>), List(<<Next1(E), Next1(E)>>)}

\* For each type of an object the designators and the initializers of its items.
ItemsOf == [
  pair   |-> {<<>>, <<At(0)>>, <<At(1)>>, <<At(2)>>, <<Dot("x")>>} \X {E, List(<<Next1(E)>>), Text(2)},
  open   |-> {<<>>, <<At(0)>>, <<At(3)>>} \X {E, List(<<Next1(E)>>)},
  square |-> {<<>>, <<At(0)>>, <<At(1), At(0)>>, <<At(0), At(1)>>, <<Dot("x")>>}
               \X (Braces \cup {List(<<Item(<<At(1)>>, E)>>), Text(2)}),
  wide   |-> {<<>>, <<At(1)>>} \X {E, Text(2)},
  rows   |-> {<<>>, <<At(0)>>, <<At(2)>>, <<At(1), At(1)>>} \X Braces,
  lines  |-> {<<>>, <<At(0)>>, <<At(1)>>, <<At(0), At(2)>>} \X {E, Text(2), Text(4), List(<<Next1(Text(3))>>)},
  N      |-> {<<>>, <<Dot("p")>>, <<Dot("p"), Dot("b")>>, <<Dot("c")>>, <<Dot("x")>>, <<Dot("p"), At(0)>>}
               \X (Braces \cup {Value("S"), List(<<Item(<<Dot("b")>>, E)>>)}),
  points |-> {<<>>, <<At(1)>>, <<At(0), Dot("y")>>, <<At(0), At(0)>>} \X (Braces \cup {Value("P")}),
  U      |-> {<<>>, <<Dot("a")>>, <<Dot("b")>>, <<Dot("p")>>, <<Dot("p"), Dot("x")>>} \X Braces,
  H      |-> {<<>>, <<Dot("u")>>, <<Dot("u"), Dot("b")>>, <<Dot("u"), Dot("p"), Dot("x")>>, <<Dot("c")>>}
               \X (Braces \cup {List(<<Item(<<Dot("b")>>, E)>>)}),
  F      |-> {<<>>, <<Dot("a")>>, <<Dot("b")>>, <<Dot("c")>>} \X {E, List(<<Next1(E)>>)},
  B      |-> {<<>>, <<Dot("a")>>, <<Dot("b")>>, <<Dot("c")>>} \X {E, List(<<Next1(E)>>)},
  M      |-> {<<>>, <<Dot("a")>>, <<Dot("b")>>, <<Dot("d")>>} \X Braces,
  L      |-> {<<>>, <<Dot("s")>>, <<Dot("s"), At(1)>>, <<Dot("d")>>}
               \X {E, Text(2), Text(4), List(<<Next1(Text(3))>>), List(<<Next1(E), Next1(E)>>)}]

Items(t) == {Item(d[1], d[2]) : d \in ItemsOf[t]}
Plainly(items) == {i \in items : i.init = E}
Lists(t) ==
  LET items == Items(t)
  IN  {List(<<i>>) : i \in items}
        \cup {List(<<i, j>>) : i \in items, j \in items}
        \cup {List(<<i, j, k>>) : i \in Plainly(items), j \in items, k \in Plainly(items)}
        \cup {List(<<i, Next1(E), Next1(E), Next1(E)>>) : i \in items}

\* Lists are not all there is.
Alone(t) ==
  {E} \cup (IF t \in {"pair", "open", "lines", "L", "wide"} THEN {Text(2), Text(4)} ELSE {})
      \cup (IF IsStruct(t) THEN {Value(t), Value("S")} ELSE {})

\* Every expression gets a number of its own.
RECURSIVE Numbered(_, _)
Numbered(init, n) ==
  IF init.is # "list" THEN [init EXCEPT !.value = n]
  ELSE List([k \in DOMAIN init.items |->
               [init.items[k] EXCEPT !.init = Numbered(@, 5 * n + k)]])

\* The tokens of an initializer.  Lists of two items end with a comma.
Token(kind) == [is |-> kind]
DesignatorTokens(d) ==
  IF d.is = "index" THEN <<Token("["), d, Token("]")>> ELSE <<Token("."), d>>

RECURSIVE Tokens(_)
Tokens(init) ==
  CASE init.is = "expr" -> <<init>>
    [] init.is = "literal" -> <<[is |-> "literal", len |-> init.len, value |-> init.value,
                                type |-> "address"]>>
    [] init.is = "list" ->
         LET ItemTokens(i) ==
               FlattenSeq([d \in DOMAIN i.designators |-> DesignatorTokens(i.designators[d])])
                 \o (IF i.designators = <<>> THEN <<>> ELSE <<Token("=")>>)
                 \o Tokens(i.init)
             n == Len(init.items)
         IN  <<Token("{")>>
               \o FlattenSeq([k \in 1..n |->
                    ItemTokens(init.items[k])
                      \o (IF k < n \/ n = 2 THEN <<Token(",")>> ELSE <<>>)])
               \o <<Token("}")>>

MCInputs ==
  UNION {{LET init == Numbered(i, 0)
          IN  [type |-> t, init |-> init, tokens |-> Tokens(init)] :
            i \in Alone(t) \cup Lists(t)} : t \in DOMAIN ItemsOf}

-----------------------------------------------------------------------------
Standard == INSTANCE InitStandard
Provisions == Standard!Provisions(object, input.init)

\* Differences to C11 that are known; given are the provisions.

\* After the last element of an array, or a member of a union, the braces have
\* to close, although a designator may go back.
ClosesEarly(given) ==
  \E p \in ToSet(given) :
    LET list == Standard!TypeAt(object, p.list)
    IN  /\ p.previous # Standard!None
        /\ \/ Kind(list) = "union"
           \/ /\ IsArray(list)
              /\ Complete(list)
              /\ p.previous[Len(p.list) + 1] = Types[list].len - 1

\* A part of what was initialized as a whole is initialized again, or the whole
\* after a part.
Occupied(p) == LET r == Standard!Bits(object, p.path, 0) IN r.first..r.first + r.count - 1
PartOverridden(given) ==
  \E i, j \in DOMAIN given :
    /\ i < j
    /\ given[i].init.is # "list"
    /\ Occupied(given[i]) \cap Occupied(given[j]) # {}
    /\ \/ Occupied(given[i]) # Occupied(given[j])
       \/ "literal" \in {given[i].init.is, given[j].init.is}
       \/ given[j].init.is = "list"

\* A literal that no array of char takes is converted, and one without braces
\* is taken for the first row of an array of arrays.
Strayed(given) ==
  \E p \in ToSet(given) : p.path = Standard!None /\ p.init.is = "literal"

\* In an automatic object the unit of a bit-field is read before it is written,
\* and no other bits of it are cleared.
UnitBits ==
  UNION {ByteBits * i.offset .. ByteBits * (i.offset + i.width) - 1 :
           i \in {j \in inits : j.bits # 0}}

Accepted(given) ==
  LET fits == Standard!Legal(given, FALSE)
      legal == Standard!Legal(given, static)
  IN  IF status = "done" THEN legal \/ Strayed(given) \/ (fits /\ PartOverridden(given))
      ELSE ~legal \/ ClosesEarly(given)

\* Initializers are refused exactly if they break a constraint of C11 6.7.9:
\* an excess element, a designator that leads nowhere, a value of the wrong
\* kind, a static object with a value that is not constant.
AcceptsAsStandard == status \in {"refused", "done"} => Accepted(Provisions)

\* The scalar at path holds what it is given, or, in an automatic object, what is
\* left of its unit.
HoldsGiven(given, path, bits) ==
  LET unclear == ~static /\ ~Standard!Given(object, given, path)
  IN  \A b \in bits.first..bits.first + bits.count - 1 :
        \/ image[b] = Standard!BitOf(object, given, path, b - bits.first)
        \/ unclear /\ b \in UnitBits

AsGiven(given, count) ==
  /\ ~Complete(object) => len = count
  /\ \A path \in Standard!Scalars(object, count) :
       Standard!InUse(object, given, path)
         => HoldsGiven(given, path, Standard!Bits(object, path, 0))

Initialized(given) ==
  Standard!Legal(given, static) /\ ~PartOverridden(given) =>
    /\ AsGiven(given, IF Complete(object) THEN 0 ELSE Standard!LengthGiven(given))
    /\ \A b \in DOMAIN image : b >= ByteBits * ObjectWidth => image[b] = Garbage

\* In the order of their offsets, not of the source, and with zeros only between
\* them, the initializers leave in every bit of the object that C11 speaks of
\* the value that the last initializer for it gives it, or zero, and leave the
\* bytes behind the object alone; an array without a length has the length the
\* highest index gives it.
ObjectAsStandard == status = "done" => Initialized(Provisions)

\* Loops that put tokens back for each other end: none of them waits for the
\* others, and together they take a limited number of turns for a token.
TurnsBounded == turns <= TurnsPerToken * Len(tokens)
=============================================================================
