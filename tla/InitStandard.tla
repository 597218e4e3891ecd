---------------------------- MODULE InitStandard --------------------------
(***************************************************************************)
(* What an initializer initializes, C11 6.7.9.  An initializer is a tree:  *)
(* an expression, a string literal, or a list in braces of items, each     *)
(* with the designators in front of it.                                    *)
(*                                                                         *)
(* A subobject is told by the path to it from the object: indices of array *)
(* elements, from 0, and numbers of members, from 1.  A list goes through  *)
(* its current objects (17); an expression goes to the first subobject of  *)
(* the current object that it can initialize (20); a designator begins     *)
(* anew from the object of its list (18).                                  *)
(*                                                                         *)
(* Provisions is the sequence of what is initialized, in the order of the  *)
(* source.  A provision that breaks a constraint has the path None.        *)
(***************************************************************************)
EXTENDS ObjectTypes, SequencesExt

None == <<-1>>

RECURSIVE TypeAt(_, _)
TypeAt(t, path) ==
  IF path = <<>> THEN t
  ELSE TypeAt(IF IsArray(t) THEN Elem(t) ELSE Members(t)[Head(path)].type, Tail(path))

\* The bits of a subobject, from first.
RECURSIVE Bits(_, _, _)
Bits(t, path, at) ==
  IF path = <<>> THEN [first |-> ByteBits * at, count |-> ByteBits * Width(t)]
  ELSE IF IsArray(t) THEN Bits(Elem(t), Tail(path), at + Head(path) * Width(Elem(t)))
  ELSE LET m == Members(t)[Head(path)]
       IN  IF m.bits # 0 THEN [first |-> ByteBits * (at + m.offset) + m.begin, count |-> m.bits]
           ELSE Bits(m.type, Tail(path), IF m.anonymous THEN at ELSE at + m.offset)

FirstOf(t) == IF IsArray(t) THEN 0 ELSE 1
HasNext(t, step) ==
  CASE IsArray(t) -> Complete(t) => step + 1 < Types[t].len
    [] Kind(t) = "struct" -> step < Len(Members(t))
    [] Kind(t) = "union" -> FALSE

\* The subobject after the one at path, in the list for the object at list.
RECURSIVE Following(_, _, _)
Following(t, list, path) ==
  IF Len(path) <= Len(list) THEN None
  ELSE IF HasNext(TypeAt(t, Front(path)), Last(path))
       THEN Append(Front(path), Last(path) + 1)
       ELSE Following(t, list, Front(path))

\* The subobject that designators lead to; a name leads through unnamed members.
RECURSIVE Designated(_, _, _)
Designated(t, path, designators) ==
  IF designators = <<>> THEN path
  ELSE LET d == Head(designators)
           here == TypeAt(t, path)
       IN  CASE d.is = "index" /\ IsArray(here) /\ HasNext(here, d.index - 1) ->
                  Designated(t, Append(path, d.index), Tail(designators))
             [] d.is = "member" /\ IsStruct(here) /\ HasMember(here, d.name) ->
                  LET k == MemberFor(here, d.name)
                  IN  Designated(t, Append(path, k),
                        IF Members(here)[k].anonymous THEN designators ELSE Tail(designators))
             [] OTHER -> None

Fits(t, init) ==
  CASE init.is = "literal" -> IsArray(t) /\ IsChar(Elem(t))
    [] init.is = "expr" -> IF IsInteger(t) THEN init.type = "integer" ELSE init.type = t

\* The first subobject on the way into path that the expression initializes.
RECURSIVE Descended(_, _, _)
Descended(t, path, init) ==
  LET here == TypeAt(t, path)
  IN  IF Fits(here, init) THEN path
      ELSE IF IsInteger(here) THEN None
      ELSE Descended(t, Append(path, FirstOf(here)), init)

\* A list of one expression without designators is that in braces.
InBraces(init) == Len(init.items) = 1 /\ init.items[1].designators = <<>>
Braced(t, init) ==
  /\ InBraces(init)
  /\ init.items[1].init.is # "list"
  /\ Fits(t, init.items[1].init)
  /\ ~IsStruct(t)

Provision(path, init, list, previous) ==
  [path |-> path, init |-> init, list |-> list, previous |-> previous]

\* The subobject that an item is for, if current is the current object, and the
\* one that its initializer goes to.
Target(t, list, item, current) ==
  IF item.designators = <<>> THEN current ELSE Designated(t, list, item.designators)
Reached(t, target, init) ==
  IF target = None \/ init.is = "list" THEN target ELSE Descended(t, target, init)

\* What the provision here stands for, whose subobject has the given type:
\* itself, the expression in its braces, or itself and the items in them.
RECURSIVE Listed(_, _, _, _, _, _)
RECURSIVE Unfolded(_, _, _)
Unfolded(t, here, type) ==
  CASE here.path = None \/ here.init.is # "list" -> <<here>>
    [] OTHER ->
         IF Braced(type, here.init) THEN <<[here EXCEPT !.init = @.items[1].init]>>
         ELSE IF IsInteger(type)
         THEN <<[here EXCEPT !.path = None,
                             !.init = IF InBraces(@) THEN @.items[1].init ELSE @]>>
         ELSE <<here>> \o Listed(t, here.path, here.init.items, 1,
                                 Append(here.path, FirstOf(type)), None)

\* The provisions of the items from k on of a list for the object at list, where
\* the item k goes to path; previous is what the item before initialized.
RECURSIVE ListedAt(_, _, _, _, _, _)
ListedAt(t, list, items, k, path, previous) ==
  Unfolded(t, Provision(path, items[k].init, list,
                        IF items[k].designators = <<>> THEN None ELSE previous),
           TypeAt(t, path))
    \o Listed(t, list, items, k + 1,
              IF path = None THEN None ELSE Following(t, list, path), path)

\* The same, where current is the current object of the item k.
Listed(t, list, items, k, current, previous) ==
  IF k > Len(items) THEN <<>>
  ELSE ListedAt(t, list, items, k,
                Reached(t, Target(t, list, items[k], current), items[k].init), previous)

\* The object itself is initialized by a list, by an expression that fits, or
\* by a literal.
Provisions(t, init) ==
  IF init.is = "list" /\ ~Braced(t, init) /\ ~IsInteger(t)
  THEN Listed(t, <<>>, init.items, 1, <<FirstOf(t)>>, None)
  ELSE LET value == IF init.is = "list" /\ Braced(t, init) THEN init.items[1].init ELSE init
       IN  <<Provision(IF value.is # "list" /\ Fits(t, value) THEN <<>> ELSE None,
                       value, <<>>, None)>>

\* A static object takes constants.
Legal(provisions, static) ==
  \A i \in DOMAIN provisions :
    /\ provisions[i].path # None
    /\ static => provisions[i].init.is # "expr" \/ provisions[i].init.type = "integer"

\* The number of elements of an array declared without one.
LengthGiven(provisions) ==
  Max({IF p.path = <<>> THEN p.init.len ELSE p.path[1] + 1 : p \in ToSet(provisions)})

\* The paths to the integers of an object; len is for an array without a length.
RECURSIVE Scalars(_, _)
Scalars(t, len) ==
  IF IsInteger(t) THEN {<<>>}
  ELSE LET steps == IF IsArray(t) THEN 0..(IF Complete(t) THEN Types[t].len ELSE len) - 1
                    ELSE 1..Len(Members(t))
       IN  UNION {{<<s>> \o p : p \in Scalars(TypeAt(t, <<s>>), len)} : s \in steps}

\* The provisions for what path is part of, or for path itself.
For(provisions, path) == {i \in DOMAIN provisions : IsPrefix(provisions[i].path, path)}

\* The member that a union at path holds: that of the last provision for one,
\* or the first.
Holds(t, provisions, path) ==
  LET into == {i \in DOMAIN provisions : IsStrictPrefix(path, provisions[i].path)}
      whole == For(provisions, path)
  IN  IF into = {} \/ (whole # {} /\ Max(whole) > Max(into)) THEN 1
      ELSE provisions[Max(into)].path[Len(path) + 1]

InUse(t, provisions, path) ==
  \A k \in 1..Len(path) :
    Kind(TypeAt(t, SubSeq(path, 1, k - 1))) = "union"
      => path[k] = Holds(t, provisions, SubSeq(path, 1, k - 1))

\* The last provision for an integer, or 0: where there is none, and where it is
\* a list that says no more of it, or a literal that is shorter, the integer is
\* zero (19, 21).
LastFor(provisions, path) == Max({0} \cup For(provisions, path))
Given(t, provisions, path) ==
  LET i == LastFor(provisions, path)
      init == provisions[i].init
  IN  /\ i # 0
      /\ init.is # "list"
      /\ init.is = "literal" => Last(path) < init.len

\* The bit b of the integer at path.
BitOf(t, provisions, path, b) ==
  LET whole == provisions[LastFor(provisions, path)]
  IN  IF Given(t, provisions, path)
      THEN <<whole.init.value, Bits(t, path, 0).first - Bits(t, whole.path, 0).first + b>>
      ELSE <<0, 0>>
=============================================================================
