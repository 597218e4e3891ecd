--------------------------- MODULE StructLayout ---------------------------
(***************************************************************************)
(* How the parser lays out struct and union types: ParseStructUnionDecl()  *)
(* and ParseBitField() of src/src/parser.cc over the member functions of   *)
(* StructType in src/src/type.cc.                                          *)
(*                                                                         *)
(* A type is in definition between its braces; definitions nest, and only  *)
(* the innermost grows.  Its members are Objects, allocated in the order   *)
(* of the declarations; a name is the Object it denotes.  The members of   *)
(* an unnamed, untagged struct are moved into the enclosing type: the same *)
(* Objects, with their offsets changed where they are.  A declaration that *)
(* the parser rejects ends the compilation and is left out.                *)
(***************************************************************************)
EXTENDS Alignment, SequencesExt

CONSTANTS
  Structs,        \* the struct and union types of the program
  Tagged,         \* those with a tag
  Scalars,        \* the other types of members, arrays included
  Integral,       \* those a bit-field may have
  ScalarWidth, ScalarAlign,
  Alignas,        \* the alignments _Alignas may ask for
  BitWidths,      \* the widths of bit-fields
  MaxMembers      \* MaxMembers[s] bounds the Objects of the type s

ASSUME ScalarsAssumption ==
  /\ Structs \cap Scalars = {}
  /\ Integral \subseteq Scalars
  /\ ScalarWidth \in [Scalars -> Nat]
  /\ ScalarAlign \in [Scalars -> Nat \ {0}]
  /\ \A k \in Integral : ScalarWidth[k] \in 1..8
  /\ Alignas \subseteq Nat \ {0}
  /\ BitWidths \subseteq Nat
  /\ MaxMembers \in [Structs -> Nat]
  /\ Tagged \subseteq Structs

\* Powers of 2, ParseAlignas() accepts no other: of two alignments one divides the other.
ASSUME AlignmentsAssumption ==
  \A a, b \in Alignas \cup Range(ScalarAlign) : a % b = 0 \/ b % a = 0

VARIABLES
  open,     \* the types in definition, the innermost last
  type,     \* type[s]: the StructType of s
  object    \* object[s]: the Objects its declarations made

vars == <<open, type, object>>

Kinds == Scalars \cup Structs

\* bits is bitFieldWidth_, 0 for a member that is no bit-field.  members_ is in the
\* order of the declarations, so that the indices of its Objects say it all.
Object == [kind : Kinds, width : Nat, off : Nat, align : Nat \ {0},
           begin : 0..7, bits : 0..255, anonymous : BOOLEAN]
Ids == Structs \X (Nat \ {0})

StructType == [state : {"undeclared", "open", "complete"},
               isStruct : BOOLEAN,
               members : SUBSET Nat, memberMap : SUBSET Ids,
               offset : Nat, width : Nat, align : Nat \ {0}, bitFieldAlign : Nat \ {0}]

Undeclared == [state |-> "undeclared", isStruct |-> TRUE,
               members |-> {}, memberMap |-> {},
               offset |-> 0, width |-> 0, align |-> 1, bitFieldAlign |-> 1]

TypeOK ==
  /\ open \in Seq(Structs)
  /\ type \in [Structs -> StructType]
  /\ object \in [Structs -> Seq(Object)]
  /\ \A s \in Structs : Len(object[s]) <= MaxMembers[s]

Init ==
  /\ open = <<>>
  /\ type = [s \in Structs |-> Undeclared]
  /\ object = [s \in Structs |-> <<>>]

-----------------------------------------------------------------------------
WidthOf(k) == IF k \in Scalars THEN ScalarWidth[k] ELSE type[k].width
AlignOf(k) == IF k \in Scalars THEN ScalarAlign[k] ELSE type[k].align
Usable(k) == k \in Structs => type[k].state = "complete"

\* The type that the next declaration extends, and the Object it makes.
InDefinition(s) == open # <<>> /\ s = Last(open) /\ Len(object[s]) < MaxMembers[s]
NextId(s) == <<s, Len(object[s]) + 1>>

NewMember(k, width, off, align) ==
  [kind |-> k, width |-> width, off |-> off, align |-> align,
   begin |-> 0, bits |-> 0, anonymous |-> FALSE]

BitFieldEnd(m) == (m.begin + m.bits) % 256
Bytes(bits) == MakeAlign(bits, 8) \div 8

\* A bug to be caught: the size of a struct not rounded up.
GrowStructUnrounded(t, end, align) == [t EXCEPT !.offset = end, !.width = end]

\* A struct ends after its last member, a union is as wide as its widest.
GrowStruct(t, end, align) == [t EXCEPT !.offset = end, !.width = MakeAlign(end, align)]

AddMember(t, id, m) ==
  LET grown == [t EXCEPT !.members = @ \cup {id[2]},
                         !.memberMap = @ \cup {id},
                         !.align = Larger(@, m.align),
                         !.bitFieldAlign = Larger(@, Larger(t.align, m.align))]
  IN  IF t.isStruct THEN GrowStruct(grown, m.off + m.width, grown.align)
      ELSE [grown EXCEPT !.width = MakeAlign(Larger(@, m.width), grown.align)]

\* A bug to be caught: a union as wide as its last bit-field.
AddBitFieldLast(t, id, m) ==
  LET grown == [t EXCEPT !.members = @ \cup {id[2]},
                         !.memberMap = IF m.anonymous THEN @ ELSE @ \cup {id},
                         !.bitFieldAlign = Larger(@, m.align)]
  IN  IF t.isStruct
      THEN GrowStruct(grown, m.off + Bytes(BitFieldEnd(m)), grown.bitFieldAlign)
      ELSE [grown EXCEPT !.width = m.width]

AddBitField(t, id, m) ==
  LET grown == [t EXCEPT !.members = @ \cup {id[2]},
                         !.memberMap = IF m.anonymous THEN @ ELSE @ \cup {id},
                         !.bitFieldAlign = Larger(@, m.align)]
  IN  IF t.isStruct
      THEN GrowStruct(grown, m.off + Bytes(BitFieldEnd(m)), grown.bitFieldAlign)
      ELSE [grown EXCEPT !.width = Larger(@, m.width)]

\* A bug to be caught: the alignment of a moved struct not passed on.
MergeAnonyUnaligned(t, id, m, inner) ==
  LET grown == [t EXCEPT !.members = @ \cup {id[2]},
                         !.memberMap = @ \cup inner.memberMap]
  IN  IF t.isStruct THEN GrowStruct(grown, m.off + m.width, grown.align)
      ELSE [grown EXCEPT !.width = Larger(@, m.width)]

MergeAnony(t, id, m, inner) ==
  LET grown == [t EXCEPT !.members = @ \cup {id[2]},
                         !.memberMap = @ \cup inner.memberMap,
                         !.align = Larger(@, m.align)]
  IN  IF t.isStruct THEN GrowStruct(grown, m.off + m.width, grown.align)
      ELSE [grown EXCEPT !.width = Larger(@, m.width)]

-----------------------------------------------------------------------------
Declare(s, m, t) ==
  /\ object' = [object EXCEPT ![s] = Append(@, m)]
  /\ type' = [type EXCEPT ![s] = t]
  /\ UNCHANGED open

\* A bug to be caught: a complete type is defined again.
BeginAgain(s, isStruct) ==
  /\ type[s].state \in {"undeclared", "complete"}
  /\ open' = Append(open, s)
  /\ type' = [type EXCEPT ![s].state = "open", ![s].isStruct = isStruct]
  /\ UNCHANGED object

Begin(s, isStruct) ==
  /\ type[s].state = "undeclared"
  /\ open' = Append(open, s)
  /\ type' = [type EXCEPT ![s].state = "open", ![s].isStruct = isStruct]
  /\ UNCHANGED object

DeclareMember(s, k, align) ==
  LET m == NewMember(k, WidthOf(k), MakeAlign(type[s].offset, align), align)
  IN  /\ InDefinition(s)
      /\ Usable(k)
      /\ align \in Alignas \cup {AlignOf(k)}
      /\ Declare(s, m, AddMember(type[s], NextId(s), m))

\* A bug to be caught: the width kept as it was computed, negative or not.
BitFieldOfInt(k, off, begin, bits, named) ==
  [kind |-> k, width |-> ScalarWidth[k], off |-> off, align |-> ScalarAlign[k],
   begin |-> begin, bits |-> bits, anonymous |-> ~named]

\* A bit-field of the type k.  Its width is told by an unsigned char.
BitFieldOf(k, off, begin, bits, named) ==
  [kind |-> k, width |-> ScalarWidth[k], off |-> off, align |-> ScalarAlign[k],
   begin |-> begin, bits |-> bits % 256, anonymous |-> ~named]

\* A bug to be caught: the first bit of the last bit-field forgotten.
TotalBitsFromZero(last) ==
  last.off * 8 + (IF last.bits > 0 THEN last.bits ELSE last.width * 8)

\* Where the member before a bit-field ends.
TotalBits(last) ==
  last.off * 8 + (IF last.bits > 0 THEN BitFieldEnd(last) ELSE last.width * 8)

Total(s) == TotalBits(Last(object[s]))

\* Nothing to share a unit with.
StartsUnit(s) == ~type[s].isStruct \/ object[s] = <<>>

\* A width of 0 stands for what the first unit has left, however far the members reach.
BitsAsked(s, k, w) == IF w = 0 THEN ScalarWidth[k] * 8 - Total(s) ELSE w
UnitHolds(s, k, bits) == bits + Total(s) <= ScalarWidth[k] * 8

DeclareBitFieldAt(s, k, off, begin, bits, named) ==
  LET m == BitFieldOf(k, off, begin, bits, named)
  IN  Declare(s, m, AddBitField(type[s], NextId(s), m))

LegalBitField(s, k, w, named) ==
  /\ InDefinition(s)
  /\ w <= ScalarWidth[k] * 8
  /\ named => w > 0

BitFieldFirst(s, k, w, named) ==
  /\ LegalBitField(s, k, w, named)
  /\ StartsUnit(s)
  /\ DeclareBitFieldAt(s, k, 0, 0, w, named)

BitFieldPacked(s, k, w, named) ==
  /\ LegalBitField(s, k, w, named)
  /\ ~StartsUnit(s)
  /\ BitsAsked(s, k, w) # 0
  /\ UnitHolds(s, k, BitsAsked(s, k, w))
  /\ DeclareBitFieldAt(s, k, Total(s) \div 8, Total(s) % 8, BitsAsked(s, k, w), named)

BitFieldNextUnit(s, k, w, named) ==
  /\ LegalBitField(s, k, w, named)
  /\ ~StartsUnit(s)
  /\ BitsAsked(s, k, w) # 0
  /\ ~UnitHolds(s, k, BitsAsked(s, k, w))
  /\ DeclareBitFieldAt(s, k, MakeAlign(type[s].offset, ScalarWidth[k]), 0,
                       BitsAsked(s, k, w), named)

\* The Objects of r, with those that map names moved.
Moved(r, map, by) ==
  [i \in DOMAIN object[r] |->
     IF <<r, i>> \in map THEN [object[r][i] EXCEPT !.off = @ + by] ELSE object[r][i]]

\* "struct { ... } ;" inside of s, or the name of a typedef of one.
DeclareAnonymous(s, inner) ==
  LET off == MakeAlign(type[s].offset, AlignOf(inner))
      map == type[inner].memberMap
      m == [NewMember(inner, WidthOf(inner), off, AlignOf(inner)) EXCEPT !.anonymous = TRUE]
  IN  /\ InDefinition(s)
      /\ type[inner].state = "complete" /\ inner \notin Tagged
      /\ type[s].memberMap \cap map = {}
      /\ object' = [r \in Structs |-> IF r = s THEN Append(Moved(s, map, off), m)
                                      ELSE Moved(r, map, off)]
      /\ type' = [type EXCEPT ![s] = MergeAnony(type[s], NextId(s), m, type[inner])]
      /\ UNCHANGED open

\* Unnamed bit-fields leave the members.
Finalize(t, objects) ==
  [t EXCEPT !.state = "complete",
            !.members = {i \in @ : ~(objects[i].bits > 0 /\ objects[i].anonymous)}]

Complete(s, t, objects) ==
  /\ open' = Front(open)
  /\ type' = [type EXCEPT ![s] = Finalize(t, objects)]

\* "T name[]; }", of width 0.
DeclareFlexible(s, k, align) ==
  LET m == NewMember(k, 0, MakeAlign(type[s].offset, align), align)
  IN  /\ InDefinition(s)
      /\ type[s].isStruct /\ type[s].memberMap # {}
      /\ Usable(k)
      /\ align \in Alignas \cup {AlignOf(k)}
      /\ object' = [object EXCEPT ![s] = Append(@, m)]
      /\ Complete(s, AddMember(type[s], NextId(s), m), Append(object[s], m))

End(s) ==
  /\ open # <<>> /\ s = Last(open)
  /\ Complete(s, type[s], object[s])
  /\ UNCHANGED object

DeclareBitField(s, k, w, named) ==
  \/ BitFieldFirst(s, k, w, named)
  \/ BitFieldPacked(s, k, w, named)
  \/ BitFieldNextUnit(s, k, w, named)

Next ==
  \E s \in Structs :
    \/ \E isStruct \in BOOLEAN : Begin(s, isStruct)
    \/ \E k \in Kinds : \E align \in Alignas \cup {AlignOf(k)} :
         DeclareMember(s, k, align) \/ DeclareFlexible(s, k, align)
    \/ \E k \in Integral, w \in BitWidths, named \in BOOLEAN : DeclareBitField(s, k, w, named)
    \/ \E inner \in Structs : DeclareAnonymous(s, inner)
    \/ End(s)

Spec == Init /\ [][Next]_vars

-----------------------------------------------------------------------------
\* An unnamed bit-field of width 0 that has become a member holds nothing.
EmptyField(m) == m.kind \in Scalars /\ m.anonymous /\ m.bits = 0
BitsOf(m) == IF m.bits > 0 \/ EmptyField(m) THEN m.bits ELSE m.width * 8
FirstBit(m) == m.off * 8 + m.begin
EndBit(m) == FirstBit(m) + BitsOf(m)
Disjoint(m, n) == EndBit(m) <= FirstBit(n) \/ EndBit(n) <= FirstBit(m)

\* The members of r have been moved to where m is, to somewhere, to one place only.
Anony(m, r) == m.anonymous /\ m.kind = r
Merged(r) == \E s \in Structs : \E i \in DOMAIN object[s] : Anony(object[s][i], r)
MergedOnce(r) ==
  \A s, t \in Structs : \A i \in DOMAIN object[s], j \in DOMAIN object[t] :
    Anony(object[s][i], r) /\ Anony(object[t][j], r) => s = t /\ i = j

\* A width of 0 was given when the first unit was full, and became the difference,
\* which is negative, taken for an unsigned char.
Wrapped(s) ==
  \E i \in DOMAIN object[s] : object[s][i].bits > 8 * object[s][i].width

(* Two members of a struct never share a bit, whatever mixes of bit-fields *)
(* of different types, plain members and moved structs precede them: the   *)
(* place of the next is computed from the last and from offset_, which     *)
(* AddMember(), AddBitField() and MergeAnony() advance each in its way.    *)
(* The exception is a zero width that wrapped.                             *)
MembersDisjoint ==
  \A s \in Structs : type[s].isStruct /\ ~Merged(s) /\ ~Wrapped(s) =>
    \A i, j \in DOMAIN object[s] : i # j => Disjoint(object[s][i], object[s][j])

(* What is looked up by name in a type lies inside of it, the members that *)
(* were moved out of nested unnamed structs and unions included, and a     *)
(* bit-field inside the unit it is accessed by: as long as no unnamed type *)
(* is moved twice and no zero width wraps.                                 *)
NamesInside ==
  (\A r \in Structs : ~Wrapped(r) /\ MergedOnce(r)) =>
    \A s \in Structs : ~Merged(s) => \A id \in type[s].memberMap :
      LET m == object[id[1]][id[2]]
      IN  /\ EndBit(m) <= 8 * type[s].width
          /\ m.bits > 0 => m.begin + m.bits <= 8 * m.width

(* A plain member is at a multiple of its alignment in every type through  *)
(* which it is reachable, moved members included: the alignment of a type  *)
(* counts those of all members, and a moved struct starts at one.          *)
PlainAligned ==
  \A s \in Structs : \A id \in type[s].memberMap :
    LET m == object[id[1]][id[2]]
    IN  m.bits = 0 => m.off % m.align = 0 /\ type[s].align % m.align = 0

\* No member was moved into s, and s is no union with a bit-field.
Ordinary(s) ==
  \A i \in DOMAIN object[s] :
    LET m == object[s][i]
    IN  IF m.kind \in Integral /\ (m.bits > 0 \/ m.anonymous) THEN type[s].isStruct
        ELSE ~m.anonymous

(* An array of a type keeps its elements aligned: the size is a multiple   *)
(* of the alignment.  Types with members of unnamed structs are left out,  *)
(* and unions with bit-fields: MergeAnony() rounds no union up and leaves  *)
(* bitFieldAlign_ behind align_, AddBitField() rounds no union up.         *)
SizeMultipleOfAlign ==
  \A s \in Structs : Ordinary(s) => type[s].width % type[s].align = 0

(* Once a type is complete it is final, objects of it may exist: what it   *)
(* names moves at most when the unnamed type that it is, or is nested in,  *)
(* becomes part of another, provided that no unnamed type is moved twice.  *)
CompleteIsFinal ==
  [][\A s \in Structs : type[s].state = "complete" =>
       /\ type'[s] = type[s]
       /\ (\A r \in Structs : MergedOnce(r)') /\ object'[s] # object[s] =>
            \E r \in Structs : /\ ~Merged(r) /\ Merged(r)'
                              /\ \E id \in type[r].memberMap : id[1] = s]_vars
=============================================================================
