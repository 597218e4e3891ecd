------------------------ MODULE StructLayoutProofs ------------------------
EXTENDS StructLayout, SequenceTheorems, TLAPS

(* MakeAlign() rounds an offset up, never down.                            *)
LEMMA MakeAlignUp ==
  ASSUME NEW offset \in Nat, NEW align \in Nat \ {0}
  PROVE  MakeAlign(offset, align) \in Nat /\ MakeAlign(offset, align) >= offset
<1>1. offset % align \in 0..(align - 1)
  OBVIOUS
<1> QED
  BY <1>1 DEF MakeAlign

(* The bytes that AddBitField() counts hold the bits.                      *)
LEMMA BytesHold ==
  ASSUME NEW bits \in 0..255
  PROVE  Bytes(bits) \in Nat /\ 8 * Bytes(bits) >= bits
BY DEF Bytes, MakeAlign

LEMMA LargerType ==
  ASSUME NEW a \in Nat, NEW b \in Nat
  PROVE  Larger(a, b) \in Nat /\ Larger(a, b) >= a /\ (a > 0 => Larger(a, b) > 0)
BY DEF Larger

(* The types in definition are distinct, and nothing else is open.         *)
OpenOK ==
  /\ \A i \in DOMAIN open : type[open[i]].state = "open"
  /\ \A i, j \in DOMAIN open : i # j => open[i] # open[j]
  /\ \A s \in Structs : type[s].state = "undeclared" => object[s] = <<>>

(* What a type's names denote is its own, or was moved out of another.     *)
MapOK ==
  \A s \in Structs : \A id \in type[s].memberMap : id[1] = s \/ Merged(id[1])

(* The members of a struct are disjoint, end before offset_, and end no    *)
(* later than what ParseBitField() takes for the end of the last.          *)
Laid(objs, offset) ==
  /\ \A i, j \in DOMAIN objs : i # j => Disjoint(objs[i], objs[j])
  /\ \A i \in DOMAIN objs : EndBit(objs[i]) <= 8 * offset
  /\ \A i \in DOMAIN objs : EndBit(objs[i]) <= TotalBits(objs[Len(objs)])

LaidOut ==
  \A s \in Structs : type[s].isStruct /\ ~Merged(s) /\ ~Wrapped(s)
                        => Laid(object[s], type[s].offset)

IInv == TypeOK /\ OpenOK /\ MapOK /\ LaidOut

\* What an operation on a StructType may change.
Extends(u, t, map, end) ==
  /\ u \in StructType
  /\ u.state = t.state /\ u.isStruct = t.isStruct
  /\ u.memberMap = map
  /\ t.isStruct => u.offset = end

(* Growing a struct and widening a union extend it, the latter because     *)
(* offset_ of a union is of no concern.                                    *)
LEMMA GrowExtends ==
  ASSUME NEW t \in StructType, NEW g \in StructType, NEW map,
         NEW end \in Nat, NEW align \in Nat \ {0},
         g.state = t.state, g.isStruct = t.isStruct, g.memberMap = map
  PROVE  Extends(GrowStruct(g, end, align), t, map, end)
<1>1. MakeAlign(end, align) \in Nat
  BY MakeAlignUp
<1> QED
  BY <1>1 DEF GrowStruct, StructType, Extends

LEMMA WidenExtends ==
  ASSUME NEW t \in StructType, NEW g \in StructType, NEW map, NEW end, NEW width \in Nat,
         g.state = t.state, g.isStruct = t.isStruct, g.memberMap = map, ~t.isStruct
  PROVE  Extends([g EXCEPT !.width = width], t, map, end)
BY DEF StructType, Extends

(* AddMember(), AddBitField() and MergeAnony() enter the names, and offset_*)
(* of a struct becomes the end of the new member.                          *)
LEMMA AddMemberType ==
  ASSUME NEW t \in StructType, NEW id \in Ids, NEW m \in Object
  PROVE  Extends(AddMember(t, id, m), t, t.memberMap \cup {id}, m.off + m.width)
<1> DEFINE grown == [t EXCEPT !.members = @ \cup {id[2]},
                             !.memberMap = @ \cup {id},
                             !.align = Larger(@, m.align),
                             !.bitFieldAlign = Larger(@, Larger(t.align, m.align))]
           end == m.off + m.width
           width == MakeAlign(Larger(grown.width, m.width), grown.align)
<1>1. /\ t.align \in Nat \ {0} /\ m.align \in Nat \ {0} /\ t.bitFieldAlign \in Nat \ {0}
      /\ t.width \in Nat /\ m.width \in Nat /\ m.off \in Nat
      /\ id[2] \in Nat /\ t.members \in SUBSET Nat /\ t.memberMap \in SUBSET Ids
  BY DEF StructType, Object, Ids
<1>2. Larger(t.align, m.align) \in Nat \ {0}
  BY <1>1 DEF Larger
<1>3. Larger(t.bitFieldAlign, Larger(t.align, m.align)) \in Nat \ {0}
  BY <1>1, <1>2 DEF Larger
<1>4. /\ grown \in StructType
      /\ grown.state = t.state /\ grown.isStruct = t.isStruct
      /\ grown.memberMap = t.memberMap \cup {id}
  BY <1>1, <1>2, <1>3 DEF StructType
<1>5. AddMember(t, id, m) = IF t.isStruct THEN GrowStruct(grown, end, grown.align)
                            ELSE [grown EXCEPT !.width = width]
  BY DEF AddMember
<1> HIDE DEF grown
<1>6. end \in Nat /\ grown.align \in Nat \ {0} /\ grown.width \in Nat
  BY <1>1, <1>4 DEF StructType
<1>7. width \in Nat
  BY <1>1, <1>6, LargerType, MakeAlignUp
<1> HIDE DEF width, end
<1>8. CASE t.isStruct
  <2>1. Extends(GrowStruct(grown, end, grown.align), t, grown.memberMap, end)
    BY <1>4, <1>6, <1>8, GrowExtends
  <2> QED
    BY <1>4, <1>5, <1>8, <2>1 DEF end
<1>9. CASE ~t.isStruct
  <2>1. Extends([grown EXCEPT !.width = width], t, grown.memberMap, end)
    BY <1>4, <1>7, <1>9, WidenExtends
  <2> QED
    BY <1>4, <1>5, <1>9, <2>1 DEF end
<1> QED
  BY <1>8, <1>9

LEMMA AddBitFieldType ==
  ASSUME NEW t \in StructType, NEW id \in Ids, NEW m \in Object
  PROVE  Extends(AddBitField(t, id, m), t,
                 IF m.anonymous THEN t.memberMap ELSE t.memberMap \cup {id},
                 m.off + Bytes(BitFieldEnd(m)))
<1> DEFINE map == IF m.anonymous THEN t.memberMap ELSE t.memberMap \cup {id}
           grown == [t EXCEPT !.members = @ \cup {id[2]},
                             !.memberMap = IF m.anonymous THEN @ ELSE @ \cup {id},
                             !.bitFieldAlign = Larger(@, m.align)]
           end == m.off + Bytes(BitFieldEnd(m))
           width == Larger(grown.width, m.width)
<1>1. /\ m.align \in Nat \ {0} /\ t.bitFieldAlign \in Nat \ {0}
      /\ m.width \in Nat /\ m.off \in Nat
      /\ id[2] \in Nat /\ t.members \in SUBSET Nat /\ t.memberMap \in SUBSET Ids
  BY DEF StructType, Object, Ids
<1>2. Larger(t.bitFieldAlign, m.align) \in Nat \ {0}
  BY <1>1 DEF Larger
<1>3. map \in SUBSET Ids
  BY <1>1
<1>4. /\ grown \in StructType
      /\ grown.state = t.state /\ grown.isStruct = t.isStruct
      /\ grown.memberMap = map
  <2> HIDE DEF map
  <2>1. grown = [t EXCEPT !.members = @ \cup {id[2]}, !.memberMap = map,
                          !.bitFieldAlign = Larger(@, m.align)]
    BY DEF map
  <2> QED
    BY <1>1, <1>2, <1>3, <2>1 DEF StructType
<1>5. AddBitField(t, id, m) = IF t.isStruct THEN GrowStruct(grown, end, grown.bitFieldAlign)
                              ELSE [grown EXCEPT !.width = width]
  BY DEF AddBitField
<1> HIDE DEF grown, map
<1>6. grown.bitFieldAlign \in Nat \ {0} /\ grown.width \in Nat
  BY <1>4 DEF StructType
<1>7. width \in Nat
  BY <1>1, <1>6, LargerType
<1>8. end \in Nat
  <2>1. BitFieldEnd(m) \in 0..255
    BY DEF BitFieldEnd, Object
  <2> QED
    BY <1>1, <2>1, BytesHold
<1> HIDE DEF width, end
<1>9. CASE t.isStruct
  <2>1. Extends(GrowStruct(grown, end, grown.bitFieldAlign), t, map, end)
    BY <1>4, <1>6, <1>8, GrowExtends
  <2> QED
    BY <1>5, <1>9, <2>1 DEF end, map
<1>10. CASE ~t.isStruct
  <2>1. Extends([grown EXCEPT !.width = width], t, map, end)
    BY <1>4, <1>7, <1>10, WidenExtends
  <2> QED
    BY <1>5, <1>10, <2>1 DEF end, map
<1> QED
  BY <1>9, <1>10

LEMMA MergeAnonyType ==
  ASSUME NEW t \in StructType, NEW id \in Ids, NEW m \in Object, NEW inner \in StructType
  PROVE  Extends(MergeAnony(t, id, m, inner), t,
                 t.memberMap \cup inner.memberMap, m.off + m.width)
<1> DEFINE map == t.memberMap \cup inner.memberMap
           grown == [t EXCEPT !.members = @ \cup {id[2]}, !.memberMap = @ \cup inner.memberMap,
                             !.align = Larger(@, m.align)]
           end == m.off + m.width
           width == Larger(grown.width, m.width)
<1>1. /\ t.align \in Nat \ {0} /\ m.align \in Nat \ {0}
      /\ m.width \in Nat /\ m.off \in Nat
      /\ id[2] \in Nat /\ t.members \in SUBSET Nat
      /\ t.memberMap \in SUBSET Ids /\ inner.memberMap \in SUBSET Ids
  BY DEF StructType, Object, Ids
<1>2. Larger(t.align, m.align) \in Nat \ {0}
  BY <1>1 DEF Larger
<1>3. /\ grown \in StructType
      /\ grown.state = t.state /\ grown.isStruct = t.isStruct
      /\ grown.memberMap = map
  BY <1>1, <1>2 DEF StructType
<1>4. MergeAnony(t, id, m, inner) = IF t.isStruct THEN GrowStruct(grown, end, grown.align)
                                    ELSE [grown EXCEPT !.width = width]
  BY DEF MergeAnony
<1> HIDE DEF grown, map
<1>5. grown.align \in Nat \ {0} /\ grown.width \in Nat
  BY <1>3 DEF StructType
<1>5w. width \in Nat
  BY <1>1, <1>5, LargerType
<1>6. width \in Nat /\ end \in Nat
  BY <1>1, <1>5w
<1> HIDE DEF width, end
<1>7. CASE t.isStruct
  <2>1. Extends(GrowStruct(grown, end, grown.align), t, map, end)
    BY <1>3, <1>5, <1>6, GrowExtends
  <2> QED
    BY <1>4, <1>7, <2>1 DEF end, map
<1>8. CASE ~t.isStruct
  <2>1. Extends([grown EXCEPT !.width = width], t, map, end)
    BY <1>3, <1>6, <1>8, WidenExtends
  <2> QED
    BY <1>4, <1>8, <2>1 DEF end, map
<1> QED
  BY <1>7, <1>8

-----------------------------------------------------------------------------
(* The bits of an Object, whose units are of at most 8 bytes.              *)
LEMMA BitsType ==
  ASSUME NEW m \in Object
  PROVE  /\ FirstBit(m) \in Nat /\ EndBit(m) \in Nat /\ FirstBit(m) <= EndBit(m)
         /\ TotalBits(m) \in Nat
BY DEF FirstBit, EndBit, BitsOf, TotalBits, BitFieldEnd, Object

\* The new member m, with which the struct ends at end, is after all others.
Placed(objs, m, end) ==
  /\ \A i \in DOMAIN objs : EndBit(objs[i]) <= FirstBit(m)
  /\ EndBit(m) <= 8 * end
  /\ EndBit(m) <= TotalBits(m)

(* A member placed after all others keeps a struct laid out.               *)
LEMMA LaidAppend ==
  ASSUME NEW objs \in Seq(Object), NEW m \in Object, NEW offset \in Nat, NEW end \in Nat,
         Laid(objs, offset), Placed(objs, m, end)
  PROVE  Laid(Append(objs, m), end)
<1> DEFINE all == Append(objs, m)
<1>1. /\ all \in Seq(Object) /\ Len(all) = Len(objs) + 1 /\ all[Len(all)] = m
      /\ DOMAIN all = 1..(Len(objs) + 1) /\ DOMAIN objs = 1..Len(objs)
      /\ \A i \in 1..Len(objs) : all[i] = objs[i]
      /\ Len(objs) \in Nat
  OBVIOUS
<1> HIDE DEF all
<1>2. ASSUME NEW i \in DOMAIN all
      PROVE  (i \in DOMAIN objs /\ all[i] = objs[i]) \/ (i = Len(all) /\ all[i] = m)
  BY <1>1
<1>3. \A i \in DOMAIN all : EndBit(all[i]) <= EndBit(m) /\ EndBit(all[i]) \in Nat
  <2> TAKE i \in DOMAIN all
  <2>1. CASE i \in DOMAIN objs /\ all[i] = objs[i]
    <3>1. objs[i] \in Object
      BY <2>1, ElementOfSeq, <1>1
    <3> QED
      BY <2>1, <3>1, BitsType DEF Placed
  <2>2. CASE all[i] = m
    BY <2>2, BitsType
  <2> QED
    BY <1>2, <2>1, <2>2
<1>4. \A i \in DOMAIN all : EndBit(all[i]) <= 8 * end
  BY <1>3, BitsType DEF Placed
<1>5. \A i \in DOMAIN all : EndBit(all[i]) <= TotalBits(all[Len(all)])
  BY <1>1, <1>3, BitsType DEF Placed
<1>6. \A i, j \in DOMAIN all : i # j => Disjoint(all[i], all[j])
  <2> TAKE i, j \in DOMAIN all
  <2> HAVE i # j
  <2>1. CASE i \in DOMAIN objs /\ j \in DOMAIN objs
    BY <1>1, <2>1 DEF Laid
  <2>2. CASE i \in DOMAIN objs /\ all[j] = m
    BY <1>1, <2>2 DEF Placed, Disjoint
  <2>3. CASE j \in DOMAIN objs /\ all[i] = m
    BY <1>1, <2>3 DEF Placed, Disjoint
  <2> QED
    BY <1>2, <2>1, <2>2, <2>3
<1> QED
  BY <1>4, <1>5, <1>6 DEF Laid, all

(* A plain member or a moved struct is placed from offset_ on.             *)
LEMMA MemberPlaced ==
  ASSUME NEW objs \in Seq(Object), NEW m \in Object, NEW offset \in Nat, Laid(objs, offset),
         m.bits = 0, m.begin = 0, ~EmptyField(m), m.off >= offset
  PROVE  Placed(objs, m, m.off + m.width)
<1>1. /\ FirstBit(m) = 8 * m.off
      /\ EndBit(m) = 8 * m.off + 8 * m.width
      /\ TotalBits(m) = 8 * m.off + 8 * m.width
      /\ m.off \in Nat /\ m.width \in Nat
  BY DEF FirstBit, EndBit, BitsOf, TotalBits, Object
<1>2. \A i \in DOMAIN objs : EndBit(objs[i]) \in Nat
  BY ElementOfSeq, BitsType, LenProperties
<1>3. \A i \in DOMAIN objs : EndBit(objs[i]) <= 8 * offset
  BY DEF Laid
<1>4. 8 * offset <= 8 * m.off
  BY <1>1
<1> QED
  BY <1>1, <1>2, <1>3, <1>4 DEF Placed

LEMMA SmallByte == ASSUME NEW n \in 0..255 PROVE n % 256 = n
OBVIOUS

\* A bit-field is placed first, or at the end of the last, or in a unit from
\* offset_ on.
Follows(objs, offset, m) ==
  \/ objs = <<>>
  \/ FirstBit(m) = TotalBits(objs[Len(objs)])
  \/ m.off >= offset

\* A bit-field whose end an unsigned char can tell.
Counted(m) ==
  /\ m.begin + m.bits <= 255
  /\ m.width > 0
  /\ m.bits = 0 => EmptyField(m)

(* Its bits end where BitFieldEnd() says, and offset_ is set after them.   *)
LEMMA CountedEnd ==
  ASSUME NEW m \in Object, Counted(m)
  PROVE  EndBit(m) <= 8 * (m.off + Bytes(BitFieldEnd(m))) /\ EndBit(m) <= TotalBits(m)
<1>1. m.begin + m.bits \in 0..255
  BY DEF Counted, Object
<1>2. BitsOf(m) = m.bits
  BY DEF Counted, Object, BitsOf
<1>3. BitFieldEnd(m) = m.begin + m.bits
  BY <1>1, SmallByte DEF BitFieldEnd
<1>4. EndBit(m) = 8 * m.off + (m.begin + m.bits)
  BY <1>2 DEF EndBit, FirstBit, Object
<1>5. 8 * Bytes(m.begin + m.bits) >= m.begin + m.bits /\ Bytes(m.begin + m.bits) \in Nat
  BY <1>1, BytesHold
<1>6. EndBit(m) <= 8 * (m.off + Bytes(BitFieldEnd(m)))
  BY <1>1, <1>3, <1>4, <1>5 DEF Object
<1>7. CASE m.bits > 0
  <2>1. TotalBits(m) = m.off * 8 + (m.begin + m.bits)
    BY <1>3, <1>7 DEF TotalBits
  <2> QED
    BY <1>1, <1>4, <1>6, <2>1 DEF Object
<1>8. CASE m.bits = 0
  <2>1. TotalBits(m) = m.off * 8 + m.width * 8
    BY <1>8 DEF TotalBits
  <2> QED
    BY <1>4, <1>6, <1>8, <2>1 DEF Object, Counted
<1> QED
  BY <1>7, <1>8 DEF Object

(* Such a bit-field is after all others.                                   *)
LEMMA BitFieldPlaced ==
  ASSUME NEW objs \in Seq(Object), NEW m \in Object, NEW offset \in Nat, Laid(objs, offset),
         Counted(m), Follows(objs, offset, m)
  PROVE  Placed(objs, m, m.off + Bytes(BitFieldEnd(m)))
<1>1. \A i \in DOMAIN objs : EndBit(objs[i]) <= FirstBit(m)
  <2>1. CASE objs = <<>>
    BY <2>1
  <2>2. CASE FirstBit(m) = TotalBits(objs[Len(objs)])
    BY <2>2 DEF Laid
  <2>3. CASE m.off >= offset
    <3>1. 8 * offset <= FirstBit(m) /\ FirstBit(m) \in Nat
      BY <2>3, SMTT(30) DEF FirstBit, Object
    <3> TAKE i \in DOMAIN objs
    <3>2. EndBit(objs[i]) <= 8 * offset
      BY DEF Laid
    <3>3. EndBit(objs[i]) \in Nat
      BY ElementOfSeq, BitsType, LenProperties
    <3> QED
      BY <3>1, <3>2, <3>3
  <2> QED
    BY <2>1, <2>2, <2>3 DEF Follows
<1> QED
  BY <1>1, CountedEnd DEF Placed

-----------------------------------------------------------------------------
\* No Object is freed or becomes another's.
Kept ==
  \A r \in Structs : \A i \in DOMAIN object[r] :
    /\ i \in DOMAIN object'[r]
    /\ object'[r][i].kind = object[r][i].kind
    /\ object'[r][i].anonymous = object[r][i].anonymous

(* A type that was moved into another stays so.                            *)
LEMMA MergedStays ==
  ASSUME NEW r, Kept
  PROVE  Merged(r) => Merged(r)'
BY DEF Merged, Kept, Anony

LEMMA NotWider ==
  ASSUME NEW m \in Object, ~(m.bits > 8 * m.width)
  PROVE  m.bits <= 8 * m.width
BY DEF Object

(* A step that adds m to s keeps LaidOut when m is placed after all others.*)
LEMMA LaidStep ==
  ASSUME TypeOK, LaidOut, Kept, NEW s \in Structs, NEW m \in Object, type'[s].offset \in Nat,
         \A r \in Structs \ {s} : type'[r] = type[r],
         \A r \in Structs \ {s} : ~Merged(r)' => object'[r] = object[r],
         ~Merged(s)' => object'[s] = Append(object[s], m),
         type'[s].isStruct = type[s].isStruct,
         type[s].isStruct /\ Laid(object[s], type[s].offset) /\ m.bits <= 8 * m.width
           => Placed(object[s], m, type'[s].offset)
  PROVE  LaidOut'
<1>1. SUFFICES ASSUME NEW r \in Structs, type'[r].isStruct, ~Merged(r)', ~Wrapped(r)'
               PROVE  Laid(object'[r], type'[r].offset)
  BY DEF LaidOut, Laid, EndBit, FirstBit, BitsOf, EmptyField, Disjoint, TotalBits, BitFieldEnd
<1>2. ~Merged(r)
  BY <1>1, MergedStays
<1>3. CASE r # s
  <2>1. object'[r] = object[r] /\ type'[r] = type[r]
    BY <1>1, <1>3
  <2>2. ~Wrapped(r)
    BY <1>1, <2>1 DEF Wrapped
  <2> QED
    BY <1>1, <1>2, <2>1, <2>2 DEF LaidOut
<1>4. CASE r = s
  <2> DEFINE objs == object[s]
  <2>1. objs \in Seq(Object) /\ type[s].offset \in Nat
    BY DEF TypeOK, StructType
  <2>2. object'[s] = Append(objs, m)
    BY <1>1, <1>4
  <2> HIDE DEF objs
  <2>3. /\ DOMAIN Append(objs, m) = 1..(Len(objs) + 1) /\ DOMAIN objs = 1..Len(objs)
        /\ Append(objs, m)[Len(objs) + 1] = m /\ Len(objs) \in Nat
        /\ \A i \in DOMAIN objs : Append(objs, m)[i] = objs[i]
    BY <2>1
  <2>4. \A i \in DOMAIN Append(objs, m) :
          ~(Append(objs, m)[i].bits > 8 * Append(objs, m)[i].width)
    BY <1>1, <1>4, <2>2 DEF Wrapped
  <2>5. ~Wrapped(s)
    BY <2>3, <2>4 DEF Wrapped, objs
  <2>6. m.bits <= 8 * m.width
    <3>1. ~(m.bits > 8 * m.width)
      BY <2>3, <2>4
    <3> QED
      BY <3>1, NotWider
  <2>7. Laid(objs, type[s].offset)
    BY <1>1, <1>2, <1>4, <2>5 DEF LaidOut, objs
  <2>8. Placed(objs, m, type'[s].offset)
    BY <1>1, <1>4, <2>6, <2>7 DEF objs
  <2>9. Laid(Append(objs, m), type'[s].offset)
    BY <2>1, <2>7, <2>8, LaidAppend
  <2> QED
    BY <1>4, <2>2, <2>9
<1> QED
  BY <1>3, <1>4

(* The type that a declaration extends is open.                            *)
LEMMA InDefinitionOpen ==
  ASSUME IInv, NEW s \in Structs, InDefinition(s)
  PROVE  /\ type[s].state = "open" /\ type[s] \in StructType
         /\ Len(object[s]) + 1 <= MaxMembers[s]
         /\ NextId(s) \in Ids
<1>1. open \in Seq(Structs) /\ open # <<>> /\ s = open[Len(open)]
  BY DEF IInv, TypeOK, InDefinition, Last
<1>2. Len(open) \in DOMAIN open
  BY <1>1, LenProperties
<1>3. type[s].state = "open"
  BY <1>1, <1>2 DEF IInv, OpenOK
<1>4. object[s] \in Seq(Object) /\ type[s] \in StructType
  BY DEF IInv, TypeOK
<1>5. Len(object[s]) \in Nat
  BY <1>4, LenProperties
<1>6. MaxMembers[s] \in Nat
  BY ScalarsAssumption
<1> QED
  BY <1>3, <1>4, <1>5, <1>6 DEF InDefinition, NextId, Ids

(* What a step that adds m to s does to the types and the stack of open    *)
(* ones.                                                                   *)
LEMMA ExtendStep ==
  ASSUME IInv, NEW s \in Structs, type[s].state = "open",
         NEW u \in StructType, u.state = "open",
         type' = [type EXCEPT ![s] = u], UNCHANGED open,
         \A r \in Structs \ {s} : object[r] = <<>> => object'[r] = <<>>
  PROVE  OpenOK' /\ type' \in [Structs -> StructType]
<1>1. /\ type \in [Structs -> StructType]
      /\ \A r \in Structs : type'[r] = IF r = s THEN u ELSE type[r]
  BY DEF IInv, TypeOK
<1>2. \A i \in DOMAIN open : open[i] \in Structs
  BY ElementOfSeq, LenProperties DEF IInv, TypeOK
<1> QED
  BY <1>1, <1>2 DEF IInv, TypeOK, OpenOK

(* A declaration that makes one Object of s, named or not, keeps IInv when *)
(* the Object is placed after all others.                                  *)
LEMMA DeclareStep ==
  ASSUME IInv, NEW s \in Structs, InDefinition(s), NEW m \in Object,
         NEW u, NEW map, NEW end,
         Extends(u, type[s], map, end), map \subseteq type[s].memberMap \cup {NextId(s)},
         Declare(s, m, u),
         type[s].isStruct /\ Laid(object[s], type[s].offset) /\ m.bits <= 8 * m.width
           => Placed(object[s], m, end)
  PROVE  IInv'
<1>1. /\ type[s].state = "open" /\ type[s] \in StructType
      /\ Len(object[s]) + 1 <= MaxMembers[s]
  BY InDefinitionOpen
<1>2. u \in StructType /\ u.state = "open" /\ u.isStruct = type[s].isStruct
      /\ (type[s].isStruct => u.offset = end)
  BY <1>1 DEF Extends
<1>3. object \in [Structs -> Seq(Object)] /\ object[s] \in Seq(Object)
      /\ type \in [Structs -> StructType]
  BY DEF IInv, TypeOK
<1>4. /\ Append(object[s], m) \in Seq(Object)
      /\ Len(Append(object[s], m)) = Len(object[s]) + 1
      /\ DOMAIN Append(object[s], m) = 1..(Len(object[s]) + 1)
      /\ DOMAIN object[s] = 1..Len(object[s]) /\ Len(object[s]) \in Nat
      /\ \A i \in DOMAIN object[s] : Append(object[s], m)[i] = object[s][i]
  BY <1>3
<1>5. /\ \A r \in Structs \ {s} : object'[r] = object[r] /\ type'[r] = type[r]
      /\ object'[s] = Append(object[s], m) /\ type'[s] = u
      /\ object' \in [Structs -> Seq(Object)]
  BY <1>3, <1>4 DEF Declare
<1>6. OpenOK' /\ type' \in [Structs -> StructType]
  BY <1>1, <1>2, <1>5, ExtendStep DEF Declare
<1>7. TypeOK'
  <2>1. \A r \in Structs : Len(object'[r]) <= MaxMembers[r]
    BY <1>1, <1>4, <1>5 DEF IInv, TypeOK
  <2> QED
    BY <1>5, <1>6, <2>1 DEF IInv, TypeOK, Declare
<1>8. Kept
  <2>1. \A i \in DOMAIN object[s] : i \in DOMAIN object'[s] /\ object'[s][i] = object[s][i]
    BY <1>4, <1>5
  <2> QED
    BY <1>5, <2>1 DEF Kept
<1>9. MapOK'
  <2>1. SUFFICES ASSUME NEW r \in Structs, NEW id \in type'[r].memberMap, id[1] # r
                 PROVE  Merged(id[1])'
    BY DEF MapOK, Merged, Anony
  <2>2. id \in type[r].memberMap
    BY <1>5, <2>1 DEF Extends, NextId
  <2> QED
    BY <1>8, <2>1, <2>2, MergedStays DEF IInv, MapOK
<1>10. LaidOut'
  <2>1. type'[s].offset \in Nat
    BY <1>2, <1>5 DEF StructType
  <2>2. TypeOK /\ LaidOut
    BY DEF IInv
  <2>3. type[s].isStruct /\ Laid(object[s], type[s].offset) /\ m.bits <= 8 * m.width
          => Placed(object[s], m, type'[s].offset)
    BY <1>2, <1>5
  <2> QED
    BY <1>2, <1>5, <1>8, <2>1, <2>2, <2>3, LaidStep
<1> QED
  BY <1>6, <1>7, <1>9, <1>10 DEF IInv

-----------------------------------------------------------------------------
(* The types of members, with their widths and alignments.                 *)
LEMMA KindType ==
  ASSUME TypeOK, NEW k \in Kinds
  PROVE  WidthOf(k) \in Nat /\ AlignOf(k) \in Nat \ {0}
BY ScalarsAssumption DEF TypeOK, WidthOf, AlignOf, Kinds, StructType

(* A member of its alignment from offset_ on.                              *)
LEMMA NewMemberType ==
  ASSUME NEW k \in Kinds, NEW width \in Nat, NEW offset \in Nat, NEW align \in Nat \ {0}
  PROVE  LET m == NewMember(k, width, MakeAlign(offset, align), align)
         IN  /\ m \in Object /\ m.off >= offset /\ m.width = width
             /\ m.bits = 0 /\ m.begin = 0 /\ ~m.anonymous /\ ~EmptyField(m)
<1>1. MakeAlign(offset, align) \in Nat /\ MakeAlign(offset, align) >= offset
  BY MakeAlignUp
<1> QED
  BY <1>1 DEF NewMember, Object, EmptyField

(* DeclareMember keeps IInv.                                               *)
LEMMA DeclareMemberKeeps ==
  ASSUME IInv, NEW s \in Structs, NEW k \in Kinds, NEW align, DeclareMember(s, k, align)
  PROVE  IInv'
<1> DEFINE m == NewMember(k, WidthOf(k), MakeAlign(type[s].offset, align), align)
           u == AddMember(type[s], NextId(s), m)
           map == type[s].memberMap \cup {NextId(s)}
           end == m.off + m.width
<1>1. InDefinition(s) /\ Declare(s, m, u) /\ align \in Alignas \cup {AlignOf(k)}
  BY DEF DeclareMember
<1>2. align \in Nat \ {0} /\ WidthOf(k) \in Nat
  BY <1>1, KindType, ScalarsAssumption DEF IInv
<1>3. type[s] \in StructType /\ NextId(s) \in Ids
  BY <1>1, InDefinitionOpen
<1>4. type[s].offset \in Nat
  BY <1>3 DEF StructType
<1>5. m \in Object /\ m.off >= type[s].offset /\ m.bits = 0 /\ m.begin = 0 /\ ~EmptyField(m)
  BY <1>2, <1>4, NewMemberType
<1> HIDE DEF m
<1>6. Extends(u, type[s], map, end)
  BY <1>3, <1>5, AddMemberType
<1>7. object[s] \in Seq(Object)
  BY DEF IInv, TypeOK
<1>8. Laid(object[s], type[s].offset) => Placed(object[s], m, end)
  BY <1>4, <1>5, <1>7, MemberPlaced
<1> HIDE DEF u, end, map
<1>9. map \subseteq type[s].memberMap \cup {NextId(s)}
  BY DEF map
<1> QED
  BY <1>1, <1>5, <1>6, <1>8, <1>9, DeclareStep

(* The Object of a bit-field; its bits are told by an unsigned char.       *)
LEMMA BitFieldType ==
  ASSUME NEW k \in Integral, NEW off \in Nat, NEW begin \in 0..7, NEW bits \in Int,
         NEW named \in BOOLEAN, named => bits % 256 # 0
  PROVE  LET m == BitFieldOf(k, off, begin, bits, named)
         IN  /\ m \in Object /\ m.off = off /\ m.begin = begin /\ m.kind \in Scalars
             /\ m.bits <= 8 * m.width => Counted(m)
<1> DEFINE m == BitFieldOf(k, off, begin, bits, named)
<1>1. k \in Kinds /\ k \in Scalars /\ ScalarWidth[k] \in 1..8 /\ ScalarAlign[k] \in Nat \ {0}
  BY ScalarsAssumption DEF Kinds
<1>2. bits % 256 \in 0..255
  OBVIOUS
<1>3. m \in Object
  BY <1>1, <1>2 DEF BitFieldOf, Object
<1>4. /\ m.off = off /\ m.begin = begin /\ m.kind = k /\ m.width = ScalarWidth[k]
      /\ m.bits = bits % 256 /\ m.anonymous = ~named
  BY DEF BitFieldOf
<1> HIDE DEF m
<1>5. ASSUME m.bits <= 8 * m.width
      PROVE  m.begin + m.bits <= 255 /\ m.width > 0
  <2>1. m.width \in 1..8 /\ m.begin \in 0..7 /\ m.bits \in 0..255
    BY <1>1, <1>2, <1>4
  <2> QED
    BY <1>5, <2>1
<1>6. m.bits = 0 => EmptyField(m)
  BY <1>1, <1>4 DEF EmptyField
<1> QED
  BY <1>1, <1>3, <1>4, <1>5, <1>6 DEF Counted, m

LEMMA BitFieldStep ==
  ASSUME IInv, NEW s \in Structs, NEW k \in Integral, NEW off \in Nat, NEW begin \in 0..7,
         NEW bits \in Int, NEW named \in BOOLEAN, named => bits % 256 # 0,
         InDefinition(s), DeclareBitFieldAt(s, k, off, begin, bits, named),
         type[s].isStruct => \/ object[s] = <<>>
                             \/ off * 8 + begin = Total(s)
                             \/ off >= type[s].offset
  PROVE  IInv'
<1> DEFINE m == BitFieldOf(k, off, begin, bits, named)
           u == AddBitField(type[s], NextId(s), m)
           map == IF m.anonymous THEN type[s].memberMap ELSE type[s].memberMap \cup {NextId(s)}
           end == m.off + Bytes(BitFieldEnd(m))
<1>1. Declare(s, m, u)
  BY DEF DeclareBitFieldAt
<1>2. type[s] \in StructType /\ NextId(s) \in Ids
  BY InDefinitionOpen
<1>3. type[s].offset \in Nat
  BY <1>2 DEF StructType
<1>4. m \in Object /\ m.off = off /\ m.begin = begin /\ (m.bits <= 8 * m.width => Counted(m))
  BY BitFieldType
<1> HIDE DEF m
<1>5. Extends(u, type[s], map, end)
  BY <1>2, <1>4, AddBitFieldType
<1>6. object[s] \in Seq(Object)
  BY DEF IInv, TypeOK
<1>7. type[s].isStruct => Follows(object[s], type[s].offset, m)
  BY <1>4 DEF Follows, FirstBit, Total, Last
<1>8. type[s].isStruct /\ Laid(object[s], type[s].offset) /\ m.bits <= 8 * m.width
        => Placed(object[s], m, end)
  BY <1>3, <1>4, <1>6, <1>7, BitFieldPlaced
<1>9. map \subseteq type[s].memberMap \cup {NextId(s)}
  OBVIOUS
<1> HIDE DEF u, end, map
<1> QED
  BY <1>1, <1>4, <1>5, <1>8, <1>9, DeclareStep

(* What an earlier Object ends at is a number of bits.                     *)
LEMMA TotalType ==
  ASSUME IInv, NEW s \in Structs, object[s] # <<>>
  PROVE  Total(s) \in Nat
<1>1. object[s] \in Seq(Object)
  BY DEF IInv, TypeOK
<1>2. Len(object[s]) \in DOMAIN object[s]
  BY <1>1, LenProperties, EmptySeq
<1>3. Last(object[s]) \in Object
  BY <1>1, <1>2, ElementOfSeq, LenProperties DEF Last
<1> QED
  BY <1>3, BitsType DEF Total

(* A number of bits is that of its whole bytes and the rest.               *)
LEMMA DivMod8 ==
  ASSUME NEW n \in Nat
  PROVE  n \div 8 \in Nat /\ n % 8 \in 0..7 /\ (n \div 8) * 8 + (n % 8) = n
<1>1. n \div 8 \in Nat
  OBVIOUS
<1>2. n % 8 \in 0..7
  OBVIOUS
<1>3. (n \div 8) * 8 + (n % 8) = n
  OBVIOUS
<1> QED
  BY <1>1, <1>2, <1>3

(* The three ways to place a bit-field keep IInv.                          *)
LEMMA DeclareBitFieldKeeps ==
  ASSUME IInv, NEW s \in Structs, NEW k \in Integral, NEW w \in BitWidths,
         NEW named \in BOOLEAN, DeclareBitField(s, k, w, named)
  PROVE  IInv'
<1>1. w \in Nat /\ ScalarWidth[k] \in 1..8
  BY ScalarsAssumption
<1>2. InDefinition(s) /\ w <= ScalarWidth[k] * 8 /\ (named => w > 0)
  BY DEF DeclareBitField, BitFieldFirst, BitFieldPacked, BitFieldNextUnit, LegalBitField
<1>3. named => w % 256 # 0
  BY <1>1, <1>2
<1>4. named => BitsAsked(s, k, w) % 256 # 0
  BY <1>2, <1>3 DEF BitsAsked
<1>5. CASE BitFieldFirst(s, k, w, named)
  <2>1. DeclareBitFieldAt(s, k, 0, 0, w, named) /\ (type[s].isStruct => object[s] = <<>>)
    BY <1>5 DEF BitFieldFirst, StartsUnit
  <2> QED
    BY <1>1, <1>2, <1>3, <2>1, BitFieldStep
<1>6. ASSUME ~StartsUnit(s)
      PROVE  Total(s) \in Nat /\ BitsAsked(s, k, w) \in Int
  <2>1. Total(s) \in Nat
    BY <1>6, TotalType DEF StartsUnit
  <2> QED
    BY <1>1, <2>1 DEF BitsAsked
<1>7. CASE BitFieldPacked(s, k, w, named)
  <2>1. /\ DeclareBitFieldAt(s, k, Total(s) \div 8, Total(s) % 8, BitsAsked(s, k, w), named)
        /\ Total(s) \in Nat /\ BitsAsked(s, k, w) \in Int
    BY <1>6, <1>7 DEF BitFieldPacked
  <2>2. /\ Total(s) \div 8 \in Nat /\ Total(s) % 8 \in 0..7
        /\ (Total(s) \div 8) * 8 + (Total(s) % 8) = Total(s)
    BY <2>1, DivMod8
  <2> DEFINE off == Total(s) \div 8
             begin == Total(s) % 8
             bits == BitsAsked(s, k, w)
  <2> HIDE DEF off, begin, bits
  <2>3. off \in Nat /\ begin \in 0..7 /\ off * 8 + begin = Total(s)
    BY <2>2 DEF off, begin
  <2>4. bits \in Int /\ (named => bits % 256 # 0) /\ DeclareBitFieldAt(s, k, off, begin, bits, named)
    BY <1>4, <2>1 DEF bits, off, begin
  <2> QED
    BY <1>2, <2>3, <2>4, BitFieldStep
<1>8. CASE BitFieldNextUnit(s, k, w, named)
  <2> DEFINE off == MakeAlign(type[s].offset, ScalarWidth[k])
  <2>1. DeclareBitFieldAt(s, k, off, 0, BitsAsked(s, k, w), named) /\ BitsAsked(s, k, w) \in Int
    BY <1>6, <1>8 DEF BitFieldNextUnit
  <2>2. type[s].offset \in Nat
    BY DEF IInv, TypeOK, StructType
  <2>3. ScalarWidth[k] \in Nat \ {0}
    BY <1>1
  <2>4. off \in Nat /\ off >= type[s].offset
    BY <2>2, <2>3, MakeAlignUp
  <2> HIDE DEF off
  <2> QED
    BY <1>2, <1>4, <2>1, <2>4, BitFieldStep
<1> QED
  BY <1>5, <1>7, <1>8 DEF DeclareBitField

(* Beginning a type keeps IInv: it has no Object yet.                      *)
LEMMA BeginKeeps ==
  ASSUME IInv, NEW s \in Structs, NEW isStruct \in BOOLEAN, Begin(s, isStruct)
  PROVE  IInv'
<1>1. /\ type \in [Structs -> StructType] /\ open \in Seq(Structs)
      /\ object[s] = <<>> /\ type[s].state = "undeclared"
  BY DEF IInv, TypeOK, OpenOK, Begin
<1>2. /\ \A r \in Structs \ {s} : type'[r] = type[r]
      /\ type'[s] = [type[s] EXCEPT !.state = "open", !.isStruct = isStruct]
      /\ open' = Append(open, s) /\ object' = object
  BY <1>1 DEF Begin
<1>3. type' \in [Structs -> StructType] /\ type'[s].memberMap = type[s].memberMap
      /\ type'[s].state = "open" /\ type'[s].offset = type[s].offset
  BY <1>1, ZenonT(30) DEF Begin, StructType
<1>4. /\ open' \in Seq(Structs) /\ DOMAIN open' = 1..(Len(open) + 1) /\ Len(open) \in Nat
      /\ DOMAIN open = 1..Len(open)
      /\ open'[Len(open) + 1] = s /\ \A i \in DOMAIN open : open'[i] = open[i]
  BY <1>1, <1>2, AppendProperties, LenProperties
<1>5. \A i \in DOMAIN open : open[i] \in Structs /\ type[open[i]].state = "open"
  BY <1>1, ElementOfSeq, LenProperties DEF IInv, OpenOK
<1>6. TypeOK'
  BY <1>2, <1>3, <1>4 DEF IInv, TypeOK
<1>7. OpenOK'
  <2>1. \A i \in DOMAIN open : open[i] # s
    BY <1>1, <1>5
  <2>2. \A i \in DOMAIN open' : type'[open'[i]].state = "open"
    <3> TAKE i \in DOMAIN open'
    <3>1. CASE i = Len(open) + 1
      BY <1>3, <1>4, <3>1
    <3>2. CASE i # Len(open) + 1
      <4>1. i \in DOMAIN open
        BY <1>4, <3>2
      <4>2. open'[i] = open[i] /\ open[i] \in Structs \ {s} /\ type[open[i]].state = "open"
        BY <1>4, <1>5, <2>1, <4>1
      <4> QED
        BY <1>2, <4>2
    <3> QED
      BY <3>1, <3>2
  <2>3. \A i, j \in DOMAIN open' : i # j => open'[i] # open'[j]
    BY <1>4, <2>1 DEF IInv, OpenOK
  <2>4. \A r \in Structs : type'[r].state = "undeclared" => object'[r] = <<>>
    BY <1>2, <1>3 DEF IInv, OpenOK
  <2> QED
    BY <2>2, <2>3, <2>4 DEF OpenOK
<1>8. MapOK'
  <2>1. \A r \in Structs : Merged(r)' <=> Merged(r)
    BY <1>2 DEF Merged, Anony
  <2>2. \A r \in Structs : type'[r].memberMap = type[r].memberMap
    BY <1>2, <1>3
  <2>3. \A r \in Structs : \A id \in type[r].memberMap : id[1] \in Structs
    BY <1>1 DEF StructType, Ids
  <2> QED
    BY <2>1, <2>2, <2>3 DEF IInv, MapOK
<1>9. LaidOut'
  <2>1. SUFFICES ASSUME NEW r \in Structs, type'[r].isStruct, ~Merged(r)', ~Wrapped(r)'
                 PROVE  Laid(object[r], type'[r].offset)
    BY <1>2 DEF LaidOut, Laid
  <2>2. CASE r = s
    BY <1>1, <2>2 DEF Laid
  <2>3. CASE r # s
    BY <1>2, <2>1, <2>3 DEF IInv, LaidOut, Merged, Anony, Wrapped
  <2> QED
    BY <2>2, <2>3
<1> QED
  BY <1>6, <1>7, <1>8, <1>9 DEF IInv

-----------------------------------------------------------------------------
(* What moving does to the Objects of a type.                              *)
LEMMA MovedType ==
  ASSUME IInv, NEW r \in Structs, NEW map, NEW by \in Nat
  PROVE  /\ Moved(r, map, by) \in Seq(Object)
         /\ Len(Moved(r, map, by)) = Len(object[r])
         /\ DOMAIN Moved(r, map, by) = DOMAIN object[r]
         /\ \A i \in DOMAIN object[r] :
              /\ Moved(r, map, by)[i].kind = object[r][i].kind
              /\ Moved(r, map, by)[i].anonymous = object[r][i].anonymous
         /\ (\A i \in DOMAIN object[r] : <<r, i>> \notin map) => Moved(r, map, by) = object[r]
<1> DEFINE objs == object[r]
           new == Moved(r, map, by)
<1>1. objs \in Seq(Object) /\ Len(objs) \in Nat /\ DOMAIN objs = 1..Len(objs)
      /\ \A i \in 1..Len(objs) : objs[i] \in Object
  BY LenProperties, ElementOfSeq DEF IInv, TypeOK
<1>2. new = [i \in 1..Len(objs) |->
               IF <<r, i>> \in map THEN [objs[i] EXCEPT !.off = @ + by] ELSE objs[i]]
  BY <1>1 DEF Moved
<1> HIDE DEF objs, new
<1>3. \A i \in 1..Len(objs) :
        [objs[i] EXCEPT !.off = @ + by] \in Object
  <2> TAKE i \in 1..Len(objs)
  <2>1. objs[i] \in Object
    BY <1>1
  <2>2. objs[i].off + by \in Nat
    BY <2>1 DEF Object
  <2> QED
    BY <2>1, <2>2 DEF Object
<1>4. new \in [1..Len(objs) -> Object]
  BY <1>1, <1>2, <1>3
<1>5. new \in Seq(Object) /\ Len(new) = Len(objs) /\ DOMAIN new = 1..Len(objs)
  BY <1>1, <1>4, SeqDef, LenProperties
<1>6. \A i \in 1..Len(objs) : new[i].kind = objs[i].kind /\ new[i].anonymous = objs[i].anonymous
  <2> TAKE i \in 1..Len(objs)
  <2>1. CASE <<r, i>> \in map
    BY <1>1, <1>2, <2>1 DEF Object
  <2>2. CASE <<r, i>> \notin map
    BY <1>2, <2>2
  <2> QED
    BY <2>1, <2>2
<1>7. ASSUME \A i \in DOMAIN objs : <<r, i>> \notin map
      PROVE  new = objs
  <2>1. \A i \in 1..Len(objs) : new[i] = objs[i]
    BY <1>1, <1>2, <1>7
  <2> QED
    BY <1>1, <1>5, <2>1, SeqEqual
<1> QED
  BY <1>1, <1>5, <1>6, <1>7 DEF objs, new

(* A type that was moved nowhere keeps its Objects where they are.         *)
LEMMA MovedMerged ==
  ASSUME IInv, NEW inner \in Structs, NEW by \in Nat, Kept, Merged(inner)',
         NEW r \in Structs, ~Merged(r)'
  PROVE  Moved(r, type[inner].memberMap, by) = object[r]
<1> DEFINE map == type[inner].memberMap
<1>1. ~Merged(r)
  BY MergedStays
<1>2. r # inner
  OBVIOUS
<1>3. \A i \in DOMAIN object[r] : <<r, i>> \notin map
  <2>1. SUFFICES ASSUME NEW i \in DOMAIN object[r], <<r, i>> \in map
                 PROVE  FALSE
    OBVIOUS
  <2>2. <<r, i>>[1] = inner \/ Merged(<<r, i>>[1])
    BY <2>1 DEF IInv, MapOK
  <2>3. <<r, i>>[1] = r
    OBVIOUS
  <2> QED
    BY <1>1, <1>2, <2>2, <2>3
<1> HIDE DEF map
<1>4. Moved(r, map, by) = object[r]
  BY <1>3, MovedType
<1> QED
  BY <1>4 DEF map

LEMMA AnonymousMember ==
  ASSUME NEW k \in Kinds, NEW width \in Nat, NEW off \in Nat, NEW align \in Nat \ {0}
  PROVE  LET m == [NewMember(k, width, off, align) EXCEPT !.anonymous = TRUE]
         IN  /\ m \in Object /\ m.bits = 0 /\ m.begin = 0 /\ m.off = off /\ m.kind = k
             /\ m.anonymous /\ m.width \in Nat
<1> DEFINE n == NewMember(k, width, off, align)
<1>1. n \in Object /\ n.bits = 0 /\ n.begin = 0 /\ n.off = off /\ n.kind = k /\ n.width = width
  BY DEF NewMember, Object
<1> HIDE DEF n
<1>2. [n EXCEPT !.anonymous = TRUE] \in Object
  BY <1>1 DEF Object
<1>3. LET m == [n EXCEPT !.anonymous = TRUE]
      IN  m.bits = n.bits /\ m.begin = n.begin /\ m.off = n.off /\ m.kind = n.kind
          /\ m.anonymous /\ m.width = n.width
  BY <1>1 DEF Object
<1> QED
  BY <1>1, <1>2, <1>3 DEF n

(* Merging an unnamed struct or union keeps IInv: only types that now are, *)
(* or were before, part of another have their Objects moved.               *)
LEMMA DeclareAnonymousKeeps ==
  ASSUME IInv, NEW s \in Structs, NEW inner \in Structs, DeclareAnonymous(s, inner)
  PROVE  IInv'
<1> DEFINE off == MakeAlign(type[s].offset, AlignOf(inner))
           map == type[inner].memberMap
           m == [NewMember(inner, WidthOf(inner), off, AlignOf(inner)) EXCEPT !.anonymous = TRUE]
           u == MergeAnony(type[s], NextId(s), m, type[inner])
           end == m.off + m.width
           names == type[s].memberMap \cup map
<1>1. /\ InDefinition(s) /\ type[inner].state = "complete" /\ UNCHANGED open
      /\ object' = [r \in Structs |-> IF r = s THEN Append(Moved(s, map, off), m)
                                      ELSE Moved(r, map, off)]
      /\ type' = [type EXCEPT ![s] = u]
  BY DEF DeclareAnonymous
<1>2. /\ type[s].state = "open" /\ type[s] \in StructType /\ NextId(s) \in Ids
      /\ Len(object[s]) + 1 <= MaxMembers[s]
  BY <1>1, InDefinitionOpen
<1>3. /\ type \in [Structs -> StructType] /\ object[s] \in Seq(Object)
      /\ type[inner] \in StructType /\ type[s].offset \in Nat /\ inner \in Kinds
      /\ inner \notin Scalars
  BY ScalarsAssumption DEF IInv, TypeOK, StructType, Kinds
<1>4. WidthOf(inner) \in Nat /\ AlignOf(inner) \in Nat \ {0}
  BY <1>3, KindType DEF IInv
<1>5. off \in Nat /\ off >= type[s].offset
  BY <1>3, <1>4, MakeAlignUp
<1> HIDE DEF off
<1>6. /\ m \in Object /\ m.bits = 0 /\ m.begin = 0 /\ m.off = off /\ m.kind = inner
      /\ m.anonymous /\ m.width \in Nat
  BY <1>3, <1>4, <1>5, AnonymousMember
<1>7. ~EmptyField(m)
  BY <1>3, <1>6 DEF EmptyField
<1> HIDE DEF m
<1>8. Extends(u, type[s], names, end)
  BY <1>2, <1>3, <1>6, MergeAnonyType
<1>9. end \in Nat
  BY <1>5, <1>6
<1> HIDE DEF u, end, map
<1>10. u \in StructType /\ u.state = "open" /\ u.isStruct = type[s].isStruct
       /\ u.memberMap = names /\ (type[s].isStruct => u.offset = end)
  BY <1>2, <1>8 DEF Extends
<1>11. \A r \in Structs :
         /\ Moved(r, map, off) \in Seq(Object) /\ Len(Moved(r, map, off)) = Len(object[r])
         /\ DOMAIN Moved(r, map, off) = DOMAIN object[r]
         /\ \A i \in DOMAIN object[r] :
              /\ Moved(r, map, off)[i].kind = object[r][i].kind
              /\ Moved(r, map, off)[i].anonymous = object[r][i].anonymous
  BY <1>5, MovedType
<1> DEFINE moved == Moved(s, map, off)
<1>12. /\ \A r \in Structs \ {s} : object'[r] = Moved(r, map, off) /\ type'[r] = type[r]
       /\ object'[s] = Append(moved, m) /\ type'[s] = u
  BY <1>1, <1>3
<1>13. moved \in Seq(Object) /\ Len(moved) = Len(object[s]) /\ DOMAIN moved = DOMAIN object[s]
  BY <1>11
<1> HIDE DEF moved
<1>14. /\ Append(moved, m) \in Seq(Object)
       /\ Len(Append(moved, m)) = Len(object[s]) + 1
       /\ DOMAIN Append(moved, m) = 1..(Len(object[s]) + 1)
       /\ DOMAIN object[s] = 1..Len(object[s]) /\ Len(object[s]) \in Nat
       /\ Append(moved, m)[Len(object[s]) + 1] = m
       /\ \A i \in DOMAIN object[s] : Append(moved, m)[i] = moved[i]
  BY <1>6, <1>13, <1>3, AppendProperties, LenProperties
<1>15. OpenOK' /\ type' \in [Structs -> StructType]
  <2>1. \A r \in Structs \ {s} : object[r] = <<>> => object'[r] = <<>>
    <3> TAKE r \in Structs \ {s}
    <3> HAVE object[r] = <<>>
    <3>1. object'[r] \in Seq(Object) /\ Len(object'[r]) = 0
      BY <1>11, <1>12
    <3> QED
      BY <3>1, EmptySeq
  <2> QED
    BY <1>1, <1>2, <1>10, <2>1, ExtendStep
<1>16. TypeOK'
  <2>1. \A r \in Structs : object'[r] \in Seq(Object) /\ Len(object'[r]) <= MaxMembers[r]
    <3> TAKE r \in Structs
    <3>1. CASE r = s
      BY <1>2, <1>12, <1>14, <3>1
    <3>2. CASE r # s
      <4>1. Len(object[r]) <= MaxMembers[r]
        BY DEF IInv, TypeOK
      <4> QED
        BY <1>11, <1>12, <3>2, <4>1
    <3> QED
      BY <3>1, <3>2
  <2>2. DOMAIN object' = Structs /\ object' = [r \in Structs |-> object'[r]]
    BY <1>1
  <2> QED
    BY <1>1, <1>15, <2>1, <2>2 DEF IInv, TypeOK
<1>17. Kept
  <2>1. \A i \in DOMAIN object[s] :
          /\ i \in DOMAIN object'[s]
          /\ object'[s][i].kind = object[s][i].kind
          /\ object'[s][i].anonymous = object[s][i].anonymous
    BY <1>11, <1>12, <1>14 DEF moved
  <2>2. ASSUME NEW r \in Structs \ {s}, NEW i \in DOMAIN object[r]
        PROVE  /\ i \in DOMAIN object'[r]
               /\ object'[r][i].kind = object[r][i].kind
               /\ object'[r][i].anonymous = object[r][i].anonymous
    <3>1. object'[r] = Moved(r, map, off)
      BY <1>12
    <3> QED
      BY <1>11, <3>1
  <2> QED
    BY <2>1, <2>2 DEF Kept
<1>18. Merged(inner)'
  <2>1. Len(object[s]) + 1 \in DOMAIN object'[s] /\ object'[s][Len(object[s]) + 1] = m
    BY <1>12, <1>14
  <2> QED
    BY <1>6, <2>1 DEF Merged, Anony
<1>19. MapOK'
  <2>1. SUFFICES ASSUME NEW r \in Structs, NEW id \in type'[r].memberMap, id[1] # r
                 PROVE  Merged(id[1])'
    BY DEF MapOK, Merged, Anony
  <2>2. CASE id \in type[r].memberMap
    BY <1>17, <2>1, <2>2, MergedStays DEF IInv, MapOK
  <2>3. CASE id \in map
    BY <1>17, <1>18, <2>3, MergedStays DEF IInv, MapOK, map
  <2> QED
    BY <1>10, <1>12, <2>1, <2>2, <2>3
<1>20. LaidOut'
  <2>1. \A r \in Structs : ~Merged(r)' => Moved(r, map, off) = object[r]
    BY <1>5, <1>17, <1>18, MovedMerged DEF map
  <2>2. \A r \in Structs \ {s} : ~Merged(r)' => object'[r] = object[r]
    BY <1>12, <2>1
  <2>3. ~Merged(s)' => object'[s] = Append(object[s], m)
    BY <1>12, <2>1 DEF moved
  <2>4. type'[s].offset \in Nat /\ type'[s].isStruct = type[s].isStruct
    BY <1>10, <1>12 DEF StructType
  <2>5. Laid(object[s], type[s].offset) => Placed(object[s], m, end)
    BY <1>3, <1>5, <1>6, <1>7, MemberPlaced DEF end
  <2>6. type[s].isStruct /\ Laid(object[s], type[s].offset) /\ m.bits <= 8 * m.width
          => Placed(object[s], m, type'[s].offset)
    BY <1>10, <1>12, <2>5
  <2>7. TypeOK /\ LaidOut
    BY DEF IInv
  <2> QED
    BY <1>6, <1>12, <1>17, <2>2, <2>3, <2>4, <2>6, <2>7, LaidStep
<1> QED
  BY <1>15, <1>16, <1>19, <1>20 DEF IInv
-----------------------------------------------------------------------------
(* Finalize() takes members out of the list and changes no place.          *)
LEMMA FinalizeType ==
  ASSUME NEW t \in StructType, NEW objects
  PROVE  LET u == Finalize(t, objects)
         IN  /\ u \in StructType /\ u.state = "complete" /\ u.isStruct = t.isStruct
             /\ u.memberMap = t.memberMap /\ u.offset = t.offset
<1> DEFINE keep == {i \in t.members : ~(objects[i].bits > 0 /\ objects[i].anonymous)}
<1>1. keep \in SUBSET Nat
  BY DEF StructType
<1>2. Finalize(t, objects) = [t EXCEPT !.state = "complete", !.members = keep]
  BY DEF Finalize
<1> HIDE DEF keep
<1> QED
  BY <1>1, <1>2 DEF StructType

(* The innermost type leaves the open ones, which keep their order.        *)
LEMMA CompleteOpen ==
  ASSUME IInv, NEW s \in Structs, open # <<>>, s = Last(open),
         NEW u \in StructType, u.state = "complete",
         type' = [type EXCEPT ![s] = u], open' = Front(open),
         \A r \in Structs \ {s} : object'[r] = object[r]
  PROVE  OpenOK' /\ open' \in Seq(Structs) /\ type' \in [Structs -> StructType]
<1>1. open \in Seq(Structs) /\ Len(open) \in Nat \ {0} /\ DOMAIN open = 1..Len(open)
  BY LenProperties, EmptySeq DEF IInv, TypeOK
<1>2. open' = SubSeq(open, 1, Len(open) - 1)
  BY DEF Front
<1>3. /\ open' \in Seq(Structs) /\ DOMAIN open' = 1..(Len(open) - 1)
      /\ \A i \in 1..(Len(open) - 1) : open'[i] = open[i]
  BY <1>1, <1>2, SubSeqProperties, LenProperties
<1>4. open[Len(open)] = s
  BY DEF Last
<1>5. /\ type \in [Structs -> StructType]
      /\ \A r \in Structs : type'[r] = IF r = s THEN u ELSE type[r]
  BY DEF IInv, TypeOK
<1>6. \A i \in DOMAIN open' :
        /\ i \in DOMAIN open /\ open'[i] = open[i] /\ open[i] \in Structs
        /\ open[i] # s
  <2> TAKE i \in DOMAIN open'
  <2>1. i \in DOMAIN open /\ i # Len(open) /\ Len(open) \in DOMAIN open
    BY <1>1, <1>3
  <2>2. open[i] # open[Len(open)]
    BY <2>1 DEF IInv, OpenOK
  <2> QED
    BY <1>1, <1>3, <1>4, <2>1, <2>2, ElementOfSeq
<1>7. \A i \in DOMAIN open' : type'[open'[i]].state = "open"
  <2> TAKE i \in DOMAIN open'
  <2>1. type'[open'[i]] = type[open[i]]
    BY <1>5, <1>6
  <2> QED
    BY <1>6, <2>1 DEF IInv, OpenOK
<1>8. \A i, j \in DOMAIN open' : i # j => open'[i] # open'[j]
  BY <1>6 DEF IInv, OpenOK
<1>9. \A r \in Structs : type'[r].state = "undeclared" => object'[r] = <<>>
  BY <1>5 DEF IInv, OpenOK
<1> QED
  BY <1>3, <1>5, <1>7, <1>8, <1>9 DEF OpenOK

(* The end of a type keeps IInv.                                           *)
LEMMA EndKeeps ==
  ASSUME IInv, NEW s \in Structs, End(s)
  PROVE  IInv'
<1> DEFINE u == Finalize(type[s], object[s])
<1>1. open # <<>> /\ s = Last(open) /\ object' = object
  BY DEF End
<1>2. open' = Front(open) /\ type' = [type EXCEPT ![s] = u]
  BY DEF End, Complete
<1>3. type \in [Structs -> StructType]
  BY DEF IInv, TypeOK
<1>4. /\ u \in StructType /\ u.state = "complete" /\ u.isStruct = type[s].isStruct
      /\ u.memberMap = type[s].memberMap /\ u.offset = type[s].offset
  BY <1>3, FinalizeType
<1> HIDE DEF u
<1>5. OpenOK' /\ open' \in Seq(Structs) /\ type' \in [Structs -> StructType]
  BY <1>1, <1>2, <1>4, CompleteOpen
<1>6. TypeOK'
  BY <1>1, <1>5 DEF IInv, TypeOK
<1>7. \A r \in Structs : /\ type'[r].isStruct = type[r].isStruct
                         /\ type'[r].memberMap = type[r].memberMap
                         /\ type'[r].offset = type[r].offset
  BY <1>2, <1>3, <1>4
<1>8. MapOK'
  BY <1>1, <1>7 DEF IInv, MapOK, Merged, Anony
<1>9. LaidOut'
  <2>1. SUFFICES ASSUME NEW r \in Structs, type'[r].isStruct, ~Merged(r)', ~Wrapped(r)'
                 PROVE  Laid(object[r], type'[r].offset)
    BY <1>1 DEF LaidOut, Laid
  <2>2. ~Merged(r) /\ ~Wrapped(r)
    BY <1>1, <2>1 DEF Merged, Wrapped, Anony
  <2> QED
    BY <1>7, <2>1, <2>2 DEF IInv, LaidOut
<1> QED
  BY <1>5, <1>6, <1>8, <1>9 DEF IInv

(* A flexible array member is placed like any other.                       *)
LEMMA DeclareFlexibleKeeps ==
  ASSUME IInv, NEW s \in Structs, NEW k \in Kinds, NEW align, DeclareFlexible(s, k, align)
  PROVE  IInv'
<1> DEFINE m == NewMember(k, 0, MakeAlign(type[s].offset, align), align)
           t == AddMember(type[s], NextId(s), m)
           u == Finalize(t, Append(object[s], m))
           map == type[s].memberMap \cup {NextId(s)}
           end == m.off + m.width
<1>1. /\ InDefinition(s) /\ align \in Alignas \cup {AlignOf(k)}
      /\ object' = [object EXCEPT ![s] = Append(@, m)]
      /\ open' = Front(open) /\ type' = [type EXCEPT ![s] = u]
  BY DEF DeclareFlexible, Complete
<1>2. align \in Nat \ {0}
  BY <1>1, KindType, ScalarsAssumption DEF IInv
<1>3. type[s] \in StructType /\ NextId(s) \in Ids /\ Len(object[s]) + 1 <= MaxMembers[s]
  BY <1>1, InDefinitionOpen
<1>4. type[s].offset \in Nat
  BY <1>3 DEF StructType
<1>5. m \in Object /\ m.off >= type[s].offset /\ m.bits = 0 /\ m.begin = 0 /\ ~EmptyField(m)
  BY <1>2, <1>4, NewMemberType
<1> HIDE DEF m
<1>6. Extends(t, type[s], map, end)
  BY <1>3, <1>5, AddMemberType
<1> HIDE DEF t, map, end
<1>7. t \in StructType /\ t.isStruct = type[s].isStruct /\ t.memberMap = map
      /\ (type[s].isStruct => t.offset = end)
  BY <1>6 DEF Extends
<1>8. /\ u \in StructType /\ u.state = "complete" /\ u.isStruct = type[s].isStruct
      /\ u.memberMap = map /\ (type[s].isStruct => u.offset = end)
  BY <1>7, FinalizeType
<1> HIDE DEF u
<1>9. /\ object \in [Structs -> Seq(Object)] /\ object[s] \in Seq(Object)
      /\ type \in [Structs -> StructType]
  BY DEF IInv, TypeOK
<1>10. /\ Append(object[s], m) \in Seq(Object)
       /\ Len(Append(object[s], m)) = Len(object[s]) + 1
       /\ DOMAIN Append(object[s], m) = 1..(Len(object[s]) + 1)
       /\ DOMAIN object[s] = 1..Len(object[s]) /\ Len(object[s]) \in Nat
       /\ \A i \in DOMAIN object[s] : Append(object[s], m)[i] = object[s][i]
  BY <1>5, <1>9
<1>11. /\ \A r \in Structs \ {s} : object'[r] = object[r] /\ type'[r] = type[r]
       /\ object'[s] = Append(object[s], m) /\ type'[s] = u
       /\ object' \in [Structs -> Seq(Object)]
  BY <1>1, <1>9, <1>10
<1>12. OpenOK' /\ open' \in Seq(Structs) /\ type' \in [Structs -> StructType]
  BY <1>1, <1>8, <1>11, CompleteOpen DEF InDefinition
<1>13. TypeOK'
  <2>1. \A r \in Structs : Len(object'[r]) <= MaxMembers[r]
    BY <1>3, <1>10, <1>11 DEF IInv, TypeOK
  <2> QED
    BY <1>11, <1>12, <2>1 DEF TypeOK
<1>14. Kept
  <2>1. \A i \in DOMAIN object[s] : i \in DOMAIN object'[s] /\ object'[s][i] = object[s][i]
    BY <1>10, <1>11
  <2> QED
    BY <1>11, <2>1 DEF Kept
<1>15. MapOK'
  <2>1. SUFFICES ASSUME NEW r \in Structs, NEW id \in type'[r].memberMap, id[1] # r
                 PROVE  Merged(id[1])'
    BY DEF MapOK, Merged, Anony
  <2>2. id \in type[r].memberMap
    BY <1>8, <1>11, <2>1 DEF NextId, map
  <2> QED
    BY <1>14, <2>1, <2>2, MergedStays DEF IInv, MapOK
<1>16. LaidOut'
  <2>1. type'[s].offset \in Nat /\ type'[s].isStruct = type[s].isStruct
    BY <1>8, <1>11 DEF StructType
  <2>2. TypeOK /\ LaidOut
    BY DEF IInv
  <2>3. Laid(object[s], type[s].offset) => Placed(object[s], m, end)
    BY <1>4, <1>5, <1>9, MemberPlaced DEF end
  <2>4. type[s].isStruct /\ Laid(object[s], type[s].offset) /\ m.bits <= 8 * m.width
          => Placed(object[s], m, type'[s].offset)
    BY <1>8, <1>11, <2>3
  <2> QED
    BY <1>5, <1>11, <1>14, <2>1, <2>2, <2>4, LaidStep
<1> QED
  BY <1>12, <1>13, <1>15, <1>16 DEF IInv

-----------------------------------------------------------------------------
LEMMA InitHolds == Init => IInv
<1> SUFFICES ASSUME Init PROVE IInv
  OBVIOUS
<1>1. Undeclared \in StructType /\ Undeclared.memberMap = {} /\ Undeclared.state = "undeclared"
  BY DEF Undeclared, StructType
<1>2. /\ open = <<>> /\ type = [s \in Structs |-> Undeclared]
      /\ object = [s \in Structs |-> <<>>]
  BY DEF Init
<1> HIDE DEF Undeclared
<1>3. DOMAIN open = {} /\ open \in Seq(Structs)
  BY <1>2, EmptySeq, LenProperties
<1>4. TypeOK
  <2>1. <<>> \in Seq(Object) /\ Len(<<>>) = 0
    BY EmptySeq
  <2>2. \A s \in Structs : MaxMembers[s] \in Nat
    BY ScalarsAssumption
  <2> QED
    BY <1>1, <1>2, <1>3, <2>1, <2>2 DEF TypeOK
<1>5. OpenOK
  BY <1>2, <1>3 DEF OpenOK
<1>6. MapOK
  BY <1>1, <1>2 DEF MapOK
<1>7. LaidOut
  BY <1>2 DEF LaidOut, Laid
<1> QED
  BY <1>4, <1>5, <1>6, <1>7 DEF IInv

LEMMA NextHolds == IInv /\ [Next]_vars => IInv'
<1> SUFFICES ASSUME IInv, [Next]_vars
             PROVE  IInv'
  OBVIOUS
<1>1. CASE UNCHANGED vars
  BY <1>1 DEF IInv, TypeOK, OpenOK, MapOK, LaidOut, Laid, Merged, Wrapped, Anony, vars
<1>2. CASE Next
  <2>1. PICK s \in Structs :
          \/ \E isStruct \in BOOLEAN : Begin(s, isStruct)
          \/ \E k \in Kinds : \E align \in Alignas \cup {AlignOf(k)} :
               DeclareMember(s, k, align) \/ DeclareFlexible(s, k, align)
          \/ \E k \in Integral, w \in BitWidths, named \in BOOLEAN : DeclareBitField(s, k, w, named)
          \/ \E inner \in Structs : DeclareAnonymous(s, inner)
          \/ End(s)
    BY <1>2 DEF Next
  <2>2. ASSUME NEW isStruct \in BOOLEAN, Begin(s, isStruct) PROVE IInv'
    BY <2>2, BeginKeeps
  <2>3. ASSUME NEW k \in Kinds, NEW align, DeclareMember(s, k, align) PROVE IInv'
    BY <2>3, DeclareMemberKeeps
  <2>4. ASSUME NEW k \in Kinds, NEW align, DeclareFlexible(s, k, align) PROVE IInv'
    BY <2>4, DeclareFlexibleKeeps
  <2>5. ASSUME NEW k \in Integral, NEW w \in BitWidths, NEW named \in BOOLEAN,
               DeclareBitField(s, k, w, named)
        PROVE  IInv'
    BY <2>5, DeclareBitFieldKeeps
  <2>6. ASSUME NEW inner \in Structs, DeclareAnonymous(s, inner) PROVE IInv'
    BY <2>6, DeclareAnonymousKeeps
  <2>7. CASE End(s)
    BY <2>7, EndKeeps
  <2> QED
    BY <2>1, <2>2, <2>3, <2>4, <2>5, <2>6, <2>7
<1> QED
  BY <1>1, <1>2

(* The layouts are well-formed and every struct is laid out, whatever the  *)
(* types of the program and the sequence of its declarations.              *)
THEOREM LayoutInvariant == Spec => []IInv
BY InitHolds, NextHolds, PTL DEF Spec

THEOREM TypeCorrect == Spec => []TypeOK
BY LayoutInvariant, PTL DEF IInv

(* Members of a struct never share a bit, for any scalar types, widths of  *)
(* bit-fields and alignments, the zero widths that wrap aside: the place   *)
(* ParseStructUnionDecl() and ParseBitField() compute from the last member *)
(* and from offset_ is behind all members, not only the last.              *)
THEOREM MembersDisjointAlways == Spec => []MembersDisjoint
<1>1. IInv => MembersDisjoint
  BY DEF IInv, LaidOut, Laid, MembersDisjoint
<1> QED
  BY <1>1, LayoutInvariant, PTL

-----------------------------------------------------------------------------
(* Quotient and remainder of a division by an alignment.                   *)
LEMMA DivisionOf ==
  ASSUME NEW a \in Int, NEW b \in Nat \ {0}
  PROVE  a \div b \in Int /\ a % b \in 0..(b - 1) /\ a = b * (a \div b) + (a % b)
OBVIOUS

(* A product is a multiple of its factors.                                 *)
LEMMA MultipleOf ==
  ASSUME NEW q \in Int, NEW b \in Nat \ {0}
  PROVE  (b * q) % b = 0
<1> DEFINE r == (b * q) % b
           p == (b * q) \div b
<1>1. b * q \in Int
  OBVIOUS
<1>2. p \in Int /\ r \in 0..(b - 1) /\ b * q = b * p + r
  BY <1>1, DivisionOf
<1> HIDE DEF r, p
<1>3. b * (q - p) = r
  BY <1>2
<1>4. q - p \in Int
  BY <1>2
<1>5. CASE q - p <= -1
  <2>1. b * (q - p) <= -b
    BY <1>4, <1>5
  <2> QED
    BY <1>2, <1>3, <2>1
<1>6. CASE q - p >= 1
  <2>1. b * (q - p) >= b
    BY <1>4, <1>6
  <2> QED
    BY <1>2, <1>3, <2>1
<1>7. CASE q - p = 0
  BY <1>3, <1>7 DEF r
<1> QED
  BY <1>4, <1>5, <1>6, <1>7

(* A multiple is the product with some quotient.                           *)
LEMMA QuotientOf ==
  ASSUME NEW a \in Int, NEW b \in Nat \ {0}, a % b = 0
  PROVE  \E q \in Int : a = b * q
<1>1. a \div b \in Int /\ a = b * (a \div b) + (a % b)
  BY DivisionOf
<1> DEFINE q == a \div b
<1>2. q \in Int /\ a = b * q + 0
  BY <1>1
<1> HIDE DEF q
<1>3. a = b * q
  BY <1>2
<1> QED
  BY <1>2, <1>3

(* The sum of multiples is one, and so is the multiple of a multiple.      *)
LEMMA SumMultiple ==
  ASSUME NEW a \in Int, NEW c \in Int, NEW b \in Nat \ {0}, a % b = 0, c % b = 0
  PROVE  (a + c) % b = 0
<1>1. PICK q \in Int : a = b * q
  BY QuotientOf
<1>2. PICK p \in Int : c = b * p
  BY QuotientOf
<1>3. a + c = b * (q + p)
  BY <1>1, <1>2
<1>4. q + p \in Int
  OBVIOUS
<1> QED
  BY <1>3, <1>4, MultipleOf

LEMMA MultipleTransitive ==
  ASSUME NEW a \in Int, NEW b \in Nat \ {0}, NEW c \in Nat \ {0}, a % b = 0, b % c = 0
  PROVE  a % c = 0
<1>1. PICK q \in Int : a = b * q
  BY QuotientOf
<1>2. PICK p \in Int : b = c * p
  BY QuotientOf
<1>3. a = c * (p * q)
  BY <1>1, <1>2
<1>4. p * q \in Int
  OBVIOUS
<1> QED
  BY <1>3, <1>4, MultipleOf

(* MakeAlign() returns a multiple.                                         *)
LEMMA MakeAlignMultiple ==
  ASSUME NEW offset \in Nat, NEW align \in Nat \ {0}
  PROVE  MakeAlign(offset, align) % align = 0
<1>1. offset \div align \in Int /\ offset % align \in 0..(align - 1)
      /\ offset = align * (offset \div align) + (offset % align)
  BY DivisionOf
<1>2. CASE offset % align = 0
  BY <1>2 DEF MakeAlign
<1>3. CASE offset % align # 0
  <2>1. MakeAlign(offset, align) = offset + align - (offset % align)
    BY <1>3 DEF MakeAlign
  <2> DEFINE q == offset \div align
             r == offset % align
  <2>2. q \in Int /\ r \in Int /\ offset = align * q + r /\ MakeAlign(offset, align) = offset + align - r
    BY <1>1, <2>1
  <2> HIDE DEF q, r
  <2>3. MakeAlign(offset, align) = align * (q + 1)
    BY <2>2
  <2>4. q + 1 \in Int
    BY <2>2
  <2> QED
    BY <2>3, <2>4, MultipleOf
<1> QED
  BY <1>2, <1>3

-----------------------------------------------------------------------------
\* The alignments of members and types.
Aligns == Alignas \cup Range(ScalarAlign) \cup {1}

(* Alignments are positive, those of scalars and of _Alignas among them.   *)
LEMMA AlignsType ==
  /\ \A a \in Aligns : a \in Nat \ {0}
  /\ 1 \in Aligns /\ Alignas \subseteq Aligns
  /\ \A k \in Scalars : ScalarAlign[k] \in Aligns
<1>1. \A a \in Alignas : a \in Nat \ {0}
  BY ScalarsAssumption
<1>2. DOMAIN ScalarAlign = Scalars /\ \A k \in Scalars : ScalarAlign[k] \in Nat \ {0}
  BY ScalarsAssumption
<1> QED
  BY <1>1, <1>2 DEF Aligns, Range

(* Of two alignments the larger is a multiple of both.                     *)
LEMMA LargerAlign ==
  ASSUME NEW a \in Aligns, NEW b \in Aligns
  PROVE  /\ Larger(a, b) \in Aligns
         /\ Larger(a, b) % a = 0 /\ Larger(a, b) % b = 0
<1>1. a \in Nat \ {0} /\ b \in Nat \ {0}
  BY AlignsType
<1>2. a % a = 0 /\ b % b = 0 /\ a % 1 = 0 /\ b % 1 = 0
  <2>1. a = a * 1 /\ b = b * 1 /\ a = 1 * a /\ b = 1 * b
    BY <1>1
  <2>2. (a * 1) % a = 0 /\ (b * 1) % b = 0 /\ (1 * a) % 1 = 0 /\ (1 * b) % 1 = 0
    BY <1>1, MultipleOf
  <2> QED
    BY <2>1, <2>2
<1>3. a % b = 0 \/ b % a = 0
  <2>1. CASE a = 1 \/ b = 1
    BY <1>2, <2>1
  <2>2. CASE a # 1 /\ b # 1
    BY <2>2, AlignmentsAssumption DEF Aligns
  <2> QED
    BY <2>1, <2>2
<1>4. ASSUME NEW x \in Nat \ {0}, NEW y \in Nat \ {0}, x >= y, y % x = 0
      PROVE  x = y
  <2>1. y \div x \in Int /\ y = x * (y \div x)
    BY <1>4, DivisionOf
  <2> DEFINE q == y \div x
  <2>2. q \in Int /\ y = x * q
    BY <2>1
  <2> HIDE DEF q
  <2>3. CASE q <= 0
    BY <2>2, <2>3
  <2>4. CASE q >= 2
    <3>1. x * q >= x * 2
      BY <2>2, <2>4
    <3> QED
      BY <1>4, <2>2, <3>1
  <2>5. CASE q = 1
    BY <2>2, <2>5
  <2> QED
    BY <2>2, <2>3, <2>4, <2>5
<1>5. CASE a >= b
  <2>1. Larger(a, b) = a
    BY <1>5 DEF Larger
  <2>2. a % b = 0
    BY <1>1, <1>2, <1>3, <1>4, <1>5
  <2> QED
    BY <1>2, <2>1, <2>2
<1>6. CASE ~(a >= b)
  <2>1. Larger(a, b) = b /\ b >= a
    BY <1>1, <1>6 DEF Larger
  <2>2. b % a = 0
    BY <1>1, <1>2, <1>3, <1>4, <2>1
  <2> QED
    BY <1>2, <2>1, <2>2
<1> QED
  BY <1>5, <1>6

\* What the entry of a member m does to the alignment and the extent of t.
Grows(u, t, m) ==
  /\ u.align \in Aligns /\ u.bitFieldAlign \in Aligns /\ u.align % t.align = 0
  /\ t.isStruct => u.offset <= u.width
  /\ ~t.isStruct => u.offset = t.offset /\ t.width <= u.width /\ m.width <= u.width

\* The alignments of t are those of members.
Aligned(t) == t.align \in Aligns /\ t.bitFieldAlign \in Aligns

(* GrowStruct() rounds the end of a struct up to the alignment.            *)
LEMMA GrowStructWidth ==
  ASSUME NEW g \in StructType, NEW end \in Nat, NEW align \in Nat \ {0}
  PROVE  LET u == GrowStruct(g, end, align)
         IN  /\ u.offset <= u.width /\ u.width % align = 0
             /\ u.align = g.align /\ u.bitFieldAlign = g.bitFieldAlign
<1>1. /\ MakeAlign(end, align) >= end /\ MakeAlign(end, align) \in Nat
      /\ MakeAlign(end, align) % align = 0
  BY MakeAlignUp, MakeAlignMultiple
<1> QED
  BY <1>1 DEF GrowStruct, StructType

(* What AddMember() does to alignment, width and end of a type.            *)
LEMMA AddMemberGrows ==
  ASSUME NEW t \in StructType, NEW id \in Ids, NEW m \in Object, Aligned(t), m.align \in Aligns
  PROVE  LET u == AddMember(t, id, m)
         IN  /\ Grows(u, t, m) /\ u.align % m.align = 0
             /\ u.width % u.align = 0 /\ u.bitFieldAlign % u.align = 0
<1> DEFINE align == Larger(t.align, m.align)
           bits == Larger(t.bitFieldAlign, align)
           grown == [t EXCEPT !.members = @ \cup {id[2]},
                             !.memberMap = @ \cup {id},
                             !.align = align,
                             !.bitFieldAlign = bits]
           end == m.off + m.width
           width == MakeAlign(Larger(grown.width, m.width), grown.align)
           u == AddMember(t, id, m)
<1>1. /\ t.width \in Nat /\ m.width \in Nat /\ m.off \in Nat
      /\ id[2] \in Nat /\ t.members \in SUBSET Nat /\ t.memberMap \in SUBSET Ids
  BY DEF StructType, Object, Ids
<1>2. align \in Aligns /\ align % t.align = 0 /\ align % m.align = 0
  BY LargerAlign DEF Aligned
<1>3. bits \in Aligns /\ bits % align = 0
  BY <1>2, LargerAlign DEF Aligned
<1>4. u = IF t.isStruct THEN GrowStruct(grown, end, grown.align)
          ELSE [grown EXCEPT !.width = width]
  BY DEF AddMember
<1> HIDE DEF align, bits
<1>5. align \in Nat \ {0} /\ bits \in Nat \ {0}
  BY <1>2, <1>3, AlignsType
<1>6. /\ grown \in StructType /\ grown.align = align /\ grown.bitFieldAlign = bits
      /\ grown.width = t.width /\ grown.offset = t.offset
  BY <1>1, <1>5 DEF StructType
<1> HIDE DEF grown, u
<1>7. CASE t.isStruct
  <2>1. u = GrowStruct(grown, end, align) /\ end \in Nat
    BY <1>1, <1>4, <1>6, <1>7
  <2> HIDE DEF end
  <2>2. /\ u.offset <= u.width /\ u.width % align = 0
        /\ u.align = align /\ u.bitFieldAlign = bits
    BY <1>5, <1>6, <2>1, GrowStructWidth
  <2> QED
    BY <1>2, <1>3, <1>7, <2>2 DEF Grows, u
<1>8. CASE ~t.isStruct
  <2>1. /\ Larger(t.width, m.width) \in Nat
        /\ Larger(t.width, m.width) >= t.width /\ Larger(t.width, m.width) >= m.width
    BY <1>1 DEF Larger
  <2> DEFINE wider == Larger(t.width, m.width)
  <2> HIDE DEF wider
  <2>2. wider \in Nat /\ wider >= t.width /\ wider >= m.width
    BY <2>1 DEF wider
  <2>3. /\ MakeAlign(wider, align) >= wider /\ MakeAlign(wider, align) \in Nat
        /\ MakeAlign(wider, align) % align = 0
    BY <1>5, <2>2, MakeAlignUp, MakeAlignMultiple
  <2>4. width = MakeAlign(wider, align)
    BY <1>6 DEF wider
  <2>5. width \in Nat /\ width >= t.width /\ width >= m.width /\ width % align = 0
    BY <1>1, <2>2, <2>3, <2>4
  <2> HIDE DEF width
  <2>6. u.width = width /\ u.align = align /\ u.bitFieldAlign = bits /\ u.offset = t.offset
    BY <1>4, <1>6, <1>8 DEF StructType
  <2> QED
    BY <1>1, <1>2, <1>3, <1>8, <2>5, <2>6 DEF Grows, u
<1> QED
  BY <1>7, <1>8

(* And AddBitField(), which counts the alignment of the unit only in       *)
(* bitFieldAlign_.                                                         *)
LEMMA AddBitFieldGrows ==
  ASSUME NEW t \in StructType, NEW id \in Ids, NEW m \in Object, Aligned(t), m.align \in Aligns
  PROVE  LET u == AddBitField(t, id, m)
         IN  /\ Grows(u, t, m) /\ u.align = t.align
             /\ u.bitFieldAlign % t.bitFieldAlign = 0
             /\ t.isStruct => u.width % u.bitFieldAlign = 0
<1> DEFINE map == IF m.anonymous THEN t.memberMap ELSE t.memberMap \cup {id}
           bits == Larger(t.bitFieldAlign, m.align)
           grown == [t EXCEPT !.members = @ \cup {id[2]}, !.memberMap = map,
                             !.bitFieldAlign = bits]
           end == m.off + Bytes(BitFieldEnd(m))
           width == Larger(grown.width, m.width)
           u == AddBitField(t, id, m)
<1>1. /\ t.width \in Nat /\ m.width \in Nat /\ m.off \in Nat /\ t.align \in Nat \ {0}
      /\ id[2] \in Nat /\ t.members \in SUBSET Nat /\ map \in SUBSET Ids
  BY DEF StructType, Object, Ids
<1>2. bits \in Aligns /\ bits % t.bitFieldAlign = 0
  BY LargerAlign DEF Aligned
<1>3. u = IF t.isStruct THEN GrowStruct(grown, end, grown.bitFieldAlign)
          ELSE [grown EXCEPT !.width = width]
  BY DEF AddBitField
<1> HIDE DEF map, bits
<1>4. bits \in Nat \ {0}
  BY <1>2, AlignsType
<1>5. /\ grown \in StructType /\ grown.align = t.align /\ grown.bitFieldAlign = bits
      /\ grown.width = t.width /\ grown.offset = t.offset
  BY <1>1, <1>4 DEF StructType
<1> HIDE DEF grown, u
<1>6. t.align % t.align = 0 /\ t.align \in Aligns
  BY LargerAlign DEF Aligned, Larger
<1>7. CASE t.isStruct
  <2>1. BitFieldEnd(m) \in 0..255
    BY DEF BitFieldEnd, Object
  <2>2. end \in Nat
    BY <1>1, <2>1, BytesHold
  <2>3. u = GrowStruct(grown, end, bits)
    BY <1>3, <1>5, <1>7
  <2> HIDE DEF end
  <2>4. /\ u.offset <= u.width /\ u.width % bits = 0
        /\ u.align = t.align /\ u.bitFieldAlign = bits
    BY <1>4, <1>5, <2>2, <2>3, GrowStructWidth
  <2> QED
    BY <1>2, <1>6, <1>7, <2>4 DEF Grows, u
<1>8. CASE ~t.isStruct
  <2>1. width \in Nat /\ width >= t.width /\ width >= m.width
    BY <1>1, <1>5 DEF Larger
  <2> HIDE DEF width
  <2>2. u.width = width /\ u.align = t.align /\ u.bitFieldAlign = bits /\ u.offset = t.offset
    BY <1>3, <1>5, <1>8 DEF StructType
  <2> QED
    BY <1>1, <1>2, <1>6, <1>8, <2>1, <2>2 DEF Grows, u
<1> QED
  BY <1>7, <1>8

(* And MergeAnony(), which counts that of the nested type only in align_.  *)
LEMMA MergeAnonyGrows ==
  ASSUME NEW t \in StructType, NEW id \in Ids, NEW m \in Object, NEW inner \in StructType,
         Aligned(t), m.align \in Aligns
  PROVE  LET u == MergeAnony(t, id, m, inner)
         IN  Grows(u, t, m) /\ u.align % m.align = 0
<1> DEFINE map == t.memberMap \cup inner.memberMap
           align == Larger(t.align, m.align)
           grown == [t EXCEPT !.members = @ \cup {id[2]}, !.memberMap = @ \cup inner.memberMap,
                             !.align = align]
           end == m.off + m.width
           width == Larger(grown.width, m.width)
           u == MergeAnony(t, id, m, inner)
<1>1. /\ t.width \in Nat /\ m.width \in Nat /\ m.off \in Nat
      /\ id[2] \in Nat /\ t.members \in SUBSET Nat
      /\ t.memberMap \in SUBSET Ids /\ inner.memberMap \in SUBSET Ids
  BY DEF StructType, Object, Ids
<1>2. align \in Aligns /\ align % t.align = 0 /\ align % m.align = 0
  BY LargerAlign DEF Aligned
<1>3. u = IF t.isStruct THEN GrowStruct(grown, end, grown.align)
          ELSE [grown EXCEPT !.width = width]
  BY DEF MergeAnony
<1> HIDE DEF align
<1>4. align \in Nat \ {0}
  BY <1>2, AlignsType
<1>5. /\ grown \in StructType /\ grown.align = align
      /\ grown.bitFieldAlign = t.bitFieldAlign
      /\ grown.width = t.width /\ grown.offset = t.offset
  BY <1>1, <1>4 DEF StructType
<1> HIDE DEF grown, u
<1>6. t.bitFieldAlign \in Aligns
  BY DEF Aligned
<1>7. CASE t.isStruct
  <2>1. u = GrowStruct(grown, end, align) /\ end \in Nat
    BY <1>1, <1>3, <1>5, <1>7
  <2> HIDE DEF end
  <2>2. u.offset <= u.width /\ u.align = align /\ u.bitFieldAlign = t.bitFieldAlign
    BY <1>4, <1>5, <2>1, GrowStructWidth
  <2> QED
    BY <1>2, <1>6, <1>7, <2>2 DEF Grows, u
<1>8. CASE ~t.isStruct
  <2>1. width \in Nat /\ width >= t.width /\ width >= m.width
    BY <1>1, <1>5 DEF Larger
  <2> HIDE DEF width
  <2>2. /\ u.width = width /\ u.align = align
        /\ u.bitFieldAlign = t.bitFieldAlign /\ u.offset = t.offset
    BY <1>3, <1>5, <1>8 DEF StructType
  <2> QED
    BY <1>1, <1>2, <1>6, <1>8, <2>1, <2>2 DEF Grows, u
<1> QED
  BY <1>7, <1>8

-----------------------------------------------------------------------------
\* The Object that a name denotes.
At(id) == object[id[1]][id[2]]

(* Names denote Objects that exist.                                        *)
MapDenotes ==
  \A s \in Structs : /\ \A id \in type[s].memberMap : id[2] \in DOMAIN object[id[1]]
                     /\ object[s] = <<>> => type[s].memberMap = {}

AlignsOK ==
  \A s \in Structs : /\ Aligned(type[s])
                     /\ \A i \in DOMAIN object[s] : object[s][i].align \in Aligns

(* A struct is as wide as it reaches; the members of a union start at 0.   *)
ReachOK ==
  \A s \in Structs :
    /\ type[s].offset <= type[s].width
    /\ ~type[s].isStruct \/ type[s].state = "undeclared" => type[s].offset = 0

(* bitFieldAlign_, with which AddBitField() rounds up, is a multiple of    *)
(* align_ too.                                                             *)
Sized ==
  \A s \in Structs : Ordinary(s) => /\ type[s].width % type[s].align = 0
                                    /\ type[s].bitFieldAlign % type[s].align = 0

\* A bit-field that is looked up is inside of its unit.
FieldsInside ==
  \A s \in Structs : \A id \in type[s].memberMap :
    At(id).bits > 0 => At(id).begin + At(id).bits <= 8 * At(id).width

\* No zero width wrapped and no type was moved twice.
Tame == \A r \in Structs : ~Wrapped(r) /\ MergedOnce(r)

(* What a name denotes is reachable by it through one type only that is    *)
(* not itself part of another.                                             *)
Apart ==
  Tame => \A r, q \in Structs : r # q /\ ~Merged(r) /\ ~Merged(q)
                                 => type[r].memberMap \cap type[q].memberMap = {}

\* The bit is before all that the next member of s can take.
Reaches(s, bit) ==
  IF type[s].isStruct
  THEN /\ object[s] # <<>>
       /\ bit <= 8 * type[s].offset /\ bit <= TotalBits(object[s][Len(object[s])])
  ELSE bit <= 8 * type[s].width

(* What s names, members that were moved into it included, is before the   *)
(* next member.                                                            *)
NamesLaid ==
  Tame => \A s \in Structs : ~Merged(s) =>
            \A id \in type[s].memberMap : Reaches(s, EndBit(At(id)))

NamesInv ==
  /\ MapDenotes /\ AlignsOK /\ ReachOK
  /\ PlainAligned /\ Sized /\ FieldsInside /\ Apart /\ NamesLaid

-----------------------------------------------------------------------------
\* The step that enters m into s, after moving what map names by that many bytes.
Adds(s, m, map, by, u) ==
  /\ object' = [r \in Structs |-> IF r = s THEN Append(Moved(s, map, by), m)
                                  ELSE Moved(r, map, by)]
  /\ type' = [type EXCEPT ![s] = u]

\* map is what inner names, or nothing.
Enters(s, m, inner, map, by, u) ==
  /\ Adds(s, m, map, by, u)
  /\ u \in StructType /\ u.state # "undeclared" /\ u.isStruct = type[s].isStruct
  /\ u.memberMap \subseteq type[s].memberMap \cup {NextId(s)} \cup map
  /\ Grows(u, type[s], m) /\ m.align \in Aligns
  /\ map \subseteq type[inner].memberMap /\ map \cap type[s].memberMap = {}
  /\ map # {} => /\ Anony(m, inner)
                 /\ by % type[inner].align = 0 /\ u.align % type[inner].align = 0
                 /\ EndBit(m) = 8 * by + 8 * type[inner].width

(* What is moved keeps everything but its place.                           *)
LEMMA MovedObject ==
  ASSUME NEW m \in Object, NEW by \in Nat
  PROVE  LET n == [m EXCEPT !.off = @ + by]
         IN  /\ n.kind = m.kind /\ n.width = m.width /\ n.align = m.align /\ n.begin = m.begin
             /\ n.bits = m.bits /\ n.anonymous = m.anonymous
             /\ n.off = m.off + by
             /\ EndBit(n) = EndBit(m) + 8 * by
<1> DEFINE n == [m EXCEPT !.off = @ + by]
<1>1. /\ n.kind = m.kind /\ n.width = m.width /\ n.align = m.align /\ n.begin = m.begin
      /\ n.bits = m.bits /\ n.anonymous = m.anonymous
      /\ n.off = m.off + by
  BY DEF Object
<1>2. m.off \in Nat /\ m.begin \in Nat /\ m.bits \in Nat /\ m.width \in Nat
  BY DEF Object
<1> HIDE DEF n
<1>3. BitsOf(n) = BitsOf(m) /\ BitsOf(m) \in Nat
  BY <1>1, <1>2 DEF BitsOf, EmptyField
<1>4. FirstBit(n) = FirstBit(m) + 8 * by /\ FirstBit(m) \in Nat
  BY <1>1, <1>2 DEF FirstBit
<1>5. EndBit(n) = EndBit(m) + 8 * by
  BY <1>3, <1>4 DEF EndBit
<1> QED
  BY <1>1, <1>5 DEF n

\* The step moves the Object when map names it, and leaves it alone otherwise.
MovedAt(r, i, map, by) ==
  /\ object[r][i] \in Object /\ i \in DOMAIN object'[r]
  /\ object'[r][i] = IF <<r, i>> \in map THEN [object[r][i] EXCEPT !.off = @ + by]
                     ELSE object[r][i]

(* The Objects after the step.                                             *)
Added(s, m, map, by, u) ==
  /\ \A r \in Structs : \A i \in DOMAIN object[r] : MovedAt(r, i, map, by)
  /\ \A r \in Structs \ {s} : DOMAIN object'[r] = DOMAIN object[r]
  /\ Len(object[s]) + 1 \notin DOMAIN object[s]
  /\ DOMAIN object'[s] = DOMAIN object[s] \cup {Len(object[s]) + 1}
  /\ object'[s][Len(object[s]) + 1] = m
  /\ object'[s] # <<>> /\ object'[s][Len(object'[s])] = m
  /\ \A r \in Structs \ {s} : type'[r] = type[r]
  /\ type'[s] = u

\* The step that adds comes to that.
LEMMA AddsObjects ==
  ASSUME IInv, NEW s \in Structs, NEW m \in Object, NEW map, NEW by \in Nat, NEW u,
         Adds(s, m, map, by, u)
  PROVE  Added(s, m, map, by, u)
<1> DEFINE n == Len(object[s])
           moved == Moved(s, map, by)
<1>1. /\ type \in [Structs -> StructType]
      /\ \A r \in Structs : /\ object[r] \in Seq(Object) /\ DOMAIN object[r] = 1..Len(object[r])
                             /\ \A i \in DOMAIN object[r] : object[r][i] \in Object
  BY LenProperties, ElementOfSeq DEF IInv, TypeOK
<1>2. \A r \in Structs :
        /\ Moved(r, map, by) \in Seq(Object) /\ Len(Moved(r, map, by)) = Len(object[r])
        /\ DOMAIN Moved(r, map, by) = DOMAIN object[r]
  BY MovedType
<1>3. \A r \in Structs : \A i \in DOMAIN object[r] :
        Moved(r, map, by)[i] = IF <<r, i>> \in map THEN [object[r][i] EXCEPT !.off = @ + by]
                               ELSE object[r][i]
  BY DEF Moved
<1>4. /\ \A r \in Structs \ {s} : object'[r] = Moved(r, map, by) /\ type'[r] = type[r]
      /\ object'[s] = Append(moved, m) /\ type'[s] = u
  BY <1>1 DEF Adds
<1>5. moved \in Seq(Object) /\ Len(moved) = n /\ DOMAIN moved = DOMAIN object[s] /\ n \in Nat
      /\ DOMAIN object[s] = 1..n
  BY <1>1, <1>2, LenProperties
<1> HIDE DEF n, moved
<1>6. /\ Append(moved, m) \in Seq(Object) /\ Len(Append(moved, m)) = n + 1
      /\ DOMAIN Append(moved, m) = 1..(n + 1)
      /\ Append(moved, m)[n + 1] = m
      /\ \A i \in 1..n : Append(moved, m)[i] = moved[i]
  BY <1>5, AppendProperties, LenProperties
<1>7. 1..(n + 1) = 1..n \cup {n + 1} /\ n + 1 \notin 1..n
  BY <1>5
<1>8. DOMAIN object'[s] = DOMAIN object[s] \cup {n + 1} /\ n + 1 \notin DOMAIN object[s]
      /\ object'[s][n + 1] = m
      /\ object'[s][Len(object'[s])] = m /\ Len(object'[s]) = n + 1
  BY <1>4, <1>5, <1>6, <1>7
<1>9. object'[s] # <<>>
  BY <1>4, <1>5, <1>8, EmptySeq
<1>10. \A i \in DOMAIN object[s] : i \in DOMAIN object'[s] /\ object'[s][i] = moved[i]
  BY <1>4, <1>5, <1>6, <1>8
<1>11. ASSUME NEW r \in Structs, NEW i \in DOMAIN object[r]
       PROVE  i \in DOMAIN object'[r] /\ object'[r][i] = Moved(r, map, by)[i]
  <2>1. CASE r = s
    BY <1>10, <1>11, <2>1 DEF moved
  <2>2. CASE r # s
    BY <1>2, <1>4, <1>11, <2>2
  <2> QED
    BY <2>1, <2>2
<1>12. \A r \in Structs \ {s} : DOMAIN object'[r] = DOMAIN object[r]
  BY <1>2, <1>4
<1>13. \A r \in Structs : \A i \in DOMAIN object[r] : MovedAt(r, i, map, by)
  BY <1>1, <1>3, <1>11 DEF MovedAt
<1> QED
  BY <1>4, <1>8, <1>9, <1>12, <1>13 DEF n, Added

(* A member that enters, in particular, is added.                          *)
LEMMA EntersAdded ==
  ASSUME IInv, NEW s \in Structs, NEW m \in Object, NEW inner,
         NEW map, NEW by \in Nat, NEW u, Enters(s, m, inner, map, by, u)
  PROVE  Added(s, m, map, by, u)
<1>1. Adds(s, m, map, by, u)
  BY DEF Enters
<1> QED
  BY <1>1, AddsObjects

(* What names denote after the step.                                       *)
LEMMA AddsAt ==
  ASSUME IInv, NEW s \in Structs, NEW m \in Object, NEW map, NEW by \in Nat, NEW u,
         Adds(s, m, map, by, u)
  PROVE  /\ \A id : id = NextId(s) => At(id)' = m
         /\ \A id \in Ids : id[2] \in DOMAIN object[id[1]] =>
              /\ At(id) \in Object /\ id # NextId(s)
              /\ id[2] \in DOMAIN object'[id[1]]
              /\ At(id)' = IF id \in map THEN [At(id) EXCEPT !.off = @ + by] ELSE At(id)
<1>1. /\ \A r \in Structs : \A i \in DOMAIN object[r] : MovedAt(r, i, map, by)
      /\ object'[s][Len(object[s]) + 1] = m /\ Len(object[s]) + 1 \notin DOMAIN object[s]
  <2>1. Added(s, m, map, by, u)
    BY AddsObjects
  <2> QED
    BY <2>1 DEF Added
<1>2. ASSUME NEW id, id = NextId(s)
      PROVE  At(id)' = m
  <2>1. id[1] = s /\ id[2] = Len(object[s]) + 1
    BY <1>2 DEF NextId
  <2> QED
    BY <1>1, <2>1 DEF At
<1>3. ASSUME NEW id \in Ids, id[2] \in DOMAIN object[id[1]]
      PROVE  /\ At(id) \in Object /\ id # NextId(s)
             /\ id[2] \in DOMAIN object'[id[1]]
             /\ At(id)' = IF id \in map THEN [At(id) EXCEPT !.off = @ + by] ELSE At(id)
  <2>1. id[1] \in Structs /\ id = <<id[1], id[2]>>
    BY DEF Ids
  <2>2. /\ object[id[1]][id[2]] \in Object /\ id[2] \in DOMAIN object'[id[1]]
        /\ object'[id[1]][id[2]] =
             IF <<id[1], id[2]>> \in map THEN [object[id[1]][id[2]] EXCEPT !.off = @ + by]
             ELSE object[id[1]][id[2]]
    BY <1>1, <1>3, <2>1 DEF MovedAt
  <2>3. id # NextId(s)
    BY <1>1, <1>3, <2>1 DEF NextId
  <2> QED
    BY <2>1, <2>2, <2>3 DEF At
<1> QED
  BY <1>2, <1>3

\* What a name of r after the step denotes: the new member, or what it did before.
NamesNew(r, id, s, m) == r = s /\ id = NextId(s) /\ At(id)' = m
NamesOld(r, id, s, map, by) ==
  /\ id[2] \in DOMAIN object[id[1]] /\ At(id) \in Object
  /\ id \in type[r].memberMap \/ (r = s /\ id \in map)
  /\ At(id)' = IF id \in map THEN [At(id) EXCEPT !.off = @ + by] ELSE At(id)

LEMMA EntersNames ==
  ASSUME IInv, MapDenotes, NEW s \in Structs, NEW m \in Object, NEW inner \in Structs,
         NEW map, NEW by \in Nat, NEW u, Enters(s, m, inner, map, by, u)
  PROVE  \A r \in Structs : \A id \in type'[r].memberMap :
           /\ id \in Ids /\ id[2] \in DOMAIN object'[id[1]]
           /\ NamesNew(r, id, s, m) \/ NamesOld(r, id, s, map, by)
<1>1. /\ Adds(s, m, map, by, u)
      /\ u.memberMap \subseteq type[s].memberMap \cup {NextId(s)} \cup map
      /\ map \subseteq type[inner].memberMap
  BY DEF Enters
<1>2. /\ \A id : id = NextId(s) => At(id)' = m
      /\ \A id \in Ids : id[2] \in DOMAIN object[id[1]] =>
           /\ At(id) \in Object /\ id # NextId(s)
           /\ id[2] \in DOMAIN object'[id[1]]
           /\ At(id)' = IF id \in map THEN [At(id) EXCEPT !.off = @ + by] ELSE At(id)
  BY <1>1, AddsAt
<1>3. /\ type'[s] = u /\ \A r \in Structs \ {s} : type'[r] = type[r]
      /\ DOMAIN object'[s] = DOMAIN object[s] \cup {Len(object[s]) + 1}
  <2>1. Added(s, m, map, by, u)
    BY <1>1, AddsObjects
  <2> QED
    BY <2>1 DEF Added
<1>4. \A r \in Structs : \A id \in type[r].memberMap :
        id \in Ids /\ id[2] \in DOMAIN object[id[1]]
  BY DEF MapDenotes, IInv, TypeOK, StructType
<1>5. NextId(s) \in Ids /\ NextId(s)[1] = s /\ NextId(s)[2] = Len(object[s]) + 1
  <2>1. object[s] \in Seq(Object)
    BY DEF IInv, TypeOK
  <2>2. Len(object[s]) \in Nat
    BY <2>1, LenProperties
  <2> QED
    BY <2>2 DEF NextId, Ids
<1>6. TAKE r \in Structs
<1>7. TAKE id \in type'[r].memberMap
<1>8. CASE r = s /\ id = NextId(s)
  BY <1>2, <1>3, <1>5, <1>8 DEF NamesNew
<1>9. CASE ~(r = s /\ id = NextId(s))
  <2>1. id \in type[r].memberMap \/ (r = s /\ id \in map)
    BY <1>1, <1>3, <1>9
  <2>2. id \in Ids /\ id[2] \in DOMAIN object[id[1]]
    BY <1>1, <1>4, <2>1
  <2> QED
    BY <1>2, <2>1, <2>2 DEF NamesOld
<1> QED
  BY <1>8, <1>9

(* Names still denote Objects.                                             *)
LEMMA EntersDenotes ==
  ASSUME IInv, MapDenotes, NEW s \in Structs, NEW m \in Object, NEW inner \in Structs,
         NEW map, NEW by \in Nat, NEW u, Enters(s, m, inner, map, by, u)
  PROVE  MapDenotes'
<1>1. /\ \A r \in Structs \ {s} : DOMAIN object'[r] = DOMAIN object[r] /\ type'[r] = type[r]
      /\ object'[s] # <<>>
  <2>1. Added(s, m, map, by, u)
    BY EntersAdded
  <2> QED
    BY <2>1 DEF Added, Enters
<1>2. \A r \in Structs \ {s} : object'[r] = <<>> => object[r] = <<>>
  <2> TAKE r \in Structs \ {s}
  <2> HAVE object'[r] = <<>>
  <2>1. DOMAIN object[r] = {}
    BY <1>1
  <2>2. object[r] \in Seq(Object)
    BY DEF IInv, TypeOK
  <2>3. DOMAIN object[r] = 1..Len(object[r]) /\ Len(object[r]) \in Nat
    BY <2>2, LenProperties
  <2>4. Len(object[r]) = 0
    <3>1. 1 \notin 1..Len(object[r])
      BY <2>1, <2>3
    <3> QED
      BY <2>3, <3>1
  <2> QED
    BY <2>2, <2>4, EmptySeq
<1>3. \A r \in Structs : \A id \in type'[r].memberMap : id[2] \in DOMAIN object'[id[1]]
  BY EntersNames
<1> QED
  BY <1>1, <1>2, <1>3 DEF MapDenotes

LEMMA EntersAligns ==
  ASSUME IInv, AlignsOK, NEW s \in Structs, NEW m \in Object, NEW inner \in Structs,
         NEW map, NEW by \in Nat, NEW u, Enters(s, m, inner, map, by, u)
  PROVE  AlignsOK'
<1>1. /\ \A r \in Structs : \A i \in DOMAIN object[r] : MovedAt(r, i, map, by)
      /\ \A r \in Structs \ {s} : DOMAIN object'[r] = DOMAIN object[r] /\ type'[r] = type[r]
      /\ DOMAIN object'[s] = DOMAIN object[s] \cup {Len(object[s]) + 1}
      /\ object'[s][Len(object[s]) + 1] = m
      /\ type'[s] = u
  <2>1. Added(s, m, map, by, u)
    BY EntersAdded
  <2> QED
    BY <2>1 DEF Added, Enters
<1>2. m.align \in Aligns /\ Aligned(u)
  BY DEF Enters, Grows, Aligned
<1>3. \A r \in Structs : \A i \in DOMAIN object[r] : object'[r][i].align \in Aligns
  <2> TAKE r \in Structs
  <2> TAKE i \in DOMAIN object[r]
  <2>1. object[r][i].align \in Aligns
    BY DEF AlignsOK
  <2>2. MovedAt(r, i, map, by)
    BY <1>1
  <2>3. [object[r][i] EXCEPT !.off = @ + by].align = object[r][i].align
    BY <2>2, MovedObject DEF MovedAt
  <2> QED
    BY <2>1, <2>2, <2>3 DEF MovedAt
<1> QED
  BY <1>1, <1>2, <1>3 DEF AlignsOK, Aligned

LEMMA EntersReach ==
  ASSUME IInv, ReachOK, NEW s \in Structs, NEW m \in Object, NEW inner \in Structs,
         NEW map, NEW by \in Nat, NEW u, Enters(s, m, inner, map, by, u)
  PROVE  ReachOK'
<1>1. (\A r \in Structs \ {s} : type'[r] = type[r]) /\ type'[s] = u
  <2>1. Added(s, m, map, by, u)
    BY EntersAdded
  <2> QED
    BY <2>1 DEF Added, Enters
<1>2. /\ type[s] \in StructType /\ u \in StructType
      /\ u.state # "undeclared" /\ u.isStruct = type[s].isStruct
  BY DEF IInv, TypeOK, Enters
<1>3. CASE type[s].isStruct
  BY <1>1, <1>2, <1>3 DEF ReachOK, Enters, Grows
<1>4. CASE ~type[s].isStruct
  <2>1. u.offset = type[s].offset /\ type[s].width <= u.width /\ type[s].offset = 0
    BY <1>4 DEF ReachOK, Enters, Grows
  <2>2. u.offset <= u.width
    BY <1>2, <2>1 DEF StructType
  <2> QED
    BY <1>1, <1>2, <2>1, <2>2 DEF ReachOK
<1> QED
  BY <1>3, <1>4

(* A plain member stays at multiples of its alignment when the type that   *)
(* names it is moved, because it is moved by multiples of the alignment of *)
(* that type.                                                              *)
LEMMA EntersPlain ==
  ASSUME IInv, MapDenotes, AlignsOK, PlainAligned,
         NEW s \in Structs, NEW m \in Object, NEW inner \in Structs,
         NEW map, NEW by \in Nat, NEW u, Enters(s, m, inner, map, by, u),
         NextId(s) \in u.memberMap /\ m.bits = 0
           => m.off % m.align = 0 /\ u.align % m.align = 0
  PROVE  PlainAligned'
<1>1. (\A r \in Structs \ {s} : type'[r] = type[r]) /\ type'[s] = u
  <2>1. Added(s, m, map, by, u)
    BY EntersAdded
  <2> QED
    BY <2>1 DEF Added, Enters
<1>2. \A r \in Structs : type[r] \in StructType /\ type[r].align \in Nat \ {0}
  BY DEF IInv, TypeOK, StructType
<1>3. u.align \in Nat \ {0} /\ u.align % type[s].align = 0
  BY DEF Enters, Grows, StructType
<1>4. SUFFICES ASSUME NEW r \in Structs, NEW id \in type'[r].memberMap, At(id)'.bits = 0
               PROVE  At(id)'.off % At(id)'.align = 0 /\ type'[r].align % At(id)'.align = 0
  BY DEF PlainAligned, At
<1>5. id \in Ids /\ (NamesNew(r, id, s, m) \/ NamesOld(r, id, s, map, by))
  BY EntersNames
<1>6. CASE NamesNew(r, id, s, m)
  BY <1>1, <1>4, <1>6 DEF NamesNew
<1>7. CASE NamesOld(r, id, s, map, by)
  <2> DEFINE old == At(id)
             new == At(id)'
  <2>1. old \in Object /\ old.off \in Nat /\ old.align \in Nat \ {0}
    BY <1>7 DEF NamesOld, Object
  <2>2. new.bits = old.bits /\ new.align = old.align
        /\ new.off = IF id \in map THEN old.off + by ELSE old.off
    BY <1>7, <2>1, MovedObject DEF NamesOld
  <2> HIDE DEF new
  <2>3. \A q \in Structs : id \in type[q].memberMap
          => old.off % old.align = 0 /\ type[q].align % old.align = 0
    BY <1>4, <2>2 DEF PlainAligned, At, new
  <2> HIDE DEF old
  <2>4. ASSUME id \in map
        PROVE  /\ old.off % old.align = 0
               /\ by % old.align = 0 /\ u.align % old.align = 0
    <3>1. id \in type[inner].memberMap /\ by % type[inner].align = 0
          /\ u.align % type[inner].align = 0
      BY <2>4 DEF Enters
    <3>2. old.off % old.align = 0 /\ type[inner].align % old.align = 0
      BY <2>3, <3>1
    <3> DEFINE a == type[inner].align
               c == old.align
               v == u.align
    <3>3. a \in Nat \ {0} /\ c \in Nat \ {0} /\ v \in Nat \ {0} /\ a % c = 0
          /\ by % a = 0 /\ v % a = 0 /\ by \in Int /\ v \in Int
      BY <1>2, <1>3, <2>1, <3>1, <3>2
    <3> HIDE DEF a, c, v
    <3>4. by % c = 0
      BY <3>3, MultipleTransitive, Zenon
    <3>5. v % c = 0
      BY <3>3, MultipleTransitive, Zenon
    <3> QED
      BY <3>2, <3>4, <3>5 DEF c, v
  <2>5. CASE id \in map
    <3>1. (old.off + by) % old.align = 0
      BY <2>1, <2>4, <2>5, SumMultiple
    <3>2. new.off % new.align = 0
      BY <2>2, <2>5, <3>1
    <3>3. CASE r = s
      BY <1>1, <2>2, <2>4, <2>5, <3>2, <3>3 DEF new
    <3>4. CASE r # s
      BY <1>1, <1>7, <2>2, <2>3, <3>2, <3>4 DEF NamesOld, new
    <3> QED
      BY <3>3, <3>4
  <2>6. CASE id \notin map
    <3>1. id \in type[r].memberMap
      BY <1>7, <2>6 DEF NamesOld
    <3>2. old.off % old.align = 0 /\ type[r].align % old.align = 0
      BY <2>3, <3>1
    <3>3. new.off % new.align = 0
      BY <2>2, <2>6, <3>2
    <3>4. CASE r = s
      <4>1. u.align % old.align = 0
        BY <1>2, <1>3, <2>1, <3>2, <3>4, MultipleTransitive
      <4> QED
        BY <1>1, <2>2, <3>3, <3>4, <4>1 DEF new
    <3>5. CASE r # s
      BY <1>1, <2>2, <3>2, <3>3, <3>5 DEF new
    <3> QED
      BY <3>4, <3>5
  <2> QED
    BY <2>5, <2>6
<1> QED
  BY <1>5, <1>6, <1>7

\* What Ordinary() asks of each member.
OrdinaryMember(m, isStruct) ==
  IF m.kind \in Integral /\ (m.bits > 0 \/ m.anonymous) THEN isStruct ELSE ~m.anonymous

LEMMA EntersSized ==
  ASSUME IInv, Sized, NEW s \in Structs, NEW m \in Object, NEW inner \in Structs,
         NEW map, NEW by \in Nat, NEW u, Enters(s, m, inner, map, by, u),
         OrdinaryMember(m, type[s].isStruct)
           /\ type[s].width % type[s].align = 0 /\ type[s].bitFieldAlign % type[s].align = 0
           => u.width % u.align = 0 /\ u.bitFieldAlign % u.align = 0
  PROVE  Sized'
<1>1. /\ \A r \in Structs : \A i \in DOMAIN object[r] : MovedAt(r, i, map, by)
      /\ \A r \in Structs \ {s} : DOMAIN object'[r] = DOMAIN object[r] /\ type'[r] = type[r]
      /\ DOMAIN object'[s] = DOMAIN object[s] \cup {Len(object[s]) + 1}
      /\ object'[s][Len(object[s]) + 1] = m
      /\ type'[s] = u /\ u.isStruct = type[s].isStruct
  <2>1. Added(s, m, map, by, u)
    BY EntersAdded
  <2> QED
    BY <2>1 DEF Added, Enters
<1>2. \A r \in Structs : type'[r].isStruct = type[r].isStruct
  BY <1>1
<1>3. \A r \in Structs : \A i \in DOMAIN object[r] :
        /\ i \in DOMAIN object'[r]
        /\ object'[r][i].kind = object[r][i].kind /\ object'[r][i].bits = object[r][i].bits
        /\ object'[r][i].anonymous = object[r][i].anonymous
  <2> TAKE r \in Structs
  <2> TAKE i \in DOMAIN object[r]
  <2>1. MovedAt(r, i, map, by)
    BY <1>1
  <2> DEFINE n == [object[r][i] EXCEPT !.off = @ + by]
  <2>2. /\ n.kind = object[r][i].kind /\ n.bits = object[r][i].bits
        /\ n.anonymous = object[r][i].anonymous
    BY <2>1, MovedObject DEF MovedAt
  <2> QED
    BY <2>1, <2>2 DEF MovedAt
<1>4. SUFFICES ASSUME NEW r \in Structs, Ordinary(r)'
               PROVE  /\ type'[r].width % type'[r].align = 0
                      /\ type'[r].bitFieldAlign % type'[r].align = 0
  BY DEF Sized
<1>5. \A i \in DOMAIN object'[r] : OrdinaryMember(object'[r][i], type'[r].isStruct)
  BY <1>4 DEF Ordinary, OrdinaryMember
<1>6. \A i \in DOMAIN object[r] : OrdinaryMember(object[r][i], type[r].isStruct)
  <2> TAKE i \in DOMAIN object[r]
  <2>1. OrdinaryMember(object'[r][i], type[r].isStruct)
    BY <1>2, <1>3, <1>5
  <2> QED
    BY <1>3, <2>1 DEF OrdinaryMember
<1>7. Ordinary(r)
  BY <1>6 DEF Ordinary, OrdinaryMember
<1>8. type[r].width % type[r].align = 0 /\ type[r].bitFieldAlign % type[r].align = 0
  BY <1>7 DEF Sized
<1>9. CASE r = s
  <2>1. OrdinaryMember(m, type[s].isStruct)
    BY <1>1, <1>5, <1>9
  <2> QED
    BY <1>1, <1>8, <1>9, <2>1
<1>10. CASE r # s
  BY <1>1, <1>8, <1>10
<1> QED
  BY <1>9, <1>10

LEMMA EntersFields ==
  ASSUME IInv, MapDenotes, FieldsInside,
         NEW s \in Structs, NEW m \in Object, NEW inner \in Structs,
         NEW map, NEW by \in Nat, NEW u, Enters(s, m, inner, map, by, u),
         NextId(s) \in u.memberMap /\ m.bits > 0 => m.begin + m.bits <= 8 * m.width
  PROVE  FieldsInside'
<1>1. type'[s] = u
  <2>1. Added(s, m, map, by, u)
    BY EntersAdded
  <2> QED
    BY <2>1 DEF Added, Enters
<1>2. SUFFICES ASSUME NEW r \in Structs, NEW id \in type'[r].memberMap, At(id)'.bits > 0
               PROVE  At(id)'.begin + At(id)'.bits <= 8 * At(id)'.width
  BY DEF FieldsInside, At
<1>3. NamesNew(r, id, s, m) \/ NamesOld(r, id, s, map, by)
  BY EntersNames
<1>4. CASE NamesNew(r, id, s, m)
  BY <1>1, <1>2, <1>4 DEF NamesNew
<1>5. CASE NamesOld(r, id, s, map, by)
  <2> DEFINE new == At(id)'
  <2>1. /\ new.bits = At(id).bits /\ new.begin = At(id).begin /\ new.width = At(id).width
    BY <1>5, MovedObject DEF NamesOld
  <2>2. id \in type[r].memberMap \/ id \in type[inner].memberMap
    BY <1>5 DEF NamesOld, Enters
  <2> QED
    BY <1>2, <2>1, <2>2 DEF FieldsInside
<1> QED
  BY <1>3, <1>4, <1>5

-----------------------------------------------------------------------------
(* Nothing that wrapped or was moved twice is set right, and a type whose  *)
(* names are moved now was not moved before when it is moved once only.    *)
LEMMA EntersTame ==
  ASSUME IInv, NEW s \in Structs, NEW m \in Object, NEW inner \in Structs,
         NEW map, NEW by \in Nat, NEW u, Enters(s, m, inner, map, by, u)
  PROVE  /\ Tame' => Tame /\ ~(m.bits > 8 * m.width)
         /\ \A r : Merged(r) => Merged(r)'
         /\ map # {} => Merged(inner)' /\ (Tame' => ~Merged(inner))
<1>1. /\ \A r \in Structs : \A i \in DOMAIN object[r] : MovedAt(r, i, map, by)
      /\ DOMAIN object'[s] = DOMAIN object[s] \cup {Len(object[s]) + 1}
      /\ Len(object[s]) + 1 \notin DOMAIN object[s]
      /\ object'[s][Len(object[s]) + 1] = m
  <2>1. Added(s, m, map, by, u)
    BY EntersAdded
  <2> QED
    BY <2>1 DEF Added, Enters
<1>2. \A r \in Structs : \A i \in DOMAIN object[r] :
        /\ i \in DOMAIN object'[r]
        /\ object'[r][i].kind = object[r][i].kind /\ object'[r][i].bits = object[r][i].bits
        /\ object'[r][i].width = object[r][i].width
        /\ object'[r][i].anonymous = object[r][i].anonymous
  <2> TAKE r \in Structs
  <2> TAKE i \in DOMAIN object[r]
  <2>1. MovedAt(r, i, map, by)
    BY <1>1
  <2> DEFINE n == [object[r][i] EXCEPT !.off = @ + by]
  <2>2. /\ n.kind = object[r][i].kind /\ n.bits = object[r][i].bits
        /\ n.width = object[r][i].width /\ n.anonymous = object[r][i].anonymous
    BY <2>1, MovedObject DEF MovedAt
  <2> QED
    BY <2>1, <2>2 DEF MovedAt
<1>3. Kept
  BY <1>2 DEF Kept
<1>4. \A r : Merged(r) => Merged(r)'
  BY <1>3, MergedStays
<1>5. ASSUME Tame' PROVE Tame /\ ~(m.bits > 8 * m.width)
  <2>1. \A r \in Structs : ~Wrapped(r)' /\ MergedOnce(r)'
    BY <1>5 DEF Tame
  <2>2. \A r \in Structs : \A i \in DOMAIN object'[r] :
          ~(object'[r][i].bits > 8 * object'[r][i].width)
    BY <2>1 DEF Wrapped
  <2>3. \A r \in Structs : ~Wrapped(r)
    BY <1>2, <2>2 DEF Wrapped
  <2>4. ~(m.bits > 8 * m.width)
    BY <1>1, <2>2
  <2>5. \A r \in Structs : MergedOnce(r)
    <3> SUFFICES ASSUME NEW r \in Structs, NEW t \in Structs, NEW q \in Structs,
                        NEW i \in DOMAIN object[t], NEW j \in DOMAIN object[q],
                        Anony(object[t][i], r), Anony(object[q][j], r)
                 PROVE  t = q /\ i = j
      BY DEF MergedOnce
    <3>1. /\ i \in DOMAIN object'[t] /\ j \in DOMAIN object'[q]
          /\ Anony(object'[t][i], r) /\ Anony(object'[q][j], r)
      BY <1>2 DEF Anony
    <3> QED
      BY <2>1, <3>1 DEF MergedOnce, Anony
  <2> QED
    BY <2>3, <2>4, <2>5 DEF Tame
<1>6. ASSUME map # {} PROVE Merged(inner)' /\ (Tame' => ~Merged(inner))
  <2> DEFINE n == Len(object[s]) + 1
  <2>1. n \in DOMAIN object'[s] /\ Anony(object'[s][n], inner)
    BY <1>1, <1>6 DEF Enters
  <2>2. Merged(inner)'
    BY <2>1 DEF Merged, Anony
  <2>3. ASSUME Tame', Merged(inner) PROVE FALSE
    <3>1. PICK t \in Structs : \E i \in DOMAIN object[t] : Anony(object[t][i], inner)
      BY <2>3 DEF Merged
    <3>2. PICK i \in DOMAIN object[t] : Anony(object[t][i], inner)
      BY <3>1
    <3>3. i \in DOMAIN object'[t] /\ Anony(object'[t][i], inner)
      BY <1>2, <3>2 DEF Anony
    <3>4. t = s /\ i = n
      BY <2>1, <2>3, <3>3 DEF Tame, MergedOnce, Anony
    <3> QED
      BY <1>1, <3>2, <3>4
  <2> QED
    BY <2>2, <2>3
<1> QED
  BY <1>4, <1>5, <1>6

(* The maps of types that are part of no other stay apart: what is moved   *)
(* into s was named by inner, which is part of s from then on.             *)
LEMMA EntersApart ==
  ASSUME IInv, MapDenotes, Apart, NEW s \in Structs, NEW m \in Object, NEW inner \in Structs,
         NEW map, NEW by \in Nat, NEW u, Enters(s, m, inner, map, by, u)
  PROVE  Apart'
<1>1. SUFFICES ASSUME Tame', NEW r \in Structs, NEW q \in Structs, r # q,
                      ~Merged(r)', ~Merged(q)',
                      NEW id \in type'[r].memberMap, id \in type'[q].memberMap
               PROVE  FALSE
  BY DEF Apart
<1>2. Tame /\ ~Merged(r) /\ ~Merged(q)
  BY <1>1, EntersTame
<1>3. map # {} => Merged(inner)' /\ ~Merged(inner)
  BY <1>1, EntersTame
<1>4. \A p \in Structs : id \in type'[p].memberMap
        => NamesNew(p, id, s, m) \/ NamesOld(p, id, s, map, by)
  BY EntersNames
<1>5. (\A p \in Structs \ {s} : type'[p] = type[p])
  <2>1. Added(s, m, map, by, u)
    BY EntersAdded
  <2> QED
    BY <2>1 DEF Added, Enters
<1>6. ASSUME NEW a \in Structs, NEW b \in Structs, a # b, a # s,
             ~Merged(a)', ~Merged(b)', ~Merged(a), ~Merged(b),
             id \in type'[a].memberMap, id \in type'[b].memberMap
      PROVE  FALSE
  <2>1. id \in type[a].memberMap /\ NamesOld(a, id, s, map, by)
    BY <1>4, <1>5, <1>6 DEF NamesNew
  <2>2. id # NextId(s)
    <3>1. Adds(s, m, map, by, u)
      BY DEF Enters
    <3>2. id \in Ids /\ id[2] \in DOMAIN object[id[1]]
      BY <1>1, <2>1, EntersNames DEF NamesOld
    <3> QED
      BY <3>1, <3>2, AddsAt
  <2>3. id \in type[b].memberMap \/ (id \in map)
    BY <1>4, <1>6, <2>2 DEF NamesNew, NamesOld
  <2>4. CASE id \in type[b].memberMap
    BY <1>2, <1>6, <2>1, <2>4 DEF Apart
  <2>5. CASE id \in map
    <3>1. id \in type[inner].memberMap /\ ~Merged(inner) /\ Merged(inner)'
      BY <1>3, <2>5 DEF Enters
    <3>2. a # inner
      BY <1>6, <3>1
    <3> QED
      BY <1>2, <1>6, <2>1, <3>1, <3>2 DEF Apart
  <2> QED
    BY <2>3, <2>4, <2>5
<1> QED
  BY <1>1, <1>2, <1>6

(* A type that is part of no other keeps its Objects.                      *)
LEMMA EntersOther ==
  ASSUME IInv, NEW s \in Structs, NEW m \in Object, NEW inner \in Structs,
         NEW map, NEW by \in Nat, NEW u, Enters(s, m, inner, map, by, u),
         NEW r \in Structs \ {s}, ~Merged(r)'
  PROVE  object'[r] = object[r]
<1>1. ~Merged(r) /\ (map # {} => Merged(inner)')
  BY EntersTame
<1>2. \A i \in DOMAIN object[r] : <<r, i>> \notin map
  <2>1. SUFFICES ASSUME NEW i \in DOMAIN object[r], <<r, i>> \in map
                 PROVE  FALSE
    OBVIOUS
  <2>2. <<r, i>> \in type[inner].memberMap /\ Merged(inner)'
    BY <1>1, <2>1 DEF Enters
  <2>3. <<r, i>>[1] = inner \/ Merged(<<r, i>>[1])
    BY <2>2 DEF IInv, MapOK
  <2>4. <<r, i>>[1] = r
    OBVIOUS
  <2> QED
    BY <1>1, <2>2, <2>3, <2>4
<1>3. Moved(r, map, by) = object[r]
  BY <1>2, MovedType
<1> QED
  BY <1>3 DEF Enters, Adds

(* What is named stays before the next member: the new one is behind all   *)
(* that was named before, and what inner named ends where inner ends.      *)
LEMMA EntersLaid ==
  ASSUME IInv, MapDenotes, ReachOK, Apart, NamesLaid,
         NEW s \in Structs, NEW m \in Object, NEW inner \in Structs,
         NEW map, NEW by \in Nat, NEW u, Enters(s, m, inner, map, by, u),
         type[s].isStruct /\ m.bits <= 8 * m.width =>
           /\ Follows(object[s], type[s].offset, m)
           /\ EndBit(m) <= 8 * u.offset /\ EndBit(m) <= TotalBits(m),
         ~type[s].isStruct /\ m.bits <= 8 * m.width => EndBit(m) <= 8 * u.width
  PROVE  NamesLaid'
<1>1. SUFFICES ASSUME Tame', NEW r \in Structs, ~Merged(r)', NEW id \in type'[r].memberMap
               PROVE  IF type'[r].isStruct
                      THEN /\ object'[r] # <<>>
                           /\ EndBit(At(id)') <= 8 * type'[r].offset
                           /\ EndBit(At(id)') <= TotalBits(object'[r][Len(object'[r])])
                      ELSE EndBit(At(id)') <= 8 * type'[r].width
  BY DEF NamesLaid, Reaches, At, EndBit, FirstBit, BitsOf, EmptyField, TotalBits, BitFieldEnd
<1>2. Tame /\ ~(m.bits > 8 * m.width) /\ ~Merged(r)
      /\ (map # {} => Merged(inner)' /\ ~Merged(inner))
  BY <1>1, EntersTame
<1>3. /\ type'[s] = u /\ u.isStruct = type[s].isStruct
      /\ \A q \in Structs \ {s} : type'[q] = type[q]
      /\ object'[s] # <<>> /\ object'[s][Len(object'[s])] = m
  <2>1. Adds(s, m, map, by, u) /\ u.isStruct = type[s].isStruct
    BY DEF Enters
  <2>2. /\ type'[s] = u /\ \A q \in Structs \ {s} : type'[q] = type[q]
        /\ object'[s] # <<>> /\ object'[s][Len(object'[s])] = m
    <3>1. Added(s, m, map, by, u)
      BY <2>1, AddsObjects
    <3> QED
      BY <3>1 DEF Added
  <2> QED
    BY <2>1, <2>2
<1>4. /\ \A q \in Structs : /\ type[q] \in StructType
                             /\ type[q].offset \in Nat /\ type[q].width \in Nat
      /\ u.offset \in Nat /\ u.width \in Nat
  BY DEF IInv, TypeOK, StructType, Enters
<1>5. m.bits <= 8 * m.width
  BY <1>2, NotWider
<1>6. /\ FirstBit(m) \in Nat /\ EndBit(m) \in Nat /\ FirstBit(m) <= EndBit(m)
      /\ TotalBits(m) \in Nat
  BY BitsType
<1>7. NamesNew(r, id, s, m) \/ NamesOld(r, id, s, map, by)
  BY EntersNames
<1>8. CASE NamesNew(r, id, s, m)
  <2>1. r = s /\ At(id)' = m
    BY <1>8 DEF NamesNew
  <2> QED
    BY <1>3, <1>5, <2>1
<1>9. CASE NamesOld(r, id, s, map, by)
  <2> DEFINE e == EndBit(At(id))
             f == EndBit(At(id)')
  <2>1. At(id) \in Object /\ e \in Nat
    BY <1>9, BitsType DEF NamesOld
  <2>2. f = IF id \in map THEN e + 8 * by ELSE e
    BY <1>9, <2>1, MovedObject DEF NamesOld
  <2>3. \A q \in Structs : ~Merged(q) /\ id \in type[q].memberMap => Reaches(q, e)
    BY <1>2 DEF NamesLaid
  <2> HIDE DEF e
  <2>4. CASE r # s
    <3>1. id \in type[r].memberMap
      BY <1>9, <2>4 DEF NamesOld
    <3>2. id \notin map
      <4>1. SUFFICES ASSUME id \in map PROVE FALSE
        OBVIOUS
      <4>2. id \in type[inner].memberMap /\ ~Merged(inner) /\ Merged(inner)'
        BY <1>2, <4>1 DEF Enters
      <4>3. r # inner
        BY <1>1, <4>2
      <4> QED
        BY <1>2, <3>1, <4>2, <4>3 DEF Apart
    <3>3. object'[r] = object[r] /\ type'[r] = type[r]
      BY <1>1, <1>3, <2>4, EntersOther
    <3>4. Reaches(r, e)
      BY <1>2, <2>3, <3>1
    <3> HIDE DEF f
    <3>5. f = e
      BY <2>2, <3>2
    <3> QED
      BY <3>3, <3>4, <3>5 DEF Reaches, f
  <2>5. CASE r = s /\ id \notin map
    <3>1. Reaches(s, e)
      BY <1>2, <1>9, <2>3, <2>5 DEF NamesOld
    <3> HIDE DEF f
    <3>2. f = e
      BY <2>2, <2>5
    <3>3. CASE type[s].isStruct
      <4>1. /\ object[s] # <<>> /\ e <= 8 * type[s].offset
            /\ e <= TotalBits(object[s][Len(object[s])])
        BY <3>1, <3>3 DEF Reaches
      <4>2. e <= FirstBit(m)
        <5>1. CASE FirstBit(m) = TotalBits(object[s][Len(object[s])])
          BY <4>1, <5>1
        <5>2. CASE m.off >= type[s].offset
          <6>1. FirstBit(m) >= 8 * type[s].offset
            BY <1>4, <5>2 DEF FirstBit, Object
          <6> QED
            BY <1>4, <1>6, <2>1, <4>1, <6>1
        <5> QED
          BY <1>5, <3>3, <4>1, <5>1, <5>2 DEF Follows
      <4>3. e <= EndBit(m)
        BY <1>6, <2>1, <4>2
      <4>4. EndBit(m) <= 8 * u.offset /\ EndBit(m) <= TotalBits(m)
        BY <1>5, <3>3
      <4>5. e <= 8 * u.offset /\ e <= TotalBits(m)
        BY <1>4, <1>6, <2>1, <4>3, <4>4
      <4> QED
        BY <1>3, <2>5, <3>2, <3>3, <4>5 DEF f
    <3>4. CASE ~type[s].isStruct
      <4>1. e <= 8 * type[s].width
        BY <3>1, <3>4 DEF Reaches
      <4>2. type[s].width <= u.width
        BY <3>4 DEF Enters, Grows
      <4>3. e <= 8 * u.width
        BY <1>4, <2>1, <4>1, <4>2
      <4> QED
        BY <1>3, <2>5, <3>2, <3>4, <4>3 DEF f
    <3> QED
      BY <3>3, <3>4
  <2>6. CASE r = s /\ id \in map
    <3>1. /\ id \in type[inner].memberMap /\ ~Merged(inner)
          /\ EndBit(m) = 8 * by + 8 * type[inner].width
      BY <1>2, <2>6 DEF Enters
    <3>2. Reaches(inner, e)
      BY <2>3, <3>1
    <3>3. e <= 8 * type[inner].width
      <4>1. CASE type[inner].isStruct
        <5>1. e <= 8 * type[inner].offset
          BY <3>2, <4>1 DEF Reaches
        <5>2. type[inner].offset <= type[inner].width
          BY DEF ReachOK
        <5> QED
          BY <1>4, <2>1, <5>1, <5>2
      <4>2. CASE ~type[inner].isStruct
        BY <3>2, <4>2 DEF Reaches
      <4> QED
        BY <4>1, <4>2
    <3> HIDE DEF f
    <3>4. f = e + 8 * by
      BY <2>2, <2>6
    <3>5. f <= EndBit(m) /\ f \in Nat
      BY <1>4, <2>1, <3>1, <3>3, <3>4
    <3>6. CASE type[s].isStruct
      <4>1. EndBit(m) <= 8 * u.offset /\ EndBit(m) <= TotalBits(m)
        BY <1>5, <3>6
      <4>2. f <= 8 * u.offset /\ f <= TotalBits(m)
        BY <1>4, <1>6, <3>5, <4>1
      <4> QED
        BY <1>3, <2>6, <3>6, <4>2 DEF f
    <3>7. CASE ~type[s].isStruct
      <4>1. EndBit(m) <= 8 * u.width
        BY <1>5, <3>7
      <4>2. f <= 8 * u.width
        BY <1>4, <1>6, <3>5, <4>1
      <4> QED
        BY <1>3, <2>6, <3>7, <4>2 DEF f
    <3> QED
      BY <3>6, <3>7
  <2> QED
    BY <2>4, <2>5, <2>6
<1> QED
  BY <1>7, <1>8, <1>9

\* The new member is behind what was there, and the type ends behind it.
Behind(s, m, u) ==
  /\ type[s].isStruct /\ m.bits <= 8 * m.width =>
       /\ Follows(object[s], type[s].offset, m)
       /\ EndBit(m) <= 8 * u.offset /\ EndBit(m) <= TotalBits(m)
  /\ ~type[s].isStruct /\ m.bits <= 8 * m.width => EndBit(m) <= 8 * u.width

\* A new name is that of a plain member at its alignment or of a field in its unit.
Sound(s, m, u) ==
  NextId(s) \in u.memberMap =>
    /\ m.bits = 0 => m.off % m.align = 0 /\ u.align % m.align = 0
    /\ m.bits > 0 => m.begin + m.bits <= 8 * m.width

Rounded(s, m, u) ==
  OrdinaryMember(m, type[s].isStruct)
    /\ type[s].width % type[s].align = 0 /\ type[s].bitFieldAlign % type[s].align = 0
    => u.width % u.align = 0 /\ u.bitFieldAlign % u.align = 0

LEMMA EntersKeeps ==
  ASSUME IInv, NamesInv, NEW s \in Structs, NEW m \in Object, NEW inner \in Structs,
         NEW map, NEW by \in Nat, NEW u, Enters(s, m, inner, map, by, u),
         Behind(s, m, u), Sound(s, m, u), Rounded(s, m, u)
  PROVE  NamesInv'
<1>1. /\ MapDenotes /\ AlignsOK /\ ReachOK
      /\ PlainAligned /\ Sized /\ FieldsInside /\ Apart /\ NamesLaid
  BY DEF NamesInv
<1>2. MapDenotes'
  BY <1>1, EntersDenotes
<1>3. AlignsOK'
  BY <1>1, EntersAligns
<1>4. ReachOK'
  BY <1>1, EntersReach
<1>5. PlainAligned'
  <2>1. NextId(s) \in u.memberMap /\ m.bits = 0
          => m.off % m.align = 0 /\ u.align % m.align = 0
    BY DEF Sound
  <2> QED
    BY <1>1, <2>1, EntersPlain
<1>6. Sized'
  BY <1>1, EntersSized DEF Rounded
<1>7. FieldsInside'
  <2>1. NextId(s) \in u.memberMap /\ m.bits > 0 => m.begin + m.bits <= 8 * m.width
    BY DEF Sound
  <2> QED
    BY <1>1, <2>1, EntersFields
<1>8. Apart'
  BY <1>1, EntersApart
<1>9. NamesLaid'
  BY <1>1, EntersLaid DEF Behind
<1> QED
  BY <1>2, <1>3, <1>4, <1>5, <1>6, <1>7, <1>8, <1>9 DEF NamesInv

(* A step that makes and moves no Object, and leaves the extents alone.    *)
LEMMA SameLayout ==
  ASSUME IInv, NamesInv, object' = object,
         \A r \in Structs :
           /\ type'[r].memberMap = type[r].memberMap
           /\ type'[r].align = type[r].align /\ type'[r].bitFieldAlign = type[r].bitFieldAlign
           /\ type'[r].offset = type[r].offset /\ type'[r].width = type[r].width
           /\ type'[r].state = "undeclared" => type[r].state = "undeclared"
           /\ type'[r].isStruct = type[r].isStruct
                \/ (object[r] = <<>> /\ type[r].offset = 0)
  PROVE  NamesInv'
<1>1. /\ MapDenotes /\ AlignsOK /\ ReachOK
      /\ PlainAligned /\ Sized /\ FieldsInside /\ Apart /\ NamesLaid
  BY DEF NamesInv
<1>2. MapDenotes'
  BY <1>1 DEF MapDenotes
<1>3. AlignsOK'
  BY <1>1 DEF AlignsOK, Aligned
<1>4. ReachOK'
  BY <1>1 DEF ReachOK
<1>5. PlainAligned'
  BY <1>1 DEF PlainAligned
<1>6. Sized'
  <2>1. \A r \in Structs : Ordinary(r)' => Ordinary(r)
    <3> TAKE r \in Structs
    <3>1. CASE type'[r].isStruct = type[r].isStruct
      BY <3>1 DEF Ordinary
    <3>2. CASE object[r] = <<>>
      BY <3>2 DEF Ordinary
    <3> QED
      BY <3>1, <3>2
  <2> QED
    BY <1>1, <2>1 DEF Sized
<1>7. FieldsInside'
  BY <1>1 DEF FieldsInside, At
<1>8. Tame' => Tame
  BY DEF Tame, Wrapped, MergedOnce, Anony
<1>9. \A r : Merged(r)' <=> Merged(r)
  BY DEF Merged, Anony
<1>10. Apart'
  BY <1>1, <1>8, <1>9 DEF Apart
<1>11. NamesLaid'
  <2>1. SUFFICES ASSUME Tame', NEW r \in Structs, ~Merged(r)', NEW id \in type'[r].memberMap
                 PROVE  Reaches(r, EndBit(At(id)))'
    BY DEF NamesLaid
  <2>2. Tame /\ ~Merged(r) /\ id \in type[r].memberMap
    BY <1>8, <1>9, <2>1
  <2>3. Reaches(r, EndBit(At(id)))
    BY <1>1, <2>2 DEF NamesLaid
  <2>4. type'[r].isStruct = type[r].isStruct
    BY <1>1, <2>2 DEF MapDenotes
  <2> QED
    BY <2>3, <2>4 DEF Reaches, At, EndBit, FirstBit, BitsOf, EmptyField, TotalBits, BitFieldEnd
<1> QED
  BY <1>2, <1>3, <1>4, <1>5, <1>6, <1>7, <1>10, <1>11 DEF NamesInv

-----------------------------------------------------------------------------
(* The steps.                                                              *)
LEMMA KindAlign ==
  ASSUME NamesInv, NEW k \in Kinds, NEW align \in Alignas \cup {AlignOf(k)}
  PROVE  align \in Aligns
<1>1. AlignOf(k) \in Aligns
  BY AlignsType DEF AlignOf, Kinds, NamesInv, AlignsOK, Aligned
<1> QED
  BY <1>1, AlignsType

LEMMA NextIdFresh ==
  ASSUME IInv, NamesInv, NEW s \in Structs
  PROVE  \A r \in Structs : NextId(s) \notin type[r].memberMap
<1>1. object[s] \in Seq(Object)
  BY DEF IInv, TypeOK
<1>2. Len(object[s]) + 1 \notin DOMAIN object[s]
  <2>1. DOMAIN object[s] = 1..Len(object[s]) /\ Len(object[s]) \in Nat
    BY <1>1, LenProperties
  <2> QED
    BY <2>1
<1> QED
  BY <1>2 DEF NamesInv, MapDenotes, NextId

(* A declaration moves nothing.                                            *)
LEMMA DeclareAdds ==
  ASSUME IInv, NEW s \in Structs, NEW m, NEW u,
         object' = [object EXCEPT ![s] = Append(@, m)], type' = [type EXCEPT ![s] = u]
  PROVE  Adds(s, m, {}, 0, u)
<1>1. object \in [Structs -> Seq(Object)]
  BY DEF IInv, TypeOK
<1>2. \A r \in Structs : Moved(r, {}, 0) = object[r]
  BY MovedType
<1> QED
  BY <1>1, <1>2 DEF Adds

\* u is t but for state and members.
SameExtent(u, t) ==
  /\ u \in StructType /\ u.state # "undeclared"
  /\ u.isStruct = t.isStruct /\ u.memberMap = t.memberMap
  /\ u.offset = t.offset /\ u.width = t.width
  /\ u.align = t.align /\ u.bitFieldAlign = t.bitFieldAlign

LEMMA MemberKeeps ==
  ASSUME IInv, NamesInv, NEW s \in Structs, InDefinition(s), NEW k \in Kinds,
         NEW align \in Alignas \cup {AlignOf(k)}, NEW width \in Nat, NEW m, NEW t, NEW u,
         m = NewMember(k, width, MakeAlign(type[s].offset, align), align),
         t = AddMember(type[s], NextId(s), m), SameExtent(u, t),
         object' = [object EXCEPT ![s] = Append(@, m)], type' = [type EXCEPT ![s] = u]
  PROVE  NamesInv'
<1>1. align \in Aligns /\ align \in Nat \ {0}
  BY KindAlign, AlignsType
<1>2. type[s] \in StructType /\ NextId(s) \in Ids /\ Aligned(type[s])
  BY InDefinitionOpen DEF NamesInv, AlignsOK
<1>3. type[s].offset \in Nat
  BY <1>2 DEF StructType
<1>4. /\ m \in Object /\ m.off >= type[s].offset /\ m.width = width
      /\ m.bits = 0 /\ m.begin = 0 /\ ~m.anonymous /\ ~EmptyField(m)
  BY <1>1, <1>3, NewMemberType
<1>5. m.align = align /\ m.off = MakeAlign(type[s].offset, align)
  BY DEF NewMember
<1>6. m.off % m.align = 0
  BY <1>1, <1>3, <1>5, MakeAlignMultiple
<1>7. /\ Grows(t, type[s], m) /\ t.align % m.align = 0
      /\ t.width % t.align = 0 /\ t.bitFieldAlign % t.align = 0
  BY <1>1, <1>2, <1>4, <1>5, AddMemberGrows
<1>8. Extends(t, type[s], type[s].memberMap \cup {NextId(s)}, m.off + m.width)
  BY <1>2, <1>4, AddMemberType
<1>9. /\ Grows(u, type[s], m) /\ u.align % m.align = 0
      /\ u.width % u.align = 0 /\ u.bitFieldAlign % u.align = 0
  BY <1>7 DEF SameExtent, Grows
<1>10. Adds(s, m, {}, 0, u)
  BY DeclareAdds
<1>11. Enters(s, m, s, {}, 0, u)
  BY <1>1, <1>5, <1>8, <1>9, <1>10 DEF Enters, SameExtent, Extends
<1>12. /\ EndBit(m) = 8 * m.off + 8 * m.width /\ TotalBits(m) = 8 * m.off + 8 * m.width
       /\ m.off \in Nat /\ m.width \in Nat
  BY <1>4 DEF FirstBit, EndBit, BitsOf, TotalBits, Object
<1>13. Behind(s, m, u)
  <2>1. CASE type[s].isStruct
    <3>1. u.offset = m.off + m.width
      BY <1>8, <2>1 DEF SameExtent, Extends
    <3>2. Follows(object[s], type[s].offset, m)
      BY <1>4 DEF Follows
    <3> QED
      BY <1>12, <2>1, <3>1, <3>2 DEF Behind
  <2>2. CASE ~type[s].isStruct
    <3>1. type[s].offset = 0
      BY <2>2 DEF NamesInv, ReachOK
    <3>2. 0 % align = 0
      <4>1. (align * 0) % align = 0 /\ align * 0 = 0
        BY <1>1, MultipleOf
      <4> QED
        BY <4>1
    <3>3. m.off = 0
      BY <1>5, <3>1, <3>2 DEF MakeAlign
    <3>4. m.width <= u.width /\ u.width \in Nat
      BY <1>9, <2>2 DEF Grows, SameExtent, StructType
    <3>5. EndBit(m) <= 8 * u.width
      BY <1>12, <3>3, <3>4
    <3> QED
      BY <2>2, <3>5 DEF Behind
  <2> QED
    BY <2>1, <2>2
<1>14. Sound(s, m, u)
  BY <1>4, <1>6, <1>9 DEF Sound
<1>15. Rounded(s, m, u)
  BY <1>9 DEF Rounded
<1> QED
  BY <1>4, <1>11, <1>13, <1>14, <1>15, EntersKeeps

LEMMA FinalizeExtent ==
  ASSUME NEW t \in StructType, NEW objects
  PROVE  SameExtent(Finalize(t, objects), t)
<1> DEFINE keep == {i \in t.members : ~(objects[i].bits > 0 /\ objects[i].anonymous)}
<1>1. keep \in SUBSET Nat
  BY DEF StructType
<1>2. Finalize(t, objects) = [t EXCEPT !.state = "complete", !.members = keep]
  BY DEF Finalize
<1> HIDE DEF keep
<1> QED
  BY <1>1, <1>2 DEF StructType, SameExtent

LEMMA DeclareMemberNames ==
  ASSUME IInv, NamesInv, NEW s \in Structs, NEW k \in Kinds,
         NEW align \in Alignas \cup {AlignOf(k)}, DeclareMember(s, k, align)
  PROVE  NamesInv'
<1> DEFINE m == NewMember(k, WidthOf(k), MakeAlign(type[s].offset, align), align)
           u == AddMember(type[s], NextId(s), m)
<1>1. InDefinition(s) /\ Declare(s, m, u)
  BY DEF DeclareMember
<1>2. align \in Nat \ {0} /\ WidthOf(k) \in Nat
  BY KindType, KindAlign, AlignsType DEF IInv
<1>3. type[s] \in StructType /\ type[s].state = "open" /\ NextId(s) \in Ids
  BY <1>1, InDefinitionOpen
<1>4. type[s].offset \in Nat
  BY <1>3 DEF StructType
<1>5. m \in Object
  BY <1>2, <1>4, NewMemberType
<1> HIDE DEF m
<1>6. Extends(u, type[s], type[s].memberMap \cup {NextId(s)}, m.off + m.width)
  BY <1>3, <1>5, AddMemberType
<1>7. SameExtent(u, u)
  BY <1>3, <1>6 DEF SameExtent, Extends
<1>8. m = NewMember(k, WidthOf(k), MakeAlign(type[s].offset, align), align)
      /\ u = AddMember(type[s], NextId(s), m)
  BY DEF m
<1> HIDE DEF u
<1>9. object' = [object EXCEPT ![s] = Append(@, m)] /\ type' = [type EXCEPT ![s] = u]
  BY <1>1 DEF Declare
<1> QED
  BY <1>1, <1>2, <1>7, <1>8, <1>9, MemberKeeps

LEMMA DeclareFlexibleNames ==
  ASSUME IInv, NamesInv, NEW s \in Structs, NEW k \in Kinds,
         NEW align \in Alignas \cup {AlignOf(k)}, DeclareFlexible(s, k, align)
  PROVE  NamesInv'
<1> DEFINE m == NewMember(k, 0, MakeAlign(type[s].offset, align), align)
           t == AddMember(type[s], NextId(s), m)
           u == Finalize(t, Append(object[s], m))
<1>1. /\ InDefinition(s)
      /\ object' = [object EXCEPT ![s] = Append(@, m)]
      /\ type' = [type EXCEPT ![s] = u]
  BY DEF DeclareFlexible, Complete
<1>2. align \in Nat \ {0}
  BY KindAlign, AlignsType
<1>3. type[s] \in StructType /\ NextId(s) \in Ids
  BY <1>1, InDefinitionOpen
<1>4. type[s].offset \in Nat
  BY <1>3 DEF StructType
<1>5. m \in Object
  BY <1>2, <1>4, NewMemberType
<1>6. m = NewMember(k, 0, MakeAlign(type[s].offset, align), align)
  OBVIOUS
<1> HIDE DEF m
<1>7. t \in StructType
  BY <1>3, <1>5, AddMemberType DEF Extends
<1>8. t = AddMember(type[s], NextId(s), m)
  OBVIOUS
<1> HIDE DEF t
<1>9. SameExtent(u, t)
  BY <1>7, FinalizeExtent
<1> HIDE DEF u
<1> QED
  BY <1>1, <1>6, <1>8, <1>9, MemberKeeps

LEMMA ObjectBits == ASSUME NEW m \in Object PROVE m.bits \in Nat /\ m.width \in Nat
BY DEF Object

(* A bit-field, wherever it is placed; one that has a name did not wrap.   *)
LEMMA FieldKeeps ==
  ASSUME IInv, NamesInv, NEW s \in Structs, NEW k \in Integral, NEW off \in Nat, NEW begin \in 0..7,
         NEW bits \in Int, NEW named \in BOOLEAN,
         named => bits % 256 # 0 /\ begin + (bits % 256) <= 8 * ScalarWidth[k],
         InDefinition(s), DeclareBitFieldAt(s, k, off, begin, bits, named),
         IF type[s].isStruct
         THEN \/ object[s] = <<>>
              \/ off * 8 + begin = Total(s)
              \/ off >= type[s].offset
         ELSE off = 0 /\ begin = 0
  PROVE  NamesInv'
<1> DEFINE m == BitFieldOf(k, off, begin, bits, named)
           u == AddBitField(type[s], NextId(s), m)
           map == IF m.anonymous THEN type[s].memberMap ELSE type[s].memberMap \cup {NextId(s)}
           end == m.off + Bytes(BitFieldEnd(m))
<1>1. object' = [object EXCEPT ![s] = Append(@, m)] /\ type' = [type EXCEPT ![s] = u]
  BY DEF DeclareBitFieldAt, Declare
<1>2. type[s] \in StructType /\ type[s].state = "open" /\ NextId(s) \in Ids /\ Aligned(type[s])
  BY InDefinitionOpen DEF NamesInv, AlignsOK
<1>3. m \in Object /\ m.off = off /\ m.begin = begin /\ (m.bits <= 8 * m.width => Counted(m))
  BY BitFieldType
<1>4. /\ m.width = ScalarWidth[k] /\ m.align = ScalarAlign[k] /\ m.bits = bits % 256
      /\ m.anonymous = ~named /\ m.kind = k
  BY DEF BitFieldOf
<1>5. m.align \in Aligns
  BY <1>4, AlignsType, ScalarsAssumption
<1> HIDE DEF m
<1>6. Extends(u, type[s], map, end)
  BY <1>2, <1>3, AddBitFieldType
<1>7. /\ Grows(u, type[s], m) /\ u.align = type[s].align
      /\ u.bitFieldAlign % type[s].bitFieldAlign = 0
      /\ type[s].isStruct => u.width % u.bitFieldAlign = 0
  BY <1>2, <1>3, <1>5, AddBitFieldGrows
<1>8. Adds(s, m, {}, 0, u)
  BY <1>1, DeclareAdds
<1>9. /\ u \in StructType /\ u.state # "undeclared" /\ u.isStruct = type[s].isStruct
      /\ u.memberMap = map /\ (type[s].isStruct => u.offset = end)
  BY <1>2, <1>6 DEF Extends
<1>10. map \subseteq type[s].memberMap \cup {NextId(s)}
  OBVIOUS
<1> HIDE DEF u
<1>11. Enters(s, m, s, {}, 0, u)
  BY <1>5, <1>7, <1>8, <1>9, <1>10 DEF Enters
<1>12. ASSUME NextId(s) \in u.memberMap PROVE named
  <2>1. NextId(s) \notin type[s].memberMap
    BY NextIdFresh
  <2> QED
    BY <1>4, <1>9, <1>12, <2>1
<1>13. Sound(s, m, u)
  <2>1. SUFFICES ASSUME named
                 PROVE  m.bits # 0 /\ m.begin + m.bits <= 8 * m.width
    BY <1>12 DEF Sound
  <2> QED
    BY <1>3, <1>4, <2>1
<1>14. Behind(s, m, u)
  <2>1. SUFFICES ASSUME m.bits <= 8 * m.width
                 PROVE  IF type[s].isStruct
                        THEN /\ Follows(object[s], type[s].offset, m)
                             /\ EndBit(m) <= 8 * u.offset /\ EndBit(m) <= TotalBits(m)
                        ELSE EndBit(m) <= 8 * u.width
    BY DEF Behind
  <2>2. Counted(m)
    BY <1>3, <2>1
  <2>3. CASE type[s].isStruct
    <3>1. Follows(object[s], type[s].offset, m)
      BY <1>3, <2>3 DEF Follows, FirstBit, Total, Last
    <3>2. EndBit(m) <= 8 * u.offset /\ EndBit(m) <= TotalBits(m)
      BY <1>3, <1>9, <2>2, <2>3, CountedEnd
    <3> QED
      BY <2>3, <3>1, <3>2
  <2>4. CASE ~type[s].isStruct
    <3>1. m.off = 0 /\ m.begin = 0
      BY <1>3, <2>4
    <3>2. m.bits \in Nat /\ m.width \in Nat /\ BitsOf(m) = m.bits
      <4>1. m.bits \in Nat /\ m.width \in Nat
        BY <1>3, ObjectBits
      <4>2. m.bits > 0 \/ EmptyField(m)
        BY <2>2, <4>1 DEF Counted
      <4> QED
        BY <4>1, <4>2 DEF BitsOf
    <3>3. EndBit(m) = m.bits
      BY <3>1, <3>2 DEF EndBit, FirstBit
    <3>4. m.width <= u.width /\ u.width \in Nat
      BY <1>7, <1>9, <2>4 DEF Grows, StructType
    <3>5. EndBit(m) <= 8 * u.width
      BY <2>1, <3>2, <3>3, <3>4
    <3> QED
      BY <2>4, <3>5
  <2> QED
    BY <2>3, <2>4
<1>15. Rounded(s, m, u)
  <2>1. SUFFICES ASSUME OrdinaryMember(m, type[s].isStruct), type[s].width % type[s].align = 0,
                        type[s].bitFieldAlign % type[s].align = 0
                 PROVE  u.width % u.align = 0 /\ u.bitFieldAlign % u.align = 0
    BY DEF Rounded
  <2>2. m.bits \in Nat
    BY <1>3, ObjectBits
  <2>3. m.bits > 0 \/ m.anonymous
    <3>1. SUFFICES ASSUME ~m.anonymous PROVE m.bits > 0
      OBVIOUS
    <3>2. named
      BY <1>4, <3>1
    <3> QED
      BY <1>4, <2>2, <3>2
  <2>4. type[s].isStruct
    BY <1>4, <2>1, <2>3 DEF OrdinaryMember
  <2> DEFINE a == u.align
             b == type[s].bitFieldAlign
             c == u.bitFieldAlign
             w == u.width
  <2>5. /\ a \in Nat \ {0} /\ b \in Nat \ {0} /\ c \in Nat \ {0} /\ w \in Int /\ c \in Int
        /\ w % c = 0 /\ c % b = 0 /\ b % a = 0
    BY <1>2, <1>7, <1>9, <2>1, <2>4 DEF StructType
  <2> HIDE DEF a, b, c, w
  <2>6. c % a = 0
    BY <2>5, MultipleTransitive, Zenon
  <2>7. w % a = 0
    BY <2>5, <2>6, MultipleTransitive, Zenon
  <2> QED
    BY <2>6, <2>7 DEF a, c, w
<1> QED
  BY <1>3, <1>11, <1>13, <1>14, <1>15, EntersKeeps

(* The three ways to place a bit-field.                                    *)
LEMMA DeclareBitFieldNames ==
  ASSUME IInv, NamesInv, NEW s \in Structs, NEW k \in Integral, NEW w \in BitWidths,
         NEW named \in BOOLEAN, DeclareBitField(s, k, w, named)
  PROVE  NamesInv'
<1>1. w \in Nat /\ ScalarWidth[k] \in 1..8
  BY ScalarsAssumption
<1>2. InDefinition(s) /\ w <= ScalarWidth[k] * 8 /\ (named => w > 0)
  BY DEF DeclareBitField, BitFieldFirst, BitFieldPacked, BitFieldNextUnit, LegalBitField
<1>3. named => w % 256 = w /\ w # 0 /\ BitsAsked(s, k, w) = w /\ w <= 8 * ScalarWidth[k]
  <2>1. w \in 0..255
    BY <1>1, <1>2
  <2> QED
    BY <1>1, <1>2, <2>1, SmallByte DEF BitsAsked
<1>4. ASSUME ~StartsUnit(s)
      PROVE  type[s].isStruct /\ Total(s) \in Nat /\ BitsAsked(s, k, w) \in Int
  <2>1. Total(s) \in Nat /\ type[s].isStruct
    BY <1>4, TotalType DEF StartsUnit
  <2> QED
    BY <1>1, <2>1 DEF BitsAsked
<1>5. CASE BitFieldFirst(s, k, w, named)
  <2>1. DeclareBitFieldAt(s, k, 0, 0, w, named) /\ (type[s].isStruct => object[s] = <<>>)
    BY <1>5 DEF BitFieldFirst, StartsUnit
  <2>2. named => w % 256 # 0 /\ 0 + (w % 256) <= 8 * ScalarWidth[k]
    BY <1>1, <1>3
  <2>3. 0 \in 0..7 /\ 0 \in Nat /\ w \in Int
    BY <1>1
  <2>4. IF type[s].isStruct
        THEN object[s] = <<>> \/ 0 * 8 + 0 = Total(s) \/ 0 >= type[s].offset
        ELSE 0 = 0 /\ 0 = 0
    BY <2>1
  <2> QED
    BY <1>2, <2>1, <2>2, <2>3, <2>4, FieldKeeps
<1>6. CASE BitFieldPacked(s, k, w, named)
  <2> DEFINE off == Total(s) \div 8
             begin == Total(s) % 8
             bits == BitsAsked(s, k, w)
  <2>1. /\ DeclareBitFieldAt(s, k, off, begin, bits, named)
        /\ Total(s) \in Nat /\ bits \in Int /\ type[s].isStruct
        /\ bits + Total(s) <= ScalarWidth[k] * 8
    BY <1>4, <1>6 DEF BitFieldPacked, UnitHolds
  <2>2. off \in Nat /\ begin \in 0..7 /\ off * 8 + begin = Total(s)
    BY <2>1, DivMod8
  <2>3. named => bits % 256 = w /\ w # 0 /\ bits = w
    BY <1>3
  <2> HIDE DEF off, begin, bits
  <2>4. named => bits % 256 # 0 /\ begin + (bits % 256) <= 8 * ScalarWidth[k]
    BY <1>1, <2>1, <2>2, <2>3
  <2> QED
    BY <1>2, <2>1, <2>2, <2>4, FieldKeeps
<1>7. CASE BitFieldNextUnit(s, k, w, named)
  <2> DEFINE off == MakeAlign(type[s].offset, ScalarWidth[k])
             bits == BitsAsked(s, k, w)
  <2>1. DeclareBitFieldAt(s, k, off, 0, bits, named) /\ bits \in Int /\ type[s].isStruct
    BY <1>4, <1>7 DEF BitFieldNextUnit
  <2>2. type[s].offset \in Nat /\ ScalarWidth[k] \in Nat \ {0}
    BY <1>1 DEF IInv, TypeOK, StructType
  <2>3. off \in Nat /\ off >= type[s].offset
    BY <2>2, MakeAlignUp
  <2>4. named => bits % 256 # 0 /\ 0 + (bits % 256) <= 8 * ScalarWidth[k]
    BY <1>1, <1>3
  <2> HIDE DEF off, bits
  <2> QED
    BY <1>2, <2>1, <2>3, <2>4, FieldKeeps
<1> QED
  BY <1>5, <1>6, <1>7 DEF DeclareBitField

(* An unnamed type moves with what it names.                               *)
LEMMA DeclareAnonymousNames ==
  ASSUME IInv, NamesInv, NEW s \in Structs, NEW inner \in Structs, DeclareAnonymous(s, inner)
  PROVE  NamesInv'
<1> DEFINE off == MakeAlign(type[s].offset, AlignOf(inner))
           map == type[inner].memberMap
           m == [NewMember(inner, WidthOf(inner), off, AlignOf(inner)) EXCEPT !.anonymous = TRUE]
           u == MergeAnony(type[s], NextId(s), m, type[inner])
           end == m.off + m.width
           names == type[s].memberMap \cup map
<1>1. /\ InDefinition(s) /\ type[s].memberMap \cap map = {}
      /\ Adds(s, m, map, off, u)
  BY DEF DeclareAnonymous, Adds
<1>2. /\ type[s].state = "open" /\ type[s] \in StructType /\ NextId(s) \in Ids
      /\ Aligned(type[s])
  BY <1>1, InDefinitionOpen DEF NamesInv, AlignsOK
<1>3. /\ type[inner] \in StructType /\ inner \in Kinds /\ inner \notin Scalars
      /\ Aligned(type[inner])
  BY ScalarsAssumption DEF IInv, TypeOK, Kinds, NamesInv, AlignsOK
<1>4. /\ type[s].offset \in Nat
      /\ WidthOf(inner) = type[inner].width /\ WidthOf(inner) \in Nat
      /\ AlignOf(inner) = type[inner].align /\ AlignOf(inner) \in Nat \ {0}
  BY <1>2, <1>3 DEF StructType, WidthOf, AlignOf
<1>5. off \in Nat /\ off >= type[s].offset /\ off % AlignOf(inner) = 0
  BY <1>4, MakeAlignUp, MakeAlignMultiple
<1>5u. type[s].offset = 0 => off = 0
  <2>1. SUFFICES ASSUME type[s].offset = 0 PROVE off = 0
    OBVIOUS
  <2>2. (AlignOf(inner) * 0) % AlignOf(inner) = 0 /\ AlignOf(inner) * 0 = 0
    BY <1>4, MultipleOf
  <2>3. 0 % AlignOf(inner) = 0
    BY <2>2
  <2> QED
    BY <2>1, <2>3 DEF MakeAlign
<1> HIDE DEF off
<1>6. /\ m \in Object /\ m.bits = 0 /\ m.begin = 0 /\ m.off = off /\ m.kind = inner
      /\ m.anonymous /\ m.width \in Nat
  BY <1>3, <1>4, <1>5, AnonymousMember
<1>7. m.width = type[inner].width /\ m.align = type[inner].align
  BY <1>4 DEF NewMember
<1>8. ~EmptyField(m) /\ m.align \in Aligns /\ Anony(m, inner)
  BY <1>3, <1>6, <1>7 DEF EmptyField, Aligned, Anony
<1> HIDE DEF m
<1>9. Extends(u, type[s], names, end)
  BY <1>2, <1>3, <1>6, MergeAnonyType
<1>10. Grows(u, type[s], m) /\ u.align % m.align = 0
  BY <1>2, <1>3, <1>6, <1>8, MergeAnonyGrows
<1>11. /\ u \in StructType /\ u.state # "undeclared" /\ u.isStruct = type[s].isStruct
       /\ u.memberMap = names /\ (type[s].isStruct => u.offset = end)
  BY <1>2, <1>9 DEF Extends
<1>12. /\ EndBit(m) = 8 * off + 8 * type[inner].width
       /\ TotalBits(m) = 8 * off + 8 * type[inner].width
       /\ type[inner].width \in Nat
  BY <1>3, <1>5, <1>6, <1>7, <1>8 DEF FirstBit, EndBit, BitsOf, TotalBits, StructType
<1>13. end = off + type[inner].width
  BY <1>6, <1>7
<1>14. names \subseteq type[s].memberMap \cup {NextId(s)} \cup map
  OBVIOUS
<1> HIDE DEF u, end
<1>15. off % type[inner].align = 0 /\ u.align % type[inner].align = 0
  BY <1>4, <1>5, <1>7, <1>10
<1>16. Enters(s, m, inner, map, off, u)
  BY <1>1, <1>8, <1>10, <1>11, <1>12, <1>14, <1>15 DEF Enters
<1>17. Sound(s, m, u)
  <2>1. NextId(s) \notin names
    BY NextIdFresh
  <2> QED
    BY <1>11, <2>1 DEF Sound
<1>18. Behind(s, m, u)
  <2>1. CASE type[s].isStruct
    <3>1. Follows(object[s], type[s].offset, m)
      BY <1>5, <1>6 DEF Follows
    <3>2. EndBit(m) <= 8 * u.offset /\ EndBit(m) <= TotalBits(m)
      BY <1>5, <1>11, <1>12, <1>13, <2>1
    <3> QED
      BY <2>1, <3>1, <3>2 DEF Behind
  <2>2. CASE ~type[s].isStruct
    <3>1. off = 0
      BY <1>5u, <2>2 DEF NamesInv, ReachOK
    <3>2. type[inner].width <= u.width /\ u.width \in Nat
      BY <1>7, <1>10, <1>11, <2>2 DEF Grows, StructType
    <3>3. EndBit(m) <= 8 * u.width
      BY <1>12, <3>1, <3>2
    <3> QED
      BY <2>2, <3>3 DEF Behind
  <2> QED
    BY <2>1, <2>2
<1>19. Rounded(s, m, u)
  BY <1>3, <1>6, ScalarsAssumption DEF Rounded, OrdinaryMember
<1> HIDE DEF map
<1> QED
  BY <1>5, <1>6, <1>16, <1>17, <1>18, <1>19, EntersKeeps

LEMMA BeginNames ==
  ASSUME IInv, NamesInv, NEW s \in Structs, NEW isStruct \in BOOLEAN, Begin(s, isStruct)
  PROVE  NamesInv'
<1>1. type \in [Structs -> StructType] /\ type[s].state = "undeclared" /\ object[s] = <<>>
  BY DEF IInv, TypeOK, OpenOK, Begin
<1>2. /\ \A r \in Structs \ {s} : type'[r] = type[r]
      /\ type'[s] = [type[s] EXCEPT !.state = "open", !.isStruct = isStruct]
      /\ object' = object
  BY <1>1 DEF Begin
<1>3. /\ type'[s].memberMap = type[s].memberMap
      /\ type'[s].align = type[s].align /\ type'[s].bitFieldAlign = type[s].bitFieldAlign
      /\ type'[s].offset = type[s].offset /\ type'[s].width = type[s].width
      /\ type'[s].state = "open"
  BY <1>1, <1>2 DEF StructType
<1>4. type[s].offset = 0
  BY <1>1 DEF NamesInv, ReachOK
<1> QED
  BY <1>1, <1>2, <1>3, <1>4, SameLayout

LEMMA EndNames ==
  ASSUME IInv, NamesInv, NEW s \in Structs, End(s)
  PROVE  NamesInv'
<1>1. type \in [Structs -> StructType] /\ type[s] \in StructType
  BY DEF IInv, TypeOK
<1>2. /\ \A r \in Structs \ {s} : type'[r] = type[r]
      /\ type'[s] = Finalize(type[s], object[s])
      /\ object' = object
  BY <1>1 DEF End, Complete
<1>3. SameExtent(type'[s], type[s])
  BY <1>1, <1>2, FinalizeExtent
<1>4. \A r \in Structs :
        /\ type'[r].memberMap = type[r].memberMap
        /\ type'[r].align = type[r].align /\ type'[r].bitFieldAlign = type[r].bitFieldAlign
        /\ type'[r].offset = type[r].offset /\ type'[r].width = type[r].width
        /\ type'[r].state = "undeclared" => type[r].state = "undeclared"
        /\ type'[r].isStruct = type[r].isStruct
  BY <1>2, <1>3 DEF SameExtent
<1> QED
  BY <1>2, <1>4, SameLayout

-----------------------------------------------------------------------------
LEMMA InitNames == Init => NamesInv
<1> SUFFICES ASSUME Init PROVE NamesInv
  OBVIOUS
<1>1. /\ Undeclared.memberMap = {} /\ Undeclared.align = 1 /\ Undeclared.bitFieldAlign = 1
      /\ Undeclared.offset = 0 /\ Undeclared.width = 0
  BY DEF Undeclared
<1>2. \A s \in Structs : type[s] = Undeclared /\ object[s] = <<>>
  BY DEF Init
<1> HIDE DEF Undeclared
<1>3. \A s \in Structs : type[s].memberMap = {}
  BY <1>1, <1>2
<1>4. MapDenotes /\ PlainAligned /\ FieldsInside /\ Apart /\ NamesLaid
  BY <1>3 DEF MapDenotes, PlainAligned, FieldsInside, Apart, NamesLaid
<1>5. AlignsOK
  BY <1>1, <1>2, AlignsType DEF AlignsOK, Aligned
<1>6. ReachOK
  BY <1>1, <1>2 DEF ReachOK
<1>7. Sized
  <2>1. 0 % 1 = 0 /\ 1 % 1 = 0
    OBVIOUS
  <2> QED
    BY <1>1, <1>2, <2>1 DEF Sized
<1> QED
  BY <1>4, <1>5, <1>6, <1>7 DEF NamesInv

LEMMA NextNames == IInv /\ NamesInv /\ [Next]_vars => NamesInv'
<1> SUFFICES ASSUME IInv, NamesInv, [Next]_vars
             PROVE  NamesInv'
  OBVIOUS
<1>1. CASE UNCHANGED vars
  BY <1>1, SameLayout DEF vars
<1>2. CASE Next
  <2>1. PICK s \in Structs :
          \/ \E isStruct \in BOOLEAN : Begin(s, isStruct)
          \/ \E k \in Kinds : \E align \in Alignas \cup {AlignOf(k)} :
               DeclareMember(s, k, align) \/ DeclareFlexible(s, k, align)
          \/ \E k \in Integral, w \in BitWidths, named \in BOOLEAN : DeclareBitField(s, k, w, named)
          \/ \E inner \in Structs : DeclareAnonymous(s, inner)
          \/ End(s)
    BY <1>2 DEF Next
  <2>2. ASSUME NEW isStruct \in BOOLEAN, Begin(s, isStruct) PROVE NamesInv'
    BY <2>2, BeginNames
  <2>3. ASSUME NEW k \in Kinds, NEW align \in Alignas \cup {AlignOf(k)}, DeclareMember(s, k, align)
        PROVE  NamesInv'
    BY <2>3, DeclareMemberNames
  <2>4. ASSUME NEW k \in Kinds, NEW align \in Alignas \cup {AlignOf(k)}, DeclareFlexible(s, k, align)
        PROVE  NamesInv'
    BY <2>4, DeclareFlexibleNames
  <2>5. ASSUME NEW k \in Integral, NEW w \in BitWidths, NEW named \in BOOLEAN,
               DeclareBitField(s, k, w, named)
        PROVE  NamesInv'
    BY <2>5, DeclareBitFieldNames
  <2>6. ASSUME NEW inner \in Structs, DeclareAnonymous(s, inner) PROVE NamesInv'
    BY <2>6, DeclareAnonymousNames
  <2>7. CASE End(s)
    BY <2>7, EndNames
  <2> QED
    BY <2>1, <2>2, <2>3, <2>4, <2>5, <2>6, <2>7
<1> QED
  BY <1>1, <1>2

LEMMA NamesInvariant == Spec => [](IInv /\ NamesInv)
<1>1. Init => IInv /\ NamesInv
  BY InitHolds, InitNames
<1>2. (IInv /\ NamesInv) /\ [Next]_vars => (IInv /\ NamesInv)'
  BY NextHolds, NextNames
<1> QED
  BY <1>1, <1>2, PTL DEF Spec

(* A plain member is at a multiple of its alignment in every type that     *)
(* names it, however deep unnamed types are nested: each is moved by a     *)
(* multiple of its own alignment, which counts those of what it names.     *)
THEOREM PlainAlignedAlways == Spec => []PlainAligned
<1>1. NamesInv => PlainAligned
  BY DEF NamesInv
<1> QED
  BY <1>1, NamesInvariant, PTL

(* The elements of an array stay aligned: the size of a type without       *)
(* members of unnamed ones, and that is no union of bit-fields, is a       *)
(* multiple of its alignment, also when a bit-field was the last member    *)
(* and AddBitField() rounded up to bitFieldAlign_ instead.                 *)
THEOREM SizeMultipleAlways == Spec => []SizeMultipleOfAlign
<1>1. NamesInv => SizeMultipleOfAlign
  BY DEF NamesInv, Sized, SizeMultipleOfAlign
<1> QED
  BY <1>1, NamesInvariant, PTL

(* What is looked up in a type lies inside of it, members that were moved  *)
(* out of unnamed types included, when no zero width wraps and no type is  *)
(* moved twice.                                                            *)
THEOREM NamesInsideAlways == Spec => []NamesInside
<1>1. IInv /\ NamesInv => NamesInside
  <2> SUFFICES ASSUME IInv, NamesInv, \A r \in Structs : ~Wrapped(r) /\ MergedOnce(r),
                      NEW s \in Structs, ~Merged(s), NEW id \in type[s].memberMap
               PROVE  /\ EndBit(At(id)) <= 8 * type[s].width
                      /\ At(id).bits > 0 => At(id).begin + At(id).bits <= 8 * At(id).width
    BY DEF NamesInside, At
  <2>1. Reaches(s, EndBit(At(id)))
    BY DEF NamesInv, NamesLaid, Tame
  <2>2. id \in Ids /\ id[2] \in DOMAIN object[id[1]]
    BY DEF IInv, TypeOK, StructType, NamesInv, MapDenotes
  <2>3. At(id) \in Object
    <3>1. object[id[1]] \in Seq(Object)
      BY <2>2 DEF IInv, TypeOK, Ids
    <3> QED
      BY <2>2, <3>1, ElementOfSeq, LenProperties DEF At
  <2>4. EndBit(At(id)) \in Nat
    BY <2>3, BitsType
  <2>5. type[s].offset \in Nat /\ type[s].width \in Nat /\ type[s].offset <= type[s].width
    BY DEF IInv, TypeOK, StructType, NamesInv, ReachOK
  <2>6. EndBit(At(id)) <= 8 * type[s].width
    <3> DEFINE e == EndBit(At(id))
    <3>1. e \in Nat /\ Reaches(s, e)
      BY <2>1, <2>4
    <3> HIDE DEF e
    <3>2. e <= 8 * type[s].width
      BY <2>5, <3>1 DEF Reaches
    <3> QED
      BY <3>2 DEF e
  <2> QED
    BY <2>6 DEF NamesInv, FieldsInside
<1> QED
  BY <1>1, NamesInvariant, PTL

-----------------------------------------------------------------------------
(* The step that makes inner part of s, for the first time when no type is *)
(* moved twice.                                                            *)
LEMMA AnonymousMerges ==
  ASSUME IInv, NEW s \in Structs, NEW inner \in Structs, DeclareAnonymous(s, inner)
  PROVE  /\ InDefinition(s) /\ Merged(inner)'
         /\ (\A r \in Structs : MergedOnce(r)') => ~Merged(inner)
         /\ \A r \in Structs \ {s} :
              /\ type'[r] = type[r]
              /\ object'[r] # object[r] => \E id \in type[inner].memberMap : id[1] = r
<1> DEFINE off == MakeAlign(type[s].offset, AlignOf(inner))
           map == type[inner].memberMap
           m == [NewMember(inner, WidthOf(inner), off, AlignOf(inner)) EXCEPT !.anonymous = TRUE]
           u == MergeAnony(type[s], NextId(s), m, type[inner])
           n == Len(object[s]) + 1
<1>1. InDefinition(s) /\ Adds(s, m, map, off, u)
  BY DEF DeclareAnonymous, Adds
<1>2. type[s].offset \in Nat /\ inner \in Kinds
  BY DEF IInv, TypeOK, StructType, Kinds
<1>3. WidthOf(inner) \in Nat /\ AlignOf(inner) \in Nat \ {0}
  BY <1>2, KindType DEF IInv
<1>4. off \in Nat
  BY <1>2, <1>3, MakeAlignUp
<1> HIDE DEF off
<1>5. m \in Object /\ Anony(m, inner)
  BY <1>2, <1>3, <1>4, AnonymousMember DEF Anony
<1> HIDE DEF m, u
<1>6. /\ \A r \in Structs : \A i \in DOMAIN object[r] : MovedAt(r, i, map, off)
      /\ DOMAIN object'[s] = DOMAIN object[s] \cup {n} /\ n \notin DOMAIN object[s]
      /\ object'[s][n] = m
      /\ \A r \in Structs \ {s} : type'[r] = type[r]
  <2>1. Added(s, m, map, off, u)
    BY <1>1, <1>4, <1>5, AddsObjects
  <2> QED
    BY <2>1 DEF Added
<1>7. n \in DOMAIN object'[s] /\ Anony(object'[s][n], inner)
  BY <1>5, <1>6
<1>8. Merged(inner)'
  BY <1>7 DEF Merged, Anony
<1>9. ASSUME \A r \in Structs : MergedOnce(r)', Merged(inner) PROVE FALSE
  <2>1. PICK t \in Structs : \E i \in DOMAIN object[t] : Anony(object[t][i], inner)
    BY <1>9 DEF Merged
  <2>2. PICK i \in DOMAIN object[t] : Anony(object[t][i], inner)
    BY <2>1
  <2>3. MovedAt(t, i, map, off)
    BY <1>6
  <2>4. LET o == [object[t][i] EXCEPT !.off = @ + off]
        IN  o.kind = object[t][i].kind /\ o.anonymous = object[t][i].anonymous
    BY <1>4, <2>3, MovedObject DEF MovedAt
  <2>5. i \in DOMAIN object'[t] /\ Anony(object'[t][i], inner)
    BY <2>2, <2>3, <2>4 DEF MovedAt, Anony
  <2>6. t = s /\ i = n
    BY <1>7, <1>9, <2>5 DEF MergedOnce, Anony
  <2> QED
    BY <1>6, <2>2, <2>6
<1>10. ASSUME NEW r \in Structs \ {s}, object'[r] # object[r]
       PROVE  \E id \in map : id[1] = r
  <2>1. object'[r] = Moved(r, map, off)
    BY <1>1 DEF Adds
  <2>2. ~(\A i \in DOMAIN object[r] : <<r, i>> \notin map)
    BY <1>4, <1>10, <2>1, MovedType
  <2>3. PICK i \in DOMAIN object[r] : <<r, i>> \in map
    BY <2>2
  <2> QED
    BY <2>3
<1> QED
  BY <1>1, <1>6, <1>8, <1>9, <1>10

LEMMA FinalStep ==
  ASSUME IInv, [Next]_vars, NEW s \in Structs, type[s].state = "complete"
  PROVE  /\ type'[s] = type[s]
         /\ (\A r \in Structs : MergedOnce(r)') /\ object'[s] # object[s] =>
              \E r \in Structs : /\ ~Merged(r) /\ Merged(r)'
                                /\ \E id \in type[r].memberMap : id[1] = s
<1>1. CASE UNCHANGED vars
  BY <1>1 DEF vars
<1>2. CASE Next
  <2>1. PICK q \in Structs :
          \/ \E isStruct \in BOOLEAN : Begin(q, isStruct)
          \/ \E k \in Kinds : \E align \in Alignas \cup {AlignOf(k)} :
               DeclareMember(q, k, align) \/ DeclareFlexible(q, k, align)
          \/ \E k \in Integral, w \in BitWidths, named \in BOOLEAN : DeclareBitField(q, k, w, named)
          \/ \E inner \in Structs : DeclareAnonymous(q, inner)
          \/ End(q)
    BY <1>2 DEF Next
  <2>2. InDefinition(q) => q # s
    BY InDefinitionOpen
  <2>3. type \in [Structs -> StructType] /\ object \in [Structs -> Seq(Object)]
    BY DEF IInv, TypeOK
  <2>4. ASSUME NEW isStruct \in BOOLEAN, Begin(q, isStruct)
        PROVE  type'[s] = type[s] /\ object'[s] = object[s]
    BY <2>3, <2>4 DEF Begin
  <2>5. ASSUME NEW k \in Kinds, NEW align, DeclareMember(q, k, align)
        PROVE  type'[s] = type[s] /\ object'[s] = object[s]
    BY <2>2, <2>3, <2>5 DEF DeclareMember, Declare
  <2>6. ASSUME NEW k \in Kinds, NEW align, DeclareFlexible(q, k, align)
        PROVE  type'[s] = type[s] /\ object'[s] = object[s]
    BY <2>2, <2>3, <2>6 DEF DeclareFlexible, Complete
  <2>7. ASSUME NEW k \in Integral, NEW w \in BitWidths, NEW named \in BOOLEAN,
               DeclareBitField(q, k, w, named)
        PROVE  type'[s] = type[s] /\ object'[s] = object[s]
    BY <2>2, <2>3, <2>7 DEF DeclareBitField, BitFieldFirst, BitFieldPacked, BitFieldNextUnit,
                            LegalBitField, DeclareBitFieldAt, Declare
  <2>8. ASSUME End(q)
        PROVE  type'[s] = type[s] /\ object'[s] = object[s]
    <3>1. open \in Seq(Structs) /\ open # <<>> /\ q = open[Len(open)]
      BY <2>8 DEF IInv, TypeOK, End, Last
    <3>2. Len(open) \in DOMAIN open
      BY <3>1, LenProperties, EmptySeq
    <3>3. type[q].state = "open"
      BY <3>1, <3>2 DEF IInv, OpenOK
    <3> QED
      BY <2>3, <2>8, <3>3 DEF End, Complete
  <2>9. ASSUME NEW inner \in Structs, DeclareAnonymous(q, inner)
        PROVE  /\ type'[s] = type[s]
               /\ (\A r \in Structs : MergedOnce(r)') /\ object'[s] # object[s] =>
                    \E r \in Structs : /\ ~Merged(r) /\ Merged(r)'
                                      /\ \E id \in type[r].memberMap : id[1] = s
    <3>1. q # s
      BY <2>2, <2>9, AnonymousMerges
    <3> QED
      BY <2>9, <3>1, AnonymousMerges
  <2> QED
    BY <2>1, <2>4, <2>5, <2>6, <2>7, <2>8, <2>9
<1> QED
  BY <1>1, <1>2

(* The layout of a complete type is never touched again, and what it names *)
(* moves once, with the unnamed type that names it.                        *)
THEOREM CompleteIsFinalAlways == Spec => CompleteIsFinal
<1> DEFINE Final ==
      \A s \in Structs : type[s].state = "complete" =>
        /\ type'[s] = type[s]
        /\ (\A r \in Structs : MergedOnce(r)') /\ object'[s] # object[s] =>
             \E r \in Structs : /\ ~Merged(r) /\ Merged(r)'
                               /\ \E id \in type[r].memberMap : id[1] = s
<1>1. IInv /\ [Next]_vars => Final
  BY FinalStep
<1>2. IInv /\ [Next]_vars => [Final]_vars
  BY <1>1
<1> QED
  BY <1>2, LayoutInvariant, PTL DEF Spec, CompleteIsFinal
=============================================================================
