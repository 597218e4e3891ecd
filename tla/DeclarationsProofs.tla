------------------------- MODULE DeclarationsProofs -----------------------
(***************************************************************************)
(* No symbol is emitted twice, where no prototype comes late the           *)
(* parameters of a function are those of its body, and, but for the known  *)
(* differences, the declarations implement those of the C standard: for    *)
(* any declarations of any names in any scopes.                            *)
(*                                                                         *)
(* What a declaration leaves is a record of four variables that is then    *)
(* assigned (Commit), so that the parts of the invariant are stated of     *)
(* four values: the scopes sc, the identifiers id, the types ty and the    *)
(* external symbols ex.                                                    *)
(***************************************************************************)
EXTENDS LinkageRefinement, SequenceTheorems, WellFoundedInduction, TLAPS

ScopeOver(n) == [type : {"file", "block"}, map : [Names -> 0..n]]

\* The objects are of types that objects have.
IdentsOK(id, ty) ==
  /\ id \in Seq(Ident)
  /\ \A i \in DOMAIN id :
       /\ id[i].type \in DOMAIN ty
       /\ id[i].class = "object" => ~IsFunction(ty[id[i].type])

TypesOK(id, ty) ==
  /\ ty \in Seq(HeapType)
  /\ Len(ty) >= 1
  /\ ~IsFunction(ty[1])
  /\ \A t \in DOMAIN ty : ty[t].params \in 0..Len(id)

ScopesOK(sc, id) ==
  /\ sc \in Seq(ScopeOver(Len(id)))
  /\ Len(sc) >= 1
  /\ \A k \in DOMAIN sc : sc[k].type = "file" <=> k = 1
  /\ \A n \in Names : sc[1].map[n] # Nothing => id[sc[1].map[n]].name = n

AtFileScope(i, sc, id) == id[i].name \in Names /\ sc[1].map[id[i].name] = i

\* The declarations with linkage in blocks are of no use to the generator.
Useless(ident) == "extern" \in ident.storage /\ ~ident.init
HarmlessAt(i, sc, id) ==
  id[i].class = "object" /\ id[i].linkage # "none" => AtFileScope(i, sc, id) \/ Useless(id[i])

LinkedOK(sc, id) == \A i \in DOMAIN id : HarmlessAt(i, sc, id)

Sound(sc, id, ty, ex) ==
  /\ IdentsOK(id, ty)
  /\ TypesOK(id, ty)
  /\ ScopesOK(sc, id)
  /\ LinkedOK(sc, id)
  /\ ex \in [Names -> 0..Len(id)]

\* A function that is defined.
FunctionOK(i, sc, id, ty) ==
  /\ i \in DOMAIN id
  /\ id[i].class # "object"
  /\ id[i].linkage # "none" => AtFileScope(i, sc, id)
  /\ ty[id[i].type].complete

DeclarationOK(i, id) == i \in DOMAIN id /\ id[i].class = "object" /\ id[i].decl

EntryOK(e, sc, id, ty) ==
  \/ e.what = "declaration" /\ DeclarationOK(e.ident, id)
  \/ e.what = "function" /\ FunctionOK(e.ident, sc, id, ty)

UnitOK(u, sc, id, ty) ==
  /\ \E S : u \in Seq(S)
  /\ \A k \in DOMAIN u : EntryOK(u[k], sc, id, ty)
  /\ \A k, l \in DOMAIN u : k # l => u[k].ident # u[l].ident

\* The function whose body is read is not in the unit yet.
BodyOK(b, u, sc, id, ty) ==
  IF Len(sc) = 1 THEN b = Nobody
  ELSE FunctionOK(b.ident, sc, id, ty) /\ \A k \in DOMAIN u : u[k].ident # b.ident

IInv ==
  /\ Sound(scopes, idents, types, external)
  /\ UnitOK(unit, scopes, idents, types)
  /\ BodyOK(body, unit, scopes, idents, types)

-----------------------------------------------------------------------------
(* The identifiers keep what they are, a type that is complete remains so, *)
(* and the file's scope loses nothing.                                     *)
SameIdent(new, old) ==
  /\ new.name = old.name /\ new.class = old.class /\ new.type = old.type
  /\ new.linkage = old.linkage
  /\ old.decl => new.decl

IdentsGrow(id, id2) ==
  Len(id2) >= Len(id) /\ \A i \in DOMAIN id : SameIdent(id2[i], id[i])

TypesGrow(ty, ty2) ==
  Len(ty2) >= Len(ty) /\ \A t \in DOMAIN ty : ty[t].complete => ty2[t].complete

FileGrows(sc, sc2) ==
  \A n \in Names : sc[1].map[n] # Nothing => sc2[1].map[n] = sc[1].map[n]

\* A longer sequence has the places of a shorter one.
LEMMA IndicesGrow ==
  ASSUME NEW S, NEW T, NEW id \in Seq(S), NEW id2 \in Seq(T), Len(id2) >= Len(id)
  PROVE  DOMAIN id \subseteq DOMAIN id2
OBVIOUS

\* What is defined stays defined.
LEMMA FunctionKept ==
  ASSUME NEW sc, NEW id, NEW ty, NEW ex, NEW sc2, NEW id2, NEW ty2, NEW ex2, NEW i,
         Sound(sc, id, ty, ex), Sound(sc2, id2, ty2, ex2),
         IdentsGrow(id, id2), TypesGrow(ty, ty2), FileGrows(sc, sc2),
         FunctionOK(i, sc, id, ty)
  PROVE  FunctionOK(i, sc2, id2, ty2)
<1>1. i \in DOMAIN id /\ id[i] \in Ident /\ id[i].type \in DOMAIN ty
  BY DEF Sound, IdentsOK, FunctionOK
<1>2. i \in DOMAIN id2 /\ SameIdent(id2[i], id[i])
  BY <1>1, IndicesGrow DEF Sound, IdentsOK, IdentsGrow
<1>3. i # Nothing
  BY <1>1 DEF Sound, IdentsOK, Nothing
<1>4. id2[i].class # "object" /\ (id2[i].linkage # "none" => id[i].linkage # "none")
  BY <1>2 DEF SameIdent, FunctionOK
<1>5. ty2[id2[i].type].complete
  BY <1>1, <1>2 DEF SameIdent, FunctionOK, TypesGrow
<1>6. ASSUME id[i].linkage # "none" PROVE AtFileScope(i, sc2, id2)
  <2>1. id[i].name \in Names /\ sc[1].map[id[i].name] = i
    BY <1>6 DEF FunctionOK, AtFileScope
  <2> QED
    BY <1>2, <1>3, <2>1 DEF AtFileScope, FileGrows, SameIdent
<1> QED
  BY <1>2, <1>4, <1>5, <1>6 DEF FunctionOK

\* An entry of the unit stays one.
LEMMA EntryKept ==
  ASSUME NEW sc, NEW id, NEW ty, NEW ex, NEW sc2, NEW id2, NEW ty2, NEW ex2, NEW e,
         Sound(sc, id, ty, ex), Sound(sc2, id2, ty2, ex2),
         IdentsGrow(id, id2), TypesGrow(ty, ty2), FileGrows(sc, sc2),
         EntryOK(e, sc, id, ty)
  PROVE  EntryOK(e, sc2, id2, ty2)
<1>1. CASE e.what = "function" /\ FunctionOK(e.ident, sc, id, ty)
  BY <1>1, FunctionKept DEF EntryOK
<1>2. CASE e.what = "declaration" /\ DeclarationOK(e.ident, id)
  <2>1. e.ident \in DOMAIN id2 /\ SameIdent(id2[e.ident], id[e.ident])
    BY <1>2, IndicesGrow DEF DeclarationOK, Sound, IdentsOK, IdentsGrow
  <2> QED
    BY <1>2, <2>1 DEF EntryOK, DeclarationOK, SameIdent
<1> QED
  BY <1>1, <1>2 DEF EntryOK

\* So does the whole unit.
LEMMA UnitKept ==
  ASSUME NEW sc, NEW id, NEW ty, NEW ex, NEW sc2, NEW id2, NEW ty2, NEW ex2, NEW u,
         Sound(sc, id, ty, ex), Sound(sc2, id2, ty2, ex2),
         IdentsGrow(id, id2), TypesGrow(ty, ty2), FileGrows(sc, sc2),
         UnitOK(u, sc, id, ty)
  PROVE  UnitOK(u, sc2, id2, ty2)
<1>1. ASSUME NEW k \in DOMAIN u PROVE EntryOK(u[k], sc2, id2, ty2)
  BY EntryKept DEF UnitOK
<1> QED
  BY <1>1 DEF UnitOK

\* An entry for an identifier without one.
LEMMA UnitAppend ==
  ASSUME NEW sc, NEW id, NEW ty, NEW u, NEW e,
         UnitOK(u, sc, id, ty), EntryOK(e, sc, id, ty),
         \A k \in DOMAIN u : u[k].ident # e.ident
  PROVE  UnitOK(Append(u, e), sc, id, ty)
<1> DEFINE v == Append(u, e)
<1>1. PICK S : u \in Seq(S)
  BY DEF UnitOK
<1> DEFINE R == S \cup {e}
<1>2. u \in Seq(R) /\ e \in R
  BY <1>1
<1> HIDE DEF R
<1>3. v \in Seq(R) /\ Len(v) = Len(u) + 1 /\ DOMAIN u = 1..Len(u) /\ DOMAIN v = 1..Len(v)
  BY <1>2
<1>4. \A k \in DOMAIN v : v[k] = IF k = Len(u) + 1 THEN e ELSE u[k]
  BY <1>2
<1>5. Len(u) \in Nat
  BY <1>2
<1> HIDE DEF v
<1>6. \A k \in DOMAIN v : EntryOK(v[k], sc, id, ty)
  BY <1>3, <1>4, <1>5 DEF UnitOK
<1>7. \A k, l \in DOMAIN v : k # l => v[k].ident # v[l].ident
  BY <1>3, <1>4, <1>5 DEF UnitOK
<1> QED
  BY <1>3, <1>6, <1>7 DEF UnitOK, v

-----------------------------------------------------------------------------
(* What may happen to the four values, a little at a time.                 *)
LEMMA Reflexive ==
  ASSUME NEW sc, NEW id, NEW ty
  PROVE  FileGrows(sc, sc) /\ (id \in Seq(Ident) => IdentsGrow(id, id))
         /\ (ty \in Seq(HeapType) => TypesGrow(ty, ty))
BY DEF FileGrows, IdentsGrow, TypesGrow, SameIdent

\* Growth goes on.
LEMMA IdentsGrowOn ==
  ASSUME NEW id \in Seq(Ident), NEW id2 \in Seq(Ident), NEW id3 \in Seq(Ident),
         IdentsGrow(id, id2), IdentsGrow(id2, id3)
  PROVE  IdentsGrow(id, id3)
<1>1. DOMAIN id \subseteq DOMAIN id2 /\ Len(id3) >= Len(id)
  BY DEF IdentsGrow
<1>2. ASSUME NEW i \in DOMAIN id PROVE SameIdent(id3[i], id[i])
  <2>1. SameIdent(id2[i], id[i]) /\ SameIdent(id3[i], id2[i])
    BY <1>1 DEF IdentsGrow
  <2> QED
    BY <2>1 DEF SameIdent
<1> QED
  BY <1>1, <1>2 DEF IdentsGrow

\* The same of types.
LEMMA TypesGrowOn ==
  ASSUME NEW ty \in Seq(HeapType), NEW ty2 \in Seq(HeapType), NEW ty3 \in Seq(HeapType),
         TypesGrow(ty, ty2), TypesGrow(ty2, ty3)
  PROVE  TypesGrow(ty, ty3)
<1>1. DOMAIN ty \subseteq DOMAIN ty2 /\ Len(ty3) >= Len(ty)
  BY DEF TypesGrow
<1> QED
  BY <1>1 DEF TypesGrow

(* The scopes mean no identifier that is not there.                        *)
LEMMA ScopesWider ==
  ASSUME NEW m \in Nat, NEW n \in Nat, m <= n, NEW sc \in Seq(ScopeOver(m))
  PROVE  sc \in Seq(ScopeOver(n))
<1>1. 0..m \subseteq 0..n
  OBVIOUS
<1>2. [Names -> 0..m] \subseteq [Names -> 0..n]
  BY <1>1
<1>3. ScopeOver(m) \subseteq ScopeOver(n)
  BY <1>2 DEF ScopeOver
<1> QED
  BY <1>3

\* One more identifier.
LEMMA IdentsAppend ==
  ASSUME NEW id \in Seq(Ident), NEW new \in Ident
  PROVE  /\ Append(id, new) \in Seq(Ident)
         /\ IdentsGrow(id, Append(id, new))
         /\ Len(Append(id, new)) = Len(id) + 1
         /\ \A i \in DOMAIN id : i \in DOMAIN Append(id, new) /\ Append(id, new)[i] = id[i]
         /\ Append(id, new)[Len(id) + 1] = new
<1> DEFINE id2 == Append(id, new)
<1>1. id2 \in Seq(Ident) /\ Len(id2) = Len(id) + 1 /\ id2[Len(id) + 1] = new
  OBVIOUS
<1>2. \A i \in DOMAIN id : i \in DOMAIN id2 /\ id2[i] = id[i]
  OBVIOUS
<1> HIDE DEF id2
<1>3. IdentsGrow(id, id2)
  BY <1>1, <1>2 DEF IdentsGrow, SameIdent
<1> QED
  BY <1>1, <1>2, <1>3 DEF id2

\* One more type.
LEMMA TypesAppend ==
  ASSUME NEW ty \in Seq(HeapType), NEW new \in HeapType
  PROVE  /\ Append(ty, new) \in Seq(HeapType)
         /\ TypesGrow(ty, Append(ty, new))
         /\ Len(Append(ty, new)) = Len(ty) + 1
         /\ \A t \in DOMAIN ty : t \in DOMAIN Append(ty, new) /\ Append(ty, new)[t] = ty[t]
         /\ Append(ty, new)[Len(ty) + 1] = new
<1> DEFINE ty2 == Append(ty, new)
<1>1. ty2 \in Seq(HeapType) /\ Len(ty2) = Len(ty) + 1 /\ ty2[Len(ty) + 1] = new
  OBVIOUS
<1>2. \A t \in DOMAIN ty : t \in DOMAIN ty2 /\ ty2[t] = ty[t]
  OBVIOUS
<1> HIDE DEF ty2
<1>3. TypesGrow(ty, ty2)
  BY <1>1, <1>2 DEF TypesGrow
<1> QED
  BY <1>1, <1>2, <1>3 DEF ty2

\* A new identifier that is an object is of a type that objects have.
FitsHeap(new, ty) ==
  new \in Ident /\ new.type \in DOMAIN ty /\ (new.class = "object" => ~IsFunction(ty[new.type]))

Harmless(new) == new.class = "object" /\ new.linkage # "none" => Useless(new)

\* A type that is made.
LEMMA MakeType ==
  ASSUME NEW sc, NEW id, NEW ty, NEW ex, NEW new,
         Sound(sc, id, ty, ex), new \in HeapType, new.params \in 0..Len(id)
  PROVE  Sound(sc, id, Append(ty, new), ex)
<1> DEFINE ty2 == Append(ty, new)
<1>0. id \in Seq(Ident) /\ ty \in Seq(HeapType) /\ Len(ty) >= 1
  BY DEF Sound, IdentsOK, TypesOK
<1>1. /\ ty2 \in Seq(HeapType) /\ Len(ty2) = Len(ty) + 1 /\ ty2[Len(ty) + 1] = new
      /\ \A t \in DOMAIN ty : t \in DOMAIN ty2 /\ ty2[t] = ty[t]
  BY <1>0, TypesAppend
<1> HIDE DEF ty2
<1>2. IdentsOK(id, ty2)
  BY <1>1 DEF Sound, IdentsOK
<1>3. ty2[1] = ty[1] /\ Len(ty2) >= 1
  BY <1>0, <1>1
<1>4. ASSUME NEW t \in DOMAIN ty2 PROVE ty2[t].params \in 0..Len(id)
  <2>1. t \in DOMAIN ty \/ t = Len(ty) + 1
    BY <1>0, <1>1
  <2> QED
    BY <1>1, <2>1 DEF Sound, TypesOK
<1>5. TypesOK(id, ty2)
  BY <1>1, <1>3, <1>4 DEF Sound, TypesOK
<1> QED
  BY <1>2, <1>5 DEF Sound, ty2

\* An identifier that is made, and may be inserted later.
LEMMA MakeIdent ==
  ASSUME NEW sc, NEW id, NEW ty, NEW ex, NEW new,
         Sound(sc, id, ty, ex), FitsHeap(new, ty), Harmless(new)
  PROVE  Sound(sc, Append(id, new), ty, ex)
<1> DEFINE id2 == Append(id, new)
<1>0. id \in Seq(Ident) /\ ty \in Seq(HeapType) /\ new \in Ident
  BY DEF Sound, IdentsOK, TypesOK, FitsHeap
<1>1. /\ id2 \in Seq(Ident) /\ Len(id2) = Len(id) + 1 /\ id2[Len(id) + 1] = new
      /\ \A i \in DOMAIN id : i \in DOMAIN id2 /\ id2[i] = id[i]
  BY <1>0, IdentsAppend
<1> HIDE DEF id2
<1>2. \A i \in DOMAIN id2 : i \in DOMAIN id \/ i = Len(id) + 1
  BY <1>0, <1>1
<1>3. IdentsOK(id2, ty)
  BY <1>1, <1>2 DEF Sound, IdentsOK, FitsHeap
<1>4. 0..Len(id) \subseteq 0..Len(id2) /\ Len(id) <= Len(id2) /\ Len(id) \in Nat /\ Len(id2) \in Nat
  BY <1>0, <1>1
<1>5. TypesOK(id2, ty)
  BY <1>4 DEF Sound, TypesOK
<1>6. ex \in [Names -> 0..Len(id2)]
  BY <1>4 DEF Sound
<1>7. ScopesOK(sc, id2)
  <2>1. sc \in Seq(ScopeOver(Len(id2)))
    BY <1>4, ScopesWider DEF Sound, ScopesOK
  <2>2. ASSUME NEW n \in Names, sc[1].map[n] # Nothing PROVE id2[sc[1].map[n]].name = n
    <3>1. sc[1] \in ScopeOver(Len(id))
      BY DEF Sound, ScopesOK
    <3>2. sc[1].map[n] \in 0..Len(id)
      BY <3>1 DEF ScopeOver
    <3>3. sc[1].map[n] \in DOMAIN id
      BY <1>0, <2>2, <3>2 DEF Nothing
    <3> QED
      BY <1>1, <2>2, <3>3 DEF Sound, ScopesOK
  <2> QED
    BY <2>1, <2>2 DEF Sound, ScopesOK
<1>8. LinkedOK(sc, id2)
  <2>1. ASSUME NEW i \in DOMAIN id PROVE HarmlessAt(i, sc, id2)
    BY <1>1 DEF Sound, LinkedOK, HarmlessAt, AtFileScope
  <2>2. HarmlessAt(Len(id) + 1, sc, id2)
    BY <1>1 DEF Harmless, HarmlessAt
  <2> QED
    BY <1>2, <2>1, <2>2 DEF LinkedOK
<1> QED
  BY <1>3, <1>5, <1>6, <1>7, <1>8 DEF Sound, id2

\* Inserting a name changes the innermost scope only.
LEMMA InsertFacts ==
  ASSUME NEW m \in Nat, NEW sc \in Seq(ScopeOver(m)), Len(sc) >= 1, NEW n \in Names, NEW i \in 0..m
  PROVE  /\ Insert(sc, n, i) \in Seq(ScopeOver(m))
         /\ Len(Insert(sc, n, i)) = Len(sc)
         /\ \A k \in DOMAIN sc : Insert(sc, n, i)[k].type = sc[k].type
         /\ Len(sc) > 1 => Insert(sc, n, i)[1] = sc[1]
         /\ Len(sc) = 1 => \A a \in Names : Insert(sc, n, i)[1].map[a] = IF a = n THEN i ELSE sc[1].map[a]
<1> DEFINE l == Len(sc)
           top == [sc[l] EXCEPT !.map[n] = i]
           sc2 == [sc EXCEPT ![l] = top]
<1>1. l \in DOMAIN sc /\ sc[l] \in ScopeOver(m)
  OBVIOUS
<1>2. top \in ScopeOver(m) /\ top.type = sc[l].type
      /\ \A a \in Names : top.map[a] = IF a = n THEN i ELSE sc[l].map[a]
  BY <1>1 DEF ScopeOver
<1>3. Insert(sc, n, i) = sc2
  BY <1>1 DEF Insert
<1> HIDE DEF top
<1>4. sc2 \in Seq(ScopeOver(m)) /\ Len(sc2) = l
      /\ \A k \in DOMAIN sc : sc2[k] = IF k = l THEN top ELSE sc[k]
  BY <1>1, <1>2
<1>5. 1 \in DOMAIN sc
  OBVIOUS
<1> HIDE DEF sc2
<1> QED
  BY <1>2, <1>3, <1>4, <1>5

(* An identifier is inserted into the current scope, which has none of its *)
(* name.  In a block it is harmless.                                       *)
LEMMA InsertIdent ==
  ASSUME NEW sc, NEW id, NEW ty, NEW ex, NEW new, NEW n \in Names,
         Sound(sc, id, ty, ex), FitsHeap(new, ty), new.name = n,
         FindInCurScope(sc, n) = Nothing,
         Len(sc) = 1 \/ Harmless(new)
  PROVE  /\ Sound(Insert(sc, n, Len(id) + 1), Append(id, new), ty, ex)
         /\ FileGrows(sc, Insert(sc, n, Len(id) + 1))
<1> DEFINE id2 == Append(id, new)
           at == Len(id) + 1
           sc2 == Insert(sc, n, at)
<1>0. id \in Seq(Ident) /\ ty \in Seq(HeapType) /\ new \in Ident
  BY DEF Sound, IdentsOK, TypesOK, FitsHeap
<1>1. /\ id2 \in Seq(Ident) /\ Len(id2) = Len(id) + 1 /\ id2[Len(id) + 1] = new
      /\ \A i \in DOMAIN id : i \in DOMAIN id2 /\ id2[i] = id[i]
  BY <1>0, IdentsAppend
<1> HIDE DEF id2
<1>2. \A i \in DOMAIN id2 : i \in DOMAIN id \/ i = Len(id) + 1
  BY <1>0, <1>1
<1>3. IdentsOK(id2, ty)
  BY <1>1, <1>2 DEF Sound, IdentsOK, FitsHeap
<1>4. /\ 0..Len(id) \subseteq 0..Len(id2) /\ Len(id) <= Len(id2)
      /\ Len(id) \in Nat /\ Len(id2) \in Nat /\ at \in 0..Len(id2)
  BY <1>0, <1>1
<1>5. TypesOK(id2, ty)
  BY <1>4 DEF Sound, TypesOK
<1>6. ex \in [Names -> 0..Len(id2)]
  BY <1>4 DEF Sound
<1>7. sc \in Seq(ScopeOver(Len(id2))) /\ Len(sc) >= 1 /\ sc \in Seq(ScopeOver(Len(id)))
  BY <1>4, ScopesWider DEF Sound, ScopesOK
<1>8. /\ sc2 \in Seq(ScopeOver(Len(id2)))
      /\ Len(sc2) = Len(sc)
      /\ \A k \in DOMAIN sc : sc2[k].type = sc[k].type
      /\ Len(sc) > 1 => sc2[1] = sc[1]
      /\ Len(sc) = 1 => \A a \in Names : sc2[1].map[a] = IF a = n THEN at ELSE sc[1].map[a]
  BY <1>4, <1>7, InsertFacts
<1> HIDE DEF sc2
<1>9. Len(sc) = 1 => sc[1].map[n] = Nothing
  BY DEF FindInCurScope, Current
<1>10. FileGrows(sc, sc2)
  BY <1>7, <1>8, <1>9 DEF FileGrows
<1>11. ASSUME NEW a \in Names, sc[1].map[a] # Nothing PROVE sc[1].map[a] \in DOMAIN id
  <2>1. sc[1] \in ScopeOver(Len(id))
    BY <1>7
  <2>2. sc[1].map[a] \in 0..Len(id)
    BY <2>1 DEF ScopeOver
  <2> QED
    BY <1>0, <1>11, <2>2 DEF Nothing
<1>12. ASSUME NEW a \in Names, sc2[1].map[a] # Nothing PROVE id2[sc2[1].map[a]].name = a
  <2>1. CASE sc2[1].map[a] = sc[1].map[a]
    BY <1>1, <1>11, <1>12, <2>1 DEF Sound, ScopesOK
  <2>2. CASE sc2[1].map[a] # sc[1].map[a]
    <3>1. Len(sc) = 1 /\ a = n /\ sc2[1].map[a] = at
      BY <1>7, <1>8, <2>2
    <3> QED
      BY <1>1, <3>1
  <2> QED
    BY <2>1, <2>2
<1>13. ScopesOK(sc2, id2)
  BY <1>7, <1>8, <1>12, SMTT(30) DEF Sound, ScopesOK
<1>14. ASSUME NEW i \in DOMAIN id PROVE HarmlessAt(i, sc2, id2)
  <2>1. id2[i] = id[i] /\ HarmlessAt(i, sc, id) /\ i # Nothing
    BY <1>0, <1>1 DEF Sound, LinkedOK, Nothing
  <2>2. AtFileScope(i, sc, id) => AtFileScope(i, sc2, id2)
    BY <1>10, <2>1 DEF AtFileScope, FileGrows
  <2> QED
    BY <2>1, <2>2 DEF HarmlessAt
<1>15. HarmlessAt(at, sc2, id2)
  <2>1. CASE Harmless(new)
    BY <1>1, <2>1 DEF Harmless, HarmlessAt
  <2>2. CASE Len(sc) = 1
    BY <1>1, <1>8, <2>2 DEF HarmlessAt, AtFileScope
  <2> QED
    BY <2>1, <2>2
<1>16. LinkedOK(sc2, id2)
  BY <1>2, <1>14, <1>15 DEF LinkedOK
<1> QED
  BY <1>3, <1>5, <1>6, <1>10, <1>13, <1>16 DEF Sound, id2, sc2

(* A type that is changed keeps its shape.                                 *)
LEMMA ChangeType ==
  ASSUME NEW sc, NEW id, NEW ty, NEW ex, NEW t \in DOMAIN ty, NEW new,
         Sound(sc, id, ty, ex), new \in HeapType,
         new.shape = ty[t].shape, ty[t].complete => new.complete,
         new.params \in 0..Len(id)
  PROVE  /\ Sound(sc, id, [ty EXCEPT ![t] = new], ex)
         /\ TypesGrow(ty, [ty EXCEPT ![t] = new])
<1> DEFINE ty2 == [ty EXCEPT ![t] = new]
<1>0. ty \in Seq(HeapType) /\ Len(ty) >= 1
  BY DEF Sound, TypesOK
<1>1. /\ ty2 \in Seq(HeapType) /\ Len(ty2) = Len(ty) /\ DOMAIN ty2 = DOMAIN ty
      /\ \A s \in DOMAIN ty : ty2[s] = IF s = t THEN new ELSE ty[s]
  BY <1>0
<1> HIDE DEF ty2
<1>2. \A s \in DOMAIN ty : /\ ty2[s].shape = ty[s].shape
                           /\ ty[s].complete => ty2[s].complete
                           /\ ty2[s].params \in 0..Len(id)
  BY <1>1 DEF Sound, TypesOK
<1>3. 1 \in DOMAIN ty
  BY <1>0
<1>4. TypesOK(id, ty2)
  BY <1>0, <1>1, <1>2, <1>3 DEF Sound, TypesOK, IsFunction
<1>5. IdentsOK(id, ty2)
  BY <1>1, <1>2 DEF Sound, IdentsOK, IsFunction
<1>6. TypesGrow(ty, ty2)
  BY <1>0, <1>1, <1>2 DEF TypesGrow
<1> QED
  BY <1>4, <1>5, <1>6 DEF Sound, ty2

(* An identifier that is changed remains harmless, where it is in a block. *)
LEMMA ChangeIdent ==
  ASSUME NEW sc, NEW id, NEW ty, NEW ex, NEW i \in DOMAIN id, NEW new,
         Sound(sc, id, ty, ex), new \in Ident,
         SameIdent(new, id[i]), AtFileScope(i, sc, id) \/ Harmless(new)
  PROVE  /\ Sound(sc, [id EXCEPT ![i] = new], ty, ex)
         /\ IdentsGrow(id, [id EXCEPT ![i] = new])
<1> DEFINE id2 == [id EXCEPT ![i] = new]
<1>0. id \in Seq(Ident)
  BY DEF Sound, IdentsOK
<1>1. /\ id2 \in Seq(Ident) /\ Len(id2) = Len(id) /\ DOMAIN id2 = DOMAIN id
      /\ \A j \in DOMAIN id : id2[j] = IF j = i THEN new ELSE id[j]
  BY <1>0
<1> HIDE DEF id2
<1>2. \A j \in DOMAIN id : SameIdent(id2[j], id[j])
  BY <1>1 DEF SameIdent
<1>3. IdentsOK(id2, ty)
  BY <1>1, <1>2 DEF Sound, IdentsOK, SameIdent
<1>4. TypesOK(id2, ty)
  BY <1>1 DEF Sound, TypesOK
<1>5. ScopesOK(sc, id2)
  <2>1. ASSUME NEW n \in Names, sc[1].map[n] # Nothing PROVE id2[sc[1].map[n]].name = n
    <3>1. sc[1] \in ScopeOver(Len(id))
      BY DEF Sound, ScopesOK
    <3>2. sc[1].map[n] \in 0..Len(id)
      BY <3>1 DEF ScopeOver
    <3>3. sc[1].map[n] \in DOMAIN id
      BY <1>0, <2>1, <3>2 DEF Nothing
    <3> QED
      BY <1>2, <2>1, <3>3 DEF Sound, ScopesOK, SameIdent
  <2> QED
    BY <1>1, <2>1 DEF Sound, ScopesOK
<1>6. LinkedOK(sc, id2)
  <2> SUFFICES ASSUME NEW j \in DOMAIN id PROVE HarmlessAt(j, sc, id2)
    BY <1>1 DEF LinkedOK
  <2>1. AtFileScope(j, sc, id) => AtFileScope(j, sc, id2)
    BY <1>2 DEF AtFileScope, SameIdent
  <2>2. CASE j = i
    BY <1>1, <2>1, <2>2 DEF HarmlessAt, Harmless
  <2>3. CASE j # i
    BY <1>1, <2>1, <2>3 DEF HarmlessAt, Sound, LinkedOK
  <2> QED
    BY <2>2, <2>3
<1>7. IdentsGrow(id, id2)
  BY <1>0, <1>1, <1>2 DEF IdentsGrow
<1> QED
  BY <1>1, <1>3, <1>4, <1>5, <1>6, <1>7 DEF Sound, id2

-----------------------------------------------------------------------------
\* A set of numbers below a bound has a greatest.
LEMMA Greatest ==
  ASSUME NEW n \in Nat, NEW S \in SUBSET (1..n), S # {}
  PROVE  Max(S) \in S
<1> DEFINE Less == {ss \in Nat \X Nat : ss[1] < ss[2]}
           Below == {k \in Nat : n - k \in S}
<1>1. IsWellFoundedOn(Less, Nat)
  BY NatLessThanWellFounded, Zenon DEF OpToRel
<1>2. Below # {} /\ Below \subseteq Nat
  <2>1. PICK x \in S : TRUE
    OBVIOUS
  <2>2. n - x \in Nat /\ n - (n - x) = x
    OBVIOUS
  <2> QED
    BY <2>1, <2>2
<1> HIDE DEF Less
<1>3. PICK k \in Below : \A j \in Below : ~(<<j, k>> \in Less)
  BY <1>1, <1>2, WFMin, Zenon
<1>4. \A j \in Below : ~(j < k)
  BY <1>2, <1>3 DEF Less
<1>5. n - k \in S /\ k \in Nat
  OBVIOUS
<1>6. ASSUME NEW y \in S PROVE n - k >= y
  <2>1. n - y \in Nat /\ n - (n - y) = y
    OBVIOUS
  <2>2. n - y \in Below
    BY <2>1
  <2>3. ~(n - y < k)
    BY <1>4, <2>2
  <2> QED
    BY <1>5, <2>1, <2>3
<1> HIDE DEF Below
<1>7. \E m \in S : \A y \in S : m >= y
  BY <1>5, <1>6
<1> QED
  BY <1>7 DEF Max

\* A name that is looked up denotes an identifier, or nothing.
LEMMA FindTyped ==
  ASSUME NEW m \in Nat, NEW sc \in Seq(ScopeOver(m)), NEW n \in Names
  PROVE  Find(sc, n) \in 0..m
<1>1. CASE Holders(sc, n) = {}
  BY <1>1 DEF Find, Nothing
<1>2. CASE Holders(sc, n) # {}
  <2>1. Holders(sc, n) \in SUBSET (1..Len(sc)) /\ Len(sc) \in Nat
    BY DEF Holders
  <2> DEFINE H == Holders(sc, n)
             l == Len(sc)
  <2>a. H \in SUBSET (1..l) /\ l \in Nat /\ H # {}
    BY <1>2, <2>1
  <2> HIDE DEF H, l
  <2>b. Max(H) \in H
    BY <2>a, Greatest
  <2>2. Max(Holders(sc, n)) \in DOMAIN sc
    BY <2>1, <2>b DEF H
  <2>3. sc[Max(Holders(sc, n))] \in ScopeOver(m)
    BY <2>2
  <2> QED
    BY <1>2, <2>3 DEF Find, ScopeOver
<1> QED
  BY <1>1, <1>2

\* The same in the innermost scope.
LEMMA CurrentTyped ==
  ASSUME NEW m \in Nat, NEW sc \in Seq(ScopeOver(m)), Len(sc) >= 1, NEW n \in Names
  PROVE  FindInCurScope(sc, n) \in 0..m
<1>1. sc[Len(sc)] \in ScopeOver(m)
  OBVIOUS
<1> QED
  BY <1>1 DEF FindInCurScope, Current, ScopeOver
-----------------------------------------------------------------------------
(* A declaration and its type.                                             *)
Soundly == Sound(scopes, idents, types, external)

TypeKnown(d) == d.type \in Names => Find(scopes, d.type) # Nothing

\* What the invariant says of the types of the variables.
LEMMA Typed ==
  ASSUME Soundly
  PROVE  /\ idents \in Seq(Ident) /\ types \in Seq(HeapType) /\ Len(idents) \in Nat
         /\ scopes \in Seq(ScopeOver(Len(idents))) /\ Len(scopes) >= 1 /\ Len(scopes) \in Nat
         /\ external \in [Names -> 0..Len(idents)]
         /\ \A i \in DOMAIN idents : idents[i] \in Ident /\ idents[i].type \in DOMAIN types
         /\ \A i \in 0..Len(idents) : i # Nothing => i \in DOMAIN idents
         /\ AtFile <=> Len(scopes) = 1
<1>1. /\ idents \in Seq(Ident) /\ types \in Seq(HeapType)
      /\ scopes \in Seq(ScopeOver(Len(idents))) /\ Len(scopes) >= 1
      /\ external \in [Names -> 0..Len(idents)]
      /\ \A i \in DOMAIN idents : idents[i] \in Ident /\ idents[i].type \in DOMAIN types
  BY DEF Soundly, Sound, IdentsOK, TypesOK, ScopesOK
<1>2. AtFile <=> Len(scopes) = 1
  <2>1. Len(scopes) \in DOMAIN scopes
    BY <1>1
  <2> QED
    BY <2>1 DEF Soundly, Sound, ScopesOK, AtFile, Current
<1> QED
  BY <1>1, <1>2 DEF Nothing

\* A name that is visible denotes an identifier that was made.
LEMMA Visible ==
  ASSUME Soundly, NEW n \in Names
  PROVE  /\ Find(scopes, n) \in 0..Len(idents)
         /\ Find(scopes, n) # Nothing => Find(scopes, n) \in DOMAIN idents
         /\ FindInCurScope(scopes, n) \in 0..Len(idents)
         /\ FindInCurScope(scopes, n) # Nothing => FindInCurScope(scopes, n) \in DOMAIN idents
<1> DEFINE m == Len(idents)
<1>1. m \in Nat /\ scopes \in Seq(ScopeOver(m)) /\ Len(scopes) >= 1
  BY Typed
<1> HIDE DEF m
<1>2. Find(scopes, n) \in 0..m /\ FindInCurScope(scopes, n) \in 0..m
  BY <1>1, FindTyped, CurrentTyped
<1> QED
  BY <1>2, Typed DEF m

\* The type is one of the heap, or made.
OneMore(d, param) ==
  \E new \in HeapType :
    /\ new.params \in {param, Nothing}
    /\ Heap(d, param) = Append(types, new)
    /\ TypeOf(d) = Len(types) + 1

\* A declaration makes a type, or has one that is there.
LEMMA HeapFacts ==
  ASSUME Soundly, NEW d \in Declarator, TypeKnown(d), NEW param \in Nat
  PROVE  \/ Heap(d, param) = types /\ TypeOf(d) \in DOMAIN types
         \/ OneMore(d, param)
<1>1. types \in Seq(HeapType) /\ Len(types) >= 1 /\ Nothing \in Nat
  BY Typed DEF Soundly, Sound, TypesOK, Nothing
<1>2. d.type \in {"int", "int[]", "int[2]", "int(int)"} \cup Names
  BY DEF Declarator, Ordinary
<1>3. \A new \in HeapType : types \o <<new>> = Append(types, new)
  BY <1>1
<1>4. CASE d.type = "int"
  <2>1. d.type \notin Names
    BY <1>4, NamesAreIdentifiers
  <2>2. Fresh(d, param) = << >> /\ TypeOf(d) = 1
    BY <1>4, <2>1 DEF Fresh, TypeOf, IntType
  <2> QED
    BY <1>1, <2>2 DEF Heap
<1>5. CASE d.type = "int[]"
  <2>1. d.type \notin Names
    BY <1>5, NamesAreIdentifiers
  <2>2. Fresh(d, param) = <<ArrayType(-1)>> /\ TypeOf(d) = Len(types) + 1
    BY <1>5, <2>1 DEF Fresh, TypeOf
  <2>3. ArrayType(-1) \in HeapType /\ ArrayType(-1).params = Nothing
    BY DEF ArrayType, HeapType, Nothing
  <2> QED
    BY <1>3, <2>2, <2>3 DEF Heap, OneMore
<1>6. CASE d.type = "int[2]"
  <2>1. d.type \notin Names
    BY <1>6, NamesAreIdentifiers
  <2>2. Fresh(d, param) = <<ArrayType(2)>> /\ TypeOf(d) = Len(types) + 1
    BY <1>6, <2>1 DEF Fresh, TypeOf
  <2>3. ArrayType(2) \in HeapType /\ ArrayType(2).params = Nothing
    BY DEF ArrayType, HeapType, Nothing
  <2> QED
    BY <1>3, <2>2, <2>3 DEF Heap, OneMore
<1>7. CASE d.type = "int(int)"
  <2>1. d.type \notin Names
    BY <1>7, NamesAreIdentifiers
  <2>2. Fresh(d, param) = <<FuncType(param)>> /\ TypeOf(d) = Len(types) + 1
    BY <1>7, <2>1 DEF Fresh, TypeOf
  <2>3. FuncType(param) \in HeapType /\ FuncType(param).params = param
    BY DEF FuncType, HeapType
  <2> QED
    BY <1>3, <2>2, <2>3 DEF Heap, OneMore
<1>8. CASE d.type \in Names
  <2>1. d.type \notin {"int", "int[]", "int[2]", "int(int)"}
    BY <1>8, NamesAreIdentifiers
  <2>2. Find(scopes, d.type) \in DOMAIN idents
    BY <1>8, Visible DEF TypeKnown
  <2>3. NamedType(d) \in DOMAIN types
    BY <2>2, Typed DEF NamedType
  <2>4. CASE Copied(NamedType(d))
    <3> DEFINE new == ArrayType(types[NamedType(d)].len)
    <3>1. Fresh(d, param) = <<new>> /\ TypeOf(d) = Len(types) + 1
      BY <1>8, <2>1, <2>4 DEF Fresh, TypeOf
    <3>2. types[NamedType(d)] \in HeapType
      BY <1>1, <2>3
    <3>3. new \in HeapType /\ new.params = Nothing
      BY <3>2 DEF ArrayType, HeapType, Nothing
    <3> QED
      BY <1>3, <3>1, <3>3 DEF Heap, OneMore
  <2>5. CASE ~Copied(NamedType(d))
    <3>1. Fresh(d, param) = << >> /\ TypeOf(d) = NamedType(d)
      BY <1>8, <2>1, <2>5 DEF Fresh, TypeOf
    <3> QED
      BY <1>1, <2>3, <3>1 DEF Heap
  <2> QED
    BY <2>4, <2>5
<1> QED
  BY <1>2, <1>4, <1>5, <1>6, <1>7, <1>8

\* A parameter is harmless.
LEMMA PoolFacts ==
  ASSUME Soundly, NEW d \in Declarator
  PROVE  /\ Sound(scopes, Pool(d), types, external)
         /\ IdentsGrow(idents, Pool(d))
         /\ \A i \in DOMAIN idents : i \in DOMAIN Pool(d) /\ Pool(d)[i] = idents[i]
         /\ Param(d) \in 0..Len(Pool(d))
         /\ Len(Pool(d)) \in Nat /\ Len(Pool(d)) >= Len(idents)
<1> DEFINE new == IntIdent("object", d.param)
<1>1. idents \in Seq(Ident)
  BY Typed
<1>2. CASE HasParam(d)
  <2>1. Pool(d) = Append(idents, new) /\ Param(d) = Len(idents) + 1
    BY <1>2 DEF Pool, Param
  <2>2. d.param \in Names \cup {NoName}
    BY DEF Declarator, Ordinary
  <2>3. new \in Ident
    BY <2>2 DEF IntIdent, Ident, Linkages, IntType
  <2>4. FitsHeap(new, types)
    BY <2>3 DEF FitsHeap, IntIdent, IntType, Soundly, Sound, TypesOK
  <2>5. Harmless(new)
    BY DEF Harmless, IntIdent
  <2> HIDE DEF new
  <2>6. Sound(scopes, Append(idents, new), types, external)
    BY <2>4, <2>5, MakeIdent DEF Soundly
  <2>7. /\ IdentsGrow(idents, Append(idents, new))
        /\ Len(Append(idents, new)) = Len(idents) + 1
        /\ \A i \in DOMAIN idents : i \in DOMAIN Append(idents, new) /\ Append(idents, new)[i] = idents[i]
    BY <1>1, <2>3, IdentsAppend
  <2> QED
    BY <1>1, <2>1, <2>6, <2>7
<1>3. CASE ~HasParam(d)
  <2>1. Pool(d) = idents /\ Param(d) = 0
    BY <1>3 DEF Pool, Param, Nothing
  <2> QED
    BY <1>1, <2>1, Reflexive, SMTT(30) DEF Soundly
<1> QED
  BY <1>2, <1>3

\* The heap with the declaration's type on it.
LEMMA HeapForFacts ==
  ASSUME Soundly, NEW d \in Declarator, TypeKnown(d)
  PROVE  /\ Sound(scopes, Pool(d), HeapFor(d), external)
         /\ TypesGrow(types, HeapFor(d))
         /\ \A t \in DOMAIN types : t \in DOMAIN HeapFor(d) /\ HeapFor(d)[t] = types[t]
         /\ TypeOf(d) \in DOMAIN HeapFor(d)
<1>1. /\ Sound(scopes, Pool(d), types, external)
      /\ Param(d) \in 0..Len(Pool(d)) /\ Len(Pool(d)) \in Nat
  BY PoolFacts
<1>2. types \in Seq(HeapType) /\ Param(d) \in Nat
  BY <1>1, Typed
<1>3. CASE HeapFor(d) = types /\ TypeOf(d) \in DOMAIN types
  BY <1>1, <1>2, <1>3, Reflexive
<1>4. CASE OneMore(d, Param(d))
  <2>1. PICK new \in HeapType :
          /\ new.params \in {Param(d), Nothing}
          /\ HeapFor(d) = Append(types, new)
          /\ TypeOf(d) = Len(types) + 1
    BY <1>4 DEF OneMore, HeapFor
  <2>2. new.params \in 0..Len(Pool(d))
    BY <1>1, <2>1 DEF Nothing
  <2>3. Sound(scopes, Pool(d), Append(types, new), external)
    BY <1>1, <2>2, MakeType
  <2>4. /\ TypesGrow(types, Append(types, new))
        /\ Append(types, new) \in Seq(HeapType)
        /\ Len(Append(types, new)) = Len(types) + 1
        /\ \A t \in DOMAIN types : t \in DOMAIN Append(types, new) /\ Append(types, new)[t] = types[t]
    BY <1>2, TypesAppend
  <2>5. Len(types) + 1 \in DOMAIN Append(types, new)
    BY <1>2, <2>4
  <2> QED
    BY <2>1, <2>3, <2>4, <2>5
<1> QED
  BY <1>2, <1>3, <1>4, HeapFacts DEF HeapFor
-----------------------------------------------------------------------------
(* A new identifier: in a block it has linkage only if it is declared      *)
(* extern, or is a function.                                               *)
LEMMA NewIdentFacts ==
  ASSUME Soundly, NEW d \in Declarator, TypeKnown(d)
  PROVE  /\ FitsHeap(NewIdent(d), HeapFor(d))
         /\ NewIdent(d).name = d.name /\ d.name \in Names
         /\ AtFile \/ Harmless(NewIdent(d))
         /\ IsFunction(NewType(d)) => NewIdent(d).class # "object"
<1> DEFINE object == d.storage # "typedef" /\ ~IsFunction(NewType(d))
           linkage == LinkageFound(d, NewType(d))
           new == NewIdent(d)
<1>1. /\ new.class = (IF object THEN "object" ELSE "ident")
      /\ new.name = d.name /\ new.type = TypeOf(d)
      /\ new.linkage = (IF d.storage = "typedef" THEN "none" ELSE linkage)
      /\ new.storage = (IF object THEN {d.storage} \cap {"static", "extern"} ELSE {})
      /\ new.decl = FALSE /\ new.init = FALSE
      /\ new = [class |-> new.class, name |-> new.name, type |-> new.type, linkage |-> new.linkage,
                storage |-> new.storage, decl |-> FALSE, init |-> FALSE]
  BY DEF NewIdent
<1> HIDE DEF new
<1>2. d.name \in Names
  BY DEF Declarator, Ordinary
<1>3. TypeOf(d) \in DOMAIN HeapFor(d) /\ TypeOf(d) \in Nat
  <2>1. TypeOf(d) \in DOMAIN HeapFor(d) /\ HeapFor(d) \in Seq(HeapType)
    BY HeapForFacts DEF Sound, TypesOK
  <2> QED
    BY <2>1
<1>4. LinkageAlone(d, NewType(d)) \in Linkages
  BY DEF LinkageAlone, Linkages
<1>5. linkage \in Linkages
  <2>1. CASE Find(scopes, d.name) # Nothing
    <3>1. idents[Find(scopes, d.name)] \in Ident
      BY <1>2, <2>1, Visible, Typed
    <3>2. idents[Find(scopes, d.name)].linkage \in Linkages
      BY <3>1 DEF Ident
    <3> QED
      BY <1>4, <3>2 DEF LinkageFound
  <2>2. CASE Find(scopes, d.name) = Nothing
    BY <1>4, <2>2 DEF LinkageFound
  <2> QED
    BY <2>1, <2>2
<1>6. new \in Ident
  BY <1>1, <1>2, <1>3, <1>5 DEF Ident, Linkages
<1>7. FitsHeap(new, HeapFor(d))
  BY <1>1, <1>3, <1>6 DEF FitsHeap, NewType
<1>8. ASSUME ~AtFile PROVE Harmless(new)
  <2> SUFFICES ASSUME new.class = "object", new.linkage # "none" PROVE Useless(new)
    BY DEF Harmless
  <2>1. object /\ linkage # "none"
    BY <1>1
  <2>2. LinkageAlone(d, NewType(d)) # "none"
    BY <2>1 DEF LinkageFound
  <2>3. d.storage = "extern"
    BY <1>8, <2>1, <2>2 DEF LinkageAlone
  <2> QED
    BY <1>1, <2>1, <2>3 DEF Useless
<1> QED
  BY <1>1, <1>2, <1>7, <1>8 DEF new

\* A declaration that is processed, and its identifier.
ProcessedOK(p, d) ==
  /\ p = [at |-> p.at, idents |-> p.idents, types |-> p.types, scopes |-> p.scopes, external |-> p.external]
  /\ Sound(p.scopes, p.idents, p.types, p.external)
  /\ p.at \in DOMAIN p.idents
  /\ IdentsGrow(idents, p.idents)
  /\ TypesGrow(types, p.types)
  /\ FileGrows(scopes, p.scopes)
  /\ Len(p.scopes) = Len(scopes)
  /\ AtFile => AtFileScope(p.at, p.scopes, p.idents)
  /\ IsFunction(NewType(d)) => p.idents[p.at].class # "object"

\* The types of T have the parameters they had.
SameParams(ty, ty2, T) == \A t \in T : ty2[t].params = ty[t].params

\* The first declaration of its scope.
LEMMA InsertedOK ==
  ASSUME Soundly, NEW d \in Declarator, TypeKnown(d), Prior(d) = Nothing
  PROVE  ProcessedOK(Inserted(d), d) /\ SameParams(types, Inserted(d).types, DOMAIN types)
<1> DEFINE at == Len(Pool(d)) + 1
           new == NewIdent(d)
           past == Searches(d) /\ Find(scopes, d.name) = Nothing /\ external[d.name] # Nothing
           id2 == Append(Pool(d), new)
           ty2 == IF past THEN CompletedBy(HeapFor(d), external[d.name], d) ELSE HeapFor(d)
           sc2 == Insert(scopes, d.name, at)
           ex2 == IF Registers(d) THEN [external EXCEPT ![d.name] = at] ELSE external
           p == Inserted(d)
<1>1. p = [at |-> at, idents |-> id2, types |-> ty2, scopes |-> sc2, external |-> ex2]
  BY DEF Inserted
<1>2. /\ FitsHeap(new, HeapFor(d)) /\ new.name = d.name /\ d.name \in Names
      /\ AtFile \/ Harmless(new)
      /\ IsFunction(NewType(d)) => new.class # "object"
  BY NewIdentFacts
<1>3. /\ Sound(scopes, Pool(d), HeapFor(d), external)
      /\ TypesGrow(types, HeapFor(d))
      /\ \A t \in DOMAIN types : t \in DOMAIN HeapFor(d) /\ HeapFor(d)[t] = types[t]
      /\ TypeOf(d) \in DOMAIN HeapFor(d)
  BY HeapForFacts
<1>4. /\ IdentsGrow(idents, Pool(d))
      /\ \A i \in DOMAIN idents : i \in DOMAIN Pool(d) /\ Pool(d)[i] = idents[i]
      /\ Len(Pool(d)) \in Nat /\ Len(Pool(d)) >= Len(idents)
  BY PoolFacts
<1>5. AtFile <=> Len(scopes) = 1
  BY Typed
<1>6. FindInCurScope(scopes, d.name) = Nothing
  BY DEF Prior
<1> HIDE DEF new
<1>7. Sound(sc2, id2, HeapFor(d), external) /\ FileGrows(scopes, sc2)
  BY <1>2, <1>3, <1>5, <1>6, InsertIdent
<1>8. /\ Pool(d) \in Seq(Ident) /\ idents \in Seq(Ident) /\ new \in Ident /\ HeapFor(d) \in Seq(HeapType)
      /\ types \in Seq(HeapType) /\ external \in [Names -> 0..Len(idents)]
  BY <1>2, <1>3, Typed DEF Sound, IdentsOK, TypesOK, FitsHeap
<1>9. id2 \in Seq(Ident) /\ IdentsGrow(Pool(d), id2) /\ Len(id2) = at /\ id2[at] = new
  BY <1>8, IdentsAppend
<1> HIDE DEF id2
<1>10. IdentsGrow(idents, id2)
  BY <1>4, <1>8, <1>9, IdentsGrowOn
<1> HIDE DEF sc2
<1>11. /\ Sound(sc2, id2, ty2, external) /\ TypesGrow(types, ty2)
       /\ SameParams(types, ty2, DOMAIN types)
  <2>1. CASE ~past
    BY <1>3, <1>7, <2>1 DEF SameParams
  <2>2. CASE past
    <3> DEFINE i == external[d.name]
               t == idents[i].type
               h == HeapFor(d)
               c == [h[t] EXCEPT !.complete = @ \/ NewType(d).complete]
    <3>1. i \in DOMAIN idents
      BY <1>2, <1>8, <2>2, Typed
    <3>2. t \in DOMAIN types
      BY <3>1, Typed
    <3>3. t \in DOMAIN h /\ h[t] \in HeapType /\ h[TypeOf(d)] \in HeapType
      BY <1>3, <1>8, <3>2
    <3>4. c \in HeapType /\ c.shape = h[t].shape /\ (h[t].complete => c.complete) /\ c.params = h[t].params
      BY <3>3 DEF HeapType, NewType
    <3>5. c.params \in 0..Len(id2)
      BY <1>7, <3>3, <3>4 DEF Sound, TypesOK
    <3>6. ty2 = [h EXCEPT ![t] = c]
      BY <2>2 DEF CompletedBy
    <3> HIDE DEF t, c, h
    <3>7. Sound(sc2, id2, [h EXCEPT ![t] = c], external) /\ TypesGrow(h, [h EXCEPT ![t] = c])
      BY <1>7, <3>3, <3>4, <3>5, ChangeType DEF h
    <3>8. ty2 \in Seq(HeapType) /\ h \in Seq(HeapType) /\ TypesGrow(types, h)
      BY <1>3, <1>8, <3>6, <3>7 DEF h, Sound, TypesOK
    <3>9. \A s \in DOMAIN types : ty2[s].params = h[s].params
      BY <1>3, <1>8, <3>4, <3>6 DEF h
    <3>10. SameParams(types, ty2, DOMAIN types)
      BY <1>3, <3>9 DEF SameParams, h
    <3> QED
      BY <1>8, <3>6, <3>7, <3>8, <3>10, TypesGrowOn
  <2> QED
    BY <2>1, <2>2
<1> HIDE DEF ty2
<1>12. ex2 \in [Names -> 0..Len(id2)]
  <2>1. at \in 0..Len(id2) /\ external \in [Names -> 0..Len(id2)]
    BY <1>4, <1>7, <1>9 DEF Sound
  <2> QED
    BY <1>2, <2>1
<1> HIDE DEF ex2
<1>13. Sound(sc2, id2, ty2, ex2)
  BY <1>11, <1>12 DEF Sound
<1>14. at \in DOMAIN id2
  BY <1>4, <1>9
<1>15. scopes \in Seq(ScopeOver(at)) /\ Len(scopes) >= 1 /\ at \in Nat
  <2>1. scopes \in Seq(ScopeOver(Len(idents))) /\ Len(idents) \in Nat /\ at \in Nat /\ Len(idents) <= at
    BY <1>4, Typed
  <2> QED
    BY <2>1, ScopesWider, Typed
<1>16. Len(sc2) = Len(scopes)
       /\ (Len(scopes) = 1 => \A a \in Names : sc2[1].map[a] = IF a = d.name THEN at ELSE scopes[1].map[a])
  BY <1>2, <1>15, InsertFacts DEF sc2
<1>17. AtFile => AtFileScope(at, sc2, id2)
  BY <1>2, <1>5, <1>9, <1>16 DEF AtFileScope
<1> HIDE DEF p, at
<1>18. p.at = at /\ p.idents = id2 /\ p.types = ty2 /\ p.scopes = sc2 /\ p.external = ex2
  BY <1>1
<1>19. ProcessedOK(p, d)
  BY <1>1, <1>2, <1>7, <1>9, <1>10, <1>11, <1>13, <1>14, <1>16, <1>17, <1>18 DEF ProcessedOK
<1> QED
  BY <1>11, <1>18, <1>19 DEF p

\* What is found in the file's scope is there.
LEMMA PriorFacts ==
  ASSUME Soundly, NEW d \in Declarator, Prior(d) # Nothing
  PROVE  /\ Prior(d) \in DOMAIN idents
         /\ idents[Prior(d)] \in Ident
         /\ idents[Prior(d)].type \in DOMAIN types
         /\ AtFile => AtFileScope(Prior(d), scopes, idents)
<1>1. d.name \in Names
  BY DEF Declarator, Ordinary
<1>2. Prior(d) \in DOMAIN idents
  BY <1>1, Visible DEF Prior
<1>3. ASSUME AtFile PROVE AtFileScope(Prior(d), scopes, idents)
  <2>1. Prior(d) = scopes[1].map[d.name]
    BY <1>3, Typed DEF Prior, FindInCurScope, Current
  <2>2. idents[Prior(d)].name = d.name
    BY <1>1, <2>1 DEF Soundly, Sound, ScopesOK
  <2> QED
    BY <1>1, <2>1, <2>2 DEF AtFileScope
<1> QED
  BY <1>2, <1>3, Typed

\* A declaration is merged with one of its kind.
LEMMA PriorFits ==
  ASSUME Soundly, NEW d \in Declarator, TypeKnown(d), Prior(d) # Nothing, ~Refused(d, NewType(d))
  PROVE  /\ NewType(d).shape = types[idents[Prior(d)].type].shape
         /\ IsFunction(NewType(d)) => idents[Prior(d)].class # "object"
<1>1. Compatible(NewType(d), types[idents[Prior(d)].type])
  <2>1. ~ConflictsWith(Prior(d), NewType(d))
    BY DEF Refused
  <2> QED
    BY <2>1 DEF ConflictsWith
<1>2. NewType(d).shape = types[idents[Prior(d)].type].shape
  BY <1>1 DEF Compatible
<1> QED
  BY <1>2, PriorFacts DEF IsFunction, Soundly, Sound, IdentsOK

(* In a block it is merged with an object that is extern only if it is     *)
(* extern itself.                                                          *)
LEMMA DefinedFacts ==
  ASSUME Soundly, NEW d \in Declarator, TypeKnown(d), Prior(d) # Nothing,
         d.storage # "typedef", ~Refused(d, NewType(d))
  PROVE  /\ Defined(Prior(d), d) \in Ident
         /\ SameIdent(Defined(Prior(d), d), idents[Prior(d)])
         /\ AtFileScope(Prior(d), scopes, idents) \/ Harmless(Defined(Prior(d), d))
<1> DEFINE i == Prior(d)
           old == idents[i]
           new == Defined(i, d)
<1>1. /\ i \in DOMAIN idents /\ old \in Ident
      /\ AtFile => AtFileScope(i, scopes, idents)
      /\ IsFunction(NewType(d)) => old.class # "object"
  BY PriorFacts, PriorFits
<1> HIDE DEF i
<1>2. new = IF d.storage = "extern" THEN old ELSE [old EXCEPT !.storage = @ \ {"extern"}]
  BY DEF Defined
<1>3. new \in Ident /\ SameIdent(new, old)
  BY <1>1, <1>2 DEF Ident, SameIdent
<1>4. Mergeable(LinkageAlone(d, NewType(d)), i)
  BY DEF Refused, i
<1>5. ASSUME ~AtFileScope(i, scopes, idents) PROVE Harmless(new)
  <2>1. ~AtFile
    BY <1>1, <1>5
  <2>2. CASE d.storage = "extern"
    <3>1. HarmlessAt(i, scopes, idents)
      BY <1>1 DEF Soundly, Sound, LinkedOK
    <3> QED
      BY <1>2, <1>5, <2>2, <3>1 DEF HarmlessAt, Harmless
  <2>3. CASE d.storage # "extern"
    <3>1. LinkageAlone(d, NewType(d)) # "none"
      BY <1>4 DEF Mergeable
    <3>2. IsFunction(NewType(d))
      BY <2>1, <2>3, <3>1 DEF LinkageAlone
    <3> QED
      BY <1>1, <1>3, <3>2 DEF Harmless, SameIdent
  <2> QED
    BY <2>2, <2>3
<1> QED
  BY <1>3, <1>5 DEF i

\* A declaration of what its scope has; a function's parameters become the new ones.
LEMMA MergedOK ==
  ASSUME Soundly, NEW d \in Declarator, TypeKnown(d), Prior(d) # Nothing,
         d.storage # "typedef", ~Refused(d, NewType(d))
  PROVE  /\ ProcessedOK(Merged(d), d)
         /\ SameParams(types, Merged(d).types, DOMAIN types \ {idents[Prior(d)].type})
         /\ IF IsFunction(NewType(d))
              THEN Merged(d).types[idents[Prior(d)].type].params = NewType(d).params
              ELSE SameParams(types, Merged(d).types, {idents[Prior(d)].type})
<1> DEFINE i == Prior(d)
           t == idents[i].type
           h == HeapFor(d)
           n == NewType(d)
           new == Defined(i, d)
           id2 == [Pool(d) EXCEPT ![i] = new]
           c == [h[t] EXCEPT !.complete = @ \/ n.complete]
           h2 == [h EXCEPT ![t] = c]
           c2 == IF IsFunction(n) THEN [c EXCEPT !.params = n.params] ELSE c
           ty2 == WithParams(CompletedBy(h, i, d), i, d)
           p == Merged(d)
<1>1. p = [at |-> i, idents |-> id2, types |-> ty2, scopes |-> scopes, external |-> external]
  BY DEF Merged
<1>2. /\ Sound(scopes, Pool(d), h, external)
      /\ TypesGrow(types, h)
      /\ \A s \in DOMAIN types : s \in DOMAIN h /\ h[s] = types[s]
      /\ TypeOf(d) \in DOMAIN h
  BY HeapForFacts
<1>3. /\ IdentsGrow(idents, Pool(d))
      /\ \A j \in DOMAIN idents : j \in DOMAIN Pool(d) /\ Pool(d)[j] = idents[j]
      /\ Len(Pool(d)) \in Nat
  BY PoolFacts
<1>4. /\ i \in DOMAIN idents /\ t \in DOMAIN types
      /\ AtFile => AtFileScope(i, scopes, idents)
      /\ IsFunction(n) => idents[i].class # "object"
  BY PriorFacts, PriorFits
<1>5. new \in Ident /\ SameIdent(new, idents[i]) /\ (AtFileScope(i, scopes, idents) \/ Harmless(new))
  BY DefinedFacts
<1>6. i \in DOMAIN Pool(d) /\ Pool(d)[i] = idents[i]
  BY <1>3, <1>4
<1>7. AtFileScope(i, scopes, Pool(d)) <=> AtFileScope(i, scopes, idents)
  BY <1>6 DEF AtFileScope
<1>8. h \in Seq(HeapType) /\ types \in Seq(HeapType) /\ Pool(d) \in Seq(Ident) /\ idents \in Seq(Ident)
  BY <1>2, Typed DEF Sound, IdentsOK, TypesOK
<1> HIDE DEF i, t, h, n, new
<1>9. Sound(scopes, id2, h, external) /\ IdentsGrow(Pool(d), id2)
  BY <1>2, <1>5, <1>6, <1>7, ChangeIdent
<1>10. id2 \in Seq(Ident) /\ Len(id2) = Len(Pool(d)) /\ id2[i] = new /\ DOMAIN id2 = DOMAIN Pool(d)
  BY <1>5, <1>6, <1>8
<1> HIDE DEF id2
<1>11. IdentsGrow(idents, id2)
  BY <1>3, <1>8, <1>9, <1>10, IdentsGrowOn
<1>12. t \in DOMAIN h /\ h[t] \in HeapType /\ n \in HeapType /\ h[t] = types[t]
       /\ n.params \in 0..Len(id2) /\ h[t].params \in 0..Len(id2)
  <2>1. t \in DOMAIN h /\ h[t] \in HeapType /\ n \in HeapType /\ h[t] = types[t]
    BY <1>2, <1>4, <1>8 DEF n, NewType, h
  <2>2. n.params \in 0..Len(id2) /\ h[t].params \in 0..Len(id2)
    BY <1>2, <1>9, <2>1 DEF Sound, TypesOK, n, NewType, h
  <2> QED
    BY <2>1, <2>2
<1>13. c \in HeapType /\ c.shape = h[t].shape /\ (h[t].complete => c.complete) /\ c.params = h[t].params
  BY <1>12 DEF HeapType
<1>14. c2 \in HeapType /\ c2.shape = h[t].shape /\ (h[t].complete => c2.complete)
       /\ c2.params = IF IsFunction(n) THEN n.params ELSE h[t].params
  BY <1>12, <1>13 DEF HeapType
<1>15. ty2 = [h EXCEPT ![t] = c2]
  <2>1. CompletedBy(h, i, d) = h2
    BY DEF CompletedBy, t, n
  <2>2. h2[t] = c
    BY <1>12
  <2>3. WithParams(h2, i, d) = IF IsFunction(n) THEN [h2 EXCEPT ![t] = [h2[t] EXCEPT !.params = n.params]] ELSE h2
    BY DEF WithParams, t, n
  <2> HIDE DEF c
  <2>4. \A z : [h2 EXCEPT ![t] = z] = [h EXCEPT ![t] = z]
    BY <1>8, <1>12
  <2> HIDE DEF h2
  <2>5. CASE IsFunction(n)
    BY <2>1, <2>2, <2>3, <2>4, <2>5
  <2>6. CASE ~IsFunction(n)
    BY <2>1, <2>3, <2>6 DEF h2
  <2> QED
    BY <2>5, <2>6
<1> HIDE DEF c, c2, ty2
<1>16. Sound(scopes, id2, ty2, external) /\ TypesGrow(h, ty2)
  <2>1. c2.params \in 0..Len(id2)
    BY <1>12, <1>14
  <2> QED
    BY <1>9, <1>12, <1>14, <1>15, <2>1, ChangeType
<1>17. TypesGrow(types, ty2)
  <2>1. ty2 \in Seq(HeapType)
    BY <1>16 DEF Sound, TypesOK
  <2>2. TypesGrow(types, h)
    BY <1>2 DEF h
  <2> QED
    BY <1>8, <1>16, <2>1, <2>2, TypesGrowOn
<1>18. \A s \in DOMAIN h : ty2[s] = IF s = t THEN c2 ELSE h[s]
  BY <1>8, <1>12, <1>14, <1>15
<1>19. AtFile => AtFileScope(i, scopes, id2)
  BY <1>4, <1>5, <1>10 DEF AtFileScope, SameIdent
<1>20. IsFunction(n) => id2[i].class # "object"
  BY <1>4, <1>5, <1>10 DEF SameIdent
<1>21. FileGrows(scopes, scopes)
  BY Reflexive
<1> HIDE DEF p
<1>22. p.at = i /\ p.idents = id2 /\ p.types = ty2 /\ p.scopes = scopes /\ p.external = external
  BY <1>1
<1>23. ProcessedOK(p, d)
  BY <1>1, <1>6, <1>10, <1>11, <1>16, <1>17, <1>19, <1>20, <1>21, <1>22 DEF ProcessedOK, n
<1>24. SameParams(types, ty2, DOMAIN types \ {t})
  BY <1>2, <1>18 DEF SameParams, h
<1>25. ty2[t].params = IF IsFunction(n) THEN n.params ELSE types[t].params
  BY <1>12, <1>14, <1>18
<1> QED
  BY <1>22, <1>23, <1>24, <1>25 DEF p, t, n, i, SameParams

\* A typedef of a name that is declared leaves the declaration as it is.
LEMMA IgnoredOK ==
  ASSUME Soundly, NEW d \in Declarator, TypeKnown(d), Prior(d) # Nothing,
         d.storage = "typedef", ~Refused(d, NewType(d)),
         NEW p, p = [at |-> Prior(d), idents |-> Pool(d), types |-> HeapFor(d),
                     scopes |-> scopes, external |-> external]
  PROVE  ProcessedOK(p, d) /\ SameParams(types, p.types, DOMAIN types)
<1> DEFINE i == Prior(d)
<1>1. /\ Sound(scopes, Pool(d), HeapFor(d), external)
      /\ TypesGrow(types, HeapFor(d))
      /\ \A s \in DOMAIN types : s \in DOMAIN HeapFor(d) /\ HeapFor(d)[s] = types[s]
  BY HeapForFacts
<1>2. /\ IdentsGrow(idents, Pool(d))
      /\ \A j \in DOMAIN idents : j \in DOMAIN Pool(d) /\ Pool(d)[j] = idents[j]
  BY PoolFacts
<1>3. /\ i \in DOMAIN idents
      /\ AtFile => AtFileScope(i, scopes, idents)
      /\ IsFunction(NewType(d)) => idents[i].class # "object"
  BY PriorFacts, PriorFits
<1> HIDE DEF i
<1>4. i \in DOMAIN Pool(d) /\ Pool(d)[i] = idents[i]
  BY <1>2, <1>3
<1>5. AtFile => AtFileScope(i, scopes, Pool(d))
  BY <1>3, <1>4 DEF AtFileScope
<1>6. FileGrows(scopes, scopes)
  BY Reflexive
<1>7. p.at = i /\ p.idents = Pool(d) /\ p.types = HeapFor(d) /\ p.scopes = scopes /\ p.external = external
      /\ p = [at |-> p.at, idents |-> p.idents, types |-> p.types, scopes |-> p.scopes, external |-> p.external]
  BY DEF i
<1>8. ProcessedOK(p, d)
  BY <1>1, <1>2, <1>3, <1>4, <1>5, <1>6, <1>7 DEF ProcessedOK
<1>9. SameParams(types, HeapFor(d), DOMAIN types)
  BY <1>1 DEF SameParams
<1> QED
  BY <1>7, <1>8, <1>9

\* ProcessDeclarator, whichever way it ends.
LEMMA ProcessedFacts ==
  ASSUME Soundly, NEW d \in Declarator, TypeKnown(d), ~Refused(d, NewType(d))
  PROVE  ProcessedOK(Processed(d), d)
<1>1. CASE Prior(d) = Nothing
  BY <1>1, InsertedOK DEF Processed
<1>2. CASE Prior(d) # Nothing /\ d.storage = "typedef"
  BY <1>2, IgnoredOK DEF Processed
<1>3. CASE Prior(d) # Nothing /\ d.storage # "typedef"
  BY <1>3, MergedOK DEF Processed
<1> QED
  BY <1>1, <1>2, <1>3

-----------------------------------------------------------------------------
(* ParseInitDeclarator.                                                    *)
LEMMA WithDeclFacts ==
  ASSUME NEW sc, NEW id, NEW ty, NEW ex, NEW at \in DOMAIN id, NEW init \in BOOLEAN, NEW p,
         p = [at |-> at, idents |-> id, types |-> ty, scopes |-> sc, external |-> ex],
         Sound(sc, id, ty, ex),
         AtFileScope(at, sc, id) \/ id[at].linkage = "none" \/ ~init
  PROVE  /\ WithDecl(p, init).scopes = sc /\ WithDecl(p, init).types = ty /\ WithDecl(p, init).external = ex
         /\ Sound(sc, WithDecl(p, init).idents, ty, ex)
         /\ IdentsGrow(id, WithDecl(p, init).idents)
         /\ WithDecl(p, init).idents[at].decl
<1> DEFINE new == Recorded(id[at], init)
           id3 == [id EXCEPT ![at] = new]
<1>1. id \in Seq(Ident) /\ id[at] \in Ident
  BY DEF Sound, IdentsOK
<1>2. new \in Ident /\ SameIdent(new, id[at]) /\ new.decl
      /\ new.init = (id[at].init \/ init) /\ new.storage = id[at].storage
  BY <1>1 DEF Ident, SameIdent, Recorded
<1>3. AtFileScope(at, sc, id) \/ Harmless(new)
  <2>1. CASE AtFileScope(at, sc, id)
    BY <2>1
  <2>2. CASE id[at].linkage = "none"
    BY <1>2, <2>2 DEF Harmless, SameIdent
  <2>3. CASE ~init
    <3>1. HarmlessAt(at, sc, id)
      BY DEF Sound, LinkedOK
    <3>2. id[at].init \in BOOLEAN
      BY <1>1 DEF Ident
    <3> QED
      BY <1>2, <2>3, <3>1, <3>2 DEF Harmless, HarmlessAt, Useless, SameIdent
  <2> QED
    BY <2>1, <2>2, <2>3
<1>5. WithDecl(p, init) = [at |-> at, idents |-> id3, types |-> ty, scopes |-> sc, external |-> ex]
  BY DEF WithDecl
<1> HIDE DEF new
<1>6. Sound(sc, id3, ty, ex) /\ IdentsGrow(id, id3)
  BY <1>2, <1>3, ChangeIdent
<1>7. id3[at].decl
  BY <1>1, <1>2
<1> HIDE DEF id3
<1> QED
  BY <1>5, <1>6, <1>7

\* An initializer gives an array its length.
LEMMA SizedFacts ==
  ASSUME NEW sc, NEW id, NEW ty, NEW ex, NEW at \in DOMAIN id, NEW p,
         p = [at |-> at, idents |-> id, types |-> ty, scopes |-> sc, external |-> ex],
         Sound(sc, id, ty, ex)
  PROVE  \E ty2 :
           /\ Sized(p) = [at |-> at, idents |-> id, types |-> ty2, scopes |-> sc, external |-> ex]
           /\ Sound(sc, id, ty2, ex)
           /\ TypesGrow(ty, ty2)
           /\ SameParams(ty, ty2, DOMAIN ty)
<1> DEFINE t == id[at].type
           new == [ty[t] EXCEPT !.len = 2, !.complete = TRUE]
           ty1 == [ty EXCEPT ![t].len = 2]
           ty2 == [ty1 EXCEPT ![t].complete = TRUE]
           ty3 == [ty EXCEPT ![t] = new]
<1>1. ty \in Seq(HeapType) /\ t \in DOMAIN ty /\ ty[t] \in HeapType /\ ty[t].params \in 0..Len(id)
  BY DEF Sound, IdentsOK, TypesOK
<1>2. CASE ty[t].shape = "array" /\ ~ty[t].complete
  <2>1. Sized(p) = [at |-> at, idents |-> id, types |-> ty2, scopes |-> sc, external |-> ex]
    BY <1>2 DEF Sized
  <2>2. new \in HeapType /\ new.shape = ty[t].shape /\ new.complete /\ new.params = ty[t].params
    BY <1>1 DEF HeapType
  <2>3. ty2 = ty3
    <3> DEFINE one == [ty[t] EXCEPT !.len = 2]
               two == [one EXCEPT !.complete = TRUE]
    <3>1. two = new
      BY <1>1 DEF HeapType
    <3> HIDE DEF t
    <3>2. ty1[t] = one /\ ty1 = [ty EXCEPT ![t] = one]
      BY <1>1
    <3>3. ty2 = [ty1 EXCEPT ![t] = two]
      BY <3>2
    <3> HIDE DEF one, two, new
    <3>4. \A y, z : [[ty EXCEPT ![t] = y] EXCEPT ![t] = z] = [ty EXCEPT ![t] = z]
      BY <1>1
    <3> HIDE DEF ty1, ty2
    <3> QED
      BY <3>1, <3>2, <3>3, <3>4
  <2> HIDE DEF t, new, ty1, ty2
  <2>4. Sound(sc, id, ty3, ex) /\ TypesGrow(ty, ty3)
    BY <1>1, <2>2, ChangeType
  <2>5. \A s \in DOMAIN ty : ty3[s] = IF s = t THEN new ELSE ty[s]
    BY <1>1
  <2> HIDE DEF ty3
  <2>6. SameParams(ty, ty3, DOMAIN ty)
    BY <2>2, <2>5 DEF SameParams
  <2> QED
    BY <2>1, <2>3, <2>4, <2>6
<1>3. CASE ~(ty[t].shape = "array" /\ ~ty[t].complete)
  <2>1. Sized(p) = p
    BY <1>3 DEF Sized
  <2>2. TypesGrow(ty, ty) /\ SameParams(ty, ty, DOMAIN ty)
    BY <1>1, Reflexive DEF SameParams
  <2> QED
    BY <2>1, <2>2
<1> QED
  BY <1>2, <1>3
-----------------------------------------------------------------------------
(* What a step has to do for the invariant.                                *)
LEMMA BodyKept ==
  ASSUME NEW sc, NEW id, NEW ty, NEW ex, NEW sc2, NEW id2, NEW ty2, NEW ex2, NEW b, NEW u,
         Sound(sc, id, ty, ex), Sound(sc2, id2, ty2, ex2),
         IdentsGrow(id, id2), TypesGrow(ty, ty2), FileGrows(sc, sc2),
         Len(sc2) = Len(sc) \/ (Len(sc) # 1 /\ Len(sc2) # 1),
         BodyOK(b, u, sc, id, ty)
  PROVE  BodyOK(b, u, sc2, id2, ty2)
<1>1. CASE Len(sc) = 1
  BY <1>1 DEF BodyOK
<1>2. CASE Len(sc) # 1
  <2>1. FunctionOK(b.ident, sc, id, ty) /\ \A k \in DOMAIN u : u[k].ident # b.ident
    BY <1>2 DEF BodyOK
  <2>2. FunctionOK(b.ident, sc2, id2, ty2)
    BY <2>1, FunctionKept
  <2> QED
    BY <1>2, <2>1, <2>2 DEF BodyOK
<1> QED
  BY <1>1, <1>2

\* The values grow, and the unit and the body are as they were.
LEMMA GrowKeeps ==
  ASSUME NEW sc2, NEW id2, NEW ty2, NEW ex2, IInv, Sound(sc2, id2, ty2, ex2),
         IdentsGrow(idents, id2), TypesGrow(types, ty2), FileGrows(scopes, sc2),
         Len(sc2) = Len(scopes) \/ (Len(scopes) # 1 /\ Len(sc2) # 1)
  PROVE  UnitOK(unit, sc2, id2, ty2) /\ BodyOK(body, unit, sc2, id2, ty2)
BY UnitKept, BodyKept DEF IInv

\* What ParseInitDeclarator leaves of what was processed, with a Declaration.
DeclaredOK(p, r, d) ==
  /\ Sound(r.scopes, r.idents, r.types, r.external)
  /\ IdentsGrow(p.idents, r.idents) /\ TypesGrow(p.types, r.types)
  /\ r.scopes = p.scopes
  /\ p.at \in DOMAIN r.idents /\ r.idents[p.at].decl
  /\ SameParams(p.types, r.types, DOMAIN p.types)

\* What ParseInitDeclarator leaves of what ProcessDeclarator did.
LEMMA DeclaredFacts ==
  ASSUME Soundly, NEW d \in Declarator, NEW p, ProcessedOK(p, d), ~InitRefused(p, d)
  PROVE  DeclaredOK(p, WithDecl(IF d.init THEN Sized(p) ELSE p, d.init), d)
<1> DEFINE at == p.at
           id == p.idents
           ty == p.types
           sc == p.scopes
           ex == p.external
           q == IF d.init THEN Sized(p) ELSE p
           r == WithDecl(q, d.init)
<1>1. /\ p = [at |-> at, idents |-> id, types |-> ty, scopes |-> sc, external |-> ex]
      /\ Sound(sc, id, ty, ex) /\ at \in DOMAIN id
      /\ AtFile => AtFileScope(at, sc, id)
  BY DEF ProcessedOK
<1>2. d.init \in BOOLEAN
  BY DEF Declarator, Ordinary
<1>3. d.init => AtFile \/ id[at].linkage = "none"
  BY DEF InitRefused
<1> HIDE DEF at, id, ty, sc, ex
<1>4. ty \in Seq(HeapType) /\ id \in Seq(Ident)
  BY <1>1 DEF Sound, IdentsOK, TypesOK
<1>5. PICK ty2 :
        /\ q = [at |-> at, idents |-> id, types |-> ty2, scopes |-> sc, external |-> ex]
        /\ Sound(sc, id, ty2, ex)
        /\ TypesGrow(ty, ty2)
        /\ SameParams(ty, ty2, DOMAIN ty)
  <2>1. CASE d.init
    BY <1>1, <2>1, SizedFacts
  <2>2. CASE ~d.init
    <3>1. TypesGrow(ty, ty) /\ SameParams(ty, ty, DOMAIN ty)
      BY <1>4, Reflexive DEF SameParams
    <3> QED
      BY <1>1, <2>2, <3>1
  <2> QED
    BY <2>1, <2>2
<1> HIDE DEF q
<1>6. AtFileScope(at, sc, id) \/ id[at].linkage = "none" \/ ~d.init
  BY <1>1, <1>3
<1>7. /\ r.scopes = sc /\ r.types = ty2 /\ r.external = ex
      /\ Sound(sc, r.idents, ty2, ex) /\ IdentsGrow(id, r.idents) /\ r.idents[at].decl
  BY <1>1, <1>2, <1>5, <1>6, WithDeclFacts
<1>8. at \in DOMAIN r.idents
  <2>1. r.idents \in Seq(Ident) /\ Len(r.idents) >= Len(id)
    BY <1>7 DEF Sound, IdentsOK, IdentsGrow
  <2> QED
    BY <1>1, <1>4, <2>1
<1> HIDE DEF r
<1>9. DeclaredOK(p, r, d)
  BY <1>5, <1>7, <1>8 DEF DeclaredOK, at, id, ty, sc, ex
<1> QED
  BY <1>9 DEF r, q

\* A declaration that is not refused.
Accepts(d) ==
  /\ d \in Declarator /\ TypeKnown(d)
  /\ ~Refused(d, NewType(d)) /\ ~InitRefused(Processed(d), d)
  /\ InitDeclarator(Processed(d), d)

\* A Declaration is made once, for an identifier that was not in the unit.
LEMMA InitDeclaratorKeeps ==
  ASSUME IInv, NEW d \in Declarator, Accepts(d), body' = body
  PROVE  IInv'
<1> DEFINE p == Processed(d)
           ident == p.idents[p.at]
           declares == ident.class = "object" /\ (d.init \/ p.types[ident.type].complete)
           q == IF d.init THEN Sized(p) ELSE p
           r == WithDecl(q, d.init)
<1>1. Soundly /\ UnitOK(unit, scopes, idents, types) /\ BodyOK(body, unit, scopes, idents, types)
  BY DEF IInv, Soundly
<1>2. ProcessedOK(p, d)
  BY <1>1, ProcessedFacts DEF Accepts
<1>3. DeclaredOK(p, r, d)
  BY <1>1, <1>2, DeclaredFacts DEF Accepts
<1>4. /\ Commit(IF declares THEN r ELSE p)
      /\ unit' = IF declares /\ ~ident.decl THEN Append(unit, DeclarationOf(p)) ELSE unit
  BY DEF Accepts, InitDeclarator
<1> HIDE DEF p, r, q
<1>5. /\ Sound(p.scopes, p.idents, p.types, p.external)
      /\ IdentsGrow(idents, p.idents) /\ TypesGrow(types, p.types) /\ FileGrows(scopes, p.scopes)
      /\ Len(p.scopes) = Len(scopes) /\ p.at \in DOMAIN p.idents
  BY <1>2 DEF ProcessedOK
<1>6. UnitOK(unit, p.scopes, p.idents, p.types) /\ BodyOK(body, unit, p.scopes, p.idents, p.types)
  BY <1>5, GrowKeeps
<1>7. CASE ~declares
  <2>1. scopes' = p.scopes /\ idents' = p.idents /\ types' = p.types /\ external' = p.external /\ unit' = unit
    BY <1>4, <1>7 DEF Commit
  <2> QED
    BY <1>5, <1>6, <2>1 DEF IInv
<1>8. CASE declares
  <2>1. scopes' = r.scopes /\ idents' = r.idents /\ types' = r.types /\ external' = r.external
    BY <1>4, <1>8 DEF Commit
  <2>2. /\ Sound(r.scopes, r.idents, r.types, r.external)
        /\ IdentsGrow(p.idents, r.idents) /\ TypesGrow(p.types, r.types) /\ r.scopes = p.scopes
        /\ p.at \in DOMAIN r.idents /\ r.idents[p.at].decl
    BY <1>3 DEF DeclaredOK
  <2>3. FileGrows(p.scopes, r.scopes)
    BY <2>2, Reflexive
  <2>4. UnitOK(unit, r.scopes, r.idents, r.types)
    BY <1>5, <1>6, <2>2, <2>3, UnitKept
  <2>5. BodyOK(body, unit, r.scopes, r.idents, r.types)
    BY <1>5, <1>6, <2>2, <2>3, BodyKept
  <2>6. CASE ident.decl
    <3>1. unit' = unit
      BY <1>4, <2>6
    <3> QED
      BY <2>1, <2>2, <2>4, <2>5, <3>1 DEF IInv
  <2>7. CASE ~ident.decl
    <3> DEFINE e == DeclarationOf(p)
    <3>1. unit' = Append(unit, e) /\ e.what = "declaration" /\ e.ident = p.at
      BY <1>4, <1>8, <2>7 DEF DeclarationOf
    <3>2. r.idents[p.at].class = "object"
      BY <1>5, <1>8, <2>2 DEF IdentsGrow, SameIdent
    <3>3. EntryOK(e, r.scopes, r.idents, r.types)
      BY <2>2, <3>1, <3>2 DEF EntryOK, DeclarationOK
    <3>4. ASSUME NEW k \in DOMAIN unit PROVE unit[k].ident # p.at
      <4>1. EntryOK(unit[k], p.scopes, p.idents, p.types)
        BY <1>6 DEF UnitOK
      <4> QED
        BY <1>8, <2>7, <4>1 DEF EntryOK, DeclarationOK, FunctionOK
    <3> HIDE DEF e
    <3>5. UnitOK(unit', r.scopes, r.idents, r.types)
      BY <2>4, <3>1, <3>3, <3>4, UnitAppend
    <3>6. BodyOK(body, unit', r.scopes, r.idents, r.types)
      <4>1. CASE Len(r.scopes) = 1
        BY <2>5, <4>1 DEF BodyOK
      <4>2. CASE Len(r.scopes) # 1
        <5>1. /\ FunctionOK(body.ident, r.scopes, r.idents, r.types)
              /\ \A k \in DOMAIN unit : unit[k].ident # body.ident
          BY <2>5, <4>2 DEF BodyOK
        <5>2. p.at # body.ident
          BY <3>2, <5>1 DEF FunctionOK
        <5>3. PICK S : unit \in Seq(S)
          BY <1>1 DEF UnitOK
        <5> DEFINE R == S \cup {e}
        <5>4. unit \in Seq(R) /\ e \in R
          BY <5>3
        <5> HIDE DEF R
        <5>5. \A k \in DOMAIN Append(unit, e) :
                 (k \in DOMAIN unit /\ Append(unit, e)[k] = unit[k]) \/ Append(unit, e)[k] = e
          BY <5>4
        <5>6. \A k \in DOMAIN unit' : unit'[k].ident # body.ident
          BY <3>1, <5>1, <5>2, <5>5
        <5> QED
          BY <4>2, <5>1, <5>6 DEF BodyOK
      <4> QED
        BY <4>1, <4>2
    <3> QED
      BY <2>1, <2>2, <3>5, <3>6 DEF IInv
  <2> QED
    BY <2>6, <2>7
<1> QED
  BY <1>7, <1>8

\* An error changes nothing that is looked at again.
LEMMA ErrorKeeps ==
  ASSUME IInv, Error
  PROVE  IInv'
BY DEF IInv, Error

\* A name that is found is declared, but a typedef's is never Nothing.
LEMMA DeclareKeeps ==
  ASSUME IInv, NEW d \in Inputs, Declare(d)
  PROVE  IInv'
<1>1. d \in Declarator
  BY InputsAreDeclarators
<1>2. TypeKnown(d)
  BY DEF Declare, TypeKnown, IsTypeName
<1>3. CASE Error
  BY <1>3, ErrorKeeps
<1>4. CASE ~(Refused(d, NewType(d)) \/ InitRefused(Processed(d), d))
  <2>1. Accepts(d) /\ body' = body
    BY <1>1, <1>2, <1>4 DEF Declare, Accepts
  <2> QED
    BY <1>1, <2>1, InitDeclaratorKeeps
<1> QED
  BY <1>3, <1>4 DEF Declare

\* An enumerator is an identifier without linkage.
LEMMA EnumerateKeeps ==
  ASSUME IInv, NEW d \in Inputs, Enumerate(d)
  PROVE  IInv'
<1> DEFINE new == IntIdent("enumerator", d.name)
           id2 == Append(idents, new)
           sc2 == Insert(scopes, d.name, Len(idents) + 1)
<1>1. d \in Declarator /\ d.name \in Names
  BY InputsAreDeclarators DEF Declarator, Ordinary
<1>2. CASE Error
  BY <1>2, ErrorKeeps
<1>3. CASE Prior(d) = Nothing
  <2>1. Soundly
    BY DEF IInv, Soundly
  <2>2. /\ idents' = id2 /\ scopes' = sc2
        /\ types' = types /\ external' = external /\ unit' = unit /\ body' = body
    BY <1>3 DEF Enumerate
  <2>3. new \in Ident /\ new.name = d.name /\ new.class = "enumerator" /\ new.type = 1
    BY <1>1 DEF IntIdent, Ident, Linkages, IntType
  <2>4. FitsHeap(new, types) /\ Harmless(new)
    BY <2>1, <2>3 DEF FitsHeap, Harmless, Soundly, Sound, TypesOK
  <2> HIDE DEF new
  <2>5. Sound(sc2, id2, types, external) /\ FileGrows(scopes, sc2)
    BY <1>1, <1>3, <2>1, <2>3, <2>4, InsertIdent DEF Soundly, Prior
  <2>6. IdentsGrow(idents, id2) /\ TypesGrow(types, types)
    BY <2>1, <2>3, Typed, IdentsAppend, Reflexive
  <2>7. Len(sc2) = Len(scopes)
    <3>1. idents \in Seq(Ident) /\ scopes \in Seq(ScopeOver(Len(idents))) /\ Len(scopes) >= 1
      BY <2>1, Typed
    <3> DEFINE m == Len(idents) + 1
    <3>2. m \in Nat /\ scopes \in Seq(ScopeOver(m)) /\ m \in 0..m
      BY <3>1, ScopesWider
    <3> HIDE DEF m
    <3>3. Len(Insert(scopes, d.name, m)) = Len(scopes)
      BY <1>1, <3>1, <3>2, InsertFacts
    <3> QED
      BY <3>3 DEF m
  <2> HIDE DEF id2, sc2
  <2>8. UnitOK(unit, sc2, id2, types) /\ BodyOK(body, unit, sc2, id2, types)
    BY <2>5, <2>6, <2>7, GrowKeeps
  <2> QED
    BY <2>2, <2>5, <2>8 DEF IInv
<1> QED
  BY <1>2, <1>3 DEF Enumerate

\* A scope is entered.
LEMMA EnterSound ==
  ASSUME NEW sc, NEW id, NEW ty, NEW ex, NEW new, Sound(sc, id, ty, ex),
         new \in ScopeOver(Len(id)), new.type = "block"
  PROVE  /\ Sound(Enter(sc, new), id, ty, ex)
         /\ FileGrows(sc, Enter(sc, new))
         /\ Len(Enter(sc, new)) = Len(sc) + 1 /\ Len(sc) \in Nat /\ Len(sc) >= 1
<1> DEFINE sc2 == Append(sc, new)
           S == ScopeOver(Len(id))
<1>1. sc \in Seq(S) /\ Len(sc) >= 1 /\ new \in S
  BY DEF Sound, ScopesOK
<1> HIDE DEF S
<1>2. /\ sc2 \in Seq(S) /\ Len(sc2) = Len(sc) + 1 /\ Len(sc) \in Nat
      /\ \A k \in DOMAIN sc2 : (k \in DOMAIN sc /\ sc2[k] = sc[k]) \/ (k = Len(sc) + 1 /\ sc2[k] = new)
      /\ sc2[1] = sc[1]
  BY <1>1
<1> HIDE DEF sc2
<1>3. \A k \in DOMAIN sc2 : sc2[k].type = "file" <=> k = 1
  BY <1>1, <1>2 DEF Sound, ScopesOK
<1>4. ScopesOK(sc2, id)
  BY <1>1, <1>2, <1>3 DEF Sound, ScopesOK, S
<1>5. LinkedOK(sc2, id)
  BY <1>2 DEF Sound, LinkedOK, HarmlessAt, AtFileScope
<1>6. FileGrows(sc, sc2)
  BY <1>2 DEF FileGrows
<1> QED
  BY <1>1, <1>2, <1>4, <1>5, <1>6 DEF Sound, Enter, sc2

\* A scope is left that is not the file's.
LEMMA ExitSound ==
  ASSUME NEW sc, NEW id, NEW ty, NEW ex, Sound(sc, id, ty, ex), Len(sc) # 1
  PROVE  /\ Sound(Exit(sc), id, ty, ex)
         /\ FileGrows(sc, Exit(sc))
         /\ Len(Exit(sc)) = Len(sc) - 1 /\ Len(sc) \in Nat /\ Len(sc) > 1
<1> DEFINE S == ScopeOver(Len(id))
           sc2 == Exit(sc)
<1>1. sc \in Seq(S) /\ Len(sc) >= 1
  BY DEF Sound, ScopesOK
<1> HIDE DEF S
<1>a. Len(sc) \in Nat /\ Len(sc) > 1 /\ Len(sc) - 1 \in 1..Len(sc)
  <2> DEFINE l == Len(sc)
  <2>1. l \in Nat /\ l >= 1
    BY <1>1
  <2>2. l # 1
    OBVIOUS
  <2> HIDE DEF l
  <2>3. l \in Nat /\ l > 1 /\ l - 1 \in 1..l
    BY <2>1, <2>2
  <2> QED
    BY <2>3 DEF l
<1>b. sc2 = SubSeq(sc, 1, Len(sc) - 1)
  BY DEF Exit
<1>2. /\ sc2 \in Seq(S) /\ Len(sc2) = Len(sc) - 1
      /\ \A k \in DOMAIN sc2 : k \in DOMAIN sc /\ sc2[k] = sc[k]
      /\ sc2[1] = sc[1]
  BY <1>1, <1>a, <1>b, SubSeqProperties
<1> HIDE DEF sc2
<1>3. \A k \in DOMAIN sc2 : sc2[k].type = "file" <=> k = 1
  BY <1>1, <1>a, <1>2 DEF Sound, ScopesOK
<1>4. ScopesOK(sc2, id)
  BY <1>1, <1>a, <1>2, <1>3 DEF Sound, ScopesOK, S
<1>5. LinkedOK(sc2, id)
  BY <1>2 DEF Sound, LinkedOK, HarmlessAt, AtFileScope
<1>6. FileGrows(sc, sc2)
  BY <1>2 DEF FileGrows
<1> QED
  BY <1>1, <1>a, <1>2, <1>4, <1>5, <1>6 DEF Sound, sc2

\* The scope of a block begins empty.
LEMMA BlockScope ==
  ASSUME NEW n \in Nat
  PROVE  NewScope("block") \in ScopeOver(n) /\ NewScope("block").type = "block"
BY DEF NewScope, ScopeOver, Nothing

\* A block in a body changes nothing but the scopes.
LEMMA EnterBlockKeeps ==
  ASSUME IInv, EnterBlock
  PROVE  IInv'
<1> DEFINE new == NewScope("block")
           sc2 == Enter(scopes, new)
<1>1. Soundly
  BY DEF IInv, Soundly
<1>2. /\ scopes' = sc2 /\ idents' = idents /\ types' = types /\ external' = external
      /\ unit' = unit /\ body' = body /\ ~AtFile
  BY DEF EnterBlock
<1>3. Len(scopes) # 1 /\ idents \in Seq(Ident) /\ types \in Seq(HeapType) /\ Len(idents) \in Nat
  BY <1>1, <1>2, Typed
<1>4. new \in ScopeOver(Len(idents)) /\ new.type = "block"
  BY <1>3, BlockScope
<1> HIDE DEF new
<1>5. Sound(sc2, idents, types, external) /\ FileGrows(scopes, sc2)
      /\ Len(sc2) = Len(scopes) + 1 /\ Len(scopes) \in Nat /\ Len(scopes) >= 1
  BY <1>1, <1>4, EnterSound DEF Soundly
<1> HIDE DEF sc2
<1>6. IdentsGrow(idents, idents) /\ TypesGrow(types, types)
  BY <1>3, Reflexive
<1>7. Len(sc2) # 1
  BY <1>3, <1>5
<1>8. UnitOK(unit, sc2, idents, types) /\ BodyOK(body, unit, sc2, idents, types)
  BY <1>3, <1>5, <1>6, <1>7, GrowKeeps
<1> QED
  BY <1>2, <1>5, <1>8 DEF IInv

\* The function goes to the unit with the end of its body.
LEMMA LeaveBlockKeeps ==
  ASSUME IInv, LeaveBlock
  PROVE  IInv'
<1> DEFINE sc2 == Exit(scopes)
           e == FunctionOf(body)
<1>1. Soundly /\ UnitOK(unit, scopes, idents, types) /\ BodyOK(body, unit, scopes, idents, types)
  BY DEF IInv, Soundly
<1>2. scopes' = sc2 /\ idents' = idents /\ types' = types /\ external' = external /\ ~AtFile
  BY DEF LeaveBlock
<1>3. Len(scopes) # 1 /\ idents \in Seq(Ident) /\ types \in Seq(HeapType)
  BY <1>1, <1>2, Typed
<1>4. Sound(sc2, idents, types, external) /\ FileGrows(scopes, sc2)
      /\ Len(sc2) = Len(scopes) - 1 /\ Len(scopes) \in Nat /\ Len(scopes) > 1
  BY <1>1, <1>3, ExitSound DEF Soundly
<1> HIDE DEF sc2
<1>5. IdentsGrow(idents, idents) /\ TypesGrow(types, types)
  BY <1>3, Reflexive
<1>6. UnitOK(unit, sc2, idents, types)
  BY <1>1, <1>4, <1>5, UnitKept DEF Soundly
<1>7. CASE Len(scopes) # 2
  <2>1. unit' = unit /\ body' = body
    BY <1>7 DEF LeaveBlock
  <2>2. Len(sc2) # 1
    BY <1>4, <1>7
  <2>3. BodyOK(body, unit, sc2, idents, types)
    BY <1>1, <1>3, <1>4, <1>5, <2>2, BodyKept DEF Soundly
  <2> QED
    BY <1>2, <1>4, <1>6, <2>1, <2>3 DEF IInv
<1>8. CASE Len(scopes) = 2
  <2>1. unit' = Append(unit, e) /\ body' = Nobody
    BY <1>8 DEF LeaveBlock
  <2>2. /\ FunctionOK(body.ident, scopes, idents, types)
        /\ \A k \in DOMAIN unit : unit[k].ident # body.ident
    BY <1>1, <1>3 DEF BodyOK
  <2>3. e.what = "function" /\ e.ident = body.ident
    BY DEF FunctionOf
  <2> HIDE DEF e
  <2>4. FunctionOK(body.ident, sc2, idents, types)
    BY <1>1, <1>4, <1>5, <2>2, FunctionKept DEF Soundly
  <2>5. EntryOK(e, sc2, idents, types)
    BY <2>3, <2>4 DEF EntryOK
  <2>6. \A k \in DOMAIN unit : unit[k].ident # e.ident
    BY <2>2, <2>3
  <2>7. UnitOK(unit', sc2, idents, types)
    BY <1>6, <2>1, <2>5, <2>6, UnitAppend
  <2>8. Len(sc2) = 1
    BY <1>4, <1>8
  <2>9. BodyOK(body', unit', sc2, idents, types)
    BY <2>1, <2>8 DEF BodyOK
  <2> QED
    BY <1>2, <1>4, <2>7, <2>9 DEF IInv
<1> QED
  BY <1>7, <1>8

(* A function that is defined has not been: its type was not complete.     *)
LEMMA DefineKeeps ==
  ASSUME IInv, NEW d \in Inputs, Define(d)
  PROVE  IInv'
<1> DEFINE p == Processed(d)
           i == p.at
           t == p.idents[i].type
           param == p.types[t].params
           q == [p EXCEPT !.types[t].complete = TRUE, !.scopes = Enter(@, BodyScope(p))]
           new == [p.types[t] EXCEPT !.complete = TRUE]
           ty2 == [p.types EXCEPT ![t] = new]
           sc2 == Enter(p.scopes, BodyScope(p))
<1>1. d \in Declarator /\ d.type = "int(int)" /\ AtFile
  BY InputsAreDeclarators DEF Define
<1>2. TypeKnown(d) /\ d.type \notin Names
  BY <1>1, NamesAreIdentifiers DEF TypeKnown
<1>3. CASE Error
  BY <1>3, ErrorKeeps
<1>4. CASE ~(Refused(d, NewType(d)) \/ p.types[t].complete \/ p.types[t].params = Nothing)
  <2>1. Commit(q) /\ body' = [ident |-> i, param |-> param] /\ unit' = unit
    BY <1>4 DEF Define
  <2>2. Soundly /\ UnitOK(unit, scopes, idents, types) /\ BodyOK(body, unit, scopes, idents, types)
    BY DEF IInv, Soundly
  <2>3. ProcessedOK(p, d)
    BY <1>1, <1>2, <1>4, <2>2, ProcessedFacts
  <2>4. IsFunction(NewType(d))
    <3>1. types \in Seq(HeapType) /\ Param(d) \in Nat
      BY <1>1, <2>2, Typed, PoolFacts
    <3>2. Fresh(d, Param(d)) = <<FuncType(Param(d))>> /\ TypeOf(d) = Len(types) + 1
      BY <1>1, <1>2 DEF Fresh, TypeOf
    <3>3. FuncType(Param(d)) \in HeapType
      BY <3>1 DEF FuncType, HeapType
    <3>4. HeapFor(d) = types \o <<FuncType(Param(d))>>
      BY <3>2 DEF HeapFor, Heap
    <3>5. HeapFor(d)[Len(types) + 1] = FuncType(Param(d))
      BY <3>1, <3>3, <3>4
    <3> QED
      BY <3>2, <3>5 DEF IsFunction, NewType, FuncType
  <2> HIDE DEF p
  <2>5. /\ p = [at |-> i, idents |-> p.idents, types |-> p.types, scopes |-> p.scopes, external |-> p.external]
        /\ Sound(p.scopes, p.idents, p.types, p.external) /\ i \in DOMAIN p.idents
        /\ IdentsGrow(idents, p.idents) /\ TypesGrow(types, p.types) /\ FileGrows(scopes, p.scopes)
        /\ Len(p.scopes) = Len(scopes)
        /\ AtFileScope(i, p.scopes, p.idents)
        /\ p.idents[i].class # "object"
    BY <1>1, <2>3, <2>4 DEF ProcessedOK
  <2>6. UnitOK(unit, p.scopes, p.idents, p.types)
    BY <2>5, GrowKeeps
  <2>7. t \in DOMAIN p.types /\ p.types[t] \in HeapType /\ param \in 0..Len(p.idents)
        /\ p.types \in Seq(HeapType) /\ p.idents \in Seq(Ident) /\ Len(p.idents) \in Nat
    <3>1. t \in DOMAIN p.types /\ p.types \in Seq(HeapType) /\ p.idents \in Seq(Ident)
      BY <2>5 DEF Sound, IdentsOK, TypesOK
    <3>2. p.types[t] \in HeapType /\ param \in 0..Len(p.idents)
      BY <2>5, <3>1 DEF Sound, TypesOK
    <3> QED
      BY <3>1, <3>2
  <2>8. /\ scopes' = sc2 /\ idents' = p.idents /\ types' = ty2 /\ external' = p.external
    <3>1. q.scopes = sc2 /\ q.idents = p.idents /\ q.types = ty2 /\ q.external = p.external
      BY <2>5
    <3> QED
      BY <2>1, <3>1 DEF Commit
  <2>9. new \in HeapType /\ new.shape = p.types[t].shape /\ new.complete /\ new.params = param
    BY <2>7 DEF HeapType
  <2>10. BodyScope(p) \in ScopeOver(Len(p.idents)) /\ BodyScope(p).type = "block"
    <3> DEFINE m == Len(p.idents)
               s == NewScope("block")
               n == p.idents[param].name
    <3>1. BodyScope(p) = [s EXCEPT !.map[n] = param]
      BY DEF BodyScope
    <3>2. s \in ScopeOver(m) /\ s.type = "block"
      BY <2>7, BlockScope
    <3>3. param \in 0..m
      BY <2>7
    <3> HIDE DEF s, n, param, m
    <3>4. [s.map EXCEPT ![n] = param] \in [Names -> 0..m]
      BY <3>2, <3>3 DEF ScopeOver
    <3>5. [s EXCEPT !.map[n] = param] \in ScopeOver(m) /\ [s EXCEPT !.map[n] = param].type = "block"
      BY <3>2, <3>4 DEF ScopeOver
    <3> QED
      BY <3>1, <3>5 DEF m
  <2> HIDE DEF new
  <2>11. Sound(p.scopes, p.idents, ty2, p.external) /\ TypesGrow(p.types, ty2)
    BY <2>5, <2>7, <2>9, ChangeType
  <2>12. ty2[t].complete
    BY <2>7, <2>9
  <2> HIDE DEF ty2
  <2>13. Sound(sc2, p.idents, ty2, p.external) /\ FileGrows(p.scopes, sc2)
         /\ Len(sc2) = Len(p.scopes) + 1
    BY <2>10, <2>11, EnterSound
  <2> HIDE DEF sc2
  <2>14. IdentsGrow(p.idents, p.idents)
    BY <2>7, Reflexive
  <2>15. UnitOK(unit, sc2, p.idents, ty2)
    BY <2>5, <2>6, <2>11, <2>13, <2>14, UnitKept
  <2>16. ASSUME NEW k \in DOMAIN unit PROVE unit[k].ident # i
    <3>1. EntryOK(unit[k], p.scopes, p.idents, p.types)
      BY <2>6 DEF UnitOK
    <3> QED
      BY <1>4, <2>5, <3>1 DEF EntryOK, DeclarationOK, FunctionOK
  <2>17. FunctionOK(i, sc2, p.idents, ty2)
    <3>1. AtFileScope(i, sc2, p.idents)
      <4>1. i # Nothing
        BY <2>5, <2>7 DEF Nothing
      <4> QED
        BY <2>5, <2>13, <4>1 DEF AtFileScope, FileGrows
    <3> QED
      BY <2>5, <2>12, <3>1 DEF FunctionOK
  <2>18. Len(sc2) # 1
    BY <1>1, <2>2, <2>5, <2>13, Typed
  <2>19. BodyOK(body', unit', sc2, p.idents, ty2)
    BY <2>1, <2>16, <2>17, <2>18 DEF BodyOK
  <2> QED
    BY <2>1, <2>8, <2>13, <2>15, <2>19 DEF IInv
<1> QED
  BY <1>3, <1>4 DEF Define

-----------------------------------------------------------------------------
\* In the beginning there is the file's scope.
LEMMA InitSound ==
  ASSUME Init
  PROVE  IInv
<1> DEFINE s == NewScope("file")
<1>1. scopes = <<s>> /\ idents = << >> /\ types = <<IntObject>> /\ unit = << >> /\ body = Nobody
      /\ external = [n \in Names |-> Nothing]
  BY DEF Init
<1>2. s \in ScopeOver(0) /\ s.type = "file" /\ \A n \in Names : s.map[n] = Nothing
  BY DEF NewScope, ScopeOver, Nothing
<1> HIDE DEF s
<1>3. idents \in Seq(Ident) /\ Len(idents) = 0 /\ DOMAIN idents = {}
  BY <1>1
<1>4. ScopesOK(scopes, idents)
  BY <1>1, <1>2, <1>3 DEF ScopesOK
<1>5. TypesOK(idents, types)
  BY <1>1, <1>3 DEF TypesOK, IntObject, HeapType, IsFunction, Nothing
<1>6. Sound(scopes, idents, types, external)
  BY <1>1, <1>3, <1>4, <1>5 DEF Sound, IdentsOK, LinkedOK, Nothing
<1>7. UnitOK(unit, scopes, idents, types)
  BY <1>1 DEF UnitOK
<1>8. BodyOK(body, unit, scopes, idents, types)
  BY <1>1 DEF BodyOK
<1> QED
  BY <1>6, <1>7, <1>8 DEF IInv

\* Every step keeps the invariant.
LEMMA NextKeeps ==
  ASSUME IInv, [Next]_vars
  PROVE  IInv'
<1>1. CASE UNCHANGED vars
  BY <1>1 DEF IInv, vars
<1>2. ASSUME NEW d \in Inputs, Declare(d) PROVE IInv'
  BY <1>2, DeclareKeeps
<1>3. ASSUME NEW d \in Inputs, Enumerate(d) PROVE IInv'
  BY <1>3, EnumerateKeeps
<1>4. ASSUME NEW d \in Inputs, Define(d) PROVE IInv'
  BY <1>4, DefineKeeps
<1>5. CASE EnterBlock
  BY <1>5, EnterBlockKeeps
<1>6. CASE LeaveBlock
  BY <1>6, LeaveBlockKeeps
<1> QED
  BY <1>1, <1>2, <1>3, <1>4, <1>5, <1>6 DEF Next

(* What is in the unit is defined or declared once, and in the file's      *)
(* scope if it has linkage; functions that are defined have complete types.*)
THEOREM Invariant == Spec => []IInv
<1>1. Init => IInv
  BY InitSound
<1>2. IInv /\ [Next]_vars => IInv'
  BY NextKeeps
<1> QED
  BY <1>1, <1>2, PTL DEF Spec

\* Of two entries with one symbol, both have linkage and the file's identifier, or the number.
LEMMA EmitsOnce ==
  ASSUME IInv
  PROVE  EmittedOnce
<1> SUFFICES ASSUME NEW k \in DOMAIN unit, NEW l \in DOMAIN unit, k # l,
                    Emits(unit[k]), Emits(unit[l]),
                    Assembly(unit[k]).symbol = Assembly(unit[l]).symbol
             PROVE  FALSE
  BY DEF EmittedOnce
<1> DEFINE i == unit[k].ident
           j == unit[l].ident
<1>1. i # j /\ EntryOK(unit[k], scopes, idents, types) /\ EntryOK(unit[l], scopes, idents, types)
  BY DEF IInv, UnitOK
<1>2. i \in DOMAIN idents /\ j \in DOMAIN idents /\ idents \in Seq(Ident)
  BY <1>1 DEF EntryOK, DeclarationOK, FunctionOK, IInv, Sound, IdentsOK
<1>3. i # Nothing /\ j # Nothing
  BY <1>2 DEF Nothing
<1>4. Repr(i) = Repr(j)
  BY DEF Assembly
<1>5. ASSUME NEW m \in DOMAIN unit, Emits(unit[m]), EntryOK(unit[m], scopes, idents, types),
             unit[m].ident \in DOMAIN idents, idents[unit[m].ident].linkage # "none"
      PROVE  AtFileScope(unit[m].ident, scopes, idents)
  <2>1. CASE unit[m].what = "function" /\ FunctionOK(unit[m].ident, scopes, idents, types)
    BY <1>5, <2>1 DEF FunctionOK
  <2>2. CASE unit[m].what = "declaration" /\ DeclarationOK(unit[m].ident, idents)
    <3>1. HarmlessAt(unit[m].ident, scopes, idents)
      BY <1>5 DEF IInv, Sound, LinkedOK
    <3>2. ~Useless(idents[unit[m].ident])
      BY <1>5, <2>2 DEF Emits, Useless
    <3> QED
      BY <1>5, <2>2, <3>1, <3>2 DEF HarmlessAt, DeclarationOK
  <2> QED
    BY <1>5, <2>1, <2>2 DEF EntryOK
<1>6. CASE idents[i].linkage = "none"
  <2>1. Repr(i).id = i
    BY <1>6 DEF Repr
  <2>2. Repr(j).id \in {j, Nothing}
    BY DEF Repr
  <2> QED
    BY <1>1, <1>3, <1>4, <2>1, <2>2
<1>7. CASE idents[j].linkage = "none"
  <2>1. Repr(j).id = j
    BY <1>7 DEF Repr
  <2>2. Repr(i).id \in {i, Nothing}
    BY DEF Repr
  <2> QED
    BY <1>1, <1>3, <1>4, <2>1, <2>2
<1>8. CASE idents[i].linkage # "none" /\ idents[j].linkage # "none"
  <2>1. AtFileScope(i, scopes, idents) /\ AtFileScope(j, scopes, idents)
    BY <1>1, <1>2, <1>5, <1>8
  <2>2. Repr(i).name = idents[i].name /\ Repr(j).name = idents[j].name
    BY DEF Repr
  <2> QED
    BY <1>1, <1>4, <2>1, <2>2 DEF AtFileScope
<1> QED
  BY <1>6, <1>7, <1>8

(* No symbol is emitted twice, whatever is declared and defined, in        *)
(* whichever scopes and in whichever order.                                *)
THEOREM EmittedOnceAlways == Spec => []EmittedOnce
<1>1. IInv => EmittedOnce
  BY EmitsOnce
<1> QED
  BY <1>1, Invariant, PTL
-----------------------------------------------------------------------------
(* The parameters of the functions that are defined are those of their     *)
(* bodies.                                                                 *)
ParamsOf(i, id, ty) == ty[id[i].type].params

ParamsOK(u, b, sc, id, ty) ==
  /\ \A k \in DOMAIN u : u[k].what = "function" => ParamsOf(u[k].ident, id, ty) = u[k].param
  /\ Len(sc) # 1 => ParamsOf(b.ident, id, ty) = b.param

ParamsInv == ParamsOK(unit, body, scopes, idents, types)

\* No prototype comes after the definition, with other parameters.
NoneLate == \A d \in Inputs : Declare(d) => ~LatePrototype(d)

\* A function that is defined is one of DefinedFunctions.
LEMMA DefinedOnes ==
  ASSUME IInv
  PROVE  /\ \A k \in DOMAIN unit : unit[k].what = "function" =>
              /\ unit[k].ident \in DefinedFunctions /\ unit[k].ident \in DOMAIN idents
              /\ idents[unit[k].ident].type \in FunctionTypes \cap DOMAIN types
              /\ types[idents[unit[k].ident].type].complete
         /\ Len(scopes) # 1 =>
              /\ body.ident \in DefinedFunctions /\ body.ident \in DOMAIN idents
              /\ idents[body.ident].type \in FunctionTypes \cap DOMAIN types
              /\ types[idents[body.ident].type].complete
<1>1. idents \in Seq(Ident) /\ \A i \in DOMAIN idents : idents[i].type \in DOMAIN types
  BY DEF IInv, Sound, IdentsOK
<1>2. ASSUME NEW k \in DOMAIN unit, unit[k].what = "function"
      PROVE  /\ unit[k].ident \in DefinedFunctions /\ unit[k].ident \in DOMAIN idents
             /\ types[idents[unit[k].ident].type].complete
  <2>1. EntryOK(unit[k], scopes, idents, types)
    BY DEF IInv, UnitOK
  <2>2. FunctionOK(unit[k].ident, scopes, idents, types)
    BY <1>2, <2>1 DEF EntryOK
  <2>3. unit[k] \in Range(unit)
    BY DEF Range
  <2> QED
    BY <1>2, <2>2, <2>3 DEF DefinedFunctions, FunctionOK
<1>3. ASSUME Len(scopes) # 1
      PROVE  /\ body.ident \in DefinedFunctions /\ body.ident \in DOMAIN idents
             /\ types[idents[body.ident].type].complete
  <2>1. FunctionOK(body.ident, scopes, idents, types)
    BY <1>3 DEF IInv, BodyOK
  <2>2. body.ident \in DOMAIN idents /\ body.ident # Nothing
    BY <1>1, <2>1 DEF FunctionOK, Nothing
  <2> QED
    BY <2>1, <2>2 DEF DefinedFunctions, FunctionOK
<1>4. \A i \in DefinedFunctions : idents[i].type \in FunctionTypes
  BY DEF FunctionTypes
<1> QED
  BY <1>1, <1>2, <1>3, <1>4

\* Types that the functions have keep their parameters.
LEMMA ParamsKept ==
  ASSUME IInv, ParamsInv, NEW id2, NEW ty2,
         IdentsGrow(idents, id2), SameParams(types, ty2, FunctionTypes)
  PROVE  ParamsOK(unit, body, scopes, id2, ty2)
<1>1. ASSUME NEW k \in DOMAIN unit, unit[k].what = "function"
      PROVE  ParamsOf(unit[k].ident, id2, ty2) = unit[k].param
  BY <1>1, DefinedOnes DEF ParamsInv, ParamsOK, ParamsOf, IdentsGrow, SameIdent, SameParams
<1>2. ASSUME Len(scopes) # 1
      PROVE  ParamsOf(body.ident, id2, ty2) = body.param
  BY <1>2, DefinedOnes DEF ParamsInv, ParamsOK, ParamsOf, IdentsGrow, SameIdent, SameParams
<1> QED
  BY <1>1, <1>2 DEF ParamsOK

\* What a declaration does to the parameters of a type.
LEMMA ProcessedParams ==
  ASSUME IInv, NEW d \in Declarator, TypeKnown(d), ~Refused(d, NewType(d)),
         Prior(d) # Nothing /\ d.storage # "typedef" /\ IsFunction(NewType(d))
           /\ idents[Prior(d)].type \in FunctionTypes
           => NewType(d).params = types[idents[Prior(d)].type].params
  PROVE  SameParams(types, Processed(d).types, FunctionTypes \cap DOMAIN types)
<1>1. Soundly
  BY DEF IInv, Soundly
<1>2. CASE Prior(d) = Nothing
  BY <1>1, <1>2, InsertedOK DEF Processed, SameParams
<1>3. CASE Prior(d) # Nothing /\ d.storage = "typedef"
  BY <1>1, <1>3, IgnoredOK DEF Processed, SameParams
<1>4. CASE Prior(d) # Nothing /\ d.storage # "typedef"
  <2> DEFINE t == idents[Prior(d)].type
             ty2 == Merged(d).types
  <2>1. Processed(d).types = ty2
    BY <1>4 DEF Processed
  <2>2. /\ SameParams(types, ty2, DOMAIN types \ {t})
        /\ IF IsFunction(NewType(d)) THEN ty2[t].params = NewType(d).params ELSE SameParams(types, ty2, {t})
    BY <1>1, <1>4, MergedOK
  <2>3. IsFunction(NewType(d)) /\ t \in FunctionTypes => NewType(d).params = types[t].params
    BY <1>4
  <2> HIDE DEF ty2, t
  <2>4. t \in FunctionTypes => ty2[t].params = types[t].params
    BY <2>2, <2>3 DEF SameParams
  <2> QED
    BY <2>1, <2>2, <2>4 DEF SameParams
<1> QED
  BY <1>2, <1>3, <1>4

\* The types of the functions that are defined are complete.
LEMMA FunctionTypesThere ==
  ASSUME IInv
  PROVE  FunctionTypes \subseteq DOMAIN types /\ \A t \in FunctionTypes : types[t].complete
<1> SUFFICES ASSUME NEW i \in DefinedFunctions
             PROVE  idents[i].type \in DOMAIN types /\ types[idents[i].type].complete
  BY DEF FunctionTypes
<1>1. CASE \E k \in DOMAIN unit : unit[k].what = "function" /\ i = unit[k].ident
  BY <1>1, DefinedOnes
<1>2. CASE i = body.ident /\ i # Nothing
  <2>1. Len(scopes) # 1
    BY <1>2 DEF IInv, BodyOK, Nobody
  <2> QED
    BY <1>2, <2>1, DefinedOnes
<1> QED
  BY <1>1, <1>2 DEF DefinedFunctions, Range

\* A declaration that is no LatePrototype.
LEMMA DeclareParams ==
  ASSUME IInv, ParamsInv, NEW d \in Inputs, Declare(d), ~LatePrototype(d)
  PROVE  ParamsInv'
<1> DEFINE p == Processed(d)
           ident == p.idents[p.at]
           declares == ident.class = "object" /\ (d.init \/ p.types[ident.type].complete)
           q == IF d.init THEN Sized(p) ELSE p
           r == WithDecl(q, d.init)
<1>1. d \in Declarator /\ TypeKnown(d) /\ d.form = "declaration" /\ Soundly
  BY InputsAreDeclarators DEF Declare, TypeKnown, IsTypeName, IInv, Soundly
<1>2. CASE Error
  BY <1>2 DEF Error, ParamsInv
<1>3. CASE ~(Refused(d, NewType(d)) \/ InitRefused(Processed(d), d))
  <2>1. /\ Commit(IF declares THEN r ELSE p) /\ body' = body
        /\ unit' = IF declares /\ ~ident.decl THEN Append(unit, DeclarationOf(p)) ELSE unit
    BY <1>3 DEF Declare, InitDeclarator
  <2>2. ProcessedOK(p, d)
    BY <1>1, <1>3, ProcessedFacts
  <2>3. DeclaredOK(p, r, d)
    BY <1>1, <1>3, <2>2, DeclaredFacts
  <2>4. Prior(d) # Nothing /\ d.storage # "typedef" /\ IsFunction(NewType(d))
          /\ idents[Prior(d)].type \in FunctionTypes
          => NewType(d).params = types[idents[Prior(d)].type].params
    <3> SUFFICES ASSUME Prior(d) # Nothing, d.storage # "typedef", IsFunction(NewType(d)),
                        idents[Prior(d)].type \in FunctionTypes
                 PROVE  NewType(d).params = types[idents[Prior(d)].type].params
      OBVIOUS
    <3>1. Own(d) = Prior(d)
      BY DEF Own, Prior, FindInCurScope
    <3>2. IsFunction(OwnType(d)) /\ OwnType(d) = types[idents[Prior(d)].type]
      BY <1>1, <1>3, <3>1, PriorFits DEF OwnType, IsFunction
    <3> QED
      BY <1>1, <3>1, <3>2 DEF LatePrototype
  <2>5. SameParams(types, p.types, FunctionTypes)
    BY <1>1, <1>3, <2>4, ProcessedParams, FunctionTypesThere DEF SameParams
  <2> HIDE DEF p, q, r
  <2>6. /\ idents \in Seq(Ident) /\ p.idents \in Seq(Ident) /\ r.idents \in Seq(Ident)
        /\ types \in Seq(HeapType) /\ p.types \in Seq(HeapType)
        /\ IdentsGrow(idents, p.idents) /\ IdentsGrow(p.idents, r.idents)
        /\ TypesGrow(types, p.types) /\ SameParams(p.types, r.types, DOMAIN p.types)
        /\ r.scopes = p.scopes /\ Len(p.scopes) = Len(scopes)
    BY <1>1, <2>2, <2>3, Typed DEF ProcessedOK, DeclaredOK, Sound, IdentsOK, TypesOK
  <2>7. IdentsGrow(idents, r.idents)
    BY <2>6, IdentsGrowOn
  <2>8. SameParams(types, r.types, FunctionTypes)
    <3>1. DOMAIN types \subseteq DOMAIN p.types
      BY <2>6 DEF TypesGrow
    <3> QED
      BY <2>5, <2>6, <3>1, FunctionTypesThere DEF SameParams
  <2>9. ParamsOK(unit, body, scopes, p.idents, p.types) /\ ParamsOK(unit, body, scopes, r.idents, r.types)
    BY <2>5, <2>6, <2>7, <2>8, ParamsKept
  <2>10. ParamsOK(unit, body, scopes, idents', types') /\ Len(scopes') = Len(scopes)
    BY <2>1, <2>6, <2>9 DEF Commit
  <2>11. ASSUME NEW k \in DOMAIN unit', unit'[k].what = "function"
         PROVE  k \in DOMAIN unit /\ unit'[k] = unit[k]
    <3>1. CASE unit' = unit
      BY <2>11, <3>1
    <3>2. CASE unit' = Append(unit, DeclarationOf(p))
      <4> DEFINE e == DeclarationOf(p)
      <4>1. e.what # "function"
        BY DEF DeclarationOf
      <4>2. PICK S : unit \in Seq(S)
        BY DEF IInv, UnitOK
      <4> HIDE DEF e
      <4> DEFINE R == S \cup {e}
      <4>3. unit \in Seq(R) /\ e \in R
        BY <4>2
      <4> HIDE DEF R
      <4>4. \A j \in DOMAIN Append(unit, e) :
              (j \in DOMAIN unit /\ Append(unit, e)[j] = unit[j]) \/ Append(unit, e)[j] = e
        BY <4>3
      <4> QED
        BY <2>11, <3>2, <4>1, <4>4 DEF e
    <3> QED
      BY <2>1, <3>1, <3>2
  <2> QED
    BY <2>1, <2>10, <2>11 DEF ParamsInv, ParamsOK
<1> QED
  BY <1>2, <1>3 DEF Declare

\* An enumerator has no parameters.
LEMMA EnumerateParams ==
  ASSUME IInv, ParamsInv, NEW d \in Inputs, Enumerate(d)
  PROVE  ParamsInv'
<1> DEFINE new == IntIdent("enumerator", d.name)
           id2 == Append(idents, new)
<1>1. d.name \in Names /\ Soundly
  BY InputsAreDeclarators DEF Declarator, Ordinary, IInv, Soundly
<1>2. CASE Error
  BY <1>2 DEF Error, ParamsInv
<1>3. CASE Prior(d) = Nothing
  <2>1. /\ idents' = id2 /\ scopes' = Insert(scopes, d.name, Len(idents) + 1)
        /\ types' = types /\ unit' = unit /\ body' = body
    BY <1>3 DEF Enumerate
  <2>2. new \in Ident
    BY <1>1 DEF IntIdent, Ident, Linkages, IntType
  <2> HIDE DEF new
  <2>3. IdentsGrow(idents, id2)
    BY <1>1, <2>2, Typed, IdentsAppend
  <2> HIDE DEF id2
  <2>4. ParamsOK(unit, body, scopes, id2, types)
    BY <2>3, ParamsKept DEF SameParams
  <2>5. Len(scopes') = Len(scopes)
    <3>1. idents \in Seq(Ident) /\ scopes \in Seq(ScopeOver(Len(idents))) /\ Len(scopes) >= 1
      BY <1>1, Typed
    <3> DEFINE m == Len(idents) + 1
    <3>2. m \in Nat /\ scopes \in Seq(ScopeOver(m)) /\ m \in 0..m
      BY <3>1, ScopesWider
    <3> HIDE DEF m
    <3>3. Len(Insert(scopes, d.name, m)) = Len(scopes)
      BY <1>1, <3>1, <3>2, InsertFacts
    <3> QED
      BY <2>1, <3>3 DEF m
  <2> QED
    BY <2>1, <2>4, <2>5 DEF ParamsInv, ParamsOK
<1> QED
  BY <1>2, <1>3 DEF Enumerate

(* A function is defined once, so that the type whose parameters are       *)
(* replaced is not that of a function defined before.                      *)
LEMMA DefineParams ==
  ASSUME IInv, ParamsInv, NEW d \in Inputs, Define(d)
  PROVE  ParamsInv'
<1> DEFINE p == Processed(d)
           i == p.at
           t == p.idents[i].type
           param == p.types[t].params
           q == [p EXCEPT !.types[t].complete = TRUE, !.scopes = Enter(@, BodyScope(p))]
           new == [p.types[t] EXCEPT !.complete = TRUE]
           ty2 == [p.types EXCEPT ![t] = new]
<1>1. d \in Declarator /\ d.type = "int(int)" /\ Soundly
  BY InputsAreDeclarators DEF Define, IInv, Soundly
<1>2. TypeKnown(d)
  BY <1>1, NamesAreIdentifiers DEF TypeKnown
<1>3. CASE Error
  BY <1>3 DEF Error, ParamsInv
<1>4. CASE ~(Refused(d, NewType(d)) \/ p.types[t].complete \/ p.types[t].params = Nothing)
  <2>1. Commit(q) /\ body' = [ident |-> i, param |-> param] /\ unit' = unit
    BY <1>4 DEF Define
  <2>2. ProcessedOK(p, d)
    BY <1>1, <1>2, <1>4, ProcessedFacts
  <2>3. ASSUME Prior(d) # Nothing, d.storage # "typedef" PROVE i = Prior(d)
    <3>1. p = Merged(d)
      BY <2>3 DEF Processed
    <3> QED
      BY <3>1 DEF Merged
  <2> HIDE DEF p
  <2>4. /\ p = [at |-> p.at, idents |-> p.idents, types |-> p.types, scopes |-> p.scopes, external |-> p.external]
        /\ IdentsGrow(idents, p.idents) /\ TypesGrow(types, p.types)
        /\ t \in DOMAIN p.types /\ p.types \in Seq(HeapType)
    BY <2>2 DEF ProcessedOK, Sound, IdentsOK, TypesOK
  <2>5. ASSUME Prior(d) # Nothing, d.storage # "typedef" PROVE idents[Prior(d)].type \notin FunctionTypes
    <3>1. Prior(d) \in DOMAIN idents /\ idents[Prior(d)].type \in DOMAIN types
      BY <1>1, <2>5, PriorFacts
    <3>2. t = idents[Prior(d)].type
      BY <2>3, <2>4, <2>5, <3>1 DEF IdentsGrow, SameIdent
    <3>3. ~types[t].complete
      BY <1>4, <2>4, <3>1, <3>2 DEF TypesGrow
    <3> QED
      BY <3>2, <3>3, FunctionTypesThere
  <2>6. SameParams(types, p.types, FunctionTypes)
    BY <1>1, <1>2, <1>4, <2>5, ProcessedParams, FunctionTypesThere DEF SameParams, p
  <2>7. p.types[t] \in HeapType
    BY <2>4
  <2>8. new.params = param
    BY <2>7 DEF HeapType
  <2>9. q.idents = p.idents /\ q.types = ty2
    BY <2>4
  <2>10. idents' = p.idents /\ types' = ty2
    BY <2>1, <2>9 DEF Commit
  <2> HIDE DEF q, new
  <2>11. ty2[t].params = param /\ SameParams(p.types, ty2, DOMAIN p.types)
    BY <2>4, <2>8 DEF SameParams
  <2> HIDE DEF ty2
  <2>12. SameParams(types, ty2, FunctionTypes)
    <3>1. DOMAIN types \subseteq DOMAIN p.types
      BY <1>1, <2>4, Typed DEF TypesGrow
    <3> QED
      BY <2>6, <2>11, <3>1, FunctionTypesThere DEF SameParams
  <2>13. ParamsOK(unit, body, scopes, p.idents, ty2)
    BY <2>4, <2>12, ParamsKept
  <2>14. ParamsOf(i, p.idents, ty2) = param
    BY <2>11 DEF ParamsOf
  <2> HIDE DEF param
  <2>15. ParamsOf(body'.ident, idents', types') = body'.param
    BY <2>1, <2>10, <2>14
  <2>16. ParamsOK(unit', body, scopes, idents', types')
    BY <2>1, <2>10, <2>13
  <2> QED
    BY <2>15, <2>16 DEF ParamsInv, ParamsOK
<1> QED
  BY <1>3, <1>4 DEF Define

\* A block in a body changes no type.
LEMMA EnterBlockParams ==
  ASSUME IInv, ParamsInv, EnterBlock
  PROVE  ParamsInv'
<1>1. /\ idents' = idents /\ types' = types /\ unit' = unit /\ body' = body
      /\ Len(scopes) # 1
  BY Typed DEF EnterBlock, IInv, Soundly
<1> QED
  BY <1>1 DEF ParamsInv, ParamsOK

\* At the end of a body its function is added, with the body's parameter.
LEMMA LeaveBlockParams ==
  ASSUME IInv, ParamsInv, LeaveBlock
  PROVE  ParamsInv'
<1> DEFINE e == FunctionOf(body)
<1>1. idents' = idents /\ types' = types /\ Len(scopes) # 1
  BY Typed DEF LeaveBlock, IInv, Soundly
<1>2. ParamsOf(body.ident, idents, types) = body.param
  BY <1>1 DEF ParamsInv, ParamsOK
<1>3. CASE Len(scopes) # 2
  BY <1>1, <1>2, <1>3 DEF LeaveBlock, ParamsInv, ParamsOK
<1>4. CASE Len(scopes) = 2
  <2>1. unit' = Append(unit, e) /\ scopes' = Exit(scopes)
    BY <1>4 DEF LeaveBlock
  <2>2. Len(scopes') = 1
    <3>1. PICK n : scopes \in Seq(ScopeOver(n))
      BY DEF IInv, Sound, ScopesOK
    <3> QED
      BY <1>4, <2>1, <3>1 DEF Exit
  <2>3. e.ident = body.ident /\ e.param = body.param
    BY DEF FunctionOf
  <2>4. PICK S : unit \in Seq(S)
    BY DEF IInv, UnitOK
  <2> HIDE DEF e
  <2> DEFINE R == S \cup {e}
  <2>5. unit \in Seq(R) /\ e \in R
    BY <2>4
  <2> HIDE DEF R
  <2>6. \A k \in DOMAIN Append(unit, e) :
          (k \in DOMAIN unit /\ Append(unit, e)[k] = unit[k]) \/ Append(unit, e)[k] = e
    BY <2>5
  <2>7. ASSUME NEW k \in DOMAIN unit', unit'[k].what = "function"
        PROVE  ParamsOf(unit'[k].ident, idents, types) = unit'[k].param
    <3>1. CASE k \in DOMAIN unit /\ unit'[k] = unit[k]
      BY <2>7, <3>1 DEF ParamsInv, ParamsOK
    <3>2. CASE unit'[k] = e
      BY <1>2, <2>3, <3>2
    <3> QED
      BY <2>1, <2>6, <3>1, <3>2
  <2> QED
    BY <1>1, <2>2, <2>7 DEF ParamsInv, ParamsOK
<1> QED
  BY <1>3, <1>4

\* Every step but a LatePrototype keeps the parameters.
LEMMA NextParams ==
  ASSUME IInv, ParamsInv, [Next]_vars, [NoneLate]_vars
  PROVE  ParamsInv'
<1>1. CASE UNCHANGED vars
  BY <1>1 DEF ParamsInv, vars
<1>2. CASE NoneLate /\ Next
  <2>1. ASSUME NEW d \in Inputs, Declare(d) PROVE ParamsInv'
    BY <1>2, <2>1, DeclareParams DEF NoneLate
  <2>2. ASSUME NEW d \in Inputs, Enumerate(d) PROVE ParamsInv'
    BY <2>2, EnumerateParams
  <2>3. ASSUME NEW d \in Inputs, Define(d) PROVE ParamsInv'
    BY <2>3, DefineParams
  <2> QED
    BY <1>2, <2>1, <2>2, <2>3, EnterBlockParams, LeaveBlockParams DEF Next
<1> QED
  BY <1>1, <1>2

\* What was to be shown of the unit.
LEMMA BodiesHaveParams ==
  ASSUME ParamsInv
  PROVE  BodyHasParams
BY DEF ParamsInv, ParamsOK, ParamsOf, BodyHasParams, Range

(* Where no prototype of a function comes after its definition with        *)
(* parameters of its own, the parameters that the generator stores when    *)
(* it enters a function are those its body was parsed with.                *)
THEOREM BodyHasParamsUnlessLate == Spec /\ [][NoneLate]_vars => []BodyHasParams
<1>1. Init => ParamsInv
  <2> SUFFICES ASSUME Init PROVE ParamsInv
    OBVIOUS
  <2>1. unit = << >> /\ Len(scopes) = 1
    BY DEF Init
  <2> QED
    BY <2>1 DEF ParamsInv, ParamsOK
<1>2. IInv /\ ParamsInv /\ [Next]_vars /\ [NoneLate]_vars => ParamsInv'
  BY NextParams
<1>3. ParamsInv => BodyHasParams
  BY BodiesHaveParams
<1> QED
  BY <1>1, <1>2, <1>3, Invariant, PTL DEF Spec

(***************************************************************************)
(* The declarations implement Linkage, but for the known differences.      *)
(*                                                                         *)
(* The refinement mapping is stated of values first: of identifiers id,    *)
(* types ty, scopes sc, a unit u and a body b (ToldOf, EnvOf, StateIn).    *)
(* ToldInv adds to IInv what the mapping needs: that types are of the      *)
(* three shapes, that only one identifier has an array still to be         *)
(* completed, that names lead to identifiers of the name, and that those   *)
(* with linkage agree.  Then the tests of ProcessDeclarator and of         *)
(* ParseInitDeclarator are shown to be the constraints of the standard     *)
(* (ObjectLegal, TypedefLegal, DefinitionLegal, EnumeratorLegal), and what *)
(* an accepted declaration leaves to be an Outcome, from which follow the  *)
(* environment, what is told of the names with linkage, and ToldInv.       *)
(***************************************************************************)
-----------------------------------------------------------------------------
\* What is told of identifiers id, types ty, scopes sc, the unit u and the body b.
KindIn(i, id) ==
  CASE id[i].class = "enumerator" -> "enumerator"
    [] id[i].class = "object" -> "object"
    [] OTHER -> IF i # Nothing /\ id[i].class = "ident" /\ id[i].linkage = "none" THEN "typedef" ELSE "function"

ToldOf(i, id, ty) ==
  IF i = Nothing THEN [kind |-> "none", linkage |-> "none", type |-> "int"]
  ELSE [kind |-> KindIn(i, id), linkage |-> id[i].linkage, type |-> Written(ty[id[i].type])]

EnvOf(sc, id, ty) == [k \in DOMAIN sc |-> [n \in Ordinary |-> ToldOf(sc[k].map[n], id, ty)]]

LinkedIn(n, id) == {i \in DOMAIN id : id[i].name = n /\ id[i].linkage # "none"}
EmitsIn(e, id) ==
  LET o == id[e.ident]
  IN e.what = "function" \/ (IsStatic(o) /\ ("extern" \in o.storage => o.init))
EmittedIn(n, id, u) == {e \in Range(u) : EmitsIn(e, id) /\ e.ident \in LinkedIn(n, id)}
FormIn(e, id) ==
  CASE e.what = "function" -> "text"
    [] id[e.ident].init -> "data"
    [] OTHER -> "comm"
StateIn(n, id, u, b) ==
  CASE b.ident \in LinkedIn(n, id) -> "defined"
    [] \E e \in EmittedIn(n, id, u) : FormIn(e, id) \in {"text", "data"} -> "defined"
    [] OTHER -> IF EmittedIn(n, id, u) = {} THEN "none" ELSE "tentative"
ShownIn(n, id, ty) == {Written(ty[id[i].type]) : i \in LinkedIn(n, id)}
LinkageIn(n, id) ==
  IF \E i, j \in LinkedIn(n, id) : id[i].linkage # id[j].linkage THEN "mixed"
  ELSE CHOOSE l \in Linkages : \A i \in LinkedIn(n, id) : id[i].linkage = l
TypeIn(n, id, ty) ==
  IF "int[2]" \in ShownIn(n, id, ty) THEN "int[2]" ELSE CHOOSE t \in ShownIn(n, id, ty) : TRUE
LinkedAsIn(n, id, ty, u, b) ==
  IF LinkedIn(n, id) = {} THEN [linkage |-> "none", type |-> "int", state |-> "none"]
  ELSE [linkage |-> LinkageIn(n, id), type |-> TypeIn(n, id, ty), state |-> StateIn(n, id, u, b)]
AllLinkedIn(id, ty, u, b) == [n \in Ordinary |-> LinkedAsIn(n, id, ty, u, b)]

\* These are the values that the mapping has, before a step and after it.
LEMMA ToldNow ==
  /\ Scoped = EnvOf(scopes, idents, types)
  /\ AllLinked = AllLinkedIn(idents, types, unit, body)
  /\ Scoped' = EnvOf(scopes', idents', types')
  /\ AllLinked' = AllLinkedIn(idents', types', unit', body')
<1>1. Scoped = EnvOf(scopes, idents, types)
  BY DEF Scoped, EnvOf, Denoted, ToldOf, KindOf, KindIn, TypeWritten, IsTypeName
<1>2. Scoped' = EnvOf(scopes', idents', types')
  BY DEF Scoped, EnvOf, Denoted, ToldOf, KindOf, KindIn, TypeWritten, IsTypeName
<1>3. AllLinked = AllLinkedIn(idents, types, unit, body)
  BY DEF AllLinked, AllLinkedIn, LinkedAs, LinkedAsIn, LinkageIn, TypeIn, ShownIn, Linked, LinkedIn,
         StateOf, StateIn, Emitted, EmittedIn, Emits, EmitsIn, Assembly, FormIn, TypeWritten
<1>4. AllLinked' = AllLinkedIn(idents', types', unit', body')
  BY DEF AllLinked, AllLinkedIn, LinkedAs, LinkedAsIn, LinkageIn, TypeIn, ShownIn, Linked, LinkedIn,
         StateOf, StateIn, Emitted, EmittedIn, Emits, EmitsIn, Assembly, FormIn, TypeWritten
<1> QED
  BY <1>1, <1>2, <1>3, <1>4

-----------------------------------------------------------------------------
\* An array has two elements, or is open.
TypeKnownIn(t) ==
  /\ t.shape = "array" => t.len = IF t.complete THEN 2 ELSE -1
  /\ t.shape = "int" => t.complete
TypesKnown(ty) == ty[1].shape = "int" /\ \A t \in DOMAIN ty : TypeKnownIn(ty[t])

\* Only one identifier has an array type that may still be completed.
Unshared(id, ty) ==
  \A i, j \in DOMAIN id : i # j /\ id[i].type = id[j].type => ~IsOpen(ty[id[i].type])

\* Whatever is found by a name has it.
NamesRight(sc, id, ex) ==
  /\ \A k \in DOMAIN sc, n \in Names : sc[k].map[n] # Nothing => id[sc[k].map[n]].name = n
  /\ \A n \in Names : ex[n] # Nothing => id[ex[n]].name = n /\ id[ex[n]].linkage = "external"

\* An object with linkage has a Declaration as soon as its type is complete.
ClassRight(ident, ty) ==
  /\ ident.class = "ident" /\ ident.linkage # "none" => IsFunction(ty[ident.type])
  /\ ident.class = "enumerator" => ident.linkage = "none" /\ ident.type = IntType
  /\ ident.class = "object" /\ ident.linkage # "none" => (ident.decl <=> ty[ident.type].complete)
  /\ ident.init => ident.decl
  /\ ident.class # "object" => ~ident.decl

ClassesRight(id, ty) == \A i \in DOMAIN id : ClassRight(id[i], ty)

\* The identifiers of one name with linkage agree on it, and on the type.
Akin(s, t) == s = t \/ {s, t} = {"int[]", "int[2]"}
Agreed(id, ty) ==
  \A i, j \in DOMAIN id :
    id[i].name = id[j].name /\ id[i].linkage # "none" /\ id[j].linkage # "none" =>
      id[i].linkage = id[j].linkage /\ Akin(Written(ty[id[i].type]), Written(ty[id[j].type]))

\* A Declaration goes to the generator.
HasEntry(i, u) == \E k \in DOMAIN u : u[k].ident = i /\ u[k].what = "declaration"
DeclsEntered(id, u) == \A i \in DOMAIN id : id[i].decl => HasEntry(i, u)

Told(sc, id, ty, ex, u) ==
  /\ TypesKnown(ty)
  /\ Unshared(id, ty)
  /\ NamesRight(sc, id, ex)
  /\ ClassesRight(id, ty)
  /\ Agreed(id, ty)
  /\ DeclsEntered(id, u)
ToldInv == Told(scopes, idents, types, external, unit)

-----------------------------------------------------------------------------
\* What a name denotes in both, of this scope and of those that are open.
LEMMA View ==
  ASSUME Soundly, NEW n \in Ordinary
  PROVE  /\ n \in Names
         /\ Standard!Level = Len(scopes)
         /\ Standard!AtFile <=> AtFile
         /\ Standard!Here(n) = ToldOf(FindInCurScope(scopes, n), idents, types)
         /\ Standard!Visible(n) = ToldOf(Find(scopes, n), idents, types)
<1>1. /\ scopes \in Seq(ScopeOver(Len(idents))) /\ Len(scopes) >= 1 /\ Len(scopes) \in Nat
      /\ AtFile <=> Len(scopes) = 1
  BY Typed
<1>2. n \in Names
  BY DEF Ordinary
<1>3. Scoped = EnvOf(scopes, idents, types)
  BY ToldNow
<1>4. /\ DOMAIN Scoped = 1..Len(scopes)
      /\ \A k \in 1..Len(scopes) : Scoped[k][n] = ToldOf(scopes[k].map[n], idents, types)
  BY <1>1, <1>3 DEF EnvOf
<1>5. Len(Scoped) = Len(scopes)
  <2>1. Scoped \in Seq({Scoped[k] : k \in 1..Len(scopes)})
    <3>1. Scoped = [k \in 1..Len(scopes) |-> Scoped[k]]
      BY <1>1, <1>3 DEF EnvOf
    <3> QED
      BY <1>1, <3>1
  <2> QED
    BY <1>1, <1>4, <2>1
<1>6. Standard!Level = Len(scopes)
  BY <1>5 DEF Standard!Level
<1>7. Standard!Here(n) = ToldOf(FindInCurScope(scopes, n), idents, types)
  BY <1>1, <1>4, <1>6 DEF Standard!Here, FindInCurScope, Current
<1>8. \A i : ToldOf(i, idents, types) = Standard!Unbound <=> i = Nothing
  BY DEF ToldOf, KindIn, Standard!Unbound
<1>9. Standard!Bound(n) = Holders(scopes, n)
  BY <1>1, <1>4, <1>6, <1>8 DEF Standard!Bound, Holders
<1>10. Standard!Max(Standard!Bound(n)) = Max(Holders(scopes, n))
  BY <1>9 DEF Standard!Max, Max
<1>11. Standard!Visible(n) = ToldOf(Find(scopes, n), idents, types)
  <2>1. CASE Holders(scopes, n) = {}
    BY <1>8, <1>9, <2>1 DEF Standard!Visible, Find
  <2>2. CASE Holders(scopes, n) # {}
    <3> DEFINE H == Holders(scopes, n)
               l == Len(scopes)
    <3>1. H \in SUBSET (1..l) /\ l \in Nat /\ H # {}
      BY <1>1, <2>2 DEF Holders
    <3> HIDE DEF H, l
    <3>2. Max(H) \in 1..l
      BY <3>1, Greatest
    <3>3. Find(scopes, n) = scopes[Max(H)].map[n]
      BY <2>2 DEF Find, H
    <3>4. Standard!Visible(n) = Scoped[Max(H)][n]
      BY <1>9, <1>10, <2>2 DEF Standard!Visible, H
    <3> QED
      BY <1>4, <3>2, <3>3, <3>4 DEF l
  <2> QED
    BY <2>1, <2>2
<1> QED
  BY <1>1, <1>2, <1>6, <1>7, <1>11 DEF Standard!AtFile

-----------------------------------------------------------------------------
\* The types as they are written.
WrittenTypes == {"int", "int[]", "int[2]", "int(int)"}
Same(s, t) == Written(s) = Written(t)

\* A type that is known is one of these.
LEMMA WrittenFacts ==
  ASSUME NEW t \in HeapType, TypeKnownIn(t)
  PROVE  /\ Written(t) \in WrittenTypes
         /\ IsFunction(t) <=> Written(t) = "int(int)"
         /\ IsOpen(t) <=> Written(t) = "int[]"
         /\ ~IsFunction(t) => (t.complete <=> Written(t) # "int[]")
         /\ t.shape = "int" <=> Written(t) = "int"
<1>1. /\ t.shape \in {"int", "array", "function"} /\ t.complete \in BOOLEAN
      /\ t.shape = "array" => t.len = IF t.complete THEN 2 ELSE -1
      /\ t.shape = "int" => t.complete
  BY DEF HeapType, TypeKnownIn
<1>2. CASE t.shape = "int"
  BY <1>1, <1>2 DEF Written, WrittenTypes, IsFunction, IsOpen
<1>3. CASE t.shape = "array"
  BY <1>1, <1>3 DEF Written, WrittenTypes, IsFunction, IsOpen
<1>4. CASE t.shape = "function"
  BY <1>1, <1>4 DEF Written, WrittenTypes, IsFunction, IsOpen
<1> QED
  BY <1>1, <1>2, <1>3, <1>4

\* Types are compatible that are written alike, but for a length.
LEMMA CompatibleWritten ==
  ASSUME NEW s \in HeapType, NEW t \in HeapType, TypeKnownIn(s), TypeKnownIn(t)
  PROVE  Compatible(s, t) <=> Akin(Written(s), Written(t))
<1>1. /\ s.shape \in {"int", "array", "function"} /\ s.complete \in BOOLEAN
      /\ s.shape = "array" => s.len = IF s.complete THEN 2 ELSE -1
      /\ t.shape \in {"int", "array", "function"} /\ t.complete \in BOOLEAN
      /\ t.shape = "array" => t.len = IF t.complete THEN 2 ELSE -1
  BY DEF HeapType, TypeKnownIn
<1>2. CASE s.shape = "array" /\ t.shape = "array"
  BY <1>1, <1>2 DEF Written, Akin, Compatible
<1>3. CASE s.shape # "array" \/ t.shape # "array"
  <2>1. Written(s) = Written(t) <=> s.shape = t.shape
    BY <1>1, <1>3 DEF Written
  <2>2. {Written(s), Written(t)} # {"int[]", "int[2]"}
    BY <1>1, <1>3 DEF Written
  <2> QED
    BY <1>1, <1>3, <2>1, <2>2 DEF Akin, Compatible
<1> QED
  BY <1>2, <1>3

\* An array that is made.
LEMMA ArrayFacts ==
  ASSUME NEW l \in {-1, 2}
  PROVE  /\ ArrayType(l) \in HeapType /\ TypeKnownIn(ArrayType(l))
         /\ Written(ArrayType(l)) = IF l = 2 THEN "int[2]" ELSE "int[]"
<1> DEFINE t == ArrayType(l)
<1>1. /\ t.shape = "array" /\ t.len = l /\ t.complete = (l >= 0) /\ t.params = 0
      /\ t = [shape |-> "array", len |-> l, complete |-> l >= 0, params |-> 0]
  BY DEF ArrayType, Nothing
<1>2. (l >= 0) \in BOOLEAN /\ (l >= 0 <=> l = 2)
  OBVIOUS
<1>3. t \in HeapType
  <2> DEFINE c == l >= 0
  <2>1. c \in BOOLEAN /\ t = [shape |-> "array", len |-> l, complete |-> c, params |-> 0]
    BY <1>1
  <2> HIDE DEF c, t
  <2> QED
    BY <2>1 DEF HeapType
<1> HIDE DEF t
<1>4. TypeKnownIn(t) /\ Written(t) = IF l = 2 THEN "int[2]" ELSE "int[]"
  BY <1>1, <1>2 DEF TypeKnownIn, Written
<1> QED
  BY <1>3, <1>4 DEF t

\* The heap holds types that are known.
LEMMA HeapKnown ==
  ASSUME Soundly, TypesKnown(types), NEW t \in DOMAIN types
  PROVE  types[t] \in HeapType /\ TypeKnownIn(types[t])
BY Typed DEF TypesKnown

-----------------------------------------------------------------------------
\* A name used for a type is that of a typedef.
TypeFound(d) == d.type \in Names => IsTypeName(Find(scopes, d.type))

\* The type of a declaration is on the heap, or put there.
Stays(d) ==
  /\ HeapFor(d) = types /\ TypeOf(d) \in DOMAIN types
  /\ ~IsOpen(types[TypeOf(d)]) /\ NewType(d) = types[TypeOf(d)]
Makes(d) ==
  /\ HeapFor(d) = Append(types, NewType(d)) /\ TypeOf(d) = Len(types) + 1
  /\ d.form = "definition" => NewType(d) = FuncType(Param(d))

TypeRight(d) ==
  /\ Stays(d) \/ Makes(d)
  /\ NewType(d) \in HeapType /\ TypeKnownIn(NewType(d))
  /\ Standard!Type(d) = Written(NewType(d))

\* A type that is made.
LEMMA MadeRight ==
  ASSUME Soundly, NEW d, NEW new \in HeapType, TypeKnownIn(new),
         HeapFor(d) = types \o <<new>>, TypeOf(d) = Len(types) + 1,
         Standard!Type(d) = Written(new),
         d.form = "definition" => new = FuncType(Param(d))
  PROVE  TypeRight(d)
<1>1. types \in Seq(HeapType)
  BY Typed
<1>2. types \o <<new>> = Append(types, new) /\ Append(types, new)[Len(types) + 1] = new
  BY <1>1
<1>3. NewType(d) = new
  BY <1>2 DEF NewType
<1> QED
  BY <1>2, <1>3 DEF TypeRight, Makes

\* The type of a declaration is that of the standard.
LEMMA TypeView ==
  ASSUME Soundly, TypesKnown(types), NEW d \in Declarator, TypeFound(d)
  PROVE  TypeRight(d)
<1>1. types \in Seq(HeapType) /\ Len(types) >= 1 /\ 1 \in DOMAIN types
  BY Typed DEF Soundly, Sound, TypesOK
<1>2. d.type \in {"int", "int[]", "int[2]", "int(int)"} \cup Ordinary
      /\ (d.form = "definition" => d.type = "int(int)")
  BY DEF Declarator
<1>3. Param(d) \in Nat
  BY Typed DEF Param, Nothing
<1>4. ASSUME d.type \notin Names
      PROVE  Standard!Type(d) = d.type
  BY <1>4 DEF Standard!Type, Standard!Named, Ordinary
<1>5. CASE d.type = "int"
  <2>1. d.type \notin Names /\ d.form # "definition"
    BY <1>2, <1>5, NamesAreIdentifiers
  <2>2. HeapFor(d) = types /\ TypeOf(d) = 1
    BY <1>1, <1>5, <2>1 DEF HeapFor, Heap, Fresh, TypeOf, IntType
  <2>3. types[1].shape = "int" /\ types[1] \in HeapType /\ TypeKnownIn(types[1])
    BY <1>1, HeapKnown DEF TypesKnown
  <2>4. Written(types[1]) = "int" /\ ~IsOpen(types[1])
    BY <2>3 DEF Written, IsOpen
  <2> QED
    BY <1>1, <1>4, <1>5, <2>1, <2>2, <2>3, <2>4 DEF TypeRight, Stays, NewType
<1>6. CASE d.type = "int[]"
  <2>1. d.type \notin Names /\ d.form # "definition"
    BY <1>2, <1>6, NamesAreIdentifiers
  <2> DEFINE new == ArrayType(-1)
  <2>2. HeapFor(d) = types \o <<new>> /\ TypeOf(d) = Len(types) + 1
    BY <1>6, <2>1 DEF HeapFor, Heap, Fresh, TypeOf
  <2>3. new \in HeapType /\ TypeKnownIn(new) /\ Written(new) = "int[]"
    BY ArrayFacts
  <2> QED
    BY <1>4, <1>6, <2>1, <2>2, <2>3, MadeRight
<1>7. CASE d.type = "int[2]"
  <2>1. d.type \notin Names /\ d.form # "definition"
    BY <1>2, <1>7, NamesAreIdentifiers
  <2> DEFINE new == ArrayType(2)
  <2>2. HeapFor(d) = types \o <<new>> /\ TypeOf(d) = Len(types) + 1
    BY <1>7, <2>1 DEF HeapFor, Heap, Fresh, TypeOf
  <2>3. new \in HeapType /\ TypeKnownIn(new) /\ Written(new) = "int[2]"
    BY ArrayFacts
  <2> QED
    BY <1>4, <1>7, <2>1, <2>2, <2>3, MadeRight
<1>8. CASE d.type = "int(int)"
  <2>1. d.type \notin Names
    BY <1>8, NamesAreIdentifiers
  <2> DEFINE new == FuncType(Param(d))
  <2>2. HeapFor(d) = types \o <<new>> /\ TypeOf(d) = Len(types) + 1
    BY <1>8, <2>1 DEF HeapFor, Heap, Fresh, TypeOf
  <2>3. new \in HeapType /\ TypeKnownIn(new) /\ Written(new) = "int(int)"
    BY <1>3 DEF FuncType, HeapType, TypeKnownIn, Written, Nothing
  <2> QED
    BY <1>4, <1>8, <2>1, <2>2, <2>3, MadeRight
<1>9. CASE d.type \in Ordinary
  <2> DEFINE i == Find(scopes, d.type)
             s == NamedType(d)
  <2>1. d.type \in Names /\ d.type \notin {"int", "int[]", "int[2]", "int(int)"}
    BY <1>9, NamesAreIdentifiers DEF Ordinary
  <2>2. d.form # "definition"
    BY <1>2, <2>1
  <2>3. i # Nothing /\ i \in DOMAIN idents
    BY <2>1, Visible DEF TypeFound, IsTypeName
  <2>4. s \in DOMAIN types /\ s = idents[i].type
    BY <2>3, Typed DEF NamedType
  <2>5. types[s] \in HeapType /\ TypeKnownIn(types[s])
    BY <2>4, HeapKnown
  <2>6. Standard!Type(d) = Written(types[s])
    <3>1. Standard!Visible(d.type) = ToldOf(i, idents, types)
      BY <1>9, View
    <3>2. ToldOf(i, idents, types).type = Written(types[s])
      BY <2>3, <2>4 DEF ToldOf
    <3> QED
      BY <1>9, <3>1, <3>2 DEF Standard!Type, Standard!Named
  <2>7. CASE Copied(s)
    <3> DEFINE new == ArrayType(types[s].len)
    <3>1. types[s].shape = "array" /\ ~types[s].complete /\ types[s].len = -1
      BY <2>5, <2>7 DEF Copied, TypeKnownIn, HeapType
    <3>2. HeapFor(d) = types \o <<new>> /\ TypeOf(d) = Len(types) + 1
      BY <2>1, <2>7 DEF HeapFor, Heap, Fresh, TypeOf
    <3>3. new \in HeapType /\ TypeKnownIn(new) /\ Written(new) = "int[]"
      BY <3>1, ArrayFacts
    <3>4. Written(types[s]) = "int[]"
      BY <3>1 DEF Written
    <3> QED
      BY <2>2, <2>6, <3>2, <3>3, <3>4, MadeRight
  <2>8. CASE ~Copied(s)
    <3>1. HeapFor(d) = types /\ TypeOf(d) = s
      BY <1>1, <2>1, <2>8 DEF HeapFor, Heap, Fresh, TypeOf
    <3>2. ~IsOpen(types[s])
      BY <2>8 DEF Copied, IsOpen
    <3> QED
      BY <2>2, <2>4, <2>5, <2>6, <3>1, <3>2 DEF TypeRight, Stays, NewType
  <2> QED
    BY <2>7, <2>8
<1> QED
  BY <1>2, <1>5, <1>6, <1>7, <1>8, <1>9

-----------------------------------------------------------------------------
\* What an identifier adds to the definition of its name.
DefinesIn(i, id, u, b) ==
  b.ident = i \/ id[i].init \/ \E k \in DOMAIN u : u[k].what = "function" /\ u[k].ident = i
TentIn(i, id) == id[i].decl /\ "extern" \notin id[i].storage

StateOfIn(n, id, u, b) ==
  IF \E i \in LinkedIn(n, id) : DefinesIn(i, id, u, b) THEN "defined"
  ELSE IF \E i \in LinkedIn(n, id) : TentIn(i, id) THEN "tentative" ELSE "none"

\* The state of a name is that of its identifiers.
LEMMA StateValue ==
  ASSUME NEW id \in Seq(Ident), NEW ty, NEW sc, NEW u, NEW b, NEW n,
         UnitOK(u, sc, id, ty), ClassesRight(id, ty), DeclsEntered(id, u)
  PROVE  StateIn(n, id, u, b) = StateOfIn(n, id, u, b)
<1> DEFINE L == LinkedIn(n, id)
           E == EmittedIn(n, id, u)
           Fun(k) == u[k].what = "function" /\ u[k].ident \in L
           Dec(k) == u[k].what = "declaration" /\ u[k].ident \in L
<1>0. \A i \in DOMAIN id : id[i] \in Ident
  OBVIOUS
<1>1. \A i \in L : i \in DOMAIN id /\ id[i].linkage # "none" /\ id[i].init \in BOOLEAN /\ id[i].decl \in BOOLEAN
  BY <1>0 DEF LinkedIn, Ident
<1>2. \A k \in DOMAIN u :
        \/ u[k].what = "declaration" /\ DeclarationOK(u[k].ident, id)
        \/ u[k].what = "function" /\ u[k].ident \in DOMAIN id /\ id[u[k].ident].class # "object"
  BY DEF UnitOK, EntryOK, FunctionOK
<1>3. \A i \in L : id[i].decl => \E k \in DOMAIN u : Dec(k) /\ u[k].ident = i
  BY <1>1 DEF DeclsEntered, HasEntry
<1>4. \A i \in L : id[i].init => id[i].decl
  BY <1>1 DEF ClassesRight, ClassRight
<1>5. \A k \in DOMAIN u : Dec(k) => id[u[k].ident].decl
  BY <1>2 DEF DeclarationOK
<1>6. \A k \in DOMAIN u :
        u[k].ident \in L => (EmitsIn(u[k], id) <=>
          Fun(k) \/ (Dec(k) /\ (id[u[k].ident].init \/ "extern" \notin id[u[k].ident].storage)))
  BY <1>1, <1>2 DEF EmitsIn, IsStatic
<1>a. \A k \in DOMAIN u : u[k].what = "function" => ~id[u[k].ident].init
  BY <1>2 DEF ClassesRight, ClassRight
<1>7. \A k \in DOMAIN u : FormIn(u[k], id) = IF u[k].what = "function" THEN "text"
                                          ELSE IF id[u[k].ident].init THEN "data" ELSE "comm"
  BY <1>a DEF FormIn
<1>8. /\ \A e \in E : \E k \in DOMAIN u : e = u[k] /\ u[k].ident \in L /\ EmitsIn(u[k], id)
      /\ \A k \in DOMAIN u : u[k].ident \in L /\ EmitsIn(u[k], id) => u[k] \in E
  BY DEF EmittedIn, Range
<1> HIDE DEF L, E
<1>9. (\E e \in E : FormIn(e, id) \in {"text", "data"})
        <=> \E k \in DOMAIN u : Fun(k) \/ (Dec(k) /\ id[u[k].ident].init)
  BY <1>2, <1>6, <1>7, <1>8
<1>10. (\E k \in DOMAIN u : Fun(k) \/ (Dec(k) /\ id[u[k].ident].init))
         <=> (\E k \in DOMAIN u : Fun(k)) \/ \E i \in L : id[i].init
  <2>1. ASSUME NEW i \in L, id[i].init
        PROVE  \E k \in DOMAIN u : Dec(k) /\ id[u[k].ident].init
    <3>1. PICK k \in DOMAIN u : Dec(k) /\ u[k].ident = i
      BY <1>3, <1>4, <2>1
    <3> QED
      BY <2>1, <3>1
  <2> QED
    BY <2>1
<1>11. (b.ident \in L \/ \E e \in E : FormIn(e, id) \in {"text", "data"})
         <=> \E i \in L : DefinesIn(i, id, u, b)
  <2>1. (\E k \in DOMAIN u : Fun(k))
          <=> \E i \in L : \E k \in DOMAIN u : u[k].what = "function" /\ u[k].ident = i
    OBVIOUS
  <2> QED
    BY <1>9, <1>10, <2>1 DEF DefinesIn
<1>12. ASSUME ~\E i \in L : DefinesIn(i, id, u, b)
       PROVE  E # {} <=> \E i \in L : TentIn(i, id)
  <2>1. \A k \in DOMAIN u : ~Fun(k) /\ (Dec(k) => ~id[u[k].ident].init)
    BY <1>9, <1>11, <1>12
  <2>2. E # {} <=> \E k \in DOMAIN u : Dec(k) /\ "extern" \notin id[u[k].ident].storage
    BY <1>6, <1>8, <2>1
  <2>3. (\E k \in DOMAIN u : Dec(k) /\ "extern" \notin id[u[k].ident].storage) <=> \E i \in L : TentIn(i, id)
    BY <1>3, <1>5 DEF TentIn
  <2> QED
    BY <2>2, <2>3
<1>13. StateIn(n, id, u, b) =
         IF b.ident \in L \/ \E e \in E : FormIn(e, id) \in {"text", "data"} THEN "defined"
         ELSE IF E = {} THEN "none" ELSE "tentative"
  BY DEF StateIn, L, E
<1>14. StateOfIn(n, id, u, b) =
         IF \E i \in L : DefinesIn(i, id, u, b) THEN "defined"
         ELSE IF \E i \in L : TentIn(i, id) THEN "tentative" ELSE "none"
  BY DEF StateOfIn, L
<1> QED
  BY <1>11, <1>12, <1>13, <1>14

\* The linkage and the type of a name are those of its identifiers.
LEMMA LinkedValue ==
  ASSUME NEW id \in Seq(Ident), NEW ty, NEW n, Agreed(id, ty), NEW i \in LinkedIn(n, id)
  PROVE  /\ LinkageIn(n, id) = id[i].linkage
         /\ TypeIn(n, id, ty) = IF \E j \in LinkedIn(n, id) : Written(ty[id[j].type]) = "int[2]" THEN "int[2]"
                                ELSE Written(ty[id[i].type])
         /\ Akin(TypeIn(n, id, ty), Written(ty[id[i].type]))
<1> DEFINE L == LinkedIn(n, id)
           W(j) == Written(ty[id[j].type])
<1>0. \A j \in DOMAIN id : id[j] \in Ident
  OBVIOUS
<1>1. i \in L /\ \A j \in L : j \in DOMAIN id /\ id[j].linkage \in Linkages
  BY <1>0 DEF LinkedIn, Ident
<1>2. \A j \in L : id[j].linkage = id[i].linkage /\ Akin(W(j), W(i))
  BY DEF Agreed, LinkedIn
<1>3. LinkageIn(n, id) = id[i].linkage
  <2>1. LinkageIn(n, id) = CHOOSE l \in Linkages : \A j \in L : id[j].linkage = l
    BY <1>2 DEF LinkageIn
  <2> HIDE DEF L
  <2>2. \A l \in Linkages : (\A j \in L : id[j].linkage = l) <=> l = id[i].linkage
    BY <1>1, <1>2
  <2> QED
    BY <1>1, <2>1, <2>2
<1>4. ShownIn(n, id, ty) = {W(j) : j \in L}
  BY DEF ShownIn
<1> HIDE DEF L, W
<1>5. "int[2]" \in ShownIn(n, id, ty) <=> \E j \in L : W(j) = "int[2]"
  BY <1>4
<1>6. CASE \E j \in L : W(j) = "int[2]"
  <2>1. TypeIn(n, id, ty) = "int[2]"
    BY <1>5, <1>6 DEF TypeIn
  <2>2. PICK j \in L : W(j) = "int[2]"
    BY <1>6
  <2>3. Akin("int[2]", W(i))
    BY <1>2, <2>2
  <2> QED
    BY <1>3, <1>6, <2>1, <2>3 DEF L, W
<1>7. CASE ~\E j \in L : W(j) = "int[2]"
  <2>1. TypeIn(n, id, ty) = CHOOSE t \in ShownIn(n, id, ty) : TRUE
    BY <1>5, <1>7 DEF TypeIn
  <2>2. \A j \in L : W(j) = W(i)
    BY <1>1, <1>2, <1>7 DEF Akin
  <2>3. ShownIn(n, id, ty) = {W(i)}
    BY <1>1, <1>4, <2>2
  <2>4. TypeIn(n, id, ty) = W(i)
    BY <2>1, <2>3
  <2> QED
    BY <1>3, <1>7, <2>4 DEF L, W, Akin
<1> QED
  BY <1>6, <1>7

-----------------------------------------------------------------------------
\* A type is written as it was.
KeptType(t, t2) ==
  /\ t2.shape = t.shape
  /\ t.shape # "function" => t2.complete = t.complete /\ t2.len = t.len
Kept(ty, ty2) == Len(ty2) = Len(ty) /\ \A s \in DOMAIN ty : KeptType(ty[s], ty2[s])

\* So it is as open, and as much of a function.
LEMMA KeptWritten ==
  ASSUME NEW t, NEW t2, KeptType(t, t2), t.shape \in {"int", "array", "function"}
  PROVE  /\ Written(t2) = Written(t) /\ (IsOpen(t2) <=> IsOpen(t)) /\ (IsFunction(t2) <=> IsFunction(t))
         /\ TypeKnownIn(t) => TypeKnownIn(t2)
BY DEF KeptType, Written, IsOpen, IsFunction, TypeKnownIn

\* Completing a type by one that is as complete changes nothing of it.
LEMMA CompletedKept ==
  ASSUME Soundly, NEW d, HeapFor(d) \in Seq(HeapType), NEW i \in DOMAIN idents,
         idents[i].type \in DOMAIN HeapFor(d),
         TypeKnownIn(HeapFor(d)[idents[i].type]), TypeKnownIn(NewType(d)), NewType(d) \in HeapType,
         NewType(d).shape = HeapFor(d)[idents[i].type].shape,
         NewType(d).shape = "array" /\ NewType(d).complete => ~IsOpen(HeapFor(d)[idents[i].type])
  PROVE  Kept(HeapFor(d), CompletedBy(HeapFor(d), i, d))
<1> DEFINE h == HeapFor(d)
           t == idents[i].type
           h2 == CompletedBy(h, i, d)
<1>1. h \in Seq(HeapType) /\ t \in DOMAIN h /\ h[t] \in HeapType
  OBVIOUS
<1>2. h2 = [h EXCEPT ![t].complete = @ \/ NewType(d).complete]
  BY DEF CompletedBy
<1>3. h[t].shape # "function" => (NewType(d).complete => h[t].complete)
  BY DEF TypeKnownIn, IsOpen, HeapType
<1> HIDE DEF h, t
<1>4. h2 = [h EXCEPT ![t] = [h[t] EXCEPT !.complete = @ \/ NewType(d).complete]]
  BY <1>2
<1>5. [h[t] EXCEPT !.complete = @ \/ NewType(d).complete].shape = h[t].shape
      /\ (h[t].shape # "function" => KeptType(h[t], [h[t] EXCEPT !.complete = @ \/ NewType(d).complete]))
  <2>1. NewType(d).complete \in BOOLEAN /\ h[t].complete \in BOOLEAN
    BY <1>1 DEF HeapType
  <2> QED
    BY <1>1, <1>3, <2>1 DEF KeptType, HeapType
<1> DEFINE c == [h[t] EXCEPT !.complete = @ \/ NewType(d).complete]
<1>6. KeptType(h[t], c)
  BY <1>5 DEF KeptType
<1> HIDE DEF c, h2
<1>7. h2 = [h EXCEPT ![t] = c]
  BY <1>4 DEF c
<1>8. Len(h2) = Len(h) /\ \A s \in DOMAIN h : h2[s] = IF s = t THEN c ELSE h[s]
  BY <1>1, <1>7
<1>9. Kept(h, h2)
  BY <1>6, <1>8 DEF Kept, KeptType
<1> QED
  BY <1>9 DEF h, h2

\* The parameters are not written.
LEMMA ParamsKeptWritten ==
  ASSUME NEW d, NEW h \in Seq(HeapType), NEW h2 \in Seq(HeapType), NEW i, Kept(h, h2)
  PROVE  Kept(h, WithParams(h2, i, d))
<1> DEFINE t == idents[i].type
           h3 == WithParams(h2, i, d)
<1>1. CASE ~IsFunction(NewType(d))
  BY <1>1 DEF WithParams
<1>2. CASE IsFunction(NewType(d))
  <2>1. h3 = [h2 EXCEPT ![t].params = NewType(d).params]
    BY <1>2 DEF WithParams
  <2>2. Len(h2) = Len(h) /\ \A s \in DOMAIN h : s \in DOMAIN h2 /\ h2[s] \in HeapType
    BY DEF Kept
  <2>3. Len(h3) = Len(h2) /\ \A s \in DOMAIN h : h3[s] = IF s = t THEN [h2[s] EXCEPT !.params = NewType(d).params] ELSE h2[s]
    BY <2>1, <2>2
  <2> HIDE DEF h3
  <2>4. \A s \in DOMAIN h : h3[s].shape = h2[s].shape /\ h3[s].complete = h2[s].complete /\ h3[s].len = h2[s].len
    BY <2>2, <2>3 DEF HeapType
  <2>5. Kept(h, h3)
    BY <2>2, <2>3, <2>4 DEF Kept, KeptType
  <2> QED
    BY <2>5 DEF h3
<1> QED
  BY <1>1, <1>2

-----------------------------------------------------------------------------
(* What ProcessDeclarator leaves, a new identifier or the one of the scope. *)
NewPlace(p, d) ==
  /\ Prior(d) = Nothing
  /\ p.at = Len(Pool(d)) + 1
  /\ p.idents = Append(Pool(d), NewIdent(d))
  /\ p.scopes = Insert(scopes, d.name, p.at)
  /\ p.external = IF Registers(d) THEN [external EXCEPT ![d.name] = p.at] ELSE external
  /\ Kept(HeapFor(d), p.types)

OldPlace(p, d) ==
  /\ Prior(d) # Nothing
  /\ p.at = Prior(d)
  /\ p.idents = IF d.storage = "typedef" THEN Pool(d) ELSE [Pool(d) EXCEPT ![Prior(d)] = Defined(Prior(d), d)]
  /\ p.scopes = scopes
  /\ p.external = external
  /\ Kept(HeapFor(d), p.types)

\* All that the heap holds is known.
LEMMA HeapForKnown ==
  ASSUME Soundly, TypesKnown(types), NEW d \in Declarator, TypeKnown(d), TypeRight(d)
  PROVE  /\ HeapFor(d) \in Seq(HeapType) /\ Len(HeapFor(d)) \in Nat
         /\ \A t \in DOMAIN types : t \in DOMAIN HeapFor(d) /\ HeapFor(d)[t] = types[t]
         /\ \A t \in DOMAIN HeapFor(d) : HeapFor(d)[t] \in HeapType /\ TypeKnownIn(HeapFor(d)[t])
         /\ \A t \in DOMAIN HeapFor(d) : t \in DOMAIN types \/ (t = TypeOf(d) /\ t = Len(types) + 1)
         /\ TypeOf(d) \in DOMAIN HeapFor(d) /\ HeapFor(d)[TypeOf(d)] = NewType(d)
         /\ HeapFor(d)[1] = types[1] /\ 1 \in DOMAIN HeapFor(d)
<1>1. /\ HeapFor(d) \in Seq(HeapType)
      /\ \A t \in DOMAIN types : t \in DOMAIN HeapFor(d) /\ HeapFor(d)[t] = types[t]
      /\ TypeOf(d) \in DOMAIN HeapFor(d) /\ HeapFor(d)[TypeOf(d)] = NewType(d)
  BY HeapForFacts DEF Sound, TypesOK, NewType
<1>2. types \in Seq(HeapType) /\ 1 \in DOMAIN types
  BY Typed DEF Soundly, Sound, TypesOK
<1>3. \A t \in DOMAIN HeapFor(d) : t \in DOMAIN types \/ (t = TypeOf(d) /\ t = Len(types) + 1)
  <2>1. CASE Stays(d)
    BY <2>1 DEF Stays
  <2>2. CASE Makes(d)
    BY <1>2, <2>2 DEF Makes, TypeRight
  <2> QED
    BY <2>1, <2>2 DEF TypeRight
<1>4. ASSUME NEW t \in DOMAIN HeapFor(d) PROVE HeapFor(d)[t] \in HeapType /\ TypeKnownIn(HeapFor(d)[t])
  <2>1. CASE t \in DOMAIN types
    BY <1>1, <2>1, HeapKnown
  <2>2. CASE t = TypeOf(d)
    BY <1>1, <2>2 DEF TypeRight
  <2> QED
    BY <1>3, <2>1, <2>2
<1> QED
  BY <1>1, <1>2, <1>3, <1>4

\* ProcessDeclarator leaves one of the two.
LEMMA PlaceView ==
  ASSUME Soundly, TypesKnown(types), NEW d \in Declarator, TypeKnown(d), TypeRight(d),
         ~Refused(d, NewType(d)), ~LengthLost(d)
  PROVE  NewPlace(Processed(d), d) \/ OldPlace(Processed(d), d)
<1> DEFINE h == HeapFor(d)
<1>1. /\ h \in Seq(HeapType) /\ Len(h) \in Nat
      /\ \A t \in DOMAIN types : t \in DOMAIN h /\ h[t] = types[t]
      /\ \A t \in DOMAIN h : h[t] \in HeapType /\ TypeKnownIn(h[t])
      /\ NewType(d) \in HeapType /\ TypeKnownIn(NewType(d))
  BY HeapForKnown DEF TypeRight
<1>2. Kept(h, h)
  BY <1>1 DEF Kept, KeptType
<1>3. d.name \in Names
  BY DEF Declarator, Ordinary
<1> HIDE DEF h
<1>4. CASE Prior(d) = Nothing
  <2> DEFINE past == Searches(d) /\ Find(scopes, d.name) = Nothing /\ external[d.name] # Nothing
             i == external[d.name]
  <2>1. CASE ~past
    BY <1>2, <1>4, <2>1 DEF Processed, Inserted, NewPlace, h
  <2>2. CASE past
    <3>1. i \in DOMAIN idents /\ idents[i].type \in DOMAIN types
      BY <1>3, <2>2, Typed
    <3>2. Compatible(NewType(d), types[idents[i].type])
      BY <1>4, <2>2 DEF Refused, ConflictsWith, Elsewhere, Searches
    <3>3. NewType(d).shape = "array" /\ NewType(d).complete => ~IsOpen(types[idents[i].type])
      BY <2>2 DEF LengthLost, Searches
    <3>4. idents[i].type \in DOMAIN h /\ h[idents[i].type] = types[idents[i].type] /\ TypeKnownIn(h[idents[i].type])
      BY <1>1, <3>1
    <3>5. Kept(h, CompletedBy(h, i, d))
      BY <1>1, <3>1, <3>2, <3>3, <3>4, CompletedKept DEF h, Compatible
    <3> QED
      BY <1>4, <2>2, <3>5 DEF Processed, Inserted, NewPlace, h
  <2> QED
    BY <2>1, <2>2
<1>5. CASE Prior(d) # Nothing /\ d.storage = "typedef"
  BY <1>2, <1>5 DEF Processed, OldPlace, h
<1>6. CASE Prior(d) # Nothing /\ d.storage # "typedef"
  <2> DEFINE i == Prior(d)
  <2>1. i \in DOMAIN idents /\ idents[i].type \in DOMAIN types
    BY <1>6, PriorFacts
  <2>2. Compatible(NewType(d), types[idents[i].type])
    BY <1>6 DEF Refused, ConflictsWith
  <2>3. NewType(d).shape = "array" /\ NewType(d).complete => ~IsOpen(types[idents[i].type])
    BY <1>6 DEF LengthLost, Own, OwnType, Prior, FindInCurScope
  <2>4. idents[i].type \in DOMAIN h /\ h[idents[i].type] = types[idents[i].type] /\ TypeKnownIn(h[idents[i].type])
    BY <1>1, <2>1
  <2>5. Kept(h, CompletedBy(h, i, d))
    BY <1>1, <2>1, <2>2, <2>3, <2>4, CompletedKept DEF h, Compatible
  <2>6. CompletedBy(h, i, d) \in Seq(HeapType)
    <3>1. NewType(d).complete \in BOOLEAN /\ h[idents[i].type] \in HeapType
      BY <1>1, <2>4 DEF HeapType
    <3> DEFINE t == idents[i].type
               c == [h[t] EXCEPT !.complete = @ \/ NewType(d).complete]
    <3>2. c \in HeapType
      BY <3>1 DEF HeapType
    <3>3. CompletedBy(h, i, d) = [h EXCEPT ![t] = c]
      BY DEF CompletedBy
    <3>4. h \in Seq(HeapType) /\ t \in DOMAIN h
      BY <1>1, <2>4
    <3> HIDE DEF c, t
    <3>5. [h EXCEPT ![t] = c] \in Seq(HeapType)
      BY <3>2, <3>4
    <3> QED
      BY <3>3, <3>5
  <2>7. Kept(h, WithParams(CompletedBy(h, i, d), i, d))
    <3> DEFINE h2 == CompletedBy(h, i, d)
    <3>1. h2 \in Seq(HeapType) /\ Kept(h, h2)
      BY <2>5, <2>6
    <3> HIDE DEF h2, i
    <3>2. Kept(h, WithParams(h2, i, d))
      BY <1>1, <3>1, ParamsKeptWritten
    <3> QED
      BY <3>2 DEF h2
  <2> QED
    BY <1>6, <2>7 DEF Processed, Merged, OldPlace, h
<1> QED
  BY <1>4, <1>5, <1>6

-----------------------------------------------------------------------------
(* A declaration as the two see it.                                        *)
Ready(d) == IInv /\ ToldInv /\ d \in Declarator /\ TypeFound(d)

\* What is known of a declaration that is read.
LEMMA ReadyFacts ==
  ASSUME NEW d, Ready(d)
  PROVE  /\ Soundly /\ TypesKnown(types) /\ d \in Declarator /\ TypeKnown(d) /\ TypeRight(d)
         /\ d.name \in Ordinary /\ d.name \in Names
<1>1. Soundly /\ TypesKnown(types) /\ d \in Declarator /\ TypeFound(d)
  BY DEF Ready, IInv, Soundly, ToldInv, Told
<1>2. TypeKnown(d)
  BY <1>1 DEF TypeKnown, TypeFound, IsTypeName
<1>3. d.name \in Ordinary
  BY <1>1 DEF Declarator
<1> QED
  BY <1>1, <1>2, <1>3, TypeView DEF Ordinary

\* What is found by the name of a declaration, in both.
LEMMA NameView ==
  ASSUME NEW d, Ready(d)
  PROVE  /\ Standard!Here(d.name) = ToldOf(Prior(d), idents, types)
         /\ Standard!Here(d.name) # Standard!Unbound <=> Prior(d) # Nothing
         /\ Standard!Visible(d.name) = ToldOf(Find(scopes, d.name), idents, types)
         /\ Standard!AtFile <=> AtFile
         /\ Prior(d) # Nothing => Find(scopes, d.name) = Prior(d)
         /\ AtFile => Find(scopes, d.name) = Prior(d)
<1>1. Soundly /\ d.name \in Ordinary /\ d.name \in Names
  BY ReadyFacts
<1>2. /\ Standard!Here(d.name) = ToldOf(FindInCurScope(scopes, d.name), idents, types)
      /\ Standard!Visible(d.name) = ToldOf(Find(scopes, d.name), idents, types)
      /\ Standard!AtFile <=> AtFile
  BY <1>1, View
<1>3. \A i : ToldOf(i, idents, types) = Standard!Unbound <=> i = Nothing
  BY DEF ToldOf, KindIn, Standard!Unbound
<1> DEFINE H == Holders(scopes, d.name)
           l == Len(scopes)
<1>4. /\ H \in SUBSET (1..l) /\ H \subseteq 1..l /\ l \in Nat /\ l >= 1 /\ (AtFile <=> l = 1)
      /\ Prior(d) = scopes[l].map[d.name]
      /\ l \in H <=> Prior(d) # Nothing
  BY <1>1, Typed DEF Holders, Prior, FindInCurScope, Current
<1>5. Find(scopes, d.name) = IF H = {} THEN Nothing ELSE scopes[Max(H)].map[d.name]
  BY DEF Find
<1> HIDE DEF H, l
<1>6. ASSUME H # {} PROVE Max(H) \in H
  BY <1>4, <1>6, Greatest
<1>7. ASSUME l \in H PROVE Max(H) = l
  <2>1. l \in H /\ \A y \in H : y \in 1..l /\ l >= y
    BY <1>4, <1>7
  <2>2. \A x \in H : (\A y \in H : x >= y) => x = l
    BY <1>4, <2>1
  <2>3. Max(H) = CHOOSE x \in H : \A y \in H : x >= y
    BY DEF Max
  <2> QED
    BY <2>1, <2>2, <2>3
<1>8. Prior(d) # Nothing => Find(scopes, d.name) = Prior(d)
  BY <1>4, <1>5, <1>7
<1>9. AtFile => Find(scopes, d.name) = Prior(d)
  <2>1. CASE H = {}
    BY <1>4, <1>5, <2>1
  <2>2. CASE H # {}
    <3>1. Max(H) \in 1..l
      BY <1>4, <1>6, <2>2
    <3>2. l = 1 => Max(H) = l
      BY <3>1
    <3> QED
      BY <1>4, <1>5, <2>2, <3>2
  <2> QED
    BY <2>1, <2>2
<1> QED
  BY <1>2, <1>3, <1>8, <1>9 DEF Prior

\* The kind of a declaration is that of its type.
LEMMA KindView ==
  ASSUME NEW d, Ready(d)
  PROVE  /\ Standard!Type(d) = Written(NewType(d)) /\ Written(NewType(d)) \in WrittenTypes
         /\ IsFunction(NewType(d)) <=> Written(NewType(d)) = "int(int)"
         /\ IsOpen(NewType(d)) <=> Written(NewType(d)) = "int[]"
         /\ ~IsFunction(NewType(d)) => (NewType(d).complete <=> Written(NewType(d)) # "int[]")
         /\ Standard!Kind(d) = IF d.form = "enumerator" THEN "enumerator"
                               ELSE IF d.storage = "typedef" THEN "typedef"
                               ELSE IF IsFunction(NewType(d)) THEN "function" ELSE "object"
<1>1. TypeRight(d) /\ d \in Declarator
  BY ReadyFacts
<1>2. NewType(d) \in HeapType /\ TypeKnownIn(NewType(d)) /\ Standard!Type(d) = Written(NewType(d))
  BY <1>1 DEF TypeRight
<1>3. /\ Written(NewType(d)) \in WrittenTypes
      /\ IsFunction(NewType(d)) <=> Written(NewType(d)) = "int(int)"
      /\ IsOpen(NewType(d)) <=> Written(NewType(d)) = "int[]"
      /\ ~IsFunction(NewType(d)) => (NewType(d).complete <=> Written(NewType(d)) # "int[]")
  BY <1>2, WrittenFacts
<1>4. d.form = "enumerator" => d.storage # "typedef" /\ d.type = "int"
  BY <1>1 DEF Declarator
<1> QED
  BY <1>2, <1>3, <1>4 DEF Standard!Kind

\* What an identifier that is found is told to be.
LEMMA ToldView ==
  ASSUME IInv, ToldInv, NEW i \in DOMAIN idents
  PROVE  /\ ToldOf(i, idents, types).linkage = idents[i].linkage /\ idents[i].linkage \in Linkages
         /\ ToldOf(i, idents, types).type = Written(types[idents[i].type])
         /\ ToldOf(i, idents, types).kind = KindIn(i, idents)
         /\ idents[i] \in Ident /\ idents[i].type \in DOMAIN types
         /\ types[idents[i].type] \in HeapType /\ TypeKnownIn(types[idents[i].type])
         /\ ToldOf(i, idents, types)
              = [kind |-> KindIn(i, idents), linkage |-> idents[i].linkage, type |-> Written(types[idents[i].type])]
         /\ i # Nothing
<1>1. Soundly /\ TypesKnown(types)
  BY DEF IInv, Soundly, ToldInv, Told
<1>2. i # Nothing /\ idents[i] \in Ident /\ idents[i].type \in DOMAIN types
  BY <1>1, Typed DEF Nothing
<1>3. idents[i].linkage \in Linkages
  BY <1>2 DEF Ident
<1>4. types[idents[i].type] \in HeapType /\ TypeKnownIn(types[idents[i].type])
  BY <1>1, <1>2, HeapKnown
<1> QED
  BY <1>2, <1>3, <1>4 DEF ToldOf

-----------------------------------------------------------------------------
(* The linkage of a declaration: that of the standard is none if and only  *)
(* if the parser's is, and is the one the parser finds for a first         *)
(* declaration of its scope.                                               *)
LEMMA LinkageView ==
  ASSUME NEW d, Ready(d), d.form # "enumerator", d.storage # "typedef"
  PROVE  /\ Standard!Linkage(d) \in Linkages
         /\ LinkageAlone(d, NewType(d)) \in Linkages
         /\ Standard!Linkage(d) = "none" <=> LinkageAlone(d, NewType(d)) = "none"
         /\ LinkageAlone(d, NewType(d)) = "internal" => Standard!Linkage(d) = "internal" /\ AtFile
         /\ Prior(d) = Nothing => LinkageFound(d, NewType(d)) = Standard!Linkage(d)
         /\ Standard!Linkage(d) = "none" => ~AtFile /\ ~IsFunction(NewType(d)) /\ d.storage # "extern"
<1> DEFINE F == Find(scopes, d.name)
           V == Standard!Visible(d.name).linkage
           la == LinkageAlone(d, NewType(d))
           fn == IsFunction(NewType(d))
<1>1. d.storage \in {"none", "static", "extern"}
  <2>1. d \in Declarator
    BY ReadyFacts
  <2> QED
    BY <2>1 DEF Declarator
<1>2. Standard!Kind(d) = IF fn THEN "function" ELSE "object"
  BY KindView
<1>3. V = (IF F = Nothing THEN "none" ELSE idents[F].linkage) /\ V \in Linkages
  <2>1. V = ToldOf(F, idents, types).linkage
    BY NameView
  <2>2. CASE F = Nothing
    BY <2>1, <2>2 DEF ToldOf, Linkages
  <2>3. CASE F # Nothing
    <3>1. F \in DOMAIN idents
      BY <2>3, ReadyFacts, Visible
    <3> QED
      BY <2>1, <2>3, <3>1, ToldView DEF Ready
  <2> QED
    BY <2>2, <2>3
<1>4. (Standard!AtFile <=> AtFile) /\ (AtFile /\ Prior(d) = Nothing => F = Nothing)
  BY NameView
<1>5. Standard!Linkage(d) =
        IF AtFile /\ d.storage = "static" THEN "internal"
        ELSE IF d.storage = "extern" \/ fn THEN IF V # "none" THEN V ELSE "external"
        ELSE IF AtFile THEN "external" ELSE "none"
  <2> HIDE DEF F, fn
  <2>1. Standard!Kind(d) \notin {"enumerator", "typedef"} /\ (Standard!Kind(d) = "function" <=> fn)
    BY <1>2
  <2>2. CASE AtFile /\ d.storage = "static"
    BY <1>4, <2>1, <2>2 DEF Standard!Linkage
  <2>3. CASE ~(AtFile /\ d.storage = "static") /\ (d.storage = "extern" \/ fn)
    BY <1>4, <2>1, <2>3 DEF Standard!Linkage
  <2>4. CASE ~(AtFile /\ d.storage = "static") /\ ~(d.storage = "extern" \/ fn)
    BY <1>4, <2>1, <2>4 DEF Standard!Linkage
  <2> QED
    BY <2>2, <2>3, <2>4
<1>6. la = IF AtFile THEN IF d.storage = "static" THEN "internal" ELSE "external"
           ELSE IF d.storage = "extern" \/ fn THEN "external" ELSE "none"
  <2> HIDE DEF fn
  <2>1. CASE AtFile
    BY <2>1 DEF LinkageAlone
  <2>2. CASE ~AtFile /\ d.storage = "extern"
    BY <2>2 DEF LinkageAlone
  <2>3. CASE ~AtFile /\ d.storage # "extern"
    BY <2>3 DEF LinkageAlone, fn
  <2> QED
    BY <2>1, <2>2, <2>3
<1>7. LinkageFound(d, NewType(d)) = IF la = "external" /\ V # "none" THEN V ELSE la
  BY <1>3 DEF LinkageFound
<1> HIDE DEF F, V, la, fn
<1>8. /\ Standard!Linkage(d) \in Linkages /\ la \in Linkages
      /\ Standard!Linkage(d) = "none" <=> la = "none"
      /\ la = "internal" => Standard!Linkage(d) = "internal" /\ AtFile
      /\ Standard!Linkage(d) = "none" => ~AtFile /\ ~fn /\ d.storage # "extern"
  BY <1>3, <1>5, <1>6 DEF Linkages
<1>9. Prior(d) = Nothing => LinkageFound(d, NewType(d)) = Standard!Linkage(d)
  <2>1. AtFile /\ Prior(d) = Nothing => V = "none"
    BY <1>3, <1>4
  <2> QED
    BY <1>3, <1>5, <1>6, <1>7, <2>1 DEF Linkages
<1> QED
  BY <1>8, <1>9 DEF la, fn

\* A typedef and an enumerator have none.
LEMMA NoLinkage ==
  ASSUME NEW d, Ready(d), d.form = "enumerator" \/ d.storage = "typedef"
  PROVE  Standard!Linkage(d) = "none"
<1>1. Standard!Kind(d) \in {"enumerator", "typedef"}
  BY KindView
<1> QED
  BY <1>1 DEF Standard!Linkage

-----------------------------------------------------------------------------
\* What the unit has of a name already.
LEMMA BeforeView ==
  ASSUME NEW d, Ready(d)
  PROVE  /\ AllLinked[d.name].linkage = "none" <=> LinkedIn(d.name, idents) = {}
         /\ AllLinked[d.name].state = StateOfIn(d.name, idents, unit, body)
         /\ \A i \in LinkedIn(d.name, idents) :
              /\ AllLinked[d.name].linkage = idents[i].linkage
              /\ Akin(AllLinked[d.name].type, Written(types[idents[i].type]))
<1> DEFINE n == d.name
           L == LinkedIn(n, idents)
           B == LinkedAsIn(n, idents, types, unit, body)
<1>1. n \in Ordinary /\ idents \in Seq(Ident)
  BY ReadyFacts, Typed
<1>2. AllLinked[n] = B
  BY <1>1, ToldNow DEF AllLinkedIn
<1>3. UnitOK(unit, scopes, idents, types) /\ ClassesRight(idents, types)
      /\ DeclsEntered(idents, unit) /\ Agreed(idents, types)
  BY DEF Ready, IInv, ToldInv, Told
<1>4. StateIn(n, idents, unit, body) = StateOfIn(n, idents, unit, body)
  BY <1>1, <1>3, StateValue
<1>5. CASE L = {}
  <2>1. StateOfIn(n, idents, unit, body) = "none"
    BY <1>5 DEF StateOfIn
  <2> QED
    BY <1>2, <1>5, <2>1 DEF LinkedAsIn
<1>6. CASE L # {}
  <2>1. B = [linkage |-> LinkageIn(n, idents), type |-> TypeIn(n, idents, types), state |-> StateIn(n, idents, unit, body)]
    BY <1>6 DEF LinkedAsIn
  <2>2. \A i \in L : LinkageIn(n, idents) = idents[i].linkage
                     /\ Akin(TypeIn(n, idents, types), Written(types[idents[i].type]))
    BY <1>1, <1>3, LinkedValue
  <2>3. \A i \in L : idents[i].linkage # "none"
    BY DEF LinkedIn
  <2> QED
    BY <1>2, <1>4, <1>6, <2>1, <2>2, <2>3
<1> QED
  BY <1>5, <1>6

\* At file level a name is defined if its identifier there is.
LEMMA DefinedHere ==
  ASSUME NEW d, Ready(d), AtFile
  PROVE  AllLinked[d.name].state = "defined"
           <=> /\ Prior(d) # Nothing /\ idents[Prior(d)].linkage # "none"
               /\ DefinesIn(Prior(d), idents, unit, body)
<1> DEFINE n == d.name
<1>1. AllLinked[n].state = "defined" <=> \E i \in LinkedIn(n, idents) : DefinesIn(i, idents, unit, body)
  BY BeforeView DEF StateOfIn
<1>2. n \in Names /\ n \in Ordinary /\ Soundly
  BY ReadyFacts
<1>3. Len(scopes) = 1 /\ Prior(d) = scopes[1].map[n]
  BY <1>2, Typed DEF Prior, FindInCurScope, Current
<1>4. body.ident = 0
  BY <1>3 DEF Ready, IInv, BodyOK, Nobody, Nothing
<1>5. ASSUME NEW i \in LinkedIn(n, idents), DefinesIn(i, idents, unit, body)
      PROVE  Prior(d) = i /\ i # Nothing
  <2>1. i \in DOMAIN idents /\ idents[i].name = n /\ idents[i].linkage # "none" /\ i # 0
    BY <1>2, Typed DEF LinkedIn
  <2>2. AtFileScope(i, scopes, idents)
    <3>1. CASE idents[i].init
      <4>1. idents[i].class = "object"
        BY <2>1, <3>1 DEF Ready, ToldInv, Told, ClassesRight, ClassRight
      <4>2. HarmlessAt(i, scopes, idents)
        BY <1>2, <2>1 DEF Soundly, Sound, LinkedOK
      <4> QED
        BY <2>1, <3>1, <4>1, <4>2 DEF HarmlessAt, Useless
    <3>2. CASE \E k \in DOMAIN unit : unit[k].what = "function" /\ unit[k].ident = i
      <4>1. FunctionOK(i, scopes, idents, types)
        BY <3>2 DEF Ready, IInv, UnitOK, EntryOK
      <4> QED
        BY <2>1, <4>1 DEF FunctionOK
    <3> QED
      BY <1>4, <1>5, <2>1, <3>1, <3>2 DEF DefinesIn
  <2> QED
    BY <1>3, <2>1, <2>2 DEF AtFileScope, Nothing
<1>6. ASSUME Prior(d) # Nothing, idents[Prior(d)].linkage # "none"
      PROVE  Prior(d) \in LinkedIn(n, idents)
  <2>1. Prior(d) \in DOMAIN idents
    BY <1>2, <1>6, Visible DEF Prior
  <2>2. idents[Prior(d)].name = n
    BY <1>2, <1>3, <1>6 DEF Soundly, Sound, ScopesOK
  <2> QED
    BY <1>6, <2>1, <2>2 DEF LinkedIn
<1>7. \A i \in LinkedIn(n, idents) : idents[i].linkage # "none"
  BY DEF LinkedIn
<1> QED
  BY <1>1, <1>5, <1>6, <1>7

-----------------------------------------------------------------------------
\* Compatible types, as they are written.
LEMMA AkinFacts ==
  /\ \A s, t : Standard!Compatible(s, t) <=> Akin(s, t)
  /\ \A s, t : Akin(s, t) <=> Akin(t, s)
  /\ \A s, t, u : Akin(s, t) /\ Akin(t, u) => Akin(s, u)
  /\ \A s, t : Akin(s, t) /\ s \notin {"int[]", "int[2]"} => t = s
  /\ \A s, t : Akin(s, t) /\ s \in {"int[]", "int[2]"} => t \in {"int[]", "int[2]"}
  /\ Akin("int[]", "int[2]")
<1>1. \A s, t : Standard!Compatible(s, t) <=> Akin(s, t)
  BY DEF Standard!Compatible, Akin
<1>2. \A s, t : Akin(s, t) <=> s = t \/ (s \in {"int[]", "int[2]"} /\ t \in {"int[]", "int[2]"})
  BY DEF Akin
<1> QED
  BY <1>1, <1>2

\* A name that is found is that of the identifier.
LEMMA FoundName ==
  ASSUME NEW d, Ready(d)
  PROVE  /\ \A i : i # Nothing /\ i \in {Prior(d), Find(scopes, d.name)} =>
                     i \in DOMAIN idents /\ idents[i].name = d.name
         /\ external[d.name] # Nothing =>
              /\ external[d.name] \in DOMAIN idents
              /\ external[d.name] \in LinkedIn(d.name, idents)
<1> DEFINE n == d.name
           H == Holders(scopes, n)
           l == Len(scopes)
<1>1. n \in Names /\ Soundly /\ NamesRight(scopes, idents, external)
  BY ReadyFacts DEF Ready, ToldInv, Told
<1>2. /\ H \in SUBSET (1..l) /\ l \in Nat /\ DOMAIN scopes = 1..l
      /\ Find(scopes, n) = IF H = {} THEN Nothing ELSE scopes[Max(H)].map[n]
  BY <1>1, Typed DEF Holders, Find
<1> HIDE DEF H, l
<1>3. ASSUME Find(scopes, n) # Nothing
      PROVE  Find(scopes, n) \in DOMAIN idents /\ idents[Find(scopes, n)].name = n
  <2>1. H # {} /\ Max(H) \in H
    BY <1>2, <1>3, Greatest
  <2>2. Max(H) \in DOMAIN scopes
    BY <1>2, <2>1
  <2>3. idents[Find(scopes, n)].name = n
    BY <1>1, <1>2, <1>3, <2>1, <2>2 DEF NamesRight
  <2> QED
    BY <1>1, <1>3, <2>3, Visible
<1>4. Prior(d) # Nothing => Prior(d) = Find(scopes, n)
  BY NameView
<1>5. ASSUME external[n] # Nothing
      PROVE  external[n] \in DOMAIN idents /\ external[n] \in LinkedIn(n, idents)
  <2>1. external[n] \in DOMAIN idents
    BY <1>1, <1>5, Typed
  <2> QED
    BY <1>1, <1>5, <2>1 DEF NamesRight, LinkedIn
<1> QED
  BY <1>3, <1>4, <1>5

\* A conflict of types.
LEMMA ConflictView ==
  ASSUME NEW d, Ready(d), NEW i \in DOMAIN idents
  PROVE  ConflictsWith(i, NewType(d)) <=> ~Akin(Written(NewType(d)), Written(types[idents[i].type]))
<1>1. NewType(d) \in HeapType /\ TypeKnownIn(NewType(d))
  BY ReadyFacts DEF TypeRight
<1>2. types[idents[i].type] \in HeapType /\ TypeKnownIn(types[idents[i].type]) /\ i # Nothing
  BY ToldView DEF Ready
<1> QED
  BY <1>1, <1>2, CompatibleWritten DEF ConflictsWith

-----------------------------------------------------------------------------
\* What the standard asks of a redeclaration and of a function in a block.
Fits(d) ==
  /\ Standard!Here(d.name) # Standard!Unbound => Standard!Redeclares(d)
  /\ Standard!Kind(d) = "function" /\ d.storage = "static" => AtFile

\* The declaration of the scope is one to be merged with.
Joins(d) ==
  /\ Standard!Linkage(d) # "none"
  /\ idents[Prior(d)].linkage # "none"
  /\ Akin(Written(NewType(d)), Written(types[idents[Prior(d)].type]))

\* The same of the identifiers.
LEMMA FitsView ==
  ASSUME NEW d, Ready(d), d.form # "enumerator", d.storage # "typedef"
  PROVE  Fits(d) <=> /\ Prior(d) # Nothing => Joins(d)
                     /\ IsFunction(NewType(d)) /\ d.storage = "static" => AtFile
<1>1. /\ Standard!Type(d) = Written(NewType(d))
      /\ Standard!Kind(d) = IF IsFunction(NewType(d)) THEN "function" ELSE "object"
  BY KindView
<1>2. /\ Standard!Here(d.name) = ToldOf(Prior(d), idents, types)
      /\ Standard!Here(d.name) # Standard!Unbound <=> Prior(d) # Nothing
  BY NameView
<1>3. ASSUME Prior(d) # Nothing
      PROVE  Standard!Redeclares(d) <=> Joins(d)
  <2>1. Prior(d) \in DOMAIN idents
    BY <1>3, FoundName
  <2>2. /\ Standard!Here(d.name).linkage = idents[Prior(d)].linkage
        /\ Standard!Here(d.name).type = Written(types[idents[Prior(d)].type])
    BY <1>2, <2>1, ToldView DEF Ready
  <2>3. Standard!Kind(d) # "typedef"
    BY <1>1
  <2> QED
    BY <1>1, <2>2, <2>3, AkinFacts DEF Standard!Redeclares, Joins
<1> QED
  BY <1>1, <1>2, <1>3 DEF Fits

\* What is searched for elsewhere has linkage, but where it is hidden.
LEMMA ElsewhereLinked ==
  ASSUME NEW d, Ready(d), d.storage # "typedef", ~HiddenCompared(d),
         Prior(d) = Nothing, LinkageAlone(d, NewType(d)) = "external",
         ConflictsWith(Elsewhere(d), NewType(d))
  PROVE  Elsewhere(d) \in LinkedIn(d.name, idents) /\ Elsewhere(d) \in DOMAIN idents
<1>1. Elsewhere(d) # Nothing
  BY DEF ConflictsWith
<1>2. CASE Find(scopes, d.name) # Nothing
  <2>1. Elsewhere(d) = Find(scopes, d.name) /\ Outer(d) = Find(scopes, d.name)
    BY <1>2 DEF Elsewhere, Outer, Own, Prior, FindInCurScope
  <2>2. idents[Elsewhere(d)].linkage # "none"
    BY <1>2, <2>1 DEF HiddenCompared, Searches
  <2> QED
    BY <1>2, <2>1, <2>2, FoundName DEF LinkedIn
<1>3. CASE Find(scopes, d.name) = Nothing
  <2>1. Elsewhere(d) = external[d.name]
    BY <1>3 DEF Elsewhere
  <2> QED
    BY <1>1, <2>1, FoundName
<1> QED
  BY <1>2, <1>3

(* ProcessDeclarator refuses what does not fit.                            *)
LEMMA RefusedView ==
  ASSUME NEW d, Ready(d), d.form # "enumerator", d.storage # "typedef", ~HiddenCompared(d)
  PROVE  /\ ~Refused(d, NewType(d)) => Fits(d)
         /\ Fits(d) /\ ~Standard!Undefined(d) => ~Refused(d, NewType(d))
<1> DEFINE P == Prior(d)
           la == LinkageAlone(d, NewType(d))
           l == Standard!Linkage(d)
           fn == IsFunction(NewType(d))
           W == Written(NewType(d))
           B == AllLinked[d.name]
<1>1. Refused(d, NewType(d)) <=>
        \/ fn /\ ~AtFile /\ d.storage = "static"
        \/ ConflictsWith(P, NewType(d))
        \/ P # Nothing /\ ~Mergeable(la, P)
        \/ P = Nothing /\ la = "external" /\ ConflictsWith(Elsewhere(d), NewType(d))
  BY DEF Refused
<1>2. Fits(d) <=> (P # Nothing => Joins(d)) /\ (fn /\ d.storage = "static" => AtFile)
  BY FitsView
<1>3. /\ l \in Linkages /\ la \in Linkages /\ (l = "none" <=> la = "none")
      /\ la = "internal" => l = "internal"
  BY LinkageView
<1>4. P # Nothing => P \in DOMAIN idents /\ idents[P].name = d.name /\ idents[P].linkage \in Linkages
  BY FoundName, ToldView DEF Ready
<1>5. P # Nothing => (ConflictsWith(P, NewType(d)) <=> ~Akin(W, Written(types[idents[P].type])))
  BY <1>4, ConflictView
<1>6. Mergeable(la, P) <=> \/ la = "external" /\ idents[P].linkage # "none"
                           \/ la = "internal" /\ idents[P].linkage = "internal"
  <2>1. la \in {"none", "internal", "external"}
    BY <1>3 DEF Linkages
  <2> HIDE DEF la, P
  <2> QED
    BY <2>1 DEF Mergeable
<1>7. P = Nothing => ~ConflictsWith(P, NewType(d))
  BY DEF ConflictsWith
<1>8. Joins(d) <=> l # "none" /\ idents[P].linkage # "none" /\ Akin(W, Written(types[idents[P].type]))
  BY DEF Joins
<1>9. /\ B.linkage = "none" <=> LinkedIn(d.name, idents) = {}
      /\ \A i \in LinkedIn(d.name, idents) :
           B.linkage = idents[i].linkage /\ Akin(B.type, Written(types[idents[i].type]))
  BY BeforeView
<1>10. ~Standard!Undefined(d) /\ l # "none" /\ B.linkage # "none" => l = B.linkage /\ Akin(B.type, W)
  <2>1. Standard!Type(d) = W
    BY KindView
  <2> QED
    BY <2>1, AkinFacts DEF Standard!Undefined
<1>11. ASSUME P = Nothing, la = "external", ConflictsWith(Elsewhere(d), NewType(d))
       PROVE  Standard!Undefined(d)
  <2>1. Elsewhere(d) \in LinkedIn(d.name, idents) /\ Elsewhere(d) \in DOMAIN idents
    BY <1>11, ElsewhereLinked
  <2>2. ~Akin(W, Written(types[idents[Elsewhere(d)].type]))
    BY <1>11, <2>1, ConflictView
  <2>3. B.linkage # "none" /\ Akin(B.type, Written(types[idents[Elsewhere(d)].type]))
    BY <1>9, <2>1
  <2>4. ~Akin(B.type, W)
    BY <2>2, <2>3, AkinFacts
  <2> QED
    BY <1>3, <1>10, <1>11, <2>3, <2>4
<1>12. ASSUME P # Nothing, idents[P].linkage # "none"
       PROVE  B.linkage = idents[P].linkage
  BY <1>4, <1>9, <1>12 DEF LinkedIn
<1> HIDE DEF P, la, l, fn, W, B
<1>13. ~Refused(d, NewType(d)) => Fits(d)
  BY <1>1, <1>2, <1>3, <1>5, <1>6, <1>8
<1>14. Fits(d) /\ ~Standard!Undefined(d) => ~Refused(d, NewType(d))
  <2> SUFFICES ASSUME Fits(d), ~Standard!Undefined(d) PROVE ~Refused(d, NewType(d))
    OBVIOUS
  <2>1. CASE P = Nothing
    BY <1>1, <1>2, <1>7, <1>11, <2>1
  <2>2. CASE P # Nothing
    <3>1. l # "none" /\ idents[P].linkage # "none" /\ Akin(W, Written(types[idents[P].type]))
      BY <1>2, <1>8, <2>2
    <3>2. l = idents[P].linkage
      BY <1>10, <1>12, <2>2, <3>1
    <3>3. Mergeable(la, P)
      BY <1>3, <1>6, <3>1, <3>2 DEF Linkages
    <3> QED
      BY <1>1, <1>2, <1>5, <2>2, <3>1, <3>3
  <2> QED
    BY <2>1, <2>2
<1> QED
  BY <1>13, <1>14

-----------------------------------------------------------------------------
\* None of the differences.
NoGap(d) ==
  /\ ~HiddenCompared(d) /\ ~TypedefIgnored(d) /\ ~LatePrototype(d) /\ ~LengthLost(d)
  /\ ~TentativeDropped(d) /\ ~LengthNotInherited(d) /\ ~BodyShared(d) /\ ~TypedefBody(d)

\* The identifier that a declaration is processed to, and its type.
AtOK(p, d) ==
  /\ p.at \in DOMAIN p.idents
  /\ p.idents[p.at].class = "object" <=> ~IsFunction(NewType(d))
  /\ p.idents[p.at].linkage = "none" <=> Standard!Linkage(d) = "none"
  /\ p.idents[p.at].init <=> Prior(d) # Nothing /\ idents[Prior(d)].init
  /\ p.idents[p.at].type \in DOMAIN HeapFor(d)
  /\ KeptType(HeapFor(d)[p.idents[p.at].type], p.types[p.idents[p.at].type])
  /\ IF Prior(d) = Nothing
       THEN HeapFor(d)[p.idents[p.at].type] = NewType(d)
       ELSE HeapFor(d)[p.idents[p.at].type] = types[idents[Prior(d)].type]

\* The identifier is that of the scope, or new.
LEMMA AtView ==
  ASSUME NEW d, Ready(d), d.form # "enumerator", d.storage # "typedef",
         ~Refused(d, NewType(d)), NoGap(d)
  PROVE  AtOK(Processed(d), d)
<1> DEFINE p == Processed(d)
           P == Prior(d)
           fn == IsFunction(NewType(d))
           l == Standard!Linkage(d)
           h == HeapFor(d)
<1>1. NewPlace(p, d) \/ OldPlace(p, d)
  BY ReadyFacts, PlaceView DEF NoGap
<1>2. /\ Len(Pool(d)) \in Nat /\ Pool(d) \in Seq(Ident)
      /\ \A i \in DOMAIN idents : i \in DOMAIN Pool(d) /\ Pool(d)[i] = idents[i]
  BY ReadyFacts, PoolFacts DEF Sound, IdentsOK
<1>3. /\ \A t \in DOMAIN types : t \in DOMAIN h /\ h[t] = types[t]
      /\ TypeOf(d) \in DOMAIN h /\ h[TypeOf(d)] = NewType(d)
  BY ReadyFacts, HeapForKnown
<1>4. CASE NewPlace(p, d)
  <2>1. P = Nothing /\ p.at = Len(Pool(d)) + 1 /\ p.idents = Append(Pool(d), NewIdent(d)) /\ Kept(h, p.types)
    BY <1>4 DEF NewPlace
  <2>2. p.at \in DOMAIN p.idents /\ p.idents[p.at] = NewIdent(d)
    <3>1. \A new : Append(Pool(d), new)[Len(Pool(d)) + 1] = new
                   /\ Len(Pool(d)) + 1 \in DOMAIN Append(Pool(d), new)
      BY <1>2
    <3> QED
      BY <2>1, <3>1
  <2>3. /\ NewIdent(d).class = "object" <=> ~fn
        /\ NewIdent(d).linkage = LinkageFound(d, NewType(d))
        /\ NewIdent(d).init = FALSE /\ NewIdent(d).type = TypeOf(d)
    BY DEF NewIdent
  <2>4. LinkageFound(d, NewType(d)) = l
    BY <2>1, LinkageView
  <2>5. KeptType(h[TypeOf(d)], p.types[TypeOf(d)])
    BY <1>3, <2>1 DEF Kept
  <2> QED
    BY <1>3, <2>1, <2>2, <2>3, <2>4, <2>5 DEF AtOK
<1>5. CASE OldPlace(p, d)
  <2>1. /\ P # Nothing /\ p.at = P /\ Kept(h, p.types)
        /\ p.idents = [Pool(d) EXCEPT ![P] = Defined(P, d)]
    BY <1>5 DEF OldPlace
  <2>2. /\ P \in DOMAIN idents /\ idents[P] \in Ident /\ idents[P].type \in DOMAIN types
        /\ P \in DOMAIN Pool(d)
    BY <1>2, <2>1, FoundName, ToldView DEF Ready
  <2>3. P \in DOMAIN p.idents /\ p.idents[P] = Defined(P, d)
    BY <2>1, <2>2
  <2>4. /\ Defined(P, d).class = idents[P].class /\ Defined(P, d).linkage = idents[P].linkage
        /\ Defined(P, d).type = idents[P].type /\ Defined(P, d).init = idents[P].init
    BY <2>2 DEF Defined, Ident
  <2>5. Joins(d)
    BY <2>1, RefusedView, FitsView DEF NoGap
  <2>6. l # "none" /\ idents[P].linkage # "none" /\ Akin(Written(NewType(d)), Written(types[idents[P].type]))
    BY <2>5 DEF Joins
  <2>7. IsFunction(types[idents[P].type]) <=> fn
    <3>1. NewType(d).shape = types[idents[P].type].shape
      BY <2>1, ReadyFacts, PriorFits
    <3> QED
      BY <3>1 DEF IsFunction
  <2>8. idents[P].class = "object" <=> ~fn
    <3>1. ClassRight(idents[P], types)
      BY <2>2 DEF Ready, ToldInv, Told, ClassesRight
    <3>2. idents[P].class \in {"ident", "object", "enumerator"}
      BY <2>2 DEF Ident
    <3>3. idents[P].class = "object" => ~IsFunction(types[idents[P].type])
      BY <2>2 DEF Ready, IInv, Sound, IdentsOK
    <3> QED
      BY <2>6, <2>7, <3>1, <3>2, <3>3 DEF ClassRight
  <2>9. KeptType(h[idents[P].type], p.types[idents[P].type])
    BY <1>3, <2>1, <2>2 DEF Kept
  <2>10. idents[P].type \in DOMAIN h /\ h[idents[P].type] = types[idents[P].type]
    BY <1>3, <2>2
  <2> QED
    BY <2>1, <2>3, <2>4, <2>6, <2>8, <2>9, <2>10 DEF AtOK
<1> QED
  BY <1>1, <1>4, <1>5

(* ParseInitDeclarator refuses an initializer of a function, of what is     *)
(* declared extern in a block, and a second one; and what has no linkage   *)
(* and no length.                                                          *)
LEMMA InitRefusedView ==
  ASSUME NEW d, Ready(d), d.form # "enumerator", d.storage # "typedef",
         ~Refused(d, NewType(d)), NoGap(d)
  PROVE  InitRefused(Processed(d), d) <=>
           \/ /\ d.init
              /\ \/ IsFunction(NewType(d))
                 \/ ~AtFile /\ Standard!Linkage(d) # "none"
                 \/ Prior(d) # Nothing /\ idents[Prior(d)].init
           \/ /\ ~d.init /\ ~IsFunction(NewType(d)) /\ Standard!Linkage(d) = "none"
              /\ Written(NewType(d)) = "int[]"
<1> DEFINE p == Processed(d)
           ident == p.idents[p.at]
           type == p.types[ident.type]
           old == HeapFor(d)[ident.type]
           fn == IsFunction(NewType(d))
           l == Standard!Linkage(d)
<1>1. AtOK(p, d)
  BY AtView
<1>2. /\ ident.class = "object" <=> ~fn
      /\ ident.linkage = "none" <=> l = "none"
      /\ ident.init <=> Prior(d) # Nothing /\ idents[Prior(d)].init
      /\ ident.type \in DOMAIN HeapFor(d)
      /\ KeptType(old, type)
      /\ Prior(d) = Nothing => old = NewType(d)
  BY <1>1 DEF AtOK
<1>3. old \in HeapType /\ TypeKnownIn(old)
  BY <1>2, ReadyFacts, HeapForKnown
<1>4. TypeKnownIn(type) /\ (type.shape # "function" => type.complete = old.complete) /\ type.shape = old.shape
  <2>1. old.shape \in {"int", "array", "function"}
    BY <1>3 DEF HeapType
  <2> QED
    BY <1>2, <1>3, <2>1, KeptWritten DEF KeptType
<1>5. ~(type.shape = "array" /\ type.complete /\ type.len < 2)
  <2> HIDE DEF p, ident, type, old, fn, l
  <2>1. type.shape = "array" => type.len = IF type.complete THEN 2 ELSE -1
    BY <1>4 DEF TypeKnownIn
  <2> QED
    BY <2>1
<1>6. Prior(d) # Nothing => l # "none"
  BY RefusedView, FitsView DEF NoGap, Joins
<1>7. Prior(d) = Nothing /\ ~fn => (type.complete <=> Written(NewType(d)) # "int[]")
  <2>1. Prior(d) = Nothing /\ ~fn => type.complete = NewType(d).complete
    BY <1>2, <1>4 DEF IsFunction
  <2> QED
    BY <2>1, KindView
<1>8. InitRefused(p, d) <=>
        \/ d.init /\ (ident.class # "object" \/ (~AtFile /\ ident.linkage # "none") \/ ident.init)
        \/ ~d.init /\ ident.class = "object" /\ ~type.complete /\ ident.linkage = "none"
  BY <1>5 DEF InitRefused
<1> HIDE DEF p, ident, type, old, fn, l
<1>9. Prior(d) = Nothing \/ Prior(d) # Nothing
  OBVIOUS
<1>10. InitRefused(p, d) <=>
         \/ d.init /\ (fn \/ (~AtFile /\ l # "none") \/ (Prior(d) # Nothing /\ idents[Prior(d)].init))
         \/ ~d.init /\ ~fn /\ l = "none" /\ Written(NewType(d)) = "int[]"
  BY <1>2, <1>6, <1>7, <1>8
<1> QED
  BY <1>10 DEF p, fn, l

-----------------------------------------------------------------------------
\* An object is defined by its initializer, a function by its body.
LEMMA DefinesView ==
  ASSUME NEW d, Ready(d), AtFile, Prior(d) # Nothing, idents[Prior(d)].linkage # "none"
  PROVE  DefinesIn(Prior(d), idents, unit, body) <=>
           IF IsFunction(types[idents[Prior(d)].type]) THEN Prior(d) \in DefinedFunctions
           ELSE idents[Prior(d)].init
<1> DEFINE i == Prior(d)
<1>1. i \in DOMAIN idents /\ idents[i] \in Ident /\ i # 0
  BY FoundName, ToldView DEF Ready, Nothing
<1>2. ClassRight(idents[i], types)
  BY <1>1 DEF Ready, ToldInv, Told, ClassesRight
<1>3. idents[i].class = "object" => ~IsFunction(types[idents[i].type])
  BY <1>1 DEF Ready, IInv, Sound, IdentsOK
<1>4. body.ident = 0
  <2>1. Len(scopes) = 1
    BY ReadyFacts, Typed
  <2> QED
    BY <2>1 DEF Ready, IInv, BodyOK, Nobody, Nothing
<1>5. idents[i].class = "object" <=> ~IsFunction(types[idents[i].type])
  BY <1>1, <1>2, <1>3 DEF ClassRight, Ident
<1>6. idents[i].class # "object" => ~idents[i].init
  BY <1>2 DEF ClassRight
<1>7. ASSUME NEW k \in DOMAIN unit, unit[k].what = "function", unit[k].ident = i
      PROVE  idents[i].class # "object"
  BY <1>7 DEF Ready, IInv, UnitOK, EntryOK, FunctionOK
<1>8. i \in DefinedFunctions <=> \E k \in DOMAIN unit : unit[k].what = "function" /\ unit[k].ident = i
  <2>1. DefinedFunctions = {e.ident : e \in {u \in Range(unit) : u.what = "function"}}
    BY <1>4 DEF DefinedFunctions, Nothing
  <2>2. Range(unit) = {unit[k] : k \in DOMAIN unit}
    BY DEF Range
  <2> HIDE DEF i
  <2> QED
    BY <2>1, <2>2
<1> HIDE DEF i
<1>9. DefinesIn(i, idents, unit, body) <=>
        IF IsFunction(types[idents[i].type]) THEN i \in DefinedFunctions ELSE idents[i].init
  BY <1>1, <1>4, <1>5, <1>6, <1>7, <1>8 DEF DefinesIn
<1> QED
  BY <1>9 DEF i

\* The constraints on a declaration that is no typedef.
LEMMA LegalView ==
  ASSUME NEW d, Ready(d), d.form # "enumerator", d.storage # "typedef"
  PROVE  Standard!Legal(d) <=>
           /\ Fits(d)
           /\ d.init => ~IsFunction(NewType(d)) /\ (Standard!Linkage(d) = "none" \/ AtFile)
           /\ ~IsFunction(NewType(d)) /\ Standard!Linkage(d) = "none" /\ ~d.init
                => Written(NewType(d)) # "int[]"
           /\ (d.form = "definition" \/ d.init) /\ Standard!Linkage(d) # "none"
                => AllLinked[d.name].state # "defined"
           /\ d.form = "definition" => d.param # NoName
<1>1. /\ Standard!Type(d) = Written(NewType(d))
      /\ Standard!Kind(d) = IF IsFunction(NewType(d)) THEN "function" ELSE "object"
  BY KindView
<1>2. Standard!AtFile <=> AtFile
  BY NameView
<1> QED
  BY <1>1, <1>2 DEF Standard!Legal, Standard!Defines, Fits

\* A declaration is refused if and only if it breaks a constraint.
LEMMA ObjectLegal ==
  ASSUME NEW d, Ready(d), d.form = "declaration", d.storage # "typedef", NoGap(d),
         Standard!Legal(d) => ~Standard!Undefined(d)
  PROVE  Standard!Legal(d) <=> ~(Refused(d, NewType(d)) \/ InitRefused(Processed(d), d))
<1> DEFINE P == Prior(d)
           fn == IsFunction(NewType(d))
           l == Standard!Linkage(d)
           state == AllLinked[d.name].state
           W == Written(NewType(d))
<1>1. Standard!Legal(d) <=>
        /\ Fits(d)
        /\ d.init => ~fn /\ (l = "none" \/ AtFile)
        /\ ~fn /\ l = "none" /\ ~d.init => W # "int[]"
        /\ d.init /\ l # "none" => state # "defined"
  BY LegalView
<1>2. /\ ~Refused(d, NewType(d)) => Fits(d)
      /\ Fits(d) /\ ~Standard!Undefined(d) => ~Refused(d, NewType(d))
  BY RefusedView DEF NoGap
<1>3. ASSUME ~Refused(d, NewType(d))
      PROVE  InitRefused(Processed(d), d) <=>
               \/ d.init /\ (fn \/ (~AtFile /\ l # "none") \/ (P # Nothing /\ idents[P].init))
               \/ ~d.init /\ ~fn /\ l = "none" /\ W = "int[]"
  BY <1>3, InitRefusedView
<1>4. Fits(d) /\ P # Nothing =>
        l # "none" /\ idents[P].linkage # "none" /\ Akin(W, Written(types[idents[P].type]))
  BY FitsView DEF Joins
<1>5. ASSUME Fits(d), ~fn, l # "none", AtFile
      PROVE  state = "defined" <=> P # Nothing /\ idents[P].init
  <2>1. state = "defined" <=> P # Nothing /\ idents[P].linkage # "none" /\ DefinesIn(P, idents, unit, body)
    BY <1>5, DefinedHere
  <2>2. CASE P = Nothing
    BY <2>1, <2>2
  <2>3. CASE P # Nothing
    <3>1. idents[P].linkage # "none" /\ Akin(W, Written(types[idents[P].type]))
      BY <1>4, <1>5, <2>3
    <3>2. P \in DOMAIN idents
      BY <2>3, FoundName
    <3>3. types[idents[P].type] \in HeapType /\ TypeKnownIn(types[idents[P].type])
      BY <3>2, ToldView DEF Ready
    <3>4. ~IsFunction(types[idents[P].type])
      <4>1. W # "int(int)"
        BY <1>5, KindView
      <4>2. IsFunction(types[idents[P].type]) => Written(types[idents[P].type]) = "int(int)"
        BY <3>3, WrittenFacts
      <4> QED
        BY <3>1, <4>1, <4>2, AkinFacts
    <3>5. DefinesIn(P, idents, unit, body) <=> idents[P].init
      BY <1>5, <2>3, <3>1, <3>4, DefinesView
    <3> QED
      BY <2>1, <2>3, <3>1, <3>5
  <2> QED
    BY <2>2, <2>3
<1> HIDE DEF P, fn, l, state, W
<1>6. d.init \in BOOLEAN
  <2>1. d \in Declarator
    BY DEF Ready
  <2> QED
    BY <2>1 DEF Declarator
<1>7. Standard!Legal(d) => ~(Refused(d, NewType(d)) \/ InitRefused(Processed(d), d))
  BY <1>1, <1>2, <1>3, <1>4, <1>5
<1>8. ~(Refused(d, NewType(d)) \/ InitRefused(Processed(d), d)) => Standard!Legal(d)
  BY <1>1, <1>2, <1>3, <1>4, <1>5
<1> QED
  BY <1>7, <1>8

\* So is a typedef.
LEMMA TypedefLegal ==
  ASSUME NEW d, Ready(d), d.form = "declaration", d.storage = "typedef", NoGap(d)
  PROVE  /\ Standard!Legal(d) <=> ~(Refused(d, NewType(d)) \/ InitRefused(Processed(d), d))
         /\ Standard!Legal(d) => ~d.init
         /\ Standard!Legal(d) /\ Prior(d) # Nothing =>
              ToldOf(Prior(d), idents, types) = Standard!Binding(d) /\ idents[Prior(d)].class = "ident"
<1> DEFINE P == Prior(d)
           W == Written(NewType(d))
           new == [kind |-> "typedef", linkage |-> "none", type |-> W]
<1>1. /\ Standard!Type(d) = W /\ Standard!Kind(d) = "typedef" /\ Standard!Linkage(d) = "none"
  BY KindView, NoLinkage
<1>2. d.init \in BOOLEAN
  <2>1. d \in Declarator
    BY DEF Ready
  <2> QED
    BY <2>1 DEF Declarator
<1>3. Standard!Legal(d) <=> (P # Nothing => ToldOf(P, idents, types) = new) /\ ~d.init
  <2>1. /\ Standard!Here(d.name) = ToldOf(P, idents, types)
        /\ Standard!Here(d.name) # Standard!Unbound <=> P # Nothing
    BY NameView
  <2>2. Standard!Redeclares(d) <=> ToldOf(P, idents, types) = new
    BY <1>1, <2>1 DEF Standard!Redeclares
  <2> QED
    BY <1>1, <1>2, <2>1, <2>2 DEF Standard!Legal, Standard!Defines
<1>4. Refused(d, NewType(d)) <=> ConflictsWith(P, NewType(d))
  BY DEF Refused
<1>5. ~Refused(d, NewType(d)) <=> (P # Nothing => ToldOf(P, idents, types) = new)
  <2>1. CASE P = Nothing
    BY <1>4, <2>1 DEF ConflictsWith
  <2>2. CASE P # Nothing
    <3>1. P \in DOMAIN idents
      BY <2>2, FoundName
    <3>2. /\ ToldOf(P, idents, types)
               = [kind |-> KindIn(P, idents), linkage |-> idents[P].linkage, type |-> Written(types[idents[P].type])]
      BY <3>1, ToldView DEF Ready
    <3>3. ConflictsWith(P, NewType(d)) <=> ~Akin(W, Written(types[idents[P].type]))
      BY <3>1, ConflictView
    <3>4. ASSUME ~ConflictsWith(P, NewType(d))
          PROVE  ToldOf(P, idents, types) = new
      <4>1. IsTypeName(P) /\ Written(types[idents[P].type]) = W
        BY <2>2, <3>4 DEF NoGap, TypedefIgnored, Own, Prior, FindInCurScope, TypeWritten
      <4>2. KindIn(P, idents) = "typedef" /\ idents[P].linkage = "none"
        BY <4>1 DEF KindIn, IsTypeName
      <4> QED
        BY <3>2, <4>1, <4>2
    <3>5. ToldOf(P, idents, types) = new => Akin(W, Written(types[idents[P].type]))
      BY <3>2 DEF Akin
    <3> QED
      BY <1>4, <2>2, <3>3, <3>4, <3>5
  <2> QED
    BY <2>1, <2>2
<1>6. ~d.init => Standard!Binding(d) = new
  BY <1>1 DEF Standard!Binding, Standard!FullType, Standard!TypeBefore, Standard!Composite
<1>7. ASSUME ~Refused(d, NewType(d))
      PROVE  /\ P # Nothing => idents[P].class = "ident"
             /\ InitRefused(Processed(d), d) <=> d.init
  <2> DEFINE p == Processed(d)
  <2>1. NewPlace(p, d) \/ OldPlace(p, d)
    BY <1>7, ReadyFacts, PlaceView DEF NoGap
  <2>2. P # Nothing => idents[P].class = "ident"
    <3>1. P # Nothing => ToldOf(P, idents, types).kind = "typedef" /\ P \in DOMAIN idents
      BY <1>5, <1>7, FoundName
    <3>2. P # Nothing => ToldOf(P, idents, types).kind = KindIn(P, idents) /\ idents[P] \in Ident
      BY <3>1, ToldView DEF Ready
    <3> QED
      BY <3>1, <3>2 DEF KindIn, Ident
  <2>3. p.idents[p.at].class = "ident"
    <3>1. Pool(d) = idents
      BY DEF Pool, HasParam
    <3>2. CASE NewPlace(p, d)
      <4>1. \A new2 : Append(idents, new2)[Len(idents) + 1] = new2
        BY ReadyFacts, Typed
      <4>2. p.idents = Append(idents, NewIdent(d)) /\ p.at = Len(idents) + 1
        BY <3>1, <3>2 DEF NewPlace
      <4>3. NewIdent(d).class = "ident"
        BY DEF NewIdent
      <4> QED
        BY <4>1, <4>2, <4>3
    <3>3. CASE OldPlace(p, d)
      BY <2>2, <3>1, <3>3 DEF OldPlace
    <3> QED
      BY <2>1, <3>2, <3>3
  <2>4. InitRefused(p, d) <=> d.init
    BY <1>2, <2>3 DEF InitRefused
  <2> QED
    BY <2>2, <2>4
<1> HIDE DEF P, W, new
<1> QED
  BY <1>2, <1>3, <1>5, <1>6, <1>7 DEF P

-----------------------------------------------------------------------------
\* A definition is at file level, of a type of its own.
LEMMA DefinitionFacts ==
  ASSUME NEW d, Ready(d), d.form = "definition"
  PROVE  /\ Makes(d) /\ NewType(d) = FuncType(Param(d))
         /\ IsFunction(NewType(d)) /\ Written(NewType(d)) = "int(int)" /\ ~NewType(d).complete
         /\ ~d.init /\ d.type = "int(int)"
         /\ Param(d) = Nothing <=> d.param = NoName
         /\ d.param \in Ordinary \cup {NoName}
<1>1. d \in Declarator /\ TypeRight(d)
  BY ReadyFacts
<1>2. d.type = "int(int)" /\ d.init = FALSE /\ d.param \in Ordinary \cup {NoName}
  BY <1>1 DEF Declarator
<1>3. Makes(d)
  <2>1. ~Stays(d)
    <3>1. d.type \notin Names
      BY <1>2, NamesAreIdentifiers
    <3>2. TypeOf(d) = Len(types) + 1
      BY <1>2, <3>1 DEF TypeOf
    <3>3. types \in Seq(HeapType)
      BY ReadyFacts, Typed
    <3> QED
      BY <3>2, <3>3 DEF Stays
  <2> QED
    BY <1>1, <2>1 DEF TypeRight
<1>4. NewType(d) = FuncType(Param(d))
  BY <1>3 DEF Makes
<1>5. Len(idents) \in Nat
  BY ReadyFacts, Typed
<1>6. Param(d) = Nothing <=> d.param = NoName
  BY <1>5 DEF Param, HasParam, Nothing
<1>7. FuncType(Param(d)).shape = "function" /\ FuncType(Param(d)).complete = FALSE
  BY DEF FuncType
<1>8. IsFunction(NewType(d)) /\ ~NewType(d).complete
  BY <1>4, <1>7 DEF IsFunction
<1>9. Written(NewType(d)) = "int(int)"
  BY <1>8 DEF IsFunction, Written
<1> QED
  BY <1>2, <1>3, <1>4, <1>6, <1>8, <1>9

\* The function's type after ProcessDeclarator: the new parameter, and a body only if it had one.
LEMMA DefinitionAt ==
  ASSUME NEW d, Ready(d), d.form = "definition", d.storage # "typedef", ~Refused(d, NewType(d)), NoGap(d),
         NEW p, p = Processed(d)
  PROVE  /\ p.types[p.idents[p.at].type].params = Param(d)
         /\ p.types[p.idents[p.at].type].complete
              <=> Prior(d) # Nothing /\ types[idents[Prior(d)].type].complete
<1> DEFINE P == Prior(d)
           h == HeapFor(d)
           new == FuncType(Param(d))
<1>1. NewType(d) = new /\ IsFunction(NewType(d)) /\ ~NewType(d).complete /\ TypeOf(d) = Len(types) + 1
  BY DefinitionFacts DEF Makes
<1>2. /\ h \in Seq(HeapType) /\ \A t \in DOMAIN types : t \in DOMAIN h /\ h[t] = types[t]
      /\ TypeOf(d) \in DOMAIN h /\ h[TypeOf(d)] = NewType(d)
      /\ types \in Seq(HeapType) /\ NewType(d) \in HeapType
  BY ReadyFacts, HeapForKnown, Typed DEF TypeRight
<1>3. NewType(d).params = Param(d)
  BY <1>1 DEF FuncType
<1> HIDE DEF h, new
<1>4. CASE P = Nothing
  <2>1. p = Inserted(d)
    BY <1>4 DEF Processed
  <2>2. p.idents[p.at].type = TypeOf(d)
    <3>1. \A x : Append(Pool(d), x)[Len(Pool(d)) + 1] = x
      <4>1. Pool(d) \in Seq(Ident)
        BY ReadyFacts, PoolFacts DEF Sound, IdentsOK
      <4> QED
        BY <4>1
    <3>2. p.idents = Append(Pool(d), NewIdent(d)) /\ p.at = Len(Pool(d)) + 1
      BY <2>1 DEF Inserted
    <3>3. NewIdent(d).type = TypeOf(d)
      BY DEF NewIdent
    <3> QED
      BY <3>1, <3>2, <3>3
  <2> DEFINE past == Searches(d) /\ Find(scopes, d.name) = Nothing /\ external[d.name] # Nothing
             i == external[d.name]
  <2>3. p.types[TypeOf(d)] = NewType(d)
    <3>1. CASE ~past
      <4>1. p.types = h
        BY <2>1, <3>1 DEF Inserted, h
      <4> QED
        BY <1>2, <4>1
    <3>2. CASE past
      <4>1. idents[i].type \in DOMAIN types
        BY <3>2, FoundName, ToldView DEF Ready
      <4>2. idents[i].type # TypeOf(d)
        BY <1>1, <1>2, <4>1
      <4>3. p.types = [h EXCEPT ![idents[i].type].complete = @ \/ NewType(d).complete]
        BY <2>1, <3>2 DEF Inserted, CompletedBy, h
      <4> QED
        BY <1>2, <4>2, <4>3
    <3> QED
      BY <3>1, <3>2
  <2> QED
    BY <1>1, <1>3, <1>4, <2>2, <2>3
<1>5. CASE P # Nothing
  <2>1. p = Merged(d)
    BY <1>5 DEF Processed
  <2>2. P \in DOMAIN idents /\ idents[P] \in Ident /\ idents[P].type \in DOMAIN types
    BY <1>5, FoundName, ToldView DEF Ready
  <2> DEFINE t == idents[P].type
             h2 == CompletedBy(h, P, d)
  <2>3. p.at = P /\ p.idents[P].type = t
    <3>1. P \in DOMAIN Pool(d)
      BY <2>2, ReadyFacts, PoolFacts
    <3>2. p.at = P /\ p.idents = [Pool(d) EXCEPT ![P] = Defined(P, d)]
      BY <2>1 DEF Merged
    <3>3. Defined(P, d).type = t
      BY <2>2 DEF Defined, Ident
    <3> QED
      BY <3>1, <3>2, <3>3
  <2>4. t \in DOMAIN h /\ h[t] = types[t] /\ types[t] \in HeapType
    BY <1>2, <2>2
  <2>5. h2 = [h EXCEPT ![t].complete = @ \/ NewType(d).complete]
    BY DEF CompletedBy
  <2>6. p.types = [h2 EXCEPT ![t].params = NewType(d).params]
    BY <1>1, <2>1 DEF Merged, WithParams, h
  <2> HIDE DEF t
  <2>7. h2[t] = [types[t] EXCEPT !.complete = @ \/ NewType(d).complete] /\ t \in DOMAIN h2
    BY <2>4, <2>5
  <2>8. h2[t].complete = (types[t].complete \/ NewType(d).complete) /\ h2[t] \in HeapType
    <3>1. NewType(d).complete \in BOOLEAN /\ types[t].complete \in BOOLEAN
      BY <1>2, <2>4 DEF HeapType
    <3> QED
      BY <2>4, <2>7, <3>1 DEF HeapType
  <2> HIDE DEF h2
  <2>9. p.types[t] = [h2[t] EXCEPT !.params = NewType(d).params]
    BY <2>6, <2>7
  <2>10. p.types[t].complete = h2[t].complete /\ p.types[t].params = NewType(d).params
    BY <2>8, <2>9 DEF HeapType
  <2>11. types[t].complete \in BOOLEAN /\ NewType(d).complete \in BOOLEAN
    BY <1>2, <2>4 DEF HeapType
  <2>12. p.types[t].complete <=> types[t].complete
    BY <1>1, <2>8, <2>10, <2>11
  <2> QED
    BY <1>3, <1>5, <2>3, <2>10, <2>12 DEF t
<1> QED
  BY <1>4, <1>5

\* A definition is refused if and only if it breaks a constraint.
LEMMA DefinitionLegal ==
  ASSUME NEW d, Ready(d), d.form = "definition", AtFile, NoGap(d),
         Standard!Legal(d) => ~Standard!Undefined(d),
         NEW p, p = Processed(d)
  PROVE  /\ d.storage # "typedef"
         /\ Standard!Legal(d) <=> ~(\/ Refused(d, NewType(d)) \/ p.types[p.idents[p.at].type].complete
                                    \/ p.types[p.idents[p.at].type].params = Nothing)
<1> DEFINE P == Prior(d)
           l == Standard!Linkage(d)
           t == p.idents[p.at].type
           state == AllLinked[d.name].state
<1>0. d.storage # "typedef"
  BY DEF NoGap, TypedefBody
<1>1. /\ IsFunction(NewType(d)) /\ Written(NewType(d)) = "int(int)" /\ ~d.init
      /\ Param(d) = Nothing <=> d.param = NoName
  BY DefinitionFacts
<1>2. l # "none"
  BY <1>0, LinkageView
<1>3. Standard!Legal(d) <=> Fits(d) /\ state # "defined" /\ d.param # NoName
  BY <1>0, <1>1, <1>2, LegalView
<1>4. /\ ~Refused(d, NewType(d)) => Fits(d)
      /\ Fits(d) /\ ~Standard!Undefined(d) => ~Refused(d, NewType(d))
  BY <1>0, RefusedView DEF NoGap
<1>5. ASSUME ~Refused(d, NewType(d))
      PROVE  /\ p.types[t].params = Param(d)
             /\ p.types[t].complete <=> P # Nothing /\ types[idents[P].type].complete
  BY <1>0, <1>5, DefinitionAt
<1>6. ASSUME Fits(d)
      PROVE  state = "defined" <=> P # Nothing /\ types[idents[P].type].complete
  <2>1. state = "defined" <=> P # Nothing /\ idents[P].linkage # "none" /\ DefinesIn(P, idents, unit, body)
    BY DefinedHere
  <2>2. CASE P = Nothing
    BY <2>1, <2>2
  <2>3. CASE P # Nothing
    <3>1. idents[P].linkage # "none" /\ Akin(Written(NewType(d)), Written(types[idents[P].type]))
      BY <1>0, <1>6, <2>3, FitsView DEF Joins
    <3>2. P \in DOMAIN idents
      BY <2>3, FoundName
    <3>3. types[idents[P].type] \in HeapType /\ TypeKnownIn(types[idents[P].type])
      BY <3>2, ToldView DEF Ready
    <3>4. IsFunction(types[idents[P].type])
      <4>1. Written(types[idents[P].type]) = "int(int)"
        BY <1>1, <3>1, AkinFacts
      <4> QED
        BY <3>3, <4>1, WrittenFacts
    <3>5. DefinesIn(P, idents, unit, body) <=> P \in DefinedFunctions
      BY <2>3, <3>1, <3>4, DefinesView
    <3>6. types[idents[P].type].complete => P \in DefinedFunctions
      BY <2>3 DEF NoGap, BodyShared, Own, OwnType, Prior, FindInCurScope
    <3>7. P \in DefinedFunctions => types[idents[P].type].complete
      <4>1. ASSUME DefinesIn(P, idents, unit, body) PROVE FunctionOK(P, scopes, idents, types)
        <5>1. body.ident = 0 /\ P # 0
          <6>1. Len(scopes) = 1 /\ P # 0
            BY <3>2, ReadyFacts, Typed
          <6> QED
            BY <6>1 DEF Ready, IInv, BodyOK, Nobody, Nothing
        <5>2. ~idents[P].init
          <6>1. ClassRight(idents[P], types)
            BY <3>2 DEF Ready, ToldInv, Told, ClassesRight
          <6>2. idents[P].class # "object"
            BY <3>2, <3>4 DEF Ready, IInv, Sound, IdentsOK
          <6> QED
            BY <6>1, <6>2 DEF ClassRight
        <5>3. PICK k \in DOMAIN unit : unit[k].what = "function" /\ unit[k].ident = P
          BY <4>1, <5>1, <5>2 DEF DefinesIn
        <5> QED
          BY <5>3 DEF Ready, IInv, UnitOK, EntryOK
      <4> QED
        BY <3>5, <4>1 DEF FunctionOK
    <3> QED
      BY <2>1, <2>3, <3>1, <3>5, <3>6, <3>7
  <2> QED
    BY <2>2, <2>3
<1> HIDE DEF P, l, t, state
<1>7. Standard!Legal(d) <=> ~(\/ Refused(d, NewType(d)) \/ p.types[t].complete \/ p.types[t].params = Nothing)
  BY <1>1, <1>3, <1>4, <1>5, <1>6
<1> QED
  BY <1>0, <1>7 DEF t

\* An enumerator is refused if and only if its scope has the name.
LEMMA EnumeratorLegal ==
  ASSUME NEW d, Ready(d), d.form = "enumerator"
  PROVE  /\ Standard!Legal(d) <=> Prior(d) = Nothing
         /\ Standard!Binding(d) = [kind |-> "enumerator", linkage |-> "none", type |-> "int"]
         /\ Standard!Joined(d) = AllLinked
<1>1. Standard!Kind(d) = "enumerator" /\ Standard!Linkage(d) = "none"
  BY KindView, NoLinkage
<1>2. ~d.init /\ d.type = "int"
  <2>1. d \in Declarator
    BY DEF Ready
  <2> QED
    BY <2>1 DEF Declarator
<1>3. Standard!Type(d) = "int"
  <2>1. "int" \notin Ordinary
    BY NamesAreIdentifiers DEF Ordinary
  <2> QED
    BY <1>2, <2>1 DEF Standard!Type, Standard!Named
<1>4. Standard!Here(d.name) # Standard!Unbound <=> Prior(d) # Nothing
  BY NameView
<1>5. Standard!Legal(d) <=> Prior(d) = Nothing
  BY <1>1, <1>2, <1>4 DEF Standard!Legal, Standard!Redeclares
<1>6. Standard!Binding(d) = [kind |-> "enumerator", linkage |-> "none", type |-> "int"]
  BY <1>1, <1>2, <1>3 DEF Standard!Binding, Standard!FullType, Standard!TypeBefore, Standard!Composite
<1>7. Standard!Joined(d) = AllLinked
  BY <1>1 DEF Standard!Joined
<1> QED
  BY <1>5, <1>6, <1>7

-----------------------------------------------------------------------------
(* What a declaration comes to: one identifier, at, is new or changed, and *)
(* with it only a type of its own that an initializer gives its length.    *)
IdentsOutcome(d, at, id2) ==
  /\ id2 \in Seq(Ident) /\ at \in DOMAIN id2
  /\ \A i \in DOMAIN idents : i \in DOMAIN id2 /\ (i # at => id2[i] = idents[i])
  /\ \A i \in DOMAIN id2 : i \notin DOMAIN idents /\ i # at => id2[i] = IntIdent("object", d.param)
  /\ id2[at].name = d.name
  /\ IF at \in DOMAIN idents
       THEN /\ at = Prior(d) /\ Prior(d) # Nothing
            /\ id2[at].type = idents[at].type /\ id2[at].linkage = idents[at].linkage
            /\ id2[at].class = idents[at].class
       ELSE Prior(d) = Nothing

TypesOutcome(at, id2, ty2) ==
  /\ TypesKnown(ty2)
  /\ \A s \in DOMAIN types :
       /\ s \in DOMAIN ty2 /\ ty2[s].shape = types[s].shape
       /\ \/ KeptType(types[s], ty2[s])
          \/ s = id2[at].type /\ at \in DOMAIN idents /\ IsOpen(types[s]) /\ AtFile
  /\ at \notin DOMAIN idents => id2[at].type \notin DOMAIN types \/ ~IsOpen(ty2[id2[at].type])
  /\ ClassRight(id2[at], ty2)

EntryOf(at) == [what |-> "declaration", ident |-> at, param |-> Nothing]

UnitOutcome(d, at, id2, ex2, u2, b2) ==
  /\ ex2 = external \/ (ex2 = [external EXCEPT ![d.name] = at] /\ id2[at].linkage = "external")
  /\ \/ u2 = unit /\ (id2[at].decl => at \in DOMAIN idents /\ idents[at].decl)
     \/ u2 = Append(unit, EntryOf(at))
  /\ b2 = body \/ (body = Nobody /\ b2.ident = at)
  /\ id2[at].linkage # "none" =>
       /\ DefinesIn(at, id2, u2, b2)
            <=> (at \in DOMAIN idents /\ DefinesIn(at, idents, unit, body)) \/ Standard!Defines(d)
       /\ ~Standard!Defines(d) =>
            (TentIn(at, id2)
               <=> \/ at \in DOMAIN idents /\ TentIn(at, idents)
                   \/ AtFile /\ Standard!Kind(d) = "object" /\ d.storage # "extern")

Outcome(d, at, id2, ty2, ex2, u2, b2) ==
  /\ IdentsOutcome(d, at, id2)
  /\ TypesOutcome(at, id2, ty2)
  /\ UnitOutcome(d, at, id2, ex2, u2, b2)
  /\ ToldOf(at, id2, ty2) = Standard!Binding(d)

ScopesOutcome(d, at) == IF at \in DOMAIN idents THEN scopes ELSE Insert(scopes, d.name, at)

\* The other identifiers are told to be what they were.
LEMMA OthersKept ==
  ASSUME NEW d, Ready(d), NEW at, NEW id2, NEW ty2, NEW ex2, NEW u2, NEW b2,
         Outcome(d, at, id2, ty2, ex2, u2, b2), NEW i \in DOMAIN idents, i # at \/ ~AtFile
  PROVE  /\ i \in DOMAIN id2 /\ id2[i].type = idents[i].type
         /\ KeptType(types[idents[i].type], ty2[id2[i].type])
         /\ Written(ty2[id2[i].type]) = Written(types[idents[i].type])
         /\ ToldOf(i, id2, ty2) = ToldOf(i, idents, types)
<1>1. IdentsOutcome(d, at, id2) /\ TypesOutcome(at, id2, ty2)
  BY DEF Outcome
<1>2. /\ i \in DOMAIN id2 /\ id2[i].type = idents[i].type /\ id2[i].linkage = idents[i].linkage
      /\ id2[i].class = idents[i].class
  BY <1>1 DEF IdentsOutcome
<1>3. idents[i].type \in DOMAIN types /\ types[idents[i].type] \in HeapType /\ i # Nothing
  BY ToldView DEF Ready
<1>4. KeptType(types[idents[i].type], ty2[idents[i].type])
  <2>1. ASSUME i # at, idents[i].type = id2[at].type, at \in DOMAIN idents
        PROVE  ~IsOpen(types[idents[i].type])
    <3>1. id2[at].type = idents[at].type
      BY <1>1, <2>1 DEF IdentsOutcome
    <3> QED
      BY <2>1, <3>1 DEF Ready, ToldInv, Told, Unshared
  <2> QED
    BY <1>1, <1>3, <2>1 DEF TypesOutcome
<1>5. Written(ty2[idents[i].type]) = Written(types[idents[i].type])
  <2>1. types[idents[i].type].shape \in {"int", "array", "function"}
    BY <1>3 DEF HeapType
  <2> QED
    BY <1>4, <2>1, KeptWritten
<1> QED
  BY <1>2, <1>3, <1>4, <1>5 DEF ToldOf, KindIn

\* Where the declaration's identifier was there, it is no new one.
LEMMA PlacesDiffer ==
  ASSUME NEW d, Ready(d), NEW at, NEW id2, IdentsOutcome(d, at, id2)
  PROVE  /\ at # Nothing /\ d.name \in Names /\ d.name \in Ordinary
         /\ at \in DOMAIN idents => idents[at].name = d.name
<1>1. at # Nothing
  BY DEF IdentsOutcome, Nothing
<1>2. at \in DOMAIN idents => idents[at].name = d.name
  BY FoundName DEF IdentsOutcome
<1> QED
  BY <1>1, <1>2, ReadyFacts

\* The scopes hold it by its name.
LEMMA ScopesAre ==
  ASSUME NEW d, Ready(d), NEW at, NEW id2, IdentsOutcome(d, at, id2)
  PROVE  /\ DOMAIN ScopesOutcome(d, at) = 1..Len(scopes)
         /\ \A k \in 1..Len(scopes), m \in Names :
              ScopesOutcome(d, at)[k].map[m] = IF k = Len(scopes) /\ m = d.name THEN at ELSE scopes[k].map[m]
<1> DEFINE n == d.name
           sc2 == ScopesOutcome(d, at)
           l == Len(scopes)
<1>1. IdentsOutcome(d, at, id2)
  OBVIOUS
<1>2. at # Nothing /\ n \in Names /\ n \in Ordinary /\ Soundly
  BY PlacesDiffer, ReadyFacts
<1>3. /\ scopes \in Seq(ScopeOver(Len(idents))) /\ l >= 1 /\ l \in Nat /\ Len(idents) \in Nat
       /\ DOMAIN scopes = 1..l /\ Prior(d) = scopes[l].map[n]
  BY <1>2, Typed DEF Prior, FindInCurScope, Current
<1>4. \A k \in 1..l : DOMAIN scopes[k].map = Names
  <2>1. \A k \in 1..l : scopes[k] \in ScopeOver(Len(idents))
    BY <1>3
  <2> QED
    BY <2>1 DEF ScopeOver
<1>5. CASE at \in DOMAIN idents
  <2>1. sc2 = scopes /\ at = Prior(d)
    BY <1>1, <1>5 DEF ScopesOutcome, IdentsOutcome
  <2> QED
    BY <1>3, <2>1
<1>6. CASE at \notin DOMAIN idents
  <2>1. sc2 = [scopes EXCEPT ![l].map[n] = at]
    BY <1>6 DEF ScopesOutcome, Insert
  <2>2. l \in DOMAIN scopes
    BY <1>3
  <2>3. \A k \in 1..l : k # l => sc2[k] = scopes[k]
    BY <1>3, <2>1
  <2>4. sc2[l].map = [scopes[l].map EXCEPT ![n] = at]
    <3>1. scopes[l] \in ScopeOver(Len(idents))
      BY <1>3, <2>2
    <3> QED
      BY <2>1, <2>2, <3>1 DEF ScopeOver
  <2>5. \A m \in Names : sc2[l].map[m] = IF m = n THEN at ELSE scopes[l].map[m]
    BY <1>2, <1>3, <1>4, <2>4
  <2>6. DOMAIN sc2 = 1..l
    BY <1>3, <2>1
  <2> HIDE DEF sc2
  <2>7. \A k \in 1..l, m \in Names : sc2[k].map[m] = IF k = l /\ m = n THEN at ELSE scopes[k].map[m]
    BY <2>3, <2>5
  <2> QED
    BY <2>6, <2>7 DEF sc2
<1> QED
  BY <1>5, <1>6

(* The environment is that of the standard: what the declaration binds     *)
(* hides what its name denoted.                                            *)
LEMMA EnvOutcome ==
  ASSUME NEW d, Ready(d), NEW at, NEW id2, NEW ty2, NEW ex2, NEW u2, NEW b2,
         Outcome(d, at, id2, ty2, ex2, u2, b2)
  PROVE  EnvOf(ScopesOutcome(d, at), id2, ty2) = Standard!Bind(Scoped, d.name, Standard!Binding(d))
<1> DEFINE n == d.name
           sc2 == ScopesOutcome(d, at)
           l == Len(scopes)
           new == ToldOf(at, id2, ty2)
<1>1. IdentsOutcome(d, at, id2) /\ new = Standard!Binding(d)
  BY DEF Outcome
<1>2. at # Nothing /\ n \in Names /\ n \in Ordinary /\ Soundly
  BY <1>1, PlacesDiffer, ReadyFacts
<1>3. /\ scopes \in Seq(ScopeOver(Len(idents))) /\ l >= 1 /\ l \in Nat /\ Len(idents) \in Nat
      /\ AtFile <=> l = 1
      /\ DOMAIN scopes = 1..l /\ Prior(d) = scopes[l].map[n]
  BY <1>2, Typed DEF Prior, FindInCurScope, Current
<1>a. l \in Nat
  BY <1>3
<1>b. \A k \in 1..l : l = 1 => k = l
  <2> HIDE DEF l
  <2> QED
    BY <1>a
<1>4. \A k \in 1..l : DOMAIN scopes[k].map = Names
      /\ \A m \in Names : scopes[k].map[m] \in 0..Len(idents)
  <2>1. \A k \in 1..l : scopes[k] \in ScopeOver(Len(idents))
    BY <1>3
  <2> QED
    BY <2>1 DEF ScopeOver
<1>5. /\ DOMAIN sc2 = 1..l
      /\ \A k \in 1..l, m \in Names :
           sc2[k].map[m] = IF k = l /\ m = n THEN at ELSE scopes[k].map[m]
  BY <1>1, ScopesAre
<1>6. Scoped = EnvOf(scopes, idents, types)
  BY ToldNow
<1>7. Ordinary \subseteq Names
  BY DEF Ordinary
<1>8. ASSUME NEW k \in 1..l, NEW m \in Ordinary, ~(k = l /\ m = n)
      PROVE  ToldOf(scopes[k].map[m], id2, ty2) = ToldOf(scopes[k].map[m], idents, types)
  <2> DEFINE i == scopes[k].map[m]
  <2>1. CASE i = Nothing
    BY <2>1 DEF ToldOf
  <2>2. CASE i # Nothing
    <3>1. i \in DOMAIN idents
      BY <1>2, <1>4, <1>7, <2>2, Typed
    <3>2. idents[i].name = m
      BY <1>3, <1>7, <2>2 DEF Ready, ToldInv, Told, NamesRight
    <3>3. i # at \/ ~AtFile
      <4>1. CASE i = at
        <5>1. m = n
          BY <1>1, <3>1, <3>2, <4>1, PlacesDiffer
        <5>2. k # l
          BY <1>8, <5>1
        <5>3. l # 1
          BY <1>b, <5>2
        <5> QED
          BY <1>3, <5>3
      <4> QED
        BY <4>1
    <3> QED
      BY <3>1, <3>3, OthersKept
  <2> QED
    BY <2>1, <2>2
<1> DEFINE row(k) == [m \in Ordinary |-> ToldOf(sc2[k].map[m], id2, ty2)]
           old(k) == [m \in Ordinary |-> ToldOf(scopes[k].map[m], idents, types)]
<1>9. \A k \in 1..l : k # l => row(k) = old(k)
  BY <1>5, <1>7, <1>8
<1>10. row(l) = [old(l) EXCEPT ![n] = new]
  <2>1. l \in 1..l
    BY <1>3
  <2>2. ASSUME NEW m \in Ordinary
        PROVE  row(l)[m] = IF m = n THEN new ELSE old(l)[m]
    <3>1. m \in Names
      BY <1>7
    <3>2. sc2[l].map[m] = IF m = n THEN at ELSE scopes[l].map[m]
      BY <1>5, <2>1, <3>1
    <3>3. m # n => ToldOf(scopes[l].map[m], id2, ty2) = ToldOf(scopes[l].map[m], idents, types)
      BY <1>8, <2>1
    <3> HIDE DEF sc2
    <3> QED
      BY <3>2, <3>3
  <2> HIDE DEF new, sc2
  <2> QED
    BY <1>2, <2>2
<1>11. EnvOf(sc2, id2, ty2) = [k \in 1..l |-> row(k)]
  BY <1>5 DEF EnvOf
<1>12. Scoped = [k \in 1..l |-> old(k)]
  BY <1>3, <1>6 DEF EnvOf
<1>13. Len(Scoped) = l
  <2>1. Standard!Level = l
    BY <1>2, View
  <2> QED
    BY <2>1 DEF Standard!Level
<1>14. Standard!Bind(Scoped, n, new) = [Scoped EXCEPT ![l][n] = new]
  BY <1>13 DEF Standard!Bind
<1> HIDE DEF row, old, new, n, sc2
<1>15. [Scoped EXCEPT ![l][n] = new] = [k \in 1..l |-> row(k)]
  <2>1. l \in 1..l
    BY <1>3
  <2>2. [Scoped EXCEPT ![l][n] = new] = [Scoped EXCEPT ![l] = [Scoped[l] EXCEPT ![n] = new]]
    OBVIOUS
  <2>3. Scoped[l] = old(l) /\ DOMAIN Scoped = 1..l /\ \A k \in 1..l : Scoped[k] = old(k)
    BY <1>12, <2>1
  <2>4. [Scoped EXCEPT ![l] = [Scoped[l] EXCEPT ![n] = new]] = [Scoped EXCEPT ![l] = row(l)]
    BY <1>10, <2>3
  <2>5. [Scoped EXCEPT ![l] = row(l)] = [k \in 1..l |-> row(k)]
    BY <1>9, <2>1, <2>3
  <2> QED
    BY <2>2, <2>4, <2>5
<1> QED
  BY <1>1, <1>11, <1>14, <1>15 DEF sc2, n

-----------------------------------------------------------------------------
\* What a declaration of a name with linkage agrees with.
Agrees(d) ==
  Standard!Linkage(d) # "none" =>
    \A i \in LinkedIn(d.name, idents) :
      /\ idents[i].linkage = Standard!Linkage(d)
      /\ Akin(Standard!FullType(d), Written(types[idents[i].type]))

\* The type that adds to another is compatible with it.
LEMMA FullAkin ==
  ASSUME NEW d, Akin(Standard!Type(d), Standard!TypeBefore(d))
  PROVE  Akin(Standard!FullType(d), Standard!Type(d))
<1> DEFINE t == Standard!Type(d)
           b == Standard!TypeBefore(d)
           own == IF d.init /\ t = "int[]" THEN "int[2]" ELSE t
<1>1. Standard!FullType(d) = IF "int[2]" \in {own, b} THEN "int[2]" ELSE own
  BY DEF Standard!FullType, Standard!Composite
<1>2. Akin(own, t)
  BY DEF Akin
<1>3. Akin(b, t)
  BY AkinFacts
<1> DEFINE full == Standard!FullType(d)
<1>4. full = IF own = "int[2]" \/ b = "int[2]" THEN "int[2]" ELSE own
  BY <1>1
<1> HIDE DEF t, b, own, full
<1>5. CASE own = "int[2]" \/ b # "int[2]"
  <2>1. full = own
    BY <1>4, <1>5
  <2> QED
    BY <1>2, <2>1 DEF full, t
<1>6. CASE own # "int[2]" /\ b = "int[2]"
  <2>1. full = b
    BY <1>4, <1>6
  <2> QED
    BY <1>3, <2>1 DEF full, t
<1> QED
  BY <1>5, <1>6

\* A declaration with a meaning agrees with those before it.
LEMMA MeaningAgrees ==
  ASSUME NEW d, Ready(d), ~Standard!Undefined(d)
  PROVE  Agrees(d) /\ (Standard!Linkage(d) # "none" => Akin(Standard!FullType(d), Standard!Type(d)))
<1> SUFFICES ASSUME Standard!Linkage(d) # "none"
             PROVE  /\ \A i \in LinkedIn(d.name, idents) :
                         /\ idents[i].linkage = Standard!Linkage(d)
                         /\ Akin(Standard!FullType(d), Written(types[idents[i].type]))
                    /\ Akin(Standard!FullType(d), Standard!Type(d))
  BY DEF Agrees
<1> DEFINE B == AllLinked[d.name]
           l == Standard!Linkage(d)
           F == Find(scopes, d.name)
           W == Standard!Type(d)
<1>1. /\ B.linkage = "none" <=> LinkedIn(d.name, idents) = {}
      /\ \A i \in LinkedIn(d.name, idents) :
           B.linkage = idents[i].linkage /\ Akin(B.type, Written(types[idents[i].type]))
  BY BeforeView
<1>2. B.linkage # "none" => l = B.linkage /\ Akin(B.type, W)
  BY AkinFacts DEF Standard!Undefined
<1>3. ASSUME NEW i \in LinkedIn(d.name, idents)
      PROVE  idents[i].linkage = l /\ Akin(W, Written(types[idents[i].type]))
  <2>1. B.linkage # "none"
    BY <1>1
  <2>2. Akin(W, B.type) /\ Akin(B.type, Written(types[idents[i].type]))
    BY <1>1, <1>2, <2>1, AkinFacts
  <2> QED
    BY <1>1, <1>2, <2>1, <2>2, AkinFacts
<1>4. Akin(W, Standard!TypeBefore(d))
  <2>1. Standard!Visible(d.name) = ToldOf(F, idents, types)
    BY NameView
  <2>2. CASE F = Nothing
    <3>1. Standard!Visible(d.name).linkage = "none"
      BY <2>1, <2>2 DEF ToldOf
    <3> QED
      BY <3>1 DEF Standard!TypeBefore, Akin
  <2>3. CASE F # Nothing /\ idents[F].linkage = "none"
    <3>1. F \in DOMAIN idents
      BY <2>3, FoundName
    <3>2. Standard!Visible(d.name).linkage = "none"
      BY <2>1, <2>3, <3>1, ToldView DEF Ready
    <3> QED
      BY <3>2 DEF Standard!TypeBefore, Akin
  <2>4. CASE F # Nothing /\ idents[F].linkage # "none"
    <3>1. F \in DOMAIN idents /\ idents[F].name = d.name
      BY <2>4, FoundName
    <3>2. Standard!Visible(d.name).linkage # "none" /\ Standard!Visible(d.name).type = Written(types[idents[F].type])
      BY <2>1, <2>4, <3>1, ToldView DEF Ready
    <3>3. Standard!TypeBefore(d) = Written(types[idents[F].type])
      BY <3>2 DEF Standard!TypeBefore
    <3>4. F \in LinkedIn(d.name, idents)
      BY <2>4, <3>1 DEF LinkedIn
    <3> QED
      BY <1>3, <3>3, <3>4
  <2> QED
    BY <2>2, <2>3, <2>4
<1>5. Akin(Standard!FullType(d), W)
  BY <1>4, FullAkin
<1> QED
  BY <1>3, <1>5, AkinFacts

-----------------------------------------------------------------------------
\* The identifiers and types, after a declaration.
LEMMA UnsharedOutcome ==
  ASSUME NEW d, Ready(d), NEW at, NEW id2, NEW ty2, NEW ex2, NEW u2, NEW b2,
         Outcome(d, at, id2, ty2, ex2, u2, b2)
  PROVE  Unshared(id2, ty2)
<1>1. IdentsOutcome(d, at, id2) /\ TypesOutcome(at, id2, ty2)
  BY DEF Outcome
<1> SUFFICES ASSUME NEW i \in DOMAIN id2, NEW j \in DOMAIN id2, i # j, id2[i].type = id2[j].type
             PROVE  ~IsOpen(ty2[id2[i].type])
  BY DEF Unshared
<1>2. ASSUME NEW k \in DOMAIN id2, k \notin DOMAIN idents, k # at
      PROVE  ~IsOpen(ty2[id2[k].type])
  <2>1. id2[k].type = 1
    BY <1>1, <1>2 DEF IdentsOutcome, IntIdent, IntType
  <2>2. ty2[1].shape = "int"
    BY <1>1 DEF TypesOutcome, TypesKnown
  <2> QED
    BY <2>1, <2>2 DEF IsOpen
<1>3. ASSUME NEW k \in DOMAIN idents, NEW m \in DOMAIN idents, k # m, k # at, id2[k].type = id2[m].type
      PROVE  ~IsOpen(ty2[id2[k].type])
  <2>1. id2[k].type = idents[k].type /\ id2[m].type = idents[m].type
    BY <1>1 DEF IdentsOutcome
  <2>2. ~IsOpen(types[idents[k].type])
    BY <1>3, <2>1 DEF Ready, ToldInv, Told, Unshared
  <2>3. KeptType(types[idents[k].type], ty2[id2[k].type])
    BY <1>3, OthersKept
  <2>4. types[idents[k].type].shape \in {"int", "array", "function"}
    <3>1. types[idents[k].type] \in HeapType
      BY ToldView DEF Ready
    <3> QED
      BY <3>1 DEF HeapType
  <2> QED
    BY <2>2, <2>3, <2>4, KeptWritten
<1>4. ASSUME at \notin DOMAIN idents, NEW k \in DOMAIN idents, id2[k].type = id2[at].type
      PROVE  ~IsOpen(ty2[id2[k].type])
  <2>1. id2[k].type \in DOMAIN types
    <3>1. id2[k].type = idents[k].type
      BY <1>1 DEF IdentsOutcome
    <3> QED
      BY <3>1, ToldView DEF Ready
  <2> QED
    BY <1>1, <1>4, <2>1 DEF TypesOutcome
<1>5. CASE i \in DOMAIN idents /\ j \in DOMAIN idents
  <2>1. CASE i # at
    BY <1>3, <1>5, <2>1
  <2>2. CASE j # at
    BY <1>3, <1>5, <2>2
  <2> QED
    BY <2>1, <2>2
<1>6. CASE i \notin DOMAIN idents
  <2>1. CASE i # at
    BY <1>2, <1>6, <2>1
  <2>2. CASE i = at
    BY <1>2, <1>4, <1>6, <2>2
  <2> QED
    BY <2>1, <2>2
<1>7. CASE j \notin DOMAIN idents
  <2>1. CASE j # at
    BY <1>2, <1>7, <2>1
  <2>2. CASE j = at
    BY <1>2, <1>4, <1>7, <2>2
  <2> QED
    BY <2>1, <2>2
<1> QED
  BY <1>5, <1>6, <1>7

\* The classes.
LEMMA ClassesOutcome ==
  ASSUME NEW d, Ready(d), NEW at, NEW id2, NEW ty2, NEW ex2, NEW u2, NEW b2,
         Outcome(d, at, id2, ty2, ex2, u2, b2)
  PROVE  ClassesRight(id2, ty2)
<1>1. IdentsOutcome(d, at, id2) /\ TypesOutcome(at, id2, ty2)
  BY DEF Outcome
<1> SUFFICES ASSUME NEW i \in DOMAIN id2 PROVE ClassRight(id2[i], ty2)
  BY DEF ClassesRight
<1>2. CASE i = at
  BY <1>1, <1>2 DEF TypesOutcome
<1>3. CASE i # at /\ i \notin DOMAIN idents
  BY <1>1, <1>3 DEF IdentsOutcome, IntIdent, ClassRight
<1>4. CASE i # at /\ i \in DOMAIN idents
  <2>1. id2[i] = idents[i] /\ KeptType(types[idents[i].type], ty2[idents[i].type])
    <3>1. KeptType(types[idents[i].type], ty2[id2[i].type]) /\ id2[i].type = idents[i].type
      BY <1>4, OthersKept
    <3> QED
      BY <1>1, <1>4, <3>1 DEF IdentsOutcome
  <2>2. ClassRight(idents[i], types)
    BY <1>4 DEF Ready, ToldInv, Told, ClassesRight
  <2>3. idents[i].class = "object" => ~IsFunction(types[idents[i].type])
    BY <1>4 DEF Ready, IInv, Sound, IdentsOK
  <2>4. idents[i] \in Ident
    BY <1>4, ToldView DEF Ready
  <2>5. idents[i].class \in {"ident", "object", "enumerator"}
    BY <2>4 DEF Ident
  <2>6. IsFunction(types[idents[i].type]) <=> IsFunction(ty2[idents[i].type])
    BY <2>1 DEF KeptType, IsFunction
  <2>7. idents[i].class = "object" => ty2[idents[i].type].complete = types[idents[i].type].complete
    BY <2>1, <2>3 DEF KeptType, IsFunction
  <2> QED
    BY <2>1, <2>2, <2>5, <2>6, <2>7 DEF ClassRight
<1> QED
  BY <1>2, <1>3, <1>4

\* The linkages and types of a name.
LEMMA AgreedOutcome ==
  ASSUME NEW d, Ready(d), Agrees(d), NEW at, NEW id2, NEW ty2, NEW ex2, NEW u2, NEW b2,
         Outcome(d, at, id2, ty2, ex2, u2, b2)
  PROVE  Agreed(id2, ty2)
<1> DEFINE W(i) == Written(ty2[id2[i].type])
           V(i) == Written(types[idents[i].type])
           Linked2(i, j) == id2[i].name = id2[j].name /\ id2[i].linkage # "none" /\ id2[j].linkage # "none"
<1>1. IdentsOutcome(d, at, id2) /\ ToldOf(at, id2, ty2) = Standard!Binding(d)
  BY DEF Outcome
<1>2. at # Nothing /\ id2[at].name = d.name
  BY <1>1, PlacesDiffer DEF IdentsOutcome
<1>3. id2[at].linkage = Standard!Linkage(d) /\ W(at) = Standard!FullType(d)
  <2>1. ToldOf(at, id2, ty2).linkage = id2[at].linkage /\ ToldOf(at, id2, ty2).type = W(at)
    BY <1>2 DEF ToldOf
  <2> QED
    BY <1>1, <2>1 DEF Standard!Binding
<1>4. ASSUME NEW i \in DOMAIN id2, i # at, id2[i].linkage # "none"
      PROVE  i \in DOMAIN idents /\ id2[i] = idents[i] /\ W(i) = V(i)
  <2>1. i \in DOMAIN idents
    BY <1>1, <1>4 DEF IdentsOutcome, IntIdent
  <2> QED
    BY <1>1, <1>4, <2>1, OthersKept DEF IdentsOutcome
<1>5. ASSUME NEW i \in DOMAIN id2, i # at, Linked2(i, at)
      PROVE  id2[i].linkage = id2[at].linkage /\ Akin(W(at), W(i))
  <2>1. i \in DOMAIN idents /\ id2[i] = idents[i] /\ W(i) = V(i)
    BY <1>4, <1>5
  <2>2. i \in LinkedIn(d.name, idents) /\ Standard!Linkage(d) # "none"
    BY <1>2, <1>3, <1>5, <2>1 DEF LinkedIn
  <2> QED
    BY <1>3, <2>1, <2>2 DEF Agrees
<1> SUFFICES ASSUME NEW i \in DOMAIN id2, NEW j \in DOMAIN id2, Linked2(i, j)
             PROVE  id2[i].linkage = id2[j].linkage /\ Akin(W(i), W(j))
  BY DEF Agreed
<1>6. CASE i = j
  BY <1>6 DEF Akin
<1>7. CASE i # j /\ i = at
  BY <1>5, <1>7
<1>8. CASE i # j /\ j = at
  <2>1. id2[i].linkage = id2[at].linkage /\ Akin(W(at), W(i))
    BY <1>5, <1>8
  <2> QED
    BY <1>8, <2>1, AkinFacts
<1>9. CASE i # j /\ i # at /\ j # at
  <2>1. /\ i \in DOMAIN idents /\ id2[i] = idents[i] /\ W(i) = V(i)
        /\ j \in DOMAIN idents /\ id2[j] = idents[j] /\ W(j) = V(j)
    BY <1>4, <1>9
  <2>2. id2[i].linkage = id2[j].linkage /\ Akin(V(i), V(j))
    BY <2>1 DEF Ready, ToldInv, Told, Agreed
  <2> QED
    BY <2>1, <2>2
<1> QED
  BY <1>6, <1>7, <1>8, <1>9

-----------------------------------------------------------------------------
\* An entry is added to the unit.
LEMMA UnitLonger ==
  ASSUME NEW u, \E S : u \in Seq(S), NEW e
  PROVE  /\ DOMAIN Append(u, e) = DOMAIN u \cup {Len(u) + 1} /\ Len(u) + 1 \notin DOMAIN u
         /\ Len(u) + 1 \in DOMAIN Append(u, e)
         /\ \A k \in DOMAIN u : k \in DOMAIN Append(u, e) /\ Append(u, e)[k] = u[k]
         /\ Append(u, e)[Len(u) + 1] = e
<1>1. PICK S : u \in Seq(S)
  OBVIOUS
<1> DEFINE R == S \cup {e}
<1>2. u \in Seq(R) /\ e \in R
  BY <1>1
<1> HIDE DEF R
<1> QED
  BY <1>2

\* Every identifier that is declared is in the unit.
LEMMA EnteredOutcome ==
  ASSUME NEW d, Ready(d), NEW at, NEW id2, NEW ty2, NEW ex2, NEW u2, NEW b2,
         Outcome(d, at, id2, ty2, ex2, u2, b2)
  PROVE  DeclsEntered(id2, u2)
<1>1. IdentsOutcome(d, at, id2) /\ UnitOutcome(d, at, id2, ex2, u2, b2)
  BY DEF Outcome
<1>2. \E S : unit \in Seq(S)
  BY DEF Ready, IInv, UnitOK
<1>3. ASSUME NEW i, HasEntry(i, unit)
      PROVE  HasEntry(i, u2)
  <2>1. CASE u2 = unit
    BY <1>3, <2>1
  <2>2. CASE u2 = Append(unit, EntryOf(at))
    <3>1. PICK k \in DOMAIN unit : unit[k].ident = i /\ unit[k].what = "declaration"
      BY <1>3 DEF HasEntry
    <3>2. k \in DOMAIN u2 /\ u2[k] = unit[k]
      BY <1>2, <2>2, UnitLonger
    <3> QED
      BY <3>1, <3>2 DEF HasEntry
  <2> QED
    BY <1>1, <2>1, <2>2 DEF UnitOutcome
<1>4. \A i \in DOMAIN idents : idents[i].decl => HasEntry(i, unit)
  BY DEF Ready, ToldInv, Told, DeclsEntered
<1>5. ASSUME id2[at].decl PROVE HasEntry(at, u2)
  <2>1. CASE u2 = unit
    <3>1. (at \in DOMAIN idents /\ idents[at].decl) \/ u2 = Append(unit, EntryOf(at))
      BY <1>1, <1>5 DEF UnitOutcome
    <3>2. ASSUME unit = Append(unit, EntryOf(at)) PROVE FALSE
      BY <1>2, <3>2, UnitLonger
    <3> QED
      BY <1>3, <1>4, <2>1, <3>1, <3>2
  <2>2. CASE u2 = Append(unit, EntryOf(at))
    <3>1. Len(unit) + 1 \in DOMAIN u2 /\ u2[Len(unit) + 1] = EntryOf(at)
      BY <1>2, <2>2, UnitLonger
    <3> QED
      BY <3>1 DEF HasEntry, EntryOf
  <2> QED
    BY <1>1, <2>1, <2>2 DEF UnitOutcome
<1> SUFFICES ASSUME NEW i \in DOMAIN id2, id2[i].decl PROVE HasEntry(i, u2)
  BY DEF DeclsEntered
<1>6. CASE i = at
  BY <1>5, <1>6
<1>7. CASE i # at /\ i \in DOMAIN idents
  BY <1>1, <1>3, <1>4, <1>7 DEF IdentsOutcome
<1>8. CASE i # at /\ i \notin DOMAIN idents
  BY <1>1, <1>8 DEF IdentsOutcome, IntIdent
<1> QED
  BY <1>6, <1>7, <1>8

\* What is found by a name has it.
LEMMA NamesOutcome ==
  ASSUME NEW d, Ready(d), NEW at, NEW id2, NEW ty2, NEW ex2, NEW u2, NEW b2,
         Outcome(d, at, id2, ty2, ex2, u2, b2)
  PROVE  NamesRight(ScopesOutcome(d, at), id2, ex2)
<1> DEFINE sc2 == ScopesOutcome(d, at)
           l == Len(scopes)
<1>1. IdentsOutcome(d, at, id2) /\ UnitOutcome(d, at, id2, ex2, u2, b2)
  BY DEF Outcome
<1>2. /\ at # Nothing /\ d.name \in Names /\ Soundly
      /\ at \in DOMAIN idents => idents[at].name = d.name
  BY <1>1, PlacesDiffer, ReadyFacts
<1>3. NamesRight(scopes, idents, external)
  BY DEF Ready, ToldInv, Told
<1>4. /\ DOMAIN sc2 = 1..l
      /\ \A k \in 1..l, m \in Names : sc2[k].map[m] = IF k = l /\ m = d.name THEN at ELSE scopes[k].map[m]
  BY <1>1, ScopesAre
<1>5. \A i \in DOMAIN idents : id2[i].name = idents[i].name /\ id2[i].linkage = idents[i].linkage
  BY <1>1, <1>2 DEF IdentsOutcome
<1>6. id2[at].name = d.name
  BY <1>1 DEF IdentsOutcome
<1>7. DOMAIN scopes = 1..l /\ scopes \in Seq(ScopeOver(Len(idents))) /\ external \in [Names -> 0..Len(idents)]
  BY <1>2, Typed
<1> HIDE DEF sc2
<1>8. ASSUME NEW k \in 1..l, NEW m \in Names, sc2[k].map[m] # Nothing
      PROVE  id2[sc2[k].map[m]].name = m
  <2>1. CASE k = l /\ m = d.name
    BY <1>4, <1>6, <2>1
  <2>2. CASE ~(k = l /\ m = d.name)
    <3>1. sc2[k].map[m] = scopes[k].map[m]
      BY <1>4, <2>2
    <3>2. idents[scopes[k].map[m]].name = m
      BY <1>3, <1>7, <1>8, <3>1 DEF NamesRight
    <3>3. scopes[k].map[m] \in 0..Len(idents)
      <4>1. scopes[k] \in ScopeOver(Len(idents))
        BY <1>7
      <4> QED
        BY <4>1 DEF ScopeOver
    <3>4. scopes[k].map[m] \in DOMAIN idents
      BY <1>2, <1>8, <3>1, <3>3, Typed
    <3> QED
      BY <1>5, <3>1, <3>2, <3>4
  <2> QED
    BY <2>1, <2>2
<1>9. ASSUME NEW m \in Names, ex2[m] # Nothing
      PROVE  id2[ex2[m]].name = m /\ id2[ex2[m]].linkage = "external"
  <2>1. ASSUME ex2[m] = external[m]
        PROVE  id2[ex2[m]].name = m /\ id2[ex2[m]].linkage = "external"
    <3>1. external[m] \in DOMAIN idents
      BY <1>2, <1>7, <1>9, <2>1, Typed
    <3>2. idents[external[m]].name = m /\ idents[external[m]].linkage = "external"
      BY <1>3, <1>9, <2>1 DEF NamesRight
    <3> QED
      BY <1>5, <2>1, <3>1, <3>2
  <2>2. CASE ex2 = external
    BY <2>1, <2>2
  <2>3. CASE ex2 = [external EXCEPT ![d.name] = at] /\ id2[at].linkage = "external"
    <3>1. CASE m = d.name
      <4>1. ex2[m] = at
        BY <1>2, <1>7, <2>3, <3>1
      <4> QED
        BY <1>6, <2>3, <3>1, <4>1
    <3>2. CASE m # d.name
      <4>1. ex2[m] = external[m]
        BY <1>7, <2>3, <3>2
      <4> QED
        BY <2>1, <4>1
    <3> QED
      BY <3>1, <3>2
  <2> QED
    BY <1>1, <2>2, <2>3 DEF UnitOutcome
<1> QED
  BY <1>4, <1>8, <1>9 DEF NamesRight, sc2

(* What is known before a declaration is known after it.                   *)
LEMMA ToldOutcome ==
  ASSUME NEW d, Ready(d), Agrees(d), NEW at, NEW id2, NEW ty2, NEW ex2, NEW u2, NEW b2,
         Outcome(d, at, id2, ty2, ex2, u2, b2)
  PROVE  Told(ScopesOutcome(d, at), id2, ty2, ex2, u2)
<1>1. TypesKnown(ty2)
  BY DEF Outcome, TypesOutcome
<1>2. Unshared(id2, ty2)
  BY UnsharedOutcome
<1>3. NamesRight(ScopesOutcome(d, at), id2, ex2)
  BY NamesOutcome
<1>4. ClassesRight(id2, ty2)
  BY ClassesOutcome
<1>5. Agreed(id2, ty2)
  BY AgreedOutcome
<1>6. DeclsEntered(id2, u2)
  BY EnteredOutcome
<1> QED
  BY <1>1, <1>2, <1>3, <1>4, <1>5, <1>6 DEF Told

-----------------------------------------------------------------------------
\* Another identifier with linkage adds to the definition of its name what it did.
LEMMA OthersAdd ==
  ASSUME NEW d, Ready(d), NEW at, NEW id2, NEW ty2, NEW ex2, NEW u2, NEW b2,
         Outcome(d, at, id2, ty2, ex2, u2, b2), NEW i \in DOMAIN idents, i # at
  PROVE  /\ id2[i] = idents[i] /\ Written(ty2[id2[i].type]) = Written(types[idents[i].type])
         /\ DefinesIn(i, id2, u2, b2) <=> DefinesIn(i, idents, unit, body)
         /\ TentIn(i, id2) <=> TentIn(i, idents)
<1>1. IdentsOutcome(d, at, id2) /\ UnitOutcome(d, at, id2, ex2, u2, b2)
  BY DEF Outcome
<1>2. id2[i] = idents[i] /\ i # 0
  BY <1>1, ToldView DEF IdentsOutcome, Ready, Nothing
<1>3. b2.ident = i <=> body.ident = i
  BY <1>1, <1>2 DEF UnitOutcome, Nobody, Nothing
<1>4. (\E k \in DOMAIN u2 : u2[k].what = "function" /\ u2[k].ident = i)
        <=> \E k \in DOMAIN unit : unit[k].what = "function" /\ unit[k].ident = i
  <2>1. CASE u2 = unit
    BY <2>1
  <2>2. CASE u2 = Append(unit, EntryOf(at))
    <3>1. \E S : unit \in Seq(S)
      BY DEF Ready, IInv, UnitOK
    <3>2. EntryOf(at).what # "function"
      BY DEF EntryOf
    <3> QED
      BY <2>2, <3>1, <3>2, UnitLonger
  <2> QED
    BY <1>1, <2>1, <2>2 DEF UnitOutcome
<1>5. Written(ty2[id2[i].type]) = Written(types[idents[i].type])
  BY OthersKept
<1> QED
  BY <1>2, <1>3, <1>4, <1>5 DEF DefinesIn, TentIn

\* The identifiers with linkage are those that had it, and the declaration's.
LEMMA LinkedSets ==
  ASSUME NEW d, Ready(d), NEW at, NEW id2, IdentsOutcome(d, at, id2), NEW m
  PROVE  /\ at \notin LinkedIn(m, id2) => LinkedIn(m, id2) = LinkedIn(m, idents) /\ at \notin LinkedIn(m, idents)
         /\ at \in LinkedIn(m, id2) =>
              /\ m = d.name /\ LinkedIn(m, id2) = LinkedIn(m, idents) \cup {at}
              /\ at \in DOMAIN idents => at \in LinkedIn(m, idents)
         /\ LinkedIn(m, idents) \subseteq DOMAIN idents
<1>1. at \in DOMAIN idents => idents[at].name = d.name /\ id2[at].linkage = idents[at].linkage
  BY PlacesDiffer DEF IdentsOutcome
<1>2. at \in DOMAIN id2 /\ id2[at].name = d.name
  BY DEF IdentsOutcome
<1>3. \A i \in DOMAIN idents : i \in DOMAIN id2 /\ (i # at => id2[i] = idents[i])
  BY DEF IdentsOutcome
<1>4. \A i \in DOMAIN id2 : i # at /\ id2[i].linkage # "none" => i \in DOMAIN idents
  BY DEF IdentsOutcome, IntIdent
<1>5. \A i : i # at => (i \in LinkedIn(m, id2) <=> i \in LinkedIn(m, idents))
  BY <1>3, <1>4 DEF LinkedIn
<1>6. at \in LinkedIn(m, idents) => at \in LinkedIn(m, id2) /\ at \in DOMAIN idents
  BY <1>1, <1>2 DEF LinkedIn
<1>7. at \in LinkedIn(m, id2) => m = d.name /\ (at \in DOMAIN idents => at \in LinkedIn(m, idents))
  BY <1>1, <1>2 DEF LinkedIn
<1>8. LinkedIn(m, idents) \subseteq DOMAIN idents
  BY DEF LinkedIn
<1>9. at \notin LinkedIn(m, id2) => LinkedIn(m, id2) = LinkedIn(m, idents) /\ at \notin LinkedIn(m, idents)
  BY <1>5, <1>6
<1>10. at \in LinkedIn(m, id2) => LinkedIn(m, id2) = LinkedIn(m, idents) \cup {at}
  BY <1>5, <1>6
<1> QED
  BY <1>7, <1>8, <1>9, <1>10

\* A name is what it was if its identifiers are.
LEMMA NameKept ==
  ASSUME NEW d, Ready(d), NEW at, NEW id2, NEW ty2, NEW ex2, NEW u2, NEW b2, NEW sc2,
         Outcome(d, at, id2, ty2, ex2, u2, b2),
         UnitOK(u2, sc2, id2, ty2), NEW m \in Ordinary, at \notin LinkedIn(m, id2)
  PROVE  LinkedAsIn(m, id2, ty2, u2, b2) = LinkedAsIn(m, idents, types, unit, body)
<1> DEFINE L == LinkedIn(m, idents)
<1>1. IdentsOutcome(d, at, id2) /\ id2 \in Seq(Ident) /\ idents \in Seq(Ident)
  BY ReadyFacts, Typed DEF Outcome, IdentsOutcome
<1>2. LinkedIn(m, id2) = L /\ at \notin L /\ L \subseteq DOMAIN idents
  BY <1>1, LinkedSets
<1>3. ASSUME NEW i \in L
      PROVE  /\ id2[i] = idents[i] /\ Written(ty2[id2[i].type]) = Written(types[idents[i].type])
             /\ DefinesIn(i, id2, u2, b2) <=> DefinesIn(i, idents, unit, body)
             /\ TentIn(i, id2) <=> TentIn(i, idents)
  <2>1. i \in DOMAIN idents /\ i # at
    BY <1>2
  <2> QED
    BY <2>1, OthersAdd
<1>4. StateIn(m, id2, u2, b2) = StateOfIn(m, id2, u2, b2)
  BY <1>1, ClassesOutcome, EnteredOutcome, StateValue
<1>5. StateIn(m, idents, unit, body) = StateOfIn(m, idents, unit, body)
  BY <1>1, StateValue DEF Ready, IInv, ToldInv, Told
<1> HIDE DEF L
<1>6. StateOfIn(m, id2, u2, b2) = StateOfIn(m, idents, unit, body)
  <2>1. /\ (\E i \in L : DefinesIn(i, id2, u2, b2)) <=> \E i \in L : DefinesIn(i, idents, unit, body)
        /\ (\E i \in L : TentIn(i, id2)) <=> \E i \in L : TentIn(i, idents)
    BY <1>3
  <2> QED
    BY <1>2, <2>1 DEF StateOfIn, L
<1>7. ShownIn(m, id2, ty2) = ShownIn(m, idents, types)
  <2>1. {Written(ty2[id2[i].type]) : i \in L} = {Written(types[idents[i].type]) : i \in L}
    BY <1>3
  <2> QED
    BY <1>2, <2>1 DEF ShownIn, L
<1>8. LinkageIn(m, id2) = LinkageIn(m, idents)
  <2> DEFINE Mixed2 == \E i, j \in L : id2[i].linkage # id2[j].linkage
             Mixed == \E i, j \in L : idents[i].linkage # idents[j].linkage
             All2(l) == \A i \in L : id2[i].linkage = l
             All(l) == \A i \in L : idents[i].linkage = l
             One2 == CHOOSE l \in Linkages : All2(l)
             One == CHOOSE l \in Linkages : All(l)
  <2>1. Mixed2 <=> Mixed
    BY <1>3
  <2>2. \A l \in Linkages : All2(l) <=> All(l)
    BY <1>3
  <2>3. One2 = One
    <3> HIDE DEF All2, All
    <3> QED
      BY <2>2
  <2>4. LinkageIn(m, id2) = IF Mixed2 THEN "mixed" ELSE One2
    BY <1>2 DEF LinkageIn
  <2>5. LinkageIn(m, idents) = IF Mixed THEN "mixed" ELSE One
    BY DEF LinkageIn, L
  <2> HIDE DEF Mixed2, Mixed, One2, One
  <2> QED
    BY <2>1, <2>3, <2>4, <2>5
<1>9. TypeIn(m, id2, ty2) = TypeIn(m, idents, types)
  BY <1>7 DEF TypeIn
<1> QED
  BY <1>2, <1>4, <1>5, <1>6, <1>8, <1>9 DEF LinkedAsIn, L

-----------------------------------------------------------------------------
\* What becomes of the name of a declaration that has linkage.
JoinedType(d) ==
  IF AllLinked[d.name].linkage = "none" THEN Standard!FullType(d)
  ELSE Standard!Composite(Standard!FullType(d), AllLinked[d.name].type)

\* It is defined, or tentatively so, if it was or the declaration does it.
LEMMA StateJoined ==
  ASSUME NEW d, Ready(d), NEW at, NEW id2, NEW ty2, NEW ex2, NEW u2, NEW b2, NEW sc2,
         Outcome(d, at, id2, ty2, ex2, u2, b2),
         UnitOK(u2, sc2, id2, ty2), at \in LinkedIn(d.name, id2)
  PROVE  StateIn(d.name, id2, u2, b2) = Standard!State(d)
<1> DEFINE n == d.name
           L == LinkedIn(n, idents)
           Tentative == AtFile /\ Standard!Kind(d) = "object" /\ d.storage # "extern"
           s == AllLinked[n].state
           Def == \E i \in L : DefinesIn(i, idents, unit, body)
           Tent == \E i \in L : TentIn(i, idents)
<1>1. IdentsOutcome(d, at, id2) /\ UnitOutcome(d, at, id2, ex2, u2, b2) /\ id2 \in Seq(Ident)
  BY DEF Outcome, IdentsOutcome
<1>2. /\ LinkedIn(n, id2) = L \cup {at} /\ L \subseteq DOMAIN idents
      /\ at \in DOMAIN idents => at \in L
  BY <1>1, LinkedSets
<1>3. id2[at].linkage # "none"
  BY DEF LinkedIn
<1>4. StateIn(n, id2, u2, b2) = StateOfIn(n, id2, u2, b2)
  BY <1>1, ClassesOutcome, EnteredOutcome, StateValue
<1>5. s = IF Def THEN "defined" ELSE IF Tent THEN "tentative" ELSE "none"
  BY BeforeView DEF StateOfIn
<1>6. /\ DefinesIn(at, id2, u2, b2)
           <=> (at \in DOMAIN idents /\ DefinesIn(at, idents, unit, body)) \/ Standard!Defines(d)
      /\ ~Standard!Defines(d) =>
           (TentIn(at, id2) <=> (at \in DOMAIN idents /\ TentIn(at, idents)) \/ Tentative)
  BY <1>1, <1>3 DEF UnitOutcome
<1>7. ASSUME NEW i \in L, i # at
      PROVE  /\ DefinesIn(i, id2, u2, b2) <=> DefinesIn(i, idents, unit, body)
             /\ TentIn(i, id2) <=> TentIn(i, idents)
  <2>1. i \in DOMAIN idents
    BY <1>2
  <2> QED
    BY <1>7, <2>1, OthersAdd
<1>8. Standard!AtFile <=> AtFile
  BY NameView
<1> HIDE DEF L
<1>9. (\E i \in L \cup {at} : DefinesIn(i, id2, u2, b2)) <=> Def \/ Standard!Defines(d)
  BY <1>2, <1>6, <1>7
<1>10. ~Standard!Defines(d) => ((\E i \in L \cup {at} : TentIn(i, id2)) <=> Tent \/ Tentative)
  BY <1>2, <1>6, <1>7
<1>11. StateOfIn(n, id2, u2, b2) =
         IF \E i \in L \cup {at} : DefinesIn(i, id2, u2, b2) THEN "defined"
         ELSE IF \E i \in L \cup {at} : TentIn(i, id2) THEN "tentative" ELSE "none"
  BY <1>2 DEF StateOfIn
<1>12. Standard!State(d) = IF Standard!Defines(d) THEN "defined"
                           ELSE IF Tentative /\ s = "none" THEN "tentative" ELSE s
  BY <1>8 DEF Standard!State
<1> HIDE DEF n, Tentative, s, Def, Tent
<1>13. StateOfIn(n, id2, u2, b2) = IF Def \/ Standard!Defines(d) THEN "defined"
                                   ELSE IF Tent \/ Tentative THEN "tentative" ELSE "none"
  BY <1>9, <1>10, <1>11
<1>14. StateIn(n, id2, u2, b2) = Standard!State(d)
  BY <1>4, <1>5, <1>12, <1>13
<1> QED
  BY <1>14 DEF n

\* Its type is that of the declaration, with the length of one before.
LEMMA TypeJoined ==
  ASSUME NEW d, Ready(d), Agrees(d), NEW at, NEW id2, NEW ty2, NEW ex2, NEW u2, NEW b2,
         Outcome(d, at, id2, ty2, ex2, u2, b2), at \in LinkedIn(d.name, id2)
  PROVE  LinkageIn(d.name, id2) = Standard!Linkage(d) /\ TypeIn(d.name, id2, ty2) = JoinedType(d)
<1> DEFINE n == d.name
           L == LinkedIn(n, idents)
           W2(i) == Written(ty2[id2[i].type])
           W(i) == Written(types[idents[i].type])
           full == Standard!FullType(d)
           B == AllLinked[n]
           t == TypeIn(n, id2, ty2)
<1>1. IdentsOutcome(d, at, id2) /\ TypesOutcome(at, id2, ty2) /\ id2 \in Seq(Ident)
      /\ ToldOf(at, id2, ty2) = Standard!Binding(d)
  BY DEF Outcome, IdentsOutcome
<1>2. /\ LinkedIn(n, id2) = L \cup {at} /\ L \subseteq DOMAIN idents
      /\ at \in DOMAIN idents => at \in L
  BY <1>1, LinkedSets
<1>3. id2[at].linkage = Standard!Linkage(d) /\ W2(at) = full
  <2>1. at # Nothing
    BY <1>1, PlacesDiffer
  <2>2. ToldOf(at, id2, ty2).linkage = id2[at].linkage /\ ToldOf(at, id2, ty2).type = W2(at)
    BY <2>1 DEF ToldOf
  <2> QED
    BY <1>1, <2>2 DEF Standard!Binding
<1>4. Agreed(id2, ty2)
  BY AgreedOutcome
<1>5. /\ LinkageIn(n, id2) = id2[at].linkage
      /\ t = IF \E j \in LinkedIn(n, id2) : W2(j) = "int[2]" THEN "int[2]" ELSE W2(at)
  BY <1>1, <1>4, LinkedValue
<1>6. ASSUME NEW i \in L, i # at PROVE W2(i) = W(i)
  <2>1. i \in DOMAIN idents
    BY <1>2
  <2> QED
    BY <1>6, <2>1, OthersAdd
<1>7. ASSUME at \in L, W(at) = "int[2]" PROVE W2(at) = "int[2]"
  <2>1. at \in DOMAIN idents
    BY <1>2, <1>7
  <2>2. id2[at].type = idents[at].type /\ idents[at].type \in DOMAIN types
        /\ types[idents[at].type] \in HeapType
    BY <1>1, <2>1, ToldView DEF IdentsOutcome, Ready
  <2>3. ~IsOpen(types[idents[at].type])
    BY <1>7 DEF IsOpen, Written
  <2>4. KeptType(types[idents[at].type], ty2[idents[at].type])
    BY <1>1, <2>2, <2>3 DEF TypesOutcome
  <2>5. types[idents[at].type].shape \in {"int", "array", "function"}
    BY <2>2 DEF HeapType
  <2> QED
    BY <1>7, <2>2, <2>4, <2>5, KeptWritten
<1>8. B.linkage = "none" <=> L = {}
  BY BeforeView
<1>9. L # {} => (B.type = "int[2]" <=> \E j \in L : W(j) = "int[2]")
  <2> SUFFICES ASSUME NEW i \in L PROVE B.type = "int[2]" <=> \E j \in L : W(j) = "int[2]"
    OBVIOUS
  <2>1. n \in Ordinary /\ idents \in Seq(Ident) /\ Agreed(idents, types)
    BY ReadyFacts, Typed DEF Ready, ToldInv, Told
  <2>2. B = LinkedAsIn(n, idents, types, unit, body)
    BY <2>1, ToldNow DEF AllLinkedIn
  <2>3. B.type = TypeIn(n, idents, types)
    BY <2>2 DEF LinkedAsIn
  <2>4. TypeIn(n, idents, types) = IF \E j \in LinkedIn(n, idents) : W(j) = "int[2]" THEN "int[2]" ELSE W(i)
    BY <2>1, LinkedValue
  <2> QED
    BY <2>3, <2>4
<1>10. JoinedType(d) = IF B.linkage = "none" THEN full
                       ELSE IF full = "int[2]" \/ B.type = "int[2]" THEN "int[2]" ELSE full
  BY DEF JoinedType, Standard!Composite
<1> DEFINE Two2 == \E j \in LinkedIn(n, id2) : W2(j) = "int[2]"
           Two == \E j \in L : W(j) = "int[2]"
<1>11. Two2 <=> full = "int[2]" \/ Two
  <2> HIDE DEF L, W, W2, full
  <2>1. Two2 <=> \E j \in L \cup {at} : W2(j) = "int[2]"
    BY <1>2
  <2> QED
    BY <1>3, <1>6, <1>7, <2>1
<1>12. L = {} => ~Two
  OBVIOUS
<1>a. L # {} => (B.type = "int[2]" <=> Two)
  BY <1>9
<1>13. t = IF Two2 THEN "int[2]" ELSE full
  BY <1>3, <1>5
<1> HIDE DEF Two2, Two, L, full, B, t
<1>14. t = JoinedType(d)
  <2>1. CASE L = {}
    <3>1. JoinedType(d) = full
      BY <1>8, <1>10, <2>1
    <3>2. Two2 <=> full = "int[2]"
      BY <1>11, <1>12, <2>1
    <3> QED
      BY <1>13, <3>1, <3>2
  <2>2. CASE L # {}
    <3>1. JoinedType(d) = IF full = "int[2]" \/ B.type = "int[2]" THEN "int[2]" ELSE full
      BY <1>8, <1>10, <2>2
    <3>2. Two2 <=> full = "int[2]" \/ B.type = "int[2]"
      BY <1>a, <1>11, <2>2
    <3> QED
      BY <1>13, <3>1, <3>2
  <2> QED
    BY <2>1, <2>2
<1> QED
  BY <1>3, <1>5, <1>14 DEF t

(* What the unit has of the names with linkage is what it has by the       *)
(* standard.                                                               *)
LEMMA LinkedOutcome ==
  ASSUME NEW d, Ready(d), Agrees(d), NEW at, NEW id2, NEW ty2, NEW ex2, NEW u2, NEW b2, NEW sc2,
         Outcome(d, at, id2, ty2, ex2, u2, b2), UnitOK(u2, sc2, id2, ty2)
  PROVE  AllLinkedIn(id2, ty2, u2, b2) = Standard!Joined(d)
<1> DEFINE n == d.name
           A2 == AllLinkedIn(id2, ty2, u2, b2)
           A == AllLinkedIn(idents, types, unit, body)
           new == [linkage |-> Standard!Linkage(d), type |-> JoinedType(d), state |-> Standard!State(d)]
<1>1. IdentsOutcome(d, at, id2) /\ ToldOf(at, id2, ty2) = Standard!Binding(d)
  BY DEF Outcome
<1>2. at # Nothing /\ n \in Ordinary /\ at \in DOMAIN id2 /\ id2[at].name = n
  BY <1>1, PlacesDiffer DEF IdentsOutcome
<1>3. id2[at].linkage = Standard!Linkage(d)
  <2>1. ToldOf(at, id2, ty2).linkage = id2[at].linkage
    BY <1>2 DEF ToldOf
  <2> QED
    BY <1>1, <2>1 DEF Standard!Binding
<1>4. \A m : at \in LinkedIn(m, id2) <=> m = n /\ Standard!Linkage(d) # "none"
  BY <1>2, <1>3 DEF LinkedIn
<1>5. \A m \in Ordinary : at \notin LinkedIn(m, id2) => A2[m] = A[m]
  BY NameKept DEF AllLinkedIn
<1>6. Standard!Linkage(d) # "none" => A2[n] = new
  <2> SUFFICES ASSUME Standard!Linkage(d) # "none" PROVE A2[n] = new
    OBVIOUS
  <2>1. at \in LinkedIn(n, id2)
    BY <1>4
  <2>2. A2[n] = [linkage |-> LinkageIn(n, id2), type |-> TypeIn(n, id2, ty2), state |-> StateIn(n, id2, u2, b2)]
    BY <1>2, <2>1 DEF AllLinkedIn, LinkedAsIn
  <2>3. StateIn(n, id2, u2, b2) = Standard!State(d)
    BY <2>1, StateJoined
  <2>4. LinkageIn(n, id2) = Standard!Linkage(d) /\ TypeIn(n, id2, ty2) = JoinedType(d)
    BY <2>1, TypeJoined
  <2> QED
    BY <2>2, <2>3, <2>4
<1>7. AllLinked = A
  BY ToldNow
<1>8. Standard!Joined(d) = IF Standard!Linkage(d) = "none" THEN A ELSE [A EXCEPT ![n] = new]
  <2>1. CASE Standard!Linkage(d) = "none"
    BY <1>7, <2>1 DEF Standard!Joined
  <2>2. CASE Standard!Linkage(d) # "none"
    <3>1. Standard!Joined(d) = [AllLinked EXCEPT ![n] =
             [linkage |-> Standard!Linkage(d), state |-> Standard!State(d),
              type |-> IF @.linkage = "none" THEN Standard!FullType(d)
                       ELSE Standard!Composite(Standard!FullType(d), @.type)]]
      BY <2>2 DEF Standard!Joined
    <3>2. Standard!Joined(d) = [AllLinked EXCEPT ![n] = new]
      BY <3>1 DEF JoinedType
    <3> QED
      BY <1>7, <2>2, <3>2
  <2> QED
    BY <2>1, <2>2
<1>9. /\ DOMAIN A = Ordinary /\ DOMAIN A2 = Ordinary
      /\ A = [m \in Ordinary |-> A[m]] /\ A2 = [m \in Ordinary |-> A2[m]]
  BY DEF AllLinkedIn
<1> HIDE DEF A, A2, new, n
<1>10. CASE Standard!Linkage(d) = "none"
  <2>1. \A m \in Ordinary : A2[m] = A[m]
    BY <1>4, <1>5, <1>10
  <2>2. A2 = A
    BY <1>9, <2>1
  <2> QED
    BY <1>8, <1>10, <2>2 DEF A2
<1>11. CASE Standard!Linkage(d) # "none"
  <2>1. \A m \in Ordinary : A2[m] = IF m = n THEN new ELSE A[m]
    BY <1>4, <1>5, <1>6, <1>11
  <2>2. A2 = [A EXCEPT ![n] = new]
    BY <1>2, <1>9, <2>1
  <2> QED
    BY <1>8, <1>11, <2>2 DEF A2
<1> QED
  BY <1>10, <1>11

-----------------------------------------------------------------------------
(* A declaration that the standard gives a meaning, and that is processed. *)
Accepted(d) ==
  /\ Ready(d) /\ d.form # "enumerator" /\ NoGap(d)
  /\ ~Refused(d, NewType(d))
  /\ Standard!Legal(d) /\ ~Standard!Undefined(d)

IsObject(d) == d.storage # "typedef" /\ ~IsFunction(NewType(d))

\* Its identifier o, one that was there or a new one, and whether it has a Declaration.
ChangedTo(d, at, o, declares, init) ==
  /\ at = Prior(d) /\ Prior(d) # Nothing
  /\ o.class = idents[at].class /\ o.type = idents[at].type /\ o.linkage = idents[at].linkage
  /\ types[o.type].shape = NewType(d).shape
  /\ d.storage # "typedef" =>
       o.storage = IF d.storage = "extern" THEN idents[at].storage ELSE idents[at].storage \ {"extern"}
  /\ o.decl <=> idents[at].decl \/ declares
  /\ o.init <=> idents[at].init \/ init

MadeAs(d, o, declares, init) ==
  /\ Prior(d) = Nothing
  /\ o.type = TypeOf(d)
  /\ o.class = "object" => o.storage = {d.storage} \cap {"static", "extern"}
  /\ o.decl <=> declares
  /\ o.init <=> init

IdentsLeft(d, at, id2, declares, init) ==
  /\ at \in DOMAIN id2
  /\ \A i \in DOMAIN idents : i \in DOMAIN id2 /\ (i # at => id2[i] = idents[i])
  /\ \A i \in DOMAIN id2 : i \notin DOMAIN idents /\ i # at => id2[i] = IntIdent("object", d.param)
  /\ id2[at].name = d.name
  /\ id2[at].class = "object" <=> IsObject(d)
  /\ id2[at].class # "enumerator"
  /\ id2[at].linkage = Standard!Linkage(d)
  /\ id2[at].type \in DOMAIN HeapFor(d)
  /\ IF at \in DOMAIN idents THEN ChangedTo(d, at, id2[at], declares, init)
     ELSE MadeAs(d, id2[at], declares, init)

\* The pool has the identifiers, and the parameter.
LEMMA PoolHas ==
  ASSUME NEW d, Ready(d)
  PROVE  /\ Pool(d) \in Seq(Ident) /\ Len(Pool(d)) \in Nat
         /\ \A i \in DOMAIN idents : i \in DOMAIN Pool(d) /\ Pool(d)[i] = idents[i]
         /\ \A i \in DOMAIN Pool(d) : i \notin DOMAIN idents => Pool(d)[i] = IntIdent("object", d.param)
         /\ DOMAIN Pool(d) = 1..Len(Pool(d))
<1>1. /\ Pool(d) \in Seq(Ident) /\ Len(Pool(d)) \in Nat
      /\ \A i \in DOMAIN idents : i \in DOMAIN Pool(d) /\ Pool(d)[i] = idents[i]
  BY ReadyFacts, PoolFacts DEF Sound, IdentsOK
<1>2. \A i \in DOMAIN Pool(d) : i \notin DOMAIN idents => Pool(d)[i] = IntIdent("object", d.param)
  <2>1. CASE HasParam(d)
    <3> DEFINE new == IntIdent("object", d.param)
    <3>1. idents \in Seq(Ident) /\ Pool(d) = Append(idents, new)
      BY <2>1, ReadyFacts, Typed DEF Pool
    <3> HIDE DEF new
    <3>2. \E S : idents \in Seq(S)
      BY <3>1
    <3>3. DOMAIN Append(idents, new) = DOMAIN idents \cup {Len(idents) + 1} /\ Append(idents, new)[Len(idents) + 1] = new
      BY <3>2, UnitLonger
    <3> QED
      BY <3>1, <3>3 DEF new
  <2>2. CASE ~HasParam(d)
    BY <2>2 DEF Pool
  <2> QED
    BY <2>1, <2>2
<1> QED
  BY <1>1, <1>2

\* A new identifier is as the declaration says.
LEMMA NewLeft ==
  ASSUME NEW d, Accepted(d), NEW p, NewPlace(p, d)
  PROVE  /\ IdentsLeft(d, p.at, p.idents, FALSE, FALSE) /\ p.at \notin DOMAIN idents
         /\ p.idents[p.at] = NewIdent(d)
<1> DEFINE new == NewIdent(d)
           at == p.at
           id2 == p.idents
<1>1. /\ Prior(d) = Nothing /\ at = Len(Pool(d)) + 1 /\ id2 = Append(Pool(d), new)
      /\ Ready(d) /\ d.form # "enumerator"
  BY DEF NewPlace, Accepted
<1>2. /\ Pool(d) \in Seq(Ident) /\ Len(Pool(d)) \in Nat
      /\ \A i \in DOMAIN idents : i \in DOMAIN Pool(d) /\ Pool(d)[i] = idents[i]
      /\ \A i \in DOMAIN Pool(d) : i \notin DOMAIN idents => Pool(d)[i] = IntIdent("object", d.param)
  BY <1>1, PoolHas
<1>3. new.class = (IF IsObject(d) THEN "object" ELSE "ident") /\ new.name = d.name /\ new.type = TypeOf(d)
      /\ new.linkage = (IF d.storage = "typedef" THEN "none" ELSE LinkageFound(d, NewType(d)))
      /\ (IsObject(d) => new.storage = {d.storage} \cap {"static", "extern"})
      /\ new.decl = FALSE /\ new.init = FALSE
  BY DEF NewIdent, IsObject
<1>4. new.linkage = Standard!Linkage(d)
  <2>1. CASE d.storage = "typedef"
    BY <1>1, <1>3, <2>1, NoLinkage
  <2>2. CASE d.storage # "typedef"
    BY <1>1, <1>3, <2>2, LinkageView
  <2> QED
    BY <2>1, <2>2
<1>5. TypeOf(d) \in DOMAIN HeapFor(d)
  BY <1>1, ReadyFacts, HeapForKnown
<1> HIDE DEF new, at, id2
<1>6. \E S : Pool(d) \in Seq(S)
  BY <1>2
<1>7. /\ DOMAIN id2 = DOMAIN Pool(d) \cup {at} /\ at \notin DOMAIN Pool(d) /\ at \in DOMAIN id2
      /\ \A i \in DOMAIN Pool(d) : i \in DOMAIN id2 /\ id2[i] = Pool(d)[i]
      /\ id2[at] = new
  BY <1>1, <1>6, UnitLonger
<1>8. at \notin DOMAIN idents
  BY <1>2, <1>7
<1>9. MadeAs(d, new, FALSE, FALSE)
  BY <1>1, <1>3 DEF MadeAs
<1>10. /\ new.class = "object" <=> IsObject(d)
       /\ new.class # "enumerator"
  BY <1>3
<1>11. IdentsLeft(d, at, id2, FALSE, FALSE)
  BY <1>2, <1>3, <1>4, <1>5, <1>7, <1>8, <1>9, <1>10 DEF IdentsLeft
<1> QED
  BY <1>7, <1>8, <1>11 DEF at, id2, new

\* The identifier of the scope is merged with.
LEMMA OldLeft ==
  ASSUME NEW d, Accepted(d), NEW p, OldPlace(p, d)
  PROVE  IdentsLeft(d, p.at, p.idents, FALSE, FALSE) /\ p.at \in DOMAIN idents
<1> DEFINE P == Prior(d)
           o == p.idents[P]
           n == d.name
<1>1. /\ P # Nothing /\ p.at = P /\ Ready(d) /\ d.form # "enumerator" /\ NoGap(d) /\ ~Refused(d, NewType(d))
      /\ p.idents = IF d.storage = "typedef" THEN Pool(d) ELSE [Pool(d) EXCEPT ![P] = Defined(P, d)]
      /\ Standard!Legal(d) /\ ~Standard!Undefined(d)
  BY DEF OldPlace, Accepted
<1>2. /\ Pool(d) \in Seq(Ident) /\ DOMAIN Pool(d) = 1..Len(Pool(d))
      /\ \A i \in DOMAIN idents : i \in DOMAIN Pool(d) /\ Pool(d)[i] = idents[i]
      /\ \A i \in DOMAIN Pool(d) : i \notin DOMAIN idents => Pool(d)[i] = IntIdent("object", d.param)
  BY <1>1, PoolHas
<1>3. /\ P \in DOMAIN idents /\ idents[P].name = n /\ idents[P] \in Ident /\ idents[P].type \in DOMAIN types
      /\ KindIn(P, idents) = ToldOf(P, idents, types).kind
  BY <1>1, FoundName, ToldView DEF Ready
<1>4. /\ DOMAIN p.idents = DOMAIN Pool(d) /\ (\A i \in DOMAIN Pool(d) : i # P => p.idents[i] = Pool(d)[i])
      /\ o = IF d.storage = "typedef" THEN idents[P] ELSE Defined(P, d)
  BY <1>1, <1>2, <1>3
<1>5. /\ o.name = n /\ o.class = idents[P].class /\ o.type = idents[P].type /\ o.linkage = idents[P].linkage
      /\ (d.storage # "typedef" =>
            o.storage = IF d.storage = "extern" THEN idents[P].storage ELSE idents[P].storage \ {"extern"})
      /\ o.decl = idents[P].decl /\ o.init = idents[P].init
      /\ o.decl \in BOOLEAN /\ o.init \in BOOLEAN
  BY <1>3, <1>4 DEF Defined, Ident
<1>6. types[idents[P].type].shape = NewType(d).shape
  BY <1>1, ReadyFacts, PriorFits
<1>7. /\ o.class = "object" <=> IsObject(d)
      /\ o.class # "enumerator" /\ o.linkage = Standard!Linkage(d)
  <2>1. ClassRight(idents[P], types) /\ idents[P].class \in {"ident", "object", "enumerator"}
    BY <1>1, <1>3 DEF Ready, ToldInv, Told, ClassesRight, Ident
  <2>2. CASE d.storage = "typedef"
    <3>1. d.form = "declaration"
      <4>1. ~TypedefBody(d) /\ d \in Declarator
        BY <1>1 DEF NoGap, Ready
      <4> QED
        BY <1>1, <2>2, <4>1 DEF TypedefBody, Declarator
    <3>2. idents[P].class = "ident" /\ ToldOf(P, idents, types) = Standard!Binding(d)
      BY <1>1, <2>2, <3>1, TypedefLegal
    <3>3. ToldOf(P, idents, types).linkage = idents[P].linkage /\ Standard!Binding(d).linkage = Standard!Linkage(d)
      BY <1>1 DEF ToldOf, Standard!Binding
    <3> QED
      BY <1>5, <2>2, <3>2, <3>3 DEF IsObject
  <2>3. CASE d.storage # "typedef"
    <3>1. Joins(d)
      BY <1>1, <2>3, RefusedView, FitsView DEF NoGap
    <3>2. Standard!Linkage(d) # "none" /\ idents[P].linkage # "none"
      BY <3>1 DEF Joins
    <3>3. P \in LinkedIn(n, idents)
      BY <1>3, <3>2 DEF LinkedIn
    <3>4. idents[P].linkage = Standard!Linkage(d)
      BY <1>1, <3>2, <3>3, MeaningAgrees DEF Agrees
    <3>5. idents[P].class = "object" => ~IsFunction(types[idents[P].type])
      BY <1>1, <1>3 DEF Ready, IInv, Sound, IdentsOK
    <3>6. IsFunction(types[idents[P].type]) <=> IsFunction(NewType(d))
      BY <1>6 DEF IsFunction
    <3> QED
      BY <1>5, <2>1, <2>3, <3>2, <3>4, <3>5, <3>6 DEF ClassRight, IsObject
  <2> QED
    BY <2>2, <2>3
<1>8. idents[P].type \in DOMAIN HeapFor(d)
  BY <1>1, <1>3, ReadyFacts, HeapForKnown
<1>9. ChangedTo(d, P, o, FALSE, FALSE)
  BY <1>1, <1>5, <1>6 DEF ChangedTo
<1> HIDE DEF P, o
<1>10. \A i \in DOMAIN idents : i \in DOMAIN p.idents /\ (i # P => p.idents[i] = idents[i])
  BY <1>2, <1>4
<1>11. \A i \in DOMAIN p.idents : i \notin DOMAIN idents /\ i # P => p.idents[i] = IntIdent("object", d.param)
  BY <1>2, <1>4
<1>12. IdentsLeft(d, P, p.idents, FALSE, FALSE)
  BY <1>3, <1>5, <1>7, <1>8, <1>9, <1>10, <1>11 DEF IdentsLeft, o
<1> QED
  BY <1>1, <1>3, <1>12

\* A Declaration is made of it.
LEMMA RecordedLeft ==
  ASSUME NEW d, Ready(d), NEW at, NEW id, IdentsLeft(d, at, id, FALSE, FALSE), id \in Seq(Ident),
         NEW init \in BOOLEAN, NEW id2, id2 = [id EXCEPT ![at] = Recorded(id[at], init)]
  PROVE  IdentsLeft(d, at, id2, TRUE, init)
<1> DEFINE o == id[at]
           new == Recorded(o, init)
<1>1. at \in DOMAIN id /\ o \in Ident
  BY DEF IdentsLeft
<1>2. /\ new.name = o.name /\ new.class = o.class /\ new.type = o.type /\ new.linkage = o.linkage
      /\ new.storage = o.storage /\ new.decl = TRUE /\ new.init = (o.init \/ init) /\ o.init \in BOOLEAN
  BY <1>1 DEF Recorded, Ident
<1>a. id2 = [id EXCEPT ![at] = new]
  OBVIOUS
<1> HIDE DEF new
<1>3. DOMAIN id2 = DOMAIN id /\ id2[at] = new /\ \A i \in DOMAIN id : i # at => id2[i] = id[i]
  BY <1>1, <1>a
<1>4. CASE at \in DOMAIN idents
  <2>1. ChangedTo(d, at, o, FALSE, FALSE) /\ idents[at] \in Ident
    BY <1>4, ToldView DEF IdentsLeft, Ready
  <2>2. idents[at].init \in BOOLEAN
    BY <2>1 DEF Ident
  <2>3. ChangedTo(d, at, new, TRUE, init)
    BY <1>2, <2>1, <2>2 DEF ChangedTo
  <2> QED
    BY <1>2, <1>3, <1>4, <2>3 DEF IdentsLeft, new
<1>5. CASE at \notin DOMAIN idents
  <2>1. MadeAs(d, o, FALSE, FALSE)
    BY <1>5 DEF IdentsLeft
  <2>2. MadeAs(d, new, TRUE, init)
    BY <1>2, <2>1 DEF MadeAs
  <2> QED
    BY <1>2, <1>3, <1>5, <2>2 DEF IdentsLeft, new
<1> QED
  BY <1>4, <1>5

-----------------------------------------------------------------------------
\* The types stay, but for an array that an initializer gives its length.
Lengthened(t2) == t2.shape = "array" /\ t2.complete = TRUE /\ t2.len = 2

TypesLeft(d, t, ty2, sized) ==
  /\ \A s \in DOMAIN HeapFor(d) :
       /\ s \in DOMAIN ty2
       /\ IF sized /\ s = t /\ IsOpen(HeapFor(d)[s]) THEN Lengthened(ty2[s]) ELSE KeptType(HeapFor(d)[s], ty2[s])
  /\ \A s \in DOMAIN ty2 : s \in DOMAIN HeapFor(d)

\* ProcessDeclarator leaves them.
LEMMA KeptLeft ==
  ASSUME NEW d, Ready(d), NEW ty \in Seq(HeapType), Kept(HeapFor(d), ty), NEW t
  PROVE  TypesLeft(d, t, ty, FALSE)
<1>1. HeapFor(d) \in Seq(HeapType)
  BY ReadyFacts, HeapForKnown
<1> DEFINE h == HeapFor(d)
<1>2. h \in Seq(HeapType) /\ Len(ty) = Len(h)
  BY <1>1 DEF Kept
<1> HIDE DEF h
<1>3. DOMAIN ty = DOMAIN h
  BY <1>2
<1> QED
  BY <1>3 DEF TypesLeft, Kept, h

\* An initializer gives the array its length.
LEMMA SizedLeft ==
  ASSUME NEW d, Ready(d), NEW p, NEW id, NEW ty \in Seq(HeapType), NEW at, NEW sc, NEW ex,
         p = [at |-> at, idents |-> id, types |-> ty, scopes |-> sc, external |-> ex],
         TypesLeft(d, id[at].type, ty, FALSE), id[at].type \in DOMAIN HeapFor(d)
  PROVE  TypesLeft(d, id[at].type, Sized(p).types, TRUE)
<1> DEFINE t == id[at].type
           h == HeapFor(d)
           ty2 == Sized(p).types
<1>1. /\ \A s \in DOMAIN h : s \in DOMAIN ty /\ KeptType(h[s], ty[s])
      /\ \A s \in DOMAIN ty : s \in DOMAIN h
      /\ t \in DOMAIN h
  BY DEF TypesLeft
<1>2. h[t] \in HeapType
  BY <1>1, ReadyFacts, HeapForKnown
<1>3. IsOpen(h[t]) <=> ty[t].shape = "array" /\ ~ty[t].complete
  BY <1>1 DEF KeptType, IsOpen
<1>4. CASE ~IsOpen(h[t])
  <2>1. ty2 = ty
    BY <1>3, <1>4 DEF Sized
  <2> HIDE DEF ty2, h, t
  <2> QED
    BY <1>1, <1>4, <2>1 DEF TypesLeft, ty2, h, t
<1>5. CASE IsOpen(h[t])
  <2> DEFINE ty1 == [ty EXCEPT ![t].len = 2]
             ty3 == [ty1 EXCEPT ![t].complete = TRUE]
  <2>0. ty[t].shape = "array" /\ ~ty[t].complete
    BY <1>3, <1>5
  <2>1. Sized(p) = [at |-> at, idents |-> id, types |-> ty3, scopes |-> sc, external |-> ex]
    BY <2>0 DEF Sized
  <2> HIDE DEF ty3
  <2>a. ty2 = ty3
    BY <2>1
  <2> HIDE DEF ty2, ty1, t
  <2>2. ty2 = [ty1 EXCEPT ![t].complete = TRUE]
    BY <2>a DEF ty3
  <2> USE DEF t, ty1
  <2>3. t \in DOMAIN ty /\ ty[t] \in HeapType
    BY <1>1
  <2> HIDE DEF t, ty2
  <2>4. ty1[t] = [ty[t] EXCEPT !.len = 2] /\ DOMAIN ty1 = DOMAIN ty /\ \A s \in DOMAIN ty : s # t => ty1[s] = ty[s]
    BY <2>3
  <2> HIDE DEF ty1
  <2>5. /\ ty2[t] = [ty1[t] EXCEPT !.complete = TRUE] /\ DOMAIN ty2 = DOMAIN ty
        /\ \A s \in DOMAIN ty : s # t => ty2[s] = ty[s]
    BY <2>2, <2>3, <2>4
  <2>6. Lengthened(ty2[t])
    <3>1. ty1[t].len = 2 /\ ty1[t].shape = "array" /\ ty1[t] \in [shape : {"int", "array", "function"}, len : {2}, complete : BOOLEAN, params : Nat]
      BY <1>3, <1>5, <2>3, <2>4 DEF HeapType
    <3> QED
      BY <2>5, <3>1 DEF Lengthened
  <2> HIDE DEF h
  <2>7. TypesLeft(d, t, ty2, TRUE)
    BY <1>1, <1>5, <2>5, <2>6 DEF TypesLeft, h
  <2> QED
    BY <2>7 DEF t, ty2
<1> QED
  BY <1>4, <1>5

-----------------------------------------------------------------------------
\* The type of the declaration's identifier.
TypeThen(d, at, id2, ty2) ==
  LET s == id2[at].type
      old == HeapFor(d)[s]
  IN /\ s \in DOMAIN HeapFor(d) /\ s \in DOMAIN ty2
     /\ old \in HeapType /\ TypeKnownIn(old) /\ TypeKnownIn(ty2[s])
     /\ IF at \in DOMAIN idents THEN s \in DOMAIN types /\ old = types[s] /\ s = idents[Prior(d)].type /\ at = Prior(d)
        ELSE old = NewType(d) /\ (s \notin DOMAIN types \/ ~IsOpen(old)) /\ Prior(d) = Nothing
     /\ old.shape = NewType(d).shape /\ ty2[s].shape = old.shape
     /\ ~IsFunction(old) => (ty2[s].complete <=> d.init \/ ~IsOpen(old))
     /\ Written(ty2[s]) = IF d.init /\ IsOpen(old) THEN "int[2]" ELSE Written(old)

\* The type of the declaration is left as the standard composes it.
LEMMA TypeLeft ==
  ASSUME NEW d, Accepted(d), NEW at, NEW id2, NEW ty2, NEW declares,
         IdentsLeft(d, at, id2, declares, d.init), TypesLeft(d, id2[at].type, ty2, d.init)
  PROVE  TypeThen(d, at, id2, ty2)
<1> DEFINE s == id2[at].type
           h == HeapFor(d)
           old == h[s]
<1>1. s \in DOMAIN h /\ Ready(d) /\ d.init \in BOOLEAN
  <2>1. Ready(d) /\ d \in Declarator
    BY DEF Accepted, Ready
  <2> QED
    BY <2>1 DEF IdentsLeft, Declarator
<1>2. /\ \A t \in DOMAIN types : t \in DOMAIN h /\ h[t] = types[t]
      /\ h[TypeOf(d)] = NewType(d) /\ old \in HeapType /\ TypeKnownIn(old)
  BY <1>1, ReadyFacts, HeapForKnown
<1>3. s \in DOMAIN ty2 /\ IF d.init /\ IsOpen(old) THEN Lengthened(ty2[s]) ELSE KeptType(old, ty2[s])
  BY <1>1 DEF TypesLeft
<1>4. /\ IF at \in DOMAIN idents THEN s \in DOMAIN types /\ old = types[s] /\ s = idents[Prior(d)].type /\ at = Prior(d)
         ELSE old = NewType(d) /\ (s \notin DOMAIN types \/ ~IsOpen(old)) /\ Prior(d) = Nothing
      /\ old.shape = NewType(d).shape
  <2>1. CASE at \in DOMAIN idents
    <3>1. at = Prior(d) /\ s = idents[at].type /\ types[s].shape = NewType(d).shape
      BY <2>1 DEF IdentsLeft, ChangedTo
    <3>2. s \in DOMAIN types
      BY <1>1, <2>1, <3>1, ToldView DEF Ready
    <3> QED
      BY <1>2, <2>1, <3>1, <3>2
  <2>2. CASE at \notin DOMAIN idents
    <3>1. Prior(d) = Nothing /\ s = TypeOf(d)
      BY <2>2 DEF IdentsLeft, MadeAs
    <3>2. s \notin DOMAIN types \/ ~IsOpen(NewType(d))
      <4>1. types \in Seq(HeapType) /\ (Stays(d) \/ Makes(d))
        BY <1>1, ReadyFacts, Typed DEF TypeRight
      <4> QED
        BY <3>1, <4>1 DEF Stays, Makes
    <3> QED
      BY <1>2, <2>2, <3>1, <3>2
  <2> QED
    BY <2>1, <2>2
<1>5. /\ TypeKnownIn(ty2[s]) /\ ty2[s].shape = old.shape
      /\ ~IsFunction(old) => (ty2[s].complete <=> d.init \/ ~IsOpen(old))
      /\ Written(ty2[s]) = IF d.init /\ IsOpen(old) THEN "int[2]" ELSE Written(old)
  <2>1. CASE d.init /\ IsOpen(old)
    <3>1. Lengthened(ty2[s]) /\ old.shape = "array"
      BY <1>3, <2>1 DEF IsOpen
    <3> HIDE DEF s, old
    <3> QED
      BY <2>1, <3>1 DEF Lengthened, TypeKnownIn, Written
  <2>2. CASE ~(d.init /\ IsOpen(old))
    <3>1. KeptType(old, ty2[s])
      BY <1>3, <2>2
    <3>2. old.shape \in {"int", "array", "function"} /\ old.complete \in BOOLEAN
      BY <1>2 DEF HeapType
    <3>3. TypeKnownIn(ty2[s]) /\ ty2[s].shape = old.shape /\ Written(ty2[s]) = Written(old)
      BY <1>2, <3>1, <3>2, KeptWritten DEF KeptType
    <3>4. ~IsFunction(old) => (ty2[s].complete <=> ~IsOpen(old))
      <4>1. ~IsFunction(old) => ty2[s].complete = old.complete /\ old.shape \in {"int", "array"}
        BY <3>1, <3>2 DEF KeptType, IsFunction
      <4> QED
        BY <1>2, <3>2, <4>1 DEF TypeKnownIn, IsOpen
    <3> QED
      BY <2>2, <3>3, <3>4
  <2> QED
    BY <2>1, <2>2
<1> QED
  BY <1>1, <1>2, <1>3, <1>4, <1>5 DEF TypeThen

-----------------------------------------------------------------------------
(* A declaration leaves its identifier, and the types; an object has a     *)
(* Declaration as soon as its type is complete.                            *)
LeftAs(d, at, id2, ty2, declares) ==
  /\ id2 \in Seq(Ident)
  /\ IdentsLeft(d, at, id2, declares, d.init)
  /\ TypesLeft(d, id2[at].type, ty2, d.init)
  /\ declares <=> IsObject(d) /\ (d.init \/ ~IsOpen(HeapFor(d)[id2[at].type]))

\* What the constraints of the standard say of one that is accepted.
LEMMA AcceptedFacts ==
  ASSUME NEW d, Accepted(d)
  PROVE  /\ Ready(d) /\ d \in Declarator /\ d.init \in BOOLEAN
         /\ d.init => IsObject(d) /\ (Standard!Linkage(d) = "none" \/ AtFile)
         /\ Prior(d) # Nothing /\ d.storage # "typedef" => Joins(d)
         /\ Standard!Kind(d) = IF d.storage = "typedef" THEN "typedef"
                               ELSE IF IsFunction(NewType(d)) THEN "function" ELSE "object"
         /\ d.storage = "typedef" => Standard!Linkage(d) = "none" /\ d.form = "declaration"
<1>1. Ready(d) /\ d.form # "enumerator" /\ NoGap(d) /\ ~Refused(d, NewType(d)) /\ Standard!Legal(d)
  BY DEF Accepted
<1>2. d \in Declarator /\ d.init \in BOOLEAN /\ d.form \in {"declaration", "definition"}
  <2>1. d \in Declarator
    BY <1>1, ReadyFacts
  <2> QED
    BY <1>1, <2>1 DEF Declarator
<1>3. Standard!Kind(d) = IF d.storage = "typedef" THEN "typedef"
                         ELSE IF IsFunction(NewType(d)) THEN "function" ELSE "object"
  BY <1>1, KindView
<1>4. d.init => IsObject(d) /\ (Standard!Linkage(d) = "none" \/ AtFile)
  <2>1. d.init => Standard!Kind(d) = "object" /\ (Standard!Linkage(d) = "none" \/ Standard!AtFile)
    BY <1>1 DEF Standard!Legal
  <2> QED
    BY <1>1, <1>3, <2>1, NameView DEF IsObject
<1>5. Prior(d) # Nothing /\ d.storage # "typedef" => Joins(d)
  BY <1>1, RefusedView, FitsView DEF NoGap
<1>6. d.storage = "typedef" => Standard!Linkage(d) = "none" /\ d.form = "declaration"
  BY <1>1, <1>2, NoLinkage DEF NoGap, TypedefBody
<1> QED
  BY <1>1, <1>2, <1>3, <1>4, <1>5, <1>6

\* The identifiers are those of the outcome.
LEMMA LeftIdents ==
  ASSUME NEW d, Accepted(d), NEW at, NEW id2, NEW ty2, NEW declares, LeftAs(d, at, id2, ty2, declares)
  PROVE  IdentsOutcome(d, at, id2)
<1>1. IdentsLeft(d, at, id2, declares, d.init) /\ id2 \in Seq(Ident)
  BY DEF LeftAs
<1>2. CASE at \in DOMAIN idents
  BY <1>1, <1>2 DEF IdentsLeft, ChangedTo, IdentsOutcome
<1>3. CASE at \notin DOMAIN idents
  BY <1>1, <1>3 DEF IdentsLeft, MadeAs, IdentsOutcome
<1> QED
  BY <1>2, <1>3

\* Its class is right for its type.
LEMMA LeftClass ==
  ASSUME NEW d, Accepted(d), NEW at, NEW id2, NEW ty2, NEW declares, LeftAs(d, at, id2, ty2, declares)
  PROVE  ClassRight(id2[at], ty2)
<1> DEFINE o == id2[at]
           s == o.type
           old == HeapFor(d)[s]
           fn == IsFunction(NewType(d))
<1>1. /\ Ready(d) /\ d.init \in BOOLEAN /\ (d.init => IsObject(d))
      /\ d.storage = "typedef" => Standard!Linkage(d) = "none"
  BY AcceptedFacts
<1>2. TypeThen(d, at, id2, ty2)
  BY TypeLeft DEF LeftAs
<1>3. /\ IsFunction(ty2[s]) <=> fn
      /\ ~fn => (ty2[s].complete <=> d.init \/ ~IsOpen(old))
      /\ at \in DOMAIN idents => s \in DOMAIN types /\ old = types[s] /\ old \in HeapType /\ TypeKnownIn(old)
                                 /\ (~fn <=> ~IsFunction(old))
  BY <1>2 DEF TypeThen, IsFunction
<1>4. /\ o.class = "object" <=> IsObject(d)
      /\ o.class # "enumerator" /\ o.linkage = Standard!Linkage(d)
      /\ declares <=> IsObject(d) /\ (d.init \/ ~IsOpen(old))
  BY DEF LeftAs, IdentsLeft
<1>5. IsObject(d) <=> d.storage # "typedef" /\ ~fn
  BY DEF IsObject
<1> HIDE DEF fn
<1>6. CASE at \notin DOMAIN idents
  <2>1. (o.decl <=> declares) /\ (o.init <=> d.init)
    BY <1>6 DEF LeftAs, IdentsLeft, MadeAs
  <2> HIDE DEF o, s, old
  <2>2. ClassRight(o, ty2)
    BY <1>1, <1>3, <1>4, <1>5, <2>1 DEF ClassRight, s
  <2> QED
    BY <2>2 DEF o
<1>7. CASE at \in DOMAIN idents
  <2>1. /\ o.decl <=> idents[at].decl \/ declares
        /\ o.init <=> idents[at].init \/ d.init
        /\ o.class = idents[at].class /\ o.linkage = idents[at].linkage /\ o.type = idents[at].type
    BY <1>7 DEF LeftAs, IdentsLeft, ChangedTo
  <2>2. ClassRight(idents[at], types)
    BY <1>1, <1>7 DEF Ready, ToldInv, Told, ClassesRight
  <2>3. ~fn => (types[s].complete <=> ~IsOpen(old))
    <3>1. old = types[s] /\ old \in HeapType /\ TypeKnownIn(old) /\ (~fn <=> ~IsFunction(old))
      BY <1>3, <1>7
    <3> HIDE DEF old
    <3>2. (IsOpen(old) <=> Written(old) = "int[]") /\ (~IsFunction(old) => (old.complete <=> Written(old) # "int[]"))
      BY <3>1, WrittenFacts
    <3> QED
      BY <3>1, <3>2
  <2>4. /\ idents[at].class = "object" /\ idents[at].linkage # "none" => (idents[at].decl <=> types[s].complete)
        /\ idents[at].init => idents[at].decl
        /\ idents[at].class # "object" => ~idents[at].decl
    BY <2>1, <2>2 DEF ClassRight
  <2> HIDE DEF o, s, old
  <2>5. ClassRight(o, ty2)
    BY <1>1, <1>3, <1>4, <1>5, <2>1, <2>3, <2>4 DEF ClassRight, s
  <2> QED
    BY <2>5 DEF o
<1> QED
  BY <1>6, <1>7

\* So are the types.
LEMMA LeftTypes ==
  ASSUME NEW d, Accepted(d), NEW at, NEW id2, NEW ty2, NEW declares, LeftAs(d, at, id2, ty2, declares)
  PROVE  TypesOutcome(at, id2, ty2)
<1> DEFINE t == id2[at].type
           h == HeapFor(d)
<1>1. /\ Ready(d) /\ (d.init => IsObject(d) /\ (Standard!Linkage(d) = "none" \/ AtFile))
      /\ Prior(d) # Nothing /\ d.storage # "typedef" => Joins(d)
  BY AcceptedFacts
<1>2. TypeThen(d, at, id2, ty2)
  BY TypeLeft DEF LeftAs
<1>3. /\ \A s \in DOMAIN types : s \in DOMAIN h /\ h[s] = types[s]
      /\ \A s \in DOMAIN h : h[s] \in HeapType /\ TypeKnownIn(h[s])
      /\ h[1] = types[1] /\ 1 \in DOMAIN h
  BY <1>1, ReadyFacts, HeapForKnown
<1>4. /\ \A s \in DOMAIN h :
           s \in DOMAIN ty2 /\ IF d.init /\ s = t /\ IsOpen(h[s]) THEN Lengthened(ty2[s]) ELSE KeptType(h[s], ty2[s])
      /\ \A s \in DOMAIN ty2 : s \in DOMAIN h
  BY DEF LeftAs, TypesLeft
<1>5. /\ t \in DOMAIN h
      /\ at \in DOMAIN idents => t \in DOMAIN types /\ at = Prior(d)
  BY <1>2 DEF TypeThen
<1>6. at \notin DOMAIN idents => t \notin DOMAIN types \/ ~IsOpen(h[t])
  BY <1>2 DEF TypeThen
<1> HIDE DEF h, t
<1>7. ASSUME NEW s \in DOMAIN h
      PROVE  TypeKnownIn(ty2[s]) /\ ty2[s].shape = h[s].shape
  <2>1. h[s] \in HeapType /\ TypeKnownIn(h[s])
    BY <1>3
  <2>2. CASE d.init /\ s = t /\ IsOpen(h[s])
    BY <1>4, <2>2 DEF Lengthened, TypeKnownIn, IsOpen
  <2>3. CASE ~(d.init /\ s = t /\ IsOpen(h[s]))
    <3>1. KeptType(h[s], ty2[s]) /\ h[s].shape \in {"int", "array", "function"}
      BY <1>4, <2>1, <2>3 DEF HeapType
    <3> QED
      BY <2>1, <3>1, KeptWritten DEF KeptType
  <2> QED
    BY <2>2, <2>3
<1>8. TypesKnown(ty2)
  <2>1. types[1].shape = "int"
    BY <1>1, ReadyFacts DEF TypesKnown
  <2> QED
    BY <1>3, <1>4, <1>7, <2>1 DEF TypesKnown
<1>9. ASSUME NEW s \in DOMAIN types
      PROVE  /\ s \in DOMAIN ty2 /\ ty2[s].shape = types[s].shape
             /\ \/ KeptType(types[s], ty2[s])
                \/ s = t /\ at \in DOMAIN idents /\ IsOpen(types[s]) /\ AtFile
  <2>1. s \in DOMAIN h /\ h[s] = types[s]
    BY <1>3
  <2>2. CASE d.init /\ s = t /\ IsOpen(h[s])
    <3>1. at \in DOMAIN idents
      BY <1>6, <2>2
    <3>2. at # Nothing
      BY <1>1, <3>1, ToldView DEF Ready
    <3>3. Joins(d)
      BY <1>1, <1>5, <2>2, <3>1, <3>2 DEF IsObject
    <3> QED
      BY <1>1, <1>4, <1>7, <2>1, <2>2, <3>1, <3>3 DEF Joins
  <2>3. CASE ~(d.init /\ s = t /\ IsOpen(h[s]))
    BY <1>4, <1>7, <2>1, <2>3
  <2> QED
    BY <2>2, <2>3
<1>10. at \notin DOMAIN idents => t \notin DOMAIN types \/ ~IsOpen(ty2[t])
  <2>1. CASE IsOpen(h[t])
    BY <1>6, <2>1
  <2>2. CASE ~IsOpen(h[t])
    <3>1. KeptType(h[t], ty2[t]) /\ h[t].shape \in {"int", "array", "function"}
      BY <1>3, <1>4, <1>5, <2>2 DEF HeapType
    <3> QED
      BY <2>2, <3>1, KeptWritten
  <2> QED
    BY <2>1, <2>2
<1>11. ClassRight(id2[at], ty2)
  BY LeftClass
<1> QED
  BY <1>8, <1>9, <1>10, <1>11 DEF TypesOutcome, t

-----------------------------------------------------------------------------
\* What a declaration without linkage, and one with, adds to its type.
LEMMA FullAlone ==
  ASSUME NEW d, Standard!TypeBefore(d) = Standard!Type(d), NEW init \in BOOLEAN, d.init <=> init
  PROVE  Standard!FullType(d) = IF init /\ Standard!Type(d) = "int[]" THEN "int[2]" ELSE Standard!Type(d)
<1> DEFINE t == Standard!Type(d)
<1>1. Standard!FullType(d) = Standard!Composite(IF d.init /\ t = "int[]" THEN "int[2]" ELSE t, t)
  BY DEF Standard!FullType
<1> HIDE DEF t
<1>2. CASE init /\ t = "int[]"
  BY <1>1, <1>2 DEF Standard!Composite, t
<1>3. CASE ~(init /\ t = "int[]")
  BY <1>1, <1>3 DEF Standard!Composite, t
<1> QED
  BY <1>2, <1>3

\* With an earlier declaration its type is the composite one.
LEMMA FullAdded ==
  ASSUME NEW d, NEW w, Standard!TypeBefore(d) = w, Akin(Standard!Type(d), w),
         NEW init \in BOOLEAN, d.init <=> init
  PROVE  /\ ~(Standard!Type(d) = "int[2]" /\ w = "int[]") =>
              Standard!FullType(d) = IF init /\ w = "int[]" THEN "int[2]" ELSE w
         /\ ~init /\ ~(Standard!Type(d) = "int[]" /\ w = "int[2]") =>
              Standard!FullType(d) = Standard!Type(d)
<1> DEFINE t == Standard!Type(d)
<1>1. Standard!FullType(d) = Standard!Composite(IF d.init /\ t = "int[]" THEN "int[2]" ELSE t, w)
  BY DEF Standard!FullType
<1>2. t = w \/ {t, w} = {"int[]", "int[2]"}
  BY DEF Akin
<1> HIDE DEF t
<1>3. t = w \/ (t = "int[]" /\ w = "int[2]") \/ (t = "int[2]" /\ w = "int[]")
  BY <1>2
<1>4. CASE init /\ t = "int[]"
  BY <1>1, <1>3, <1>4 DEF Standard!Composite, t
<1>5. CASE ~(init /\ t = "int[]")
  BY <1>1, <1>3, <1>5 DEF Standard!Composite, t
<1> QED
  BY <1>4, <1>5

-----------------------------------------------------------------------------
\* A new declaration of its scope has the type it is written with.
LEMMA NewFullType ==
  ASSUME NEW d, Accepted(d), Prior(d) = Nothing
  PROVE  Standard!FullType(d)
           = IF d.init /\ Standard!Type(d) = "int[]" THEN "int[2]" ELSE Standard!Type(d)
<1> DEFINE F == Find(scopes, d.name)
           V == Standard!Visible(d.name)
           l == Standard!Linkage(d)
           t == Standard!Type(d)
<1>1. /\ Ready(d) /\ d.init \in BOOLEAN /\ NoGap(d) /\ ~Standard!Undefined(d) /\ d.form # "enumerator"
      /\ d.init => IsObject(d) /\ (l = "none" \/ AtFile)
      /\ d.storage = "typedef" => l = "none"
  BY AcceptedFacts DEF Accepted
<1>2. Standard!TypeBefore(d) = IF l # "none" /\ V.linkage # "none" THEN V.type ELSE t
  BY DEF Standard!TypeBefore
<1>3. V = ToldOf(F, idents, types) /\ (AtFile => F = Nothing)
  BY <1>1, NameView
<1>4. CASE l = "none" \/ V.linkage = "none"
  <2>1. Standard!TypeBefore(d) = t
    BY <1>2, <1>4
  <2> QED
    BY <1>1, <2>1, FullAlone
<1>5. CASE l # "none" /\ V.linkage # "none"
  <2>1. F # Nothing /\ F \in DOMAIN idents /\ idents[F].name = d.name
    <3>1. F # Nothing
      BY <1>3, <1>5 DEF ToldOf
    <3> QED
      BY <1>1, <3>1, FoundName
  <2>2. /\ V.linkage = idents[F].linkage /\ V.type = Written(types[idents[F].type])
        /\ types[idents[F].type] \in HeapType /\ TypeKnownIn(types[idents[F].type])
    BY <1>1, <1>3, <2>1, ToldView DEF Ready
  <2>3. ~AtFile /\ ~d.init
    BY <1>1, <1>3, <1>5, <2>1
  <2>4. d.storage # "typedef" /\ LinkageAlone(d, NewType(d)) = "external"
    <3>1. d.storage # "typedef"
      BY <1>1, <1>5
    <3>2. /\ LinkageAlone(d, NewType(d)) \in Linkages /\ LinkageAlone(d, NewType(d)) # "none"
          /\ LinkageAlone(d, NewType(d)) # "internal"
      BY <1>1, <1>5, <2>3, <3>1, LinkageView
    <3> QED
      BY <3>1, <3>2 DEF Linkages
  <2>5. Outer(d) = F
    BY DEF Outer, Own, Prior, FindInCurScope
  <2>6. ~(IsOpen(NewType(d)) /\ ~IsOpen(types[idents[F].type]))
    BY <1>1, <1>5, <2>1, <2>2, <2>4, <2>5 DEF NoGap, LengthNotInherited, Searches
  <2>7. Akin(t, V.type)
    <3>1. F \in LinkedIn(d.name, idents)
      BY <1>5, <2>1, <2>2 DEF LinkedIn
    <3>2. Akin(Standard!FullType(d), V.type) /\ Akin(Standard!FullType(d), t)
      BY <1>1, <1>5, <2>2, <3>1, MeaningAgrees DEF Agrees
    <3> HIDE DEF t
    <3> QED
      BY <3>2, AkinFacts
  <2>8. ~(t = "int[]" /\ V.type = "int[2]")
    <3>1. IsOpen(NewType(d)) <=> t = "int[]"
      BY <1>1, KindView
    <3>2. IsOpen(types[idents[F].type]) <=> V.type = "int[]"
      BY <2>2, WrittenFacts
    <3> QED
      BY <2>6, <3>1, <3>2
  <2>9. Standard!TypeBefore(d) = V.type
    BY <1>2, <1>5
  <2> QED
    BY <1>1, <2>3, <2>7, <2>8, <2>9, FullAdded
<1> QED
  BY <1>4, <1>5

\* One that adds to another of its scope has the type of that.
LEMMA OldFullType ==
  ASSUME NEW d, Accepted(d), Prior(d) # Nothing, d.storage # "typedef",
         NEW w, w = Written(types[idents[Prior(d)].type])
  PROVE  Standard!FullType(d) = IF d.init /\ w = "int[]" THEN "int[2]" ELSE w
<1> DEFINE P == Prior(d)
           old == types[idents[P].type]
           t == Standard!Type(d)
<1>1. /\ Ready(d) /\ d.init \in BOOLEAN /\ NoGap(d) /\ Joins(d)
  BY AcceptedFacts DEF Accepted
<1>2. P \in DOMAIN idents
  BY <1>1, FoundName
<1>3. old \in HeapType /\ TypeKnownIn(old) /\ ToldOf(P, idents, types).linkage = idents[P].linkage
      /\ ToldOf(P, idents, types).type = w
  BY <1>1, <1>2, ToldView DEF Ready
<1>4. Standard!Visible(d.name) = ToldOf(P, idents, types)
  BY <1>1, NameView
<1>5. /\ Standard!Linkage(d) # "none" /\ idents[P].linkage # "none" /\ Akin(Written(NewType(d)), w)
      /\ t = Written(NewType(d))
  BY <1>1, KindView DEF Joins
<1>6. Standard!TypeBefore(d) = w
  BY <1>3, <1>4, <1>5 DEF Standard!TypeBefore
<1>7. ~(t = "int[2]" /\ w = "int[]")
  <2>1. NewType(d).shape = "array" /\ NewType(d).complete => ~IsOpen(old)
    BY <1>1 DEF NoGap, LengthLost, Own, OwnType, Prior, FindInCurScope
  <2>2. t = "int[2]" => NewType(d).shape = "array" /\ NewType(d).complete
    <3>1. NewType(d) \in HeapType
      BY <1>1, ReadyFacts DEF TypeRight
    <3>2. NewType(d).shape \in {"int", "array", "function"} /\ NewType(d).complete \in BOOLEAN
      BY <3>1 DEF HeapType
    <3> QED
      BY <1>5, <3>2 DEF Written
  <2>3. w = "int[]" => IsOpen(old)
    BY <1>3, WrittenFacts
  <2> QED
    BY <2>1, <2>2, <2>3
<1>8. Akin(t, w)
  BY <1>5
<1> QED
  BY <1>1, <1>6, <1>7, <1>8, FullAdded

-----------------------------------------------------------------------------
\* The name denotes what the standard says it does.
LEMMA LeftBinding ==
  ASSUME NEW d, Accepted(d), NEW at, NEW id2, NEW ty2, NEW declares, LeftAs(d, at, id2, ty2, declares)
  PROVE  ToldOf(at, id2, ty2) = Standard!Binding(d)
<1> DEFINE o == id2[at]
           s == o.type
           old == HeapFor(d)[s]
           fn == IsFunction(NewType(d))
           w2 == Written(ty2[s])
<1>1. /\ Ready(d) /\ d.init \in BOOLEAN /\ d.form # "enumerator" /\ NoGap(d) /\ Standard!Legal(d)
      /\ d.init => IsObject(d)
      /\ Standard!Kind(d) = IF d.storage = "typedef" THEN "typedef" ELSE IF fn THEN "function" ELSE "object"
      /\ d.storage = "typedef" => Standard!Linkage(d) = "none" /\ d.form = "declaration"
  BY AcceptedFacts DEF Accepted
<1>2. TypeThen(d, at, id2, ty2)
  BY TypeLeft DEF LeftAs
<1>3. /\ o.class = "object" <=> IsObject(d)
      /\ o.class # "enumerator" /\ o.linkage = Standard!Linkage(d)
      /\ at \in DOMAIN id2 /\ o \in Ident
  <2>1. id2 \in Seq(Ident) /\ at \in DOMAIN id2
    BY DEF LeftAs, IdentsLeft
  <2>2. o \in Ident
    BY <2>1
  <2> QED
    BY <2>1, <2>2 DEF LeftAs, IdentsLeft
<1>4. at # Nothing
  <2>1. IdentsOutcome(d, at, id2)
    BY LeftIdents
  <2> QED
    BY <1>1, <2>1, PlacesDiffer
<1>5. KindIn(at, id2) = Standard!Kind(d)
  <2>1. o.class \in {"ident", "object", "enumerator"}
    BY <1>3 DEF Ident
  <2>2. d.storage # "typedef" /\ fn => o.linkage # "none"
    BY <1>1, <1>3, LinkageView
  <2>3. IsObject(d) <=> d.storage # "typedef" /\ ~fn
    BY DEF IsObject
  <2> HIDE DEF fn
  <2>4. CASE d.storage = "typedef"
    BY <1>1, <1>3, <1>4, <2>1, <2>3, <2>4 DEF KindIn
  <2>5. CASE d.storage # "typedef" /\ fn
    BY <1>1, <1>3, <1>4, <2>1, <2>2, <2>3, <2>5 DEF KindIn
  <2>6. CASE d.storage # "typedef" /\ ~fn
    BY <1>1, <1>3, <1>4, <2>1, <2>3, <2>6 DEF KindIn
  <2> QED
    BY <2>4, <2>5, <2>6
<1>6. w2 = (IF d.init /\ IsOpen(old) THEN "int[2]" ELSE Written(old)) /\ (IsOpen(old) <=> Written(old) = "int[]")
  <2>1. old \in HeapType /\ TypeKnownIn(old) /\ w2 = IF d.init /\ IsOpen(old) THEN "int[2]" ELSE Written(old)
    BY <1>2 DEF TypeThen
  <2> HIDE DEF old, w2
  <2> QED
    BY <2>1, WrittenFacts
<1>7. w2 = Standard!FullType(d)
  <2>1. CASE at \notin DOMAIN idents
    <3>1. Prior(d) = Nothing /\ old = NewType(d)
      BY <1>2, <2>1 DEF TypeThen
    <3>2. Standard!Type(d) = Written(NewType(d))
      BY <1>1, KindView
    <3> QED
      BY <1>6, <3>1, <3>2, NewFullType
  <2>2. CASE at \in DOMAIN idents
    <3>1. at = Prior(d) /\ old = types[idents[Prior(d)].type]
      BY <1>2, <2>2 DEF TypeThen
    <3>2. CASE d.storage # "typedef"
      BY <1>4, <1>6, <3>1, <3>2, OldFullType
    <3>3. CASE d.storage = "typedef"
      <4>1. ToldOf(Prior(d), idents, types) = Standard!Binding(d)
        BY <1>1, <1>4, <3>1, <3>3, TypedefLegal
      <4>2. ToldOf(Prior(d), idents, types).type = Written(old)
        BY <1>1, <2>2, <3>1, ToldView DEF Ready
      <4>3. Standard!Binding(d).type = Standard!FullType(d)
        BY DEF Standard!Binding
      <4>4. ~d.init
        BY <1>1, <3>3 DEF IsObject
      <4> QED
        BY <1>6, <4>1, <4>2, <4>3, <4>4
    <3> QED
      BY <3>2, <3>3
  <2> QED
    BY <2>1, <2>2
<1>8. ToldOf(at, id2, ty2) = [kind |-> KindIn(at, id2), linkage |-> o.linkage, type |-> w2]
  BY <1>4 DEF ToldOf
<1> QED
  BY <1>3, <1>5, <1>7, <1>8 DEF Standard!Binding

-----------------------------------------------------------------------------
\* An object with linkage that is not extern is one of the file, and has a length.
LEMMA TentativeClosed ==
  ASSUME NEW d, Accepted(d), ~d.init, IsObject(d), d.storage # "extern", Standard!Linkage(d) # "none"
  PROVE  /\ AtFile
         /\ Prior(d) = Nothing => ~IsOpen(NewType(d))
         /\ Prior(d) # Nothing => ~IsOpen(types[idents[Prior(d)].type])
<1> DEFINE t == NewType(d)
           old == types[idents[Prior(d)].type]
<1>1. /\ Ready(d) /\ NoGap(d) /\ ~Standard!Undefined(d) /\ d.form # "enumerator" /\ d.storage # "typedef"
      /\ d \in Declarator /\ ~IsFunction(t)
  BY AcceptedFacts DEF Accepted, IsObject
<1>2. d.storage \in {"none", "static"}
  BY <1>1 DEF Declarator
<1>3. AtFile
  <2>1. LinkageAlone(d, t) # "none"
    BY <1>1, LinkageView
  <2> HIDE DEF t
  <2> QED
    BY <1>1, <2>1 DEF LinkageAlone
<1>4. d.storage = "static" => ~IsOpen(t)
  <2>1. ASSUME d.storage = "static" PROVE Standard!Linkage(d) = "internal"
    <3>1. LinkageAlone(d, t) = "internal"
      BY <1>3, <2>1 DEF LinkageAlone
    <3> QED
      BY <1>1, <3>1, LinkageView
  <2>2. d.storage = "static" => Standard!Type(d) # "int[]"
    BY <1>1, <2>1 DEF Standard!Undefined
  <2>3. IsOpen(t) <=> Standard!Type(d) = "int[]"
    BY <1>1, KindView
  <2> QED
    BY <2>2, <2>3
<1>5. Own(d) = Prior(d) /\ OwnType(d) = old
  BY DEF Own, OwnType, Prior, FindInCurScope
<1>6. d.storage = "none" => ~(IsOpen(t) /\ (Prior(d) = Nothing \/ IsOpen(old)))
  BY <1>1, <1>3, <1>5 DEF NoGap, TentativeDropped
<1>7. ~(t.shape = "array" /\ t.complete /\ Prior(d) # Nothing /\ IsOpen(old))
  BY <1>1, <1>5 DEF NoGap, LengthLost
<1>8. Prior(d) # Nothing => old.shape = t.shape
  BY <1>1, ReadyFacts, PriorFits DEF Accepted
<1> HIDE DEF t, old
<1>9. Prior(d) # Nothing /\ IsOpen(old) => IsOpen(t)
  BY <1>7, <1>8 DEF IsOpen
<1>10. Prior(d) = Nothing => ~IsOpen(t)
  BY <1>2, <1>4, <1>6
<1>11. Prior(d) # Nothing => ~IsOpen(old)
  BY <1>2, <1>4, <1>6, <1>9
<1> QED
  BY <1>3, <1>10, <1>11 DEF t, old

\* What was there of the identifier.
LEMMA OldAt ==
  ASSUME NEW d, Accepted(d), NEW at, NEW id2, NEW ty2, NEW declares, LeftAs(d, at, id2, ty2, declares),
         at \in DOMAIN idents
  PROVE  /\ at = Prior(d) /\ Prior(d) # Nothing
         /\ HeapFor(d)[id2[at].type] = types[idents[at].type]
         /\ id2[at].class = idents[at].class /\ id2[at].linkage = idents[at].linkage
         /\ id2[at].decl <=> idents[at].decl \/ declares
         /\ id2[at].init <=> idents[at].init \/ d.init
         /\ d.storage # "typedef" =>
              id2[at].storage = IF d.storage = "extern" THEN idents[at].storage ELSE idents[at].storage \ {"extern"}
         /\ idents[at].decl =>
              idents[at].class = "object" /\ (idents[at].linkage # "none" => ~IsOpen(types[idents[at].type]))
<1>1. Ready(d)
  BY DEF Accepted
<1>2. ChangedTo(d, at, id2[at], declares, d.init)
  BY DEF LeftAs, IdentsLeft
<1>3. HeapFor(d)[id2[at].type] = types[idents[at].type]
  <2>1. TypeThen(d, at, id2, ty2)
    BY TypeLeft DEF LeftAs
  <2> QED
    BY <1>2, <2>1 DEF TypeThen, ChangedTo
<1>4. ClassRight(idents[at], types)
  BY <1>1 DEF Ready, ToldInv, Told, ClassesRight
<1>5. idents[at].decl =>
        idents[at].class = "object" /\ (idents[at].linkage # "none" => ~IsOpen(types[idents[at].type]))
  BY <1>4 DEF ClassRight, IsOpen
<1> QED
  BY <1>2, <1>3, <1>5 DEF ChangedTo

\* Whether it is defined tentatively.
LEMMA LeftTentative ==
  ASSUME NEW d, Accepted(d), NEW at, NEW id2, NEW ty2, NEW declares, LeftAs(d, at, id2, ty2, declares),
         id2[at].linkage # "none", ~Standard!Defines(d)
  PROVE  TentIn(at, id2)
           <=> \/ at \in DOMAIN idents /\ TentIn(at, idents)
               \/ AtFile /\ Standard!Kind(d) = "object" /\ d.storage # "extern"
<1> DEFINE o == id2[at]
           old == HeapFor(d)[o.type]
           obj == IsObject(d)
           ext == d.storage = "extern"
<1>1. /\ Ready(d) /\ d.form # "enumerator" /\ d \in Declarator /\ ~d.init
      /\ d.storage = "typedef" => Standard!Linkage(d) = "none"
      /\ Standard!Kind(d) = IF d.storage = "typedef" THEN "typedef"
                            ELSE IF IsFunction(NewType(d)) THEN "function" ELSE "object"
  BY AcceptedFacts DEF Standard!Defines, Accepted
<1>2. /\ o.class = "object" <=> obj
      /\ o.linkage = Standard!Linkage(d) /\ o.linkage # "none"
      /\ declares <=> obj /\ ~IsOpen(old)
  BY <1>1 DEF LeftAs, IdentsLeft
<1>3. d.storage # "typedef" /\ d.storage \in {"none", "static", "extern"}
      /\ (Standard!Kind(d) = "object" <=> obj)
  BY <1>1, <1>2 DEF Declarator, IsObject
<1>4. obj /\ ~ext =>
        /\ AtFile
        /\ Prior(d) = Nothing => ~IsOpen(NewType(d))
        /\ Prior(d) # Nothing => ~IsOpen(types[idents[Prior(d)].type])
  BY <1>1, <1>2, TentativeClosed
<1>5. CASE at \notin DOMAIN idents
  <2>1. /\ o.decl <=> declares
        /\ obj => o.storage = {d.storage} \cap {"static", "extern"}
    BY <1>1, <1>2, <1>5 DEF LeftAs, IdentsLeft, MadeAs
  <2>2. old = NewType(d) /\ Prior(d) = Nothing
    <3>1. TypeThen(d, at, id2, ty2)
      BY TypeLeft DEF LeftAs
    <3> QED
      BY <1>5, <3>1 DEF TypeThen
  <2>3. obj => ("extern" \in o.storage <=> ext)
    BY <1>3, <2>1
  <2> HIDE DEF o, old, obj, ext
  <2>4. TentIn(at, id2) <=> obj /\ ~IsOpen(old) /\ ~ext
    BY <1>2, <2>1, <2>3 DEF TentIn, o
  <2> QED
    BY <1>3, <1>4, <1>5, <2>2, <2>4 DEF ext
<1>6. CASE at \in DOMAIN idents
  <2>1. /\ at = Prior(d) /\ Prior(d) # Nothing /\ old = types[idents[at].type]
        /\ o.class = idents[at].class /\ o.linkage = idents[at].linkage
        /\ o.decl <=> idents[at].decl \/ declares
        /\ o.storage = IF ext THEN idents[at].storage ELSE idents[at].storage \ {"extern"}
        /\ idents[at].decl =>
             idents[at].class = "object" /\ (idents[at].linkage # "none" => ~IsOpen(types[idents[at].type]))
    BY <1>3, <1>6, OldAt
  <2>2. obj /\ ~IsOpen(old) => idents[at].decl
    <3>1. ClassRight(idents[at], types) /\ old \in HeapType /\ TypeKnownIn(old)
      BY <1>1, <1>6, <2>1, ToldView DEF Ready, ToldInv, Told, ClassesRight
    <3>2. idents[at].class = "object" => ~IsFunction(old)
      BY <1>1, <1>6, <2>1 DEF Ready, IInv, Sound, IdentsOK
    <3> HIDE DEF o, old, obj
    <3>3. ~IsFunction(old) /\ ~IsOpen(old) => old.complete
      BY <3>1, WrittenFacts
    <3> QED
      BY <1>2, <2>1, <3>1, <3>2, <3>3 DEF ClassRight
  <2> HIDE DEF o, old, obj, ext
  <2>3. o.decl <=> obj /\ ~IsOpen(old)
    BY <1>2, <2>1, <2>2
  <2>4. TentIn(at, idents) <=> obj /\ ~IsOpen(old) /\ "extern" \notin idents[at].storage
    BY <1>2, <2>1, <2>2 DEF TentIn
  <2>5. TentIn(at, id2) <=> obj /\ ~IsOpen(old) /\ (ext => "extern" \notin idents[at].storage)
    BY <2>1, <2>3 DEF TentIn, o
  <2> QED
    BY <1>3, <1>4, <1>6, <2>1, <2>4, <2>5 DEF ext
<1> QED
  BY <1>5, <1>6

-----------------------------------------------------------------------------
(* What goes to the generator: a Declaration when it is made; the body of  *)
(* a definition is read next.                                              *)
UnitLeft(d, at, id2, ex2, u2, b2, declares) ==
  /\ ex2 = external \/ (ex2 = [external EXCEPT ![d.name] = at] /\ id2[at].linkage = "external")
  /\ u2 = IF declares /\ ~(at \in DOMAIN idents /\ idents[at].decl) THEN Append(unit, EntryOf(at)) ELSE unit
  /\ IF d.form = "definition" THEN AtFile /\ b2.ident = at ELSE b2 = body

\* The functions of the unit are the same.
LEMMA FunctionsKept ==
  ASSUME NEW d, Ready(d), NEW at, NEW id2, NEW ex2, NEW u2, NEW b2, NEW declares,
         UnitLeft(d, at, id2, ex2, u2, b2, declares), NEW i
  PROVE  /\ (\E k \in DOMAIN u2 : u2[k].what = "function" /\ u2[k].ident = i)
              <=> \E k \in DOMAIN unit : unit[k].what = "function" /\ unit[k].ident = i
         /\ i \notin DOMAIN idents /\ i # Nothing =>
              body.ident # i /\ ~\E k \in DOMAIN unit : unit[k].what = "function" /\ unit[k].ident = i
<1>1. UnitOK(unit, scopes, idents, types) /\ Soundly
  BY ReadyFacts DEF Ready, IInv
<1>2. ASSUME u2 = Append(unit, EntryOf(at))
      PROVE  (\E k \in DOMAIN u2 : u2[k].what = "function" /\ u2[k].ident = i)
               <=> \E k \in DOMAIN unit : unit[k].what = "function" /\ unit[k].ident = i
  <2> DEFINE e == EntryOf(at)
  <2>1. \E S : unit \in Seq(S)
    BY <1>1 DEF UnitOK
  <2>2. e.what = "declaration"
    BY DEF EntryOf
  <2> HIDE DEF e
  <2>3. /\ DOMAIN u2 = DOMAIN unit \cup {Len(unit) + 1}
        /\ \A k \in DOMAIN unit : u2[k] = unit[k]
        /\ u2[Len(unit) + 1] = e
    BY <1>2, <2>1, UnitLonger DEF e
  <2> QED
    BY <2>2, <2>3
<1>3. u2 = unit \/ u2 = Append(unit, EntryOf(at))
  BY DEF UnitLeft
<1>4. ASSUME i \notin DOMAIN idents, i # Nothing
      PROVE  body.ident # i /\ ~\E k \in DOMAIN unit : unit[k].what = "function" /\ unit[k].ident = i
  <2>1. \A k \in DOMAIN unit : unit[k].what = "function" => unit[k].ident \in DOMAIN idents
    BY <1>1 DEF UnitOK, EntryOK, FunctionOK
  <2>2. body.ident = Nothing \/ body.ident \in DOMAIN idents
    BY DEF Ready, IInv, BodyOK, FunctionOK, Nobody
  <2> QED
    BY <1>4, <2>1, <2>2
<1> QED
  BY <1>2, <1>3, <1>4

-----------------------------------------------------------------------------
\* What goes to the generator is what the outcome says.
LEMMA LeftUnit ==
  ASSUME NEW d, Accepted(d), NEW at, NEW id2, NEW ty2, NEW ex2, NEW u2, NEW b2, NEW declares,
         LeftAs(d, at, id2, ty2, declares), UnitLeft(d, at, id2, ex2, u2, b2, declares)
  PROVE  UnitOutcome(d, at, id2, ex2, u2, b2)
<1> DEFINE F(u, i) == \E k \in DOMAIN u : u[k].what = "function" /\ u[k].ident = i
           here == at \in DOMAIN idents
<1>1. Ready(d) /\ at # Nothing
  <2>1. Ready(d) /\ IdentsOutcome(d, at, id2)
    BY LeftIdents DEF Accepted
  <2> QED
    BY <2>1, PlacesDiffer
<1>2. /\ F(u2, at) <=> F(unit, at)
      /\ ~here => body.ident # at /\ ~F(unit, at)
  BY <1>1, FunctionsKept
<1>3. /\ here => (id2[at].decl <=> idents[at].decl \/ declares) /\ (id2[at].init <=> idents[at].init \/ d.init)
      /\ ~here => (id2[at].decl <=> declares) /\ (id2[at].init <=> d.init)
  <2>1. CASE here
    BY <2>1, OldAt
  <2>2. CASE ~here
    BY <2>2 DEF LeftAs, IdentsLeft, MadeAs
  <2> QED
    BY <2>1, <2>2
<1>4. /\ ex2 = external \/ (ex2 = [external EXCEPT ![d.name] = at] /\ id2[at].linkage = "external")
      /\ u2 = IF declares /\ ~(here /\ idents[at].decl) THEN Append(unit, EntryOf(at)) ELSE unit
      /\ IF d.form = "definition" THEN AtFile /\ b2.ident = at ELSE b2 = body
  BY DEF UnitLeft
<1>5. b2 = body \/ (body = Nobody /\ b2.ident = at)
  <2>1. ASSUME AtFile PROVE body = Nobody
    <3>1. Len(scopes) = 1
      BY <1>1, <2>1, ReadyFacts, Typed
    <3> QED
      BY <1>1, <3>1 DEF Ready, IInv, BodyOK
  <2> QED
    BY <1>4, <2>1
<1> HIDE DEF F
<1>6. \/ u2 = unit /\ (id2[at].decl => here /\ idents[at].decl)
      \/ u2 = Append(unit, EntryOf(at))
  BY <1>3, <1>4
<1>7. /\ DefinesIn(at, id2, u2, b2) <=> b2.ident = at \/ id2[at].init \/ F(u2, at)
      /\ DefinesIn(at, idents, unit, body) <=> body.ident = at \/ idents[at].init \/ F(unit, at)
  BY DEF DefinesIn, F
<1>8. DefinesIn(at, id2, u2, b2) <=> (here /\ DefinesIn(at, idents, unit, body)) \/ Standard!Defines(d)
  <2>1. CASE d.form = "definition"
    BY <1>4, <1>7, <2>1 DEF Standard!Defines
  <2>2. CASE d.form # "definition"
    BY <1>2, <1>3, <1>4, <1>7, <2>2 DEF Standard!Defines
  <2> QED
    BY <2>1, <2>2
<1>9. ASSUME id2[at].linkage # "none", ~Standard!Defines(d)
      PROVE  TentIn(at, id2)
               <=> \/ here /\ TentIn(at, idents)
                   \/ AtFile /\ Standard!Kind(d) = "object" /\ d.storage # "extern"
  BY <1>9, LeftTentative
<1> QED
  BY <1>4, <1>5, <1>6, <1>8, <1>9 DEF UnitOutcome

\* What is left is an outcome, where the unit is right too.
LEMMA LeftOutcome ==
  ASSUME NEW d, Accepted(d), NEW at, NEW id2, NEW ty2, NEW ex2, NEW u2, NEW b2, NEW declares,
         LeftAs(d, at, id2, ty2, declares), UnitLeft(d, at, id2, ex2, u2, b2, declares)
  PROVE  Outcome(d, at, id2, ty2, ex2, u2, b2)
BY LeftIdents, LeftTypes, LeftBinding, LeftUnit DEF Outcome

-----------------------------------------------------------------------------
(* What ProcessDeclarator leaves.                                          *)
PlaceLeft(d, p) ==
  /\ p.idents \in Seq(Ident) /\ p.types \in Seq(HeapType)
  /\ IdentsLeft(d, p.at, p.idents, FALSE, FALSE)
  /\ TypesLeft(d, p.idents[p.at].type, p.types, FALSE)
  /\ p.scopes = ScopesOutcome(d, p.at)
  /\ p.external = external
       \/ (p.external = [external EXCEPT ![d.name] = p.at] /\ p.idents[p.at].linkage = "external")

\* ProcessDeclarator leaves the one or the other place.
LEMMA PlacesLeft ==
  ASSUME NEW d, Accepted(d)
  PROVE  PlaceLeft(d, Processed(d))
<1> DEFINE p == Processed(d)
<1>1. /\ Soundly /\ TypesKnown(types) /\ d \in Declarator /\ TypeKnown(d) /\ TypeRight(d) /\ Ready(d)
      /\ ~Refused(d, NewType(d)) /\ ~LengthLost(d) /\ d.form # "enumerator"
  BY ReadyFacts DEF Accepted, NoGap
<1>2. NewPlace(p, d) \/ OldPlace(p, d)
  BY <1>1, PlaceView
<1>3. p.idents \in Seq(Ident) /\ p.types \in Seq(HeapType)
  BY <1>1, ProcessedFacts DEF ProcessedOK, Sound, IdentsOK, TypesOK
<1> HIDE DEF p
<1>4. IdentsLeft(d, p.at, p.idents, FALSE, FALSE)
  BY <1>2, NewLeft, OldLeft
<1>5. TypesLeft(d, p.idents[p.at].type, p.types, FALSE)
  BY <1>1, <1>2, <1>3, KeptLeft DEF NewPlace, OldPlace
<1>6. CASE NewPlace(p, d)
  <2>1. p.at \notin DOMAIN idents /\ p.idents[p.at] = NewIdent(d)
    BY <1>6, NewLeft
  <2> QED
    BY <1>3, <1>4, <1>5, <1>6, <2>1 DEF NewPlace, PlaceLeft, ScopesOutcome, Registers, p
<1>7. CASE OldPlace(p, d)
  <2>1. p.at \in DOMAIN idents
    BY <1>7, OldLeft
  <2> QED
    BY <1>3, <1>4, <1>5, <1>7, <2>1 DEF OldPlace, PlaceLeft, ScopesOutcome, p
<1> QED
  BY <1>2, <1>6, <1>7

-----------------------------------------------------------------------------
\* ParseInitDeclarator makes a Declaration of an object whose type is complete.
LEMMA DeclaresWhen ==
  ASSUME NEW d, Accepted(d), NEW p, PlaceLeft(d, p)
  PROVE  /\ p.idents[p.at].class = "object" /\ (d.init \/ p.types[p.idents[p.at].type].complete)
              <=> IsObject(d) /\ (d.init \/ ~IsOpen(HeapFor(d)[p.idents[p.at].type]))
         /\ p.idents[p.at].decl <=> p.at \in DOMAIN idents /\ idents[p.at].decl
         /\ p.idents[p.at].type \in DOMAIN HeapFor(d)
<1> DEFINE at == p.at
           o == p.idents[at]
           h == HeapFor(d)
           old == h[o.type]
           new == p.types[o.type]
<1>1. /\ Ready(d) /\ IdentsLeft(d, at, p.idents, FALSE, FALSE) /\ TypesLeft(d, o.type, p.types, FALSE)
  BY DEF PlaceLeft, Accepted
<1>2. /\ o.class = "object" <=> IsObject(d)
      /\ o.type \in DOMAIN h
  BY <1>1 DEF IdentsLeft
<1>3. old \in HeapType /\ TypeKnownIn(old) /\ KeptType(old, new)
      /\ (\A t \in DOMAIN types : h[t] = types[t]) /\ h[TypeOf(d)] = NewType(d)
  <2>1. KeptType(old, new)
    BY <1>1, <1>2 DEF TypesLeft
  <2> QED
    BY <1>1, <1>2, <2>1, ReadyFacts, HeapForKnown
<1>4. old.shape = NewType(d).shape
  <2>1. CASE at \in DOMAIN idents
    <3>1. types[o.type].shape = NewType(d).shape /\ o.type = idents[at].type
      BY <1>1, <2>1 DEF IdentsLeft, ChangedTo
    <3>2. o.type \in DOMAIN types
      BY <1>1, <2>1, <3>1, ToldView DEF Ready
    <3> QED
      BY <1>3, <3>1, <3>2
  <2>2. CASE at \notin DOMAIN idents
    BY <1>1, <1>3, <2>2 DEF IdentsLeft, MadeAs
  <2> QED
    BY <2>1, <2>2
<1>5. IsObject(d) => (new.complete <=> ~IsOpen(old))
  <2>1. IsObject(d) => ~IsFunction(old)
    BY <1>4 DEF IsObject, IsFunction
  <2> HIDE DEF old, new
  <2>2. ~IsFunction(old) => (old.complete <=> ~IsOpen(old))
    BY <1>3, WrittenFacts
  <2>3. ~IsFunction(old) => new.complete = old.complete
    BY <1>3 DEF KeptType, IsFunction
  <2> QED
    BY <2>1, <2>2, <2>3
<1>6. o.decl <=> at \in DOMAIN idents /\ idents[at].decl
  <2>1. CASE at \in DOMAIN idents
    BY <1>1, <2>1 DEF IdentsLeft, ChangedTo
  <2>2. CASE at \notin DOMAIN idents
    BY <1>1, <2>2 DEF IdentsLeft, MadeAs
  <2> QED
    BY <2>1, <2>2
<1> HIDE DEF old, new, o, h
<1>7. o.class = "object" /\ (d.init \/ new.complete) <=> IsObject(d) /\ (d.init \/ ~IsOpen(old))
  BY <1>2, <1>5
<1> QED
  BY <1>2, <1>6, <1>7 DEF old, new, o, h, at

\* A declaration comes to what the standard says of it.
LEMMA DeclareOutcome ==
  ASSUME NEW d, Accepted(d), d.form = "declaration", InitDeclarator(Processed(d), d), body' = body
  PROVE  \E at : /\ Outcome(d, at, idents', types', external', unit', body')
                 /\ scopes' = ScopesOutcome(d, at)
<1> DEFINE p == Processed(d)
           at == p.at
           id == p.idents
           ty == p.types
           sc == p.scopes
           ex == p.external
           t == id[at].type
           declares == id[at].class = "object" /\ (d.init \/ ty[t].complete)
           q == IF d.init THEN Sized(p) ELSE p
           r == WithDecl(q, d.init)
           id2 == [id EXCEPT ![at] = Recorded(@, d.init)]
<1>1. /\ Ready(d) /\ d.init \in BOOLEAN /\ (d.init => IsObject(d)) /\ PlaceLeft(d, p)
      /\ d \in Declarator /\ TypeKnown(d) /\ Soundly /\ ~Refused(d, NewType(d))
  BY AcceptedFacts, PlacesLeft, ReadyFacts DEF Accepted
<1>2. /\ Commit(IF declares THEN r ELSE p)
      /\ unit' = IF declares /\ ~id[at].decl THEN Append(unit, DeclarationOf(p)) ELSE unit
  BY DEF InitDeclarator
<1>3. p = [at |-> at, idents |-> id, types |-> ty, scopes |-> sc, external |-> ex]
  BY <1>1, ProcessedFacts DEF ProcessedOK
<1>4. DeclarationOf(p) = EntryOf(at)
  BY DEF DeclarationOf, EntryOf
<1> HIDE DEF p
<1>5. /\ id \in Seq(Ident) /\ ty \in Seq(HeapType) /\ sc = ScopesOutcome(d, at)
      /\ IdentsLeft(d, at, id, FALSE, FALSE) /\ TypesLeft(d, t, ty, FALSE)
      /\ ex = external \/ (ex = [external EXCEPT ![d.name] = at] /\ id[at].linkage = "external")
  BY <1>1 DEF PlaceLeft
<1>6. /\ declares <=> IsObject(d) /\ (d.init \/ ~IsOpen(HeapFor(d)[t]))
      /\ id[at].decl <=> at \in DOMAIN idents /\ idents[at].decl
      /\ t \in DOMAIN HeapFor(d) /\ (id[at].class = "object" <=> IsObject(d))
  BY <1>1, <1>5, DeclaresWhen DEF IdentsLeft
<1> HIDE DEF at, id, ty, sc, ex
<1>7. CASE ~declares
  <2>1. idents' = id /\ types' = ty /\ scopes' = sc /\ external' = ex /\ unit' = unit
    BY <1>2, <1>7 DEF Commit, id, ty, sc, ex
  <2>2. d.init = FALSE
    BY <1>1, <1>6, <1>7
  <2>3. LeftAs(d, at, id, ty, FALSE)
    BY <1>5, <1>6, <1>7, <2>2 DEF LeftAs
  <2>4. UnitLeft(d, at, id, ex, unit, body, FALSE)
    BY <1>5 DEF UnitLeft
  <2>5. Outcome(d, at, id, ty, ex, unit, body)
    BY <2>3, <2>4, LeftOutcome
  <2> QED
    BY <1>5, <2>1, <2>5
<1>8. CASE declares
  <2> DEFINE ty2 == IF d.init THEN Sized(p).types ELSE ty
  <2>1. q = [at |-> at, idents |-> id, types |-> ty2, scopes |-> sc, external |-> ex]
        /\ TypesLeft(d, t, ty2, d.init)
    <3>1. CASE d.init
      <4>1. PICK ty3 : Sized(p) = [at |-> at, idents |-> id, types |-> ty3, scopes |-> sc, external |-> ex]
        <5>1. Sound(sc, id, ty, ex) /\ at \in DOMAIN id
          BY <1>1, ProcessedFacts DEF ProcessedOK, p, sc, id, ty, ex, at
        <5> HIDE DEF t, declares, q, r, id2, ty2
        <5>2. \E x : /\ Sized(p) = [at |-> at, idents |-> id, types |-> x, scopes |-> sc, external |-> ex]
                     /\ Sound(sc, id, x, ex) /\ TypesGrow(ty, x) /\ SameParams(ty, x, DOMAIN ty)
          BY <1>3, <5>1, SizedFacts
        <5> QED
          BY <5>2
      <4>2. TypesLeft(d, t, Sized(p).types, TRUE)
        BY <1>1, <1>3, <1>5, <1>6, SizedLeft
      <4>3. d.init = TRUE /\ q = Sized(p) /\ ty2 = Sized(p).types
        BY <1>1, <3>1
      <4> HIDE DEF q, ty2
      <4>4. TypesLeft(d, t, ty2, d.init)
        BY <4>2, <4>3
      <4>5. q = [at |-> at, idents |-> id, types |-> ty3, scopes |-> sc, external |-> ex]
        BY <4>1, <4>3
      <4>6. ty2 = ty3
        BY <4>1, <4>3
      <4> QED
        BY <4>4, <4>5, <4>6
    <3>2. CASE ~d.init
      BY <1>1, <1>3, <1>5, <3>2
    <3> QED
      BY <3>1, <3>2
  <2> HIDE DEF q, ty2
  <2>2. r = [at |-> at, idents |-> id2, types |-> ty2, scopes |-> sc, external |-> ex]
    BY <2>1 DEF WithDecl
  <2> HIDE DEF r, id2
  <2>3. idents' = id2 /\ types' = ty2 /\ scopes' = sc /\ external' = ex
        /\ unit' = IF ~id[at].decl THEN Append(unit, EntryOf(at)) ELSE unit
    BY <1>2, <1>4, <1>8, <2>2 DEF Commit
  <2>4. IdentsLeft(d, at, id2, TRUE, d.init)
    <3>1. id2 = [id EXCEPT ![at] = Recorded(id[at], d.init)]
      BY DEF id2
    <3> HIDE DEF t, declares
    <3>2. Ready(d) /\ d.init \in BOOLEAN
      BY <1>1
    <3>3. IdentsLeft(d, at, id, FALSE, FALSE) /\ id \in Seq(Ident)
      BY <1>5
    <3> QED
      BY <3>1, <3>2, <3>3, RecordedLeft
  <2>5. id2 \in Seq(Ident) /\ id2[at].type = t /\ id2[at].linkage = id[at].linkage
    <3> DEFINE o == Recorded(id[at], d.init)
    <3>1. at \in DOMAIN id /\ id[at] \in Ident
      BY <1>5 DEF IdentsLeft
    <3>2. o \in Ident /\ o.type = id[at].type /\ o.linkage = id[at].linkage
      BY <1>1, <3>1 DEF Recorded, Ident
    <3>3. id2 = [id EXCEPT ![at] = o]
      BY DEF id2
    <3> HIDE DEF o
    <3>4. id2 \in Seq(Ident) /\ id2[at] = o
      BY <1>5, <3>1, <3>2, <3>3
    <3> QED
      BY <3>2, <3>4
  <2> HIDE DEF t
  <2>6. LeftAs(d, at, id2, ty2, TRUE)
    BY <1>6, <1>8, <2>1, <2>4, <2>5 DEF LeftAs
  <2>7. UnitLeft(d, at, id2, ex, unit', body, TRUE)
    BY <1>5, <1>6, <2>3, <2>5 DEF UnitLeft
  <2>8. Outcome(d, at, id2, ty2, ex, unit', body)
    BY <2>6, <2>7, LeftOutcome
  <2> QED
    BY <1>5, <2>3, <2>8
<1> QED
  BY <1>7, <1>8

-----------------------------------------------------------------------------
\* An enumerator is a new identifier of its scope.
LEMMA EnumerateOutcome ==
  ASSUME NEW d, Ready(d), d.form = "enumerator", Prior(d) = Nothing,
         NEW at, at = Len(idents) + 1, NEW id2, id2 = Append(idents, IntIdent("enumerator", d.name))
  PROVE  Outcome(d, at, id2, types, external, unit, body)
<1> DEFINE new == IntIdent("enumerator", d.name)
<1>1. /\ Soundly /\ TypesKnown(types) /\ d.name \in Names /\ d \in Declarator
      /\ idents \in Seq(Ident) /\ types \in Seq(HeapType)
  BY ReadyFacts, Typed
<1>2. /\ new.class = "enumerator" /\ new.name = d.name /\ new.type = 1 /\ new.linkage = "none"
      /\ new.decl = FALSE /\ new.init = FALSE
  BY DEF IntIdent, IntType
<1>3. new \in Ident
  BY <1>1 DEF IntIdent, Ident, Linkages, IntType
<1> HIDE DEF new
<1>4. /\ DOMAIN id2 = DOMAIN idents \cup {at} /\ at \notin DOMAIN idents
      /\ \A i \in DOMAIN idents : i \in DOMAIN id2 /\ id2[i] = idents[i]
      /\ id2[at] = new /\ at \in DOMAIN id2
  <2>1. \E S : idents \in Seq(S)
    BY <1>1
  <2> QED
    BY <2>1, UnitLonger DEF new
<1>5. id2 \in Seq(Ident)
  BY <1>1, <1>3 DEF new
<1>6. at # Nothing /\ 1 \in DOMAIN types
  BY <1>1, Typed DEF Nothing, Soundly, Sound, TypesOK
<1>7. IdentsOutcome(d, at, id2)
  BY <1>2, <1>4, <1>5 DEF IdentsOutcome
<1>8. types[1].shape = "int"
  BY <1>1 DEF TypesKnown
<1>9. TypesOutcome(at, id2, types)
  <2>1. \A s \in DOMAIN types : KeptType(types[s], types[s])
    BY DEF KeptType
  <2>2. ~IsOpen(types[1])
    BY <1>8 DEF IsOpen
  <2>3. ClassRight(new, types)
    BY <1>2 DEF ClassRight, IntType
  <2> QED
    BY <1>1, <1>2, <1>4, <2>1, <2>2, <2>3 DEF TypesOutcome
<1>10. UnitOutcome(d, at, id2, external, unit, body)
  BY <1>2, <1>4 DEF UnitOutcome
<1>11. ToldOf(at, id2, types) = Standard!Binding(d)
  <2>1. Written(types[1]) = "int"
    BY <1>8 DEF Written
  <2>2. KindIn(at, id2) = "enumerator"
    BY <1>2, <1>4 DEF KindIn
  <2>3. Standard!Binding(d) = [kind |-> "enumerator", linkage |-> "none", type |-> "int"]
    BY EnumeratorLegal
  <2> QED
    BY <1>2, <1>4, <1>6, <2>1, <2>2, <2>3 DEF ToldOf
<1> QED
  BY <1>7, <1>9, <1>10, <1>11 DEF Outcome

-----------------------------------------------------------------------------
\* The types once a function has its body: its own is complete.
Bodied(ty, t) == [ty EXCEPT ![t] = [ty[t] EXCEPT !.complete = TRUE]]

\* The function's type is completed, which leaves it as it is written.
LEMMA BodiedLeft ==
  ASSUME NEW d, Ready(d), NEW t, NEW ty \in Seq(HeapType), TypesLeft(d, t, ty, FALSE),
         t \in DOMAIN HeapFor(d), IsFunction(HeapFor(d)[t])
  PROVE  TypesLeft(d, t, Bodied(ty, t), FALSE)
<1> DEFINE h == HeapFor(d)
           new == [ty[t] EXCEPT !.complete = TRUE]
           ty2 == Bodied(ty, t)
<1>1. /\ \A s \in DOMAIN h : s \in DOMAIN ty /\ KeptType(h[s], ty[s])
      /\ \A s \in DOMAIN ty : s \in DOMAIN h
      /\ t \in DOMAIN h /\ h[t].shape = "function"
  BY DEF TypesLeft, IsFunction
<1>2. t \in DOMAIN ty /\ ty[t] \in HeapType
  BY <1>1
<1>3. new.shape = ty[t].shape
  BY <1>2 DEF HeapType
<1>a. ty2 = [ty EXCEPT ![t] = new]
  BY DEF Bodied
<1> HIDE DEF new, h, ty2
<1>4. ty2[t] = new /\ DOMAIN ty2 = DOMAIN ty /\ \A s \in DOMAIN ty : s # t => ty2[s] = ty[s]
  BY <1>2, <1>a
<1>5. KeptType(h[t], ty2[t])
  BY <1>1, <1>3, <1>4 DEF KeptType
<1> QED
  BY <1>1, <1>4, <1>5 DEF TypesLeft, h, ty2

\* An appended element counts.
LEMMA AppendedLength ==
  ASSUME NEW S, NEW q \in Seq(S), NEW e
  PROVE  Len(Append(q, e)) = Len(q) + 1
OBVIOUS

(* A definition comes to what the standard says of its declaration, and    *)
(* its parameter is the one the body begins with.                          *)
LEMMA DefineOutcome ==
  ASSUME NEW d, Accepted(d), d.form = "definition", AtFile, d.storage # "typedef", d.param # NoName,
         NEW p, p = Processed(d), NEW t, t = p.idents[p.at].type,
         NEW b2, b2.ident = p.at
  PROVE  /\ Outcome(d, p.at, p.idents, Bodied(p.types, t), p.external, unit, b2)
         /\ p.scopes = ScopesOutcome(d, p.at)
         /\ p.types[t].params \in DOMAIN p.idents
         /\ p.idents[p.types[t].params] = IntIdent("object", d.param)
<1> DEFINE at == p.at
           id == p.idents
           ty == p.types
           ty2 == Bodied(ty, t)
           param == ty[t].params
<1>1. /\ Ready(d) /\ ~Refused(d, NewType(d)) /\ NoGap(d) /\ d \in Declarator /\ d.init = FALSE
      /\ PlaceLeft(d, p) /\ Soundly /\ TypeKnown(d) /\ IsFunction(NewType(d)) /\ Param(d) # Nothing
  BY AcceptedFacts, PlacesLeft, ReadyFacts, DefinitionFacts DEF Accepted
<1>2. /\ id \in Seq(Ident) /\ ty \in Seq(HeapType) /\ p.scopes = ScopesOutcome(d, at)
      /\ IdentsLeft(d, at, id, FALSE, FALSE) /\ TypesLeft(d, t, ty, FALSE)
      /\ p.external = external \/ (p.external = [external EXCEPT ![d.name] = at] /\ id[at].linkage = "external")
  BY <1>1 DEF PlaceLeft
<1>3. param = Param(d) /\ Param(d) = Len(idents) + 1
  <2>1. HasParam(d)
    BY DEF HasParam
  <2> QED
    BY <1>1, <2>1, DefinitionAt DEF Param
<1>4. t \in DOMAIN HeapFor(d) /\ IsFunction(HeapFor(d)[t])
  <2>1. t \in DOMAIN HeapFor(d)
    BY <1>2 DEF IdentsLeft
  <2>2. /\ \A s \in DOMAIN types : s \in DOMAIN HeapFor(d) /\ HeapFor(d)[s] = types[s]
        /\ HeapFor(d)[TypeOf(d)] = NewType(d)
    BY <1>1, ReadyFacts, HeapForKnown
  <2>3. CASE at \in DOMAIN idents
    <3>1. types[t].shape = NewType(d).shape /\ t = idents[at].type
      BY <1>2, <2>3 DEF IdentsLeft, ChangedTo
    <3>2. t \in DOMAIN types
      BY <1>1, <2>3, <3>1, ToldView DEF Ready
    <3> QED
      BY <1>1, <2>1, <2>2, <3>1, <3>2 DEF IsFunction
  <2>4. CASE at \notin DOMAIN idents
    BY <1>1, <1>2, <2>1, <2>2, <2>4 DEF IdentsLeft, MadeAs
  <2> QED
    BY <2>3, <2>4
<1>5. TypesLeft(d, t, ty2, FALSE)
  BY <1>1, <1>2, <1>4, BodiedLeft
<1>6. LeftAs(d, at, id, ty2, FALSE)
  BY <1>1, <1>2, <1>5 DEF LeftAs, IsObject
<1>7. UnitLeft(d, at, id, p.external, unit, b2, FALSE)
  BY <1>2 DEF UnitLeft
<1>8. Outcome(d, at, id, ty2, p.external, unit, b2)
  BY <1>6, <1>7, LeftOutcome
<1>9. param \in DOMAIN id /\ param \notin DOMAIN idents /\ idents \in Seq(Ident) /\ Len(idents) \in Nat
  <2>1. Sound(p.scopes, id, ty, p.external)
    BY <1>1, ProcessedFacts DEF ProcessedOK
  <2>2. t \in DOMAIN ty
    BY <1>2, <1>4 DEF TypesLeft
  <2>a. param \in 0..Len(id)
    BY <2>1, <2>2 DEF Sound, TypesOK
  <2>b. Len(id) \in Nat /\ DOMAIN id = 1..Len(id)
    <3>1. id \in Seq(Ident)
      BY <1>2
    <3> HIDE DEF id
    <3> QED
      BY <3>1, LenProperties
  <2>c. param # 0
    <3> HIDE DEF param
    <3> QED
      BY <1>1, <1>3 DEF Nothing
  <2>3. param \in 0..Len(id) /\ Len(id) \in Nat /\ param # 0
    BY <2>a, <2>b, <2>c
  <2>4. idents \in Seq(Ident) /\ Len(idents) \in Nat /\ DOMAIN idents = 1..Len(idents)
    BY <1>1, Typed, LenProperties
  <2>5. param = Len(idents) + 1
    BY <1>3
  <2> HIDE DEF param, id, ty, at
  <2> QED
    BY <2>b, <2>3, <2>4, <2>5
<1>10. param # at
  <2>1. CASE at \in DOMAIN idents
    BY <1>9, <2>1
  <2>2. CASE at \notin DOMAIN idents
    <3>1. Prior(d) = Nothing
      BY <1>2, <2>2 DEF IdentsLeft, MadeAs
    <3>2. at = Len(Pool(d)) + 1
      BY <3>1 DEF Processed, Inserted
    <3>3. Pool(d) = Append(idents, IntIdent("object", d.param))
      BY DEF Pool, HasParam
    <3>4. Len(Pool(d)) = Len(idents) + 1
      BY <1>9, <3>3, AppendedLength
    <3>5. param = Len(idents) + 1 /\ Len(idents) \in Nat
      BY <1>3, <1>9
    <3> HIDE DEF at, param, id, ty
    <3> QED
      BY <3>2, <3>4, <3>5
  <2> QED
    BY <2>1, <2>2
<1>11. id[param] = IntIdent("object", d.param)
  <2> HIDE DEF param
  <2> QED
    BY <1>2, <1>9, <1>10 DEF IdentsLeft
<1> QED
  BY <1>2, <1>8, <1>9, <1>11

-----------------------------------------------------------------------------
\* What the names of a scope denote.
RowOf(s, id, ty) == [n \in Ordinary |-> ToldOf(s.map[n], id, ty)]

\* The environment has a row for each scope.
LEMMA EnvRows ==
  ASSUME NEW sc, NEW id, NEW ty, \E S : sc \in Seq(S)
  PROVE  /\ Len(EnvOf(sc, id, ty)) = Len(sc) /\ Len(sc) \in Nat
         /\ \E T : EnvOf(sc, id, ty) \in Seq(T)
         /\ DOMAIN EnvOf(sc, id, ty) = 1..Len(sc)
         /\ \A k \in 1..Len(sc) : EnvOf(sc, id, ty)[k] = RowOf(sc[k], id, ty)
<1> DEFINE l == Len(sc)
           E == EnvOf(sc, id, ty)
           row(k) == RowOf(sc[k], id, ty)
           T == {row(k) : k \in 1..l}
<1>1. l \in Nat /\ DOMAIN sc = 1..l
  OBVIOUS
<1>2. E = [k \in 1..l |-> row(k)]
  BY <1>1 DEF EnvOf, RowOf
<1> HIDE DEF E, l, row
<1>3. E \in Seq(T)
  BY <1>1, <1>2
<1>4. Len(E) = l
  BY <1>1, <1>2, <1>3
<1>5. \E U : E \in Seq(U)
  BY <1>3
<1>6. DOMAIN E = 1..l /\ \A k \in 1..l : E[k] = row(k)
  BY <1>2
<1> QED
  BY <1>1, <1>4, <1>5, <1>6 DEF E, l, row

\* A scope that is entered adds its row.
AddsRow(sc, s, id, ty) == EnvOf(Enter(sc, s), id, ty) = Append(EnvOf(sc, id, ty), RowOf(s, id, ty))

\* The row is appended.
LEMMA EnvEnter ==
  ASSUME NEW sc, NEW s, NEW id, NEW ty, \E S : sc \in Seq(S)
  PROVE  AddsRow(sc, s, id, ty)
<1> DEFINE l == Len(sc)
           E == EnvOf(sc, id, ty)
           sc2 == Append(sc, s)
           E2 == EnvOf(sc2, id, ty)
           r == RowOf(s, id, ty)
<1>1. /\ Len(E) = l /\ l \in Nat /\ (\E T : E \in Seq(T)) /\ DOMAIN E = 1..l
      /\ \A k \in 1..l : E[k] = RowOf(sc[k], id, ty)
  BY EnvRows
<1>2. /\ DOMAIN sc2 = DOMAIN sc \cup {l + 1} /\ \A k \in DOMAIN sc : sc2[k] = sc[k]
      /\ sc2[l + 1] = s /\ DOMAIN sc = 1..l
  BY UnitLonger
<1>3. \E S : sc2 \in Seq(S)
  <2>1. PICK S : sc \in Seq(S)
    OBVIOUS
  <2>2. sc \in Seq(S \cup {s})
    BY <2>1
  <2>3. Append(sc, s) \in Seq(S \cup {s})
    BY <2>2
  <2> QED
    BY <2>3
<1>4. Len(sc2) = l + 1
  <2>1. PICK S : sc \in Seq(S)
    OBVIOUS
  <2>2. sc \in Seq(S \cup {s})
    BY <2>1
  <2> QED
    BY <2>2
<1> HIDE DEF sc2
<1>5. /\ DOMAIN E2 = 1..Len(sc2)
      /\ \A k \in 1..Len(sc2) : E2[k] = RowOf(sc2[k], id, ty)
      /\ \E T : E2 \in Seq(T)
  BY <1>3, EnvRows
<1> HIDE DEF E, E2, l, r
<1>6. DOMAIN E2 = 1..(l + 1)
  BY <1>4, <1>5
<1>7. \A k \in 1..(l + 1) : E2[k] = IF k = l + 1 THEN r ELSE E[k]
  BY <1>1, <1>2, <1>4, <1>5 DEF r
<1>8. /\ DOMAIN Append(E, r) = 1..(l + 1)
      /\ \A k \in 1..(l + 1) : Append(E, r)[k] = IF k = l + 1 THEN r ELSE E[k]
  <2>1. /\ DOMAIN Append(E, r) = DOMAIN E \cup {l + 1} /\ l + 1 \notin DOMAIN E
        /\ \A k \in DOMAIN E : Append(E, r)[k] = E[k]
        /\ Append(E, r)[l + 1] = r
    BY <1>1, UnitLonger
  <2> QED
    BY <1>1, <2>1
<1>9. E2 = Append(E, r)
  <2>1. Append(E, r) = [k \in 1..(l + 1) |-> IF k = l + 1 THEN r ELSE E[k]]
    <3> DEFINE A == Append(E, r)
    <3>1. \E T : A \in Seq(T)
      <4>1. PICK T : E \in Seq(T)
        BY <1>1
      <4>2. E \in Seq(T \cup {r})
        BY <4>1
      <4>3. A \in Seq(T \cup {r})
        BY <4>2
      <4> QED
        BY <4>3
    <3>0. DOMAIN A = 1..(l + 1) /\ \A k \in 1..(l + 1) : A[k] = IF k = l + 1 THEN r ELSE E[k]
      BY <1>8
    <3> HIDE DEF A
    <3>2. A = [k \in 1..(l + 1) |-> IF k = l + 1 THEN r ELSE E[k]]
      BY <3>0, <3>1
    <3> QED
      BY <3>2 DEF A
  <2>2. \E T : E2 \in Seq(T)
    BY <1>5
  <2>3. E2 = [k \in 1..(l + 1) |-> IF k = l + 1 THEN r ELSE E[k]]
    BY <1>6, <1>7, <2>2
  <2> QED
    BY <2>1, <2>3
<1> QED
  BY <1>9 DEF AddsRow, Enter, E, E2, sc2, r

\* One that is left takes its row away.
DropsRow(sc, id, ty) == EnvOf(Exit(sc), id, ty) = SubSeq(EnvOf(sc, id, ty), 1, Len(sc) - 1)

\* The rows of the other scopes stay.
LEMMA EnvExit ==
  ASSUME NEW sc, NEW id, NEW ty, \E S : sc \in Seq(S), Len(sc) > 1
  PROVE  DropsRow(sc, id, ty)
<1> DEFINE m == Len(sc) - 1
           E == EnvOf(sc, id, ty)
           sc2 == SubSeq(sc, 1, m)
           E2 == EnvOf(sc2, id, ty)
<1>1. /\ Len(E) = Len(sc) /\ Len(sc) \in Nat /\ (\E T : E \in Seq(T))
      /\ \A k \in 1..Len(sc) : E[k] = RowOf(sc[k], id, ty)
  BY EnvRows
<1>2. m \in Nat /\ m \in 1..Len(sc) /\ 1..m \subseteq 1..Len(sc)
  <2> DEFINE l == Len(sc)
  <2>1. l \in Nat /\ l > 1 /\ m = l - 1
    BY <1>1
  <2> HIDE DEF l, m
  <2>2. m \in Nat /\ m \in 1..l /\ 1..m \subseteq 1..l
    BY <2>1
  <2> QED
    BY <2>2 DEF l
<1> HIDE DEF m
<1>3. /\ Len(sc2) = m /\ (\E S : sc2 \in Seq(S)) /\ \A k \in 1..m : sc2[k] = sc[k]
  <2>1. PICK S : sc \in Seq(S)
    OBVIOUS
  <2>2. sc2 \in Seq(S) /\ Len(sc2) = m /\ \A k \in 1..m : sc2[k] = sc[k]
    BY <1>2, <2>1, SubSeqProperties
  <2> QED
    BY <2>2
<1>4. /\ SubSeq(E, 1, m) = [k \in 1..m |-> E[k]]
  <2>1. PICK T : E \in Seq(T)
    BY <1>1
  <2>2. SubSeq(E, 1, m) \in Seq(T) /\ Len(SubSeq(E, 1, m)) = m /\ \A k \in 1..m : SubSeq(E, 1, m)[k] = E[k]
    BY <1>1, <1>2, <2>1, SubSeqProperties
  <2> HIDE DEF E
  <2> QED
    BY <1>2, <2>2
<1> HIDE DEF sc2
<1>5. /\ DOMAIN E2 = 1..Len(sc2) /\ (\E T : E2 \in Seq(T))
      /\ \A k \in 1..Len(sc2) : E2[k] = RowOf(sc2[k], id, ty)
  BY <1>3, EnvRows
<1> HIDE DEF E, E2
<1>6. \A k \in 1..m : E2[k] = E[k]
  BY <1>1, <1>2, <1>3, <1>5
<1>7. E2 = [k \in 1..m |-> E[k]]
  BY <1>3, <1>5, <1>6
<1> QED
  BY <1>4, <1>7 DEF DropsRow, Exit, E, E2, sc2, m

-----------------------------------------------------------------------------
\* What is bound in the innermost scope.
BindsLast(X, r, n, b) == Standard!Bind(Append(X, r), n, b) = Append(X, [r EXCEPT ![n] = b])

\* Binding a name in a scope that was entered changes its row.
LEMMA BindAppend ==
  ASSUME NEW X, NEW r, NEW n, NEW b, \E T : X \in Seq(T)
  PROVE  BindsLast(X, r, n, b)
<1> DEFINE l == Len(X)
           A == Append(X, r)
           r2 == [r EXCEPT ![n] = b]
           B == Append(X, r2)
<1>1. l \in Nat /\ DOMAIN X = 1..l
  OBVIOUS
<1>2. Len(A) = l + 1 /\ (\E U : A \in Seq(U))
  <2>1. PICK T : X \in Seq(T)
    OBVIOUS
  <2>2. X \in Seq(T \cup {r}) /\ r \in T \cup {r}
    BY <2>1
  <2>3. A \in Seq(T \cup {r}) /\ Len(A) = l + 1
    BY <2>2
  <2> QED
    BY <2>3
<1>3. Len(B) = l + 1 /\ (\E U : B \in Seq(U))
  <2>1. PICK T : X \in Seq(T)
    OBVIOUS
  <2> HIDE DEF r2
  <2>2. X \in Seq(T \cup {r2}) /\ r2 \in T \cup {r2}
    BY <2>1
  <2>3. B \in Seq(T \cup {r2}) /\ Len(B) = l + 1
    BY <2>2
  <2> QED
    BY <2>3
<1>4. /\ \A k \in DOMAIN X : A[k] = X[k]
      /\ A[l + 1] = r /\ l + 1 \notin DOMAIN X
      /\ DOMAIN A = DOMAIN X \cup {l + 1}
  BY UnitLonger
<1> HIDE DEF r2
<1>5. /\ \A k \in DOMAIN X : B[k] = X[k]
      /\ B[l + 1] = r2 /\ DOMAIN B = DOMAIN X \cup {l + 1}
  BY UnitLonger
<1>6. Standard!Bind(A, n, b) = [A EXCEPT ![l + 1] = r2]
  <2>1. Standard!Bind(A, n, b) = [A EXCEPT ![l + 1][n] = b]
    BY <1>2 DEF Standard!Bind
  <2> HIDE DEF A, l
  <2>2. [A EXCEPT ![l + 1][n] = b] = [A EXCEPT ![l + 1] = [A[l + 1] EXCEPT ![n] = b]]
    OBVIOUS
  <2>3. [A[l + 1] EXCEPT ![n] = b] = r2
    BY <1>4 DEF r2
  <2> QED
    BY <2>1, <2>2, <2>3
<1> HIDE DEF A, B, l
<1>7. A = [k \in DOMAIN A |-> A[k]] /\ B = [k \in DOMAIN B |-> B[k]]
  BY <1>2, <1>3
<1>8. [A EXCEPT ![l + 1] = r2] = [k \in DOMAIN A |-> IF k = l + 1 THEN r2 ELSE A[k]]
  BY <1>7
<1>9. \A k \in DOMAIN A : (IF k = l + 1 THEN r2 ELSE A[k]) = B[k]
  BY <1>4, <1>5
<1>10. [k \in DOMAIN A |-> IF k = l + 1 THEN r2 ELSE A[k]] = [k \in DOMAIN B |-> B[k]]
  BY <1>4, <1>5, <1>9
<1> QED
  BY <1>6, <1>7, <1>8, <1>10 DEF BindsLast, A, B, r2

\* A block begins without names, that of a body with the parameter's.
LEMMA BlockRows ==
  ASSUME NEW id, NEW ty
  PROVE  RowOf(NewScope("block"), id, ty) = Standard!NoScope
<1>1. \A n \in Ordinary : NewScope("block").map[n] = Nothing
  BY DEF NewScope, Ordinary
<1>2. ToldOf(Nothing, id, ty) = Standard!Unbound
  BY DEF ToldOf, Standard!Unbound
<1> QED
  BY <1>1, <1>2 DEF RowOf, Standard!NoScope

\* The scope a body begins with has one name, the parameter's.
HasParameter(s, param, m, id, ty) ==
  /\ RowOf(s, id, ty) = [Standard!NoScope EXCEPT ![m] = Standard!Parameter]
  /\ \A n \in Names : s.map[n] = IF n = m THEN param ELSE Nothing

\* The row of a body has the parameter.
LEMMA BodyRow ==
  ASSUME NEW p, NEW param, NEW m, NEW ty, param = p.types[p.idents[p.at].type].params,
         m \in Ordinary, p.idents[param] = IntIdent("object", m), param # Nothing,
         ty[1].shape = "int"
  PROVE  HasParameter(BodyScope(p), param, m, p.idents, ty)
<1> DEFINE id == p.idents
           o == IntIdent("object", m)
           s == NewScope("block")
<1>1. o.name = m /\ o.class = "object" /\ o.linkage = "none" /\ o.type = 1
  BY DEF IntIdent, IntType
<1>2. BodyScope(p) = [s EXCEPT !.map[m] = param]
  BY <1>1 DEF BodyScope
<1>3. s = [type |-> "block", map |-> [n \in Names |-> Nothing]] /\ m \in Names
  BY DEF NewScope, Ordinary
<1>4. BodyScope(p).map = [[n \in Names |-> Nothing] EXCEPT ![m] = param]
  <2> DEFINE none == [n \in Names |-> Nothing]
  <2>1. s = [type |-> "block", map |-> none]
    BY <1>3
  <2> HIDE DEF none, s, id, o
  <2>2. BodyScope(p).map = [none EXCEPT ![m] = param]
    BY <1>2, <2>1
  <2> QED
    BY <2>2 DEF none
<1>5. \A n \in Names : BodyScope(p).map[n] = IF n = m THEN param ELSE Nothing
  BY <1>3, <1>4
<1>6. ToldOf(param, id, ty) = Standard!Parameter
  <2>1. KindIn(param, id) = "object" /\ id[param].linkage = "none" /\ id[param].type = 1
    BY <1>1 DEF KindIn
  <2>2. Written(ty[1]) = "int"
    BY DEF Written
  <2> QED
    BY <2>1, <2>2 DEF ToldOf, Standard!Parameter
<1>7. ToldOf(Nothing, id, ty) = Standard!Unbound
  BY DEF ToldOf, Standard!Unbound
<1> DEFINE b == Standard!Parameter
           z == Standard!Unbound
           g(n) == ToldOf(BodyScope(p).map[n], id, ty)
<1>8. \A n \in Ordinary : g(n) = IF n = m THEN b ELSE z
  <2>1. \A n \in Ordinary : n \in Names
    BY DEF Ordinary
  <2> QED
    BY <1>5, <1>6, <1>7, <2>1
<1>9. RowOf(BodyScope(p), id, ty) = [n \in Ordinary |-> g(n)]
  BY DEF RowOf
<1>10. Standard!NoScope = [n \in Ordinary |-> z]
  BY DEF Standard!NoScope
<1> HIDE DEF g, b, z
<1>11. [n \in Ordinary |-> g(n)] = [[n \in Ordinary |-> z] EXCEPT ![m] = b]
  BY <1>8
<1> QED
  BY <1>5, <1>9, <1>10, <1>11 DEF b, HasParameter

-----------------------------------------------------------------------------
\* All of the differences are left out.
AllGaps ==
  {"HiddenCompared", "TypedefIgnored", "LatePrototype", "LengthLost", "TentativeDropped",
   "LengthNotInherited", "BodyShared", "TypedefBody"}

\* What is compared has a meaning, and is none of the differences.
LEMMA WantedFacts ==
  ASSUME AllGaps \subseteq Gaps, IInv, ToldInv, NEW d \in Inputs, Wanted(d), TypeFound(d)
  PROVE  /\ Ready(d) /\ Standard!Meaningful(d)
         /\ Standard!Legal(d) => ~Standard!Undefined(d)
         /\ d.form # "enumerator" => NoGap(d)
<1>1. Ready(d)
  BY InputsAreDeclarators DEF Ready
<1>2. Standard!Meaningful(d) /\ (Standard!Legal(d) => ~Standard!Undefined(d))
  BY DEF Wanted, Standard!Meaningful
<1>3. d.form # "enumerator" => NoGap(d)
  BY DEF Wanted, Skipped, NoGap, AllGaps
<1> QED
  BY <1>1, <1>2, <1>3

\* A declaration is read in both.
LEMMA ReadView ==
  ASSUME NEW d, Reading(d)
  PROVE  Standard!Read(d)
BY DEF Reading, Standard!Read, LastRead, WasRefused

\* One that ends the compiler is refused.
LEMMA ErrorRefuses ==
  ASSUME NEW d, Reading(d), Error, Standard!Meaningful(d), ~Standard!Legal(d), ToldInv
  PROVE  Standard!Refuse(d) /\ ToldInv'
<1>1. /\ scopes' = scopes /\ idents' = idents /\ types' = types /\ external' = external
      /\ unit' = unit /\ body' = body /\ status' = "error"
  BY DEF Error
<1>2. Scoped' = Scoped /\ AllLinked' = AllLinked
  BY <1>1, ToldNow
<1>3. WasRefused' = TRUE
  BY <1>1 DEF WasRefused
<1>4. Standard!Read(d)
  BY ReadView
<1>5. ToldInv'
  BY <1>1 DEF ToldInv
<1> QED
  BY <1>2, <1>3, <1>4, <1>5 DEF Standard!Refuse

\* One that is accepted.
LEMMA OutcomeStep ==
  ASSUME NEW d, Ready(d), ~Standard!Undefined(d), NEW at,
         Outcome(d, at, idents', types', external', unit', body'),
         UnitOK(unit', scopes', idents', types')
  PROVE  /\ AllLinked' = Standard!Joined(d)
         /\ EnvOf(ScopesOutcome(d, at), idents', types') = Standard!Bind(Scoped, d.name, Standard!Binding(d))
         /\ Told(ScopesOutcome(d, at), idents', types', external', unit')
<1> DEFINE id2 == idents'
           ty2 == types'
           ex2 == external'
           u2 == unit'
           b2 == body'
           sc2 == scopes'
<1>1. Outcome(d, at, id2, ty2, ex2, u2, b2) /\ UnitOK(u2, sc2, id2, ty2)
  OBVIOUS
<1>2. AllLinked' = AllLinkedIn(id2, ty2, u2, b2)
  BY ToldNow
<1> HIDE DEF id2, ty2, ex2, u2, b2, sc2
<1>3. Agrees(d)
  BY MeaningAgrees
<1>4. AllLinkedIn(id2, ty2, u2, b2) = Standard!Joined(d)
  BY <1>1, <1>3, LinkedOutcome
<1>5. EnvOf(ScopesOutcome(d, at), id2, ty2) = Standard!Bind(Scoped, d.name, Standard!Binding(d))
  BY <1>1, EnvOutcome
<1>6. Told(ScopesOutcome(d, at), id2, ty2, ex2, u2)
  BY <1>1, <1>3, ToldOutcome
<1> QED
  BY <1>2, <1>4, <1>5, <1>6 DEF id2, ty2, ex2, u2

(* A declaration is refused, or binds its name, as in the standard.        *)
LEMMA DeclareStep ==
  ASSUME AllGaps \subseteq Gaps, IInv, IInv', ToldInv, NEW d \in Inputs, Declare(d), Wanted(d)
  PROVE  (Standard!Declare(d) \/ Standard!Refuse(d)) /\ ToldInv'
<1>1. Reading(d) /\ d.form = "declaration" /\ TypeFound(d)
  BY DEF Declare, TypeFound
<1>2. /\ Ready(d) /\ Standard!Meaningful(d) /\ NoGap(d)
      /\ Standard!Legal(d) => ~Standard!Undefined(d)
  BY <1>1, WantedFacts
<1>3. Standard!Legal(d) <=> ~(Refused(d, NewType(d)) \/ InitRefused(Processed(d), d))
  <2>1. CASE d.storage = "typedef"
    BY <1>1, <1>2, <2>1, TypedefLegal
  <2>2. CASE d.storage # "typedef"
    BY <1>1, <1>2, <2>2, ObjectLegal
  <2> QED
    BY <2>1, <2>2
<1>4. CASE ~Standard!Legal(d)
  <2>1. Error
    BY <1>3, <1>4 DEF Declare
  <2> QED
    BY <1>1, <1>2, <1>4, <2>1, ErrorRefuses
<1>5. CASE Standard!Legal(d)
  <2>1. InitDeclarator(Processed(d), d) /\ body' = body /\ status' = status /\ ~Refused(d, NewType(d))
    BY <1>3, <1>5 DEF Declare
  <2>2. Accepted(d)
    BY <1>1, <1>2, <1>5, <2>1 DEF Accepted
  <2>3. PICK at : Outcome(d, at, idents', types', external', unit', body') /\ scopes' = ScopesOutcome(d, at)
    BY <1>1, <2>1, <2>2, DeclareOutcome
  <2>4. UnitOK(unit', scopes', idents', types')
    BY DEF IInv
  <2>5. /\ AllLinked' = Standard!Joined(d)
        /\ EnvOf(scopes', idents', types') = Standard!Bind(Scoped, d.name, Standard!Binding(d))
        /\ Told(scopes', idents', types', external', unit')
    BY <1>2, <1>5, <2>3, <2>4, OutcomeStep
  <2>6. ToldInv'
    BY <2>5 DEF ToldInv
  <2>7. WasRefused' = WasRefused
    BY <2>1 DEF WasRefused
  <2>8. Standard!Read(d)
    BY <1>1, ReadView
  <2>9. Standard!Declare(d)
    BY <1>1, <1>2, <1>5, <2>5, <2>7, <2>8, ToldNow DEF Standard!Declare
  <2> QED
    BY <2>6, <2>9
<1> QED
  BY <1>4, <1>5

\* So is an enumerator.
LEMMA EnumerateStep ==
  ASSUME AllGaps \subseteq Gaps, IInv, IInv', ToldInv, NEW d \in Inputs, Enumerate(d), Wanted(d)
  PROVE  (Standard!Declare(d) \/ Standard!Refuse(d)) /\ ToldInv'
<1>1. Reading(d) /\ d.form = "enumerator"
  BY DEF Enumerate
<1>2. TypeFound(d)
  <2>1. d.type = "int"
    BY <1>1, InputsAreDeclarators DEF Declarator
  <2> QED
    BY <2>1, NamesAreIdentifiers DEF TypeFound
<1>3. /\ Ready(d) /\ Standard!Meaningful(d)
      /\ Standard!Legal(d) => ~Standard!Undefined(d)
  BY <1>2, WantedFacts
<1>4. Standard!Legal(d) <=> Prior(d) = Nothing
  BY <1>1, <1>3, EnumeratorLegal
<1>5. CASE ~Standard!Legal(d)
  <2>1. Error
    BY <1>4, <1>5 DEF Enumerate
  <2> QED
    BY <1>1, <1>3, <1>5, <2>1, ErrorRefuses
<1>6. CASE Standard!Legal(d)
  <2> DEFINE at == Len(idents) + 1
  <2>1. /\ idents' = Append(idents, IntIdent("enumerator", d.name)) /\ scopes' = Insert(scopes, d.name, at)
        /\ types' = types /\ external' = external /\ unit' = unit /\ body' = body /\ status' = status
    BY <1>4, <1>6 DEF Enumerate
  <2>2. at \notin DOMAIN idents
    <3>1. idents \in Seq(Ident)
      BY <1>3, ReadyFacts, Typed
    <3> QED
      BY <3>1
  <2> HIDE DEF at
  <2>3. Outcome(d, at, idents', types', external', unit', body')
    BY <1>1, <1>3, <1>4, <1>6, <2>1, EnumerateOutcome DEF at
  <2>4. scopes' = ScopesOutcome(d, at)
    BY <2>1, <2>2 DEF ScopesOutcome
  <2>5. UnitOK(unit', scopes', idents', types')
    BY DEF IInv
  <2>6. /\ AllLinked' = Standard!Joined(d)
        /\ EnvOf(scopes', idents', types') = Standard!Bind(Scoped, d.name, Standard!Binding(d))
        /\ Told(scopes', idents', types', external', unit')
    BY <1>3, <1>6, <2>3, <2>4, <2>5, OutcomeStep
  <2>7. ToldInv'
    BY <2>6 DEF ToldInv
  <2>8. WasRefused' = WasRefused
    BY <2>1 DEF WasRefused
  <2>9. Standard!Read(d)
    BY <1>1, ReadView
  <2>10. Standard!Declare(d)
    BY <1>1, <1>3, <1>6, <2>6, <2>8, <2>9, ToldNow DEF Standard!Declare
  <2> QED
    BY <2>7, <2>10
<1> QED
  BY <1>5, <1>6

-----------------------------------------------------------------------------
\* A scope is entered whose names are those of their identifiers.
LEMMA ToldEnter ==
  ASSUME NEW sc, NEW s, NEW id, NEW ty, NEW ex, NEW u,
         \E S : sc \in Seq(S), Told(sc, id, ty, ex, u),
         \A n \in Names : s.map[n] # Nothing => id[s.map[n]].name = n
  PROVE  Told(Enter(sc, s), id, ty, ex, u)
<1> DEFINE sc2 == Append(sc, s)
<1>1. NamesRight(sc, id, ex)
  BY DEF Told
<1>2. /\ DOMAIN sc2 = DOMAIN sc \cup {Len(sc) + 1} /\ sc2[Len(sc) + 1] = s
      /\ \A k \in DOMAIN sc : sc2[k] = sc[k]
  BY UnitLonger
<1> HIDE DEF sc2
<1>3. \A k \in DOMAIN sc2, n \in Names : sc2[k].map[n] # Nothing => id[sc2[k].map[n]].name = n
  <2> SUFFICES ASSUME NEW k \in DOMAIN sc2, NEW n \in Names, sc2[k].map[n] # Nothing
               PROVE  id[sc2[k].map[n]].name = n
    OBVIOUS
  <2>1. CASE k \in DOMAIN sc
    <3>1. sc2[k] = sc[k]
      BY <1>2, <2>1
    <3> QED
      BY <1>1, <2>1, <3>1 DEF NamesRight
  <2>2. CASE k = Len(sc) + 1
    <3>1. sc2[k] = s
      BY <1>2, <2>2
    <3> QED
      BY <3>1
  <2> QED
    BY <1>2, <2>1, <2>2
<1>4. NamesRight(sc2, id, ex)
  BY <1>1, <1>3 DEF NamesRight
<1>5. Told(sc2, id, ty, ex, u)
  BY <1>4 DEF Told
<1> QED
  BY <1>5 DEF Enter, sc2

\* What is left of the scopes has their names.
LEMMA ToldExit ==
  ASSUME NEW sc, NEW sc2, NEW id, NEW ty, NEW ex, NEW u, Told(sc, id, ty, ex, u),
         \A k \in DOMAIN sc2 : k \in DOMAIN sc /\ sc2[k] = sc[k]
  PROVE  Told(sc2, id, ty, ex, u)
<1>1. NamesRight(sc, id, ex)
  BY DEF Told
<1>2. NamesRight(sc2, id, ex)
  BY <1>1 DEF NamesRight
<1> QED
  BY <1>2 DEF Told

\* A definition: what it leaves, and the block of its body.
LEMMA DefineLeft ==
  ASSUME IInv, NEW d, d \in Declarator, Accepted(d), d.form = "definition", AtFile,
         NEW p, p = Processed(d), NEW t, t = p.idents[p.at].type,
         Commit([p EXCEPT !.types[t].complete = TRUE, !.scopes = Enter(@, BodyScope(p))])
  PROVE  /\ scopes' = Enter(p.scopes, BodyScope(p)) /\ idents' = p.idents /\ external' = p.external
         /\ types' = [p.types EXCEPT ![t] = [p.types[t] EXCEPT !.complete = TRUE]]
<1> DEFINE q == [p EXCEPT !.types[t].complete = TRUE, !.scopes = Enter(@, BodyScope(p))]
           ty2 == [p.types EXCEPT ![t] = [p.types[t] EXCEPT !.complete = TRUE]]
           sc2 == Enter(p.scopes, BodyScope(p))
<1>1. ProcessedOK(p, d)
  <2>1. Soundly /\ TypeKnown(d) /\ ~Refused(d, NewType(d))
    BY AcceptedFacts, ReadyFacts DEF Accepted
  <2> QED
    BY <2>1, ProcessedFacts
<1>2. p = [at |-> p.at, idents |-> p.idents, types |-> p.types, scopes |-> p.scopes, external |-> p.external]
  BY <1>1 DEF ProcessedOK
<1>3. q.scopes = sc2 /\ q.idents = p.idents /\ q.types = ty2 /\ q.external = p.external
  BY <1>2
<1> QED
  BY <1>3 DEF Commit

-----------------------------------------------------------------------------
\* The definition of a function.
LEMMA DefineStep ==
  ASSUME AllGaps \subseteq Gaps, IInv, IInv', ToldInv, NEW d \in Inputs, Define(d), Wanted(d)
  PROVE  (Standard!Define(d) \/ Standard!Refuse(d)) /\ ToldInv'
<1> DEFINE p == Processed(d)
           t == p.idents[p.at].type
           param == p.types[t].params
           s == BodyScope(p)
<1>1. /\ Reading(d) /\ d.form = "definition" /\ AtFile /\ d.type = "int(int)"
      /\ d \in Inputs /\ d \in Declarator
  BY InputsAreDeclarators DEF Define
<1>2. TypeFound(d)
  BY <1>1, NamesAreIdentifiers DEF TypeFound
<1>3. /\ Ready(d) /\ Standard!Meaningful(d) /\ NoGap(d)
      /\ Standard!Legal(d) => ~Standard!Undefined(d)
  BY <1>1, <1>2, WantedFacts
<1>4. /\ d.storage # "typedef"
      /\ Standard!Legal(d) <=> ~(Refused(d, NewType(d)) \/ p.types[t].complete \/ p.types[t].params = Nothing)
  BY <1>1, <1>3, DefinitionLegal
<1>5. CASE ~Standard!Legal(d)
  <2>1. Error
    BY <1>4, <1>5 DEF Define
  <2> QED
    BY <1>1, <1>3, <1>5, <2>1, ErrorRefuses
<1>6. CASE Standard!Legal(d)
  <2>1. /\ Commit([p EXCEPT !.types[t].complete = TRUE, !.scopes = Enter(@, BodyScope(p))])
        /\ body' = [ident |-> p.at, param |-> p.types[t].params] /\ unit' = unit /\ status' = status
        /\ ~Refused(d, NewType(d)) /\ p.types[t].params # Nothing
    BY <1>4, <1>6 DEF Define
  <2>2. Accepted(d)
    BY <1>1, <1>3, <1>6, <2>1 DEF Accepted
  <2>3. d.param # NoName /\ d.param \in Ordinary
    <3>1. p.types[t].params = Param(d)
      BY <1>1, <1>3, <1>4, <2>1, DefinitionAt
    <3> QED
      BY <1>1, <1>3, <2>1, <3>1, DefinitionFacts
  <2> DEFINE ty2 == [p.types EXCEPT ![t] = [p.types[t] EXCEPT !.complete = TRUE]]
             b2 == [ident |-> p.at, param |-> p.types[t].params]
  <2>4. scopes' = Enter(p.scopes, s) /\ idents' = p.idents /\ external' = p.external /\ types' = ty2
    BY <1>1, <1>3, <2>1, <2>2, DefineLeft DEF Ready
  <2>5. b2.ident = p.at
    OBVIOUS
  <2> HIDE DEF b2
  <2>6. /\ Outcome(d, p.at, p.idents, ty2, p.external, unit, b2)
        /\ p.scopes = ScopesOutcome(d, p.at)
        /\ param \in DOMAIN p.idents /\ p.idents[param] = IntIdent("object", d.param)
    <3>1. /\ Accepted(d) /\ d.form = "definition" /\ AtFile /\ d.storage # "typedef" /\ d.param # NoName
          /\ p = Processed(d) /\ t = p.idents[p.at].type /\ b2.ident = p.at
      BY <1>1, <1>4, <2>2, <2>3, <2>5 DEF p, t
    <3>2. ty2 = Bodied(p.types, t)
      BY DEF ty2, Bodied
    <3>3. param = p.types[t].params
      BY DEF param
    <3> HIDE DEF p, t, param, s, ty2
    <3>4. /\ Outcome(d, p.at, p.idents, Bodied(p.types, t), p.external, unit, b2)
          /\ p.scopes = ScopesOutcome(d, p.at)
          /\ p.types[t].params \in DOMAIN p.idents
          /\ p.idents[p.types[t].params] = IntIdent("object", d.param)
      BY <3>1, DefineOutcome
    <3> QED
      BY <3>2, <3>3, <3>4
  <2>7. body' = b2
    BY <2>1 DEF b2
  <2> HIDE DEF p, t, param, s, ty2
  <2>8. Outcome(d, p.at, idents', types', external', unit', body')
    BY <2>1, <2>4, <2>6, <2>7
  <2>9. UnitOK(unit', scopes', idents', types')
    BY DEF IInv
  <2>10. /\ AllLinked' = Standard!Joined(d)
         /\ EnvOf(p.scopes, p.idents, ty2) = Standard!Bind(Scoped, d.name, Standard!Binding(d))
         /\ Told(p.scopes, p.idents, ty2, p.external, unit)
    <3>1. /\ AllLinked' = Standard!Joined(d)
          /\ EnvOf(ScopesOutcome(d, p.at), idents', types') = Standard!Bind(Scoped, d.name, Standard!Binding(d))
          /\ Told(ScopesOutcome(d, p.at), idents', types', external', unit')
      BY <1>3, <1>6, <2>8, <2>9, OutcomeStep
    <3> QED
      BY <2>1, <2>4, <2>6, <3>1
  <2>11. \E S : p.scopes \in Seq(S)
    <3>1. ProcessedOK(p, d)
      <4>1. Soundly /\ TypeKnown(d)
        BY <1>3, ReadyFacts
      <4> QED
        BY <1>1, <2>1, <4>1, ProcessedFacts DEF p
    <3> QED
      BY <3>1 DEF ProcessedOK, Sound, ScopesOK
  <2>12. /\ RowOf(s, p.idents, ty2) = [Standard!NoScope EXCEPT ![d.param] = Standard!Parameter]
         /\ \A n \in Names : s.map[n] = IF n = d.param THEN param ELSE Nothing
    <3>1. ty2[1].shape = "int"
      BY <2>10 DEF Told, TypesKnown
    <3>2. param # Nothing
      BY <2>1 DEF param
    <3>3. t = p.idents[p.at].type /\ param = p.types[t].params /\ s = BodyScope(p)
      BY DEF t, param, s
    <3> DEFINE m == d.param
    <3>4. m \in Ordinary /\ p.idents[param] = IntIdent("object", m)
      BY <2>3, <2>6
    <3> HIDE DEF m
    <3>a. param = p.types[p.idents[p.at].type].params
      BY <3>3
    <3>5. HasParameter(BodyScope(p), param, m, p.idents, ty2)
      BY <3>1, <3>2, <3>a, <3>4, BodyRow
    <3> QED
      BY <3>3, <3>5 DEF m, HasParameter
  <2>13. Scoped' = Standard!Bind(Append(Standard!Bind(Scoped, d.name, Standard!Binding(d)), Standard!NoScope),
                                 d.param, Standard!Parameter)
    <3> DEFINE E == EnvOf(p.scopes, p.idents, ty2)
               r == RowOf(s, p.idents, ty2)
               sc == p.scopes
               id == p.idents
               z == Standard!NoScope
               b == Standard!Parameter
               m == d.param
               z2 == [z EXCEPT ![m] = b]
    <3>1. Scoped' = EnvOf(Enter(sc, s), id, ty2)
      BY <2>4, ToldNow
    <3>a. E = EnvOf(sc, id, ty2) /\ r = RowOf(s, id, ty2) /\ \E S : sc \in Seq(S)
      BY <2>11
    <3>3. \E T : E \in Seq(T)
      BY <2>11, EnvRows
    <3>5. E = Standard!Bind(Scoped, d.name, Standard!Binding(d)) /\ r = z2
      BY <2>10, <2>12
    <3> HIDE DEF E, r, sc, id, z, b, m
    <3>2. AddsRow(sc, s, id, ty2)
      BY <3>a, EnvEnter
    <3>b. EnvOf(Enter(sc, s), id, ty2) = Append(E, r)
      BY <3>a, <3>2 DEF AddsRow
    <3>4. BindsLast(E, z, m, b)
      BY <3>3, BindAppend
    <3>c. Standard!Bind(Append(E, z), m, b) = Append(E, z2)
      BY <3>4 DEF BindsLast
    <3> HIDE DEF z2
    <3>6. Scoped' = Standard!Bind(Append(E, z), m, b)
      BY <3>1, <3>b, <3>c, <3>5
    <3> QED
      BY <3>5, <3>6 DEF z, b, m
  <2>14. ToldInv'
    <3>1. \A n \in Names : s.map[n] # Nothing => p.idents[s.map[n]].name = n
      <4>1. p.idents[param].name = d.param
        BY <2>6 DEF IntIdent
      <4> QED
        BY <2>12, <4>1
    <3>2. Told(Enter(p.scopes, s), p.idents, ty2, p.external, unit)
      BY <2>10, <2>11, <3>1, ToldEnter
    <3> QED
      BY <2>1, <2>4, <3>2 DEF ToldInv
  <2>15. WasRefused' = WasRefused
    BY <2>1 DEF WasRefused
  <2>16. Standard!Read(d) /\ Standard!AtFile
    BY <1>1, <1>3, ReadView, NameView
  <2>17. Standard!Define(d)
    BY <1>1, <1>3, <1>6, <2>10, <2>13, <2>15, <2>16 DEF Standard!Define
  <2> QED
    BY <2>14, <2>17
<1> QED
  BY <1>5, <1>6

-----------------------------------------------------------------------------
\* How many scopes are open.
LEMMA LevelView ==
  ASSUME Soundly
  PROVE  /\ Standard!Level = Len(scopes) /\ (Standard!AtFile <=> AtFile)
         /\ \E S : scopes \in Seq(S)
         /\ Scoped = EnvOf(scopes, idents, types)
<1>1. (\E S : scopes \in Seq(S)) /\ (AtFile <=> Len(scopes) = 1)
  BY Typed
<1>2. Scoped = EnvOf(scopes, idents, types)
  BY ToldNow
<1>3. Len(EnvOf(scopes, idents, types)) = Len(scopes)
  BY <1>1, EnvRows
<1>4. Standard!Level = Len(scopes)
  BY <1>2, <1>3 DEF Standard!Level
<1> QED
  BY <1>1, <1>2, <1>4 DEF Standard!AtFile

\* A block that begins.
LEMMA EnterBlockStep ==
  ASSUME IInv, ToldInv, EnterBlock
  PROVE  Standard!EnterBlock /\ ToldInv'
<1> DEFINE s == NewScope("block")
<1>1. /\ scopes' = Enter(scopes, s) /\ idents' = idents /\ types' = types /\ external' = external
      /\ unit' = unit /\ body' = body /\ latest' = latest /\ read' = read /\ status' = status
      /\ status = "parsing" /\ ~AtFile
  BY DEF EnterBlock
<1>2. Soundly
  BY DEF IInv, Soundly
<1>3. \A n \in Names : s.map[n] = Nothing
  BY DEF NewScope
<1> HIDE DEF s
<1>4. (\E S : scopes \in Seq(S)) /\ (Standard!AtFile <=> AtFile) /\ Scoped = EnvOf(scopes, idents, types)
  BY <1>2, LevelView
<1>5. ToldInv'
  <2>1. Told(Enter(scopes, s), idents, types, external, unit)
    BY <1>3, <1>4, ToldEnter DEF ToldInv
  <2> QED
    BY <1>1, <2>1 DEF ToldInv
<1>6. Scoped' = Append(Scoped, Standard!NoScope)
  <2>1. AddsRow(scopes, s, idents, types)
    BY <1>4, EnvEnter
  <2>2. RowOf(s, idents, types) = Standard!NoScope
    BY BlockRows DEF s
  <2>3. Scoped' = EnvOf(Enter(scopes, s), idents, types)
    BY <1>1, ToldNow
  <2> QED
    BY <1>4, <2>1, <2>2, <2>3 DEF AddsRow
<1>7. AllLinked' = AllLinked
  BY <1>1, ToldNow
<1>8. LastRead' = LastRead /\ WasRefused' = WasRefused /\ ~WasRefused
  BY <1>1 DEF LastRead, WasRefused
<1> QED
  BY <1>1, <1>4, <1>5, <1>6, <1>7, <1>8 DEF Standard!EnterBlock

-----------------------------------------------------------------------------
\* A function goes to the unit when its body was read, and is defined before.
LEMMA BodyEntered ==
  ASSUME IInv, IInv', ToldInv, idents' = idents, types' = types,
         Len(scopes) = 2, unit' = Append(unit, FunctionOf(body)), body' = Nobody
  PROVE  AllLinked' = AllLinked /\ DeclsEntered(idents, unit')
<1> DEFINE u2 == unit'
           b2 == body'
           e == FunctionOf(body)
           sc2 == scopes'
<1>1. /\ idents \in Seq(Ident) /\ UnitOK(unit, scopes, idents, types) /\ (\E S : unit \in Seq(S))
      /\ ClassesRight(idents, types) /\ DeclsEntered(idents, unit)
  BY Typed DEF IInv, Soundly, ToldInv, Told, UnitOK
<1>2. UnitOK(u2, sc2, idents, types)
  BY DEF IInv
<1>3. /\ DOMAIN u2 = DOMAIN unit \cup {Len(unit) + 1} /\ u2[Len(unit) + 1] = e
      /\ \A k \in DOMAIN unit : u2[k] = unit[k]
  BY <1>1, UnitLonger
<1>4. e.what = "function" /\ e.ident = body.ident /\ b2.ident = Nothing
  BY DEF FunctionOf, Nobody
<1>5. AllLinked = AllLinkedIn(idents, types, unit, body) /\ AllLinked' = AllLinkedIn(idents, types, u2, b2)
  BY ToldNow
<1> HIDE DEF u2, b2, e, sc2
<1>6. DeclsEntered(idents, u2)
  BY <1>1, <1>3 DEF DeclsEntered, HasEntry
<1>7. \A i \in DOMAIN idents : DefinesIn(i, idents, u2, b2) <=> DefinesIn(i, idents, unit, body)
  <2> SUFFICES ASSUME NEW i \in DOMAIN idents
               PROVE  DefinesIn(i, idents, u2, b2) <=> DefinesIn(i, idents, unit, body)
    OBVIOUS
  <2>1. i # Nothing
    BY <1>1 DEF Nothing
  <2>2. (\E k \in DOMAIN u2 : u2[k].what = "function" /\ u2[k].ident = i)
          <=> (body.ident = i \/ \E k \in DOMAIN unit : unit[k].what = "function" /\ unit[k].ident = i)
    BY <1>3, <1>4
  <2> QED
    BY <1>4, <2>1, <2>2 DEF DefinesIn
<1>8. \A n : StateIn(n, idents, u2, b2) = StateIn(n, idents, unit, body)
  <2> SUFFICES ASSUME NEW n PROVE StateIn(n, idents, u2, b2) = StateIn(n, idents, unit, body)
    OBVIOUS
  <2>1. StateIn(n, idents, u2, b2) = StateOfIn(n, idents, u2, b2)
    BY <1>1, <1>2, <1>6, StateValue
  <2>2. StateIn(n, idents, unit, body) = StateOfIn(n, idents, unit, body)
    BY <1>1, StateValue
  <2>3. StateOfIn(n, idents, u2, b2) = StateOfIn(n, idents, unit, body)
    <3>1. \A i \in LinkedIn(n, idents) : i \in DOMAIN idents
      BY DEF LinkedIn
    <3> QED
      BY <1>7, <3>1 DEF StateOfIn
  <2> QED
    BY <2>1, <2>2, <2>3
<1>9. AllLinkedIn(idents, types, u2, b2) = AllLinkedIn(idents, types, unit, body)
  BY <1>8 DEF AllLinkedIn, LinkedAsIn
<1> QED
  BY <1>5, <1>6, <1>9 DEF u2

\* A block that ends, and with the last of them the body.
LEMMA LeaveBlockStep ==
  ASSUME IInv, IInv', ToldInv, LeaveBlock
  PROVE  Standard!LeaveBlock /\ ToldInv'
<1> DEFINE sc2 == Exit(scopes)
<1>1. /\ scopes' = sc2 /\ idents' = idents /\ types' = types /\ external' = external
      /\ latest' = latest /\ read' = read /\ status' = status
      /\ status = "parsing" /\ ~AtFile
  BY DEF LeaveBlock
<1>2. Soundly
  BY DEF IInv, Soundly
<1>3. /\ (\E S : scopes \in Seq(S)) /\ (Standard!AtFile <=> AtFile) /\ Standard!Level = Len(scopes)
      /\ Scoped = EnvOf(scopes, idents, types)
  BY <1>2, LevelView
<1>4. Len(scopes) > 1 /\ Len(scopes) \in Nat
  <2> DEFINE l == Len(scopes)
  <2>1. l >= 1 /\ l \in Nat /\ l # 1
    BY <1>1, <1>2, Typed
  <2> HIDE DEF l
  <2>2. l > 1
    BY <2>1
  <2> QED
    BY <2>1, <2>2 DEF l
<1>5. \A k \in DOMAIN sc2 : k \in DOMAIN scopes /\ sc2[k] = scopes[k]
  <2> DEFINE m == Len(scopes) - 1
  <2>1. PICK S : scopes \in Seq(S)
    BY <1>3
  <2>2. m \in Nat /\ m <= Len(scopes)
    BY <1>4
  <2>3. sc2 = SubSeq(scopes, 1, m)
    BY DEF Exit
  <2>4. 1..m \subseteq 1..Len(scopes) /\ DOMAIN scopes = 1..Len(scopes)
    BY <1>4, <2>1, <2>2
  <2> HIDE DEF m, sc2
  <2>5. DOMAIN sc2 = 1..m /\ \A k \in 1..m : sc2[k] = scopes[k]
    <3>1. m = 0 \/ m \in 1..Len(scopes)
      BY <1>4, <2>2
    <3> QED
      BY <2>1, <2>2, <2>3, <2>4, SubSeqProperties
  <2> QED
    BY <2>4, <2>5
<1>6. AllLinked' = AllLinked /\ DeclsEntered(idents, unit')
  <2>1. CASE Len(scopes) = 2
    <3>1. unit' = Append(unit, FunctionOf(body)) /\ body' = Nobody
      BY <2>1 DEF LeaveBlock
    <3> QED
      BY <1>1, <2>1, <3>1, BodyEntered
  <2>2. CASE Len(scopes) # 2
    <3>1. unit' = unit /\ body' = body
      BY <2>2 DEF LeaveBlock
    <3> QED
      BY <1>1, <3>1, ToldNow DEF ToldInv, Told
  <2> QED
    BY <2>1, <2>2
<1> HIDE DEF sc2
<1>7. ToldInv'
  <2>1. Told(sc2, idents, types, external, unit)
    BY <1>5, ToldExit DEF ToldInv
  <2>2. Told(sc2, idents, types, external, unit')
    BY <1>6, <2>1 DEF Told
  <2> QED
    BY <1>1, <2>2 DEF ToldInv
<1>8. Scoped' = SubSeq(Scoped, 1, Standard!Level - 1)
  <2>1. DropsRow(scopes, idents, types)
    BY <1>3, <1>4, EnvExit
  <2>2. Scoped' = EnvOf(Exit(scopes), idents, types)
    BY <1>1, ToldNow DEF sc2
  <2> QED
    BY <1>3, <2>1, <2>2 DEF DropsRow
<1>9. LastRead' = LastRead /\ WasRefused' = WasRefused /\ ~WasRefused
  BY <1>1 DEF LastRead, WasRefused
<1> QED
  BY <1>1, <1>3, <1>6, <1>7, <1>8, <1>9 DEF Standard!LeaveBlock

-----------------------------------------------------------------------------
\* Nothing is declared in the beginning.
LEMMA InitTold ==
  ASSUME Init
  PROVE  ToldInv /\ Standard!Init
<1> DEFINE file == NewScope("file")
<1>1. /\ scopes = <<file>> /\ idents = << >> /\ types = <<IntObject>> /\ unit = << >> /\ read = 0
      /\ external = [n \in Names |-> Nothing] /\ status = "parsing" /\ latest = NoDeclaration
  BY DEF Init
<1>2. \A n \in Names : file.map[n] = Nothing
  BY DEF NewScope
<1> HIDE DEF file
<1>3. DOMAIN idents = {}
  BY <1>1
<1>4. /\ DOMAIN types = {1} /\ types[1] = IntObject
      /\ DOMAIN scopes = {1} /\ scopes[1] = file
  BY <1>1
<1>5. ToldInv
  <2>1. TypesKnown(types)
    <3>1. IntObject.shape = "int" /\ IntObject.complete
      BY DEF IntObject
    <3> QED
      BY <1>4, <3>1 DEF TypesKnown, TypeKnownIn
  <2>2. NamesRight(scopes, idents, external)
    BY <1>1, <1>2, <1>4 DEF NamesRight
  <2> QED
    BY <1>3, <2>1, <2>2 DEF ToldInv, Told, Unshared, ClassesRight, Agreed, DeclsEntered
<1>6. Scoped = <<Standard!NoScope>>
  <2> DEFINE row == [n \in Ordinary |-> Denoted(file.map[n])]
             z == Standard!NoScope
  <2>1. \A n \in Ordinary : Denoted(file.map[n]) = Standard!Unbound
    BY <1>2 DEF Ordinary, Denoted, Standard!Unbound
  <2>2. row = z
    BY <2>1 DEF Standard!NoScope
  <2>3. Scoped = [k \in {1} |-> row]
    BY <1>4 DEF Scoped
  <2> HIDE DEF row, z
  <2>4. <<z>> = [k \in {1} |-> z]
    OBVIOUS
  <2> QED
    BY <2>2, <2>3, <2>4 DEF z
<1>7. AllLinked = [n \in Ordinary |-> Standard!Absent]
  <2>1. \A n : Linked(n) = {}
    BY <1>3 DEF Linked
  <2> QED
    BY <2>1 DEF AllLinked, LinkedAs, Standard!Absent
<1>8. LastRead = [declaration |-> Standard!NoDeclaration, number |-> 0]
  BY <1>1 DEF LastRead, NoDeclaration, Standard!NoDeclaration
<1>9. WasRefused = FALSE
  BY <1>1 DEF WasRefused
<1> QED
  BY <1>5, <1>6, <1>7, <1>8, <1>9 DEF Standard!Init

\* Every step of the parser is one of the standard's.
LEMMA ReadStep ==
  ASSUME AllGaps \subseteq Gaps, IInv, IInv', ToldInv, Read
  PROVE  Standard!Next /\ ToldInv'
<1>1. PICK d \in Inputs : (Declare(d) \/ Enumerate(d) \/ Define(d)) /\ Wanted(d)
  BY DEF Read
<1>2. (Standard!Declare(d) \/ Standard!Define(d) \/ Standard!Refuse(d)) /\ ToldInv'
  <2>1. CASE Declare(d)
    BY <1>1, <2>1, DeclareStep
  <2>2. CASE Enumerate(d)
    BY <1>1, <2>2, EnumerateStep
  <2>3. CASE Define(d)
    BY <1>1, <2>3, DefineStep
  <2> QED
    BY <1>1, <2>1, <2>2, <2>3
<1> QED
  BY <1>1, <1>2 DEF Standard!Next

\* So is every step of the parser, a block that begins or ends too.
LEMMA DeclarationsStep ==
  ASSUME AllGaps \subseteq Gaps, IInv, IInv', ToldInv, [DeclarationsNext]_vars
  PROVE  [Standard!Next]_(Standard!vars) /\ ToldInv'
<1>1. CASE Read
  BY <1>1, ReadStep
<1>2. CASE EnterBlock
  BY <1>2, EnterBlockStep DEF Standard!Next
<1>3. CASE LeaveBlock
  BY <1>3, LeaveBlockStep DEF Standard!Next
<1>4. CASE UNCHANGED vars
  <2>1. /\ scopes' = scopes /\ idents' = idents /\ types' = types /\ external' = external
        /\ unit' = unit /\ body' = body /\ latest' = latest /\ read' = read /\ status' = status
    BY <1>4 DEF vars
  <2>2. Scoped' = Scoped /\ AllLinked' = AllLinked
    BY <2>1, ToldNow
  <2>3. LastRead' = LastRead /\ WasRefused' = WasRefused
    BY <2>1 DEF LastRead, WasRefused
  <2>4. ToldInv'
    BY <2>1 DEF ToldInv
  <2> QED
    BY <2>2, <2>3, <2>4 DEF Standard!vars
<1> QED
  BY <1>1, <1>2, <1>3, <1>4 DEF DeclarationsNext

\* The declarations that are compared are declarations.
LEMMA DeclarationsAreUnits == [DeclarationsNext]_vars => [Next]_vars
BY DEF DeclarationsNext, Next, Read

-----------------------------------------------------------------------------
(* The parser's declarations, but for the known differences, implement     *)
(* those of the standard: for any names, any declarations in any order and *)
(* blocks of any depth.                                                    *)
THEOREM LinkageImplemented == AllGaps \subseteq Gaps => (DeclarationsSpec => Standard!Spec)
<1> SUFFICES ASSUME AllGaps \subseteq Gaps PROVE DeclarationsSpec => Standard!Spec
  OBVIOUS
<1>1. Init => IInv /\ ToldInv /\ Standard!Init
  BY InitSound, InitTold
<1>2. IInv /\ [DeclarationsNext]_vars => IInv'
  BY DeclarationsAreUnits, NextKeeps
<1>3. IInv /\ IInv' /\ ToldInv /\ [DeclarationsNext]_vars => [Standard!Next]_(Standard!vars) /\ ToldInv'
  BY DeclarationsStep
<1> QED
  BY <1>1, <1>2, <1>3, PTL DEF DeclarationsSpec, Standard!Spec

(* In the form that the run checks.                                        *)
THEOREM ImplementsLinkageAlways == AllGaps \subseteq Gaps => (DeclarationsSpec => ImplementsLinkage)
<1> SUFFICES ASSUME AllGaps \subseteq Gaps PROVE DeclarationsSpec => ImplementsLinkage
  OBVIOUS
<1>1. DeclarationsSpec => Standard!Spec
  BY LinkageImplemented
<1>2. [Standard!Next]_(Standard!vars) => [Standard!Next \/ ~DeclarationsNext]_(Standard!vars)
  OBVIOUS
<1> QED
  BY <1>1, <1>2, PTL DEF Standard!Spec, ImplementsLinkage
=============================================================================
