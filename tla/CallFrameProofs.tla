-------------------------- MODULE CallFrameProofs --------------------------
(***************************************************************************)
(* The frame of CallFrame for any functions, calls and nesting.  Lemmas    *)
(* over any slots, offset and visits come first: what a visit sees of the  *)
(* frame (VisitsRight), that slots are taken downwards (Downwards), and    *)
(* where the statement's own part ends (EndsAt).  Then one lemma shows of  *)
(* each action that it keeps the inductive invariant.  The second part has *)
(* that of the alignment of calls, the third that of the places of         *)
(* arguments: those that the caller pushes to, from the last on, and those *)
(* that the callee and va_arg() count up to, from the first on.            *)
(***************************************************************************)
EXTENDS CallFrame, FiniteSetTheorems, SequenceTheorems, WellFoundedInduction, TLAPS

(* MakeAlign() moves an offset below the frame pointer away from it.       *)
LEMMA MakeAlignDown ==
  ASSUME NEW offs \in Int, NEW align \in Nat \ {0}
  PROVE  MakeAlign(offs, align) \in Int /\ (offs <= 0 => MakeAlign(offs, align) <= offs)
<1>1. offs % align \in 0..(align - 1)
  OBVIOUS
<1> QED
  BY <1>1 DEF MakeAlign

(* VisitFuncCall() leaves offset_ at or below the result.                  *)
LEMMA AlignFrameDown ==
  ASSUME NEW low \in Int, NEW n \in Int
  PROVE  AlignFrame(low, n) \in Int /\ (low <= 8 * n => AlignFrame(low, n) <= low)
<1> DEFINE x == low - n * 8
<1>1. x \in Int /\ (low <= 8 * n => x <= 0)
  OBVIOUS
<1> HIDE DEF x
<1>2. MakeAlign(x, 16) \in Int /\ (x <= 0 => MakeAlign(x, 16) <= x)
  BY <1>1, MakeAlignDown
<1>3. AlignFrame(low, n) = MakeAlign(x, 16) + n * 8
  BY DEF AlignFrame, x
<1> QED
  BY <1>1, <1>2, <1>3 DEF x

(* The fields of a part of the frame.                                      *)
LEMMA SlotTyped ==
  ASSUME NEW s \in Slot
  PROVE  s.lo \in Int /\ s.hi \in Int /\ s.arg \in Nat
BY DEF Slot

(* The fields of a visit.                                                  *)
LEMMA VisitTyped ==
  ASSUME NEW visit \in Visit
  PROVE  /\ visit.stage \in {"spilled", "args", "designator"}
         /\ visit.base \in Int /\ visit.depth \in Nat /\ visit.result \in Int
         /\ visit.left \subseteq Nat
BY DEF Visit

(* At most one register is taken by the pointer to a struct result.        *)
LEMMA HiddenTyped == \A f : Hidden(f) \in {0, 1}
BY DEF Hidden

(* Registers are given to arguments, and those left over and the one of    *)
(* the result make the number of arguments in memory.                      *)
LEMMA RegistersOfCall ==
  ASSUME NEW c \in Calls
  PROVE  /\ DOMAIN c.args = 1..Len(c.args) /\ Len(c.args) \in Nat
         /\ IsFiniteSet(DOMAIN c.args)
         /\ RegArgsOf(c) \subseteq DOMAIN c.args
         /\ MemArgsOf(c) = DOMAIN c.args \ RegArgsOf(c)
         /\ IsFiniteSet(RegArgsOf(c)) /\ Cardinality(RegArgsOf(c)) \in Nat
         /\ ByMemCnt(c) \in Int /\ ByMemCnt(c) >= -Hidden(c.callee)
<1>1. c.args \in Seq(Types)
  BY FrameAssumption
<1>2. DOMAIN c.args = 1..Len(c.args) /\ Len(c.args) \in Nat
  BY <1>1, LenProperties
<1>3. IsFiniteSet(DOMAIN c.args) /\ Cardinality(DOMAIN c.args) = Len(c.args)
  BY <1>2, FS_Interval
<1>4. RegArgsOf(c) \subseteq DOMAIN c.args /\ MemArgsOf(c) = DOMAIN c.args \ RegArgsOf(c)
  BY DEF RegArgsOf, RegArgs, MemArgsOf, MemArgs
<1>5. IsFiniteSet(RegArgsOf(c)) /\ Cardinality(RegArgsOf(c)) <= Len(c.args)
  BY <1>3, <1>4, FS_Subset
<1>6. Cardinality(RegArgsOf(c)) \in Nat
  BY <1>5, FS_CardinalityType
<1> QED
  BY <1>2, <1>3, <1>4, <1>5, <1>6, HiddenTyped DEF ByMemCnt

-----------------------------------------------------------------------------
\* The slots that two frames have in common.
Same(sl, sl2, n) == \A j \in 1..n : sl2[j] = sl[j]

\* The arguments that are pushed for registers, and how many of a set are less.
Pushed(visit) == RegArgsOf(visit.call) \ visit.left
Rank(S, i) == Cardinality({j \in S : j < i})

(* They are among the slots of the visit.                                  *)
LEMMA PushedFit ==
  ASSUME NEW sl, NEW visit \in Visit, NEW d \in Nat, NEW off,
         visit.call \in Calls, ArgsRight(sl, visit, d, off)
  PROVE  /\ IsFiniteSet(Pushed(visit)) /\ Pushed(visit) \subseteq Nat
         /\ Cardinality(Pushed(visit)) \in Nat
         /\ \A i \in Pushed(visit) : Rank(Pushed(visit), i) \in 0..(Cardinality(Pushed(visit)) - 1)
         /\ \A m \in 0..(Cardinality(Pushed(visit)) - 1) : d - m \in 1..d
<1> DEFINE c == visit.call
           pushed == Pushed(visit)
           taken == DOMAIN c.args \ visit.left
<1>1. pushed \subseteq taken /\ IsFiniteSet(taken) /\ pushed \subseteq Nat
  BY RegistersOfCall, FS_Subset DEF Pushed
<1>2. /\ Cardinality(taken) \in Nat /\ Cardinality(pushed) \in Nat /\ IsFiniteSet(pushed)
      /\ Cardinality(pushed) <= Cardinality(taken)
  BY <1>1, FS_Subset, FS_CardinalityType
<1>3. d = visit.depth + Hidden(c.callee) + Cardinality(taken) /\ visit.depth \in Nat
  BY VisitTyped DEF ArgsRight
<1> HIDE DEF taken, pushed
<1>4. ASSUME NEW i \in pushed
      PROVE  Rank(pushed, i) \in 0..(Cardinality(pushed) - 1)
  <2>1. {j \in pushed : j < i} \subseteq pushed \ {i}
    BY <1>1
  <2>2. IsFiniteSet(pushed \ {i}) /\ Cardinality(pushed \ {i}) = Cardinality(pushed) - 1
    BY <1>2, FS_RemoveElement
  <2>3. Cardinality({j \in pushed : j < i}) <= Cardinality(pushed) - 1
    BY <2>1, <2>2, FS_Subset
  <2>4. Cardinality({j \in pushed : j < i}) \in Nat
    BY <2>1, <2>2, FS_Subset, FS_CardinalityType
  <2> QED
    BY <1>2, <2>3, <2>4 DEF Rank
<1>5. \A m \in 0..(Cardinality(pushed) - 1) : d - m \in 1..d
  BY <1>2, <1>3, HiddenTyped
<1> QED
  BY <1>1, <1>2, <1>4, <1>5 DEF pushed

(* A visit is concerned with the slots up to where it ends only.           *)
LEMMA VisitKept ==
  ASSUME NEW sl, NEW sl2, NEW visit \in Visit, NEW d \in Nat, NEW off,
         VisitRight(sl, visit, d, off), Same(sl, sl2, d)
  PROVE  VisitRight(sl2, visit, d, off)
<1>1. visit.depth \in Nat
  BY VisitTyped
<1>2. visit.stage = "spilled" => sl2[d].lo = off
  <2>1. visit.stage = "spilled" => d \in 1..d
    BY <1>1 DEF VisitRight
  <2> QED
    BY <2>1 DEF VisitRight, Same
<1>3. ASSUME visit.stage = "args"
      PROVE  ArgsRight(sl2, visit, d, off)
  <2> DEFINE pushed == Pushed(visit)
  <2>1. visit.call \in Calls /\ ArgsRight(sl, visit, d, off)
    BY <1>3 DEF VisitRight
  <2>2. /\ \A i \in pushed : Rank(pushed, i) \in 0..(Cardinality(pushed) - 1)
        /\ \A m \in 0..(Cardinality(pushed) - 1) : d - m \in 1..d
    BY <2>1, PushedFit
  <2>3. /\ \A m \in 0..(Cardinality(pushed) - 1) :
             sl[d - m].lo = off + 8 * m /\ sl[d - m].hi = off + 8 * m + 8
        /\ \A i \in pushed : sl[d - Rank(pushed, i)].arg = i
    BY <2>1 DEF ArgsRight, Pushed, Rank
  <2> HIDE DEF pushed
  <2>4. \A m \in 0..(Cardinality(pushed) - 1) : sl2[d - m] = sl[d - m]
    BY <2>2 DEF Same
  <2>5. /\ \A m \in 0..(Cardinality(pushed) - 1) :
             sl2[d - m].lo = off + 8 * m /\ sl2[d - m].hi = off + 8 * m + 8
        /\ \A i \in pushed : sl2[d - Rank(pushed, i)].arg = i
    BY <2>2, <2>3, <2>4
  <2> QED
    BY <2>1, <2>5 DEF ArgsRight, Pushed, Rank, pushed
<1> QED
  BY <1>2, <1>3 DEF VisitRight

(* A set grows by one.                                                     *)
LEMMA AddOne ==
  ASSUME NEW S, IsFiniteSet(S), NEW T, NEW x, x \notin S, T = S \cup {x}
  PROVE  Cardinality(T) = Cardinality(S) + 1
<1>1. Cardinality(S \cup {x}) = IF x \in S THEN Cardinality(S) ELSE Cardinality(S) + 1
  BY FS_AddElement
<1> QED
  BY <1>1

(* An argument is pushed: the one that NextArg() allows.                   *)
LEMMA ArgPushed ==
  ASSUME NEW sl, NEW sl2, NEW visit \in Visit, NEW visit2 \in Visit,
         NEW d \in Nat, NEW d2 \in Nat, d2 = d + 1,
         NEW off \in Int, NEW off2 \in Int, NEW i,
         visit.call \in Calls, visit.left \subseteq DOMAIN visit.call.args,
         ArgsRight(sl, visit, d, off), i \in visit.left, NextArg(visit, i),
         visit2.call = visit.call, visit2.depth = visit.depth,
         visit2.left = visit.left \ {i},
         Same(sl, sl2, d), sl2[d2].arg = i, off2 = sl2[d2].lo,
         i \in RegArgsOf(visit.call) => off2 = off - 8 /\ sl2[d2].hi = off
  PROVE  ArgsRight(sl2, visit2, d2, off2)
<1> DEFINE c == visit.call
           R == RegArgsOf(c)
           pushed == Pushed(visit)
           pushed2 == Pushed(visit2)
           N == Cardinality(pushed)
<1>1. /\ DOMAIN c.args \subseteq Nat /\ IsFiniteSet(DOMAIN c.args)
      /\ R \subseteq DOMAIN c.args /\ MemArgsOf(c) = DOMAIN c.args \ R
  BY RegistersOfCall
<1>2. d2 = visit2.depth + Hidden(c.callee) + Cardinality(DOMAIN c.args \ visit2.left)
  <2>1. DOMAIN c.args \ visit2.left = (DOMAIN c.args \ visit.left) \cup {i}
    OBVIOUS
  <2>2. IsFiniteSet(DOMAIN c.args \ visit.left)
    BY <1>1, FS_Subset
  <2>3. Cardinality(DOMAIN c.args \ visit2.left) = Cardinality(DOMAIN c.args \ visit.left) + 1
    <3>1. i \notin DOMAIN c.args \ visit.left
      OBVIOUS
    <3> QED
      BY <2>1, <2>2, <3>1, AddOne
  <2>4. d = visit.depth + Hidden(c.callee) + Cardinality(DOMAIN c.args \ visit.left)
    BY DEF ArgsRight
  <2>5. Cardinality(DOMAIN c.args \ visit.left) \in Nat /\ visit.depth \in Nat
    BY <2>2, FS_CardinalityType, VisitTyped
  <2> QED
    BY <2>3, <2>4, <2>5, HiddenTyped
<1>3. CASE i \notin R
  <2>1. visit.left \cap MemArgsOf(c) # {}
    BY <1>1, <1>3
  <2>2. pushed = {}
    BY <2>1 DEF ArgsRight, Pushed
  <2>3. pushed2 = {}
    BY <1>3, <2>2 DEF Pushed
  <2>4. Cardinality({}) = 0 /\ 0..(0 - 1) = {}
    BY FS_EmptySet
  <2> QED
    BY <1>2, <2>3, <2>4, Zenon DEF ArgsRight, Pushed
<1>4. CASE i \in R
  <2>1. visit.left \cap MemArgsOf(c) = {} /\ \A j \in visit.left : j <= i
    BY <1>1, <1>4 DEF NextArg
  <2>2. \A k \in pushed, j \in visit.left : j < k
    BY DEF ArgsRight, Pushed
  <2>3. pushed2 = pushed \cup {i} /\ i \notin pushed
    BY <1>4 DEF Pushed
  <2>4. /\ IsFiniteSet(pushed) /\ N \in Nat /\ pushed \subseteq Nat /\ i \in Nat
        /\ \A k \in pushed : Rank(pushed, k) \in 0..(N - 1)
        /\ \A m \in 0..(N - 1) : d - m \in 1..d
    BY <1>1, PushedFit
  <2>5. /\ \A m \in 0..(N - 1) : sl[d - m].lo = off + 8 * m /\ sl[d - m].hi = off + 8 * m + 8
        /\ \A k \in pushed : sl[d - Rank(pushed, k)].arg = k
    BY DEF ArgsRight, Pushed, Rank
  <2>6. Cardinality(pushed2) = N + 1
    BY <2>3, <2>4, AddOne
  <2> HIDE DEF pushed, pushed2, N
  <2>7. \A k \in pushed2, j \in visit2.left : j < k
    <3> TAKE k \in pushed2, j \in visit2.left
    <3>1. CASE k = i
      BY <1>1, <2>1, <2>4, <3>1
    <3>2. CASE k \in pushed
      BY <2>2, <3>2
    <3> QED
      BY <2>3, <3>1, <3>2
  <2>8. \A m \in 0..(N - 1) : sl2[d - m] = sl[d - m]
    BY <2>4 DEF Same
  <2>9. ASSUME NEW m \in 0..(N + 1 - 1)
        PROVE  /\ sl2[d2 - m].lo = off2 + 8 * m
               /\ sl2[d2 - m].hi = off2 + 8 * m + 8
    <3>1. CASE m = 0
      BY <1>4, <3>1
    <3>2. CASE m # 0
      <4>1. m - 1 \in 0..(N - 1) /\ d2 - m = d - (m - 1)
        BY <2>4, <3>2
      <4>2. /\ sl2[d2 - m].lo = off + 8 * (m - 1)
            /\ sl2[d2 - m].hi = off + 8 * (m - 1) + 8
        BY <2>5, <2>8, <4>1
      <4> QED
        BY <1>4, <4>1, <4>2
    <3> QED
      BY <3>1, <3>2
  <2>10. ASSUME NEW k \in pushed2
         PROVE  sl2[d2 - Rank(pushed2, k)].arg = k
    <3>1. CASE k = i
      <4>1. ASSUME NEW j \in pushed2
            PROVE  ~(j < i)
        <5>1. CASE j = i
          BY <2>4, <5>1
        <5>2. CASE j \in pushed
          <6>1. i < j
            BY <2>2, <5>2
          <6> QED
            BY <2>4, <5>2, <6>1
        <5> QED
          BY <2>3, <5>1, <5>2
      <4>2. Rank(pushed2, k) = 0
        <5>1. {j \in pushed2 : j < i} = {}
          BY <4>1
        <5> QED
          BY <3>1, <5>1, FS_EmptySet DEF Rank
      <4>3. d2 - 0 = d2
        OBVIOUS
      <4> QED
        BY <3>1, <4>2, <4>3
    <3>2. CASE k \in pushed
      <4> DEFINE r == Rank(pushed, k)
      <4>1. {j \in pushed2 : j < k} = {j \in pushed : j < k} \cup {i}
        BY <2>2, <2>3, <3>2
      <4>2. IsFiniteSet({j \in pushed : j < k}) /\ i \notin {j \in pushed : j < k}
        BY <2>3, <2>4, FS_Subset
      <4>3. Rank(pushed2, k) = r + 1
        BY <4>1, <4>2, AddOne DEF Rank
      <4>4. r \in 0..(N - 1)
        BY <2>4, <3>2
      <4>5. sl[d - r].arg = k
        BY <2>5, <3>2
      <4> HIDE DEF r
      <4>6. d2 - (r + 1) = d - r
        BY <4>4
      <4> QED
        BY <2>8, <4>3, <4>4, <4>5, <4>6
    <3> QED
      BY <2>3, <3>1, <3>2
  <2>11. visit2.left \cap MemArgsOf(c) = {}
    BY <2>1
  <2>12. /\ \A m \in 0..(Cardinality(pushed2) - 1) :
              sl2[d2 - m].lo = off2 + 8 * m /\ sl2[d2 - m].hi = off2 + 8 * m + 8
         /\ \A k \in pushed2 : sl2[d2 - Rank(pushed2, k)].arg = k
    <3>1. \A m \in 0..(N + 1 - 1) :
            sl2[d2 - m].lo = off2 + 8 * m /\ sl2[d2 - m].hi = off2 + 8 * m + 8
      BY <2>9
    <3>2. \A k \in pushed2 : sl2[d2 - Rank(pushed2, k)].arg = k
      BY <2>10
    <3>3. Cardinality(pushed2) - 1 = N + 1 - 1
      BY <2>4, <2>6
    <3> QED
      BY <3>1, <3>2, <3>3
  <2>13. pushed2 = RegArgsOf(visit2.call) \ visit2.left
    BY DEF Pushed, pushed2
  <2> QED
    <3>1. visit2.call = c
      OBVIOUS
    <3> HIDE DEF c
    <3>2. /\ pushed2 # {} => visit2.left \cap MemArgsOf(visit2.call) = {}
          /\ d2 = visit2.depth + Hidden(visit2.call.callee)
                       + Cardinality(DOMAIN visit2.call.args \ visit2.left)
      BY <1>2, <2>11, <3>1
    <3> QED
      BY <2>7, <2>12, <2>13, <3>2 DEF ArgsRight, Rank
<1> QED
  BY <1>3, <1>4

-----------------------------------------------------------------------------
(* The visits lie one in the other.                                        *)
LEMMA Depths ==
  ASSUME NEW sl \in Seq(Slot), NEW off, NEW pe \in Seq(Visit), VisitsRight(sl, off, pe)
  PROVE  \A v \in 1..Len(pe) :
           /\ pe[v] \in Visit /\ pe[v].depth \in 0..Len(sl) /\ pe[v].base \in Int
           /\ \A u \in 1..v : pe[u].depth <= pe[v].depth
<1> TAKE v \in 1..Len(pe)
<1>1. pe[v] \in Visit
  BY ElementOfSeq
<1>2. pe[v].depth \in Nat /\ pe[v].base \in Int
  BY <1>1, VisitTyped
<1>3. Len(sl) \in Nat /\ DOMAIN pe = 1..Len(pe)
  BY LenProperties
<1>4. pe[v].depth <= Len(sl) /\ \A u \in 1..v : pe[u].depth <= pe[v].depth
  BY <1>3 DEF VisitsRight
<1> QED
  BY <1>1, <1>2, <1>3, <1>4

(* A visit begins: where it does is where the one around it now ends.      *)
LEMMA EnterVisits ==
  ASSUME NEW sl \in Seq(Slot), NEW sl2 \in Seq(Slot), NEW off \in Int, NEW off2 \in Int,
         NEW pe \in Seq(Visit), NEW visit \in Visit,
         VisitsRight(sl, off, pe),
         visit.depth = Len(sl), visit.base = off,
         Len(sl) <= Len(sl2), Same(sl, sl2, Len(sl)),
         VisitRight(sl2, visit, Len(sl2), off2)
  PROVE  VisitsRight(sl2, off2, Append(pe, visit))
<1> DEFINE pe2 == Append(pe, visit)
           n == Len(pe)
<1>1. n \in Nat /\ DOMAIN pe = 1..n /\ Len(sl) \in Nat /\ Len(sl2) \in Nat
  BY LenProperties
<1>2. /\ pe2 \in Seq(Visit) /\ Len(pe2) = n + 1 /\ DOMAIN pe2 = 1..(n + 1)
      /\ pe2[n + 1] = visit /\ \A v \in 1..n : pe2[v] = pe[v]
  BY <1>1, AppendProperties, LenProperties
<1>3. \A v \in 1..n : /\ pe[v] \in Visit /\ pe[v].depth \in 0..Len(sl)
                      /\ \A u \in 1..v : pe[u].depth <= pe[v].depth
  BY Depths
<1> HIDE DEF pe2, n
<1>4. ASSUME NEW v \in 1..n
      PROVE  VisitRight(sl2, pe2[v], DepthAt(sl2, pe2, v), OffsetAt(off2, pe2, v))
  <2>1. VisitRight(sl, pe[v], DepthAt(sl, pe, v), OffsetAt(off, pe, v))
    BY <1>1 DEF VisitsRight
  <2>2. DepthAt(sl2, pe2, v) = pe2[v + 1].depth /\ OffsetAt(off2, pe2, v) = pe2[v + 1].base
    BY <1>1, <1>2 DEF DepthAt, OffsetAt
  <2>3. /\ DepthAt(sl, pe, v) = pe2[v + 1].depth /\ OffsetAt(off, pe, v) = pe2[v + 1].base
        /\ DepthAt(sl, pe, v) \in Nat /\ DepthAt(sl, pe, v) <= Len(sl)
    <3>1. CASE v = n
      BY <1>1, <1>2, <3>1 DEF DepthAt, OffsetAt, n
    <3>2. CASE v # n
      <4>1. v + 1 \in 1..n
        BY <1>1, <3>2
      <4>2. pe2[v + 1] = pe[v + 1] /\ pe[v + 1].depth \in 0..Len(sl)
        BY <1>2, <1>3, <4>1
      <4>3. DepthAt(sl, pe, v) = pe[v + 1].depth /\ OffsetAt(off, pe, v) = pe[v + 1].base
        BY <3>2 DEF DepthAt, OffsetAt, n
      <4> QED
        BY <1>1, <4>2, <4>3
    <3> QED
      BY <3>1, <3>2
  <2>4. Same(sl, sl2, DepthAt(sl, pe, v))
    BY <1>1, <2>3 DEF Same
  <2> QED
    BY <1>2, <1>3, <2>1, <2>2, <2>3, <2>4, VisitKept
<1>5. VisitRight(sl2, pe2[n + 1], DepthAt(sl2, pe2, n + 1), OffsetAt(off2, pe2, n + 1))
  BY <1>2 DEF DepthAt, OffsetAt
<1>6. ASSUME NEW v \in 1..(n + 1)
      PROVE  pe2[v].depth <= Len(sl2) /\ \A u \in 1..v : pe2[u].depth <= pe2[v].depth
  <2>1. \A u \in 1..n : /\ pe[u].depth \in Nat /\ pe[u].depth <= Len(sl)
                        /\ \A w \in 1..u : pe[w].depth <= pe[u].depth
    <3> TAKE u \in 1..n
    <3>1. pe[u].depth \in 0..Len(sl) /\ \A w \in 1..u : pe[w].depth <= pe[u].depth
      BY <1>3
    <3> QED
      BY <1>1, <3>1
  <2>2. CASE v = n + 1
    BY <1>1, <1>2, <2>1, <2>2
  <2>3. CASE v \in 1..n
    <3>1. \A u \in 1..v : u \in 1..n
      BY <1>1, <2>3
    <3> QED
      BY <1>1, <1>2, <2>1, <2>3, <3>1
  <2> QED
    BY <1>1, <2>2, <2>3
<1>7. \A v \in 1..(n + 1) :
        VisitRight(sl2, pe2[v], DepthAt(sl2, pe2, v), OffsetAt(off2, pe2, v))
  BY <1>1, <1>4, <1>5, SMTT(30)
<1>8. VisitsRight(sl2, off2, pe2)
  BY <1>2, <1>6, <1>7 DEF VisitsRight
<1> QED
  BY <1>8 DEF pe2

(* A step of the last visit leaves the others as they are.                 *)
LEMMA TopVisits ==
  ASSUME NEW sl \in Seq(Slot), NEW sl2 \in Seq(Slot), NEW off \in Int, NEW off2 \in Int,
         NEW pe \in Seq(Visit), pe # <<>>, NEW visit \in Visit,
         VisitsRight(sl, off, pe),
         visit.depth = Last(pe).depth, visit.base = Last(pe).base,
         visit.depth <= Len(sl2), Same(sl, sl2, visit.depth),
         VisitRight(sl2, visit, Len(sl2), off2)
  PROVE  VisitsRight(sl2, off2, [pe EXCEPT ![Len(pe)] = visit])
<1> DEFINE n == Len(pe)
           pe2 == [pe EXCEPT ![n] = visit]
<1>1. n \in Nat \ {0} /\ DOMAIN pe = 1..n /\ Len(sl) \in Nat /\ Len(sl2) \in Nat
  BY LenProperties, EmptySeq
<1>2. /\ pe2 \in Seq(Visit) /\ Len(pe2) = n /\ DOMAIN pe2 = 1..n
      /\ pe2[n] = visit /\ \A v \in 1..(n - 1) : pe2[v] = pe[v]
  <2>1. n \in 1..Len(pe)
    BY <1>1
  <2>2. /\ pe2 \in Seq(Visit) /\ Len(pe2) = Len(pe)
        /\ \A j \in 1..Len(pe) : pe2[j] = IF j = n THEN visit ELSE pe[j]
    BY <2>1, ExceptSeq
  <2> HIDE DEF pe2
  <2>3. DOMAIN pe2 = 1..Len(pe2)
    BY <2>2, LenProperties
  <2>4. n = Len(pe) /\ n \in Nat
    BY <1>1
  <2> HIDE DEF n
  <2>5. \A v \in 1..(n - 1) : v # n /\ v \in 1..n
    BY <2>4
  <2> QED
    BY <2>1, <2>2, <2>3, <2>4, <2>5
<1>3. \A v \in 1..n : /\ pe[v] \in Visit
                      /\ \A u \in 1..v : pe[u].depth <= pe[v].depth
  BY Depths
<1>4. Last(pe) = pe[n]
  BY DEF Last
<1>5. \A v \in 1..n : /\ pe2[v].depth = pe[v].depth /\ pe2[v].base = pe[v].base
                      /\ pe[v].depth \in Nat
  BY <1>1, <1>2, <1>3, <1>4, VisitTyped
<1> HIDE DEF pe2, n
<1>6. ASSUME NEW v \in 1..(n - 1)
      PROVE  VisitRight(sl2, pe2[v], DepthAt(sl2, pe2, v), OffsetAt(off2, pe2, v))
  <2>1. VisitRight(sl, pe[v], DepthAt(sl, pe, v), OffsetAt(off, pe, v))
    BY <1>1 DEF VisitsRight
  <2>2. v + 1 \in 1..n /\ v # n /\ v \in 1..n
    BY <1>1
  <2>3. DepthAt(sl2, pe2, v) = DepthAt(sl, pe, v) /\ OffsetAt(off2, pe2, v) = OffsetAt(off, pe, v)
    BY <1>2, <1>5, <2>2 DEF DepthAt, OffsetAt, n
  <2>4. DepthAt(sl, pe, v) = pe[v + 1].depth
    BY <2>2 DEF DepthAt, n
  <2>5. DepthAt(sl, pe, v) \in Nat /\ DepthAt(sl, pe, v) <= pe[n].depth
    <3>1. n \in 1..n /\ v + 1 \in 1..n
      BY <1>1, <2>2
    <3>2. \A u \in 1..n : pe[u].depth <= pe[n].depth
      BY <1>3, <3>1
    <3> QED
      BY <1>5, <2>4, <3>1, <3>2
  <2>6. Same(sl, sl2, DepthAt(sl, pe, v))
    <3>1. visit.depth = pe[n].depth /\ pe[n].depth \in Nat
      BY <1>1, <1>4, <1>5
    <3> QED
      BY <2>5, <3>1 DEF Same
  <2> QED
    BY <1>2, <1>3, <2>1, <2>2, <2>3, <2>5, <2>6, VisitKept
<1>7. VisitRight(sl2, pe2[n], DepthAt(sl2, pe2, n), OffsetAt(off2, pe2, n))
  BY <1>2 DEF DepthAt, OffsetAt
<1>8. ASSUME NEW v \in 1..n
      PROVE  pe2[v].depth <= Len(sl2) /\ \A u \in 1..v : pe2[u].depth <= pe2[v].depth
  <2>1. \A u \in 1..v : pe[u].depth <= pe[v].depth /\ u \in 1..n
    BY <1>1 DEF VisitsRight
  <2>2. pe[v].depth <= pe[n].depth
    BY <1>1 DEF VisitsRight
  <2>3. pe[n].depth <= Len(sl2) /\ n \in 1..n
    BY <1>1, <1>4
  <2> QED
    BY <1>1, <1>5, <2>1, <2>2, <2>3
<1>9. \A v \in 1..n : VisitRight(sl2, pe2[v], DepthAt(sl2, pe2, v), OffsetAt(off2, pe2, v))
  <2> TAKE v \in 1..n
  <2>1. v = n \/ v \in 1..(n - 1)
    BY <1>1
  <2> QED
    BY <1>6, <1>7, <2>1
<1>10. VisitsRight(sl2, off2, pe2)
  BY <1>2, <1>8, <1>9 DEF VisitsRight
<1> QED
  BY <1>10 DEF pe2, n

(* A visit ends with the frame as it began.                                *)
LEMMA ReturnVisits ==
  ASSUME NEW sl \in Seq(Slot), NEW sl2 \in Seq(Slot), NEW off \in Int,
         NEW pe \in Seq(Visit), NEW pe2 \in Seq(Visit), NEW n \in Nat,
         Len(pe) = n + 1, Len(pe2) = n, \A v \in 1..n : pe2[v] = pe[v],
         VisitsRight(sl, off, pe),
         Len(sl2) = pe[n + 1].depth, NEW off2, off2 = pe[n + 1].base,
         Same(sl, sl2, Len(sl2))
  PROVE  VisitsRight(sl2, off2, pe2)
<1>1. DOMAIN pe = 1..(n + 1) /\ DOMAIN pe2 = 1..n /\ Len(sl2) \in Nat
  BY LenProperties
<1>2. \A v \in 1..(n + 1) : /\ pe[v] \in Visit /\ pe[v].depth \in Nat
                            /\ \A u \in 1..v : pe[u].depth <= pe[v].depth
  BY Depths, VisitTyped
<1>3. ASSUME NEW v \in 1..n
      PROVE  VisitRight(sl2, pe2[v], DepthAt(sl2, pe2, v), OffsetAt(off2, pe2, v))
  <2>1. v \in 1..(n + 1) /\ v + 1 \in 1..(n + 1) /\ v # n + 1
    OBVIOUS
  <2>2. VisitRight(sl, pe[v], DepthAt(sl, pe, v), OffsetAt(off, pe, v))
    BY <1>1, <2>1 DEF VisitsRight
  <2>3. DepthAt(sl, pe, v) = pe[v + 1].depth /\ OffsetAt(off, pe, v) = pe[v + 1].base
    BY <2>1 DEF DepthAt, OffsetAt
  <2>4. v # n => v + 1 \in 1..n
    OBVIOUS
  <2>5. DepthAt(sl2, pe2, v) = pe[v + 1].depth /\ OffsetAt(off2, pe2, v) = pe[v + 1].base
    BY <2>4 DEF DepthAt, OffsetAt
  <2>6. pe[v + 1].depth \in Nat /\ pe[v + 1].depth <= Len(sl2)
    <3>1. pe[v + 1].depth <= pe[n + 1].depth
      BY <1>2, <2>1
    <3> QED
      BY <1>2, <2>1, <3>1
  <2>7. Same(sl, sl2, pe[v + 1].depth)
    BY <1>1, <2>6 DEF Same
  <2> QED
    BY <1>2, <2>1, <2>2, <2>3, <2>5, <2>6, <2>7, VisitKept
<1>4. ASSUME NEW v \in 1..n
      PROVE  pe2[v].depth <= Len(sl2) /\ \A u \in 1..v : pe2[u].depth <= pe2[v].depth
  <2>1. v \in 1..(n + 1) /\ n + 1 \in 1..(n + 1) /\ v \in 1..(n + 1)
    OBVIOUS
  <2>2. pe[v].depth <= pe[n + 1].depth /\ \A u \in 1..v : pe[u].depth <= pe[v].depth
    BY <1>1, <2>1 DEF VisitsRight
  <2>3. pe2[v] = pe[v] /\ \A u \in 1..v : pe2[u] = pe[u]
    OBVIOUS
  <2> QED
    BY <2>2, <2>3
<1> QED
  BY <1>1, <1>3, <1>4 DEF VisitsRight

-----------------------------------------------------------------------------
NoShallow(pe) == \A v \in DOMAIN pe : ~Shallow(pe[v])

\* The visits are in the same places, however far they are.
SamePlaces(pe, pe2) ==
  /\ DOMAIN pe2 = DOMAIN pe
  /\ \A v \in DOMAIN pe : /\ pe2[v].depth = pe[v].depth /\ pe2[v].base = pe[v].base
                          /\ Shallow(pe2[v]) <=> Shallow(pe[v])

(* A slot is taken below offset_.                                          *)
LEMMA TakeDownwards ==
  ASSUME NEW sl \in Seq(Slot), NEW sl2 \in Seq(Slot), NEW off \in Int, NEW off2 \in Int,
         NEW pe \in Seq(Visit), NEW pe2, SamePlaces(pe, pe2),
         Downwards(sl, off, pe),
         \A v \in DOMAIN pe : pe[v].depth \in 0..Len(sl),
         Len(sl2) = Len(sl) + 1, Same(sl, sl2, Len(sl)),
         sl2[Len(sl) + 1].lo <= sl2[Len(sl) + 1].hi,
         NoShallow(pe) => sl2[Len(sl) + 1].hi <= off /\ off2 <= sl2[Len(sl) + 1].lo
  PROVE  Downwards(sl2, off2, pe2)
<1> DEFINE n == Len(sl)
           s == sl2[n + 1]
<1>1. n \in Nat /\ DOMAIN sl = 1..n /\ DOMAIN sl2 = 1..(n + 1)
  BY LenProperties
<1>2. \A k \in 1..n : sl2[k] = sl[k] /\ sl[k] \in Slot
  BY <1>1, ElementOfSeq DEF Same
<1>3. s \in Slot /\ s.lo \in Int /\ s.hi \in Int /\ s.lo <= s.hi
  <2>1. n + 1 \in 1..Len(sl2)
    BY <1>1
  <2> QED
    BY <2>1, ElementOfSeq, SlotTyped
<1>4. Len(sl2) = n + 1 /\ (NoShallow(pe) => s.hi <= off /\ off2 <= s.lo)
  OBVIOUS
<1> HIDE DEF n, s
<1>5. ASSUME NoShallow(pe)
      PROVE  Above(sl2, n, s.hi) /\ Above(sl2, n + 1, off2)
  <2>1. Above(sl, n, off)
    BY <1>5 DEF Downwards, NoShallow, n
  <2>2. s.hi <= off /\ off2 <= s.lo
    BY <1>4, <1>5
  <2>3. off <= 0 /\ \A j \in 1..n : off <= sl2[j].lo /\ sl2[j].lo \in Int
    BY <1>2, <2>1, SlotTyped DEF Above
  <2>4. Above(sl2, n, s.hi)
    BY <1>3, <2>2, <2>3 DEF Above
  <2>5. \A j \in 1..(n + 1) : off2 <= sl2[j].lo
    <3> TAKE j \in 1..(n + 1)
    <3>1. CASE j \in 1..n
      BY <1>3, <2>2, <2>3, <3>1
    <3>2. CASE j = n + 1
      BY <2>2, <3>2 DEF s
    <3> QED
      BY <1>1, <3>1, <3>2
  <2>6. off2 <= 0
    BY <1>3, <2>2, <2>3
  <2> QED
    BY <2>4, <2>5, <2>6 DEF Above
<1>6. ASSUME NEW k \in 1..(n + 1), \A v \in DOMAIN pe2 : Shallow(pe2[v]) => k <= pe2[v].depth
      PROVE  Above(sl2, k - 1, sl2[k].hi)
  <2>1. \A v \in DOMAIN pe : Shallow(pe[v]) => k <= pe[v].depth
    BY <1>6 DEF SamePlaces
  <2>2. CASE k \in 1..n
    <3>1. Above(sl, k - 1, sl[k].hi)
      BY <1>1, <2>1, <2>2 DEF Downwards
    <3>2. \A j \in 1..(k - 1) : j \in 1..n
      BY <1>1, <2>2
    <3> QED
      BY <1>2, <2>2, <3>1, <3>2 DEF Above
  <2>3. CASE k = n + 1
    <3>1. NoShallow(pe)
      BY <1>1, <2>1, <2>3 DEF NoShallow, n
    <3>2. k - 1 = n
      BY <1>1, <2>3
    <3> QED
      BY <1>5, <2>3, <3>1, <3>2 DEF s
  <2> QED
    BY <1>1, <2>2, <2>3
<1>7. ASSUME NEW v \in DOMAIN pe2, \A u \in 1..(v - 1) : ~Shallow(pe2[u])
      PROVE  Above(sl2, pe2[v].depth, pe2[v].base)
  <2>1. v \in DOMAIN pe /\ \A u \in 1..(v - 1) : u \in DOMAIN pe
    BY LenProperties DEF SamePlaces
  <2>2. Above(sl, pe[v].depth, pe[v].base)
    BY <1>7, <2>1 DEF Downwards, SamePlaces
  <2>3. \A j \in 1..pe[v].depth : j \in 1..n
    BY <1>1, <2>1 DEF n
  <2> QED
    BY <1>2, <2>1, <2>2, <2>3 DEF Above, SamePlaces
<1>8. NoShallow(pe2) => NoShallow(pe)
  BY DEF NoShallow, SamePlaces
<1> QED
  BY <1>1, <1>4, <1>5, <1>6, <1>7, <1>8 DEF Downwards, NoShallow

(* The offset goes down, or up over slots that are given back.             *)
LEMMA PrefixDownwards ==
  ASSUME NEW sl \in Seq(Slot), NEW sl2 \in Seq(Slot), NEW off \in Int, NEW off2 \in Int,
         NEW pe \in Seq(Visit), NEW pe2, SamePlaces(pe, pe2),
         Downwards(sl, off, pe),
         Len(sl2) <= Len(sl), Same(sl, sl2, Len(sl2)),
         \A v \in DOMAIN pe : pe[v].depth \in 0..Len(sl2),
         NoShallow(pe) => Above(sl, Len(sl2), off2)
  PROVE  Downwards(sl2, off2, pe2)
<1> DEFINE n == Len(sl2)
<1>1. n \in Nat /\ DOMAIN sl2 = 1..n /\ Len(sl) \in Nat /\ DOMAIN sl = 1..Len(sl)
  BY LenProperties
<1>2. \A k \in 1..n : sl2[k] = sl[k] /\ k \in DOMAIN sl
  BY <1>1 DEF Same
<1>3. ASSUME NEW k \in 1..n, \A v \in DOMAIN pe2 : Shallow(pe2[v]) => k <= pe2[v].depth
      PROVE  Above(sl2, k - 1, sl2[k].hi)
  <2>1. \A v \in DOMAIN pe : Shallow(pe[v]) => k <= pe[v].depth
    BY <1>3 DEF SamePlaces
  <2>2. Above(sl, k - 1, sl[k].hi)
    BY <1>2, <2>1 DEF Downwards
  <2>3. \A j \in 1..(k - 1) : j \in 1..n
    BY <1>1
  <2> QED
    BY <1>2, <2>2, <2>3 DEF Above
<1>4. ASSUME NEW v \in DOMAIN pe2, \A u \in 1..(v - 1) : ~Shallow(pe2[u])
      PROVE  Above(sl2, pe2[v].depth, pe2[v].base)
  <2>1. v \in DOMAIN pe /\ \A u \in 1..(v - 1) : u \in DOMAIN pe
    BY LenProperties DEF SamePlaces
  <2>2. Above(sl, pe[v].depth, pe[v].base)
    BY <1>4, <2>1 DEF Downwards, SamePlaces
  <2>3. \A j \in 1..pe[v].depth : j \in 1..n
    BY <1>1, <2>1
  <2> QED
    BY <1>2, <2>1, <2>2, <2>3 DEF Above, SamePlaces
<1>5. NoShallow(pe2) => Above(sl2, n, off2)
  <2>1. NoShallow(pe2) => NoShallow(pe)
    BY DEF NoShallow, SamePlaces
  <2> QED
    BY <1>2, <2>1 DEF Above
<1> QED
  BY <1>1, <1>3, <1>4, <1>5 DEF Downwards, NoShallow

(* A visit begins at offset_, below which there is nothing.                *)
LEMMA EnterDownwards ==
  ASSUME NEW sl \in Seq(Slot), NEW off \in Int, NEW pe \in Seq(Visit), NEW visit \in Visit,
         Downwards(sl, off, pe), visit.depth = Len(sl), visit.base = off
  PROVE  Downwards(sl, off, Append(pe, visit))
<1> DEFINE n == Len(pe)
           pe2 == Append(pe, visit)
<1>1. n \in Nat /\ DOMAIN pe = 1..n
  BY LenProperties
<1>2. /\ DOMAIN pe2 = 1..(n + 1) /\ pe2[n + 1] = visit /\ \A v \in 1..n : pe2[v] = pe[v]
  BY <1>1, AppendProperties, LenProperties
<1> HIDE DEF pe2, n
<1>3. (\A v \in 1..n : ~Shallow(pe[v])) => Above(sl, Len(sl), off)
  BY <1>1 DEF Downwards
<1>4. \A v \in 1..n : v \in 1..(n + 1)
  BY <1>1
<1>5. NoShallow(pe2) => Above(sl, Len(sl), off)
  BY <1>2, <1>3, <1>4 DEF NoShallow
<1>6. ASSUME NEW v \in 1..(n + 1), \A u \in 1..(v - 1) : ~Shallow(pe2[u])
      PROVE  Above(sl, pe2[v].depth, pe2[v].base)
  <2>1. CASE v \in 1..n
    <3>1. \A u \in 1..(v - 1) : u \in 1..n
      BY <1>1, <2>1
    <3> QED
      BY <1>1, <1>2, <1>6, <2>1, <3>1 DEF Downwards
  <2>2. CASE v = n + 1
    <3>1. v - 1 = n
      BY <1>1, <2>2
    <3> QED
      BY <1>2, <1>3, <1>6, <2>2, <3>1
  <2> QED
    BY <1>1, <2>1, <2>2
<1>7. \A k \in DOMAIN sl :
        (\A v \in DOMAIN pe2 : Shallow(pe2[v]) => k <= pe2[v].depth) => Above(sl, k - 1, sl[k].hi)
  BY <1>1, <1>2, <1>4 DEF Downwards
<1>8. Downwards(sl, off, pe2)
  BY <1>2, <1>5, <1>6, <1>7 DEF Downwards, NoShallow
<1> QED
  BY <1>8 DEF pe2

(* A visit gives back all that was taken in it, Shallow or not.            *)
LEMMA ReturnDownwards ==
  ASSUME NEW sl \in Seq(Slot), NEW sl2 \in Seq(Slot), NEW off \in Int,
         NEW pe \in Seq(Visit), NEW pe2 \in Seq(Visit), NEW n \in Nat,
         Len(pe) = n + 1, Len(pe2) = n, \A v \in 1..n : pe2[v] = pe[v],
         Downwards(sl, off, pe),
         \A v \in 1..n : pe[v].depth \in 0..pe[n + 1].depth,
         pe[n + 1].depth <= Len(sl),
         Len(sl2) = pe[n + 1].depth, Same(sl, sl2, Len(sl2))
  PROVE  Downwards(sl2, pe[n + 1].base, pe2)
<1> DEFINE m == Len(sl2)
<1>1. m \in Nat /\ DOMAIN sl2 = 1..m /\ Len(sl) \in Nat /\ DOMAIN sl = 1..Len(sl)
  BY LenProperties
<1>2. DOMAIN pe = 1..(n + 1) /\ DOMAIN pe2 = 1..n
  BY LenProperties
<1>3. \A k \in 1..m : sl2[k] = sl[k] /\ k \in DOMAIN sl
  BY <1>1 DEF Same
<1>4. m = pe[n + 1].depth
  OBVIOUS
<1> HIDE DEF m
<1>5. ASSUME NEW k \in 1..m, \A v \in 1..n : Shallow(pe2[v]) => k <= pe2[v].depth
      PROVE  Above(sl2, k - 1, sl2[k].hi)
  <2>1. ASSUME NEW v \in 1..(n + 1), Shallow(pe[v])
        PROVE  k <= pe[v].depth
    <3>1. CASE v \in 1..n
      BY <1>5, <2>1, <3>1
    <3>2. CASE v = n + 1
      BY <1>4, <3>2
    <3> QED
      BY <3>1, <3>2
  <2>2. Above(sl, k - 1, sl[k].hi)
    BY <1>2, <1>3, <2>1 DEF Downwards
  <2>3. \A j \in 1..(k - 1) : j \in 1..m
    BY <1>1
  <2> QED
    BY <1>3, <2>2, <2>3 DEF Above
<1>6. ASSUME NEW v \in 1..(n + 1), \A u \in 1..(v - 1) : ~Shallow(pe[u])
      PROVE  Above(sl2, pe[v].depth, pe[v].base)
  <2>1. Above(sl, pe[v].depth, pe[v].base)
    BY <1>2, <1>6 DEF Downwards
  <2>2. \A j \in 1..pe[v].depth : j \in 1..m
    <3>1. CASE v \in 1..n
      BY <1>1, <1>4, <3>1
    <3>2. CASE v = n + 1
      BY <1>4, <3>2
    <3> QED
      BY <3>1, <3>2
  <2> QED
    BY <1>3, <2>1, <2>2 DEF Above
<1>7. (\A v \in 1..n : ~Shallow(pe2[v])) => Above(sl2, m, pe[n + 1].base)
  <2>1. n + 1 \in 1..(n + 1) /\ (n + 1) - 1 = n
    OBVIOUS
  <2> QED
    BY <1>4, <1>6, <2>1
<1>8. ASSUME NEW v \in 1..n, \A u \in 1..(v - 1) : ~Shallow(pe2[u])
      PROVE  Above(sl2, pe2[v].depth, pe2[v].base)
  <2>1. v \in 1..(n + 1) /\ \A u \in 1..(v - 1) : u \in 1..n
    OBVIOUS
  <2> QED
    BY <1>6, <1>8, <2>1
<1> QED
  BY <1>1, <1>2, <1>5, <1>7, <1>8 DEF Downwards, m

-----------------------------------------------------------------------------
(* Where the statement's own part of the frame ends does not change while  *)
(* an expression is visited.                                               *)
LEMMA EndsKept ==
  ASSUME NEW sl \in Seq(Slot), NEW sl2, NEW off, NEW off2,
         NEW pe \in Seq(Visit), NEW pe2 \in Seq(Visit), pe # <<>>, pe2 # <<>>,
         EndsAt(sl, off, pe), Same(sl, sl2, pe[1].depth),
         pe2[1].depth = pe[1].depth, pe2[1].base = pe[1].base
  PROVE  EndsAt(sl2, off2, pe2)
<1>1. Len(pe) \in Nat \ {0} /\ Len(pe2) \in Nat \ {0}
  BY EmptySeq
<1>2. pe[1].depth \in Nat
  BY <1>1, ElementOfSeq, VisitTyped
<1>3. /\ DepthAt(sl, pe, 0) = pe[1].depth /\ OffsetAt(off, pe, 0) = pe[1].base
      /\ DepthAt(sl2, pe2, 0) = pe[1].depth /\ OffsetAt(off2, pe2, 0) = pe[1].base
  BY <1>1 DEF DepthAt, OffsetAt
<1> QED
  BY <1>2, <1>3 DEF EndsAt, Same

(* A visit begins where the statement's part ends, or in another.          *)
LEMMA EndsEnter ==
  ASSUME NEW sl \in Seq(Slot), NEW sl2, NEW off, NEW off2,
         NEW pe \in Seq(Visit), NEW visit \in Visit,
         EndsAt(sl, off, pe), Same(sl, sl2, Len(sl)),
         \A v \in DOMAIN pe : pe[v].depth \in 0..Len(sl),
         visit.depth = Len(sl), visit.base = off
  PROVE  EndsAt(sl2, off2, Append(pe, visit))
<1> DEFINE pe2 == Append(pe, visit)
<1>1. /\ pe2 \in Seq(Visit) /\ Len(pe2) = Len(pe) + 1 /\ pe2[Len(pe) + 1] = visit
      /\ \A v \in 1..Len(pe) : pe2[v] = pe[v]
  BY AppendProperties
<1>2. Len(pe) \in Nat /\ DOMAIN pe = 1..Len(pe) /\ Len(sl) \in Nat
  BY LenProperties
<1>3. pe2 # <<>>
  BY <1>1, <1>2, EmptySeq
<1> HIDE DEF pe2
<1>4. CASE pe = <<>>
  <2>1. Len(pe) = 0
    BY <1>4, EmptySeq
  <2>2. DepthAt(sl, pe, 0) = Len(sl) /\ OffsetAt(off, pe, 0) = off
    BY <2>1 DEF DepthAt, OffsetAt
  <2>3. DepthAt(sl2, pe2, 0) = Len(sl) /\ OffsetAt(off2, pe2, 0) = off
    BY <1>1, <2>1 DEF DepthAt, OffsetAt
  <2> QED
    BY <1>2, <2>2, <2>3 DEF EndsAt, Same, pe2
<1>5. CASE pe # <<>>
  <2>1. Len(pe) \in Nat \ {0}
    BY <1>5, EmptySeq
  <2>2. pe2[1] = pe[1] /\ pe[1].depth \in 0..Len(sl)
    BY <1>1, <1>2, <2>1
  <2>3. Same(sl, sl2, pe[1].depth)
    BY <1>2, <2>2 DEF Same
  <2> QED
    BY <1>1, <1>3, <1>5, <2>2, <2>3, EndsKept DEF pe2
<1> QED
  BY <1>4, <1>5

Lower(sl, off, pe) == Downwards(sl, off, pe) /\ EndsAt(sl, off, pe)

(* A slot is taken behind those in use.                                    *)
LEMMA SameAppend ==
  ASSUME NEW sl \in Seq(Slot), NEW s \in Slot
  PROVE  /\ Append(sl, s) \in Seq(Slot) /\ Len(Append(sl, s)) = Len(sl) + 1
         /\ Append(sl, s)[Len(sl) + 1] = s
         /\ Same(sl, Append(sl, s), Len(sl)) /\ Len(sl) \in Nat
BY AppendProperties, LenProperties DEF Same

(* Visits that did not go on are where they were.                          *)
LEMMA SamePlacesRefl == ASSUME NEW pe PROVE SamePlaces(pe, pe)
BY DEF SamePlaces

\* The depths of the visits after one has begun.
LEMMA EnterDepths ==
  ASSUME NEW sl \in Seq(Slot), NEW pe \in Seq(Visit), NEW visit \in Visit,
         \A v \in DOMAIN pe : pe[v].depth \in 0..Len(sl), visit.depth = Len(sl)
  PROVE  /\ Append(pe, visit) \in Seq(Visit)
         /\ \A v \in DOMAIN Append(pe, visit) : Append(pe, visit)[v].depth \in 0..Len(sl)
<1>1. Len(sl) \in Nat /\ Len(pe) \in Nat /\ DOMAIN pe = 1..Len(pe)
  BY LenProperties
<1> DEFINE pe2 == Append(pe, visit)
<1>2. /\ pe2 \in Seq(Visit) /\ Len(pe2) = Len(pe) + 1 /\ pe2[Len(pe) + 1] = visit
      /\ \A v \in 1..Len(pe) : pe2[v] = pe[v]
  BY AppendProperties
<1> HIDE DEF pe2
<1>3. DOMAIN pe2 = 1..(Len(pe) + 1)
  BY <1>2, LenProperties
<1>4. ASSUME NEW v \in DOMAIN pe2
      PROVE  pe2[v].depth \in 0..Len(sl)
  <2>1. v = Len(pe) + 1 \/ v \in 1..Len(pe)
    BY <1>1, <1>3
  <2> QED
    BY <1>1, <1>2, <2>1
<1> QED
  BY <1>2, <1>4 DEF pe2

(* A visit begins with a slot, ...                                         *)
LEMMA EnterTaking ==
  ASSUME NEW sl \in Seq(Slot), NEW off \in Int, NEW off2 \in Int, NEW s \in Slot,
         NEW pe \in Seq(Visit), NEW visit \in Visit,
         Lower(sl, off, pe), \A v \in DOMAIN pe : pe[v].depth \in 0..Len(sl),
         visit.depth = Len(sl), visit.base = off, s.lo <= s.hi,
         ~Shallow(visit) /\ off <= 0 => s.hi <= off /\ off2 <= s.lo
  PROVE  Lower(Append(sl, s), off2, Append(pe, visit))
<1> DEFINE pe2 == Append(pe, visit)
<1>1. Downwards(sl, off, pe2) /\ pe2 \in Seq(Visit)
      /\ \A v \in DOMAIN pe2 : pe2[v].depth \in 0..Len(sl)
  BY EnterDownwards, EnterDepths DEF Lower
<1>2. NoShallow(pe2) => ~Shallow(visit) /\ off <= 0
  <2>1. pe2[Len(pe) + 1] = visit /\ Len(pe) + 1 \in DOMAIN pe2
    BY AppendProperties, LenProperties
  <2> HIDE DEF pe2
  <2>2. NoShallow(pe2) => Above(sl, Len(sl), off)
    BY <1>1 DEF Downwards, NoShallow
  <2> QED
    BY <2>1, <2>2 DEF NoShallow, Above
<1> HIDE DEF pe2
<1>3. Downwards(Append(sl, s), off2, pe2)
  BY <1>1, <1>2, SameAppend, SamePlacesRefl, TakeDownwards
<1>4. EndsAt(Append(sl, s), off2, pe2)
  BY SameAppend, EndsEnter DEF Lower, pe2
<1> QED
  BY <1>3, <1>4 DEF Lower, pe2

(* ... or with offset_ lowered only.                                       *)
LEMMA EnterLowering ==
  ASSUME NEW sl \in Seq(Slot), NEW off \in Int, NEW off2 \in Int,
         NEW pe \in Seq(Visit), NEW visit \in Visit,
         Lower(sl, off, pe), \A v \in DOMAIN pe : pe[v].depth \in 0..Len(sl),
         visit.depth = Len(sl), visit.base = off, off <= 0 => off2 <= off
  PROVE  Lower(sl, off2, Append(pe, visit))
<1> DEFINE pe2 == Append(pe, visit)
<1>1. Downwards(sl, off, pe2) /\ pe2 \in Seq(Visit)
      /\ \A v \in DOMAIN pe2 : pe2[v].depth \in 0..Len(sl)
  BY EnterDownwards, EnterDepths DEF Lower
<1> HIDE DEF pe2
<1>2. Len(sl) \in Nat /\ \A j \in 1..Len(sl) : sl[j].lo \in Int
  BY LenProperties, ElementOfSeq, SlotTyped
<1>3. NoShallow(pe2) => Above(sl, Len(sl), off2)
  <2>1. NoShallow(pe2) => Above(sl, Len(sl), off)
    BY <1>1 DEF Downwards, NoShallow
  <2> QED
    BY <1>2, <2>1 DEF Above
<1>4. Same(sl, sl, Len(sl))
  BY DEF Same
<1>5. Downwards(sl, off2, pe2)
  BY <1>1, <1>2, <1>3, <1>4, SamePlacesRefl, PrefixDownwards
<1>6. EndsAt(sl, off2, pe2)
  BY <1>4, EndsEnter DEF Lower, pe2
<1> QED
  BY <1>5, <1>6 DEF Lower, pe2

-----------------------------------------------------------------------------
(* What the inductive invariant says of the types, by name.                *)
LEMMA FrameTyped ==
  ASSUME IInv
  PROVE  /\ slots \in Seq(Slot) /\ offset \in Int /\ pending \in Seq(Visit)
         /\ Len(slots) \in Nat /\ DOMAIN slots = 1..Len(slots)
         /\ Len(pending) \in Nat /\ DOMAIN pending = 1..Len(pending)
         /\ VisitsRight(slots, offset, pending)
         /\ \A v \in DOMAIN pending : pending[v].depth \in 0..Len(slots)
<1>1. slots \in Seq(Slot) /\ offset \in Int /\ pending \in Seq(Visit)
      /\ VisitsRight(slots, offset, pending)
  BY DEF IInv, TypeOK
<1> QED
  BY <1>1, LenProperties, Depths

\* The functions of which Downwards is claimed.
Regular == curFunc # NoFunc /\ ~SavedResult(curFunc)

(* What is left to be shown of a step in the body of a function.           *)
LEMMA Rebuilt ==
  ASSUME IInv, UNCHANGED <<curFunc, prologue, scopes, heap>>,
         curFunc # NoFunc, pending' # <<>> => InBody,
         offset' \in Int, slots' \in Seq(Slot), pending' \in Seq(Visit),
         Len(pending') <= MaxNesting,
         value' \in [lo : Int, type : Types] \cup {NoStruct},
         call' \in [of : Calls, rsp : Int, slots : Seq(Slot)] \cup {NoCall},
         \A k \in DOMAIN slots' : slots'[k].lo < slots'[k].hi,
         VisitsRight(slots', offset', pending'),
         Regular => Lower(slots', offset', pending')
  PROVE  IInv'
<1>1. \A v \in DOMAIN pending' : pending'[v].depth <= Len(slots')
  BY DEF VisitsRight
<1>2. TypeOK'
  BY <1>1 DEF IInv, TypeOK
<1>3. InBody' <=> InBody
  BY DEF InBody
<1>4. SavedResult(curFunc)' <=> SavedResult(curFunc)
  BY DEF SavedResult, Hidden
<1> QED
  BY <1>2, <1>3, <1>4 DEF IInv, Regular, Lower

(* A slot of some size is put to others.                                   *)
LEMMA SeqSized ==
  ASSUME NEW sl \in Seq(Slot), \A k \in DOMAIN sl : sl[k].lo < sl[k].hi,
         NEW s \in Slot, s.lo < s.hi
  PROVE  \A k \in DOMAIN Append(sl, s) : Append(sl, s)[k].lo < Append(sl, s)[k].hi
<1> DEFINE sl2 == Append(sl, s)
<1>1. Len(sl) \in Nat /\ DOMAIN sl = 1..Len(sl)
  BY LenProperties
<1>2. /\ sl2 \in Seq(Slot) /\ Len(sl2) = Len(sl) + 1 /\ sl2[Len(sl) + 1] = s
      /\ \A k \in 1..Len(sl) : sl2[k] = sl[k]
  BY <1>1, SameAppend DEF Same
<1> HIDE DEF sl2
<1>3. DOMAIN sl2 = 1..(Len(sl) + 1)
  BY <1>2, LenProperties
<1>4. ASSUME NEW k \in DOMAIN sl2
      PROVE  sl2[k].lo < sl2[k].hi
  <2>1. k \in 1..Len(sl) \/ k = Len(sl) + 1
    BY <1>1, <1>3
  <2> QED
    BY <1>1, <1>2, <2>1
<1> QED
  BY <1>4 DEF sl2

(* No slot that is taken is empty ...                                      *)
LEMMA SizedAppend ==
  ASSUME IInv, NEW s \in Slot, s.lo < s.hi
  PROVE  \A k \in DOMAIN Append(slots, s) : Append(slots, s)[k].lo < Append(slots, s)[k].hi
<1>1. slots \in Seq(Slot) /\ \A k \in DOMAIN slots : slots[k].lo < slots[k].hi
  BY FrameTyped DEF IInv
<1> QED
  BY <1>1, SeqSized

(* The place that SlotAt() makes.                                          *)
LEMMA SlotAtTyped ==
  ASSUME NEW lo \in Int, NEW width \in Nat
  PROVE  /\ SlotAt(lo, width) \in Slot
         /\ SlotAt(lo, width).lo = lo /\ SlotAt(lo, width).hi = lo + width
BY DEF SlotAt, Slot

(* Spill() pushes eight bytes at offset_.                                  *)
LEMMA SpillKeeps ==
  ASSUME IInv, Spill
  PROVE  IInv'
<1> DEFINE visit == [stage |-> "spilled", base |-> offset, depth |-> Len(slots),
                     call |-> NoCall, left |-> {}, result |-> 0]
           s == SlotAt(offset - 8, 8)
<1>1. /\ InBody /\ Len(pending) < MaxNesting /\ pending' = Append(pending, visit)
      /\ offset' = offset - 8 /\ slots' = Append(slots, s)
      /\ value' = NoStruct /\ call' = NoCall
      /\ UNCHANGED <<curFunc, prologue, scopes, heap>>
  BY DEF Spill, Begin, Take, Quiet
<1>2. /\ slots \in Seq(Slot) /\ offset \in Int /\ pending \in Seq(Visit)
      /\ Len(slots) \in Nat /\ Len(pending) \in Nat /\ VisitsRight(slots, offset, pending)
      /\ \A v \in DOMAIN pending : pending[v].depth \in 0..Len(slots)
  BY FrameTyped
<1>3. /\ visit \in Visit /\ visit.depth = Len(slots) /\ visit.base = offset
      /\ visit.stage = "spilled"
  BY <1>2 DEF Visit
<1>4. s \in Slot /\ s.lo = offset - 8 /\ s.hi = offset /\ s.lo < s.hi /\ offset - 8 \in Int
  <2>1. offset - 8 \in Int /\ offset - 8 + 8 = offset
    BY <1>2
  <2>2. s \in Slot /\ s.lo = offset - 8 /\ s.hi = offset - 8 + 8
    BY <2>1, SlotAtTyped
  <2> QED
    BY <1>2, <2>1, <2>2
<1> HIDE DEF visit, s
<1>5. /\ slots' \in Seq(Slot) /\ Len(slots') = Len(slots) + 1
      /\ slots'[Len(slots) + 1] = s /\ Same(slots, slots', Len(slots))
      /\ Len(slots) <= Len(slots')
  BY <1>1, <1>2, <1>4, SameAppend
<1>6. VisitRight(slots', visit, Len(slots'), offset')
  BY <1>1, <1>2, <1>3, <1>4, <1>5 DEF VisitRight
<1>7. VisitsRight(slots', offset', pending')
  BY <1>1, <1>2, <1>3, <1>4, <1>5, <1>6, EnterVisits
<1>8. Regular => Lower(slots', offset', pending')
  <2>1. Regular => Lower(slots, offset, pending)
    BY DEF IInv, Regular, Lower
  <2>2. s.lo <= s.hi /\ s.hi <= offset /\ offset' <= s.lo
    BY <1>1, <1>2, <1>4
  <2> QED
    BY <1>1, <1>2, <1>3, <1>4, <2>1, <2>2, EnterTaking
<1>9. pending' \in Seq(Visit) /\ Len(pending') <= MaxNesting
  BY <1>1, <1>2, <1>3, AppendProperties, FrameAssumption
<1>10. \A k \in DOMAIN slots' : slots'[k].lo < slots'[k].hi
  BY <1>1, <1>2, <1>4, SizedAppend
<1>11. curFunc # NoFunc
  BY <1>1 DEF InBody
<1> QED
  BY <1>1, <1>4, <1>5, <1>7, <1>8, <1>9, <1>10, <1>11, Rebuilt

(* The result and the arguments of a call are below what is in use.        *)
LEMMA BeginCallKeeps ==
  ASSUME IInv, NEW c \in Calls, BeginCall(c)
  PROVE  IInv'
<1> DEFINE ret == RetStructOffset(c)
           n == ByMemCnt(c)
           width == c.callee.ret.width
           visit == [stage |-> "args", base |-> offset, depth |-> Len(slots),
                     call |-> c, left |-> DOMAIN c.args, result |-> ret]
           s == SlotAt(ret, width)
           h == Hidden(c.callee)
<1>1. /\ InBody /\ Len(pending) < MaxNesting /\ pending' = Append(pending, visit)
      /\ offset' = AlignFrame(ret, n)
      /\ slots' = IF h = 0 THEN slots ELSE Append(slots, s)
      /\ value' = NoStruct /\ call' = NoCall
      /\ UNCHANGED <<curFunc, prologue, scopes, heap>>
  BY DEF BeginCall, EnterCall, Begin, Quiet
<1>2. /\ slots \in Seq(Slot) /\ offset \in Int /\ pending \in Seq(Visit)
      /\ Len(slots) \in Nat /\ Len(pending) \in Nat /\ VisitsRight(slots, offset, pending)
      /\ \A v \in DOMAIN pending : pending[v].depth \in 0..Len(slots)
  BY FrameTyped
<1>3. width \in Nat \ {0} /\ c.callee.ret.align \in Nat \ {0}
  BY FrameAssumption
<1>4. ret \in Int /\ (h = 0 => ret = offset) /\ (h = 1 /\ offset <= 0 => ret + width <= offset)
  <2>1. h = 0 => ret = offset
    BY DEF RetStructOffset
  <2>2. h # 0 => ret = MakeAlign(offset - width, c.callee.ret.align)
    BY DEF RetStructOffset
  <2>3. /\ MakeAlign(offset - width, c.callee.ret.align) \in Int
        /\ offset - width <= 0 =>
             MakeAlign(offset - width, c.callee.ret.align) <= offset - width
    <3> HIDE DEF width
    <3>1. offset - width \in Int
      BY <1>2, <1>3
    <3> QED
      BY <1>3, <3>1, MakeAlignDown
  <2> HIDE DEF ret, width, h
  <2> QED
    BY <1>2, <1>3, <2>1, <2>2, <2>3
<1>5. h \in {0, 1} /\ n \in Int /\ n >= -h /\ DOMAIN c.args \subseteq Nat
  BY HiddenTyped, RegistersOfCall
<1>6. visit \in Visit /\ visit.depth = Len(slots) /\ visit.base = offset /\ visit.stage = "args"
      /\ visit.call = c /\ visit.left = DOMAIN c.args /\ visit.result = ret
  BY <1>2, <1>4, <1>5 DEF Visit
<1>7. s \in Slot /\ s.lo = ret /\ s.hi = ret + width
  BY <1>3, <1>4, SlotAtTyped
<1>8. h = 1 => (Shallow(visit) <=> ret > -8)
  BY <1>6, FrameAssumption DEF Shallow
<1>9. offset' \in Int /\ (ret <= 8 * n => offset' <= ret)
  BY <1>1, <1>4, <1>5, AlignFrameDown
<1> HIDE DEF visit, s, ret, n, width, h
<1>10. /\ slots' \in Seq(Slot) /\ Len(slots') = Len(slots) + h
       /\ Same(slots, slots', Len(slots)) /\ Len(slots) <= Len(slots')
  <2>1. CASE h = 0
    BY <1>1, <1>2, <2>1 DEF Same
  <2>2. CASE h = 1
    BY <1>1, <1>2, <1>7, <2>2, SameAppend
  <2> QED
    BY <1>5, <2>1, <2>2
<1>11. VisitRight(slots', visit, Len(slots'), offset')
  <2>1. RegArgsOf(c) \ DOMAIN c.args = {} /\ DOMAIN c.args \ DOMAIN c.args = {}
    BY RegistersOfCall
  <2>2. Cardinality({}) = 0
    BY FS_EmptySet
  <2>3. Len(slots') = visit.depth + Hidden(visit.call.callee) + 0
    BY <1>2, <1>5, <1>6, <1>10 DEF h
  <2>4. 0..(0 - 1) = {}
    OBVIOUS
  <2>5. ArgsRight(slots', visit, Len(slots'), offset')
    BY <1>6, <2>1, <2>2, <2>3, <2>4, Zenon DEF ArgsRight
  <2> QED
    BY <1>2, <1>5, <1>6, <1>10, <2>5 DEF VisitRight
<1>12. VisitsRight(slots', offset', pending')
  BY <1>1, <1>2, <1>5, <1>6, <1>9, <1>10, <1>11, EnterVisits
<1>13. ASSUME Regular
       PROVE  Lower(slots', offset', pending')
  <2>1. Lower(slots, offset, pending)
    BY <1>13 DEF IInv, Regular, Lower
  <2>2. CASE h = 0
    <3>1. offset <= 0 => offset' <= offset
      BY <1>2, <1>4, <1>5, <1>9, <2>2
    <3> QED
      BY <1>1, <1>2, <1>6, <1>9, <2>1, <2>2, <3>1, EnterLowering
  <2>3. CASE h = 1
    <3>1. ~Shallow(visit) /\ offset <= 0 => s.hi <= offset /\ offset' <= s.lo
      BY <1>2, <1>3, <1>4, <1>5, <1>7, <1>8, <1>9, <2>3
    <3>2. s.lo <= s.hi
      BY <1>3, <1>4, <1>7
    <3>3. slots' = Append(slots, s)
      BY <1>1, <2>3
    <3> QED
      BY <1>1, <1>2, <1>6, <1>7, <1>9, <2>1, <3>1, <3>2, <3>3, EnterTaking
  <2> QED
    BY <1>5, <2>2, <2>3
<1>14. pending' \in Seq(Visit) /\ Len(pending') <= MaxNesting
  BY <1>1, <1>2, <1>6, AppendProperties, FrameAssumption
<1>15. \A k \in DOMAIN slots' : slots'[k].lo < slots'[k].hi
  <2>1. CASE h = 0
    BY <1>1, <2>1 DEF IInv
  <2>2. CASE h = 1
    <3>1. s.lo < s.hi
      BY <1>3, <1>4, <1>7
    <3> QED
      BY <1>1, <1>7, <2>2, <3>1, SizedAppend
  <2> QED
    BY <1>5, <2>1, <2>2
<1>16. curFunc # NoFunc
  BY <1>1 DEF InBody
<1> QED
  BY <1>1, <1>9, <1>10, <1>12, <1>13, <1>14, <1>15, <1>16, Rebuilt

-----------------------------------------------------------------------------
(* The first slots of the frame.                                           *)
LEMMA Prefix ==
  ASSUME NEW sl \in Seq(Slot), NEW n \in 0..Len(sl)
  PROVE  /\ SubSeq(sl, 1, n) \in Seq(Slot) /\ Len(SubSeq(sl, 1, n)) = n
         /\ Same(sl, SubSeq(sl, 1, n), n)
<1>1. Len(sl) \in Nat /\ DOMAIN sl = 1..Len(sl)
  BY LenProperties
<1>2. \A k \in 1..n : sl[k] \in Slot
  BY <1>1, ElementOfSeq
<1>3. /\ SubSeq(sl, 1, n) \in Seq(Slot) /\ Len(SubSeq(sl, 1, n)) = IF 1 <= n THEN n - 1 + 1 ELSE 0
      /\ \A k \in 1..(n - 1 + 1) : SubSeq(sl, 1, n)[k] = sl[1 + k - 1]
  BY <1>1, <1>2, SubSeqProperties
<1>4. \A k \in 1..n : 1 + k - 1 = k /\ k \in 1..(n - 1 + 1)
  BY <1>1
<1> QED
  BY <1>1, <1>3, <1>4 DEF Same

(* ... nor one that is kept.                                               *)
LEMMA SizedPrefix ==
  ASSUME IInv, NEW n \in 0..Len(slots)
  PROVE  \A k \in DOMAIN SubSeq(slots, 1, n) :
           SubSeq(slots, 1, n)[k].lo < SubSeq(slots, 1, n)[k].hi
<1> DEFINE sl2 == SubSeq(slots, 1, n)
<1>1. slots \in Seq(Slot) /\ Len(slots) \in Nat /\ DOMAIN slots = 1..Len(slots)
  BY FrameTyped
<1>2. sl2 \in Seq(Slot) /\ Len(sl2) = n /\ \A k \in 1..n : sl2[k] = slots[k]
  BY <1>1, Prefix DEF Same
<1> HIDE DEF sl2
<1>3. DOMAIN sl2 = 1..n
  BY <1>2, LenProperties
<1>4. \A k \in DOMAIN sl2 : k \in DOMAIN slots
  BY <1>1, <1>3
<1>5. \A k \in DOMAIN sl2 : sl2[k].lo < sl2[k].hi
  BY <1>2, <1>3, <1>4 DEF IInv
<1> QED
  BY <1>5 DEF sl2

(* The last visit.                                                         *)
LEMMA TopTyped ==
  ASSUME IInv, pending # <<>>
  PROVE  /\ Len(pending) \in Nat \ {0} /\ Top = pending[Len(pending)] /\ Top \in Visit
         /\ Top.depth \in 0..Len(slots) /\ Top.base \in Int
         /\ VisitRight(slots, Top, Len(slots), offset)
         /\ \A v \in 1..Len(pending) : pending[v].depth \in 0..Top.depth
<1>1. /\ slots \in Seq(Slot) /\ pending \in Seq(Visit) /\ DOMAIN pending = 1..Len(pending)
      /\ Len(slots) \in Nat /\ VisitsRight(slots, offset, pending)
      /\ \A v \in DOMAIN pending : pending[v].depth \in 0..Len(slots)
  BY FrameTyped
<1>2. Len(pending) \in Nat \ {0}
  BY <1>1, EmptySeq
<1>3. Top = pending[Len(pending)] /\ Len(pending) \in 1..Len(pending)
  BY <1>2 DEF Top, Last
<1>4. Top \in Visit /\ Top.base \in Int
  BY <1>1, <1>3, ElementOfSeq, VisitTyped
<1>5. VisitRight(slots, Top, Len(slots), offset)
  BY <1>1, <1>3 DEF VisitsRight, DepthAt, OffsetAt
<1>6. \A u \in 1..Len(pending) : pending[u].depth <= Top.depth
  BY <1>1, <1>3, Depths
<1> QED
  BY <1>1, <1>2, <1>3, <1>4, <1>5, <1>6

(* The last visit goes on.                                                 *)
LEMMA ReplaceTop ==
  ASSUME NEW pe \in Seq(Visit), pe # <<>>, NEW visit \in Visit,
         visit.depth = Last(pe).depth, visit.base = Last(pe).base,
         Shallow(visit) <=> Shallow(Last(pe))
  PROVE  /\ [pe EXCEPT ![Len(pe)] = visit] \in Seq(Visit)
         /\ Len([pe EXCEPT ![Len(pe)] = visit]) = Len(pe)
         /\ [pe EXCEPT ![Len(pe)] = visit] # <<>>
         /\ SamePlaces(pe, [pe EXCEPT ![Len(pe)] = visit])
         /\ 1 \in DOMAIN pe
<1> DEFINE pe2 == [pe EXCEPT ![Len(pe)] = visit]
<1>1. Len(pe) \in Nat \ {0} /\ DOMAIN pe = 1..Len(pe) /\ Last(pe) = pe[Len(pe)]
  BY EmptySeq, LenProperties DEF Last
<1>2. Len(pe) \in 1..Len(pe) /\ 1 \in 1..Len(pe)
  BY <1>1
<1>3. /\ pe2 \in Seq(Visit) /\ Len(pe2) = Len(pe)
      /\ \A j \in 1..Len(pe) : pe2[j] = IF j = Len(pe) THEN visit ELSE pe[j]
  BY <1>2, ExceptSeq
<1> HIDE DEF pe2
<1>4. pe2 # <<>> /\ DOMAIN pe2 = 1..Len(pe)
  BY <1>1, <1>3, EmptySeq, LenProperties
<1>5. ASSUME NEW v \in 1..Len(pe)
      PROVE  /\ pe2[v].depth = pe[v].depth /\ pe2[v].base = pe[v].base
             /\ Shallow(pe2[v]) <=> Shallow(pe[v])
  BY <1>1, <1>3
<1>6. SamePlaces(pe, pe2)
  BY <1>1, <1>4, <1>5 DEF SamePlaces
<1> QED
  BY <1>1, <1>2, <1>3, <1>4, <1>6 DEF pe2

(* A visit is done: the frame is as it was in front of it.                 *)
LEMMA ReturnKeeps ==
  ASSUME IInv, pending # <<>>, UNCHANGED <<curFunc, prologue, scopes, heap>>,
         slots' = SubSeq(slots, 1, Top.depth), offset' = Top.base,
         pending' = Front(pending),
         value' \in [lo : Int, type : Types] \cup {NoStruct},
         call' \in [of : Calls, rsp : Int, slots : Seq(Slot)] \cup {NoCall}
  PROVE  IInv'
<1> DEFINE n == Len(pending) - 1
<1>1. /\ slots \in Seq(Slot) /\ offset \in Int /\ pending \in Seq(Visit)
      /\ Len(slots) \in Nat /\ DOMAIN pending = 1..Len(pending)
      /\ VisitsRight(slots, offset, pending)
      /\ \A v \in DOMAIN pending : pending[v].depth \in 0..Len(slots)
  BY FrameTyped
<1>2. /\ n \in Nat /\ Len(pending) = n + 1 /\ Top = pending[n + 1]
      /\ Top.depth \in 0..Len(slots) /\ Top.base \in Int
      /\ \A v \in 1..(n + 1) : pending[v].depth \in 0..Top.depth
  BY TopTyped
<1>3. /\ pending' \in Seq(Visit) /\ Len(pending') = n
      /\ \A v \in 1..n : pending'[v] = pending[v]
  <2>1. \A v \in 1..n : pending[v] \in Visit
    BY <1>1, <1>2, ElementOfSeq
  <2>2. /\ SubSeq(pending, 1, n) \in Seq(Visit)
        /\ Len(SubSeq(pending, 1, n)) = IF 1 <= n THEN n - 1 + 1 ELSE 0
        /\ \A v \in 1..(n - 1 + 1) : SubSeq(pending, 1, n)[v] = pending[1 + v - 1]
    BY <1>2, <2>1, SubSeqProperties
  <2>3. pending' = SubSeq(pending, 1, n)
    BY DEF Front
  <2> HIDE DEF n
  <2>4. \A v \in 1..n : 1 + v - 1 = v /\ v \in 1..(n - 1 + 1)
    BY <1>2
  <2> QED
    BY <1>2, <2>2, <2>3, <2>4
<1> HIDE DEF n
<1>4. /\ slots' \in Seq(Slot) /\ Len(slots') = Top.depth /\ Same(slots, slots', Len(slots'))
  BY <1>1, <1>2, Prefix
<1>5. VisitsRight(slots', offset', pending')
  <2>1. Len(slots') = pending[n + 1].depth /\ offset' = pending[n + 1].base
    BY <1>2, <1>4
  <2> QED
    <3> DEFINE sl2 == slots'
               pe2 == pending'
               off2 == offset'
    <3>1. /\ sl2 \in Seq(Slot) /\ pe2 \in Seq(Visit) /\ Len(pe2) = n
          /\ \A v \in 1..n : pe2[v] = pending[v]
          /\ Len(sl2) = pending[n + 1].depth /\ off2 = pending[n + 1].base
          /\ Same(slots, sl2, Len(sl2))
      BY <1>3, <1>4, <2>1
    <3> HIDE DEF sl2, pe2, off2
    <3>2. VisitsRight(sl2, off2, pe2)
      BY <1>1, <1>2, <3>1, ReturnVisits
    <3> QED
      BY <3>2 DEF sl2, pe2, off2
<1>6. ASSUME Regular
      PROVE  Lower(slots', offset', pending')
  <2>1. Downwards(slots, offset, pending) /\ EndsAt(slots, offset, pending)
    BY <1>6 DEF IInv, Regular
  <2>2. Downwards(slots', offset', pending')
    <3>1. /\ \A v \in 1..n : pending[v].depth \in 0..pending[n + 1].depth
          /\ pending[n + 1].depth <= Len(slots)
      BY <1>1, <1>2
    <3> QED
      BY <1>1, <1>2, <1>3, <1>4, <2>1, <3>1, ReturnDownwards
  <2>3. CASE n = 0
    <3>1. DepthAt(slots, pending, 0) = Top.depth /\ OffsetAt(offset, pending, 0) = Top.base
      BY <1>2, <2>3 DEF DepthAt, OffsetAt
    <3>2. DepthAt(slots', pending', 0) = Top.depth /\ OffsetAt(offset', pending', 0) = Top.base
      BY <1>3, <1>4, <2>3 DEF DepthAt, OffsetAt
    <3>3. Top.depth > 0 => Top.depth \in 1..Len(slots')
      BY <1>2, <1>4
    <3> QED
      BY <1>4, <2>1, <2>2, <3>1, <3>2, <3>3 DEF EndsAt, Lower, Same
  <2>4. CASE n # 0
    <3>1. 1 \in 1..n /\ pending'[1] = pending[1] /\ pending[1].depth \in 0..Top.depth
      BY <1>2, <1>3, <2>4
    <3>2. Same(slots, slots', pending[1].depth)
      BY <1>2, <1>4, <3>1 DEF Same
    <3>3. pending' # <<>>
      BY <1>3, <2>4, EmptySeq
    <3> QED
      BY <1>1, <1>3, <2>1, <2>2, <3>1, <3>2, <3>3, EndsKept DEF Lower
  <2> QED
    BY <2>3, <2>4
<1>7. Len(pending') <= MaxNesting
  BY <1>2, <1>3, FrameAssumption DEF IInv, TypeOK
<1>8. \A k \in DOMAIN slots' : slots'[k].lo < slots'[k].hi
  BY <1>2, SizedPrefix
<1>9. curFunc # NoFunc /\ InBody
  BY DEF IInv, InBody
<1> QED
  BY <1>2, <1>3, <1>4, <1>5, <1>6, <1>7, <1>8, <1>9, Rebuilt

(* Restore() pops what Spill() pushed.                                     *)
LEMMA RestoreKeeps ==
  ASSUME IInv, Restore
  PROVE  IInv'
<1>1. /\ pending # <<>> /\ Top.stage = "spilled" /\ offset' = offset + 8
      /\ slots' = Front(slots) /\ pending' = Front(pending)
      /\ value' = NoStruct /\ call' = NoCall
      /\ UNCHANGED <<curFunc, prologue, scopes, heap>>
  BY DEF Restore, Quiet
<1>2. /\ Len(slots) = Top.depth + 1 /\ offset = Top.base - 8
      /\ Top.depth \in Nat /\ Top.base \in Int /\ offset \in Int
  BY <1>1, TopTyped, FrameTyped DEF VisitRight
<1>3. slots' = SubSeq(slots, 1, Top.depth)
  BY <1>1, <1>2 DEF Front
<1>4. offset' = Top.base
  BY <1>1, <1>2
<1> QED
  BY <1>1, <1>3, <1>4, ReturnKeeps

(* The reset behind a call gives back all that the call took.              *)
LEMMA CallKeeps ==
  ASSUME IInv, Call
  PROVE  IInv'
<1> DEFINE c == Top.call
           first == Top.depth + 1 + Hidden(c.callee)
<1>1. /\ pending # <<>> /\ Top.stage = "designator"
      /\ call' = [of |-> c, rsp |-> offset, slots |-> SubSeq(slots, first, Len(slots))]
      /\ value' = IF Hidden(c.callee) = 0 THEN NoStruct
                  ELSE [lo |-> Top.result, type |-> c.callee.ret]
      /\ offset' = Top.base /\ slots' = SubSeq(slots, 1, Top.depth)
      /\ pending' = Front(pending)
      /\ UNCHANGED <<curFunc, prologue, scopes, heap>>
  BY DEF Call
<1>2. /\ Top \in Visit /\ c \in Calls /\ Top.result \in Int
      /\ Top.depth \in Nat /\ first \in Int /\ first >= 1
  BY <1>1, TopTyped, VisitTyped, HiddenTyped DEF VisitRight
<1>3. c.callee.ret \in Types
  BY <1>2, FrameAssumption
<1>4. /\ slots \in Seq(Slot) /\ offset \in Int /\ Len(slots) \in Nat
      /\ DOMAIN slots = 1..Len(slots)
  BY FrameTyped
<1>5. SubSeq(slots, first, Len(slots)) \in Seq(Slot)
  <2> HIDE DEF first
  <2>1. \A k \in first..Len(slots) : slots[k] \in Slot
    BY <1>2, <1>4, ElementOfSeq
  <2> QED
    BY <1>2, <1>4, <2>1, SubSeqProperties
<1> HIDE DEF c, first
<1>6. call' \in [of : Calls, rsp : Int, slots : Seq(Slot)]
  BY <1>1, <1>2, <1>4, <1>5
<1>7. value' \in [lo : Int, type : Types] \cup {NoStruct}
  BY <1>1, <1>2, <1>3
<1> QED
  BY <1>1, <1>6, <1>7, ReturnKeeps

(* A step of the last visit, in whose slots it takes or gives back some.   *)
LEMMA TopKeeps ==
  ASSUME IInv, pending # <<>>, UNCHANGED <<curFunc, prologue, scopes, heap>>,
         value' = NoStruct, call' = NoCall,
         NEW visit \in Visit, visit.depth = Top.depth, visit.base = Top.base,
         Shallow(visit) <=> Shallow(Top),
         pending' = [pending EXCEPT ![Len(pending)] = visit],
         offset' \in Int, slots' \in Seq(Slot), Top.depth <= Len(slots'),
         Same(slots, slots', Top.depth),
         VisitRight(slots', visit, Len(slots'), offset'),
         \A k \in DOMAIN slots' : slots'[k].lo < slots'[k].hi,
         SamePlaces(pending, pending') /\ Regular => Downwards(slots', offset', pending')
  PROVE  IInv'
<1>1. /\ slots \in Seq(Slot) /\ offset \in Int /\ pending \in Seq(Visit)
      /\ Len(slots) \in Nat /\ DOMAIN pending = 1..Len(pending)
      /\ VisitsRight(slots, offset, pending)
  BY FrameTyped
<1>2. /\ Top = Last(pending) /\ Len(pending) \in Nat \ {0}
      /\ Top.depth \in 0..Len(slots) /\ \A v \in 1..Len(pending) : pending[v].depth \in 0..Top.depth
  BY TopTyped DEF Top
<1>3. /\ pending' \in Seq(Visit) /\ Len(pending') = Len(pending) /\ pending' # <<>>
      /\ SamePlaces(pending, pending') /\ 1 \in DOMAIN pending
  BY <1>1, <1>2, ReplaceTop
<1>4. VisitsRight(slots', offset', pending')
  <2> DEFINE sl2 == slots'
             off2 == offset'
  <2>1. /\ sl2 \in Seq(Slot) /\ off2 \in Int /\ visit.depth <= Len(sl2)
        /\ Same(slots, sl2, visit.depth) /\ VisitRight(sl2, visit, Len(sl2), off2)
    OBVIOUS
  <2> HIDE DEF sl2, off2
  <2>2. VisitsRight(sl2, off2, [pending EXCEPT ![Len(pending)] = visit])
    BY <1>1, <1>2, <2>1, TopVisits
  <2> QED
    BY <2>2 DEF sl2, off2
<1>5. ASSUME Regular
      PROVE  Lower(slots', offset', pending')
  <2>1. EndsAt(slots, offset, pending)
    BY <1>5 DEF IInv, Regular
  <2>2. pending'[1].depth = pending[1].depth /\ pending'[1].base = pending[1].base
    BY <1>3 DEF SamePlaces
  <2>3. Same(slots, slots', pending[1].depth)
    BY <1>1, <1>2, <1>3 DEF Same
  <2>4. EndsAt(slots', offset', pending')
    BY <1>1, <1>3, <2>1, <2>2, <2>3, EndsKept
  <2> QED
    BY <1>3, <1>5, <2>4 DEF Lower
<1>6. Len(pending') <= MaxNesting
  BY <1>3 DEF IInv, TypeOK
<1>7. curFunc # NoFunc /\ InBody
  BY DEF IInv, InBody
<1> QED
  BY <1>3, <1>4, <1>5, <1>6, <1>7, Rebuilt

(* An argument is pushed below what is in use.                             *)
LEMMA PushArgKeeps ==
  ASSUME IInv, NEW i \in Top.left, PushArg(i)
  PROVE  IInv'
<1> DEFINE c == Top.call
           type == c.args[i]
           width == IF type.class = "MEMORY" THEN type.width ELSE 8
           lo == IF type.class = "MEMORY" THEN MakeAlign(offset - width, 8) ELSE offset - 8
           visit == [Top EXCEPT !.left = @ \ {i}]
           n == Len(slots)
<1>1. /\ pending # <<>> /\ Top.stage = "args" /\ NextArg(Top, i) /\ offset' = lo
      /\ pending' = [pending EXCEPT ![Len(pending)].left = @ \ {i}]
      /\ value' = NoStruct /\ call' = NoCall
      /\ UNCHANGED <<curFunc, prologue, scopes, heap>>
  BY DEF PushArg, Quiet
<1>2. PICK whole \in BOOLEAN :
        slots' = Append(slots, [lo |-> lo, hi |-> lo + width, arg |-> i, whole |-> whole])
  BY DEF PushArg, Take
<1> DEFINE s == [lo |-> lo, hi |-> lo + width, arg |-> i, whole |-> whole]
<1>3. /\ slots \in Seq(Slot) /\ offset \in Int /\ pending \in Seq(Visit) /\ n \in Nat
      /\ VisitsRight(slots, offset, pending) /\ DOMAIN pending = 1..Len(pending)
      /\ \A v \in DOMAIN pending : pending[v].depth \in 0..n
  BY FrameTyped
<1>4. /\ Len(pending) \in Nat \ {0} /\ Top = pending[Len(pending)] /\ Top \in Visit
      /\ Top.depth \in 0..n /\ VisitRight(slots, Top, n, offset)
  BY <1>1, TopTyped
<1>5. /\ c \in Calls /\ Top.left \subseteq DOMAIN c.args
      /\ ArgsRight(slots, Top, n, offset)
  BY <1>1, <1>4 DEF VisitRight
<1>6. type \in Types /\ i \in Nat
  <2>1. c.args \in Seq(Types) /\ i \in DOMAIN c.args
    BY <1>5, FrameAssumption
  <2> HIDE DEF c
  <2>2. DOMAIN c.args = 1..Len(c.args) /\ Len(c.args) \in Nat
    BY <2>1, LenProperties
  <2> QED
    BY <2>1, <2>2, ElementOfSeq
<1>7. width \in Nat \ {0}
  BY <1>6, FrameAssumption
<1>8. lo \in Int /\ (offset <= 0 => lo + width <= offset)
  <2>1. CASE type.class = "MEMORY"
    <3> HIDE DEF width
    <3>1. offset - width \in Int
      BY <1>3, <1>7
    <3>2. /\ MakeAlign(offset - width, 8) \in Int
          /\ offset - width <= 0 => MakeAlign(offset - width, 8) <= offset - width
      BY <3>1, MakeAlignDown
    <3>3. lo = MakeAlign(offset - width, 8)
      BY <2>1
    <3> HIDE DEF lo
    <3> QED
      BY <1>3, <1>7, <3>2, <3>3
  <2>2. CASE type.class # "MEMORY"
    BY <1>3, <2>2
  <2> QED
    BY <2>1, <2>2
<1>9. i \in RegArgsOf(c) => lo = offset - 8 /\ lo + width = offset
  BY <1>3 DEF RegArgsOf, RegArgs, InRegister
<1>10. s \in Slot /\ s.lo = lo /\ s.hi = lo + width /\ s.arg = i /\ slots' = Append(slots, s)
  <2> HIDE DEF lo, width
  <2>1. lo + width \in Int
    BY <1>7, <1>8
  <2> QED
    BY <1>2, <1>6, <1>8, <2>1 DEF Slot
<1> HIDE DEF s, lo, width
<1>11. /\ visit \in Visit /\ visit.depth = Top.depth /\ visit.base = Top.base
       /\ visit.call = Top.call /\ visit.stage = "args" /\ visit.left = Top.left \ {i}
       /\ Shallow(visit) <=> Shallow(Top)
  BY <1>1, <1>4 DEF Visit, Shallow
<1>12. pending' = [pending EXCEPT ![Len(pending)] = visit]
  BY <1>1, <1>3, <1>4
<1> HIDE DEF visit, n
<1>13. /\ slots' \in Seq(Slot) /\ Len(slots') = n + 1 /\ slots'[n + 1] = s
       /\ Same(slots, slots', n)
  BY <1>3, <1>10, SameAppend DEF n
<1>14. ArgsRight(slots', visit, n + 1, offset')
  <2> DEFINE d2 == n + 1
             sl2 == slots'
             off2 == offset'
  <2>1. /\ d2 \in Nat /\ d2 = n + 1 /\ off2 \in Int /\ Same(slots, sl2, n)
        /\ sl2[d2].arg = i /\ off2 = sl2[d2].lo
        /\ i \in RegArgsOf(c) => off2 = offset - 8 /\ sl2[d2].hi = offset
    BY <1>1, <1>3, <1>8, <1>9, <1>10, <1>13
  <2> HIDE DEF d2, sl2, off2
  <2>2. ArgsRight(sl2, visit, d2, off2)
    <3>1. /\ n \in Nat /\ offset \in Int /\ Top \in Visit /\ visit \in Visit
          /\ Top.call \in Calls /\ Top.left \subseteq DOMAIN Top.call.args
          /\ ArgsRight(slots, Top, n, offset) /\ i \in Top.left /\ NextArg(Top, i)
          /\ visit.call = Top.call /\ visit.depth = Top.depth /\ visit.left = Top.left \ {i}
      BY <1>1, <1>3, <1>4, <1>5, <1>11
    <3> QED
      BY <2>1, <3>1, ArgPushed
  <2> QED
    BY <2>2 DEF d2, sl2, off2
<1>15. VisitRight(slots', visit, Len(slots'), offset')
  BY <1>3, <1>4, <1>5, <1>11, <1>13, <1>14 DEF VisitRight
<1>16. Same(slots, slots', Top.depth)
  BY <1>3, <1>4, <1>13 DEF Same
<1>17. ASSUME SamePlaces(pending, pending'), Regular
       PROVE  Downwards(slots', offset', pending')
  <2> DEFINE sl2 == slots'
             off2 == offset'
             pe2 == pending'
  <2>1. Downwards(slots, offset, pending)
    BY <1>17 DEF IInv, Regular
  <2>2. NoShallow(pending) => offset <= 0
    BY <2>1 DEF Downwards, NoShallow, Above
  <2>3. /\ sl2 \in Seq(Slot) /\ off2 \in Int /\ SamePlaces(pending, pe2)
        /\ Len(sl2) = Len(slots) + 1 /\ Same(slots, sl2, Len(slots))
        /\ sl2[Len(slots) + 1].lo <= sl2[Len(slots) + 1].hi
        /\ NoShallow(pending) =>
             sl2[Len(slots) + 1].hi <= offset /\ off2 <= sl2[Len(slots) + 1].lo
    BY <1>1, <1>3, <1>7, <1>8, <1>10, <1>13, <1>17, <2>2 DEF n
  <2>4. \A v \in DOMAIN pending : pending[v].depth \in 0..Len(slots)
    BY <1>3 DEF n
  <2> HIDE DEF sl2, off2, pe2
  <2>5. Downwards(sl2, off2, pe2)
    BY <1>3, <2>1, <2>3, <2>4, TakeDownwards
  <2> QED
    BY <2>5 DEF sl2, off2, pe2
<1>18. \A k \in DOMAIN slots' : slots'[k].lo < slots'[k].hi
  <2>1. s.lo < s.hi
    BY <1>7, <1>8, <1>10
  <2> QED
    BY <1>10, <2>1, SizedAppend
<1>19. Top.depth <= Len(slots')
  BY <1>3, <1>4, <1>13
<1>20. offset' \in Int
  BY <1>1, <1>8
<1> QED
  BY <1>1, <1>11, <1>12, <1>13, <1>15, <1>16, <1>17, <1>18, <1>19, <1>20, TopKeeps

(* The pops of the registers give back what was pushed for them.           *)
LEMMA LoadArgsKeeps ==
  ASSUME IInv, LoadArgs
  PROVE  IInv'
<1> DEFINE c == Top.call
           n == Cardinality(RegArgsOf(c))
           m == Len(slots) - n
           visit == [Top EXCEPT !.stage = "designator"]
<1>1. /\ pending # <<>> /\ Top.stage = "args" /\ Top.left = {} /\ offset' = offset + 8 * n
      /\ slots' = SubSeq(slots, 1, m)
      /\ pending' = [pending EXCEPT ![Len(pending)].stage = "designator"]
      /\ value' = NoStruct /\ call' = NoCall
      /\ UNCHANGED <<curFunc, prologue, scopes, heap>>
  BY DEF LoadArgs, Quiet
<1>2. /\ slots \in Seq(Slot) /\ offset \in Int /\ pending \in Seq(Visit)
      /\ Len(slots) \in Nat /\ DOMAIN slots = 1..Len(slots)
      /\ VisitsRight(slots, offset, pending) /\ DOMAIN pending = 1..Len(pending)
  BY FrameTyped
<1>3. /\ Len(pending) \in Nat \ {0} /\ Top = pending[Len(pending)] /\ Top \in Visit
      /\ Top.depth \in 0..Len(slots) /\ VisitRight(slots, Top, Len(slots), offset)
      /\ \A v \in 1..Len(pending) : pending[v].depth \in 0..Top.depth
  BY <1>1, TopTyped
<1>4. c \in Calls /\ ArgsRight(slots, Top, Len(slots), offset)
  BY <1>1, <1>3 DEF VisitRight
<1>5. /\ n \in Nat /\ RegArgsOf(c) \ Top.left = RegArgsOf(c)
      /\ n <= Cardinality(DOMAIN c.args \ Top.left)
      /\ Cardinality(DOMAIN c.args \ Top.left) \in Nat
  <2>1. DOMAIN c.args \ Top.left = DOMAIN c.args /\ RegArgsOf(c) \ Top.left = RegArgsOf(c)
    BY <1>1
  <2>2. RegArgsOf(c) \subseteq DOMAIN c.args /\ IsFiniteSet(DOMAIN c.args)
    BY <1>4, RegistersOfCall
  <2> QED
    BY <2>1, <2>2, FS_Subset, FS_CardinalityType
<1>6. m \in Nat /\ Top.depth <= m /\ m <= Len(slots)
  <2>1. Len(slots) = Top.depth + Hidden(c.callee) + Cardinality(DOMAIN c.args \ Top.left)
    BY <1>4 DEF ArgsRight
  <2> HIDE DEF n, c
  <2> QED
    BY <1>2, <1>3, <1>5, <2>1, HiddenTyped
<1>7. \A k \in 0..(n - 1) : slots[Len(slots) - k].hi = offset + 8 * k + 8
  BY <1>4, <1>5 DEF ArgsRight
<1>8. /\ visit \in Visit /\ visit.depth = Top.depth /\ visit.base = Top.base
      /\ visit.call = Top.call /\ visit.stage = "designator" /\ visit.left = Top.left
      /\ Shallow(visit) <=> Shallow(Top)
  BY <1>1, <1>3 DEF Visit, Shallow
<1>9. pending' = [pending EXCEPT ![Len(pending)] = visit]
  BY <1>1, <1>2, <1>3
<1> HIDE DEF visit, n, m
<1>10. slots' \in Seq(Slot) /\ Len(slots') = m /\ Same(slots, slots', m)
  BY <1>1, <1>2, <1>6, Prefix
<1>11. VisitRight(slots', visit, Len(slots'), offset')
  <2>1. visit.call \in Calls /\ visit.left \subseteq DOMAIN visit.call.args
    BY <1>1, <1>4, <1>8
  <2> QED
    BY <1>3, <1>6, <1>8, <1>10, <2>1 DEF VisitRight
<1>12. Same(slots, slots', Top.depth)
  BY <1>3, <1>6, <1>10 DEF Same
<1>13. ASSUME SamePlaces(pending, pending'), Regular
       PROVE  Downwards(slots', offset', pending')
  <2>1. Downwards(slots, offset, pending)
    BY <1>13 DEF IInv, Regular
  <2>2. ASSUME NoShallow(pending)
        PROVE  Above(slots, m, offset')
    <3>1. CASE n = 0
      <4>1. m = Len(slots) /\ offset' = offset
        BY <1>1, <1>2, <3>1 DEF m
      <4> QED
        BY <2>1, <2>2, <4>1 DEF Downwards, NoShallow
    <3>2. CASE n # 0
      <4>1. n - 1 \in 0..(n - 1) /\ Len(slots) - (n - 1) = m + 1 /\ m + 1 \in 1..Len(slots)
        BY <1>2, <1>5, <1>6, <3>2 DEF m
      <4>2. slots[m + 1].hi = offset + 8 * (n - 1) + 8
        BY <1>7, <4>1
      <4>3. slots[m + 1].hi = offset'
        BY <1>1, <1>2, <1>5, <4>2
      <4> DEFINE k == m + 1
      <4>4. k \in DOMAIN slots /\ k - 1 = m /\ slots[k].hi = offset'
        BY <1>2, <1>6, <4>1, <4>3
      <4> HIDE DEF k
      <4>5. \A v \in DOMAIN pending : Shallow(pending[v]) => k <= pending[v].depth
        BY <2>2 DEF NoShallow
      <4>6. Above(slots, k - 1, slots[k].hi)
        BY <2>1, <4>4, <4>5 DEF Downwards
      <4> QED
        BY <4>4, <4>6
    <3> QED
      BY <3>1, <3>2
  <2> DEFINE sl2 == slots'
             off2 == offset'
             pe2 == pending'
  <2>3. /\ sl2 \in Seq(Slot) /\ off2 \in Int /\ SamePlaces(pending, pe2)
        /\ Len(sl2) <= Len(slots) /\ Same(slots, sl2, Len(sl2))
        /\ NoShallow(pending) => Above(slots, Len(sl2), off2)
    BY <1>1, <1>2, <1>5, <1>6, <1>10, <1>13, <2>2
  <2>4. \A v \in DOMAIN pending : pending[v].depth \in 0..Len(sl2)
    <3> TAKE v \in DOMAIN pending
    <3>1. pending[v].depth \in 0..Top.depth
      BY <1>2, <1>3
    <3> QED
      BY <1>3, <1>6, <1>10, <3>1
  <2> HIDE DEF sl2, off2, pe2
  <2>5. Downwards(sl2, off2, pe2)
    BY <1>2, <2>1, <2>3, <2>4, PrefixDownwards
  <2> QED
    BY <2>5 DEF sl2, off2, pe2
<1>14. \A k \in DOMAIN slots' : slots'[k].lo < slots'[k].hi
  BY <1>1, <1>2, <1>6, SizedPrefix
<1>15. offset' \in Int /\ Top.depth <= Len(slots')
  BY <1>1, <1>2, <1>5, <1>6, <1>10
<1> QED
  BY <1>1, <1>8, <1>9, <1>10, <1>11, <1>12, <1>13, <1>14, <1>15, TopKeeps

-----------------------------------------------------------------------------
(* While no visit is in progress.                                          *)
LEMMA NoVisits ==
  ASSUME NEW sl \in Seq(Slot), NEW off
  PROVE  /\ VisitsRight(sl, off, <<>>)
         /\ DepthAt(sl, <<>>, 0) = Len(sl) /\ OffsetAt(off, <<>>, 0) = off
         /\ NoShallow(<<>>)
BY DEF VisitsRight, DepthAt, OffsetAt, NoShallow

(* A parameter or an object is put below what is there.                    *)
LEMMA PutLower ==
  ASSUME NEW sl \in Seq(Slot), NEW off \in Int, NEW s \in Slot,
         Lower(sl, off, <<>>), s.lo <= s.hi, off <= 0 => s.hi <= off
  PROVE  Lower(Append(sl, s), s.lo, <<>>)
<1> DEFINE sl2 == Append(sl, s)
<1>1. /\ sl2 \in Seq(Slot) /\ Len(sl2) = Len(sl) + 1 /\ sl2[Len(sl) + 1] = s
      /\ Same(sl, sl2, Len(sl)) /\ Len(sl) \in Nat
  BY SameAppend
<1> HIDE DEF sl2
<1>2. Downwards(sl, off, <<>>)
  BY DEF Lower
<1>3. off <= 0
  BY <1>2 DEF Downwards, Above
<1>4. \A v \in DOMAIN <<>> : <<>>[v].depth \in 0..Len(sl)
  OBVIOUS
<1>5. <<>> \in Seq(Visit) /\ s.lo \in Int
  BY SlotTyped
<1>6. Downwards(sl2, s.lo, <<>>)
  <2> DEFINE pe == <<>>
  <2>1. /\ pe \in Seq(Visit) /\ SamePlaces(pe, pe) /\ Downwards(sl, off, pe)
        /\ \A v \in DOMAIN pe : pe[v].depth \in 0..Len(sl)
    BY <1>2, <1>4, <1>5, SamePlacesRefl
  <2>2. sl2[Len(sl) + 1].hi <= off /\ s.lo <= sl2[Len(sl) + 1].lo
    BY <1>1, <1>3, <1>5
  <2>3. sl2[Len(sl) + 1].lo <= sl2[Len(sl) + 1].hi
    BY <1>1
  <2> HIDE DEF pe
  <2>4. Downwards(sl2, s.lo, pe)
    BY <1>1, <1>5, <2>1, <2>2, <2>3, TakeDownwards
  <2> QED
    BY <2>4 DEF pe
<1>7. EndsAt(sl2, s.lo, <<>>)
  BY <1>1, NoVisits DEF EndsAt
<1> QED
  BY <1>6, <1>7 DEF Lower, sl2

(* An empty frame is in order, ...                                         *)
LEMMA NothingLower == Lower(<<>>, 0, <<>>)
<1> DEFINE sl == <<>>
<1>1. /\ sl \in Seq(Slot) /\ DOMAIN sl = {} /\ Len(sl) = 0 /\ \A v \in DOMAIN <<>> : FALSE
      /\ 1..0 = {}
  OBVIOUS
<1> HIDE DEF sl
<1>2. Above(sl, Len(sl), 0)
  BY <1>1 DEF Above
<1>3. Downwards(sl, 0, <<>>)
  BY <1>1, <1>2 DEF Downwards
<1>4. EndsAt(sl, 0, <<>>)
  <2>1. DepthAt(sl, <<>>, 0) = 0
    BY <1>1 DEF DepthAt
  <2> QED
    BY <2>1 DEF EndsAt
<1> QED
  BY <1>3, <1>4 DEF Lower, sl

(* ... and so is one with the first slot.                                  *)
LEMMA PutFirst ==
  ASSUME NEW s \in Slot, s.lo <= s.hi, s.hi <= 0
  PROVE  Lower(Append(<<>>, s), s.lo, <<>>)
<1> DEFINE sl == <<>>
           off == 0
<1>1. sl \in Seq(Slot) /\ off \in Int /\ s.hi <= off /\ Lower(sl, off, <<>>)
  BY NothingLower
<1> HIDE DEF sl, off
<1>2. Lower(Append(sl, s), s.lo, <<>>)
  BY <1>1, PutLower
<1> QED
  BY <1>2 DEF sl

(* What is left to be shown of a step in front of the body or between two  *)
(* statements.                                                             *)
LEMMA FlatRebuilt ==
  ASSUME TypeOK', curFunc' # NoFunc, pending' = <<>>,
         \A k \in DOMAIN slots' : slots'[k].lo < slots'[k].hi,
         Regular' => Lower(slots', offset', <<>>)
  PROVE  IInv'
<1>1. slots' \in Seq(Slot)
  BY DEF TypeOK
<1>2. VisitsRight(slots', offset', pending')
  BY <1>1, NoVisits
<1> QED
  BY <1>2 DEF IInv, Regular, Lower

(* The offset of a parameter in memory stays above the frame pointer.      *)
LEMMA NonNegative ==
  ASSUME NEW x \in Nat, NEW align \in Nat \ {0}
  PROVE  MakeAlign(x, align) \in Nat
<1>1. x % align \in 0..(align - 1)
  OBVIOUS
<1> QED
  BY <1>1 DEF MakeAlign

(* The save area or the pointer to a struct result is put first.           *)
LEMMA VisitFuncDefKeeps ==
  ASSUME IInv, NEW f \in Functions, VisitFuncDef(f)
  PROVE  IInv'
<1> DEFINE begin == IF f.variadic THEN -SaveArea ELSE 0
           ret == IF f.variadic THEN begin ELSE begin - 8
           saved == IF f.variadic THEN <<SlotAt(begin, SaveArea)>> ELSE <<>>
           low == IF Hidden(f) = 0 THEN begin ELSE IF f.variadic THEN begin + 8 ELSE ret
           h == Hidden(f)
<1>1. /\ curFunc = NoFunc /\ curFunc' = f
      /\ slots' = IF h = 0 THEN saved ELSE Append(saved, SlotAt(ret, 8))
      /\ offset' = low
      /\ prologue' = [prologue EXCEPT !.reg = low, !.xreg = low + 8 * NReg]
      /\ value' = NoStruct /\ call' = NoCall
      /\ UNCHANGED <<scopes, heap, pending>>
  BY DEF VisitFuncDef, Quiet
<1>2. pending = <<>> /\ heap = {} /\ f # NoFunc /\ f.variadic \in BOOLEAN /\ NReg \in Nat
  BY <1>1, FrameAssumption DEF IInv
<1>3. SaveArea \in Nat \ {0}
  BY FrameAssumption DEF SaveArea
<1>4. begin \in Int /\ ret \in Int /\ low \in Int /\ h \in {0, 1} /\ low + 8 * NReg \in Int
  BY <1>2, <1>3, HiddenTyped
<1>5. /\ SlotAt(begin, SaveArea) \in Slot /\ SlotAt(ret, 8) \in Slot
      /\ SlotAt(begin, SaveArea).lo = begin /\ SlotAt(begin, SaveArea).hi = begin + SaveArea
      /\ SlotAt(ret, 8).lo = ret /\ SlotAt(ret, 8).hi = ret + 8
  <2> HIDE DEF begin, ret
  <2> QED
    BY <1>3, <1>4, SlotAtTyped
<1>6. /\ slots' \in Seq(Slot)
      /\ \A k \in DOMAIN slots' : slots'[k].lo < slots'[k].hi
  <2> DEFINE s == SlotAt(begin, SaveArea)
             t == SlotAt(ret, 8)
  <2>1. s \in Slot /\ t \in Slot /\ s.lo < s.hi /\ t.lo < t.hi
    BY <1>3, <1>4, <1>5
  <2>2. saved = <<>> \/ saved = <<s>>
    OBVIOUS
  <2>3. slots' = saved \/ slots' = Append(saved, t)
    BY <1>1
  <2> HIDE DEF saved, s, t
  <2>4. saved \in Seq(Slot) /\ \A k \in DOMAIN saved : saved[k].lo < saved[k].hi
    <3>1. CASE saved = <<>>
      BY <3>1
    <3>2. CASE saved = <<s>>
      BY <2>1, <3>2
    <3> QED
      BY <2>2, <3>1, <3>2
  <2>5. CASE slots' = saved
    BY <2>4, <2>5
  <2>6. CASE slots' = Append(saved, t)
    <3>1. Append(saved, t) \in Seq(Slot)
      BY <2>1, <2>4, AppendProperties
    <3>2. \A k \in DOMAIN Append(saved, t) : Append(saved, t)[k].lo < Append(saved, t)[k].hi
      BY <2>1, <2>4, SeqSized
    <3> QED
      BY <2>6, <3>1, <3>2
  <2> QED
    BY <2>3, <2>5, <2>6
<1>7. prologue' \in [params : Seq(Int), mem : Nat, reg : Int, xreg : Int]
  <2> HIDE DEF low
  <2>1. prologue \in [params : Seq(Int), mem : Nat, reg : Int, xreg : Int]
    BY DEF IInv, TypeOK
  <2> QED
    BY <1>1, <1>4, <2>1
<1>8. TypeOK'
  <2> HIDE DEF low
  <2>1. DOMAIN <<>> = {}
    OBVIOUS
  <2> QED
    BY <1>1, <1>2, <1>4, <1>6, <1>7, <2>1 DEF IInv, TypeOK
<1>9. ASSUME Regular'
      PROVE  Lower(slots', offset', <<>>)
  <2>1. ~(f.variadic /\ h = 1)
    BY <1>1, <1>9 DEF Regular, SavedResult, Hidden
  <2>2. Lower(<<>>, 0, <<>>)
    BY NothingLower
  <2>3. CASE ~f.variadic /\ h = 0
    <3>1. slots' = <<>> /\ offset' = 0
      BY <1>1, <2>3
    <3> QED
      BY <2>2, <3>1
  <2>4. CASE f.variadic /\ h = 0
    <3> DEFINE s == SlotAt(begin, SaveArea)
    <3>1. slots' = Append(<<>>, s) /\ offset' = s.lo
      BY <1>1, <1>5, <2>4
    <3>2. s \in Slot /\ s.lo <= s.hi /\ s.hi <= 0
      BY <1>3, <1>4, <1>5, <2>4
    <3> HIDE DEF s
    <3> QED
      BY <3>1, <3>2, PutFirst
  <2>5. CASE ~f.variadic /\ h = 1
    <3> DEFINE s == SlotAt(ret, 8)
    <3>1. slots' = Append(<<>>, s) /\ offset' = s.lo
      BY <1>1, <1>5, <2>5
    <3>2. s \in Slot /\ s.lo <= s.hi /\ s.hi <= 0
      BY <1>4, <1>5, <2>5
    <3> HIDE DEF s
    <3> QED
      BY <3>1, <3>2, PutFirst
  <2> QED
    BY <1>2, <1>4, <2>1, <2>3, <2>4, <2>5
<1>10. curFunc' # NoFunc /\ pending' = <<>>
  BY <1>1, <1>2
<1> QED
  BY <1>6, <1>8, <1>9, <1>10, FlatRebuilt

(* Nothing is visited while parameters are stored or objects are allocated. *)
LEMMA StoringIdle ==
  ASSUME IInv, curFunc # NoFunc, NEW i \in DOMAIN curFunc.params, Storing(i)
  PROVE  /\ pending = <<>> /\ curFunc \in Functions /\ curFunc.params[i] \in Types
         /\ curFunc.params[i].width \in Nat \ {0}
<1>1. curFunc \in Functions
  BY DEF IInv, TypeOK
<1>2. curFunc.params \in Seq(Types)
  BY <1>1, FrameAssumption
<1>3. /\ DOMAIN curFunc.params = 1..Len(curFunc.params) /\ Len(curFunc.params) \in Nat
      /\ curFunc.params[i] \in Types
  BY <1>2, LenProperties, ElementOfSeq
<1>4. Len(prologue.params) # Len(curFunc.params)
  <2>1. prologue.params \in Seq(Int)
    BY DEF IInv, TypeOK
  <2>2. Len(prologue.params) \in Nat
    BY <2>1, LenProperties
  <2> QED
    BY <1>3, <2>2 DEF Storing
<1>5. ~InBody
  BY <1>4 DEF InBody
<1> QED
  BY <1>1, <1>3, <1>5, FrameAssumption DEF IInv

(* A parameter is stored, or found where the caller put it.                *)
LEMMA StoreParamKeeps ==
  ASSUME IInv, StoreParam
  PROVE  IInv'
<1>1. curFunc # NoFunc
  BY DEF StoreParam
<1>2. PICK i \in DOMAIN curFunc.params :
        StoreMemoryParam(i) \/ StoreSavedParam(i) \/ StorePushedParam(i)
  BY DEF StoreParam
<1>3. Storing(i)
  BY <1>2 DEF StoreMemoryParam, StoreSavedParam, StorePushedParam
<1>4. /\ pending = <<>> /\ curFunc \in Functions
      /\ curFunc.params[i].width \in Nat \ {0}
  BY <1>1, <1>3, StoringIdle
<1>5. prologue \in [params : Seq(Int), mem : Nat, reg : Int, xreg : Int]
  BY DEF IInv, TypeOK
<1>6. slots \in Seq(Slot) /\ offset \in Int
  BY FrameTyped
<1>7. Regular => Lower(slots, offset, <<>>)
  BY <1>4 DEF IInv, Regular, Lower
<1>8. /\ value' = NoStruct /\ call' = NoCall
      /\ UNCHANGED <<curFunc, scopes, heap, pending>>
  BY <1>2 DEF StoreMemoryParam, StoreSavedParam, StorePushedParam, Quiet
<1>9. Regular' <=> Regular
  BY <1>8 DEF Regular, SavedResult, Hidden
<1>10. ASSUME offset' \in Int, slots' \in Seq(Slot),
              prologue' \in [params : Seq(Int), mem : Nat, reg : Int, xreg : Int]
       PROVE  TypeOK'
  <2>1. \A k \in DOMAIN <<>> : FALSE
    OBVIOUS
  <2> QED
    BY <1>4, <1>8, <1>10, <2>1 DEF IInv, TypeOK
<1>11. CASE StoreMemoryParam(i)
  <2> DEFINE mem == MakeAlign(prologue.mem + curFunc.params[i].width, 8)
  <2>1. /\ prologue' = [prologue EXCEPT !.params = Append(@, prologue.mem), !.mem = mem]
        /\ UNCHANGED <<offset, slots>>
    BY <1>11 DEF StoreMemoryParam
  <2>2. mem \in Nat
    <3>1. prologue.mem + curFunc.params[i].width \in Nat
      BY <1>4, <1>5
    <3> QED
      BY <3>1, NonNegative
  <2>3. Append(prologue.params, prologue.mem) \in Seq(Int)
    BY <1>5, AppendProperties
  <2> HIDE DEF mem
  <2>4. prologue' \in [params : Seq(Int), mem : Nat, reg : Int, xreg : Int]
    BY <1>5, <2>1, <2>2, <2>3
  <2>5. TypeOK'
    BY <1>6, <1>10, <2>1, <2>4
  <2> QED
    BY <1>1, <1>4, <1>7, <1>8, <1>9, <2>1, <2>5, FlatRebuilt DEF IInv
<1>12. CASE StoreSavedParam(i)
  <2>1. /\ prologue' = IF curFunc.params[i].class = "SSE"
                       THEN [prologue EXCEPT !.params = Append(@, prologue.xreg), !.xreg = @ + 16]
                       ELSE [prologue EXCEPT !.params = Append(@, prologue.reg), !.reg = @ + 8]
        /\ UNCHANGED <<offset, slots>>
    BY <1>12 DEF StoreSavedParam
  <2>2. /\ Append(prologue.params, prologue.xreg) \in Seq(Int) /\ prologue.xreg + 16 \in Int
        /\ Append(prologue.params, prologue.reg) \in Seq(Int) /\ prologue.reg + 8 \in Int
    BY <1>5, AppendProperties
  <2>3. prologue' \in [params : Seq(Int), mem : Nat, reg : Int, xreg : Int]
    BY <1>5, <2>1, <2>2
  <2>4. TypeOK'
    BY <1>6, <1>10, <2>1, <2>3
  <2> QED
    BY <1>1, <1>4, <1>7, <1>8, <1>9, <2>1, <2>4, FlatRebuilt DEF IInv
<1>13. CASE StorePushedParam(i)
  <2> DEFINE s == SlotAt(offset - 8, 8)
  <2>1. /\ offset' = offset - 8 /\ slots' = Append(slots, s)
        /\ prologue' = [prologue EXCEPT !.params = Append(@, offset - 8)]
    BY <1>13 DEF StorePushedParam, Take
  <2>2. s \in Slot /\ s.lo = offset - 8 /\ s.hi = offset /\ offset - 8 \in Int
    <3>1. offset - 8 \in Int /\ offset - 8 + 8 = offset
      BY <1>6
    <3> QED
      BY <3>1, SlotAtTyped
  <2> HIDE DEF s
  <2>3. slots' \in Seq(Slot) /\ offset' \in Int
    BY <1>6, <2>1, <2>2, SameAppend
  <2>4. Append(prologue.params, offset - 8) \in Seq(Int)
    BY <1>5, <2>2, AppendProperties
  <2>5. prologue' \in [params : Seq(Int), mem : Nat, reg : Int, xreg : Int]
    BY <1>5, <2>1, <2>4
  <2>6. TypeOK'
    BY <1>10, <2>3, <2>5
  <2>7. s.lo < s.hi /\ s.lo <= s.hi /\ s.hi <= offset
    BY <1>6, <2>2
  <2>8. \A k \in DOMAIN slots' : slots'[k].lo < slots'[k].hi
    BY <2>1, <2>2, <2>7, SizedAppend
  <2>9. Regular => Lower(Append(slots, s), s.lo, <<>>)
    BY <1>6, <1>7, <2>2, <2>7, PutLower
  <2> QED
    BY <1>1, <1>4, <1>8, <1>9, <2>1, <2>2, <2>6, <2>8, <2>9, FlatRebuilt
<1> QED
  BY <1>2, <1>11, <1>12, <1>13

(* A scope brings its objects.                                             *)
LEMMA EnterScopeKeeps ==
  ASSUME IInv, NEW objects \in Scopes, EnterScope(objects)
  PROVE  IInv'
<1>1. /\ InBody /\ pending = <<>> /\ scopes < MaxScopes /\ scopes' = scopes + 1
      /\ heap' = objects /\ value' = NoStruct /\ call' = NoCall
      /\ UNCHANGED <<curFunc, prologue, offset, slots, pending>>
  BY DEF EnterScope, Quiet
<1>2. scopes' \in 0..MaxScopes
  BY <1>1, FrameAssumption DEF IInv, TypeOK
<1>3. TypeOK'
  <2>1. \E X \in Scopes \cup {{}} : heap' \subseteq X
    BY <1>1
  <2> QED
    BY <1>1, <1>2, <2>1 DEF IInv, TypeOK
<1>4. curFunc # NoFunc
  BY <1>1 DEF InBody
<1>5. Regular' <=> Regular
  BY <1>1 DEF Regular, SavedResult, Hidden
<1>6. Regular => Lower(slots, offset, <<>>)
  BY <1>1 DEF IInv, Regular, Lower
<1> QED
  BY <1>1, <1>3, <1>4, <1>5, <1>6, FlatRebuilt DEF IInv

(* An object is put below what is in use.                                  *)
LEMMA AllocObjectKeeps ==
  ASSUME IInv, NEW o \in heap, AllocObject(o)
  PROVE  IInv'
<1> DEFINE width == o.type.width
           align == IF o.type.class = "ARRAY" THEN Smaller(o.type.align, 8) ELSE o.type.align
           lo == MakeAlign(offset - width, align)
           s == SlotAt(lo, width)
<1>1. /\ heap' = heap \ {o} /\ offset' = lo /\ slots' = Append(slots, s)
      /\ value' = NoStruct /\ call' = NoCall
      /\ UNCHANGED <<curFunc, prologue, scopes, pending>>
  BY DEF AllocObject, Take, Quiet
<1>2. pending = <<>> /\ curFunc # NoFunc
  BY DEF IInv, InBody
<1>3. slots \in Seq(Slot) /\ offset \in Int
  BY FrameTyped
<1>4. o.type \in Types
  <2>1. PICK objects \in Scopes \cup {{}} : heap \subseteq objects
    BY DEF IInv, TypeOK
  <2>2. objects \in Scopes /\ o \in objects
    BY <2>1
  <2> QED
    BY <2>2, FrameAssumption
<1>5. width \in Nat \ {0} /\ align \in Nat \ {0}
  BY <1>4, FrameAssumption DEF Smaller
<1> HIDE DEF width, align
<1>6. lo \in Int /\ (offset <= 0 => lo + width <= offset)
  <2>1. offset - width \in Int
    BY <1>3, <1>5
  <2>2. /\ MakeAlign(offset - width, align) \in Int
        /\ offset - width <= 0 => MakeAlign(offset - width, align) <= offset - width
    BY <1>5, <2>1, MakeAlignDown
  <2>3. lo = MakeAlign(offset - width, align)
    OBVIOUS
  <2> HIDE DEF lo
  <2> QED
    BY <1>3, <1>5, <2>2, <2>3
<1> HIDE DEF lo
<1>7. s \in Slot /\ s.lo = lo /\ s.hi = lo + width
  BY <1>5, <1>6, SlotAtTyped
<1> HIDE DEF s
<1>8. s.lo < s.hi /\ s.lo <= s.hi /\ (offset <= 0 => s.hi <= offset)
  BY <1>3, <1>5, <1>6, <1>7
<1>9. slots' \in Seq(Slot) /\ offset' \in Int
  BY <1>1, <1>3, <1>6, <1>7, SameAppend
<1>10. TypeOK'
  <2>1. \A k \in DOMAIN <<>> : FALSE
    OBVIOUS
  <2>2. \E X \in Scopes \cup {{}} : heap' \subseteq X
    BY <1>1 DEF IInv, TypeOK
  <2> QED
    BY <1>1, <1>2, <1>9, <2>1, <2>2 DEF IInv, TypeOK
<1>11. \A k \in DOMAIN slots' : slots'[k].lo < slots'[k].hi
  BY <1>1, <1>7, <1>8, SizedAppend
<1>12. Regular' <=> Regular
  BY <1>1 DEF Regular, SavedResult, Hidden
<1>13. Regular => Lower(slots, offset, <<>>)
  BY <1>2 DEF IInv, Regular, Lower
<1>14. Regular => Lower(Append(slots, s), s.lo, <<>>)
  BY <1>3, <1>7, <1>8, <1>13, PutLower
<1> QED
  BY <1>1, <1>2, <1>7, <1>10, <1>11, <1>12, <1>14, FlatRebuilt

-----------------------------------------------------------------------------
(* In front of a function nothing is in use.                               *)
LEMMA InitHolds == Init => IInv
<1> SUFFICES ASSUME Init
             PROVE  IInv
  OBVIOUS
<1>1. TypeOK
  <2>1. \A k \in DOMAIN <<>> : FALSE
    OBVIOUS
  <2>2. <<>> \in Seq(Int) /\ <<>> \in Seq(Slot) /\ <<>> \in Seq(Visit) /\ Len(<<>>) = 0
    OBVIOUS
  <2>3. 0 \in 0..MaxScopes /\ 0 <= MaxNesting
    BY FrameAssumption
  <2>4. prologue \in [params : Seq(Int), mem : Nat, reg : Int, xreg : Int]
    BY <2>2 DEF Init
  <2> QED
    BY <2>1, <2>2, <2>3, <2>4 DEF Init, TypeOK
<1>2. VisitsRight(slots, offset, pending)
  BY <1>1, NoVisits DEF Init, TypeOK
<1>3. \A k \in DOMAIN slots : slots[k].lo < slots[k].hi
  BY DEF Init
<1> QED
  BY <1>1, <1>2, <1>3 DEF Init, IInv

(* A step of none of the variables.                                        *)
LEMMA StutterKeeps ==
  ASSUME IInv, UNCHANGED vars
  PROVE  IInv'
<1>1. TypeOK'
  BY DEF IInv, TypeOK, vars
<1>2. /\ curFunc' = NoFunc => slots' = <<>> /\ pending' = <<>> /\ heap' = {} /\ offset' = 0
      /\ pending' # <<>> => InBody'
      /\ \A k \in DOMAIN slots' : slots'[k].lo < slots'[k].hi
      /\ VisitsRight(slots', offset', pending')
  BY DEF IInv, vars, InBody
<1>3. /\ SavedResult(curFunc') <=> SavedResult(curFunc)
      /\ Downwards(slots', offset', pending') <=> Downwards(slots, offset, pending)
      /\ EndsAt(slots', offset', pending') <=> EndsAt(slots, offset, pending)
  BY DEF vars
<1> QED
  BY <1>1, <1>2, <1>3 DEF IInv, vars

(* Every step of the generator keeps the inductive invariant.              *)
LEMMA NextHolds == IInv /\ [Next]_vars => IInv'
<1> SUFFICES ASSUME IInv, [Next]_vars
             PROVE  IInv'
  OBVIOUS
<1>1. ASSUME NEW f \in Functions, VisitFuncDef(f)
      PROVE  IInv'
  BY <1>1, VisitFuncDefKeeps
<1>2. CASE StoreParam
  BY <1>2, StoreParamKeeps
<1>3. ASSUME NEW objects \in Scopes, EnterScope(objects)
      PROVE  IInv'
  BY <1>3, EnterScopeKeeps
<1>4. ASSUME NEW o \in heap, AllocObject(o)
      PROVE  IInv'
  BY <1>4, AllocObjectKeeps
<1>5. CASE Spill
  BY <1>5, SpillKeeps
<1>6. CASE Restore
  BY <1>6, RestoreKeeps
<1>7. ASSUME NEW c \in Calls, BeginCall(c)
      PROVE  IInv'
  BY <1>7, BeginCallKeeps
<1>8. ASSUME NEW i \in Top.left, PushArg(i)
      PROVE  IInv'
  BY <1>8, PushArgKeeps
<1>9. CASE LoadArgs
  BY <1>9, LoadArgsKeeps
<1>10. CASE Call
  BY <1>10, CallKeeps
<1>11. CASE UNCHANGED vars
  BY <1>11, StutterKeeps
<1> QED
  BY <1>1, <1>2, <1>3, <1>4, <1>5, <1>6, <1>7, <1>8, <1>9, <1>10, <1>11 DEF Next

\* Whatever the functions, the calls and the nesting of expressions: the visits lie one in
\* the other, arguments for registers lie without gaps, and slots are taken downwards.
THEOREM FrameInvariant == Spec => []IInv
BY InitHolds, NextHolds, PTL DEF Spec

\* The state of the generator has its types; no visit begins in slots that are not there.
THEOREM TypeCorrect == Spec => []TypeOK
<1>1. IInv => TypeOK
  BY DEF IInv
<1> QED
  BY <1>1, FrameInvariant, PTL

(* From Downwards: what lies above offset_ one below the other is disjoint. *)
LEMMA DisjointHolds == IInv => FrameDisjoint
<1> SUFFICES ASSUME IInv, Regular, NoShallow(pending), NEW k \in DOMAIN slots
             PROVE  /\ offset <= slots[k].lo /\ slots[k].hi <= 0
                    /\ \A j \in 1..(k - 1) : Disjoint(slots[j], slots[k])
  BY DEF FrameDisjoint, Regular, NoShallow
<1>1. /\ slots \in Seq(Slot) /\ DOMAIN slots = 1..Len(slots)
  BY FrameTyped
<1>2. Downwards(slots, offset, pending)
  BY DEF IInv, Regular
<1>3. Above(slots, k - 1, slots[k].hi)
  BY <1>2 DEF Downwards, NoShallow
<1>4. Above(slots, Len(slots), offset)
  BY <1>2 DEF Downwards, NoShallow
<1> QED
  BY <1>1, <1>3, <1>4 DEF Above, Disjoint

(* From VisitRight: the last slots are those that the pops expect.         *)
LEMMA PopsHold == IInv => PopsTakeTheirOwn
<1> SUFFICES ASSUME IInv, pending # <<>>
             PROVE  /\ Top.stage = "spilled" =>
                         Len(slots) = Top.depth + 1 /\ Last(slots).lo = offset
                    /\ Top.stage = "args" /\ Top.left = {} =>
                         \A i \in RegArgsOf(Top.call) :
                           /\ slots[Len(slots) - Rank(RegArgsOf(Top.call), i)].arg = i
                           /\ slots[Len(slots) - Rank(RegArgsOf(Top.call), i)].lo
                                = offset + 8 * Rank(RegArgsOf(Top.call), i)
  BY DEF PopsTakeTheirOwn, Rank
<1>1. /\ Top \in Visit /\ VisitRight(slots, Top, Len(slots), offset)
      /\ Len(slots) \in Nat
  BY TopTyped, FrameTyped
<1>2. Top.stage = "spilled" => Len(slots) = Top.depth + 1 /\ Last(slots).lo = offset
  BY <1>1 DEF VisitRight, Last
<1>3. ASSUME Top.stage = "args", Top.left = {}, NEW i \in RegArgsOf(Top.call)
      PROVE  LET r == Rank(RegArgsOf(Top.call), i)
             IN  slots[Len(slots) - r].arg = i /\ slots[Len(slots) - r].lo = offset + 8 * r
  <2> DEFINE R == RegArgsOf(Top.call)
             r == Rank(R, i)
  <2>1. Top.call \in Calls /\ ArgsRight(slots, Top, Len(slots), offset)
    BY <1>1, <1>3 DEF VisitRight
  <2>2. Pushed(Top) = R
    BY <1>3 DEF Pushed
  <2>3. r \in 0..(Cardinality(R) - 1)
    BY <1>1, <1>3, <2>1, <2>2, PushedFit
  <2>4. /\ \A m \in 0..(Cardinality(R) - 1) : slots[Len(slots) - m].lo = offset + 8 * m
        /\ slots[Len(slots) - r].arg = i
    BY <1>3, <2>1, <2>2 DEF ArgsRight, Pushed, Rank
  <2> QED
    BY <2>3, <2>4
<1> QED
  BY <1>2, <1>3

(* From EndsAt, while no visit is in progress.                             *)
LEMMA BalancedHolds == IInv => Balanced
<1> SUFFICES ASSUME IInv, Regular, pending = <<>>, slots # <<>>
             PROVE  Last(slots).lo = offset
  BY DEF Balanced, Regular
<1>1. slots \in Seq(Slot) /\ EndsAt(slots, offset, <<>>)
  BY FrameTyped DEF IInv, Regular
<1>2. Len(slots) > 0
  BY <1>1, EmptySeq, LenProperties
<1> QED
  BY <1>1, <1>2, NoVisits DEF EndsAt, Last

\* Objects, temporaries, arguments and results that VisitFuncDef(), AllocObjects(), Push()
\* and VisitFuncCall() place in one frame never overlap while they are in use.
THEOREM FrameDisjointAlways == Spec => []FrameDisjoint
BY FrameInvariant, DisjointHolds, PTL

\* Restore() takes what its Spill() pushed, and VisitFuncCall() pops for each register the
\* argument that GetParamLocations() gave to it, whatever was called in between.
THEOREM PopsTakeTheirOwnAlways == Spec => []PopsTakeTheirOwn
BY FrameInvariant, PopsHold, PTL

\* VisitBinaryOp(), VisitAssignment() and VisitFuncCall() leave offset_ as they found it.
THEOREM BalancedAlways == Spec => []Balanced
BY FrameInvariant, BalancedHolds, PTL

-----------------------------------------------------------------------------
\* The inductive invariant of PlainCallAligned.  As many pushes as there are arguments on the stack
\* bring offset_ onto 16 bytes, and no push for a register leaves the frame.
Pushes(visit) == Cardinality(DOMAIN visit.call.args \ visit.left) - ByMemCnt(visit.call)

VisitFits(visit, off) ==
  /\ off <= 0
  /\ visit.stage = "args" =>
       /\ off + 8 * Cardinality(RegArgsOf(visit.call) \ visit.left) <= 0
       /\ PlainCall(visit.call) => (off + 8 * Pushes(visit)) % 16 = 0
  /\ visit.stage = "designator" => (PlainCall(visit.call) => off % 16 = 0)

VisitsFit(off, pe) ==
  /\ OffsetAt(off, pe, 0) <= 0
  /\ \A v \in DOMAIN pe :
       (\A u \in 1..v : ~Shallow(pe[u])) => VisitFits(pe[v], OffsetAt(off, pe, v))

AlignedInv == VisitsFit(offset, pending) /\ PlainCallAligned

(* Multiples of 16.                                                        *)
LEMMA Sixteens ==
  ASSUME NEW x \in Int
  PROVE  x % 16 = 0 <=> \E q \in Int : x = 16 * q
<1>1. ASSUME x % 16 = 0
      PROVE  x = 16 * (x \div 16) /\ x \div 16 \in Int
  BY <1>1
<1>2. ASSUME NEW q \in Int, x = 16 * q
      PROVE  x % 16 = 0
  BY <1>2
<1> QED
  BY <1>1, <1>2

(* MakeAlign() gives a multiple of the alignment.                          *)
LEMMA FrameAligned ==
  ASSUME NEW low \in Int, NEW n \in Int
  PROVE  (AlignFrame(low, n) + 8 * (0 - n)) % 16 = 0
<1> DEFINE x == low - n * 8
           y == MakeAlign(x, 16)
<1>1. x \in Int
  OBVIOUS
<1>2. y \in Int /\ y % 16 = 0
  <2> HIDE DEF x
  <2> QED
    BY <1>1 DEF MakeAlign
<1>3. AlignFrame(low, n) = y + n * 8
  BY DEF AlignFrame
<1> HIDE DEF y
<1>4. AlignFrame(low, n) + 8 * (0 - n) = y
  BY <1>2, <1>3
<1> QED
  BY <1>2, <1>4

(* An argument of at most eight bytes is pushed eight below.               *)
LEMMA PushedEight ==
  ASSUME NEW off \in Int, off % 8 = 0, off <= 0, NEW width \in 1..8
  PROVE  MakeAlign(off - width, 8) = off - 8
<1>1. PICK q \in Int : off = 8 * q
  BY off = 8 * (off \div 8)
<1>2. CASE width = 8
  <2>1. (off - width) % 8 = 0 /\ off - width = off - 8
    BY <1>1, <1>2
  <2> QED
    BY <2>1 DEF MakeAlign
<1>3. CASE width # 8
  <2> DEFINE x == off - width
  <2>1. x \in Int /\ x = 8 * (q - 1) + (8 - width) /\ 8 - width \in 1..7
    BY <1>1, <1>3
  <2>2. x % 8 = 8 - width
    BY <2>1
  <2>3. x < 0
    BY <1>1
  <2> QED
    BY <2>2 DEF MakeAlign
<1> QED
  BY <1>2, <1>3

(* A visit and the next.                                                   *)
LEMMA NextInside ==
  ASSUME NEW n \in Nat, NEW v \in 0..n
  PROVE  v # n + 1 /\ (v # n => v + 1 \in 1..n)
OBVIOUS

(* While arguments are pushed, offset_ is a multiple of eight.             *)
LEMMA PushesTyped ==
  ASSUME NEW c \in Calls, NEW visit, visit.call = c
  PROVE  /\ Pushes(visit) \in Int
         /\ IsFiniteSet(DOMAIN c.args \ visit.left)
         /\ \A x \in Int : (x + 8 * Pushes(visit)) % 16 = 0 => x % 8 = 0
<1>1. IsFiniteSet(DOMAIN c.args \ visit.left) /\ ByMemCnt(c) \in Int
  BY RegistersOfCall, FS_Subset
<1>2. Cardinality(DOMAIN c.args \ visit.left) \in Nat
  BY <1>1, FS_CardinalityType
<1>3. Pushes(visit) \in Int
  BY <1>1, <1>2 DEF Pushes
<1> DEFINE m == Pushes(visit)
<1> HIDE DEF m
<1>4. ASSUME NEW x \in Int, (x + 8 * m) % 16 = 0
      PROVE  x % 8 = 0
  <2>1. m \in Int /\ x + 8 * m \in Int
    BY <1>3 DEF m
  <2>2. PICK q \in Int : x + 8 * m = 16 * q
    BY <1>4, <2>1, Sixteens
  <2>3. x = 8 * (2 * q - m) /\ 2 * q - m \in Int
    BY <2>1, <2>2
  <2> QED
    BY <2>3
<1> QED
  BY <1>1, <1>3, <1>4 DEF m

(* At the end of visits of which none is Shallow, offset_ is in the frame.  *)
LEMMA EndFits ==
  ASSUME NEW pe \in Seq(Visit), NEW off, VisitsFit(off, pe), NoShallow(pe)
  PROVE  off <= 0
<1> DEFINE n == Len(pe)
<1>1. n \in Nat /\ DOMAIN pe = 1..n
  BY LenProperties
<1>2. CASE n = 0
  BY <1>2 DEF VisitsFit, OffsetAt
<1>3. CASE n # 0
  <2>1. n \in DOMAIN pe /\ \A u \in 1..n : ~Shallow(pe[u])
    BY <1>1, <1>3 DEF NoShallow
  <2>2. VisitFits(pe[n], OffsetAt(off, pe, n))
    BY <2>1 DEF VisitsFit
  <2> QED
    BY <2>2 DEF VisitFits, OffsetAt
<1> QED
  BY <1>2, <1>3

(* VisitFuncCall() and Spill() begin a visit at the end of the others.     *)
LEMMA BeginFits ==
  ASSUME NEW pe \in Seq(Visit), NEW visit \in Visit, NEW off, NEW off2,
         VisitsFit(off, pe), visit.base = off,
         ~Shallow(visit) /\ off <= 0 => VisitFits(visit, off2)
  PROVE  VisitsFit(off2, Append(pe, visit))
<1> DEFINE pe2 == Append(pe, visit)
           n == Len(pe)
<1>1. /\ n \in Nat /\ DOMAIN pe = 1..n /\ pe2 \in Seq(Visit) /\ Len(pe2) = n + 1
      /\ pe2[n + 1] = visit /\ n = Len(pe) /\ \A v \in 1..n : pe2[v] = pe[v]
  BY AppendProperties, LenProperties
<1> HIDE DEF pe2, n
<1>2. DOMAIN pe2 = 1..(n + 1)
  BY <1>1, LenProperties
<1>3. ASSUME NEW v \in 0..n
      PROVE  OffsetAt(off2, pe2, v) = OffsetAt(off, pe, v)
  <2>1. v # n + 1 /\ (v # n => v + 1 \in 1..n)
    BY <1>1, NextInside
  <2>2. CASE v = n
    BY <1>1, <2>1, <2>2 DEF OffsetAt
  <2>3. CASE v # n
    BY <1>1, <2>1, <2>3 DEF OffsetAt
  <2> QED
    BY <2>2, <2>3
<1>4. ASSUME NEW v \in DOMAIN pe2, \A u \in 1..v : ~Shallow(pe2[u])
      PROVE  VisitFits(pe2[v], OffsetAt(off2, pe2, v))
  <2>1. CASE v = n + 1
    <3>1. \A u \in 1..n : u \in 1..v
      BY <1>1, <2>1
    <3>2. NoShallow(pe)
      BY <1>1, <1>4, <3>1 DEF NoShallow
    <3>3. n + 1 \in 1..v
      BY <1>1, <2>1
    <3>4. ~Shallow(visit)
      BY <1>1, <1>4, <3>3
    <3> QED
      BY <1>1, <2>1, <3>2, <3>4, EndFits DEF OffsetAt
  <2>2. CASE v # n + 1
    <3>1. v \in 1..n /\ v \in 0..n /\ \A u \in 1..v : u \in 1..n
      BY <1>1, <1>2, <2>2
    <3>2. pe2[v] = pe[v] /\ \A u \in 1..v : ~Shallow(pe[u])
      BY <1>1, <1>4, <3>1
    <3> QED
      BY <1>1, <1>3, <3>1, <3>2 DEF VisitsFit
  <2> QED
    BY <2>1, <2>2
<1>5. OffsetAt(off2, pe2, 0) <= 0
  BY <1>1, <1>3 DEF VisitsFit
<1> QED
  BY <1>4, <1>5 DEF VisitsFit, pe2

(* The last visit goes on.                                                 *)
LEMMA TopFits ==
  ASSUME NEW pe \in Seq(Visit), pe # <<>>, NEW visit \in Visit, NEW off, NEW off2,
         VisitsFit(off, pe), visit.base = Last(pe).base,
         Shallow(visit) <=> Shallow(Last(pe)),
         VisitFits(Last(pe), off) => VisitFits(visit, off2)
  PROVE  VisitsFit(off2, [pe EXCEPT ![Len(pe)] = visit])
<1> DEFINE n == Len(pe)
           pe2 == [pe EXCEPT ![n] = visit]
<1>1. /\ n \in Nat \ {0} /\ n \in 1..n /\ DOMAIN pe = 1..n /\ Last(pe) = pe[n]
      /\ n = Len(pe)
  BY EmptySeq, LenProperties DEF Last
<1>2. /\ pe2 \in Seq(Visit) /\ Len(pe2) = n
      /\ \A j \in 1..n : pe2[j] = IF j = n THEN visit ELSE pe[j]
  BY <1>1, ExceptSeq
<1>3. pe2 = [pe EXCEPT ![Len(pe)] = visit]
  BY <1>1
<1> HIDE DEF pe2, n
<1>4. DOMAIN pe2 = 1..n
  BY <1>2, LenProperties
<1>5. \A u \in 1..n : (Shallow(pe2[u]) <=> Shallow(pe[u])) /\ pe2[u].base = pe[u].base
  BY <1>1, <1>2
<1>6. ASSUME NEW v \in 0..n, v # n
      PROVE  OffsetAt(off2, pe2, v) = OffsetAt(off, pe, v)
  <2>1. v + 1 \in 1..n
    BY <1>1, <1>6, NextInside
  <2> QED
    BY <1>1, <1>2, <1>5, <1>6, <2>1 DEF OffsetAt
<1>7. ASSUME NEW v \in DOMAIN pe2, \A u \in 1..v : ~Shallow(pe2[u])
      PROVE  VisitFits(pe2[v], OffsetAt(off2, pe2, v))
  <2>1. v \in 1..n /\ v \in 0..n /\ \A u \in 1..v : u \in 1..n
    BY <1>1, <1>4
  <2>2. VisitFits(pe[v], OffsetAt(off, pe, v))
    BY <1>1, <1>5, <1>7, <2>1 DEF VisitsFit
  <2>3. CASE v = n
    BY <1>1, <1>2, <2>2, <2>3 DEF OffsetAt
  <2>4. CASE v # n
    BY <1>2, <1>6, <2>1, <2>2, <2>4
  <2> QED
    BY <2>3, <2>4
<1>8. OffsetAt(off2, pe2, 0) <= 0
  <2>1. 0 \in 0..n /\ 0 # n
    BY <1>1
  <2> QED
    BY <1>6, <2>1 DEF VisitsFit
<1> QED
  BY <1>3, <1>7, <1>8 DEF VisitsFit

(* The last visit is done, and offset_ is where it was in front of it.     *)
LEMMA ReturnFits ==
  ASSUME NEW pe \in Seq(Visit), pe # <<>>, NEW off, VisitsFit(off, pe)
  PROVE  VisitsFit(Last(pe).base, Front(pe))
<1> DEFINE n == Len(pe)
           m == n - 1
           pe2 == Front(pe)
<1>1. /\ n \in Nat \ {0} /\ DOMAIN pe = 1..n /\ Last(pe) = pe[n]
      /\ n = Len(pe) /\ m = n - 1 /\ pe2 = SubSeq(pe, 1, m)
  BY EmptySeq, LenProperties DEF Last, Front
<1> HIDE DEF m, n, pe2
<1>2. m \in Nat /\ n = m + 1 /\ \A v \in 1..m : pe[v] \in Visit
  BY <1>1, ElementOfSeq
<1>3. pe2 \in Seq(Visit) /\ Len(pe2) = m /\ \A v \in 1..m : pe2[v] = pe[v]
  <2>1. /\ SubSeq(pe, 1, m) \in Seq(Visit)
        /\ Len(SubSeq(pe, 1, m)) = IF 1 <= m THEN m - 1 + 1 ELSE 0
        /\ \A v \in 1..(m - 1 + 1) : SubSeq(pe, 1, m)[v] = pe[1 + v - 1]
    BY <1>2, SubSeqProperties
  <2>2. \A v \in 1..m : 1 + v - 1 = v /\ v \in 1..(m - 1 + 1)
    BY <1>2
  <2>3. m = IF 1 <= m THEN m - 1 + 1 ELSE 0
    BY <1>2
  <2> QED
    BY <1>1, <2>1, <2>2, <2>3
<1>4. DOMAIN pe2 = 1..m
  BY <1>3, LenProperties
<1>5. ASSUME NEW v \in 0..m
      PROVE  OffsetAt(Last(pe).base, pe2, v) = OffsetAt(off, pe, v)
  <2>1. v # n
    BY <1>2
  <2>2. CASE v = m
    BY <1>1, <1>2, <1>3, <2>1, <2>2 DEF OffsetAt
  <2>3. CASE v # m
    <3>1. v + 1 \in 1..m
      BY <1>2, <2>3
    <3> QED
      BY <1>1, <1>3, <2>1, <2>3, <3>1 DEF OffsetAt
  <2> QED
    BY <2>2, <2>3
<1>6. ASSUME NEW v \in DOMAIN pe2, \A u \in 1..v : ~Shallow(pe2[u])
      PROVE  VisitFits(pe2[v], OffsetAt(Last(pe).base, pe2, v))
  <2>1. v \in 0..m /\ v \in 1..n /\ pe2[v] = pe[v] /\ \A u \in 1..v : u \in 1..m
    BY <1>2, <1>3, <1>4
  <2>2. \A u \in 1..v : ~Shallow(pe[u])
    BY <1>3, <1>6, <2>1
  <2> QED
    BY <1>1, <1>5, <2>1, <2>2 DEF VisitsFit
<1>7. OffsetAt(Last(pe).base, pe2, 0) <= 0
  <2>1. 0 \in 0..m
    BY <1>2
  <2> QED
    BY <1>5, <2>1 DEF VisitsFit
<1> QED
  BY <1>6, <1>7 DEF VisitsFit, pe2

(* In front of the visits only offset_ counts.                             *)
LEMMA NothingFits ==
  ASSUME NEW off, off <= 0
  PROVE  VisitsFit(off, <<>>)
<1>1. DOMAIN <<>> = {} /\ Len(<<>>) = 0
  OBVIOUS
<1> QED
  BY <1>1 DEF VisitsFit, OffsetAt

(* Eight bytes are pushed for an operand.                                  *)
LEMMA SpillFits ==
  ASSUME IInv, VisitsFit(offset, pending), Spill
  PROVE  VisitsFit(offset', pending') /\ call' = NoCall
<1> DEFINE visit == [stage |-> "spilled", base |-> offset, depth |-> Len(slots),
                     call |-> NoCall, left |-> {}, result |-> 0]
<1>1. /\ pending' = Append(pending, visit) /\ offset' = offset - 8 /\ call' = NoCall
  BY DEF Spill, Begin, Take, Quiet
<1>2. offset \in Int /\ pending \in Seq(Visit) /\ Len(slots) \in Nat
  BY FrameTyped
<1>3. visit \in Visit /\ visit.base = offset /\ visit.stage = "spilled"
  BY <1>2 DEF Visit
<1> HIDE DEF visit
<1>4. offset <= 0 => VisitFits(visit, offset - 8)
  BY <1>2, <1>3 DEF VisitFits
<1> QED
  BY <1>1, <1>2, <1>3, <1>4, BeginFits

(* The frame is aligned for a call.                                        *)
LEMMA BeginCallFits ==
  ASSUME IInv, VisitsFit(offset, pending), NEW c \in Calls, BeginCall(c)
  PROVE  VisitsFit(offset', pending') /\ call' = NoCall
<1> DEFINE ret == RetStructOffset(c)
           n == ByMemCnt(c)
           visit == [stage |-> "args", base |-> offset, depth |-> Len(slots),
                     call |-> c, left |-> DOMAIN c.args, result |-> ret]
           h == Hidden(c.callee)
<1>1. /\ pending' = Append(pending, visit) /\ offset' = AlignFrame(ret, n)
      /\ call' = NoCall
  BY DEF BeginCall, EnterCall, Begin, Quiet
<1>2. offset \in Int /\ pending \in Seq(Visit) /\ Len(slots) \in Nat
  BY FrameTyped
<1>3. c.callee.ret.width \in Nat \ {0} /\ c.callee.ret.align \in Nat \ {0}
  BY FrameAssumption
<1>4. ret \in Int /\ (h = 0 => ret = offset)
  <2>1. h = 0 => ret = offset
    BY DEF RetStructOffset
  <2>2. h # 0 => ret = MakeAlign(offset - c.callee.ret.width, c.callee.ret.align)
    BY DEF RetStructOffset
  <2>3. offset - c.callee.ret.width \in Int
    BY <1>2, <1>3
  <2>4. MakeAlign(offset - c.callee.ret.width, c.callee.ret.align) \in Int
    BY <1>3, <2>3, MakeAlignDown
  <2> HIDE DEF ret, h
  <2> QED
    BY <1>2, <2>1, <2>2, <2>4
<1>5. h \in {0, 1} /\ n \in Int /\ n >= -h /\ DOMAIN c.args \subseteq Nat
  BY HiddenTyped, RegistersOfCall
<1>6. visit \in Visit /\ visit.base = offset /\ visit.stage = "args"
      /\ visit.call = c /\ visit.left = DOMAIN c.args /\ visit.result = ret
  BY <1>2, <1>4, <1>5 DEF Visit
<1>7. h = 1 => (Shallow(visit) <=> ret > -8)
  BY <1>6, FrameAssumption DEF Shallow
<1>8. offset' \in Int /\ (ret <= 8 * n => offset' <= ret)
  BY <1>1, <1>4, <1>5, AlignFrameDown
<1>9. (offset' + 8 * (0 - n)) % 16 = 0
  BY <1>1, <1>4, <1>5, FrameAligned
<1> HIDE DEF visit, ret, n, h
<1>10. ASSUME ~Shallow(visit) /\ offset <= 0
       PROVE  VisitFits(visit, offset')
  <2>1. RegArgsOf(c) \ DOMAIN c.args = {} /\ DOMAIN c.args \ DOMAIN c.args = {}
    BY RegistersOfCall
  <2>2. Cardinality({}) = 0
    BY FS_EmptySet
  <2>3. offset' <= 0
    <3>1. CASE h = 0
      BY <1>2, <1>4, <1>5, <1>8, <1>10, <3>1
    <3>2. CASE h = 1
      BY <1>4, <1>5, <1>7, <1>8, <1>10, <3>2
    <3> QED
      BY <1>5, <3>1, <3>2
  <2>4. Pushes(visit) = 0 - n
    BY <1>6, <2>1, <2>2 DEF Pushes, n
  <2>5. Cardinality(RegArgsOf(visit.call) \ visit.left) = 0 /\ "args" # "designator"
    BY <1>6, <2>1, <2>2
  <2>6. \A x \in Int : \A k : k = 0 /\ x <= 0 => x + 8 * k <= 0
    OBVIOUS
  <2>7. offset' + 8 * Cardinality(RegArgsOf(visit.call) \ visit.left) <= 0
    BY <1>8, <2>3, <2>5, <2>6
  <2> QED
    BY <1>6, <1>9, <2>3, <2>4, <2>5, <2>7 DEF VisitFits
<1> QED
  BY <1>1, <1>2, <1>6, <1>10, BeginFits

(* An argument is pushed, and as many are still to be pushed less one.     *)
LEMMA PushArgFits ==
  ASSUME IInv, VisitsFit(offset, pending), NEW i \in Top.left, PushArg(i)
  PROVE  VisitsFit(offset', pending') /\ call' = NoCall
<1> DEFINE c == Top.call
           type == c.args[i]
           width == IF type.class = "MEMORY" THEN type.width ELSE 8
           lo == IF type.class = "MEMORY" THEN MakeAlign(offset - width, 8) ELSE offset - 8
           visit == [Top EXCEPT !.left = @ \ {i}]
           R == RegArgsOf(c)
<1>1. /\ pending # <<>> /\ Top.stage = "args" /\ offset' = lo
      /\ pending' = [pending EXCEPT ![Len(pending)].left = @ \ {i}] /\ call' = NoCall
  BY DEF PushArg, Quiet
<1>2. offset \in Int /\ pending \in Seq(Visit) /\ DOMAIN pending = 1..Len(pending)
  BY FrameTyped
<1>3. /\ Len(pending) \in Nat \ {0} /\ Top = pending[Len(pending)] /\ Top = Last(pending)
      /\ Top \in Visit /\ VisitRight(slots, Top, Len(slots), offset)
  BY <1>1, TopTyped DEF Top
<1>4. c \in Calls /\ Top.left \subseteq DOMAIN c.args
  BY <1>1, <1>3 DEF VisitRight
<1>5. type \in Types
  <2>1. c.args \in Seq(Types) /\ i \in DOMAIN c.args
    BY <1>4, FrameAssumption
  <2> HIDE DEF c
  <2>2. DOMAIN c.args = 1..Len(c.args) /\ Len(c.args) \in Nat
    BY <2>1, LenProperties
  <2> QED
    BY <2>1, <2>2, ElementOfSeq
<1>6. type.width \in Nat \ {0} /\ width \in Nat \ {0}
  BY <1>5, FrameAssumption
<1>7. lo \in Int /\ (offset <= 0 => lo <= offset)
  <2>1. CASE type.class = "MEMORY"
    <3> HIDE DEF width
    <3>1. offset - width \in Int
      BY <1>2, <1>6
    <3>2. /\ MakeAlign(offset - width, 8) \in Int
          /\ offset - width <= 0 => MakeAlign(offset - width, 8) <= offset - width
      BY <3>1, MakeAlignDown
    <3>3. lo = MakeAlign(offset - width, 8)
      BY <2>1
    <3> HIDE DEF lo
    <3> QED
      BY <1>2, <1>6, <3>2, <3>3
  <2>2. CASE type.class # "MEMORY"
    BY <1>2, <2>2
  <2> QED
    BY <2>1, <2>2
<1>8. i \in R => lo = offset - 8
  BY <1>2 DEF RegArgsOf, RegArgs, InRegister
<1>9. PlainCall(c) /\ offset <= 0 /\ offset % 8 = 0 => lo = offset - 8
  <2> SUFFICES ASSUME PlainCall(c), offset <= 0, offset % 8 = 0, type.class = "MEMORY"
               PROVE  lo = offset - 8
    OBVIOUS
  <2>1. i \in MemArgsOf(c)
    <3>1. i \notin RegArgsOf(c)
      BY DEF RegArgsOf, RegArgs, InRegister
    <3> QED
      BY <1>4, <3>1, RegistersOfCall
  <2>2. type.width <= 8
    BY <2>1 DEF PlainCall
  <2>3. type.width \in 1..8
    BY <1>6, <2>2
  <2> QED
    BY <1>2, <2>3, PushedEight
<1>10. /\ visit \in Visit /\ visit.base = Top.base /\ visit.call = c /\ visit.stage = "args"
       /\ visit.left = Top.left \ {i} /\ (Shallow(visit) <=> Shallow(Top))
  BY <1>1, <1>3 DEF Visit, Shallow
<1>11. pending' = [pending EXCEPT ![Len(pending)] = visit]
  BY <1>1, <1>2, <1>3
<1>12. /\ i \in R => Cardinality(R \ visit.left) = Cardinality(R \ Top.left) + 1
       /\ i \notin R => R \ visit.left = R \ Top.left
       /\ Cardinality(R \ Top.left) \in Nat
  <2>1. IsFiniteSet(R \ Top.left) /\ R \subseteq DOMAIN c.args
    BY <1>4, RegistersOfCall, FS_Subset
  <2>2. i \in R => R \ visit.left = (R \ Top.left) \cup {i}
    BY <1>10
  <2>3. i \notin R \ Top.left
    OBVIOUS
  <2>4. i \in R => Cardinality(R \ visit.left) = Cardinality(R \ Top.left) + 1
    BY <2>1, <2>2, <2>3, AddOne
  <2> QED
    BY <1>10, <2>1, <2>4, FS_CardinalityType
<1>13. Pushes(visit) = Pushes(Top) + 1 /\ Pushes(Top) \in Int
  <2>1. IsFiniteSet(DOMAIN c.args \ Top.left) /\ Pushes(Top) \in Int
    BY <1>4, PushesTyped
  <2>2. DOMAIN c.args \ visit.left = (DOMAIN c.args \ Top.left) \cup {i}
    BY <1>4, <1>10
  <2>3. i \notin DOMAIN c.args \ Top.left
    OBVIOUS
  <2>4. Cardinality(DOMAIN c.args \ visit.left) = Cardinality(DOMAIN c.args \ Top.left) + 1
    BY <2>1, <2>2, <2>3, AddOne
  <2>5. Cardinality(DOMAIN c.args \ Top.left) \in Nat /\ ByMemCnt(c) \in Int
    BY <1>4, <2>1, FS_CardinalityType, RegistersOfCall
  <2> QED
    BY <1>10, <2>1, <2>4, <2>5 DEF Pushes
<1>14. PlainCall(c) /\ (offset + 8 * Pushes(Top)) % 16 = 0 => offset % 8 = 0
  BY <1>2, <1>4, PushesTyped
<1>15. lo = offset - 8 => lo + 8 * (Pushes(Top) + 1) = offset + 8 * Pushes(Top)
  <2> HIDE DEF lo
  <2> QED
    BY <1>2, <1>13
<1> HIDE DEF visit, lo, R
<1>16. ASSUME VisitFits(Top, offset)
       PROVE  VisitFits(visit, lo)
  <2>1. offset <= 0 /\ lo <= 0
    BY <1>2, <1>7, <1>16 DEF VisitFits
  <2>2. lo + 8 * Cardinality(R \ visit.left) <= 0
    <3>1. offset + 8 * Cardinality(R \ Top.left) <= 0
      BY <1>1, <1>16 DEF VisitFits, R
    <3>2. CASE i \in R
      <4> DEFINE k == Cardinality(R \ Top.left)
      <4>1. k \in Nat /\ Cardinality(R \ visit.left) = k + 1 /\ offset + 8 * k <= 0
        BY <1>12, <3>1, <3>2
      <4> HIDE DEF k
      <4> QED
        BY <1>2, <1>8, <3>2, <4>1
    <3>3. CASE i \notin R
      <4> DEFINE k == Cardinality(R \ Top.left)
      <4>1. k \in Nat /\ Cardinality(R \ visit.left) = k /\ offset + 8 * k <= 0
        BY <1>12, <3>1, <3>3
      <4> HIDE DEF k
      <4> QED
        BY <1>2, <1>7, <2>1, <4>1
    <3> QED
      BY <3>2, <3>3
  <2>3. PlainCall(c) => (lo + 8 * Pushes(visit)) % 16 = 0
    <3>1. PlainCall(c) => (offset + 8 * Pushes(Top)) % 16 = 0
      BY <1>1, <1>16 DEF VisitFits
    <3> QED
      BY <1>9, <1>13, <1>14, <1>15, <2>1, <3>1
  <2>4. "args" # "designator"
    OBVIOUS
  <2> QED
    BY <1>10, <2>1, <2>2, <2>3, <2>4 DEF VisitFits, R
<1>17. /\ visit.base = Last(pending).base /\ (Shallow(visit) <=> Shallow(Last(pending)))
       /\ VisitFits(Last(pending), offset) => VisitFits(visit, lo)
  BY <1>3, <1>10, <1>16
<1>18. VisitsFit(offset', [pending EXCEPT ![Len(pending)] = visit])
  <2> DEFINE off2 == offset'
  <2>1. VisitFits(Last(pending), offset) => VisitFits(visit, off2)
    BY <1>1, <1>17
  <2> HIDE DEF off2
  <2>2. VisitsFit(off2, [pending EXCEPT ![Len(pending)] = visit])
    BY <1>1, <1>2, <1>10, <1>17, <2>1, TopFits
  <2> QED
    BY <2>2 DEF off2
<1> QED
  BY <1>1, <1>11, <1>18

(* The arguments for registers are popped: the others are left.            *)
LEMMA LoadArgsFits ==
  ASSUME IInv, VisitsFit(offset, pending), LoadArgs
  PROVE  VisitsFit(offset', pending') /\ call' = NoCall
<1> DEFINE c == Top.call
           n == Cardinality(RegArgsOf(c))
           visit == [Top EXCEPT !.stage = "designator"]
<1>1. /\ pending # <<>> /\ Top.stage = "args" /\ Top.left = {} /\ offset' = offset + 8 * n
      /\ pending' = [pending EXCEPT ![Len(pending)].stage = "designator"] /\ call' = NoCall
  BY DEF LoadArgs, Quiet
<1>2. offset \in Int /\ pending \in Seq(Visit) /\ DOMAIN pending = 1..Len(pending)
  BY FrameTyped
<1>3. /\ Len(pending) \in Nat \ {0} /\ Top = pending[Len(pending)] /\ Top = Last(pending)
      /\ Top \in Visit /\ VisitRight(slots, Top, Len(slots), offset)
  BY <1>1, TopTyped DEF Top
<1>4. c \in Calls
  BY <1>1, <1>3 DEF VisitRight
<1>5. /\ visit \in Visit /\ visit.base = Top.base /\ visit.call = c
      /\ visit.stage = "designator" /\ (Shallow(visit) <=> Shallow(Top))
  BY <1>1, <1>3 DEF Visit, Shallow
<1>6. pending' = [pending EXCEPT ![Len(pending)] = visit]
  BY <1>1, <1>2, <1>3
<1>7. n \in Nat /\ RegArgsOf(c) \ Top.left = RegArgsOf(c)
      /\ (Hidden(c.callee) = 0 => Pushes(Top) = n)
  <2>1. /\ IsFiniteSet(RegArgsOf(c)) /\ Len(c.args) \in Nat /\ DOMAIN c.args = 1..Len(c.args)
    BY <1>4, RegistersOfCall
  <2>2. n \in Nat /\ DOMAIN c.args \ Top.left = 1..Len(c.args)
    BY <1>1, <2>1, FS_CardinalityType
  <2>3. Cardinality(1..Len(c.args)) = Len(c.args)
    BY <2>1, FS_Interval
  <2>4. Hidden(c.callee) = 0 => Pushes(Top) = Len(c.args) - (Len(c.args) - (0 + n))
    BY <2>2, <2>3 DEF Pushes, ByMemCnt
  <2> HIDE DEF n
  <2> QED
    BY <1>1, <2>1, <2>2, <2>4
<1> HIDE DEF visit, n
<1>8. ASSUME VisitFits(Top, offset)
      PROVE  VisitFits(visit, offset')
  <2>1. offset' <= 0
    BY <1>1, <1>7, <1>8 DEF VisitFits, n
  <2>2. PlainCall(c) => offset' % 16 = 0
    BY <1>1, <1>7, <1>8 DEF VisitFits, PlainCall
  <2>3. "args" # "designator"
    OBVIOUS
  <2> QED
    BY <1>5, <2>1, <2>2, <2>3 DEF VisitFits
<1>9. /\ visit.base = Last(pending).base /\ (Shallow(visit) <=> Shallow(Last(pending)))
      /\ VisitFits(Last(pending), offset) => VisitFits(visit, offset')
  BY <1>3, <1>5, <1>8
<1>10. VisitsFit(offset', [pending EXCEPT ![Len(pending)] = visit])
  <2> DEFINE off2 == offset'
  <2>1. VisitFits(Last(pending), offset) => VisitFits(visit, off2)
    BY <1>1, <1>9
  <2> HIDE DEF off2
  <2>2. VisitsFit(off2, [pending EXCEPT ![Len(pending)] = visit])
    BY <1>1, <1>2, <1>5, <1>9, <2>1, TopFits
  <2> QED
    BY <2>2 DEF off2
<1> QED
  BY <1>1, <1>6, <1>10

(* What was spilled is taken back.                                         *)
LEMMA RestoreFits ==
  ASSUME IInv, VisitsFit(offset, pending), Restore
  PROVE  VisitsFit(offset', pending') /\ call' = NoCall
<1>1. /\ pending # <<>> /\ Top.stage = "spilled" /\ offset' = offset + 8
      /\ pending' = Front(pending) /\ call' = NoCall
  BY DEF Restore, Quiet
<1>2. /\ offset = Top.base - 8 /\ Top.base \in Int /\ offset \in Int
      /\ pending \in Seq(Visit) /\ Top = Last(pending)
  BY <1>1, TopTyped, FrameTyped DEF VisitRight, Top
<1>3. offset' = Last(pending).base
  BY <1>1, <1>2
<1> QED
  BY <1>1, <1>2, <1>3, ReturnFits

(* The call is emitted at offset_.                                         *)
LEMMA CallFits ==
  ASSUME IInv, VisitsFit(offset, pending), Call
  PROVE  VisitsFit(offset', pending') /\ PlainCallAligned'
<1>1. /\ pending # <<>> /\ Top.stage = "designator"
      /\ call' = [of |-> Top.call, rsp |-> offset,
                  slots |-> SubSeq(slots, Top.depth + 1 + Hidden(Top.call.callee), Len(slots))]
      /\ offset' = Top.base /\ pending' = Front(pending)
  BY DEF Call
<1>2. offset \in Int /\ pending \in Seq(Visit) /\ Top = Last(pending)
  BY FrameTyped DEF Top
<1>3. VisitsFit(offset', pending')
  BY <1>1, <1>2, ReturnFits
<1>4. call'.of = Top.call /\ call'.rsp = offset
  BY <1>1
<1>5. ASSUME PlainCall(Top.call), NoShallow(pending')
      PROVE  offset % 16 = 0
  <2> DEFINE m == Len(pending) - 1
  <2>1. /\ m \in Nat /\ Len(pending) = m + 1 /\ Top = pending[m + 1]
        /\ DOMAIN pending = 1..(m + 1) /\ pending' = SubSeq(pending, 1, m)
    BY <1>1, <1>2, TopTyped, LenProperties DEF Front
  <2> HIDE DEF m
  <2>2. \A v \in 1..m : pending[v] \in Visit
    BY <1>2, <2>1, ElementOfSeq
  <2>3. /\ pending' \in Seq(Visit) /\ Len(pending') = IF 1 <= m THEN m - 1 + 1 ELSE 0
        /\ \A v \in 1..(m - 1 + 1) : pending'[v] = pending[1 + v - 1]
    BY <2>1, <2>2, SubSeqProperties
  <2>4. Len(pending') = m /\ \A v \in 1..m : 1 + v - 1 = v /\ v \in 1..(m - 1 + 1)
    BY <2>1, <2>3
  <2>5. DOMAIN pending' = 1..m
    BY <2>3, <2>4, LenProperties
  <2>6. \A v \in 1..m : ~Shallow(pending[v])
    BY <1>5, <2>3, <2>4, <2>5 DEF NoShallow
  <2>7. ~Shallow(Top)
    BY <1>5 DEF PlainCall, Shallow
  <2>8. \A v \in 1..(m + 1) : v \in 1..m \/ v = m + 1
    BY <2>1
  <2>9. m + 1 \in DOMAIN pending /\ \A v \in 1..(m + 1) : ~Shallow(pending[v])
    BY <2>1, <2>6, <2>7, <2>8
  <2>10. VisitFits(Top, OffsetAt(offset, pending, m + 1))
    BY <2>1, <2>9 DEF VisitsFit
  <2> QED
    BY <1>1, <1>5, <2>1, <2>10 DEF VisitFits, OffsetAt
<1>6. PlainCallAligned'
  BY <1>4, <1>5, Zenon DEF PlainCallAligned, NoShallow
<1> QED
  BY <1>3, <1>6

(* In front of the body no visit is in progress, and offset_ only sinks.   *)
LEMMA FlatFits ==
  ASSUME IInv, VisitsFit(offset, pending),
         \/ \E f \in Functions : VisitFuncDef(f)
         \/ StoreParam
         \/ \E o \in heap : AllocObject(o)
  PROVE  VisitsFit(offset', pending') /\ call' = NoCall
<1>1. offset \in Int /\ (offset <= 0 \/ pending # <<>>)
  BY FrameTyped, EndFits DEF NoShallow
<1>2. ASSUME NEW f \in Functions, VisitFuncDef(f)
      PROVE  pending = <<>> /\ pending' = pending /\ call' = NoCall /\ offset' <= 0
  <2> DEFINE begin == IF f.variadic THEN -SaveArea ELSE 0
             ret == IF f.variadic THEN begin ELSE begin - 8
  <2>1. /\ curFunc = NoFunc /\ pending' = pending /\ call' = NoCall
        /\ offset' = IF Hidden(f) = 0 THEN begin ELSE IF f.variadic THEN begin + 8 ELSE ret
    BY <1>2 DEF VisitFuncDef, Quiet
  <2>2. SaveArea \in Nat /\ SaveArea >= 8
    BY FrameAssumption DEF SaveArea
  <2>3. f.variadic \in BOOLEAN
    BY FrameAssumption
  <2>4. \A n \in Nat : n >= 8 => -n \in Int /\ -n <= 0 /\ -n + 8 <= 0
    OBVIOUS
  <2>5. begin \in Int /\ begin <= 0 /\ (f.variadic => begin + 8 <= 0)
    BY <2>2, <2>3, <2>4
  <2>6. ret \in Int /\ (~f.variadic => ret <= 0)
    <3> HIDE DEF begin
    <3> QED
      BY <2>3, <2>5
  <2>7. pending = <<>>
    BY <2>1 DEF IInv
  <2> HIDE DEF begin, ret
  <2> QED
    BY <2>1, <2>3, <2>5, <2>6, <2>7
<1>3. ASSUME StoreParam
      PROVE  pending = <<>> /\ pending' = pending /\ call' = NoCall
             /\ (offset' = offset \/ offset' = offset - 8)
  <2>1. PICK i \in DOMAIN curFunc.params :
          StoreMemoryParam(i) \/ StoreSavedParam(i) \/ StorePushedParam(i)
    BY <1>3 DEF StoreParam
  <2>2. Storing(i) /\ curFunc # NoFunc
    BY <1>3, <2>1 DEF StoreParam, StoreMemoryParam, StoreSavedParam, StorePushedParam
  <2>3. pending = <<>>
    BY <2>2, StoringIdle
  <2> QED
    BY <2>1, <2>3 DEF StoreMemoryParam, StoreSavedParam, StorePushedParam, Quiet
<1>4. ASSUME NEW o \in heap, AllocObject(o)
      PROVE  pending = <<>> /\ pending' = pending /\ call' = NoCall
             /\ (offset <= 0 => offset' <= 0)
  <2> DEFINE width == o.type.width
             align == IF o.type.class = "ARRAY" THEN Smaller(o.type.align, 8) ELSE o.type.align
  <2>1. offset' = MakeAlign(offset - width, align) /\ pending' = pending /\ call' = NoCall
    BY <1>4 DEF AllocObject, Quiet
  <2>2. pending = <<>>
    BY DEF IInv, InBody
  <2>3. o.type \in Types
    <3>1. PICK objects \in Scopes \cup {{}} : heap \subseteq objects
      BY DEF IInv, TypeOK
    <3>2. objects \in Scopes /\ o \in objects
      BY <3>1
    <3> QED
      BY <3>2, FrameAssumption
  <2>4. width \in Nat \ {0} /\ align \in Nat \ {0} /\ offset \in Int
    BY <2>3, FrameAssumption, FrameTyped DEF Smaller
  <2> HIDE DEF width, align
  <2>5. /\ offset - width \in Int /\ MakeAlign(offset - width, align) \in Int
        /\ offset - width <= 0 => MakeAlign(offset - width, align) <= offset - width
    BY <2>4, MakeAlignDown
  <2> QED
    BY <2>1, <2>2, <2>4, <2>5
<1>5. pending' = <<>> /\ offset' <= 0 /\ call' = NoCall
  <2>1. offset \in Int
    BY FrameTyped
  <2> QED
    BY <1>1, <1>2, <1>3, <1>4, <2>1
<1> QED
  BY <1>5, NothingFits

(* An alignment that is right once is right after every step.              *)
LEMMA AlignedKeeps == IInv /\ AlignedInv /\ [Next]_vars => AlignedInv'
<1> SUFFICES ASSUME IInv, AlignedInv, [Next]_vars
             PROVE  VisitsFit(offset', pending') /\ PlainCallAligned'
  BY DEF AlignedInv
<1>1. VisitsFit(offset, pending)
  BY DEF AlignedInv
<1>2. call' = NoCall => PlainCallAligned'
  BY DEF PlainCallAligned
<1>3. CASE (\E f \in Functions : VisitFuncDef(f)) \/ StoreParam \/ \E o \in heap : AllocObject(o)
  BY <1>1, <1>2, <1>3, FlatFits
<1>4. ASSUME NEW objects \in Scopes, EnterScope(objects)
      PROVE  VisitsFit(offset', pending') /\ PlainCallAligned'
  <2>1. UNCHANGED <<offset, pending>> /\ call' = NoCall
    BY <1>4 DEF EnterScope, Quiet
  <2> QED
    BY <1>1, <1>2, <2>1
<1>5. CASE Spill
  BY <1>1, <1>2, <1>5, SpillFits
<1>6. CASE Restore
  BY <1>1, <1>2, <1>6, RestoreFits
<1>7. ASSUME NEW c \in Calls, BeginCall(c)
      PROVE  VisitsFit(offset', pending') /\ PlainCallAligned'
  BY <1>1, <1>2, <1>7, BeginCallFits
<1>8. ASSUME NEW i \in Top.left, PushArg(i)
      PROVE  VisitsFit(offset', pending') /\ PlainCallAligned'
  BY <1>1, <1>2, <1>8, PushArgFits
<1>9. CASE LoadArgs
  BY <1>1, <1>2, <1>9, LoadArgsFits
<1>10. CASE Call
  BY <1>1, <1>10, CallFits
<1>11. CASE UNCHANGED vars
  <2>1. UNCHANGED <<offset, pending, call>>
    BY <1>11 DEF vars
  <2> QED
    BY <1>1, <2>1 DEF AlignedInv, PlainCallAligned
<1> QED
  BY <1>3, <1>4, <1>5, <1>6, <1>7, <1>8, <1>9, <1>10, <1>11 DEF Next

(* At first nothing is taken and nothing called.                           *)
LEMMA AlignedInit == Init => AlignedInv
<1> SUFFICES ASSUME Init
             PROVE  AlignedInv
  OBVIOUS
<1>1. offset = 0 /\ pending = <<>> /\ call = NoCall
  BY DEF Init
<1> QED
  BY <1>1, NothingFits DEF AlignedInv, PlainCallAligned

\* "Align stack frame by 16 bytes" (src/src/code_gen.cc:1149) holds of every call that has no
\* struct result, passes at most eight bytes in each place on the stack and is not an operand
\* of a call whose narrow result took offset_ above the frame, however deep it is nested and
\* whatever is spilled around it.
THEOREM PlainCallAlignedAlways == Spec => []PlainCallAligned
<1>1. Init => IInv /\ AlignedInv
  BY InitHolds, AlignedInit
<1>2. (IInv /\ AlignedInv) /\ [Next]_vars => (IInv /\ AlignedInv)'
  BY NextHolds, AlignedKeeps
<1>3. AlignedInv => PlainCallAligned
  BY DEF AlignedInv
<1> QED
  BY <1>1, <1>2, <1>3, PTL DEF Spec

-----------------------------------------------------------------------------
(* MakeAlign() of a width: a multiple of eight.                            *)
LEMMA EightTyped ==
  ASSUME NEW w \in Nat
  PROVE  /\ MakeAlign(w, 8) \in Nat /\ MakeAlign(w, 8) % 8 = 0
         /\ w \in 1..8 => MakeAlign(w, 8) = 8
<1>1. w % 8 \in 0..7 /\ w = 8 * (w \div 8) + (w % 8) /\ w \div 8 \in Nat
  OBVIOUS
<1> DEFINE q == w \div 8
           r == w % 8
<1>2. q \in Nat /\ r \in 0..7 /\ w = 8 * q + r
  BY <1>1
<1>3. MakeAlign(w, 8) = IF r = 0 THEN 8 * q ELSE 8 * (q + 1)
  <2>1. MakeAlign(w, 8) = IF r = 0 THEN w ELSE w + 8 - r
    BY DEF MakeAlign
  <2> HIDE DEF q, r
  <2> QED
    BY <1>2, <2>1
<1> HIDE DEF q, r
<1>4. (8 * q) % 8 = 0 /\ (8 * (q + 1)) % 8 = 0
  BY <1>2
<1>5. w \in 1..8 => (IF r = 0 THEN 8 * q ELSE 8 * (q + 1)) = 8
  BY <1>2
<1> QED
  BY <1>2, <1>3, <1>4, <1>5

(* Multiples of eight.                                                     *)
LEMMA Eights ==
  ASSUME NEW x \in Int
  PROVE  x % 8 = 0 <=> \E q \in Int : x = 8 * q
<1>1. ASSUME x % 8 = 0
      PROVE  x = 8 * (x \div 8) /\ x \div 8 \in Int
  BY <1>1
<1>2. ASSUME NEW q \in Int, x = 8 * q
      PROVE  x % 8 = 0
  BY <1>2
<1> QED
  BY <1>1, <1>2

(* The next of eight bytes upwards is as far as the width takes, ...       *)
LEMMA EightUp ==
  ASSUME NEW x \in Nat, x % 8 = 0, NEW w \in Nat
  PROVE  MakeAlign(x + w, 8) = x + MakeAlign(w, 8)
<1>1. PICK p \in Int : x = 8 * p
  BY Eights
<1> DEFINE r == w % 8
<1>2. r \in 0..7 /\ MakeAlign(w, 8) = IF r = 0 THEN w ELSE w + 8 - r
  BY DEF MakeAlign
<1>3. (x + w) % 8 = r
  <2>1. w = 8 * (w \div 8) + r /\ w \div 8 \in Int
    OBVIOUS
  <2> DEFINE q == w \div 8
  <2>2. x + w = 8 * (p + q) + r /\ p + q \in Int
    BY <1>1, <2>1
  <2> HIDE DEF q, r
  <2>3. (8 * (p + q) + r) % 8 = r
    BY <1>2, <2>2
  <2> QED
    BY <2>2, <2>3
<1>4. x + w >= 0
  OBVIOUS
<1>5. MakeAlign(x + w, 8) = IF r = 0 THEN x + w ELSE (x + w) + 8 - r
  BY <1>3, <1>4 DEF MakeAlign
<1> HIDE DEF r
<1> QED
  BY <1>2, <1>5

(* ... and so it is downwards, below the frame pointer.                    *)
LEMMA EightDown ==
  ASSUME NEW x \in Int, x % 8 = 0, x <= 0, NEW w \in Nat \ {0}
  PROVE  MakeAlign(x - w, 8) = x - MakeAlign(w, 8)
<1>1. PICK p \in Int : x = 8 * p
  BY Eights
<1> DEFINE r == w % 8
           y == x - w
<1>2. r \in 0..7 /\ MakeAlign(w, 8) = IF r = 0 THEN w ELSE w + 8 - r
  BY DEF MakeAlign
<1>3. y % 8 = IF r = 0 THEN 0 ELSE 8 - r
  <2>1. w = 8 * (w \div 8) + r /\ w \div 8 \in Int
    OBVIOUS
  <2> DEFINE q == w \div 8
  <2>2. y = 8 * (p - q) - r /\ p - q \in Int
    BY <1>1, <2>1
  <2> HIDE DEF q, r, y
  <2>3. CASE r = 0
    BY <1>2, <2>2, <2>3
  <2>4. CASE r # 0
    <3>1. y = 8 * ((p - q) - 1) + (8 - r) /\ 8 - r \in 1..7
      BY <1>2, <2>2, <2>4
    <3> QED
      BY <2>2, <2>4, <3>1
  <2> QED
    BY <2>3, <2>4
<1>4. y < 0 /\ y \in Int
  OBVIOUS
<1> HIDE DEF r, y
<1>5. MakeAlign(y, 8) = IF r = 0 THEN y ELSE y - (8 - r)
  BY <1>2, <1>3, <1>4 DEF MakeAlign
<1> QED
  BY <1>2, <1>5 DEF y

(* An address that is a multiple of a smaller alignment is no lower.       *)
LEMMA EightIsLower ==
  ASSUME NEW x \in Int, x <= 0, NEW align \in Nat \ {0}, 8 % align = 0
  PROVE  MakeAlign(x, 8) <= MakeAlign(x, align)
<1>1. align \in 1..8
  <2>1. CASE align > 8
    <3>1. 8 % align = 8
      BY <2>1
    <3> QED
      BY <3>1
  <2> QED
    BY <2>1
<1>2. align \in {1, 2, 4, 8}
  BY <1>1
<1>3. x % align <= x % 8
  BY <1>2
<1>4. /\ MakeAlign(x, align) = x - (x % align)
      /\ MakeAlign(x, 8) = x - (x % 8)
  <2>1. x = 0 => x % 8 = 0 /\ x % align = 0
    BY <1>2
  <2>2. x % 8 \in Int /\ x % align \in Int
    BY <1>2
  <2> QED
    BY <2>1, <2>2 DEF MakeAlign
<1>5. x % 8 \in Int /\ x % align \in Int
  BY <1>2
<1> QED
  BY <1>3, <1>4, <1>5

(* The arguments in memory begin on eight bytes.                           *)
LEMMA FrameOnEight ==
  ASSUME NEW low \in Int, NEW n \in Int
  PROVE  AlignFrame(low, n) \in Int /\ AlignFrame(low, n) % 8 = 0
<1>1. AlignFrame(low, n) \in Int /\ (AlignFrame(low, n) + 8 * (0 - n)) % 16 = 0
  BY AlignFrameDown, FrameAligned
<1> DEFINE x == AlignFrame(low, n)
<1> HIDE DEF x
<1>2. x \in Int /\ (x + 8 * (0 - n)) % 16 = 0
  BY <1>1 DEF x
<1>3. PICK q \in Int : x + 8 * (0 - n) = 16 * q
  BY <1>2, Sixteens
<1>4. x = 8 * (2 * q + n) /\ 2 * q + n \in Int
  BY <1>2, <1>3
<1>5. x % 8 = 0
  BY <1>2, <1>4, Eights
<1> QED
  BY <1>2, <1>5 DEF x

\* What argument i takes of the memory, and the place of each in it: the first is
\* behind the return address and the saved frame pointer.
Skip(types, hidden, i) ==
  IF InRegister(types, hidden, i) THEN 0 ELSE MakeAlign(types[i].width, 8)

Places(types, hidden) ==
  LET place[i \in 1..(Len(types) + 1)] ==
        IF i = 1 THEN 16 ELSE place[i - 1] + Skip(types, hidden, i - 1)
  IN  place

(* A set of numbers with 0 and with the next of each has them all.         *)
LEMMA Counting ==
  ASSUME NEW S \in SUBSET Nat, 0 \in S, \A n \in S : n + 1 \in S
  PROVE  S = Nat
<1> DEFINE Less == {ss \in Nat \X Nat : ss[1] < ss[2]}
           Out == Nat \ S
<1>1. IsWellFoundedOn(Less, Nat)
  BY NatLessThanWellFounded, Zenon DEF OpToRel
<1> HIDE DEF Less
<1>2. ASSUME Out # {}
      PROVE  FALSE
  <2>1. PICK x \in Out : \A y \in Out : ~ (<<y, x>> \in Less)
    BY <1>1, <1>2, WFMin, Zenon
  <2>2. x \in Nat /\ x # 0 /\ x - 1 \in Nat
    OBVIOUS
  <2>3. <<x - 1, x>> \in Less
    BY <2>2 DEF Less
  <2>4. x - 1 \in S
    BY <2>1, <2>2, <2>3
  <2> QED
    BY <2>2, <2>4
<1> QED
  BY <1>2

\* The function that Places gives.
ArePlaces(place, types, hidden) ==
  place = [i \in 1..(Len(types) + 1) |->
             IF i = 1 THEN 16 ELSE place[i - 1] + Skip(types, hidden, i - 1)]

(* There is one.                                                           *)
LEMMA PlacesExist ==
  ASSUME NEW types \in Seq(Types), NEW hidden
  PROVE  \E place : ArePlaces(place, types, hidden)
<1> DEFINE Step(i) == Skip(types, hidden, i)
           Upto(f, n) == f = [i \in 1..(n + 1) |-> IF i = 1 THEN 16 ELSE f[i - 1] + Step(i - 1)]
           N == {n \in Nat : \E f : Upto(f, n)}
<1>1. 0 \in N
  <2> DEFINE f == [i \in 1..1 |-> 16]
  <2>1. Upto(f, 0)
    BY 1..(0 + 1) = 1..1
  <2> QED
    BY <2>1
<1>2. ASSUME NEW n \in N PROVE n + 1 \in N
  <2>1. n \in Nat
    OBVIOUS
  <2>2. PICK f : Upto(f, n)
    OBVIOUS
  <2> DEFINE m == (n + 1) + 1
             g == [i \in 1..m |-> IF i = m THEN f[n + 1] + Step(n + 1) ELSE f[i]]
  <2> HIDE DEF Step
  <2>3. \A i \in 1..(n + 1) : g[i] = f[i]
    BY <2>1
  <2>4. ASSUME NEW i \in 1..m
        PROVE  g[i] = IF i = 1 THEN 16 ELSE g[i - 1] + Step(i - 1)
    <3>1. CASE i = m
      <4>1. i # 1 /\ i - 1 = n + 1 /\ n + 1 \in 1..(n + 1)
        BY <2>1, <3>1
      <4>2. g[i] = f[n + 1] + Step(n + 1)
        BY <3>1
      <4> HIDE DEF g
      <4> QED
        BY <2>3, <4>1, <4>2
    <3>2. CASE i # m
      <4>1. i \in 1..(n + 1) /\ (i # 1 => i - 1 \in 1..(n + 1))
        BY <2>1, <3>2
      <4>2. f[i] = IF i = 1 THEN 16 ELSE f[i - 1] + Step(i - 1)
        BY <2>2, <4>1
      <4> HIDE DEF g
      <4> QED
        BY <2>3, <4>1, <4>2
    <3> QED
      BY <3>1, <3>2
  <2>5. Upto(g, n + 1)
    <3>1. g = [i \in 1..m |-> g[i]]
      OBVIOUS
    <3> HIDE DEF g
    <3> QED
      BY <2>4, <3>1
  <2>6. n + 1 \in Nat
    BY <2>1
  <2> HIDE DEF g, Upto
  <2> QED
    BY <2>5, <2>6
<1>3. N = Nat
  <2> HIDE DEF N
  <2>1. N \in SUBSET Nat
    BY DEF N
  <2> QED
    BY <1>1, <1>2, <2>1, Counting
<1>4. Len(types) \in N
  BY <1>3, LenProperties
<1> QED
  BY <1>4 DEF ArePlaces

(* An argument takes eights of bytes.                                      *)
LEMMA SkipTyped ==
  ASSUME NEW types \in Seq(Types), NEW hidden, NEW i \in 1..Len(types)
  PROVE  Skip(types, hidden, i) \in Nat /\ Skip(types, hidden, i) % 8 = 0
<1>1. types[i] \in Types
  BY ElementOfSeq
<1>2. types[i].width \in Nat
  BY <1>1, FrameAssumption
<1>3. MakeAlign(types[i].width, 8) \in Nat /\ MakeAlign(types[i].width, 8) % 8 = 0
  BY <1>2, EightTyped
<1>4. 0 \in Nat /\ 0 % 8 = 0
  OBVIOUS
<1> QED
  BY <1>3, <1>4, Zenon DEF Skip

(* The place of each argument is that of the one in front and what it takes. *)
LEMMA PlaceSteps ==
  ASSUME NEW types \in Seq(Types), NEW hidden
  PROVE  /\ Len(types) \in Nat
         /\ Places(types, hidden)[1] = 16
         /\ \A i \in 1..Len(types) :
              Places(types, hidden)[i + 1] = Places(types, hidden)[i] + Skip(types, hidden, i)
<1> DEFINE place == Places(types, hidden)
           n == Len(types)
<1>1. n \in Nat
  BY LenProperties
<1>2. ArePlaces(place, types, hidden)
  BY PlacesExist DEF ArePlaces, Places
<1> HIDE DEF place
<1>3. \A j \in 1..(n + 1) :
        place[j] = IF j = 1 THEN 16 ELSE place[j - 1] + Skip(types, hidden, j - 1)
  <2> DEFINE Value(j) == IF j = 1 THEN 16 ELSE place[j - 1] + Skip(types, hidden, j - 1)
  <2>1. place = [j \in 1..(n + 1) |-> Value(j)]
    BY <1>2 DEF ArePlaces
  <2> HIDE DEF Value, n
  <2>2. \A j \in 1..(n + 1) : place[j] = Value(j)
    BY <2>1
  <2> QED
    BY <2>2 DEF Value
<1> HIDE DEF n
<1>4. ASSUME NEW i \in 1..n
      PROVE  place[i + 1] = place[i] + Skip(types, hidden, i)
  <2>1. i + 1 \in 1..(n + 1) /\ i + 1 # 1 /\ (i + 1) - 1 = i
    BY <1>1
  <2> QED
    BY <1>3, <2>1
<1>5. place[1] = 16
  BY <1>1, <1>3
<1> QED
  BY <1>1, <1>4, <1>5 DEF place, n

(* Places are on eight bytes.                                              *)
LEMMA PlaceTyped ==
  ASSUME NEW types \in Seq(Types), NEW hidden, NEW i \in 1..(Len(types) + 1)
  PROVE  Places(types, hidden)[i] \in Nat /\ Places(types, hidden)[i] % 8 = 0
<1> DEFINE place == Places(types, hidden)
           n == Len(types)
           On(x) == x \in Nat /\ x % 8 = 0
           N == {k \in Nat : k <= n => On(place[k + 1])}
<1>1. /\ n \in Nat /\ place[1] = 16
      /\ \A j \in 1..n : place[j + 1] = place[j] + Skip(types, hidden, j)
  BY PlaceSteps
<1>2. \A j \in 1..n : On(Skip(types, hidden, j))
  BY SkipTyped
<1> HIDE DEF place, n
<1>3. 0 \in N
  BY <1>1
<1>4. ASSUME NEW k \in N PROVE k + 1 \in N
  <2>1. CASE k + 1 <= n
    <3>1. k + 1 \in 1..n /\ On(place[k + 1])
      BY <1>1, <2>1
    <3>2. place[(k + 1) + 1] = place[k + 1] + Skip(types, hidden, k + 1)
      BY <1>1, <3>1
    <3>3. On(Skip(types, hidden, k + 1))
      BY <1>2, <3>1
    <3>4. ASSUME NEW x \in Nat, x % 8 = 0, NEW y \in Nat, y % 8 = 0
          PROVE  On(x + y)
      <4>1. PICK p \in Int, q \in Int : x = 8 * p /\ y = 8 * q
        BY <3>4, Eights
      <4>2. x + y = 8 * (p + q)
        BY <4>1
      <4> QED
        BY <4>2
    <3>5. On(place[(k + 1) + 1])
      BY <3>1, <3>2, <3>3, <3>4
    <3> QED
      BY <3>5
  <2>2. CASE ~(k + 1 <= n)
    BY <2>2
  <2> QED
    BY <2>1, <2>2
<1>5. N = Nat
  <2> HIDE DEF N
  <2>1. N \in SUBSET Nat
    BY DEF N
  <2> QED
    BY <1>3, <1>4, <2>1, Counting
<1>6. i - 1 \in N /\ i - 1 <= n /\ (i - 1) + 1 = i
  <2> HIDE DEF N
  <2> QED
    BY <1>1, <1>5 DEF n
<1> QED
  <2>1. On(place[(i - 1) + 1])
    BY <1>6
  <2> QED
    BY <1>6, <2>1 DEF place

(* They go up, and only where an argument is in memory.                    *)
LEMMA PlaceGrows ==
  ASSUME NEW types \in Seq(Types), NEW hidden,
         NEW a \in 1..(Len(types) + 1), NEW b \in a..(Len(types) + 1)
  PROVE  /\ Places(types, hidden)[a] <= Places(types, hidden)[b]
         /\ (\A i \in a..(b - 1) : InRegister(types, hidden, i)) =>
              Places(types, hidden)[a] = Places(types, hidden)[b]
<1> DEFINE place == Places(types, hidden)
           n == Len(types)
           In(i) == InRegister(types, hidden, i)
           Up(c) == /\ place[a] <= place[c]
                    /\ (\A i \in a..(c - 1) : In(i)) => place[a] = place[c]
           N == {k \in Nat : a + k <= n + 1 => Up(a + k)}
<1>1. n \in Nat /\ \A j \in 1..n : place[j + 1] = place[j] + Skip(types, hidden, j)
  BY PlaceSteps
<1>2. \A j \in 1..n : Skip(types, hidden, j) \in Nat /\ (In(j) => Skip(types, hidden, j) = 0)
  BY SkipTyped DEF Skip
<1>3. \A j \in 1..(n + 1) : place[j] \in Nat
  BY PlaceTyped
<1>4. a \in 1..(n + 1) /\ b \in a..(n + 1)
  OBVIOUS
<1> HIDE DEF place, n, In
<1>5. 0 \in N
  <2>1. a + 0 = a /\ place[a] \in Nat
    BY <1>1, <1>3, <1>4
  <2> QED
    BY <2>1
<1>6. ASSUME NEW k \in N PROVE k + 1 \in N
  <2>1. CASE a + (k + 1) <= n + 1
    <3> DEFINE c == a + k
    <3>1. c \in 1..n /\ c + 1 = a + (k + 1) /\ c <= n + 1
      BY <1>1, <1>4, <2>1
    <3>2. Up(c)
      BY <3>1
    <3>3. place[c + 1] = place[c] + Skip(types, hidden, c)
      BY <1>1, <3>1
    <3>4. Skip(types, hidden, c) \in Nat /\ place[a] \in Nat /\ place[c] \in Nat
      BY <1>1, <1>2, <1>3, <1>4, <3>1
    <3>5. place[a] <= place[c + 1]
      BY <3>2, <3>3, <3>4
    <3>6. ASSUME \A i \in a..((c + 1) - 1) : In(i)
          PROVE  place[a] = place[c + 1]
      <4>1. c \in a..((c + 1) - 1) /\ \A i \in a..(c - 1) : i \in a..((c + 1) - 1)
        BY <1>1, <1>4, <3>1
      <4>2. In(c) /\ \A i \in a..(c - 1) : In(i)
        BY <3>6, <4>1
      <4>3. Skip(types, hidden, c) = 0
        BY <1>2, <3>1, <4>2
      <4> QED
        BY <3>2, <3>3, <3>4, <4>2, <4>3
    <3>7. Up(c + 1)
      BY <3>5, <3>6
    <3> QED
      BY <3>1, <3>7
  <2>2. CASE ~(a + (k + 1) <= n + 1)
    BY <2>2
  <2> QED
    BY <2>1, <2>2
<1>7. N = Nat
  <2> HIDE DEF N
  <2>1. N \in SUBSET Nat
    BY DEF N
  <2> QED
    BY <1>5, <1>6, <2>1, Counting
<1>8. b - a \in N /\ a + (b - a) = b /\ b <= n + 1
  <2> HIDE DEF N
  <2> QED
    BY <1>1, <1>4, <1>7
<1>9. Up(b)
  BY <1>8
<1> QED
  BY <1>9 DEF place, In

(* The arguments of a class are counted one by one.                        *)
LEMMA BeforeSteps ==
  ASSUME NEW types, NEW class
  PROVE  /\ Before(types, 1, class) = 0
         /\ \A i \in Nat \ {0} :
              /\ Before(types, i, class) \in Nat
              /\ types[i].class = class =>
                   Before(types, i + 1, class) = Before(types, i, class) + 1
              /\ types[i].class # class => Before(types, i + 1, class) = Before(types, i, class)
<1> DEFINE Of(i) == {j \in 1..(i - 1) : types[j].class = class}
<1>1. Before(types, 1, class) = 0
  <2>1. Of(1) = {}
    OBVIOUS
  <2> QED
    BY <2>1, FS_EmptySet DEF Before
<1>2. ASSUME NEW i \in Nat \ {0}
      PROVE  /\ Before(types, i, class) \in Nat
             /\ types[i].class = class =>
                  Before(types, i + 1, class) = Before(types, i, class) + 1
             /\ types[i].class # class => Before(types, i + 1, class) = Before(types, i, class)
  <2>1. IsFiniteSet(Of(i)) /\ i \notin Of(i)
    <3>1. IsFiniteSet(1..(i - 1))
      BY FS_Interval
    <3> QED
      BY <3>1, FS_Subset
  <2>2. types[i].class = class => Of(i + 1) = Of(i) \cup {i}
    OBVIOUS
  <2>3. types[i].class # class => Of(i + 1) = Of(i)
    OBVIOUS
  <2>4. Before(types, i, class) = Cardinality(Of(i)) /\ Before(types, i + 1, class) = Cardinality(Of(i + 1))
    BY DEF Before
  <2>5. Cardinality(Of(i)) \in Nat
    BY <2>1, FS_CardinalityType
  <2> HIDE DEF Of
  <2>6. types[i].class = class => Cardinality(Of(i + 1)) = Cardinality(Of(i)) + 1
    BY <2>1, <2>2, AddOne
  <2> QED
    BY <2>3, <2>4, <2>5, <2>6
<1> QED
  BY <1>1, <1>2

\* Two lists of types agree on their first n.
Agree(types, types2, n) ==
  /\ n <= Len(types) /\ n <= Len(types2)
  /\ \A i \in 1..n : types2[i] = types[i]

(* Then of each class as many are in front of these, ...                   *)
LEMMA AgreeBefore ==
  ASSUME NEW types, NEW types2, NEW n \in Nat, Agree(types, types2, n),
         NEW class, NEW i \in 1..(n + 1)
  PROVE  Before(types2, i, class) = Before(types, i, class)
<1>1. \A j \in 1..(i - 1) : j \in 1..n
  OBVIOUS
<1>2. \A j \in 1..(i - 1) : types2[j].class = types[j].class
  BY <1>1 DEF Agree
<1>3. {j \in 1..(i - 1) : types2[j].class = class} = {j \in 1..(i - 1) : types[j].class = class}
  BY <1>2
<1> QED
  BY <1>3 DEF Before

(* ... the same are in registers, and each takes as much memory, ...        *)
LEMMA AgreeRegisters ==
  ASSUME NEW types, NEW types2, NEW n \in Nat, Agree(types, types2, n),
         NEW hidden, NEW i \in 1..n
  PROVE  /\ InRegister(types2, hidden, i) <=> InRegister(types, hidden, i)
         /\ Skip(types2, hidden, i) = Skip(types, hidden, i)
<1>1. i \in 1..(n + 1)
  OBVIOUS
<1>2. \A class : Before(types2, i, class) = Before(types, i, class)
  BY <1>1, AgreeBefore
<1>3. types2[i] = types[i]
  BY DEF Agree
<1>4. InRegister(types2, hidden, i) <=> InRegister(types, hidden, i)
  BY <1>2, <1>3, Zenon DEF InRegister
<1> QED
  BY <1>3, <1>4 DEF Skip

(* ... so that they have the same places.                                  *)
LEMMA AgreePlaces ==
  ASSUME NEW types \in Seq(Types), NEW types2 \in Seq(Types), NEW n \in Nat,
         Agree(types, types2, n), NEW hidden, NEW i \in 1..(n + 1)
  PROVE  Places(types2, hidden)[i] = Places(types, hidden)[i]
<1> DEFINE place == Places(types, hidden)
           place2 == Places(types2, hidden)
           N == {k \in Nat : k <= n => place2[k + 1] = place[k + 1]}
<1>1. /\ place[1] = 16 /\ place2[1] = 16
      /\ \A j \in 1..Len(types) : place[j + 1] = place[j] + Skip(types, hidden, j)
      /\ \A j \in 1..Len(types2) : place2[j + 1] = place2[j] + Skip(types2, hidden, j)
      /\ Len(types) \in Nat /\ Len(types2) \in Nat
  BY PlaceSteps
<1>2. n <= Len(types) /\ n <= Len(types2)
  BY DEF Agree
<1>3. \A j \in 1..n : Skip(types2, hidden, j) = Skip(types, hidden, j)
  BY AgreeRegisters
<1> HIDE DEF place, place2
<1>4. 0 \in N
  BY <1>1
<1>5. ASSUME NEW k \in N PROVE k + 1 \in N
  <2>1. CASE k + 1 <= n
    <3>1. k + 1 \in 1..n /\ k + 1 \in 1..Len(types) /\ k + 1 \in 1..Len(types2)
      BY <1>1, <1>2, <2>1
    <3>2. place2[k + 1] = place[k + 1]
      BY <2>1
    <3>3. place2[(k + 1) + 1] = place[(k + 1) + 1]
      BY <1>1, <1>3, <3>1, <3>2
    <3> QED
      BY <3>3
  <2>2. CASE ~(k + 1 <= n)
    BY <2>2
  <2> QED
    BY <2>1, <2>2
<1>6. N = Nat
  <2> HIDE DEF N
  <2>1. N \in SUBSET Nat
    BY DEF N
  <2> QED
    BY <1>4, <1>5, <2>1, Counting
<1>7. i - 1 \in N /\ i - 1 <= n /\ (i - 1) + 1 = i
  <2> HIDE DEF N
  <2> QED
    BY <1>6
<1>8. place2[(i - 1) + 1] = place[(i - 1) + 1]
  BY <1>7
<1> QED
  BY <1>7, <1>8 DEF place, place2

(* The arguments of a call are those of the parameters, and further ones.  *)
LEMMA ArgsAgree ==
  ASSUME NEW c \in Calls
  PROVE  /\ c.args \in Seq(Types) /\ c.callee \in Functions /\ c.callee.params \in Seq(Types)
         /\ Len(c.callee.params) \in Nat /\ Len(c.args) \in Nat
         /\ DOMAIN c.args = 1..Len(c.args)
         /\ DOMAIN c.callee.params = 1..Len(c.callee.params)
         /\ Agree(c.callee.params, c.args, Len(c.callee.params))
         /\ Len(c.callee.params) = Len(c.args) \/ c.callee.variadic
<1>1. c.args \in Seq(Types) /\ c.callee \in Functions
  BY FrameAssumption
<1>2. c.callee.params \in Seq(Types)
  BY <1>1, FrameAssumption
<1>3. /\ Len(c.callee.params) \in Nat /\ Len(c.args) \in Nat
      /\ DOMAIN c.args = 1..Len(c.args)
      /\ DOMAIN c.callee.params = 1..Len(c.callee.params)
  BY <1>1, <1>2, LenProperties
<1>4. /\ Len(c.callee.params) <= Len(c.args)
      /\ \A i \in DOMAIN c.callee.params : c.args[i] = c.callee.params[i]
      /\ Len(c.callee.params) = Len(c.args) \/ c.callee.variadic
  BY CallAssumption
<1> QED
  BY <1>1, <1>2, <1>3, <1>4 DEF Agree

(* What is pushed eight wide is no wider, and alignments are powers of two. *)
LEMMA ArgTyped ==
  ASSUME NEW c \in Calls, NEW i \in DOMAIN c.args
  PROVE  /\ c.args[i] \in Types
         /\ c.args[i].width \in Nat \ {0} /\ c.args[i].align \in Nat \ {0}
         /\ c.args[i].class # "MEMORY" => c.args[i].width \in 1..8
         /\ c.args[i].class = "MEMORY" /\ c.args[i].align <= 8 => 8 % c.args[i].align = 0
         /\ i \in RegArgsOf(c) => c.args[i].class # "MEMORY"
<1>1. c.args[i] \in Types
  BY ArgsAgree, ElementOfSeq
<1>2. c.args[i].width \in Nat \ {0} /\ c.args[i].align \in Nat \ {0}
  BY <1>1, FrameAssumption
<1>3. IF c.args[i].class = "MEMORY" THEN c.args[i].align <= 8 => 8 % c.args[i].align = 0
      ELSE c.args[i].class # "ARRAY" /\ c.args[i].width <= 8
  BY CallAssumption
<1>4. i \in RegArgsOf(c) => c.args[i].class # "MEMORY"
  BY DEF RegArgsOf, RegArgs, InRegister
<1> QED
  BY <1>1, <1>2, <1>3, <1>4

\* Where the arguments of a call begin, and where each is that is passed in memory: the
\* last of them is pushed first.
Start(visit) == AlignFrame(visit.result, ByMemCnt(visit.call))
PlaceOf(c, i) == Places(c.args, Hidden(c.callee))[i]
PlacedAt(visit, i) ==
  Start(visit) - PlaceOf(visit.call, Len(visit.call.args) + 1) + PlaceOf(visit.call, i)

ArgPlaced(slot, visit, i) ==
  /\ slot.arg = i /\ slot.lo = PlacedAt(visit, i)
  /\ slot.whole \/ visit.call.args[i].align > 8

MemoryPushed(visit) == MemArgsOf(visit.call) \ visit.left
FirstSlot(visit) == visit.depth + Hidden(visit.call.callee)

MemoryArgsPlaced(sl, visit) ==
  \A i \in MemoryPushed(visit) : \E n \in 1..Cardinality(MemoryPushed(visit)) :
    ArgPlaced(sl[FirstSlot(visit) + n], visit, i)

\* The arguments in memory are pushed from the last on.
ArgsPlaced(visit, off) ==
  LET c == visit.call
  IN  \E k \in 1..(Len(c.args) + 1) :
        /\ \A i \in MemArgsOf(c) : i \in visit.left <=> i < k
        /\ off = PlacedAt(visit, k) - 8 * Cardinality(Pushed(visit))

ResultRight(visit) ==
  LET ret == visit.call.callee.ret
  IN  visit.result = IF Hidden(visit.call.callee) = 0 THEN visit.base
                     ELSE MakeAlign(visit.base - ret.width, ret.align)

LoadedRight(visit, d, off) ==
  /\ visit.left = {}
  /\ d = FirstSlot(visit) + Cardinality(MemArgsOf(visit.call))
  /\ off = PlacedAt(visit, 1)

VisitPlaced(sl, visit, d, off) ==
  visit.stage # "spilled" =>
    /\ ResultRight(visit)
    /\ visit.base <= 0 =>
         /\ MemoryArgsPlaced(sl, visit)
         /\ visit.stage = "args" => ArgsPlaced(visit, off)
         /\ visit.stage = "designator" => LoadedRight(visit, d, off)

VisitsPlaced(sl, off, pe) ==
  \A v \in DOMAIN pe : VisitPlaced(sl, pe[v], DepthAt(sl, pe, v), OffsetAt(off, pe, v))

(* The arguments in memory are finitely many.                              *)
LEMMA MemoryTyped ==
  ASSUME NEW visit \in Visit, visit.call \in Calls
  PROVE  /\ IsFiniteSet(MemoryPushed(visit)) /\ Cardinality(MemoryPushed(visit)) \in Nat
         /\ FirstSlot(visit) \in Nat
         /\ MemoryPushed(visit) \subseteq MemArgsOf(visit.call)
         /\ MemArgsOf(visit.call) \subseteq DOMAIN visit.call.args
<1>1. /\ MemArgsOf(visit.call) \subseteq DOMAIN visit.call.args
      /\ IsFiniteSet(DOMAIN visit.call.args)
  BY RegistersOfCall
<1>2. MemoryPushed(visit) \subseteq MemArgsOf(visit.call)
  BY DEF MemoryPushed
<1>3. IsFiniteSet(MemoryPushed(visit)) /\ Cardinality(MemoryPushed(visit)) \in Nat
  BY <1>1, <1>2, FS_Subset, FS_CardinalityType
<1>4. FirstSlot(visit) \in Nat
  BY VisitTyped, HiddenTyped DEF FirstSlot
<1> QED
  BY <1>1, <1>2, <1>3, <1>4

(* Their slots are between where the visit begins and where it ends.       *)
LEMMA MemoryWithin ==
  ASSUME NEW sl, NEW visit \in Visit, NEW d \in Nat, NEW off,
         VisitRight(sl, visit, d, off), visit.stage # "spilled",
         visit.stage = "designator" => LoadedRight(visit, d, off)
  PROVE  FirstSlot(visit) + Cardinality(MemoryPushed(visit)) <= d
<1> DEFINE c == visit.call
           taken == DOMAIN c.args \ visit.left
           pushed == MemoryPushed(visit)
<1>1. c \in Calls
  BY DEF VisitRight
<1>2. /\ IsFiniteSet(pushed) /\ Cardinality(pushed) \in Nat /\ FirstSlot(visit) \in Nat
      /\ MemArgsOf(c) \subseteq DOMAIN c.args /\ IsFiniteSet(DOMAIN c.args)
  BY <1>1, MemoryTyped, RegistersOfCall
<1>3. CASE visit.stage = "args"
  <2>1. d = FirstSlot(visit) + Cardinality(taken)
    BY <1>3 DEF VisitRight, ArgsRight, FirstSlot
  <2>2. pushed \subseteq taken /\ IsFiniteSet(taken)
    BY <1>2, FS_Subset DEF MemoryPushed
  <2>3. Cardinality(pushed) <= Cardinality(taken) /\ Cardinality(taken) \in Nat
    BY <2>2, FS_Subset, FS_CardinalityType
  <2> HIDE DEF taken, pushed
  <2> QED
    BY <1>2, <2>1, <2>3 DEF pushed
<1>4. CASE visit.stage = "designator"
  <2>1. visit.left = {} /\ d = FirstSlot(visit) + Cardinality(MemArgsOf(c))
    BY <1>4 DEF LoadedRight
  <2>2. pushed = MemArgsOf(c)
    BY <2>1 DEF MemoryPushed
  <2> HIDE DEF pushed
  <2> QED
    BY <1>2, <2>1, <2>2 DEF pushed
<1> QED
  BY <1>3, <1>4, VisitTyped

(* So only the slots of the visit count.                                   *)
LEMMA PlacedKept ==
  ASSUME NEW sl, NEW sl2, NEW visit \in Visit, NEW d \in Nat, NEW off,
         VisitRight(sl, visit, d, off), VisitPlaced(sl, visit, d, off), Same(sl, sl2, d)
  PROVE  VisitPlaced(sl2, visit, d, off)
<1>1. ASSUME visit.stage # "spilled", visit.base <= 0
      PROVE  MemoryArgsPlaced(sl2, visit)
  <2> DEFINE m == Cardinality(MemoryPushed(visit))
             from == FirstSlot(visit)
  <2>1. MemoryArgsPlaced(sl, visit) /\ (visit.stage = "designator" => LoadedRight(visit, d, off))
    BY <1>1 DEF VisitPlaced
  <2>2. from + m <= d
    BY <1>1, <2>1, MemoryWithin
  <2>3. m \in Nat /\ from \in Nat
    BY <1>1, MemoryTyped DEF VisitRight
  <2> HIDE DEF m, from
  <2>4. \A n \in 1..m : sl2[from + n] = sl[from + n]
    <3> TAKE n \in 1..m
    <3>1. from + n \in 1..d
      BY <2>2, <2>3
    <3> QED
      BY <3>1 DEF Same
  <2> QED
    BY <2>1, <2>4 DEF MemoryArgsPlaced, m, from
<1> QED
  BY <1>1 DEF VisitPlaced

(* A visit begins.                                                         *)
LEMMA EnterPlaced ==
  ASSUME NEW sl \in Seq(Slot), NEW sl2 \in Seq(Slot), NEW off \in Int, NEW off2 \in Int,
         NEW pe \in Seq(Visit), NEW visit \in Visit,
         VisitsRight(sl, off, pe), VisitsPlaced(sl, off, pe),
         visit.depth = Len(sl), visit.base = off,
         Len(sl) <= Len(sl2), Same(sl, sl2, Len(sl)),
         VisitPlaced(sl2, visit, Len(sl2), off2)
  PROVE  VisitsPlaced(sl2, off2, Append(pe, visit))
<1> DEFINE pe2 == Append(pe, visit)
           n == Len(pe)
<1>1. n \in Nat /\ DOMAIN pe = 1..n /\ Len(sl) \in Nat /\ Len(sl2) \in Nat
  BY LenProperties
<1>2. /\ pe2 \in Seq(Visit) /\ Len(pe2) = n + 1 /\ DOMAIN pe2 = 1..(n + 1)
      /\ pe2[n + 1] = visit /\ \A v \in 1..n : pe2[v] = pe[v]
  BY <1>1, AppendProperties, LenProperties
<1>3. \A v \in 1..n : /\ pe[v] \in Visit /\ pe[v].depth \in 0..Len(sl)
                      /\ \A u \in 1..v : pe[u].depth <= pe[v].depth
  BY Depths
<1> HIDE DEF pe2, n
<1>4. ASSUME NEW v \in 1..n
      PROVE  VisitPlaced(sl2, pe2[v], DepthAt(sl2, pe2, v), OffsetAt(off2, pe2, v))
  <2>1. /\ VisitRight(sl, pe[v], DepthAt(sl, pe, v), OffsetAt(off, pe, v))
        /\ VisitPlaced(sl, pe[v], DepthAt(sl, pe, v), OffsetAt(off, pe, v))
    BY <1>1 DEF VisitsRight, VisitsPlaced
  <2>2. DepthAt(sl2, pe2, v) = pe2[v + 1].depth /\ OffsetAt(off2, pe2, v) = pe2[v + 1].base
    BY <1>1, <1>2 DEF DepthAt, OffsetAt
  <2>3. /\ DepthAt(sl, pe, v) = pe2[v + 1].depth /\ OffsetAt(off, pe, v) = pe2[v + 1].base
        /\ DepthAt(sl, pe, v) \in Nat /\ DepthAt(sl, pe, v) <= Len(sl)
    <3>1. CASE v = n
      BY <1>1, <1>2, <3>1 DEF DepthAt, OffsetAt, n
    <3>2. CASE v # n
      <4>1. v + 1 \in 1..n
        BY <1>1, <3>2
      <4>2. pe2[v + 1] = pe[v + 1] /\ pe[v + 1].depth \in 0..Len(sl)
        BY <1>2, <1>3, <4>1
      <4>3. DepthAt(sl, pe, v) = pe[v + 1].depth /\ OffsetAt(off, pe, v) = pe[v + 1].base
        BY <3>2 DEF DepthAt, OffsetAt, n
      <4> QED
        BY <1>1, <4>2, <4>3
    <3> QED
      BY <3>1, <3>2
  <2>4. Same(sl, sl2, DepthAt(sl, pe, v))
    BY <1>1, <2>3 DEF Same
  <2> QED
    BY <1>2, <1>3, <2>1, <2>2, <2>3, <2>4, PlacedKept
<1>5. VisitPlaced(sl2, pe2[n + 1], DepthAt(sl2, pe2, n + 1), OffsetAt(off2, pe2, n + 1))
  BY <1>2 DEF DepthAt, OffsetAt
<1>6. \A v \in 1..(n + 1) :
        VisitPlaced(sl2, pe2[v], DepthAt(sl2, pe2, v), OffsetAt(off2, pe2, v))
  BY <1>1, <1>4, <1>5, SMTT(30)
<1> QED
  BY <1>2, <1>6 DEF VisitsPlaced, pe2

(* The last visit goes on.                                                 *)
LEMMA TopPlaced ==
  ASSUME NEW sl \in Seq(Slot), NEW sl2 \in Seq(Slot), NEW off \in Int, NEW off2 \in Int,
         NEW pe \in Seq(Visit), pe # <<>>, NEW visit \in Visit,
         VisitsRight(sl, off, pe), VisitsPlaced(sl, off, pe),
         visit.depth = Last(pe).depth, visit.base = Last(pe).base,
         visit.depth <= Len(sl2), Same(sl, sl2, visit.depth),
         VisitPlaced(sl2, visit, Len(sl2), off2)
  PROVE  VisitsPlaced(sl2, off2, [pe EXCEPT ![Len(pe)] = visit])
<1> DEFINE n == Len(pe)
           pe2 == [pe EXCEPT ![n] = visit]
<1>1. n \in Nat \ {0} /\ DOMAIN pe = 1..n /\ Len(sl) \in Nat /\ Len(sl2) \in Nat
  BY LenProperties, EmptySeq
<1>2. /\ pe2 \in Seq(Visit) /\ Len(pe2) = n /\ DOMAIN pe2 = 1..n
      /\ pe2[n] = visit /\ \A v \in 1..(n - 1) : pe2[v] = pe[v]
  <2>1. n \in 1..Len(pe)
    BY <1>1
  <2>2. /\ pe2 \in Seq(Visit) /\ Len(pe2) = Len(pe)
        /\ \A j \in 1..Len(pe) : pe2[j] = IF j = n THEN visit ELSE pe[j]
    BY <2>1, ExceptSeq
  <2> HIDE DEF pe2
  <2>3. DOMAIN pe2 = 1..Len(pe2)
    BY <2>2, LenProperties
  <2>4. n = Len(pe) /\ n \in Nat
    BY <1>1
  <2> HIDE DEF n
  <2>5. \A v \in 1..(n - 1) : v # n /\ v \in 1..n
    BY <2>4
  <2> QED
    BY <2>1, <2>2, <2>3, <2>4, <2>5
<1>3. \A v \in 1..n : /\ pe[v] \in Visit
                      /\ \A u \in 1..v : pe[u].depth <= pe[v].depth
  BY Depths
<1>4. Last(pe) = pe[n]
  BY DEF Last
<1>5. \A v \in 1..n : /\ pe2[v].depth = pe[v].depth /\ pe2[v].base = pe[v].base
                      /\ pe[v].depth \in Nat
  BY <1>1, <1>2, <1>3, <1>4, VisitTyped
<1> HIDE DEF pe2, n
<1>6. ASSUME NEW v \in 1..(n - 1)
      PROVE  VisitPlaced(sl2, pe2[v], DepthAt(sl2, pe2, v), OffsetAt(off2, pe2, v))
  <2>2. v + 1 \in 1..n /\ v # n /\ v \in 1..n
    BY <1>1
  <2>1. /\ VisitRight(sl, pe[v], DepthAt(sl, pe, v), OffsetAt(off, pe, v))
        /\ VisitPlaced(sl, pe[v], DepthAt(sl, pe, v), OffsetAt(off, pe, v))
    <3>1. v \in DOMAIN pe
      BY <1>1, <2>2
    <3> QED
      BY <3>1 DEF VisitsRight, VisitsPlaced
  <2>3. DepthAt(sl2, pe2, v) = DepthAt(sl, pe, v) /\ OffsetAt(off2, pe2, v) = OffsetAt(off, pe, v)
    BY <1>2, <1>5, <2>2 DEF DepthAt, OffsetAt, n
  <2>4. DepthAt(sl, pe, v) = pe[v + 1].depth
    BY <2>2 DEF DepthAt, n
  <2>5. DepthAt(sl, pe, v) \in Nat /\ DepthAt(sl, pe, v) <= pe[n].depth
    <3>1. n \in 1..n /\ v + 1 \in 1..n
      BY <1>1, <2>2
    <3>2. \A u \in 1..n : pe[u].depth <= pe[n].depth
      BY <1>3, <3>1
    <3> QED
      BY <1>5, <2>4, <3>1, <3>2
  <2>6. Same(sl, sl2, DepthAt(sl, pe, v))
    <3>1. visit.depth = pe[n].depth /\ pe[n].depth \in Nat
      BY <1>1, <1>4, <1>5
    <3> QED
      BY <2>5, <3>1 DEF Same
  <2> QED
    BY <1>2, <1>3, <2>1, <2>2, <2>3, <2>5, <2>6, PlacedKept
<1>7. VisitPlaced(sl2, pe2[n], DepthAt(sl2, pe2, n), OffsetAt(off2, pe2, n))
  BY <1>2 DEF DepthAt, OffsetAt
<1>8. \A v \in 1..n : VisitPlaced(sl2, pe2[v], DepthAt(sl2, pe2, v), OffsetAt(off2, pe2, v))
  <2> TAKE v \in 1..n
  <2>1. v = n \/ v \in 1..(n - 1)
    BY <1>1
  <2> QED
    BY <1>6, <1>7, <2>1
<1> QED
  BY <1>2, <1>8 DEF VisitsPlaced, pe2, n

(* The last visit ends with the frame as it began.                         *)
LEMMA ReturnPlaced ==
  ASSUME NEW sl \in Seq(Slot), NEW sl2 \in Seq(Slot), NEW off \in Int,
         NEW pe \in Seq(Visit), NEW pe2 \in Seq(Visit), NEW n \in Nat,
         Len(pe) = n + 1, Len(pe2) = n, \A v \in 1..n : pe2[v] = pe[v],
         VisitsRight(sl, off, pe), VisitsPlaced(sl, off, pe),
         Len(sl2) = pe[n + 1].depth, NEW off2, off2 = pe[n + 1].base,
         Same(sl, sl2, Len(sl2))
  PROVE  VisitsPlaced(sl2, off2, pe2)
<1>1. DOMAIN pe = 1..(n + 1) /\ DOMAIN pe2 = 1..n /\ Len(sl2) \in Nat
  BY LenProperties
<1>2. \A v \in 1..(n + 1) : /\ pe[v] \in Visit /\ pe[v].depth \in Nat
                            /\ \A u \in 1..v : pe[u].depth <= pe[v].depth
  BY Depths, VisitTyped
<1>3. ASSUME NEW v \in 1..n
      PROVE  VisitPlaced(sl2, pe2[v], DepthAt(sl2, pe2, v), OffsetAt(off2, pe2, v))
  <2>1. v \in 1..(n + 1) /\ v + 1 \in 1..(n + 1) /\ v # n + 1
    OBVIOUS
  <2>2. /\ VisitRight(sl, pe[v], DepthAt(sl, pe, v), OffsetAt(off, pe, v))
        /\ VisitPlaced(sl, pe[v], DepthAt(sl, pe, v), OffsetAt(off, pe, v))
    BY <1>1, <2>1 DEF VisitsRight, VisitsPlaced
  <2>3. DepthAt(sl, pe, v) = pe[v + 1].depth /\ OffsetAt(off, pe, v) = pe[v + 1].base
    BY <2>1 DEF DepthAt, OffsetAt
  <2>4. v # n => v + 1 \in 1..n
    OBVIOUS
  <2>5. DepthAt(sl2, pe2, v) = pe[v + 1].depth /\ OffsetAt(off2, pe2, v) = pe[v + 1].base
    BY <2>4 DEF DepthAt, OffsetAt
  <2>6. pe[v + 1].depth \in Nat /\ pe[v + 1].depth <= Len(sl2)
    <3>1. pe[v + 1].depth <= pe[n + 1].depth
      BY <1>2, <2>1
    <3> QED
      BY <1>2, <2>1, <3>1
  <2>7. Same(sl, sl2, pe[v + 1].depth)
    BY <1>1, <2>6 DEF Same
  <2> QED
    BY <1>2, <2>1, <2>2, <2>3, <2>5, <2>6, <2>7, PlacedKept
<1> QED
  BY <1>1, <1>3 DEF VisitsPlaced

(* Counting the places 1 .. n.                                             *)
LEMMA PlacesCounted ==
  ASSUME NEW n, n \in Nat
  PROVE  Cardinality(1..n) = n
<1>1. Cardinality(1..n) = IF 1 > n THEN 0 ELSE n - 1 + 1
  BY FS_Interval
<1> QED
  BY <1>1

(* The arguments of a call, counted in registers and in memory.            *)
LEMMA CallCounted ==
  ASSUME NEW c \in Calls
  PROVE  /\ Len(c.args) \in Nat /\ DOMAIN c.args = 1..Len(c.args)
         /\ MemArgsOf(c) \subseteq DOMAIN c.args /\ RegArgsOf(c) \subseteq DOMAIN c.args
         /\ MemArgsOf(c) = DOMAIN c.args \ RegArgsOf(c)
         /\ IsFiniteSet(MemArgsOf(c)) /\ IsFiniteSet(RegArgsOf(c))
         /\ Cardinality(MemArgsOf(c)) \in Nat /\ Cardinality(RegArgsOf(c)) \in Nat
         /\ Cardinality(MemArgsOf(c)) + Cardinality(RegArgsOf(c)) = Len(c.args)
         /\ ByMemCnt(c) = Cardinality(MemArgsOf(c)) - Hidden(c.callee)
         /\ \A i \in DOMAIN c.args : i \in RegArgsOf(c) <=> InRegister(c.args, Hidden(c.callee), i)
<1> DEFINE M == MemArgsOf(c)
           R == RegArgsOf(c)
           D == DOMAIN c.args
<1>1. /\ Len(c.args) \in Nat /\ D = 1..Len(c.args) /\ IsFiniteSet(D)
      /\ R \subseteq D /\ M = D \ R /\ IsFiniteSet(R) /\ Cardinality(R) \in Nat
  BY RegistersOfCall
<1>2. \A i \in D : i \in R <=> InRegister(c.args, Hidden(c.callee), i)
  BY DEF RegArgsOf, RegArgs
<1>3. ByMemCnt(c) = Len(c.args) - (Hidden(c.callee) + Cardinality(R))
  BY DEF ByMemCnt
<1> HIDE DEF M, R, D
<1>4. IsFiniteSet(M) /\ Cardinality(M) \in Nat
  BY <1>1, FS_Subset, FS_CardinalityType
<1>5. Cardinality(D) = Len(c.args)
  BY <1>1, PlacesCounted
<1>6. Cardinality(D) = Cardinality(M) + Cardinality(R)
  <2>1. M \cap R = {} /\ M \cup R = D
    BY <1>1
  <2>2. Cardinality(M \cup R) = Cardinality(M) + Cardinality(R) - Cardinality(M \cap R)
    BY <1>1, <1>4, FS_Union
  <2>3. Cardinality(M \cap R) = 0 /\ Cardinality(M \cup R) = Cardinality(D)
    BY <2>1, FS_EmptySet, Zenon
  <2> QED
    BY <1>1, <1>4, <2>2, <2>3
<1> QED
  BY <1>1, <1>2, <1>3, <1>4, <1>5, <1>6, HiddenTyped DEF M, R, D

(* The places that a visit has for its arguments.                          *)
LEMMA PlacedTyped ==
  ASSUME NEW visit \in Visit, visit.call \in Calls, NEW i \in 1..(Len(visit.call.args) + 1)
  PROVE  /\ PlaceOf(visit.call, i) \in Nat
         /\ PlacedAt(visit, i) \in Int /\ PlacedAt(visit, i) % 8 = 0
         /\ Start(visit) \in Int /\ PlacedAt(visit, i) <= Start(visit)
         /\ PlaceOf(visit.call, 1) = 16
<1> DEFINE c == visit.call
           n == Len(c.args) + 1
           x == Start(visit)
           y == PlaceOf(c, n)
           z == PlaceOf(c, i)
<1>1. c.args \in Seq(Types) /\ Len(c.args) \in Nat
  BY ArgsAgree
<1>2. n \in 1..(Len(c.args) + 1) /\ n \in i..(Len(c.args) + 1)
  BY <1>1
<1>3. y \in Nat /\ y % 8 = 0 /\ z \in Nat /\ z % 8 = 0
  BY <1>1, <1>2, PlaceTyped DEF PlaceOf
<1>4. z <= y
  BY <1>1, <1>2, PlaceGrows DEF PlaceOf
<1>5. x \in Int /\ x % 8 = 0
  <2>1. visit.result \in Int /\ ByMemCnt(c) \in Int
    BY VisitTyped, RegistersOfCall
  <2> QED
    BY <2>1, FrameOnEight DEF Start
<1>6. PlacedAt(visit, i) = x - y + z
  BY DEF PlacedAt
<1>7. PlaceOf(c, 1) = 16
  BY <1>1, PlaceSteps DEF PlaceOf
<1> HIDE DEF x, y, z, c, n
<1>8. PICK p \in Int, q \in Int, r \in Int : x = 8 * p /\ y = 8 * q /\ z = 8 * r
  <2>1. y \in Int /\ z \in Int
    BY <1>3
  <2> QED
    BY <1>3, <1>5, <2>1, Eights
<1>9. x - y + z = 8 * ((p - q) + r) /\ (p - q) + r \in Int
  BY <1>3, <1>5, <1>8
<1>10. x - y + z \in Int /\ (x - y + z) % 8 = 0 /\ x - y + z <= x
  BY <1>3, <1>4, <1>5, <1>9, Eights
<1> QED
  BY <1>3, <1>5, <1>6, <1>7, <1>10 DEF x, z, c

(* With an argument in memory they are below the frame pointer, if the visit began there. *)
LEMMA PlacedLow ==
  ASSUME NEW visit \in Visit, visit.call \in Calls, ResultRight(visit), visit.base <= 0,
         MemArgsOf(visit.call) # {}, NEW i \in 1..(Len(visit.call.args) + 1)
  PROVE  PlacedAt(visit, i) <= 0
<1> DEFINE c == visit.call
           n == ByMemCnt(c)
           h == Hidden(c.callee)
           ret == c.callee.ret
           low == visit.result
<1>1. c \in Calls
  OBVIOUS
<1>2. n = Cardinality(MemArgsOf(c)) - h /\ h \in {0, 1} /\ Cardinality(MemArgsOf(c)) \in Nat
      /\ Cardinality(MemArgsOf(c)) # 0
  BY <1>1, CallCounted, HiddenTyped, FS_EmptySet
<1>3. n \in Int /\ n >= 1 - h
  BY <1>2
<1>4. ret.width \in Nat \ {0} /\ ret.align \in Nat \ {0}
  BY <1>1, FrameAssumption
<1>5. low \in Int /\ low <= 0
  <2>1. CASE h = 0
    BY <2>1, VisitTyped DEF ResultRight
  <2>2. CASE h = 1
    <3>1. low = MakeAlign(visit.base - ret.width, ret.align)
      BY <2>2 DEF ResultRight
    <3>2. visit.base - ret.width \in Int /\ visit.base - ret.width <= 0
      BY <1>4, VisitTyped
    <3>3. MakeAlign(visit.base - ret.width, ret.align) \in Int
          /\ MakeAlign(visit.base - ret.width, ret.align) <= visit.base - ret.width
      BY <1>4, <3>2, MakeAlignDown
    <3> DEFINE x == visit.base - ret.width
    <3> HIDE DEF low, ret, x
    <3>4. x \in Int /\ x <= 0 /\ low \in Int /\ low <= x
      BY <3>1, <3>2, <3>3 DEF x
    <3> QED
      BY <3>4
  <2> QED
    BY <1>2, <2>1, <2>2
<1>6. Start(visit) \in Int /\ Start(visit) <= 0
  <2>1. low <= 8 * n
    BY <1>2, <1>3, <1>5
  <2>2. AlignFrame(low, n) \in Int /\ AlignFrame(low, n) <= low
    BY <1>3, <1>5, <2>1, AlignFrameDown
  <2>3. Start(visit) = AlignFrame(low, n)
    BY DEF Start
  <2> HIDE DEF low, n
  <2> QED
    BY <1>5, <2>2, <2>3
<1>7. PlacedAt(visit, i) \in Int /\ PlacedAt(visit, i) <= Start(visit)
  BY PlacedTyped
<1> QED
  BY <1>6, <1>7

\* A push of argument i takes offset_ from off to off2.
PushedTo(c, i, off, off2) ==
  off2 = IF c.args[i].class = "MEMORY" THEN MakeAlign(off - c.args[i].width, 8) ELSE off - 8

(* A push in memory: offset_ comes to the place of the argument.           *)
LEMMA MemoryPushPlaced ==
  ASSUME NEW visit \in Visit, visit.call \in Calls, ResultRight(visit), visit.base <= 0,
         NEW i \in MemArgsOf(visit.call), NEW k \in 1..(Len(visit.call.args) + 1), i < k,
         \A j \in MemArgsOf(visit.call) : j < k => j <= i,
         NEW off2, PushedTo(visit.call, i, PlacedAt(visit, k), off2)
  PROVE  off2 = PlacedAt(visit, i)
<1> DEFINE c == visit.call
           type == c.args[i]
           hidden == Hidden(c.callee)
           off == PlacedAt(visit, k)
           size == MakeAlign(type.width, 8)
<1>1. /\ c \in Calls /\ c.args \in Seq(Types) /\ Len(c.args) \in Nat
      /\ MemArgsOf(c) = DOMAIN c.args \ RegArgsOf(c) /\ DOMAIN c.args = 1..Len(c.args)
      /\ \A j \in DOMAIN c.args : j \in RegArgsOf(c) <=> InRegister(c.args, hidden, j)
  BY ArgsAgree, CallCounted
<1>2. i \in 1..Len(c.args) /\ i \in 1..(Len(c.args) + 1) /\ i + 1 \in 1..(Len(c.args) + 1)
      /\ k \in (i + 1)..(Len(c.args) + 1)
  BY <1>1
<1>3. PlaceOf(c, i + 1) = PlaceOf(c, k)
  <2>1. ASSUME NEW j \in (i + 1)..(k - 1)
        PROVE  InRegister(c.args, hidden, j)
    <3>1. j \in DOMAIN c.args /\ j < k /\ ~(j <= i)
      BY <1>1, <1>2
    <3> QED
      BY <1>1, <3>1
  <2> QED
    BY <1>1, <1>2, <2>1, PlaceGrows DEF PlaceOf
<1>4. PlaceOf(c, i + 1) = PlaceOf(c, i) + size
  <2>1. ~InRegister(c.args, hidden, i)
    BY <1>1
  <2>2. Skip(c.args, hidden, i) = size
    BY <2>1 DEF Skip
  <2> QED
    BY <1>1, <1>2, <2>2, PlaceSteps DEF PlaceOf
<1>5. type.width \in Nat \ {0} /\ (type.class # "MEMORY" => type.width \in 1..8)
  BY <1>1, ArgTyped
<1>6. off \in Int /\ off % 8 = 0 /\ off <= 0
  BY <1>1, PlacedTyped, PlacedLow
<1>7. off2 = off - size
  <2>1. CASE type.class = "MEMORY"
    <3>1. off2 = MakeAlign(off - type.width, 8)
      BY <2>1 DEF PushedTo
    <3> QED
      BY <1>5, <1>6, <3>1, EightDown
  <2>2. CASE type.class # "MEMORY"
    <3>1. off2 = off - 8 /\ size = 8
      BY <1>5, <2>2, EightTyped DEF PushedTo
    <3> QED
      BY <3>1
  <2> QED
    BY <2>1, <2>2
<1>8. PlacedAt(visit, i) = Start(visit) - PlaceOf(c, Len(c.args) + 1) + PlaceOf(c, i)
      /\ off = Start(visit) - PlaceOf(c, Len(c.args) + 1) + PlaceOf(c, k)
  BY DEF PlacedAt
<1>9. /\ Start(visit) \in Int /\ PlaceOf(c, i) \in Nat /\ PlaceOf(c, k) \in Nat
      /\ PlaceOf(c, Len(c.args) + 1) \in Nat /\ size \in Nat
  <2>1. Len(c.args) + 1 \in 1..(Len(c.args) + 1)
    BY <1>1
  <2> QED
    BY <1>2, <1>5, <2>1, PlacedTyped, EightTyped
<1> HIDE DEF off, size, c
<1> QED
  BY <1>3, <1>4, <1>7, <1>8, <1>9

\* A visit after argument i has been pushed.
Pushing(visit, visit2, i) ==
  /\ visit2.call = visit.call /\ visit2.depth = visit.depth /\ visit2.base = visit.base
  /\ visit2.result = visit.result /\ visit2.left = visit.left \ {i}

(* The places of the arguments are those of the call.                      *)
LEMMA SamePlaced ==
  ASSUME NEW visit, NEW visit2, visit2.call = visit.call, visit2.result = visit.result,
         visit2.base = visit.base, visit2.depth = visit.depth
  PROVE  /\ \A i : PlacedAt(visit2, i) = PlacedAt(visit, i)
         /\ \A slot, i : ArgPlaced(slot, visit2, i) <=> ArgPlaced(slot, visit, i)
         /\ ResultRight(visit2) <=> ResultRight(visit)
         /\ FirstSlot(visit2) = FirstSlot(visit)
<1>1. \A i : PlacedAt(visit2, i) = PlacedAt(visit, i)
  BY DEF PlacedAt, Start
<1>2. \A slot, i : ArgPlaced(slot, visit2, i) <=> ArgPlaced(slot, visit, i)
  BY <1>1 DEF ArgPlaced
<1> QED
  BY <1>1, <1>2 DEF ResultRight, FirstSlot

(* An argument for a register is pushed: those in memory all have been.    *)
LEMMA RegisterPush ==
  ASSUME NEW sl, NEW sl2, NEW visit \in Visit, NEW visit2 \in Visit, NEW d \in Nat,
         NEW off \in Int, NEW off2, visit.call \in Calls,
         NEW i \in RegArgsOf(visit.call), i \in visit.left,
         Pushing(visit, visit2, i), visit.base <= 0,
         FirstSlot(visit) + Cardinality(MemoryPushed(visit)) <= d, Same(sl, sl2, d),
         MemoryArgsPlaced(sl, visit), ArgsPlaced(visit, off), off2 = off - 8
  PROVE  MemoryArgsPlaced(sl2, visit2) /\ ArgsPlaced(visit2, off2)
<1> DEFINE c == visit.call
           m == Cardinality(MemoryPushed(visit))
           from == FirstSlot(visit)
           pushed == Pushed(visit)
           pushed2 == Pushed(visit2)
<1>1. /\ MemArgsOf(c) = DOMAIN c.args \ RegArgsOf(c) /\ Len(c.args) \in Nat
      /\ IsFiniteSet(RegArgsOf(c))
  BY CallCounted
<1>2. /\ \A j : PlacedAt(visit2, j) = PlacedAt(visit, j)
      /\ \A slot, j : ArgPlaced(slot, visit2, j) <=> ArgPlaced(slot, visit, j)
      /\ FirstSlot(visit2) = from /\ visit2.call = c
  BY SamePlaced DEF Pushing
<1>3. \A j \in MemArgsOf(c) : j \in visit2.left <=> j \in visit.left
  BY <1>1 DEF Pushing
<1>4. MemoryPushed(visit2) = MemoryPushed(visit)
  BY <1>2, <1>3 DEF MemoryPushed
<1>5. MemoryArgsPlaced(sl2, visit2)
  <2>1. m \in Nat /\ from \in Nat /\ from + m <= d
    BY MemoryTyped
  <2> HIDE DEF m, from
  <2>2. \A n \in 1..m : sl2[from + n] = sl[from + n]
    <3> TAKE n \in 1..m
    <3>1. from + n \in 1..d
      BY <2>1
    <3> QED
      BY <3>1 DEF Same
  <2>3. Cardinality(MemoryPushed(visit2)) = m /\ FirstSlot(visit) = from
    BY <1>4 DEF m, from
  <2>4. \A j \in MemoryPushed(visit) : \E n \in 1..m : ArgPlaced(sl[from + n], visit, j)
    BY DEF MemoryArgsPlaced, m, from
  <2>5. \A j \in MemoryPushed(visit2) : \E n \in 1..m : ArgPlaced(sl2[from + n], visit2, j)
    BY <1>2, <1>4, <2>2, <2>4
  <2> QED
    BY <1>2, <2>3, <2>5 DEF MemoryArgsPlaced
<1>6. Cardinality(pushed2) = Cardinality(pushed) + 1 /\ Cardinality(pushed) \in Nat
  <2>1. pushed2 = pushed \cup {i} /\ i \notin pushed
    BY <1>2 DEF Pushed, Pushing
  <2>2. IsFiniteSet(pushed)
    BY <1>1, FS_Subset DEF Pushed
  <2> HIDE DEF pushed, pushed2
  <2> QED
    BY <2>1, <2>2, AddOne, FS_CardinalityType
<1>7. ArgsPlaced(visit2, off2)
  <2>1. PICK k \in 1..(Len(c.args) + 1) :
          /\ \A j \in MemArgsOf(c) : j \in visit.left <=> j < k
          /\ off = PlacedAt(visit, k) - 8 * Cardinality(pushed)
    BY DEF ArgsPlaced
  <2>2. PlacedAt(visit, k) \in Int
    BY PlacedTyped
  <2> DEFINE x == PlacedAt(visit, k)
             y == Cardinality(pushed)
  <2> HIDE DEF x, y
  <2>3. x \in Int /\ y \in Nat /\ off = x - 8 * y
    BY <1>6, <2>1, <2>2 DEF x, y
  <2>4. off2 = x - 8 * (y + 1)
    BY <2>3
  <2>5. off2 = PlacedAt(visit2, k) - 8 * Cardinality(Pushed(visit2))
    BY <1>2, <1>6, <2>4 DEF x, y
  <2>6. \A j \in MemArgsOf(c) : j \in visit2.left <=> j < k
    BY <1>3, <2>1
  <2> HIDE DEF pushed, pushed2, c
  <2> QED
    BY <1>2, <2>5, <2>6 DEF ArgsPlaced
<1> QED
  BY <1>5, <1>7

(* An argument in memory is pushed.                                        *)
LEMMA MemoryPush ==
  ASSUME NEW sl, NEW sl2, NEW visit \in Visit, NEW visit2 \in Visit, NEW d \in Nat,
         NEW off, NEW off2 \in Int, visit.call \in Calls,
         NEW i \in MemArgsOf(visit.call), i \in visit.left,
         \A j \in MemArgsOf(visit.call) \cap visit.left : j <= i,
         visit.left \subseteq DOMAIN visit.call.args,
         Pushing(visit, visit2, i), visit.base <= 0, ResultRight(visit),
         ArgsRight(sl, visit, d, off), Same(sl, sl2, d),
         MemoryArgsPlaced(sl, visit), ArgsPlaced(visit, off),
         PushedTo(visit.call, i, off, off2), sl2[d + 1].arg = i, sl2[d + 1].lo = off2,
         off <= 0 => sl2[d + 1].whole \/ visit.call.args[i].align > 8
  PROVE  MemoryArgsPlaced(sl2, visit2) /\ ArgsPlaced(visit2, off2)
<1> DEFINE c == visit.call
           m == Cardinality(MemoryPushed(visit))
           from == FirstSlot(visit)
<1>1. /\ MemArgsOf(c) = DOMAIN c.args \ RegArgsOf(c) /\ Len(c.args) \in Nat
      /\ DOMAIN c.args = 1..Len(c.args) /\ RegArgsOf(c) \subseteq DOMAIN c.args
  BY CallCounted
<1>2. /\ \A j : PlacedAt(visit2, j) = PlacedAt(visit, j)
      /\ \A slot, j : ArgPlaced(slot, visit2, j) <=> ArgPlaced(slot, visit, j)
      /\ FirstSlot(visit2) = from /\ visit2.call = c
  BY SamePlaced DEF Pushing
<1>3. Pushed(visit) = {} /\ Pushed(visit2) = {}
  <2>1. visit.left \cap MemArgsOf(c) # {}
    OBVIOUS
  <2>2. Pushed(visit) = {}
    BY <2>1 DEF ArgsRight, Pushed
  <2>3. i \notin RegArgsOf(c)
    BY <1>1
  <2> QED
    BY <1>2, <2>2, <2>3 DEF Pushed, Pushing
<1>4. Cardinality({}) = 0
  BY FS_EmptySet
<1>5. PICK k \in 1..(Len(c.args) + 1) :
        /\ \A j \in MemArgsOf(c) : j \in visit.left <=> j < k
        /\ off = PlacedAt(visit, k) - 8 * Cardinality(Pushed(visit))
  BY DEF ArgsPlaced
<1>6. PlacedAt(visit, k) \in Int /\ PlacedAt(visit, k) <= 0
  BY PlacedTyped, PlacedLow
<1>7. off = PlacedAt(visit, k)
  <2>1. off = PlacedAt(visit, k) - 8 * 0
    BY <1>3, <1>4, <1>5
  <2> QED
    BY <1>6, <2>1
<1>8. i < k /\ \A j \in MemArgsOf(c) : j < k => j <= i
  BY <1>5
<1>9. off2 = PlacedAt(visit, i)
  BY <1>7, <1>8, MemoryPushPlaced
<1>10. ArgsPlaced(visit2, off2)
  <2>1. i \in 1..(Len(c.args) + 1)
    BY <1>1
  <2>2. off2 = PlacedAt(visit2, i) - 8 * Cardinality(Pushed(visit2))
    <3>1. off2 = PlacedAt(visit2, i) /\ Cardinality(Pushed(visit2)) = 0
      BY <1>2, <1>3, <1>4, <1>9
    <3> QED
      BY <3>1
  <2>3. ASSUME NEW j \in MemArgsOf(c)
        PROVE  j \in visit2.left <=> j < i
    <3>1. j \in visit2.left <=> j \in visit.left /\ j # i
      BY DEF Pushing
    <3>2. j \in Nat /\ i \in Nat /\ k \in Nat
      BY <1>1, <1>5
    <3> QED
      BY <1>5, <1>8, <3>1, <3>2
  <2> HIDE DEF c
  <2> QED
    BY <1>2, <2>1, <2>2, <2>3 DEF ArgsPlaced
<1>11. MemoryArgsPlaced(sl2, visit2)
  <2>1. m \in Nat /\ from \in Nat /\ IsFiniteSet(MemoryPushed(visit))
    BY MemoryTyped
  <2>2. d = from + m
    <3>1. DOMAIN c.args \ visit.left = MemoryPushed(visit)
      BY <1>1, <1>3 DEF MemoryPushed, Pushed
    <3> QED
      BY <3>1 DEF ArgsRight, FirstSlot
  <2>3. MemoryPushed(visit2) = MemoryPushed(visit) \cup {i} /\ i \notin MemoryPushed(visit)
    BY <1>2 DEF MemoryPushed, Pushing
  <2>4. Cardinality(MemoryPushed(visit2)) = m + 1
    BY <2>1, <2>3, AddOne
  <2>5. \A j \in MemoryPushed(visit) : \E n \in 1..m : ArgPlaced(sl[from + n], visit, j)
    BY DEF MemoryArgsPlaced
  <2>6. ArgPlaced(sl2[d + 1], visit, i)
    BY <1>6, <1>7, <1>9 DEF ArgPlaced
  <2> HIDE DEF m, from, c
  <2>7. ASSUME NEW j \in MemoryPushed(visit2)
        PROVE  \E n \in 1..(m + 1) : ArgPlaced(sl2[from + n], visit2, j)
    <3>1. CASE j = i
      <4>1. m + 1 \in 1..(m + 1) /\ from + (m + 1) = d + 1
        BY <2>1, <2>2
      <4> QED
        BY <1>2, <2>6, <3>1, <4>1
    <3>2. CASE j \in MemoryPushed(visit)
      <4>1. PICK n \in 1..m : ArgPlaced(sl[from + n], visit, j)
        BY <2>5, <3>2
      <4>2. from + n \in 1..d /\ n \in 1..(m + 1)
        BY <2>1, <2>2
      <4>3. sl2[from + n] = sl[from + n]
        BY <4>2 DEF Same
      <4> QED
        BY <1>2, <4>1, <4>2, <4>3
    <3> QED
      BY <2>3, <3>1, <3>2
  <2> QED
    BY <1>2, <2>4, <2>7 DEF MemoryArgsPlaced
<1> QED
  BY <1>10, <1>11

(* With all arguments pushed, those for registers are taken back.          *)
LEMMA Loaded ==
  ASSUME NEW sl, NEW sl2, NEW visit \in Visit, NEW visit2 \in Visit, NEW d \in Nat,
         NEW off, NEW off2, NEW n, NEW d2,
         n = Cardinality(RegArgsOf(visit.call)), off2 = off + 8 * n, d2 = d - n,
         visit.call \in Calls, visit.left = {}, visit2.left = {},
         visit2.call = visit.call, visit2.depth = visit.depth, visit2.base = visit.base,
         visit2.result = visit.result,
         ArgsRight(sl, visit, d, off), Same(sl, sl2, d2),
         MemoryArgsPlaced(sl, visit), ArgsPlaced(visit, off)
  PROVE  MemoryArgsPlaced(sl2, visit2) /\ LoadedRight(visit2, d2, off2)
<1> DEFINE c == visit.call
           m == Cardinality(MemArgsOf(c))
           from == FirstSlot(visit)
<1>1. /\ MemArgsOf(c) = DOMAIN c.args \ RegArgsOf(c) /\ Len(c.args) \in Nat
      /\ DOMAIN c.args = 1..Len(c.args) /\ RegArgsOf(c) \subseteq DOMAIN c.args
      /\ m \in Nat /\ n \in Nat /\ m + n = Len(c.args)
      /\ \A j \in DOMAIN c.args : j \in RegArgsOf(c) <=> InRegister(c.args, Hidden(c.callee), j)
  BY CallCounted
<1>2. /\ \A j : PlacedAt(visit2, j) = PlacedAt(visit, j)
      /\ \A slot, j : ArgPlaced(slot, visit2, j) <=> ArgPlaced(slot, visit, j)
      /\ FirstSlot(visit2) = from /\ visit2.call = c
  BY SamePlaced
<1>3. d = from + (m + n) /\ from \in Nat
  <2>1. DOMAIN c.args \ visit.left = 1..Len(c.args)
    BY <1>1
  <2>2. Cardinality(1..Len(c.args)) = Len(c.args)
    BY <1>1, PlacesCounted
  <2>3. from \in Nat
    BY MemoryTyped
  <2> QED
    BY <1>1, <2>1, <2>2, <2>3 DEF ArgsRight, FirstSlot
<1>4. MemoryPushed(visit) = MemArgsOf(c) /\ MemoryPushed(visit2) = MemArgsOf(c)
      /\ Pushed(visit) = RegArgsOf(c)
  BY <1>2 DEF MemoryPushed, Pushed
<1>5. MemoryArgsPlaced(sl2, visit2)
  <2>1. \A j \in MemArgsOf(c) : \E l \in 1..m : ArgPlaced(sl[from + l], visit, j)
    BY <1>4 DEF MemoryArgsPlaced
  <2> HIDE DEF m, from
  <2>2. \A l \in 1..m : sl2[from + l] = sl[from + l]
    <3> TAKE l \in 1..m
    <3>1. d2 = from + m
      BY <1>1, <1>3
    <3>2. from + l \in 1..d2
      BY <1>1, <1>3, <3>1 DEF m
    <3> QED
      BY <3>2 DEF Same
  <2>3. \A j \in MemArgsOf(c) : \E l \in 1..m : ArgPlaced(sl2[from + l], visit2, j)
    BY <1>2, <2>1, <2>2
  <2> QED
    BY <1>2, <1>4, <2>3 DEF MemoryArgsPlaced, m
<1>6. off2 = PlacedAt(visit2, 1)
  <2>1. PICK k \in 1..(Len(c.args) + 1) :
          /\ \A j \in MemArgsOf(c) : j \in visit.left <=> j < k
          /\ off = PlacedAt(visit, k) - 8 * Cardinality(Pushed(visit))
    BY DEF ArgsPlaced
  <2>2. \A j \in 1..(k - 1) : InRegister(c.args, Hidden(c.callee), j)
    <3> TAKE j \in 1..(k - 1)
    <3>1. j \in DOMAIN c.args /\ j < k
      BY <1>1
    <3>2. j \notin MemArgsOf(c)
      BY <2>1, <3>1
    <3> QED
      BY <1>1, <3>1, <3>2
  <2>3. PlaceOf(c, k) = PlaceOf(c, 1)
    <3> DEFINE ts == c.args
               h == Hidden(c.callee)
    <3>a. Len(ts) \in Nat
      BY <1>1
    <3>b. ts \in Seq(Types)
      BY ArgsAgree
    <3>1. ts \in Seq(Types) /\ 1 \in 1..(Len(ts) + 1) /\ k \in 1..(Len(ts) + 1)
      BY <3>a, <3>b
    <3>2. \A j \in 1..(k - 1) : InRegister(ts, h, j)
      BY <2>2
    <3> HIDE DEF ts, h, m, from, c
    <3>3. Places(ts, h)[1] = Places(ts, h)[k]
      BY <3>1, <3>2, PlaceGrows
    <3> QED
      BY <3>3 DEF PlaceOf, ts, h
  <2>4. PlacedAt(visit, k) = PlacedAt(visit, 1)
    BY <2>3 DEF PlacedAt
  <2>5. PlacedAt(visit, k) \in Int
    BY PlacedTyped
  <2> DEFINE x == PlacedAt(visit, k)
  <2>6. x \in Int /\ off = x - 8 * n /\ PlacedAt(visit2, 1) = x
    BY <1>2, <1>4, <2>1, <2>4, <2>5
  <2> HIDE DEF x
  <2> QED
    BY <1>1, <2>6
<1>7. d2 = FirstSlot(visit2) + Cardinality(MemArgsOf(visit2.call))
  <2> HIDE DEF m, from
  <2>1. d2 = from + m
    BY <1>1, <1>3
  <2> QED
    BY <1>2, <2>1 DEF m
<1> QED
  BY <1>5, <1>6, <1>7 DEF LoadedRight

(* An operand is spilled: nothing is placed by that.                       *)
LEMMA SpillPlaces ==
  ASSUME IInv, VisitsPlaced(slots, offset, pending), Spill
  PROVE  VisitsPlaced(slots', offset', pending')
<1> DEFINE visit == [stage |-> "spilled", base |-> offset, depth |-> Len(slots),
                     call |-> NoCall, left |-> {}, result |-> 0]
           s == SlotAt(offset - 8, 8)
<1>1. /\ pending' = Append(pending, visit) /\ offset' = offset - 8
      /\ slots' = Append(slots, s)
  BY DEF Spill, Begin, Take
<1>2. /\ slots \in Seq(Slot) /\ offset \in Int /\ pending \in Seq(Visit)
      /\ Len(slots) \in Nat /\ VisitsRight(slots, offset, pending)
  BY FrameTyped
<1>3. /\ visit \in Visit /\ visit.depth = Len(slots) /\ visit.base = offset
      /\ visit.stage = "spilled"
  BY <1>2 DEF Visit
<1>4. s \in Slot /\ offset - 8 \in Int
  BY <1>2, SlotAtTyped
<1> HIDE DEF visit, s
<1> DEFINE sl2 == slots'
           off2 == offset'
<1>5. sl2 \in Seq(Slot) /\ Same(slots, sl2, Len(slots)) /\ Len(slots) <= Len(sl2)
  BY <1>1, <1>2, <1>4, SameAppend
<1>6. off2 \in Int
  BY <1>1, <1>4
<1> HIDE DEF sl2, off2
<1>7. VisitPlaced(sl2, visit, Len(sl2), off2)
  BY <1>3 DEF VisitPlaced
<1>8. VisitsPlaced(sl2, off2, Append(pending, visit))
  BY <1>2, <1>3, <1>5, <1>6, <1>7, EnterPlaced
<1> QED
  BY <1>1, <1>8 DEF sl2, off2

(* A call begins with offset_ at the place behind its last argument.       *)
LEMMA BeginCallPlaces ==
  ASSUME IInv, VisitsPlaced(slots, offset, pending), NEW c \in Calls, BeginCall(c)
  PROVE  VisitsPlaced(slots', offset', pending')
<1> DEFINE ret == RetStructOffset(c)
           width == c.callee.ret.width
           visit == [stage |-> "args", base |-> offset, depth |-> Len(slots),
                     call |-> c, left |-> DOMAIN c.args, result |-> ret]
           s == SlotAt(ret, width)
           h == Hidden(c.callee)
           sl2 == slots'
           off2 == offset'
<1>1. /\ pending' = Append(pending, visit) /\ off2 = AlignFrame(ret, ByMemCnt(c))
      /\ sl2 = IF h = 0 THEN slots ELSE Append(slots, s)
  BY DEF BeginCall, EnterCall, Begin
<1>2. /\ slots \in Seq(Slot) /\ offset \in Int /\ pending \in Seq(Visit)
      /\ Len(slots) \in Nat /\ VisitsRight(slots, offset, pending)
  BY FrameTyped
<1>3. width \in Nat \ {0} /\ c.callee.ret.align \in Nat \ {0}
  BY FrameAssumption
<1>4. ret \in Int
  <2>1. h = 0 => ret = offset
    BY DEF RetStructOffset
  <2>2. h # 0 => ret = MakeAlign(offset - width, c.callee.ret.align)
    BY DEF RetStructOffset
  <2> HIDE DEF width
  <2>3. offset - width \in Int
    BY <1>2, <1>3
  <2>4. MakeAlign(offset - width, c.callee.ret.align) \in Int
    BY <1>3, <2>3, MakeAlignDown
  <2> HIDE DEF ret, h
  <2> QED
    BY <1>2, <2>1, <2>2, <2>4
<1>5. h \in {0, 1} /\ DOMAIN c.args \subseteq Nat /\ ByMemCnt(c) \in Int
  BY HiddenTyped, RegistersOfCall
<1>6. visit \in Visit /\ visit.depth = Len(slots) /\ visit.base = offset /\ visit.stage = "args"
      /\ visit.call = c /\ visit.left = DOMAIN c.args /\ visit.result = ret
  BY <1>2, <1>4, <1>5 DEF Visit
<1>7. s \in Slot
  BY <1>3, <1>4, SlotAtTyped
<1>8. ResultRight(visit)
  BY <1>6 DEF ResultRight, RetStructOffset
<1> HIDE DEF visit, s, ret, width, h, sl2, off2
<1>9. sl2 \in Seq(Slot) /\ Same(slots, sl2, Len(slots)) /\ Len(slots) <= Len(sl2)
  <2>1. CASE h = 0
    BY <1>1, <1>2, <2>1 DEF Same
  <2>2. CASE h = 1
    BY <1>1, <1>2, <1>7, <2>2, SameAppend
  <2> QED
    BY <1>5, <2>1, <2>2
<1>10. off2 \in Int /\ off2 = Start(visit)
  <2>1. off2 \in Int
    BY <1>1, <1>4, <1>5, FrameOnEight
  <2> QED
    BY <1>1, <1>6, <2>1 DEF Start
<1>11. MemArgsOf(c) \subseteq DOMAIN c.args /\ Len(c.args) \in Nat /\ DOMAIN c.args = 1..Len(c.args)
       /\ RegArgsOf(c) \subseteq DOMAIN c.args
  BY CallCounted
<1>12. MemoryArgsPlaced(sl2, visit)
  <2>1. MemoryPushed(visit) = {}
    BY <1>6, <1>11 DEF MemoryPushed
  <2> QED
    BY <2>1 DEF MemoryArgsPlaced
<1>13. ArgsPlaced(visit, off2)
  <2> DEFINE k == Len(c.args) + 1
  <2>1. k \in 1..(Len(c.args) + 1) /\ \A i \in DOMAIN c.args : i < k
    BY <1>11
  <2>2. PlaceOf(c, k) \in Nat
    BY <1>6, <2>1, PlacedTyped
  <2> HIDE DEF k
  <2>3. PlacedAt(visit, k) = off2 - PlaceOf(c, k) + PlaceOf(c, k)
    BY <1>6, <1>10 DEF PlacedAt, k
  <2>4. Pushed(visit) = {} /\ Cardinality({}) = 0
    BY <1>6, <1>11, FS_EmptySet DEF Pushed
  <2>5. off2 = PlacedAt(visit, k) - 8 * 0
    BY <1>10, <2>2, <2>3
  <2>6. off2 = PlacedAt(visit, k) - 8 * Cardinality(Pushed(visit))
    BY <2>4, <2>5
  <2>7. \A i \in MemArgsOf(c) : i \in visit.left <=> i < k
    BY <1>6, <1>11, <2>1
  <2> QED
    BY <1>6, <2>1, <2>6, <2>7, Zenon DEF ArgsPlaced
<1>14. VisitPlaced(sl2, visit, Len(sl2), off2)
  <2>1. "args" # "designator"
    OBVIOUS
  <2> QED
    BY <1>6, <1>8, <1>12, <1>13, <2>1 DEF VisitPlaced
<1>15. VisitsPlaced(sl2, off2, Append(pending, visit))
  BY <1>2, <1>6, <1>9, <1>10, <1>14, EnterPlaced
<1> QED
  BY <1>1, <1>15 DEF sl2, off2

\* A struct that a call has just returned is where the next push of it copies it from: in
\* the place that a struct of its type would take at offset_.
ValueRight(val, off) ==
  val # NoStruct =>
    /\ val.type.class = "MEMORY"
    /\ val.lo = MakeAlign(off - val.type.width, val.type.align)

(* Copied upwards to a place no higher, an argument of at most eight bytes' alignment is whole. *)
LEMMA CopyWhole ==
  ASSUME NEW c \in Calls, NEW i \in DOMAIN c.args, NEW off \in Int, off <= 0,
         c.args[i].class = "MEMORY", c.args[i].align <= 8, NEW from, NEW to, NEW width,
         from = MakeAlign(off - c.args[i].width, c.args[i].align),
         to = MakeAlign(off - c.args[i].width, 8)
  PROVE  CopiedWhole(from, to, width)
<1> DEFINE type == c.args[i]
           x == off - type.width
<1>1. type.width \in Nat \ {0} /\ type.align \in Nat \ {0} /\ 8 % type.align = 0
  BY ArgTyped
<1>2. x \in Int /\ x <= 0
  <2> HIDE DEF type
  <2> QED
    BY <1>1
<1> HIDE DEF x
<1>3. MakeAlign(x, 8) <= MakeAlign(x, type.align)
  BY <1>1, <1>2, EightIsLower
<1>4. to <= from
  BY <1>3 DEF x
<1> QED
  BY <1>4 DEF CopiedWhole

(* An argument is pushed to the place that it has in the call.             *)
LEMMA PushArgPlaces ==
  ASSUME IInv, VisitsPlaced(slots, offset, pending), ValueRight(value, offset),
         NEW i \in Top.left, PushArg(i)
  PROVE  VisitsPlaced(slots', offset', pending')
<1> DEFINE c == Top.call
           type == c.args[i]
           width == IF type.class = "MEMORY" THEN type.width ELSE 8
           lo == IF type.class = "MEMORY" THEN MakeAlign(offset - width, 8) ELSE offset - 8
           visit == [Top EXCEPT !.left = @ \ {i}]
           n == Len(slots)
           sl2 == slots'
           off2 == offset'
<1>1. /\ pending # <<>> /\ Top.stage = "args" /\ NextArg(Top, i) /\ off2 = lo
      /\ pending' = [pending EXCEPT ![Len(pending)].left = @ \ {i}]
  BY DEF PushArg
<1>2. PICK whole \in BOOLEAN :
        /\ whole \/ /\ value # NoStruct /\ value.type = type
                    /\ whole = CopiedWhole(value.lo, lo, width)
        /\ sl2 = Append(slots, [lo |-> lo, hi |-> lo + width, arg |-> i, whole |-> whole])
  BY DEF PushArg, Take
<1> DEFINE s == [lo |-> lo, hi |-> lo + width, arg |-> i, whole |-> whole]
<1>3. /\ slots \in Seq(Slot) /\ offset \in Int /\ pending \in Seq(Visit) /\ n \in Nat
      /\ VisitsRight(slots, offset, pending) /\ DOMAIN pending = 1..Len(pending)
  BY FrameTyped
<1>4. /\ Len(pending) \in Nat \ {0} /\ Top = pending[Len(pending)] /\ Top = Last(pending)
      /\ Top \in Visit /\ Top.depth \in 0..n /\ VisitRight(slots, Top, n, offset)
  BY <1>1, TopTyped DEF Top
<1>5. c \in Calls /\ Top.left \subseteq DOMAIN c.args /\ ArgsRight(slots, Top, n, offset)
  BY <1>1, <1>4 DEF VisitRight
<1>6. i \in DOMAIN c.args /\ i \in Nat
  BY <1>5, CallCounted
<1>7. type.width \in Nat \ {0} /\ width \in Nat \ {0} /\ type.align \in Nat \ {0}
  BY <1>5, <1>6, ArgTyped
<1>8. lo \in Int
  <2>1. CASE type.class = "MEMORY"
    <3> HIDE DEF width
    <3>1. offset - width \in Int
      BY <1>3, <1>7
    <3>2. MakeAlign(offset - width, 8) \in Int
      BY <3>1, MakeAlignDown
    <3> QED
      BY <2>1, <3>2
  <2>2. CASE type.class # "MEMORY"
    BY <1>3, <2>2
  <2> QED
    BY <2>1, <2>2
<1>9. s \in Slot /\ s.lo = lo /\ s.arg = i /\ s.whole = whole
  <2> HIDE DEF lo, width
  <2>1. lo + width \in Int
    BY <1>7, <1>8
  <2> QED
    BY <1>6, <1>8, <2>1 DEF Slot
<1>10. visit \in Visit /\ visit.stage = "args" /\ Pushing(Top, visit, i)
  BY <1>1, <1>4 DEF Visit, Pushing
<1>11. pending' = [pending EXCEPT ![Len(pending)] = visit]
  BY <1>1, <1>3, <1>4
<1>12. PushedTo(c, i, offset, off2)
  BY <1>1 DEF PushedTo
<1>13. offset <= 0 => whole \/ type.align > 8
  <2> SUFFICES ASSUME offset <= 0, ~whole, type.align <= 8
               PROVE  FALSE
    BY <1>7
  <2>1. value # NoStruct /\ value.type = type /\ whole = CopiedWhole(value.lo, lo, width)
    BY <1>2
  <2>2. type.class = "MEMORY" /\ value.lo = MakeAlign(offset - type.width, type.align)
    BY <2>1 DEF ValueRight
  <2>3. lo = MakeAlign(offset - type.width, 8)
    BY <2>2
  <2> HIDE DEF lo, width
  <2>4. CopiedWhole(value.lo, lo, width)
    BY <1>3, <1>5, <1>6, <2>2, <2>3, CopyWhole
  <2> QED
    BY <2>1, <2>4
<1>14. VisitPlaced(slots, Top, n, offset)
  <2>1. Len(pending) \in DOMAIN pending
    BY <1>3, <1>4
  <2> QED
    BY <1>4, <2>1 DEF VisitsPlaced, DepthAt, OffsetAt
<1>15. ResultRight(Top) /\ (Top.base <= 0 => MemoryArgsPlaced(slots, Top) /\ ArgsPlaced(Top, offset))
  <2>1. Top.stage # "spilled"
    BY <1>1
  <2> QED
    BY <1>1, <1>14, <2>1 DEF VisitPlaced
<1>16. i \in RegArgsOf(c) => type.class # "MEMORY" /\ lo = offset - 8
  BY <1>5, <1>6, ArgTyped
<1>17. /\ visit.call = c /\ visit.depth = Top.depth /\ visit.base = Top.base
       /\ visit.result = Top.result
  BY <1>10 DEF Pushing
<1> HIDE DEF visit, s, lo, width, sl2, off2
<1>18. sl2 \in Seq(Slot) /\ sl2[n + 1] = s /\ Same(slots, sl2, n) /\ Len(sl2) = n + 1
  BY <1>2, <1>3, <1>9, SameAppend DEF s
<1>19. off2 \in Int
  BY <1>1, <1>8
<1>20. ASSUME Top.base <= 0
       PROVE  MemoryArgsPlaced(sl2, visit) /\ ArgsPlaced(visit, off2)
  <2>1. CASE i \in RegArgsOf(c)
    <3>1. FirstSlot(Top) + Cardinality(MemoryPushed(Top)) <= n
      <4>1. Top.stage # "spilled" /\ Top.stage # "designator"
        BY <1>1
      <4> QED
        BY <1>3, <1>4, <4>1, MemoryWithin
    <3>2. off2 = offset - 8
      BY <1>1, <1>16, <2>1
    <3> QED
      BY <1>3, <1>4, <1>5, <1>10, <1>15, <1>18, <1>20, <2>1, <3>1, <3>2, RegisterPush
  <2>2. CASE i \notin RegArgsOf(c)
    <3>1. i \in MemArgsOf(c)
      BY <1>5, <1>6, <2>2, CallCounted
    <3>2. \A j \in MemArgsOf(c) \cap Top.left : j <= i
      BY <1>1, <3>1 DEF NextArg
    <3>3. offset <= 0 => sl2[n + 1].whole \/ Top.call.args[i].align > 8
      BY <1>9, <1>13, <1>18
    <3>4. sl2[n + 1].arg = i /\ sl2[n + 1].lo = off2
      BY <1>1, <1>9, <1>18
    <3> QED
      BY <1>3, <1>4, <1>5, <1>10, <1>12, <1>15, <1>18, <1>19, <1>20, <3>1, <3>2, <3>3, <3>4,
         MemoryPush
  <2> QED
    BY <2>1, <2>2
<1>21. VisitPlaced(sl2, visit, Len(sl2), off2)
  <2>1. ResultRight(visit)
    BY <1>15, <1>17, SamePlaced
  <2>2. "args" # "designator"
    OBVIOUS
  <2> QED
    BY <1>10, <1>17, <1>20, <2>1, <2>2 DEF VisitPlaced
<1>22. Same(slots, sl2, visit.depth) /\ visit.depth <= Len(sl2)
  BY <1>3, <1>4, <1>17, <1>18 DEF Same
<1>23. VisitsPlaced(sl2, off2, [pending EXCEPT ![Len(pending)] = visit])
  BY <1>1, <1>3, <1>4, <1>10, <1>17, <1>18, <1>19, <1>21, <1>22, TopPlaced
<1> QED
  BY <1>11, <1>23 DEF sl2, off2

(* The arguments for registers are taken back, and the others are left in their places. *)
LEMMA LoadArgsPlaces ==
  ASSUME IInv, VisitsPlaced(slots, offset, pending), LoadArgs
  PROVE  VisitsPlaced(slots', offset', pending')
<1> DEFINE c == Top.call
           n == Cardinality(RegArgsOf(c))
           d == Len(slots)
           m == d - n
           visit == [Top EXCEPT !.stage = "designator"]
           sl2 == slots'
           off2 == offset'
<1>1. /\ pending # <<>> /\ Top.stage = "args" /\ Top.left = {} /\ off2 = offset + 8 * n
      /\ sl2 = SubSeq(slots, 1, m)
      /\ pending' = [pending EXCEPT ![Len(pending)].stage = "designator"]
  BY DEF LoadArgs
<1>2. /\ slots \in Seq(Slot) /\ offset \in Int /\ pending \in Seq(Visit) /\ d \in Nat
      /\ VisitsRight(slots, offset, pending) /\ DOMAIN pending = 1..Len(pending)
  BY FrameTyped
<1>3. /\ Len(pending) \in Nat \ {0} /\ Top = pending[Len(pending)] /\ Top = Last(pending)
      /\ Top \in Visit /\ Top.depth \in 0..d /\ VisitRight(slots, Top, d, offset)
  BY <1>1, TopTyped DEF Top
<1>4. c \in Calls /\ ArgsRight(slots, Top, d, offset)
  BY <1>1, <1>3 DEF VisitRight
<1>5. n \in Nat /\ Top.depth + n <= d
  <2>1. DOMAIN c.args \ Top.left = DOMAIN c.args
    BY <1>1
  <2>2. RegArgsOf(c) \subseteq DOMAIN c.args /\ IsFiniteSet(DOMAIN c.args)
    BY <1>4, RegistersOfCall
  <2>3. n <= Cardinality(DOMAIN c.args) /\ n \in Nat /\ Cardinality(DOMAIN c.args) \in Nat
    BY <2>2, FS_Subset, FS_CardinalityType
  <2>4. d = Top.depth + Hidden(c.callee) + Cardinality(DOMAIN c.args)
    BY <1>4, <2>1 DEF ArgsRight
  <2> HIDE DEF n, c, d
  <2> QED
    BY <1>2, <1>3, <2>3, <2>4, HiddenTyped
<1>6. /\ visit \in Visit /\ visit.depth = Top.depth /\ visit.base = Top.base
      /\ visit.call = Top.call /\ visit.stage = "designator" /\ visit.left = Top.left
      /\ visit.result = Top.result
  BY <1>1, <1>3 DEF Visit
<1>7. pending' = [pending EXCEPT ![Len(pending)] = visit]
  BY <1>1, <1>2, <1>3
<1>8. VisitPlaced(slots, Top, d, offset)
  <2>1. Len(pending) \in DOMAIN pending
    BY <1>2, <1>3
  <2> QED
    BY <1>3, <2>1 DEF VisitsPlaced, DepthAt, OffsetAt
<1>9. ResultRight(Top) /\ (Top.base <= 0 => MemoryArgsPlaced(slots, Top) /\ ArgsPlaced(Top, offset))
  <2>1. Top.stage # "spilled"
    BY <1>1
  <2> QED
    BY <1>1, <1>8, <2>1 DEF VisitPlaced
<1> HIDE DEF visit, sl2, off2
<1>10. m \in 0..d /\ Top.depth <= m
  <2> HIDE DEF n, d
  <2> QED
    BY <1>2, <1>3, <1>5
<1>11. sl2 \in Seq(Slot) /\ Len(sl2) = m /\ Same(slots, sl2, m)
  <2> HIDE DEF m
  <2> QED
    BY <1>1, <1>2, <1>10, Prefix
<1>12. off2 \in Int
  <2> HIDE DEF n
  <2> QED
    BY <1>1, <1>2, <1>5
<1>13. ASSUME Top.base <= 0
       PROVE  MemoryArgsPlaced(sl2, visit) /\ LoadedRight(visit, m, off2)
  <2>1. /\ n = Cardinality(RegArgsOf(Top.call)) /\ off2 = offset + 8 * n /\ m = d - n
        /\ Top.call \in Calls /\ Top.left = {} /\ visit.left = {}
        /\ ArgsRight(slots, Top, d, offset) /\ Same(slots, sl2, m)
        /\ MemoryArgsPlaced(slots, Top) /\ ArgsPlaced(Top, offset)
    BY <1>1, <1>4, <1>6, <1>9, <1>11, <1>13
  <2> HIDE DEF n, d, c, m
  <2> QED
    BY <1>2, <1>3, <1>6, <2>1, Loaded
<1>14. VisitPlaced(sl2, visit, Len(sl2), off2)
  <2>1. ResultRight(visit)
    BY <1>6, <1>9, SamePlaced
  <2>2. "args" # "designator"
    OBVIOUS
  <2> QED
    BY <1>6, <1>11, <1>13, <2>1, <2>2 DEF VisitPlaced
<1>15. Same(slots, sl2, visit.depth) /\ visit.depth <= Len(sl2)
  <2> HIDE DEF m
  <2> QED
    BY <1>2, <1>3, <1>6, <1>10, <1>11 DEF Same
<1>16. VisitsPlaced(sl2, off2, [pending EXCEPT ![Len(pending)] = visit])
  BY <1>1, <1>2, <1>3, <1>6, <1>11, <1>12, <1>14, <1>15, TopPlaced
<1> QED
  BY <1>7, <1>16 DEF sl2, off2

(* A visit is done: the others have their arguments where they were.       *)
LEMMA EndPlaces ==
  ASSUME IInv, VisitsPlaced(slots, offset, pending), pending # <<>>,
         slots' = SubSeq(slots, 1, Top.depth), pending' = Front(pending), offset' = Top.base
  PROVE  VisitsPlaced(slots', offset', pending')
<1> DEFINE m == Len(pending) - 1
           sl2 == slots'
           pe2 == pending'
           off2 == offset'
<1>1. /\ slots \in Seq(Slot) /\ offset \in Int /\ pending \in Seq(Visit)
      /\ VisitsRight(slots, offset, pending)
  BY FrameTyped
<1>2. /\ m \in Nat /\ Len(pending) = m + 1 /\ Top = pending[m + 1] /\ Top.depth \in 0..Len(slots)
      /\ DOMAIN pending = 1..(m + 1)
  BY <1>1, TopTyped, LenProperties
<1>3. pe2 = SubSeq(pending, 1, m)
  BY <1>2 DEF Front
<1>4. sl2 \in Seq(Slot) /\ Len(sl2) = Top.depth /\ Same(slots, sl2, Top.depth)
  BY <1>1, <1>2, Prefix
<1> HIDE DEF m, sl2, pe2, off2
<1>5. \A v \in 1..m : pending[v] \in Visit
  BY <1>1, <1>2, ElementOfSeq
<1>6. /\ pe2 \in Seq(Visit) /\ Len(pe2) = IF 1 <= m THEN m - 1 + 1 ELSE 0
      /\ \A v \in 1..(m - 1 + 1) : pe2[v] = pending[1 + v - 1]
  BY <1>2, <1>3, <1>5, SubSeqProperties
<1>7. Len(pe2) = m /\ \A v \in 1..m : pe2[v] = pending[v]
  <2>1. \A v \in 1..m : 1 + v - 1 = v /\ v \in 1..(m - 1 + 1)
    BY <1>2
  <2> QED
    BY <1>2, <1>6, <2>1
<1>8. off2 = pending[m + 1].base
  BY <1>2 DEF off2
<1>9. Same(slots, sl2, Len(sl2)) /\ Len(sl2) = pending[m + 1].depth
  BY <1>2, <1>4
<1>10. VisitsPlaced(sl2, off2, pe2)
  BY <1>1, <1>2, <1>4, <1>6, <1>7, <1>8, <1>9, ReturnPlaced
<1> QED
  BY <1>10 DEF sl2, off2, pe2

(* What was spilled is taken back.                                         *)
LEMMA RestorePlaces ==
  ASSUME IInv, VisitsPlaced(slots, offset, pending), Restore
  PROVE  VisitsPlaced(slots', offset', pending')
<1>1. /\ pending # <<>> /\ Top.stage = "spilled" /\ offset' = offset + 8
      /\ slots' = Front(slots) /\ pending' = Front(pending)
  BY DEF Restore
<1>2. /\ Len(slots) = Top.depth + 1 /\ offset = Top.base - 8
      /\ Top.depth \in Nat /\ Top.base \in Int /\ offset \in Int
  BY <1>1, TopTyped, FrameTyped DEF VisitRight
<1>3. slots' = SubSeq(slots, 1, Top.depth)
  BY <1>1, <1>2 DEF Front
<1>4. offset' = Top.base
  BY <1>1, <1>2
<1> QED
  BY <1>1, <1>3, <1>4, EndPlaces

(* The frame is reset behind a call, whose result is below it.             *)
LEMMA CallPlaces ==
  ASSUME IInv, VisitsPlaced(slots, offset, pending), Call
  PROVE  VisitsPlaced(slots', offset', pending') /\ ValueRight(value', offset')
<1> DEFINE c == Top.call
           ret == c.callee.ret
<1>1. /\ pending # <<>> /\ Top.stage = "designator"
      /\ value' = IF Hidden(c.callee) = 0 THEN NoStruct ELSE [lo |-> Top.result, type |-> ret]
      /\ offset' = Top.base /\ slots' = SubSeq(slots, 1, Top.depth)
      /\ pending' = Front(pending)
  BY DEF Call
<1>2. VisitsPlaced(slots', offset', pending')
  BY <1>1, EndPlaces
<1>3. Len(pending) \in DOMAIN pending /\ Top = pending[Len(pending)]
  BY <1>1, TopTyped, FrameTyped
<1>4. ResultRight(Top)
  <2>1. Top.stage # "spilled"
    BY <1>1
  <2> QED
    BY <1>3, <2>1 DEF VisitsPlaced, VisitPlaced
<1>5. CASE Hidden(c.callee) = 0
  BY <1>1, <1>2, <1>5 DEF ValueRight
<1>6. CASE Hidden(c.callee) # 0
  <2>1. value'.lo = Top.result /\ value'.type = ret
    BY <1>1, <1>6
  <2>2. ret.class = "MEMORY"
    BY <1>6 DEF Hidden
  <2>3. Top.result = MakeAlign(Top.base - ret.width, ret.align)
    BY <1>4, <1>6 DEF ResultRight
  <2> QED
    BY <1>1, <1>2, <2>1, <2>2, <2>3 DEF ValueRight
<1> QED
  BY <1>5, <1>6

\* The offsets into the save area of the next register behind the types in front of i: at
\* the end of each part when all its registers are taken.
GpAt(types, i) == 8 * Smaller(NReg, Before(types, i, "INTEGER"))
FpAt(types, i) == 8 * NReg + 16 * Smaller(NXreg, Before(types, i, "SSE"))

\* The place of argument i there, from the frame pointer of the callee.
SavedPlace(types, i) ==
  IF types[i].class = "SSE" THEN 8 * NReg + 16 * Before(types, i, "SSE") - SaveArea
  ELSE 8 * Before(types, i, "INTEGER") - SaveArea

\* What VisitFuncDef() has found out of the first parameters.
ParamsPlaced(f, pro) ==
  LET hidden == Hidden(f)
      n == Len(pro.params)
  IN  /\ n <= Len(f.params)
      /\ pro.mem = Places(f.params, hidden)[n + 1]
      /\ \A i \in 1..n : ~InRegister(f.params, hidden, i) =>
           pro.params[i] = Places(f.params, hidden)[i]
      /\ f.variadic =>
           /\ pro.reg = GpAt(f.params, n + 1) - SaveArea
           /\ pro.xreg = FpAt(f.params, n + 1) - SaveArea
           /\ \A i \in 1..n : InRegister(f.params, hidden, i) =>
                pro.params[i] = SavedPlace(f.params, i)

PrologueRight ==
  IF curFunc = NoFunc THEN prologue.params = <<>> /\ prologue.mem = 16
  ELSE ~SavedResult(curFunc) => ParamsPlaced(curFunc, prologue)

(* Counting up to a limit.                                                 *)
LEMMA SmallerSteps ==
  ASSUME NEW lim \in Nat, NEW b \in Nat
  PROVE  /\ Smaller(lim, b) \in Nat /\ (Smaller(lim, b) < lim <=> b < lim)
         /\ b < lim => Smaller(lim, b) = b /\ Smaller(lim, b + 1) = b + 1
         /\ ~(b < lim) => Smaller(lim, b) = lim /\ Smaller(lim, b + 1) = lim
BY DEF Smaller

(* The next places in the save area, and whether the next argument of a class is there. *)
LEMMA SavedSteps ==
  ASSUME NEW types, NEW i \in Nat \ {0}
  PROVE  /\ GpAt(types, i) \in Nat /\ FpAt(types, i) \in Nat /\ SaveArea \in Nat
         /\ Before(types, i, "INTEGER") \in Nat /\ Before(types, i, "SSE") \in Nat
         /\ GpAt(types, i) < 8 * NReg <=> Before(types, i, "INTEGER") < NReg
         /\ FpAt(types, i) < SaveArea <=> Before(types, i, "SSE") < NXreg
         /\ GpAt(types, i + 1) =
              IF types[i].class = "INTEGER" /\ GpAt(types, i) < 8 * NReg THEN GpAt(types, i) + 8
              ELSE GpAt(types, i)
         /\ FpAt(types, i + 1) =
              IF types[i].class = "SSE" /\ FpAt(types, i) < SaveArea THEN FpAt(types, i) + 16
              ELSE FpAt(types, i)
         /\ types[i].class = "INTEGER" /\ GpAt(types, i) < 8 * NReg =>
              GpAt(types, i) - SaveArea = SavedPlace(types, i)
         /\ types[i].class = "SSE" /\ FpAt(types, i) < SaveArea =>
              FpAt(types, i) - SaveArea = SavedPlace(types, i)
         /\ InRegister(types, 0, i) <=>
              \/ types[i].class = "INTEGER" /\ GpAt(types, i) < 8 * NReg
              \/ types[i].class = "SSE" /\ FpAt(types, i) < SaveArea
<1> DEFINE b == Before(types, i, "INTEGER")
           x == Before(types, i, "SSE")
           b2 == Before(types, i + 1, "INTEGER")
           x2 == Before(types, i + 1, "SSE")
           class == types[i].class
<1>1. /\ b \in Nat /\ x \in Nat
      /\ class = "INTEGER" => b2 = b + 1
      /\ class # "INTEGER" => b2 = b
      /\ class = "SSE" => x2 = x + 1
      /\ class # "SSE" => x2 = x
  BY BeforeSteps
<1>2. NReg \in Nat /\ NXreg \in Nat
  BY FrameAssumption
<1>3. /\ GpAt(types, i) = 8 * Smaller(NReg, b) /\ GpAt(types, i + 1) = 8 * Smaller(NReg, b2)
      /\ FpAt(types, i) = 8 * NReg + 16 * Smaller(NXreg, x)
      /\ FpAt(types, i + 1) = 8 * NReg + 16 * Smaller(NXreg, x2)
      /\ SaveArea = 8 * NReg + 16 * NXreg
  BY DEF GpAt, FpAt, SaveArea
<1>4. SavedPlace(types, i) = IF class = "SSE" THEN 8 * NReg + 16 * x - SaveArea
                             ELSE 8 * b - SaveArea
  BY DEF SavedPlace
<1>5. InRegister(types, 0, i) <=>
        (class = "INTEGER" /\ 0 + b < NReg) \/ (class = "SSE" /\ x < NXreg)
  BY DEF InRegister
<1> HIDE DEF b, x, b2, x2, class
<1>6. /\ Smaller(NReg, b) \in Nat /\ (Smaller(NReg, b) < NReg <=> b < NReg)
      /\ b < NReg => Smaller(NReg, b) = b /\ Smaller(NReg, b + 1) = b + 1
      /\ ~(b < NReg) => Smaller(NReg, b) = NReg /\ Smaller(NReg, b + 1) = NReg
  BY <1>1, <1>2, SmallerSteps
<1>7. /\ Smaller(NXreg, x) \in Nat /\ (Smaller(NXreg, x) < NXreg <=> x < NXreg)
      /\ x < NXreg => Smaller(NXreg, x) = x /\ Smaller(NXreg, x + 1) = x + 1
      /\ ~(x < NXreg) => Smaller(NXreg, x) = NXreg /\ Smaller(NXreg, x + 1) = NXreg
  BY <1>1, <1>2, SmallerSteps
<1>8. /\ GpAt(types, i) \in Nat /\ FpAt(types, i) \in Nat /\ SaveArea \in Nat
      /\ GpAt(types, i) < 8 * NReg <=> b < NReg
      /\ FpAt(types, i) < SaveArea <=> x < NXreg
  BY <1>1, <1>2, <1>3, <1>6, <1>7
<1>9. GpAt(types, i + 1) = IF class = "INTEGER" /\ b < NReg THEN GpAt(types, i) + 8
                           ELSE GpAt(types, i)
  BY <1>1, <1>2, <1>3, <1>6
<1>10. FpAt(types, i + 1) = IF class = "SSE" /\ x < NXreg THEN FpAt(types, i) + 16
                            ELSE FpAt(types, i)
  BY <1>1, <1>2, <1>3, <1>7
<1>11. /\ class = "INTEGER" /\ b < NReg => GpAt(types, i) - SaveArea = SavedPlace(types, i)
       /\ class = "SSE" /\ x < NXreg => FpAt(types, i) - SaveArea = SavedPlace(types, i)
  BY <1>1, <1>2, <1>3, <1>4, <1>6, <1>7, <1>8
<1>12. 0 + b = b
  BY <1>1
<1> QED
  BY <1>1, <1>5, <1>8, <1>9, <1>10, <1>11, <1>12 DEF b, x, class

\* What the code does for parameter i, whose place is x.
NextMem(f, pro, pro2, i, x) ==
  IF InRegister(f.params, Hidden(f), i) THEN pro2.mem = pro.mem
  ELSE x = pro.mem /\ pro2.mem = MakeAlign(pro.mem + f.params[i].width, 8)

NextSaved(f, pro, pro2, i, x) ==
  LET in == InRegister(f.params, Hidden(f), i)
      sse == f.params[i].class = "SSE"
  IN  /\ in => x = IF sse THEN pro.xreg ELSE pro.reg
      /\ pro2.reg = IF in /\ ~sse THEN pro.reg + 8 ELSE pro.reg
      /\ pro2.xreg = IF in /\ sse THEN pro.xreg + 16 ELSE pro.xreg

(* One more parameter.                                                     *)
LEMMA ParamPlaced ==
  ASSUME NEW f \in Functions, NEW pro, NEW pro2, pro.params \in Seq(Int), ParamsPlaced(f, pro),
         f.variadic => Hidden(f) = 0,
         NEW i \in DOMAIN f.params, i = Len(pro.params) + 1,
         NEW x \in Int, pro2.params = Append(pro.params, x),
         NextMem(f, pro, pro2, i, x), f.variadic => NextSaved(f, pro, pro2, i, x)
  PROVE  ParamsPlaced(f, pro2)
<1> DEFINE types == f.params
           hidden == Hidden(f)
           place == Places(types, hidden)
           n == Len(pro.params)
           params2 == Append(pro.params, x)
           In(j) == InRegister(types, hidden, j)
           in == InRegister(types, hidden, i)
<1>0. /\ in => pro2.mem = pro.mem
      /\ ~in => x = pro.mem /\ pro2.mem = MakeAlign(pro.mem + types[i].width, 8)
      /\ f.variadic =>
           /\ in => x = IF types[i].class = "SSE" THEN pro.xreg ELSE pro.reg
           /\ pro2.reg = IF in /\ types[i].class # "SSE" THEN pro.reg + 8 ELSE pro.reg
           /\ pro2.xreg = IF in /\ types[i].class = "SSE" THEN pro.xreg + 16 ELSE pro.xreg
  BY DEF NextMem, NextSaved
<1>1. types \in Seq(Types) /\ Len(types) \in Nat /\ DOMAIN types = 1..Len(types)
  BY FrameAssumption, LenProperties
<1>2. n \in Nat /\ Len(params2) = n + 1 /\ params2[n + 1] = x
      /\ \A j \in 1..n : params2[j] = pro.params[j]
  BY AppendProperties, LenProperties
<1>3. i = n + 1 /\ n + 1 \in 1..Len(types) /\ n + 1 \in 1..(Len(types) + 1) /\ i \in Nat \ {0}
  BY <1>1, <1>2
<1>4. /\ pro.mem = place[n + 1]
      /\ \A j \in 1..n : ~In(j) => pro.params[j] = place[j]
      /\ f.variadic =>
           /\ pro.reg = GpAt(types, n + 1) - SaveArea
           /\ pro.xreg = FpAt(types, n + 1) - SaveArea
           /\ \A j \in 1..n : In(j) => pro.params[j] = SavedPlace(types, j)
  BY DEF ParamsPlaced
<1>5. place[(n + 1) + 1] = place[n + 1] + Skip(types, hidden, n + 1)
  BY <1>1, <1>3, PlaceSteps
<1>6. place[n + 1] \in Nat /\ place[n + 1] % 8 = 0
  BY <1>1, <1>3, PlaceTyped
<1>7. types[i].width \in Nat
  BY <1>1, ElementOfSeq, FrameAssumption
<1>8. in <=> In(n + 1)
  BY <1>3
<1> HIDE DEF types, place, params2, n, In, hidden, in
<1>9. pro2.mem = place[(n + 1) + 1]
  <2>1. CASE in
    <3>1. Skip(types, hidden, n + 1) = 0
      BY <1>8, <2>1 DEF Skip, In
    <3>2. pro2.mem = place[n + 1]
      BY <1>0, <1>4, <2>1
    <3> QED
      BY <1>5, <1>6, <3>1, <3>2
  <2>2. CASE ~in
    <3>1. Skip(types, hidden, n + 1) = MakeAlign(types[i].width, 8)
      BY <1>3, <1>8, <2>2 DEF Skip, In
    <3>2. pro2.mem = MakeAlign(place[n + 1] + types[i].width, 8)
      BY <1>0, <1>4, <2>2
    <3>3. MakeAlign(place[n + 1] + types[i].width, 8) = place[n + 1] + MakeAlign(types[i].width, 8)
      BY <1>6, <1>7, EightUp
    <3> QED
      BY <1>5, <3>1, <3>2, <3>3
  <2> QED
    BY <2>1, <2>2
<1>10. \A j \in 1..(n + 1) : j \in 1..n \/ j = n + 1
  BY <1>2
<1>11. ASSUME NEW j \in 1..(n + 1), ~In(j)
       PROVE  params2[j] = place[j]
  <2>1. CASE j \in 1..n
    BY <1>2, <1>4, <1>11, <2>1
  <2>2. CASE j = n + 1
    BY <1>0, <1>2, <1>4, <1>8, <1>11, <2>2
  <2> QED
    BY <1>10, <2>1, <2>2
<1>12. ASSUME f.variadic
       PROVE  /\ pro2.reg = GpAt(types, (n + 1) + 1) - SaveArea
              /\ pro2.xreg = FpAt(types, (n + 1) + 1) - SaveArea
              /\ \A j \in 1..(n + 1) : In(j) => params2[j] = SavedPlace(types, j)
  <2> DEFINE gp == GpAt(types, i)
             fp == FpAt(types, i)
             class == types[i].class
             gpIn == class = "INTEGER" /\ gp < 8 * NReg
             fpIn == class = "SSE" /\ fp < SaveArea
  <2>1. /\ gp \in Nat /\ fp \in Nat /\ SaveArea \in Nat
        /\ GpAt(types, i + 1) = IF gpIn THEN gp + 8 ELSE gp
        /\ FpAt(types, i + 1) = IF fpIn THEN fp + 16 ELSE fp
        /\ gpIn => gp - SaveArea = SavedPlace(types, i)
        /\ fpIn => fp - SaveArea = SavedPlace(types, i)
        /\ InRegister(types, 0, i) <=> gpIn \/ fpIn
    BY <1>3, SavedSteps
  <2>2. in <=> gpIn \/ fpIn
    BY <1>3, <1>8, <1>12, <2>1 DEF In, hidden
  <2>3. (gpIn => class # "SSE") /\ (fpIn => class = "SSE")
    BY Zenon
  <2>4. /\ pro.reg = gp - SaveArea /\ pro.xreg = fp - SaveArea
    BY <1>3, <1>4, <1>12
  <2>5. /\ pro2.reg = IF in /\ class # "SSE" THEN pro.reg + 8 ELSE pro.reg
        /\ pro2.xreg = IF in /\ class = "SSE" THEN pro.xreg + 16 ELSE pro.xreg
        /\ in => x = IF class = "SSE" THEN pro.xreg ELSE pro.reg
    BY <1>0, <1>12
  <2> HIDE DEF gp, fp, gpIn, fpIn, class
  <2>6. pro2.reg = GpAt(types, i + 1) - SaveArea /\ pro2.xreg = FpAt(types, i + 1) - SaveArea
    <3>1. (in /\ class # "SSE" <=> gpIn) /\ (in /\ class = "SSE" <=> fpIn)
      BY <2>2, <2>3
    <3>2. pro2.reg = (IF gpIn THEN gp + 8 ELSE gp) - SaveArea
      BY <2>1, <2>4, <2>5, <3>1
    <3>3. pro2.xreg = (IF fpIn THEN fp + 16 ELSE fp) - SaveArea
      BY <2>1, <2>4, <2>5, <3>1
    <3> QED
      BY <2>1, <3>2, <3>3
  <2>7. in => x = SavedPlace(types, i)
    BY <2>1, <2>2, <2>3, <2>4, <2>5
  <2>8. \A j \in 1..(n + 1) : In(j) => params2[j] = SavedPlace(types, j)
    BY <1>2, <1>3, <1>4, <1>8, <1>10, <1>12, <2>7
  <2> QED
    BY <1>3, <2>6, <2>8
<1>13. n + 1 <= Len(types)
  BY <1>1, <1>2, <1>3
<1>14. pro2.params = params2
  BY DEF params2
<1> QED
  BY <1>2, <1>9, <1>11, <1>12, <1>13, <1>14 DEF ParamsPlaced, types, place, hidden, In, in

(* At the beginning of a function no parameter has its place.              *)
LEMMA FuncDefPlaces ==
  ASSUME IInv, PrologueRight, NEW f \in Functions, VisitFuncDef(f)
  PROVE  PrologueRight'
<1> DEFINE begin == IF f.variadic THEN -SaveArea ELSE 0
           ret == IF f.variadic THEN begin ELSE begin - 8
           low == IF Hidden(f) = 0 THEN begin ELSE IF f.variadic THEN begin + 8 ELSE ret
           pro2 == [prologue EXCEPT !.reg = low, !.xreg = low + 8 * NReg]
<1>1. curFunc = NoFunc /\ curFunc' = f /\ prologue' = pro2
  BY DEF VisitFuncDef
<1>2. prologue \in [params : Seq(Int), mem : Nat, reg : Int, xreg : Int]
  BY DEF IInv, TypeOK
<1>3. prologue.params = <<>> /\ prologue.mem = 16
  BY <1>1 DEF PrologueRight
<1>4. pro2.params = <<>> /\ pro2.mem = 16 /\ pro2.reg = low /\ pro2.xreg = low + 8 * NReg
  BY <1>2, <1>3
<1>5. f # NoFunc /\ f.params \in Seq(Types)
  BY FrameAssumption
<1>6. Len(f.params) \in Nat /\ Places(f.params, Hidden(f))[1] = 16
  BY <1>5, PlaceSteps
<1>7. ASSUME ~SavedResult(f), f.variadic
      PROVE  pro2.reg = GpAt(f.params, 1) - SaveArea /\ pro2.xreg = FpAt(f.params, 1) - SaveArea
  <2>1. Hidden(f) = 0
    BY <1>7, HiddenTyped DEF SavedResult
  <2>2. low = -SaveArea
    BY <1>7, <2>1
  <2>3. Before(f.params, 1, "INTEGER") = 0 /\ Before(f.params, 1, "SSE") = 0
    BY BeforeSteps
  <2>4. NReg \in Nat /\ NXreg \in Nat /\ SaveArea \in Nat
    BY FrameAssumption DEF SaveArea
  <2>5. Smaller(NReg, 0) = 0 /\ Smaller(NXreg, 0) = 0
    BY <2>4 DEF Smaller
  <2>6. GpAt(f.params, 1) = 0 /\ FpAt(f.params, 1) = 8 * NReg
    BY <2>3, <2>4, <2>5 DEF GpAt, FpAt
  <2> HIDE DEF pro2, low
  <2> QED
    BY <1>4, <2>2, <2>4, <2>6
<1> HIDE DEF pro2, low
<1>8. Len(<<>>) = 0 /\ 1..0 = {}
  OBVIOUS
<1>9. ~SavedResult(f) => ParamsPlaced(f, pro2)
  BY <1>4, <1>6, <1>7, <1>8 DEF ParamsPlaced
<1> QED
  BY <1>1, <1>5, <1>9 DEF PrologueRight

(* The place of a parameter in memory is behind that of the one in front, and a register is in *)
(* the next place of the save area.                                                            *)
LEMMA StoreParamPlaces ==
  ASSUME IInv, PrologueRight, StoreParam
  PROVE  PrologueRight'
<1> DEFINE f == curFunc
<1>1. f # NoFunc
  BY DEF StoreParam
<1>2. PICK i \in DOMAIN f.params :
        StoreMemoryParam(i) \/ StoreSavedParam(i) \/ StorePushedParam(i)
  BY DEF StoreParam
<1>3. i = Len(prologue.params) + 1 /\ curFunc' = curFunc
  BY <1>2 DEF StoreMemoryParam, StoreSavedParam, StorePushedParam, Storing
<1>4. f \in Functions /\ f.params[i].width \in Nat \ {0}
  BY <1>1, <1>3, StoringIdle DEF Storing
<1>5. prologue \in [params : Seq(Int), mem : Nat, reg : Int, xreg : Int] /\ offset \in Int
  BY DEF IInv, TypeOK
<1>6. CASE SavedResult(f)
  BY <1>1, <1>3, <1>6 DEF PrologueRight
<1>7. CASE ~SavedResult(f)
  <2> DEFINE pro2 == prologue'
  <2>1. ParamsPlaced(f, prologue) /\ (f.variadic => Hidden(f) = 0)
    BY <1>1, <1>7, HiddenTyped DEF PrologueRight, SavedResult
  <2>2. CASE StoreMemoryParam(i)
    <3> DEFINE mem == MakeAlign(prologue.mem + f.params[i].width, 8)
    <3>1. /\ pro2 = [prologue EXCEPT !.params = Append(@, prologue.mem), !.mem = mem]
          /\ ~InRegister(f.params, Hidden(f), i)
      BY <2>2 DEF StoreMemoryParam, ParamInRegister
    <3> HIDE DEF mem
    <3>2. /\ pro2.params = Append(prologue.params, prologue.mem) /\ pro2.mem = mem
          /\ pro2.reg = prologue.reg /\ pro2.xreg = prologue.xreg /\ prologue.mem \in Int
      BY <1>5, <3>1
    <3> HIDE DEF pro2, f
    <3>3. /\ NextMem(f, prologue, pro2, i, prologue.mem)
          /\ f.variadic => NextSaved(f, prologue, pro2, i, prologue.mem)
      BY <3>1, <3>2 DEF NextMem, NextSaved, mem
    <3>4. ParamsPlaced(f, pro2)
      BY <1>3, <1>4, <1>5, <2>1, <3>2, <3>3, ParamPlaced DEF f
    <3> QED
      BY <1>1, <1>3, <3>4 DEF PrologueRight, pro2, f
  <2>3. CASE StoreSavedParam(i)
    <3> DEFINE sse == f.params[i].class = "SSE"
               x == IF sse THEN prologue.xreg ELSE prologue.reg
    <3>1. /\ pro2 = IF sse
                    THEN [prologue EXCEPT !.params = Append(@, prologue.xreg), !.xreg = @ + 16]
                    ELSE [prologue EXCEPT !.params = Append(@, prologue.reg), !.reg = @ + 8]
          /\ InRegister(f.params, Hidden(f), i) /\ f.variadic
      BY <2>3 DEF StoreSavedParam, ParamInRegister
    <3>2. /\ pro2.params = Append(prologue.params, x) /\ pro2.mem = prologue.mem
          /\ pro2.reg = IF sse THEN prologue.reg ELSE prologue.reg + 8
          /\ pro2.xreg = IF sse THEN prologue.xreg + 16 ELSE prologue.xreg
          /\ x \in Int
      <4> HIDE DEF sse
      <4>1. CASE sse
        BY <1>5, <3>1, <4>1
      <4>2. CASE ~sse
        BY <1>5, <3>1, <4>2
      <4> QED
        BY <4>1, <4>2
    <3> HIDE DEF pro2, f, x
    <3>3. /\ NextMem(f, prologue, pro2, i, x)
          /\ f.variadic => NextSaved(f, prologue, pro2, i, x)
      BY <3>1, <3>2 DEF NextMem, NextSaved, x
    <3>4. ParamsPlaced(f, pro2)
      BY <1>3, <1>4, <1>5, <2>1, <3>2, <3>3, ParamPlaced DEF f
    <3> QED
      BY <1>1, <1>3, <3>4 DEF PrologueRight, pro2, f
  <2>4. CASE StorePushedParam(i)
    <3>1. /\ pro2 = [prologue EXCEPT !.params = Append(@, offset - 8)]
          /\ InRegister(f.params, Hidden(f), i) /\ ~f.variadic
      BY <2>4 DEF StorePushedParam, ParamInRegister
    <3>2. /\ pro2.params = Append(prologue.params, offset - 8) /\ pro2.mem = prologue.mem
          /\ offset - 8 \in Int
      BY <1>5, <3>1
    <3> HIDE DEF pro2, f
    <3>3. /\ NextMem(f, prologue, pro2, i, offset - 8)
          /\ f.variadic => NextSaved(f, prologue, pro2, i, offset - 8)
      BY <3>1, <3>2 DEF NextMem, NextSaved
    <3>4. ParamsPlaced(f, pro2)
      BY <1>3, <1>4, <1>5, <2>1, <3>2, <3>3, ParamPlaced DEF f
    <3> QED
      BY <1>1, <1>3, <3>4 DEF PrologueRight, pro2, f
  <2> QED
    BY <1>2, <2>2, <2>3, <2>4
<1> QED
  BY <1>6, <1>7

(* Those of a class that have fewer of it in front than there are registers are as many as *)
(* have registers.                                                                         *)
LEMMA CountUpTo ==
  ASSUME NEW types, NEW class, NEW lim \in Nat, NEW n \in Nat
  PROVE  Cardinality({j \in 1..n : types[j].class = class /\ Before(types, j, class) < lim})
           = Smaller(lim, Before(types, n + 1, class))
<1> DEFINE Of(k) == {j \in 1..k : types[j].class = class /\ Before(types, j, class) < lim}
           N == {k \in Nat : /\ IsFiniteSet(Of(k))
                             /\ Cardinality(Of(k)) = Smaller(lim, Before(types, k + 1, class))}
<1>1. 0 \in N
  <2>1. Of(0) = {} /\ IsFiniteSet({})
    BY FS_EmptySet
  <2>2. Cardinality({}) = 0 /\ Before(types, 0 + 1, class) = 0
    <3>1. Cardinality({}) = 0
      BY FS_EmptySet
    <3>2. Before(types, 1, class) = 0 /\ 0 + 1 = 1
      BY BeforeSteps
    <3> QED
      BY <3>1, <3>2
  <2>3. Smaller(lim, 0) = 0
    BY DEF Smaller
  <2> HIDE DEF Of
  <2> QED
    BY <2>1, <2>2, <2>3
<1>2. ASSUME NEW k \in N PROVE k + 1 \in N
  <2> DEFINE b == Before(types, k + 1, class)
             b2 == Before(types, (k + 1) + 1, class)
  <2>1. k \in Nat /\ IsFiniteSet(Of(k)) /\ Cardinality(Of(k)) = Smaller(lim, b)
    OBVIOUS
  <2>2. /\ b \in Nat
        /\ types[k + 1].class = class => b2 = b + 1
        /\ types[k + 1].class # class => b2 = b
    <3>1. k + 1 \in Nat \ {0}
      BY <2>1
    <3> QED
      BY <3>1, BeforeSteps
  <2>3. /\ b < lim => Smaller(lim, b) = b /\ Smaller(lim, b + 1) = b + 1
        /\ ~(b < lim) => Smaller(lim, b) = lim /\ Smaller(lim, b + 1) = lim
    <3> HIDE DEF b
    <3> QED
      BY <2>2, SmallerSteps
  <2>4. \A j \in 1..(k + 1) : j \in 1..k \/ j = k + 1
    BY <2>1
  <2>5. k + 1 \notin Of(k) /\ 1..k \subseteq 1..(k + 1) /\ k + 1 \in 1..(k + 1) /\ k + 1 \in Nat
    BY <2>1
  <2>6. IsFiniteSet(Of(k + 1)) /\ Cardinality(Of(k + 1)) = Smaller(lim, b2)
    <3>1. CASE types[k + 1].class = class /\ b < lim
      <4>1. Of(k + 1) = Of(k) \cup {k + 1}
        BY <2>4, <2>5, <3>1
      <4> HIDE DEF Of, b, b2, N
      <4>2. Cardinality(Of(k + 1)) = Cardinality(Of(k)) + 1 /\ IsFiniteSet(Of(k + 1))
        BY <2>1, <2>5, <4>1, AddOne, FS_AddElement
      <4> QED
        BY <2>1, <2>2, <2>3, <3>1, <4>2
    <3>2. CASE ~(types[k + 1].class = class /\ b < lim)
      <4>1. Of(k + 1) = Of(k)
        BY <2>4, <2>5, <3>2
      <4> HIDE DEF Of, b, b2, N
      <4> QED
        BY <2>1, <2>2, <2>3, <3>2, <4>1
    <3> QED
      BY <3>1, <3>2
  <2> HIDE DEF Of
  <2> QED
    BY <2>5, <2>6
<1>3. N = Nat
  <2> HIDE DEF N
  <2>1. N \in SUBSET Nat
    BY DEF N
  <2> QED
    BY <1>1, <1>2, <2>1, Counting
<1>4. n \in N
  BY <1>3
<1> QED
  BY <1>4

(* When every argument in memory takes one place, they are counted by those in registers. *)
LEMMA CountPlaces ==
  ASSUME NEW types \in Seq(Types),
         \A i \in DOMAIN types \ RegArgs(types, 0) : types[i].width <= 8
  PROVE  16 + 8 * (Len(types) - Cardinality(RegArgs(types, 0))) = Places(types, 0)[Len(types) + 1]
<1> DEFINE n == Len(types)
           regs == RegArgs(types, 0)
           place == Places(types, 0)
           In(k) == regs \cap 1..k
           N == {k \in Nat : k <= n => /\ IsFiniteSet(In(k))
                                       /\ Cardinality(In(k)) \in Nat
                                       /\ 16 + 8 * (k - Cardinality(In(k))) = place[k + 1]}
<1>1. /\ n \in Nat /\ DOMAIN types = 1..n /\ place[1] = 16
      /\ \A j \in 1..n : place[j + 1] = place[j] + Skip(types, 0, j)
  BY PlaceSteps, LenProperties
<1>2. regs \subseteq 1..n /\ \A j \in 1..n : j \in regs <=> InRegister(types, 0, j)
  BY <1>1 DEF RegArgs
<1>3. \A j \in 1..n : Skip(types, 0, j) = IF j \in regs THEN 0 ELSE 8
  <2> TAKE j \in 1..n
  <2>1. types[j].width \in Nat \ {0}
    BY ElementOfSeq, FrameAssumption
  <2>2. CASE j \in regs
    BY <1>2, <2>2 DEF Skip
  <2>3. CASE j \notin regs
    <3>1. types[j].width <= 8
      BY <1>1, <2>3
    <3>2. types[j].width \in 1..8
      BY <2>1, <3>1
    <3>3. MakeAlign(types[j].width, 8) = 8
      BY <2>1, <3>2, EightTyped
    <3> QED
      BY <1>2, <2>3, <3>3 DEF Skip
  <2> QED
    BY <2>2, <2>3
<1> HIDE DEF n, regs, place
<1>4. 0 \in N
  <2>1. In(0) = {} /\ IsFiniteSet({})
    BY FS_EmptySet
  <2>2. Cardinality({}) = 0
    BY FS_EmptySet
  <2> HIDE DEF In
  <2>3. IsFiniteSet(In(0)) /\ Cardinality(In(0)) = 0
    BY <2>1, <2>2, Zenon
  <2>4. 16 + 8 * (0 - Cardinality(In(0))) = place[0 + 1]
    <3> HIDE DEF N
    <3> QED
      BY <1>1, <2>3
  <2>5. Cardinality(In(0)) \in Nat
    BY <2>3
  <2> QED
    BY <2>3, <2>4, <2>5
<1>5. ASSUME NEW k \in N PROVE k + 1 \in N
  <2> DEFINE c == Cardinality(In(k))
  <2>1. CASE k + 1 <= n
    <3>1. k \in Nat /\ k <= n /\ k + 1 \in 1..n
      BY <1>1, <2>1
    <3>2. IsFiniteSet(In(k)) /\ c \in Nat /\ 16 + 8 * (k - c) = place[k + 1]
      BY <3>1
    <3>3. \A j \in 1..(k + 1) : j \in 1..k \/ j = k + 1
      BY <3>1
    <3>4. k + 1 \notin In(k) /\ 1..k \subseteq 1..(k + 1) /\ k + 1 \in 1..(k + 1)
      BY <3>1
    <3>5. place[(k + 1) + 1] = place[k + 1] + IF k + 1 \in regs THEN 0 ELSE 8
      BY <1>1, <1>3, <3>1
    <3>6. /\ IsFiniteSet(In(k + 1)) /\ Cardinality(In(k + 1)) \in Nat
          /\ 16 + 8 * ((k + 1) - Cardinality(In(k + 1))) = place[(k + 1) + 1]
      <4>1. CASE k + 1 \in regs
        <5>1. In(k + 1) = In(k) \cup {k + 1}
          BY <3>3, <3>4, <4>1
        <5> HIDE DEF In, N
        <5>2. Cardinality(In(k + 1)) = Cardinality(In(k)) + 1 /\ IsFiniteSet(In(k + 1))
          BY <3>2, <3>4, <5>1, AddOne, FS_AddElement
        <5>3. place[(k + 1) + 1] = place[k + 1] + 0
          BY <3>5, <4>1
        <5>4. Cardinality(In(k + 1)) = c + 1
          BY <5>2
        <5> HIDE DEF c
        <5> QED
          BY <3>1, <3>2, <5>2, <5>3, <5>4
      <4>2. CASE k + 1 \notin regs
        <5>1. In(k + 1) = In(k)
          BY <3>3, <3>4, <4>2
        <5> HIDE DEF In, N
        <5>2. place[(k + 1) + 1] = place[k + 1] + 8
          BY <3>5, <4>2
        <5>3. Cardinality(In(k + 1)) = c
          BY <5>1
        <5> HIDE DEF c
        <5> QED
          BY <3>1, <3>2, <5>1, <5>2, <5>3
      <4> QED
        BY <4>1, <4>2
    <3> HIDE DEF In
    <3>7. k + 1 \in Nat
      BY <3>1
    <3> QED
      BY <3>6, <3>7
  <2>2. CASE ~(k + 1 <= n)
    <3>1. k + 1 \in Nat
      OBVIOUS
    <3> HIDE DEF In
    <3> QED
      BY <2>2, <3>1
  <2> QED
    BY <2>1, <2>2
<1>6. N = Nat
  <2> HIDE DEF N
  <2>1. N \in SUBSET Nat
    BY DEF N
  <2> QED
    BY <1>4, <1>5, <2>1, Counting
<1>7. In(n) = regs
  BY <1>2
<1>8. n \in N /\ n <= n
  <2> HIDE DEF N
  <2> QED
    BY <1>1, <1>6
<1>9. 16 + 8 * (n - Cardinality(In(n))) = place[n + 1]
  BY <1>8
<1> HIDE DEF In, N
<1>10. Cardinality(In(n)) = Cardinality(regs)
  BY <1>7
<1>11. 16 + 8 * (n - Cardinality(regs)) = place[n + 1]
  BY <1>9, <1>10
<1> QED
  BY <1>11 DEF n, regs, place

\* The list behind the first k arguments.
ListAt(types, k) ==
  [gp |-> GpAt(types, k + 1), fp |-> FpAt(types, k + 1), overflow |-> Places(types, 0)[k + 1]]

(* va_start() is right about the parameters.                               *)
LEMMA VaStartPlaced ==
  ASSUME NEW f \in Functions, VaStartRight(f)
  PROVE  VaStart(f) = ListAt(f.params, Len(f.params))
<1> DEFINE types == f.params
           n == Len(types)
           Ints == {i \in 1..n : types[i].class = "INTEGER"}
           regs == RegArgs(types, 1)
           Of(class) == {i \in regs : types[i].class = class}
<1>1. types \in Seq(Types) /\ n \in Nat /\ DOMAIN types = 1..n
  BY FrameAssumption, LenProperties
<1>2. /\ Cardinality(Ints) < NReg
      /\ \A i \in DOMAIN types \ RegArgs(types, 0) : types[i].width <= 8
  BY <1>1 DEF VaStartRight
<1>3. IsFiniteSet(Ints) /\ Cardinality(Ints) \in Nat
  <2>1. IsFiniteSet(1..n)
    BY <1>1, FS_Interval
  <2> QED
    BY <2>1, FS_Subset, FS_CardinalityType
<1>4. NReg \in Nat /\ NXreg \in Nat
  BY FrameAssumption
<1>5. ASSUME NEW i \in Ints
      PROVE  1 + Before(types, i, "INTEGER") < NReg /\ 0 + Before(types, i, "INTEGER") < NReg
  <2> DEFINE S == {j \in 1..(i - 1) : types[j].class = "INTEGER"}
             b == Before(types, i, "INTEGER")
  <2>1. i \in 1..n /\ types[i].class = "INTEGER"
    OBVIOUS
  <2>2. i \notin S /\ S \cup {i} \subseteq Ints
    BY <1>1, <2>1
  <2>3. b = Cardinality(S)
    BY DEF Before
  <2> HIDE DEF S, Ints, b
  <2>4. IsFiniteSet(S) /\ IsFiniteSet(S \cup {i}) /\ Cardinality(S \cup {i}) <= Cardinality(Ints)
    BY <1>3, <2>2, FS_Subset
  <2>5. Cardinality(S \cup {i}) = Cardinality(S) + 1 /\ Cardinality(S) \in Nat
    BY <2>2, <2>4, AddOne, FS_CardinalityType
  <2>6. 1 + b < NReg /\ 0 + b < NReg
    BY <1>2, <1>3, <1>4, <2>3, <2>4, <2>5
  <2> QED
    BY <2>6 DEF b
<1>6. \A i \in 1..n : /\ InRegister(types, 1, i) <=> InRegister(types, 0, i)
                      /\ types[i].class = "INTEGER" => InRegister(types, 1, i)
  BY <1>5 DEF InRegister
<1>7. regs = RegArgs(types, 0)
  BY <1>1, <1>6 DEF RegArgs
<1>8. Of("INTEGER") = Ints
  BY <1>1, <1>6 DEF RegArgs
<1>9. Of("SSE") = {j \in 1..n : types[j].class = "SSE" /\ Before(types, j, "SSE") < NXreg}
  <2>1. \A i \in 1..n : types[i].class = "SSE" =>
          (InRegister(types, 1, i) <=> Before(types, i, "SSE") < NXreg)
    BY DEF InRegister
  <2> QED
    BY <1>1, <2>1 DEF RegArgs
<1>10. 8 * Cardinality(Of("INTEGER")) = GpAt(types, n + 1)
  <2>1. Before(types, n + 1, "INTEGER") = Cardinality(Ints)
    <3>1. (n + 1) - 1 = n
      BY <1>1
    <3> QED
      BY <3>1 DEF Before
  <2> HIDE DEF Ints, n, types
  <2>2. Smaller(NReg, Cardinality(Ints)) = Cardinality(Ints)
    BY <1>2, <1>3, <1>4, SmallerSteps
  <2> QED
    BY <1>8, <2>1, <2>2 DEF GpAt
<1>11. 8 * NReg + 16 * Cardinality(Of("SSE")) = FpAt(types, n + 1)
  <2>1. Cardinality({j \in 1..n : types[j].class = "SSE" /\ Before(types, j, "SSE") < NXreg})
          = Smaller(NXreg, Before(types, n + 1, "SSE"))
    BY <1>1, <1>4, CountUpTo
  <2> QED
    BY <1>9, <2>1 DEF FpAt
<1>12. 16 + 8 * (n - Cardinality(regs)) = Places(types, 0)[n + 1]
  BY <1>1, <1>2, <1>7, CountPlaces
<1> QED
  BY <1>10, <1>11, <1>12, Zenon DEF VaStart, ListAt

(* va_arg() finds the next argument, and leaves the list behind it.        *)
LEMMA VaArgSteps ==
  ASSUME NEW types \in Seq(Types), NEW k \in Nat, k + 1 <= Len(types)
  PROVE  /\ VaArg(ListAt(types, k), types[k + 1]) = ListAt(types, k + 1)
         /\ VaPlace(ListAt(types, k), types[k + 1]) =
              IF InRegister(types, 0, k + 1) THEN SavedPlace(types, k + 1)
              ELSE Places(types, 0)[k + 1]
<1> DEFINE i == k + 1
           type == types[i]
           ap == ListAt(types, k)
           gp == GpAt(types, i)
           fp == FpAt(types, i)
           mem == Places(types, 0)[i]
           gpIn == type.class = "INTEGER" /\ gp < 8 * NReg
           fpIn == type.class = "SSE" /\ fp < SaveArea
<1>1. i \in Nat \ {0} /\ i \in 1..Len(types)
  BY LenProperties
<1>2. /\ GpAt(types, i + 1) = IF gpIn THEN gp + 8 ELSE gp
      /\ FpAt(types, i + 1) = IF fpIn THEN fp + 16 ELSE fp
      /\ gpIn => gp - SaveArea = SavedPlace(types, i)
      /\ fpIn => fp - SaveArea = SavedPlace(types, i)
      /\ InRegister(types, 0, i) <=> gpIn \/ fpIn
  BY <1>1, SavedSteps
<1>3. Places(types, 0)[i + 1] = mem + Skip(types, 0, i)
  BY <1>1, PlaceSteps
<1>4. mem \in Nat
  <2>1. i \in 1..(Len(types) + 1)
    BY <1>1, LenProperties
  <2> QED
    BY <2>1, PlaceTyped
<1>5. Skip(types, 0, i) = IF InRegister(types, 0, i) THEN 0 ELSE MakeAlign(type.width, 8)
  BY DEF Skip
<1>6. ap.gp = gp /\ ap.fp = fp /\ ap.overflow = mem
      /\ ap = [gp |-> gp, fp |-> fp, overflow |-> mem]
  BY DEF ListAt
<1>7. (gpIn => ~fpIn) /\ (FromGp(ap, type) <=> gpIn) /\ (FromFp(ap, type) <=> fpIn)
  BY <1>6 DEF FromGp, FromFp
<1>8. ListAt(types, i) = [gp |-> GpAt(types, i + 1), fp |-> FpAt(types, i + 1),
                          overflow |-> Places(types, 0)[i + 1]]
  BY DEF ListAt
<1> HIDE DEF ap, gp, fp, mem, gpIn, fpIn, type, i
<1>9. CASE gpIn
  <2>1. VaArg(ap, type) = [gp |-> gp + 8, fp |-> fp, overflow |-> mem]
    BY <1>6, <1>7, <1>9 DEF VaArg
  <2>2. ListAt(types, i) = [gp |-> gp + 8, fp |-> fp, overflow |-> mem]
    BY <1>2, <1>3, <1>4, <1>5, <1>7, <1>8, <1>9
  <2>3. VaPlace(ap, type) = SavedPlace(types, i)
    BY <1>2, <1>6, <1>7, <1>9 DEF VaPlace
  <2> QED
    BY <1>2, <1>9, <2>1, <2>2, <2>3 DEF ap, type, i
<1>10. CASE fpIn
  <2>1. VaArg(ap, type) = [gp |-> gp, fp |-> fp + 16, overflow |-> mem]
    BY <1>6, <1>7, <1>10 DEF VaArg
  <2>2. ListAt(types, i) = [gp |-> gp, fp |-> fp + 16, overflow |-> mem]
    BY <1>2, <1>3, <1>4, <1>5, <1>7, <1>8, <1>10
  <2>3. VaPlace(ap, type) = SavedPlace(types, i)
    BY <1>2, <1>6, <1>7, <1>10 DEF VaPlace
  <2> QED
    BY <1>2, <1>10, <2>1, <2>2, <2>3 DEF ap, type, i
<1>11. CASE ~gpIn /\ ~fpIn
  <2>1. VaArg(ap, type) = [gp |-> gp, fp |-> fp, overflow |-> mem + MakeAlign(type.width, 8)]
    BY <1>6, <1>7, <1>11 DEF VaArg
  <2>2. ListAt(types, i) = [gp |-> gp, fp |-> fp, overflow |-> mem + MakeAlign(type.width, 8)]
    BY <1>2, <1>3, <1>5, <1>8, <1>11
  <2>3. VaPlace(ap, type) = mem
    BY <1>6, <1>7, <1>11 DEF VaPlace
  <2> QED
    BY <1>2, <1>11, <2>1, <2>2, <2>3 DEF ap, type, i, mem
<1> QED
  BY <1>9, <1>10, <1>11

\* The lists behind the arguments from the last parameter on.
AreLists(ap, f, args, i) ==
  ap = [k \in Len(f.params)..i |->
          IF k = Len(f.params) THEN VaStart(f) ELSE VaArg(ap[k - 1], args[k])]

(* There are such lists.                                                   *)
LEMMA ListsExist ==
  ASSUME NEW f \in Functions, NEW args, NEW i \in Nat, Len(f.params) <= i
  PROVE  \E ap : AreLists(ap, f, args, i)
<1> DEFINE n == Len(f.params)
           First == VaStart(f)
           Step(ap, k) == VaArg(ap, args[k])
           Upto(ap, m) == ap = [k \in n..(n + m) |-> IF k = n THEN First ELSE Step(ap[k - 1], k)]
           N == {m \in Nat : \E ap : Upto(ap, m)}
<1>1. n \in Nat
  <2>1. f.params \in Seq(Types)
    BY FrameAssumption
  <2> QED
    BY <2>1, LenProperties
<1> HIDE DEF n, First, Step
<1>2. 0 \in N
  <2> DEFINE g == [k \in n..n |-> First]
  <2>1. n..(n + 0) = n..n
    BY <1>1
  <2>2. \A k \in n..n : k = n
    BY <1>1
  <2>3. g = [k \in n..(n + 0) |-> IF k = n THEN First ELSE Step(g[k - 1], k)]
    BY <2>1, <2>2
  <2> HIDE DEF g
  <2>4. Upto(g, 0)
    BY <2>3
  <2> HIDE DEF Upto
  <2> QED
    BY <2>4
<1>3. ASSUME NEW m \in N PROVE m + 1 \in N
  <2>1. m \in Nat
    OBVIOUS
  <2>2. PICK ap : Upto(ap, m)
    OBVIOUS
  <2> DEFINE l == n + (m + 1)
             g == [k \in n..l |-> IF k = l THEN Step(ap[n + m], l) ELSE ap[k]]
  <2>3. \A k \in n..(n + m) : g[k] = ap[k]
    BY <1>1, <2>1
  <2>4. ASSUME NEW k \in n..l
        PROVE  g[k] = IF k = n THEN First ELSE Step(g[k - 1], k)
    <3>1. CASE k = l
      <4>1. k # n /\ k - 1 = n + m /\ n + m \in n..(n + m)
        BY <1>1, <2>1, <3>1
      <4>2. g[k] = Step(ap[n + m], l)
        BY <3>1
      <4> HIDE DEF g
      <4> QED
        BY <2>3, <3>1, <4>1, <4>2
    <3>2. CASE k # l
      <4>1. k \in n..(n + m) /\ (k # n => k - 1 \in n..(n + m))
        BY <1>1, <2>1, <3>2
      <4>2. ap[k] = IF k = n THEN First ELSE Step(ap[k - 1], k)
        BY <2>2, <4>1
      <4> HIDE DEF g
      <4> QED
        BY <2>3, <4>1, <4>2
    <3> QED
      BY <3>1, <3>2
  <2>5. Upto(g, m + 1)
    <3>1. g = [k \in n..l |-> g[k]]
      OBVIOUS
    <3> HIDE DEF g
    <3> QED
      BY <2>4, <3>1
  <2>6. m + 1 \in Nat
    BY <2>1
  <2> HIDE DEF g, Upto
  <2> QED
    BY <2>5, <2>6
<1>4. N = Nat
  <2> HIDE DEF N
  <2>1. N \in SUBSET Nat
    BY DEF N
  <2> QED
    BY <1>2, <1>3, <2>1, Counting
<1>5. i - n \in N /\ n + (i - n) = i
  <2>1. i - n \in Nat /\ n + (i - n) = i
    BY <1>1 DEF n
  <2> HIDE DEF N
  <2> QED
    BY <1>4, <2>1
<1>6. \E ap : Upto(ap, i - n)
  BY <1>5
<1> QED
  BY <1>5, <1>6 DEF AreLists, n, First, Step

(* va_arg() finds a further argument where the caller put it.              *)
LEMMA VaPlaced ==
  ASSUME NEW c \in Calls, VaStartRight(c.callee),
         NEW i \in DOMAIN c.args, i \notin DOMAIN c.callee.params
  PROVE  VaArgPlace(c.callee, c.args, i) =
           IF InRegister(c.args, 0, i) THEN SavedPlace(c.args, i) ELSE Places(c.args, 0)[i]
<1> DEFINE f == c.callee
           args == c.args
           n == Len(f.params)
           ap == CHOOSE ap : AreLists(ap, f, args, i)
<1>1. /\ args \in Seq(Types) /\ f \in Functions /\ f.params \in Seq(Types) /\ n \in Nat
      /\ Len(args) \in Nat /\ DOMAIN args = 1..Len(args) /\ DOMAIN f.params = 1..n
      /\ Agree(f.params, args, n)
  BY ArgsAgree
<1>2. i \in Nat /\ n <= i /\ n <= i - 1 /\ i - 1 \in Nat /\ i <= Len(args)
  BY <1>1
<1>3. AreLists(ap, f, args, i)
  BY <1>1, <1>2, ListsExist
<1>4. VaArgPlace(f, args, i) = VaPlace(ap[i - 1], args[i])
  BY DEF VaArgPlace, AreLists
<1> HIDE DEF ap, args, f, n
<1>5. \A k \in n..i : ap[k] = IF k = n THEN VaStart(f) ELSE VaArg(ap[k - 1], args[k])
  <2> DEFINE Value(k) == IF k = n THEN VaStart(f) ELSE VaArg(ap[k - 1], args[k])
  <2>1. ap = [k \in n..i |-> Value(k)]
    BY <1>3 DEF AreLists, n
  <2> HIDE DEF Value
  <2>2. \A k \in n..i : ap[k] = Value(k)
    BY <2>1
  <2> QED
    BY <2>2 DEF Value
<1>6. VaStart(f) = ListAt(args, n)
  <2>1. VaStart(f) = ListAt(f.params, n)
    BY <1>1, VaStartPlaced DEF f, n
  <2>2. n + 1 \in 1..(n + 1)
    BY <1>1
  <2>3. \A class : Before(args, n + 1, class) = Before(f.params, n + 1, class)
    BY <1>1, <2>2, AgreeBefore
  <2>4. Places(args, 0)[n + 1] = Places(f.params, 0)[n + 1]
    BY <1>1, <2>2, AgreePlaces
  <2> QED
    BY <2>1, <2>3, <2>4 DEF ListAt, GpAt, FpAt
<1> DEFINE N == {m \in Nat : n + m <= i - 1 => ap[n + m] = ListAt(args, n + m)}
<1>7. 0 \in N
  <2>1. n + 0 = n /\ n \in n..i
    BY <1>1, <1>2
  <2>2. ap[n + 0] = ListAt(args, n + 0)
    BY <1>5, <1>6, <2>1
  <2> QED
    BY <2>2
<1>8. ASSUME NEW m \in N PROVE m + 1 \in N
  <2>1. ASSUME n + (m + 1) <= i - 1
        PROVE  ap[n + (m + 1)] = ListAt(args, n + (m + 1))
    <3> DEFINE k == n + m
    <3>1. /\ m \in Nat /\ k \in Nat /\ k <= i - 1 /\ n + (m + 1) = k + 1 /\ k + 1 \in n..i
          /\ k + 1 # n /\ (k + 1) - 1 = k /\ k + 1 <= Len(args)
      BY <1>1, <1>2, <2>1
    <3>2. ap[k] = ListAt(args, k)
      BY <3>1
    <3> HIDE DEF k, N
    <3>3. ap[k + 1] = VaArg(ListAt(args, k), args[k + 1])
      BY <1>5, <3>1, <3>2
    <3> QED
      BY <1>1, <3>1, <3>3, VaArgSteps
  <2>2. m + 1 \in Nat
    OBVIOUS
  <2> QED
    BY <2>1, <2>2
<1>9. N = Nat
  <2> HIDE DEF N
  <2>1. N \in SUBSET Nat
    BY DEF N
  <2> QED
    BY <1>7, <1>8, <2>1, Counting
<1>10. (i - 1) - n \in N /\ n + ((i - 1) - n) = i - 1
  <2>1. (i - 1) - n \in Nat /\ n + ((i - 1) - n) = i - 1
    BY <1>1, <1>2
  <2> HIDE DEF N
  <2> QED
    BY <1>9, <2>1
<1>11. ap[i - 1] = ListAt(args, i - 1)
  <2>1. i - 1 <= i - 1
    BY <1>2
  <2> QED
    BY <1>10, <2>1
<1>12. (i - 1) + 1 = i
  BY <1>2
<1>13. VaPlace(ListAt(args, i - 1), args[(i - 1) + 1]) =
         IF InRegister(args, 0, (i - 1) + 1) THEN SavedPlace(args, (i - 1) + 1)
         ELSE Places(args, 0)[(i - 1) + 1]
  <2> DEFINE k == i - 1
  <2>1. k \in Nat /\ k + 1 <= Len(args)
    BY <1>2, <1>12
  <2> HIDE DEF k
  <2>2. VaPlace(ListAt(args, k), args[k + 1]) =
          IF InRegister(args, 0, k + 1) THEN SavedPlace(args, k + 1) ELSE Places(args, 0)[k + 1]
    BY <1>1, <2>1, VaArgSteps
  <2> QED
    BY <2>2 DEF k
<1>14. VaArgPlace(f, args, i) =
         IF InRegister(args, 0, i) THEN SavedPlace(args, i) ELSE Places(args, 0)[i]
  BY <1>4, <1>11, <1>12, <1>13
<1> QED
  BY <1>14 DEF f, args

\* The call that is about to be emitted.
NextCall == [of |-> Top.call, rsp |-> offset,
             slots |-> SubSeq(slots, Top.depth + 1 + Hidden(Top.call.callee), Len(slots))]

\* Arrived() of any call.
ArrivedAs(cl, i, place) ==
  LET c == cl.of
      args == c.args
  IN  IF i \in RegArgsOf(c)
      THEN LET nth == Before(args, i, args[i].class)
           IN  place = IF args[i].class = "SSE"
                       THEN 8 * NReg + 16 * nth - SaveArea
                       ELSE 8 * (nth + Hidden(c.callee)) - SaveArea
      ELSE \E k \in DOMAIN cl.slots :
             LET s == cl.slots[k]
             IN  /\ s.arg = i /\ s.lo - cl.rsp + 16 = place
                 /\ s.whole \/ args[i].align > 8

(* The slots of the arguments in memory are those that the call begins with. *)
LEMMA MemoryArrives ==
  ASSUME IInv, VisitsPlaced(slots, offset, pending), pending # <<>>, Top.stage = "designator",
         Top.base <= 0, NEW i \in MemArgsOf(Top.call)
  PROVE  ArrivedAs(NextCall, i, PlaceOf(Top.call, i))
<1> DEFINE c == Top.call
           h == Hidden(c.callee)
           from == FirstSlot(Top)
           m == Cardinality(MemArgsOf(c))
           first == Top.depth + 1 + h
           sl2 == SubSeq(slots, first, Len(slots))
<1>1. /\ Top = pending[Len(pending)] /\ Len(pending) \in DOMAIN pending /\ Top \in Visit
      /\ Top.depth \in 0..Len(slots) /\ VisitRight(slots, Top, Len(slots), offset)
      /\ slots \in Seq(Slot) /\ Len(slots) \in Nat /\ DOMAIN slots = 1..Len(slots)
  BY TopTyped, FrameTyped
<1>2. Top.stage # "spilled" /\ c \in Calls
  BY <1>1 DEF VisitRight
<1>3. VisitPlaced(slots, Top, Len(slots), offset)
  BY <1>1 DEF VisitsPlaced, DepthAt, OffsetAt
<1>4. MemoryArgsPlaced(slots, Top) /\ LoadedRight(Top, Len(slots), offset)
  BY <1>2, <1>3 DEF VisitPlaced
<1>5. /\ Len(slots) = from + m /\ offset = PlacedAt(Top, 1) /\ MemoryPushed(Top) = MemArgsOf(c)
  BY <1>4 DEF LoadedRight, MemoryPushed
<1>6. /\ MemArgsOf(c) = DOMAIN c.args \ RegArgsOf(c) /\ m \in Nat /\ from \in Nat
      /\ DOMAIN c.args = 1..Len(c.args) /\ Len(c.args) \in Nat
  BY <1>1, <1>2, CallCounted, MemoryTyped
<1>7. first = from + 1 /\ first \in Nat /\ first >= 1
  <2>1. from = Top.depth + h /\ Top.depth \in Nat /\ h \in Nat
    BY <1>1, <1>2, HiddenTyped DEF FirstSlot
  <2> HIDE DEF from, h
  <2> QED
    BY <2>1
<1>8. /\ sl2 \in Seq(Slot) /\ DOMAIN sl2 = 1..m
      /\ \A n \in 1..m : sl2[n] = slots[from + n]
  <2> HIDE DEF first, from, m
  <2>1. \A n \in first..Len(slots) : slots[n] \in Slot
    BY <1>1, <1>7, ElementOfSeq
  <2>2. /\ sl2 \in Seq(Slot)
        /\ Len(sl2) = IF first <= Len(slots) THEN Len(slots) - first + 1 ELSE 0
        /\ \A n \in 1..(Len(slots) - first + 1) : sl2[n] = slots[first + n - 1]
    BY <1>1, <1>7, <2>1, SubSeqProperties
  <2>3. Len(slots) - first + 1 = m
    BY <1>5, <1>6, <1>7
  <2>4. Len(sl2) = m
    BY <1>5, <1>6, <1>7, <2>2
  <2>5. DOMAIN sl2 = 1..m
    BY <2>2, <2>4, LenProperties
  <2>6. \A n \in 1..m : first + n - 1 = from + n
    BY <1>6, <1>7
  <2> QED
    BY <2>2, <2>3, <2>5, <2>6
<1>9. PICK n \in 1..m : ArgPlaced(slots[from + n], Top, i)
  BY <1>4, <1>5 DEF MemoryArgsPlaced
<1> DEFINE s == sl2[n]
<1>10. /\ n \in DOMAIN sl2 /\ s.arg = i /\ s.lo = PlacedAt(Top, i)
       /\ s.whole \/ c.args[i].align > 8
  BY <1>8, <1>9 DEF ArgPlaced
<1>11. s.lo - offset + 16 = PlaceOf(c, i)
  <2> DEFINE x == Start(Top)
             y == PlaceOf(c, Len(c.args) + 1)
             z == PlaceOf(c, i)
  <2>1. i \in 1..(Len(c.args) + 1) /\ Len(c.args) + 1 \in 1..(Len(c.args) + 1)
    BY <1>6
  <2>2. x \in Int /\ y \in Nat /\ z \in Nat /\ PlaceOf(c, 1) = 16
    BY <1>1, <1>2, <2>1, PlacedTyped
  <2>3. s.lo = x - y + z /\ offset = x - y + PlaceOf(c, 1)
    BY <1>5, <1>10 DEF PlacedAt
  <2> HIDE DEF x, y, s
  <2>4. z \in Nat
    BY <2>2
  <2> HIDE DEF z
  <2>5. s.lo - offset + 16 = z
    BY <2>2, <2>3, <2>4
  <2> QED
    BY <2>5 DEF z
<1>12. NextCall.of = c /\ NextCall.rsp = offset /\ NextCall.slots = sl2
  BY DEF NextCall
<1>13. i \notin RegArgsOf(c)
  BY <1>6
<1> HIDE DEF c, sl2
<1>14. ArrivedAs(NextCall, i, PlaceOf(c, i))
  BY <1>10, <1>11, <1>12, <1>13 DEF ArrivedAs
<1> QED
  BY <1>14 DEF c

(* An argument in a register is where a variadic function saves it.        *)
LEMMA RegisterArrives ==
  ASSUME IInv, pending # <<>>, Top.stage = "designator", Hidden(Top.call.callee) = 0,
         NEW i \in RegArgsOf(Top.call)
  PROVE  ArrivedAs(NextCall, i, SavedPlace(Top.call.args, i))
<1> DEFINE c == Top.call
<1>1. c \in Calls
  BY TopTyped DEF VisitRight
<1>2. InRegister(c.args, 0, i) /\ i \in Nat \ {0}
  BY <1>1, CallCounted
<1>3. NextCall.of = c
  BY DEF NextCall
<1>4. c.args[i].class \in {"INTEGER", "SSE"}
  BY <1>2 DEF InRegister
<1>5. Before(c.args, i, "INTEGER") \in Nat
  BY <1>2, BeforeSteps
<1> HIDE DEF c
<1>6. c.args[i].class # "SSE" => Before(c.args, i, c.args[i].class) + 0 = Before(c.args, i, "INTEGER")
  BY <1>4, <1>5
<1> QED
  BY <1>3, <1>4, <1>6 DEF ArrivedAs, SavedPlace, c

(* A visit whose outer ones are not Shallow begins in the frame.           *)
LEMMA CallInFrame ==
  ASSUME IInv, pending # <<>>, NoShallow(Front(pending)), ~SavedResult(curFunc)
  PROVE  Top.base <= 0
<1> DEFINE m == Len(pending) - 1
           pe2 == Front(pending)
<1>1. /\ m \in Nat /\ Len(pending) = m + 1 /\ Top = pending[m + 1] /\ pending \in Seq(Visit)
      /\ DOMAIN pending = 1..(m + 1) /\ pe2 = SubSeq(pending, 1, m)
  BY TopTyped, FrameTyped, LenProperties DEF Front
<1> HIDE DEF m, pe2
<1>2. \A v \in 1..m : pending[v] \in Visit
  BY <1>1, ElementOfSeq
<1>3. /\ pe2 \in Seq(Visit) /\ Len(pe2) = IF 1 <= m THEN m - 1 + 1 ELSE 0
      /\ \A v \in 1..(m - 1 + 1) : pe2[v] = pending[1 + v - 1]
  BY <1>1, <1>2, SubSeqProperties
<1>4. Len(pe2) = m /\ \A v \in 1..m : 1 + v - 1 = v /\ v \in 1..(m - 1 + 1)
  BY <1>1, <1>3
<1>5. DOMAIN pe2 = 1..m
  BY <1>3, <1>4, LenProperties
<1>6. \A v \in 1..m : ~Shallow(pending[v])
  BY <1>3, <1>4, <1>5 DEF NoShallow, pe2
<1>7. curFunc # NoFunc /\ Downwards(slots, offset, pending)
  BY DEF IInv, InBody
<1>8. m + 1 \in DOMAIN pending /\ (m + 1) - 1 = m
  BY <1>1
<1>9. Above(slots, pending[m + 1].depth, pending[m + 1].base)
  BY <1>6, <1>7, <1>8 DEF Downwards
<1> QED
  BY <1>1, <1>9 DEF Above

(* At the call the arguments are where the callee looks for them.          *)
LEMMA CallArrives ==
  ASSUME IInv, VisitsPlaced(slots, offset, pending), PrologueRight, Call
  PROVE  ArgsArrive'
<1> DEFINE c == Top.call
           f == curFunc
           args == c.args
           params == f.params
           h == Hidden(f)
           n == Len(params)
<1>1. /\ pending # <<>> /\ Top.stage = "designator" /\ call' = NextCall
      /\ pending' = Front(pending) /\ curFunc' = curFunc /\ prologue' = prologue
  BY DEF Call, NextCall
<1>2. NextCall.of = c /\ c \in Calls
  BY <1>1, TopTyped DEF NextCall, VisitRight
<1>3. ASSUME c.callee = f, ~SavedResult(f), NoShallow(Front(pending)), NEW i \in DOMAIN args
      PROVE  IF i \in DOMAIN params
             THEN f.variadic \/ ~ParamInRegister(i) => ArrivedAs(NextCall, i, prologue.params[i])
             ELSE VaStartRight(f) => ArrivedAs(NextCall, i, VaArgPlace(f, args, i))
  <2>1. Top.base <= 0
    BY <1>1, <1>3, CallInFrame
  <2>2. /\ args \in Seq(Types) /\ params \in Seq(Types) /\ n \in Nat
        /\ DOMAIN args = 1..Len(args) /\ DOMAIN params = 1..n /\ Agree(params, args, n)
    BY <1>2, <1>3, ArgsAgree
  <2>3. /\ MemArgsOf(c) = DOMAIN args \ RegArgsOf(c)
        /\ i \in RegArgsOf(c) <=> InRegister(args, h, i)
    BY <1>2, <1>3, CallCounted
  <2>4. i \notin RegArgsOf(c) => ArrivedAs(NextCall, i, Places(args, h)[i])
    <3>1. i \notin RegArgsOf(c) => i \in MemArgsOf(c)
      BY <2>3
    <3> QED
      BY <1>1, <1>3, <2>1, <3>1, MemoryArrives DEF PlaceOf
  <2>5. i \in RegArgsOf(c) /\ h = 0 => ArrivedAs(NextCall, i, SavedPlace(args, i))
    BY <1>1, <1>3, RegisterArrives
  <2>6. f.variadic => h = 0
    BY <1>3, HiddenTyped DEF SavedResult
  <2>7. CASE i \in DOMAIN params
    <3>1. i \in 1..n /\ i \in 1..(n + 1)
      BY <2>2, <2>7
    <3>2. /\ InRegister(args, h, i) <=> InRegister(params, h, i)
          /\ Places(args, h)[i] = Places(params, h)[i]
      BY <2>2, <3>1, AgreeRegisters, AgreePlaces
    <3>3. SavedPlace(args, i) = SavedPlace(params, i)
      <4>1. \A class : Before(args, i, class) = Before(params, i, class)
        BY <2>2, <3>1, AgreeBefore
      <4>2. args[i] = params[i]
        BY <2>2, <3>1 DEF Agree
      <4> QED
        BY <4>1, <4>2 DEF SavedPlace
    <3>4. InBody /\ f # NoFunc
      BY <1>1 DEF IInv, InBody
    <3>5. ParamsPlaced(f, prologue) /\ Len(prologue.params) = n
      BY <1>3, <3>4 DEF PrologueRight, InBody
    <3>6. /\ ~InRegister(params, h, i) => prologue.params[i] = Places(params, h)[i]
          /\ f.variadic /\ InRegister(params, h, i) => prologue.params[i] = SavedPlace(params, i)
      BY <3>1, <3>5 DEF ParamsPlaced
    <3>7. ParamInRegister(i) <=> InRegister(params, h, i)
      BY DEF ParamInRegister
    <3> QED
      BY <2>3, <2>4, <2>5, <2>6, <2>7, <3>2, <3>3, <3>6, <3>7
  <2>8. CASE i \notin DOMAIN params
    <3>1. ASSUME VaStartRight(f)
          PROVE  ArrivedAs(NextCall, i, VaArgPlace(f, args, i))
      <4>1. h = 0
        BY <2>6, <3>1 DEF VaStartRight
      <4>2. VaArgPlace(f, args, i) =
              IF InRegister(args, 0, i) THEN SavedPlace(args, i) ELSE Places(args, 0)[i]
        BY <1>2, <1>3, <2>8, <3>1, VaPlaced
      <4> QED
        BY <2>3, <2>4, <2>5, <4>1, <4>2
    <3> QED
      BY <2>8, <3>1
  <2> QED
    BY <2>7, <2>8
<1>4. \A i, place : Arrived(i, place)' <=> ArrivedAs(NextCall, i, place)
  BY <1>1 DEF Arrived, ArrivedAs
<1>5. \A i : ParamInRegister(i)' <=> ParamInRegister(i)
  BY <1>1 DEF ParamInRegister
<1> QED
  BY <1>1, <1>2, <1>3, <1>4, <1>5 DEF ArgsArrive, NoShallow

\* The inductive invariant of ArgsArrive.
ArrivedInv ==
  /\ PrologueRight
  /\ VisitsPlaced(slots, offset, pending)
  /\ ValueRight(value, offset)
  /\ ArgsArrive

(* Where no visit is in progress nothing is placed.                        *)
LEMMA NothingPlaced == ASSUME NEW sl, NEW off PROVE VisitsPlaced(sl, off, <<>>)
<1>1. DOMAIN <<>> = {}
  OBVIOUS
<1> QED
  BY <1>1 DEF VisitsPlaced

(* A step that is no call keeps what it leaves alone.                      *)
LEMMA QuietArrives ==
  ASSUME PrologueRight, UNCHANGED <<curFunc, prologue>>, value' = NoStruct, call' = NoCall
  PROVE  PrologueRight' /\ ValueRight(value', offset') /\ ArgsArrive'
BY DEF PrologueRight, ParamsPlaced, SavedResult, ValueRight, ArgsArrive

(* Arguments that arrive once arrive after every step.                     *)
LEMMA ArrivedKeeps == IInv /\ ArrivedInv /\ [Next]_vars => ArrivedInv'
<1> SUFFICES ASSUME IInv, ArrivedInv, [Next]_vars
             PROVE  /\ PrologueRight' /\ VisitsPlaced(slots', offset', pending')
                    /\ ValueRight(value', offset') /\ ArgsArrive'
  BY DEF ArrivedInv
<1>1. PrologueRight /\ VisitsPlaced(slots, offset, pending) /\ ValueRight(value, offset)
  BY DEF ArrivedInv
<1>2. call' = NoCall => ArgsArrive'
  BY DEF ArgsArrive
<1>3. value' = NoStruct => ValueRight(value', offset')
  BY DEF ValueRight
<1>4. ASSUME NEW f \in Functions, VisitFuncDef(f)
      PROVE  /\ PrologueRight' /\ VisitsPlaced(slots', offset', pending')
             /\ ValueRight(value', offset') /\ ArgsArrive'
  <2>1. curFunc = NoFunc /\ pending' = pending /\ value' = NoStruct /\ call' = NoCall
    BY <1>4 DEF VisitFuncDef, Quiet
  <2>2. pending' = <<>>
    BY <2>1 DEF IInv
  <2> QED
    BY <1>1, <1>2, <1>3, <1>4, <2>1, <2>2, FuncDefPlaces, NothingPlaced
<1>5. CASE StoreParam
  <2>1. PICK i \in DOMAIN curFunc.params :
          StoreMemoryParam(i) \/ StoreSavedParam(i) \/ StorePushedParam(i)
    BY <1>5 DEF StoreParam
  <2>2. /\ Storing(i) /\ curFunc # NoFunc
        /\ pending' = pending /\ value' = NoStruct /\ call' = NoCall
    BY <1>5, <2>1 DEF StoreParam, StoreMemoryParam, StoreSavedParam, StorePushedParam, Quiet
  <2>3. pending' = <<>>
    BY <2>2, StoringIdle
  <2> QED
    BY <1>1, <1>2, <1>3, <1>5, <2>2, <2>3, StoreParamPlaces, NothingPlaced
<1>6. ASSUME NEW objects \in Scopes, EnterScope(objects)
      PROVE  /\ PrologueRight' /\ VisitsPlaced(slots', offset', pending')
             /\ ValueRight(value', offset') /\ ArgsArrive'
  <2>1. UNCHANGED <<curFunc, prologue, offset, slots, pending>>
        /\ value' = NoStruct /\ call' = NoCall
    BY <1>6 DEF EnterScope, Quiet
  <2> QED
    BY <1>1, <2>1, QuietArrives
<1>7. ASSUME NEW o \in heap, AllocObject(o)
      PROVE  /\ PrologueRight' /\ VisitsPlaced(slots', offset', pending')
             /\ ValueRight(value', offset') /\ ArgsArrive'
  <2>1. UNCHANGED <<curFunc, prologue, pending>> /\ value' = NoStruct /\ call' = NoCall
    BY <1>7 DEF AllocObject, Quiet
  <2>2. pending' = <<>>
    BY <2>1 DEF IInv, InBody
  <2> QED
    BY <1>1, <2>1, <2>2, QuietArrives, NothingPlaced
<1>8. CASE Spill
  <2>1. UNCHANGED <<curFunc, prologue>> /\ value' = NoStruct /\ call' = NoCall
    BY <1>8 DEF Spill, Quiet
  <2> QED
    BY <1>1, <1>8, <2>1, QuietArrives, SpillPlaces
<1>9. CASE Restore
  <2>1. UNCHANGED <<curFunc, prologue>> /\ value' = NoStruct /\ call' = NoCall
    BY <1>9 DEF Restore, Quiet
  <2> QED
    BY <1>1, <1>9, <2>1, QuietArrives, RestorePlaces
<1>10. ASSUME NEW c \in Calls, BeginCall(c)
       PROVE  /\ PrologueRight' /\ VisitsPlaced(slots', offset', pending')
              /\ ValueRight(value', offset') /\ ArgsArrive'
  <2>1. UNCHANGED <<curFunc, prologue>> /\ value' = NoStruct /\ call' = NoCall
    BY <1>10 DEF BeginCall, EnterCall, Quiet
  <2> QED
    BY <1>1, <1>10, <2>1, QuietArrives, BeginCallPlaces
<1>11. ASSUME NEW i \in Top.left, PushArg(i)
       PROVE  /\ PrologueRight' /\ VisitsPlaced(slots', offset', pending')
              /\ ValueRight(value', offset') /\ ArgsArrive'
  <2>1. UNCHANGED <<curFunc, prologue>> /\ value' = NoStruct /\ call' = NoCall
    BY <1>11 DEF PushArg, Quiet
  <2> QED
    BY <1>1, <1>11, <2>1, QuietArrives, PushArgPlaces
<1>12. CASE LoadArgs
  <2>1. UNCHANGED <<curFunc, prologue>> /\ value' = NoStruct /\ call' = NoCall
    BY <1>12 DEF LoadArgs, Quiet
  <2> QED
    BY <1>1, <1>12, <2>1, QuietArrives, LoadArgsPlaces
<1>13. CASE Call
  <2>1. UNCHANGED <<curFunc, prologue>>
    BY <1>13 DEF Call
  <2>2. PrologueRight'
    BY <1>1, <2>1 DEF PrologueRight, ParamsPlaced, SavedResult
  <2> QED
    BY <1>1, <1>13, <2>2, CallPlaces, CallArrives
<1>14. CASE UNCHANGED vars
  <2>1. UNCHANGED <<curFunc, prologue, offset, slots, pending, value, call>>
    BY <1>14 DEF vars
  <2>2. PrologueRight'
    BY <1>1, <2>1 DEF PrologueRight, ParamsPlaced, SavedResult
  <2>3. ArgsArrive
    BY DEF ArrivedInv
  <2>4. ArgsArrive'
    BY <2>1, <2>3 DEF ArgsArrive, Arrived, ParamInRegister
  <2> QED
    BY <1>1, <2>1, <2>2, <2>4
<1> QED
  BY <1>4, <1>5, <1>6, <1>7, <1>8, <1>9, <1>10, <1>11, <1>12, <1>13, <1>14 DEF Next

(* At first no parameter has its place, and nothing is called.             *)
LEMMA ArrivedInit == Init => ArrivedInv
<1> SUFFICES ASSUME Init
             PROVE  ArrivedInv
  OBVIOUS
<1>1. /\ curFunc = NoFunc /\ prologue.params = <<>> /\ prologue.mem = 16
      /\ pending = <<>> /\ value = NoStruct /\ call = NoCall
  BY DEF Init
<1> QED
  BY <1>1, NothingPlaced DEF ArrivedInv, PrologueRight, ValueRight, ArgsArrive

\* Caller and callee, and va_arg(), agree on where each argument is, and it arrives as it was:
\* for all signatures, calls, nestings and numbers of registers, where no struct result is above
\* the frame, no pointer to a result is stored into the save area and va_start() is right.
THEOREM ArgsArriveAlways == Spec => []ArgsArrive
<1>1. Init => IInv /\ ArrivedInv
  BY InitHolds, ArrivedInit
<1>2. (IInv /\ ArrivedInv) /\ [Next]_vars => (IInv /\ ArrivedInv)'
  BY NextHolds, ArrivedKeeps
<1>3. ArrivedInv => ArgsArrive
  BY DEF ArrivedInv
<1> QED
  BY <1>1, <1>2, <1>3, PTL DEF Spec
=============================================================================
