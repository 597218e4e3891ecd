------------------------ MODULE StmtLoweringProofs ------------------------
(***************************************************************************)
(* What break, continue, case and default refer to, for functions of any   *)
(* number of statements.  IInv is inductive: opening a statement pushes it *)
(* with the destinations saved, closing it pops it and restores them, so   *)
(* it is enough that what each open statement saved is right outside of it *)
(* (WellSaved).  RightInside speaks of stacks as values, and the lemmas    *)
(* about pushing and popping are about values too.                         *)
(*                                                                         *)
(* Then where the code of a function goes.  PlacedInv says of the labels   *)
(* what IInv says of the destinations: each open statement owes labels     *)
(* that are not placed yet, and whatever the code, the destinations and    *)
(* the tables refer to is placed or owed.                                  *)
(***************************************************************************)
EXTENDS StmtFlow, SequenceTheorems, FiniteSetTheorems, TLAPS

\* e differs from d as the destinations inside a statement do from those outside.
Entered(d, e, n, kind) ==
  /\ e.breakDest = IF kind \in BreakTargets THEN <<n, "end">> ELSE d.breakDest
  /\ IF kind \in Loops THEN e.continueDest[1] = n ELSE e.continueDest = d.continueDest
  /\ e.caseLabels.switch = IF kind = "switch" THEN n ELSE d.caseLabels.switch
  /\ \/ e.defaultLabel = NoLabel
     \/ kind # "switch" /\ (e.defaultLabel = d.defaultLabel \/ e.defaultLabel[1] = n)

\* e is d with what the statement f has set restored.
Left(d, e, f) ==
  /\ e.breakDest = IF f.kind \in BreakTargets THEN f.saved.breakDest ELSE d.breakDest
  /\ e.continueDest = IF f.kind \in Loops THEN f.saved.continueDest ELSE d.continueDest
  /\ e.caseLabels.switch =
       IF f.kind = "switch" THEN f.saved.caseLabels.switch ELSE d.caseLabels.switch
  /\ e.defaultLabel = IF f.kind = "switch" THEN f.saved.defaultLabel ELSE d.defaultLabel

(* What remains of a sequence without its last elements.                   *)
LEMMA Prefix ==
  ASSUME NEW S, NEW s \in Seq(S), NEW n \in 0..Len(s)
  PROVE  /\ SubSeq(s, 1, n) \in Seq(S)
         /\ Len(SubSeq(s, 1, n)) = n
         /\ \A k \in 1..n : SubSeq(s, 1, n)[k] = s[k]
<1>1. Len(s) \in Nat /\ n \in Int /\ 1 \in Int
  BY LenProperties
<1>2. \A k \in 1..n : s[k] \in S
  BY <1>1, ElementOfSeq
<1>3. /\ SubSeq(s, 1, n) \in Seq(S)
      /\ Len(SubSeq(s, 1, n)) = IF 1 <= n THEN n - 1 + 1 ELSE 0
      /\ \A k \in 1..n - 1 + 1 : SubSeq(s, 1, n)[k] = s[1 + k - 1]
  BY <1>1, <1>2, SubSeqProperties
<1> QED
  BY <1>1, <1>3

(* Inside a statement just opened, what its ENTER macro leaves is right.   *)
LEMMA PushRight ==
  ASSUME NEW stack \in Seq(OpenStatement), NEW f \in OpenStatement,
         NEW d \in DestsType, NEW e \in DestsType,
         RightInside(d, stack), Entered(d, e, f.node, f.kind),
         \A k \in DOMAIN stack : stack[k].node < f.node
  PROVE  RightInside(e, Append(stack, f))
<1> DEFINE s == Append(stack, f)
<1>1. /\ s \in Seq(OpenStatement) /\ Len(s) = Len(stack) + 1 /\ s[Len(s)] = f
      /\ DOMAIN s = 1..(Len(stack) + 1) /\ DOMAIN stack = 1..Len(stack)
      /\ \A k \in 1..Len(stack) : s[k] = stack[k]
      /\ Len(stack) \in Nat
  OBVIOUS
<1> HIDE DEF s
<1>2. ASSUME NEW kinds, NEW k \in 1..Len(stack), Innermost(kinds, k, s)
      PROVE  Innermost(kinds, k, stack) /\ f.kind \notin kinds
  BY <1>1, <1>2 DEF Innermost
<1>3. ASSUME NEW kinds, NoneOf(kinds, s)
      PROVE  NoneOf(kinds, stack) /\ f.kind \notin kinds
  BY <1>1, <1>3 DEF NoneOf
<1>4. f.node \in Nat /\ \A k \in 1..Len(stack) : stack[k].node \in Nat
  <2>1. \A k \in 1..Len(stack) : stack[k] \in OpenStatement
    BY ElementOfSeq
  <2> QED
    BY <2>1, MaxStmtsAssumption DEF OpenStatement, Nodes
<1>5. ASSUME NEW k \in 1..(Len(stack) + 1)
      PROVE  /\ Innermost(BreakTargets, k, s) => e.breakDest = <<s[k].node, "end">>
             /\ Innermost(Loops, k, s) => e.continueDest[1] = s[k].node
             /\ Innermost({"switch"}, k, s) =>
                  /\ e.caseLabels.switch = s[k].node
                  /\ e.defaultLabel = NoLabel \/ e.defaultLabel[1] > s[k].node
  <2>1. CASE k = Len(stack) + 1
    BY <1>1, <2>1 DEF Innermost, Entered
  <2>2. CASE k \in 1..Len(stack)
    <3>1. s[k] = stack[k] /\ k \in DOMAIN stack
      BY <1>1, <2>2
    <3>2. Innermost(BreakTargets, k, s) => e.breakDest = <<s[k].node, "end">>
      BY <1>2, <2>2, <3>1 DEF RightInside, Entered
    <3>3. Innermost(Loops, k, s) => e.continueDest[1] = s[k].node
      BY <1>2, <2>2, <3>1 DEF RightInside, Entered
    <3>4. Innermost({"switch"}, k, s) =>
            /\ e.caseLabels.switch = s[k].node
            /\ e.defaultLabel = NoLabel \/ e.defaultLabel[1] > s[k].node
      BY <1>2, <1>4, <2>2, <3>1 DEF RightInside, Entered
    <3> QED
      BY <3>2, <3>3, <3>4
  <2> QED
    BY <1>1, <2>1, <2>2
<1>6. /\ NoneOf(BreakTargets, s) => e.breakDest = NoLabel
      /\ NoneOf(Loops, s) => e.continueDest = NoLabel
      /\ NoneOf({"switch"}, s) => e.caseLabels.switch = 0
  BY <1>3 DEF RightInside, Entered
<1> QED
  BY <1>1, <1>5, <1>6 DEF RightInside, s

(* Outside a statement just closed, what its EXIT macro leaves is right.   *)
LEMMA PopRight ==
  ASSUME NEW stack \in Seq(OpenStatement), stack # << >>,
         NEW d \in DestsType, NEW e \in DestsType,
         RightInside(d, stack), Left(d, e, stack[Len(stack)]),
         RightInside(stack[Len(stack)].saved, SubSeq(stack, 1, Len(stack) - 1))
  PROVE  RightInside(e, SubSeq(stack, 1, Len(stack) - 1))
<1> DEFINE s == SubSeq(stack, 1, Len(stack) - 1)
           f == stack[Len(stack)]
<1>1. /\ s \in Seq(OpenStatement) /\ Len(s) = Len(stack) - 1
      /\ DOMAIN s = 1..(Len(stack) - 1) /\ DOMAIN stack = 1..Len(stack)
      /\ \A k \in 1..(Len(stack) - 1) : s[k] = stack[k]
      /\ Len(stack) \in Nat \ {0}
  <2>1. Len(stack) \in Nat \ {0} /\ DOMAIN stack = 1..Len(stack)
    BY LenProperties, EmptySeq
  <2>2. Len(stack) - 1 \in 0..Len(stack)
    BY <2>1
  <2>3. /\ s \in Seq(OpenStatement) /\ Len(s) = Len(stack) - 1
        /\ \A k \in 1..(Len(stack) - 1) : s[k] = stack[k]
    BY <2>2, Prefix
  <2> QED
    BY <2>1, <2>3, LenProperties
<1>2. RightInside(f.saved, s) /\ Left(d, e, f)
  OBVIOUS
<1>3. stack[Len(stack)] = f
  OBVIOUS
<1> HIDE DEF s, f
<1>4. ASSUME NEW kinds, f.kind \notin kinds
      PROVE  /\ NoneOf(kinds, s) => NoneOf(kinds, stack)
             /\ \A k \in 1..(Len(stack) - 1) : Innermost(kinds, k, s) => Innermost(kinds, k, stack)
  <2>1. \A k \in 1..Len(stack) : k = Len(stack) \/ k \in 1..(Len(stack) - 1)
    BY <1>1
  <2>2. ASSUME NEW k \in 1..(Len(stack) - 1), Innermost(kinds, k, s)
        PROVE  Innermost(kinds, k, stack)
    <3>1. \A j \in (k + 1)..Len(stack) : j = Len(stack) \/ j \in (k + 1)..Len(s)
      <4>1. Len(stack) \in Int /\ Len(s) = Len(stack) - 1 /\ k \in Int
        BY <1>1
      <4> QED
        BY <4>1
    <3>2. \A j \in (k + 1)..Len(s) : stack[j] = s[j]
      BY <1>1
    <3>3. \A j \in (k + 1)..Len(stack) : stack[j].kind \notin kinds
      BY <1>3, <1>4, <2>2, <3>1, <3>2 DEF Innermost
    <3> QED
      BY <1>1, <2>2, <3>3 DEF Innermost
  <2> QED
    BY <1>1, <1>3, <1>4, <2>1, <2>2 DEF NoneOf
<1>5. ASSUME NEW k \in 1..(Len(stack) - 1)
      PROVE  /\ Innermost(BreakTargets, k, s) => e.breakDest = <<s[k].node, "end">>
             /\ Innermost(Loops, k, s) => e.continueDest[1] = s[k].node
             /\ Innermost({"switch"}, k, s) =>
                  /\ e.caseLabels.switch = s[k].node
                  /\ e.defaultLabel = NoLabel \/ e.defaultLabel[1] > s[k].node
  <2>1. s[k] = stack[k] /\ k \in DOMAIN stack /\ k \in DOMAIN s
    BY <1>1
  <2>2. Innermost(BreakTargets, k, s) => e.breakDest = <<s[k].node, "end">>
    BY <1>2, <1>4, <2>1 DEF RightInside, Left
  <2>3. Innermost(Loops, k, s) => e.continueDest[1] = s[k].node
    BY <1>2, <1>4, <2>1 DEF RightInside, Left
  <2>4. Innermost({"switch"}, k, s) =>
          /\ e.caseLabels.switch = s[k].node
          /\ e.defaultLabel = NoLabel \/ e.defaultLabel[1] > s[k].node
    BY <1>2, <1>4, <2>1 DEF RightInside, Left
  <2> QED
    BY <2>2, <2>3, <2>4
<1>6. /\ NoneOf(BreakTargets, s) => e.breakDest = NoLabel
      /\ NoneOf(Loops, s) => e.continueDest = NoLabel
      /\ NoneOf({"switch"}, s) => e.caseLabels.switch = 0
  BY <1>2, <1>4 DEF RightInside, Left
<1> QED
  BY <1>1, <1>5, <1>6 DEF RightInside, s

-----------------------------------------------------------------------------
(* Prefixes of a sequence that has been extended or shortened.             *)
LEMMA PrefixOfAppend ==
  ASSUME NEW S, NEW s \in Seq(S), NEW x \in S, NEW n \in 0..Len(s)
  PROVE  SubSeq(Append(s, x), 1, n) = SubSeq(s, 1, n)
<1> DEFINE t == Append(s, x)
<1>1. /\ t \in Seq(S) /\ Len(t) = Len(s) + 1 /\ Len(s) \in Nat
      /\ \A k \in 1..Len(s) : t[k] = s[k]
  BY AppendProperties, LenProperties
<1>2. n \in 0..Len(t)
  BY <1>1
<1> HIDE DEF t
<1>3. /\ SubSeq(t, 1, n) \in Seq(S) /\ Len(SubSeq(t, 1, n)) = n
      /\ \A k \in 1..n : SubSeq(t, 1, n)[k] = t[k]
  BY <1>1, <1>2, Prefix
<1>4. /\ SubSeq(s, 1, n) \in Seq(S) /\ Len(SubSeq(s, 1, n)) = n
      /\ \A k \in 1..n : SubSeq(s, 1, n)[k] = s[k]
  BY Prefix
<1>5. \A k \in 1..n : SubSeq(t, 1, n)[k] = SubSeq(s, 1, n)[k]
  BY <1>1, <1>3, <1>4
<1>6. SubSeq(t, 1, n) = SubSeq(s, 1, n)
  BY <1>3, <1>4, <1>5, SeqEqual
<1> QED
  BY <1>6 DEF t

LEMMA PrefixOfPrefix ==
  ASSUME NEW S, NEW s \in Seq(S), NEW m \in 0..Len(s), NEW n \in 0..m
  PROVE  SubSeq(SubSeq(s, 1, m), 1, n) = SubSeq(s, 1, n)
<1> DEFINE t == SubSeq(s, 1, m)
<1>1. t \in Seq(S) /\ Len(t) = m /\ \A k \in 1..m : t[k] = s[k]
  BY Prefix
<1>2. n \in 0..Len(t) /\ n \in 0..Len(s) /\ Len(s) \in Nat
  BY <1>1, LenProperties
<1> HIDE DEF t
<1>3. /\ SubSeq(t, 1, n) \in Seq(S) /\ Len(SubSeq(t, 1, n)) = n
      /\ \A k \in 1..n : SubSeq(t, 1, n)[k] = t[k]
  BY <1>1, <1>2, Prefix
<1>4. /\ SubSeq(s, 1, n) \in Seq(S) /\ Len(SubSeq(s, 1, n)) = n
      /\ \A k \in 1..n : SubSeq(s, 1, n)[k] = s[k]
  BY <1>2, Prefix
<1>5. \A k \in 1..n : SubSeq(t, 1, n)[k] = SubSeq(s, 1, n)[k]
  BY <1>1, <1>2, <1>3, <1>4
<1>6. SubSeq(t, 1, n) = SubSeq(s, 1, n)
  BY <1>3, <1>4, <1>5, SeqEqual
<1> QED
  BY <1>6 DEF t

(* What is right inside a stack depends on its kinds and nodes only.       *)
LEMMA SameRight ==
  ASSUME NEW s \in Seq(OpenStatement), NEW t \in Seq(OpenStatement), Len(t) = Len(s),
         \A k \in 1..Len(s) : t[k].kind = s[k].kind /\ t[k].node = s[k].node,
         NEW d, RightInside(d, s)
  PROVE  RightInside(d, t)
<1>1. DOMAIN s = 1..Len(s) /\ DOMAIN t = 1..Len(s) /\ Len(s) \in Nat
  BY LenProperties
<1>2. ASSUME NEW kinds
      PROVE  /\ NoneOf(kinds, t) => NoneOf(kinds, s)
             /\ \A k \in 1..Len(s) : Innermost(kinds, k, t) => Innermost(kinds, k, s)
  BY <1>1 DEF NoneOf, Innermost
<1> QED
  BY <1>1, <1>2 DEF RightInside

-----------------------------------------------------------------------------
(* What the lemmas about kinds of steps assume of the rest of the step.    *)
TablesTyped ==
  /\ curLabels' \in [LabelNames -> Labels]
  /\ unresolvedJumps' \subseteq LabelNames \X Nat

(* While parsing, there is an innermost open statement.                    *)
LEMMA TopTyped ==
  ASSUME IInv, Parsing
  PROVE  /\ Len(open) \in Nat \ {0} /\ DOMAIN open = 1..Len(open)
         /\ Top \in OpenStatement
         /\ \A k \in 1..Len(open) : open[k] \in OpenStatement
<1>1. open \in Seq(OpenStatement) /\ open # << >>
  BY DEF IInv, TypeOK, WellSaved
<1>2. Len(open) \in Nat \ {0} /\ DOMAIN open = 1..Len(open)
  BY <1>1, EmptySeq, LenProperties
<1>3. \A k \in 1..Len(open) : open[k] \in OpenStatement
  BY <1>1, ElementOfSeq
<1> QED
  BY <1>2, <1>3 DEF Top

(* Reading the head of a statement adds it to the tree.                    *)
LEMMA ReadTyped ==
  ASSUME IInv, NEW kind \in Kinds, NEW arg \in Args, Read(kind, arg)
  PROVE  /\ Parsing
         /\ source' \in Seq(Statement)
         /\ Len(source) \in Nat /\ Len(source') = Len(source) + 1
         /\ Node \in Nodes
<1>1. Parsing
  BY DEF Read, Parsing
<1>2. source \in Seq(Statement) /\ Len(source) \in Nat /\ Len(source) < MaxStmts
  BY LenProperties DEF IInv, TypeOK, Read
<1>3. [kind |-> kind, parent |-> Top.node, branch |-> Top.branch, arg |-> arg] \in Statement
  BY <1>1, TopTyped DEF OpenStatement, Statement
<1>4. source' \in Seq(Statement) /\ Len(source') = Len(source) + 1
  BY <1>2, <1>3, AppendProperties DEF Read
<1>5. Node \in Nodes
  BY <1>2, MaxStmtsAssumption DEF Node, Nodes
<1> QED
  BY <1>1, <1>2, <1>4, <1>5

(* WellSaved only gets weaker as statements are read.                      *)
LEMMA WellSavedKept ==
  ASSUME IInv, Parsing, Len(source) \in Nat, Len(source') \in Nat,
         Len(source) <= Len(source'), UNCHANGED open
  PROVE  WellSaved(open)'
<1>1. WellSaved(open)
  BY DEF IInv
<1>2. \A k \in DOMAIN open : open[k].node \in Nat
  BY TopTyped, MaxStmtsAssumption DEF OpenStatement, Nodes
<1> QED
  BY <1>1, <1>2 DEF WellSaved

(* A statement without substatements.                                      *)
LEMMA SimpleKeeps ==
  ASSUME IInv, NEW kind \in Kinds, NEW arg \in Args, NEW instrs \in Seq(Instruction),
         Simple(kind, arg, instrs), TablesTyped
  PROVE  IInv'
<1>1. Read(kind, arg)
  BY DEF Simple
<1>2. /\ Parsing /\ source' \in Seq(Statement)
      /\ Len(source) \in Nat /\ Len(source') = Len(source) + 1
  BY <1>1, ReadTyped
<1>3. code' \in Seq(Instruction)
  BY ConcatProperties DEF Simple, IInv, TypeOK
<1>4. status' \in {"stmt", "close"}
  BY DEF Simple, StatusIn
<1>5. TypeOK'
  BY <1>2, <1>3, <1>4 DEF IInv, TypeOK, Simple, TablesTyped
<1>6. DestsInnermost'
  BY <1>2 DEF IInv, DestsInnermost, Simple
<1>7. WellSaved(open)'
  BY <1>2, WellSavedKept DEF Simple
<1> QED
  BY <1>5, <1>6, <1>7 DEF IInv

(* Opening a statement: inside is what its ENTER macro makes of dests.     *)
LEMMA BeginKeeps ==
  ASSUME IInv, NEW kind \in Kinds, NEW arg \in Args, NEW instrs \in Seq(Instruction),
         NEW inside \in DestsType, Entered(dests, inside, Node, kind),
         Begin(kind, arg, instrs, inside), TablesTyped
  PROVE  IInv'
<1> DEFINE f == Frame(Node, kind)
<1>1. Read(kind, arg) /\ open' = Append(open, f) /\ dests' = inside /\ status' = "stmt"
  BY DEF Begin, Read
<1>2. /\ Parsing /\ source' \in Seq(Statement) /\ Node \in Nodes
      /\ Len(source) \in Nat /\ Len(source') = Len(source) + 1
  BY <1>1, ReadTyped
<1>3. /\ open \in Seq(OpenStatement) /\ dests \in DestsType
      /\ RightInside(dests, open) /\ WellSaved(open)
  BY <1>2 DEF IInv, TypeOK, DestsInnermost
<1>4. /\ Len(open) \in Nat \ {0} /\ DOMAIN open = 1..Len(open)
      /\ \A k \in 1..Len(open) : open[k] \in OpenStatement
  BY <1>2, TopTyped
<1>5. f \in OpenStatement /\ f.node = Node /\ f.kind = kind /\ f.saved = dests
  BY <1>2, <1>3 DEF Frame, OpenStatement
<1> HIDE DEF f
<1>6. /\ open' \in Seq(OpenStatement) /\ Len(open') = Len(open) + 1
      /\ \A k \in 1..Len(open) : open'[k] = open[k]
      /\ open'[Len(open) + 1] = f
  BY <1>1, <1>3, <1>5, AppendProperties
<1>7. DOMAIN open' = 1..(Len(open) + 1)
  BY <1>6, LenProperties
<1>8. code' \in Seq(Instruction)
  BY ConcatProperties DEF Begin, IInv, TypeOK
<1>9. TypeOK'
  BY <1>1, <1>2, <1>6, <1>8 DEF TypeOK, TablesTyped
<1>10. \A k \in 1..Len(open) : open[k].node \in Nat /\ open[k].node <= Len(source)
  BY <1>3, <1>4, MaxStmtsAssumption DEF WellSaved, OpenStatement, Nodes
<1>11. RightInside(inside, Append(open, f))
  <2>1. \A k \in DOMAIN open : open[k].node < f.node
    BY <1>2, <1>4, <1>5, <1>10 DEF Node
  <2> QED
    BY <1>3, <1>5, <2>1, PushRight
<1>12. DestsInnermost'
  BY <1>1, <1>11 DEF DestsInnermost
<1>13. ASSUME NEW k \in 1..(Len(open) + 1)
       PROVE  /\ open'[k].node <= Len(source')
              /\ RightInside(open'[k].saved, SubSeq(open', 1, k - 1))
  <2>1. k - 1 \in 0..Len(open)
    BY <1>4
  <2>2. SubSeq(open', 1, k - 1) = SubSeq(open, 1, k - 1)
    BY <1>1, <1>3, <1>5, <2>1, PrefixOfAppend
  <2>3. CASE k \in 1..Len(open)
    <3>1. open'[k] = open[k]
      BY <1>6, <2>3
    <3>2. open[k].node <= Len(source) /\ RightInside(open[k].saved, SubSeq(open, 1, k - 1))
      BY <1>3, <1>4, <2>3 DEF WellSaved
    <3>3. open[k].node <= Len(source')
      BY <1>2, <1>10, <2>3, <3>2
    <3> QED
      BY <2>2, <3>1, <3>2, <3>3
  <2>4. CASE k = Len(open) + 1
    <3>1. SubSeq(open, 1, k - 1) = open
      <4>1. k - 1 = Len(open)
        BY <1>4, <2>4
      <4> QED
        BY <1>3, <4>1, SubSeqFull
    <3>2. open'[k] = f
      BY <1>6, <2>4
    <3>3. f.node <= Len(source')
      BY <1>2, <1>5 DEF Node
    <3>4. RightInside(f.saved, SubSeq(open', 1, k - 1))
      BY <1>3, <1>5, <2>2, <3>1
    <3> QED
      BY <3>2, <3>3, <3>4
  <2> QED
    BY <1>4, <2>3, <2>4
<1>14. WellSaved(open)'
  <2>1. open' # << >> /\ open'[1].kind = "block"
    BY <1>3, <1>4, <1>6, EmptySeq DEF WellSaved
  <2> QED
    BY <1>7, <1>13, <2>1 DEF WellSaved
<1> QED
  BY <1>9, <1>12, <1>14 DEF IInv

(* Closing a statement: outside is what its EXIT macro makes of dests.     *)
LEMMA CloseKeeps ==
  ASSUME IInv, Parsing, Len(open) > 1, code' \in Seq(Instruction),
         NEW outside \in DestsType, Left(dests, outside, Top),
         open' = Below, dests' = outside, UNCHANGED source,
         status' \in {"stmt", "close", "noelse"}, TablesTyped
  PROVE  IInv'
<1>1. /\ open \in Seq(OpenStatement) /\ dests \in DestsType /\ open # << >>
      /\ RightInside(dests, open) /\ WellSaved(open) /\ open[1].kind = "block"
  BY DEF IInv, TypeOK, DestsInnermost, WellSaved
<1>2. /\ Len(open) \in Nat \ {0} /\ DOMAIN open = 1..Len(open)
      /\ \A k \in 1..Len(open) : open[k] \in OpenStatement
  BY TopTyped
<1>3. Len(open) - 1 \in 0..Len(open) /\ Len(open) - 1 \in Nat \ {0}
  BY <1>2
<1>4. /\ open' \in Seq(OpenStatement) /\ Len(open') = Len(open) - 1
      /\ \A k \in 1..(Len(open) - 1) : open'[k] = open[k]
  BY <1>1, <1>3, Prefix DEF Below
<1>5. DOMAIN open' = 1..(Len(open) - 1)
  BY <1>4, LenProperties
<1>6. TypeOK'
  BY <1>4 DEF IInv, TypeOK, TablesTyped
<1>7. RightInside(Top.saved, Below)
  <2>1. Len(open) \in DOMAIN open
    BY <1>2
  <2> QED
    BY <1>1, <2>1 DEF WellSaved, Top, Below
<1>8. RightInside(outside, Below)
  BY <1>1, <1>7, PopRight DEF Top, Below
<1>9. DestsInnermost'
  BY <1>8 DEF DestsInnermost
<1>10. ASSUME NEW k \in 1..(Len(open) - 1)
       PROVE  /\ open'[k].node <= Len(source')
              /\ RightInside(open'[k].saved, SubSeq(open', 1, k - 1))
  <2>1. k \in DOMAIN open /\ k - 1 \in 0..(Len(open) - 1)
    BY <1>2
  <2>2. SubSeq(open', 1, k - 1) = SubSeq(open, 1, k - 1)
    BY <1>1, <1>3, <2>1, PrefixOfPrefix DEF Below
  <2>3. open[k].node <= Len(source) /\ RightInside(open[k].saved, SubSeq(open, 1, k - 1))
    BY <1>1, <2>1 DEF WellSaved
  <2>4. open'[k] = open[k] /\ Len(source') = Len(source)
    BY <1>4
  <2> QED
    BY <2>2, <2>3, <2>4
<1>11. WellSaved(open)'
  <2>1. open' # << >> /\ open'[1].kind = "block"
    BY <1>1, <1>2, <1>3, <1>4, EmptySeq
  <2> QED
    BY <1>5, <1>10, <2>1 DEF WellSaved
<1> QED
  BY <1>6, <1>9, <1>11 DEF IInv

LEMMA FinishKeeps ==
  ASSUME IInv, NEW kind, kind # "block", NEW instrs \in Seq(Instruction),
         NEW outside \in DestsType, Left(dests, outside, Top),
         NEW ahead \in {"close", "noelse"},
         Finish(kind, instrs, outside, ahead), TablesTyped
  PROVE  IInv'
<1>1. /\ Parsing /\ Top.kind = kind /\ open' = Below /\ dests' = outside
      /\ UNCHANGED source /\ status' \in {"stmt", "close", "noelse"}
  BY DEF Finish, Parsing, StatusIn
<1>2. Len(open) > 1
  BY <1>1, TopTyped DEF IInv, WellSaved, Top
<1>3. code' \in Seq(Instruction)
  BY ConcatProperties DEF Finish, IInv, TypeOK
<1> QED
  BY <1>1, <1>2, <1>3, CloseKeeps

(* A step that ends the parse has to keep the types only.                  *)
LEMMA StopKeeps ==
  ASSUME IInv, status' \in {"rejected", "crashed"},
         UNCHANGED <<source, code, open, dests, curLabels, unresolvedJumps>>
  PROVE  IInv'
  BY DEF IInv, TypeOK, DestsInnermost, Parsing

-----------------------------------------------------------------------------
LEMMA LabelTypes ==
  /\ 0 \in Nodes
  /\ NoLabel \in Labels
  /\ \A n \in Nodes, role \in LabelRoles : <<n, role>> \in Labels
  /\ Labels \subseteq Nodes \X Roles
BY MaxStmtsAssumption DEF Labels, LabelRoles, Roles, Nodes, NoLabel

LEMMA InstructionTypes ==
  /\ \A n \in Nodes, role \in Roles : Eval(role, n) \in Instruction
  /\ \A n \in Nodes, to \in Labels : Test(n, to) \in Instruction
  /\ \A n \in Nodes, to \in Labels, value \in Int : Match(n, to, value) \in Instruction
  /\ \A to \in Labels : Jump(to) \in Instruction
  /\ \A l \in Labels : Label(l) \in Instruction
<1>1. ASSUME NEW op \in {"eval", "test", "match", "jump", "label"},
             NEW at \in Nodes \X Roles, NEW to \in Labels, NEW value \in Int
      PROVE  Instr(op, at, to, value) \in Instruction
  BY DEF Instr, Instruction
<1>2. \A n \in Nodes, role \in Roles : <<n, role>> \in Nodes \X Roles
  OBVIOUS
<1>3. "test" \in Roles /\ "match" \in Roles
  BY DEF Roles, LabelRoles
<1>4. ASSUME NEW n \in Nodes, NEW role \in Roles
      PROVE  Eval(role, n) \in Instruction
  <2>1. <<n, role>> \in Nodes \X Roles /\ NoLabel \in Labels /\ 0 \in Int
    BY <1>2, LabelTypes
  <2> QED
    BY <1>1, <2>1 DEF Eval
<1>5. \A n \in Nodes, to \in Labels : Test(n, to) \in Instruction
  BY <1>1, <1>2, <1>3 DEF Test
<1>6. \A n \in Nodes, to \in Labels, value \in Int : Match(n, to, value) \in Instruction
  BY <1>1, <1>2, <1>3, LabelTypes DEF Match
<1>7. \A to \in Labels : Jump(to) \in Instruction
  BY <1>1, LabelTypes DEF Jump
<1>8. \A l \in Labels : Label(l) \in Instruction
  BY <1>1, LabelTypes DEF Label
<1> QED
  BY <1>4, <1>5, <1>6, <1>7, <1>8

(* Two instructions, or one, after those there are.                        *)
LEMMA Instructions ==
  ASSUME NEW i \in Instruction, NEW j \in Instruction
  PROVE  /\ << >> \in Seq(Instruction)
         /\ <<i>> \in Seq(Instruction)
         /\ <<i, j>> \in Seq(Instruction)
OBVIOUS

LEMMA SimpleStatementsKeep ==
  ASSUME IInv,
         \/ ParseExprStmt \/ ParseReturnStmt \/ ParseBreakStmt \/ ParseContinueStmt
         \/ \E name \in LabelNames : ParseGotoStmt(name)
  PROVE  IInv'
<1> USE DEF Kinds, Args
<1>1. /\ dests \in DestsType /\ curLabels \in [LabelNames -> Labels]
      /\ unresolvedJumps \subseteq LabelNames \X Nat
      /\ Len(code) \in Nat
  BY LenProperties DEF IInv, TypeOK
<1>2. ASSUME NEW role \in {"expr", "return"}, Read(role, << >>)
      PROVE  <<Eval(role, Node)>> \in Seq(Instruction)
  <2>1. Node \in Nodes
    BY <1>2, ReadTyped
  <2>2. role \in Roles
    BY DEF Roles
  <2>3. Eval(role, Node) \in Instruction
    BY <2>1, <2>2, InstructionTypes
  <2> QED
    BY <2>3, Instructions
<1>3. ASSUME NEW to \in Labels
      PROVE  <<Jump(to)>> \in Seq(Instruction)
  <2>1. Jump(to) \in Instruction
    BY InstructionTypes
  <2> QED
    BY <2>1, Instructions
<1>4. CASE ParseExprStmt
  BY <1>1, <1>2, <1>4, SimpleKeeps DEF ParseExprStmt, Simple, TablesTyped
<1>5. CASE ParseReturnStmt
  BY <1>1, <1>2, <1>5, SimpleKeeps DEF ParseReturnStmt, Simple, TablesTyped
<1>6. CASE ParseBreakStmt
  <2>1. CASE dests.breakDest = NoLabel
    BY <1>6, <2>1, StopKeeps DEF ParseBreakStmt, Error
  <2>2. CASE dests.breakDest # NoLabel
    <3>1. <<Jump(dests.breakDest)>> \in Seq(Instruction)
      BY <1>1, <1>3 DEF DestsType
    <3> QED
      BY <1>1, <1>6, <2>2, <3>1, SimpleKeeps DEF ParseBreakStmt, TablesTyped
  <2> QED
    BY <2>1, <2>2
<1>7. CASE ParseContinueStmt
  <2>1. CASE dests.continueDest = NoLabel
    BY <1>7, <2>1, StopKeeps DEF ParseContinueStmt, Error
  <2>2. CASE dests.continueDest # NoLabel
    <3>1. <<Jump(dests.continueDest)>> \in Seq(Instruction)
      BY <1>1, <1>3 DEF DestsType
    <3> QED
      BY <1>1, <1>7, <2>2, <3>1, SimpleKeeps DEF ParseContinueStmt, TablesTyped
  <2> QED
    BY <2>1, <2>2
<1>8. ASSUME NEW name \in LabelNames, ParseGotoStmt(name)
      PROVE  IInv'
  <2>1. <<Jump(curLabels[name])>> \in Seq(Instruction)
    BY <1>1, <1>3
  <2>2. TablesTyped
    BY <1>1, <1>8 DEF ParseGotoStmt, TablesTyped
  <2> QED
    BY <1>8, <2>1, <2>2, SimpleKeeps DEF ParseGotoStmt
<1> QED
  BY <1>4, <1>5, <1>6, <1>7, <1>8

(* The destinations inside a statement, and outside of it, by its kind.    *)
LEMMA EnterTypes ==
  ASSUME dests \in DestsType, NEW n \in Nodes
  PROVE  /\ \A kind \in Loops, role \in {"cond", "step", "begin"} :
              /\ EnterLoopBody(<<n, "end">>, <<n, role>>) \in DestsType
              /\ Entered(dests, EnterLoopBody(<<n, "end">>, <<n, role>>), n, kind)
         /\ EnterSwitchBody(<<n, "end">>, n) \in DestsType
         /\ Entered(dests, EnterSwitchBody(<<n, "end">>, n), n, "switch")
         /\ \A kind : kind \notin BreakTargets => Entered(dests, dests, n, kind)
<1>1. ASSUME NEW kind \in Loops, NEW role \in {"cond", "step", "begin"}
      PROVE  /\ EnterLoopBody(<<n, "end">>, <<n, role>>) \in DestsType
             /\ Entered(dests, EnterLoopBody(<<n, "end">>, <<n, role>>), n, kind)
  <2>1. <<n, "end">> \in Labels /\ <<n, role>> \in Labels
    BY LabelTypes DEF LabelRoles
  <2>2. kind \in BreakTargets /\ kind # "switch"
    BY DEF Loops, BreakTargets
  <2> QED
    BY <2>1, <2>2 DEF EnterLoopBody, Entered, DestsType
<1>2. /\ EnterSwitchBody(<<n, "end">>, n) \in DestsType
      /\ Entered(dests, EnterSwitchBody(<<n, "end">>, n), n, "switch")
  <2>1. <<n, "end">> \in Labels /\ NoLabel \in Labels
    BY LabelTypes DEF LabelRoles
  <2>2. "switch" \in BreakTargets /\ "switch" \notin Loops
    BY DEF Loops, BreakTargets
  <2>3. << >> \in Seq(Int \X Labels)
    BY EmptySeq
  <2> QED
    BY <2>1, <2>2, <2>3 DEF EnterSwitchBody, Entered, DestsType
<1>3. ASSUME NEW kind, kind \notin BreakTargets
      PROVE  Entered(dests, dests, n, kind)
  BY <1>3 DEF Entered, BreakTargets
<1> QED
  BY <1>1, <1>2, <1>3

LEMMA ExitTypes ==
  ASSUME dests \in DestsType, Top \in OpenStatement
  PROVE  /\ Top.kind \in Loops => ExitLoopBody \in DestsType /\ Left(dests, ExitLoopBody, Top)
         /\ Top.kind = "switch" => ExitSwitchBody \in DestsType /\ Left(dests, ExitSwitchBody, Top)
         /\ Top.kind \notin BreakTargets => Left(dests, dests, Top)
<1>1. Top.saved \in DestsType
  BY DEF OpenStatement
<1>2. "switch" \in BreakTargets /\ "switch" \notin Loops /\ Loops \subseteq BreakTargets
  BY DEF Loops, BreakTargets
<1>3. CASE Top.kind \in Loops
  BY <1>1, <1>2, <1>3 DEF ExitLoopBody, Left, DestsType
<1>4. CASE Top.kind = "switch"
  BY <1>1, <1>2, <1>4 DEF ExitSwitchBody, Left, DestsType
<1>5. CASE Top.kind \notin BreakTargets
  BY <1>2, <1>5 DEF Left
<1> QED
  BY <1>2, <1>3, <1>4, <1>5

-----------------------------------------------------------------------------
(* The instructions at the head of each statement.                         *)
LEMMA HeadInstructions ==
  ASSUME NEW n \in Nodes, NEW kind
  PROVE  /\ <<Label(<<n, "label">>)>> \in Seq(Instruction)
         /\ <<Test(n, <<n, "else">>)>> \in Seq(Instruction)
         /\ <<Label(<<n, "cond">>), Test(n, <<n, "end">>)>> \in Seq(Instruction)
         /\ <<Label(<<n, "begin">>)>> \in Seq(Instruction)
         /\ <<Eval("switch", n), Jump(<<n, "test">>)>> \in Seq(Instruction)
         /\ <<Eval("init", n), Label(<<n, "cond">>)>>
              \o (IF kind = "for" THEN <<Test(n, <<n, "end">>)>> ELSE << >>) \in Seq(Instruction)
<1>1. \A role \in {"label", "else", "cond", "begin", "end", "test"} : <<n, role>> \in Labels
  BY LabelTypes DEF LabelRoles
<1>2. /\ Label(<<n, "label">>) \in Instruction /\ Label(<<n, "cond">>) \in Instruction
      /\ Label(<<n, "begin">>) \in Instruction
      /\ Test(n, <<n, "else">>) \in Instruction /\ Test(n, <<n, "end">>) \in Instruction
      /\ Jump(<<n, "test">>) \in Instruction
  BY <1>1, InstructionTypes
<1>3. Eval("switch", n) \in Instruction /\ Eval("init", n) \in Instruction
  <2>1. "switch" \in Roles /\ "init" \in Roles
    BY DEF Roles
  <2> QED
    BY <2>1, InstructionTypes
<1>4. /\ <<Eval("init", n), Label(<<n, "cond">>)>> \in Seq(Instruction)
      /\ <<Test(n, <<n, "end">>)>> \in Seq(Instruction) /\ << >> \in Seq(Instruction)
  BY <1>2, <1>3, Instructions
<1>5. <<Eval("init", n), Label(<<n, "cond">>)>>
        \o (IF kind = "for" THEN <<Test(n, <<n, "end">>)>> ELSE << >>) \in Seq(Instruction)
  BY <1>4, ConcatProperties
<1> QED
  BY <1>2, <1>3, <1>4, <1>5, Instructions

LEMMA OpeningKeeps ==
  ASSUME IInv,
         \/ \E name \in LabelNames : ParseLabelStmt(name)
         \/ ParseCompoundStmt \/ ParseIfStmt \/ ParseWhileStmt \/ ParseDoStmt
         \/ \E kind \in {"for", "forever"} : ParseForStmt(kind)
         \/ ParseSwitchStmt
  PROVE  IInv'
<1>1. /\ dests \in DestsType
      /\ UNCHANGED <<curLabels, unresolvedJumps>> => TablesTyped
  BY DEF IInv, TypeOK, TablesTyped
<1>2. ASSUME NEW kind \in Kinds, NEW arg \in Args, NEW instrs, NEW inside,
             Begin(kind, arg, instrs, inside)
      PROVE  Node \in Nodes
  BY <1>2, ReadTyped DEF Begin
<1>3. << >> \in Args /\ LabelNames \subseteq Args
  BY DEF Args
<1>4. ASSUME NEW name \in LabelNames, ParseLabelStmt(name)
      PROVE  IInv'
  <2>1. "label" \in Kinds /\ "label" \notin BreakTargets
    BY DEF Kinds, BreakTargets, Loops
  <2>2. Node \in Nodes
    BY <1>2, <1>3, <1>4, <2>1 DEF ParseLabelStmt
  <2> QED
    BY <1>1, <1>3, <1>4, <2>1, <2>2, HeadInstructions, EnterTypes, BeginKeeps
    DEF ParseLabelStmt
<1>5. CASE ParseCompoundStmt
  <2>1. "block" \in Kinds /\ "block" \notin BreakTargets
    BY DEF Kinds, BreakTargets, Loops
  <2>2. Node \in Nodes /\ << >> \in Seq(Instruction)
    BY <1>2, <1>3, <1>5, <2>1, EmptySeq DEF ParseCompoundStmt
  <2> QED
    BY <1>1, <1>3, <1>5, <2>1, <2>2, EnterTypes, BeginKeeps DEF ParseCompoundStmt
<1>6. CASE ParseIfStmt
  <2>1. "if" \in Kinds /\ "if" \notin BreakTargets
    BY DEF Kinds, BreakTargets, Loops
  <2>2. Node \in Nodes
    BY <1>2, <1>3, <1>6, <2>1 DEF ParseIfStmt
  <2> QED
    BY <1>1, <1>3, <1>6, <2>1, <2>2, HeadInstructions, EnterTypes, BeginKeeps
    DEF ParseIfStmt
<1>7. CASE ParseWhileStmt
  <2>1. "while" \in Kinds /\ "while" \in Loops
    BY DEF Kinds, BreakTargets, Loops
  <2>2. Node \in Nodes
    BY <1>2, <1>3, <1>7, <2>1 DEF ParseWhileStmt
  <2> QED
    BY <1>1, <1>3, <1>7, <2>1, <2>2, HeadInstructions, EnterTypes, BeginKeeps
    DEF ParseWhileStmt
<1>8. CASE ParseDoStmt
  <2>1. "do" \in Kinds /\ "do" \in Loops
    BY DEF Kinds, BreakTargets, Loops
  <2>2. Node \in Nodes
    BY <1>2, <1>3, <1>8, <2>1 DEF ParseDoStmt
  <2> QED
    BY <1>1, <1>3, <1>8, <2>1, <2>2, HeadInstructions, EnterTypes, BeginKeeps
    DEF ParseDoStmt
<1>9. ASSUME NEW kind \in {"for", "forever"}, ParseForStmt(kind)
      PROVE  IInv'
  <2>1. kind \in Kinds /\ kind \in Loops
    BY DEF Kinds, BreakTargets, Loops
  <2>2. Node \in Nodes
    BY <1>2, <1>3, <1>9, <2>1 DEF ParseForStmt
  <2> QED
    BY <1>1, <1>3, <1>9, <2>1, <2>2, HeadInstructions, EnterTypes, BeginKeeps
    DEF ParseForStmt
<1>10. CASE ParseSwitchStmt
  <2>1. "switch" \in Kinds
    BY DEF Kinds, BreakTargets
  <2>2. Node \in Nodes
    BY <1>2, <1>3, <1>10, <2>1 DEF ParseSwitchStmt
  <2> QED
    BY <1>1, <1>3, <1>10, <2>1, <2>2, HeadInstructions, EnterTypes, BeginKeeps
    DEF ParseSwitchStmt
<1> QED
  BY <1>4, <1>5, <1>6, <1>7, <1>8, <1>9, <1>10

(* A case range makes one entry for each of its values.                    *)
LEMMA CaseEntries ==
  ASSUME NEW range \in CaseRanges, NEW l \in Labels
  PROVE  [i \in 1..(range[2] - range[1] + 1) |-> <<range[1] + i - 1, l>>] \in Seq(Int \X Labels)
<1> DEFINE n == range[2] - range[1] + 1
           added == [i \in 1..n |-> <<range[1] + i - 1, l>>]
<1>1. range[1] \in Int /\ range[2] \in Int
  BY CaseRangesAssumption
<1>2. CASE range[1] <= range[2]
  <2>1. n \in Nat
    BY <1>1, <1>2
  <2>2. \A i \in 1..n : <<range[1] + i - 1, l>> \in Int \X Labels
    BY <1>1
  <2>3. added \in [1..n -> Int \X Labels]
    BY <2>2
  <2> HIDE DEF added, n
  <2>4. added \in Seq(Int \X Labels)
    BY <2>1, <2>3, SeqDef
  <2> QED
    BY <2>4 DEF added, n
<1>3. CASE ~(range[1] <= range[2])
  <2>1. 1..n = {}
    BY <1>1, <1>3
  <2>2. added \in [1..0 -> Int \X Labels]
    BY <2>1
  <2> HIDE DEF added, n
  <2>3. added \in Seq(Int \X Labels)
    BY <2>2, SeqDef
  <2> QED
    BY <2>3 DEF added, n
<1> QED
  BY <1>2, <1>3

(* Case labels and default add to what the switch around them will test.   *)
LEMMA CaseKeeps ==
  ASSUME IInv, NEW range \in CaseRanges, ParseCaseStmt(range)
  PROVE  IInv'
<1> DEFINE added == [i \in 1..(range[2] - range[1] + 1) |->
                       <<range[1] + i - 1, <<Node, "label">> >>]
           inside == [dests EXCEPT !.caseLabels.list = @ \o added]
<1>1. /\ dests \in DestsType
      /\ UNCHANGED <<curLabels, unresolvedJumps>> => TablesTyped
  BY DEF IInv, TypeOK, TablesTyped
<1>2. range \in Args /\ range[1] \in Int /\ range[2] \in Int
  BY CaseRangesAssumption DEF Args
<1>3. CASE dests.caseLabels.switch = 0 /\ range[1] <= range[2]
  BY <1>3, StopKeeps DEF ParseCaseStmt
<1>4. CASE ~(dests.caseLabels.switch = 0 /\ range[1] <= range[2])
  <2>1. /\ Begin("case", range, <<Label(<<Node, "label">>)>>, inside)
        /\ UNCHANGED <<curLabels, unresolvedJumps>>
    BY <1>4 DEF ParseCaseStmt
  <2>2. "case" \in Kinds /\ "case" \notin BreakTargets /\ "case" # "switch" /\ "case" \notin Loops
    BY DEF Kinds, BreakTargets, Loops
  <2>3. Node \in Nodes
    BY <1>2, <2>1, <2>2, ReadTyped DEF Begin
  <2>4. <<Node, "label">> \in Labels
    BY <2>3, LabelTypes DEF LabelRoles
  <2>5. added \in Seq(Int \X Labels)
    BY <2>4, CaseEntries
  <2> HIDE DEF added
  <2>6. dests.caseLabels.list \o added \in Seq(Int \X Labels)
    BY <1>1, <2>5, ConcatProperties DEF DestsType
  <2>7. inside \in DestsType /\ Entered(dests, inside, Node, "case")
    BY <1>1, <2>2, <2>6 DEF DestsType, Entered
  <2> HIDE DEF inside
  <2>8. <<Label(<<Node, "label">>)>> \in Seq(Instruction)
    BY <2>3, HeadInstructions
  <2> QED
    BY <1>1, <1>2, <2>1, <2>2, <2>7, <2>8, BeginKeeps
<1> QED
  BY <1>3, <1>4

LEMMA DefaultKeeps ==
  ASSUME IInv, ParseDefaultStmt
  PROVE  IInv'
<1> DEFINE inside == [dests EXCEPT !.defaultLabel = <<Node, "label">>]
<1>1. /\ dests \in DestsType
      /\ UNCHANGED <<curLabels, unresolvedJumps>> => TablesTyped
  BY DEF IInv, TypeOK, TablesTyped
<1>2. CASE dests.defaultLabel # NoLabel
  BY <1>2, StopKeeps DEF ParseDefaultStmt, Error
<1>3. CASE dests.defaultLabel = NoLabel
  <2>1. /\ Begin("default", << >>, <<Label(<<Node, "label">>)>>, inside)
        /\ UNCHANGED <<curLabels, unresolvedJumps>>
    BY <1>3 DEF ParseDefaultStmt
  <2>2. /\ "default" \in Kinds /\ "default" \notin BreakTargets /\ << >> \in Args
        /\ "default" # "switch" /\ "default" \notin Loops
    BY DEF Kinds, BreakTargets, Loops, Args
  <2>3. Node \in Nodes
    BY <2>1, <2>2, ReadTyped DEF Begin
  <2>4. <<Node, "label">> \in Labels
    BY <2>3, LabelTypes DEF LabelRoles
  <2>5. inside \in DestsType /\ Entered(dests, inside, Node, "default")
    BY <1>1, <2>2, <2>4 DEF DestsType, Entered
  <2> HIDE DEF inside
  <2>6. <<Label(<<Node, "label">>)>> \in Seq(Instruction)
    BY <2>3, HeadInstructions
  <2> QED
    BY <1>1, <2>1, <2>2, <2>5, <2>6, BeginKeeps
<1> QED
  BY <1>2, <1>3

-----------------------------------------------------------------------------
(* The instructions at the end of each statement.                          *)
LEMMA TailInstructions ==
  ASSUME NEW n \in Nodes
  PROVE  /\ <<Label(<<n, "else">>)>> \in Seq(Instruction)
         /\ <<Label(<<n, "end">>)>> \in Seq(Instruction)
         /\ <<Jump(<<n, "end">>), Label(<<n, "else">>)>> \in Seq(Instruction)
         /\ <<Jump(<<n, "end">>), Label(<<n, "test">>)>> \in Seq(Instruction)
         /\ <<Jump(<<n, "cond">>), Label(<<n, "end">>)>> \in Seq(Instruction)
         /\ <<Label(<<n, "cond">>), Test(n, <<n, "end">>),
              Jump(<<n, "begin">>), Label(<<n, "end">>)>> \in Seq(Instruction)
         /\ <<Label(<<n, "step">>), Eval("step", n),
              Jump(<<n, "cond">>), Label(<<n, "end">>)>> \in Seq(Instruction)
<1>1. \A role \in {"step", "else", "cond", "begin", "end", "test"} : <<n, role>> \in Labels
  BY LabelTypes DEF LabelRoles
<1>2. /\ Label(<<n, "else">>) \in Instruction /\ Label(<<n, "end">>) \in Instruction
      /\ Label(<<n, "test">>) \in Instruction /\ Label(<<n, "cond">>) \in Instruction
      /\ Label(<<n, "step">>) \in Instruction
      /\ Jump(<<n, "end">>) \in Instruction /\ Jump(<<n, "cond">>) \in Instruction
      /\ Jump(<<n, "begin">>) \in Instruction
      /\ Test(n, <<n, "end">>) \in Instruction
  BY <1>1, InstructionTypes
<1>3. Eval("step", n) \in Instruction
  <2>1. "step" \in Roles
    BY DEF Roles, LabelRoles
  <2> QED
    BY <2>1, InstructionTypes
<1>4. ASSUME NEW i \in Instruction, NEW j \in Instruction,
             NEW k \in Instruction, NEW l \in Instruction
      PROVE  <<i, j, k, l>> \in Seq(Instruction)
  OBVIOUS
<1> QED
  BY <1>2, <1>3, <1>4, Instructions

LEMMA ClosingKeeps ==
  ASSUME IInv,
         \/ EndLabelStmt \/ EndIfStmt \/ EndWhileStmt \/ EndDoStmt
         \/ \E kind \in {"for", "forever"} : EndForStmt(kind)
         \/ \E kind \in {"case", "default"} : EndCaseStmt(kind)
  PROVE  IInv'
<1>1. /\ dests \in DestsType /\ curLabels \in [LabelNames -> Labels]
      /\ unresolvedJumps \subseteq LabelNames \X Nat
      /\ UNCHANGED <<curLabels, unresolvedJumps>> => TablesTyped
  BY DEF IInv, TypeOK, TablesTyped
<1>2. Parsing /\ status \in {"close", "noelse"}
  BY DEF EndLabelStmt, EndIfStmt, EndWhileStmt, EndDoStmt, EndForStmt, EndCaseStmt,
         Finish, Error, Parsing
<1>3. Top \in OpenStatement /\ Top.node \in Nodes
  BY <1>2, TopTyped DEF OpenStatement
<1>4. << >> \in Seq(Instruction)
  BY EmptySeq
<1>5. CASE EndLabelStmt
  <2> DEFINE name == source[Top.node].arg
  <2>1. CASE curLabels[name] # NoLabel
    BY <1>5, <2>1, StopKeeps DEF EndLabelStmt, Error
  <2>2. CASE curLabels[name] = NoLabel
    <3>1. /\ Finish("label", << >>, dests, status)
          /\ curLabels' = [curLabels EXCEPT ![name] = <<Top.node, "label">>]
          /\ UNCHANGED unresolvedJumps
      BY <1>5, <2>2 DEF EndLabelStmt
    <3>2. <<Top.node, "label">> \in Labels
      BY <1>3, LabelTypes DEF LabelRoles
    <3>3. TablesTyped
      BY <1>1, <3>1, <3>2 DEF TablesTyped
    <3>4. "label" \notin BreakTargets /\ Top.kind = "label" /\ "label" # "block"
      BY <3>1 DEF Finish, BreakTargets, Loops
    <3> QED
      BY <1>1, <1>2, <1>3, <1>4, <3>1, <3>3, <3>4, ExitTypes, FinishKeeps
  <2> QED
    BY <2>1, <2>2
<1>6. CASE EndIfStmt
  <2>1. "if" \notin BreakTargets /\ Top.kind = "if" /\ "if" # "block"
    BY <1>6 DEF EndIfStmt, Finish, BreakTargets, Loops
  <2>2. Left(dests, dests, Top)
    BY <1>1, <1>3, <2>1, ExitTypes
  <2>3. CASE Top.branch = 1
    BY <1>1, <1>3, <1>6, <2>1, <2>2, <2>3, TailInstructions, FinishKeeps DEF EndIfStmt
  <2>4. CASE Top.branch # 1
    BY <1>1, <1>2, <1>3, <1>6, <2>1, <2>2, <2>4, TailInstructions, FinishKeeps DEF EndIfStmt
  <2> QED
    BY <2>3, <2>4
<1>7. CASE EndWhileStmt
  <2>1. "while" \in Loops /\ Top.kind = "while" /\ "while" # "block"
    BY <1>7 DEF EndWhileStmt, Finish, Loops
  <2>2. ExitLoopBody \in DestsType /\ Left(dests, ExitLoopBody, Top)
    BY <1>1, <1>3, <2>1, ExitTypes
  <2> QED
    BY <1>1, <1>2, <1>3, <1>7, <2>1, <2>2, TailInstructions, FinishKeeps DEF EndWhileStmt
<1>8. CASE EndDoStmt
  <2>1. "do" \in Loops /\ Top.kind = "do" /\ "do" # "block"
    BY <1>8 DEF EndDoStmt, Finish, Loops
  <2>2. ExitLoopBody \in DestsType /\ Left(dests, ExitLoopBody, Top)
    BY <1>1, <1>3, <2>1, ExitTypes
  <2> QED
    BY <1>1, <1>2, <1>3, <1>8, <2>1, <2>2, TailInstructions, FinishKeeps DEF EndDoStmt
<1>9. ASSUME NEW kind \in {"for", "forever"}, EndForStmt(kind)
      PROVE  IInv'
  <2>1. kind \in Loops /\ Top.kind = kind /\ kind # "block"
    BY <1>9 DEF EndForStmt, Finish, Loops
  <2>2. ExitLoopBody \in DestsType /\ Left(dests, ExitLoopBody, Top)
    BY <1>1, <1>3, <2>1, ExitTypes
  <2> QED
    BY <1>1, <1>2, <1>3, <1>9, <2>1, <2>2, TailInstructions, FinishKeeps DEF EndForStmt
<1>10. ASSUME NEW kind \in {"case", "default"}, EndCaseStmt(kind)
       PROVE  IInv'
  <2>1. kind \notin BreakTargets /\ Top.kind = kind /\ kind # "block"
    BY <1>10 DEF EndCaseStmt, Finish, Loops, BreakTargets
  <2>2. Left(dests, dests, Top)
    BY <1>1, <1>3, <2>1, ExitTypes
  <2> QED
    BY <1>1, <1>2, <1>4, <1>10, <2>1, <2>2, FinishKeeps DEF EndCaseStmt
<1> QED
  BY <1>5, <1>6, <1>7, <1>8, <1>9, <1>10

(* The tests of a switch are one for each of its case values.              *)
LEMMA EndSwitchKeeps ==
  ASSUME IInv, EndSwitchStmt
  PROVE  IInv'
<1> DEFINE n == Top.node
           cases == dests.caseLabels.list
           tests == [i \in DOMAIN cases |-> Match(n, cases[i][2], cases[i][1])]
           otherwise == IF dests.defaultLabel = NoLabel THEN << >>
                        ELSE <<Jump(dests.defaultLabel)>>
           head == <<Jump(<<n, "end">>), Label(<<n, "test">>)>>
           instrs == head \o tests \o otherwise \o <<Label(<<n, "end">>)>>
<1>1. /\ dests \in DestsType
      /\ UNCHANGED <<curLabels, unresolvedJumps>> => TablesTyped
  BY DEF IInv, TypeOK, TablesTyped
<1>2. /\ Finish("switch", instrs, ExitSwitchBody, status)
      /\ UNCHANGED <<curLabels, unresolvedJumps>>
  BY DEF EndSwitchStmt
<1>3. Parsing /\ status \in {"close", "noelse"} /\ Top.kind = "switch" /\ "switch" # "block"
  BY <1>2 DEF Finish, Parsing
<1>4. Top \in OpenStatement /\ n \in Nodes
  BY <1>3, TopTyped DEF OpenStatement
<1>5. ExitSwitchBody \in DestsType /\ Left(dests, ExitSwitchBody, Top)
  BY <1>1, <1>3, <1>4, ExitTypes
<1>6. cases \in Seq(Int \X Labels) /\ dests.defaultLabel \in Labels
  BY <1>1 DEF DestsType
<1> HIDE DEF n, cases
<1>7. tests \in Seq(Instruction)
  <2>1. DOMAIN cases = 1..Len(cases) /\ Len(cases) \in Nat
    BY <1>6, LenProperties
  <2>2. \A i \in 1..Len(cases) : Match(n, cases[i][2], cases[i][1]) \in Instruction
    <3>1. ASSUME NEW i \in 1..Len(cases)
          PROVE  cases[i] \in Int \X Labels
      BY <1>6, ElementOfSeq
    <3>2. ASSUME NEW i \in 1..Len(cases)
          PROVE  cases[i][1] \in Int /\ cases[i][2] \in Labels
      BY <3>1
    <3> QED
      BY <1>4, <3>2, InstructionTypes
  <2>3. tests \in [1..Len(cases) -> Instruction]
    BY <2>1, <2>2
  <2> HIDE DEF tests
  <2> QED
    BY <2>1, <2>3, SeqDef
<1>8. otherwise \in Seq(Instruction)
  <2>1. Jump(dests.defaultLabel) \in Instruction
    BY <1>6, InstructionTypes
  <2> QED
    BY <2>1, Instructions
<1>9. head \in Seq(Instruction) /\ <<Label(<<n, "end">>)>> \in Seq(Instruction)
  BY <1>4, TailInstructions
<1> HIDE DEF head, tests, otherwise
<1>10. instrs \in Seq(Instruction)
  <2>1. head \o tests \in Seq(Instruction)
    BY <1>7, <1>9, ConcatProperties
  <2>2. head \o tests \o otherwise \in Seq(Instruction)
    BY <1>8, <2>1, ConcatProperties
  <2> QED
    BY <1>9, <2>2, ConcatProperties
<1> HIDE DEF instrs
<1> QED
  BY <1>1, <1>2, <1>3, <1>5, <1>10, FinishKeeps

LEMMA EndCompoundKeeps ==
  ASSUME IInv, EndCompoundStmt
  PROVE  IInv'
<1>1. /\ dests \in DestsType /\ code \in Seq(Instruction)
      /\ UNCHANGED <<curLabels, unresolvedJumps>> => TablesTyped
  BY DEF IInv, TypeOK, TablesTyped
<1>2. Parsing /\ Top.kind = "block" /\ "block" \notin BreakTargets
  BY DEF EndCompoundStmt, Parsing, BreakTargets, Loops
<1>3. Left(dests, dests, Top)
  BY <1>1, <1>2, TopTyped, ExitTypes
<1>4. status' \in {"stmt", "close", "noelse"}
  BY DEF EndCompoundStmt, StatusIn
<1> QED
  BY <1>1, <1>2, <1>3, <1>4, CloseKeeps DEF EndCompoundStmt

-----------------------------------------------------------------------------
(* An else changes the branch of the innermost statement, and so nothing   *)
(* that the destinations depend on.                                        *)
LEMMA ElseKeeps ==
  ASSUME IInv, Else
  PROVE  IInv'
<1>1. Parsing /\ open' = [open EXCEPT ![Len(open)].branch = 2] /\ status' = "stmt"
  BY DEF Else, Parsing
<1>2. /\ open \in Seq(OpenStatement) /\ code \in Seq(Instruction)
      /\ RightInside(dests, open) /\ WellSaved(open) /\ open[1].kind = "block"
  BY <1>1 DEF IInv, TypeOK, DestsInnermost, WellSaved
<1>3. /\ Len(open) \in Nat \ {0} /\ DOMAIN open = 1..Len(open)
      /\ Top \in OpenStatement /\ Top.node \in Nodes
      /\ \A k \in 1..Len(open) : open[k] \in OpenStatement
  BY <1>1, TopTyped DEF OpenStatement
<1>4. \A k \in 1..Len(open) :
        /\ open'[k] \in OpenStatement
        /\ open'[k].kind = open[k].kind /\ open'[k].node = open[k].node
        /\ open'[k].saved = open[k].saved
  BY <1>1, <1>3 DEF OpenStatement
<1>5. open' \in Seq(OpenStatement) /\ Len(open') = Len(open) /\ DOMAIN open' = 1..Len(open)
  <2>1. open' \in [1..Len(open) -> OpenStatement]
    <3>1. DOMAIN open' = 1..Len(open) /\ open' = [k \in 1..Len(open) |-> open'[k]]
      BY <1>1, <1>3
    <3> QED
      BY <1>4, <3>1
  <2>2. open' \in Seq(OpenStatement)
    BY <1>3, <2>1, SeqDef
  <2> QED
    BY <1>3, <2>1, <2>2, LenProperties
<1>6. ASSUME NEW n \in 0..Len(open), NEW d, RightInside(d, SubSeq(open, 1, n))
      PROVE  RightInside(d, SubSeq(open', 1, n))
  <2>1. /\ SubSeq(open, 1, n) \in Seq(OpenStatement) /\ Len(SubSeq(open, 1, n)) = n
        /\ \A k \in 1..n : SubSeq(open, 1, n)[k] = open[k]
    BY <1>2, Prefix
  <2>2. /\ SubSeq(open', 1, n) \in Seq(OpenStatement) /\ Len(SubSeq(open', 1, n)) = n
        /\ \A k \in 1..n : SubSeq(open', 1, n)[k] = open'[k]
    BY <1>5, Prefix
  <2>3. 1..n \subseteq 1..Len(open)
    BY <1>3
  <2> QED
    BY <1>4, <1>6, <2>1, <2>2, <2>3, SameRight
<1>7. RightInside(dests, open')
  BY <1>2, <1>4, <1>5, SameRight
<1>8. DestsInnermost'
  BY <1>7 DEF DestsInnermost, Else
<1>9. ASSUME NEW k \in 1..Len(open)
      PROVE  open'[k].node <= Len(source') /\ RightInside(open'[k].saved, SubSeq(open', 1, k - 1))
  <2>1. k - 1 \in 0..Len(open)
    BY <1>3
  <2>2. open[k].node <= Len(source) /\ RightInside(open[k].saved, SubSeq(open, 1, k - 1))
    BY <1>2, <1>3 DEF WellSaved
  <2> QED
    BY <1>4, <1>6, <2>1, <2>2 DEF Else
<1>10. WellSaved(open)'
  <2>1. open' # << >> /\ open'[1].kind = "block"
    BY <1>2, <1>3, <1>4, <1>5, EmptySeq
  <2> QED
    BY <1>5, <1>9, <2>1 DEF WellSaved
<1>11. code' \in Seq(Instruction)
  BY <1>2, <1>3, TailInstructions, ConcatProperties DEF Else
<1>12. TypeOK'
  BY <1>1, <1>5, <1>11 DEF IInv, TypeOK, Else
<1> QED
  BY <1>8, <1>10, <1>12 DEF IInv

LEMMA ExitFuncKeeps ==
  ASSUME IInv, ExitFunc
  PROVE  IInv'
<1>1. CASE \E jump \in unresolvedJumps : curLabels[jump[1]] = NoLabel
  BY <1>1, StopKeeps DEF ExitFunc, Error
<1>2. CASE ~\E jump \in unresolvedJumps : curLabels[jump[1]] = NoLabel
  <2>1. /\ source \in Seq(Statement) /\ code \in Seq(Instruction) /\ dests \in DestsType
        /\ curLabels \in [LabelNames -> Labels] /\ Len(code) \in Nat
        /\ DOMAIN code = 1..Len(code)
    BY LenProperties DEF IInv, TypeOK
  <2>2. ASSUME NEW i \in 1..Len(code)
        PROVE  code'[i] \in Instruction
    <3>1. CASE \E name \in LabelNames : <<name, i>> \in unresolvedJumps
      <4> DEFINE name == CHOOSE l \in LabelNames : <<l, i>> \in unresolvedJumps
      <4>1. name \in LabelNames
        BY <3>1
      <4>2. code'[i] = Jump(curLabels[name])
        BY <1>2, <2>1, <3>1 DEF ExitFunc
      <4> HIDE DEF name
      <4>3. curLabels[name] \in Labels
        BY <2>1, <4>1
      <4> QED
        BY <4>2, <4>3, InstructionTypes
    <3>2. CASE ~\E name \in LabelNames : <<name, i>> \in unresolvedJumps
      <4>1. code'[i] = code[i]
        BY <1>2, <2>1, <3>2 DEF ExitFunc
      <4> QED
        BY <2>1, <4>1, ElementOfSeq
    <3> QED
      BY <3>1, <3>2
  <2>3. code' \in Seq(Instruction)
    <3>1. DOMAIN code' = 1..Len(code) /\ code' = [i \in 1..Len(code) |-> code'[i]]
      BY <1>2, <2>1 DEF ExitFunc
    <3>2. code' \in [1..Len(code) -> Instruction]
      BY <2>2, <3>1
    <3> QED
      BY <2>1, <3>2, SeqDef
  <2>4. /\ open' \in Seq(OpenStatement) /\ unresolvedJumps' = {} /\ status' = "done"
        /\ curLabels' \in [LabelNames -> Labels]
    BY <1>2, EmptySeq, LabelTypes DEF ExitFunc
  <2>5. TypeOK'
    BY <1>2, <2>1, <2>3, <2>4 DEF ExitFunc, TypeOK
  <2> QED
    BY <2>4, <2>5 DEF IInv, DestsInnermost, Parsing
<1> QED
  BY <1>1, <1>2

-----------------------------------------------------------------------------
LEMMA InitTyped == Init => IInv
<1> SUFFICES ASSUME Init PROVE IInv
  OBVIOUS
<1>1. 0 \in Nodes /\ 1 \in Nodes /\ NoLabel \in Labels
  BY MaxStmtsAssumption, LabelTypes DEF Nodes
<1>2. NoDests \in DestsType
  BY <1>1, EmptySeq DEF NoDests, NoCases, DestsType
<1>3. /\ source \in Seq(Statement) /\ Len(source) = 1
      /\ code \in Seq(Instruction)
  <2>1. [kind |-> "block", parent |-> 0, branch |-> 1, arg |-> << >>] \in Statement
    BY <1>1 DEF Statement, Kinds, Args
  <2> QED
    BY <2>1, EmptySeq DEF Init
<1>4. open \in Seq(OpenStatement) /\ Len(open) = 1 /\ DOMAIN open = {1}
      /\ open[1] = [node |-> 1, kind |-> "block", branch |-> 1, saved |-> NoDests]
  <2>1. [node |-> 1, kind |-> "block", branch |-> 1, saved |-> NoDests] \in OpenStatement
    BY <1>1, <1>2 DEF OpenStatement, Kinds
  <2> QED
    BY <2>1 DEF Init
<1>5. TypeOK
  BY <1>1, <1>2, <1>3, <1>4 DEF Init, TypeOK
<1>6. RightInside(NoDests, open)
  <2>1. "block" \notin BreakTargets /\ "block" \notin Loops /\ "block" # "switch"
    BY DEF BreakTargets, Loops
  <2>2. NoDests.breakDest = NoLabel /\ NoDests.continueDest = NoLabel
        /\ NoDests.caseLabels.switch = 0
    BY DEF NoDests, NoCases
  <2> QED
    BY <1>4, <2>1, <2>2 DEF RightInside, Innermost
<1>7. RightInside(NoDests, SubSeq(open, 1, 0))
  <2>1. SubSeq(open, 1, 0) \in Seq(OpenStatement) /\ Len(SubSeq(open, 1, 0)) = 0
    BY <1>4, Prefix
  <2>2. DOMAIN SubSeq(open, 1, 0) = {}
    BY <2>1, LenProperties
  <2> QED
    BY <2>2 DEF RightInside, NoDests, NoCases
<1>8. WellSaved(open)
  <2>1. open # << >> /\ open[1].kind = "block"
    BY <1>4, EmptySeq
  <2>2. open[1].node <= Len(source) /\ open[1].saved = NoDests
    BY <1>3, <1>4
  <2>3. RightInside(open[1].saved, SubSeq(open, 1, 1 - 1))
    <3>1. 1 - 1 = 0
      OBVIOUS
    <3> QED
      BY <1>7, <2>2, <3>1
  <2>4. \A k \in DOMAIN open : k = 1
    BY <1>4
  <2> QED
    BY <2>1, <2>2, <2>3, <2>4 DEF WellSaved
<1> QED
  BY <1>5, <1>6, <1>8 DEF IInv, DestsInnermost, Init

LEMMA StutterKeeps ==
  ASSUME IInv, UNCHANGED vars
  PROVE  IInv'
BY DEF IInv, TypeOK, DestsInnermost, Parsing, WellSaved, vars

(* IInv, the run's invariant, holds for functions of any size with any     *)
(* labels and case ranges: what an open statement saved on entry           *)
(* (ENTER_LOOP_BODY, ENTER_SWITCH_BODY) is right for what is around it.    *)
THEOREM StmtInvariant == Spec => []IInv
<1>1. IInv /\ [Next]_vars => IInv'
  <2> SUFFICES ASSUME IInv, [Next]_vars PROVE IInv'
    OBVIOUS
  <2>1. CASE \/ ParseExprStmt \/ ParseReturnStmt \/ ParseBreakStmt \/ ParseContinueStmt
             \/ \E name \in LabelNames : ParseGotoStmt(name)
    BY <2>1, SimpleStatementsKeep
  <2>2. CASE \/ \E name \in LabelNames : ParseLabelStmt(name)
             \/ ParseCompoundStmt \/ ParseIfStmt \/ ParseWhileStmt \/ ParseDoStmt
             \/ \E kind \in {"for", "forever"} : ParseForStmt(kind)
             \/ ParseSwitchStmt
    BY <2>2, OpeningKeeps
  <2>3. CASE (\E range \in CaseRanges : ParseCaseStmt(range)) \/ ParseDefaultStmt
    BY <2>3, CaseKeeps, DefaultKeeps
  <2>4. CASE \/ EndLabelStmt \/ EndIfStmt \/ EndWhileStmt \/ EndDoStmt
             \/ \E kind \in {"for", "forever"} : EndForStmt(kind)
             \/ \E kind \in {"case", "default"} : EndCaseStmt(kind)
    BY <2>4, ClosingKeeps
  <2>5. CASE EndCompoundStmt \/ EndSwitchStmt \/ Else \/ ExitFunc
    BY <2>5, EndCompoundKeeps, EndSwitchKeeps, ElseKeeps, ExitFuncKeeps
  <2>6. CASE UNCHANGED vars
    BY <2>6, StutterKeeps
  <2> QED
    BY <2>1, <2>2, <2>3, <2>4, <2>5, <2>6 DEF Next
<1> QED
  BY InitTyped, <1>1, PTL DEF Spec

(* However statements nest and in whatever order they come, break and      *)
(* continue leave the innermost loop or switch and no other, and a case or *)
(* a default belongs to the innermost switch (ParseBreakStmt,              *)
(* ParseContinueStmt, ParseCaseStmt and ParseDefaultStmt read only the     *)
(* parser's members that this is about).                                   *)
THEOREM DestsInnermostAlways == Spec => []DestsInnermost
<1>1. IInv => DestsInnermost
  BY DEF IInv
<1> QED
  BY StmtInvariant, <1>1, PTL

-----------------------------------------------------------------------------
\* The labels that the instructions of c place, none of them twice.
PlacedIn(c) == {c[i].at : i \in {j \in DOMAIN c : c[j].op = "label"}}
OnceIn(c) ==
  \A i, j \in DOMAIN c :
    c[i].op = "label" /\ c[j].op = "label" /\ c[i].at = c[j].at => i = j

(* The labels that an open statement has placed, those that it must still  *)
(* place, and those that it may: an if places its endLabel for an else.    *)
BeganBy(f) ==
  CASE f.kind \in {"while", "for", "forever"} -> {<<f.node, "cond">>}
    [] f.kind = "do" -> {<<f.node, "begin">>}
    [] f.kind = "label" -> {<<f.node, "label">>}
    [] OTHER -> {}

LaterBy(f) ==
  CASE f.kind = "if" -> {<<f.node, "end">>} \cup (IF f.branch = 1 THEN {<<f.node, "else">>} ELSE {})
    [] f.kind = "while" -> {<<f.node, "end">>}
    [] f.kind = "do" -> {<<f.node, "cond">>, <<f.node, "end">>}
    [] f.kind \in {"for", "forever"} -> {<<f.node, "step">>, <<f.node, "end">>}
    [] f.kind = "switch" -> {<<f.node, "test">>, <<f.node, "end">>}
    [] OTHER -> {}

OwedBy(f) == IF f.kind = "if" /\ f.branch = 1 THEN {<<f.node, "else">>} ELSE LaterBy(f)

\* The labels that code may refer to: placed, or to be placed by the open statements.
Sure(c, stack) == PlacedIn(c) \cup UNION {OwedBy(stack[k]) : k \in DOMAIN stack}

\* What d refers to.
Known(d, labels) ==
  /\ d.breakDest \in labels \cup {NoLabel}
  /\ d.continueDest \in labels \cup {NoLabel}
  /\ d.defaultLabel \in labels \cup {NoLabel}
  /\ \A i \in DOMAIN d.caseLabels.list : d.caseLabels.list[i][2] \in labels

Transfers == {"jump", "test", "match"}

StackPlaced(c, stack) ==
  /\ \A k, j \in DOMAIN stack : stack[k].node = stack[j].node => k = j
  /\ \A k \in DOMAIN stack :
       /\ BeganBy(stack[k]) \subseteq PlacedIn(c)
       /\ LaterBy(stack[k]) \cap PlacedIn(c) = {}
       /\ Known(stack[k].saved, Sure(c, stack))

CodePlaced(c, n, unresolved, labels) ==
  /\ OnceIn(c)
  /\ \A l \in PlacedIn(c) : l[1] <= n
  /\ \A i \in DOMAIN c : c[i].op \in Transfers =>
       c[i].to \in labels \/ \E name \in LabelNames : <<name, i>> \in unresolved
  /\ \A jump \in unresolved : jump[2] \in DOMAIN c /\ c[jump[2]].op = "jump"

(* Inductive: whatever is referred to is placed or will be, and what is    *)
(* still to be placed is not yet.                                          *)
PlacedInv ==
  /\ Parsing =>
       /\ StackPlaced(code, open)
       /\ CodePlaced(code, Len(source), unresolvedJumps, Sure(code, open))
       /\ Known(dests, Sure(code, open))
       /\ \A name \in LabelNames : curLabels[name] \in PlacedIn(code) \cup {NoLabel}
  /\ status = "done" => CodePlaced(code, Len(source), {}, PlacedIn(code))

\* What the instructions of a statement place and where they go.
Emits(instrs, labels, targets) ==
  /\ instrs \in Seq(Instruction)
  /\ OnceIn(instrs)
  /\ PlacedIn(instrs) = labels
  /\ \A i \in DOMAIN instrs : instrs[i].op \in Transfers => instrs[i].to \in targets

LEMMA InPlaced ==
  \A c, l : l \in PlacedIn(c) <=> \E i \in DOMAIN c : c[i].op = "label" /\ c[i].at = l
BY DEF PlacedIn

LEMMA KnownGrows ==
  ASSUME NEW d, NEW few, NEW many, Known(d, few), few \subseteq many
  PROVE  Known(d, many)
BY DEF Known

(* What an open statement places is its own, and what it owes it places.   *)
LEMMA OfNode ==
  ASSUME NEW f
  PROVE  /\ \A l \in BeganBy(f) \cup LaterBy(f) : l[1] = f.node
         /\ OwedBy(f) \subseteq LaterBy(f)
<1>1. \A l \in BeganBy(f) : l[1] = f.node
  BY DEF BeganBy
<1>2. \A l \in LaterBy(f) : l[1] = f.node
  BY DEF LaterBy
<1>3. OwedBy(f) \subseteq LaterBy(f)
  BY DEF OwedBy, LaterBy
<1> QED
  BY <1>1, <1>2, <1>3

LEMMA Joined ==
  ASSUME NEW a \in Seq(Instruction), NEW b \in Seq(Instruction)
  PROVE  /\ a \o b \in Seq(Instruction)
         /\ DOMAIN a = 1..Len(a) /\ DOMAIN b = 1..Len(b) /\ Len(a) \in Nat /\ Len(b) \in Nat
         /\ DOMAIN (a \o b) = 1..(Len(a) + Len(b))
         /\ \A i \in 1..Len(a) : (a \o b)[i] = a[i]
         /\ \A i \in 1..Len(b) : (a \o b)[Len(a) + i] = b[i]
         /\ \A i \in DOMAIN (a \o b) :
              \/ i \in 1..Len(a)
              \/ i - Len(a) \in 1..Len(b) /\ i = Len(a) + (i - Len(a))
<1>1. /\ DOMAIN a = 1..Len(a) /\ DOMAIN b = 1..Len(b) /\ Len(a) \in Nat /\ Len(b) \in Nat
  BY LenProperties
<1>2. /\ a \o b \in Seq(Instruction) /\ Len(a \o b) = Len(a) + Len(b)
      /\ \A i \in 1..Len(a) + Len(b) : (a \o b)[i] = IF i <= Len(a) THEN a[i] ELSE b[i - Len(a)]
  BY ConcatProperties
<1>3. DOMAIN (a \o b) = 1..(Len(a) + Len(b))
  BY <1>2, LenProperties
<1>4. \A i \in 1..Len(a) : (a \o b)[i] = a[i]
  BY <1>1, <1>2
<1>5. ASSUME NEW i \in 1..Len(b)
      PROVE  (a \o b)[Len(a) + i] = b[i]
  <2>1. Len(a) + i \in 1..Len(a) + Len(b) /\ ~(Len(a) + i <= Len(a)) /\ (Len(a) + i) - Len(a) = i
    BY <1>1
  <2> QED
    BY <1>2, <2>1
<1>6. \A i \in 1..(Len(a) + Len(b)) :
        i \in 1..Len(a) \/ (i - Len(a) \in 1..Len(b) /\ i = Len(a) + (i - Len(a)))
  BY <1>1
<1> QED
  BY <1>1, <1>2, <1>3, <1>4, <1>5, <1>6

LEMMA PlacedJoined ==
  ASSUME NEW a \in Seq(Instruction), NEW b \in Seq(Instruction)
  PROVE  /\ PlacedIn(a \o b) = PlacedIn(a) \cup PlacedIn(b)
         /\ OnceIn(a) /\ OnceIn(b) /\ PlacedIn(a) \cap PlacedIn(b) = {} => OnceIn(a \o b)
<1> DEFINE c == a \o b
<1>1. /\ DOMAIN a = 1..Len(a) /\ DOMAIN b = 1..Len(b) /\ Len(a) \in Nat /\ Len(b) \in Nat
      /\ DOMAIN c = 1..(Len(a) + Len(b))
      /\ \A i \in 1..Len(a) : c[i] = a[i]
      /\ \A i \in 1..Len(b) : c[Len(a) + i] = b[i]
      /\ \A i \in DOMAIN c :
           i \in 1..Len(a) \/ (i - Len(a) \in 1..Len(b) /\ i = Len(a) + (i - Len(a)))
  BY Joined
<1> HIDE DEF c
<1>2. \A i \in 1..Len(a) : i \in DOMAIN c
  BY <1>1
<1>3. \A i \in 1..Len(b) : Len(a) + i \in DOMAIN c
  BY <1>1
<1>4. ASSUME NEW l \in PlacedIn(c)
      PROVE  l \in PlacedIn(a) \cup PlacedIn(b)
  <2>1. PICK i \in DOMAIN c : c[i].op = "label" /\ c[i].at = l
    BY <1>4, InPlaced
  <2>2. CASE i \in 1..Len(a)
    BY <1>1, <2>1, <2>2, InPlaced
  <2>3. CASE i - Len(a) \in 1..Len(b) /\ i = Len(a) + (i - Len(a))
    <3>1. PICK j \in 1..Len(b) : i = Len(a) + j
      BY <2>3
    <3> QED
      BY <1>1, <2>1, <3>1, InPlaced
  <2> QED
    BY <1>1, <2>2, <2>3
<1>5. ASSUME NEW l \in PlacedIn(a) \cup PlacedIn(b)
      PROVE  l \in PlacedIn(c)
  <2>1. CASE l \in PlacedIn(a)
    <3>1. PICK i \in 1..Len(a) : a[i].op = "label" /\ a[i].at = l
      BY <1>1, <2>1, InPlaced
    <3> QED
      BY <1>1, <1>2, <3>1, InPlaced
  <2>2. CASE l \in PlacedIn(b)
    <3>1. PICK i \in 1..Len(b) : b[i].op = "label" /\ b[i].at = l
      BY <1>1, <2>2, InPlaced
    <3> QED
      BY <1>1, <1>3, <3>1, InPlaced
  <2> QED
    BY <1>5, <2>1, <2>2
<1>6. ASSUME OnceIn(a), OnceIn(b), PlacedIn(a) \cap PlacedIn(b) = {},
             NEW i \in DOMAIN c, NEW j \in DOMAIN c,
             c[i].op = "label", c[j].op = "label", c[i].at = c[j].at
      PROVE  i = j
  <2>1. CASE i \in 1..Len(a) /\ j \in 1..Len(a)
    BY <1>1, <1>6, <2>1 DEF OnceIn
  <2>2. ASSUME NEW x \in 1..Len(b), i = Len(a) + x, NEW y \in 1..Len(b), j = Len(a) + y
        PROVE  i = j
    <3>1. c[i] = b[x] /\ c[j] = b[y] /\ x \in DOMAIN b /\ y \in DOMAIN b
      BY <1>1, <2>2
    <3>2. x = y
      BY <1>6, <3>1 DEF OnceIn
    <3> QED
      BY <2>2, <3>2
  <2>3. ASSUME NEW x \in 1..Len(a), NEW y \in 1..Len(b),
               a[x].op = "label", b[y].op = "label", a[x].at = b[y].at
        PROVE  FALSE
    <3>1. a[x].at \in PlacedIn(a) /\ a[x].at \in PlacedIn(b)
      BY <1>1, <2>3, InPlaced
    <3> QED
      BY <1>6, <3>1
  <2>4. ASSUME NEW k \in DOMAIN c, k \notin 1..Len(a)
        PROVE  \E x \in 1..Len(b) : k = Len(a) + x
    BY <1>1, <2>4
  <2> QED
    BY <1>1, <1>6, <2>1, <2>2, <2>3, <2>4
<1>7. PlacedIn(c) = PlacedIn(a) \cup PlacedIn(b)
  BY <1>4, <1>5
<1>8. OnceIn(a) /\ OnceIn(b) /\ PlacedIn(a) \cap PlacedIn(b) = {} => OnceIn(c)
  BY <1>6 DEF OnceIn
<1> QED
  BY <1>7, <1>8 DEF c

LEMMA EmitsJoined ==
  ASSUME NEW a, NEW b, NEW l, NEW m, NEW s, NEW t, Emits(a, l, s), Emits(b, m, t), l \cap m = {}
  PROVE  Emits(a \o b, l \cup m, s \cup t)
<1> DEFINE c == a \o b
<1>1. a \in Seq(Instruction) /\ b \in Seq(Instruction)
  BY DEF Emits
<1>2. c \in Seq(Instruction)
  BY <1>1, Joined
<1>3. PlacedIn(c) = l \cup m /\ OnceIn(c)
  BY <1>1, PlacedJoined DEF Emits
<1>4. /\ DOMAIN a = 1..Len(a) /\ DOMAIN b = 1..Len(b) /\ Len(a) \in Nat /\ Len(b) \in Nat
      /\ \A i \in 1..Len(a) : c[i] = a[i]
      /\ \A i \in 1..Len(b) : c[Len(a) + i] = b[i]
      /\ \A i \in DOMAIN c :
           i \in 1..Len(a) \/ (i - Len(a) \in 1..Len(b) /\ i = Len(a) + (i - Len(a)))
  BY <1>1, Joined
<1> HIDE DEF c
<1>5. ASSUME NEW i \in DOMAIN c, c[i].op \in Transfers
      PROVE  c[i].to \in s \cup t
  <2>1. CASE i \in 1..Len(a)
    BY <1>4, <1>5, <2>1 DEF Emits
  <2>2. ASSUME NEW j \in 1..Len(b), i = Len(a) + j
        PROVE  c[i].to \in s \cup t
    BY <1>4, <1>5, <2>2 DEF Emits
  <2> QED
    BY <1>4, <2>1, <2>2
<1>6. Emits(c, l \cup m, s \cup t)
  BY <1>2, <1>3, <1>5 DEF Emits
<1> QED
  BY <1>6 DEF c

(* Code that has been appended to: what was known still is, if the new     *)
(* labels are new ones and the new jumps go to what can be referred to.    *)
LEMMA EmittedPlaced ==
  ASSUME NEW c \in Seq(Instruction), NEW n, NEW u, NEW known, CodePlaced(c, n, u, known),
         NEW b, NEW labels, NEW targets, Emits(b, labels, targets),
         NEW m, n \in Int, m \in Int, n <= m, \A l \in labels : l \notin PlacedIn(c) /\ l[1] <= m,
         \A l \in PlacedIn(c) : l[1] \in Int,
         NEW more, known \subseteq more, targets \subseteq more
  PROVE  CodePlaced(c \o b, m, u, more)
<1> DEFINE e == c \o b
<1>1. b \in Seq(Instruction) /\ OnceIn(c) /\ OnceIn(b) /\ PlacedIn(b) = labels
  BY DEF Emits, CodePlaced
<1>2. PlacedIn(e) = PlacedIn(c) \cup labels /\ OnceIn(e)
  BY <1>1, PlacedJoined
<1>3. /\ DOMAIN c = 1..Len(c) /\ DOMAIN b = 1..Len(b) /\ Len(c) \in Nat /\ Len(b) \in Nat
      /\ DOMAIN e = 1..(Len(c) + Len(b))
      /\ \A i \in 1..Len(c) : e[i] = c[i]
      /\ \A i \in 1..Len(b) : e[Len(c) + i] = b[i]
      /\ \A i \in DOMAIN e :
           i \in 1..Len(c) \/ (i - Len(c) \in 1..Len(b) /\ i = Len(c) + (i - Len(c)))
  BY <1>1, Joined
<1> HIDE DEF e
<1>4. \A l \in PlacedIn(e) : l[1] <= m
  <2>1. \A l \in PlacedIn(c) : l[1] <= n
    BY DEF CodePlaced
  <2>2. \A l \in PlacedIn(c) : l[1] <= m
    BY <2>1
  <2> QED
    BY <1>2, <2>2
<1>5. ASSUME NEW i \in DOMAIN e, e[i].op \in Transfers
      PROVE  e[i].to \in more \/ \E name \in LabelNames : <<name, i>> \in u
  <2>1. CASE i \in 1..Len(c)
    BY <1>3, <1>5, <2>1 DEF CodePlaced
  <2>2. ASSUME NEW j \in 1..Len(b), i = Len(c) + j
        PROVE  e[i].to \in more
    BY <1>3, <1>5, <2>2 DEF Emits
  <2> QED
    BY <1>3, <2>1, <2>2
<1>6. ASSUME NEW jump \in u
      PROVE  jump[2] \in DOMAIN e /\ e[jump[2]].op = "jump"
  <2>1. jump[2] \in 1..Len(c) /\ c[jump[2]].op = "jump"
    BY <1>3 DEF CodePlaced
  <2>2. jump[2] \in 1..(Len(c) + Len(b))
    BY <1>3, <2>1
  <2> QED
    BY <1>3, <2>1, <2>2
<1>7. CodePlaced(e, m, u, more)
  BY <1>2, <1>4, <1>5, <1>6 DEF CodePlaced
<1> QED
  BY <1>7 DEF e

-----------------------------------------------------------------------------
(* What TypeOK says of the labels placed and of the nodes.                 *)
LEMMA PlacedTyped ==
  ASSUME IInv, Parsing
  PROVE  /\ code \in Seq(Instruction) /\ DOMAIN code = 1..Len(code) /\ Len(code) \in Nat
         /\ Len(source) \in Nat
         /\ \A l \in PlacedIn(code) : l[1] \in Nat
         /\ \A k \in DOMAIN open : open[k].node \in Nat /\ open[k].node <= Len(source)
         /\ open \in Seq(OpenStatement) /\ DOMAIN open = 1..Len(open) /\ Len(open) \in Nat \ {0}
<1>1. /\ code \in Seq(Instruction) /\ source \in Seq(Statement) /\ WellSaved(open)
      /\ open \in Seq(OpenStatement)
  BY DEF IInv, TypeOK
<1>2. DOMAIN code = 1..Len(code) /\ Len(code) \in Nat /\ Len(source) \in Nat
  BY <1>1, LenProperties
<1>3. ASSUME NEW l \in PlacedIn(code)
      PROVE  l[1] \in Nat
  <2>1. PICK i \in DOMAIN code : code[i].at = l
    BY <1>3, InPlaced
  <2>2. code[i] \in Instruction
    BY <1>1, <1>2, <2>1, ElementOfSeq
  <2>3. l \in Nodes \X Roles
    BY <2>1, <2>2 DEF Instruction
  <2> QED
    BY <2>3, MaxStmtsAssumption DEF Nodes
<1>4. \A k \in DOMAIN open : open[k].node \in Nat /\ open[k].node <= Len(source)
  BY <1>1, TopTyped, MaxStmtsAssumption DEF WellSaved, OpenStatement, Nodes
<1>5. DOMAIN open = 1..Len(open) /\ Len(open) \in Nat \ {0}
  BY TopTyped
<1> QED
  BY <1>1, <1>2, <1>3, <1>4, <1>5

(* A statement without substatements places nothing and goes where dests   *)
(* or a label says; a goto whose label is not known is entered as such.    *)
LEMMA SimplePlaced ==
  ASSUME IInv, PlacedInv, NEW kind, NEW arg, NEW instrs,
         Emits(instrs, {}, Sure(code, open)),
         Simple(kind, arg, instrs), UNCHANGED <<curLabels, unresolvedJumps>>
  PROVE  PlacedInv'
<1>1. /\ Parsing /\ code' = code \o instrs /\ UNCHANGED <<open, dests>>
      /\ status' \in {"stmt", "close"}
      /\ source' = Append(source, [kind |-> kind, parent |-> Top.node,
                                   branch |-> Top.branch, arg |-> arg])
  BY DEF Simple, Read, StatusIn, Parsing
<1>2. Len(source) \in Nat /\ Len(source') = Len(source) + 1
  BY <1>1, AppendProperties, PlacedTyped DEF IInv, TypeOK
<1>3. /\ StackPlaced(code, open) /\ Known(dests, Sure(code, open))
      /\ CodePlaced(code, Len(source), unresolvedJumps, Sure(code, open))
      /\ \A name \in LabelNames : curLabels[name] \in PlacedIn(code) \cup {NoLabel}
  BY <1>1 DEF PlacedInv
<1>4. PlacedIn(code') = PlacedIn(code)
  <2>1. code \in Seq(Instruction) /\ instrs \in Seq(Instruction) /\ PlacedIn(instrs) = {}
    BY <1>1, PlacedTyped DEF Emits
  <2>2. PlacedIn(code \o instrs) = PlacedIn(code) \cup PlacedIn(instrs)
    BY <2>1, PlacedJoined
  <2>3. PlacedIn(code \o instrs) = PlacedIn(code)
    BY <2>1, <2>2
  <2> QED
    BY <1>1, <2>3
<1>5. Sure(code', open') = Sure(code, open)
  BY <1>1, <1>4 DEF Sure
<1>6. CodePlaced(code', Len(source'), unresolvedJumps, Sure(code, open))
  <2> DEFINE n == Len(source)
             m == Len(source')
             known == Sure(code, open)
             none == {}
  <2>1. n \in Int /\ m \in Int /\ n <= m
    BY <1>2
  <2>2. code \in Seq(Instruction) /\ \A l \in PlacedIn(code) : l[1] \in Int
    BY <1>1, PlacedTyped
  <2>3. CodePlaced(code, n, unresolvedJumps, known) /\ Emits(instrs, none, known)
    BY <1>3
  <2>4. \A l \in none : l \notin PlacedIn(code) /\ l[1] <= m
    OBVIOUS
  <2>5. known \subseteq known
    OBVIOUS
  <2> HIDE DEF n, m, known, none
  <2>6. CodePlaced(code \o instrs, m, unresolvedJumps, known)
    BY <2>1, <2>2, <2>3, <2>4, <2>5, EmittedPlaced
  <2> QED
    BY <1>1, <2>6 DEF m, known
<1>7. StackPlaced(code', open')
  BY <1>1, <1>3, <1>4, <1>5 DEF StackPlaced
<1>8. status' # "done" /\ UNCHANGED <<open, dests, curLabels, unresolvedJumps>>
  BY <1>1
<1>9. /\ Known(dests', Sure(code', open'))
      /\ \A name \in LabelNames : curLabels'[name] \in PlacedIn(code') \cup {NoLabel}
      /\ CodePlaced(code', Len(source'), unresolvedJumps', Sure(code', open'))
  BY <1>3, <1>4, <1>5, <1>6, <1>8
<1> QED
  BY <1>7, <1>8, <1>9 DEF PlacedInv

(* Opening a statement: it is a new node, so nothing of it is placed.      *)
LEMMA BeginPlaced ==
  ASSUME IInv, PlacedInv, NEW kind \in Kinds, NEW arg \in Args, NEW instrs, NEW inside,
         NEW labels, labels \subseteq {Node} \X LabelRoles,
         BeganBy(Frame(Node, kind)) \subseteq labels,
         LaterBy(Frame(Node, kind)) \cap labels = {},
         Emits(instrs, labels, labels \cup OwedBy(Frame(Node, kind))),
         Known(inside, Sure(code, open) \cup labels \cup OwedBy(Frame(Node, kind))),
         Begin(kind, arg, instrs, inside), UNCHANGED <<curLabels, unresolvedJumps>>
  PROVE  PlacedInv'
<1> DEFINE f == Frame(Node, kind)
           known == Sure(code, open) \cup labels \cup OwedBy(f)
<1>1. /\ Read(kind, arg) /\ code' = code \o instrs /\ open' = Append(open, f)
      /\ dests' = inside /\ status' = "stmt"
  BY DEF Begin, Read
<1>2. /\ Parsing /\ Len(source) \in Nat /\ Len(source') = Len(source) + 1
  BY <1>1, ReadTyped
<1>3. /\ StackPlaced(code, open) /\ Known(dests, Sure(code, open))
      /\ CodePlaced(code, Len(source), unresolvedJumps, Sure(code, open))
      /\ \A name \in LabelNames : curLabels[name] \in PlacedIn(code) \cup {NoLabel}
  BY <1>2 DEF PlacedInv
<1>4. /\ code \in Seq(Instruction) /\ Len(open) \in Nat \ {0} /\ DOMAIN open = 1..Len(open)
      /\ \A l \in PlacedIn(code) : l[1] \in Nat /\ l[1] <= Len(source)
      /\ \A k \in DOMAIN open : open[k].node \in Nat /\ open[k].node <= Len(source)
      /\ open \in Seq(OpenStatement)
  BY <1>2, <1>3, PlacedTyped DEF CodePlaced
<1>5. f.node = Node /\ f.saved = dests /\ Node = Len(source) + 1
  BY DEF Frame, Node
<1> HIDE DEF f
<1>6. /\ DOMAIN open' = 1..(Len(open) + 1)
      /\ \A k \in 1..Len(open) : open'[k] = open[k]
      /\ open'[Len(open) + 1] = f
  BY <1>1, <1>4
<1>7. \A k \in DOMAIN open' : k \in DOMAIN open \/ k = Len(open) + 1
  BY <1>4, <1>6
<1>8. PlacedIn(code') = PlacedIn(code) \cup labels
  BY <1>1, <1>4, PlacedJoined DEF Emits
<1>9. Sure(code', open') = known
  <2>1. ASSUME NEW l \in Sure(code', open')
        PROVE  l \in known
    BY <1>4, <1>6, <1>7, <1>8, <2>1 DEF Sure
  <2>2. ASSUME NEW l \in known
        PROVE  l \in Sure(code', open')
    <3>1. CASE l \in PlacedIn(code) \cup labels
      BY <1>8, <3>1 DEF Sure
    <3>2. ASSUME NEW k \in DOMAIN open, l \in OwedBy(open[k])
          PROVE  l \in Sure(code', open')
      <4>1. k \in DOMAIN open' /\ open'[k] = open[k]
        BY <1>4, <1>6
      <4> QED
        BY <3>2, <4>1 DEF Sure
    <3>3. CASE l \in OwedBy(f)
      <4>1. Len(open) + 1 \in DOMAIN open'
        BY <1>4, <1>6
      <4> QED
        BY <1>6, <3>3, <4>1 DEF Sure
    <3> QED
      BY <2>2, <3>1, <3>2, <3>3 DEF Sure
  <2> QED
    BY <2>1, <2>2
<1>10. \A l \in labels : l \notin PlacedIn(code) /\ l[1] <= Len(source')
  BY <1>2, <1>4, <1>5
<1>11. Sure(code, open) \subseteq known /\ labels \cup OwedBy(f) \subseteq known
  OBVIOUS
<1>12. Emits(instrs, labels, labels \cup OwedBy(f))
  BY DEF f
<1> HIDE DEF known
<1>13. CodePlaced(code', Len(source'), unresolvedJumps, known)
  <2> DEFINE n == Len(source)
             m == Len(source')
             few == Sure(code, open)
  <2>1. n \in Int /\ m \in Int /\ n <= m
    BY <1>2
  <2>2. code \in Seq(Instruction) /\ \A l \in PlacedIn(code) : l[1] \in Int
    BY <1>4
  <2>3. CodePlaced(code, n, unresolvedJumps, few) /\ few \subseteq known
    BY <1>3, <1>11
  <2>4. \A l \in labels : l \notin PlacedIn(code) /\ l[1] <= m
    BY <1>10
  <2> HIDE DEF n, m, few
  <2>5. CodePlaced(code \o instrs, m, unresolvedJumps, known)
    BY <1>11, <1>12, <2>1, <2>2, <2>3, <2>4, EmittedPlaced
  <2> QED
    BY <1>1, <2>5 DEF m
<1>14. ASSUME NEW k \in DOMAIN open'
       PROVE  /\ BeganBy(open'[k]) \subseteq PlacedIn(code')
              /\ LaterBy(open'[k]) \cap PlacedIn(code') = {}
              /\ Known(open'[k].saved, known)
  <2>1. CASE k \in DOMAIN open
    <3>1. open'[k] = open[k] /\ open[k].node # Node
      BY <1>4, <1>5, <1>6, <2>1
    <3>2. /\ BeganBy(open[k]) \subseteq PlacedIn(code)
          /\ LaterBy(open[k]) \cap PlacedIn(code) = {}
          /\ Known(open[k].saved, Sure(code, open))
      BY <1>3, <2>1 DEF StackPlaced
    <3>3. LaterBy(open[k]) \cap labels = {}
      BY <3>1, OfNode
    <3>4. Known(open[k].saved, known)
      BY <1>11, <3>2, KnownGrows
    <3> QED
      BY <1>8, <3>1, <3>2, <3>3, <3>4
  <2>2. CASE k = Len(open) + 1
    <3>1. open'[k] = f
      BY <1>6, <2>2
    <3>2. BeganBy(f) \subseteq labels /\ LaterBy(f) \cap labels = {}
      BY DEF f
    <3>3. LaterBy(f) \cap PlacedIn(code) = {}
      BY <1>4, <1>5, OfNode
    <3>4. Known(f.saved, known)
      BY <1>3, <1>5, <1>11, KnownGrows
    <3> QED
      BY <1>8, <3>1, <3>2, <3>3, <3>4
  <2> QED
    BY <1>7, <2>1, <2>2
<1>15. \A k, j \in DOMAIN open' : open'[k].node = open'[j].node => k = j
  <2>1. \A k \in DOMAIN open : open'[k].node = open[k].node /\ open[k].node # Node
    BY <1>4, <1>5, <1>6
  <2>2. \A k, j \in DOMAIN open : open[k].node = open[j].node => k = j
    BY <1>3 DEF StackPlaced
  <2>3. open'[Len(open) + 1].node = Node
    BY <1>5, <1>6
  <2> QED
    BY <1>7, <2>1, <2>2, <2>3
<1>16. StackPlaced(code', open')
  BY <1>9, <1>14, <1>15 DEF StackPlaced
<1>17. Known(inside, known)
  BY DEF known, f
<1>18. /\ Known(dests', Sure(code', open'))
       /\ \A name \in LabelNames : curLabels'[name] \in PlacedIn(code') \cup {NoLabel}
       /\ CodePlaced(code', Len(source'), unresolvedJumps', Sure(code', open'))
  BY <1>1, <1>3, <1>8, <1>9, <1>13, <1>17
<1> QED
  BY <1>1, <1>16, <1>18 DEF PlacedInv

(* A goto to a label not known yet is entered with its place in the code.  *)
LEMMA GotoPlaced ==
  ASSUME IInv, PlacedInv, NEW name \in LabelNames, ParseGotoStmt(name),
         curLabels[name] = NoLabel
  PROVE  PlacedInv'
<1> DEFINE jump == Jump(NoLabel)
           c == code \o <<jump>>
           u == unresolvedJumps \cup {<<name, Len(code) + 1>>}
           known == Sure(code, open)
<1>1. /\ Parsing /\ UNCHANGED <<open, dests, curLabels>> /\ status' \in {"stmt", "close"}
      /\ source' = Append(source, [kind |-> "goto", parent |-> Top.node,
                                   branch |-> Top.branch, arg |-> name])
      /\ code' = c /\ unresolvedJumps' = u
  BY DEF ParseGotoStmt, Simple, Read, StatusIn, Parsing
<1>2. Len(source) \in Nat /\ Len(source') = Len(source) + 1
  BY <1>1, AppendProperties, PlacedTyped DEF IInv, TypeOK
<1>3. /\ StackPlaced(code, open) /\ Known(dests, known)
      /\ CodePlaced(code, Len(source), unresolvedJumps, known)
      /\ \A l \in LabelNames : curLabels[l] \in PlacedIn(code) \cup {NoLabel}
  BY <1>1 DEF PlacedInv
<1>4. /\ code \in Seq(Instruction) /\ \A l \in PlacedIn(code) : l[1] \in Nat
      /\ Len(code) \in Nat /\ DOMAIN code = 1..Len(code)
  BY <1>1, PlacedTyped
<1>5. jump \in Instruction /\ jump.op = "jump"
  BY LabelTypes, InstructionTypes DEF Jump, Instr
<1> HIDE DEF jump
<1>6. <<jump>> \in Seq(Instruction) /\ Len(<<jump>>) = 1 /\ <<jump>>[1] = jump
  BY <1>5
<1>7. /\ DOMAIN c = 1..(Len(code) + 1) /\ c[Len(code) + 1] = jump
      /\ \A i \in 1..Len(code) : c[i] = code[i]
  BY <1>4, <1>6, Joined
<1> HIDE DEF c
<1>8. \A i \in DOMAIN c : i \in 1..Len(code) \/ i = Len(code) + 1
  BY <1>4, <1>7
<1>9. \A i \in DOMAIN c : c[i].op = "label" => i \in 1..Len(code) /\ c[i] = code[i]
  BY <1>5, <1>7, <1>8
<1>10. \A i \in DOMAIN code : i \in DOMAIN c
  BY <1>4, <1>7
<1>11. PlacedIn(c) = PlacedIn(code)
  <2>1. ASSUME NEW l \in PlacedIn(c)
        PROVE  l \in PlacedIn(code)
    BY <1>4, <1>9, <2>1, InPlaced
  <2>2. ASSUME NEW l \in PlacedIn(code)
        PROVE  l \in PlacedIn(c)
    BY <1>4, <1>7, <1>10, <2>2, InPlaced
  <2> QED
    BY <2>1, <2>2
<1>12. Sure(c, open) = known
  BY <1>11 DEF Sure
<1> HIDE DEF known
<1>13. CodePlaced(c, Len(source'), u, known)
  <2>1. OnceIn(c)
    BY <1>3, <1>4, <1>9 DEF OnceIn, CodePlaced
  <2>2. \A l \in PlacedIn(c) : l[1] <= Len(source')
    BY <1>2, <1>3, <1>4, <1>11 DEF CodePlaced
  <2>3. ASSUME NEW i \in DOMAIN c, c[i].op \in Transfers
        PROVE  c[i].to \in known \/ \E l \in LabelNames : <<l, i>> \in u
    <3>1. CASE i \in 1..Len(code)
      BY <1>3, <1>4, <1>7, <2>3, <3>1 DEF CodePlaced
    <3>2. CASE i = Len(code) + 1
      BY <3>2
    <3> QED
      BY <1>8, <3>1, <3>2
  <2>4. ASSUME NEW j \in u
        PROVE  j[2] \in DOMAIN c /\ c[j[2]].op = "jump"
    <3>1. CASE j \in unresolvedJumps
      BY <1>3, <1>4, <1>7, <1>10, <3>1 DEF CodePlaced
    <3>2. CASE j = <<name, Len(code) + 1>>
      <4>1. j[2] = Len(code) + 1
        BY <3>2
      <4>2. Len(code) + 1 \in DOMAIN c
        BY <1>4, <1>7
      <4> QED
        BY <1>5, <1>7, <4>1, <4>2
    <3> QED
      BY <3>1, <3>2
  <2> QED
    BY <2>1, <2>2, <2>3, <2>4 DEF CodePlaced
<1>14. StackPlaced(c, open)
  BY <1>3, <1>11, <1>12 DEF StackPlaced, known
<1>15. /\ Known(dests', Sure(code', open'))
       /\ \A l \in LabelNames : curLabels'[l] \in PlacedIn(code') \cup {NoLabel}
       /\ CodePlaced(code', Len(source'), unresolvedJumps', Sure(code', open'))
       /\ StackPlaced(code', open')
  BY <1>1, <1>3, <1>11, <1>12, <1>13, <1>14
<1>16. status' # "done"
  BY <1>1
<1> QED
  BY <1>15, <1>16 DEF PlacedInv

(* The statements below the innermost one are not about its labels.        *)
LEMMA BelowPlaced ==
  ASSUME NEW c, NEW stack \in Seq(OpenStatement), StackPlaced(c, stack),
         NEW d, NEW labels, PlacedIn(d) = PlacedIn(c) \cup labels,
         \A l \in labels : l[1] = stack[Len(stack)].node,
         NEW known, Sure(c, stack) \subseteq known,
         NEW k \in 1..(Len(stack) - 1)
  PROVE  /\ stack[k].node # stack[Len(stack)].node
         /\ BeganBy(stack[k]) \subseteq PlacedIn(d)
         /\ LaterBy(stack[k]) \cap PlacedIn(d) = {}
         /\ Known(stack[k].saved, known)
<1>1. Len(stack) \in Nat /\ DOMAIN stack = 1..Len(stack)
  BY LenProperties
<1>2. k \in DOMAIN stack /\ Len(stack) \in DOMAIN stack /\ k # Len(stack)
  <2>1. \A n \in Nat : \A i \in 1..(n - 1) : i \in 1..n /\ n \in 1..n /\ i # n
    OBVIOUS
  <2> QED
    BY <1>1, <2>1
<1>3. /\ BeganBy(stack[k]) \subseteq PlacedIn(c)
      /\ LaterBy(stack[k]) \cap PlacedIn(c) = {}
      /\ Known(stack[k].saved, Sure(c, stack))
      /\ stack[k].node # stack[Len(stack)].node
  BY <1>2 DEF StackPlaced
<1>4. LaterBy(stack[k]) \cap labels = {}
  BY <1>3, OfNode
<1>5. Known(stack[k].saved, known)
  BY <1>3, KnownGrows
<1> QED
  BY <1>3, <1>4, <1>5

(* Closing a statement: it places what it owes, and no label twice.        *)
LEMMA ClosePlaced ==
  ASSUME IInv, PlacedInv, Parsing, NEW instrs, NEW labels, NEW targets,
         OwedBy(Top) \subseteq labels, labels \subseteq LaterBy(Top),
         Emits(instrs, labels, targets), targets \subseteq Sure(code, open),
         code' = code \o instrs, open' = Below, Known(dests', Sure(code, open)),
         UNCHANGED <<source, unresolvedJumps>>,
         \A name \in LabelNames : curLabels'[name] \in PlacedIn(code) \cup {NoLabel},
         status' \in {"stmt", "close", "noelse"}
  PROVE  PlacedInv'
<1> DEFINE n == Len(source)
           last == Len(open)
           known == Sure(code', open')
<1>1. /\ StackPlaced(code, open)
      /\ CodePlaced(code, n, unresolvedJumps, Sure(code, open))
  BY DEF PlacedInv
<1>2. /\ code \in Seq(Instruction) /\ last \in Nat \ {0} /\ DOMAIN open = 1..last
      /\ \A l \in PlacedIn(code) : l[1] \in Nat
      /\ \A k \in DOMAIN open : open[k].node \in Nat /\ open[k].node <= n
      /\ open \in Seq(OpenStatement) /\ n \in Nat
  BY PlacedTyped
<1>3. last - 1 \in 0..last /\ last \in DOMAIN open
  BY <1>2
<1>4. /\ open' \in Seq(OpenStatement) /\ Len(open') = last - 1
      /\ \A k \in 1..(last - 1) : open'[k] = open[k]
  BY <1>2, <1>3, Prefix DEF Below
<1>5. DOMAIN open' = 1..(last - 1) /\ \A k \in DOMAIN open : k \in 1..(last - 1) \/ k = last
  BY <1>2, <1>4, LenProperties
<1>6. PlacedIn(code') = PlacedIn(code) \cup labels
  <2>1. instrs \in Seq(Instruction) /\ PlacedIn(instrs) = labels
    BY DEF Emits
  <2>2. PlacedIn(code \o instrs) = PlacedIn(code) \cup PlacedIn(instrs)
    BY <1>2, <2>1, PlacedJoined
  <2> QED
    BY <2>1, <2>2
<1>7. \A l \in labels : l[1] = open[last].node /\ l \notin PlacedIn(code)
  <2>1. LaterBy(open[last]) \cap PlacedIn(code) = {}
    BY <1>1, <1>3 DEF StackPlaced
  <2> QED
    BY <2>1, OfNode DEF Top
<1>8. Sure(code, open) \subseteq known
  <2>1. ASSUME NEW l \in PlacedIn(code) \cup labels
        PROVE  l \in known
    BY <1>6 DEF Sure
  <2>2. ASSUME NEW k \in DOMAIN open, NEW l \in OwedBy(open[k])
        PROVE  l \in known
    <3>1. CASE k = last
      BY <2>1, <3>1 DEF Top
    <3>2. CASE k \in 1..(last - 1)
      BY <1>4, <1>5, <3>2 DEF Sure
    <3> QED
      BY <1>5, <3>1, <3>2
  <2> QED
    BY <2>1, <2>2 DEF Sure
<1> HIDE DEF known
<1>9. CodePlaced(code', n, unresolvedJumps, known)
  <2>1. n \in Int /\ n <= n
    BY <1>2
  <2>2. \A l \in PlacedIn(code) : l[1] \in Int
    BY <1>2
  <2>3. \A l \in labels : l \notin PlacedIn(code) /\ l[1] <= n
    BY <1>2, <1>3, <1>7
  <2>4. targets \subseteq known
    BY <1>8
  <2> HIDE DEF n
  <2>5. CodePlaced(code \o instrs, n, unresolvedJumps, known)
    BY <1>1, <1>2, <1>8, <2>1, <2>2, <2>3, <2>4, EmittedPlaced
  <2> QED
    BY <2>5
<1>10. ASSUME NEW k \in DOMAIN open'
       PROVE  /\ BeganBy(open'[k]) \subseteq PlacedIn(code')
              /\ LaterBy(open'[k]) \cap PlacedIn(code') = {}
              /\ Known(open'[k].saved, known)
  <2>1. k \in 1..(Len(open) - 1) /\ open'[k] = open[k]
    BY <1>4, <1>5
  <2>2. /\ BeganBy(open[k]) \subseteq PlacedIn(code')
        /\ LaterBy(open[k]) \cap PlacedIn(code') = {}
        /\ Known(open[k].saved, known)
    <3>1. \A l \in labels : l[1] = open[Len(open)].node
      BY <1>7
    <3> QED
      BY <1>1, <1>2, <1>6, <1>8, <2>1, <3>1, BelowPlaced
  <2> QED
    BY <2>1, <2>2
<1>11. \A k, j \in DOMAIN open' : open'[k].node = open'[j].node => k = j
  <2>1. \A k, j \in DOMAIN open : open[k].node = open[j].node => k = j
    BY <1>1 DEF StackPlaced
  <2>2. \A k \in DOMAIN open' : k \in DOMAIN open /\ open'[k] = open[k]
    BY <1>2, <1>4, <1>5
  <2> QED
    BY <2>1, <2>2
<1>12. StackPlaced(code', open')
  BY <1>10, <1>11 DEF StackPlaced, known
<1>13. /\ Known(dests', known)
       /\ \A name \in LabelNames : curLabels'[name] \in PlacedIn(code') \cup {NoLabel}
  BY <1>6, <1>8, KnownGrows
<1>14. Len(source') = n /\ unresolvedJumps' = unresolvedJumps /\ status' # "done"
  OBVIOUS
<1> HIDE DEF n
<1> QED
  BY <1>9, <1>12, <1>13, <1>14 DEF PlacedInv, known

-----------------------------------------------------------------------------
(* What the instructions of each statement place and where they go.        *)
LEMMA EmitsOne ==
  ASSUME NEW n \in Nodes, NEW l \in Labels
  PROVE  /\ Emits(<< >>, {}, {})
         /\ Emits(<<Label(l)>>, {l}, {})
         /\ Emits(<<Jump(l)>>, {}, {l})
         /\ Emits(<<Test(n, l)>>, {}, {l})
         /\ \A role \in Roles : Emits(<<Eval(role, n)>>, {}, {})
<1>1. ASSUME NEW i \in Instruction
      PROVE  /\ <<i>> \in Seq(Instruction) /\ DOMAIN <<i>> = {1} /\ <<i>>[1] = i
             /\ OnceIn(<<i>>)
             /\ i.op = "label" => PlacedIn(<<i>>) = {i.at}
             /\ i.op # "label" => PlacedIn(<<i>>) = {}
             /\ i.op \in Transfers => Emits(<<i>>, {}, {i.to})
             /\ i.op = "label" => Emits(<<i>>, {i.at}, {})
             /\ i.op = "eval" => Emits(<<i>>, {}, {})
  <2> DEFINE c == <<i>>
  <2>1. c \in Seq(Instruction) /\ DOMAIN c = {1} /\ c[1] = i
    OBVIOUS
  <2> HIDE DEF c
  <2>2. OnceIn(c)
    BY <2>1 DEF OnceIn
  <2>3. i.op = "label" => PlacedIn(c) = {i.at}
    BY <2>1 DEF PlacedIn
  <2>4. i.op # "label" => PlacedIn(c) = {}
    BY <2>1 DEF PlacedIn
  <2>5. /\ i.op \in Transfers => Emits(c, {}, {i.to})
        /\ i.op = "label" => Emits(c, {i.at}, {})
        /\ i.op = "eval" => Emits(c, {}, {})
    BY <2>1, <2>2, <2>3, <2>4 DEF Emits, Transfers
  <2> QED
    BY <2>1, <2>2, <2>3, <2>4, <2>5 DEF c
<1>2. Emits(<< >>, {}, {})
  <2> DEFINE c == << >>
  <2>1. c \in Seq(Instruction) /\ DOMAIN c = {}
    OBVIOUS
  <2> HIDE DEF c
  <2>2. Emits(c, {}, {})
    BY <2>1 DEF Emits, OnceIn, PlacedIn
  <2> QED
    BY <2>2 DEF c
<1>3. /\ Label(l) \in Instruction /\ Jump(l) \in Instruction /\ Test(n, l) \in Instruction
      /\ \A role \in Roles : Eval(role, n) \in Instruction
  BY InstructionTypes
<1>4. /\ Label(l).op = "label" /\ Label(l).at = l
      /\ Jump(l).op = "jump" /\ Jump(l).to = l
      /\ Test(n, l).op = "test" /\ Test(n, l).to = l
      /\ \A role \in Roles : Eval(role, n).op = "eval"
  BY DEF Label, Jump, Test, Eval, Instr
<1>5. Emits(<<Label(l)>>, {l}, {})
  BY <1>1, <1>3, <1>4
<1>6. Emits(<<Jump(l)>>, {}, {l}) /\ Emits(<<Test(n, l)>>, {}, {l})
  BY <1>1, <1>3, <1>4 DEF Transfers
<1>7. \A role \in Roles : Emits(<<Eval(role, n)>>, {}, {})
  BY <1>1, <1>3, <1>4
<1> QED
  BY <1>2, <1>5, <1>6, <1>7

LEMMA SequencesOf ==
  /\ \A i : <<i>> \in Seq(Instruction) => i \in Instruction
  /\ \A i, j : <<i, j>> \in Seq(Instruction) => i \in Instruction /\ j \in Instruction
  /\ \A i, j \in Instruction : <<i>> \o <<j>> = <<i, j>>
  /\ \A i, j, k, l \in Instruction : <<i, j>> \o <<k, l>> = <<i, j, k, l>>
<1>1. ASSUME NEW i, <<i>> \in Seq(Instruction)
      PROVE  i \in Instruction
  <2>1. <<i>>[1] \in Instruction
    BY <1>1, ElementOfSeq
  <2> QED
    BY <2>1
<1>2. ASSUME NEW i, NEW j, <<i, j>> \in Seq(Instruction)
      PROVE  i \in Instruction /\ j \in Instruction
  <2>1. <<i, j>>[1] \in Instruction /\ <<i, j>>[2] \in Instruction
    BY <1>2, ElementOfSeq
  <2> QED
    BY <2>1
<1>3. ASSUME NEW i \in Instruction, NEW j \in Instruction
      PROVE  <<i>> \o <<j>> = <<i, j>>
  <2> DEFINE c == <<i>> \o <<j>>
  <2>1. c \in Seq(Instruction) /\ Len(c) = 2 /\ c[1] = i /\ c[2] = j
    OBVIOUS
  <2>2. <<i, j>> \in Seq(Instruction)
    OBVIOUS
  <2> HIDE DEF c
  <2>3. \A x \in 1..Len(c) : c[x] = <<i, j>>[x]
    BY <2>1
  <2>4. c = <<i, j>>
    BY <2>1, <2>2, <2>3, SeqEqual
  <2> QED
    BY <2>4 DEF c
<1>4. ASSUME NEW i \in Instruction, NEW j \in Instruction,
             NEW k \in Instruction, NEW l \in Instruction
      PROVE  <<i, j>> \o <<k, l>> = <<i, j, k, l>>
  <2> DEFINE c == <<i, j>> \o <<k, l>>
  <2>1. c \in Seq(Instruction) /\ Len(c) = 4 /\ c[1] = i /\ c[2] = j /\ c[3] = k /\ c[4] = l
    OBVIOUS
  <2>2. <<i, j, k, l>> \in Seq(Instruction)
    OBVIOUS
  <2> HIDE DEF c
  <2>3. \A x \in 1..Len(c) : c[x] = <<i, j, k, l>>[x]
    BY <2>1
  <2>4. c = <<i, j, k, l>>
    BY <2>1, <2>2, <2>3, SeqEqual
  <2> QED
    BY <2>4 DEF c
<1> QED
  BY <1>1, <1>2, <1>3, <1>4

LEMMA EmitsTwo ==
  ASSUME NEW i, NEW j, NEW l, NEW m, NEW s, NEW t,
         Emits(<<i>>, l, s), Emits(<<j>>, m, t), l \cap m = {}
  PROVE  Emits(<<i, j>>, l \cup m, s \cup t)
<1>1. <<i>> \in Seq(Instruction) /\ <<j>> \in Seq(Instruction)
  BY DEF Emits
<1>2. i \in Instruction /\ j \in Instruction
  BY <1>1, SequencesOf
<1>3. <<i>> \o <<j>> = <<i, j>>
  BY <1>2, SequencesOf
<1>4. Emits(<<i>> \o <<j>>, l \cup m, s \cup t)
  BY EmitsJoined
<1> QED
  BY <1>3, <1>4

LEMMA Heads ==
  ASSUME NEW n \in Nodes
  PROVE  /\ Emits(<<Label(<<n, "label">>)>>, {<<n, "label">>}, {})
         /\ Emits(<<Test(n, <<n, "else">>)>>, {}, {<<n, "else">>})
         /\ Emits(<<Label(<<n, "cond">>), Test(n, <<n, "end">>)>>, {<<n, "cond">>}, {<<n, "end">>})
         /\ Emits(<<Label(<<n, "begin">>)>>, {<<n, "begin">>}, {})
         /\ Emits(<<Eval("switch", n), Jump(<<n, "test">>)>>, {}, {<<n, "test">>})
         /\ Emits(<<Eval("init", n), Label(<<n, "cond">>)>> \o <<Test(n, <<n, "end">>)>>,
                  {<<n, "cond">>}, {<<n, "end">>})
         /\ Emits(<<Eval("init", n), Label(<<n, "cond">>)>> \o << >>, {<<n, "cond">>}, {})
<1> DEFINE label == <<n, "label">>
           cond == <<n, "cond">>
           begin == <<n, "begin">>
           else == <<n, "else">>
           end == <<n, "end">>
           test == <<n, "test">>
<1>1. /\ label \in Labels /\ cond \in Labels /\ begin \in Labels
      /\ else \in Labels /\ end \in Labels /\ test \in Labels
  BY LabelTypes DEF LabelRoles
<1>2. "switch" \in Roles /\ "init" \in Roles
  BY DEF Roles
<1> HIDE DEF label, cond, begin, else, end, test
<1>3. /\ Emits(<<Label(label)>>, {label}, {}) /\ Emits(<<Test(n, else)>>, {}, {else})
      /\ Emits(<<Label(cond)>>, {cond}, {}) /\ Emits(<<Test(n, end)>>, {}, {end})
      /\ Emits(<<Label(begin)>>, {begin}, {}) /\ Emits(<<Jump(test)>>, {}, {test})
      /\ Emits(<<Eval("switch", n)>>, {}, {}) /\ Emits(<<Eval("init", n)>>, {}, {})
      /\ Emits(<< >>, {}, {})
  BY <1>1, <1>2, EmitsOne
<1>4. Emits(<<Label(cond), Test(n, end)>>, {cond}, {end})
  <2>1. Emits(<<Label(cond), Test(n, end)>>, {cond} \cup {}, {} \cup {end})
    BY <1>3, EmitsTwo
  <2> QED
    BY <2>1
<1>5. Emits(<<Eval("switch", n), Jump(test)>>, {}, {test})
  <2>1. Emits(<<Eval("switch", n), Jump(test)>>, {} \cup {}, {} \cup {test})
    BY <1>3, EmitsTwo
  <2> QED
    BY <2>1
<1>6. Emits(<<Eval("init", n), Label(cond)>>, {cond}, {})
  <2>1. Emits(<<Eval("init", n), Label(cond)>>, {} \cup {cond}, {} \cup {})
    BY <1>3, EmitsTwo
  <2> QED
    BY <2>1
<1>7. Emits(<<Eval("init", n), Label(cond)>> \o <<Test(n, end)>>, {cond}, {end})
  <2>1. Emits(<<Eval("init", n), Label(cond)>> \o <<Test(n, end)>>, {cond} \cup {}, {} \cup {end})
    BY <1>3, <1>6, EmitsJoined
  <2> QED
    BY <2>1
<1>8. Emits(<<Eval("init", n), Label(cond)>> \o << >>, {cond}, {})
  <2>1. Emits(<<Eval("init", n), Label(cond)>> \o << >>, {cond} \cup {}, {} \cup {})
    BY <1>3, <1>6, EmitsJoined
  <2> QED
    BY <2>1
<1> QED
  BY <1>3, <1>4, <1>5, <1>7, <1>8 DEF label, cond, begin, else, end, test

LEMMA Tails ==
  ASSUME NEW n \in Nodes
  PROVE  /\ Emits(<<Label(<<n, "else">>)>>, {<<n, "else">>}, {})
         /\ Emits(<<Label(<<n, "end">>)>>, {<<n, "end">>}, {})
         /\ Emits(<<Jump(<<n, "end">>), Label(<<n, "else">>)>>, {<<n, "else">>}, {<<n, "end">>})
         /\ Emits(<<Jump(<<n, "end">>), Label(<<n, "test">>)>>, {<<n, "test">>}, {<<n, "end">>})
         /\ Emits(<<Jump(<<n, "cond">>), Label(<<n, "end">>)>>, {<<n, "end">>}, {<<n, "cond">>})
         /\ Emits(<<Label(<<n, "cond">>), Test(n, <<n, "end">>),
                    Jump(<<n, "begin">>), Label(<<n, "end">>)>>,
                  {<<n, "cond">>, <<n, "end">>}, {<<n, "end">>, <<n, "begin">>})
         /\ Emits(<<Label(<<n, "step">>), Eval("step", n),
                    Jump(<<n, "cond">>), Label(<<n, "end">>)>>,
                  {<<n, "step">>, <<n, "end">>}, {<<n, "cond">>})
<1> DEFINE cond == <<n, "cond">>
           begin == <<n, "begin">>
           else == <<n, "else">>
           end == <<n, "end">>
           test == <<n, "test">>
           step == <<n, "step">>
<1>1. /\ cond \in Labels /\ begin \in Labels /\ step \in Labels
      /\ else \in Labels /\ end \in Labels /\ test \in Labels
      /\ cond # end /\ step # end
  BY LabelTypes DEF LabelRoles
<1>2. "step" \in Roles
  BY DEF Roles, LabelRoles
<1> HIDE DEF cond, begin, else, end, test, step
<1>3. /\ Emits(<<Label(else)>>, {else}, {}) /\ Emits(<<Label(end)>>, {end}, {})
      /\ Emits(<<Label(test)>>, {test}, {}) /\ Emits(<<Label(cond)>>, {cond}, {})
      /\ Emits(<<Label(step)>>, {step}, {})
      /\ Emits(<<Jump(end)>>, {}, {end}) /\ Emits(<<Jump(cond)>>, {}, {cond})
      /\ Emits(<<Jump(begin)>>, {}, {begin}) /\ Emits(<<Test(n, end)>>, {}, {end})
      /\ Emits(<<Eval("step", n)>>, {}, {})
  BY <1>1, <1>2, EmitsOne
<1>4. Emits(<<Jump(end), Label(else)>>, {else}, {end})
  <2>1. Emits(<<Jump(end), Label(else)>>, {} \cup {else}, {end} \cup {})
    BY <1>3, EmitsTwo
  <2> QED
    BY <2>1
<1>5. Emits(<<Jump(end), Label(test)>>, {test}, {end})
  <2>1. Emits(<<Jump(end), Label(test)>>, {} \cup {test}, {end} \cup {})
    BY <1>3, EmitsTwo
  <2> QED
    BY <2>1
<1>6. Emits(<<Jump(cond), Label(end)>>, {end}, {cond})
  <2>1. Emits(<<Jump(cond), Label(end)>>, {} \cup {end}, {cond} \cup {})
    BY <1>3, EmitsTwo
  <2> QED
    BY <2>1
<1>7. Emits(<<Label(cond), Test(n, end), Jump(begin), Label(end)>>, {cond, end}, {end, begin})
  <2>1. Emits(<<Label(cond), Test(n, end)>>, {cond} \cup {}, {} \cup {end})
    BY <1>3, EmitsTwo
  <2>2. Emits(<<Jump(begin), Label(end)>>, {} \cup {end}, {begin} \cup {})
    BY <1>3, EmitsTwo
  <2>3. ({cond} \cup {}) \cap ({} \cup {end}) = {}
    BY <1>1
  <2>4. Emits(<<Label(cond), Test(n, end)>> \o <<Jump(begin), Label(end)>>,
              ({cond} \cup {}) \cup ({} \cup {end}), ({} \cup {end}) \cup ({begin} \cup {}))
    BY <2>1, <2>2, <2>3, EmitsJoined
  <2>5. <<Label(cond), Test(n, end)>> \o <<Jump(begin), Label(end)>>
          = <<Label(cond), Test(n, end), Jump(begin), Label(end)>>
    BY <1>1, InstructionTypes, SequencesOf
  <2>6. ({cond} \cup {}) \cup ({} \cup {end}) = {cond, end}
        /\ ({} \cup {end}) \cup ({begin} \cup {}) = {end, begin}
    OBVIOUS
  <2> QED
    BY <2>4, <2>5, <2>6
<1>8. Emits(<<Label(step), Eval("step", n), Jump(cond), Label(end)>>, {step, end}, {cond})
  <2>1. Emits(<<Label(step), Eval("step", n)>>, {step} \cup {}, {} \cup {})
    BY <1>3, EmitsTwo
  <2>2. ({step} \cup {}) \cap {end} = {}
    BY <1>1
  <2>3. Emits(<<Label(step), Eval("step", n)>> \o <<Jump(cond), Label(end)>>,
              ({step} \cup {}) \cup {end}, ({} \cup {}) \cup {cond})
    BY <1>6, <2>1, <2>2, EmitsJoined
  <2>4. <<Label(step), Eval("step", n)>> \o <<Jump(cond), Label(end)>>
          = <<Label(step), Eval("step", n), Jump(cond), Label(end)>>
    BY <1>1, <1>2, InstructionTypes, SequencesOf
  <2>5. ({step} \cup {}) \cup {end} = {step, end} /\ ({} \cup {}) \cup {cond} = {cond}
    OBVIOUS
  <2> QED
    BY <2>3, <2>4, <2>5
<1> QED
  BY <1>3, <1>4, <1>5, <1>6, <1>7, <1>8 DEF cond, begin, else, end, test, step

(* An else is the same but for the statement, which goes on with its       *)
(* second branch and now owes its endLabel.                                *)
LEMMA ElsePlaced ==
  ASSUME IInv, PlacedInv, Else
  PROVE  PlacedInv'
<1> DEFINE n == Top.node
           m == Len(source)
           last == Len(open)
           known == Sure(code', open')
           instrs == <<Jump(<<n, "end">>), Label(<<n, "else">>)>>
           labels == {<<n, "else">>}
           targets == {<<n, "end">>}
<1>1. /\ Parsing /\ Top.kind = "if" /\ Top.branch = 1 /\ status' = "stmt"
      /\ open' = [open EXCEPT ![last].branch = 2] /\ code' = code \o instrs
      /\ UNCHANGED <<source, dests, curLabels, unresolvedJumps>>
  BY DEF Else, Parsing
<1>2. /\ StackPlaced(code, open) /\ Known(dests, Sure(code, open))
      /\ CodePlaced(code, m, unresolvedJumps, Sure(code, open))
      /\ \A name \in LabelNames : curLabels[name] \in PlacedIn(code) \cup {NoLabel}
  BY <1>1 DEF PlacedInv
<1>3. /\ code \in Seq(Instruction) /\ last \in Nat \ {0} /\ DOMAIN open = 1..last
      /\ \A l \in PlacedIn(code) : l[1] \in Nat
      /\ \A k \in DOMAIN open : open[k].node \in Nat /\ open[k].node <= m
      /\ open \in Seq(OpenStatement) /\ m \in Nat
  BY <1>1, PlacedTyped
<1>4. /\ Top \in OpenStatement /\ n \in Nodes /\ last \in DOMAIN open /\ n <= m
  BY <1>1, <1>3, TopTyped DEF OpenStatement, Top
<1>5. Emits(instrs, labels, targets)
  BY <1>4, Tails
<1>6. /\ DOMAIN open' = 1..last
      /\ \A k \in 1..(last - 1) : open'[k] = open[k]
      /\ open'[last].node = n /\ open'[last].kind = "if" /\ open'[last].branch = 2
      /\ open'[last].saved = Top.saved
  BY <1>1, <1>3, <1>4 DEF OpenStatement, Top
<1>7. \A k \in DOMAIN open : k \in 1..(last - 1) \/ k = last
  BY <1>3
<1>8. /\ BeganBy(open'[last]) = {} /\ LaterBy(open'[last]) = {<<n, "end">>}
      /\ OwedBy(open'[last]) = {<<n, "end">>}
      /\ OwedBy(Top) = labels /\ labels \subseteq LaterBy(Top) /\ <<n, "end">> \in LaterBy(Top)
  BY <1>1, <1>6 DEF BeganBy, LaterBy, OwedBy
<1> HIDE DEF instrs
<1>9. PlacedIn(code') = PlacedIn(code) \cup labels
  <2>1. instrs \in Seq(Instruction) /\ PlacedIn(instrs) = labels
    BY <1>5 DEF Emits
  <2>2. PlacedIn(code \o instrs) = PlacedIn(code) \cup PlacedIn(instrs)
    BY <1>3, <2>1, PlacedJoined
  <2> QED
    BY <1>1, <2>1, <2>2
<1>10. LaterBy(Top) \cap PlacedIn(code) = {}
  BY <1>2, <1>4 DEF StackPlaced, Top
<1>11. Sure(code, open) \subseteq known /\ targets \subseteq known
  <2>1. ASSUME NEW l \in PlacedIn(code) \cup labels
        PROVE  l \in known
    BY <1>9 DEF Sure
  <2>2. ASSUME NEW k \in DOMAIN open, NEW l \in OwedBy(open[k])
        PROVE  l \in known
    <3>1. CASE k = last
      BY <1>8, <2>1, <3>1 DEF Top
    <3>2. CASE k \in 1..(last - 1)
      BY <1>3, <1>6, <3>2 DEF Sure
    <3> QED
      BY <1>7, <3>1, <3>2
  <2>3. last \in DOMAIN open'
    BY <1>3, <1>6
  <2>4. targets \subseteq known
    BY <1>8, <2>3 DEF Sure
  <2> QED
    BY <2>1, <2>2, <2>4 DEF Sure
<1> HIDE DEF known
<1>12. CodePlaced(code', m, unresolvedJumps, known)
  <2>1. m \in Int /\ m <= m
    BY <1>3
  <2>2. \A l \in PlacedIn(code) : l[1] \in Int
    BY <1>3
  <2>3. \A l \in labels : l \notin PlacedIn(code) /\ l[1] <= m
    BY <1>4, <1>8, <1>10
  <2> HIDE DEF m, labels, targets
  <2>4. CodePlaced(code \o instrs, m, unresolvedJumps, known)
    BY <1>2, <1>3, <1>5, <1>11, <2>1, <2>2, <2>3, EmittedPlaced
  <2> QED
    BY <1>1, <2>4
<1>13. ASSUME NEW k \in DOMAIN open'
       PROVE  /\ BeganBy(open'[k]) \subseteq PlacedIn(code')
              /\ LaterBy(open'[k]) \cap PlacedIn(code') = {}
              /\ Known(open'[k].saved, known)
  <2>1. CASE k \in 1..(last - 1)
    <3>1. \A l \in labels : l[1] = open[Len(open)].node
      BY DEF Top
    <3> HIDE DEF labels
    <3>2. k \in 1..(Len(open) - 1)
      BY <2>1
    <3>3. /\ BeganBy(open[k]) \subseteq PlacedIn(code')
          /\ LaterBy(open[k]) \cap PlacedIn(code') = {}
          /\ Known(open[k].saved, known)
      BY <1>2, <1>3, <1>9, <1>11, <3>1, <3>2, BelowPlaced
    <3> QED
      BY <1>6, <2>1, <3>3
  <2>2. CASE k = last
    <3>1. Known(Top.saved, Sure(code, open))
      BY <1>2, <1>4 DEF StackPlaced, Top
    <3>2. Known(Top.saved, known)
      BY <1>11, <3>1, KnownGrows
    <3>3. <<n, "end">> \notin PlacedIn(code')
      BY <1>8, <1>9, <1>10
    <3> QED
      BY <1>6, <1>8, <2>2, <3>2, <3>3
  <2> QED
    BY <1>3, <1>6, <1>7, <2>1, <2>2
<1>14. \A k, j \in DOMAIN open' : open'[k].node = open'[j].node => k = j
  <2>1. \A k, j \in DOMAIN open : open[k].node = open[j].node => k = j
    BY <1>2 DEF StackPlaced
  <2>2. \A k \in DOMAIN open' : k \in DOMAIN open /\ open'[k].node = open[k].node
    BY <1>3, <1>6, <1>7 DEF Top
  <2> QED
    BY <2>1, <2>2
<1>15. StackPlaced(code', open')
  BY <1>13, <1>14 DEF StackPlaced, known
<1>16. /\ Known(dests', known)
       /\ \A name \in LabelNames : curLabels'[name] \in PlacedIn(code') \cup {NoLabel}
  BY <1>1, <1>2, <1>9, <1>11, KnownGrows
<1>17. Len(source') = m /\ unresolvedJumps' = unresolvedJumps /\ status' # "done"
  BY <1>1
<1> HIDE DEF m
<1> QED
  BY <1>12, <1>15, <1>16, <1>17 DEF PlacedInv, known

-----------------------------------------------------------------------------
LEMMA EmitsMore ==
  ASSUME NEW b, NEW labels, NEW few, NEW many, Emits(b, labels, few), few \subseteq many
  PROVE  Emits(b, labels, many)
BY DEF Emits

LEMMA StopPlaced ==
  ASSUME status' \in {"rejected", "crashed"}
  PROVE  PlacedInv'
BY DEF PlacedInv, Parsing

LEMMA SimpleStatementsPlaced ==
  ASSUME IInv, PlacedInv,
         \/ ParseExprStmt \/ ParseReturnStmt \/ ParseBreakStmt \/ ParseContinueStmt
         \/ \E name \in LabelNames : ParseGotoStmt(name)
  PROVE  PlacedInv'
<1> USE DEF Kinds, Args
<1> DEFINE known == Sure(code, open)
<1>1. Parsing
  BY DEF ParseExprStmt, ParseReturnStmt, ParseBreakStmt, ParseContinueStmt, ParseGotoStmt,
         Simple, Read, Error, Parsing
<1>2. /\ Known(dests, known)
      /\ \A name \in LabelNames : curLabels[name] \in PlacedIn(code) \cup {NoLabel}
      /\ dests \in DestsType /\ curLabels \in [LabelNames -> Labels]
  BY <1>1 DEF PlacedInv, IInv, TypeOK
<1>3. ASSUME NEW role \in {"expr", "return"}, Simple(role, << >>, <<Eval(role, Node)>>),
             UNCHANGED <<curLabels, unresolvedJumps>>
      PROVE  PlacedInv'
  <2>1. Node \in Nodes
    BY <1>3, ReadTyped DEF Simple
  <2>2. role \in Roles
    BY DEF Roles
  <2>3. Emits(<<Eval(role, Node)>>, {}, {})
    BY <2>1, <2>2, LabelTypes, EmitsOne
  <2>4. Emits(<<Eval(role, Node)>>, {}, known)
    BY <2>3, EmitsMore
  <2> QED
    BY <1>3, <2>4, SimplePlaced
<1>4. ASSUME NEW kind, NEW arg, NEW to \in Labels, to \in known,
             Simple(kind, arg, <<Jump(to)>>), UNCHANGED <<curLabels, unresolvedJumps>>
      PROVE  PlacedInv'
  <2>1. Emits(<<Jump(to)>>, {}, {to})
    BY LabelTypes, EmitsOne
  <2>2. Emits(<<Jump(to)>>, {}, known)
    BY <1>4, <2>1, EmitsMore
  <2> QED
    BY <1>4, <2>2, SimplePlaced
<1>5. CASE ParseExprStmt
  BY <1>3, <1>5 DEF ParseExprStmt
<1>6. CASE ParseReturnStmt
  BY <1>3, <1>6 DEF ParseReturnStmt
<1>7. CASE ParseBreakStmt
  <2>1. CASE dests.breakDest = NoLabel
    BY <1>7, <2>1, StopPlaced DEF ParseBreakStmt, Error
  <2>2. CASE dests.breakDest # NoLabel
    <3>1. dests.breakDest \in known /\ dests.breakDest \in Labels
      BY <1>2, <2>2 DEF Known, DestsType
    <3> QED
      BY <1>4, <1>7, <2>2, <3>1 DEF ParseBreakStmt
  <2> QED
    BY <2>1, <2>2
<1>8. CASE ParseContinueStmt
  <2>1. CASE dests.continueDest = NoLabel
    BY <1>8, <2>1, StopPlaced DEF ParseContinueStmt, Error
  <2>2. CASE dests.continueDest # NoLabel
    <3>1. dests.continueDest \in known /\ dests.continueDest \in Labels
      BY <1>2, <2>2 DEF Known, DestsType
    <3> QED
      BY <1>4, <1>8, <2>2, <3>1 DEF ParseContinueStmt
  <2> QED
    BY <2>1, <2>2
<1>9. ASSUME NEW name \in LabelNames, ParseGotoStmt(name)
      PROVE  PlacedInv'
  <2>1. CASE curLabels[name] = NoLabel
    BY <1>9, <2>1, GotoPlaced
  <2>2. CASE curLabels[name] # NoLabel
    <3>1. curLabels[name] \in known /\ curLabels[name] \in Labels
      BY <1>2, <2>2 DEF Sure
    <3>2. /\ Simple("goto", name, <<Jump(curLabels[name])>>)
          /\ UNCHANGED <<curLabels, unresolvedJumps>>
      BY <1>9, <2>2 DEF ParseGotoStmt
    <3> QED
      BY <1>4, <3>1, <3>2
  <2> QED
    BY <2>1, <2>2
<1> QED
  BY <1>5, <1>6, <1>7, <1>8, <1>9

(* What each kind of statement has placed and must place when it begins.   *)
LEMMA FrameLabels ==
  ASSUME NEW n
  PROVE  /\ \A kind \in {"block", "case", "default"} :
              /\ BeganBy(Frame(n, kind)) = {} /\ LaterBy(Frame(n, kind)) = {}
              /\ OwedBy(Frame(n, kind)) = {}
         /\ BeganBy(Frame(n, "label")) = {<<n, "label">>} /\ LaterBy(Frame(n, "label")) = {}
         /\ OwedBy(Frame(n, "label")) = {}
         /\ BeganBy(Frame(n, "if")) = {}
         /\ OwedBy(Frame(n, "if")) = {<<n, "else">>}
         /\ BeganBy(Frame(n, "while")) = {<<n, "cond">>}
         /\ LaterBy(Frame(n, "while")) = {<<n, "end">>}
         /\ OwedBy(Frame(n, "while")) = {<<n, "end">>}
         /\ BeganBy(Frame(n, "do")) = {<<n, "begin">>}
         /\ LaterBy(Frame(n, "do")) = {<<n, "cond">>, <<n, "end">>}
         /\ OwedBy(Frame(n, "do")) = {<<n, "cond">>, <<n, "end">>}
         /\ \A kind \in {"for", "forever"} :
              /\ BeganBy(Frame(n, kind)) = {<<n, "cond">>}
              /\ LaterBy(Frame(n, kind)) = {<<n, "step">>, <<n, "end">>}
              /\ OwedBy(Frame(n, kind)) = {<<n, "step">>, <<n, "end">>}
         /\ BeganBy(Frame(n, "switch")) = {}
         /\ OwedBy(Frame(n, "switch")) = {<<n, "test">>, <<n, "end">>}
BY DEF Frame, BeganBy, LaterBy, OwedBy

(* Inside, break and continue go to what the statement places.             *)
LEMMA EnterKnown ==
  ASSUME NEW few, Known(dests, few), NEW many, few \subseteq many,
         dests \in DestsType, NEW to, to \in many, NEW again, again \in many
  PROVE  /\ Known(dests, many)
         /\ Known(EnterLoopBody(to, again), many)
         /\ \A n : Known(EnterSwitchBody(to, n), many)
         /\ Known([dests EXCEPT !.defaultLabel = to], many)
<1>1. Known(dests, many)
  BY KnownGrows
<1> QED
  BY <1>1 DEF Known, EnterLoopBody, EnterSwitchBody, DestsType

(* A statement that begins, from what its head emits and what it leaves.   *)
LEMMA HeadPlaced ==
  ASSUME IInv, PlacedInv, NEW kind \in Kinds, NEW arg \in Args, NEW instrs, NEW inside,
         Begin(kind, arg, instrs, inside), UNCHANGED <<curLabels, unresolvedJumps>>,
         NEW labels, NEW targets, NEW owed, labels \subseteq {Node} \X LabelRoles,
         Emits(instrs, labels, targets), OwedBy(Frame(Node, kind)) = owed,
         targets \subseteq labels \cup owed, BeganBy(Frame(Node, kind)) \subseteq labels,
         LaterBy(Frame(Node, kind)) \cap labels = {},
         Known(inside, Sure(code, open) \cup labels \cup owed)
  PROVE  PlacedInv'
<1>1. Emits(instrs, labels, labels \cup owed)
  BY EmitsMore
<1> QED
  BY <1>1, BeginPlaced

LEMMA OpeningPlaced ==
  ASSUME IInv, PlacedInv,
         \/ \E name \in LabelNames : ParseLabelStmt(name)
         \/ ParseCompoundStmt \/ ParseIfStmt \/ ParseWhileStmt \/ ParseDoStmt
         \/ \E kind \in {"for", "forever"} : ParseForStmt(kind)
         \/ ParseSwitchStmt
  PROVE  PlacedInv'
<1> DEFINE n == Node
           known == Sure(code, open)
<1>1. Parsing
  BY DEF ParseLabelStmt, ParseCompoundStmt, ParseIfStmt, ParseWhileStmt, ParseDoStmt,
         ParseForStmt, ParseSwitchStmt, Begin, Read, Parsing
<1>2. dests \in DestsType /\ Known(dests, known)
  BY <1>1 DEF PlacedInv, IInv, TypeOK
<1>3. n \in Nodes
  <2>1. << >> \in Args /\ LabelNames \subseteq Args
    BY DEF Args
  <2>2. {"label", "block", "if", "while", "do", "for", "forever", "switch"} \subseteq Kinds
    BY DEF Kinds, BreakTargets, Loops
  <2>3. \E kind \in Kinds, arg \in Args : Read(kind, arg)
    BY <2>1, <2>2
    DEF ParseLabelStmt, ParseCompoundStmt, ParseIfStmt, ParseWhileStmt, ParseDoStmt,
        ParseForStmt, ParseSwitchStmt, Begin
  <2> QED
    BY <2>3, ReadTyped
<1>4. /\ << >> \in Args /\ LabelNames \subseteq Args
      /\ {"label", "block", "if", "while", "do", "for", "forever", "switch"} \subseteq Kinds
  BY DEF Args, Kinds, BreakTargets, Loops
<1>5. \A role \in {"label", "cond", "begin", "end", "test", "else", "step"} :
        <<n, role>> \in {n} \X LabelRoles
  BY DEF LabelRoles
<1>6. \A r, s \in LabelRoles : r # s => <<n, r>> # <<n, s>>
  OBVIOUS
<1>7. ASSUME NEW name \in LabelNames, ParseLabelStmt(name)
      PROVE  PlacedInv'
  <2> DEFINE labels == {<<n, "label">>}
  <2>1. Emits(<<Label(<<n, "label">>)>>, labels, {}) /\ labels \subseteq {n} \X LabelRoles
    BY <1>3, <1>5, Heads
  <2>2. /\ BeganBy(Frame(n, "label")) \subseteq labels /\ OwedBy(Frame(n, "label")) = {}
        /\ LaterBy(Frame(n, "label")) \cap labels = {}
    BY FrameLabels
  <2>3. Known(dests, known \cup labels \cup {})
    BY <1>2, KnownGrows
  <2>4. /\ Begin("label", name, <<Label(<<n, "label">>)>>, dests)
        /\ UNCHANGED <<curLabels, unresolvedJumps>>
    BY <1>7 DEF ParseLabelStmt
  <2>5. "label" \in Kinds /\ name \in Args /\ {} \subseteq labels \cup {}
    BY <1>4
  <2> HIDE DEF labels
  <2> QED
    BY <2>1, <2>2, <2>3, <2>4, <2>5, HeadPlaced
<1>8. CASE ParseCompoundStmt
  <2>1. Emits(<< >>, {}, {}) /\ {} \subseteq {n} \X LabelRoles
    BY <1>3, LabelTypes, EmitsOne
  <2>2. /\ BeganBy(Frame(n, "block")) \subseteq {} /\ OwedBy(Frame(n, "block")) = {}
        /\ LaterBy(Frame(n, "block")) \cap {} = {}
    BY FrameLabels
  <2>3. Known(dests, known \cup {} \cup {})
    BY <1>2, KnownGrows
  <2>4. /\ Begin("block", << >>, << >>, dests) /\ UNCHANGED <<curLabels, unresolvedJumps>>
    BY <1>8 DEF ParseCompoundStmt
  <2>5. "block" \in Kinds /\ << >> \in Args /\ {} \subseteq {} \cup {}
    BY <1>4
  <2> QED
    BY <2>1, <2>2, <2>3, <2>4, <2>5, HeadPlaced
<1>9. CASE ParseIfStmt
  <2> DEFINE owed == {<<n, "else">>}
  <2>1. Emits(<<Test(n, <<n, "else">>)>>, {}, owed) /\ {} \subseteq {n} \X LabelRoles
    BY <1>3, Heads
  <2>2. /\ BeganBy(Frame(n, "if")) \subseteq {} /\ OwedBy(Frame(n, "if")) = owed
        /\ LaterBy(Frame(n, "if")) \cap {} = {}
    BY FrameLabels
  <2>3. Known(dests, known \cup {} \cup owed)
    BY <1>2, KnownGrows
  <2>4. /\ Begin("if", << >>, <<Test(n, <<n, "else">>)>>, dests)
        /\ UNCHANGED <<curLabels, unresolvedJumps>>
    BY <1>9 DEF ParseIfStmt
  <2>5. "if" \in Kinds /\ << >> \in Args /\ owed \subseteq {} \cup owed
    BY <1>4
  <2> HIDE DEF owed
  <2> QED
    BY <2>1, <2>2, <2>3, <2>4, <2>5, HeadPlaced
<1>10. CASE ParseWhileStmt
  <2> DEFINE labels == {<<n, "cond">>}
             owed == {<<n, "end">>}
             instrs == <<Label(<<n, "cond">>), Test(n, <<n, "end">>)>>
             inside == EnterLoopBody(<<n, "end">>, <<n, "cond">>)
  <2>1. Emits(instrs, labels, owed) /\ labels \subseteq {n} \X LabelRoles
    BY <1>3, <1>5, Heads
  <2>2. /\ BeganBy(Frame(n, "while")) \subseteq labels /\ OwedBy(Frame(n, "while")) = owed
        /\ LaterBy(Frame(n, "while")) \cap labels = {}
    BY FrameLabels
  <2>3. Known(inside, known \cup labels \cup owed)
    BY <1>2, EnterKnown
  <2>4. Begin("while", << >>, instrs, inside) /\ UNCHANGED <<curLabels, unresolvedJumps>>
    BY <1>10 DEF ParseWhileStmt
  <2>5. "while" \in Kinds /\ << >> \in Args /\ owed \subseteq labels \cup owed
    BY <1>4
  <2> HIDE DEF labels, owed, instrs, inside
  <2> QED
    BY <2>1, <2>2, <2>3, <2>4, <2>5, HeadPlaced
<1>11. CASE ParseDoStmt
  <2> DEFINE labels == {<<n, "begin">>}
             owed == {<<n, "cond">>, <<n, "end">>}
             instrs == <<Label(<<n, "begin">>)>>
             inside == EnterLoopBody(<<n, "end">>, <<n, "begin">>)
  <2>1. Emits(instrs, labels, {}) /\ labels \subseteq {n} \X LabelRoles
    BY <1>3, <1>5, Heads
  <2>2. /\ BeganBy(Frame(n, "do")) \subseteq labels /\ OwedBy(Frame(n, "do")) = owed
        /\ LaterBy(Frame(n, "do")) \cap labels = {}
    BY FrameLabels
  <2>3. Known(inside, known \cup labels \cup owed)
    BY <1>2, EnterKnown
  <2>4. Begin("do", << >>, instrs, inside) /\ UNCHANGED <<curLabels, unresolvedJumps>>
    BY <1>11 DEF ParseDoStmt
  <2>5. "do" \in Kinds /\ << >> \in Args /\ {} \subseteq labels \cup owed
    BY <1>4
  <2> HIDE DEF labels, owed, instrs, inside
  <2> QED
    BY <2>1, <2>2, <2>3, <2>4, <2>5, HeadPlaced
<1>12. ASSUME NEW kind \in {"for", "forever"}, ParseForStmt(kind)
       PROVE  PlacedInv'
  <2> DEFINE labels == {<<n, "cond">>}
             owed == {<<n, "step">>, <<n, "end">>}
             targets == IF kind = "for" THEN {<<n, "end">>} ELSE {}
             instrs == <<Eval("init", n), Label(<<n, "cond">>)>>
                         \o (IF kind = "for" THEN <<Test(n, <<n, "end">>)>> ELSE << >>)
             inside == EnterLoopBody(<<n, "end">>, <<n, "step">>)
  <2>1. Emits(instrs, labels, targets) /\ labels \subseteq {n} \X LabelRoles
    <3>1. CASE kind = "for"
      BY <1>3, <1>5, <3>1, Heads
    <3>2. CASE kind # "for"
      BY <1>3, <1>5, <3>2, Heads
    <3> QED
      BY <3>1, <3>2
  <2>2. /\ BeganBy(Frame(n, kind)) \subseteq labels /\ OwedBy(Frame(n, kind)) = owed
        /\ LaterBy(Frame(n, kind)) \cap labels = {}
    BY FrameLabels
  <2>3. Known(inside, known \cup labels \cup owed)
    BY <1>2, EnterKnown
  <2>4. Begin(kind, << >>, instrs, inside) /\ UNCHANGED <<curLabels, unresolvedJumps>>
    BY <1>12 DEF ParseForStmt
  <2>5. kind \in Kinds /\ << >> \in Args /\ targets \subseteq labels \cup owed
    BY <1>4
  <2> HIDE DEF labels, owed, targets, instrs, inside
  <2> QED
    BY <2>1, <2>2, <2>3, <2>4, <2>5, HeadPlaced
<1>13. CASE ParseSwitchStmt
  <2> DEFINE owed == {<<n, "test">>, <<n, "end">>}
             targets == {<<n, "test">>}
             instrs == <<Eval("switch", n), Jump(<<n, "test">>)>>
             inside == EnterSwitchBody(<<n, "end">>, n)
  <2>1. Emits(instrs, {}, targets) /\ {} \subseteq {n} \X LabelRoles
    BY <1>3, Heads
  <2>2. /\ BeganBy(Frame(n, "switch")) \subseteq {} /\ OwedBy(Frame(n, "switch")) = owed
        /\ LaterBy(Frame(n, "switch")) \cap {} = {}
    BY FrameLabels
  <2>3. Known(inside, known \cup {} \cup owed)
    BY <1>2, EnterKnown
  <2>4. Begin("switch", << >>, instrs, inside) /\ UNCHANGED <<curLabels, unresolvedJumps>>
    BY <1>13 DEF ParseSwitchStmt
  <2>5. "switch" \in Kinds /\ << >> \in Args /\ targets \subseteq {} \cup owed
    BY <1>4
  <2> HIDE DEF owed, targets, instrs, inside
  <2> QED
    BY <2>1, <2>2, <2>3, <2>4, <2>5, HeadPlaced
<1> QED
  BY <1>7, <1>8, <1>9, <1>10, <1>11, <1>12, <1>13

(* The label of a case or a default is placed where it is entered.         *)
LEMMA CasePlaced ==
  ASSUME IInv, PlacedInv,
         (\E range \in CaseRanges : ParseCaseStmt(range)) \/ ParseDefaultStmt
  PROVE  PlacedInv'
<1> DEFINE n == Node
           l == <<n, "label">>
           labels == {l}
           known == Sure(code, open)
           instrs == <<Label(l)>>
<1>1. Parsing
  BY DEF ParseCaseStmt, ParseDefaultStmt, Begin, Read, Error, Parsing
<1>2. dests \in DestsType /\ Known(dests, known)
  BY <1>1 DEF PlacedInv, IInv, TypeOK
<1>3. ASSUME NEW kind \in {"case", "default"}, NEW arg \in Args, NEW inside,
             Begin(kind, arg, instrs, inside), Known(inside, known \cup labels),
             UNCHANGED <<curLabels, unresolvedJumps>>
      PROVE  PlacedInv'
  <2>1. kind \in Kinds
    BY DEF Kinds
  <2>2. n \in Nodes
    BY <1>3, <2>1, ReadTyped DEF Begin
  <2>3. Emits(instrs, labels, {}) /\ labels \subseteq {n} \X LabelRoles
    <3>1. \A m \in Nodes : Emits(<<Label(<<m, "label">>)>>, {<<m, "label">>}, {})
      BY Heads
    <3>2. labels \subseteq {n} \X LabelRoles
      BY DEF LabelRoles
    <3> QED
      BY <2>2, <3>1, <3>2
  <2>4. /\ BeganBy(Frame(n, kind)) \subseteq labels /\ OwedBy(Frame(n, kind)) = {}
        /\ LaterBy(Frame(n, kind)) \cap labels = {} /\ {} \subseteq labels \cup {}
    BY FrameLabels
  <2>5. Known(inside, known \cup labels \cup {})
    BY <1>3, KnownGrows
  <2> HIDE DEF labels, instrs
  <2> QED
    BY <1>3, <2>1, <2>3, <2>4, <2>5, HeadPlaced
<1>4. ASSUME NEW range \in CaseRanges, ParseCaseStmt(range)
      PROVE  PlacedInv'
  <2> DEFINE added == [i \in 1..(range[2] - range[1] + 1) |-> <<range[1] + i - 1, l>>]
             old == dests.caseLabels.list
             inside == [dests EXCEPT !.caseLabels.list = @ \o added]
  <2>1. CASE dests.caseLabels.switch = 0 /\ range[1] <= range[2]
    BY <1>4, <2>1, StopPlaced DEF ParseCaseStmt
  <2>2. CASE ~(dests.caseLabels.switch = 0 /\ range[1] <= range[2])
    <3>1. Begin("case", range, instrs, inside) /\ UNCHANGED <<curLabels, unresolvedJumps>>
      BY <1>4, <2>2 DEF ParseCaseStmt
    <3>2. range \in Args /\ "case" \in Kinds
      BY DEF Args, Kinds
    <3>3. l \in Labels
      BY <3>1, <3>2, ReadTyped, LabelTypes DEF Begin, LabelRoles
    <3>4. added \in Seq(Int \X Labels) /\ old \in Seq(Int \X Labels)
      BY <1>2, <3>3, CaseEntries DEF DestsType
    <3>5. \A i \in DOMAIN added : added[i][2] = l
      OBVIOUS
    <3> HIDE DEF added, l
    <3>6. /\ DOMAIN (old \o added) = 1..(Len(old) + Len(added))
          /\ Len(old) \in Nat /\ Len(added) \in Nat
          /\ DOMAIN old = 1..Len(old) /\ DOMAIN added = 1..Len(added)
          /\ \A i \in 1..(Len(old) + Len(added)) :
               (old \o added)[i] = IF i <= Len(old) THEN old[i] ELSE added[i - Len(old)]
      BY <3>4, ConcatProperties, LenProperties
    <3>7. \A i \in DOMAIN old : old[i][2] \in known
      BY <1>2 DEF Known
    <3> HIDE DEF old, known
    <3>8. ASSUME NEW i \in DOMAIN (old \o added)
          PROVE  (old \o added)[i][2] \in known \cup {l}
      <4>1. CASE i <= Len(old)
        <5>1. i \in DOMAIN old /\ (old \o added)[i] = old[i]
          BY <3>6, <4>1
        <5> QED
          BY <3>7, <5>1
      <4>2. CASE ~(i <= Len(old))
        <5>1. i - Len(old) \in DOMAIN added /\ (old \o added)[i] = added[i - Len(old)]
          BY <3>6, <4>2
        <5> QED
          BY <3>5, <5>1
      <4> QED
        BY <4>1, <4>2
    <3>9. /\ inside.breakDest = dests.breakDest /\ inside.continueDest = dests.continueDest
          /\ inside.defaultLabel = dests.defaultLabel
          /\ inside.caseLabels.list = old \o added
      BY <1>2 DEF DestsType, old
    <3> HIDE DEF inside
    <3>10. Known(inside, known \cup {l})
      BY <1>2, <3>8, <3>9 DEF Known
    <3> QED
      BY <1>3, <3>1, <3>2, <3>10 DEF known
  <2> QED
    BY <2>1, <2>2
<1>5. CASE ParseDefaultStmt
  <2>1. CASE dests.defaultLabel # NoLabel
    BY <1>5, <2>1, StopPlaced DEF ParseDefaultStmt, Error
  <2>2. CASE dests.defaultLabel = NoLabel
    <3> DEFINE inside == [dests EXCEPT !.defaultLabel = l]
    <3>1. Begin("default", << >>, instrs, inside) /\ UNCHANGED <<curLabels, unresolvedJumps>>
      BY <1>5, <2>2 DEF ParseDefaultStmt
    <3>2. Known(inside, known \cup labels)
      BY <1>2, EnterKnown
    <3> HIDE DEF inside
    <3> QED
      BY <1>3, <3>1, <3>2 DEF Args
  <2> QED
    BY <2>1, <2>2
<1> QED
  BY <1>4, <1>5

(* Outside, they go where they went before.                                *)
LEMMA ExitKnown ==
  ASSUME IInv, PlacedInv, Parsing
  PROVE  LET known == Sure(code, open)
         IN /\ Known(dests, known) /\ Known(ExitLoopBody, known) /\ Known(ExitSwitchBody, known)
            /\ BeganBy(Top) \subseteq known /\ OwedBy(Top) \subseteq known
            /\ \A name \in LabelNames : curLabels[name] \in PlacedIn(code) \cup {NoLabel}
            /\ BeganBy(Top) \subseteq PlacedIn(code)
            /\ Top.node \in Nodes /\ dests \in DestsType
<1> DEFINE known == Sure(code, open)
<1>1. /\ dests \in DestsType /\ Top \in OpenStatement /\ Len(open) \in DOMAIN open
  BY TopTyped DEF IInv, TypeOK
<1>2. /\ Known(dests, known) /\ StackPlaced(code, open)
      /\ \A name \in LabelNames : curLabels[name] \in PlacedIn(code) \cup {NoLabel}
  BY DEF PlacedInv
<1>3. /\ Known(Top.saved, known) /\ BeganBy(Top) \subseteq PlacedIn(code)
  BY <1>1, <1>2 DEF StackPlaced, Top
<1>4. BeganBy(Top) \subseteq known /\ OwedBy(Top) \subseteq known
  BY <1>1, <1>3 DEF Sure, Top
<1>5. Top.saved \in DestsType
  BY <1>1 DEF OpenStatement
<1> HIDE DEF known
<1>6. Known(ExitLoopBody, known) /\ Known(ExitSwitchBody, known)
  BY <1>1, <1>2, <1>3, <1>5 DEF ExitLoopBody, ExitSwitchBody, Known, DestsType
<1>7. Top.node \in Nodes
  BY <1>1 DEF OpenStatement
<1> QED
  BY <1>1, <1>2, <1>3, <1>4, <1>6, <1>7 DEF known

LEMMA FinishPlaced ==
  ASSUME IInv, PlacedInv, Parsing, NEW kind, NEW instrs, NEW outside,
         NEW ahead \in {"close", "noelse"},
         Finish(kind, instrs, outside, ahead), UNCHANGED unresolvedJumps,
         \A name \in LabelNames : curLabels'[name] \in PlacedIn(code) \cup {NoLabel},
         NEW labels, NEW targets, Emits(instrs, labels, targets),
         OwedBy(Top) \subseteq labels, labels \subseteq LaterBy(Top),
         targets \subseteq Sure(code, open), Known(outside, Sure(code, open))
  PROVE  PlacedInv'
<1>1. /\ code' = code \o instrs /\ open' = Below /\ dests' = outside /\ UNCHANGED source
      /\ status' \in {"stmt", "close", "noelse"}
  BY DEF Finish, StatusIn
<1>2. Known(dests', Sure(code, open))
  BY <1>1
<1> QED
  BY <1>1, <1>2, ClosePlaced

LEMMA ClosingPlaced ==
  ASSUME IInv, PlacedInv,
         \/ EndLabelStmt \/ EndIfStmt \/ EndWhileStmt \/ EndDoStmt
         \/ \E kind \in {"for", "forever"} : EndForStmt(kind)
         \/ \E kind \in {"case", "default"} : EndCaseStmt(kind)
  PROVE  PlacedInv'
<1> DEFINE n == Top.node
           known == Sure(code, open)
<1>1. Parsing /\ status \in {"close", "noelse"}
  BY DEF EndLabelStmt, EndIfStmt, EndWhileStmt, EndDoStmt, EndForStmt, EndCaseStmt,
         Finish, Error, Parsing
<1>2. /\ Known(dests, known) /\ Known(ExitLoopBody, known)
      /\ BeganBy(Top) \subseteq known /\ OwedBy(Top) \subseteq known
      /\ \A name \in LabelNames : curLabels[name] \in PlacedIn(code) \cup {NoLabel}
      /\ BeganBy(Top) \subseteq PlacedIn(code)
      /\ n \in Nodes
  BY <1>1, ExitKnown
<1>3. curLabels' = curLabels =>
        \A name \in LabelNames : curLabels'[name] \in PlacedIn(code) \cup {NoLabel}
  BY <1>2
<1>4. Emits(<< >>, {}, {}) /\ {} \subseteq known
  BY <1>2, LabelTypes, EmitsOne
<1>5. Top \in OpenStatement
  BY <1>1, TopTyped
<1>6. CASE EndLabelStmt
  <2> DEFINE name == source[Top.node].arg
  <2>1. CASE curLabels[name] # NoLabel
    BY <1>6, <2>1, StopPlaced DEF EndLabelStmt, Error
  <2>2. CASE curLabels[name] = NoLabel
    <3>1. /\ Finish("label", << >>, dests, status)
          /\ curLabels' = [curLabels EXCEPT ![name] = <<n, "label">>]
          /\ UNCHANGED unresolvedJumps
      BY <1>6, <2>2 DEF EndLabelStmt
    <3>2. Top.kind = "label"
      BY <3>1 DEF Finish
    <3>3. BeganBy(Top) = {<<n, "label">>} /\ OwedBy(Top) \subseteq {} /\ {} \subseteq LaterBy(Top)
      BY <3>2 DEF BeganBy, OwedBy, LaterBy
    <3>4. curLabels \in [LabelNames -> Labels]
      BY DEF IInv, TypeOK
    <3>5. \A m \in LabelNames : curLabels'[m] \in PlacedIn(code) \cup {NoLabel}
      BY <1>2, <3>1, <3>3, <3>4
    <3> QED
      BY <1>1, <1>2, <1>4, <3>1, <3>3, <3>5, FinishPlaced
  <2> QED
    BY <2>1, <2>2
<1>7. CASE EndIfStmt
  <2>1. Top.kind = "if" /\ UNCHANGED <<curLabels, unresolvedJumps>>
    BY <1>7 DEF EndIfStmt, Finish
  <2>2. CASE Top.branch = 1
    <3> DEFINE instrs == <<Label(<<n, "else">>)>>
               labels == {<<n, "else">>}
    <3>1. Finish("if", instrs, dests, "noelse")
      BY <1>7, <2>2 DEF EndIfStmt
    <3>2. Emits(instrs, labels, {})
      BY <1>2, Tails
    <3>3. OwedBy(Top) \subseteq labels /\ labels \subseteq LaterBy(Top)
      BY <2>1, <2>2 DEF OwedBy, LaterBy
    <3> HIDE DEF instrs, labels
    <3> QED
      BY <1>1, <1>2, <1>3, <1>4, <2>1, <3>1, <3>2, <3>3, FinishPlaced
  <2>3. CASE Top.branch # 1
    <3> DEFINE instrs == <<Label(<<n, "end">>)>>
               labels == {<<n, "end">>}
    <3>1. Finish("if", instrs, dests, status)
      BY <1>7, <2>3 DEF EndIfStmt
    <3>2. Emits(instrs, labels, {})
      BY <1>2, Tails
    <3>3. OwedBy(Top) \subseteq labels /\ labels \subseteq LaterBy(Top)
      BY <2>1, <2>3 DEF OwedBy, LaterBy
    <3> HIDE DEF instrs, labels
    <3> QED
      BY <1>1, <1>2, <1>3, <1>4, <2>1, <3>1, <3>2, <3>3, FinishPlaced
  <2> QED
    BY <2>2, <2>3
<1>8. CASE EndWhileStmt
  <2> DEFINE instrs == <<Jump(<<n, "cond">>), Label(<<n, "end">>)>>
             labels == {<<n, "end">>}
             targets == {<<n, "cond">>}
  <2>1. /\ Finish("while", instrs, ExitLoopBody, status)
        /\ UNCHANGED <<curLabels, unresolvedJumps>> /\ Top.kind = "while"
    BY <1>8 DEF EndWhileStmt, Finish
  <2>2. Emits(instrs, labels, targets)
    BY <1>2, Tails
  <2>3. OwedBy(Top) \subseteq labels /\ labels \subseteq LaterBy(Top) /\ BeganBy(Top) = targets
    BY <2>1 DEF OwedBy, LaterBy, BeganBy
  <2>4. targets \subseteq known
    BY <1>2, <2>3
  <2> HIDE DEF instrs, labels, targets
  <2> QED
    BY <1>1, <1>2, <1>3, <2>1, <2>2, <2>3, <2>4, FinishPlaced
<1>9. CASE EndDoStmt
  <2> DEFINE instrs == <<Label(<<n, "cond">>), Test(n, <<n, "end">>),
                         Jump(<<n, "begin">>), Label(<<n, "end">>)>>
             labels == {<<n, "cond">>, <<n, "end">>}
             targets == {<<n, "end">>, <<n, "begin">>}
  <2>1. /\ Finish("do", instrs, ExitLoopBody, "close")
        /\ UNCHANGED <<curLabels, unresolvedJumps>> /\ Top.kind = "do"
    BY <1>9 DEF EndDoStmt, Finish
  <2>2. Emits(instrs, labels, targets)
    BY <1>2, Tails
  <2>3. /\ OwedBy(Top) \subseteq labels /\ labels \subseteq LaterBy(Top)
        /\ BeganBy(Top) = {<<n, "begin">>} /\ <<n, "end">> \in OwedBy(Top)
    BY <2>1 DEF OwedBy, LaterBy, BeganBy
  <2>4. targets \subseteq known
    BY <1>2, <2>3
  <2> HIDE DEF instrs, labels, targets
  <2> QED
    BY <1>1, <1>2, <1>3, <2>1, <2>2, <2>3, <2>4, FinishPlaced
<1>10. ASSUME NEW kind \in {"for", "forever"}, EndForStmt(kind)
       PROVE  PlacedInv'
  <2> DEFINE instrs == <<Label(<<n, "step">>), Eval("step", n),
                         Jump(<<n, "cond">>), Label(<<n, "end">>)>>
             labels == {<<n, "step">>, <<n, "end">>}
             targets == {<<n, "cond">>}
  <2>1. /\ Finish(kind, instrs, ExitLoopBody, status)
        /\ UNCHANGED <<curLabels, unresolvedJumps>> /\ Top.kind = kind
    BY <1>10 DEF EndForStmt, Finish
  <2>2. Emits(instrs, labels, targets)
    BY <1>2, Tails
  <2>3. OwedBy(Top) \subseteq labels /\ labels \subseteq LaterBy(Top) /\ BeganBy(Top) = targets
    BY <2>1 DEF OwedBy, LaterBy, BeganBy
  <2>4. targets \subseteq known
    BY <1>2, <2>3
  <2> HIDE DEF instrs, labels, targets
  <2> QED
    BY <1>1, <1>2, <1>3, <2>1, <2>2, <2>3, <2>4, FinishPlaced
<1>11. ASSUME NEW kind \in {"case", "default"}, EndCaseStmt(kind)
       PROVE  PlacedInv'
  <2>1. /\ Finish(kind, << >>, dests, status)
        /\ UNCHANGED <<curLabels, unresolvedJumps>> /\ Top.kind = kind
    BY <1>11 DEF EndCaseStmt, Finish
  <2>2. OwedBy(Top) \subseteq {} /\ {} \subseteq LaterBy(Top)
    BY <2>1 DEF OwedBy, LaterBy
  <2> QED
    BY <1>1, <1>2, <1>3, <1>4, <2>1, <2>2, FinishPlaced
<1> QED
  BY <1>6, <1>7, <1>8, <1>9, <1>10, <1>11

LEMMA EndCompoundPlaced ==
  ASSUME IInv, PlacedInv, EndCompoundStmt
  PROVE  PlacedInv'
<1>1. /\ Parsing /\ Top.kind = "block" /\ open' = Below /\ code' = code
      /\ UNCHANGED <<source, dests, curLabels, unresolvedJumps>>
      /\ status' \in {"stmt", "close", "noelse"}
  BY DEF EndCompoundStmt, StatusIn, Parsing
<1>2. /\ Known(dests, Sure(code, open)) /\ Top.node \in Nodes
      /\ \A name \in LabelNames : curLabels[name] \in PlacedIn(code) \cup {NoLabel}
  BY <1>1, ExitKnown
<1>3. Emits(<< >>, {}, {}) /\ {} \subseteq Sure(code, open)
  BY <1>2, LabelTypes, EmitsOne
<1>4. OwedBy(Top) \subseteq {} /\ {} \subseteq LaterBy(Top)
  BY <1>1 DEF OwedBy, LaterBy
<1>5. code' = code \o << >>
  <2>1. code \in Seq(Instruction)
    BY DEF IInv, TypeOK
  <2> QED
    BY <1>1, <2>1, ConcatEmptySeq
<1>6. /\ Known(dests', Sure(code, open))
      /\ \A name \in LabelNames : curLabels'[name] \in PlacedIn(code) \cup {NoLabel}
  BY <1>1, <1>2
<1> QED
  BY <1>1, <1>3, <1>4, <1>5, <1>6, ClosePlaced

(* The tests of a switch go to the labels of its cases.                    *)
LEMMA EndSwitchPlaced ==
  ASSUME IInv, PlacedInv, EndSwitchStmt
  PROVE  PlacedInv'
<1> DEFINE n == Top.node
           cases == dests.caseLabels.list
           known == Sure(code, open)
           tests == [i \in DOMAIN cases |-> Match(n, cases[i][2], cases[i][1])]
           otherwise == IF dests.defaultLabel = NoLabel THEN << >>
                        ELSE <<Jump(dests.defaultLabel)>>
           test == <<n, "test">>
           end == <<n, "end">>
           head == <<Jump(end), Label(test)>>
           tail == <<Label(end)>>
           instrs == head \o tests \o otherwise \o tail
<1>1. /\ Finish("switch", instrs, ExitSwitchBody, status)
      /\ UNCHANGED <<curLabels, unresolvedJumps>>
  BY DEF EndSwitchStmt
<1>2. Parsing /\ status \in {"close", "noelse"} /\ Top.kind = "switch"
  BY <1>1 DEF Finish, Parsing
<1>3. /\ Known(dests, known) /\ Known(ExitSwitchBody, known)
      /\ OwedBy(Top) \subseteq known /\ n \in Nodes /\ dests \in DestsType
      /\ \A name \in LabelNames : curLabels[name] \in PlacedIn(code) \cup {NoLabel}
  BY <1>2, ExitKnown
<1>4. OwedBy(Top) = {test, end} /\ LaterBy(Top) = {test, end}
  BY <1>2 DEF OwedBy, LaterBy
<1>5. cases \in Seq(Int \X Labels) /\ dests.defaultLabel \in Labels
  BY <1>3 DEF DestsType
<1>6. Emits(head, {test}, {end}) /\ Emits(tail, {end}, {})
  BY <1>3, Tails
<1>7. test # end /\ test \in known /\ end \in known
  BY <1>3, <1>4
<1> HIDE DEF n, test, end, known
<1>8. Emits(tests, {}, known)
  <2>1. DOMAIN cases = 1..Len(cases) /\ Len(cases) \in Nat
    BY <1>5, LenProperties
  <2>2. ASSUME NEW i \in DOMAIN cases
        PROVE  cases[i][1] \in Int /\ cases[i][2] \in Labels /\ cases[i][2] \in known
    <3>1. cases[i] \in Int \X Labels
      BY <1>5, <2>1, ElementOfSeq
    <3> QED
      BY <1>3, <3>1 DEF Known
  <2> HIDE DEF cases
  <2>3. \A i \in DOMAIN cases : Match(n, cases[i][2], cases[i][1]) \in Instruction
    BY <1>3, <2>2, InstructionTypes
  <2>4. DOMAIN tests = DOMAIN cases /\ \A i \in DOMAIN cases :
          tests[i].op = "match" /\ tests[i].to = cases[i][2]
    BY DEF Match, Instr
  <2>5. tests \in [1..Len(cases) -> Instruction]
    BY <2>1, <2>3
  <2> HIDE DEF tests
  <2>6. tests \in Seq(Instruction)
    BY <2>1, <2>5, SeqDef
  <2>7. PlacedIn(tests) = {} /\ OnceIn(tests)
    BY <2>4 DEF PlacedIn, OnceIn
  <2> QED
    BY <2>2, <2>4, <2>6, <2>7 DEF Emits
<1>9. Emits(otherwise, {}, known)
  <2>1. CASE dests.defaultLabel = NoLabel
    <3>1. Emits(<< >>, {}, {})
      BY <1>3, LabelTypes, EmitsOne
    <3>2. Emits(<< >>, {}, known)
      BY <3>1, EmitsMore
    <3> QED
      BY <2>1, <3>2
  <2>2. CASE dests.defaultLabel # NoLabel
    <3>1. Emits(<<Jump(dests.defaultLabel)>>, {}, {dests.defaultLabel})
      BY <1>3, <1>5, EmitsOne
    <3>2. dests.defaultLabel \in known
      BY <1>3, <2>2 DEF Known
    <3>3. Emits(<<Jump(dests.defaultLabel)>>, {}, known)
      BY <3>1, <3>2, EmitsMore
    <3> QED
      BY <2>2, <3>3
  <2> QED
    BY <2>1, <2>2
<1> HIDE DEF head, tests, otherwise, tail
<1>10. Emits(head \o tests, {test}, known)
  <2>1. Emits(head \o tests, {test} \cup {}, {end} \cup known)
    BY <1>6, <1>8, EmitsJoined
  <2>2. {test} \cup {} = {test} /\ {end} \cup known \subseteq known
    BY <1>7
  <2> QED
    BY <2>1, <2>2, EmitsMore
<1>11. Emits(head \o tests \o otherwise, {test}, known)
  <2>1. Emits(head \o tests \o otherwise, {test} \cup {}, known \cup known)
    BY <1>9, <1>10, EmitsJoined
  <2> QED
    BY <2>1
<1>12. Emits(instrs, {test, end}, known)
  <2>1. {test} \cap {end} = {}
    BY <1>7
  <2>2. Emits(head \o tests \o otherwise \o tail, {test} \cup {end}, known \cup {})
    BY <1>6, <1>11, <2>1, EmitsJoined
  <2>3. {test} \cup {end} = {test, end} /\ known \cup {} = known
    OBVIOUS
  <2> QED
    BY <2>2, <2>3
<1> HIDE DEF instrs
<1> DEFINE labels == {test, end}
<1>13. OwedBy(Top) \subseteq labels /\ labels \subseteq LaterBy(Top) /\ known \subseteq known
  BY <1>4
<1>14. Emits(instrs, labels, known)
  BY <1>12
<1>15. \A name \in LabelNames : curLabels'[name] \in PlacedIn(code) \cup {NoLabel}
  BY <1>1, <1>3
<1> HIDE DEF labels
<1> QED
  BY <1>1, <1>2, <1>3, <1>13, <1>14, <1>15, FinishPlaced DEF known

(* At the end nothing is left open, and every goto gets the label it names. *)
LEMMA ExitFuncPlaced ==
  ASSUME IInv, PlacedInv, ExitFunc
  PROVE  PlacedInv'
<1>1. CASE \E jump \in unresolvedJumps : curLabels[jump[1]] = NoLabel
  BY <1>1, StopPlaced DEF ExitFunc, Error
<1>2. CASE ~\E jump \in unresolvedJumps : curLabels[jump[1]] = NoLabel
  <2>1. Parsing /\ Len(open) = 1 /\ status' = "done" /\ source' = source
    BY <1>2 DEF ExitFunc, Parsing
  <2>2. /\ CodePlaced(code, Len(source), unresolvedJumps, Sure(code, open))
        /\ \A name \in LabelNames : curLabels[name] \in PlacedIn(code) \cup {NoLabel}
        /\ WellSaved(open) /\ DOMAIN open = 1..1
    BY <2>1, TopTyped DEF PlacedInv, IInv
  <2>3. Sure(code, open) = PlacedIn(code)
    <3>1. DOMAIN open = {1} /\ open[1].kind = "block"
      BY <2>2 DEF WellSaved
    <3>2. OwedBy(open[1]) = {}
      BY <3>1 DEF OwedBy, LaterBy
    <3> QED
      BY <3>1, <3>2 DEF Sure
  <2>4. ASSUME NEW i \in DOMAIN code
        PROVE  \/ /\ ~\E name \in LabelNames : <<name, i>> \in unresolvedJumps
                  /\ code'[i] = code[i]
               \/ /\ \E name \in LabelNames : <<name, i>> \in unresolvedJumps
                  /\ code[i].op = "jump" /\ code'[i].op = "jump"
                  /\ code'[i].to \in PlacedIn(code)
    <3>1. CASE \E name \in LabelNames : <<name, i>> \in unresolvedJumps
      <4> DEFINE name == CHOOSE l \in LabelNames : <<l, i>> \in unresolvedJumps
      <4>1. name \in LabelNames /\ <<name, i>> \in unresolvedJumps
        BY <3>1
      <4>2. code'[i] = Jump(curLabels[name])
        BY <1>2, <3>1 DEF ExitFunc
      <4> HIDE DEF name
      <4>3. curLabels[name] # NoLabel
        <5>1. <<name, i>>[1] = name
          OBVIOUS
        <5> QED
          BY <1>2, <4>1, <5>1
      <4>4. curLabels[name] \in PlacedIn(code)
        BY <2>2, <4>1, <4>3
      <4>5. code[i].op = "jump"
        <5>1. <<name, i>>[2] = i
          OBVIOUS
        <5> QED
          BY <2>2, <4>1, <5>1 DEF CodePlaced
      <4> QED
        BY <3>1, <4>2, <4>4, <4>5 DEF Jump, Instr
    <3>2. CASE ~\E name \in LabelNames : <<name, i>> \in unresolvedJumps
      BY <1>2, <3>2 DEF ExitFunc
    <3> QED
      BY <3>1, <3>2
  <2>5. DOMAIN code' = DOMAIN code
    BY <1>2 DEF ExitFunc
  <2>6. \A i \in DOMAIN code :
          (code'[i].op = "label" <=> code[i].op = "label")
          /\ (code[i].op = "label" => code'[i] = code[i])
    BY <2>4
  <2>7. PlacedIn(code') = PlacedIn(code)
    <3>1. ASSUME NEW l \in PlacedIn(code)
          PROVE  l \in PlacedIn(code')
      <4>1. PICK i \in DOMAIN code : code[i].op = "label" /\ code[i].at = l
        BY <3>1, InPlaced
      <4>2. i \in DOMAIN code' /\ code'[i].op = "label" /\ code'[i].at = l
        BY <2>5, <2>6, <4>1
      <4> QED
        BY <4>2, InPlaced
    <3>2. ASSUME NEW l \in PlacedIn(code')
          PROVE  l \in PlacedIn(code)
      <4>1. PICK i \in DOMAIN code' : code'[i].op = "label" /\ code'[i].at = l
        BY <3>2, InPlaced
      <4>2. i \in DOMAIN code /\ code[i].op = "label" /\ code[i].at = l
        BY <2>5, <2>6, <4>1
      <4> QED
        BY <4>2, InPlaced
    <3> QED
      BY <3>1, <3>2
  <2>8. OnceIn(code')
    BY <2>2, <2>5, <2>6 DEF OnceIn, CodePlaced
  <2>9. \A l \in PlacedIn(code') : l[1] <= Len(source')
    BY <2>1, <2>2, <2>7 DEF CodePlaced
  <2>10. ASSUME NEW i \in DOMAIN code', code'[i].op \in Transfers
         PROVE  code'[i].to \in PlacedIn(code')
    <3>1. CASE \E name \in LabelNames : <<name, i>> \in unresolvedJumps
      BY <2>4, <2>5, <2>7, <3>1
    <3>2. CASE ~\E name \in LabelNames : <<name, i>> \in unresolvedJumps
      BY <2>2, <2>3, <2>4, <2>5, <2>7, <2>10, <3>2 DEF CodePlaced
    <3> QED
      BY <3>1, <3>2
  <2>11. CodePlaced(code', Len(source'), {}, PlacedIn(code'))
    BY <2>8, <2>9, <2>10 DEF CodePlaced
  <2> QED
    BY <2>1, <2>11 DEF PlacedInv, Parsing
<1> QED
  BY <1>1, <1>2

LEMMA InitPlaced == Init => PlacedInv
<1> SUFFICES ASSUME Init PROVE PlacedInv
  OBVIOUS
<1> DEFINE f == [node |-> 1, kind |-> "block", branch |-> 1, saved |-> NoDests]
<1>1. /\ code = << >> /\ DOMAIN code = {} /\ dests = NoDests /\ unresolvedJumps = {}
      /\ curLabels = [name \in LabelNames |-> NoLabel] /\ status = "stmt"
      /\ DOMAIN open = {1} /\ open[1] = f
  BY DEF Init
<1>2. PlacedIn(code) = {} /\ OnceIn(code)
  BY <1>1 DEF PlacedIn, OnceIn
<1>3. \A labels : Known(NoDests, labels)
  <2>1. DOMAIN << >> = {}
    OBVIOUS
  <2> QED
    BY <2>1 DEF Known, NoDests, NoCases
<1>4. f.saved = NoDests /\ f.kind = "block"
  OBVIOUS
<1>5. BeganBy(f) = {} /\ LaterBy(f) = {}
  BY <1>4 DEF BeganBy, LaterBy
<1> HIDE DEF f
<1>6. StackPlaced(code, open)
  BY <1>1, <1>2, <1>3, <1>4, <1>5 DEF StackPlaced
<1>7. CodePlaced(code, Len(source), unresolvedJumps, Sure(code, open))
  BY <1>1, <1>2 DEF CodePlaced
<1> QED
  BY <1>1, <1>3, <1>6, <1>7 DEF PlacedInv

LEMMA StutterPlaced ==
  ASSUME PlacedInv, UNCHANGED vars
  PROVE  PlacedInv'
BY DEF PlacedInv, Parsing, vars

(* PlacedInv is inductive together with IInv.                              *)
THEOREM PlacedInvariant == Spec => []PlacedInv
<1>1. IInv /\ PlacedInv /\ [Next]_vars => PlacedInv'
  <2> SUFFICES ASSUME IInv, PlacedInv, [Next]_vars PROVE PlacedInv'
    OBVIOUS
  <2>1. CASE \/ ParseExprStmt \/ ParseReturnStmt \/ ParseBreakStmt \/ ParseContinueStmt
             \/ \E name \in LabelNames : ParseGotoStmt(name)
    BY <2>1, SimpleStatementsPlaced
  <2>2. CASE \/ \E name \in LabelNames : ParseLabelStmt(name)
             \/ ParseCompoundStmt \/ ParseIfStmt \/ ParseWhileStmt \/ ParseDoStmt
             \/ \E kind \in {"for", "forever"} : ParseForStmt(kind)
             \/ ParseSwitchStmt
    BY <2>2, OpeningPlaced
  <2>3. CASE (\E range \in CaseRanges : ParseCaseStmt(range)) \/ ParseDefaultStmt
    BY <2>3, CasePlaced
  <2>4. CASE \/ EndLabelStmt \/ EndIfStmt \/ EndWhileStmt \/ EndDoStmt
             \/ \E kind \in {"for", "forever"} : EndForStmt(kind)
             \/ \E kind \in {"case", "default"} : EndCaseStmt(kind)
    BY <2>4, ClosingPlaced
  <2>5. CASE EndCompoundStmt \/ EndSwitchStmt \/ Else \/ ExitFunc
    BY <2>5, EndCompoundPlaced, EndSwitchPlaced, ElsePlaced, ExitFuncPlaced
  <2>6. CASE UNCHANGED vars
    BY <2>6, StutterPlaced
  <2> QED
    BY <2>1, <2>2, <2>3, <2>4, <2>5, <2>6 DEF Next
<1> QED
  BY StmtInvariant, InitPlaced, <1>1, PTL DEF Spec

(* In the code of a function that was accepted, every jump, test and match *)
(* goes to a label that is placed exactly once: a goto to the LabelStmt    *)
(* ExitFunc found for it, and the jumps of a statement to labels that the  *)
(* same statement places, in ParseStmt and the functions it calls and in   *)
(* VisitIfStmt of the generator.                                           *)
THEOREM TargetsPlacedAlways == Spec => []TargetsPlaced
<1>1. PlacedInv => TargetsPlaced
  <2> SUFFICES ASSUME PlacedInv, status = "done",
                      NEW i \in DOMAIN code, code[i].op \in Transfers
               PROVE  Cardinality({j \in DOMAIN code : code[j].op = "label"
                                                        /\ code[j].at = code[i].to}) = 1
    BY DEF TargetsPlaced, Transfers
  <2>1. OnceIn(code) /\ code[i].to \in PlacedIn(code)
    BY DEF PlacedInv, CodePlaced
  <2>2. PICK k \in DOMAIN code : code[k].op = "label" /\ code[k].at = code[i].to
    BY <2>1, InPlaced
  <2>3. {j \in DOMAIN code : code[j].op = "label" /\ code[j].at = code[i].to} = {k}
    BY <2>1, <2>2 DEF OnceIn
  <2> QED
    BY <2>3, FS_Singleton
<1> QED
  BY PlacedInvariant, <1>1, PTL
=============================================================================
