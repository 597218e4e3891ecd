-------------------------- MODULE CondStackProofs --------------------------
(***************************************************************************)
(* Proofs about the stack of conditional directives, for any set of macro  *)
(* names and a stack of any size: the inductive invariant IInv, and from   *)
(* it that the top entry decides for the whole nest, that a group never    *)
(* holds two selected branches, and that skipped text is inert.            *)
(***************************************************************************)
EXTENDS CondStack, SequenceTheorems, WellFoundedInduction, TLAPS

(* What popping leaves of a well nested stack is well nested.              *)
LEMMA PrefixWellNested ==
  ASSUME NEW s \in Seq(CondDirective), WellNested(s), NEW k \in 0..Len(s)
  PROVE  /\ SubSeq(s, 1, k) \in Seq(CondDirective)
         /\ Len(SubSeq(s, 1, k)) = k
         /\ \A i \in 1..k : SubSeq(s, 1, k)[i] = s[i]
         /\ WellNested(SubSeq(s, 1, k))
<1> DEFINE p == SubSeq(s, 1, k)
<1>1. \A i \in 1..Len(s) : s[i] \in CondDirective
  BY ElementOfSeq
<1>2. Len(s) \in Nat /\ DOMAIN s = 1..Len(s)
  BY LenProperties
<1>3. p \in Seq(CondDirective) /\ Len(p) = k /\ \A i \in 1..k : p[i] = s[i]
  <2>1. \A i \in 1..k : s[i] \in CondDirective
    BY <1>1, <1>2
  <2>2. k \in Int /\ 1 \in Int
    BY <1>2
  <2>3. /\ p \in Seq(CondDirective)
        /\ Len(p) = IF 1 <= k THEN k - 1 + 1 ELSE 0
        /\ \A i \in 1..k - 1 + 1 : p[i] = s[1 + i - 1]
    BY <2>1, <2>2, SubSeqProperties
  <2> QED
    BY <2>3, <1>2
<1>4. DOMAIN p = 1..k
  BY <1>3, LenProperties
<1> HIDE DEF p
<1>5. FollowsDecider(p)
  <2> SUFFICES ASSUME NEW i \in 1..k, ~IsHead(p[i])
               PROVE  /\ i > 1
                      /\ p[i].enabled = p[i - 1].enabled
                      /\ p[i - 1].tag # "ELSE"
                      /\ ~(Selected(p[i - 1]) /\ Selected(p[i]))
                      /\ ~IsHead(p[i - 1]) => Selected(p[i - 1])
    BY <1>4 DEF FollowsDecider
  <2>1. i \in DOMAIN s /\ p[i] = s[i]
    BY <1>2, <1>3
  <2>2. i > 1
    BY <2>1 DEF WellNested, FollowsDecider
  <2>3. p[i - 1] = s[i - 1]
    BY <2>2, <1>2, <1>3
  <2> QED
    BY <2>1, <2>2, <2>3 DEF WellNested, FollowsDecider
<1>6. ElifCondLive(p)
  BY <1>2, <1>3, <1>4 DEF WellNested, ElifCondLive
<1>7. EnclosedBySelected(p)
  <2> SUFFICES ASSUME NEW i \in 1..k, NEW j \in 1..k, i < j, p[j].enabled, IsHead(p[i + 1])
               PROVE  Selected(p[i])
    BY <1>4 DEF EnclosedBySelected
  <2>1. i \in DOMAIN s /\ j \in DOMAIN s /\ i + 1 \in 1..k
    BY <1>2
  <2> QED
    BY <2>1, <1>3 DEF WellNested, EnclosedBySelected
<1> QED
  BY <1>3, <1>5, <1>6, <1>7 DEF p, WellNested

-----------------------------------------------------------------------------
\* What makes an entry fit on top of a stack.
OpensGroup(s, e) ==
  IsHead(e) /\ (e.enabled => s = << >> \/ Selected(s[Len(s)]))

ContinuesGroup(s, e) ==
  /\ ~IsHead(e)
  /\ s # << >>
  /\ LET d == s[Len(s)]
     IN /\ e.enabled = d.enabled
        /\ d.tag # "ELSE"
        /\ ~(Selected(d) /\ Selected(e))
        /\ ~IsHead(d) => Selected(d)
  /\ e.tag = "ELIF" /\ e.cond => e.enabled

(* A push that fits keeps the stack well nested.                           *)
LEMMA PushWellNested ==
  ASSUME NEW s \in Seq(CondDirective), WellNested(s), NEW e \in CondDirective,
         OpensGroup(s, e) \/ ContinuesGroup(s, e)
  PROVE  Append(s, e) \in Seq(CondDirective) /\ WellNested(Append(s, e))
<1> DEFINE t == Append(s, e)
           n == Len(s)
<1>1. n \in Nat /\ DOMAIN s = 1..n
  BY LenProperties
<1>2. /\ t \in Seq(CondDirective)
      /\ Len(t) = n + 1
      /\ \A i \in 1..n : t[i] = s[i]
      /\ t[n + 1] = e
  BY AppendProperties
<1>3. DOMAIN t = 1..(n + 1)
  BY <1>2, LenProperties
<1>4. s # << >> => n > 0
  BY <1>1, EmptySeq
<1>5. IsHead(e) => e.tag # "ELIF"
  BY DEF IsHead, Heads
<1> HIDE DEF t
<1>6. FollowsDecider(t)
  <2> SUFFICES ASSUME NEW i \in 1..(n + 1), ~IsHead(t[i])
               PROVE  /\ i > 1
                      /\ t[i].enabled = t[i - 1].enabled
                      /\ t[i - 1].tag # "ELSE"
                      /\ ~(Selected(t[i - 1]) /\ Selected(t[i]))
                      /\ ~IsHead(t[i - 1]) => Selected(t[i - 1])
    BY <1>3 DEF FollowsDecider
  <2>1. CASE i = n + 1
    <3>1. ContinuesGroup(s, e)
      BY <2>1, <1>2 DEF OpensGroup
    <3>2. n > 0 /\ t[i - 1] = s[n] /\ t[i] = e
      BY <2>1, <3>1, <1>1, <1>2, <1>4 DEF ContinuesGroup
    <3> QED
      BY <2>1, <3>1, <3>2, <1>1 DEF ContinuesGroup
  <2>2. CASE i # n + 1
    <3>1. i \in DOMAIN s /\ t[i] = s[i]
      BY <2>2, <1>1, <1>2
    <3>2. i > 1
      BY <3>1 DEF WellNested, FollowsDecider
    <3>3. t[i - 1] = s[i - 1]
      BY <3>1, <3>2, <1>1, <1>2
    <3> QED
      BY <3>1, <3>2, <3>3 DEF WellNested, FollowsDecider
  <2> QED
    BY <2>1, <2>2
<1>7. ElifCondLive(t)
  <2> SUFFICES ASSUME NEW i \in 1..(n + 1), t[i].tag = "ELIF", t[i].cond
               PROVE  t[i].enabled
    BY <1>3 DEF ElifCondLive
  <2>1. CASE i = n + 1
    BY <2>1, <1>2, <1>5 DEF OpensGroup, ContinuesGroup
  <2>2. CASE i # n + 1
    BY <2>2, <1>1, <1>2 DEF WellNested, ElifCondLive
  <2> QED
    BY <2>1, <2>2
<1>8. EnclosedBySelected(t)
  <2> SUFFICES ASSUME NEW i \in 1..(n + 1), NEW j \in 1..(n + 1), i < j,
                      t[j].enabled, IsHead(t[i + 1])
               PROVE  Selected(t[i])
    BY <1>3 DEF EnclosedBySelected
  <2>1. i \in DOMAIN s /\ t[i] = s[i]
    BY <1>1, <1>2
  <2>2. CASE j # n + 1
    <3>1. j \in DOMAIN s /\ i + 1 \in 1..n
      BY <2>2, <1>1
    <3> QED
      BY <2>1, <3>1, <1>1, <1>2 DEF WellNested, EnclosedBySelected
  <2>3. CASE j = n + 1 /\ i = n
    \* The entry just below the new one: only a group opened in live text is enabled.
    <3>1. OpensGroup(s, e)
      BY <2>3, <1>2 DEF ContinuesGroup
    <3> QED
      BY <2>1, <2>3, <3>1, <1>1, <1>2, <1>4, EmptySeq DEF OpensGroup
  <2>4. CASE j = n + 1 /\ i # n
    \* Deeper entries: the entry under the new one is enabled too.
    <3>1. n \in DOMAIN s /\ i < n /\ i + 1 \in 1..n
      BY <2>1, <2>4, <1>1
    <3>2. s[n].enabled
      <4>1. CASE OpensGroup(s, e)
        <5>1. t[j] = e /\ e.enabled
          BY <2>4, <1>2
        <5>2. s # << >>
          BY <3>1, <1>1, EmptySeq
        <5> QED
          BY <4>1, <5>1, <5>2 DEF OpensGroup, Selected
      <4>2. CASE ContinuesGroup(s, e)
        BY <4>2, <2>4, <1>2 DEF ContinuesGroup
      <4> QED
        BY <4>1, <4>2
    <3> QED
      BY <2>1, <3>1, <3>2, <1>2 DEF WellNested, EnclosedBySelected
  <2> QED
    BY <2>2, <2>3, <2>4
<1> QED
  BY <1>2, <1>6, <1>7, <1>8 DEF t, WellNested

-----------------------------------------------------------------------------
(* The entry that decides a group is one an #elif or #else may sit on: it  *)
(* is not an #else, and when it is not the head it is a selected branch.   *)
LEMMA DeciderFits ==
  ASSUME IInv, ~Misplaced, NEW k \in DOMAIN ppCondStack, Decider(k)
  PROVE  /\ ppCondStack[k] \in CondDirective
         /\ ppCondStack[k].tag # "ELSE"
         /\ ~IsHead(ppCondStack[k]) => Selected(ppCondStack[k])
<1>1. /\ Len(ppCondStack) \in Nat
      /\ DOMAIN ppCondStack = 1..Len(ppCondStack)
      /\ ppCondStack[k] \in CondDirective
  BY LenProperties, ElementOfSeq DEF IInv, TypeOK
<1>2. ppCondStack[k].tag # "ELSE"
  <2>1. CASE k = Len(ppCondStack)
    BY <2>1 DEF Misplaced, Top
  <2>2. CASE k # Len(ppCondStack)
    <3>1. k + 1 \in DOMAIN ppCondStack /\ k + 1 \in (k + 1)..Len(ppCondStack)
      BY <2>2, <1>1
    <3>2. ~IsHead(ppCondStack[k + 1])
      BY <3>1 DEF Decider, Decides, IsHead
    <3>3. ppCondStack[(k + 1) - 1].tag # "ELSE"
      BY <3>1, <3>2 DEF IInv, WellNested, FollowsDecider
    <3> QED
      BY <3>3, <1>1
  <2> QED
    BY <2>1, <2>2
<1>3. ~IsHead(ppCondStack[k]) => Selected(ppCondStack[k])
  <2> SUFFICES ASSUME ~IsHead(ppCondStack[k])
               PROVE  Selected(ppCondStack[k])
    OBVIOUS
  <2>1. ppCondStack[k].tag = "ELIF" /\ ppCondStack[k].cond
    BY <1>1, <1>2 DEF CondDirective, Tags, Heads, IsHead, Decider, Decides
  <2> QED
    BY <2>1 DEF IInv, WellNested, ElifCondLive, Selected
<1> QED
  BY <1>1, <1>2, <1>3

(* Popping to any height keeps the invariant.                              *)
LEMMA PopKeeps ==
  ASSUME IInv, NEW k \in 0..Len(ppCondStack), PopTo(k)
  PROVE  IInv'
<1>1. ppCondStack \in Seq(CondDirective) /\ WellNested(ppCondStack)
  BY DEF IInv, TypeOK
<1>2. ppCondStack' \in Seq(CondDirective) /\ WellNested(ppCondStack')
  BY <1>1, PrefixWellNested DEF PopTo
<1> QED
  BY <1>2 DEF IInv, TypeOK, PopTo, WellNested, FollowsDecider, ElifCondLive,
              EnclosedBySelected

(* Pushing an entry that fits on what popping left keeps the invariant.    *)
LEMMA PushKeeps ==
  ASSUME IInv, NEW k \in 0..Len(ppCondStack), NEW e \in CondDirective,
         LET s == SubSeq(ppCondStack, 1, k) IN OpensGroup(s, e) \/ ContinuesGroup(s, e),
         PushOn(SubSeq(ppCondStack, 1, k), e)
  PROVE  IInv'
<1>1. ppCondStack \in Seq(CondDirective) /\ WellNested(ppCondStack)
  BY DEF IInv, TypeOK
<1> DEFINE s == SubSeq(ppCondStack, 1, k)
<1>2. s \in Seq(CondDirective) /\ WellNested(s)
  BY <1>1, PrefixWellNested
<1>3. OpensGroup(s, e) \/ ContinuesGroup(s, e)
  OBVIOUS
<1>4. ppCondStack' = Append(s, e) /\ UNCHANGED <<macroMap, kept, status>>
  BY DEF PushOn
<1> HIDE DEF s
<1>5. ppCondStack' \in Seq(CondDirective) /\ WellNested(ppCondStack')
  BY <1>2, <1>3, <1>4, PushWellNested
<1> QED
  BY <1>4, <1>5 DEF IInv, TypeOK, WellNested, FollowsDecider, ElifCondLive,
              EnclosedBySelected

(* Opening a group: the entry pushed is enabled only in live text.         *)
LEMMA OpenKeeps ==
  ASSUME IInv, NEW e \in CondDirective, IsHead(e), e.enabled => NeedExpand, Push(e)
  PROVE  IInv'
<1>1. ppCondStack \in Seq(CondDirective) /\ Len(ppCondStack) \in Nat
  BY LenProperties DEF IInv, TypeOK
<1>2. SubSeq(ppCondStack, 1, Len(ppCondStack)) = ppCondStack
  BY <1>1, SubSeqFull
<1>3. OpensGroup(ppCondStack, e)
  BY DEF OpensGroup, NeedExpand, Top, Selected
<1> DEFINE k == Len(ppCondStack)
           s == SubSeq(ppCondStack, 1, k)
<1>4. k \in 0..Len(ppCondStack)
  BY <1>1
<1>5. (OpensGroup(s, e) \/ ContinuesGroup(s, e)) /\ PushOn(s, e)
  BY <1>2, <1>3 DEF Push, PushOn
<1> QED
  BY <1>4, <1>5, PushKeeps

(* Continuing a group on its decider.                                      *)
LEMMA ContinueKeeps ==
  ASSUME IInv, ~Misplaced, NEW k \in DOMAIN ppCondStack, Decider(k),
         NEW e \in CondDirective, ~IsHead(e),
         e.enabled = ppCondStack[k].enabled,
         ~(Selected(ppCondStack[k]) /\ Selected(e)),
         e.tag = "ELIF" /\ e.cond => e.enabled,
         PushOn(SubSeq(ppCondStack, 1, k), e)
  PROVE  IInv'
<1>1. /\ ppCondStack \in Seq(CondDirective)
      /\ WellNested(ppCondStack)
      /\ Len(ppCondStack) \in Nat
      /\ DOMAIN ppCondStack = 1..Len(ppCondStack)
  BY LenProperties DEF IInv, TypeOK
<1>2. k \in 0..Len(ppCondStack) /\ k > 0
  BY <1>1
<1> DEFINE s == SubSeq(ppCondStack, 1, k)
<1>3. s \in Seq(CondDirective) /\ Len(s) = k /\ s[k] = ppCondStack[k]
  BY <1>1, <1>2, PrefixWellNested
<1>4. s # << >>
  BY <1>2, <1>3, EmptySeq
<1> HIDE DEF s
<1>5. ContinuesGroup(s, e)
  BY <1>3, <1>4, DeciderFits DEF ContinuesGroup
<1> QED
  BY <1>2, <1>5, PushKeeps DEF s

-----------------------------------------------------------------------------
LEMMA IInvInit == Init => IInv
<1> SUFFICES ASSUME Init PROVE IInv
  OBVIOUS
<1>1. ppCondStack \in Seq(CondDirective) /\ DOMAIN ppCondStack = {}
  BY EmptySeq DEF Init
<1>2. WellNested(ppCondStack)
  BY <1>1 DEF WellNested, FollowsDecider, ElifCondLive, EnclosedBySelected
<1> QED
  BY <1>1, <1>2 DEF IInv, TypeOK, Init, MacroStates

\* A step that leaves the stack alone and the rest well typed.
LEMMA StackUnchangedKeeps ==
  ASSUME IInv, ppCondStack' = ppCondStack,
         macroMap' \in [Names -> MacroStates],
         kept' \in {"none", "kept", "dropped"},
         status' \in {"reading", "done", "rejected"}
  PROVE  IInv'
BY DEF IInv, TypeOK, WellNested, FollowsDecider, ElifCondLive, EnclosedBySelected

LEMMA ErrorKeeps == ASSUME IInv, Error PROVE IInv'
BY StackUnchangedKeeps DEF Error, IInv, TypeOK

LEMMA IgnoreKeeps == ASSUME IInv, Ignore PROVE IInv'
BY StackUnchangedKeeps DEF Ignore, vars, IInv, TypeOK

LEMMA SetMacroKeeps ==
  ASSUME IInv, NEW n \in Names, NEW m \in MacroStates, SetMacro(n, m)
  PROVE  IInv'
BY StackUnchangedKeeps DEF SetMacro, IInv, TypeOK

LEMMA ParseIfKeeps == ASSUME IInv, NEW out \in Outcomes, ParseIf(out) PROVE IInv'
<1>1. CASE ~NeedExpand
  <2> DEFINE e == Entry("IF", FALSE, FALSE)
  <2>1. e \in CondDirective /\ IsHead(e) /\ ~e.enabled
    BY DEF Entry, CondDirective, Tags, Heads, IsHead
  <2> QED
    BY <1>1, <2>1, OpenKeeps DEF ParseIf
<1>2. CASE NeedExpand /\ out = "malformed"
  BY <1>2, ErrorKeeps DEF ParseIf
<1>3. CASE NeedExpand /\ out # "malformed"
  <2> DEFINE e == Entry("IF", TRUE, out = "true")
  <2>1. e \in CondDirective /\ IsHead(e)
    BY DEF Entry, CondDirective, Tags, Heads, IsHead
  <2> QED
    BY <1>3, <2>1, OpenKeeps DEF ParseIf
<1> QED
  BY <1>1, <1>2, <1>3

LEMMA ParseIfdefKeeps ==
  ASSUME IInv, NEW tag \in {"IFDEF", "IFNDEF"}, NEW n \in Names, NEW well \in BOOLEAN,
         ParseIfdef(tag, n, well)
  PROVE  IInv'
<1>1. CASE ~NeedExpand
  <2> DEFINE e == Entry(tag, FALSE, tag = "IFNDEF")
  <2>1. e \in CondDirective /\ IsHead(e) /\ ~e.enabled
    BY DEF Entry, CondDirective, Tags, Heads, IsHead
  <2> QED
    BY <1>1, <2>1, OpenKeeps DEF ParseIfdef
<1>2. CASE NeedExpand /\ ~well
  BY <1>2, ErrorKeeps DEF ParseIfdef
<1>3. CASE NeedExpand /\ well
  <2> DEFINE e == Entry(tag, TRUE, (tag = "IFDEF") = FindMacro(n))
  <2>1. e \in CondDirective /\ IsHead(e)
    BY DEF Entry, CondDirective, Tags, Heads, IsHead
  <2> QED
    BY <1>3, <2>1, OpenKeeps DEF ParseIfdef
<1> QED
  BY <1>1, <1>2, <1>3

LEMMA ParseElifKeeps == ASSUME IInv, NEW out \in Outcomes, ParseElif(out) PROVE IInv'
<1>1. CASE Misplaced
  BY <1>1, ErrorKeeps DEF ParseElif
<1>2. CASE ~Misplaced
  <2>1. PICK k \in DOMAIN ppCondStack :
          /\ Decider(k)
          /\ IF ppCondStack[k].enabled /\ out = "malformed"
               THEN Error
               ELSE PushOn(SubSeq(ppCondStack, 1, k), ElifEntry(ppCondStack[k], out))
    BY <1>2 DEF ParseElif
  <2>2. CASE ppCondStack[k].enabled /\ out = "malformed"
    BY <2>1, <2>2, ErrorKeeps
  <2>3. CASE ~(ppCondStack[k].enabled /\ out = "malformed")
    <3> DEFINE e == ElifEntry(ppCondStack[k], out)
    <3>1. ppCondStack[k] \in CondDirective
      BY <1>2, <2>1, DeciderFits
    <3>2. /\ e \in CondDirective
          /\ ~IsHead(e)
          /\ e.enabled = ppCondStack[k].enabled
          /\ ~(Selected(ppCondStack[k]) /\ Selected(e))
          /\ e.cond => e.enabled
      BY <3>1 DEF ElifEntry, Entry, CondDirective, Tags, Heads, IsHead, Selected
    <3> HIDE DEF e
    <3> QED
      BY <1>2, <2>1, <2>3, <3>2, ContinueKeeps DEF e
  <2> QED
    BY <2>2, <2>3
<1> QED
  BY <1>1, <1>2

LEMMA ParseElseKeeps == ASSUME IInv, NEW well \in BOOLEAN, ParseElse(well) PROVE IInv'
<1>1. CASE ~well \/ Misplaced
  BY <1>1, ErrorKeeps DEF ParseElse
<1>2. CASE well /\ ~Misplaced
  <2>1. PICK k \in DOMAIN ppCondStack :
          /\ Decider(k)
          /\ PushOn(SubSeq(ppCondStack, 1, k),
                    Entry("ELSE", ppCondStack[k].enabled, ~ppCondStack[k].cond))
    BY <1>2 DEF ParseElse
  <2> DEFINE e == Entry("ELSE", ppCondStack[k].enabled, ~ppCondStack[k].cond)
  <2>2. ppCondStack[k] \in CondDirective
    BY <1>2, <2>1, DeciderFits
  <2>3. /\ e \in CondDirective
        /\ ~IsHead(e)
        /\ e.enabled = ppCondStack[k].enabled
        /\ ~(Selected(ppCondStack[k]) /\ Selected(e))
        /\ e.tag # "ELIF"
    BY <2>2 DEF Entry, CondDirective, Tags, Heads, IsHead, Selected
  <2> QED
    BY <1>2, <2>1, <2>3, ContinueKeeps
<1> QED
  BY <1>1, <1>2

LEMMA ParseEndifKeeps == ASSUME IInv, NEW well \in BOOLEAN, ParseEndif(well) PROVE IInv'
<1>1. CASE ~well \/ NoHead
  BY <1>1, ErrorKeeps DEF ParseEndif
<1>2. CASE well /\ ~NoHead
  <2>1. PICK k \in DOMAIN ppCondStack : PopTo(k - 1)
    BY <1>2 DEF ParseEndif
  <2>2. k - 1 \in 0..Len(ppCondStack)
    BY LenProperties DEF IInv, TypeOK
  <2> QED
    BY <2>1, <2>2, PopKeeps
<1> QED
  BY <1>1, <1>2

LEMMA ParseDefKeeps ==
  ASSUME IInv, NEW n \in Names, NEW well \in BOOLEAN,
         ParseDef(n, well) \/ ParseUndef(n, well)
  PROVE  IInv'
<1>1. Ignore \/ Error \/ SetMacro(n, "user") \/ SetMacro(n, "none")
  BY DEF ParseDef, ParseUndef
<1>2. "user" \in MacroStates /\ "none" \in MacroStates
  BY DEF MacroStates
<1> QED
  BY <1>1, <1>2, IgnoreKeeps, ErrorKeeps, SetMacroKeeps

LEMMA IInvStep == IInv /\ [Next]_vars => IInv'
<1> SUFFICES ASSUME IInv, [Next]_vars PROVE IInv'
  OBVIOUS
<1>1. CASE \E out \in Outcomes : ParseIf(out) \/ ParseElif(out)
  BY <1>1, ParseIfKeeps, ParseElifKeeps
<1>2. CASE \E tag \in {"IFDEF", "IFNDEF"}, n \in Names, well \in BOOLEAN :
             ParseIfdef(tag, n, well)
  BY <1>2, ParseIfdefKeeps
<1>3. CASE \E well \in BOOLEAN : ParseElse(well) \/ ParseEndif(well)
  BY <1>3, ParseElseKeeps, ParseEndifKeeps
<1>4. CASE \E n \in Names, well \in BOOLEAN : ParseDef(n, well) \/ ParseUndef(n, well)
  BY <1>4, ParseDefKeeps
<1>5. CASE ParseFatal
  BY <1>5, ErrorKeeps DEF ParseFatal
<1>6. CASE TextLine
  BY <1>6, StackUnchangedKeeps DEF TextLine, IInv, TypeOK
<1>7. CASE EndOfInput
  BY <1>7, StackUnchangedKeeps DEF EndOfInput, IInv, TypeOK
<1>8. CASE UNCHANGED vars
  BY <1>8, StackUnchangedKeeps DEF vars, IInv, TypeOK
<1> QED
  BY <1>1, <1>2, <1>3, <1>4, <1>5, <1>6, <1>7, <1>8 DEF Next

(* The stack of conditional directives is well typed and well nested in    *)
(* every reachable state.                                                  *)
THEOREM StackInvariant == Spec => []IInv
<1>1. IInv /\ [Next]_vars => IInv'
  BY IInvStep
<1> QED
  BY <1>1, IInvInit, PTL DEF Spec

(* NeedExpand's look at the top entry decides for all the groups around    *)
(* the text.                                                               *)
LEMMA IInvTopDecides == IInv => TopDecides
<1> SUFFICES ASSUME IInv PROVE TopDecides
  OBVIOUS
<1> DEFINE s == ppCondStack
<1>1. s \in Seq(CondDirective) /\ Len(s) \in Nat /\ DOMAIN s = 1..Len(s)
  BY LenProperties DEF IInv, TypeOK
<1>2. s # << >> => Len(s) \in DOMAIN s
  BY <1>1, EmptySeq
<1>3. ASSUME NeedExpand, NEW i \in DOMAIN s, EndsSegment(s, i)
      PROVE  Selected(s[i])
  <2>1. s # << >>
    BY <1>1, EmptySeq
  <2>2. Selected(s[Len(s)])
    BY <1>3, <2>1 DEF NeedExpand, Top, Selected
  <2>3. CASE i = Len(s)
    BY <2>2, <2>3
  <2>4. CASE i # Len(s)
    <3>1. i < Len(s) /\ Len(s) \in DOMAIN s /\ IsHead(s[i + 1]) /\ s[Len(s)].enabled
      BY <1>1, <1>2, <1>3, <2>1, <2>2, <2>4 DEF EndsSegment, Selected
    <3> QED
      BY <3>1 DEF IInv, WellNested, EnclosedBySelected
  <2> QED
    BY <2>3, <2>4
<1>4. ASSUME EveryGroupLive PROVE NeedExpand
  BY <1>2, <1>4 DEF EveryGroupLive, EndsSegment, NeedExpand, Top, Selected
<1> QED
  BY <1>3, <1>4 DEF TopDecides, EveryGroupLive

THEOREM TopDecidesAlways == Spec => []TopDecides
BY StackInvariant, IInvTopDecides, PTL

(* A group holds at most three entries, of which one is selected.          *)
LEMMA IInvSegmentShape == IInv => SegmentShape
<1> SUFFICES ASSUME IInv, NEW i \in DOMAIN ppCondStack, ~IsHead(ppCondStack[i])
             PROVE  /\ i > 1
                    /\ ~(Selected(ppCondStack[i - 1]) /\ Selected(ppCondStack[i]))
                    /\ ~IsHead(ppCondStack[i - 1]) =>
                         Selected(ppCondStack[i - 1]) /\ i > 2 /\ IsHead(ppCondStack[i - 2])
  BY DEF SegmentShape
<1>1. DOMAIN ppCondStack = 1..Len(ppCondStack) /\ Len(ppCondStack) \in Nat
  BY LenProperties DEF IInv, TypeOK
<1>2. /\ i > 1
      /\ ~(Selected(ppCondStack[i - 1]) /\ Selected(ppCondStack[i]))
      /\ ~IsHead(ppCondStack[i - 1]) => Selected(ppCondStack[i - 1])
  BY DEF IInv, WellNested, FollowsDecider
<1>3. ASSUME ~IsHead(ppCondStack[i - 1])
      PROVE  i > 2 /\ IsHead(ppCondStack[i - 2])
  <2>1. i - 1 \in DOMAIN ppCondStack /\ (i - 1) - 1 = i - 2
    BY <1>1, <1>2
  <2>2. /\ i - 1 > 1
        /\ ~(Selected(ppCondStack[(i - 1) - 1]) /\ Selected(ppCondStack[i - 1]))
        /\ ~IsHead(ppCondStack[(i - 1) - 1]) => Selected(ppCondStack[(i - 1) - 1])
    BY <1>3, <2>1 DEF IInv, WellNested, FollowsDecider
  <2> QED
    BY <1>1, <1>2, <1>3, <2>1, <2>2
<1> QED
  BY <1>2, <1>3

THEOREM SegmentShapeAlways == Spec => []SegmentShape
BY StackInvariant, IInvSegmentShape, PTL

(* The macro table changes only on a line all of whose groups are live.    *)
THEOREM SkippedTextInert == Spec => SkippedTextIsInert
<1>1. ASSUME TopDecides, [Next]_vars
      PROVE  [macroMap' # macroMap => EveryGroupLive]_vars
  <2> SUFFICES ASSUME macroMap' # macroMap PROVE NeedExpand
    BY <1>1 DEF TopDecides
  <2>1. ~Error /\ ~Ignore /\ ~UNCHANGED vars
    BY DEF Error, Ignore, vars
  <2>2. \A stack, e : ~PushOn(stack, e)
    BY DEF PushOn
  <2>3. \A k : ~PopTo(k)
    BY DEF PopTo
  <2>4. PICK n \in Names, well \in BOOLEAN : ParseDef(n, well) \/ ParseUndef(n, well)
    BY <1>1, <2>1, <2>2, <2>3
       DEF Next, ParseIf, ParseIfdef, ParseElif, ParseElse, ParseEndif, ParseFatal,
           TextLine, EndOfInput, Push
  <2> QED
    BY <2>1, <2>4 DEF ParseDef, ParseUndef
<1> QED
  BY <1>1, TopDecidesAlways, PTL DEF Spec, SkippedTextIsInert
-----------------------------------------------------------------------------
(* A set of natural numbers that has 0, and with a number the next, has    *)
(* all of them.                                                            *)
LEMMA Counting ==
  ASSUME NEW S \in SUBSET Nat, 0 \in S, \A n \in S : n + 1 \in S
  PROVE  S = Nat
<1> DEFINE Less == {ss \in Nat \X Nat : ss[1] < ss[2]}
           Out == Nat \ S
<1>1. IsWellFoundedOn(Less, Nat)
  BY NatLessThanWellFounded, Zenon DEF OpToRel
<1> HIDE DEF Less
<1> SUFFICES ASSUME Out # {} PROVE FALSE
  OBVIOUS
<1>2. PICK x \in Out : \A y \in Out : ~ (<<y, x>> \in Less)
  BY <1>1, WFMin, Zenon
<1>3. x \in Nat /\ x # 0 /\ x - 1 \in Nat
  OBVIOUS
<1>4. <<x - 1, x>> \in Less
  BY <1>3 DEF Less
<1>5. x - 1 \in S
  BY <1>2, <1>3, <1>4
<1> QED
  BY <1>3, <1>5

\* The function that GroupsOf takes its value from.
IsNest(f, s) ==
  f = [i \in 0..Len(s) |-> IF i = 0 THEN << >> ELSE AddEntry(f[i - 1], s[i])]

LEMMA NestExists ==
  ASSUME NEW s \in Seq(CondDirective)
  PROVE  \E f : IsNest(f, s)
<1> DEFINE Upto(f, n) == f = [i \in 0..n |-> IF i = 0 THEN << >> ELSE AddEntry(f[i - 1], s[i])]
           S == {n \in Nat : \E f : Upto(f, n)}
<1>1. 0 \in S
  <2> DEFINE f == [i \in 0..0 |-> << >>]
  <2>1. Upto(f, 0)
    OBVIOUS
  <2> QED
    BY <2>1
<1>2. ASSUME NEW n \in S PROVE n + 1 \in S
  <2>1. n \in Nat
    OBVIOUS
  <2>2. PICK f : Upto(f, n)
    OBVIOUS
  <2> DEFINE g == [i \in 0..(n + 1) |-> IF i = n + 1 THEN AddEntry(f[n], s[n + 1]) ELSE f[i]]
  <2>3. \A i \in 0..n : g[i] = f[i]
    BY <2>1
  <2>4. ASSUME NEW i \in 0..(n + 1)
        PROVE  g[i] = IF i = 0 THEN << >> ELSE AddEntry(g[i - 1], s[i])
    <3>1. CASE i = n + 1
      <4>1. i # 0 /\ i - 1 = n /\ n \in 0..n
        BY <2>1, <3>1
      <4>2. g[i] = AddEntry(f[n], s[n + 1])
        BY <3>1
      <4> HIDE DEF g
      <4> QED
        BY <2>3, <3>1, <4>1, <4>2
    <3>2. CASE i # n + 1
      <4>1. i \in 0..n /\ (i # 0 => i - 1 \in 0..n)
        BY <2>1, <3>2
      <4>2. f[i] = IF i = 0 THEN << >> ELSE AddEntry(f[i - 1], s[i])
        BY <2>2, <4>1
      <4> HIDE DEF g
      <4> QED
        BY <2>3, <4>1, <4>2
    <3> QED
      BY <3>1, <3>2
  <2>5. Upto(g, n + 1)
    <3>1. g = [i \in 0..(n + 1) |-> g[i]]
      OBVIOUS
    <3> HIDE DEF g
    <3> QED
      BY <2>4, <3>1
  <2> HIDE DEF g
  <2> QED
    BY <2>1, <2>5
<1>3. S = Nat
  <2> HIDE DEF S
  <2>1. S \in SUBSET Nat
    BY DEF S
  <2> QED
    BY <1>1, <1>2, <2>1, Counting
<1>4. Len(s) \in S
  BY <1>3, LenProperties
<1> QED
  BY <1>4 DEF IsNest

\* A nest is determined by the entries, and a longer one continues a shorter one.
LEMMA NestUnique ==
  ASSUME NEW s \in Seq(CondDirective), NEW t \in Seq(CondDirective), Len(s) <= Len(t),
         \A i \in 1..Len(s) : s[i] = t[i], NEW f, IsNest(f, s), NEW g, IsNest(g, t)
  PROVE  f[Len(s)] = g[Len(s)]
<1>1. Len(s) \in Nat /\ Len(t) \in Nat
  BY LenProperties
<1> DEFINE S == {n \in Nat : n <= Len(s) => f[n] = g[n]}
<1>2. 0 \in S
  <2>1. 0 \in 0..Len(s) /\ 0 \in 0..Len(t)
    BY <1>1
  <2> QED
    BY <2>1 DEF IsNest
<1>3. ASSUME NEW n \in S PROVE n + 1 \in S
  <2> SUFFICES ASSUME n + 1 <= Len(s) PROVE f[n + 1] = g[n + 1]
    OBVIOUS
  <2>1. /\ n + 1 \in 0..Len(s) /\ n + 1 \in 0..Len(t) /\ n + 1 \in 1..Len(s)
        /\ n + 1 # 0 /\ (n + 1) - 1 = n /\ f[n] = g[n]
    BY <1>1
  <2>2. f[n + 1] = AddEntry(f[n], s[n + 1])
    BY <2>1 DEF IsNest
  <2>3. g[n + 1] = AddEntry(g[n], t[n + 1])
    BY <2>1 DEF IsNest
  <2> QED
    BY <2>1, <2>2, <2>3
<1>4. S = Nat
  <2> HIDE DEF S
  <2>1. S \in SUBSET Nat
    BY DEF S
  <2> QED
    BY <1>2, <1>3, <2>1, Counting
<1> QED
  BY <1>1, <1>4

LEMMA GroupsOfNest ==
  ASSUME NEW s \in Seq(CondDirective)
  PROVE  \E f : IsNest(f, s) /\ GroupsOf(s) = f[Len(s)]
<1> DEFINE f == CHOOSE nest : IsNest(nest, s)
<1>1. IsNest(f, s)
  BY NestExists
<1>2. GroupsOf(s) = f[Len(s)]
  BY DEF GroupsOf, IsNest
<1> QED
  BY <1>1, <1>2

(* The groups of a stack that is one entry higher.                         *)
LEMMA GroupsStep ==
  /\ GroupsOf(<< >>) = << >>
  /\ \A s \in Seq(CondDirective), e \in CondDirective :
       GroupsOf(Append(s, e)) = AddEntry(GroupsOf(s), e)
<1>1. GroupsOf(<< >>) = << >>
  <2>1. << >> \in Seq(CondDirective) /\ Len(<< >>) = 0
    BY EmptySeq
  <2>2. PICK f : IsNest(f, << >>) /\ GroupsOf(<< >>) = f[Len(<< >>)]
    BY <2>1, GroupsOfNest
  <2>3. 0 \in 0..0
    OBVIOUS
  <2>4. f[0] = << >>
    BY <2>1, <2>2, <2>3 DEF IsNest
  <2> QED
    BY <2>1, <2>2, <2>4
<1>2. ASSUME NEW s \in Seq(CondDirective), NEW e \in CondDirective
      PROVE  GroupsOf(Append(s, e)) = AddEntry(GroupsOf(s), e)
  <2> DEFINE t == Append(s, e)
             n == Len(s)
  <2>1. /\ n \in Nat /\ t \in Seq(CondDirective) /\ Len(t) = n + 1
        /\ \A i \in 1..n : s[i] = t[i]
        /\ t[n + 1] = e
    BY AppendProperties, LenProperties
  <2> HIDE DEF t
  <2>2. PICK f : IsNest(f, s) /\ GroupsOf(s) = f[n]
    BY GroupsOfNest
  <2>3. PICK g : IsNest(g, t) /\ GroupsOf(t) = g[n + 1]
    BY <2>1, GroupsOfNest
  <2>4. f[n] = g[n]
    BY <2>1, <2>2, <2>3, NestUnique
  <2>5. n + 1 \in 0..Len(t) /\ n + 1 # 0 /\ (n + 1) - 1 = n
    BY <2>1
  <2>6. g[n + 1] = AddEntry(g[n], t[n + 1])
    BY <2>3, <2>5 DEF IsNest
  <2> QED
    BY <2>1, <2>2, <2>3, <2>4, <2>6 DEF t
<1> QED
  BY <1>1, <1>2
-----------------------------------------------------------------------------
Group == [live : BOOLEAN, taken : BOOLEAN, last : BOOLEAN]

Front(g) == SubSeq(g, 1, Len(g) - 1)

LEMMA FrontOf ==
  ASSUME NEW g \in Seq(Group), g # << >>
  PROVE  /\ Len(g) \in Nat \ {0}
         /\ Front(g) \in Seq(Group) /\ Len(Front(g)) = Len(g) - 1
         /\ \A i \in 1..(Len(g) - 1) : Front(g)[i] = g[i]
         /\ g[Len(g)] \in Group
<1>1. Len(g) \in Nat /\ Len(g) # 0
  BY LenProperties, EmptySeq
<1>2. \A i \in 1..Len(g) : g[i] \in Group
  BY ElementOfSeq
<1> DEFINE n == Len(g)
           f == SubSeq(g, 1, n - 1)
<1>3. n \in Nat \ {0} /\ n - 1 \in Int /\ 1 \in Int
  BY <1>1
<1> HIDE DEF n
<1>4. \A i \in 1..(n - 1) : g[i] \in Group
  BY <1>2, <1>3 DEF n
<1>5. /\ f \in Seq(Group)
      /\ Len(f) = IF 1 <= n - 1 THEN (n - 1) - 1 + 1 ELSE 0
      /\ \A i \in 1..((n - 1) - 1 + 1) : f[i] = g[1 + i - 1]
  BY <1>3, <1>4, SubSeqProperties
<1> HIDE DEF f
<1>6. Len(f) = n - 1 /\ \A i \in 1..(n - 1) : f[i] = g[i]
  BY <1>3, <1>5
<1> QED
  BY <1>2, <1>3, <1>5, <1>6 DEF f, n, Front

(* What an entry more does to the groups.                                  *)
Opened(e) == [live |-> Selected(e), taken |-> e.enabled => e.cond, last |-> FALSE]
Continued(g, e) == [live |-> Selected(e), taken |-> g.taken \/ e.cond, last |-> e.tag = "ELSE"]

LEMMA HeadEntry ==
  ASSUME NEW g \in Seq(Group), NEW e \in CondDirective, IsHead(e)
  PROVE  /\ AddEntry(g, e) = Append(g, Opened(e))
         /\ AddEntry(g, e) \in Seq(Group) /\ AddEntry(g, e) # << >>
         /\ Len(AddEntry(g, e)) = Len(g) + 1
         /\ AddEntry(g, e)[Len(g) + 1] = Opened(e)
         /\ Front(AddEntry(g, e)) = g
<1>1. AddEntry(g, e) = Append(g, Opened(e)) /\ Opened(e) \in Group
  BY DEF AddEntry, IsHead, Opened, Group, CondDirective, Selected
<1> DEFINE h == Append(g, Opened(e))
<1>2. /\ h \in Seq(Group) /\ Len(h) = Len(g) + 1 /\ Len(g) \in Nat
      /\ \A i \in 1..Len(g) : h[i] = g[i]
      /\ h[Len(g) + 1] = Opened(e)
  BY <1>1, AppendProperties, LenProperties
<1> HIDE DEF h
<1>3. h # << >>
  BY <1>2, EmptySeq
<1>4. Front(h) \in Seq(Group) /\ Len(Front(h)) = Len(g) /\ \A i \in 1..Len(g) : Front(h)[i] = g[i]
  <2>1. /\ Front(h) \in Seq(Group) /\ Len(Front(h)) = Len(h) - 1
        /\ \A i \in 1..(Len(h) - 1) : Front(h)[i] = h[i]
    BY <1>2, <1>3, FrontOf
  <2>2. Len(h) - 1 = Len(g)
    BY <1>2
  <2> QED
    BY <1>2, <2>1, <2>2
<1>5. Front(h) = g
  BY <1>4, SeqEqual
<1> QED
  BY <1>1, <1>2, <1>3, <1>5 DEF h

LEMMA OtherEntry ==
  ASSUME NEW g \in Seq(Group), g # << >>, NEW e \in CondDirective, ~IsHead(e)
  PROVE  /\ AddEntry(g, e) = [g EXCEPT ![Len(g)] = Continued(g[Len(g)], e)]
         /\ AddEntry(g, e) \in Seq(Group) /\ AddEntry(g, e) # << >>
         /\ Len(AddEntry(g, e)) = Len(g)
         /\ AddEntry(g, e)[Len(g)] = Continued(g[Len(g)], e)
         /\ Front(AddEntry(g, e)) = Front(g)
<1> DEFINE h == [g EXCEPT ![Len(g)] = Continued(g[Len(g)], e)]
<1>1. AddEntry(g, e) = h
  BY DEF AddEntry, IsHead, Continued
<1>2. Len(g) \in Nat \ {0} /\ g[Len(g)] \in Group
  BY FrontOf
<1>3. Continued(g[Len(g)], e) \in Group
  BY <1>2 DEF Continued, Group, CondDirective, Selected
<1>4. /\ h \in Seq(Group) /\ Len(h) = Len(g)
      /\ \A i \in 1..Len(g) : i # Len(g) => h[i] = g[i]
      /\ h[Len(g)] = Continued(g[Len(g)], e)
  BY <1>2, <1>3
<1> HIDE DEF h
<1>5. h # << >>
  BY <1>2, <1>4, EmptySeq
<1>6. /\ Front(h) \in Seq(Group) /\ Front(g) \in Seq(Group) /\ Len(Front(h)) = Len(Front(g))
      /\ \A i \in 1..Len(Front(h)) : Front(h)[i] = Front(g)[i]
  BY <1>2, <1>4, <1>5, FrontOf
<1>7. Front(h) = Front(g)
  BY <1>6, SeqEqual
<1> QED
  BY <1>1, <1>4, <1>5, <1>7 DEF h

(* What the nest tells of a stack's top entry, and the entry of the nest.  *)
Described(s) ==
  LET g == GroupsOf(s)
      top == s[Len(s)]
      inner == g[Len(g)]
  IN /\ g \in Seq(Group)
     /\ g = << >> <=> s = << >>
     /\ s # << >> =>
          /\ inner.live = Selected(top)
          /\ inner.last = (top.tag = "ELSE")
          /\ Decides(top) => inner.taken = ~(top.enabled /\ ~top.cond)
          /\ top.enabled => \A i \in 1..Len(Front(g)) : Front(g)[i].live

LEMMA DescribedStep ==
  ASSUME NEW s \in Seq(CondDirective), NEW e \in CondDirective, Described(s),
         OpensGroup(s, e) \/ ContinuesGroup(s, e)
  PROVE  Described(Append(s, e))
<1> DEFINE t == Append(s, e)
           g == GroupsOf(s)
           h == GroupsOf(t)
<1>1. /\ t \in Seq(CondDirective) /\ Len(t) = Len(s) + 1 /\ Len(s) \in Nat
      /\ t[Len(t)] = e
  BY AppendProperties, LenProperties
<1>2. h = AddEntry(g, e)
  BY GroupsStep
<1> HIDE DEF t, h
<1>3. t # << >>
  BY <1>1, EmptySeq
<1>4. g \in Seq(Group)
  BY DEF Described
<1>5. CASE OpensGroup(s, e)
  <2>1. IsHead(e) /\ e.tag # "ELSE"
    BY <1>5 DEF OpensGroup, IsHead, Heads
  <2>2. /\ h \in Seq(Group) /\ h # << >> /\ Front(h) = g
        /\ h[Len(h)] = Opened(e)
    BY <1>2, <1>4, <2>1, HeadEntry
  <2>3. ASSUME e.enabled PROVE \A i \in 1..Len(g) : g[i].live
    <3>1. CASE s = << >>
      <4>1. g = << >> /\ Len(g) = 0
        BY <3>1, EmptySeq DEF Described
      <4> QED
        BY <4>1
    <3>2. CASE s # << >>
      <4>1. Selected(s[Len(s)]) /\ s[Len(s)].enabled
        BY <1>5, <2>3, <3>2 DEF OpensGroup, Selected
      <4>2. g # << >> /\ g[Len(g)].live /\ \A i \in 1..Len(Front(g)) : Front(g)[i].live
        BY <3>2, <4>1 DEF Described
      <4> HIDE DEF g
      <4> QED
        BY <1>4, <4>2, FrontOf, SMTT(30)
    <3> QED
      BY <3>1, <3>2
  <2>4. Opened(e).live = Selected(e) /\ Opened(e).last = FALSE /\ Opened(e).taken = ~(e.enabled /\ ~e.cond)
    BY DEF Opened, CondDirective
  <2> HIDE DEF g
  <2> QED
    BY <1>1, <1>3, <2>1, <2>2, <2>3, <2>4 DEF Described, h, t
<1>6. CASE ContinuesGroup(s, e)
  <2>1. ~IsHead(e) /\ s # << >> /\ e.enabled = s[Len(s)].enabled
    BY <1>6 DEF ContinuesGroup
  <2>2. g # << >>
    BY <2>1 DEF Described
  <2>3. /\ h \in Seq(Group) /\ h # << >> /\ Front(h) = Front(g)
        /\ h[Len(h)] = Continued(g[Len(g)], e)
    BY <1>2, <1>4, <2>1, <2>2, OtherEntry
  <2>4. e.enabled => \A i \in 1..Len(Front(g)) : Front(g)[i].live
    BY <2>1 DEF Described
  <2>5. Continued(g[Len(g)], e).live = Selected(e) /\ Continued(g[Len(g)], e).last = (e.tag = "ELSE")
    BY DEF Continued
  <2>6. Decides(e) => Continued(g[Len(g)], e).taken = ~(e.enabled /\ ~e.cond)
    <3>1. g[Len(g)] \in Group
      BY <1>4, <2>2, FrontOf
    <3>2. Decides(e) => e.cond
      BY <2>1 DEF Decides, IsHead
    <3> QED
      BY <3>1, <3>2 DEF Continued, Group, CondDirective
  <2> HIDE DEF g
  <2> QED
    BY <1>1, <1>3, <2>3, <2>4, <2>5, <2>6 DEF Described, h, t
<1> QED
  BY <1>5, <1>6 DEF t

(* Every well nested stack is described so: by induction over its entries. *)
LEMMA WellNestedDescribed ==
  ASSUME NEW s \in Seq(CondDirective), WellNested(s)
  PROVE  Described(s)
<1> DEFINE p(n) == SubSeq(s, 1, n)
           S == {n \in Nat : n <= Len(s) => Described(p(n))}
<1>1. Len(s) \in Nat /\ DOMAIN s = 1..Len(s) /\ \A i \in 1..Len(s) : s[i] \in CondDirective
  BY LenProperties, ElementOfSeq
<1>2. \A n \in 0..Len(s) : p(n) \in Seq(CondDirective) /\ Len(p(n)) = n /\ \A i \in 1..n : p(n)[i] = s[i]
  BY PrefixWellNested
<1>3. 0 \in S
  <2>1. p(0) = << >>
    BY <1>1, <1>2, EmptySeq
  <2>2. Described(<< >>)
    <3>1. GroupsOf(<< >>) = << >> /\ << >> \in Seq(Group)
      BY GroupsStep, EmptySeq
    <3> QED
      BY <3>1, Zenon DEF Described
  <2> QED
    BY <2>1, <2>2
<1>4. ASSUME NEW n \in S PROVE n + 1 \in S
  <2> SUFFICES ASSUME n + 1 <= Len(s) PROVE Described(p(n + 1))
    OBVIOUS
  <2> DEFINE e == s[n + 1]
             q == p(n)
  <2>1. n \in 0..Len(s) /\ n + 1 \in 1..Len(s) /\ n + 1 \in 0..Len(s) /\ Described(q) /\ n \in Nat
    BY <1>1
  <2>2. e \in CondDirective /\ q \in Seq(CondDirective) /\ Len(q) = n
    BY <1>1, <1>2, <2>1
  <2>3. q # << >> => n \in 1..Len(s) /\ q[n] = s[n]
    BY <1>2, <2>1, <2>2, EmptySeq
  <2>4. p(n + 1) = Append(q, e)
    <3>1. /\ Append(q, e) \in Seq(CondDirective) /\ Len(Append(q, e)) = n + 1
          /\ \A i \in 1..n : Append(q, e)[i] = q[i]
          /\ Append(q, e)[n + 1] = e
      BY <2>2, AppendProperties
    <3>2. /\ p(n + 1) \in Seq(CondDirective) /\ Len(p(n + 1)) = n + 1
          /\ \A i \in 1..(n + 1) : p(n + 1)[i] = s[i]
      BY <1>2, <2>1
    <3>3. \A i \in 1..n : q[i] = s[i]
      BY <1>2, <2>1
    <3> HIDE DEF q, p
    <3>4. \A i \in 1..(n + 1) : p(n + 1)[i] = Append(q, e)[i]
      BY <2>1, <3>1, <3>2, <3>3
    <3> QED
      BY <3>1, <3>2, <3>4, SeqEqual
  <2> HIDE DEF q, p
  <2>5. OpensGroup(q, e) \/ ContinuesGroup(q, e)
    <3>1. CASE IsHead(e)
      <4>1. ASSUME e.enabled, q # << >> PROVE Selected(s[n])
        <5>1. n \in DOMAIN s /\ n + 1 \in DOMAIN s /\ n < n + 1
          BY <1>1, <2>1, <2>3, <4>1
        <5> QED
          BY <3>1, <4>1, <5>1 DEF WellNested, EnclosedBySelected
      <4> QED
        BY <2>2, <2>3, <3>1, <4>1 DEF OpensGroup
    <3>2. CASE ~IsHead(e)
      <4>1. n + 1 \in DOMAIN s /\ (n + 1) - 1 = n
        BY <1>1, <2>1
      <4>2. /\ n + 1 > 1
            /\ e.enabled = s[n].enabled
            /\ s[n].tag # "ELSE"
            /\ ~(Selected(s[n]) /\ Selected(e))
            /\ ~IsHead(s[n]) => Selected(s[n])
        BY <3>2, <4>1 DEF WellNested, FollowsDecider
      <4>3. e.tag = "ELIF" /\ e.cond => e.enabled
        BY <4>1 DEF WellNested, ElifCondLive
      <4>4. q # << >>
        BY <2>1, <2>2, <4>2, EmptySeq
      <4> QED
        BY <2>2, <2>3, <3>2, <4>2, <4>3, <4>4 DEF ContinuesGroup
    <3> QED
      BY <3>1, <3>2
  <2> QED
    BY <2>1, <2>2, <2>4, <2>5, DescribedStep
<1>5. S = Nat
  <2> HIDE DEF S
  <2>1. S \in SUBSET Nat
    BY DEF S
  <2> QED
    BY <1>3, <1>4, <2>1, Counting
<1>6. Described(p(Len(s)))
  BY <1>1, <1>5
<1>7. p(Len(s)) = s
  BY SubSeqFull
<1> QED
  BY <1>6, <1>7
-----------------------------------------------------------------------------
(* What the abstract nest shows of the stack: text is processed when all   *)
(* groups are live, which the top entry tells.                             *)
LEMMA LiveIsNeedExpand ==
  ASSUME IInv
  PROVE  Abstract!Live <=> NeedExpand
<1> DEFINE s == ppCondStack
           g == GroupsOf(s)
<1>1. Described(s)
  BY WellNestedDescribed DEF IInv, TypeOK
<1>2. CASE s = << >>
  <2>1. g = << >> /\ DOMAIN g = {}
    BY <1>1, <1>2, EmptySeq DEF Described
  <2> QED
    BY <1>2, <2>1 DEF Abstract!Live, NeedExpand
<1>3. CASE s # << >>
  <2>1. /\ g \in Seq(Group) /\ g # << >> /\ g[Len(g)].live = Selected(Top)
        /\ Top.enabled => \A i \in 1..Len(Front(g)) : Front(g)[i].live
    BY <1>1, <1>3 DEF Described, Top
  <2> HIDE DEF g
  <2>2. /\ Len(g) \in Nat \ {0} /\ Len(Front(g)) = Len(g) - 1
        /\ \A i \in 1..(Len(g) - 1) : Front(g)[i] = g[i]
        /\ DOMAIN g = 1..Len(g) /\ g[Len(g)] \in Group
    BY <2>1, FrontOf, LenProperties
  <2>3. ASSUME Selected(Top), NEW i \in 1..Len(g) PROVE g[i].live
    <3>1. CASE i = Len(g)
      BY <2>1, <2>3, <3>1
    <3>2. CASE i # Len(g)
      <4>1. i \in 1..(Len(g) - 1)
        BY <2>2, <3>2
      <4>2. Front(g)[i].live /\ Front(g)[i] = g[i]
        BY <2>1, <2>2, <2>3, <4>1 DEF Selected
      <4> QED
        BY <4>2
    <3> QED
      BY <3>1, <3>2
  <2>4. Len(g) \in 1..Len(g)
    BY <2>2
  <2>5. (\A i \in DOMAIN g : g[i].live) <=> Selected(Top)
    BY <2>1, <2>2, <2>3, <2>4
  <2> QED
    BY <1>3, <2>5 DEF Abstract!Live, NeedExpand, Selected, g
<1> QED
  BY <1>2, <1>3

LEMMA PrefixPush ==
  ASSUME NEW s \in Seq(CondDirective), NEW k \in 0..(Len(s) - 1)
  PROVE  /\ SubSeq(s, 1, k) \in Seq(CondDirective) /\ s[k + 1] \in CondDirective
         /\ SubSeq(s, 1, k + 1) = Append(SubSeq(s, 1, k), s[k + 1])
         /\ GroupsOf(SubSeq(s, 1, k + 1)) = AddEntry(GroupsOf(SubSeq(s, 1, k)), s[k + 1])
<1>1. Len(s) \in Nat /\ \A i \in 1..Len(s) : s[i] \in CondDirective
  BY LenProperties, ElementOfSeq
<1> DEFINE p(n) == SubSeq(s, 1, n)
<1>2. ASSUME NEW n \in 0..Len(s)
      PROVE  p(n) \in Seq(CondDirective) /\ Len(p(n)) = n /\ \A i \in 1..n : p(n)[i] = s[i]
  <2>1. n \in Int /\ 1 \in Int /\ \A i \in 1..n : s[i] \in CondDirective
    BY <1>1
  <2>2. /\ p(n) \in Seq(CondDirective)
        /\ Len(p(n)) = IF 1 <= n THEN n - 1 + 1 ELSE 0
        /\ \A i \in 1..n - 1 + 1 : p(n)[i] = s[1 + i - 1]
    BY <2>1, SubSeqProperties
  <2> HIDE DEF p
  <2> QED
    BY <1>1, <2>2
<1>3. k \in 0..Len(s) /\ k + 1 \in 0..Len(s) /\ k + 1 \in 1..Len(s) /\ k \in Nat
  BY <1>1
<1>4. s[k + 1] \in CondDirective
  BY <1>1, <1>3
<1>5. /\ Append(p(k), s[k + 1]) \in Seq(CondDirective) /\ Len(Append(p(k), s[k + 1])) = k + 1
      /\ \A i \in 1..k : Append(p(k), s[k + 1])[i] = s[i]
      /\ Append(p(k), s[k + 1])[k + 1] = s[k + 1]
  <2>1. p(k) \in Seq(CondDirective) /\ Len(p(k)) = k /\ \A i \in 1..k : p(k)[i] = s[i]
    BY <1>2, <1>3
  <2> HIDE DEF p
  <2> QED
    BY <1>4, <2>1, AppendProperties
<1>6. p(k + 1) \in Seq(CondDirective) /\ Len(p(k + 1)) = k + 1 /\ \A i \in 1..(k + 1) : p(k + 1)[i] = s[i]
  BY <1>2, <1>3
<1>7. p(k) \in Seq(CondDirective)
  BY <1>2, <1>3
<1> HIDE DEF p
<1>8. \A i \in 1..(k + 1) : p(k + 1)[i] = Append(p(k), s[k + 1])[i]
  BY <1>3, <1>5, <1>6
<1>9. p(k + 1) = Append(p(k), s[k + 1])
  BY <1>5, <1>6, <1>8, SeqEqual
<1>10. GroupsOf(p(k + 1)) = AddEntry(GroupsOf(p(k)), s[k + 1])
  BY <1>4, <1>7, <1>9, GroupsStep
<1> QED
  BY <1>4, <1>7, <1>9, <1>10 DEF p

(* #elif and #else pop to the decider, and push: to the groups, this       *)
(* replaces the innermost one, which the decider has described.            *)
LEMMA ContinueGroups ==
  ASSUME IInv, ~Misplaced, NEW k \in DOMAIN ppCondStack, Decider(k),
         NEW e \in CondDirective, ~IsHead(e)
  PROVE  LET g == GroupsOf(ppCondStack)
             inner == g[Len(g)]
         IN /\ g # << >> /\ ~inner.last
            /\ inner.taken = ~(ppCondStack[k].enabled /\ ~ppCondStack[k].cond)
            /\ GroupsOf(Append(SubSeq(ppCondStack, 1, k), e))
                 = [g EXCEPT ![Len(g)] = Continued(inner, e)]
<1> DEFINE s == ppCondStack
           p == SubSeq(s, 1, k)
           g == GroupsOf(s)
           gp == GroupsOf(p)
<1>1. /\ s \in Seq(CondDirective) /\ WellNested(s) /\ Len(s) \in Nat /\ DOMAIN s = 1..Len(s)
      /\ \A i \in 1..Len(s) : s[i] \in CondDirective
  BY LenProperties, ElementOfSeq DEF IInv, TypeOK
<1>2. /\ k \in 1..Len(s) /\ Decides(s[k])
      /\ \A j \in (k + 1)..Len(s) : ~Decides(s[j])
      /\ s # << >> /\ s[Len(s)].tag # "ELSE"
  BY <1>1 DEF Decider, Misplaced, Top
<1>3. /\ p \in Seq(CondDirective) /\ Len(p) = k /\ p[k] = s[k] /\ Described(p)
      /\ p # << >>
  <2>1. k \in 0..Len(s) /\ k \in 1..k /\ k # 0
    BY <1>1, <1>2
  <2>2. /\ p \in Seq(CondDirective) /\ Len(p) = k /\ \A i \in 1..k : p[i] = s[i]
        /\ WellNested(p)
    BY <1>1, <2>1, PrefixWellNested
  <2> HIDE DEF p
  <2>3. p # << >>
    BY <2>1, <2>2, EmptySeq
  <2> QED
    BY <2>1, <2>2, <2>3, WellNestedDescribed
<1>4. Described(s)
  BY <1>1, WellNestedDescribed
<1>5. gp \in Seq(Group) /\ gp # << >> /\ gp[Len(gp)].taken = ~(s[k].enabled /\ ~s[k].cond)
  <2> HIDE DEF p, s
  <2> QED
    BY <1>2, <1>3 DEF Described
<1>6. g # << >> /\ ~g[Len(g)].last
  <2> HIDE DEF s
  <2> QED
    BY <1>2, <1>4 DEF Described
<1>7. GroupsOf(Append(p, e)) = [gp EXCEPT ![Len(gp)] = Continued(gp[Len(gp)], e)]
  <2>1. GroupsOf(Append(p, e)) = AddEntry(gp, e)
    <3> HIDE DEF p
    <3> QED
      BY <1>3, GroupsStep
  <2> HIDE DEF gp
  <2> QED
    BY <1>5, <2>1, OtherEntry
<1>8. CASE k = Len(s)
  <2>1. p = s
    BY <1>1, <1>8, SubSeqFull
  <2>2. gp = g
    BY <2>1
  <2> HIDE DEF s, p, g, gp
  <2>3. /\ g # << >> /\ ~g[Len(g)].last
        /\ g[Len(g)].taken = ~(s[k].enabled /\ ~s[k].cond)
        /\ GroupsOf(Append(p, e)) = [g EXCEPT ![Len(g)] = Continued(g[Len(g)], e)]
    BY <1>5, <1>6, <1>7, <2>2, Zenon
  <2> QED
    BY <2>3, Zenon DEF s, p, g
<1>9. CASE k # Len(s)
  <2>1. k + 1 \in DOMAIN s /\ ~Decides(s[k + 1]) /\ k \in 0..(Len(s) - 1) /\ k + 1 \in (k + 1)..Len(s)
    BY <1>1, <1>2, <1>9
  <2>2. ~IsHead(s[k + 1]) /\ ~s[k + 1].cond
    BY <2>1 DEF Decides, IsHead
  <2>3. Len(s) = k + 1
    <3> SUFFICES ASSUME k + 2 \in 1..Len(s) PROVE FALSE
      BY <1>1, <2>1
    <3>1. k + 2 \in DOMAIN s /\ k + 2 \in (k + 1)..Len(s) /\ (k + 2) - 1 = k + 1
      BY <1>1, <1>2
    <3>2. ~IsHead(s[k + 2])
      BY <1>2, <3>1 DEF Decides, IsHead
    <3>3. ~IsHead(s[k + 1]) => Selected(s[k + 1])
      BY <1>1, <3>1, <3>2 DEF WellNested, FollowsDecider
    <3> QED
      BY <2>2, <3>3 DEF Selected
  <2>4. g = AddEntry(gp, s[k + 1]) /\ s[k + 1] \in CondDirective
    <3>1. SubSeq(s, 1, k + 1) = s
      BY <1>1, <2>3, SubSeqFull
    <3> HIDE DEF s
    <3> QED
      BY <1>1, <2>1, <3>1, PrefixPush
  <2> HIDE DEF s, g, gp, p
  <2>5. /\ g = [gp EXCEPT ![Len(gp)] = Continued(gp[Len(gp)], s[k + 1])]
        /\ Len(g) = Len(gp)
        /\ g[Len(g)] = Continued(gp[Len(gp)], s[k + 1])
    BY <1>5, <2>2, <2>4, OtherEntry
  <2>6. gp[Len(gp)] \in Group
    BY <1>5, FrontOf
  <2>7. g[Len(g)].taken = gp[Len(gp)].taken
    BY <2>2, <2>4, <2>5, <2>6 DEF Continued, Group, CondDirective
  <2>8. Continued(g[Len(g)], e) = Continued(gp[Len(gp)], e)
    BY <2>7 DEF Continued
  <2>9. [g EXCEPT ![Len(g)] = Continued(g[Len(g)], e)]
          = [gp EXCEPT ![Len(gp)] = Continued(gp[Len(gp)], e)]
    BY <2>5, <2>8, Zenon
  <2> QED
    BY <1>5, <1>6, <1>7, <2>7, <2>9 DEF s, g, p
<1> QED
  BY <1>8, <1>9

(* #endif pops through the head, which closes the innermost group.         *)
LEMMA CloseGroups ==
  ASSUME IInv, NEW k \in DOMAIN ppCondStack, IsHead(ppCondStack[k]),
         \A j \in (k + 1)..Len(ppCondStack) : ~IsHead(ppCondStack[j])
  PROVE  /\ GroupsOf(ppCondStack) # << >>
         /\ GroupsOf(SubSeq(ppCondStack, 1, k - 1)) = Front(GroupsOf(ppCondStack))
<1> DEFINE s == ppCondStack
           G(n) == GroupsOf(SubSeq(s, 1, n))
           S == {n \in Nat : k + n <= Len(s) => Front(G(k + n)) = G(k - 1)}
<1>1. s \in Seq(CondDirective) /\ WellNested(s) /\ Len(s) \in Nat /\ k \in 1..Len(s)
  BY LenProperties DEF IInv, TypeOK
<1>2. \A n \in 1..Len(s) : G(n) \in Seq(Group) /\ G(n) # << >>
  <2> TAKE n \in 1..Len(s)
  <2> DEFINE p == SubSeq(s, 1, n)
  <2>1. n \in 0..Len(s) /\ n # 0
    BY <1>1
  <2>2. p \in Seq(CondDirective) /\ Len(p) = n /\ Described(p)
    BY <1>1, <2>1, PrefixWellNested, WellNestedDescribed
  <2> HIDE DEF p
  <2>3. p # << >>
    BY <2>1, <2>2, EmptySeq
  <2>4. GroupsOf(p) \in Seq(Group) /\ GroupsOf(p) # << >>
    BY <2>2, <2>3 DEF Described
  <2> QED
    BY <2>4 DEF p
<1>3. 0 \in S
  <2>1. k - 1 \in 0..(Len(s) - 1) /\ (k - 1) + 1 = k /\ k - 1 \in 0..Len(s) /\ k + 0 = k
    BY <1>1
  <2>2. s[k] \in CondDirective /\ G(k) = AddEntry(G(k - 1), s[k])
    BY <1>1, <2>1, PrefixPush
  <2>3. G(k - 1) \in Seq(Group)
    BY <1>1, <2>1, PrefixWellNested, WellNestedDescribed DEF Described
  <2> HIDE DEF G
  <2>4. Front(G(k)) = G(k - 1)
    BY <2>2, <2>3, HeadEntry
  <2> QED
    BY <2>1, <2>4
<1>4. ASSUME NEW n \in S PROVE n + 1 \in S
  <2> SUFFICES ASSUME k + (n + 1) <= Len(s) PROVE Front(G(k + (n + 1))) = G(k - 1)
    OBVIOUS
  <2> DEFINE m == k + n
  <2>1. m + 1 = k + (n + 1) /\ m \in 0..(Len(s) - 1) /\ m \in 1..Len(s) /\ m + 1 \in (k + 1)..Len(s)
    BY <1>1
  <2>2. Front(G(m)) = G(k - 1)
    BY <2>1
  <2> HIDE DEF m
  <2>3. s[m + 1] \in CondDirective /\ G(m + 1) = AddEntry(G(m), s[m + 1])
    BY <1>1, <2>1, PrefixPush
  <2>4. ~IsHead(s[m + 1])
    BY <2>1
  <2>5. G(m) \in Seq(Group) /\ G(m) # << >>
    BY <1>2, <2>1
  <2> HIDE DEF G
  <2>6. Front(G(m + 1)) = Front(G(m))
    BY <2>3, <2>4, <2>5, OtherEntry
  <2> QED
    BY <2>1, <2>2, <2>6
<1>5. S = Nat
  <2> HIDE DEF S
  <2>1. S \in SUBSET Nat
    BY DEF S
  <2> QED
    BY <1>3, <1>4, <2>1, Counting
<1>6. Front(G(Len(s))) = G(k - 1)
  <2>1. Len(s) - k \in S
    BY <1>1, <1>5
  <2>2. k + (Len(s) - k) = Len(s)
    BY <1>1
  <2> HIDE DEF G
  <2> QED
    BY <1>1, <2>1, <2>2
<1>7. SubSeq(s, 1, Len(s)) = s
  BY <1>1, SubSeqFull
<1>8. GroupsOf(s) # << >>
  <2>1. Len(s) \in 1..Len(s)
    BY <1>1
  <2>2. G(Len(s)) # << >>
    BY <1>2, <2>1, Zenon
  <2> QED
    BY <1>7, <2>2
<1> QED
  BY <1>6, <1>7, <1>8
-----------------------------------------------------------------------------
(* Every directive does to the nest what its abstract counterpart does.    *)
LEMMA OpenRefines ==
  ASSUME IInv, NEW e \in CondDirective, IsHead(e), Push(e),
         NeedExpand => e.enabled, ~NeedExpand => ~e.enabled
  PROVE  Abstract!Open(e.cond)
<1> DEFINE s == ppCondStack
           g == GroupsOf(s)
<1>1. s \in Seq(CondDirective) /\ g \in Seq(Group)
  BY WellNestedDescribed DEF IInv, TypeOK, Described
<1>2. GroupsOf(Append(s, e)) = Append(g, Opened(e))
  <2>1. GroupsOf(Append(s, e)) = AddEntry(g, e)
    BY <1>1, GroupsStep
  <2> HIDE DEF g
  <2> QED
    BY <1>1, <2>1, HeadEntry
<1>3. Opened(e) = IF NeedExpand THEN [live |-> e.cond, taken |-> e.cond, last |-> FALSE]
                  ELSE [live |-> FALSE, taken |-> TRUE, last |-> FALSE]
  <2>1. e.enabled \in BOOLEAN /\ e.cond \in BOOLEAN
    BY DEF CondDirective
  <2>2. CASE NeedExpand
    BY <2>1, <2>2 DEF Opened, Selected
  <2>3. CASE ~NeedExpand
    BY <2>1, <2>3 DEF Opened, Selected
  <2> QED
    BY <2>2, <2>3
<1>4. Opened(e) = IF Abstract!Live THEN [live |-> e.cond, taken |-> e.cond, last |-> FALSE]
                  ELSE [live |-> FALSE, taken |-> TRUE, last |-> FALSE]
  BY <1>3, LiveIsNeedExpand, Zenon
<1>5. /\ GroupsOf(ppCondStack') = GroupsOf(Append(s, e))
      /\ status = "reading" /\ UNCHANGED <<macroMap, kept, status>>
  BY DEF Push, PushOn
<1> QED
  BY <1>2, <1>4, <1>5, Zenon DEF Abstract!Open

LEMMA ElifRefines ==
  ASSUME IInv, NEW out \in Outcomes, ParseElif(out)
  PROVE  Abstract!Reject \/ \E cond \in BOOLEAN : Abstract!ElseIf(cond)
<1>1. CASE Error
  BY <1>1 DEF Error, Abstract!Reject
<1>2. CASE ~Error
  <2>1. ~Misplaced
    BY <1>2 DEF ParseElif
  <2>2. PICK k \in DOMAIN ppCondStack :
          Decider(k) /\ PushOn(SubSeq(ppCondStack, 1, k), ElifEntry(ppCondStack[k], out))
    BY <1>2, <2>1 DEF ParseElif
  <2> DEFINE d == ppCondStack[k]
             e == ElifEntry(d, out)
             g == GroupsOf(ppCondStack)
             inner == g[Len(g)]
             sel == (out = "true") /\ ~inner.taken
  <2>3. d \in CondDirective
    BY <2>1, <2>2, DeciderFits
  <2>4. /\ e \in CondDirective /\ ~IsHead(e) /\ e.tag = "ELIF"
        /\ e.cond = (d.enabled /\ out = "true" /\ ~d.cond) /\ Selected(e) = e.cond
    BY <2>3 DEF ElifEntry, Entry, CondDirective, Tags, Heads, IsHead, Selected
  <2> HIDE DEF e
  <2>5. /\ g # << >> /\ ~inner.last
        /\ inner.taken = ~(d.enabled /\ ~d.cond)
        /\ GroupsOf(Append(SubSeq(ppCondStack, 1, k), e)) = [g EXCEPT ![Len(g)] = Continued(inner, e)]
    BY <2>1, <2>2, <2>4, ContinueGroups
  <2> HIDE DEF g
  <2>6. Continued(inner, e) = [live |-> sel, taken |-> sel \/ inner.taken, last |-> FALSE]
    <3>1. e.cond = sel
      BY <2>4, <2>5
    <3>2. (inner.taken \/ e.cond) = (sel \/ inner.taken)
      BY <3>1
    <3>3. (e.tag = "ELSE") = FALSE
      BY <2>4
    <3> HIDE DEF sel, inner
    <3> QED
      BY <2>4, <3>1, <3>2, <3>3, Zenon DEF Continued
  <2>7. GroupsOf(ppCondStack')
          = [g EXCEPT ![Len(g)] = [live |-> sel, taken |-> sel \/ inner.taken, last |-> FALSE]]
    BY <2>2, <2>5, <2>6 DEF PushOn, e
  <2>8. status = "reading" /\ UNCHANGED <<macroMap, kept, status>>
    BY <2>2 DEF PushOn
  <2>9. Abstract!ElseIf(out = "true")
    BY <2>5, <2>7, <2>8, Zenon DEF Abstract!ElseIf, Abstract!Innermost, Abstract!ReplaceInnermost, g
  <2> QED
    BY <2>9
<1> QED
  BY <1>1, <1>2

LEMMA ElseRefines ==
  ASSUME IInv, NEW well \in BOOLEAN, ParseElse(well)
  PROVE  Abstract!Reject \/ Abstract!Else
<1>1. CASE Error
  BY <1>1 DEF Error, Abstract!Reject
<1>2. CASE ~Error
  <2>1. ~Misplaced
    BY <1>2 DEF ParseElse
  <2>2. PICK k \in DOMAIN ppCondStack :
          Decider(k) /\ PushOn(SubSeq(ppCondStack, 1, k),
                               Entry("ELSE", ppCondStack[k].enabled, ~ppCondStack[k].cond))
    BY <1>2, <2>1 DEF ParseElse
  <2> DEFINE d == ppCondStack[k]
             e == Entry("ELSE", d.enabled, ~d.cond)
             g == GroupsOf(ppCondStack)
             inner == g[Len(g)]
  <2>3. d \in CondDirective
    BY <2>1, <2>2, DeciderFits
  <2>4. /\ e \in CondDirective /\ ~IsHead(e) /\ e.tag = "ELSE"
        /\ e.cond = ~d.cond /\ Selected(e) = (d.enabled /\ ~d.cond)
    BY <2>3 DEF Entry, CondDirective, Tags, Heads, IsHead, Selected
  <2> HIDE DEF e
  <2>5. /\ g # << >> /\ ~inner.last
        /\ inner.taken = ~(d.enabled /\ ~d.cond)
        /\ GroupsOf(Append(SubSeq(ppCondStack, 1, k), e)) = [g EXCEPT ![Len(g)] = Continued(inner, e)]
    BY <2>1, <2>2, <2>4, ContinueGroups
  <2> HIDE DEF g
  <2>6. Continued(inner, e) = [live |-> ~inner.taken, taken |-> TRUE, last |-> TRUE]
    <3>1. Selected(e) = ~inner.taken
      BY <2>4, <2>5
    <3>2. (inner.taken \/ e.cond) = TRUE
      BY <2>4, <2>5
    <3>3. (e.tag = "ELSE") = TRUE
      BY <2>4
    <3> HIDE DEF inner
    <3> QED
      BY <3>1, <3>2, <3>3, Zenon DEF Continued
  <2>7. GroupsOf(ppCondStack')
          = [g EXCEPT ![Len(g)] = [live |-> ~inner.taken, taken |-> TRUE, last |-> TRUE]]
    BY <2>2, <2>5, <2>6 DEF PushOn, e
  <2>8. status = "reading" /\ UNCHANGED <<macroMap, kept, status>>
    BY <2>2 DEF PushOn
  <2> QED
    BY <2>5, <2>7, <2>8, Zenon DEF Abstract!Else, Abstract!Innermost, Abstract!ReplaceInnermost, g
<1> QED
  BY <1>1, <1>2

LEMMA EndifRefines ==
  ASSUME IInv, NEW well \in BOOLEAN, ParseEndif(well)
  PROVE  Abstract!Reject \/ Abstract!Close
<1>1. CASE Error
  BY <1>1 DEF Error, Abstract!Reject
<1>2. CASE ~Error
  <2>1. PICK k \in DOMAIN ppCondStack :
          /\ ppCondStack[k].tag \in Heads
          /\ \A j \in (k + 1)..Len(ppCondStack) : ppCondStack[j].tag \notin Heads
          /\ PopTo(k - 1)
    BY <1>2 DEF ParseEndif
  <2> DEFINE g == GroupsOf(ppCondStack)
  <2>2. g # << >> /\ GroupsOf(SubSeq(ppCondStack, 1, k - 1)) = Front(g)
    BY <2>1, CloseGroups DEF IsHead
  <2>3. GroupsOf(ppCondStack') = SubSeq(g, 1, Len(g) - 1)
    BY <2>1, <2>2 DEF PopTo, Front
  <2>4. status = "reading" /\ UNCHANGED <<macroMap, kept, status>>
    BY <2>1 DEF PopTo
  <2> QED
    BY <2>2, <2>3, <2>4, Zenon DEF Abstract!Close
<1> QED
  BY <1>1, <1>2

LEMMA DefRefines ==
  ASSUME IInv, NEW n \in Names, NEW well \in BOOLEAN, ParseDef(n, well) \/ ParseUndef(n, well)
  PROVE  Abstract!Reject \/ Abstract!Define(n) \/ Abstract!Undefine(n)
<1>1. CASE Error
  BY <1>1 DEF Error, Abstract!Reject
<1>2. CASE Ignore /\ (~NeedExpand \/ macroMap[n] = "pre")
  BY <1>2, LiveIsNeedExpand DEF Ignore, vars, Abstract!Undefine
<1>3. CASE NeedExpand /\ SetMacro(n, "user")
  BY <1>3, LiveIsNeedExpand DEF SetMacro, Abstract!Define
<1>4. CASE NeedExpand /\ macroMap[n] # "pre" /\ SetMacro(n, "none")
  BY <1>4, LiveIsNeedExpand DEF SetMacro, Abstract!Undefine
<1> QED
  BY <1>1, <1>2, <1>3, <1>4 DEF ParseDef, ParseUndef

LEMMA StepRefines == IInv /\ [Next]_vars => [Abstract!Next]_(Abstract!vars)
<1> SUFFICES ASSUME IInv, Next PROVE Abstract!Next
  BY DEF vars, Abstract!vars
<1>1. ASSUME NEW e \in CondDirective, IsHead(e), Push(e),
             NeedExpand => e.enabled, ~NeedExpand => ~e.enabled
      PROVE  Abstract!Next
  <2>1. e.cond \in BOOLEAN /\ Abstract!Open(e.cond)
    BY <1>1, OpenRefines DEF CondDirective
  <2> QED
    BY <2>1 DEF Abstract!Next
<1>2. ASSUME Error PROVE Abstract!Next
  BY <1>2 DEF Error, Abstract!Reject, Abstract!Next
<1>3. ASSUME NEW out \in Outcomes, ParseIf(out) PROVE Abstract!Next
  <2>1. Entry("IF", FALSE, FALSE) \in CondDirective /\ Entry("IF", TRUE, out = "true") \in CondDirective
    BY DEF Entry, CondDirective, Tags, Heads
  <2>2. /\ IsHead(Entry("IF", FALSE, FALSE)) /\ IsHead(Entry("IF", TRUE, out = "true"))
        /\ ~Entry("IF", FALSE, FALSE).enabled /\ Entry("IF", TRUE, out = "true").enabled
    BY DEF Entry, IsHead, Heads
  <2> QED
    BY <1>1, <1>2, <1>3, <2>1, <2>2 DEF ParseIf
<1>4. ASSUME NEW tag \in {"IFDEF", "IFNDEF"}, NEW n \in Names, NEW well \in BOOLEAN,
             ParseIfdef(tag, n, well)
      PROVE  Abstract!Next
  <2> DEFINE skipped == Entry(tag, FALSE, tag = "IFNDEF")
             read == Entry(tag, TRUE, (tag = "IFDEF") = FindMacro(n))
  <2>1. skipped \in CondDirective /\ read \in CondDirective
    BY DEF Entry, CondDirective, Tags, Heads
  <2>2. IsHead(skipped) /\ IsHead(read) /\ ~skipped.enabled /\ read.enabled
    BY DEF Entry, IsHead, Heads
  <2>3. (Push(skipped) /\ ~NeedExpand) \/ Error \/ (Push(read) /\ NeedExpand)
    BY <1>4 DEF ParseIfdef
  <2> HIDE DEF skipped, read
  <2> QED
    BY <1>1, <1>2, <2>1, <2>2, <2>3
<1>5. ASSUME NEW out \in Outcomes, ParseElif(out) PROVE Abstract!Next
  BY <1>5, ElifRefines DEF Abstract!Next
<1>6. ASSUME NEW well \in BOOLEAN, ParseElse(well) \/ ParseEndif(well) PROVE Abstract!Next
  BY <1>6, ElseRefines, EndifRefines DEF Abstract!Next
<1>7. ASSUME NEW n \in Names, NEW well \in BOOLEAN, ParseDef(n, well) \/ ParseUndef(n, well)
      PROVE  Abstract!Next
  BY <1>7, DefRefines DEF Abstract!Next
<1>8. CASE TextLine
  BY <1>8, LiveIsNeedExpand DEF TextLine, Abstract!Text, Abstract!Next
<1>9. CASE EndOfInput
  BY <1>9 DEF EndOfInput, Abstract!EndOfFile, Abstract!Next
<1> QED
  BY <1>2, <1>3, <1>4, <1>5, <1>6, <1>7, <1>8, <1>9 DEF Next, ParseFatal

(* The stack of directives (ppCondStack_ of cpp.h) implements the nest of  *)
(* groups that C promises, for any macros and directives in any order.     *)
THEOREM GroupsImplemented == Spec => ImplementsGroups
<1>1. Init => Abstract!Init
  BY GroupsStep DEF Init, Abstract!Init
<1> QED
  BY <1>1, StepRefines, StackInvariant, PTL DEF Spec, ImplementsGroups, Abstract!Spec
=============================================================================
