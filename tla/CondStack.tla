---------------------------- MODULE CondStack -----------------------------
(***************************************************************************)
(* The preprocessor's stack of conditional directives and its macro table  *)
(* (src/src/cpp.h, src/src/cpp.cc).  The program keeps one entry per       *)
(* directive, not per group: #elif and #else push a further entry on top   *)
(* of their #if, #endif pops back through it, and whether text is          *)
(* processed is decided by the top entry alone.                            *)
(*                                                                         *)
(* One action per directive, for a line in live or in skipped text.  What  *)
(* the line says is an input: an Outcome for a condition, well for whether *)
(* the rest of the line is well formed.  Error() prints and exits, so a    *)
(* rejected run makes no further step.                                     *)
(***************************************************************************)
EXTENDS Naturals, Sequences

CONSTANTS
  Names,         \* macro names
  Predefined,    \* those Init() adds
  MaxStack       \* bound on the entries of ppCondStack_

ASSUME NamesAssumption == Predefined \subseteq Names
ASSUME MaxStackAssumption == MaxStack \in Nat

VARIABLES
  ppCondStack,   \* ppCondStack_, the top last
  macroMap,      \* macroMap_: absent, or present with its preDef_ flag
  kept,          \* what became of the last text line
  status         \* reading, done at the end of the input, rejected by Error()

vars == <<ppCondStack, macroMap, kept, status>>

Heads == {"IF", "IFDEF", "IFNDEF"}
Tags == Heads \cup {"ELIF", "ELSE"}
CondDirective == [tag : Tags, enabled : BOOLEAN, cond : BOOLEAN]
MacroStates == {"none", "user", "pre"}

\* What evaluating the rest of an #if or #elif line gives.
Outcomes == {"true", "false", "malformed"}

TypeOK ==
  /\ ppCondStack \in Seq(CondDirective)
  /\ macroMap \in [Names -> MacroStates]
  /\ kept \in {"none", "kept", "dropped"}
  /\ status \in {"reading", "done", "rejected"}

Init ==
  /\ ppCondStack = << >>
  /\ macroMap = [n \in Names |-> IF n \in Predefined THEN "pre" ELSE "none"]
  /\ kept = "none"
  /\ status = "reading"

-----------------------------------------------------------------------------
Entry(tag, enabled, cond) == [tag |-> tag, enabled |-> enabled, cond |-> cond]

Top == ppCondStack[Len(ppCondStack)]

NeedExpand == ppCondStack # << >> => Top.enabled /\ Top.cond

FindMacro(n) == macroMap[n] # "none"

Error ==
  /\ status = "reading"
  /\ status' = "rejected"
  /\ UNCHANGED <<ppCondStack, macroMap, kept>>

PushOn(stack, e) ==
  /\ status = "reading"
  /\ Len(stack) < MaxStack
  /\ ppCondStack' = Append(stack, e)
  /\ UNCHANGED <<macroMap, kept, status>>

Push(e) == PushOn(ppCondStack, e)

-----------------------------------------------------------------------------
(* #if.  A skipped one is not evaluated, so it cannot be malformed.        *)
\* A bug to be caught: the condition of a nested #if evaluated in skipped text.
ParseIfUnguarded(out) ==
  IF out = "malformed" THEN Error ELSE Push(Entry("IF", TRUE, out = "true"))

ParseIf(out) ==
  IF ~NeedExpand THEN Push(Entry("IF", FALSE, FALSE))
  ELSE IF out = "malformed" THEN Error
  ELSE Push(Entry("IF", TRUE, out = "true"))

(* #ifdef, and #ifndef, which parses as #ifdef and then flips the entry:   *)
(* in skipped text its cond is TRUE and only enabled keeps it dead.        *)
\* A bug to be caught: the flip of #ifndef overwrites the entry's enabled flag.
ParseIfdefReenabled(tag, n, well) ==
  IF ~NeedExpand THEN Push(Entry(tag, tag = "IFNDEF", tag = "IFNDEF"))
  ELSE IF ~well THEN Error
  ELSE Push(Entry(tag, TRUE, (tag = "IFDEF") = FindMacro(n)))

ParseIfdef(tag, n, well) ==
  IF ~NeedExpand THEN Push(Entry(tag, FALSE, tag = "IFNDEF"))
  ELSE IF ~well THEN Error
  ELSE Push(Entry(tag, TRUE, (tag = "IFDEF") = FindMacro(n)))

(* #elif and #else pop down to the entry that decides the group: its head  *)
(* or the branch already taken.                                            *)
\* A bug to be caught: the loop forgets that the branch taken may be an #elif.
DecidesHeadOnly(e) == e.tag \in Heads

Decides(e) == e.tag \in Heads \/ e.cond

Decider(k) ==
  /\ k \in DOMAIN ppCondStack
  /\ Decides(ppCondStack[k])
  /\ \A j \in (k + 1)..Len(ppCondStack) : ~Decides(ppCondStack[j])

NoDecider == \A k \in DOMAIN ppCondStack : ~Decides(ppCondStack[k])

Misplaced == ppCondStack = << >> \/ Top.tag = "ELSE" \/ NoDecider

\* A bug to be caught: a second #elif with a true condition is let through.
ElifEntryAgain(e, out) == Entry("ELIF", e.enabled, e.enabled /\ out = "true")

ElifEntry(e, out) ==
  Entry("ELIF", e.enabled, e.enabled /\ out = "true" /\ ~e.cond)

(* The condition of an #elif in live text is evaluated even if an earlier  *)
(* branch was taken.                                                       *)
ParseElif(out) ==
  IF Misplaced THEN Error
  ELSE \E k \in DOMAIN ppCondStack :
         /\ Decider(k)
         /\ IF ppCondStack[k].enabled /\ out = "malformed"
              THEN Error
              ELSE PushOn(SubSeq(ppCondStack, 1, k), ElifEntry(ppCondStack[k], out))

ParseElse(well) ==
  IF ~well \/ Misplaced THEN Error
  ELSE \E k \in DOMAIN ppCondStack :
         /\ Decider(k)
         /\ PushOn(SubSeq(ppCondStack, 1, k),
                   Entry("ELSE", ppCondStack[k].enabled, ~ppCondStack[k].cond))

(* #endif pops through the head of the innermost group.                    *)
PopTo(k) ==
  /\ status = "reading"
  /\ ppCondStack' = SubSeq(ppCondStack, 1, k)
  /\ UNCHANGED <<macroMap, kept, status>>

NoHead == \A j \in DOMAIN ppCondStack : ppCondStack[j].tag \notin Heads

ParseEndif(well) ==
  IF ~well \/ NoHead THEN Error
  ELSE \E k \in DOMAIN ppCondStack :
         /\ ppCondStack[k].tag \in Heads
         /\ \A j \in (k + 1)..Len(ppCondStack) : ppCondStack[j].tag \notin Heads
         /\ PopTo(k - 1)

-----------------------------------------------------------------------------
(* #define and #undef count in live text only.  AddMacro replaces an       *)
(* existing macro whatever its preDef_ flag, RemoveMacro spares one whose  *)
(* flag is set.                                                            *)
SetMacro(n, state) ==
  /\ status = "reading"
  /\ macroMap' = [macroMap EXCEPT ![n] = state]
  /\ UNCHANGED <<ppCondStack, kept, status>>

Ignore ==
  /\ status = "reading"
  /\ UNCHANGED vars

\* A bug to be caught: #define obeyed in a skipped group.
ParseDefAnywhere(n, well) == IF well THEN SetMacro(n, "user") ELSE Error

ParseDef(n, well) ==
  IF ~NeedExpand THEN Ignore ELSE IF well THEN SetMacro(n, "user") ELSE Error

ParseUndef(n, well) ==
  IF ~NeedExpand THEN Ignore
  ELSE IF ~well THEN Error
  ELSE IF macroMap[n] = "pre" THEN Ignore
  ELSE SetMacro(n, "none")

(* #error, and a malformed #include, #line or #pragma.                     *)
ParseFatal == NeedExpand /\ Error

(* A line that is not a directive: Expand passes its tokens on or discards *)
(* them.                                                                   *)
TextLine ==
  /\ status = "reading"
  /\ kept' = IF NeedExpand THEN "kept" ELSE "dropped"
  /\ UNCHANGED <<ppCondStack, macroMap, status>>

(* The end of the input is not checked against the stack: a group left     *)
(* open is accepted.                                                       *)
EndOfInput ==
  /\ status = "reading"
  /\ status' = "done"
  /\ UNCHANGED <<ppCondStack, macroMap, kept>>

Next ==
  \/ \E out \in Outcomes : ParseIf(out) \/ ParseElif(out)
  \/ \E tag \in {"IFDEF", "IFNDEF"}, n \in Names, well \in BOOLEAN : ParseIfdef(tag, n, well)
  \/ \E well \in BOOLEAN : ParseElse(well) \/ ParseEndif(well)
  \/ \E n \in Names, well \in BOOLEAN : ParseDef(n, well) \/ ParseUndef(n, well)
  \/ ParseFatal
  \/ TextLine
  \/ EndOfInput

Spec == Init /\ [][Next]_vars
-----------------------------------------------------------------------------
IsHead(e) == e.tag \in Heads
Selected(e) == e.enabled /\ e.cond

\* The entries that stand for the current branches of the open groups.
EndsSegment(s, i) == i = Len(s) \/ IsHead(s[i + 1])
EveryGroupLive ==
  \A i \in DOMAIN ppCondStack : EndsSegment(ppCondStack, i) => Selected(ppCondStack[i])

(* NeedExpand looks at the top entry only (cpp.h).  That is sound because  *)
(* the current entries of all enclosing groups agree with it: text is      *)
(* processed exactly when every open group is in its selected branch.      *)
TopDecides == NeedExpand <=> EveryGroupLive

(* ParseElif and ParseElse leave a group at most three entries, of which   *)
(* at most one is selected: a chain of #elif of any length takes bounded   *)
(* stack, and no two branches of a group are let through while both are    *)
(* remembered.                                                             *)
SegmentShape ==
  \A i \in DOMAIN ppCondStack : ~IsHead(ppCondStack[i]) =>
    /\ i > 1
    /\ ~(Selected(ppCondStack[i - 1]) /\ Selected(ppCondStack[i]))
    /\ ~IsHead(ppCondStack[i - 1]) =>
         Selected(ppCondStack[i - 1]) /\ i > 2 /\ IsHead(ppCondStack[i - 2])

(* The inductive invariant behind both: an #elif or #else entry sits on    *)
(* the entry that decides its group and shares its enabled flag, nothing   *)
(* sits on an #else but a nested group, and an enabled entry has only      *)
(* selected branches around its group.                                     *)
FollowsDecider(s) ==
  \A i \in DOMAIN s : ~IsHead(s[i]) =>
    /\ i > 1
    /\ s[i].enabled = s[i - 1].enabled
    /\ s[i - 1].tag # "ELSE"
    /\ ~(Selected(s[i - 1]) /\ Selected(s[i]))
    /\ ~IsHead(s[i - 1]) => Selected(s[i - 1])
ElifCondLive(s) == \A i \in DOMAIN s : s[i].tag = "ELIF" /\ s[i].cond => s[i].enabled
EnclosedBySelected(s) ==
  \A i, j \in DOMAIN s : i < j /\ s[j].enabled /\ IsHead(s[i + 1]) => Selected(s[i])
WellNested(s) == FollowsDecider(s) /\ ElifCondLive(s) /\ EnclosedBySelected(s)
IInv == TypeOK /\ WellNested(ppCondStack)

(* No line in skipped text touches the macro table.                        *)
SkippedTextIsInert ==
  [][macroMap' # macroMap => EveryGroupLive]_vars
-----------------------------------------------------------------------------
\* The nest of groups after an entry more: a head opens a group, another
\* entry is the current branch of the innermost one.
AddEntry(groups, e) ==
  LET n == Len(groups)
  IN IF e.tag \in Heads
       THEN Append(groups, [live |-> Selected(e), taken |-> e.enabled => e.cond, last |-> FALSE])
       ELSE [groups EXCEPT ![n] = [live |-> Selected(e),
                                   taken |-> @.taken \/ e.cond,
                                   last |-> e.tag = "ELSE"]]

GroupsOf(s) ==
  LET nest[i \in 0..Len(s)] == IF i = 0 THEN << >> ELSE AddEntry(nest[i - 1], s[i])
  IN nest[Len(s)]

Abstract ==
  INSTANCE CondGroups WITH
    groups <- GroupsOf(ppCondStack),
    macros <- macroMap

(* The stack of directives implements the nest of groups of CondGroups: at *)
(* most one branch of a group is ever let through, exactly one with #else, *)
(* and skipped text changes nothing.                                       *)
ImplementsGroups == Abstract!Spec
=============================================================================
