--------------------------- MODULE StmtLowering ---------------------------
(***************************************************************************)
(* How the parser lowers the statements of a function body to tests, jumps *)
(* and labels (ParseStmt and what it calls in src/src/parser.cc; the jumps *)
(* of an if are the generator's, VisitIfStmt of src/src/code_gen.cc).      *)
(*                                                                         *)
(* The recursive descent is a stack of open statements.  One action reads  *)
(* what opens a statement, or all of a simple one, and another closes an   *)
(* open one when its last substatement is complete.  Which statement comes *)
(* is the input.  The parser returns lists of statements that the          *)
(* generator emits in order, so code is appended to as parsing proceeds.   *)
(***************************************************************************)
EXTENDS Integers, Sequences

CONSTANTS
  LabelNames,    \* identifiers used as labels
  CaseRanges,    \* <<first, last>> of case first ... last
  Statements(_), \* bound on the kinds of statement that may come next
  MaxStmts       \* bound on their number

ASSUME CaseRangesAssumption == CaseRanges \subseteq Int \X Int
ASSUME MaxStmtsAssumption == MaxStmts \in Nat \ {0}

VARIABLES
  source,        \* the statements read so far, each with its place in the tree
  code,          \* what they are lowered to
  open,          \* the statements being parsed, the innermost last
  dests,         \* breakDest_, continueDest_, caseLabels_ and defaultLabel_
  curLabels,     \* curLabels_: the LabelStmt of each label seen
  unresolvedJumps, \* unresolvedJumps_: labels and the jumps to them in code
  status         \* what the parser does next, or how it ended

vars == <<source, code, open, dests, curLabels, unresolvedJumps, status>>

\* A for without a condition is a kind of its own.
Loops == {"while", "do", "for", "forever"}
BreakTargets == Loops \cup {"switch"}
Kinds == BreakTargets \cup {"block", "expr", "return", "if", "case", "default",
                            "break", "continue", "goto", "label"}
Nodes == 0..MaxStmts

\* A LabelStmt: the statement that made it and what it stands for there.
NoLabel == <<0, "none">>
LabelRoles == {"none", "cond", "step", "begin", "end", "else", "test", "label"}
Labels == Nodes \X LabelRoles
Roles == LabelRoles \cup {"expr", "return", "init", "switch", "match"}

Top == open[Len(open)]
Below == SubSeq(open, 1, Len(open) - 1)
Node == Len(source) + 1

-----------------------------------------------------------------------------
(* The code: eval is an expression evaluated, test one that jumps when it  *)
(* is 0, match a comparison with the switched value that jumps on equality.*)
Instr(op, at, to, value) == [op |-> op, at |-> at, to |-> to, value |-> value]
Eval(role, n) == Instr("eval", <<n, role>>, NoLabel, 0)
Test(n, to) == Instr("test", <<n, "test">>, to, 0)
Match(n, to, value) == Instr("match", <<n, "match">>, to, value)
Jump(to) == Instr("jump", NoLabel, to, 0)
Label(l) == Instr("label", l, NoLabel, 0)

NoCases == [switch |-> 0, list |-> << >>]
NoDests == [breakDest |-> NoLabel, continueDest |-> NoLabel,
            caseLabels |-> NoCases, defaultLabel |-> NoLabel]

DestsType == [breakDest : Labels, continueDest : Labels,
              caseLabels : [switch : Nodes, list : Seq(Int \X Labels)],
              defaultLabel : Labels]

Args == {<< >>} \cup LabelNames \cup CaseRanges
Statement == [kind : Kinds, parent : Nodes, branch : {1, 2}, arg : Args]
Instruction == [op : {"eval", "test", "match", "jump", "label"},
                at : Nodes \X Roles, to : Labels, value : Int]
OpenStatement == [node : Nodes, kind : Kinds, branch : {1, 2}, saved : DestsType]

Frame(n, kind) == [node |-> n, kind |-> kind, branch |-> 1, saved |-> dests]

TypeOK ==
  /\ source \in Seq(Statement)
  /\ code \in Seq(Instruction)
  /\ open \in Seq(OpenStatement)
  /\ dests \in DestsType
  /\ curLabels \in [LabelNames -> Labels]
  /\ unresolvedJumps \subseteq LabelNames \X Nat
  /\ status \in {"stmt", "close", "noelse", "done", "rejected", "crashed"}

\* The function's body, block 1, is open from the start.
Init ==
  /\ source = << [kind |-> "block", parent |-> 0, branch |-> 1, arg |-> << >>] >>
  /\ code = << >>
  /\ dests = NoDests
  /\ open = << [node |-> 1, kind |-> "block", branch |-> 1, saved |-> NoDests] >>
  /\ curLabels = [name \in LabelNames |-> NoLabel]
  /\ unresolvedJumps = {}
  /\ status = "stmt"

(* After a statement, a block looks for the next one; any other parent is  *)
(* at its end, where ifs ask whether the next token is else.               *)
StatusIn(stack, ahead) == IF stack[Len(stack)].kind = "block" THEN "stmt" ELSE ahead

Error ==
  /\ status' = "rejected"
  /\ UNCHANGED <<source, code, open, dests, curLabels, unresolvedJumps>>

Read(kind, arg) ==
  /\ status = "stmt"
  /\ kind \in Statements(source)
  /\ Len(source) < MaxStmts
  /\ source' = Append(source, [kind |-> kind, parent |-> Top.node,
                               branch |-> Top.branch, arg |-> arg])

\* A statement without substatements.
Simple(kind, arg, instrs) ==
  /\ Read(kind, arg)
  /\ code' = code \o instrs
  /\ status' = StatusIn(open, "close")
  /\ UNCHANGED <<open, dests>>

\* A statement with one: its head is read, the substatement follows.
Begin(kind, arg, instrs, inside) ==
  /\ Read(kind, arg)
  /\ code' = code \o instrs
  /\ open' = Append(open, Frame(Node, kind))
  /\ dests' = inside
  /\ UNCHANGED status

\* The end of an open statement, with the token after it known not to be an
\* else if it was looked at.
Finish(kind, instrs, outside, ahead) ==
  /\ status \in {"close", "noelse"}
  /\ Top.kind = kind
  /\ code' = code \o instrs
  /\ open' = Below
  /\ dests' = outside
  /\ status' = StatusIn(Below, ahead)
  /\ UNCHANGED source

-----------------------------------------------------------------------------
ParseExprStmt ==
  /\ Simple("expr", << >>, <<Eval("expr", Node)>>)
  /\ UNCHANGED <<curLabels, unresolvedJumps>>

ParseReturnStmt ==
  /\ Simple("return", << >>, <<Eval("return", Node)>>)
  /\ UNCHANGED <<curLabels, unresolvedJumps>>

ParseBreakStmt ==
  /\ IF dests.breakDest = NoLabel
       THEN status = "stmt" /\ Error
       ELSE Simple("break", << >>, <<Jump(dests.breakDest)>>)
  /\ UNCHANGED <<curLabels, unresolvedJumps>>

ParseContinueStmt ==
  /\ IF dests.continueDest = NoLabel
       THEN status = "stmt" /\ Error
       ELSE Simple("continue", << >>, <<Jump(dests.continueDest)>>)
  /\ UNCHANGED <<curLabels, unresolvedJumps>>

ParseGotoStmt(name) ==
  /\ Simple("goto", name, <<Jump(curLabels[name])>>)
  /\ unresolvedJumps' = IF curLabels[name] # NoLabel THEN unresolvedJumps
                        ELSE unresolvedJumps \cup {<<name, Len(code) + 1>>}
  /\ UNCHANGED curLabels

(* A label is placed before its statement, but known only after it.        *)
ParseLabelStmt(name) ==
  /\ Begin("label", name, <<Label(<<Node, "label">>)>>, dests)
  /\ UNCHANGED <<curLabels, unresolvedJumps>>

EndLabelStmt ==
  /\ status \in {"close", "noelse"} /\ Top.kind = "label"
  /\ LET name == source[Top.node].arg
     IN IF curLabels[name] # NoLabel
          THEN Error
          ELSE /\ Finish("label", << >>, dests, status)
               /\ curLabels' = [curLabels EXCEPT ![name] = <<Top.node, "label">>]
               /\ UNCHANGED unresolvedJumps

-----------------------------------------------------------------------------
(* ENTER_LOOP_BODY and ENTER_SWITCH_BODY set what break, continue, case    *)
(* and default refer to; the EXITs restore what they set.                  *)
EnterLoopBody(breakDest, continueDest) ==
  [dests EXCEPT !.breakDest = breakDest, !.continueDest = continueDest]

ExitLoopBody ==
  [dests EXCEPT !.breakDest = Top.saved.breakDest,
                !.continueDest = Top.saved.continueDest]

\* A bug to be caught: a switch in a default keeps the label of that.
EnterSwitchBodyKeepingDefault(breakDest, n) ==
  [dests EXCEPT !.breakDest = breakDest,
                !.caseLabels = [switch |-> n, list |-> << >>]]

EnterSwitchBody(breakDest, n) ==
  [dests EXCEPT !.breakDest = breakDest,
                !.caseLabels = [switch |-> n, list |-> << >>],
                !.defaultLabel = NoLabel]

\* A bug to be caught: breakDest_ is restored for loops only.
ExitSwitchBodyKeepingBreak ==
  [dests EXCEPT !.caseLabels = Top.saved.caseLabels,
                !.defaultLabel = Top.saved.defaultLabel]

ExitSwitchBody ==
  [dests EXCEPT !.breakDest = Top.saved.breakDest,
                !.caseLabels = Top.saved.caseLabels,
                !.defaultLabel = Top.saved.defaultLabel]

ParseCompoundStmt ==
  /\ Begin("block", << >>, << >>, dests)
  /\ UNCHANGED <<curLabels, unresolvedJumps>>

EndCompoundStmt ==
  /\ status = "stmt"
  /\ Top.kind = "block"
  /\ Len(open) > 1
  /\ open' = Below
  /\ status' = StatusIn(Below, "close")
  /\ UNCHANGED <<source, code, dests, curLabels, unresolvedJumps>>

(* VisitIfStmt of the generator names the label after a then without else  *)
(* endLabel; here it is the else label at the same place.                  *)
ParseIfStmt ==
  /\ Begin("if", << >>, <<Test(Node, <<Node, "else">>)>>, dests)
  /\ UNCHANGED <<curLabels, unresolvedJumps>>

\* A bug to be caught: nothing jumps over the else branch.
ElseFallenInto ==
  /\ status = "close"
  /\ Top.kind = "if" /\ Top.branch = 1
  /\ code' = code \o <<Label(<<Top.node, "else">>)>>
  /\ open' = [open EXCEPT ![Len(open)].branch = 2]
  /\ status' = "stmt"
  /\ UNCHANGED <<source, dests, curLabels, unresolvedJumps>>

Else ==
  /\ status = "close"
  /\ Top.kind = "if" /\ Top.branch = 1
  /\ code' = code \o <<Jump(<<Top.node, "end">>), Label(<<Top.node, "else">>)>>
  /\ open' = [open EXCEPT ![Len(open)].branch = 2]
  /\ status' = "stmt"
  /\ UNCHANGED <<source, dests, curLabels, unresolvedJumps>>

EndIfStmt ==
  /\ status \in {"close", "noelse"}
  /\ IF Top.branch = 1
       THEN Finish("if", <<Label(<<Top.node, "else">>)>>, dests, "noelse")
       ELSE Finish("if", <<Label(<<Top.node, "end">>)>>, dests, status)
  /\ UNCHANGED <<curLabels, unresolvedJumps>>

ParseWhileStmt ==
  /\ Begin("while", << >>, <<Label(<<Node, "cond">>), Test(Node, <<Node, "end">>)>>,
           EnterLoopBody(<<Node, "end">>, <<Node, "cond">>))
  /\ UNCHANGED <<curLabels, unresolvedJumps>>

EndWhileStmt ==
  /\ Finish("while", <<Jump(<<Top.node, "cond">>), Label(<<Top.node, "end">>)>>,
            ExitLoopBody, status)
  /\ UNCHANGED <<curLabels, unresolvedJumps>>

(* In a do body, continue goes to beginLabel; condLabel is never used.     *)
ParseDoStmt ==
  /\ Begin("do", << >>, <<Label(<<Node, "begin">>)>>,
           EnterLoopBody(<<Node, "end">>, <<Node, "begin">>))
  /\ UNCHANGED <<curLabels, unresolvedJumps>>

EndDoStmt ==
  /\ Finish("do", <<Label(<<Top.node, "cond">>), Test(Top.node, <<Top.node, "end">>),
                    Jump(<<Top.node, "begin">>), Label(<<Top.node, "end">>)>>,
            ExitLoopBody, "close")
  /\ UNCHANGED <<curLabels, unresolvedJumps>>

ParseForStmt(kind) ==
  /\ Begin(kind, << >>,
           <<Eval("init", Node), Label(<<Node, "cond">>)>>
             \o (IF kind = "for" THEN <<Test(Node, <<Node, "end">>)>> ELSE << >>),
           EnterLoopBody(<<Node, "end">>, <<Node, "step">>))
  /\ UNCHANGED <<curLabels, unresolvedJumps>>

EndForStmt(kind) ==
  /\ Finish(kind, <<Label(<<Top.node, "step">>), Eval("step", Top.node),
                    Jump(<<Top.node, "cond">>), Label(<<Top.node, "end">>)>>,
            ExitLoopBody, status)
  /\ UNCHANGED <<curLabels, unresolvedJumps>>

ParseSwitchStmt ==
  /\ Begin("switch", << >>, <<Eval("switch", Node), Jump(<<Node, "test">>)>>,
           EnterSwitchBody(<<Node, "end">>, Node))
  /\ UNCHANGED <<curLabels, unresolvedJumps>>

EndSwitchStmt ==
  /\ LET cases == dests.caseLabels.list
     IN Finish("switch",
               <<Jump(<<Top.node, "end">>), Label(<<Top.node, "test">>)>>
                 \o [i \in DOMAIN cases |-> Match(Top.node, cases[i][2], cases[i][1])]
                 \o (IF dests.defaultLabel = NoLabel THEN << >>
                     ELSE <<Jump(dests.defaultLabel)>>)
                 \o <<Label(<<Top.node, "end">>)>>,
               ExitSwitchBody, status)
  /\ UNCHANGED <<curLabels, unresolvedJumps>>

(* Every value of a case range gets an entry of its own.  Outside a switch *)
(* caseLabels_ is null, and a range that is not empty dereferences it.     *)
ParseCaseStmt(range) ==
  /\ IF dests.caseLabels.switch = 0 /\ range[1] <= range[2]
       THEN /\ status = "stmt"
            /\ status' = "crashed"
            /\ UNCHANGED <<source, code, open, dests>>
       ELSE Begin("case", range, <<Label(<<Node, "label">>)>>,
                  [dests EXCEPT !.caseLabels.list =
                     @ \o [i \in 1..(range[2] - range[1] + 1) |->
                             <<range[1] + i - 1, <<Node, "label">> >>]])
  /\ UNCHANGED <<curLabels, unresolvedJumps>>

(* A default outside a switch is accepted.                                 *)
ParseDefaultStmt ==
  /\ IF dests.defaultLabel # NoLabel
       THEN status = "stmt" /\ Error
       ELSE Begin("default", << >>, <<Label(<<Node, "label">>)>>,
                  [dests EXCEPT !.defaultLabel = <<Node, "label">>])
  /\ UNCHANGED <<curLabels, unresolvedJumps>>

EndCaseStmt(kind) ==
  /\ Finish(kind, << >>, dests, status)
  /\ UNCHANGED <<curLabels, unresolvedJumps>>

\* A bug to be caught: jumps still unresolved are left as they are.
ExitFuncUnresolved ==
  /\ status = "stmt"
  /\ Len(open) = 1
  /\ unresolvedJumps' = {}
  /\ curLabels' = [name \in LabelNames |-> NoLabel]
  /\ open' = << >>
  /\ status' = "done"
  /\ UNCHANGED <<source, code, dests>>

(* The end of the function: gotos to labels that came later are resolved.  *)
ExitFunc ==
  /\ status = "stmt"
  /\ Len(open) = 1
  /\ IF \E jump \in unresolvedJumps : curLabels[jump[1]] = NoLabel
       THEN Error
       ELSE /\ code' = [i \in DOMAIN code |->
                          IF \E name \in LabelNames : <<name, i>> \in unresolvedJumps
                            THEN Jump(curLabels[CHOOSE name \in LabelNames :
                                                  <<name, i>> \in unresolvedJumps])
                            ELSE code[i]]
            /\ unresolvedJumps' = {}
            /\ curLabels' = [name \in LabelNames |-> NoLabel]
            /\ open' = << >>
            /\ status' = "done"
            /\ UNCHANGED <<source, dests>>

Next ==
  \/ ParseExprStmt \/ ParseReturnStmt \/ ParseBreakStmt \/ ParseContinueStmt
  \/ \E name \in LabelNames : ParseGotoStmt(name) \/ ParseLabelStmt(name)
  \/ ParseCompoundStmt \/ EndCompoundStmt \/ EndLabelStmt
  \/ ParseIfStmt \/ Else \/ EndIfStmt
  \/ ParseWhileStmt \/ EndWhileStmt \/ ParseDoStmt \/ EndDoStmt
  \/ \E kind \in {"for", "forever"} : ParseForStmt(kind) \/ EndForStmt(kind)
  \/ ParseSwitchStmt \/ EndSwitchStmt
  \/ (\E range \in CaseRanges : ParseCaseStmt(range)) \/ ParseDefaultStmt
  \/ \E kind \in {"case", "default"} : EndCaseStmt(kind)
  \/ ExitFunc

Spec == Init /\ [][Next]_vars
-----------------------------------------------------------------------------
Innermost(kinds, k, stack) ==
  stack[k].kind \in kinds /\ \A j \in (k + 1)..Len(stack) : stack[j].kind \notin kinds

NoneOf(kinds, stack) == \A k \in DOMAIN stack : stack[k].kind \notin kinds

\* d is right for a statement inside those of stack.
RightInside(d, stack) ==
  /\ \A k \in DOMAIN stack :
       /\ Innermost(BreakTargets, k, stack) => d.breakDest = <<stack[k].node, "end">>
       /\ Innermost(Loops, k, stack) => d.continueDest[1] = stack[k].node
       /\ Innermost({"switch"}, k, stack) =>
            /\ d.caseLabels.switch = stack[k].node
            /\ d.defaultLabel = NoLabel \/ d.defaultLabel[1] > stack[k].node
  /\ NoneOf(BreakTargets, stack) => d.breakDest = NoLabel
  /\ NoneOf(Loops, stack) => d.continueDest = NoLabel
  /\ NoneOf({"switch"}, stack) => d.caseLabels.switch = 0

Parsing == status \in {"stmt", "close", "noelse"}

(* While a statement is parsed, break and continue refer to the innermost  *)
(* open loop or switch, and to nothing outside of one, and case labels and *)
(* default to the innermost open switch: what the ENTER macros set the     *)
(* EXIT macros restore, whichever statements come between.                 *)
DestsInnermost == Parsing => RightInside(dests, open)

(* Inductive: what each open statement saved is right outside of it.       *)
WellSaved(stack) ==
  /\ stack # << >> /\ stack[1].kind = "block"
  /\ \A k \in DOMAIN stack : /\ stack[k].node <= Len(source)
                             /\ RightInside(stack[k].saved, SubSeq(stack, 1, k - 1))

IInv == TypeOK /\ DestsInnermost /\ (Parsing => WellSaved(open))
=============================================================================
