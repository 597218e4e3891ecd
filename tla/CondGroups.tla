---------------------------- MODULE CondGroups ----------------------------
(***************************************************************************)
(* What the conditional directives of the preprocessor promise (C11 6.10.1,*)
(* the standard README.md names as the goal): a nest of groups, of which   *)
(* each lets through at most one of its branches, and a table of macros    *)
(* that only live text may change.  CondStack, the program's own stack of  *)
(* directives, is shown to implement it.                                   *)
(*                                                                         *)
(* A group is live while its current branch is the selected one, taken     *)
(* once some branch was selected (or none ever can be, because the group   *)
(* lies in skipped text) and last once its #else was seen.                 *)
(***************************************************************************)
EXTENDS Naturals, Sequences

CONSTANTS
  Names,         \* macro names
  Predefined     \* those of them the preprocessor defines before the first line

VARIABLES
  groups,        \* the open groups, innermost last
  macros,        \* macros[n] \in MacroStates
  kept,          \* what became of the last text line: kept, dropped or none
  status         \* "reading", "done" or "rejected"

vars == <<groups, macros, kept, status>>

\* Not defined, defined by the program, predefined.
MacroStates == {"none", "user", "pre"}

Group == [live : BOOLEAN, taken : BOOLEAN, last : BOOLEAN]

TypeOK ==
  /\ groups \in Seq(Group)
  /\ macros \in [Names -> MacroStates]
  /\ kept \in {"none", "kept", "dropped"}
  /\ status \in {"reading", "done", "rejected"}

Init ==
  /\ groups = << >>
  /\ macros = [n \in Names |-> IF n \in Predefined THEN "pre" ELSE "none"]
  /\ kept = "none"
  /\ status = "reading"

-----------------------------------------------------------------------------
\* Text is processed when every group around it is live, however deep.
Live == \A i \in DOMAIN groups : groups[i].live

Defined(n) == macros[n] # "none"

Innermost == groups[Len(groups)]

ReplaceInnermost(g) == groups' = [groups EXCEPT ![Len(groups)] = g]

(* #if, #ifdef and #ifndef: open a group.  In skipped text no branch of it *)
(* can be selected any more.                                               *)
Open(cond) ==
  /\ status = "reading"
  /\ groups' = Append(groups,
                      IF Live THEN [live |-> cond, taken |-> cond, last |-> FALSE]
                              ELSE [live |-> FALSE, taken |-> TRUE, last |-> FALSE])
  /\ UNCHANGED <<macros, kept, status>>

OpenIfdef(n) == Open(Defined(n))
OpenIfndef(n) == Open(~Defined(n))

(* #elif: selected when its condition holds and no branch was before.      *)
ElseIf(cond) ==
  /\ status = "reading"
  /\ groups # << >>
  /\ ~Innermost.last
  /\ LET sel == cond /\ ~Innermost.taken
     IN ReplaceInnermost([live |-> sel, taken |-> sel \/ Innermost.taken, last |-> FALSE])
  /\ UNCHANGED <<macros, kept, status>>

(* #else: selected when no branch was before.                              *)
Else ==
  /\ status = "reading"
  /\ groups # << >>
  /\ ~Innermost.last
  /\ ReplaceInnermost([live |-> ~Innermost.taken, taken |-> TRUE, last |-> TRUE])
  /\ UNCHANGED <<macros, kept, status>>

Close ==
  /\ status = "reading"
  /\ groups # << >>
  /\ groups' = SubSeq(groups, 1, Len(groups) - 1)
  /\ UNCHANGED <<macros, kept, status>>

Define(n) ==
  /\ status = "reading"
  /\ macros' = IF Live THEN [macros EXCEPT ![n] = "user"] ELSE macros
  /\ UNCHANGED <<groups, kept, status>>

Undefine(n) ==
  /\ status = "reading"
  /\ macros' = IF Live /\ macros[n] # "pre" THEN [macros EXCEPT ![n] = "none"] ELSE macros
  /\ UNCHANGED <<groups, kept, status>>

Text ==
  /\ status = "reading"
  /\ kept' = IF Live THEN "kept" ELSE "dropped"
  /\ UNCHANGED <<groups, macros, status>>

EndOfFile ==
  /\ status = "reading"
  /\ status' = "done"
  /\ UNCHANGED <<groups, macros, kept>>

(* A line that does not fit the nest, or is malformed, ends the run.        *)
Reject ==
  /\ status = "reading"
  /\ status' = "rejected"
  /\ UNCHANGED <<groups, macros, kept>>

Next ==
  \/ \E cond \in BOOLEAN : Open(cond) \/ ElseIf(cond)
  \/ \E n \in Names : OpenIfdef(n) \/ OpenIfndef(n) \/ Define(n) \/ Undefine(n)
  \/ Else
  \/ Close
  \/ Text
  \/ EndOfFile
  \/ Reject

Spec == Init /\ [][Next]_vars
=============================================================================
