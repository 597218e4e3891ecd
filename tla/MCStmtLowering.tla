-------------------------- MODULE MCStmtLowering --------------------------
(***************************************************************************)
(* Functions of a few statements with one label: all kinds of statement in *)
(* short ones, and longer ones of the kinds that make up a switch.         *)
(***************************************************************************)
EXTENDS StmtFlow

MCCaseRanges == {<<1, 1>>, <<2, 3>>, <<2, 1>>}
MCCaseRange == {<<1, 2>>}
Short == 6
SwitchKinds == {"block", "switch", "case", "default", "break", "while"}
MCStatements(text) ==
  CASE Len(text) < Short -> Kinds
    [] Len(text) >= Short /\ \A i \in 1..Len(text) : text[i].kind \in SwitchKinds -> SwitchKinds
    [] OTHER -> {}
=============================================================================
