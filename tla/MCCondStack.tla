---------------------------- MODULE MCCondStack ---------------------------
(***************************************************************************)
(* CondStack with one macro that is predefined and one that is not.        *)
(***************************************************************************)
EXTENDS CondStack
=============================================================================
