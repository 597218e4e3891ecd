---------------------------- MODULE MCTokenSeq ----------------------------
(***************************************************************************)
(* TokenSeq on lists of a few tokens: files that are empty, blank, or do   *)
(* not end their last line, and macros with an empty replacement.          *)
(***************************************************************************)
EXTENDS TokenSeq

CONSTANTS x, y

MCIds == {x, y}

MCSources == {<< >>, <<x>>, <<NL, x, NL, NL, y>>, <<x, y, NL, x, NL>>}
MCHeaders == {<< >>, <<y>>, <<NL, x, NL, y>>}
MCExpansions == {<< >>, <<y>>, <<x, y>>}
=============================================================================
