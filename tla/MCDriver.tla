----------------------------- MODULE MCDriver -----------------------------
(***************************************************************************)
(* The driver on three input files, whose names may or may not collide, in *)
(* every mode and with every mix of source and object files.               *)
(***************************************************************************)
EXTENDS Driver
=============================================================================
