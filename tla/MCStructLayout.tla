-------------------------- MODULE MCStructLayout --------------------------
(***************************************************************************)
(* Two types, each of which may be nested in the other, of up to four      *)
(* members together: chars and ints, possibly aligned to 2, and bit-fields *)
(* of the widths at which units fill up.                                   *)
(***************************************************************************)
EXTENDS StructLayout

CONSTANTS char, int, s1, s2

MCStructs == {s1, s2}
MCScalars == {char, int}
MCWidth == (char :> 1) @@ (int :> 4)
MCMax == (s1 :> 1) @@ (s2 :> 3)
=============================================================================
