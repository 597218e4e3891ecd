---------------------------- MODULE Alignment ----------------------------
(***************************************************************************)
(* Type::MakeAlign of src/src/type.h: struct members, the stack frame and  *)
(* the arguments of calls are placed with it.  Offsets below the frame     *)
(* pointer are negative and are rounded away from it.  C's remainder of a  *)
(* negative offset is the one below less align, so that the two cases that *)
(* move the offset are plain roundings up and down here.                   *)
(***************************************************************************)
EXTENDS Integers

MakeAlign(offset, align) ==
  IF offset % align = 0 THEN offset
  ELSE IF offset >= 0 THEN offset + align - (offset % align)
  ELSE offset - (offset % align)

Larger(a, b) == IF a >= b THEN a ELSE b
=============================================================================
