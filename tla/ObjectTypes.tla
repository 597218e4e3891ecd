---------------------------- MODULE ObjectTypes ---------------------------
(***************************************************************************)
(* Complete object types as the initializers see them: integers, arrays    *)
(* whose elements may be arrays, structs and unions with bit-fields and    *)
(* unnamed members.  Types maps the name of a type to a record:            *)
(*   kind     "integer", "array", "struct" or "union"                      *)
(*   width    in bytes, but for arrays                                     *)
(*   elem, len   of an array; Unknown if it was declared without a length  *)
(*   members  a sequence of records with a name, a type, an offset in      *)
(*            bytes, for a bit-field its first bit and its width (else 0), *)
(*            and whether it is an unnamed struct or union                 *)
(* The offset of a member of an unnamed struct is relative to the struct   *)
(* that is around it, as StructType::MergeAnony leaves it.                 *)
(***************************************************************************)
EXTENDS Integers, Sequences, FiniteSetsExt

CONSTANT Types

Unknown == -1
ByteBits == 8

Kind(t) == Types[t].kind
IsInteger(t) == Kind(t) = "integer"
IsArray(t) == Kind(t) = "array"
IsStruct(t) == Kind(t) \in {"struct", "union"}
StructTypes == {t \in DOMAIN Types : IsStruct(t)}
IsChar(t) == IsInteger(t) /\ Types[t].width = 1

Elem(t) == Types[t].elem
Complete(t) == IsArray(t) => Types[t].len # Unknown
Members(t) == Types[t].members

RECURSIVE Width(_)
Width(t) == IF IsArray(t) THEN Types[t].len * Width(Elem(t)) ELSE Types[t].width

\* The names GetMember finds: those of unnamed members are among them.
RECURSIVE HasMember(_, _)
HasMember(t, name) ==
  \E i \in DOMAIN Members(t) :
    LET m == Members(t)[i]
    IN  IF m.anonymous THEN HasMember(m.type, name) ELSE m.name = name

\* The member, named or not, through which a name is reached.
MemberFor(t, name) ==
  CHOOSE i \in DOMAIN Members(t) :
    LET m == Members(t)[i]
    IN  IF m.anonymous THEN HasMember(m.type, name) ELSE m.name = name
=============================================================================
