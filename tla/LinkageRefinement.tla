------------------------- MODULE LinkageRefinement ------------------------
(***************************************************************************)
(* The declarations of the parser implement Linkage, but for those named   *)
(* as gaps: what an identifier denotes, and what is emitted for a name     *)
(* with linkage.                                                           *)
(***************************************************************************)
EXTENDS Declarations

CONSTANT Gaps      \* which of the differences are left out

Written(t) ==
  CASE t.shape = "array" -> IF ~t.complete THEN "int[]" ELSE IF t.len = 2 THEN "int[2]" ELSE "int[-1]"
    [] t.shape = "function" -> "int(int)"
    [] OTHER -> t.shape

TypeWritten(i) == Written(types[idents[i].type])

KindOf(i) ==
  CASE idents[i].class = "enumerator" -> "enumerator"
    [] idents[i].class = "object" -> "object"
    [] OTHER -> IF IsTypeName(i) THEN "typedef" ELSE "function"

Denoted(i) ==
  IF i = Nothing THEN [kind |-> "none", linkage |-> "none", type |-> "int"]
  ELSE [kind |-> KindOf(i), linkage |-> idents[i].linkage, type |-> TypeWritten(i)]

\* The identifiers of one name with linkage, and what is emitted for it.
Linked(n) == {i \in DOMAIN idents : idents[i].name = n /\ idents[i].linkage # "none"}
Emitted(n) == {e \in Range(unit) : Emits(e) /\ e.ident \in Linked(n)}

StateOf(n) ==
  CASE body.ident \in Linked(n) -> "defined"
    [] \E e \in Emitted(n) : Assembly(e).form \in {"text", "data"} -> "defined"
    [] OTHER -> IF Emitted(n) = {} THEN "none" ELSE "tentative"

LinkedAs(n) ==
  IF Linked(n) = {} THEN [linkage |-> "none", type |-> "int", state |-> "none"]
  ELSE LET shown == {TypeWritten(i) : i \in Linked(n)}
       IN [linkage |-> IF \E i, j \in Linked(n) : idents[i].linkage # idents[j].linkage THEN "mixed"
                       ELSE CHOOSE l \in Linkages : \A i \in Linked(n) : idents[i].linkage = l,
           type |-> IF "int[2]" \in shown THEN "int[2]" ELSE CHOOSE t \in shown : TRUE,
           state |-> StateOf(n)]

Scoped == [k \in DOMAIN scopes |-> [n \in Ordinary |-> Denoted(scopes[k].map[n])]]
AllLinked == [n \in Ordinary |-> LinkedAs(n)]
LastRead == [declaration |-> latest, number |-> read]
WasRefused == status = "error"

Standard ==
  INSTANCE Linkage WITH
    Names <- Ordinary, env <- Scoped, linked <- AllLinked, last <- LastRead, refused <- WasRefused

(***************************************************************************)
(* Where the parser is known to differ from the standard, by name.  A run  *)
(* skips the declarations of the differences in Gaps.                      *)
(***************************************************************************)
Outer(d) == IF Own(d) = Nothing THEN Find(scopes, d.name) ELSE Nothing
IsOpen(t) == t.shape = "array" /\ ~t.complete

\* A name with linkage is compared with what it hides, of no linkage.
HiddenCompared(d) ==
  Searches(d) /\ Outer(d) # Nothing /\ idents[Outer(d)].linkage = "none" /\ ConflictsWith(Outer(d), NewType(d))

\* A typedef of the name of an object, a function or an enumerator of the
\* type, or of a typedef of an array of another length, is ignored.
TypedefIgnored(d) ==
  /\ d.storage = "typedef" /\ Own(d) # Nothing
  /\ ~ConflictsWith(Own(d), NewType(d))
  /\ ~(IsTypeName(Own(d)) /\ TypeWritten(Own(d)) = Written(NewType(d)))

\* An array completed by a later declaration, of its scope or, for a name
\* that is not in scope, of another, keeps its length of -1.
LengthLost(d) ==
  /\ d.storage # "typedef" /\ NewType(d).shape = "array" /\ NewType(d).complete
  /\ \/ Own(d) # Nothing /\ IsOpen(OwnType(d))
     \/ /\ Searches(d) /\ Find(scopes, d.name) = Nothing
        /\ external[d.name] # Nothing /\ IsOpen(types[idents[external[d.name]].type])

\* An array tentatively defined without a length is never defined.
TentativeDropped(d) ==
  /\ AtFile /\ d.storage = "none" /\ ~d.init /\ IsOpen(NewType(d))
  /\ Own(d) = Nothing \/ IsOpen(OwnType(d))

\* extern in a block does not take over the length of the array outside.
LengthNotInherited(d) ==
  /\ Searches(d) /\ Outer(d) # Nothing /\ idents[Outer(d)].linkage # "none"
  /\ IsOpen(NewType(d)) /\ ~IsOpen(types[idents[Outer(d)].type])

\* A function is taken for defined that shares the type of one that is, by a typedef.
BodyShared(d) ==
  /\ d.form = "definition" /\ Own(d) # Nothing
  /\ OwnType(d).complete /\ Own(d) \notin DefinedFunctions

\* A typedef may have a body.
TypedefBody(d) == d.form = "definition" /\ d.storage = "typedef"

Skipped(d) ==
  \/ "HiddenCompared" \in Gaps /\ HiddenCompared(d)
  \/ "TypedefIgnored" \in Gaps /\ TypedefIgnored(d)
  \/ "LatePrototype" \in Gaps /\ LatePrototype(d)
  \/ "LengthLost" \in Gaps /\ LengthLost(d)
  \/ "TentativeDropped" \in Gaps /\ TentativeDropped(d)
  \/ "LengthNotInherited" \in Gaps /\ LengthNotInherited(d)
  \/ "BodyShared" \in Gaps /\ BodyShared(d)
  \/ "TypedefBody" \in Gaps /\ TypedefBody(d)

Wanted(d) == Standard!Meaningful(d) /\ ~(d.form # "enumerator" /\ Skipped(d))

Read ==
  /\ status = "parsing" /\ read < MaxRead
  /\ \E d \in Inputs : (Declare(d) \/ Enumerate(d) \/ Define(d)) /\ Wanted(d)

DeclarationsNext == Read \/ EnterBlock \/ LeaveBlock
DeclarationsSpec == Init /\ [][DeclarationsNext]_vars

(* A declaration ends the compiler if and only if it breaks a constraint   *)
(* of the standard.  Otherwise its name denotes what C11 6.2.2 says: with  *)
(* the linkage of the declaration it can see, merged with the one of its   *)
(* scope and hiding those outside; what is emitted for a name with linkage *)
(* defines it if and only if the unit does.                                *)
ImplementsLinkage ==
  Standard!Init /\ [][Standard!Next \/ ~DeclarationsNext]_(Standard!vars)
=============================================================================
