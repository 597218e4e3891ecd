------------------------------- MODULE MCTags -----------------------------
(***************************************************************************)
(* Translation units of two sorts, each with what it is compared with:     *)
(* declarations of the names x and y with Linkage, and specifiers of the   *)
(* tags S and T with TagSpaces.  In the latter a few declarations, none of *)
(* which is refused, make the names and the block that are needed around   *)
(* the specifiers.                                                         *)
(***************************************************************************)
EXTENDS Tags, LinkageRefinement

CONSTANTS x, y, S, T, TagGaps, MaxAround

VARIABLE about   \* the sort of the unit: "names" or "tags"

MCNames == {x, y, S, T}
MCKeys == {S, T}

Declared(name, type, storage, init) ==
  [form |-> "declaration", name |-> name, type |-> type, storage |-> storage, init |-> init, param |-> NoName]

\* x is declared in every way, y as a typedef, a function or an int.
MCInputs ==
  {Declared(x, t, s, FALSE) : t \in {"int", "int[]", "int(int)", y}, s \in {"none", "static", "extern", "typedef"}}
  \cup {Declared(x, "int[2]", s, FALSE) : s \in {"none", "extern"}}
  \cup {Declared(x, t, s, TRUE) : t \in {"int", "int[]", y}, s \in {"none", "static", "extern"}}
  \cup {Declared(y, t, "typedef", FALSE) : t \in {"int", "int[]", "int(int)"}}
  \cup {Declared(y, t, "none", FALSE) : t \in {"int", "int(int)", y}}
  \cup {[Declared(x, "int(int)", s, FALSE) EXCEPT !.form = "definition", !.param = y] :
           s \in {"none", "static", "typedef"}}
  \cup {[Declared(y, "int(int)", "none", FALSE) EXCEPT !.form = "definition", !.param = p] : p \in {x, y, NoName}}
  \cup {[Declared(x, "int", "none", FALSE) EXCEPT !.form = "enumerator"]}

MCTagInputs ==
  [form : {"define"}, kind : {"struct"}, tag : {S, T, NoTag}]
  \cup [form : {"alone"}, kind : {"struct", "union"}, tag : {T}]
  \cup [form : {"pointer"}, kind : {"struct"}, tag : {S, T}]
  \cup [form : {"pointer"}, kind : {"enum"}, tag : {T}]
  \cup [form : {"member"}, kind : {"struct"}, tag : {T}]
  \cup [form : {"enumerate"}, kind : {"enum"}, tag : {T}, name : {x, y}]
  \cup [form : {"add"}, name : {x}, type : {"int", y}]
  \cup [form : {"add"}, name : {y}, type : {"int"}]

\* A typedef y, which may come first, and a function with a parameter y.
Around ==
  {Declared(y, "int", "typedef", FALSE),
   [Declared(x, "int(int)", "none", FALSE) EXCEPT !.form = "definition", !.param = y]}

-----------------------------------------------------------------------------
(***************************************************************************)
(* The refinement mapping to TagSpaces.  The tags in the maps of the open  *)
(* bodies are those of the block around them.  One that this block can see *)
(* already will be refused, at the end of the body.  Nothing but the       *)
(* refusal is told of a unit that is refused.                              *)
(***************************************************************************)
Doomed ==
  \E i \in DOMAIN open, k \in Keys :
    structs[open[i]].map[k] # Nothing /\ FindTag(ScopeIn(SubSeq(open, 1, i - 1)), k) # Nothing

TagRefused == WasRefused \/ Doomed

MapsAt(level) ==
  {scopes[level].map} \cup (IF level = Len(scopes) THEN {structs[i].map : i \in Range(open)} ELSE {})

TagsAt(level) ==
  [k \in Keys |->
     LET bound == {map[k] : map \in MapsAt(level)} \ {Nothing}
     IN  IF bound = {} THEN Nothing ELSE TypeOfTag(CHOOSE i \in bound : TRUE)]

KindAt(level, n) == LET i == scopes[level].map[n] IN IF i = Nothing THEN "none" ELSE KindOf(i)
MembersOf(i) == {n \in Ordinary : structs[i].map[n] # Nothing}
Told(v) == IF TagRefused THEN <<>> ELSE v

TagSpace ==
  INSTANCE TagSpaces WITH
    tags <- Told([k \in DOMAIN scopes |-> TagsAt(k)]),
    names <- Told([k \in DOMAIN scopes |-> [n \in Ordinary |-> KindAt(k, n)]]),
    types <- Told([i \in DOMAIN structs |-> [kind |-> structs[i].kind, complete |-> structs[i].complete]]),
    open <- Told([i \in DOMAIN open |-> [type |-> open[i], members |-> MembersOf(open[i])]]),
    meant <- Told(meant),
    last <- [input |-> asked, number |-> specified],
    refused <- TagRefused

-----------------------------------------------------------------------------
(***************************************************************************)
(* Where the parser is known to differ from the standard, by name.  A run  *)
(* skips the specifiers of the differences in TagGaps.                     *)
(***************************************************************************)
Seen(d) == FindTag(CurScope, d.tag)
InScope(d) == FindTagInCurScope(CurScope, d.tag)
KindOfTag(i) == structs[TypeOfTag(i)].kind
Refers(d) == d.form \in {"alone", "pointer", "member"}

\* A tag defined in a body is refused where it hides one of another block,
\* or completes one that was declared.
NestedRefused(d) ==
  /\ d.form = "define" /\ open # <<>> /\ d.tag # NoTag
  /\ InScope(d) = Nothing /\ Seen(d) # Nothing
  /\ TagSpace!Legal(d)

\* "struct T;" does not declare T where one of another block is visible.
ForwardIgnored(d) == d.form = "alone" /\ InScope(d) = Nothing /\ Seen(d) # Nothing

\* A tag that is a struct's may be used with union or enum, and so on.
KindIgnored(d) ==
  \/ Refers(d) /\ Seen(d) # Nothing /\ KindOfTag(Seen(d)) # d.kind
  \/ d.form = "define" /\ InScope(d) # Nothing /\ KindOfTag(InScope(d)) # d.kind

\* An enum may be defined more than once, and used before it is.
EnumAgain(d) == d.form = "enumerate" /\ InScope(d) # Nothing
EnumAhead(d) == Refers(d) /\ d.kind = "enum" /\ Seen(d) = Nothing

\* Enumerators declared in a body are in the map of its members, and lost
\* at its end.
EnumeratorLost(d) == d.form = "enumerate" /\ open # <<>>

\* Members hide the names of types in their body, and in that of a tag
\* which was first read in it.
MemberHides(d) == d.form = "add" /\ d.type # "int" /\ Find(CurScope, d.type) # Find(scopes, d.type)

TagSkipped(d) ==
  \/ "NestedRefused" \in TagGaps /\ NestedRefused(d)
  \/ "ForwardIgnored" \in TagGaps /\ ForwardIgnored(d)
  \/ "KindIgnored" \in TagGaps /\ KindIgnored(d)
  \/ "EnumAgain" \in TagGaps /\ EnumAgain(d)
  \/ "EnumAhead" \in TagGaps /\ EnumAhead(d)
  \/ "EnumeratorLost" \in TagGaps /\ EnumeratorLost(d)
  \/ "MemberHides" \in TagGaps /\ MemberHides(d)

-----------------------------------------------------------------------------
ReadAround(d) ==
  /\ read < MaxAround
  /\ d.storage = "typedef" => specified = 0
  /\ Wanted(d) /\ (Declare(d) \/ Define(d))
  /\ status' = status

TagsNext ==
  \/ status = "parsing" /\ ~Doomed /\ \E d \in TagInputs : ~TagSkipped(d) /\ Specify(d)
  \/ ParseStructUnionDecl
  \/ open = <<>> /\ UNCHANGED tagVars /\ ((\E d \in Around : ReadAround(d)) \/ LeaveBlock)

MCInit == UnitInit /\ about \in {"names", "tags"}

MCNext ==
  /\ \/ about = "names" /\ DeclarationsNext /\ UNCHANGED tagVars
     \/ about = "tags" /\ TagsNext
  /\ UNCHANGED about

MCSpec == MCInit /\ [][MCNext]_<<vars, tagVars, about>>

(* A specifier ends the compiler, at once or when the body around it ends, *)
(* if and only if it breaks a constraint of the standard.  Otherwise it    *)
(* means the type that C11 6.7.2.3 says, of whichever block or body it was *)
(* first written in, which is complete from the end of its definition on;  *)
(* and tags of bodies denote after them what they did in them.             *)
ImplementsTags ==
  TagSpace!Init /\ [][about = "tags" => TagSpace!Next]_(TagSpace!vars)
=============================================================================
