--------------------------- MODULE Declarations ---------------------------
(***************************************************************************)
(* What the parser does with a declaration: ProcessDeclarator decides      *)
(* which earlier declaration a name is merged with and what linkage it     *)
(* has, ParseInitDeclarator and ParseFuncDef whether it is defined, and    *)
(* the generator, at the end, what is emitted for it.                      *)
(*                                                                         *)
(* Array and function types are objects on a heap, which several           *)
(* identifiers may share and declarations change.  They come from a small  *)
(* set; functions take one int, arrays have two elements or an unknown     *)
(* number.                                                                 *)
(***************************************************************************)
EXTENDS Integers, Sequences, FiniteSetsExt

CONSTANTS
  Names,           \* what a map of a scope has entries for
  Keys,            \* those of tags, TagName, which no identifier is the same as
  NoName,          \* the name of a parameter without one
  Inputs,          \* the declarations that are read
  MaxRead,         \* bound: the declarations of a translation unit
  MaxDepth         \* bound: the scopes open at once

(***************************************************************************)
(* Scopes, scope.h and scope.cc: a map from names to identifiers each, and *)
(* a chain of them, from the file's scope to the current one.  Identifiers *)
(* are numbers.  The parser also keeps a map of its own, of no chain, of   *)
(* the identifiers with external linkage.                                  *)
(***************************************************************************)
Nothing == 0
NewScope(type) == [type |-> type, map |-> [n \in Names |-> Nothing]]

Scope == [type : {"file", "block"}, map : [Names -> Nat]]

Current(chain) == chain[Len(chain)]
FindInCurScope(chain, n) == Current(chain).map[n]

Holders(chain, n) == {i \in DOMAIN chain : chain[i].map[n] # Nothing}
Find(chain, n) ==
  IF Holders(chain, n) = {} THEN Nothing ELSE chain[Max(Holders(chain, n))].map[n]

Insert(chain, n, ident) == [chain EXCEPT ![Len(chain)].map[n] = ident]

Enter(chain, scope) == Append(chain, scope)
Exit(chain) == SubSeq(chain, 1, Len(chain) - 1)

Ordinary == Names \ Keys

(***************************************************************************)
(* A declaration as it is written.  type may be the name of a typedef;     *)
(* init says whether there is an initializer, of two elements for an       *)
(* array; a definition is one of a function, with its body and parameter.  *)
(***************************************************************************)
Declarator ==
  [form : {"declaration"}, name : Ordinary, type : {"int", "int[]", "int[2]", "int(int)"} \cup Ordinary,
   storage : {"none", "static", "extern", "typedef"}, init : BOOLEAN, param : {NoName}]
  \cup [form : {"definition"}, name : Ordinary, type : {"int(int)"},
        storage : {"none", "static", "extern", "typedef"}, init : {FALSE}, param : Ordinary \cup {NoName}]
  \cup [form : {"enumerator"}, name : Ordinary, type : {"int"},
        storage : {"none"}, init : {FALSE}, param : {NoName}]

ASSUME InputsAreDeclarators == Inputs \subseteq Declarator

\* A keyword is no name.
ASSUME NamesAreIdentifiers == NoName \notin Names /\ Names \cap {"int", "int[]", "int[2]", "int(int)"} = {}

VARIABLES
  scopes,          \* from the file's scope to curScope_
  idents,          \* the identifiers, in the order they were made
  types,           \* the types, in the order they were made
  external,        \* externalSymbols_
  unit,            \* what goes to the generator
  body,            \* the function being read: its identifier and parameter
  read,            \* how many declarations were read
  status,          \* "parsing", or "error" for the end in Error()
  latest           \* the declaration read last

vars == <<scopes, idents, types, external, unit, body, read, status, latest>>

IntType == 1
Linkages == {"none", "internal", "external"}

Ident ==
  [class : {"ident", "object", "enumerator"}, name : Names \cup {NoName}, type : Nat,
   linkage : Linkages, storage : SUBSET {"static", "extern"}, decl : BOOLEAN, init : BOOLEAN]

\* params holds the parameter's identifier, or Nothing for one without a name.
HeapType == [shape : {"int", "array", "function"}, len : {-1, 0, 2}, complete : BOOLEAN, params : Nat]

IntObject == [shape |-> "int", len |-> 0, complete |-> TRUE, params |-> Nothing]
ArrayType(len) == [shape |-> "array", len |-> len, complete |-> len >= 0, params |-> Nothing]
FuncType(param) == [shape |-> "function", len |-> 0, complete |-> FALSE, params |-> param]

Nobody == [ident |-> Nothing, param |-> Nothing]
NoDeclaration == [form |-> "none"]

Init ==
  /\ scopes = <<NewScope("file")>>
  /\ idents = << >>
  /\ types = <<IntObject>>
  /\ external = [n \in Names |-> Nothing]
  /\ unit = << >>
  /\ body = Nobody
  /\ read = 0
  /\ status = "parsing"
  /\ latest = NoDeclaration

AtFile == Current(scopes).type = "file"

\* A typedef is an Identifier, and neither an object nor a function.
IsTypeName(i) == i # Nothing /\ idents[i].class = "ident" /\ idents[i].linkage = "none"

(***************************************************************************)
(* The type of a declaration, made anew but for int and the name of a     *)
(* typedef.  An array of unknown length is copied from the typedef, for an *)
(* initializer may change it.                                              *)
(***************************************************************************)
Copied(t) == types[t].shape = "array" /\ ~types[t].complete

NamedType(d) == idents[Find(scopes, d.type)].type

Fresh(d, param) ==
  CASE d.type \in Names -> IF Copied(NamedType(d)) THEN <<ArrayType(types[NamedType(d)].len)>> ELSE << >>
    [] d.type = "int[]" -> <<ArrayType(-1)>>
    [] d.type = "int[2]" -> <<ArrayType(2)>>
    [] d.type = "int(int)" -> <<FuncType(param)>>
    [] OTHER -> << >>

Heap(d, param) == types \o Fresh(d, param)

TypeOf(d) ==
  CASE d.type = "int" -> IntType
    [] d.type \in Names /\ ~Copied(NamedType(d)) -> NamedType(d)
    [] OTHER -> Len(types) + 1

Compatible(s, t) ==
  /\ s.shape = t.shape
  /\ s.shape = "array" /\ s.complete /\ t.complete => s.len = t.len

IsFunction(t) == t.shape = "function"

(***************************************************************************)
(* ProcessDeclarator, for a declaration d whose type t is not on the heap  *)
(* yet.                                                                    *)
(***************************************************************************)
LinkageAlone(d, t) ==
  CASE AtFile -> IF d.storage = "static" THEN "internal" ELSE "external"
    [] d.storage = "extern" -> "external"
    [] OTHER -> IF IsFunction(t) THEN "external" ELSE "none"

\* A bug to be caught: the search goes on outside of the scope.
PriorAnywhere(d) == Find(scopes, d.name)

\* The declaration of the same scope.
Prior(d) == FindInCurScope(scopes, d.name)

\* The declaration of an enclosing scope, or one that is out of scope.
Elsewhere(d) ==
  IF Find(scopes, d.name) # Nothing THEN Find(scopes, d.name) ELSE external[d.name]

\* A bug to be caught: the linkage of the visible declaration is not asked for.
LinkageNotFound(d, t) == LinkageAlone(d, t)

LinkageFound(d, t) ==
  IF LinkageAlone(d, t) = "external" /\ Find(scopes, d.name) # Nothing
       /\ idents[Find(scopes, d.name)].linkage # "none"
    THEN idents[Find(scopes, d.name)].linkage
    ELSE LinkageAlone(d, t)

ConflictsWith(i, t) == i # Nothing /\ ~Compatible(t, types[idents[i].type])

\* The linkage a second declaration in one scope must find.
Mergeable(linkage, i) ==
  CASE linkage = "none" -> FALSE
    [] linkage = "external" -> idents[i].linkage # "none"
    [] linkage = "internal" -> idents[i].linkage = "internal"

Refused(d, t) ==
  IF d.storage = "typedef" THEN ConflictsWith(Prior(d), t)
  ELSE \/ IsFunction(t) /\ ~AtFile /\ d.storage = "static"
       \/ ConflictsWith(Prior(d), t)
       \/ Prior(d) # Nothing /\ ~Mergeable(LinkageAlone(d, t), Prior(d))
       \/ Prior(d) = Nothing /\ LinkageAlone(d, t) = "external" /\ ConflictsWith(Elsewhere(d), t)

(***************************************************************************)
(* What Processed leaves: the identifier (at) and the state it changed.    *)
(* A definition's named parameter is made before the function's type.      *)
(***************************************************************************)
HasParam(d) == d.form = "definition" /\ d.param # NoName
Param(d) == IF HasParam(d) THEN Len(idents) + 1 ELSE Nothing

IntIdent(class, name) ==
  [class |-> class, name |-> name, type |-> IntType, linkage |-> "none",
   storage |-> {}, decl |-> FALSE, init |-> FALSE]

Pool(d) == IF HasParam(d) THEN Append(idents, IntIdent("object", d.param)) ELSE idents

HeapFor(d) == Heap(d, Param(d))
NewType(d) == HeapFor(d)[TypeOf(d)]

NewIdent(d) ==
  LET object == d.storage # "typedef" /\ ~IsFunction(NewType(d))
  IN [class |-> IF object THEN "object" ELSE "ident", name |-> d.name, type |-> TypeOf(d),
      linkage |-> IF d.storage = "typedef" THEN "none" ELSE LinkageFound(d, NewType(d)),
      storage |-> IF object THEN {d.storage} \cap {"static", "extern"} ELSE {},
      decl |-> FALSE, init |-> FALSE]

\* The type of an earlier declaration, completed by that of d.
CompletedBy(heap, i, d) ==
  [heap EXCEPT ![idents[i].type].complete = @ \/ NewType(d).complete]

WithParams(heap, i, d) ==
  IF IsFunction(NewType(d)) THEN [heap EXCEPT ![idents[i].type].params = NewType(d).params] ELSE heap

Defined(i, d) ==
  IF d.storage = "extern" THEN idents[i] ELSE [idents[i] EXCEPT !.storage = @ \ {"extern"}]

Merged(d) ==
  LET i == Prior(d)
  IN [at |-> i, idents |-> [Pool(d) EXCEPT ![i] = Defined(i, d)],
      types |-> WithParams(CompletedBy(HeapFor(d), i, d), i, d),
      scopes |-> scopes, external |-> external]

\* Whether the declarations outside of the scope, and those past, are searched.
Searches(d) == d.storage # "typedef" /\ LinkageAlone(d, NewType(d)) = "external"

\* A name external for the first time goes to externalSymbols_.
Registers(d) == NewIdent(d).linkage = "external" /\ Elsewhere(d) = Nothing

Inserted(d) ==
  LET at == Len(Pool(d)) + 1
      past == Searches(d) /\ Find(scopes, d.name) = Nothing /\ external[d.name] # Nothing
  IN [at |-> at, idents |-> Append(Pool(d), NewIdent(d)),
      types |-> IF past THEN CompletedBy(HeapFor(d), external[d.name], d) ELSE HeapFor(d),
      scopes |-> Insert(scopes, d.name, at),
      external |-> IF Registers(d) THEN [external EXCEPT ![d.name] = at] ELSE external]

Processed(d) ==
  CASE Prior(d) = Nothing -> Inserted(d)
    [] Prior(d) # Nothing /\ d.storage = "typedef" ->
         [at |-> Prior(d), idents |-> Pool(d), types |-> HeapFor(d), scopes |-> scopes, external |-> external]
    [] OTHER -> Merged(d)

(***************************************************************************)
(* ParseInitDeclarator, for the identifier of p, what Processed left.      *)
(***************************************************************************)
InitRefused(p, d) ==
  LET ident == p.idents[p.at]
      type == p.types[ident.type]
  IN \/ d.init
        /\ \/ ident.class # "object"
           \/ ~AtFile /\ ident.linkage # "none"
           \/ ident.init
           \/ type.shape = "array" /\ type.complete /\ type.len < 2
     \/ ~d.init /\ ident.class = "object" /\ ~type.complete /\ ident.linkage = "none"

\* An object has one Declaration, which goes to the generator when it is made.
Recorded(ident, init) == [ident EXCEPT !.decl = TRUE, !.init = @ \/ init]
WithDecl(p, init) == [p EXCEPT !.idents[p.at] = Recorded(@, init)]

Sized(p) ==
  LET t == p.idents[p.at].type
  IN IF p.types[t].shape = "array" /\ ~p.types[t].complete
       THEN [p EXCEPT !.types[t].len = 2, !.types[t].complete = TRUE] ELSE p

DeclarationOf(p) == [what |-> "declaration", ident |-> p.at, param |-> Nothing]

Commit(p) == scopes' = p.scopes /\ idents' = p.idents /\ types' = p.types /\ external' = p.external

InitDeclarator(p, d) ==
  LET ident == p.idents[p.at]
      declares == ident.class = "object" /\ (d.init \/ p.types[ident.type].complete)
      sized == IF d.init THEN Sized(p) ELSE p
  IN /\ Commit(IF declares THEN WithDecl(sized, d.init) ELSE p)
     /\ unit' = IF declares /\ ~ident.decl THEN Append(unit, DeclarationOf(p)) ELSE unit

Error ==
  /\ status' = "error"
  /\ UNCHANGED <<scopes, idents, types, external, unit, body>>

Reading(d) ==
  /\ status = "parsing" /\ read < MaxRead
  /\ read' = read + 1
  /\ latest' = d

Declare(d) ==
  /\ Reading(d)
  /\ d.form = "declaration"
  /\ d.type \in Names => IsTypeName(Find(scopes, d.type))
  /\ IF Refused(d, NewType(d)) \/ InitRefused(Processed(d), d)
       THEN Error
       ELSE InitDeclarator(Processed(d), d) /\ UNCHANGED <<body, status>>

\* ParseEnumerator.
Enumerate(d) ==
  /\ Reading(d)
  /\ d.form = "enumerator"
  /\ IF Prior(d) # Nothing
       THEN Error
       ELSE /\ idents' = Append(idents, IntIdent("enumerator", d.name))
            /\ scopes' = Insert(scopes, d.name, Len(idents) + 1)
            /\ UNCHANGED <<types, external, unit, body, status>>

(***************************************************************************)
(* ParseFuncDef: the block of the body begins with the parameters of the   *)
(* identifier's type, those the definition has just given it.              *)
(***************************************************************************)
BodyScope(p) ==
  LET param == p.types[p.idents[p.at].type].params
  IN [NewScope("block") EXCEPT !.map[p.idents[param].name] = param]

Define(d) ==
  LET p == Processed(d)
      t == p.idents[p.at].type
  IN /\ Reading(d)
     /\ d.form = "definition" /\ AtFile
     /\ d.type = "int(int)"
     /\ IF Refused(d, NewType(d)) \/ p.types[t].complete \/ p.types[t].params = Nothing
          THEN Error
          ELSE /\ Commit([p EXCEPT !.types[t].complete = TRUE, !.scopes = Enter(@, BodyScope(p))])
               /\ body' = [ident |-> p.at, param |-> p.types[t].params]
               /\ UNCHANGED <<unit, status>>

EnterBlock ==
  /\ status = "parsing"
  /\ ~AtFile /\ Len(scopes) < MaxDepth /\ read < MaxRead
  /\ scopes' = Enter(scopes, NewScope("block"))
  /\ UNCHANGED <<idents, types, external, unit, body, read, status, latest>>

FunctionOf(b) == [what |-> "function", ident |-> b.ident, param |-> b.param]

\* The end of a body is that of ParseFuncDef.
LeaveBlock ==
  /\ status = "parsing"
  /\ ~AtFile
  /\ scopes' = Exit(scopes)
  /\ IF Len(scopes) = 2
       THEN unit' = Append(unit, FunctionOf(body)) /\ body' = Nobody
       ELSE UNCHANGED <<unit, body>>
  /\ UNCHANGED <<idents, types, external, read, status, latest>>

(***************************************************************************)
(* The generator.  A static object without linkage has a number in its     *)
(* symbol; a declaration is omitted where it is extern and has no          *)
(* initializer.                                                            *)
(***************************************************************************)
IsStatic(o) == "static" \in o.storage \/ o.linkage # "none"

\* A bug to be caught: a static object in a block has the symbol of its name.
ReprByName(i) == [name |-> idents[i].name, id |-> Nothing]

Repr(i) ==
  IF idents[i].linkage = "none" THEN [name |-> idents[i].name, id |-> i]
  ELSE [name |-> idents[i].name, id |-> Nothing]

Emits(e) ==
  LET o == idents[e.ident]
  IN e.what = "function" \/ (IsStatic(o) /\ ("extern" \in o.storage => o.init))

Assembly(e) ==
  [symbol |-> Repr(e.ident), global |-> idents[e.ident].linkage = "external",
   form |-> CASE e.what = "function" -> "text"
              [] idents[e.ident].init -> "data"
              [] OTHER -> "comm"]

Next ==
  \/ \E d \in Inputs : Declare(d) \/ Enumerate(d) \/ Define(d)
  \/ EnterBlock
  \/ LeaveBlock

Spec == Init /\ [][Next]_vars

-----------------------------------------------------------------------------
\* What d redeclares, and the types of the functions that are defined.
DefinedFunctions == {e.ident : e \in {u \in Range(unit) : u.what = "function"}} \cup ({body.ident} \ {Nothing})
FunctionTypes == {idents[i].type : i \in DefinedFunctions}
Own(d) == Current(scopes).map[d.name]
OwnType(d) == types[idents[Own(d)].type]

\* A prototype after the definition gives the function parameters of its own.
LatePrototype(d) ==
  /\ d.form = "declaration" /\ Own(d) # Nothing /\ d.storage # "typedef"
  /\ IsFunction(NewType(d)) /\ IsFunction(OwnType(d))
  /\ idents[Own(d)].type \in FunctionTypes
  /\ NewType(d).params # OwnType(d).params

(* No symbol is emitted twice: one object has one definition, and static   *)
(* objects of one name in several blocks have a symbol each.               *)
EmittedOnce ==
  \A i, j \in DOMAIN unit :
    i # j /\ Emits(unit[i]) /\ Emits(unit[j]) => Assembly(unit[i]).symbol # Assembly(unit[j]).symbol

(* The parameters the generator stores when it enters a function, those of *)
(* its type after the whole file, are those its body was parsed with.      *)
BodyHasParams ==
  \A e \in Range(unit) :
    e.what = "function" => types[idents[e.ident].type].params = e.param
=============================================================================
