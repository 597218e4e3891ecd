--------------------------------- MODULE Tags -----------------------------
(***************************************************************************)
(* Struct, union and enum specifiers and the bodies of structs:            *)
(* ParseStructUnionSpec, ParseStructUnionDecl, ParseEnumSpec and           *)
(* ParseEnumerator, on the scopes of Declarations.                         *)
(*                                                                         *)
(* The map of a struct's members is a scope, which curScope_ is for as     *)
(* long as the body is read: members, enumerators and tags that are        *)
(* declared in it all go there, and what is looked up is looked up there   *)
(* first.  Its parent is the scope in which the type was made, which need  *)
(* not be the one in which it is defined.  At the end the tags go to the   *)
(* scope that was the current one before.                                  *)
(*                                                                         *)
(* In a map a tag has a key that no ordinary name has (TagName), so that   *)
(* tags are names of their own here.                                       *)
(***************************************************************************)
EXTENDS Declarations

CONSTANTS
  NoTag,         \* the tag of a specifier without one
  TagInputs,     \* what is read
  MaxSpecified   \* bound: how much of it

(***************************************************************************)
(* What is read: "struct t {" (define), "struct t;" (alone), a pointer to  *)
(* one, a member that is one, "enum t {name}" (enumerate), and a member of *)
(* type int or of a type with a name (add).                                *)
(***************************************************************************)
TagInput ==
  [form : {"define"}, kind : {"struct", "union"}, tag : Keys \cup {NoTag}]
  \cup [form : {"alone"}, kind : {"struct", "union"}, tag : Keys]
  \cup [form : {"pointer", "member"}, kind : {"struct", "union", "enum"}, tag : Keys]
  \cup [form : {"enumerate"}, kind : {"enum"}, tag : Keys \cup {NoTag}, name : Ordinary]
  \cup [form : {"add"}, name : Ordinary, type : {"int"} \cup Ordinary]

ASSUME KeysAreNames == Keys \subseteq Names /\ NoTag \notin Names
ASSUME InputsAreTagInputs == TagInputs \subseteq TagInput

VARIABLES
  structs,       \* the types that specifiers have made, in order
  open,          \* those whose bodies are being read, innermost last
  meant,         \* the type of the specifier read last
  specified,     \* how much was read
  asked          \* what was read last

tagVars == <<structs, open, meant, specified, asked>>

TagInit ==
  /\ structs = <<>>
  /\ open = <<>>
  /\ meant = Nothing
  /\ specified = 0
  /\ asked = NoDeclaration

-----------------------------------------------------------------------------
\* The member maps around the body of s and its own, from the outside in.
Bodies(s) == Append(structs[s].around, s)
MemberMaps(s) ==
  [i \in DOMAIN Bodies(s) |-> [type |-> "struct", map |-> structs[Bodies(s)[i]].map]]

\* From the file's scope to the one that is current while calls are open.
ScopeIn(calls) == IF calls = <<>> THEN scopes ELSE scopes \o MemberMaps(calls[Len(calls)])
CurScope == ScopeIn(open)

\* A bug to be caught: a tag is not searched for outside of its scope.
FindTagHere(chain, tag) == FindInCurScope(chain, tag)
FindTag(chain, tag) == Find(chain, tag)
FindTagInCurScope(chain, tag) == IF tag = NoTag THEN Nothing ELSE FindInCurScope(chain, tag)

TypeOfTag(i) == idents[i].type

\* StructType::New; an ArithmType is always complete.
NewStruct(kind) ==
  [kind |-> kind, complete |-> kind = "enum", map |-> NewScope("struct").map,
   around |-> IF open = <<>> THEN <<>> ELSE Bodies(open[Len(open)])]

\* The state, and the same with an identifier inserted into the current scope.
Now == [scopes |-> scopes, idents |-> idents, structs |-> structs]

Put(p, n, ident) ==
  LET at == Len(p.idents) + 1
      q == [p EXCEPT !.idents = Append(@, ident)]
  IN  IF open = <<>> THEN [q EXCEPT !.scopes = Insert(@, n, at)]
      ELSE [q EXCEPT !.structs[open[Len(open)]].map[n] = at]

TagIdent(tag, s) == [IntIdent("tag", tag) EXCEPT !.type = s]

Made(kind, tag) ==
  LET s == Len(structs) + 1
      p == [Now EXCEPT !.structs = Append(@, NewStruct(kind))]
  IN  IF tag = NoTag THEN p ELSE Put(p, tag, TagIdent(tag, s))

\* Of the tag that was found, or a new one.
Found(found, d) == IF found = Nothing THEN Made(d.kind, d.tag) ELSE Now
TypeMeant(found) == IF found = Nothing THEN Len(structs) + 1 ELSE TypeOfTag(found)

Becomes(p) ==
  /\ scopes' = p.scopes
  /\ idents' = p.idents
  /\ structs' = p.structs
  /\ UNCHANGED status

Fails == status' = "error" /\ UNCHANGED <<scopes, idents, structs, open, meant>>

Specifying(d) ==
  /\ status = "parsing" /\ specified < MaxSpecified
  /\ specified' = specified + 1
  /\ asked' = d
  /\ UNCHANGED <<types, external, unit, body, read, latest>>

-----------------------------------------------------------------------------
(* A specifier without a list, in a declaration without declarators, of a  *)
(* pointer, or of a member, which has to have a complete type.  The kind   *)
(* is not looked at.                                                       *)
ParseStructUnionSpec(d) ==
  LET found == FindTag(CurScope, d.tag)
      complete == IF found = Nothing THEN d.kind = "enum" ELSE structs[TypeOfTag(found)].complete
  IN  /\ d.form \in {"alone", "pointer", "member"}
      /\ d.form = "alone" => open = <<>>
      /\ d.form = "member" => open # <<>>
      /\ Specifying(d)
      /\ IF d.form = "member" /\ ~complete THEN Fails
         ELSE /\ Becomes(Found(found, d))
              /\ meant' = TypeMeant(found)
              /\ UNCHANGED open

\* The same up to the brace.
BeginStructUnion(d) ==
  LET found == FindTagInCurScope(CurScope, d.tag)
  IN  /\ d.form = "define"
      /\ Specifying(d)
      /\ IF found # Nothing /\ structs[TypeOfTag(found)].complete THEN Fails
         ELSE /\ Becomes(Found(found, d))
              /\ open' = Append(open, TypeMeant(found))
              /\ UNCHANGED meant

(* A member of the body of type int or of a type with a name.  Where the   *)
(* name is an enumerator's GetMember finds no member, and Insert fails its *)
(* assertion.                                                              *)
AddMember(d) ==
  /\ d.form = "add" /\ open # <<>>
  /\ Specifying(d)
  /\ IF \/ d.type # "int" /\ ~IsTypeName(Find(CurScope, d.type))
        \/ FindInCurScope(CurScope, d.name) # Nothing
     THEN Fails
     ELSE Becomes(Put(Now, d.name, IntIdent("member", d.name))) /\ UNCHANGED <<open, meant>>

\* The tags of a body.
AllTags(s) == {tag \in Keys : structs[s].map[tag] # Nothing}

\* A bug to be caught: tags stay in the scope of the body.
ExportNone(s, calls) == Now

\* AllTags go to the scope that is current again.
Export(s, calls) ==
  LET moved(map) == [n \in Names |-> IF n \in AllTags(s) THEN structs[s].map[n] ELSE map[n]]
  IN  IF calls = <<>> THEN [Now EXCEPT !.scopes[Len(scopes)].map = moved(@)]
      ELSE [Now EXCEPT !.structs[calls[Len(calls)]].map = moved(@)]

ParseStructUnionDecl ==
  LET s == open[Len(open)]
      calls == SubSeq(open, 1, Len(open) - 1)
      exported == Export(s, calls)
  IN  /\ status = "parsing" /\ open # <<>>
      /\ IF \E tag \in AllTags(s) : FindTag(ScopeIn(calls), tag) # Nothing THEN Fails
         ELSE /\ Becomes([exported EXCEPT !.structs[s].complete = TRUE])
              /\ open' = calls
              /\ meant' = s
      /\ UNCHANGED <<specified, asked, types, external, unit, body, read, latest>>

(* "enum t {name}": an enum that is defined is defined again.              *)
ParseEnumSpec(d) ==
  LET found == FindTagInCurScope(CurScope, d.tag)
      p == Found(found, d)
  IN  /\ d.form = "enumerate"
      /\ Specifying(d)
      /\ IF \/ found # Nothing /\ structs[TypeOfTag(found)].kind # "enum"
            \/ FindInCurScope(CurScope, d.name) # Nothing
         THEN Fails
         ELSE /\ Becomes(Put(p, d.name, IntIdent("enumerator", d.name)))
              /\ meant' = TypeMeant(found)
              /\ UNCHANGED open

\* What a specifier is read with, or a declaration of members.
Specify(d) == ParseStructUnionSpec(d) \/ BeginStructUnion(d) \/ AddMember(d) \/ ParseEnumSpec(d)

UnitInit == Init /\ TagInit
UnitNext ==
  \/ \E d \in TagInputs : Specify(d)
  \/ ParseStructUnionDecl
  \/ open = <<>> /\ Next /\ UNCHANGED tagVars

UnitSpec == UnitInit /\ [][UnitNext]_<<vars, tagVars>>
=============================================================================
