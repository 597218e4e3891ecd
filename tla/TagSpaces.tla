------------------------------ MODULE TagSpaces ---------------------------
(***************************************************************************)
(* Tags as the C standard has them, C11 6.2.1, 6.2.3, 6.7.2.1 to 6.7.2.3:  *)
(* what each tag denotes in each of the blocks that are open, and what     *)
(* types are complete.  The body of a struct is no scope: what is declared *)
(* in it belongs to the block around it, and only members have a name      *)
(* space of their own.  Tags, the parser's walk of specifiers, is shown to *)
(* implement it.                                                           *)
(***************************************************************************)
EXTENDS Integers, Sequences, FiniteSetsExt

CONSTANTS
  Ordinary,      \* names of objects, typedefs and enumerators
  Keys,          \* tags
  NoTag,         \* of a specifier without one
  TagInputs      \* what is read, records as in Tags

VARIABLES
  tags,          \* for each open block, innermost last, the type of each tag
  names,         \* and what kind of thing each ordinary name is
  types,         \* their kinds, and whether they are complete
  open,          \* the definitions that are open, each with its members
  meant,         \* the type of the specifier read last
  last,          \* what was read last, and how much was
  refused        \* whether it was refused, which ends the unit

vars == <<tags, names, types, open, meant, last, refused>>

None == 0
NoTags == [k \in Keys |-> None]

Init ==
  /\ tags = <<NoTags>>
  /\ names = <<[n \in Ordinary |-> "none"]>>
  /\ types = <<>>
  /\ open = <<>>
  /\ meant = None
  /\ last = [input |-> [form |-> "none"], number |-> 0]
  /\ refused = FALSE

Level == Len(tags)
Front(s) == SubSeq(s, 1, Len(s) - 1)
Visible(env, n, absent) ==
  LET bound == {i \in DOMAIN env : env[i][n] # absent}
  IN  IF bound = {} THEN absent ELSE env[Max(bound)][n]

Here(k) == tags[Level][k]
Denoted(k) == Visible(tags, k, None)

InBody == open # <<>>
Defined(i) == types[i].complete \/ \E j \in DOMAIN open : open[j].type = i
Members == open[Len(open)].members

(* A specifier without a list means the type that is visible, or declares *)
(* one (6.7.2.3 (8), (9)); alone in a declaration it declares one in its   *)
(* own scope (7).                                                          *)
Meant(d) ==
  IF d.form = "define" \/ d.form = "alone"
  THEN (IF d.tag = NoTag THEN None ELSE Here(d.tag))
  ELSE Denoted(d.tag)

New(d) == Meant(d) = None
Type(d) == IF New(d) THEN Len(types) + 1 ELSE Meant(d)

(* The constraints: the kind of a tag is always the same (6.7.2.3 (2)), a  *)
(* type is defined once (1), and an enum before it is used (3); members    *)
(* have complete types (6.7.2.1 (3)) and names of their own; enumerators   *)
(* are names of the block (6.7 (3)); the name of a type is one.            *)
Legal(d) ==
  CASE d.form = "enumerate" ->
         /\ d.tag # NoTag /\ Here(d.tag) # None =>
              types[Here(d.tag)] = [kind |-> "enum", complete |-> FALSE]
         /\ names[Level][d.name] = "none"
    [] d.form = "add" ->
         /\ d.type # "int" => Visible(names, d.type, "none") = "typedef"
         /\ d.name \notin Members
    [] OTHER ->
         /\ ~New(d) => types[Meant(d)].kind = d.kind
         /\ d.form = "define" => New(d) \/ ~Defined(Meant(d))
         /\ d.form = "member" \/ d.kind = "enum" => ~New(d) /\ types[Meant(d)].complete

Read(d) ==
  /\ ~refused
  /\ d.form = "alone" => ~InBody
  /\ d.form \in {"member", "add"} => InBody
  /\ last' = [input |-> d, number |-> last.number + 1]

TypesWith(d, complete) ==
  IF New(d) THEN Append(types, [kind |-> d.kind, complete |-> complete]) ELSE types

TagsWith(d) ==
  IF d.tag # NoTag /\ New(d) THEN [tags EXCEPT ![Level][d.tag] = Len(types) + 1] ELSE tags

Refer(d) ==
  /\ d.form \in {"alone", "pointer", "member"}
  /\ Read(d) /\ Legal(d)
  /\ types' = TypesWith(d, FALSE)
  /\ tags' = TagsWith(d)
  /\ meant' = Type(d)
  /\ UNCHANGED <<names, open, refused>>

Define(d) ==
  /\ d.form = "define"
  /\ Read(d) /\ Legal(d)
  /\ types' = TypesWith(d, FALSE)
  /\ tags' = TagsWith(d)
  /\ open' = Append(open, [type |-> Type(d), members |-> {}])
  /\ UNCHANGED <<names, meant, refused>>

AddMember(d) ==
  /\ d.form = "add"
  /\ Read(d) /\ Legal(d)
  /\ open' = [open EXCEPT ![Len(open)].members = @ \cup {d.name}]
  /\ UNCHANGED <<tags, names, types, meant, refused>>

(* A type is complete at the brace that ends its definition (4).           *)
EndDefinition ==
  /\ InBody /\ ~refused
  /\ types' = [types EXCEPT ![open[Len(open)].type].complete = TRUE]
  /\ meant' = open[Len(open)].type
  /\ open' = Front(open)
  /\ UNCHANGED <<tags, names, last, refused>>

Enumerate(d) ==
  /\ d.form = "enumerate"
  /\ Read(d) /\ Legal(d)
  /\ LET here == IF d.tag = NoTag THEN None ELSE Here(d.tag)
         type == IF here = None THEN Len(types) + 1 ELSE here
     IN  /\ types' = IF here = None THEN Append(types, [kind |-> "enum", complete |-> TRUE])
                     ELSE [types EXCEPT ![here].complete = TRUE]
         /\ tags' = IF d.tag = NoTag THEN tags ELSE [tags EXCEPT ![Level][d.tag] = type]
         /\ meant' = type
  /\ names' = [names EXCEPT ![Level][d.name] = "enumerator"]
  /\ UNCHANGED <<open, refused>>

Refuse(d) ==
  /\ Read(d) /\ ~Legal(d)
  /\ refused' = TRUE

(* What Linkage tells: declarations of ordinary names, and blocks.         *)
Elsewhere ==
  /\ ~InBody /\ ~refused
  /\ \/ tags' = tags
     \/ tags' = Append(tags, NoTags)
     \/ Level > 1 /\ tags' = Front(tags)
  /\ Len(names') = Len(tags')
  /\ UNCHANGED <<types, open, meant, last, refused>>

Next ==
  \/ \E d \in TagInputs : Refer(d) \/ Define(d) \/ AddMember(d) \/ Enumerate(d) \/ Refuse(d)
  \/ EndDefinition
  \/ Elsewhere

Spec == Init /\ [][Next]_vars
=============================================================================
