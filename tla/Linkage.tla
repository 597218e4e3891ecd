------------------------------ MODULE Linkage -----------------------------
(***************************************************************************)
(* The identifiers of a translation unit as the C standard has them        *)
(* (C11 6.2.1, 6.2.2, 6.7 and 6.9): what every name denotes in each of the *)
(* scopes that are open, and for the names with linkage, which linkage,    *)
(* what type, and whether the unit defines them.  Declarations, the        *)
(* parser's scopes and identifiers, is shown to implement it.              *)
(***************************************************************************)
EXTENDS Integers, Sequences, FiniteSets, FiniteSetsExt

CONSTANTS
  Names,         \* the identifiers
  NoName,        \* the name of a parameter without one
  Inputs         \* the declarations that may be made, records as in Declarations

VARIABLES
  env,           \* the scopes that are open, innermost last: what each name denotes
  linked,        \* what the unit has of each name with linkage
  last,          \* the declaration read last, and how many were
  refused        \* whether it was refused, which ends the unit

vars == <<env, linked, last, refused>>

Unbound == [kind |-> "none", linkage |-> "none", type |-> "int"]
NoDeclaration == [form |-> "none"]
NoScope == [n \in Names |-> Unbound]
Absent == [linkage |-> "none", type |-> "int", state |-> "none"]

Init ==
  /\ env = <<NoScope>>
  /\ linked = [n \in Names |-> Absent]
  /\ last = [declaration |-> NoDeclaration, number |-> 0]
  /\ refused = FALSE

Level == Len(env)
AtFile == Level = 1
Here(n) == env[Level][n]
Bound(n) == {i \in 1..Level : env[i][n] # Unbound}
Visible(n) == IF Bound(n) = {} THEN Unbound ELSE env[Max(Bound(n))][n]

Compatible(s, t) == s = t \/ {s, t} = {"int[]", "int[2]"}
Composite(s, t) == IF "int[2]" \in {s, t} THEN "int[2]" ELSE s

Named(d) == d.type \in Names
Type(d) == IF Named(d) THEN Visible(d.type).type ELSE d.type

Kind(d) ==
  IF d.form = "enumerator" THEN "enumerator"
  ELSE IF d.storage = "typedef" THEN "typedef"
  ELSE IF Type(d) = "int(int)" THEN "function" ELSE "object"

(* 6.2.2: extern takes over the linkage of the declaration that is         *)
(* visible, if that has one; a function is declared as with extern.        *)
Linkage(d) ==
  LET visible == Visible(d.name).linkage
  IN IF Kind(d) \in {"enumerator", "typedef"} THEN "none"
     ELSE IF AtFile /\ d.storage = "static" THEN "internal"
     ELSE IF d.storage = "extern" \/ Kind(d) = "function"
       THEN IF visible # "none" THEN visible ELSE "external"
     ELSE IF AtFile THEN "external" ELSE "none"

\* 6.7 (3) and (4).
Redeclares(d) ==
  \/ Kind(d) = "typedef" /\ Here(d.name) = [kind |-> "typedef", linkage |-> "none", type |-> Type(d)]
  \/ /\ Linkage(d) # "none"
     /\ Here(d.name).linkage # "none"
     /\ Compatible(Type(d), Here(d.name).type)

\* A definition, with a body or an initializer.
Defines(d) == d.form = "definition" \/ d.init

(* The constraints a declaration has to satisfy: 6.7 (3), (4) and (7),     *)
(* 6.7.1 (7), 6.7.9 (5), 6.9 (3), 6.9.1 (4) and (5).                       *)
Legal(d) ==
  LET kind == Kind(d)
      linkage == Linkage(d)
  IN /\ Here(d.name) # Unbound => Redeclares(d)
     /\ kind = "function" /\ d.storage = "static" => AtFile
     /\ d.init => kind = "object" /\ (linkage = "none" \/ AtFile)
     /\ kind = "object" /\ linkage = "none" /\ ~d.init => Type(d) # "int[]"
     /\ Defines(d) /\ linkage # "none" => linked[d.name].state # "defined"
     /\ d.form = "definition" => d.param # NoName /\ d.storage # "typedef"

(* What the standard leaves undefined: a name with both linkages, types    *)
(* that differ between scopes, a static array of unknown length.           *)
Undefined(d) ==
  LET linkage == Linkage(d)
      before == linked[d.name]
  IN \/ /\ linkage # "none" /\ before.linkage # "none"
        /\ linkage # before.linkage \/ ~Compatible(before.type, Type(d))
     \/ linkage = "internal" /\ d.storage = "static" /\ ~d.init /\ Type(d) = "int[]"

\* Where the standard says what becomes of d.
Meaningful(d) == (Named(d) => Visible(d.type).kind = "typedef") /\ (Legal(d) => ~Undefined(d))

(* 6.2.7 (4) and 6.7.9 (22): a declaration of a name with linkage adds to  *)
(* the type that is visible, an initializer gives an array its length.     *)
TypeBefore(d) ==
  LET seen == Visible(d.name)
  IN IF Linkage(d) # "none" /\ seen.linkage # "none" THEN seen.type ELSE Type(d)

FullType(d) ==
  LET own == IF d.init /\ Type(d) = "int[]" THEN "int[2]" ELSE Type(d)
  IN Composite(own, TypeBefore(d))

Binding(d) == [kind |-> Kind(d), linkage |-> Linkage(d), type |-> FullType(d)]

(* 6.9.2: a file scope object without extern and initializer is defined    *)
(* tentatively.                                                            *)
State(d) ==
  IF Defines(d) THEN "defined"
  ELSE IF AtFile /\ Kind(d) = "object" /\ d.storage # "extern"
            /\ linked[d.name].state = "none" THEN "tentative"
  ELSE linked[d.name].state

Joined(d) ==
  IF Linkage(d) = "none" THEN linked
  ELSE [linked EXCEPT ![d.name] =
         [linkage |-> Linkage(d), state |-> State(d),
          type |-> IF @.linkage = "none" THEN FullType(d) ELSE Composite(FullType(d), @.type)]]

Bind(scopes, n, b) == [scopes EXCEPT ![Len(scopes)][n] = b]
Parameter == [kind |-> "object", linkage |-> "none", type |-> "int"]

Read(d) ==
  /\ ~refused
  /\ last' = [declaration |-> d, number |-> last.number + 1]

Declare(d) ==
  /\ Read(d)
  /\ d.form # "definition"
  /\ Meaningful(d) /\ Legal(d)
  /\ env' = Bind(env, d.name, Binding(d))
  /\ linked' = Joined(d)
  /\ UNCHANGED refused

(* The parameters of a definition are declared in the block of its body.   *)
Define(d) ==
  /\ Read(d)
  /\ d.form = "definition" /\ AtFile
  /\ Meaningful(d) /\ Legal(d)
  /\ env' = Bind(Append(Bind(env, d.name, Binding(d)), NoScope), d.param, Parameter)
  /\ linked' = Joined(d)
  /\ UNCHANGED refused

(* A declaration is refused if and only if it breaks a constraint.         *)
Refuse(d) ==
  /\ Read(d)
  /\ Meaningful(d) /\ ~Legal(d)
  /\ refused' = TRUE
  /\ UNCHANGED <<env, linked>>

EnterBlock ==
  /\ ~AtFile /\ ~refused
  /\ env' = Append(env, NoScope)
  /\ UNCHANGED <<linked, last, refused>>

LeaveBlock ==
  /\ ~AtFile /\ ~refused
  /\ env' = SubSeq(env, 1, Level - 1)
  /\ UNCHANGED <<linked, last, refused>>

Next ==
  \/ \E d \in Inputs : Declare(d) \/ Define(d) \/ Refuse(d)
  \/ EnterBlock
  \/ LeaveBlock

Spec == Init /\ [][Next]_vars
=============================================================================
