--------------------------- MODULE MCMacroExpand --------------------------
(***************************************************************************)
(* Macro expansion with a few tables: macros that reorder, quote and join  *)
(* their arguments, call each other, leave calls open, take a variable     *)
(* number of arguments or come to nothing.  The texts are all short ones,  *)
(* and all calls with a short list of arguments and something after them.  *)
(***************************************************************************)
EXTENDS MacroAlgorithm

f == <<"f">>
g == <<"g">>
o == <<"o">>
a == <<"a">>
x == <<"x">>
y == <<"y">>
fa == <<"f", "a">>

Fun(params, body) == [kind |-> "function", params |-> params, variadic |-> FALSE, body |-> body]
FunV(params, body) == [kind |-> "function", params |-> params, variadic |-> TRUE, body |-> body]
Obj(body) == [kind |-> "object", params |-> << >>, variadic |-> FALSE, body |-> body]
Builtin(kind) == [kind |-> kind, params |-> << >>, variadic |-> FALSE, body |-> << >>]

Reorder == f :> Fun(<<x>>, <<x>>) @@ g :> Fun(<<x, y>>, <<y, x, f>>) @@ o :> Obj(<<o, a>>)
Mutual == f :> Fun(<<x>>, <<g, Open, x, Close>>) @@ g :> Fun(<<x>>, <<f, Open, x, Close>>)
            @@ o :> Obj(<<f, Open>>)
Joining == f :> Fun(<<x>>, <<x, HashHash, a>>) @@ o :> Obj(<<f>>) @@ fa :> Obj(<<o>>)
Quoting == f :> Fun(<<x, y>>, <<x, HashHash, y>>) @@ o :> Obj(<<a, Comma, a>>)
             @@ g :> Fun(<<x>>, <<Hash, x, f, Open, x, Comma, Close>>)
Vanishing == f :> Fun(<<x, y>>, <<x, HashHash, y, HashHash, o>>) @@ o :> Obj(<< >>)
               @@ g :> Fun(<< >>, <<o, a>>)
Variadic == f :> FunV(<< >>, <<g, Open, VaArgs, Close>>) @@ g :> FunV(<<x>>, <<x, VaArgs, o>>)
              @@ o :> Obj(<<f, Open, Close>>)
NoArgs == f :> Fun(<< >>, <<g>>) @@ g :> Fun(<<x>>, <<f>>) @@ o :> Obj(<<Open, Close>>)
Builtins == f :> Fun(<<x>>, <<Hash, x, x, HashHash, o, x>>) @@ g :> Builtin("__LINE__")
              @@ o :> Builtin("__FILE__")

MCTables == {Reorder, Mutual, Joining, Quoting, Vanishing, Variadic, NoArgs, Builtins}

Alphabet == {f, g, o, a, Open, Close, Comma}
MCTexts ==
  BoundedSeq(Alphabet, 3)
    \cup {<<o, fun, Open>> \o args \o <<Close>> : fun \in {f, g}, args \in BoundedSeq(Alphabet, 2)}
    \cup {<<fun, Open>> \o args \o <<Close>> \o after :
            fun \in {f, g}, args \in BoundedSeq(Alphabet, 3),
            after \in {<< >>, <<o>>, <<Open, a, Close>>}}
    \cup {<<Defined>> \o s : s \in BoundedSeq({f, a, Open, Close}, 3)}
    \cup {<<f, Open, Hash, a, Close>>, <<f, Open, f, Close, Open, f, Close, Open, a, Close>>,
          <<g, Open, f, Open, a, Close, Comma, o, Close, Open, a, Close>>}

InText == [live |-> TRUE, inCond |-> FALSE]
InIf == [live |-> TRUE, inCond |-> TRUE]
\* The entry of a failed #if is on top when the condition is evaluated.
InElif == [live |-> FALSE, inCond |-> TRUE]
Skipped == [live |-> FALSE, inCond |-> FALSE]

MCContexts == {InText, InIf, InElif, Skipped}
=============================================================================
