---------------------------- MODULE MacroExpand ---------------------------
(***************************************************************************)
(* Macro expansion, Preprocessor::Expand and Subst (src/src/cpp.cc): Expand*)
(* scans a line and replaces macros in place, Subst builds a replacement   *)
(* and calls Expand again for the arguments it needs expanded.  Recursion  *)
(* is cut off by the hide set of a token, the macros it came from.         *)
(*                                                                         *)
(* One action per turn of either loop; the calls in progress are a stack   *)
(* of frames.  A token is its spelling, the sequence of the spellings it   *)
(* was joined from, and its hide set: white space and lines are left out.  *)
(***************************************************************************)
EXTENDS Naturals, FiniteSets, SequencesExt

CONSTANTS
  Tables,        \* what macroMap_ may be
  Texts,         \* the tokens that may be expanded
  Contexts       \* where: [live |-> NeedExpand(), inCond |-> in a condition]

\* Spellings with a meaning of their own.
Open == <<"(">>
Close == <<")">>
Comma == <<",">>
Hash == <<"#">>
HashHash == <<"##">>
Defined == <<"defined">>
VaArgs == <<"__VA_ARGS__">>
Punctuators == {Open, Close, Comma, Hash, HashHash}

IsWord(id) == id \notin Punctuators /\ id[1] # "quote"
IsIdentifier(id) == IsWord(id) /\ id[1] \notin {"0", "1"}

ASSUME ContextsAssumption == Contexts \subseteq [live : BOOLEAN, inCond : BOOLEAN]

(* Names are identifiers, and ## stands between two tokens.  (ParseDef     *)
(* does not check the latter.)                                             *)
ASSUME TablesAssumption ==
  \A table \in Tables : \A name \in DOMAIN table :
    /\ IsIdentifier(name)
    /\ table[name].kind \in {"object", "function", "__FILE__", "__LINE__"}
    /\ \A i \in DOMAIN table[name].body :
         table[name].body[i] = HashHash => i \notin {1, Len(table[name].body)}

VARIABLES
  macroMap,      \* macroMap_, by name
  context,
  text,          \* what Expand was called with
  frames,        \* the calls in progress, the innermost last
  status         \* how far the expansion is

vars == <<macroMap, context, text, frames, status>>

(* Expand: atStart while nothing of its list is taken.  Subst: the hide    *)
(* set for its result, and the actual parameters by name.                  *)
ExpandFrame(is, atStart, inCond) ==
  [proc |-> "Expand", is |-> is, os |-> << >>, atStart |-> atStart, inCond |-> inCond,
   hs |-> {}, params |-> << >>]
SubstFrame(is, hs, params) ==
  [proc |-> "Subst", is |-> is, os |-> << >>, atStart |-> FALSE, inCond |-> FALSE,
   hs |-> hs, params |-> params]

Tokens(ids) == [i \in DOMAIN ids |-> [id |-> ids[i], hs |-> {}]]

Init ==
  /\ macroMap \in Tables
  /\ context \in Contexts
  /\ text \in Texts
  /\ frames = <<ExpandFrame(Tokens(text), ~context.inCond, context.inCond)>>
  /\ status = "running"

-----------------------------------------------------------------------------
Top == frames[Len(frames)]
Below == SubSeq(frames, 1, Len(frames) - 1)

Running(proc) == status = "running" /\ Top.proc = proc

ReplaceTop(f) == frames' = Append(Below, f)

\* n tokens are taken from the input, and out is added to the output.
Take(n, out) ==
  /\ ReplaceTop([Top EXCEPT !.is = SubSeq(@, n + 1, Len(@)), !.os = @ \o out, !.atStart = FALSE])
  /\ UNCHANGED <<macroMap, context, text, status>>

Stop(how) ==
  /\ status' = how
  /\ UNCHANGED <<macroMap, context, text, frames>>

Error == Stop("rejected")

Is(i, id) == i <= Len(Top.is) /\ Top.is[i].id = id

\* The one token that a constant, a file name or an argument's text becomes.
Constant(tok, id) == [tok EXCEPT !.id = id]
Quoted(ids) == <<"quote">> \o ids

-----------------------------------------------------------------------------
(* The actual parameters in s, the tokens after an opening parenthesis.    *)
Occurrences(s, i, id) == Cardinality({j \in 1..i : s[j].id = id})
Depth(s, i) == 1 + Occurrences(s, i, Open) - Occurrences(s, i, Close)

Closes(s, i) == Depth(s, i) = 0 /\ \A j \in 1..(i - 1) : Depth(s, j) > 0
Closed(s) == \E i \in DOMAIN s : Closes(s, i)
Closing(s) == CHOOSE i \in DOMAIN s : Closes(s, i)

\* The opening parenthesis, the commas between the parameters and the closing one.
Separators(s) ==
  SetToSortSeq({0, Closing(s)} \cup
                 {i \in 1..(Closing(s) - 1) : s[i].id = Comma /\ Depth(s, i) = 1}, <)

Between(s, i, j) == SubSeq(s, i + 1, j - 1)

\* ParseActualParam reports an error.
Misfits(macro, s) ==
  IF macro.params = << >> /\ ~macro.variadic THEN s = << >> \/ s[1].id # Close
  ELSE \/ ~Closed(s)
       \/ Len(Separators(s)) - 1 < Len(macro.params)
       \/ Len(Separators(s)) - 1 > Len(macro.params) /\ ~macro.variadic

\* The parameters by name; what is left is __VA_ARGS__, if anything is.
ActualParams(macro, s) ==
  LET seps == Separators(s)
      named == Len(macro.params)
      rest == IF Len(seps) - 1 > named THEN {VaArgs} ELSE {}
  IN IF named = 0 /\ ~macro.variadic THEN << >>
     ELSE [p \in ToSet(macro.params) \cup rest |->
             IF p \in ToSet(macro.params)
               THEN LET k == CHOOSE k \in 1..named : macro.params[k] = p
                    IN Between(s, seps[k], seps[k + 1])
               ELSE Between(s, seps[named + 1], Closing(s))]

-----------------------------------------------------------------------------
(* The turns of Expand's loop.  A directive can only begin a list, so in an*)
(* expansion it comes from an argument; it is not followed further here.   *)
Tok == Top.is[1]
IsDirective == Tok.id = Hash /\ Top.atStart
Discarded == ~Top.inCond /\ ~context.live

Turn == Running("Expand") /\ Top.is # << >>

Directive == Turn /\ IsDirective /\ Stop("directive")

Discard == Turn /\ ~IsDirective /\ Discarded /\ Take(1, << >>)

Live == Turn /\ ~IsDirective /\ ~Discarded

IsDefinedOp == Top.inCond /\ Tok.id = Defined

EvalDefOp ==
  /\ Live
  /\ IsDefinedOp
  /\ LET hasPar == Is(2, Open)
         at == IF hasPar THEN 3 ELSE 2
     IN IF ~(at <= Len(Top.is) /\ IsIdentifier(Top.is[at].id)) \/ (hasPar /\ ~Is(4, Close))
          THEN Error
          ELSE Take(IF hasPar THEN 4 ELSE 2,
                    <<Constant(Top.is[at],
                               IF Top.is[at].id \in DOMAIN macroMap THEN <<"1">> ELSE <<"0">>)>>)

Hidden == Tok.id \in Tok.hs

IsMacro == Live /\ ~IsDefinedOp /\ ~Hidden /\ Tok.id \in DOMAIN macroMap
Macro == macroMap[Tok.id]

NotMacro ==
  /\ Live
  /\ ~IsDefinedOp
  /\ Hidden \/ Tok.id \notin DOMAIN macroMap
  /\ Take(1, <<Tok>>)

HandleTheFileMacro ==
  IsMacro /\ Macro.kind = "__FILE__" /\ Take(1, <<Constant(Tok, Quoted(<< <<"file">> >>))>>)

HandleTheLineMacro ==
  IsMacro /\ Macro.kind = "__LINE__" /\ Take(1, <<Constant(Tok, <<"1", "line">>)>>)

\* Expand goes on after the first n tokens once Subst has built the replacement.
CallSubst(n, hs, params) ==
  /\ frames' = Below \o <<[Top EXCEPT !.is = SubSeq(@, n + 1, Len(@)), !.atStart = FALSE],
                          SubstFrame(Tokens(Macro.body), hs, params)>>
  /\ UNCHANGED <<macroMap, context, text, status>>

ExpandObject ==
  /\ IsMacro
  /\ Macro.kind = "object"
  /\ CallSubst(1, Tok.hs \cup {Tok.id}, << >>)

(* The hide set is that of the closing parenthesis and not, as the comment *)
(* has it, what it has in common with the name's.                          *)
\* A bug to be caught: the macro is not hidden in its own replacement.
ExpandFunctionAgain ==
  /\ IsMacro
  /\ Macro.kind = "function"
  /\ Is(2, Open)
  /\ LET s == SubSeq(Top.is, 3, Len(Top.is))
         rpar == IF Macro.params = << >> /\ ~Macro.variadic THEN 1 ELSE Closing(s)
     IN IF Misfits(Macro, s) THEN Error
        ELSE CallSubst(2 + rpar, s[rpar].hs, ActualParams(Macro, s))

ExpandFunction ==
  /\ IsMacro
  /\ Macro.kind = "function"
  /\ Is(2, Open)
  /\ LET s == SubSeq(Top.is, 3, Len(Top.is))
         rpar == IF Macro.params = << >> /\ ~Macro.variadic THEN 1 ELSE Closing(s)
     IN IF Misfits(Macro, s) THEN Error
        ELSE CallSubst(2 + rpar, s[rpar].hs \cup {Tok.id}, ActualParams(Macro, s))

NameOnly == IsMacro /\ Macro.kind = "function" /\ ~Is(2, Open) /\ Take(1, <<Tok>>)

(* The loop ends.  What an argument became goes to the output of the Subst *)
(* that asked for it.                                                      *)
ReturnFromExpand ==
  /\ Running("Expand")
  /\ Top.is = << >>
  /\ IF Len(frames) = 1
       THEN Stop("done")
       ELSE /\ frames' = [Below EXCEPT ![Len(Below)].os = @ \o Top.os]
            /\ UNCHANGED <<macroMap, context, text, status>>

-----------------------------------------------------------------------------
(* The turns of Subst's loop.                                              *)
IsParam(i) == i <= Len(Top.is) /\ Top.is[i].id \in DOMAIN Top.params
Actual(i) == Top.params[Top.is[i].id]

SubstTurn == Running("Subst") /\ Top.is # << >>

Stringize(ap) == Quoted([i \in DOMAIN ap |-> ap[i].id])

SubstStringize ==
  /\ SubstTurn
  /\ Is(1, Hash) /\ IsParam(2)
  /\ Take(2, <<[id |-> Stringize(Actual(2)), hs |-> {}]>>)

\* Only words join to a token.
Joins(lhs, rhs) == IsWord(lhs.id) /\ IsWord(rhs.id)
Joined(lhs, rhs) == [lhs EXCEPT !.id = @ \o rhs.id]

(* Glue joins the last token of the output and the first of rhs.  Without  *)
(* an output there is no last token.                                       *)
Glue(rhs) ==
  IF Top.os = << >> THEN Stop("undefined")
  ELSE LET lhs == Last(Top.os)
       IN IF ~Joins(lhs, rhs[1]) THEN Error
          ELSE /\ ReplaceTop([Top EXCEPT !.is = SubSeq(@, 3, Len(@)),
                                         !.os = Front(@) \o <<Joined(lhs, rhs[1])>> \o Tail(rhs)])
               /\ UNCHANGED <<macroMap, context, text, status>>

GlueParam ==
  /\ SubstTurn
  /\ Is(1, HashHash) /\ IsParam(2)
  /\ IF Actual(2) = << >> THEN Take(2, << >>) ELSE Glue(Actual(2))

GlueToken ==
  /\ SubstTurn
  /\ Is(1, HashHash) /\ ~IsParam(2) /\ Len(Top.is) > 1
  /\ Glue(<<Top.is[2]>>)

(* A parameter before ## is not expanded.  If it is empty there is nothing *)
(* to join, and neither is a parameter after the ## expanded.              *)
ParamBeforeGlue ==
  /\ SubstTurn
  /\ IsParam(1) /\ Is(2, HashHash)
  /\ IF Actual(1) # << >> THEN Take(1, Actual(1))
     ELSE IF IsParam(3) THEN Take(3, Actual(3))
     ELSE Take(2, << >>)

\* A bug to be caught: the argument is put in as it was written.
SubstParamUnexpanded ==
  /\ SubstTurn
  /\ IsParam(1) /\ ~Is(2, HashHash)
  /\ Take(1, Actual(1))

SubstParam ==
  /\ SubstTurn
  /\ IsParam(1) /\ ~Is(2, HashHash)
  /\ frames' = Below \o <<[Top EXCEPT !.is = Tail(@)], ExpandFrame(Actual(1), TRUE, FALSE)>>
  /\ UNCHANGED <<macroMap, context, text, status>>

SubstCopy ==
  /\ SubstTurn
  /\ ~(Is(1, Hash) /\ IsParam(2)) /\ ~Is(1, HashHash) /\ ~IsParam(1)
  /\ Take(1, <<Top.is[1]>>)

FinalizeSubst(os, hs) == [i \in DOMAIN os |-> [os[i] EXCEPT !.hs = @ \cup hs]]

\* A bug to be caught: the replacement is not scanned again.
ReturnFromSubstUnscanned ==
  /\ Running("Subst")
  /\ Top.is = << >>
  /\ frames' = [Below EXCEPT ![Len(Below)].os = @ \o FinalizeSubst(Top.os, Top.hs)]
  /\ UNCHANGED <<macroMap, context, text, status>>

(* The replacement gets its hide set and takes the macro's place.          *)
ReturnFromSubst ==
  /\ Running("Subst")
  /\ Top.is = << >>
  /\ frames' = [Below EXCEPT ![Len(Below)].is = FinalizeSubst(Top.os, Top.hs) \o @]
  /\ UNCHANGED <<macroMap, context, text, status>>

Expand ==
  \/ Directive \/ Discard \/ EvalDefOp \/ NotMacro
  \/ HandleTheFileMacro \/ HandleTheLineMacro
  \/ ExpandObject \/ ExpandFunction \/ NameOnly
  \/ ReturnFromExpand

Subst ==
  \/ SubstStringize \/ GlueParam \/ GlueToken \/ ParamBeforeGlue
  \/ SubstParam \/ SubstCopy
  \/ ReturnFromSubst

Next == Expand \/ Subst

\* The loops run until they end.
Spec == Init /\ [][Next]_vars /\ WF_vars(Next)
-----------------------------------------------------------------------------
IsObjectMacro(tok) == tok.id \in DOMAIN macroMap /\ macroMap[tok.id].kind # "function"

(* What Expand has put out needs no further look: every object-like macro  *)
(* name in it is hidden.                                                   *)
Settled(toks) == \A i \in DOMAIN toks : IsObjectMacro(toks[i]) => toks[i].id \in toks[i].hs
OutputSettled ==
  \A k \in DOMAIN frames : frames[k].proc = "Expand" => Settled(frames[k].os)

(* The expansion ends: whatever the macros, a name cannot bring itself     *)
(* back for ever.                                                          *)
Terminates == <>(status # "running")
=============================================================================
