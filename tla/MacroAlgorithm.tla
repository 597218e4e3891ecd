--------------------------- MODULE MacroAlgorithm -------------------------
(***************************************************************************)
(* The algorithm of macro expansion that README.md refers to, D. Prosser's *)
(* (doc/cpp.algo.pdf), as recursive functions on sequences of tokens with  *)
(* hide sets, and what the preprocessor's loops compute of it.  It differs *)
(* in the hide sets, as the comments in Expand say: here too the one of a  *)
(* function-like macro's result is that of its closing parenthesis, and a  *)
(* joined token has that of its left operand.                              *)
(***************************************************************************)
EXTENDS MacroExpand

\* The result for what is not correct C.
Rejected == <<[id |-> <<"rejected">>, hs |-> {}]>>

Join(r, s) == IF Rejected \in {r, s} THEN Rejected ELSE r \o s
Drop(n, s) == SubSeq(s, n + 1, Len(s))
Begins(s, id) == s # << >> /\ Head(s).id = id

\* Joins the last token of os and the first of rhs; an operand may be missing.
GlueTogether(os, rhs) ==
  IF os = << >> \/ rhs = << >> THEN os \o rhs
  ELSE IF Joins(Last(os), Head(rhs)) THEN Front(os) \o <<Joined(Last(os), Head(rhs))>> \o Tail(rhs)
  ELSE Rejected

RECURSIVE Expansion(_, _, _, _), Substitution(_, _, _, _, _, _)

(* The expansion of ts with the macros of table, in a condition or not.    *)
(* Arguments are expanded (kept), or come to nothing.                      *)
Expansion(table, ts, inCond, kept) ==
  IF ts = << >> THEN << >>
  ELSE
    LET tok == Head(ts)
        rest == Tail(ts)
        macro == table[tok.id]
        isMacro == tok.id \notin tok.hs /\ tok.id \in DOMAIN table
        Keep == Join(<<tok>>, Expansion(table, rest, inCond, kept))
        Rescan(is, hs, params, after) ==
          LET os == Substitution(table, Tokens(is), params, hs, << >>, kept)
          IN IF os = Rejected THEN Rejected ELSE Expansion(table, os \o after, inCond, kept)
    IN CASE inCond /\ tok.id = Defined ->
              LET Answer(name, n) ==
                    Join(<<Constant(name, IF name.id \in DOMAIN table THEN <<"1">> ELSE <<"0">>)>>,
                         Expansion(table, Drop(n, rest), inCond, kept))
              IN IF Len(rest) > 2 /\ rest[1].id = Open /\ IsIdentifier(rest[2].id)
                      /\ rest[3].id = Close
                   THEN Answer(rest[2], 3)
                 ELSE IF rest # << >> /\ IsIdentifier(rest[1].id) THEN Answer(rest[1], 1)
                 ELSE Rejected
         [] ~(inCond /\ tok.id = Defined) /\ ~isMacro -> Keep
         [] ~(inCond /\ tok.id = Defined) /\ isMacro ->
              CASE macro.kind = "__FILE__" ->
                     Join(<<Constant(tok, Quoted(<< <<"file">> >>))>>, Expansion(table, rest, inCond, kept))
                [] macro.kind = "__LINE__" ->
                     Join(<<Constant(tok, <<"1", "line">>)>>, Expansion(table, rest, inCond, kept))
                [] macro.kind = "object" ->
                     Rescan(macro.body, tok.hs \cup {tok.id}, << >>, rest)
                [] macro.kind = "function" /\ ~Begins(rest, Open) -> Keep
                [] macro.kind = "function" /\ Begins(rest, Open) ->
                     LET s == Tail(rest)
                     IN IF Misfits(macro, s) THEN Rejected
                        ELSE Rescan(macro.body, s[Closing(s)].hs \cup {tok.id},
                                    ActualParams(macro, s), Drop(Closing(s), s))

\* os followed by is, with # and ## done and the parameters replaced by ap.
Substitution(table, is, ap, hs, os, kept) ==
  LET Param(i) == i <= Len(is) /\ is[i].id \in DOMAIN ap
      Actually(i) == ap[is[i].id]
      Go(n, out) == IF out = Rejected THEN Rejected
                    ELSE Substitution(table, Drop(n, is), ap, hs, out, kept)
  IN IF is = << >> THEN FinalizeSubst(os, hs)
     ELSE IF Begins(is, Hash) /\ Param(2)
       THEN Go(2, os \o <<[id |-> Stringize(Actually(2)), hs |-> {}]>>)
     ELSE IF Begins(is, HashHash)
       THEN Go(2, GlueTogether(os, IF Param(2) THEN Actually(2) ELSE <<is[2]>>))
     ELSE IF Param(1) /\ Begins(Tail(is), HashHash)
       THEN IF Actually(1) # << >> THEN Go(1, os \o Actually(1))
            ELSE IF Param(3) THEN Go(3, os \o Actually(3))
            ELSE Go(2, os)
     ELSE IF Param(1) THEN Go(1, IF kept THEN Join(os, Expansion(table, Actually(1), FALSE, kept)) ELSE os)
     ELSE Go(1, os \o <<Head(is)>>)

-----------------------------------------------------------------------------
(* A known gap.  The condition of #elif is expanded while the entry of the *)
(* branches that failed is on top, and Subst does not pass on that it is in*)
(* a condition: what is put in for a parameter is discarded as skipped text*)
(* is.                                                                     *)
ArgumentsLost == context.inCond /\ ~context.live

\* Skipped text comes to nothing.
Expected ==
  IF context.live \/ context.inCond
    THEN Expansion(macroMap, Tokens(text), context.inCond, ~ArgumentsLost)
  ELSE << >>

(* The loops compute what the algorithm does, hide sets included, and      *)
(* report an error for nothing else, in text and in the condition of #if:  *)
(* the arguments of a macro are expanded in a condition as they are in     *)
(* text.  In the condition of #elif the expanded arguments are missing     *)
(* (ArgumentsLost), and all else is as it is in #if: what is quoted or     *)
(* joined, what comes from the macros' own tokens, and "defined".  Skipped *)
(* text comes to nothing.                                                  *)
ExpandsAsAlgorithm ==
  /\ status = "done" => frames[1].os = Expected
  /\ status = "rejected" => Expected = Rejected
=============================================================================
