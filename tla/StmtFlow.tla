----------------------------- MODULE StmtFlow -----------------------------
(***************************************************************************)
(* Where control goes in a function: as C11 (6.8) says of its statements,  *)
(* and in the code they were lowered to.  Both are reduced to what can be  *)
(* observed, the expressions evaluated and the conditions tested, in their *)
(* order: from each of these, and for each outcome, which one is next.     *)
(***************************************************************************)
EXTENDS StmtLowering, FiniteSetsExt

Observed == {"expr", "return", "test", "init", "step", "switch"}
End == <<0, "end">>        \* control leaves the function
Diverges == <<0, "loop">>  \* control goes round without observing anything

\* What a test or a switch may see; a value that no case has among them.
CaseValues == UNION {range[1]..range[2] : range \in CaseRanges}
Outcomes(role) ==
  CASE role = "test" -> BOOLEAN
    [] role = "switch" -> CaseValues \cup {1 + Max(CaseValues \cup {0})}
    [] OTHER -> {TRUE}

\* Steps from start until Stop, at most fuel of them.
Run(Step(_), Stop(_), start, fuel) ==
  LET at[k \in 0..fuel] ==
        IF k = 0 THEN start
        ELSE LET before == at[k - 1] IN IF Stop(before) THEN before ELSE Step(before)
  IN at[fuel]

-----------------------------------------------------------------------------
(* The statements.  A point is <<n, role>>: before, or after, statement n, *)
(* where its continue goes, or something observed of it.                   *)
Kind(n) == source[n].kind

Children(n, branch) == {m \in DOMAIN source : source[m].parent = n /\ source[m].branch = branch}
Substatement(n) == CHOOSE m \in Children(n, 1) : TRUE
Siblings(n) == {m \in Children(source[n].parent, source[n].branch) : m > n}

Ancestors[n \in 0..MaxStmts] ==
  IF n \notin DOMAIN source \/ source[n].parent = 0 THEN {}
  ELSE {source[n].parent} \cup Ancestors[source[n].parent]

\* The innermost statement of these kinds around n, 0 if there is none.
Enclosing(n, kinds) == Max({0} \cup {m \in Ancestors[n] : Kind(m) \in kinds})

CasesOf(n) == {m \in DOMAIN source : Kind(m) = "case" /\ Enclosing(m, {"switch"}) = n}
HasCase(m, value) == value \in source[m].arg[1]..source[m].arg[2]
DefaultsOf(n) == {m \in DOMAIN source : Kind(m) = "default" /\ Enclosing(m, {"switch"}) = n}

Labelled(name) == CHOOSE m \in DOMAIN source : Kind(m) = "label" /\ source[m].arg = name

Before(n) == <<n, "before">>
After(n) == <<n, "after">>

FromBefore(n) ==
  CASE Kind(n) \in {"expr", "return", "switch"} -> <<n, Kind(n)>>
    [] Kind(n) \in {"if", "while"} -> <<n, "test">>
    [] Kind(n) \in {"for", "forever"} -> <<n, "init">>
    [] Kind(n) = "block" -> IF Children(n, 1) = {} THEN After(n) ELSE Before(Min(Children(n, 1)))
    [] Kind(n) \in {"do", "case", "default", "label"} -> Before(Substatement(n))
    [] Kind(n) = "break" -> After(Enclosing(n, BreakTargets))
    [] Kind(n) = "continue" -> <<Enclosing(n, Loops), "continue">>
    [] Kind(n) = "goto" -> Before(Labelled(source[n].arg))

FromAfter(n) ==
  LET p == source[n].parent
  IN CASE p = 0 -> End
       [] p # 0 /\ Kind(p) \in Loops -> <<p, "continue">>
       [] p # 0 /\ Kind(p) = "block" /\ Siblings(n) # {} -> Before(Min(Siblings(n)))
       [] OTHER -> After(p)

\* A for without a condition goes on as if it had one that is true.
Untested(p) == p[2] = "test" /\ Kind(p[1]) = "forever"

IsStop(p) == p = End \/ (p[2] \in Observed /\ ~Untested(p))

SilentStep(p) ==
  CASE p[2] = "before" -> FromBefore(p[1])
    [] p[2] = "after" -> FromAfter(p[1])
    [] p[2] = "continue" -> <<p[1], IF Kind(p[1]) \in {"while", "do"} THEN "test" ELSE "step">>
    [] p[2] = "test" -> Before(Substatement(p[1]))

FromObserved(n, role, outcome) ==
  CASE role = "expr" -> After(n)
    [] role \in {"init", "step"} -> <<n, "test">>
    [] role = "return" -> End
    [] role = "test" /\ Kind(n) = "if" ->
         LET taken == Children(n, IF outcome THEN 1 ELSE 2)
         IN IF taken = {} THEN After(n) ELSE Before(Min(taken))
    [] role = "test" /\ Kind(n) \in Loops ->
         IF outcome THEN Before(Substatement(n)) ELSE After(n)
    [] role = "switch" ->
         LET cases == {m \in CasesOf(n) : HasCase(m, outcome)}
             chosen == IF cases = {} THEN DefaultsOf(n) ELSE cases
         IN IF chosen = {} THEN After(n) ELSE Before(Min(chosen))

SourceFrom(p) ==
  LET last == Run(SilentStep, IsStop, p, 4 * Len(source) + 2)
  IN IF IsStop(last) THEN last ELSE Diverges

-----------------------------------------------------------------------------
(* The code, with the instruction counter as the point.                    *)
Place(l) == CHOOSE i \in DOMAIN code : code[i].op = "label" /\ code[i].at = l

CodeStops(pc) == pc > Len(code) \/ code[pc].op \in {"eval", "test"}

\* A silent step while the switched variable holds value.
CodeStep(pc, value) ==
  CASE code[pc].op = "jump" -> Place(code[pc].to)
    [] code[pc].op = "match" /\ code[pc].value = value -> Place(code[pc].to)
    [] OTHER -> pc + 1

CodeFrom(start, value) ==
  LET Step(pc) == CodeStep(pc, value)
      last == Run(Step, CodeStops, start, Len(code) + 1)
  IN IF ~CodeStops(last) THEN Diverges
     ELSE IF last > Len(code) THEN End
     ELSE code[last].at

CodeAfter(pc, outcome) ==
  CASE code[pc].at[2] = "test" -> CodeFrom(IF outcome THEN pc + 1 ELSE Place(code[pc].to), 0)
    [] code[pc].at[2] = "switch" -> CodeFrom(pc + 1, outcome)
    [] code[pc].at[2] = "return" -> End
    [] OTHER -> CodeFrom(pc + 1, 0)

-----------------------------------------------------------------------------
(* What C11 does not allow, but the parser accepts.                        *)
Valid ==
  /\ \A m \in DOMAIN source :
       Kind(m) \in {"case", "default"} => Enclosing(m, {"switch"}) # 0
  /\ \A m, k \in DOMAIN source :
       m # k /\ Kind(m) = "case" /\ k \in CasesOf(Enclosing(m, {"switch"})) =>
         \A value \in CaseValues : ~(HasCase(m, value) /\ HasCase(k, value))

SameFlow ==
  /\ CodeFrom(1, 0) = SourceFrom(Before(1))
  /\ \A pc \in DOMAIN code : code[pc].op \in {"eval", "test"} =>
       \A outcome \in Outcomes(code[pc].at[2]) :
         CodeAfter(pc, outcome)
           = SourceFrom(FromObserved(code[pc].at[1], code[pc].at[2], outcome))

ContinuesDo(n) == Kind(n) = "continue" /\ Kind(Enclosing(n, Loops)) = "do"

(* The code evaluates and tests what the statements do, in their order,    *)
(* whatever the outcomes: the jumps of nested loops, switches, ifs and     *)
(* gotos lead where C11 says.  All functions but those that continue a do. *)
FlowKept ==
  status = "done" /\ Valid /\ ~(\E n \in DOMAIN source : ContinuesDo(n)) => SameFlow

(* The same of functions that continue a do: the condition is tested.      *)
ContinueTestsCondition ==
  status = "done" /\ Valid => SameFlow

(* Every target of the finished code is a label placed exactly once.       *)
TargetsPlaced ==
  status = "done" =>
    \A i \in DOMAIN code : code[i].op \in {"jump", "test", "match"} =>
      Cardinality({j \in DOMAIN code : code[j].op = "label" /\ code[j].at = code[i].to}) = 1
=============================================================================
