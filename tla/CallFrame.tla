----------------------------- MODULE CallFrame ----------------------------
(***************************************************************************)
(* The stack frame of one function as Generator of src/src/code_gen.cc     *)
(* lays it out: the prologue, the objects of its scopes, the temporaries   *)
(* of expressions and the arguments and results of calls.  There is no     *)
(* push in the code it emits: every slot is at an offset from %rbp that    *)
(* the generator knows, offset_ is the lowest in use, and %rsp is set from *)
(* it at a call.                                                           *)
(*                                                                         *)
(* The visits in progress are a stack, outermost first.  Between two of    *)
(* their steps any expression may be visited, for its value or, in front   *)
(* of a comma, for nothing.                                                *)
(***************************************************************************)
EXTENDS Alignment, FiniteSets, SequencesExt

CONSTANTS
  Types,       \* of objects, arguments and results: [class, width, align]
  Functions,   \* the signatures: [params, ret, variadic]
  Calls,       \* the calls: [callee, args]
  Scopes,      \* the sets of objects, [id, type], that a scope may declare
  NReg, NXreg, \* regs.size() and xregs.size()
  MaxScopes, MaxNesting,
  NoFunc, NoCall, NoStruct

ASSUME FrameAssumption ==
  /\ \A t \in Types : /\ t.class \in {"INTEGER", "SSE", "MEMORY", "ARRAY"}
                      /\ t.width \in Nat \ {0} /\ t.align \in Nat \ {0}
  /\ \A f \in Functions : /\ f.params \in Seq(Types) /\ f.ret \in Types
                          /\ f.variadic \in BOOLEAN
  /\ \A c \in Calls : c.callee \in Functions /\ c.args \in Seq(Types)
  /\ \A objects \in Scopes : \A o \in objects : o.type \in Types
  /\ NReg \in Nat \ {0} /\ NXreg \in Nat
  /\ MaxScopes \in Nat /\ MaxNesting \in Nat
  /\ NoFunc \notin Functions /\ NoCall \notin Calls

\* What FuncCall::TypeChecking() lets through: each parameter has its argument, cast to
\* its type, and only a variadic function has more.  Arrays have become pointers, what
\* goes in a register has at most eight bytes, and alignments are powers of two.
ASSUME CallAssumption ==
  \A c \in Calls :
    /\ Len(c.callee.params) <= Len(c.args)
    /\ \A i \in DOMAIN c.callee.params : c.args[i] = c.callee.params[i]
    /\ Len(c.callee.params) = Len(c.args) \/ c.callee.variadic
    /\ \A t \in {c.args[i] : i \in DOMAIN c.args} \cup {c.callee.ret} :
         IF t.class = "MEMORY" THEN t.align <= 8 => 8 % t.align = 0
         ELSE t.class # "ARRAY" /\ t.width <= 8

VARIABLES
  curFunc,   \* curFunc_, NoFunc in front of it
  prologue,  \* where the parameters are so far, and where the next will be
  offset,    \* offset_
  slots,     \* the parts of the frame that are in use, in the order they were taken
  scopes,    \* how many scopes were entered
  heap,      \* AllocObjects()'s heap: the objects that have no offset yet
  pending,   \* the visits in progress
  value,     \* the struct that the last call returned, if nothing has followed
  call       \* the call just emitted

vars == <<curFunc, prologue, offset, slots, scopes, heap, pending, value, call>>

\* arg is the argument that a slot holds, or 0; whole is FALSE if copying has spoilt it.
Slot == [lo : Int, hi : Int, arg : Nat, whole : BOOLEAN]
SlotAt(lo, width) == [lo |-> lo, hi |-> lo + width, arg |-> 0, whole |-> TRUE]

\* base is offset_ in front of the visit, depth the number of slots then; left are the
\* arguments still to be visited, and result is retStructOffset.
Visit == [stage : {"spilled", "args", "designator"}, base : Int, depth : Nat,
          call : Calls \cup {NoCall}, left : SUBSET Nat, result : Int]

TypeOK ==
  /\ curFunc \in Functions \cup {NoFunc}
  /\ prologue \in [params : Seq(Int), mem : Nat, reg : Int, xreg : Int]
  /\ offset \in Int
  /\ slots \in Seq(Slot)
  /\ scopes \in 0..MaxScopes
  /\ \E objects \in Scopes \cup {{}} : heap \subseteq objects
  /\ pending \in Seq(Visit) /\ Len(pending) <= MaxNesting
  /\ \A k \in DOMAIN pending : pending[k].depth <= Len(slots)
  /\ value \in [lo : Int, type : Types] \cup {NoStruct}
  /\ call \in [of : Calls, rsp : Int, slots : Seq(Slot)] \cup {NoCall}

Init ==
  /\ curFunc = NoFunc
  /\ prologue = [params |-> <<>>, mem |-> 16, reg |-> 0, xreg |-> 0]
  /\ offset = 0
  /\ slots = <<>>
  /\ scopes = 0
  /\ heap = {}
  /\ pending = <<>>
  /\ value = NoStruct
  /\ call = NoCall

-----------------------------------------------------------------------------
\* GetParamLocations().  A struct is returned through a pointer in the first register.
Hidden(f) == IF f.ret.class = "MEMORY" THEN 1 ELSE 0
Before(types, i, class) == Cardinality({j \in 1..(i - 1) : types[j].class = class})

InRegister(types, hidden, i) ==
  \/ types[i].class = "INTEGER" /\ hidden + Before(types, i, "INTEGER") < NReg
  \/ types[i].class = "SSE" /\ Before(types, i, "SSE") < NXreg

RegArgs(types, hidden) == {i \in DOMAIN types : InRegister(types, hidden, i)}
MemArgs(types, hidden) == DOMAIN types \ RegArgs(types, hidden)

RegArgsOf(c) == RegArgs(c.args, Hidden(c.callee))
MemArgsOf(c) == MemArgs(c.args, Hidden(c.callee))

\* regCnt_ counts the register of the hidden pointer, locs_ does not: the difference is
\* one too low for a struct result, and -1 stands for the largest size_t, of which
\* eight times is -8 again.
ByMemCnt(c) == Len(c.args) - (Hidden(c.callee) + Cardinality(RegArgsOf(c)))

-----------------------------------------------------------------------------
SaveArea == 8 * NReg + 16 * NXreg

Take(slot) == slots' = Append(slots, slot)
Quiet == value' = NoStruct /\ call' = NoCall

VisitFuncDef(f) ==
  LET begin == IF f.variadic THEN -SaveArea ELSE 0
      ret == IF f.variadic THEN begin ELSE begin - 8
      saved == IF f.variadic THEN <<SlotAt(begin, SaveArea)>> ELSE <<>>
      low == IF Hidden(f) = 0 THEN begin ELSE IF f.variadic THEN begin + 8 ELSE ret
  IN  /\ curFunc = NoFunc
      /\ curFunc' = f
      /\ slots' = IF Hidden(f) = 0 THEN saved ELSE Append(saved, SlotAt(ret, 8))
      /\ offset' = low
      /\ prologue' = [prologue EXCEPT !.reg = low, !.xreg = low + 8 * NReg]
      /\ Quiet
      /\ UNCHANGED <<scopes, heap, pending>>

Storing(i) == i = Len(prologue.params) + 1
ParamInRegister(i) == InRegister(curFunc.params, Hidden(curFunc), i)

\* A bug to be caught: the next parameter in memory follows without padding.
StoreMemoryParamPacked(i) ==
  /\ Storing(i)
  /\ ~ParamInRegister(i)
  /\ prologue' = [prologue EXCEPT
                    !.params = Append(@, prologue.mem),
                    !.mem = @ + curFunc.params[i].width]
  /\ Quiet
  /\ UNCHANGED <<curFunc, offset, slots, scopes, heap, pending>>

StoreMemoryParam(i) ==
  /\ Storing(i)
  /\ ~ParamInRegister(i)
  /\ prologue' = [prologue EXCEPT
                    !.params = Append(@, prologue.mem),
                    !.mem = MakeAlign(@ + curFunc.params[i].width, 8)]
  /\ Quiet
  /\ UNCHANGED <<curFunc, offset, slots, scopes, heap, pending>>

StoreSavedParam(i) ==
  /\ Storing(i)
  /\ ParamInRegister(i)
  /\ curFunc.variadic
  /\ prologue' = IF curFunc.params[i].class = "SSE"
                 THEN [prologue EXCEPT !.params = Append(@, prologue.xreg), !.xreg = @ + 16]
                 ELSE [prologue EXCEPT !.params = Append(@, prologue.reg), !.reg = @ + 8]
  /\ Quiet
  /\ UNCHANGED <<curFunc, offset, slots, scopes, heap, pending>>

StorePushedParam(i) ==
  /\ Storing(i)
  /\ ParamInRegister(i)
  /\ ~curFunc.variadic
  /\ offset' = offset - 8
  /\ Take(SlotAt(offset - 8, 8))
  /\ prologue' = [prologue EXCEPT !.params = Append(@, offset - 8)]
  /\ Quiet
  /\ UNCHANGED <<curFunc, scopes, heap, pending>>

StoreParam ==
  /\ curFunc # NoFunc
  /\ \E i \in DOMAIN curFunc.params :
       StoreMemoryParam(i) \/ StoreSavedParam(i) \/ StorePushedParam(i)

InBody ==
  /\ curFunc # NoFunc
  /\ Len(prologue.params) = Len(curFunc.params)
  /\ heap = {}

EnterScope(objects) ==
  /\ InBody
  /\ pending = <<>>
  /\ scopes < MaxScopes
  /\ scopes' = scopes + 1
  /\ heap' = objects
  /\ Quiet
  /\ UNCHANGED <<curFunc, prologue, offset, slots, pending>>

Smaller(a, b) == IF a <= b THEN a ELSE b

\* A turn of AllocObjects(), whose heap gives any of the objects of the largest alignment.
AllocObject(o) ==
  LET align == IF o.type.class = "ARRAY" THEN Smaller(o.type.align, 8) ELSE o.type.align
      lo == MakeAlign(offset - o.type.width, align)
  IN  /\ o \in heap
      /\ \A p \in heap : p.type.align <= o.type.align
      /\ heap' = heap \ {o}
      /\ offset' = lo
      /\ Take(SlotAt(lo, o.type.width))
      /\ Quiet
      /\ UNCHANGED <<curFunc, prologue, scopes, pending>>

-----------------------------------------------------------------------------
Top == Last(pending)

Begin(visit) ==
  /\ InBody
  /\ Len(pending) < MaxNesting
  /\ pending' = Append(pending, visit)

\* A bug to be caught: the push is forgotten, and the pop is not.
SpillNothing ==
  /\ Begin([stage |-> "spilled", base |-> offset, depth |-> Len(slots),
            call |-> NoCall, left |-> {}, result |-> 0])
  /\ Quiet
  /\ UNCHANGED <<curFunc, prologue, offset, slots, scopes, heap>>

\* The left operand while the right is visited, or the address to assign to.
Spill ==
  /\ Begin([stage |-> "spilled", base |-> offset, depth |-> Len(slots),
            call |-> NoCall, left |-> {}, result |-> 0])
  /\ offset' = offset - 8
  /\ Take(SlotAt(offset - 8, 8))
  /\ Quiet
  /\ UNCHANGED <<curFunc, prologue, scopes, heap>>

Restore ==
  /\ pending # <<>>
  /\ Top.stage = "spilled"
  /\ offset' = offset + 8
  /\ slots' = Front(slots)
  /\ pending' = Front(pending)
  /\ Quiet
  /\ UNCHANGED <<curFunc, prologue, scopes, heap>>

RetStructOffset(c) ==
  IF Hidden(c.callee) = 0 THEN offset
  ELSE MakeAlign(offset - c.callee.ret.width, c.callee.ret.align)

\* A call in the expression for the function would load the registers anew.
EnterCall(c, low) ==
  LET ret == RetStructOffset(c)
  IN  /\ \A k \in DOMAIN pending : pending[k].stage # "designator"
      /\ Begin([stage |-> "args", base |-> offset, depth |-> Len(slots),
                call |-> c, left |-> DOMAIN c.args, result |-> ret])
      /\ offset' = low
      /\ slots' = IF Hidden(c.callee) = 0 THEN slots
                  ELSE Append(slots, SlotAt(ret, c.callee.ret.width))
      /\ Quiet
      /\ UNCHANGED <<curFunc, prologue, scopes, heap>>

\* The offset at which arguments in memory end up on 16 bytes, if they are 8 wide each.
AlignFrame(low, n) == MakeAlign(low - n * 8, 16) + n * 8

\* A bug to be caught: the arguments are not kept clear of the result.
BeginCallOverResult(c) == EnterCall(c, AlignFrame(offset, ByMemCnt(c)))

\* A bug to be caught: the arguments in memory are forgotten when the frame is aligned.
BeginCallUncounted(c) == EnterCall(c, AlignFrame(RetStructOffset(c), 0))

BeginCall(c) == EnterCall(c, AlignFrame(RetStructOffset(c), ByMemCnt(c)))

\* A bug to be caught: the arguments in registers are visited from the first on.
NextArgUpwards(visit, i) ==
  LET memory == visit.left \cap MemArgsOf(visit.call)
  IN  \/ i \in memory /\ \A j \in memory : j <= i
      \/ memory = {} /\ i \in visit.left /\ \A j \in visit.left : i <= j

\* The arguments in memory are visited and pushed first, either kind from the last on.
NextArg(visit, i) ==
  LET memory == visit.left \cap MemArgsOf(visit.call)
  IN  \/ i \in memory /\ \A j \in memory : j <= i
      \/ memory = {} /\ i \in visit.left /\ \A j \in visit.left : j <= i

\* CopyStruct() copies upwards.
CopiedWhole(from, to, width) == to <= from \/ from + width <= to

\* The value pushed is that of an object, or what a call has just returned.
PushArg(i) ==
  LET type == Top.call.args[i]
      width == IF type.class = "MEMORY" THEN type.width ELSE 8
      lo == IF type.class = "MEMORY" THEN MakeAlign(offset - width, 8) ELSE offset - 8
  IN  /\ pending # <<>>
      /\ Top.stage = "args"
      /\ NextArg(Top, i)
      /\ \E whole \in BOOLEAN :
           /\ \/ whole
              \/ /\ value # NoStruct
                 /\ value.type = type
                 /\ whole = CopiedWhole(value.lo, lo, width)
           /\ Take([lo |-> lo, hi |-> lo + width, arg |-> i, whole |-> whole])
      /\ offset' = lo
      /\ pending' = [pending EXCEPT ![Len(pending)].left = @ \ {i}]
      /\ Quiet
      /\ UNCHANGED <<curFunc, prologue, scopes, heap>>

\* The pops of the arguments in registers, in their order.
LoadArgs ==
  LET n == Cardinality(RegArgsOf(Top.call))
  IN  /\ pending # <<>>
      /\ Top.stage = "args"
      /\ Top.left = {}
      /\ offset' = offset + 8 * n
      /\ slots' = SubSeq(slots, 1, Len(slots) - n)
      /\ pending' = [pending EXCEPT ![Len(pending)].stage = "designator"]
      /\ Quiet
      /\ UNCHANGED <<curFunc, prologue, scopes, heap>>

\* A bug to be caught: the stack frame is not reset behind the call.
CallWithoutReset ==
  LET c == Top.call
  IN  /\ pending # <<>>
      /\ Top.stage = "designator"
      /\ call' = [of |-> c, rsp |-> offset,
                  slots |-> SubSeq(slots, Top.depth + 1 + Hidden(c.callee), Len(slots))]
      /\ value' = IF Hidden(c.callee) = 0 THEN NoStruct
                  ELSE [lo |-> Top.result, type |-> c.callee.ret]
      /\ slots' = SubSeq(slots, 1, Top.depth)
      /\ pending' = Front(pending)
      /\ UNCHANGED <<curFunc, prologue, offset, scopes, heap>>

Call ==
  LET c == Top.call
  IN  /\ pending # <<>>
      /\ Top.stage = "designator"
      /\ call' = [of |-> c, rsp |-> offset,
                  slots |-> SubSeq(slots, Top.depth + 1 + Hidden(c.callee), Len(slots))]
      /\ value' = IF Hidden(c.callee) = 0 THEN NoStruct
                  ELSE [lo |-> Top.result, type |-> c.callee.ret]
      /\ offset' = Top.base
      /\ slots' = SubSeq(slots, 1, Top.depth)
      /\ pending' = Front(pending)
      /\ UNCHANGED <<curFunc, prologue, scopes, heap>>

Next ==
  \/ \E f \in Functions : VisitFuncDef(f)
  \/ StoreParam
  \/ \E objects \in Scopes : EnterScope(objects)
  \/ \E o \in heap : AllocObject(o)
  \/ Spill
  \/ Restore
  \/ \E c \in Calls : BeginCall(c)
  \/ pending # <<>> /\ \E i \in Top.left : PushArg(i)
  \/ LoadArgs
  \/ Call

Spec == Init /\ [][Next]_vars

-----------------------------------------------------------------------------
\* va_list: the offsets into the save area and that of the next argument in memory.
\* GetParamRegOffsets() hands the type returned to GetParamLocations() as the flag for
\* a struct result, which any type then is.
VaStart(f) ==
  LET regs == RegArgs(f.params, 1)
      Count(class) == Cardinality({i \in regs : f.params[i].class = class})
  IN  [gp |-> 8 * Count("INTEGER"), fp |-> 8 * NReg + 16 * Count("SSE"),
       overflow |-> 16 + 8 * (Len(f.params) - Cardinality(regs))]

FromGp(ap, type) == type.class = "INTEGER" /\ ap.gp < 8 * NReg
FromFp(ap, type) == type.class = "SSE" /\ ap.fp < SaveArea

\* Where va_arg() finds the argument, from the frame pointer of the callee, ...
VaPlace(ap, type) ==
  IF FromGp(ap, type) THEN ap.gp - SaveArea
  ELSE IF FromFp(ap, type) THEN ap.fp - SaveArea
  ELSE ap.overflow

\* ... and what it leaves of the list.
VaArg(ap, type) ==
  IF FromGp(ap, type) THEN [ap EXCEPT !.gp = @ + 8]
  ELSE IF FromFp(ap, type) THEN [ap EXCEPT !.fp = @ + 16]
  ELSE [ap EXCEPT !.overflow = @ + MakeAlign(type.width, 8)]

\* The place of argument i of a call, a further one of the function.
VaArgPlace(f, args, i) ==
  LET ap[k \in Len(f.params)..i] ==
        IF k = Len(f.params) THEN VaStart(f) ELSE VaArg(ap[k - 1], args[k])
  IN  VaPlace(ap[i - 1], args[i])

-----------------------------------------------------------------------------
\* Known gaps of the code, which the properties leave out (see the README).
\* The pointer to the result is stored in the save area's first place, and offset_ is
\* left above it.
SavedResult(f) == f.variadic /\ Hidden(f) = 1
\* A narrow struct result at the top of the frame takes offset_ above the frame.
Shallow(visit) ==
  /\ visit.call # NoCall
  /\ Hidden(visit.call.callee) = 1
  /\ visit.result > -8
\* va_start() is right about the parameters of these.
VaStartRight(f) ==
  /\ f.variadic
  /\ Cardinality({i \in DOMAIN f.params : f.params[i].class = "INTEGER"}) < NReg
  /\ \A i \in DOMAIN f.params \ RegArgs(f.params, 0) : f.params[i].width <= 8

\* Nothing that the function still needs is overwritten by what it stores later: the
\* parts of the frame in use are disjoint, below the saved registers and the return
\* address, and above offset_, from which the next is taken.
Disjoint(s, t) == s.hi <= t.lo \/ t.hi <= s.lo

FrameDisjoint ==
  curFunc # NoFunc /\ ~SavedResult(curFunc) /\ (\A k \in DOMAIN pending : ~Shallow(pending[k])) =>
    \A k \in DOMAIN slots :
      /\ offset <= slots[k].lo /\ slots[k].hi <= 0
      /\ \A j \in 1..(k - 1) : Disjoint(slots[j], slots[k])

\* A pop reads what was pushed for it: Restore() the operand spilled in front of the
\* right one, whatever that called, and VisitFuncCall() for each register the argument
\* that GetParamLocations() gave to it.
PopsTakeTheirOwn ==
  pending # <<>> =>
    /\ Top.stage = "spilled" =>
         Len(slots) = Top.depth + 1 /\ Last(slots).lo = offset
    /\ Top.stage = "args" /\ Top.left = {} =>
         \A i \in RegArgsOf(Top.call) :
           LET n == Cardinality({j \in RegArgsOf(Top.call) : j < i})
               s == slots[Len(slots) - n]
           IN  s.arg = i /\ s.lo = offset + 8 * n

\* A statement ends with the frame as it began: what is in use ends at offset_.
Balanced ==
  curFunc # NoFunc /\ ~SavedResult(curFunc) /\ pending = <<>> /\ slots # <<>> =>
    Last(slots).lo = offset

\* Caller and callee, and va_arg(), agree on where each argument is, and it arrives
\* as it was: the offsets that VisitFuncDef() gives to the parameters are those at
\* which the pushes of VisitFuncCall() and the saved registers lie behind the call.
Arrived(i, place) ==
  LET c == call.of
      args == c.args
  IN  IF i \in RegArgsOf(c)
      THEN LET nth == Before(args, i, args[i].class)
           IN  place = IF args[i].class = "SSE"
                       THEN 8 * NReg + 16 * nth - SaveArea
                       ELSE 8 * (nth + Hidden(c.callee)) - SaveArea
      ELSE \E k \in DOMAIN call.slots :
             LET s == call.slots[k]
             IN  /\ s.arg = i /\ s.lo - call.rsp + 16 = place
                 /\ s.whole \/ args[i].align > 8

ArgsArrive ==
  /\ call # NoCall /\ call.of.callee = curFunc
  /\ ~SavedResult(curFunc) /\ \A k \in DOMAIN pending : ~Shallow(pending[k])
  => \A i \in DOMAIN call.of.args :
      IF i \in DOMAIN curFunc.params
      THEN curFunc.variadic \/ ~ParamInRegister(i) => Arrived(i, prologue.params[i])
      ELSE VaStartRight(curFunc) => Arrived(i, VaArgPlace(curFunc, call.of.args, i))

\* The inductive invariant.  Visit v ends at the slot and the offset where the next one
\* in it began, or that are the last now.
DepthAt(sl, pe, v) == IF v = Len(pe) THEN Len(sl) ELSE pe[v + 1].depth
OffsetAt(off, pe, v) == IF v = Len(pe) THEN off ELSE pe[v + 1].base

\* What is pushed for registers lies without gaps, the least of the arguments last.
ArgsRight(sl, visit, d, off) ==
  LET pushed == RegArgsOf(visit.call) \ visit.left
  IN  /\ d = visit.depth + Hidden(visit.call.callee)
               + Cardinality(DOMAIN visit.call.args \ visit.left)
      /\ pushed # {} => visit.left \cap MemArgsOf(visit.call) = {}
      /\ \A i \in pushed, j \in visit.left : j < i
      /\ \A m \in 0..(Cardinality(pushed) - 1) :
           sl[d - m].lo = off + 8 * m /\ sl[d - m].hi = off + 8 * m + 8
      /\ \A i \in pushed : sl[d - Cardinality({j \in pushed : j < i})].arg = i

VisitRight(sl, visit, d, off) ==
  /\ visit.depth <= d
  /\ visit.stage = "spilled" =>
       d = visit.depth + 1 /\ off = visit.base - 8 /\ sl[d].lo = off
  /\ visit.stage # "spilled" =>
       visit.call \in Calls /\ visit.left \subseteq DOMAIN visit.call.args
  /\ visit.stage = "args" => ArgsRight(sl, visit, d, off)

VisitsRight(sl, off, pe) ==
  /\ \A v \in DOMAIN pe : VisitRight(sl, pe[v], DepthAt(sl, pe, v), OffsetAt(off, pe, v))
  /\ \A v \in DOMAIN pe : pe[v].depth <= Len(sl) /\ \A u \in 1..v : pe[u].depth <= pe[v].depth

\* Slots are taken downwards, but for what a Shallow visit takes.
Above(sl, n, x) == x <= 0 /\ \A j \in 1..n : x <= sl[j].lo

Downwards(sl, off, pe) ==
  /\ \A k \in DOMAIN sl :
       (\A v \in DOMAIN pe : Shallow(pe[v]) => k <= pe[v].depth) => Above(sl, k - 1, sl[k].hi)
  /\ (\A v \in DOMAIN pe : ~Shallow(pe[v])) => Above(sl, Len(sl), off)
  /\ \A v \in DOMAIN pe :
       (\A u \in 1..(v - 1) : ~Shallow(pe[u])) => Above(sl, pe[v].depth, pe[v].base)

\* The statement's part of the frame ends at offset_.
EndsAt(sl, off, pe) == DepthAt(sl, pe, 0) > 0 => sl[DepthAt(sl, pe, 0)].lo = OffsetAt(off, pe, 0)

IInv ==
  /\ TypeOK
  /\ curFunc = NoFunc => slots = <<>> /\ pending = <<>> /\ heap = {} /\ offset = 0
  /\ pending # <<>> => InBody
  /\ \A k \in DOMAIN slots : slots[k].lo < slots[k].hi
  /\ VisitsRight(slots, offset, pending)
  /\ curFunc # NoFunc /\ ~SavedResult(curFunc) =>
       Downwards(slots, offset, pending) /\ EndsAt(slots, offset, pending)

\* "Align stack frame by 16 bytes" (src/src/code_gen.cc:1149): at every call %rsp is a
\* multiple of 16.  The calls with a struct result or with an argument in memory that
\* takes more than eight bytes are left out, and those visited above the frame, where a
\* struct of less than eight bytes is pushed no lower: with any of them in, TLC finds a
\* violation.
PlainCall(c) == Hidden(c.callee) = 0 /\ \A i \in MemArgsOf(c) : c.args[i].width <= 8

PlainCallAligned ==
  call # NoCall /\ PlainCall(call.of) /\ (\A k \in DOMAIN pending : ~Shallow(pending[k])) =>
    call.rsp % 16 = 0
=============================================================================
