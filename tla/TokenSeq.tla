----------------------------- MODULE TokenSeq -----------------------------
(***************************************************************************)
(* TokenSequence (src/src/token.h, src/src/token.cc): a cursor begin_ into *)
(* a list of tokens in which line ends are tokens of their own.  Consuming *)
(* a token only moves the cursor, so what was taken stays in the list and  *)
(* tells whether the next token begins a line.                             *)
(*                                                                         *)
(* One action per operation as its callers use it: Expand of cpp.cc takes  *)
(* a macro's name and then inserts in front, ParseDirective takes a line,  *)
(* ParseInclude scans a file into the place after it.  The sequence        *)
(* modelled ends at the end of its list.                                   *)
(***************************************************************************)
EXTENDS Naturals, FiniteSets, SequencesExt

CONSTANTS
  Ids,           \* the tokens but the line end
  NL,            \* the NEW_LINE token
  None,          \* no token
  Sources,       \* what the file compiled may hold, sequences of tokens
  Headers,       \* what a file named by #include may hold
  Expansions,    \* the replacements of macros
  MaxLen,        \* bound on the length of the list
  MaxOver        \* bound on the calls of Next at the end

ASSUME TokensAssumption == NL \notin Ids /\ None \notin Ids \cup {NL}
ASSUME TextsAssumption ==
  Sources \cup Headers \subseteq Seq(Ids \cup {NL}) /\ Expansions \subseteq Seq(Ids)
ASSUME BoundsAssumption == MaxLen \in Nat /\ MaxOver \in Nat

VARIABLES
  tokList,       \* *tokList_: each token with its file
  begin,         \* begin_, a position in it, Len + 1 for end_
  exceedEnd,     \* exceed_end
  taken,         \* the token the last Next returned
  lineStart,     \* where the last directive ended: no caller goes back beyond it
  aborted        \* whether an assertion failed

vars == <<tokList, begin, exceedEnd, taken, lineStart, aborted>>

InFile(ids, file) == [i \in DOMAIN ids |-> [id |-> ids[i], file |-> file]]

(* Scanner::Tokenize ends a file with a line end.  It tests for Empty at   *)
(* every token, which moves the cursor past the line ends that come first. *)
Blank(ids) == \A i \in DOMAIN ids : ids[i] = NL

Tokenized(ids) == IF Blank(ids) \/ ids[Len(ids)] # NL THEN Append(ids, NL) ELSE ids

FirstToken(ids) ==
  IF Blank(ids) THEN Len(ids)
  ELSE CHOOSE i \in DOMAIN ids : ids[i] # NL /\ \A j \in 1..(i - 1) : ids[j] = NL

(* A file that has been scanned, or a list for the preprocessor to fill.   *)
Init ==
  /\ \/ \E ids \in Sources : /\ tokList = InFile(Tokenized(ids), 0)
                              /\ begin = FirstToken(Tokenized(ids))
     \/ tokList = << >> /\ begin = 1
  /\ exceedEnd = 0
  /\ taken = None
  /\ lineStart = begin
  /\ aborted = FALSE

-----------------------------------------------------------------------------
IsNL(i) == tokList[i].id = NL

\* Where Peek leaves a cursor that is at i: on the next token but a line end.
SkipNewLines(i) ==
  CHOOSE j \in i..(Len(tokList) + 1) :
    /\ \A k \in i..(j - 1) : IsNL(k)
    /\ j <= Len(tokList) => ~IsNL(j)

Current == SkipNewLines(begin)

Empty == Current = Len(tokList) + 1

\* Where PutBack leaves a cursor that is at i: on the token before it.
StepBack(i) ==
  CHOOSE j \in 1..(i - 1) :
    /\ j = 1 \/ ~IsNL(j)
    /\ \A k \in (j + 1)..(i - 1) : IsNL(k)

IsBeginOfLine(i) == i = 1 \/ IsNL(i - 1) \/ tokList[i - 1].file # tokList[i].file

(* Next takes the token under the cursor and, so that IsBeginOfLine can be *)
(* asked of the one after it, skips the line ends that follow.             *)
Next ==
  /\ ~aborted
  /\ IF Empty
       THEN /\ exceedEnd < MaxOver
            /\ exceedEnd' = exceedEnd + 1
            /\ begin' = Current
            /\ taken' = None
       ELSE /\ begin' = SkipNewLines(Current + 1)
            /\ taken' = tokList[Current].id
            /\ UNCHANGED exceedEnd
  /\ UNCHANGED <<tokList, lineStart, aborted>>

Peek ==
  /\ ~aborted
  /\ begin' = Current
  /\ UNCHANGED <<tokList, exceedEnd, taken, lineStart, aborted>>

\* A bug to be caught: a put back after the end moves the cursor all the same.
PutBackPastEnd ==
  /\ ~aborted
  /\ \E i \in lineStart..(begin - 1) : ~IsNL(i)
  /\ begin' = StepBack(begin)
  /\ exceedEnd' = IF exceedEnd > 0 THEN exceedEnd - 1 ELSE 0
  /\ UNCHANGED <<tokList, taken, lineStart, aborted>>

(* Callers put back what Next gave them, the end of the stream included;   *)
(* the assertion on the cursor comes before the test of exceed_end.        *)
PutBack ==
  /\ ~aborted
  /\ exceedEnd > 0 \/ \E i \in lineStart..(begin - 1) : ~IsNL(i)
  /\ aborted' = (begin = 1)
  /\ exceedEnd' = IF begin # 1 /\ exceedEnd > 0 THEN exceedEnd - 1 ELSE exceedEnd
  /\ begin' = IF begin # 1 /\ exceedEnd = 0 THEN StepBack(begin) ELSE begin
  /\ UNCHANGED <<tokList, taken, lineStart>>

(* Peek2 is Next, Peek and PutBack, and leaves the cursor on the token it  *)
(* started from.                                                           *)
Peek2 ==
  /\ ~aborted
  /\ begin' = IF Empty THEN Current ELSE StepBack(SkipNewLines(Current + 1))
  /\ UNCHANGED <<tokList, exceedEnd, taken, lineStart, aborted>>

(* TryCompoundLiteral and ParseInitializer of parser.cc mark the cursor,   *)
(* try to parse, and on failure reset it to the mark.  exceed_end is left  *)
(* as it is.  That it is 0 is not tested by ResetTo: it is what its callers*)
(* owe, and assumed here.  A production that takes a token it has no use   *)
(* for, the end too, puts it back or ends with an error before it calls    *)
(* another (parser.cc 438, 505, 580, 595, 1079, 1430).                     *)
ResetTo(mark) ==
  /\ ~aborted
  /\ exceedEnd = 0
  /\ begin' = mark
  /\ UNCHANGED <<tokList, exceedEnd, taken, lineStart, aborted>>

-----------------------------------------------------------------------------
InsertSeqAt(i, toks) == SubSeq(tokList, 1, i - 1) \o toks \o SubSeq(tokList, i, Len(tokList))

\* A bug to be caught: the expansion goes right before the cursor.
GetInsertFrontPosAtCursor(i) == i

(* InsertFront puts an expansion before the line ends that precede the     *)
(* cursor, next to the token last taken.                                   *)
GetInsertFrontPos(i) ==
  IF i = 1 THEN 1
  ELSE CHOOSE j \in 2..i :
         /\ j = 2 \/ ~IsNL(j - 1)
         /\ \A k \in j..(i - 1) : IsNL(k)

(* The expansion of a macro: its name is taken, and its replacement, whose *)
(* tokens are given the name's file, inserted in front.                    *)
ExpandMacro(ids) ==
  /\ ~aborted
  /\ ~Empty
  /\ Len(tokList) + Len(ids) <= MaxLen
  /\ LET pos == GetInsertFrontPos(SkipNewLines(Current + 1))
     IN /\ tokList' = InsertSeqAt(pos, InFile(ids, tokList[Current].file))
        /\ begin' = pos
  /\ taken' = tokList[Current].id
  /\ UNCHANGED <<exceedEnd, lineStart, aborted>>

\* GetLine: the cursor goes to the line end.
LineEnd ==
  CHOOSE j \in begin..(Len(tokList) + 1) :
    /\ \A k \in begin..(j - 1) : ~IsNL(k)
    /\ j <= Len(tokList) => IsNL(j)

(* A directive, of which # was taken, takes the rest of its line.  It is   *)
(* in a file, and Tokenize has ended the last line of that.                *)
InDirective ==
  /\ ~Empty
  /\ begin = Current
  /\ ~IsBeginOfLine(begin)
  /\ LineEnd <= Len(tokList)

GetLine ==
  /\ ~aborted
  /\ InDirective
  /\ begin' = LineEnd
  /\ lineStart' = LineEnd
  /\ UNCHANGED <<tokList, exceedEnd, taken, aborted>>

NewFile == 1 + Cardinality({i \in DOMAIN tokList : IsNL(i)})

(* #include: after the line is taken, the file is scanned into the list at *)
(* the cursor.  Its name is a string of its own, so no other token is of   *)
(* this file.                                                              *)
ParseInclude(ids) ==
  /\ ~aborted
  /\ InDirective
  /\ Len(tokList) + Len(Tokenized(ids)) <= MaxLen
  /\ tokList' = InsertSeqAt(LineEnd, InFile(Tokenized(ids), NewFile))
  /\ begin' = LineEnd + FirstToken(Tokenized(ids)) - 1
  /\ lineStart' = begin'
  /\ UNCHANGED <<exceedEnd, taken, aborted>>

(* Expand adds a token to its output, before the parser reads past it:     *)
(* that exceed_end is 0 is the order of the phases, InsertBack has no test.*)
InsertBack(id) ==
  /\ ~aborted
  /\ exceedEnd = 0
  /\ Len(tokList) < MaxLen
  /\ LET file == IF tokList = << >> THEN 0 ELSE tokList[Len(tokList)].file
     IN tokList' = Append(tokList, [id |-> id, file |-> file])
  /\ UNCHANGED <<begin, exceedEnd, taken, lineStart, aborted>>

Step ==
  \/ Next
  \/ Peek
  \/ Peek2
  \/ PutBack
  \/ \E mark \in lineStart..(begin - 1) : ResetTo(mark)
  \/ \E ids \in Expansions : ExpandMacro(ids)
  \/ GetLine
  \/ \E ids \in Headers : ParseInclude(ids)
  \/ \E id \in Ids \cup {NL} : InsertBack(id)

Spec == Init /\ [][Step]_vars
-----------------------------------------------------------------------------
(* Tokens are counted as taken past the end only while there is nothing    *)
(* left to take: a put back never counts down in the middle of the stream. *)
OvershootAtEnd == exceedEnd > 0 => Empty

(* The refinement mapping to TokenStream: the tokens of the list that are  *)
(* not line ends, each marked with what IsBeginOfLine says of it, on       *)
(* either side of the cursor.                                              *)
Mark(id, bol) == IF id = NL THEN << >> ELSE <<[id |-> id, bol |-> bol]>>

Marks == [i \in DOMAIN tokList |-> Mark(tokList[i].id, IsBeginOfLine(i))]

View(i, j) == FlattenSeq(SubSeq(Marks, i, j))

\* The marked tokens of a file of its own.
FileView(ids) ==
  FlattenSeq([i \in DOMAIN ids |-> Mark(ids[i], i = 1 \/ ids[i - 1] = NL)])

Abstract ==
  INSTANCE TokenStream WITH
    behind <- View(lineStart, begin - 1),
    ahead <- View(begin, Len(tokList)),
    over <- exceedEnd,
    fresh <- tokList = << >> \/ IsNL(Len(tokList)),
    Files <- {FileView(ids) : ids \in Headers}

(* The list with its cursor implements the stream of marked tokens:        *)
(* PutBack undoes Next across line ends and past the end, an expansion     *)
(* never begins a line, an included file always does, and no operation     *)
(* changes the line of another token.                                      *)
ImplementsStream == Abstract!Spec
=============================================================================
