---------------------------- MODULE TokenStream ---------------------------
(***************************************************************************)
(* What a TokenSequence offers the preprocessor and the parser: a stream   *)
(* of tokens with a cursor, in which line ends are not tokens but a mark   *)
(* on the token that begins a line.  Next and PutBack move the cursor, at  *)
(* the end of the stream too, a macro's expansion takes the place of its   *)
(* name, and an included file that of the rest of its directive's line.    *)
(* TokenSeq, the program's linked list, is shown to implement it.          *)
(***************************************************************************)
EXTENDS Naturals, Sequences

CONSTANTS
  Ids,           \* the tokens
  None,          \* what Next returned before it was called, and at the end
  Expansions,    \* the replacements of macros, sequences of tokens
  Files          \* what files hold, sequences of marked tokens, the first one marked

Marked == [id : Ids, bol : BOOLEAN]

VARIABLES
  behind,        \* the tokens before the cursor, since the last directive
  ahead,         \* those after it
  over,          \* how often Next was called at the end, less the put backs
  fresh,         \* whether a token added at the end begins a line
  taken          \* the token the last Next returned

vars == <<behind, ahead, over, fresh, taken>>

Init ==
  /\ behind = << >>
  /\ ahead \in Seq(Marked)
  /\ over = 0
  /\ fresh \in BOOLEAN
  /\ taken = None

Next ==
  /\ IF ahead = << >>
       THEN over' = over + 1 /\ taken' = None /\ UNCHANGED <<behind, ahead>>
       ELSE /\ behind' = Append(behind, Head(ahead))
            /\ ahead' = Tail(ahead)
            /\ taken' = Head(ahead).id
            /\ UNCHANGED over
  /\ UNCHANGED fresh

PutBack ==
  \/ /\ over > 0
     /\ over' = over - 1
     /\ UNCHANGED <<behind, ahead, fresh, taken>>
  \/ /\ over = 0
     /\ behind # << >>
     /\ ahead' = <<behind[Len(behind)]>> \o ahead
     /\ behind' = SubSeq(behind, 1, Len(behind) - 1)
     /\ UNCHANGED <<over, fresh, taken>>

(* A trial parse that failed starts over.                                  *)
Rewind ==
  /\ over = 0
  /\ \E n \in 0..(Len(behind) - 1) :
       /\ behind' = SubSeq(behind, 1, n)
       /\ ahead' = SubSeq(behind, n + 1, Len(behind)) \o ahead
  /\ UNCHANGED <<over, fresh, taken>>

(* No token of an expansion begins a line: what looks like a directive     *)
(* after macro replacement is not one (C11 6.10.3.4).                      *)
Replace(ids) ==
  /\ ahead # << >>
  /\ behind' = Append(behind, Head(ahead))
  /\ ahead' = [i \in DOMAIN ids |-> [id |-> ids[i], bol |-> FALSE]] \o Tail(ahead)
  /\ taken' = Head(ahead).id
  /\ UNCHANGED <<over, fresh>>

\* The number of tokens up to the next line.
LineLength ==
  CHOOSE n \in 0..Len(ahead) :
    /\ \A i \in 1..n : ~ahead[i].bol
    /\ n < Len(ahead) => ahead[n + 1].bol

(* A directive takes the rest of its line, and #include puts a file, of    *)
(* which the first token begins a line, in its place.                      *)
TakeLine(file) ==
  /\ ahead # << >>
  /\ ~Head(ahead).bol
  /\ behind' = << >>
  /\ ahead' = file \o SubSeq(ahead, LineLength + 1, Len(ahead))
  /\ UNCHANGED <<over, fresh, taken>>

Add(id) ==
  /\ ahead' = Append(ahead, [id |-> id, bol |-> fresh])
  /\ fresh' = FALSE
  /\ UNCHANGED <<behind, over, taken>>

EndLine ==
  /\ fresh' = TRUE
  /\ UNCHANGED <<behind, ahead, over, taken>>

Step ==
  \/ Next
  \/ PutBack
  \/ Rewind
  \/ \E ids \in Expansions : Replace(ids)
  \/ \E file \in Files \cup {<< >>} : TakeLine(file)
  \/ \E id \in Ids : Add(id)
  \/ EndLine

Spec == Init /\ [][Step]_vars
=============================================================================
