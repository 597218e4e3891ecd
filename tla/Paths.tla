------------------------------- MODULE Paths -------------------------------
(***************************************************************************)
(* Paths, as sequences of components, with "/" in front of an absolute     *)
(* one.                                                                    *)
(***************************************************************************)
EXTENDS Integers, Sequences

\* The components that count.
Plain(path) ==
  LET plain[n \in 0..Len(path)] ==
        IF n = 0 THEN <<>>
        ELSE IF path[n] \in {"/", "."} THEN plain[n - 1] ELSE Append(plain[n - 1], path[n])
  IN  plain[Len(path)]

\* The file that a path leads to.
Resolve(path) == IF Head(path) = "/" THEN <<"/">> \o Plain(path) ELSE Plain(path)

\* A path whose last component is a name, and not a directory's.
NamesFile(path) == path # <<>> /\ path[Len(path)] \notin {"/", "."}

GetDir(path) == IF Len(path) = 1 THEN <<".">> ELSE SubSeq(path, 1, Len(path) - 1)
=============================================================================
