---------------------------- MODULE SearchPath ----------------------------
(***************************************************************************)
(* What an include directive denotes, abstractly: the first file of its    *)
(* name along a list of directories that never changes.  A name in quotes  *)
(* is looked for in the directory of the file with the directive first,    *)
(* one in angle brackets there last; #include_next goes on behind the      *)
(* place where the file with the directive was found.  Files are read      *)
(* inside out, the one included last to its end first.                     *)
(***************************************************************************)
EXTENDS Paths, FiniteSetsExt

CONSTANTS
  HeaderNames    \* the names in directives, each a sequence of components

VARIABLES
  files,         \* the files on disk
  paths,         \* the directories to search, the first first
  reading,       \* the files being read, the innermost last
  asked,         \* the last directive
  status         \* "reading", "done", "missing" or "refused"

vars == <<files, paths, reading, asked, status>>

Directives == [name : HeaderNames, inBrackets : BOOLEAN, next : BOOLEAN]

Absolute(name) == Head(name) = "/"
OnDisk(path) == Resolve(path) \in files

\* The places to look in: a path, and its place in the list or 0.
Place(path, at) == [path |-> path, at |-> at]
Listed(name, first) ==
  [i \in 1..(Len(paths) - first + 1) |-> Place(paths[first + i - 1] \o name, first + i - 1)]

Places(d, from) ==
  LET own == <<Place(GetDir(from.path) \o d.name, 0)>>
  IN  CASE Absolute(d.name) -> <<Place(d.name, 0)>>
        [] ~Absolute(d.name) /\ d.next -> Listed(d.name, from.at + 1)
        [] ~Absolute(d.name) /\ ~d.next /\ d.inBrackets -> Listed(d.name, 1) \o own
        [] ~Absolute(d.name) /\ ~d.next /\ ~d.inBrackets -> own \o Listed(d.name, 1)

Found(places) == {i \in DOMAIN places : OnDisk(places[i].path)}
Current == reading[Len(reading)]

Include(d) ==
  LET places == Places(d, Current)
  IN  /\ asked' = d
      /\ status = "reading"
      /\ IF Found(places) = {}
         THEN status' = "missing" /\ UNCHANGED reading
         ELSE reading' = Append(reading, places[Min(Found(places))]) /\ UNCHANGED status
      /\ UNCHANGED <<files, paths>>

EndOfFile ==
  /\ status = "reading"
  /\ reading' = SubSeq(reading, 1, Len(reading) - 1)
  /\ status' = IF Len(reading) = 1 THEN "done" ELSE status
  /\ UNCHANGED <<files, paths, asked>>

\* The number of files that can be included has a limit.
Refuse(d) ==
  /\ asked' = d
  /\ status = "reading"
  /\ status' = "refused"
  /\ UNCHANGED <<files, paths, reading>>

Init ==
  /\ status = "reading"
  /\ Len(reading) = 1 /\ OnDisk(Current.path) /\ Current.at = 0

Next ==
  \/ \E d \in Directives : Include(d) \/ Refuse(d)
  \/ EndOfFile

Spec == Init /\ [][Next]_vars
=============================================================================
