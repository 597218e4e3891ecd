------------------------- MODULE IncludeRefinement -------------------------
(***************************************************************************)
(* The search for included files implements SearchPath, but for the        *)
(* directives that are named as gaps.  Two history variables are added to  *)
(* IncludeSearch: the last directive, and whether there was a gap.         *)
(***************************************************************************)
EXTENDS IncludeSearch

VARIABLES
  asked,         \* the last directive
  astray         \* whether it, or one before it, is a gap

Directive(name, libHeader, next) == [name |-> name, inBrackets |-> libHeader, next |-> next]

-----------------------------------------------------------------------------
(* The nest of files and the list of directories as they are promised.     *)
A == INSTANCE SearchPath WITH
       HeaderNames <- HeaderNames \cup {WgtccHeader},
       paths <- searchPaths,
       status <- IF status = "start" THEN "reading" ELSE status

(* Where the program does something else: these directives, in a file that *)
(* was found as from says, are not compared.                               *)

\* A name that begins with a slash is opened, but then read from behind a directory.
AbsoluteName(d) == Head(d.name) = "/"

\* The file with the directive is passed over, even if it is the first of its name.
SelfSkipped(d, from) ==
  LET places == A!Places(d, from)
      found == A!Found(places)
  IN  found # {} /\ places[Min(found)].path = from.path

\* #include_next <...> puts a directory in front and then takes out the last one.
NextInBrackets(d) == d.next /\ d.inBrackets

\* #include_next knows the current file by looking for it under the name in the directive:
\* under another than it was found by it finds nothing, or meets it behind its place, and the
\* files between are missed.
NextOtherName(d, from) ==
  d.next /\ ~\E i \in Same(Dirs(d.inBrackets, d.next, from.path), d.name, from.path) :
    i <= from.at + 1

\* It finds it in its own directory, which is in front of the list, and goes on from there:
\* to other files in the directories up to that in which the current one was found.
NextStartsOver(d, from) ==
  d.next /\ \E i \in 1..from.at :
    searchPaths[i] \o d.name # from.path /\ A!OnDisk(searchPaths[i] \o d.name)

Gap(d, from) ==
  AbsoluteName(d) \/ SelfSkipped(d, from) \/ NextInBrackets(d)
    \/ NextOtherName(d, from) \/ NextStartsOver(d, from)

-----------------------------------------------------------------------------
HistoryInit == Init /\ asked = Directive(WgtccHeader, TRUE, FALSE) /\ astray = FALSE

Recorded(d) == asked' = d /\ astray' = (astray \/ Gap(d, reading[Len(reading)]))

HistoryNext ==
  \/ Process /\ Recorded(Directive(WgtccHeader, TRUE, FALSE))
  \/ \E name \in HeaderNames, libHeader, next \in BOOLEAN :
       ParseInclude(name, libHeader, next) /\ Recorded(Directive(name, libHeader, next))
  \/ EndOfFile /\ UNCHANGED <<asked, astray>>
  \/ Ended /\ UNCHANGED <<vars, asked, astray>>

HistorySpec == HistoryInit /\ [][HistoryNext]_<<vars, asked, astray>>

\* An include directive denotes the first file of its name along a list of directories
\* that no search changes, and files are read inside out, up to the first directive
\* that is one of the gaps.
ImplementsSearchPath ==
  A!Init /\ [][astray' \/ A!Next]_<<vars, asked, astray>>
=============================================================================
