--------------------------- MODULE IncludeSearch ---------------------------
(***************************************************************************)
(* The search for included files and the files being read (SearchFile,     *)
(* ParseInclude, IncludeFile, Process and AddSearchPath of src/src/cpp.cc).*)
(*                                                                         *)
(* A search puts the directory of the current file at one end of the list  *)
(* of search paths and takes it out when it has found something.  Every    *)
(* file that it opens stays open, so that includes without end run out of  *)
(* descriptors.  What a file contains is not told: whether it includes     *)
(* another or ends depends on macros and conditions, and is the input.     *)
(***************************************************************************)
EXTENDS Paths, FiniteSetsExt

CONSTANTS
  Components,    \* what paths are made of
  Disks,         \* sets of files there may be
  MainFile,      \* filename_in
  WgtccHeader,   \* the name of the header that comes before the source
  HeaderNames,   \* names in directives
  PathLists,     \* lists of directories, as AddSearchPath has left them
  OpenMax,       \* how many descriptors there are for searches
  MaxNest        \* bound on the files in each other, which OpenMax keeps from being met

ASSUME OpenMaxAssumption == OpenMax \in Nat \ {0} /\ MaxNest \in Nat
ASSUME PathsAssumption ==
  /\ "." \in Components
  /\ MainFile \in Seq(Components) \ {<<>>}
  /\ HeaderNames \cup {WgtccHeader} \subseteq Seq(Components)
  /\ \A name \in HeaderNames \cup {WgtccHeader} : NamesFile(name)
  /\ PathLists \subseteq Seq(Seq(Components) \ {<<>>})

VARIABLES
  files,         \* the files on disk
  searchPaths,   \* searchPaths_
  reading,       \* the files whose tokens are left to read, the innermost last, and the
                 \* place each had in the list, which the code does not keep
  descriptors,   \* how many are left open
  status         \* what the preprocessor does, or how it ended

vars == <<files, searchPaths, reading, descriptors, status>>

\* open() of a directory, openat() of a name in it, and fopen() of a path.
IsDir(dir) ==
  LET d == Resolve(dir)
  IN  d = <<>> \/ \E f \in files : Len(d) < Len(f) /\ SubSeq(f, 1, Len(d)) = d
OpenAt(dir, name) == IF Head(name) = "/" THEN name \in files ELSE Resolve(dir \o name) \in files
Readable(path) == Resolve(path) \in files

AddSearchPath(list, dir) ==
  <<IF Head(dir) = "/" THEN dir ELSE <<".">> \o dir>> \o list

\* The source has been read.
Init ==
  /\ files \in Disks
  /\ Readable(MainFile)
  /\ searchPaths \in PathLists
  /\ reading = <<[path |-> MainFile, at |-> 0]>>
  /\ descriptors = 0
  /\ status = "start"

-----------------------------------------------------------------------------
(* SearchFile.  Dirs is the list it walks.  The files it opens on the way  *)
(* are the Opened ones: those before the current file when it looks for    *)
(* the next one, and the current file itself, are passed over.             *)
Dirs(libHeader, next, from) ==
  IF libHeader /\ ~next THEN Append(searchPaths, GetDir(from)) ELSE <<GetDir(from)>> \o searchPaths

Opened(dirs, name) == {i \in DOMAIN dirs : IsDir(dirs[i]) /\ OpenAt(dirs[i], name)}
Same(dirs, name, from) == {i \in Opened(dirs, name) : dirs[i] \o name = from}

Wanted(dirs, name, next, from) ==
  LET same == Same(dirs, name, from)
  IN  {i \in Opened(dirs, name) \ same : next => \E j \in same : j < i}

Walked(dirs, wanted) == IF wanted = {} THEN DOMAIN dirs ELSE 1..Min(wanted)

\* With one descriptor left a directory can be opened, but no file in it.
RunsOut(dirs, name, walked) ==
  \E i \in walked :
    IsDir(dirs[i]) /\ descriptors + Cardinality({j \in Opened(dirs, name) : j < i}) >= OpenMax - 1

\* A bug to be caught: the directory is always taken from the front.
RestoredInFront(dirs, libHeader) == Tail(dirs)

\* When a file is found the directory is taken out again.  By then next is false.
Restored(dirs, libHeader) ==
  IF libHeader THEN SubSeq(dirs, 1, Len(dirs) - 1) ELSE Tail(dirs)

\* A bug to be caught: the files on the way are closed.
LeftOpenNone(dirs, name, walked) == descriptors

\* The descriptors of the files on the way stay open.
LeftOpen(dirs, name, walked) ==
  descriptors + Cardinality(Opened(dirs, name) \cap walked)

\* Where a directory of Dirs is in the list that is Restored.
PlaceOf(dirs, i, libHeader) ==
  CASE ~libHeader -> i - 1
    [] libHeader /\ i < Len(dirs) -> i
    [] libHeader /\ i = Len(dirs) -> 0

Fail(how) == status' = how /\ UNCHANGED <<files, searchPaths, reading, descriptors>>

\* SearchFile, and IncludeFile of what it finds.
IncludeFile(name, libHeader, next) ==
  LET from == reading[Len(reading)].path
      dirs == Dirs(libHeader, next, from)
      wanted == Wanted(dirs, name, next, from)
      walked == Walked(dirs, wanted)
      path == dirs[Min(wanted)] \o name
  IN  IF RunsOut(dirs, name, walked) THEN Fail("refused")
      ELSE IF wanted = {} \/ ~Readable(path) THEN Fail("missing")
      ELSE /\ searchPaths' = Restored(dirs, libHeader)
           /\ descriptors' = LeftOpen(dirs, name, walked)
           /\ reading' = Append(reading, [path |-> path,
                                          at |-> PlaceOf(dirs, Min(wanted), libHeader)])
           /\ status' = "reading"
           /\ UNCHANGED files

Process == status = "start" /\ IncludeFile(WgtccHeader, TRUE, FALSE)

ParseInclude(name, libHeader, next) ==
  /\ status = "reading"
  /\ Len(reading) <= MaxNest
  /\ IncludeFile(name, libHeader, next)

EndOfFile ==
  /\ status = "reading"
  /\ reading' = SubSeq(reading, 1, Len(reading) - 1)
  /\ status' = IF Len(reading) = 1 THEN "done" ELSE status
  /\ UNCHANGED <<files, searchPaths, descriptors>>

Ended == status \notin {"start", "reading"}

Next ==
  \/ Process
  \/ \E name \in HeaderNames, libHeader, next \in BOOLEAN : ParseInclude(name, libHeader, next)
  \/ EndOfFile
  \/ Ended /\ UNCHANGED vars

Spec == Init /\ [][Next]_vars

Entry == [path : Seq(Components), at : Int]
TypeOK ==
  /\ searchPaths \in Seq(Seq(Components))
  /\ reading \in Seq(Entry)
  /\ ~Ended => reading # <<>>
  /\ descriptors \in 0..(OpenMax - 1)
  /\ status \in {"start", "reading", "done", "missing", "refused"}

-----------------------------------------------------------------------------
\* However files include each other, reading them ends, because SearchFile leaves them open
\* ("so that recursive include will result in running out of file descriptor",
\* src/src/cpp.cc:791): every step but a failure leaves less to do than there was, counted
\* in descriptors and files to be read to their ends.
LeftToDo == 2 * (OpenMax - descriptors) + Len(reading)
ReadingEnds == [][Ended' \/ (0 <= LeftToDo' /\ LeftToDo' < LeftToDo)]_vars
=============================================================================
