------------------------ MODULE IncludeSearchProofs ------------------------
(***************************************************************************)
(* That reading files ends, for any files, paths, names and number of      *)
(* descriptors, and that a search finds what SearchPath says it does.      *)
(***************************************************************************)
EXTENDS IncludeRefinement, SequenceTheorems, FiniteSetTheorems, WellFoundedInduction, TLAPS

\* The least of a set of numbers is in it.
LEMMA MinInSet ==
  ASSUME NEW S \in SUBSET Nat, S # {}
  PROVE  Min(S) \in S
<1> DEFINE Less == {ss \in Nat \X Nat : ss[1] < ss[2]}
<1>0. IsWellFoundedOn(Less, Nat)
  BY NatLessThanWellFounded, Zenon DEF OpToRel
<1> HIDE DEF Less
<1>1. PICK x \in S : \A y \in S : ~ (<<y, x>> \in Less)
  BY <1>0, WFMin, Zenon
<1>2. ASSUME NEW y \in S PROVE x <= y
  <2>1. x \in Nat /\ y \in Nat
    OBVIOUS
  <2>2. <<y, x>> \in Less <=> y < x
    BY <2>1 DEF Less
  <2> QED
    BY <1>1, <2>1, <2>2
<1> QED
  BY <1>2 DEF Min

\* The directories of a search are a list of paths, and so is the list of search paths
\* after it.
LEMMA DirsTyped ==
  ASSUME TypeOK, status \in {"start", "reading"}, NEW libHeader \in BOOLEAN, NEW next \in BOOLEAN,
         NEW from \in Seq(Components)
  PROVE  /\ Dirs(libHeader, next, from) \in Seq(Seq(Components))
         /\ Dirs(libHeader, next, from) # <<>>
<1>1. GetDir(from) \in Seq(Components)
  BY PathsAssumption DEF GetDir
<1>2. searchPaths \in Seq(Seq(Components))
  BY DEF TypeOK
<1>3. /\ Append(searchPaths, GetDir(from)) \in Seq(Seq(Components))
      /\ Append(searchPaths, GetDir(from)) # <<>>
  BY <1>1, <1>2
<1>4. /\ <<GetDir(from)>> \o searchPaths \in Seq(Seq(Components))
      /\ <<GetDir(from)>> \o searchPaths # <<>>
  BY <1>1, <1>2
<1> QED
  BY <1>3, <1>4, Zenon DEF Dirs

LEMMA RestoredTyped ==
  ASSUME NEW dirs \in Seq(Seq(Components)), dirs # <<>>, NEW libHeader
  PROVE  Restored(dirs, libHeader) \in Seq(Seq(Components))
BY DEF Restored

\* A search that finds a file leaves at least this one open, and a descriptor free.
LEMMA SearchCounts ==
  ASSUME descriptors \in Nat, NEW dirs \in Seq(Seq(Components)), NEW name, NEW next, NEW from,
         NEW wanted, wanted = Wanted(dirs, name, next, from), wanted # {},
         ~RunsOut(dirs, name, Walked(dirs, wanted))
  PROVE  /\ Min(wanted) \in DOMAIN dirs
         /\ LeftOpen(dirs, name, Walked(dirs, wanted)) \in Nat
         /\ LeftOpen(dirs, name, Walked(dirs, wanted)) > descriptors
         /\ LeftOpen(dirs, name, Walked(dirs, wanted)) <= OpenMax - 1
<1> DEFINE i == Min(wanted)
           before == {j \in Opened(dirs, name) : j < i}
<1>1. wanted \subseteq Opened(dirs, name) /\ Opened(dirs, name) \subseteq 1..Len(dirs)
  BY DEF Wanted, Opened
<1>2. i \in wanted
  BY <1>1, MinInSet
<1>3. i \in Opened(dirs, name) /\ i \in 1..Len(dirs) /\ IsDir(dirs[i])
  BY <1>1, <1>2 DEF Opened
<1>4. Walked(dirs, wanted) = 1..i
  BY DEF Walked
<1>5. IsFiniteSet(before) /\ Cardinality(before) \in Nat
  <2>1. before \subseteq 1..Len(dirs)
    BY <1>1
  <2>2. IsFiniteSet(1..Len(dirs))
    BY FS_Interval
  <2> QED
    BY <2>1, <2>2, FS_Subset, FS_CardinalityType
<1> HIDE DEF i
<1>6. descriptors + Cardinality(before) < OpenMax - 1
  <2>1. i \in 1..i
    BY <1>3
  <2>2. ~(descriptors + Cardinality(before) >= OpenMax - 1)
    BY <1>3, <1>4, <2>1, Zenon DEF RunsOut
  <2> QED
    BY <1>5, <2>2, OpenMaxAssumption
<1>7. Opened(dirs, name) \cap (1..i) = before \cup {i}
  BY <1>1, <1>3
<1>8. Cardinality(before \cup {i}) = Cardinality(before) + 1
  <2>1. i \notin before
    BY <1>3
  <2> QED
    BY <1>5, <2>1, FS_AddElement
<1>9. LeftOpen(dirs, name, Walked(dirs, wanted)) = descriptors + Cardinality(before) + 1
  <2>1. LeftOpen(dirs, name, Walked(dirs, wanted)) = descriptors + (Cardinality(before) + 1)
    BY <1>4, <1>7, <1>8, Zenon DEF LeftOpen
  <2> QED
    BY <1>5, <2>1
<1> QED
  BY <1>3, <1>6, <1>5, <1>9, OpenMaxAssumption DEF i

\* Sequences as stacks.
LEMMA Stacks ==
  ASSUME NEW S, NEW s \in Seq(S)
  PROVE  /\ Len(s) \in Nat
         /\ \A e \in S : Append(s, e) \in Seq(S) /\ Append(s, e) # <<>> /\ Len(Append(s, e)) = Len(s) + 1
         /\ s # <<>> =>
              /\ Len(s) # 0 /\ s[Len(s)] \in S
              /\ SubSeq(s, 1, Len(s) - 1) \in Seq(S)
              /\ Len(SubSeq(s, 1, Len(s) - 1)) = Len(s) - 1
              /\ SubSeq(s, 1, Len(s) - 1) = <<>> => Len(s) = 1
<1>1. Len(s) \in Nat /\ (s # <<>> => Len(s) # 0)
  BY LenProperties, EmptySeq
<1>2. ASSUME NEW e \in S
      PROVE  Append(s, e) \in Seq(S) /\ Append(s, e) # <<>> /\ Len(Append(s, e)) = Len(s) + 1
  <2>1. Append(s, e) \in Seq(S) /\ Len(Append(s, e)) = Len(s) + 1
    BY AppendProperties
  <2> QED
    BY <1>1, <2>1, EmptySeq
<1> DEFINE n == Len(s)
           front == SubSeq(s, 1, n - 1)
<1>3. ASSUME s # <<>>
      PROVE  s[n] \in S /\ front \in Seq(S) /\ Len(front) = n - 1
  <2>1. \A i \in 1..n : s[i] \in S
    BY ElementOfSeq
  <2>2. n \in Nat \ {0}
    BY <1>1, <1>3
  <2> HIDE DEF n
  <2>3. s[n] \in S /\ \A i \in 1..(n - 1) : s[i] \in S
    BY <2>1, <2>2
  <2>4. front \in Seq(S) /\ Len(front) = IF 1 <= n - 1 THEN (n - 1) - 1 + 1 ELSE 0
    BY <2>2, <2>3, SubSeqProperties
  <2> HIDE DEF front
  <2>5. Len(front) = n - 1
    BY <2>2, <2>4
  <2> QED
    BY <2>3, <2>4, <2>5
<1>4. s # <<>> /\ front = <<>> => n = 1
  <2> HIDE DEF front
  <2> QED
    BY <1>1, <1>3, EmptySeq
<1> QED
  BY <1>1, <1>2, <1>3, <1>4, Zenon

\* One search and what it includes.
LEMMA IncludeStep ==
  ASSUME TypeOK, ~Ended, NEW name \in Seq(Components), NEW libHeader \in BOOLEAN,
         NEW next \in BOOLEAN, IncludeFile(name, libHeader, next)
  PROVE  /\ TypeOK'
         /\ Ended' \/ (0 <= LeftToDo' /\ LeftToDo' < LeftToDo)
<1> DEFINE from == reading[Len(reading)].path
           dirs == Dirs(libHeader, next, from)
           wanted == Wanted(dirs, name, next, from)
           walked == Walked(dirs, wanted)
           path == dirs[Min(wanted)] \o name
           place == PlaceOf(dirs, Min(wanted), libHeader)
<1>0. reading \in Seq(Entry) /\ reading # <<>>
  BY DEF TypeOK, Entry
<1>1. from \in Seq(Components)
  <2>1. reading[Len(reading)] \in Entry
    BY <1>0, Stacks
  <2> QED
    BY <2>1 DEF Entry
<1>2. dirs \in Seq(Seq(Components)) /\ dirs # <<>>
  BY <1>1, DirsTyped DEF Ended, TypeOK
<1>3. CASE Fail("refused") \/ Fail("missing")
  BY <1>3 DEF Fail, TypeOK, Ended
<1>4. CASE ~(Fail("refused") \/ Fail("missing"))
  <2>1. /\ ~RunsOut(dirs, name, walked)
        /\ wanted # {}
        /\ searchPaths' = Restored(dirs, libHeader)
        /\ descriptors' = LeftOpen(dirs, name, walked)
        /\ reading' = Append(reading, [path |-> path, at |-> place])
        /\ status' = "reading"
    BY <1>4, Zenon DEF IncludeFile
  <2>2. /\ Min(wanted) \in DOMAIN dirs
        /\ descriptors' \in Nat /\ descriptors' > descriptors /\ descriptors' <= OpenMax - 1
    <3>1. descriptors \in Nat
      BY OpenMaxAssumption DEF TypeOK
    <3> HIDE DEF dirs, from
    <3>2. wanted = Wanted(dirs, name, next, from) /\ walked = Walked(dirs, wanted)
      OBVIOUS
    <3> HIDE DEF wanted, walked
    <3> QED
      BY <1>2, <2>1, <3>1, <3>2, SearchCounts
  <2> HIDE DEF dirs, wanted, walked
  <2>3. searchPaths' \in Seq(Seq(Components))
    BY <1>2, <2>1, RestoredTyped
  <2>4. path \in Seq(Components) /\ place \in Int
    BY <1>2, <2>2 DEF PlaceOf
  <2> HIDE DEF path, place
  <2>5. /\ reading' \in Seq(Entry)
        /\ reading' # <<>> /\ Len(reading') = Len(reading) + 1 /\ Len(reading) \in Nat
    <3>1. [path |-> path, at |-> place] \in Entry
      BY <2>4 DEF Entry
    <3> QED
      BY <1>0, <2>1, <3>1, Stacks
  <2>6. TypeOK'
    BY <2>1, <2>2, <2>3, <2>5, OpenMaxAssumption DEF TypeOK, Ended, Entry
  <2>7. descriptors \in Nat /\ descriptors <= OpenMax - 1
    BY OpenMaxAssumption DEF TypeOK
  <2>8. 0 <= LeftToDo' /\ LeftToDo' < LeftToDo
    BY <2>2, <2>5, <2>7, OpenMaxAssumption DEF LeftToDo
  <2> QED
    BY <2>6, <2>8
<1> QED
  BY <1>3, <1>4

LEMMA EndOfFileStep ==
  ASSUME TypeOK, EndOfFile
  PROVE  /\ TypeOK'
         /\ Ended' \/ (0 <= LeftToDo' /\ LeftToDo' < LeftToDo)
<1>1. reading \in Seq(Entry) /\ reading # <<>>
  BY DEF TypeOK, EndOfFile, Ended, Entry
<1>2. /\ reading' \in Seq(Entry)
      /\ Len(reading') = Len(reading) - 1 /\ Len(reading) \in Nat \ {0}
      /\ reading' = <<>> => Len(reading) = 1
  <2>1. reading' = SubSeq(reading, 1, Len(reading) - 1)
    BY DEF EndOfFile
  <2> DEFINE front == SubSeq(reading, 1, Len(reading) - 1)
  <2>2. /\ Len(reading) \in Nat /\ Len(reading) # 0
        /\ front \in Seq(Entry) /\ Len(front) = Len(reading) - 1
        /\ front = <<>> => Len(reading) = 1
    BY <1>1, Stacks
  <2>3. reading' = front
    BY <2>1
  <2> HIDE DEF front
  <2> QED
    BY <2>2, <2>3
<1>3. TypeOK'
  <2>1. status' # "done" => reading' # <<>>
    BY <1>2 DEF EndOfFile
  <2> QED
    BY <1>2, <2>1 DEF EndOfFile, TypeOK, Ended, Entry
<1>4. descriptors' = descriptors /\ descriptors \in Nat /\ descriptors <= OpenMax - 1
  BY OpenMaxAssumption DEF EndOfFile, TypeOK
<1> QED
  BY <1>2, <1>3, <1>4, OpenMaxAssumption DEF LeftToDo

LEMMA EveryStep ==
  ASSUME TypeOK, [Next]_vars
  PROVE  /\ TypeOK'
         /\ vars' = vars \/ Ended' \/ (0 <= LeftToDo' /\ LeftToDo' < LeftToDo)
<1>1. CASE Process
  <2>1. ~Ended /\ IncludeFile(WgtccHeader, TRUE, FALSE)
    BY <1>1 DEF Process, Ended
  <2> QED
    BY <2>1, IncludeStep, PathsAssumption
<1>2. ASSUME NEW name \in HeaderNames, NEW libHeader \in BOOLEAN, NEW next \in BOOLEAN,
             ParseInclude(name, libHeader, next)
      PROVE  TypeOK' /\ (Ended' \/ (0 <= LeftToDo' /\ LeftToDo' < LeftToDo))
  <2>1. ~Ended /\ IncludeFile(name, libHeader, next)
    BY <1>2 DEF ParseInclude, Ended
  <2> QED
    BY <2>1, IncludeStep, PathsAssumption
<1>3. CASE EndOfFile
  BY <1>3, EndOfFileStep
<1>4. CASE vars' = vars
  BY <1>4 DEF vars, TypeOK, Ended
<1> QED
  BY <1>1, <1>2, <1>3, <1>4, Zenon DEF Next

-----------------------------------------------------------------------------
\* Types: a list of paths to search, files being read until the end, and always a
\* descriptor left.
THEOREM TypeCorrect == Spec => []TypeOK
<1>1. ASSUME Init PROVE TypeOK
  <2>1. [path |-> MainFile, at |-> 0] \in Entry
    BY PathsAssumption DEF Entry
  <2>2. <<[path |-> MainFile, at |-> 0]>> \in Seq(Entry)
    BY <2>1
  <2>3. reading \in Seq(Entry) /\ reading # <<>>
    BY <1>1, <2>2 DEF Init
  <2> QED
    BY <1>1, <2>3, PathsAssumption, OpenMaxAssumption DEF Init, TypeOK, Ended
<1>2. TypeOK /\ [Next]_vars => TypeOK'
  BY EveryStep
<1> QED
  BY <1>1, <1>2, PTL DEF Spec

\* Reading files ends: every step leaves less to do (SearchFile, IncludeFile).
THEOREM ReadingEndsAlways == Spec => ReadingEnds
<1>1. TypeOK /\ [Next]_vars => [Ended' \/ (0 <= LeftToDo' /\ LeftToDo' < LeftToDo)]_vars
  BY EveryStep
<1> QED
  BY <1>1, TypeCorrect, PTL DEF Spec, ReadingEnds

\* What a search puts into a list it takes out again, at either end.
LEMMA FrontOfAppend ==
  ASSUME NEW S, NEW s \in Seq(S), NEW e \in S
  PROVE  SubSeq(Append(s, e), 1, Len(Append(s, e)) - 1) = s
<1> DEFINE a == Append(s, e)
           f == SubSeq(a, 1, Len(s))
<1>1. /\ a \in Seq(S) /\ Len(a) = Len(s) + 1 /\ Len(s) \in Nat
      /\ \A i \in 1..Len(s) : a[i] = s[i]
  BY AppendProperties, LenProperties
<1>2. \A i \in 1..Len(s) : a[i] \in S
  BY <1>1, ElementOfSeq
<1> HIDE DEF a
<1>3. /\ f \in Seq(S)
      /\ Len(f) = IF 1 <= Len(s) THEN Len(s) - 1 + 1 ELSE 0
      /\ \A i \in 1..(Len(s) - 1 + 1) : f[i] = a[1 + i - 1]
  BY <1>1, <1>2, SubSeqProperties
<1> HIDE DEF f
<1>4. Len(f) = Len(s) /\ \A i \in 1..Len(s) : f[i] = s[i]
  BY <1>1, <1>3
<1>5. f = s
  BY <1>3, <1>4, SeqEqual
<1>6. Len(a) - 1 = Len(s)
  BY <1>1
<1> QED
  BY <1>5, <1>6 DEF a, f

LEMMA TailOfCons ==
  ASSUME NEW S, NEW s \in Seq(S), NEW e \in S
  PROVE  Tail(<<e>> \o s) = s
<1> DEFINE a == <<e>> \o s
<1>1. /\ a \in Seq(S) /\ Len(a) = 1 + Len(s) /\ Len(s) \in Nat
      /\ \A i \in 1..Len(s) : a[i + 1] = s[i]
  OBVIOUS
<1> HIDE DEF a
<1>2. a # <<>>
  BY <1>1, EmptySeq
<1>3. Tail(a) \in Seq(S) /\ Len(Tail(a)) = Len(s) /\ \A i \in 1..Len(s) : Tail(a)[i] = s[i]
  BY <1>1, <1>2, HeadTailProperties
<1>4. Tail(a) = s
  BY <1>3, SeqEqual
<1> QED
  BY <1>4 DEF a

LEMMA ListRestored ==
  ASSUME TypeOK, NEW libHeader \in BOOLEAN, NEW next \in BOOLEAN, ~(libHeader /\ next),
         NEW from \in Seq(Components)
  PROVE  Restored(Dirs(libHeader, next, from), libHeader) = searchPaths
<1>1. GetDir(from) \in Seq(Components) /\ searchPaths \in Seq(Seq(Components))
  BY PathsAssumption DEF GetDir, TypeOK
<1>2. CASE libHeader /\ ~next
  <2>1. Restored(Dirs(libHeader, next, from), libHeader)
          = SubSeq(Append(searchPaths, GetDir(from)), 1, Len(Append(searchPaths, GetDir(from))) - 1)
    BY <1>2, Zenon DEF Restored, Dirs
  <2> QED
    BY <1>1, <2>1, FrontOfAppend
<1>3. CASE ~libHeader
  <2>1. Restored(Dirs(libHeader, next, from), libHeader) = Tail(<<GetDir(from)>> \o searchPaths)
    BY <1>3, Zenon DEF Restored, Dirs
  <2> QED
    BY <1>1, <2>1, TailOfCons
<1> QED
  BY <1>2, <1>3

\* The list of search paths is the same after every search (SearchFile's push and pop), but
\* for that of an #include_next with a name in angle brackets.
THEOREM SearchPathsKept ==
  Spec => [][searchPaths' # searchPaths =>
               \E name \in HeaderNames : ParseInclude(name, TRUE, TRUE)]_vars
<1> DEFINE Kept == searchPaths' # searchPaths =>
                     \E name \in HeaderNames : ParseInclude(name, TRUE, TRUE)
<1>1. ASSUME TypeOK, ~Ended, NEW name, NEW libHeader \in BOOLEAN, NEW next \in BOOLEAN,
             IncludeFile(name, libHeader, next), ~(libHeader /\ next)
      PROVE  searchPaths' = searchPaths
  <2> DEFINE from == reading[Len(reading)].path
             dirs == Dirs(libHeader, next, from)
  <2>1. searchPaths' = searchPaths \/ searchPaths' = Restored(dirs, libHeader)
    BY <1>1, Zenon DEF IncludeFile, Fail
  <2>2. reading[Len(reading)] \in Entry
    BY <1>1, Stacks DEF TypeOK
  <2>3. from \in Seq(Components)
    BY <2>2 DEF Entry
  <2> QED
    BY <1>1, <2>1, <2>3, ListRestored
<1>2. TypeOK /\ [Next]_vars => [Kept]_vars
  <2> SUFFICES ASSUME TypeOK, [Next]_vars PROVE Kept \/ vars' = vars
    OBVIOUS
  <2>1. CASE Process
    BY <2>1, <1>1 DEF Process, Ended
  <2>2. CASE \E name \in HeaderNames, libHeader, next \in BOOLEAN : ParseInclude(name, libHeader, next)
    <3>1. PICK name \in HeaderNames, libHeader \in BOOLEAN, next \in BOOLEAN :
             ParseInclude(name, libHeader, next)
      BY <2>2
    <3>2. CASE libHeader /\ next
      BY <3>1, <3>2
    <3>3. CASE ~(libHeader /\ next)
      <4>1. IncludeFile(name, libHeader, next) /\ ~Ended
        BY <3>1 DEF ParseInclude, Ended
      <4> QED
        BY <1>1, <3>3, <4>1
    <3> QED
      BY <3>2, <3>3
  <2>3. CASE EndOfFile
    BY <2>3 DEF EndOfFile
  <2> QED
    BY <2>1, <2>2, <2>3 DEF Next
<1> QED
  BY <1>2, TypeCorrect, PTL DEF Spec

-----------------------------------------------------------------------------
(* Paths.  What Plain computes is a recursive function of the number of    *)
(* components; that there is one, and that it grows, is by induction.      *)

\* Induction over the natural numbers, drawn from their well-founded order.
LEMMA Counting ==
  ASSUME NEW S \in SUBSET Nat, 0 \in S, \A n \in S : n + 1 \in S
  PROVE  S = Nat
<1> DEFINE Less == {ss \in Nat \X Nat : ss[1] < ss[2]}
           Out == Nat \ S
<1>1. IsWellFoundedOn(Less, Nat)
  BY NatLessThanWellFounded, Zenon DEF OpToRel
<1> HIDE DEF Less
<1> SUFFICES ASSUME Out # {} PROVE FALSE
  OBVIOUS
<1>2. PICK x \in Out : \A y \in Out : ~ (<<y, x>> \in Less)
  BY <1>1, WFMin, Zenon
<1>3. x \in Nat /\ x # 0 /\ x - 1 \in Nat
  OBVIOUS
<1>4. <<x - 1, x>> \in Less
  BY <1>3 DEF Less
<1>5. x - 1 \in S
  BY <1>2, <1>3, <1>4
<1> QED
  BY <1>3, <1>5

\* What a path is after one more component.
Longer(plain, c) == IF c \in {"/", "."} THEN plain ELSE Append(plain, c)

\* The function that Plain takes its value from.
IsPlain(f, path) ==
  f = [n \in 0..Len(path) |-> IF n = 0 THEN <<>> ELSE Longer(f[n - 1], path[n])]

\* There is one.
LEMMA PlainExists ==
  ASSUME NEW S, NEW path \in Seq(S)
  PROVE  \E f : IsPlain(f, path)
<1> DEFINE Upto(f, n) == f = [i \in 0..n |-> IF i = 0 THEN <<>> ELSE Longer(f[i - 1], path[i])]
           N == {n \in Nat : \E f : Upto(f, n)}
<1>1. 0 \in N
  <2> DEFINE f == [i \in 0..0 |-> <<>>]
  <2>1. Upto(f, 0)
    OBVIOUS
  <2> QED
    BY <2>1
<1>2. ASSUME NEW n \in N PROVE n + 1 \in N
  <2>1. n \in Nat
    OBVIOUS
  <2>2. PICK f : Upto(f, n)
    OBVIOUS
  <2> DEFINE g == [i \in 0..(n + 1) |-> IF i = n + 1 THEN Longer(f[n], path[n + 1]) ELSE f[i]]
  <2>3. \A i \in 0..n : g[i] = f[i]
    BY <2>1
  <2>4. ASSUME NEW i \in 0..(n + 1)
        PROVE  g[i] = IF i = 0 THEN <<>> ELSE Longer(g[i - 1], path[i])
    <3>1. CASE i = n + 1
      <4>1. i # 0 /\ i - 1 = n /\ n \in 0..n
        BY <2>1, <3>1
      <4>2. g[i] = Longer(f[n], path[n + 1])
        BY <3>1
      <4> HIDE DEF g
      <4> QED
        BY <2>3, <3>1, <4>1, <4>2
    <3>2. CASE i # n + 1
      <4>1. i \in 0..n /\ (i # 0 => i - 1 \in 0..n)
        BY <2>1, <3>2
      <4>2. f[i] = IF i = 0 THEN <<>> ELSE Longer(f[i - 1], path[i])
        BY <2>2, <4>1
      <4> HIDE DEF g
      <4> QED
        BY <2>3, <4>1, <4>2
    <3> QED
      BY <3>1, <3>2
  <2>5. Upto(g, n + 1)
    <3>1. g = [i \in 0..(n + 1) |-> g[i]]
      OBVIOUS
    <3> HIDE DEF g
    <3> QED
      BY <2>4, <3>1
  <2> HIDE DEF g
  <2> QED
    BY <2>1, <2>5
<1>3. N = Nat
  <2> HIDE DEF N
  <2>1. N \in SUBSET Nat
    BY DEF N
  <2> QED
    BY <1>1, <1>2, <2>1, Counting
<1>4. Len(path) \in N
  BY <1>3, LenProperties
<1> QED
  BY <1>4 DEF IsPlain

\* A path continues another.
Continues(q, p) == Len(p) <= Len(q) /\ \A i \in 1..Len(p) : q[i] = p[i]

\* The plain path of the first n components.
LEMMA PlainTyped ==
  ASSUME NEW S, NEW path \in Seq(S), NEW f, IsPlain(f, path), NEW n \in 0..Len(path)
  PROVE  f[n] \in Seq(S)
<1> DEFINE N == {k \in Nat : k <= Len(path) => f[k] \in Seq(S)}
<1>1. Len(path) \in Nat
  BY LenProperties
<1>2. 0 \in N
  <2>1. f[0] = <<>>
    BY <1>1 DEF IsPlain
  <2>2. <<>> \in Seq(S)
    BY EmptySeq
  <2> QED
    BY <2>1, <2>2
<1>3. ASSUME NEW k \in N PROVE k + 1 \in N
  <2> SUFFICES ASSUME k + 1 <= Len(path) PROVE f[k + 1] \in Seq(S)
    OBVIOUS
  <2>1. f[k + 1] = Longer(f[k], path[k + 1])
    BY <1>1 DEF IsPlain
  <2>2. f[k] \in Seq(S) /\ path[k + 1] \in S
    BY <1>1, ElementOfSeq
  <2> QED
    BY <2>1, <2>2, AppendProperties DEF Longer
<1>4. N = Nat
  <2> HIDE DEF N
  <2>1. N \in SUBSET Nat
    BY DEF N
  <2> QED
    BY <1>2, <1>3, <2>1, Counting
<1> QED
  BY <1>1, <1>4

\* It is determined by these components.
LEMMA PlainUnique ==
  ASSUME NEW S, NEW s \in Seq(S), NEW t \in Seq(S), NEW f, IsPlain(f, s), NEW g, IsPlain(g, s \o t)
  PROVE  f[Len(s)] = g[Len(s)]
<1> DEFINE N == {k \in Nat : k <= Len(s) => f[k] = g[k]}
<1>1. /\ Len(s) \in Nat /\ Len(t) \in Nat
      /\ s \o t \in Seq(S) /\ Len(s \o t) = Len(s) + Len(t)
      /\ \A i \in 1..Len(s) : (s \o t)[i] = s[i]
  BY LenProperties, ConcatProperties
<1> DEFINE u == s \o t
<1> HIDE DEF u
<1>2. 0 \in N
  <2>1. f[0] = <<>> /\ g[0] = <<>>
    BY <1>1 DEF IsPlain
  <2> QED
    BY <2>1
<1>3. ASSUME NEW k \in N PROVE k + 1 \in N
  <2> SUFFICES ASSUME k + 1 <= Len(s) PROVE f[k + 1] = g[k + 1]
    OBVIOUS
  <2>1. f[k + 1] = Longer(f[k], s[k + 1])
    BY <1>1 DEF IsPlain
  <2>2. g[k + 1] = Longer(g[k], u[k + 1])
    BY <1>1 DEF IsPlain, u
  <2>3. f[k] = g[k] /\ s[k + 1] = u[k + 1]
    BY <1>1 DEF u
  <2> QED
    BY <2>1, <2>2, <2>3
<1>4. N = Nat
  <2> HIDE DEF N
  <2>1. N \in SUBSET Nat
    BY DEF N
  <2> QED
    BY <1>2, <1>3, <2>1, Counting
<1> QED
  BY <1>1, <1>4

\* More components make it longer, and leave its front as it is.
LEMMA PlainGrows ==
  ASSUME NEW S, NEW path \in Seq(S), NEW f, IsPlain(f, path), NEW m \in Nat,
         NEW n \in m..Len(path)
  PROVE  Continues(f[n], f[m])
<1> DEFINE N == {k \in Nat : m + k <= Len(path) => Continues(f[m + k], f[m])}
<1>1. Len(path) \in Nat /\ m <= Len(path)
  BY LenProperties
<1>2. 0 \in N
  <2>1. f[m] \in Seq(S)
    BY <1>1, PlainTyped
  <2>2. Continues(f[m], f[m])
    BY <2>1, LenProperties DEF Continues
  <2> QED
    BY <2>2
<1>3. ASSUME NEW k \in N PROVE k + 1 \in N
  <2> SUFFICES ASSUME m + (k + 1) <= Len(path) PROVE Continues(f[m + (k + 1)], f[m])
    OBVIOUS
  <2>1. f[m + (k + 1)] = Longer(f[m + k], path[m + (k + 1)])
    <3>1. m + (k + 1) \in 0..Len(path) /\ m + (k + 1) # 0 /\ m + (k + 1) - 1 = m + k
      BY <1>1
    <3> QED
      BY <3>1 DEF IsPlain
  <2>2. Continues(f[m + k], f[m])
    OBVIOUS
  <2>3. f[m + k] \in Seq(S) /\ f[m] \in Seq(S) /\ path[m + (k + 1)] \in S
    <3>1. m + k \in 0..Len(path) /\ m \in 0..Len(path) /\ m + (k + 1) \in 1..Len(path)
      BY <1>1
    <3> QED
      BY <3>1, PlainTyped, ElementOfSeq
  <2> DEFINE p == f[m]
             q == f[m + k]
             c == path[m + (k + 1)]
  <2>4. Continues(Append(q, c), p)
    <3> HIDE DEF p, q, c
    <3>1. /\ Len(Append(q, c)) = Len(q) + 1 /\ Len(q) \in Nat /\ Len(p) \in Nat
          /\ \A i \in 1..Len(q) : Append(q, c)[i] = q[i]
      BY <2>3, AppendProperties, LenProperties DEF p, q, c
    <3>2. Len(p) <= Len(q) /\ \A i \in 1..Len(p) : q[i] = p[i]
      BY <2>2 DEF p, q, Continues
    <3> QED
      BY <3>1, <3>2 DEF Continues
  <2> QED
    BY <2>1, <2>2, <2>4 DEF Longer
<1>4. N = Nat
  <2> HIDE DEF N
  <2>1. N \in SUBSET Nat
    BY DEF N
  <2> QED
    BY <1>2, <1>3, <2>1, Counting
<1> DEFINE k == n - m
<1>5. k \in Nat /\ m + k = n /\ n <= Len(path)
  BY <1>1
<1> HIDE DEF k
<1>6. k \in N
  BY <1>4, <1>5
<1> QED
  BY <1>5, <1>6

\* The plain path of a name in a directory goes on behind that of the directory.
LEMMA PlainOfName ==
  ASSUME NEW S, NEW dir \in Seq(S), NEW name \in Seq(S), NamesFile(name)
  PROVE  /\ Plain(dir) \in Seq(S) /\ Plain(dir \o name) \in Seq(S)
         /\ Continues(Plain(dir \o name), Plain(dir))
         /\ Len(Plain(dir)) < Len(Plain(dir \o name))
<1> DEFINE path == dir \o name
           d == Len(dir)
           e == Len(path)
<1>1. /\ path \in Seq(S) /\ e = d + Len(name) /\ d \in Nat /\ Len(name) \in Nat \ {0}
      /\ path[e] = name[Len(name)]
  <2>1. /\ Len(name) \in Nat /\ d \in Nat /\ Len(name) # 0
    BY LenProperties, EmptySeq DEF NamesFile
  <2>2. /\ path \in Seq(S) /\ e = d + Len(name)
        /\ \A i \in 1..Len(path) : path[i] = IF i <= d THEN dir[i] ELSE name[i - d]
    BY ConcatProperties
  <2> HIDE DEF path
  <2>3. e \in 1..Len(path) /\ ~(e <= d) /\ e - d = Len(name)
    BY <2>1, <2>2
  <2> QED
    BY <2>1, <2>2, <2>3
<1>2. PICK f : f = (CHOOSE g : IsPlain(g, dir))
  OBVIOUS
<1>3. PICK h : h = (CHOOSE g : IsPlain(g, path))
  OBVIOUS
<1>4. IsPlain(f, dir) /\ Plain(dir) = f[d]
  <2>1. \E g : IsPlain(g, dir)
    BY PlainExists
  <2> QED
    BY <1>2, <2>1, Zenon DEF Plain, IsPlain, Longer
<1>5. IsPlain(h, path) /\ Plain(path) = h[e]
  <2>1. \E g : IsPlain(g, path)
    BY <1>1, PlainExists
  <2> QED
    BY <1>3, <2>1, Zenon DEF Plain, IsPlain, Longer
<1>6. f[d] = h[d]
  BY <1>4, <1>5, PlainUnique
<1> HIDE DEF path, d, e
<1>7. /\ h[d] \in Seq(S) /\ h[e] \in Seq(S) /\ h[e - 1] \in Seq(S)
      /\ Continues(h[e], h[d]) /\ Continues(h[e - 1], h[d])
  <2>1. /\ d \in 0..Len(path) /\ e \in 0..Len(path) /\ e - 1 \in 0..Len(path)
        /\ e \in d..Len(path) /\ e - 1 \in d..Len(path)
    BY <1>1 DEF e
  <2> QED
    BY <1>1, <1>5, <2>1, PlainTyped, PlainGrows
<1>8. h[e] = Append(h[e - 1], path[e])
  <2>1. e \in 0..Len(path) /\ e # 0
    BY <1>1 DEF e
  <2>2. h[e] = Longer(h[e - 1], path[e])
    BY <1>5, <2>1 DEF IsPlain
  <2> QED
    BY <1>1, <2>2 DEF Longer, NamesFile
<1>9. Len(h[e]) = Len(h[e - 1]) + 1 /\ Len(h[d]) \in Nat /\ Len(h[e - 1]) \in Nat
  <2>1. path[e] \in S
    BY <1>1, ElementOfSeq DEF e
  <2> QED
    BY <1>7, <1>8, <2>1, AppendProperties, LenProperties
<1>10. Len(h[d]) < Len(h[e])
  BY <1>7, <1>9 DEF Continues
<1> QED
  BY <1>4, <1>5, <1>6, <1>7, <1>10 DEF path

\* The same of what they lead to.
LEMMA ResolveOfName ==
  ASSUME NEW dir \in Seq(Components), dir # <<>>, NEW name \in Seq(Components), NamesFile(name)
  PROVE  /\ Resolve(dir) \in Seq(Components \cup {"/"})
         /\ Resolve(dir \o name) \in Seq(Components \cup {"/"})
         /\ Continues(Resolve(dir \o name), Resolve(dir))
         /\ Len(Resolve(dir)) < Len(Resolve(dir \o name))
<1> DEFINE p == Plain(dir)
           q == Plain(dir \o name)
           S == Components \cup {"/"}
<1>1. dir \in Seq(S) /\ name \in Seq(S)
  OBVIOUS
<1>2. Head(dir \o name) = Head(dir)
  <2>1. Len(dir) \in Nat \ {0} /\ Len(name) \in Nat
    BY LenProperties, EmptySeq
  <2>2. (dir \o name)[1] = dir[1]
    BY <2>1, ConcatProperties
  <2> QED
    BY <2>2
<1>3. p \in Seq(S) /\ q \in Seq(S) /\ Continues(q, p) /\ Len(p) < Len(q)
  BY <1>1, PlainOfName
<1>4. Resolve(dir) = IF Head(dir) = "/" THEN <<"/">> \o p ELSE p
  BY DEF Resolve
<1>5. Resolve(dir \o name) = IF Head(dir) = "/" THEN <<"/">> \o q ELSE q
  BY <1>2 DEF Resolve
<1> HIDE DEF p, q
<1>6. CASE Head(dir) = "/"
  <2> DEFINE r == <<"/">> \o p
             t == <<"/">> \o q
  <2>0. <<"/">> \in Seq(S) /\ Len(<<"/">>) = 1
    OBVIOUS
  <2>1. /\ r \in Seq(S) /\ Len(r) = 1 + Len(p) /\ Len(p) \in Nat
        /\ \A i \in 1..1 + Len(p) : r[i] = IF i <= 1 THEN <<"/">>[i] ELSE p[i - 1]
    BY <1>3, <2>0, ConcatProperties, LenProperties
  <2>2. /\ t \in Seq(S) /\ Len(t) = 1 + Len(q) /\ Len(q) \in Nat
        /\ \A i \in 1..1 + Len(q) : t[i] = IF i <= 1 THEN <<"/">>[i] ELSE q[i - 1]
    BY <1>3, <2>0, ConcatProperties, LenProperties
  <2>3. Resolve(dir) = r /\ Resolve(dir \o name) = t
    BY <1>4, <1>5, <1>6
  <2> HIDE DEF r, t
  <2>4. \A i \in 1..Len(r) : t[i] = r[i]
    <3> SUFFICES ASSUME NEW i \in 1..Len(r) PROVE t[i] = r[i]
      OBVIOUS
    <3>1. i \in 1..1 + Len(p) /\ i \in 1..1 + Len(q) /\ (~(i <= 1) => i - 1 \in 1..Len(p))
      BY <1>3, <2>1, <2>2
    <3>2. ~(i <= 1) => p[i - 1] = q[i - 1]
      BY <1>3, <3>1 DEF Continues
    <3> QED
      BY <2>1, <2>2, <3>1, <3>2
  <2>5. Continues(t, r) /\ Len(r) < Len(t)
    BY <1>3, <2>1, <2>2, <2>4 DEF Continues
  <2> QED
    BY <2>1, <2>2, <2>3, <2>5
<1>7. CASE Head(dir) # "/"
  BY <1>3, <1>4, <1>5, <1>7
<1> QED
  BY <1>6, <1>7

\* Where a file is found there is a directory, so that a search opens it and then the file.
LEMMA DirIsThere ==
  ASSUME NEW dir \in Seq(Components), dir # <<>>, NEW name \in Seq(Components), NamesFile(name),
         Resolve(dir \o name) \in files
  PROVE  IsDir(dir)
<1> DEFINE d == Resolve(dir)
           f == Resolve(dir \o name)
           front == SubSeq(f, 1, Len(d))
           S == Components \cup {"/"}
<1>1. d \in Seq(S) /\ f \in Seq(S) /\ Continues(f, d) /\ Len(d) < Len(f)
  BY ResolveOfName
<1>2. Len(d) \in Nat /\ Len(f) \in Nat
  BY <1>1, LenProperties
<1> HIDE DEF d, f
<1>3. \A i \in 1..Len(d) : f[i] \in S /\ f[i] = d[i]
  BY <1>1, <1>2, ElementOfSeq DEF Continues
<1>4. /\ front \in Seq(S)
      /\ Len(front) = IF 1 <= Len(d) THEN Len(d) - 1 + 1 ELSE 0
      /\ \A i \in 1..(Len(d) - 1 + 1) : front[i] = f[1 + i - 1]
  BY <1>1, <1>2, <1>3, SubSeqProperties
<1> HIDE DEF front
<1>5. Len(front) = Len(d) /\ \A i \in 1..Len(d) : front[i] = d[i]
  BY <1>2, <1>3, <1>4
<1>6. front = d
  BY <1>1, <1>4, <1>5, SeqEqual
<1>7. f \in files
  BY DEF f
<1> QED
  BY <1>1, <1>6, <1>7 DEF IsDir, d, front

-----------------------------------------------------------------------------
(* A search finds what SearchPath says: the place k of its list is the     *)
(* directory k + o of the program's, where o is how many of these are      *)
(* passed over.                                                            *)

Nonempty == Seq(Components) \ {<<>>}
Known == [path : Nonempty, at : Nat]

\* What makes it so: no path is empty, and every file has a place.
IInv ==
  /\ TypeOK
  /\ searchPaths \in Seq(Nonempty)
  /\ reading \in Seq(Known)

\* The least of a set of numbers is the one below all others.
LEMMA LeastIs ==
  ASSUME NEW S \in SUBSET Nat, NEW m \in S, \A y \in S : m <= y
  PROVE  Min(S) = m
<1>1. PICK x : x = Min(S)
  OBVIOUS
<1>2. x \in S /\ \A y \in S : x <= y
  BY <1>1, Zenon DEF Min
<1> QED
  BY <1>1, <1>2

\* The least of a set of numbers is below all others.
LEMMA MinIsLeast ==
  ASSUME NEW S \in SUBSET Nat, NEW y \in S
  PROVE  Min(S) \in S /\ Min(S) <= y
<1>1. Min(S) \in S
  BY MinInSet
<1>2. PICK m \in S : \A z \in S : m <= z
  <2> DEFINE Less == {ss \in Nat \X Nat : ss[1] < ss[2]}
  <2>1. IsWellFoundedOn(Less, Nat)
    BY NatLessThanWellFounded, Zenon DEF OpToRel
  <2> HIDE DEF Less
  <2>2. PICK x \in S : \A z \in S : ~ (<<z, x>> \in Less)
    BY <2>1, WFMin, Zenon
  <2>3. ASSUME NEW z \in S PROVE x <= z
    <3>1. <<z, x>> \in Less <=> z < x
      BY DEF Less
    <3> QED
      BY <2>2, <3>1
  <2> QED
    BY <2>3
<1>3. Min(S) = m
  BY <1>2, LeastIs
<1> QED
  BY <1>1, <1>2, <1>3

\* Two sets of numbers, one of them shifted, of which the first ones agree.
Shifted(W, F, o) == (\A i \in W : i - o \in F) /\ (F # {} => Min(F) + o \in W)
SameFirst(W, F, o) == (W = {} <=> F = {}) /\ (W # {} => Min(W) = Min(F) + o)

LEMMA FirstOnesAgree ==
  ASSUME NEW W \in SUBSET Nat, NEW F \in SUBSET Nat, NEW o \in Nat, Shifted(W, F, o)
  PROVE  SameFirst(W, F, o)
<1> USE DEF Shifted, SameFirst
<1>1. CASE F = {}
  BY <1>1
<1>2. CASE F # {}
  <2> DEFINE m == Min(F)
  <2>1. m \in F /\ \A k \in F : m <= k
    BY <1>2, MinIsLeast
  <2>2. m + o \in W
    BY <1>2
  <2> HIDE DEF m
  <2>3. \A i \in W : m + o <= i
    BY <2>1
  <2>4. Min(W) = m + o
    BY <2>2, <2>3, LeastIs
  <2> QED
    BY <1>2, <2>2, <2>4 DEF m
<1> QED
  BY <1>1, <1>2

\* No directory that is searched is an empty path.
LEMMA DirsNonempty ==
  ASSUME searchPaths \in Seq(Nonempty), NEW libHeader \in BOOLEAN, NEW next \in BOOLEAN,
         NEW from \in Nonempty
  PROVE  /\ GetDir(from) \in Nonempty
         /\ Dirs(libHeader, next, from) \in Seq(Nonempty)
<1>1. GetDir(from) \in Nonempty
  <2>1. from \in Seq(Components) /\ Len(from) \in Nat \ {0}
    BY LenProperties, EmptySeq DEF Nonempty
  <2>2. CASE Len(from) = 1
    BY <2>2, PathsAssumption DEF GetDir, Nonempty
  <2>3. CASE Len(from) # 1
    <3> DEFINE front == SubSeq(from, 1, Len(from) - 1)
    <3>1. front \in Seq(Components) /\ Len(front) = Len(from) - 1
      BY <2>1, Stacks, EmptySeq
    <3>2. GetDir(from) = front
      BY <2>3 DEF GetDir
    <3> HIDE DEF front
    <3>3. front # <<>>
      BY <2>1, <2>3, <3>1, EmptySeq
    <3> QED
      BY <3>1, <3>2, <3>3 DEF Nonempty
  <2> QED
    BY <2>2, <2>3
<1>2. Append(searchPaths, GetDir(from)) \in Seq(Nonempty)
  BY <1>1, AppendProperties
<1>3. <<GetDir(from)>> \o searchPaths \in Seq(Nonempty)
  <2>1. <<GetDir(from)>> \in Seq(Nonempty)
    BY <1>1
  <2> QED
    BY <2>1, ConcatProperties
<1> QED
  BY <1>1, <1>2, <1>3 DEF Dirs

\* A search opens the files of the name there are, each in a directory that there is.
LEMMA OpenedAreThere ==
  ASSUME NEW dirs \in Seq(Nonempty), NEW name \in Seq(Components), NamesFile(name), Head(name) # "/"
  PROVE  Opened(dirs, name) = {i \in 1..Len(dirs) : Resolve(dirs[i] \o name) \in files}
<1>1. ASSUME NEW i \in 1..Len(dirs), Resolve(dirs[i] \o name) \in files
      PROVE  IsDir(dirs[i])
  <2>1. dirs[i] \in Nonempty
    BY ElementOfSeq
  <2> QED
    BY <1>1, <2>1, DirIsThere DEF Nonempty
<1>2. DOMAIN dirs = 1..Len(dirs)
  BY LenProperties
<1> QED
  BY <1>1, <1>2, Zenon DEF Opened, OpenAt

\* SearchPath means the same by a path.
LEMMA SamePaths == \A p : A!GetDir(p) = GetDir(p) /\ A!Resolve(p) = Resolve(p)
BY DEF A!GetDir, GetDir, A!Resolve, Resolve, A!Plain, Plain

\* The places of a directive, by its kind.
LEMMA PlacesOf ==
  ASSUME NEW name \in Seq(Components), NEW libHeader \in BOOLEAN, NEW next \in BOOLEAN,
         NEW from \in Known, Head(name) # "/"
  PROVE  LET own == <<[path |-> GetDir(from.path) \o name, at |-> 0]>>
             places == A!Places(Directive(name, libHeader, next), from)
         IN  /\ next => places = A!Listed(name, from.at + 1)
             /\ ~next /\ libHeader => places = A!Listed(name, 1) \o own
             /\ ~next /\ ~libHeader => places = own \o A!Listed(name, 1)
<1> DEFINE d == Directive(name, libHeader, next)
           own == <<[path |-> GetDir(from.path) \o name, at |-> 0]>>
<1>1. d.name = name /\ d.inBrackets = libHeader /\ d.next = next
  BY DEF Directive
<1>2. own = <<A!Place(A!GetDir(from.path) \o d.name, 0)>> /\ ~A!Absolute(d.name)
  BY <1>1, SamePaths DEF A!Place, A!Absolute
<1> HIDE DEF d, own
<1>3. CASE next
  BY <1>1, <1>2, <1>3, Zenon DEF A!Places, d, own
<1>4. CASE ~next /\ libHeader
  BY <1>1, <1>2, <1>4, Zenon DEF A!Places, d, own
<1>5. CASE ~next /\ ~libHeader
  BY <1>1, <1>2, <1>5, Zenon DEF A!Places, d, own
<1> QED
  BY <1>3, <1>4, <1>5, Zenon DEF d, own

\* The place of a directory, by where the search puts its own.
LEMMA PlaceIs ==
  ASSUME NEW dirs, Len(dirs) \in Nat, NEW i \in Int
  PROVE  /\ PlaceOf(dirs, i, FALSE) = i - 1
         /\ i < Len(dirs) => PlaceOf(dirs, i, TRUE) = i
         /\ i = Len(dirs) => PlaceOf(dirs, i, TRUE) = 0
BY DEF PlaceOf

LEMMA PlaceTyped ==
  ASSUME NEW dirs, Len(dirs) \in Nat, NEW i \in 1..Len(dirs), NEW libHeader \in BOOLEAN
  PROVE  PlaceOf(dirs, i, libHeader) \in Nat
BY DEF PlaceOf

\* Two lists, one behind the other.
Joins(u, s, m, t, j) ==
  /\ DOMAIN u = 1..(m + j)
  /\ \A k \in 1..m : u[k] = s[k]
  /\ \A k \in (m + 1)..(m + j) : u[k] = t[k - m]

LEMMA Joined ==
  ASSUME NEW S, NEW s \in Seq(S), NEW t \in Seq(S), NEW m \in Nat, NEW j \in Nat,
         Len(s) = m, Len(t) = j
  PROVE  Joins(s \o t, s, m, t, j)
<1> DEFINE u == s \o t
<1>1. /\ u \in Seq(S) /\ Len(u) = Len(s) + Len(t)
      /\ \A k \in 1..Len(s) + Len(t) : u[k] = IF k <= Len(s) THEN s[k] ELSE t[k - Len(s)]
  BY ConcatProperties
<1> HIDE DEF u
<1>2. /\ u \in Seq(S) /\ Len(u) = m + j
      /\ \A k \in 1..m + j : u[k] = IF k <= m THEN s[k] ELSE t[k - m]
  BY <1>1
<1>3. DOMAIN u = 1..(m + j)
  BY <1>2, LenProperties
<1>4. Joins(u, s, m, t, j)
  BY <1>2, <1>3 DEF Joins
<1> QED
  BY <1>4 DEF u

\* How many of the program's directories SearchPath passes over.
Behind(next, from) == IF next THEN from.at + 1 ELSE 0

\* The places of SearchPath are the program's directories from there on.
Aligned(places, dirs, o, name, libHeader) ==
  /\ o \in Nat
  /\ DOMAIN places = 1..(Len(dirs) - o)
  /\ \A k \in 1..(Len(dirs) - o) :
       places[k] = [path |-> dirs[k + o] \o name, at |-> PlaceOf(dirs, k + o, libHeader)]

LEMMA PlacesAreDirs ==
  ASSUME searchPaths \in Seq(Nonempty), NEW name \in Seq(Components), NEW libHeader \in BOOLEAN,
         NEW next \in BOOLEAN, NEW from \in Known, Head(name) # "/", ~(next /\ libHeader),
         NEW dirs, dirs = Dirs(libHeader, next, from.path),
         NEW places, places = A!Places(Directive(name, libHeader, next), from)
  PROVE  Aligned(places, dirs, Behind(next, from), name, libHeader)
<1> USE DEF Aligned
<1> DEFINE o == Behind(next, from)
<1> SUFFICES Aligned(places, dirs, o, name, libHeader)
  OBVIOUS
<1> HIDE DEF o
<1> DEFINE dir == GetDir(from.path)
           n == Len(searchPaths)
           Entries == [path : Seq(Components), at : Nat]
           own == <<[path |-> dir \o name, at |-> 0]>>
           list == [i \in 1..n |-> [path |-> searchPaths[i] \o name, at |-> i]]
<1>0. from.path \in Nonempty /\ from.at \in Nat
  BY DEF Known
<1>1. /\ n \in Nat /\ dir \in Nonempty /\ dirs \in Seq(Nonempty)
      /\ \A i \in 1..n : searchPaths[i] \in Nonempty
  BY <1>0, DirsNonempty, LenProperties, ElementOfSeq
<1>2. o \in Nat
  BY <1>0 DEF Behind, o
<1>3. /\ list \in Seq(Entries) /\ Len(list) = n
      /\ own \in Seq(Entries) /\ Len(own) = 1
  <2>1. \A i \in 1..n : searchPaths[i] \o name \in Seq(Components)
    BY <1>1 DEF Nonempty
  <2>2. dir \o name \in Seq(Components)
    BY <1>1 DEF Nonempty
  <2> HIDE DEF dir, n
  <2> QED
    BY <1>1, <2>1, <2>2
<1>4. A!Listed(name, 1) = list
  BY <1>1 DEF A!Listed, A!Place
<1>kinds. /\ next => places = A!Listed(name, from.at + 1)
          /\ ~next /\ libHeader => places = list \o own
          /\ ~next /\ ~libHeader => places = own \o list
  <2> HIDE DEF list, own
  <2>1. own = <<[path |-> GetDir(from.path) \o name, at |-> 0]>>
    BY DEF own
  <2>2. /\ next => places = A!Listed(name, from.at + 1)
        /\ ~next /\ libHeader => places = A!Listed(name, 1) \o own
        /\ ~next /\ ~libHeader => places = own \o A!Listed(name, 1)
    BY <2>1, PlacesOf, Zenon
  <2> QED
    BY <1>4, <2>2
<1> HIDE DEF Entries
<1> HIDE DEF own, list, dir, n
<1>own. own[1] = [path |-> dir \o name, at |-> 0]
  BY DEF own
<1>list. \A i \in 1..n : list[i] = [path |-> searchPaths[i] \o name, at |-> i]
  BY DEF list
<1>len. Len(dirs) \in Nat
  BY <1>1, LenProperties
<1>one. 1 \in Nat
  OBVIOUS
<1>5. CASE next
  <2>1. libHeader = FALSE /\ o = from.at + 1
    BY <1>5 DEF Behind, o
  <2>2. places = A!Listed(name, from.at + 1)
    BY <1>5, <1>kinds
  <2>3. dirs = <<dir>> \o searchPaths
    BY <1>5, <2>1 DEF Dirs, dir
  <2>4. Len(dirs) = n + 1 /\ \A i \in 1..n : dirs[i + 1] = searchPaths[i]
    BY <1>1, <2>3 DEF n
  <2>5. places = [i \in 1..(n - o + 1) |->
                    [path |-> searchPaths[o + i - 1] \o name, at |-> o + i - 1]]
    BY <2>1, <2>2, Zenon DEF A!Listed, A!Place, n
  <2>6. Len(dirs) - o = n - o + 1
    BY <1>1, <1>2, <2>4
  <2>7. ASSUME NEW k \in 1..(Len(dirs) - o)
        PROVE  places[k] = [path |-> dirs[k + o] \o name, at |-> PlaceOf(dirs, k + o, libHeader)]
    <3>0. k \in Nat \ {0} /\ k <= n - o + 1 /\ o >= 1
      <4>1. k \in 1..(n - o + 1)
        BY <2>6
      <4>2. o \in Nat /\ n \in Nat /\ o >= 1
        BY <1>0, <1>1, <1>2, <2>1
      <4> QED
        BY <4>1, <4>2
    <3>1. o + k - 1 \in 1..n /\ (o + k - 1) + 1 = k + o /\ o + k - 1 = (k + o) - 1 /\ k + o \in Int
      BY <3>0, <1>1, <1>2
    <3>2. dirs[k + o] = searchPaths[o + k - 1]
      BY <2>4, <3>1
    <3>3. PlaceOf(dirs, k + o, FALSE) = (k + o) - 1
      <4> DEFINE i == k + o
      <4>1. i \in Int
        BY <3>1
      <4> HIDE DEF i
      <4>2. PlaceOf(dirs, i, FALSE) = i - 1
        BY <1>len, <4>1, PlaceIs
      <4> QED
        BY <4>2, Zenon DEF i
    <3>4. places[k] = [path |-> searchPaths[o + k - 1] \o name, at |-> o + k - 1]
      BY <2>5, <2>6
    <3>5. places[k] = [path |-> searchPaths[o + k - 1] \o name, at |-> (k + o) - 1]
      BY <3>1, <3>4
    <3> QED
      BY <2>1, <3>2, <3>3, <3>5
  <2> QED
    BY <1>2, <2>5, <2>6, <2>7
<1>6. CASE ~next /\ libHeader
  <2>0. Joins(list \o own, list, n, own, 1)
    <3>1. n \in Nat /\ Len(list) = n /\ Len(own) = 1
      BY <1>1, <1>3
    <3> QED
      BY <1>3, <1>one, <3>1, Joined
  <2>1. o = 0 /\ places = list \o own /\ libHeader = TRUE
    BY <1>6, <1>kinds DEF Behind, o
  <2>2. dirs = Append(searchPaths, dir)
    BY <1>6 DEF Dirs, dir
  <2>3. /\ Len(dirs) = n + 1 /\ dirs[n + 1] = dir
        /\ \A i \in 1..n : dirs[i] = searchPaths[i]
    BY <1>1, <2>2 DEF n
  <2>4. /\ DOMAIN places = 1..(n + 1)
        /\ \A k \in 1..n : places[k] = list[k]
        /\ \A k \in (n + 1)..(n + 1) : places[k] = own[k - n]
    BY <2>0, <2>1, Zenon DEF Joins
  <2>5. ASSUME NEW k \in 1..(n + 1)
        PROVE  places[k] = [path |-> dirs[k + o] \o name, at |-> PlaceOf(dirs, k + o, libHeader)]
    <3>0. k + o = k /\ k \in Int
      BY <1>1, <2>1
    <3>1. CASE k <= n
      <4>1. k \in 1..n /\ k < Len(dirs)
        BY <1>1, <2>3, <3>1
      <4>2. PlaceOf(dirs, k, libHeader) = k
        BY <1>len, <2>1, <3>0, <4>1, PlaceIs
      <4>3. places[k] = [path |-> searchPaths[k] \o name, at |-> k]
        BY <1>list, <2>4, <4>1
      <4> QED
        BY <2>3, <3>0, <4>1, <4>2, <4>3
    <3>2. CASE ~(k <= n)
      <4>1. k = n + 1 /\ k \in (n + 1)..(n + 1) /\ k - n = 1 /\ k = Len(dirs)
        BY <1>1, <2>3, <3>2
      <4>2. PlaceOf(dirs, k, libHeader) = 0
        BY <1>len, <2>1, <3>0, <4>1, PlaceIs
      <4>3. places[k] = [path |-> dir \o name, at |-> 0]
        BY <1>own, <2>4, <4>1
      <4>4. dirs[k] = dir
        BY <2>3, <4>1
      <4> QED
        BY <3>0, <4>2, <4>3, <4>4
    <3> QED
      BY <3>1, <3>2
  <2>6. Len(dirs) - o = n + 1
    BY <1>1, <2>1, <2>3
  <2> QED
    BY <1>2, <2>4, <2>5, <2>6
<1>7. CASE ~next /\ ~libHeader
  <2>0. Joins(own \o list, own, 1, list, n)
    <3>1. n \in Nat /\ Len(list) = n /\ Len(own) = 1
      BY <1>1, <1>3
    <3> QED
      BY <1>3, <1>one, <3>1, Joined
  <2>1. o = 0 /\ places = own \o list /\ libHeader = FALSE
    BY <1>7, <1>kinds DEF Behind, o
  <2>2. dirs = <<dir>> \o searchPaths
    BY <1>7 DEF Dirs, dir
  <2>3. /\ Len(dirs) = n + 1 /\ dirs[1] = dir
        /\ \A i \in 1..n : dirs[i + 1] = searchPaths[i]
    BY <1>1, <2>2 DEF n
  <2>4. /\ DOMAIN places = 1..(1 + n)
        /\ \A k \in 1..1 : places[k] = own[k]
        /\ \A k \in (1 + 1)..(1 + n) : places[k] = list[k - 1]
    BY <2>0, <2>1, Zenon DEF Joins
  <2>5. ASSUME NEW k \in 1..(n + 1)
        PROVE  places[k] = [path |-> dirs[k + o] \o name, at |-> PlaceOf(dirs, k + o, libHeader)]
    <3>0. k + o = k /\ k \in Int
      BY <1>1, <2>1
    <3>1. PlaceOf(dirs, k, libHeader) = k - 1
      BY <1>len, <2>1, <3>0, PlaceIs
    <3>2. CASE k = 1
      <4>1. places[k] = [path |-> dir \o name, at |-> 0]
        BY <1>own, <2>4, <3>2
      <4>2. dirs[k + o] = dir /\ PlaceOf(dirs, k + o, libHeader) = 0
        <5>1. dirs[k] = dir /\ PlaceOf(dirs, k, libHeader) = 0
          BY <2>3, <3>1, <3>2
        <5> QED
          BY <3>0, <5>1
      <4> QED
        BY <4>1, <4>2
    <3>3. CASE k # 1
      <4>1. k - 1 \in 1..n /\ (k - 1) + 1 = k /\ k \in (1 + 1)..(1 + n)
        BY <1>1, <3>3
      <4>2. dirs[k] = searchPaths[k - 1]
        BY <2>3, <4>1
      <4>3. places[k] = [path |-> searchPaths[k - 1] \o name, at |-> k - 1]
        BY <1>list, <2>4, <4>1
      <4> QED
        BY <3>0, <3>1, <4>2, <4>3
    <3> QED
      BY <3>2, <3>3
  <2>6. Len(dirs) - o = n + 1 /\ 1 + n = n + 1
    BY <1>1, <2>1, <2>3
  <2> QED
    BY <1>2, <2>4, <2>5, <2>6
<1> QED
  BY <1>5, <1>6, <1>7

\* A search finds the first place of SearchPath's list, or nothing if there is none.
FindsFirst(name, libHeader, dirs, wanted, places, found) ==
  /\ wanted = {} <=> found = {}
  /\ wanted # {} =>
       /\ Min(wanted) \in wanted /\ wanted \subseteq Opened(dirs, name)
       /\ places[Min(found)] = [path |-> dirs[Min(wanted)] \o name,
                                at |-> PlaceOf(dirs, Min(wanted), libHeader)]

LEMMA SearchAgrees ==
  ASSUME searchPaths \in Seq(Nonempty), NEW name \in Seq(Components), NamesFile(name),
         NEW libHeader \in BOOLEAN, NEW next \in BOOLEAN, NEW from \in Known,
         NEW d, d = Directive(name, libHeader, next), ~Gap(d, from),
         NEW dirs, dirs = Dirs(libHeader, next, from.path),
         NEW wanted, wanted = Wanted(dirs, name, next, from.path),
         NEW places, places = A!Places(d, from),
         NEW found, found = A!Found(places)
  PROVE  FindsFirst(name, libHeader, dirs, wanted, places, found)
<1> DEFINE o == Behind(next, from)
           opened == Opened(dirs, name)
           same == Same(dirs, name, from.path)
<1>0. d.name = name /\ d.inBrackets = libHeader /\ d.next = next
  BY DEF Directive
<1>1. /\ Head(name) # "/"
      /\ ~(next /\ libHeader)
      /\ found # {} => places[Min(found)].path # from.path
      /\ next => \E j \in same : j <= from.at + 1
      /\ next => \A i \in 1..from.at :
           Resolve(searchPaths[i] \o name) \in files => searchPaths[i] \o name = from.path
  <2>1. /\ ~AbsoluteName(d) /\ ~SelfSkipped(d, from) /\ ~NextInBrackets(d)
        /\ ~NextOtherName(d, from) /\ ~NextStartsOver(d, from)
    BY Zenon DEF Gap
  <2>2. Head(name) # "/" /\ ~(next /\ libHeader)
    BY <1>0, <2>1, Zenon DEF AbsoluteName, NextInBrackets
  <2>3. found # {} => places[Min(found)].path # from.path
    BY <2>1, Zenon DEF SelfSkipped
  <2>4. next => \E j \in same : j <= from.at + 1
    BY <1>0, <2>1, Zenon DEF NextOtherName
  <2>5. next => \A i \in 1..from.at :
          Resolve(searchPaths[i] \o name) \in files => searchPaths[i] \o name = from.path
    BY <1>0, <2>1, SamePaths, Zenon DEF NextStartsOver, A!OnDisk
  <2> QED
    BY <2>2, <2>3, <2>4, <2>5, Zenon
<1>2. from.path \in Nonempty /\ from.at \in Nat
  BY DEF Known
<1>3. dirs \in Seq(Nonempty) /\ Len(dirs) \in Nat /\ DOMAIN dirs = 1..Len(dirs)
  BY <1>2, DirsNonempty, LenProperties
<1>4. /\ o \in Nat
      /\ DOMAIN places = 1..(Len(dirs) - o)
      /\ \A k \in 1..(Len(dirs) - o) :
           places[k] = [path |-> dirs[k + o] \o name, at |-> PlaceOf(dirs, k + o, libHeader)]
  <2> HIDE DEF o
  <2>1. o = Behind(next, from) /\ places = A!Places(Directive(name, libHeader, next), from)
    BY DEF o
  <2>2. Aligned(places, dirs, o, name, libHeader)
    BY <1>1, <2>1, PlacesAreDirs
  <2> QED
    BY <2>2, Zenon DEF Aligned
<1>5. opened = {i \in 1..Len(dirs) : Resolve(dirs[i] \o name) \in files}
  BY <1>1, <1>3, OpenedAreThere
<1>6. o = IF next THEN from.at + 1 ELSE 0
  BY DEF Behind
<1> HIDE DEF o, opened
<1>7. found = {k \in 1..(Len(dirs) - o) : k + o \in opened}
  <2>1. ASSUME NEW k \in 1..(Len(dirs) - o)
        PROVE  A!OnDisk(places[k].path) <=> k + o \in opened
    <3>1. places[k].path = dirs[k + o] \o name
      BY <1>4
    <3>2. k + o \in 1..Len(dirs)
      BY <1>3, <1>4
    <3>3. A!OnDisk(places[k].path) <=> Resolve(dirs[k + o] \o name) \in files
      BY <3>1, SamePaths, Zenon DEF A!OnDisk
    <3> QED
      BY <1>5, <3>2, <3>3
  <2> QED
    BY <1>4, <2>1, Zenon DEF A!Found
<1>8. /\ same \subseteq opened
      /\ wanted = {i \in opened : dirs[i] \o name # from.path /\ (next => \E j \in same : j < i)}
  <2>1. same = {i \in opened : dirs[i] \o name = from.path}
    BY Zenon DEF Same, opened
  <2>2. wanted = {i \in opened \ same : next => \E j \in same : j < i}
    BY Zenon DEF Wanted, opened
  <2> HIDE DEF same
  <2> QED
    BY <2>1, <2>2, Zenon
<1> HIDE DEF same
<1>sub. \A j \in same : j \in 1..Len(dirs)
  BY <1>5, <1>8, Zenon
<1>9. ASSUME NEW i \in wanted PROVE i - o \in found
  <2>1. i \in 1..Len(dirs) /\ i \in opened /\ Resolve(dirs[i] \o name) \in files
    BY <1>5, <1>8
  <2>2. CASE ~next
    <3>1. o = 0 /\ i - o = i /\ i + o = i
      BY <1>6, <2>1, <2>2
    <3> QED
      BY <1>3, <1>7, <2>1, <3>1
  <2>3. CASE next
    <3>1. PICK j \in same : j < i
      BY <1>8, <2>3
    <3>2. j \in Nat /\ j >= 1
      BY <1>sub, <1>3
    <3> DEFINE m == i - 1
    <3>3. m \in Nat /\ m >= 1 /\ i = m + 1 /\ m <= Len(dirs) - 1
      BY <1>3, <2>1, <3>1, <3>2
    <3>4. dirs[m + 1] = searchPaths[m]
      <4>1. dirs = <<GetDir(from.path)>> \o searchPaths
        BY <2>3 DEF Dirs
      <4>2. <<GetDir(from.path)>> \in Seq(Nonempty) /\ Len(<<GetDir(from.path)>>) = 1
        BY <1>2, DirsNonempty
      <4>3. Len(searchPaths) \in Nat
        BY LenProperties
      <4>one. 1 \in Nat
        OBVIOUS
      <4> DEFINE first == <<GetDir(from.path)>>
                 n == Len(searchPaths)
      <4> HIDE DEF first, n
      <4>4. Joins(first \o searchPaths, first, 1, searchPaths, n)
        BY <4>2, <4>3, <4>one, Joined DEF first, n
      <4>5. Joins(dirs, first, 1, searchPaths, n)
        BY <4>1, <4>4, Zenon DEF first
      <4>6. DOMAIN dirs = 1..(1 + n)
        BY <4>5, Zenon DEF Joins
      <4>7. m + 1 \in (1 + 1)..(1 + n) /\ (m + 1) - 1 = m
        <5>1. m + 1 \in 1..(1 + n)
          BY <1>3, <2>1, <3>3, <4>6
        <5> QED
          BY <3>3, <4>3, <5>1 DEF n
      <4> QED
        BY <4>5, <4>7 DEF Joins
    <3> HIDE DEF m
    <3>5. ~(m \in 1..from.at)
      <4>1. dirs[i] \o name # from.path
        BY <1>8
      <4> QED
        BY <1>1, <2>1, <2>3, <3>3, <3>4, <4>1, Zenon
    <3>6. m > from.at
      BY <1>2, <3>3, <3>5
    <3>7. i - o \in 1..(Len(dirs) - o) /\ (i - o) + o = i
      <4>1. o \in Nat /\ i \in Nat /\ i >= o + 1
        BY <1>2, <1>6, <2>3, <3>3, <3>6
      <4>2. Len(dirs) \in Nat /\ i <= Len(dirs)
        BY <1>3, <2>1
      <4> DEFINE l == Len(dirs)
      <4> HIDE DEF l
      <4>3. i - o \in 1..(l - o) /\ (i - o) + o = i
        BY <4>1, <4>2 DEF l
      <4> QED
        BY <4>3 DEF l
    <3> QED
      BY <1>7, <2>1, <3>7
  <2> QED
    BY <2>2, <2>3
<1>10. ASSUME found # {} PROVE Min(found) + o \in wanted
  <2> DEFINE k == Min(found)
  <2>1. k \in found
    <3>1. found \subseteq Nat
      BY <1>7
    <3> QED
      BY <1>10, <3>1, MinInSet
  <2>2. places[k].path # from.path
    BY <1>1, <1>10
  <2> HIDE DEF k
  <2>3. k \in 1..(Len(dirs) - o) /\ k + o \in opened
    BY <1>7, <2>1
  <2>4. dirs[k + o] \o name # from.path
    <3>1. places[k].path = dirs[k + o] \o name
      BY <1>4, <2>3
    <3> QED
      BY <2>2, <3>1
  <2>5. next => \E j \in same : j < k + o
    <3>0. CASE ~next
      BY <3>0
    <3>1. CASE next
      <4>1. PICK j \in same : j <= from.at + 1
        BY <1>1, <3>1
      <4>2. j \in Nat
        BY <1>sub, <1>3
      <4>3. j < k + o
        BY <1>2, <1>4, <1>6, <2>3, <3>1, <4>1, <4>2
      <4> QED
        BY <4>3
    <3> QED
      BY <3>0, <3>1
  <2> QED
    BY <1>8, <2>3, <2>4, <2>5, Zenon DEF k
<1>11. wanted \subseteq opened /\ wanted \in SUBSET Nat /\ found \in SUBSET Nat
  BY <1>5, <1>7, <1>8
<1>12. (wanted = {} <=> found = {}) /\ (wanted # {} => Min(wanted) = Min(found) + o)
  <2>1. o \in Nat /\ Shifted(wanted, found, o)
    BY <1>4, <1>9, <1>10 DEF Shifted
  <2>2. SameFirst(wanted, found, o)
    BY <1>11, <2>1, FirstOnesAgree
  <2> QED
    BY <2>2, Zenon DEF SameFirst
<1>13. ASSUME wanted # {}
       PROVE  /\ Min(wanted) \in wanted
              /\ places[Min(found)] = [path |-> dirs[Min(wanted)] \o name,
                                       at |-> PlaceOf(dirs, Min(wanted), libHeader)]
  <2>1. Min(found) \in 1..(Len(dirs) - o) /\ Min(wanted) \in wanted
    BY <1>7, <1>11, <1>12, <1>13, MinInSet
  <2> QED
    BY <1>4, <1>12, <1>13, <2>1
<1> QED
  BY <1>11, <1>12, <1>13 DEF opened, FindsFirst

-----------------------------------------------------------------------------
(* Every step but a gap is a step of SearchPath.                           *)

\* What IncludeFile does: it fails, or it includes the first of the files that are wanted.
Includes(name, libHeader, dirs, wanted) ==
  /\ wanted # {}
  /\ searchPaths' = Restored(dirs, libHeader)
  /\ reading' = Append(reading, [path |-> dirs[Min(wanted)] \o name,
                                 at |-> PlaceOf(dirs, Min(wanted), libHeader)])
  /\ status' = "reading"
  /\ files' = files

Does(name, libHeader, dirs, wanted) ==
  \/ Fail("refused")
  \/ Fail("missing") /\ (wanted = {} \/ ~Readable(dirs[Min(wanted)] \o name))
  \/ Includes(name, libHeader, dirs, wanted)

LEMMA IncludeDoes ==
  ASSUME NEW name, NEW libHeader, NEW next, IncludeFile(name, libHeader, next),
         NEW from, from = reading[Len(reading)].path,
         NEW dirs, dirs = Dirs(libHeader, next, from),
         NEW wanted, wanted = Wanted(dirs, name, next, from)
  PROVE  Does(name, libHeader, dirs, wanted)
BY Zenon DEF IncludeFile, Does, Includes

\* The file in which the search goes on is one that was found.
LEMMA CurrentKnown ==
  ASSUME IInv, ~Ended
  PROVE  reading # <<>> /\ Len(reading) \in Nat /\ reading[Len(reading)] \in Known
<1>1. reading \in Seq(Known) /\ reading # <<>>
  BY DEF IInv, TypeOK
<1> QED
  BY <1>1, Stacks

\* A search leaves no path empty and gives every file a place.
LEMMA IncludeKept ==
  ASSUME IInv, ~Ended, NEW name \in Seq(Components), NamesFile(name), NEW libHeader \in BOOLEAN,
         NEW next \in BOOLEAN, IncludeFile(name, libHeader, next)
  PROVE  IInv'
<1> DEFINE from == reading[Len(reading)].path
           dirs == Dirs(libHeader, next, from)
           wanted == Wanted(dirs, name, next, from)
           i == Min(wanted)
           entry == [path |-> dirs[i] \o name, at |-> PlaceOf(dirs, i, libHeader)]
<1>1. TypeOK'
  BY IncludeStep DEF IInv
<1>2. reading \in Seq(Known) /\ reading[Len(reading)] \in Known /\ searchPaths \in Seq(Nonempty)
  BY CurrentKnown DEF IInv
<1>3. from \in Nonempty
  BY <1>2 DEF Known
<1>4. dirs \in Seq(Nonempty) /\ Len(dirs) \in Nat /\ DOMAIN dirs = 1..Len(dirs) /\ dirs # <<>>
  <2>1. dirs \in Seq(Nonempty)
    BY <1>2, <1>3, DirsNonempty
  <2>2. dirs # <<>>
    BY <1>3, DirsTyped DEF IInv, Nonempty, TypeOK, Ended
  <2> QED
    BY <2>1, <2>2, LenProperties
<1>5. \/ searchPaths' = searchPaths /\ reading' = reading
      \/ /\ wanted # {}
         /\ searchPaths' = Restored(dirs, libHeader)
         /\ reading' = Append(reading, entry)
  <2> HIDE DEF from, dirs, wanted
  <2>1. from = reading[Len(reading)].path /\ dirs = Dirs(libHeader, next, from)
          /\ wanted = Wanted(dirs, name, next, from)
    BY DEF from, dirs, wanted
  <2>2. Does(name, libHeader, dirs, wanted)
    BY <2>1, IncludeDoes
  <2> QED
    BY <2>2, Zenon DEF Does, Includes, Fail
<1>6. CASE searchPaths' = searchPaths /\ reading' = reading
  BY <1>1, <1>2, <1>6, Zenon DEF IInv
<1>7. CASE /\ wanted # {}
           /\ searchPaths' = Restored(dirs, libHeader)
           /\ reading' = Append(reading, entry)
  <2>1. i \in 1..Len(dirs)
    <3>1. wanted \subseteq 1..Len(dirs)
      BY <1>4, Zenon DEF Wanted, Opened
    <3> HIDE DEF wanted, dirs
    <3>2. wanted \in SUBSET Nat
      BY <1>4, <3>1
    <3> QED
      BY <1>7, <3>1, <3>2, MinInSet
  <2> HIDE DEF i, dirs, wanted
  <2>2. dirs[i] \o name \in Nonempty
    <3>1. dirs[i] \in Nonempty
      BY <1>4, <2>1, ElementOfSeq
    <3>2. dirs[i] \o name \in Seq(Components) /\ Len(dirs[i] \o name) = Len(dirs[i]) + Len(name)
      BY <3>1, ConcatProperties DEF Nonempty
    <3>3. Len(dirs[i]) \in Nat \ {0} /\ Len(name) \in Nat
      BY <3>1, LenProperties, EmptySeq DEF Nonempty
    <3> DEFINE path == dirs[i] \o name
    <3> HIDE DEF path
    <3>4. path \in Seq(Components) /\ Len(path) # 0
      BY <3>2, <3>3 DEF path
    <3>5. path # <<>>
      BY <3>4, EmptySeq
    <3> QED
      BY <3>4, <3>5 DEF Nonempty, path
  <2>3. PlaceOf(dirs, i, libHeader) \in Nat
    BY <1>4, <2>1, PlaceTyped
  <2>4. entry \in Known
    BY <2>2, <2>3 DEF Known
  <2> HIDE DEF entry
  <2>5. reading' \in Seq(Known)
    BY <1>2, <1>7, <2>4, AppendProperties
  <2>6. searchPaths' \in Seq(Nonempty)
    <3>1. SubSeq(dirs, 1, Len(dirs) - 1) \in Seq(Nonempty)
      BY <1>4, Stacks
    <3>2. Tail(dirs) \in Seq(Nonempty)
      BY <1>4, HeadTailProperties
    <3> QED
      BY <1>7, <3>1, <3>2 DEF Restored
  <2> QED
    BY <1>1, <2>5, <2>6 DEF IInv
<1> QED
  BY <1>5, <1>6, <1>7

\* One search, as SearchPath has it.
LEMMA IncludeRefines ==
  ASSUME IInv, ~Ended, NEW name \in HeaderNames \cup {WgtccHeader}, NEW libHeader \in BOOLEAN,
         NEW next \in BOOLEAN, IncludeFile(name, libHeader, next),
         asked' = Directive(name, libHeader, next),
         ~Gap(Directive(name, libHeader, next), reading[Len(reading)])
  PROVE  A!Next
<1> DEFINE d == Directive(name, libHeader, next)
           from == reading[Len(reading)]
           dirs == Dirs(libHeader, next, from.path)
           wanted == Wanted(dirs, name, next, from.path)
           places == A!Places(d, from)
           found == A!Found(places)
           phase == IF status = "start" THEN "reading" ELSE status
<1>1. name \in Seq(Components) /\ NamesFile(name)
  BY PathsAssumption
<1>2. from \in Known /\ searchPaths \in Seq(Nonempty) /\ TypeOK
  BY CurrentKnown DEF IInv
<1>3. d \in A!Directives
  BY DEF Directive, A!Directives
<1>4. phase = "reading"
  BY DEF Ended
<1>5. /\ wanted = {} <=> found = {}
      /\ wanted # {} =>
           /\ Min(wanted) \in wanted /\ wanted \subseteq Opened(dirs, name)
           /\ places[Min(found)] = [path |-> dirs[Min(wanted)] \o name,
                                    at |-> PlaceOf(dirs, Min(wanted), libHeader)]
  <2> HIDE DEF d, from, dirs, wanted, places, found
  <2>1. /\ d = Directive(name, libHeader, next) /\ ~Gap(d, from)
        /\ dirs = Dirs(libHeader, next, from.path)
        /\ wanted = Wanted(dirs, name, next, from.path)
        /\ places = A!Places(d, from)
        /\ found = A!Found(places)
    BY DEF d, from, dirs, wanted, places, found
  <2>2. FindsFirst(name, libHeader, dirs, wanted, places, found)
    BY <1>1, <1>2, <2>1, SearchAgrees
  <2> QED
    BY <2>2, Zenon DEF FindsFirst
<1>6. ~(libHeader /\ next) /\ Head(name) # "/"
  <2>1. ~NextInBrackets(d) /\ ~AbsoluteName(d)
    BY Zenon DEF Gap
  <2> QED
    BY <2>1 DEF NextInBrackets, AbsoluteName, Directive
<1>7. Restored(dirs, libHeader) = searchPaths
  BY <1>2, <1>6, ListRestored DEF Known, Nonempty
<1>8. Does(name, libHeader, dirs, wanted)
  <2> HIDE DEF dirs, wanted
  <2>1. dirs = Dirs(libHeader, next, from.path) /\ wanted = Wanted(dirs, name, next, from.path)
    BY DEF dirs, wanted
  <2> QED
    BY <2>1, IncludeDoes
<1>9. asked' = d
  OBVIOUS
<1> HIDE DEF d, from, dirs, wanted, places, found
<1>10. CASE Fail("refused")
  <2>1. A!Refuse(d)
    BY <1>4, <1>9, <1>10 DEF Fail, A!Refuse
  <2> QED
    BY <1>3, <2>1 DEF A!Next
<1>11. CASE Fail("missing") /\ (wanted = {} \/ ~Readable(dirs[Min(wanted)] \o name))
  <2>1. found = {}
    <3>1. ASSUME wanted # {} PROVE Readable(dirs[Min(wanted)] \o name)
      <4>1. Min(wanted) \in Opened(dirs, name)
        BY <1>5, <3>1
      <4> QED
        BY <1>6, <4>1 DEF Opened, OpenAt, Readable
    <3> QED
      BY <1>5, <1>11, <3>1
  <2>2. A!Found(A!Places(d, A!Current)) = {}
    BY <2>1 DEF A!Current, found, places, from
  <2>3. A!Include(d)
    BY <1>4, <1>9, <1>11, <2>2 DEF Fail, A!Include
  <2> QED
    BY <1>3, <2>3 DEF A!Next
<1>12. CASE Includes(name, libHeader, dirs, wanted)
  <2>1. found # {} /\ reading' = Append(reading, places[Min(found)])
    BY <1>5, <1>12 DEF Includes
  <2>2. /\ A!Found(A!Places(d, A!Current)) # {}
        /\ reading' = Append(reading, A!Places(d, A!Current)[A!Min(A!Found(A!Places(d, A!Current)))])
    BY <2>1, Zenon DEF A!Current, A!Min, Min, found, places, from
  <2>3. A!Include(d)
    BY <1>4, <1>7, <1>9, <1>12, <2>2 DEF A!Include, Includes
  <2> QED
    BY <1>3, <2>3 DEF A!Next
<1> QED
  BY <1>8, <1>10, <1>11, <1>12 DEF Does

\* The invariant holds at the begin, and no step breaks it.
LEMMA InitInvariant == Init => IInv
<1> SUFFICES ASSUME Init PROVE IInv
  OBVIOUS
<1> DEFINE entry == [path |-> MainFile, at |-> 0]
<1>1. entry \in Entry /\ entry \in Known
  BY PathsAssumption DEF Entry, Known, Nonempty
<1> HIDE DEF entry
<1>2. <<entry>> \in Seq(Entry) /\ <<entry>> \in Seq(Known) /\ <<entry>> # <<>>
  BY <1>1
<1>3. searchPaths \in Seq(Nonempty) /\ searchPaths \in Seq(Seq(Components))
  BY PathsAssumption DEF Init, Nonempty
<1> QED
  BY <1>2, <1>3, OpenMaxAssumption DEF Init, IInv, TypeOK, Ended, entry

LEMMA StepKept == IInv /\ [Next]_vars => IInv'
<1> SUFFICES ASSUME IInv, [Next]_vars PROVE IInv'
  OBVIOUS
<1>1. CASE Process
  <2>1. ~Ended /\ IncludeFile(WgtccHeader, TRUE, FALSE)
    BY <1>1 DEF Process, Ended
  <2> QED
    BY <2>1, IncludeKept, PathsAssumption
<1>2. ASSUME NEW name \in HeaderNames, NEW libHeader \in BOOLEAN, NEW next \in BOOLEAN,
             ParseInclude(name, libHeader, next)
      PROVE  IInv'
  <2>1. ~Ended /\ IncludeFile(name, libHeader, next)
    BY <1>2 DEF ParseInclude, Ended
  <2> QED
    BY <2>1, IncludeKept, PathsAssumption
<1>3. CASE EndOfFile
  <2>1. TypeOK'
    BY <1>3, EndOfFileStep DEF IInv
  <2>2. reading \in Seq(Known) /\ reading # <<>>
    BY <1>3, CurrentKnown DEF IInv, EndOfFile, Ended
  <2>3. reading' \in Seq(Known)
    BY <1>3, <2>2, Stacks DEF EndOfFile
  <2> QED
    BY <1>3, <2>1, <2>3, Zenon DEF IInv, EndOfFile
<1>4. CASE vars' = vars
  <2>1. TypeOK'
    BY <1>4, EveryStep DEF IInv
  <2> QED
    BY <1>4, <2>1 DEF IInv, vars
<1> QED
  BY <1>1, <1>2, <1>3, <1>4, Zenon DEF Next

\* Every step with the history is one of the program, and one of SearchPath unless a gap has
\* been met.
LEMMA HistoryStep ==
  ASSUME IInv, HistoryNext
  PROVE  /\ [Next]_vars
         /\ astray' \/ A!Next \/ UNCHANGED <<vars, asked, astray>>
<1>1. ASSUME Process, Recorded(Directive(WgtccHeader, TRUE, FALSE))
      PROVE  astray' \/ A!Next
  <2>1. ~Ended /\ IncludeFile(WgtccHeader, TRUE, FALSE)
    BY <1>1 DEF Process, Ended
  <2> QED
    BY <1>1, <2>1, IncludeRefines DEF Recorded
<1>2. ASSUME NEW name \in HeaderNames, NEW libHeader \in BOOLEAN, NEW next \in BOOLEAN,
             ParseInclude(name, libHeader, next), Recorded(Directive(name, libHeader, next))
      PROVE  astray' \/ A!Next
  <2>1. ~Ended /\ IncludeFile(name, libHeader, next)
    BY <1>2 DEF ParseInclude, Ended
  <2> QED
    BY <1>2, <2>1, IncludeRefines DEF Recorded
<1>3. ASSUME EndOfFile, UNCHANGED <<asked, astray>>
      PROVE  A!Next
  <2>1. A!EndOfFile
    BY <1>3 DEF EndOfFile, A!EndOfFile
  <2> QED
    BY <2>1 DEF A!Next
<1>4. [Next]_vars
  BY DEF HistoryNext, Next
<1> QED
  BY <1>1, <1>2, <1>3, <1>4 DEF HistoryNext

\* An include directive denotes the first file of its name along a list of directories
\* that no search changes, up to the first directive that is one of the gaps.
THEOREM SearchPathImplemented == HistorySpec => ImplementsSearchPath
<1>1. HistoryInit => IInv /\ A!Init
  <2> SUFFICES ASSUME HistoryInit PROVE IInv /\ A!Init
    OBVIOUS
  <2>1. IInv
    BY InitInvariant DEF HistoryInit
  <2>2. A!Init
    <3>1. /\ reading = <<[path |-> MainFile, at |-> 0]>> /\ status = "start"
          /\ Resolve(MainFile) \in files
      BY DEF HistoryInit, Init, Readable
    <3>2. Len(reading) = 1 /\ reading[Len(reading)] = [path |-> MainFile, at |-> 0]
      BY <3>1
    <3> QED
      BY <3>1, <3>2, SamePaths DEF A!Init, A!OnDisk, A!Current
  <2> QED
    BY <2>1, <2>2
<1>2. IInv /\ [HistoryNext]_<<vars, asked, astray>> => IInv'
  <2> SUFFICES ASSUME IInv, [HistoryNext]_<<vars, asked, astray>> PROVE IInv'
    OBVIOUS
  <2>1. [Next]_vars
    BY HistoryStep
  <2> QED
    BY <2>1, StepKept
<1>3. IInv /\ [HistoryNext]_<<vars, asked, astray>>
        => [astray' \/ A!Next]_<<vars, asked, astray>>
  BY HistoryStep
<1> QED
  BY <1>1, <1>2, <1>3, PTL DEF HistorySpec, ImplementsSearchPath
=============================================================================
