--------------------------- MODULE TokenSeqProofs ---------------------------
(***************************************************************************)
(* What TLAPS proves of TokenSeq, for files and macros of any tokens and   *)
(* any length: a put back counts down only at the end of the stream, and   *)
(* the list with its cursor implements the stream of marked tokens.        *)
(*                                                                         *)
(* SeqInv is the inductive invariant.  The cursor is in the list, at or    *)
(* after the end of the last directive; every token is of a file numbered  *)
(* below the next one, so an included file is no other's; and as far back  *)
(* as the cursor may go, tokens that no line end separates are of one      *)
(* file.  That last part is what makes the rest of a directive's line      *)
(* unmarked tokens, which is all that TakeLine of the stream may take.     *)
(*                                                                         *)
(* The refinement compares flattened sequences, and FlattenSeq is defined  *)
(* by a recursive function.  Counting is induction over Nat, drawn from    *)
(* the well-foundedness of < on it; with it come the laws of FlattenSeq    *)
(* the mapping needs, then those of a part of a list, and from there every *)
(* step is worked with views: ViewSplit, ViewBlank, ViewShift, ViewFront.  *)
(***************************************************************************)
EXTENDS TokenSeq, Integers, FiniteSetTheorems, SequenceTheorems, NaturalsInduction, TLAPS

(* A set of numbers that counts on holds them all.                         *)
LEMMA Counting ==
  ASSUME NEW S \in SUBSET Nat, 0 \in S, \A n \in S : n + 1 \in S
  PROVE  S = Nat
<1> DEFINE Less == {ss \in Nat \X Nat : ss[1] < ss[2]}
           Out == Nat \ S
<1>1. IsWellFoundedOn(Less, Nat)
  BY NatLessThanWellFounded, Zenon DEF OpToRel
<1> HIDE DEF Less
<1> SUFFICES ASSUME Out # {} PROVE FALSE
  OBVIOUS
<1>2. PICK x \in Out : \A y \in Out : ~ (<<y, x>> \in Less)
  BY <1>1, WFMin, Zenon
<1>3. x \in Nat /\ x # 0 /\ x - 1 \in Nat
  OBVIOUS
<1>4. <<x - 1, x>> \in Less
  BY <1>3 DEF Less
<1>5. x - 1 \in S
  BY <1>2, <1>3, <1>4
<1> QED
  BY <1>3, <1>5

-----------------------------------------------------------------------------
\* The function that FlattenSeq takes its value from, up to the first n parts.
FlatUpto(f, s, n) == f = [i \in 1..n |-> IF i = 1 THEN s[i] ELSE f[i - 1] \o s[i]]

SameUpto(s, t, n) == \A i \in 1..n : s[i] = t[i]

(* There is one, of sequences of the same elements.                        *)
LEMMA FlatExists ==
  ASSUME NEW T, NEW s \in Seq(Seq(T))
  PROVE  \A n \in Nat : n <= Len(s) =>
           \E f : FlatUpto(f, s, n) /\ \A i \in 1..n : f[i] \in Seq(T)
<1> DEFINE Has(n) == \E f : FlatUpto(f, s, n) /\ \A i \in 1..n : f[i] \in Seq(T)
           S == {n \in Nat : n <= Len(s) => Has(n)}
<1>1. Len(s) \in Nat /\ DOMAIN s = 1..Len(s) /\ \A i \in 1..Len(s) : s[i] \in Seq(T)
  BY LenProperties, ElementOfSeq
<1>2. Has(0)
  <2> DEFINE f == [i \in 1..0 |-> << >>]
  <2>1. FlatUpto(f, s, 0) /\ \A i \in 1..0 : f[i] \in Seq(T)
    BY DEF FlatUpto
  <2> QED
    BY <2>1
<1>3. ASSUME NEW n \in Nat, n + 1 <= Len(s), Has(n)
      PROVE  Has(n + 1)
  <2>1. PICK f : FlatUpto(f, s, n) /\ \A i \in 1..n : f[i] \in Seq(T)
    BY <1>3
  <2> DEFINE x == IF n = 0 THEN s[n + 1] ELSE f[n] \o s[n + 1]
             g == [i \in 1..(n + 1) |-> IF i = n + 1 THEN x ELSE f[i]]
  <2>2. n + 1 \in 1..Len(s) /\ s[n + 1] \in Seq(T)
    BY <1>1, <1>3
  <2>3. x \in Seq(T)
    <3>1. CASE n = 0
      BY <2>2, <3>1
    <3>2. CASE n # 0
      <4>1. f[n] \in Seq(T)
        BY <2>1, <3>2
      <4> QED
        BY <2>2, <3>2, <4>1, ConcatProperties
    <3> QED
      BY <3>1, <3>2
  <2>4. n + 1 \in 1..(n + 1) /\ \A i \in 1..n : i \in 1..(n + 1) /\ i # n + 1
    OBVIOUS
  <2>5. \A i \in 1..(n + 1) : i = n + 1 \/ (i \in 1..n /\ i # n + 1)
    OBVIOUS
  <2>6. g[n + 1] = x /\ \A i \in 1..n : g[i] = f[i]
    <3> HIDE DEF x
    <3> QED
      BY <2>4
  <2>7. g = [i \in 1..(n + 1) |-> g[i]]
    OBVIOUS
  <2> HIDE DEF g
  <2>8. ASSUME NEW i \in 1..(n + 1)
        PROVE  g[i] \in Seq(T) /\ g[i] = IF i = 1 THEN s[i] ELSE g[i - 1] \o s[i]
    <3>1. CASE i = n + 1
      <4>1. CASE n = 0
        BY <2>3, <2>6, <3>1, <4>1
      <4>2. CASE n # 0
        <5>1. n \in 1..n /\ i # 1 /\ i - 1 = n
          BY <3>1, <4>2
        <5> QED
          BY <2>3, <2>6, <3>1, <4>2, <5>1
      <4> QED
        BY <4>1, <4>2
    <3>2. CASE i # n + 1
      <4>1. i \in 1..n /\ (i # 1 => i - 1 \in 1..n)
        BY <2>5, <3>2
      <4>2. f[i] = IF i = 1 THEN s[i] ELSE f[i - 1] \o s[i]
        BY <2>1, <4>1 DEF FlatUpto
      <4> QED
        BY <2>1, <2>6, <4>1, <4>2
    <3> QED
      BY <3>1, <3>2
  <2>9. g = [i \in 1..(n + 1) |-> IF i = 1 THEN s[i] ELSE g[i - 1] \o s[i]]
    BY <2>7, <2>8
  <2> QED
    BY <2>8, <2>9 DEF FlatUpto
<1> HIDE DEF Has
<1>4. ASSUME NEW n \in S PROVE n + 1 \in S
  BY <1>1, <1>3
<1>5. 0 \in S
  BY <1>2
<1>6. S = Nat
  <2> HIDE DEF S
  <2>1. S \in SUBSET Nat
    BY DEF S
  <2> QED
    BY <1>4, <1>5, <2>1, Counting
<1> QED
  BY <1>6 DEF Has

(* It is determined by the parts.                                          *)
LEMMA FlatUnique ==
  ASSUME NEW s, NEW t, NEW n \in Nat, NEW m \in Nat, NEW f, NEW g, n <= m,
         SameUpto(s, t, n), FlatUpto(f, s, n), FlatUpto(g, t, m)
  PROVE  \A k \in 1..n : f[k] = g[k]
<1> SUFFICES ASSUME NEW k \in 1..n
             PROVE  f[k] = g[k]
  OBVIOUS
<1> DEFINE S == {i \in Nat : i + 1 <= k => f[i + 1] = g[i + 1]}
<1>1. \A i \in 1..k : /\ f[i] = IF i = 1 THEN s[i] ELSE f[i - 1] \o s[i]
                      /\ g[i] = IF i = 1 THEN t[i] ELSE g[i - 1] \o t[i]
  <2>1. \A i \in 1..k : i \in 1..n /\ i \in 1..m
    OBVIOUS
  <2> QED
    BY <2>1 DEF FlatUpto, SameUpto
<1>2. 0 \in S
  <2>1. 1 \in 1..k /\ 1 \in 1..n
    OBVIOUS
  <2> QED
    BY <1>1, <2>1 DEF SameUpto
<1>3. ASSUME NEW i \in S PROVE i + 1 \in S
  <2> SUFFICES ASSUME i + 2 <= k PROVE f[i + 2] = g[i + 2]
    OBVIOUS
  <2>1. i + 2 \in 1..k /\ i + 2 \in 1..n /\ i + 2 # 1 /\ (i + 2) - 1 = i + 1 /\ f[i + 1] = g[i + 1]
    OBVIOUS
  <2> QED
    BY <1>1, <2>1 DEF SameUpto
<1>4. S = Nat
  <2> HIDE DEF S
  <2>1. S \in SUBSET Nat
    BY DEF S
  <2> QED
    BY <1>2, <1>3, <2>1, Counting
<1>5. k - 1 \in Nat /\ (k - 1) + 1 = k
  OBVIOUS
<1>6. k - 1 \in S
  <2> HIDE DEF S
  <2> QED
    BY <1>4, <1>5
<1> QED
  BY <1>5, <1>6

(* What FlattenSeq gives, part by part.                                    *)
LEMMA FlattenEmpty == FlattenSeq(<< >>) = << >>
<1>1. Len(<< >>) = 0
  OBVIOUS
<1> QED
  BY <1>1 DEF FlattenSeq

\* What FlattenSeq gives is the last of the sums of its parts.
LEMMA FlattenValue ==
  ASSUME NEW T, NEW s \in Seq(Seq(T)), s # << >>
  PROVE  /\ Len(s) \in Nat \ {0}
         /\ \E f : /\ FlatUpto(f, s, Len(s)) /\ \A i \in 1..Len(s) : f[i] \in Seq(T)
                   /\ FlattenSeq(s) = f[Len(s)]
<1>1. Len(s) \in Nat \ {0}
  BY EmptySeq
<1> DEFINE f == CHOOSE flatten : flatten = [i \in 1..Len(s) |->
                                   IF i = 1 THEN s[i] ELSE flatten[i - 1] \o s[i]]
<1>2. FlattenSeq(s) = f[Len(s)]
  BY <1>1 DEF FlattenSeq
<1>3. PICK g : FlatUpto(g, s, Len(s)) /\ \A i \in 1..Len(s) : g[i] \in Seq(T)
  BY <1>1, FlatExists
<1>4. FlatUpto(f, s, Len(s))
  BY <1>3 DEF FlatUpto
<1> HIDE DEF f
<1>5. \A i \in 1..Len(s) : f[i] = g[i]
  BY <1>1, <1>3, <1>4, FlatUnique DEF SameUpto
<1> QED
  BY <1>1, <1>2, <1>3, <1>4, <1>5

\* Sequences of elements of T flatten to one.
LEMMA FlattenTyped ==
  ASSUME NEW T, NEW s \in Seq(Seq(T))
  PROVE  FlattenSeq(s) \in Seq(T)
<1>1. CASE s = << >>
  BY <1>1, FlattenEmpty, EmptySeq
<1>2. CASE s # << >>
  <2>1. Len(s) \in Nat \ {0} /\ Len(s) \in 1..Len(s)
    BY <1>2, EmptySeq
  <2> QED
    BY <1>2, <2>1, FlattenValue
<1> QED
  BY <1>1, <1>2

\* One part more is put behind.
LEMMA FlattenAppend ==
  ASSUME NEW T, NEW s \in Seq(Seq(T)), NEW x \in Seq(T)
  PROVE  FlattenSeq(Append(s, x)) = FlattenSeq(s) \o x
<1> DEFINE t == Append(s, x)
           n == Len(s)
<1>1. /\ n \in Nat /\ t \in Seq(Seq(T)) /\ t # << >> /\ Len(t) = n + 1
      /\ t[n + 1] = x /\ \A i \in 1..n : t[i] = s[i]
  BY AppendProperties, LenProperties
<1> HIDE DEF t
<1>2. PICK g : FlatUpto(g, t, n + 1) /\ FlattenSeq(t) = g[n + 1]
  BY <1>1, FlattenValue
<1>3. n + 1 \in 1..(n + 1)
  BY <1>1
<1>4. g[n + 1] = IF n + 1 = 1 THEN t[n + 1] ELSE g[(n + 1) - 1] \o t[n + 1]
  BY <1>2, <1>3 DEF FlatUpto
<1>5. CASE s = << >>
  <2>1. n = 0 /\ FlattenSeq(s) = << >>
    BY <1>5, FlattenEmpty
  <2> QED
    BY <1>1, <1>2, <1>4, <2>1, ConcatEmptySeq DEF t
<1>6. CASE s # << >>
  <2>1. n \in Nat \ {0}
    BY <1>6, EmptySeq
  <2>2. PICK f : FlatUpto(f, s, n) /\ FlattenSeq(s) = f[n]
    BY <1>6, FlattenValue
  <2> HIDE DEF n
  <2>3. n \in 1..n /\ n <= n + 1 /\ n + 1 # 1 /\ (n + 1) - 1 = n /\ n + 1 \in Nat
    BY <2>1
  <2>4. SameUpto(s, t, n)
    BY <1>1 DEF n, SameUpto
  <2>5. g[n + 1] = f[n] \o t[n + 1]
    <3> DEFINE m == n + 1
    <3>1. FlatUpto(f, s, n) /\ FlatUpto(g, t, m) /\ m = n + 1
      BY <1>2, <2>2
    <3> HIDE DEF m
    <3>2. n \in Nat /\ m \in Nat /\ n <= m
      BY <2>1, <3>1
    <3>3. \A k \in 1..n : f[k] = g[k]
      BY <2>4, <3>1, <3>2, FlatUnique
    <3>4. f[n] = g[n] /\ m # 1 /\ m - 1 = n /\ m \in 1..m
      BY <2>1, <3>1, <3>3
    <3>5. g[m] = IF m = 1 THEN t[m] ELSE g[m - 1] \o t[m]
      BY <3>1, <3>4 DEF FlatUpto
    <3>6. g[m] = f[n] \o t[m]
      BY <3>4, <3>5, Zenon
    <3> QED
      BY <3>1, <3>6
  <2> QED
    BY <1>1, <1>2, <2>2, <2>5 DEF t, n
<1> QED
  BY <1>5, <1>6

\* Concatenation, whichever two are put together first.
LEMMA ConcatShift ==
  ASSUME NEW S, NEW a \in Seq(S), NEW b \in Seq(S), NEW c \in Seq(S)
  PROVE  (a \o b) \o c = a \o (b \o c)
BY ConcatAssociative, SMT

\* The parts of two sequences, one after the other.
LEMMA FlattenConcat ==
  ASSUME NEW T, NEW s \in Seq(Seq(T)), NEW t \in Seq(Seq(T))
  PROVE  FlattenSeq(s \o t) = FlattenSeq(s) \o FlattenSeq(t)
<1> DEFINE S == {n \in Nat : \A u \in Seq(Seq(T)) : Len(u) = n =>
                   FlattenSeq(s \o u) = FlattenSeq(s) \o FlattenSeq(u)}
<1>1. 0 \in S
  <2>1. ASSUME NEW u \in Seq(Seq(T)), Len(u) = 0
        PROVE  FlattenSeq(s \o u) = FlattenSeq(s) \o FlattenSeq(u)
    <3>1. u = << >>
      BY <2>1, EmptySeq
    <3>2. s \o u = s
      BY <3>1, ConcatEmptySeq
    <3>3. FlattenSeq(s) \o << >> = FlattenSeq(s)
      BY FlattenTyped, ConcatEmptySeq
    <3> QED
      BY <3>1, <3>2, <3>3, FlattenEmpty
  <2> QED
    BY <2>1
<1>2. ASSUME NEW n \in S PROVE n + 1 \in S
  <2>1. ASSUME NEW u \in Seq(Seq(T)), Len(u) = n + 1
        PROVE  FlattenSeq(s \o u) = FlattenSeq(s) \o FlattenSeq(u)
    <3>1. n \in Nat /\ u # << >>
      BY <2>1
    <3>2. PICK v \in Seq(Seq(T)), x \in Seq(T) : u = Append(v, x)
      BY <3>1, SequenceEmptyOrAppend
    <3>3. Len(v) \in Nat /\ Len(u) = Len(v) + 1
      BY <3>2, LenProperties, AppendProperties
    <3>4. FlattenSeq(s \o v) = FlattenSeq(s) \o FlattenSeq(v)
      BY <2>1, <3>1, <3>3
    <3>5. s \o u = Append(s \o v, x) /\ s \o v \in Seq(Seq(T))
      <4> DEFINE one == <<x>>
      <4>1. u = v \o one /\ one \in Seq(Seq(T)) /\ s \o v \in Seq(Seq(T))
        BY <3>2, AppendIsConcat, ConcatProperties
      <4>2. Append(s \o v, x) = (s \o v) \o one
        BY <4>1, AppendIsConcat
      <4> HIDE DEF one
      <4>3. (s \o v) \o one = s \o (v \o one)
        BY <3>2, <4>1, ConcatShift, SMTT(30)
      <4> QED
        BY <4>1, <4>2, <4>3
    <3>6. FlattenSeq(s \o u) = (FlattenSeq(s) \o FlattenSeq(v)) \o x
      <4>1. FlattenSeq(Append(s \o v, x)) = FlattenSeq(s \o v) \o x
        BY <3>5, FlattenAppend
      <4> QED
        BY <3>4, <3>5, <4>1
    <3>7. FlattenSeq(u) = FlattenSeq(v) \o x
      BY <3>2, FlattenAppend
    <3>8. FlattenSeq(s) \in Seq(T) /\ FlattenSeq(v) \in Seq(T)
      BY FlattenTyped
    <3>9. (FlattenSeq(s) \o FlattenSeq(v)) \o x = FlattenSeq(s) \o (FlattenSeq(v) \o x)
      BY <3>2, <3>8, ConcatShift, SMTT(30)
    <3> QED
      BY <3>6, <3>7, <3>9
  <2> QED
    BY <2>1
<1>3. S = Nat
  <2> HIDE DEF S
  <2>1. S \in SUBSET Nat
    BY DEF S
  <2> QED
    BY <1>1, <1>2, <2>1, Counting
<1>4. Len(t) \in S
  BY <1>3, LenProperties
<1> QED
  BY <1>4

(* Parts that are all empty flatten to nothing, single elements to the     *)
(* sequence of them.                                                       *)
LEMMA FlattenBlank ==
  ASSUME NEW T, NEW s \in Seq(Seq(T)), \A i \in 1..Len(s) : s[i] = << >>
  PROVE  FlattenSeq(s) = << >>
<1> DEFINE AllBlank(u) == \A i \in 1..Len(u) : u[i] = << >>
           S == {n \in Nat : \A u \in Seq(Seq(T)) :
                               Len(u) = n /\ AllBlank(u) => FlattenSeq(u) = << >>}
<1>1. 0 \in S
  <2>1. ASSUME NEW u \in Seq(Seq(T)), Len(u) = 0 PROVE FlattenSeq(u) = << >>
    <3>1. u = << >>
      BY <2>1, EmptySeq
    <3> QED
      BY <3>1, FlattenEmpty
  <2> QED
    BY <2>1
<1>2. ASSUME NEW n \in S PROVE n + 1 \in S
  <2>1. ASSUME NEW u \in Seq(Seq(T)), Len(u) = n + 1, AllBlank(u)
        PROVE  FlattenSeq(u) = << >>
    <3>1. n \in Nat /\ u # << >>
      BY <2>1
    <3>2. PICK v \in Seq(Seq(T)), x \in Seq(T) : u = Append(v, x)
      BY <3>1, SequenceEmptyOrAppend
    <3>3. /\ Len(v) \in Nat /\ Len(u) = Len(v) + 1 /\ u[Len(v) + 1] = x
          /\ \A i \in 1..Len(v) : u[i] = v[i]
      BY <3>2, LenProperties, AppendProperties
    <3>4. AllBlank(v) /\ x = << >>
      BY <2>1, <3>3
    <3>5. FlattenSeq(v) = << >>
      BY <2>1, <3>1, <3>3, <3>4
    <3>6. FlattenSeq(u) = << >> \o << >>
      BY <3>2, <3>4, <3>5, FlattenAppend
    <3> QED
      BY <3>6, EmptySeq, ConcatEmptySeq
  <2> QED
    BY <2>1
<1> HIDE DEF AllBlank
<1>3. S = Nat
  <2> HIDE DEF S
  <2>1. S \in SUBSET Nat
    BY DEF S
  <2> QED
    BY <1>1, <1>2, <2>1, Counting
<1>4. Len(s) \in S
  BY <1>3, LenProperties
<1> QED
  BY <1>4 DEF AllBlank

\* A single part.
LEMMA FlattenOne ==
  ASSUME NEW T, NEW x \in Seq(T)
  PROVE  <<x>> \in Seq(Seq(T)) /\ FlattenSeq(<<x>>) = x
<1>1. << >> \in Seq(Seq(T)) /\ Append(<< >>, x) = <<x>>
  BY EmptySeq
<1>2. FlattenSeq(Append(<< >>, x)) = FlattenSeq(<< >>) \o x
  BY <1>1, FlattenAppend
<1>3. << >> \o x = x
  BY ConcatEmptySeq
<1> QED
  BY <1>1, <1>2, <1>3, FlattenEmpty

Singles(s) == [i \in DOMAIN s |-> <<s[i]>>]

\* Parts of one element each.
LEMMA FlattenSingles ==
  ASSUME NEW T, NEW s \in Seq(T)
  PROVE  Singles(s) \in Seq(Seq(T)) /\ FlattenSeq(Singles(s)) = s
<1> DEFINE Fine(u) == Singles(u) \in Seq(Seq(T)) /\ FlattenSeq(Singles(u)) = u
           S == {n \in Nat : \A u \in Seq(T) : Len(u) = n => Fine(u)}
<1>1. 0 \in S
  <2>1. ASSUME NEW u \in Seq(T), Len(u) = 0 PROVE Fine(u)
    <3>1. u = << >> /\ Singles(u) = << >>
      BY <2>1, EmptySeq DEF Singles
    <3> QED
      BY <3>1, FlattenEmpty, EmptySeq
  <2> HIDE DEF Fine
  <2> QED
    BY <2>1
<1>2. ASSUME NEW n \in S PROVE n + 1 \in S
  <2>1. ASSUME NEW u \in Seq(T), Len(u) = n + 1
        PROVE  Fine(u)
    <3>1. n \in Nat /\ u # << >>
      BY <2>1
    <3>2. PICK v \in Seq(T), x \in T : u = Append(v, x)
      BY <3>1, SequenceEmptyOrAppend
    <3>3. /\ Len(v) \in Nat /\ Len(u) = Len(v) + 1 /\ u[Len(v) + 1] = x
          /\ \A i \in 1..Len(v) : u[i] = v[i]
      BY <3>2, LenProperties, AppendProperties
    <3>4. Singles(v) \in Seq(Seq(T)) /\ FlattenSeq(Singles(v)) = v
      BY <2>1, <3>1, <3>3
    <3>5. <<x>> \in Seq(T)
      OBVIOUS
    <3>6. Singles(u) = Append(Singles(v), <<x>>)
      <4> DEFINE one == <<x>>
                 p == Singles(v)
                 q == Singles(u)
                 r == Append(p, one)
      <4>1. /\ Len(p) = Len(v) /\ \A i \in 1..Len(v) : p[i] = <<v[i]>>
        BY <3>3, <3>4, LenProperties DEF Singles
      <4>2. q \in Seq(Seq(T)) /\ Len(q) = Len(u) /\ \A i \in 1..Len(u) : q[i] = <<u[i]>>
        <5>1. DOMAIN u = 1..Len(u) /\ Len(u) \in Nat /\ \A i \in 1..Len(u) : <<u[i]>> \in Seq(T)
          BY LenProperties, ElementOfSeq
        <5>2. q = [i \in 1..Len(u) |-> <<u[i]>>]
          BY <5>1 DEF Singles
        <5>3. q \in Seq(Seq(T))
          BY <5>1, <5>2, IsASeq
        <5> QED
          BY <5>1, <5>2, <5>3, LenProperties
      <4> HIDE DEF one, p, q
      <4>3. /\ r \in Seq(Seq(T)) /\ Len(r) = Len(p) + 1 /\ r[Len(p) + 1] = one
            /\ \A i \in 1..Len(p) : r[i] = p[i]
        <5>1. p \in Seq(Seq(T)) /\ one \in Seq(T)
          BY <3>4, <3>5 DEF p, one
        <5> QED
          BY <5>1, AppendProperties
      <4> HIDE DEF r
      <4>4. ASSUME NEW i \in 1..Len(q) PROVE q[i] = r[i]
        <5>1. CASE i = Len(v) + 1
          BY <3>3, <4>1, <4>2, <4>3, <5>1 DEF one
        <5>2. CASE i # Len(v) + 1
          <6>1. i \in 1..Len(v) /\ i \in 1..Len(p) /\ i \in 1..Len(u)
            BY <3>3, <4>1, <4>2, <5>2
          <6> QED
            BY <3>3, <4>1, <4>2, <4>3, <6>1
        <5> QED
          BY <5>1, <5>2
      <4>5. Len(q) = Len(r)
        BY <3>3, <4>1, <4>2, <4>3
      <4>6. q = r
        BY <4>2, <4>3, <4>4, <4>5, SeqEqual
      <4> QED
        BY <4>6 DEF q, r, p, one
    <3>7. FlattenSeq(Singles(u)) = v \o <<x>>
      BY <3>4, <3>5, <3>6, FlattenAppend
    <3>8. v \o <<x>> = u
      BY <3>2, AppendIsConcat
    <3>9. Singles(u) \in Seq(Seq(T))
      <4> DEFINE one == <<x>>
      <4> HIDE DEF one
      <4>1. one \in Seq(T)
        BY <3>5 DEF one
      <4>2. Append(Singles(v), one) \in Seq(Seq(T))
        BY <3>4, <4>1, AppendProperties
      <4> QED
        BY <3>6, <4>2 DEF one
    <3> QED
      BY <3>7, <3>8, <3>9
  <2> HIDE DEF Fine
  <2> QED
    BY <2>1
<1> HIDE DEF Fine
<1>3. S = Nat
  <2> HIDE DEF S
  <2>1. S \in SUBSET Nat
    BY DEF S
  <2> QED
    BY <1>1, <1>2, <2>1, Counting
<1>4. Len(s) \in S
  BY <1>3, LenProperties
<1> QED
  BY <1>4 DEF Fine

-----------------------------------------------------------------------------
\* What parts i to j of p flatten to.
Part(p, i, j) == FlattenSeq(SubSeq(p, i, j))

\* The parts of p from position i to j, flattened.
LEMMA PartTyped ==
  ASSUME NEW T, NEW p \in Seq(Seq(T)), NEW i \in 1..(Len(p) + 1), NEW j \in (i - 1)..Len(p)
  PROVE  /\ SubSeq(p, i, j) \in Seq(Seq(T))
         /\ Len(SubSeq(p, i, j)) = j - i + 1
         /\ \A k \in 1..(j - i + 1) : SubSeq(p, i, j)[k] = p[i + k - 1]
         /\ Part(p, i, j) \in Seq(T)
<1>1. Len(p) \in Nat /\ i \in Int /\ j \in Int
  BY LenProperties
<1>2. \A k \in i..j : k \in 1..Len(p) /\ p[k] \in Seq(T)
  <2>1. \A k \in i..j : k \in 1..Len(p)
    BY <1>1
  <2> QED
    BY <2>1, ElementOfSeq
<1>3. /\ SubSeq(p, i, j) \in Seq(Seq(T))
      /\ Len(SubSeq(p, i, j)) = IF i <= j THEN j - i + 1 ELSE 0
      /\ \A k \in 1..(j - i + 1) : SubSeq(p, i, j)[k] = p[i + k - 1]
  BY <1>1, <1>2, SubSeqProperties
<1>4. (IF i <= j THEN j - i + 1 ELSE 0) = j - i + 1
  BY <1>1
<1> QED
  BY <1>3, <1>4, FlattenTyped DEF Part

\* No part.
LEMMA PartEmpty ==
  ASSUME NEW p, NEW i \in Int, NEW j \in Int, j < i
  PROVE  Part(p, i, j) = << >>
BY SubSeqEmpty, FlattenEmpty DEF Part

\* Two stretches of parts, one after the other.
LEMMA PartSplit ==
  ASSUME NEW T, NEW p \in Seq(Seq(T)), NEW i \in 1..(Len(p) + 1),
         NEW k \in (i - 1)..Len(p), NEW j \in k..Len(p)
  PROVE  Part(p, i, j) = Part(p, i, k) \o Part(p, k + 1, j)
<1>1. /\ Len(p) \in Nat /\ j \in (i - 1)..Len(p) /\ k + 1 \in 1..(Len(p) + 1)
      /\ j \in ((k + 1) - 1)..Len(p)
  BY LenProperties
<1>2. SubSeq(p, i, k) \o SubSeq(p, k + 1, j) = SubSeq(p, i, j)
  BY ConcatAdjacentSubSeq
<1>3. SubSeq(p, i, k) \in Seq(Seq(T)) /\ SubSeq(p, k + 1, j) \in Seq(Seq(T))
  <2> DEFINE l == k + 1
  <2>1. l \in 1..(Len(p) + 1) /\ j \in (l - 1)..Len(p)
    BY <1>1
  <2> HIDE DEF l
  <2>2. SubSeq(p, l, j) \in Seq(Seq(T))
    BY <2>1, PartTyped
  <2>3. SubSeq(p, i, k) \in Seq(Seq(T))
    BY PartTyped
  <2> QED
    BY <2>2, <2>3 DEF l
<1> QED
  BY <1>2, <1>3, FlattenConcat DEF Part

\* Parts that are empty.
LEMMA PartBlank ==
  ASSUME NEW T, NEW p \in Seq(Seq(T)), NEW i \in 1..(Len(p) + 1), NEW j \in (i - 1)..Len(p),
         \A k \in i..j : p[k] = << >>
  PROVE  Part(p, i, j) = << >>
<1> DEFINE s == SubSeq(p, i, j)
<1>1. /\ s \in Seq(Seq(T)) /\ Len(s) = j - i + 1
      /\ \A k \in 1..(j - i + 1) : s[k] = p[i + k - 1]
  BY PartTyped
<1>2. ASSUME NEW k \in 1..Len(s) PROVE s[k] = << >>
  <2>1. k \in 1..(j - i + 1) /\ i + k - 1 \in i..j
    BY <1>1, LenProperties
  <2> QED
    BY <1>1, <2>1
<1> HIDE DEF s
<1>3. FlattenSeq(s) = << >>
  BY <1>1, <1>2, FlattenBlank
<1> QED
  BY <1>3 DEF s, Part

\* One part.
LEMMA PartOne ==
  ASSUME NEW T, NEW p \in Seq(Seq(T)), NEW i \in 1..Len(p)
  PROVE  Part(p, i, i) = p[i]
<1> DEFINE s == SubSeq(p, i, i)
<1>1. Len(p) \in Nat /\ i \in 1..(Len(p) + 1) /\ i \in (i - 1)..Len(p) /\ p[i] \in Seq(T)
  BY LenProperties, ElementOfSeq
<1>2. /\ s \in Seq(Seq(T)) /\ Len(s) = i - i + 1
      /\ \A k \in 1..(i - i + 1) : s[k] = p[i + k - 1]
  BY <1>1, PartTyped
<1>3. i - i + 1 = 1 /\ 1 \in 1..1 /\ i + 1 - 1 = i
  BY <1>1
<1>4. Len(s) = 1 /\ s[1] = p[i]
  BY <1>2, <1>3
<1> DEFINE t == <<p[i]>>
<1>5. t \in Seq(Seq(T)) /\ FlattenSeq(t) = p[i] /\ Len(t) = 1 /\ t[1] = p[i]
  BY <1>1, FlattenOne
<1> HIDE DEF s, t
<1>6. s = t
  <2>1. \A k \in 1..Len(s) : s[k] = t[k]
    BY <1>4, <1>5
  <2>2. Len(s) = Len(t) /\ s \in Seq(Seq(T)) /\ t \in Seq(Seq(T))
    BY <1>2, <1>4, <1>5
  <2> QED
    BY <2>1, <2>2, SeqEqual
<1> QED
  BY <1>5, <1>6 DEF s, Part

\* Parts i to j of p are those of q, d further on.
SameParts(p, i, j, q, d) == \A k \in i..j : q[k + d] = p[k]

\* The same parts d positions further on, in another sequence.
LEMMA PartShift ==
  ASSUME NEW T, NEW p \in Seq(Seq(T)), NEW q \in Seq(Seq(T)),
         NEW i \in 1..(Len(p) + 1), NEW j \in (i - 1)..Len(p),
         NEW d \in Nat, NEW a, NEW b, a = i + d, b = j + d, b <= Len(q), SameParts(p, i, j, q, d)
  PROVE  Part(q, a, b) = Part(p, i, j)
<1> DEFINE s == SubSeq(p, i, j)
           t == SubSeq(q, a, b)
<1>1. Len(p) \in Nat /\ Len(q) \in Nat /\ a \in 1..(Len(q) + 1) /\ b \in (a - 1)..Len(q)
  BY LenProperties
<1>2. /\ s \in Seq(Seq(T)) /\ Len(s) = j - i + 1
      /\ \A k \in 1..(j - i + 1) : s[k] = p[i + k - 1]
  BY PartTyped
<1>3. /\ t \in Seq(Seq(T)) /\ Len(t) = b - a + 1
      /\ \A k \in 1..(b - a + 1) : t[k] = q[a + k - 1]
  BY <1>1, PartTyped
<1> HIDE DEF s, t
<1>4. ASSUME NEW k \in 1..Len(t) PROVE t[k] = s[k]
  <2>1. /\ k \in 1..(j - i + 1) /\ k \in 1..(b - a + 1) /\ i + k - 1 \in i..j
        /\ a + k - 1 = (i + k - 1) + d
    BY <1>1, <1>3
  <2>2. t[k] = q[a + k - 1] /\ s[k] = p[i + k - 1]
    BY <1>2, <1>3, <2>1
  <2>3. q[(i + k - 1) + d] = p[i + k - 1]
    BY <2>1 DEF SameParts
  <2> QED
    BY <2>1, <2>2, <2>3
<1>5. Len(s) = Len(t)
  BY <1>1, <1>2, <1>3
<1>6. s = t
  BY <1>2, <1>3, <1>4, <1>5, SeqEqual
<1> QED
  BY <1>6 DEF s, t, Part

-----------------------------------------------------------------------------
(* A set of numbers has a least one, and a greatest below a bound.         *)
LEMMA Least ==
  ASSUME NEW S \in SUBSET Nat, NEW a \in S
  PROVE  \E m \in S : \A k \in S : m <= k
<1> DEFINE Less == {ss \in Nat \X Nat : ss[1] < ss[2]}
<1>1. IsWellFoundedOn(Less, Nat)
  BY NatLessThanWellFounded, Zenon DEF OpToRel
<1> HIDE DEF Less
<1>2. S # {}
  OBVIOUS
<1>3. PICK x \in S : \A y \in S : ~ (<<y, x>> \in Less)
  BY <1>1, <1>2, WFMin, Zenon
<1>4. ASSUME NEW k \in S PROVE x <= k
  <2>1. x \in Nat /\ k \in Nat /\ ~ (<<k, x>> \in Less)
    BY <1>3
  <2> QED
    BY <2>1 DEF Less
<1> QED
  BY <1>4

\* A set of numbers below a bound has a greatest one.
LEMMA Greatest ==
  ASSUME NEW b \in Nat, NEW S \in SUBSET (0..b), NEW a \in S
  PROVE  \E m \in S : \A k \in S : k <= m
<1> DEFINE D == {d \in Nat : b - d \in S}
<1>1. a \in 0..b /\ b - a \in Nat /\ b - (b - a) = a
  OBVIOUS
<1>2. b - a \in D /\ D \in SUBSET Nat
  BY <1>1
<1> HIDE DEF D
<1>3. PICK d \in D : \A k \in D : d <= k
  BY <1>2, Least
<1>4. d \in Nat /\ b - d \in S
  BY DEF D
<1>5. ASSUME NEW k \in S PROVE k <= b - d
  <2>1. k \in 0..b /\ b - k \in Nat /\ b - (b - k) = k
    OBVIOUS
  <2>2. b - k \in D
    BY <2>1 DEF D
  <2>3. d <= b - k
    BY <1>3, <2>2
  <2> QED
    BY <1>4, <2>1, <2>3
<1> QED
  BY <1>4, <1>5

-----------------------------------------------------------------------------
(* The positions the cursor moves to, of any list.                         *)
Token == [id : Ids \cup {NL}, file : Nat]

NLAt(L, i) == L[i].id = NL

IsSkip(L, i, j) ==
  /\ j \in i..(Len(L) + 1)
  /\ \A k \in i..(j - 1) : NLAt(L, k)
  /\ j <= Len(L) => ~NLAt(L, j)

SkipFrom(L, i) ==
  CHOOSE j \in i..(Len(L) + 1) :
    /\ \A k \in i..(j - 1) : NLAt(L, k)
    /\ j <= Len(L) => ~NLAt(L, j)

\* Peek and Next skip to one position.
LEMMA SkipUnique ==
  ASSUME NEW L, Len(L) \in Nat, NEW i \in 1..(Len(L) + 1), NEW j, NEW k,
         IsSkip(L, i, j), IsSkip(L, i, k)
  PROVE  j = k
<1>1. /\ j \in Nat /\ k \in Nat /\ i <= j /\ i <= k /\ j <= Len(L) + 1 /\ k <= Len(L) + 1
  BY DEF IsSkip
<1>2. CASE j < k
  <2>1. j \in i..(k - 1) /\ j <= Len(L)
    BY <1>1, <1>2
  <2> QED
    BY <2>1 DEF IsSkip
<1>3. CASE k < j
  <2>1. k \in i..(j - 1) /\ k <= Len(L)
    BY <1>1, <1>3
  <2> QED
    BY <2>1 DEF IsSkip
<1> QED
  BY <1>1, <1>2, <1>3

\* There is one, the end of the list if no other.
LEMMA SkipIs ==
  ASSUME NEW L, Len(L) \in Nat, NEW i \in 1..(Len(L) + 1)
  PROVE  IsSkip(L, i, SkipFrom(L, i))
<1> DEFINE S == {k \in i..Len(L) : ~NLAt(L, k)}
<1>1. \E j : IsSkip(L, i, j)
  <2>1. CASE S = {}
    <3>1. IsSkip(L, i, Len(L) + 1)
      <4>1. \A k \in i..((Len(L) + 1) - 1) : k \in i..Len(L)
        OBVIOUS
      <4>2. Len(L) + 1 \in i..(Len(L) + 1) /\ ~(Len(L) + 1 <= Len(L))
        OBVIOUS
      <4> QED
        BY <2>1, <4>1, <4>2 DEF IsSkip
    <3> QED
      BY <3>1
  <2>2. CASE S # {}
    <3>1. PICK a : a \in S
      BY <2>2
    <3>2. S \in SUBSET Nat
      OBVIOUS
    <3>3. PICK m \in S : \A k \in S : m <= k
      <4> HIDE DEF S
      <4> QED
        BY <3>1, <3>2, Least
    <3>4. m \in i..Len(L) /\ m \in i..(Len(L) + 1) /\ ~NLAt(L, m)
      OBVIOUS
    <3>5. ASSUME NEW k \in i..(m - 1) PROVE NLAt(L, k)
      <4>1. k \in i..Len(L) /\ ~(m <= k)
        BY <3>4
      <4> QED
        BY <3>3, <4>1
    <3>6. IsSkip(L, i, m)
      BY <3>4, <3>5 DEF IsSkip
    <3> QED
      BY <3>6
  <2> QED
    BY <2>1, <2>2
<1>2. \E j \in i..(Len(L) + 1) : /\ \A k \in i..(j - 1) : NLAt(L, k)
                                 /\ j <= Len(L) => ~NLAt(L, j)
  BY <1>1 DEF IsSkip
<1> QED
  BY <1>2, Zenon DEF IsSkip, SkipFrom

IsBack(L, i, j) ==
  /\ j \in 1..(i - 1)
  /\ j = 1 \/ ~NLAt(L, j)
  /\ \A k \in (j + 1)..(i - 1) : NLAt(L, k)

BackFrom(L, i) ==
  CHOOSE j \in 1..(i - 1) :
    /\ j = 1 \/ ~NLAt(L, j)
    /\ \A k \in (j + 1)..(i - 1) : NLAt(L, k)

\* PutBack steps back to one position.
LEMMA BackUnique ==
  ASSUME NEW L, NEW i \in Nat, NEW j, NEW k, IsBack(L, i, j), IsBack(L, i, k)
  PROVE  j = k
<1>1. j \in Nat /\ k \in Nat /\ 1 <= j /\ 1 <= k /\ j <= i - 1 /\ k <= i - 1
  BY DEF IsBack
<1>2. CASE j < k
  <2>1. k \in (j + 1)..(i - 1) /\ k # 1
    BY <1>1, <1>2
  <2> QED
    BY <2>1 DEF IsBack
<1>3. CASE k < j
  <2>1. j \in (k + 1)..(i - 1) /\ j # 1
    BY <1>1, <1>3
  <2> QED
    BY <2>1 DEF IsBack
<1> QED
  BY <1>1, <1>2, <1>3

\* StepBack finds it.
LEMMA BackIs ==
  ASSUME NEW L, NEW i \in Nat, NEW j, IsBack(L, i, j)
  PROVE  BackFrom(L, i) = j
<1>1. \E k \in 1..(i - 1) : /\ k = 1 \/ ~NLAt(L, k)
                            /\ \A l \in (k + 1)..(i - 1) : NLAt(L, l)
  BY DEF IsBack
<1>2. IsBack(L, i, BackFrom(L, i))
  BY <1>1, Zenon DEF IsBack, BackFrom
<1> QED
  BY <1>2, BackUnique

(* Before a cursor with a token behind it, there is a last one.            *)
LEMMA BackExists ==
  ASSUME NEW L, NEW i \in Nat, NEW a \in 1..(i - 1), ~NLAt(L, a)
  PROVE  \E j \in a..(i - 1) : IsBack(L, i, j) /\ ~NLAt(L, j)
<1> DEFINE S == {k \in 1..(i - 1) : ~NLAt(L, k)}
<1>1. S \in SUBSET (0..i) /\ a \in S
  OBVIOUS
<1>2. PICK m \in S : \A k \in S : k <= m
  <2> HIDE DEF S
  <2> QED
    BY <1>1, Greatest
<1>3. m \in 1..(i - 1) /\ ~NLAt(L, m) /\ a <= m
  BY <1>1, <1>2
<1>4. ASSUME NEW k \in (m + 1)..(i - 1) PROVE NLAt(L, k)
  <2>1. k \in 1..(i - 1) /\ ~(k <= m)
    BY <1>3
  <2> QED
    BY <1>2, <2>1
<1>5. m \in a..(i - 1)
  BY <1>3
<1> QED
  BY <1>3, <1>4, <1>5 DEF IsBack

\* The place right after token c, from a cursor i on the next token.
\* GetInsertFrontPos finds the place right after the token last taken.
LEMMA FrontIs ==
  ASSUME NEW i \in Nat, NEW c \in 1..(i - 1), ~IsNL(c), \A k \in (c + 1)..(i - 1) : IsNL(k)
  PROVE  GetInsertFrontPos(i) = c + 1
<1> DEFINE Fits(j) == /\ j = 2 \/ ~IsNL(j - 1)
                      /\ \A k \in j..(i - 1) : IsNL(k)
<1>1. c + 1 \in 2..i /\ Fits(c + 1) /\ i # 1
  <2>1. (c + 1) - 1 = c /\ c + 1 \in 2..i /\ i # 1
    OBVIOUS
  <2> QED
    BY <2>1
<1>2. ASSUME NEW j \in 2..i, Fits(j)
      PROVE  j = c + 1
  <2>1. CASE j < c + 1
    <3>1. c \in j..(i - 1)
      BY <2>1
    <3> QED
      BY <1>2, <3>1
  <2>2. CASE j > c + 1
    <3>1. j # 2 /\ j - 1 \in (c + 1)..(i - 1)
      BY <2>2
    <3> QED
      BY <1>2, <3>1
  <2> QED
    BY <2>1, <2>2
<1>3. GetInsertFrontPos(i) = CHOOSE j \in 2..i : Fits(j)
  BY <1>1 DEF GetInsertFrontPos
<1> HIDE DEF Fits
<1> QED
  BY <1>1, <1>2, <1>3, Zenon

\* GetLine stops at the next line end, or at the end of the list.
LEMMA LineEndIs ==
  ASSUME Len(tokList) \in Nat, begin \in 1..(Len(tokList) + 1)
  PROVE  /\ LineEnd \in begin..(Len(tokList) + 1)
         /\ \A k \in begin..(LineEnd - 1) : ~IsNL(k)
         /\ LineEnd <= Len(tokList) => IsNL(LineEnd)
<1> DEFINE n == Len(tokList)
           Fits(j) == /\ \A k \in begin..(j - 1) : ~IsNL(k)
                      /\ j <= n => IsNL(j)
           S == {k \in begin..n : IsNL(k)}
<1>1. \E j \in begin..(n + 1) : Fits(j)
  <2>1. CASE S = {}
    <3>1. \A k \in begin..((n + 1) - 1) : k \in begin..n
      OBVIOUS
    <3>2. n + 1 \in begin..(n + 1) /\ ~(n + 1 <= n)
      OBVIOUS
    <3>3. Fits(n + 1)
      BY <2>1, <3>1, <3>2
    <3> QED
      BY <3>2, <3>3
  <2>2. CASE S # {}
    <3>1. PICK a : a \in S
      BY <2>2
    <3>2. S \in SUBSET Nat
      OBVIOUS
    <3>3. PICK m \in S : \A k \in S : m <= k
      <4> HIDE DEF S
      <4> QED
        BY <3>1, <3>2, Least
    <3>4. m \in begin..n /\ m \in begin..(n + 1) /\ IsNL(m)
      OBVIOUS
    <3>5. ASSUME NEW k \in begin..(m - 1) PROVE ~IsNL(k)
      <4>1. k \in begin..n /\ ~(m <= k)
        BY <3>4
      <4> QED
        BY <3>3, <4>1
    <3>6. Fits(m)
      BY <3>4, <3>5
    <3> QED
      BY <3>4, <3>6
  <2> QED
    BY <2>1, <2>2
<1>2. LineEnd = CHOOSE j \in begin..(n + 1) : Fits(j)
  BY DEF LineEnd
<1> HIDE DEF Fits
<1>3. LineEnd \in begin..(n + 1) /\ Fits(LineEnd)
  BY <1>1, <1>2, Zenon
<1> QED
  BY <1>3 DEF Fits

(* What the scanner makes of a file ends with a line end, and the cursor   *)
(* starts on its first token.                                              *)
LEMMA TokenizedIs ==
  ASSUME NEW ids \in Seq(Ids \cup {NL})
  PROVE  /\ Tokenized(ids) \in Seq(Ids \cup {NL})
         /\ Len(Tokenized(ids)) \in Nat \ {0}
         /\ Tokenized(ids)[Len(Tokenized(ids))] = NL
         /\ Tokenized(ids) = ids \/ Tokenized(ids) = Append(ids, NL)
<1> DEFINE T == Ids \cup {NL}
<1>1. NL \in T
  OBVIOUS
<1>2. /\ Append(ids, NL) \in Seq(T) /\ Len(Append(ids, NL)) = Len(ids) + 1
      /\ Append(ids, NL)[Len(ids) + 1] = NL /\ Len(ids) \in Nat
  BY <1>1, AppendProperties, LenProperties
<1>3. CASE Blank(ids) \/ ids[Len(ids)] # NL
  <2>1. Tokenized(ids) = Append(ids, NL)
    BY <1>3 DEF Tokenized
  <2>2. Len(Append(ids, NL)) \in Nat \ {0} /\ Append(ids, NL)[Len(Append(ids, NL))] = NL
    BY <1>2
  <2> QED
    BY <1>2, <2>1, <2>2
<1>4. CASE ~(Blank(ids) \/ ids[Len(ids)] # NL)
  <2>1. Tokenized(ids) = ids /\ ids[Len(ids)] = NL
    BY <1>4 DEF Tokenized
  <2>2. Len(ids) # 0
    <3> SUFFICES ASSUME Len(ids) = 0 PROVE FALSE
      OBVIOUS
    <3>1. DOMAIN ids = {}
      BY <1>2, LenProperties
    <3> QED
      BY <1>4, <3>1 DEF Blank
  <2> QED
    BY <1>2, <2>1, <2>2
<1> QED
  BY <1>3, <1>4

\* The cursor starts after the line ends a file begins with.
LEMMA FirstTokenIs ==
  ASSUME NEW T, NEW ids \in Seq(T), Len(ids) \in Nat \ {0}, ids[Len(ids)] = NL
  PROVE  /\ FirstToken(ids) \in 1..Len(ids)
         /\ \A j \in 1..(FirstToken(ids) - 1) : ids[j] = NL
<1>1. DOMAIN ids = 1..Len(ids)
  BY LenProperties
<1>2. CASE Blank(ids)
  <2>1. FirstToken(ids) = Len(ids) /\ \A j \in 1..(Len(ids) - 1) : j \in 1..Len(ids)
    BY <1>2 DEF FirstToken
  <2> QED
    BY <1>1, <1>2, <2>1 DEF Blank
<1>3. CASE ~Blank(ids)
  <2> DEFINE Fits(i) == ids[i] # NL /\ \A j \in 1..(i - 1) : ids[j] = NL
             S == {i \in 1..Len(ids) : ids[i] # NL}
  <2>1. FirstToken(ids) = CHOOSE i \in DOMAIN ids : Fits(i)
    BY <1>3 DEF FirstToken
  <2>2. PICK a : a \in S
    BY <1>1, <1>3 DEF Blank
  <2>3. S \in SUBSET Nat
    OBVIOUS
  <2>4. PICK m \in S : \A k \in S : m <= k
    <3> HIDE DEF S
    <3> QED
      BY <2>2, <2>3, Least
  <2>5. m \in 1..Len(ids) /\ ids[m] # NL
    OBVIOUS
  <2>6. ASSUME NEW k \in 1..(m - 1) PROVE ids[k] = NL
    <3>1. k \in 1..Len(ids) /\ ~(m <= k)
      BY <2>5
    <3> QED
      BY <2>4, <3>1
  <2>7. m \in DOMAIN ids /\ Fits(m)
    BY <1>1, <2>5, <2>6
  <2> HIDE DEF Fits
  <2>8. FirstToken(ids) \in DOMAIN ids /\ Fits(FirstToken(ids))
    BY <2>1, <2>7, Zenon
  <2> QED
    BY <1>1, <2>8 DEF Fits
<1> QED
  BY <1>2, <1>3

\* The tokens of a text, given their file.
LEMMA InFileIs ==
  ASSUME NEW ids \in Seq(Ids \cup {NL}), NEW file \in Nat
  PROVE  /\ InFile(ids, file) \in Seq(Token)
         /\ Len(InFile(ids, file)) = Len(ids)
         /\ \A i \in 1..Len(ids) : /\ InFile(ids, file)[i] = [id |-> ids[i], file |-> file]
                                   /\ InFile(ids, file)[i].id = ids[i]
                                   /\ InFile(ids, file)[i].file = file
<1>1. Len(ids) \in Nat /\ DOMAIN ids = 1..Len(ids)
      /\ \A i \in 1..Len(ids) : ids[i] \in Ids \cup {NL}
  BY LenProperties, ElementOfSeq
<1>2. InFile(ids, file) = [i \in 1..Len(ids) |-> [id |-> ids[i], file |-> file]]
  BY <1>1 DEF InFile
<1>3. \A i \in 1..Len(ids) : [id |-> ids[i], file |-> file] \in Token
  BY <1>1 DEF Token
<1>4. InFile(ids, file) \in Seq(Token)
  BY <1>1, <1>2, <1>3, IsASeq
<1>5. Len(InFile(ids, file)) = Len(ids)
  BY <1>1, <1>2, <1>4, LenProperties
<1>6. \A i \in 1..Len(ids) : InFile(ids, file)[i] = [id |-> ids[i], file |-> file]
  BY <1>2
<1> QED
  BY <1>4, <1>5, <1>6

-----------------------------------------------------------------------------
\* List L with the tokens of M put in before position i.
InsertIn(L, i, M) == SubSeq(L, 1, i - 1) \o M \o SubSeq(L, i, Len(L))

\* InsertIn puts M in before position i and moves what follows by its length.
LEMMA InsertedIs ==
  ASSUME NEW T, NEW L \in Seq(T), NEW M \in Seq(T), NEW i \in 1..(Len(L) + 1)
  PROVE  /\ InsertIn(L, i, M) \in Seq(T)
         /\ Len(InsertIn(L, i, M)) = Len(L) + Len(M)
         /\ \A k \in 1..(i - 1) : InsertIn(L, i, M)[k] = L[k]
         /\ \A k \in 1..Len(M) : InsertIn(L, i, M)[i - 1 + k] = M[k]
         /\ \A k \in i..Len(L) : InsertIn(L, i, M)[k + Len(M)] = L[k]
<1> DEFINE n == Len(L)
           q == Len(M)
           A == SubSeq(L, 1, i - 1)
           B == SubSeq(L, i, n)
           C == A \o M
           R == C \o B
<1>1. /\ n \in Nat /\ q \in Nat /\ i \in Nat /\ \A k \in 1..n : L[k] \in T
  BY LenProperties, ElementOfSeq
<1>2. A \in Seq(T) /\ Len(A) = i - 1 /\ \A k \in 1..(i - 1) : A[k] = L[k]
  <2>1. 1 \in Int /\ i - 1 \in Int /\ \A k \in 1..(i - 1) : L[k] \in T
    BY <1>1
  <2>2. /\ A \in Seq(T) /\ Len(A) = IF 1 <= i - 1 THEN (i - 1) - 1 + 1 ELSE 0
        /\ \A k \in 1..((i - 1) - 1 + 1) : A[k] = L[1 + k - 1]
    BY <2>1, SubSeqProperties
  <2>3. (i - 1) - 1 + 1 = i - 1 /\ (IF 1 <= i - 1 THEN (i - 1) - 1 + 1 ELSE 0) = i - 1
        /\ \A k \in 1..(i - 1) : 1 + k - 1 = k
    BY <1>1
  <2> HIDE DEF A
  <2>4. ASSUME NEW k \in 1..(i - 1) PROVE A[k] = L[k]
    <3>1. A[k] = L[1 + k - 1]
      BY <2>2, <2>3
    <3> QED
      BY <2>3, <3>1
  <2> QED
    BY <2>2, <2>3, <2>4
<1>3. B \in Seq(T) /\ Len(B) = n - i + 1 /\ \A k \in 1..(n - i + 1) : B[k] = L[i + k - 1]
  <2>1. i \in Int /\ n \in Int /\ \A k \in i..n : L[k] \in T
    BY <1>1
  <2>2. /\ B \in Seq(T) /\ Len(B) = IF i <= n THEN n - i + 1 ELSE 0
        /\ \A k \in 1..(n - i + 1) : B[k] = L[i + k - 1]
    BY <2>1, SubSeqProperties
  <2>3. (IF i <= n THEN n - i + 1 ELSE 0) = n - i + 1
    BY <1>1
  <2> QED
    BY <2>2, <2>3
<1> HIDE DEF A, B
<1>4. C \in Seq(T) /\ Len(C) = (i - 1) + q
      /\ \A k \in 1..(Len(A) + q) : C[k] = IF k <= Len(A) THEN A[k] ELSE M[k - Len(A)]
  BY <1>2, ConcatProperties
<1> HIDE DEF C
<1>5. R \in Seq(T) /\ Len(R) = Len(C) + Len(B)
      /\ \A k \in 1..(Len(C) + Len(B)) : R[k] = IF k <= Len(C) THEN C[k] ELSE B[k - Len(C)]
  <2>1. C \in Seq(T) /\ B \in Seq(T)
    BY <1>3, <1>4
  <2> QED
    BY <2>1, ConcatProperties
<1> HIDE DEF R
<1>6. Len(R) = n + q
  BY <1>1, <1>3, <1>4, <1>5
<1>7. ASSUME NEW k \in 1..(i - 1) PROVE R[k] = L[k]
  <2>1. k \in 1..(Len(C) + Len(B)) /\ k <= Len(C) /\ k \in 1..(Len(A) + q) /\ k <= Len(A)
    BY <1>1, <1>2, <1>3, <1>4
  <2> QED
    BY <1>2, <1>4, <1>5, <2>1
<1>8. ASSUME NEW k \in 1..q PROVE R[i - 1 + k] = M[k]
  <2> DEFINE l == i - 1 + k
  <2>1. /\ l \in 1..(Len(C) + Len(B)) /\ l <= Len(C) /\ l \in 1..(Len(A) + q)
        /\ ~(l <= Len(A)) /\ l - Len(A) = k
    BY <1>1, <1>2, <1>3, <1>4
  <2> HIDE DEF l
  <2>2. R[l] = M[k]
    BY <1>4, <1>5, <2>1
  <2> QED
    BY <2>2 DEF l
<1>9. ASSUME NEW k \in i..n PROVE R[k + q] = L[k]
  <2> DEFINE l == k + q
             m == k - i + 1
  <2>1. /\ l \in 1..(Len(C) + Len(B)) /\ ~(l <= Len(C)) /\ l - Len(C) = m
        /\ m \in 1..(n - i + 1) /\ i + m - 1 = k
    BY <1>1, <1>2, <1>3, <1>4
  <2> HIDE DEF l, m
  <2>2. R[l] = L[k]
    BY <1>3, <1>5, <2>1
  <2> QED
    BY <2>2 DEF l
<1> QED
  BY <1>5, <1>6, <1>7, <1>8, <1>9 DEF R, C, A, B, InsertIn

-----------------------------------------------------------------------------
NewFileOf(L) == 1 + Cardinality({i \in 1..Len(L) : NLAt(L, i)})

\* The line ends of a list can be counted.
LEMMA LineEndsFinite ==
  ASSUME NEW T, NEW L \in Seq(T)
  PROVE  /\ IsFiniteSet({i \in 1..Len(L) : NLAt(L, i)})
         /\ Cardinality({i \in 1..Len(L) : NLAt(L, i)}) \in Nat
<1> DEFINE A == {i \in 1..Len(L) : NLAt(L, i)}
<1>1. IsFiniteSet(1..Len(L))
  <2>1. 1 \in Int /\ Len(L) \in Int
    BY LenProperties
  <2> QED
    BY <2>1, FS_Interval
<1>2. A \in SUBSET (1..Len(L))
  OBVIOUS
<1> HIDE DEF A
<1>3. IsFiniteSet(A)
  BY <1>1, <1>2, FS_Subset
<1>4. Cardinality(A) \in Nat
  BY <1>3, FS_CardinalityType
<1> QED
  BY <1>3, <1>4 DEF A

(* Tokens put in leave the line ends there were.                           *)
LEMMA NewFileGrows ==
  ASSUME NEW T, NEW L \in Seq(T), NEW M \in Seq(T), NEW i \in 1..(Len(L) + 1)
  PROVE  /\ NewFileOf(L) <= NewFileOf(InsertIn(L, i, M))
         /\ \A k \in 1..Len(M) : NLAt(M, k) =>
              NewFileOf(L) + 1 <= NewFileOf(InsertIn(L, i, M))
<1> DEFINE R == InsertIn(L, i, M)
           q == Len(M)
           A == {k \in 1..Len(L) : NLAt(L, k)}
           B == {k \in 1..Len(R) : NLAt(R, k)}
           h == [k \in A |-> IF k < i THEN k ELSE k + q]
<1>1. /\ R \in Seq(T) /\ Len(R) = Len(L) + q /\ Len(L) \in Nat /\ q \in Nat
      /\ \A k \in 1..(i - 1) : R[k] = L[k]
      /\ \A k \in 1..q : R[i - 1 + k] = M[k]
      /\ \A k \in i..Len(L) : R[k + q] = L[k]
  BY InsertedIs, LenProperties, SMTT(30)
<1> HIDE DEF R
<1>2. /\ IsFiniteSet(A) /\ Cardinality(A) \in Nat /\ IsFiniteSet(B) /\ Cardinality(B) \in Nat
  BY <1>1, LineEndsFinite
<1>3. ASSUME NEW k \in A
      PROVE  /\ h[k] \in B
             /\ \A l \in 1..q : h[k] # i - 1 + l
             /\ h[k] = IF k < i THEN k ELSE k + q
  <2>1. k \in 1..Len(L) /\ NLAt(L, k) /\ h[k] = IF k < i THEN k ELSE k + q
    OBVIOUS
  <2>2. CASE k < i
    <3>1. k \in 1..(i - 1) /\ k \in 1..Len(R) /\ h[k] = k /\ \A l \in 1..q : k # i - 1 + l
      BY <1>1, <2>1, <2>2
    <3>2. NLAt(R, k)
      BY <1>1, <2>1, <3>1 DEF NLAt
    <3> QED
      BY <2>1, <3>1, <3>2
  <2>3. CASE ~(k < i)
    <3>1. /\ k \in i..Len(L) /\ k + q \in 1..Len(R) /\ h[k] = k + q
          /\ \A l \in 1..q : k + q # i - 1 + l
      BY <1>1, <2>1, <2>3
    <3>2. NLAt(R, k + q)
      BY <1>1, <2>1, <3>1 DEF NLAt
    <3> QED
      BY <2>1, <3>1, <3>2
  <2> QED
    BY <2>2, <2>3
<1>4. \A k, l \in A : h[k] = h[l] => k = l
  <2> HIDE DEF h
  <2> SUFFICES ASSUME NEW k \in A, NEW l \in A, h[k] = h[l] PROVE k = l
    OBVIOUS
  <2>1. k \in Nat /\ l \in Nat
    OBVIOUS
  <2>2. h[k] = (IF k < i THEN k ELSE k + q) /\ h[l] = (IF l < i THEN l ELSE l + q)
    BY <1>3
  <2>3. q \in Nat /\ i \in Nat
    BY <1>1
  <2>4. (IF k < i THEN k ELSE k + q) = (IF l < i THEN l ELSE l + q)
    BY <2>2, Zenon
  <2>5. \A x, y, z, w \in Nat :
          (IF x < z THEN x ELSE x + w) = (IF y < z THEN y ELSE y + w) => x = y
    OBVIOUS
  <2> HIDE DEF A, q
  <2> QED
    BY <2>1, <2>3, <2>4, <2>5
<1>5. h \in [A -> B]
  <2>1. h = [k \in A |-> h[k]]
    OBVIOUS
  <2> HIDE DEF h, B, A
  <2> QED
    BY <1>3, <2>1
<1>6. NewFileOf(L) = 1 + Cardinality(A) /\ NewFileOf(R) = 1 + Cardinality(B)
  BY DEF NewFileOf
<1>7. Cardinality(A) <= Cardinality(B)
  <2> HIDE DEF h, A, B
  <2>1. Cardinality(B) < Cardinality(A) => \E k, l \in A : k # l /\ h[k] = h[l]
    BY <1>2, <1>5, FS_PigeonHole
  <2> QED
    BY <1>2, <1>4, <2>1
<1>8. ASSUME NEW l \in 1..q, NLAt(M, l) PROVE Cardinality(A) + 1 <= Cardinality(B)
  <2> DEFINE z == i - 1 + l
             D == B \ {z}
  <2>1. z \in B
    <3>1. z \in 1..Len(R)
      BY <1>1
    <3>2. NLAt(R, z)
      BY <1>1, <1>8 DEF NLAt
    <3> QED
      BY <3>1, <3>2
  <2> HIDE DEF B, A, h
  <2>2. \A k \in A : h[k] # z
    BY <1>3
  <2> HIDE DEF z
  <2>3. IsFiniteSet(D) /\ Cardinality(D) = Cardinality(B) - 1
    BY <1>2, <2>1, FS_RemoveElement
  <2>4. h \in [A -> D]
    BY <1>5, <2>2
  <2> HIDE DEF D
  <2>5. Cardinality(D) < Cardinality(A) => \E k, m \in A : k # m /\ h[k] = h[m]
    BY <1>2, <2>3, <2>4, FS_PigeonHole
  <2> QED
    BY <1>2, <1>4, <2>3, <2>5
<1>9. NewFileOf(L) <= NewFileOf(R)
  <2> HIDE DEF A, B
  <2> QED
    BY <1>2, <1>6, <1>7
<1>10. ASSUME NEW k \in 1..q, NLAt(M, k) PROVE NewFileOf(L) + 1 <= NewFileOf(R)
  <2>1. Cardinality(A) + 1 <= Cardinality(B)
    BY <1>8, <1>10
  <2> HIDE DEF A, B
  <2> QED
    BY <1>2, <1>6, <2>1
<1> QED
  BY <1>9, <1>10 DEF R

\* A token put behind leaves the line ends there were.
LEMMA NewFileAppend ==
  ASSUME NEW T, NEW L \in Seq(T), NEW x \in T
  PROVE  NewFileOf(L) <= NewFileOf(Append(L, x))
<1> DEFINE R == Append(L, x)
           A == {k \in 1..Len(L) : NLAt(L, k)}
           B == {k \in 1..Len(R) : NLAt(R, k)}
<1>1. /\ R \in Seq(T) /\ Len(R) = Len(L) + 1 /\ Len(L) \in Nat
      /\ \A k \in 1..Len(L) : R[k] = L[k]
  BY AppendProperties, LenProperties
<1> HIDE DEF R
<1>2. /\ IsFiniteSet(A) /\ Cardinality(A) \in Nat /\ IsFiniteSet(B) /\ Cardinality(B) \in Nat
  BY <1>1, LineEndsFinite
<1>3. A \in SUBSET B
  <2>1. ASSUME NEW k \in A PROVE k \in B
    <3>1. k \in 1..Len(L) /\ NLAt(L, k) /\ k \in 1..Len(R)
      BY <1>1
    <3>2. NLAt(R, k)
      BY <1>1, <3>1 DEF NLAt
    <3> QED
      BY <3>1, <3>2
  <2> HIDE DEF A, B
  <2> QED
    BY <2>1
<1>4. NewFileOf(L) = 1 + Cardinality(A) /\ NewFileOf(R) = 1 + Cardinality(B)
  BY DEF NewFileOf
<1> HIDE DEF A, B
<1>5. Cardinality(A) <= Cardinality(B)
  BY <1>2, <1>3, FS_Subset
<1>6. NewFileOf(L) <= NewFileOf(R)
  BY <1>2, <1>4, <1>5
<1> QED
  BY <1>6 DEF R

-----------------------------------------------------------------------------
(* Tokens are of files that have been scanned, and those of a line of one, *)
(* as far as the cursor may go back.                                       *)
Cursor(L, b, s) == L \in Seq(Token) /\ b \in 1..(Len(L) + 1) /\ s \in 1..b
FilesBelow(L, n) == \A i \in 1..Len(L) : L[i].file < n
LinesInFile(L, s) == \A k \in s..(Len(L) - 1) : ~NLAt(L, k) => L[k].file = L[k + 1].file

SeqInv ==
  /\ Cursor(tokList, begin, lineStart)
  /\ exceedEnd \in Nat
  /\ FilesBelow(tokList, NewFileOf(tokList))
  /\ LinesInFile(tokList, lineStart)
  /\ OvershootAtEnd

\* An element of the list is a token.
LEMMA TokenAt ==
  ASSUME NEW L \in Seq(Token), NEW i \in 1..Len(L)
  PROVE  L[i] \in Token /\ L[i].id \in Ids \cup {NL} /\ L[i].file \in Nat
<1>1. L[i] \in Token
  BY ElementOfSeq
<1> QED
  BY <1>1 DEF Token

\* Where the cursor is on a token, or at the end.
LEMMA CurrentIs ==
  ASSUME SeqInv
  PROVE  /\ Len(tokList) \in Nat /\ begin \in Nat /\ lineStart \in Nat
         /\ Current = SkipFrom(tokList, begin)
         /\ IsSkip(tokList, begin, Current)
         /\ Current \in begin..(Len(tokList) + 1)
         /\ Empty <=> ~(Current <= Len(tokList))
<1>1. Len(tokList) \in Nat /\ begin \in 1..(Len(tokList) + 1) /\ lineStart \in 1..begin
  BY LenProperties DEF SeqInv, Cursor
<1>2. Current = SkipFrom(tokList, begin)
  BY DEF Current, SkipNewLines, SkipFrom, IsNL, NLAt
<1>3. IsSkip(tokList, begin, Current)
  BY <1>1, <1>2, SkipIs
<1>4. Current \in begin..(Len(tokList) + 1)
  BY <1>3 DEF IsSkip
<1>5. Empty <=> ~(Current <= Len(tokList))
  BY <1>1, <1>4 DEF Empty
<1> QED
  BY <1>1, <1>2, <1>3, <1>4, <1>5

(* The token under the cursor, and where the cursor goes past it.          *)
LEMMA TakenIs ==
  ASSUME SeqInv, ~Empty
  PROVE  /\ Current \in begin..Len(tokList) /\ Current \in 1..Len(tokList)
         /\ ~NLAt(tokList, Current)
         /\ tokList[Current].id \in Ids
         /\ tokList[Current].file \in Nat
         /\ IsSkip(tokList, Current + 1, SkipNewLines(Current + 1))
         /\ SkipNewLines(Current + 1) \in (Current + 1)..(Len(tokList) + 1)
         /\ StepBack(SkipNewLines(Current + 1)) = Current
         /\ GetInsertFrontPos(SkipNewLines(Current + 1)) = Current + 1
<1> DEFINE c == Current
           i == c + 1
           d == SkipNewLines(i)
           n == Len(tokList)
<1>1. /\ n \in Nat /\ begin \in Nat /\ begin >= 1 /\ IsSkip(tokList, begin, c)
      /\ c \in begin..(n + 1) /\ c <= n
  BY CurrentIs DEF SeqInv, Cursor
<1>2. c \in begin..n /\ c \in 1..n /\ i \in 1..(n + 1)
  BY <1>1
<1>3. ~NLAt(tokList, c)
  BY <1>1 DEF IsSkip
<1>4. tokList[c].id \in Ids /\ tokList[c].file \in Nat
  <2>1. tokList[c].id \in Ids \cup {NL} /\ tokList[c].file \in Nat
    BY <1>2, TokenAt DEF SeqInv, Cursor
  <2> QED
    BY <1>3, <2>1 DEF NLAt
<1>5. d = SkipFrom(tokList, i)
  BY DEF SkipNewLines, SkipFrom, IsNL, NLAt
<1> HIDE DEF c, d, i
<1>6. IsSkip(tokList, i, d)
  BY <1>1, <1>2, <1>5, SkipIs DEF n
<1>7. d \in i..(n + 1) /\ \A k \in i..(d - 1) : NLAt(tokList, k)
  BY <1>6 DEF IsSkip
<1>8. d \in Nat /\ c \in 1..(d - 1) /\ \A k \in (c + 1)..(d - 1) : NLAt(tokList, k)
  BY <1>1, <1>2, <1>7 DEF i
<1>9. StepBack(d) = c
  <2>1. IsBack(tokList, d, c)
    BY <1>3, <1>8 DEF IsBack
  <2>2. StepBack(d) = BackFrom(tokList, d)
    BY DEF StepBack, BackFrom, IsNL, NLAt
  <2> QED
    BY <1>8, <2>1, <2>2, BackIs
<1>10. GetInsertFrontPos(d) = c + 1
  <2>1. ~IsNL(c) /\ \A k \in (c + 1)..(d - 1) : IsNL(k)
    BY <1>3, <1>8 DEF IsNL, NLAt
  <2> QED
    BY <1>8, <2>1, FrontIs
<1> QED
  BY <1>2, <1>3, <1>4, <1>6, <1>7, <1>9, <1>10 DEF c, d, i, n

(* Where a put back moves the cursor.                                      *)
LEMMA PutBackIs ==
  ASSUME SeqInv, \E i \in lineStart..(begin - 1) : ~IsNL(i)
  PROVE  /\ StepBack(begin) \in lineStart..(begin - 1)
         /\ IsBack(tokList, begin, StepBack(begin))
         /\ ~NLAt(tokList, StepBack(begin))
<1>1. Len(tokList) \in Nat /\ begin \in Nat /\ lineStart \in 1..begin
  BY CurrentIs DEF SeqInv, Cursor
<1>2. PICK a \in lineStart..(begin - 1) : ~NLAt(tokList, a)
  BY DEF IsNL, NLAt
<1>3. a \in 1..(begin - 1) /\ a \in Nat
  BY <1>1
<1>4. PICK j \in a..(begin - 1) : IsBack(tokList, begin, j) /\ ~NLAt(tokList, j)
  BY <1>1, <1>2, <1>3, BackExists
<1>5. StepBack(begin) = BackFrom(tokList, begin)
  BY DEF StepBack, BackFrom, IsNL, NLAt
<1>6. StepBack(begin) = j
  BY <1>1, <1>4, <1>5, BackIs
<1>7. j \in lineStart..(begin - 1)
  BY <1>1, <1>3
<1> QED
  BY <1>4, <1>6, <1>7

-----------------------------------------------------------------------------
(* A cursor that moves within the list.                                    *)
LEMMA Moved ==
  ASSUME SeqInv, tokList' = tokList, lineStart' \in lineStart..begin',
         begin' \in 1..(Len(tokList) + 1), exceedEnd' \in Nat,
         exceedEnd' > 0 => SkipFrom(tokList, begin') = Len(tokList) + 1
  PROVE  SeqInv'
<1>1. Len(tokList) \in Nat /\ lineStart \in Nat /\ lineStart >= 1
  BY CurrentIs DEF SeqInv, Cursor
<1>2. Cursor(tokList', begin', lineStart')
  <2>1. tokList' \in Seq(Token) /\ begin' \in 1..(Len(tokList') + 1)
    BY DEF SeqInv, Cursor
  <2>2. lineStart' \in 1..begin'
    BY <1>1
  <2> QED
    BY <2>1, <2>2 DEF Cursor
<1>3. FilesBelow(tokList', NewFileOf(tokList'))
  BY DEF SeqInv
<1>4. LinesInFile(tokList', lineStart')
  <2>1. \A k \in lineStart'..(Len(tokList) - 1) : k \in lineStart..(Len(tokList) - 1)
    BY <1>1
  <2> QED
    BY <2>1 DEF SeqInv, LinesInFile
<1>5. OvershootAtEnd'
  <2>1. Current' = SkipFrom(tokList', begin')
    BY DEF Current, SkipNewLines, SkipFrom, IsNL, NLAt
  <2>2. exceedEnd' > 0 => Current' = Len(tokList') + 1
    BY <2>1
  <2> QED
    BY <2>2 DEF OvershootAtEnd, Empty
<1> QED
  BY <1>2, <1>3, <1>4, <1>5 DEF SeqInv

\* A cursor past the end stays there.
LEMMA SkipAtEnd ==
  ASSUME NEW L, Len(L) \in Nat, NEW i \in 1..(Len(L) + 1), SkipFrom(L, i) = Len(L) + 1
  PROVE  SkipFrom(L, Len(L) + 1) = Len(L) + 1
<1> DEFINE z == Len(L) + 1
<1>1. z \in 1..(Len(L) + 1) /\ z \in z..(Len(L) + 1) /\ z..(z - 1) = {} /\ ~(z <= Len(L))
  OBVIOUS
<1> HIDE DEF z
<1>2. IsSkip(L, z, z)
  BY <1>1 DEF IsSkip
<1>3. IsSkip(L, z, SkipFrom(L, z))
  BY <1>1, SkipIs
<1>4. SkipFrom(L, z) = z
  BY <1>1, <1>2, <1>3, SkipUnique
<1> QED
  BY <1>4 DEF z

\* Next keeps the invariant.
LEMMA NextKeeps ==
  ASSUME SeqInv, Next
  PROVE  SeqInv'
<1>1. /\ Len(tokList) \in Nat /\ begin \in Nat /\ lineStart \in Nat
      /\ begin \in 1..(Len(tokList) + 1) /\ lineStart \in 1..begin
      /\ Current = SkipFrom(tokList, begin) /\ Current \in begin..(Len(tokList) + 1)
  BY CurrentIs DEF SeqInv, Cursor
<1>2. tokList' = tokList /\ lineStart' = lineStart
  BY DEF Next
<1>3. CASE Empty
  <2>1. begin' = Current /\ exceedEnd' = exceedEnd + 1 /\ Current = Len(tokList) + 1
    BY <1>3 DEF Next, Empty
  <2>2. SkipFrom(tokList, begin') = Len(tokList) + 1
    BY <1>1, <2>1, SkipAtEnd
  <2>3. lineStart' \in lineStart..begin' /\ begin' \in 1..(Len(tokList) + 1)
    BY <1>1, <1>2, <2>1
  <2>4. exceedEnd' \in Nat
    BY <2>1 DEF SeqInv
  <2> QED
    BY <1>2, <2>2, <2>3, <2>4, Moved
<1>4. CASE ~Empty
  <2>1. begin' = SkipNewLines(Current + 1) /\ exceedEnd' = exceedEnd
    BY <1>4 DEF Next
  <2>2. begin' \in (Current + 1)..(Len(tokList) + 1)
    BY <1>4, <2>1, TakenIs
  <2>3. lineStart' \in lineStart..begin' /\ begin' \in 1..(Len(tokList) + 1)
    BY <1>1, <1>2, <2>2
  <2>4. exceedEnd' \in Nat /\ ~(exceedEnd' > 0)
    BY <1>4, <2>1 DEF SeqInv, OvershootAtEnd
  <2> QED
    BY <1>2, <2>3, <2>4, Moved
<1> QED
  BY <1>3, <1>4

\* So do Peek and Peek2.
LEMMA PeekKeeps ==
  ASSUME SeqInv, Peek \/ Peek2
  PROVE  SeqInv'
<1>1. /\ Len(tokList) \in Nat /\ begin \in Nat /\ lineStart \in Nat
      /\ begin \in 1..(Len(tokList) + 1) /\ lineStart \in 1..begin
      /\ Current = SkipFrom(tokList, begin) /\ Current \in begin..(Len(tokList) + 1)
  BY CurrentIs DEF SeqInv, Cursor
<1>2. tokList' = tokList /\ lineStart' = lineStart /\ exceedEnd' = exceedEnd
  BY DEF Peek, Peek2
<1>3. begin' = Current
  <2>1. CASE Peek
    BY <2>1 DEF Peek
  <2>2. CASE Peek2 /\ Empty
    BY <2>2 DEF Peek2
  <2>3. CASE Peek2 /\ ~Empty
    BY <2>3, TakenIs DEF Peek2
  <2> QED
    BY <2>1, <2>2, <2>3
<1>4. exceedEnd' > 0 => SkipFrom(tokList, begin') = Len(tokList) + 1
  <2> SUFFICES ASSUME exceedEnd > 0 PROVE SkipFrom(tokList, Current) = Len(tokList) + 1
    BY <1>2, <1>3
  <2>1. Current = Len(tokList) + 1
    BY DEF SeqInv, OvershootAtEnd, Empty
  <2> QED
    BY <1>1, <2>1, SkipAtEnd
<1>5. lineStart' \in lineStart..begin' /\ begin' \in 1..(Len(tokList) + 1)
  BY <1>1, <1>2, <1>3
<1>6. exceedEnd' \in Nat
  BY <1>2 DEF SeqInv
<1> QED
  BY <1>2, <1>4, <1>5, <1>6, Moved

\* So does PutBack.
LEMMA PutBackKeeps ==
  ASSUME SeqInv, PutBack
  PROVE  SeqInv'
<1>1. /\ Len(tokList) \in Nat /\ begin \in Nat /\ lineStart \in Nat
      /\ begin \in 1..(Len(tokList) + 1) /\ lineStart \in 1..begin /\ exceedEnd \in Nat
      /\ Current = SkipFrom(tokList, begin)
  BY CurrentIs DEF SeqInv, Cursor
<1>2. tokList' = tokList /\ lineStart' = lineStart
  BY DEF PutBack
<1>3. CASE begin # 1 /\ exceedEnd = 0
  <2>1. begin' = StepBack(begin) /\ exceedEnd' = 0
    BY <1>3 DEF PutBack
  <2>2. \E i \in lineStart..(begin - 1) : ~IsNL(i)
    BY <1>1, <1>3 DEF PutBack
  <2>3. begin' \in lineStart..(begin - 1)
    BY <2>1, <2>2, PutBackIs
  <2>4. lineStart' \in lineStart..begin' /\ begin' \in 1..(Len(tokList) + 1)
    BY <1>1, <1>2, <2>3
  <2> QED
    BY <1>2, <2>1, <2>4, Moved
<1>4. CASE ~(begin # 1 /\ exceedEnd = 0)
  <2>1. begin' = begin
    BY <1>4 DEF PutBack
  <2>2. exceedEnd' \in Nat /\ (exceedEnd' > 0 => exceedEnd > 0)
    BY <1>1 DEF PutBack
  <2>3. exceedEnd' > 0 => SkipFrom(tokList, begin') = Len(tokList) + 1
    BY <1>1, <2>1, <2>2 DEF SeqInv, OvershootAtEnd, Empty
  <2>4. lineStart' \in lineStart..begin' /\ begin' \in 1..(Len(tokList) + 1)
    BY <1>1, <1>2, <2>1
  <2> QED
    BY <1>2, <2>2, <2>3, <2>4, Moved
<1> QED
  BY <1>3, <1>4

\* So does resetting the cursor to a mark.
LEMMA ResetKeeps ==
  ASSUME SeqInv, NEW mark \in lineStart..(begin - 1), ResetTo(mark)
  PROVE  SeqInv'
<1>1. /\ Len(tokList) \in Nat /\ begin \in Nat /\ lineStart \in Nat
      /\ begin \in 1..(Len(tokList) + 1) /\ lineStart \in 1..begin
  BY CurrentIs DEF SeqInv, Cursor
<1>2. tokList' = tokList /\ lineStart' = lineStart /\ begin' = mark /\ exceedEnd' = 0
  BY DEF ResetTo
<1>3. lineStart' \in lineStart..begin' /\ begin' \in 1..(Len(tokList) + 1)
  BY <1>1, <1>2
<1> QED
  BY <1>2, <1>3, Moved

(* A directive's line: from the cursor, on its token, to a line end.       *)
LEMMA LineIs ==
  ASSUME SeqInv, InDirective
  PROVE  /\ exceedEnd = 0
         /\ begin \in 2..Len(tokList) /\ ~NLAt(tokList, begin)
         /\ ~NLAt(tokList, begin - 1) /\ tokList[begin - 1].file = tokList[begin].file
         /\ LineEnd \in (begin + 1)..Len(tokList)
         /\ NLAt(tokList, LineEnd)
         /\ \A k \in begin..(LineEnd - 1) : ~NLAt(tokList, k)
<1>1. /\ Len(tokList) \in Nat /\ begin \in Nat /\ begin \in 1..(Len(tokList) + 1)
      /\ Current \in begin..(Len(tokList) + 1) /\ (Empty <=> ~(Current <= Len(tokList)))
  BY CurrentIs DEF SeqInv, Cursor
<1>2. ~Empty /\ begin = Current /\ ~IsBeginOfLine(begin) /\ LineEnd <= Len(tokList)
  BY DEF InDirective
<1>3. exceedEnd = 0
  BY <1>2 DEF SeqInv, OvershootAtEnd
<1>4. ~NLAt(tokList, begin)
  BY <1>2, TakenIs
<1>5. begin # 1 /\ ~NLAt(tokList, begin - 1) /\ tokList[begin - 1].file = tokList[begin].file
  BY <1>2 DEF IsBeginOfLine, IsNL, NLAt
<1>6. begin \in 2..Len(tokList)
  BY <1>1, <1>2, <1>5
<1>7. /\ LineEnd \in begin..(Len(tokList) + 1) /\ NLAt(tokList, LineEnd)
      /\ \A k \in begin..(LineEnd - 1) : ~NLAt(tokList, k)
  BY <1>1, <1>2, LineEndIs DEF IsNL, NLAt
<1>8. LineEnd # begin
  BY <1>4, <1>7
<1>9. LineEnd \in (begin + 1)..Len(tokList)
  <2> DEFINE e == LineEnd
  <2>1. e \in begin..(Len(tokList) + 1) /\ e # begin /\ e <= Len(tokList)
    BY <1>2, <1>7, <1>8
  <2> HIDE DEF e
  <2>2. e \in (begin + 1)..Len(tokList)
    BY <1>1, <2>1
  <2> QED
    BY <2>2 DEF e
<1> QED
  BY <1>3, <1>4, <1>5, <1>6, <1>7, <1>9

\* GetLine keeps the invariant.
LEMMA GetLineKeeps ==
  ASSUME SeqInv, GetLine
  PROVE  SeqInv'
<1> DEFINE e == LineEnd
<1>1. /\ Len(tokList) \in Nat /\ begin \in Nat /\ lineStart \in Nat
      /\ begin \in 1..(Len(tokList) + 1) /\ lineStart \in 1..begin
  BY CurrentIs DEF SeqInv, Cursor
<1>2. tokList' = tokList /\ lineStart' = e /\ begin' = e /\ exceedEnd' = exceedEnd
  BY DEF GetLine
<1>3. exceedEnd = 0 /\ e \in (begin + 1)..Len(tokList)
  BY LineIs DEF GetLine
<1> HIDE DEF e
<1>4. lineStart' \in lineStart..begin' /\ begin' \in 1..(Len(tokList) + 1)
  BY <1>1, <1>2, <1>3
<1> QED
  BY <1>2, <1>3, <1>4, Moved

Inserted(L, i, M, R) ==
  /\ R \in Seq(Token)
  /\ Len(R) = Len(L) + Len(M)
  /\ \A k \in 1..(i - 1) : R[k] = L[k]
  /\ \A k \in 1..Len(M) : R[i - 1 + k] = M[k]
  /\ \A k \in i..Len(L) : R[k + Len(M)] = L[k]

\* InsertIn, by what it does to each position.
LEMMA InsertedBy ==
  ASSUME NEW L \in Seq(Token), NEW M \in Seq(Token), NEW i \in 1..(Len(L) + 1)
  PROVE  Inserted(L, i, M, InsertIn(L, i, M))
BY InsertedIs DEF Inserted

-----------------------------------------------------------------------------
(* An expansion takes the file of the token it follows.                    *)
LEMMA ExpansionLines ==
  ASSUME NEW L \in Seq(Token), NEW M \in Seq(Token), NEW c \in 1..Len(L), NEW s \in 1..c,
         ~NLAt(L, c), \A k \in 1..Len(M) : M[k].file = L[c].file, LinesInFile(L, s)
  PROVE  LinesInFile(InsertIn(L, c + 1, M), s)
<1> DEFINE R == InsertIn(L, c + 1, M)
           q == Len(M)
           n == Len(L)
<1>1. /\ n \in Nat /\ q \in Nat /\ Len(R) = n + q
      /\ \A k \in 1..c : R[k] = L[k]
      /\ \A k \in 1..q : R[c + k] = M[k]
      /\ \A k \in (c + 1)..n : R[k + q] = L[k]
  <2> DEFINE i == c + 1
  <2>1. i \in 1..(n + 1) /\ n \in Nat /\ q \in Nat /\ i - 1 = c
    BY LenProperties
  <2>2. i \in 1..(Len(L) + 1)
    BY <2>1
  <2> HIDE DEF i
  <2>3. /\ Len(InsertIn(L, i, M)) = n + q
        /\ \A k \in 1..(i - 1) : InsertIn(L, i, M)[k] = L[k]
        /\ \A k \in 1..q : InsertIn(L, i, M)[i - 1 + k] = M[k]
        /\ \A k \in i..n : InsertIn(L, i, M)[k + q] = L[k]
    BY <2>2, InsertedIs, SMTT(30)
  <2> QED
    BY <2>1, <2>3 DEF i
<1> HIDE DEF R, q, n
<1>2. c \in 1..n /\ \A k \in 1..q : M[k].file = L[c].file
  BY DEF n, q
<1>3. \A k \in s..(n - 1) : ~NLAt(L, k) => L[k].file = L[k + 1].file
  BY DEF LinesInFile, n
<1>4. c + 1 <= n => L[c].file = L[c + 1].file
  <2> SUFFICES ASSUME c + 1 <= n PROVE L[c].file = L[c + 1].file
    OBVIOUS
  <2>1. c \in s..(n - 1)
    BY <1>1, <1>2
  <2> QED
    BY <1>3, <2>1

\* The file of the inserted tokens is that of every position from c to c + q + 1.
<1>5. ASSUME NEW k \in c..(c + q + 1), k <= n + q
      PROVE  R[k].file = L[c].file
  <2>1. CASE k = c
    <3>1. c \in 1..c
      BY <1>2
    <3> QED
      BY <1>1, <2>1, <3>1
  <2>2. CASE k \in (c + 1)..(c + q)
    <3>1. PICK l \in 1..q : k = c + l
      <4>1. k - c \in 1..q /\ k = c + (k - c)
        BY <1>1, <2>2
      <4> QED
        BY <4>1
    <3> QED
      BY <1>1, <1>2, <3>1
  <2>3. CASE k = c + q + 1
    <3>1. c + 1 \in (c + 1)..n /\ k = (c + 1) + q /\ c + 1 <= n
      BY <1>1, <1>2, <1>5, <2>3
    <3> QED
      BY <1>1, <1>4, <3>1
  <2>4. k \in Int /\ c \in Int /\ q \in Int
    BY <1>1, <1>2
  <2>5. k = c \/ k \in (c + 1)..(c + q) \/ k = c + q + 1
    BY <2>4
  <2> QED
    BY <2>1, <2>2, <2>3, <2>5
<1>6. ASSUME NEW k \in s..(Len(R) - 1), ~NLAt(R, k)
      PROVE  R[k].file = R[k + 1].file
  <2>1. CASE k < c
    <3>1. k \in 1..c /\ k + 1 \in 1..c /\ k \in s..(n - 1)
      BY <1>1, <1>2, <2>1
    <3>2. R[k] = L[k] /\ R[k + 1] = L[k + 1]
      BY <1>1, <3>1
    <3> QED
      BY <1>3, <1>6, <3>1, <3>2 DEF NLAt
  <2>2. CASE k \in c..(c + q)
    <3>1. k \in c..(c + q + 1) /\ k + 1 \in c..(c + q + 1) /\ k <= n + q /\ k + 1 <= n + q
      BY <1>1, <1>2, <1>6, <2>2
    <3>2. R[k].file = L[c].file
      BY <1>5, <3>1
    <3>3. R[k + 1].file = L[c].file
      BY <1>5, <3>1
    <3> QED
      BY <3>2, <3>3
  <2>3. CASE k > c + q
    <3> DEFINE l == k - q
    <3>1. /\ l \in (c + 1)..n /\ l + 1 \in (c + 1)..n /\ l \in s..(n - 1)
          /\ l + q = k /\ (l + 1) + q = k + 1
      BY <1>1, <1>2, <1>6, <2>3
    <3> HIDE DEF l
    <3>2. R[l + q] = L[l] /\ R[(l + 1) + q] = L[l + 1]
      BY <1>1, <3>1
    <3>3. R[k] = L[l] /\ R[k + 1] = L[l + 1]
      BY <3>1, <3>2
    <3>4. ~NLAt(L, l)
      BY <1>6, <3>3 DEF NLAt
    <3> QED
      BY <1>3, <3>1, <3>3, <3>4
  <2> QED
    BY <1>1, <1>2, <2>1, <2>2, <2>3
<1> QED
  BY <1>6 DEF LinesInFile, R

OneFile(M) == \A k, l \in 1..Len(M) : M[k].file = M[l].file

(* A file of its own ends its last line.                                   *)
LEMMA IncludedLines ==
  ASSUME NEW L \in Seq(Token), NEW M \in Seq(Token), NEW e \in 1..Len(L),
         NEW r \in 1..e, NEW s \in e..(e + Len(M)), Len(M) >= 1, NLAt(M, Len(M)),
         OneFile(M), LinesInFile(L, r)
  PROVE  LinesInFile(InsertIn(L, e, M), s)
<1> DEFINE R == InsertIn(L, e, M)
           q == Len(M)
           n == Len(L)
<1>1. /\ n \in Nat /\ q \in Nat /\ q >= 1 /\ Len(R) = n + q
      /\ \A k \in 1..q : R[e - 1 + k] = M[k]
      /\ \A k \in e..n : R[k + q] = L[k]
  <2>1. e \in 1..(Len(L) + 1) /\ n \in Nat /\ q \in Nat /\ q >= 1
    BY LenProperties
  <2>2. Inserted(L, e, M, R)
    BY <2>1, InsertedBy
  <2> QED
    BY <2>1, <2>2 DEF Inserted
<1> HIDE DEF R, q, n
<1>2. /\ e \in 1..n /\ NLAt(M, q) /\ s \in e..(e + q)
  BY DEF n, q
<1>3. \A k \in r..(n - 1) : ~NLAt(L, k) => L[k].file = L[k + 1].file
  BY DEF LinesInFile, n
<1>4. ASSUME NEW k \in s..(Len(R) - 1), ~NLAt(R, k)
      PROVE  R[k].file = R[k + 1].file
  <2>1. CASE k < e + q
    <3> DEFINE l == k - e + 1
    <3>1. l \in 1..q /\ k = e - 1 + l
      BY <1>1, <1>2, <2>1
    <3>2. R[k] = M[l]
      BY <1>1, <3>1
    <3>3. l # q
      BY <1>2, <1>4, <3>2 DEF NLAt
    <3>4. l + 1 \in 1..q /\ k + 1 = e - 1 + (l + 1)
      BY <1>1, <3>1, <3>3
    <3> HIDE DEF l
    <3>5. R[e - 1 + (l + 1)] = M[l + 1]
      BY <1>1, <3>4
    <3>6. M[l].file = M[l + 1].file
      BY <3>1, <3>4 DEF OneFile, q
    <3> QED
      BY <3>2, <3>4, <3>5, <3>6
  <2>2. CASE k >= e + q
    <3> DEFINE l == k - q
    <3>1. /\ l \in e..n /\ l + 1 \in e..n /\ l \in r..(n - 1)
          /\ l + q = k /\ (l + 1) + q = k + 1
      BY <1>1, <1>2, <1>4, <2>2
    <3> HIDE DEF l
    <3>2. R[l + q] = L[l] /\ R[(l + 1) + q] = L[l + 1]
      BY <1>1, <3>1
    <3>3. R[k] = L[l] /\ R[k + 1] = L[l + 1]
      BY <3>1, <3>2
    <3>4. ~NLAt(L, l)
      BY <1>4, <3>3 DEF NLAt
    <3> QED
      BY <1>3, <3>1, <3>3, <3>4
  <2> QED
    BY <1>1, <1>2, <2>1, <2>2
<1> QED
  BY <1>4 DEF LinesInFile, R

\* Files below a number stay so with tokens of such files put in.
LEMMA InsertedFiles ==
  ASSUME NEW L \in Seq(Token), NEW M \in Seq(Token), NEW i \in 1..(Len(L) + 1), NEW n \in Nat,
         FilesBelow(L, n), FilesBelow(M, n)
  PROVE  FilesBelow(InsertIn(L, i, M), n)
<1> DEFINE R == InsertIn(L, i, M)
           q == Len(M)
<1>1. /\ Len(L) \in Nat /\ q \in Nat /\ Len(R) = Len(L) + q
      /\ \A k \in 1..(i - 1) : R[k] = L[k]
      /\ \A k \in 1..q : R[i - 1 + k] = M[k]
      /\ \A k \in i..Len(L) : R[k + q] = L[k]
  <2>1. Inserted(L, i, M, R)
    BY InsertedBy
  <2> HIDE DEF R
  <2> QED
    BY <2>1, LenProperties DEF Inserted
<1> HIDE DEF R, q
<1>2. ASSUME NEW k \in 1..Len(R) PROVE R[k].file < n
  <2>1. CASE k < i
    <3>1. k \in 1..(i - 1) /\ k \in 1..Len(L)
      BY <2>1
    <3> QED
      BY <1>1, <3>1 DEF FilesBelow
  <2>2. CASE k \in i..(i - 1 + q)
    <3> DEFINE l == k - (i - 1)
    <3>1. l \in 1..q /\ i - 1 + l = k
      BY <1>1, <2>2
    <3> HIDE DEF l
    <3>2. R[i - 1 + l] = M[l]
      BY <1>1, <3>1
    <3>3. M[l].file < n
      BY <3>1 DEF FilesBelow, q
    <3> QED
      BY <3>1, <3>2, <3>3
  <2>3. CASE k > i - 1 + q
    <3> DEFINE l == k - q
    <3>1. l \in i..Len(L) /\ l + q = k /\ l \in 1..Len(L)
      BY <1>1, <2>3
    <3> HIDE DEF l
    <3>2. R[l + q] = L[l]
      BY <1>1, <3>1
    <3> QED
      BY <3>1, <3>2 DEF FilesBelow
  <2> QED
    BY <1>1, <2>1, <2>2, <2>3
<1> QED
  BY <1>2 DEF FilesBelow, R

\* Files below a number are below a greater one.
LEMMA FilesFewer ==
  ASSUME NEW L \in Seq(Token), NEW m \in Int, NEW n \in Int, m <= n, FilesBelow(L, m)
  PROVE  FilesBelow(L, n)
<1>1. ASSUME NEW i \in 1..Len(L) PROVE L[i].file < n
  <2>1. L[i].file \in Nat /\ L[i].file < m
    BY TokenAt DEF FilesBelow
  <2> QED
    BY <2>1
<1> QED
  BY <1>1 DEF FilesBelow

\* The number of the next file.
LEMMA NewFileNat ==
  ASSUME NEW L \in Seq(Token)
  PROVE  NewFileOf(L) \in Nat /\ NewFileOf(L) >= 1
<1> DEFINE A == {i \in 1..Len(L) : NLAt(L, i)}
<1>1. Cardinality(A) \in Nat /\ NewFileOf(L) = 1 + Cardinality(A)
  BY LineEndsFinite DEF NewFileOf
<1> HIDE DEF A
<1> QED
  BY <1>1

\* The expansion of a macro keeps the invariant.
LEMMA ExpandKeeps ==
  ASSUME SeqInv, NEW ids \in Expansions, ExpandMacro(ids)
  PROVE  SeqInv'
<1> DEFINE c == Current
           L == tokList
           M == InFile(ids, tokList[c].file)
           R == InsertIn(L, c + 1, M)
<1>1. /\ Len(L) \in Nat /\ begin \in Nat /\ lineStart \in Nat /\ L \in Seq(Token)
      /\ begin \in 1..(Len(L) + 1) /\ lineStart \in 1..begin
  BY CurrentIs DEF SeqInv, Cursor
<1>2. ~Empty
  BY DEF ExpandMacro
<1>3. /\ c \in begin..Len(L) /\ c \in 1..Len(L) /\ ~NLAt(L, c) /\ L[c].file \in Nat
      /\ GetInsertFrontPos(SkipNewLines(c + 1)) = c + 1
  BY <1>2, TakenIs
<1>4. /\ tokList' = R /\ begin' = c + 1 /\ lineStart' = lineStart /\ exceedEnd' = exceedEnd
  BY <1>3 DEF ExpandMacro, InsertSeqAt, InsertIn
<1>5. ids \in Seq(Ids \cup {NL})
  BY TextsAssumption, SeqMonotonic
<1>6. /\ M \in Seq(Token) /\ Len(M) = Len(ids) /\ \A k \in 1..Len(M) : M[k].file = L[c].file
  <2> DEFINE f == L[c].file
  <2>1. f \in Nat
    BY <1>3
  <2> HIDE DEF f
  <2>2. /\ InFile(ids, f) \in Seq(Token) /\ Len(InFile(ids, f)) = Len(ids)
        /\ \A k \in 1..Len(ids) : InFile(ids, f)[k].file = f
    BY <1>5, <2>1, InFileIs
  <2> QED
    BY <2>2 DEF f
<1>7. SeqInv
  OBVIOUS
<1> HIDE DEF M, c
<1>8. /\ c + 1 \in 1..(Len(L) + 1) /\ lineStart \in 1..c
  BY <1>1, <1>3
<1>9. R \in Seq(Token) /\ Len(R) = Len(L) + Len(M) /\ Len(M) \in Nat
  <2>1. Inserted(L, c + 1, M, R)
    <3> DEFINE i == c + 1
    <3>1. i \in 1..(Len(L) + 1)
      BY <1>8
    <3> HIDE DEF i
    <3>2. Inserted(L, i, M, InsertIn(L, i, M))
      BY <1>1, <1>6, <3>1, InsertedBy
    <3> QED
      BY <3>2 DEF i
  <2> QED
    BY <1>6, <2>1, LenProperties DEF Inserted
<1>10. LinesInFile(R, lineStart)
  <2>1. LinesInFile(L, lineStart)
    BY DEF SeqInv
  <2> HIDE DEF L
  <2> QED
    BY <1>1, <1>3, <1>6, <1>8, <2>1, ExpansionLines
<1>11. FilesBelow(R, NewFileOf(R))
  <2> DEFINE n == NewFileOf(L)
             m == NewFileOf(R)
  <2>1. n \in Nat /\ m \in Nat
    BY <1>1, <1>9, NewFileNat
  <2>2. FilesBelow(L, n)
    BY DEF SeqInv
  <2>3. FilesBelow(M, n)
    BY <1>3, <1>6, <2>2 DEF FilesBelow
  <2> DEFINE i == c + 1
  <2>4. i \in 1..(Len(L) + 1) /\ R = InsertIn(L, i, M)
    BY <1>8
  <2>5. n <= m
    <3> HIDE DEF i, L
    <3>1. NewFileOf(L) <= NewFileOf(InsertIn(L, i, M))
      BY <1>1, <1>6, <2>4, NewFileGrows
    <3> QED
      BY <2>4, <3>1
  <2> HIDE DEF n, m, i, L
  <2>6. FilesBelow(InsertIn(L, i, M), n)
    BY <1>1, <1>6, <2>1, <2>2, <2>3, <2>4, InsertedFiles
  <2> HIDE DEF R
  <2>7. FilesBelow(R, m)
    BY <1>9, <2>1, <2>4, <2>5, <2>6, FilesFewer
  <2> QED
    BY <2>7 DEF m
<1>12. Cursor(R, c + 1, lineStart)
  <2>1. c + 1 \in 1..(Len(R) + 1) /\ lineStart \in 1..(c + 1)
    BY <1>1, <1>3, <1>9
  <2> QED
    BY <1>9, <2>1 DEF Cursor
<1>13. exceedEnd' = 0
  BY <1>2, <1>4 DEF SeqInv, OvershootAtEnd
<1> HIDE DEF R
<1> QED
  BY <1>4, <1>10, <1>11, <1>12, <1>13 DEF SeqInv, OvershootAtEnd

\* An included file keeps the invariant.
LEMMA IncludeKeeps ==
  ASSUME SeqInv, NEW ids \in Headers, ParseInclude(ids)
  PROVE  SeqInv'
<1> DEFINE e == LineEnd
           L == tokList
           T == Tokenized(ids)
           M == InFile(T, NewFile)
           R == InsertIn(L, e, M)
           f == FirstToken(T)
           n == NewFileOf(L)
           m == NewFileOf(R)
<1>1. /\ Len(L) \in Nat /\ begin \in Nat /\ lineStart \in Nat /\ L \in Seq(Token)
      /\ begin \in 1..(Len(L) + 1) /\ lineStart \in 1..begin
  BY CurrentIs DEF SeqInv, Cursor
<1>2. exceedEnd = 0 /\ e \in (begin + 1)..Len(L)
  BY LineIs DEF ParseInclude
<1>3. /\ tokList' = R /\ begin' = e + f - 1 /\ lineStart' = begin' /\ exceedEnd' = exceedEnd
  BY DEF ParseInclude, InsertSeqAt, InsertIn
<1>4. ids \in Seq(Ids \cup {NL})
  BY TextsAssumption
<1>5. /\ T \in Seq(Ids \cup {NL}) /\ Len(T) \in Nat \ {0} /\ T[Len(T)] = NL
  BY <1>4, TokenizedIs
<1>6. f \in 1..Len(T)
  BY <1>5, FirstTokenIs
<1>7. NewFile = n /\ n \in Nat /\ n >= 1
  <2>1. DOMAIN L = 1..Len(L)
    BY <1>1, LenProperties
  <2>2. NewFile = n
    BY <2>1 DEF NewFile, NewFileOf, IsNL, NLAt
  <2> QED
    BY <1>1, <2>2, NewFileNat
<1> HIDE DEF e, T, n, f
<1>8. /\ M \in Seq(Token) /\ Len(M) = Len(T) /\ \A k \in 1..Len(M) : M[k].file = n
      /\ M[Len(M)].id = NL
  <2>1. /\ InFile(T, n) \in Seq(Token) /\ Len(InFile(T, n)) = Len(T)
        /\ \A k \in 1..Len(T) : InFile(T, n)[k].id = T[k] /\ InFile(T, n)[k].file = n
    <3> HIDE DEF M, R, m, L
    <3>1. T \in Seq(Ids \cup {NL}) /\ n \in Nat
      BY <1>5, <1>7
    <3> QED
      BY <3>1, InFileIs
  <2>2. Len(T) \in 1..Len(T)
    BY <1>5
  <2> QED
    BY <1>5, <1>7, <2>1, <2>2
<1> HIDE DEF M, L
<1>9. e \in 1..(Len(L) + 1) /\ e \in 1..Len(L) /\ lineStart \in 1..e /\ Len(M) >= 1
  BY <1>1, <1>2, <1>5, <1>8
<1>10. R \in Seq(Token) /\ Len(R) = Len(L) + Len(M)
  <2>1. Inserted(L, e, M, R)
    BY <1>1, <1>8, <1>9, InsertedBy
  <2> QED
    BY <2>1 DEF Inserted
<1>11. LinesInFile(R, e + f - 1)
  <2>1. LinesInFile(L, lineStart)
    BY DEF SeqInv, L
  <2>2. OneFile(M) /\ NLAt(M, Len(M))
    BY <1>8 DEF OneFile, NLAt
  <2> DEFINE s == e + f - 1
  <2>3. s \in e..(e + Len(M))
    BY <1>6, <1>8, <1>9
  <2> HIDE DEF s
  <2>4. LinesInFile(InsertIn(L, e, M), s)
    BY <1>1, <1>8, <1>9, <2>1, <2>2, <2>3, IncludedLines
  <2> QED
    BY <2>4 DEF s
<1>12. FilesBelow(R, m)
  <2>1. m \in Nat
    BY <1>10, NewFileNat
  <2>2. n + 1 <= m
    <3>1. Len(M) \in 1..Len(M) /\ NLAt(M, Len(M))
      BY <1>5, <1>8 DEF NLAt
    <3> QED
      BY <1>1, <1>8, <1>9, <3>1, NewFileGrows DEF n
  <2>3. FilesBelow(L, n + 1)
    <3>1. FilesBelow(L, n)
      BY DEF SeqInv, L, n
    <3>2. n \in Int /\ n + 1 \in Int /\ n <= n + 1
      BY <1>7
    <3> QED
      BY <1>1, <3>1, <3>2, FilesFewer
  <2>4. FilesBelow(M, n + 1)
    BY <1>7, <1>8 DEF FilesBelow
  <2> DEFINE l == n + 1
  <2>5. l \in Nat
    BY <1>7
  <2> HIDE DEF l
  <2>6. FilesBelow(InsertIn(L, e, M), l)
    <3>1. FilesBelow(L, l) /\ FilesBelow(M, l)
      BY <2>3, <2>4 DEF l
    <3> QED
      BY <1>1, <1>8, <1>9, <2>5, <3>1, InsertedFiles
  <2>7. l <= m
    BY <2>2 DEF l
  <2> HIDE DEF R, m
  <2> QED
    BY <1>10, <2>1, <2>5, <2>6, <2>7, FilesFewer DEF R
<1>13. Cursor(R, e + f - 1, e + f - 1)
  <2>1. e + f - 1 \in 1..(Len(R) + 1) /\ e + f - 1 \in 1..(e + f - 1)
    BY <1>6, <1>8, <1>9, <1>10
  <2> QED
    BY <1>10, <2>1 DEF Cursor
<1>14. exceedEnd' = 0
  BY <1>2, <1>3
<1> HIDE DEF R
<1> QED
  BY <1>3, <1>11, <1>12, <1>13, <1>14 DEF SeqInv, OvershootAtEnd, m

\* A token added at the end keeps the invariant.
LEMMA InsertBackKeeps ==
  ASSUME SeqInv, NEW id \in Ids \cup {NL}, InsertBack(id)
  PROVE  SeqInv'
<1> DEFINE L == tokList
           n == Len(L)
           file == IF L = << >> THEN 0 ELSE L[n].file
           x == [id |-> id, file |-> file]
           R == Append(L, x)
<1>1. /\ n \in Nat /\ begin \in Nat /\ lineStart \in Nat /\ L \in Seq(Token)
      /\ begin \in 1..(n + 1) /\ lineStart \in 1..begin
  BY CurrentIs DEF SeqInv, Cursor
<1>2. /\ tokList' = R /\ begin' = begin /\ lineStart' = lineStart /\ exceedEnd' = 0
  BY DEF InsertBack
<1>3. /\ NewFileOf(L) \in Nat /\ NewFileOf(L) >= 1 /\ FilesBelow(L, NewFileOf(L))
      /\ LinesInFile(L, lineStart)
  BY <1>1, NewFileNat DEF SeqInv
<1> HIDE DEF L
<1>4. file \in Nat /\ file < NewFileOf(L) /\ (n # 0 => file = L[n].file)
  <2>1. CASE L = << >>
    BY <1>1, <1>3, <2>1, EmptySeq
  <2>2. CASE L # << >>
    <3>1. n \in 1..Len(L)
      BY <1>1, <2>2, EmptySeq
    <3>2. L[n].file \in Nat /\ L[n].file < NewFileOf(L)
      BY <1>1, <1>3, <3>1, TokenAt DEF FilesBelow
    <3> QED
      BY <2>2, <3>2
  <2> QED
    BY <2>1, <2>2
<1> HIDE DEF file
<1>5. x \in Token /\ x.file = file
  BY <1>4 DEF Token
<1> HIDE DEF x
<1>6. /\ R \in Seq(Token) /\ Len(R) = n + 1 /\ R[n + 1] = x
      /\ \A i \in 1..n : R[i] = L[i]
  BY <1>1, <1>5, AppendProperties
<1>7. NewFileOf(L) <= NewFileOf(R) /\ NewFileOf(R) \in Nat
  BY <1>1, <1>5, <1>6, NewFileAppend, NewFileNat
<1> HIDE DEF R, n
<1>8. FilesBelow(R, NewFileOf(R))
  <2>1. ASSUME NEW i \in 1..Len(R) PROVE R[i].file < NewFileOf(L)
    <3>1. CASE i = n + 1
      BY <1>4, <1>5, <1>6, <3>1
    <3>2. CASE i # n + 1
      <4>1. i \in 1..n
        BY <1>1, <1>6, <3>2
      <4> QED
        BY <1>3, <1>6, <4>1 DEF FilesBelow, n
    <3> QED
      BY <3>1, <3>2
  <2> DEFINE a == NewFileOf(L)
             b == NewFileOf(R)
  <2>2. FilesBelow(R, a) /\ a \in Int /\ b \in Int /\ a <= b
    BY <1>3, <1>7, <2>1 DEF FilesBelow
  <2> HIDE DEF a, b
  <2>3. FilesBelow(R, b)
    BY <1>6, <2>2, FilesFewer
  <2> QED
    BY <2>3 DEF b
<1>9. LinesInFile(R, lineStart)
  <2>1. ASSUME NEW k \in lineStart..(Len(R) - 1), ~NLAt(R, k)
        PROVE  R[k].file = R[k + 1].file
    <3>1. k \in 1..n /\ R[k] = L[k]
      BY <1>1, <1>6
    <3>2. CASE k = n
      BY <1>1, <1>4, <1>5, <1>6, <3>1, <3>2
    <3>3. CASE k # n
      <4>1. k \in lineStart..(n - 1) /\ k + 1 \in 1..n
        BY <1>1, <3>1, <3>3
      <4>2. R[k + 1] = L[k + 1] /\ ~NLAt(L, k)
        BY <1>6, <2>1, <3>1, <4>1 DEF NLAt
      <4> QED
        BY <1>3, <3>1, <4>1, <4>2 DEF LinesInFile, n
    <3> QED
      BY <3>2, <3>3
  <2> QED
    BY <2>1 DEF LinesInFile
<1>10. Cursor(R, begin, lineStart)
  <2>1. begin \in 1..(Len(R) + 1)
    BY <1>1, <1>6
  <2> QED
    BY <1>1, <1>6, <2>1 DEF Cursor
<1> QED
  BY <1>2, <1>8, <1>9, <1>10 DEF SeqInv, OvershootAtEnd

\* The invariant holds at the start.
LEMMA SeqInit ==
  ASSUME Init
  PROVE  SeqInv
<1>1. CASE tokList = << >> /\ begin = 1
  <2>1. tokList \in Seq(Token) /\ Len(tokList) = 0
    BY <1>1, EmptySeq
  <2>2. Cursor(tokList, begin, lineStart)
    BY <1>1, <2>1 DEF Init, Cursor
  <2>3. FilesBelow(tokList, NewFileOf(tokList))
    BY <2>1 DEF FilesBelow
  <2>4. LinesInFile(tokList, lineStart)
    <3>1. lineStart = 1
      BY <1>1 DEF Init
    <3> QED
      BY <2>1, <3>1 DEF LinesInFile
  <2> QED
    BY <2>2, <2>3, <2>4 DEF Init, SeqInv, OvershootAtEnd
<1>2. ASSUME NEW ids \in Sources, tokList = InFile(Tokenized(ids), 0),
             begin = FirstToken(Tokenized(ids))
      PROVE  SeqInv
  <2> DEFINE T == Tokenized(ids)
  <2>1. ids \in Seq(Ids \cup {NL})
    BY TextsAssumption
  <2>2. T \in Seq(Ids \cup {NL}) /\ Len(T) \in Nat \ {0} /\ T[Len(T)] = NL
    BY <2>1, TokenizedIs
  <2> HIDE DEF T
  <2>3. FirstToken(T) \in 1..Len(T)
    BY <2>2, FirstTokenIs
  <2>4. /\ InFile(T, 0) \in Seq(Token) /\ Len(InFile(T, 0)) = Len(T)
        /\ \A i \in 1..Len(T) : InFile(T, 0)[i].file = 0
    <3>1. InFile(T, 0) \in Seq(Token) /\ Len(InFile(T, 0)) = Len(T)
      BY <2>2, InFileIs
    <3>2. T \in Seq(Ids \cup {NL}) /\ 0 \in Nat
      BY <2>2
    <3>3. \A i \in 1..Len(T) : InFile(T, 0)[i].file = 0
      BY <3>2, InFileIs, Zenon
    <3> QED
      BY <3>1, <3>3
  <2>5. /\ tokList \in Seq(Token) /\ Len(tokList) = Len(T) /\ begin \in 1..Len(T)
        /\ \A i \in 1..Len(tokList) : tokList[i].file = 0
    BY <1>2, <2>3, <2>4 DEF T
  <2>6. Cursor(tokList, begin, lineStart)
    BY <2>2, <2>5 DEF Init, Cursor
  <2>7. FilesBelow(tokList, NewFileOf(tokList))
    BY <2>5, NewFileNat DEF FilesBelow
  <2>8. LinesInFile(tokList, lineStart)
    <3>1. ASSUME NEW k \in lineStart..(Len(tokList) - 1)
          PROVE  tokList[k].file = tokList[k + 1].file
      <4>1. k \in 1..Len(tokList) /\ k + 1 \in 1..Len(tokList)
        BY <2>2, <2>5 DEF Init
      <4> QED
        BY <2>5, <4>1
    <3> QED
      BY <3>1 DEF LinesInFile
  <2> QED
    BY <2>6, <2>7, <2>8 DEF Init, SeqInv, OvershootAtEnd
<1> QED
  BY <1>1, <1>2 DEF Init

\* Every step keeps the invariant.
LEMMA SeqStep ==
  ASSUME SeqInv, [Step]_vars
  PROVE  SeqInv'
<1>1. CASE UNCHANGED vars
  BY <1>1 DEF vars, SeqInv, OvershootAtEnd, Empty, Current, SkipNewLines, IsNL
<1>2. CASE Step
  BY <1>2, NextKeeps, PeekKeeps, PutBackKeeps, ResetKeeps, ExpandKeeps, GetLineKeeps,
     IncludeKeeps, InsertBackKeeps DEF Step
<1> QED
  BY <1>1, <1>2

(* The list and its cursor keep to one another.                            *)
LEMMA SeqInvariant == Spec => []SeqInv
<1>1. Init => SeqInv
  BY SeqInit
<1>2. SeqInv /\ [Step]_vars => SeqInv'
  BY SeqStep
<1> QED
  BY <1>1, <1>2, PTL DEF Spec

(* Next counts past the end in exceed_end only while nothing is left to     *)
(* take, so a PutBack never counts down in the middle of the stream.        *)
THEOREM OvershootAtEndAlways == Spec => []OvershootAtEnd
<1>1. SeqInv => OvershootAtEnd
  BY DEF SeqInv
<1> QED
  BY <1>1, SeqInvariant, PTL

-----------------------------------------------------------------------------
(* The stream of marked tokens a list and a cursor stand for.              *)
MarkedToken == [id : Ids, bol : BOOLEAN]

BolAt(L, i) == i = 1 \/ NLAt(L, i - 1) \/ L[i - 1].file # L[i].file

MarksOf(L) == [i \in DOMAIN L |-> Mark(L[i].id, BolAt(L, i))]

MarkAt(L, i) == [id |-> L[i].id, bol |-> BolAt(L, i)]

ViewOf(L, i, j) == Part(MarksOf(L), i, j)

\* Marked tokens, none for a line end.
LEMMA MarksTyped ==
  ASSUME NEW L \in Seq(Token)
  PROVE  /\ MarksOf(L) \in Seq(Seq(MarkedToken))
         /\ Len(MarksOf(L)) = Len(L) /\ Len(L) \in Nat
         /\ \A i \in 1..Len(L) : MarksOf(L)[i] = IF NLAt(L, i) THEN << >> ELSE <<MarkAt(L, i)>>
         /\ \A i \in 1..Len(L) : ~NLAt(L, i) => MarkAt(L, i) \in MarkedToken
<1> DEFINE p == MarksOf(L)
<1>1. Len(L) \in Nat /\ DOMAIN L = 1..Len(L)
  BY LenProperties
<1>2. p = [i \in 1..Len(L) |-> Mark(L[i].id, BolAt(L, i))]
  BY <1>1 DEF MarksOf
<1>3. ASSUME NEW i \in 1..Len(L), ~NLAt(L, i)
      PROVE  MarkAt(L, i) \in MarkedToken
  <2>1. L[i].id \in Ids
    BY <1>3, TokenAt DEF NLAt
  <2>2. BolAt(L, i) \in BOOLEAN
    BY DEF BolAt, NLAt
  <2> QED
    BY <2>1, <2>2 DEF MarkAt, MarkedToken
<1>4. ASSUME NEW i \in 1..Len(L)
      PROVE  /\ Mark(L[i].id, BolAt(L, i)) = IF NLAt(L, i) THEN << >> ELSE <<MarkAt(L, i)>>
             /\ Mark(L[i].id, BolAt(L, i)) \in Seq(MarkedToken)
  <2>1. CASE NLAt(L, i)
    <3>1. Mark(L[i].id, BolAt(L, i)) = << >>
      BY <2>1 DEF Mark, NLAt
    <3> QED
      BY <2>1, <3>1, EmptySeq
  <2>2. CASE ~NLAt(L, i)
    <3>1. Mark(L[i].id, BolAt(L, i)) = <<MarkAt(L, i)>>
      BY <2>2 DEF Mark, NLAt, MarkAt
    <3>2. <<MarkAt(L, i)>> \in Seq(MarkedToken)
      BY <1>3, <2>2
    <3> QED
      BY <2>2, <3>1, <3>2
  <2> QED
    BY <2>1, <2>2
<1>5. p \in Seq(Seq(MarkedToken))
  <2>1. \A i \in 1..Len(L) : Mark(L[i].id, BolAt(L, i)) \in Seq(MarkedToken)
    BY <1>4
  <2> HIDE DEF p
  <2>2. [i \in 1..Len(L) |-> Mark(L[i].id, BolAt(L, i))] \in Seq(Seq(MarkedToken))
    BY <1>1, <2>1, IsASeq
  <2> QED
    BY <1>2, <2>2
<1>6. Len(p) = Len(L)
  BY <1>1, <1>2, <1>5, LenProperties
<1>7. \A i \in 1..Len(L) : p[i] = Mark(L[i].id, BolAt(L, i))
  BY <1>2
<1> HIDE DEF p
<1>8. \A i \in 1..Len(L) : p[i] = IF NLAt(L, i) THEN << >> ELSE <<MarkAt(L, i)>>
  BY <1>4, <1>7
<1> QED
  BY <1>1, <1>3, <1>5, <1>6, <1>8 DEF p

\* A view is a sequence of marked tokens.
LEMMA ViewTyped ==
  ASSUME NEW L \in Seq(Token), NEW i \in 1..(Len(L) + 1), NEW j \in (i - 1)..Len(L)
  PROVE  ViewOf(L, i, j) \in Seq(MarkedToken)
<1> DEFINE p == MarksOf(L)
<1>1. p \in Seq(Seq(MarkedToken)) /\ i \in 1..(Len(p) + 1) /\ j \in (i - 1)..Len(p)
  BY MarksTyped
<1> HIDE DEF p
<1>2. Part(p, i, j) \in Seq(MarkedToken)
  BY <1>1, PartTyped
<1> QED
  BY <1>2 DEF p, ViewOf

\* The view of no position.
LEMMA ViewEmpty ==
  ASSUME NEW L, NEW i \in Int, NEW j \in Int, j < i
  PROVE  ViewOf(L, i, j) = << >>
BY PartEmpty DEF ViewOf

\* A view is that of its two parts.
LEMMA ViewSplit ==
  ASSUME NEW L \in Seq(Token), NEW i \in 1..(Len(L) + 1),
         NEW k \in (i - 1)..Len(L), NEW j \in k..Len(L)
  PROVE  ViewOf(L, i, j) = ViewOf(L, i, k) \o ViewOf(L, k + 1, j)
<1> DEFINE p == MarksOf(L)
<1>1. /\ p \in Seq(Seq(MarkedToken)) /\ i \in 1..(Len(p) + 1) /\ k \in (i - 1)..Len(p)
      /\ j \in k..Len(p)
  BY MarksTyped
<1> HIDE DEF p
<1>2. Part(p, i, j) = Part(p, i, k) \o Part(p, k + 1, j)
  BY <1>1, PartSplit
<1> QED
  BY <1>2 DEF p, ViewOf

\* Line ends are not seen.
LEMMA ViewBlank ==
  ASSUME NEW L \in Seq(Token), NEW i \in 1..(Len(L) + 1), NEW j \in (i - 1)..Len(L),
         \A k \in i..j : NLAt(L, k)
  PROVE  ViewOf(L, i, j) = << >>
<1> DEFINE p == MarksOf(L)
<1>1. /\ p \in Seq(Seq(MarkedToken)) /\ i \in 1..(Len(p) + 1) /\ j \in (i - 1)..Len(p)
      /\ \A k \in 1..Len(L) : NLAt(L, k) => p[k] = << >>
  BY MarksTyped
<1> HIDE DEF p
<1>2. ASSUME NEW k \in i..j PROVE p[k] = << >>
  <2>1. k \in 1..Len(L)
    BY LenProperties
  <2> QED
    BY <1>1, <2>1
<1>3. Part(p, i, j) = << >>
  BY <1>1, <1>2, PartBlank
<1> QED
  BY <1>3 DEF p, ViewOf

\* The view of one token.
LEMMA ViewOne ==
  ASSUME NEW L \in Seq(Token), NEW i \in 1..Len(L), ~NLAt(L, i)
  PROVE  ViewOf(L, i, i) = <<MarkAt(L, i)>> /\ MarkAt(L, i) \in MarkedToken
<1> DEFINE p == MarksOf(L)
<1>1. /\ p \in Seq(Seq(MarkedToken)) /\ i \in 1..Len(p) /\ p[i] = <<MarkAt(L, i)>>
      /\ MarkAt(L, i) \in MarkedToken
  BY MarksTyped
<1> HIDE DEF p
<1>2. Part(p, i, i) = p[i]
  BY <1>1, PartOne
<1> QED
  BY <1>1, <1>2 DEF p, ViewOf

-----------------------------------------------------------------------------
(* Sequences put together, and taken apart again.                          *)
LEMMA ConcatTyped ==
  ASSUME NEW S, NEW a \in Seq(S), NEW b \in Seq(S)
  PROVE  /\ a \o b \in Seq(S) /\ Len(a \o b) = Len(a) + Len(b)
         /\ a \o << >> = a /\ << >> \o a = a
BY ConcatProperties, ConcatEmptySeq

\* Both can be cut out again.
LEMMA ConcatParts ==
  ASSUME NEW S, NEW a \in Seq(S), NEW b \in Seq(S)
  PROVE  /\ SubSeq(a \o b, 1, Len(a)) = a
         /\ SubSeq(a \o b, Len(a) + 1, Len(a \o b)) = b
         /\ Len(a \o b) = Len(a) + Len(b) /\ Len(a) \in Nat /\ Len(b) \in Nat
<1> DEFINE c == a \o b
           n == Len(a)
           m == Len(b)
<1>1. /\ c \in Seq(S) /\ Len(c) = n + m /\ n \in Nat /\ m \in Nat
      /\ \A i \in 1..(n + m) : c[i] = IF i <= n THEN a[i] ELSE b[i - n]
  BY ConcatProperties, LenProperties
<1> HIDE DEF c
<1>2. \A i \in 1..(n + m) : c[i] \in S
  BY <1>1, ElementOfSeq
<1>3. SubSeq(c, 1, n) = a
  <2> DEFINE s == SubSeq(c, 1, n)
  <2>1. 1 \in Int /\ n \in Int /\ \A i \in 1..n : c[i] \in S
    BY <1>1, <1>2
  <2>2. /\ s \in Seq(S) /\ Len(s) = IF 1 <= n THEN n - 1 + 1 ELSE 0
        /\ \A i \in 1..(n - 1 + 1) : s[i] = c[1 + i - 1]
    BY <2>1, SubSeqProperties
  <2> HIDE DEF s
  <2>3. Len(s) = n
    BY <1>1, <2>2
  <2>4. ASSUME NEW i \in 1..Len(s) PROVE s[i] = a[i]
    <3>1. i \in 1..(n - 1 + 1) /\ 1 + i - 1 = i /\ i \in 1..(n + m) /\ i <= n
      BY <1>1, <2>3
    <3>2. s[i] = c[i]
      BY <2>2, <3>1
    <3> QED
      BY <1>1, <3>1, <3>2
  <2>5. s = a
    BY <2>2, <2>3, <2>4, SeqEqual
  <2> QED
    BY <2>5 DEF s
<1>4. SubSeq(c, n + 1, Len(c)) = b
  <2> DEFINE s == SubSeq(c, n + 1, n + m)
  <2>1. n + 1 \in Int /\ n + m \in Int /\ \A i \in (n + 1)..(n + m) : c[i] \in S
    BY <1>1, <1>2
  <2>2. /\ s \in Seq(S) /\ Len(s) = IF n + 1 <= n + m THEN (n + m) - (n + 1) + 1 ELSE 0
        /\ \A i \in 1..((n + m) - (n + 1) + 1) : s[i] = c[(n + 1) + i - 1]
    BY <2>1, SubSeqProperties
  <2> HIDE DEF s
  <2>3. Len(s) = m
    BY <1>1, <2>2
  <2>4. ASSUME NEW i \in 1..Len(s) PROVE s[i] = b[i]
    <3> DEFINE k == (n + 1) + i - 1
    <3>1. i \in 1..((n + m) - (n + 1) + 1) /\ k \in 1..(n + m) /\ ~(k <= n) /\ k - n = i
      BY <1>1, <2>3
    <3>2. s[i] = c[k]
      BY <2>2, <3>1
    <3> HIDE DEF k
    <3> QED
      BY <1>1, <3>1, <3>2
  <2>5. s = b
    BY <2>2, <2>3, <2>4, SeqEqual
  <2> QED
    BY <1>1, <2>5 DEF s
<1> QED
  BY <1>1, <1>3, <1>4 DEF c

\* The first element and the rest.
LEMMA FirstApart ==
  ASSUME NEW S, NEW x \in S, NEW t \in Seq(S)
  PROVE  /\ <<x>> \o t # << >> /\ Head(<<x>> \o t) = x /\ Tail(<<x>> \o t) = t
         /\ (<<x>> \o t)[1] = x
<1> DEFINE one == <<x>>
           c == one \o t
<1>1. one \in Seq(S) /\ Len(one) = 1 /\ one[1] = x
  OBVIOUS
<1> HIDE DEF one
<1>2. /\ c \in Seq(S) /\ Len(c) = 1 + Len(t) /\ Len(t) \in Nat
      /\ \A i \in 1..(1 + Len(t)) : c[i] = IF i <= 1 THEN one[i] ELSE t[i - 1]
  BY <1>1, ConcatProperties, LenProperties, SMTT(30)
<1> HIDE DEF c
<1>3. c[1] = x
  BY <1>1, <1>2
<1>4. c # << >>
  BY <1>2, EmptySeq
<1>5. Head(c) = x
  BY <1>3, <1>4, HeadTailProperties, <1>2
<1>6. Tail(c) = t
  <2>1. /\ Tail(c) \in Seq(S) /\ Len(Tail(c)) = Len(c) - 1
        /\ \A i \in 1..Len(Tail(c)) : Tail(c)[i] = c[i + 1]
    BY <1>2, <1>4, HeadTailProperties
  <2> DEFINE s == Tail(c)
  <2> HIDE DEF s
  <2>2. s \in Seq(S) /\ Len(s) = Len(t) /\ \A i \in 1..Len(s) : s[i] = c[i + 1]
    BY <1>2, <2>1 DEF s
  <2>3. ASSUME NEW i \in 1..Len(s) PROVE s[i] = t[i]
    <3> DEFINE k == i + 1
    <3>1. k \in 1..(1 + Len(t)) /\ ~(k <= 1) /\ k - 1 = i
      BY <1>2, <2>2
    <3> HIDE DEF k
    <3>2. c[k] = t[i]
      BY <1>2, <3>1
    <3> QED
      BY <2>2, <3>2 DEF k
  <2>4. s = t
    BY <2>2, <2>3, SeqEqual
  <2> QED
    BY <2>4 DEF s
<1> QED
  BY <1>3, <1>4, <1>5, <1>6 DEF c, one

-----------------------------------------------------------------------------
(* Line ends between two positions make no difference to what is on either *)
(* side, and a token taken goes from one side to the other.                *)
LEMMA BlankViews ==
  ASSUME NEW L \in Seq(Token), NEW b \in 1..(Len(L) + 1), NEW s \in 1..b,
         NEW c \in b..(Len(L) + 1), \A k \in b..(c - 1) : NLAt(L, k)
  PROVE  /\ ViewOf(L, c, Len(L)) = ViewOf(L, b, Len(L))
         /\ ViewOf(L, s, c - 1) = ViewOf(L, s, b - 1)
<1> DEFINE n == Len(L)
           d == c - 1
<1>1. /\ n \in Nat /\ c \in b..(n + 1) /\ \A k \in b..(c - 1) : NLAt(L, k)
  BY LenProperties
<1>2. /\ d \in (b - 1)..n /\ d + 1 = c /\ n \in d..n /\ n \in (b - 1)..n /\ n \in (c - 1)..n
      /\ c \in 1..(n + 1) /\ s \in 1..(n + 1)
      /\ b - 1 \in (s - 1)..n /\ d \in (b - 1)..n /\ (b - 1) + 1 = b
  BY <1>1
<1>3. \A k \in b..d : NLAt(L, k)
  BY <1>1
<1> HIDE DEF d
<1>4. ViewOf(L, b, d) = << >>
  BY <1>2, <1>3, ViewBlank
<1>5. ViewOf(L, b, n) = ViewOf(L, b, d) \o ViewOf(L, d + 1, n)
  BY <1>2, ViewSplit
<1>6. ViewOf(L, c, n) \in Seq(MarkedToken)
  BY <1>2, ViewTyped
<1>7. ViewOf(L, c, n) = ViewOf(L, b, n)
  BY <1>2, <1>4, <1>5, <1>6, ConcatEmptySeq
<1>8. ViewOf(L, s, d) = ViewOf(L, s, b - 1)
  <2> DEFINE a == b - 1
  <2>1. a \in (s - 1)..n /\ d \in a..n /\ a + 1 = b /\ s \in 1..(n + 1)
    BY <1>2
  <2> HIDE DEF a
  <2>2. ViewOf(L, s, d) = ViewOf(L, s, a) \o ViewOf(L, a + 1, d)
    BY <2>1, ViewSplit
  <2>3. ViewOf(L, s, a) \in Seq(MarkedToken)
    BY <2>1, ViewTyped
  <2>4. ViewOf(L, s, d) = ViewOf(L, s, a)
    BY <1>4, <2>1, <2>2, <2>3, ConcatEmptySeq
  <2> QED
    BY <2>4 DEF a
<1> QED
  BY <1>7, <1>8 DEF d

\* The cursor skips line ends unseen.
LEMMA SkipViews ==
  ASSUME NEW L \in Seq(Token), NEW b \in 1..(Len(L) + 1), NEW s \in 1..b, NEW c,
         IsSkip(L, b, c)
  PROVE  /\ ViewOf(L, c, Len(L)) = ViewOf(L, b, Len(L))
         /\ ViewOf(L, s, c - 1) = ViewOf(L, s, b - 1)
<1>1. c \in b..(Len(L) + 1) /\ \A k \in b..(c - 1) : NLAt(L, k)
  BY DEF IsSkip
<1> QED
  BY <1>1, BlankViews

\* A token is the first ahead and, taken, the last behind.
LEMMA TakeViews ==
  ASSUME NEW L \in Seq(Token), NEW c \in 1..Len(L), NEW s \in 1..c, ~NLAt(L, c)
  PROVE  /\ MarkAt(L, c) \in MarkedToken
         /\ ViewOf(L, c + 1, Len(L)) \in Seq(MarkedToken)
         /\ ViewOf(L, s, c - 1) \in Seq(MarkedToken)
         /\ ViewOf(L, c, Len(L)) = <<MarkAt(L, c)>> \o ViewOf(L, c + 1, Len(L))
         /\ ViewOf(L, s, c) = ViewOf(L, s, c - 1) \o <<MarkAt(L, c)>>
<1> DEFINE n == Len(L)
           a == c - 1
           e == c + 1
<1>1. /\ n \in Nat /\ c \in 1..n /\ c \in 1..(n + 1) /\ c \in (c - 1)..n /\ n \in c..n
      /\ s \in 1..(n + 1)
      /\ a \in (s - 1)..n /\ c \in a..n /\ a + 1 = c /\ e \in 1..(n + 1) /\ n \in (e - 1)..n
  BY LenProperties
<1>2. ViewOf(L, c, c) = <<MarkAt(L, c)>> /\ MarkAt(L, c) \in MarkedToken
  BY ViewOne
<1>3. ViewOf(L, c, n) = ViewOf(L, c, c) \o ViewOf(L, c + 1, n)
  BY <1>1, ViewSplit
<1> HIDE DEF a, e
<1>4. ViewOf(L, s, c) = ViewOf(L, s, a) \o ViewOf(L, a + 1, c)
  BY <1>1, ViewSplit
<1>5. ViewOf(L, s, a) \in Seq(MarkedToken) /\ ViewOf(L, e, n) \in Seq(MarkedToken)
  BY <1>1, ViewTyped
<1> QED
  BY <1>1, <1>2, <1>3, <1>4, <1>5 DEF a, e

-----------------------------------------------------------------------------
Behind == ViewOf(tokList, lineStart, begin - 1)
Ahead == ViewOf(tokList, begin, Len(tokList))
Fresh == tokList = << >> \/ NLAt(tokList, Len(tokList))

(* The refinement mapping, before and after a step.                        *)
LEMMA Mapped ==
  /\ View(lineStart, begin - 1) = Behind
  /\ View(begin, Len(tokList)) = Ahead
  /\ (tokList = << >> \/ IsNL(Len(tokList))) = Fresh
  /\ View(lineStart, begin - 1)' = Behind'
  /\ View(begin, Len(tokList))' = Ahead'
  /\ (tokList = << >> \/ IsNL(Len(tokList)))' = Fresh'
<1>1. View(lineStart, begin - 1) = Behind
  BY DEF View, Behind, ViewOf, Part, Marks, MarksOf, IsBeginOfLine, BolAt, IsNL, NLAt
<1>2. View(begin, Len(tokList)) = Ahead
  BY DEF View, Ahead, ViewOf, Part, Marks, MarksOf, IsBeginOfLine, BolAt, IsNL, NLAt
<1>3. (tokList = << >> \/ IsNL(Len(tokList))) = Fresh
  BY DEF Fresh, IsNL, NLAt
<1>4. View(lineStart, begin - 1)' = Behind'
  BY DEF View, Behind, ViewOf, Part, Marks, MarksOf, IsBeginOfLine, BolAt, IsNL, NLAt
<1>5. View(begin, Len(tokList))' = Ahead'
  BY DEF View, Ahead, ViewOf, Part, Marks, MarksOf, IsBeginOfLine, BolAt, IsNL, NLAt
<1>6. (tokList = << >> \/ IsNL(Len(tokList)))' = Fresh'
  BY DEF Fresh, IsNL, NLAt
<1> QED
  BY <1>1, <1>2, <1>3, <1>4, <1>5, <1>6

\* What is behind the cursor and ahead of it are marked tokens.
LEMMA ViewsTyped ==
  ASSUME SeqInv
  PROVE  Behind \in Seq(MarkedToken) /\ Ahead \in Seq(MarkedToken)
<1> DEFINE n == Len(tokList)
           a == begin - 1
<1>1. /\ n \in Nat /\ tokList \in Seq(Token) /\ begin \in 1..(n + 1) /\ lineStart \in 1..begin
  BY CurrentIs DEF SeqInv, Cursor
<1>2. lineStart \in 1..(n + 1) /\ a \in (lineStart - 1)..n /\ n \in (begin - 1)..n
  BY <1>1
<1>3. ViewOf(tokList, begin, n) \in Seq(MarkedToken)
  BY <1>1, <1>2, ViewTyped
<1> HIDE DEF a
<1>4. ViewOf(tokList, lineStart, a) \in Seq(MarkedToken)
  BY <1>1, <1>2, ViewTyped
<1> QED
  BY <1>3, <1>4 DEF Behind, Ahead, a

(* The two sides as the cursor sees them when it is on a token.            *)
LEMMA CurrentViews ==
  ASSUME SeqInv
  PROVE  /\ Ahead = ViewOf(tokList, Current, Len(tokList))
         /\ Behind = ViewOf(tokList, lineStart, Current - 1)
         /\ Empty => Ahead = << >>
         /\ ~Empty => /\ MarkAt(tokList, Current) \in MarkedToken
                      /\ ViewOf(tokList, Current + 1, Len(tokList)) \in Seq(MarkedToken)
                      /\ Ahead = <<MarkAt(tokList, Current)>>
                                   \o ViewOf(tokList, Current + 1, Len(tokList))
                      /\ ViewOf(tokList, lineStart, Current)
                           = Append(Behind, MarkAt(tokList, Current))
<1> DEFINE c == Current
           L == tokList
           n == Len(L)
<1>1. /\ n \in Nat /\ L \in Seq(Token) /\ begin \in 1..(n + 1) /\ lineStart \in 1..begin
      /\ IsSkip(L, begin, c) /\ c \in begin..(n + 1)
  BY CurrentIs DEF SeqInv, Cursor
<1> HIDE DEF c, L
<1>2. ViewOf(L, c, n) = ViewOf(L, begin, n) /\ ViewOf(L, lineStart, c - 1) = ViewOf(L, lineStart, begin - 1)
  BY <1>1, SkipViews
<1>3. Ahead = ViewOf(L, c, n) /\ Behind = ViewOf(L, lineStart, c - 1)
  BY <1>2 DEF Ahead, Behind, L
<1>4. Empty => Ahead = << >>
  <2> SUFFICES ASSUME Empty PROVE Ahead = << >>
    OBVIOUS
  <2>1. c = n + 1 /\ c \in Int /\ n \in Int /\ n < c
    BY <1>1 DEF Empty, c, L
  <2>2. ViewOf(L, c, n) = << >>
    BY <2>1, ViewEmpty
  <2> QED
    BY <1>3, <2>2
<1>5. ASSUME ~Empty
      PROVE  /\ MarkAt(L, c) \in MarkedToken
             /\ ViewOf(L, c + 1, n) \in Seq(MarkedToken)
             /\ Ahead = <<MarkAt(L, c)>> \o ViewOf(L, c + 1, n)
             /\ ViewOf(L, lineStart, c) = Append(Behind, MarkAt(L, c))
  <2>1. c \in 1..n /\ ~NLAt(L, c)
    BY <1>5, TakenIs DEF c, L
  <2>2. lineStart \in 1..c
    BY <1>1
  <2>3. /\ MarkAt(L, c) \in MarkedToken
        /\ ViewOf(L, c + 1, n) \in Seq(MarkedToken)
        /\ ViewOf(L, lineStart, c - 1) \in Seq(MarkedToken)
        /\ ViewOf(L, c, n) = <<MarkAt(L, c)>> \o ViewOf(L, c + 1, n)
        /\ ViewOf(L, lineStart, c) = ViewOf(L, lineStart, c - 1) \o <<MarkAt(L, c)>>
    BY <1>1, <2>1, <2>2, TakeViews
  <2>4. Append(Behind, MarkAt(L, c)) = Behind \o <<MarkAt(L, c)>>
    BY <1>3, <2>3, AppendIsConcat
  <2> QED
    BY <1>3, <2>3, <2>4
<1> QED
  BY <1>3, <1>4, <1>5 DEF c, L

\* Next is Next of the stream.
LEMMA NextStreams ==
  ASSUME SeqInv, Next
  PROVE  Abstract!Next
<1> DEFINE c == Current
           L == tokList
           n == Len(L)
           d == SkipNewLines(c + 1)
<1>1. /\ n \in Nat /\ L \in Seq(Token) /\ lineStart \in Nat /\ begin \in Nat
      /\ lineStart \in 1..begin /\ begin \in 1..(n + 1) /\ c \in begin..(n + 1)
  BY CurrentIs DEF SeqInv, Cursor
<1>2. tokList' = L /\ lineStart' = lineStart /\ Fresh' = Fresh
  BY DEF Next, Fresh
<1>3. CASE Empty
  <2>1. begin' = c /\ exceedEnd' = exceedEnd + 1 /\ taken' = None
    BY <1>3 DEF Next
  <2>2. Ahead = << >>
    BY <1>3, CurrentViews
  <2>3. Ahead' = Ahead /\ Behind' = Behind
    <3>1. Ahead' = ViewOf(L, c, n) /\ Behind' = ViewOf(L, lineStart, c - 1)
      BY <1>2, <2>1 DEF Ahead, Behind
    <3> QED
      BY <3>1, CurrentViews
  <2> QED
    BY <1>2, <2>1, <2>2, <2>3, Mapped DEF Abstract!Next
<1>4. CASE ~Empty
  <2>1. begin' = d /\ exceedEnd' = exceedEnd /\ taken' = L[c].id
    BY <1>4 DEF Next
  <2>2. IsSkip(L, c + 1, d) /\ c \in 1..n
    BY <1>4, TakenIs
  <2>3. /\ MarkAt(L, c) \in MarkedToken /\ ViewOf(L, c + 1, n) \in Seq(MarkedToken)
        /\ Ahead = <<MarkAt(L, c)>> \o ViewOf(L, c + 1, n)
        /\ ViewOf(L, lineStart, c) = Append(Behind, MarkAt(L, c))
    BY <1>4, CurrentViews
  <2> HIDE DEF d, c, L
  <2>4. Ahead' = ViewOf(L, c + 1, n) /\ Behind' = ViewOf(L, lineStart, c)
    <3> DEFINE i == c + 1
    <3>1. i \in 1..(n + 1) /\ lineStart \in 1..i /\ IsSkip(L, i, d) /\ i - 1 = c
      BY <1>1, <2>2
    <3> HIDE DEF i
    <3>2. ViewOf(L, d, n) = ViewOf(L, i, n)
          /\ ViewOf(L, lineStart, d - 1) = ViewOf(L, lineStart, i - 1)
      BY <1>1, <3>1, SkipViews
    <3>3. Ahead' = ViewOf(L, d, n) /\ Behind' = ViewOf(L, lineStart, d - 1)
      BY <1>2, <2>1 DEF Ahead, Behind
    <3> QED
      BY <3>1, <3>2, <3>3 DEF i
  <2>5. Ahead # << >> /\ Head(Ahead) = MarkAt(L, c) /\ Tail(Ahead) = ViewOf(L, c + 1, n)
    BY <2>3, FirstApart
  <2>6. Ahead' = Tail(Ahead) /\ Behind' = Append(Behind, Head(Ahead)) /\ taken' = Head(Ahead).id
    BY <2>1, <2>3, <2>4, <2>5 DEF MarkAt
  <2> QED
    BY <1>2, <2>1, <2>5, <2>6, Mapped DEF Abstract!Next
<1> QED
  BY <1>3, <1>4

\* What changes neither side changes nothing of the stream.
LEMMA Stutters ==
  ASSUME Ahead' = Ahead, Behind' = Behind, tokList' = tokList, exceedEnd' = exceedEnd,
         taken' = taken
  PROVE  UNCHANGED Abstract!vars
<1>1. Fresh' = Fresh
  BY DEF Fresh
<1> QED
  BY <1>1, Mapped DEF Abstract!vars

\* Peek and Peek2 change nothing of the stream.
LEMMA PeekStreams ==
  ASSUME SeqInv, Peek \/ Peek2
  PROVE  UNCHANGED Abstract!vars
<1>1. tokList' = tokList /\ lineStart' = lineStart /\ exceedEnd' = exceedEnd /\ taken' = taken
  BY DEF Peek, Peek2
<1>2. begin' = Current
  <2>1. CASE Peek
    BY <2>1 DEF Peek
  <2>2. CASE Peek2 /\ Empty
    BY <2>2 DEF Peek2
  <2>3. CASE Peek2 /\ ~Empty
    BY <2>3, TakenIs DEF Peek2
  <2> QED
    BY <2>1, <2>2, <2>3
<1>3. Ahead' = ViewOf(tokList, Current, Len(tokList))
      /\ Behind' = ViewOf(tokList, lineStart, Current - 1)
  BY <1>1, <1>2 DEF Ahead, Behind
<1>4. Ahead' = Ahead /\ Behind' = Behind
  BY <1>3, CurrentViews
<1> QED
  BY <1>1, <1>4, Stutters

\* The last element and those before it.
LEMMA LastApart ==
  ASSUME NEW S, NEW t \in Seq(S), NEW x \in S
  PROVE  /\ t \o <<x>> # << >> /\ (t \o <<x>>)[Len(t \o <<x>>)] = x
         /\ SubSeq(t \o <<x>>, 1, Len(t \o <<x>>) - 1) = t
<1> DEFINE one == <<x>>
           c == t \o one
<1>1. one \in Seq(S) /\ Len(one) = 1 /\ one[1] = x
  OBVIOUS
<1> HIDE DEF one
<1>2. /\ c \in Seq(S) /\ Len(c) = Len(t) + 1 /\ Len(t) \in Nat
      /\ \A i \in 1..(Len(t) + 1) : c[i] = IF i <= Len(t) THEN t[i] ELSE one[i - Len(t)]
  BY <1>1, ConcatProperties, LenProperties
<1>3. SubSeq(c, 1, Len(t)) = t
  BY <1>1, ConcatParts
<1> HIDE DEF c
<1>4. c # << >> /\ Len(c) - 1 = Len(t) /\ Len(c) \in 1..(Len(t) + 1) /\ ~(Len(c) <= Len(t))
      /\ Len(c) - Len(t) = 1
  BY <1>2, EmptySeq
<1>5. c[Len(c)] = x
  BY <1>1, <1>2, <1>4
<1> QED
  BY <1>3, <1>4, <1>5 DEF c, one

\* PutBack is PutBack of the stream.
LEMMA PutBackStreams ==
  ASSUME SeqInv, PutBack
  PROVE  Abstract!PutBack \/ UNCHANGED Abstract!vars
<1> DEFINE j == StepBack(begin)
           L == tokList
           n == Len(L)
           m == MarkAt(L, j)
           i == j + 1
<1>1. /\ n \in Nat /\ L \in Seq(Token) /\ lineStart \in Nat /\ begin \in Nat
      /\ lineStart \in 1..begin /\ begin \in 1..(n + 1) /\ exceedEnd \in Nat
  BY CurrentIs DEF SeqInv, Cursor
<1>2. tokList' = L /\ lineStart' = lineStart /\ Fresh' = Fresh /\ taken' = taken
  BY DEF PutBack, Fresh
<1>3. CASE begin = 1
  <2>1. begin' = begin /\ exceedEnd' = exceedEnd
    BY <1>3 DEF PutBack
  <2>2. Ahead' = Ahead /\ Behind' = Behind
    BY <1>2, <2>1 DEF Ahead, Behind
  <2> QED
    BY <1>2, <2>1, <2>2, Stutters
<1>4. CASE begin # 1 /\ exceedEnd > 0
  <2>1. begin' = begin /\ exceedEnd' = exceedEnd - 1
    BY <1>1, <1>4 DEF PutBack
  <2>2. Ahead' = Ahead /\ Behind' = Behind
    BY <1>2, <2>1 DEF Ahead, Behind
  <2> QED
    BY <1>2, <1>4, <2>1, <2>2, Mapped DEF Abstract!PutBack
<1>5. CASE begin # 1 /\ exceedEnd = 0
  <2>1. begin' = j /\ exceedEnd' = exceedEnd
    BY <1>5 DEF PutBack
  <2>2. \E k \in lineStart..(begin - 1) : ~IsNL(k)
    BY <1>1, <1>5 DEF PutBack
  <2>3. j \in lineStart..(begin - 1) /\ IsBack(L, begin, j) /\ ~NLAt(L, j)
    BY <2>2, PutBackIs
  <2>4. j \in 1..n /\ lineStart \in 1..j /\ i \in 1..(n + 1) /\ lineStart \in 1..i
        /\ begin \in i..(n + 1) /\ i - 1 = j
    BY <1>1, <2>3
  <2>5. \A k \in i..(begin - 1) : NLAt(L, k)
    BY <2>3 DEF IsBack
  <2> HIDE DEF j, L
  <2>6. /\ m \in MarkedToken
        /\ ViewOf(L, j + 1, n) \in Seq(MarkedToken)
        /\ ViewOf(L, lineStart, j - 1) \in Seq(MarkedToken)
        /\ ViewOf(L, j, n) = <<m>> \o ViewOf(L, j + 1, n)
        /\ ViewOf(L, lineStart, j) = ViewOf(L, lineStart, j - 1) \o <<m>>
    BY <1>1, <2>3, <2>4, TakeViews
  <2> HIDE DEF i, m
  <2>7. ViewOf(L, begin, n) = ViewOf(L, i, n)
        /\ ViewOf(L, lineStart, begin - 1) = ViewOf(L, lineStart, i - 1)
    BY <1>1, <2>4, <2>5, BlankViews
  <2> DEFINE t == ViewOf(L, lineStart, j - 1)
  <2>8. Behind = t \o <<m>> /\ Ahead = ViewOf(L, j + 1, n)
    BY <2>4, <2>6, <2>7 DEF Behind, Ahead, L, i
  <2>9. Behind' = t /\ Ahead' = <<m>> \o Ahead
    <3>1. Behind' = t /\ Ahead' = ViewOf(L, j, n)
      BY <1>2, <2>1 DEF Behind, Ahead
    <3> QED
      BY <2>6, <2>8, <3>1
  <2> HIDE DEF t
  <2>10. Behind # << >> /\ Behind[Len(Behind)] = m /\ SubSeq(Behind, 1, Len(Behind) - 1) = t
    <3>1. t \in Seq(MarkedToken)
      BY <2>6 DEF t
    <3> QED
      BY <2>6, <2>8, <3>1, LastApart
  <2> QED
    BY <1>2, <1>5, <2>1, <2>9, <2>10, Mapped DEF Abstract!PutBack
<1> QED
  BY <1>1, <1>3, <1>4, <1>5

\* A reset cursor rewinds the stream.
LEMMA ResetStreams ==
  ASSUME SeqInv, NEW mark \in lineStart..(begin - 1), ResetTo(mark)
  PROVE  Abstract!Rewind \/ UNCHANGED Abstract!vars
<1> DEFINE L == tokList
           n == Len(L)
           a == mark - 1
           b == begin - 1
           X == ViewOf(L, lineStart, a)
           Y == ViewOf(L, mark, b)
<1>1. /\ n \in Nat /\ L \in Seq(Token) /\ lineStart \in Nat /\ begin \in Nat
      /\ lineStart \in 1..begin /\ begin \in 1..(n + 1)
  BY CurrentIs DEF SeqInv, Cursor
<1>2. /\ tokList' = L /\ lineStart' = lineStart /\ Fresh' = Fresh /\ taken' = taken
      /\ exceedEnd = 0 /\ exceedEnd' = exceedEnd /\ begin' = mark
  BY DEF ResetTo, Fresh
<1>3. /\ a \in (lineStart - 1)..n /\ b \in a..n /\ lineStart \in 1..(n + 1) /\ a + 1 = mark
      /\ mark \in 1..(n + 1) /\ b \in (mark - 1)..n /\ n \in b..n /\ b + 1 = begin
  BY <1>1
<1> HIDE DEF a, b, L
<1>4. Behind = X \o Y
  <2>1. ViewOf(L, lineStart, b) = ViewOf(L, lineStart, a) \o ViewOf(L, a + 1, b)
    BY <1>1, <1>3, ViewSplit
  <2> QED
    BY <1>3, <2>1 DEF Behind, L, b
<1>5. ViewOf(L, mark, n) = Y \o Ahead
  <2>1. ViewOf(L, mark, n) = ViewOf(L, mark, b) \o ViewOf(L, b + 1, n)
    BY <1>1, <1>3, ViewSplit
  <2> QED
    BY <1>3, <2>1 DEF Ahead, L
<1>6. Behind' = X /\ Ahead' = Y \o Ahead
  <2>1. Behind' = X /\ Ahead' = ViewOf(L, mark, n)
    BY <1>2 DEF Behind, Ahead, a
  <2> QED
    BY <1>5, <2>1
<1>7. X \in Seq(MarkedToken) /\ Y \in Seq(MarkedToken) /\ Ahead \in Seq(MarkedToken)
  BY <1>1, <1>3, ViewTyped, ViewsTyped
<1> HIDE DEF X, Y
<1>8. CASE Y = << >>
  <2>1. Behind' = Behind /\ Ahead' = Ahead
    BY <1>4, <1>6, <1>7, <1>8, ConcatEmptySeq
  <2> QED
    BY <1>2, <2>1, Stutters DEF L
<1>9. CASE Y # << >>
  <2>1. /\ SubSeq(Behind, 1, Len(X)) = X /\ SubSeq(Behind, Len(X) + 1, Len(Behind)) = Y
        /\ Len(Behind) = Len(X) + Len(Y) /\ Len(X) \in Nat /\ Len(Y) \in Nat
    BY <1>4, <1>7, ConcatParts
  <2>2. Len(Y) # 0
    BY <1>7, <1>9, EmptySeq
  <2>3. Len(X) \in 0..(Len(Behind) - 1)
    BY <2>1, <2>2
  <2>4. \E k \in 0..(Len(Behind) - 1) :
          /\ Behind' = SubSeq(Behind, 1, k)
          /\ Ahead' = SubSeq(Behind, k + 1, Len(Behind)) \o Ahead
    BY <1>6, <2>1, <2>3
  <2> QED
    BY <1>2, <2>4, Mapped DEF Abstract!Rewind
<1> QED
  BY <1>8, <1>9

-----------------------------------------------------------------------------
(* Between line ends the stream is the list.                               *)
LEMMA ViewSolid ==
  ASSUME NEW L \in Seq(Token), NEW i \in 1..(Len(L) + 1), NEW j \in (i - 1)..Len(L),
         \A k \in i..j : ~NLAt(L, k)
  PROVE  /\ ViewOf(L, i, j) \in Seq(MarkedToken)
         /\ Len(ViewOf(L, i, j)) = j - i + 1
         /\ \A k \in 1..(j - i + 1) : ViewOf(L, i, j)[k] = MarkAt(L, i + k - 1)
<1> DEFINE p == MarksOf(L)
           q == j - i + 1
           s == SubSeq(p, i, j)
           u == [k \in 1..q |-> MarkAt(L, i + k - 1)]
           v == Singles(u)
<1>1. /\ p \in Seq(Seq(MarkedToken)) /\ Len(p) = Len(L) /\ Len(L) \in Nat
      /\ \A k \in 1..Len(L) : p[k] = IF NLAt(L, k) THEN << >> ELSE <<MarkAt(L, k)>>
      /\ \A k \in 1..Len(L) : ~NLAt(L, k) => MarkAt(L, k) \in MarkedToken
  BY MarksTyped
<1> HIDE DEF p
<1>2. /\ q \in Nat /\ i \in 1..(Len(p) + 1) /\ j \in (i - 1)..Len(p)
      /\ \A k \in 1..q : i + k - 1 \in i..j /\ i + k - 1 \in 1..Len(L)
  BY <1>1
<1>3. s \in Seq(Seq(MarkedToken)) /\ Len(s) = q /\ \A k \in 1..q : s[k] = p[i + k - 1]
  BY <1>1, <1>2, PartTyped
<1>4. \A k \in 1..q : MarkAt(L, i + k - 1) \in MarkedToken /\ p[i + k - 1] = <<MarkAt(L, i + k - 1)>>
  BY <1>1, <1>2
<1> HIDE DEF q
<1>5. u \in Seq(MarkedToken) /\ DOMAIN u = 1..q /\ \A k \in 1..q : u[k] = MarkAt(L, i + k - 1)
  <2>1. q \in Nat /\ \A k \in 1..q : MarkAt(L, i + k - 1) \in MarkedToken
    BY <1>2, <1>4
  <2> HIDE DEF s, v
  <2>2. u \in Seq(MarkedToken)
    BY <2>1, IsASeq
  <2> QED
    BY <2>2
<1>6. Len(u) = q
  BY <1>2, <1>5, LenProperties
<1> HIDE DEF u, s
<1>7. v \in Seq(Seq(MarkedToken)) /\ FlattenSeq(v) = u
  BY <1>5, FlattenSingles
<1>8. v = [k \in 1..q |-> <<u[k]>>]
  BY <1>5 DEF Singles
<1> HIDE DEF v
<1>9. Len(v) = q
  BY <1>2, <1>7, <1>8, LenProperties
<1>10. ASSUME NEW k \in 1..Len(s) PROVE s[k] = v[k]
  <2>1. k \in 1..q
    BY <1>3
  <2>2. s[k] = <<MarkAt(L, i + k - 1)>>
    BY <1>3, <1>4, <2>1
  <2>3. v[k] = <<u[k]>> /\ u[k] = MarkAt(L, i + k - 1)
    BY <1>5, <1>8, <2>1
  <2> QED
    BY <2>2, <2>3
<1>11. s = v
  BY <1>3, <1>7, <1>9, <1>10, SeqEqual
<1>12. ViewOf(L, i, j) = u
  BY <1>7, <1>11 DEF ViewOf, Part, s, p
<1> QED
  BY <1>5, <1>6, <1>12 DEF q

(* After a line end, the next token begins a line.                         *)
LEMMA AfterLineEnd ==
  ASSUME NEW L \in Seq(Token), NEW e \in 1..Len(L), NLAt(L, e)
  PROVE  /\ ViewOf(L, e, Len(L)) \in Seq(MarkedToken)
         /\ ViewOf(L, e, Len(L)) # << >> => ViewOf(L, e, Len(L))[1].bol
<1> DEFINE n == Len(L)
           d == SkipFrom(L, e)
<1>1. /\ n \in Nat /\ e \in 1..(n + 1) /\ n \in (e - 1)..n
  BY LenProperties
<1>2. ViewOf(L, e, n) \in Seq(MarkedToken)
  BY <1>1, ViewTyped
<1>3. IsSkip(L, e, d)
  BY <1>1, SkipIs
<1> HIDE DEF d
<1>4. d \in e..(n + 1) /\ (\A k \in e..(d - 1) : NLAt(L, k)) /\ (d <= n => ~NLAt(L, d))
  BY <1>3 DEF IsSkip
<1>5. e \in 1..e /\ ViewOf(L, d, n) = ViewOf(L, e, n)
  BY <1>1, <1>3, SkipViews
<1>6. CASE d = n + 1
  <2>1. d \in Int /\ n \in Int /\ n < d
    BY <1>1, <1>6
  <2>2. ViewOf(L, d, n) = << >>
    BY <2>1, ViewEmpty
  <2> QED
    BY <1>2, <1>5, <2>2
<1>7. CASE d # n + 1
  <2>1. d \in 1..n /\ ~NLAt(L, d) /\ d \in 1..d
    BY <1>1, <1>4, <1>7
  <2>2. d # e
    BY <2>1
  <2>3. d - 1 \in e..(d - 1)
    BY <1>1, <1>4, <2>2
  <2>4. BolAt(L, d)
    BY <1>4, <2>3 DEF BolAt
  <2>5. /\ MarkAt(L, d) \in MarkedToken /\ ViewOf(L, d + 1, n) \in Seq(MarkedToken)
        /\ ViewOf(L, d, n) = <<MarkAt(L, d)>> \o ViewOf(L, d + 1, n)
    BY <2>1, TakeViews
  <2>6. ViewOf(L, d, n)[1] = MarkAt(L, d)
    BY <2>5, FirstApart
  <2>7. MarkAt(L, d).bol
    BY <2>4 DEF MarkAt
  <2> QED
    BY <1>2, <1>5, <2>6, <2>7
<1> QED
  BY <1>6, <1>7

-----------------------------------------------------------------------------
LineLen(a) ==
  CHOOSE n \in 0..Len(a) :
    /\ \A i \in 1..n : ~a[i].bol
    /\ n < Len(a) => a[n + 1].bol

\* The line ends where the first marked token is.
LEMMA LineLenIs ==
  ASSUME NEW S, NEW line \in Seq(S), NEW rest \in Seq(S),
         \A i \in 1..Len(line) : ~line[i].bol, rest # << >> => rest[1].bol
  PROVE  LineLen(line \o rest) = Len(line)
<1> DEFINE a == line \o rest
           q == Len(line)
           Fits(n) == /\ \A i \in 1..n : ~a[i].bol
                      /\ n < Len(a) => a[n + 1].bol
<1>1. /\ a \in Seq(S) /\ Len(a) = q + Len(rest) /\ q \in Nat /\ Len(rest) \in Nat
      /\ \A i \in 1..(q + Len(rest)) : a[i] = IF i <= q THEN line[i] ELSE rest[i - q]
  BY ConcatProperties, LenProperties
<1> HIDE DEF a
<1>2. \A i \in 1..q : ~a[i].bol
  <2>1. ASSUME NEW i \in 1..q PROVE ~a[i].bol
    <3>1. i \in 1..(q + Len(rest)) /\ i <= q
      BY <1>1
    <3>2. a[i] = line[i]
      BY <1>1, <3>1
    <3> QED
      BY <3>2
  <2> QED
    BY <2>1
<1>3. q < Len(a) => a[q + 1].bol
  <2> SUFFICES ASSUME q < Len(a) PROVE a[q + 1].bol
    OBVIOUS
  <2> DEFINE k == q + 1
  <2>1. k \in 1..(q + Len(rest)) /\ ~(k <= q) /\ k - q = 1
    BY <1>1
  <2> HIDE DEF k
  <2>2. a[k] = rest[1]
    BY <1>1, <2>1
  <2>3. rest # << >>
    BY <1>1, EmptySeq
  <2> QED
    BY <2>2, <2>3 DEF k
<1>4. q \in 0..Len(a) /\ Fits(q)
  BY <1>1, <1>2, <1>3
<1>5. ASSUME NEW n \in 0..Len(a), Fits(n)
      PROVE  n = q
  <2>1. CASE n < q
    <3>1. n < Len(a) /\ n + 1 \in 1..q
      BY <1>1, <2>1
    <3> QED
      BY <1>2, <1>5, <3>1
  <2>2. CASE q < n
    <3>1. q < Len(a) /\ q + 1 \in 1..n
      BY <1>1, <2>2
    <3> QED
      BY <1>3, <1>5, <3>1
  <2> QED
    BY <1>1, <2>1, <2>2
<1>6. LineLen(a) = CHOOSE n \in 0..Len(a) : Fits(n)
  BY DEF LineLen
<1> HIDE DEF Fits
<1>7. LineLen(a) \in 0..Len(a) /\ Fits(LineLen(a))
  BY <1>4, <1>6, Zenon
<1>8. LineLen(a) = q
  BY <1>5, <1>7
<1> QED
  BY <1>8 DEF a

(* The rest of a directive's line, and what is after it.                   *)
LEMMA LineViews ==
  ASSUME SeqInv, InDirective
  PROVE  /\ ViewOf(tokList, LineEnd, Len(tokList)) \in Seq(MarkedToken)
         /\ Ahead # << >> /\ ~Head(Ahead).bol
         /\ SubSeq(Ahead, LineLen(Ahead) + 1, Len(Ahead))
              = ViewOf(tokList, LineEnd, Len(tokList))
<1> DEFINE L == tokList
           n == Len(L)
           e == LineEnd
           b == begin
           d == e - 1
           line == ViewOf(L, b, d)
           rest == ViewOf(L, e, n)
<1>1. /\ n \in Nat /\ L \in Seq(Token) /\ lineStart \in Nat /\ b \in Nat /\ lineStart \in 1..b
      /\ LinesInFile(L, lineStart)
  BY CurrentIs DEF SeqInv, Cursor
<1>2. /\ b \in 2..n /\ ~NLAt(L, b - 1) /\ L[b - 1].file = L[b].file
      /\ e \in (b + 1)..n /\ NLAt(L, e) /\ \A k \in b..(e - 1) : ~NLAt(L, k)
  BY LineIs
<1> HIDE DEF L, e, b
<1>3. /\ d \in (b - 1)..n /\ b \in 1..(n + 1) /\ n \in d..n /\ d + 1 = e /\ e \in 1..n
      /\ d - b + 1 \in Nat \ {0} /\ \A k \in b..d : ~NLAt(L, k)
  BY <1>1, <1>2
<1>4. ASSUME NEW k \in b..d PROVE ~BolAt(L, k)
  <2>1. k # 1
    BY <1>2
  <2>2. CASE k = b
    BY <1>2, <2>1, <2>2 DEF BolAt
  <2>3. CASE k # b
    <3>1. k - 1 \in b..(e - 1) /\ k - 1 \in lineStart..(n - 1) /\ (k - 1) + 1 = k
      BY <1>1, <1>2, <2>3
    <3>2. ~NLAt(L, k - 1)
      BY <1>2, <3>1
    <3>3. L[k - 1].file = L[(k - 1) + 1].file
      BY <1>1, <3>1, <3>2 DEF LinesInFile
    <3> QED
      BY <2>1, <3>1, <3>2, <3>3 DEF BolAt
  <2> QED
    BY <2>2, <2>3
<1>5. Ahead = line \o rest
  <2>1. ViewOf(L, b, n) = ViewOf(L, b, d) \o ViewOf(L, d + 1, n)
    BY <1>1, <1>3, ViewSplit
  <2> QED
    BY <1>3, <2>1 DEF Ahead, L, b
<1>6. /\ line \in Seq(MarkedToken) /\ Len(line) = d - b + 1
      /\ \A k \in 1..(d - b + 1) : line[k] = MarkAt(L, b + k - 1)
  BY <1>1, <1>3, ViewSolid
<1>7. rest \in Seq(MarkedToken) /\ (rest # << >> => rest[1].bol)
  BY <1>1, <1>2, <1>3, AfterLineEnd
<1> HIDE DEF d, line, rest
<1>8. ASSUME NEW k \in 1..Len(line) PROVE ~line[k].bol
  <2>1. k \in 1..(d - b + 1) /\ b + k - 1 \in b..d
    BY <1>1, <1>3, <1>6
  <2>2. line[k] = MarkAt(L, b + k - 1) /\ ~BolAt(L, b + k - 1)
    BY <1>4, <1>6, <2>1
  <2> QED
    BY <2>2 DEF MarkAt
<1>9. LineLen(Ahead) = Len(line)
  BY <1>5, <1>6, <1>7, <1>8, LineLenIs
<1>10. SubSeq(Ahead, Len(line) + 1, Len(Ahead)) = rest
  <2>1. SubSeq(line \o rest, Len(line) + 1, Len(line \o rest)) = rest
    <3>1. line \in Seq(MarkedToken) /\ rest \in Seq(MarkedToken)
      BY <1>6, <1>7
    <3> QED
      BY <3>1, ConcatParts, SMT
  <2> QED
    BY <1>5, <2>1
<1>11. Ahead # << >> /\ ~Head(Ahead).bol
  <2>1. /\ Ahead \in Seq(MarkedToken) /\ Len(Ahead) = Len(line) + Len(rest)
        /\ Len(line) \in Nat \ {0} /\ Len(rest) \in Nat
        /\ \A k \in 1..(Len(line) + Len(rest)) :
             Ahead[k] = IF k <= Len(line) THEN line[k] ELSE rest[k - Len(line)]
    BY <1>3, <1>5, <1>6, <1>7, ConcatProperties, LenProperties
  <2>2. Ahead[1] = line[1] /\ 1 \in 1..Len(line) /\ Len(Ahead) # 0
    BY <2>1
  <2>3. Ahead # << >>
    BY <2>1, <2>2, EmptySeq
  <2>4. Head(Ahead) = Ahead[1]
    BY <2>1, <2>3, HeadTailProperties
  <2> QED
    BY <1>8, <2>2, <2>3, <2>4
<1> QED
  BY <1>7, <1>9, <1>10, <1>11 DEF rest, L, e

\* GetLine takes the rest of the line.
LEMMA GetLineStreams ==
  ASSUME SeqInv, GetLine
  PROVE  Abstract!TakeLine(<< >>)
<1> DEFINE e == LineEnd
           rest == ViewOf(tokList, e, Len(tokList))
<1>1. /\ tokList' = tokList /\ lineStart' = e /\ begin' = e /\ exceedEnd' = exceedEnd
      /\ taken' = taken /\ Fresh' = Fresh
  BY DEF GetLine, Fresh
<1>2. /\ rest \in Seq(MarkedToken) /\ Ahead # << >> /\ ~Head(Ahead).bol
      /\ SubSeq(Ahead, LineLen(Ahead) + 1, Len(Ahead)) = rest
  BY LineViews DEF GetLine
<1>3. e \in Int
  <2>1. e \in (begin + 1)..Len(tokList)
    BY LineIs DEF GetLine
  <2> QED
    BY <2>1
<1> HIDE DEF e
<1>4. Behind' = << >> /\ Ahead' = rest
  <2>1. Behind' = ViewOf(tokList, e, e - 1) /\ Ahead' = rest
    BY <1>1 DEF Behind, Ahead
  <2>2. ViewOf(tokList, e, e - 1) = << >>
    <3> DEFINE f == e - 1
    <3>1. f \in Int /\ f < e
      BY <1>3
    <3> HIDE DEF f
    <3>2. ViewOf(tokList, e, f) = << >>
      BY <1>3, <3>1, ViewEmpty
    <3> QED
      BY <3>2 DEF f
  <2> QED
    BY <2>1, <2>2
<1> HIDE DEF rest
<1>5. << >> \o rest = rest
  BY <1>2, ConcatEmptySeq
<1>6. Abstract!LineLength = LineLen(Ahead)
  <2>1. Abstract!LineLength = LineLen(View(begin, Len(tokList)))
    BY DEF Abstract!LineLength, LineLen
  <2> QED
    BY <2>1, Mapped
<1> QED
  BY <1>1, <1>2, <1>4, <1>5, <1>6, Mapped DEF Abstract!TakeLine

-----------------------------------------------------------------------------
\* The marks of L from i to j are those of R, d further on.
SameMarks(L, i, j, R, d) ==
  \A k \in i..j : R[k + d] = L[k] /\ (NLAt(L, k) \/ BolAt(R, k + d) = BolAt(L, k))

\* Tokens of the same marks further on give the same view.
LEMMA ViewShift ==
  ASSUME NEW L \in Seq(Token), NEW R \in Seq(Token), NEW i \in 1..(Len(L) + 1),
         NEW j \in (i - 1)..Len(L), NEW d \in Nat, NEW a, NEW b, a = i + d, b = j + d,
         b <= Len(R), SameMarks(L, i, j, R, d)
  PROVE  ViewOf(R, a, b) = ViewOf(L, i, j)
<1> DEFINE p == MarksOf(L)
           q == MarksOf(R)
<1>1. /\ p \in Seq(Seq(MarkedToken)) /\ Len(p) = Len(L) /\ Len(L) \in Nat
      /\ \A k \in 1..Len(L) : p[k] = IF NLAt(L, k) THEN << >> ELSE <<MarkAt(L, k)>>
  BY MarksTyped
<1>2. /\ q \in Seq(Seq(MarkedToken)) /\ Len(q) = Len(R) /\ Len(R) \in Nat
      /\ \A k \in 1..Len(R) : q[k] = IF NLAt(R, k) THEN << >> ELSE <<MarkAt(R, k)>>
  BY MarksTyped
<1> HIDE DEF p, q
<1>3. ASSUME NEW k \in i..j PROVE q[k + d] = p[k]
  <2>1. k \in 1..Len(L) /\ k + d \in 1..Len(R)
    BY <1>1, <1>2, SMTT(30)
  <2>2. R[k + d] = L[k] /\ (NLAt(L, k) \/ BolAt(R, k + d) = BolAt(L, k))
    BY DEF SameMarks
  <2>3. NLAt(R, k + d) <=> NLAt(L, k)
    BY <2>2 DEF NLAt
  <2>4. ~NLAt(L, k) => MarkAt(R, k + d) = MarkAt(L, k)
    BY <2>2 DEF MarkAt
  <2>5. p[k] = IF NLAt(L, k) THEN << >> ELSE <<MarkAt(L, k)>>
    BY <1>1, <2>1
  <2>6. q[k + d] = IF NLAt(R, k + d) THEN << >> ELSE <<MarkAt(R, k + d)>>
    BY <1>2, <2>1
  <2>7. CASE NLAt(L, k)
    BY <2>3, <2>5, <2>6, <2>7
  <2>8. CASE ~NLAt(L, k)
    BY <2>3, <2>4, <2>5, <2>6, <2>8
  <2> QED
    BY <2>7, <2>8
<1>4. SameParts(p, i, j, q, d)
  BY <1>3 DEF SameParts
<1>5. /\ p \in Seq(Seq(MarkedToken)) /\ q \in Seq(Seq(MarkedToken))
      /\ i \in 1..(Len(p) + 1) /\ j \in (i - 1)..Len(p) /\ d \in Nat
      /\ a = i + d /\ b = j + d /\ b <= Len(q)
  BY <1>1, <1>2
<1>6. Part(q, a, b) = Part(p, i, j)
  BY <1>4, <1>5, PartShift
<1> QED
  BY <1>6 DEF ViewOf, p, q

(* A list the same up to position j.                                       *)
LEMMA ViewFront ==
  ASSUME NEW L \in Seq(Token), NEW R \in Seq(Token), NEW i \in 1..(Len(L) + 1),
         NEW j \in (i - 1)..Len(L), j <= Len(R), \A k \in 1..j : R[k] = L[k]
  PROVE  ViewOf(R, i, j) = ViewOf(L, i, j)
<1>1. Len(L) \in Nat /\ i \in Nat /\ j \in Int /\ 0 \in Nat
  BY LenProperties
<1>2. i = i + 0 /\ j = j + 0 /\ \A k \in i..j : k + 0 = k
  BY <1>1
<1>3. ASSUME NEW k \in i..j PROVE R[k] = L[k] /\ BolAt(R, k) = BolAt(L, k)
  <2>1. k \in 1..j /\ (k # 1 => k - 1 \in 1..j)
    BY <1>1
  <2>2. R[k] = L[k] /\ (k # 1 => R[k - 1] = L[k - 1])
    BY <2>1
  <2> QED
    BY <2>2 DEF BolAt, NLAt
<1> DEFINE z == 0
<1>4. SameMarks(L, i, j, R, z)
  BY <1>2, <1>3 DEF SameMarks
<1>5. z \in Nat /\ i = i + z /\ j = j + z
  BY <1>1
<1> HIDE DEF z
<1> QED
  BY <1>4, <1>5, ViewShift

-----------------------------------------------------------------------------
Unmarked(ids) == [k \in DOMAIN ids |-> [id |-> ids[k], bol |-> FALSE]]

(* Where an expansion goes, no mark but its own is made or lost.           *)
LEMMA ExpansionViews ==
  ASSUME NEW L \in Seq(Token), NEW c \in 1..Len(L), NEW s \in 1..c, ~NLAt(L, c),
         NEW ids \in Seq(Ids), NEW M \in Seq(Token), NEW R, Inserted(L, c + 1, M, R),
         Len(M) = Len(ids), \A k \in 1..Len(M) : M[k].id = ids[k] /\ M[k].file = L[c].file
  PROVE  /\ ViewOf(R, s, c) = ViewOf(L, s, c)
         /\ ViewOf(R, c + 1, Len(R)) = Unmarked(ids) \o ViewOf(L, c + 1, Len(L))
<1> DEFINE n == Len(L)
           q == Len(M)
           f == L[c].file
           i == c + 1
           d == c + q
           e == d + 1
           t == n + q
           E == [k \in DOMAIN ids |-> [id |-> ids[k], bol |-> FALSE]]
<1>1. /\ n \in Nat /\ q \in Nat /\ R \in Seq(Token) /\ Len(R) = t
      /\ \A k \in 1..c : R[k] = L[k]
      /\ \A k \in 1..q : R[c + k] = M[k]
      /\ \A k \in i..n : R[k + q] = L[k]
  <2>1. (c + 1) - 1 = c
    OBVIOUS
  <2> QED
    BY <2>1, LenProperties DEF Inserted
<1>2. \A k \in 1..q : ids[k] \in Ids /\ M[k].id = ids[k] /\ M[k].file = f /\ ~NLAt(M, k)
  <2>1. \A k \in 1..q : ids[k] \in Ids
    BY ElementOfSeq
  <2> QED
    BY <2>1, TokensAssumption DEF NLAt
<1> HIDE DEF q, n, f
<1>3. c \in 1..n /\ f = L[c].file
  BY DEF n, f

\* The token before position i + k, for k up to q, is of the name's file and no line end.
<1>4. ASSUME NEW k \in c..d PROVE ~NLAt(R, k) /\ R[k].file = f
  <2>1. CASE k = c
    <3>1. R[k] = L[c]
      BY <1>1, <1>3, <2>1
    <3> QED
      BY <1>3, <3>1 DEF NLAt
  <2>2. CASE k # c
    <3> DEFINE l == k - c
    <3>1. l \in 1..q /\ c + l = k
      BY <1>1, <1>3, <2>2
    <3> HIDE DEF l
    <3>2. R[k] = M[l]
      BY <1>1, <3>1
    <3> QED
      BY <1>2, <3>1, <3>2 DEF NLAt
  <2> QED
    BY <2>1, <2>2
<1>5. ViewOf(R, s, c) = ViewOf(L, s, c)
  <2>1. c <= Len(R) /\ s \in 1..(n + 1) /\ c \in (s - 1)..n
    BY <1>1, <1>3
  <2> QED
    BY <1>1, <2>1, ViewFront DEF n
<1>6. ViewOf(R, i, t) = ViewOf(R, i, d) \o ViewOf(R, e, t)
  <2>1. i \in 1..(Len(R) + 1) /\ d \in (i - 1)..Len(R) /\ t \in d..Len(R)
    BY <1>1, <1>3
  <2> HIDE DEF i, d, t
  <2> QED
    BY <1>1, <2>1, ViewSplit
<1>7. ViewOf(R, i, d) = E
  <2>0. n \in Nat /\ q \in Nat /\ c \in 1..n /\ Len(R) = n + q
    BY <1>1, <1>3
  <2>1. /\ i \in 1..(Len(R) + 1) /\ d \in (i - 1)..Len(R) /\ d - i + 1 = q
        /\ \A k \in i..d : k \in c..d
    <3> HIDE DEF E
    <3> QED
      BY <2>0
  <2> DEFINE v == ViewOf(R, i, d)
  <2> HIDE DEF i, d
  <2>2. /\ v \in Seq(MarkedToken) /\ Len(v) = q
        /\ \A k \in 1..q : v[k] = MarkAt(R, i + k - 1)
    <3>1. \A k \in i..d : ~NLAt(R, k)
      BY <1>4, <2>1
    <3>2. /\ v \in Seq(MarkedToken) /\ Len(v) = d - i + 1
          /\ \A k \in 1..(d - i + 1) : v[k] = MarkAt(R, i + k - 1)
      BY <1>1, <2>1, <3>1, ViewSolid
    <3> QED
      BY <2>1, <3>2
  <2> HIDE DEF v
  <2>3. ASSUME NEW k \in 1..q PROVE MarkAt(R, i + k - 1) = [id |-> ids[k], bol |-> FALSE]
    <3> DEFINE l == c + k
    <3>1. /\ i + k - 1 = l /\ l \in c..d /\ l - 1 \in c..d /\ l # 1
      <4> HIDE DEF E
      <4> QED
        BY <2>0 DEF i, d
    <3>2. R[l].id = ids[k]
      BY <1>1, <1>2
    <3> HIDE DEF l, E
    <3>3. BolAt(R, l) = FALSE
      <4>1. /\ R[l].file = f /\ R[l - 1].file = f /\ ~NLAt(R, l - 1)
        BY <1>4, <3>1
      <4> QED
        BY <3>1, <4>1 DEF BolAt
    <3>4. MarkAt(R, l) = [id |-> ids[k], bol |-> FALSE]
      BY <3>2, <3>3 DEF MarkAt
    <3>5. MarkAt(R, i + k - 1) = MarkAt(R, l)
      BY <3>1, Zenon
    <3> QED
      BY <3>4, <3>5, Zenon
  <2>4. E \in Seq(MarkedToken) /\ Len(E) = q /\ \A k \in 1..q : E[k] = [id |-> ids[k], bol |-> FALSE]
    <3>1. DOMAIN ids = 1..q
      BY LenProperties DEF q
    <3>2. E = [k \in 1..q |-> [id |-> ids[k], bol |-> FALSE]]
      BY <3>1
    <3>3. \A k \in 1..q : [id |-> ids[k], bol |-> FALSE] \in MarkedToken
      BY <1>2 DEF MarkedToken
    <3>4. E \in Seq(MarkedToken)
      <4> HIDE DEF E
      <4>1. [k \in 1..q |-> [id |-> ids[k], bol |-> FALSE]] \in Seq(MarkedToken)
        BY <1>1, <3>3, IsASeq
      <4> QED
        BY <3>2, <4>1
    <3>5. Len(E) = q
      BY <1>1, <3>2, <3>4, LenProperties
    <3> QED
      BY <3>2, <3>4, <3>5
  <2> HIDE DEF E
  <2>5. ASSUME NEW k \in 1..Len(v) PROVE v[k] = E[k]
    <3>1. k \in 1..q
      BY <2>2
    <3> QED
      BY <2>2, <2>3, <2>4, <3>1
  <2>6. v = E
    <3>1. Len(v) = Len(E)
      BY <2>2, <2>4
    <3> QED
      BY <2>2, <2>4, <2>5, <3>1, SeqEqual
  <2> QED
    BY <2>6 DEF v
<1>8. ViewOf(R, e, t) = ViewOf(L, i, n)
  <2>1. ASSUME NEW k \in i..n
        PROVE  R[k + q] = L[k] /\ (NLAt(L, k) \/ BolAt(R, k + q) = BolAt(L, k))
    <3>1. R[k + q] = L[k] /\ k # 1 /\ k + q # 1
      BY <1>1, <1>3
    <3>2. CASE k = i
      <4>1. k - 1 = c /\ (k + q) - 1 = d /\ c \in c..d /\ d \in c..d
        BY <1>1, <1>3, <3>2
      <4>2. ~NLAt(R, d) /\ R[d].file = f
        BY <1>4, <4>1
      <4>3. BolAt(R, k + q) = (f # L[k].file)
        BY <3>1, <4>1, <4>2 DEF BolAt
      <4>4. BolAt(L, k) = (f # L[k].file)
        BY <1>3, <3>1, <4>1 DEF BolAt
      <4> QED
        BY <3>1, <4>3, <4>4
    <3>3. CASE k # i
      <4> DEFINE l == k - 1
      <4>1. l \in i..n /\ l + q = (k + q) - 1
        BY <1>1, <1>3, <3>3
      <4> HIDE DEF l
      <4>2. R[l + q] = L[l]
        BY <1>1, <4>1
      <4>3. R[(k + q) - 1] = L[k - 1]
        BY <4>1, <4>2 DEF l
      <4> QED
        BY <3>1, <4>3 DEF BolAt, NLAt
    <3> QED
      BY <3>2, <3>3
  <2>2. SameMarks(L, i, n, R, q)
    BY <2>1 DEF SameMarks
  <2>3. /\ i \in 1..(Len(L) + 1) /\ n \in (i - 1)..Len(L) /\ e = i + q /\ t = n + q
        /\ t <= Len(R)
    BY <1>1, <1>3 DEF n
  <2> HIDE DEF i, e, t
  <2> QED
    BY <1>1, <2>2, <2>3, ViewShift
<1> QED
  BY <1>1, <1>5, <1>6, <1>7, <1>8 DEF n, Unmarked

-----------------------------------------------------------------------------
(* Tokens put in before the end of a list leave its last token the last,   *)
(* or end with one that is no line end after one that was none.            *)
LEMMA FreshInserted ==
  ASSUME NEW L \in Seq(Token), NEW M \in Seq(Token), NEW i \in 2..(Len(L) + 1), NEW R,
         Inserted(L, i, M, R),
         i <= Len(L) \/ (~NLAt(L, Len(L)) /\ \A k \in 1..Len(M) : ~NLAt(M, k))
  PROVE  L # << >> /\ R # << >> /\ (NLAt(R, Len(R)) <=> NLAt(L, Len(L)))
<1> DEFINE n == Len(L)
           q == Len(M)
<1>1. n \in Nat /\ q \in Nat /\ R \in Seq(Token) /\ Len(R) = n + q /\ i \in 2..(n + 1)
  BY LenProperties DEF Inserted
<1>2. n # 0 /\ Len(R) # 0
  BY <1>1
<1>3. L # << >> /\ R # << >>
  BY <1>2, EmptySeq
<1>4. CASE i <= n
  <2>1. n \in i..n
    BY <1>1, <1>4
  <2>2. R[n + q] = L[n]
    BY <2>1 DEF Inserted
  <2> QED
    BY <1>1, <1>3, <2>2 DEF NLAt
<1>5. CASE ~(i <= n)
  <2>1. i = n + 1 /\ ~NLAt(L, n) /\ \A k \in 1..q : ~NLAt(M, k)
    BY <1>1, <1>5
  <2>2. CASE q = 0
    <3>1. n \in 1..(i - 1) /\ Len(R) = n
      BY <1>1, <1>2, <2>1, <2>2
    <3>2. R[n] = L[n]
      BY <3>1 DEF Inserted
    <3> QED
      BY <1>3, <3>1, <3>2 DEF NLAt
  <2>3. CASE q # 0
    <3>1. q \in 1..q /\ i - 1 + q = Len(R)
      BY <1>1, <2>1, <2>3
    <3>2. R[Len(R)] = M[q]
      BY <3>1 DEF Inserted
    <3>3. ~NLAt(M, q)
      BY <2>1, <3>1
    <3> QED
      BY <1>3, <2>1, <3>2, <3>3 DEF NLAt
  <2> QED
    BY <2>2, <2>3
<1> QED
  BY <1>4, <1>5

\* The expansion of a macro replaces its name in the stream.
LEMMA ExpandStreams ==
  ASSUME SeqInv, NEW ids \in Expansions, ExpandMacro(ids)
  PROVE  Abstract!Replace(ids)
<1> DEFINE c == Current
           L == tokList
           n == Len(L)
           m == MarkAt(L, c)
           M == InFile(ids, L[c].file)
           i == c + 1
           R == InsertIn(L, i, M)
           E == Unmarked(ids)
           rest == ViewOf(L, i, n)
<1>1. /\ n \in Nat /\ begin \in Nat /\ lineStart \in Nat /\ L \in Seq(Token)
      /\ begin \in 1..(n + 1) /\ lineStart \in 1..begin
  BY CurrentIs DEF SeqInv, Cursor
<1>2. ~Empty
  BY DEF ExpandMacro
<1>3. /\ c \in begin..n /\ c \in 1..n /\ ~NLAt(L, c) /\ L[c].file \in Nat
      /\ GetInsertFrontPos(SkipNewLines(c + 1)) = c + 1
  BY <1>2, TakenIs
<1>4. /\ tokList' = R /\ begin' = i /\ lineStart' = lineStart /\ exceedEnd' = exceedEnd
      /\ taken' = L[c].id
  BY <1>3 DEF ExpandMacro, InsertSeqAt, InsertIn
<1>5. ids \in Seq(Ids) /\ ids \in Seq(Ids \cup {NL})
  BY TextsAssumption, SeqMonotonic
<1>6. /\ M \in Seq(Token) /\ Len(M) = Len(ids)
      /\ \A k \in 1..Len(M) : M[k].id = ids[k] /\ M[k].file = L[c].file
  <2> DEFINE f == L[c].file
  <2>1. f \in Nat
    BY <1>3
  <2> HIDE DEF f
  <2>2. /\ InFile(ids, f) \in Seq(Token) /\ Len(InFile(ids, f)) = Len(ids)
        /\ \A k \in 1..Len(ids) : InFile(ids, f)[k].id = ids[k] /\ InFile(ids, f)[k].file = f
    BY <1>5, <2>1, InFileIs
  <2> QED
    BY <2>2 DEF f
<1>7. /\ m \in MarkedToken /\ rest \in Seq(MarkedToken) /\ Ahead = <<m>> \o rest
      /\ ViewOf(L, lineStart, c) = Append(Behind, m)
  BY <1>2, CurrentViews
<1> HIDE DEF M, c, L, m
<1>8. i \in 2..(n + 1) /\ i \in 1..(n + 1) /\ lineStart \in 1..c /\ i - 1 = c
  BY <1>1, <1>3
<1> HIDE DEF i
<1>9. Inserted(L, i, M, R)
  BY <1>1, <1>6, <1>8, InsertedBy
<1> HIDE DEF R
<1>10. /\ ViewOf(R, lineStart, c) = ViewOf(L, lineStart, c)
       /\ ViewOf(R, i, Len(R)) = E \o rest
  <2>1. /\ Inserted(L, c + 1, M, R) /\ L \in Seq(Token) /\ c \in 1..Len(L)
        /\ lineStart \in 1..c /\ ~NLAt(L, c) /\ ids \in Seq(Ids) /\ M \in Seq(Token)
        /\ Len(M) = Len(ids)
    BY <1>1, <1>3, <1>5, <1>6, <1>8, <1>9 DEF i
  <2>2. \A k \in 1..Len(M) : M[k].id = ids[k] /\ M[k].file = L[c].file
    BY <1>6
  <2> HIDE DEF E, rest, n
  <2>3. /\ ViewOf(R, lineStart, c) = ViewOf(L, lineStart, c)
        /\ ViewOf(R, c + 1, Len(R)) = Unmarked(ids) \o ViewOf(L, c + 1, Len(L))
    BY <2>1, <2>2, ExpansionViews
  <2> QED
    BY <2>3 DEF i, E, rest, n
<1> HIDE DEF E, rest
<1>11. Behind' = Append(Behind, m) /\ Ahead' = E \o rest
  <2>1. Behind' = ViewOf(R, lineStart, i - 1) /\ Ahead' = ViewOf(R, i, Len(R))
    BY <1>4 DEF Behind, Ahead
  <2> QED
    BY <1>7, <1>8, <1>10, <2>1
<1>12. Ahead # << >> /\ Head(Ahead) = m /\ Tail(Ahead) = rest
  BY <1>7, FirstApart
<1>13. Fresh' = Fresh
  <2>1. i <= n \/ (~NLAt(L, n) /\ \A k \in 1..Len(M) : ~NLAt(M, k))
    <3>1. CASE i <= n
      BY <3>1
    <3>2. CASE ~(i <= n)
      <4>1. c = n
        BY <1>1, <1>3, <1>8, <3>2
      <4>2. \A k \in 1..Len(ids) : ids[k] \in Ids
        BY <1>5, ElementOfSeq
      <4> QED
        BY <1>3, <1>6, <4>1, <4>2, TokensAssumption DEF NLAt
    <3> QED
      BY <3>1, <3>2
  <2>2. L # << >> /\ R # << >> /\ (NLAt(R, Len(R)) <=> NLAt(L, n))
    BY <1>1, <1>6, <1>8, <1>9, <2>1, FreshInserted
  <2>3. Fresh' = (R = << >> \/ NLAt(R, Len(R)))
    BY <1>4 DEF Fresh, NLAt
  <2>4. Fresh = (L = << >> \/ NLAt(L, n))
    BY DEF Fresh, L
  <2> QED
    BY <2>2, <2>3, <2>4
<1>14. taken' = Head(Ahead).id
  BY <1>4, <1>12 DEF m, MarkAt
<1> QED
  BY <1>4, <1>11, <1>12, <1>13, <1>14, Mapped DEF Abstract!Replace, E, Unmarked

-----------------------------------------------------------------------------
\* InsertBack adds a token to the stream, or ends its line.
LEMMA InsertBackStreams ==
  ASSUME SeqInv, NEW id \in Ids \cup {NL}, InsertBack(id)
  PROVE  \/ id = NL /\ Abstract!EndLine
         \/ id \in Ids /\ Abstract!Add(id)
<1> DEFINE L == tokList
           n == Len(L)
           file == IF L = << >> THEN 0 ELSE L[n].file
           x == [id |-> id, file |-> file]
           R == Append(L, x)
           e == n + 1
           a == begin - 1
           new == [id |-> id, bol |-> Fresh]
<1>1. /\ n \in Nat /\ begin \in Nat /\ lineStart \in Nat /\ L \in Seq(Token)
      /\ begin \in 1..(n + 1) /\ lineStart \in 1..begin
  BY CurrentIs DEF SeqInv, Cursor
<1>2. /\ tokList' = R /\ begin' = begin /\ lineStart' = lineStart /\ exceedEnd' = exceedEnd
      /\ taken' = taken
  BY DEF InsertBack
<1>3. Fresh = (n = 0 \/ NLAt(L, n))
  BY <1>1, EmptySeq DEF Fresh
<1> HIDE DEF L
<1>4. file \in Nat /\ (n # 0 => file = L[n].file)
  <2>1. CASE L = << >>
    BY <1>1, <2>1, EmptySeq
  <2>2. CASE L # << >>
    <3>1. n \in 1..Len(L)
      BY <1>1, <2>2, EmptySeq
    <3>2. L[n].file \in Nat
      BY <1>1, <3>1, TokenAt
    <3> QED
      BY <2>2, <3>2
  <2> QED
    BY <2>1, <2>2
<1> HIDE DEF file
<1>5. x \in Token /\ x.file = file /\ x.id = id
  BY <1>4 DEF Token
<1> HIDE DEF x
<1>6. /\ R \in Seq(Token) /\ Len(R) = e /\ R[e] = x /\ \A k \in 1..n : R[k] = L[k]
  BY <1>1, <1>5, AppendProperties
<1> HIDE DEF R
<1>7. /\ n <= Len(R) /\ a <= Len(R) /\ begin \in 1..(n + 1) /\ n \in (begin - 1)..n
      /\ lineStart \in 1..(n + 1) /\ a \in (lineStart - 1)..n /\ \A k \in 1..a : k \in 1..n
      /\ begin \in 1..(Len(R) + 1) /\ n \in (begin - 1)..Len(R) /\ e \in n..Len(R)
      /\ e \in 1..Len(R) /\ e \in 1..(Len(R) + 1) /\ e \in (e - 1)..Len(R)
  BY <1>1, <1>6
<1>8. ViewOf(R, begin, n) = ViewOf(L, begin, n)
  BY <1>1, <1>6, <1>7, ViewFront
<1>9. Behind' = Behind
  <2>1. \A k \in 1..a : R[k] = L[k]
    BY <1>6, <1>7
  <2>2. a \in (lineStart - 1)..Len(L)
    BY <1>7
  <2> HIDE DEF a
  <2>3. ViewOf(R, lineStart, a) = ViewOf(L, lineStart, a)
    BY <1>1, <1>6, <1>7, <2>1, <2>2, ViewFront
  <2> QED
    BY <1>2, <2>3 DEF Behind, L, a
<1>10. /\ Ahead' = ViewOf(R, begin, e) /\ Ahead = ViewOf(L, begin, n)
       /\ Ahead \in Seq(MarkedToken)
  BY <1>2, <1>6, ViewsTyped DEF Ahead, L
<1>11. ViewOf(R, begin, e) = ViewOf(R, begin, n) \o ViewOf(R, e, e)
  <2>1. ViewOf(R, begin, e) = ViewOf(R, begin, n) \o ViewOf(R, n + 1, e)
    <3> HIDE DEF e
    <3> QED
      BY <1>6, <1>7, ViewSplit
  <2> QED
    BY <2>1
<1>12. Fresh' = (id = NL)
  <2>1. R # << >>
    BY <1>1, <1>6, EmptySeq
  <2>2. Fresh' = (R = << >> \/ NLAt(R, Len(R)))
    BY <1>2 DEF Fresh, NLAt
  <2> QED
    BY <1>5, <1>6, <2>1, <2>2 DEF NLAt
<1>13. NLAt(R, e) <=> id = NL
  BY <1>5, <1>6 DEF NLAt
<1> HIDE DEF e
<1>14. CASE id = NL
  <2>1. \A k \in e..e : NLAt(R, k)
    BY <1>1, <1>7, <1>13, <1>14 DEF e
  <2>2. ViewOf(R, e, e) = << >>
    BY <1>6, <1>7, <2>1, ViewBlank
  <2>3. Ahead' = Ahead
    BY <1>8, <1>10, <1>11, <2>2, ConcatEmptySeq
  <2> QED
    BY <1>2, <1>9, <1>12, <1>14, <2>3, Mapped DEF Abstract!EndLine
<1>15. CASE id # NL
  <2>1. BolAt(R, e) = Fresh
    <3>1. CASE n = 0
      BY <1>3, <3>1 DEF BolAt, e
    <3>2. CASE n # 0
      <4>1. e # 1 /\ e - 1 = n /\ n \in 1..n
        BY <1>1, <3>2 DEF e
      <4>2. R[n] = L[n] /\ R[e].file = L[n].file
        BY <1>4, <1>5, <1>6, <3>2, <4>1
      <4>3. BolAt(R, e) = NLAt(L, n)
        BY <4>1, <4>2 DEF BolAt, NLAt
      <4> QED
        BY <1>3, <3>2, <4>3 DEF NLAt
    <3> QED
      BY <3>1, <3>2
  <2>2. R[e].id = id
    BY <1>5, <1>6
  <2>3. MarkAt(R, e) = new
    BY <2>1, <2>2 DEF MarkAt
  <2>4. ViewOf(R, e, e) = <<MarkAt(R, e)>> /\ MarkAt(R, e) \in MarkedToken
    BY <1>6, <1>7, <1>13, <1>15, ViewOne
  <2> HIDE DEF new
  <2>5. Ahead' = Append(Ahead, new)
    <3>1. Ahead' = Ahead \o <<new>>
      BY <1>8, <1>10, <1>11, <2>3, <2>4
    <3> QED
      BY <1>10, <2>3, <2>4, <3>1, AppendIsConcat
  <2>6. id \in Ids /\ Fresh' = FALSE
    BY <1>12, <1>15
  <2> QED
    BY <1>2, <1>9, <2>5, <2>6, Mapped DEF Abstract!Add, new
<1> QED
  BY <1>14, <1>15

-----------------------------------------------------------------------------
(* A file in the list is the file on its own.                              *)
FileMarks(ids) == [i \in DOMAIN ids |-> Mark(ids[i], i = 1 \/ ids[i - 1] = NL)]

\* The marked tokens of a file.
LEMMA FileMarksTyped ==
  ASSUME NEW ids \in Seq(Ids \cup {NL})
  PROVE  /\ FileMarks(ids) \in Seq(Seq(MarkedToken))
         /\ Len(FileMarks(ids)) = Len(ids) /\ Len(ids) \in Nat
         /\ \A i \in 1..Len(ids) : FileMarks(ids)[i] = Mark(ids[i], i = 1 \/ ids[i - 1] = NL)
<1> DEFINE p == FileMarks(ids)
           first(i) == i = 1 \/ ids[i - 1] = NL
<1>1. Len(ids) \in Nat /\ DOMAIN ids = 1..Len(ids) /\ \A i \in 1..Len(ids) : ids[i] \in Ids \cup {NL}
  BY LenProperties, ElementOfSeq
<1>2. p = [i \in 1..Len(ids) |-> Mark(ids[i], first(i))]
  BY <1>1 DEF FileMarks
<1>3. ASSUME NEW i \in 1..Len(ids) PROVE Mark(ids[i], first(i)) \in Seq(MarkedToken)
  <2>1. CASE ids[i] = NL
    <3>1. Mark(ids[i], first(i)) = << >>
      BY <2>1 DEF Mark
    <3> QED
      BY <3>1, EmptySeq
  <2>2. CASE ids[i] # NL
    <3>1. Mark(ids[i], first(i)) = <<[id |-> ids[i], bol |-> first(i)]>>
      BY <2>2 DEF Mark
    <3>2. [id |-> ids[i], bol |-> first(i)] \in MarkedToken
      <4>1. ids[i] \in Ids
        BY <1>1, <2>2
      <4>2. first(i) \in BOOLEAN
        OBVIOUS
      <4> QED
        BY <4>1, <4>2 DEF MarkedToken
    <3> DEFINE x == [id |-> ids[i], bol |-> first(i)]
    <3>3. x \in MarkedToken
      BY <3>2
    <3> HIDE DEF x
    <3>4. <<x>> \in Seq(MarkedToken)
      BY <3>3
    <3> QED
      BY <3>1, <3>4 DEF x
  <2> QED
    BY <2>1, <2>2
<1> HIDE DEF first
<1>4. p \in Seq(Seq(MarkedToken))
  <2> HIDE DEF p
  <2>1. [i \in 1..Len(ids) |-> Mark(ids[i], first(i))] \in Seq(Seq(MarkedToken))
    BY <1>1, <1>3, IsASeq
  <2> QED
    BY <1>2, <2>1
<1>5. Len(p) = Len(ids)
  BY <1>1, <1>2, <1>4, LenProperties
<1>6. \A i \in 1..Len(ids) : p[i] = Mark(ids[i], first(i))
  BY <1>2
<1> QED
  BY <1>1, <1>4, <1>5, <1>6 DEF first

\* The line end the scanner adds makes no difference to them.
LEMMA FileViewTokenized ==
  ASSUME NEW ids \in Seq(Ids \cup {NL})
  PROVE  FileView(Tokenized(ids)) = FileView(ids) /\ FileView(ids) \in Seq(MarkedToken)
<1> DEFINE T == Append(ids, NL)
           p == FileMarks(ids)
           q == FileMarks(T)
           n == Len(ids)
           r == Append(p, << >>)
<1>1. /\ T \in Seq(Ids \cup {NL}) /\ Len(T) = n + 1 /\ T[n + 1] = NL /\ n \in Nat
      /\ \A i \in 1..n : T[i] = ids[i]
  <2>1. NL \in Ids \cup {NL}
    OBVIOUS
  <2> QED
    BY <2>1, AppendProperties, LenProperties
<1> HIDE DEF T
<1>2. /\ p \in Seq(Seq(MarkedToken)) /\ Len(p) = n
      /\ \A i \in 1..n : p[i] = Mark(ids[i], i = 1 \/ ids[i - 1] = NL)
  BY FileMarksTyped
<1>3. /\ q \in Seq(Seq(MarkedToken)) /\ Len(q) = n + 1
      /\ \A i \in 1..(n + 1) : q[i] = Mark(T[i], i = 1 \/ T[i - 1] = NL)
  BY <1>1, FileMarksTyped, ZenonT(30)
<1>4. FileView(ids) = FlattenSeq(p) /\ FileView(T) = FlattenSeq(q)
  BY DEF FileView, FileMarks
<1> HIDE DEF p, q, n
<1>5. /\ << >> \in Seq(MarkedToken) /\ r \in Seq(Seq(MarkedToken)) /\ Len(r) = n + 1
      /\ r[n + 1] = << >> /\ \A i \in 1..n : r[i] = p[i]
  <2>1. << >> \in Seq(MarkedToken)
    BY EmptySeq
  <2> QED
    BY <1>2, <2>1, AppendProperties
<1>6. FlattenSeq(r) = FlattenSeq(p)
  <2>1. FlattenSeq(r) = FlattenSeq(p) \o << >>
    BY <1>2, <1>5, FlattenAppend
  <2>2. FlattenSeq(p) \in Seq(MarkedToken)
    BY <1>2, FlattenTyped
  <2> QED
    BY <2>1, <2>2, ConcatEmptySeq
<1> HIDE DEF r
<1>7. ASSUME NEW i \in 1..Len(q) PROVE q[i] = r[i]
  <2>1. CASE i = n + 1
    BY <1>1, <1>3, <1>5, <2>1 DEF Mark
  <2>2. CASE i # n + 1
    <3>1. i \in 1..n /\ i \in 1..(n + 1) /\ (i # 1 => i - 1 \in 1..n)
      BY <1>1, <1>3, <2>2
    <3>2. q[i] = Mark(T[i], i = 1 \/ T[i - 1] = NL) /\ r[i] = Mark(ids[i], i = 1 \/ ids[i - 1] = NL)
      BY <1>2, <1>3, <1>5, <3>1
    <3>3. T[i] = ids[i] /\ (i # 1 => T[i - 1] = ids[i - 1])
      BY <1>1, <3>1
    <3> QED
      BY <3>2, <3>3
  <2> QED
    BY <2>1, <2>2
<1>8. q = r
  BY <1>3, <1>5, <1>7, SeqEqual
<1>9. FileView(T) = FileView(ids) /\ FileView(ids) \in Seq(MarkedToken)
  BY <1>2, <1>4, <1>6, <1>8, FlattenTyped
<1> QED
  BY <1>9, TokenizedIs DEF T

-----------------------------------------------------------------------------
(* Every token of a file is of that file alone, so its first one, and the  *)
(* one that the line ends before it leave first, begin a line.             *)
OfFile(M, T, g) == \A k \in 1..Len(T) : M[k].id = T[k] /\ M[k].file = g

\* Before what follows its directive, an included file is seen as it is.
LEMMA IncludedViews ==
  ASSUME NEW L \in Seq(Token), NEW e \in 2..Len(L), NEW T \in Seq(Ids \cup {NL}),
         NEW M \in Seq(Token), NEW R, NEW g, NLAt(L, e), Inserted(L, e, M, R),
         Len(M) = Len(T), Len(T) \in Nat \ {0}, L[e - 1].file # g, OfFile(M, T, g)
  PROVE  ViewOf(R, e, Len(R)) = FileView(T) \o ViewOf(L, e, Len(L))
<1> DEFINE n == Len(L)
           q == Len(T)
           d == e - 1
           a == d + q
           b == e + q
           t == n + q
           p == FileMarks(T)
           r == MarksOf(R)
<1>1. /\ n \in Nat /\ q \in Nat \ {0} /\ e \in 2..n /\ R \in Seq(Token) /\ Len(R) = t
      /\ \A k \in 1..d : R[k] = L[k]
      /\ \A k \in 1..q : R[d + k] = M[k] /\ M[k].id = T[k] /\ M[k].file = g
      /\ \A k \in e..n : R[k + q] = L[k]
  BY LenProperties DEF Inserted, OfFile
<1>2. /\ e \in 1..(Len(R) + 1) /\ a \in (e - 1)..Len(R) /\ t \in a..Len(R) /\ a + 1 = b
      /\ d \in Nat /\ d \in 1..n /\ q + d = a /\ 1 + d = e /\ q <= Len(R)
  BY <1>1
<1>3. ASSUME NEW k \in 1..q
      PROVE  r[k + d] = p[k]
  <2> DEFINE l == k + d
  <2>1. l \in 1..Len(R) /\ l = d + k /\ l # 1
    BY <1>1, <1>2
  <2> HIDE DEF l, d
  <2>2. R[l].id = T[k] /\ R[l].file = g
    BY <1>1, <2>1
  <2>3. BolAt(R, l) = (k = 1 \/ T[k - 1] = NL)
    <3>1. CASE k = 1
      <4>1. l - 1 = d
        BY <1>2, <2>1, <3>1
      <4>2. R[l - 1].file = L[e - 1].file
        BY <1>1, <1>2, <4>1 DEF d
      <4> QED
        BY <2>2, <3>1, <4>2 DEF BolAt
    <3>2. CASE k # 1
      <4> DEFINE h == k - 1
      <4>1. h \in 1..q /\ l - 1 = d + h
        BY <1>2, <2>1, <3>2
      <4> HIDE DEF h
      <4>2. R[l - 1].id = T[h] /\ R[l - 1].file = g
        BY <1>1, <4>1
      <4>3. BolAt(R, l) = (T[h] = NL)
        BY <2>1, <2>2, <4>2 DEF BolAt, NLAt
      <4> QED
        BY <3>2, <4>3 DEF h
    <3> QED
      BY <3>1, <3>2
  <2>4. p[k] = Mark(T[k], k = 1 \/ T[k - 1] = NL)
    BY FileMarksTyped
  <2>5. r[l] = Mark(R[l].id, BolAt(R, l))
    <3>1. DOMAIN R = 1..Len(R)
      BY <1>1, LenProperties
    <3> QED
      BY <2>1, <3>1 DEF MarksOf
  <2>6. r[l] = p[k]
    BY <2>2, <2>3, <2>4, <2>5, Zenon
  <2> QED
    BY <2>6 DEF l
<1>4. /\ p \in Seq(Seq(MarkedToken)) /\ Len(p) = q /\ r \in Seq(Seq(MarkedToken))
      /\ Len(r) = Len(R)
  BY <1>1, FileMarksTyped, MarksTyped
<1>5. FileView(T) = FlattenSeq(p)
  BY DEF FileView, FileMarks
<1> HIDE DEF p, r, n, q
<1>6. FileView(T) = Part(p, 1, q)
  <2>1. SubSeq(p, 1, Len(p)) = p
    BY <1>4, SubSeqFull
  <2> QED
    BY <1>4, <1>5, <2>1 DEF Part
<1>7. ViewOf(R, e, a) = FileView(T)
  <2> DEFINE one == 1
  <2>1. SameParts(p, 1, q, r, d)
    BY <1>3 DEF SameParts
  <2>2. /\ p \in Seq(Seq(MarkedToken)) /\ r \in Seq(Seq(MarkedToken))
        /\ one \in 1..(Len(p) + 1) /\ q \in (one - 1)..Len(p) /\ d \in Nat
        /\ e = one + d /\ a = q + d /\ a <= Len(r) /\ SameParts(p, one, q, r, d)
    BY <1>1, <1>2, <1>4, <2>1
  <2> HIDE DEF one, a, d
  <2>3. Part(r, e, a) = Part(p, one, q)
    BY <2>2, PartShift
  <2> QED
    BY <1>6, <2>3 DEF one, ViewOf, r
<1>8. ViewOf(R, b, t) = ViewOf(L, e, n)
  <2>1. ASSUME NEW k \in e..n
        PROVE  R[k + q] = L[k] /\ (NLAt(L, k) \/ BolAt(R, k + q) = BolAt(L, k))
    <3>1. R[k + q] = L[k] /\ k # 1 /\ k + q # 1
      BY <1>1
    <3>2. CASE k = e
      BY <3>1, <3>2
    <3>3. CASE k # e
      <4> DEFINE l == k - 1
      <4>1. l \in e..n /\ l + q = (k + q) - 1
        BY <1>1, <3>3
      <4> HIDE DEF l
      <4>2. R[l + q] = L[l]
        BY <1>1, <4>1
      <4>3. R[(k + q) - 1] = L[k - 1]
        BY <4>1, <4>2 DEF l
      <4> QED
        BY <3>1, <4>3 DEF BolAt, NLAt
    <3> QED
      BY <3>2, <3>3
  <2>2. SameMarks(L, e, n, R, q)
    BY <2>1 DEF SameMarks
  <2>3. /\ e \in 1..(Len(L) + 1) /\ n \in (e - 1)..Len(L) /\ q \in Nat /\ b = e + q /\ t = n + q
        /\ t <= Len(R) /\ R \in Seq(Token)
    BY <1>1 DEF n
  <2> HIDE DEF b, t
  <2> QED
    BY <2>2, <2>3, ViewShift
<1>9. ViewOf(R, e, t) = ViewOf(R, e, a) \o ViewOf(R, a + 1, t)
  <2> HIDE DEF a, t
  <2> QED
    BY <1>1, <1>2, ViewSplit
<1> QED
  <2> HIDE DEF a, b, t
  <2> QED
    BY <1>1, <1>2, <1>7, <1>8, <1>9 DEF n

\* ParseInclude puts the file in the place of its directive's line.
LEMMA IncludeStreams ==
  ASSUME SeqInv, NEW ids \in Headers, ParseInclude(ids)
  PROVE  Abstract!TakeLine(FileView(ids))
<1> DEFINE e == LineEnd
           L == tokList
           T == Tokenized(ids)
           g == NewFile
           M == InFile(T, g)
           R == InsertIn(L, e, M)
           f == FirstToken(T)
           c == e + f - 1
           d == e - 1
           rest == ViewOf(L, e, Len(L))
<1>1. /\ Len(L) \in Nat /\ begin \in Nat /\ lineStart \in Nat /\ L \in Seq(Token)
      /\ begin \in 1..(Len(L) + 1) /\ lineStart \in 1..begin
      /\ FilesBelow(L, NewFileOf(L))
  BY CurrentIs DEF SeqInv, Cursor
<1>2. e \in (begin + 1)..Len(L) /\ NLAt(L, e)
  BY LineIs DEF ParseInclude
<1>3. /\ tokList' = R /\ begin' = c /\ lineStart' = c /\ exceedEnd' = exceedEnd
      /\ taken' = taken
  BY DEF ParseInclude, InsertSeqAt, InsertIn
<1>4. ids \in Seq(Ids \cup {NL})
  BY TextsAssumption
<1>5. /\ T \in Seq(Ids \cup {NL}) /\ Len(T) \in Nat \ {0} /\ T[Len(T)] = NL
  BY <1>4, TokenizedIs
<1>6. f \in 1..Len(T) /\ \A k \in 1..(f - 1) : T[k] = NL
  BY <1>5, FirstTokenIs
<1>7. g = NewFileOf(L) /\ g \in Nat
  <2>1. DOMAIN L = 1..Len(L)
    BY <1>1, LenProperties
  <2>2. NewFile = NewFileOf(L)
    BY <2>1 DEF NewFile, NewFileOf, IsNL, NLAt
  <2> QED
    BY <1>1, <2>2, NewFileNat
<1>8. FileView(T) = FileView(ids) /\ FileView(ids) \in Seq(MarkedToken)
  BY <1>4, FileViewTokenized
<1>9. /\ rest \in Seq(MarkedToken) /\ Ahead # << >> /\ ~Head(Ahead).bol
      /\ SubSeq(Ahead, LineLen(Ahead) + 1, Len(Ahead)) = rest
  BY LineViews DEF ParseInclude
<1> HIDE DEF e, T, g, f, L
<1>10. /\ M \in Seq(Token) /\ Len(M) = Len(T)
       /\ \A k \in 1..Len(T) : M[k].id = T[k] /\ M[k].file = g
  <2>1. T \in Seq(Ids \cup {NL}) /\ g \in Nat
    BY <1>5, <1>7
  <2>2. /\ InFile(T, g) \in Seq(Token) /\ Len(InFile(T, g)) = Len(T)
        /\ \A k \in 1..Len(T) : InFile(T, g)[k].id = T[k] /\ InFile(T, g)[k].file = g
    <3> HIDE DEF M, R, rest, c, d
    <3> QED
      BY <2>1, InFileIs
  <2> QED
    BY <2>2
<1>11. /\ e \in 2..Len(L) /\ e \in 1..(Len(L) + 1) /\ e <= Len(L) /\ e \in 2..(Len(L) + 1)
       /\ d \in 1..Len(L)
  BY <1>1, <1>2
<1>12. L[e - 1].file # g
  <2>1. L[d].file < g /\ L[d].file \in Nat
    <3> HIDE DEF d
    <3> QED
      BY <1>1, <1>7, <1>11, TokenAt DEF FilesBelow
  <2> QED
    BY <1>7, <2>1
<1> HIDE DEF M
<1>13. Inserted(L, e, M, R)
  BY <1>1, <1>10, <1>11, InsertedBy
<1> HIDE DEF R
<1>14. ViewOf(R, e, Len(R)) = FileView(ids) \o rest
  <2>1. ViewOf(R, e, Len(R)) = FileView(T) \o ViewOf(L, e, Len(L))
    <3>1. /\ L \in Seq(Token) /\ e \in 2..Len(L) /\ NLAt(L, e) /\ T \in Seq(Ids \cup {NL})
          /\ M \in Seq(Token) /\ Inserted(L, e, M, R) /\ Len(M) = Len(T)
          /\ Len(T) \in Nat \ {0} /\ L[e - 1].file # g
      BY <1>1, <1>2, <1>5, <1>10, <1>11, <1>12, <1>13
    <3>2. OfFile(M, T, g)
      BY <1>10 DEF OfFile
    <3> HIDE DEF c, d, rest
    <3> QED
      BY <3>1, <3>2, IncludedViews
  <2> QED
    BY <1>8, <2>1

\* The cursor starts past the line ends the file begins with.
<1>15. /\ R \in Seq(Token) /\ Len(R) = Len(L) + Len(T) /\ c \in e..(Len(R) + 1)
       /\ e \in 1..(Len(R) + 1) /\ e \in 1..e /\ c \in Int
  BY <1>1, <1>5, <1>6, <1>10, <1>11, <1>13 DEF Inserted
<1>16. ASSUME NEW k \in e..(c - 1) PROVE NLAt(R, k)
  <2> DEFINE l == k - e + 1
  <2>1. l \in 1..(f - 1) /\ l \in 1..Len(M) /\ e - 1 + l = k
    <3>1. Len(T) \in Nat /\ f \in 1..Len(T) /\ Len(M) = Len(T) /\ e \in Nat
      BY <1>5, <1>6, <1>10, <1>11
    <3> HIDE DEF rest
    <3> QED
      BY <3>1
  <2> HIDE DEF l
  <2>2. R[k] = M[l]
    BY <1>13, <2>1 DEF Inserted
  <2> QED
    BY <1>6, <1>10, <2>1, <2>2 DEF NLAt
<1> HIDE DEF c, rest
<1>17. ViewOf(R, c, Len(R)) = ViewOf(R, e, Len(R))
  BY <1>15, <1>16, BlankViews
<1>18. Ahead' = FileView(ids) \o rest
  <2>1. Ahead' = ViewOf(R, c, Len(R))
    BY <1>3 DEF Ahead
  <2> QED
    BY <1>14, <1>17, <2>1
<1>19. Behind' = << >>
  <2> DEFINE b == c - 1
  <2>1. b \in Int /\ b < c
    BY <1>15
  <2>2. Behind' = ViewOf(R, c, b)
    BY <1>3 DEF Behind
  <2> HIDE DEF b
  <2>3. ViewOf(R, c, b) = << >>
    BY <1>15, <2>1, ViewEmpty
  <2> QED
    BY <2>2, <2>3
<1>20. Fresh' = Fresh
  <2>1. L # << >> /\ R # << >> /\ (NLAt(R, Len(R)) <=> NLAt(L, Len(L)))
    BY <1>1, <1>10, <1>11, <1>13, FreshInserted
  <2>2. Fresh' = (R = << >> \/ NLAt(R, Len(R)))
    BY <1>3 DEF Fresh, NLAt
  <2>3. Fresh = (L = << >> \/ NLAt(L, Len(L)))
    BY DEF Fresh, L
  <2> QED
    BY <2>1, <2>2, <2>3
<1>21. Abstract!LineLength = LineLen(Ahead)
  <2>1. Abstract!LineLength = LineLen(View(begin, Len(tokList)))
    BY DEF Abstract!LineLength, LineLen
  <2> QED
    BY <2>1, Mapped
<1> QED
  BY <1>3, <1>9, <1>18, <1>19, <1>20, <1>21, Mapped DEF Abstract!TakeLine

-----------------------------------------------------------------------------
\* The stream starts as the list does.
LEMMA InitStreams ==
  ASSUME Init
  PROVE  Abstract!Init
<1>1. SeqInv
  BY SeqInit
<1>2. Ahead \in Seq(MarkedToken)
  BY <1>1, ViewsTyped
<1>3. Behind = << >>
  <2> DEFINE a == begin - 1
  <2>1. begin \in Int /\ a \in Int /\ a < begin
    BY <1>1, CurrentIs
  <2>2. Behind = ViewOf(tokList, begin, a)
    BY DEF Behind, Init
  <2> HIDE DEF a
  <2>3. ViewOf(tokList, begin, a) = << >>
    BY <2>1, ViewEmpty
  <2> QED
    BY <2>2, <2>3
<1>4. Fresh \in BOOLEAN
  BY DEF Fresh, NLAt
<1>5. exceedEnd = 0 /\ taken = None
  BY DEF Init
<1> QED
  BY <1>2, <1>3, <1>4, <1>5, Mapped DEF Abstract!Init, Abstract!Marked, MarkedToken

\* Every step is one of the stream, or changes nothing of it.
LEMMA StepStreams ==
  ASSUME SeqInv, [Step]_vars
  PROVE  [Abstract!Step]_(Abstract!vars)
<1>1. CASE UNCHANGED vars
  <2>1. tokList' = tokList /\ begin' = begin /\ lineStart' = lineStart
        /\ exceedEnd' = exceedEnd /\ taken' = taken
    BY <1>1 DEF vars
  <2>2. Ahead' = Ahead /\ Behind' = Behind
    BY <2>1 DEF Ahead, Behind
  <2> QED
    BY <2>1, <2>2, Stutters
<1>2. CASE Next
  BY <1>2, NextStreams DEF Abstract!Step
<1>3. CASE Peek \/ Peek2
  BY <1>3, PeekStreams
<1>4. CASE PutBack
  BY <1>4, PutBackStreams DEF Abstract!Step
<1>5. ASSUME NEW mark \in lineStart..(begin - 1), ResetTo(mark)
      PROVE  [Abstract!Step]_(Abstract!vars)
  BY <1>5, ResetStreams DEF Abstract!Step
<1>6. ASSUME NEW ids \in Expansions, ExpandMacro(ids)
      PROVE  [Abstract!Step]_(Abstract!vars)
  BY <1>6, ExpandStreams DEF Abstract!Step
<1>7. CASE GetLine
  BY <1>7, GetLineStreams DEF Abstract!Step
<1>8. ASSUME NEW ids \in Headers, ParseInclude(ids)
      PROVE  [Abstract!Step]_(Abstract!vars)
  <2>1. Abstract!TakeLine(FileView(ids))
    BY <1>8, IncludeStreams
  <2> QED
    BY <2>1 DEF Abstract!Step
<1>9. ASSUME NEW id \in Ids \cup {NL}, InsertBack(id)
      PROVE  [Abstract!Step]_(Abstract!vars)
  BY <1>9, InsertBackStreams DEF Abstract!Step
<1> QED
  BY <1>1, <1>2, <1>3, <1>4, <1>5, <1>6, <1>7, <1>8, <1>9 DEF Step

(* TokenSequence, with its line ends in the list and its cursor, implements *)
(* the stream of marked tokens: PutBack undoes Next, a macro's expansion    *)
(* never begins a line, an included file always does, and no operation      *)
(* changes the line another token is on.                                    *)
THEOREM StreamImplemented == Spec => ImplementsStream
<1>1. Init => Abstract!Init
  BY InitStreams
<1>2. SeqInv /\ [Step]_vars => [Abstract!Step]_(Abstract!vars)
  BY StepStreams
<1> QED
  BY <1>1, <1>2, SeqInvariant, PTL DEF Spec, ImplementsStream, Abstract!Spec
=============================================================================
