---------------------------- MODULE DriverProofs --------------------------
(***************************************************************************)
(* The link comes after all compilations, and nothing after a success, for *)
(* any number of inputs of any names.                                      *)
(***************************************************************************)
EXTENDS Driver, FiniteSetTheorems, TLAPS

Steps == {"none", "start", "preprocess", "open", "generate", "ended", "reaped"}

Parents == [pc : {"fork", "wait", "check", "link", "remove", "exited"},
            forked : 0..NInputs, waited : 0..NInputs, ret : Int]
Contents == [exists : BOOLEAN, from : SUBSET (0..Ld)]
Disks == [AsmNames \cup {Out} -> Contents]

TypeOK ==
  /\ opts \in Options
  /\ parent \in Parents
  /\ child \in [Inputs -> Steps]
  /\ status \in [Inputs -> Nat]
  /\ files \in Disks

Reaped == {i \in Inputs : child[i] = "reaped"}

\* The children are those that were forked, and waited counts the reaped.
Counted ==
  /\ \A i \in Inputs : child[i] = "none" <=> i > parent.forked
  /\ parent.pc \in {"wait", "check", "link", "remove"} => parent.forked = NInputs
  /\ parent.pc = "fork" => Reaped = {} /\ parent.waited = 0
  /\ parent.pc = "wait" => parent.waited = Cardinality(Reaped)
  /\ parent.pc \in {"check", "link", "remove"} => Reaped = Inputs
  /\ parent.pc = "link" => opts.mode = "link"

\* Who has not ended has no status, and the parent goes on with good ones only.
Statuses ==
  /\ \A i \in Inputs : status[i] # 0 => child[i] \in {"ended", "reaped"}
  /\ parent.pc # "exited" => \A i \in Reaped : status[i] = 0
  /\ parent.pc = "exited" /\ parent.forked = NInputs /\ ~Failed => Reaped = Inputs

\* What a child has made of its own file: it is empty from its opening on, and
\* holds the child's code when that has ended well.
Compiled ==
  opts.mode = "link" /\ OwnFiles =>
    \A i \in Inputs :
      /\ child[i] = "generate" => files[opts.asm[i]].from = {}
      /\ child[i] \in {"ended", "reaped"} /\ status[i] = 0 => files[opts.asm[i]].from = {i}

IInv == TypeOK /\ Counted /\ Statuses /\ Compiled

-----------------------------------------------------------------------------
USE DEF Parents, Contents, Disks

\* The inputs and the linker's mark are natural numbers.
LEMMA Numbers == NInputs \in Nat /\ NInputs >= 1 /\ Inputs \subseteq Nat /\ Inputs \subseteq 0..Ld /\ Ld \in 0..Ld
BY NInputsAssumption DEF Inputs, Ld

\* An error is never taken for a success.
LEMMA Codes ==
  /\ ExitCode(0) = 0 /\ ExitCode(-1) # 0 /\ ExitCode(-3) # 0
  /\ \A n \in Int : ExitCode(n) \in Nat
<1>1. 0 % 256 = 0
  OBVIOUS
<1>2. (-1) % 256 # 0
  OBVIOUS
<1>3. (-3) % 256 # 0
  OBVIOUS
<1>4. \A n \in Int : n % 256 \in Nat
  OBVIOUS
<1> QED
  BY <1>1, <1>2, <1>3, <1>4 DEF ExitCode

\* A child's assembly file is one of the files.
LEMMA AsmFileTyped ==
  ASSUME TypeOK, NEW i \in Inputs
  PROVE  opts.asm[i] \in AsmNames /\ AsmFile(i) \in AsmNames \cup {Out}
BY DEF TypeOK, Options, AsmFile

\* The steps of the parent other than Fork and Wait leave the children and both counts alone.
LEMMA ParentAlone ==
  ASSUME TypeOK, ForkError \/ ForkDone \/ Check \/ RunGcc \/ Remove \/ Finished
  PROVE  /\ child' = child /\ status' = status /\ opts' = opts
         /\ parent'.forked = parent.forked /\ parent'.waited = parent.waited
<1>1. child' = child /\ status' = status /\ opts' = opts
  BY DEF ForkError, ForkDone, Check, RunGcc, Remove, Finished, vars
<1>2. \/ parent' = parent
      \/ \E step : parent' = [parent EXCEPT !.pc = step]
      \/ \E step, code : parent' = [parent EXCEPT !.pc = step, !.ret = code]
  <2>1. CASE ForkError \/ ForkDone \/ Check
    BY <2>1 DEF ForkError, ForkDone, Check, Exit
  <2>2. CASE RunGcc
    BY <2>2 DEF RunGcc
  <2>3. CASE Remove
    BY <2>3 DEF Remove, Exit
  <2>4. CASE Finished
    BY <2>4 DEF Finished, vars
  <2> QED
    BY <2>1, <2>2, <2>3, <2>4
<1>3. parent'.forked = parent.forked /\ parent'.waited = parent.waited
  BY <1>2 DEF TypeOK
<1> QED
  BY <1>1, <1>3

\* A child that is waited for is one more of those that were, and all when it is the last.
LEMMA Reaping ==
  ASSUME TypeOK, Counted, parent.pc = "wait", NEW i \in Inputs, child[i] = "ended", Goto(i, "reaped")
  PROVE  /\ Reaped' = Reaped \cup {i}
         /\ parent.waited + 1 = Cardinality(Reaped')
         /\ parent.waited + 1 \in 0..NInputs
         /\ parent.waited + 1 = NInputs => Reaped' = Inputs
<1>1. Reaped' = Reaped \cup {i} /\ i \notin Reaped
  BY DEF TypeOK, Goto, Reaped
<1>2. IsFiniteSet(Inputs) /\ Cardinality(Inputs) = NInputs
  <2>1. /\ IsFiniteSet(1..NInputs)
        /\ Cardinality(1..NInputs) = IF 1 > NInputs THEN 0 ELSE NInputs - 1 + 1
    <3>1. 1 \in Int /\ NInputs \in Int
      BY Numbers
    <3> QED
      BY <3>1, FS_Interval, Zenon
  <2> QED
    BY <2>1, Numbers DEF Inputs
<1>3. Reaped \subseteq Inputs /\ Reaped' \subseteq Inputs
  BY <1>1 DEF Reaped
<1>4. IsFiniteSet(Reaped) /\ Cardinality(Reaped) \in Nat
  BY <1>2, <1>3, FS_Subset, FS_CardinalityType
<1>5. IsFiniteSet(Reaped') /\ Cardinality(Reaped') = Cardinality(Reaped) + 1
  BY <1>1, <1>4, FS_AddElement
<1>6. Cardinality(Reaped') <= NInputs /\ (Cardinality(Reaped') = NInputs => Reaped' = Inputs)
  BY <1>2, <1>3, FS_Subset
<1>7. parent.waited = Cardinality(Reaped)
  BY DEF Counted
<1> QED
  BY <1>1, <1>4, <1>5, <1>6, <1>7, Numbers

\* What the steps of a child and of the parent make is of these types.
LEMMA ExitTyped ==
  ASSUME TypeOK, NEW i \in Inputs, NEW n \in {0, -1, -3}, End(i, n)
  PROVE  child' \in [Inputs -> Steps] /\ status' \in [Inputs -> Nat]
BY Codes DEF TypeOK, End, Goto, Steps

\* Opening a file and writing to it leave files of that type.
LEMMA FilesTyped ==
  ASSUME TypeOK, NEW i \in Inputs, NEW f \in AsmNames \cup {Out}, Truncate(f) \/ Write(i, f)
  PROVE  files' \in Disks
<1>1. CASE Truncate(f)
  BY <1>1 DEF TypeOK, Truncate, Empty
<1>2. CASE Write(i, f)
  <2>1. files[f] \in Contents
    BY DEF TypeOK
  <2>2. files[f].from \cup {i} \in SUBSET (0..Ld)
    BY <2>1, Numbers
  <2>3. [files[f] EXCEPT !.from = @ \cup {i}] \in Contents
    BY <2>1, <2>2
  <2>4. files' = [files EXCEPT ![f] = [files[f] EXCEPT !.from = @ \cup {i}]]
    BY <1>2 DEF Write, TypeOK
  <2> QED
    BY <2>3, <2>4 DEF TypeOK
<1> QED
  BY <1>1, <1>2

\* Every step of the driver, a child or gcc leaves states of the type.
LEMMA TypeStep ==
  ASSUME TypeOK, Counted, Next
  PROVE  TypeOK'
<1>1. ASSUME NEW i \in Inputs, Child(i) PROVE TypeOK'
  <2>1. /\ opts' = opts /\ parent' = parent
        /\ files' = files \/ \E f \in AsmNames \cup {Out} : Truncate(f) \/ Write(i, f)
        /\ \/ \E n \in {0, -1, -3} : End(i, n)
           \/ status' = status /\ \E step \in Steps : Goto(i, step)
    BY <1>1, AsmFileTyped DEF Child, Begin, Preprocess, OpenAsm, Generate, Fail, Steps
  <2>2. files' \in Disks
    BY <2>1, FilesTyped DEF TypeOK
  <2>3. child' \in [Inputs -> Steps] /\ status' \in [Inputs -> Nat]
    BY <2>1, ExitTyped DEF TypeOK, Goto
  <2> QED
    BY <2>1, <2>2, <2>3 DEF TypeOK
<1> USE Numbers, Codes
<1>2. ASSUME Main PROVE TypeOK'
  <2>1. parent \in Parents
    BY DEF TypeOK
  <2>2. parent' \in Parents
    <3>1. ASSUME NEW n \in Int
          PROVE  [parent EXCEPT !.pc = "exited", !.ret = ExitCode(n)] \in Parents
      <4>1. ExitCode(n) \in Int
        BY Codes
      <4> QED
        BY <2>1, <4>1
    <3>2. CASE \E n \in Int : Exit(n)
      BY <3>1, <3>2, Zenon DEF Exit
    <3>3. CASE Fork \/ ForkDone
      BY <3>3, <2>1, Numbers DEF Fork, ForkDone
    <3>4. CASE Wait
      <4>1. PICK i \in Inputs :
              /\ parent.pc = "wait" /\ child[i] = "ended" /\ Goto(i, "reaped")
              /\ Exit(0) \/ parent' = [parent EXCEPT !.waited = @ + 1,
                              !.pc = IF parent.waited + 1 = NInputs THEN "check" ELSE @]
        BY <3>4 DEF Wait
      <4>2. parent.waited + 1 \in 0..NInputs
        BY <4>1, Reaping
      <4>3. CASE Exit(0)
        BY <4>3, <3>2
      <4>4. CASE ~Exit(0)
        BY <4>1, <4>2, <4>4, <2>1
      <4> QED
        BY <4>3, <4>4
    <3>5. CASE Check
      <4>1. CASE \E n \in Int : Exit(n)
        BY <4>1, <3>2
      <4>2. CASE parent' = [parent EXCEPT !.pc = "link"]
        BY <4>2, <2>1
      <4> QED
        BY <3>5, <4>1, <4>2 DEF Check
    <3>6. CASE RunGcc
      <4>1. PICK code \in {0, 1} :
              parent' = [parent EXCEPT !.pc = "remove", !.ret = ExitCode(256 * code)]
        BY <3>6 DEF RunGcc
      <4>2. 256 * code \in Int
        OBVIOUS
      <4>3. ExitCode(256 * code) \in Int
        BY <4>2, Codes
      <4> QED
        BY <4>1, <4>3, <2>1
    <3>7. CASE ForkError
      BY <3>7, <3>2 DEF ForkError
    <3>8. CASE Remove
      BY <3>8, <3>2, <2>1 DEF Remove
    <3> QED
      BY <1>2, <3>3, <3>4, <3>5, <3>6, <3>7, <3>8 DEF Main
  <2>3. opts' = opts /\ status' = status
    BY <1>2 DEF Main, Fork, ForkError, ForkDone, Wait, Check, RunGcc, Remove
  <2>4. child' = child \/ \E i \in Inputs, step \in Steps : Goto(i, step)
    BY <1>2, <2>1, Numbers DEF Main, Fork, ForkError, ForkDone, Wait, Check, RunGcc, Remove, Steps, Inputs
  <2>5. child' \in [Inputs -> Steps]
    BY <2>4 DEF TypeOK, Goto
  <2>6. files' = files \/ files' = [files EXCEPT ![Out] = NoFile]
                       \/ files' = [files EXCEPT ![Out] = [exists |-> TRUE, from |-> {Ld}]]
    BY <1>2 DEF Main, Fork, ForkError, ForkDone, Wait, Check, RunGcc, Remove
  <2>7. {NoFile, [exists |-> TRUE, from |-> {Ld}]} \subseteq Contents
    BY Numbers DEF NoFile
  <2>8. files' \in Disks
    BY <2>6, <2>7 DEF TypeOK
  <2> QED
    BY <2>2, <2>3, <2>5, <2>8 DEF TypeOK
<1>3. ASSUME Finished PROVE TypeOK'
  BY <1>3 DEF TypeOK, Finished, vars
<1> QED
  BY <1>1, <1>2, <1>3 DEF Next

\* No step of a child but its end being waited for changes the parent's count.
LEMMA CountedStep ==
  ASSUME TypeOK, Counted, Next
  PROVE  Counted'
<1>1. ASSUME NEW i \in Inputs, Child(i) PROVE Counted'
  <2>1. /\ parent' = parent /\ opts' = opts
        /\ child[i] \in {"start", "preprocess", "open", "generate"}
        /\ \E step \in Steps \ {"none", "reaped"} : Goto(i, step)
    BY <1>1 DEF Child, Begin, Preprocess, OpenAsm, Generate, Fail, End, Steps
  <2>2. \A j \in Inputs : /\ child'[j] = "none" <=> child[j] = "none"
                          /\ child'[j] = "reaped" <=> child[j] = "reaped"
    BY <2>1 DEF TypeOK, Goto, Steps
  <2>3. Reaped' = Reaped
    BY <2>2 DEF Reaped
  <2> QED
    BY <2>1, <2>2, <2>3 DEF Counted
<1>2. ASSUME Fork PROVE Counted'
  <2>1. parent.forked + 1 \in Inputs /\ parent.pc = "fork"
    BY <1>2, Numbers DEF TypeOK, Fork, Inputs
  <2>2. parent'.pc = "fork" /\ parent'.forked = parent.forked + 1 /\ parent'.waited = parent.waited
    BY <1>2, <2>1 DEF TypeOK, Fork
  <2>3. /\ child' = [child EXCEPT ![parent.forked + 1] = "start"]
        /\ child[parent.forked + 1] = "none"
    BY <1>2, <2>1, Numbers DEF TypeOK, Fork, Goto, Counted
  <2>4. Reaped' = Reaped
    BY <2>1, <2>3 DEF Reaped, TypeOK
  <2>5. \A i \in Inputs : child'[i] = "none" <=> i > parent'.forked
    BY <2>1, <2>2, <2>3, Numbers DEF TypeOK, Counted
  <2> QED
    BY <2>1, <2>2, <2>4, <2>5 DEF Counted
<1>3. ASSUME Wait PROVE Counted'
  <2>1. PICK i \in Inputs :
          /\ parent.pc = "wait" /\ child[i] = "ended" /\ Goto(i, "reaped") /\ opts' = opts
          /\ Exit(0) \/ parent' = [parent EXCEPT !.waited = @ + 1,
                          !.pc = IF parent.waited + 1 = NInputs THEN "check" ELSE @]
    BY <1>3 DEF Wait
  <2>2. \A j \in Inputs : child'[j] = "none" <=> child[j] = "none"
    BY <2>1 DEF TypeOK, Goto
  <2>3. /\ Reaped' = Reaped \cup {i}
        /\ parent.waited + 1 = Cardinality(Reaped')
        /\ parent.waited + 1 = NInputs => Reaped' = Inputs
    BY <2>1, Reaping
  <2>4. CASE Exit(0)
    BY <2>2, <2>4 DEF Exit, Counted, TypeOK
  <2>5. CASE ~Exit(0)
    BY <2>1, <2>2, <2>3, <2>5 DEF Counted, TypeOK
  <2> QED
    BY <2>4, <2>5
<1>4. ASSUME ForkError \/ ForkDone \/ Check \/ RunGcc \/ Remove \/ Finished PROVE Counted'
  <2>1. child' = child /\ opts' = opts /\ parent'.forked = parent.forked /\ parent'.waited = parent.waited
    BY <1>4, ParentAlone
  <2>2. Reaped' = Reaped
    BY <2>1 DEF Reaped
  <2>3. CASE ForkDone
    <3>1. Cardinality(Reaped) = 0 /\ parent.waited = 0
      BY <2>3, FS_EmptySet DEF ForkDone, Counted
    <3>2. parent'.pc = "wait" /\ parent.forked = NInputs
      BY <2>3 DEF ForkDone, TypeOK
    <3> QED
      BY <2>1, <2>2, <3>1, <3>2 DEF Counted
  <2>4. CASE Check
    BY <2>1, <2>2, <2>4 DEF Check, Exit, Counted, TypeOK
  <2>5. CASE RunGcc
    BY <2>1, <2>2, <2>5 DEF RunGcc, Counted, TypeOK
  <2>6. CASE ForkError \/ Remove
    BY <2>1, <2>2, <2>6 DEF ForkError, Remove, Exit, Counted, TypeOK
  <2>7. CASE Finished
    BY <2>1, <2>2, <2>7 DEF Finished, vars, Counted
  <2> QED
    BY <1>4, <2>3, <2>4, <2>5, <2>6, <2>7
<1> QED
  BY <1>1, <1>2, <1>3, <1>4 DEF Next, Main

\* Only a process that ends sets its status, and the parent leaves at the first bad one.
LEMMA StatusesStep ==
  ASSUME TypeOK, Counted, Statuses, Next
  PROVE  Statuses'
<1>1. ASSUME NEW i \in Inputs, Child(i) PROVE Statuses'
  <2>1. /\ parent' = parent /\ gcc' = gcc
        /\ child[i] \in {"start", "preprocess", "open", "generate"}
        /\ \/ status' = status /\ \E step \in Steps \ {"none", "ended", "reaped"} : Goto(i, step)
           \/ \E n \in {0, -1, -3} : End(i, n)
    BY <1>1 DEF Child, Begin, Preprocess, OpenAsm, Generate, Fail, Steps
  <2>2. \A j \in Inputs : j # i => child'[j] = child[j] /\ status'[j] = status[j]
    BY <2>1 DEF TypeOK, Goto, End
  <2>3. child'[i] # "reaped" /\ (status'[i] # 0 => child'[i] = "ended")
    BY <2>1 DEF TypeOK, Goto, End, Steps, Statuses
  <2>4. Reaped' = Reaped /\ i \notin Reaped
    BY <2>1, <2>2, <2>3 DEF Reaped
  <2>5. parent.pc = "exited" /\ parent.forked = NInputs => Failed
    BY <2>4 DEF Statuses
  <2>6. Failed => Failed'
    BY <2>1, <2>2 DEF Failed, Statuses
  <2> QED
    BY <2>1, <2>2, <2>3, <2>4, <2>5, <2>6 DEF Statuses, Reaped
<1>2. ASSUME Fork PROVE Statuses'
  <2>1. /\ parent.forked + 1 \in Inputs /\ parent'.pc = "fork" /\ Reaped = {}
        /\ child' = [child EXCEPT ![parent.forked + 1] = "start"] /\ status' = status
    BY <1>2, Numbers DEF TypeOK, Fork, Goto, Inputs, Counted
  <2>2. Reaped' = {} /\ child[parent.forked + 1] = "none"
    BY <2>1 DEF Reaped, TypeOK, Counted
  <2> QED
    BY <2>1, <2>2 DEF Statuses, TypeOK
<1>3. ASSUME Wait PROVE Statuses'
  <2>1. PICK i \in Inputs :
          /\ parent.pc = "wait" /\ child[i] = "ended" /\ Goto(i, "reaped")
          /\ status' = status /\ gcc' = gcc
          /\ IF status[i] # 0 THEN Exit(0)
             ELSE parent' = [parent EXCEPT !.waited = @ + 1,
                          !.pc = IF parent.waited + 1 = NInputs THEN "check" ELSE @]
    BY <1>3 DEF Wait
  <2>2. \A j \in Inputs : child'[j] = IF j = i THEN "reaped" ELSE child[j]
    BY <2>1 DEF TypeOK, Goto
  <2>3. Reaped' = Reaped \cup {i}
    BY <2>2 DEF Reaped
  <2>4. CASE status[i] # 0
    BY <2>1, <2>2, <2>4 DEF Statuses, Exit, Failed, TypeOK
  <2>5. CASE status[i] = 0
    BY <2>1, <2>2, <2>3, <2>5 DEF Statuses, TypeOK
  <2> QED
    BY <2>4, <2>5
<1>4. ASSUME ForkError \/ ForkDone \/ Check \/ RunGcc \/ Remove \/ Finished PROVE Statuses'
  <2>1. child' = child /\ status' = status /\ parent'.forked = parent.forked
    BY <1>4, ParentAlone
  <2>2. Reaped' = Reaped
    BY <2>1 DEF Reaped
  <2>3. CASE ForkDone
    BY <2>1, <2>2, <2>3 DEF ForkDone, Statuses, TypeOK
  <2>4. CASE ForkError
    BY <2>1, <2>2, <2>4, Numbers DEF ForkError, Exit, Statuses, TypeOK
  <2>5. CASE Check \/ RunGcc \/ Remove
    BY <2>1, <2>2, <2>5 DEF Check, RunGcc, Remove, Exit, Statuses, Counted, TypeOK
  <2>6. CASE Finished
    BY <2>1, <2>2, <2>6 DEF Finished, vars, Statuses, Failed
  <2> QED
    BY <1>4, <2>3, <2>4, <2>5, <2>6
<1> QED
  BY <1>1, <1>2, <1>3, <1>4 DEF Next, Main

\* With files of their own, children write what they themselves have opened.
LEMMA CompiledStep ==
  ASSUME TypeOK, Statuses, Compiled, Next
  PROVE  Compiled'
<1> SUFFICES ASSUME opts'.mode = "link", OwnFiles', NEW i \in Inputs
             PROVE  /\ child'[i] = "generate" => files'[opts'.asm[i]].from = {}
                    /\ child'[i] \in {"ended", "reaped"} /\ status'[i] = 0 => files'[opts'.asm[i]].from = {i}
  BY DEF Compiled
<1>1. opts' = opts
  BY DEF Next, Main, Child, Begin, Preprocess, OpenAsm, Generate, Fail, Fork, ForkError, ForkDone,
         Wait, Check, RunGcc, Remove, Finished, vars
<1>2. /\ child[i] = "generate" => files[opts.asm[i]].from = {}
      /\ child[i] \in {"ended", "reaped"} /\ status[i] = 0 => files[opts.asm[i]].from = {i}
  BY <1>1 DEF Compiled, OwnFiles
<1>3. \A j \in Inputs : AsmFile(j) = opts.asm[j] /\ opts.asm[j] \in AsmNames /\ opts.asm[j] # Out
  BY <1>1, OutAssumption DEF TypeOK, Options, AsmFile
<1>4. \A j \in Inputs : j # i => opts.asm[j] # opts.asm[i]
  BY <1>1 DEF OwnFiles
<1>5. ASSUME NEW j \in Inputs, j # i, Child(j) PROVE files'[opts.asm[i]] = files[opts.asm[i]]
  BY <1>1, <1>3, <1>4, <1>5 DEF Child, Begin, Preprocess, OpenAsm, Generate, Fail, Truncate, Write, TypeOK
<1>6. ASSUME NEW j \in Inputs, j # i, Child(j) PROVE child'[i] = child[i] /\ status'[i] = status[i]
  BY <1>6 DEF Child, Begin, Preprocess, OpenAsm, Generate, Fail, Goto, End, TypeOK
<1>7. CASE Child(i)
  <2>1. CASE Begin(i) \/ Fail(i)
    BY <2>1, Codes DEF Begin, Fail, Goto, End, TypeOK
  <2>2. CASE Preprocess(i)
    BY <2>2, <1>1 DEF Preprocess, Goto, TypeOK
  <2>3. CASE OpenAsm(i)
    BY <2>3, <1>1, <1>3 DEF OpenAsm, Goto, Truncate, Empty, TypeOK
  <2>4. CASE Generate(i)
    <3>1. files[opts.asm[i]].from = {}
      BY <2>4, <1>2 DEF Generate
    <3>2. files'[opts.asm[i]].from = {i}
      BY <2>4, <1>3, <3>1 DEF Generate, Write, TypeOK
    <3> QED
      BY <2>4, <1>1, <3>2 DEF Generate, Goto, End, TypeOK
  <2> QED
    BY <1>7, <2>1, <2>2, <2>3, <2>4 DEF Child
<1>8. ASSUME Main \/ Finished
      PROVE  files'[opts.asm[i]] = files[opts.asm[i]] /\ status' = status
  BY <1>8, <1>3 DEF Main, Fork, ForkError, ForkDone, Wait, Check, RunGcc, Remove, Finished, vars, TypeOK
<1>9. ASSUME Main \/ Finished
      PROVE  child'[i] \in {"generate", "ended", "reaped"} =>
               child[i] = child'[i] \/ (child[i] = "ended" /\ child'[i] = "reaped")
  <2>1. CASE Fork
    <3>1. child' = [child EXCEPT ![parent.forked + 1] = "start"]
      BY <2>1 DEF Fork, Goto
    <3> QED
      BY <3>1 DEF TypeOK
  <2>2. CASE Wait
    <3>1. PICK j \in Inputs : child[j] = "ended" /\ child' = [child EXCEPT ![j] = "reaped"]
      BY <2>2 DEF Wait, Goto
    <3> QED
      BY <3>1 DEF TypeOK
  <2>3. CASE child' = child
    BY <2>3
  <2> QED
    BY <1>9, <2>1, <2>2, <2>3 DEF Main, ForkError, ForkDone, Check, RunGcc, Remove, Finished, vars
<1> QED
  BY <1>1, <1>2, <1>5, <1>6, <1>7, <1>8, <1>9 DEF Next

-----------------------------------------------------------------------------
\* The inductive invariant: the parent's counts, the children's statuses and the
\* content of the assembly files, in every interleaving.
THEOREM DriverInvariant == Spec => []IInv
<1>1. ASSUME Init PROVE IInv
  <2>1. TypeOK
    <3>1. opts \in Options /\ status \in [Inputs -> Nat] /\ child \in [Inputs -> Steps]
      BY <1>1 DEF Init, Steps
    <3>2. {NoFile, [exists |-> TRUE, from |-> {Stale}]} \subseteq Contents
      BY Numbers DEF NoFile, Stale, Ld
    <3>3. files \in Disks
      BY <1>1, <3>2 DEF Init
    <3> QED
      BY <1>1, <3>1, <3>3, Numbers DEF Init, TypeOK
  <2>2. Reaped = {}
    BY <1>1 DEF Init, Reaped
  <2>3. Counted
    BY <1>1, <2>2, Numbers DEF Init, Counted, Inputs
  <2>4. Statuses /\ Compiled
    BY <1>1, <2>2 DEF Init, Statuses, Compiled
  <2> QED
    BY <2>1, <2>3, <2>4 DEF IInv
<1>2. IInv /\ [Next]_vars => IInv'
  <2>1. ASSUME IInv, Next PROVE IInv'
    BY <2>1, TypeStep, CountedStep, StatusesStep, CompiledStep DEF IInv
  <2>2. ASSUME IInv, UNCHANGED vars PROVE IInv'
    BY <2>2 DEF IInv, TypeOK, Counted, Statuses, Compiled, Reaped, Failed, OwnFiles, vars
  <2> QED
    BY <2>1, <2>2
<1> QED
  BY <1>1, <1>2, PTL DEF Spec

\* gcc runs when every child has ended well, and the files it is given hold what the
\* children compiled from their own inputs, however the children were scheduled.
THEOREM LinksWhatWasCompiledAlways == Spec => LinksWhatWasCompiled
<1> DEFINE Linked == gcc' # gcc => /\ \A i \in Inputs : child[i] = "reaped" /\ status[i] = 0
                                   /\ OwnFiles => \A i \in Inputs : files[opts.asm[i]].from = {i}
<1>1. ASSUME IInv, Next PROVE Linked
  <2>1. CASE RunGcc
    <3>1. parent.pc = "link"
      BY <2>1 DEF RunGcc
    <3>2. Reaped = Inputs /\ opts.mode = "link"
      BY <1>1, <3>1 DEF IInv, Counted
    <3>3. \A i \in Inputs : child[i] = "reaped" /\ status[i] = 0
      BY <1>1, <3>1, <3>2 DEF IInv, Statuses, Reaped
    <3> QED
      BY <1>1, <3>2, <3>3 DEF IInv, Compiled
  <2>2. CASE ~RunGcc
    BY <1>1, <2>2 DEF Next, Main, Child, Begin, Preprocess, OpenAsm, Generate, Fail, Fork, ForkError,
                      ForkDone, Wait, Check, Remove, Finished, vars
  <2> QED
    BY <2>1, <2>2
<1>2. IInv /\ [Next]_vars => [Linked]_vars
  BY <1>1
<1> QED
  BY <1>2, DriverInvariant, PTL DEF Spec, LinksWhatWasCompiled

\* When the driver has exited and nothing has failed, no process is left to write a file.
THEOREM QuietAfterSuccessAlways == Spec => QuietAfterSuccess
<1> DEFINE Quiet == parent.pc = "exited" /\ parent.forked = NInputs /\ ~Failed => files' = files
<1>1. ASSUME IInv, Next PROVE Quiet
  <2> SUFFICES ASSUME parent.pc = "exited", parent.forked = NInputs, ~Failed PROVE files' = files
    OBVIOUS
  <2>1. \A i \in Inputs : child[i] = "reaped"
    BY <1>1 DEF IInv, Statuses, Reaped
  <2>2. ~ \E i \in Inputs : Child(i)
    BY <2>1 DEF Child, Begin, Preprocess, OpenAsm, Generate, Fail
  <2>3. ~Main
    BY DEF Main, Fork, ForkError, ForkDone, Wait, Check, RunGcc, Remove
  <2> QED
    BY <1>1, <2>2, <2>3 DEF Next, Finished, vars
<1>2. IInv /\ [Next]_vars => [Quiet]_vars
  BY <1>1
<1> QED
  BY <1>2, DriverInvariant, PTL DEF Spec, QuietAfterSuccess
=============================================================================
