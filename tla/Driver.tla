------------------------------ MODULE Driver ------------------------------
(***************************************************************************)
(* The driver, main() of src/src/main.cc: one child process per input file *)
(* preprocesses and compiles it into an assembly file of the working       *)
(* directory, the parent waits for the children and then runs gcc on the   *)
(* assembly files.                                                         *)
(*                                                                         *)
(* The processes share the file system only.  A file's content is the set  *)
(* of those whose bytes it holds: inputs, the linker, or an earlier run.   *)
(* Opening a file for writing truncates it, and the bytes reach it later,  *)
(* so two writers of one file can mix.  A compilation may fail at any step *)
(* (Error() exits, an assertion aborts); fopen is assumed to succeed.      *)
(***************************************************************************)
EXTENDS Integers, FiniteSets

CONSTANTS
  NInputs,       \* the number of input files, in command line order
  AsmNames,      \* what GetName() makes of their paths, with the last letter an s
  Out            \* the file named by -o

Inputs == 1..NInputs
Stale == 0             \* bytes of an earlier run
Ld == NInputs + 1      \* bytes written by gcc

ASSUME NInputsAssumption == NInputs \in Nat \ {0}
ASSUME OutAssumption == Out \notin AsmNames

VARIABLES
  opts,          \* the parsed command line
  parent,        \* where main() is: its step, forks and waits done, exit status
  child,         \* child[i]: the step of the process compiling input i
  status,        \* status[i]: its wait status once it has ended
  gcc,           \* the run of gcc: not yet, ok or failed
  files          \* files[f]: whether f exists and whose bytes it holds

vars == <<opts, parent, child, status, gcc, files>>

Options == [mode : {"link", "compile", "preprocess"},   \* neither -S nor -E, -S, -E
            named : BOOLEAN,                            \* specified_out_name
            ext : [Inputs -> {"c", "other"}],           \* .c, or one of .s .o .a
            asm : [Inputs -> AsmNames]]
NoFile == [exists |-> FALSE, from |-> {}]
Empty == [exists |-> TRUE, from |-> {}]

Init ==
  /\ opts \in Options
  /\ parent = [pc |-> "fork", forked |-> 0, waited |-> 0, ret |-> 0]
  /\ child = [i \in Inputs |-> "none"]
  /\ status = [i \in Inputs |-> 0]
  /\ gcc = "no"
  /\ \E old \in {NoFile, [exists |-> TRUE, from |-> {Stale}]} :
       files = [f \in AsmNames \cup {Out} |-> old]

-----------------------------------------------------------------------------
\* The child's filename_out while it generates code.
AsmFile(i) == IF opts.mode = "compile" /\ opts.named THEN Out ELSE opts.asm[i]

\* What a parent sees of a process that returns n from main or calls exit(n).
ExitCode(n) == n % 256

Goto(i, step) == child' = [child EXCEPT ![i] = step]

End(i, n) ==
  /\ Goto(i, "ended")
  /\ status' = [status EXCEPT ![i] = ExitCode(n)]

Truncate(f) == files' = [files EXCEPT ![f] = Empty]

Write(i, f) == files' = [files EXCEPT ![f].from = @ \cup {i}]

(* RunWgtcc refuses anything but a .c file, and opens the file named by -o *)
(* whether or not it will write to it.                                     *)
Begin(i) ==
  /\ child[i] = "start"
  /\ IF opts.ext[i] # "c"
       THEN End(i, -3) /\ UNCHANGED files
       ELSE /\ Goto(i, "preprocess")
            /\ IF opts.named THEN Truncate(Out) ELSE UNCHANGED files
            /\ UNCHANGED status
  /\ UNCHANGED <<opts, parent, gcc>>

Preprocess(i) ==
  /\ child[i] = "preprocess"
  /\ IF opts.mode # "preprocess"
       THEN Goto(i, "open") /\ UNCHANGED <<status, files>>
       ELSE /\ End(i, 0)
            /\ IF opts.named THEN Write(i, Out) ELSE UNCHANGED files
  /\ UNCHANGED <<opts, parent, gcc>>

OpenAsm(i) ==
  /\ child[i] = "open"
  /\ Truncate(AsmFile(i))
  /\ Goto(i, "generate")
  /\ UNCHANGED <<opts, parent, status, gcc>>

Generate(i) ==
  /\ child[i] = "generate"
  /\ Write(i, AsmFile(i))
  /\ End(i, 0)
  /\ UNCHANGED <<opts, parent, gcc>>

(* An error in the source: exit(-1), or an abort, wherever the child is.   *)
(* Leaving through exit() flushes what was generated so far.               *)
Fail(i) ==
  /\ child[i] \in {"preprocess", "open", "generate"}
  /\ End(i, -1)
  /\ \/ UNCHANGED files
     \/ child[i] = "generate" /\ Write(i, AsmFile(i))
  /\ UNCHANGED <<opts, parent, gcc>>

Child(i) == Begin(i) \/ Preprocess(i) \/ OpenAsm(i) \/ Generate(i) \/ Fail(i)

-----------------------------------------------------------------------------
Exit(n) == parent' = [parent EXCEPT !.pc = "exited", !.ret = ExitCode(n)]

Fork ==
  /\ parent.pc = "fork"
  /\ parent.forked < NInputs
  /\ parent' = [parent EXCEPT !.forked = @ + 1]
  /\ Goto(parent.forked + 1, "start")
  /\ UNCHANGED <<opts, status, gcc, files>>

ForkError ==
  /\ parent.pc = "fork"
  /\ parent.forked < NInputs
  /\ Exit(-1)
  /\ UNCHANGED <<opts, child, status, gcc, files>>

ForkDone ==
  /\ parent.pc = "fork"
  /\ parent.forked = NInputs
  /\ parent' = [parent EXCEPT !.pc = "wait"]
  /\ UNCHANGED <<opts, child, status, gcc, files>>

(* wait() hands over any child that has ended.  On the first that failed   *)
(* main() returns 0, without waiting for the others.                       *)
\* A bug to be caught: a failed child does not stop the link.
WaitIgnoringStatus ==
  /\ parent.pc = "wait"
  /\ \E i \in Inputs :
       /\ child[i] = "ended"
       /\ Goto(i, "reaped")
       /\ parent' = [parent EXCEPT !.waited = @ + 1,
                                   !.pc = IF parent.waited + 1 = NInputs THEN "check" ELSE @]
  /\ UNCHANGED <<opts, status, gcc, files>>

\* A bug to be caught: one wait() for all the children.
WaitOnce ==
  /\ parent.pc = "wait"
  /\ \E i \in Inputs :
       /\ child[i] = "ended"
       /\ Goto(i, "reaped")
       /\ IF status[i] # 0 THEN Exit(0)
          ELSE parent' = [parent EXCEPT !.waited = @ + 1, !.pc = "check"]
  /\ UNCHANGED <<opts, status, gcc, files>>

\* A bug to be caught: the children are waited for in order, and one that
\* failed is not counted.
WaitForSuccess ==
  /\ parent.pc = "wait"
  /\ LET i == parent.waited + 1
     IN /\ child[i] = "ended"
        /\ status[i] = 0
        /\ Goto(i, "reaped")
        /\ parent' = [parent EXCEPT !.waited = i, !.pc = IF i = NInputs THEN "check" ELSE @]
  /\ UNCHANGED <<opts, status, gcc, files>>

Wait ==
  /\ parent.pc = "wait"
  /\ \E i \in Inputs :
       /\ child[i] = "ended"
       /\ Goto(i, "reaped")
       /\ IF status[i] # 0 THEN Exit(0)
          ELSE parent' = [parent EXCEPT !.waited = @ + 1,
                                        !.pc = IF parent.waited + 1 = NInputs THEN "check" ELSE @]
  /\ UNCHANGED <<opts, status, gcc, files>>

(* Only now is -o with several inputs refused.                             *)
Check ==
  /\ parent.pc = "check"
  /\ IF opts.mode = "link" THEN parent' = [parent EXCEPT !.pc = "link"]
     ELSE IF opts.named /\ NInputs > 1 THEN Exit(-1)
     ELSE Exit(0)
  /\ UNCHANGED <<opts, child, status, gcc, files>>

(* RunGcc returns what system() does, gcc's exit code in the high byte.    *)
RunGcc ==
  /\ parent.pc = "link"
  /\ \E code \in {0, 1} :
       /\ gcc' = IF code = 0 THEN "ok" ELSE "failed"
       /\ files' = IF code = 0 /\ opts.named
                     THEN [files EXCEPT ![Out] = [exists |-> TRUE, from |-> {Ld}]]
                     ELSE files
       /\ parent' = [parent EXCEPT !.pc = "remove", !.ret = ExitCode(256 * code)]
  /\ UNCHANGED <<opts, child, status>>

(* The parent's filename_out is the name given with -o, or empty: the      *)
(* assembly files' names were set in the children.                         *)
Remove ==
  /\ parent.pc = "remove"
  /\ files' = IF opts.named THEN [files EXCEPT ![Out] = NoFile] ELSE files
  /\ Exit(parent.ret)
  /\ UNCHANGED <<opts, child, status, gcc>>

Main == Fork \/ ForkError \/ ForkDone \/ Wait \/ Check \/ RunGcc \/ Remove

Finished ==
  /\ parent.pc = "exited"
  /\ \A i \in Inputs : child[i] \in {"none", "ended", "reaped"}
  /\ UNCHANGED vars

Next == Main \/ (\E i \in Inputs : Child(i)) \/ Finished

(* The operating system schedules every process that can run.              *)
Spec == Init /\ [][Next]_vars /\ WF_vars(Main) /\ \A i \in Inputs : WF_vars(Child(i))
-----------------------------------------------------------------------------
Failed == gcc = "failed" \/ \E i \in Inputs : status[i] # 0

\* The inputs have different file names, and -o names no one's assembly file.
OwnFiles ==
  /\ \A i, j \in Inputs : opts.asm[i] = opts.asm[j] => i = j
  /\ opts.named => opts.mode = "link"

(* gcc is given complete and current assembly files: it runs after every   *)
(* child has succeeded, and each file holds its own input's code, no stale *)
(* one and nobody else's.                                                  *)
LinksWhatWasCompiled ==
  [][gcc' # gcc => /\ \A i \in Inputs : child[i] = "reaped" /\ status[i] = 0
                   /\ OwnFiles => \A i \in Inputs : files[opts.asm[i]].from = {i}]_vars

(* Once the driver has exited without a failure the file system is at      *)
(* rest: no child is left behind that still writes.                        *)
QuietAfterSuccess ==
  [][parent.pc = "exited" /\ parent.forked = NInputs /\ ~Failed => files' = files]_vars

(* main() returns, whatever the children do and in whatever order they     *)
(* end, and none of them stays behind for ever.                            *)
Terminates ==
  <>(parent.pc = "exited" /\ \A i \in Inputs : child[i] \in {"none", "ended", "reaped"})
=============================================================================
