------------------------------- MODULE Shell -------------------------------
(***************************************************************************)
(* The shell of hw2/hw2.c.  main reads a line, sequence splits it, execute *)
(* opens the files of a command's redirections over descriptors 0 to 2,    *)
(* runs the command, and puts the saved copies back.                       *)
(*                                                                         *)
(* A program is looked for by a chain of processes: the shell forks one    *)
(* that tries the word as it is, and each one whose execv fails forks the  *)
(* next, for the next directory of PATH, and waits for it.  All but the    *)
(* last are waiting, so the chain is its length (depth) and the status the *)
(* last waitpid has returned.  Stdout is a file (runtests.sh:57), so what  *)
(* printf leaves in its buffer is inherited by each process and written by *)
(* each one that ends in the exit macro.                                   *)
(*                                                                         *)
(* A program may read its input to the end, and ends with any status.      *)
(***************************************************************************)
EXTENDS CommandLine, FiniteSets

CONSTANTS
  Lines,        \* what may be read as a line
  Existing,     \* the names of the files there are at first
  OPEN_MAX,     \* the size of the descriptor table
  MAX_LINES     \* bound: how many lines are read

ASSUME ShellAssumption ==
  /\ OPEN_MAX \in Nat /\ OPEN_MAX >= 6
  /\ MAX_LINES \in Nat
  /\ Lines \subseteq Seq(STRING)

VARIABLES
  pc,           \* what the shell, or the last process of the chain, does next
  rest,         \* the text behind the command being run
  text,         \* the command, and what is left of it when its redirections are cut off
  table,        \* the shell's descriptors
  copies,       \* stdinCopy, stdoutCopy, stderrCopy
  depth,        \* the length of the chain
  status,       \* what the last waitpid returned
  buffered,     \* "File opening failed" messages in stdout's buffer
  files,        \* the names of the files there are
  drained,      \* the streams that have been read to their end
  lines, opens, \* how many lines were read, and files opened
  shown,        \* history: the messages shown since this command began
  settled,      \* history: what the last command left, as Redirection has it
  seen, ran,    \* history: the streams of this command, and of those before
  forked        \* history: no fork of this command has failed

fdVars == <<table, copies, files, opens>>
procVars == <<depth, status>>
ioVars == <<buffered, drained, shown>>
history == <<settled, seen, ran, forked>>
vars == <<pc, rest, text, fdVars, procVars, ioVars, lines, history>>

Std == 0 .. 2
Fds == 0 .. OPEN_MAX - 1
Failed == -1                             \* what a failed dup returns
NotSaved == -500

Stream(name, id) == [name |-> name, id |-> id]
Closed == Stream(<<>>, 0)
Given == [d \in Std |-> Stream(<<>>, -1 - d)]
NotRun == [d \in Std |-> Closed]

StdStreams == [d \in Std |-> table[d]]
FreeFds(t) == {f \in Fds : t[f] = Closed}
Lowest(S) == CHOOSE f \in S : \A g \in S : f <= g

Init ==
  /\ pc = "prompt" /\ rest = Nothing /\ text = <<>>
  /\ table = [f \in Fds |-> IF f < 6 THEN Given[f % 3] ELSE Closed]
  /\ copies = [d \in Std |-> NotSaved]
  /\ depth = 0 /\ status = 0
  /\ buffered = 0 /\ drained = {} /\ shown = <<>>
  /\ files = Existing
  /\ lines = 0 /\ opens = 0
  /\ settled = [rest |-> Nothing, own |-> Given, left |-> OPEN_MAX - 6,
                 files |-> Existing, opens |-> 0]
  /\ seen = NotRun /\ ran = <<>> /\ forked = TRUE

-----------------------------------------------------------------------------
(* main and sequence.                                                      *)

\* fflush(stdout): the messages in the buffer are shown.
Flush ==
  /\ shown' = shown \o [i \in 1 .. buffered |-> "failed"]
  /\ buffered' = 0

ReadLine ==
  /\ pc = "prompt" /\ lines < MAX_LINES
  /\ table[0] \notin drained
  /\ \E line \in Lines : rest' = Commands(line)
  /\ pc' = "next"
  /\ lines' = lines + 1
  /\ settled' = [settled EXCEPT !.rest = rest']
  /\ UNCHANGED <<text, fdVars, procVars, ioVars, seen, ran, forked>>

\* read_line returns 0: the end of the input, whoever has read it.
ReadEnd ==
  /\ pc = "prompt"
  /\ pc' = "ended"
  /\ UNCHANGED <<rest, text, fdVars, procVars, ioVars, lines, history>>

\* main prints its prompt and flushes what execute has left in the buffer.
Prompt ==
  /\ pc = "next" /\ rest = Nothing
  /\ pc' = "prompt"
  /\ Flush
  /\ UNCHANGED <<rest, text, fdVars, procVars, drained, lines, history>>

\* Slip: the rest of the line is not cut.
NextCommandAgain ==
  /\ pc = "next" /\ rest # Nothing
  /\ text' = Before(rest, ";")
  /\ pc' = "stderr"
  /\ copies' = [d \in Std |-> NotSaved]
  /\ seen' = NotRun /\ shown' = <<>> /\ forked' = TRUE
  /\ UNCHANGED <<rest, table, files, opens, procVars, buffered, drained, lines, settled, ran>>

NextCommand ==
  /\ pc = "next" /\ rest # Nothing
  /\ text' = Before(rest, ";")
  /\ rest' = Behind(rest)
  /\ pc' = "stderr"
  /\ copies' = [d \in Std |-> NotSaved]
  /\ seen' = NotRun /\ shown' = <<>> /\ forked' = TRUE
  /\ UNCHANGED <<table, files, opens, procVars, buffered, drained, lines, settled, ran>>

-----------------------------------------------------------------------------
(* execute: redirections.                                                  *)

\* Slip: the file stays open beside its descriptor d.
KeepOpen(t, file) == t

Close(t, file) == [t EXCEPT ![file] = Closed]

\* open, dup, dup2 and close, each of which may find the table full.
Attach(d, name, ok) ==
  LET file    == IF ok /\ FreeFds(table) # {} THEN Lowest(FreeFds(table)) ELSE Failed
      stream  == Stream(name, opens + 1)
      opened  == IF file = Failed THEN table ELSE [table EXCEPT ![file] = stream]
      copy    == IF FreeFds(opened) = {} THEN Failed ELSE Lowest(FreeFds(opened))
      saved   == IF copy = Failed THEN opened ELSE [opened EXCEPT ![copy] = table[d]]
  IN
  /\ copies' = [copies EXCEPT ![d] = copy]
  /\ IF file = Failed
     THEN /\ table' = saved
          /\ buffered' = buffered + 1
          /\ UNCHANGED <<files, opens>>
     ELSE /\ table' = Close([saved EXCEPT ![d] = stream], file)
          /\ files' = files \cup {name}
          /\ opens' = opens + 1
          /\ UNCHANGED buffered

Redirect(d, op, here, next) ==
  /\ pc = here /\ pc' = next
  /\ text' = Before(text, op)
  /\ IF Has(text, op)
     THEN LET name == After(text, op) IN
          Attach(d, name, IF d = 0 THEN name \in files ELSE name \in Creatable)
     ELSE UNCHANGED <<fdVars, buffered>>
  /\ UNCHANGED <<rest, procVars, drained, shown, lines, history>>

RedirectErr == Redirect(2, "2>", "stderr", "stdout")
RedirectOut == Redirect(1, ">", "stdout", "stdin")
RedirectIn  == Redirect(0, "<", "stdin", "command")

-----------------------------------------------------------------------------
(* execute: the command.                                                   *)

Settle(t) ==
  settled' = [rest |-> rest, own |-> [d \in Std |-> t[d]],
              left |-> Cardinality(FreeFds(t)), files |-> files, opens |-> opens]

\* No word: execute returns and leaves the redirections as they are.
Blank ==
  /\ pc = "command" /\ text = <<>>
  /\ pc' = "next"
  /\ Settle(table)
  /\ UNCHANGED <<rest, text, fdVars, procVars, ioVars, lines, seen, ran, forked>>

Echo ==
  /\ pc = "command" /\ text # <<>> /\ IsBuiltin(text)
  /\ pc' = "restore"
  /\ seen' = StdStreams
  /\ Flush
  /\ UNCHANGED <<rest, text, fdVars, procVars, drained, lines, settled, ran, forked>>

\* getargs writes behind its array, and the address sanitizer ends the shell.
Abort ==
  /\ pc = "command" /\ text # <<>> /\ ~IsBuiltin(text) /\ Overflows(text)
  /\ pc' = "aborted"
  /\ UNCHANGED <<rest, text, fdVars, procVars, ioVars, lines, history>>

Program ==
  /\ pc = "command" /\ text # <<>> /\ ~IsBuiltin(text) /\ ~Overflows(text)
  /\ pc' = "fork"
  /\ UNCHANGED <<rest, text, fdVars, procVars, ioVars, lines, history>>

Fork ==
  /\ pc = "fork"
  /\ depth' = depth + 1
  /\ pc' = "exec"
  /\ UNCHANGED <<rest, text, fdVars, status, ioVars, lines, history>>

\* fork returns -1, which is taken for a child; waitpid has nothing to wait
\* for, and the status is what the stack holds.
ForkFails ==
  /\ pc = "fork"
  /\ status' \in {0, 1}
  /\ forked' = FALSE
  /\ pc' = "wait"
  /\ UNCHANGED <<rest, text, fdVars, depth, ioVars, lines, settled, seen, ran>>

\* The program runs, with the process's descriptors, and ends.
Exec ==
  /\ pc = "exec" /\ depth \in Attempts(text[1])
  /\ seen' = StdStreams
  /\ drained' \in {drained, drained \cup {table[0]}}
  /\ status' \in {0, 1}
  /\ depth' = depth - 1
  /\ pc' = "wait"
  /\ UNCHANGED <<rest, text, fdVars, buffered, shown, lines, settled, ran, forked>>

\* Slip: a process ends in _exit itself.
ExitAtOnce(code) ==
  /\ status' = code
  /\ depth' = depth - 1
  /\ pc' = "wait"
  /\ UNCHANGED <<rest, text, fdVars, ioVars, lines, history>>

\* A process ends in the exit macro, which flushes its copy of the buffer.
Exit(code) ==
  /\ status' = code
  /\ depth' = depth - 1
  /\ shown' = shown \o [i \in 1 .. buffered |-> "failed"]
  /\ pc' = "wait"
  /\ UNCHANGED <<rest, text, fdVars, buffered, drained, lines, history>>

\* Slip: the end of PATH is not seen.
ExecFailsOn ==
  /\ pc = "exec" /\ depth \notin Attempts(text[1])
  /\ pc' = "fork"
  /\ UNCHANGED <<rest, text, fdVars, procVars, ioVars, lines, history>>

\* execv fails, and there is a directory left to try.
ExecFails ==
  /\ pc = "exec" /\ depth \notin Attempts(text[1])
  /\ depth <= Len(Path)
  /\ pc' = "fork"
  /\ UNCHANGED <<rest, text, fdVars, procVars, ioVars, lines, history>>

\* Slip: not finding the program counts as success.
GiveUpQuietly ==
  /\ pc = "exec" /\ depth \notin Attempts(text[1])
  /\ depth > Len(Path)
  /\ Exit(0)

GiveUp ==
  /\ pc = "exec" /\ depth \notin Attempts(text[1])
  /\ depth > Len(Path)
  /\ Exit(1)

PassOn == pc = "wait" /\ depth > 0 /\ Exit(IF status = 0 THEN 0 ELSE 1)

\* The shell's own waitpid: it complains, unless it has redirected stderr.
Report ==
  /\ pc = "wait" /\ depth = 0
  /\ shown' = IF status > 0 /\ copies[2] = NotSaved THEN Append(shown, "not found")
                                                    ELSE shown
  /\ pc' = "restore"
  /\ UNCHANGED <<rest, text, fdVars, procVars, buffered, drained, lines, history>>

\* Slip: stderr is not restored.
PutBackTwo == [f \in Fds |-> IF f \in 0 .. 1 /\ copies[f] \in Fds THEN table[copies[f]] ELSE table[f]]

\* The copies stay open, and a copy that could not be made is not put back.
PutBack == [f \in Fds |-> IF f \in Std /\ copies[f] \in Fds THEN table[copies[f]] ELSE table[f]]

Restore ==
  /\ pc = "restore"
  /\ Flush
  /\ table' = PutBack
  /\ Settle(PutBack)
  /\ ran' = Append(ran, [words |-> text, streams |-> seen])
  /\ pc' = "next"
  /\ UNCHANGED <<rest, text, copies, files, opens, procVars, drained, lines, seen, forked>>

Execute ==
  \/ RedirectErr \/ RedirectOut \/ RedirectIn
  \/ Blank \/ Echo \/ Abort \/ Program
  \/ Fork \/ ForkFails \/ Exec \/ ExecFails \/ GiveUp \/ PassOn \/ Report
  \/ Restore

RunLine == Prompt \/ NextCommand \/ Execute

Done == pc \in {"ended", "aborted"} /\ UNCHANGED vars

Next == ReadLine \/ ReadEnd \/ RunLine \/ Done

Spec == Init /\ [][Next]_vars

\* The shell is one process, and the programs it waits for end.
FairSpec == Spec /\ WF_vars(RunLine)

-----------------------------------------------------------------------------
(* Correctness.                                                            *)

Tokens == {"end of line"} \cup UNION {Range(line) : line \in Lines}
Streams == [name : Seq(Tokens), id : Int]

\* Every variable keeps its type: what is run and opened is made of what was
\* read, no more processes wait than PATH has directories (hw2.c:225), and the
\* shell's own descriptors are never closed, whatever fails (hw2.c:299-307).
TypeOK ==
  /\ pc \in {"prompt", "next", "stderr", "stdout", "stdin", "command", "fork",
             "exec", "wait", "restore", "ended", "aborted"}
  /\ rest \in Seq(Tokens) /\ text \in Seq(Tokens)
  /\ table \in [Fds -> Streams]
  /\ copies \in [Std -> Fds \cup {Failed, NotSaved}]
  /\ depth \in 0 .. Len(Path) + 1
  /\ status \in {0, 1}
  /\ buffered \in Nat /\ shown \in Seq({"failed", "not found"})
  /\ lines \in 0 .. MAX_LINES /\ opens \in Nat
  /\ \A d \in Std : table[d] # Closed

Scarce == \A f, g \in FreeFds(table) : f = g

\* A command's redirections end with it (hw2.c:299-307): the shell's own
\* streams change only with a command that has no word, which returns first
\* (hw2.c:149), or when the table has no room for both a file and a copy
\* (hw2.c:121), so that there is nothing to put back.
KeepsStreams == [][settled'.own # settled.own => text = <<>> \/ Scarce]_vars

Told(message) == Cardinality({i \in DOMAIN shown' : shown'[i] = message})

\* The chain of processes (hw2.c:189-252) runs a program if and only if it is
\* there as it is or in a directory of PATH, and the exit statuses passed along
\* it tell the shell: a program that is nowhere is reported, once and by the
\* shell alone, unless stderr was redirected (hw2.c:261).
SearchIsRight ==
  [][ran' # ran /\ forked =>
       LET found == IsBuiltin(text) \/ Attempts(text[1]) # {} IN
       /\ found <=> seen # NotRun
       /\ ~found => Told("not found") = IF copies[2] = NotSaved THEN 1 ELSE 0]_vars

\* What printf left in the buffer is shown by the shell (hw2.c:297), and shown
\* again by each process of the chain that ends in exit instead of a program
\* (hw2.h:4, hw2.c:225-249): as often as execv has failed.
ShownByAll ==
  [][ran' # ran /\ forked /\ ~IsBuiltin(text) =>
       LET failures == {k \in 1 .. Len(Path) + 1 : \A a \in Attempts(text[1]) : k < a}
       IN  Told("failed") = buffered * (1 + Cardinality(failures))]_vars

\* The shell implements Redirection: descriptors, copies and processes are not
\* to be seen in which commands run, with which streams, and what they cost.
Promise == INSTANCE Redirection WITH
  rest <- settled.rest, own <- settled.own, left <- settled.left,
  files <- settled.files, opens <- settled.opens,
  ran <- ran, alive <- pc # "aborted"

RunsAsAsked == Promise!Spec

\* Every line is worked through: the prompt comes back, or the shell dies.
LineEnds == pc = "next" ~> pc \in {"prompt", "aborted"}
=============================================================================
