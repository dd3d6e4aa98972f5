---------------------------- MODULE Redirection ----------------------------
(***************************************************************************)
(* What the shell of hw2/hw2.c does with a line, with no descriptors and   *)
(* no processes: its commands are taken in order, each one once, and each  *)
(* runs at most once, with the streams its redirections name and the       *)
(* shell's own for the others.                                             *)
(*                                                                         *)
(* Two things outlast a command.  A redirection costs one of the `left'    *)
(* descriptors, and the last one cannot be saved, so that it stays.  And   *)
(* redirections without a command stay.                                    *)
(***************************************************************************)
EXTENDS CommandLine

CONSTANTS
  Lines,        \* what may be read as a line
  Existing,     \* the names of the files there are
  OPEN_MAX      \* the size of the descriptor table

VARIABLES
  rest,         \* the commands of the line still to be run
  own,          \* the shell's standard streams: input, output, error
  left,         \* the descriptors left
  files,        \* the names of the files there are
  opens,        \* how many files have been opened
  ran,          \* each command, with the streams it ran with
  alive

rvars == <<rest, own, left, files, opens, ran, alive>>

Std == 0 .. 2

\* An open file description, numbered; the shell's first ones have no name.
Stream(name, id) == [name |-> name, id |-> id]
Given == [d \in Std |-> Stream(<<>>, -1 - d)]
NotRun == [d \in Std |-> Stream(<<>>, 0)]

Init ==
  /\ rest = Nothing
  /\ own = Given
  /\ left = OPEN_MAX - 6                     \* 0 to 2 and main's copies of them
  /\ files = Existing
  /\ opens = 0
  /\ ran = <<>>
  /\ alive = TRUE

ReadLine ==
  /\ alive /\ rest = Nothing
  /\ rest' \in {Commands(line) : line \in Lines}
  /\ UNCHANGED <<own, left, files, opens, ran, alive>>

\* One redirection, if the text has it: of what is open now, what the shell
\* goes back to, and what is left.
Redirect(s, d, text, op) ==
  LET name == After(text, op)
      ok   == IF d = 0 THEN name \in s.files ELSE name \in Creatable
  IN
  IF ~Has(text, op) \/ s.left = 0 THEN s
  ELSE IF ~ok THEN [s EXCEPT !.left = @ - 1]
  ELSE [now   |-> [s.now EXCEPT ![d] = Stream(name, s.opens + 1)],
        after |-> IF s.left > 1 THEN s.after
                  ELSE [s.after EXCEPT ![d] = Stream(name, s.opens + 1)],
        left  |-> IF s.left > 1 THEN s.left - 1 ELSE 1,
        files |-> s.files \cup {name},
        opens |-> s.opens + 1]

Redirected(text) ==
  LET s == [now |-> own, after |-> own, left |-> left, files |-> files, opens |-> opens]
      e == Redirect(s, 2, text, "2>")
      o == Redirect(e, 1, Before(text, "2>"), ">")
  IN  Redirect(o, 0, Before(Before(text, "2>"), ">"), "<")

\* What a command runs with.  fork may fail, and then it does not run.
Outcomes(words, streams) ==
  IF IsBuiltin(words) THEN {streams}
  ELSE IF Attempts(words[1]) = {} THEN {NotRun}
  ELSE {streams, NotRun}

RunCommand ==
  LET text  == Before(rest, ";")
      words == Words(text)
      s     == Redirected(text)
  IN
  /\ alive /\ rest # Nothing
  /\ words = <<>> \/ IsBuiltin(words) \/ ~Overflows(words)
  /\ rest' = Behind(rest)
  /\ own' = IF words = <<>> THEN s.now ELSE s.after
  /\ left' = s.left /\ files' = s.files /\ opens' = s.opens
  /\ IF words = <<>> THEN UNCHANGED ran
     ELSE \E streams \in Outcomes(words, s.now) :
            ran' = Append(ran, [words |-> words, streams |-> streams])
  /\ UNCHANGED alive

\* A command with too many words is the shell's last.
Abort ==
  LET words == Words(Before(rest, ";")) IN
  /\ alive /\ rest # Nothing
  /\ words # <<>> /\ ~IsBuiltin(words) /\ Overflows(words)
  /\ alive' = FALSE
  /\ UNCHANGED <<rest, own, left, files, opens, ran>>

Next == ReadLine \/ RunCommand \/ Abort

Spec == Init /\ [][Next]_rvars
=============================================================================
