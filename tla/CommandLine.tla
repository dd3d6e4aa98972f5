---------------------------- MODULE CommandLine ----------------------------
(***************************************************************************)
(* The text of a command of the shell hw2/hw2.c, as run_cmd, sequence and  *)
(* execute take it apart with strstr, and what the file system and PATH    *)
(* answer.  A text is a sequence of tokens: the operators and, between     *)
(* them, words.  A word stands for its characters, with the blanks around  *)
(* it: the code cuts a file name at the next operator only, so that a name *)
(* may consist of several tokens.                                          *)
(***************************************************************************)
EXTENDS Integers, Sequences, SequencesExt

CONSTANTS
  Creatable,    \* the names open(..., O_CREAT) can open
  Direct,       \* the words execv can run as they are
  Path,         \* the directories of PATH, in order
  Installed,    \* what execv finds: pairs of a directory and a word
  NARGV         \* how many words getargs allocates (10)

ASSUME CommandLineAssumption ==
  /\ NARGV \in Nat \ {0, 1}
  /\ <<>> \notin Creatable                    \* open("") fails
  /\ Path \in Seq(STRING)

Nothing == <<"end of line">>                  \* no command is left

Has(text, op) == SelectInSeq(text, LAMBDA t : t = op) # 0

\* What strstr and the 0 written over the operator leave before and after it.
Before(text, op) ==
  IF Has(text, op) THEN SubSeq(text, 1, SelectInSeq(text, LAMBDA t : t = op) - 1)
                   ELSE text
After(text, op) ==
  SubSeq(text, SelectInSeq(text, LAMBDA t : t = op) + 1, Len(text))

\* execute cuts the redirections off from the right: 2>, then >, then <.
Words(text) == Before(Before(Before(text, "2>"), ">"), "<")

\* The length of the chain of processes in which execv is first tried for a
\* word: the word as it is, then one directory after the other.
Attempts(word) ==
  {k \in 1 .. Len(Path) + 1 :
     IF k = 1 THEN word \in Direct ELSE <<Path[k - 1], word>> \in Installed}

\* run_cmd looks for ";" first; a line with "|" alone is not run at all.
Commands(line) == IF Has(line, "|") /\ ~Has(line, ";") THEN Nothing ELSE line

\* sequence: the rest of a line behind its first command.
Behind(rest) == IF Has(rest, ";") THEN After(rest, ";") ELSE Nothing

IsBuiltin(words) == words[1] = "echo"

\* getargs writes the final NULL behind the words.
Overflows(words) == Len(words) >= NARGV
=============================================================================
