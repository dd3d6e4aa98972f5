------------------------------ MODULE ShellProofs ------------------------------
(***************************************************************************)
(* Theorems about Shell, for any lines, any programs and any size of the   *)
(* descriptor table: redirections end with their command, and the shell    *)
(* implements Redirection; the chain of processes finds what is there, and *)
(* each message is shown as often as it should.                            *)
(***************************************************************************)
EXTENDS Shell, FiniteSetTheorems, SequenceTheorems, WellFoundedInduction,
        TLAPS

Free == FreeFds(table)
Left == Cardinality(Free)

\* The descriptors and the copies, whatever is open.
Descriptors ==
  /\ table = [f \in Fds |-> table[f]]
  /\ copies \in [Std -> (Fds \ Std) \cup {Failed, NotSaved}]
  /\ \A d \in Std : table[d] # Closed
  /\ \A d \in Std : copies[d] \in Fds => table[copies[d]] # Closed
  /\ opens \in Nat

\* What the shell will go back to.
GoingBack == [d \in Std |-> PutBack[d]]

\* What Redirection says of a command so far.
Now == [now   |-> StdStreams,
        after |-> GoingBack,
        left  |-> Left, files |-> files, opens |-> opens]

-----------------------------------------------------------------------------
(* The table.                                                              *)

LEMMA FdFacts ==
  /\ Fds \subseteq Nat /\ Std \subseteq Fds /\ IsFiniteSet(Fds)
  /\ Failed \notin Fds /\ NotSaved \notin Fds
  /\ 0 \in Std /\ 1 \in Std /\ 2 \in Std
<1>1. OPEN_MAX \in Nat /\ OPEN_MAX >= 6
  BY ShellAssumption
<1>2. IsFiniteSet(Fds)
  BY <1>1, FS_Interval DEF Fds
<1> QED BY <1>1, <1>2 DEF Fds, Std, Failed, NotSaved

\* A set of descriptors has a lowest one.
LEMMA LowestFacts ==
  ASSUME NEW S, S \subseteq Nat, S # {}
  PROVE  Lowest(S) \in S
<1>1. PICK f \in S : \A g \in S : <<g, f>> \notin OpToRel(<, Nat)
  BY NatLessThanWellFounded, WFMin, Zenon
<1>2. \A g \in S : ~(g < f)
  BY <1>1, Zenon DEF OpToRel
<1>3. \A g \in S : f <= g
  BY <1>2
<1> QED BY <1>3 DEF Lowest

\* The numbers of free descriptors.
LEMMA FreeFacts ==
  ASSUME NEW t
  PROVE  /\ FreeFds(t) \subseteq Fds /\ IsFiniteSet(FreeFds(t))
         /\ Cardinality(FreeFds(t)) \in Nat
         /\ Cardinality(FreeFds(t)) = 0 <=> FreeFds(t) = {}
         /\ FreeFds(t) # {} => Lowest(FreeFds(t)) \in FreeFds(t)
<1>1. FreeFds(t) \subseteq Fds /\ IsFiniteSet(FreeFds(t))
  BY FdFacts, FS_Subset DEF FreeFds
<1> QED BY <1>1, FdFacts, LowestFacts, FS_CardinalityType, FS_EmptySet

\* What a redirection does, as Redirection has it.
Attached(s, d, name, ok) ==
  IF s.left = 0 THEN s
  ELSE IF ~ok THEN [s EXCEPT !.left = @ - 1]
  ELSE [now   |-> [s.now EXCEPT ![d] = Stream(name, s.opens + 1)],
        after |-> IF s.left > 1 THEN s.after
                  ELSE [s.after EXCEPT ![d] = Stream(name, s.opens + 1)],
        left  |-> IF s.left > 1 THEN s.left - 1 ELSE 1,
        files |-> s.files \cup {name},
        opens |-> s.opens + 1]

LEMMA PutBackFacts ==
  ASSUME NEW d \in Std
  PROVE  PutBack[d] = IF copies[d] \in Fds THEN table[copies[d]] ELSE table[d]
BY FdFacts DEF PutBack

\* A redirection whose descriptor could be saved.
Saved(g, d, new) ==
  [x \in Fds |-> IF x = g THEN table[d] ELSE IF x = d THEN new ELSE table[x]]

LEMMA SavedFacts ==
  ASSUME Descriptors, NEW d \in Std, copies[d] = NotSaved,
         NEW g \in Free, NEW new, new # Closed, opens' \in Nat,
         table' = Saved(g, d, new),
         copies' = [copies EXCEPT ![d] = g]
  PROVE  /\ Descriptors'
         /\ StdStreams' = [StdStreams EXCEPT ![d] = new]
         /\ GoingBack' = GoingBack
         /\ Left' = Left - 1
<1>1. /\ table = [f \in Fds |-> table[f]] /\ Std \subseteq Fds
      /\ copies \in [Std -> (Fds \ Std) \cup {Failed, NotSaved}]
      /\ \A e \in Std : table[e] # Closed
      /\ \A e \in Std : copies[e] \in Fds => table[copies[e]] # Closed
  BY FdFacts DEF Descriptors
<1>2. g \in Fds /\ table[g] = Closed /\ g \notin Std
  BY <1>1 DEF Free, FreeFds
<1>3. /\ \A e \in Std \ {d} : copies'[e] = copies[e] /\ copies[e] # g /\ copies[e] # d
      /\ copies'[d] = g
  BY <1>1, <1>2, FdFacts
<1>9. table' = [x \in Fds |-> IF x = g THEN table[d] ELSE IF x = d THEN new ELSE table[x]]
  BY DEF Saved
<1>4. Descriptors'
  <2>1. table' = [f \in Fds |-> table'[f]]
    BY <1>9
  <2>2. copies' \in [Std -> (Fds \ Std) \cup {Failed, NotSaved}]
    BY <1>1, <1>2
  <2>3. \A e \in Std : table'[e] # Closed
    BY <1>1, <1>2, <1>9
  <2>4. \A e \in Std : copies'[e] \in Fds => table'[copies'[e]] # Closed
    BY <1>1, <1>2, <1>3, <1>9
  <2> QED BY <2>1, <2>2, <2>3, <2>4 DEF Descriptors
<1>5. StdStreams' = [StdStreams EXCEPT ![d] = new]
  BY <1>1, <1>2, <1>9 DEF StdStreams
<1>6. \A e \in Std : PutBack'[e] = PutBack[e]
  <2> SUFFICES ASSUME NEW e \in Std PROVE PutBack'[e] = PutBack[e]
    OBVIOUS
  <2>1. /\ PutBack[e] = IF copies[e] \in Fds THEN table[copies[e]] ELSE table[e]
        /\ PutBack'[e] = IF copies'[e] \in Fds THEN table'[copies'[e]] ELSE table'[e]
    BY FdFacts DEF PutBack
  <2>2. CASE e = d
    BY <2>1, <2>2, <1>2, <1>3, <1>9, FdFacts
  <2>3. CASE e # d
    BY <2>1, <2>3, <1>1, <1>2, <1>3, <1>9
  <2> QED BY <2>2, <2>3
<1>7. Free' = Free \ {g}
  BY <1>1, <1>2, <1>9 DEF Free, FreeFds
<1>8. Left' = Left - 1
  BY <1>7, FreeFacts, FS_RemoveElement DEF Left, Free
<1>10. GoingBack' = GoingBack
  BY <1>6 DEF GoingBack
<1> QED BY <1>4, <1>5, <1>8, <1>10

LEMMA AttachFacts ==
  ASSUME Descriptors, NEW d \in Std, copies[d] = NotSaved,
         NEW name, NEW ok \in BOOLEAN, Attach(d, name, ok)
  PROVE  /\ Descriptors'
         /\ Now' = Attached(Now, d, name, ok)
         /\ \A e \in Std \ {d} : copies'[e] = copies[e]
<1> DEFINE file   == IF ok /\ FreeFds(table) # {} THEN Lowest(FreeFds(table)) ELSE Failed
           stream == Stream(name, opens + 1)
           opened == IF file = Failed THEN table ELSE [table EXCEPT ![file] = stream]
           copy   == IF FreeFds(opened) = {} THEN Failed ELSE Lowest(FreeFds(opened))
           saved  == IF copy = Failed THEN opened ELSE [opened EXCEPT ![copy] = table[d]]
<1>1. /\ copies' = [copies EXCEPT ![d] = copy]
      /\ file = Failed => table' = saved /\ UNCHANGED <<files, opens>>
      /\ file # Failed => /\ table' = [[saved EXCEPT ![d] = stream] EXCEPT ![file] = Closed]
                          /\ files' = files \cup {name} /\ opens' = opens + 1
  BY DEF Attach, Close
<1>2. /\ table = [f \in Fds |-> table[f]] /\ opens \in Nat
      /\ copies \in [Std -> (Fds \ Std) \cup {Failed, NotSaved}]
      /\ \A e \in Std : table[e] # Closed
      /\ \A e \in Std : copies[e] \in Fds => table[copies[e]] # Closed
  BY DEF Descriptors
<1>3. stream # Closed
  BY <1>2 DEF Stream, Closed
<1>4. /\ Free \subseteq Fds /\ IsFiniteSet(Free) /\ Left \in Nat
      /\ Left = 0 <=> Free = {}
      /\ Free # {} => Lowest(Free) \in Free
      /\ \A f \in Fds : f \in Free <=> table[f] = Closed
  BY FreeFacts DEF Left, Free, FreeFds
<1>5. Free \cap Std = {}
  BY <1>2, <1>4
<1>6. Now.now[d] = table[d] /\ PutBack[d] = table[d]
  BY PutBackFacts, FdFacts DEF Now, StdStreams
<1> HIDE DEF file, stream, opened, copy, saved
\* No descriptor is left.
<1>7. CASE Free = {}
  <2>1. file = Failed /\ copy = Failed /\ opened = table /\ saved = table
    BY <1>7 DEF file, copy, opened, saved, Free
  <2>2. table' = table /\ copies' = [copies EXCEPT ![d] = Failed] /\ UNCHANGED <<files, opens>>
    BY <1>1, <2>1
  <2>3. \A e \in Std \ {d} : copies'[e] = copies[e]
    BY <1>2, <2>2
  <2>4. Descriptors'
    BY <1>2, <2>2, FdFacts DEF Descriptors
  <2>5. Now' = Now
    BY <1>2, <2>2, FdFacts DEF Now, GoingBack, StdStreams, PutBack, Left, Free, FreeFds
  <2> QED BY <1>4, <1>7, <2>3, <2>4, <2>5 DEF Attached, Now
\* The file cannot be opened.
<1>8. CASE Free # {} /\ ~ok
  <2> DEFINE g == Lowest(Free)
  <2> HIDE DEF g
  <2>1. file = Failed /\ copy = g /\ opened = table /\ saved = [table EXCEPT ![g] = table[d]]
    <3>1. file = Failed /\ opened = table
      BY <1>8 DEF file, opened
    <3>2. copy = g
      BY <3>1, <1>8 DEF copy, Free, g
    <3>3. g # Failed
      BY <1>4, <1>8, FdFacts DEF g
    <3> QED BY <3>1, <3>2, <3>3 DEF saved
  <2>2. table' = saved /\ copies' = [copies EXCEPT ![d] = g] /\ UNCHANGED <<files, opens>>
    BY <1>1, <2>1
  <2>3. g \in Free
    BY <1>4, <1>8 DEF g
  <2>4. table' = Saved(g, d, table[d]) /\ opens' \in Nat /\ table[d] # Closed
    BY <1>2, <2>1, <2>2 DEF Saved
  <2>5. /\ Descriptors' /\ Left' = Left - 1
        /\ StdStreams' = [StdStreams EXCEPT ![d] = table[d]]
        /\ GoingBack' = GoingBack
    BY <2>2, <2>3, <2>4, SavedFacts
  <2>6. StdStreams' = StdStreams
    BY <2>5 DEF StdStreams
  <2>7. Now' = [Now EXCEPT !.left = @ - 1]
    BY <2>2, <2>5, <2>6 DEF Now
  <2> QED BY <1>2, <1>4, <1>8, <2>2, <2>5, <2>7 DEF Attached, Now
\* The file is opened, and the descriptor saved.
<1>9. CASE Free # {} /\ ok /\ Free # {Lowest(Free)}
  <2> DEFINE f == Lowest(Free)
             g == Lowest(Free \ {f})
  <2> HIDE DEF f
  <2>1. f \in Free /\ f \in Fds /\ f # Failed /\ f \notin Std
    BY <1>4, <1>5, <1>9, FdFacts DEF f
  <2>2. file = f /\ opened = [table EXCEPT ![f] = stream]
    BY <1>9, <2>1 DEF file, opened, Free, f
  <2>3. FreeFds(opened) = Free \ {f}
    BY <1>2, <1>3, <1>4, <2>1, <2>2 DEF FreeFds
  <2>4. Free \ {f} # {}
    BY <1>9, <2>1 DEF f
  <2>5. copy = g /\ g \in Free \ {f} /\ g # Failed
    BY <1>4, <2>3, <2>4, LowestFacts, FdFacts DEF copy
  <2> HIDE DEF g
  <2>6. /\ table' = [[[[table EXCEPT ![f] = stream] EXCEPT ![g] = table[d]]
                        EXCEPT ![d] = stream] EXCEPT ![f] = Closed]
        /\ copies' = [copies EXCEPT ![d] = g] /\ files' = files \cup {name} /\ opens' = opens + 1
    <3>1. saved = [[table EXCEPT ![f] = stream] EXCEPT ![g] = table[d]]
      BY <2>1, <2>2, <2>5, <1>5 DEF saved
    <3> QED BY <3>1, <1>1, <2>1, <2>2, <2>5
  <2>7. table' = Saved(g, d, stream) /\ opens' \in Nat
    BY <1>2, <1>4, <1>5, <2>1, <2>5, <2>6 DEF Saved
  <2>8. /\ Descriptors' /\ Left' = Left - 1
        /\ StdStreams' = [StdStreams EXCEPT ![d] = stream]
        /\ GoingBack' = GoingBack
    BY <1>3, <2>5, <2>6, <2>7, SavedFacts
  <2>9. Left > 1
    <3>1. Left # 1
      BY <1>4, <1>9, <2>1, <2>5, FS_Singleton DEF Left
    <3> QED BY <3>1, <1>4, <1>9
  <2> QED BY <1>2, <1>4, <1>9, <2>6, <2>8, <2>9 DEF Attached, Now, stream
\* The file takes the last descriptor, and nothing is saved.
<1>10. CASE ok /\ Free = {Lowest(Free)}
  <2> DEFINE f == Lowest(Free)
  <2> HIDE DEF f
  <2>1. Free = {f} /\ f \in Fds /\ f # Failed /\ f \notin Std
    BY <1>4, <1>5, <1>10, FdFacts DEF f
  <2>2. file = f /\ opened = [table EXCEPT ![f] = stream]
    BY <1>10, <2>1 DEF file, opened, Free, f
  <2>3. FreeFds(opened) = {}
    BY <1>2, <1>3, <1>4, <2>1, <2>2 DEF FreeFds
  <2>4. /\ table' = [[[table EXCEPT ![f] = stream] EXCEPT ![d] = stream] EXCEPT ![f] = Closed]
        /\ copies' = [copies EXCEPT ![d] = Failed] /\ files' = files \cup {name} /\ opens' = opens + 1
    <3>1. copy = Failed /\ saved = opened
      BY <2>3 DEF copy, saved
    <3> QED BY <3>1, <1>1, <2>1, <2>2
  <2>5. table' = [x \in Fds |-> IF x = d THEN stream ELSE table[x]]
    BY <1>2, <1>4, <2>1, <2>4, FdFacts
  <2>6. Descriptors'
    <3>1. table' = [x \in Fds |-> table'[x]]
      BY <2>5
    <3>2. copies' \in [Std -> (Fds \ Std) \cup {Failed, NotSaved}]
      BY <1>2, <2>4
    <3>3. \A e \in Std : table'[e] # Closed
      BY <1>2, <1>3, <2>5, FdFacts
    <3>4. \A e \in Std : copies'[e] \in Fds => table'[copies'[e]] # Closed
      BY <1>2, <1>3, <2>4, <2>5, FdFacts
    <3> QED BY <3>1, <3>2, <3>3, <3>4, <1>2, <2>4 DEF Descriptors
  <2>7. Left = 1 /\ Left' = 1
    <3>1. Free' = Free
      BY <1>2, <1>3, <2>5, FdFacts DEF Free, FreeFds
    <3> QED BY <3>1, <2>1, FS_Singleton DEF Left
  <2>8. StdStreams' = [StdStreams EXCEPT ![d] = stream]
    BY <2>5, FdFacts DEF StdStreams
  <2>9. \A e \in Std : PutBack'[e] = IF e = d THEN stream ELSE PutBack[e]
    <3> SUFFICES ASSUME NEW e \in Std PROVE PutBack'[e] = IF e = d THEN stream ELSE PutBack[e]
      OBVIOUS
    <3>1. /\ PutBack[e] = IF copies[e] \in Fds THEN table[copies[e]] ELSE table[e]
          /\ PutBack'[e] = IF copies'[e] \in Fds THEN table'[copies'[e]] ELSE table'[e]
      BY FdFacts DEF PutBack
    <3>2. CASE e = d
      BY <3>1, <3>2, <1>2, <2>4, <2>5, FdFacts
    <3>3. CASE e # d
      <4>1. copies'[e] = copies[e] /\ copies[e] # d
        BY <3>3, <1>2, <2>4, FdFacts
      <4> QED BY <4>1, <3>1, <3>3, <2>5, FdFacts
    <3> QED BY <3>2, <3>3
  <2>10. GoingBack' = [GoingBack EXCEPT ![d] = stream]
    BY <2>9 DEF GoingBack
  <2> QED BY <1>2, <1>10, <2>1, <2>4, <2>6, <2>7, <2>8, <2>10 DEF Attached, Now, stream
<1> QED BY <1>7, <1>8, <1>9, <1>10

-----------------------------------------------------------------------------
(* A command.                                                              *)

\* The command being run, and what it set out from.
Command == Before(settled.rest, ";")
Start == [now   |-> settled.own,
          after |-> settled.own,
          left  |-> settled.left, files |-> settled.files, opens |-> settled.opens]

Redirecting(s, d, t, op) ==
  IF Has(t, op)
  THEN Attached(s, d, After(t, op), IF d = 0 THEN After(t, op) \in s.files
                                            ELSE After(t, op) \in Creatable)
  ELSE s

AfterErr == Redirecting(Start, 2, Command, "2>")
AfterOut == Redirecting(AfterErr, 1, Before(Command, "2>"), ">")
AfterIn  == Redirecting(AfterOut, 0, Before(Before(Command, "2>"), ">"), "<")

States == {"prompt", "next", "stderr", "stdout", "stdin", "command", "fork",
           "exec", "wait", "restore", "ended", "aborted"}

\* No command is being run.
Resting == pc \in {"prompt", "next", "ended"}

Settled ==
  Resting => /\ rest = settled.rest
             /\ pc # "next" => rest = Nothing
             /\ StdStreams = settled.own /\ Left = settled.left
             /\ files = settled.files /\ opens = settled.opens

Underway == ~Resting => settled.rest # Nothing /\ rest = Behind(settled.rest)

Redirected ==
  /\ pc = "stderr" => /\ text = Command /\ Now = Start
                      /\ \A d \in Std : copies[d] = NotSaved
  /\ pc = "stdout" => /\ text = Before(Command, "2>") /\ Now = AfterErr
                      /\ copies[0] = NotSaved /\ copies[1] = NotSaved
  /\ pc = "stdin" => /\ text = Before(Before(Command, "2>"), ">") /\ Now = AfterOut
                     /\ copies[0] = NotSaved
  /\ pc \in {"command", "fork", "exec", "wait", "restore", "aborted"}
       => text = Words(Command) /\ Now = AfterIn

AProgram == text # <<>> /\ ~IsBuiltin(text) /\ ~Overflows(text)
HasRun == seen = NotRun \/ (seen = StdStreams /\ Attempts(text[1]) # {})

Seen ==
  /\ pc \in {"stderr", "stdout", "stdin", "command"} => seen = NotRun
  /\ pc \in {"fork", "exec", "wait"} => AProgram /\ HasRun
  /\ pc = "restore" => \/ AProgram /\ HasRun
                       \/ text # <<>> /\ IsBuiltin(text) /\ seen = StdStreams

HasFields ==
  /\ settled = [rest |-> settled.rest, own |-> settled.own, left |-> settled.left,
                files |-> settled.files, opens |-> settled.opens]
  /\ settled.left \in Nat

ShellInv ==
  pc \in States /\ HasFields /\ Descriptors /\ Settled /\ Underway /\ Redirected /\ Seen

LEMMA InitInv == Init => ShellInv
<1> SUFFICES ASSUME Init PROVE ShellInv
  OBVIOUS
<1>1. /\ pc = "prompt" /\ rest = Nothing
      /\ table = [f \in Fds |-> IF f < 6 THEN Given[f % 3] ELSE Closed]
      /\ copies = [d \in Std |-> NotSaved] /\ files = Existing /\ opens = 0
      /\ settled = [rest |-> Nothing, own |-> Given, left |-> OPEN_MAX - 6,
                    files |-> Existing, opens |-> 0]
  BY DEF Init
<1>2. \A d \in Std : Given[d] # Closed /\ d < 6 /\ d % 3 = d
  BY DEF Std, Given, Stream, Closed
<1>3. \A f \in Fds : f < 6 => f % 3 \in Std
  BY FdFacts DEF Std
<1>4. Descriptors
  <2>1. \A d \in Std : table[d] # Closed
    BY <1>1, <1>2, FdFacts
  <2> QED BY <2>1, <1>1, FdFacts DEF Descriptors
<1>5. StdStreams = Given
  BY <1>1, <1>2, FdFacts DEF StdStreams, Given
<1>6. Left = OPEN_MAX - 6
  <2>1. Free = 6 .. OPEN_MAX - 1
    BY <1>1, <1>2, <1>3, ShellAssumption DEF Free, FreeFds, Fds
  <2> QED BY <2>1, ShellAssumption, FS_Interval DEF Left
<1> QED BY <1>1, <1>4, <1>5, <1>6, ShellAssumption
        DEF ShellInv, States, HasFields, Settled, Resting, Underway, Redirected, Seen

\* One of the three redirections.
LEMMA RedirectFacts ==
  ASSUME Descriptors, NEW d \in Std, copies[d] = NotSaved,
         NEW op, NEW here, NEW next, Redirect(d, op, here, next)
  PROVE  /\ Descriptors'
         /\ Now' = Redirecting(Now, d, text, op)
         /\ \A e \in Std \ {d} : copies'[e] = copies[e]
<1>1. CASE Has(text, op)
  <2> DEFINE name == After(text, op)
             ok == IF d = 0 THEN name \in files ELSE name \in Creatable
  <2>1. Attach(d, name, ok)
    BY <1>1 DEF Redirect
  <2>2. ok \in BOOLEAN
    <3>1. (name \in files) \in BOOLEAN /\ (name \in Creatable) \in BOOLEAN
      OBVIOUS
    <3> QED BY <3>1, Zenon
  <2>3. Now.files = files
    BY DEF Now
  <2> HIDE DEF name, ok
  <2>4. /\ Descriptors'
        /\ Now' = Attached(Now, d, name, ok)
        /\ \A e \in Std \ {d} : copies'[e] = copies[e]
    BY <2>1, <2>2, AttachFacts
  <2> QED BY <2>3, <2>4, <1>1 DEF Redirecting, name, ok
<1>2. CASE ~Has(text, op)
  <2>1. UNCHANGED <<table, copies, files, opens>>
    BY <1>2 DEF Redirect, fdVars
  <2>2. Descriptors' /\ Now' = Now
    BY <2>1 DEF Descriptors, Now, StdStreams, GoingBack, PutBack, Left, Free, FreeFds
  <2> QED BY <2>1, <2>2, <1>2 DEF Redirecting
<1> QED BY <1>1, <1>2

\* A step that touches neither descriptors nor the command.
LEMMA SameNow ==
  ASSUME Descriptors, UNCHANGED <<table, copies, files, opens>>
  PROVE  Descriptors' /\ Now' = Now /\ StdStreams' = StdStreams /\ Left' = Left
BY DEF Descriptors, Now, StdStreams, GoingBack, PutBack, Left, Free, FreeFds

\* A step within a command that leaves the descriptors and the text alone.
LEMMA WithinCommand ==
  ASSUME ShellInv, pc \in {"command", "fork", "exec", "wait"},
         pc' \in {"fork", "exec", "wait", "restore", "aborted"},
         UNCHANGED <<table, copies, files, opens, rest, text, settled>>,
         pc' \in {"fork", "exec", "wait"} => AProgram /\ HasRun',
         pc' = "restore" => \/ AProgram /\ HasRun'
                            \/ text # <<>> /\ IsBuiltin(text) /\ seen' = StdStreams
  PROVE  ShellInv'
<1>1. Descriptors' /\ Now' = Now /\ StdStreams' = StdStreams
  BY SameNow DEF ShellInv
<1>2. Redirected'
  BY <1>1 DEF ShellInv, Redirected, Command, AfterErr, AfterOut, AfterIn, Start
<1>3. Underway' /\ Settled'
  BY DEF ShellInv, Underway, Settled, Resting
<1>4. Seen'
  BY <1>1 DEF Seen, AProgram
<1> QED BY <1>1, <1>2, <1>3, <1>4 DEF ShellInv, States, HasFields

LEMMA RunKeepsInv ==
  ASSUME ShellInv,
         \/ Echo \/ Abort \/ Program \/ Fork \/ ForkFails \/ Exec \/ ExecFails
         \/ GiveUp \/ PassOn \/ Report
  PROVE  ShellInv'
<1>1. UNCHANGED <<table, copies, files, opens, rest, text, settled>>
  BY DEF Echo, Abort, Program, Fork, ForkFails, Exec, ExecFails, GiveUp, PassOn, Report,
         Exit, fdVars, history
<1>2. pc = "command" => seen = NotRun
  BY DEF ShellInv, Seen
<1>3. pc \in {"fork", "exec", "wait"} => AProgram /\ HasRun
  BY DEF ShellInv, Seen
<1>4. StdStreams' = StdStreams
  BY <1>1 DEF StdStreams
<1>5. CASE Echo
  <2>1. pc = "command" /\ pc' = "restore" /\ text # <<>> /\ IsBuiltin(text) /\ seen' = StdStreams
    BY <1>5 DEF Echo
  <2> QED BY <2>1, <1>1, WithinCommand
<1>6. CASE Abort
  <2>1. pc = "command" /\ pc' = "aborted"
    BY <1>6 DEF Abort
  <2> QED BY <2>1, <1>1, WithinCommand
<1>7. CASE Program
  <2>1. pc = "command" /\ pc' = "fork" /\ seen' = seen /\ AProgram
    BY <1>7 DEF Program, history, AProgram
  <2> QED BY <2>1, <1>1, <1>2, WithinCommand DEF HasRun
<1>8. CASE Exec
  <2>1. /\ pc = "exec" /\ pc' = "wait" /\ seen' = StdStreams
        /\ Attempts(text[1]) # {}
    BY <1>8 DEF Exec
  <2> QED BY <2>1, <1>1, <1>3, <1>4, WithinCommand DEF HasRun
<1>9. CASE Fork \/ ForkFails \/ ExecFails \/ GiveUp \/ PassOn \/ Report
  <2>1. /\ pc \in {"fork", "exec", "wait"} /\ pc' \in {"fork", "exec", "wait", "restore"}
        /\ seen' = seen
    BY <1>9 DEF Fork, ForkFails, ExecFails, GiveUp, PassOn, Report, Exit, history
  <2> QED BY <2>1, <1>1, <1>3, <1>4, WithinCommand DEF HasRun
<1> QED BY <1>5, <1>6, <1>7, <1>8, <1>9

LEMMA RedirectionKeepsInv ==
  ASSUME ShellInv, RedirectErr \/ RedirectOut \/ RedirectIn
  PROVE  ShellInv'
<1>1. UNCHANGED <<rest, settled, seen>>
  BY DEF RedirectErr, RedirectOut, RedirectIn, Redirect, history
<1>2. Descriptors /\ HasFields /\ 0 \in Std /\ 1 \in Std /\ 2 \in Std /\ Underway /\ Seen
  BY FdFacts DEF ShellInv
<1>3. HasFields' /\ Command' = Command /\ Start' = Start
  BY <1>1, <1>2 DEF HasFields, Command, Start
<1>4. AfterErr' = AfterErr /\ AfterOut' = AfterOut /\ AfterIn' = AfterIn
  BY <1>3 DEF AfterErr, AfterOut, AfterIn
<1>5. CASE RedirectErr
  <2>1. /\ pc = "stderr" /\ pc' = "stdout" /\ text' = Before(text, "2>")
        /\ text = Command /\ Now = Start /\ \A d \in Std : copies[d] = NotSaved
    BY <1>5 DEF RedirectErr, Redirect, ShellInv, Redirected
  <2>2. Descriptors' /\ Now' = AfterErr /\ \A e \in Std \ {2} : copies'[e] = copies[e]
    BY <2>1, <1>2, <1>5, RedirectFacts DEF RedirectErr, AfterErr
  <2>3. Redirected'
    BY <2>1, <2>2, <1>2, <1>3, <1>4 DEF Redirected
  <2> QED BY <2>1, <2>2, <2>3, <1>1, <1>2, <1>3
          DEF ShellInv, States, Settled, Underway, Resting, Seen
<1>6. CASE RedirectOut
  <2>1. /\ pc = "stdout" /\ pc' = "stdin" /\ text' = Before(text, ">")
        /\ text = Before(Command, "2>") /\ Now = AfterErr
        /\ copies[0] = NotSaved /\ copies[1] = NotSaved
    BY <1>6 DEF RedirectOut, Redirect, ShellInv, Redirected
  <2>2. Descriptors' /\ Now' = AfterOut /\ \A e \in Std \ {1} : copies'[e] = copies[e]
    BY <2>1, <1>2, <1>6, RedirectFacts DEF RedirectOut, AfterOut
  <2>3. Redirected'
    BY <2>1, <2>2, <1>2, <1>3, <1>4 DEF Redirected
  <2> QED BY <2>1, <2>2, <2>3, <1>1, <1>2, <1>3
          DEF ShellInv, States, Settled, Underway, Resting, Seen
<1>7. CASE RedirectIn
  <2>1. /\ pc = "stdin" /\ pc' = "command" /\ text' = Before(text, "<")
        /\ text = Before(Before(Command, "2>"), ">") /\ Now = AfterOut
        /\ copies[0] = NotSaved
    BY <1>7 DEF RedirectIn, Redirect, ShellInv, Redirected
  <2>2. Descriptors' /\ Now' = AfterIn
    BY <2>1, <1>2, <1>7, RedirectFacts DEF RedirectIn, AfterIn
  <2>3. Redirected'
    BY <2>1, <2>2, <1>2, <1>3, <1>4 DEF Redirected, Words
  <2> QED BY <2>1, <2>2, <2>3, <1>1, <1>2, <1>3
          DEF ShellInv, States, Settled, Underway, Resting, Seen
<1> QED BY <1>5, <1>6, <1>7

\* What Restore leaves is what the shell goes back to.
LEMMA RestoreFacts ==
  ASSUME Descriptors, table' = PutBack
  PROVE  /\ StdStreams' = GoingBack
         /\ FreeFds(PutBack) = Free
         /\ \A d \in Std : PutBack[d] # Closed
<1>1. /\ Std \subseteq Fds /\ table = [f \in Fds |-> table[f]]
      /\ copies \in [Std -> (Fds \ Std) \cup {Failed, NotSaved}]
      /\ \A d \in Std : table[d] # Closed
      /\ \A d \in Std : copies[d] \in Fds => table[copies[d]] # Closed
  BY FdFacts DEF Descriptors
<1>2. \A d \in Std : PutBack[d] # Closed
  BY <1>1 DEF PutBack
<1>3. \A f \in Fds \ Std : PutBack[f] = table[f]
  BY DEF PutBack
<1>4. FreeFds(PutBack) = Free
  BY <1>1, <1>2, <1>3 DEF FreeFds, Free
<1>5. StdStreams' = GoingBack
  BY DEF StdStreams, GoingBack
<1> QED BY <1>2, <1>4, <1>5

LEMMA RestoreKeepsInv ==
  ASSUME ShellInv, Restore
  PROVE  ShellInv'
<1>1. /\ pc = "restore" /\ pc' = "next" /\ table' = PutBack /\ Settle(PutBack)
      /\ UNCHANGED <<rest, copies, files, opens>>
  BY DEF Restore
<1>2. Descriptors /\ 0 \in Std
  BY FdFacts DEF ShellInv
<1>3. /\ StdStreams' = GoingBack /\ FreeFds(PutBack) = Free /\ Free' = Free
      /\ \A d \in Std : PutBack[d] # Closed
  BY <1>1, <1>2, RestoreFacts DEF Free
<1>4. /\ settled'.rest = rest /\ settled'.own = GoingBack /\ settled'.left = Left
      /\ settled'.files = files /\ settled'.opens = opens /\ HasFields'
  BY <1>1, <1>3, FreeFacts DEF Settle, GoingBack, Left, Free, HasFields
<1>5. Descriptors'
  <2>1. table' = [f \in Fds |-> table'[f]]
    BY <1>1 DEF PutBack
  <2>2. \A d \in Std : copies[d] \in Fds => PutBack[copies[d]] = table[copies[d]]
    BY <1>2, FdFacts DEF PutBack, Descriptors
  <2> QED BY <2>1, <2>2, <1>1, <1>2, <1>3 DEF Descriptors
<1>6. Settled'
  BY <1>1, <1>3, <1>4 DEF Settled, Left
<1> QED BY <1>1, <1>4, <1>5, <1>6 DEF ShellInv, States, Resting, Underway, Redirected, Seen

LEMMA BlankKeepsInv ==
  ASSUME ShellInv, Blank
  PROVE  ShellInv'
<1>1. /\ pc = "command" /\ pc' = "next" /\ Settle(table)
      /\ UNCHANGED <<table, copies, files, opens>> /\ UNCHANGED rest
  BY DEF Blank, fdVars
<1>2. Descriptors' /\ StdStreams' = StdStreams /\ Left' = Left
  BY <1>1, SameNow DEF ShellInv
<1>3. /\ settled'.rest = rest /\ settled'.own = StdStreams /\ settled'.left = Left
      /\ settled'.files = files /\ settled'.opens = opens /\ HasFields'
  BY <1>1, FreeFacts DEF Settle, StdStreams, Left, Free, HasFields
<1> QED BY <1>1, <1>2, <1>3
        DEF ShellInv, States, Resting, Settled, Underway, Redirected, Seen

LEMMA NextCommandKeepsInv ==
  ASSUME ShellInv, NextCommand
  PROVE  ShellInv'
<1>1. /\ pc = "next" /\ pc' = "stderr" /\ rest # Nothing
      /\ text' = Before(rest, ";") /\ rest' = Behind(rest)
      /\ copies' = [d \in Std |-> NotSaved] /\ seen' = NotRun
      /\ UNCHANGED <<table, files, opens, settled>>
  BY DEF NextCommand
<1>2. /\ Descriptors /\ HasFields /\ rest = settled.rest /\ StdStreams = settled.own
      /\ Left = settled.left /\ files = settled.files /\ opens = settled.opens
  BY <1>1 DEF ShellInv, Settled, Resting
<1>3. Descriptors' /\ \A d \in Std : copies'[d] = NotSaved
  BY <1>1, <1>2, FdFacts DEF Descriptors
<1>4. StdStreams' = StdStreams /\ Left' = Left
  BY <1>1 DEF StdStreams, Left, Free, FreeFds
<1>5. GoingBack' = StdStreams
  BY <1>1, FdFacts DEF GoingBack, StdStreams, PutBack
<1>6. Now' = Start'
  BY <1>1, <1>2, <1>4, <1>5 DEF Now, Start
<1>7. text' = Command' /\ HasFields' /\ settled'.rest = rest
  BY <1>1, <1>2 DEF Command, HasFields
<1> QED BY <1>1, <1>3, <1>6, <1>7
        DEF ShellInv, States, Resting, Settled, Underway, Redirected, Seen

LEMMA PromptKeepsInv ==
  ASSUME ShellInv, ReadLine \/ ReadEnd \/ Prompt
  PROVE  ShellInv'
<1>1. /\ pc \in {"prompt", "next"} /\ pc' \in {"prompt", "next", "ended"}
      /\ UNCHANGED <<table, copies, files, opens>>
  BY DEF ReadLine, ReadEnd, Prompt, fdVars
<1>2. Descriptors' /\ StdStreams' = StdStreams /\ Left' = Left
  BY <1>1, SameNow DEF ShellInv
<1>3. /\ HasFields /\ rest = settled.rest /\ (pc # "next" => rest = Nothing)
      /\ StdStreams = settled.own /\ Left = settled.left
      /\ files = settled.files /\ opens = settled.opens
  BY <1>1 DEF ShellInv, Settled, Resting
<1>4. /\ settled'.rest = rest' /\ settled'.own = settled.own /\ settled'.left = settled.left
      /\ settled'.files = settled.files /\ settled'.opens = settled.opens /\ HasFields'
      /\ pc' # "next" => rest' = Nothing
  BY <1>3 DEF ReadLine, ReadEnd, Prompt, history, HasFields
<1> QED BY <1>1, <1>2, <1>3, <1>4
        DEF ShellInv, States, Resting, Settled, Underway, Redirected, Seen

LEMMA StutterKeepsInv ==
  ASSUME ShellInv, UNCHANGED vars
  PROVE  ShellInv'
<1>1. UNCHANGED <<table, copies, files, opens>> /\ UNCHANGED <<pc, rest, text, settled, seen>>
  BY DEF vars, fdVars, history
<1>2. Descriptors' /\ Now' = Now /\ StdStreams' = StdStreams /\ Left' = Left
  BY <1>1, SameNow DEF ShellInv
<1> QED BY <1>1, <1>2
        DEF ShellInv, HasFields, Settled, Resting, Underway, Redirected, Seen, AProgram,
            HasRun, Command, AfterErr, AfterOut, AfterIn, Start

LEMMA NextInv == ShellInv /\ [Next]_vars => ShellInv'
BY PromptKeepsInv, NextCommandKeepsInv, RedirectionKeepsInv, BlankKeepsInv, RunKeepsInv,
   RestoreKeepsInv, StutterKeepsInv DEF Next, RunLine, Execute, Done

LEMMA SpecInv == Spec => []ShellInv
BY InitInv, NextInv, PTL DEF Spec

-----------------------------------------------------------------------------
(* What the shell keeps.                                                   *)

\* A stream is not put back only if no descriptor was left to save it.
PutsBack(s) == s.left \in Nat /\ (s.after = settled.own \/ s.left <= 1)

LEMMA PutsBackFacts ==
  ASSUME NEW s, PutsBack(s), NEW d, NEW t, NEW op
  PROVE  PutsBack(Redirecting(s, d, t, op))
<1> DEFINE name == After(t, op)
           ok == IF d = 0 THEN name \in s.files ELSE name \in Creatable
<1> HIDE DEF name, ok
<1>1. CASE ~Has(t, op)
  BY <1>1 DEF Redirecting
<1>2. CASE Has(t, op)
  <2>1. Redirecting(s, d, t, op) = Attached(s, d, name, ok)
    BY <1>2 DEF Redirecting, name, ok
  <2>2. PutsBack(Attached(s, d, name, ok))
    <3>1. CASE s.left = 0
      BY <3>1 DEF Attached
    <3>2. CASE s.left # 0 /\ ~ok
      BY <3>2 DEF Attached, PutsBack
    <3>3. CASE s.left # 0 /\ ok /\ s.left > 1
      BY <3>3 DEF Attached, PutsBack
    <3>4. CASE s.left # 0 /\ ok /\ ~(s.left > 1)
      BY <3>4 DEF Attached, PutsBack
    <3> QED BY <3>1, <3>2, <3>3, <3>4
  <2> QED BY <2>1, <2>2
<1> QED BY <1>1, <1>2

LEMMA ScarceFacts == Left <= 1 => Scarce
<1> SUFFICES ASSUME Left <= 1 PROVE Scarce
  OBVIOUS
<1>1. Left = 0 \/ Left = 1
  BY FreeFacts DEF Left, Free
<1>2. Free = {} \/ \E f : Free = {f}
  BY <1>1, FreeFacts, FS_Singleton DEF Left, Free
<1> QED BY <1>2 DEF Scarce, Free

\* A redirection ends with its command, whatever the line and the programs, if
\* the command has a word and a descriptor was left to save what it replaced
\* (hw2.c:120-121, 149-152, 299-307).
THEOREM Spec_KeepsStreams == Spec => KeepsStreams
<1>1. ShellInv /\ [Next]_vars => (settled'.own # settled.own => text = <<>> \/ Scarce)
  <2> SUFFICES ASSUME ShellInv, [Next]_vars, settled'.own # settled.own
               PROVE  text = <<>> \/ Scarce
    OBVIOUS
  <2>1. CASE Blank
    BY <2>1 DEF Blank
  <2>2. CASE Restore
    <3>1. settled'.own = Now.after /\ Now = AfterIn /\ HasFields
      BY <2>2 DEF Restore, Settle, Now, GoingBack, ShellInv, Redirected
    <3>2. PutsBack(Start)
      BY <3>1 DEF PutsBack, Start, HasFields
    <3>3. PutsBack(AfterIn)
      BY <3>2, PutsBackFacts DEF AfterIn, AfterOut, AfterErr
    <3>4. AfterIn.left = Left
      BY <3>1 DEF Now
    <3> QED BY <3>1, <3>3, <3>4, ScarceFacts DEF PutsBack
  <2>3. CASE ReadLine
    <3>1. settled'.own = settled.own
      BY <2>3 DEF ReadLine, ShellInv, HasFields
    <3> QED BY <3>1
  <2>4. CASE ReadEnd \/ Prompt \/ NextCommand \/ UNCHANGED vars
    BY <2>4 DEF ReadEnd, Prompt, NextCommand, vars, history
  <2>5. CASE RedirectErr \/ RedirectOut \/ RedirectIn
    BY <2>5 DEF RedirectErr, RedirectOut, RedirectIn, Redirect, history
  <2>6. CASE \/ Echo \/ Abort \/ Program \/ Fork \/ ForkFails \/ Exec \/ ExecFails
             \/ GiveUp \/ PassOn \/ Report
    BY <2>6 DEF Echo, Abort, Program, Fork, ForkFails, Exec, ExecFails, GiveUp, PassOn,
            Report, Exit, history
  <2> QED BY <2>1, <2>2, <2>3, <2>4, <2>5, <2>6 DEF Next, RunLine, Execute, Done
<1> QED BY <1>1, SpecInv, PTL DEF Spec, KeepsStreams

-----------------------------------------------------------------------------
(* Shell implements Redirection.                                           *)

\* Both read the text in the same way.
LEMMA SameText ==
  /\ \A t, op : Promise!Has(t, op) = Has(t, op)
  /\ \A t, op : Promise!Before(t, op) = Before(t, op)
  /\ \A t, op : Promise!After(t, op) = After(t, op)
  /\ \A t : Promise!Words(t) = Words(t)
  /\ \A t : Promise!Attempts(t) = Attempts(t)
  /\ \A t : Promise!Commands(t) = Commands(t)
  /\ \A t : Promise!Behind(t) = Behind(t)
  /\ \A t : Promise!IsBuiltin(t) = IsBuiltin(t)
  /\ \A t : Promise!Overflows(t) = Overflows(t)
  /\ Promise!Nothing = Nothing /\ Promise!NotRun = NotRun /\ Promise!Given = Given
<1>1. \A t, op : Promise!Has(t, op) = Has(t, op)
  BY DEF Has, Promise!Has, SelectInSeq, Promise!SelectInSeq, Min, Promise!Min
<1>2. \A t, op : Promise!Before(t, op) = Before(t, op)
  BY <1>1 DEF Before, Promise!Before, SelectInSeq, Promise!SelectInSeq, Min, Promise!Min
<1>3. \A t, op : Promise!After(t, op) = After(t, op)
  BY DEF After, Promise!After, SelectInSeq, Promise!SelectInSeq, Min, Promise!Min
<1>4. \A t : Promise!Words(t) = Words(t)
  BY <1>2 DEF Words, Promise!Words
<1>5. \A t : Promise!Attempts(t) = Attempts(t)
  BY DEF Attempts, Promise!Attempts
<1>6. Promise!Nothing = Nothing
  BY DEF Nothing, Promise!Nothing
<1>7. \A t : Promise!Commands(t) = Commands(t) /\ Promise!Behind(t) = Behind(t)
  BY <1>1, <1>3, <1>6 DEF Commands, Promise!Commands, Behind, Promise!Behind
<1>8. \A t : Promise!IsBuiltin(t) = IsBuiltin(t) /\ Promise!Overflows(t) = Overflows(t)
  BY DEF IsBuiltin, Promise!IsBuiltin, Overflows, Promise!Overflows
<1>9. Promise!NotRun = NotRun /\ Promise!Given = Given
  BY DEF NotRun, Promise!NotRun, Closed, Stream, Promise!Stream, Std, Promise!Std,
         Given, Promise!Given
<1> QED BY <1>1, <1>2, <1>3, <1>4, <1>5, <1>6, <1>7, <1>8, <1>9

LEMMA SameRedirect ==
  ASSUME NEW s, NEW d, NEW t, NEW op
  PROVE  Promise!Redirect(s, d, t, op) = Redirecting(s, d, t, op)
<1>1. Promise!Stream(After(t, op), s.opens + 1) = Stream(After(t, op), s.opens + 1)
  BY DEF Stream, Promise!Stream
<1>2. Promise!Has(t, op) = Has(t, op) /\ Promise!After(t, op) = After(t, op)
  BY SameText
<1>3. CASE ~Has(t, op) \/ s.left = 0
  BY <1>2, <1>3 DEF Promise!Redirect, Redirecting, Attached
<1>4. CASE Has(t, op) /\ s.left # 0
  BY <1>1, <1>2, <1>4 DEF Promise!Redirect, Redirecting, Attached
<1> QED BY <1>3, <1>4

LEMMA SameRedirected == Promise!Redirected(Command) = AfterIn
BY SameRedirect, SameText DEF Promise!Redirected, AfterIn, AfterOut, AfterErr, Start

LEMMA InitImplements == Init => Promise!Init
BY SameText DEF Init, Promise!Init

\* Nothing of what Redirection knows changes.
LEMMA HiddenStep ==
  ASSUME UNCHANGED <<settled, ran>>, pc' # "aborted" <=> pc # "aborted"
  PROVE  [Promise!Next]_Promise!rvars
BY DEF Promise!rvars

\* A command with no word, or one that ends.
LEMMA CommandImplements ==
  ASSUME ShellInv, Blank \/ Restore
  PROVE  Promise!RunCommand
<1>1. /\ pc \in {"command", "restore"} /\ pc' = "next"
      /\ rest = Behind(settled.rest) /\ settled.rest # Nothing
      /\ text = Words(Command) /\ Now = AfterIn
      /\ pc = "restore" => \/ AProgram /\ HasRun
                           \/ text # <<>> /\ IsBuiltin(text) /\ seen = StdStreams
  BY DEF Blank, Restore, ShellInv, Underway, Resting, Redirected, Seen
<1>2. /\ Promise!Redirected(Command) = Now /\ Promise!Before(settled.rest, ";") = Command
      /\ Promise!Words(Command) = text /\ Promise!Behind(settled.rest) = rest
      /\ Promise!Nothing = Nothing
  BY <1>1, SameRedirected, SameText DEF Command
<1>3. /\ Now.now = StdStreams /\ Now.after = GoingBack /\ Now.left = Left
      /\ Now.files = files /\ Now.opens = opens
  BY DEF Now
<1>4. CASE Blank
  <2>1. /\ text = <<>> /\ ran' = ran
        /\ settled'.rest = rest /\ settled'.own = StdStreams /\ settled'.left = Left
        /\ settled'.files = files /\ settled'.opens = opens
    BY <1>4 DEF Blank, Settle, StdStreams, Left, Free
  <2> QED BY <2>1, <1>1, <1>2, <1>3 DEF Promise!RunCommand
<1>5. CASE Restore
  <2>1. /\ ran' = Append(ran, [words |-> text, streams |-> seen]) /\ pc = "restore"
        /\ settled'.rest = rest /\ settled'.own = GoingBack
        /\ settled'.left = Cardinality(FreeFds(PutBack))
        /\ settled'.files = files /\ settled'.opens = opens
    BY <1>5 DEF Restore, Settle, GoingBack
  <2>2. settled'.left = Left
    BY <2>1, <1>5, RestoreFacts DEF Restore, ShellInv, Left
  <2>3. text # <<>> /\ (IsBuiltin(text) \/ ~Overflows(text))
    BY <2>1, <1>1 DEF AProgram
  <2>4. seen \in Promise!Outcomes(text, StdStreams)
    BY <2>1, <1>1, SameText DEF AProgram, HasRun, Promise!Outcomes
  <2> QED BY <2>1, <2>2, <2>3, <2>4, <1>1, <1>2, <1>3, SameText DEF Promise!RunCommand
<1> QED BY <1>4, <1>5

LEMMA AbortImplements ==
  ASSUME ShellInv, Abort
  PROVE  Promise!Abort
<1>1. /\ pc = "command" /\ pc' = "aborted" /\ text # <<>> /\ ~IsBuiltin(text) /\ Overflows(text)
      /\ UNCHANGED <<settled, ran>> /\ text = Words(Command) /\ settled.rest # Nothing
  BY DEF Abort, history, ShellInv, Underway, Resting, Redirected
<1> QED BY <1>1, SameText DEF Promise!Abort, Command

LEMMA ReadLineImplements ==
  ASSUME ShellInv, ReadLine
  PROVE  Promise!ReadLine
<1>1. /\ pc = "prompt" /\ pc' = "next" /\ settled' = [settled EXCEPT !.rest = rest']
      /\ HasFields /\ settled.rest = Nothing /\ ran' = ran
  BY DEF ReadLine, ShellInv, Settled, Resting
<1>2. PICK line \in Lines : rest' = Commands(line)
  BY DEF ReadLine
<1>3. /\ settled'.rest = rest' /\ settled'.own = settled.own /\ settled'.left = settled.left
      /\ settled'.files = settled.files /\ settled'.opens = settled.opens
  BY <1>1 DEF HasFields
<1>4. rest' \in {Promise!Commands(l) : l \in Lines}
  BY <1>2, SameText
<1> QED BY <1>1, <1>3, <1>4, SameText DEF Promise!ReadLine

LEMMA NextImplements == ShellInv /\ [Next]_vars => [Promise!Next]_Promise!rvars
<1> SUFFICES ASSUME ShellInv, [Next]_vars PROVE [Promise!Next]_Promise!rvars
  OBVIOUS
<1>1. CASE ReadLine
  BY <1>1, ReadLineImplements DEF Promise!Next
<1>2. CASE Blank \/ Restore
  BY <1>2, CommandImplements DEF Promise!Next
<1>3. CASE Abort
  BY <1>3, AbortImplements DEF Promise!Next
<1>4. CASE ReadEnd \/ Prompt \/ NextCommand \/ UNCHANGED vars
  <2>1. UNCHANGED <<settled, ran>> /\ (pc' # "aborted" <=> pc # "aborted")
    BY <1>4 DEF ReadEnd, Prompt, NextCommand, vars, history
  <2> QED BY <2>1, HiddenStep
<1>5. CASE RedirectErr \/ RedirectOut \/ RedirectIn
  <2>1. UNCHANGED <<settled, ran>> /\ (pc' # "aborted" <=> pc # "aborted")
    BY <1>5 DEF RedirectErr, RedirectOut, RedirectIn, Redirect, history
  <2> QED BY <2>1, HiddenStep
<1>6. CASE \/ Echo \/ Program \/ Fork \/ ForkFails \/ Exec \/ ExecFails
           \/ GiveUp \/ PassOn \/ Report
  <2>1. UNCHANGED <<settled, ran>> /\ (pc' # "aborted" <=> pc # "aborted")
    BY <1>6 DEF Echo, Program, Fork, ForkFails, Exec, ExecFails, GiveUp, PassOn, Report,
            Exit, history
  <2> QED BY <2>1, HiddenStep
<1> QED BY <1>1, <1>2, <1>3, <1>4, <1>5, <1>6 DEF Next, RunLine, Execute, Done

\* The shell implements Redirection: for any lines, programs, files and size of
\* the table, each command is run at most once, in order, with the streams its
\* redirections name, and what outlasts it is what Redirection says
\* (hw2.c:85-148, 289-307, 320-345).
THEOREM Spec_RunsAsAsked == Spec => RunsAsAsked
BY InitImplements, NextImplements, SpecInv, PTL DEF Spec, RunsAsAsked, Promise!Spec

-----------------------------------------------------------------------------
(* The types, with the length of the chain of processes.                   *)

Messages == {"failed", "not found"}

\* How long the chain is where it forks, runs a program, and waits.
Depths ==
  /\ depth \in Nat
  /\ pc \notin {"fork", "exec", "wait"} => depth = 0
  /\ pc \in {"fork", "wait"} => depth \in 0 .. Len(Path)
  /\ pc = "exec" => depth \in 1 .. Len(Path) + 1

Types ==
  /\ rest \in Seq(Tokens) /\ text \in Seq(Tokens)
  /\ table \in [Fds -> Streams]
  /\ status \in {0, 1}
  /\ buffered \in Nat /\ shown \in Seq(Messages)
  /\ lines \in 0 .. MAX_LINES

\* n times the message that a file could not be opened.
Fails(n) == [i \in 1 .. n |-> "failed"]

LEMMA SingleSeq ==
  ASSUME NEW S, NEW e \in S
  PROVE  <<e>> \in Seq(S)
<1>1. Append(<<>>, e) \in Seq(S)
  BY EmptySeq
<1>2. Append(<<>>, e) = <<e>>
  OBVIOUS
<1> QED BY <1>1, <1>2

LEMMA NothingType == Nothing \in Seq(Tokens)
<1>1. "end of line" \in Tokens
  BY DEF Tokens
<1>2. <<"end of line">> \in Seq(Tokens)
  BY <1>1, SingleSeq
<1> QED BY <1>2 DEF Nothing

LEMMA LineTypes == Lines \subseteq Seq(Tokens)
<1> SUFFICES ASSUME NEW line \in Lines PROVE line \in Seq(Tokens)
  OBVIOUS
<1>1. line \in Seq(STRING)
  BY ShellAssumption
<1>2. Len(line) \in Nat /\ line \in [1 .. Len(line) -> STRING]
  BY <1>1, LenProperties
<1>3. \A i \in 1 .. Len(line) : line[i] \in Tokens
  <2> SUFFICES ASSUME NEW i \in 1 .. Len(line) PROVE line[i] \in Tokens
    OBVIOUS
  <2>1. line[i] \in Range(line)
    BY <1>2 DEF Range
  <2> QED BY <2>1 DEF Tokens
<1>4. line \in [1 .. Len(line) -> Tokens]
  BY <1>2, <1>3
<1> QED BY <1>2, <1>4, SeqDef

\* Where a text has a token first, or 0.
At(t, o) == SelectInSeq(t, LAMBDA x : x = o)

LEMMA AtFacts ==
  ASSUME NEW t \in Seq(Tokens), NEW o
  PROVE  At(t, o) \in 0 .. Len(t)
<1> DEFINE I == {i \in 1 .. Len(t) : t[i] = o}
<1>1. I \subseteq Nat /\ Min(I) = Lowest(I)
  BY DEF Min, Lowest
<1>2. I # {} => Min(I) \in I
  BY <1>1, LowestFacts
<1>3. At(t, o) = IF I # {} THEN Min(I) ELSE 0
  BY DEF At, SelectInSeq
<1>4. Len(t) \in Nat
  BY LenProperties
<1> QED BY <1>2, <1>3, <1>4

LEMMA TextTypes ==
  ASSUME NEW t \in Seq(Tokens), NEW op
  PROVE  /\ Before(t, op) \in Seq(Tokens) /\ After(t, op) \in Seq(Tokens)
         /\ Behind(t) \in Seq(Tokens) /\ Commands(t) \in Seq(Tokens)
<1>1. ASSUME NEW o PROVE Before(t, o) \in Seq(Tokens) /\ After(t, o) \in Seq(Tokens)
  <2>1. /\ Before(t, o) = IF At(t, o) # 0 THEN SubSeq(t, 1, At(t, o) - 1) ELSE t
        /\ After(t, o) = SubSeq(t, At(t, o) + 1, Len(t))
    BY DEF Before, After, Has, At
  <2>2. Len(t) \in Nat /\ \A i \in 1 .. Len(t) : t[i] \in Tokens
    BY LenProperties, ElementOfSeq
  <2>3. /\ At(t, o) \in Int /\ Len(t) \in Int
        /\ \A i \in 1 .. At(t, o) - 1 : t[i] \in Tokens
        /\ \A i \in At(t, o) + 1 .. Len(t) : t[i] \in Tokens
    BY <2>2, AtFacts
  <2>4. /\ SubSeq(t, 1, At(t, o) - 1) \in Seq(Tokens)
        /\ SubSeq(t, At(t, o) + 1, Len(t)) \in Seq(Tokens)
    BY <2>3, SubSeqProperties
  <2> QED BY <2>1, <2>4
<1> QED BY <1>1, NothingType DEF Behind, Commands

LEMMA PathFacts == Path \in Seq(STRING) /\ Len(Path) \in Nat
BY CommandLineAssumption

LEMMA FailsType ==
  ASSUME NEW n \in Nat, NEW s \in Seq(Messages)
  PROVE  s \o Fails(n) \in Seq(Messages)
<1>1. Fails(n) \in Seq(Messages)
  <2>1. Fails(n) \in [1 .. n -> Messages]
    BY DEF Fails, Messages
  <2> QED BY <2>1, SeqDef
<1> QED BY <1>1, ConcatProperties

LEMMA InitTypes == Init => Types /\ Depths
<1> SUFFICES ASSUME Init PROVE Types /\ Depths
  OBVIOUS
<1>1. \A f \in Fds : f < 6 => Given[f % 3] \in Streams
  <2> SUFFICES ASSUME NEW f \in Fds, f < 6 PROVE Given[f % 3] \in Streams
    OBVIOUS
  <2>1. f % 3 \in 0 .. 2
    BY FdFacts
  <2>2. Given[f % 3] = [name |-> <<>>, id |-> -1 - (f % 3)]
    BY <2>1 DEF Given, Std, Stream
  <2>3. <<>> \in Seq(Tokens) /\ -1 - (f % 3) \in Int
    BY <2>1
  <2> QED BY <2>2, <2>3 DEF Streams
<1>2. Closed \in Streams
  BY DEF Closed, Stream, Streams
<1>3. table \in [Fds -> Streams]
  BY <1>1, <1>2 DEF Init
<1> QED BY <1>3, NothingType, EmptySeq, ShellAssumption DEF Init, Types, Depths

LEMMA AttachTypes ==
  ASSUME Types, opens \in Nat, NEW d \in Std, NEW name \in Seq(Tokens), NEW ok \in BOOLEAN,
         Attach(d, name, ok)
  PROVE  table' \in [Fds -> Streams] /\ buffered' \in Nat
<1> DEFINE file   == IF ok /\ FreeFds(table) # {} THEN Lowest(FreeFds(table)) ELSE Failed
           stream == Stream(name, opens + 1)
           opened == IF file = Failed THEN table ELSE [table EXCEPT ![file] = stream]
           copy   == IF FreeFds(opened) = {} THEN Failed ELSE Lowest(FreeFds(opened))
           saved  == IF copy = Failed THEN opened ELSE [opened EXCEPT ![copy] = table[d]]
<1>1. /\ file = Failed => table' = saved /\ buffered' = buffered + 1
      /\ file # Failed => /\ table' = [[saved EXCEPT ![d] = stream] EXCEPT ![file] = Closed]
                          /\ buffered' = buffered
  BY DEF Attach, Close
<1>2. stream \in Streams /\ Closed \in Streams
  BY DEF Stream, Streams, Closed
<1>3. opened \in [Fds -> Streams] /\ table[d] \in Streams
  BY <1>2, FdFacts DEF Types
<1> HIDE DEF opened, stream, file
<1>4. saved \in [Fds -> Streams]
  BY <1>3
<1> HIDE DEF saved
<1>5. table' \in [Fds -> Streams]
  BY <1>1, <1>2, <1>4
<1> QED BY <1>1, <1>5 DEF Types

LEMMA RedirectTypes ==
  ASSUME ShellInv, Types, RedirectErr \/ RedirectOut \/ RedirectIn
  PROVE  Types'
<1>1. PICK d \in Std, op \in {"2>", ">", "<"} : \E here, next : Redirect(d, op, here, next)
  BY FdFacts DEF RedirectErr, RedirectOut, RedirectIn
<1>2. /\ text' = Before(text, op) /\ UNCHANGED <<rest, status, shown, lines>>
      /\ IF Has(text, op)
         THEN \E name, ok : name = After(text, op) /\ ok \in BOOLEAN /\ Attach(d, name, ok)
         ELSE UNCHANGED <<table, buffered>>
  <2>1. \A n, S : (n \in S) \in BOOLEAN
    OBVIOUS
  <2>2. CASE Has(text, op)
    <3> DEFINE name == After(text, op)
               ok == IF d = 0 THEN name \in files ELSE name \in Creatable
    <3>1. Attach(d, name, ok)
      BY <1>1, <2>2 DEF Redirect
    <3>2. ok \in BOOLEAN
      BY <2>1, Zenon
    <3> QED BY <1>1, <2>2, <3>1, <3>2 DEF Redirect, procVars
  <2>3. CASE ~Has(text, op)
    BY <1>1, <2>3 DEF Redirect, fdVars, procVars
  <2> QED BY <2>2, <2>3
<1>3. text' \in Seq(Tokens) /\ After(text, op) \in Seq(Tokens)
  BY <1>2, TextTypes DEF Types
<1>4. opens \in Nat
  BY DEF ShellInv, Descriptors
<1>5. table' \in [Fds -> Streams] /\ buffered' \in Nat
  BY <1>2, <1>3, <1>4, AttachTypes DEF Types
<1> QED BY <1>2, <1>3, <1>5 DEF Types

LEMMA NextTypes == ShellInv /\ Types /\ [Next]_vars => Types'
<1> SUFFICES ASSUME ShellInv, Types, [Next]_vars PROVE Types'
  OBVIOUS
<1>1. CASE ReadLine
  <2>1. PICK line \in Lines : rest' = Commands(line)
    BY <1>1 DEF ReadLine
  <2>2. rest' \in Seq(Tokens)
    BY <2>1, LineTypes, TextTypes
  <2> QED BY <1>1, <2>2, ShellAssumption DEF ReadLine, Types, fdVars, procVars, ioVars
<1>2. CASE NextCommand
  <2>1. rest' \in Seq(Tokens) /\ text' \in Seq(Tokens)
    BY <1>2, TextTypes DEF NextCommand, Types
  <2>2. <<>> \in Seq(Messages)
    OBVIOUS
  <2> QED BY <1>2, <2>1, <2>2 DEF NextCommand, Types, procVars
<1>3. CASE RedirectErr \/ RedirectOut \/ RedirectIn
  BY <1>3, RedirectTypes
<1>4. CASE Prompt \/ Echo
  <2>1. shown' = shown \o Fails(buffered) /\ buffered' = 0
    BY <1>4 DEF Prompt, Echo, Flush, Fails
  <2>2. shown' \in Seq(Messages)
    BY <2>1, FailsType DEF Types
  <2> QED BY <1>4, <2>1, <2>2 DEF Prompt, Echo, Types, fdVars, procVars
<1>5. CASE Restore
  <2>1. shown' = shown \o Fails(buffered) /\ buffered' = 0 /\ table' = PutBack
    BY <1>5 DEF Restore, Flush, Fails
  <2>2. shown' \in Seq(Messages)
    BY <2>1, FailsType DEF Types
  <2>3. table' \in [Fds -> Streams]
    BY <2>1 DEF PutBack, Types
  <2> QED BY <1>5, <2>1, <2>2, <2>3 DEF Restore, Types, procVars
<1>6. CASE GiveUp \/ PassOn
  <2>1. PICK code \in {0, 1} : Exit(code)
    BY <1>6 DEF GiveUp, PassOn
  <2>2. shown' = shown \o Fails(buffered)
    BY <2>1 DEF Exit, Fails
  <2>3. shown' \in Seq(Messages)
    BY <2>2, FailsType DEF Types
  <2> QED BY <2>1, <2>3 DEF Exit, Types, fdVars
<1>7. CASE Report
  <2>1. Append(shown, "not found") \in Seq(Messages)
    <3>1. "not found" \in Messages /\ shown \in Seq(Messages)
      BY DEF Types, Messages
    <3> QED BY <3>1, AppendProperties
  <2>2. shown' \in Seq(Messages)
    BY <1>7, <2>1 DEF Report, Types
  <2> QED BY <1>7, <2>2 DEF Report, Types, fdVars, procVars
<1>8. CASE ReadEnd \/ Blank \/ Abort \/ Program \/ Fork \/ ForkFails \/ Exec \/ ExecFails
  BY <1>8 DEF ReadEnd, Blank, Abort, Program, Fork, ForkFails, Exec, ExecFails,
              Types, fdVars, procVars, ioVars
<1>9. CASE UNCHANGED vars
  BY <1>9 DEF vars, fdVars, procVars, ioVars, Types
<1> QED BY <1>1, <1>2, <1>3, <1>4, <1>5, <1>6, <1>7, <1>8, <1>9 DEF Next, RunLine, Execute, Done

LEMMA NextDepths == Depths /\ [Next]_vars => Depths'
<1> SUFFICES ASSUME Depths, [Next]_vars PROVE Depths'
  OBVIOUS
<1>1. CASE \/ ReadLine \/ ReadEnd \/ Prompt \/ NextCommand
           \/ RedirectErr \/ RedirectOut \/ RedirectIn
  BY <1>1 DEF ReadLine, ReadEnd, Prompt, NextCommand, RedirectErr, RedirectOut, RedirectIn,
              Redirect, Depths, procVars
<1>2. CASE Blank \/ Echo \/ Abort \/ Program \/ Restore
  BY <1>2, PathFacts DEF Blank, Echo, Abort, Program, Restore, Depths, procVars
<1>3. CASE Fork \/ ForkFails \/ ExecFails \/ Report
  <2>1. CASE Fork
    BY <2>1, PathFacts DEF Fork, Depths
  <2>2. CASE ForkFails
    BY <2>2, PathFacts DEF ForkFails, Depths
  <2>3. CASE ExecFails
    BY <2>3, PathFacts DEF ExecFails, Depths, procVars
  <2>4. CASE Report
    BY <2>4, PathFacts DEF Report, Depths, procVars
  <2> QED BY <1>3, <2>1, <2>2, <2>3, <2>4
<1>4. CASE Exec \/ GiveUp \/ PassOn
  BY <1>4, PathFacts DEF Exec, GiveUp, PassOn, Exit, Depths
<1>5. CASE UNCHANGED vars
  BY <1>5 DEF vars, procVars, Depths
<1> QED BY <1>1, <1>2, <1>3, <1>4, <1>5 DEF Next, RunLine, Execute, Done

\* Every variable keeps its type, and the chain of processes is never longer
\* than the directories of PATH allow (hw2.c:189-252).
THEOREM Spec_TypeOK == Spec => []TypeOK
<1>1. ShellInv /\ Types /\ Depths => TypeOK
  <2> SUFFICES ASSUME ShellInv, Types, Depths PROVE TypeOK
    OBVIOUS
  <2>1. depth \in 0 .. Len(Path) + 1
    BY PathFacts DEF Depths
  <2>2. copies \in [Std -> Fds \cup {Failed, NotSaved}]
    BY DEF ShellInv, Descriptors
  <2> QED BY <2>1, <2>2 DEF TypeOK, ShellInv, Types, States, Descriptors, Messages
<1> QED BY <1>1, InitTypes, NextTypes, NextDepths, SpecInv, PTL DEF Spec

-----------------------------------------------------------------------------
(* Messages.                                                               *)

HowMany(s, message) == Cardinality({i \in DOMAIN s : s[i] = message})

LEMMA FailsFacts ==
  ASSUME NEW n \in Nat
  PROVE  /\ Fails(n) \in Seq(Messages) /\ Len(Fails(n)) = n
         /\ \A i \in 1 .. n : Fails(n)[i] = "failed"
<1>1. Fails(n) \in [1 .. n -> Messages]
  BY DEF Fails, Messages
<1>2. Fails(n) \in Seq(Messages)
  BY <1>1, SeqDef
<1>3. Len(Fails(n)) = n
  BY <1>2, LenProperties DEF Fails
<1> QED BY <1>2, <1>3 DEF Fails

\* What is known of a sequence put together from f, of length m, and g, of length n.
Joined(s, f, g, m, n) ==
  /\ s \in Seq(Messages) /\ Len(s) = m + n /\ DOMAIN s = 1 .. m + n
  /\ \A i \in 1 .. m : s[i] = f[i]
  /\ \A i \in m + 1 .. m + n : s[i] = g[i - m]

LEMMA JoinFacts ==
  ASSUME NEW f \in Seq(Messages), NEW g \in Seq(Messages), NEW m \in Nat, NEW n \in Nat,
         Len(f) = m, Len(g) = n, NEW s, s = f \o g
  PROVE  Joined(s, f, g, m, n)
<1>1. s \in Seq(Messages) /\ Len(s) = m + n
  BY ConcatProperties
<1>2. DOMAIN s = 1 .. m + n
  BY <1>1, LenProperties
<1>3. \A i \in 1 .. Len(f) + Len(g) :
        s[i] = IF i <= Len(f) THEN f[i] ELSE g[i - Len(f)]
  BY ConcatProperties
<1> QED BY <1>1, <1>2, <1>3 DEF Joined

\* One message more.
Added(s, f, e, n) ==
  /\ s \in Seq(Messages) /\ Len(s) = n + 1 /\ s[n + 1] = e
  /\ \A i \in 1 .. n : s[i] = f[i]

LEMMA AddFacts ==
  ASSUME NEW f \in Seq(Messages), NEW e \in Messages, NEW n \in Nat, Len(f) = n,
         NEW s, s = Append(f, e)
  PROVE  Added(s, f, e, n)
BY AppendProperties DEF Added

LEMMA FailsSum ==
  ASSUME NEW m \in Nat, NEW n \in Nat
  PROVE  Fails(m) \o Fails(n) = Fails(m + n)
<1>1. PICK s : s = Fails(m) \o Fails(n)
  OBVIOUS
<1>2. Joined(s, Fails(m), Fails(n), m, n)
  BY <1>1, FailsFacts, JoinFacts
<1>3. PICK t : t = Fails(m + n)
  OBVIOUS
<1>4. /\ t \in Seq(Messages) /\ Len(t) = m + n
      /\ \A i \in 1 .. m + n : t[i] = "failed"
  BY <1>3, FailsFacts
<1>5. \A i \in 1 .. m + n : s[i] = "failed"
  <2>1. \A i \in 1 .. m + n : i \in 1 .. m \/ (i \in m + 1 .. m + n /\ i - m \in 1 .. n)
    OBVIOUS
  <2> QED BY <2>1, <1>2, FailsFacts DEF Joined
<1>6. s = t
  BY <1>2, <1>4, <1>5, SeqEqual DEF Joined
<1> QED BY <1>1, <1>3, <1>6

LEMMA NoFails == Fails(0) = <<>>
BY FailsFacts, EmptySeq

LEMMA OneLonger ==
  ASSUME NEW n \in Nat
  PROVE  Fails(n) # Append(Fails(n), "not found")
<1>1. PICK s : s = Append(Fails(n), "not found")
  OBVIOUS
<1>2. "not found" \in Messages
  BY DEF Messages
<1>3. Added(s, Fails(n), "not found", n)
  BY <1>1, <1>2, FailsFacts, AddFacts
<1>4. Len(s) # Len(Fails(n))
  <2>1. Len(s) = n + 1
    BY <1>3, Zenon DEF Added
  <2>2. Len(Fails(n)) = n
    BY FailsFacts
  <2> QED BY <2>1, <2>2
<1> QED BY <1>1, <1>4

\* The shell's complaint between n messages of other processes and m of its own.
Complained(n, m) == Append(Fails(n), "not found") \o Fails(m)

LEMMA CountFails ==
  ASSUME NEW n \in Nat
  PROVE  HowMany(Fails(n), "failed") = n /\ HowMany(Fails(n), "not found") = 0
<1>1. DOMAIN Fails(n) = 1 .. n
  BY DEF Fails
<1>2. /\ {i \in DOMAIN Fails(n) : Fails(n)[i] = "failed"} = 1 .. n
      /\ {i \in DOMAIN Fails(n) : Fails(n)[i] = "not found"} = {}
  BY <1>1, FailsFacts
<1>3. Cardinality(1 .. n) = n
  BY FS_Interval
<1> QED BY <1>2, <1>3, FS_EmptySet DEF HowMany

LEMMA CountTold ==
  ASSUME NEW n \in Nat, NEW m \in Nat
  PROVE  HowMany(Complained(n, m), "failed") = n + m /\ HowMany(Complained(n, m), "not found") = 1
<1>1. PICK f : f = Append(Fails(n), "not found")
  OBVIOUS
<1>2. PICK s : s = f \o Fails(m)
  OBVIOUS
<1>3. "not found" \in Messages
  BY DEF Messages
<1>4. Added(f, Fails(n), "not found", n)
  BY <1>1, <1>3, FailsFacts, AddFacts
<1>5. Joined(s, f, Fails(m), n + 1, m)
  <2>1. f \in Seq(Messages) /\ Len(f) = n + 1 /\ n + 1 \in Nat
    <3>1. f \in Seq(Messages) /\ Len(f) = n + 1
      BY <1>4, Zenon DEF Added
    <3> QED BY <3>1
  <2> QED BY <2>1, <1>2, FailsFacts, JoinFacts
<1>6. /\ {i \in DOMAIN s : s[i] = "failed"} = (1 .. n + 1 + m) \ {n + 1}
      /\ {i \in DOMAIN s : s[i] = "not found"} = {n + 1}
  <2>1. \A i \in 1 .. n + 1 + m :
          \/ i = n + 1
          \/ i \in 1 .. n /\ i \in 1 .. n + 1
          \/ i \in n + 1 + 1 .. n + 1 + m /\ i - (n + 1) \in 1 .. m
    OBVIOUS
  <2>2. \A i \in 1 .. n + 1 + m : i # n + 1 => s[i] = "failed"
    BY <2>1, <1>4, <1>5, FailsFacts DEF Added, Joined
  <2>3. n + 1 \in 1 .. n + 1 + m /\ n + 1 \in 1 .. n + 1
    OBVIOUS
  <2>4. s[n + 1] = "not found" /\ DOMAIN s = 1 .. n + 1 + m
    BY <2>3, <1>4, <1>5 DEF Added, Joined
  <2> QED BY <2>2, <2>3, <2>4
<1>7. Cardinality((1 .. n + 1 + m) \ {n + 1}) = n + m
  <2>1. IsFiniteSet(1 .. n + 1 + m) /\ Cardinality(1 .. n + 1 + m) = n + 1 + m
    BY FS_Interval
  <2>2. n + 1 \in 1 .. n + 1 + m
    OBVIOUS
  <2>3. Cardinality((1 .. n + 1 + m) \ {n + 1}) = Cardinality(1 .. n + 1 + m) - 1
    BY <2>1, <2>2, FS_RemoveElement
  <2> QED BY <2>1, <2>3
<1>8. Cardinality({n + 1}) = 1
  BY FS_Singleton
<1> QED BY <1>1, <1>2, <1>6, <1>7, <1>8 DEF HowMany, Complained

-----------------------------------------------------------------------------
(* The chain of processes.                                                 *)

Found == Attempts(text[1]) # {}

\* The attempts that fail, and whether the first n have.
Tried == {k \in 1 .. Len(Path) + 1 : \A a \in Attempts(text[1]) : k < a}
NoneUpTo(n) == \A k \in 1 .. n : k \notin Attempts(text[1])

\* While the processes end, from the last one back: those above depth have shown
\* what was in the buffer, if they ended in exit.
Ending ==
  /\ seen # NotRun <=> Found
  /\ ~Found => status = 1
  /\ \E t \in Nat : /\ depth <= t /\ Tried = 1 .. t
                    /\ shown = Fails((t - depth) * buffered)

\* The shell has looked at the status.
Ended ==
  /\ seen # NotRun <=> Found
  /\ \E t \in Nat :
       /\ Tried = 1 .. t
       /\ shown \in {Fails(t * buffered), Append(Fails(t * buffered), "not found")}
       /\ ~Found => shown = IF copies[2] = NotSaved
                            THEN Append(Fails(t * buffered), "not found")
                            ELSE Fails(t * buffered)

Chain ==
  /\ pc \in {"stderr", "stdout", "stdin", "command", "fork", "exec"} => shown = <<>>
  /\ pc \in {"fork", "exec"} => seen = NotRun
  /\ pc = "fork" => NoneUpTo(depth)
  /\ pc = "exec" => NoneUpTo(depth - 1)
  /\ pc = "wait" /\ forked => Ending
  /\ pc = "restore" /\ forked /\ ~IsBuiltin(text) => Ended

Inv == ShellInv /\ Types /\ Depths /\ Chain

\* While a command runs, it stays the same.
LEMMA SameSearch ==
  ASSUME text' = text
  PROVE  Found' = Found /\ Tried' = Tried /\ \A n : NoneUpTo(n)' <=> NoneUpTo(n)
BY DEF Found, Tried, NoneUpTo, Attempts

LEMMA AttemptsFacts == Attempts(text[1]) \subseteq 1 .. Len(Path) + 1
BY DEF Attempts

LEMMA ExecKeepsChain ==
  ASSUME Inv, Exec
  PROVE  Chain'
<1>1. /\ pc = "exec" /\ pc' = "wait" /\ depth \in Attempts(text[1]) /\ depth' = depth - 1
      /\ seen' = StdStreams /\ shown' = shown /\ buffered' = buffered /\ text' = text
  BY DEF Exec
<1>2. /\ depth \in 1 .. Len(Path) + 1 /\ NoneUpTo(depth - 1) /\ shown = <<>>
      /\ buffered \in Nat /\ Len(Path) \in Nat
  BY <1>1, PathFacts DEF Inv, Chain, Depths, Types
<1>3. Tried = 1 .. depth - 1
  BY <1>1, <1>2, AttemptsFacts DEF Tried, NoneUpTo
<1>4. Found
  BY <1>1 DEF Found
<1>5. seen' # NotRun
  <2>1. table[0] # Closed /\ 0 \in Std
    BY FdFacts DEF Inv, ShellInv, Descriptors
  <2>2. StdStreams[0] # NotRun[0]
    BY <2>1 DEF StdStreams, NotRun
  <2> QED BY <2>2, <1>1
<1>6. shown' = Fails(((depth - 1) - depth') * buffered')
  BY <1>1, <1>2, NoFails
<1>7. Found' /\ Tried' = 1 .. depth - 1
  BY <1>1, <1>3, <1>4, SameSearch
<1>8. depth - 1 \in Nat /\ depth' <= depth - 1
  BY <1>1, <1>2
<1>9. Ending'
  BY <1>5, <1>6, <1>7, <1>8 DEF Ending
<1> QED BY <1>1, <1>9 DEF Chain

LEMMA GiveUpKeepsChain ==
  ASSUME Inv, GiveUp
  PROVE  Chain'
<1>1. /\ pc = "exec" /\ pc' = "wait" /\ depth \notin Attempts(text[1]) /\ depth > Len(Path)
      /\ depth' = depth - 1 /\ status' = 1 /\ seen' = seen /\ text' = text
      /\ shown' = shown \o Fails(buffered) /\ buffered' = buffered
  BY DEF GiveUp, Exit, Fails, history
<1>2. /\ depth \in 1 .. Len(Path) + 1 /\ NoneUpTo(depth - 1) /\ shown = <<>>
      /\ buffered \in Nat /\ Len(Path) \in Nat /\ seen = NotRun
  BY <1>1, PathFacts DEF Inv, Chain, Depths, Types
<1>3. depth = Len(Path) + 1
  BY <1>1, <1>2
<1>4. Attempts(text[1]) = {}
  <2> SUFFICES ASSUME NEW k \in Attempts(text[1]) PROVE FALSE
    OBVIOUS
  <2>1. k \in 1 .. Len(Path) + 1
    BY AttemptsFacts
  <2>2. k = depth \/ k \in 1 .. depth - 1
    BY <2>1, <1>2, <1>3
  <2> QED BY <2>2, <1>1, <1>2 DEF NoneUpTo
<1>5. Tried = 1 .. depth /\ ~Found
  BY <1>3, <1>4 DEF Tried, Found
<1>6. shown' = Fails((depth - depth') * buffered')
  <2>1. shown' = Fails(0) \o Fails(buffered)
    BY <1>1, <1>2, NoFails
  <2>2. shown' = Fails(0 + buffered)
    BY <2>1, <1>2, FailsSum
  <2>3. (depth - depth') * buffered' = 0 + buffered
    BY <1>1, <1>2
  <2> QED BY <2>2, <2>3
<1>7. ~Found' /\ Tried' = 1 .. depth
  BY <1>1, <1>5, SameSearch
<1>8. depth \in Nat /\ depth' <= depth
  BY <1>1, <1>2
<1>9. Ending'
  BY <1>1, <1>2, <1>6, <1>7, <1>8 DEF Ending
<1> QED BY <1>1, <1>9 DEF Chain

LEMMA OneMore ==
  ASSUME NEW t \in Nat, NEW d \in Nat, NEW b \in Nat, d <= t, d > 0
  PROVE  /\ (t - d) * b \in Nat
         /\ (t - d) * b + b = (t - (d - 1)) * b
<1>1. t - d \in Nat
  OBVIOUS
<1>2. (t - d) * b \in Nat
  BY <1>1
<1>3. t - (d - 1) = (t - d) + 1
  OBVIOUS
<1>4. \A x \in Nat : x * b + b = (x + 1) * b
  OBVIOUS
<1> QED BY <1>1, <1>2, <1>3, <1>4

LEMMA PassOnKeepsChain ==
  ASSUME Inv, PassOn
  PROVE  Chain'
<1>1. /\ pc = "wait" /\ pc' = "wait" /\ depth > 0 /\ depth' = depth - 1
      /\ status' = (IF status = 0 THEN 0 ELSE 1)
      /\ shown' = shown \o Fails(buffered) /\ buffered' = buffered
      /\ text' = text /\ seen' = seen /\ forked' = forked
  BY DEF PassOn, Exit, Fails, history
<1>2. ASSUME forked PROVE Ending'
  <2>1. Ending /\ buffered \in Nat /\ depth \in Nat
    BY <1>1, <1>2 DEF Inv, Chain, Types, Depths
  <2>2. PICK t \in Nat : depth <= t /\ Tried = 1 .. t /\ shown = Fails((t - depth) * buffered)
    BY <2>1 DEF Ending
  <2>3. /\ (t - depth) * buffered \in Nat
        /\ (t - depth) * buffered + buffered = (t - depth') * buffered'
    BY <2>1, <2>2, <1>1, OneMore
  <2>4. shown' = Fails((t - depth') * buffered')
    BY <2>1, <2>2, <2>3, <1>1, FailsSum
  <2>5. Found' = Found /\ Tried' = 1 .. t /\ depth' <= t
    BY <2>1, <2>2, <1>1, SameSearch
  <2>6. ~Found => status' = 1
    BY <2>1, <1>1 DEF Ending
  <2> QED BY <2>1, <2>4, <2>5, <2>6, <1>1 DEF Ending
<1> QED BY <1>1, <1>2 DEF Chain

LEMMA ReportKeepsChain ==
  ASSUME Inv, Report
  PROVE  Chain'
<1>1. /\ pc = "wait" /\ pc' = "restore" /\ depth = 0
      /\ shown' = IF status > 0 /\ copies[2] = NotSaved THEN Append(shown, "not found") ELSE shown
      /\ buffered' = buffered /\ text' = text /\ seen' = seen /\ copies' = copies
      /\ forked' = forked
  BY DEF Report, history, fdVars
<1>2. ASSUME forked PROVE Ended'
  <2>1. Ending /\ buffered \in Nat
    BY <1>1, <1>2 DEF Inv, Chain, Types
  <2>2. PICK t \in Nat : Tried = 1 .. t /\ shown = Fails((t - depth) * buffered)
    BY <2>1 DEF Ending
  <2>3. shown = Fails(t * buffered')
    <3>1. depth = 0 /\ buffered' = buffered
      BY <1>1
    <3>2. t - depth = t
      BY <3>1
    <3> QED BY <3>1, <3>2, <2>2
  <2>4. Found' = Found /\ Tried' = 1 .. t
    BY <2>2, <1>1, SameSearch
  <2>5. ~Found => status = 1
    BY <2>1 DEF Ending
  <2>6. shown' \in {Fails(t * buffered'), Append(Fails(t * buffered'), "not found")}
    BY <1>1, <2>3
  <2>7. ~Found' => shown' = IF copies'[2] = NotSaved
                            THEN Append(Fails(t * buffered'), "not found")
                            ELSE Fails(t * buffered')
    <3> SUFFICES ASSUME ~Found'
                 PROVE  shown' = IF copies'[2] = NotSaved
                                 THEN Append(Fails(t * buffered'), "not found")
                                 ELSE Fails(t * buffered')
      OBVIOUS
    <3>1. status > 0
      BY <2>4, <2>5
    <3>2. copies'[2] = copies[2]
      BY <1>1
    <3> QED BY <1>1, <2>3, <3>1, <3>2
  <2>8. seen' # NotRun <=> Found'
    BY <1>1, <2>1, <2>4 DEF Ending
  <2> QED BY <2>4, <2>6, <2>7, <2>8 DEF Ended
<1> QED BY <1>1, <1>2 DEF Chain

LEMMA NextChain == Inv /\ [Next]_vars => Chain'
<1> SUFFICES ASSUME Inv, [Next]_vars PROVE Chain'
  OBVIOUS
<1>1. CASE \/ ReadLine \/ ReadEnd \/ Prompt \/ NextCommand \/ Blank \/ Abort \/ Restore
  BY <1>1 DEF ReadLine, ReadEnd, Prompt, NextCommand, Blank, Abort, Restore, Chain
<1>2. CASE RedirectErr \/ RedirectOut \/ RedirectIn
  BY <1>2 DEF RedirectErr, RedirectOut, RedirectIn, Redirect, Inv, Chain
<1>3. CASE Echo
  BY <1>3 DEF Echo, Chain
<1>4. CASE Program
  <2>1. /\ pc = "command" /\ pc' = "fork" /\ shown' = shown /\ seen' = seen /\ depth' = depth
        /\ depth = 0 /\ shown = <<>> /\ seen = NotRun
    BY <1>4 DEF Program, ioVars, procVars, history, Inv, Chain, Depths, ShellInv, Seen
  <2>2. NoneUpTo(depth)'
    BY <2>1 DEF NoneUpTo
  <2> QED BY <2>1, <2>2 DEF Chain
<1>5. CASE Fork
  <2>1. /\ pc = "fork" /\ pc' = "exec" /\ depth' = depth + 1 /\ depth \in Nat
        /\ shown' = shown /\ seen' = seen /\ text' = text
        /\ NoneUpTo(depth) /\ shown = <<>> /\ seen = NotRun
    BY <1>5 DEF Fork, ioVars, history, Inv, Chain, Depths
  <2>2. depth' - 1 = depth
    BY <2>1
  <2>3. NoneUpTo(depth - 1)'
    BY <2>1, <2>2 DEF NoneUpTo, Attempts
  <2> QED BY <2>1, <2>3 DEF Chain
<1>6. CASE ForkFails
  BY <1>6 DEF ForkFails, Chain
<1>7. CASE ExecFails
  <2>1. /\ pc = "exec" /\ pc' = "fork" /\ depth' = depth /\ depth \in Nat
        /\ depth \notin Attempts(text[1]) /\ NoneUpTo(depth - 1)
        /\ shown' = shown /\ seen' = seen /\ text' = text /\ shown = <<>> /\ seen = NotRun
    BY <1>7 DEF ExecFails, ioVars, procVars, history, Inv, Chain, Depths
  <2>2. \A k \in 1 .. depth : k = depth \/ k \in 1 .. depth - 1
    BY <2>1
  <2>3. NoneUpTo(depth)'
    BY <2>1, <2>2 DEF NoneUpTo, Attempts
  <2> QED BY <2>1, <2>3 DEF Chain
<1>8. CASE Exec
  BY <1>8, ExecKeepsChain
<1>9. CASE GiveUp
  BY <1>9, GiveUpKeepsChain
<1>10. CASE PassOn
  BY <1>10, PassOnKeepsChain
<1>11. CASE Report
  BY <1>11, ReportKeepsChain
<1>12. CASE UNCHANGED vars
  <2>1. /\ UNCHANGED <<pc, text, copies, depth, status, buffered, shown, seen, forked>>
        /\ Chain
    BY <1>12 DEF vars, fdVars, procVars, ioVars, history, Inv
  <2>2. Found' = Found /\ Tried' = Tried /\ \A n : NoneUpTo(n)' <=> NoneUpTo(n)
    BY <2>1, SameSearch
  <2>3. (Ending' <=> Ending) /\ (Ended' <=> Ended)
    BY <2>1, <2>2 DEF Ending, Ended
  <2>4. NoneUpTo(depth)' <=> NoneUpTo(depth)
    BY <2>1 DEF NoneUpTo, Attempts
  <2>5. NoneUpTo(depth - 1)' <=> NoneUpTo(depth - 1)
    BY <2>1 DEF NoneUpTo, Attempts
  <2> QED BY <2>1, <2>3, <2>4, <2>5 DEF Chain
<1> QED BY <1>1, <1>2, <1>3, <1>4, <1>5, <1>6, <1>7, <1>8, <1>9, <1>10, <1>11, <1>12
        DEF Next, RunLine, Execute, Done

LEMMA SpecSearch == Spec => []Inv
<1>1. Init => Inv
  BY InitInv, InitTypes DEF Inv, Init, Chain
<1>2. Inv /\ [Next]_vars => Inv'
  BY NextInv, NextTypes, NextDepths, NextChain DEF Inv
<1> QED BY <1>1, <1>2, PTL DEF Spec

\* A command has ended: only Restore records one.
LEMMA RecordFacts ==
  ASSUME Inv, [Next]_vars, ran' # ran
  PROVE  Restore
BY DEF Next, RunLine, Execute, Done, vars, history, ReadLine, ReadEnd, Prompt, NextCommand,
       RedirectErr, RedirectOut, RedirectIn, Redirect, Blank, Echo, Abort, Program, Fork,
       ForkFails, Exec, ExecFails, GiveUp, PassOn, Report, Exit

\* What has been shown when a program, or none, has been run.
LEMMA ShownFacts ==
  ASSUME Inv, Restore, forked, ~IsBuiltin(text)
  PROVE  \E t \in Nat :
           /\ Tried = 1 .. t
           /\ Told("failed") = buffered * (1 + t)
           /\ ~Found => Told("not found") = IF copies[2] = NotSaved THEN 1 ELSE 0
<1>1. /\ Ended /\ shown' = shown \o Fails(buffered) /\ buffered \in Nat
  BY DEF Inv, Chain, Restore, Flush, Fails, Types
<1>2. PICK t \in Nat :
        /\ Tried = 1 .. t
        /\ shown \in {Fails(t * buffered), Append(Fails(t * buffered), "not found")}
        /\ ~Found => shown = IF copies[2] = NotSaved
                             THEN Append(Fails(t * buffered), "not found")
                             ELSE Fails(t * buffered)
  BY <1>1 DEF Ended
<1>3. /\ t * buffered \in Nat /\ t * buffered + buffered \in Nat
      /\ t * buffered + buffered = buffered * (1 + t)
  BY <1>1
<1>4. \A m : Told(m) = HowMany(shown', m)
  BY DEF Told, HowMany
<1>5. CASE shown = Fails(t * buffered)
  <2>1. shown' = Fails(t * buffered + buffered)
    BY <1>1, <1>3, <1>5, FailsSum
  <2>2. Told("failed") = buffered * (1 + t) /\ Told("not found") = 0
    BY <2>1, <1>3, <1>4, CountFails
  <2>3. ~Found => copies[2] # NotSaved
    <3>1. Fails(t * buffered) # Append(Fails(t * buffered), "not found")
      BY <1>3, OneLonger
    <3> QED BY <3>1, <1>2, <1>5
  <2> QED BY <2>2, <2>3, <1>2
<1>6. CASE shown = Append(Fails(t * buffered), "not found")
  <2>1. shown' = Complained(t * buffered, buffered)
    BY <1>1, <1>6 DEF Complained
  <2>2. Told("failed") = buffered * (1 + t) /\ Told("not found") = 1
    BY <2>1, <1>1, <1>3, <1>4, CountTold
  <2>3. ~Found => copies[2] = NotSaved
    <3>1. Fails(t * buffered) # Append(Fails(t * buffered), "not found")
      BY <1>3, OneLonger
    <3> QED BY <3>1, <1>2, <1>6
  <2> QED BY <2>2, <2>3, <1>2
<1> QED BY <1>2, <1>5, <1>6

\* A program is run if and only if it is where the chain of processes looks, and
\* the statuses passed along it tell the shell that it is not (hw2.c:189-263),
\* however long PATH is.
THEOREM Spec_SearchIsRight == Spec => SearchIsRight
<1> DEFINE Right ==
      LET found == IsBuiltin(text) \/ Attempts(text[1]) # {} IN
      /\ found <=> seen # NotRun
      /\ ~found => Told("not found") = IF copies[2] = NotSaved THEN 1 ELSE 0
<1>1. Inv /\ [Next]_vars => (ran' # ran /\ forked => Right)
  <2> SUFFICES ASSUME Inv, [Next]_vars, ran' # ran, forked PROVE Right
    OBVIOUS
  <2>1. Restore /\ pc = "restore"
    BY RecordFacts DEF Restore
  <2>2. CASE IsBuiltin(text)
    <3>1. Seen /\ Descriptors
      BY DEF Inv, ShellInv
    <3>2. seen = StdStreams
      BY <3>1, <2>1, <2>2 DEF Seen, AProgram
    <3>3. table[0] # Closed /\ 0 \in Std
      BY <3>1, FdFacts DEF Descriptors
    <3>4. StdStreams[0] # NotRun[0]
      BY <3>3 DEF StdStreams, NotRun
    <3> QED BY <2>2, <3>2, <3>4
  <2>3. CASE ~IsBuiltin(text)
    <3>1. Ended
      BY <2>1, <2>3 DEF Inv, Chain
    <3>2. ~Found => Told("not found") = IF copies[2] = NotSaved THEN 1 ELSE 0
      BY <2>1, <2>3, ShownFacts
    <3> QED BY <2>3, <3>1, <3>2 DEF Ended, Found
  <2> QED BY <2>2, <2>3
<1> QED BY <1>1, SpecSearch, PTL DEF Spec, SearchIsRight

\* What printf has left in its buffer when a program is looked for is shown once
\* for each attempt that fails, and once by the shell (hw2.h:4, hw2.c:225-249,
\* 297).
THEOREM Spec_ShownByAll == Spec => ShownByAll
<1> DEFINE Shown ==
      LET failures == {k \in 1 .. Len(Path) + 1 : \A a \in Attempts(text[1]) : k < a}
      IN  Told("failed") = buffered * (1 + Cardinality(failures))
<1>1. Inv /\ [Next]_vars => (ran' # ran /\ forked /\ ~IsBuiltin(text) => Shown)
  <2> SUFFICES ASSUME Inv, [Next]_vars, ran' # ran, forked, ~IsBuiltin(text) PROVE Shown
    OBVIOUS
  <2>1. PICK t \in Nat : Tried = 1 .. t /\ Told("failed") = buffered * (1 + t)
    BY RecordFacts, ShownFacts
  <2>2. Cardinality(Tried) = t
    BY <2>1, FS_Interval
  <2> QED BY <2>1, <2>2 DEF Tried
<1> QED BY <1>1, SpecSearch, PTL DEF Spec, ShownByAll

=============================================================================
