-------------------------------- MODULE Heap --------------------------------
(***************************************************************************)
(* The heap walker hw-3-bacode57/hw3.c: next_used_mem, next_free_mem and   *)
(* free_everything find their way from chunk to chunk by the headers malloc *)
(* keeps, and tell a used chunk from a free one by a bit of the header     *)
(* behind it.                                                              *)
(*                                                                         *)
(* malloc and free are the C library's, modelled from what the walk relies *)
(* on: a header is a chunk's size, with a flag for whether the chunk before *)
(* is in use; neighbouring free chunks are one chunk, and the chunk at the *)
(* end of the heap, top, is never handed out whole.  A merged chunk's own  *)
(* header stays in memory as it was until a program writes over it.        *)
(*                                                                         *)
(* Addresses are counted from the first chunk; END is the break, where a   *)
(* read kills the program.  The heap does not grow.                        *)
(***************************************************************************)
EXTENDS Integers, FiniteSets, FiniteSetsExt

CONSTANTS
  END,          \* bound: the size of the heap
  SIZES,        \* bound: the sizes of the chunks that are allocated
  LIMITS        \* bound: the values of free_everything's size

\* What sizes and addresses are multiples of.
GRAIN == 16

ASSUME HeapAssumption ==
  /\ END \in Nat \ {0} /\ END % GRAIN = 0
  /\ SIZES \subseteq {n \in 1 .. END : n % GRAIN = 0}
  /\ LIMITS \subseteq Int

VARIABLES
  used, free,   \* where the chunks begin that are in use, and free
  top,          \* where top begins
  head,         \* the header a chunk has, or had, at each address
  pc,
  call,         \* the function called, its arguments, and (history) the
                \* sizes of the chunks that were in use then
  at,           \* second_ptr or currChunk
  stats         \* how_many_freed and how_many_bytes

heapVars == <<used, free, top, head>>
vars == <<used, free, top, head, pc, call, at, stats>>

Addrs == {a \in 0 .. END - 1 : a % GRAIN = 0}
Chunks == used \cup free

\* What a program leaves where headers were once.
UserData == 97

None == [fn |-> "none"]

Init ==
  /\ used = {} /\ free = {} /\ top = 0
  /\ head = [a \in Addrs |-> IF a = 0 THEN END + 1 ELSE 0]
  /\ pc = "idle" /\ call = None /\ at = 0
  /\ stats = [freed |-> 0, bytes |-> 0]

-----------------------------------------------------------------------------
(* Reading headers.                                                        *)

distance_to_end_of_heap(ptr) == END - ptr

\* Slip: the flags are not masked.
WholeHeader(ptr) == head[ptr]

chunk_size(ptr) == head[ptr] - (head[ptr] % 8)

\* Where the walk would read next, and whether it can.
Behind(ptr) == ptr + chunk_size(ptr)
Readable(ptr) == distance_to_end_of_heap(ptr) > 0

\* Slip: the chunk's own flag.
OwnFlag(ptr) == head[ptr] % 2 = 1

chunk_in_use(ptr) == head[Behind(ptr)] % 2 = 1

-----------------------------------------------------------------------------
(* malloc and free.                                                        *)

\* The header of the chunk behind says whether this one is in use.
Flag(word, inUse) == word - (word % 2) + inUse

\* The caller fills its chunk of n bytes at c.
Filled(h, c, n) == [a \in Addrs |-> IF c < a /\ a < c + n THEN UserData ELSE h[a]]

\* A free chunk that is large enough, split if it is larger.
MallocFree(n) ==
  /\ pc = "idle"
  /\ \E c \in {f \in free : chunk_size(f) >= n} :
       LET size == chunk_size(c) IN
       /\ used' = used \cup {c}
       /\ free' = IF size > n THEN (free \ {c}) \cup {c + n} ELSE free \ {c}
       /\ head' = Filled(IF size > n
                         THEN [head EXCEPT ![c] = n + 1, ![c + n] = size - n + 1]
                         ELSE [head EXCEPT ![c + n] = Flag(@, 1)], c, n)
  /\ UNCHANGED <<top, pc, call, at, stats>>

\* No free chunk is: the chunk is cut from top.
MallocTop(n) ==
  /\ pc = "idle"
  /\ \A f \in free : chunk_size(f) < n
  /\ chunk_size(top) > n
  /\ used' = used \cup {top}
  /\ top' = top + n
  /\ head' = Filled([head EXCEPT ![top] = n + 1, ![top + n] = chunk_size(top) - n + 1],
                    top, n)
  /\ UNCHANGED <<free, pc, call, at, stats>>

\* free merges chunk c with the free chunk before it and the one behind it.
Release(c) ==
  LET next == Behind(c)
      low  == IF head[c] % 2 = 1 THEN c ELSE CHOOSE f \in free : Behind(f) = c
      high == IF next \in free THEN Behind(next) ELSE next
  IN
  /\ used' = used \ {c}
  /\ IF next = top
     THEN /\ free' = free \ {low}
          /\ top' = low
          /\ head' = [head EXCEPT ![low] = END - low + 1]
     ELSE /\ free' = (free \ {next}) \cup {low}
          /\ head' = [head EXCEPT ![low] = high - low + 1, ![high] = Flag(@, 0)]
          /\ UNCHANGED top

Free(c) ==
  /\ pc = "idle" /\ c \in used
  /\ Release(c)
  /\ UNCHANGED <<pc, call, at, stats>>

-----------------------------------------------------------------------------
(* The walk.  chunk_in_use reads the header of the chunk and the one behind *)
(* it, so that top, with nothing behind it, cannot be asked.               *)

Sizes == [c \in used |-> chunk_size(c)]

Call(fn, ptr, end, size) ==
  /\ pc = "idle" /\ ptr \in Chunks
  /\ call' = [fn |-> fn, start |-> ptr, end |-> end, size |-> size, sizes |-> Sizes]
  /\ at' = Behind(ptr)
  /\ pc' = "walk"
  /\ stats' = [freed |-> 0, bytes |-> 0]
  /\ UNCHANGED heapVars

next_used_mem(ptr) == Call("next_used_mem", ptr, 0, 0)
next_free_mem(ptr) == Call("next_free_mem", ptr, 0, 0)

free_everything(start, end, size) ==
  /\ start < end /\ end \in used
  /\ Call("free_everything", start, end, size)

\* What the loop's condition asks of the chunk.
Wanted == chunk_in_use(at) = (call.fn # "next_free_mem")

\* Slip: the loop forgets to go on.
StayThere ==
  /\ pc = "walk" /\ Readable(at) /\ Readable(Behind(at)) /\ ~Wanted
  /\ UNCHANGED vars

GoOn ==
  /\ pc = "walk" /\ Readable(at) /\ Readable(Behind(at)) /\ ~Wanted
  /\ at' = Behind(at)
  /\ UNCHANGED <<heapVars, pc, call, stats>>

Found ==
  /\ pc = "walk" /\ Readable(at) /\ Readable(Behind(at)) /\ Wanted
  /\ pc' = IF call.fn = "free_everything" THEN "visit" ELSE "idle"
  /\ call' = IF pc' = "idle" THEN None ELSE call
  /\ at' = IF pc' = "idle" THEN 0 ELSE at
  /\ UNCHANGED <<heapVars, stats>>

\* The walk reads behind the break.
Dies ==
  /\ pc = "walk" /\ ~(Readable(at) /\ Readable(Behind(at)))
  /\ pc' = "segv"
  /\ UNCHANGED <<heapVars, call, at, stats>>

\* Slip: chunks of the given size go too.
VisitLarge ==
  /\ pc = "visit" /\ at # call.end
  /\ chunk_size(at) >= call.size
  /\ Release(at)
  /\ stats' = [freed |-> stats.freed + 1, bytes |-> stats.bytes + chunk_size(at)]
  /\ at' = at + (head'[at] - (head'[at] % 8))
  /\ pc' = "walk"
  /\ UNCHANGED call

\* Slip: the bytes are read when the chunk is already free.
VisitCountLate ==
  /\ pc = "visit" /\ at # call.end
  /\ chunk_size(at) > call.size
  /\ Release(at)
  /\ stats' = [freed |-> stats.freed + 1,
               bytes |-> stats.bytes + head'[at] - (head'[at] % 8)]
  /\ at' = at + (head'[at] - (head'[at] % 8))
  /\ pc' = "walk"
  /\ UNCHANGED call

\* free_everything frees a chunk, and goes on from the chunk it has freed.
VisitAndFree ==
  /\ pc = "visit" /\ at # call.end
  /\ chunk_size(at) > call.size
  /\ Release(at)
  /\ stats' = [freed |-> stats.freed + 1, bytes |-> stats.bytes + chunk_size(at)]
  /\ at' = at + (head'[at] - (head'[at] % 8))
  /\ pc' = "walk"
  /\ UNCHANGED call

VisitAndKeep ==
  /\ pc = "visit" /\ at # call.end
  /\ chunk_size(at) <= call.size
  /\ at' = Behind(at)
  /\ pc' = "walk"
  /\ UNCHANGED <<heapVars, call, stats>>

Return ==
  /\ pc = "visit" /\ at = call.end
  /\ pc' = "idle" /\ call' = None /\ at' = 0
  /\ UNCHANGED <<heapVars, stats>>

Walk == GoOn \/ Found \/ Dies \/ VisitAndFree \/ VisitAndKeep \/ Return

Next ==
  \/ \E n \in SIZES : MallocFree(n) \/ MallocTop(n)
  \/ \E c \in used : Free(c)
  \/ \E ptr \in Chunks : next_used_mem(ptr) \/ next_free_mem(ptr)
  \/ \E start \in Chunks, end \in used, size \in LIMITS :
       free_everything(start, end, size)
  \/ Walk
  \/ pc = "segv" /\ UNCHANGED vars

Spec == Init /\ [][Next]_vars
FairSpec == Spec /\ WF_vars(Walk)

-----------------------------------------------------------------------------
(* Correctness.                                                            *)

\* Every variable keeps its type.
TypeOK ==
  /\ used \in SUBSET Addrs /\ free \in SUBSET Addrs /\ top \in Addrs
  /\ head \in [Addrs -> Nat]
  /\ pc \in {"idle", "walk", "visit", "segv"}
  /\ IF pc = "idle" THEN call = None
     ELSE /\ call.fn \in {"next_used_mem", "next_free_mem", "free_everything"}
          /\ call.start \in Addrs /\ call.end \in Addrs /\ call.size \in Int
  /\ at \in Addrs \cup {END}
  /\ stats.freed \in Nat /\ stats.bytes \in Nat

\* The chunks a walk for call.fn looks for, above address a.
Sought(a) == {c \in IF call.fn = "next_free_mem" THEN free ELSE used : c > a}

Nearest(a) == CHOOSE c \in Sought(a) : \A d \in Sought(a) : c <= d

\* What a walk finds is the nearest chunk behind the one it set out from, used
\* or free as was asked (hw3.c:76-81, 99-104); and free_everything comes past no
\* chunk it should have freed, although it sets out from chunks whose headers
\* are left over from before they were merged (hw3.c:140).
FindsNearest ==
  [][Found => /\ at \in Sought(call.start)
              /\ IF call.fn = "free_everything"
                 THEN \A c \in used : call.start < c /\ c < at => chunk_size(c) <= call.size
                 ELSE at = Nearest(call.start)]_vars

\* A walk that dies had nothing to find (hw3.c:77, 100): a call with an answer
\* gets it, and free_everything, whose end is in use, never dies.
DiesWithoutAnswer ==
  pc = "segv" => call.fn # "free_everything" /\ Sought(call.start) = {}

\* The chunks free_everything is to free, below address a: those that are in
\* use when it is called, lie behind start and are larger than size.
Gone(a) == {c \in DOMAIN call.sizes :
              call.start < c /\ c < a /\ call.sizes[c] > call.size}

\* free_everything frees the chunks strictly between start and end that are
\* larger than size, no other and each once, although chunks merge under it, and
\* counts them (hw3.c:132-142).
FreesExactly ==
  [][Return => /\ used = DOMAIN call.sizes \ Gone(call.end)
               /\ stats.freed = Cardinality(Gone(call.end))]_vars

\* It counts their bytes as they were before any of them was merged: a chunk's
\* header grows when the chunk is freed (hw3.c:136-142).
CountsBytes ==
  [][Return => stats.bytes = MapThenSumSet(LAMBDA c : call.sizes[c], Gone(call.end))]_vars

\* Every call comes back or dies: no walk goes round.
Returns == pc # "idle" ~> pc \in {"idle", "segv"}
=============================================================================
