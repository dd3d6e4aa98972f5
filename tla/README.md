# Verification of CS_361

The repository holds six course programs. Four of them have behaviour worth a
model, and this directory has one in TLA+ for each: the elevator scheduler
(`hw5/`), the web server (`hw4/`), the shell (`hw2/`) and the heap walker
(`hw-3-bacode57/`). TLC checks all four on small instances. TLAPS proves the
safety of all four for every size: of the server, what its loop keeps in every
run, and under which two conditions its books and its answers are right.

1. [Inventory](#inventory)
2. [Modules and the code](#modules-and-the-code)
3. [What the runs check](#what-the-runs-check)
4. [Bounds](#bounds)
5. [Fairness](#fairness)
6. [What is proved](#what-is-proved)
7. [What the checks found](#what-the-checks-found)
8. [Not modelled](#not-modelled)
9. [Plan](#plan)

## Inventory

**hw5: elevator scheduler** (`hw5/hw5.c`). State: a linked list of requests
(`headOfRequests`, `struct pRequest` with five semaphores each), two locks that
are semaphores (`lock_for_request_s`, `lock_for_elevator_s`), the turnstile
`last_elevator_s`, and the passengers' barrier `B`. Operations:
`passenger_request` (append a request, pass the barrier, ride),
`elevator_ready` (claim a request, fetch, deliver, unlink and free). One thread
per passenger and per elevator. Hard: appending and removing are under
different locks; the ride is a hand-shake of semaphores over state checked
elsewhere; requests are removed by contents; idle elevators wait for the list
to be emptied. Right if: nobody breaks the rules of the building, each request
is carried once, whoever is carried gets where it asked, no request is lost,
everyone ends.

**hw5: simulator and enforcement** (`hw5/main.c`, `elevator.h`). State:
`elevators[]`, `passengers[]`, `stop`. Operations: the API callbacks that move
an elevator, work its door, board and let off, each of which checks, sleeps,
checks again and acts in separate critical sections of `state_lock`; the thread
bodies; `main`, which joins passengers, sets `stop`, joins elevators. A failed
check logs a VIOLATION and exits the process. The scheduler reaches it through
callbacks only; `main.c` reaches the scheduler through its two operations.

**hw4: event loop** (`hw4/hw4.c`). State: the epoll registrations, the
descriptors, a list of `struct Req1` found by descriptor and by `index`, the
text of the last `/write`, five counters. One thread: `epoll_wait`, then each
event in turn: accept, receive and answer, send a chunk, notice the end, close.
Hard: transfers of several clients interleave at every chunk; descriptors and
indices are reused; connections are closed without a request or reset; the table
of descriptors is small; every failing call ends the process. Right if: each
client is answered what it asked, gets its whole file, is hung up on after that
and not before, the counters add up over all clients, and nothing is leaked.

**hw4: requests** (`handle_request`). Parses one request, picks a status and a
body, and decides whether the connection stays open for more. Hard: two `goto`s
(`hw4.c:224, 252`) jump over the initialisers of what decides it. Right if the
answer fits the request.

**hw2: shell** (`hw2/hw2.c`, `hw2.h`). State: the descriptor table, the saved
copies of descriptors 0 to 2, the line being worked through, and stdout's buffer.
Operations: `main` reads a line; `run_cmd` and `sequence` split it; `execute`
opens the redirections, runs the built-in `echo` or forks, and restores. A
program is looked for by a chain of processes, each of which forks the next one
for the next directory of PATH, and waits for it. Hard: the early return without
a command; the copies, which are never closed; a table that fills up; an exit
status that goes through the whole chain; buffered text that every process
inherits. Right if: each command runs once and with its own redirections, the
shell's own streams come back, a program is found if it is anywhere, and the
prompt comes back.

**hw3: heap walker** (`hw-3-bacode57/hw3.c`). No state of its own: it reads the
chunk headers of the C heap. Operations: `next_used_mem`, `next_free_mem`,
`free_everything`. It shares the heap with `malloc` and `free`. Hard: whether a
chunk is used stands in the header of the one behind it; the loops have no end
test; `free_everything` walks over chunks that it frees, and `free` merges them
under it. Right if: a walk finds the nearest chunk of its kind, dies only for
want of one, and what should be freed is freed, once.

**hw1, hw0**. A dispatcher over functions of an object file that comes without
source; a program that prints a constant.

The four systems share no state and never run together: there is nothing to
compose across them.

## Modules and the code

| module | models | from |
| --- | --- | --- |
| `Building` | `elevators[]`, `passengers[]`, each check, each state change | `hw5/main.c` |
| `Scheduler` | passenger, elevator and main threads around it | `hw5/hw5.c`, `hw5/main.c` |
| `Service` | the promise: a passenger asks, rides alone, gets off where it asked | `hw5/elevator.h:55-62` |
| `SchedulerInv` | the inductive invariant of `Scheduler` | |
| `SchedulerMC` | symmetry and itineraries for the runs of `Scheduler` | |
| `SchedulerTypes`, `SchedulerRide`, `SchedulerProofs` | lemmas and theorems of `Scheduler` | |
| `SchedulerList` | the inductive invariants of the list, with one trip each and with more | |
| `SchedulerListProofs`, `SchedulerRaceProofs` | theorems of `Scheduler` about the list, with one trip each and with more | |
| `EventServer` | event loop, list, descriptors, clients | `hw4/hw4.c` |
| `EventServerInv` | the inductive invariants of `EventServer`, and the conditions of two | |
| `EventServerMC` | a bound for the run with three clients | |
| `EventServerProofs` | theorems of `EventServer` | |
| `WebService` | the promise: one fitting answer, every chunk in order, then the end | `hw4/hw4.c:166-185, 277-506, 682-691` |
| `CommandLine` | how a line is taken apart, and where programs are | `hw2/hw2.c` |
| `Shell` | descriptors, forked processes, exit statuses, the buffer | `hw2/hw2.c`, `hw2.h` |
| `Redirection` | the promise: commands in order, each with its own streams | `hw2/hw2.c` |
| `ShellMC` | lines, names and programs for the run of `Shell` | |
| `ShellProofs` | theorems of `Shell`: streams; chain of processes | |
| `Heap` | the walk over headers, and the heap under it | `hw-3-bacode57/hw3.c` |
| `HeapMC` | sizes for the run of `Heap` | |
| `HeapProofs` | theorems of `Heap`: the walks; what is freed | |

`Scheduler` extends `Building` and implements `Service`; `EventServer`
implements `WebService`; `Shell` implements `Redirection`, and both extend
`CommandLine`. Names are the code's.

**Scheduler.** `ppc[p]` and `epc[e]` say what a thread does next. A step is one
critical section of `main.c`, one semaphore operation, or one access to a list
field that another thread may be writing. So `addRequest` is six kinds of steps
(`AddRequest`, `AddFirst`, ..., `AddLink`: test of the head, head, walk, link), as
the walk of the appending passenger really interleaves with the removal by an
elevator, which holds another lock; claiming runs under `lock_for_elevator_s`
against other elevators but not against `addRequest`, so the peek and each step
of its walk are steps too. A node is named by passenger and trip, so that two
requests with the same contents are still two nodes; `matchesRequest` compares
contents, as in the code. A callback is three steps: the two checks
(`PassengerCheck`, `ElevatorCheck`) and the change.

`Verdict` is what happens when a thread touches memory it should not, or when a
check fails: `"null"`, `"uaf"`, `"violation"`, after which the process is gone. A
bad access has the outcome of the build under test, `-fsanitize=address`
(`runtests.sh:20`): a plain field of a freed node aborts, its semaphores still
work. `requestID`, the log, the clock and the globals nobody reads are left out,
as are `wait1` and the barrier `E`, which are never called. `random() % FLOORS` is
any floor.

**EventServer.** One event of `event_list[]` is one step, as the server has one
thread; what clients and the kernel do happens between. The structs keep the
fields that matter: `fd`, `index`, `allSent`, `fileopen`, and the request, which is
its kind and its client. `WithFd` and `WithIndex` are the loops that look a
struct up, first by descriptor and then by index; the second falls through to the
last struct, as the code's does. `addRequest` gives a struct the length of the
list as index. One `epoll_wait` takes at most `EVENTS` of the ready events, 16 in
the code, whichever. A body, a chunk and a header count as one unit each in the
five counters of `/stats`.

A request is one of these kinds: `"ping"`, `"echo"`, `"read"`, `"write"`,
`"stats"`, `"file"`, `"directory"`, `"missing"`, `"big"` (413), `"other"` (the
method `OTHER`, answered 200 with nothing), `"bad"` (any other 400), and three
that come of one `recv` being taken for one request: `"half"`, the head of a
`/write` whose text comes later, which stores what the stack holds; `"cut"`, a
piece whose header has no end; and `"blank"`, one without any method.

For the last two (`Unfinished`) `handle_request` jumps over `needMultipleSends = 0`
and `fd = -1` (`hw4.c:274-275`) and then uses both (`hw4.c:484, 503`). What they
hold is a choice in the model (`Outcomes`): either the 400 is the end, as for any
other; or the header is counted in `header_bytes` beside the error
(`hw4.c:499`), the struct is not marked, the connection waits for output, and `fd`
becomes the struct's file, any member of `Garbage`. That may be a file or a
connection of somebody else: `SendChunk` then takes chunks out of another's
transfer, `SendText` sends one client what another has asked, `Finish` closes it
under its owner's feet, its number is given to the next who comes, and `read` may
wait for a connection that says nothing (`Waits`). Of a blank request `version` is
uninitialised, too, which `strcat` follows (`ServeWild`, `hw4.c:455`).

**The client side and the kernel** are external: modelled from how the loop uses
them. `accept` and `open` return the lowest free descriptor. A socket whose peer
has closed is readable for ever (`nc -z` of `runtests.sh:60` leaves such a
connection). For one whose peer has reset it, epoll reports more than `EPOLLIN`,
and the loop's `events == EPOLLIN` (`hw4.c:605`) takes it for a transfer.

**Shell.** `pc` says what the shell, or the last process of the chain, does next;
a step is one system call, or what lies between two. The processes of the chain
all wait for the next one but the last, so that the chain is its length (`depth`)
and what the last `waitpid` returned (`status`): process *n* tries directory
*n* - 1, and `Exit` hands its status to process *n* - 1. The table is a function
from descriptors to streams; `Attach` is `open`, `dup`, `dup2`, `close` in the
code's order, each of which may find the table full. `Restore` puts the copies
back and leaves them open, as `execute` does. Tests run the shell with stdout in a
file (`runtests.sh:57`), so stdout is fully buffered: `buffered` counts the
messages `printf` has left, every process that ends in the `exit` macro
(`hw2.h:4`) shows all of them again, and one that execs shows none. A file name
runs to the next operator of those cut off later, blanks and all, so that it is a
sequence of tokens. `getargs` with too many words writes behind its array, where
the makefile's address sanitizer ends the shell (`Abort`). After a failed `fork`
the status is whatever the stack holds.

**Redirection** has no table, no copies and no processes: of a command it knows
the streams it runs with, those the shell goes back to, and how many descriptors
are left. It says what two of the code's slips cost: each redirection one
descriptor, and a redirection without a command the shell's own stream.

**Heap.** `head[a]` is the word at address `a`: a size, and a flag for the chunk
before. Addresses count from the first chunk, `END` is the break, and a read
there is a segmentation fault. `malloc` takes any free chunk that fits, or cuts
from `top`; `free` merges with both neighbours, or with `top`. It leaves the words
of merged chunks where they are, and a later `malloc` fills them with user data
(`UserData`). Calls are made for chunks, not for pointers into merged ones. `at`
is `second_ptr` or `currChunk`; one round of a loop is one step. That is all the
detail the code relies on: the tests turn the thread cache off (`runtests.sh:43`)
and allocate chunks too large for fastbins, so every freed chunk is merged.

## What the runs check

| run | instance | properties | shows |
| --- | --- | --- | --- |
| `single_trip` | 3 passengers, 2 elevators, 2 floors, 1 trip | `TypeOK`, `ChecksStillHold`, `NoLostRequest`, `ClaimedInOrder`, `OnlyLateCrash`, `ListInv`, `DeliversAsPromised`, `AppendsToList` | with one trip the list is sound, though two locks guard it, and `Service` is implemented; the invariant of the proofs about the list |
| `multi_trip` | 2 passengers, 1 elevator, 2 trips | `IInv`, `DeliversAsPromised` | the invariant of the proofs and the promise, with the list racing |
| `returning` | 1 passenger, 3 elevators, 3 floors, 3 trips | `NoViolation`, `SoleCarrier`, `ServedStaysListed`, `RaceInv`, `ElevatorsTouchLive` | rides stay safe when `removeRequest` takes the wrong one of two equal nodes; of different ones it takes the right one, and no elevator is led to a freed node; the invariant of the proofs about the racing list |
| `everyone_ends` | 2 passengers, 2 elevators, 1 trip, fair | `Ends` | everyone gets off where it asked; no deadlock, no hanging join |
| `normal_end` | 1 passenger, 1 elevator, 1 trip | `TerminatesNormally` | violated, see below |
| `appended` | 2 passengers, 1 elevator, 2 trips, fair | `AppendsToList` | violated, see below |
| `two_clients` | 2 clients, 1 probe, 1 reset, 4 descriptors | `TypeOK`, `Bookkeeping`, `NeverLost`, `ServerInv`, `AnswersAsPromised`, `IndicesFresh` | list, descriptors and epoll agree, cut requests included; `WebService` is implemented, counters included; the strongest invariant of the proofs, and its condition |
| `all_served` | 3 clients, 1 probe, 6 descriptors, fair | `KeptInv`, `StatsAddUp`, `Served` | structs share indices, cut requests stay in the list, and the books and counters are in order all the same; everyone is answered and hung up on; the weaker invariant of the proofs |
| `stray` | 3 clients, 1 reset, 3 descriptors, any uninitialised `fd`, 2 events at a time | `LoopInv` | whoever's files and connections are read and closed, every lookup by descriptor finds its struct but a reset connection's; the weakest invariant of the proofs |
| `wrong_answer` | 3 clients | `AnswersOwn` | violated, see below |
| `shell` | 3 lines out of 11, 10 descriptors, fair | `TypeOK`, `RunsAsAsked`, `KeepsStreams`, `SearchIsRight`, `ShownByAll`, `LineEnds` | `Redirection` is implemented; programs are found and reported; how often messages are shown; the prompt comes back |
| `heap` | 7 granules, chunks of 1 or 2, fair | `TypeOK`, `DiesWithoutAnswer`, `FindsNearest`, `FreesExactly`, `CountsBytes`, `Returns` | the walks are right on every heap that `malloc` and `free` can leave |

Why the list properties of `Scheduler` need one trip each: the barrier keeps
`lock_for_elevator_s` closed until all passengers have appended, so that no
removal can meet an append. `single_trip` shows that this is enough, and the
theorems of `SchedulerListProofs` that it is for any number of threads; `appended`
that it is not, once a passenger comes back.

`OnlyLateCrash` is what remains of memory safety: the NULL dereference of
`hw5.c:297` can happen, but with one trip only after everyone was delivered.

`removeRequest` may find no node (`RemoveNothing`): the code falls through, and so
does the model, but no run gets there. Claimed requests do not get lost, and an
elevator whose node was freed by another dies before it looks.

`KeepsStreams` and `ShownByAll` state what the code does, costs included: the
shell's streams change with a command that has no word, or with a full table, and
never else; a message is shown as often as `execv` has failed, and once more.
`SearchIsRight` speaks of programs that are nowhere: one that is found and fails is
reported as "command not found", too.

Every property can be broken: for each, a plausible slip of the code is kept in
the module, before the definition it would replace, under a comment that begins
with "Slip".

## Bounds

*Scheduler.* Threads interact in pairs: passenger with elevator through a node,
appending with removing through the list, elevator with elevator through the
claim. Two of each reach all pairs; three requests (`single_trip`) give the list a
middle, where linking and unlinking differ from the head. Three floors let an
elevator pass a floor without stopping, in both directions; the runs about the
list have two. Two trips (`multi_trip`) are what it takes for an append to meet a
removal. Three trips of one passenger (`returning`) are what it takes for two equal
requests to be in the list at once; three elevators, slow to remove, let all three
be listed, so that the walks of claiming and of removing take more than one turn.
There, a constraint (`RoundOrToAndFro`) keeps two itineraries: 0-1-2-0, where the
three requests differ, and 0-1-0-1, where the third repeats the first.
`MAX_CAPACITY` is 1 or 2; elevators never carry more than one. The proofs need none
of these bounds.

*EventServer.* `CHUNKS` = 2: a transfer has a first, a last and an end event,
between which the others' events fall. `OPEN_MAX` = 4 in `two_clients`: three
connections and one file, so that both `accept` and `open` meet the end of the
table, as they do at `ulimit -n 100`; 6 in `all_served`, where all are to be
served: four sockets and two files. `EVENTS` is 16 in all runs but `stray`, where it
is 2, less than can be ready at once. Two clients have at most two structs, whose
indices are distinct; with three they are not, which is the subject of
`wrong_answer`, the reason why `AnswersAsPromised` is checked with two, and the
point of `all_served`. There the probe has left, and its socket is open, before
the first client connects (`ProbedSpec`), which keeps the run small; that a probe
comes and goes at any time is left to `two_clients` and the proofs. Nobody is
reset in `all_served`, as `send` to such a connection ends the server, and nobody's
request is blank, as following `version` may. `two_clients` asks for one kind of
each outcome (a body, the saved text, a text cut off, no body, statistics, a file,
404 with and without an open descriptor, 400 that ends, 400 that may not);
`/ping` and 413 take the same path as those.

`Garbage` is `OPEN_MAX` + 1, no descriptor, in all runs but `stray`: there it is
every descriptor, too. A blank request serves `stray` better than a cut one, as it
does all that and may also end the server. With three clients one fetches a file,
one has its request answered with a stray `fd`, and one gets a descriptor that
was closed too early; two may fetch, so that indices are also shared. Three
descriptors, so that numbers are reused at once. `two_clients` has some 288,000
states, `stray` 466,000, `all_served` 153,000.

*Shell.* The code's ten words of `getargs` are four here (`NARGV`), so that a line
of four meets the end of the array. `OPEN_MAX` = 10 leaves four descriptors for
copies: one line with three redirections and another fill the table, so that an
`open` fails, and a `dup` for a file that was opened. Three lines in a row let a
stream that was left changed, a file that was made and a table that is full each
meet a later command. `PATH` has two directories: a program is found as it is, in
the first, in the last, or nowhere. The eleven lines of `ShellMC` have each
operator, each kind of failing `open`, a sequence, a pipe, a name with an operator
in it, and a redirection alone. `Abort` has its line with too many words.

*Heap.* `END` = 112 is seven granules of 16; one granule stands for the smallest
chunk. Three used chunks, a free one on each side of the middle one and `top` fit
in: freeing the middle one merges in both directions, which is the hard case of
`free_everything`. Two sizes make a chunk that is split, and one that fits. The
limits are below every size and between the two. The heap does not grow.

Symmetry (passengers, elevators) is used in safety runs of `Scheduler` only.
Deadlock is checked where the program must not stop: `Halted`, `Asleep`, `Done` and
`"segv"` are the legal ends. `multi_trip`, `returning` and `appended` do not check
it: a lost request really leaves its passenger waiting.

## Fairness

*Scheduler*: weak fairness of each thread and of `main`. Threads are plain
pthreads without priorities, and a thread whose next instruction can run is
eventually run. It is not assumed that a thread that competes for a lock for ever
gets it: `everyone_ends` holds with weak fairness, as each thread takes each lock
a bounded number of times while others wait.

*EventServer*: weak fairness of the server, the only thread of its process, and
of clients reading what they are sent (a client that stops reading is not owed an
end). Clients need not ask, leave or connect. While it waits in `read` or `recv`
for a connection that says nothing the server has no step (`Waits`): fairness
then owes it none. `ProbedSpec` has the same fairness
and restricts nothing but when clients connect, which no fairness is about.

*Shell*: weak fairness of `RunLine`: of all processes only one is not waiting for
another, and the programs it runs end. Nobody need type a line.

*Heap*: weak fairness of `Walk`, one sequential call. Nobody need make one.

## What is proved

**Scheduler**, assuming a finite set of passengers, at least two floors, room for
at least one passenger (`BuildingAssumption`, `SchedulerAssumption`). Any number of
elevators, floors and trips. Nothing else: no bound, no fairness.

| theorem (`SchedulerProofs`) | states |
| --- | --- |
| `Invariance` | `Spec => []IInv` |
| `TypeCorrect` | `Spec => []TypeOK` |
| `NeverViolates` | `Spec => []NoViolation`: `main.c` never logs a VIOLATION |
| `ChecksHold` | `Spec => []ChecksStillHold`: what a callback checked is true when it acts |
| `CarriedOnce` | `Spec => []SoleCarrier` |
| `KeepsPromise` | `Spec => DeliversAsPromised`: `Scheduler` implements `Service` |

Note what the theorems do *not* assume: a sound list. For two trips and more the
list is corrupted, requests are lost, and memory is used after it was freed (the
process dies then). `NoViolation` holds all the same, for this reason:

1. **Claims.** A node is claimed under `lock_for_elevator_s`, when it is
   unclaimed, so it has one carrier for ever (`Mutex`, `Claims`). Wherever the
   node is in the list, or not in it, does not matter any more.
2. **Hand-shake.** From then on rider and carrier each walk through five semaphore
   operations. `RiderStage` and `CarrierStage` count them, and each semaphore of
   the node is the difference of two counts (`Handshake`). As semaphores are never
   negative, the stages are never more than one operation apart, so that a
   passenger between two of its own operations knows where its elevator is:
   waiting, with its door open, on the right floor (`RideFacts`).
3. **The building.** Doors are open exactly while the carrier waits (`Doors`); the
   floor plus the steps left is the target; the load is the number of riders, at
   most one (`Load`, `OneRider`). With 2., every check passes, twice, and holds
   when the callback acts.

`IInv` is the conjunction of these and of the types. `NoViolation` alone is not
inductive: nothing in it says why the door is open. `SchedulerTypes` has the
facts on which action moves which counter and leaves which variables alone, and
the types, `SchedulerRide` the invariants of lock, claims,
pointers and hand-shake, `SchedulerProofs` the building, the theorems and the
refinement. `multi_trip` checks the same `IInv` with TLC.

**Scheduler's list**, assuming in addition that each passenger makes one trip
(`OneTrip`). Without it requests get lost (`appended`) and passengers follow
pointers to freed nodes.

| theorem (`SchedulerListProofs`), each `OneTrip => (Spec => ...)` | states |
| --- | --- |
| `ListWellFormed` | `[]ListInv` |
| `CrashesLate` | `[]OnlyLateCrash`: no use after free; NULL is followed only when everyone has been delivered |
| `NothingLost` | `[]NoLostRequest` |
| `Appends` | `AppendsToList` |
| `InOrder` | `[]ClaimedInOrder` |

`ListInv` says that there is a sequence which is the list (`Chain`), holds the
requests of all who are not delivered (`Members`), is claimed from the front
(`Order`), and in which each thread that walks is at a place that fits its next step
(`Appending`, `Looking`, `Keeping`, `Removing`). Every step names the next sequence:
the same one, one longer by a request, or one without the request that was
delivered. What keeps the two locks apart is `Opening`: `waiting` is the
number of passengers who have passed the barrier, and below the limit no
elevator has got further than to wait for its lock; so whoever holds that lock
finds nobody appending. `Keeping` is where `IInv` comes in: a claimed request is
removed by its carrier only, and after its passenger is off. That leaves the NULL
of `hw5.c:297` as the only bad access, and `Members` says when the list is empty.

The properties speak of `Listed`, what a recursive walk from the head collects;
that it collects the members of the sequence is shown for each of them as a witness
(a member is reached in as many steps as its place in the list) and as a
least counterexample (a first step that leaves the sequence, which the chain
does not have), both from the well-foundedness of the natural numbers, without an
induction theorem that takes an operator.

**Scheduler's list, when passengers return**, with no more assumptions than
`Scheduler` itself.

| theorem (`SchedulerRaceProofs`) | states |
| --- | --- |
| `RaceWellFormed` | `Spec => []RaceInv` |
| `ServedStays` | `Spec => []ServedStaysListed` |
| `TouchLive` | `Spec => []ElevatorsTouchLive` |
| `LiveDifferSuffices` | `Spec /\ []LiveDiffer => [](ServedListed /\ TouchedLive)` |

The first three say something of the time in which no two requests that were made
are equal (`AllDiffer`). This is a part of the properties, and needed:
`removeRequest` goes by contents, and of two equal nodes it removes the first,
whoever serves it. As a request keeps its contents, requests that differ now have
differed all along (`DifferedBefore`), which is what makes the implication
inductive. The fourth asks less, that no two requests be equal that are allocated
at the same time (`LiveDiffer`), so that a passenger may repeat a trip once the
node of the earlier one is freed. As this can be false and become true again, it
is a hypothesis on the whole behaviour.

The two locks do not keep appending and removing apart any more. `RaceInv` says
what remains. There still is a sequence which is the list (`Chain`), and the
elevators, which exclude each other, are in it (`Seeking`, `Holding`, `Leaving`).
`Joining` does not say where `addRequest` is: its pointer may be at a node
that has left the list, or is freed. It says that the node it links is in no
list and nobody's, and that what it is linked behind is either the last of the
list or not in it; so an append makes the list longer by one, or leaves it as it
is and loses the request. A removal has read the `next` field of its node some
steps ago (`HasNext`): if that was NULL and requests have been appended since,
unlinking loses them too. They are unclaimed, because only the remover has been
looking at the list meanwhile. So what gets lost has no elevator, and what has an
elevator is not lost: the damage stays with passengers, who wait for ever or, in
`addRequest`, follow a pointer to a freed node.

**Shell**, assuming at least two words for `getargs`, at least six descriptors, a
PATH and lines that are sequences of strings, and that `open("")` fails
(`CommandLineAssumption`, `ShellAssumption`). Any lines, programs, files and PATH.

| theorem (`ShellProofs`) | states |
| --- | --- |
| `Spec_KeepsStreams` | `Spec => KeepsStreams` |
| `Spec_RunsAsAsked` | `Spec => RunsAsAsked`: `Shell` implements `Redirection` |
| `Spec_TypeOK` | `Spec => []TypeOK` |
| `Spec_SearchIsRight` | `Spec => SearchIsRight` |
| `Spec_ShownByAll` | `Spec => ShownByAll` |

The argument for the first two: `Redirection` goes through a command in one step and
keeps a record of what is open now, what the shell goes back to, and what is left.
The invariant says, for each place in `execute`, that this record is what the table
and the copies hold (`Now`, `AfterErr`, `AfterOut`, `Redirected`), and that what was seen is
what is there (`Seen`). The lowest free descriptor is never one of 0 to 2 or of the
copies (`Descriptors`), so that `dup2` and `close` touch nothing else; without that
the record would be wrong after the first redirection. The argument for the
other three is about the chain (`Chain`): where it forks or execs, all
attempts up to `depth` have failed; where it waits, `depth` processes still have to
show the buffer; and a status of 1 is handed on as 1.

**Heap**, assuming an end and sizes that are multiples of 16
(`HeapAssumption`). Any heap, sizes, limits, and history of calls.

| theorem (`HeapProofs`) | states |
| --- | --- |
| `Spec_TypeOK` | `Spec => []TypeOK`: no walk leaves the heap |
| `Spec_Layout` | `Spec => []Layout`: what the walks take for granted |
| `Spec_DiesWithoutAnswer` | `Spec => []DiesWithoutAnswer` |
| `Spec_FindsNearest` | `Spec => FindsNearest` |
| `Spec_FreesExactly` | `Spec => FreesExactly` |
| `Spec_CountsBytes` | `Spec => CountsBytes` |

`Layout` says that chunks follow each other without gap (`Linked`, `Ending`) or
overlap (`Apart`), that the flag behind a chunk is right (`Linked`, `Foretold`), and
that no two free ones touch (`Merged`). It is kept by `malloc` and by `free`, in each
case of splitting and merging. Of a walk the invariant says what lies ahead of it
(`Ahead`) and that it is at a chunk or at a leftover header (`Placed`, `Leftover`):
one that leads to the end of the chunk it was merged into and, by the flag there,
calls itself free. That is why going on from a freed chunk works: the walk skips
exactly the chunks that were merged. For `FreesExactly` it says that what was
freed is what should go and lies behind the walk, and that what lies ahead has
the size it had at the call (`Freed`). `CountsBytes` needs one more fact: that the
library's fold over a set of sizes grows by the size of a chunk when the chunk is
added, although the fold takes elements out in an order of its own
(`TotalWithout`). That is shown by a minimal counterexample among the subsets of
a finite set, and so is the existence of the function that the fold defines
(`SumsExist`).

**EventServer**, assuming finitely many clients, that a client's text is not
taken for a file's, and what its declarations say (`ServerAssumption`). Any
clients, probes and chunks, any table of descriptors, any length of
`event_list[]`, any order of what is ready.

| theorem (`EventServerProofs`) | states |
| --- | --- |
| `Spec_LoopInv` | `Spec => []LoopInv` |
| `Spec_TypeOK`, `Spec_NeverLost` | `Spec => []TypeOK`, `[]NeverLost` |
| `Spec_KeptInv` | `Harmless => (Spec => []KeptInv)` |
| `Spec_Bookkeeping`, `Spec_StatsAddUp` | `Harmless => (Spec => []Bookkeeping)`, `[]StatsAddUp` |
| `Careful_ServerInv` | `Harmless => (Spec /\ IndicesFresh => []ServerInv)` |
| `Careful_AnswersAsPromised` | `Harmless => (Spec /\ IndicesFresh => AnswersAsPromised)`: then `EventServer` implements `WebService` |
| `FewClients_IndicesFresh` | `Harmless /\ FewClients => (Spec => IndicesFresh)` |
| `FewClients_ServerInv`, `FewClients_AnswersAsPromised` | for such clients, the two without `IndicesFresh` |

There are three invariants, as there are two things that can go wrong.

*Whatever happens*, `LoopInv` holds. An uninitialised `fd` may be anybody's file or
connection, so that this is read, and closed, by way of a struct that is not its
own, and its number may belong to the next client before the batch is through.
What remains is that connections are told apart (`Owners`), that whoever is sent
to, or has been told anything, has a struct with its descriptor (`Listed`), that
an event of output finds one when its turn comes (`Found`), and that of the structs
with one index only the first is ever marked (`FirstMarked`). A struct that has
lost its descriptor to somebody else stays in the list and is the one a later
lookup finds. So types hold, no counter drops, and the `NULL` of
`hw4.c:672-682` is met for a connection that was reset before it asked only. A
close takes a socket, its registration and its peer's conversation together
(`Descriptors`), which is why nobody else's is disturbed by it.

*As long as an uninitialised `fd` is no descriptor's number* (`Harmless`), `KeptInv`
holds: a stray `fd` is then read in vain, and the connection left open is hung up
on at its next two events. The hypothesis is on a constant, not on the code,
which does not see to it; without it `Bookkeeping`, `StatsAddUp` and the answers
are wrong.

`KeptInv` says where each connection is: in the
backlog, on one socket, or gone (`Places`); how far it is (`Conversations`); that a
struct is of a connection that was told an answer and as many chunks as the
struct's file has been read, if it has one (`Filed`); that no two structs share a descriptor or an
open file (`OneEach`), and no connection that is sent to and no open file is
without a struct (`Complete`); that an event still fits its descriptor when its
turn comes (`Events`), though earlier events of the batch close descriptors and
open others; and that the five counters are `WebService`'s, which leaves it open
whether the header of an error of a cut request was counted (`Statistics`).

None of this mentions an index except the last part of `Filed`, which is why it
survives a second use of one: of the structs with one index only the first is
ever marked `allSent`, as `handle_request` and `send_chunk` look for the first.
So an end that belongs to one transfer may be noted in the struct of another, whose
file is then cut short, while the first waits until that struct is gone and
notices its end again. But `removeRequest` looks for the first, too, and so
removes the marked one, whose connection is being closed: no connection loses its
struct, no socket or file stays open for good, every counter stays right. What goes wrong is what
clients are told: which answer, and how much of a file. So `StatsAddUp` counts by what
they were told and not by what they asked.

*As long as, besides, no request is filed under an index in use* (`IndicesFresh`,
which compares the index `addRequest` assigns with those in the list), `ServerInv`
holds and the answers are `WebService`'s. The code does not see to this either
(`wrong_answer`), and `AnswersAsPromised` is false without it, so it has to be a
hypothesis. The `FewClients` theorems say where it is none: with at most two
clients, or with at most one that fetches files and nobody's request cut or blank,
as one left open stays in the list like a file's. The next larger case, three
clients of which two fetch files, is that of `wrong_answer`.

`ServerInv` is `KeptInv` with what depends on indices: structs differ in theirs
(`Apart`), and each is that of a file its own client asked for, marked when the
file is at its end, or that of a cut request left open (`Transfers`). With `Apart`,
the two lookups find the same struct, which is the transfer's own. For
`FewClients` the invariant adds `LastAlone`: as long as anybody is still to be
answered, at most one struct is listed, and its index is 0.

**Only model-checked**:

- liveness (`Ends`, `Served`, `LineEnds`, `Returns`), which this prover does not
  reach;
- `Scheduler` after two equal requests were allocated at the same time: its rides
  are proved safe (`NeverViolates`, `CarriedOnce`, `KeepsPromise`), of its list
  nothing is.

What `EventServer` answers after an index was given twice, or with another's
descriptor for an uninitialised `fd`, is neither: it is wrong (`wrong_answer`,
`SendText`).

## What the checks found

- `normal_end`: the elevator that removed the last request may call
  `elevator_ready` again before `main` has set `stop`. `headOfRequests` is NULL, and
  `hw5.c:297` follows it. `runtests.sh:124` expects normal termination. (With two
  trips the same happens whenever the list is empty between them.)
- `appended`: `addRequest` (`hw5.c:158`) links its node behind one that an elevator
  is unlinking (`hw5.c:191-192`) under another lock. The comment at `hw5.c:131` says
  that the request is appended to the list; it is in no list, and its passenger
  waits for ever.
- `wrong_answer`: after two transfers are filed (indices 0 and 1) and the first
  has ended, the next request gets index 1 again (`hw4.c:87`), and `handle_request`
  takes the first struct with that index: the comments at `hw4.c:190` and
  `hw4.c:640` promise the request's own.

Also seen, not runs of their own:

- `returning` reaches states in which `removeRequest` has freed the node another
  elevator is serving, which was equal to its own; that elevator's next access is a
  use after free (`hw5.c:385`).
- `shell` reaches states with a full table, after which no redirection works any
  more (`hw2.c:300`, the copies are not closed), and states in which the shell's
  own output is a file for good (`hw2.c:149`, the early return).
- `stray` reaches states in which a client was sent another's request or chunks,
  and in which a connection was closed by way of another's struct, all because of
  what `fd` holds after the `goto`s of `hw4.c:224` and `252`.
- The header of an error goes to `error_bytes` alone (`hw4.c:461, 469, 477`),
  though the comment at `hw4.c:481` says that `header_bytes` includes it; where it
  goes to both (`hw4.c:499`) an uninitialised value decided it.

## Not modelled

- *hw5 display*: `draw_state` only reads, under `state_lock` and `log_lock` in the
  order everyone takes them; compiled out of the tests.
- *hw5 thread identity checks* (`main.c:65`, `224`, `282`): each thread passes its
  own id.
- *hw4 text*: tokenising, header lines, byte counts within a response; the second
  piece of a request cut in two, which is a request like any other to the server;
  a `/write` without `Content-Length`, and requests that fill the buffer.
- *hw4 descriptors*: an uninitialised `fd` that is the listening socket's, epoll's
  or one of 0 to 2; in which order the kernel reports what is ready (any is
  possible in the model, and in the fair run all of it fits `event_list[]`).
- *hw2*: `pipeline` is an empty function; `printArray` is for debugging; the last
  line of an input without newline loses a character (`hw2.c:410`): lines are
  sequences of words here. Signals, and programs that do not end.
- *hw3*: `free_everything` without `stats`, which only leaves the counts out;
  pointers to anything but a chunk; fastbins and the thread cache, which the tests
  avoid, large chunks that are mapped, and the fields glibc writes into a large
  free chunk, some of which may be a merged chunk's leftover header.
- *hw1*: what it does is in `lib.o`, without source. *hw0*: a constant.

## Plan

Done, in the order of how much depends on interleavings: `Building`, `Service`,
`Scheduler` with runs and proofs; `WebService`, `EventServer` with runs and proofs;
`CommandLine`, `Redirection`, `Shell` with run and proofs; `Heap` with run and
proofs.

What is left: `Served` of `EventServer` split into safety (a transfer never goes
back) and liveness.
