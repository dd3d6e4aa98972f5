---------------------------- MODULE SchedulerMC ----------------------------
(* Symmetry and a bound for the runs of Scheduler.                          *)
EXTENDS SchedulerList, TLC

\* Nothing orders the threads.
ThreadSymmetry == Permutations(Passengers) \cup Permutations(Elevators)

\* Two itineraries: floor by floor to the top and back to the ground, where no
\* two requests are equal, and to and fro, where the third repeats the first.
RoundOrToAndFro ==
  \A p \in Passengers :
    IF trip[p] = 0 THEN passengers[p].from_floor = 0
    ELSE \/ ppc[p] = "idle"
         \/ passengers[p].to_floor = (passengers[p].from_floor + 1) % FLOORS
         \/ passengers[p].from_floor = 1 /\ passengers[p].to_floor = 0
=============================================================================
