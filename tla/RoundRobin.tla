----------------------------- MODULE RoundRobin -----------------------------
(***************************************************************************)
(* What "Simple Round Robin" (kernel/scheduler.cpp:55) promises, without   *)
(* the list, the registers or the stacks: processes are numbered in the    *)
(* order they are added, and every tick passes the processor to the next   *)
(* older process, or from the oldest back to the newest.  Once the ring is *)
(* no longer reliable, it promises nothing.                                *)
(***************************************************************************)
EXTENDS Integers

VARIABLES
  count,    \* processes added so far: they are 0 .. count - 1
  running,  \* the process that has the processor
  reliable

rrVars == <<count, running, reliable>>

Init == count = 1 /\ running = 0 /\ reliable = TRUE

(* A new process joins; whoever runs goes on.                              *)
Add ==
  /\ count' = count + 1
  /\ UNCHANGED running

Tick ==
  /\ running' = IF running = 0 THEN count - 1 ELSE running - 1
  /\ UNCHANGED count

Next == reliable' = TRUE => reliable = TRUE /\ (Add \/ Tick)

Spec == Init /\ [][Next]_rrVars
=============================================================================
