----------------------------- MODULE Scheduler ------------------------------
(***************************************************************************)
(* The process list and the preemptive switch of the kernel: add_process   *)
(* and schedule (kernel/scheduler.cpp), with the interrupt path that calls *)
(* schedule and loads the stack it returns (irq_common_stub in             *)
(* kernel/arch/i386/interrupts.s and irq_handler in isr.cpp).              *)
(*                                                                         *)
(* schedule runs with interrupts disabled and is one step.  add_process    *)
(* runs at task level with interrupts enabled, so the timer can cut it     *)
(* between any two accesses to what other tasks see: it is one step per    *)
(* such access, and its registers (the new Process, the value just loaded) *)
(* are part of the context the switch saves and restores.                  *)
(*                                                                         *)
(* The two stores that put the new Process on the list race with schedule, *)
(* so the compiler may emit them in either order, and StoreNext and        *)
(* StoreHead may come in either.  With the Makefile's -O2 they are swapped:*)
(* kernel/scheduler.o stores process_list (at 0x97 of add_process) before  *)
(* proc->next (at 0x9d).                                                   *)
(*                                                                         *)
(* Nothing keeps calls of add_process apart, so they may overlap.          *)
(*                                                                         *)
(* A Process is named by the order in which kmalloc returned it; a fresh   *)
(* one is zeroed.  A stack pointer stands for the context that the         *)
(* interrupt stub pushed at it.                                            *)
(***************************************************************************)
EXTENDS Integers, FiniteSets

CONSTANT
  MAX_PROCS      \* bound: Process structures the heap has room for

ASSUME SchedulerAssumption == MAX_PROCS \in Nat \ {0}

NULL  == -1
Procs == 0 .. MAX_PROCS - 1

VARIABLES
  process_list,      \* head of the list
  current_process,
  next_pid,
  pid, state, next, stack_ptr,   \* the fields of each Process
  allocated,         \* how many Process structures kmalloc has returned
  cpu,               \* the context in the registers
  position,          \* ghost: where the code of each process really is
  added,             \* ghost: the processes whose add_process returned
  since,             \* ghost: ticks since the process last had the cpu
  raced              \* ghost: two calls of add_process overlapped, or a tick
                     \* came while a new head was not yet linked

fields == <<pid, state, next, stack_ptr>>
vars == <<process_list, current_process, next_pid, fields, allocated, cpu,
          position, added, since, raced>>

-----------------------------------------------------------------------------
(* A context: whose code it runs, where that code is in add_process, and   *)
(* the registers add_process uses there.                                   *)
Points   == {"run", "number", "load", "store", "head", "next"}
Contexts == [task : Procs \cup {NULL}, at : Points,
             proc : Procs \cup {NULL}, tmp : Procs \cup {NULL, MAX_PROCS}]

(* The code of process t outside add_process.  Run(NULL) is the frame with *)
(* a null entry point that "kernel" is created with, or a null pointer.    *)
Run(t) == [task |-> t, at |-> "run", proc |-> NULL, tmp |-> 0]

(* Scheduler::initialize: "kernel" is added and made current; what runs is *)
(* kernel_main on the boot stack, not the stack the new Process was given. *)
Init ==
  /\ process_list = 0
  /\ current_process = 0
  /\ next_pid = 1
  /\ pid = [p \in Procs |-> 0]
  /\ state = [p \in Procs |-> IF p = 0 THEN "RUNNING" ELSE "READY"]
  /\ next = [p \in Procs |-> NULL]
  /\ stack_ptr = [p \in Procs |-> Run(NULL)]
  /\ allocated = 1
  /\ cpu = Run(0)
  /\ position = [p \in Procs |-> Run(p)]
  /\ added = {0}
  /\ since = [p \in Procs |-> 0]
  /\ raced = FALSE

-----------------------------------------------------------------------------
Adding == \E p \in Procs : position[p].at # "run"

(* The head of the list is a process whose next is still to be stored.     *)
HeadOnly == \E p \in Procs : position[p].at = "next"

(* The running code advances to a point, with these registers.             *)
Advance(point, proc, tmp) ==
  /\ cpu' = [task |-> cpu.task, at |-> point, proc |-> proc, tmp |-> tmp]
  /\ position' = [position EXCEPT ![cpu.task] = cpu']

(* kmalloc and memset of the new Process, and the load of next_pid.        *)
AllocateProcess ==
  /\ cpu.at = "run"
  /\ allocated < MAX_PROCS
  /\ allocated' = allocated + 1
  /\ raced' = (raced \/ Adding)
  /\ Advance("number", allocated, next_pid)
  /\ UNCHANGED <<process_list, current_process, next_pid, fields, added, since>>

(* A number taken twice for one process.                                   *)
NumberProcess_Twice ==
  /\ cpu.at = "number"
  /\ next_pid' = cpu.tmp + 2
  /\ pid' = [pid EXCEPT ![cpu.proc] = cpu.tmp]
  /\ state' = [state EXCEPT ![cpu.proc] = "READY"]
  /\ stack_ptr' = [stack_ptr EXCEPT ![cpu.proc] = Run(cpu.proc)]
  /\ Advance("load", cpu.proc, cpu.tmp)
  /\ UNCHANGED <<process_list, current_process, next, allocated, added, since,
                 raced>>

(* The stores of next_pid and of the new Process's pid and state, and its  *)
(* stack with the frame that starts entry_point.                           *)
NumberProcess ==
  /\ cpu.at = "number"
  /\ next_pid' = cpu.tmp + 1
  /\ pid' = [pid EXCEPT ![cpu.proc] = cpu.tmp]
  /\ state' = [state EXCEPT ![cpu.proc] = "READY"]
  /\ stack_ptr' = [stack_ptr EXCEPT ![cpu.proc] = Run(cpu.proc)]
  /\ Advance("load", cpu.proc, cpu.tmp)
  /\ UNCHANGED <<process_list, current_process, next, allocated, added, since,
                 raced>>

(* The load of process_list.                                               *)
LoadHead ==
  /\ cpu.at = "load"
  /\ Advance("store", cpu.proc, process_list)
  /\ UNCHANGED <<process_list, current_process, next_pid, fields, allocated,
                 added, since, raced>>

(* After the second of the two stores add_process returns.                 *)
Return ==
  /\ Advance("run", NULL, 0)
  /\ added' = added \cup {cpu.proc}

(* A new process that is not linked to the others.                         *)
StoreNext_Unlinked ==
  /\ cpu.at \in {"store", "next"}
  /\ IF cpu.at = "store"
     THEN Advance("head", cpu.proc, cpu.tmp) /\ UNCHANGED added
     ELSE Return
  /\ UNCHANGED <<process_list, current_process, next_pid, fields, allocated,
                 since, raced>>

(* proc->next = process_list                                               *)
StoreNext ==
  /\ cpu.at \in {"store", "next"}
  /\ next' = [next EXCEPT ![cpu.proc] = cpu.tmp]
  /\ IF cpu.at = "store"
     THEN Advance("head", cpu.proc, cpu.tmp) /\ UNCHANGED added
     ELSE Return
  /\ UNCHANGED <<process_list, current_process, next_pid, pid, state,
                 stack_ptr, allocated, since, raced>>

(* process_list = proc                                                     *)
StoreHead ==
  /\ cpu.at \in {"store", "head"}
  /\ process_list' = cpu.proc
  /\ IF cpu.at = "store"
     THEN Advance("next", cpu.proc, cpu.tmp) /\ UNCHANGED added
     ELSE Return
  /\ UNCHANGED <<current_process, next_pid, fields, allocated, since, raced>>

-----------------------------------------------------------------------------
(* Starting from the head of the list at every tick.                       *)
NextProcess_Restart(p) == process_list

(* current_process->next, or the head of the list after the last.          *)
NextProcess(p) == IF next[p] = NULL THEN process_list ELSE next[p]

(* Saving the old stack into the process that is switched to.              *)
SavedStacks_Late(old, new) == [stack_ptr EXCEPT ![new] = cpu]

(* The stub pushed the registers on the stack of the interrupted code;     *)
(* schedule stores that stack in the process it switches away from.        *)
SavedStacks(old, new) == [stack_ptr EXCEPT ![old] = cpu]

(* The old process left RUNNING.                                           *)
SwitchedStates_KeepOld(old, new) == [state EXCEPT ![new] = "RUNNING"]

SwitchedStates(old, new) == [state EXCEPT ![old] = "READY", ![new] = "RUNNING"]

(* The timer interrupt: schedule, and the stub that loads the registers    *)
(* from the stack it returns.                                              *)
Timer ==
  LET old == current_process
      new == NextProcess(old)
  IN /\ stack_ptr' = SavedStacks(old, new)
     /\ state' = SwitchedStates(old, new)
     /\ current_process' = new
     /\ cpu' = stack_ptr'[new]
     /\ since' = [p \in Procs |->
                    IF p = new \/ p \notin added THEN 0
                    ELSE IF since[p] = MAX_PROCS THEN MAX_PROCS
                    ELSE since[p] + 1]
     /\ raced' = (raced \/ HeadOnly)
     /\ UNCHANGED <<process_list, next_pid, pid, next, allocated, position,
                    added>>

(* The next step of an add_process that has begun.                         *)
AddStep == NumberProcess \/ LoadHead \/ StoreNext \/ StoreHead

Next == AllocateProcess \/ AddStep \/ Timer

(* The PIT ticks for ever.  A task has 10 ms between two ticks, far more   *)
(* than a step of add_process takes, so a process that is given the        *)
(* processor again and again does get its next step done.                  *)
Fairness ==
  /\ WF_vars(Timer)
  /\ \A t \in Procs : SF_vars(cpu.task = t /\ AddStep)

Spec     == Init /\ [][Next]_vars
FairSpec == Spec /\ Fairness

-----------------------------------------------------------------------------
(* Type correctness.                                                       *)
TypeOK ==
  /\ process_list \in Procs
  /\ current_process \in Procs
  /\ next_pid \in 1 .. MAX_PROCS
  /\ pid \in [Procs -> Procs]
  /\ state \in [Procs -> {"READY", "RUNNING"}]
  /\ next \in [Procs -> Procs \cup {NULL}]
  /\ stack_ptr \in [Procs -> Contexts]
  /\ allocated \in 1 .. MAX_PROCS
  /\ cpu \in Contexts
  /\ position \in [Procs -> Contexts]
  /\ added \in SUBSET Procs
  /\ since \in [Procs -> 0 .. MAX_PROCS]
  /\ raced \in BOOLEAN

(* Of all the Process structures, the one schedule switched to is the only *)
(* one in state RUNNING (scheduler.cpp:53-59), wherever the timer cut an   *)
(* add_process.                                                            *)
OneRunning == \A p \in Procs : state[p] = "RUNNING" <=> p = current_process

(* The switch (isr.cpp:121-140, interrupts.s, scheduler.cpp:48-63) loses   *)
(* no context: what runs is current_process where its code had got to, and *)
(* the stack of every other process leads back to where that process was   *)
(* interrupted, or to its entry point.                                     *)
ContextIntegrity ==
  /\ cpu.task = current_process
  /\ cpu = position[current_process]
  /\ \A p \in Procs \ {current_process} :
       stack_ptr[p].task # NULL => stack_ptr[p] = position[p]

(* The processes met by following next from the head: the smallest set     *)
(* that has the head and, with a process, the one it is linked to.         *)
Walk ==
  {p \in Procs : \A S \in SUBSET Procs :
     /\ process_list \in S
     /\ \A q \in S : next[q] # NULL => next[q] \in S
     => p \in S}

(* "Add to list" (scheduler.cpp:43): wherever the timer cuts an            *)
(* add_process, a walk of the list (shell.cpp:674, schedule) meets the     *)
(* processes that were added, all of them and no other.  Two things break  *)
(* it and are recorded in raced: calls that overlap, and a tick behind a   *)
(* head whose next is not stored; until such a tick that moment is the     *)
(* only one at which a walk would stop short.                              *)
NoProcessLost == ~raced => HeadOnly \/ Walk = added

(* "Simple Round Robin" (scheduler.cpp:55): a process that was added gets  *)
(* the processor back after fewer ticks than there are processes, even     *)
(* while others are being added, until calls overlap or a tick comes       *)
(* behind a head that is not linked (raced).                               *)
BoundedWait == ~raced => \A p \in added : since[p] < Cardinality(added)

(* Every process that was added keeps getting the processor.               *)
EveryProcessRuns ==
  \A p \in Procs : (p \in added) ~> (current_process = p \/ raced)

(* An add_process that has begun completes, however often it is cut.       *)
AddCompletes == \A p \in Procs : (p < allocated) ~> (p \in added \/ raced)

(* Calls of add_process and the processes they add both get their turns    *)
(* (scheduler.cpp:22-63), unless calls overlap or a tick comes behind a    *)
(* head that is not linked (raced).                                        *)
Progress == EveryProcessRuns /\ AddCompletes

RR == INSTANCE RoundRobin
        WITH count <- Cardinality(added), running <- current_process,
             reliable <- ~raced

(* The list and the switch implement round robin until raced.              *)
ImplementsRoundRobin == RR!Spec
=============================================================================
