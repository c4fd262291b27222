-------------------------- MODULE SchedulerProofs ---------------------------
(***************************************************************************)
(* Proofs about Scheduler for every number of processes.  The switch is    *)
(* proved correct whatever happens (SwitchInv); the list and round robin   *)
(* are proved until two calls of add_process overlap or a tick comes       *)
(* behind a head that is not linked (OrderInv); after that the code does   *)
(* lose processes.                                                         *)
(***************************************************************************)
EXTENDS Scheduler, FiniteSetTheorems, WellFoundedInduction, TLAPS

(* The processes whose stack was built, and the one that runs.             *)
Started ==
  {p \in Procs : p = current_process \/ stack_ptr[p].task # NULL}

(* Contexts belong to their process, and one that was not started has not  *)
(* run any code.                                                           *)
PositionInv ==
  \A t \in Procs : /\ position[t].task = t
                   /\ t \notin Started => position[t] = Run(t)

(* Registers and links only lead to processes that were started.           *)
LinkInv ==
  /\ process_list \in Started
  /\ \A p \in Procs : next[p] # NULL => next[p] \in Started
  /\ \A t \in Procs : position[t].at \in {"store", "head", "next"} =>
       position[t].tmp \in Procs /\ position[t].tmp \in Started

(* Each add_process under way fills a structure of its own.                *)
CreatorInv ==
  /\ \A p \in Procs : p >= allocated => p \notin Started
  /\ next_pid <= allocated
  /\ \A t \in Procs : position[t].at # "run" =>
       /\ position[t].proc \in Procs /\ position[t].proc < allocated
       /\ position[t].at = "number" =>
            /\ position[t].proc \notin Started
            /\ position[t].tmp \in 1 .. allocated - 1
       /\ position[t].at # "number" => position[t].proc \in Started
  /\ \A t, u \in Procs :
       position[t].at # "run" /\ position[u].at # "run"
         /\ position[t].proc = position[u].proc => t = u

SwitchInv ==
  /\ TypeOK
  /\ OneRunning
  /\ ContextIntegrity
  /\ PositionInv
  /\ LinkInv
  /\ CreatorInv

-----------------------------------------------------------------------------
LEMMA Running ==
  ASSUME SwitchInv
  PROVE  /\ cpu = position[current_process]
         /\ cpu.task = current_process
         /\ current_process \in Procs
         /\ current_process \in Started
  BY DEF SwitchInv, TypeOK, ContextIntegrity, Started

LEMMA InitSwitchInv == Init => SwitchInv
<1> SUFFICES ASSUME Init PROVE SwitchInv
  OBVIOUS
<1> USE SchedulerAssumption DEF Init
<1>0. 0 \in Procs /\ 1 \in 1 .. MAX_PROCS
  BY DEF Procs
<1>1. TypeOK
  <2>1. \A p \in Procs \cup {NULL} : Run(p) \in Contexts
    BY <1>0 DEF Run, Contexts, Points
  <2>2. stack_ptr \in [Procs -> Contexts] /\ position \in [Procs -> Contexts]
        /\ cpu \in Contexts
    BY <1>0, <2>1
  <2>3. pid \in [Procs -> Procs] /\ since \in [Procs -> 0 .. MAX_PROCS]
    BY <1>0 DEF Procs
  <2>4. state \in [Procs -> {"READY", "RUNNING"}]
        /\ next \in [Procs -> Procs \cup {NULL}]
    OBVIOUS
  <2>5. raced \in BOOLEAN
    OBVIOUS
  <2>6. QED
    BY <1>0, <2>2, <2>3, <2>4, <2>5 DEF TypeOK
<1>2. \A p \in Procs : p \in Started <=> p = 0
  BY DEF Started, Run
<1>3. 0 \in Procs
  BY DEF Procs
<1>4. OneRunning /\ ContextIntegrity /\ PositionInv
  BY <1>3 DEF OneRunning, ContextIntegrity, PositionInv, Run
<1>5. LinkInv
  BY <1>2, <1>3 DEF LinkInv, Run
<1>6. CreatorInv
  <2>1. \A p \in Procs : p >= 1 => p # 0
    BY DEF Procs
  <2>2. \A p \in Procs : position[p].at = "run"
    BY DEF Run
  <2>3. QED
    BY <1>2, <2>1, <2>2 DEF CreatorInv
<1>7. QED
  BY <1>1, <1>4, <1>5, <1>6 DEF SwitchInv

(* What a step of the running code changes and what it leaves alone.       *)
LEMMA AdvanceEffect ==
  ASSUME SwitchInv, NEW pt \in Points, NEW pr \in Procs \cup {NULL},
         NEW tm \in Procs \cup {NULL, MAX_PROCS}, Advance(pt, pr, tm)
  PROVE  /\ cpu' = [task |-> current_process, at |-> pt, proc |-> pr, tmp |-> tm]
         /\ cpu' \in Contexts
         /\ position' \in [Procs -> Contexts]
         /\ position'[current_process] = cpu'
         /\ \A u \in Procs : u # current_process => position'[u] = position[u]
<1>1. cpu.task = current_process /\ current_process \in Procs
  BY Running
<1>2. cpu' = [task |-> current_process, at |-> pt, proc |-> pr, tmp |-> tm]
  BY <1>1 DEF Advance
<1>3. cpu' \in Contexts
  BY <1>1, <1>2 DEF Contexts
<1>4. position' = [position EXCEPT ![current_process] = cpu']
  BY <1>1 DEF Advance
<1>5. position \in [Procs -> Contexts]
  BY DEF SwitchInv, TypeOK
<1> HIDE DEF Contexts
<1>6. QED
  BY <1>1, <1>2, <1>3, <1>4, <1>5

(* A step of the running code that leaves the switch's state alone keeps   *)
(* what concerns the switch.                                               *)
LEMMA AdvanceKeeps ==
  ASSUME SwitchInv, NEW pt \in Points, NEW pr \in Procs \cup {NULL},
         NEW tm \in Procs \cup {NULL, MAX_PROCS}, Advance(pt, pr, tm),
         UNCHANGED <<current_process, state, stack_ptr>>
  PROVE  /\ OneRunning' /\ ContextIntegrity' /\ PositionInv'
         /\ Started' = Started
<1>1. /\ cpu' = [task |-> current_process, at |-> pt, proc |-> pr, tmp |-> tm]
      /\ position'[current_process] = cpu'
      /\ \A u \in Procs : u # current_process => position'[u] = position[u]
      /\ current_process \in Procs
  BY AdvanceEffect, Running
<1>2. Started' = Started
  BY DEF Started
<1>3. OneRunning'
  BY DEF SwitchInv, OneRunning
<1>4. ContextIntegrity'
  BY <1>1 DEF SwitchInv, ContextIntegrity
<1>5. PositionInv'
  BY <1>1, <1>2, Running DEF SwitchInv, PositionInv, Started
<1>6. QED
  BY <1>2, <1>3, <1>4, <1>5

LEMMA AllocateProcessSwitch ==
  ASSUME SwitchInv, AllocateProcess
  PROVE  SwitchInv'
<1> DEFINE t == current_process
<1> USE SchedulerAssumption
<1>1. TypeOK
  BY DEF SwitchInv
<1>2. /\ Advance("number", allocated, next_pid)
      /\ allocated' = allocated + 1 /\ allocated < MAX_PROCS
      /\ UNCHANGED <<process_list, current_process, next_pid, pid, state, next,
                     stack_ptr, added, since>>
      /\ raced' = (raced \/ Adding)
  BY DEF AllocateProcess, fields
<1>3. /\ "number" \in Points /\ allocated \in Procs
      /\ next_pid \in Procs \cup {NULL, MAX_PROCS}
      /\ allocated \in Nat /\ next_pid \in 1 .. allocated
  BY <1>1, <1>2 DEF Points, TypeOK, Procs, SwitchInv, CreatorInv
<1>4. /\ cpu' = [task |-> t, at |-> "number", proc |-> allocated,
                tmp |-> next_pid]
      /\ cpu' \in Contexts
      /\ position' \in [Procs -> Contexts]
      /\ position'[t] = cpu'
      /\ \A u \in Procs : u # t => position'[u] = position[u]
      /\ t \in Procs
  BY <1>2, <1>3, AdvanceEffect, Running
<1>5. /\ OneRunning' /\ ContextIntegrity' /\ PositionInv'
      /\ Started' = Started
  BY <1>2, <1>3, AdvanceKeeps
<1>6. TypeOK'
  <2>1. raced' \in BOOLEAN
    BY <1>1, <1>2 DEF TypeOK
  <2>2. QED
    BY <1>1, <1>2, <1>3, <1>4, <2>1 DEF TypeOK
<1>7. LinkInv'
  BY <1>2, <1>4, <1>5 DEF SwitchInv, LinkInv
<1>8. CreatorInv'
  <2>1. \A p \in Procs : p \in Nat
    BY DEF Procs
  <2>2. allocated \notin Started
    BY <1>3, <2>1 DEF SwitchInv, CreatorInv
  <2>3. \A p \in Procs : p >= allocated' => p \notin Started'
    <3>1. \A p \in Procs : p >= allocated' => p >= allocated
      BY <1>2, <1>3, <2>1
    <3>2. QED
      BY <1>5, <3>1 DEF SwitchInv, CreatorInv
  <2>4. ASSUME NEW u \in Procs, position'[u].at # "run"
        PROVE  /\ position'[u].proc \in Procs /\ position'[u].proc < allocated'
               /\ position'[u].at = "number" =>
                    /\ position'[u].proc \notin Started
                    /\ position'[u].tmp \in 1 .. allocated' - 1
               /\ position'[u].at # "number" => position'[u].proc \in Started
               /\ u # t => position'[u].proc # allocated
    <3>1. CASE u = t
      BY <1>2, <1>3, <1>4, <2>2, <3>1
    <3>2. CASE u # t
      <4>1. position'[u] = position[u] /\ position[u].at # "run"
        BY <1>4, <2>4, <3>2
      <4>2. /\ position[u].proc \in Procs /\ position[u].proc < allocated
            /\ position[u].at = "number" =>
                 /\ position[u].proc \notin Started
                 /\ position[u].tmp \in 1 .. allocated - 1
            /\ position[u].at # "number" => position[u].proc \in Started
        BY <4>1 DEF SwitchInv, CreatorInv
      <4>3. position[u].proc \in Nat
        BY <2>1, <4>2
      <4>4. QED
        BY <1>2, <1>3, <4>1, <4>2, <4>3
    <3>3. QED
      BY <3>1, <3>2
  <2>5. \A u, v \in Procs :
          position'[u].at # "run" /\ position'[v].at # "run"
            /\ position'[u].proc = position'[v].proc => u = v
    BY <1>4, <2>4 DEF SwitchInv, CreatorInv
  <2>6. QED
    BY <1>2, <1>3, <1>5, <2>3, <2>4, <2>5 DEF CreatorInv
<1>9. QED
  BY <1>5, <1>6, <1>7, <1>8 DEF SwitchInv

LEMMA NumberProcessSwitch ==
  ASSUME SwitchInv, NumberProcess
  PROVE  SwitchInv'
<1> DEFINE t == current_process
           new == cpu.proc
<1> USE SchedulerAssumption
<1>1. TypeOK /\ CreatorInv /\ LinkInv /\ t \in Procs /\ cpu = position[t]
      /\ cpu.task = t /\ cpu.at = "number"
  BY Running DEF SwitchInv, NumberProcess
<1>2. /\ new \in Procs /\ new < allocated /\ new \notin Started
      /\ cpu.tmp \in 1 .. allocated - 1
      /\ allocated \in 1 .. MAX_PROCS
  BY <1>1 DEF CreatorInv, TypeOK
<1>3. /\ Advance("load", new, cpu.tmp)
      /\ next_pid' = cpu.tmp + 1
      /\ pid' = [pid EXCEPT ![new] = cpu.tmp]
      /\ state' = [state EXCEPT ![new] = "READY"]
      /\ stack_ptr' = [stack_ptr EXCEPT ![new] = Run(new)]
      /\ UNCHANGED <<process_list, current_process, next, allocated, added,
                     since, raced>>
  BY DEF NumberProcess
<1>4. "load" \in Points /\ cpu.tmp \in Procs
  BY <1>2 DEF Points, Procs
<1>5. /\ cpu' = [task |-> t, at |-> "load", proc |-> new, tmp |-> cpu.tmp]
      /\ cpu' \in Contexts
      /\ position' \in [Procs -> Contexts]
      /\ position'[t] = cpu'
      /\ \A u \in Procs : u # t => position'[u] = position[u]
  BY <1>2, <1>3, <1>4, AdvanceEffect
<1>6. Run(new) \in Contexts /\ Run(new).task = new /\ new # NULL
  BY <1>2 DEF Run, Contexts, Points, Procs, NULL
<1>7. /\ stack_ptr'[new] = Run(new) /\ state'[new] = "READY"
      /\ \A p \in Procs : p # new => /\ stack_ptr'[p] = stack_ptr[p]
                                     /\ state'[p] = state[p]
  BY <1>1, <1>2, <1>3 DEF TypeOK
<1>8. new # t /\ position[new] = Run(new) /\ state[new] # "RUNNING"
  BY <1>1, <1>2 DEF Started, SwitchInv, PositionInv, OneRunning
<1>9. Started' = Started \cup {new}
  <2>1. \A p \in Procs : p \in Started' <=> p \in Started \/ p = new
    BY <1>3, <1>6, <1>7 DEF Started
  <2>2. Started \subseteq Procs /\ Started' \subseteq Procs
    BY DEF Started
  <2>3. QED
    BY <1>2, <2>1, <2>2
<1>10. TypeOK'
  <2>1. next_pid' \in 1 .. MAX_PROCS
    BY <1>2, <1>3
  <2>2. /\ pid' \in [Procs -> Procs] /\ state' \in [Procs -> {"READY", "RUNNING"}]
        /\ stack_ptr' \in [Procs -> Contexts]
    BY <1>1, <1>2, <1>3, <1>4, <1>6 DEF TypeOK
  <2>3. QED
    BY <1>1, <1>3, <1>5, <2>1, <2>2 DEF TypeOK
<1>11. OneRunning'
  BY <1>3, <1>7, <1>8 DEF SwitchInv, OneRunning
<1>12. ContextIntegrity'
  BY <1>1, <1>3, <1>5, <1>7, <1>8 DEF SwitchInv, ContextIntegrity
<1>13. PositionInv'
  BY <1>1, <1>5, <1>9, Running DEF SwitchInv, PositionInv
<1>14. LinkInv'
  <2>1. process_list \in Procs /\ \A p \in Procs : next[p] # NULL => next[p] \in Procs
    BY <1>1 DEF TypeOK
  <2>2. QED
    BY <1>1, <1>3, <1>5, <1>9, <2>1 DEF LinkInv
<1>15. CreatorInv'
  <2>1. \A p \in Procs : p >= allocated' => p \notin Started'
    <3>1. new \in Nat
      BY <1>2 DEF Procs
    <3>2. ~ (new >= allocated)
      BY <1>2, <3>1
    <3>3. QED
      BY <1>1, <1>3, <1>9, <3>2 DEF CreatorInv
  <2>2. next_pid' <= allocated'
    BY <1>2, <1>3
  <2>3. ASSUME NEW u \in Procs, position'[u].at # "run"
        PROVE  /\ position'[u].proc \in Procs /\ position'[u].proc < allocated
               /\ position'[u].proc = position[u].proc /\ position[u].at # "run"
               /\ position'[u].at = "number" =>
                    /\ position'[u].proc \notin Started'
                    /\ position'[u].tmp \in 1 .. allocated - 1
               /\ position'[u].at # "number" => position'[u].proc \in Started'
    <3>1. CASE u = t
      BY <1>1, <1>2, <1>5, <1>9, <3>1
    <3>2. CASE u # t
      <4>1. position'[u] = position[u] /\ position[u].proc # new
            /\ position[u].proc \in Procs
        BY <1>1, <1>5, <2>3, <3>2 DEF CreatorInv
      <4>2. QED
        BY <1>1, <1>9, <2>3, <4>1 DEF CreatorInv
    <3>3. QED
      BY <3>1, <3>2
  <2>4. QED
    BY <1>1, <1>3, <2>1, <2>2, <2>3 DEF CreatorInv
<1>16. QED
  BY <1>10, <1>11, <1>12, <1>13, <1>14, <1>15 DEF SwitchInv

(* The last steps of add_process: only the list and the registers change.  *)
LEMMA ListStepSwitch ==
  ASSUME SwitchInv, NEW pt \in {"run", "store", "head", "next"},
         NEW pr \in Procs \cup {NULL}, NEW tm \in Procs,
         Advance(pt, pr, tm), cpu.at \notin {"run", "number"},
         pt # "run" => pr = cpu.proc /\ tm \in Started,
         process_list' \in Procs, process_list' \in Started,
         next' \in [Procs -> Procs \cup {NULL}],
         \A p \in Procs : next'[p] # NULL => next'[p] \in Started,
         added' \in SUBSET Procs,
         UNCHANGED <<current_process, next_pid, pid, state, stack_ptr,
                     allocated, since, raced>>
  PROVE  SwitchInv'
<1> DEFINE t == current_process
<1>1. TypeOK /\ CreatorInv /\ LinkInv /\ t \in Procs /\ cpu = position[t]
  BY Running DEF SwitchInv
<1>2. pt \in Points
  BY DEF Points
<1>3. /\ cpu' = [task |-> t, at |-> pt, proc |-> pr, tmp |-> tm]
      /\ cpu' \in Contexts
      /\ position' \in [Procs -> Contexts]
      /\ position'[t] = cpu'
      /\ \A u \in Procs : u # t => position'[u] = position[u]
  BY <1>2, AdvanceEffect
<1>4. /\ OneRunning' /\ ContextIntegrity' /\ PositionInv'
      /\ Started' = Started
  BY <1>2, AdvanceKeeps
<1>5. TypeOK'
  BY <1>1, <1>3 DEF TypeOK
<1>6. LinkInv'
  <2>1. ASSUME NEW u \in Procs, position'[u].at \in {"store", "head", "next"}
        PROVE  position'[u].tmp \in Procs /\ position'[u].tmp \in Started
    <3>1. CASE u = t
      BY <1>3, <2>1, <3>1
    <3>2. CASE u # t
      BY <1>1, <1>3, <2>1, <3>2 DEF LinkInv
    <3>3. QED
      BY <3>1, <3>2
  <2>2. QED
    BY <1>4, <2>1 DEF LinkInv
<1>7. CreatorInv'
  <2>1. ASSUME NEW u \in Procs, position'[u].at # "run"
        PROVE  /\ position'[u].proc = position[u].proc /\ position[u].at # "run"
               /\ position'[u].at = "number" => position'[u] = position[u]
               /\ position'[u].at # "number" => position[u].at # "number"
    BY <1>1, <1>3, <2>1
  <2>2. QED
    BY <1>1, <1>4, <2>1 DEF CreatorInv
<1>8. QED
  BY <1>4, <1>5, <1>6, <1>7 DEF SwitchInv

(* The structure and the loaded head of an add_process past its numbering. *)
LEMMA Registers ==
  ASSUME SwitchInv, cpu.at \notin {"run", "number"}
  PROVE  /\ cpu.proc \in Procs /\ cpu.proc \in Started
         /\ cpu.at # "load" => cpu.tmp \in Procs /\ cpu.tmp \in Started
<1>1. cpu \in Contexts /\ cpu = position[current_process]
      /\ current_process \in Procs
  BY Running DEF SwitchInv, TypeOK
<1>2. cpu.at # "load" => cpu.at \in {"store", "head", "next"}
  BY <1>1 DEF Contexts, Points
<1>3. QED
  BY <1>1, <1>2 DEF SwitchInv, CreatorInv, LinkInv

LEMMA ListStepsSwitch ==
  ASSUME SwitchInv, LoadHead \/ StoreNext \/ StoreHead
  PROVE  SwitchInv'
<1> USE SchedulerAssumption
<1>0. cpu.at \notin {"run", "number"}
  BY DEF LoadHead, StoreNext, StoreHead
<1>1. /\ TypeOK /\ LinkInv
      /\ cpu.proc \in Procs /\ cpu.proc \in Started
      /\ cpu.at # "load" => cpu.tmp \in Procs /\ cpu.tmp \in Started
      /\ 0 \in Procs
  BY <1>0, Registers DEF SwitchInv, Procs
<1>2. CASE LoadHead
  <2>1. /\ Advance("store", cpu.proc, process_list)
        /\ UNCHANGED <<process_list, current_process, next_pid, pid, state,
                       next, stack_ptr, allocated, added, since, raced>>
    BY <1>2 DEF LoadHead, fields
  <2>2. process_list \in Procs /\ process_list \in Started
        /\ next \in [Procs -> Procs \cup {NULL}] /\ added \in SUBSET Procs
        /\ \A p \in Procs : next[p] # NULL => next[p] \in Started
    BY <1>1 DEF TypeOK, LinkInv
  <2>3. QED
    BY <1>0, <1>1, <2>1, <2>2, ListStepSwitch
<1>3. CASE StoreNext
  <2>1. /\ next' = [next EXCEPT ![cpu.proc] = cpu.tmp]
        /\ UNCHANGED <<process_list, current_process, next_pid, pid, state,
                       stack_ptr, allocated, since, raced>>
        /\ cpu.at \in {"store", "next"}
    BY <1>3 DEF StoreNext
  <2>2. /\ next' \in [Procs -> Procs \cup {NULL}]
        /\ \A p \in Procs : next'[p] # NULL => next'[p] \in Started
    BY <1>1, <2>1 DEF TypeOK, LinkInv
  <2>3. process_list' \in Procs /\ process_list' \in Started
    BY <1>1, <2>1 DEF TypeOK, LinkInv
  <2>4. CASE cpu.at = "store"
    <3>1. Advance("head", cpu.proc, cpu.tmp) /\ added' \in SUBSET Procs
      BY <1>1, <1>3, <2>4 DEF StoreNext, TypeOK
    <3>2. QED
      BY <1>0, <1>1, <2>1, <2>2, <2>3, <2>4, <3>1, ListStepSwitch
  <2>5. CASE cpu.at # "store"
    <3>1. Advance("run", NULL, 0) /\ added' \in SUBSET Procs
      BY <1>1, <1>3, <2>5 DEF StoreNext, Return, TypeOK
    <3>2. QED
      BY <1>0, <1>1, <2>1, <2>2, <2>3, <3>1, ListStepSwitch
  <2>6. QED
    BY <2>4, <2>5
<1>4. CASE StoreHead
  <2>1. /\ process_list' = cpu.proc
        /\ UNCHANGED <<current_process, next_pid, pid, state, next,
                       stack_ptr, allocated, since, raced>>
        /\ cpu.at \in {"store", "head"}
    BY <1>4 DEF StoreHead, fields
  <2>2. /\ next' \in [Procs -> Procs \cup {NULL}]
        /\ \A p \in Procs : next'[p] # NULL => next'[p] \in Started
    BY <1>1, <2>1 DEF TypeOK, LinkInv
  <2>3. process_list' \in Procs /\ process_list' \in Started
    BY <1>1, <2>1
  <2>4. CASE cpu.at = "store"
    <3>1. Advance("next", cpu.proc, cpu.tmp) /\ added' \in SUBSET Procs
      BY <1>1, <1>4, <2>4 DEF StoreHead, TypeOK
    <3>2. QED
      BY <1>0, <1>1, <2>1, <2>2, <2>3, <2>4, <3>1, ListStepSwitch
  <2>5. CASE cpu.at # "store"
    <3>1. Advance("run", NULL, 0) /\ added' \in SUBSET Procs
      BY <1>1, <1>4, <2>5 DEF StoreHead, Return, TypeOK
    <3>2. QED
      BY <1>0, <1>1, <2>1, <2>2, <2>3, <3>1, ListStepSwitch
  <2>6. QED
    BY <2>4, <2>5
<1>5. QED
  BY <1>2, <1>3, <1>4

LEMMA TimerSwitch ==
  ASSUME SwitchInv, Timer
  PROVE  SwitchInv'
<1> DEFINE old == current_process
           new == NextProcess(old)
<1> USE SchedulerAssumption
<1>1. /\ cpu = position[old] /\ cpu.task = old /\ old \in Procs /\ old \in Started
  BY Running
<1>2. TypeOK /\ LinkInv /\ CreatorInv
  BY DEF SwitchInv
<1>3. new \in Procs /\ new \in Started
  BY <1>1, <1>2 DEF NextProcess, TypeOK, LinkInv
<1>4. /\ stack_ptr' = [stack_ptr EXCEPT ![old] = cpu]
      /\ state' = [state EXCEPT ![old] = "READY", ![new] = "RUNNING"]
      /\ current_process' = new
      /\ cpu' = stack_ptr'[new]
      /\ UNCHANGED <<process_list, next_pid, pid, next, allocated, position,
                     added>>
  BY DEF Timer, SavedStacks, SwitchedStates
<1>5. since' = [p \in Procs |->
                 IF p = new \/ p \notin added THEN 0
                 ELSE IF since[p] = MAX_PROCS THEN MAX_PROCS ELSE since[p] + 1]
  BY DEF Timer
<1>6. /\ stack_ptr'[old] = cpu
      /\ \A p \in Procs : p # old => stack_ptr'[p] = stack_ptr[p]
  BY <1>1, <1>2, <1>4 DEF TypeOK
<1>7. \A p \in Procs : p # NULL
  BY DEF Procs, NULL
<1> HIDE DEF new
<1>8. Started' = Started
  <2>1. \A p \in Procs : p \in Started' <=> p = new \/ stack_ptr'[p].task # NULL
    BY <1>4 DEF Started
  <2>2. old \in Started'
    BY <1>1, <1>6, <1>7, <2>1
  <2>3. new \in Started'
    BY <1>3, <2>1
  <2>4. \A p \in Procs : p # old /\ p # new => (p \in Started' <=> p \in Started)
    BY <1>6, <2>1 DEF Started
  <2>5. Started \subseteq Procs /\ Started' \subseteq Procs
    BY DEF Started
  <2>6. QED
    BY <1>1, <1>3, <2>2, <2>3, <2>4, <2>5
<1>9. TypeOK'
  <2>1. /\ stack_ptr' \in [Procs -> Contexts] /\ cpu' \in Contexts
        /\ state' \in [Procs -> {"READY", "RUNNING"}]
    BY <1>1, <1>2, <1>3, <1>4 DEF TypeOK
  <2>2. since' \in [Procs -> 0 .. MAX_PROCS]
    BY <1>2, <1>5 DEF TypeOK
  <2>3. raced' \in BOOLEAN
    BY <1>2 DEF TypeOK, Timer
  <2>4. QED
    BY <1>2, <1>3, <1>4, <2>1, <2>2, <2>3 DEF TypeOK
<1>10. OneRunning'
  BY <1>1, <1>2, <1>3, <1>4 DEF SwitchInv, OneRunning, TypeOK
<1>11. ContextIntegrity'
  <2>1. \A p \in Procs : stack_ptr'[p].task # NULL => stack_ptr'[p] = position[p]
    BY <1>1, <1>6 DEF SwitchInv, ContextIntegrity
  <2>2. stack_ptr'[new].task # NULL
    BY <1>1, <1>3, <1>6, <1>7 DEF Started
  <2>3. position[new].task = new
    BY <1>3 DEF SwitchInv, PositionInv
  <2>4. QED
    BY <1>3, <1>4, <2>1, <2>2, <2>3 DEF ContextIntegrity
<1>12. PositionInv'
  BY <1>4, <1>8 DEF SwitchInv, PositionInv
<1>13. LinkInv'
  <2>1. process_list \in Procs /\ \A p \in Procs : next[p] # NULL => next[p] \in Procs
    BY <1>2 DEF TypeOK
  <2>2. QED
    BY <1>2, <1>4, <1>8, <2>1 DEF LinkInv
<1>14. CreatorInv'
  BY <1>2, <1>4, <1>8 DEF CreatorInv
<1>15. QED
  BY <1>9, <1>10, <1>11, <1>12, <1>13, <1>14 DEF SwitchInv

LEMMA SwitchInvHolds == Spec => []SwitchInv
<1>1. SwitchInv /\ UNCHANGED vars => SwitchInv'
  BY DEF SwitchInv, vars, fields, TypeOK, OneRunning, ContextIntegrity,
         PositionInv, LinkInv, CreatorInv, Started
<1>2. SwitchInv /\ [Next]_vars => SwitchInv'
  BY <1>1, AllocateProcessSwitch, NumberProcessSwitch, ListStepsSwitch,
     TimerSwitch DEF Next, AddStep
<1>3. QED
  BY InitSwitchInv, <1>2, PTL DEF Spec

-----------------------------------------------------------------------------
(* Every allocated process but the one being added was added.              *)
Completed == IF Adding THEN allocated - 1 ELSE allocated

(* Processes are numbered and linked in the order of their creation.       *)
ListInv ==
  /\ Completed \in 1 .. allocated
  /\ added = 0 .. Completed - 1
  /\ process_list = IF HeadOnly THEN allocated - 1 ELSE Completed - 1
  /\ \A p \in added : pid[p] = p /\ next[p] = p - 1
  /\ current_process \in added

(* How far the one add_process that is under way has got.                  *)
AddingInv ==
  /\ ~Adding => next_pid = allocated
  /\ \A t, u \in Procs :
       position[t].at # "run" /\ position[u].at # "run" => t = u
  /\ \A t \in Procs : position[t].at # "run" =>
       LET new == allocated - 1 IN
       /\ position[t].proc = new
       /\ position[t].at = "number" => next_pid = new /\ position[t].tmp = new
       /\ position[t].at # "number" => next_pid = allocated /\ pid[new] = new
       /\ position[t].at \in {"store", "head", "next"} => position[t].tmp = new - 1
       /\ position[t].at = "head" => next[new] = new - 1

(* How long each process can have waited: its distance, going towards      *)
(* older processes and round, from the one that runs.                      *)
WaitInv ==
  \A p \in Procs :
    /\ p \notin added => since[p] = 0
    /\ p \in added /\ p < current_process =>
         since[p] <= p + Completed - current_process
    /\ p \in added /\ p >= current_process =>
         since[p] <= p - current_process

OrderInv == ListInv /\ AddingInv /\ WaitInv

LEMMA InitOrderInv == Init => OrderInv
<1> SUFFICES ASSUME Init PROVE OrderInv
  OBVIOUS
<1> USE SchedulerAssumption DEF Init
<1>1. ~Adding /\ ~HeadOnly
  BY DEF Adding, HeadOnly, Run
<1>2. Completed = 1 /\ added = 0 .. 0 /\ 0 \in Procs
  BY <1>1 DEF Completed, Procs
<1>3. ListInv
  BY <1>2 DEF ListInv, Procs, NULL
<1>4. AddingInv
  BY <1>1 DEF AddingInv, Run
<1>5. WaitInv
  BY <1>2 DEF WaitInv, Procs
<1>6. QED
  BY <1>3, <1>4, <1>5 DEF OrderInv

(* The numbers the invariants speak of.                                    *)
LEMMA Numbers ==
  ASSUME SwitchInv, OrderInv
  PROVE  /\ allocated \in 1 .. MAX_PROCS
         /\ Completed \in 1 .. allocated
         /\ added = 0 .. Completed - 1 /\ added \subseteq Procs
         /\ current_process \in added
         /\ \A p \in Procs : p \in Nat /\ since[p] \in Nat
         /\ process_list = IF HeadOnly THEN allocated - 1 ELSE Completed - 1
         /\ next_pid \in Nat
         /\ MAX_PROCS \in Nat
  BY SchedulerAssumption, SMTT(30) DEF SwitchInv, TypeOK, OrderInv, ListInv, Procs

LEMMA AllocateProcessOrder ==
  ASSUME ~raced', SwitchInv, OrderInv, AllocateProcess
  PROVE  OrderInv'
<1> DEFINE t == current_process
<1>1. /\ Advance("number", allocated, next_pid)
      /\ allocated' = allocated + 1 /\ allocated < MAX_PROCS /\ ~Adding
      /\ UNCHANGED <<process_list, current_process, next_pid, pid, state, next,
                     stack_ptr, added, since>>
  BY DEF AllocateProcess, fields
<1>2. /\ "number" \in Points /\ allocated \in Procs
      /\ next_pid \in Procs \cup {NULL, MAX_PROCS} /\ next_pid = allocated
  BY <1>1, Numbers DEF Points, Procs, OrderInv, AddingInv
<1>3. /\ cpu' = [task |-> t, at |-> "number", proc |-> allocated,
                tmp |-> next_pid]
      /\ position'[t] = cpu' /\ t \in Procs
      /\ \A u \in Procs : u # t => position'[u] = position[u]
  BY <1>1, <1>2, AdvanceEffect, Running
<1>4. /\ \A u \in Procs : u # t => position'[u].at = "run"
      /\ position'[t].at = "number"
  BY <1>1, <1>3 DEF Adding
<1>5. /\ Adding' /\ Completed' = Completed /\ Completed = allocated
      /\ ~HeadOnly /\ ~HeadOnly'
  BY <1>1, <1>3, <1>4, Numbers DEF Adding, Completed, HeadOnly
<1>6. ListInv'
  BY <1>1, <1>5, Numbers DEF OrderInv, ListInv
<1>7. WaitInv'
  BY <1>1, <1>5 DEF OrderInv, WaitInv
<1>8. AddingInv'
  <2>1. allocated' - 1 = allocated
    BY <1>1, Numbers
  <2>2. QED
    BY <1>1, <1>2, <1>3, <1>4, <1>5, <2>1 DEF AddingInv
<1>9. QED
  BY <1>6, <1>7, <1>8 DEF OrderInv

(* What a step of an add_process finds: the process that runs is the only  *)
(* one in add_process, and the structure it fills is the last allocated.   *)
LEMMA Creator ==
  ASSUME SwitchInv, OrderInv, cpu.at # "run"
  PROVE  /\ cpu = position[current_process] /\ current_process \in Procs
         /\ Adding /\ Completed = allocated - 1
         /\ cpu.proc = allocated - 1 /\ cpu.proc \in Procs
         /\ cpu.proc \notin added
         /\ \A p \in added : p \in Procs /\ p # cpu.proc
         /\ \A u \in Procs :
              u # current_process => position[u].at = "run"
<1>1. cpu = position[current_process] /\ current_process \in Procs
  BY Running
<1>2. Adding /\ cpu.proc = allocated - 1 /\ Completed = allocated - 1
  BY <1>1 DEF OrderInv, AddingInv, Completed, Adding
<1>3. cpu.proc \in Procs
  BY <1>1 DEF SwitchInv, CreatorInv
<1>4. cpu.proc \notin added /\ added \subseteq Procs
  BY <1>2, Numbers
<1>5. QED
  BY <1>1, <1>2, <1>3, <1>4 DEF OrderInv, AddingInv

(* A step after which the same add_process is still under way.             *)
LEMMA StillAdding ==
  ASSUME SwitchInv, OrderInv, cpu.at \notin {"run", "next"},
         NEW pt \in Points, NEW tm \in Procs, pt # "run",
         Advance(pt, cpu.proc, tm),
         process_list' = IF pt = "next" THEN cpu.proc ELSE process_list,
         UNCHANGED <<current_process, allocated, added, since>>,
         \A p \in added : pid'[p] = pid[p] /\ next'[p] = next[p]
  PROVE  /\ ListInv' /\ WaitInv' /\ Adding'
         /\ position'[current_process].at = pt
         /\ position'[current_process].proc = allocated - 1
         /\ position'[current_process].tmp = tm
         /\ \A u \in Procs :
              u # current_process => position'[u].at = "run"
<1> DEFINE t == current_process
<1>1. cpu.proc \in Procs /\ cpu.proc = allocated - 1 /\ Adding /\ t \in Procs
      /\ \A u \in Procs : u # t => position[u].at = "run"
  BY Creator
<1>2. /\ cpu' = [task |-> t, at |-> pt, proc |-> cpu.proc, tmp |-> tm]
      /\ position'[t] = cpu'
      /\ \A u \in Procs : u # t => position'[u] = position[u]
  BY <1>1, AdvanceEffect
<1>3. /\ Adding' /\ Completed' = Completed
      /\ ~HeadOnly /\ (HeadOnly' <=> pt = "next")
  <2>1. cpu = position[t]
    BY Creator
  <2>2. ~HeadOnly
    BY <1>1, <2>1 DEF HeadOnly
  <2>3. HeadOnly' <=> pt = "next"
    BY <1>1, <1>2 DEF HeadOnly
  <2>4. QED
    BY <1>1, <1>2, <2>2, <2>3 DEF Adding, Completed
<1>4. ListInv'
  BY <1>1, <1>3 DEF OrderInv, ListInv
<1>5. WaitInv'
  BY <1>3 DEF OrderInv, WaitInv
<1>6. QED
  BY <1>1, <1>2, <1>3, <1>4, <1>5

LEMMA NumberProcessOrder ==
  ASSUME SwitchInv, OrderInv, NumberProcess
  PROVE  OrderInv'
<1> DEFINE t == current_process
           new == cpu.proc
<1>1. /\ new = allocated - 1 /\ new \in Procs
      /\ \A p \in added : p \in Procs /\ p # new
      /\ cpu = position[t] /\ t \in Procs /\ cpu.at = "number"
  BY Creator DEF NumberProcess
<1>2. cpu.tmp = new
  BY <1>1 DEF OrderInv, AddingInv
<1>3. /\ Advance("load", new, cpu.tmp)
      /\ next_pid' = cpu.tmp + 1
      /\ pid' = [pid EXCEPT ![new] = cpu.tmp]
      /\ UNCHANGED <<process_list, current_process, next, allocated, added,
                     since>>
  BY DEF NumberProcess
<1>4. /\ pid'[new] = new /\ \A p \in added : pid'[p] = pid[p]
      /\ next_pid' = allocated
  <2>1. DOMAIN pid = Procs
    BY DEF SwitchInv, TypeOK
  <2>2. pid'[new] = new
    BY <1>1, <1>2, <1>3, <2>1
  <2>3. \A p \in added : pid'[p] = pid[p]
    BY <1>1, <1>3, <2>1
  <2>4. next_pid' = allocated
    BY <1>1, <1>2, <1>3, Numbers
  <2>5. QED
    BY <2>2, <2>3, <2>4
<1>5. /\ ListInv' /\ WaitInv' /\ Adding'
      /\ position'[t].at = "load" /\ position'[t].proc = new
      /\ \A u \in Procs : u # t => position'[u].at = "run"
  BY <1>1, <1>2, <1>3, <1>4, StillAdding DEF Points
<1>6. AddingInv'
  BY <1>1, <1>3, <1>4, <1>5 DEF AddingInv
<1>7. QED
  BY <1>5, <1>6 DEF OrderInv

LEMMA LoadHeadOrder ==
  ASSUME SwitchInv, OrderInv, LoadHead
  PROVE  OrderInv'
<1> DEFINE t == current_process
           new == cpu.proc
<1>1. /\ new = allocated - 1 /\ new \in Procs /\ Completed = allocated - 1
      /\ cpu = position[t] /\ t \in Procs /\ cpu.at = "load"
  BY Creator DEF LoadHead
<1>2. /\ Advance("store", new, process_list)
      /\ UNCHANGED <<process_list, current_process, next_pid, pid, next,
                     allocated, added, since>>
  BY DEF LoadHead, fields
<1>3. process_list = new - 1 /\ process_list \in Procs
  <2>1. ~HeadOnly
    BY <1>1, Creator DEF HeadOnly
  <2>2. QED
    BY <1>1, <2>1, Numbers DEF SwitchInv, TypeOK
<1>4. next_pid = allocated /\ pid[new] = new
  BY <1>1 DEF OrderInv, AddingInv
<1>5. /\ ListInv' /\ WaitInv' /\ Adding'
      /\ position'[t].at = "store" /\ position'[t].proc = new
      /\ position'[t].tmp = process_list
      /\ \A u \in Procs : u # t => position'[u].at = "run"
  BY <1>1, <1>2, <1>3, StillAdding DEF Points
<1>6. AddingInv'
  BY <1>1, <1>2, <1>3, <1>4, <1>5 DEF AddingInv
<1>7. QED
  BY <1>5, <1>6 DEF OrderInv

(* The last store of an add_process, whichever of the two it is, leaves    *)
(* the new process at the head, linked to the others.                      *)
LEMMA ReturnOrder ==
  ASSUME SwitchInv, OrderInv, cpu.at \notin {"run", "number"}, Return,
         process_list' = cpu.proc,
         next'[cpu.proc] = cpu.proc - 1,
         \A p \in added : next'[p] = next[p],
         UNCHANGED <<current_process, next_pid, pid, allocated, since>>
  PROVE  OrderInv'
<1> DEFINE t == current_process
           new == cpu.proc
<1> USE SchedulerAssumption
<1>1. /\ cpu = position[t] /\ t \in Procs /\ Completed = allocated - 1
      /\ new = allocated - 1 /\ new \in Procs /\ new \notin added
      /\ \A u \in Procs : u # t => position[u].at = "run"
  BY Creator
<1>2. next_pid = allocated /\ pid[new] = new /\ since[new] = 0
  BY <1>1 DEF OrderInv, AddingInv, WaitInv
<1>3. /\ Advance("run", NULL, 0) /\ added' = added \cup {new}
      /\ process_list' = new
  BY DEF Return
<1>4. /\ position'[t].at = "run"
      /\ \A u \in Procs : u # t => position'[u] = position[u]
  <2>1. "run" \in Points /\ 0 \in Procs
    BY DEF Points, Procs
  <2>2. QED
    BY <1>3, <2>1, AdvanceEffect
<1>5. ~Adding' /\ ~HeadOnly' /\ Completed' = Completed + 1
  <2>1. \A u \in Procs : position'[u].at = "run"
    BY <1>1, <1>4
  <2>2. ~Adding' /\ ~HeadOnly'
    BY <2>1 DEF Adding, HeadOnly
  <2>3. Completed' = allocated'
    BY <2>2 DEF Completed
  <2>4. allocated' = allocated /\ allocated \in Int
    BY Numbers
  <2>5. QED
    BY <1>1, <2>2, <2>3, <2>4
<1>6. ListInv'
  <2>1. added' = 0 .. Completed' - 1 /\ Completed' \in 1 .. allocated'
    BY <1>1, <1>3, <1>5, Numbers
  <2>2. process_list' = Completed' - 1
    BY <1>1, <1>3, <1>5, Numbers
  <2>3. QED
    BY <1>2, <1>3, <1>5, <2>1, <2>2 DEF OrderInv, ListInv
<1>7. WaitInv'
  <2>1. Completed \in Nat /\ t \in Nat /\ t < new
    BY <1>1, Numbers
  <2>2. ASSUME NEW p \in Procs
        PROVE  /\ p \notin added' => since'[p] = 0
               /\ p \in added' /\ p < t => since'[p] <= p + Completed' - t
               /\ p \in added' /\ p >= t => since'[p] <= p - t
    <3>1. p \in Nat /\ since[p] \in Nat
      BY Numbers
    <3>2. QED
      BY <1>2, <1>3, <1>5, <2>1, <3>1 DEF OrderInv, WaitInv
  <2>3. QED
    BY <1>3, <2>2 DEF WaitInv
<1>8. AddingInv'
  BY <1>1, <1>2, <1>3, <1>4, <1>5 DEF AddingInv
<1>9. QED
  BY <1>6, <1>7, <1>8 DEF OrderInv

(* What the two stores find in the registers and in the new process.       *)
LEMMA StoreRegisters ==
  ASSUME SwitchInv, OrderInv, cpu.at \in {"store", "head", "next"}
  PROVE  /\ cpu.proc = allocated - 1 /\ cpu.proc \in Procs
         /\ cpu.tmp = cpu.proc - 1 /\ cpu.tmp \in Procs
         /\ \A p \in added : p \in Procs /\ p # cpu.proc
         /\ next_pid = allocated /\ pid[cpu.proc] = cpu.proc
         /\ cpu.at = "head" => next[cpu.proc] = cpu.proc - 1
         /\ cpu.at = "next" <=> HeadOnly
         /\ cpu = position[current_process] /\ current_process \in Procs
<1>1. /\ cpu.proc = allocated - 1 /\ cpu.proc \in Procs
      /\ \A p \in added : p \in Procs /\ p # cpu.proc
      /\ cpu = position[current_process] /\ current_process \in Procs
      /\ \A u \in Procs : u # current_process => position[u].at = "run"
  BY Creator
<1>2. /\ cpu.tmp = cpu.proc - 1
      /\ next_pid = allocated /\ pid[cpu.proc] = cpu.proc
      /\ cpu.at = "head" => next[cpu.proc] = cpu.proc - 1
  BY <1>1 DEF OrderInv, AddingInv
<1>3. cpu.tmp \in Procs
  BY Registers
<1>4. cpu.at = "next" <=> HeadOnly
  BY <1>1 DEF HeadOnly
<1>5. QED
  BY <1>1, <1>2, <1>3, <1>4

LEMMA StoreNextOrder ==
  ASSUME SwitchInv, OrderInv, StoreNext
  PROVE  OrderInv'
<1> DEFINE t == current_process
           new == cpu.proc
<1>1. cpu.at \in {"store", "next"}
  BY DEF StoreNext
<1>2. /\ new = allocated - 1 /\ new \in Procs
      /\ cpu.tmp = new - 1 /\ cpu.tmp \in Procs
      /\ \A p \in added : p \in Procs /\ p # new
      /\ next_pid = allocated /\ pid[new] = new
      /\ cpu.at = "next" <=> HeadOnly
      /\ cpu = position[t] /\ t \in Procs
  BY <1>1, StoreRegisters
<1>3. /\ next' = [next EXCEPT ![new] = cpu.tmp]
      /\ UNCHANGED <<process_list, current_process, next_pid, pid,
                     allocated, since>>
  BY DEF StoreNext
<1>4. next'[new] = new - 1 /\ \A p \in added : next'[p] = next[p]
  BY <1>2, <1>3 DEF SwitchInv, TypeOK
<1>5. CASE cpu.at = "store"
  <2>1. Advance("head", new, cpu.tmp) /\ UNCHANGED added
    BY <1>5 DEF StoreNext
  <2>2. /\ ListInv' /\ WaitInv' /\ Adding'
        /\ position'[t].at = "head" /\ position'[t].proc = new
        /\ position'[t].tmp = cpu.tmp
        /\ \A u \in Procs : u # t => position'[u].at = "run"
    BY <1>2, <1>3, <1>4, <1>5, <2>1, StillAdding DEF Points
  <2>3. AddingInv'
    BY <1>2, <1>3, <1>4, <2>1, <2>2 DEF AddingInv
  <2>4. QED
    BY <2>2, <2>3 DEF OrderInv
<1>6. CASE cpu.at = "next"
  <2>1. Return
    BY <1>6 DEF StoreNext
  <2>2. process_list = new
    BY <1>2, <1>6, Numbers
  <2>3. QED
    BY <1>3, <1>4, <1>6, <2>1, <2>2, ReturnOrder
<1>7. QED
  BY <1>1, <1>5, <1>6

LEMMA StoreHeadOrder ==
  ASSUME SwitchInv, OrderInv, StoreHead
  PROVE  OrderInv'
<1> DEFINE t == current_process
           new == cpu.proc
<1>1. cpu.at \in {"store", "head"}
  BY DEF StoreHead
<1>2. /\ new = allocated - 1 /\ new \in Procs
      /\ cpu.tmp = new - 1 /\ cpu.tmp \in Procs
      /\ next_pid = allocated /\ pid[new] = new
      /\ cpu.at = "head" => next[new] = new - 1
      /\ cpu = position[t] /\ t \in Procs
  BY <1>1, StoreRegisters
<1>3. /\ process_list' = new
      /\ UNCHANGED <<current_process, next_pid, pid, next, allocated, since>>
  BY DEF StoreHead, fields
<1>4. CASE cpu.at = "store"
  <2>1. Advance("next", new, cpu.tmp) /\ UNCHANGED added
    BY <1>4 DEF StoreHead
  <2>2. /\ ListInv' /\ WaitInv' /\ Adding'
        /\ position'[t].at = "next" /\ position'[t].proc = new
        /\ position'[t].tmp = cpu.tmp
        /\ \A u \in Procs : u # t => position'[u].at = "run"
    BY <1>2, <1>3, <1>4, <2>1, StillAdding DEF Points
  <2>3. AddingInv'
    BY <1>2, <1>3, <2>1, <2>2 DEF AddingInv
  <2>4. QED
    BY <2>2, <2>3 DEF OrderInv
<1>5. CASE cpu.at = "head"
  <2>1. Return
    BY <1>5 DEF StoreHead
  <2>2. QED
    BY <1>2, <1>3, <1>5, <2>1, ReturnOrder
<1>6. QED
  BY <1>1, <1>4, <1>5

(* The process the timer switches to: the next older, or the newest.       *)
LEMMA NextProcessIs ==
  ASSUME SwitchInv, OrderInv, ~HeadOnly
  PROVE  /\ NextProcess(current_process) =
              IF current_process = 0 THEN Completed - 1 ELSE current_process - 1
         /\ NextProcess(current_process) \in added
<1>1. next[current_process] = current_process - 1
  BY Numbers DEF OrderInv, ListInv
<1>2. QED
  BY <1>1, Numbers DEF NextProcess, NULL

LEMMA TimerOrder ==
  ASSUME ~raced', SwitchInv, OrderInv, Timer
  PROVE  OrderInv'
<1> DEFINE old == current_process
           new == NextProcess(old)
<1>1. /\ current_process' = new
      /\ UNCHANGED <<process_list, next_pid, pid, next, allocated, position,
                     added>>
  BY DEF Timer
<1>2. since' = [p \in Procs |->
                 IF p = new \/ p \notin added THEN 0
                 ELSE IF since[p] = MAX_PROCS THEN MAX_PROCS ELSE since[p] + 1]
  BY DEF Timer
<1>3. /\ Adding' = Adding /\ Completed' = Completed
      /\ ~HeadOnly /\ ~HeadOnly'
  <2>1. ~HeadOnly
    BY DEF Timer
  <2>2. QED
    BY <1>1, <2>1 DEF Adding, Completed, HeadOnly
<1>4. ListInv'
  BY <1>1, <1>3, NextProcessIs DEF OrderInv, ListInv
<1>5. AddingInv'
  BY <1>1, <1>3 DEF OrderInv, AddingInv
<1>6. WaitInv'
  <2>1. /\ old \in Nat /\ Completed \in Nat \ {0} /\ added = 0 .. Completed - 1
        /\ new = IF old = 0 THEN Completed - 1 ELSE old - 1
        /\ new \in Nat
    BY <1>3, Numbers, NextProcessIs
  <2> HIDE DEF old, new
  <2>2. ASSUME NEW p \in Procs
        PROVE  /\ p \notin added => since'[p] = 0
               /\ p \in added /\ p < new => since'[p] <= p + Completed - new
               /\ p \in added /\ p >= new => since'[p] <= p - new
    <3>1. p \in Nat /\ since[p] \in Nat
      BY Numbers
    <3>2. CASE p = new \/ p \notin added
      BY <1>2, <2>1, <3>1, <3>2
    <3>3. CASE p # new /\ p \in added
      <4>1. since'[p] <= since[p] + 1 /\ since'[p] \in Nat
        BY <1>2, <3>1, <3>3
      <4>2. /\ p < old => since[p] <= p + Completed - old
            /\ p >= old => since[p] <= p - old
        BY <3>3 DEF OrderInv, WaitInv, old
      <4>3. QED
        BY <2>1, <3>1, <3>3, <4>1, <4>2
    <3>4. QED
      BY <3>2, <3>3
  <2>3. QED
    BY <1>1, <1>3, <2>2 DEF WaitInv
<1>7. QED
  BY <1>4, <1>5, <1>6 DEF OrderInv

(* The order of creation is the order of the list and of the turns, until  *)
(* calls of add_process overlap or a tick comes behind an unlinked head.   *)
UntilRaced == ~raced => OrderInv

LEMMA UntilRacedHolds == Spec => [](SwitchInv /\ UntilRaced)
<1>1. OrderInv /\ UNCHANGED vars => OrderInv'
  BY DEF OrderInv, vars, fields, ListInv, AddingInv, WaitInv, Completed, Adding,
         HeadOnly
<1>2. [Next]_vars /\ ~raced' => ~raced
  BY DEF Next, AddStep, vars, AllocateProcess, NumberProcess, LoadHead,
         StoreNext, StoreHead, Timer
<1>3. SwitchInv /\ UntilRaced /\ [Next]_vars => UntilRaced'
  BY <1>1, <1>2, AllocateProcessOrder, NumberProcessOrder, LoadHeadOrder,
     StoreNextOrder, StoreHeadOrder, TimerOrder DEF Next, AddStep, UntilRaced
<1>4. Init => UntilRaced
  BY InitOrderInv DEF UntilRaced
<1>5. QED
  BY SwitchInvHolds, <1>3, <1>4, PTL DEF Spec

-----------------------------------------------------------------------------
(* Every nonempty set of natural numbers has a least element.              *)
LEMMA Least ==
  ASSUME NEW T \in SUBSET Nat, T # {}
  PROVE  \E m \in T : \A k \in T : m <= k
<1> DEFINE R == OpToRel(<, Nat)
<1>1. IsWellFoundedOn(R, Nat)
  BY NatLessThanWellFounded
<1>2. ASSUME NEW a \in Nat, NEW b \in Nat, a < b
      PROVE  <<a, b>> \in R
  BY <1>2, Zenon DEF OpToRel
<1> HIDE DEF R
<1>3. PICK m \in T : \A k \in T : ~ (<<k, m>> \in R)
  BY <1>1, WFMin
<1>4. \A k \in T : ~ (k < m)
  BY <1>2, <1>3
<1>5. QED
  BY <1>4

(* A walk along processes linked each to the one before meets them all.    *)
LEMMA WalkMeetsAll ==
  ASSUME SwitchInv, OrderInv, ~HeadOnly
  PROVE  Walk = added
<1>1. /\ Completed \in Nat \ {0} /\ added = 0 .. Completed - 1
      /\ process_list = Completed - 1 /\ added \subseteq Procs
      /\ \A p \in added : next[p] = p - 1
  BY Numbers DEF OrderInv, ListInv
<1>2. Walk \subseteq added
  <2>1. process_list \in added
    BY <1>1
  <2>2. \A q \in added : next[q] # NULL => next[q] \in added
    BY <1>1 DEF NULL
  <2>3. QED
    BY <1>1, <2>1, <2>2 DEF Walk
<1>3. ASSUME NEW S \in SUBSET Procs, process_list \in S,
             \A q \in S : next[q] # NULL => next[q] \in S
      PROVE  added \subseteq S
  <2> DEFINE last == Completed - 1
             T == {d \in Nat : d <= last /\ last - d \notin S}
  <2> SUFFICES ASSUME T # {} PROVE FALSE
    <3>1. \A p \in added : last - p \in Nat /\ last - p <= last
                           /\ last - (last - p) = p
      BY <1>1
    <3>2. QED
      BY <3>1
  <2>1. PICK d \in T : \A k \in T : d <= k
    <3>1. T \in SUBSET Nat
      OBVIOUS
    <3>2. QED
      BY <3>1, Least
  <2>2. last \in Nat /\ d \in Nat /\ d <= last /\ last - d \notin S
    BY <1>1
  <2>3. d # 0
    BY <1>1, <1>3, <2>2
  <2>4. d - 1 \in Nat /\ ~ (d <= d - 1)
    BY <2>2, <2>3
  <2>5. d - 1 \notin T
    BY <2>1, <2>4
  <2>6. last - (d - 1) \in S
    BY <2>2, <2>4, <2>5
  <2>7. /\ last - (d - 1) \in added
        /\ last - (d - 1) - 1 = last - d
        /\ last - d \in Nat
    BY <1>1, <2>2, <2>3
  <2>8. next[last - (d - 1)] = last - d /\ last - d # NULL
    BY <1>1, <2>7 DEF NULL
  <2>9. QED
    BY <1>3, <2>2, <2>6, <2>8
<1>4. added \subseteq Walk
  BY <1>1, <1>3 DEF Walk
<1>5. QED
  BY <1>2, <1>4

LEMMA AddedCount ==
  ASSUME SwitchInv, OrderInv
  PROVE  Cardinality(added) = Completed /\ Completed \in Nat \ {0}
<1>1. Completed \in Nat \ {0} /\ added = 0 .. Completed - 1
  BY Numbers DEF OrderInv, ListInv
<1>2. QED
  BY <1>1, FS_Interval

-----------------------------------------------------------------------------
(* Every reachable state is well typed.                                    *)
THEOREM SchedulerTypeOK == Spec => []TypeOK
<1>1. SwitchInv => TypeOK
  BY DEF SwitchInv
<1>2. QED
  BY SwitchInvHolds, <1>1, PTL

(* The switch restores every process where it was interrupted, for any     *)
(* overlap of add_process calls and either order of their stores.          *)
THEOREM SwitchLosesNoContext == Spec => []ContextIntegrity
<1>1. SwitchInv => ContextIntegrity
  BY DEF SwitchInv
<1>2. QED
  BY SwitchInvHolds, <1>1, PTL

(* Exactly the process that has the processor is marked RUNNING.           *)
THEOREM OneProcessRunning == Spec => []OneRunning
<1>1. SwitchInv => OneRunning
  BY DEF SwitchInv
<1>2. QED
  BY SwitchInvHolds, <1>1, PTL

(* add_process loses no process, whatever the timer does in the middle of  *)
(* it and in whichever order the build has its stores, until two calls     *)
(* overlap or a tick comes behind a head that is not linked.               *)
THEOREM ListIsExact == Spec => []NoProcessLost
<1>1. SwitchInv /\ UntilRaced => NoProcessLost
  BY WalkMeetsAll DEF NoProcessLost, UntilRaced
<1>2. QED
  BY UntilRacedHolds, <1>1, PTL

(* Until then no process waits for more ticks than there are others.       *)
THEOREM WaitIsBounded == Spec => []BoundedWait
<1>1. SwitchInv /\ UntilRaced => BoundedWait
  <2> SUFFICES ASSUME SwitchInv, OrderInv, NEW p \in added
               PROVE  since[p] < Cardinality(added)
    BY DEF BoundedWait, UntilRaced
  <2>1. /\ Cardinality(added) = Completed /\ Completed \in Nat \ {0}
        /\ added = 0 .. Completed - 1 /\ current_process \in added
    BY AddedCount, Numbers
  <2>2. p \in Procs /\ since[p] \in Nat
    BY Numbers
  <2>3. QED
    BY <2>1, <2>2 DEF OrderInv, WaitInv
<1>2. QED
  BY UntilRacedHolds, <1>1, PTL

(* The list of processes and the switch implement a round robin that is    *)
(* reliable until then.                                                    *)
THEOREM ImplementsRR == Spec => ImplementsRoundRobin
<1>1. Init => RR!Init
  BY FS_Singleton DEF Init, RR!Init
<1>2. SwitchInv /\ UntilRaced /\ UntilRaced' /\ [Next]_vars => [RR!Next]_(RR!rrVars)
  <2> SUFFICES ASSUME SwitchInv, UntilRaced, [Next]_vars
               PROVE  [RR!Next]_(RR!rrVars)
    OBVIOUS
  <2> USE DEF RR!rrVars
  <2>0. CASE raced'
    <3>1. RR!Next
      BY <2>0 DEF RR!Next
    <3>2. QED
      BY <3>1
  <2>10. ASSUME ~raced'
         PROVE  ~raced /\ OrderInv
    <3>1. ~raced
      BY <2>10 DEF Next, AddStep, vars, AllocateProcess, NumberProcess,
                   LoadHead, StoreNext, StoreHead, Timer
    <3>2. QED
      BY <3>1 DEF UntilRaced
  <2>11. CASE ~raced'
    <3> USE <2>10, <2>11 DEF RR!Next
    <3>1. CASE AllocateProcess
      BY <3>1 DEF AllocateProcess
    <3>2. CASE NumberProcess
      BY <3>2 DEF NumberProcess
    <3>3. CASE LoadHead
      BY <3>3 DEF LoadHead
    <3>4. ASSUME cpu.at # "run", added' = added \cup {cpu.proc},
                 UNCHANGED current_process
          PROVE  RR!Add
      <4>1. cpu.proc \notin added
        BY <3>4, Creator
      <4>2. IsFiniteSet(added)
        BY Numbers, FS_Interval
      <4>3. Cardinality(added') = Cardinality(added) + 1
        BY <3>4, <4>1, <4>2, FS_AddElement
      <4>4. QED
        BY <3>4, <4>3 DEF RR!Add
    <3>5. CASE StoreNext
      <4>1. cpu.at # "run" /\ UNCHANGED current_process /\ raced' = raced
            /\ (UNCHANGED added \/ added' = added \cup {cpu.proc})
        BY <3>5 DEF StoreNext, Return
      <4>2. QED
        BY <3>4, <4>1
    <3>6. CASE StoreHead
      <4>1. cpu.at # "run" /\ UNCHANGED current_process /\ raced' = raced
            /\ (UNCHANGED added \/ added' = added \cup {cpu.proc})
        BY <3>6 DEF StoreHead, Return
      <4>2. QED
        BY <3>4, <4>1
    <3>7. CASE Timer
      <4>1. /\ current_process' = NextProcess(current_process) /\ UNCHANGED added
            /\ ~HeadOnly
        BY <3>7 DEF Timer
      <4>2. RR!Tick
        BY <4>1, NextProcessIs, AddedCount DEF RR!Tick
      <4>3. QED
        BY <4>2
    <3>8. CASE UNCHANGED vars
      BY <3>8 DEF vars
    <3>9. QED
      BY <3>1, <3>2, <3>3, <3>5, <3>6, <3>7, <3>8 DEF Next, AddStep
  <2>12. QED
    BY <2>0, <2>11
<1>3. QED
  BY UntilRacedHolds, <1>1, <1>2, PTL DEF Spec, ImplementsRoundRobin, RR!Spec
=============================================================================
