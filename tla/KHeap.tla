------------------------------- MODULE KHeap --------------------------------
(***************************************************************************)
(* The kernel heap (kernel/memory/kheap.cpp): a bump allocator without     *)
(* lock, called by the processes, which the timer preempts, and by         *)
(* interrupt handlers, which run to their end.                             *)
(*                                                                         *)
(* KHeap::malloc loads current_addr once and works on the register; when   *)
(* the address is not aligned it first stores the aligned one, and after   *)
(* the check it stores the new end.  These three accesses are what the     *)
(* build has (kernel/memory/kheap.o: 0x27, 0x39 and 0x4e), and a process   *)
(* can be preempted between any two of them.                               *)
(***************************************************************************)
EXTENDS Integers, Sequences

CONSTANTS
  Tasks,           \* the processes that allocate
  KERNEL,          \* the process with pid 0
  Sizes,           \* the sizes that are asked for
  ALIGN,           \* alignment of what malloc returns (8)
  START, END,      \* the heap given to KHeap::initialize
  REGISTER_SPACE,  \* one past the last address of a register (2^32)
  MAX_GRANTS       \* bound: allocations in one run

ASSUME HeapAssumption ==
  /\ Sizes \subseteq Nat \ {0}
  /\ ALIGN \in Nat \ {0}
  /\ START \in Nat /\ END \in Nat /\ START <= END
  /\ REGISTER_SPACE \in Nat
  /\ END + ALIGN < REGISTER_SPACE
  /\ \A s \in Sizes : END + ALIGN + s < REGISTER_SPACE
  /\ MAX_GRANTS \in Nat

VARIABLES
  current_addr,
  call,      \* what each process is doing in kmalloc
  grants,    \* the blocks returned so far, as [ptr, size]
  killed,    \* the processes the OOM killer removed
  halted,    \* KernelPanic::panic was called
  refused,   \* ghost: the size of the request that ended in the panic
  raced      \* ghost: a malloc ran inside another one

heapVars == <<current_addr, call, grants, killed, halted, refused, raced>>

Addresses == 0 .. REGISTER_SPACE - 1
Points    == {"idle", "load", "align", "check", "failed"}
Calls     == [at : Points, size : Sizes \cup {0}, addr : Addresses,
              retry : BOOLEAN]

Idle == [at |-> "idle", size |-> 0, addr |-> 0, retry |-> FALSE]

Started(s) == [at |-> "load", size |-> s, addr |-> 0, retry |-> FALSE]

HeapInit ==
  /\ current_addr = START
  /\ call = [t \in Tasks |-> Idle]
  /\ grants = <<>>
  /\ killed = {}
  /\ halted = FALSE
  /\ refused = 0
  /\ raced = FALSE

-----------------------------------------------------------------------------
Aligned(a) == IF a % ALIGN = 0 THEN a ELSE a + (ALIGN - (a % ALIGN))

(* A check that refuses a block that ends exactly at the end of the heap.  *)
Fits_Strict(addr, size) == (addr + size) % REGISTER_SPACE < END

(* A check of the first byte only.                                         *)
Fits_FirstByte(addr, size) == addr <= END

(* The sum is that of 32-bit registers.                                    *)
Fits(addr, size) == (addr + size) % REGISTER_SPACE <= END

(* A process is between its load of current_addr and its last store.       *)
InMalloc(t) == call[t].at \in {"align", "check"}
Busy        == \E t \in Tasks : InMalloc(t)

Grant(addr, size) ==
  /\ current_addr' = (addr + size) % REGISTER_SPACE
  /\ grants' = Append(grants, [ptr |-> addr, size |-> size])

Begin(t, s) ==
  /\ ~halted
  /\ call[t].at = "idle"
  /\ Len(grants) < MAX_GRANTS
  /\ call' = [call EXCEPT ![t] = Started(s)]
  /\ UNCHANGED <<current_addr, grants, killed, halted, refused, raced>>

(* The load of current_addr, and the aligned value in the register.        *)
Load(t) ==
  /\ ~halted
  /\ call[t].at = "load"
  /\ call' = [call EXCEPT
                ![t].addr = Aligned(current_addr),
                ![t].at = IF current_addr % ALIGN = 0 THEN "check" ELSE "align"]
  /\ raced' = (raced \/ Busy)
  /\ UNCHANGED <<current_addr, grants, killed, halted, refused>>

(* The store of the aligned address.                                       *)
StoreAligned(t) ==
  /\ ~halted
  /\ call[t].at = "align"
  /\ current_addr' = call[t].addr
  /\ call' = [call EXCEPT ![t].at = "check"]
  /\ UNCHANGED <<grants, killed, halted, refused, raced>>

(* A successful malloc that forgets to move current_addr past the block.   *)
Take_NoBump(t) ==
  /\ ~halted
  /\ call[t].at = "check"
  /\ Fits(call[t].addr, call[t].size)
  /\ current_addr' = call[t].addr
  /\ grants' = Append(grants, [ptr |-> call[t].addr, size |-> call[t].size])
  /\ call' = [call EXCEPT ![t] = Idle]
  /\ UNCHANGED <<killed, halted, refused, raced>>

(* The registers are given back before the block is recorded.              *)
Take_Cleared(t) ==
  /\ ~halted
  /\ call[t].at = "check"
  /\ Fits(call[t].addr, call[t].size)
  /\ call' = [call EXCEPT ![t] = Idle]
  /\ Grant(call'[t].addr, call'[t].size)
  /\ UNCHANGED <<killed, halted, refused, raced>>

(* The block fits: current_addr moves past it, it is cleared and returned. *)
Take(t) ==
  /\ ~halted
  /\ call[t].at = "check"
  /\ Fits(call[t].addr, call[t].size)
  /\ Grant(call[t].addr, call[t].size)
  /\ call' = [call EXCEPT ![t] = Idle]
  /\ UNCHANGED <<killed, halted, refused, raced>>

(* The block does not fit: malloc returns null.                            *)
Fail(t) ==
  /\ ~halted
  /\ call[t].at = "check"
  /\ ~Fits(call[t].addr, call[t].size)
  /\ call' = [call EXCEPT ![t].at = "failed"]
  /\ UNCHANGED <<current_addr, grants, killed, halted, refused, raced>>

(* kmalloc got null: unless the caller is the kernel process, it is        *)
(* removed from the scheduler and, still running, tries once more.         *)
OutOfMemory(t) ==
  /\ ~halted
  /\ call[t].at = "failed"
  /\ IF t # KERNEL /\ ~call[t].retry
     THEN /\ killed' = killed \cup {t}
          /\ call' = [call EXCEPT ![t].at = "load", ![t].retry = TRUE]
          /\ UNCHANGED <<halted, refused>>
     ELSE /\ halted' = TRUE
          /\ refused' = call[t].size
          /\ UNCHANGED <<killed, call>>
  /\ UNCHANGED <<current_addr, grants, raced>>

(* kmalloc called by an interrupt handler (a received frame, a key): it    *)
(* runs to its end.  When nothing is left, the process t that was          *)
(* interrupted is the one that is killed, and the second try fails too.    *)
HandlerMalloc(t, s) ==
  /\ ~halted
  /\ Len(grants) < MAX_GRANTS
  /\ raced' = (raced \/ Busy)
  /\ IF Fits(Aligned(current_addr), s)
     THEN /\ Grant(Aligned(current_addr), s)
          /\ UNCHANGED <<killed, halted, refused>>
     ELSE /\ current_addr' = Aligned(current_addr)
          /\ halted' = TRUE
          /\ refused' = s
          /\ killed' = killed \cup ({t} \ {KERNEL})
          /\ UNCHANGED grants
  /\ UNCHANGED call

Step(t) ==
  Load(t) \/ StoreAligned(t) \/ Take(t) \/ Fail(t) \/ OutOfMemory(t)

HeapNext ==
  \/ \E t \in Tasks, s \in Sizes : Begin(t, s) \/ HandlerMalloc(t, s)
  \/ \E t \in Tasks : Step(t)

HeapSpec == HeapInit /\ [][HeapNext]_heapVars

-----------------------------------------------------------------------------
(* Type correctness.                                                       *)
HeapTypeOK ==
  /\ current_addr \in Addresses
  /\ call \in [Tasks -> Calls]
  /\ grants \in Seq([ptr : Addresses, size : Sizes])
  /\ killed \in SUBSET Tasks
  /\ halted \in BOOLEAN
  /\ refused \in Sizes \cup {0}
  /\ raced \in BOOLEAN

(* Every block malloc returned (kheap.cpp:17-34) is aligned and lies in    *)
(* the heap, whatever preempted whom inside it: a stale register can make  *)
(* two blocks overlap, but never leave the heap.                           *)
InHeap ==
  \A i \in 1 .. Len(grants) :
    /\ grants[i].ptr % ALIGN = 0
    /\ START <= grants[i].ptr
    /\ grants[i].ptr + grants[i].size <= END

Disjoint(a, b) == a.ptr + a.size <= b.ptr \/ b.ptr + b.size <= a.ptr

GrantsDisjoint ==
  \A i, j \in 1 .. Len(grants) : i # j => Disjoint(grants[i], grants[j])

(* Two blocks never share a byte, as long as no malloc ran inside another. *)
NoOverlap == ~raced => GrantsDisjoint

(* A block of s bytes is not there.                                        *)
NoRoom(s) == Aligned(current_addr) + s > END

(* What malloc refused (kheap.cpp:23) stays refused, as long as no malloc  *)
(* ran inside another: the panic of kheap.cpp:63 comes when there is no    *)
(* room for the very size that was asked for, and a process that the OOM   *)
(* killer removed (kheap.cpp:53-57) stays in its second try without room   *)
(* until the machine stops, because its removal gives nothing back.        *)
PanicOnlyWhenFull ==
  ~raced =>
    /\ halted => NoRoom(refused)
    /\ \A t \in killed : halted \/ (call[t].retry /\ NoRoom(call[t].size))
=============================================================================
