----------------------------- MODULE BootMemory -----------------------------
(***************************************************************************)
(* How kernel_main lays out memory (kernel/kernel.cpp:50-76) and how the   *)
(* frames of the physical memory manager are handed out afterwards:        *)
(* PMM::initialize places the bitmap right after the kernel image,         *)
(* load_memory_map frees what the boot loader reports, the image is locked,*)
(* the heap is placed after the bitmap, paging takes its directory and     *)
(* tables, and the rest of the kernel allocates and frees frames.          *)
(*                                                                         *)
(* The machine (end of the kernel image, memory size, memory map) is       *)
(* chosen once, in Init.  All of this runs with interrupts disabled or     *)
(* from interrupt handlers, so an allocation is one step.                  *)
(***************************************************************************)
EXTENDS PMM, Sequences

CONSTANTS
  KERNEL_BASE,     \* where the image is loaded (0x100000)
  HEAP_SIZE,       \* bytes of kernel heap (4 MB)
  BOOT_TABLES,     \* page tables Paging::initialize allocates (16)
  ADDRESS_SPACE,   \* one past the last address of a 32-bit register (2^32)
  Machines,        \* the machines the kernel may be booted on
  MAX_HOLDERS,     \* bound: grants of one frame outstanding at once
  MAX_USED         \* bound on used_blocks, which may drift from the bitmap

Entries == [addr_low : Nat, addr_high : Nat, len_low : Nat, type : Nat]

ASSUME BootAssumption ==
  /\ KERNEL_BASE \in Nat \ {0} /\ HEAP_SIZE \in Nat /\ BOOT_TABLES \in Nat
  /\ BLOCK_SIZE >= 32
  /\ ADDRESS_SPACE \in Nat /\ MAX_HOLDERS \in Nat \ {0} /\ MAX_USED \in Nat
  /\ KERNEL_BASE % BLOCK_SIZE = 0
  /\ \A m \in Machines :
       /\ m.kernel_end \in Nat /\ m.kernel_end > KERNEL_BASE
       /\ m.mem_size \in BLOCK_SIZE .. ADDRESS_SPACE - 1
       /\ m.mmap \in SUBSET Entries

Phases == {"pmm", "map", "lock", "heap", "paging", "running"}

Frames == 0 .. ADDRESS_SPACE \div BLOCK_SIZE

VARIABLES
  machine,    \* the machine the kernel was booted on
  phase,      \* the next step of kernel_main
  heap,       \* [start, end): the addresses KHeap::initialize was given
  paging,     \* frames of the page directory and the boot page tables
  holders,    \* ghost: how many outstanding grants of each frame there are
  granted     \* ghost: the frames that were ever granted

vars == <<pmmVars, machine, phase, heap, paging, holders, granted>>
ghostVars == <<holders, granted>>

-----------------------------------------------------------------------------
kernel_end == machine.kernel_end

(* Blocks overlapping the byte range [lo, hi).                             *)
BlocksOf(lo, hi) ==
  {b \in Frames : b * BLOCK_SIZE < hi /\ lo < (b + 1) * BLOCK_SIZE}

BitmapEnd    == kernel_end + (max_blocks + 7) \div 8
BitmapBlocks == BlocksOf(kernel_end, BitmapEnd)

(* The blocks the loop of kernel_main passes to set_block.                 *)
KernelBlocks ==
  {b \in Frames : KERNEL_BASE <= b * BLOCK_SIZE /\ b * BLOCK_SIZE < kernel_end}

(* The blocks an entry of the memory map makes load_memory_map free: one   *)
(* per BLOCK_SIZE step from addr_low while the offset is below len_low,    *)
(* the last one even when the entry ends inside it; free_block ignores     *)
(* them all when addr_low is not aligned.  addr_high is not looked at.     *)
FreedBy(e) ==
  IF e.type = 1 /\ e.addr_low % BLOCK_SIZE = 0
  THEN {b \in Frames : /\ e.addr_low <= b * BLOCK_SIZE
                       /\ b * BLOCK_SIZE < e.addr_low + e.len_low}
  ELSE {}

MapBlocks == UNION {FreedBy(e) : e \in machine.mmap}

-----------------------------------------------------------------------------
Init ==
  /\ PMMInit
  /\ machine \in Machines
  /\ phase = "pmm"
  /\ heap = <<0, 0>>
  /\ paging = <<>>
  /\ holders = [b \in Frames |-> 0]
  /\ granted = {}

InitializeBitmap ==
  /\ phase = "pmm"
  /\ InitializePMM(kernel_end, machine.mem_size)
  /\ phase' = "map"
  /\ UNCHANGED <<machine, heap, paging, ghostVars>>

(* The frees of every entry; the set_block(0) that follows finds block 0   *)
(* still marked, because free_block ignores the null address.              *)
LoadMemoryMap ==
  /\ phase = "map"
  /\ FreeBlocksOf(MapBlocks)
  /\ phase' = "lock"
  /\ UNCHANGED <<machine, heap, paging, ghostVars>>

(* A lock that misses the block of the last byte of the image.             *)
LockKernel_MissLast ==
  /\ phase = "lock"
  /\ SetBlocks({b \in KernelBlocks : (b + 1) * BLOCK_SIZE < kernel_end})
  /\ phase' = "heap"
  /\ UNCHANGED <<machine, heap, paging, ghostVars>>

LockKernel ==
  /\ phase = "lock"
  /\ SetBlocks(KernelBlocks)
  /\ phase' = "heap"
  /\ UNCHANGED <<machine, heap, paging, ghostVars>>

(* A heap placed right after the image, on top of the bitmap.              *)
InitializeHeap_OnBitmap ==
  /\ phase = "heap"
  /\ heap' = <<kernel_end, kernel_end + HEAP_SIZE>>
  /\ phase' = "paging"
  /\ UNCHANGED <<pmmVars, machine, paging, ghostVars>>

(* heap_start = kernel_end + mem_size / 32 / 8 + one block.                *)
InitializeHeap ==
  /\ phase = "heap"
  /\ LET start == kernel_end + (machine.mem_size \div 32) \div 8 + BLOCK_SIZE
     IN heap' = <<start, start + HEAP_SIZE>>
  /\ phase' = "paging"
  /\ UNCHANGED <<pmmVars, machine, paging, ghostVars>>

(* The bits stored in frame b, when b holds a part of the bitmap.          *)
BitsIn(b) ==
  {x \in Blocks : (kernel_end + x \div 8) \div BLOCK_SIZE = b}

(* An allocate_block that forgets to mark what it returns.                 *)
HandOut_NoMark(b) ==
  /\ bitmap' = bitmap \ BitsIn(b)
  /\ used_blocks' = used_blocks + 1
  /\ holders' = [holders EXCEPT ![b] = @ + 1]
  /\ granted' = granted \cup {b}
  /\ UNCHANGED max_blocks

(* allocate_block returns b, and its caller clears the frame: Paging, VMM  *)
(* and RAMFS all memset what they are given.  Clearing a frame that holds  *)
(* a part of the bitmap clears those bits.                                 *)
HandOut(b) ==
  /\ bitmap' = (bitmap \cup {b}) \ BitsIn(b)
  /\ used_blocks' = used_blocks + 1
  /\ holders' = [holders EXCEPT ![b] = @ + 1]
  /\ granted' = granted \cup {b}
  /\ UNCHANGED max_blocks

(* Paging::initialize takes the directory, then each table.  A failed      *)
(* allocation is not noticed: the null pointer is used as the frame.       *)
InitializePaging ==
  /\ phase = "paging"
  /\ \/ \E b \in Frames :
          /\ FirstFree(b)
          /\ HandOut(b)
          /\ paging' = Append(paging, b)
     \/ /\ FreeBlocks = {}
        /\ paging' = Append(paging, 0)
        /\ UNCHANGED <<pmmVars, ghostVars>>
  /\ phase' = IF Len(paging') = BOOT_TABLES + 1 THEN "running" ELSE phase
  /\ UNCHANGED <<machine, heap>>

(* A client (RAMFS::create_file, VMM, the page-fault handler) obtains the  *)
(* first free frame.                                                       *)
Allocate(b) ==
  /\ phase = "running"
  /\ FirstFree(b)
  /\ holders[b] < MAX_HOLDERS /\ used_blocks < MAX_USED
  /\ HandOut(b)
  /\ UNCHANGED <<machine, phase, heap, paging>>

(* A client returns a frame that it holds; the boot page tables are never  *)
(* returned.                                                               *)
Free(b) ==
  /\ phase = "running"
  /\ holders[b] > 0
  /\ \A i \in 1 .. Len(paging) : paging[i] # b
  /\ FreeBlocksOf({b})
  /\ holders' = [holders EXCEPT ![b] = @ - 1]
  /\ UNCHANGED <<machine, phase, heap, paging, granted>>

Next ==
  \/ InitializeBitmap
  \/ LoadMemoryMap
  \/ LockKernel
  \/ InitializeHeap
  \/ InitializePaging
  \/ \E b \in Frames : Allocate(b) \/ Free(b)

Spec == Init /\ [][Next]_vars

-----------------------------------------------------------------------------
(* Type correctness.                                                       *)
TypeOK ==
  /\ max_blocks \in Frames
  /\ bitmap \in SUBSET Blocks
  /\ used_blocks \in Int
  /\ machine \in Machines
  /\ phase \in Phases
  /\ heap \in Nat \X Nat
  /\ paging \in Seq(Frames)
  /\ holders \in [Frames -> Nat]
  /\ granted \in SUBSET Frames

(* No caller was ever given a frame that holds a part of the bitmap; once  *)
(* one is, clearing it erases the marks (see HandOut).                     *)
BitmapIntact == granted \cap BitmapBlocks = {}

(* The count kept by set_block, unset_block, allocate_block and free_block *)
(* (pmm.cpp:22-36) is the number of set bits, through the whole boot and   *)
(* any order of allocations and frees, as long as the bitmap is intact.    *)
CountMatchesBitmap == BitmapIntact => used_blocks = Cardinality(bitmap)

(* Every block that holds a part of the bitmap is locked with the image or *)
(* was never freed: a fact about the machine.  load_memory_map frees the   *)
(* blocks that initialize marked for the bitmap, and kernel_main locks the *)
(* image again and not the bitmap, so it holds when the bitmap fits behind *)
(* the image in its last block.                                            *)
BitmapLocked == BitmapBlocks \cap MapBlocks \subseteq KernelBlocks

(* allocate_block (pmm.cpp:81-88) never gives a frame to a second holder,  *)
(* the page directory and the boot page tables included, as long as the    *)
(* bitmap is intact.                                                       *)
NoDoubleGrant ==
  BitmapIntact =>
    \A b \in Frames :
      /\ holders[b] <= 1
      /\ holders[b] = 1 => b \in bitmap

(* The blocks marked for the kernel: its image, and block 0.               *)
ImageBlocks == KernelBlocks \cup {0}

(* The bits of the blocks marked for the kernel are themselves stored in   *)
(* such blocks: again a fact about the machine, and a weaker one than      *)
(* BitmapLocked.  The bits of an image of n blocks above 1 MB are the      *)
(* bytes 32 to 32 + n / 8 of the bitmap, so the image must end that far    *)
(* from the end of its last block; the rest of the bitmap may be anywhere. *)
ImageBitsLocked ==
  \A x \in ImageBlocks \cap Blocks :
    (kernel_end + x \div 8) \div BLOCK_SIZE \in ImageBlocks

(* On a machine on which the bits of the image and of block 0 are stored   *)
(* in blocks of the image, none of these blocks is ever given to anyone,   *)
(* although load_memory_map frees the image and kernel_main only locks it  *)
(* afterwards (kernel.cpp:56-59), and although the other blocks of the     *)
(* bitmap are handed out and cleared (pmm.cpp:81-88).  On other machines   *)
(* the code does give the image away.                                      *)
ImageNeverGranted == ImageBitsLocked => granted \cap ImageBlocks = {}

(* The heap kernel_main places after the bitmap (kernel.cpp:66-69) starts  *)
(* past the last byte of the bitmap, for every memory size.                *)
HeapClearOfBitmap == heap[1] # 0 => BitmapEnd <= heap[1]
=============================================================================
