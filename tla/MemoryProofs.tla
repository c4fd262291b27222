---------------------------- MODULE MemoryProofs ----------------------------
(***************************************************************************)
(* Proofs about the memory that kernel_main lays out: BootMemory for every *)
(* machine, block size and heap size, and KHeap for every heap, alignment, *)
(* set of sizes and number of processes.                                   *)
(***************************************************************************)
EXTENDS BootMemory, KHeap, FiniteSetTheorems, TLAPS

(***************************************************************************)
(* The boot and the frames.                                                *)
(***************************************************************************)

(* Before paging takes its first frame nothing is granted, and max_blocks  *)
(* is what PMM::initialize computed.                                       *)
PhaseInv ==
  /\ phase = "pmm" => bitmap = {} /\ max_blocks = 0 /\ used_blocks = 0
  /\ phase # "pmm" => max_blocks = machine.mem_size \div BLOCK_SIZE
  /\ phase \in {"pmm", "map", "lock", "heap"} =>
       granted = {} /\ holders = [b \in Frames |-> 0]

(* The blocks that stay marked for good.                                   *)
ProtectedInv ==
  /\ phase # "pmm" /\ BitmapIntact => 0 \in bitmap
  /\ phase \notin {"pmm", "map", "lock"} /\ BitmapIntact =>
       KernelBlocks \cap Blocks \subseteq bitmap

(* A frame is marked as long as someone holds it.                          *)
HoldersInv ==
  BitmapIntact => \A b \in Frames :
    /\ holders[b] <= 1
    /\ holders[b] # 0 => b \in bitmap /\ b \in granted

(* The image is not granted while the bitmap is intact.                    *)
ImageInv == BitmapIntact => granted \cap (KernelBlocks \cup {0}) = {}

HeapInv ==
  heap[1] # 0 =>
    /\ phase # "pmm"
    /\ heap[1] = kernel_end + (machine.mem_size \div 32) \div 8 + BLOCK_SIZE

IInv ==
  /\ TypeOK
  /\ PhaseInv
  /\ CountMatchesBitmap
  /\ ProtectedInv
  /\ HoldersInv
  /\ ImageInv
  /\ HeapInv

-----------------------------------------------------------------------------
LEMMA DivBounds ==
  ASSUME NEW y \in Nat, NEW d \in Nat \ {0}
  PROVE  /\ y \div d \in Nat
         /\ d * (y \div d) <= y
         /\ y < d * (y \div d) + d
OBVIOUS

(* The whole words of the bitmap lie inside it.                            *)
LEMMA ScannedInBlocks ==
  ASSUME max_blocks \in Nat
  PROVE  ScannedBlocks \subseteq Blocks
<1>1. BLOCKS_PER_BUCKET * (max_blocks \div BLOCKS_PER_BUCKET) <= max_blocks
  BY DivBounds, PMMAssumption
<1>2. BLOCKS_PER_BUCKET * (max_blocks \div BLOCKS_PER_BUCKET) \in Nat
  BY DivBounds, PMMAssumption
<1>3. QED
  BY <1>1, <1>2 DEF ScannedBlocks, Blocks

(* A frame that holds no byte of the bitmap holds no bit of it.            *)
LEMMA NoBitsOutside ==
  ASSUME max_blocks \in Nat, kernel_end \in Nat,
         NEW b \in Frames, b \notin BitmapBlocks
  PROVE  BitsIn(b) = {}
<1> SUFFICES ASSUME NEW x \in BitsIn(b) PROVE FALSE
  OBVIOUS
<1> DEFINE y == kernel_end + x \div 8
<1>0. b \in Nat /\ BLOCK_SIZE \in Nat \ {0} /\ x \in Nat /\ x < max_blocks
  BY PMMAssumption DEF Frames, BitsIn, Blocks
<1>1. y \in Nat /\ y \div BLOCK_SIZE = b
  BY <1>0 DEF BitsIn
<1>2. kernel_end <= y /\ y < BitmapEnd
  BY <1>0 DEF BitmapEnd
<1>3. BitmapEnd \in Nat
  BY DEF BitmapEnd
<1> HIDE DEF y
<1>4. BLOCK_SIZE * b <= y /\ y < BLOCK_SIZE * b + BLOCK_SIZE
  BY <1>0, <1>1, DivBounds
<1>5. b * BLOCK_SIZE = BLOCK_SIZE * b
      /\ (b + 1) * BLOCK_SIZE = BLOCK_SIZE * b + BLOCK_SIZE
      /\ BLOCK_SIZE * b \in Nat
  BY <1>0
<1>6. b * BLOCK_SIZE < BitmapEnd /\ kernel_end < (b + 1) * BLOCK_SIZE
  BY <1>0, <1>1, <1>2, <1>3, <1>4, <1>5
<1>7. QED
  BY <1>6 DEF BitmapBlocks, BlocksOf

(* The machine's fields, from the type invariant.                          *)
LEMMA MachineTypes ==
  ASSUME machine \in Machines
  PROVE  /\ kernel_end \in Nat /\ kernel_end > KERNEL_BASE
         /\ machine.mem_size \in Nat /\ machine.mem_size >= BLOCK_SIZE
         /\ machine.mem_size \div BLOCK_SIZE \in Frames
         /\ machine.mem_size \div BLOCK_SIZE # 0
<1>1. /\ kernel_end \in Nat /\ kernel_end > KERNEL_BASE
      /\ machine.mem_size \in BLOCK_SIZE .. ADDRESS_SPACE - 1
  BY BootAssumption DEF kernel_end
<1>2. BLOCK_SIZE \in Nat \ {0} /\ ADDRESS_SPACE \in Nat
  BY PMMAssumption, BootAssumption
<1> DEFINE q == machine.mem_size \div BLOCK_SIZE
           r == ADDRESS_SPACE \div BLOCK_SIZE
<1>3. /\ q \in Nat /\ BLOCK_SIZE * q <= machine.mem_size
      /\ machine.mem_size < BLOCK_SIZE * q + BLOCK_SIZE
  BY <1>1, <1>2, DivBounds
<1>4. r \in Nat /\ ADDRESS_SPACE < BLOCK_SIZE * r + BLOCK_SIZE
  BY <1>2, DivBounds
<1> HIDE DEF q, r
<1>5. q # 0
  BY <1>1, <1>2, <1>3
<1>6. ~(q >= r + 1)
  <2> SUFFICES ASSUME q >= r + 1 PROVE FALSE
    OBVIOUS
  <2>1. BLOCK_SIZE * q >= BLOCK_SIZE * (r + 1)
    BY <1>2, <1>3, <1>4
  <2>2. BLOCK_SIZE * (r + 1) = BLOCK_SIZE * r + BLOCK_SIZE
    BY <1>2, <1>4
  <2>3. BLOCK_SIZE * q \in Nat /\ BLOCK_SIZE * r \in Nat
    BY <1>2, <1>3, <1>4
  <2>4. QED
    BY <2>1, <2>2, <2>3, <1>1, <1>2, <1>3, <1>4
<1>7. QED
  BY <1>1, <1>2, <1>3, <1>4, <1>5, <1>6 DEF Frames, q, r

(* The blocks of a memory are finitely many, so the bitmap is finite.      *)
LEMMA BitmapFinite ==
  ASSUME max_blocks \in Nat, NEW S \in SUBSET Blocks
  PROVE  IsFiniteSet(S) /\ Cardinality(S) \in Nat
<1>1. IsFiniteSet(0 .. max_blocks - 1)
  BY FS_Interval
<1>2. QED
  BY <1>1, FS_Subset, FS_CardinalityType DEF Blocks

LEMMA InitHolds == Init => IInv
<1> SUFFICES ASSUME Init PROVE IInv
  OBVIOUS
<1> USE DEF Init, PMMInit
<1>1. TypeOK
  <2>1. 0 \in Frames
    BY BootAssumption, PMMAssumption, DivBounds DEF Frames
  <2>2. QED
    BY <2>1 DEF TypeOK, Phases
<1>2. PhaseInv
  BY DEF PhaseInv
<1>3. CountMatchesBitmap
  BY FS_EmptySet DEF CountMatchesBitmap
<1>4. ProtectedInv
  BY DEF ProtectedInv
<1>5. HoldersInv
  BY DEF HoldersInv
<1>6. ImageInv
  BY DEF ImageInv
<1>7. HeapInv
  BY DEF HeapInv
<1>8. QED
  BY <1>1, <1>2, <1>3, <1>4, <1>5, <1>6, <1>7 DEF IInv

-----------------------------------------------------------------------------
(* Each step of the boot preserves the invariant.                          *)
LEMMA InitializeBitmapStep ==
  ASSUME IInv, InitializeBitmap
  PROVE  IInv'
<1> USE DEF InitializeBitmap, InitializePMM
<1> DEFINE q == machine.mem_size \div BLOCK_SIZE
<1>1. q \in Frames /\ q \in Nat /\ q # 0
  BY MachineTypes DEF IInv, TypeOK, Frames
<1>2. max_blocks' = q /\ bitmap' = 0 .. q - 1 /\ used_blocks' = q
  OBVIOUS
<1> HIDE DEF q
<1>3. Cardinality(0 .. q - 1) = q
  BY <1>1, FS_Interval
<1>4. TypeOK'
  BY <1>1, <1>2 DEF IInv, TypeOK, Phases, Blocks, ghostVars
<1>5. PhaseInv'
  BY <1>2 DEF IInv, PhaseInv, q, ghostVars
<1>6. CountMatchesBitmap'
  BY <1>2, <1>3 DEF CountMatchesBitmap
<1>7. ProtectedInv'
  BY <1>1, <1>2 DEF ProtectedInv
<1>8. HoldersInv' /\ ImageInv'
  BY DEF IInv, PhaseInv, HoldersInv, ImageInv, ghostVars
<1>9. HeapInv'
  BY DEF IInv, HeapInv
<1>10. QED
  BY <1>4, <1>5, <1>6, <1>7, <1>8, <1>9 DEF IInv

LEMMA LoadMemoryMapStep ==
  ASSUME IInv, LoadMemoryMap
  PROVE  IInv'
<1> USE DEF LoadMemoryMap
<1> DEFINE freed == (MapBlocks \cap Blocks \cap bitmap) \ {0}
<1>1. /\ bitmap' = bitmap \ freed
      /\ used_blocks' = used_blocks - Cardinality(freed)
      /\ max_blocks' = max_blocks
  BY DEF FreeBlocksOf
<1>2. freed \subseteq bitmap /\ 0 \notin freed
  OBVIOUS
<1> HIDE DEF freed
<1>3. /\ max_blocks \in Nat /\ bitmap \in SUBSET Blocks
      /\ used_blocks \in Int
  BY DEF IInv, TypeOK, Frames
<1>4. Cardinality(bitmap \ freed) = Cardinality(bitmap) - Cardinality(freed)
  <2>1. IsFiniteSet(bitmap)
    BY <1>3, BitmapFinite
  <2>2. IsFiniteSet(freed)
    BY <2>1, <1>2, FS_Subset
  <2>3. bitmap \cap freed = freed
    BY <1>2
  <2>4. QED
    BY <2>1, <2>2, <2>3, FS_Difference
<1>5. BitmapIntact /\ BitmapIntact'
  BY DEF IInv, PhaseInv, BitmapIntact, ghostVars
<1>6. Cardinality(freed) \in Nat
  BY <1>2, <1>3, BitmapFinite
<1>7. TypeOK'
  <2>1. used_blocks' \in Int
    BY <1>1, <1>3, <1>6
  <2>2. bitmap' \in SUBSET Blocks
    BY <1>1, <1>3
  <2>3. Blocks' = Blocks
    BY <1>1 DEF Blocks
  <2>4. QED
    BY <1>1, <2>1, <2>2, <2>3 DEF IInv, TypeOK, Phases, ghostVars
<1>8. PhaseInv'
  BY <1>1 DEF IInv, PhaseInv, ghostVars
<1>9. CountMatchesBitmap'
  BY <1>1, <1>4, <1>5 DEF IInv, CountMatchesBitmap
<1>10. ProtectedInv'
  BY <1>1, <1>2, <1>5 DEF IInv, ProtectedInv
<1>11. HoldersInv' /\ ImageInv'
  BY DEF IInv, PhaseInv, HoldersInv, ImageInv, ghostVars
<1>12. HeapInv'
  BY DEF IInv, HeapInv, kernel_end
<1>13. QED
  BY <1>7, <1>8, <1>9, <1>10, <1>11, <1>12 DEF IInv

LEMMA LockKernelStep ==
  ASSUME IInv, LockKernel
  PROVE  IInv'
<1> USE DEF LockKernel
<1> DEFINE new == (KernelBlocks \cap Blocks) \ bitmap
<1>1. /\ bitmap' = bitmap \cup new
      /\ used_blocks' = used_blocks + Cardinality(new)
      /\ max_blocks' = max_blocks
  BY DEF SetBlocks
<1>2. new \subseteq Blocks /\ new \cap bitmap = {}
  OBVIOUS
<1>3. /\ max_blocks \in Nat /\ bitmap \in SUBSET Blocks
      /\ used_blocks \in Int
  BY DEF IInv, TypeOK, Frames
<1>4. KernelBlocks \cap Blocks \subseteq bitmap'
  BY <1>1
<1> HIDE DEF new
<1>5. /\ Cardinality(bitmap \cup new) = Cardinality(bitmap) + Cardinality(new)
      /\ Cardinality(new) \in Nat
  <2>1. IsFiniteSet(bitmap) /\ IsFiniteSet(new)
        /\ Cardinality(new) \in Nat /\ Cardinality(bitmap) \in Nat
    BY <1>2, <1>3, BitmapFinite
  <2>2. bitmap \cap new = {} /\ Cardinality(bitmap \cap new) = 0
    BY <1>2, FS_EmptySet
  <2>3. Cardinality(bitmap \cup new) =
          Cardinality(bitmap) + Cardinality(new) - Cardinality(bitmap \cap new)
    BY <2>1, FS_Union
  <2>4. QED
    BY <2>1, <2>2, <2>3
<1>6. BitmapIntact /\ BitmapIntact'
  BY DEF IInv, PhaseInv, BitmapIntact, ghostVars
<1>7. Blocks' = Blocks /\ KernelBlocks' = KernelBlocks
  BY <1>1 DEF Blocks, KernelBlocks, kernel_end
<1>8. TypeOK'
  <2>1. used_blocks' \in Int
    BY <1>1, <1>3, <1>5
  <2>2. bitmap' \in SUBSET Blocks'
    BY <1>1, <1>2, <1>3, <1>7
  <2>3. QED
    BY <1>1, <2>1, <2>2 DEF IInv, TypeOK, Phases, ghostVars
<1>9. PhaseInv'
  BY <1>1 DEF IInv, PhaseInv, ghostVars
<1>10. CountMatchesBitmap'
  BY <1>1, <1>5, <1>6 DEF IInv, CountMatchesBitmap
<1>11. ProtectedInv'
  BY <1>1, <1>4, <1>6, <1>7 DEF IInv, ProtectedInv
<1>12. HoldersInv' /\ ImageInv'
  BY DEF IInv, PhaseInv, HoldersInv, ImageInv, ghostVars
<1>13. HeapInv'
  BY DEF IInv, HeapInv, kernel_end
<1>14. QED
  BY <1>8, <1>9, <1>10, <1>11, <1>12, <1>13 DEF IInv

LEMMA InitializeHeapStep ==
  ASSUME IInv, InitializeHeap
  PROVE  IInv'
<1> USE DEF InitializeHeap
<1> DEFINE start == kernel_end + (machine.mem_size \div 32) \div 8 + BLOCK_SIZE
<1>1. start \in Nat /\ start + HEAP_SIZE \in Nat
  <2>1. kernel_end \in Nat /\ machine.mem_size \in Nat
    BY MachineTypes DEF IInv, TypeOK
  <2>2. BLOCK_SIZE \in Nat /\ HEAP_SIZE \in Nat
    BY BootAssumption, PMMAssumption
  <2>3. QED
    BY <2>1, <2>2
<1>2. heap' = <<start, start + HEAP_SIZE>>
  OBVIOUS
<1>3. TypeOK'
  BY <1>1, <1>2 DEF IInv, TypeOK, Phases, Blocks, ghostVars, pmmVars
<1>4. HeapInv'
  BY <1>2 DEF HeapInv, kernel_end
<1>5. PhaseInv' /\ ProtectedInv'
  BY DEF IInv, PhaseInv, ProtectedInv, BitmapIntact, BitmapBlocks, BitmapEnd,
         KernelBlocks, Blocks, BlocksOf, kernel_end, ghostVars, pmmVars
<1>6. CountMatchesBitmap' /\ HoldersInv' /\ ImageInv'
  BY DEF IInv, PhaseInv, CountMatchesBitmap, HoldersInv, ImageInv,
         BitmapIntact, ghostVars, pmmVars
<1>7. QED
  BY <1>3, <1>4, <1>5, <1>6 DEF IInv

-----------------------------------------------------------------------------
(* Granting the first free block preserves the invariant, whoever asks.    *)
LEMMA HandOutStep ==
  ASSUME IInv, NEW b \in Frames, FirstFree(b), HandOut(b),
         phase \in {"paging", "running"}, phase' \in {"paging", "running"},
         UNCHANGED <<machine, heap>>, paging' \in Seq(Frames)
  PROVE  IInv'
<1> USE DEF HandOut
<1>1. /\ max_blocks \in Nat /\ bitmap \in SUBSET Blocks
      /\ used_blocks \in Int /\ holders \in [Frames -> Nat]
      /\ machine \in Machines /\ granted \in SUBSET Frames
  BY DEF IInv, TypeOK, Frames
<1>2. b \in Blocks /\ b \notin bitmap
  BY <1>1, ScannedInBlocks DEF FirstFree, FreeBlocks
<1>3. /\ Blocks' = Blocks /\ KernelBlocks' = KernelBlocks
      /\ BitmapBlocks' = BitmapBlocks
  BY DEF Blocks, KernelBlocks, BitmapBlocks, BitmapEnd, BlocksOf, kernel_end
<1>4. BitmapIntact' => BitmapIntact /\ bitmap' = bitmap \cup {b}
  <2>1. SUFFICES ASSUME BitmapIntact' PROVE BitmapIntact /\ BitsIn(b) = {}
    OBVIOUS
  <2>2. b \notin BitmapBlocks /\ BitmapIntact
    BY <1>3, <2>1 DEF BitmapIntact
  <2>3. kernel_end \in Nat
    BY <1>1, MachineTypes
  <2>4. QED
    BY <1>1, <2>2, <2>3, NoBitsOutside
<1>5. Cardinality(bitmap \cup {b}) = Cardinality(bitmap) + 1
  BY <1>1, <1>2, BitmapFinite, FS_AddElement
<1>6. TypeOK'
  <2>1. bitmap' \in SUBSET Blocks'
    BY <1>1, <1>2, <1>3
  <2>2. used_blocks' \in Int /\ holders' \in [Frames -> Nat]
        /\ granted' \in SUBSET Frames
    BY <1>1
  <2>3. QED
    BY <2>1, <2>2 DEF IInv, TypeOK, Phases
<1>7. PhaseInv'
  BY DEF IInv, PhaseInv
<1>8. CountMatchesBitmap'
  BY <1>4, <1>5 DEF IInv, CountMatchesBitmap
<1>9. ProtectedInv'
  BY <1>3, <1>4 DEF IInv, ProtectedInv
<1>10. HoldersInv'
  <2>1. SUFFICES ASSUME BitmapIntact', NEW c \in Frames
                 PROVE  /\ holders'[c] <= 1
                        /\ holders'[c] # 0 => c \in bitmap' /\ c \in granted'
    BY DEF HoldersInv
  <2>2. BitmapIntact /\ bitmap' = bitmap \cup {b}
    BY <1>4, <2>1
  <2>3. holders[b] = 0
    BY <1>1, <1>2, <2>2 DEF IInv, HoldersInv
  <2>4. QED
    BY <1>1, <2>2, <2>3 DEF IInv, HoldersInv
<1>11. ImageInv'
  BY <1>2, <1>3, <1>4 DEF IInv, ImageInv, ProtectedInv
<1>12. HeapInv'
  BY DEF IInv, HeapInv, kernel_end
<1>13. QED
  BY <1>6, <1>7, <1>8, <1>9, <1>10, <1>11, <1>12 DEF IInv

LEMMA InitializePagingStep ==
  ASSUME IInv, InitializePaging
  PROVE  IInv'
<1> USE DEF InitializePaging
<1>1. phase' \in {"paging", "running"} /\ UNCHANGED <<machine, heap>>
  OBVIOUS
<1>2. ASSUME NEW b \in Frames, FirstFree(b), HandOut(b),
             paging' = Append(paging, b)
      PROVE  IInv'
  <2>1. paging' \in Seq(Frames)
    BY <1>2 DEF IInv, TypeOK
  <2>2. QED
    BY <1>1, <1>2, <2>1, HandOutStep
<1>3. ASSUME paging' = Append(paging, 0), UNCHANGED <<pmmVars, ghostVars>>
      PROVE  IInv'
  <2> USE <1>3 DEF pmmVars, ghostVars
  <2>1. 0 \in Frames
    BY BootAssumption, PMMAssumption, DivBounds DEF Frames
  <2>2. paging' \in Seq(Frames)
    BY <2>1 DEF IInv, TypeOK
  <2>3. TypeOK'
    BY <1>1, <2>2 DEF IInv, TypeOK, Phases, Blocks
  <2>4. PhaseInv' /\ ProtectedInv'
    BY <1>1 DEF IInv, PhaseInv, ProtectedInv, BitmapIntact, BitmapBlocks,
                BitmapEnd, KernelBlocks, Blocks, BlocksOf, kernel_end
  <2>5. CountMatchesBitmap' /\ HoldersInv' /\ ImageInv' /\ HeapInv'
    BY <1>1 DEF IInv, CountMatchesBitmap, HoldersInv, ImageInv,
                HeapInv, BitmapIntact, BitmapBlocks, BitmapEnd, KernelBlocks,
                BlocksOf, kernel_end
  <2>6. QED
    BY <2>3, <2>4, <2>5 DEF IInv
<1>4. QED
  BY <1>2, <1>3

LEMMA AllocateStep ==
  ASSUME IInv, NEW b \in Frames, Allocate(b)
  PROVE  IInv'
<1>1. paging' \in Seq(Frames)
  BY DEF Allocate, IInv, TypeOK
<1>2. QED
  BY <1>1, HandOutStep DEF Allocate

LEMMA FreeStep ==
  ASSUME IInv, NEW b \in Frames, Free(b)
  PROVE  IInv'
<1> USE DEF Free
<1> DEFINE freed == ({b} \cap Blocks \cap bitmap) \ {0}
<1>1. /\ bitmap' = bitmap \ freed
      /\ used_blocks' = used_blocks - Cardinality(freed)
      /\ max_blocks' = max_blocks
  BY DEF FreeBlocksOf
<1>2. freed \subseteq bitmap /\ freed \subseteq {b} /\ 0 \notin freed
  OBVIOUS
<1> HIDE DEF freed
<1>3. /\ max_blocks \in Nat /\ bitmap \in SUBSET Blocks
      /\ used_blocks \in Int /\ holders \in [Frames -> Nat]
  BY DEF IInv, TypeOK, Frames
<1>4. /\ Cardinality(bitmap \ freed) = Cardinality(bitmap) - Cardinality(freed)
      /\ Cardinality(freed) \in Nat
  <2>1. IsFiniteSet(bitmap)
    BY <1>3, BitmapFinite
  <2>2. IsFiniteSet(freed)
    BY <2>1, <1>2, FS_Subset
  <2>3. bitmap \cap freed = freed
    BY <1>2
  <2>4. QED
    BY <2>1, <2>2, <2>3, FS_Difference, FS_CardinalityType
<1>5. /\ Blocks' = Blocks /\ KernelBlocks' = KernelBlocks
      /\ BitmapIntact' = BitmapIntact
  BY <1>1 DEF Blocks, KernelBlocks, BitmapIntact, BitmapBlocks, BitmapEnd,
              BlocksOf, kernel_end
<1>6. TypeOK'
  <2>1. used_blocks' \in Int /\ bitmap' \in SUBSET Blocks'
    <3>1. used_blocks' \in Int
      BY <1>1, <1>3, <1>4
    <3>2. bitmap' \in SUBSET Blocks'
      BY <1>1, <1>3, <1>5
    <3>3. QED
      BY <3>1, <3>2
  <2>2. holders' \in [Frames -> Nat]
    BY <1>3
  <2>3. QED
    BY <1>1, <2>1, <2>2 DEF IInv, TypeOK, Phases
<1>7. PhaseInv'
  BY <1>1 DEF IInv, PhaseInv
<1>8. CountMatchesBitmap'
  BY <1>1, <1>4, <1>5 DEF IInv, CountMatchesBitmap
<1>9. BitmapIntact => b \in granted /\ holders[b] = 1
  BY <1>3 DEF IInv, HoldersInv
<1>10. ProtectedInv'
  <2>1. BitmapIntact => b \notin KernelBlocks
    BY <1>9 DEF IInv, ImageInv
  <2>2. QED
    BY <1>1, <1>2, <1>5, <2>1 DEF IInv, ProtectedInv
<1>11. HoldersInv'
  <2>1. SUFFICES ASSUME BitmapIntact, NEW c \in Frames
                 PROVE  /\ holders'[c] <= 1
                        /\ holders'[c] # 0 => c \in bitmap' /\ c \in granted'
    BY <1>5 DEF HoldersInv
  <2>2. CASE c = b
    BY <1>3, <1>9, <2>1, <2>2
  <2>3. CASE c # b
    BY <1>1, <1>2, <1>3, <2>1, <2>3 DEF IInv, HoldersInv
  <2>4. QED
    BY <2>2, <2>3
<1>12. ImageInv' /\ HeapInv'
  BY <1>5 DEF IInv, ImageInv, HeapInv, kernel_end
<1>13. QED
  BY <1>6, <1>7, <1>8, <1>10, <1>11, <1>12 DEF IInv

LEMMA StutterStep ==
  ASSUME IInv, UNCHANGED vars
  PROVE  IInv'
<1> USE DEF vars, pmmVars
<1>1. TypeOK'
  BY DEF IInv, TypeOK, Phases, Blocks
<1>2. PhaseInv' /\ ProtectedInv'
  BY DEF IInv, PhaseInv, ProtectedInv, BitmapIntact, BitmapBlocks,
         BitmapEnd, KernelBlocks, Blocks, BlocksOf, kernel_end
<1>3. CountMatchesBitmap' /\ HoldersInv' /\ ImageInv' /\ HeapInv'
  BY DEF IInv, CountMatchesBitmap, HoldersInv, ImageInv, HeapInv,
         BitmapIntact, BitmapBlocks, BitmapEnd, KernelBlocks, BlocksOf,
         kernel_end
<1>4. QED
  BY <1>1, <1>2, <1>3 DEF IInv

-----------------------------------------------------------------------------
(* IInv is an inductive invariant of the boot and of the grants after it.  *)
LEMMA IInvHolds == Spec => []IInv
<1>1. IInv /\ [Next]_vars => IInv'
  BY InitializeBitmapStep, LoadMemoryMapStep, LockKernelStep,
     InitializeHeapStep, InitializePagingStep, AllocateStep, FreeStep,
     StutterStep DEF Next
<1>2. QED
  BY InitHolds, <1>1, PTL DEF Spec

(* What a machine keeps by the place of its bitmap.  OwnersInv: a frame    *)
(* with a holder was granted.  MapInv: when the bitmap is locked, only     *)
(* frames of the memory map are granted, and none that holds a part of     *)
(* the bitmap.  LockInv: when the bits of the image are stored in the      *)
(* image, they stay set.                                                   *)
OwnersInv == \A b \in Frames : holders[b] # 0 => b \in granted

MapInv ==
  BitmapLocked =>
    /\ BitmapIntact
    /\ granted \subseteq MapBlocks
    /\ phase \in {"heap", "paging", "running"} => Blocks \ MapBlocks \subseteq bitmap
    /\ phase = "lock" => Blocks \ MapBlocks \subseteq bitmap
    /\ phase = "map" => Blocks \subseteq bitmap

LockInv ==
  ImageBitsLocked =>
    /\ granted \cap ImageBlocks = {}
    /\ phase # "pmm" => 0 \in bitmap
    /\ phase \in {"heap", "paging", "running"} =>
         KernelBlocks \cap Blocks \subseteq bitmap

MachineInv == OwnersInv /\ MapInv /\ LockInv

LEMMA MachineInit == Init => MachineInv
  BY DEF Init, PMMInit, MachineInv, OwnersInv, MapInv, LockInv, BitmapIntact

(* Granting a free frame keeps what the machine ensures.                   *)
LEMMA HandOutKeeps ==
  ASSUME IInv, MachineInv, NEW b \in Frames, FirstFree(b), HandOut(b),
         phase \in {"paging", "running"}, phase' \in {"paging", "running"},
         UNCHANGED <<machine, heap>>
  PROVE  MachineInv'
<1> USE DEF HandOut
<1>1. /\ max_blocks \in Nat /\ bitmap \in SUBSET Blocks
      /\ holders \in [Frames -> Nat] /\ machine \in Machines
      /\ granted \in SUBSET Frames /\ kernel_end \in Nat
  BY MachineTypes DEF IInv, TypeOK, Frames
<1>2. b \in Blocks /\ b \notin bitmap
  BY <1>1, ScannedInBlocks DEF FirstFree, FreeBlocks
<1>3. /\ Blocks' = Blocks /\ KernelBlocks' = KernelBlocks
      /\ MapBlocks' = MapBlocks /\ BitmapBlocks' = BitmapBlocks
      /\ kernel_end' = kernel_end /\ ImageBlocks' = ImageBlocks
      /\ BitmapLocked' = BitmapLocked /\ ImageBitsLocked' = ImageBitsLocked
  BY DEF Blocks, KernelBlocks, MapBlocks, FreedBy, BitmapBlocks, BitmapEnd,
         BlocksOf, kernel_end, ImageBlocks, BitmapLocked, ImageBitsLocked
<1>4. OwnersInv'
  BY <1>1 DEF MachineInv, OwnersInv
<1>5. MapInv'
  <2> SUFFICES ASSUME BitmapLocked
               PROVE  /\ BitmapIntact' /\ granted' \subseteq MapBlocks
                      /\ Blocks \ MapBlocks \subseteq bitmap'
    BY <1>3 DEF MapInv
  <2>1. /\ BitmapIntact /\ granted \subseteq MapBlocks
        /\ Blocks \ MapBlocks \subseteq bitmap
    BY DEF MachineInv, MapInv
  <2>2. b \in MapBlocks
    BY <1>2, <2>1
  <2>3. b \notin KernelBlocks
    BY <1>2, <2>1 DEF IInv, ProtectedInv
  <2>4. b \notin BitmapBlocks
    BY <2>2, <2>3 DEF BitmapLocked
  <2>5. BitsIn(b) = {}
    BY <1>1, <2>4, NoBitsOutside
  <2>6. BitmapIntact'
    BY <1>3, <2>1, <2>4 DEF BitmapIntact
  <2>7. QED
    BY <2>1, <2>2, <2>5, <2>6
<1>6. LockInv'
  <2> SUFFICES ASSUME ImageBitsLocked
               PROVE  /\ granted' \cap ImageBlocks = {}
                      /\ 0 \in bitmap' /\ KernelBlocks \cap Blocks \subseteq bitmap'
    BY <1>3 DEF LockInv
  <2>1. /\ granted \cap ImageBlocks = {}
        /\ 0 \in bitmap /\ KernelBlocks \cap Blocks \subseteq bitmap
    BY DEF MachineInv, LockInv
  <2>2. b \notin ImageBlocks
    BY <1>2, <2>1 DEF ImageBlocks
  <2>3. ImageBlocks \cap BitsIn(b) = {}
    BY <2>2 DEF ImageBitsLocked, BitsIn
  <2>4. QED
    BY <2>1, <2>2, <2>3 DEF ImageBlocks
<1>7. QED
  BY <1>4, <1>5, <1>6 DEF MachineInv

(* Every step keeps what the machine ensures.                              *)
LEMMA MachineStep ==
  ASSUME IInv, MachineInv, [Next]_vars
  PROVE  MachineInv'
<1> USE DEF MachineInv
<1>1. CASE InitializeBitmap
  <2> USE <1>1 DEF InitializeBitmap, InitializePMM, ghostVars
  <2>1. granted' = {} /\ holders' = [b \in Frames |-> 0] /\ phase' = "map"
    BY DEF IInv, PhaseInv
  <2>2. max_blocks' \in Nat /\ max_blocks' # 0
    BY MachineTypes DEF IInv, TypeOK, Frames
  <2>3. bitmap' = Blocks' /\ 0 \in bitmap'
    BY <2>2 DEF Blocks
  <2>4. QED
    BY <2>1, <2>3 DEF OwnersInv, MapInv, LockInv, BitmapIntact
<1>2. CASE LoadMemoryMap
  <2> USE <1>2 DEF LoadMemoryMap, FreeBlocksOf, ghostVars
  <2>1. /\ granted = {} /\ holders = [b \in Frames |-> 0]
        /\ granted' = {} /\ holders' = holders /\ phase' = "lock"
    BY DEF IInv, PhaseInv
  <2>2. Blocks' = Blocks /\ MapBlocks' = MapBlocks
        /\ BitmapLocked' = BitmapLocked /\ ImageBitsLocked' = ImageBitsLocked
    BY DEF Blocks, MapBlocks, FreedBy, BitmapLocked, BitmapBlocks, BitmapEnd,
           BlocksOf, kernel_end, KernelBlocks, ImageBitsLocked, ImageBlocks
  <2>3. bitmap' = bitmap \ ((MapBlocks \cap Blocks \cap bitmap) \ {0})
    OBVIOUS
  <2>4. MapInv'
    BY <2>1, <2>2, <2>3 DEF MapInv, BitmapIntact
  <2>5. LockInv'
    BY <2>1, <2>2, <2>3 DEF LockInv
  <2>6. OwnersInv'
    BY <2>1 DEF OwnersInv
  <2>7. QED
    BY <2>4, <2>5, <2>6
<1>3. CASE LockKernel
  <2> USE <1>3 DEF LockKernel, SetBlocks, ghostVars
  <2>1. /\ granted = {} /\ holders = [b \in Frames |-> 0]
        /\ granted' = {} /\ holders' = holders /\ phase' = "heap"
    BY DEF IInv, PhaseInv
  <2>2. Blocks' = Blocks /\ MapBlocks' = MapBlocks /\ KernelBlocks' = KernelBlocks
        /\ BitmapLocked' = BitmapLocked /\ ImageBitsLocked' = ImageBitsLocked
    BY DEF Blocks, MapBlocks, FreedBy, BitmapLocked, BitmapBlocks, BitmapEnd,
           BlocksOf, kernel_end, KernelBlocks, ImageBitsLocked, ImageBlocks
  <2>3. bitmap' = bitmap \cup ((KernelBlocks \cap Blocks) \ bitmap)
    OBVIOUS
  <2>4. MapInv'
    BY <2>1, <2>2, <2>3 DEF MapInv, BitmapIntact
  <2>5. LockInv'
    BY <2>1, <2>2, <2>3 DEF LockInv
  <2>6. OwnersInv'
    BY <2>1 DEF OwnersInv
  <2>7. QED
    BY <2>4, <2>5, <2>6
<1>4. CASE InitializeHeap
  <2> USE <1>4 DEF InitializeHeap, pmmVars, ghostVars
  <2>1. Blocks' = Blocks /\ MapBlocks' = MapBlocks /\ KernelBlocks' = KernelBlocks
        /\ ImageBlocks' = ImageBlocks /\ BitmapBlocks' = BitmapBlocks
        /\ BitmapLocked' = BitmapLocked /\ ImageBitsLocked' = ImageBitsLocked
    BY DEF Blocks, MapBlocks, FreedBy, BitmapLocked, BitmapBlocks, BitmapEnd,
           BlocksOf, kernel_end, KernelBlocks, ImageBitsLocked, ImageBlocks
  <2>2. QED
    BY <2>1 DEF OwnersInv, MapInv, LockInv, BitmapIntact
<1>5. CASE InitializePaging
  <2>1. phase = "paging" /\ phase' \in {"paging", "running"}
        /\ UNCHANGED <<machine, heap>>
    BY <1>5 DEF InitializePaging
  <2>2. ASSUME NEW b \in Frames, FirstFree(b), HandOut(b)
        PROVE  MachineInv'
    BY <2>1, <2>2, HandOutKeeps
  <2>3. ASSUME UNCHANGED <<pmmVars, ghostVars>>
        PROVE  MachineInv'
    <3> USE <2>1, <2>3 DEF pmmVars, ghostVars
    <3>1. Blocks' = Blocks /\ MapBlocks' = MapBlocks /\ KernelBlocks' = KernelBlocks
          /\ ImageBlocks' = ImageBlocks /\ BitmapBlocks' = BitmapBlocks
          /\ BitmapLocked' = BitmapLocked /\ ImageBitsLocked' = ImageBitsLocked
      BY DEF Blocks, MapBlocks, FreedBy, BitmapLocked, BitmapBlocks, BitmapEnd,
             BlocksOf, kernel_end, KernelBlocks, ImageBitsLocked, ImageBlocks
    <3>2. QED
      BY <3>1 DEF OwnersInv, MapInv, LockInv, BitmapIntact
  <2>4. QED
    BY <1>5, <2>2, <2>3 DEF InitializePaging
<1>6. ASSUME NEW b \in Frames, Allocate(b)
      PROVE  MachineInv'
  BY <1>6, HandOutKeeps DEF Allocate
<1>7. ASSUME NEW b \in Frames, Free(b)
      PROVE  MachineInv'
  <2> USE <1>7 DEF Free, FreeBlocksOf
  <2>1. /\ bitmap' = bitmap \ (({b} \cap Blocks \cap bitmap) \ {0})
        /\ max_blocks' = max_blocks /\ phase = "running"
        /\ holders \in [Frames -> Nat] /\ holders[b] # 0
    BY DEF IInv, TypeOK
  <2>2. Blocks' = Blocks /\ MapBlocks' = MapBlocks /\ KernelBlocks' = KernelBlocks
        /\ ImageBlocks' = ImageBlocks /\ BitmapBlocks' = BitmapBlocks
        /\ BitmapLocked' = BitmapLocked /\ ImageBitsLocked' = ImageBitsLocked
    BY <2>1 DEF Blocks, MapBlocks, FreedBy, BitmapLocked, BitmapBlocks, BitmapEnd,
           BlocksOf, kernel_end, KernelBlocks, ImageBitsLocked, ImageBlocks
  <2>3. b \in granted
    BY <2>1 DEF OwnersInv
  <2>4. OwnersInv'
    BY <2>1 DEF OwnersInv
  <2>5. MapInv'
    BY <2>1, <2>2, <2>3 DEF MapInv, BitmapIntact
  <2>6. LockInv'
    BY <2>1, <2>2, <2>3 DEF LockInv, ImageBlocks
  <2>7. QED
    BY <2>4, <2>5, <2>6
<1>8. CASE UNCHANGED vars
  <2> USE <1>8 DEF vars, pmmVars
  <2>1. Blocks' = Blocks /\ MapBlocks' = MapBlocks /\ KernelBlocks' = KernelBlocks
        /\ ImageBlocks' = ImageBlocks /\ BitmapBlocks' = BitmapBlocks
        /\ BitmapLocked' = BitmapLocked /\ ImageBitsLocked' = ImageBitsLocked
    BY DEF Blocks, MapBlocks, FreedBy, BitmapLocked, BitmapBlocks, BitmapEnd,
           BlocksOf, kernel_end, KernelBlocks, ImageBitsLocked, ImageBlocks
  <2>2. QED
    BY <2>1 DEF OwnersInv, MapInv, LockInv, BitmapIntact
<1>9. QED
  BY <1>1, <1>2, <1>3, <1>4, <1>5, <1>6, <1>7, <1>8 DEF Next

LEMMA MachineInvHolds == Spec => [](IInv /\ MachineInv)
<1>1. IInv /\ MachineInv /\ [Next]_vars => MachineInv'
  BY MachineStep
<1>2. QED
  BY IInvHolds, MachineInit, <1>1, PTL DEF Spec

(* Every state of the boot and of the run after it is well typed.          *)
THEOREM BootTypeOK == Spec => []TypeOK
<1>1. IInv => TypeOK
  BY DEF IInv
<1>2. QED
  BY IInvHolds, <1>1, PTL

(* The number pmm.cpp keeps in used_blocks is the number of set bits.      *)
THEOREM UsedBlocksIsCount == Spec => []CountMatchesBitmap
<1>1. IInv => CountMatchesBitmap
  BY DEF IInv
<1>2. QED
  BY IInvHolds, <1>1, PTL

(* allocate_block never grants a frame that someone still holds, as long   *)
(* as no frame with a part of the bitmap was granted; and on a machine     *)
(* whose bitmap lies in locked or unmapped blocks none ever is, so that    *)
(* there a frame has one holder without a condition on what happened.      *)
THEOREM FramesGrantedOnce ==
  Spec => [](/\ NoDoubleGrant
             /\ BitmapLocked => \A b \in Frames : holders[b] <= 1)
<1>1. IInv /\ MachineInv =>
        /\ NoDoubleGrant
        /\ BitmapLocked => \A b \in Frames : holders[b] <= 1
  BY DEF IInv, HoldersInv, NoDoubleGrant, MachineInv, MapInv
<1>2. QED
  BY MachineInvHolds, <1>1, PTL

(* On a machine that stores the bits of the image and of block 0 in blocks *)
(* of the image, these blocks are never granted, whatever happens to the   *)
(* rest of the bitmap.                                                     *)
THEOREM KernelImageSafe == Spec => []ImageNeverGranted
<1>1. MachineInv => ImageNeverGranted
  BY DEF MachineInv, LockInv, ImageNeverGranted
<1>2. QED
  BY MachineInvHolds, <1>1, PTL

(* The heap starts past the bitmap whatever the size of the memory.        *)
THEOREM HeapAfterBitmap == Spec => []HeapClearOfBitmap
<1>1. IInv => HeapClearOfBitmap
  <2> SUFFICES ASSUME IInv, heap[1] # 0 PROVE BitmapEnd <= heap[1]
    BY DEF HeapClearOfBitmap
  <2> DEFINE mem == machine.mem_size
             h == (mem \div 32) \div 8
             q == (max_blocks + 7) \div 8
  <2>1. /\ max_blocks = mem \div BLOCK_SIZE
        /\ heap[1] = kernel_end + h + BLOCK_SIZE
    BY DEF IInv, HeapInv, PhaseInv
  <2>2. kernel_end \in Nat /\ mem \in Nat
    BY MachineTypes DEF IInv, TypeOK
  <2>3. BLOCK_SIZE \in Nat /\ BLOCK_SIZE >= 32
    BY BootAssumption, PMMAssumption
  <2>4. max_blocks \in Nat /\ BLOCK_SIZE * max_blocks <= mem
    <3> HIDE DEF mem
    <3>1. BLOCK_SIZE \in Nat \ {0}
      BY PMMAssumption
    <3>2. /\ mem \div BLOCK_SIZE \in Nat
          /\ BLOCK_SIZE * (mem \div BLOCK_SIZE) <= mem
      BY <2>2, <3>1, DivBounds
    <3>3. QED
      BY <2>1, <3>2
  <2>5. BitmapEnd = kernel_end + q
    BY DEF BitmapEnd
  <2>6. h \in Nat /\ mem <= 256 * h + 255
    BY <2>2
  <2>7. q \in Nat /\ 8 * q <= max_blocks + 7
    BY <2>4
  <2> HIDE DEF mem, h, q
  <2>8. 32 * max_blocks <= mem
    <3>1. 32 * max_blocks <= BLOCK_SIZE * max_blocks
      BY <2>3, <2>4
    <3>2. BLOCK_SIZE * max_blocks \in Nat
      BY <2>3, <2>4
    <3>3. QED
      BY <2>2, <2>4, <3>1, <3>2
  <2>9. q <= h + 1
    BY <2>2, <2>4, <2>6, <2>7, <2>8
  <2>10. QED
    BY <2>1, <2>2, <2>3, <2>5, <2>6, <2>7, <2>9
<1>2. QED
  BY IInvHolds, <1>1, PTL

-----------------------------------------------------------------------------
(***************************************************************************)
(* The kernel heap.                                                        *)
(***************************************************************************)

LEMMA AlignUp ==
  ASSUME NEW a \in Nat
  PROVE  /\ Aligned(a) \in Nat
         /\ Aligned(a) % ALIGN = 0
         /\ a <= Aligned(a) /\ Aligned(a) < a + ALIGN
<1>1. ALIGN \in Nat \ {0}
  BY HeapAssumption
<1>2. CASE a % ALIGN = 0
  BY <1>1, <1>2 DEF Aligned
<1>3. CASE a % ALIGN # 0
  <2> DEFINE q == a \div ALIGN
             r == a % ALIGN
  <2>1. q \in Nat /\ r \in Nat /\ r < ALIGN /\ a = ALIGN * q + r
    BY <1>1
  <2>2. Aligned(a) = a + (ALIGN - r)
    BY <1>3 DEF Aligned
  <2> HIDE DEF q, r
  <2>3. Aligned(a) = ALIGN * (q + 1)
    BY <1>1, <2>1, <2>2
  <2>4. (ALIGN * (q + 1)) % ALIGN = 0
    BY <1>1, <2>1
  <2>5. r # 0
    BY <1>3 DEF r
  <2>6. QED
    BY <1>1, <2>1, <2>2, <2>3, <2>4, <2>5
<1>4. QED
  BY <1>2, <1>3

(* The values current_addr and the registers can have.                     *)
Reach(a) ==
  /\ a \in Nat /\ START <= a
  /\ a <= END \/ (a % ALIGN = 0 /\ a <= END + ALIGN)

LEMMA ReachAligned ==
  ASSUME NEW a, Reach(a)
  PROVE  /\ Reach(Aligned(a)) /\ Aligned(a) % ALIGN = 0
         /\ a <= Aligned(a)
         /\ a \in Addresses
<1>1. ALIGN \in Nat \ {0} /\ START \in Nat /\ END \in Nat
      /\ REGISTER_SPACE \in Nat /\ END + ALIGN < REGISTER_SPACE
  BY HeapAssumption
<1>2. /\ a \in Nat /\ START <= a /\ Aligned(a) \in Nat
      /\ Aligned(a) % ALIGN = 0 /\ a <= Aligned(a) /\ Aligned(a) < a + ALIGN
  BY AlignUp DEF Reach
<1>3. a \in Addresses
  BY <1>1, <1>2 DEF Reach, Addresses
<1>4. CASE a <= END
  BY <1>1, <1>2, <1>3, <1>4 DEF Reach
<1>5. CASE a % ALIGN = 0
  <2>1. Aligned(a) = a
    BY <1>5 DEF Aligned
  <2>2. QED
    BY <1>2, <1>3, <2>1
<1>6. QED
  BY <1>4, <1>5 DEF Reach

(* Within reach, the sum of the check does not wrap round.                 *)
LEMMA NoWrap ==
  ASSUME NEW a, Reach(a), NEW s \in Sizes
  PROVE  /\ (a + s) % REGISTER_SPACE = a + s
         /\ Fits(a, s) => Reach(a + s) /\ a + s <= END
         /\ s \in Nat
<1>1. ALIGN \in Nat \ {0} /\ START \in Nat /\ END \in Nat
      /\ REGISTER_SPACE \in Nat /\ END + ALIGN + s < REGISTER_SPACE
      /\ s \in Nat \ {0}
  BY HeapAssumption
<1>2. a \in Nat /\ START <= a /\ a <= END + ALIGN
  BY <1>1 DEF Reach
<1>3. a + s \in 0 .. REGISTER_SPACE - 1
  BY <1>1, <1>2
<1>4. (a + s) % REGISTER_SPACE = a + s
  BY <1>1, <1>3
<1>5. Fits(a, s) => a + s <= END
  BY <1>4 DEF Fits
<1>6. QED
  BY <1>1, <1>2, <1>4, <1>5 DEF Reach

(* Registers hold aligned addresses within reach.                          *)
RegisterInv ==
  /\ Reach(current_addr)
  /\ \A t \in Tasks :
       /\ call[t].at # "idle" => call[t].size \in Sizes
       /\ InMalloc(t) => Reach(call[t].addr) /\ call[t].addr % ALIGN = 0

(* Without a race the blocks end below current_addr, and so does whatever  *)
(* one process has in its register.                                        *)
SerialInv ==
  ~raced =>
    /\ GrantsDisjoint
    /\ \A i \in 1 .. Len(grants) : grants[i].ptr + grants[i].size <= current_addr
    /\ \A t \in Tasks : InMalloc(t) => current_addr <= call[t].addr
    /\ \A t, u \in Tasks : InMalloc(t) /\ InMalloc(u) => t = u

HeapInvariant ==
  /\ HeapTypeOK
  /\ RegisterInv
  /\ InHeap
  /\ SerialInv

LEMMA HeapInvariantInit == HeapInit => HeapInvariant
<1> SUFFICES ASSUME HeapInit PROVE HeapInvariant
  OBVIOUS
<1> USE HeapAssumption DEF HeapInit
<1>1. HeapTypeOK
  <2>1. START \in Addresses /\ 0 \in Addresses
    BY DEF Addresses
  <2>2. Idle \in Calls
    BY <2>1 DEF Idle, Calls, Points
  <2>3. <<>> \in Seq([ptr : Addresses, size : Sizes])
    OBVIOUS
  <2>4. QED
    BY <2>1, <2>2, <2>3 DEF HeapTypeOK
<1>2. RegisterInv
  BY DEF RegisterInv, Reach, InMalloc, Idle
<1>3. InHeap /\ SerialInv
  BY DEF InHeap, SerialInv, GrantsDisjoint, InMalloc, Idle
<1>4. QED
  BY <1>1, <1>2, <1>3 DEF HeapInvariant

(* A step that grants nothing and only moves current_addr and one process. *)
LEMMA NoGrant ==
  ASSUME HeapInvariant, UNCHANGED grants
  PROVE  InHeap' /\ (GrantsDisjoint' <=> GrantsDisjoint)
  BY DEF HeapInvariant, InHeap, GrantsDisjoint

LEMMA ElementOfSeq ==
  ASSUME NEW S, NEW q \in Seq(S), NEW i \in 1 .. Len(q)
  PROVE  q[i] \in S
OBVIOUS

LEMMA GrantTypes ==
  ASSUME grants \in Seq([ptr : Addresses, size : Sizes]),
         NEW i \in 1 .. Len(grants)
  PROVE  grants[i].ptr \in Nat /\ grants[i].size \in Nat
<1> DEFINE S == [ptr : Addresses, size : Sizes]
<1>1. grants[i] \in S
  <2>1. grants \in Seq(S)
    OBVIOUS
  <2> HIDE DEF S
  <2>2. QED
    BY <2>1, ElementOfSeq
<1>2. grants[i].ptr \in Addresses /\ grants[i].size \in Sizes
  BY <1>1
<1>3. Addresses \subseteq Nat /\ Sizes \subseteq Nat
  BY HeapAssumption DEF Addresses
<1>4. QED
  BY <1>2, <1>3

LEMMA BeginStep ==
  ASSUME HeapInvariant, NEW t \in Tasks, NEW s \in Sizes, Begin(t, s)
  PROVE  HeapInvariant'
<1> DEFINE c == Started(s)
<1>1. /\ call' = [call EXCEPT ![t] = c]
      /\ UNCHANGED <<current_addr, grants, killed, halted, refused, raced>>
  BY DEF Begin
<1>2. 0 \in Addresses
  BY HeapAssumption DEF Addresses
<1>3. c \in Calls /\ c.at = "load" /\ c.size = s
  BY <1>2 DEF Calls, Points, Started
<1> HIDE DEF c
<1>4. /\ call' \in [Tasks -> Calls] /\ call'[t] = c
      /\ \A u \in Tasks : u # t => call'[u] = call[u]
  BY <1>1, <1>3 DEF HeapInvariant, HeapTypeOK
<1>5. HeapTypeOK'
  BY <1>1, <1>4 DEF HeapInvariant, HeapTypeOK
<1>6. RegisterInv'
  BY <1>1, <1>3, <1>4 DEF HeapInvariant, RegisterInv, InMalloc
<1>7. SerialInv'
  BY <1>1, <1>3, <1>4, NoGrant DEF HeapInvariant, SerialInv, InMalloc
<1>8. QED
  BY <1>1, <1>5, <1>6, <1>7, NoGrant DEF HeapInvariant

LEMMA LoadStep ==
  ASSUME HeapInvariant, NEW t \in Tasks, Load(t)
  PROVE  HeapInvariant'
<1> DEFINE a == Aligned(current_addr)
<1>1. /\ call' = [call EXCEPT ![t].addr = a,
                 ![t].at = IF current_addr % ALIGN = 0 THEN "check" ELSE "align"]
      /\ raced' = (raced \/ Busy)
      /\ call[t].at = "load"
      /\ UNCHANGED <<current_addr, grants, killed, halted, refused>>
  BY DEF Load
<1>2. Reach(a) /\ a % ALIGN = 0 /\ current_addr <= a /\ a \in Addresses
  BY ReachAligned DEF HeapInvariant, RegisterInv
<1>3. call \in [Tasks -> Calls] /\ call[t].size \in Sizes
  BY <1>1 DEF HeapInvariant, HeapTypeOK, RegisterInv
<1> HIDE DEF a
<1>4. /\ call'[t].addr = a /\ call'[t].at \in {"check", "align"}
      /\ call'[t].size = call[t].size
      /\ \A u \in Tasks : u # t => call'[u] = call[u]
  BY <1>1, <1>3 DEF Calls
<1>5. call' \in [Tasks -> Calls]
  BY <1>1, <1>2, <1>3 DEF Calls, Points
<1>6. HeapTypeOK'
  BY <1>1, <1>5 DEF HeapInvariant, HeapTypeOK
<1>7. RegisterInv'
  BY <1>1, <1>2, <1>3, <1>4 DEF HeapInvariant, RegisterInv, InMalloc
<1>8. SerialInv'
  BY <1>1, <1>2, <1>4, NoGrant DEF HeapInvariant, SerialInv, InMalloc, Busy
<1>9. QED
  BY <1>1, <1>6, <1>7, <1>8, NoGrant DEF HeapInvariant

LEMMA StoreAlignedStep ==
  ASSUME HeapInvariant, NEW t \in Tasks, StoreAligned(t)
  PROVE  HeapInvariant'
<1>1. /\ call' = [call EXCEPT ![t].at = "check"]
      /\ current_addr' = call[t].addr /\ call[t].at = "align"
      /\ UNCHANGED <<grants, killed, halted, refused, raced>>
  BY DEF StoreAligned
<1>2. /\ Reach(call[t].addr) /\ call[t].addr % ALIGN = 0
      /\ call[t].addr \in Addresses /\ call[t].addr \in Nat
      /\ call[t].size \in Sizes /\ InMalloc(t)
  BY <1>1, ReachAligned DEF HeapInvariant, RegisterInv, InMalloc, Reach
<1>3. call \in [Tasks -> Calls]
  BY DEF HeapInvariant, HeapTypeOK
<1>4. /\ call'[t].addr = call[t].addr /\ call'[t].at = "check"
      /\ call'[t].size = call[t].size
      /\ \A u \in Tasks : u # t => call'[u] = call[u]
  BY <1>1, <1>3 DEF Calls
<1>5. call' \in [Tasks -> Calls]
  BY <1>1, <1>3 DEF Calls, Points
<1>6. HeapTypeOK'
  BY <1>1, <1>2, <1>5 DEF HeapInvariant, HeapTypeOK
<1>7. RegisterInv'
  BY <1>1, <1>2, <1>4 DEF HeapInvariant, RegisterInv, InMalloc
<1>8. SerialInv'
  <2> SUFFICES ASSUME ~raced PROVE SerialInv'
    BY <1>1 DEF SerialInv
  <2>1. current_addr <= call[t].addr
    BY <1>2 DEF HeapInvariant, SerialInv
  <2>2. \A i \in 1 .. Len(grants) : grants[i].ptr + grants[i].size <= call[t].addr
    <3> SUFFICES ASSUME NEW i \in 1 .. Len(grants)
                 PROVE  grants[i].ptr + grants[i].size <= call[t].addr
      OBVIOUS
    <3>1. grants[i].ptr + grants[i].size <= current_addr
      BY DEF HeapInvariant, SerialInv
    <3>2. grants[i].ptr \in Nat /\ grants[i].size \in Nat
      BY GrantTypes DEF HeapInvariant, HeapTypeOK
    <3>3. current_addr \in Nat
      BY DEF HeapInvariant, RegisterInv, Reach
    <3>4. QED
      BY <1>2, <2>1, <3>1, <3>2, <3>3
  <2>3. \A u \in Tasks : InMalloc(u)' <=> InMalloc(u)
    BY <1>2, <1>4 DEF InMalloc
  <2>4. \A u \in Tasks : InMalloc(u)' => u = t
    BY <1>2, <2>3 DEF HeapInvariant, SerialInv
  <2>5. QED
    BY <1>1, <1>2, <1>4, <2>2, <2>3, <2>4, NoGrant DEF HeapInvariant, SerialInv
<1>9. QED
  BY <1>1, <1>6, <1>7, <1>8, NoGrant DEF HeapInvariant

(* A block granted at an aligned address within reach, above all others    *)
(* when nothing raced.                                                     *)
LEMMA GrantStep ==
  ASSUME HeapInvariant, NEW a, Reach(a), a % ALIGN = 0, NEW s \in Sizes,
         Fits(a, s), Grant(a, s), ~raced' => ~raced /\ current_addr <= a
  PROVE  /\ Reach(current_addr') /\ current_addr' \in Addresses
         /\ grants' \in Seq([ptr : Addresses, size : Sizes])
         /\ InHeap'
         /\ ~raced' => /\ GrantsDisjoint'
                       /\ \A i \in 1 .. Len(grants') :
                            grants'[i].ptr + grants'[i].size <= current_addr'
<1> DEFINE g == [ptr |-> a, size |-> s]
           n == Len(grants) + 1
<1>1. current_addr' = a + s /\ Reach(a + s) /\ a + s <= END /\ s \in Nat
  BY NoWrap DEF Grant
<1>2. a \in Nat /\ START <= a /\ a \in Addresses /\ a + s \in Addresses
  BY <1>1, ReachAligned DEF Reach
<1>3. grants \in Seq([ptr : Addresses, size : Sizes])
  BY DEF HeapInvariant, HeapTypeOK
<1>4. g \in [ptr : Addresses, size : Sizes] /\ g.ptr = a /\ g.size = s
  BY <1>2
<1> HIDE DEF g
<1>5. grants' = Append(grants, g)
  BY DEF Grant, g
<1>6. /\ grants' \in Seq([ptr : Addresses, size : Sizes])
      /\ Len(grants') = n /\ n \in Nat /\ grants'[n] = g
      /\ \A i \in 1 .. Len(grants) : grants'[i] = grants[i]
      /\ Len(grants) \in Nat
  BY <1>3, <1>4, <1>5
<1>7. \A i \in 1 .. n : i \in 1 .. Len(grants) \/ i = n
  BY <1>6
<1>8. InHeap'
  BY <1>1, <1>2, <1>4, <1>6, <1>7 DEF HeapInvariant, InHeap
<1>9. ASSUME ~raced'
      PROVE  /\ GrantsDisjoint'
             /\ \A i \in 1 .. Len(grants') :
                  grants'[i].ptr + grants'[i].size <= current_addr'
  <2>1. \A i \in 1 .. Len(grants) :
          /\ grants[i].ptr \in Nat /\ grants[i].size \in Nat
          /\ grants[i].ptr + grants[i].size <= a
    <3> SUFFICES ASSUME NEW i \in 1 .. Len(grants)
                 PROVE  /\ grants[i].ptr \in Nat /\ grants[i].size \in Nat
                        /\ grants[i].ptr + grants[i].size <= a
      OBVIOUS
    <3>1. grants[i].ptr \in Nat /\ grants[i].size \in Nat
      BY <1>3, GrantTypes
    <3>2. grants[i].ptr + grants[i].size <= current_addr
      BY <1>9 DEF HeapInvariant, SerialInv
    <3>3. current_addr \in Nat /\ current_addr <= a
      BY <1>9 DEF HeapInvariant, RegisterInv, Reach
    <3>4. QED
      BY <1>2, <3>1, <3>2, <3>3
  <2>2. ASSUME NEW i \in 1 .. n
        PROVE  grants'[i].ptr + grants'[i].size <= a + s
    <3>1. CASE i = n
      <4>1. grants'[i].ptr = a /\ grants'[i].size = s
        BY <1>4, <1>6, <3>1
      <4>2. QED
        BY <1>1, <1>2, <4>1
    <3>2. CASE i \in 1 .. Len(grants)
      <4>1. grants'[i] = grants[i]
        BY <1>6, <3>2
      <4>2. /\ grants[i].ptr \in Nat /\ grants[i].size \in Nat
            /\ grants[i].ptr + grants[i].size <= a
        BY <2>1, <3>2
      <4>3. QED
        BY <1>1, <1>2, <4>1, <4>2
    <3>3. QED
      BY <1>7, <3>1, <3>2
  <2>3. ASSUME NEW i \in 1 .. n, NEW j \in 1 .. n, i # j
        PROVE  Disjoint(grants'[i], grants'[j])
    <3>1. CASE i = n
      BY <1>4, <1>6, <1>7, <2>1, <2>3, <3>1 DEF Disjoint
    <3>2. CASE j = n
      BY <1>4, <1>6, <1>7, <2>1, <2>3, <3>2 DEF Disjoint
    <3>3. CASE i \in 1 .. Len(grants) /\ j \in 1 .. Len(grants)
      BY <1>6, <1>9, <2>3, <3>3 DEF HeapInvariant, SerialInv, GrantsDisjoint
    <3>4. QED
      BY <1>7, <3>1, <3>2, <3>3
  <2>4. QED
    BY <1>1, <1>6, <2>2, <2>3 DEF GrantsDisjoint
<1>10. QED
  BY <1>1, <1>2, <1>6, <1>8, <1>9

LEMMA TakeStep ==
  ASSUME HeapInvariant, NEW t \in Tasks, Take(t)
  PROVE  HeapInvariant'
<1> DEFINE a == call[t].addr
           s == call[t].size
<1>1. /\ call' = [call EXCEPT ![t] = Idle]
      /\ call[t].at = "check" /\ Fits(a, s) /\ Grant(a, s)
      /\ UNCHANGED <<killed, halted, refused, raced>>
  BY DEF Take
<1>2. InMalloc(t) /\ Reach(a) /\ a % ALIGN = 0 /\ s \in Sizes
  BY <1>1 DEF HeapInvariant, RegisterInv, InMalloc
<1>3. ~raced' => ~raced /\ current_addr <= a
  BY <1>1, <1>2 DEF HeapInvariant, SerialInv
<1> HIDE DEF a, s
<1>4. /\ Reach(current_addr') /\ current_addr' \in Addresses
      /\ grants' \in Seq([ptr : Addresses, size : Sizes])
      /\ InHeap'
      /\ ~raced' => /\ GrantsDisjoint'
                    /\ \A i \in 1 .. Len(grants') :
                         grants'[i].ptr + grants'[i].size <= current_addr'
  BY <1>1, <1>2, <1>3, GrantStep
<1>5. Idle \in Calls /\ Idle.at = "idle"
  BY HeapAssumption DEF Idle, Calls, Points, Addresses
<1>6. /\ call' \in [Tasks -> Calls] /\ call'[t] = Idle
      /\ \A u \in Tasks : u # t => call'[u] = call[u]
  BY <1>1, <1>5 DEF HeapInvariant, HeapTypeOK
<1>7. HeapTypeOK'
  BY <1>1, <1>4, <1>6 DEF HeapInvariant, HeapTypeOK
<1>8. RegisterInv'
  BY <1>4, <1>5, <1>6 DEF HeapInvariant, RegisterInv, InMalloc
<1>9. ~raced' => \A u \in Tasks : ~InMalloc(u)'
  BY <1>1, <1>2, <1>5, <1>6 DEF HeapInvariant, SerialInv, InMalloc
<1>10. SerialInv'
  BY <1>4, <1>9 DEF SerialInv
<1>11. QED
  BY <1>4, <1>7, <1>8, <1>10 DEF HeapInvariant

(* Steps that leave current_addr and the grants alone, and put no process  *)
(* inside malloc.                                                          *)
LEMMA OutsideStep ==
  ASSUME HeapInvariant, UNCHANGED <<current_addr, grants, raced>>,
         call' \in [Tasks -> Calls], killed' \in SUBSET Tasks,
         halted' \in BOOLEAN, refused' \in Sizes \cup {0},
         \A u \in Tasks :
           /\ InMalloc(u)' => call'[u] = call[u]
           /\ call'[u].at # "idle" =>
                call[u].at # "idle" /\ call'[u].size = call[u].size
  PROVE  HeapInvariant'
<1>1. \A u \in Tasks : InMalloc(u)' => InMalloc(u) /\ call'[u] = call[u]
  BY DEF InMalloc
<1>2. HeapTypeOK'
  BY DEF HeapInvariant, HeapTypeOK
<1>3. RegisterInv'
  BY <1>1 DEF HeapInvariant, RegisterInv
<1>4. SerialInv'
  BY <1>1, NoGrant DEF HeapInvariant, SerialInv
<1>5. QED
  BY <1>2, <1>3, <1>4, NoGrant DEF HeapInvariant

LEMMA FailStep ==
  ASSUME HeapInvariant, NEW t \in Tasks, Fail(t)
  PROVE  HeapInvariant'
<1>1. /\ call' = [call EXCEPT ![t].at = "failed"] /\ call[t].at = "check"
      /\ UNCHANGED <<current_addr, grants, killed, halted, refused, raced>>
  BY DEF Fail
<1>2. /\ call \in [Tasks -> Calls] /\ killed \in SUBSET Tasks
      /\ halted \in BOOLEAN /\ refused \in Sizes \cup {0}
  BY DEF HeapInvariant, HeapTypeOK
<1>3. /\ call'[t].at = "failed" /\ call'[t].size = call[t].size
      /\ \A u \in Tasks : u # t => call'[u] = call[u]
  BY <1>1, <1>2 DEF Calls
<1>4. call' \in [Tasks -> Calls]
  BY <1>1, <1>2 DEF Calls, Points
<1>5. QED
  BY <1>1, <1>2, <1>3, <1>4, OutsideStep DEF InMalloc

LEMMA OutOfMemoryStep ==
  ASSUME HeapInvariant, NEW t \in Tasks, OutOfMemory(t)
  PROVE  HeapInvariant'
<1>1. /\ call[t].at = "failed"
      /\ UNCHANGED <<current_addr, grants, raced>>
  BY DEF OutOfMemory
<1>2. /\ call \in [Tasks -> Calls] /\ killed \in SUBSET Tasks
      /\ halted \in BOOLEAN /\ refused \in Sizes \cup {0}
  BY DEF HeapInvariant, HeapTypeOK
<1>3. CASE t # KERNEL /\ ~call[t].retry
  <2>1. /\ call' = [call EXCEPT ![t].at = "load", ![t].retry = TRUE]
        /\ killed' = killed \cup {t} /\ UNCHANGED <<halted, refused>>
    BY <1>3 DEF OutOfMemory
  <2>2. /\ call'[t].at = "load" /\ call'[t].size = call[t].size
        /\ \A u \in Tasks : u # t => call'[u] = call[u]
    BY <1>2, <2>1 DEF Calls
  <2>3. call' \in [Tasks -> Calls]
    BY <1>2, <2>1 DEF Calls, Points
  <2>4. killed' \in SUBSET Tasks
    BY <1>2, <2>1
  <2>5. QED
    BY <1>1, <1>2, <2>1, <2>2, <2>3, <2>4, OutsideStep DEF InMalloc
<1>4. CASE ~(t # KERNEL /\ ~call[t].retry)
  <2>1. halted' = TRUE /\ refused' = call[t].size /\ UNCHANGED <<killed, call>>
    BY <1>4 DEF OutOfMemory
  <2>2. refused' \in Sizes
    BY <1>1, <2>1 DEF HeapInvariant, RegisterInv
  <2>3. QED
    BY <1>1, <1>2, <2>1, <2>2, OutsideStep DEF InMalloc
<1>5. QED
  BY <1>3, <1>4

LEMMA HandlerMallocStep ==
  ASSUME HeapInvariant, NEW t \in Tasks, NEW s \in Sizes, HandlerMalloc(t, s)
  PROVE  HeapInvariant'
<1> DEFINE a == Aligned(current_addr)
<1>1. raced' = (raced \/ Busy) /\ UNCHANGED call
  BY DEF HandlerMalloc
<1>2. Reach(a) /\ a % ALIGN = 0 /\ current_addr <= a /\ a \in Addresses
  BY ReachAligned DEF HeapInvariant, RegisterInv
<1>3. ~raced' => ~raced /\ current_addr <= a
  BY <1>1, <1>2
<1>4. ~raced' => \A u \in Tasks : ~InMalloc(u)'
  BY <1>1 DEF Busy, InMalloc
<1>5. raced' \in BOOLEAN
  BY <1>1 DEF HeapInvariant, HeapTypeOK
<1>6. CASE Fits(a, s)
  <2>1. Grant(a, s) /\ UNCHANGED <<killed, halted, refused>>
    BY <1>6 DEF HandlerMalloc
  <2> HIDE DEF a
  <2>2. /\ Reach(current_addr') /\ current_addr' \in Addresses
        /\ grants' \in Seq([ptr : Addresses, size : Sizes])
        /\ InHeap'
        /\ ~raced' => /\ GrantsDisjoint'
                      /\ \A i \in 1 .. Len(grants') :
                           grants'[i].ptr + grants'[i].size <= current_addr'
    BY <1>2, <1>3, <1>6, <2>1, GrantStep
  <2>3. HeapTypeOK'
    BY <1>1, <1>5, <2>1, <2>2 DEF HeapInvariant, HeapTypeOK
  <2>4. RegisterInv'
    BY <1>1, <2>2 DEF HeapInvariant, RegisterInv, InMalloc
  <2>5. SerialInv'
    BY <1>4, <2>2 DEF SerialInv
  <2>6. QED
    BY <2>2, <2>3, <2>4, <2>5 DEF HeapInvariant
<1>7. CASE ~Fits(a, s)
  <2>1. /\ current_addr' = a /\ halted' = TRUE /\ refused' = s
        /\ killed' = killed \cup ({t} \ {KERNEL})
        /\ UNCHANGED grants
    BY <1>7 DEF HandlerMalloc
  <2> HIDE DEF a
  <2>2. killed' \in SUBSET Tasks
    BY <2>1 DEF HeapInvariant, HeapTypeOK
  <2>3. HeapTypeOK'
    BY <1>1, <1>2, <1>5, <2>1, <2>2 DEF HeapInvariant, HeapTypeOK
  <2>4. RegisterInv'
    BY <1>1, <1>2, <2>1 DEF HeapInvariant, RegisterInv, InMalloc
  <2>5. ASSUME ~raced', NEW i \in 1 .. Len(grants)
        PROVE  grants[i].ptr + grants[i].size <= a
    <3>1. grants[i].ptr + grants[i].size <= current_addr
      BY <1>3, <2>5 DEF HeapInvariant, SerialInv
    <3>2. grants[i].ptr \in Nat /\ grants[i].size \in Nat
      BY GrantTypes DEF HeapInvariant, HeapTypeOK
    <3>3. current_addr \in Nat /\ a \in Nat
      BY <1>2 DEF HeapInvariant, RegisterInv, Reach
    <3>4. QED
      BY <1>2, <3>1, <3>2, <3>3
  <2>6. SerialInv'
    BY <1>3, <1>4, <2>1, <2>5, NoGrant DEF HeapInvariant, SerialInv
  <2>7. QED
    BY <2>1, <2>3, <2>4, <2>6, NoGrant DEF HeapInvariant
<1>8. QED
  BY <1>6, <1>7

LEMMA HeapStutterStep == HeapInvariant /\ UNCHANGED heapVars => HeapInvariant'
  BY DEF HeapInvariant, HeapTypeOK, RegisterInv, InMalloc, InHeap, SerialInv,
         GrantsDisjoint, heapVars

LEMMA HeapInvariantHolds == HeapSpec => []HeapInvariant
<1>1. HeapInvariant /\ [HeapNext]_heapVars => HeapInvariant'
  <2> SUFFICES ASSUME HeapInvariant, [HeapNext]_heapVars PROVE HeapInvariant'
    OBVIOUS
  <2>1. ASSUME NEW t \in Tasks, NEW s \in Sizes, Begin(t, s) PROVE HeapInvariant'
    BY <2>1, BeginStep
  <2>2. ASSUME NEW t \in Tasks, NEW s \in Sizes, HandlerMalloc(t, s) PROVE HeapInvariant'
    BY <2>2, HandlerMallocStep
  <2>3. ASSUME NEW t \in Tasks, Step(t) PROVE HeapInvariant'
    BY <2>3, LoadStep, StoreAlignedStep, TakeStep, FailStep, OutOfMemoryStep
    DEF Step
  <2>4. CASE UNCHANGED heapVars
    BY <2>4, HeapStutterStep
  <2>5. QED
    BY <2>1, <2>2, <2>3, <2>4 DEF HeapNext
<1>2. QED
  BY HeapInvariantInit, <1>1, PTL DEF HeapSpec

(* Type correctness of the allocator's state, whatever is preempted.       *)
THEOREM KHeapTypeOK == HeapSpec => []HeapTypeOK
<1>1. HeapInvariant => HeapTypeOK
  BY DEF HeapInvariant
<1>2. QED
  BY HeapInvariantHolds, <1>1, PTL

(* KHeap::malloc (kheap.cpp:17-34) never returns a block that is not       *)
(* aligned or not inside the heap, even when mallocs race.                 *)
THEOREM BlocksInHeap == HeapSpec => []InHeap
<1>1. HeapInvariant => InHeap
  BY DEF HeapInvariant
<1>2. QED
  BY HeapInvariantHolds, <1>1, PTL

(* As long as no malloc runs inside another one, two blocks never share a  *)
(* byte.                                                                   *)
THEOREM BlocksDisjoint == HeapSpec => []NoOverlap
<1>1. HeapInvariant => NoOverlap
  BY DEF HeapInvariant, SerialInv, NoOverlap
<1>2. QED
  BY HeapInvariantHolds, <1>1, PTL

-----------------------------------------------------------------------------
(* Alignment is monotonic: what does not fit behind an address does not    *)
(* fit behind a later one.                                                 *)
LEMMA AlignedMonotonic ==
  ASSUME NEW a \in Nat, NEW b \in Nat, a <= b
  PROVE  Aligned(a) <= Aligned(b)
<1> DEFINE x == Aligned(a)
           y == Aligned(b)
           q == x \div ALIGN
           r == y \div ALIGN
<1>1. ALIGN \in Nat \ {0}
  BY HeapAssumption
<1>2. /\ x \in Nat /\ x % ALIGN = 0 /\ x < a + ALIGN
      /\ y \in Nat /\ y % ALIGN = 0 /\ b <= y
  BY AlignUp
<1> HIDE DEF x, y
<1>3. q \in Nat /\ x = ALIGN * q /\ r \in Nat /\ y = ALIGN * r
  BY <1>1, <1>2
<1> HIDE DEF q, r
<1>4. SUFFICES ASSUME y < x PROVE FALSE
  BY <1>2 DEF x, y
<1>5. ~(q <= r)
  <2> SUFFICES ASSUME q <= r PROVE FALSE
    OBVIOUS
  <2>1. ALIGN * q <= ALIGN * r
    BY <1>1, <1>3
  <2>2. QED
    BY <1>2, <1>3, <1>4, <2>1
<1>6. ALIGN * (r + 1) <= ALIGN * q
  BY <1>1, <1>3, <1>5
<1>7. y + ALIGN <= x
  BY <1>1, <1>3, <1>6
<1>8. QED
  BY <1>1, <1>2, <1>7

(* What does not fit behind an address does not fit behind a later one.    *)
LEMMA StaysFull ==
  ASSUME NEW a \in Nat, NEW b \in Nat, a <= b, NEW s \in Nat, Aligned(a) + s > END
  PROVE  Aligned(b) + s > END
<1>1. Aligned(a) <= Aligned(b) /\ Aligned(a) \in Nat /\ Aligned(b) \in Nat
  BY AlignedMonotonic, AlignUp
<1>2. END \in Nat
  BY HeapAssumption
<1>3. QED
  BY <1>1, <1>2

(* A check within reach that fails means just that.                        *)
LEMMA NotFitsIsFull ==
  ASSUME NEW a, Reach(a), NEW s \in Sizes, ~Fits(a, s)
  PROVE  a + s > END
<1>1. (a + s) % REGISTER_SPACE = a + s /\ s \in Nat /\ a \in Nat /\ END \in Nat
  BY NoWrap, HeapAssumption DEF Reach
<1>2. QED
  BY <1>1 DEF Fits

(* Without a race, the register of a process that reached the check holds  *)
(* current_addr; a process that was refused, or is in its second try, asks *)
(* for what does not fit, as the request that ended in a panic did; and a  *)
(* process that was removed does not come out of its second try.           *)
Refusal(c) == c.at = "failed" \/ c.retry

FullInv ==
  ~raced =>
    /\ \A t \in Tasks : call[t].at = "check" => call[t].addr = current_addr
    /\ \A t \in Tasks : Refusal(call[t]) => call[t].size \in Sizes /\ NoRoom(call[t].size)
    /\ halted => refused \in Sizes /\ NoRoom(refused)
    /\ \A t \in killed : halted \/ call[t].retry
    /\ \A t \in Tasks : call[t].at = "idle" => ~call[t].retry

(* Without a race current_addr only grows.                                 *)
LEMMA CurrentAddrGrows ==
  ASSUME HeapInvariant, HeapInvariant', HeapNext, ~raced'
  PROVE  /\ ~raced
         /\ current_addr \in Nat /\ current_addr' \in Nat
         /\ current_addr <= current_addr'
<1>1. current_addr \in Nat /\ current_addr' \in Nat
  BY DEF HeapInvariant, RegisterInv, Reach
<1>2. current_addr <= Aligned(current_addr) /\ Aligned(current_addr) \in Nat
  BY <1>1, AlignUp
<1>3. Sizes \subseteq Nat
  BY HeapAssumption
<1>4. ASSUME NEW t \in Tasks, NEW s \in Sizes, Begin(t, s) \/ HandlerMalloc(t, s)
      PROVE  ~raced /\ current_addr <= current_addr'
  <2>1. CASE Begin(t, s)
    BY <1>1, <2>1 DEF Begin
  <2>2. CASE HandlerMalloc(t, s)
    <3>1. ~raced
      BY <2>2 DEF HandlerMalloc
    <3>2. CASE Fits(Aligned(current_addr), s)
      <4>1. current_addr' = (Aligned(current_addr) + s) % REGISTER_SPACE
        BY <2>2, <3>2 DEF HandlerMalloc, Grant
      <4>2. current_addr' = Aligned(current_addr) + s
        BY <4>1, ReachAligned, NoWrap DEF HeapInvariant, RegisterInv
      <4>3. QED
        BY <1>1, <1>2, <1>3, <3>1, <4>2
    <3>3. CASE ~Fits(Aligned(current_addr), s)
      <4>1. current_addr' = Aligned(current_addr)
        BY <2>2, <3>3 DEF HandlerMalloc
      <4>2. QED
        BY <1>2, <3>1, <4>1
    <3>4. QED
      BY <3>2, <3>3
  <2>3. QED
    BY <1>4, <2>1, <2>2
<1>5. ASSUME NEW t \in Tasks, Step(t)
      PROVE  ~raced /\ current_addr <= current_addr'
  <2>1. CASE Load(t) \/ Fail(t) \/ OutOfMemory(t)
    <3>1. current_addr' = current_addr
      BY <2>1 DEF Load, Fail, OutOfMemory
    <3>2. raced' = raced \/ raced' = (raced \/ Busy)
      BY <2>1 DEF Load, Fail, OutOfMemory
    <3>3. ~raced
      BY <3>2
    <3>4. QED
      BY <1>1, <3>1, <3>3
  <2>2. CASE StoreAligned(t)
    <3>1. ~raced /\ current_addr' = call[t].addr /\ InMalloc(t)
      BY <2>2 DEF StoreAligned, InMalloc
    <3>2. QED
      BY <3>1 DEF HeapInvariant, SerialInv
  <2>3. CASE Take(t)
    <3>1. /\ ~raced /\ InMalloc(t)
          /\ current_addr' = (call[t].addr + call[t].size) % REGISTER_SPACE
      BY <2>3 DEF Take, Grant, InMalloc
    <3>2. /\ current_addr <= call[t].addr /\ Reach(call[t].addr)
          /\ call[t].size \in Sizes
      BY <3>1 DEF HeapInvariant, SerialInv, RegisterInv, InMalloc
    <3>3. current_addr' = call[t].addr + call[t].size
      BY <3>1, <3>2, NoWrap
    <3>4. call[t].addr \in Nat /\ call[t].size \in Nat
      BY <1>3, <3>2 DEF Reach
    <3>5. QED
      BY <1>1, <3>1, <3>2, <3>3, <3>4
  <2>4. QED
    BY <1>5, <2>1, <2>2, <2>3 DEF Step
<1>6. QED
  BY <1>1, <1>4, <1>5 DEF HeapNext

LEMMA FullStep ==
  ASSUME HeapInvariant, HeapInvariant', FullInv, HeapNext, ~raced'
  PROVE  FullInv'
<1>0. /\ call \in [Tasks -> Calls] /\ killed \in SUBSET Tasks
      /\ Sizes \subseteq Nat
  BY HeapAssumption DEF HeapInvariant, HeapTypeOK
<1>1. ~raced
  BY CurrentAddrGrows
<1>2. /\ \A t \in Tasks : call[t].at = "check" => call[t].addr = current_addr
      /\ \A t \in Tasks : Refusal(call[t]) => call[t].size \in Sizes /\ NoRoom(call[t].size)
      /\ halted => refused \in Sizes /\ NoRoom(refused)
      /\ \A t \in killed : halted \/ call[t].retry
      /\ \A t \in Tasks : call[t].at = "idle" => ~call[t].retry
  BY <1>1 DEF FullInv
<1> DEFINE Room(s)  == Aligned(current_addr') + s > END
           Checked  == \A t \in Tasks : call'[t].at = "check" => call'[t].addr = current_addr'
           Refused  == \A t \in Tasks : Refusal(call'[t]) =>
                         call'[t].size \in Sizes /\ Room(call'[t].size)
           Panicked == halted' => refused' \in Sizes /\ Room(refused')
           Removed  == \A t \in killed' : halted' \/ call'[t].retry
           Fresh    == \A t \in Tasks : call'[t].at = "idle" => ~call'[t].retry
<1>3. \A s \in Sizes : NoRoom(s) => Room(s)
  <2> SUFFICES ASSUME NEW s \in Sizes, Aligned(current_addr) + s > END
               PROVE  Aligned(current_addr') + s > END
    BY DEF NoRoom
  <2>1. s \in Nat
    BY <1>0
  <2>2. QED
    BY <2>1, CurrentAddrGrows, StaysFull
<1>4. SUFFICES Checked /\ Refused /\ Panicked /\ Removed /\ Fresh
  BY DEF FullInv, NoRoom, Aligned
<1> HIDE DEF Room
<1>5. ASSUME NEW t \in Tasks, NEW s \in Sizes, Begin(t, s)
      PROVE  Checked /\ Refused /\ Panicked /\ Removed /\ Fresh
  <2>1. /\ call' = [call EXCEPT ![t] = Started(s)] /\ call[t].at = "idle"
        /\ UNCHANGED <<current_addr, halted, refused, killed>> /\ ~halted
    BY <1>5 DEF Begin
  <2>2. Started(s).at = "load" /\ ~Started(s).retry
    BY DEF Started
  <2>3. call'[t] = Started(s) /\ \A u \in Tasks : u # t => call'[u] = call[u]
    BY <1>0, <2>1
  <2>4. ~call[t].retry
    BY <1>2, <2>1
  <2>5. Checked
    BY <1>2, <2>1, <2>2, <2>3
  <2>6. Refused
    BY <1>2, <1>3, <2>2, <2>3 DEF Refusal
  <2>7. Panicked /\ Removed
    BY <1>0, <1>2, <2>1, <2>3, <2>4
  <2>8. Fresh
    BY <1>2, <2>2, <2>3
  <2>9. QED
    BY <2>5, <2>6, <2>7, <2>8
<1>6. ASSUME NEW t \in Tasks, NEW s \in Sizes, HandlerMalloc(t, s)
      PROVE  Checked /\ Refused /\ Panicked /\ Removed /\ Fresh
  <2>1. ~Busy /\ UNCHANGED call /\ ~halted
    BY <1>6 DEF HandlerMalloc
  <2>2. Checked /\ Fresh
    BY <1>2, <2>1 DEF Busy, InMalloc
  <2>3. Refused
    BY <1>2, <1>3, <2>1
  <2>4. CASE Fits(Aligned(current_addr), s)
    <3>1. UNCHANGED <<killed, halted, refused>>
      BY <1>6, <2>4 DEF HandlerMalloc
    <3>2. QED
      BY <1>2, <2>1, <2>2, <2>3, <3>1
  <2>5. CASE ~Fits(Aligned(current_addr), s)
    <3>1. current_addr' = Aligned(current_addr) /\ halted' /\ refused' = s
      BY <1>6, <2>5 DEF HandlerMalloc
    <3>2. /\ Reach(Aligned(current_addr))
          /\ Aligned(Aligned(current_addr)) = Aligned(current_addr)
      <4>1. Reach(Aligned(current_addr)) /\ Aligned(current_addr) % ALIGN = 0
        BY ReachAligned DEF HeapInvariant, RegisterInv
      <4>2. QED
        BY <4>1 DEF Aligned
    <3>3. Room(s)
      BY <2>5, <3>1, <3>2, NotFitsIsFull DEF Room
    <3>4. QED
      BY <2>2, <2>3, <3>1, <3>3
  <2>6. QED
    BY <2>4, <2>5
<1>7. ASSUME NEW t \in Tasks, Load(t)
      PROVE  Checked /\ Refused /\ Panicked /\ Removed /\ Fresh
  <2>1. /\ call' = [call EXCEPT
                ![t].addr = Aligned(current_addr),
                ![t].at = IF current_addr % ALIGN = 0 THEN "check" ELSE "align"]
        /\ UNCHANGED <<current_addr, halted, refused, killed>>
    BY <1>7 DEF Load
  <2>2. /\ call'[t].addr = Aligned(current_addr)
        /\ call'[t].at = IF current_addr % ALIGN = 0 THEN "check" ELSE "align"
        /\ call'[t].retry = call[t].retry /\ call'[t].size = call[t].size
        /\ \A u \in Tasks : u # t => call'[u] = call[u]
    BY <1>0, <2>1 DEF Calls
  <2>3. current_addr % ALIGN = 0 => Aligned(current_addr) = current_addr
    BY DEF Aligned
  <2>4. Checked
    <3> SUFFICES ASSUME NEW u \in Tasks, call'[u].at = "check"
                 PROVE  call'[u].addr = current_addr'
      OBVIOUS
    <3>1. CASE u = t
      BY <2>1, <2>2, <2>3, <3>1
    <3>2. CASE u # t
      BY <1>2, <2>1, <2>2, <3>2
    <3>3. QED
      BY <3>1, <3>2
  <2>5. Refused
    <3> SUFFICES ASSUME NEW u \in Tasks, Refusal(call'[u])
                 PROVE  call'[u].size \in Sizes /\ Room(call'[u].size)
      OBVIOUS
    <3>1. Refusal(call[u]) /\ call'[u].size = call[u].size
      BY <2>2 DEF Refusal
    <3>2. QED
      BY <1>2, <1>3, <3>1
  <2>6. Panicked /\ Removed /\ Fresh
    BY <1>0, <1>2, <1>3, <2>1, <2>2
  <2>7. QED
    BY <2>4, <2>5, <2>6
<1>8. ASSUME NEW t \in Tasks, StoreAligned(t)
      PROVE  Checked /\ Refused /\ Panicked /\ Removed /\ Fresh
  <2>1. /\ call' = [call EXCEPT ![t].at = "check"] /\ current_addr' = call[t].addr
        /\ ~halted /\ UNCHANGED <<halted, refused, killed>> /\ InMalloc(t)
        /\ call[t].at = "align"
    BY <1>8 DEF StoreAligned, InMalloc
  <2>2. /\ call'[t].addr = call[t].addr /\ call'[t].at = "check"
        /\ call'[t].retry = call[t].retry /\ call'[t].size = call[t].size
        /\ \A u \in Tasks : u # t => call'[u] = call[u]
    BY <1>0, <2>1 DEF Calls
  <2>3. \A u \in Tasks : u # t => call[u].at # "check"
    BY <1>1, <2>1 DEF HeapInvariant, SerialInv, InMalloc
  <2>4. Checked
    BY <2>1, <2>2, <2>3
  <2>5. Refused
    <3> SUFFICES ASSUME NEW u \in Tasks, Refusal(call'[u])
                 PROVE  call'[u].size \in Sizes /\ Room(call'[u].size)
      OBVIOUS
    <3>1. Refusal(call[u]) /\ call'[u].size = call[u].size
      BY <2>2 DEF Refusal
    <3>2. QED
      BY <1>2, <1>3, <3>1
  <2>6. Panicked /\ Removed /\ Fresh
    BY <1>0, <1>2, <2>1, <2>2
  <2>7. QED
    BY <2>4, <2>5, <2>6
<1>9. ASSUME NEW t \in Tasks, Take(t)
      PROVE  Checked /\ Refused /\ Panicked /\ Removed /\ Fresh
  <2>1. /\ call' = [call EXCEPT ![t] = Idle] /\ Idle.at = "idle" /\ ~Idle.retry
        /\ ~halted /\ UNCHANGED <<halted, refused, killed>> /\ InMalloc(t)
        /\ call[t].at = "check" /\ Fits(call[t].addr, call[t].size)
    BY <1>9 DEF Take, InMalloc, Idle
  <2>2. call'[t] = Idle /\ \A u \in Tasks : u # t => call'[u] = call[u]
    BY <1>0, <2>1
  <2>3. \A u \in Tasks : u # t => call[u].at # "check"
    BY <1>1, <2>1 DEF HeapInvariant, SerialInv, InMalloc
  <2>4. Checked
    BY <2>1, <2>2, <2>3
  <2>5. Refused
    BY <1>2, <1>3, <2>1, <2>2 DEF Refusal
  <2>6. ~call[t].retry
    <3> SUFFICES ASSUME call[t].retry PROVE FALSE
      OBVIOUS
    <3>1. call[t].size \in Sizes /\ NoRoom(call[t].size)
      BY <1>2 DEF Refusal
    <3>2. /\ Reach(current_addr) /\ current_addr % ALIGN = 0
          /\ call[t].addr = current_addr
      BY <1>2, <2>1 DEF HeapInvariant, RegisterInv
    <3>3. current_addr + call[t].size > END
      BY <3>1, <3>2 DEF NoRoom, Aligned
    <3>4. (current_addr + call[t].size) % REGISTER_SPACE = current_addr + call[t].size
      BY <3>1, <3>2, NoWrap
    <3>5. current_addr \in Nat /\ call[t].size \in Nat /\ END \in Nat
      BY <1>0, <3>1, <3>2, HeapAssumption DEF Reach
    <3>6. QED
      BY <2>1, <3>2, <3>3, <3>4, <3>5 DEF Fits
  <2>7. Panicked /\ Removed /\ Fresh
    BY <1>0, <1>2, <2>1, <2>2, <2>6
  <2>8. QED
    BY <2>4, <2>5, <2>7
<1>10. ASSUME NEW t \in Tasks, Fail(t)
       PROVE  Checked /\ Refused /\ Panicked /\ Removed /\ Fresh
  <2>1. /\ call' = [call EXCEPT ![t].at = "failed"] /\ call[t].at = "check"
        /\ ~Fits(call[t].addr, call[t].size) /\ InMalloc(t)
        /\ UNCHANGED <<current_addr, halted, refused, killed>>
    BY <1>10 DEF Fail, InMalloc
  <2>2. /\ Reach(current_addr) /\ current_addr % ALIGN = 0
        /\ call[t].addr = current_addr /\ call[t].size \in Sizes
    BY <1>2, <2>1 DEF HeapInvariant, RegisterInv
  <2>3. NoRoom(call[t].size)
    BY <2>1, <2>2, NotFitsIsFull DEF NoRoom, Aligned
  <2>4. /\ call'[t].at = "failed" /\ call'[t].size = call[t].size
        /\ call'[t].retry = call[t].retry
        /\ \A u \in Tasks : u # t => call'[u] = call[u]
    BY <1>0, <2>1 DEF Calls
  <2>5. Checked
    BY <1>2, <2>1, <2>4
  <2>6. Refused
    BY <1>2, <1>3, <2>2, <2>3, <2>4
  <2>7. Panicked /\ Removed /\ Fresh
    BY <1>0, <1>2, <1>3, <2>1, <2>4
  <2>8. QED
    BY <2>5, <2>6, <2>7
<1>11. ASSUME NEW t \in Tasks, OutOfMemory(t)
       PROVE  Checked /\ Refused /\ Panicked /\ Removed /\ Fresh
  <2>1. /\ ~halted /\ call[t].at = "failed" /\ UNCHANGED current_addr
        /\ Refusal(call[t])
    BY <1>11 DEF OutOfMemory, Refusal
  <2>2. CASE t # KERNEL /\ ~call[t].retry
    <3>1. /\ call' = [call EXCEPT ![t].at = "load", ![t].retry = TRUE]
          /\ killed' = killed \cup {t} /\ UNCHANGED <<halted, refused>>
      BY <1>11, <2>2 DEF OutOfMemory
    <3>2. /\ call'[t].at = "load" /\ call'[t].size = call[t].size
          /\ call'[t].retry /\ \A u \in Tasks : u # t => call'[u] = call[u]
      BY <1>0, <3>1 DEF Calls
    <3>3. Refused
      BY <1>2, <1>3, <2>1, <3>2
    <3>4. Checked /\ Panicked /\ Removed /\ Fresh
      BY <1>0, <1>2, <2>1, <3>1, <3>2
    <3>5. QED
      BY <3>3, <3>4
  <2>3. CASE ~(t # KERNEL /\ ~call[t].retry)
    <3>1. halted' /\ refused' = call[t].size /\ UNCHANGED <<killed, call>>
      BY <1>11, <2>3 DEF OutOfMemory
    <3>2. Panicked
      BY <1>2, <1>3, <2>1, <3>1
    <3>3. Checked /\ Refused /\ Removed /\ Fresh
      BY <1>2, <1>3, <2>1, <3>1
    <3>4. QED
      BY <3>2, <3>3
  <2>4. QED
    BY <2>2, <2>3
<1>12. QED
  BY <1>5, <1>6, <1>7, <1>8, <1>9, <1>10, <1>11 DEF HeapNext, Step

(* As long as no malloc runs inside another one: the panic of kheap.cpp:63 *)
(* comes when there is no room for the size that was asked for, and a      *)
(* process that the OOM killer removed is never given memory again.        *)
THEOREM PanicsOnlyWhenFull == HeapSpec => []PanicOnlyWhenFull
<1>1. HeapInit => FullInv
  BY DEF HeapInit, FullInv, Idle, Refusal
<1>2. HeapInvariant /\ HeapInvariant' /\ FullInv /\ [HeapNext]_heapVars => FullInv'
  <2>1. CASE HeapNext
    BY <2>1, FullStep DEF FullInv
  <2>2. CASE UNCHANGED heapVars
    BY <2>2 DEF FullInv, heapVars, NoRoom, Aligned, Refusal
  <2>3. QED
    BY <2>1, <2>2
<1>3. HeapInvariant /\ FullInv => PanicOnlyWhenFull
  <2>1. HeapInvariant => killed \subseteq Tasks
    BY DEF HeapInvariant, HeapTypeOK
  <2>2. QED
    BY <2>1 DEF FullInv, PanicOnlyWhenFull, Refusal
<1>4. QED
  BY HeapInvariantHolds, <1>1, <1>2, <1>3, PTL DEF HeapSpec
=============================================================================
