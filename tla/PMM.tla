-------------------------------- MODULE PMM --------------------------------
(***************************************************************************)
(* The physical memory manager of the kernel (kernel/memory/pmm.cpp): a    *)
(* bitmap with one bit per physical block, a count of the marked bits, and *)
(* the operations set_block, unset_block, first_free_block, allocate_block *)
(* and free_block over them.                                               *)
(*                                                                         *)
(* The bitmap is the set of the blocks whose bit is set.  The code's test  *)
(* "bitmap is not null" is max_blocks > 0: PMM::initialize sets both       *)
(* together.                                                               *)
(***************************************************************************)
EXTENDS Integers, FiniteSets

CONSTANTS
  BLOCK_SIZE,         \* bytes in a block (4096)
  BLOCKS_PER_BUCKET   \* bits in a word of the bitmap (32)

ASSUME PMMAssumption ==
  /\ BLOCK_SIZE \in Nat \ {0}
  /\ BLOCKS_PER_BUCKET \in Nat \ {0}

VARIABLES
  bitmap,        \* the blocks whose bit is set
  max_blocks,    \* number of blocks the bitmap covers
  used_blocks    \* the running count of marked blocks

pmmVars == <<bitmap, max_blocks, used_blocks>>

(* The statics before PMM::initialize: a null bitmap and zero counters.    *)
PMMInit ==
  /\ bitmap = {}
  /\ max_blocks = 0
  /\ used_blocks = 0

Blocks == 0 .. max_blocks - 1

-----------------------------------------------------------------------------
(* The blocks first_free_block looks at: it walks max_blocks / 32 whole    *)
(* words, so the blocks of a last partial word are never found.            *)
ScannedBlocks ==
  0 .. BLOCKS_PER_BUCKET * (max_blocks \div BLOCKS_PER_BUCKET) - 1

FreeBlocks == ScannedBlocks \ bitmap

(* first_free_block: the lowest free block of the whole words.             *)
FirstFree(b) == b \in FreeBlocks /\ \A c \in FreeBlocks : b <= c

-----------------------------------------------------------------------------
(* set_block that counts a block again when its bit is already set.        *)
SetBlocks_NoTest(S) ==
  /\ bitmap' = bitmap \cup (S \cap Blocks)
  /\ used_blocks' = used_blocks + Cardinality(S \cap Blocks)
  /\ UNCHANGED max_blocks

(* set_block called for every block of S: the out-of-range ones are        *)
(* ignored and only the bits that change are counted.                      *)
SetBlocks(S) ==
  LET new == (S \cap Blocks) \ bitmap IN
  /\ bitmap' = bitmap \cup new
  /\ used_blocks' = used_blocks + Cardinality(new)
  /\ UNCHANGED max_blocks

(* free_block called for the address of every block of S.  Block 0 has the *)
(* null address, which free_block ignores; blocks out of range are ignored *)
(* and a block that is not marked is not counted.                          *)
FreeBlocksOf(S) ==
  LET freed == (S \cap Blocks \cap bitmap) \ {0} IN
  /\ bitmap' = bitmap \ freed
  /\ used_blocks' = used_blocks - Cardinality(freed)
  /\ UNCHANGED max_blocks

(* A memset that marks one block too many.                                 *)
InitializePMM_OneTooMany(start_addr, size) ==
  /\ start_addr # 0
  /\ size >= BLOCK_SIZE
  /\ max_blocks' = size \div BLOCK_SIZE
  /\ bitmap' = 0 .. max_blocks'
  /\ used_blocks' = max_blocks'

(* PMM::initialize(start_addr, size): every bit set, every block counted.  *)
(* The loop that marks the bitmap's own blocks finds them marked already.  *)
InitializePMM(start_addr, size) ==
  /\ start_addr # 0
  /\ size >= BLOCK_SIZE
  /\ max_blocks' = size \div BLOCK_SIZE
  /\ bitmap' = 0 .. max_blocks' - 1
  /\ used_blocks' = max_blocks'

=============================================================================
