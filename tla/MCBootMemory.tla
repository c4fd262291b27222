--------------------------- MODULE MCBootMemory ---------------------------
(***************************************************************************)
(* Small machines for BootMemory: blocks of 32 bytes, words of 4 bits, the *)
(* kernel loaded at block 4 (so blocks 1..3 are the low memory), and       *)
(* memories of 10 to 13 blocks, some not a whole number of words.          *)
(***************************************************************************)
EXTENDS BootMemory

Entry(low, high, len, t) ==
  [addr_low |-> low, addr_high |-> high, len_low |-> len, type |-> t]

Ram(low, len) == Entry(low, 0, len, 1)

Machine(end, size, map) == [kernel_end |-> end, mem_size |-> size, mmap |-> map]

(* Block-aligned maps: low memory, a reserved hole, memory above.          *)
AlignedMap(size) == {Ram(0, 96), Entry(96, 0, 32, 2), Ram(128, size - 128)}

(* The low entry ends inside a block, as the usual 639 KB one does.        *)
RaggedMap(size) == {Ram(0, 80), Entry(80, 0, 48, 2), Ram(128, size - 128)}

(* An entry above 4 GB whose low half is that of the reserved hole.        *)
HighMap(size) == {Ram(0, 96), Ram(128, size - 128), Entry(96, 1, 32, 1)}

MCMachines ==
  {Machine(end, 32 * n, AlignedMap(32 * n)) : end \in {168, 192}, n \in {10, 12}}
  \cup {Machine(200, 320, AlignedMap(320)),
        Machine(168, 416, AlignedMap(416)),   \* 13 blocks: a partial last word
        Machine(168, 320, RaggedMap(320)),
        Machine(192, 320, HighMap(320)),
        Machine(192, 320, {}),                \* no memory map: nothing is free
        Machine(191, 320, AlignedMap(320)),   \* only the bits of blocks 0 to 7
        Machine(191, 384, AlignedMap(384))}   \* are stored in the image

(* The image fills its last block, so the bitmap is in the block after it. *)
AlignedEndMachines == {Machine(192, 320, AlignedMap(320))}

(* The bitmap fits in the locked last block of the image.                  *)
BitmapInImageMachines == {Machine(168, 384, AlignedMap(384))}

=============================================================================
