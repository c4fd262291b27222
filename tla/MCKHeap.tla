------------------------------ MODULE MCKHeap -------------------------------
(***************************************************************************)
(* KHeap with the kernel process and one more, blocks of 3 and 4 bytes     *)
(* aligned on 4, in a heap that starts unaligned and that a block can fill *)
(* exactly.                                                                *)
(***************************************************************************)
EXTENDS KHeap
=============================================================================
