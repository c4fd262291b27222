-------------------------------- MODULE VMM ---------------------------------
(***************************************************************************)
(* Address spaces (kernel/memory/vmm.cpp) and the copy-on-write part of    *)
(* the page-fault handler (kernel/arch/i386/isr.cpp).  Directories, page   *)
(* tables and pages are frames of the physical memory manager; a frame is  *)
(* named by its number and 0 is the null pointer.                          *)
(*                                                                         *)
(* No unit of the repository calls this interface yet, so every order of   *)
(* calls is taken, each call to its end, with the accesses of the process  *)
(* that runs in between.  Only two things are asked of the callers: they   *)
(* do not destroy the space that is loaded in cr3, and pages are mapped    *)
(* through allocate_page, the one caller map_page_in_space has.            *)
(*                                                                         *)
(* The write bit of an entry binds code at privilege level 3 only:         *)
(* Paging::initialize sets PG in cr0 and not WP (paging.cpp:30-33).  All   *)
(* processes of this repository run at level 0 (scheduler.cpp:39), so they *)
(* write through read-only and copy-on-write entries without a fault; user *)
(* code, for which the GDT has segments and map_page_in_space a flag,      *)
(* would reach the copy-on-write part of the handler.                      *)
(***************************************************************************)
EXTENDS Integers, FiniteSets

CONSTANTS
  FRAMES,         \* number of frames of the physical memory manager
  KERNEL_TABLES,  \* present entries of the kernel's page directory
  Tables,         \* the user entries of a directory, as numbers
  Slots,          \* the entries of a page table
  LEVELS,         \* the privilege levels at which code runs in the spaces
  Values          \* what a page may hold

ASSUME VMMAssumption ==
  /\ FRAMES \in Nat
  /\ KERNEL_TABLES \in Nat
  /\ Tables \subseteq Int /\ IsFiniteSet(Tables)
  /\ 0 \in Values
  /\ LEVELS \subseteq {0, 3}

VARIABLES
  bitmap,       \* the frames that are marked in the bitmap
  directory,    \* the user entries of each address space, by its frame
  table,        \* the entries of each page table of user space, by its frame
  data,         \* what each frame holds when it is read as a page
  cr3,          \* the space that is loaded, KERNEL for the kernel's
  halted,       \* a panic, or a page table was written or freed as a page
  shared_freed  \* ghost: free_page freed a frame that another space maps

vars == <<bitmap, directory, table, data, cr3, halted, shared_freed>>

KERNEL  == 0
Frames  == 1 .. FRAMES
Entries == [frame : 0 .. FRAMES, write : BOOLEAN, cow : BOOLEAN]
Absent  == [frame |-> 0, write |-> FALSE, cow |-> FALSE]
Spaces  == DOMAIN directory
Pages   == Tables \X Slots

Init ==
  /\ bitmap = {}
  /\ directory = <<>>
  /\ table = <<>>
  /\ data = [f \in Frames |-> 0]
  /\ cr3 = KERNEL
  /\ halted = FALSE
  /\ shared_freed = FALSE

-----------------------------------------------------------------------------
FreeFrames == Frames \ bitmap

(* What the i-th of several allocate_block calls returns: the lowest frame *)
(* that is left, or null.                                                  *)
Block(i) ==
  IF Cardinality(FreeFrames) < i THEN 0
  ELSE CHOOSE f \in FreeFrames :
         Cardinality({g \in FreeFrames : g <= f}) = i

(* The entry a space has for a page, and what it reads there.              *)
Entry(d, p) ==
  IF directory[d][p[1]] = 0 THEN Absent ELSE table[directory[d][p[1]]][p[2]]

Mapped(d, p) == Entry(d, p).frame # 0

View(d, p) == data[Entry(d, p).frame]

Drop(f, S) == [x \in DOMAIN f \ S |-> f[x]]

Put(f, x, v) == [y \in DOMAIN f \cup {x} |-> IF y = x THEN v ELSE f[y]]

(* The frames of S are cleared, as a new table or directory is.            *)
Cleared(S) == [f \in Frames |-> IF f \in S THEN 0 ELSE data[f]]

SetEntry(d, p, e) ==
  [table EXCEPT ![directory[d][p[1]]] = [@ EXCEPT ![p[2]] = e]]

-----------------------------------------------------------------------------
KernelCopies == {Block(i) : i \in 2 .. 1 + KERNEL_TABLES}

(* No frame for the directory or for a copy of a kernel table: the         *)
(* directory is freed again, the copies made so far are not.               *)
CreateFails ==
  /\ Cardinality(FreeFrames) <= KERNEL_TABLES
  /\ bitmap' = bitmap \cup (FreeFrames \ {Block(1)})
  /\ data' = Cleared(FreeFrames)
  /\ UNCHANGED <<directory, table>>

CreateAddressSpace ==
  /\ \/ CreateFails
     \/ /\ Cardinality(FreeFrames) > KERNEL_TABLES
        /\ bitmap' = bitmap \cup {Block(1)} \cup KernelCopies
        /\ directory' = Put(directory, Block(1), [t \in Tables |-> 0])
        /\ data' = Cleared({Block(1)} \cup KernelCopies)
        /\ UNCHANGED table
  /\ UNCHANGED <<cr3, halted, shared_freed>>

(* A clone that leaves the write bit of the copied entries set.            *)
Shared_Writable(e) == IF e.frame = 0 THEN Absent ELSE [e EXCEPT !.cow = TRUE]

(* The copy's entry for a page of the source: read-only, copy-on-write.    *)
Shared(e) ==
  IF e.frame = 0 THEN Absent ELSE [e EXCEPT !.write = FALSE, !.cow = TRUE]

(* The tables of src are copied in order; without a frame for one of them  *)
(* the new directory and its tables are freed, but no kernel copy.         *)
CloneAddressSpace(src) ==
  LET Present == {t \in Tables : directory[src][t] # 0}
      NewTable(t) ==
        IF t \in Present
        THEN Block(1 + KERNEL_TABLES + Cardinality({u \in Present : u <= t}))
        ELSE 0
      need == 1 + KERNEL_TABLES + Cardinality(Present)
      Used == {Block(i) : i \in 1 .. need}
  IN
  /\ \/ CreateFails
     \/ /\ Cardinality(FreeFrames) \in KERNEL_TABLES + 1 .. need - 1
        /\ bitmap' = bitmap \cup KernelCopies
        /\ data' = Cleared(FreeFrames)
        /\ UNCHANGED <<directory, table>>
     \/ /\ Cardinality(FreeFrames) >= need
        /\ bitmap' = bitmap \cup Used
        /\ directory' =
             Put(directory, Block(1), [t \in Tables |-> NewTable(t)])
        /\ table' =
             [f \in DOMAIN table \cup {NewTable(t) : t \in Present} |->
               IF f \in DOMAIN table THEN table[f]
               ELSE LET t == CHOOSE u \in Present : NewTable(u) = f IN
                    [s \in Slots |-> Shared(table[directory[src][t]][s])]]
        /\ data' = Cleared(Used)
  /\ UNCHANGED <<cr3, halted, shared_freed>>

(* The user tables and the directory are freed; the pages themselves and   *)
(* the copies of the kernel's tables stay marked.                          *)
DestroyAddressSpace(d) ==
  LET Own == {directory[d][t] : t \in Tables} \ {0} IN
  /\ d # cr3
  /\ bitmap' = bitmap \ (Own \cup {d})
  /\ table' = Drop(table, Own)
  /\ directory' = Drop(directory, {d})
  /\ UNCHANGED <<data, cr3, halted, shared_freed>>

SwitchAddressSpace(d) ==
  /\ cr3' = d
  /\ UNCHANGED <<bitmap, directory, table, data, halted, shared_freed>>

-----------------------------------------------------------------------------
(* map_page_in_space of frame f; t is the frame allocate_block has for a   *)
(* table that is missing.  Without one nothing is mapped.                  *)
MapPage(d, p, f, rw, t) ==
  LET entry == [frame |-> f, write |-> rw, cow |-> FALSE] IN
  \/ /\ directory[d][p[1]] # 0
     /\ table' = SetEntry(d, p, entry)
     /\ bitmap' = bitmap \cup {f}
     /\ UNCHANGED <<directory, data>>
  \/ /\ directory[d][p[1]] = 0 /\ t # 0
     /\ directory' = [directory EXCEPT ![d] = [@ EXCEPT ![p[1]] = t]]
     /\ table' = Put(table, t, [s \in Slots |->
                                 IF s = p[2] THEN entry ELSE Absent])
     /\ bitmap' = bitmap \cup {f, t}
     /\ data' = Cleared({t})
  \/ /\ directory[d][p[1]] = 0 /\ t = 0
     /\ bitmap' = bitmap \cup {f}
     /\ UNCHANGED <<directory, table, data>>

(* The frame is not cleared, and what was mapped there is not freed.       *)
AllocatePage(d, p, rw) ==
  /\ Block(1) # 0
  /\ MapPage(d, p, Block(1), rw, Block(2))
  /\ UNCHANGED <<cr3, halted, shared_freed>>

UnmapPage(d, p) ==
  /\ Mapped(d, p)
  /\ table' = SetEntry(d, p, Absent)
  /\ UNCHANGED <<bitmap, directory, data, cr3, halted, shared_freed>>

IsShared(d, p) ==
  \E e \in Spaces, q \in Pages :
    <<e, q>> # <<d, p>> /\ Entry(e, q).frame = Entry(d, p).frame

(* A free_page that forgets to unmap.                                      *)
FreePage_StaysMapped(d, p) ==
  /\ Mapped(d, p)
  /\ bitmap' = bitmap \ {Entry(d, p).frame}
  /\ shared_freed' = (shared_freed \/ IsShared(d, p))
  /\ UNCHANGED <<directory, table, data, cr3, halted>>

(* The frame goes back whoever else maps it: nothing counts its users.     *)
(* When it was freed before and is a table now, the run ends.              *)
FreePage(d, p) ==
  /\ Mapped(d, p)
  /\ bitmap' = bitmap \ {Entry(d, p).frame}
  /\ table' = SetEntry(d, p, Absent)
  /\ shared_freed' = (shared_freed \/ IsShared(d, p))
  /\ halted' = (Entry(d, p).frame \in DOMAIN table \cup Spaces)
  /\ UNCHANGED <<directory, data, cr3>>

-----------------------------------------------------------------------------
(* Code at level 0 may write wherever a frame is mapped.                   *)
MayWrite(level, p) == Mapped(cr3, p) /\ (level = 0 \/ Entry(cr3, p).write)

(* The running process writes v to page p.  A frame that was freed while   *)
(* mapped may have become a table: what such a write does is not followed. *)
Write(level, p, v) ==
  LET f == Entry(cr3, p).frame IN
  /\ cr3 # KERNEL
  /\ MayWrite(level, p)
  /\ data' = [data EXCEPT ![f] = v]
  /\ halted' = (f \in DOMAIN table \cup Spaces)
  /\ UNCHANGED <<bitmap, directory, table, cr3, shared_freed>>

(* A handler that makes the page writable without giving it a new frame.   *)
Resolve_InPlace(p) ==
  /\ table' = SetEntry(cr3, p, [Entry(cr3, p) EXCEPT !.write = TRUE,
                                                     !.cow = FALSE])
  /\ UNCHANGED <<bitmap, data>>

(* The page-fault handler gives the running space a copy of the page.      *)
Resolve(p) ==
  LET f == Block(1) IN
  /\ bitmap' = bitmap \cup {f}
  /\ data' = [data EXCEPT ![f] = View(cr3, p)]
  /\ table' = SetEntry(cr3, p, [frame |-> f, write |-> TRUE, cow |-> FALSE])

(* The running process writes to a page it may not write: copy-on-write is *)
(* resolved, and then the instruction is tried again; else a panic.        *)
WriteFault(level, p) ==
  /\ cr3 # KERNEL
  /\ ~MayWrite(level, p)
  /\ IF Mapped(cr3, p) /\ Entry(cr3, p).cow /\ Block(1) # 0
     THEN Resolve(p) /\ UNCHANGED halted
     ELSE halted' = TRUE /\ UNCHANGED <<bitmap, table, data>>
  /\ UNCHANGED <<directory, cr3, shared_freed>>

Next ==
  /\ ~halted
  /\ \/ CreateAddressSpace
     \/ \E d \in Spaces : \/ CloneAddressSpace(d)
                          \/ DestroyAddressSpace(d)
     \/ \E d \in Spaces \cup {KERNEL} : SwitchAddressSpace(d)
     \/ \E d \in Spaces, p \in Pages :
          \/ \E rw \in BOOLEAN : AllocatePage(d, p, rw)
          \/ UnmapPage(d, p)
          \/ FreePage(d, p)
     \/ \E level \in LEVELS, p \in Pages :
          \/ \E v \in Values : Write(level, p, v)
          \/ WriteFault(level, p)

Spec == Init /\ [][Next]_vars

-----------------------------------------------------------------------------
(* Type correctness.                                                       *)
TypeOK ==
  /\ bitmap \subseteq Frames
  /\ Spaces \subseteq Frames
  /\ \A d \in Spaces : directory[d] \in [Tables -> {0} \cup DOMAIN table]
  /\ DOMAIN table \subseteq Frames
  /\ \A f \in DOMAIN table : table[f] \in [Slots -> Entries]
  /\ data \in [Frames -> Values]
  /\ cr3 \in Spaces \cup {KERNEL}
  /\ halted \in BOOLEAN /\ shared_freed \in BOOLEAN

MappedFrames == {Entry(d, p).frame : d \in Spaces, p \in Pages} \ {0}

(* Whatever was created, cloned, faulted or freed (vmm.cpp:32-238), a      *)
(* frame that is a directory, a table or a mapped page is marked, and it   *)
(* is one of the three only - unless free_page freed a page of two spaces. *)
FramesInUse ==
  ~shared_freed =>
    /\ Spaces \cup DOMAIN table \cup MappedFrames \subseteq bitmap
    /\ Spaces \cap DOMAIN table = {}
    /\ (Spaces \cup DOMAIN table) \cap MappedFrames = {}

(* At most one entry of one space has the write bit for a frame, through   *)
(* any chain of clones and faults (vmm.cpp:97-106, isr.cpp:64-79), until   *)
(* free_page frees a page of two spaces.  Code at level 0 ignores the bit. *)
OneWriter ==
  ~shared_freed =>
    \A d, e \in Spaces : \A p, q \in Pages :
      /\ Entry(d, p).write /\ Entry(e, q).write
      /\ Entry(d, p).frame = Entry(e, q).frame
      => d = e /\ p = q

Unaffected(d, p) ==
  /\ d \in DOMAIN directory'
  /\ Entry(d, p)' = Entry(d, p)
  /\ d # cr3

(* A write of code at level 0 through a read-only entry for frame f.       *)
WriteThroughReadOnly(f) ==
  /\ 0 \in LEVELS /\ cr3 # KERNEL
  /\ \E q \in Pages : Entry(cr3, q).frame = f /\ ~Entry(cr3, q).write
  /\ UNCHANGED <<bitmap, directory, table>>

(* What a space reads in a page of its own, one not marked copy-on-write,  *)
(* is changed by no call and by no fault of another space: the frames the  *)
(* handler and the allocator give out are nobody else's (isr.cpp:64-72).   *)
(* One thing changes it: a process of a cloned space that runs at level 0  *)
(* and writes through its read-only copy of the entry, which the handler   *)
(* is not told of.  The guard is that free_page freed no shared page.      *)
OwnPagesStable ==
  [][~shared_freed' =>
      \A d \in Spaces : \A p \in Pages :
        Mapped(d, p) /\ ~Entry(d, p).cow /\ Unaffected(d, p)
          => \/ View(d, p)' = View(d, p)
             \/ WriteThroughReadOnly(Entry(d, p).frame)]_vars

(* The types, and no frame in two roles, through every call and every way  *)
(* to run out of memory (vmm.cpp:46-90, 153-160).                          *)
MemorySound == TypeOK /\ FramesInUse
=============================================================================
