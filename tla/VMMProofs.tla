------------------------------ MODULE VMMProofs ------------------------------
(***************************************************************************)
(* Proofs about VMM for every number of frames and every shape of page     *)
(* directories and tables.                                                 *)
(***************************************************************************)
EXTENDS VMM, FiniteSetTheorems, NaturalsInduction, WellFoundedInduction, TLAPS

(* Every nonempty set of natural numbers has a least element.              *)
LEMMA LeastNatural ==
  ASSUME NEW T \in SUBSET Nat, T # {}
  PROVE  \E m \in T : \A k \in T : m <= k
<1> DEFINE R == OpToRel(<, Nat)
<1>1. IsWellFoundedOn(R, Nat)
  BY NatLessThanWellFounded
<1>2. ASSUME NEW a \in Nat, NEW b \in Nat, a < b
      PROVE  <<a, b>> \in R
  BY <1>2, Zenon DEF OpToRel
<1> HIDE DEF R
<1>3. PICK m \in T : \A k \in T : ~ (<<k, m>> \in R)
  BY <1>1, WFMin
<1>4. \A k \in T : ~ (k < m)
  BY <1>2, <1>3
<1>5. QED
  BY <1>4

-----------------------------------------------------------------------------
(* The frames that several allocate_block calls return.                    *)
free == Cardinality(FreeFrames)

Below(f) == {g \in FreeFrames : g <= f}

LEMMA FreeFinite ==
  /\ IsFiniteSet(FreeFrames) /\ free \in Nat
  /\ FreeFrames \subseteq Frames
  /\ \A f : /\ IsFiniteSet(Below(f)) /\ Cardinality(Below(f)) \in Nat
            /\ Cardinality(Below(f)) <= free
<1>1. FRAMES \in Nat
  BY VMMAssumption
<1>2. IsFiniteSet(Frames)
  BY <1>1, FS_Interval DEF Frames
<1>3. FreeFrames \subseteq Frames
  BY DEF FreeFrames
<1>4. IsFiniteSet(FreeFrames)
  BY <1>2, <1>3, FS_Subset
<1>5. ASSUME NEW f
      PROVE  /\ IsFiniteSet(Below(f)) /\ Cardinality(Below(f)) \in Nat
             /\ Cardinality(Below(f)) <= free
  <2>1. Below(f) \subseteq FreeFrames
    BY DEF Below
  <2>2. QED
    BY <1>4, <2>1, FS_Subset, FS_CardinalityType DEF free
<1>6. QED
  BY <1>3, <1>4, <1>5, FS_CardinalityType DEF free

(* One more place below which to look is one more free frame, or none.     *)
LEMMA BelowNext ==
  ASSUME NEW f \in 1 .. FRAMES
  PROVE  Cardinality(Below(f)) = IF f \in FreeFrames
                                 THEN Cardinality(Below(f - 1)) + 1
                                 ELSE Cardinality(Below(f - 1))
<1>1. FRAMES \in Nat /\ f \in Nat
  BY VMMAssumption
<1>2. \A g \in FreeFrames : g \in Nat /\ 1 <= g /\ g <= FRAMES
  BY <1>1 DEF Frames, FreeFrames
<1>3. IsFiniteSet(Below(f - 1)) /\ f \notin Below(f - 1)
  BY FreeFinite, <1>1 DEF Below
<1>4. CASE f \in FreeFrames
  <2>1. Below(f) = Below(f - 1) \cup {f}
    <3>1. \A g \in FreeFrames : g <= f <=> g <= f - 1 \/ g = f
      BY <1>1, <1>2
    <3>2. QED
      BY <1>4, <3>1 DEF Below
  <2>2. QED
    BY <1>3, <1>4, <2>1, FS_AddElement
<1>5. CASE f \notin FreeFrames
  <2>1. Below(f) = Below(f - 1)
    <3>1. \A g \in FreeFrames : g <= f <=> g <= f - 1
      BY <1>1, <1>2, <1>5
    <3>2. QED
      BY <3>1 DEF Below
  <2>2. QED
    BY <1>5, <2>1
<1>6. QED
  BY <1>4, <1>5

(* While there are i free frames, the i-th call returns a free one.        *)
LEMMA BlockIs ==
  ASSUME NEW i \in Nat, 1 <= i, i <= free
  PROVE  Block(i) \in FreeFrames /\ Cardinality(Below(Block(i))) = i
<1> DEFINE T == {f \in Nat : f <= FRAMES /\ i <= Cardinality(Below(f))}
<1>1. FRAMES \in Nat
  BY VMMAssumption
<1>2. \A g \in FreeFrames : g <= FRAMES /\ ~(g <= 0)
  BY <1>1 DEF Frames, FreeFrames
<1>3. FRAMES \in T
  <2>1. Below(FRAMES) = FreeFrames
    BY <1>2 DEF Below
  <2>2. QED
    BY <1>1, <2>1 DEF free
<1>4. PICK f \in T : \A k \in T : f <= k
  <2>1. T \in SUBSET Nat
    OBVIOUS
  <2>2. QED
    BY <1>3, <2>1, LeastNatural
<1>5. f \in Nat /\ f <= FRAMES /\ i <= Cardinality(Below(f))
  OBVIOUS
<1>6. f # 0
  <2>1. Below(0) = {}
    BY <1>2 DEF Below
  <2>2. QED
    BY <1>5, <2>1, FS_EmptySet
<1>7. f - 1 \in Nat /\ f - 1 <= FRAMES /\ ~(f <= f - 1) /\ f \in 1 .. FRAMES
  BY <1>1, <1>5, <1>6
<1>8. ~(i <= Cardinality(Below(f - 1)))
  BY <1>4, <1>7
<1>9. f \in FreeFrames /\ Cardinality(Below(f)) = i
  <2>1. Cardinality(Below(f - 1)) \in Nat /\ Cardinality(Below(f)) \in Nat
    BY FreeFinite
  <2>2. QED
    BY <1>5, <1>7, <1>8, <2>1, BelowNext
<1>10. \E g \in FreeFrames : Cardinality({h \in FreeFrames : h <= g}) = i
  BY <1>9 DEF Below
<1>11. ~(Cardinality(FreeFrames) < i)
  BY FreeFinite DEF free
<1>12. Block(i) = CHOOSE g \in FreeFrames : Cardinality({h \in FreeFrames : h <= g}) = i
  BY <1>11 DEF Block
<1>13. QED
  BY <1>10, <1>12 DEF Below

(* The calls return null, or free frames, all different.                   *)
LEMMA BlocksAreFree ==
  /\ \A i \in Nat \ {0} : Block(i) = 0 <=> free < i
  /\ \A i \in Nat \ {0} : Block(i) # 0 => Block(i) \in FreeFrames
  /\ \A i, j \in Nat \ {0} : Block(i) # 0 /\ Block(i) = Block(j) => i = j
<1>1. 0 \notin FreeFrames
  BY FreeFinite, VMMAssumption DEF Frames
<1>2. ASSUME NEW i \in Nat \ {0}
      PROVE  /\ Block(i) = 0 <=> free < i
             /\ Block(i) # 0 => Block(i) \in FreeFrames
             /\ Block(i) # 0 => Cardinality(Below(Block(i))) = i
  <2>1. CASE free < i
    BY <2>1 DEF Block, free
  <2>2. CASE ~(free < i)
    <3>1. i \in Nat /\ 1 <= i /\ i <= free
      BY <2>2, FreeFinite
    <3>2. QED
      BY <1>1, <2>2, <3>1, BlockIs
  <2>3. QED
    BY <2>1, <2>2
<1>3. QED
  BY <1>2

-----------------------------------------------------------------------------
(* No page table belongs to two entries of directories.                    *)
TablesOwned ==
  \A d, e \in Spaces : \A t, u \in Tables :
    directory[d][t] # 0 /\ directory[d][t] = directory[e][u] => d = e /\ t = u

(* What holds whatever was freed: a directory or a table is marked, unless *)
(* the run ended because one was freed as a page.                          *)
StructInv ==
  /\ TypeOK
  /\ TablesOwned
  /\ Spaces \cap DOMAIN table = {}
  /\ ~halted => Spaces \cup DOMAIN table \subseteq bitmap

(* A frame has at most one entry that is not marked copy-on-write.         *)
OneOwner ==
  \A d, e \in Spaces : \A p, q \in Pages :
    /\ Entry(d, p).frame # 0 /\ Entry(d, p).frame = Entry(e, q).frame
    /\ ~Entry(d, p).cow /\ ~Entry(e, q).cow
    => d = e /\ p = q

WriteIsOwned ==
  \A d \in Spaces : \A p \in Pages :
    Entry(d, p).write => Entry(d, p).frame # 0 /\ ~Entry(d, p).cow

(* What holds while free_page has freed no page of two entries.            *)
OwnInv ==
  /\ Spaces \cup DOMAIN table \cup MappedFrames \subseteq bitmap
  /\ Spaces \cap DOMAIN table = {}
  /\ (Spaces \cup DOMAIN table) \cap MappedFrames = {}
  /\ OneOwner
  /\ WriteIsOwned

IInv == StructInv /\ (~shared_freed => OwnInv)

LEMMA AbsentIs ==
  /\ Absent \in Entries /\ Absent.frame = 0
  /\ ~Absent.write /\ ~Absent.cow
<1>1. FRAMES \in Nat
  BY VMMAssumption
<1>2. QED
  BY <1>1 DEF Absent, Entries

LEMMA PageIs ==
  ASSUME NEW p \in Pages
  PROVE  /\ p[1] \in Tables /\ p[2] \in Slots
         /\ \A q \in Pages : q[1] = p[1] /\ q[2] = p[2] => q = p
BY DEF Pages

LEMMA EntryTypes ==
  ASSUME TypeOK, NEW d \in Spaces, NEW p \in Pages
  PROVE  /\ Entry(d, p) \in Entries
         /\ directory[d] \in [Tables -> {0} \cup DOMAIN table]
         /\ directory[d][p[1]] \in {0} \cup DOMAIN table
         /\ directory[d][p[1]] # 0 =>
              table[directory[d][p[1]]] \in [Slots -> Entries]
         /\ Entry(d, p).frame # 0 =>
              /\ directory[d][p[1]] # 0
              /\ Entry(d, p).frame \in MappedFrames
              /\ Entry(d, p).frame \in Frames
<1>1. /\ directory[d] \in [Tables -> {0} \cup DOMAIN table]
      /\ \A f \in DOMAIN table : table[f] \in [Slots -> Entries]
  BY DEF TypeOK
<1>2. /\ directory[d][p[1]] \in {0} \cup DOMAIN table
      /\ directory[d][p[1]] # 0 =>
           table[directory[d][p[1]]] \in [Slots -> Entries]
  BY <1>1, PageIs
<1>3. Entry(d, p) \in Entries
  BY <1>2, PageIs, AbsentIs DEF Entry
<1>4. Entry(d, p).frame # 0 => directory[d][p[1]] # 0
  BY AbsentIs DEF Entry
<1>5. Entry(d, p).frame # 0 => Entry(d, p).frame \in MappedFrames
  BY DEF MappedFrames
<1>6. Entry(d, p).frame # 0 => Entry(d, p).frame \in Frames
  BY <1>3, VMMAssumption DEF Entries, Frames
<1>7. QED
  BY <1>1, <1>2, <1>3, <1>4, <1>5, <1>6

(* One entry is written: no other entry changes, since no table is shared. *)
LEMMA SetEntryIs ==
  ASSUME StructInv, NEW d \in Spaces, NEW p \in Pages, NEW e \in Entries,
         directory[d][p[1]] # 0, table' = SetEntry(d, p, e),
         UNCHANGED directory
  PROVE  /\ DOMAIN table' = DOMAIN table
         /\ \A f \in DOMAIN table' : table'[f] \in [Slots -> Entries]
         /\ Entry(d, p)' = e
         /\ \A c \in Spaces : \A q \in Pages :
              <<c, q>> # <<d, p>> => Entry(c, q)' = Entry(c, q)
<1> DEFINE f == directory[d][p[1]]
<1>1. TypeOK /\ TablesOwned
  BY DEF StructInv
<1>2. f \in DOMAIN table /\ f # 0 /\ p[2] \in Slots /\ p[1] \in Tables
  BY <1>1, EntryTypes, PageIs
<1>3. table[f] \in [Slots -> Entries]
  BY <1>1, <1>2 DEF TypeOK
<1>4. table' = [table EXCEPT ![f] = [table[f] EXCEPT ![p[2]] = e]]
  BY DEF SetEntry
<1>5. /\ DOMAIN table' = DOMAIN table
      /\ table'[f] = [table[f] EXCEPT ![p[2]] = e]
      /\ \A g \in DOMAIN table : g # f => table'[g] = table[g]
  BY <1>2, <1>4
<1>6. /\ table'[f] \in [Slots -> Entries] /\ table'[f][p[2]] = e
      /\ \A s \in Slots : s # p[2] => table'[f][s] = table[f][s]
  BY <1>2, <1>3, <1>5
<1>7. \A g \in DOMAIN table' : table'[g] \in [Slots -> Entries]
  BY <1>1, <1>5, <1>6 DEF TypeOK
<1>8. Entry(d, p)' = e
  BY <1>2, <1>6 DEF Entry
<1>9. ASSUME NEW c \in Spaces, NEW q \in Pages, <<c, q>> # <<d, p>>
      PROVE  Entry(c, q)' = Entry(c, q)
  <2> DEFINE g == directory[c][q[1]]
  <2>1. /\ g \in {0} \cup DOMAIN table /\ q[1] \in Tables /\ q[2] \in Slots
        /\ (q[1] = p[1] /\ q[2] = p[2] => q = p)
    BY <1>1, EntryTypes, PageIs
  <2>2. CASE g = 0
    BY <2>2 DEF Entry
  <2>3. CASE g # 0 /\ g # f
    <3>1. table'[g] = table[g]
      BY <1>5, <2>1, <2>3
    <3>2. QED
      BY <2>3, <3>1 DEF Entry
  <2>4. CASE g # 0 /\ g = f
    <3>1. c = d /\ q[1] = p[1]
      BY <1>1, <1>2, <2>1, <2>4 DEF TablesOwned
    <3>2. q[2] # p[2]
      BY <1>9, <2>1, <3>1
    <3>3. table'[g][q[2]] = table[g][q[2]]
      BY <1>6, <2>1, <2>4, <3>2
    <3>4. QED
      BY <2>4, <3>3 DEF Entry
  <2>5. QED
    BY <2>2, <2>3, <2>4
<1>10. QED
  BY <1>5, <1>7, <1>8, <1>9

LEMMA SharedIs ==
  ASSUME NEW e \in Entries
  PROVE  /\ Shared(e) \in Entries /\ Shared(e).frame = e.frame
         /\ ~Shared(e).write
         /\ e.frame # 0 => Shared(e).cow
<1>1. CASE e.frame = 0
  BY <1>1, AbsentIs DEF Shared
<1>2. CASE e.frame # 0
  <2>1. Shared(e) = [e EXCEPT !.write = FALSE, !.cow = TRUE]
    BY <1>2 DEF Shared
  <2>2. QED
    BY <1>2, <2>1 DEF Entries
<1>3. QED
  BY <1>1, <1>2

(* Every entry after a step is one of before, or absent, or the clone of   *)
(* one, or the single entry (d, p) of frame g.                             *)
EntriesFrom(d, p, g) ==
  \A e \in Spaces' : \A q \in Pages :
    \/ e \in Spaces /\ Entry(e, q)' = Entry(e, q)
    \/ Entry(e, q)' = Absent
    \/ \E s \in Spaces : Entry(e, q)' = Shared(Entry(s, q))
    \/ e = d /\ q = p /\ Entry(e, q)'.frame = g /\ ~Entry(e, q)'.cow

(* When nobody mapped that frame, the frames keep one owner.               *)
LEMMA OwnersKept ==
  ASSUME TypeOK, OneOwner, WriteIsOwned,
         NEW d, NEW p, NEW g, g # 0, g \notin MappedFrames,
         EntriesFrom(d, p, g)
  PROVE  OneOwner' /\ WriteIsOwned' /\ MappedFrames' \subseteq MappedFrames \cup {g}
<1> DEFINE Kept(e, q) == e \in Spaces /\ Entry(e, q)' = Entry(e, q)
           New(e, q)  == e = d /\ q = p /\ Entry(e, q)'.frame = g
                         /\ ~Entry(e, q)'.cow
<1>1. ASSUME NEW e \in Spaces', NEW q \in Pages
      PROVE  /\ Entry(e, q)'.frame # 0 /\ ~Entry(e, q)'.cow => Kept(e, q) \/ New(e, q)
             /\ Entry(e, q)'.write => Kept(e, q) \/ New(e, q)
             /\ Entry(e, q)'.frame \in MappedFrames \cup {g, 0}
  <2>1. CASE Kept(e, q)
    BY <2>1, EntryTypes
  <2>2. CASE Entry(e, q)' = Absent
    BY <2>2, AbsentIs
  <2>3. ASSUME NEW s \in Spaces, Entry(e, q)' = Shared(Entry(s, q))
        PROVE  /\ Entry(e, q)'.frame # 0 => Entry(e, q)'.cow
               /\ ~Entry(e, q)'.write
               /\ Entry(e, q)'.frame \in MappedFrames \cup {g, 0}
    BY <2>3, EntryTypes, SharedIs
  <2>4. CASE New(e, q)
    BY <2>4
  <2>5. QED
    BY <2>1, <2>2, <2>3, <2>4 DEF EntriesFrom
<1>2. ASSUME NEW e \in Spaces', NEW q \in Pages, Kept(e, q)
      PROVE  Entry(e, q)'.frame # g
  <2>1. Entry(e, q).frame # 0 => Entry(e, q).frame \in MappedFrames
    BY <1>2, EntryTypes
  <2>2. QED
    BY <1>2, <2>1
<1>3. OneOwner'
  <2> SUFFICES ASSUME NEW c \in Spaces', NEW e \in Spaces',
                      NEW r \in Pages, NEW q \in Pages,
                      Entry(c, r)'.frame # 0,
                      Entry(c, r)'.frame = Entry(e, q)'.frame,
                      ~Entry(c, r)'.cow, ~Entry(e, q)'.cow
               PROVE  c = e /\ r = q
    BY DEF OneOwner
  <2>1. (Kept(c, r) \/ New(c, r)) /\ (Kept(e, q) \/ New(e, q))
    BY <1>1
  <2>2. CASE Kept(c, r) /\ Kept(e, q)
    BY <2>2 DEF OneOwner
  <2>3. CASE New(c, r) /\ New(e, q)
    BY <2>3
  <2>4. CASE Kept(c, r) /\ New(e, q)
    BY <1>2, <2>4
  <2>5. CASE New(c, r) /\ Kept(e, q)
    BY <1>2, <2>5
  <2>6. QED
    BY <2>1, <2>2, <2>3, <2>4, <2>5
<1>4. WriteIsOwned'
  <2> SUFFICES ASSUME NEW e \in Spaces', NEW q \in Pages, Entry(e, q)'.write
               PROVE  Entry(e, q)'.frame # 0 /\ ~Entry(e, q)'.cow
    BY DEF WriteIsOwned
  <2>1. Kept(e, q) \/ New(e, q)
    BY <1>1
  <2>2. QED
    BY <2>1 DEF WriteIsOwned
<1>5. MappedFrames' \subseteq MappedFrames \cup {g}
  BY <1>1 DEF MappedFrames
<1>6. QED
  BY <1>3, <1>4, <1>5

-----------------------------------------------------------------------------
(* A frame that a call takes from the bitmap is nothing yet.               *)
LEMMA FreshFrame ==
  ASSUME IInv, ~halted, NEW f \in FreeFrames
  PROVE  /\ f \in Frames /\ f # 0 /\ f \notin bitmap
         /\ f \notin Spaces /\ f \notin DOMAIN table
         /\ ~shared_freed => f \notin MappedFrames
<1>1. f \in Frames /\ f \notin bitmap /\ f # 0
  BY VMMAssumption DEF FreeFrames, Frames
<1>2. QED
  BY <1>1 DEF IInv, StructInv, OwnInv

LEMMA ClearedIs ==
  ASSUME TypeOK, NEW S
  PROVE  Cleared(S) \in [Frames -> Values]
BY VMMAssumption DEF TypeOK, Cleared

LEMMA MembershipIsBoolean ==
  ASSUME NEW b, NEW x, NEW S, b = (x \in S)
  PROVE  b \in BOOLEAN
<1>1. CASE x \in S
  BY <1>1
<1>2. CASE x \notin S
  BY <1>2
<1>3. QED
  BY <1>1, <1>2

(* Steps that mark frames, write data or load cr3, and change no table.    *)
LEMMA SameTables ==
  ASSUME IInv, ~halted, UNCHANGED <<directory, table, shared_freed>>,
         bitmap \subseteq bitmap', bitmap' \subseteq Frames,
         data' \in [Frames -> Values],
         cr3' \in Spaces \cup {KERNEL}, halted' \in BOOLEAN
  PROVE  IInv'
<1>1. \A d, p : Entry(d, p)' = Entry(d, p)
  BY DEF Entry
<1>2. MappedFrames' = MappedFrames /\ Spaces' = Spaces
  BY <1>1 DEF MappedFrames, Spaces
<1>3. TypeOK'
  BY <1>2 DEF IInv, StructInv, TypeOK
<1>4. StructInv'
  BY <1>2, <1>3 DEF IInv, StructInv, TablesOwned
<1>5. ASSUME ~shared_freed' PROVE OwnInv'
  BY <1>1, <1>2, <1>5 DEF IInv, OwnInv, OneOwner, WriteIsOwned
<1>6. QED
  BY <1>4, <1>5 DEF IInv

LEMMA CreateFailsStep ==
  ASSUME IInv, ~halted, CreateFails, UNCHANGED <<cr3, halted, shared_freed>>
  PROVE  IInv'
<1>1. TypeOK
  BY DEF IInv, StructInv
<1>2. data' \in [Frames -> Values]
  BY <1>1, ClearedIs DEF CreateFails
<1>3. bitmap \subseteq bitmap' /\ bitmap' \subseteq Frames
  BY <1>1 DEF CreateFails, FreeFrames, TypeOK
<1>4. QED
  BY <1>1, <1>2, <1>3, SameTables DEF CreateFails, TypeOK

(* The copies of the kernel's tables are free frames.                      *)
LEMMA KernelCopiesFree ==
  ASSUME free > KERNEL_TABLES
  PROVE  KernelCopies \subseteq FreeFrames
<1>1. KERNEL_TABLES \in Nat /\ free \in Nat
  BY VMMAssumption, FreeFinite
<1>2. ASSUME NEW i \in 2 .. 1 + KERNEL_TABLES
      PROVE  Block(i) \in FreeFrames
  BY <1>1, BlockIs
<1>3. QED
  BY <1>2 DEF KernelCopies

LEMMA CreateAddressSpaceStep ==
  ASSUME IInv, ~halted, CreateAddressSpace
  PROVE  IInv'
<1>1. CASE CreateFails
  BY <1>1, CreateFailsStep DEF CreateAddressSpace
<1>2. CASE /\ free > KERNEL_TABLES
           /\ bitmap' = bitmap \cup {Block(1)} \cup KernelCopies
           /\ directory' = Put(directory, Block(1), [t \in Tables |-> 0])
           /\ data' = Cleared({Block(1)} \cup KernelCopies)
           /\ UNCHANGED table
  <2>0. PICK b : b = Block(1)
    OBVIOUS
  <2>1. UNCHANGED <<table, cr3, halted, shared_freed>>
    BY <1>2 DEF CreateAddressSpace
  <2>2. TypeOK /\ TablesOwned
    BY DEF IInv, StructInv
  <2>3. b \in FreeFrames /\ KernelCopies \subseteq FreeFrames
    <3>1. KERNEL_TABLES \in Nat /\ free \in Nat
      BY VMMAssumption, FreeFinite
    <3>2. 1 \in Nat /\ 1 <= free
      BY <1>2, <3>1
    <3>3. QED
      BY <1>2, <2>0, <3>2, BlockIs, KernelCopiesFree
  <2>4. /\ b \in Frames /\ b # 0 /\ b \notin bitmap /\ b \notin Spaces
        /\ b \notin DOMAIN table /\ (~shared_freed => b \notin MappedFrames)
    BY <2>3, FreshFrame
  <2>5. directory' = [y \in Spaces \cup {b} |->
                        IF y = b THEN [t \in Tables |-> 0] ELSE directory[y]]
    BY <1>2, <2>0 DEF Put, Spaces
  <2>6. /\ Spaces' = Spaces \cup {b}
        /\ directory'[b] = [t \in Tables |-> 0]
        /\ \A d \in Spaces : directory'[d] = directory[d]
    BY <2>4, <2>5 DEF Spaces
  <2>7. \A t \in Tables : directory'[b][t] = 0
    BY <2>6
  <2>8. TypeOK'
    <3>1. \A d \in Spaces' : directory'[d] \in [Tables -> {0} \cup DOMAIN table]
      BY <2>2, <2>6 DEF TypeOK
    <3>2. data' \in [Frames -> Values]
      BY <1>2, <2>2, ClearedIs
    <3>3. bitmap' \subseteq Frames
      BY <1>2, <2>0, <2>2, <2>3 DEF TypeOK, FreeFrames
    <3>4. QED
      BY <2>1, <2>2, <2>4, <2>6, <3>1, <3>2, <3>3 DEF TypeOK
  <2>9. TablesOwned'
    <3> SUFFICES ASSUME NEW d \in Spaces', NEW e \in Spaces',
                        NEW t \in Tables, NEW u \in Tables,
                        directory'[d][t] # 0,
                        directory'[d][t] = directory'[e][u]
                 PROVE  d = e /\ t = u
      BY DEF TablesOwned
    <3>1. d \in Spaces /\ e \in Spaces
      BY <2>6, <2>7
    <3>2. QED
      BY <2>2, <2>6, <3>1 DEF TablesOwned
  <2>10. StructInv'
    BY <1>2, <2>0, <2>1, <2>4, <2>6, <2>8, <2>9 DEF IInv, StructInv
  <2>11. ASSUME NEW q \in Pages
         PROVE  /\ \A d \in Spaces : Entry(d, q)' = Entry(d, q)
                /\ Entry(b, q)' = Absent
    <3>1. q[1] \in Tables
      BY PageIs
    <3>2. Entry(b, q)' = Absent
      BY <2>7, <3>1 DEF Entry
    <3>3. \A d \in Spaces : Entry(d, q)' = Entry(d, q)
      BY <2>1, <2>6 DEF Entry
    <3>4. QED
      BY <3>2, <3>3
  <2>12. ASSUME ~shared_freed' PROVE OwnInv'
    <3>1. /\ OneOwner /\ WriteIsOwned /\ ~shared_freed
          /\ Spaces \cup DOMAIN table \cup MappedFrames \subseteq bitmap
          /\ (Spaces \cup DOMAIN table) \cap MappedFrames = {}
          /\ Spaces \cap DOMAIN table = {}
      BY <2>1, <2>12 DEF IInv, OwnInv
    <3>2. MappedFrames' = MappedFrames
      BY <2>6, <2>11, AbsentIs DEF MappedFrames
    <3>3. EntriesFrom(b, b, b)
      BY <2>6, <2>11 DEF EntriesFrom
    <3>4. OneOwner' /\ WriteIsOwned'
      BY <2>2, <2>4, <3>1, <3>3, OwnersKept
    <3>5. QED
      BY <1>2, <2>0, <2>1, <2>4, <2>6, <3>1, <3>2, <3>4 DEF OwnInv
  <2>13. QED
    BY <2>10, <2>12 DEF IInv
<1>3. QED
  BY <1>1, <1>2 DEF CreateAddressSpace, free

-----------------------------------------------------------------------------
(* The frames that go back are the space's own directory and tables, which *)
(* no other space has.                                                     *)
LEMMA DestroyAddressSpaceStep ==
  ASSUME IInv, ~halted, NEW d \in Spaces, DestroyAddressSpace(d)
  PROVE  IInv'
<1>0. PICK Own : Own = {directory[d][t] : t \in Tables} \ {0}
  OBVIOUS
<1>1. /\ d # cr3 /\ bitmap' = bitmap \ (Own \cup {d})
      /\ table' = Drop(table, Own) /\ directory' = Drop(directory, {d})
      /\ UNCHANGED <<data, cr3, halted, shared_freed>>
  BY <1>0 DEF DestroyAddressSpace
<1>2. TypeOK /\ TablesOwned /\ Spaces \cap DOMAIN table = {}
      /\ Spaces \cup DOMAIN table \subseteq bitmap
  BY DEF IInv, StructInv
<1>3. Own \subseteq DOMAIN table
  <2>1. \A t \in Tables : directory[d][t] \in {0} \cup DOMAIN table
    BY <1>2 DEF TypeOK
  <2>2. QED
    BY <1>0, <2>1
<1>4. /\ DOMAIN table' = DOMAIN table \ Own
      /\ \A f \in DOMAIN table' : table'[f] = table[f]
      /\ Spaces' = Spaces \ {d}
      /\ \A e \in Spaces' : directory'[e] = directory[e]
  BY <1>1 DEF Drop, Spaces
<1>5. ASSUME NEW e \in Spaces', NEW t \in Tables
      PROVE  directory[e][t] \in {0} \cup DOMAIN table'
  <2>1. directory[e][t] \in {0} \cup DOMAIN table /\ e # d /\ e \in Spaces
    BY <1>2, <1>4 DEF TypeOK
  <2>2. directory[e][t] # 0 => directory[e][t] \notin Own
    BY <1>0, <1>2, <2>1 DEF TablesOwned
  <2>3. QED
    BY <1>4, <2>1, <2>2
<1>6. TypeOK'
  <2>1. \A e \in Spaces' : directory'[e] \in [Tables -> {0} \cup DOMAIN table']
    <3> SUFFICES ASSUME NEW e \in Spaces'
                 PROVE  directory'[e] \in [Tables -> {0} \cup DOMAIN table']
      OBVIOUS
    <3>1. directory[e] \in [Tables -> {0} \cup DOMAIN table]
      BY <1>2, <1>4 DEF TypeOK
    <3>2. QED
      BY <1>4, <1>5, <3>1
  <2>2. \A f \in DOMAIN table' : table'[f] \in [Slots -> Entries]
    BY <1>2, <1>4 DEF TypeOK
  <2>3. cr3' \in Spaces' \cup {KERNEL}
    BY <1>1, <1>2, <1>4 DEF TypeOK
  <2>4. QED
    BY <1>1, <1>2, <1>4, <2>1, <2>2, <2>3 DEF TypeOK
<1>7. StructInv'
  <2>1. TablesOwned'
    BY <1>2, <1>4 DEF TablesOwned
  <2>2. Spaces' \cup DOMAIN table' \subseteq bitmap'
    BY <1>1, <1>2, <1>3, <1>4
  <2>3. QED
    BY <1>2, <1>4, <1>6, <2>1, <2>2 DEF StructInv
<1>8. ASSUME NEW e \in Spaces', NEW q \in Pages
      PROVE  Entry(e, q)' = Entry(e, q)
  <2>1. q[1] \in Tables
    BY PageIs
  <2>2. /\ directory'[e][q[1]] = directory[e][q[1]]
        /\ directory[e][q[1]] # 0 =>
             table'[directory[e][q[1]]] = table[directory[e][q[1]]]
    BY <1>4, <1>5, <2>1
  <2>3. QED
    BY <2>2 DEF Entry
<1>9. ASSUME ~shared_freed' PROVE OwnInv'
  <2>1. OwnInv
    BY <1>1, <1>9 DEF IInv
  <2>2. MappedFrames' \subseteq MappedFrames
    BY <1>4, <1>8 DEF MappedFrames
  <2>3. OneOwner' /\ WriteIsOwned'
    BY <1>4, <1>8, <2>1 DEF OwnInv, OneOwner, WriteIsOwned
  <2>4. MappedFrames \cap (Own \cup {d}) = {}
    BY <1>3, <2>1 DEF OwnInv
  <2>5. Spaces' \cup DOMAIN table' \cup MappedFrames' \subseteq bitmap'
    BY <1>1, <1>2, <1>3, <1>4, <2>1, <2>2, <2>4 DEF OwnInv
  <2>6. QED
    BY <1>2, <1>4, <2>1, <2>2, <2>3, <2>5 DEF OwnInv
<1>10. QED
  BY <1>7, <1>9 DEF IInv

-----------------------------------------------------------------------------
(* One entry of a table that exists is set to a frame nobody mapped.       *)
LEMMA NewEntryStep ==
  ASSUME IInv, ~halted, NEW d \in Spaces, NEW p \in Pages, NEW e \in Entries,
         directory[d][p[1]] # 0, table' = SetEntry(d, p, e),
         UNCHANGED <<directory, cr3, shared_freed>>,
         NEW f \in FreeFrames,
         e.frame = f, ~e.cow, bitmap' = bitmap \cup {f},
         data' \in [Frames -> Values], UNCHANGED halted
  PROVE  IInv'
<1>1. TypeOK /\ TablesOwned /\ Spaces \cap DOMAIN table = {}
      /\ Spaces \cup DOMAIN table \subseteq bitmap
  BY DEF IInv, StructInv
<1>2. /\ DOMAIN table' = DOMAIN table
      /\ \A g \in DOMAIN table' : table'[g] \in [Slots -> Entries]
      /\ Entry(d, p)' = e
      /\ \A c \in Spaces : \A q \in Pages :
           <<c, q>> # <<d, p>> => Entry(c, q)' = Entry(c, q)
  BY SetEntryIs DEF IInv
<1>3. /\ f \in Frames /\ f # 0 /\ f \notin bitmap /\ f \notin Spaces
      /\ f \notin DOMAIN table /\ (~shared_freed => f \notin MappedFrames)
  BY FreshFrame
<1>4. Spaces' = Spaces
  BY DEF Spaces
<1>5. bitmap \subseteq bitmap' /\ bitmap' \subseteq Frames
  BY <1>1, <1>3 DEF TypeOK
<1>6. StructInv'
  BY <1>1, <1>2, <1>4, <1>5 DEF StructInv, TypeOK, TablesOwned
<1>7. ASSUME ~shared_freed' PROVE OwnInv'
  <2>1. OwnInv /\ ~shared_freed
    BY <1>7 DEF IInv
  <2>2. EntriesFrom(d, p, f)
    BY <1>2, <1>4 DEF EntriesFrom
  <2>3. /\ OneOwner' /\ WriteIsOwned'
        /\ MappedFrames' \subseteq MappedFrames \cup {f}
    BY <1>1, <1>3, <2>1, <2>2, OwnersKept DEF OwnInv
  <2>4. Spaces' \cup DOMAIN table' \cup MappedFrames' \subseteq bitmap'
    BY <1>2, <1>4, <2>1, <2>3 DEF OwnInv
  <2>5. QED
    BY <1>2, <1>3, <1>4, <2>1, <2>3, <2>4 DEF OwnInv
<1>8. QED
  BY <1>6, <1>7 DEF IInv

(* An entry is made absent, and its frame may go back to the bitmap.       *)
LEMMA ClearEntryStep ==
  ASSUME IInv, ~halted, NEW d \in Spaces, NEW p \in Pages,
         UnmapPage(d, p) \/ FreePage(d, p)
  PROVE  IInv'
<1>0. PICK f : f = Entry(d, p).frame
  OBVIOUS
<1>1. /\ f # 0 /\ table' = SetEntry(d, p, Absent)
      /\ UNCHANGED <<directory, data, cr3>>
      /\ \/ UNCHANGED <<bitmap, halted, shared_freed>>
         \/ /\ bitmap' = bitmap \ {f}
            /\ halted' = (f \in DOMAIN table \cup Spaces)
            /\ shared_freed' = (shared_freed \/ IsShared(d, p))
  BY <1>0 DEF UnmapPage, FreePage, Mapped
<1>2. TypeOK /\ TablesOwned /\ Spaces \cap DOMAIN table = {}
      /\ Spaces \cup DOMAIN table \subseteq bitmap
  BY DEF IInv, StructInv
<1>3. directory[d][p[1]] # 0 /\ f \in MappedFrames
  BY <1>0, <1>1, <1>2, EntryTypes
<1>4. /\ DOMAIN table' = DOMAIN table
      /\ \A g \in DOMAIN table' : table'[g] \in [Slots -> Entries]
      /\ Entry(d, p)' = Absent
      /\ \A c \in Spaces : \A q \in Pages :
           <<c, q>> # <<d, p>> => Entry(c, q)' = Entry(c, q)
  BY <1>1, <1>3, AbsentIs, SetEntryIs DEF IInv
<1>5. Spaces' = Spaces /\ bitmap' \subseteq bitmap
  BY <1>1 DEF Spaces
<1>6. halted' \in BOOLEAN /\ shared_freed' \in BOOLEAN
  <2>1. halted \in BOOLEAN /\ shared_freed \in BOOLEAN
    BY <1>2 DEF TypeOK
  <2>2. halted' \in BOOLEAN
    <3>1. CASE UNCHANGED halted
      BY <2>1, <3>1
    <3>2. CASE halted' = (f \in DOMAIN table \cup Spaces)
      BY <3>2, MembershipIsBoolean
    <3>3. QED
      BY <1>1, <3>1, <3>2
  <2>3. CASE UNCHANGED shared_freed
    BY <2>1, <2>2, <2>3
  <2>4. CASE shared_freed' = (shared_freed \/ IsShared(d, p))
    BY <2>2, <2>4, Zenon
  <2>5. QED
    BY <1>1, <2>3, <2>4
<1>7. ~halted' => Spaces' \cup DOMAIN table' \subseteq bitmap'
  BY <1>1, <1>2, <1>4, <1>5
<1>8. StructInv'
  <2>1. TypeOK'
    BY <1>1, <1>2, <1>4, <1>5, <1>6 DEF TypeOK
  <2>2. TablesOwned'
    BY <1>1, <1>2, <1>5 DEF TablesOwned
  <2>3. QED
    BY <1>2, <1>4, <1>5, <1>7, <2>1, <2>2 DEF StructInv
<1>9. ASSUME ~shared_freed' PROVE OwnInv'
  <2>1. ~shared_freed /\ (UNCHANGED bitmap \/ ~IsShared(d, p))
    <3>1. CASE UNCHANGED <<bitmap, halted, shared_freed>>
      BY <1>9, <3>1
    <3>2. CASE shared_freed' = (shared_freed \/ IsShared(d, p))
      BY <1>9, <3>2, Zenon
    <3>3. QED
      BY <1>1, <3>1, <3>2
  <2>2. OwnInv
    BY <2>1 DEF IInv
  <2>3. \A c \in Spaces : \A q \in Pages :
          Entry(c, q)' = Absent \/ Entry(c, q)' = Entry(c, q)
    BY <1>4
  <2>4. EntriesFrom(d, p, FRAMES + 1)
    BY <1>5, <2>3 DEF EntriesFrom
  <2>5. FRAMES + 1 # 0 /\ FRAMES + 1 \notin MappedFrames
    <3>1. FRAMES \in Nat
      BY VMMAssumption
    <3>2. MappedFrames \subseteq Frames
      BY <1>2, <2>2 DEF OwnInv, TypeOK
    <3>3. FRAMES + 1 \notin Frames
      BY <3>1 DEF Frames
    <3>4. QED
      BY <3>1, <3>2, <3>3
  <2>6. OneOwner' /\ WriteIsOwned'
    BY <1>2, <2>2, <2>4, <2>5, OwnersKept DEF OwnInv
  <2>7. MappedFrames' \subseteq MappedFrames
    BY <1>5, <2>3, AbsentIs DEF MappedFrames
  <2>8. ASSUME ~IsShared(d, p) PROVE f \notin MappedFrames'
    <3>1. ASSUME NEW c \in Spaces, NEW q \in Pages PROVE Entry(c, q)'.frame # f
      <4>1. CASE <<c, q>> = <<d, p>>
        BY <1>1, <1>4, <4>1, AbsentIs
      <4>2. CASE <<c, q>> # <<d, p>>
        BY <1>0, <1>4, <2>8, <4>2 DEF IsShared
      <4>3. QED
        BY <4>1, <4>2
    <3>2. QED
      BY <1>5, <3>1 DEF MappedFrames
  <2>9. f \notin Spaces \cup DOMAIN table
    BY <1>3, <2>2 DEF OwnInv
  <2>10. Spaces' \cup DOMAIN table' \cup MappedFrames' \subseteq bitmap'
    BY <1>1, <1>4, <1>5, <2>1, <2>2, <2>7, <2>8, <2>9 DEF OwnInv
  <2>11. QED
    BY <1>2, <1>4, <1>5, <2>2, <2>6, <2>7, <2>10 DEF OwnInv
<1>10. QED
  BY <1>8, <1>9 DEF IInv

-----------------------------------------------------------------------------
(* A page is mapped: in a table that exists, in a new table, or not at all *)
(* because there is no frame for the table.                                *)
LEMMA AllocatePageStep ==
  ASSUME IInv, ~halted, NEW d \in Spaces, NEW p \in Pages,
         NEW rw \in BOOLEAN, AllocatePage(d, p, rw)
  PROVE  IInv'
<1>0. PICK f, t : f = Block(1) /\ t = Block(2)
  OBVIOUS
<1>1. /\ f # 0 /\ MapPage(d, p, f, rw, t)
      /\ UNCHANGED <<cr3, halted, shared_freed>>
  BY <1>0 DEF AllocatePage
<1>2. f \in FreeFrames /\ (t # 0 => t \in FreeFrames /\ t # f)
  BY <1>0, <1>1, BlocksAreFree
<1>3. TypeOK /\ TablesOwned /\ Spaces \cap DOMAIN table = {}
      /\ Spaces \cup DOMAIN table \subseteq bitmap
  BY DEF IInv, StructInv
<1>4. /\ f \in Frames /\ f # 0 /\ f \notin bitmap /\ f \notin Spaces
      /\ f \notin DOMAIN table /\ (~shared_freed => f \notin MappedFrames)
  BY <1>2, FreshFrame
<1>5. PICK e : e = [frame |-> f, write |-> rw, cow |-> FALSE]
  OBVIOUS
<1>6. e \in Entries /\ e.frame = f /\ ~e.cow
  BY <1>4, <1>5, VMMAssumption DEF Entries, Frames
<1>7. CASE /\ directory[d][p[1]] # 0 /\ table' = SetEntry(d, p, e)
           /\ bitmap' = bitmap \cup {f} /\ UNCHANGED <<directory, data>>
  BY <1>1, <1>2, <1>3, <1>6, <1>7, NewEntryStep DEF TypeOK
<1>8. CASE /\ directory[d][p[1]] = 0 /\ t = 0
           /\ bitmap' = bitmap \cup {f}
           /\ UNCHANGED <<directory, table, data>>
  <2>1. bitmap \subseteq bitmap' /\ bitmap' \subseteq Frames
    BY <1>3, <1>4, <1>8 DEF TypeOK
  <2>2. QED
    BY <1>1, <1>3, <1>8, <2>1, SameTables DEF TypeOK
<1>9. CASE /\ directory[d][p[1]] = 0 /\ t # 0
           /\ directory' = [directory EXCEPT ![d] = [@ EXCEPT ![p[1]] = t]]
           /\ table' = Put(table, t, [s \in Slots |->
                                        IF s = p[2] THEN e ELSE Absent])
           /\ bitmap' = bitmap \cup {f, t}
           /\ data' = Cleared({t})
  <2>1. /\ t \in Frames /\ t \notin bitmap /\ t \notin Spaces /\ t # 0 /\ t # f
        /\ t \notin DOMAIN table /\ (~shared_freed => t \notin MappedFrames)
    BY <1>2, <1>9, FreshFrame
  <2>2. p[1] \in Tables /\ p[2] \in Slots
    BY PageIs
  <2>3. /\ DOMAIN table' = DOMAIN table \cup {t}
        /\ \A g \in DOMAIN table : table'[g] = table[g]
        /\ table'[t] = [s \in Slots |-> IF s = p[2] THEN e ELSE Absent]
    BY <1>9, <2>1 DEF Put
  <2>4. directory[d] \in [Tables -> {0} \cup DOMAIN table]
    BY <1>3 DEF TypeOK
  <2>5. /\ Spaces' = Spaces
        /\ directory'[d] = [directory[d] EXCEPT ![p[1]] = t]
        /\ \A c \in Spaces : c # d => directory'[c] = directory[c]
    BY <1>9 DEF Spaces
  <2>6. /\ directory'[d] \in [Tables -> {0} \cup DOMAIN table']
        /\ directory'[d][p[1]] = t
        /\ \A u \in Tables : u # p[1] => directory'[d][u] = directory[d][u]
    BY <2>2, <2>3, <2>4, <2>5
  <2>7. ASSUME NEW c \in Spaces, NEW u \in Tables
        PROVE  /\ directory[c][u] \in {0} \cup DOMAIN table
               /\ <<c, u>> # <<d, p[1]>> => directory'[c][u] = directory[c][u]
    BY <1>3, <2>5, <2>6 DEF TypeOK
  <2>8. TypeOK'
    <3>1. \A c \in Spaces' : directory'[c] \in [Tables -> {0} \cup DOMAIN table']
      <4> SUFFICES ASSUME NEW c \in Spaces, c # d
                   PROVE  directory[c] \in [Tables -> {0} \cup DOMAIN table']
        BY <2>5, <2>6
      <4>1. directory[c] \in [Tables -> {0} \cup DOMAIN table]
        BY <1>3 DEF TypeOK
      <4>2. QED
        BY <2>3, <4>1
    <3>2. \A g \in DOMAIN table' : table'[g] \in [Slots -> Entries]
      BY <1>3, <1>6, <2>3, AbsentIs DEF TypeOK
    <3>3. data' \in [Frames -> Values]
      BY <1>3, <1>9, ClearedIs
    <3>4. bitmap' \subseteq Frames /\ DOMAIN table' \subseteq Frames
      BY <1>3, <1>4, <1>9, <2>1, <2>3 DEF TypeOK
    <3>5. QED
      BY <1>1, <1>3, <2>5, <3>1, <3>2, <3>3, <3>4 DEF TypeOK
  <2>9. TablesOwned'
    <3> SUFFICES ASSUME NEW c \in Spaces, NEW b \in Spaces,
                        NEW v \in Tables, NEW u \in Tables,
                        directory'[c][v] # 0,
                        directory'[c][v] = directory'[b][u]
                 PROVE  c = b /\ v = u
      BY <2>5 DEF TablesOwned
    <3>1. CASE <<c, v>> = <<d, p[1]>>
      BY <2>1, <2>6, <2>7, <3>1
    <3>2. CASE <<b, u>> = <<d, p[1]>>
      BY <2>1, <2>6, <2>7, <3>2
    <3>3. CASE <<c, v>> # <<d, p[1]>> /\ <<b, u>> # <<d, p[1]>>
      BY <1>3, <2>7, <3>3 DEF TablesOwned
    <3>4. QED
      BY <3>1, <3>2, <3>3
  <2>10. StructInv'
    BY <1>1, <1>3, <1>9, <2>1, <2>3, <2>5, <2>8, <2>9 DEF StructInv
  <2>11. ASSUME NEW c \in Spaces, NEW q \in Pages
         PROVE  \/ Entry(c, q)' = Entry(c, q)
                \/ Entry(c, q)' = Absent
                \/ c = d /\ q = p /\ Entry(c, q)' = e
    <3>1. q[1] \in Tables /\ q[2] \in Slots
          /\ (q[1] = p[1] /\ q[2] = p[2] => q = p)
      BY PageIs
    <3>2. CASE c = d /\ q[1] = p[1]
      <4>1. Entry(c, q)' = table'[t][q[2]]
        BY <2>1, <2>6, <3>2 DEF Entry
      <4>2. table'[t][q[2]] = IF q[2] = p[2] THEN e ELSE Absent
        BY <2>3, <3>1
      <4>3. QED
        BY <3>1, <3>2, <4>1, <4>2
    <3>3. CASE <<c, q[1]>> # <<d, p[1]>>
      <4>1. /\ directory[c][q[1]] \in {0} \cup DOMAIN table
            /\ directory'[c][q[1]] = directory[c][q[1]]
        BY <2>7, <3>1, <3>3
      <4>2. Entry(c, q)' = Entry(c, q)
        BY <2>3, <4>1 DEF Entry
      <4>3. QED
        BY <4>2
    <3>4. QED
      BY <3>2, <3>3
  <2>12. ASSUME ~shared_freed' PROVE OwnInv'
    <3>1. OwnInv /\ ~shared_freed
      BY <1>1, <2>12 DEF IInv
    <3>2. EntriesFrom(d, p, f)
      BY <1>6, <2>5, <2>11 DEF EntriesFrom
    <3>3. /\ OneOwner' /\ WriteIsOwned'
          /\ MappedFrames' \subseteq MappedFrames \cup {f}
      BY <1>3, <1>4, <3>1, <3>2, OwnersKept DEF OwnInv
    <3>4. Spaces' \cup DOMAIN table' \cup MappedFrames' \subseteq bitmap'
      BY <1>9, <2>3, <2>5, <3>1, <3>3 DEF OwnInv
    <3>5. QED
      BY <1>3, <1>4, <2>1, <2>3, <2>5, <3>1, <3>3, <3>4 DEF OwnInv
  <2>13. QED
    BY <2>10, <2>12 DEF IInv
<1>10. QED
  BY <1>1, <1>5, <1>7, <1>8, <1>9 DEF MapPage

-----------------------------------------------------------------------------
LEMMA WriteStep ==
  ASSUME IInv, ~halted, NEW level, NEW p \in Pages, NEW v \in Values,
         Write(level, p, v)
  PROVE  IInv'
<1>1. TypeOK
  BY DEF IInv, StructInv
<1>2. UNCHANGED <<bitmap, directory, table, cr3, shared_freed>>
  BY DEF Write
<1>3. data' \in [Frames -> Values]
  BY <1>1 DEF Write, TypeOK
<1>4. halted' \in BOOLEAN
  <2>1. halted' = (Entry(cr3, p).frame \in DOMAIN table \cup Spaces)
    BY DEF Write
  <2>2. QED
    BY <2>1, MembershipIsBoolean
<1>5. QED
  BY <1>1, <1>2, <1>3, <1>4, SameTables DEF TypeOK

(* The fault gives the running space a frame of its own.                   *)
LEMMA WriteFaultStep ==
  ASSUME IInv, ~halted, NEW level, NEW p \in Pages, WriteFault(level, p)
  PROVE  IInv'
<1>1. TypeOK
  BY DEF IInv, StructInv
<1>2. CASE halted' = TRUE /\ UNCHANGED <<bitmap, table, data>>
  <2>1. UNCHANGED <<directory, cr3, shared_freed>>
    BY DEF WriteFault
  <2>2. QED
    BY <1>1, <1>2, <2>1, SameTables DEF TypeOK
<1>3. CASE /\ Mapped(cr3, p) /\ Block(1) # 0
           /\ Resolve(p) /\ UNCHANGED halted
  <2>1. PICK f, d : f = Block(1) /\ d = cr3
    OBVIOUS
  <2>2. d \in Spaces /\ UNCHANGED <<directory, cr3, shared_freed>>
    BY <1>1, <2>1 DEF WriteFault, TypeOK
  <2>3. f \in FreeFrames
    BY <1>3, <2>1, BlocksAreFree
  <2>4. f \in Frames
    BY <2>3, FreshFrame
  <2>5. PICK e : e = [frame |-> f, write |-> TRUE, cow |-> FALSE]
    OBVIOUS
  <2>6. e \in Entries /\ e.frame = f /\ ~e.cow
    BY <2>4, <2>5, VMMAssumption DEF Entries, Frames
  <2>7. /\ bitmap' = bitmap \cup {f} /\ table' = SetEntry(d, p, e)
        /\ data' = [data EXCEPT ![f] = View(d, p)]
    BY <1>3, <2>1, <2>5 DEF Resolve
  <2>8. directory[d][p[1]] # 0 /\ Entry(d, p).frame \in Frames
    BY <1>1, <1>3, <2>1, <2>2, EntryTypes DEF Mapped
  <2>9. data' \in [Frames -> Values]
    BY <1>1, <2>7, <2>8 DEF TypeOK, View
  <2>10. QED
    BY <1>3, <2>2, <2>3, <2>6, <2>7, <2>8, <2>9, NewEntryStep
<1>4. QED
  BY <1>2, <1>3 DEF WriteFault

-----------------------------------------------------------------------------
(* The place of table t among the tables of P that are copied.             *)
Rank(P, t) == Cardinality({u \in P : u <= t})

LEMMA RankIs ==
  ASSUME NEW P \in SUBSET Tables
  PROVE  /\ IsFiniteSet(P) /\ Cardinality(P) \in Nat
         /\ \A t \in P : Rank(P, t) \in 1 .. Cardinality(P)
         /\ \A t, u \in P : Rank(P, t) = Rank(P, u) => t = u
<1>1. IsFiniteSet(P) /\ Cardinality(P) \in Nat /\ P \subseteq Int
  BY VMMAssumption, FS_Subset, FS_CardinalityType
<1>2. ASSUME NEW t \in P
      PROVE  /\ IsFiniteSet({u \in P : u <= t})
             /\ Rank(P, t) \in 1 .. Cardinality(P)
  <2> DEFINE L == {u \in P : u <= t}
  <2>1. L \in SUBSET P /\ t \in L
    BY <1>1
  <2> HIDE DEF L
  <2>2. /\ IsFiniteSet(L) /\ Cardinality(L) \in Nat
        /\ Cardinality(L) <= Cardinality(P)
    BY <1>1, <2>1, FS_Subset, FS_CardinalityType
  <2>3. Cardinality(L) # 0
    BY <2>1, <2>2, FS_EmptySet
  <2>4. QED
    BY <1>1, <2>2, <2>3 DEF Rank, L
<1>3. ASSUME NEW t \in P, NEW u \in P, t < u
      PROVE  Rank(P, t) # Rank(P, u)
  <2> DEFINE L == {x \in P : x <= t}
             H == {x \in P : x <= u}
  <2>1. L \in SUBSET H /\ u \in H /\ u \notin L
    <3>1. /\ \A x \in P : x <= t => x <= u
          /\ u <= u /\ ~(u <= t)
      BY <1>1, <1>3
    <3>2. QED
      BY <3>1
  <2>2. IsFiniteSet(H)
    BY <1>2
  <2> HIDE DEF L, H
  <2>3. Cardinality(H) = Cardinality(L) => H = L
    BY <2>1, <2>2, FS_Subset
  <2>4. QED
    BY <2>1, <2>3 DEF Rank, L, H
<1>4. \A t, u \in P : t < u \/ u < t \/ t = u
  BY <1>1
<1>5. QED
  BY <1>1, <1>2, <1>3, <1>4

(* The directory and the tables of a clone are free frames, all different. *)
LEMMA CloneFrames ==
  ASSUME NEW P \in SUBSET Tables,
         free >= 1 + KERNEL_TABLES + Cardinality(P)
  PROVE  /\ {Block(i) : i \in 1 .. 1 + KERNEL_TABLES + Cardinality(P)}
              \subseteq FreeFrames
         /\ Block(1) \in {Block(i) : i \in 1 .. 1 + KERNEL_TABLES + Cardinality(P)}
         /\ \A t \in P :
              /\ Block(1 + KERNEL_TABLES + Rank(P, t))
                   \in {Block(i) : i \in 1 .. 1 + KERNEL_TABLES + Cardinality(P)}
              /\ Block(1 + KERNEL_TABLES + Rank(P, t)) # Block(1)
         /\ \A t, u \in P :
              Block(1 + KERNEL_TABLES + Rank(P, t))
                = Block(1 + KERNEL_TABLES + Rank(P, u)) => t = u
<1> DEFINE n == 1 + KERNEL_TABLES + Cardinality(P)
           k(t) == 1 + KERNEL_TABLES + Rank(P, t)
<1>1. /\ KERNEL_TABLES \in Nat /\ free \in Nat /\ Cardinality(P) \in Nat
      /\ \A t \in P : Rank(P, t) \in 1 .. Cardinality(P)
  BY VMMAssumption, FreeFinite, RankIs
<1>2. /\ 1 \in 1 .. n /\ n \in Nat
      /\ \A t \in P : k(t) \in 1 .. n /\ k(t) # 1
  BY <1>1
<1>3. \A i \in 1 .. n : i \in Nat \ {0} /\ ~(free < i)
  BY <1>1
<1> HIDE DEF n, k
<1>4. \A i \in 1 .. n : Block(i) # 0 /\ Block(i) \in FreeFrames
  BY <1>3, BlocksAreFree
<1>5. \A i, j \in 1 .. n : Block(i) = Block(j) => i = j
  BY <1>3, <1>4, BlocksAreFree
<1>6. \A t \in P : Block(k(t)) # Block(1)
  BY <1>2, <1>5
<1>7. ASSUME NEW t \in P, NEW u \in P, Block(k(t)) = Block(k(u))
      PROVE  t = u
  <2>1. k(t) = k(u)
    BY <1>2, <1>5, <1>7
  <2>2. Rank(P, t) = Rank(P, u)
    BY <1>1, <2>1 DEF k
  <2>3. QED
    BY <2>2, RankIs
<1>8. {Block(i) : i \in 1 .. n} \subseteq FreeFrames
  BY <1>4
<1>9. /\ Block(1) \in {Block(i) : i \in 1 .. n}
      /\ \A t \in P : Block(k(t)) \in {Block(i) : i \in 1 .. n}
  BY <1>2
<1>10. QED
  BY <1>6, <1>7, <1>8, <1>9 DEF n, k

(* A clone of src with directory b that has, for each table of src (those  *)
(* in P), the new table NT[t], all of them among the frames of U.          *)
CloneOf(src, b, P, NT, U) ==
  /\ P = {t \in Tables : directory[src][t] # 0}
  /\ NT \in [Tables -> {0} \cup FreeFrames]
  /\ U \in SUBSET FreeFrames /\ b \in U
  /\ \A t \in Tables \ P : NT[t] = 0
  /\ \A t \in P : NT[t] \in U /\ NT[t] # b
  /\ \A t, u \in P : NT[t] = NT[u] => t = u
  /\ bitmap' = bitmap \cup U
  /\ directory' = Put(directory, b, NT)
  /\ DOMAIN table' = DOMAIN table \cup {NT[t] : t \in P}
  /\ \A f \in DOMAIN table : table'[f] = table[f]
  /\ \A t \in P : table'[NT[t]] =
                    [s \in Slots |-> Shared(table[directory[src][t]][s])]
  /\ data' = Cleared(U)
  /\ UNCHANGED <<cr3, halted, shared_freed>>

LEMMA CloneSucceeds ==
  ASSUME IInv, ~halted, NEW src \in Spaces, NEW b, NEW P, NEW NT, NEW U,
         CloneOf(src, b, P, NT, U)
  PROVE  IInv'
<1> USE DEF CloneOf
<1>1. TypeOK /\ TablesOwned /\ Spaces \cap DOMAIN table = {}
      /\ Spaces \cup DOMAIN table \subseteq bitmap
  BY DEF IInv, StructInv
<1>2. /\ b \in Frames /\ b # 0 /\ b \notin bitmap /\ b \notin Spaces
      /\ b \notin DOMAIN table /\ (~shared_freed => b \notin MappedFrames)
  BY FreshFrame
<1>3. \A t \in P : /\ NT[t] \in Frames /\ NT[t] # 0 /\ NT[t] \notin bitmap
                   /\ NT[t] \notin Spaces /\ NT[t] \notin DOMAIN table
                   /\ ~shared_freed => NT[t] \notin MappedFrames
  BY FreshFrame
<1>4. /\ Spaces' = Spaces \cup {b} /\ directory'[b] = NT
      /\ \A d \in Spaces : directory'[d] = directory[d]
  BY <1>2 DEF Put, Spaces
<1>5. /\ DOMAIN table' = DOMAIN table \cup {NT[t] : t \in P}
      /\ \A f \in DOMAIN table : table'[f] = table[f]
  OBVIOUS
<1>6. ASSUME NEW t \in P
      PROVE  table'[NT[t]] = [s \in Slots |-> Shared(table[directory[src][t]][s])]
  OBVIOUS
<1>7. \A t \in P : directory[src][t] \in DOMAIN table /\ t \in Tables
  BY <1>1 DEF TypeOK
<1>8. TypeOK'
  <2>1. \A d \in Spaces' : directory'[d] \in [Tables -> {0} \cup DOMAIN table']
    <3>1. NT \in [Tables -> {0} \cup DOMAIN table']
      BY <1>5
    <3>2. ASSUME NEW d \in Spaces
          PROVE  directory[d] \in [Tables -> {0} \cup DOMAIN table']
      <4>1. directory[d] \in [Tables -> {0} \cup DOMAIN table]
        BY <1>1 DEF TypeOK
      <4>2. QED
        BY <1>5, <4>1
    <3>3. QED
      BY <1>4, <3>1, <3>2
  <2>2. \A f \in DOMAIN table' : table'[f] \in [Slots -> Entries]
    <3>1. ASSUME NEW t \in P
          PROVE  table'[NT[t]] \in [Slots -> Entries]
      <4>1. table[directory[src][t]] \in [Slots -> Entries]
        BY <1>1, <1>7 DEF TypeOK
      <4>2. \A s \in Slots : Shared(table[directory[src][t]][s]) \in Entries
        BY <4>1, SharedIs
      <4>3. [s \in Slots |-> Shared(table[directory[src][t]][s])] \in [Slots -> Entries]
        BY <4>2
      <4>4. QED
        BY <1>6, <4>3
    <3>2. \A f \in DOMAIN table : table'[f] \in [Slots -> Entries]
      BY <1>1, <1>5 DEF TypeOK
    <3>3. QED
      BY <1>5, <3>1, <3>2
  <2>3. data' \in [Frames -> Values]
    BY <1>1, ClearedIs
  <2>4. bitmap' \subseteq Frames /\ DOMAIN table' \subseteq Frames
    BY <1>1, <1>3, <1>5 DEF TypeOK, FreeFrames
  <2>5. QED
    BY <1>1, <1>2, <1>4, <2>1, <2>2, <2>3, <2>4 DEF TypeOK
<1>9. TablesOwned'
  <2> SUFFICES ASSUME NEW d \in Spaces', NEW e \in Spaces',
                      NEW t \in Tables, NEW u \in Tables,
                      directory'[d][t] # 0,
                      directory'[d][t] = directory'[e][u]
               PROVE  d = e /\ t = u
    BY DEF TablesOwned
  <2>1. ASSUME NEW c \in Spaces, NEW v \in Tables
        PROVE  directory'[c][v] \in {0} \cup DOMAIN table
    BY <1>1, <1>4 DEF TypeOK
  <2>2. CASE d = b /\ e = b
    <3>1. NT[t] # 0 /\ NT[t] = NT[u]
      BY <1>4, <2>2
    <3>2. t \in P /\ u \in P
      BY <3>1
    <3>3. t = u
      <4>1. \A v, w \in P : NT[v] = NT[w] => v = w
        OBVIOUS
      <4> HIDE DEF CloneOf
      <4>2. QED
        BY <3>1, <3>2, <4>1
    <3>4. QED
      BY <2>2, <3>3
  <2>3. CASE d = b /\ e # b
    <3>1. e \in Spaces /\ t \in P /\ directory'[d][t] = NT[t]
      BY <1>4, <2>3
    <3>2. directory'[e][u] \in {0} \cup DOMAIN table
      BY <2>1, <3>1
    <3> HIDE DEF CloneOf
    <3>3. QED
      BY <1>3, <3>1, <3>2
  <2>4. CASE d # b /\ e = b
    <3>1. d \in Spaces /\ u \in P /\ directory'[e][u] = NT[u]
      BY <1>4, <2>4
    <3>2. directory'[d][t] \in {0} \cup DOMAIN table
      BY <2>1, <3>1
    <3> HIDE DEF CloneOf
    <3>3. QED
      BY <1>3, <3>1, <3>2
  <2>5. CASE d # b /\ e # b
    BY <1>1, <1>4, <2>5 DEF TablesOwned
  <2>6. QED
    BY <2>2, <2>3, <2>4, <2>5
<1>10. StructInv'
  <2>1. Spaces' \cap DOMAIN table' = {}
    BY <1>1, <1>2, <1>3, <1>4, <1>5
  <2>2. Spaces' \cup DOMAIN table' \subseteq bitmap'
    BY <1>1, <1>4, <1>5
  <2>3. QED
    BY <1>8, <1>9, <2>1, <2>2 DEF StructInv
<1>11. ASSUME NEW q \in Pages
       PROVE  /\ \A d \in Spaces : Entry(d, q)' = Entry(d, q)
              /\ Entry(b, q)' = Absent \/ Entry(b, q)' = Shared(Entry(src, q))
  <2>1. q[1] \in Tables /\ q[2] \in Slots
    BY PageIs
  <2>2. ASSUME NEW d \in Spaces PROVE Entry(d, q)' = Entry(d, q)
    <3>1. directory[d][q[1]] \in {0} \cup DOMAIN table
      BY <1>1, EntryTypes
    <3>2. QED
      BY <1>4, <1>5, <3>1 DEF Entry
  <2>3. CASE q[1] \in P
    <3>1. Entry(b, q)' = table'[NT[q[1]]][q[2]]
      BY <1>3, <1>4, <2>3 DEF Entry
    <3>2. Entry(src, q) = table[directory[src][q[1]]][q[2]]
      BY <2>3 DEF Entry
    <3>3. table'[NT[q[1]]][q[2]] = Shared(table[directory[src][q[1]]][q[2]])
      <4>1. table'[NT[q[1]]] =
              [s \in Slots |-> Shared(table[directory[src][q[1]]][s])]
        BY <1>6, <2>3
      <4>2. QED
        BY <2>1, <4>1
    <3>4. QED
      BY <2>2, <3>1, <3>2, <3>3
  <2>4. CASE q[1] \notin P
    <3>1. directory'[b][q[1]] = 0
      BY <1>4, <2>1, <2>4
    <3>2. Entry(b, q)' = Absent
      BY <3>1 DEF Entry
    <3>3. QED
      BY <2>2, <3>2
  <2>5. QED
    BY <2>3, <2>4
<1>12. ASSUME ~shared_freed' PROVE OwnInv'
  <2>1. OwnInv /\ ~shared_freed
    BY <1>12 DEF IInv
  <2>2. EntriesFrom(b, b, b)
    BY <1>4, <1>11 DEF EntriesFrom
  <2>3. OneOwner' /\ WriteIsOwned'
    BY <1>1, <1>2, <2>1, <2>2, OwnersKept DEF OwnInv
  <2>4. MappedFrames' \subseteq MappedFrames
    <3>1. ASSUME NEW d \in Spaces', NEW q \in Pages, Entry(d, q)'.frame # 0
          PROVE  Entry(d, q)'.frame \in MappedFrames
      <4>1. CASE d \in Spaces
        BY <1>1, <1>11, <3>1, <4>1, EntryTypes
      <4>2. CASE d = b
        <5>1. Entry(b, q)' = Shared(Entry(src, q))
          BY <1>11, <3>1, <4>2, AbsentIs
        <5>2. Shared(Entry(src, q)).frame = Entry(src, q).frame
          BY <1>1, EntryTypes, SharedIs
        <5>3. QED
          BY <1>1, <3>1, <4>2, <5>1, <5>2, EntryTypes
      <4>3. QED
        BY <1>4, <4>1, <4>2
    <3>2. QED
      BY <3>1 DEF MappedFrames
  <2>5. Spaces' \cup DOMAIN table' \cup MappedFrames' \subseteq bitmap'
    BY <1>4, <1>5, <2>1, <2>4 DEF OwnInv
  <2>6. Spaces' \cap DOMAIN table' = {}
    BY <1>10 DEF StructInv
  <2>7. (Spaces' \cup DOMAIN table') \cap MappedFrames' = {}
    BY <1>2, <1>3, <1>4, <1>5, <2>1, <2>4 DEF OwnInv
  <2>8. QED
    BY <2>3, <2>5, <2>6, <2>7 DEF OwnInv
<1>13. QED
  BY <1>10, <1>12 DEF IInv

LEMMA CloneAddressSpaceStep ==
  ASSUME IInv, ~halted, NEW src \in Spaces, CloneAddressSpace(src)
  PROVE  IInv'
<1> DEFINE Present == {t \in Tables : directory[src][t] # 0}
           New(t) ==
             IF t \in Present
             THEN Block(1 + KERNEL_TABLES + Cardinality({u \in Present : u <= t}))
             ELSE 0
           need == 1 + KERNEL_TABLES + Cardinality(Present)
           Used == {Block(i) : i \in 1 .. need}
           Domain == DOMAIN table \cup {New(t) : t \in Present}
           NewEntries(t) == [s \in Slots |-> Shared(table[directory[src][t]][s])]
           Old(f) == CHOOSE u \in Present : New(u) = f
           Fails ==
             /\ Cardinality(FreeFrames) \in KERNEL_TABLES + 1 .. need - 1
             /\ bitmap' = bitmap \cup KernelCopies
             /\ data' = Cleared(FreeFrames)
             /\ UNCHANGED <<directory, table>>
           Succeeds ==
             /\ Cardinality(FreeFrames) >= need
             /\ bitmap' = bitmap \cup Used
             /\ directory' = Put(directory, Block(1), [t \in Tables |-> New(t)])
             /\ table' = [f \in Domain |-> IF f \in DOMAIN table THEN table[f]
                                           ELSE NewEntries(Old(f))]
             /\ data' = Cleared(Used)
<1>1. /\ CreateFails \/ Fails \/ Succeeds
      /\ UNCHANGED <<cr3, halted, shared_freed>>
  BY DEF CloneAddressSpace
<1>2. TypeOK
  BY DEF IInv, StructInv
<1>3. CASE CreateFails
  BY <1>1, <1>3, CreateFailsStep
<1>4. CASE Fails
  <2>1. free > KERNEL_TABLES
    <3>1. free \in Nat /\ KERNEL_TABLES \in Nat /\ Cardinality(Present) \in Nat
      BY FreeFinite, VMMAssumption, RankIs
    <3>2. QED
      BY <1>4, <3>1 DEF free
  <2>2. bitmap \subseteq bitmap' /\ bitmap' \subseteq Frames
    BY <1>2, <1>4, <2>1, KernelCopiesFree DEF TypeOK, FreeFrames
  <2>3. data' \in [Frames -> Values]
    BY <1>2, <1>4, ClearedIs
  <2>4. UNCHANGED <<directory, table>>
    BY <1>4
  <2>5. QED
    BY <1>1, <1>2, <2>2, <2>3, <2>4, SameTables DEF TypeOK
<1>5. CASE Succeeds
  <2>1. PICK P, b, U, NT : P = Present /\ b = Block(1) /\ U = Used
                           /\ NT = [t \in Tables |-> New(t)]
    OBVIOUS
  <2>2. P \in SUBSET Tables /\ P = {t \in Tables : directory[src][t] # 0}
    BY <2>1
  <2>3. /\ \A t \in P : NT[t] = Block(1 + KERNEL_TABLES + Rank(P, t))
        /\ \A t \in Tables \ P : NT[t] = 0
        /\ \A t \in P : NT[t] = New(t)
        /\ DOMAIN NT = Tables /\ NT = [t \in Tables |-> NT[t]]
    BY <2>1, <2>2 DEF Rank
  <2>4. /\ U = {Block(i) : i \in 1 .. 1 + KERNEL_TABLES + Cardinality(P)}
        /\ free >= 1 + KERNEL_TABLES + Cardinality(P)
    BY <1>5, <2>1 DEF free
  <2> HIDE DEF New, Present
  <2>5. /\ U \in SUBSET FreeFrames /\ b \in U
        /\ \A t \in P : NT[t] \in U /\ NT[t] # b
        /\ \A t, u \in P : NT[t] = NT[u] => t = u
    <3>1. U \subseteq FreeFrames /\ Block(1) \in U
      BY <2>2, <2>4, CloneFrames
    <3>2. \A t \in P : /\ Block(1 + KERNEL_TABLES + Rank(P, t)) \in U
                       /\ Block(1 + KERNEL_TABLES + Rank(P, t)) # Block(1)
      BY <2>2, <2>4, CloneFrames
    <3>3. \A t, u \in P : Block(1 + KERNEL_TABLES + Rank(P, t))
              = Block(1 + KERNEL_TABLES + Rank(P, u)) => t = u
      BY <2>2, <2>4, CloneFrames
    <3>4. QED
      BY <2>1, <2>3, <3>1, <3>2, <3>3
  <2>6. NT \in [Tables -> {0} \cup FreeFrames]
    BY <2>2, <2>3, <2>5
  <2>7. bitmap' = bitmap \cup U /\ directory' = Put(directory, b, NT)
        /\ data' = Cleared(U)
    BY <1>5, <2>1
  <2>8. /\ DOMAIN table' = DOMAIN table \cup {NT[t] : t \in P}
        /\ \A f \in DOMAIN table : table'[f] = table[f]
    BY <1>5, <2>1, <2>3
  <2>9. ASSUME NEW t \in P
        PROVE  table'[NT[t]] =
                 [s \in Slots |-> Shared(table[directory[src][t]][s])]
    <3>1. NT[t] \in Domain /\ NT[t] = New(t)
      BY <2>1, <2>3
    <3>2. NT[t] \notin DOMAIN table
      BY <2>5, FreshFrame
    <3>3. Old(NT[t]) = t
      <4>1. t \in Present /\ New(t) = NT[t]
            /\ \A u \in Present : New(u) = NT[t] => u = t
        BY <2>1, <2>3, <2>5
      <4>2. QED
        BY <4>1
    <3> HIDE DEF Old, Domain, NewEntries
    <3>4. table'[NT[t]] = NewEntries(Old(NT[t]))
      BY <1>5, <3>1, <3>2
    <3>5. QED
      BY <3>3, <3>4 DEF NewEntries
  <2>10. UNCHANGED <<cr3, halted, shared_freed>>
    BY <1>1
  <2>11. CloneOf(src, b, P, NT, U)
    BY <2>2, <2>3, <2>5, <2>6, <2>7, <2>8, <2>9, <2>10 DEF CloneOf
  <2>12. QED
    BY <2>11, CloneSucceeds
<1>6. QED
  BY <1>1, <1>3, <1>4, <1>5

-----------------------------------------------------------------------------
LEMMA InitIInv == Init => IInv
<1> SUFFICES ASSUME Init PROVE IInv
  OBVIOUS
<1>1. Spaces = {} /\ DOMAIN table = {}
  BY DEF Init, Spaces
<1>2. TypeOK
  BY <1>1, VMMAssumption DEF Init, TypeOK
<1>3. MappedFrames = {}
  BY <1>1 DEF MappedFrames
<1>4. QED
  BY <1>1, <1>2, <1>3
  DEF IInv, StructInv, TablesOwned, OwnInv, OneOwner, WriteIsOwned

LEMMA StutterStep ==
  ASSUME IInv, UNCHANGED vars
  PROVE  IInv'
<1>1. UNCHANGED <<bitmap, directory, table, data, cr3, halted, shared_freed>>
  BY DEF vars
<1>2. \A d, p : Entry(d, p)' = Entry(d, p)
  BY <1>1 DEF Entry
<1>3. MappedFrames' = MappedFrames /\ Spaces' = Spaces
  BY <1>1, <1>2 DEF MappedFrames, Spaces
<1>4. StructInv'
  BY <1>1, <1>3 DEF IInv, StructInv, TypeOK, TablesOwned
<1>5. ~shared_freed => OwnInv'
  BY <1>1, <1>2, <1>3 DEF IInv, OwnInv, OneOwner, WriteIsOwned
<1>6. QED
  BY <1>1, <1>4, <1>5 DEF IInv

LEMMA IInvHolds == Spec => []IInv
<1>1. IInv /\ [Next]_vars => IInv'
  <2> SUFFICES ASSUME IInv, [Next]_vars PROVE IInv'
    OBVIOUS
  <2>1. CASE UNCHANGED vars
    BY <2>1, StutterStep
  <2>2. CASE Next
    <3>1. ~halted
      BY <2>2 DEF Next
    <3>2. CASE CreateAddressSpace
      BY <3>1, <3>2, CreateAddressSpaceStep
    <3>3. ASSUME NEW d \in Spaces, CloneAddressSpace(d) PROVE IInv'
      BY <3>1, <3>3, CloneAddressSpaceStep
    <3>4. ASSUME NEW d \in Spaces, DestroyAddressSpace(d) PROVE IInv'
      BY <3>1, <3>4, DestroyAddressSpaceStep
    <3>5. ASSUME NEW d \in Spaces \cup {KERNEL}, SwitchAddressSpace(d) PROVE IInv'
      BY <3>1, <3>5, SameTables
      DEF SwitchAddressSpace, IInv, StructInv, TypeOK
    <3>6. ASSUME NEW d \in Spaces, NEW p \in Pages, NEW rw \in BOOLEAN,
                 AllocatePage(d, p, rw)
          PROVE  IInv'
      BY <3>1, <3>6, AllocatePageStep
    <3>7. ASSUME NEW d \in Spaces, NEW p \in Pages,
                 UnmapPage(d, p) \/ FreePage(d, p)
          PROVE  IInv'
      BY <3>1, <3>7, ClearEntryStep
    <3>8. ASSUME NEW level \in LEVELS, NEW p \in Pages, NEW v \in Values,
                 Write(level, p, v)
          PROVE  IInv'
      BY <3>1, <3>8, WriteStep
    <3>9. ASSUME NEW level \in LEVELS, NEW p \in Pages, WriteFault(level, p)
          PROVE  IInv'
      BY <3>1, <3>9, WriteFaultStep
    <3>10. QED
      BY <2>2, <3>2, <3>3, <3>4, <3>5, <3>6, <3>7, <3>8, <3>9 DEF Next
  <2>3. QED
    BY <2>1, <2>2
<1>2. QED
  BY InitIInv, <1>1, PTL DEF Spec

(* Whatever is created, cloned, faulted, freed or destroyed, and wherever  *)
(* memory ends, a frame that is a directory, a table or a mapped page is   *)
(* marked and is one of the three only, until free_page frees a page that  *)
(* two entries map (vmm.cpp:32-238, isr.cpp:50-90).                        *)
THEOREM MemoryIsSound == Spec => []MemorySound
<1>1. IInv => MemorySound
  BY DEF IInv, StructInv, OwnInv, MemorySound, FramesInUse
<1>2. QED
  BY IInvHolds, <1>1, PTL

(* Through any chain of clones and faults at most one entry of one address *)
(* space has the write bit for a frame (vmm.cpp:97-106, isr.cpp:64-79),    *)
(* until free_page frees a page that two entries map.                      *)
THEOREM OneEntryWrites == Spec => []OneWriter
<1>1. IInv => OneWriter
  <2> SUFFICES ASSUME IInv, ~shared_freed,
                      NEW d \in Spaces, NEW e \in Spaces,
                      NEW p \in Pages, NEW q \in Pages,
                      Entry(d, p).write, Entry(e, q).write,
                      Entry(d, p).frame = Entry(e, q).frame
               PROVE  d = e /\ p = q
    BY DEF OneWriter
  <2>1. OneOwner /\ WriteIsOwned
    BY DEF IInv, OwnInv
  <2>2. Entry(d, p).frame # 0 /\ ~Entry(d, p).cow /\ ~Entry(e, q).cow
    BY <2>1 DEF WriteIsOwned
  <2>3. QED
    BY <2>1, <2>2 DEF OneOwner
<1>2. QED
  BY IInvHolds, <1>1, PTL

-----------------------------------------------------------------------------
WrittenByProcess(f) ==
  /\ cr3 \in Spaces /\ UNCHANGED <<bitmap, directory, table>>
  /\ \E p \in Pages : /\ f = Entry(cr3, p).frame
                      /\ Entry(cr3, p).write \/ 0 \in LEVELS

(* What a step may do to data: clear or fill frames that were free, or     *)
(* write where the running space may write.                                *)
LEMMA DataChanges ==
  ASSUME IInv, Next, NEW f \in Frames, f \notin FreeFrames
  PROVE  data'[f] = data[f] \/ WrittenByProcess(f)
<1>1. TypeOK /\ data \in [Frames -> Values] /\ ~halted
  BY DEF IInv, StructInv, TypeOK, Next
<1>2. ASSUME NEW S, S \subseteq FreeFrames, data' = Cleared(S)
      PROVE  data'[f] = data[f]
  BY <1>2 DEF Cleared
<1>3. ASSUME CreateFails
      PROVE  data'[f] = data[f]
  <2>1. FreeFrames \subseteq FreeFrames
    OBVIOUS
  <2>2. QED
    BY <1>2, <1>3, <2>1 DEF CreateFails
<1>4. CASE CreateAddressSpace
  <2>1. ASSUME free > KERNEL_TABLES, data' = Cleared({Block(1)} \cup KernelCopies)
        PROVE  data'[f] = data[f]
    <3>1. free \in Nat /\ KERNEL_TABLES \in Nat
      BY FreeFinite, VMMAssumption
    <3>2. Block(1) \in FreeFrames
      BY <2>1, <3>1, BlockIs
    <3>3. {Block(1)} \cup KernelCopies \subseteq FreeFrames
      BY <2>1, <3>2, KernelCopiesFree
    <3>4. QED
      BY <1>2, <2>1, <3>3
  <2>2. QED
    BY <1>3, <1>4, <2>1 DEF CreateAddressSpace, free
<1>5. ASSUME NEW src \in Spaces, CloneAddressSpace(src)
      PROVE  data'[f] = data[f]
  <2> DEFINE P == {t \in Tables : directory[src][t] # 0}
             n == 1 + KERNEL_TABLES + Cardinality(P)
  <2>1. \/ CreateFails
        \/ data' = Cleared(FreeFrames)
        \/ free >= n /\ data' = Cleared({Block(i) : i \in 1 .. n})
    BY <1>5 DEF CloneAddressSpace, free
  <2>2. free >= n => {Block(i) : i \in 1 .. n} \subseteq FreeFrames
    BY CloneFrames
  <2> HIDE DEF n
  <2>3. CASE CreateFails
    BY <1>3, <2>3
  <2>4. CASE data' = Cleared(FreeFrames)
    <3>1. FreeFrames \subseteq FreeFrames
      OBVIOUS
    <3>2. QED
      BY <1>2, <2>4, <3>1
  <2>5. CASE free >= n /\ data' = Cleared({Block(i) : i \in 1 .. n})
    BY <1>2, <2>2, <2>5
  <2>6. QED
    BY <2>1, <2>3, <2>4, <2>5
<1>6. ASSUME NEW d \in Spaces, NEW p \in Pages, NEW rw \in BOOLEAN,
             AllocatePage(d, p, rw)
      PROVE  data'[f] = data[f]
  <2>1. UNCHANGED data \/ (Block(2) # 0 /\ data' = Cleared({Block(2)}))
    BY <1>6 DEF AllocatePage, MapPage
  <2>2. Block(2) # 0 => {Block(2)} \subseteq FreeFrames
    BY BlocksAreFree
  <2>3. QED
    BY <1>2, <2>1, <2>2
<1>7. ASSUME NEW level \in LEVELS, NEW p \in Pages, NEW v \in Values,
             Write(level, p, v)
      PROVE  data'[f] = data[f] \/ WrittenByProcess(f)
  <2>1. /\ cr3 \in Spaces /\ data' = [data EXCEPT ![Entry(cr3, p).frame] = v]
        /\ UNCHANGED <<bitmap, directory, table>>
    BY <1>1, <1>7 DEF Write, TypeOK
  <2>2. Entry(cr3, p).write \/ 0 \in LEVELS
    BY <1>7 DEF Write, MayWrite
  <2>3. CASE f = Entry(cr3, p).frame
    BY <2>1, <2>2, <2>3 DEF WrittenByProcess
  <2>4. CASE f # Entry(cr3, p).frame
    BY <1>1, <2>1, <2>4
  <2>5. QED
    BY <2>3, <2>4
<1>8. ASSUME NEW level \in LEVELS, NEW p \in Pages, WriteFault(level, p)
      PROVE  data'[f] = data[f]
  <2>1. \/ UNCHANGED data
        \/ Block(1) # 0 /\ data' = [data EXCEPT ![Block(1)] = View(cr3, p)]
    BY <1>8 DEF WriteFault, Resolve
  <2>2. Block(1) # 0 => Block(1) # f
    BY BlocksAreFree
  <2>3. QED
    BY <1>1, <2>1, <2>2
<1>9. QED
  BY <1>4, <1>5, <1>6, <1>7, <1>8
  DEF Next, DestroyAddressSpace, SwitchAddressSpace, UnmapPage, FreePage

(* The note that a shared page was freed is never taken back.              *)
LEMMA SharedFreedStays ==
  ASSUME Next, ~shared_freed'
  PROVE  ~shared_freed
<1>1. \/ UNCHANGED shared_freed
      \/ \E d \in Spaces, p \in Pages : shared_freed' = (shared_freed \/ IsShared(d, p))
  BY DEF Next, CreateAddressSpace, CloneAddressSpace, DestroyAddressSpace,
         SwitchAddressSpace, AllocatePage, UnmapPage, FreePage, Write, WriteFault
<1>2. QED
  BY <1>1

(* What a space reads in a page of its own is changed by no call and by   *)
(* no fault of another space: the fault handler and the allocator give out *)
(* frames that are nobody else's (isr.cpp:64-72, vmm.cpp:153-172).  What   *)
(* remains is a write of code at level 0 through a read-only entry for the *)
(* same frame (paging.cpp:30-33, scheduler.cpp:39).                        *)
THEOREM OwnPagesKept == Spec => OwnPagesStable
<1>1. IInv /\ [Next]_vars =>
        [~shared_freed' =>
           \A d \in Spaces : \A p \in Pages :
             Mapped(d, p) /\ ~Entry(d, p).cow /\ Unaffected(d, p)
               => \/ View(d, p)' = View(d, p)
                  \/ WriteThroughReadOnly(Entry(d, p).frame)]_vars
  <2> SUFFICES ASSUME IInv, Next, ~shared_freed', NEW d \in Spaces, NEW p \in Pages,
                      Mapped(d, p), ~Entry(d, p).cow, Unaffected(d, p)
               PROVE  \/ View(d, p)' = View(d, p)
                      \/ WriteThroughReadOnly(Entry(d, p).frame)
    OBVIOUS
  <2>1. PICK f : f = Entry(d, p).frame
    OBVIOUS
  <2>2. TypeOK /\ OwnInv
    BY SharedFreedStays DEF IInv, StructInv
  <2>3. f # 0 /\ f \in Frames /\ f \in MappedFrames
    BY <2>1, <2>2, EntryTypes DEF Mapped
  <2>4. f \notin FreeFrames
    BY <2>2, <2>3 DEF OwnInv, FreeFrames
  <2>5. CASE data'[f] = data[f]
    <3>1. Entry(d, p)'.frame = f
      BY <2>1 DEF Unaffected
    <3>2. QED
      BY <2>1, <2>5, <3>1 DEF View
  <2>6. CASE WrittenByProcess(f)
    <3>1. PICK q \in Pages : /\ f = Entry(cr3, q).frame
                             /\ Entry(cr3, q).write \/ 0 \in LEVELS
      BY <2>6 DEF WrittenByProcess
    <3>2. cr3 \in Spaces /\ d # cr3 /\ UNCHANGED <<bitmap, directory, table>>
      BY <2>6 DEF WrittenByProcess, Unaffected
    <3>3. ~Entry(cr3, q).write
      BY <2>1, <2>2, <2>3, <3>1, <3>2 DEF OwnInv, OneOwner, WriteIsOwned
    <3>4. cr3 # KERNEL
      BY <2>2, <3>2, VMMAssumption DEF TypeOK, Frames, KERNEL
    <3>5. QED
      BY <2>1, <3>1, <3>2, <3>3, <3>4 DEF WriteThroughReadOnly
  <2>7. QED
    BY <2>3, <2>4, <2>5, <2>6, DataChanges
<1>2. QED
  BY IInvHolds, <1>1, PTL DEF Spec, OwnPagesStable
=============================================================================
