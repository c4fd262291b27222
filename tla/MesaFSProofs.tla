---------------------------- MODULE MesaFSProofs ----------------------------
(***************************************************************************)
(* Proofs about MesaFS for every number of entries, of which any number    *)
(* fits, every size of sectors and regions, and any names and texts.       *)
(***************************************************************************)
EXTENDS MesaFS, SequenceTheorems, NaturalsInduction, WellFoundedInduction, TLAPS

(* Every nonempty set of natural numbers has a least element.              *)
LEMMA LeastNatural ==
  ASSUME NEW T \in SUBSET Nat, T # {}
  PROVE  \E m \in T : \A k \in T : m <= k
<1> DEFINE R == OpToRel(<, Nat)
<1>1. IsWellFoundedOn(R, Nat)
  BY NatLessThanWellFounded
<1>2. ASSUME NEW a \in Nat, NEW b \in Nat, a < b
      PROVE  <<a, b>> \in R
  BY <1>2, Zenon DEF OpToRel
<1> HIDE DEF R
<1>3. PICK m \in T : \A k \in T : ~ (<<k, m>> \in R)
  BY <1>1, WFMin
<1>4. \A k \in T : ~ (k < m)
  BY <1>2, <1>3
<1>5. QED
  BY <1>4

LEMMA SizesAre ==
  /\ SLOTS \in Nat /\ SLOTS >= 1 /\ FIT \in Nat /\ SECTOR \in Nat /\ SECTOR >= 1
  /\ REGION \in Nat /\ REGION >= 1 /\ MAX_LENGTH \in Nat /\ FIRST = 2 /\ META = 1
BY MesaFSAssumption DEF FIRST, META

-----------------------------------------------------------------------------
(* Where a byte of a file is: in which sector from the first, and where    *)
(* in that sector.                                                         *)
LEMMA PlaceIs ==
  ASSUME NEW k \in Nat
  PROVE  /\ k \div SECTOR \in Nat /\ k % SECTOR \in 0 .. SECTOR - 1
         /\ SECTOR * (k \div SECTOR) \in Nat
         /\ k = SECTOR * (k \div SECTOR) + (k % SECTOR)
BY SizesAre

LEMMA QuotientIs ==
  ASSUME NEW q \in Nat, NEW m \in Nat, q < m
  PROVE  /\ SECTOR * q \in Nat /\ SECTOR * m \in Nat
         /\ SECTOR * q + SECTOR <= SECTOR * m
<1>1. SECTOR * (m - (q + 1)) >= 0
  BY SizesAre
<1>2. SECTOR * m = SECTOR * (q + 1) + SECTOR * (m - (q + 1))
  BY SizesAre
<1>3. SECTOR * (q + 1) = SECTOR * q + SECTOR
  BY SizesAre
<1>4. SECTOR * q \in Nat /\ SECTOR * m \in Nat
  BY SizesAre
<1>5. SECTOR * (q + 1) \in Nat /\ SECTOR * (m - (q + 1)) \in Nat
  BY <1>1, SizesAre
<1>6. QED
  BY <1>1, <1>2, <1>3, <1>4, <1>5, SizesAre

LEMMA PlaceOf ==
  ASSUME NEW k \in Nat, NEW q \in Nat, NEW r \in 0 .. SECTOR - 1,
         k = SECTOR * q + r
  PROVE  k \div SECTOR = q /\ k % SECTOR = r
<1> DEFINE d == k \div SECTOR
           p == k % SECTOR
<1>1. d \in Nat /\ p \in 0 .. SECTOR - 1 /\ k = SECTOR * d + p /\ SECTOR * d \in Nat
  BY PlaceIs
<1> HIDE DEF d, p
<1>2. ~(d < q)
  BY <1>1, QuotientIs, SizesAre
<1>3. ~(q < d)
  BY <1>1, QuotientIs, SizesAre
<1>4. d = q
  BY <1>1, <1>2, <1>3
<1>5. p = r
  <2>1. PICK x \in Nat : x = SECTOR * d
    BY <1>1
  <2>2. k = x + p /\ k = x + r
    BY <1>1, <1>4, <2>1
  <2>3. QED
    BY <1>1, <2>1, <2>2, SizesAre
<1>6. QED
  BY <1>4, <1>5 DEF d, p

LEMMA LaterPlace ==
  ASSUME NEW k \in Nat, NEW l \in Nat, k <= l
  PROVE  k \div SECTOR <= l \div SECTOR
<1> DEFINE c == k \div SECTOR
           d == l \div SECTOR
<1>1. c \in Nat /\ k % SECTOR \in Nat /\ k = SECTOR * c + (k % SECTOR)
  BY PlaceIs
<1>2. d \in Nat /\ l % SECTOR < SECTOR /\ l % SECTOR \in Nat
      /\ l = SECTOR * d + (l % SECTOR)
  BY PlaceIs, SizesAre
<1> HIDE DEF c, d
<1>3. ~(d < c)
  <2> SUFFICES ASSUME d < c PROVE FALSE
    OBVIOUS
  <2>1. /\ SECTOR * d \in Nat /\ SECTOR * c \in Nat
        /\ SECTOR * d + SECTOR <= SECTOR * c
    BY <1>1, <1>2, QuotientIs
  <2>2. QED
    BY <1>1, <1>2, <2>1, SizesAre
<1>4. QED
  BY <1>1, <1>2, <1>3 DEF c, d

(* Two places in one sector are as far apart as their remainders.          *)
LEMMA SameSector ==
  ASSUME NEW k \in Nat, NEW l \in Nat, k \div SECTOR = l \div SECTOR
  PROVE  k - l = (k % SECTOR) - (l % SECTOR)
<1> DEFINE x == SECTOR * (k \div SECTOR)
<1>1. x \in Nat /\ k = x + (k % SECTOR) /\ k % SECTOR \in Nat
  BY PlaceIs
<1>2. x \in Nat /\ l = x + (l % SECTOR) /\ l % SECTOR \in Nat
  BY PlaceIs
<1> HIDE DEF x
<1>3. QED
  BY <1>1, <1>2

LEMMA InRegion ==
  ASSUME NEW k \in Nat
  PROVE  k \div SECTOR < REGION <=> k < REGION * SECTOR
<1> DEFINE d == k \div SECTOR
           p == k % SECTOR
<1>1. d \in Nat /\ p \in 0 .. SECTOR - 1 /\ k = SECTOR * d + p /\ SECTOR * d \in Nat
  BY PlaceIs
<1>2. SECTOR * REGION = REGION * SECTOR /\ SECTOR * REGION \in Nat
  BY SizesAre
<1> HIDE DEF d, p
<1>3. d < REGION => SECTOR * d + SECTOR <= SECTOR * REGION
  BY <1>1, QuotientIs, SizesAre
<1>4. REGION < d => SECTOR * REGION + SECTOR <= SECTOR * d
  BY <1>1, QuotientIs, SizesAre
<1>5. REGION = d => SECTOR * REGION = SECTOR * d
  OBVIOUS
<1>6. PICK x \in Nat, y \in Nat : x = SECTOR * d /\ y = SECTOR * REGION
  BY <1>1, <1>2
<1>7. /\ d < REGION => x + SECTOR <= y
      /\ REGION < d => y + SECTOR <= x
      /\ REGION = d => y = x
      /\ k = x + p
  BY <1>1, <1>3, <1>4, <1>5, <1>6
<1>8. d < REGION <=> k < y
  BY <1>1, <1>7, SizesAre
<1>9. QED
  BY <1>2, <1>6, <1>8 DEF d

(* The regions of two entries do not meet, and begin behind META.          *)
LEMMA Regions ==
  ASSUME NEW i \in Slots, NEW j \in Slots
  PROVE  /\ FIRST + i * REGION \in Nat /\ FIRST + i * REGION >= 2
         /\ FIRST + i * REGION + REGION <= FIRST + SLOTS * REGION
         /\ SLOTS * REGION \in Nat
         /\ i < j => FIRST + i * REGION + REGION <= FIRST + j * REGION
<1>1. i \in Nat /\ j \in Nat /\ i <= SLOTS - 1
  BY SizesAre DEF Slots
<1>2. i * REGION \in Nat /\ j * REGION \in Nat /\ SLOTS * REGION \in Nat
  BY <1>1, SizesAre
<1>3. ASSUME NEW m \in Nat, i < m
      PROVE  i * REGION + REGION <= m * REGION
  <2>1. (m - (i + 1)) * REGION >= 0
    BY <1>1, <1>3, SizesAre
  <2>2. m * REGION = (i + 1) * REGION + (m - (i + 1)) * REGION
    BY <1>1, SizesAre
  <2>3. (i + 1) * REGION = i * REGION + REGION
    BY <1>1, SizesAre
  <2>4. m * REGION \in Int /\ (i + 1) * REGION \in Int
        /\ (m - (i + 1)) * REGION \in Int
    BY <1>1, SizesAre
  <2>5. QED
    BY <1>2, <2>1, <2>2, <2>3, <2>4, SizesAre
<1>4. i * REGION + REGION <= SLOTS * REGION
  BY <1>1, <1>3, SizesAre
<1>5. i < j => i * REGION + REGION <= j * REGION
  BY <1>1, <1>3
<1>6. PICK x, y, z \in Nat : x = i * REGION /\ y = j * REGION /\ z = SLOTS * REGION
  BY <1>2
<1>7. /\ FIRST + x \in Nat /\ FIRST + x >= 2 /\ FIRST + x + REGION <= FIRST + z
      /\ i < j => FIRST + x + REGION <= FIRST + y
  BY <1>4, <1>5, <1>6, SizesAre
<1>8. QED
  BY <1>6, <1>7

-----------------------------------------------------------------------------
(* The types that the steps need: a write is one of a file that exists,    *)
(* begins inside it or at its end, and stays within the bound.             *)
Ops == [slot : Slots, offset : 0 .. MAX_LENGTH, todo : Texts \cup {<<>>}, done : Nat]

MesaTypes ==
  /\ entries \in [Slots -> Entries] /\ meta \in [Slots -> Entries]
  /\ disk \in [Sectors -> [0 .. SECTOR - 1 -> DataBytes]]
  /\ op \in Ops /\ op.offset + Len(op.todo) <= MAX_LENGTH /\ op.done <= Len(op.todo)
  /\ op.offset <= entries[op.slot].length
  /\ ~Idle => entries[op.slot].present
  /\ Idle => op = IDLE
  /\ text \in [Slots -> Seq(DataBytes)]
  /\ \A i \in Slots : Len(text[i]) = entries[i].length
  /\ asked \in [Slots -> SUBSET (Nat \X Nat)]
  /\ strayed \in BOOLEAN

LEMMA TextIs ==
  ASSUME NEW t \in Texts \cup {<<>>}
  PROVE  /\ t \in Seq(DataBytes) /\ Len(t) \in 0 .. MAX_LENGTH
         /\ \A k \in 1 .. Len(t) : t[k] \in DataBytes /\ t[k] \in Nat
         /\ DOMAIN t = 1 .. Len(t)
         /\ t # <<>> => Len(t) # 0
<1>1. CASE t = <<>>
  BY <1>1, SizesAre
<1>2. CASE t \in Texts
  <2>1. t \in Seq(Nat \ {0}) /\ t # <<>> /\ Len(t) <= MAX_LENGTH
    BY <1>2, MesaFSAssumption
  <2>2. /\ Len(t) \in Nat /\ DOMAIN t = 1 .. Len(t)
        /\ \A k \in 1 .. Len(t) : t[k] \in Nat
    BY <2>1, LenProperties
  <2>3. \A k \in 1 .. Len(t) : t[k] \in DataBytes
    BY <1>2, <2>2 DEF DataBytes
  <2>4. t \in [1 .. Len(t) -> DataBytes]
    <3>1. t \in [1 .. Len(t) -> Nat \ {0}]
      BY <2>1, LenProperties
    <3>2. QED
      BY <2>3, <3>1
  <2>5. t \in Seq(DataBytes)
    BY <2>2, <2>4
  <2>6. Len(t) # 0
    BY <2>1
  <2>7. QED
    BY <2>1, <2>2, <2>3, <2>5, <2>6, SizesAre
<1>3. QED
  BY <1>1, <1>2

LEMMA EntryIs ==
  ASSUME NEW e \in [Slots -> Entries], NEW i \in Slots
  PROVE  /\ e[i].present \in BOOLEAN /\ e[i].dir \in BOOLEAN /\ e[i].name \in AllNames
         /\ e[i].length \in 0 .. MAX_LENGTH /\ e[i] \in Entries
<1>1. e[i] \in Entries
  OBVIOUS
<1>2. QED
  BY <1>1 DEF Entries

LEMMA OpIs ==
  ASSUME MesaTypes
  PROVE  /\ op.slot \in Slots /\ op.offset \in 0 .. MAX_LENGTH
         /\ op.todo \in Texts \cup {<<>>} /\ op.done \in Nat /\ Len(op.todo) \in Nat
         /\ op.done <= Len(op.todo) /\ op.offset + Len(op.todo) <= MAX_LENGTH
         /\ ~Idle => Len(op.todo) # 0
<1>1. op \in Ops
  BY DEF MesaTypes
<1>2. /\ op.slot \in Slots /\ op.offset \in 0 .. MAX_LENGTH
      /\ op.todo \in Texts \cup {<<>>} /\ op.done \in Nat
  BY <1>1 DEF Ops
<1>3. Len(op.todo) \in Nat /\ (op.todo # <<>> => Len(op.todo) # 0)
  BY <1>2, TextIs, SizesAre
<1>4. QED
  BY <1>2, <1>3 DEF MesaTypes, Idle

LEMMA FirstOf ==
  ASSUME NEW S \in SUBSET Slots, S # {}
  PROVE  First(S) \in S
<1>1. S \in SUBSET Nat
  BY SizesAre DEF Slots
<1>2. \E i \in S : \A j \in S : i <= j
  BY <1>1, LeastNatural
<1>3. QED
  BY <1>2 DEF First

(* The sector that holds byte k of entry i.                                *)
Sector(e, i, k) == LBA(e, i) + (k \div SECTOR)

LEMMA SectorIs ==
  ASSUME NEW e \in [Slots -> Entries], NEW i \in Slots, NEW k \in 0 .. MAX_LENGTH
  PROVE  /\ Sector(e, i, k) \in Sectors /\ LBA(e, i) \in Nat /\ k \div SECTOR \in Nat
         /\ Sector(e, i, k) = LBA(e, i) + (k \div SECTOR)
         /\ k % SECTOR \in 0 .. SECTOR - 1
<1> DEFINE q == k \div SECTOR
           m == MAX_LENGTH \div SECTOR
           b == FIRST + i * REGION
           z == SLOTS * REGION
<1>1. q \in Nat /\ m \in Nat /\ q <= m /\ k % SECTOR \in 0 .. SECTOR - 1
  <2>1. k \in Nat /\ MAX_LENGTH \in Nat /\ k <= MAX_LENGTH
    BY SizesAre
  <2>2. q \in Nat /\ k % SECTOR \in 0 .. SECTOR - 1 /\ m \in Nat
    BY <2>1, PlaceIs
  <2>3. q <= m
    BY <2>1, LaterPlace
  <2>4. QED
    BY <2>2, <2>3
<1>2. b \in Nat /\ b + REGION <= FIRST + z /\ z \in Nat
  BY Regions
<1>3. LBA(e, i) = IF e[i].dir THEN 0 ELSE b
  BY DEF LBA
<1>4. Sectors = 0 .. FIRST + z + m
  BY DEF Sectors
<1> HIDE DEF q, m, b, z
<1>5. LBA(e, i) \in Nat /\ LBA(e, i) <= FIRST + z
  BY <1>2, <1>3, SizesAre
<1>6. LBA(e, i) + q \in Sectors
  BY <1>1, <1>2, <1>4, <1>5, SizesAre
<1>7. QED
  BY <1>1, <1>5, <1>6 DEF Sector, q

LEMMA MetaIs == META \in Sectors /\ MetadataSector \in [0 .. SECTOR - 1 -> DataBytes]
<1>1. SLOTS * REGION \in Nat /\ MAX_LENGTH \div SECTOR \in Nat
  BY PlaceIs, SizesAre
<1>2. META \in Sectors
  <2> DEFINE z == SLOTS * REGION
             m == MAX_LENGTH \div SECTOR
  <2>1. z \in Nat /\ m \in Nat /\ Sectors = 0 .. FIRST + z + m
    BY <1>1 DEF Sectors
  <2> HIDE DEF z, m
  <2>2. QED
    BY <2>1, SizesAre
<1>3. MetadataSector \in [0 .. SECTOR - 1 -> DataBytes]
  BY DEF MetadataSector, HEADER, DataBytes
<1>4. QED
  BY <1>2, <1>3

-----------------------------------------------------------------------------
(* One round of a write stays in one sector, and is never empty.           *)
LEMMA RoundIs ==
  ASSUME MesaTypes, ~Idle, op.done < Len(op.todo)
  PROVE  /\ At \in Nat /\ Chunk \in Nat /\ Chunk >= 1 /\ At = op.offset + op.done
         /\ op.done + Chunk <= Len(op.todo) /\ At + Chunk <= MAX_LENGTH
         /\ (At % SECTOR) + Chunk <= SECTOR
         /\ At % SECTOR \in 0 .. SECTOR - 1 /\ At \div SECTOR \in Nat
         /\ Target = Sector(entries, op.slot, At) /\ Target \in Sectors
         /\ \A p \in At .. At + Chunk - 1 : p \div SECTOR = At \div SECTOR
<1>1. /\ op.slot \in Slots /\ op.offset \in 0 .. MAX_LENGTH
      /\ op.done \in Nat /\ Len(op.todo) \in Nat
      /\ op.done <= Len(op.todo) /\ op.offset + Len(op.todo) <= MAX_LENGTH
  BY OpIs
<1> DEFINE r == At % SECTOR
           q == At \div SECTOR
<1>2. At \in Nat /\ At = op.offset + op.done
  BY <1>1, SizesAre DEF At
<1>3. r \in 0 .. SECTOR - 1 /\ q \in Nat /\ At = SECTOR * q + r /\ SECTOR * q \in Nat
  BY <1>2, PlaceIs
<1>4. Chunk = IF Len(op.todo) - op.done < SECTOR - r THEN Len(op.todo) - op.done
                                                    ELSE SECTOR - r
  BY DEF Chunk
<1> HIDE DEF r, q, At, Chunk
<1>5. /\ Chunk \in Nat /\ Chunk >= 1 /\ op.done + Chunk <= Len(op.todo)
      /\ r + Chunk <= SECTOR
  BY <1>1, <1>3, <1>4, SizesAre, SMTT(30)
<1>6. At + Chunk <= MAX_LENGTH /\ At \in 0 .. MAX_LENGTH
  <2>1. PICK o, d, l \in Nat : o = op.offset /\ d = op.done /\ l = Len(op.todo)
    BY <1>1, SizesAre
  <2>2. /\ o + l <= MAX_LENGTH /\ d + Chunk <= l /\ At = o + d
    BY <1>1, <1>2, <1>5, <2>1
  <2>3. QED
    BY <1>5, <2>2, SizesAre
<1>7. ASSUME NEW p \in At .. At + Chunk - 1
      PROVE  p \div SECTOR = q
  <2>1. PICK x \in Nat : x = SECTOR * q
    BY <1>3
  <2>2. PICK a, c \in Nat : a = At /\ c = Chunk
    BY <1>2, <1>5
  <2>3. p \in a .. a + c - 1 /\ a = x + r /\ r + c <= SECTOR
    BY <1>3, <1>5, <2>1, <2>2
  <2>4. p \in Nat /\ p = x + (r + (p - a)) /\ r + (p - a) \in 0 .. SECTOR - 1
    BY <1>3, <2>2, <2>3, SizesAre
  <2>5. QED
    BY <1>3, <2>1, <2>4, PlaceOf
<1>8. Target = Sector(entries, op.slot, At)
  BY DEF Target, Sector
<1>9. Target \in Sectors
  BY <1>1, <1>6, <1>8, SectorIs DEF MesaTypes
<1>10. QED
  BY <1>2, <1>3, <1>5, <1>6, <1>7, <1>8, <1>9 DEF r, q

(* What a round does to the bytes of the entry, and to the other sectors.  *)
LEMMA RoundOwn ==
  ASSUME MesaTypes, WriteSector, NEW p \in 0 .. MAX_LENGTH
  PROVE  LET s == Sector(entries, op.slot, p)
         IN  disk'[s][p % SECTOR] =
               IF p \in At .. At + Chunk - 1 THEN op.todo[p - op.offset + 1]
               ELSE disk[s][p % SECTOR]
<1> DEFINE s == Sector(entries, op.slot, p)
           x == p % SECTOR
           r == At % SECTOR
<1>1. /\ ~Idle /\ op.done < Len(op.todo)
      /\ disk' = [disk EXCEPT ![Target] = Merged]
      /\ disk \in [Sectors -> [0 .. SECTOR - 1 -> DataBytes]]
      /\ entries \in [Slots -> Entries]
  BY DEF WriteSector, MesaTypes
<1>2. op.slot \in Slots /\ op.offset \in 0 .. MAX_LENGTH /\ op.done \in Nat
  BY OpIs
<1>3. /\ At \in Nat /\ Chunk \in Nat /\ At = op.offset + op.done
      /\ r \in 0 .. SECTOR - 1 /\ At \div SECTOR \in Nat
      /\ Target = Sector(entries, op.slot, At) /\ Target \in Sectors
      /\ \A k \in At .. At + Chunk - 1 : k \div SECTOR = At \div SECTOR
      /\ At + Chunk <= MAX_LENGTH
  BY <1>1, RoundIs
<1>4. /\ s \in Sectors /\ LBA(entries, op.slot) \in Nat /\ p \div SECTOR \in Nat
      /\ s = LBA(entries, op.slot) + (p \div SECTOR) /\ x \in 0 .. SECTOR - 1
  BY <1>1, <1>2, SectorIs
<1>5. Target = LBA(entries, op.slot) + (At \div SECTOR)
  BY <1>3 DEF Sector
<1>6. p \in Nat
  BY SizesAre
<1>7. CASE p \div SECTOR = At \div SECTOR
  <2>1. s = Target
    BY <1>4, <1>5, <1>7
  <2>2. p - At = x - r
    BY <1>3, <1>6, <1>7, SameSector
  <2>3. disk'[s] = Merged
    BY <1>1, <1>3, <2>1
  <2>4. Merged[x] = IF Touched(x) THEN New(x) ELSE disk[Target][x]
    BY <1>4 DEF Merged
  <2>5. Touched(x) <=> p \in At .. At + Chunk - 1
    <3>1. Touched(x) <=> x \in r .. r + Chunk - 1
      BY DEF Touched
    <3> HIDE DEF x, r
    <3>2. QED
      BY <1>3, <1>4, <1>6, <2>2, <3>1, SizesAre
  <2>6. New(x) = op.todo[p - op.offset + 1]
    <3>1. New(x) = op.todo[op.done + 1 + x - r]
      BY DEF New
    <3> HIDE DEF x, r
    <3>2. op.done + 1 + x - r = p - op.offset + 1
      <4>1. PICK a, o, d \in Nat : a = At /\ o = op.offset /\ d = op.done
        BY <1>2, <1>3, SizesAre
      <4>2. a = o + d /\ p - a = x - r /\ x \in Int /\ r \in Int
        BY <1>3, <1>4, <2>2, <4>1, SizesAre
      <4>3. d + 1 + x - r = p - o + 1
        BY <1>6, <4>1, <4>2
      <4>4. QED
        BY <4>1, <4>3
    <3>3. QED
      BY <3>1, <3>2
  <2>7. QED
    BY <2>1, <2>3, <2>4, <2>5, <2>6
<1>8. CASE p \div SECTOR # At \div SECTOR
  <2>1. s # Target
    BY <1>3, <1>4, <1>5, <1>8
  <2>2. disk'[s] = disk[s]
    BY <1>1, <1>4, <2>1
  <2>3. p \notin At .. At + Chunk - 1
    BY <1>3, <1>8
  <2>4. QED
    BY <2>2, <2>3
<1>9. QED
  BY <1>7, <1>8

LEMMA RoundOther ==
  ASSUME MesaTypes, WriteSector, NEW s \in Sectors, s # Target
  PROVE  disk'[s] = disk[s]
BY DEF MesaTypes, WriteSector

-----------------------------------------------------------------------------
(* What a creation does: an entry that was free is empty and saved.        *)
LEMMA SavedIs ==
  /\ NOTHING \in Entries /\ NoEntries \in [Slots -> Entries]
  /\ \A e \in [Slots -> Entries] :
       /\ Saved(e) \in [Slots -> Entries]
       /\ \A i \in Slots : Saved(e)[i] = IF i < FIT THEN e[i] ELSE NOTHING
  /\ \A i \in Slots : NoEntries[i] = NOTHING
  /\ ~NOTHING.present /\ NOTHING.length = 0
<1>1. NOTHING \in Entries
  BY SizesAre DEF NOTHING, Entries, AllNames
<1> HIDE DEF NOTHING
<1>2. NoEntries \in [Slots -> Entries] /\ \A i \in Slots : NoEntries[i] = NOTHING
  BY <1>1 DEF NoEntries
<1>3. ASSUME NEW e \in [Slots -> Entries]
      PROVE  /\ Saved(e) \in [Slots -> Entries]
             /\ \A i \in Slots : Saved(e)[i] = IF i < FIT THEN e[i] ELSE NOTHING
  BY <1>1 DEF Saved
<1>4. ~NOTHING.present /\ NOTHING.length = 0
  BY DEF NOTHING
<1>5. QED
  BY <1>1, <1>2, <1>3, <1>4

LEMMA SaveIs ==
  ASSUME NEW e \in [Slots -> Entries], MesaTypes, SaveMetadata(e, disk)
  PROVE  /\ meta' = Saved(e) /\ meta' \in [Slots -> Entries]
         /\ disk' \in [Sectors -> [0 .. SECTOR - 1 -> DataBytes]]
         /\ \A s \in Sectors : s # META => disk'[s] = disk[s]
<1>1. disk' = [disk EXCEPT ![META] = MetadataSector] /\ meta' = Saved(e)
  BY DEF SaveMetadata
<1>2. disk \in [Sectors -> [0 .. SECTOR - 1 -> DataBytes]]
  BY DEF MesaTypes
<1>3. QED
  BY <1>1, <1>2, SavedIs, MetaIs

LEMMA BytesAtIs ==
  ASSUME NEW t \in Texts \cup {<<>>}, NEW offset \in Nat
  PROVE  /\ BytesAt(offset, t) \in SUBSET (Nat \X Nat)
         /\ \A k \in 1 .. Len(t) : <<offset + k - 1, t[k]>> \in BytesAt(offset, t)
<1>1. /\ DOMAIN t = 1 .. Len(t) /\ \A k \in 1 .. Len(t) : t[k] \in Nat
      /\ Len(t) \in Nat
  BY TextIs, SizesAre
<1>2. \A k \in 1 .. Len(t) : offset + k - 1 \in Nat
  BY <1>1
<1>3. QED
  BY <1>1, <1>2 DEF BytesAt

CreatedAt(i, n, d, t) ==
  /\ i \in Slots /\ ~entries[i].present
  /\ entries' \in [Slots -> Entries]
  /\ entries'[i] = [present |-> TRUE, name |-> n, dir |-> d, length |-> 0]
  /\ \A j \in Slots : j # i => entries'[j] = entries[j]
  /\ meta' = Saved(entries') /\ meta' \in [Slots -> Entries]
  /\ disk' \in [Sectors -> [0 .. SECTOR - 1 -> DataBytes]]
  /\ \A s \in Sectors : s # META => disk'[s] = disk[s]
  /\ text' \in [Slots -> Seq(DataBytes)] /\ text'[i] = <<>>
  /\ \A j \in Slots : j # i => text'[j] = text[j]
  /\ asked' \in [Slots -> SUBSET (Nat \X Nat)] /\ asked'[i] = BytesAt(0, t)
  /\ \A j \in Slots : j # i /\ entries[j].present => asked'[j] = asked[j]

LEMMA CreateIs ==
  ASSUME MesaTypes, NEW n \in Names \cup SlashNames, NEW d \in BOOLEAN,
         NEW t \in Texts \cup {<<>>}, Create(n, d, t)
  PROVE  CreatedAt(First(Free), n, d, t)
<1> DEFINE i == First(Free)
           node == [present |-> TRUE, name |-> n, dir |-> d, length |-> 0]
<1>1. /\ Free # {} /\ entries' = [entries EXCEPT ![i] = node]
      /\ SaveMetadata(entries', disk) /\ text' = [text EXCEPT ![i] = <<>>]
      /\ asked' = [j \in Slots |-> IF j = i THEN BytesAt(0, t)
                                   ELSE IF entries[j].present THEN asked[j] ELSE {}]
  BY DEF Create
<1>2. i \in Slots /\ ~entries[i].present
  <2>1. Free \in SUBSET Slots
    BY DEF Free
  <2>2. i \in Free
    BY <1>1, <2>1, FirstOf
  <2>3. QED
    BY <2>2 DEF Free
<1>3. node \in Entries
  <2>1. n \in AllNames
    BY Zenon DEF AllNames
  <2>2. 0 \in 0 .. MAX_LENGTH
    BY SizesAre
  <2>3. QED
    BY <2>1, <2>2 DEF Entries
<1> HIDE DEF i, node
<1>4. /\ entries' \in [Slots -> Entries] /\ entries'[i] = node
      /\ \A j \in Slots : j # i => entries'[j] = entries[j]
  BY <1>1, <1>2, <1>3 DEF MesaTypes
<1>5. /\ meta' = Saved(entries') /\ meta' \in [Slots -> Entries]
      /\ disk' \in [Sectors -> [0 .. SECTOR - 1 -> DataBytes]]
      /\ \A s \in Sectors : s # META => disk'[s] = disk[s]
  BY <1>1, <1>4, SaveIs
<1>6. /\ text' \in [Slots -> Seq(DataBytes)] /\ text'[i] = <<>>
      /\ \A j \in Slots : j # i => text'[j] = text[j]
  BY <1>1, <1>2 DEF MesaTypes
<1>7. /\ asked' \in [Slots -> SUBSET (Nat \X Nat)] /\ asked'[i] = BytesAt(0, t)
      /\ \A j \in Slots : j # i /\ entries[j].present => asked'[j] = asked[j]
  BY <1>1, <1>2, BytesAtIs DEF MesaTypes
<1>8. QED
  BY <1>2, <1>4, <1>5, <1>6, <1>7 DEF CreatedAt, i, node

(* All ways to create an entry.                                            *)
LEMMA CreateOnlyIs ==
  ASSUME MesaTypes, CreateOnly
  PROVE  \E n \in Names \cup SlashNames, d \in BOOLEAN :
            CreatedAt(First(Free), n, d, <<>>)
<1>1. PICK n \in Names \cup SlashNames, d \in BOOLEAN : Create(n, d, <<>>)
  BY DEF CreateOnly, Touch, Mkdir, CreateLost
<1>2. CreatedAt(First(Free), n, d, <<>>)
  <2>1. <<>> \in Texts \cup {<<>>}
    OBVIOUS
  <2>2. QED
    BY <1>1, <2>1, CreateIs
<1>3. QED
  BY <1>2

(* What a text becomes when another is written over a part of it, or       *)
(* behind it.                                                              *)
LEMMA OverIs ==
  ASSUME NEW old \in Seq(DataBytes), NEW offset \in 0 .. Len(old),
         NEW t \in Seq(DataBytes)
  PROVE  /\ Over(old, offset, t) \in Seq(DataBytes)
         /\ Len(Over(old, offset, t)) =
              IF offset + Len(t) > Len(old) THEN offset + Len(t) ELSE Len(old)
         /\ \A k \in 1 .. Len(Over(old, offset, t)) :
              Over(old, offset, t)[k] =
                IF k \in offset + 1 .. offset + Len(t) THEN t[k - offset] ELSE old[k]
<1> DEFINE n == IF offset + Len(t) > Len(old) THEN offset + Len(t) ELSE Len(old)
           e(k) == IF k \in offset + 1 .. offset + Len(t) THEN t[k - offset] ELSE old[k]
<1>1. /\ Len(old) \in Nat /\ Len(t) \in Nat /\ n \in Nat
      /\ \A k \in 1 .. Len(old) : old[k] \in DataBytes
      /\ \A k \in 1 .. Len(t) : t[k] \in DataBytes
  BY LenProperties
<1>2. ASSUME NEW k \in 1 .. n
      PROVE  e(k) \in DataBytes
  <2>1. CASE k \in offset + 1 .. offset + Len(t)
    <3>1. k - offset \in 1 .. Len(t)
      BY <1>1, <2>1
    <3>2. QED
      BY <1>1, <2>1, <3>1
  <2>2. CASE k \notin offset + 1 .. offset + Len(t)
    <3>1. k \in 1 .. Len(old)
      BY <1>1, <2>2
    <3>2. QED
      BY <1>1, <2>2, <3>1
  <2>3. QED
    BY <2>1, <2>2
<1>3. Over(old, offset, t) = [k \in 1 .. n |-> e(k)]
  BY DEF Over
<1> HIDE DEF n, e
<1>4. [k \in 1 .. n |-> e(k)] \in [1 .. n -> DataBytes]
  BY <1>2
<1>5. [k \in 1 .. n |-> e(k)] \in Seq(DataBytes) /\ Len([k \in 1 .. n |-> e(k)]) = n
  BY <1>1, <1>4
<1>6. QED
  BY <1>3, <1>4, <1>5 DEF n, e

LEMMA OverAt ==
  ASSUME NEW old \in Seq(DataBytes), NEW offset \in 0 .. Len(old),
         NEW t \in Seq(DataBytes), NEW k \in 1 .. Len(Over(old, offset, t))
  PROVE  /\ k \in offset + 1 .. offset + Len(t) => Over(old, offset, t)[k] = t[k - offset]
         /\ k \notin offset + 1 .. offset + Len(t) => Over(old, offset, t)[k] = old[k]
<1>1. \A m \in 1 .. Len(Over(old, offset, t)) :
         Over(old, offset, t)[m] =
           IF m \in offset + 1 .. offset + Len(t) THEN t[m - offset] ELSE old[m]
  BY OverIs
<1>2. QED
  BY <1>1

(* The entries after the write that is going on.                           *)
LEMMA GrownIs ==
  ASSUME MesaTypes
  PROVE  /\ Grown \in [Slots -> Entries]
         /\ \A j \in Slots : j # op.slot => Grown[j] = entries[j]
         /\ \A j \in Slots : /\ Grown[j].present = entries[j].present
                             /\ Grown[j].dir = entries[j].dir
         /\ Grown[op.slot].length =
              IF op.offset + Len(op.todo) > entries[op.slot].length
              THEN op.offset + Len(op.todo) ELSE entries[op.slot].length
         /\ Idle => Grown = entries
<1> DEFINE i == op.slot
           n == IF op.offset + Len(op.todo) > entries[op.slot].length
                THEN op.offset + Len(op.todo) ELSE entries[op.slot].length
           node == [entries[i] EXCEPT !.length = n]
<1>1. /\ i \in Slots /\ op.offset \in 0 .. MAX_LENGTH /\ Len(op.todo) \in Nat
      /\ op.offset + Len(op.todo) <= MAX_LENGTH
      /\ entries \in [Slots -> Entries] /\ op.offset <= entries[i].length
      /\ entries[i].length \in 0 .. MAX_LENGTH /\ entries[i] \in Entries
  BY OpIs, EntryIs DEF MesaTypes
<1>2. n \in 0 .. MAX_LENGTH
  BY <1>1, SizesAre
<1>3. Grown = [entries EXCEPT ![i] = node]
  BY <1>1 DEF Grown
<1>4. Idle => n = entries[i].length
  <2> SUFFICES ASSUME Idle PROVE n = entries[i].length
    OBVIOUS
  <2>1. Len(op.todo) = 0
    BY DEF Idle
  <2>2. QED
    BY <1>1, <2>1, SizesAre
<1> HIDE DEF n
<1>5. /\ node \in Entries /\ node.length = n /\ node.present = entries[i].present
      /\ node.dir = entries[i].dir
      /\ n = entries[i].length => node = entries[i]
  BY <1>1, <1>2 DEF Entries
<1> HIDE DEF node, i
<1>6. /\ Grown \in [Slots -> Entries] /\ Grown[i] = node
      /\ \A j \in Slots : j # i => Grown[j] = entries[j]
      /\ node = entries[i] => Grown = entries
  BY <1>1, <1>3, <1>5
<1>7. QED
  BY <1>4, <1>5, <1>6 DEF i, n

-----------------------------------------------------------------------------
(* What the other steps do.                                                *)
LEMMA StartedIs ==
  ASSUME NEW i \in Slots, NEW offset \in 0 .. MAX_LENGTH, NEW t \in Texts
  PROVE  LET o == Started(i, offset, t)
         IN  /\ o \in Ops /\ o.slot = i /\ o.offset = offset /\ o.todo = t /\ o.done = 0
             /\ o.todo # <<>>
<1>1. t # <<>>
  BY MesaFSAssumption
<1>2. QED
  BY <1>1 DEF Started, Ops

LEMMA IdleIs ==
  /\ IDLE \in Ops /\ IDLE.offset = 0 /\ IDLE.todo = <<>> /\ IDLE.done = 0
  /\ IDLE.slot \in Slots
<1>1. 0 \in Slots /\ 0 \in 0 .. MAX_LENGTH /\ <<>> \in Texts \cup {<<>>} /\ 0 \in Nat
  BY SizesAre DEF Slots
<1>2. QED
  BY <1>1 DEF IDLE, Ops

BegunAt(i, offset, t) ==
  /\ i \in Slots /\ entries[i].present
  /\ offset \in 0 .. MAX_LENGTH /\ offset <= entries[i].length
  /\ offset + Len(t) <= MAX_LENGTH
  /\ op' = Started(i, offset, t)
  /\ asked' \in [Slots -> SUBSET (Nat \X Nat)] /\ BytesAt(offset, t) \subseteq asked'[i]
  /\ \A j \in Slots : asked[j] \subseteq asked'[j]
  /\ UNCHANGED <<entries, disk, meta, text, strayed>>

LEMMA WriteFoundIs ==
  ASSUME MesaTypes, NEW n \in Names, NEW t \in Texts, WriteFound(n, t)
  PROVE  \E i \in Slots, offset \in 0 .. MAX_LENGTH : BegunAt(i, offset, t)
<1> DEFINE i == First(Named(n))
<1>1. PICK offset \in {0, entries[i].length} : Begin(i, offset, t)
  BY DEF WriteFound
<1>2. i \in Slots /\ entries[i].present
  <2>1. Named(n) \in SUBSET Slots /\ Named(n) # {}
    BY DEF Named, WriteFound
  <2>2. i \in Named(n)
    BY <2>1, FirstOf
  <2>3. QED
    BY <2>2 DEF Named
<1> HIDE DEF i
<1>3. entries[i].length \in 0 .. MAX_LENGTH /\ 0 \in 0 .. MAX_LENGTH
  <2>1. entries \in [Slots -> Entries]
    BY DEF MesaTypes
  <2>2. entries[i].length \in 0 .. MAX_LENGTH
    BY <1>2, <2>1, EntryIs
  <2>3. QED
    BY <2>2, SizesAre
<1>4. offset \in 0 .. MAX_LENGTH /\ offset <= entries[i].length
  BY <1>1, <1>3, SizesAre
<1>5. /\ offset + Len(t) <= MAX_LENGTH /\ op' = Started(i, offset, t)
      /\ asked' = [asked EXCEPT ![i] = @ \cup BytesAt(offset, t)]
      /\ UNCHANGED <<entries, disk, meta, text, strayed>>
  BY <1>1 DEF Begin, Asked
<1>6. /\ asked' \in [Slots -> SUBSET (Nat \X Nat)] /\ BytesAt(offset, t) \subseteq asked'[i]
      /\ \A j \in Slots : asked[j] \subseteq asked'[j]
  <2>1. BytesAt(offset, t) \in SUBSET (Nat \X Nat)
    BY <1>4, BytesAtIs
  <2>2. QED
    BY <1>2, <1>5, <2>1 DEF MesaTypes
<1>7. QED
  BY <1>2, <1>4, <1>5, <1>6 DEF BegunAt

Finished ==
  /\ ~Idle /\ op.done = Len(op.todo) /\ op.slot \in Slots
  /\ entries' = Grown /\ meta' = Saved(Grown) /\ meta' \in [Slots -> Entries]
  /\ disk' \in [Sectors -> [0 .. SECTOR - 1 -> DataBytes]]
  /\ \A s \in Sectors : s # META => disk'[s] = disk[s]
  /\ text' \in [Slots -> Seq(DataBytes)]
  /\ \A j \in Slots : j # op.slot => text'[j] = text[j]
  /\ text'[op.slot] = Over(text[op.slot], op.offset, op.todo)
  /\ Len(text'[op.slot]) = Grown[op.slot].length
  /\ op' = IDLE /\ UNCHANGED <<asked, strayed>>

LEMMA FinishIs ==
  ASSUME MesaTypes, Finish
  PROVE  Finished
<1> DEFINE i == op.slot
           w == Over(text[i], op.offset, op.todo)
<1>1. /\ ~Idle /\ op.done = Len(op.todo) /\ entries' = Grown
      /\ SaveMetadata(Grown, disk) /\ text' = [text EXCEPT ![i] = w]
      /\ op' = IDLE /\ UNCHANGED <<asked, strayed>>
  BY DEF Finish
<1>2. /\ i \in Slots /\ op.offset \in Nat /\ op.todo \in Texts \cup {<<>>}
      /\ text \in [Slots -> Seq(DataBytes)] /\ Len(text[i]) = entries[i].length
      /\ op.offset <= entries[i].length
  BY OpIs, SizesAre DEF MesaTypes
<1>3. text[i] \in Seq(DataBytes) /\ op.todo \in Seq(DataBytes)
      /\ op.offset \in 0 .. Len(text[i])
  <2>1. Len(text[i]) \in Nat
    BY <1>2, LenProperties
  <2>2. QED
    BY <1>2, <2>1, TextIs
<1>4. /\ w \in Seq(DataBytes)
      /\ Len(w) = IF op.offset + Len(op.todo) > Len(text[i])
                  THEN op.offset + Len(op.todo) ELSE Len(text[i])
  BY <1>3, OverIs
<1>5. /\ Grown \in [Slots -> Entries]
      /\ Grown[i].length = IF op.offset + Len(op.todo) > entries[i].length
                           THEN op.offset + Len(op.todo) ELSE entries[i].length
  BY GrownIs
<1> HIDE DEF i, w
<1>6. /\ text' \in [Slots -> Seq(DataBytes)] /\ text'[i] = w
      /\ \A j \in Slots : j # i => text'[j] = text[j]
      /\ Len(w) = Grown[i].length
  BY <1>1, <1>2, <1>4, <1>5
<1>7. /\ meta' = Saved(Grown) /\ meta' \in [Slots -> Entries]
      /\ disk' \in [Sectors -> [0 .. SECTOR - 1 -> DataBytes]]
      /\ \A s \in Sectors : s # META => disk'[s] = disk[s]
  BY <1>1, <1>5, SaveIs
<1>8. QED
  BY <1>1, <1>2, <1>6, <1>7 DEF Finished, i, w

LEMMA WriteSectorIs ==
  ASSUME MesaTypes, WriteSector
  PROVE  /\ disk' \in [Sectors -> [0 .. SECTOR - 1 -> DataBytes]]
         /\ meta' \in [Slots -> Entries] /\ op' \in Ops
         /\ op'.slot = op.slot /\ op'.offset = op.offset /\ op'.todo = op.todo
         /\ op'.done = op.done + Chunk /\ op'.done <= Len(op.todo)
         /\ strayed' = (strayed \/ ~Own(op.slot, Target)) /\ strayed' \in BOOLEAN
         /\ UNCHANGED <<entries, text, asked>>
<1>1. /\ ~Idle /\ op.done < Len(op.todo)
      /\ disk' = [disk EXCEPT ![Target] = Merged]
      /\ meta' = IF Target = META THEN NoEntries ELSE meta
      /\ op' = [op EXCEPT !.done = @ + Chunk]
      /\ strayed' = (strayed \/ ~Own(op.slot, Target))
      /\ UNCHANGED <<entries, text, asked>>
  BY DEF WriteSector
<1>2. /\ op.slot \in Slots /\ op.done \in Nat /\ op.todo \in Texts \cup {<<>>}
      /\ op \in Ops /\ Len(op.todo) \in Nat
  BY OpIs DEF MesaTypes
<1>3. /\ Chunk \in Nat /\ op.done + Chunk <= Len(op.todo) /\ At \in Nat
      /\ (At % SECTOR) + Chunk <= SECTOR /\ At % SECTOR \in 0 .. SECTOR - 1
      /\ Target \in Sectors
  BY <1>1, RoundIs
<1>4. Merged \in [0 .. SECTOR - 1 -> DataBytes]
  <2> SUFFICES ASSUME NEW b \in 0 .. SECTOR - 1
               PROVE  (IF Touched(b) THEN New(b) ELSE disk[Target][b]) \in DataBytes
    BY DEF Merged
  <2>1. CASE Touched(b)
    <3> DEFINE r == At % SECTOR
    <3>1. b \in r .. r + Chunk - 1
      BY <2>1 DEF Touched
    <3>2. New(b) = op.todo[op.done + 1 + b - r]
      BY DEF New
    <3> HIDE DEF r
    <3>3. op.done + 1 + b - r \in 1 .. Len(op.todo)
      <4>1. PICK d, l \in Nat : d = op.done /\ l = Len(op.todo)
        BY <1>2
      <4>2. /\ b \in r .. r + Chunk - 1 /\ d + Chunk <= l /\ r \in 0 .. SECTOR - 1
        BY <1>3, <3>1, <4>1 DEF r
      <4>3. d + 1 + b - r \in 1 .. l
        BY <1>3, <4>1, <4>2, SizesAre, SMTT(30)
      <4>4. QED
        BY <4>1, <4>3
    <3>4. QED
      BY <1>2, <2>1, <3>2, <3>3, TextIs
  <2>2. CASE ~Touched(b)
    BY <1>3, <2>2 DEF MesaTypes
  <2>3. QED
    BY <2>1, <2>2
<1>5. disk' \in [Sectors -> [0 .. SECTOR - 1 -> DataBytes]]
  BY <1>1, <1>4 DEF MesaTypes
<1>6. meta' \in [Slots -> Entries]
  BY <1>1, SavedIs DEF MesaTypes
<1>7. /\ op' \in Ops
      /\ op'.slot = op.slot /\ op'.offset = op.offset /\ op'.todo = op.todo
      /\ op'.done = op.done + Chunk
  <2>1. op.done + Chunk \in Nat
    BY <1>2, <1>3
  <2>2. QED
    BY <1>1, <1>2, <2>1 DEF Ops
<1>8. QED
  BY <1>1, <1>3, <1>5, <1>6, <1>7 DEF MesaTypes

-----------------------------------------------------------------------------
LEMMA TypesInit == Init => MesaTypes
<1> SUFFICES ASSUME Init PROVE MesaTypes
  OBVIOUS
<1>1. entries \in [Slots -> Entries] /\ meta \in [Slots -> Entries]
  BY SavedIs DEF Init
<1>2. \A i \in Slots : entries[i].length = 0
  BY SavedIs DEF Init
<1>3. disk \in [Sectors -> [0 .. SECTOR - 1 -> DataBytes]]
  BY DEF Init, DataBytes
<1>4. /\ op = IDLE /\ op \in Ops /\ op.offset = 0 /\ op.todo = <<>> /\ op.done = 0
      /\ op.slot \in Slots /\ Idle
  BY IdleIs DEF Init, Idle
<1>5. text \in [Slots -> Seq(DataBytes)] /\ \A i \in Slots : Len(text[i]) = 0
  BY DEF Init
<1>6. asked \in [Slots -> SUBSET (Nat \X Nat)] /\ strayed \in BOOLEAN
  BY DEF Init
<1>7. op.offset <= entries[op.slot].length /\ op.offset + Len(op.todo) <= MAX_LENGTH
      /\ op.done <= Len(op.todo)
  BY <1>2, <1>4, SizesAre
<1>8. QED
  BY <1>1, <1>2, <1>3, <1>4, <1>5, <1>6, <1>7 DEF MesaTypes

LEMMA TypesStep ==
  ASSUME MesaTypes, [Next]_vars
  PROVE  MesaTypes'
<1>1. /\ op \in Ops /\ op.slot \in Slots /\ strayed \in BOOLEAN
      /\ entries \in [Slots -> Entries]
      /\ \A i \in Slots : entries[i].length \in 0 .. MAX_LENGTH
      /\ \A i \in Slots : Len(text[i]) = entries[i].length
      /\ Idle => op = IDLE
  BY OpIs, EntryIs DEF MesaTypes
<1>2. ASSUME NEW i, NEW n, NEW d, NEW t, CreatedAt(i, n, d, t)
      PROVE  /\ entries' \in [Slots -> Entries] /\ meta' \in [Slots -> Entries]
             /\ disk' \in [Sectors -> [0 .. SECTOR - 1 -> DataBytes]]
             /\ text' \in [Slots -> Seq(DataBytes)]
             /\ \A j \in Slots : Len(text'[j]) = entries'[j].length
             /\ asked' \in [Slots -> SUBSET (Nat \X Nat)]
             /\ i \in Slots /\ entries'[i].present /\ entries'[i].length = 0
  <2>1. /\ entries'[i].present /\ entries'[i].length = 0 /\ Len(text'[i]) = 0
    BY <1>2 DEF CreatedAt
  <2>2. \A j \in Slots : Len(text'[j]) = entries'[j].length
    BY <1>1, <1>2, <2>1 DEF CreatedAt
  <2>3. QED
    BY <1>2, <2>1, <2>2 DEF CreatedAt
<1>3. CASE CreateOnly
  <2>1. PICK n \in Names \cup SlashNames, d \in BOOLEAN :
             CreatedAt(First(Free), n, d, <<>>)
    BY <1>3, CreateOnlyIs
  <2>2. op' = op /\ Idle /\ op = IDLE /\ strayed' = strayed
    BY <1>1, <1>3 DEF CreateOnly
  <2>3. entries' \in [Slots -> Entries]
    BY <1>2, <2>1
  <2>4. entries'[op.slot].length \in 0 .. MAX_LENGTH
    BY <1>1, <2>3, EntryIs
  <2>5. op.offset = 0 /\ Idle'
    BY <2>2, IdleIs DEF Idle
  <2>6. op'.offset <= entries'[op'.slot].length
    BY <2>2, <2>4, <2>5, SizesAre
  <2>7. op'.offset + Len(op'.todo) <= MAX_LENGTH /\ op'.done <= Len(op'.todo)
    BY <2>2 DEF MesaTypes
  <2>8. QED
    BY <1>1, <1>2, <2>1, <2>2, <2>5, <2>6, <2>7 DEF MesaTypes
<1>4. CASE \E n \in Names \cup SlashNames, t \in Texts : CreateThenWrite(n, t)
  <2>1. PICK n \in Names \cup SlashNames, t \in Texts : CreateThenWrite(n, t)
    BY <1>4
  <2> DEFINE i == First(Free)
  <2>2. CreatedAt(i, n, FALSE, t)
    BY <2>1, CreateIs DEF CreateThenWrite
  <2>3. op' = Started(i, 0, t) /\ strayed' = strayed
    BY <2>1 DEF CreateThenWrite
  <2> HIDE DEF i
  <2>4. i \in Slots /\ entries'[i].present /\ entries'[i].length = 0
    BY <1>2, <2>2
  <2>5. 0 \in 0 .. MAX_LENGTH /\ Len(t) \in 0 .. MAX_LENGTH
    BY SizesAre, TextIs
  <2>6. /\ op' \in Ops /\ op'.slot = i /\ op'.offset = 0 /\ op'.todo = t /\ op'.done = 0
        /\ op'.todo # <<>>
    BY <2>3, <2>4, <2>5, StartedIs
  <2>7. /\ op'.offset <= entries'[op'.slot].length
        /\ op'.offset + Len(op'.todo) <= MAX_LENGTH /\ op'.done <= Len(op'.todo)
    BY <2>4, <2>5, <2>6, SizesAre
  <2>8. ~Idle'
    BY <2>6 DEF Idle
  <2>9. QED
    BY <1>1, <1>2, <2>2, <2>3, <2>4, <2>6, <2>7, <2>8 DEF MesaTypes
<1>5. CASE \E n \in Names, t \in Texts : WriteFound(n, t)
  <2>1. PICK n \in Names, t \in Texts : WriteFound(n, t)
    BY <1>5
  <2>2. PICK i \in Slots, offset \in 0 .. MAX_LENGTH : BegunAt(i, offset, t)
    BY <2>1, WriteFoundIs
  <2>3. /\ op' \in Ops /\ op'.slot = i /\ op'.offset = offset /\ op'.todo = t
        /\ op'.done = 0 /\ op'.todo # <<>>
    BY <2>2, StartedIs DEF BegunAt
  <2>4. Len(t) \in Nat
    BY TextIs, SizesAre
  <2>5. ~Idle'
    BY <2>3 DEF Idle
  <2>6. QED
    BY <1>1, <2>2, <2>3, <2>4, <2>5 DEF MesaTypes, BegunAt
<1>6. CASE WriteSector
  <2>1. /\ disk' \in [Sectors -> [0 .. SECTOR - 1 -> DataBytes]]
        /\ meta' \in [Slots -> Entries] /\ op' \in Ops
        /\ op'.slot = op.slot /\ op'.offset = op.offset /\ op'.todo = op.todo
        /\ op'.done <= Len(op.todo) /\ strayed' \in BOOLEAN
        /\ UNCHANGED <<entries, text, asked>>
    BY <1>6, WriteSectorIs
  <2>2. ~Idle /\ ~Idle'
    BY <1>6, <2>1 DEF WriteSector, Idle
  <2>3. QED
    BY <2>1, <2>2 DEF MesaTypes
<1>7. CASE Finish
  <2>1. Finished
    BY <1>7, FinishIs
  <2>2. /\ Grown \in [Slots -> Entries]
        /\ \A j \in Slots : j # op.slot => Grown[j] = entries[j]
    BY GrownIs
  <2>3. \A j \in Slots : Len(text'[j]) = entries'[j].length
    BY <1>1, <2>1, <2>2 DEF Finished
  <2>4. /\ op' \in Ops /\ op'.offset = 0 /\ op'.todo = <<>> /\ op'.done = 0
        /\ op'.slot \in Slots /\ op' = IDLE /\ Idle'
    BY <2>1, IdleIs DEF Finished, Idle
  <2>5. Grown[op'.slot].length \in 0 .. MAX_LENGTH
    BY <2>2, <2>4, EntryIs
  <2>6. /\ op'.offset <= entries'[op'.slot].length
        /\ op'.offset + Len(op'.todo) <= MAX_LENGTH /\ op'.done <= Len(op'.todo)
    BY <2>1, <2>4, <2>5, SizesAre DEF Finished
  <2>7. QED
    BY <1>1, <2>1, <2>2, <2>3, <2>4, <2>6 DEF Finished, MesaTypes
<1>8. CASE Restart
  <2>1. /\ entries' = NoEntries /\ op' = IDLE /\ text' = [i \in Slots |-> <<>>]
        /\ UNCHANGED <<disk, meta, asked, strayed>>
    BY <1>8 DEF Restart
  <2>2. entries' \in [Slots -> Entries] /\ \A i \in Slots : entries'[i].length = 0
    BY <2>1, SavedIs
  <2>3. text' \in [Slots -> Seq(DataBytes)] /\ \A i \in Slots : Len(text'[i]) = 0
    BY <2>1
  <2>4. /\ op' \in Ops /\ op'.offset = 0 /\ op'.todo = <<>> /\ op'.done = 0
        /\ op'.slot \in Slots /\ Idle'
    BY <2>1, IdleIs DEF Idle
  <2>5. /\ op'.offset <= entries'[op'.slot].length
        /\ op'.offset + Len(op'.todo) <= MAX_LENGTH /\ op'.done <= Len(op'.todo)
    BY <2>2, <2>4, SizesAre
  <2>6. QED
    BY <2>1, <2>2, <2>3, <2>4, <2>5 DEF MesaTypes
<1>9. CASE UNCHANGED vars
  BY <1>9 DEF vars, MesaTypes, Idle
<1>10. QED
  BY <1>3, <1>4, <1>5, <1>6, <1>7, <1>8, <1>9 DEF Next

-----------------------------------------------------------------------------
LEMMA TypesHold == MesaTypes => TypeOK
<1> SUFFICES ASSUME MesaTypes PROVE TypeOK
  OBVIOUS
<1>1. /\ op.slot \in Slots /\ op.offset \in 0 .. MAX_LENGTH
      /\ op.done \in 0 .. Len(op.todo)
  BY OpIs
<1>2. ASSUME NEW i \in Slots
      PROVE  Len(text[i]) <= MAX_LENGTH
  <2>1. entries \in [Slots -> Entries] /\ Len(text[i]) = entries[i].length
    BY DEF MesaTypes
  <2>2. entries[i].length \in 0 .. MAX_LENGTH
    BY <2>1, EntryIs
  <2>3. QED
    BY <2>1, <2>2, SizesAre
<1>3. QED
  BY <1>1, <1>2 DEF MesaTypes, TypeOK

LEMMA CurrentStep ==
  ASSUME MesaTypes, MetadataCurrent, [Next]_vars
  PROVE  MetadataCurrent'
<1>1. CASE CreateOnly
  <2>1. PICK n \in Names \cup SlashNames, d \in BOOLEAN :
             CreatedAt(First(Free), n, d, <<>>)
    BY <1>1, CreateOnlyIs
  <2>2. meta' = Saved(entries')
    BY <2>1 DEF CreatedAt
  <2>3. QED
    BY <2>2 DEF MetadataCurrent, Saved
<1>2. CASE \E n \in Names \cup SlashNames, t \in Texts : CreateThenWrite(n, t)
  <2>1. PICK n \in Names \cup SlashNames, t \in Texts : CreateThenWrite(n, t)
    BY <1>2
  <2>2. CreatedAt(First(Free), n, FALSE, t)
    BY <2>1, CreateIs DEF CreateThenWrite
  <2>3. meta' = Saved(entries')
    BY <2>2 DEF CreatedAt
  <2>4. QED
    BY <2>3 DEF MetadataCurrent, Saved
<1>3. CASE \E n \in Names, t \in Texts : WriteFound(n, t)
  <2>1. PICK n \in Names, t \in Texts : WriteFound(n, t)
    BY <1>3
  <2>2. PICK i \in Slots, offset \in 0 .. MAX_LENGTH : BegunAt(i, offset, t)
    BY <2>1, WriteFoundIs
  <2>3. op'.todo # <<>>
    BY <2>2, StartedIs DEF BegunAt
  <2>4. QED
    BY <2>3 DEF MetadataCurrent, Idle
<1>4. CASE WriteSector
  <2>1. ~Idle /\ op'.todo = op.todo
    BY <1>4, WriteSectorIs DEF WriteSector
  <2>2. QED
    BY <2>1 DEF MetadataCurrent, Idle
<1>5. CASE Finish
  <2>1. entries' = Grown /\ meta' = Saved(Grown)
    BY <1>5, FinishIs DEF Finished
  <2>2. meta' = Saved(entries)'
    BY <2>1 DEF Saved
  <2>3. QED
    BY <2>2 DEF MetadataCurrent
<1>6. CASE Restart
  BY <1>6 DEF Restart, MetadataCurrent, NoEntries
<1>7. CASE UNCHANGED vars
  BY <1>7 DEF vars, MetadataCurrent, Idle, Saved
<1>8. QED
  BY <1>1, <1>2, <1>3, <1>4, <1>5, <1>6, <1>7 DEF Next

LEMMA CurrentInit == Init => MetadataCurrent
BY DEF Init, MetadataCurrent

LEMMA TypesInvariant == Spec => [](MesaTypes /\ MetadataCurrent)
<1>1. MesaTypes /\ MetadataCurrent /\ [Next]_vars => MesaTypes' /\ MetadataCurrent'
  BY TypesStep, CurrentStep
<1>2. QED
  BY <1>1, TypesInit, CurrentInit, PTL DEF Spec

(* A write in progress is of an entry and within its bounds, and between   *)
(* two operations the metadata sector holds the entries that fit in it, as *)
(* they are (mesafs.cpp:141-177, 183-200).                                 *)
THEOREM RegistryIsSound == Spec => []RegistrySound
<1>1. MesaTypes /\ MetadataCurrent => RegistrySound
  BY TypesHold DEF RegistrySound
<1>2. QED
  BY <1>1, TypesInvariant, PTL

-----------------------------------------------------------------------------
(* What the bytes under the saved lengths are, as long as no write left    *)
(* the region of its file.                                                 *)
Room == REGION * SECTOR

Small(e) == \A i \in Slots : e[i].present /\ ~e[i].dir => e[i].length <= Room

ByteOf(d, e, i, k) == d[Sector(e, i, k)][k % SECTOR]

Covered(d, e, a) ==
  \A i \in Slots : e[i].present /\ ~e[i].dir =>
    \A k \in 0 .. e[i].length - 1 : <<k, ByteOf(d, e, i, k)>> \in a[i]

Begun == op.done # 0 =>
  /\ ~entries[op.slot].dir /\ op.offset + op.done <= Room
  /\ \A k \in 1 .. op.done :
       ByteOf(disk, entries, op.slot, op.offset + k - 1) = op.todo[k]

AskInv == BytesAt(op.offset, op.todo) \subseteq asked[op.slot]

CoverInv ==
  ~strayed => /\ entries # NoEntries => meta = Saved(entries)
              /\ Small(meta) /\ Small(entries)
              /\ Covered(disk, meta, asked)
              /\ Begun

LEMMA NothingAsked ==
  ASSUME NEW offset
  PROVE  BytesAt(offset, <<>>) = {}
BY DEF BytesAt

LEMMA AskStep ==
  ASSUME MesaTypes, AskInv, [Next]_vars
  PROVE  AskInv'
<1>1. CASE op'.todo = <<>>
  BY <1>1, NothingAsked DEF AskInv
<1>2. CASE CreateOnly
  <2>1. op'.todo = <<>>
    BY <1>2 DEF CreateOnly, Idle
  <2>2. QED
    BY <1>1, <2>1
<1>3. CASE \E n \in Names \cup SlashNames, t \in Texts : CreateThenWrite(n, t)
  <2>1. PICK n \in Names \cup SlashNames, t \in Texts : CreateThenWrite(n, t)
    BY <1>3
  <2>2. CreatedAt(First(Free), n, FALSE, t) /\ op' = Started(First(Free), 0, t)
    BY <2>1, CreateIs DEF CreateThenWrite
  <2>3. asked'[First(Free)] = BytesAt(0, t) /\ First(Free) \in Slots
    BY <2>2 DEF CreatedAt
  <2>4. op'.slot = First(Free) /\ op'.offset = 0 /\ op'.todo = t
    BY <2>2 DEF Started
  <2>5. QED
    BY <2>3, <2>4 DEF AskInv
<1>4. CASE \E n \in Names, t \in Texts : WriteFound(n, t)
  <2>1. PICK n \in Names, t \in Texts : WriteFound(n, t)
    BY <1>4
  <2>2. PICK i \in Slots, offset \in 0 .. MAX_LENGTH : BegunAt(i, offset, t)
    BY <2>1, WriteFoundIs
  <2>3. BytesAt(offset, t) \subseteq asked'[i]
    BY <2>2 DEF BegunAt
  <2>4. op'.slot = i /\ op'.offset = offset /\ op'.todo = t
    BY <2>2 DEF BegunAt, Started
  <2>5. QED
    BY <2>3, <2>4 DEF AskInv
<1>5. CASE WriteSector
  <2>1. /\ op'.slot = op.slot /\ op'.offset = op.offset /\ op'.todo = op.todo
        /\ asked' = asked
    BY <1>5, WriteSectorIs
  <2>2. QED
    BY <2>1 DEF AskInv
<1>6. CASE Finish
  BY <1>1, <1>6 DEF Finish, IDLE
<1>7. CASE Restart
  BY <1>1, <1>7 DEF Restart, IDLE
<1>8. CASE UNCHANGED vars
  BY <1>8 DEF vars, AskInv
<1>9. QED
  BY <1>2, <1>3, <1>4, <1>5, <1>6, <1>7, <1>8 DEF Next

(* The sector of a byte of a file is not META, and in the region of its    *)
(* own as long as the file has room.                                       *)
LEMMA FileSector ==
  ASSUME NEW e \in [Slots -> Entries], NEW i \in Slots, ~e[i].dir,
         NEW k \in 0 .. MAX_LENGTH
  PROVE  /\ Sector(e, i, k) \in Sectors /\ Sector(e, i, k) # META
         /\ LBA(e, i) = FIRST + i * REGION /\ LBA(e, i) \in Nat
         /\ Sector(e, i, k) \in LBA(e, i) .. LBA(e, i) + REGION - 1 <=> k < Room
<1> DEFINE b == FIRST + i * REGION
           q == k \div SECTOR
<1>1. /\ Sector(e, i, k) \in Sectors /\ LBA(e, i) = b /\ q \in Nat
      /\ Sector(e, i, k) = LBA(e, i) + q
  BY SectorIs DEF LBA
<1>2. b \in Nat /\ b >= 2
  BY Regions
<1>3. q < REGION <=> k < Room
  <2>1. k \in Nat
    BY SizesAre
  <2>2. QED
    BY <2>1, InRegion DEF Room
<1> HIDE DEF b, q
<1>4. b + q # META /\ (b + q \in b .. b + REGION - 1 <=> q < REGION)
  BY <1>1, <1>2, SizesAre
<1>5. QED
  BY <1>1, <1>2, <1>3, <1>4 DEF b

LEMMA RoomIs == Room \in Nat
BY SizesAre DEF Room

LEMMA OtherFile ==
  ASSUME NEW e \in [Slots -> Entries], NEW f \in [Slots -> Entries],
         NEW i \in Slots, NEW j \in Slots, i # j, ~e[i].dir, ~f[j].dir,
         NEW k \in 0 .. MAX_LENGTH, k < Room,
         NEW s \in LBA(e, i) .. LBA(e, i) + REGION - 1
  PROVE  Sector(f, j, k) # s
<1> DEFINE b == FIRST + i * REGION
           c == FIRST + j * REGION
<1>1. LBA(e, i) = b /\ LBA(f, j) = c
  BY DEF LBA
<1>2. Sector(f, j, k) \in c .. c + REGION - 1
  BY <1>1, FileSector
<1>3. /\ b \in Nat /\ c \in Nat
      /\ i < j => b + REGION <= c
      /\ j < i => c + REGION <= b
  BY Regions
<1>4. i < j \/ j < i
  BY SizesAre DEF Slots
<1>5. s \in b .. b + REGION - 1
  BY <1>1
<1> HIDE DEF b, c
<1>6. QED
  BY <1>2, <1>3, <1>4, <1>5, SizesAre

(* Saving the metadata leaves the bytes of files alone.                    *)
LEMMA ByteKept ==
  ASSUME NEW e \in [Slots -> Entries], NEW f \in [Slots -> Entries],
         NEW i \in Slots, ~e[i].dir, f[i].dir = e[i].dir,
         NEW k \in 0 .. MAX_LENGTH, NEW c, NEW d,
         \A s \in Sectors : s # META => c[s] = d[s]
  PROVE  ByteOf(c, f, i, k) = ByteOf(d, e, i, k)
<1>1. Sector(e, i, k) \in Sectors /\ Sector(e, i, k) # META
  BY FileSector
<1>2. Sector(f, i, k) = Sector(e, i, k)
  BY DEF Sector, LBA
<1>3. QED
  BY <1>1, <1>2 DEF ByteOf

LEMMA SmallSaved ==
  ASSUME NEW e \in [Slots -> Entries], Small(e)
  PROVE  Small(Saved(e))
BY SavedIs DEF Small

LEMMA PresentIs ==
  ASSUME NEW i \in Slots, entries[i].present
  PROVE  entries # NoEntries
BY SavedIs

LEMMA CoverCreated ==
  ASSUME MesaTypes, CoverInv, NEW i, NEW n, NEW d, NEW t, CreatedAt(i, n, d, t),
         op'.done = 0, strayed' = strayed
  PROVE  CoverInv'
<1> SUFFICES ASSUME ~strayed
             PROVE  /\ meta' = Saved(entries')
                    /\ Small(meta') /\ Small(entries')
                    /\ Covered(disk', meta', asked')
  BY DEF CoverInv, Begun, Small, Covered, Saved
<1>1. /\ i \in Slots /\ ~entries[i].present
      /\ entries' \in [Slots -> Entries] /\ entries'[i].length = 0
      /\ \A j \in Slots : j # i => entries'[j] = entries[j]
      /\ meta' = Saved(entries') /\ meta' \in [Slots -> Entries]
      /\ \A s \in Sectors : s # META => disk'[s] = disk[s]
      /\ \A j \in Slots : j # i /\ entries[j].present => asked'[j] = asked[j]
  BY DEF CreatedAt
<1>2. /\ entries \in [Slots -> Entries] /\ meta \in [Slots -> Entries]
      /\ entries # NoEntries => meta = Saved(entries)
      /\ Small(entries) /\ Covered(disk, meta, asked)
  BY DEF MesaTypes, CoverInv
<1>3. Small(entries')
  BY <1>1, <1>2, RoomIs DEF Small
<1>4. Small(meta')
  BY <1>1, <1>3, SmallSaved
<1>5. ASSUME NEW j \in Slots, meta'[j].present, ~meta'[j].dir,
             NEW k \in 0 .. meta'[j].length - 1
      PROVE  <<k, ByteOf(disk', meta', j, k)>> \in asked'[j]
  <2>1. meta'[j] = entries'[j]
    BY <1>1, <1>5, SavedIs
  <2>2. meta'[j].length \in 0 .. MAX_LENGTH
    BY <1>1, EntryIs
  <2>3. j # i
    BY <1>1, <1>5, <2>1
  <2>4. entries'[j] = entries[j] /\ entries[j].present
    BY <1>1, <1>5, <2>1, <2>3
  <2>5. meta = Saved(entries)
    BY <1>2, <2>4, PresentIs
  <2>6. meta[j] = meta'[j]
    BY <1>1, <1>2, <1>5, <2>1, <2>4, <2>5, SavedIs
  <2>7. <<k, ByteOf(disk, meta, j, k)>> \in asked[j]
    BY <1>2, <1>5, <2>6 DEF Covered
  <2>8. k \in 0 .. MAX_LENGTH
    BY <2>2, SizesAre
  <2>9. ByteOf(disk', meta', j, k) = ByteOf(disk, meta, j, k)
    BY <1>1, <1>2, <1>5, <2>6, <2>8, ByteKept
  <2>10. QED
    BY <1>1, <2>3, <2>4, <2>7, <2>9
<1>6. QED
  BY <1>1, <1>3, <1>4, <1>5 DEF Covered

LEMMA CoverBegun ==
  ASSUME MesaTypes, CoverInv, NEW i, NEW offset, NEW t \in Texts, BegunAt(i, offset, t)
  PROVE  CoverInv'
<1>1. /\ UNCHANGED <<entries, disk, meta, strayed>>
      /\ \A j \in Slots : asked[j] \subseteq asked'[j]
      /\ op'.done = 0
  BY DEF BegunAt, Started
<1>2. Covered(disk, meta, asked) => Covered(disk, meta, asked')
  BY <1>1 DEF Covered
<1>3. Begun'
  BY <1>1 DEF Begun
<1>4. QED
  BY <1>1, <1>2, <1>3 DEF CoverInv, Small, Saved, Covered, ByteOf, Sector, LBA

(* Which byte of a text comes to place k.                                  *)
LEMMA PlaceInText ==
  ASSUME NEW o \in Nat, NEW l \in Nat, NEW k \in Nat, o <= k, k < o + l
  PROVE  k - o + 1 \in 1 .. l /\ o + (k - o + 1) - 1 = k
OBVIOUS

(* A round that stays in its region writes bytes that were asked for.      *)
LEMMA CoverWritten ==
  ASSUME MesaTypes, AskInv, CoverInv, WriteSector
  PROVE  CoverInv'
<1> SUFFICES ASSUME ~strayed'
             PROVE  /\ meta' = Saved(entries)
                    /\ Small(meta') /\ Small(entries)
                    /\ Covered(disk', meta', asked)
                    /\ Begun'
  <2>1. entries' = entries /\ asked' = asked
    BY WriteSectorIs
  <2>2. QED
    BY <2>1 DEF CoverInv, Small, Covered, Saved
<1> DEFINE i == op.slot
<1>1. /\ ~strayed /\ Own(i, Target) /\ UNCHANGED <<entries, text, asked>>
      /\ op'.slot = i /\ op'.offset = op.offset /\ op'.todo = op.todo
      /\ op'.done = op.done + Chunk
  BY WriteSectorIs DEF MesaTypes
<1>2. /\ ~Idle /\ op.done < Len(op.todo)
      /\ meta' = IF Target = META THEN NoEntries ELSE meta
  BY DEF WriteSector
<1>3. /\ i \in Slots /\ op.offset \in Nat /\ op.done \in Nat
      /\ op.offset + Len(op.todo) <= MAX_LENGTH /\ Len(op.todo) \in Nat
      /\ op.todo \in Texts \cup {<<>>}
  BY OpIs, SizesAre
<1>4. /\ entries \in [Slots -> Entries] /\ meta \in [Slots -> Entries]
      /\ entries[i].present
  BY <1>2 DEF MesaTypes
<1>5. /\ At \in Nat /\ Chunk \in Nat /\ Chunk >= 1 /\ At = op.offset + op.done
      /\ op.done + Chunk <= Len(op.todo) /\ At + Chunk <= MAX_LENGTH
      /\ Target = Sector(entries, i, At) /\ Target \in Sectors
      /\ \A p \in At .. At + Chunk - 1 : p \div SECTOR = At \div SECTOR
  BY <1>2, RoundIs
<1>6. /\ ~entries[i].dir
      /\ Target \in LBA(entries, i) .. LBA(entries, i) + REGION - 1
  BY <1>1 DEF Own
<1>7. At \in 0 .. MAX_LENGTH /\ At + Chunk - 1 \in 0 .. MAX_LENGTH
  BY <1>5, SizesAre
<1>8. At + Chunk <= Room /\ Target # META
  <2>1. Sector(entries, i, At + Chunk - 1) = Target
    <3>1. At + Chunk - 1 \in At .. At + Chunk - 1
      BY <1>5
    <3>2. (At + Chunk - 1) \div SECTOR = At \div SECTOR
      BY <1>5, <3>1
    <3>3. QED
      BY <1>5, <3>2 DEF Sector
  <2> DEFINE l == At + Chunk - 1
  <2>2. l < Room
    <3>1. l \in 0 .. MAX_LENGTH /\ Sector(entries, i, l) = Target
      BY <1>7, <2>1
    <3> HIDE DEF l, i
    <3>2. QED
      BY <1>3, <1>4, <1>6, <3>1, FileSector
  <2>3. Target # META
    BY <1>3, <1>4, <1>5, <1>6, <1>7, FileSector
  <2>4. QED
    BY <1>5, <2>2, <2>3, RoomIs
<1>9. meta' = meta /\ meta = Saved(entries)
  <2>1. entries # NoEntries
    BY <1>3, <1>4, PresentIs
  <2>2. QED
    BY <1>1, <1>2, <1>8, <2>1 DEF CoverInv
<1>10. Small(meta) /\ Small(entries) /\ Covered(disk, meta, asked) /\ Begun
  BY <1>1 DEF CoverInv
<1>11. \A p \in 0 .. MAX_LENGTH :
          ByteOf(disk', entries, i, p) =
            IF p \in At .. At + Chunk - 1 THEN op.todo[p - op.offset + 1]
            ELSE ByteOf(disk, entries, i, p)
  BY RoundOwn DEF ByteOf
<1>12. Covered(disk', meta, asked)
  <2> SUFFICES ASSUME NEW j \in Slots, meta[j].present, ~meta[j].dir,
                      NEW k \in 0 .. meta[j].length - 1
               PROVE  <<k, ByteOf(disk', meta, j, k)>> \in asked[j]
    BY DEF Covered
  <2>1. k \in 0 .. MAX_LENGTH /\ k < Room
    <3>1. meta[j].length \in 0 .. MAX_LENGTH /\ meta[j].length <= Room
      BY <1>4, <1>10, EntryIs DEF Small
    <3>2. QED
      BY <3>1, RoomIs, SizesAre
  <2>2. <<k, ByteOf(disk, meta, j, k)>> \in asked[j]
    BY <1>10 DEF Covered
  <2>3. CASE j # i
    <3>1. Sector(meta, j, k) # Target
      BY <1>3, <1>4, <1>6, <2>1, <2>3, OtherFile
    <3>2. Sector(meta, j, k) \in Sectors
      BY <1>4, <2>1, SectorIs
    <3>3. disk'[Sector(meta, j, k)] = disk[Sector(meta, j, k)]
      BY <3>1, <3>2, RoundOther
    <3>4. QED
      BY <2>2, <3>3 DEF ByteOf
  <2>4. CASE j = i
    <3>1. meta[i] = entries[i]
      BY <1>3, <1>4, <1>9, <2>4, SavedIs
    <3>2. \A c : ByteOf(c, meta, i, k) = ByteOf(c, entries, i, k)
      BY <3>1 DEF ByteOf, Sector, LBA
    <3>3. CASE k \notin At .. At + Chunk - 1
      BY <1>11, <2>1, <2>2, <2>4, <3>2, <3>3
    <3>4. CASE k \in At .. At + Chunk - 1
      <4>1. ByteOf(disk', meta, i, k) = op.todo[k - op.offset + 1]
        BY <1>11, <2>1, <3>2, <3>4
      <4> DEFINE m == k - op.offset + 1
      <4>2. m \in 1 .. Len(op.todo) /\ op.offset + m - 1 = k
        <5>1. k \in Nat
          BY <2>1, SizesAre
        <5>2. PICK q \in Nat : q = k
          BY <5>1
        <5>3. op.offset <= q /\ q < op.offset + Len(op.todo)
          <6>1. PICK a, c, o, e, l \in Nat :
                  /\ a = At /\ c = Chunk /\ o = op.offset
                  /\ e = op.done /\ l = Len(op.todo)
            BY <1>3, <1>5
          <6>2. a = o + e /\ e + c <= l /\ q \in a .. a + c - 1
            BY <1>5, <3>4, <5>2, <6>1
          <6>3. o <= q /\ q < o + l
            BY <6>2
          <6>4. QED
            BY <6>1, <6>3
        <5>4. q - op.offset + 1 \in 1 .. Len(op.todo)
              /\ op.offset + (q - op.offset + 1) - 1 = q
          BY <1>3, <5>3, PlaceInText, Zenon
        <5>5. QED
          BY <5>2, <5>4
      <4> HIDE DEF m
      <4>3. <<op.offset + m - 1, op.todo[m]>> \in BytesAt(op.offset, op.todo)
        BY <1>3, <4>2, BytesAtIs
      <4>4. QED
        BY <2>4, <4>1, <4>2, <4>3 DEF AskInv, m
    <3>5. QED
      BY <3>3, <3>4
  <2>5. QED
    BY <2>3, <2>4
<1>13. Begun'
  <2> SUFFICES /\ op.offset + (op.done + Chunk) <= Room
               /\ \A k \in 1 .. op.done + Chunk :
                    ByteOf(disk', entries, i, op.offset + k - 1) = op.todo[k]
    BY <1>1, <1>6 DEF Begun, ByteOf, Sector, LBA
  <2>1. PICK a, c, o, e \in Nat : /\ a = At /\ c = Chunk /\ o = op.offset /\ e = op.done
    BY <1>3, <1>5
  <2>2. a = o + e /\ a + c <= Room /\ a + c <= MAX_LENGTH
    BY <1>5, <1>8, <2>1
  <2>3. op.offset + (op.done + Chunk) <= Room
    <3>1. o + (e + c) <= Room
      BY <2>1, <2>2, RoomIs
    <3>2. QED
      BY <2>1, <3>1
  <2>4. ASSUME NEW k \in 1 .. op.done + Chunk
        PROVE  ByteOf(disk', entries, i, op.offset + k - 1) = op.todo[k]
    <3> DEFINE p == op.offset + k - 1
    <3>1. p \in 0 .. MAX_LENGTH /\ p - op.offset + 1 = k
          /\ (p \in At .. At + Chunk - 1 <=> k > op.done)
      <4>1. k \in 1 .. e + c
        BY <2>1, <2>4
      <4>2. o + k - 1 \in 0 .. MAX_LENGTH /\ (o + k - 1) - o + 1 = k
            /\ (o + k - 1 \in a .. a + c - 1 <=> k > e)
        BY <2>1, <2>2, <4>1, SizesAre
      <4>3. QED
        BY <2>1, <4>2
    <3>2. ByteOf(disk', entries, i, p) =
            IF p \in At .. At + Chunk - 1 THEN op.todo[p - op.offset + 1]
            ELSE ByteOf(disk, entries, i, p)
      BY <1>11, <3>1
    <3>3. ~(k > op.done) => ByteOf(disk, entries, i, p) = op.todo[k]
      <4>1. ASSUME ~(k > op.done)
            PROVE  k \in 1 .. op.done /\ op.done # 0
        <5>1. k \in 1 .. e + c /\ ~(k > e)
          BY <2>1, <2>4, <4>1
        <5>2. k \in 1 .. e /\ e # 0
          BY <2>1, <5>1
        <5>3. QED
          BY <2>1, <5>2
      <4>2. QED
        BY <1>10, <4>1 DEF Begun
    <3> HIDE DEF p
    <3>4. ByteOf(disk', entries, i, p) = op.todo[k]
      BY <3>1, <3>2, <3>3
    <3>5. QED
      BY <3>4 DEF p
  <2>5. QED
    BY <2>3, <2>4
<1>14. QED
  BY <1>9, <1>10, <1>12, <1>13

(* At the end of a write the lengths that are saved have all their bytes.  *)
LEMMA CoverFinished ==
  ASSUME MesaTypes, AskInv, CoverInv, Finished
  PROVE  CoverInv'
<1> SUFFICES ASSUME ~strayed
             PROVE  /\ meta' = Saved(entries')
                    /\ Small(meta') /\ Small(entries')
                    /\ Covered(disk', meta', asked)
  <2>1. asked' = asked /\ strayed' = strayed /\ op'.done = 0
    BY IdleIs DEF Finished
  <2>2. QED
    BY <2>1 DEF CoverInv, Begun, Small, Covered, Saved
<1> DEFINE i == op.slot
<1>1. /\ ~Idle /\ op.done = Len(op.todo) /\ i \in Slots
      /\ entries' = Grown /\ meta' = Saved(Grown) /\ meta' \in [Slots -> Entries]
      /\ \A s \in Sectors : s # META => disk'[s] = disk[s]
  BY DEF Finished
<1>2. /\ op.offset \in Nat /\ Len(op.todo) \in Nat /\ Len(op.todo) # 0
      /\ op.todo \in Texts \cup {<<>>}
      /\ entries \in [Slots -> Entries] /\ meta \in [Slots -> Entries]
      /\ entries[i].present /\ op.offset <= entries[i].length
      /\ entries[i].length \in Nat
  BY <1>1, OpIs, EntryIs, SizesAre DEF MesaTypes
<1>3. /\ Grown \in [Slots -> Entries]
      /\ \A j \in Slots : j # i => Grown[j] = entries[j]
      /\ \A j \in Slots : /\ Grown[j].present = entries[j].present
                          /\ Grown[j].dir = entries[j].dir
      /\ Grown[i].length = IF op.offset + Len(op.todo) > entries[i].length
                           THEN op.offset + Len(op.todo) ELSE entries[i].length
  BY GrownIs
<1>4. /\ entries # NoEntries /\ meta = Saved(entries)
      /\ Small(entries) /\ Covered(disk, meta, asked) /\ Begun
  BY <1>1, <1>2, PresentIs DEF CoverInv
<1>5. /\ ~entries[i].dir /\ op.offset + Len(op.todo) <= Room
      /\ \A k \in 1 .. Len(op.todo) :
           ByteOf(disk, entries, i, op.offset + k - 1) = op.todo[k]
  BY <1>1, <1>2, <1>4 DEF Begun
<1>6. Small(entries')
  BY <1>1, <1>2, <1>3, <1>4, <1>5, RoomIs DEF Small
<1>7. Small(meta')
  BY <1>1, <1>3, <1>6, SmallSaved
<1>8. ASSUME NEW j \in Slots, meta'[j].present, ~meta'[j].dir,
             NEW k \in 0 .. meta'[j].length - 1
      PROVE  <<k, ByteOf(disk', meta', j, k)>> \in asked[j]
  <2>1. meta'[j] = Grown[j] /\ j < FIT
    BY <1>1, <1>3, <1>8, SavedIs
  <2>2. meta[j] = entries[j]
    BY <1>2, <1>4, <2>1, SavedIs
  <2>3. meta'[j].length \in 0 .. MAX_LENGTH
    BY <1>1, EntryIs
  <2>4. k \in 0 .. MAX_LENGTH
    BY <2>3, SizesAre
  <2>5. meta[j].present /\ ~meta[j].dir /\ meta'[j].dir = meta[j].dir
    BY <1>3, <1>8, <2>1, <2>2
  <2>6. ByteOf(disk', meta', j, k) = ByteOf(disk, meta, j, k)
    BY <1>1, <1>2, <2>4, <2>5, ByteKept
  <2>7. CASE k \in 0 .. meta[j].length - 1
    <3>1. <<k, ByteOf(disk, meta, j, k)>> \in asked[j]
      BY <1>4, <2>5, <2>7 DEF Covered
    <3>2. QED
      BY <2>6, <3>1
  <2>8. CASE k \notin 0 .. meta[j].length - 1
    <3>1. j = i
      BY <1>3, <2>1, <2>2, <2>8
    <3> DEFINE m == k - op.offset + 1
    <3>2. m \in 1 .. Len(op.todo) /\ op.offset + m - 1 = k
      <4>1. k \in Nat
        BY <2>4, SizesAre
      <4>2. PICK q \in Nat : q = k
        BY <4>1
      <4>3. op.offset <= q /\ q < op.offset + Len(op.todo)
        <5>1. PICK o, l, n \in Nat : /\ o = op.offset /\ l = Len(op.todo)
                                     /\ n = entries[i].length
          BY <1>2
        <5>2. ~(q < n) /\ q < (IF o + l > n THEN o + l ELSE n) /\ o <= n
          <6>1. q < Grown[i].length
            <7>1. PICK g \in Nat : g = meta'[j].length
              BY <2>3, SizesAre
            <7>2. q < g
              BY <1>8, <4>2, <7>1
            <7>3. QED
              BY <2>1, <3>1, <7>1, <7>2
          <6>2. ~(q < n)
            <7>1. q \notin 0 .. n - 1
              BY <2>2, <2>8, <3>1, <4>2, <5>1
            <7>2. QED
              BY <7>1
          <6>3. Grown[i].length = IF o + l > n THEN o + l ELSE n
            BY <1>3, <5>1
          <6>4. QED
            BY <1>2, <5>1, <6>1, <6>2, <6>3
        <5>3. o <= q /\ q < o + l
          BY <5>2
        <5>4. QED
          BY <5>1, <5>3
      <4>4. q - op.offset + 1 \in 1 .. Len(op.todo)
            /\ op.offset + (q - op.offset + 1) - 1 = q
        BY <1>2, <4>3, PlaceInText, Zenon
      <4>5. QED
        BY <4>2, <4>4
    <3> HIDE DEF m
    <3>3. ByteOf(disk, entries, i, k) = op.todo[m]
      BY <1>5, <3>2
    <3>4. ByteOf(disk, meta, j, k) = ByteOf(disk, entries, i, k)
      BY <2>2, <3>1 DEF ByteOf, Sector, LBA
    <3>5. <<op.offset + m - 1, op.todo[m]>> \in BytesAt(op.offset, op.todo)
      BY <1>2, <3>2, BytesAtIs
    <3>6. QED
      BY <2>6, <3>1, <3>2, <3>3, <3>4, <3>5 DEF AskInv
  <2>9. QED
    BY <2>7, <2>8
<1>9. QED
  BY <1>1, <1>6, <1>7, <1>8 DEF Covered

LEMMA CoverInit == Init => CoverInv /\ AskInv
<1> SUFFICES ASSUME Init PROVE CoverInv /\ AskInv
  OBVIOUS
<1>1. entries = NoEntries /\ meta = NoEntries /\ op = IDLE
  BY DEF Init
<1>2. op.done = 0 /\ op.todo = <<>>
  BY <1>1, IdleIs
<1>3. \A i \in Slots : ~entries[i].present /\ ~meta[i].present
  BY <1>1, SavedIs
<1>4. Small(meta) /\ Small(entries) /\ Covered(disk, meta, asked)
  BY <1>3 DEF Small, Covered
<1>5. CoverInv
  BY <1>1, <1>2, <1>4 DEF CoverInv, Begun
<1>6. AskInv
  BY <1>2, NothingAsked DEF AskInv
<1>7. QED
  BY <1>5, <1>6

LEMMA CoverStep ==
  ASSUME MesaTypes, AskInv, CoverInv, [Next]_vars
  PROVE  CoverInv'
<1>1. CASE CreateOnly
  <2>1. PICK n \in Names \cup SlashNames, d \in BOOLEAN :
             CreatedAt(First(Free), n, d, <<>>)
    BY <1>1, CreateOnlyIs
  <2>2. op'.done = 0 /\ strayed' = strayed
    BY <1>1, IdleIs DEF CreateOnly, MesaTypes
  <2>3. QED
    BY <2>1, <2>2, CoverCreated
<1>2. CASE \E n \in Names \cup SlashNames, t \in Texts : CreateThenWrite(n, t)
  <2>1. PICK n \in Names \cup SlashNames, t \in Texts : CreateThenWrite(n, t)
    BY <1>2
  <2>2. CreatedAt(First(Free), n, FALSE, t)
    BY <2>1, CreateIs DEF CreateThenWrite
  <2>3. op'.done = 0 /\ strayed' = strayed
    BY <2>1 DEF CreateThenWrite, Started
  <2>4. QED
    BY <2>2, <2>3, CoverCreated
<1>3. CASE \E n \in Names, t \in Texts : WriteFound(n, t)
  <2>1. PICK n \in Names, t \in Texts : WriteFound(n, t)
    BY <1>3
  <2>2. PICK i \in Slots, offset \in 0 .. MAX_LENGTH : BegunAt(i, offset, t)
    BY <2>1, WriteFoundIs
  <2>3. QED
    BY <2>2, CoverBegun
<1>4. CASE WriteSector
  BY <1>4, CoverWritten
<1>5. CASE Finish
  BY <1>5, FinishIs, CoverFinished
<1>6. CASE Restart
  <2>1. /\ entries' = NoEntries /\ op' = IDLE
        /\ UNCHANGED <<disk, meta, asked, strayed>>
    BY <1>6 DEF Restart
  <2>2. Small(entries')
    BY <2>1, SavedIs DEF Small
  <2>3. op'.done = 0 /\ entries' = NoEntries'
    BY <2>1, IdleIs DEF NoEntries
  <2>4. QED
    BY <2>1, <2>2, <2>3 DEF CoverInv, Begun, Small, Covered, ByteOf, Sector, LBA
<1>7. CASE UNCHANGED vars
  BY <1>7 DEF vars, CoverInv, Begun, Small, Saved, Covered, ByteOf, Sector, LBA, NoEntries
<1>8. QED
  BY <1>1, <1>2, <1>3, <1>4, <1>5, <1>6, <1>7 DEF Next

(* Data before metadata: as long as no write left the region of its file,  *)
(* every byte under a saved length is one that a write to this file put    *)
(* there, at every point where the power can fail (mesafs.cpp:149-177).    *)
THEOREM SavedLengthsAreCovered == Spec => []SavedLengthsCovered
<1>1. CoverInv => SavedLengthsCovered
  BY DEF CoverInv, Covered, ByteOf, Sector, SavedLengthsCovered, Byte
<1>2. MesaTypes /\ AskInv /\ CoverInv /\ [Next]_vars => AskInv' /\ CoverInv'
  BY AskStep, CoverStep
<1>3. QED
  BY <1>1, <1>2, CoverInit, TypesInvariant, PTL DEF Spec

-----------------------------------------------------------------------------
(* What the bytes of files are while a write is going on, as long as the   *)
(* files that it leaves have their sectors for themselves.                 *)
Written(i, k) == i = op.slot /\ k \in op.offset .. op.offset + op.done - 1

ReadInv ==
  Apart(Grown) =>
    \A i \in Slots : entries[i].present =>
      \A k \in 0 .. MAX_LENGTH :
        /\ Written(i, k) => ByteOf(disk, entries, i, k) = op.todo[k - op.offset + 1]
        /\ ~Written(i, k) /\ k < entries[i].length =>
             ByteOf(disk, entries, i, k) = text[i][k + 1]

LEMMA OccupiedIs ==
  ASSUME NEW e \in [Slots -> Entries], NEW i \in Slots, e[i].present,
         NEW k \in 0 .. MAX_LENGTH, k < e[i].length
  PROVE  Sector(e, i, k) \in Occupied(e, i)
<1> DEFINE b == LBA(e, i)
           q == k \div SECTOR
           m == (e[i].length - 1) \div SECTOR
<1>1. PICK n \in Nat : n = e[i].length
  BY EntryIs, SizesAre
<1>2. k \in Nat /\ n # 0 /\ n - 1 \in Nat /\ k <= n - 1
  BY <1>1, SizesAre
<1>3. b \in Nat /\ q \in Nat
  BY SectorIs
<1>4. m \in Nat /\ q <= m
  BY <1>1, <1>2, PlaceIs, LaterPlace
<1>5. Sector(e, i, k) = b + q /\ Occupied(e, i) = b .. b + m
  BY <1>1, <1>2 DEF Sector, Occupied
<1> HIDE DEF b, q, m
<1>6. QED
  BY <1>3, <1>4, <1>5

LEMMA OccupiedGrows ==
  ASSUME NEW e \in [Slots -> Entries], NEW f \in [Slots -> Entries], NEW i \in Slots,
         e[i].present => f[i].present /\ f[i].dir = e[i].dir /\ e[i].length <= f[i].length
  PROVE  Occupied(e, i) \subseteq Occupied(f, i)
<1> SUFFICES ASSUME e[i].present, e[i].length # 0
             PROVE  Occupied(e, i) \subseteq Occupied(f, i)
  BY DEF Occupied
<1> DEFINE b == LBA(e, i)
           c == (e[i].length - 1) \div SECTOR
           m == (f[i].length - 1) \div SECTOR
<1>1. PICK n \in Nat, p \in Nat : n = e[i].length /\ p = f[i].length
  BY EntryIs, SizesAre
<1>2. n - 1 \in Nat /\ p - 1 \in Nat /\ n - 1 <= p - 1 /\ p # 0
  BY <1>1
<1>3. c \in Nat /\ m \in Nat /\ c <= m
  BY <1>1, <1>2, PlaceIs, LaterPlace
<1>4. 0 \in 0 .. MAX_LENGTH
  BY SizesAre
<1>5. b \in Nat
  BY <1>4, SectorIs
<1>6. Occupied(e, i) = b .. b + c
  BY <1>1 DEF Occupied
<1>7. Occupied(f, i) = b .. b + m
  BY <1>1, <1>2 DEF Occupied, LBA
<1> HIDE DEF b, c, m
<1>8. QED
  BY <1>3, <1>5, <1>6, <1>7

LEMMA ApartLess ==
  ASSUME NEW e, NEW f, \A i \in Slots : Occupied(e, i) \subseteq Occupied(f, i), Apart(f)
  PROVE  Apart(e)
BY DEF Apart

LEMMA ApartGrown ==
  ASSUME MesaTypes', Apart(Grown)'
  PROVE  Apart(entries')
<1> DEFINE s == op'.slot
           n == op'.offset + Len(op'.todo)
<1>1. /\ entries' \in [Slots -> Entries] /\ op' \in Ops /\ n <= MAX_LENGTH
  BY DEF MesaTypes
<1>2. s \in Slots /\ n \in Nat
  <2>1. /\ s \in Slots /\ op'.offset \in 0 .. MAX_LENGTH
        /\ op'.todo \in Texts \cup {<<>>}
    BY <1>1 DEF Ops
  <2>2. Len(op'.todo) \in Nat
    BY <2>1, TextIs, SizesAre
  <2>3. QED
    BY <2>1, <2>2, SizesAre
<1>3. Grown' = [entries' EXCEPT ![s].length = IF n > @ THEN n ELSE @]
  BY DEF Grown
<1>4. Apart(Grown')
  BY DEF Apart, Occupied, LBA
<1> DEFINE f == Grown'
           l == IF n > entries'[s].length THEN n ELSE entries'[s].length
           node == [entries'[s] EXCEPT !.length = l]
<1>5. f = [entries' EXCEPT ![s] = node]
  BY <1>2, <1>3
<1>6. /\ entries'[s].length \in 0 .. MAX_LENGTH /\ entries'[s] \in Entries
  BY <1>1, <1>2, EntryIs
<1> HIDE DEF f, s, n
<1>7. l \in 0 .. MAX_LENGTH /\ entries'[s].length <= l
  BY <1>1, <1>2, <1>6, SizesAre
<1> HIDE DEF l
<1>8. /\ node \in Entries /\ node.length = l /\ node.present = entries'[s].present
      /\ node.dir = entries'[s].dir
  BY <1>6, <1>7 DEF Entries
<1> HIDE DEF node
<1>9. f \in [Slots -> Entries]
  BY <1>1, <1>2, <1>5, <1>8
<1>10. ASSUME NEW i \in Slots
       PROVE  Occupied(entries', i) \subseteq Occupied(f, i)
  <2>1. CASE i = s
    <3>1. f[i] = node
      BY <1>1, <1>2, <1>5, <2>1
    <3>2. QED
      BY <1>1, <1>7, <1>8, <1>9, <2>1, <3>1, OccupiedGrows
  <2>2. CASE i # s
    <3>1. f[i] = entries'[i]
      BY <1>1, <1>5, <2>2
    <3>2. QED
      BY <3>1 DEF Occupied, LBA
  <2>3. QED
    BY <2>1, <2>2
<1>11. QED
  BY <1>4, <1>10, ApartLess DEF f

(* Nothing of a write that has not begun is on the disk.                   *)
LEMMA NothingWritten ==
  ASSUME NEW o \in Nat
  PROVE  \A k : k \notin o .. o + 0 - 1
OBVIOUS

LEMMA UnwrittenIs ==
  ASSUME MesaTypes, op.done = 0, NEW i, NEW k
  PROVE  ~Written(i, k)
<1>1. op.offset \in Nat
  BY OpIs, SizesAre
<1>2. QED
  BY <1>1, NothingWritten DEF Written

LEMMA UnwrittenNext ==
  ASSUME MesaTypes', op'.done = 0, NEW i, NEW k
  PROVE  ~Written(i, k)'
<1>1. op' \in Ops
  BY DEF MesaTypes
<1>2. op'.offset \in Nat
  BY <1>1, SizesAre DEF Ops
<1>3. QED
  BY <1>2, NothingWritten DEF Written

LEMMA ReadCreated ==
  ASSUME MesaTypes, MesaTypes', ReadInv, Idle, op'.done = 0,
         NEW i, NEW n, NEW d, NEW t, CreatedAt(i, n, d, t)
  PROVE  ReadInv'
<1> SUFFICES ASSUME Apart(Grown)',
                    NEW j \in Slots, entries'[j].present,
                    NEW k \in 0 .. MAX_LENGTH, k < entries'[j].length
             PROVE  ByteOf(disk', entries', j, k) = text'[j][k + 1]
  BY UnwrittenNext DEF ReadInv, ByteOf, Sector, LBA
<1>1. /\ i \in Slots /\ ~entries[i].present
      /\ entries' \in [Slots -> Entries] /\ entries'[i].length = 0
      /\ \A l \in Slots : l # i => entries'[l] = entries[l] /\ text'[l] = text[l]
      /\ \A s \in Sectors : s # META => disk'[s] = disk[s]
  BY DEF CreatedAt
<1>2. entries \in [Slots -> Entries] /\ op.done = 0
  BY IdleIs DEF MesaTypes
<1>3. Apart(entries')
  BY ApartGrown
<1>4. Apart(entries)
  <2>1. ASSUME NEW l \in Slots
        PROVE  Occupied(entries, l) \subseteq Occupied(entries', l)
    <3>1. CASE l = i
      BY <1>1, <3>1 DEF Occupied
    <3>2. CASE l # i
      BY <1>1, <3>2 DEF Occupied, LBA
    <3>3. QED
      BY <3>1, <3>2
  <2>2. QED
    BY <1>3, <2>1, ApartLess
<1>5. Apart(Grown)
  BY <1>4, GrownIs
<1>6. j # i
  BY <1>1, SizesAre
<1>7. /\ entries'[j] = entries[j] /\ text'[j] = text[j]
      /\ entries[j].present /\ k < entries[j].length
  BY <1>1, <1>6
<1>8. ByteOf(disk, entries, j, k) = text[j][k + 1]
  BY <1>2, <1>5, <1>7, UnwrittenIs DEF ReadInv
<1>9. Sector(entries, j, k) \in Sectors /\ Sector(entries, j, k) # META
  BY <1>2, <1>4, <1>7, SectorIs, OccupiedIs DEF Apart
<1>10. Sector(entries', j, k) = Sector(entries, j, k)
  BY <1>7 DEF Sector, LBA
<1>11. QED
  BY <1>1, <1>7, <1>8, <1>9, <1>10 DEF ByteOf

LEMMA ReadBegun ==
  ASSUME MesaTypes, MesaTypes', ReadInv, Idle,
         NEW i, NEW offset, NEW t \in Texts, BegunAt(i, offset, t)
  PROVE  ReadInv'
<1>1. /\ UNCHANGED <<entries, disk, text>> /\ op'.done = 0 /\ op.done = 0
  BY IdleIs DEF BegunAt, Started, MesaTypes
<1> SUFFICES ASSUME Apart(Grown)',
                    NEW j \in Slots, entries[j].present,
                    NEW k \in 0 .. MAX_LENGTH, k < entries[j].length
             PROVE  ByteOf(disk, entries, j, k) = text[j][k + 1]
  BY <1>1, UnwrittenNext DEF ReadInv, ByteOf, Sector, LBA
<1>2. Apart(entries')
  BY ApartGrown
<1>3. Apart(Grown)
  BY <1>1, <1>2, GrownIs
<1>4. QED
  BY <1>1, <1>3, UnwrittenIs DEF ReadInv

(* A round changes no byte of another file.                                *)
LEMMA RoundApart ==
  ASSUME MesaTypes, ~Idle, op.done < Len(op.todo), Apart(Grown),
         NEW j \in Slots, j # op.slot, entries[j].present,
         NEW k \in 0 .. MAX_LENGTH, k < entries[j].length
  PROVE  Sector(entries, j, k) # Target
<1> DEFINE i == op.slot
<1>1. /\ i \in Slots /\ entries[i].present /\ entries \in [Slots -> Entries]
      /\ op.offset \in Nat /\ op.done \in Nat /\ Len(op.todo) \in Nat
      /\ entries[i].length \in Nat
  BY OpIs, EntryIs, SizesAre DEF MesaTypes
<1>2. /\ At \in Nat /\ Chunk \in Nat /\ Chunk >= 1 /\ At = op.offset + op.done
      /\ At + Chunk <= MAX_LENGTH /\ Target = Sector(entries, i, At)
  BY RoundIs
<1>3. /\ Grown \in [Slots -> Entries] /\ Grown[j] = entries[j]
      /\ Grown[i].present /\ Grown[i].dir = entries[i].dir
      /\ Grown[i].length = IF op.offset + Len(op.todo) > entries[i].length
                           THEN op.offset + Len(op.todo) ELSE entries[i].length
  BY <1>1, GrownIs
<1>4. At < Grown[i].length
  <2>1. PICK o, e, l, n \in Nat : /\ o = op.offset /\ e = op.done /\ l = Len(op.todo)
                                  /\ n = entries[i].length
    BY <1>1
  <2>2. e < l
    BY <2>1
  <2>3. o + e < IF o + l > n THEN o + l ELSE n
    BY <2>2
  <2>4. QED
    BY <1>2, <1>3, <2>1, <2>3
<1>5. At \in 0 .. MAX_LENGTH
  BY <1>2, SizesAre
<1>6. Sector(Grown, i, At) \in Occupied(Grown, i)
  BY <1>1, <1>3, <1>4, <1>5, OccupiedIs
<1>7. Sector(Grown, i, At) = Target
  BY <1>2, <1>3 DEF Sector, LBA
<1>8. Sector(Grown, j, k) \in Occupied(Grown, j)
  BY <1>3, OccupiedIs
<1>9. Sector(Grown, j, k) = Sector(entries, j, k)
  BY <1>3 DEF Sector, LBA
<1>10. Occupied(Grown, i) \cap Occupied(Grown, j) = {}
  BY <1>1 DEF Apart
<1>11. QED
  BY <1>6, <1>7, <1>8, <1>9, <1>10

LEMMA ReadWritten ==
  ASSUME MesaTypes, ReadInv, WriteSector
  PROVE  ReadInv'
<1>1. /\ ~Idle /\ op.done < Len(op.todo) /\ UNCHANGED <<entries, text>>
      /\ op'.slot = op.slot /\ op'.offset = op.offset /\ op'.todo = op.todo
      /\ op'.done = op.done + Chunk
  BY WriteSectorIs DEF WriteSector
<1>2. Grown' = Grown
  BY <1>1 DEF Grown
<1> SUFFICES ASSUME Apart(Grown),
                    NEW j \in Slots, entries[j].present, NEW k \in 0 .. MAX_LENGTH
             PROVE  /\ Written(j, k)' =>
                         ByteOf(disk', entries, j, k) = op.todo[k - op.offset + 1]
                    /\ ~Written(j, k)' /\ k < entries[j].length =>
                         ByteOf(disk', entries, j, k) = text[j][k + 1]
  BY <1>1, <1>2 DEF ReadInv, ByteOf, Sector, LBA, Apart, Occupied
<1>3. /\ Written(j, k) => ByteOf(disk, entries, j, k) = op.todo[k - op.offset + 1]
      /\ ~Written(j, k) /\ k < entries[j].length =>
           ByteOf(disk, entries, j, k) = text[j][k + 1]
  BY DEF ReadInv
<1>4. CASE j = op.slot
  <2>1. ByteOf(disk', entries, j, k) =
          IF k \in At .. At + Chunk - 1 THEN op.todo[k - op.offset + 1]
          ELSE ByteOf(disk, entries, j, k)
    BY <1>4, RoundOwn DEF ByteOf
  <2>2. Written(j, k)' <=> Written(j, k) \/ k \in At .. At + Chunk - 1
    <3>1. PICK a, c, o, e \in Nat : /\ a = At /\ c = Chunk /\ o = op.offset /\ e = op.done
                                    /\ a = o + e
      <4>1. op.offset \in Nat /\ op.done \in Nat
        BY OpIs, SizesAre
      <4>2. QED
        BY <1>1, <4>1, RoundIs
    <3>2. PICK q \in Nat : q = k
      BY SizesAre
    <3>3. q \in o .. o + (e + c) - 1 <=> q \in o .. o + e - 1 \/ q \in a .. a + c - 1
      BY <3>1
    <3>4. QED
      BY <1>1, <1>4, <3>1, <3>2, <3>3 DEF Written
  <2>3. QED
    BY <1>3, <2>1, <2>2
<1>5. CASE j # op.slot
  <2>1. ~Written(j, k)' /\ ~Written(j, k)
    BY <1>1, <1>5 DEF Written
  <2>2. ASSUME k < entries[j].length
        PROVE  ByteOf(disk', entries, j, k) = ByteOf(disk, entries, j, k)
    <3>1. Sector(entries, j, k) # Target
      BY <1>1, <1>5, <2>2, RoundApart
    <3>2. entries \in [Slots -> Entries]
      BY DEF MesaTypes
    <3>3. Sector(entries, j, k) \in Sectors
      BY <3>2, SectorIs
    <3>4. disk'[Sector(entries, j, k)] = disk[Sector(entries, j, k)]
      BY <3>1, <3>3, RoundOther
    <3>5. QED
      BY <3>4 DEF ByteOf
  <2>3. QED
    BY <1>3, <2>1, <2>2
<1>6. QED
  BY <1>4, <1>5

LEMMA ReadFinished ==
  ASSUME MesaTypes, MesaTypes', ReadInv, Finished
  PROVE  ReadInv'
<1> DEFINE i == op.slot
           w == text'[i]
<1>1. /\ ~Idle /\ op.done = Len(op.todo) /\ i \in Slots /\ entries' = Grown
      /\ \A s \in Sectors : s # META => disk'[s] = disk[s]
      /\ \A j \in Slots : j # i => text'[j] = text[j]
      /\ w = Over(text[i], op.offset, op.todo) /\ Len(w) = Grown[i].length
      /\ op'.done = 0
  BY IdleIs DEF Finished
<1> SUFFICES ASSUME Apart(Grown)',
                    NEW j \in Slots, entries'[j].present,
                    NEW k \in 0 .. MAX_LENGTH, k < entries'[j].length
             PROVE  ByteOf(disk', entries', j, k) = text'[j][k + 1]
  BY <1>1, UnwrittenNext DEF ReadInv, ByteOf, Sector, LBA
<1>2. Apart(Grown)
  BY <1>1, ApartGrown
<1>3. /\ Grown \in [Slots -> Entries] /\ entries \in [Slots -> Entries]
      /\ j # i => Grown[j] = entries[j]
      /\ Grown[j].present = entries[j].present /\ Grown[j].dir = entries[j].dir
      /\ Grown[i].length = IF op.offset + Len(op.todo) > entries[i].length
                           THEN op.offset + Len(op.todo) ELSE entries[i].length
  BY GrownIs DEF MesaTypes
<1>4. /\ op.offset \in Nat /\ Len(op.todo) \in Nat /\ op.todo \in Texts \cup {<<>>}
      /\ op.offset <= entries[i].length /\ entries[i].length \in Nat
      /\ text[i] \in Seq(DataBytes) /\ Len(text[i]) = entries[i].length
  BY <1>1, <1>3, OpIs, EntryIs, SizesAre, SMTT(30) DEF MesaTypes
<1>5. /\ Written(j, k) => ByteOf(disk, entries, j, k) = op.todo[k - op.offset + 1]
      /\ ~Written(j, k) /\ k < entries[j].length =>
           ByteOf(disk, entries, j, k) = text[j][k + 1]
  BY <1>1, <1>2, <1>3 DEF ReadInv
<1>6. ByteOf(disk', entries', j, k) = ByteOf(disk, entries, j, k)
  <2>1. Sector(Grown, j, k) \in Sectors /\ Sector(Grown, j, k) # META
    BY <1>1, <1>2, <1>3, SectorIs, OccupiedIs, SMTT(30) DEF Apart
  <2>2. Sector(Grown, j, k) = Sector(entries, j, k)
    BY <1>3 DEF Sector, LBA
  <2>3. QED
    BY <1>1, <2>1, <2>2 DEF ByteOf
<1>7. CASE j # i
  <2>1. ~Written(j, k) /\ k < entries[j].length
    BY <1>1, <1>3, <1>7 DEF Written
  <2>2. QED
    BY <1>1, <1>5, <1>6, <1>7, <2>1
<1>8. CASE j = i
  <2>1. op.todo \in Seq(DataBytes) /\ op.offset \in 0 .. Len(text[i])
    BY <1>4, TextIs
  <2>2. PICK o, l, n, q \in Nat : /\ o = op.offset /\ l = Len(op.todo) /\ q = k
                                  /\ n = entries[i].length
    BY <1>4, SizesAre
  <2>3. q < IF o + l > n THEN o + l ELSE n
    BY <1>1, <1>3, <1>8, <2>2
  <2>4. k + 1 \in 1 .. Len(w)
    BY <1>1, <1>3, <2>2, <2>3
  <2>5. /\ k + 1 \in op.offset + 1 .. op.offset + Len(op.todo) =>
             w[k + 1] = op.todo[(k + 1) - op.offset]
        /\ k + 1 \notin op.offset + 1 .. op.offset + Len(op.todo) =>
             w[k + 1] = text[i][k + 1]
    <3> DEFINE v == Over(text[i], op.offset, op.todo)
    <3>1. w = v /\ k + 1 \in 1 .. Len(v)
      BY <1>1, <2>4
    <3>2. /\ k + 1 \in op.offset + 1 .. op.offset + Len(op.todo) =>
               v[k + 1] = op.todo[(k + 1) - op.offset]
          /\ k + 1 \notin op.offset + 1 .. op.offset + Len(op.todo) =>
               v[k + 1] = text[i][k + 1]
      <4>1. PICK x \in Seq(DataBytes), y \in Seq(DataBytes), z \in Nat :
              x = text[i] /\ y = op.todo /\ z = op.offset /\ z \in 0 .. Len(text[i])
        BY <1>4, <2>1
      <4>2. PICK m : m = k + 1
        OBVIOUS
      <4>3. z \in 0 .. Len(x) /\ m \in 1 .. Len(Over(x, z, y))
        BY <3>1, <4>1, <4>2
      <4> HIDE DEF v
      <4>4. m \in z + 1 .. z + Len(y) => Over(x, z, y)[m] = y[m - z]
        BY <4>3, OverAt
      <4>5. m \notin z + 1 .. z + Len(y) => Over(x, z, y)[m] = x[m]
        BY <4>3, OverAt
      <4>6. QED
        BY <4>1, <4>2, <4>4, <4>5 DEF v
    <3>3. QED
      BY <3>1, <3>2
  <2>6. /\ Written(j, k) <=> k + 1 \in op.offset + 1 .. op.offset + Len(op.todo)
        /\ (k + 1) - op.offset = k - op.offset + 1
    <3>1. q \in o .. o + l - 1 <=> q + 1 \in o + 1 .. o + l
      BY <2>2
    <3>2. (q + 1) - o = q - o + 1
      BY <2>2
    <3>3. Written(j, k) <=> q \in o .. o + l - 1
      BY <1>1, <1>8, <2>2 DEF Written
    <3>4. QED
      BY <2>2, <3>1, <3>2, <3>3
  <2>7. ~Written(j, k) => k < entries[j].length
    <3>1. o <= n
      BY <1>4, <2>2
    <3>2. q \notin o .. o + l - 1 => q < n
      BY <2>2, <2>3, <3>1
    <3>3. Written(j, k) <=> q \in o .. o + l - 1
      BY <1>1, <1>8, <2>2 DEF Written
    <3>4. QED
      BY <1>8, <2>2, <3>2, <3>3
  <2>8. QED
    BY <1>5, <1>6, <1>8, <2>5, <2>6, <2>7
<1>9. QED
  BY <1>7, <1>8

LEMMA ReadInit == Init => ReadInv
<1>1. Init => \A i \in Slots : ~entries[i].present
  BY SavedIs DEF Init
<1>2. QED
  BY <1>1 DEF ReadInv

LEMMA ReadStep ==
  ASSUME MesaTypes, MesaTypes', ReadInv, [Next]_vars
  PROVE  ReadInv'
<1>1. CASE CreateOnly
  <2>1. PICK n \in Names \cup SlashNames, d \in BOOLEAN :
             CreatedAt(First(Free), n, d, <<>>)
    BY <1>1, CreateOnlyIs
  <2>2. op'.done = 0 /\ Idle
    BY <1>1, IdleIs DEF CreateOnly, MesaTypes
  <2>3. QED
    BY <2>1, <2>2, ReadCreated
<1>2. CASE \E n \in Names \cup SlashNames, t \in Texts : CreateThenWrite(n, t)
  <2>1. PICK n \in Names \cup SlashNames, t \in Texts : CreateThenWrite(n, t)
    BY <1>2
  <2>2. CreatedAt(First(Free), n, FALSE, t)
    BY <2>1, CreateIs DEF CreateThenWrite
  <2>3. op'.done = 0 /\ Idle
    BY <2>1 DEF CreateThenWrite, Started
  <2>4. QED
    BY <2>2, <2>3, ReadCreated
<1>3. CASE \E n \in Names, t \in Texts : WriteFound(n, t)
  <2>1. PICK n \in Names, t \in Texts : WriteFound(n, t)
    BY <1>3
  <2>2. PICK i \in Slots, offset \in 0 .. MAX_LENGTH : BegunAt(i, offset, t)
    BY <2>1, WriteFoundIs
  <2>3. Idle
    BY <2>1 DEF WriteFound
  <2>4. QED
    BY <2>2, <2>3, ReadBegun
<1>4. CASE WriteSector
  BY <1>4, ReadWritten
<1>5. CASE Finish
  BY <1>5, FinishIs, ReadFinished
<1>6. CASE Restart
  <2>1. \A i \in Slots : ~entries'[i].present
    BY <1>6, SavedIs DEF Restart
  <2>2. QED
    BY <2>1 DEF ReadInv
<1>7. CASE UNCHANGED vars
  BY <1>7 DEF vars, ReadInv, Written, ByteOf, Sector, LBA, Apart, Occupied, Grown
<1>8. QED
  BY <1>1, <1>2, <1>3, <1>4, <1>5, <1>6, <1>7 DEF Next

(* Between two writes every file reads what was written to it, however     *)
(* appends and overwrites begin and end inside sectors (mesafs.cpp:        *)
(* 122-174), as long as no two entries have data in one sector.            *)
THEOREM FilesAreReadBack == Spec => []FilesReadBack
<1>1. ASSUME MesaTypes, ReadInv
      PROVE  FilesReadBack
  <2> SUFFICES ASSUME Idle, Apart(entries), NEW i \in Slots, entries[i].present
               PROVE  Content(entries, i) = text[i]
    BY DEF FilesReadBack
  <2>1. /\ entries \in [Slots -> Entries] /\ text[i] \in Seq(DataBytes)
        /\ Len(text[i]) = entries[i].length /\ op.done = 0
    BY <1>1, IdleIs DEF MesaTypes
  <2>2. entries[i].length \in 0 .. MAX_LENGTH
    BY <2>1, EntryIs
  <2>3. Apart(Grown)
    BY <1>1, GrownIs
  <2>4. ASSUME NEW k \in 1 .. entries[i].length
        PROVE  Byte(entries, i, k - 1) = text[i][k]
    <3>1. PICK n \in Nat : n = entries[i].length /\ n <= MAX_LENGTH
      BY <2>2, SizesAre
    <3>2. k \in 1 .. n
      BY <2>4, <3>1
    <3>3. k - 1 \in 0 .. MAX_LENGTH /\ k - 1 < n /\ (k - 1) + 1 = k
      BY <3>1, <3>2, SizesAre
    <3>4. ByteOf(disk, entries, i, k - 1) = text[i][(k - 1) + 1]
      BY <1>1, <2>1, <2>3, <3>1, <3>3, UnwrittenIs DEF ReadInv
    <3>5. QED
      BY <3>3, <3>4 DEF Byte, ByteOf, Sector
  <2>5. text[i] = [k \in 1 .. entries[i].length |-> text[i][k]]
    BY <2>1, LenProperties
  <2>6. Content(entries, i) = [k \in 1 .. entries[i].length |-> text[i][k]]
    BY <2>4 DEF Content
  <2>7. QED
    BY <2>5, <2>6
<1>2. MesaTypes /\ MesaTypes' /\ ReadInv /\ [Next]_vars => ReadInv'
  BY ReadStep
<1>3. QED
  BY <1>1, <1>2, ReadInit, TypesInvariant, PTL DEF Spec

-----------------------------------------------------------------------------
(* When no write left its region, nothing has data outside of it: a        *)
(* directory that was written to would have strayed.                       *)
DirectoriesEmpty ==
  ~strayed => \A i \in Slots : entries[i].dir => entries[i].length = 0

LEMMA EmptyInit == Init => DirectoriesEmpty
BY SavedIs DEF Init, DirectoriesEmpty

LEMMA EmptyCreated ==
  ASSUME DirectoriesEmpty, strayed' = strayed, NEW i, NEW n, NEW d, NEW t,
         CreatedAt(i, n, d, t)
  PROVE  DirectoriesEmpty'
<1>1. /\ entries'[i].length = 0
      /\ \A j \in Slots : j # i => entries'[j] = entries[j]
  BY DEF CreatedAt
<1>2. QED
  BY <1>1 DEF DirectoriesEmpty

LEMMA EmptyStep ==
  ASSUME MesaTypes, CoverInv, DirectoriesEmpty, [Next]_vars
  PROVE  DirectoriesEmpty'
<1>1. CASE CreateOnly
  <2>1. PICK n \in Names \cup SlashNames, d \in BOOLEAN :
             CreatedAt(First(Free), n, d, <<>>)
    BY <1>1, CreateOnlyIs
  <2>2. strayed' = strayed
    BY <1>1 DEF CreateOnly
  <2>3. QED
    BY <2>1, <2>2, EmptyCreated
<1>2. CASE \E n \in Names \cup SlashNames, t \in Texts : CreateThenWrite(n, t)
  <2>1. PICK n \in Names \cup SlashNames, t \in Texts : CreateThenWrite(n, t)
    BY <1>2
  <2>2. CreatedAt(First(Free), n, FALSE, t)
    BY <2>1, CreateIs DEF CreateThenWrite
  <2>3. strayed' = strayed
    BY <2>1 DEF CreateThenWrite
  <2>4. QED
    BY <2>2, <2>3, EmptyCreated
<1>3. CASE \E n \in Names, t \in Texts : WriteFound(n, t)
  BY <1>3 DEF WriteFound, Begin, DirectoriesEmpty
<1>4. CASE WriteSector
  BY <1>4 DEF WriteSector, DirectoriesEmpty
<1>5. CASE Finish
  <2>1. /\ ~Idle /\ op.done = Len(op.todo) /\ entries' = Grown /\ strayed' = strayed
    BY <1>5, FinishIs DEF Finished
  <2>2. op.done # 0
    BY <2>1, OpIs
  <2>3. ~strayed => ~entries[op.slot].dir
    BY <2>2 DEF CoverInv, Begun
  <2>4. /\ \A j \in Slots : j # op.slot => Grown[j] = entries[j]
        /\ \A j \in Slots : Grown[j].dir = entries[j].dir
    BY GrownIs
  <2>5. QED
    BY <2>1, <2>3, <2>4 DEF DirectoriesEmpty
<1>6. CASE Restart
  BY <1>6, SavedIs DEF Restart, DirectoriesEmpty
<1>7. CASE UNCHANGED vars
  BY <1>7 DEF vars, DirectoriesEmpty
<1>8. QED
  BY <1>1, <1>2, <1>3, <1>4, <1>5, <1>6, <1>7 DEF Next

LEMMA OccupiedInRegion ==
  ASSUME NEW e \in [Slots -> Entries], Small(e), NEW i \in Slots,
         e[i].dir => e[i].length = 0, NEW s \in Occupied(e, i)
  PROVE  s \in FIRST + i * REGION .. FIRST + i * REGION + REGION - 1
<1>1. e[i].present /\ e[i].length # 0 /\ ~e[i].dir
  BY DEF Occupied
<1>2. PICK n \in Nat : n = e[i].length
  BY EntryIs, SizesAre
<1>3. n <= Room /\ n # 0 /\ n <= MAX_LENGTH
  BY <1>1, <1>2, EntryIs, SizesAre DEF Small
<1>4. n - 1 \in 0 .. MAX_LENGTH /\ n - 1 < Room
  BY <1>3, RoomIs, SizesAre
<1> DEFINE b == FIRST + i * REGION
           q == (n - 1) \div SECTOR
<1>5. Sector(e, i, n - 1) \in b .. b + REGION - 1 /\ LBA(e, i) = b
  BY <1>1, <1>4, FileSector
<1>6. b + q \in b .. b + REGION - 1
  BY <1>5 DEF Sector
<1>7. s \in b .. b + q
  BY <1>1, <1>2, <1>5 DEF Occupied
<1>8. b \in Nat /\ q \in Nat
  BY <1>4, Regions, PlaceIs
<1> HIDE DEF b, q
<1>9. s \in b .. b + REGION - 1
  BY <1>6, <1>7, <1>8, SizesAre
<1>10. QED
  BY <1>9 DEF b

LEMMA RegionsApart ==
  ASSUME MesaTypes, CoverInv, DirectoriesEmpty, ~strayed
  PROVE  Apart(entries)
<1>1. /\ entries \in [Slots -> Entries] /\ Small(entries)
      /\ \A i \in Slots : entries[i].dir => entries[i].length = 0
  BY DEF MesaTypes, CoverInv, DirectoriesEmpty
<1>2. ASSUME NEW i \in Slots
      PROVE  META \notin Occupied(entries, i)
  <2> DEFINE b == FIRST + i * REGION
  <2>1. b \in Nat /\ b >= 2
    BY Regions
  <2>2. META \in Occupied(entries, i) => META \in b .. b + REGION - 1
    BY <1>1, OccupiedInRegion
  <2> HIDE DEF b
  <2>3. QED
    BY <2>1, <2>2, SizesAre
<1>3. ASSUME NEW i \in Slots, NEW j \in Slots, i < j,
             NEW s \in Occupied(entries, i), s \in Occupied(entries, j)
      PROVE  FALSE
  <2> DEFINE b == FIRST + i * REGION
             c == FIRST + j * REGION
  <2>1. b \in Nat /\ c \in Nat /\ b + REGION <= c
    BY <1>3, Regions
  <2>2. s \in b .. b + REGION - 1 /\ s \in c .. c + REGION - 1
    BY <1>1, <1>3, OccupiedInRegion
  <2> HIDE DEF b, c
  <2>3. QED
    BY <2>1, <2>2, SizesAre
<1>4. ASSUME NEW i \in Slots, NEW j \in Slots, i # j
      PROVE  Occupied(entries, i) \cap Occupied(entries, j) = {}
  <2>1. i < j \/ j < i
    BY <1>4, SizesAre DEF Slots
  <2>2. QED
    BY <1>3, <2>1
<1>5. QED
  BY <1>2, <1>4 DEF Apart

LEMMA RegionInvariant ==
  Spec => [](MesaTypes /\ CoverInv /\ DirectoriesEmpty)
<1>1. MesaTypes /\ AskInv /\ CoverInv /\ DirectoriesEmpty /\ [Next]_vars
        => AskInv' /\ CoverInv' /\ DirectoriesEmpty'
  BY AskStep, CoverStep, EmptyStep
<1>2. QED
  BY <1>1, CoverInit, EmptyInit, TypesInvariant, PTL DEF Spec

(* While every write stays in the region of its file, which lies 10        *)
(* sectors before the next one (mesafs.cpp:149-177, 187), no two           *)
(* entries have data in one sector, and every file reads what was written. *)
THEOREM FilesInTheirRegions ==
  Spec => [](Idle /\ ~strayed =>
               /\ Apart(entries)
               /\ \A i \in Slots : entries[i].present => Content(entries, i) = text[i])
<1>1. MesaTypes /\ CoverInv /\ DirectoriesEmpty /\ FilesReadBack =>
        (Idle /\ ~strayed =>
           /\ Apart(entries)
           /\ \A i \in Slots : entries[i].present => Content(entries, i) = text[i])
  BY RegionsApart DEF FilesReadBack
<1>2. QED
  BY <1>1, RegionInvariant, FilesAreReadBack, PTL
=============================================================================
