------------------------------- MODULE MesaFS -------------------------------
(***************************************************************************)
(* The file system on the disk (kernel/fs/mesafs.cpp), the sectors of the  *)
(* drive under it (kernel/drivers/ide.cpp) and its users: redirected       *)
(* output and touch and mkdir of the shell, the editor's save and the      *)
(* package manager.                                                        *)
(*                                                                         *)
(* The users run in the keyboard interrupt, so only a power failure comes  *)
(* between two sectors.  Entry i owns REGION sectors; the data of every    *)
(* directory begins at sector 0, before the metadata in sector META.       *)
(*                                                                         *)
(* save_metadata copies all entries behind the header in a sector buffer   *)
(* on the stack.  Only the first FIT of them reach the disk (the fourth    *)
(* without the end of its hmac, which is zero anyway); the rest overwrites *)
(* the stack, and the build of the Makefile returns to address 0.  Such a  *)
(* stop is the same for the disk as a power failure.                       *)
(***************************************************************************)
EXTENDS Integers, Sequences

CONSTANTS
  SLOTS,        \* number of entries (8)
  FIT,          \* entries that reach the metadata sector (4)
  SECTOR,       \* bytes of a sector (512)
  REGION,       \* sectors from one entry's data to the next one's (10)
  Names,        \* names under /disk
  SlashNames,   \* names with a slash in them, which no lookup finds
  Texts,        \* what is written
  MAX_LENGTH,   \* bound: bytes of a file in one run
  MAX_RESTARTS  \* bound: restarts in one run

ASSUME MesaFSAssumption ==
  /\ SLOTS \in Nat \ {0} /\ FIT \in 1 .. SLOTS
  /\ SECTOR \in Nat \ {0} /\ REGION \in Nat \ {0}
  /\ Names \cap SlashNames = {}
  /\ MAX_LENGTH \in Nat /\ MAX_RESTARTS \in Nat
  /\ \A t \in Texts : t \in Seq(Nat \ {0}) /\ t # <<>> /\ Len(t) <= MAX_LENGTH

VARIABLES
  entries,  \* the registry in memory
  disk,     \* the bytes of each sector
  meta,     \* the entries in the metadata sector
  op,       \* the write that is going on
  text,     \* ghost: what was written to each entry since it was created
  asked,    \* ghost: per entry and place, the bytes that were to be written
  strayed,  \* ghost: a sector outside the entry's own region was written
  restarts  \* how often the machine was started again

vars == <<entries, disk, meta, op, text, asked, strayed, restarts>>

META    == 1
FIRST   == 2                 \* where the data of entry 0 begins (100)
Slots   == 0 .. SLOTS - 1
Sectors == 0 .. FIRST + SLOTS * REGION + (MAX_LENGTH \div SECTOR)
NOTHING == [present |-> FALSE, name |-> "", dir |-> FALSE, length |-> 0]
IDLE    == [slot |-> 0, offset |-> 0, todo |-> <<>>, done |-> 0]
HEADER  == 0                 \* a byte of the metadata sector, read as data

Idle == op.todo = <<>>

(* mesafs.cpp:28: after a start the registry is empty, whatever is saved.  *)
NoEntries == [i \in Slots |-> NOTHING]

Init ==
  /\ entries = NoEntries
  /\ disk = [s \in Sectors |-> [b \in 0 .. SECTOR - 1 |-> 0]]
  /\ meta = NoEntries
  /\ op = IDLE
  /\ text = [i \in Slots |-> <<>>]
  /\ asked = [i \in Slots |-> {}]
  /\ strayed = FALSE
  /\ restarts = 0

-----------------------------------------------------------------------------
Free  == {i \in Slots : ~entries[i].present}
First(S) == CHOOSE i \in S : \A j \in S : i <= j

Named(n) == {i \in Slots : entries[i].present /\ entries[i].name = n}

LBA(e, i) == IF e[i].dir THEN 0 ELSE FIRST + i * REGION

(* MesaFS::read of one byte, and of the whole entry.                       *)
Byte(e, i, k) == disk[LBA(e, i) + (k \div SECTOR)][k % SECTOR]

Content(e, i) == [k \in 1 .. e[i].length |-> Byte(e, i, k - 1)]

Saved(e) == [i \in Slots |-> IF i < FIT THEN e[i] ELSE NOTHING]

MetadataSector == [b \in 0 .. SECTOR - 1 |-> HEADER]

BytesAt(offset, t) == {<<offset + k - 1, t[k]>> : k \in DOMAIN t}

SaveMetadata(e, sectors) ==
  /\ meta' = Saved(e)
  /\ disk' = [sectors EXCEPT ![META] = MetadataSector]

(* create_file and create_dir: the first free entry, saved at once.  Names *)
(* that exist are not looked for.  t is what the caller will write.        *)
Create(n, is_dir, t) ==
  LET i == First(Free) IN
  /\ Free # {}
  /\ entries' = [entries EXCEPT ![i] =
       [present |-> TRUE, name |-> n, dir |-> is_dir, length |-> 0]]
  /\ SaveMetadata(entries', disk)
  /\ text' = [text EXCEPT ![i] = <<>>]
  /\ asked' = [j \in Slots |-> IF j = i THEN BytesAt(0, t)
                               ELSE IF entries[j].present THEN asked[j] ELSE {}]

Started(i, offset, t) == [slot |-> i, offset |-> offset, todo |-> t, done |-> 0]

Asked(i, offset, t) == asked' = [asked EXCEPT ![i] = @ \cup BytesAt(offset, t)]

(* A write that updates and saves the length before the data.              *)
Begin_LengthFirst(i, offset, t) ==
  /\ offset + Len(t) <= MAX_LENGTH
  /\ op' = Started(i, offset, t)
  /\ entries' = [entries EXCEPT ![i].length =
       IF offset + Len(t) > @ THEN offset + Len(t) ELSE @]
  /\ SaveMetadata(entries', disk)
  /\ Asked(i, offset, t)
  /\ UNCHANGED <<text, strayed, restarts>>

(* MesaFS::write is called.                                                *)
Begin(i, offset, t) ==
  /\ offset + Len(t) <= MAX_LENGTH
  /\ op' = Started(i, offset, t)
  /\ Asked(i, offset, t)
  /\ UNCHANGED <<entries, disk, meta, text, strayed, restarts>>

(* touch and mkdir on /disk create without looking.  The package manager,  *)
(* and kprint with a path like /disk/a/b, look up a name with slashes that *)
(* they created, find nothing and write nothing.                           *)
Touch      == \E n \in Names \cup SlashNames : Create(n, FALSE, <<>>)
Mkdir      == \E n \in Names \cup SlashNames : Create(n, TRUE, <<>>)
CreateLost == \E n \in SlashNames : Create(n, FALSE, <<>>)

CreateOnly ==
  /\ Idle
  /\ Touch \/ Mkdir \/ CreateLost
  /\ UNCHANGED <<op, strayed, restarts>>

(* kprint and Nano::save when the name is not found.  The editor saves a   *)
(* path outside /disk, or one below a directory of it, in an entry named   *)
(* like the path: a new one at each save, since no lookup finds it.        *)
CreateThenWrite(n, t) ==
  /\ Idle
  /\ n \in Names => Named(n) = {}
  /\ Create(n, FALSE, t)
  /\ op' = Started(First(Free), 0, t)
  /\ UNCHANGED <<strayed, restarts>>

(* kprint appends at the length the lookup found; Nano::save overwrites    *)
(* the start.  The entry may be a directory, which has a write too.        *)
WriteFound(n, t) ==
  /\ Idle
  /\ Named(n) # {}
  /\ LET i == First(Named(n))
     IN  \E offset \in {0, entries[i].length} : Begin(i, offset, t)

-----------------------------------------------------------------------------
At       == op.offset + op.done
Target   == LBA(entries, op.slot) + (At \div SECTOR)
Chunk    == LET left == Len(op.todo) - op.done
                room == SECTOR - (At % SECTOR)
            IN  IF left < room THEN left ELSE room
New(b)   == op.todo[op.done + 1 + b - (At % SECTOR)]
Touched(b) == b \in (At % SECTOR) .. (At % SECTOR) + Chunk - 1

(* A sector that is not read before part of it is written.                 *)
Merged_NoRead == [b \in 0 .. SECTOR - 1 |-> IF Touched(b) THEN New(b) ELSE 0]

(* The sector that was read, with the bytes of this round over it.         *)
Merged ==
  [b \in 0 .. SECTOR - 1 |-> IF Touched(b) THEN New(b) ELSE disk[Target][b]]

Own(i, s) ==
  ~entries[i].dir /\ s \in LBA(entries, i) .. LBA(entries, i) + REGION - 1

(* One round of the loop in MesaFS::write: one sector reaches the disk.    *)
WriteSector ==
  /\ ~Idle /\ op.done < Len(op.todo)
  /\ disk' = [disk EXCEPT ![Target] = Merged]
  /\ meta' = IF Target = META THEN NoEntries ELSE meta
  /\ op' = [op EXCEPT !.done = @ + Chunk]
  /\ strayed' = (strayed \/ ~Own(op.slot, Target))
  /\ UNCHANGED <<entries, text, asked, restarts>>

Over(old, offset, t) ==
  [k \in 1 .. (IF offset + Len(t) > Len(old) THEN offset + Len(t) ELSE Len(old))
    |-> IF k \in offset + 1 .. offset + Len(t) THEN t[k - offset] ELSE old[k]]

Grown == [entries EXCEPT ![op.slot].length =
           IF op.offset + Len(op.todo) > @ THEN op.offset + Len(op.todo) ELSE @]

(* A write that only saves the metadata of a file it created.              *)
Finish_SaveOnce ==
  /\ ~Idle /\ op.done = Len(op.todo)
  /\ entries' = Grown
  /\ IF entries[op.slot].length = 0 THEN SaveMetadata(Grown, disk)
     ELSE UNCHANGED <<disk, meta>>
  /\ text' = [text EXCEPT ![op.slot] = Over(@, op.offset, op.todo)]
  /\ op' = IDLE
  /\ UNCHANGED <<asked, strayed, restarts>>

(* After the last sector: the length, and the metadata.                    *)
Finish ==
  /\ ~Idle /\ op.done = Len(op.todo)
  /\ entries' = Grown
  /\ SaveMetadata(Grown, disk)
  /\ text' = [text EXCEPT ![op.slot] = Over(@, op.offset, op.todo)]
  /\ op' = IDLE
  /\ UNCHANGED <<asked, strayed, restarts>>

(* Power failure, or the stack that save_metadata overwrote; the machine   *)
(* starts again and load_metadata reads nothing back.                      *)
Restart ==
  /\ restarts < MAX_RESTARTS
  /\ restarts' = restarts + 1
  /\ entries' = NoEntries
  /\ op' = IDLE
  /\ text' = [i \in Slots |-> <<>>]
  /\ UNCHANGED <<disk, meta, asked, strayed>>

Next ==
  \/ CreateOnly
  \/ \E n \in Names \cup SlashNames, t \in Texts : CreateThenWrite(n, t)
  \/ \E n \in Names, t \in Texts : WriteFound(n, t)
  \/ WriteSector
  \/ Finish
  \/ Restart

Spec == Init /\ [][Next]_vars

-----------------------------------------------------------------------------
AllNames == Names \cup SlashNames \cup {""}
Entries  == [present : BOOLEAN, name : AllNames, dir : BOOLEAN,
             length : 0 .. MAX_LENGTH]
DataBytes == {0} \cup UNION {{t[k] : k \in DOMAIN t} : t \in Texts}

(* Type correctness.                                                       *)
TypeOK ==
  /\ entries \in [Slots -> Entries]
  /\ meta \in [Slots -> Entries]
  /\ disk \in [Sectors -> [0 .. SECTOR - 1 -> DataBytes]]
  /\ op.slot \in Slots /\ op.offset \in 0 .. MAX_LENGTH
  /\ op.done \in 0 .. Len(op.todo)
  /\ \A i \in Slots : Len(text[i]) <= MAX_LENGTH

Occupied(e, i) ==
  IF ~e[i].present \/ e[i].length = 0 THEN {}
  ELSE LBA(e, i) .. LBA(e, i) + ((e[i].length - 1) \div SECTOR)

(* No two entries have data in one sector, and none has it in META.        *)
Apart(e) ==
  \A i \in Slots : /\ META \notin Occupied(e, i)
                   /\ \A j \in Slots \ {i} : Occupied(e, i) \cap Occupied(e, j) = {}

(* Between two writes every file reads what was written to it, through any *)
(* mix of appends and overwrites that begin and end inside sectors         *)
(* (mesafs.cpp:122-174), as long as no file outgrew its region into data   *)
(* of another and no two directories were written to.                      *)
FilesReadBack ==
  Idle /\ Apart(entries) =>
    \A i \in Slots : entries[i].present => Content(entries, i) = text[i]

(* Data before metadata (mesafs.cpp:149-177): whenever the power fails,    *)
(* each byte that the saved lengths cover is one that a write to this file *)
(* put there, not what an earlier user of the sector left.  From the first *)
(* write behind the end of an entry's own region, or to a directory, bytes *)
(* of one file may cover another's, and nothing is claimed.                *)
SavedLengthsCovered ==
  ~strayed =>
    \A i \in Slots : meta[i].present /\ ~meta[i].dir =>
      \A k \in 0 .. meta[i].length - 1 : <<k, Byte(meta, i, k)>> \in asked[i]

(* Between two operations the metadata sector holds the current entries,   *)
(* those that fit: no growth and no creation waits for a later save.       *)
MetadataCurrent ==
  Idle /\ entries # NoEntries => meta = Saved(entries)

(* "Flat registry for 8 files/dirs (fits in 512-byte sector with header)"  *)
(* (mesafs.cpp:13): every entry of the registry is saved.                  *)
RegistryFits ==
  Idle /\ entries # NoEntries => meta = entries

(* The types, and between two operations a metadata sector that is not     *)
(* behind (mesafs.cpp:174-177, 190-200).                                   *)
RegistrySound == TypeOK /\ MetadataCurrent
=============================================================================
