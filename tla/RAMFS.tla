------------------------------- MODULE RAMFS --------------------------------
(***************************************************************************)
(* The RAM file system (kernel/fs/ramfs.cpp) and the lookup of the VFS     *)
(* (kernel/fs/vfs.cpp), as functions on the state                          *)
(*   files          the nodes in list order: [name, kind, inode, length]   *)
(*   file_contents  slot -> frame; 0 is the null pointer, i.e. frame 0     *)
(*   memory         frame -> its bytes                                     *)
(*   created        number of frames asked for                             *)
(* A node finds its buffer at file_contents[inode], its list position      *)
(* plays no part in that.  A name is [abs, base]: what was typed, with or  *)
(* without a leading slash.                                                *)
(***************************************************************************)
EXTENDS Integers, Sequences, SequencesExt

CONSTANTS
  MAX_FILES,   \* length of files and file_contents (64)
  FRAMES,      \* frames the PMM can still give
  BLOCK        \* bytes of a frame (4096)

ASSUME RAMFSAssumption ==
  /\ MAX_FILES \in Nat \ {0}
  /\ FRAMES \in Nat
  /\ BLOCK \in Nat \ {0}

Slots   == 0 .. MAX_FILES - 1
Zeroed  == [k \in 1 .. BLOCK |-> 0]
Typed(n)    == [abs |-> FALSE, base |-> n]
Stripped(n) == [n EXCEPT !.abs = FALSE]

-----------------------------------------------------------------------------
(* Position of the first node with this very name, 0 if there is none.     *)
First(fs, name) ==
  LET hits == {i \in DOMAIN fs.files : fs.files[i].name = name}
  IN  IF hits = {} THEN 0 ELSE CHOOSE i \in hits : \A j \in hits : i <= j

(* find_path_fs drops a leading slash; every directory of the RAMFS lists  *)
(* all nodes, so that the path before the last name does not matter.       *)
Find(fs, path) == First(fs, Stripped(path))

Frame(fs, i)   == fs.file_contents[fs.files[i].inode]
Content(fs, i) == SubSeq(fs.memory[Frame(fs, i)], 1, fs.files[i].length)

IsFile(fs, i) == fs.files[i].kind = "file"

-----------------------------------------------------------------------------
(* The bytes of a buffer after text was copied to offset.                  *)
Copied(buffer, offset, text) ==
  [k \in 1 .. BLOCK |->
     IF k > offset /\ k <= offset + Len(text) THEN text[k - offset]
                                              ELSE buffer[k]]

(* An allocate_block that does not mark the frame it returns.              *)
AllocateFrame_Again(fs) == IF FRAMES = 0 THEN 0 ELSE 1

(* PMM::allocate_block: a frame of its own, or null when none is left.     *)
AllocateFrame(fs) == IF fs.created < FRAMES THEN fs.created + 1 ELSE 0

(* The null pointer is not checked: frame 0 is cleared and used.           *)
CreateFile(fs, name, content) ==
  IF Len(fs.files) >= MAX_FILES THEN fs
  ELSE LET slot   == Len(fs.files)
           buffer == AllocateFrame(fs)
       IN  [files |-> Append(fs.files,
                        [name |-> name, kind |-> "file", inode |-> slot,
                         length |-> Len(content)]),
            file_contents |-> [fs.file_contents EXCEPT ![slot] = buffer],
            memory  |-> [fs.memory EXCEPT ![buffer] = Copied(Zeroed, 0, content)],
            created |-> fs.created + 1]

(* create_dir, and mount of another file system's root: neither has an     *)
(* inode of its own nor touches file_contents.                             *)
AddDirectory(fs, name) ==
  IF Len(fs.files) >= MAX_FILES THEN fs
  ELSE [fs EXCEPT !.files = Append(@,
          [name |-> name, kind |-> "dir", inode |-> 0, length |-> 0])]

(* A delete_file that never looks at the last entry.                       *)
DeleteFile_NotLast(fs, name) ==
  LET i == First(fs, name)
  IN  IF i \in {0, Len(fs.files)} THEN fs
      ELSE [fs EXCEPT
              !.files = RemoveAt(@, i),
              !.file_contents =
                 [s \in Slots |-> IF s >= i - 1 /\ s < Len(fs.files) - 1
                                  THEN @[s + 1] ELSE @[s]]]

(* delete_file moves the entries behind the deleted one down in both       *)
(* arrays; the nodes keep their inodes and the last slot its old frame.    *)
DeleteFile(fs, name) ==
  LET i == First(fs, name)
  IN  IF i = 0 THEN fs
      ELSE [fs EXCEPT
              !.files = RemoveAt(@, i),
              !.file_contents =
                 [s \in Slots |-> IF s >= i - 1 /\ s < Len(fs.files) - 1
                                  THEN @[s + 1] ELSE @[s]]]

(* A write that takes its end for the new length even inside the file.     *)
Write_Shrinks(fs, i, offset, text) ==
  IF ~IsFile(fs, i) THEN fs
  ELSE LET size == IF offset + Len(text) > BLOCK THEN BLOCK - offset
                                                 ELSE Len(text)
       IN  [fs EXCEPT
              !.memory[Frame(fs, i)] = Copied(@, offset, SubSeq(text, 1, size)),
              !.files[i].length = offset + size]

(* A write that compares the length with the size written, not its end.    *)
Write_SizeAsEnd(fs, i, offset, text) ==
  IF ~IsFile(fs, i) THEN fs
  ELSE LET size == IF offset + Len(text) > BLOCK THEN BLOCK - offset
                                                 ELSE Len(text)
       IN  [fs EXCEPT
              !.memory[Frame(fs, i)] = Copied(@, offset, SubSeq(text, 1, size)),
              !.files[i].length = IF size > @ THEN size ELSE @]

(* write_fs on a node: a directory has no write handler; a file's text is  *)
(* cut off at the end of its frame.                                        *)
Write(fs, i, offset, text) ==
  IF ~IsFile(fs, i) THEN fs
  ELSE LET size == IF offset + Len(text) > BLOCK THEN BLOCK - offset
                                                 ELSE Len(text)
       IN  [fs EXCEPT
              !.memory[Frame(fs, i)] = Copied(@, offset, SubSeq(text, 1, size)),
              !.files[i].length = IF offset + size > @ THEN offset + size ELSE @]

(* initialize: an empty list; the arrays are zero.                         *)
Empty(garbage) ==
  [files |-> <<>>, file_contents |-> [s \in Slots |-> 0],
   memory |-> garbage, created |-> 0]
=============================================================================
