----------------------------- MODULE FileShell ------------------------------
(***************************************************************************)
(* The users of the RAM file system: the boot code, the shell with its     *)
(* output redirection (kernel/shell.cpp) and the editor's save             *)
(* (kernel/apps/nano.cpp).  Commands run in the keyboard interrupt, one    *)
(* after the other; the steps of one command are start (parse the          *)
(* redirection), run (its effect on files) and its output, piece by piece. *)
(***************************************************************************)
EXTENDS RAMFS

CONSTANTS
  Paths,        \* the names a user types, with or without a leading slash
  Texts,        \* pieces of output, and what the editor saves
  README,       \* what the boot code writes to the first file
  MAX_CREATED   \* bound: frames asked for in one run

ASSUME FileShellAssumption ==
  /\ MAX_CREATED \in Nat \ {0}
  /\ README \in Seq(Nat) /\ Len(README) <= BLOCK
  /\ Texts \subseteq Seq(Nat)
  /\ Paths \subseteq [abs : BOOLEAN, base : STRING]
  /\ MAX_FILES >= 2

VARIABLES
  fs,          \* the state of RAMFS
  redir_file,  \* where output goes; NONE when redir_out is false
  at,          \* how far the shell is with a command
  moved        \* ghost: an entry was deleted that was not the last one

vars == <<fs, redir_file, at, moved>>

NONE  == [abs |-> FALSE, base |-> "none"]

(* kernel_main: readme.txt and the root of the disk's file system.         *)
Boot(garbage) ==
  AddDirectory(CreateFile(Empty(garbage), Typed("readme"), README), Typed("disk"))

Init ==
  /\ fs = Boot([f \in 0 .. FRAMES |-> Zeroed])
  /\ redir_file = NONE
  /\ at = "prompt"
  /\ moved = FALSE

-----------------------------------------------------------------------------
Delete(name) ==
  /\ fs' = DeleteFile(fs, name)
  /\ moved' = (moved \/ First(fs, name) \notin {0, Len(fs.files)})

MayCreate == fs.created < MAX_CREATED

(* A command line without redirection, or with ">>".                       *)
StartPlain ==
  /\ at = "prompt"
  /\ at' = "run"
  /\ redir_file' \in Paths \cup {NONE}
  /\ UNCHANGED <<fs, moved>>

(* A command line with ">": the file is looked up as a path, and then      *)
(* deleted under the name that was typed.                                  *)
StartTruncate(path) ==
  /\ at = "prompt"
  /\ at' = "run"
  /\ redir_file' = path
  /\ IF Find(fs, path) # 0 THEN Delete(path) ELSE UNCHANGED <<fs, moved>>

Run ==
  /\ at = "run"
  /\ at' = "output"
  /\ UNCHANGED redir_file

(* touch, mkdir and rm take the name as typed; all the other commands      *)
(* leave the files alone.                                                  *)
Touch(name) ==
  /\ Run /\ MayCreate
  /\ fs' = CreateFile(fs, name, <<>>) /\ UNCHANGED moved

Mkdir(name) == Run /\ fs' = AddDirectory(fs, name) /\ UNCHANGED moved
Rm(name)    == Run /\ Delete(name)
Other       == Run /\ UNCHANGED <<fs, moved>>

(* The file a redirected kprint finds or creates.                          *)
Opened == IF Find(fs, redir_file) # 0 THEN fs
          ELSE CreateFile(fs, redir_file, <<>>)

(* kprint of one piece of output under a redirection: look the path up,    *)
(* create the file if there is none, look it up again, and append.         *)
Kprint(text) ==
  /\ at = "output" /\ redir_file # NONE
  /\ MayCreate \/ Find(fs, redir_file) # 0
  /\ fs' = LET i == Find(Opened, redir_file)
           IN  IF i = 0 THEN Opened
               ELSE Write(Opened, i, Opened.files[i].length, text)
  /\ UNCHANGED <<redir_file, at, moved>>

End ==
  /\ at = "output"
  /\ at' = "prompt"
  /\ redir_file' = NONE
  /\ UNCHANGED <<fs, moved>>

(* Nano::save: the buffer goes to the start of the file.  A file that is   *)
(* not found is created on the disk, not here.                             *)
NanoSave(path, text) ==
  /\ at = "prompt"
  /\ Find(fs, path) # 0
  /\ fs' = Write(fs, Find(fs, path), 0, text)
  /\ UNCHANGED <<redir_file, at, moved>>

Next ==
  \/ StartPlain
  \/ \E p \in Paths : StartTruncate(p) \/ Touch(p) \/ Mkdir(p) \/ Rm(p)
  \/ Other
  \/ \E t \in Texts : Kprint(t)
  \/ \E p \in Paths, t \in Texts : NanoSave(p, t)
  \/ End

Spec == Init /\ [][Next]_vars

-----------------------------------------------------------------------------
Bytes == {0} \cup UNION {{t[k] : k \in DOMAIN t} : t \in Texts \cup {README}}
Nodes == [name : Paths \cup {Typed("readme"), Typed("disk")},
          kind : {"file", "dir"}, inode : Slots, length : 0 .. BLOCK]

(* Type correctness: no length goes past the frame (ramfs.cpp:26), not     *)
(* even when two nodes write to the same buffer.                           *)
TypeOK ==
  /\ fs.files \in Seq(Nodes) /\ Len(fs.files) <= MAX_FILES
  /\ fs.file_contents \in [Slots -> 0 .. FRAMES]
  /\ fs.memory \in [0 .. FRAMES -> [1 .. BLOCK -> Bytes]]
  /\ fs.created \in 0 .. MAX_CREATED
  /\ redir_file \in Paths \cup {NONE}
  /\ at \in {"prompt", "run", "output"}

Files == {i \in DOMAIN fs.files : IsFile(fs, i)}

(* Only deletions at the end of the list, and there was a frame each time. *)
Reliable == ~moved /\ fs.created <= FRAMES

(* Every file of create_file has a frame of its own as long as users only  *)
(* delete at the end of the list and frames last: its inode is then the    *)
(* slot of its own frame (ramfs.cpp:50-67, 96-118).                        *)
OwnBuffer ==
  Reliable => /\ \A i \in Files : Frame(fs, i) # 0
              /\ \A i, j \in Files : Frame(fs, i) = Frame(fs, j) => i = j

Before == IF Find(fs, redir_file) = 0 THEN <<>>
          ELSE Content(fs, Find(fs, redir_file))

(* kprint creates a file under the name as it was typed and looks it up    *)
(* without its leading slash; a full list takes no file.                   *)
IsLost ==
  /\ Find(fs, redir_file) = 0
  /\ redir_file.abs \/ Len(fs.files) >= MAX_FILES

ReadBack(text) ==
  LET i    == Find(fs', redir_file)
      want == Before \o text
  IN  IF IsLost THEN i = 0
      ELSE /\ i # 0
           /\ IF IsFile(fs', i)
              THEN Content(fs', i) =
                     SubSeq(want, 1, IF Len(want) < BLOCK THEN Len(want) ELSE BLOCK)
              ELSE fs' = fs

(* A redirected kprint (shell.cpp:72-94) is read back: the file it names   *)
(* then has what it had before and the text, up to the end of the frame,   *)
(* even after deletions moved the slots of other files; a directory takes  *)
(* nothing.  The text is lost when there is no such file yet and the name  *)
(* was typed with a slash, or the list is full - and only then: "> /new"   *)
(* makes a node per piece of output that no lookup finds (ramfs.cpp:60).   *)
KprintIsReadBack == [][\A t \in Texts : Kprint(t) => ReadBack(t)]_vars

Once(name) ==
  \A i, j \in DOMAIN fs.files :
    fs.files[i].name = name /\ fs.files[j].name = name => i = j

(* "Truncate: Delete if exists" (shell.cpp:379): output to a file that     *)
(* exists starts in a new one exactly when its name was typed without a    *)
(* slash and no second entry has that name; else it is appended to what    *)
(* the lookup still finds (shell.cpp:388-391, ramfs.cpp:96-98).            *)
TruncatedIsGone ==
  [][\A p \in Paths :
       StartTruncate(p) =>
         (Find(fs', p) = 0 <=> \/ Find(fs, p) = 0
                               \/ ~p.abs /\ Once(p))]_vars

(* The list of files is a store in which each file has its own data, as    *)
(* long as users only delete at the end and frames last (ramfs.cpp:18-118, *)
(* shell.cpp:72-94).                                                       *)
Entry(i) ==
  [name |-> fs.files[i].name, kind |-> fs.files[i].kind,
   data |-> IF IsFile(fs, i) THEN Content(fs, i) ELSE <<>>]

Store == INSTANCE FileStore WITH
  entries  <- [i \in DOMAIN fs.files |-> Entry(i)],
  reliable <- Reliable,
  Names    <- Paths,
  BOOT     <- << [name |-> Typed("readme"), kind |-> "file", data |-> README],
                 [name |-> Typed("disk"), kind |-> "dir", data |-> <<>>] >>

ImplementsFileStore == Store!Spec

(* The types, with lengths that stay in the frame, and a frame for each    *)
(* file (ramfs.cpp:26, 60-118).                                            *)
FilesSound == TypeOK /\ OwnBuffer
=============================================================================
