--------------------------- MODULE FileShellProofs ---------------------------
(***************************************************************************)
(* Proofs about FileShell and RAMFS for every number of slots and frames,  *)
(* every size of a frame, and any names and texts.                         *)
(***************************************************************************)
EXTENDS FileShell, SequenceTheorems, NaturalsInduction, WellFoundedInduction, TLAPS

(* Every nonempty set of natural numbers has a least element.              *)
LEMMA LeastNatural ==
  ASSUME NEW T \in SUBSET Nat, T # {}
  PROVE  \E m \in T : \A k \in T : m <= k
<1> DEFINE R == OpToRel(<, Nat)
<1>1. IsWellFoundedOn(R, Nat)
  BY NatLessThanWellFounded
<1>2. ASSUME NEW a \in Nat, NEW b \in Nat, a < b
      PROVE  <<a, b>> \in R
  BY <1>2, Zenon DEF OpToRel
<1> HIDE DEF R
<1>3. PICK m \in T : \A k \in T : ~ (<<k, m>> \in R)
  BY <1>1, WFMin
<1>4. \A k \in T : ~ (k < m)
  BY <1>2, <1>3
<1>5. QED
  BY <1>4

(* Sequences that agree place by place are equal.                          *)
LEMMA SameSequence ==
  ASSUME NEW S, NEW q \in Seq(S), NEW r \in Seq(S), Len(q) = Len(r),
         \A i \in 1 .. Len(q) : q[i] = r[i]
  PROVE  q = r
OBVIOUS

LEMMA ConcatIs ==
  ASSUME NEW S, NEW q \in Seq(S), NEW r \in Seq(S)
  PROVE  /\ q \o r \in Seq(S) /\ Len(q \o r) = Len(q) + Len(r)
         /\ \A k \in 1 .. Len(q) : (q \o r)[k] = q[k]
         /\ \A k \in Len(q) + 1 .. Len(q) + Len(r) : (q \o r)[k] = r[k - Len(q)]
<1>1. Len(q) \in Nat /\ Len(r) \in Nat
  BY LenProperties
<1>2. QED
  BY <1>1

(* A front of a sequence, and the rest behind one.                         *)
LEMMA FrontIs ==
  ASSUME NEW S, NEW q, NEW n \in Nat, \A k \in 1 .. n : q[k] \in S
  PROVE  /\ SubSeq(q, 1, n) \in Seq(S) /\ Len(SubSeq(q, 1, n)) = n
         /\ \A k \in 1 .. n : SubSeq(q, 1, n)[k] = q[k]
<1>1. /\ SubSeq(q, 1, n) \in Seq(S)
      /\ Len(SubSeq(q, 1, n)) = IF 1 <= n THEN n - 1 + 1 ELSE 0
      /\ \A k \in 1 .. n - 1 + 1 : SubSeq(q, 1, n)[k] = q[1 + k - 1]
  BY SubSeqProperties
<1>2. QED
  BY <1>1

LEMMA RestIs ==
  ASSUME NEW S, NEW q \in Seq(S), NEW n \in Nat
  PROVE  LET r == SubSeq(q, n + 1, Len(q))
         IN  /\ r \in Seq(S) /\ Len(r) = IF n < Len(q) THEN Len(q) - n ELSE 0
             /\ \A k \in 1 .. Len(r) : r[k] = q[n + k]
<1>1. Len(q) \in Nat /\ \A k \in 1 .. Len(q) : q[k] \in S
  BY LenProperties
<1>2. \A k \in n + 1 .. Len(q) : q[k] \in S
  BY <1>1
<1>3. /\ SubSeq(q, n + 1, Len(q)) \in Seq(S)
      /\ Len(SubSeq(q, n + 1, Len(q))) =
           IF n + 1 <= Len(q) THEN Len(q) - (n + 1) + 1 ELSE 0
      /\ \A k \in 1 .. Len(q) - (n + 1) + 1 :
           SubSeq(q, n + 1, Len(q))[k] = q[n + 1 + k - 1]
  BY <1>1, <1>2, SubSeqProperties
<1>4. QED
  BY <1>1, <1>3

-----------------------------------------------------------------------------
NodeNames == Paths \cup {Typed("readme"), Typed("disk")}

(* States of the file system whose fields have their types.                *)
Stores ==
  [files : Seq(Nodes), file_contents : [Slots -> 0 .. FRAMES],
   memory : [0 .. FRAMES -> [1 .. BLOCK -> Bytes]], created : Nat]

Sound(s) == s \in Stores /\ Len(s.files) <= MAX_FILES

(* The inode of a file is its place, and its frame is its own.             *)
Own(s) ==
  \A i \in 1 .. Len(s.files) : IsFile(s, i) =>
    /\ s.files[i].inode = i - 1
    /\ s.file_contents[i - 1] \in 1 .. s.created
    /\ \A j \in 1 .. Len(s.files) :
         IsFile(s, j) /\ s.file_contents[j - 1] = s.file_contents[i - 1] => j = i

(* The store that a state stands for.                                      *)
DataOf(s, i) ==
  [name |-> s.files[i].name, kind |-> s.files[i].kind,
   data |-> IF IsFile(s, i) THEN Content(s, i) ELSE <<>>]

Data(s) == [i \in DOMAIN s.files |-> DataOf(s, i)]

Records == [name : NodeNames, kind : {"file", "dir"}, data : Seq(Bytes)]

LEMMA SizesAre ==
  /\ BLOCK \in Nat /\ BLOCK >= 1 /\ FRAMES \in Nat
  /\ MAX_FILES \in Nat /\ MAX_FILES >= 2 /\ MAX_CREATED \in Nat /\ MAX_CREATED >= 1
  /\ Slots = 0 .. MAX_FILES - 1
BY RAMFSAssumption, FileShellAssumption DEF Slots

LEMMA BytesAre ==
  /\ 0 \in Bytes
  /\ README \in Seq(Bytes) /\ Len(README) \in Nat
  /\ \A t \in Texts : t \in Seq(Bytes) /\ Len(t) \in Nat
<1>1. ASSUME NEW t \in Texts \cup {README}
      PROVE  t \in Seq(Bytes) /\ Len(t) \in Nat
  <2>1. t \in Seq(Nat)
    BY FileShellAssumption
  <2>2. Len(t) \in Nat /\ DOMAIN t = 1 .. Len(t) /\ t \in [1 .. Len(t) -> Nat]
    BY <2>1, LenProperties
  <2>3. \A k \in DOMAIN t : t[k] \in Bytes
    BY DEF Bytes
  <2>4. t \in [1 .. Len(t) -> Bytes]
    BY <2>2, <2>3
  <2>5. QED
    BY <2>2, <2>4
<1>2. 0 \in Bytes
  BY DEF Bytes
<1>3. QED
  BY <1>1, <1>2

LEMMA StoreIs ==
  ASSUME NEW s, Sound(s)
  PROVE  /\ Len(s.files) \in 0 .. MAX_FILES /\ DOMAIN s.files = 1 .. Len(s.files)
         /\ s.created \in Nat
         /\ \A i \in 1 .. Len(s.files) :
              /\ s.files[i] \in Nodes /\ s.files[i].inode \in Slots
              /\ s.files[i].length \in 0 .. BLOCK
              /\ s.files[i].kind \in {"file", "dir"}
              /\ Frame(s, i) \in 0 .. FRAMES
              /\ s.memory[Frame(s, i)] \in [1 .. BLOCK -> Bytes]
<1>1. s.files \in Seq(Nodes) /\ Len(s.files) <= MAX_FILES /\ s.created \in Nat
      /\ s.file_contents \in [Slots -> 0 .. FRAMES]
      /\ s.memory \in [0 .. FRAMES -> [1 .. BLOCK -> Bytes]]
  BY DEF Sound, Stores
<1>2. Len(s.files) \in Nat /\ DOMAIN s.files = 1 .. Len(s.files)
      /\ \A i \in 1 .. Len(s.files) : s.files[i] \in Nodes
  BY <1>1, LenProperties
<1>3. \A n \in Nodes : /\ n.inode \in Slots /\ n.length \in 0 .. BLOCK
                       /\ n.kind \in {"file", "dir"}
  BY DEF Nodes
<1>4. ASSUME NEW i \in 1 .. Len(s.files)
      PROVE  /\ s.files[i] \in Nodes /\ s.files[i].inode \in Slots
             /\ s.files[i].length \in 0 .. BLOCK
             /\ s.files[i].kind \in {"file", "dir"}
             /\ Frame(s, i) \in 0 .. FRAMES
             /\ s.memory[Frame(s, i)] \in [1 .. BLOCK -> Bytes]
  <2>1. s.files[i] \in Nodes
    BY <1>2
  <2>2. /\ s.files[i].inode \in Slots /\ s.files[i].length \in 0 .. BLOCK
        /\ s.files[i].kind \in {"file", "dir"}
    BY <1>3, <2>1
  <2>3. Frame(s, i) \in 0 .. FRAMES
    BY <1>1, <2>2 DEF Frame
  <2>4. s.memory[Frame(s, i)] \in [1 .. BLOCK -> Bytes]
    BY <1>1, <2>3
  <2>5. QED
    BY <2>1, <2>2, <2>3, <2>4
<1>5. Len(s.files) \in 0 .. MAX_FILES
  BY <1>1, <1>2, SizesAre
<1>6. QED
  BY <1>1, <1>2, <1>4, <1>5

(* What a read of a whole file returns.                                    *)
LEMMA ContentIs ==
  ASSUME NEW s, Sound(s), NEW i \in 1 .. Len(s.files)
  PROVE  /\ Content(s, i) \in Seq(Bytes)
         /\ Len(Content(s, i)) = s.files[i].length
         /\ \A k \in 1 .. s.files[i].length :
              Content(s, i)[k] = s.memory[Frame(s, i)][k]
<1> DEFINE n == s.files[i].length
           b == s.memory[Frame(s, i)]
<1>1. n \in 0 .. BLOCK /\ b \in [1 .. BLOCK -> Bytes] /\ BLOCK \in Nat
  BY StoreIs, SizesAre
<1> HIDE DEF n, b
<1>2. n \in Nat /\ \A k \in 1 .. n : b[k] \in Bytes
  BY <1>1
<1>3. /\ SubSeq(b, 1, n) \in Seq(Bytes) /\ Len(SubSeq(b, 1, n)) = n
      /\ \A k \in 1 .. n : SubSeq(b, 1, n)[k] = b[k]
  BY <1>2, FrontIs
<1>4. QED
  BY <1>3 DEF Content, n, b

-----------------------------------------------------------------------------
(* The node that a name leads to.                                          *)
LEMMA FirstIs ==
  ASSUME NEW s, Sound(s), NEW name
  PROVE  /\ First(s, name) \in 0 .. Len(s.files)
         /\ First(s, name) # 0 => s.files[First(s, name)].name = name
         /\ First(s, name) = 0 => \A i \in 1 .. Len(s.files) : s.files[i].name # name
<1> DEFINE hits == {i \in DOMAIN s.files : s.files[i].name = name}
<1>1. DOMAIN s.files = 1 .. Len(s.files) /\ Len(s.files) \in Nat
  BY StoreIs
<1>2. CASE hits = {}
  BY <1>1, <1>2 DEF First
<1>3. CASE hits # {}
  <2>1. hits \in SUBSET Nat
    BY <1>1
  <2>2. \E i \in hits : \A j \in hits : i <= j
    BY <1>3, <2>1, LeastNatural
  <2>3. First(s, name) = CHOOSE i \in hits : \A j \in hits : i <= j
    BY <1>3 DEF First
  <2>4. First(s, name) \in hits
    BY <2>2, <2>3
  <2>5. QED
    BY <1>1, <2>4
<1>4. QED
  BY <1>2, <1>3

LEMMA SameFirst ==
  ASSUME NEW s, NEW r, Sound(s), Sound(r), Len(r.files) = Len(s.files), NEW name,
         \A i \in 1 .. Len(s.files) : r.files[i].name = s.files[i].name
  PROVE  First(r, name) = First(s, name)
<1>1. DOMAIN s.files = 1 .. Len(s.files) /\ DOMAIN r.files = 1 .. Len(s.files)
  BY StoreIs
<1>2. {i \in DOMAIN r.files : r.files[i].name = name}
        = {i \in DOMAIN s.files : s.files[i].name = name}
  BY <1>1
<1> DEFINE Least(H) == IF H = {} THEN 0 ELSE CHOOSE i \in H : \A j \in H : i <= j
<1>3. /\ First(s, name) = Least({i \in DOMAIN s.files : s.files[i].name = name})
      /\ First(r, name) = Least({i \in DOMAIN r.files : r.files[i].name = name})
  BY DEF First
<1> HIDE DEF Least
<1>4. QED
  BY <1>2, <1>3

(* A name that is appended where it was not known is found at the end.     *)
LEMMA FirstAtEnd ==
  ASSUME NEW s, NEW r, Sound(s), Sound(r), Len(r.files) = Len(s.files) + 1,
         \A i \in 1 .. Len(s.files) : r.files[i] = s.files[i],
         NEW name, First(s, name) = 0, First(r, name) # 0
  PROVE  First(r, name) = Len(r.files)
<1>1. Len(s.files) \in Nat
  BY StoreIs
<1>2. First(r, name) \in 1 .. Len(s.files) + 1 /\ r.files[First(r, name)].name = name
  BY <1>1, FirstIs
<1>3. First(r, name) \notin 1 .. Len(s.files)
  BY <1>2, FirstIs
<1>4. QED
  BY <1>1, <1>2, <1>3

-----------------------------------------------------------------------------
(* What a copy leaves in a buffer.                                         *)
LEMMA CopiedIs ==
  ASSUME NEW b \in [1 .. BLOCK -> Bytes], NEW offset \in Nat,
         NEW text \in Seq(Bytes), offset + Len(text) <= BLOCK
  PROVE  /\ Copied(b, offset, text) \in [1 .. BLOCK -> Bytes]
         /\ \A k \in 1 .. BLOCK :
              Copied(b, offset, text)[k] =
                IF k > offset /\ k <= offset + Len(text) THEN text[k - offset] ELSE b[k]
<1>1. Len(text) \in Nat /\ \A k \in 1 .. Len(text) : text[k] \in Bytes
  BY LenProperties
<1>2. ASSUME NEW k \in 1 .. BLOCK
      PROVE  (IF k > offset /\ k <= offset + Len(text) THEN text[k - offset] ELSE b[k])
               \in Bytes
  <2>1. k > offset /\ k <= offset + Len(text) => k - offset \in 1 .. Len(text)
    BY <1>1, SizesAre
  <2>2. QED
    BY <1>1, <2>1
<1>3. QED
  BY <1>2 DEF Copied

LEMMA ZeroedIs == Zeroed \in [1 .. BLOCK -> Bytes]
BY BytesAre DEF Zeroed

LEMMA FrameIs ==
  ASSUME NEW s \in Stores
  PROVE  AllocateFrame(s) \in 0 .. FRAMES
BY SizesAre DEF AllocateFrame, Stores

HasFile(r, s, name, text) ==
  LET n == Len(s.files)
  IN  /\ Sound(r) /\ Len(r.files) = n + 1 /\ r.created = s.created + 1
      /\ \A i \in 1 .. n : r.files[i] = s.files[i]
      /\ r.files[n + 1] = [name |-> name, kind |-> "file", inode |-> n,
                           length |-> Len(text)]
      /\ r.file_contents = [s.file_contents EXCEPT ![n] = AllocateFrame(s)]
      /\ r.memory = [s.memory EXCEPT ![AllocateFrame(s)] = Copied(Zeroed, 0, text)]

HasDirectory(r, s, name) ==
  LET n == Len(s.files)
  IN  /\ Sound(r) /\ Len(r.files) = n + 1 /\ r.created = s.created
      /\ \A i \in 1 .. n : r.files[i] = s.files[i]
      /\ r.files[n + 1] = [name |-> name, kind |-> "dir", inode |-> 0, length |-> 0]
      /\ r.file_contents = s.file_contents /\ r.memory = s.memory

(* create_file appends a node whose inode is its place, and gives its slot *)
(* the next frame.                                                         *)
LEMMA CreateFileIs ==
  ASSUME NEW s, Sound(s), Len(s.files) < MAX_FILES,
         NEW name \in NodeNames,
         NEW text \in Seq(Bytes), Len(text) <= BLOCK
  PROVE  HasFile(CreateFile(s, name, text), s, name, text)
<1> DEFINE n == Len(s.files)
           node == [name |-> name, kind |-> "file", inode |-> n, length |-> Len(text)]
           f == AllocateFrame(s)
           r == CreateFile(s, name, text)
<1>1. /\ s.files \in Seq(Nodes) /\ n \in Nat /\ s.created \in Nat
      /\ s.file_contents \in [Slots -> 0 .. FRAMES]
      /\ s.memory \in [0 .. FRAMES -> [1 .. BLOCK -> Bytes]]
  BY StoreIs DEF Sound, Stores
<1>2. f \in 0 .. FRAMES
  BY FrameIs DEF Sound
<1>3. n \in Slots /\ Len(text) \in 0 .. BLOCK
  BY <1>1, SizesAre, LenProperties
<1>4. node \in Nodes
  BY <1>3 DEF Nodes, NodeNames
<1>5. Copied(Zeroed, 0, text) \in [1 .. BLOCK -> Bytes]
  BY <1>3, ZeroedIs, CopiedIs
<1>6. ~(Len(s.files) >= MAX_FILES)
  BY <1>1, SizesAre
<1> HIDE DEF f, node
<1>7. r = [files |-> Append(s.files, node),
           file_contents |-> [s.file_contents EXCEPT ![n] = f],
           memory |-> [s.memory EXCEPT ![f] = Copied(Zeroed, 0, text)],
           created |-> s.created + 1]
  BY <1>6 DEF CreateFile, f, node
<1>8. /\ Append(s.files, node) \in Seq(Nodes)
      /\ Len(Append(s.files, node)) = n + 1
      /\ \A i \in 1 .. n : Append(s.files, node)[i] = s.files[i]
      /\ Append(s.files, node)[n + 1] = node
  BY <1>1, <1>4
<1>9. /\ [s.file_contents EXCEPT ![n] = f] \in [Slots -> 0 .. FRAMES]
      /\ [s.memory EXCEPT ![f] = Copied(Zeroed, 0, text)]
           \in [0 .. FRAMES -> [1 .. BLOCK -> Bytes]]
  BY <1>1, <1>2, <1>3, <1>5
<1>10. Sound(r)
  <2>1. r \in Stores
    <3>1. s.created + 1 \in Nat
      BY <1>1
    <3>2. PICK a, b, c, d : /\ a = Append(s.files, node)
                            /\ b = [s.file_contents EXCEPT ![n] = f]
                            /\ c = [s.memory EXCEPT ![f] = Copied(Zeroed, 0, text)]
                            /\ d = s.created + 1
      OBVIOUS
    <3>3. r = [files |-> a, file_contents |-> b, memory |-> c, created |-> d]
      BY <1>7, <3>2
    <3>4. /\ a \in Seq(Nodes) /\ b \in [Slots -> 0 .. FRAMES]
          /\ c \in [0 .. FRAMES -> [1 .. BLOCK -> Bytes]] /\ d \in Nat
      BY <1>8, <1>9, <3>1, <3>2
    <3>5. QED
      BY <3>3, <3>4 DEF Stores
  <2>2. Len(r.files) <= MAX_FILES
    BY <1>1, <1>6, <1>7, <1>8, SizesAre
  <2>3. QED
    BY <2>1, <2>2 DEF Sound
<1>11. QED
  BY <1>7, <1>8, <1>10 DEF f, node, HasFile

LEMMA AddDirectoryIs ==
  ASSUME NEW s, Sound(s), Len(s.files) < MAX_FILES,
         NEW name \in NodeNames
  PROVE  HasDirectory(AddDirectory(s, name), s, name)
<1> DEFINE n == Len(s.files)
           node == [name |-> name, kind |-> "dir", inode |-> 0, length |-> 0]
           r == AddDirectory(s, name)
<1>1. /\ s.files \in Seq(Nodes) /\ n \in Nat /\ s.created \in Nat
      /\ s.file_contents \in [Slots -> 0 .. FRAMES]
      /\ s.memory \in [0 .. FRAMES -> [1 .. BLOCK -> Bytes]]
      /\ s \in Stores
  BY StoreIs DEF Sound, Stores
<1>2. node \in Nodes
  BY SizesAre DEF Nodes, NodeNames
<1>3. ~(Len(s.files) >= MAX_FILES)
  BY <1>1, SizesAre
<1> HIDE DEF node
<1>4. r = [s EXCEPT !.files = Append(s.files, node)]
  BY <1>3 DEF AddDirectory, node
<1>5. /\ r.files = Append(s.files, node) /\ r.file_contents = s.file_contents
      /\ r.memory = s.memory /\ r.created = s.created
  BY <1>1, <1>4 DEF Stores
<1>6. /\ Append(s.files, node) \in Seq(Nodes)
      /\ Len(Append(s.files, node)) = n + 1
      /\ \A i \in 1 .. n : Append(s.files, node)[i] = s.files[i]
      /\ Append(s.files, node)[n + 1] = node
  BY <1>1, <1>2
<1>7. r \in Stores
  BY <1>1, <1>4, <1>6 DEF Stores
<1>8. QED
  BY <1>1, <1>5, <1>6, <1>7, SizesAre DEF Sound, node, HasDirectory

(* delete_file closes the gap in the list, and in the slots; at the end of *)
(* the list there is none.                                                 *)
LEMMA DeleteFileIs ==
  ASSUME NEW s, Sound(s), NEW name, First(s, name) # 0
  PROVE  LET r == DeleteFile(s, name)
             n == Len(s.files)
             i == First(s, name)
         IN  /\ Sound(r) /\ Len(r.files) = n - 1 /\ r.created = s.created
             /\ \A k \in 1 .. n - 1 : r.files[k] = s.files[IF k < i THEN k ELSE k + 1]
             /\ r.files = RemoveAt(s.files, i) /\ r.memory = s.memory
             /\ i = n => r.file_contents = s.file_contents
<1> DEFINE n == Len(s.files)
           i == First(s, name)
           r == DeleteFile(s, name)
           front == SubSeq(s.files, 1, i - 1)
           rest == SubSeq(s.files, i + 1, Len(s.files))
           contents == [t \in Slots |-> IF t >= i - 1 /\ t < n - 1
                                        THEN s.file_contents[t + 1]
                                        ELSE s.file_contents[t]]
<1>1. /\ s.files \in Seq(Nodes) /\ n \in Nat /\ n <= MAX_FILES /\ s.created \in Nat
      /\ s.file_contents \in [Slots -> 0 .. FRAMES]
      /\ s.memory \in [0 .. FRAMES -> [1 .. BLOCK -> Bytes]]
      /\ s \in Stores
      /\ \A k \in 1 .. n : s.files[k] \in Nodes
  BY StoreIs DEF Sound, Stores
<1>2. i \in 1 .. n
  BY <1>1, FirstIs
<1>3. /\ front \in Seq(Nodes) /\ Len(front) = i - 1
      /\ \A k \in 1 .. i - 1 : front[k] = s.files[k]
  <2>1. i - 1 \in Nat /\ \A k \in 1 .. i - 1 : s.files[k] \in Nodes
    BY <1>1, <1>2
  <2> HIDE DEF i
  <2>2. QED
    BY <2>1, FrontIs
<1>4. /\ rest \in Seq(Nodes) /\ Len(rest) = n - i
      /\ \A k \in 1 .. n - i : rest[k] = s.files[i + k]
  <2>1. i \in Nat /\ s.files \in Seq(Nodes)
    BY <1>1, <1>2
  <2> HIDE DEF i
  <2>2. /\ rest \in Seq(Nodes) /\ Len(rest) = IF i < n THEN n - i ELSE 0
        /\ \A k \in 1 .. Len(rest) : rest[k] = s.files[i + k]
    BY <2>1, RestIs
  <2>3. Len(rest) = n - i
    BY <1>1, <1>2, <2>2
  <2>4. QED
    BY <2>2, <2>3
<1>5. contents \in [Slots -> 0 .. FRAMES]
  <2> HIDE DEF i
  <2> SUFFICES ASSUME NEW t \in Slots
               PROVE  (IF t >= i - 1 /\ t < n - 1 THEN s.file_contents[t + 1]
                                                  ELSE s.file_contents[t]) \in 0 .. FRAMES
    OBVIOUS
  <2>1. t < n - 1 => t + 1 \in Slots
    BY <1>1, SizesAre
  <2>2. QED
    BY <1>1, <2>1
<1>6. r = [s EXCEPT !.files = front \o rest, !.file_contents = contents]
  BY DEF DeleteFile, RemoveAt
<1> HIDE DEF i, r, front, rest, contents
<1>7. /\ front \o rest \in Seq(Nodes) /\ Len(front \o rest) = n - 1
      /\ \A k \in 1 .. n - 1 :
           (front \o rest)[k] = s.files[IF k < i THEN k ELSE k + 1]
  <2>1. /\ front \o rest \in Seq(Nodes)
        /\ Len(front \o rest) = Len(front) + Len(rest)
        /\ \A k \in 1 .. Len(front) : (front \o rest)[k] = front[k]
        /\ \A k \in Len(front) + 1 .. Len(front) + Len(rest) :
             (front \o rest)[k] = rest[k - Len(front)]
    BY <1>3, <1>4, ConcatIs, ZenonT(30)
  <2>2. Len(front \o rest) = n - 1
    BY <1>1, <1>2, <1>3, <1>4, <2>1
  <2>3. ASSUME NEW k \in 1 .. n - 1
        PROVE  (front \o rest)[k] = s.files[IF k < i THEN k ELSE k + 1]
    <3>1. CASE k < i
      <4>1. k \in 1 .. Len(front) /\ k \in 1 .. i - 1
        BY <1>1, <1>2, <1>3, <3>1
      <4>2. QED
        BY <1>3, <2>1, <3>1, <4>1
    <3>2. CASE ~(k < i)
      <4>1. k \in Len(front) + 1 .. Len(front) + Len(rest)
        BY <1>1, <1>2, <1>3, <1>4, <3>2
      <4>2. (front \o rest)[k] = rest[k - Len(front)]
        BY <2>1, <4>1
      <4>3. k - Len(front) \in 1 .. n - i /\ i + (k - Len(front)) = k + 1
        BY <1>1, <1>2, <1>3, <3>2
      <4>4. rest[k - Len(front)] = s.files[i + (k - Len(front))]
        BY <1>4, <4>3
      <4>5. QED
        BY <3>2, <4>2, <4>3, <4>4
    <3>3. QED
      BY <3>1, <3>2
  <2>4. QED
    BY <2>1, <2>2, <2>3
<1>8. /\ r.files = front \o rest /\ r.file_contents = contents
      /\ r.memory = s.memory /\ r.created = s.created
  BY <1>1, <1>6 DEF Stores
<1>9. r \in Stores
  BY <1>1, <1>5, <1>6, <1>7 DEF Stores
<1>10. Sound(r)
  BY <1>1, <1>7, <1>8, <1>9, SizesAre DEF Sound
<1>11. front \o rest = RemoveAt(s.files, i)
  BY DEF RemoveAt, front, rest
<1>12. ASSUME i = n
       PROVE  contents = s.file_contents
  <2>1. ASSUME NEW t \in Slots
        PROVE  contents[t] = s.file_contents[t]
    <3>1. ~(t >= i - 1 /\ t < n - 1)
      BY <1>1, <1>2, <1>12, SizesAre
    <3>2. QED
      BY <3>1 DEF contents
  <2>2. QED
    BY <1>1, <1>5, <2>1
<1>13. QED
  BY <1>7, <1>8, <1>10, <1>11, <1>12 DEF r, i

(* What a write takes of a text that is longer than what is left.          *)
Fitting(offset, text) == IF offset + Len(text) > BLOCK THEN BLOCK - offset ELSE Len(text)

LEMMA FittingIs ==
  ASSUME NEW offset \in 0 .. BLOCK, NEW text \in Seq(Bytes)
  PROVE  /\ Len(text) \in Nat /\ Fitting(offset, text) \in Nat
         /\ Fitting(offset, text) <= Len(text) /\ offset + Fitting(offset, text) <= BLOCK
         /\ SubSeq(text, 1, Fitting(offset, text)) \in Seq(Bytes)
         /\ Len(SubSeq(text, 1, Fitting(offset, text))) = Fitting(offset, text)
         /\ \A k \in 1 .. Fitting(offset, text) :
              SubSeq(text, 1, Fitting(offset, text))[k] = text[k]
<1> DEFINE m == Fitting(offset, text)
<1>1. Len(text) \in Nat /\ \A k \in 1 .. Len(text) : text[k] \in Bytes
  BY LenProperties
<1>2. m \in Nat /\ m <= Len(text) /\ offset + m <= BLOCK
  BY <1>1, SizesAre DEF Fitting
<1> HIDE DEF m
<1>3. \A k \in 1 .. m : text[k] \in Bytes
  BY <1>1, <1>2
<1>4. /\ SubSeq(text, 1, m) \in Seq(Bytes) /\ Len(SubSeq(text, 1, m)) = m
      /\ \A k \in 1 .. m : SubSeq(text, 1, m)[k] = text[k]
  BY <1>2, <1>3, FrontIs
<1>5. QED
  BY <1>1, <1>2, <1>4 DEF m

(* write changes one buffer and one length.                                *)
LEMMA WriteIs ==
  ASSUME NEW s, Sound(s), NEW i \in 1 .. Len(s.files), IsFile(s, i),
         NEW offset \in 0 .. BLOCK, NEW text \in Seq(Bytes)
  PROVE  LET r == Write(s, i, offset, text)
             m == Fitting(offset, text)
             f == Frame(s, i)
         IN  /\ Sound(r) /\ Len(r.files) = Len(s.files) /\ r.created = s.created
             /\ r.file_contents = s.file_contents
             /\ \A j \in 1 .. Len(s.files) :
                  /\ r.files[j].name = s.files[j].name
                  /\ r.files[j].kind = s.files[j].kind
                  /\ r.files[j].inode = s.files[j].inode
                  /\ j # i => r.files[j].length = s.files[j].length
             /\ r.files[i].length = IF offset + m > s.files[i].length
                                    THEN offset + m ELSE s.files[i].length
             /\ \A g \in 0 .. FRAMES \ {f} : r.memory[g] = s.memory[g]
             /\ \A k \in 1 .. BLOCK :
                  r.memory[f][k] = IF k > offset /\ k <= offset + m
                                   THEN text[k - offset] ELSE s.memory[f][k]
<1> DEFINE r == Write(s, i, offset, text)
           m == Fitting(offset, text)
           f == Frame(s, i)
           length == IF offset + m > s.files[i].length THEN offset + m
                                                       ELSE s.files[i].length
           copy == Copied(s.memory[f], offset, SubSeq(text, 1, m))
           node == [s.files[i] EXCEPT !.length = length]
<1>1. /\ s.files \in Seq(Nodes) /\ Len(s.files) \in Nat
      /\ s.memory \in [0 .. FRAMES -> [1 .. BLOCK -> Bytes]]
      /\ s \in Stores
      /\ s.files[i] \in Nodes /\ s.files[i].length \in 0 .. BLOCK
      /\ f \in 0 .. FRAMES /\ s.memory[f] \in [1 .. BLOCK -> Bytes]
  BY StoreIs DEF Sound, Stores
<1>2. /\ Len(text) \in Nat /\ m \in Nat /\ m <= Len(text) /\ offset + m <= BLOCK
      /\ SubSeq(text, 1, m) \in Seq(Bytes) /\ Len(SubSeq(text, 1, m)) = m
      /\ \A k \in 1 .. m : SubSeq(text, 1, m)[k] = text[k]
  BY FittingIs
<1>3. /\ copy \in [1 .. BLOCK -> Bytes]
      /\ \A k \in 1 .. BLOCK :
           copy[k] = IF k > offset /\ k <= offset + m
                     THEN text[k - offset] ELSE s.memory[f][k]
  <2> HIDE DEF m, f
  <2>1. offset \in Nat
    BY SizesAre
  <2>2. /\ copy \in [1 .. BLOCK -> Bytes]
        /\ \A k \in 1 .. BLOCK :
             copy[k] = IF k > offset /\ k <= offset + m
                       THEN SubSeq(text, 1, m)[k - offset] ELSE s.memory[f][k]
    <3>1. offset + Len(SubSeq(text, 1, m)) <= BLOCK
      BY <1>2
    <3>2. /\ copy \in [1 .. BLOCK -> Bytes]
          /\ \A k \in 1 .. BLOCK :
               copy[k] = IF k > offset /\ k <= offset + Len(SubSeq(text, 1, m))
                         THEN SubSeq(text, 1, m)[k - offset] ELSE s.memory[f][k]
      BY <1>1, <1>2, <2>1, <3>1, CopiedIs, Zenon
    <3>3. QED
      BY <1>2, <3>2
  <2>3. \A k \in 1 .. BLOCK : k > offset /\ k <= offset + m =>
           SubSeq(text, 1, m)[k - offset] = text[k - offset]
    BY <1>2, <2>1, SizesAre
  <2>4. QED
    BY <2>2, <2>3
<1>4. length \in 0 .. BLOCK
  BY <1>1, <1>2, SizesAre
<1>5. r = [s EXCEPT !.memory[f] = copy, !.files[i].length = length]
  BY DEF Write, Fitting
<1> HIDE DEF r, m, f, length, copy
<1>6. /\ r.files = [s.files EXCEPT ![i] = node]
      /\ r.memory = [s.memory EXCEPT ![f] = copy]
      /\ r.file_contents = s.file_contents /\ r.created = s.created
  BY <1>1, <1>5 DEF Stores
<1>7. /\ node \in Nodes /\ node.length = length /\ node.name = s.files[i].name
      /\ node.kind = s.files[i].kind /\ node.inode = s.files[i].inode
  BY <1>1, <1>4 DEF Nodes
<1> HIDE DEF node
<1>8. /\ r.files \in Seq(Nodes) /\ Len(r.files) = Len(s.files)
      /\ \A j \in 1 .. Len(s.files) : r.files[j] = IF j = i THEN node ELSE s.files[j]
  BY <1>1, <1>6, <1>7, ExceptSeq
<1>9. r.memory \in [0 .. FRAMES -> [1 .. BLOCK -> Bytes]]
  BY <1>1, <1>3, <1>6
<1>10. Sound(r)
  <2>1. r = [files |-> r.files, file_contents |-> s.file_contents,
             memory |-> r.memory, created |-> s.created]
    BY <1>1, <1>5, <1>6 DEF Stores
  <2>2. s.file_contents \in [Slots -> 0 .. FRAMES] /\ s.created \in Nat
    BY <1>1 DEF Stores
  <2>3. r \in Stores
    BY <1>8, <1>9, <2>1, <2>2 DEF Stores
  <2>4. QED
    BY <1>8, <2>3 DEF Sound
<1>11. /\ \A g \in 0 .. FRAMES \ {f} : r.memory[g] = s.memory[g]
       /\ r.memory[f] = copy
  BY <1>1, <1>6
<1>12. QED
  BY <1>3, <1>6, <1>7, <1>8, <1>10, <1>11 DEF r, m, f, length

-----------------------------------------------------------------------------
(* Each operation leaves every file its own frame.                         *)
LEMMA OwnCreate ==
  ASSUME NEW s, Sound(s), Own(s), Len(s.files) < MAX_FILES, s.created < FRAMES,
         NEW name \in NodeNames,
         NEW text \in Seq(Bytes), Len(text) <= BLOCK
  PROVE  Own(CreateFile(s, name, text))
<1> DEFINE r == CreateFile(s, name, text)
           n == Len(s.files)
<1>1. /\ Len(r.files) = n + 1 /\ r.created = s.created + 1
      /\ \A i \in 1 .. n : r.files[i] = s.files[i]
      /\ r.files[n + 1] = [name |-> name, kind |-> "file", inode |-> n,
                           length |-> Len(text)]
      /\ r.file_contents = [s.file_contents EXCEPT ![n] = AllocateFrame(s)]
  <2>1. HasFile(r, s, name, text)
    BY CreateFileIs
  <2> HIDE DEF r
  <2>2. QED
    BY <2>1 DEF HasFile
<1>2. /\ n \in Nat /\ n < MAX_FILES /\ s.created \in Nat
      /\ s.file_contents \in [Slots -> 0 .. FRAMES]
  BY StoreIs DEF Sound, Stores
<1>3. AllocateFrame(s) = s.created + 1
  BY DEF AllocateFrame
<1> HIDE DEF r
<1>4. /\ r.file_contents[n] = s.created + 1
      /\ \A k \in 0 .. n - 1 : r.file_contents[k] = s.file_contents[k]
  <2>1. n \in Slots /\ \A k \in 0 .. n - 1 : k \in Slots /\ k # n
    BY <1>2, SizesAre
  <2>2. QED
    BY <1>1, <1>2, <1>3, <2>1
<1>5. \A i \in 1 .. n : IsFile(r, i) <=> IsFile(s, i)
  BY <1>1 DEF IsFile
<1>6. ASSUME NEW i \in 1 .. n + 1, IsFile(r, i)
      PROVE  /\ r.files[i].inode = i - 1
             /\ IF i = n + 1 THEN r.file_contents[i - 1] = s.created + 1
                ELSE /\ r.file_contents[i - 1] = s.file_contents[i - 1]
                     /\ r.file_contents[i - 1] \in 1 .. s.created
                     /\ IsFile(s, i)
  <2>1. CASE i = n + 1
    BY <1>1, <1>2, <1>4, <2>1
  <2>2. CASE i # n + 1
    <3>1. i \in 1 .. n /\ i - 1 \in 0 .. n - 1
      BY <1>2, <2>2
    <3>2. IsFile(s, i) /\ r.files[i] = s.files[i]
      BY <1>1, <1>5, <1>6, <3>1
    <3>3. s.files[i].inode = i - 1 /\ s.file_contents[i - 1] \in 1 .. s.created
      BY <3>1, <3>2 DEF Own
    <3>4. QED
      BY <1>4, <2>2, <3>1, <3>2, <3>3
  <2>3. QED
    BY <2>1, <2>2
<1>7. ASSUME NEW i \in 1 .. n + 1, IsFile(r, i)
      PROVE  r.file_contents[i - 1] \in 1 .. r.created
  BY <1>1, <1>2, <1>6, <1>7
<1>8. ASSUME NEW i \in 1 .. n + 1, NEW j \in 1 .. n + 1, IsFile(r, i), IsFile(r, j),
             r.file_contents[j - 1] = r.file_contents[i - 1]
      PROVE  j = i
  <2>1. CASE i = n + 1 \/ j = n + 1
    BY <1>2, <1>6, <1>8, <2>1, SMTT(30)
  <2>2. CASE i # n + 1 /\ j # n + 1
    <3>1. i \in 1 .. n /\ j \in 1 .. n
      BY <1>2, <2>2
    <3>2. QED
      BY <1>6, <1>8, <2>2, <3>1 DEF Own
  <2>3. QED
    BY <2>1, <2>2
<1>9. QED
  BY <1>1, <1>6, <1>7, <1>8 DEF Own, r

LEMMA OwnAddDirectory ==
  ASSUME NEW s, Sound(s), Own(s), Len(s.files) < MAX_FILES,
         NEW name \in NodeNames
  PROVE  Own(AddDirectory(s, name))
<1> DEFINE r == AddDirectory(s, name)
           n == Len(s.files)
<1>1. /\ Len(r.files) = n + 1 /\ r.created = s.created
      /\ \A i \in 1 .. n : r.files[i] = s.files[i]
      /\ r.files[n + 1].kind = "dir"
      /\ r.file_contents = s.file_contents
  <2>1. HasDirectory(r, s, name)
    BY AddDirectoryIs
  <2> HIDE DEF r
  <2>2. QED
    BY <2>1 DEF HasDirectory
<1>2. n \in Nat
  BY StoreIs
<1> HIDE DEF r
<1>3. ASSUME NEW i \in 1 .. n + 1, IsFile(r, i)
      PROVE  i \in 1 .. n /\ IsFile(s, i) /\ r.files[i] = s.files[i]
  BY <1>1, <1>2, <1>3, SMTT(30) DEF IsFile
<1>4. QED
  BY <1>1, <1>3 DEF Own, r

LEMMA OwnDelete ==
  ASSUME NEW s, Sound(s), Own(s), NEW name, First(s, name) # 0,
         First(s, name) = Len(s.files)
  PROVE  Own(DeleteFile(s, name))
<1> DEFINE r == DeleteFile(s, name)
           n == Len(s.files)
<1>1. /\ Len(r.files) = n - 1 /\ r.created = s.created
      /\ \A k \in 1 .. n - 1 : r.files[k] = s.files[IF k < n THEN k ELSE k + 1]
      /\ r.file_contents = s.file_contents
  BY DeleteFileIs
<1>2. n \in Nat
  BY StoreIs
<1> HIDE DEF r
<1>3. ASSUME NEW i \in 1 .. n - 1
      PROVE  i \in 1 .. n /\ r.files[i] = s.files[i] /\ (IsFile(r, i) <=> IsFile(s, i))
  BY <1>1, <1>2 DEF IsFile
<1>4. QED
  BY <1>1, <1>3 DEF Own, r

LEMMA OwnWrite ==
  ASSUME NEW s, Sound(s), Own(s), NEW i \in 1 .. Len(s.files), IsFile(s, i),
         NEW offset \in 0 .. BLOCK, NEW text \in Seq(Bytes)
  PROVE  Own(Write(s, i, offset, text))
<1> DEFINE r == Write(s, i, offset, text)
<1>1. /\ Len(r.files) = Len(s.files) /\ r.created = s.created
      /\ r.file_contents = s.file_contents
      /\ \A j \in 1 .. Len(s.files) : /\ r.files[j].kind = s.files[j].kind
                                      /\ r.files[j].inode = s.files[j].inode
  BY WriteIs
<1> HIDE DEF r
<1>2. QED
  BY <1>1 DEF Own, IsFile, r

LEMMA OwnFrame ==
  ASSUME NEW s, Sound(s), Own(s), NEW i \in 1 .. Len(s.files), IsFile(s, i)
  PROVE  /\ Frame(s, i) = s.file_contents[i - 1]
         /\ Frame(s, i) \in 1 .. s.created
         /\ \A j \in 1 .. Len(s.files) :
              IsFile(s, j) /\ Frame(s, j) = Frame(s, i) => j = i
BY DEF Own, Frame

-----------------------------------------------------------------------------
(* What each operation does to the store that the state stands for.        *)
LEMMA DataIs ==
  ASSUME NEW s, Sound(s)
  PROVE  /\ Data(s) \in Seq(Records) /\ Len(Data(s)) = Len(s.files)
         /\ DOMAIN Data(s) = 1 .. Len(s.files)
         /\ \A i \in 1 .. Len(s.files) :
              Data(s)[i] = DataOf(s, i) /\ DataOf(s, i) \in Records
<1>1. DOMAIN s.files = 1 .. Len(s.files) /\ Len(s.files) \in Nat
  BY StoreIs
<1>2. ASSUME NEW i \in 1 .. Len(s.files)
      PROVE  DataOf(s, i) \in Records
  <2>1. s.files[i].name \in NodeNames /\ s.files[i].kind \in {"file", "dir"}
    <3>1. s.files[i] \in Nodes
      BY StoreIs
    <3>2. QED
      BY <3>1 DEF Nodes, NodeNames
  <2>2. (IF IsFile(s, i) THEN Content(s, i) ELSE <<>>) \in Seq(Bytes)
    BY ContentIs
  <2>3. QED
    BY <2>1, <2>2 DEF DataOf, Records
<1>3. Data(s) \in [1 .. Len(s.files) -> Records]
  BY <1>1, <1>2 DEF Data
<1>4. \A i \in 1 .. Len(s.files) : Data(s)[i] = DataOf(s, i)
  BY <1>1 DEF Data
<1>5. QED
  BY <1>1, <1>2, <1>3, <1>4

LEMMA SameContent ==
  ASSUME NEW s, Sound(s), NEW r, Sound(r),
         NEW i \in 1 .. Len(s.files), NEW j \in 1 .. Len(r.files),
         r.files[j].length = s.files[i].length,
         \A k \in 1 .. s.files[i].length :
            r.memory[Frame(r, j)][k] = s.memory[Frame(s, i)][k]
  PROVE  Content(r, j) = Content(s, i)
<1>1. /\ Content(s, i) \in Seq(Bytes) /\ Len(Content(s, i)) = s.files[i].length
      /\ \A k \in 1 .. s.files[i].length :
           Content(s, i)[k] = s.memory[Frame(s, i)][k]
  BY ContentIs, Zenon
<1>2. /\ Content(r, j) \in Seq(Bytes) /\ Len(Content(r, j)) = r.files[j].length
      /\ \A k \in 1 .. r.files[j].length :
           Content(r, j)[k] = r.memory[Frame(r, j)][k]
  BY ContentIs, Zenon
<1> HIDE DEF Content
<1>3. \A k \in 1 .. Len(Content(r, j)) : Content(r, j)[k] = Content(s, i)[k]
  BY <1>1, <1>2
<1>4. QED
  BY <1>1, <1>2, <1>3, SameSequence

LEMMA SameData ==
  ASSUME NEW s, Sound(s), NEW r, Sound(r),
         NEW i \in 1 .. Len(s.files), NEW j \in 1 .. Len(r.files),
         r.files[j] = s.files[i],
         IsFile(s, i) => r.memory[Frame(r, j)] = s.memory[Frame(s, i)]
  PROVE  DataOf(r, j) = DataOf(s, i)
<1>1. IsFile(r, j) <=> IsFile(s, i)
  BY DEF IsFile
<1>2. IsFile(s, i) => Content(r, j) = Content(s, i)
  BY SameContent
<1>3. CASE IsFile(s, i)
  BY <1>1, <1>2, <1>3 DEF DataOf
<1>4. CASE ~IsFile(s, i)
  BY <1>1, <1>4 DEF DataOf
<1>5. QED
  BY <1>3, <1>4

LEMMA AppendedIs ==
  ASSUME NEW S, NEW q \in Seq(S), NEW e \in S, NEW r \in Seq(S),
         Len(r) = Len(q) + 1, \A i \in 1 .. Len(q) : r[i] = q[i],
         r[Len(q) + 1] = e
  PROVE  r = Append(q, e)
<1>1. /\ Append(q, e) \in Seq(S) /\ Len(Append(q, e)) = Len(q) + 1 /\ Len(q) \in Nat
      /\ \A i \in 1 .. Len(q) : Append(q, e)[i] = q[i]
      /\ Append(q, e)[Len(q) + 1] = e
  OBVIOUS
<1>2. \A i \in 1 .. Len(r) : r[i] = Append(q, e)[i]
  BY <1>1
<1>3. QED
  BY <1>1, <1>2, SameSequence

LEMMA DataCreate ==
  ASSUME NEW s, Sound(s), Own(s), Len(s.files) < MAX_FILES, s.created < FRAMES,
         NEW name \in NodeNames, NEW text \in Seq(Bytes), Len(text) <= BLOCK
  PROVE  Data(CreateFile(s, name, text)) =
           Append(Data(s), [name |-> name, kind |-> "file", data |-> text])
<1> DEFINE r == CreateFile(s, name, text)
           n == Len(s.files)
           e == [name |-> name, kind |-> "file", data |-> text]
<1>1. /\ Sound(r) /\ Len(r.files) = n + 1 /\ r.created = s.created + 1
      /\ \A i \in 1 .. n : r.files[i] = s.files[i]
      /\ r.files[n + 1] = [name |-> name, kind |-> "file", inode |-> n,
                           length |-> Len(text)]
      /\ r.file_contents = [s.file_contents EXCEPT ![n] = AllocateFrame(s)]
      /\ r.memory = [s.memory EXCEPT ![AllocateFrame(s)] = Copied(Zeroed, 0, text)]
  <2>1. HasFile(r, s, name, text)
    BY CreateFileIs
  <2> HIDE DEF r
  <2>2. QED
    BY <2>1 DEF HasFile
<1>2. /\ n \in Nat /\ n < MAX_FILES /\ s.created \in Nat
      /\ s.file_contents \in [Slots -> 0 .. FRAMES]
      /\ s.memory \in [0 .. FRAMES -> [1 .. BLOCK -> Bytes]]
  BY StoreIs DEF Sound, Stores
<1>3. AllocateFrame(s) = s.created + 1
  BY DEF AllocateFrame
<1>4. n \in Slots /\ s.created + 1 \in 0 .. FRAMES
  BY <1>2, SizesAre, SMTT(30)
<1>5. Copied(Zeroed, 0, text) \in [1 .. BLOCK -> Bytes]
      /\ \A k \in 1 .. Len(text) : Copied(Zeroed, 0, text)[k] = text[k]
  <2>1. Len(text) \in Nat /\ 0 \in Nat /\ 0 + Len(text) <= BLOCK
    BY LenProperties
  <2>2. /\ Copied(Zeroed, 0, text) \in [1 .. BLOCK -> Bytes]
        /\ \A k \in 1 .. BLOCK :
             Copied(Zeroed, 0, text)[k] =
               IF k > 0 /\ k <= 0 + Len(text) THEN text[k - 0] ELSE Zeroed[k]
    BY <2>1, ZeroedIs, CopiedIs, Zenon
  <2>3. QED
    BY <2>1, <2>2, SizesAre
<1> HIDE DEF r, e
<1>6. Sound(r) /\ \A i \in 1 .. n : i \in 1 .. Len(r.files)
  BY <1>1, <1>2
<1>7. ASSUME NEW i \in 1 .. n
      PROVE  Data(r)[i] = Data(s)[i]
  <2>1. IsFile(s, i) => r.memory[Frame(r, i)] = s.memory[Frame(s, i)]
    <3> SUFFICES ASSUME IsFile(s, i) PROVE r.memory[Frame(r, i)] = s.memory[Frame(s, i)]
      OBVIOUS
    <3>1. /\ Frame(s, i) = s.file_contents[i - 1] /\ Frame(s, i) \in 1 .. s.created
          /\ s.files[i].inode = i - 1
      BY OwnFrame DEF Own
    <3>2. i - 1 # n /\ i - 1 \in Slots
      BY <1>2, SizesAre
    <3>3. Frame(r, i) = Frame(s, i)
      <4>1. Frame(r, i) = r.file_contents[i - 1]
        BY <1>1, <3>1 DEF Frame
      <4>2. r.file_contents[i - 1] = s.file_contents[i - 1]
        BY <1>1, <1>2, <3>2
      <4>3. QED
        BY <3>1, <4>1, <4>2
    <3>4. Frame(s, i) \in 0 .. FRAMES /\ Frame(s, i) # s.created + 1
      <4> DEFINE f == Frame(s, i)
      <4>1. f \in 1 .. s.created
        BY <3>1
      <4> HIDE DEF f
      <4>2. f \in 0 .. FRAMES /\ f # s.created + 1
        BY <1>2, <4>1, SizesAre
      <4>3. QED
        BY <4>2 DEF f
    <3>5. r.memory[Frame(s, i)] = s.memory[Frame(s, i)]
      BY <1>1, <1>2, <1>3, <3>4
    <3>6. QED
      BY <3>3, <3>5
  <2>2. r.files[i] = s.files[i] /\ i \in 1 .. Len(r.files)
    BY <1>1, <1>2
  <2>3. DataOf(r, i) = DataOf(s, i)
    <3>1. i \in 1 .. Len(r.files) /\ r.files[i] = s.files[i]
      BY <2>2
    <3>2. i \in 1 .. Len(s.files)
      OBVIOUS
    <3> HIDE DEF n
    <3>3. QED
      BY <1>6, <2>1, <3>1, <3>2, SameData
  <2>4. QED
    BY <1>1, <2>2, <2>3, DataIs
<1>8. Data(r)[n + 1] = e
  <2>1. n + 1 \in 1 .. Len(r.files)
    BY <1>1, <1>2
  <2>2. IsFile(r, n + 1) /\ r.files[n + 1].length = Len(text)
        /\ r.files[n + 1].name = name /\ r.files[n + 1].kind = "file"
    BY <1>1 DEF IsFile
  <2>3. r.memory[Frame(r, n + 1)] = Copied(Zeroed, 0, text)
    <3>1. Frame(r, n + 1) = r.file_contents[n]
      BY <1>1 DEF Frame
    <3>2. r.file_contents[n] = s.created + 1
      BY <1>1, <1>2, <1>3, <1>4
    <3>3. Frame(r, n + 1) = s.created + 1
      BY <3>1, <3>2
    <3>4. QED
      BY <1>1, <1>2, <1>3, <1>4, <3>3
  <2>4. Content(r, n + 1) = text
    <3>1. /\ Content(r, n + 1) \in Seq(Bytes)
          /\ Len(Content(r, n + 1)) = r.files[n + 1].length
          /\ \A k \in 1 .. r.files[n + 1].length :
               Content(r, n + 1)[k] = r.memory[Frame(r, n + 1)][k]
      <4> HIDE DEF n, Content
      <4>1. QED
        BY <1>6, <2>1, ContentIs
    <3>2. /\ Len(Content(r, n + 1)) = Len(text)
          /\ \A k \in 1 .. Len(text) : Content(r, n + 1)[k] = text[k]
      BY <1>5, <2>2, <2>3, <3>1
    <3>3. QED
      BY <3>1, <3>2, SameSequence
  <2>5. DataOf(r, n + 1) = e
    BY <2>2, <2>4 DEF DataOf, e
  <2>6. QED
    BY <1>1, <2>1, <2>5, DataIs
<1>9. e \in Records
  BY DEF e, Records
<1>10. /\ Data(r) \in Seq(Records) /\ Len(Data(r)) = n + 1
      /\ Data(s) \in Seq(Records) /\ Len(Data(s)) = n
  BY <1>1, DataIs
<1>11. Data(r) = Append(Data(s), e)
  BY <1>7, <1>8, <1>9, <1>10, AppendedIs
<1>12. QED
  BY <1>11 DEF r, e

LEMMA DataAddDirectory ==
  ASSUME NEW s, Sound(s), Len(s.files) < MAX_FILES, NEW name \in NodeNames
  PROVE  Data(AddDirectory(s, name)) =
           Append(Data(s), [name |-> name, kind |-> "dir", data |-> <<>>])
<1> DEFINE r == AddDirectory(s, name)
           n == Len(s.files)
           e == [name |-> name, kind |-> "dir", data |-> <<>>]
<1>1. /\ Sound(r) /\ Len(r.files) = n + 1 /\ r.created = s.created
      /\ \A i \in 1 .. n : r.files[i] = s.files[i]
      /\ r.files[n + 1] = [name |-> name, kind |-> "dir", inode |-> 0, length |-> 0]
      /\ r.file_contents = s.file_contents /\ r.memory = s.memory
  <2>1. HasDirectory(r, s, name)
    BY AddDirectoryIs
  <2> HIDE DEF r
  <2>2. QED
    BY <2>1 DEF HasDirectory
<1>2. n \in Nat
  BY StoreIs
<1> HIDE DEF r, e
<1>3. ASSUME NEW i \in 1 .. n
      PROVE  Data(r)[i] = Data(s)[i]
  <2>1. r.files[i] = s.files[i] /\ i \in 1 .. Len(r.files)
    BY <1>1, <1>2
  <2>2. r.memory[Frame(r, i)] = s.memory[Frame(s, i)]
    BY <1>1, <2>1 DEF Frame
  <2>3. DataOf(r, i) = DataOf(s, i)
    BY <1>1, <2>1, <2>2, SameData
  <2>4. QED
    BY <1>1, <2>1, <2>3, DataIs
<1>4. Data(r)[n + 1] = e
  <2>1. n + 1 \in 1 .. Len(r.files)
    BY <1>1, <1>2
  <2>2. DataOf(r, n + 1) = e
    BY <1>1 DEF DataOf, IsFile, e
  <2>3. QED
    BY <1>1, <2>1, <2>2, DataIs
<1>5. e \in Records
  BY DEF e, Records
<1>6. /\ Data(r) \in Seq(Records) /\ Len(Data(r)) = n + 1
      /\ Data(s) \in Seq(Records) /\ Len(Data(s)) = n
  BY <1>1, DataIs
<1>7. Data(r) = Append(Data(s), e)
  BY <1>3, <1>4, <1>5, <1>6, AppendedIs
<1>8. QED
  BY <1>7 DEF r, e

LEMMA LastRemoved ==
  ASSUME NEW S, NEW q \in Seq(S), Len(q) # 0
  PROVE  /\ RemoveAt(q, Len(q)) \in Seq(S) /\ Len(RemoveAt(q, Len(q))) = Len(q) - 1
         /\ \A k \in 1 .. Len(q) - 1 : RemoveAt(q, Len(q))[k] = q[k]
<1> DEFINE n == Len(q)
           front == SubSeq(q, 1, n - 1)
           rest == SubSeq(q, n + 1, Len(q))
<1>1. n \in Nat /\ n - 1 \in Nat /\ \A k \in 1 .. n - 1 : q[k] \in S
  BY LenProperties
<1>2. /\ front \in Seq(S) /\ Len(front) = n - 1
      /\ \A k \in 1 .. n - 1 : front[k] = q[k]
  <2> HIDE DEF n
  <2>1. QED
    BY <1>1, FrontIs
<1>3. rest \in Seq(S) /\ Len(rest) = 0
  BY <1>1, RestIs
<1>4. RemoveAt(q, n) = front \o rest
  BY DEF RemoveAt
<1> HIDE DEF front, rest
<1>5. /\ front \o rest \in Seq(S) /\ Len(front \o rest) = Len(front) + Len(rest)
      /\ \A k \in 1 .. Len(front) : (front \o rest)[k] = front[k]
  BY <1>2, <1>3, ConcatIs
<1>6. QED
  BY <1>1, <1>2, <1>3, <1>4, <1>5

(* A deletion at the end of the list takes that entry away.                *)
LEMMA DataDelete ==
  ASSUME NEW s, Sound(s), NEW name, First(s, name) # 0,
         First(s, name) = Len(s.files)
  PROVE  Data(DeleteFile(s, name)) = RemoveAt(Data(s), Len(s.files))
<1> DEFINE r == DeleteFile(s, name)
           n == Len(s.files)
<1>1. /\ Sound(r) /\ Len(r.files) = n - 1
      /\ \A k \in 1 .. n - 1 : r.files[k] = s.files[IF k < n THEN k ELSE k + 1]
      /\ r.memory = s.memory /\ r.file_contents = s.file_contents
  BY DeleteFileIs
<1>2. n \in Nat /\ n # 0
  BY StoreIs
<1> HIDE DEF r
<1>3. ASSUME NEW i \in 1 .. n - 1
      PROVE  Data(r)[i] = Data(s)[i]
  <2>1. i \in 1 .. n /\ r.files[i] = s.files[i] /\ i \in 1 .. Len(r.files)
    BY <1>1, <1>2
  <2>2. r.memory[Frame(r, i)] = s.memory[Frame(s, i)]
    BY <1>1, <2>1 DEF Frame
  <2>3. DataOf(r, i) = DataOf(s, i)
    BY <1>1, <2>1, <2>2, SameData
  <2>4. QED
    BY <1>1, <2>1, <2>3, DataIs
<1>4. /\ Data(r) \in Seq(Records) /\ Len(Data(r)) = n - 1
      /\ Data(s) \in Seq(Records) /\ Len(Data(s)) = n
  BY <1>1, DataIs
<1>5. /\ RemoveAt(Data(s), n) \in Seq(Records) /\ Len(RemoveAt(Data(s), n)) = n - 1
      /\ \A k \in 1 .. n - 1 : RemoveAt(Data(s), n)[k] = Data(s)[k]
  BY <1>2, <1>4, LastRemoved
<1>6. Data(r) = RemoveAt(Data(s), n)
  BY <1>3, <1>4, <1>5, SameSequence
<1>7. QED
  BY <1>6 DEF r

-----------------------------------------------------------------------------
(* What a file has after a write, cut off at the end of its frame.         *)
CutOff(q) == SubSeq(q, 1, IF Len(q) < BLOCK THEN Len(q) ELSE BLOCK)

LEMMA CutOffIs ==
  ASSUME NEW q \in Seq(Bytes)
  PROVE  /\ CutOff(q) \in Seq(Bytes)
         /\ Len(CutOff(q)) = IF Len(q) < BLOCK THEN Len(q) ELSE BLOCK
         /\ \A k \in 1 .. Len(CutOff(q)) : CutOff(q)[k] = q[k]
<1> DEFINE n == IF Len(q) < BLOCK THEN Len(q) ELSE BLOCK
<1>1. n \in Nat /\ \A k \in 1 .. n : q[k] \in Bytes
  BY LenProperties, SizesAre
<1> HIDE DEF n
<1>2. /\ SubSeq(q, 1, n) \in Seq(Bytes) /\ Len(SubSeq(q, 1, n)) = n
      /\ \A k \in 1 .. n : SubSeq(q, 1, n)[k] = q[k]
  BY <1>1, FrontIs
<1>3. QED
  BY <1>2 DEF CutOff, n

Written(s, i, offset, text) == Content(Write(s, i, offset, text), i)

LEMMA WrittenIs ==
  ASSUME NEW s, Sound(s), NEW i \in 1 .. Len(s.files), IsFile(s, i),
         NEW offset \in 0 .. BLOCK, NEW text \in Seq(Bytes)
  PROVE  LET m == Fitting(offset, text)
             w == Written(s, i, offset, text)
         IN  /\ w \in Seq(Bytes)
             /\ Len(w) = IF offset + m > s.files[i].length
                         THEN offset + m ELSE s.files[i].length
             /\ \A k \in 1 .. Len(w) :
                  w[k] = IF k > offset /\ k <= offset + m THEN text[k - offset]
                         ELSE s.memory[Frame(s, i)][k]
<1> DEFINE r == Write(s, i, offset, text)
           m == Fitting(offset, text)
           f == Frame(s, i)
<1>1. /\ Sound(r) /\ Len(r.files) = Len(s.files)
      /\ r.file_contents = s.file_contents /\ r.files[i].inode = s.files[i].inode
      /\ r.files[i].length = IF offset + m > s.files[i].length
                             THEN offset + m ELSE s.files[i].length
      /\ \A k \in 1 .. BLOCK :
           r.memory[f][k] = IF k > offset /\ k <= offset + m
                            THEN text[k - offset] ELSE s.memory[f][k]
  BY WriteIs
<1> HIDE DEF r
<1>2. i \in 1 .. Len(r.files) /\ Frame(r, i) = f
  BY <1>1 DEF Frame
<1>3. /\ Content(r, i) \in Seq(Bytes) /\ Len(Content(r, i)) = r.files[i].length
      /\ \A k \in 1 .. r.files[i].length :
           Content(r, i)[k] = r.memory[Frame(r, i)][k]
  BY <1>1, <1>2, ContentIs
<1>4. r.files[i].length \in 0 .. BLOCK
  BY <1>1, <1>2, StoreIs
<1>5. \A k \in 1 .. Len(Content(r, i)) : k \in 1 .. BLOCK
  BY <1>3, <1>4, SizesAre
<1> HIDE DEF f, m
<1>6. /\ Content(r, i) \in Seq(Bytes)
      /\ Len(Content(r, i)) = IF offset + m > s.files[i].length
                              THEN offset + m ELSE s.files[i].length
      /\ \A k \in 1 .. Len(Content(r, i)) :
           Content(r, i)[k] = IF k > offset /\ k <= offset + m
                              THEN text[k - offset] ELSE s.memory[f][k]
  BY <1>1, <1>2, <1>3, <1>5
<1>7. QED
  BY <1>6 DEF Written, r, f, m

(* A write at the end of a file appends.                                   *)
LEMMA WriteAppends ==
  ASSUME NEW s, Sound(s), NEW i \in 1 .. Len(s.files), IsFile(s, i),
         NEW text \in Seq(Bytes)
  PROVE  Written(s, i, s.files[i].length, text) = CutOff(Content(s, i) \o text)
<1> DEFINE n == s.files[i].length
           m == Fitting(n, text)
           d == Content(s, i)
           w == Written(s, i, n, text)
           b == s.memory[Frame(s, i)]
<1>1. n \in 0 .. BLOCK
  BY StoreIs
<1>2. d \in Seq(Bytes) /\ Len(d) = n /\ \A k \in 1 .. n : d[k] = b[k]
  BY ContentIs
<1>3. /\ w \in Seq(Bytes) /\ Len(w) = IF n + m > n THEN n + m ELSE n
      /\ \A k \in 1 .. Len(w) :
           w[k] = IF k > n /\ k <= n + m THEN text[k - n] ELSE b[k]
  BY <1>1, WrittenIs
<1>4. Len(text) \in Nat /\ m = IF n + Len(text) > BLOCK THEN BLOCK - n ELSE Len(text)
  BY LenProperties DEF Fitting
<1> HIDE DEF n, m, d, w, b
<1>5. /\ d \o text \in Seq(Bytes) /\ Len(d \o text) = n + Len(text)
      /\ \A k \in 1 .. n : (d \o text)[k] = d[k]
      /\ \A k \in n + 1 .. n + Len(text) : (d \o text)[k] = text[k - n]
  BY <1>2, ConcatIs, ZenonT(30)
<1>6. /\ CutOff(d \o text) \in Seq(Bytes)
      /\ Len(CutOff(d \o text)) = IF Len(d \o text) < BLOCK THEN Len(d \o text) ELSE BLOCK
      /\ \A k \in 1 .. Len(CutOff(d \o text)) : CutOff(d \o text)[k] = (d \o text)[k]
  BY <1>5, CutOffIs
<1>7. Len(w) = n + m /\ Len(CutOff(d \o text)) = n + m /\ m \in Nat /\ m <= Len(text)
  BY <1>1, <1>3, <1>4, <1>5, <1>6, SizesAre
<1>8. ASSUME NEW k \in 1 .. n + m
      PROVE  w[k] = CutOff(d \o text)[k]
  <2>1. CASE k <= n
    <3>1. k \in 1 .. n /\ k \in 1 .. Len(w) /\ k \in 1 .. Len(CutOff(d \o text)) /\ ~(k > n)
      BY <1>1, <1>7, <2>1, SizesAre
    <3>2. QED
      BY <1>2, <1>3, <1>5, <1>6, <3>1
  <2>2. CASE k > n
    <3>1. /\ k \in n + 1 .. n + Len(text) /\ k \in 1 .. Len(w)
          /\ k \in 1 .. Len(CutOff(d \o text)) /\ k <= n + m
      BY <1>1, <1>4, <1>7, <2>2, SizesAre
    <3>2. QED
      BY <1>3, <1>5, <1>6, <2>2, <3>1
  <2>3. QED
    BY <1>1, <1>7, <2>1, <2>2, SizesAre
<1>9. w = CutOff(d \o text)
  BY <1>3, <1>6, <1>7, <1>8, SameSequence
<1>10. QED
  BY <1>9 DEF w, d, n

(* A write at the start of a file keeps what lies behind the text.         *)
LEMMA WriteOverwrites ==
  ASSUME NEW s, Sound(s), NEW i \in 1 .. Len(s.files), IsFile(s, i),
         NEW text \in Seq(Bytes)
  PROVE  LET d == Content(s, i)
         IN  Written(s, i, 0, text) = CutOff(text \o SubSeq(d, Len(text) + 1, Len(d)))
<1> DEFINE n == s.files[i].length
           m == Fitting(0, text)
           d == Content(s, i)
           w == Written(s, i, 0, text)
           b == s.memory[Frame(s, i)]
           rest == SubSeq(d, Len(text) + 1, Len(d))
<1>1. n \in 0 .. BLOCK /\ 0 \in 0 .. BLOCK
  BY StoreIs, SizesAre
<1>2. d \in Seq(Bytes) /\ Len(d) = n /\ \A k \in 1 .. n : d[k] = b[k]
  BY ContentIs
<1>3. /\ w \in Seq(Bytes) /\ Len(w) = IF 0 + m > n THEN 0 + m ELSE n
      /\ \A k \in 1 .. Len(w) :
           w[k] = IF k > 0 /\ k <= 0 + m THEN text[k - 0] ELSE b[k]
  BY <1>1, WrittenIs
<1>4. Len(text) \in Nat /\ m = IF 0 + Len(text) > BLOCK THEN BLOCK - 0 ELSE Len(text)
  BY LenProperties DEF Fitting
<1> HIDE DEF n, m, d, w, b
<1>5. /\ rest \in Seq(Bytes) /\ Len(rest) = IF Len(text) < n THEN n - Len(text) ELSE 0
      /\ \A k \in 1 .. Len(rest) : rest[k] = d[Len(text) + k]
  <2>1. PICK l \in Nat : l = Len(text)
    BY <1>4
  <2>2. LET r == SubSeq(d, l + 1, Len(d))
        IN  /\ r \in Seq(Bytes) /\ Len(r) = IF l < Len(d) THEN Len(d) - l ELSE 0
            /\ \A k \in 1 .. Len(r) : r[k] = d[l + k]
    <3>1. d \in Seq(Bytes)
      BY <1>2
    <3>2. QED
      BY <3>1, RestIs, Zenon
  <2>3. QED
    BY <1>2, <2>1, <2>2
<1> HIDE DEF rest
<1> DEFINE q == text \o rest
<1>6. /\ q \in Seq(Bytes) /\ Len(q) = Len(text) + Len(rest)
      /\ \A k \in 1 .. Len(text) : q[k] = text[k]
      /\ \A k \in Len(text) + 1 .. Len(text) + Len(rest) : q[k] = rest[k - Len(text)]
  BY <1>5, ConcatIs
<1> HIDE DEF q
<1>7. /\ CutOff(q) \in Seq(Bytes)
      /\ Len(CutOff(q)) = IF Len(q) < BLOCK THEN Len(q) ELSE BLOCK
      /\ \A k \in 1 .. Len(CutOff(q)) : CutOff(q)[k] = q[k]
  BY <1>6, CutOffIs
<1>8. /\ Len(w) = Len(CutOff(q)) /\ m \in Nat /\ m <= Len(text) /\ Len(rest) \in Nat
      /\ Len(w) \in Nat
      /\ Len(w) > m => m = Len(text) /\ Len(w) = n /\ Len(text) + Len(rest) = n
  <2>1. PICK l, e \in Nat : l = Len(text) /\ e = Len(rest)
    BY <1>4, <1>5, LenProperties
  <2>2. PICK c, u : c = Len(CutOff(q)) /\ u = Len(w)
    OBVIOUS
  <2>3. /\ n \in 0 .. BLOCK /\ e = IF l < n THEN n - l ELSE 0
        /\ m = IF l > BLOCK THEN BLOCK ELSE l
        /\ u = IF m > n THEN m ELSE n
        /\ c = IF l + e < BLOCK THEN l + e ELSE BLOCK
    BY <1>1, <1>3, <1>4, <1>5, <1>6, <1>7, <2>1, <2>2, SizesAre
  <2>4. /\ u = c /\ m \in Nat /\ m <= l /\ u \in Nat
        /\ u > m => m = l /\ u = n /\ l + e = n
    BY <2>3, SizesAre
  <2>5. QED
    BY <2>1, <2>2, <2>4
<1>9. ASSUME NEW k \in 1 .. Len(w)
      PROVE  w[k] = CutOff(q)[k]
  <2>1. CASE k <= m
    <3>1. k \in 1 .. Len(text) /\ k \in 1 .. Len(CutOff(q)) /\ k > 0 /\ k - 0 = k
      BY <1>4, <1>8, <2>1
    <3>2. w[k] = text[k]
      <4>1. k > 0 /\ k <= 0 + m /\ k - 0 = k
        BY <1>8, <2>1, <3>1
      <4>2. w[k] = IF k > 0 /\ k <= 0 + m THEN text[k - 0] ELSE b[k]
        BY <1>3
      <4>3. QED
        BY <4>1, <4>2
    <3>3. CutOff(q)[k] = text[k]
      BY <1>6, <1>7, <3>1
    <3>4. QED
      BY <3>2, <3>3
  <2>2. CASE k > m
    <3>1. /\ Len(w) > m /\ k \in 1 .. n /\ k \in 1 .. Len(CutOff(q))
          /\ k \in Len(text) + 1 .. Len(text) + Len(rest)
          /\ k - Len(text) \in 1 .. Len(rest) /\ Len(text) + (k - Len(text)) = k
          /\ ~(k <= 0 + m)
      BY <1>1, <1>4, <1>8, <2>2
    <3>2. w[k] = d[k]
      <4>1. w[k] = b[k]
        BY <1>3, <3>1
      <4>2. QED
        BY <1>2, <3>1, <4>1
    <3>3. q[k] = rest[k - Len(text)] /\ rest[k - Len(text)] = d[k]
      BY <1>5, <1>6, <3>1
    <3>4. QED
      BY <1>7, <3>1, <3>2, <3>3
  <2>3. QED
    BY <1>8, <2>1, <2>2
<1>10. w = CutOff(q)
  BY <1>3, <1>7, <1>8, <1>9, SameSequence
<1>11. QED
  BY <1>10 DEF w, q, rest, d

(* A write to a file that has its own frame changes the data of no other.  *)
LEMMA DataWrite ==
  ASSUME NEW s, Sound(s), Own(s), NEW i \in 1 .. Len(s.files), IsFile(s, i),
         NEW offset \in 0 .. BLOCK, NEW text \in Seq(Bytes)
  PROVE  Data(Write(s, i, offset, text)) =
           [Data(s) EXCEPT ![i].data = Written(s, i, offset, text)]
<1> DEFINE r == Write(s, i, offset, text)
           n == Len(s.files)
           w == Written(s, i, offset, text)
           q == [Data(s) EXCEPT ![i].data = w]
<1>1. /\ Sound(r) /\ Len(r.files) = n /\ r.file_contents = s.file_contents
      /\ \A j \in 1 .. n : /\ r.files[j].name = s.files[j].name
                           /\ r.files[j].kind = s.files[j].kind
                           /\ r.files[j].inode = s.files[j].inode
                           /\ j # i => r.files[j].length = s.files[j].length
      /\ \A g \in 0 .. FRAMES \ {Frame(s, i)} : r.memory[g] = s.memory[g]
  BY WriteIs
<1>2. w = Content(r, i)
  BY DEF Written
<1>3. /\ Data(r) \in Seq(Records) /\ Len(Data(r)) = n
      /\ Data(s) \in Seq(Records) /\ Len(Data(s)) = n
      /\ \A j \in 1 .. n : Data(r)[j] = DataOf(r, j) /\ Data(s)[j] = DataOf(s, j)
                           /\ DataOf(r, j) \in Records
  BY <1>1, DataIs
<1> HIDE DEF r, w
<1>4. \A j \in 1 .. n : IsFile(r, j) <=> IsFile(s, j)
  BY <1>1 DEF IsFile
<1>5. ASSUME NEW j \in 1 .. n, j # i
      PROVE  DataOf(r, j) = DataOf(s, j)
  <2>1. ASSUME IsFile(s, j)
        PROVE  Content(r, j) = Content(s, j)
    <3>1. Frame(r, j) = Frame(s, j)
      BY <1>1 DEF Frame
    <3>2. Frame(s, j) # Frame(s, i) /\ Frame(s, j) \in 0 .. FRAMES
      BY <1>5, <2>1, OwnFrame, StoreIs
    <3>3. r.memory[Frame(r, j)] = s.memory[Frame(s, j)]
      BY <1>1, <3>1, <3>2
    <3>4. j \in 1 .. Len(r.files) /\ r.files[j].length = s.files[j].length
      BY <1>1, <1>5
    <3>5. QED
      BY <1>1, <3>3, <3>4, SameContent, SMTT(30)
  <2>2. CASE IsFile(s, j)
    BY <1>1, <1>4, <2>1, <2>2 DEF DataOf
  <2>3. CASE ~IsFile(s, j)
    BY <1>1, <1>4, <2>3 DEF DataOf
  <2>4. QED
    BY <2>2, <2>3
<1>6. DataOf(r, i) = [DataOf(s, i) EXCEPT !.data = w]
  BY <1>1, <1>2, <1>4 DEF DataOf
<1>12. Data(s) = [j \in 1 .. n |-> Data(s)[j]]
  BY <1>3
<1>7. q = [j \in 1 .. n |-> IF j = i THEN [Data(s)[i] EXCEPT !.data = w] ELSE Data(s)[j]]
  <2>1. i \in 1 .. n
    OBVIOUS
  <2> HIDE DEF Data, n
  <2>2. PICK v : v = Data(s)
    OBVIOUS
  <2>3. v = [j \in 1 .. n |-> v[j]] /\ q = [v EXCEPT ![i].data = w]
    BY <1>12, <2>2
  <2>4. [v EXCEPT ![i].data = w] =
          [j \in 1 .. n |-> IF j = i THEN [v[i] EXCEPT !.data = w] ELSE v[j]]
    BY <2>1, <2>3
  <2>5. QED
    BY <2>2, <2>3, <2>4
<1> HIDE DEF q
<1>8. \A j \in 1 .. n : q[j] = DataOf(r, j)
  BY <1>3, <1>5, <1>6, <1>7
<1>9. Data(r) = [j \in 1 .. n |-> DataOf(r, j)]
  BY <1>1, StoreIs DEF Data
<1>10. q = Data(r)
  <2>1. DOMAIN q = 1 .. n /\ q = [j \in 1 .. n |-> q[j]]
    BY <1>7
  <2>2. QED
    BY <1>8, <1>9, <2>1
<1>11. QED
  BY <1>10 DEF q, r, w

-----------------------------------------------------------------------------
(* What a step of a user does to the store.                                *)
Promise(d, e) ==
  \/ \E n \in Paths, t \in Texts \cup {<<>>} :
       e = Append(d, [name |-> n, kind |-> "file", data |-> CutOff(t)])
  \/ \E n \in Paths : e = Append(d, [name |-> n, kind |-> "dir", data |-> <<>>])
  \/ \E i \in DOMAIN d : e = RemoveAt(d, i)
  \/ \E i \in DOMAIN d, t \in Texts :
       d[i].kind = "file" /\ e = [d EXCEPT ![i].data = CutOff(d[i].data \o t)]
  \/ \E i \in DOMAIN d, t \in Texts :
       /\ d[i].kind = "file"
       /\ e = [d EXCEPT ![i].data =
                 CutOff(t \o SubSeq(d[i].data, Len(t) + 1, Len(d[i].data)))]
  \/ e = d

Kept(s, r) == Own(s) /\ r.created <= FRAMES => Own(r) /\ Promise(Data(s), Data(r))

Step(s, r) == Sound(r) /\ s.created <= r.created /\ r.created <= s.created + 1 /\ Kept(s, r)

LEMMA StepSame ==
  ASSUME NEW s, Sound(s)
  PROVE  Step(s, s)
<1>1. s.created \in Nat
  BY StoreIs
<1>2. Promise(Data(s), Data(s))
  BY DEF Promise
<1>3. QED
  BY <1>1, <1>2 DEF Step, Kept

LEMMA EmptyIs ==
  /\ <<>> \in Seq(Bytes) /\ Len(<<>>) = 0 /\ Len(<<>>) <= BLOCK
  /\ CutOff(<<>>) = <<>>
<1>1. <<>> \in Seq(Bytes) /\ Len(<<>>) = 0
  OBVIOUS
<1>2. CutOff(<<>>) \in Seq(Bytes) /\ Len(CutOff(<<>>)) = 0
  <2>1. PICK q \in Seq(Bytes) : q = <<>> /\ Len(q) = 0
    BY <1>1
  <2>2. CutOff(q) \in Seq(Bytes)
        /\ Len(CutOff(q)) = IF Len(q) < BLOCK THEN Len(q) ELSE BLOCK
    BY CutOffIs
  <2>3. CutOff(q) \in Seq(Bytes) /\ Len(CutOff(q)) = 0
    BY <2>1, <2>2, SizesAre
  <2>4. QED
    BY <2>1, <2>3
<1>3. QED
  BY <1>1, <1>2, SizesAre

LEMMA StepCreate ==
  ASSUME NEW s, Sound(s), NEW name \in Paths
  PROVE  Step(s, CreateFile(s, name, <<>>))
<1> DEFINE r == CreateFile(s, name, <<>>)
<1>1. s.created \in Nat /\ Len(s.files) \in Nat /\ name \in NodeNames
  BY StoreIs DEF NodeNames
<1>2. CASE Len(s.files) >= MAX_FILES
  <2>1. r = s
    BY <1>2 DEF CreateFile
  <2> HIDE DEF r
  <2>2. QED
    BY <2>1, StepSame DEF r
<1>3. CASE Len(s.files) < MAX_FILES
  <2>1. HasFile(r, s, name, <<>>)
    BY <1>1, <1>3, EmptyIs, CreateFileIs
  <2>2. ASSUME Own(s), s.created < FRAMES
        PROVE  /\ Own(r)
               /\ Data(r) = Append(Data(s), [name |-> name, kind |-> "file", data |-> <<>>])
    BY <1>1, <1>3, <2>2, EmptyIs, OwnCreate, DataCreate
  <2> HIDE DEF r
  <2>3. Sound(r) /\ r.created = s.created + 1
    BY <2>1 DEF HasFile
  <2>4. ASSUME Own(s), r.created <= FRAMES
        PROVE  Own(r) /\ Promise(Data(s), Data(r))
    <3>1. s.created < FRAMES
      BY <1>1, <2>3, <2>4, SizesAre
    <3>2. Data(r) = Append(Data(s), [name |-> name, kind |-> "file",
                                     data |-> CutOff(<<>>)])
      BY <2>2, <2>4, <3>1, EmptyIs
    <3>3. Promise(Data(s), Data(r))
      BY <3>2 DEF Promise
    <3>4. QED
      BY <2>2, <2>4, <3>1, <3>3
  <2>5. QED
    BY <1>1, <2>3, <2>4 DEF Step, Kept, r
<1>4. QED
  BY <1>1, <1>2, <1>3, SizesAre

LEMMA StepDirectory ==
  ASSUME NEW s, Sound(s), NEW name \in Paths
  PROVE  Step(s, AddDirectory(s, name)) /\ AddDirectory(s, name).created = s.created
<1> DEFINE r == AddDirectory(s, name)
<1>1. s.created \in Nat /\ Len(s.files) \in Nat /\ name \in NodeNames
  BY StoreIs DEF NodeNames
<1>2. CASE Len(s.files) >= MAX_FILES
  <2>1. r = s
    BY <1>2 DEF AddDirectory
  <2> HIDE DEF r
  <2>2. QED
    BY <2>1, StepSame DEF r
<1>3. CASE Len(s.files) < MAX_FILES
  <2>1. HasDirectory(r, s, name)
    BY <1>1, <1>3, AddDirectoryIs
  <2>2. Data(r) = Append(Data(s), [name |-> name, kind |-> "dir", data |-> <<>>])
    BY <1>1, <1>3, DataAddDirectory
  <2>3. Own(s) => Own(r)
    BY <1>1, <1>3, OwnAddDirectory
  <2> HIDE DEF r
  <2>4. Sound(r) /\ r.created = s.created
    BY <2>1 DEF HasDirectory
  <2>5. Promise(Data(s), Data(r))
    BY <2>2 DEF Promise
  <2>6. QED
    BY <1>1, <2>3, <2>4, <2>5 DEF Step, Kept, r
<1>4. QED
  BY <1>1, <1>2, <1>3, SizesAre

LEMMA StepDelete ==
  ASSUME NEW s, Sound(s), NEW name
  PROVE  LET r == DeleteFile(s, name)
         IN  /\ Sound(r) /\ r.created = s.created
             /\ First(s, name) \in {0, Len(s.files)} => Kept(s, r)
<1> DEFINE r == DeleteFile(s, name)
<1>1. CASE First(s, name) = 0
  <2>1. r = s
    BY <1>1 DEF DeleteFile
  <2> HIDE DEF r
  <2>2. QED
    BY <2>1, StepSame DEF r, Step
<1>2. CASE First(s, name) # 0
  <2>1. Sound(r) /\ r.created = s.created
    BY <1>2, DeleteFileIs
  <2>2. ASSUME First(s, name) = Len(s.files)
        PROVE  /\ Own(s) => Own(r)
               /\ Data(r) = RemoveAt(Data(s), Len(s.files))
    BY <1>2, <2>2, OwnDelete, DataDelete
  <2> HIDE DEF r
  <2>3. ASSUME First(s, name) = Len(s.files)
        PROVE  Promise(Data(s), Data(r))
    <3>1. Len(s.files) \in DOMAIN Data(s)
      BY <1>2, <2>3, StoreIs, DataIs
    <3>2. QED
      BY <2>2, <2>3, <3>1 DEF Promise
  <2>4. QED
    BY <1>2, <2>1, <2>2, <2>3 DEF r, Kept
<1>3. QED
  BY <1>1, <1>2

(* A write of one of the users: at the end of a file, or at its start.     *)
LEMMA StepWrite ==
  ASSUME NEW s, Sound(s), NEW i \in 1 .. Len(s.files), NEW text \in Texts,
         NEW offset \in {0, s.files[i].length}
  PROVE  LET r == Write(s, i, offset, text)
         IN  Step(s, r) /\ r.created = s.created
<1> DEFINE r == Write(s, i, offset, text)
           d == Data(s)
           c == Content(s, i)
<1>1. CASE ~IsFile(s, i)
  <2>1. r = s
    BY <1>1 DEF Write
  <2> HIDE DEF r
  <2>2. QED
    BY <2>1, StepSame DEF r
<1>2. CASE IsFile(s, i)
  <2>1. text \in Seq(Bytes) /\ offset \in 0 .. BLOCK /\ s.created \in Nat
    BY BytesAre, StoreIs, SizesAre
  <2>2. Sound(r) /\ r.created = s.created
    BY <1>2, <2>1, WriteIs
  <2>3. Own(s) => Own(r)
    BY <1>2, <2>1, OwnWrite
  <2>4. Own(s) => Data(r) = [d EXCEPT ![i].data = Written(s, i, offset, text)]
    BY <1>2, <2>1, DataWrite
  <2>5. i \in DOMAIN d /\ d[i].kind = "file" /\ d[i].data = c
    <3>1. d[i] = DataOf(s, i) /\ i \in DOMAIN d
      BY DataIs
    <3>2. QED
      BY <1>2, <3>1 DEF DataOf, IsFile
  <2>6. \/ Written(s, i, offset, text) = CutOff(c \o text)
        \/ Written(s, i, offset, text) = CutOff(text \o SubSeq(c, Len(text) + 1, Len(c)))
    BY <1>2, <2>1, WriteAppends, WriteOverwrites
  <2> HIDE DEF r, d, c
  <2>7. Own(s) => Promise(d, Data(r))
    BY <2>4, <2>5, <2>6 DEF Promise
  <2>8. QED
    BY <2>1, <2>2, <2>3, <2>7 DEF Step, Kept, r, d
<1>3. QED
  BY <1>1, <1>2

-----------------------------------------------------------------------------
(* A redirected kprint, as a function of the state of the file system.     *)
Found(s, path) == IF Find(s, path) # 0 THEN s ELSE CreateFile(s, path, <<>>)

Printed(s, path, text) ==
  LET o == Found(s, path)
      i == Find(o, path)
  IN  IF i = 0 THEN o ELSE Write(o, i, o.files[i].length, text)

(* What a created file is: the last node, empty and found at once, or not  *)
(* found at all because its name has a slash.                              *)
LEMMA FoundIs ==
  ASSUME NEW s, Sound(s), NEW path \in Paths, Find(s, path) = 0,
         Find(Found(s, path), path) # 0
  PROVE  LET o == Found(s, path)
             n == Len(s.files)
         IN  /\ n < MAX_FILES /\ o = CreateFile(s, path, <<>>)
             /\ Sound(o) /\ Len(o.files) = n + 1 /\ Find(o, path) = n + 1
             /\ IsFile(o, n + 1) /\ Content(o, n + 1) = <<>>
<1> DEFINE o == CreateFile(s, path, <<>>)
           n == Len(s.files)
<1>1. o = Found(s, path) /\ Find(o, path) # 0
  BY DEF Found
<1>2. n \in Nat /\ path \in NodeNames
  BY StoreIs DEF NodeNames
<1>3. n < MAX_FILES
  <2>1. ASSUME n >= MAX_FILES PROVE FALSE
    <3>1. o = s
      BY <2>1 DEF CreateFile
    <3>2. QED
      BY <1>1, <3>1
  <2>2. QED
    BY <1>2, <2>1, SizesAre
<1>4. HasFile(o, s, path, <<>>)
  BY <1>2, <1>3, EmptyIs, CreateFileIs
<1> HIDE DEF o
<1>5. /\ Sound(o) /\ Len(o.files) = n + 1
      /\ \A i \in 1 .. n : o.files[i] = s.files[i]
      /\ o.files[n + 1].length = 0 /\ IsFile(o, n + 1)
  BY <1>4, EmptyIs DEF HasFile, IsFile
<1>6. Find(o, path) = n + 1
  BY <1>1, <1>5, FirstAtEnd DEF Find
<1>7. n + 1 \in 1 .. Len(o.files)
  BY <1>2, <1>5
<1>8. Content(o, n + 1) \in Seq(Bytes) /\ Len(Content(o, n + 1)) = 0
  <2> HIDE DEF n
  <2>1. Content(o, n + 1) \in Seq(Bytes)
        /\ Len(Content(o, n + 1)) = o.files[n + 1].length
    BY <1>5, <1>7, ContentIs
  <2>2. QED
    BY <1>5, <2>1
<1>9. Content(o, n + 1) = <<>>
  BY <1>8
<1>10. QED
  BY <1>1, <1>3, <1>5, <1>6, <1>9 DEF o

LEMMA StepPrinted ==
  ASSUME NEW s, Sound(s), NEW path \in Paths, NEW text \in Texts
  PROVE  /\ Step(s, Printed(s, path, text))
         /\ Find(s, path) # 0 => Printed(s, path, text).created = s.created
<1> DEFINE o == Found(s, path)
           i == Find(o, path)
           r == Printed(s, path, text)
<1>1. CASE Find(s, path) # 0
  <2>1. o = s
    BY <1>1 DEF Found
  <2> DEFINE k == Find(s, path)
  <2>2. r = Write(s, k, s.files[k].length, text)
    BY <1>1, <2>1 DEF Printed
  <2>3. k \in 1 .. Len(s.files)
    BY <1>1, FirstIs, StoreIs DEF Find
  <2> HIDE DEF k, r
  <2>4. QED
    BY <2>2, <2>3, StepWrite DEF r
<1>2. CASE Find(s, path) = 0 /\ i = 0
  <2>1. r = CreateFile(s, path, <<>>)
    BY <1>2 DEF Printed, Found
  <2> HIDE DEF r
  <2>2. QED
    BY <1>2, <2>1, StepCreate DEF r
<1>3. CASE Find(s, path) = 0 /\ i # 0
  <2> DEFINE n == Len(s.files)
  <2>1. /\ n < MAX_FILES /\ o = CreateFile(s, path, <<>>)
        /\ Sound(o) /\ Len(o.files) = n + 1 /\ i = n + 1
        /\ IsFile(o, n + 1) /\ Content(o, n + 1) = <<>>
    BY <1>3, FoundIs
  <2>2. n \in Nat /\ path \in NodeNames /\ text \in Seq(Bytes) /\ s.created \in Nat
    BY StoreIs, BytesAre DEF NodeNames
  <2>3. r = Write(o, i, o.files[i].length, text)
    BY <1>3 DEF Printed
  <2>4. Step(s, o)
    BY <2>1, StepCreate
  <2> DEFINE l == o.files[i].length
             e == [name |-> path, kind |-> "file", data |-> <<>>]
             f == [name |-> path, kind |-> "file", data |-> CutOff(text)]
  <2>5. Own(s) /\ o.created <= FRAMES => Own(o) /\ Data(o) = Append(Data(s), e)
    <3>1. HasFile(o, s, path, <<>>)
      BY <2>1, <2>2, EmptyIs, CreateFileIs
    <3> SUFFICES ASSUME Own(s), o.created <= FRAMES
                 PROVE  Own(o) /\ Data(o) = Append(Data(s), e)
      OBVIOUS
    <3> HIDE DEF o
    <3>2. o.created = s.created + 1
      BY <3>1 DEF HasFile
    <3>3. s.created < FRAMES
      BY <2>2, <3>2, SizesAre
    <3>4. QED
      BY <2>1, <2>2, <3>3, EmptyIs, OwnCreate, DataCreate
  <2> HIDE DEF o, i, r
  <2>6. i \in 1 .. Len(o.files) /\ IsFile(o, i) /\ l \in 0 .. BLOCK
    <3>1. i \in 1 .. Len(o.files) /\ IsFile(o, i)
      BY <2>1, <2>2
    <3>2. QED
      BY <2>1, <3>1, StoreIs
  <2>7. Sound(r) /\ r.created = o.created
    BY <2>1, <2>2, <2>3, <2>6, WriteIs
  <2>8. Own(o) => Own(r) /\ Data(r) = [Data(o) EXCEPT ![i].data = CutOff(text)]
    <3>1. Written(o, i, l, text) = CutOff(Content(o, i) \o text)
      BY <2>1, <2>2, <2>6, WriteAppends
    <3>2. Content(o, i) \o text = text
      BY <2>1, <2>2
    <3>3. l \in 0 .. BLOCK /\ text \in Seq(Bytes) /\ Sound(o)
      BY <2>1, <2>2, <2>6
    <3> DEFINE v == Write(o, i, l, text)
    <3>4. Own(o) => Own(v)
      BY <2>6, <3>3, OwnWrite
    <3>5. Own(o) => Data(v) = [Data(o) EXCEPT ![i].data = Written(o, i, l, text)]
      BY <2>6, <3>3, DataWrite
    <3>6. r = v
      BY <2>3
    <3> HIDE DEF v
    <3>7. QED
      BY <3>1, <3>2, <3>4, <3>5, <3>6
  <2>9. Data(o) = Append(Data(s), e) =>
          [Data(o) EXCEPT ![i].data = CutOff(text)] = Append(Data(s), f)
    <3>1. PICK q : q = Data(s)
      OBVIOUS
    <3>2. q \in Seq(Records) /\ Len(q) = n
      BY <3>1, DataIs
    <3>3. [Append(q, e) EXCEPT ![n + 1].data = CutOff(text)] = Append(q, f)
      <4>1. PICK c : c = CutOff(text)
        OBVIOUS
      <4>2. e \in Records /\ f \in Records
        BY <2>2, EmptyIs, CutOffIs DEF Records
      <4>3. [e EXCEPT !.data = c] = f
        BY <4>1
      <4> HIDE DEF e, f, n
      <4>4. /\ Append(q, e) \in Seq(Records) /\ Len(Append(q, e)) = n + 1
            /\ \A j \in 1 .. n : Append(q, e)[j] = q[j]
            /\ Append(q, e)[n + 1] = e
        BY <2>2, <3>2, <4>2
      <4>5. PICK a \in Seq(Records) : a = Append(q, e)
        BY <4>4
      <4>6. [a EXCEPT ![n + 1].data = c] = [a EXCEPT ![n + 1] = f]
        BY <4>3, <4>4, <4>5
      <4>7. n + 1 \in 1 .. Len(a)
        BY <2>2, <4>4, <4>5
      <4>8. /\ [a EXCEPT ![n + 1] = f] \in Seq(Records)
            /\ Len([a EXCEPT ![n + 1] = f]) = n + 1
            /\ \A j \in 1 .. Len(a) :
                 [a EXCEPT ![n + 1] = f][j] = IF j = n + 1 THEN f ELSE a[j]
        <5>1. a \in [1 .. Len(a) -> Records] /\ Len(a) = n + 1
          <6>1. a \in [1 .. Len(a) -> Records]
            BY LenProperties
          <6>2. QED
            BY <4>4, <4>5, <6>1
        <5>2. PICK b : b = [a EXCEPT ![n + 1] = f]
          OBVIOUS
        <5>3. b \in [1 .. n + 1 -> Records] /\ n + 1 \in Nat
              /\ \A j \in 1 .. n + 1 : b[j] = IF j = n + 1 THEN f ELSE a[j]
          BY <2>2, <4>2, <4>7, <5>1, <5>2
        <5>4. b \in Seq(Records) /\ Len(b) = n + 1
          BY <5>3
        <5>5. QED
          BY <5>1, <5>2, <5>3, <5>4
      <4>9. [a EXCEPT ![n + 1] = f] = Append(q, f)
        <5>1. PICK b \in Seq(Records) : b = [a EXCEPT ![n + 1] = f]
          BY <4>8
        <5>2. Len(b) = Len(q) + 1 /\ b[Len(q) + 1] = f
              /\ \A j \in 1 .. Len(q) : b[j] = q[j]
          BY <2>2, <3>2, <4>4, <4>5, <4>8, <5>1
        <5>3. b = Append(q, f)
          BY <3>2, <4>2, <5>2, AppendedIs
        <5>4. QED
          BY <5>1, <5>3
      <4>10. QED
        BY <4>1, <4>5, <4>6, <4>9
    <3>4. QED
      BY <2>1, <3>1, <3>3
  <2>10. ASSUME Own(s), r.created <= FRAMES
         PROVE  Own(r) /\ Promise(Data(s), Data(r))
    <3>1. Own(r) /\ Data(r) = Append(Data(s), f)
      BY <2>5, <2>7, <2>8, <2>9, <2>10
    <3>2. QED
      BY <3>1 DEF Promise
  <2>11. QED
    BY <1>3, <2>4, <2>7, <2>10 DEF Step, Kept, r
<1>4. QED
  BY <1>1, <1>2, <1>3

(* Where a name leads after the first entry of the typed name was deleted. *)
LEMMA NameIs ==
  ASSUME NEW path \in Paths
  PROVE  /\ path.abs \in BOOLEAN
         /\ path.abs => Stripped(path) # path
         /\ ~path.abs => Stripped(path) = path
<1>1. path \in [abs : BOOLEAN, base : STRING]
  BY FileShellAssumption
<1>2. path.abs \in BOOLEAN /\ Stripped(path).abs = FALSE
  BY <1>1 DEF Stripped
<1>3. ~path.abs => Stripped(path) = path
  <2> SUFFICES ASSUME ~path.abs PROVE Stripped(path) = path
    OBVIOUS
  <2>1. path.abs = FALSE
    BY <1>2
  <2>2. QED
    BY <1>1, <2>1 DEF Stripped
<1>4. QED
  BY <1>2, <1>3

(* Redirected output is lost where no lookup finds the created file.       *)
LEMMA FoundOrLost ==
  ASSUME NEW s, Sound(s), NEW path \in Paths, Find(s, path) = 0
  PROVE  Find(Found(s, path), path) = 0
           <=> path.abs \/ Len(s.files) >= MAX_FILES
<1> DEFINE o == CreateFile(s, path, <<>>)
           n == Len(s.files)
<1>1. Found(s, path) = o
  BY DEF Found
<1>2. n \in Nat /\ path \in NodeNames /\ MAX_FILES \in Nat
  BY StoreIs, SizesAre DEF NodeNames
<1>3. CASE n >= MAX_FILES
  <2>1. o = s
    BY <1>3 DEF CreateFile
  <2>2. QED
    BY <1>1, <1>3, <2>1
<1>4. CASE n < MAX_FILES
  <2>1. HasFile(o, s, path, <<>>)
    BY <1>2, <1>4, EmptyIs, CreateFileIs
  <2> HIDE DEF o
  <2>2. /\ Sound(o) /\ Len(o.files) = n + 1
        /\ \A i \in 1 .. n : o.files[i] = s.files[i]
        /\ o.files[n + 1].name = path
    BY <2>1 DEF HasFile
  <2>3. \A i \in 1 .. n : o.files[i].name # Stripped(path)
    BY <2>2, FirstIs DEF Find
  <2>4. CASE path.abs
    <3>1. ASSUME First(o, Stripped(path)) # 0
          PROVE  FALSE
      <4>1. First(o, Stripped(path)) \in 1 .. n + 1
        BY <1>2, <2>2, <3>1, FirstIs
      <4>2. o.files[First(o, Stripped(path))].name = Stripped(path)
        BY <2>2, <3>1, FirstIs
      <4>3. First(o, Stripped(path)) = n + 1
        BY <1>2, <2>3, <4>1, <4>2
      <4>4. QED
        BY <2>2, <2>4, <4>2, <4>3, NameIs
    <3>2. QED
      BY <1>1, <2>4, <3>1 DEF Find
  <2>5. CASE ~path.abs
    <3>1. n + 1 \in 1 .. Len(o.files) /\ o.files[n + 1].name = Stripped(path)
      BY <1>2, <2>2, <2>5, NameIs
    <3>2. Find(o, path) # 0
      BY <2>2, <3>1, FirstIs DEF Find
    <3>3. QED
      BY <1>1, <1>2, <1>4, <2>5, <3>2
  <2>6. QED
    BY <2>4, <2>5
<1>5. QED
  BY <1>2, <1>3, <1>4

(* The file of a redirected kprint has what it had, and the text.          *)
LEMMA PrintedIsRead ==
  ASSUME NEW s, Sound(s), NEW path \in Paths, NEW text \in Texts
  PROVE  LET r == Printed(s, path, text)
             i == Find(r, path)
             d == IF Find(s, path) = 0 THEN <<>> ELSE Content(s, Find(s, path))
         IN  /\ i = 0 <=> Find(Found(s, path), path) = 0
             /\ i # 0 /\ IsFile(r, i) => Content(r, i) = CutOff(d \o text)
             /\ i # 0 /\ ~IsFile(r, i) => r = s
<1> DEFINE o == Found(s, path)
           k == Find(o, path)
           r == Printed(s, path, text)
           l == o.files[k].length
           d == IF Find(s, path) = 0 THEN <<>> ELSE Content(s, Find(s, path))
<1>1. Sound(o)
  BY StepCreate DEF Found, Step
<1>2. k \in 0 .. Len(o.files) /\ text \in Seq(Bytes)
  BY <1>1, FirstIs, BytesAre DEF Find
<1>3. ASSUME k # 0
      PROVE  /\ IsFile(o, k) => Content(o, k) = d
             /\ ~IsFile(o, k) => o = s
  <2>1. CASE Find(s, path) # 0
    BY <2>1 DEF Found
  <2>2. CASE Find(s, path) = 0
    BY <1>3, <2>2, FoundIs
  <2>3. QED
    BY <2>1, <2>2
<1>4. CASE k = 0
  <2>1. r = o
    BY <1>4 DEF Printed
  <2>2. Find(r, path) = 0
    BY <1>4, <2>1
  <2>3. QED
    BY <1>4, <2>2
<1>5. CASE k # 0 /\ ~IsFile(o, k)
  <2>1. r = o
    BY <1>5 DEF Printed, Write
  <2>2. QED
    BY <1>3, <1>5, <2>1
<1>6. CASE k # 0 /\ IsFile(o, k)
  <2>1. r = Write(o, k, l, text)
    BY <1>6 DEF Printed
  <2>2. Content(o, k) = d
    BY <1>3, <1>6
  <2> HIDE DEF d
  <2>3. k \in 1 .. Len(o.files)
    BY <1>1, <1>2, <1>6, StoreIs
  <2> HIDE DEF o, r
  <2>4. l \in 0 .. BLOCK
    BY <1>1, <2>3, StoreIs
  <2>5. /\ Sound(r) /\ Len(r.files) = Len(o.files)
        /\ \A j \in 1 .. Len(o.files) : r.files[j].name = o.files[j].name
        /\ IsFile(r, k)
    BY <1>1, <1>2, <1>6, <2>1, <2>3, <2>4, WriteIs DEF IsFile
  <2>6. Find(r, path) = k
    BY <1>1, <2>5, SameFirst DEF Find
  <2>7. Content(r, k) = CutOff(d \o text)
    <3>1. Written(o, k, l, text) = CutOff(Content(o, k) \o text)
      BY <1>1, <1>2, <1>6, <2>3, WriteAppends
    <3>2. QED
      BY <2>1, <2>2, <3>1 DEF Written
  <2>8. QED
    BY <1>6, <2>5, <2>6, <2>7 DEF d, r, o
<1>7. QED
  BY <1>4, <1>5, <1>6

Single(s, name) ==
  \A i, j \in DOMAIN s.files :
    s.files[i].name = name /\ s.files[j].name = name => i = j

(* A delete under the typed name leaves no such path, or does.             *)
LEMMA TruncateIs ==
  ASSUME NEW s, Sound(s), NEW path \in Paths, Find(s, path) # 0
  PROVE  Find(DeleteFile(s, path), path) = 0
           <=> ~path.abs /\ Single(s, path)
<1> DEFINE n == Len(s.files)
           i == First(s, path)
           r == DeleteFile(s, path)
           w == Stripped(path)
<1>1. n \in Nat /\ DOMAIN s.files = 1 .. n /\ i \in 0 .. n
  BY StoreIs, FirstIs
<1>2. First(s, w) \in 1 .. n /\ s.files[First(s, w)].name = w
  BY <1>1, FirstIs DEF Find
<1>3. CASE i = 0
  <2>1. r = s
    BY <1>3 DEF DeleteFile
  <2>2. path.abs
    <3>1. ASSUME ~path.abs PROVE FALSE
      BY <1>2, <1>3, <3>1, NameIs
    <3>2. QED
      BY <3>1
  <2>3. QED
    BY <2>1, <2>2
<1>4. CASE i # 0
  <2>1. /\ Sound(r) /\ Len(r.files) = n - 1
        /\ \A k \in 1 .. n - 1 : r.files[k] = s.files[IF k < i THEN k ELSE k + 1]
        /\ i \in 1 .. n /\ s.files[i].name = path
    BY <1>1, <1>4, DeleteFileIs, FirstIs
  <2> HIDE DEF i, r, n
  <2>2. ASSUME NEW k \in 1 .. n, k # i, s.files[k].name = w
        PROVE  Find(r, path) # 0
    <3> DEFINE m == IF k < i THEN k ELSE k - 1
    <3>1. m \in 1 .. n - 1 /\ r.files[m] = s.files[k]
      <4>1. m \in 1 .. n - 1 /\ (IF m < i THEN m ELSE m + 1) = k
        BY <1>1, <2>1, <2>2
      <4> HIDE DEF m
      <4>2. QED
        BY <2>1, <4>1
    <3>2. QED
      BY <2>1, <2>2, <3>1, FirstIs DEF Find
  <2>3. CASE path.abs
    <3>1. First(s, w) # i
      BY <1>2, <2>1, <2>3, NameIs
    <3>2. QED
      BY <1>2, <2>2, <2>3, <3>1 DEF r
  <2>4. CASE ~path.abs /\ ~Single(s, path)
    <3>1. PICK a \in 1 .. n, b \in 1 .. n :
            s.files[a].name = path /\ s.files[b].name = path /\ a # b
      BY <1>1, <2>4 DEF Single
    <3>2. a # i \/ b # i
      BY <3>1
    <3>3. w = path
      BY <2>4, NameIs
    <3>4. QED
      BY <2>2, <2>4, <3>1, <3>2, <3>3 DEF r
  <2>5. CASE ~path.abs /\ Single(s, path)
    <3>1. w = path
      BY <2>5, NameIs
    <3>2. ASSUME Find(r, path) # 0
          PROVE  FALSE
      <4>1. PICK k \in 1 .. n - 1 : r.files[k].name = path
        BY <1>1, <2>1, <3>1, <3>2, FirstIs DEF Find
      <4> DEFINE m == IF k < i THEN k ELSE k + 1
      <4>2. m \in 1 .. n /\ m # i
        BY <1>1, <2>1
      <4>3. s.files[m].name = path
        BY <2>1, <4>1
      <4> HIDE DEF m
      <4>4. QED
        BY <1>1, <2>1, <2>5, <4>2, <4>3 DEF Single
    <3>3. QED
      BY <2>5, <3>2 DEF r
  <2>6. QED
    BY <2>3, <2>4, <2>5, NameIs
<1>5. QED
  BY <1>3, <1>4

-----------------------------------------------------------------------------
(* The invariant: the types, and that the inodes of all files are their    *)
(* places as long as no entry left a gap.                                  *)
FilesInv ==
  /\ Sound(fs) /\ fs.created <= MAX_CREATED
  /\ redir_file \in Paths \cup {NONE}
  /\ at \in {"prompt", "run", "output"}
  /\ moved \in BOOLEAN
  /\ Reliable => Own(fs)

BOOT == << [name |-> Typed("readme"), kind |-> "file", data |-> README],
           [name |-> Typed("disk"), kind |-> "dir", data |-> <<>>] >>

LEMMA BootIs ==
  ASSUME NEW garbage \in [0 .. FRAMES -> [1 .. BLOCK -> Bytes]]
  PROVE  LET s == Boot(garbage)
         IN  /\ Sound(s) /\ s.created = 1
             /\ FRAMES # 0 => Own(s) /\ Data(s) = BOOT
<1> DEFINE e == Empty(garbage)
           a == Typed("readme")
           b == Typed("disk")
           f == CreateFile(e, a, README)
           s == AddDirectory(f, b)
<1>1. a \in NodeNames /\ b \in NodeNames
  BY DEF NodeNames
<1>2. README \in Seq(Bytes) /\ Len(README) <= BLOCK
  BY BytesAre, FileShellAssumption
<1>3. e.files = <<>> /\ e.created = 0 /\ Len(e.files) = 0
  BY DEF Empty
<1>4. Sound(e)
  <2>1. [t \in Slots |-> 0] \in [Slots -> 0 .. FRAMES] /\ <<>> \in Seq(Nodes) /\ 0 \in Nat
    BY SizesAre
  <2>2. e \in Stores
    BY <2>1 DEF Empty, Stores
  <2>3. QED
    BY <1>3, <2>2, SizesAre DEF Sound
<1>5. Own(e) /\ Data(e) = <<>>
  <2>1. Own(e)
    BY <1>3 DEF Own
  <2>2. Data(e) \in Seq(Records) /\ Len(Data(e)) = 0
    BY <1>3, <1>4, DataIs
  <2>3. QED
    BY <2>1, <2>2
<1> HIDE DEF e, a, b
<1>6. Len(e.files) < MAX_FILES
  BY <1>3, SizesAre
<1>7. HasFile(f, e, a, README)
  BY <1>1, <1>2, <1>4, <1>6, CreateFileIs
<1>8. FRAMES # 0 => /\ Own(f)
                    /\ Data(f) = Append(Data(e), [name |-> a, kind |-> "file",
                                                  data |-> README])
  <2>1. FRAMES # 0 => e.created < FRAMES
    BY <1>3, SizesAre
  <2>2. QED
    BY <1>1, <1>2, <1>4, <1>5, <1>6, <2>1, OwnCreate, DataCreate
<1> HIDE DEF f
<1>9. Sound(f) /\ f.created = 1 /\ Len(f.files) = 1
  BY <1>3, <1>7 DEF HasFile
<1>10. Len(f.files) < MAX_FILES
  BY <1>9, SizesAre
<1>11. HasDirectory(s, f, b)
  BY <1>1, <1>9, <1>10, AddDirectoryIs
<1>12. /\ Own(f) => Own(s)
       /\ Data(s) = Append(Data(f), [name |-> b, kind |-> "dir", data |-> <<>>])
  BY <1>1, <1>9, <1>10, OwnAddDirectory, DataAddDirectory
<1>13. s = Boot(garbage)
  BY DEF Boot, e, f, a, b
<1> HIDE DEF s
<1>14. Sound(s) /\ s.created = 1
  BY <1>9, <1>11 DEF HasDirectory
<1>15. FRAMES # 0 => Data(s) = BOOT
  <2>1. PICK x, y : /\ x = [name |-> a, kind |-> "file", data |-> README]
                    /\ y = [name |-> b, kind |-> "dir", data |-> <<>>]
    OBVIOUS
  <2>2. FRAMES # 0 => Data(s) = Append(Append(<<>>, x), y)
    BY <1>5, <1>8, <1>12, <2>1
  <2>3. Append(Append(<<>>, x), y) = <<x, y>>
    <3>1. <<x>> \in Seq({x, y}) /\ <<x, y>> \in Seq({x, y}) /\ Append(<<>>, x) = <<x>>
      OBVIOUS
    <3>2. PICK q \in Seq({x, y}) : q = <<x>> /\ Len(q) = 1 /\ q[1] = x
      BY <3>1
    <3>3. PICK v \in Seq({x, y}) : v = <<x, y>> /\ Len(v) = 2 /\ v[1] = x /\ v[2] = y
      BY <3>1
    <3>4. Append(q, y) \in Seq({x, y}) /\ Len(Append(q, y)) = 2
          /\ Append(q, y)[1] = x /\ Append(q, y)[2] = y
      BY <3>2
    <3>5. Append(q, y) = v
      <4>1. PICK w \in Seq({x, y}) : w = Append(q, y)
        BY <3>4
      <4>2. Len(w) = Len(v) /\ \A k \in 1 .. Len(w) : w[k] = v[k]
        BY <3>3, <3>4, <4>1
      <4>3. w = v
        BY <4>2, SameSequence, Zenon
      <4>4. QED
        BY <4>1, <4>3
    <3>6. QED
      BY <3>1, <3>2, <3>3, <3>5
  <2>4. BOOT = <<x, y>>
    BY <2>1 DEF BOOT, a, b
  <2>5. QED
    BY <2>2, <2>3, <2>4
<1>16. QED
  BY <1>8, <1>12, <1>13, <1>14, <1>15

LEMMA FilesInit == Init => FilesInv
<1> SUFFICES ASSUME Init PROVE FilesInv
  OBVIOUS
<1>1. [f \in 0 .. FRAMES |-> Zeroed] \in [0 .. FRAMES -> [1 .. BLOCK -> Bytes]]
  BY ZeroedIs
<1>2. Sound(fs) /\ fs.created = 1 /\ (FRAMES # 0 => Own(fs))
  BY <1>1, BootIs DEF Init
<1>3. Reliable => FRAMES # 0
  BY <1>2, SizesAre DEF Reliable
<1>4. QED
  BY <1>2, <1>3, SizesAre DEF Init, FilesInv

(* What an operation does carries over to the invariant.                   *)
LEMMA FilesKept ==
  ASSUME FilesInv, Sound(fs'), fs'.created \in Nat, fs.created <= fs'.created,
         fs'.created <= MAX_CREATED, moved' \in BOOLEAN, moved => moved',
         ~moved' => Kept(fs, fs'),
         redir_file' \in Paths \cup {NONE}, at' \in {"prompt", "run", "output"}
  PROVE  FilesInv' /\ (Reliable' => Promise(Data(fs), Data(fs')))
<1>1. fs.created \in Nat
  BY StoreIs DEF FilesInv
<1>2. Reliable' => Reliable /\ fs'.created <= FRAMES /\ ~moved'
  BY <1>1, SizesAre DEF Reliable, FilesInv
<1>3. Reliable' => Own(fs') /\ Promise(Data(fs), Data(fs'))
  BY <1>2 DEF FilesInv, Kept
<1>4. QED
  BY <1>3 DEF FilesInv

LEMMA FilesStep ==
  ASSUME FilesInv, [Next]_vars
  PROVE  FilesInv' /\ (Reliable' => Promise(Data(fs), Data(fs')))
<1>1. /\ Sound(fs) /\ fs.created \in Nat /\ fs.created <= MAX_CREATED
      /\ moved \in BOOLEAN /\ redir_file \in Paths \cup {NONE}
      /\ at \in {"prompt", "run", "output"}
  BY StoreIs DEF FilesInv
<1>2. /\ MAX_CREATED \in Nat
      /\ Step(fs, fs)
  BY <1>1, StepSame, SizesAre
<1>3. ASSUME UNCHANGED <<fs, moved>>, redir_file' \in Paths \cup {NONE},
             at' \in {"prompt", "run", "output"}
      PROVE  FilesInv' /\ (Reliable' => Promise(Data(fs), Data(fs')))
  <2>1. Kept(fs, fs')
    BY <1>2, <1>3 DEF Step
  <2>2. QED
    BY <1>1, <1>2, <1>3, <2>1, FilesKept
<1>4. ASSUME Step(fs, fs'), fs'.created <= MAX_CREATED, UNCHANGED moved,
             redir_file' = redir_file, at' \in {"prompt", "run", "output"}
      PROVE  FilesInv' /\ (Reliable' => Promise(Data(fs), Data(fs')))
  <2>1. Sound(fs') /\ Kept(fs, fs') /\ fs.created <= fs'.created
    BY <1>4 DEF Step
  <2>2. fs'.created \in Nat
    BY <2>1, StoreIs
  <2>3. QED
    BY <1>1, <1>4, <2>1, <2>2, FilesKept
<1>5. ASSUME NEW name, Delete(name), redir_file' \in Paths \cup {NONE},
             at' \in {"prompt", "run", "output"}
      PROVE  FilesInv' /\ (Reliable' => Promise(Data(fs), Data(fs')))
  <2>1. /\ Sound(fs') /\ fs'.created = fs.created
        /\ First(fs, name) \in {0, Len(fs.files)} => Kept(fs, fs')
    BY <1>1, <1>5, StepDelete DEF Delete
  <2>2. moved' \in BOOLEAN /\ (moved => moved')
        /\ (~moved' => First(fs, name) \in {0, Len(fs.files)})
    BY <1>1, <1>5 DEF Delete
  <2>3. QED
    BY <1>1, <1>5, <2>1, <2>2, FilesKept
<1>6. CASE StartPlain
  BY <1>3, <1>6 DEF StartPlain
<1>7. CASE \E p \in Paths : StartTruncate(p)
  <2>1. PICK p \in Paths : StartTruncate(p)
    BY <1>7
  <2>2. redir_file' \in Paths \cup {NONE} /\ at' \in {"prompt", "run", "output"}
    BY <2>1 DEF StartTruncate
  <2>3. CASE Find(fs, p) # 0
    BY <1>5, <2>1, <2>2, <2>3 DEF StartTruncate
  <2>4. CASE Find(fs, p) = 0
    BY <1>3, <2>1, <2>2, <2>4 DEF StartTruncate
  <2>5. QED
    BY <2>3, <2>4
<1>8. CASE \E p \in Paths : Touch(p)
  <2>1. PICK p \in Paths : Touch(p)
    BY <1>8
  <2>2. Step(fs, fs')
    BY <1>1, <2>1, StepCreate DEF Touch
  <2>3. fs'.created <= fs.created + 1 /\ fs'.created \in Nat
    BY <2>2, StoreIs DEF Step
  <2>4. fs'.created <= MAX_CREATED
    BY <1>1, <1>2, <2>1, <2>3 DEF Touch, MayCreate
  <2>5. QED
    BY <1>4, <2>1, <2>2, <2>4 DEF Touch, Run
<1>9. CASE \E p \in Paths : Mkdir(p)
  <2>1. PICK p \in Paths : Mkdir(p)
    BY <1>9
  <2>2. Step(fs, fs') /\ fs'.created = fs.created
    BY <1>1, <2>1, StepDirectory DEF Mkdir
  <2>3. QED
    BY <1>1, <1>4, <2>1, <2>2 DEF Mkdir, Run
<1>10. CASE \E p \in Paths : Rm(p)
  <2>1. PICK p \in Paths : Rm(p)
    BY <1>10
  <2>2. QED
    BY <1>1, <1>5, <2>1 DEF Rm, Run
<1>11. CASE Other
  BY <1>1, <1>3, <1>11 DEF Other, Run
<1>12. CASE \E t \in Texts : Kprint(t)
  <2>1. PICK t \in Texts : Kprint(t)
    BY <1>12
  <2>2. redir_file \in Paths /\ fs' = Printed(fs, redir_file, t)
    BY <1>1, <2>1 DEF Kprint, Printed, Found, Opened
  <2>3. Step(fs, fs') /\ (Find(fs, redir_file) # 0 => fs'.created = fs.created)
    BY <1>1, <2>2, StepPrinted
  <2>4. fs'.created <= fs.created + 1 /\ fs'.created \in Nat
    BY <2>3, StoreIs DEF Step
  <2>5. fs'.created <= MAX_CREATED
    BY <1>1, <1>2, <2>1, <2>3, <2>4 DEF Kprint, MayCreate
  <2>6. QED
    BY <1>1, <1>4, <2>1, <2>3, <2>5 DEF Kprint
<1>13. CASE \E p \in Paths, t \in Texts : NanoSave(p, t)
  <2>1. PICK p \in Paths, t \in Texts : NanoSave(p, t)
    BY <1>13
  <2> DEFINE i == Find(fs, p)
  <2>2. i \in 1 .. Len(fs.files)
    BY <1>1, <2>1, FirstIs, StoreIs DEF Find, NanoSave
  <2>3. fs' = Write(fs, i, 0, t)
    BY <2>1 DEF NanoSave
  <2> HIDE DEF i
  <2>4. Step(fs, fs') /\ fs'.created = fs.created
    BY <1>1, <2>2, <2>3, StepWrite
  <2>5. QED
    BY <1>1, <1>4, <2>1, <2>4 DEF NanoSave
<1>14. CASE End
  BY <1>1, <1>3, <1>14 DEF End
<1>15. CASE UNCHANGED vars
  BY <1>1, <1>3, <1>15 DEF vars
<1>16. QED
  BY <1>6, <1>7, <1>8, <1>9, <1>10, <1>11, <1>12, <1>13, <1>14, <1>15 DEF Next

LEMMA FilesInvariant == Spec => []FilesInv
<1>1. FilesInv /\ [Next]_vars => FilesInv'
  BY FilesStep
<1>2. QED
  BY <1>1, FilesInit, PTL DEF Spec

-----------------------------------------------------------------------------
(* No length of a file leaves its frame whatever is created, appended,     *)
(* saved and deleted (ramfs.cpp:18-118), and as long as nothing but the    *)
(* end of the list is deleted and the frames last, no two files write to   *)
(* the same frame or to none (ramfs.cpp:50-67).                            *)
THEOREM FilesAreSound == Spec => []FilesSound
<1>1. ASSUME FilesInv
      PROVE  FilesSound
  <2>1. /\ Sound(fs) /\ fs.created \in Nat /\ fs.created <= MAX_CREATED
    BY <1>1, StoreIs DEF FilesInv
  <2>2. TypeOK
    <3>1. fs.created \in 0 .. MAX_CREATED
      BY <2>1, SizesAre
    <3>2. QED
      BY <1>1, <2>1, <3>1 DEF FilesInv, Sound, Stores, TypeOK
  <2>3. OwnBuffer
    <3> SUFFICES ASSUME Reliable
                 PROVE  /\ \A i \in Files : Frame(fs, i) # 0
                        /\ \A i, j \in Files : Frame(fs, i) = Frame(fs, j) => i = j
      BY DEF OwnBuffer
    <3>1. Own(fs)
      BY <1>1 DEF FilesInv
    <3>2. \A i \in Files : i \in 1 .. Len(fs.files) /\ IsFile(fs, i)
      BY <2>1, StoreIs DEF Files
    <3>3. \A i \in Files : Frame(fs, i) \in 1 .. fs.created
      BY <2>1, <3>1, <3>2, OwnFrame
    <3>4. \A i, j \in Files : Frame(fs, i) = Frame(fs, j) => i = j
      BY <2>1, <3>1, <3>2, OwnFrame
    <3>5. QED
      BY <2>1, <3>3, <3>4
  <2>4. QED
    BY <2>2, <2>3 DEF FilesSound
<1>2. QED
  BY <1>1, FilesInvariant, PTL

(* Whatever was deleted before, the output that the shell redirects to a   *)
(* path is read back from it behind what was there, cut off at the end of  *)
(* the frame; it is lost exactly when no such file exists and the name was *)
(* typed with a slash or the list is full (shell.cpp:72-94,                *)
(* ramfs.cpp:18-33, 59-60).                                                *)
THEOREM KprintReadBack == Spec => KprintIsReadBack
<1>1. ASSUME FilesInv, [Next]_vars
      PROVE  [\A t \in Texts : Kprint(t) => ReadBack(t)]_vars
  <2> SUFFICES ASSUME NEW t \in Texts, Kprint(t)
               PROVE  ReadBack(t)
    OBVIOUS
  <2>1. /\ Sound(fs) /\ redir_file \in Paths
        /\ fs' = Printed(fs, redir_file, t) /\ redir_file' = redir_file
    BY <1>1 DEF FilesInv, Kprint, Printed, Found, Opened
  <2> DEFINE i == Find(fs', redir_file)
  <2>2. /\ i = 0 <=> Find(Found(fs, redir_file), redir_file) = 0
        /\ i # 0 /\ IsFile(fs', i) => Content(fs', i) = CutOff(Before \o t)
        /\ i # 0 /\ ~IsFile(fs', i) => fs' = fs
    BY <2>1, PrintedIsRead DEF Before
  <2>3. i = 0 <=> IsLost
    <3>1. CASE Find(fs, redir_file) = 0
      BY <2>1, <2>2, <3>1, FoundOrLost DEF IsLost
    <3>2. CASE Find(fs, redir_file) # 0
      BY <2>2, <3>2 DEF Found, IsLost
    <3>3. QED
      BY <3>1, <3>2
  <2> HIDE DEF i
  <2>4. CASE IsLost
    BY <2>1, <2>3, <2>4 DEF ReadBack, i
  <2>5. CASE ~IsLost
    BY <2>1, <2>2, <2>3, <2>5 DEF ReadBack, CutOff, i
  <2>6. QED
    BY <2>4, <2>5
<1>2. QED
  BY <1>1, FilesInvariant, PTL DEF Spec, KprintIsReadBack

(* Output redirected with ">" to a file that exists begins in a new file   *)
(* exactly when the name was typed without a slash and names one entry     *)
(* (shell.cpp:378-392, ramfs.cpp:96-111).                                  *)
THEOREM TruncatedFileIsGone == Spec => TruncatedIsGone
<1>1. ASSUME FilesInv, NEW p \in Paths, StartTruncate(p)
      PROVE  Find(fs', p) = 0 <=> Find(fs, p) = 0 \/ (~p.abs /\ Once(p))
  <2>1. Sound(fs)
    BY <1>1 DEF FilesInv
  <2>2. CASE Find(fs, p) = 0
    <3>1. fs' = fs
      BY <1>1, <2>2 DEF StartTruncate
    <3>2. QED
      BY <2>2, <3>1
  <2>3. CASE Find(fs, p) # 0
    <3>1. fs' = DeleteFile(fs, p)
      BY <1>1, <2>3 DEF StartTruncate, Delete
    <3>2. Find(DeleteFile(fs, p), p) = 0 <=> ~p.abs /\ Single(fs, p)
      BY <2>1, <2>3, TruncateIs
    <3>3. QED
      BY <2>3, <3>1, <3>2 DEF Single, Once
  <2>4. QED
    BY <2>2, <2>3
<1>2. FilesInv /\ [Next]_vars =>
        [\A p \in Paths :
           StartTruncate(p) =>
             (Find(fs', p) = 0 <=> \/ Find(fs, p) = 0
                                   \/ ~p.abs /\ Once(p))]_vars
  BY <1>1
<1>3. QED
  BY <1>2, FilesInvariant, PTL DEF Spec, TruncatedIsGone

(* The files are a store in which each has data of its own, as long as     *)
(* only the end of the list is deleted and frames last: each command is    *)
(* one step of it, or none (ramfs.cpp:18-118, shell.cpp:72-94,             *)
(* nano.cpp:41-57).  The boot code's file needs the first frame.           *)
THEOREM FilesImplementStore ==
  ASSUME FRAMES # 0
  PROVE  Spec => ImplementsFileStore
<1> DEFINE entries == [i \in DOMAIN fs.files |-> Entry(i)]
<1>1. entries = Data(fs)
  BY DEF Entry, Data, DataOf
<1>2. Init => Store!Init
  <2> SUFFICES ASSUME Init PROVE entries = BOOT /\ Reliable = TRUE
    BY DEF Store!Init, BOOT
  <2>1. [f \in 0 .. FRAMES |-> Zeroed] \in [0 .. FRAMES -> [1 .. BLOCK -> Bytes]]
    BY ZeroedIs
  <2>2. fs.created = 1 /\ Data(fs) = BOOT
    BY <2>1, BootIs DEF Init
  <2>3. Reliable
    BY <2>2, SizesAre DEF Init, Reliable
  <2>4. QED
    BY <1>1, <2>2, <2>3
<1>3. ASSUME FilesInv, [Next]_vars
      PROVE  Store!Next
  <2> SUFFICES ASSUME Reliable'
               PROVE  Store!Promised
    BY DEF Store!Next
  <2>1. Promise(Data(fs), Data(fs'))
    BY <1>3, FilesStep
  <2>2. entries = Data(fs) /\ entries' = Data(fs')
    BY DEF Entry, Data, DataOf
  <2> HIDE DEF entries
  <2>3. \A q : CutOff(q) = Store!Cut(q)
    BY DEF CutOff, Store!Cut
  <2> DEFINE d == entries
             e == entries'
  <2>4. CASE \E n \in Paths, t \in Texts \cup {<<>>} :
               e = Append(d, [name |-> n, kind |-> "file", data |-> CutOff(t)])
    BY <2>3, <2>4 DEF Store!Promised, Store!NewFile, Store!Create, entries
  <2>5. CASE \E n \in Paths :
               e = Append(d, [name |-> n, kind |-> "dir", data |-> <<>>])
    BY <2>5 DEF Store!Promised, Store!NewDirectory, Store!Create, entries
  <2>6. CASE \E i \in DOMAIN d : e = RemoveAt(d, i)
    BY <2>6 DEF Store!Promised, Store!RemoveEntry, RemoveAt, Store!RemoveAt, entries
  <2>7. CASE \E i \in DOMAIN d, t \in Texts :
               /\ d[i].kind = "file"
               /\ e = [d EXCEPT ![i].data = CutOff(d[i].data \o t)]
    <3>1. PICK i \in DOMAIN d, t \in Texts :
            d[i].kind = "file" /\ e = [d EXCEPT ![i].data = CutOff(d[i].data \o t)]
      BY <2>7
    <3>2. PICK q : q = d[i].data \o t
      OBVIOUS
    <3>3. Store!Change(i, q)
      BY <2>3, <3>1, <3>2 DEF Store!Change, entries
    <3>4. Store!AppendText
      BY <3>1, <3>2, <3>3, Zenon DEF Store!AppendText, entries
    <3>5. QED
      BY <3>4 DEF Store!Promised
  <2>8. CASE \E i \in DOMAIN d, t \in Texts :
               /\ d[i].kind = "file"
               /\ e = [d EXCEPT ![i].data =
                         CutOff(t \o SubSeq(d[i].data, Len(t) + 1, Len(d[i].data)))]
    BY <2>3, <2>8 DEF Store!Promised, Store!OverwriteStart, Store!Change, entries
  <2>9. CASE e = d
    BY <2>9 DEF Store!Promised, entries
  <2>10. Promise(d, e)
    BY <2>1, <2>2
  <2> HIDE DEF d, e
  <2>11. QED
    BY <2>4, <2>5, <2>6, <2>7, <2>8, <2>9, <2>10 DEF Promise
<1>4. QED
  BY <1>2, <1>3, FilesInvariant, PTL DEF Spec, ImplementsFileStore, Store!Spec
=============================================================================
