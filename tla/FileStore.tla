----------------------------- MODULE FileStore ------------------------------
(***************************************************************************)
(* What a user expects of the file system: a list of entries, of which     *)
(* each file has data of its own, cut off at the largest size of a file.   *)
(* Once the store is no longer reliable, it promises nothing.              *)
(***************************************************************************)
EXTENDS Integers, Sequences, SequencesExt

CONSTANTS Names, Texts, BLOCK, BOOT

VARIABLES
  entries,    \* of [name, kind, data]
  reliable

Cut(data) == SubSeq(data, 1, IF Len(data) < BLOCK THEN Len(data) ELSE BLOCK)

Init == entries = BOOT /\ reliable = TRUE

Create(e) ==
  entries' = Append(entries, e)

(* A file is created and gets its first text in the same step.             *)
NewFile ==
  \E n \in Names, t \in Texts \cup {<<>>} :
    Create([name |-> n, kind |-> "file", data |-> Cut(t)])

NewDirectory ==
  \E n \in Names : Create([name |-> n, kind |-> "dir", data |-> <<>>])

RemoveEntry ==
  \E i \in DOMAIN entries : entries' = RemoveAt(entries, i)

Change(i, data) ==
  entries' = [entries EXCEPT ![i].data = Cut(data)]

AppendText ==
  \E i \in DOMAIN entries, t \in Texts :
    /\ entries[i].kind = "file"
    /\ Change(i, entries[i].data \o t)

(* A text written over the start of a file keeps what lies behind it.      *)
OverwriteStart ==
  \E i \in DOMAIN entries, t \in Texts :
    /\ entries[i].kind = "file"
    /\ Change(i, t \o SubSeq(entries[i].data, Len(t) + 1, Len(entries[i].data)))

Promised ==
  \/ NewFile
  \/ NewDirectory
  \/ RemoveEntry
  \/ AppendText
  \/ OverwriteStart
  \/ UNCHANGED entries

Next == reliable' = TRUE => Promised

Spec == Init /\ [][Next]_<<entries, reliable>>
=============================================================================
