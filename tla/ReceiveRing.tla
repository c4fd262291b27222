----------------------------- MODULE ReceiveRing -----------------------------
(***************************************************************************)
(* The receive buffer of one TCP connection (kernel/net/tcp.cpp): the card *)
(* interrupt appends segments in handle_packet, a task takes bytes off in  *)
(* recv, and nothing locks the two against each other.                     *)
(*                                                                         *)
(* handle_packet is one step.  recv runs with interrupts enabled and is    *)
(* one step per access to the connection.  Its last line,                  *)
(* recv_count -= bytes_to_read, is two accesses: with the Makefile's flags *)
(* GCC loads recv_count after the loop, subtracts in a register and stores,*)
(* and a segment that arrives in between is not counted.                   *)
(* A socket has one reader (as in package.cpp:312).                        *)
(***************************************************************************)
EXTENDS Integers, Sequences

CONSTANTS
  Bytes,             \* what a byte may be
  TCP_BUFFER_SIZE,   \* bytes of the ring (4096)
  MAX_SEGMENT,       \* bytes of the longest segment
  MAX_READ           \* the largest size given to recv

ASSUME RingAssumption ==
  /\ TCP_BUFFER_SIZE \in Nat \ {0}
  /\ MAX_SEGMENT \in Nat \ {0}
  /\ MAX_READ \in Nat
  /\ 0 \in Bytes

VARIABLES
  established,   \* state is ESTABLISHED
  recv_buffer, recv_start, recv_end, recv_count,   \* the ring
  at,            \* how far the reader is in recv
  todo,          \* bytes_to_read
  loaded,        \* the register that holds recv_count
  buffer,        \* what the latest recv has copied to its caller
  missed         \* ghost: bytes arrived inside a subtraction and were missed

ring == <<recv_buffer, recv_start, recv_end, recv_count>>
ringVars == <<established, ring, at, todo, loaded, buffer, missed>>

Places   == 0 .. TCP_BUFFER_SIZE - 1
Counts   == 0 .. TCP_BUFFER_SIZE
Segments == UNION {[1 .. n -> Bytes] : n \in 1 .. MAX_SEGMENT}
Wrap(x)  == x % TCP_BUFFER_SIZE
AtMost(m, n) == IF m < n THEN m ELSE n

(* A connection that has just been established.                            *)
RingInit ==
  /\ established = TRUE
  /\ recv_buffer = [p \in Places |-> 0]
  /\ recv_start = 0 /\ recv_end = 0 /\ recv_count = 0
  /\ at = "idle" /\ todo = 0 /\ loaded = 0 /\ buffer = <<>>
  /\ missed = FALSE

-----------------------------------------------------------------------------
(* A ring that keeps one place empty.                                      *)
BytesToCopy_KeepGap(s) == AtMost(Len(s), TCP_BUFFER_SIZE - 1 - recv_count)

(* No look at the space that is left.                                      *)
BytesToCopy_All(s) == Len(s)

(* bytes_to_copy: the front of a segment, as much as there is space for.   *)
BytesToCopy(s) == AtMost(Len(s), TCP_BUFFER_SIZE - recv_count)

(* How far behind recv_end a place is.                                     *)
Offset(p) == Wrap(p - recv_end + TCP_BUFFER_SIZE)

(* handle_packet in state ESTABLISHED, without FIN.                        *)
Receive(s) ==
  /\ established
  /\ recv_buffer' = [p \in Places |-> IF Offset(p) < BytesToCopy(s)
                                      THEN s[Offset(p) + 1]
                                      ELSE recv_buffer[p]]
  /\ recv_end' = Wrap(recv_end + BytesToCopy(s))
  /\ recv_count' = recv_count + BytesToCopy(s)
  /\ missed' = (missed \/ (at = "store" /\ BytesToCopy(s) > 0))
  /\ UNCHANGED <<established, recv_start, at, todo, loaded, buffer>>

(* A FIN: the connection goes to LAST_ACK, whoever is reading.             *)
ReceiveFin ==
  /\ established
  /\ established' = FALSE
  /\ UNCHANGED <<ring, at, todo, loaded, buffer, missed>>

-----------------------------------------------------------------------------
(* recv up to the copy loop: -1 when not ESTABLISHED, 0 when there is      *)
(* nothing, else bytes_to_read is fixed.                                   *)
Recv(size) ==
  /\ at = "idle"
  /\ buffer' = <<>>
  /\ IF established /\ recv_count > 0
     THEN at' = "copy" /\ todo' = AtMost(size, recv_count)
     ELSE UNCHANGED <<at, todo>>
  /\ UNCHANGED <<established, ring, loaded, missed>>

(* One round of the copy loop.                                             *)
Copy ==
  /\ at = "copy"
  /\ Len(buffer) < todo
  /\ buffer' = Append(buffer, recv_buffer[recv_start])
  /\ recv_start' = Wrap(recv_start + 1)
  /\ UNCHANGED <<established, recv_buffer, recv_end, recv_count, at, todo,
                 loaded, missed>>

(* recv_count -= bytes_to_read: the load, and the store of the difference. *)
LoadCount ==
  /\ at = "copy"
  /\ Len(buffer) = todo
  /\ loaded' = recv_count
  /\ at' = "store"
  /\ UNCHANGED <<established, ring, todo, buffer, missed>>

(* recv_count set to zero: "all was read".                                 *)
StoreCount_Zero ==
  /\ at = "store"
  /\ recv_count' = 0
  /\ at' = "idle" /\ todo' = 0 /\ loaded' = 0
  /\ UNCHANGED <<established, recv_buffer, recv_start, recv_end, buffer, missed>>

StoreCount ==
  /\ at = "store"
  /\ recv_count' = loaded - todo
  /\ at' = "idle" /\ todo' = 0 /\ loaded' = 0
  /\ UNCHANGED <<established, recv_buffer, recv_start, recv_end, buffer, missed>>

RingNext ==
  \/ \E s \in Segments : Receive(s)
  \/ ReceiveFin
  \/ \E size \in 0 .. MAX_READ : Recv(size)
  \/ Copy \/ LoadCount \/ StoreCount

RingSpec == RingInit /\ [][RingNext]_ringVars

-----------------------------------------------------------------------------
(* Type correctness: no index leaves the ring and recv_count neither       *)
(* exceeds it nor falls below zero (tcp.cpp:260-267, 343-349), whatever    *)
(* the handler does between the accesses of recv.                          *)
RingTypeOK ==
  /\ established \in BOOLEAN
  /\ recv_buffer \in [Places -> Bytes]
  /\ recv_start \in Places /\ recv_end \in Places
  /\ recv_count \in Counts
  /\ at \in {"idle", "copy", "store"}
  /\ todo \in Counts
  /\ loaded \in Counts
  /\ buffer \in Seq(Bytes)
  /\ missed \in BOOLEAN

(* Bytes that were copied out and are still counted.                       *)
Out == IF at = "idle" THEN 0 ELSE Len(buffer)

Unread == [i \in 1 .. recv_count - Out |-> recv_buffer[Wrap(recv_start + i - 1)]]

Q == INSTANCE ByteQueue WITH CAPACITY <- TCP_BUFFER_SIZE,
                             queue <- Unread, got <- buffer,
                             reliable <- ~missed

(* The ring is a queue of bytes: recv returns what was accepted, in order, *)
(* once, whatever arrives in the middle of it, until the first bytes that  *)
(* arrive between the load and the store of recv_count -= bytes_to_read    *)
(* (tcp.cpp:349); those are missed, and the two ends disagree from then on.*)
(* "Proper buffer management for large data transfers" (tcp.hpp:54).       *)
ImplementsByteQueue == Q!Spec

(* What joins the queue is the front of the segment that arrived, all of   *)
(* it while there is space (tcp.cpp:260-267), even while a recv is copying,*)
(* up to the first bytes that a subtraction misses.                        *)
SegmentKept ==
  [][\A s \in Segments :
       Receive(s) /\ ~missed' =>
         LET n == AtMost(Len(s), TCP_BUFFER_SIZE - recv_count)
         IN  Unread' = Unread \o SubSeq(s, 1, n)]_ringVars
=============================================================================
