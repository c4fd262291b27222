------------------------------ MODULE ByteQueue ------------------------------
(***************************************************************************)
(* What the receiving side of a TCP connection promises to the application:*)
(* a bounded queue of bytes, and calls that take bytes off its front in    *)
(* order.  Once the queue is no longer reliable, it promises nothing.      *)
(***************************************************************************)
EXTENDS Integers, Sequences

CONSTANTS Bytes, CAPACITY

VARIABLES
  queue,   \* the bytes that arrived and were not taken
  got,     \* what the latest call has taken
  reliable

Init ==
  /\ queue = <<>>
  /\ got = <<>>
  /\ reliable = TRUE

(* Bytes join at the end; those that were there stay where they are.       *)
Put ==
  /\ queue' \in Seq(Bytes)
  /\ Len(queue) <= Len(queue') /\ Len(queue') <= CAPACITY
  /\ \A i \in 1 .. Len(queue) : queue'[i] = queue[i]
  /\ UNCHANGED got

Take ==
  /\ queue # <<>>
  /\ got' = Append(got, Head(queue))
  /\ queue' = Tail(queue)

(* A new call starts with nothing taken.                                   *)
Call ==
  /\ got' = <<>>
  /\ UNCHANGED queue

queueVars == <<queue, got, reliable>>

Next == reliable' = TRUE => reliable = TRUE /\ (Put \/ Take \/ Call)

Spec == Init /\ [][Next]_queueVars
=============================================================================
