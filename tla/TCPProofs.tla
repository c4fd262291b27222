----------------------------- MODULE TCPProofs ------------------------------
(***************************************************************************)
(* Proofs about TCP: ReceiveRing for every ring, set of bytes and size of  *)
(* segments and reads, and TCPConnections for every number of peers,       *)
(* connections and SYNs, every window and every size of a send.            *)
(***************************************************************************)
EXTENDS TCPConnections, ReceiveRing, SequenceTheorems, NaturalsInduction,
        WellFoundedInduction, TLAPS

(***************************************************************************)
(* The receive buffer of one connection.                                   *)
(***************************************************************************)

N == TCP_BUFFER_SIZE

(* Inside two turns of the ring the remainder is at most one subtraction.  *)
LEMMA WrapFold ==
  ASSUME NEW x \in 0 .. 2 * N - 1
  PROVE  /\ Wrap(x) = IF x < N THEN x ELSE x - N
         /\ Wrap(x) \in Places
<1>1. N \in Nat \ {0}
  BY RingAssumption DEF N
<1>2. CASE x < N
  BY <1>1, <1>2 DEF Wrap, Places, N
<1>3. CASE x >= N
  <2> DEFINE q == x \div N
             r == x % N
  <2>1. q \in Nat /\ r \in Nat /\ r < N /\ x = N * q + r
    BY <1>1
  <2>2. Wrap(x) = r
    BY DEF Wrap, N
  <2> HIDE DEF q, r
  <2>3. q = 1
    <3>1. q # 0
      BY <1>1, <1>3, <2>1
    <3>2. ~(q >= 2)
      <4> SUFFICES ASSUME q >= 2 PROVE FALSE
        OBVIOUS
      <4>1. N * q >= N * 2
        BY <1>1, <2>1
      <4>2. QED
        BY <1>1, <2>1, <4>1
    <3>3. QED
      BY <2>1, <3>1, <3>2
  <2>4. QED
    BY <1>1, <1>3, <2>1, <2>2, <2>3 DEF Places, N
<1>4. QED
  BY <1>1, <1>2, <1>3

-----------------------------------------------------------------------------
(* The reader never asks for more than is counted.                         *)
ReadInv ==
  /\ at = "copy" => todo <= recv_count
  /\ at = "store" => todo <= loaded

TInv == RingTypeOK /\ ReadInv

LEMMA ElementOfSegment ==
  ASSUME NEW s \in Segments, NEW i \in 1 .. Len(s)
  PROVE  s[i] \in Bytes
<1>1. PICK n \in 1 .. MAX_SEGMENT : s \in [1 .. n -> Bytes]
  BY DEF Segments
<1>2. n \in Nat
  BY RingAssumption
<1>3. Len(s) = n
  BY <1>1, <1>2
<1>4. QED
  BY <1>1, <1>3

LEMMA SegmentLength ==
  ASSUME NEW s \in Segments
  PROVE  Len(s) \in Nat
<1>1. PICK n \in 1 .. MAX_SEGMENT : s \in [1 .. n -> Bytes]
  BY DEF Segments
<1>2. QED
  BY <1>1, RingAssumption

(* What a segment does to the ring, without remainders.                    *)
LEMMA BytesToCopyBounds ==
  ASSUME RingTypeOK, NEW s \in Segments
  PROVE  /\ BytesToCopy(s) \in Nat
         /\ BytesToCopy(s) <= Len(s) /\ BytesToCopy(s) <= N - recv_count
<1>1. Len(s) \in Nat /\ N \in Nat /\ recv_count \in 0 .. N
  BY SegmentLength, RingAssumption DEF RingTypeOK, Counts, N
<1>2. QED
  BY <1>1 DEF BytesToCopy, AtMost, N

LEMMA OffsetIs ==
  ASSUME RingTypeOK, NEW p \in Places
  PROVE  Offset(p) = IF p < recv_end THEN p - recv_end + N ELSE p - recv_end
<1>1. N \in Nat \ {0} /\ recv_end \in 0 .. N - 1 /\ p \in 0 .. N - 1
  BY RingAssumption DEF RingTypeOK, Places, N
<1>2. p - recv_end + N \in 0 .. 2 * N - 1
  BY <1>1
<1>3. Offset(p) = Wrap(p - recv_end + N)
  BY DEF Offset, N
<1>4. QED
  BY <1>1, <1>2, <1>3, WrapFold

LEMMA ReceiveTypes ==
  ASSUME TInv, NEW s \in Segments, Receive(s)
  PROVE  TInv'
<1>1. /\ N \in Nat \ {0} /\ recv_end \in 0 .. N - 1 /\ recv_count \in 0 .. N
      /\ recv_buffer \in [Places -> Bytes]
  BY RingAssumption DEF TInv, RingTypeOK, Places, Counts, N
<1>2. /\ BytesToCopy(s) \in Nat
      /\ BytesToCopy(s) <= Len(s) /\ BytesToCopy(s) <= N - recv_count
      /\ Len(s) \in Nat
  BY BytesToCopyBounds, SegmentLength DEF TInv
<1>3. recv_buffer' \in [Places -> Bytes]
  <2>1. ASSUME NEW p \in Places, Offset(p) < BytesToCopy(s)
        PROVE  s[Offset(p) + 1] \in Bytes
    <3>1. Offset(p) \in Nat
      BY <1>1, OffsetIs DEF TInv, Places, N
    <3>2. Offset(p) + 1 \in 1 .. Len(s)
      BY <1>2, <2>1, <3>1
    <3>3. QED
      BY <3>2, ElementOfSegment
  <2>2. QED
    BY <1>1, <2>1 DEF Receive
<1>4. recv_end' \in Places
  <2>1. recv_end + BytesToCopy(s) \in 0 .. 2 * N - 1
    BY <1>1, <1>2
  <2>2. QED
    BY <2>1, WrapFold DEF Receive
<1>5. recv_count' \in Counts /\ recv_count' >= recv_count
  BY <1>1, <1>2 DEF Receive, Counts, N
<1>6. UNCHANGED <<established, recv_start, at, todo, loaded, buffer>> /\ missed' \in BOOLEAN
  <2>1. missed \in BOOLEAN
    BY DEF TInv, RingTypeOK
  <2>2. missed' = (missed \/ (at = "store" /\ BytesToCopy(s) > 0))
    BY DEF Receive
  <2>3. (missed \/ (at = "store" /\ BytesToCopy(s) > 0)) \in BOOLEAN
    BY <2>1
  <2>4. missed' \in BOOLEAN
    BY <2>2, <2>3, Zenon
  <2>5. QED
    BY <2>4 DEF Receive
<1>7. todo \in Nat /\ recv_count' \in Nat
  BY <1>5, <1>1 DEF TInv, RingTypeOK, Counts, N
<1>8. QED
  BY <1>1, <1>3, <1>4, <1>5, <1>6, <1>7 DEF TInv, RingTypeOK, ReadInv

LEMMA CopyTypes ==
  ASSUME TInv, Copy
  PROVE  TInv'
<1>1. N \in Nat \ {0} /\ recv_start \in 0 .. N - 1
  BY RingAssumption DEF TInv, RingTypeOK, Places, N
<1>2. recv_start + 1 \in 0 .. 2 * N - 1
  BY <1>1
<1>3. recv_start' \in Places
  BY <1>2, WrapFold DEF Copy
<1>4. recv_buffer[recv_start] \in Bytes
  BY DEF TInv, RingTypeOK
<1>5. buffer' \in Seq(Bytes)
  BY <1>4 DEF TInv, RingTypeOK, Copy
<1>6. QED
  BY <1>3, <1>5 DEF TInv, RingTypeOK, ReadInv, Copy

LEMMA TInvHolds == RingSpec => []TInv
<1>1. RingInit => TInv
  <2> SUFFICES ASSUME RingInit PROVE TInv
    OBVIOUS
  <2>1. TCP_BUFFER_SIZE \in Nat \ {0} /\ 0 \in Bytes
    BY RingAssumption
  <2>2. established \in BOOLEAN /\ missed \in BOOLEAN
    BY Zenon DEF RingInit
  <2>3. QED
    BY <2>1, <2>2 DEF RingInit, TInv, RingTypeOK, ReadInv, Places, Counts
<1>2. TInv /\ [RingNext]_ringVars => TInv'
  <2> SUFFICES ASSUME TInv, [RingNext]_ringVars PROVE TInv'
    OBVIOUS
  <2>1. N \in Nat \ {0} /\ recv_count \in 0 .. N /\ loaded \in 0 .. N
        /\ todo \in 0 .. N /\ Counts = 0 .. N
    BY RingAssumption DEF TInv, RingTypeOK, Counts, N
  <2>2. ASSUME NEW s \in Segments, Receive(s) PROVE TInv'
    BY <2>2, ReceiveTypes
  <2>3. CASE ReceiveFin
    BY <2>3 DEF TInv, RingTypeOK, ReadInv, ReceiveFin, ring
  <2>4. ASSUME NEW size \in 0 .. MAX_READ, Recv(size) PROVE TInv'
    <3>1. AtMost(size, recv_count) \in 0 .. N
          /\ AtMost(size, recv_count) <= recv_count
      BY <2>1, RingAssumption DEF AtMost
    <3>2. buffer' \in Seq(Bytes)
      BY <2>4 DEF Recv
    <3>3. UNCHANGED <<established, ring, loaded, missed>>
      BY <2>4 DEF Recv
    <3>4. CASE established /\ recv_count > 0
      BY <2>1, <2>4, <3>1, <3>2, <3>3, <3>4
      DEF TInv, RingTypeOK, ReadInv, Recv, ring
    <3>5. CASE ~(established /\ recv_count > 0)
      BY <2>4, <3>2, <3>3, <3>5 DEF TInv, RingTypeOK, ReadInv, Recv, ring
    <3>6. QED
      BY <3>4, <3>5
  <2>5. CASE Copy
    BY <2>5, CopyTypes
  <2>6. CASE LoadCount
    BY <2>1, <2>6 DEF TInv, RingTypeOK, ReadInv, LoadCount, ring
  <2>7. CASE StoreCount
    <3>1. loaded - todo \in 0 .. N
      BY <2>1, <2>7 DEF TInv, ReadInv, StoreCount
    <3>2. QED
      BY <2>1, <2>7, <3>1 DEF TInv, RingTypeOK, ReadInv, StoreCount
  <2>8. CASE UNCHANGED ringVars
    BY <2>8 DEF TInv, RingTypeOK, ReadInv, ringVars, ring
  <2>9. QED
    BY <2>2, <2>3, <2>4, <2>5, <2>6, <2>7, <2>8 DEF RingNext
<1>3. QED
  BY <1>1, <1>2, PTL DEF RingSpec

(* No index leaves the ring, and recv_count never passes the size of the   *)
(* ring nor falls below zero (tcp.cpp:260-267, 343-349), even when a       *)
(* segment arrives inside the subtraction.                                 *)
THEOREM RingIsTyped == RingSpec => []RingTypeOK
<1>1. TInv => RingTypeOK
  BY DEF TInv
<1>2. QED
  BY TInvHolds, <1>1, PTL

-----------------------------------------------------------------------------
(* While no bytes arrived inside the subtraction, recv_end is where the    *)
(* bytes that were accepted and not yet copied end.                        *)
RingInv ==
  /\ TInv
  /\ ~missed
  /\ at = "copy" => Len(buffer) <= todo
  /\ at = "store" => Len(buffer) = todo /\ loaded = recv_count
  /\ recv_end = Wrap(recv_start + (recv_count - Out))

(* The same facts as linear arithmetic.                                    *)
LEMMA RingFacts ==
  ASSUME RingInv
  PROVE  /\ N \in Nat \ {0} /\ Places = 0 .. N - 1 /\ Counts = 0 .. N
         /\ recv_start \in 0 .. N - 1 /\ recv_end \in 0 .. N - 1
         /\ recv_count \in 0 .. N /\ todo \in 0 .. N /\ loaded \in 0 .. N
         /\ Out \in Nat /\ Out <= recv_count
         /\ recv_buffer \in [Places -> Bytes] /\ buffer \in Seq(Bytes)
         /\ recv_end = IF recv_start + (recv_count - Out) < N
                       THEN recv_start + (recv_count - Out)
                       ELSE recv_start + (recv_count - Out) - N
<1>1. /\ N \in Nat \ {0} /\ Places = 0 .. N - 1 /\ Counts = 0 .. N
      /\ recv_start \in 0 .. N - 1 /\ recv_end \in 0 .. N - 1
      /\ recv_count \in 0 .. N /\ todo \in 0 .. N /\ loaded \in 0 .. N
      /\ recv_buffer \in [Places -> Bytes] /\ buffer \in Seq(Bytes)
  BY RingAssumption DEF RingInv, TInv, RingTypeOK, Places, Counts, N
<1>2. Len(buffer) \in Nat
  BY <1>1
<1>3. Out \in Nat /\ Out <= recv_count
  BY <1>1, <1>2 DEF RingInv, TInv, RingTypeOK, ReadInv, Out
<1>4. recv_start + (recv_count - Out) \in 0 .. 2 * N - 1
  BY <1>1, <1>3
<1>5. QED
  BY <1>1, <1>3, <1>4, WrapFold DEF RingInv

(* The place where the i-th unread byte is.                                *)
PlaceOf(i) == Wrap(recv_start + i - 1)

LEMMA PlaceIs ==
  ASSUME RingInv, NEW i \in 1 .. recv_count - Out
  PROVE  /\ PlaceOf(i) = IF recv_start + i - 1 < N THEN recv_start + i - 1
                                                   ELSE recv_start + i - 1 - N
         /\ PlaceOf(i) \in Places
<1> DEFINE x == recv_start + i - 1
<1>1. x \in 0 .. 2 * N - 1
  <2>1. /\ recv_start \in 0 .. N - 1 /\ N \in Nat \ {0}
        /\ recv_count \in 0 .. N /\ Out \in Nat
    BY RingFacts
  <2>2. i \in Int /\ 1 <= i /\ i <= N
    BY <2>1
  <2>3. QED
    BY <2>1, <2>2
<1> HIDE DEF x
<1>2. /\ Wrap(x) = IF x < N THEN x ELSE x - N
      /\ Wrap(x) \in Places
  BY <1>1, WrapFold
<1>3. PlaceOf(i) = Wrap(x)
  BY DEF PlaceOf, x
<1>4. /\ PlaceOf(i) = IF x < N THEN x ELSE x - N
      /\ PlaceOf(i) \in Places
  BY <1>2, <1>3
<1>5. recv_start \in Int /\ N \in Int /\ i \in Int
  BY RingFacts
<1>6. QED
  BY <1>4, <1>5 DEF x

UnreadFacts ==
  /\ Unread \in Seq(Bytes)
  /\ Len(Unread) = recv_count - Out
  /\ \A i \in 1 .. recv_count - Out : Unread[i] = recv_buffer[PlaceOf(i)]

LEMMA UnreadIs == RingInv => UnreadFacts
<1> SUFFICES ASSUME RingInv PROVE UnreadFacts
  OBVIOUS
<1>1. recv_count - Out \in Nat
  BY RingFacts
<1>2. \A i \in 1 .. recv_count - Out : recv_buffer[PlaceOf(i)] \in Bytes
  BY PlaceIs, RingFacts
<1>3. Unread = [i \in 1 .. recv_count - Out |-> recv_buffer[PlaceOf(i)]]
  BY DEF Unread, PlaceOf
<1> HIDE DEF Unread
<1>4. QED
  BY <1>1, <1>2, <1>3 DEF UnreadFacts

-----------------------------------------------------------------------------
(* A segment goes to the places behind recv_end, which no unread byte      *)
(* occupies.                                                               *)
LEMMA ReceiveLeavesUnread ==
  ASSUME RingInv, NEW s \in Segments, Receive(s),
         NEW i \in 1 .. recv_count - Out
  PROVE  recv_buffer'[PlaceOf(i)] = recv_buffer[PlaceOf(i)]
<1> DEFINE p == PlaceOf(i)
<1>1. p \in Places
  BY PlaceIs
<1>2. /\ N \in Nat \ {0} /\ recv_start \in 0 .. N - 1
      /\ recv_end \in 0 .. N - 1 /\ recv_count \in 0 .. N
      /\ Out \in Nat /\ Out <= recv_count
      /\ recv_end = IF recv_start + (recv_count - Out) < N
                    THEN recv_start + (recv_count - Out)
                    ELSE recv_start + (recv_count - Out) - N
  BY RingFacts
<1>3. p = IF recv_start + i - 1 < N THEN recv_start + i - 1
                                    ELSE recv_start + i - 1 - N
  BY PlaceIs
<1>4. Offset(p) = IF p < recv_end THEN p - recv_end + N ELSE p - recv_end
  BY <1>1, OffsetIs DEF RingInv, TInv
<1>5. BytesToCopy(s) \in Nat /\ BytesToCopy(s) <= N - recv_count
  BY BytesToCopyBounds DEF RingInv, TInv
<1> HIDE DEF p
<1>6. ~(Offset(p) < BytesToCopy(s))
  BY <1>2, <1>3, <1>4, <1>5
<1>7. recv_buffer'[p] = recv_buffer[p]
  BY <1>1, <1>6 DEF Receive
<1>8. QED
  BY <1>7 DEF p

LEMMA ReceiveRingInv ==
  ASSUME RingInv, NEW s \in Segments, Receive(s), ~missed'
  PROVE  RingInv' /\ Out' = Out
<1>1. TInv'
  BY ReceiveTypes DEF RingInv
<1>2. Out' = Out
  BY DEF Out, Receive
<1>3. /\ N \in Nat \ {0} /\ recv_start \in 0 .. N - 1
      /\ recv_end \in 0 .. N - 1 /\ recv_count \in 0 .. N
      /\ Out \in Nat /\ Out <= recv_count
      /\ recv_end = IF recv_start + (recv_count - Out) < N
                    THEN recv_start + (recv_count - Out)
                    ELSE recv_start + (recv_count - Out) - N
  BY RingFacts
<1>4. BytesToCopy(s) \in Nat /\ BytesToCopy(s) <= N - recv_count
  BY BytesToCopyBounds DEF RingInv, TInv
<1>5. /\ recv_end + BytesToCopy(s) \in 0 .. 2 * N - 1
      /\ recv_start + (recv_count + BytesToCopy(s) - Out) \in 0 .. 2 * N - 1
  BY <1>3, <1>4
<1>6. Wrap(recv_end + BytesToCopy(s))
        = Wrap(recv_start + (recv_count + BytesToCopy(s) - Out))
  BY <1>3, <1>4, <1>5, WrapFold
<1>7. /\ UNCHANGED <<recv_start, at, todo, loaded, buffer>>
      /\ at = "store" => recv_count' = recv_count
  <2>1. ~(at = "store" /\ BytesToCopy(s) > 0)
    BY Zenon DEF Receive
  <2>2. UNCHANGED <<recv_start, at, todo, loaded, buffer>>
        /\ recv_count' = recv_count + BytesToCopy(s)
    BY DEF Receive
  <2>3. QED
    BY <1>3, <1>4, <2>1, <2>2
<1>8. recv_start' + (recv_count' - Out')
        = recv_start + (recv_count + BytesToCopy(s) - Out)
  BY <1>2, <1>3, <1>4, <1>7 DEF Receive
<1>9. recv_end' = Wrap(recv_start' + (recv_count' - Out'))
  BY <1>6, <1>8 DEF Receive
<1>10. QED
  BY <1>1, <1>2, <1>7, <1>9 DEF RingInv

LEMMA ReceivePuts ==
  ASSUME RingInv, NEW s \in Segments, Receive(s), ~missed'
  PROVE  Q!Put
<1>1. RingInv' /\ Out' = Out
  BY ReceiveRingInv
<1>2. /\ Unread \in Seq(Bytes) /\ Len(Unread) = recv_count - Out
      /\ \A i \in 1 .. recv_count - Out : Unread[i] = recv_buffer[PlaceOf(i)]
  BY UnreadIs DEF UnreadFacts
<1>3. /\ Unread' \in Seq(Bytes) /\ Len(Unread') = recv_count' - Out'
      /\ \A i \in 1 .. recv_count' - Out' :
           Unread'[i] = recv_buffer'[PlaceOf(i)']
  <2>1. RingInv' => UnreadFacts'
    BY UnreadIs, PTL
  <2>2. QED
    BY <1>1, <2>1 DEF UnreadFacts
<1>4. /\ recv_count \in 0 .. N /\ recv_count' \in 0 .. N /\ N \in Nat
      /\ Out \in Nat /\ Out <= recv_count
  BY <1>1, RingFacts DEF RingInv, TInv, RingTypeOK, Counts, N
<1>5. recv_count' >= recv_count
  BY <1>4, BytesToCopyBounds DEF Receive, RingInv, TInv
<1>6. \A i \in 1 .. Len(Unread) : Unread'[i] = Unread[i]
  <2> SUFFICES ASSUME NEW i \in 1 .. recv_count - Out
               PROVE  Unread'[i] = Unread[i]
    BY <1>2
  <2>1. i \in 1 .. recv_count' - Out'
    <3>1. recv_count' - Out' = recv_count' - Out
      BY <1>1
    <3>2. i \in 1 .. recv_count' - Out
      <4> DEFINE c == recv_count'
      <4>1. c \in Int /\ recv_count \in Int /\ Out \in Int /\ recv_count <= c
        BY <1>4, <1>5
      <4> HIDE DEF c
      <4>2. i \in 1 .. c - Out
        BY <4>1
      <4>3. QED
        BY <4>2 DEF c
    <3>3. QED
      BY <3>1, <3>2
  <2>2. PlaceOf(i)' = PlaceOf(i)
    BY DEF PlaceOf, Receive
  <2>3. recv_buffer'[PlaceOf(i)] = recv_buffer[PlaceOf(i)]
    BY ReceiveLeavesUnread
  <2>4. QED
    BY <1>2, <1>3, <2>1, <2>2, <2>3
<1>7. UNCHANGED buffer
  BY DEF Receive
<1> HIDE DEF Unread
<1>8. Len(Unread) <= Len(Unread') /\ Len(Unread') <= N
  <2> DEFINE c == recv_count'
             u == Len(Unread)
             v == Len(Unread')
  <2>1. c \in 0 .. N /\ recv_count \in 0 .. N /\ recv_count <= c /\ N \in Nat
        /\ Out \in Nat
    BY <1>4, <1>5
  <2>2. u = recv_count - Out
    BY <1>2
  <2>3. v = c - Out
    BY <1>1, <1>3
  <2> HIDE DEF c, u, v
  <2>4. u <= v /\ v <= N
    BY <2>1, <2>2, <2>3
  <2>5. QED
    BY <2>4 DEF u, v
<1>9. QED
  BY <1>3, <1>6, <1>7, <1>8 DEF Q!Put, N

(* A round of the copy loop takes the first unread byte.                   *)
LEMMA CopyTakes ==
  ASSUME RingInv, Copy
  PROVE  RingInv' /\ Q!Take
<1>1. TInv'
  BY CopyTypes DEF RingInv
<1>2. /\ N \in Nat \ {0} /\ recv_start \in 0 .. N - 1
      /\ recv_count \in 0 .. N /\ todo \in 0 .. N
      /\ buffer \in Seq(Bytes) /\ recv_buffer \in [Places -> Bytes]
      /\ recv_end = IF recv_start + (recv_count - Out) < N
                    THEN recv_start + (recv_count - Out)
                    ELSE recv_start + (recv_count - Out) - N
  BY RingFacts
<1>3. /\ at = "copy" /\ UNCHANGED <<recv_buffer, recv_end, recv_count, at, todo, loaded, missed>>
      /\ recv_start' = Wrap(recv_start + 1)
      /\ buffer' = Append(buffer, recv_buffer[recv_start])
      /\ Len(buffer) < todo
  BY DEF Copy
<1>4. Len(buffer) \in Nat /\ Len(buffer') = Len(buffer) + 1
  BY <1>2, <1>3
<1>5. Out = Len(buffer) /\ Out' = Out + 1 /\ Out \in Nat
  BY <1>3, <1>4 DEF Out
<1>6. todo <= recv_count
  BY <1>3 DEF RingInv, TInv, ReadInv
<1>7. Out < recv_count
  BY <1>2, <1>3, <1>5, <1>6
<1>8. recv_start' = IF recv_start + 1 < N THEN recv_start + 1 ELSE 0
  <2> DEFINE x == recv_start + 1
  <2>1. x \in 0 .. 2 * N - 1 /\ recv_start' = Wrap(x)
    BY <1>2, <1>3
  <2> HIDE DEF x
  <2>2. recv_start' = IF x < N THEN x ELSE x - N
    BY <2>1, WrapFold
  <2>3. QED
    BY <1>2, <2>2 DEF x
<1>9. RingInv'
  <2> DEFINE x == recv_start' + (recv_count' - Out')
  <2>1. x \in 0 .. 2 * N - 1
    BY <1>2, <1>3, <1>5, <1>7, <1>8
  <2>2. recv_end' = IF x < N THEN x ELSE x - N
    <3>1. N \in Nat \ {0} /\ recv_start \in 0 .. N - 1 /\ recv_count \in 0 .. N
          /\ Out \in Nat /\ Out < recv_count
      BY <1>2, <1>5, <1>7
    <3>2. recv_end' = IF recv_start + (recv_count - Out) < N
                      THEN recv_start + (recv_count - Out)
                      ELSE recv_start + (recv_count - Out) - N
      BY <1>2, <1>3
    <3>3. x = recv_start' + (recv_count - (Out + 1))
      BY <1>3, <1>5
    <3> HIDE DEF x
    <3>4. CASE recv_start + 1 < N
      BY <1>8, <3>1, <3>2, <3>3, <3>4
    <3>5. CASE ~(recv_start + 1 < N)
      BY <1>8, <3>1, <3>2, <3>3, <3>5
    <3>6. QED
      BY <3>4, <3>5
  <2> HIDE DEF x
  <2>3. recv_end' = Wrap(x)
    BY <2>1, <2>2, WrapFold
  <2>4. at' = "copy" /\ Len(buffer') <= todo'
    BY <1>2, <1>3, <1>4
  <2>5. QED
    BY <1>1, <1>3, <2>3, <2>4 DEF RingInv, x
<1>10. /\ Unread \in Seq(Bytes) /\ Len(Unread) = recv_count - Out
       /\ \A i \in 1 .. recv_count - Out : Unread[i] = recv_buffer[PlaceOf(i)]
  BY UnreadIs DEF UnreadFacts
<1>11. /\ Unread' \in Seq(Bytes) /\ Len(Unread') = recv_count' - Out'
       /\ \A i \in 1 .. recv_count' - Out' :
            Unread'[i] = recv_buffer'[PlaceOf(i)']
  <2>1. RingInv' => UnreadFacts'
    BY UnreadIs, PTL
  <2>2. QED
    BY <1>9, <2>1 DEF UnreadFacts
<1>12. \A i \in 1 .. recv_count - Out - 1 : Unread'[i] = Unread[i + 1]
  <2> SUFFICES ASSUME NEW i \in 1 .. recv_count - Out - 1
               PROVE  Unread'[i] = Unread[i + 1]
    OBVIOUS
  <2>1. i \in 1 .. recv_count' - Out' /\ i + 1 \in 1 .. recv_count - Out
    BY <1>2, <1>3, <1>5
  <2>2. PlaceOf(i + 1) = IF recv_start + i < N THEN recv_start + i
                                              ELSE recv_start + i - N
    BY <1>2, <2>1, PlaceIs
  <2> DEFINE x == recv_start' + i - 1
  <2>3. PlaceOf(i)' = Wrap(x)
    BY DEF PlaceOf
  <2>4. x \in 0 .. 2 * N - 1
    BY <1>2, <1>5, <1>8
  <2> HIDE DEF x
  <2>5. PlaceOf(i)' = IF x < N THEN x ELSE x - N
    BY <2>3, <2>4, WrapFold
  <2>6. PlaceOf(i)' = PlaceOf(i + 1)
    BY <1>2, <1>5, <1>8, <2>2, <2>5 DEF x
  <2>7. QED
    BY <1>3, <1>10, <1>11, <2>1, <2>6
<1>13. Unread[1] = recv_buffer[recv_start]
  <2>1. 1 \in 1 .. recv_count - Out
    BY <1>2, <1>5, <1>7
  <2>2. PlaceOf(1) = recv_start
    BY <1>2, <2>1, PlaceIs
  <2>3. QED
    BY <1>10, <2>1, <2>2
<1> HIDE DEF Unread
<1>14. Len(Unread) >= 1 /\ Len(Unread') = Len(Unread) - 1 /\ Len(Unread) \in Nat
  BY <1>2, <1>3, <1>5, <1>7, <1>10, <1>11, SMTT(30)
<1>15. Unread # <<>> /\ Head(Unread) = Unread[1]
  BY <1>10, <1>14
<1>16. Unread' = Tail(Unread)
  <2>1. /\ Tail(Unread) \in Seq(Bytes) /\ Len(Tail(Unread)) = Len(Unread) - 1
        /\ \A i \in 1 .. Len(Unread) - 1 : Tail(Unread)[i] = Unread[i + 1]
    BY <1>10, <1>14, <1>15
  <2>2. \A i \in 1 .. Len(Unread) - 1 : Unread'[i] = Tail(Unread)[i]
    BY <1>10, <1>12, <2>1
  <2>3. QED
    BY <1>11, <1>14, <2>1, <2>2
<1>17. QED
  BY <1>3, <1>9, <1>13, <1>15, <1>16 DEF Q!Take

-----------------------------------------------------------------------------
LEMMA RecvCalls ==
  ASSUME RingInv, NEW size \in 0 .. MAX_READ, Recv(size)
  PROVE  RingInv' /\ TInv' /\ Q!Call
<1>1. /\ recv_count \in 0 .. N /\ size \in Nat /\ N \in Nat
      /\ at = "idle" /\ buffer' = <<>> /\ UNCHANGED <<established, ring, loaded, missed>>
  BY RingFacts, RingAssumption DEF Recv
<1>2. Out = 0 /\ Out' = 0
  BY <1>1 DEF Out
<1>3. TInv'
  <2>1. AtMost(size, recv_count) \in 0 .. N
        /\ AtMost(size, recv_count) <= recv_count
    BY <1>1 DEF AtMost
  <2>2. Counts = 0 .. N
    BY DEF Counts, N
  <2>3. CASE established /\ recv_count > 0
    BY <1>1, <2>1, <2>2, <2>3 DEF RingInv, TInv, RingTypeOK, ReadInv, Recv, ring
  <2>4. CASE ~(established /\ recv_count > 0)
    BY <1>1, <2>4 DEF RingInv, TInv, RingTypeOK, ReadInv, Recv, ring
  <2>5. QED
    BY <2>3, <2>4
<1>4. recv_end' = Wrap(recv_start' + (recv_count' - Out'))
  BY <1>1, <1>2 DEF RingInv, ring
<1>5. at' = "copy" => Len(buffer') <= todo'
  <2>1. CASE established /\ recv_count > 0
    <3>1. todo' \in Nat
      BY <1>1, <2>1 DEF Recv, AtMost
    <3>2. QED
      BY <1>1, <3>1
  <2>2. CASE ~(established /\ recv_count > 0)
    BY <1>1, <2>2 DEF Recv
  <2>3. QED
    BY <2>1, <2>2
<1>6. at' # "store"
  BY <1>1 DEF Recv
<1>7. UNCHANGED Unread
  <2>1. recv_count' - Out' = recv_count - Out
    BY <1>1, <1>2 DEF ring
  <2>2. UNCHANGED <<recv_buffer, recv_start>>
    BY <1>1 DEF ring
  <2>3. QED
    BY <2>1, <2>2 DEF Unread
<1>8. QED
  BY <1>1, <1>3, <1>4, <1>5, <1>6, <1>7 DEF RingInv, Q!Call

(* The two accesses of the subtraction change nothing that the queue sees. *)
LEMMA SubtractStutters ==
  ASSUME RingInv, LoadCount \/ StoreCount \/ ReceiveFin \/ UNCHANGED ringVars
  PROVE  RingInv' /\ UNCHANGED <<Unread, buffer, missed>>
<1>1. /\ recv_count \in 0 .. N /\ todo \in 0 .. N /\ loaded \in 0 .. N
      /\ N \in Nat /\ Counts = 0 .. N
  BY RingFacts
<1>2. CASE LoadCount
  <2>1. UNCHANGED <<established, ring, todo, buffer, missed>> /\ at = "copy"
        /\ at' = "store" /\ loaded' = recv_count /\ Len(buffer) = todo
    BY <1>2 DEF LoadCount
  <2>2. Out' = Out
    BY <2>1 DEF Out
  <2>3. TInv'
    BY <1>1, <2>1 DEF RingInv, TInv, RingTypeOK, ReadInv, ring
  <2>4. RingInv'
    BY <2>1, <2>2, <2>3 DEF RingInv, ring
  <2>5. QED
    BY <2>1, <2>2, <2>4 DEF Unread, ring
<1>3. CASE StoreCount
  <2>1. /\ UNCHANGED <<established, recv_buffer, recv_start, recv_end, buffer, missed>>
        /\ at = "store" /\ at' = "idle" /\ todo' = 0 /\ loaded' = 0
        /\ recv_count' = loaded - todo
    BY <1>3 DEF StoreCount
  <2>2. loaded = recv_count /\ Len(buffer) = todo /\ todo <= loaded
    BY <2>1 DEF RingInv, TInv, ReadInv
  <2>3. Out = todo /\ Out' = 0
    BY <2>1, <2>2 DEF Out
  <2>4. recv_count' - Out' = recv_count - Out /\ recv_count' \in 0 .. N
    BY <1>1, <2>1, <2>2, <2>3
  <2>5. TInv'
    BY <1>1, <2>1, <2>4 DEF RingInv, TInv, RingTypeOK, ReadInv
  <2>6. recv_end' = Wrap(recv_start' + (recv_count' - Out'))
    BY <2>1, <2>4 DEF RingInv
  <2>7. RingInv'
    BY <2>1, <2>5, <2>6 DEF RingInv
  <2>8. UNCHANGED Unread
    BY <2>1, <2>4 DEF Unread
  <2>9. QED
    BY <2>1, <2>7, <2>8
<1>4. CASE ReceiveFin
  <2>1. UNCHANGED <<ring, at, todo, loaded, buffer, missed>> /\ established' = FALSE
    BY <1>4 DEF ReceiveFin
  <2>2. Out' = Out
    BY <2>1 DEF Out
  <2>3. QED
    BY <2>1, <2>2 DEF RingInv, TInv, RingTypeOK, ReadInv, ring, Unread
<1>5. CASE UNCHANGED ringVars
  <2>1. Out' = Out
    BY <1>5 DEF Out, ringVars
  <2>2. QED
    BY <1>5, <2>1 DEF RingInv, TInv, RingTypeOK, ReadInv, ringVars, ring, Unread
<1>6. QED
  BY <1>2, <1>3, <1>4, <1>5

(* An empty ring is an empty queue.                                        *)
LEMMA InitMaps == RingInit => RingInv /\ Q!Init
<1> SUFFICES ASSUME RingInit PROVE RingInv /\ Q!Init
  OBVIOUS
<1>1. TCP_BUFFER_SIZE \in Nat \ {0} /\ 0 \in Bytes
  BY RingAssumption
<1>2. TInv
  <2>1. established \in BOOLEAN /\ missed \in BOOLEAN
    BY Zenon DEF RingInit
  <2>2. QED
    BY <1>1, <2>1 DEF RingInit, TInv, RingTypeOK, ReadInv, Places, Counts
<1>3. Out = 0 /\ recv_count = 0 /\ recv_start = 0 /\ recv_end = 0
      /\ at = "idle" /\ buffer = <<>> /\ missed = FALSE
  BY DEF RingInit, Out
<1>4. Wrap(0) = 0
  BY <1>1, WrapFold DEF N
<1>5. RingInv
  BY <1>2, <1>3, <1>4 DEF RingInv
<1>6. Unread = <<>>
  <2>1. Unread \in Seq(Bytes) /\ Len(Unread) = 0
    BY <1>3, <1>5, UnreadIs DEF UnreadFacts
  <2> HIDE DEF Unread
  <2>2. QED
    BY <2>1
<1>7. (~missed) = TRUE
  BY <1>3
<1>8. QED
  BY <1>3, <1>5, <1>6, <1>7 DEF Q!Init

(* Until bytes are missed, every step of the two sides is one of the queue,*)
(* or none.                                                                *)
UntilMissed == ~missed => RingInv

LEMMA StepMaps ==
  ASSUME UntilMissed, [RingNext]_ringVars
  PROVE  UntilMissed' /\ [Q!Next]_(Q!queueVars)
<1>0. missed => missed'
  BY DEF RingNext, Receive, ReceiveFin, Recv, Copy, LoadCount, StoreCount, ringVars
<1>1. CASE missed'
  BY <1>1 DEF UntilMissed, Q!Next
<1>2. CASE ~missed'
  <2>1. RingInv
    BY <1>0, <1>2 DEF UntilMissed
  <2>2. (Q!Put \/ Q!Take \/ Q!Call) => Q!Next
    <3>1. (~missed) = TRUE
      BY <1>0, <1>2
    <3>2. QED
      BY <3>1 DEF Q!Next
  <2>3. ASSUME NEW s \in Segments, Receive(s)
        PROVE  RingInv' /\ Q!Next
    BY <1>2, <2>1, <2>2, <2>3, ReceiveRingInv, ReceivePuts
  <2>4. ASSUME NEW size \in 0 .. MAX_READ, Recv(size)
        PROVE  RingInv' /\ Q!Next
    BY <2>1, <2>2, <2>4, RecvCalls
  <2>5. CASE Copy
    BY <2>1, <2>2, <2>5, CopyTakes DEF UntilMissed
  <2>6. CASE LoadCount \/ StoreCount \/ ReceiveFin \/ UNCHANGED ringVars
    <3>1. RingInv' /\ UNCHANGED <<Unread, buffer, missed>>
      BY <2>1, <2>6, SubtractStutters
    <3>2. UNCHANGED <<Unread, buffer>> /\ ((~missed') = (~missed))
      BY <3>1
    <3>3. UNCHANGED Q!queueVars
      BY <3>2, Zenon DEF Q!queueVars
    <3>4. QED
      BY <3>1, <3>3 DEF UntilMissed
  <2>7. QED
    BY <2>3, <2>4, <2>5, <2>6 DEF RingNext, UntilMissed
<1>3. QED
  BY <1>1, <1>2

(* The receive ring is a bounded queue of bytes, read in order, until      *)
(* bytes arrive between the load and the store of recv_count -=            *)
(* bytes_to_read (tcp.cpp:349).                                            *)
THEOREM RingIsByteQueue == RingSpec => ImplementsByteQueue
<1>1. RingInit => UntilMissed /\ Q!Init
  BY InitMaps DEF UntilMissed
<1>2. UntilMissed /\ [RingNext]_ringVars => UntilMissed' /\ [Q!Next]_(Q!queueVars)
  BY StepMaps
<1>3. QED
  BY <1>1, <1>2, PTL DEF RingSpec, ImplementsByteQueue, Q!Spec

-----------------------------------------------------------------------------
(* A byte of the segment goes to the place that is as far behind recv_end  *)
(* as the byte is behind the first one.                                    *)
LEMMA ReceiveAppends ==
  ASSUME RingInv, NEW s \in Segments, Receive(s),
         NEW j \in 1 .. BytesToCopy(s)
  PROVE  recv_buffer'[PlaceOf(recv_count - Out + j)] = s[j]
<1> DEFINE i == recv_count - Out + j
           x == recv_start + i - 1
           p == PlaceOf(i)
<1>1. /\ N \in Nat \ {0} /\ recv_start \in 0 .. N - 1
      /\ recv_end \in 0 .. N - 1 /\ recv_count \in 0 .. N
      /\ Out \in Nat /\ Out <= recv_count
      /\ recv_end = IF recv_start + (recv_count - Out) < N
                    THEN recv_start + (recv_count - Out)
                    ELSE recv_start + (recv_count - Out) - N
  BY RingFacts
<1>2. BytesToCopy(s) \in Nat /\ BytesToCopy(s) <= N - recv_count
  BY BytesToCopyBounds DEF RingInv, TInv
<1>3. j \in Nat /\ 1 <= j /\ j <= BytesToCopy(s)
  BY <1>2
<1>4. x = recv_start + (recv_count - Out) + j - 1 /\ x \in 0 .. 2 * N - 1
  BY <1>1, <1>2, <1>3
<1>5. p = Wrap(x)
  BY DEF PlaceOf
<1> HIDE DEF x, p
<1>6. (p = IF x < N THEN x ELSE x - N) /\ p \in Places
  BY <1>4, <1>5, WrapFold
<1>7. Offset(p) = IF p < recv_end THEN p - recv_end + N ELSE p - recv_end
  BY <1>6, OffsetIs DEF RingInv, TInv
<1>8. Offset(p) = j - 1
  BY <1>1, <1>2, <1>3, <1>4, <1>6, <1>7
<1>9. recv_buffer'[p] = s[Offset(p) + 1]
  BY <1>2, <1>3, <1>6, <1>8 DEF Receive
<1>10. recv_buffer'[p] = s[j]
  BY <1>3, <1>8, <1>9
<1>11. QED
  BY <1>10 DEF p

(* Sequences that agree place by place are equal.                          *)
LEMMA SameSequence ==
  ASSUME NEW S, NEW q \in Seq(S), NEW r \in Seq(S), Len(q) = Len(r),
         \A i \in 1 .. Len(q) : q[i] = r[i]
  PROVE  q = r
OBVIOUS

LEMMA ReceiveKeepsSegment ==
  ASSUME RingInv, NEW s \in Segments, Receive(s), ~missed'
  PROVE  Unread' = Unread \o SubSeq(s, 1, BytesToCopy(s))
<1> DEFINE u == Unread
           v == Unread'
           n == BytesToCopy(s)
           b == recv_count - Out
           f == SubSeq(s, 1, n)
<1>1. RingInv' /\ Out' = Out
  BY ReceiveRingInv
<1>2. u \in Seq(Bytes) /\ Len(u) = b
      /\ \A i \in 1 .. b : u[i] = recv_buffer[PlaceOf(i)]
  BY UnreadIs DEF UnreadFacts
<1>3. /\ v \in Seq(Bytes) /\ Len(v) = recv_count' - Out'
      /\ \A i \in 1 .. recv_count' - Out' : v[i] = recv_buffer'[PlaceOf(i)']
  <2>1. RingInv' => UnreadFacts'
    BY UnreadIs, PTL
  <2>2. QED
    BY <1>1, <2>1 DEF UnreadFacts
<1>4. /\ n \in Nat /\ n <= Len(s) /\ Len(s) \in Nat /\ b \in Nat
      /\ recv_count \in Int /\ Out \in Int
  BY BytesToCopyBounds, SegmentLength, RingFacts DEF RingInv, TInv
<1>5. recv_count' - Out' = b + n
  <2>1. recv_count' = recv_count + n
    BY DEF Receive
  <2>2. QED
    BY <1>1, <1>4, <2>1
<1>6. \A i \in 1 .. b + n : PlaceOf(i)' = PlaceOf(i)
  BY DEF PlaceOf, Receive
<1>7. /\ f \in Seq(Bytes) /\ Len(f) = n
      /\ \A i \in 1 .. n : f[i] = s[i]
  <2>1. \A i \in 1 .. Len(s) : s[i] \in Bytes
    BY ElementOfSegment
  <2>2. s \in Seq(Bytes)
    <3>1. PICK k \in 1 .. MAX_SEGMENT : s \in [1 .. k -> Bytes]
      BY DEF Segments
    <3>2. k \in Nat
      BY <3>1, RingAssumption
    <3>3. QED
      BY <3>1, <3>2
  <2> HIDE DEF n
  <2>3. QED
    BY <1>4, <2>2
<1>8. \A i \in 1 .. b : recv_buffer'[PlaceOf(i)] = recv_buffer[PlaceOf(i)]
  BY ReceiveLeavesUnread
<1>9. \A j \in 1 .. n : recv_buffer'[PlaceOf(b + j)] = s[j]
  BY ReceiveAppends
<1> HIDE DEF u, v, n, b, f
<1>10. u \o f \in Seq(Bytes) /\ Len(u \o f) = b + n
  BY <1>2, <1>4, <1>7
<1>11. ASSUME NEW i \in 1 .. b + n
       PROVE  v[i] = (u \o f)[i]
  <2>1. v[i] = recv_buffer'[PlaceOf(i)]
    BY <1>3, <1>5, <1>6
  <2>2. CASE i <= b
    <3>1. i \in 1 .. b
      BY <1>4, <2>2
    <3>2. (u \o f)[i] = u[i]
      BY <1>2, <1>4, <1>7, <3>1
    <3>3. QED
      BY <1>2, <1>8, <2>1, <3>1, <3>2
  <2>3. CASE i > b
    <3>1. i - b \in 1 .. n /\ b + (i - b) = i
      BY <1>4, <2>3
    <3>2. (u \o f)[i] = f[i - b]
      BY <1>2, <1>4, <1>7, <2>3, <3>1
    <3>3. recv_buffer'[PlaceOf(i)] = s[i - b]
      BY <1>9, <3>1
    <3>4. QED
      BY <1>7, <2>1, <3>1, <3>2, <3>3
  <2>4. i <= b \/ i > b
    BY <1>4
  <2>5. QED
    BY <2>2, <2>3, <2>4, Zenon
<1>12. v = u \o f
  BY <1>3, <1>5, <1>10, <1>11, SameSequence
<1>13. QED
  BY <1>12 DEF u, v, n, f

(* What joins the unread bytes is the front of the segment that arrived,   *)
(* all of it while there is space (tcp.cpp:260-267), also while a recv is  *)
(* copying, up to the first bytes that arrive inside recv_count -= (349).  *)
THEOREM SegmentsAreKept == RingSpec => SegmentKept
<1>1. RingInit => UntilMissed
  BY InitMaps DEF UntilMissed
<1>2. UntilMissed /\ [RingNext]_ringVars => UntilMissed'
  BY StepMaps
<1>3. UntilMissed /\ [RingNext]_ringVars =>
        [\A s \in Segments :
           Receive(s) /\ ~missed' =>
             LET n == AtMost(Len(s), TCP_BUFFER_SIZE - recv_count)
             IN  Unread' = Unread \o SubSeq(s, 1, n)]_ringVars
  <2> SUFFICES ASSUME UntilMissed, NEW s \in Segments, Receive(s), ~missed'
               PROVE  Unread' = Unread \o SubSeq(s, 1, BytesToCopy(s))
    BY DEF BytesToCopy
  <2>1. ~missed
    BY DEF Receive
  <2>2. QED
    BY <2>1, ReceiveKeepsSegment DEF UntilMissed
<1>4. QED
  BY <1>1, <1>2, <1>3, PTL DEF RingSpec, SegmentKept

-----------------------------------------------------------------------------
(***************************************************************************)
(* The list of connections.                                                *)
(***************************************************************************)

(* Every nonempty set of natural numbers has a least element.              *)
LEMMA LeastNatural ==
  ASSUME NEW T \in SUBSET Nat, T # {}
  PROVE  \E m \in T : \A k \in T : m <= k
<1> DEFINE R == OpToRel(<, Nat)
<1>1. IsWellFoundedOn(R, Nat)
  BY NatLessThanWellFounded
<1>2. ASSUME NEW a \in Nat, NEW b \in Nat, a < b
      PROVE  <<a, b>> \in R
  BY <1>2, Zenon DEF OpToRel
<1> HIDE DEF R
<1>3. PICK m \in T : \A k \in T : ~ (<<k, m>> \in R)
  BY <1>1, WFMin
<1>4. \A k \in T : ~ (k < m)
  BY <1>2, <1>3
<1>5. QED
  BY <1>4

-----------------------------------------------------------------------------
(* The definition of Walk has a solution: one more step extends a walk.    *)
WalksTo(f, n) ==
  f = [k \in 0 .. n |-> IF k = 0 THEN connections
                        ELSE LET c == f[k - 1] IN IF c = 0 THEN 0 ELSE conn[c].next]

LEMMA WalkExists ==
  \A n \in Nat : \E f : WalksTo(f, n)
<1> DEFINE T == {n \in Nat : ~ \E f : WalksTo(f, n)}
<1> SUFFICES ASSUME T # {} PROVE FALSE
  OBVIOUS
<1>1. PICK m \in T : \A k \in T : m <= k
  BY LeastNatural
<1>2. CASE m = 0
  <2>1. WalksTo([k \in 0 .. 0 |-> connections], 0)
    BY DEF WalksTo
  <2>2. QED
    BY <1>1, <1>2, <2>1
<1>3. CASE m # 0
  <2>1. m - 1 \in Nat /\ m - 1 \notin T
    BY <1>1, <1>3
  <2>2. PICK f : WalksTo(f, m - 1)
    BY <2>1
  <2> DEFINE last == f[m - 1]
             g == [k \in 0 .. m |-> IF k < m THEN f[k]
                                    ELSE IF last = 0 THEN 0 ELSE conn[last].next]
  <2>3. \A k \in 0 .. m : g[k] = IF k = 0 THEN connections
                                 ELSE LET c == g[k - 1]
                                      IN IF c = 0 THEN 0 ELSE conn[c].next
    <3> SUFFICES ASSUME NEW k \in 0 .. m
                 PROVE  g[k] = IF k = 0 THEN connections
                               ELSE LET c == g[k - 1]
                                    IN IF c = 0 THEN 0 ELSE conn[c].next
      OBVIOUS
    <3>1. CASE k = 0
      <4>1. f[0] = connections
        BY <2>1, <2>2 DEF WalksTo
      <4>2. g[k] = f[0]
        BY <1>3, <2>1, <3>1
      <4>3. QED
        BY <3>1, <4>1, <4>2
    <3>2. CASE k # 0 /\ k < m
      <4>1. k \in 0 .. m - 1 /\ k - 1 \in 0 .. m /\ k - 1 < m
        BY <1>1, <3>2
      <4>2. f[k] = LET c == f[k - 1] IN IF c = 0 THEN 0 ELSE conn[c].next
        BY <2>2, <3>2, <4>1 DEF WalksTo
      <4>3. g[k] = f[k] /\ g[k - 1] = f[k - 1]
        BY <3>2, <4>1
      <4> HIDE DEF g
      <4>4. QED
        BY <3>2, <4>2, <4>3
    <3>3. CASE k = m
      <4>1. m \in 0 .. m /\ m - 1 \in 0 .. m /\ m - 1 < m /\ ~(m < m)
        BY <1>1, <1>3
      <4>2. g[m - 1] = last /\ g[m] = IF last = 0 THEN 0 ELSE conn[last].next
        BY <4>1
      <4> HIDE DEF g, last
      <4>3. QED
        BY <1>3, <3>3, <4>2
    <3>4. QED
      BY <1>1, <3>1, <3>2, <3>3
  <2>4. WalksTo(g, m)
    <3> DEFINE h == [k \in 0 .. m |-> IF k = 0 THEN connections
                        ELSE LET c == g[k - 1] IN IF c = 0 THEN 0 ELSE conn[c].next]
    <3>1. g = h
      BY <2>3
    <3>2. QED
      BY <3>1 DEF WalksTo
  <2>5. QED
    BY <1>1, <2>4
<1>4. QED
  BY <1>2, <1>3

(* So a walk begins at the head and follows next until it finds null.      *)
LEMMA WalkIs ==
  /\ Walk[0] = connections
  /\ \A k \in 1 .. MAX_CONNS :
       Walk[k] = IF Walk[k - 1] = 0 THEN 0 ELSE conn[Walk[k - 1]].next
<1>1. MAX_CONNS \in Nat \ {0}
  BY TCPAssumption
<1>2. \E f : WalksTo(f, MAX_CONNS)
  BY <1>1, WalkExists
<1>3. WalksTo(Walk, MAX_CONNS)
  BY <1>2 DEF Walk, WalksTo
<1>4. \A k \in 0 .. MAX_CONNS :
        Walk[k] = IF k = 0 THEN connections
                  ELSE LET c == Walk[k - 1] IN IF c = 0 THEN 0 ELSE conn[c].next
  BY <1>3, Zenon DEF WalksTo
<1>5. QED
  BY <1>1, <1>4

-----------------------------------------------------------------------------
(* The inductive invariant.  TypeInv: the types, with the place the client *)
(* is at.                                                                  *)
Connections ==
  [port : Nat, peer : Peers \cup {NOBODY}, state : States, next : Nat,
   send_window_start : 0 .. WINDOW, sent : Nat, fins : Nat, late : Nat,
   raced : BOOLEAN, reopened : BOOLEAN]

Tasks ==
  [at : {"idle", "store_head", "syn_sent", "established", "open", "sending",
         "fin", "remove", "store_next"},
   socket : Nat, place : Nat, next : Nat, size : 0 .. MAX_SEND]

TypeInv ==
  /\ conn \in Seq(Connections) /\ Len(conn) \in 1 .. MAX_CONNS
  /\ connections \in Ids /\ live \subseteq Ids
  /\ syn_count \in 0 .. MAX_SYNS
  /\ task \in Tasks
  /\ list_raced \in BOOLEAN

(* Every link leads to an older connection, whoever tore the list, and the *)
(* oldest is the listening one, which no segment of a peer reaches.        *)
ChainInv ==
  /\ conn[1].next = 0 /\ conn[1].peer = NOBODY /\ conn[1].state = "LISTEN"
  /\ \A c \in Ids \ {1} : conn[c].next \in 1 .. c - 1

(* The linked connections are a chain without forks from the head.         *)
Links ==
  /\ connections \in live
  /\ \A c \in live : c # 1 => conn[c].next \in live
  /\ \A c \in live : c # connections => \E p \in live : conn[p].next = c
  /\ \A c \in live : conn[c].next # connections
  /\ \A c, d \in live : conn[c].next = conn[d].next => c = d

(* What the client holds while it changes the list.                        *)
TaskInv ==
  /\ task.at # "idle" => task.socket \in Ids \ {1} /\ Mine.port # PORT
  /\ Linking => /\ task.socket \notin live
                /\ ~list_raced => Mine.next = connections
  /\ Unlinking => /\ task.next \in 1 .. task.socket - 1
                  /\ task.place # 0 => task.place \in Ids /\ task.socket < task.place

UnlinkInv ==
  Unlinking => /\ task.socket \in live /\ task.next = Mine.next
               /\ IF task.place = 0 THEN connections = task.socket
                  ELSE task.place \in live /\ conn[task.place].next = task.socket

ListInv == ChainInv /\ TaskInv /\ (~list_raced => Links /\ UnlinkInv)

(* What one connection has sent: no FIN yet in the states before one, but  *)
(* for the one that connect forgot; all of the data out of the window, but *)
(* for a send that a FIN overtook.                                         *)
Unfinished == {"CLOSED", "LISTEN", "SYN_SENT", "SYN_RECEIVED", "ESTABLISHED"}

SendsWell(r) ==
  /\ r.fins <= 1 + Cost(r.raced) + Cost(r.reopened)
  /\ r.state \in Unfinished => ~r.raced /\ r.fins <= Cost(r.reopened)
  /\ r.state = "LAST_ACK" => r.fins <= 1 + Cost(r.reopened)
  /\ ~r.raced => r.sent = r.send_window_start
  /\ r.sent <= IF r.raced THEN WINDOW + MAX_SEND ELSE WINDOW
  /\ ~r.reopened => r.late <= Cost(r.raced)

(* A FIN came after the look at the state and before its use.              *)
Overtaken(r) ==
  /\ r.state = "LAST_ACK" /\ r.raced /\ r.sent <= WINDOW
  /\ ~r.reopened => r.late = 0

(* What the client's own connection is like where it stands.               *)
MineInv(at_place, r) ==
  /\ at_place \in {"store_head", "syn_sent"} => r.state = "CLOSED" /\ ~r.reopened
  /\ at_place = "established" => /\ r.state \in {"SYN_SENT", "ESTABLISHED", "LAST_ACK"}
                                 /\ ~r.raced /\ ~r.reopened
  /\ at_place \in {"sending", "fin"} => r.state = "ESTABLISHED" \/ Overtaken(r)

SendInv ==
  /\ \A c \in Ids : SendsWell(conn[c])
  /\ task.at # "idle" => MineInv(task.at, Mine)

IInv == TypeInv /\ ListInv /\ SendInv

-----------------------------------------------------------------------------
(* What the walk of such a list finds.                                     *)
LEMMA IdsAre ==
  ASSUME TypeInv
  PROVE  /\ Len(conn) \in Nat /\ Len(conn) >= 1 /\ Len(conn) <= MAX_CONNS
         /\ MAX_CONNS \in Nat /\ Ids \subseteq Nat \ {0} /\ 1 \in Ids
         /\ \A c \in Ids : conn[c] \in Connections
BY TCPAssumption, ElementOfSeq DEF TypeInv, Ids

LEMMA Descends ==
  ASSUME TypeInv, ChainInv
  PROVE  \A k \in 0 .. MAX_CONNS : Walk[k] \in 0 .. Len(conn) /\ Walk[k] <= MAX_CONNS - k
<1> DEFINE Good(k) == Walk[k] \in 0 .. Len(conn) /\ Walk[k] <= MAX_CONNS - k
           T == {k \in 0 .. MAX_CONNS : ~Good(k)}
<1>1. MAX_CONNS \in Nat /\ Len(conn) \in Nat /\ Len(conn) <= MAX_CONNS
  BY IdsAre
<1> SUFFICES ASSUME T # {} PROVE FALSE
  OBVIOUS
<1>2. PICK m \in T : \A k \in T : m <= k
  <2>1. T \in SUBSET Nat
    BY <1>1
  <2>2. QED
    BY <2>1, LeastNatural
<1>3. CASE m = 0
  BY <1>1, <1>2, <1>3, WalkIs DEF TypeInv, Ids
<1>4. CASE m # 0
  <2>1. m - 1 \in 0 .. MAX_CONNS /\ m \in 1 .. MAX_CONNS /\ m - 1 \notin T
    BY <1>1, <1>2, <1>4
  <2>2. Walk[m - 1] \in 0 .. Len(conn) /\ Walk[m - 1] <= MAX_CONNS - (m - 1)
    BY <2>1
  <2>3. CASE Walk[m - 1] = 0
    <3>1. Walk[m] = 0
      BY <2>1, <2>3, WalkIs
    <3>2. QED
      BY <1>1, <1>2, <2>1, <3>1
  <2>4. CASE Walk[m - 1] # 0
    <3>1. Walk[m - 1] \in Ids /\ Walk[m] = conn[Walk[m - 1]].next
      BY <1>1, <2>1, <2>2, <2>4, WalkIs DEF Ids
    <3>2. Walk[m] \in 0 .. Walk[m - 1] - 1
      <4>1. PICK w \in Ids : w = Walk[m - 1] /\ Walk[m] = conn[w].next
        BY <3>1
      <4>2. CASE w = 1
        BY <4>1, <4>2 DEF ChainInv
      <4>3. CASE w # 1
        <5>1. conn[w].next \in 1 .. w - 1
          BY <4>3 DEF ChainInv
        <5>2. QED
          BY <1>1, <4>1, <5>1 DEF Ids
      <4>4. QED
        BY <4>2, <4>3
    <3>3. QED
      BY <1>1, <1>2, <2>1, <2>2, <3>2
  <2>5. QED
    BY <2>3, <2>4
<1>5. QED
  BY <1>3, <1>4

LEMMA ListedIds ==
  ASSUME TypeInv, ChainInv
  PROVE  Listed \subseteq Ids
BY Descends, IdsAre DEF Listed, Ids

LEMMA ListedIsLive ==
  ASSUME TypeInv, ChainInv, Links
  PROVE  Listed = live
<1>1. /\ MAX_CONNS \in Nat /\ Len(conn) \in Nat /\ Len(conn) <= MAX_CONNS
      /\ live \subseteq Ids /\ Ids \subseteq Nat \ {0} /\ conn[1].next = 0
  BY IdsAre DEF TypeInv, ChainInv
<1>2. \A k \in 0 .. MAX_CONNS : Walk[k] \in live \cup {0}
  <2> DEFINE T == {k \in 0 .. MAX_CONNS : Walk[k] \notin live \cup {0}}
  <2> SUFFICES ASSUME T # {} PROVE FALSE
    OBVIOUS
  <2>1. PICK m \in T : \A k \in T : m <= k
    <3>1. T \in SUBSET Nat
      BY <1>1
    <3>2. QED
      BY <3>1, LeastNatural
  <2>2. m # 0
    BY <2>1, WalkIs DEF Links
  <2>3. m - 1 \in 0 .. MAX_CONNS /\ m \in 1 .. MAX_CONNS /\ m - 1 \notin T
    BY <1>1, <2>1, <2>2
  <2>4. Walk[m - 1] \in live \cup {0}
    BY <2>3
  <2>5. Walk[m] \in live \cup {0}
    BY <1>1, <2>3, <2>4, WalkIs DEF Links
  <2>6. QED
    BY <2>1, <2>5
<1>3. live \subseteq Listed
  <2> DEFINE T == {Len(conn) - c : c \in live \ Listed}
  <2> SUFFICES ASSUME live \ Listed # {} PROVE FALSE
    OBVIOUS
  <2>1. T \in SUBSET Nat /\ T # {}
    <3>1. \A c \in live \ Listed : Len(conn) - c \in Nat
      BY <1>1 DEF Ids
    <3>2. QED
      BY <3>1
  <2>2. PICK m \in T : \A k \in T : m <= k
    BY <2>1, LeastNatural
  <2>3. PICK c \in live \ Listed : m = Len(conn) - c
    BY <2>2
  <2>4. \A d \in live \ Listed : d <= c
    <3> SUFFICES ASSUME NEW d \in live \ Listed PROVE d <= c
      OBVIOUS
    <3>1. Len(conn) - d \in T
      OBVIOUS
    <3>2. d \in Nat /\ c \in Nat
      BY <1>1
    <3>3. Len(conn) - c <= Len(conn) - d
      BY <2>2, <2>3, <3>1
    <3> HIDE DEF T
    <3>4. QED
      BY <1>1, <3>2, <3>3
  <2>5. 0 \in 0 .. MAX_CONNS /\ Walk[0] = connections /\ connections # 0
    BY <1>1, WalkIs DEF TypeInv, Ids
  <2>6. connections \in Listed
    BY <2>5 DEF Listed
  <2>7. PICK p \in live : conn[p].next = c
    BY <2>3, <2>6 DEF Links
  <2>8. p \in Ids /\ c \in Ids /\ p # 1 /\ c < p
    BY <1>1, <2>3, <2>7 DEF ChainInv, Ids
  <2>9. p \in Listed
    BY <1>1, <2>3, <2>4, <2>8
  <2>10. PICK k \in 0 .. MAX_CONNS : p = Walk[k]
    BY <2>9 DEF Listed
  <2>11. k + 1 \in 1 .. MAX_CONNS /\ k + 1 \in 0 .. MAX_CONNS /\ (k + 1) - 1 = k
    BY <1>1, <2>8, <2>10, Descends DEF Ids
  <2>12. Walk[k + 1] = conn[Walk[k]].next
    BY <1>1, <2>8, <2>10, <2>11, WalkIs
  <2>13. c \in Listed
    BY <1>1, <2>3, <2>7, <2>10, <2>11, <2>12 DEF Listed
  <2>14. QED
    BY <2>3, <2>13
<1>4. QED
  BY <1>2, <1>3 DEF Listed

(* find_connection finds a connection if there is one.                     *)
LEMMA FindIs ==
  ASSUME TypeInv, ChainInv, NEW port, NEW peer
  PROVE  /\ Find(port, peer) # 0 =>
              /\ Find(port, peer) \in Listed
              /\ conn[Find(port, peer)].port = port
              /\ conn[Find(port, peer)].peer = peer
         /\ Find(port, peer) = 0 =>
              \A c \in Listed : ~(conn[c].port = port /\ conn[c].peer = peer)
<1> DEFINE hits == {c \in Listed : conn[c].port = port /\ conn[c].peer = peer}
           First(k) == /\ Walk[k] \in hits
                       /\ \A j \in 0 .. k - 1 : Walk[j] \notin hits
           k == CHOOSE k \in 0 .. MAX_CONNS : First(k)
<1>1. Find(port, peer) = IF hits = {} THEN 0 ELSE Walk[k]
  BY DEF Find
<1>2. ASSUME hits # {} PROVE Walk[k] \in hits
  <2> DEFINE T == {i \in 0 .. MAX_CONNS : Walk[i] \in hits}
  <2>1. MAX_CONNS \in Nat
    BY IdsAre
  <2>2. T \in SUBSET Nat /\ T # {}
    BY <1>2, <2>1 DEF Listed
  <2>3. PICK m \in T : \A i \in T : m <= i
    BY <2>2, LeastNatural
  <2>4. First(m)
    <3> SUFFICES ASSUME NEW j \in 0 .. m - 1, Walk[j] \in hits PROVE FALSE
      BY <2>3
    <3>1. j \in T /\ j < m
      BY <2>1, <2>3
    <3>2. QED
      BY <2>1, <2>3, <3>1
  <2> HIDE DEF First, hits
  <2>5. First(k)
    BY <2>3, <2>4
  <2>6. QED
    BY <2>5 DEF First
<1>3. 0 \notin Listed
  BY DEF Listed
<1> HIDE DEF k
<1>4. QED
  BY <1>1, <1>2, <1>3

-----------------------------------------------------------------------------
(* Linking and unlinking, when the list is what it should be.              *)
LEMMA LinkedIn ==
  ASSUME TypeInv, ChainInv, Links, NEW h, h \notin live, h # 0,
         h \in Ids', \A c \in live : conn'[c].next = conn[c].next,
         conn'[h].next = connections,
         connections' = h, live' = live \cup {h}
  PROVE  Links'
<1>1. /\ 1 \in Ids /\ Ids \subseteq Nat \ {0} /\ live \subseteq Ids
      /\ conn[1].next = 0 /\ connections \in live
  BY IdsAre DEF TypeInv, ChainInv, Links
<1>2. connections' \in live'
  OBVIOUS
<1>3. \A c \in live' : c # 1 => conn'[c].next \in live'
  BY <1>1 DEF Links
<1>4. \A c \in live' : c # connections' => \E p \in live' : conn'[p].next = c
  <2> SUFFICES ASSUME NEW c \in live', c # connections'
               PROVE  \E p \in live' : conn'[p].next = c
    OBVIOUS
  <2>1. CASE c = connections
    BY <2>1
  <2>2. CASE c # connections
    <3>1. PICK p \in live : conn[p].next = c
      BY <2>2 DEF Links
    <3>2. QED
      BY <3>1
  <2>3. QED
    BY <2>1, <2>2
<1>5. \A c \in live' : conn'[c].next # connections'
  BY <1>1 DEF Links
<1>6. \A c, d \in live' : conn'[c].next = conn'[d].next => c = d
  BY <1>1 DEF Links
<1>7. QED
  BY <1>2, <1>3, <1>4, <1>5, <1>6 DEF Links

LEMMA LinkedOut ==
  ASSUME TypeInv, ChainInv, Links, NEW c \in live, c # 1, NEW p,
         IF p = 0 THEN connections = c ELSE p \in live /\ conn[p].next = c,
         connections' = IF p = 0 THEN conn[c].next ELSE connections,
         \A d \in live : conn'[d].next = IF d = p THEN conn[c].next ELSE conn[d].next,
         live' = live \ {c}
  PROVE  Links'
<1> DEFINE v == conn[c].next
<1>1. /\ Ids \subseteq Nat \ {0} /\ live \subseteq Ids /\ conn[1].next = 0
      /\ \A d \in live \ {1} : conn[d].next \in Nat /\ conn[d].next < d
  BY IdsAre DEF TypeInv, ChainInv, Ids
<1>2. v \in live /\ v # c
  BY <1>1 DEF Links
<1>3. p # 0 => p \in live /\ p # c /\ connections # c
  <2> SUFFICES ASSUME p # 0
               PROVE  p \in live /\ p # c /\ connections # c
    OBVIOUS
  <2>1. p \in live /\ conn[p].next = c
    OBVIOUS
  <2>2. connections # c
    BY <2>1 DEF Links
  <2>3. c \in Nat /\ conn[c].next < c
    BY <1>1
  <2>4. QED
    BY <2>1, <2>2, <2>3
<1>4. \A d \in live \ {c} : d # p => conn[d].next # c
  BY DEF Links
<1> HIDE DEF v
<1>5. connections' \in live'
  BY <1>2, <1>3 DEF Links, v
<1>6. \A d \in live' : d # 1 => conn'[d].next \in live'
  BY <1>2, <1>4 DEF Links, v
<1>7. \A d \in live' : d # connections' => \E q \in live' : conn'[q].next = d
  <2> SUFFICES ASSUME NEW d \in live', d # connections'
               PROVE  \E q \in live' : conn'[q].next = d
    OBVIOUS
  <2>1. CASE d = v
    <3>1. p # 0 /\ p \in live'
      BY <1>3, <2>1 DEF v
    <3>2. conn'[p].next = d
      BY <1>3, <2>1, <3>1 DEF v
    <3>3. QED
      BY <3>1, <3>2
  <2>2. CASE d # v
    <3>1. d \in live /\ d # c /\ d # connections
      BY <1>3
    <3>2. PICK q \in live : conn[q].next = d
      BY <3>1 DEF Links
    <3>3. q # c
      BY <2>2, <3>2 DEF v
    <3>4. q # p
      BY <1>1, <3>1, <3>2
    <3>5. QED
      BY <3>2, <3>3, <3>4
  <2>3. QED
    BY <2>1, <2>2
<1>8. \A d \in live' : conn'[d].next # connections'
  BY <1>1, <1>3 DEF Links, v
<1>9. \A d, e \in live' : conn'[d].next = conn'[e].next => d = e
  BY DEF Links
<1>10. QED
  BY <1>5, <1>6, <1>7, <1>8, <1>9 DEF Links

-----------------------------------------------------------------------------
(* Steps that leave the list alone.                                        *)
SameList ==
  /\ conn' \in Seq(Connections) /\ Len(conn') = Len(conn)
  /\ \A d \in Ids : /\ conn'[d].next = conn[d].next
                    /\ conn'[d].port = conn[d].port
                    /\ conn'[d].peer = conn[d].peer
  /\ conn'[1].state = "LISTEN"
  /\ UNCHANGED <<list, syn_count>>

TaskGoesOn ==
  \/ UNCHANGED task
  \/ /\ task' \in Tasks /\ task.at # "idle"
     /\ task'.at \notin {"store_head", "store_next"}
     /\ task'.at # "idle" => task'.socket = task.socket

LEMMA SameListStep ==
  ASSUME TypeInv, ListInv, SameList, TaskGoesOn
  PROVE  TypeInv' /\ ListInv'
<1>1. /\ Ids' = Ids /\ 1 \in Ids /\ live \subseteq Ids /\ live' = live
      /\ connections' = connections /\ list_raced' = list_raced
  BY IdsAre DEF SameList, list, Ids, TypeInv
<1>2. TypeInv'
  BY <1>1 DEF TypeInv, SameList, TaskGoesOn
<1>3. ChainInv'
  BY <1>1 DEF ChainInv, ListInv, SameList
<1>4. TaskInv'
  <2>1. CASE UNCHANGED task
    <3>1. task.at # "idle" => task.socket \in Ids
      BY DEF ListInv, TaskInv
    <3>2. task.at # "idle" => Mine'.port = Mine.port /\ Mine'.next = Mine.next
      BY <2>1, <3>1 DEF SameList, Mine
    <3>3. QED
      BY <1>1, <2>1, <3>2 DEF ListInv, TaskInv, Linking, Unlinking
  <2>2. CASE /\ task.at # "idle" /\ task'.at \notin {"store_head", "store_next"}
             /\ task'.at # "idle" => task'.socket = task.socket
    <3>1. task.socket \in Ids \ {1} /\ Mine.port # PORT
      BY <2>2 DEF ListInv, TaskInv
    <3>2. task'.at # "idle" => Mine'.port = Mine.port
      BY <2>2, <3>1 DEF SameList, Mine
    <3>3. QED
      BY <1>1, <2>2, <3>1, <3>2 DEF TaskInv, Linking, Unlinking, PORT
  <2>3. QED
    BY <2>1, <2>2 DEF TaskGoesOn
<1>5. ASSUME ~list_raced
      PROVE  Links' /\ UnlinkInv'
  <2>1. Links /\ UnlinkInv
    BY <1>5 DEF ListInv
  <2>2. Links'
    BY <1>1, <2>1 DEF Links, SameList
  <2>3. UnlinkInv'
    <3> SUFFICES ASSUME Unlinking'
                 PROVE  UnlinkInv'
      BY DEF UnlinkInv
    <3>1. UNCHANGED task /\ Unlinking
      BY DEF TaskGoesOn, Unlinking
    <3>2. Mine'.next = Mine.next
      BY <1>1, <2>1, <3>1 DEF UnlinkInv, SameList, Mine
    <3>3. QED
      BY <1>1, <2>1, <3>1, <3>2 DEF UnlinkInv, SameList
  <2>4. QED
    BY <2>2, <2>3
<1>6. QED
  BY <1>1, <1>2, <1>3, <1>4, <1>5 DEF ListInv

(* One record is written, not its links and not the listener's.            *)
LEMMA SetRecord ==
  ASSUME TypeInv, ChainInv, NEW c \in Ids, NEW r \in Connections,
         r.next = conn[c].next, r.port = conn[c].port, r.peer = conn[c].peer,
         c = 1 => r.state = "LISTEN",
         conn' = [conn EXCEPT ![c] = r], UNCHANGED <<list, syn_count>>
  PROVE  SameList /\ conn'[c] = r /\ Ids' = Ids /\ \A d \in Ids \ {c} : conn'[d] = conn[d]
<1>1. conn \in Seq(Connections) /\ c \in 1 .. Len(conn) /\ 1 \in Ids
  BY IdsAre DEF TypeInv, Ids
<1>2. conn' \in Seq(Connections) /\ Len(conn') = Len(conn)
  BY <1>1, ExceptSeq
<1>3. \A d \in Ids : conn'[d] = IF d = c THEN r ELSE conn[d]
  BY <1>1, ExceptSeq DEF Ids
<1>4. QED
  BY <1>1, <1>2, <1>3 DEF SameList, Ids, ChainInv

LEMMA SameConn ==
  ASSUME TypeInv, ChainInv, UNCHANGED <<conn, list, syn_count>>
  PROVE  SameList
BY DEF TypeInv, ChainInv, SameList

(* Only the ghosts, or only state and ghosts, of a record are written.     *)
SameSends(t, r) ==
  /\ t \in Connections /\ t.next = r.next /\ t.port = r.port /\ t.peer = r.peer
  /\ t.late = r.late /\ t.sent = r.sent /\ t.send_window_start = r.send_window_start

LEMMA SendFinIs ==
  ASSUME NEW r \in Connections
  PROVE  /\ SameSends(SendFin(r), r)
         /\ SendFin(r).state = r.state /\ SendFin(r).fins = r.fins + 1
         /\ SendFin(r).raced = r.raced /\ SendFin(r).reopened = r.reopened
BY DEF Connections, SendFin, SameSends

LEMMA ToState ==
  ASSUME NEW r \in Connections, NEW q \in States
  PROVE  LET t == [r EXCEPT !.state = q]
         IN  /\ SameSends(t, r) /\ t.state = q /\ t.fins = r.fins
             /\ t.raced = r.raced /\ t.reopened = r.reopened
BY DEF Connections, SameSends

LEMMA Raced ==
  ASSUME NEW r \in Connections, NEW b \in BOOLEAN
  PROVE  LET t == [r EXCEPT !.raced = b]
         IN  /\ SameSends(t, r) /\ t.state = r.state /\ t.fins = r.fins
             /\ t.raced = b /\ t.reopened = r.reopened
BY DEF Connections, SameSends

(* What the handler makes of a connection on a segment.                    *)
LEMMA NextStateIs ==
  ASSUME NEW r \in Connections, NEW flags \in Flags
  PROVE  /\ SameSends(NextState(r, flags), r)
         /\ NextState(r, flags).raced = r.raced
         /\ NextState(r, flags).reopened = r.reopened
         /\ SendsWell(r) => SendsWell(NextState(r, flags))
         /\ r.state \in {"CLOSED", "LAST_ACK"} => NextState(r, flags) = r
         /\ r.state = "SYN_SENT" => NextState(r, flags).state \in {"SYN_SENT", "ESTABLISHED"}
         /\ r.state = "ESTABLISHED" =>
              \/ NextState(r, flags) = r
              \/ /\ NextState(r, flags).state = "LAST_ACK"
                 /\ NextState(r, flags).fins = r.fins + 1
<1> DEFINE To(q) == [r EXCEPT !.state = q]
           Fin   == SendFin(To("LAST_ACK"))
<1>1. \A q \in States :
        /\ SameSends(To(q), r) /\ To(q).state = q /\ To(q).fins = r.fins
        /\ To(q).raced = r.raced /\ To(q).reopened = r.reopened
  BY ToState
<1>2. /\ SameSends(Fin, r) /\ Fin.state = "LAST_ACK" /\ Fin.fins = r.fins + 1
      /\ Fin.raced = r.raced /\ Fin.reopened = r.reopened
  <2> HIDE DEF To
  <2>1. "LAST_ACK" \in States
    BY DEF States
  <2>2. To("LAST_ACK") \in Connections
    BY <1>1, <2>1 DEF SameSends
  <2>3. QED
    BY <1>1, <2>1, <2>2, SendFinIs DEF SameSends
<1>3. r.fins \in Nat /\ r.raced \in BOOLEAN /\ r.reopened \in BOOLEAN
  BY DEF Connections
<1> DEFINE n == NextState(r, flags)
<1>4. \/ r.state = "LISTEN" /\ n = To("SYN_RECEIVED")
      \/ r.state = "SYN_SENT" /\ n = To("ESTABLISHED")
      \/ r.state = "SYN_RECEIVED" /\ n = To("ESTABLISHED")
      \/ r.state = "ESTABLISHED" /\ n = Fin
      \/ r.state = "FIN_WAIT_1" /\ n = To("FIN_WAIT_2")
      \/ r.state = "FIN_WAIT_2" /\ n = To("TIME_WAIT")
      \/ n = r
  BY DEF NextState
<1>5. SameSends(r, r)
  BY DEF SameSends
<1> HIDE DEF n, To, Fin
<1>6. SameSends(n, r) /\ n.raced = r.raced /\ n.reopened = r.reopened
  BY <1>1, <1>2, <1>4, <1>5 DEF States
<1>7. /\ r.state \in {"CLOSED", "LAST_ACK"} => n = r
      /\ r.state = "SYN_SENT" => n.state \in {"SYN_SENT", "ESTABLISHED"}
      /\ r.state = "ESTABLISHED" => n = r \/ (n.state = "LAST_ACK" /\ n.fins = r.fins + 1)
  BY <1>1, <1>2, <1>4 DEF States
<1>8. ASSUME SendsWell(r) PROVE SendsWell(n)
  <2>1. CASE n = r
    BY <1>8, <2>1
  <2>2. CASE r.state \in Unfinished /\ n.fins = r.fins
    BY <1>3, <1>6, <1>8, <2>2 DEF SendsWell, SameSends, Cost
  <2>3. CASE r.state = "ESTABLISHED" /\ n.state = "LAST_ACK" /\ n.fins = r.fins + 1
    BY <1>3, <1>6, <1>8, <2>3 DEF SendsWell, SameSends, Cost, Unfinished
  <2>4. CASE n.fins = r.fins /\ n.state \in {"FIN_WAIT_2", "TIME_WAIT"}
    BY <1>3, <1>6, <1>8, <2>4 DEF SendsWell, SameSends, Cost, Unfinished
  <2>5. QED
    BY <1>1, <1>2, <1>4, <2>1, <2>2, <2>3, <2>4 DEF States, Unfinished
<1>9. QED
  BY <1>6, <1>7, <1>8 DEF n

(* A segment finds one of the connections, never the listening one.        *)
LEMMA FoundIs ==
  ASSUME TypeInv, ChainInv, NEW port, NEW peer \in Peers, Find(port, peer) # 0
  PROVE  Find(port, peer) \in Listed /\ Find(port, peer) \in Ids \ {1}
BY FindIs, ListedIds, TCPAssumption DEF ChainInv

LEMMA HandleSegmentStep ==
  ASSUME IInv, NEW c \in Ids \ {1}, NEW flags \in Flags, HandleSegment(c, flags)
  PROVE  IInv' /\ SameList /\ TaskGoesOn
<1> DEFINE n == NextState(conn[c], flags)
<1>1. TypeInv /\ ListInv /\ ChainInv /\ SendInv /\ conn[c] \in Connections
  BY IdsAre DEF IInv, ListInv
<1>2. /\ SameSends(n, conn[c]) /\ n.raced = conn[c].raced
      /\ n.reopened = conn[c].reopened /\ SendsWell(n)
      /\ conn[c].state \in {"CLOSED", "LAST_ACK"} => n = conn[c]
      /\ conn[c].state = "SYN_SENT" => n.state \in {"SYN_SENT", "ESTABLISHED"}
      /\ conn[c].state = "ESTABLISHED" =>
           n = conn[c] \/ (n.state = "LAST_ACK" /\ n.fins = conn[c].fins + 1)
  BY <1>1, NextStateIs DEF SendInv
<1>3. PICK b \in BOOLEAN : b = (n.raced \/ (Relied(c) /\ n.state # conn[c].state))
  <2>1. (n.raced \/ (Relied(c) /\ n.state # conn[c].state)) \in BOOLEAN
    BY <1>2 DEF SameSends, Connections
  <2>2. QED
    BY <2>1, Zenon
<1>4. PICK r : r = [n EXCEPT !.raced = b]
  OBVIOUS
<1>5. conn' = [conn EXCEPT ![c] = r] /\ UNCHANGED <<list, syn_count, task>>
  BY <1>3, <1>4 DEF HandleSegment
<1> HIDE DEF n
<1>6. /\ SameSends(r, conn[c]) /\ r \in Connections
      /\ r.state = n.state /\ r.fins = n.fins /\ r.raced = b
      /\ r.reopened = conn[c].reopened
  <2>1. n \in Connections
    BY <1>2 DEF SameSends
  <2>2. SameSends(r, n) /\ r.state = n.state /\ r.fins = n.fins /\ r.raced = b
        /\ r.reopened = n.reopened
    BY <1>4, <2>1, Raced
  <2>3. QED
    BY <1>2, <2>2 DEF SameSends
<1>7. SameList /\ conn'[c] = r /\ Ids' = Ids /\ \A d \in Ids \ {c} : conn'[d] = conn[d]
  BY <1>1, <1>5, <1>6, SetRecord DEF SameSends
<1>8. TypeInv' /\ ListInv' /\ SameList /\ TaskGoesOn
  BY <1>1, <1>5, <1>7, SameListStep DEF TaskGoesOn
<1>9. task.at # "idle" => task.socket \in Ids /\ MineInv(task.at, Mine)
  BY <1>1 DEF ListInv, TaskInv, SendInv
<1>10. CASE ~Relied(c) \/ n.state = conn[c].state
  <2>1. b = conn[c].raced
    BY <1>1, <1>2, <1>3, <1>10, Zenon DEF Connections
  <2>2. SendsWell(r)
    BY <1>2, <1>6, <2>1 DEF SendsWell, SameSends
  <2>3. CASE task.socket # c \/ task.at = "idle"
    BY <1>5, <1>7, <1>8, <1>9, <2>2, <2>3, <1>1 DEF IInv, SendInv, Mine
  <2>4. CASE task.socket = c /\ task.at # "idle"
    <3>1. Mine = conn[c] /\ Mine' = r
      BY <1>5, <1>7, <2>4 DEF Mine
    <3>2. MineInv(task.at, r)
      <4>1. task.at \in {"store_head", "syn_sent"} => r.state = "CLOSED" /\ ~r.reopened
        BY <1>2, <1>6, <1>9, <2>4, <3>1 DEF MineInv
      <4>2. task.at = "established" => /\ r.state \in {"SYN_SENT", "ESTABLISHED", "LAST_ACK"}
                                       /\ ~r.raced /\ ~r.reopened
        BY <1>2, <1>6, <1>9, <2>1, <2>4, <3>1 DEF MineInv
      <4>3. task.at \in {"sending", "fin"} => r.state = "ESTABLISHED" \/ Overtaken(r)
        BY <1>2, <1>6, <1>9, <1>10, <2>1, <2>4, <3>1
        DEF MineInv, Relied, Overtaken, SameSends
      <4>4. QED
        BY <4>1, <4>2, <4>3 DEF MineInv
    <3>3. QED
      BY <1>1, <1>5, <1>7, <1>8, <2>2, <3>1, <3>2 DEF IInv, SendInv
  <2>5. QED
    BY <2>3, <2>4
<1>11. CASE Relied(c) /\ n.state # conn[c].state
  <2>1. b = TRUE /\ c = task.socket /\ task.at \in {"sending", "fin"}
    BY <1>3, <1>11, Zenon DEF Relied
  <2>2. Mine = conn[c] /\ Mine' = r
    BY <1>5, <1>7, <2>1 DEF Mine
  <2>3. conn[c].state = "ESTABLISHED" /\ n.state = "LAST_ACK" /\ n.fins = conn[c].fins + 1
    BY <1>2, <1>9, <1>11, <2>1, <2>2 DEF MineInv, Overtaken
  <2>4. SendsWell(conn[c])
    BY <1>1 DEF SendInv
  <2>5. /\ conn[c].fins \in Nat /\ conn[c].late \in Nat /\ conn[c].sent \in Nat
        /\ conn[c].reopened \in BOOLEAN /\ WINDOW \in Nat /\ MAX_SEND \in Nat
    BY <1>1, TCPAssumption DEF Connections
  <2>6. SendsWell(r) /\ Overtaken(r)
    BY <1>6, <2>1, <2>3, <2>4, <2>5
    DEF SendsWell, Overtaken, SameSends, Cost, Unfinished
  <2>7. MineInv(task.at, r)
    BY <2>1, <2>6 DEF MineInv
  <2>8. QED
    BY <1>1, <1>5, <1>7, <1>8, <2>2, <2>6, <2>7 DEF IInv, SendInv
<1>12. QED
  BY <1>10, <1>11

-----------------------------------------------------------------------------
(* The client's steps between its changes of the list.                     *)
LEMMA ClientHas ==
  ASSUME IInv, task.at # "idle"
  PROVE  /\ task.socket \in Ids /\ task.socket # 1 /\ Mine = conn[task.socket]
         /\ Mine \in Connections /\ task \in Tasks
         /\ TypeInv /\ ListInv /\ ChainInv
         /\ SendsWell(Mine) /\ MineInv(task.at, Mine)
BY IdsAre DEF IInv, ListInv, TaskInv, Mine, TypeInv, SendInv

(* The client writes r to its connection and goes to place at.             *)
LEMMA MineStep ==
  ASSUME IInv, task.at # "idle", NEW r \in Connections,
         r.next = Mine.next, r.port = Mine.port, r.peer = Mine.peer,
         SetMine(r), task' \in Tasks,
         task'.at \notin {"store_head", "store_next"},
         task'.at # "idle" => task'.socket = task.socket,
         UNCHANGED <<list, syn_count>>,
         SendsWell(r), MineInv(task'.at, r)
  PROVE  IInv' /\ SameList /\ TaskGoesOn
<1>1. /\ task.socket \in Ids /\ task.socket # 1 /\ Mine = conn[task.socket]
      /\ TypeInv /\ ListInv /\ ChainInv
  BY ClientHas
<1>2. conn' = [conn EXCEPT ![task.socket] = r]
  BY DEF SetMine
<1>3. PICK c \in Ids : c = task.socket
  BY <1>1
<1>4. SameList /\ conn'[c] = r /\ Ids' = Ids /\ \A d \in Ids \ {c} : conn'[d] = conn[d]
  BY <1>1, <1>2, <1>3, SetRecord
<1>5. TaskGoesOn
  BY <1>1 DEF TaskGoesOn
<1>6. TypeInv' /\ ListInv'
  BY <1>1, <1>4, <1>5, SameListStep
<1>7. SendInv'
  <2>1. SendInv
    BY DEF IInv
  <2>2. \A d \in Ids' : SendsWell(conn'[d])
    BY <1>4, <2>1 DEF SendInv
  <2>3. task'.at # "idle" => Mine' = r
    BY <1>3, <1>4 DEF Mine
  <2>4. QED
    BY <2>2, <2>3 DEF SendInv
<1>8. QED
  BY <1>4, <1>5, <1>6, <1>7 DEF IInv

LEMMA SendSynStep ==
  ASSUME IInv, SendSyn
  PROVE  IInv' /\ SameList /\ TaskGoesOn
<1> DEFINE r == [Mine EXCEPT !.state = "SYN_SENT"]
<1>1. task.at = "syn_sent" /\ task' = [task EXCEPT !.at = "established"] /\ SetMine(r)
      /\ UNCHANGED <<list, syn_count>>
  BY DEF SendSyn, At
<1>2. /\ Mine \in Connections /\ task \in Tasks /\ SendsWell(Mine)
      /\ Mine.state = "CLOSED" /\ ~Mine.reopened
  BY <1>1, ClientHas DEF MineInv
<1>3. /\ SameSends(r, Mine) /\ r.state = "SYN_SENT" /\ r.fins = Mine.fins
      /\ r.raced = Mine.raced /\ r.reopened = Mine.reopened
  <2>1. "SYN_SENT" \in States
    BY DEF States
  <2>2. QED
    BY <1>2, <2>1, ToState, ZenonT(60)
<1> HIDE DEF r
<1>4. SendsWell(r) /\ ~r.raced
  BY <1>2, <1>3 DEF SendsWell, SameSends, Unfinished
<1>5. task' \in Tasks /\ task'.at = "established" /\ task'.socket = task.socket
  BY <1>1, <1>2 DEF Tasks
<1>6. MineInv(task'.at, r)
  BY <1>2, <1>3, <1>4, <1>5 DEF MineInv
<1>7. QED
  BY <1>1, <1>3, <1>4, <1>5, <1>6, MineStep DEF SameSends

(* The FIN that connect forgets, if there was one, is paid for.            *)
LEMMA SetEstablishedStep ==
  ASSUME IInv, SetEstablished
  PROVE  IInv' /\ SameList /\ TaskGoesOn
<1>1. task.at = "established" /\ task' = [task EXCEPT !.at = "open"]
      /\ UNCHANGED <<list, syn_count>>
  BY DEF SetEstablished, At
<1>2. /\ Mine \in Connections /\ task \in Tasks /\ SendsWell(Mine)
      /\ Mine.state \in {"SYN_SENT", "ESTABLISHED", "LAST_ACK"}
      /\ ~Mine.raced /\ ~Mine.reopened
  BY <1>1, ClientHas DEF MineInv
<1>3. PICK b \in BOOLEAN : b = (Mine.state = "LAST_ACK")
  OBVIOUS
<1>4. PICK r : r = [Mine EXCEPT !.state = "ESTABLISHED", !.reopened = b]
  OBVIOUS
<1>5. SetMine(r)
  BY <1>3, <1>4 DEF SetEstablished
<1>6. /\ SameSends(r, Mine) /\ r.state = "ESTABLISHED" /\ r.fins = Mine.fins
      /\ r.raced = Mine.raced /\ r.reopened = b
  <2>1. PICK m \in Connections : m = Mine
    BY <1>2
  <2>2. PICK q \in States : q = "ESTABLISHED"
    BY DEF States
  <2>3. LET t == [m EXCEPT !.state = q, !.reopened = b]
        IN  /\ SameSends(t, m) /\ t.state = q /\ t.fins = m.fins
            /\ t.raced = m.raced /\ t.reopened = b
    BY DEF Connections, SameSends
  <2>4. QED
    BY <1>4, <2>1, <2>2, <2>3
<1>7. SendsWell(r)
  <2>1. Mine.fins \in Nat /\ Mine.late \in Nat
    BY <1>2 DEF Connections
  <2>2. Mine.late <= 0 /\ Mine.fins <= 1
    BY <1>2, <2>1 DEF SendsWell, Cost
  <2>3. Mine.state # "LAST_ACK" => Mine.fins <= 0
    BY <1>2, <2>1 DEF SendsWell, Unfinished, Cost
  <2>4. Mine.fins <= Cost(b)
    BY <1>3, <2>2, <2>3 DEF Cost
  <2>5. QED
    BY <1>2, <1>6, <2>1, <2>2, <2>4 DEF SendsWell, SameSends, Cost
<1>8. task' \in Tasks /\ task'.at = "open" /\ task'.socket = task.socket
  BY <1>1, <1>2 DEF Tasks
<1>9. MineInv(task'.at, r)
  BY <1>8 DEF MineInv
<1>10. QED
  BY <1>1, <1>5, <1>6, <1>7, <1>8, <1>9, MineStep DEF SameSends

(* With the connection established the data fits in what is left of the    *)
(* window; when a FIN came first, one send goes out past it.               *)
LEMMA SentIs ==
  ASSUME NEW n \in 0 .. MAX_SEND \cup 0 .. WINDOW, Mine \in Connections, SendsWell(Mine),
         \/ Mine.state = "ESTABLISHED" /\ n <= Window
         \/ Overtaken(Mine) /\ n <= MAX_SEND
  PROVE  /\ Sent(n) \in Connections /\ Sent(n).next = Mine.next
         /\ Sent(n).port = Mine.port /\ Sent(n).peer = Mine.peer
         /\ SendsWell(Sent(n))
<1> DEFINE start == IF Mine.state = "ESTABLISHED" THEN Mine.send_window_start + n
                                                  ELSE Mine.send_window_start
           after == IF n > 0 /\ Mine.fins > 0 THEN Mine.late + 1 ELSE Mine.late
<1>1. /\ WINDOW \in Nat /\ MAX_SEND \in Nat /\ n \in Nat
      /\ Mine.send_window_start \in 0 .. WINDOW /\ Mine.sent \in Nat
      /\ Mine.late \in Nat /\ Mine.fins \in Nat
      /\ Mine.raced \in BOOLEAN /\ Mine.reopened \in BOOLEAN
  BY TCPAssumption DEF Connections
<1>2. start \in 0 .. WINDOW
  BY <1>1 DEF Window, Overtaken
<1>3. after \in Nat
  BY <1>1
<1>4. Sent(n) = [Mine EXCEPT !.sent = Mine.sent + n, !.late = after,
                             !.send_window_start = start]
  BY DEF Sent
<1> HIDE DEF start, after
<1>5. /\ Sent(n) \in Connections /\ Sent(n).next = Mine.next
      /\ Sent(n).port = Mine.port /\ Sent(n).peer = Mine.peer
      /\ Sent(n).state = Mine.state /\ Sent(n).fins = Mine.fins
      /\ Sent(n).raced = Mine.raced /\ Sent(n).reopened = Mine.reopened
      /\ Sent(n).sent = Mine.sent + n /\ Sent(n).send_window_start = start
      /\ Sent(n).late = after
  <2>1. PICK m \in Connections, k \in Nat, w \in 0 .. WINDOW, late \in Nat :
          m = Mine /\ k = Mine.sent + n /\ w = start /\ late = after
    BY <1>1, <1>2, <1>3
  <2>2. Sent(n) = [m EXCEPT !.sent = k, !.late = late, !.send_window_start = w]
    BY <1>4, <2>1, Zenon
  <2>3. LET s == [m EXCEPT !.sent = k, !.late = late, !.send_window_start = w]
        IN  /\ s \in Connections /\ s.next = m.next /\ s.port = m.port
            /\ s.peer = m.peer /\ s.state = m.state /\ s.fins = m.fins
            /\ s.raced = m.raced /\ s.reopened = m.reopened
            /\ s.sent = k /\ s.send_window_start = w /\ s.late = late
    BY DEF Connections
  <2>4. QED
    BY <2>1, <2>2, <2>3
<1>6. SendsWell(Sent(n))
  <2>1. CASE Mine.state = "ESTABLISHED" /\ n <= Window
    <3>1. /\ ~Mine.raced /\ Mine.fins <= Cost(Mine.reopened)
          /\ Mine.sent = Mine.send_window_start
      BY <2>1 DEF SendsWell, Unfinished
    <3>2. start = Mine.send_window_start + n /\ start <= WINDOW
      BY <1>1, <1>2, <2>1 DEF start
    <3>3. ~Mine.reopened => after = Mine.late
      BY <1>1, <3>1 DEF after, Cost
    <3>4. QED
      BY <1>1, <1>5, <2>1, <3>1, <3>2, <3>3 DEF SendsWell, Cost
  <2>2. CASE Overtaken(Mine) /\ n <= MAX_SEND
    <3>1. /\ Mine.state = "LAST_ACK" /\ Mine.raced /\ Mine.sent <= WINDOW
          /\ ~Mine.reopened => Mine.late = 0
      BY <2>2 DEF Overtaken
    <3>2. ~Mine.reopened => after <= 1
      BY <1>1, <3>1 DEF after
    <3>3. Mine.sent + n <= WINDOW + MAX_SEND
      BY <1>1, <2>2, <3>1
    <3>4. QED
      BY <1>1, <1>5, <3>1, <3>2, <3>3 DEF SendsWell, Cost, Unfinished
  <2>3. QED
    BY <2>1, <2>2
<1>7. QED
  BY <1>5, <1>6

LEMMA SendPacketStep ==
  ASSUME IInv, SendPacket
  PROVE  IInv' /\ SameList /\ TaskGoesOn
<1>1. task.at = "sending" /\ task' = [task EXCEPT !.at = "open"]
      /\ UNCHANGED <<list, syn_count>>
  BY DEF SendPacket, At
<1>2. /\ Mine \in Connections /\ task \in Tasks /\ SendsWell(Mine)
      /\ Mine.state = "ESTABLISHED" \/ Overtaken(Mine)
  BY <1>1, ClientHas DEF MineInv
<1>3. task.size \in 0 .. MAX_SEND /\ Window \in 0 .. WINDOW /\ MAX_SEND \in Nat
  BY <1>2, TCPAssumption DEF Tasks, Window, Connections
<1>4. PICK n \in 0 .. MAX_SEND \cup 0 .. WINDOW :
        /\ SetMine(Sent(n))
        /\ \/ Mine.state = "ESTABLISHED" /\ n <= Window
           \/ Overtaken(Mine) /\ n <= MAX_SEND
  <2>1. CASE Mine.state = "ESTABLISHED" /\ task.size > Window
    <3>1. SetMine(Sent(Window)) /\ Window <= Window
      BY <1>3, <2>1 DEF SendPacket
    <3>2. QED
      BY <1>3, <2>1, <3>1
  <2>2. CASE ~(Mine.state = "ESTABLISHED" /\ task.size > Window)
    <3>1. SetMine(Sent(task.size))
      BY <2>2 DEF SendPacket
    <3>2. \/ Mine.state = "ESTABLISHED" /\ task.size <= Window
          \/ Overtaken(Mine) /\ task.size <= MAX_SEND
      BY <1>2, <1>3, <2>2
    <3>3. QED
      BY <1>3, <3>1, <3>2
  <2>3. QED
    BY <2>1, <2>2
<1>5. PICK r : r = Sent(n)
  OBVIOUS
<1>6. /\ r \in Connections /\ r.next = Mine.next /\ r.port = Mine.port /\ r.peer = Mine.peer
      /\ SendsWell(r)
  BY <1>2, <1>4, <1>5, SentIs
<1>7. SetMine(r)
  BY <1>4, <1>5
<1>8. task' \in Tasks /\ task'.at = "open" /\ task'.socket = task.socket
  BY <1>1, <1>2 DEF Tasks
<1>9. MineInv(task'.at, r)
  BY <1>8 DEF MineInv
<1>10. QED
  BY <1>1, <1>6, <1>7, <1>8, <1>9, MineStep

LEMMA IdleTask == IDLE \in Tasks /\ IDLE.at = "idle"
BY TCPAssumption DEF IDLE, Tasks

LEMMA SendOurFinStep ==
  ASSUME IInv, SendOurFin
  PROVE  IInv' /\ SameList /\ TaskGoesOn
<1> DEFINE t == [Mine EXCEPT !.state = "FIN_WAIT_1"]
           r == SendFin(t)
<1>1. task.at = "fin" /\ task' = IDLE /\ SetMine(r) /\ UNCHANGED <<list, syn_count>>
  BY DEF SendOurFin
<1>2. /\ Mine \in Connections /\ task \in Tasks /\ SendsWell(Mine)
      /\ Mine.state = "ESTABLISHED" \/ Overtaken(Mine)
  BY <1>1, ClientHas DEF MineInv
<1>3. /\ SameSends(t, Mine) /\ t.state = "FIN_WAIT_1" /\ t.fins = Mine.fins
      /\ t.raced = Mine.raced /\ t.reopened = Mine.reopened
  <2>1. "FIN_WAIT_1" \in States
    BY DEF States
  <2>2. QED
    BY <1>2, <2>1, ToState, ZenonT(60)
<1> HIDE DEF t
<1>4. /\ SameSends(r, Mine) /\ r.state = "FIN_WAIT_1" /\ r.fins = Mine.fins + 1
      /\ r.raced = Mine.raced /\ r.reopened = Mine.reopened
  BY <1>3, SendFinIs DEF SameSends
<1> HIDE DEF r
<1>5. SendsWell(r)
  <2>1. /\ Mine.fins \in Nat /\ Mine.raced \in BOOLEAN /\ Mine.reopened \in BOOLEAN
    BY <1>2 DEF Connections
  <2>2. Mine.fins + 1 <= 1 + Cost(Mine.raced) + Cost(Mine.reopened)
    BY <1>2, <2>1 DEF SendsWell, Overtaken, Unfinished, Cost
  <2>3. QED
    BY <1>2, <1>4, <2>2 DEF SendsWell, SameSends, Unfinished
<1>6. MineInv(task'.at, r)
  BY <1>1, IdleTask DEF MineInv
<1>7. QED
  BY <1>1, <1>4, <1>5, <1>6, IdleTask, MineStep DEF SameSends

(* The client only goes on.                                                *)
LEMMA TaskStep ==
  ASSUME IInv, TaskGoesOn, UNCHANGED <<conn, list, syn_count>>,
         UNCHANGED task \/ MineInv(task'.at, Mine)
  PROVE  IInv' /\ SameList /\ TaskGoesOn
<1>1. TypeInv /\ ListInv /\ ChainInv /\ SendInv /\ Ids' = Ids
  BY DEF IInv, ListInv, Ids
<1>2. SameList
  BY <1>1, SameConn
<1>3. TypeInv' /\ ListInv'
  BY <1>1, <1>2, SameListStep
<1>4. task'.at # "idle" => Mine' = Mine
  BY DEF TaskGoesOn, Mine
<1>5. SendInv'
  BY <1>1, <1>4 DEF SendInv
<1>6. QED
  BY <1>2, <1>3, <1>5 DEF IInv

LEMMA SendStep ==
  ASSUME IInv, NEW n \in 1 .. MAX_SEND, Send(n)
  PROVE  IInv' /\ SameList /\ TaskGoesOn
<1>1. task.at = "open" /\ task' = [task EXCEPT !.at = "sending", !.size = n]
      /\ Mine.state = "ESTABLISHED" /\ task \in Tasks
      /\ UNCHANGED <<conn, list, syn_count>>
  BY ClientHas DEF Send
<1>2. n \in 0 .. MAX_SEND
  BY TCPAssumption
<1>3. task' \in Tasks /\ task'.at = "sending" /\ task'.socket = task.socket
  BY <1>1, <1>2 DEF Tasks
<1>4. TaskGoesOn /\ MineInv(task'.at, Mine)
  BY <1>1, <1>3 DEF TaskGoesOn, MineInv
<1>5. QED
  BY <1>1, <1>4, TaskStep

LEMMA CloseStep ==
  ASSUME IInv, Close
  PROVE  IInv' /\ SameList /\ TaskGoesOn
<1>1. /\ task.at = "open" /\ task \in Tasks
      /\ task' = [task EXCEPT !.at = IF Mine.state = "ESTABLISHED" THEN "fin" ELSE "remove"]
      /\ UNCHANGED <<conn, list, syn_count>>
  BY ClientHas DEF Close, At
<1>2. /\ task' \in Tasks /\ task'.socket = task.socket
      /\ task'.at = IF Mine.state = "ESTABLISHED" THEN "fin" ELSE "remove"
  BY <1>1 DEF Tasks
<1>3. TaskGoesOn /\ MineInv(task'.at, Mine)
  BY <1>1, <1>2 DEF TaskGoesOn, MineInv
<1>4. QED
  BY <1>1, <1>3, TaskStep

LEMMA RemoveNothingStep ==
  ASSUME IInv, RemoveNothing
  PROVE  IInv' /\ SameList /\ TaskGoesOn
<1>1. task.at = "remove" /\ task' = IDLE /\ UNCHANGED <<conn, list, syn_count>>
  BY DEF RemoveNothing
<1>2. TaskGoesOn /\ MineInv(task'.at, Mine)
  BY <1>1, IdleTask DEF TaskGoesOn, MineInv
<1>3. QED
  BY <1>1, <1>2, TaskStep

(* The listening connection is never established, so nothing is accepted.  *)
LEMMA PollAcceptStep ==
  ASSUME IInv, PollAccept
  PROVE  IInv' /\ SameList /\ TaskGoesOn
<1>1. ~Accepted(1)
  BY DEF Accepted, IInv, ListInv, ChainInv
<1>2. UNCHANGED <<conn, list, syn_count, task>>
  BY <1>1 DEF PollAccept
<1>3. QED
  BY <1>2, TaskStep DEF TaskGoesOn

LEMMA RemoveFindStep ==
  ASSUME IInv, RemoveFind
  PROVE  IInv'
<1>1. /\ task.at = "remove" /\ task.socket \in Listed
      /\ UNCHANGED <<conn, list, syn_count>>
  BY DEF RemoveFind
<1>2. PICK p \in Listed \cup {0} :
        /\ IsPlace(p, task.socket)
        /\ task' = [task EXCEPT !.at = "store_next", !.place = p, !.next = Mine.next]
  BY DEF RemoveFind
<1>3. /\ task.socket \in Ids /\ task.socket # 1 /\ Mine = conn[task.socket]
      /\ task \in Tasks /\ TypeInv /\ ListInv /\ ChainInv /\ Mine.port # PORT
      /\ Ids \subseteq Nat \ {0} /\ Listed \subseteq Ids /\ Len(conn) \in Nat
  BY <1>1, ClientHas, ListedIds, IdsAre DEF ListInv, TaskInv
<1>4. Mine.next \in 1 .. task.socket - 1 /\ Mine.next \in Nat
  <2>1. \A c \in Ids \ {1} : conn[c].next \in 1 .. c - 1
    BY <1>3 DEF ChainInv
  <2>2. Mine.next \in 1 .. task.socket - 1 /\ task.socket \in Nat
    BY <1>3, <2>1
  <2>3. QED
    BY <2>2
<1>5. p \in Nat
  BY <1>3
<1>6. /\ task' \in Tasks /\ task'.at = "store_next" /\ task'.socket = task.socket
      /\ task'.place = p /\ task'.next = Mine.next
  BY <1>2, <1>3, <1>4, <1>5 DEF Tasks
<1>7. IF p = 0 THEN connections = task.socket ELSE p \in Listed /\ conn[p].next = task.socket
  BY <1>2, <1>3 DEF IsPlace, Ids
<1>8. p # 0 => p \in Ids /\ task.socket < p
  <2> SUFFICES ASSUME p # 0 PROVE p \in Ids /\ task.socket < p
    OBVIOUS
  <2>1. p \in Ids /\ conn[p].next = task.socket
    BY <1>3, <1>7
  <2>2. QED
    BY <1>3, <2>1 DEF ChainInv
<1>9. Mine' = Mine /\ Ids' = Ids
  BY <1>1, <1>6 DEF Mine, Ids
<1>10. TypeInv'
  BY <1>1, <1>3, <1>6, <1>9 DEF TypeInv, list
<1>11. ChainInv' /\ TaskInv'
  BY <1>1, <1>3, <1>4, <1>6, <1>8, <1>9 DEF ChainInv, TaskInv, Linking, Unlinking
<1>12. ASSUME ~list_raced'
       PROVE  Links' /\ UnlinkInv'
  <2>1. Links
    BY <1>1, <1>3, <1>12 DEF list, ListInv
  <2>2. Listed = live
    BY <1>3, <2>1, ListedIsLive
  <2>3. Links'
    BY <1>1, <2>1 DEF list, Links
  <2>4. UnlinkInv'
    BY <1>1, <1>6, <1>7, <1>9, <2>2 DEF list, UnlinkInv
  <2>5. QED
    BY <2>3, <2>4
<1>13. SendInv'
  <2>1. MineInv(task'.at, Mine')
    BY <1>6 DEF MineInv
  <2>2. QED
    BY <1>1, <1>9, <2>1 DEF IInv, SendInv
<1>14. QED
  BY <1>10, <1>11, <1>12, <1>13 DEF IInv, ListInv

-----------------------------------------------------------------------------
(* A connection c is taken off: what pointed to it points to v now.  When  *)
(* the list was torn before, only the order of the links is kept.          *)
LEMMA UnlinkStep ==
  ASSUME IInv, NEW c \in Ids \ {1}, NEW p, NEW v \in 1 .. c - 1,
         p # 0 => p \in Ids /\ c < p,
         connections' = IF p = 0 THEN v ELSE connections,
         conn' = IF p = 0 THEN conn ELSE [conn EXCEPT ![p].next = v],
         live' = live \ {c}, UNCHANGED <<syn_count>>,
         UNCHANGED task \/ task' = IDLE,
         list_raced' \in BOOLEAN,
         ~list_raced' => /\ ~list_raced /\ ~Linking' /\ ~Unlinking'
                         /\ c \in live /\ v = conn[c].next
                         /\ IF p = 0 THEN connections = c
                            ELSE p \in live /\ conn[p].next = c
  PROVE  IInv'
<1>1. /\ TypeInv /\ ListInv /\ ChainInv /\ conn \in Seq(Connections)
      /\ Len(conn) \in Nat /\ Ids \subseteq Nat \ {0} /\ 1 \in Ids /\ live \subseteq Ids
      /\ \A d \in Ids : conn[d] \in Connections
  BY IdsAre DEF IInv, ListInv, TypeInv
<1>2. c \in Ids /\ c \in Nat /\ v \in Nat /\ v \in Ids
  BY <1>1 DEF Ids
<1>3. /\ conn' \in Seq(Connections) /\ Len(conn') = Len(conn)
      /\ \A d \in Ids : /\ d # p => conn'[d] = conn[d]
                        /\ d = p => conn'[d] = [conn[d] EXCEPT !.next = v]
  <2>1. CASE p = 0
    BY <1>1, <2>1
  <2>2. CASE p # 0
    <3>1. p \in 1 .. Len(conn) /\ conn[p] \in Connections
      BY <1>1, <2>2 DEF Ids
    <3>2. PICK r : r = [conn[p] EXCEPT !.next = v]
      OBVIOUS
    <3>3. r \in Connections
      BY <1>2, <3>1, <3>2 DEF Connections
    <3>4. conn' = [conn EXCEPT ![p] = r]
      BY <2>2, <3>2
    <3>5. conn' \in Seq(Connections) /\ Len(conn') = Len(conn)
      <4>1. /\ [conn EXCEPT ![p] = r] \in Seq(Connections)
            /\ Len([conn EXCEPT ![p] = r]) = Len(conn)
        BY <1>1, <3>1, <3>3, ExceptSeq
      <4>2. QED
        BY <3>4, <4>1, Zenon
    <3>6. \A d \in Ids : conn'[d] = IF d = p THEN r ELSE conn[d]
      BY <1>1, <3>1, <3>3, <3>4, ExceptSeq DEF Ids
    <3>7. QED
      BY <3>2, <3>5, <3>6
  <2>3. QED
    BY <2>1, <2>2
<1>4. \A d \in Ids :
        /\ conn'[d].next = IF d = p THEN v ELSE conn[d].next
        /\ conn'[d].port = conn[d].port /\ conn'[d].peer = conn[d].peer
        /\ SendsWell(conn[d]) => SendsWell(conn'[d])
        /\ \A q \in {task.at} : MineInv(q, conn[d]) => MineInv(q, conn'[d])
  <2>1. ASSUME NEW r \in Connections
        PROVE  LET s == [r EXCEPT !.next = v]
               IN  /\ s.next = v /\ s.port = r.port /\ s.peer = r.peer /\ s.state = r.state
                   /\ s.fins = r.fins /\ s.late = r.late /\ s.sent = r.sent
                   /\ s.raced = r.raced /\ s.reopened = r.reopened
                   /\ s.send_window_start = r.send_window_start
    BY DEF Connections
  <2>2. ASSUME NEW d \in Ids
        PROVE  /\ conn'[d].next = IF d = p THEN v ELSE conn[d].next
               /\ conn'[d].port = conn[d].port /\ conn'[d].peer = conn[d].peer
               /\ conn'[d].state = conn[d].state
               /\ conn'[d].fins = conn[d].fins /\ conn'[d].late = conn[d].late
               /\ conn'[d].raced = conn[d].raced
               /\ conn'[d].reopened = conn[d].reopened
               /\ conn'[d].sent = conn[d].sent
               /\ conn'[d].send_window_start = conn[d].send_window_start
    BY <1>1, <1>3, <2>1
  <2>3. QED
    BY <2>2 DEF SendsWell, MineInv, Overtaken
<1>5. Ids' = Ids /\ connections' \in Ids
  BY <1>1, <1>2, <1>3 DEF Ids, TypeInv
<1>6. task' \in Tasks /\ (task'.at # "idle" => UNCHANGED task)
  BY <1>1, IdleTask DEF TypeInv
<1>7. TypeInv'
  BY <1>1, <1>3, <1>5, <1>6 DEF TypeInv
<1>8. ChainInv'
  <2>1. 1 # p
    BY <1>1, <1>2
  <2>2. ASSUME NEW d \in Ids \ {1} PROVE conn'[d].next \in 1 .. d - 1
    <3>1. conn[d].next \in 1 .. d - 1 /\ d \in Nat
      BY <1>1 DEF ChainInv
    <3>2. d = p => v \in 1 .. d - 1
      BY <1>1, <1>2
    <3>3. QED
      BY <1>4, <3>1, <3>2
  <2>3. QED
    BY <1>1, <1>4, <1>5, <2>1, <2>2 DEF ChainInv
<1>9. TaskInv'
  <2>1. task'.at # "idle" => /\ UNCHANGED task /\ task.socket \in Ids \ {1}
                             /\ Mine.port # PORT /\ Mine'.port = Mine.port
    BY <1>1, <1>4, <1>6 DEF ListInv, TaskInv, Mine
  <2>2. Linking' => Linking /\ list_raced'
    BY <2>1 DEF Linking
  <2>3. Unlinking' => Unlinking
    BY <2>1 DEF Unlinking
  <2>4. QED
    BY <1>1, <1>5, <2>1, <2>2, <2>3 DEF ListInv, TaskInv, Linking, Unlinking, PORT
<1>10. ASSUME ~list_raced'
       PROVE  Links' /\ UnlinkInv'
  <2>1. Links
    BY <1>1, <1>10 DEF ListInv
  <2>2. Links'
    <3>1. \A d \in live : conn'[d].next = IF d = p THEN conn[c].next ELSE conn[d].next
      BY <1>1, <1>4, <1>10
    <3>2. connections' = IF p = 0 THEN conn[c].next ELSE connections
      BY <1>10
    <3>3. c \in live /\ c # 1
      BY <1>10
    <3>4. IF p = 0 THEN connections = c ELSE p \in live /\ conn[p].next = c
      BY <1>10
    <3>5. QED
      BY <1>1, <2>1, <3>1, <3>2, <3>3, <3>4, LinkedOut
  <2>3. UnlinkInv'
    BY <1>10 DEF UnlinkInv
  <2>4. QED
    BY <2>2, <2>3
<1>11. SendInv'
  <2>1. SendInv
    BY DEF IInv
  <2>2. task'.at # "idle" =>
          /\ UNCHANGED task /\ task.socket \in Ids
          /\ Mine = conn[task.socket] /\ Mine' = conn'[task.socket]
    BY <1>1, <1>6 DEF ListInv, TaskInv, Mine
  <2>3. QED
    BY <1>4, <1>5, <2>1, <2>2 DEF SendInv
<1>12. QED
  BY <1>7, <1>8, <1>9, <1>10, <1>11 DEF IInv, ListInv

LEMMA HandleLastStep ==
  ASSUME IInv, NEW c \in Ids \ {1}, c \in Listed, NEW flags, HandleLast(c, flags)
  PROVE  IInv'
<1>1. PICK p \in Listed \cup {0} :
        /\ IsPlace(p, c)
        /\ connections' = IF p = 0 THEN conn[c].next ELSE connections
        /\ conn' = IF p = 0 THEN conn ELSE [conn EXCEPT ![p].next = conn[c].next]
  BY DEF HandleLast
<1>2. /\ live' = live \ {c} /\ list_raced' = (list_raced \/ Linking \/ Unlinking)
      /\ UNCHANGED <<syn_count, task>>
  BY DEF HandleLast
<1>3. /\ TypeInv /\ ListInv /\ ChainInv /\ Ids \subseteq Nat \ {0} /\ Listed \subseteq Ids
  BY IdsAre, ListedIds DEF IInv, ListInv
<1>4. PICK v \in 1 .. c - 1 : v = conn[c].next
  BY <1>3 DEF ChainInv
<1>5. IF p = 0 THEN connections = c ELSE p \in Listed /\ conn[p].next = c
  BY <1>1, <1>3 DEF IsPlace
<1>6. p # 0 => p \in Ids /\ c < p
  <2> SUFFICES ASSUME p # 0 PROVE p \in Ids /\ c < p
    OBVIOUS
  <2>1. p \in Ids /\ conn[p].next = c
    BY <1>3, <1>5
  <2>2. QED
    BY <1>3, <2>1 DEF ChainInv
<1>7. list_raced' \in BOOLEAN
  BY <1>2, <1>3 DEF TypeInv
<1>8. ~list_raced' => /\ ~list_raced /\ ~Linking' /\ ~Unlinking'
                      /\ c \in live
                      /\ IF p = 0 THEN connections = c
                         ELSE p \in live /\ conn[p].next = c
  BY <1>2, <1>3, <1>5, ListedIsLive DEF Linking, Unlinking, ListInv
<1>9. /\ connections' = IF p = 0 THEN v ELSE connections
      /\ conn' = IF p = 0 THEN conn ELSE [conn EXCEPT ![p].next = v]
  BY <1>1, <1>4
<1>10. QED
  BY <1>2, <1>4, <1>6, <1>7, <1>8, <1>9, UnlinkStep

LEMMA RemoveStoreStep ==
  ASSUME IInv, RemoveStore
  PROVE  IInv'
<1>1. PICK c, p, v : c = task.socket /\ p = task.place /\ v = task.next
  OBVIOUS
<1>2. /\ Unlinking /\ task' = IDLE /\ live' = live \ {c}
      /\ UNCHANGED <<syn_count, list_raced>>
      /\ connections' = IF p = 0 THEN v ELSE connections
      /\ conn' = IF p = 0 THEN conn ELSE [conn EXCEPT ![p].next = v]
  BY <1>1 DEF RemoveStore, Unlinking
<1>3. /\ c \in Ids \ {1} /\ v \in 1 .. c - 1 /\ (p # 0 => p \in Ids /\ c < p)
      /\ Mine = conn[c] /\ list_raced \in BOOLEAN
  BY <1>1, <1>2 DEF IInv, ListInv, TaskInv, Unlinking, Mine, TypeInv
<1>4. ~list_raced => /\ c \in live /\ v = conn[c].next
                     /\ IF p = 0 THEN connections = c ELSE p \in live /\ conn[p].next = c
  BY <1>1, <1>2, <1>3 DEF IInv, ListInv, UnlinkInv
<1>5. ~Linking' /\ ~Unlinking'
  BY <1>2, IdleTask DEF Linking, Unlinking
<1>6. QED
  BY <1>2, <1>3, <1>4, <1>5, UnlinkStep

-----------------------------------------------------------------------------
(* A record of these fields is a connection.                               *)
LEMMA ConnectionIs ==
  ASSUME NEW port \in Nat, NEW peer \in Peers \cup {NOBODY}, NEW state \in States,
         NEW next \in Nat, NEW b \in BOOLEAN, NEW n \in Nat, n \in 0 .. WINDOW
  PROVE  [port |-> port, peer |-> peer, state |-> state, next |-> next,
          send_window_start |-> n, sent |-> n, fins |-> n, late |-> n,
          raced |-> b, reopened |-> b]
           \in Connections
BY DEF Connections

(* A new connection points to what is the head now.                        *)
NewHead(port, peer, state) == [New(port, peer, state) EXCEPT !.next = connections]

IsNew(r, port, peer, state) ==
  /\ r \in Connections /\ r.next = connections /\ r.port = port
  /\ r.peer = peer /\ r.state = state /\ SendsWell(r) /\ ~r.reopened

LEMMA NewIs ==
  ASSUME TypeInv, NEW port \in Nat, NEW peer \in Peers, NEW state \in Unfinished
  PROVE  IsNew(NewHead(port, peer, state), port, peer, state)
<1> SUFFICES ASSUME NEW r, r = NewHead(port, peer, state)
             PROVE  IsNew(r, port, peer, state)
  OBVIOUS
<1>1. PICK h \in Nat : h = connections
  BY IdsAre DEF TypeInv
<1>2. state \in States /\ 0 \in 0 .. WINDOW /\ peer \in Peers \cup {NOBODY}
  BY TCPAssumption DEF Unfinished, States
<1>3. r = [[port |-> port, peer |-> peer, state |-> state, next |-> 0,
            send_window_start |-> 0, sent |-> 0, fins |-> 0, late |-> 0,
            raced |-> FALSE, reopened |-> FALSE]
             EXCEPT !.next = h]
  BY <1>1 DEF New, NewHead
<1>4. r = [port |-> port, peer |-> peer, state |-> state, next |-> h,
           send_window_start |-> 0, sent |-> 0, fins |-> 0, late |-> 0,
           raced |-> FALSE, reopened |-> FALSE]
  BY <1>3
<1>5. r \in Connections
  <2>1. 0 \in Nat /\ FALSE \in BOOLEAN
    OBVIOUS
  <2>2. PICK b \in BOOLEAN, n \in Nat : b = FALSE /\ n = 0 /\ n \in 0 .. WINDOW
    BY <1>2, <2>1, Zenon
  <2>3. [port |-> port, peer |-> peer, state |-> state, next |-> h,
         send_window_start |-> n, sent |-> n, fins |-> n, late |-> n,
         raced |-> b, reopened |-> b]
           \in Connections
    BY <1>1, <1>2, <2>2, ConnectionIs, Zenon
  <2>4. r = [port |-> port, peer |-> peer, state |-> state, next |-> h,
             send_window_start |-> n, sent |-> n, fins |-> n, late |-> n,
             raced |-> b, reopened |-> b]
    BY <1>4, <2>2, Zenon
  <2>5. QED
    BY <2>3, <2>4, Zenon
<1>6. r.next = h /\ r.port = port /\ r.peer = peer /\ r.state = state
  BY <1>4
<1>7. /\ r.fins = 0 /\ r.late = 0 /\ r.sent = 0 /\ r.send_window_start = 0
      /\ ~r.raced /\ ~r.reopened
  BY <1>4
<1>8. SendsWell(r)
  BY <1>7, TCPAssumption DEF SendsWell, Cost
<1>9. QED
  BY <1>1, <1>5, <1>6, <1>7, <1>8 DEF IsNew

LEMMA Allocated ==
  ASSUME TypeInv, ChainInv, Len(conn) < MAX_CONNS,
         NEW r \in Connections, r.next = connections, conn' = Append(conn, r)
  PROVE  /\ conn' \in Seq(Connections) /\ Len(conn') = Len(conn) + 1
         /\ Len(conn') \in 1 .. MAX_CONNS
         /\ Ids' = Ids \cup {Len(conn')} /\ Len(conn') \notin Ids
         /\ \A d \in Ids : conn'[d] = conn[d]
         /\ conn'[Len(conn')] = r
         /\ ChainInv'
<1>1. /\ Len(conn) \in Nat /\ 1 \in Ids /\ conn \in Seq(Connections)
      /\ connections \in 1 .. Len(conn) /\ MAX_CONNS \in Nat
  BY IdsAre DEF TypeInv, Ids
<1>2. /\ conn' \in Seq(Connections) /\ Len(conn') = Len(conn) + 1
      /\ \A d \in 1 .. Len(conn) : conn'[d] = conn[d]
      /\ conn'[Len(conn) + 1] = r
  BY <1>1, AppendProperties
<1>3. Ids' = Ids \cup {Len(conn')} /\ Len(conn') \notin Ids
  BY <1>1, <1>2 DEF Ids
<1>4. conn'[Len(conn')].next \in 1 .. Len(conn') - 1
  BY <1>1, <1>2
<1>5. ChainInv'
  BY <1>1, <1>2, <1>3, <1>4 DEF ChainInv, Ids
<1>6. QED
  BY <1>1, <1>2, <1>3, <1>5 DEF Ids

LEMMA HandleSynStep ==
  ASSUME IInv, NEW port \in Nat, NEW peer \in Peers, HandleSyn(port, peer)
  PROVE  IInv'
<1>1. /\ Find(port, peer) = 0 /\ Len(conn) < MAX_CONNS
      /\ syn_count < MAX_SYNS /\ syn_count' = syn_count + 1
      /\ connections' = Len(conn') /\ live' = live \cup {connections'}
      /\ list_raced' = (list_raced \/ Linking \/ (Unlinking /\ task.place = 0))
      /\ UNCHANGED <<task>>
  BY DEF HandleSyn
<1>2. TypeInv /\ ListInv /\ ChainInv /\ TaskInv /\ live \subseteq Ids /\ 1 \in Ids
      /\ Ids \subseteq Nat \ {0}
  BY IdsAre DEF IInv, ListInv, TypeInv
<1>3. PICK r : r = [New(port, peer, "SYN_RECEIVED") EXCEPT !.next = connections]
  OBVIOUS
<1>4. conn' = Append(conn, r)
  BY <1>3 DEF HandleSyn
<1>5. /\ r \in Connections /\ r.next = connections /\ r.port = port
      /\ r.peer = peer /\ SendsWell(r)
  <2>1. PICK s \in Unfinished : s = "SYN_RECEIVED"
    BY DEF Unfinished
  <2>2. r = NewHead(port, peer, s)
    BY <1>3, <2>1, Zenon DEF NewHead
  <2>3. IsNew(NewHead(port, peer, s), port, peer, s)
    BY <1>2, NewIs
  <2>4. QED
    BY <2>2, <2>3 DEF IsNew
<1>6. PICK h : h = Len(conn')
  OBVIOUS
<1>7. /\ conn' \in Seq(Connections) /\ h \in 1 .. MAX_CONNS
      /\ Ids' = Ids \cup {h} /\ h \notin Ids
      /\ \A d \in Ids : conn'[d] = conn[d]
      /\ conn'[h] = r /\ ChainInv'
  BY <1>1, <1>2, <1>4, <1>5, <1>6, Allocated
<1>8. TypeInv'
  <2>1. syn_count' \in 0 .. MAX_SYNS
    BY <1>1, <1>2, TCPAssumption DEF TypeInv
  <2>2. list_raced' \in BOOLEAN
    BY <1>1, <1>2 DEF TypeInv
  <2>3. QED
    BY <1>1, <1>2, <1>6, <1>7, <2>1, <2>2 DEF TypeInv
<1>9. task.at # "idle" => task.socket \in Ids /\ Mine' = Mine
  BY <1>1, <1>2, <1>7 DEF TaskInv, Mine
<1>10. TaskInv'
  <2>1. Linking' => Linking /\ list_raced'
    BY <1>1 DEF Linking
  <2>2. task.socket \in Ids => task.socket # h
    BY <1>7
  <2>3. Unlinking' => Unlinking
    BY <1>1 DEF Unlinking
  <2>4. task.at # "idle" => task.socket \in Ids' \ {1} /\ Mine'.port # PORT'
    BY <1>2, <1>7, <1>9 DEF TaskInv, PORT
  <2>5. Linking' => task.socket \notin live'
    BY <1>1, <1>2, <1>6, <1>9, <2>1, <2>2 DEF TaskInv, Linking
  <2>6. QED
    BY <1>1, <1>2, <1>7, <2>1, <2>3, <2>4, <2>5 DEF TaskInv
<1>11. ASSUME ~list_raced'
       PROVE  Links' /\ UnlinkInv'
  <2>1. ~list_raced /\ ~Linking /\ (Unlinking => task.place # 0)
    BY <1>1, <1>11
  <2>2. Links /\ UnlinkInv
    BY <1>2, <2>1 DEF ListInv
  <2>3. Links'
    <3>1. h \notin live /\ h # 0 /\ h \in Ids'
      BY <1>2, <1>7
    <3>2. \A d \in live : conn'[d].next = conn[d].next
      BY <1>2, <1>7
    <3>3. conn'[h].next = connections
      BY <1>5, <1>7
    <3>4. connections' = h /\ live' = live \cup {h}
      BY <1>1, <1>6
    <3>5. QED
      BY <1>2, <2>2, <3>1, <3>2, <3>3, <3>4, LinkedIn
  <2>4. UnlinkInv'
    BY <1>1, <1>2, <1>7, <1>9, <2>1, <2>2 DEF UnlinkInv, Unlinking
  <2>5. QED
    BY <2>3, <2>4
<1>12. SendInv'
  <2>1. SendInv
    BY DEF IInv
  <2>2. \A d \in Ids' : SendsWell(conn'[d])
    BY <1>5, <1>7, <2>1 DEF SendInv
  <2>3. QED
    BY <1>1, <1>9, <2>1, <2>2 DEF SendInv
<1>13. QED
  BY <1>7, <1>8, <1>10, <1>11, <1>12 DEF IInv, ListInv

LEMMA ConnectStep ==
  ASSUME IInv, NEW peer \in Peers, Connect(peer)
  PROVE  IInv'
<1>1. /\ task.at = "idle" /\ Len(conn) < MAX_CONNS
      /\ UNCHANGED <<list, syn_count>>
  BY DEF Connect
<1>2. TypeInv /\ ListInv /\ ChainInv /\ live \subseteq Ids /\ 1 \in Ids
      /\ Ids \subseteq Nat \ {0} /\ Len(conn) \in Nat \ {0}
  BY IdsAre DEF IInv, ListInv, TypeInv
<1>3. PICK r : r = [New(Len(conn), peer, "CLOSED") EXCEPT !.next = connections]
  OBVIOUS
<1>4. conn' = Append(conn, r)
  BY <1>3 DEF Connect
<1>5. /\ r \in Connections /\ r.next = connections /\ r.port # PORT
      /\ r.peer = peer /\ r.state = "CLOSED" /\ SendsWell(r) /\ ~r.reopened
  <2>1. PICK n \in Nat : n = Len(conn)
    BY <1>2
  <2>2. PICK s \in Unfinished : s = "CLOSED"
    BY DEF Unfinished
  <2>3. r = NewHead(n, peer, s)
    BY <1>3, <2>1, <2>2, Zenon DEF NewHead
  <2>4. IsNew(NewHead(n, peer, s), n, peer, s)
    BY <1>2, NewIs
  <2>5. QED
    BY <1>2, <2>1, <2>2, <2>3, <2>4 DEF IsNew, PORT
<1>6. PICK h : h = Len(conn')
  OBVIOUS
<1>7. /\ conn' \in Seq(Connections) /\ h \in 1 .. MAX_CONNS
      /\ Ids' = Ids \cup {h} /\ h \notin Ids
      /\ \A d \in Ids : conn'[d] = conn[d]
      /\ conn'[h] = r /\ ChainInv'
  BY <1>1, <1>2, <1>4, <1>5, <1>6, Allocated
<1>8. /\ task' \in Tasks /\ task'.at = "store_head" /\ task'.socket = h /\ Mine' = r
  <2>1. task' = [IDLE EXCEPT !.at = "store_head", !.socket = h]
    BY <1>6 DEF Connect
  <2>2. h \in Nat
    BY <1>7
  <2>3. task' \in Tasks /\ task'.at = "store_head" /\ task'.socket = h
    BY <2>1, <2>2, IdleTask DEF Tasks
  <2>4. QED
    BY <1>7, <2>3 DEF Mine
<1>9. TypeInv'
  BY <1>1, <1>2, <1>6, <1>7, <1>8 DEF TypeInv, list
<1>10. TaskInv'
  BY <1>1, <1>2, <1>5, <1>7, <1>8 DEF TaskInv, Linking, Unlinking, list, PORT
<1>11. ASSUME ~list_raced'
       PROVE  Links' /\ UnlinkInv'
  <2>1. Links /\ \A d \in live : conn'[d] = conn[d]
    BY <1>1, <1>2, <1>7, <1>11 DEF ListInv, list
  <2>2. Links'
    BY <1>1, <2>1 DEF Links, list
  <2>3. UnlinkInv'
    BY <1>8 DEF UnlinkInv, Unlinking
  <2>4. QED
    BY <2>2, <2>3
<1>12. SendInv'
  <2>1. SendInv
    BY DEF IInv
  <2>2. \A d \in Ids' : SendsWell(conn'[d])
    BY <1>5, <1>7, <2>1 DEF SendInv
  <2>3. QED
    BY <1>5, <1>8, <2>2 DEF SendInv, MineInv
<1>13. QED
  BY <1>7, <1>9, <1>10, <1>11, <1>12 DEF IInv, ListInv

LEMMA StoreHeadStep ==
  ASSUME IInv, StoreHead
  PROVE  IInv'
<1>1. /\ task.at = "store_head" /\ task' = [task EXCEPT !.at = "syn_sent"]
      /\ connections' = task.socket /\ live' = live \cup {task.socket}
      /\ UNCHANGED <<conn, syn_count, list_raced>>
  BY DEF StoreHead, At
<1>2. /\ task.socket \in Ids /\ task.socket # 1 /\ task \in Tasks
      /\ TypeInv /\ ListInv /\ ChainInv /\ Mine = conn[task.socket]
  BY <1>1, ClientHas
<1>3. /\ task.socket \notin live /\ Mine.port # PORT
      /\ ~list_raced => Mine.next = connections
  BY <1>1, <1>2 DEF ListInv, TaskInv, Linking
<1>4. task' \in Tasks /\ task'.at = "syn_sent" /\ task'.socket = task.socket
  BY <1>1, <1>2 DEF Tasks
<1>5. Mine' = Mine /\ Ids' = Ids
  BY <1>1, <1>4 DEF Mine, Ids
<1>6. TypeInv'
  BY <1>1, <1>2, <1>4, <1>5 DEF TypeInv
<1>7. ChainInv'
  BY <1>1, <1>2, <1>5 DEF ChainInv
<1>8. TaskInv'
  BY <1>2, <1>3, <1>4, <1>5 DEF TaskInv, Linking, Unlinking, PORT
<1>9. ASSUME ~list_raced'
      PROVE  Links' /\ UnlinkInv'
  <2>1. Links /\ Mine.next = connections
    BY <1>1, <1>2, <1>3, <1>9 DEF ListInv
  <2>2. PICK h : h = task.socket
    OBVIOUS
  <2>3. /\ h \notin live /\ h # 0 /\ h \in Ids'
        /\ \A d \in live : conn'[d].next = conn[d].next
        /\ conn'[h].next = connections /\ connections' = h /\ live' = live \cup {h}
    BY <1>1, <1>2, <1>3, <1>5, <2>1, <2>2, IdsAre
  <2>4. Links'
    BY <1>2, <2>1, <2>3, LinkedIn
  <2>5. UnlinkInv'
    BY <1>4 DEF UnlinkInv, Unlinking
  <2>6. QED
    BY <2>4, <2>5
<1>10. SendInv'
  <2>1. MineInv("store_head", Mine)
    BY <1>1, ClientHas
  <2>2. MineInv("syn_sent", Mine)
    BY <2>1 DEF MineInv
  <2>3. QED
    BY <1>1, <1>4, <1>5, <2>2 DEF IInv, SendInv
<1>11. QED
  BY <1>6, <1>7, <1>8, <1>9, <1>10 DEF IInv, ListInv
-----------------------------------------------------------------------------
LEMMA InitIInv ==
  ASSUME Init
  PROVE  IInv
<1>1. PICK r : r = New(PORT, NOBODY, "LISTEN")
  OBVIOUS
<1>2. conn = <<r>> /\ Len(conn) = 1 /\ conn[1] = r /\ Ids = {1}
  BY <1>1 DEF Init, Ids
<1>3. r = [port |-> 0, peer |-> NOBODY, state |-> "LISTEN", next |-> 0,
           send_window_start |-> 0, sent |-> 0, fins |-> 0, late |-> 0,
           raced |-> FALSE, reopened |-> FALSE]
  BY <1>1 DEF New, PORT
<1>4. r \in Connections
  <2>1. "LISTEN" \in States /\ 0 \in 0 .. WINDOW /\ NOBODY \in Peers \cup {NOBODY}
    BY TCPAssumption DEF States
  <2>2. QED
    BY <1>3, <2>1 DEF Connections
<1>5. conn \in Seq(Connections)
  BY <1>2, <1>4
<1>6. TypeInv
  <2>1. /\ connections = 1 /\ live = {1} /\ syn_count = 0 /\ task = IDLE
        /\ list_raced = FALSE
    BY DEF Init
  <2>2. Len(conn) \in 1 .. MAX_CONNS /\ syn_count \in 0 .. MAX_SYNS
    BY <1>2, <2>1, TCPAssumption
  <2>3. task \in Tasks
    BY <2>1, IdleTask, Zenon
  <2>4. list_raced \in BOOLEAN
    BY <2>1, Zenon
  <2>5. connections \in Ids /\ live \subseteq Ids
    BY <1>2, <2>1
  <2>6. QED
    BY <1>5, <2>2, <2>3, <2>4, <2>5 DEF TypeInv
<1>7. ChainInv
  BY <1>2, <1>3 DEF ChainInv
<1>8. TaskInv /\ UnlinkInv
  BY IdleTask DEF Init, TaskInv, UnlinkInv, Linking, Unlinking
<1>9. Links
  BY <1>2, <1>3 DEF Init, Links
<1>10. SendInv
  <2>1. SendsWell(r)
    BY <1>3, TCPAssumption DEF SendsWell, Cost
  <2>2. QED
    BY <1>2, <2>1, IdleTask DEF Init, SendInv
<1>11. QED
  BY <1>6, <1>7, <1>8, <1>9, <1>10 DEF IInv, ListInv

LEMMA StutterStep ==
  ASSUME IInv, UNCHANGED vars
  PROVE  IInv'
<1>1. Ids' = Ids /\ Mine' = Mine
  BY DEF vars, Ids, Mine
<1>2. TypeInv' /\ ChainInv'
  BY <1>1 DEF IInv, ListInv, vars, TypeInv, ChainInv
<1>3. TaskInv' /\ UnlinkInv' = UnlinkInv
  BY <1>1 DEF IInv, ListInv, vars, TaskInv, UnlinkInv, Linking, Unlinking
<1>4. Links' = Links
  BY DEF vars, Links
<1>5. SendInv' = SendInv
  BY <1>1 DEF vars, SendInv
<1>6. QED
  BY <1>2, <1>3, <1>4, <1>5 DEF IInv, ListInv, vars

LEMMA NextStep ==
  ASSUME IInv, Next
  PROVE  IInv'
<1>1. TypeInv /\ ChainInv
  BY DEF IInv, ListInv
<1>2. CASE Client
  BY <1>2, ConnectStep, StoreHeadStep, SendSynStep, SetEstablishedStep, SendStep,
     SendPacketStep, CloseStep, SendOurFinStep, RemoveNothingStep, RemoveFindStep,
     RemoveStoreStep DEF Client
<1>3. CASE PollAccept
  BY <1>3, PollAcceptStep
<1>4. CASE Handler
  <2>1. PICK p \in Peers, port \in Ports :
          \/ \E c \in {Find(port, p)} \ {0}, f \in Flags :
               HandleSegment(c, f) \/ HandleLast(c, f)
          \/ HandleSyn(port, p)
    BY <1>4 DEF Handler
  <2>2. port \in Nat
    BY <1>1, IdsAre DEF Connections, Ports
  <2>3. ASSUME NEW c \in {Find(port, p)} \ {0}, NEW f \in Flags,
               HandleSegment(c, f) \/ HandleLast(c, f)
        PROVE  IInv'
    <3>1. c \in Listed /\ c \in Ids \ {1}
      BY <1>1, <2>3, FoundIs
    <3>2. QED
      BY <2>3, <3>1, HandleSegmentStep, HandleLastStep
  <2>4. CASE HandleSyn(port, p)
    BY <2>2, <2>4, HandleSynStep
  <2>5. QED
    BY <2>1, <2>3, <2>4
<1>5. QED
  BY <1>2, <1>3, <1>4 DEF Next

LEMMA IInvHolds == Spec => []IInv
<1>1. IInv /\ [Next]_vars => IInv'
  BY NextStep, StutterStep
<1>2. QED
  BY InitIInv, <1>1, PTL DEF Spec

(* A client that does nothing holds no connection.                         *)
Idle == task.at = "idle" => task.socket = 0

LEMMA IdleHolds == Spec => []Idle
<1>1. Init => Idle
  BY DEF Init, Idle, IDLE
<1>2. IInv /\ Idle /\ [Next]_vars => Idle'
  <2> SUFFICES ASSUME IInv, Idle, [Next]_vars PROVE Idle'
    OBVIOUS
  <2>1. task \in Tasks
    BY DEF IInv, TypeInv
  <2>2. \/ UNCHANGED task
        \/ task' = IDLE
        \/ task'.at # "idle"
    <3>1. CASE UNCHANGED vars
      BY <3>1 DEF vars
    <3>2. CASE Client
      BY <2>1, <3>2
      DEF Client, Connect, StoreHead, SendSyn, SetEstablished, Send, SendPacket,
          Close, SendOurFin, RemoveNothing, RemoveFind, RemoveStore, At, IDLE, Tasks
    <3>3. CASE PollAccept
      BY <3>3 DEF PollAccept
    <3>4. CASE Handler
      BY <3>4 DEF Handler, HandleSegment, HandleLast, HandleSyn
    <3>5. QED
      BY <3>1, <3>2, <3>3, <3>4 DEF Next
  <2>3. QED
    BY <2>2 DEF Idle, IDLE
<1>3. QED
  BY <1>1, <1>2, IInvHolds, PTL DEF Spec

-----------------------------------------------------------------------------
(* The handler's walk of the list ends, and as long as it changed the list *)
(* between no two accesses of the client it meets every connection that    *)
(* was linked and not removed, and no other: create_connection points to   *)
(* an older one, and remove_connection passes a link on to an older one    *)
(* (tcp.cpp:106-171).                                                      *)
THEOREM ListIsSound == Spec => []ListSound
<1>1. IInv /\ Idle => ListSound
  <2> SUFFICES ASSUME IInv, Idle PROVE ListSound
    OBVIOUS
  <2>1. TypeInv /\ ChainInv /\ ListInv
    BY DEF IInv, ListInv
  <2>2. \A c \in Ids : /\ conn[c].state \in States
                       /\ conn[c].next \in 0 .. Len(conn)
                       /\ conn[c].peer \in Peers \cup {NOBODY}
    <3> SUFFICES ASSUME NEW c \in Ids
                 PROVE  /\ conn[c].state \in States
                        /\ conn[c].next \in 0 .. Len(conn)
                        /\ conn[c].peer \in Peers \cup {NOBODY}
      OBVIOUS
    <3>1. conn[c] \in Connections
      BY <2>1, IdsAre
    <3>2. conn[c].next \in 0 .. Len(conn)
      <4>1. c = 1 \/ conn[c].next \in 1 .. c - 1
        BY <2>1 DEF ChainInv
      <4>2. QED
        BY <2>1, <4>1, IdsAre DEF ChainInv, Ids
    <3>3. QED
      BY <3>1, <3>2 DEF Connections
  <2>3. task.socket \in 0 .. Len(conn) /\ task.size \in 0 .. MAX_SEND
    <3>1. task \in Tasks
      BY <2>1 DEF TypeInv
    <3>2. task.socket \in Ids \cup {0}
      BY <2>1 DEF Idle, ListInv, TaskInv
    <3>3. QED
      BY <2>1, <3>1, <3>2, IdsAre DEF Tasks, Ids
  <2>4. TypeOK
    BY <2>1, <2>2, <2>3 DEF TypeOK, TypeInv
  <2>5. ListEnds
    <3>1. MAX_CONNS \in Nat /\ Len(conn) \in Nat
      BY <2>1, IdsAre
    <3>2. Walk[MAX_CONNS] \in 0 .. Len(conn) /\ Walk[MAX_CONNS] <= MAX_CONNS - MAX_CONNS
      BY <2>1, <3>1, Descends
    <3>3. QED
      BY <3>1, <3>2 DEF ListEnds
  <2>6. ListExact
    BY <2>1, ListedIsLive DEF ListExact, ListInv
  <2>7. QED
    BY <2>4, <2>5, <2>6 DEF ListSound
<1>2. QED
  BY <1>1, IInvHolds, IdleHolds, PTL

-----------------------------------------------------------------------------
(* One connection per peer holds in a torn list too.  A set P covers the   *)
(* list: it is closed under next, has the head and the links the client    *)
(* holds and may still store, and of the connections that were not removed *)
(* only such as the walk meets.  A SYN looks through all of these.         *)
Closed(P) ==
  connections \in P /\ \A c \in P : c # 1 => conn[c].next \in P

OnePeer(S) ==
  \A c, d \in S :
    conn[c].port = PORT /\ conn[d].port = PORT /\ conn[c].peer = conn[d].peer
      => c = d

Covers(P) ==
  /\ Closed(P)
  /\ P \cap live \subseteq Listed
  /\ Linking => Mine.next \in P
  /\ Unlinking => task.next \in P
  /\ OnePeer(P \cap live)

PeerInv == \E P \in SUBSET Ids : Covers(P)

(* The walk stays in every closed set, and what it meets is one itself.    *)
LEMMA ListedLeast ==
  TypeInv /\ ChainInv => \A P \in SUBSET Ids : Closed(P) => Listed \subseteq P
<1> SUFFICES ASSUME TypeInv, ChainInv, NEW P \in SUBSET Ids, Closed(P)
             PROVE  Listed \subseteq P
  OBVIOUS
<1>1. MAX_CONNS \in Nat /\ Ids \subseteq Nat \ {0} /\ conn[1].next = 0
  BY IdsAre DEF ChainInv
<1> DEFINE T == {k \in 0 .. MAX_CONNS : Walk[k] \notin P \cup {0}}
<1>2. CASE T = {}
  BY <1>2 DEF Listed
<1>3. CASE T # {}
  <2>1. PICK m \in T : \A k \in T : m <= k
    <3>1. T \in SUBSET Nat
      BY <1>1
    <3>2. QED
      BY <1>3, <3>1, LeastNatural
  <2>2. m # 0
    BY <2>1, WalkIs DEF Closed
  <2>3. m - 1 \in 0 .. MAX_CONNS /\ m \in 1 .. MAX_CONNS /\ m - 1 \notin T
    BY <1>1, <2>1, <2>2
  <2>4. Walk[m - 1] \in P \cup {0}
    BY <2>3
  <2>5. Walk[m] \in P \cup {0}
    BY <1>1, <2>3, <2>4, WalkIs DEF Closed
  <2>6. QED
    BY <2>1, <2>5
<1>4. QED
  BY <1>2, <1>3

LEMMA ListedClosed ==
  TypeInv /\ ChainInv => Listed \subseteq Ids /\ Closed(Listed)
<1> SUFFICES ASSUME TypeInv, ChainInv PROVE Listed \subseteq Ids /\ Closed(Listed)
  OBVIOUS
<1>1. /\ MAX_CONNS \in Nat /\ Len(conn) \in Nat /\ Listed \subseteq Ids
      /\ Ids \subseteq Nat \ {0} /\ connections # 0
  BY IdsAre, ListedIds DEF TypeInv
<1>2. connections \in Listed
  BY <1>1, WalkIs DEF Listed
<1>3. ASSUME NEW c \in Listed, c # 1 PROVE conn[c].next \in Listed
  <2>1. PICK k \in 0 .. MAX_CONNS : c = Walk[k]
    BY <1>3 DEF Listed
  <2>2. c \in Ids /\ c # 0 /\ conn[c].next \in 1 .. c - 1
    BY <1>1, <1>3 DEF ChainInv
  <2>3. k + 1 \in 1 .. MAX_CONNS /\ k + 1 \in 0 .. MAX_CONNS /\ (k + 1) - 1 = k
    BY <1>1, <2>1, <2>2, Descends DEF Ids
  <2>4. Walk[k + 1] = conn[c].next
    BY <2>1, <2>2, <2>3, WalkIs
  <2>5. QED
    BY <1>1, <2>2, <2>3, <2>4 DEF Listed
<1>4. QED
  BY <1>1, <1>2, <1>3 DEF Closed

(* The same after a step.                                                  *)
LEMMA ListedNext ==
  ASSUME IInv'
  PROVE  /\ Listed' \subseteq Ids' /\ Closed(Listed)'
         /\ \A P \in SUBSET Ids' : Closed(P)' => Listed' \subseteq P
<1>1. TypeInv' /\ ChainInv'
  BY DEF IInv, ListInv
<1>2. (Listed \subseteq Ids /\ Closed(Listed))'
  BY <1>1, ListedClosed, PTL
<1>3. (\A P \in SUBSET Ids : Closed(P) => Listed \subseteq P)'
  BY <1>1, ListedLeast, PTL
<1>4. QED
  BY <1>2, <1>3

(* A list that only grows loses nothing from the walk.                     *)
LEMMA ListGrows ==
  ASSUME IInv, IInv', Ids \subseteq Ids', connections \in Listed',
         \A d \in Ids : conn'[d].next = conn[d].next
  PROVE  Listed \subseteq Listed'
<1> DEFINE S == Listed' \cap Ids
<1>1. TypeInv /\ ChainInv /\ connections \in Ids /\ Ids \subseteq Nat \ {0}
  BY IdsAre DEF IInv, ListInv, TypeInv
<1>2. \A c \in Listed' : c # 1 => conn'[c].next \in Listed'
  BY ListedNext DEF Closed
<1>3. \A c \in Ids : c # 1 => conn[c].next \in Ids
  <2>1. \A c \in Ids : c # 1 => conn[c].next \in 1 .. c - 1
    BY <1>1 DEF ChainInv
  <2>2. \A c \in Ids : 1 .. c - 1 \subseteq Ids
    BY <1>1, IdsAre DEF Ids
  <2>3. QED
    BY <2>1, <2>2
<1>4. Closed(S)
  BY <1>1, <1>2, <1>3 DEF Closed
<1>5. QED
  BY <1>1, <1>4, ListedLeast

(* A cover stays one while no link of the list is written.                 *)
LEMMA KeepsCover ==
  ASSUME IInv, IInv', NEW P \in SUBSET Ids, Covers(P), Ids \subseteq Ids',
         connections' = connections, live' = live,
         \A d \in Ids : /\ conn'[d].next = conn[d].next
                        /\ conn'[d].port = conn[d].port
                        /\ conn'[d].peer = conn[d].peer,
         Linking' => Mine'.next \in P,
         Unlinking' => task'.next \in P
  PROVE  PeerInv'
<1>1. connections \in Listed'
  BY ListedNext DEF Closed
<1>2. Listed \subseteq Listed'
  BY <1>1, ListGrows
<1>3. Closed(P)'
  BY DEF Covers, Closed
<1>4. P \cap live' \subseteq Listed'
  BY <1>2 DEF Covers
<1>5. OnePeer(P \cap live)'
  BY DEF Covers, OnePeer, PORT
<1>6. Covers(P)'
  BY <1>3, <1>4, <1>5 DEF Covers
<1>7. QED
  BY <1>6 DEF PeerInv

LEMMA SamePeers ==
  ASSUME IInv, IInv', PeerInv, SameList, TaskGoesOn
  PROVE  PeerInv'
<1>1. PICK P \in SUBSET Ids : Covers(P)
  BY DEF PeerInv
<1>2. Ids' = Ids /\ connections' = connections /\ live' = live
  BY DEF SameList, Ids, list
<1>3. Linking' \/ Unlinking' => UNCHANGED task
  BY DEF TaskGoesOn, Linking, Unlinking
<1>4. Linking' => Mine'.next \in P
  <2> SUFFICES ASSUME Linking' PROVE Mine'.next \in P
    OBVIOUS
  <2>1. UNCHANGED task /\ Linking
    BY <1>3 DEF Linking
  <2>2. task.socket \in Ids
    BY <2>1, ClientHas DEF Linking
  <2>3. Mine'.next = Mine.next
    BY <2>1, <2>2 DEF Mine, SameList
  <2>4. QED
    BY <1>1, <2>1, <2>3 DEF Covers
<1>5. Unlinking' => task'.next \in P
  BY <1>1, <1>3 DEF Covers, Unlinking
<1>6. QED
  BY <1>1, <1>2, <1>4, <1>5, KeepsCover DEF SameList

LEMMA ConnectPeers ==
  ASSUME IInv, IInv', PeerInv, NEW peer \in Peers, Connect(peer)
  PROVE  PeerInv'
<1>1. PICK P \in SUBSET Ids : Covers(P)
  BY DEF PeerInv
<1>2. PICK r : r = [New(Len(conn), peer, "CLOSED") EXCEPT !.next = connections]
  OBVIOUS
<1>3. conn' = Append(conn, r) /\ connections' = connections /\ live' = live
  BY <1>2 DEF Connect, list
<1>4. r.next = connections
  BY <1>2 DEF New
<1>5. conn \in Seq(Connections) /\ Len(conn) \in Nat
  BY IdsAre DEF IInv, TypeInv
<1>6. /\ Len(conn') = Len(conn) + 1 /\ conn'[Len(conn')] = r
      /\ \A d \in Ids : conn'[d] = conn[d]
  BY <1>3, <1>5 DEF Ids
<1>7. Ids \subseteq Ids'
  BY <1>5, <1>6 DEF Ids
<1>8. task'.at = "store_head" /\ task'.socket = Len(conn')
  BY DEF Connect, IDLE
<1>9. Mine'.next = connections
  BY <1>4, <1>6, <1>8 DEF Mine
<1>10. connections \in P
  BY <1>1 DEF Covers, Closed
<1>11. QED
  BY <1>1, <1>3, <1>6, <1>7, <1>8, <1>9, <1>10, KeepsCover DEF Unlinking

LEMMA RemoveFindPeers ==
  ASSUME IInv, IInv', PeerInv, RemoveFind
  PROVE  PeerInv'
<1>1. PICK P \in SUBSET Ids : Covers(P)
  BY DEF PeerInv
<1>2. /\ task.socket \in Listed /\ task.at = "remove"
      /\ UNCHANGED <<conn, list>>
  BY DEF RemoveFind
<1>3. /\ task.socket # 1 /\ Mine = conn[task.socket] /\ task \in Tasks
      /\ TypeInv /\ ChainInv
  BY <1>2, ClientHas
<1>4. task'.at = "store_next" /\ task'.next = Mine.next
  BY <1>3 DEF RemoveFind, Tasks
<1>5. Listed \subseteq P
  BY <1>1, <1>3, ListedLeast DEF Covers
<1>6. Mine.next \in P
  BY <1>1, <1>2, <1>3, <1>5 DEF Covers, Closed
<1>7. Ids' = Ids /\ connections' = connections /\ live' = live /\ conn' = conn
  BY <1>2 DEF Ids, list
<1>8. QED
  BY <1>1, <1>4, <1>6, <1>7, KeepsCover DEF Linking

(* A SYN adds a connection in front, of a peer that none of those in P has.*)
LEMMA HandleSynPeers ==
  ASSUME IInv, IInv', PeerInv, NEW port, NEW peer, HandleSyn(port, peer)
  PROVE  PeerInv'
<1>1. PICK P \in SUBSET Ids : Covers(P)
  BY DEF PeerInv
<1>2. PICK r : r = [New(port, peer, "SYN_RECEIVED") EXCEPT !.next = connections]
  OBVIOUS
<1>3. PICK h : h = Len(conn')
  OBVIOUS
<1>4. /\ conn' = Append(conn, r) /\ connections' = h /\ live' = live \cup {h}
      /\ Find(port, peer) = 0 /\ UNCHANGED task
  BY <1>2, <1>3 DEF HandleSyn
<1>5. r.next = connections /\ r.port = port /\ r.peer = peer
  BY <1>2 DEF New
<1>6. /\ conn \in Seq(Connections) /\ Len(conn) \in Nat /\ live \subseteq Ids
      /\ TypeInv /\ ChainInv
  BY IdsAre DEF IInv, ListInv, TypeInv
<1>7. /\ h = Len(conn) + 1 /\ conn'[h] = r
      /\ \A d \in Ids : conn'[d] = conn[d]
  BY <1>3, <1>4, <1>6 DEF Ids
<1>8. Ids' = Ids \cup {h} /\ h \notin Ids /\ h # 1
  <2>1. h \in Nat /\ h # 1 /\ Ids' = 1 .. h
    BY <1>3, <1>6, <1>7, IdsAre DEF Ids
  <2>2. QED
    BY <1>6, <1>7, <2>1 DEF Ids
<1>9. PICK S : S = P \cup {h}
  OBVIOUS
<1>10. S \in SUBSET Ids'
  BY <1>8, <1>9
<1>11. Closed(S)'
  <2>1. \A c \in S : c # 1 => conn'[c].next \in S
    BY <1>1, <1>5, <1>7, <1>9 DEF Covers, Closed
  <2>2. QED
    BY <1>4, <1>9, <2>1 DEF Closed
<1>12. /\ h \in Listed' /\ connections \in Listed'
  <2>1. h \in Listed' /\ (h # 1 => conn'[h].next \in Listed')
    BY <1>4, ListedNext DEF Closed
  <2>2. QED
    BY <1>5, <1>7, <1>8, <2>1
<1>13. Listed \subseteq Listed'
  BY <1>7, <1>8, <1>12, ListGrows
<1>14. S \cap live' \subseteq Listed'
  BY <1>1, <1>4, <1>6, <1>8, <1>9, <1>12, <1>13 DEF Covers
<1>15. OnePeer(S \cap live)'
  <2>1. OnePeer(P \cap live) /\ P \cap live \subseteq Listed
    BY <1>1 DEF Covers
  <2>2. \A d \in P \cap live : ~(conn[d].port = port /\ conn[d].peer = peer)
    BY <1>4, <1>6, <2>1, FindIs
  <2>3. \A d \in P \cap live : d # h /\ conn'[d] = conn[d]
    BY <1>6, <1>7, <1>8
  <2>4. \A c \in S \cap live' : c = h \/ c \in P \cap live
    BY <1>4, <1>9
  <2> SUFFICES ASSUME NEW c \in S \cap live', NEW d \in S \cap live',
                      conn'[c].port = PORT, conn'[d].port = PORT,
                      conn'[c].peer = conn'[d].peer
               PROVE  c = d
    BY DEF OnePeer, PORT
  <2>5. CASE c = h /\ d # h
    BY <1>5, <1>7, <2>2, <2>3, <2>4, <2>5
  <2>6. CASE c # h /\ d = h
    BY <1>5, <1>7, <2>2, <2>3, <2>4, <2>6
  <2>7. CASE c # h /\ d # h
    BY <2>1, <2>3, <2>4, <2>7 DEF OnePeer
  <2>8. QED
    BY <2>5, <2>6, <2>7
<1>16. Linking' => Mine'.next \in S
  <2> SUFFICES ASSUME Linking' PROVE Mine'.next \in S
    OBVIOUS
  <2>1. Linking /\ task.socket \in Ids /\ Mine' = conn'[task.socket] /\ Mine = conn[task.socket]
    BY <1>4, ClientHas DEF Linking, Mine
  <2>2. QED
    BY <1>1, <1>7, <1>9, <2>1 DEF Covers
<1>17. Unlinking' => task'.next \in S
  BY <1>1, <1>4, <1>9 DEF Covers, Unlinking
<1>18. Covers(S)'
  BY <1>11, <1>14, <1>15, <1>16, <1>17 DEF Covers
<1>19. QED
  BY <1>10, <1>18 DEF PeerInv

(* The handler takes c off: the walk loses at most c.                      *)
LEMMA HandleLastPeers ==
  ASSUME IInv, IInv', PeerInv, NEW c \in Ids \ {1}, c \in Listed, NEW flags,
         HandleLast(c, flags)
  PROVE  PeerInv'
<1>1. PICK P \in SUBSET Ids : Covers(P)
  BY DEF PeerInv
<1>2. PICK p \in Listed \cup {0} :
        /\ IsPlace(p, c)
        /\ connections' = IF p = 0 THEN conn[c].next ELSE connections
        /\ conn' = IF p = 0 THEN conn ELSE [conn EXCEPT ![p].next = conn[c].next]
  BY DEF HandleLast
<1>3. live' = live \ {c} /\ UNCHANGED task
  BY DEF HandleLast
<1>4. /\ TypeInv /\ ChainInv /\ conn \in Seq(Connections) /\ Listed \subseteq Ids
      /\ Ids \subseteq Nat \ {0} /\ live \subseteq Ids
      /\ \A d \in Ids : conn[d] \in Connections
  BY IdsAre, ListedIds DEF IInv, ListInv, TypeInv
<1>5. PICK v \in 1 .. c - 1 : v = conn[c].next
  BY <1>4 DEF ChainInv
<1>6. IF p = 0 THEN connections = c ELSE p \in Listed /\ conn[p].next = c
  BY <1>2, <1>4 DEF IsPlace
<1>7. /\ Ids' = Ids
      /\ \A d \in Ids : /\ conn'[d].next = IF d = p THEN v ELSE conn[d].next
                        /\ conn'[d].port = conn[d].port /\ conn'[d].peer = conn[d].peer
  <2>1. CASE p = 0
    BY <1>2, <1>4, <2>1 DEF Ids
  <2>2. CASE p # 0
    <3>1. p \in 1 .. Len(conn)
      BY <1>4, <2>2 DEF Ids
    <3>2. PICK r : r = [conn[p] EXCEPT !.next = v]
      OBVIOUS
    <3>3. r.next = v /\ r.port = conn[p].port /\ r.peer = conn[p].peer
      BY <1>4, <3>1, <3>2 DEF Connections, Ids
    <3>4. conn' = [conn EXCEPT ![p] = r]
      BY <1>2, <1>5, <2>2, <3>2
    <3>5. Len(conn') = Len(conn) /\ \A d \in Ids : conn'[d] = IF d = p THEN r ELSE conn[d]
      BY <1>4, <3>1, <3>4 DEF Ids
    <3>6. QED
      BY <3>3, <3>5 DEF Ids
  <2>3. QED
    BY <2>1, <2>2
<1>8. Listed \subseteq P /\ c \in P /\ v \in P
  <2>1. Listed \subseteq P
    BY <1>1, <1>4, ListedLeast DEF Covers
  <2>2. QED
    BY <1>1, <1>5, <2>1 DEF Covers, Closed
<1>9. Closed(P)'
  BY <1>1, <1>2, <1>5, <1>7, <1>8 DEF Covers, Closed
<1>10. Listed \subseteq Listed' \cup {c}
  <2> DEFINE S == (Listed' \cap Ids) \cup (IF p = 0 \/ p \in Listed' THEN {c} ELSE {})
  <2>1. connections' \in Listed' /\ \A d \in Listed' : d # 1 => conn'[d].next \in Listed'
    BY ListedNext DEF Closed
  <2>2. \A d \in Ids : d # 1 => conn[d].next \in Ids
    <3>1. \A d \in Ids : d # 1 => conn[d].next \in 1 .. d - 1
      BY <1>4 DEF ChainInv
    <3>2. \A d \in Ids : 1 .. d - 1 \subseteq Ids
      BY <1>4, IdsAre DEF Ids
    <3>3. QED
      BY <3>1, <3>2
  <2>3. v \in Ids /\ connections \in Ids
    BY <1>4, <1>5, <2>2 DEF TypeInv
  <2>4. CASE p = 0
    <3>1. S = (Listed' \cap Ids) \cup {c}
      BY <2>4
    <3>2. connections = c /\ v \in Listed'
      BY <1>2, <1>5, <1>6, <2>1, <2>4
    <3>3. \A d \in Ids : conn'[d].next = conn[d].next
      BY <1>4, <1>7, <2>4
    <3> HIDE DEF S
    <3>4. Closed(S)
      BY <1>5, <2>1, <2>2, <2>3, <3>1, <3>2, <3>3 DEF Closed
    <3>5. QED
      BY <1>4, <3>1, <3>4, ListedLeast
  <2>5. CASE p # 0 /\ p \in Listed'
    <3>1. S = (Listed' \cap Ids) \cup {c}
      BY <2>5
    <3>2. p \in Ids /\ p # 1 /\ connections' = connections
      BY <1>2, <1>4, <1>5, <1>6, <2>5 DEF ChainInv
    <3>3. v \in Listed'
      BY <1>7, <2>1, <2>5, <3>2
    <3> HIDE DEF S
    <3>4. Closed(S)
      <4>1. \A d \in S : d # 1 => conn[d].next \in S
        BY <1>5, <1>6, <1>7, <2>1, <2>2, <2>3, <2>5, <3>1, <3>3
      <4>2. QED
        BY <2>1, <2>3, <3>1, <3>2, <4>1 DEF Closed
    <3>5. QED
      BY <1>4, <3>1, <3>4, ListedLeast
  <2>6. CASE p # 0 /\ p \notin Listed'
    <3>1. S = Listed' \cap Ids
      BY <2>6
    <3>2. connections' = connections
      BY <1>2, <2>6
    <3> HIDE DEF S
    <3>3. Closed(S)
      <4>1. \A d \in S : d # 1 => conn[d].next \in S
        BY <1>7, <2>1, <2>2, <2>6, <3>1
      <4>2. QED
        BY <2>1, <2>3, <3>1, <3>2, <4>1 DEF Closed
    <3>4. QED
      BY <1>4, <3>1, <3>3, ListedLeast
  <2>7. QED
    BY <2>4, <2>5, <2>6
<1>11. P \cap live' \subseteq Listed'
  BY <1>1, <1>3, <1>10 DEF Covers
<1>12. OnePeer(P \cap live)'
  BY <1>1, <1>3, <1>4, <1>7 DEF Covers, OnePeer, PORT
<1>13. Linking' => Mine'.next \in P
  <2> SUFFICES ASSUME Linking' PROVE Mine'.next \in P
    OBVIOUS
  <2>1. Linking /\ task.socket \in Ids /\ Mine' = conn'[task.socket] /\ Mine = conn[task.socket]
    BY <1>3, ClientHas DEF Linking, Mine
  <2>2. QED
    BY <1>1, <1>7, <1>8, <2>1 DEF Covers
<1>14. Unlinking' => task'.next \in P
  BY <1>1, <1>3 DEF Covers, Unlinking
<1>15. Covers(P)'
  BY <1>9, <1>11, <1>12, <1>13, <1>14 DEF Covers
<1>16. QED
  BY <1>7, <1>15 DEF PeerInv

(* The client stores the link it holds, over whatever the handler has      *)
(* stored since: the walk meets what is left, all of it from P.            *)
LEMMA StoreHeadPeers ==
  ASSUME IInv, IInv', PeerInv, StoreHead
  PROVE  PeerInv'
<1>1. PICK P \in SUBSET Ids : Covers(P)
  BY DEF PeerInv
<1>2. PICK h : h = task.socket
  OBVIOUS
<1>3. /\ task.at = "store_head" /\ task' = [task EXCEPT !.at = "syn_sent"]
      /\ connections' = h /\ live' = live \cup {h} /\ UNCHANGED conn
  BY <1>2 DEF StoreHead, At
<1>4. /\ h \in Ids /\ h # 1 /\ Mine = conn[h] /\ Mine.port # PORT /\ task \in Tasks
      /\ TypeInv /\ ChainInv /\ Linking
  BY <1>2, <1>3, ClientHas DEF ListInv, TaskInv, Linking
<1>5. Ids' = Ids /\ task'.at = "syn_sent"
  BY <1>3, <1>4 DEF Ids, Tasks
<1>6. PICK S : S = Listed'
  OBVIOUS
<1>7. S \in SUBSET Ids' /\ Closed(S)'
  BY <1>6, ListedNext DEF Closed
<1>8. S \subseteq P \cup {h}
  <2>1. PICK T : T = P \cup {h}
    OBVIOUS
  <2>2. conn[h].next \in P
    BY <1>1, <1>4 DEF Covers
  <2>3. Closed(T)'
    BY <1>1, <1>3, <2>1, <2>2 DEF Covers, Closed
  <2>4. T \in SUBSET Ids'
    BY <1>4, <1>5, <2>1
  <2>5. QED
    BY <1>6, <2>1, <2>3, <2>4, ListedNext
<1>9. OnePeer(S \cap live)'
  <2>1. OnePeer(P \cap live)
    BY <1>1 DEF Covers
  <2>2. \A c \in S \cap live' : c = h \/ c \in P \cap live
    BY <1>3, <1>8
  <2>3. QED
    BY <1>3, <1>4, <2>1, <2>2 DEF OnePeer, PORT
<1>10. Covers(S)'
  BY <1>5, <1>6, <1>7, <1>9 DEF Covers, Linking, Unlinking
<1>11. QED
  BY <1>7, <1>10 DEF PeerInv

LEMMA RemoveStorePeers ==
  ASSUME IInv, IInv', PeerInv, RemoveStore
  PROVE  PeerInv'
<1>1. PICK P \in SUBSET Ids : Covers(P)
  BY DEF PeerInv
<1>2. PICK c, p, v : c = task.socket /\ p = task.place /\ v = task.next
  OBVIOUS
<1>3. /\ Unlinking /\ task' = IDLE /\ live' = live \ {c}
      /\ connections' = IF p = 0 THEN v ELSE connections
      /\ conn' = IF p = 0 THEN conn ELSE [conn EXCEPT ![p].next = v]
  BY <1>2 DEF RemoveStore, Unlinking
<1>4. /\ p # 0 => p \in Ids
      /\ TypeInv /\ ChainInv /\ conn \in Seq(Connections) /\ live \subseteq Ids
      /\ Ids \subseteq Nat \ {0} /\ \A d \in Ids : conn[d] \in Connections
  BY <1>2, <1>3, IdsAre DEF IInv, ListInv, TaskInv, TypeInv
<1>5. v \in P
  BY <1>1, <1>2, <1>3 DEF Covers
<1>6. /\ Ids' = Ids
      /\ \A d \in Ids : /\ conn'[d].next = IF d = p THEN v ELSE conn[d].next
                        /\ conn'[d].port = conn[d].port /\ conn'[d].peer = conn[d].peer
  <2>1. CASE p = 0
    BY <1>3, <1>4, <2>1 DEF Ids
  <2>2. CASE p # 0
    <3>1. p \in 1 .. Len(conn)
      BY <1>4, <2>2 DEF Ids
    <3>2. PICK r : r = [conn[p] EXCEPT !.next = v]
      OBVIOUS
    <3>3. r.next = v /\ r.port = conn[p].port /\ r.peer = conn[p].peer
      BY <1>4, <3>1, <3>2 DEF Connections, Ids
    <3>4. conn' = [conn EXCEPT ![p] = r]
      BY <1>3, <2>2, <3>2
    <3>5. Len(conn') = Len(conn) /\ \A d \in Ids : conn'[d] = IF d = p THEN r ELSE conn[d]
      BY <1>4, <3>1, <3>4 DEF Ids
    <3>6. QED
      BY <3>3, <3>5 DEF Ids
  <2>3. QED
    BY <2>1, <2>2
<1>7. Closed(P)'
  BY <1>1, <1>3, <1>5, <1>6 DEF Covers, Closed
<1>8. PICK S : S = Listed'
  OBVIOUS
<1>9. S \in SUBSET Ids' /\ Closed(S)' /\ S \subseteq P
  BY <1>6, <1>7, <1>8, ListedNext DEF Closed
<1>10. OnePeer(S \cap live)'
  BY <1>1, <1>3, <1>4, <1>6, <1>9 DEF Covers, OnePeer, PORT
<1>11. Covers(S)'
  BY <1>3, <1>8, <1>9, <1>10, IdleTask DEF Covers, Linking, Unlinking
<1>12. QED
  BY <1>9, <1>11 DEF PeerInv

LEMMA LenOfOne == \A x : Len(<<x>>) = 1
OBVIOUS

LEMMA PeerInvNext ==
  ASSUME IInv, IInv', PeerInv, [Next]_vars
  PROVE  PeerInv'
<1>1. CASE UNCHANGED vars
  <2>1. UNCHANGED <<conn, list, syn_count, task>> /\ TypeInv /\ ChainInv
    BY <1>1 DEF vars, list, IInv, ListInv
  <2>2. SameList /\ TaskGoesOn
    BY <2>1, SameConn DEF TaskGoesOn
  <2>3. QED
    BY <2>2, SamePeers
<1>2. CASE Client
  BY <1>2, ConnectPeers, StoreHeadPeers, RemoveFindPeers, RemoveStorePeers, SamePeers,
     SendSynStep, SetEstablishedStep, SendStep, SendPacketStep, CloseStep,
     SendOurFinStep, RemoveNothingStep DEF Client
<1>3. CASE PollAccept
  BY <1>3, PollAcceptStep, SamePeers
<1>4. CASE Handler
  <2>1. PICK p \in Peers, port \in Ports :
          \/ \E c \in {Find(port, p)} \ {0}, f \in Flags :
               HandleSegment(c, f) \/ HandleLast(c, f)
          \/ HandleSyn(port, p)
    BY <1>4 DEF Handler
  <2>2. ASSUME NEW c \in {Find(port, p)} \ {0}, NEW f \in Flags,
               HandleSegment(c, f) \/ HandleLast(c, f)
        PROVE  PeerInv'
    <3>1. c \in Listed /\ c \in Ids \ {1}
      BY <2>2, FoundIs DEF IInv, ListInv
    <3>2. QED
      BY <2>2, <3>1, HandleSegmentStep, HandleLastPeers, SamePeers
  <2>3. CASE HandleSyn(port, p)
    BY <2>3, HandleSynPeers
  <2>4. QED
    BY <2>1, <2>2, <2>3
<1>5. QED
  BY <1>1, <1>2, <1>3, <1>4 DEF Next

(* On the list a peer never has two connections to the server that were    *)
(* not removed, however many SYNs it repeats and however the handler and   *)
(* the client link and unlink inside each other: a SYN makes one only when *)
(* find_connection, which walks all of the list, found none, and a link    *)
(* that was lost takes its connection off the list with it                 *)
(* (tcp.cpp:106-171, 186-212).                                             *)
THEOREM OnePeerOneConnection == Spec => []OnePerPeer
<1>1. Init => PeerInv
  <2> SUFFICES ASSUME Init PROVE PeerInv
    OBVIOUS
  <2>1. IInv /\ Ids = {1} /\ live = {1} /\ connections = 1 /\ task.at = "idle"
    <3>1. conn = <<New(PORT, NOBODY, "LISTEN")>> /\ live = {1} /\ connections = 1 /\ task = IDLE
      BY DEF Init
    <3>2. Len(conn) = 1
      BY <3>1, Zenon, LenOfOne
    <3>3. Ids = {1}
      BY <3>2 DEF Ids
    <3>4. QED
      BY <3>1, <3>3, InitIInv, IdleTask
  <2>2. Closed({1}) /\ OnePeer({1} \cap live)
    BY <2>1 DEF Closed, OnePeer
  <2>3. {1} \cap live \subseteq Listed
    BY <2>1, ListedClosed DEF Closed, IInv, ListInv
  <2>4. Covers({1})
    BY <2>1, <2>2, <2>3 DEF Covers, Linking, Unlinking
  <2>5. QED
    BY <2>1, <2>4 DEF PeerInv
<1>2. IInv /\ IInv' /\ PeerInv /\ [Next]_vars => PeerInv'
  BY PeerInvNext
<1>3. IInv /\ PeerInv => OnePerPeer
  BY ListedLeast DEF PeerInv, Covers, OnePeer, OnePerPeer, IInv, ListInv
<1>4. QED
  BY <1>1, <1>2, <1>3, IInvHolds, PTL DEF Spec

(* One FIN and nothing after it, but for one FIN for each of two races and *)
(* one send when a FIN overtakes it; no more data than the window the      *)
(* connection began with, and one send on top of it when a FIN overtakes   *)
(* it (tcp.cpp:53-104, 252-257, 354-394).                                  *)
THEOREM SendsStayInBounds == Spec => []SendsInBounds
<1>1. IInv => SendsInBounds
  <2> SUFFICES ASSUME IInv, NEW c \in Ids
               PROVE  /\ conn[c].fins <= 1 + Cost(conn[c].raced) + Cost(conn[c].reopened)
                      /\ ~conn[c].reopened => conn[c].late <= Cost(conn[c].raced)
                      /\ conn[c].sent <= WINDOW + MAX_SEND * Cost(conn[c].raced)
    BY DEF SendsInBounds, FinIsLast, WindowKept
  <2>1. SendsWell(conn[c])
    BY DEF IInv, SendInv
  <2>2. conn[c].sent <= WINDOW + MAX_SEND * Cost(conn[c].raced)
    <3>1. WINDOW \in Nat /\ MAX_SEND \in Nat /\ MAX_SEND * 1 = MAX_SEND /\ MAX_SEND * 0 = 0
      BY TCPAssumption
    <3>2. CASE conn[c].raced
      BY <2>1, <3>1, <3>2 DEF SendsWell, Cost
    <3>3. CASE ~conn[c].raced
      BY <2>1, <3>1, <3>3 DEF SendsWell, Cost
    <3>4. QED
      BY <3>2, <3>3
  <2>3. QED
    BY <2>1, <2>2 DEF SendsWell
<1>2. QED
  BY <1>1, IInvHolds, PTL
=============================================================================
