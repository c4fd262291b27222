--------------------------- MODULE NetworkProofs ----------------------------
(***************************************************************************)
(* Proofs about Network for rings of every length, every set of hosts and  *)
(* offers, and any number of commands, frames and echo requests.           *)
(***************************************************************************)
EXTENDS Network, SequenceTheorems, NaturalsInduction,
        WellFoundedInduction, TLAPS

(* Every nonempty set of natural numbers has a least element.              *)
LEMMA LeastNatural ==
  ASSUME NEW T \in SUBSET Nat, T # {}
  PROVE  \E m \in T : \A k \in T : m <= k
<1> DEFINE R == OpToRel(<, Nat)
<1>1. IsWellFoundedOn(R, Nat)
  BY NatLessThanWellFounded
<1>2. ASSUME NEW a \in Nat, NEW b \in Nat, a < b
      PROVE  <<a, b>> \in R
  BY <1>2, Zenon DEF OpToRel
<1> HIDE DEF R
<1>3. PICK m \in T : \A k \in T : ~ (<<k, m>> \in R)
  BY <1>1, WFMin
<1>4. \A k \in T : ~ (k < m)
  BY <1>2, <1>3
<1>5. QED
  BY <1>4

(* Inside two turns of a ring the remainder is at most one subtraction.    *)
LEMMA RemainderIs ==
  ASSUME NEW n \in Nat \ {0}, NEW x \in 0 .. 2 * n - 1
  PROVE  /\ x % n = IF x < n THEN x ELSE x - n
         /\ x % n \in 0 .. n - 1
<1>1. CASE x < n
  BY <1>1
<1>2. CASE x >= n
  <2> DEFINE q == x \div n
             r == x % n
  <2>1. q \in Nat /\ r \in Nat /\ r < n /\ x = n * q + r
    OBVIOUS
  <2> HIDE DEF q, r
  <2>2. q # 0
    BY <1>2, <2>1
  <2>3. ~(q >= 2)
    <3> SUFFICES ASSUME q >= 2 PROVE FALSE
      OBVIOUS
    <3>1. n * q >= n * 2
      BY <2>1
    <3>2. QED
      BY <2>1, <3>1
  <2>4. q = 1
    BY <2>1, <2>2, <2>3
  <2>5. r = x - n /\ r \in 0 .. n - 1
    BY <1>2, <2>1, <2>4
  <2>6. QED
    BY <1>2, <2>5 DEF r
<1>3. QED
  BY <1>1, <1>2

Rem(x, n) == x % n

LEMMA RemIs ==
  ASSUME NEW n \in Nat \ {0}, NEW x \in 0 .. 2 * n - 1
  PROVE  /\ x < n => Rem(x, n) = x
         /\ x >= n => Rem(x, n) = x - n
         /\ Rem(x, n) \in 0 .. n - 1
<1>1. Rem(x, n) = x % n
  BY DEF Rem
<1>2. /\ Rem(x, n) = IF x < n THEN x ELSE x - n
      /\ Rem(x, n) \in 0 .. n - 1
  BY <1>1, RemainderIs, Zenon
<1>3. QED
  BY <1>2

(* The place of a slot seen from another one.                              *)
Slot(from, k, size) == (from + k - 1) % size

LEMMA SlotIs ==
  ASSUME NEW size \in Nat \ {0}, NEW from \in 0 .. size - 1, NEW k \in 1 .. size + 1
  PROVE  /\ from + k - 1 < size => Slot(from, k, size) = from + k - 1
         /\ from + k - 1 >= size => Slot(from, k, size) = from + k - 1 - size
         /\ Slot(from, k, size) \in 0 .. size - 1
<1>1. PICK x : x = from + k - 1
  OBVIOUS
<1>2. x \in 0 .. 2 * size - 1
  BY <1>1
<1>3. Slot(from, k, size) = Rem(x, size)
  BY <1>1, Zenon DEF Slot, Rem
<1>4. /\ x < size => Rem(x, size) = x
      /\ x >= size => Rem(x, size) = x - size
      /\ Rem(x, size) \in 0 .. size - 1
  BY <1>2, RemIs
<1>5. QED
  BY <1>1, <1>3, <1>4

LEMMA SlotsDiffer ==
  ASSUME NEW size \in Nat \ {0}, NEW from \in 0 .. size - 1,
         NEW j \in 1 .. size, NEW k \in 1 .. size, Slot(from, j, size) = Slot(from, k, size)
  PROVE  j = k
<1>1. j \in 1 .. size + 1 /\ k \in 1 .. size + 1
  OBVIOUS
<1>2. /\ from + j - 1 < size => Slot(from, j, size) = from + j - 1
      /\ from + j - 1 >= size => Slot(from, j, size) = from + j - 1 - size
      /\ from + k - 1 < size => Slot(from, k, size) = from + k - 1
      /\ from + k - 1 >= size => Slot(from, k, size) = from + k - 1 - size
  BY <1>1, SlotIs
<1>3. QED
  BY <1>2

Slots(F) == [own : BOOLEAN, frame : F]

(* A ring, and frames that may be in it from a slot on.                    *)
IsRing(ring, from, size, F, q) ==
  /\ size \in Nat \ {0} /\ from \in 0 .. size - 1
  /\ ring \in [0 .. size - 1 -> Slots(F)] /\ q \in Seq(F)

(* The slot after the frames takes one more.                               *)
Put(ring, i, own, f) == [ring EXCEPT ![i] = [own |-> own, frame |-> f]]

LEMMA RingPut ==
  ASSUME NEW ring, NEW from, NEW size, NEW F, NEW q, IsRing(ring, from, size, F, q),
         NEW own, InRing(ring, from, size, own, q),
         NEW i, i = Rem(from + Len(q), size), ring[i].own # own,
         NEW f \in F
  PROVE  /\ InRing(Put(ring, i, own, f), from, size, own, Append(q, f))
         /\ Rem(i + 1, size) = Rem(from + Len(Append(q, f)), size)
<1> DEFINE slot == [own |-> own, frame |-> f]
           new  == [ring EXCEPT ![i] = slot]
<1> USE DEF IsRing
<1>1. Len(q) \in Nat /\ Len(q) <= size
  BY DEF InRing
<1>2. i = Slot(from, Len(q) + 1, size) /\ i \in 0 .. size - 1
  <2>1. Len(q) + 1 \in 1 .. size + 1 /\ from + (Len(q) + 1) - 1 = from + Len(q)
    BY <1>1
  <2>2. i = Slot(from, Len(q) + 1, size)
    BY <2>1 DEF Slot, Rem
  <2>3. QED
    BY <2>1, <2>2, SlotIs
<1>3. Len(q) < size
  <2> SUFFICES ASSUME Len(q) = size PROVE FALSE
    BY <1>1
  <2>1. i = from /\ from = Slot(from, 1, size)
    BY <1>2, SlotIs
  <2>2. ring[Slot(from, 1, size)] = [own |-> own, frame |-> q[1]]
    BY DEF InRing, Slot
  <2>3. QED
    BY <2>1, <2>2
<1>4. /\ Len(Append(q, f)) = Len(q) + 1 /\ Append(q, f)[Len(q) + 1] = f
      /\ \A k \in 1 .. Len(q) : Append(q, f)[k] = q[k]
  BY AppendProperties
<1>5. \A k \in 1 .. size : new[Slot(from, k, size)] =
                           IF k = Len(q) + 1 THEN slot ELSE ring[Slot(from, k, size)]
  <2> SUFFICES ASSUME NEW k \in 1 .. size
               PROVE  new[Slot(from, k, size)] =
                        IF k = Len(q) + 1 THEN slot ELSE ring[Slot(from, k, size)]
    OBVIOUS
  <2>1. Slot(from, k, size) \in 0 .. size - 1
    <3>1. k \in 1 .. size + 1
      OBVIOUS
    <3>2. QED
      BY <3>1, SlotIs
  <2>2. Slot(from, k, size) = i <=> k = Len(q) + 1
    BY <1>1, <1>2, <1>3, SlotsDiffer
  <2> HIDE DEF slot
  <2>3. QED
    BY <2>1, <2>2
<1>6. InRing(new, from, size, own, Append(q, f))
  <2> HIDE DEF new
  <2>1. PICK r : r = Append(q, f)
    OBVIOUS
  <2>2. Len(r) = Len(q) + 1 /\ r[Len(q) + 1] = f /\ \A k \in 1 .. Len(q) : r[k] = q[k]
    BY <1>4, <2>1, Zenon
  <2>3. ASSUME NEW k \in 1 .. size
        PROVE  IF k <= Len(r)
               THEN new[Slot(from, k, size)] = [own |-> own, frame |-> r[k]]
               ELSE new[Slot(from, k, size)].own # own
    <3>1. CASE k = Len(q) + 1
      BY <1>1, <1>5, <2>2, <3>1
    <3>2. CASE k # Len(q) + 1
      <4>1. new[Slot(from, k, size)] = ring[Slot(from, k, size)]
        BY <1>5, <3>2
      <4>2. IF k <= Len(q) THEN ring[Slot(from, k, size)] = [own |-> own, frame |-> q[k]]
            ELSE ring[Slot(from, k, size)].own # own
        BY DEF InRing, Slot
      <4>3. QED
        BY <1>1, <2>2, <3>2, <4>1, <4>2
    <3>3. QED
      BY <3>1, <3>2
  <2>4. InRing(new, from, size, own, r)
    <3>1. Len(r) <= size
      BY <1>1, <1>3, <2>2
    <3>2. \A k \in 1 .. size :
            IF k <= Len(r)
            THEN new[(from + k - 1) % size] = [own |-> own, frame |-> r[k]]
            ELSE new[(from + k - 1) % size].own # own
      BY <2>3, Zenon DEF Slot
    <3>3. QED
      BY <3>1, <3>2 DEF InRing
  <2>5. QED
    BY <2>1, <2>4, Zenon
<1>7. Rem(i + 1, size) = Rem(from + Len(Append(q, f)), size)
  <2>1. /\ from + Len(q) < size => i = from + Len(q)
        /\ from + Len(q) >= size => i = from + Len(q) - size
    <3>1. PICK x \in 0 .. 2 * size - 1 : x = from + Len(q)
      BY <1>1
    <3>2. /\ x < size => Rem(x, size) = x
          /\ x >= size => Rem(x, size) = x - size
      BY RemIs
    <3>3. i = Rem(x, size)
      BY <3>1, Zenon
    <3>4. QED
      BY <3>1, <3>2, <3>3
  <2>2. i + 1 \in 0 .. 2 * size - 1 /\ from + Len(q) + 1 \in 0 .. 2 * size - 1
    BY <1>1, <1>2, <1>3
  <2>3. PICK a, b : a = i + 1 /\ b = from + Len(q) + 1
    OBVIOUS
  <2>4. /\ (a < size => Rem(a, size) = a) /\ (a >= size => Rem(a, size) = a - size)
        /\ (b < size => Rem(b, size) = b) /\ (b >= size => Rem(b, size) = b - size)
    BY <2>2, <2>3, RemIs
  <2>5. Rem(a, size) = Rem(b, size)
    BY <1>1, <1>2, <1>3, <2>1, <2>3, <2>4
  <2>6. from + Len(Append(q, f)) = b
    BY <1>1, <1>4, <2>3
  <2>7. QED
    BY <2>3, <2>5, <2>6
<1>8. QED
  BY <1>6, <1>7, Zenon DEF Put

(* The first slot gives up its frame.                                      *)
LEMMA RingTake ==
  ASSUME NEW ring, NEW from, NEW size, NEW F, NEW q, IsRing(ring, from, size, F, q),
         NEW own, InRing(ring, from, size, own, q), ring[from].own = own,
         NEW slot \in Slots(F), slot.own # own
  PROVE  /\ q # <<>> /\ ring[from].frame = Head(q)
         /\ InRing([ring EXCEPT ![from] = slot], Rem(from + 1, size), size, own, Tail(q))
         /\ Rem(from + Len(q), size) = Rem(Rem(from + 1, size) + Len(Tail(q)), size)
         /\ Rem(from + 1, size) \in 0 .. size - 1
<1> DEFINE new == [ring EXCEPT ![from] = slot]
<1> USE DEF IsRing
<1>1. Len(q) \in Nat /\ Len(q) <= size
  BY DEF InRing
<1>2. from = Slot(from, 1, size)
  BY SlotIs
<1>3. Len(q) # 0
  <2> SUFFICES ASSUME Len(q) = 0 PROVE FALSE
    OBVIOUS
  <2>1. 1 \in 1 .. size /\ ~(1 <= Len(q))
    BY <1>1
  <2>2. ring[Slot(from, 1, size)].own # own
    BY <2>1 DEF InRing, Slot
  <2>3. QED
    BY <1>2, <2>2
<1>4. q # <<>> /\ ring[from].frame = Head(q)
  <2>1. ring[Slot(from, 1, size)] = [own |-> own, frame |-> q[1]]
    BY <1>1, <1>3 DEF InRing, Slot
  <2>2. QED
    BY <1>2, <1>3, <2>1
<1>5. /\ Tail(q) \in Seq(F) /\ Len(Tail(q)) = Len(q) - 1
      /\ \A k \in 1 .. Len(q) - 1 : Tail(q)[k] = q[k + 1]
  BY <1>4, HeadTailProperties
<1>6. PICK next : next = Rem(from + 1, size)
  OBVIOUS
<1>7. (from + 1 < size => next = from + 1) /\ (from + 1 >= size => next = 0)
  <2>1. from + 1 \in 0 .. 2 * size - 1
    OBVIOUS
  <2>2. /\ from + 1 < size => next = from + 1
        /\ from + 1 >= size => next = (from + 1) - size
    BY <1>6, <2>1, RemIs
  <2>3. QED
    BY <2>2
<1>8. next \in 0 .. size - 1
  BY <1>7
<1>9. \A k \in 1 .. size - 1 : Slot(next, k, size) = Slot(from, k + 1, size)
  <2> SUFFICES ASSUME NEW k \in 1 .. size - 1
               PROVE  Slot(next, k, size) = Slot(from, k + 1, size)
    OBVIOUS
  <2>1. k \in 1 .. size + 1 /\ k + 1 \in 1 .. size + 1
    OBVIOUS
  <2>2. /\ next + k - 1 < size => Slot(next, k, size) = next + k - 1
        /\ next + k - 1 >= size => Slot(next, k, size) = next + k - 1 - size
    BY <1>8, <2>1, SlotIs
  <2>3. PICK m \in 1 .. size + 1 : m = k + 1
    BY <2>1
  <2>4. /\ from + m - 1 < size => Slot(from, m, size) = from + m - 1
        /\ from + m - 1 >= size => Slot(from, m, size) = from + m - 1 - size
    BY SlotIs
  <2>5. QED
    BY <1>7, <2>2, <2>3, <2>4, SMTT(30)
<1>10. Slot(next, size, size) = from
  <2>1. size \in 1 .. size + 1
    OBVIOUS
  <2>2. /\ next + size - 1 < size => Slot(next, size, size) = next + size - 1
        /\ next + size - 1 >= size => Slot(next, size, size) = next + size - 1 - size
    BY <1>8, <2>1, SlotIs
  <2>3. QED
    BY <1>7, <2>2
<1>11. InRing(new, next, size, own, Tail(q))
  <2> SUFFICES ASSUME NEW k \in 1 .. size
               PROVE  IF k <= Len(Tail(q))
                      THEN new[Slot(next, k, size)] = [own |-> own, frame |-> Tail(q)[k]]
                      ELSE new[Slot(next, k, size)].own # own
    BY <1>1, <1>3, <1>5 DEF InRing, Slot
  <2>1. CASE k = size
    <3>1. new[Slot(next, k, size)] = slot
      BY <1>10, <2>1
    <3>2. QED
      BY <1>1, <1>5, <2>1, <3>1
  <2>2. CASE k # size
    <3>1. k \in 1 .. size - 1 /\ k + 1 \in 1 .. size /\ k + 1 # 1
      BY <2>2
    <3>2. Slot(from, k + 1, size) \in 0 .. size - 1 /\ Slot(from, k + 1, size) # from
      <4>1. PICK m \in 1 .. size : m = k + 1
        BY <3>1
      <4>2. m \in 1 .. size + 1 /\ 1 \in 1 .. size /\ m # 1
        BY <4>1
      <4>3. Slot(from, m, size) \in 0 .. size - 1 /\ Slot(from, m, size) # Slot(from, 1, size)
        BY <4>2, SlotIs, SlotsDiffer
      <4>4. QED
        BY <1>2, <4>1, <4>3, Zenon
    <3>3. new[Slot(next, k, size)] = ring[Slot(from, k + 1, size)]
      BY <1>9, <3>1, <3>2
    <3>4. IF k + 1 <= Len(q)
          THEN ring[Slot(from, k + 1, size)] = [own |-> own, frame |-> q[k + 1]]
          ELSE ring[Slot(from, k + 1, size)].own # own
      BY <3>1 DEF InRing, Slot
    <3> HIDE DEF new
    <3>5. QED
      BY <1>1, <1>5, <3>1, <3>3, <3>4
  <2>3. QED
    BY <2>1, <2>2
<1>12. Rem(from + Len(q), size) = Rem(next + Len(Tail(q)), size)
  <2>1. PICK a, b : a = from + Len(q) /\ b = next + (Len(q) - 1)
    OBVIOUS
  <2>2. a \in 0 .. 2 * size - 1 /\ b \in 0 .. 2 * size - 1
    BY <1>1, <1>3, <1>8, <2>1
  <2>3. /\ (a < size => Rem(a, size) = a) /\ (a >= size => Rem(a, size) = a - size)
        /\ (b < size => Rem(b, size) = b) /\ (b >= size => Rem(b, size) = b - size)
    BY <2>1, <2>2, RemIs
  <2>4. Rem(a, size) = Rem(b, size)
    BY <1>1, <1>3, <1>7, <2>1, <2>3
  <2>5. QED
    BY <1>5, <2>1, <2>4
<1>13. QED
  BY <1>4, <1>6, <1>8, <1>11, <1>12

-----------------------------------------------------------------------------
(* The inductive invariant.  The frames in the rings of the card and on    *)
(* their way to it.                                                        *)
Addresses == Lan \cup {REMOTE, NO_IP, BROADCAST}
MyIps     == {NO_IP} \cup {o.ip : o \in Offers}
Macs      == Lan \cup {BROADCAST}
Loads     == {"echo", "discover", "segment"}

RxFrames ==
  {NO_FRAME, [kind |-> "datagram"]}
    \cup [kind : {"arp"}, op : {1, 2}, ip : Lan, dest : MyIps]
    \cup [kind : {"echo_reply"}, ip : Addresses] \cup [kind : {"segment"}, ip : Lan]
    \cup [kind : {"offer"}, offer : Offers]

TxFrames ==
  {NO_FRAME} \cup [kind : {"arp_request", "arp_reply"}, ip : Addresses]
    \cup [kind : Loads, ip : Addresses, mac : Macs]

Nics ==
  [rx : [0 .. RX - 1 -> Slots(RxFrames)], tx : [0 .. TX - 1 -> Slots(TxFrames)],
   rx_index : 0 .. RX - 1, tx_index : 0 .. TX - 1,
   card_rx : 0 .. RX - 1, card_tx : 0 .. TX - 1,
   pending : SUBSET {"RINT", "TINT"}, iena : BOOLEAN,
   backlog : Seq(RxFrames), waiting : Seq(TxFrames), overrun : BOOLEAN]

(* The card fills the slot after the frames that are not handled, and the  *)
(* driver the one after the frames that are not sent.                      *)
RxInv(n) == Received(n) /\ n.card_rx = (n.rx_index + Len(n.backlog)) % RX

TxInv(n) ==
  ~n.overrun => ToSend(n) /\ n.tx_index = (n.card_tx + Len(n.waiting)) % TX

NicInv == nic \in Nics /\ RxInv(nic) /\ TxInv(nic)

(* Address, mask and gateway were offered, and what was offered once is    *)
(* never unset.                                                            *)
SettingsInv ==
  /\ my_ip # NO_IP => \E o \in taken : my_ip = o.ip
  /\ taken # {} => my_ip # NO_IP
  /\ subnet_mask # NO_IP <=> \E o \in taken : o.mask # NO_IP
  /\ subnet_mask # NO_IP => \E o \in taken : o.mask = subnet_mask
  /\ gateway_ip # NO_IP <=> \E o \in taken : o.router # NO_IP
  /\ gateway_ip # NO_IP => \E o \in taken : o.router = gateway_ip

(* The entry of the cache is about one host.                               *)
ConfigInv ==
  /\ my_ip \in MyIps /\ gateway_ip \in Lan \cup {NO_IP} /\ taken \subseteq Offers
  /\ cache \in [ip : Lan \cup {NO_IP}, mac : Macs]
  /\ cache.ip # NO_IP => cache.mac = cache.ip
  /\ SettingsInv

ShellInv ==
  /\ at \in {"idle", "receive", "acknowledge", "discover", "scan", "ping", "wait"}
  /\ seen \subseteq {"RINT", "TINT"}
  /\ ping \in [ip : Lan \cup {REMOTE, NO_IP}, left : 0 .. TRIES]
  /\ at = "ping" => ping.left # 0

IInv == NicInv /\ ConfigInv /\ ShellInv /\ inbound \subseteq RxFrames

-----------------------------------------------------------------------------
(* What the calls of the driver and the steps of the card do to the rings. *)
LEMMA SlotBefore ==
  ASSUME NEW size \in Nat \ {0}, NEW i \in 0 .. size - 1
  PROVE  (Rem(i + 1, size) + size - 1) % size = i
<1>1. PICK j : j = Rem(i + 1, size)
  OBVIOUS
<1>2. (i + 1 < size => j = i + 1) /\ (i + 1 >= size => j = 0)
  <2>1. i + 1 \in 0 .. 2 * size - 1
    OBVIOUS
  <2>2. (i + 1 < size => j = i + 1) /\ (i + 1 >= size => j = (i + 1) - size)
    BY <1>1, <2>1, RemIs
  <2>3. QED
    BY <2>2
<1>3. j \in 0 .. size - 1 /\ size \in 1 .. size + 1
  BY <1>2
<1>4. /\ j + size - 1 < size => Slot(j, size, size) = j + size - 1
      /\ j + size - 1 >= size => Slot(j, size, size) = j + size - 1 - size
  BY <1>3, SlotIs
<1>5. Slot(j, size, size) = i
  BY <1>2, <1>3, <1>4
<1>6. QED
  BY <1>1, <1>5, Zenon DEF Slot

LEMMA NicFields ==
  ASSUME NEW n \in Nics
  PROVE  /\ n.rx \in [0 .. RX - 1 -> Slots(RxFrames)]
         /\ n.tx \in [0 .. TX - 1 -> Slots(TxFrames)]
         /\ n.rx_index \in 0 .. RX - 1 /\ n.tx_index \in 0 .. TX - 1
         /\ n.card_rx \in 0 .. RX - 1 /\ n.card_tx \in 0 .. TX - 1
         /\ n.pending \subseteq {"RINT", "TINT"}
         /\ n.iena \in BOOLEAN /\ n.overrun \in BOOLEAN
         /\ n.backlog \in Seq(RxFrames) /\ n.waiting \in Seq(TxFrames)
BY DEF Nics

SameRx(m, n) ==
  /\ m.rx = n.rx /\ m.rx_index = n.rx_index /\ m.card_rx = n.card_rx
  /\ m.backlog = n.backlog

SameTx(m, n) ==
  /\ m.tx = n.tx /\ m.tx_index = n.tx_index /\ m.card_tx = n.card_tx
  /\ m.waiting = n.waiting /\ m.overrun = n.overrun

Filled(n, ring, i, w, over) ==
  [n EXCEPT !.tx = ring, !.tx_index = i, !.iena = TRUE, !.waiting = w, !.overrun = over]

LEMMA FilledIs ==
  ASSUME NEW n \in Nics, NEW ring \in [0 .. TX - 1 -> Slots(TxFrames)],
         NEW i \in 0 .. TX - 1, NEW w \in Seq(TxFrames), NEW over \in BOOLEAN
  PROVE  LET m == Filled(n, ring, i, w, over)
         IN  /\ m \in Nics /\ SameRx(m, n)
             /\ m.tx = ring /\ m.tx_index = i /\ m.card_tx = n.card_tx
             /\ m.waiting = w /\ m.overrun = over
BY DEF Nics, SameRx, Filled

LEMMA SendFrameStep ==
  ASSUME NEW n \in Nics, TxInv(n), NEW f \in TxFrames
  PROVE  /\ SendFrame(n, f) \in Nics /\ TxInv(SendFrame(n, f))
         /\ SameRx(SendFrame(n, f), n) /\ LastSent(SendFrame(n, f)) = f
<1>1. PICK m : m = SendFrame(n, f)
  OBVIOUS
<1>2. PICK i : i = n.tx_index
  OBVIOUS
<1>3. TX \in Nat \ {0} /\ i \in 0 .. TX - 1
  BY <1>2, NicFields, PCNetAssumption
<1>4. PICK slot \in Slots(TxFrames) : slot = [own |-> TRUE, frame |-> f]
  BY DEF Slots
<1>5. PICK ring \in [0 .. TX - 1 -> Slots(TxFrames)] : ring = [n.tx EXCEPT ![i] = slot]
  BY <1>3, NicFields
<1>6. PICK j \in 0 .. TX - 1 : j = Rem(i + 1, TX)
  <2>1. i + 1 \in 0 .. 2 * TX - 1
    BY <1>3
  <2>2. QED
    BY <1>3, <2>1, RemIs
<1>7. PICK over \in BOOLEAN : over = (n.overrun \/ n.tx[i].own)
  OBVIOUS
<1>8. PICK w \in Seq(TxFrames) : w = IF over THEN <<>> ELSE Append(n.waiting, f)
  <2>1. n.waiting \in Seq(TxFrames)
    BY NicFields
  <2>2. Append(n.waiting, f) \in Seq(TxFrames) /\ <<>> \in Seq(TxFrames)
    BY <2>1, AppendProperties
  <2>3. CASE over
    BY <2>2, <2>3, Zenon
  <2>4. CASE ~over
    BY <2>2, <2>4, Zenon
  <2>5. QED
    BY <2>3, <2>4
<1>9. m = Filled(n, ring, j, w, over)
  BY <1>1, <1>2, <1>4, <1>5, <1>6, <1>7, <1>8, NicFields DEF SendFrame, Rem, Filled
<1>10. /\ m \in Nics /\ SameRx(m, n)
       /\ m.tx = ring /\ m.tx_index = j /\ m.card_tx = n.card_tx
       /\ m.waiting = w /\ m.overrun = over
  BY <1>9, FilledIs
<1>11. TxInv(m)
  <2> SUFFICES ASSUME ~over PROVE ToSend(m) /\ m.tx_index = (m.card_tx + Len(m.waiting)) % TX
    BY <1>10 DEF TxInv
  <2>1. ~n.overrun /\ ~n.tx[i].own /\ w = Append(n.waiting, f)
    BY <1>7, <1>8
  <2>2. PICK mine : mine = TRUE
    OBVIOUS
  <2>3. InRing(n.tx, n.card_tx, TX, mine, n.waiting)
    BY <2>1, <2>2, Zenon DEF TxInv, ToSend
  <2>4. i = Rem(n.card_tx + Len(n.waiting), TX)
    BY <1>2, <2>1 DEF TxInv, Rem
  <2>5. n.tx[i].own # mine
    BY <2>1, <2>2
  <2>6. IsRing(n.tx, n.card_tx, TX, TxFrames, n.waiting)
    BY <1>3, NicFields DEF IsRing
  <2>7. /\ InRing(Put(n.tx, i, mine, f), n.card_tx, TX, mine, Append(n.waiting, f))
        /\ Rem(i + 1, TX) = Rem(n.card_tx + Len(Append(n.waiting, f)), TX)
    BY <2>3, <2>4, <2>5, <2>6, RingPut
  <2>8. ring = Put(n.tx, i, mine, f)
    BY <1>4, <1>5, <2>2, Zenon DEF Put
  <2>9. QED
    BY <1>6, <1>10, <2>1, <2>2, <2>7, <2>8, Zenon DEF ToSend, Rem
<1>12. LastSent(m) = f
  <2>1. (j + TX - 1) % TX = i
    BY <1>3, <1>6, SlotBefore, Zenon
  <2>2. ring[i] = slot
    BY <1>3, <1>5, NicFields
  <2>3. LastSent(m) = ring[i].frame
    BY <1>10, <2>1, Zenon DEF LastSent
  <2>4. QED
    BY <1>4, <2>2, <2>3
<1>13. QED
  BY <1>1, <1>10, <1>11, <1>12

(* The frames of one call are sent one after another.                      *)
SendsTo(g, n, frames, m) ==
  g = [k \in 0 .. m |-> IF k = 0 THEN n ELSE SendFrame(g[k - 1], frames[k])]

LEMMA SendsExist ==
  ASSUME NEW n, NEW frames
  PROVE  \A m \in Nat : \E g : SendsTo(g, n, frames, m)
<1> DEFINE T == {m \in Nat : ~ \E g : SendsTo(g, n, frames, m)}
<1> SUFFICES ASSUME T # {} PROVE FALSE
  OBVIOUS
<1>1. PICK m \in T : \A k \in T : m <= k
  BY LeastNatural
<1>2. CASE m = 0
  <2>1. SendsTo([k \in 0 .. 0 |-> n], n, frames, 0)
    BY DEF SendsTo
  <2>2. QED
    BY <1>1, <1>2, <2>1
<1>3. CASE m # 0
  <2>1. m - 1 \in Nat /\ m - 1 \notin T
    BY <1>1, <1>3
  <2>2. PICK f : SendsTo(f, n, frames, m - 1)
    BY <2>1
  <2> DEFINE last == SendFrame(f[m - 1], frames[m])
             g == [k \in 0 .. m |-> IF k < m THEN f[k] ELSE last]
  <2>3. \A k \in 0 .. m : g[k] = IF k = 0 THEN n ELSE SendFrame(g[k - 1], frames[k])
    <3> SUFFICES ASSUME NEW k \in 0 .. m
                 PROVE  g[k] = IF k = 0 THEN n ELSE SendFrame(g[k - 1], frames[k])
      OBVIOUS
    <3>1. CASE k = 0
      <4>1. f[0] = n
        BY <2>1, <2>2 DEF SendsTo
      <4>2. g[k] = f[0]
        BY <1>3, <2>1, <3>1
      <4>3. QED
        BY <3>1, <4>1, <4>2
    <3>2. CASE k # 0 /\ k < m
      <4>1. k \in 0 .. m - 1 /\ k - 1 \in 0 .. m /\ k - 1 < m
        BY <1>1, <3>2
      <4>2. f[k] = SendFrame(f[k - 1], frames[k])
        BY <2>2, <3>2, <4>1 DEF SendsTo
      <4>3. g[k] = f[k] /\ g[k - 1] = f[k - 1]
        BY <3>2, <4>1
      <4> HIDE DEF g
      <4>4. QED
        BY <3>2, <4>2, <4>3
    <3>3. CASE k = m
      <4>1. m \in 0 .. m /\ m - 1 \in 0 .. m /\ m - 1 < m /\ ~(m < m)
        BY <1>1, <1>3
      <4>2. g[m - 1] = f[m - 1] /\ g[m] = last
        BY <4>1
      <4> HIDE DEF g
      <4>3. QED
        BY <1>3, <3>3, <4>2
    <3>4. QED
      BY <1>1, <3>1, <3>2, <3>3
  <2>4. SendsTo(g, n, frames, m)
    <3> DEFINE h == [k \in 0 .. m |-> IF k = 0 THEN n ELSE SendFrame(g[k - 1], frames[k])]
    <3>1. g = h
      BY <2>3
    <3>2. QED
      BY <3>1 DEF SendsTo
  <2>5. QED
    BY <1>1, <2>4
<1>4. QED
  BY <1>2, <1>3

LEMMA SendFramesStep ==
  ASSUME NEW n \in Nics, TxInv(n), NEW frames \in Seq(TxFrames)
  PROVE  /\ SendFrames(n, frames) \in Nics /\ TxInv(SendFrames(n, frames))
         /\ SameRx(SendFrames(n, frames), n)
         /\ frames # <<>> => LastSent(SendFrames(n, frames)) = frames[Len(frames)]
<1>1. PICK m \in Nat : m = Len(frames) /\ (frames # <<>> => m # 0)
  OBVIOUS
<1>2. PICK g : SendsTo(g, n, frames, m) /\ SendFrames(n, frames) = g[m]
  <2>1. \E g : SendsTo(g, n, frames, Len(frames))
    BY <1>1, SendsExist
  <2>2. LET h == CHOOSE h : SendsTo(h, n, frames, Len(frames))
        IN  SendFrames(n, frames) = h[Len(frames)]
    BY DEF SendFrames, SendsTo
  <2>3. QED
    BY <1>1, <2>1, <2>2
<1>3. /\ g[0] = n
      /\ \A k \in 1 .. m : g[k] = SendFrame(g[k - 1], frames[k])
  BY <1>2 DEF SendsTo
<1> DEFINE Good(x) == x \in Nics /\ TxInv(x) /\ SameRx(x, n)
<1>4. Good(n)
  BY DEF SameRx
<1>5. ASSUME NEW x, Good(x), NEW f \in TxFrames
      PROVE  Good(SendFrame(x, f)) /\ LastSent(SendFrame(x, f)) = f
  BY <1>5, SendFrameStep DEF SameRx
<1>6. \A k \in 1 .. m : frames[k] \in TxFrames
  BY <1>1
<1> HIDE DEF Good
<1>7. \A k \in 0 .. m : Good(g[k])
  <2> DEFINE T == {k \in 0 .. m : ~Good(g[k])}
  <2> SUFFICES ASSUME T # {} PROVE FALSE
    OBVIOUS
  <2>1. PICK k \in T : \A j \in T : k <= j
    <3>1. T \in SUBSET Nat
      OBVIOUS
    <3>2. QED
      BY <3>1, LeastNatural
  <2>2. k # 0
    BY <1>3, <1>4, <2>1
  <2>3. k - 1 \in 0 .. m /\ k \in 1 .. m /\ k - 1 \notin T
    BY <2>1, <2>2
  <2>4. Good(g[k - 1])
    BY <2>3
  <2>5. Good(SendFrame(g[k - 1], frames[k]))
    BY <1>5, <1>6, <2>3, <2>4
  <2>6. QED
    BY <1>3, <2>1, <2>3, <2>5
<1>8. Good(g[m])
  BY <1>7
<1>9. m # 0 => LastSent(g[m]) = frames[m]
  <2> SUFFICES ASSUME m # 0 PROVE LastSent(g[m]) = frames[m]
    OBVIOUS
  <2>1. m \in 1 .. m /\ m - 1 \in 0 .. m
    OBVIOUS
  <2>2. QED
    BY <1>3, <1>5, <1>6, <1>7, <2>1
<1>10. QED
  BY <1>1, <1>2, <1>8, <1>9 DEF Good

(* The driver hands a slot back ...                                        *)
Emptied(n, ring, i, q) == [n EXCEPT !.rx = ring, !.rx_index = i, !.backlog = q]

LEMMA EmptiedIs ==
  ASSUME NEW n \in Nics, NEW ring \in [0 .. RX - 1 -> Slots(RxFrames)],
         NEW i \in 0 .. RX - 1, NEW q \in Seq(RxFrames)
  PROVE  LET m == Emptied(n, ring, i, q)
         IN  /\ m \in Nics /\ SameTx(m, n)
             /\ m.rx = ring /\ m.rx_index = i /\ m.card_rx = n.card_rx /\ m.backlog = q
BY DEF Nics, SameTx, Emptied

LEMMA NoFrame == NO_FRAME \in RxFrames /\ NO_FRAME \in TxFrames
BY DEF RxFrames, TxFrames

LEMMA HandBackStep ==
  ASSUME NEW n \in Nics, RxInv(n), HasFrame(n)
  PROVE  /\ HandBack(n) \in Nics /\ RxInv(HandBack(n)) /\ SameTx(HandBack(n), n)
         /\ NextFrame(n) \in RxFrames
<1>1. PICK i : i = n.rx_index
  OBVIOUS
<1>2. RX \in Nat \ {0} /\ i \in 0 .. RX - 1
  BY <1>1, NicFields, PCNetAssumption
<1>3. PICK slot \in Slots(RxFrames) : slot = [own |-> TRUE, frame |-> NO_FRAME]
  BY NoFrame DEF Slots
<1>4. PICK ring \in [0 .. RX - 1 -> Slots(RxFrames)] : ring = [n.rx EXCEPT ![i] = slot]
  BY <1>2, NicFields
<1>5. PICK theirs : theirs = FALSE
  OBVIOUS
<1>6. InRing(n.rx, i, RX, theirs, n.backlog) /\ n.card_rx = Rem(i + Len(n.backlog), RX)
  BY <1>1, <1>5, Zenon DEF RxInv, Received, Rem
<1>7. n.rx[i] \in Slots(RxFrames) /\ n.rx[i].own = theirs /\ slot.own # theirs
  <2>1. n.rx[i] \in Slots(RxFrames)
    BY <1>2, NicFields
  <2>2. n.rx[i].own \in BOOLEAN /\ ~n.rx[i].own
    BY <1>1, <2>1 DEF HasFrame, Slots
  <2>3. n.rx[i].own = FALSE
    BY <2>2, Zenon
  <2>4. slot.own = TRUE
    BY <1>3
  <2>5. QED
    BY <1>5, <2>1, <2>3, <2>4, Zenon
<1>8. IsRing(n.rx, i, RX, RxFrames, n.backlog)
  BY <1>2, NicFields DEF IsRing
<1>9. PICK q : q = Tail(n.backlog)
  OBVIOUS
<1>10. PICK j : j = Rem(i + 1, RX)
  OBVIOUS
<1>11. /\ n.backlog # <<>>
       /\ InRing(ring, j, RX, theirs, q)
       /\ n.card_rx = Rem(j + Len(q), RX)
       /\ j \in 0 .. RX - 1
  <2>1. /\ n.backlog # <<>>
        /\ InRing([n.rx EXCEPT ![i] = slot], Rem(i + 1, RX), RX, theirs, Tail(n.backlog))
        /\ Rem(i + Len(n.backlog), RX) = Rem(Rem(i + 1, RX) + Len(Tail(n.backlog)), RX)
        /\ Rem(i + 1, RX) \in 0 .. RX - 1
    BY <1>6, <1>7, <1>8, RingTake
  <2>2. QED
    BY <1>4, <1>6, <1>9, <1>10, <2>1, Zenon
<1>12. q \in Seq(RxFrames)
  BY <1>8, <1>9, <1>11, HeadTailProperties DEF IsRing
<1>13. PICK m : m = HandBack(n)
  OBVIOUS
<1>14. m = Emptied(n, ring, j, q)
  BY <1>1, <1>3, <1>4, <1>9, <1>10, <1>13, NicFields DEF HandBack, Rem, Emptied
<1>15. /\ m \in Nics /\ SameTx(m, n)
       /\ m.rx = ring /\ m.rx_index = j /\ m.card_rx = n.card_rx /\ m.backlog = q
  BY <1>11, <1>12, <1>14, EmptiedIs
<1>16. RxInv(m)
  BY <1>5, <1>11, <1>15, Zenon DEF RxInv, Received, Rem
<1>17. NextFrame(n) \in RxFrames
  BY <1>1, <1>7 DEF NextFrame, Slots
<1>18. QED
  BY <1>13, <1>15, <1>16, <1>17

(* ... and the card fills one.                                             *)
Arrived(n, ring, i, p, q) ==
  [n EXCEPT !.rx = ring, !.card_rx = i, !.pending = p, !.backlog = q]

LEMMA ArrivedIs ==
  ASSUME NEW n \in Nics, NEW ring \in [0 .. RX - 1 -> Slots(RxFrames)],
         NEW i \in 0 .. RX - 1, NEW p \in SUBSET {"RINT", "TINT"}, NEW q \in Seq(RxFrames)
  PROVE  LET m == Arrived(n, ring, i, p, q)
         IN  /\ m \in Nics /\ SameTx(m, n)
             /\ m.rx = ring /\ m.rx_index = n.rx_index /\ m.card_rx = i /\ m.backlog = q
BY DEF Nics, SameTx, Arrived

LEMMA ReceiveStep ==
  ASSUME NEW n \in Nics, RxInv(n), NEW f \in RxFrames
  PROVE  /\ Receive(n, f) \in Nics /\ RxInv(Receive(n, f)) /\ SameTx(Receive(n, f), n)
<1>1. CASE ~n.rx[n.card_rx].own
  BY <1>1 DEF Receive, SameTx
<1>2. CASE n.rx[n.card_rx].own
  <2>1. PICK i : i = n.card_rx
    OBVIOUS
  <2>2. RX \in Nat \ {0} /\ i \in 0 .. RX - 1
    BY <2>1, NicFields, PCNetAssumption
  <2>3. PICK slot \in Slots(RxFrames) : slot = [own |-> FALSE, frame |-> f]
    BY DEF Slots
  <2>4. PICK ring \in [0 .. RX - 1 -> Slots(RxFrames)] : ring = [n.rx EXCEPT ![i] = slot]
    BY <2>2, NicFields
  <2>5. PICK theirs : theirs = FALSE
    OBVIOUS
  <2>6. InRing(n.rx, n.rx_index, RX, theirs, n.backlog)
        /\ i = Rem(n.rx_index + Len(n.backlog), RX)
    BY <2>1, <2>5, Zenon DEF RxInv, Received, Rem
  <2>7. n.rx[i].own # theirs
    BY <1>2, <2>1, <2>5
  <2>8. IsRing(n.rx, n.rx_index, RX, RxFrames, n.backlog)
    BY <2>2, NicFields DEF IsRing
  <2>9. PICK q \in Seq(RxFrames) : q = Append(n.backlog, f)
    BY <2>8, AppendProperties DEF IsRing
  <2>10. PICK j \in 0 .. RX - 1 : j = Rem(i + 1, RX)
    <3>1. i + 1 \in 0 .. 2 * RX - 1
      BY <2>2
    <3>2. QED
      BY <2>2, <3>1, RemIs
  <2>11. /\ InRing(Put(n.rx, i, theirs, f), n.rx_index, RX, theirs, Append(n.backlog, f))
         /\ Rem(i + 1, RX) = Rem(n.rx_index + Len(Append(n.backlog, f)), RX)
    BY <2>6, <2>7, <2>8, RingPut
  <2>12. ring = Put(n.rx, i, theirs, f)
    BY <2>3, <2>4, <2>5, Zenon DEF Put
  <2>13. PICK p \in SUBSET {"RINT", "TINT"} : p = n.pending \cup {"RINT"}
    BY NicFields
  <2>14. PICK m : m = Receive(n, f)
    OBVIOUS
  <2>15. m = Arrived(n, ring, j, p, q)
    BY <1>2, <2>1, <2>3, <2>4, <2>9, <2>10, <2>13, <2>14, NicFields
    DEF Receive, Rem, Arrived
  <2>16. /\ m \in Nics /\ SameTx(m, n)
         /\ m.rx = ring /\ m.rx_index = n.rx_index /\ m.card_rx = j /\ m.backlog = q
    BY <2>15, ArrivedIs
  <2>17. RxInv(m)
    BY <2>5, <2>9, <2>10, <2>11, <2>12, <2>16, Zenon DEF RxInv, Received, Rem
  <2>18. QED
    BY <2>14, <2>16, <2>17
<1>3. QED
  BY <1>1, <1>2

(* The card sends the frame that waits longest.                            *)
Gone(n, ring, i, p, w) ==
  [n EXCEPT !.tx = ring, !.card_tx = i, !.pending = p, !.waiting = w]

LEMMA GoneIs ==
  ASSUME NEW n \in Nics, NEW ring \in [0 .. TX - 1 -> Slots(TxFrames)],
         NEW i \in 0 .. TX - 1, NEW p \in SUBSET {"RINT", "TINT"}, NEW w \in Seq(TxFrames)
  PROVE  LET m == Gone(n, ring, i, p, w)
         IN  /\ m \in Nics /\ SameRx(m, n) /\ m.overrun = n.overrun
             /\ m.tx = ring /\ m.tx_index = n.tx_index /\ m.card_tx = i /\ m.waiting = w
BY DEF Nics, SameRx, Gone

LEMMA TransmitStep ==
  ASSUME NEW n \in Nics, TxInv(n), CanTransmit(n)
  PROVE  /\ Transmit(n) \in Nics /\ TxInv(Transmit(n)) /\ SameRx(Transmit(n), n)
         /\ Transmitted(n) \in TxFrames
<1>1. PICK i : i = n.card_tx
  OBVIOUS
<1>2. TX \in Nat \ {0} /\ i \in 0 .. TX - 1
  BY <1>1, NicFields, PCNetAssumption
<1>3. PICK slot \in Slots(TxFrames) : slot = [own |-> FALSE, frame |-> NO_FRAME]
  BY NoFrame DEF Slots
<1>4. PICK ring \in [0 .. TX - 1 -> Slots(TxFrames)] : ring = [n.tx EXCEPT ![i] = slot]
  BY <1>2, NicFields
<1>5. PICK j \in 0 .. TX - 1 : j = Rem(i + 1, TX)
  <2>1. i + 1 \in 0 .. 2 * TX - 1
    BY <1>2
  <2>2. QED
    BY <1>2, <2>1, RemIs
<1>6. PICK p \in SUBSET {"RINT", "TINT"} : p = n.pending \cup {"TINT"}
  BY NicFields
<1>7. PICK mine : mine = TRUE
  OBVIOUS
<1>8. n.tx[i] \in Slots(TxFrames) /\ n.tx[i].own = mine /\ slot.own # mine
  <2>1. n.tx[i] \in Slots(TxFrames)
    BY <1>2, NicFields
  <2>2. n.tx[i].own \in BOOLEAN /\ n.tx[i].own
    BY <1>1, <2>1 DEF CanTransmit, Slots
  <2>3. n.tx[i].own = TRUE
    BY <2>2, Zenon
  <2>4. slot.own = FALSE
    BY <1>3
  <2>5. QED
    BY <1>7, <2>1, <2>3, <2>4, Zenon
<1>9. IsRing(n.tx, i, TX, TxFrames, n.waiting)
  BY <1>2, NicFields DEF IsRing
<1>10. ASSUME ~n.overrun
       PROVE  /\ n.waiting # <<>>
              /\ InRing(ring, j, TX, mine, Tail(n.waiting))
              /\ n.tx_index = Rem(j + Len(Tail(n.waiting)), TX)
  <2>1. InRing(n.tx, i, TX, mine, n.waiting) /\ n.tx_index = Rem(i + Len(n.waiting), TX)
    BY <1>1, <1>7, <1>10, Zenon DEF TxInv, ToSend, Rem
  <2>2. /\ n.waiting # <<>>
        /\ InRing([n.tx EXCEPT ![i] = slot], Rem(i + 1, TX), TX, mine, Tail(n.waiting))
        /\ Rem(i + Len(n.waiting), TX) = Rem(Rem(i + 1, TX) + Len(Tail(n.waiting)), TX)
    BY <1>8, <1>9, <2>1, RingTake
  <2>3. QED
    BY <1>4, <1>5, <2>1, <2>2, Zenon
<1>11. PICK w \in Seq(TxFrames) : w = IF n.overrun THEN n.waiting ELSE Tail(n.waiting)
  <2>1. n.waiting \in Seq(TxFrames)
    BY NicFields
  <2>2. CASE n.overrun
    BY <2>1, <2>2, Zenon
  <2>3. CASE ~n.overrun
    <3>1. Tail(n.waiting) \in Seq(TxFrames)
      BY <1>10, <2>1, <2>3, HeadTailProperties
    <3>2. QED
      BY <2>3, <3>1, Zenon
  <2>4. QED
    BY <2>2, <2>3
<1>12. PICK m : m = Transmit(n)
  OBVIOUS
<1>13. m = Gone(n, ring, j, p, w)
  BY <1>1, <1>3, <1>4, <1>5, <1>6, <1>11, <1>12, NicFields DEF Transmit, Rem, Gone
<1>14. /\ m \in Nics /\ SameRx(m, n) /\ m.overrun = n.overrun
       /\ m.tx = ring /\ m.tx_index = n.tx_index /\ m.card_tx = j /\ m.waiting = w
  BY <1>13, GoneIs
<1>15. TxInv(m)
  <2>1. CASE n.overrun
    BY <1>14, <2>1 DEF TxInv
  <2>2. CASE ~n.overrun
    BY <1>7, <1>10, <1>11, <1>14, <2>2, Zenon DEF TxInv, ToSend, Rem
  <2>3. QED
    BY <2>1, <2>2
<1>16. Transmitted(n) \in TxFrames
  BY <1>1, <1>8 DEF Transmitted, Slots
<1>17. QED
  BY <1>12, <1>14, <1>15, <1>16

LEMMA AcknowledgeStep ==
  ASSUME NEW n \in Nics, NEW s
  PROVE  /\ Acknowledge(n, s) \in Nics
         /\ SameRx(Acknowledge(n, s), n) /\ SameTx(Acknowledge(n, s), n)
<1>1. PICK p \in SUBSET {"RINT", "TINT"} : p = n.pending \ s
  BY NicFields
<1>2. Acknowledge(n, s) = [n EXCEPT !.pending = p, !.iena = FALSE]
  BY <1>1 DEF Acknowledge, Nics
<1>3. QED
  BY <1>2 DEF Nics, SameRx, SameTx

-----------------------------------------------------------------------------
(* What the machine sends, and what it is answered.                        *)
LEMMA PacketIs ==
  ASSUME NEW load \in Loads, NEW ip \in Addresses, NEW mac \in Macs
  PROVE  Packet(load, ip, mac) \in TxFrames
BY DEF Packet, TxFrames, Loads

LEMMA ArpIs ==
  ASSUME NEW ip \in Addresses
  PROVE  ArpRequest(ip) \in TxFrames /\ ArpReply(ip) \in TxFrames
BY DEF ArpRequest, ArpReply, TxFrames

LEMMA FramesAre ==
  ASSUME ConfigInv, NEW load \in Loads, NEW ip \in Addresses
  PROVE  /\ Frames(load, ip) \in Seq(TxFrames) /\ Frames(load, ip) # <<>>
         /\ \E mac \in Macs :
              /\ mac \in {BROADCAST, ip, gateway_ip}
              /\ Frames(load, ip)[Len(Frames(load, ip))] = Packet(load, ip, mac)
<1> DEFINE target == Route(ip)
           hit    == cache.ip # NO_IP /\ cache.ip = target
           other  == gateway_ip # NO_IP /\ target # gateway_ip
           router == other /\ gateway_ip = cache.ip
           mac    == IF hit \/ router THEN cache.mac ELSE BROADCAST
           asks   == IF hit THEN <<>>
                     ELSE IF other /\ ~router
                     THEN <<ArpRequest(target), ArpRequest(gateway_ip)>>
                     ELSE <<ArpRequest(target)>>
<1>1. Frames(load, ip) = Append(asks, Packet(load, ip, mac))
  BY DEF Frames
<1>2. target \in {ip, gateway_ip} /\ target \in Addresses /\ gateway_ip \in Addresses
  BY DEF Route, ConfigInv, Addresses
<1>3. mac \in Macs /\ mac \in {BROADCAST, ip, gateway_ip}
  BY <1>2 DEF ConfigInv, Macs
<1> HIDE DEF target, hit, other, router, mac
<1>4. asks \in Seq(TxFrames)
  <2>1. ArpRequest(target) \in TxFrames /\ ArpRequest(gateway_ip) \in TxFrames
    BY <1>2, ArpIs
  <2>2. QED
    BY <2>1
<1>5. Packet(load, ip, mac) \in TxFrames
  BY <1>3, PacketIs
<1> HIDE DEF asks
<1>6. PICK s \in Seq(TxFrames), p \in TxFrames : s = asks /\ p = Packet(load, ip, mac)
  BY <1>4, <1>5
<1>7. /\ Append(s, p) \in Seq(TxFrames) /\ Len(Append(s, p)) = Len(s) + 1
      /\ Append(s, p)[Len(s) + 1] = p
  BY AppendProperties
<1>8. Append(s, p) # <<>>
  BY <1>7
<1>9. QED
  BY <1>1, <1>3, <1>6, <1>7, <1>8

LEMMA AnswersAre ==
  ASSUME my_ip \in MyIps, NEW f \in TxFrames
  PROVE  Answers(f) \subseteq RxFrames
<1>1. CASE f.kind = "arp_request" /\ f.ip \in Lan
  <2>1. ArpFrom(f.ip, 2) \in RxFrames
    BY <1>1 DEF ArpFrom, RxFrames
  <2>2. QED
    BY <1>1, <2>1 DEF Answers
<1>2. CASE f.kind = "echo" /\ (f.ip \in Lan \/ f.mac \in Lan)
  <2>1. f.ip \in Addresses
    BY <1>2 DEF TxFrames, NO_FRAME
  <2>2. [kind |-> "echo_reply", ip |-> f.ip] \in RxFrames
    BY <2>1 DEF RxFrames
  <2>3. Answers(f) = {[kind |-> "echo_reply", ip |-> f.ip]}
    BY <1>2 DEF Answers
  <2>4. QED
    BY <2>2, <2>3
<1>3. CASE f.kind = "discover"
  <2>1. \A o \in Offers : [kind |-> "offer", offer |-> o] \in RxFrames
    BY DEF RxFrames
  <2>2. Answers(f) = {[kind |-> "offer", offer |-> o] : o \in Offers}
    BY <1>3 DEF Answers
  <2>3. QED
    BY <2>1, <2>2
<1>4. QED
  BY <1>1, <1>2, <1>3 DEF Answers

-----------------------------------------------------------------------------
(* Every step of the machine and of the world keeps the invariant.         *)
LEMMA SameRings ==
  ASSUME NEW m, NEW n
  PROVE  /\ SameRx(m, n) /\ RxInv(n) => RxInv(m)
         /\ SameTx(m, n) /\ TxInv(n) => TxInv(m)
BY DEF SameRx, SameTx, RxInv, TxInv, Received, ToSend

LEMMA SendStep ==
  ASSUME NicInv, ConfigInv, NEW load \in Loads, NEW ip \in Addresses,
         Send(load, ip)
  PROVE  /\ NicInv'
         /\ \E mac \in Macs :
              /\ mac \in {BROADCAST, ip, gateway_ip}
              /\ LastSent(nic') = Packet(load, ip, mac)
<1>1. PICK frames \in Seq(TxFrames) :
        /\ frames = Frames(load, ip) /\ frames # <<>>
        /\ \E mac \in Macs :
             /\ mac \in {BROADCAST, ip, gateway_ip}
             /\ frames[Len(frames)] = Packet(load, ip, mac)
  BY FramesAre
<1>2. nic' = SendFrames(nic, frames)
  BY <1>1 DEF Send
<1>3. nic \in Nics /\ TxInv(nic) /\ RxInv(nic)
  BY DEF NicInv
<1>4. /\ SendFrames(nic, frames) \in Nics /\ TxInv(SendFrames(nic, frames))
      /\ SameRx(SendFrames(nic, frames), nic)
      /\ LastSent(SendFrames(nic, frames)) = frames[Len(frames)]
  BY <1>1, <1>3, SendFramesStep
<1>5. nic' \in Nics /\ TxInv(nic') /\ RxInv(nic')
  BY <1>2, <1>3, <1>4, SameRings
<1>6. NicInv'
  BY <1>5 DEF NicInv
<1>7. QED
  BY <1>1, <1>2, <1>4, <1>6

LEMMA HandBackKeeps ==
  ASSUME NicInv, HasFrame(nic)
  PROVE  /\ HandBack(nic) \in Nics /\ RxInv(HandBack(nic)) /\ TxInv(HandBack(nic))
         /\ NextFrame(nic) \in RxFrames
  BY HandBackStep, SameRings DEF NicInv

LEMMA RxFramesAre ==
  ASSUME NEW f \in RxFrames
  PROVE  /\ f.kind = "arp" => f.ip \in Lan
         /\ f.kind = "offer" => f.offer \in Offers
         /\ f.kind = "segment" => f.ip \in Lan
BY DEF RxFrames, NO_FRAME

LEMMA HandleFrameStep ==
  ASSUME NicInv, ConfigInv, HandleFrame
  PROVE  NicInv' /\ ConfigInv'
<1>1. PICK f : f = NextFrame(nic)
  OBVIOUS
<1>2. HasFrame(nic) /\ ((f.kind = "arp" /\ HandleArp(f)) \/ HandlePacket(f))
  BY <1>1 DEF HandleFrame
<1>3. f \in RxFrames
  BY <1>1, <1>2, HandBackKeeps
<1>4. PICK n \in Nics : n = HandBack(nic) /\ RxInv(n) /\ TxInv(n)
  BY <1>2, HandBackKeeps
<1>5. ASSUME nic' = n
      PROVE  NicInv'
  BY <1>4, <1>5 DEF NicInv
<1>6. CASE f.kind = "arp" /\ HandleArp(f)
  <2>1. f.ip \in Lan /\ f.ip \in Addresses
    BY <1>3, <1>6, RxFramesAre DEF Addresses
  <2>2. NicInv'
    <3>1. nic' = SendFrame(n, ArpReply(f.ip)) \/ nic' = n
      BY <1>4, <1>6 DEF HandleArp
    <3>2. ASSUME nic' = SendFrame(n, ArpReply(f.ip))
          PROVE  NicInv'
      <4>1. ArpReply(f.ip) \in TxFrames
        BY <2>1, ArpIs
      <4>2. /\ SendFrame(n, ArpReply(f.ip)) \in Nics /\ TxInv(SendFrame(n, ArpReply(f.ip)))
            /\ SameRx(SendFrame(n, ArpReply(f.ip)), n)
        BY <1>4, <4>1, SendFrameStep
      <4>3. nic' \in Nics /\ TxInv(nic') /\ RxInv(nic')
        BY <1>4, <3>2, <4>2, SameRings
      <4>4. QED
        BY <4>3 DEF NicInv
    <3>3. QED
      BY <1>5, <3>1, <3>2
  <2>3. UNCHANGED <<my_ip, gateway_ip, subnet_mask, taken>>
    BY <1>6 DEF HandleArp
  <2>4. cache' \in [ip : Lan \cup {NO_IP}, mac : Macs] /\ (cache'.ip # NO_IP => cache'.mac = cache'.ip)
    <3>1. cache' = [ip |-> f.ip, mac |-> f.ip] \/ cache' = cache
      BY <1>6 DEF HandleArp
    <3>2. QED
      BY <2>1, <3>1 DEF ConfigInv, Macs
  <2>5. SettingsInv'
    BY <2>3 DEF ConfigInv, SettingsInv
  <2>6. QED
    BY <2>2, <2>3, <2>4, <2>5 DEF ConfigInv
<1>7. CASE f.kind = "offer" /\ HandleOffer(f.offer)
  <2>1. PICK o \in Offers : o = f.offer
    BY <1>3, <1>7, RxFramesAre
  <2>2. /\ my_ip' = o.ip /\ UNCHANGED cache /\ nic' = n /\ taken' = taken \cup {o}
        /\ subnet_mask' = IF o.mask # NO_IP THEN o.mask ELSE subnet_mask
        /\ gateway_ip' = IF o.router # NO_IP THEN o.router ELSE gateway_ip
    BY <1>4, <1>7, <2>1 DEF HandleOffer
  <2>3. o.router \in Lan \cup {NO_IP} /\ o.ip # NO_IP
    BY NetworkAssumption
  <2>4. my_ip' \in MyIps /\ gateway_ip' \in Lan \cup {NO_IP} /\ taken' \subseteq Offers
    BY <2>2, <2>3 DEF MyIps, ConfigInv
  <2>5. SettingsInv'
    BY <2>2, <2>3 DEF ConfigInv, SettingsInv
  <2>6. QED
    BY <1>5, <2>2, <2>4, <2>5 DEF ConfigInv
<1>8. CASE Drop
  <2>1. nic' = n /\ UNCHANGED config
    BY <1>4, <1>8 DEF Drop
  <2>2. ConfigInv'
    BY <2>1 DEF ConfigInv, SettingsInv, config
  <2>3. QED
    BY <1>5, <2>1, <2>2
<1>9. CASE HandleSegment(f)
  <2>1. f.ip \in Lan /\ f.ip \in Addresses /\ "segment" \in Loads /\ UNCHANGED config
    BY <1>3, <1>9, RxFramesAre DEF HandleSegment, Addresses, Loads
  <2>2. PICK frames \in Seq(TxFrames) : nic' = HandBack(SendFrames(nic, frames))
    <3>1. PICK answer \in Seq(TxFrames) : answer = Frames("segment", f.ip)
      BY <2>1, FramesAre
    <3>2. <<>> \in Seq(TxFrames) /\ answer \o answer \in Seq(TxFrames)
      OBVIOUS
    <3>3. QED
      BY <1>9, <3>1, <3>2 DEF HandleSegment
  <2>3. nic \in Nics /\ TxInv(nic) /\ RxInv(nic)
    BY DEF NicInv
  <2>4. PICK m : m = SendFrames(nic, frames)
    OBVIOUS
  <2>5. m \in Nics /\ TxInv(m) /\ SameRx(m, nic)
    BY <2>3, <2>4, SendFramesStep
  <2>6. RxInv(m) /\ HasFrame(m)
    BY <1>2, <2>3, <2>5, SameRings DEF SameRx, HasFrame
  <2>7. HandBack(m) \in Nics /\ RxInv(HandBack(m)) /\ SameTx(HandBack(m), m)
    BY <2>5, <2>6, HandBackStep
  <2>8. nic' \in Nics /\ RxInv(nic') /\ TxInv(nic')
    BY <2>2, <2>4, <2>5, <2>7, SameRings
  <2>9. ConfigInv'
    BY <2>1 DEF ConfigInv, SettingsInv, config
  <2>10. QED
    BY <2>8, <2>9 DEF NicInv
<1>10. QED
  BY <1>2, <1>6, <1>7, <1>8, <1>9 DEF HandlePacket, HandleDatagram, HandleEcho

LEMMA EmptyRing ==
  ASSUME NEW size \in Nat \ {0}, NEW own, NEW slot, slot.own # own
  PROVE  InRing([k \in 0 .. size - 1 |-> slot], 0, size, own, <<>>)
<1>1. PICK ring : ring = [k \in 0 .. size - 1 |-> slot]
  OBVIOUS
<1>2. ASSUME NEW k \in 1 .. size
      PROVE  ring[Slot(0, k, size)].own # own
  <2>1. k \in 1 .. size + 1 /\ 0 \in 0 .. size - 1
    OBVIOUS
  <2>2. Slot(0, k, size) \in 0 .. size - 1
    BY <2>1, SlotIs
  <2>3. QED
    BY <1>1, <2>2
<1>3. \A k \in 1 .. size : ring[(0 + k - 1) % size].own # own
  BY <1>2, Zenon DEF Slot
<1>4. Len(<<>>) = 0 /\ \A k \in 1 .. size : ~(k <= 0)
  OBVIOUS
<1>5. InRing(ring, 0, size, own, <<>>)
  BY <1>3, <1>4 DEF InRing
<1>6. QED
  BY <1>1, <1>5, Zenon

LEMMA InitIInv ==
  ASSUME Init
  PROVE  IInv
<1>1. RX \in Nat \ {0} /\ TX \in Nat \ {0}
  BY PCNetAssumption
<1>2. nic \in Nics
  <2>1. [own |-> TRUE, frame |-> NO_FRAME] \in Slots(RxFrames)
        /\ [own |-> FALSE, frame |-> NO_FRAME] \in Slots(TxFrames)
    BY NoFrame DEF Slots
  <2>2. PICK rx \in [0 .. RX - 1 -> Slots(RxFrames)], tx \in [0 .. TX - 1 -> Slots(TxFrames)] :
          /\ rx = [k \in 0 .. RX - 1 |-> [own |-> TRUE, frame |-> NO_FRAME]]
          /\ tx = [k \in 0 .. TX - 1 |-> [own |-> FALSE, frame |-> NO_FRAME]]
    BY <2>1
  <2>3. nic = [rx |-> rx, tx |-> tx, rx_index |-> 0, tx_index |-> 0,
               card_rx |-> 0, card_tx |-> 0, pending |-> {}, iena |-> TRUE,
               backlog |-> <<>>, waiting |-> <<>>, overrun |-> FALSE]
    BY <2>2 DEF Init, PCNetInit
  <2>4. 0 \in 0 .. RX - 1 /\ 0 \in 0 .. TX - 1 /\ <<>> \in Seq(RxFrames) /\ <<>> \in Seq(TxFrames)
    BY <1>1
  <2>5. QED
    BY <2>3, <2>4 DEF Nics
<1>3. /\ nic.rx = [k \in 0 .. RX - 1 |-> [own |-> TRUE, frame |-> NO_FRAME]]
      /\ nic.tx = [k \in 0 .. TX - 1 |-> [own |-> FALSE, frame |-> NO_FRAME]]
      /\ nic.rx_index = 0 /\ nic.tx_index = 0 /\ nic.card_rx = 0 /\ nic.card_tx = 0
      /\ nic.backlog = <<>> /\ nic.waiting = <<>>
  BY DEF Init, PCNetInit
<1>4. PICK slot, none : /\ slot = [own |-> TRUE, frame |-> NO_FRAME]
                        /\ none = [own |-> FALSE, frame |-> NO_FRAME]
  OBVIOUS
<1>5. Received(nic)
  <2>1. PICK theirs : theirs = FALSE
    OBVIOUS
  <2>2. slot.own # theirs
    <3>1. slot.own = TRUE
      BY <1>4
    <3>2. QED
      BY <2>1, <3>1
  <2>3. InRing([k \in 0 .. RX - 1 |-> slot], 0, RX, theirs, <<>>)
    BY <1>1, <2>2, EmptyRing
  <2>4. QED
    BY <1>3, <1>4, <2>1, <2>3, Zenon DEF Received
<1>6. ToSend(nic)
  <2>1. PICK mine : mine = TRUE
    OBVIOUS
  <2>2. none.own # mine
    <3>1. none.own = FALSE
      BY <1>4
    <3>2. QED
      BY <2>1, <3>1
  <2>3. InRing([k \in 0 .. TX - 1 |-> none], 0, TX, mine, <<>>)
    BY <1>1, <2>2, EmptyRing
  <2>4. QED
    BY <1>3, <1>4, <2>1, <2>3, Zenon DEF ToSend
<1>7. Rem(0, RX) = 0 /\ Rem(0, TX) = 0
  BY <1>1, RemIs
<1>8. RxInv(nic) /\ TxInv(nic)
  <2>1. 0 + Len(nic.backlog) = 0 /\ 0 + Len(nic.waiting) = 0
    BY <1>3
  <2>2. QED
    BY <1>3, <1>5, <1>6, <1>7, <2>1, Zenon DEF RxInv, TxInv, Rem
<1>9. ConfigInv
  BY DEF Init, ConfigInv, SettingsInv, MyIps, Macs
<1>10. ShellInv
  BY NetworkAssumption DEF Init, ShellInv, NO_PING
<1>11. QED
  BY <1>2, <1>8, <1>9, <1>10 DEF IInv, NicInv, Init

LEMMA ShellStep ==
  ASSUME IInv, Shell
  PROVE  IInv'
<1>1. NicInv /\ ConfigInv /\ ShellInv /\ inbound \subseteq RxFrames /\ TRIES \in Nat \ {0}
  BY NetworkAssumption DEF IInv
<1>2. ASSUME UNCHANGED <<nic, config>>
      PROVE  NicInv' /\ ConfigInv'
  BY <1>1, <1>2 DEF NicInv, ConfigInv, SettingsInv, config
<1>3. ASSUME UNCHANGED config
      PROVE  ConfigInv'
  BY <1>1, <1>3 DEF ConfigInv, SettingsInv, config
<1>4. CASE StartDhcp
  <2>1. ShellInv'
    BY <1>1, <1>4 DEF StartDhcp, Command, NO_PING, ShellInv
  <2>2. QED
    BY <1>1, <1>2, <1>4, <2>1 DEF StartDhcp, Command, IInv
<1>5. ASSUME NEW ip \in Targets, StartPing(ip)
      PROVE  IInv'
  <2>1. ShellInv'
    BY <1>1, <1>5, NetworkAssumption DEF StartPing, Command, ShellInv
  <2>2. QED
    BY <1>1, <1>2, <1>5, <2>1 DEF StartPing, Command, IInv
<1>6. CASE Discover
  <2>1. Send("discover", BROADCAST) /\ UNCHANGED config
    BY <1>6 DEF Discover
  <2>2. NicInv'
    <3>1. BROADCAST \in Addresses /\ "discover" \in Loads
      BY DEF Addresses, Loads
    <3>2. QED
      BY <1>1, <2>1, <3>1, SendStep
  <2>3. ShellInv'
    BY <1>1, <1>6 DEF Discover, ShellInv
  <2>4. QED
    BY <1>1, <1>3, <1>6, <2>1, <2>2, <2>3 DEF Discover, IInv
<1>7. CASE Scan \/ Wait
  <2>1. HandleFrame /\ UNCHANGED <<at, seen, ping, inbound>>
    BY <1>7 DEF Scan, Wait, HandleFrame
  <2>2. NicInv' /\ ConfigInv'
    BY <1>1, <2>1, HandleFrameStep
  <2>3. QED
    BY <1>1, <2>1, <2>2 DEF IInv, ShellInv
<1>8. CASE ScanEnds
  <2>1. ShellInv'
    BY <1>1, <1>8 DEF ScanEnds, ShellInv
  <2>2. QED
    BY <1>1, <1>2, <1>8, <2>1 DEF ScanEnds, IInv
<1>9. CASE Ping
  <2>1. Send("echo", ping.ip) /\ UNCHANGED config
    BY <1>9 DEF Ping
  <2>2. NicInv'
    <3>1. ping.ip \in Addresses /\ "echo" \in Loads
      BY <1>1 DEF ShellInv, Addresses, Loads
    <3>2. QED
      BY <1>1, <2>1, <3>1, SendStep
  <2>3. ShellInv'
    <3>1. /\ at = "ping" /\ at' = "wait" /\ seen' = seen
          /\ ping' = [ping EXCEPT !.left = @ - 1]
      BY <1>9 DEF Ping
    <3>2. ping.left - 1 \in 0 .. TRIES
      BY <1>1, <3>1 DEF ShellInv
    <3>3. ping' \in [ip : Lan \cup {REMOTE, NO_IP}, left : 0 .. TRIES]
      BY <1>1, <3>1, <3>2 DEF ShellInv
    <3>4. QED
      BY <1>1, <3>1, <3>3 DEF ShellInv
  <2>4. QED
    BY <1>1, <1>3, <1>9, <2>1, <2>2, <2>3 DEF Ping, IInv
<1>10. CASE WaitEnds
  <2>1. ShellInv'
    BY <1>1, <1>10 DEF WaitEnds, NO_PING, ShellInv
  <2>2. QED
    BY <1>1, <1>2, <1>10, <2>1 DEF WaitEnds, IInv
<1>11. QED
  BY <1>4, <1>5, <1>6, <1>7, <1>8, <1>9, <1>10 DEF Shell

LEMMA HandlerStep ==
  ASSUME IInv, Handler
  PROVE  IInv'
<1>1. NicInv /\ ConfigInv /\ ShellInv /\ inbound \subseteq RxFrames
  BY DEF IInv
<1>2. ASSUME UNCHANGED <<nic, config>>
      PROVE  NicInv' /\ ConfigInv'
  BY <1>1, <1>2 DEF NicInv, ConfigInv, SettingsInv, config
<1>3. CASE Interrupt \/ InterruptDrained
  <2>1. UNCHANGED <<nic, config, ping, inbound>>
    BY <1>3 DEF Interrupt, InterruptDrained
  <2>2. ShellInv'
    <3>1. nic.pending \subseteq {"RINT", "TINT"}
      BY <1>1, NicFields DEF NicInv
    <3>2. QED
      BY <1>1, <1>3, <3>1 DEF Interrupt, InterruptDrained, ShellInv
  <2>3. QED
    BY <1>1, <1>2, <2>1, <2>2 DEF IInv
<1>4. CASE InterruptReceives
  <2>1. HandleFrame /\ UNCHANGED <<at, seen, ping, inbound>>
    BY <1>4 DEF InterruptReceives, HandleFrame
  <2>2. NicInv' /\ ConfigInv'
    BY <1>1, <2>1, HandleFrameStep
  <2>3. QED
    BY <1>1, <2>1, <2>2 DEF IInv, ShellInv
<1>5. CASE InterruptEnds
  <2>1. nic' = Acknowledge(nic, seen) /\ UNCHANGED <<config, ping, inbound>>
    BY <1>5 DEF InterruptEnds
  <2>2. NicInv'
    BY <1>1, <2>1, AcknowledgeStep, SameRings DEF NicInv
  <2>3. ConfigInv'
    BY <1>1, <2>1 DEF ConfigInv, SettingsInv, config
  <2>4. ShellInv'
    BY <1>1, <1>5 DEF InterruptEnds, ShellInv
  <2>5. QED
    BY <1>1, <2>1, <2>2, <2>3, <2>4 DEF IInv
<1>6. QED
  BY <1>3, <1>4, <1>5 DEF Handler

LEMMA WorldStep ==
  ASSUME IInv, World
  PROVE  IInv'
<1>1. NicInv /\ ConfigInv /\ ShellInv /\ inbound \subseteq RxFrames
  BY DEF IInv
<1>2. UNCHANGED <<config, at, seen, ping>>
  BY DEF World, CardTransmits, CardReceives, Lose, HostCalls, Chatter
<1>3. ConfigInv' /\ ShellInv'
  BY <1>1, <1>2 DEF ConfigInv, SettingsInv, config, ShellInv
<1>4. ASSUME NEW f \in RxFrames, nic' = Receive(nic, f)
      PROVE  NicInv'
  <2>1. /\ Receive(nic, f) \in Nics /\ RxInv(Receive(nic, f))
        /\ SameTx(Receive(nic, f), nic)
    BY <1>1, ReceiveStep DEF NicInv
  <2>2. QED
    BY <1>1, <1>4, <2>1, SameRings DEF NicInv
<1>5. CASE CardTransmits
  <2>1. CanTransmit(nic) /\ nic' = Transmit(nic)
    BY <1>5 DEF CardTransmits
  <2>2. /\ Transmit(nic) \in Nics /\ TxInv(Transmit(nic)) /\ SameRx(Transmit(nic), nic)
        /\ Transmitted(nic) \in TxFrames
    BY <1>1, <2>1, TransmitStep DEF NicInv
  <2>3. NicInv'
    BY <1>1, <2>1, <2>2, SameRings DEF NicInv
  <2>4. Answers(Transmitted(nic)) \subseteq RxFrames
    BY <1>1, <2>2, AnswersAre DEF ConfigInv
  <2>5. inbound' \subseteq RxFrames
    BY <1>1, <1>5, <2>4 DEF CardTransmits
  <2>6. QED
    BY <1>3, <2>3, <2>5 DEF IInv
<1>6. ASSUME NEW f \in inbound, CardReceives(f)
      PROVE  IInv'
  BY <1>1, <1>3, <1>4, <1>6 DEF CardReceives, IInv
<1>7. ASSUME NEW f \in inbound, Lose(f)
      PROVE  IInv'
  BY <1>1, <1>3, <1>7 DEF Lose, IInv, NicInv
<1>8. ASSUME NEW host \in Askers, HostCalls(host)
      PROVE  IInv'
  <2>1. host \in Lan
    BY NetworkAssumption
  <2>2. ArpFrom(host, 1) \in RxFrames /\ SegmentFrom(host) \in RxFrames
    BY <1>1, <2>1 DEF ArpFrom, SegmentFrom, RxFrames, ConfigInv
  <2>3. QED
    BY <1>1, <1>3, <1>8, <2>2 DEF HostCalls, IInv, NicInv
<1>9. CASE Chatter
  <2>1. [kind |-> "datagram"] \in RxFrames
    BY DEF RxFrames
  <2>2. QED
    BY <1>1, <1>3, <1>4, <1>9, <2>1 DEF Chatter, IInv
<1>10. QED
  BY <1>5, <1>6, <1>7, <1>8, <1>9 DEF World

LEMMA IInvHolds == Spec => []IInv
<1>1. IInv /\ [Next]_vars => IInv'
  <2> SUFFICES ASSUME IInv, [Next]_vars PROVE IInv'
    OBVIOUS
  <2>1. CASE UNCHANGED vars
    BY <2>1 DEF vars, config, IInv, NicInv, ConfigInv, SettingsInv, ShellInv
  <2>2. QED
    BY <2>1, ShellStep, HandlerStep, WorldStep DEF Next
<1>2. QED
  BY InitIInv, <1>1, PTL DEF Spec

-----------------------------------------------------------------------------
(* Both rings hold their frames in order and with no gap, whoever polls    *)
(* them and wherever the driver and the card are in them: no frame is      *)
(* handled twice or skipped, and none is sent twice, skipped or overtaken  *)
(* before the driver takes a slot of the card (pcnet.cpp:151-202).         *)
THEOREM RingsAreSound == Spec => []RingsSound
<1>1. IInv => RingsSound
  <2> SUFFICES ASSUME IInv PROVE RingsSound
    OBVIOUS
  <2>1. /\ nic.rx_index \in 0 .. RX - 1 /\ nic.card_rx \in 0 .. RX - 1
        /\ nic.tx_index \in 0 .. TX - 1 /\ nic.card_tx \in 0 .. TX - 1
    BY NicFields DEF IInv, NicInv
  <2>2. TypeOK
    BY <2>1 DEF IInv, ConfigInv, ShellInv, MyIps, Macs, SettingsInv, TypeOK
  <2>3. ReceivedInOrder /\ SentInOrder
    BY DEF IInv, NicInv, RxInv, TxInv, ReceivedInOrder, SentInOrder
  <2>4. QED
    BY <2>2, <2>3 DEF RingsSound
<1>2. QED
  BY <1>1, IInvHolds, PTL

(* Whichever servers answer, however late and whatever their offers leave  *)
(* out, hosts of the local network are asked for themselves, and others go *)
(* to an offered router once one offer had a mask and one a router         *)
(* (dhcp.cpp:84-107, ipv4.cpp:75-79).                                      *)
THEOREM OffersRoute == Spec => []RoutedByOffers
<1>1. IInv => RoutedByOffers
  <2> SUFFICES ASSUME IInv PROVE RoutedByOffers
    OBVIOUS
  <2>1. SettingsInv /\ taken \subseteq Offers
    BY DEF IInv, ConfigInv
  <2>2. ASSUME subnet_mask # NO_IP
        PROVE  /\ \A ip \in Lan : Net[subnet_mask][ip] = Net[subnet_mask][my_ip]
               /\ Net[subnet_mask][REMOTE] # Net[subnet_mask][my_ip]
    <3>1. PICK o \in Offers, d \in Offers :
            o.mask = subnet_mask /\ d.ip = my_ip
      BY <2>1, <2>2 DEF SettingsInv
    <3>2. QED
      BY <2>2, <3>1, NetworkAssumption
  <2>3. \A ip \in Lan : Route(ip) = ip
    BY <2>2 DEF Route
  <2>4. ASSUME NEW o \in taken, o.mask # NO_IP, NEW d \in taken, d.router # NO_IP
        PROVE  Route(REMOTE) \in {e.router : e \in taken} \ {NO_IP}
    <3>1. subnet_mask # NO_IP /\ gateway_ip # NO_IP
      BY <2>1, <2>4 DEF SettingsInv
    <3>2. PICK e \in taken : e.router = gateway_ip
      BY <2>1, <3>1 DEF SettingsInv
    <3>3. Route(REMOTE) = gateway_ip
      BY <2>2, <3>1 DEF Route
    <3>4. QED
      BY <3>1, <3>2, <3>3
  <2>5. QED
    BY <2>3, <2>4 DEF RoutedByOffers
<1>2. QED
  BY <1>1, IInvHolds, PTL

(* An echo request for a host goes to it, to the gateway or to all, and    *)
(* one for a host elsewhere to the gateway or to all: the one entry of the *)
(* cache is used for the host that it is about, and for any other only     *)
(* when it is the gateway's (arp.cpp:52-75, ipv4.cpp:71-82).               *)
THEOREM EchoNotDiverted == Spec => NotDiverted
<1>1. IInv /\ Ping =>
        LET f == LastSent(nic)'
        IN  /\ f.kind = "echo" /\ f.ip = ping.ip
            /\ f.mac \in {BROADCAST, gateway_ip}
                 \cup (IF ping.ip = REMOTE THEN {} ELSE {ping.ip})
  <2> SUFFICES ASSUME IInv, Ping
               PROVE  LET f == LastSent(nic)'
                      IN  /\ f.kind = "echo" /\ f.ip = ping.ip
                          /\ f.mac \in {BROADCAST, gateway_ip}
                               \cup (IF ping.ip = REMOTE THEN {} ELSE {ping.ip})
    OBVIOUS
  <2>1. NicInv /\ ConfigInv /\ Send("echo", ping.ip)
    BY DEF IInv, Ping
  <2>2. ping.ip \in Addresses /\ "echo" \in Loads
    BY DEF IInv, ShellInv, Addresses, Loads
  <2>3. PICK mac \in Macs :
          /\ mac \in {BROADCAST, ping.ip, gateway_ip}
          /\ LastSent(nic') = Packet("echo", ping.ip, mac)
    BY <2>1, <2>2, SendStep
  <2>4. LastSent(nic)' = LastSent(nic')
    BY DEF LastSent
  <2>5. mac \in {BROADCAST, gateway_ip} \cup (IF ping.ip = REMOTE THEN {} ELSE {ping.ip})
    BY <2>3, NetworkAssumption DEF Macs
  <2>6. QED
    BY <2>3, <2>4, <2>5 DEF Packet
<1>2. QED
  BY <1>1, IInvHolds, PTL DEF Spec, NotDiverted
=============================================================================
