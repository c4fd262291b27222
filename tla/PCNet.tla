------------------------------- MODULE PCNet --------------------------------
(***************************************************************************)
(* The PCNet card and its driver (kernel/drivers/pcnet.cpp) as functions   *)
(* on a record nic:                                                        *)
(*   rx, tx         the rings: [own, frame]; own: the slot is the card's   *)
(*   rx_index, tx_index    where the driver is                             *)
(*   card_rx, card_tx      where the card is                               *)
(*   pending        RINT and TINT of CSR0                                  *)
(*   iena           the interrupt enable bit of CSR0                       *)
(*   backlog        ghost: frames received and not yet handled             *)
(*   waiting        ghost: frames given to the card and not yet sent       *)
(*   overrun        ghost: the driver took a transmit slot of the card     *)
(* A slot that is empty holds NO_FRAME.                                    *)
(***************************************************************************)
EXTENDS Integers, Sequences

CONSTANTS
  RX,         \* receive descriptors (32)
  TX          \* transmit descriptors (8)

ASSUME PCNetAssumption == RX \in Nat \ {0} /\ TX \in Nat \ {0}

NO_FRAME == [kind |-> "none"]

(* initialize: all the buffers are the card's for receiving.               *)
PCNetInit ==
  [rx |-> [k \in 0 .. RX - 1 |-> [own |-> TRUE, frame |-> NO_FRAME]],
   tx |-> [k \in 0 .. TX - 1 |-> [own |-> FALSE, frame |-> NO_FRAME]],
   rx_index |-> 0, tx_index |-> 0, card_rx |-> 0, card_tx |-> 0,
   pending |-> {}, iena |-> TRUE,
   backlog |-> <<>>, waiting |-> <<>>, overrun |-> FALSE]

-----------------------------------------------------------------------------
(* send_packet: the slot is not looked at before it is overwritten; the    *)
(* command that starts the transmission enables interrupts.                *)
SendFrame(nic, frame) ==
  LET over == nic.overrun \/ nic.tx[nic.tx_index].own IN
  [nic EXCEPT
     !.tx[nic.tx_index] = [own |-> TRUE, frame |-> frame],
     !.tx_index = (@ + 1) % TX,
     !.iena     = TRUE,
     !.waiting  = IF over THEN <<>> ELSE Append(@, frame),
     !.overrun  = over]

SendFrames(nic, frames) ==
  LET sent[k \in 0 .. Len(frames)] ==
        IF k = 0 THEN nic ELSE SendFrame(sent[k - 1], frames[k])
  IN  sent[Len(frames)]

(* receive_packet: the frame at rx_index is the driver's.                  *)
HasFrame(nic) == ~nic.rx[nic.rx_index].own

NextFrame(nic) == nic.rx[nic.rx_index].frame

(* A slot that is left to the driver after its frame was handled.          *)
HandBack_Keeps(nic) ==
  [nic EXCEPT
     !.rx_index = (@ + 1) % RX,
     !.backlog  = Tail(@)]

(* ... which is given back to the card once it was handled.                *)
HandBack(nic) ==
  [nic EXCEPT
     !.rx[nic.rx_index] = [own |-> TRUE, frame |-> NO_FRAME],
     !.rx_index = (@ + 1) % RX,
     !.backlog  = Tail(@)]

(* callback, at its end: what was read from CSR0 is written back without   *)
(* bit 6, which is the enable bit.                                         *)
Acknowledge(nic, seen) ==
  [nic EXCEPT !.pending = @ \ seen, !.iena = FALSE]

-----------------------------------------------------------------------------
(* The card: a frame that finds no slot is lost.                           *)
Receive(nic, frame) ==
  IF ~nic.rx[nic.card_rx].own THEN nic
  ELSE [nic EXCEPT
          !.rx[nic.card_rx] = [own |-> FALSE, frame |-> frame],
          !.card_rx = (@ + 1) % RX,
          !.pending = @ \cup {"RINT"},
          !.backlog = Append(@, frame)]

CanTransmit(nic) == nic.tx[nic.card_tx].own

Transmit(nic) ==
  [nic EXCEPT
     !.tx[nic.card_tx] = [own |-> FALSE, frame |-> NO_FRAME],
     !.card_tx = (@ + 1) % TX,
     !.pending = @ \cup {"TINT"},
     !.waiting = IF nic.overrun THEN @ ELSE Tail(@)]

Transmitted(nic) == nic.tx[nic.card_tx].frame

-----------------------------------------------------------------------------
(* From this slot on the ring holds these frames, in their order and with  *)
(* no gap, and no slot after them is in the same hands.                    *)
InRing(ring, from, size, own, frames) ==
  /\ Len(frames) <= size
  /\ \A k \in 1 .. size :
       LET slot == ring[(from + k - 1) % size]
       IN  IF k <= Len(frames) THEN slot = [own |-> own, frame |-> frames[k]]
           ELSE slot.own # own

Received(nic) == InRing(nic.rx, nic.rx_index, RX, FALSE, nic.backlog)

ToSend(nic)   == InRing(nic.tx, nic.card_tx, TX, TRUE, nic.waiting)

LastSent(nic) == nic.tx[(nic.tx_index + TX - 1) % TX].frame
=============================================================================
