---------------------------- MODULE MCReceiveRing ----------------------------
(***************************************************************************)
(* ReceiveRing with a ring of three places, two kinds of bytes, segments   *)
(* that can be longer than the ring, and reads up to its size.             *)
(***************************************************************************)
EXTENDS ReceiveRing
=============================================================================
