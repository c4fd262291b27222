-------------------------- MODULE MCTCPConnections --------------------------
(***************************************************************************)
(* TCPConnections with the listener, two SYNs and a client's connection,   *)
(* two peers, and a window of two bytes that two sends overrun.            *)
(***************************************************************************)
EXTENDS TCPConnections, TLC

MCSymmetry == Permutations(Peers)
=============================================================================
