----------------------------- MODULE MCNetwork ------------------------------
(***************************************************************************)
(* Network with a router and another host, two DHCP servers of which one   *)
(* leaves out the router and the other the mask, and rings of two frames,  *)
(* which a ping overruns.                                                  *)
(***************************************************************************)
EXTENDS Network, TLC

MCLan    == {"router", "host"}
MCOffers == {[ip |-> "me", mask |-> "m", router |-> NO_IP],
             [ip |-> "me2", mask |-> NO_IP, router |-> "router"]}

MCNet ==
  [mask \in {"m"} |->
    [ip \in MCLan \cup {"me", "me2"} |-> "here"] @@ [ip \in {REMOTE, BROADCAST} |-> ip]]
=============================================================================
