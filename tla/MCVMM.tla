------------------------------- MODULE MCVMM --------------------------------
(***************************************************************************)
(* VMM with eight frames and user tables of one page each: two spaces that *)
(* share a page, and a copy of it, need all of them, so that allocation    *)
(* fails in every place.                                                   *)
(***************************************************************************)
EXTENDS VMM
=============================================================================
