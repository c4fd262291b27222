---------------------------- MODULE MCScheduler -----------------------------
(***************************************************************************)
(* Scheduler with the kernel and four more processes, each of which may    *)
(* be the one that adds another, while another add_process is under way    *)
(* too, and with the list stores in either order.                          *)
(***************************************************************************)
EXTENDS Scheduler
=============================================================================
