------------------------------- MODULE MCVrrpExec -------------------------------
(* The instance of VrrpExec for TLC: one process more than there can be. *)
EXTENDS VrrpExec

================================================================================
