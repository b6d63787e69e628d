---------------------------- MODULE MCSupervisor ----------------------------
(* Model-checking instance of Supervisor: model values only. *)
EXTENDS Supervisor
=============================================================================
