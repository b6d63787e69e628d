------------------------------ MODULE MCTunnel ------------------------------
(* Model-checking instance of Tunnel: model values only. *)
EXTENDS Tunnel
=============================================================================
