--------------------------- MODULE MCPeerRegistry ---------------------------
(* Model-checking instance of PeerRegistry: model values only. *)
EXTENDS PeerRegistry
=============================================================================
