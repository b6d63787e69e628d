--------------------------- MODULE MCGatewayGroup ---------------------------
(* Model-checking instance of GatewayGroup: model values only. *)
EXTENDS GatewayGroup
=============================================================================
