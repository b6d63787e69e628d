---------------------------- MODULE MCDeployment ----------------------------
(* Model-checking instance of Deployment: one Mac has an older version, whose *)
(* template declares a parameter that the newer one has dropped.              *)
EXTENDS Deployment

CONSTANTS newer, older

MCDeclares == [m \in {newer, older} |-> {"port", "image"} \cup IF m = older THEN {"dropped"} ELSE {}]
=============================================================================
