------------------------------ MODULE MCPubSub ------------------------------
(* Instances of PubSubQueue for TLC. *)
EXTENDS PubSubQueue

CONSTANTS w1, w2, x, y, z
=============================================================================
