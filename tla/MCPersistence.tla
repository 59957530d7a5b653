---------------------------- MODULE MCPersistence ----------------------------
(* Instances of Persistence for TLC. *)
EXTENDS Persistence

CONSTANTS ann, bob, d1, d2, h1, h2
=============================================================================
