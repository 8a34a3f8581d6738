--------------------------- MODULE MCPpkRotation ---------------------------
(* A small instance of PpkRotation for TLC. *)
EXTENDS PpkRotation

MCNode == {"alice", "bob"}
=============================================================================
