--------------------------- MODULE MCControlPlane ---------------------------
(* A small instance of ControlPlane for TLC: a page, and another caller     *)
(* that resets the parameters.  The verdict is read by nobody: MCWebui      *)
(* checks it without a page.                                                *)
EXTENDS ControlPlane

MCPosted == {[kind |-> "reset", value |-> None]}
=============================================================================
