------------------------------ MODULE MCPacing ------------------------------
(* Values of Pacing for TLC.                                               *)
EXTENDS Pacing

SmallDrifts == {-3, 0, 2}
=============================================================================
