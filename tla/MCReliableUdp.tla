--------------------------- MODULE MCReliableUdp ---------------------------
(* Instances of ReliableUdp for TLC.                                       *)
EXTENDS ReliableUdp
=============================================================================
