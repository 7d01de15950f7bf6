---------------------------- MODULE MCSizeProbe ----------------------------
(* The best case of the experiment: nothing is lost but what is too large, *)
(* and the alarm comes when nothing is under way any more.                 *)
EXTENDS SizeProbe
=============================================================================
