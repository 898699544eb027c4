--------------------------- MODULE MCDefenderLoop ---------------------------
(***************************************************************************)
(* DefenderLoop for TLC: an attacking client and the server that answers   *)
(* it, over two windows.                                                   *)
(***************************************************************************)
EXTENDS DefenderLoop

MCIndices == 0 .. 1
=============================================================================
