------------------------- MODULE MCWindowAggregator -------------------------
(***************************************************************************)
(* WindowAggregator for TLC: two hosts, packets of a negative, and of      *)
(* three consecutive, window indices, in every order, with flushes         *)
(* anywhere.                                                               *)
(***************************************************************************)
EXTENDS WindowAggregator, TLC

MCPacket == [index : -1 .. 3, src : Src]
HostSymmetry == Permutations(Src)
=============================================================================
