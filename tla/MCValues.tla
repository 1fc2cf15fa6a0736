------------------------------- MODULE MCValues -------------------------------
(***************************************************************************)
(* Constants of Values for TLC: a wide matrix, a square one and a vector,  *)
(* ranges that grow and shrink, points off the axes, and a clock that may  *)
(* step back.                                                              *)
(***************************************************************************)
EXTENDS Values

MCShapes == {<<2, 3>>, <<2, 2>>, <<3, 1>>}
MCAmounts == {-1, 2}
MCVectors == {<<1, 1, 1>>, <<2, 3, 5>>}
MCTicks == {-1, 1, 4}
=============================================================================
