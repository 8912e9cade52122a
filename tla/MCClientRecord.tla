--------------------------- MODULE MCClientRecord ---------------------------
(* An array of two characters: names that are shorter, that fill it, and   *)
(* that exceed it, with common beginnings.                                 *)
EXTENDS ClientRecord

MC_Name == {<<1>>, <<1, 2>>, <<1, 2, 1>>, <<2, 1>>}
MC_Default == <<1>>
=============================================================================
