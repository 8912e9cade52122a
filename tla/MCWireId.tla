------------------------------ MODULE MCWireId ------------------------------
(* Ids on the wire, with client ids whose bytes are around the edges of    *)
(* signed and unsigned bytes.                                              *)
EXTENDS WireId

MCClientId ==
  LET Byte == {0, 127, 128, 255}
  IN  {256 * high + low : high \in Byte, low \in Byte}
=============================================================================
