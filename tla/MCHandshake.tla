----------------------------- MODULE MCHandshake -----------------------------
(* One client, two descriptors, and one datagram lost.                     *)
EXTENDS Handshake
=============================================================================
