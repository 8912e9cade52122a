----------------------------- MODULE MCUdpTimer -----------------------------
(* The countdown for the timeouts and retransmissions the cfg files give.  *)
EXTENDS UdpTimer
=============================================================================
