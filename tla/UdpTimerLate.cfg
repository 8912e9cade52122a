CONSTANTS
  udp_timeout = 250
  udp_retransmissions = 3
SPECIFICATION Spec
INVARIANTS OnTime
