CONSTANTS
  udp_timeout = 225
  udp_retransmissions = 3
SPECIFICATION Spec
INVARIANTS TypeOK OnTime FallsDue
