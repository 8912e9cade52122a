CONSTANTS
  Fd = {f1, f2}
  Welcome = Welcome
  Addr = {a1, a2}
  Channel = {Default, c2}
  Default = Default
  NoChannel = NoChannel
  Unknown = Unknown
  MaxId = 4
  MaxBuffered = 2
  udp_retransmissions = 1
  STOP_TIMEOUT = 2
  POLL_INTERVAL = 2
SPECIFICATION Spec
SYMMETRY Perms
INVARIANTS TypeOK PendingOwner ByeEndsSession JoinedIffAuthorized  SweepOnlyUnresponsive
PROPERTIES EndIsFinal MoveAnnounced ChatFromMember  ImplementsSession
