CONSTANTS
  Fd = {f1, f2}
  Welcome = Welcome
  Addr = {a1, a2}
  Channel = {Default}
  Default = Default
  NoChannel = NoChannel
  Unknown = Unknown
  MaxId = 4
  MaxBuffered = 3
  udp_retransmissions = 0
  STOP_TIMEOUT = 2
  POLL_INTERVAL = 2
  MaxInputs = 2
SPECIFICATION LiveSpec
PROPERTIES EndedIsDeleted
