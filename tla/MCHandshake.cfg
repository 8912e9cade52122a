CONSTANTS
  Fd = {f1, f2}
  Welcome = Welcome
  Addr = {a1}
  Channel = {Default}
  Default = Default
  NoChannel = NoChannel
  Unknown = Unknown
  MaxId = 3
  MaxBuffered = 3
  udp_retransmissions = 1
  STOP_TIMEOUT = 2
  POLL_INTERVAL = 2
  ClientAddr = a1
  client_retries = 1
  MaxLoss = 1
SPECIFICATION HLiveSpec
INVARIANTS OneClientPerAddress LeakedPerCopy
PROPERTIES Answered
