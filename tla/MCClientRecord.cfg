CONSTANTS
  Id = {0, 1, 2, 3}
  MAX_CONFIRMED_MSG = 3
  COUNT_WIDTH = 9
  BYTE = 3
  MaxProcessed = 7
  MaxPeer = 4
  CHANNELID_MAX_LENGTH = 2
  Name <- MC_Name
  Default <- MC_Default
SPECIFICATION RSpec
INVARIANTS MembersTold StrangersNotTold
PROPERTIES ImplementsFilter
