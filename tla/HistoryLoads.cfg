SPECIFICATION HistorySpec
CONSTANTS
  c1 = c1
  c2 = c2
  p1 = p1
  ChatList <- MCChatList
  Forums = {c2}
  Messages = {1, 2}
  ChatOf <- MCChatOf
  Threaded = {2}
  Media = {2}
  Peers = {}
  SweepLimit = 1
  SmallCapacity = 1
  PageSize = 1
  LaneBound = 2
  LiveBound = 1
  MaxUpsets = 1
  NoKey = NoKey
  NoEffect = NoEffect
  NoPage = NoPage
INVARIANTS
  LiveKept
  LoadHasRequest
CHECK_DEADLOCK FALSE
