SPECIFICATION LiveSpec
CONSTANTS
  MaxTransactions = 1
  MaxRetransmit = 1
  Free = Free
  MaxDups = 0
  MaxNet = 2
  MidMod = 8
  NoToken = NoToken
  BlockSize = 2
  MaxBlock1Body = 4
  MaxBlock2Body = 4
  ServerEp = s
  Tokens = {"t1", "t2"}
  Resources = {"temp", "slow"}
  Methods <- MCMethods
  Observable = {"temp"}
  MaxObservers = 2
  MaxDeferred = 2
  MaxNotify = 1
  HandlerAnswers <- MCAnswers
  MaxSessions = 1
  ReplySize <- MCReplySize
  Peers = {c1, c2}
  PeerRequests <- MCPeerRequests
  MaxRequests = 3
  SilentPeers = {c2}
INVARIANTS ServerTypeOK UniqueObservers HandlesMatchSlots
PROPERTIES RemovedForCause DeadPeerRemoved
CHECK_DEADLOCK FALSE
