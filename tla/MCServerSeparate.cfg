SPECIFICATION Spec
CONSTANTS
  MaxTransactions = 1
  MaxRetransmit = 1
  Free = Free
  MaxDups = 0
  MaxNet = 2
  MidMod = 8
  NoToken = NoToken
  BlockSize = 2
  MaxBlock1Body = 4
  MaxBlock2Body = 4
  ServerEp = s
  Tokens = {"t1"}
  Resources = {"slow"}
  Methods <- MCMethods
  Observable = {"slow"}
  MaxObservers = 1
  MaxDeferred = 1
  MaxNotify = 0
  HandlerAnswers <- MCAnswers
  MaxSessions = 1
  ReplySize <- MCReplySize
  Peers = {c1}
  PeerRequests <- MCSubscriptions
  MaxRequests = 2
  SilentPeers = {}
PROPERTIES SeparateTimeoutHarmless
CHECK_DEADLOCK FALSE
