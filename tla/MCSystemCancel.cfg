SPECIFICATION Spec
CONSTANTS
  MaxTransactions = 1
  MaxRetransmit = 1
  Free = Free
  MaxDups = 0
  MaxNet = 2
  MidMod = 8
  NoToken = NoToken
  BlockSize = 2
  MaxBlock1Body = 4
  MaxBlock2Body = 4
  ClientEp = c
  Servers = {s}
  AllNodes = all
  Paths = {"temp"}
  MaxDiscovers = 1
  TokenMod = 8
  MaxCalls = 2
  RequestKinds <- MCRequests
  Reactions = {"none"}
  ServerEp = s
  Peers = {c}
  Tokens <- MCTokens
  Resources = {"temp", "wellknown"}
  Methods <- MCMethods
  Observable = {"temp"}
  MaxObservers = 1
  MaxDeferred = 1
  MaxNotify = 1
  HandlerAnswers <- MCInline
  MaxSessions = 1
  ReplySize <- MCReplySize
INVARIANTS CancelRemoves
CHECK_DEADLOCK FALSE
