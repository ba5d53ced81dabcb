SPECIFICATION RestartSpec
CONSTANTS
  MaxTransactions = 2
  MaxRetransmit = 1
  Free = Free
  MaxDups = 0
  MaxNet = 2
  MidMod = 16
  NoToken = NoToken
  BlockSize = 2
  MaxBlock1Body = 5
  MaxBlock2Body = 4
  ClientEp = c
  Servers = {s}
  AllNodes = all
  Paths = {"temp"}
  MaxDiscovers = 0
  TokenMod = 8
  MaxCalls = 2
  RequestKinds <- MCUploads
  Reactions = {"none"}
  ServerEp = s
  Peers = {c}
  Tokens <- MCTokens
  Resources = {"temp"}
  Methods <- MCMethods
  Observable = {}
  MaxObservers = 1
  MaxDeferred = 1
  MaxNotify = 0
  HandlerAnswers <- MCInline
  MaxSessions = 1
  ReplySize <- MCReplySize
INVARIANTS UploadIntegrity
CHECK_DEADLOCK FALSE
