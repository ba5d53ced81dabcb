SPECIFICATION DtlsClientSpec
CONSTANTS
  MaxTransactions = 2
  MaxRetransmit = 1
  Free = Free
  MaxDups = 0
  MaxNet = 2
  MidMod = 8
  NoToken = NoToken
  BlockSize = 2
  MaxBlock1Body = 4
  MaxBlock2Body = 4
  ClientEp = c1
  Servers = {s1}
  AllNodes = mc
  Paths = {temp}
  MaxDiscovers = 0
  TokenMod = 8
  MaxCalls = 2
  RequestKinds <- MCGets
  Reactions = {"none"}
  Peers = {s1}
  Nobody = Nobody
  MaxSessions = 1
  MaxSends = 3
  HandshakeTimeout = 1
INVARIANT BufferedIsRetried
CHECK_DEADLOCK FALSE
