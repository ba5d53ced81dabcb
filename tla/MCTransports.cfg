SPECIFICATION Spec
CONSTANTS
  MaxOptions = 5
  MaxToken = 8
  ResourcePaths <- MCResourcePaths
  MaxPathLen = 12
  MaxParams = 2
  MaxParamLen = 3
  Asked <- MCAsked
  Endpoints <- MCEndpoints
  MaxMsgSize = 300
  RxSizes <- MCRxSizes
  Peers = {p1, p2, p3}
  Nobody = Nobody
  MaxSessions = 2
  MaxSends = 2
  HandshakeTimeout = 1
  Slots = 4
  CounterMod = 8
  MaxMsg = 2
  Lengths = {1, 3}
  MaxArrivals = 10
INVARIANTS MessageSurvives CutIsHarmless ArgumentsArrive RightResource
           ParametersAreSegments ListingIsSound AnswerComesFromPeer
           DtlsTypeOK OneSessionPerPeer OwnSessionOnce HandshakeBounded
PROPERTIES LatestGoesOut HandshakeUndisturbed RingIsFifo
CHECK_DEADLOCK FALSE
