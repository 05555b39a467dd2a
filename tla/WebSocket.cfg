SPECIFICATION FairSpec
CONSTANTS MaxMessages=3 MaxPieces=1 MaxSends=2
INVARIANT WebSocketInStep
PROPERTIES ClosedIsFinal CallsReturn SentGoesOut ImplementsSocket
CHECK_DEADLOCK FALSE
