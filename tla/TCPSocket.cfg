SPECIFICATION FairSpec
CONSTANTS Lengths={1,7} MaxFrames=2 BufSize=6 SendSizes={1} MaxSends=1 Writes={"whole","part","error"}
INVARIANTS ReceiveInStep WireInOrder
PROPERTIES ImplementsSocket RecvEnds EveryMessageReturned
CHECK_DEADLOCK FALSE
