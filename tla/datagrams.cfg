SPECIFICATION Spec
CHECK_DEADLOCK FALSE
CONSTANTS
    U64MAX = 1
    INT_MAX = 1
    SEQ_MAX = 1000
    Families = {"inet", "inet6"}
    ByteOrders = {"little", "big"}
    PACKET_SIZE = 64
    RECV_SIZE = 1500
    Horizons <- TwoHorizons
    Identifier = 4660
    EchoWords = {5, 6, 15}
    Foreign <- SmallForeign
INVARIANTS RequestsAreSound JudgedRightly FilterIsTransparent
PROPERTY RequestsDiffer
