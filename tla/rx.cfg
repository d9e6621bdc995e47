SPECIFICATION FairSpec
CONSTANTS
    Base = 4
    SOF = 3
    MaxPayload = 2
    ByteBits = 2
    CrcBits = 4
    Poly = 3
    Seed = 15
    Crc <- proto_crc16
    Traffic <- MixedTraffic
    Errors = 3
INVARIANTS TypeOK BufferSafe VerdictExact CleanFrameAccepted CrcIsRemainder DamageDetected
PROPERTY Resync
