SPECIFICATION SSpec
CONSTANTS
    Base = 4
    SOF = 3
    MaxPayload = 2
    ByteBits = 2
    CrcBits = 4
    Poly = 3
    Seed = 15
    Crc <- proto_crc16
    SensorFrame = 1
    HeartbeatReq = 2
    PackedSize = 2
    Traffic <- SensorTraffic
    Errors = 0
INVARIANT HandledIsVerified
