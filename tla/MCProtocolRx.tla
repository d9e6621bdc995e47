---------------------------- MODULE MCProtocolRx ----------------------------
(***************************************************************************)
(* ProtocolRx with the checksum of Crc16: bytes of two bits, a register of *)
(* two bytes, payloads of up to two bytes.                                 *)
(***************************************************************************)
EXTENDS ProtocolRx, Crc16

ASSUME WidthAssumption == Base = 2 ^ ByteBits /\ CrcBits = 2 * ByteBits

(* What detection of damage rests on holds of proto_crc16.                 *)
ASSUME DetectionAssumption == ByteSerial(Register, Absorb)

(* Frames with start bytes as type, length, payload and checksum, and      *)
(* frames (the last two) with no start byte but their own.                 *)
MixedTraffic ==
    {<<SOF, <<0, SOF>>>>, <<0, <<SOF, SOF>>>>, <<1, <<>>>>, <<0, <<1>>>>, <<0, <<>>>>}

(* The bit loop computes what a CRC is: on every byte string the parser    *)
(* meets after a start byte, the register holds the remainder of the       *)
(* message divided by the generator.                                       *)
CrcIsRemainder ==
    wire # <<>> => Exponents(proto_crc16(Tail(wire)), CrcBits) = CrcOf(Tail(wire))
=============================================================================
