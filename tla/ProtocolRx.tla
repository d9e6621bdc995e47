----------------------------- MODULE ProtocolRx -----------------------------
(***************************************************************************)
(* The receiving half of protocol.c: proto_rx_feed, one byte at a time,    *)
(* and the line that feeds it with frames as build_frame lays them out:    *)
(*                                                                         *)
(*     SOF  TYPE  LEN_LO LEN_HI  PAYLOAD ...  CRC_LO CRC_HI                *)
(*                                                                         *)
(* Bytes are the digits of base Base (256) and proto_crc16 is any function *)
(* Crc from byte strings to two bytes.  The line may corrupt, lose and     *)
(* insert bytes, Errors times in a behaviour.                              *)
(*                                                                         *)
(* Definitions introduced as BUG are not part of the model: each is a form *)
(* of the definition below it that some property must reject.              *)
(***************************************************************************)
EXTENDS Integers, Sequences

CONSTANTS Base,         \* 256
          SOF,          \* PROTO_SOF, 0xAB
          MaxPayload,   \* PROTO_MAX_PAYLOAD, 128
          Crc(_),       \* proto_crc16
          Traffic,      \* the frames that may be sent: <<type, payload>>
          Errors        \* bound: line errors in a behaviour

Byte == 0 .. Base - 1

ASSUME BaseAssumption == Base \in Nat /\ Base > 1
ASSUME SOFAssumption == SOF \in Byte
ASSUME MaxPayloadAssumption == MaxPayload \in Nat \ {0} /\ MaxPayload < Base * Base
ASSUME ErrorsAssumption == Errors \in Nat

VARIABLES state, type, len, payload, payload_idx, crc_lo,   \* proto_rx_ctx_t
          result,     \* what the latest proto_rx_feed returned
          wire,       \* the bytes since the SOF the parser locked on
          last,       \* the byte string the latest CRC check was about
          sent,       \* the frame on the line
          tx,         \* what is left of it
          clean,      \* it met an idle parser and no error
          errors      \* line errors still to come

frame == <<type, len, payload>>
rx    == <<state, frame, payload_idx, crc_lo>>
line  == <<sent, tx, clean, errors>>
vars  == <<rx, result, wire, last, line>>

RxStates == {"WAIT_SOF", "WAIT_TYPE", "WAIT_LEN_LO", "WAIT_LEN_HI",
             "WAIT_PAYLOAD", "WAIT_CRC_LO", "WAIT_CRC_HI"}
Zeros == [i \in 0 .. MaxPayload - 1 |-> 0]

Lo(n) == n % Base
Hi(n) == n \div Base

(* build_frame: what a sender puts on the line, and the part of it that    *)
(* the CRC covers.                                                         *)
Covered(t, p) == <<t, Lo(Len(p)), Hi(Len(p))>> \o p
build_frame(t, p) ==
    LET crc == Crc(Covered(t, p))
    IN  <<SOF>> \o Covered(t, p) \o <<Lo(crc), Hi(crc)>>

(* What is sent fits the receiver, and its CRC fits two bytes.             *)
ASSUME TrafficAssumption ==
    \A f \in Traffic : /\ f[1] \in Byte /\ f[2] \in Seq(Byte)
                       /\ Len(f[2]) <= MaxPayload
                       /\ Crc(Covered(f[1], f[2])) \in 0 .. Base * Base - 1

(* The string the receiver computes its CRC over: header, then payload.    *)
(* BUG: the length bytes are left out.                                     *)
CrcBufShort == <<type>> \o [i \in 1 .. len |-> payload[i - 1]]
CrcBuf == <<type, Lo(len), Hi(len)>> \o [i \in 1 .. len |-> payload[i - 1]]

(* proto_rx_reset clears the whole context, the frame included.            *)
proto_rx_reset ==
    /\ state' = "WAIT_SOF"
    /\ type' = 0
    /\ len' = 0
    /\ payload' = Zeros
    /\ payload_idx' = 0
    /\ crc_lo' = 0

wait_sof(b) ==
    /\ state = "WAIT_SOF"
    /\ state' = IF b = SOF THEN "WAIT_TYPE" ELSE "WAIT_SOF"
    /\ UNCHANGED <<frame, payload_idx, crc_lo>>

(* BUG: a type byte equal to SOF is taken for a start.                     *)
wait_type_restarts(b) ==
    /\ state = "WAIT_TYPE"
    /\ state' = IF b = SOF THEN "WAIT_TYPE" ELSE "WAIT_LEN_LO"
    /\ type' = b
    /\ UNCHANGED <<len, payload, payload_idx, crc_lo>>
wait_type(b) ==
    /\ state = "WAIT_TYPE"
    /\ state' = "WAIT_LEN_LO"
    /\ type' = b
    /\ UNCHANGED <<len, payload, payload_idx, crc_lo>>

wait_len_lo(b) ==
    /\ state = "WAIT_LEN_LO"
    /\ state' = "WAIT_LEN_HI"
    /\ len' = b
    /\ UNCHANGED <<type, payload, payload_idx, crc_lo>>

(* An oversized length resyncs.  BUG: the bound is off by one.             *)
OversizedByOne(n) == n > MaxPayload + 1
Oversized(n) == n > MaxPayload
wait_len_hi(b) ==
    /\ state = "WAIT_LEN_HI"
    /\ LET n == len + Base * b
       IN  \/ /\ n = 0
              /\ state' = "WAIT_CRC_LO" /\ len' = n
              /\ UNCHANGED <<type, payload, payload_idx, crc_lo>>
           \/ /\ n # 0 /\ Oversized(n)
              /\ proto_rx_reset
           \/ /\ n # 0 /\ ~Oversized(n)
              /\ state' = "WAIT_PAYLOAD" /\ len' = n /\ payload_idx' = 0
              /\ UNCHANGED <<type, payload, crc_lo>>

(* BUG: one payload byte too many is taken.                                *)
PayloadDoneLate(idx) == idx > len
PayloadDone(idx) == idx >= len
wait_payload(b) ==
    /\ state = "WAIT_PAYLOAD"
    /\ payload' = [payload EXCEPT ![payload_idx] = b]
    /\ payload_idx' = payload_idx + 1
    /\ state' = IF PayloadDone(payload_idx + 1) THEN "WAIT_CRC_LO" ELSE state
    /\ UNCHANGED <<type, len, crc_lo>>

wait_crc_lo(b) ==
    /\ state = "WAIT_CRC_LO"
    /\ state' = "WAIT_CRC_HI"
    /\ crc_lo' = b
    /\ UNCHANGED <<frame, payload_idx>>

(* The verdict; the context is reset before it is returned.  BUG: the byte *)
(* at hand is left out of the comparison.                                  *)
wait_crc_hi_low_only(b) ==
    /\ state = "WAIT_CRC_HI"
    /\ result' = (crc_lo = Lo(Crc(CrcBuf)))
    /\ last' = Append(wire, b)
    /\ proto_rx_reset
wait_crc_hi(b) ==
    /\ state = "WAIT_CRC_HI"
    /\ result' = (crc_lo + Base * b = Crc(CrcBuf))
    /\ last' = Append(wire, b)
    /\ proto_rx_reset

proto_rx_feed(b) ==
    /\ \/ wait_crc_hi(b)
       \/ /\ \/ wait_sof(b) \/ wait_type(b) \/ wait_len_lo(b)
             \/ wait_len_hi(b) \/ wait_payload(b) \/ wait_crc_lo(b)
          /\ result' = FALSE
          /\ last' = <<>>
    /\ wire' = IF state' = "WAIT_SOF" THEN <<>> ELSE Append(wire, b)
-----------------------------------------------------------------------------
Init ==
    /\ state = "WAIT_SOF" /\ type = 0 /\ len = 0 /\ payload = Zeros
    /\ payload_idx = 0 /\ crc_lo = 0
    /\ result = FALSE /\ wire = <<>> /\ last = <<>>
    /\ sent = <<>> /\ tx = <<>> /\ clean = FALSE /\ errors = Errors

(* A sender starts a frame when it is done with the one before.            *)
Send(f) ==
    /\ tx = <<>>
    /\ sent' = build_frame(f[1], f[2])
    /\ tx' = sent'
    /\ clean' = (state = "WAIT_SOF")
    /\ UNCHANGED <<rx, result, wire, last, errors>>

Deliver ==
    /\ tx # <<>>
    /\ proto_rx_feed(Head(tx))
    /\ tx' = Tail(tx)
    /\ UNCHANGED <<sent, clean, errors>>

LineError ==
    /\ errors > 0
    /\ errors' = errors - 1
    /\ clean' = FALSE
    /\ UNCHANGED sent

(* A byte is damaged, is lost to an overrun, or appears out of nothing.    *)
Corrupt(b) ==
    /\ tx # <<>> /\ b # Head(tx)
    /\ LineError
    /\ proto_rx_feed(b)
    /\ tx' = Tail(tx)
Lose ==
    /\ tx # <<>>
    /\ LineError
    /\ tx' = Tail(tx)
    /\ UNCHANGED <<rx, result, wire, last>>
Insert(b) ==
    /\ LineError
    /\ proto_rx_feed(b)
    /\ UNCHANGED tx

Next ==
    \/ \E f \in Traffic : Send(f)
    \/ Deliver
    \/ Lose
    \/ \E b \in Byte : Corrupt(b) \/ Insert(b)

Spec == Init /\ [][Next]_vars

(* The parser under any byte string at all.                                *)
RawSpec == Init /\ [][\E b \in Byte : proto_rx_feed(b) /\ UNCHANGED line]_vars

(* The simulator keeps sending and the line keeps delivering.              *)
FairSpec == Spec /\ WF_vars(\E f \in Traffic : Send(f)) /\ WF_vars(Deliver)
-----------------------------------------------------------------------------
TypeOK ==
    /\ state \in RxStates
    /\ type \in Byte
    /\ len \in 0 .. Base * Base - 1
    /\ payload \in [0 .. MaxPayload - 1 -> Byte]
    /\ payload_idx \in 0 .. MaxPayload
    /\ crc_lo \in Byte
    /\ result \in BOOLEAN

(* No byte string makes the parser write behind payload[], or copy more    *)
(* than it into crc_buf: the index stays below the announced length while  *)
(* payload is expected, the length below PROTO_MAX_PAYLOAD from the header *)
(* check on, and what has not been written is zero.                        *)
BufferSafe ==
    /\ state = "WAIT_PAYLOAD" => payload_idx < len
    /\ state \in {"WAIT_PAYLOAD", "WAIT_CRC_LO", "WAIT_CRC_HI"} => len <= MaxPayload
    /\ \A i \in 0 .. MaxPayload - 1 : i >= payload_idx => payload[i] = 0

(* A byte string that is a frame: a start byte, a length that matches, and *)
(* the CRC of everything between.                                          *)
IsFrame(w) ==
    LET n == Len(w)
    IN  /\ n >= 6
        /\ w[1] = SOF
        /\ n = 6 + w[3] + Base * w[4]
        /\ w[n - 1] + Base * w[n] = Crc(SubSeq(w, 2, n - 2))

(* The parser says yes to frames and to nothing else: its verdict, reached *)
(* byte by byte through a context it reuses, is the definition's verdict   *)
(* on the whole string since the start byte.                               *)
VerdictExact == last # <<>> => (result <=> IsFrame(last))

(* A checksum that takes one byte after the other into a register, and     *)
(* loses nothing: another byte or another register gives another register. *)
ByteSerial(registers, step) ==
    /\ \A n \in 0 .. MaxPayload + 2 : \A u \in [1 .. n -> Byte] :
           Crc(u) \in registers /\ \A b \in Byte : Crc(Append(u, b)) = step[<<Crc(u), b>>]
    /\ \A r \in registers, a, b \in Byte : a # b => step[<<r, a>>] # step[<<r, b>>]
    /\ \A r, q \in registers, b \in Byte : r # q => step[<<r, b>>] # step[<<q, b>>]

(* What the checksum is for: a frame is never accepted in the place of one *)
(* of the same length that differs from it in a single byte, wherever the  *)
(* damage is, the checksum's own bytes included.                           *)
DamageDetected ==
    result /\ Len(last) = Len(sent) =>
        \A i \in 1 .. Len(sent) :
            last[i] # sent[i] => \E j \in 1 .. Len(sent) : j # i /\ last[j] # sent[j]

(* A frame that meets an idle parser and no line error is accepted, start  *)
(* bytes inside it notwithstanding, whatever errors came before.           *)
CleanFrameAccepted ==
    clean /\ tx = <<>> => result /\ last = sent

(* Once the frames on the line hold no start byte but their own, the       *)
(* parser locks on again, after any errors and wherever frames full of     *)
(* start bytes have led it: from then on frames are accepted for ever.     *)
Plain(w) == w # <<>> /\ \A i \in 2 .. Len(w) : w[i] # SOF
Resync == <>[]Plain(sent) => []<>result
=============================================================================
