-------------------------- MODULE ProtocolRxProofs --------------------------
(***************************************************************************)
(* For every byte width, start byte, payload limit and checksum, and every *)
(* byte string: the parser of ProtocolRx stays inside its buffers, and its *)
(* verdict on the bytes since the start byte is the definition's.  For     *)
(* every checksum that loses nothing: damage to one byte is detected.      *)
(***************************************************************************)
EXTENDS ProtocolRx, SequenceTheorems, WellFoundedInduction, TLAPS

Feed == \E b \in Byte : proto_rx_feed(b) /\ UNCHANGED line

(* Between frames and in the header nothing of the payload is written, and *)
(* the low length byte is still one byte.                                  *)
HeaderPhase ==
    /\ state \in {"WAIT_SOF", "WAIT_TYPE", "WAIT_LEN_LO", "WAIT_LEN_HI"} =>
           payload_idx = 0
    /\ state = "WAIT_LEN_HI" => len < Base
    /\ state \in {"WAIT_CRC_LO", "WAIT_CRC_HI"} => payload_idx = len

RxInv == TypeOK /\ BufferSafe /\ HeaderPhase

(* What most leaves need of PROTO_MAX_PAYLOAD.                             *)
LEMMA MaxPayloadNat == MaxPayload \in Nat /\ MaxPayload > 0
BY MaxPayloadAssumption

(* The 16-bit length put together from its two bytes fits its field.       *)
LEMMA LenFits ==
    ASSUME NEW lo \in Byte, NEW hi \in Byte
    PROVE  lo + Base * hi \in 0 .. Base * Base - 1
<1>1. hi \in Nat /\ hi <= Base - 1 /\ lo \in Nat /\ lo <= Base - 1
  BY BaseAssumption DEF Byte
<1>2. Base * hi <= Base * (Base - 1)
  BY <1>1, BaseAssumption, SMT
<1>3. Base * (Base - 1) = Base * Base - Base
  BY BaseAssumption, SMT
<1>4. Base * hi \in Nat /\ Base * Base \in Nat
  BY <1>1, BaseAssumption, SMT
<1> DEFINE p == Base * hi  q == Base * Base  r == Base * (Base - 1)
<1>5. p \in Nat /\ q \in Nat /\ p <= r /\ r = q - Base
  BY <1>2, <1>3, <1>4
<1> HIDE DEF p, q, r
<1>6. lo + p \in 0 .. q - 1
  BY <1>1, <1>5, BaseAssumption, SMT
<1> QED BY <1>6 DEF p, q

(* The two bytes of a length are its remainder and its quotient: what the  *)
(* receiver splits again for its CRC buffer is what was on the wire.       *)
LEMMA LenSplits ==
    ASSUME NEW lo \in Byte, NEW hi \in Byte
    PROVE  Lo(lo + Base * hi) = lo /\ Hi(lo + Base * hi) = hi
<1> DEFINE n == lo + Base * hi
<1>1. hi \in Nat /\ lo \in Nat /\ lo < Base /\ Base \in Nat /\ Base > 1
  BY BaseAssumption DEF Byte
<1>2. n \in Nat
  BY <1>1, SMT
<1>3. n \div Base = hi
  BY <1>1, <1>2, SMT
<1>4. n % Base = lo
  BY <1>1, <1>2, SMT
<1> QED BY <1>3, <1>4 DEF Lo, Hi

LEMMA RxInit == Init => RxInv
<1> SUFFICES ASSUME Init PROVE RxInv
  OBVIOUS
<1>1. 0 \in Byte /\ 0 \in 0 .. Base * Base - 1 /\ 0 \in 0 .. MaxPayload
  <2>1. 0 \in Byte
    BY BaseAssumption DEF Byte
  <2>2. 0 + Base * 0 \in 0 .. Base * Base - 1
    BY <2>1, LenFits
  <2> QED BY <2>1, <2>2, BaseAssumption, MaxPayloadNat
<1> QED BY <1>1, BaseAssumption DEF Init, RxInv, TypeOK, BufferSafe, HeaderPhase, Zeros, RxStates

(* A reset from anywhere gives a context between frames.                   *)
LEMMA ResetKeeps ==
    ASSUME proto_rx_reset, result' \in BOOLEAN
    PROVE  RxInv'
<1>1. 0 \in Byte /\ 0 \in 0 .. Base * Base - 1 /\ 0 \in 0 .. MaxPayload
  <2>1. 0 \in Byte
    BY BaseAssumption DEF Byte
  <2>2. 0 + Base * 0 \in 0 .. Base * Base - 1
    BY <2>1, LenFits
  <2> QED BY <2>1, <2>2, BaseAssumption, MaxPayloadNat
<1> QED BY <1>1, BaseAssumption
        DEF proto_rx_reset, RxInv, TypeOK, BufferSafe, HeaderPhase, Zeros, RxStates

(* The five bytes of header and CRC that are only stored.                  *)
LEMMA StoreKeeps ==
    ASSUME RxInv, NEW b \in Byte, result' = FALSE,
           wait_sof(b) \/ wait_type(b) \/ wait_len_lo(b) \/ wait_crc_lo(b)
    PROVE  RxInv'
<1>1. b \in 0 .. Base * Base - 1 /\ b < Base
  <2>1. 0 \in Byte
    BY BaseAssumption DEF Byte
  <2>2. b + Base * 0 \in 0 .. Base * Base - 1
    BY <2>1, LenFits
  <2> QED BY <2>2, BaseAssumption DEF Byte
<1>2. CASE wait_sof(b)
  BY <1>2 DEF wait_sof, RxInv, TypeOK, BufferSafe, HeaderPhase, RxStates, frame
<1>3. CASE wait_type(b)
  BY <1>3 DEF wait_type, RxInv, TypeOK, BufferSafe, HeaderPhase, RxStates
<1>4. CASE wait_len_lo(b)
  BY <1>1, <1>4 DEF wait_len_lo, RxInv, TypeOK, BufferSafe, HeaderPhase, RxStates
<1>5. CASE wait_crc_lo(b)
  BY <1>5 DEF wait_crc_lo, RxInv, TypeOK, BufferSafe, HeaderPhase, RxStates, frame
<1> QED BY <1>2, <1>3, <1>4, <1>5

LEMMA LenHiKeeps ==
    ASSUME RxInv, NEW b \in Byte, result' = FALSE, wait_len_hi(b)
    PROVE  RxInv'
<1> DEFINE n == len + Base * b
<1>1. len \in Byte
  BY BaseAssumption DEF wait_len_hi, RxInv, TypeOK, HeaderPhase, Byte
<1>2. n \in 0 .. Base * Base - 1
  BY <1>1, LenFits
<1> HIDE DEF n
<1>3. CASE n # 0 /\ Oversized(n)
  BY <1>3, ResetKeeps DEF wait_len_hi, n
<1>4. CASE n = 0
  <2>1. /\ state' = "WAIT_CRC_LO" /\ len' = n /\ payload_idx = 0
        /\ UNCHANGED <<type, payload, payload_idx, crc_lo>>
    BY <1>4 DEF wait_len_hi, n, RxInv, HeaderPhase
  <2>2. TypeOK'
    BY <1>2, <2>1 DEF RxInv, TypeOK, RxStates
  <2>3. BufferSafe' /\ HeaderPhase'
    BY <1>4, <2>1, MaxPayloadNat DEF RxInv, BufferSafe, HeaderPhase
  <2> QED BY <2>2, <2>3 DEF RxInv
<1>5. CASE n # 0 /\ ~Oversized(n)
  <2>1. /\ state' = "WAIT_PAYLOAD" /\ len' = n /\ payload_idx' = 0
        /\ UNCHANGED <<type, payload, crc_lo>>
    BY <1>5 DEF wait_len_hi, n
  <2>2. n > 0 /\ n <= MaxPayload
    BY <1>2, <1>5, MaxPayloadNat DEF Oversized
  <2> QED BY <1>2, <2>1, <2>2, MaxPayloadNat
          DEF wait_len_hi, RxInv, TypeOK, BufferSafe, HeaderPhase, RxStates
<1> QED BY <1>3, <1>4, <1>5

LEMMA PayloadKeeps ==
    ASSUME RxInv, NEW b \in Byte, result' = FALSE, wait_payload(b)
    PROVE  RxInv'
<1>1. payload_idx < len /\ len <= MaxPayload /\ payload_idx \in 0 .. MaxPayload - 1
  BY MaxPayloadNat DEF wait_payload, RxInv, TypeOK, BufferSafe
<1>2. TypeOK'
  <2>1. payload' \in [0 .. MaxPayload - 1 -> Byte]
    BY <1>1 DEF wait_payload, RxInv, TypeOK
  <2>2. payload_idx' \in 0 .. MaxPayload
    BY <1>1, MaxPayloadNat DEF wait_payload
  <2>3. state' \in RxStates
    BY DEF wait_payload, RxStates
  <2> QED BY <2>1, <2>2, <2>3 DEF wait_payload, RxInv, TypeOK
<1>3. ASSUME NEW i \in 0 .. MaxPayload - 1, i >= payload_idx' PROVE payload'[i] = 0
  <2>1. i > payload_idx /\ payload'[i] = payload[i]
    BY <1>1, <1>3, MaxPayloadNat DEF wait_payload, RxInv, TypeOK
  <2> QED BY <1>1, <2>1, MaxPayloadNat DEF RxInv, BufferSafe
<1>4. (state' = "WAIT_PAYLOAD" => payload_idx' < len') /\ len' <= MaxPayload
  BY <1>1, MaxPayloadNat DEF wait_payload, PayloadDone, RxInv, TypeOK
<1>5. HeaderPhase'
  BY <1>1, MaxPayloadNat DEF wait_payload, PayloadDone, RxInv, TypeOK, HeaderPhase
<1> QED BY <1>2, <1>3, <1>4, <1>5 DEF RxInv, BufferSafe

LEMMA RxFeed ==
    ASSUME RxInv, NEW b \in Byte, proto_rx_feed(b)
    PROVE  RxInv'
<1>1. CASE wait_crc_hi(b)
  BY <1>1, ResetKeeps DEF wait_crc_hi
<1>2. CASE /\ wait_sof(b) \/ wait_type(b) \/ wait_len_lo(b) \/ wait_crc_lo(b)
           /\ result' = FALSE
  BY <1>2, StoreKeeps
<1>3. CASE wait_len_hi(b) /\ result' = FALSE
  BY <1>3, LenHiKeeps
<1>4. CASE wait_payload(b) /\ result' = FALSE
  BY <1>4, PayloadKeeps
<1> QED BY <1>1, <1>2, <1>3, <1>4 DEF proto_rx_feed

LEMMA RxStep == RxInv /\ [Feed]_vars => RxInv'
<1> SUFFICES ASSUME RxInv, [Feed]_vars PROVE RxInv'
  OBVIOUS
<1>1. CASE UNCHANGED vars
  BY <1>1 DEF vars, rx, frame, RxInv, TypeOK, BufferSafe, HeaderPhase
<1>2. CASE Feed
  BY <1>2, RxFeed DEF Feed
<1> QED BY <1>1, <1>2

(* The parser's context invariant holds whatever bytes it is fed.          *)
THEOREM RxCorrect == RawSpec => []RxInv
BY RxInit, RxStep, PTL DEF RawSpec, Feed

(* Every field of the parser's context keeps its type.                     *)
THEOREM RxTypeCorrect == RawSpec => []TypeOK
BY RxCorrect, PTL DEF RxInv

(* proto_rx_feed never writes behind payload[] nor overruns crc_buf, for   *)
(* every byte string and every PROTO_MAX_PAYLOAD a 16-bit length can name. *)
THEOREM RxBufferSafe == RawSpec => []BufferSafe
BY RxCorrect, PTL DEF RxInv

Body == {"WAIT_PAYLOAD", "WAIT_CRC_LO", "WAIT_CRC_HI"}

(* The context is what the bytes since the start byte say: the parser      *)
(* could be replaced by one that keeps the whole string.                   *)
WireInv ==
    /\ wire \in Seq(Byte)
    /\ Len(wire) = CASE state = "WAIT_SOF"    -> 0
                     [] state = "WAIT_TYPE"   -> 1
                     [] state = "WAIT_LEN_LO" -> 2
                     [] state = "WAIT_LEN_HI" -> 3
                     [] state = "WAIT_CRC_HI" -> 5 + payload_idx
                     [] OTHER                 -> 4 + payload_idx
    /\ state # "WAIT_SOF" => wire[1] = SOF
    /\ state \notin {"WAIT_SOF", "WAIT_TYPE"} => wire[2] = type
    /\ state = "WAIT_LEN_HI" => wire[3] = len
    /\ state \in Body => /\ len = wire[3] + Base * wire[4]
                         /\ \A i \in 1 .. payload_idx : wire[4 + i] = payload[i - 1]
    /\ state = "WAIT_CRC_HI" => wire[5 + payload_idx] = crc_lo

(* What Append does, in the form the steps below use.                      *)
LEMMA AppendByte ==
    ASSUME NEW w \in Seq(Byte), NEW b \in Byte
    PROVE  /\ Append(w, b) \in Seq(Byte)
           /\ Len(Append(w, b)) = Len(w) + 1
           /\ \A i \in 1 .. Len(w) : Append(w, b)[i] = w[i]
           /\ Append(w, b)[Len(w) + 1] = b
BY SMT

(* When the last CRC byte arrives, the receiver's CRC buffer is the wire   *)
(* string from the type byte to the end of the payload.                    *)
LEMMA CrcBufIsWire ==
    ASSUME RxInv, WireInv, state = "WAIT_CRC_HI", NEW b \in Byte
    PROVE  SubSeq(Append(wire, b), 2, Len(Append(wire, b)) - 2) = CrcBuf
<1> DEFINE w == Append(wire, b)
           s == SubSeq(w, 2, Len(w) - 2)
           p == [i \in 1 .. len |-> payload[i - 1]]
           h == <<type, Lo(len), Hi(len)>>
<1>1. len \in Nat /\ len <= MaxPayload /\ payload_idx = len /\ Len(wire) = 5 + len
  BY MaxPayloadNat DEF RxInv, TypeOK, BufferSafe, HeaderPhase, WireInv
<1>2. /\ w \in Seq(Byte) /\ Len(w) = 6 + len
      /\ \A i \in 1 .. 5 + len : w[i] = wire[i]
      /\ \A i \in 1 .. 5 + len : wire[i] \in Byte
  BY <1>1, AppendByte DEF WireInv
<1>3. wire[2] = type /\ wire[3] = Lo(len) /\ wire[4] = Hi(len)
  <2>1. wire[3] \in Byte /\ wire[4] \in Byte /\ len = wire[3] + Base * wire[4]
    BY <1>1, <1>2 DEF WireInv, Body
  <2> QED BY <2>1, LenSplits DEF WireInv
<1> HIDE DEF w
<1>4. /\ s \in Seq(Byte) /\ Len(s) = 3 + len
      /\ \A i \in 1 .. 3 + len : s[i] = wire[i + 1]
  <2>1. \A i \in 2 .. Len(w) - 2 : w[i] \in Byte
    BY <1>1, <1>2
  <2>2. /\ SubSeq(w, 2, Len(w) - 2) \in Seq(Byte)
        /\ Len(SubSeq(w, 2, Len(w) - 2)) = 3 + len
        /\ \A i \in 1 .. 3 + len : SubSeq(w, 2, Len(w) - 2)[i] = w[2 + i - 1]
    BY <1>1, <1>2, <2>1, SubSeqProperties
  <2> QED BY <1>1, <1>2, <2>2
<1>5. p \in Seq(Byte) /\ Len(p) = len /\ \A i \in 1 .. len : p[i] = wire[4 + i]
  <2>1. \A i \in 1 .. len : payload[i - 1] = wire[4 + i] /\ payload[i - 1] \in Byte
    BY <1>1, <1>2 DEF WireInv, Body
  <2> QED BY <1>1, <2>1
<1>6. h \in Seq(Byte) /\ Len(h) = 3 /\ h[1] = wire[2] /\ h[2] = wire[3] /\ h[3] = wire[4]
  BY <1>1, <1>2, <1>3
<1> HIDE DEF h, p, s
<1>7. /\ h \o p \in Seq(Byte) /\ Len(h \o p) = 3 + len
      /\ \A i \in 1 .. 3 + len : (h \o p)[i] = wire[i + 1]
  <2>1. /\ h \o p \in Seq(Byte) /\ Len(h \o p) = 3 + len
        /\ \A i \in 1 .. 3 + len :
               (h \o p)[i] = IF i <= 3 THEN h[i] ELSE p[i - 3]
    <3>1. /\ h \o p \in Seq(Byte) /\ Len(h \o p) = Len(h) + Len(p)
          /\ \A i \in 1 .. Len(h) + Len(p) :
                 (h \o p)[i] = IF i <= Len(h) THEN h[i] ELSE p[i - Len(h)]
      BY <1>5, <1>6, ConcatProperties, Zenon
    <3>2. Len(h) = 3 /\ Len(p) = len
      BY <1>5, <1>6
    <3> QED BY <3>1, <3>2, Zenon
  <2>2. ASSUME NEW i \in 1 .. 3 + len PROVE (h \o p)[i] = wire[i + 1]
    <3>1. CASE i <= 3
      <4>1. i = 1 \/ i = 2 \/ i = 3
        BY <1>1, <3>1
      <4> QED BY <1>6, <2>1, <3>1, <4>1
    <3>2. CASE i > 3
      <4>1. i - 3 \in 1 .. len /\ ~(i <= 3) /\ 4 + (i - 3) = i + 1
        BY <1>1, <3>2
      <4>2. p[i - 3] = wire[4 + (i - 3)]
        BY <1>5, <4>1, Zenon
      <4>3. (h \o p)[i] = p[i - 3]
        BY <2>1, <4>1, Zenon
      <4> QED BY <4>1, <4>2, <4>3, Zenon
    <3>3. i <= 3 \/ i > 3
      BY <1>1
    <3> QED BY <3>1, <3>2, <3>3, Zenon
  <2> QED BY <2>1, <2>2
<1>8. s = h \o p
  BY <1>1, <1>4, <1>7, SeqEqual
<1> QED BY <1>8 DEF s, h, p, w, CrcBuf

(* The verdict of the last CRC byte.                                       *)
LEMMA VerdictStep ==
    ASSUME RxInv, WireInv, NEW b \in Byte, wait_crc_hi(b)
    PROVE  result' <=> IsFrame(Append(wire, b))
<1> DEFINE w == Append(wire, b)
<1>1. len \in Nat /\ payload_idx = len /\ Len(wire) = 5 + len
  BY DEF RxInv, TypeOK, BufferSafe, HeaderPhase, WireInv, wait_crc_hi
<1>2. Len(w) = 6 + len /\ w[Len(w) - 1] = crc_lo /\ w[Len(w)] = b
  BY <1>1, AppendByte DEF WireInv, wait_crc_hi
<1>3. w[1] = SOF /\ len = w[3] + Base * w[4] /\ w[3] \in Byte /\ w[4] \in Byte
  <2>1. w[1] = wire[1] /\ w[3] = wire[3] /\ w[4] = wire[4]
    BY <1>1, AppendByte DEF WireInv
  <2>2. wire[1] = SOF /\ len = wire[3] + Base * wire[4]
    BY DEF WireInv, Body, wait_crc_hi
  <2>3. wire[3] \in Byte /\ wire[4] \in Byte
    BY <1>1 DEF WireInv
  <2> QED BY <2>1, <2>2, <2>3
<1>4. SubSeq(w, 2, Len(w) - 2) = CrcBuf
  BY CrcBufIsWire DEF wait_crc_hi
<1>5. result' = (crc_lo + Base * b = Crc(CrcBuf))
  BY DEF wait_crc_hi
<1> HIDE DEF w
<1>6. Len(w) >= 6 /\ Len(w) = 6 + w[3] + Base * w[4]
  <2>1. w[3] \in Nat /\ Base * w[4] \in Nat
    BY <1>3, BaseAssumption DEF Byte
  <2> QED BY <1>1, <1>2, <1>3, <2>1
<1>7. IsFrame(w) <=> crc_lo + Base * b = Crc(CrcBuf)
  BY <1>2, <1>3, <1>4, <1>6 DEF IsFrame
<1> QED BY <1>5, <1>7 DEF w

(* A byte that does not end the string is appended to it, and the context  *)
(* changes to match.                                                       *)
LEMMA WireStep ==
    ASSUME RxInv, WireInv, NEW b \in Byte, proto_rx_feed(b)
    PROVE  WireInv'
<1> DEFINE w == Append(wire, b)
<1>1. /\ w \in Seq(Byte) /\ Len(w) = Len(wire) + 1
      /\ \A i \in 1 .. Len(wire) : w[i] = wire[i]
      /\ w[Len(wire) + 1] = b
  BY AppendByte DEF WireInv
<1> HIDE DEF w
<1>2. wire' = IF state' = "WAIT_SOF" THEN <<>> ELSE w
  BY DEF proto_rx_feed, w
<1>3. CASE state' = "WAIT_SOF"
  BY <1>2, <1>3 DEF WireInv, Body
<1>4. CASE wait_sof(b) /\ state' # "WAIT_SOF"
  BY <1>1, <1>2, <1>4 DEF WireInv, Body, wait_sof, frame
<1>5. CASE wait_type(b)
  BY <1>1, <1>2, <1>5 DEF WireInv, Body, wait_type
<1>6. CASE wait_len_lo(b)
  BY <1>1, <1>2, <1>6 DEF WireInv, Body, wait_len_lo
<1>7. CASE wait_len_hi(b) /\ state' # "WAIT_SOF"
  <2> DEFINE n == len + Base * b
  <2>1. /\ state = "WAIT_LEN_HI" /\ state' \in {"WAIT_CRC_LO", "WAIT_PAYLOAD"}
        /\ len' = n /\ payload_idx' = 0 /\ type' = type
    BY <1>7 DEF wait_len_hi, proto_rx_reset, RxInv, HeaderPhase
  <2>2. /\ Len(wire) = 3 /\ wire[1] = SOF /\ wire[2] = type /\ wire[3] = len
    BY <2>1 DEF WireInv
  <2>3. wire' = w /\ Len(w) = 4 /\ w[1] = SOF /\ w[2] = type /\ w[3] = len /\ w[4] = b
    BY <1>1, <1>2, <1>7, <2>2
  <2> HIDE DEF n
  <2>4. n = w[3] + Base * w[4]
    BY <2>3 DEF n
  <2> QED BY <1>1, <2>1, <2>3, <2>4 DEF WireInv, Body
<1>8. CASE wait_payload(b)
  <2>1. /\ payload_idx \in 0 .. MaxPayload - 1
        /\ payload_idx' = payload_idx + 1 /\ len' = len /\ type' = type
        /\ state' \in {"WAIT_PAYLOAD", "WAIT_CRC_LO"} /\ state = "WAIT_PAYLOAD"
        /\ payload' = [payload EXCEPT ![payload_idx] = b]
    BY <1>8, MaxPayloadNat DEF wait_payload, RxInv, TypeOK, BufferSafe
  <2>2. /\ Len(wire) = 4 + payload_idx /\ wire' = w
        /\ w[1] = SOF /\ w[2] = type /\ len = w[3] + Base * w[4]
    <3>1. Len(wire) = 4 + payload_idx
      BY <2>1 DEF WireInv
    <3>2. w[1] = wire[1] /\ w[2] = wire[2] /\ w[3] = wire[3] /\ w[4] = wire[4]
      BY <1>1, <2>1, <3>1
    <3> QED BY <1>2, <2>1, <3>1, <3>2 DEF WireInv, Body
  <2>3. ASSUME NEW i \in 1 .. payload_idx + 1 PROVE w[4 + i] = payload'[i - 1]
    <3>1. CASE i = payload_idx + 1
      BY <1>1, <2>1, <2>2, <3>1 DEF RxInv, TypeOK
    <3>2. CASE i \in 1 .. payload_idx
      <4>1. w[4 + i] = wire[4 + i]
        BY <1>1, <2>1, <2>2, <3>2
      <4>2. payload'[i - 1] = payload[i - 1]
        BY <2>1, <3>2 DEF RxInv, TypeOK
      <4> QED BY <2>1, <3>2, <4>1, <4>2 DEF WireInv, Body
    <3> QED BY <2>1, <3>1, <3>2
  <2> QED BY <1>1, <2>1, <2>2, <2>3 DEF WireInv, Body
<1>9. CASE wait_crc_lo(b)
  <2>1. /\ state = "WAIT_CRC_LO" /\ state' = "WAIT_CRC_HI" /\ crc_lo' = b
        /\ UNCHANGED <<type, len, payload, payload_idx>>
        /\ payload_idx \in Nat
    BY <1>9 DEF wait_crc_lo, frame, RxInv, TypeOK
  <2>2. Len(wire) = 4 + payload_idx /\ wire' = w /\ Len(w) = 5 + payload_idx
    BY <1>1, <1>2, <2>1 DEF WireInv
  <2>3. /\ w[1] = SOF /\ w[2] = type /\ len = w[3] + Base * w[4]
        /\ \A i \in 1 .. payload_idx : w[4 + i] = payload[i - 1]
        /\ w[5 + payload_idx] = b
    <3>1. w[1] = wire[1] /\ w[2] = wire[2] /\ w[3] = wire[3] /\ w[4] = wire[4]
      BY <1>1, <2>1, <2>2
    <3>2. \A i \in 1 .. payload_idx : w[4 + i] = wire[4 + i]
      BY <1>1, <2>1, <2>2
    <3>3. w[5 + payload_idx] = b
      BY <1>1, <2>1, <2>2
    <3> QED BY <2>1, <3>1, <3>2, <3>3 DEF WireInv, Body
  <2> QED BY <1>1, <2>1, <2>2, <2>3 DEF WireInv, Body
<1>10. CASE wait_crc_hi(b)
  BY <1>3, <1>10 DEF wait_crc_hi, proto_rx_reset
<1> QED BY <1>3, <1>4, <1>5, <1>6, <1>7, <1>8, <1>9, <1>10
        DEF proto_rx_feed, wait_len_hi, proto_rx_reset

(* The context invariant, the wire it stands for, and the verdict.         *)
ExactInv == RxInv /\ WireInv /\ VerdictExact

LEMMA ExactInit == Init => ExactInv
<1> SUFFICES ASSUME Init PROVE ExactInv
  OBVIOUS
<1>1. WireInv
  BY DEF Init, WireInv, Body
<1>2. VerdictExact
  BY DEF Init, VerdictExact
<1> QED BY RxInit, <1>1, <1>2 DEF ExactInv

LEMMA ExactFeed ==
    ASSUME ExactInv, NEW b \in Byte, proto_rx_feed(b)
    PROVE  ExactInv'
<1>1. RxInv'
  BY RxFeed DEF ExactInv
<1>2. WireInv'
  BY WireStep DEF ExactInv
<1>3. CASE wait_crc_hi(b)
  <2>1. last' = Append(wire, b)
    BY <1>3 DEF wait_crc_hi
  <2>2. result' <=> IsFrame(Append(wire, b))
    BY <1>3, VerdictStep DEF ExactInv
  <2>3. VerdictExact'
    BY <2>1, <2>2, Zenon DEF VerdictExact, IsFrame
  <2> QED BY <1>1, <1>2, <2>3 DEF ExactInv
<1>4. CASE last' = <<>>
  BY <1>1, <1>2, <1>4 DEF ExactInv, VerdictExact
<1> QED BY <1>3, <1>4 DEF proto_rx_feed

LEMMA ExactIdle ==
    ASSUME ExactInv, UNCHANGED <<rx, result, wire, last>>
    PROVE  ExactInv'
<1>1. RxInv' /\ WireInv'
  BY DEF ExactInv, RxInv, TypeOK, BufferSafe, HeaderPhase, WireInv, rx, frame
<1>2. VerdictExact'
  BY Zenon DEF ExactInv, VerdictExact, IsFrame
<1> QED BY <1>1, <1>2 DEF ExactInv

(* For every byte string, checksum, byte width and payload limit: the      *)
(* byte-by-byte parser accepts exactly the frames.                         *)
THEOREM RxVerdictExact == RawSpec => []VerdictExact
<1>1. ExactInv /\ [Feed]_vars => ExactInv'
  BY ExactFeed, ExactIdle DEF Feed, vars
<1> QED BY <1>1, ExactInit, PTL DEF RawSpec, Feed, ExactInv

(* A start byte that is none, or a length that was damaged, holds the      *)
(* parser for no longer than the longest frame: then it looks for a start  *)
(* byte again, whatever bytes came.                                        *)
THEOREM RxLockIsBounded == RawSpec => [](Len(wire) <= MaxPayload + 5)
<1>1. ExactInv /\ [Feed]_vars => ExactInv'
  BY ExactFeed, ExactIdle DEF Feed, vars
<1>2. ExactInv => Len(wire) <= MaxPayload + 5
  <2> SUFFICES ASSUME ExactInv PROVE Len(wire) <= MaxPayload + 5
    OBVIOUS
  <2>1. payload_idx \in Nat /\ payload_idx <= MaxPayload /\ state \in RxStates
    BY MaxPayloadNat DEF ExactInv, RxInv, TypeOK
  <2>2. Len(wire) \in {0, 1, 2, 3, 4 + payload_idx, 5 + payload_idx}
    BY <2>1 DEF ExactInv, WireInv, RxStates
  <2> DEFINE n == Len(wire)
  <2>3. n = 0 \/ n = 1 \/ n = 2 \/ n = 3 \/ n = 4 + payload_idx \/ n = 5 + payload_idx
    BY <2>2
  <2> HIDE DEF n
  <2>4. n <= MaxPayload + 5
    BY <2>1, <2>3, MaxPayloadNat
  <2> QED BY <2>4 DEF n
<1> QED BY <1>1, <1>2, ExactInit, PTL DEF RawSpec, Feed
-----------------------------------------------------------------------------
(* A frame whose length the receiver takes.                                *)
Sendable(w) == w \in Seq(Byte) /\ IsFrame(w) /\ w[3] + Base * w[4] <= MaxPayload

(* Two bytes hold any 16-bit value.                                        *)
LEMMA Splits ==
    ASSUME NEW n \in 0 .. Base * Base - 1
    PROVE  Lo(n) \in Byte /\ Hi(n) \in Byte /\ Lo(n) + Base * Hi(n) = n
<1>1. Base \in Nat /\ Base > 1 /\ n \in Nat /\ n < Base * Base
  BY BaseAssumption, SMT
<1>2. /\ n % Base \in 0 .. Base - 1 /\ n \div Base \in Nat
      /\ n = Base * (n \div Base) + (n % Base)
  BY <1>1, SMT
<1>3. n \div Base <= Base - 1
  <2> DEFINE q == n \div Base
  <2>1. q \in Nat /\ Base * q <= n
    BY <1>1, <1>2
  <2> HIDE DEF q
  <2>2. SUFFICES ASSUME q >= Base PROVE FALSE
    BY <1>1, <2>1 DEF q
  <2>3. Base * q >= Base * Base
    BY <1>1, <2>1, <2>2, SMT
  <2> QED BY <1>1, <2>1, <2>3, SMT
<1> QED BY <1>1, <1>2, <1>3, SMT DEF Lo, Hi, Byte

(* The parts of a concatenation, by position and as subsequences.          *)
LEMMA Parts ==
    ASSUME NEW s \in Seq(Byte), NEW t \in Seq(Byte)
    PROVE  /\ s \o t \in Seq(Byte) /\ Len(s \o t) = Len(s) + Len(t)
           /\ \A i \in 1 .. Len(s) : (s \o t)[i] = s[i]
           /\ \A i \in 1 .. Len(t) : (s \o t)[Len(s) + i] = t[i]
           /\ SubSeq(s \o t, Len(s) + 1, Len(s) + Len(t)) = t
<1>1. /\ s \o t \in Seq(Byte) /\ Len(s \o t) = Len(s) + Len(t)
      /\ \A i \in 1 .. Len(s) + Len(t) : (s \o t)[i] =
                     IF i <= Len(s) THEN s[i] ELSE t[i - Len(s)]
  BY ConcatProperties
<1>2. Len(s) \in Nat /\ Len(t) \in Nat
  OBVIOUS
<1> DEFINE w == s \o t
<1> HIDE DEF w
<1>3. ASSUME NEW i \in 1 .. Len(s) PROVE w[i] = s[i]
  <2>1. i \in 1 .. Len(s) + Len(t) /\ i <= Len(s)
    BY <1>2
  <2> QED BY <1>1, <2>1 DEF w
<1>4. ASSUME NEW i \in 1 .. Len(t) PROVE w[Len(s) + i] = t[i]
  <2> DEFINE j == Len(s) + i
  <2>1. j \in 1 .. Len(s) + Len(t) /\ ~(j <= Len(s)) /\ j - Len(s) = i
    BY <1>2
  <2> HIDE DEF j
  <2>2. w[j] = t[j - Len(s)]
    BY <1>1, <2>1 DEF w
  <2> QED BY <2>1, <2>2 DEF j
<1>5. SubSeq(w, Len(s) + 1, Len(s) + Len(t)) = t
  <2> DEFINE m == Len(s) + 1
             n == Len(s) + Len(t)
             u == SubSeq(w, m, n)
  <2>1. m \in Int /\ n \in Int /\ n - m + 1 = Len(t) /\ (~(m <= n) => Len(t) = 0)
    BY <1>2
  <2>2. \A i \in m .. n : w[i] \in Byte
    <3> SUFFICES ASSUME NEW i \in m .. n PROVE w[i] \in Byte
      OBVIOUS
    <3>1. w \in Seq(Byte) /\ i \in 1 .. Len(w)
      BY <1>1, <1>2 DEF w
    <3> QED BY <3>1
  <2>3. \A i \in 1 .. Len(t) : m + i - 1 = Len(s) + i
    BY <1>2
  <2> HIDE DEF m, n
  <2>4. /\ u \in Seq(Byte) /\ Len(u) = (IF m <= n THEN n - m + 1 ELSE 0)
        /\ \A i \in 1 .. n - m + 1 : u[i] = w[m + i - 1]
    BY <2>1, <2>2, SubSeqProperties
  <2>5. Len(u) = Len(t)
    BY <2>1, <2>4
  <2>6. \A i \in 1 .. Len(u) : u[i] = t[i]
    BY <1>4, <2>1, <2>3, <2>4, <2>5
  <2> HIDE DEF u
  <2>7. u = t
    BY <2>4, <2>5, <2>6, SeqEqual
  <2> QED BY <2>7 DEF u, m, n
<1> QED BY <1>1, <1>3, <1>4, <1>5 DEF w

(* build_frame makes frames, by the definition of a frame.                 *)
LEMMA BuildsFrames ==
    ASSUME NEW f \in Traffic
    PROVE  Sendable(build_frame(f[1], f[2]))
<1> DEFINE p == f[2]
           n == Len(p)
           h == <<f[1], Lo(n), Hi(n)>>
           c == h \o p
           k == Crc(c)
           o == <<SOF>>
           s == o \o c
           w == s \o <<Lo(k), Hi(k)>>
<1>1. f[1] \in Byte /\ p \in Seq(Byte) /\ n \in Nat /\ n <= MaxPayload /\ k \in 0 .. Base * Base - 1
      /\ Len(p) = n
  BY TrafficAssumption DEF Covered
<1>2. n \in 0 .. Base * Base - 1
  <2> DEFINE q == Base * Base
  <2>1. q \in Nat /\ MaxPayload < q /\ MaxPayload \in Nat
    BY BaseAssumption, MaxPayloadAssumption
  <2> HIDE DEF q
  <2>2. n \in 0 .. q - 1
    BY <1>1, <2>1
  <2> QED BY <2>2 DEF q
<1>3. build_frame(f[1], f[2]) = w
  BY DEF build_frame, Covered
<1> HIDE DEF p, n, k
<1>4. /\ Lo(n) \in Byte /\ Hi(n) \in Byte /\ Lo(n) + Base * Hi(n) = n
      /\ Lo(k) \in Byte /\ Hi(k) \in Byte /\ Lo(k) + Base * Hi(k) = k
  BY <1>1, <1>2, Splits
<1>5. /\ h \in Seq(Byte) /\ Len(h) = 3 /\ h[1] = f[1] /\ h[2] = Lo(n) /\ h[3] = Hi(n)
  BY <1>1, <1>4
<1> HIDE DEF h
<1>6. /\ c \in Seq(Byte) /\ Len(c) = 3 + n /\ c[2] = Lo(n) /\ c[3] = Hi(n)
  <2>1. /\ h \o p \in Seq(Byte) /\ Len(h \o p) = Len(h) + Len(p)
        /\ \A i \in 1 .. Len(h) + Len(p) :
               (h \o p)[i] = IF i <= Len(h) THEN h[i] ELSE p[i - Len(h)]
    BY <1>1, <1>5, ConcatProperties, Zenon
  <2> QED BY <1>1, <1>5, <2>1
<1> HIDE DEF c
<1>7. o \in Seq(Byte) /\ Len(o) = 1 /\ o[1] = SOF
  BY SOFAssumption
<1> HIDE DEF o
<1>8. /\ s \in Seq(Byte) /\ Len(s) = 4 + n /\ s[1] = SOF /\ s[3] = c[2] /\ s[4] = c[3]
      /\ SubSeq(s, 2, 4 + n) = c
  <2>1. /\ s \in Seq(Byte) /\ Len(s) = Len(o) + Len(c)
        /\ \A i \in 1 .. Len(o) : s[i] = o[i]
        /\ \A i \in 1 .. Len(c) : s[Len(o) + i] = c[i]
        /\ SubSeq(s, Len(o) + 1, Len(o) + Len(c)) = c
    BY <1>6, <1>7, Parts
  <2> HIDE DEF s
  <2>2. /\ Len(o) + 1 = 2 /\ Len(o) + Len(c) = 4 + n /\ Len(o) + 2 = 3 /\ Len(o) + 3 = 4
        /\ 1 \in 1 .. Len(o) /\ 2 \in 1 .. Len(c) /\ 3 \in 1 .. Len(c)
    BY <1>1, <1>6, <1>7
  <2> QED BY <1>7, <2>1, <2>2
<1> DEFINE t == <<Lo(k), Hi(k)>>
<1>10. t \in Seq(Byte) /\ Len(t) = 2 /\ t[1] = Lo(k) /\ t[2] = Hi(k)
  BY <1>4
<1> HIDE DEF s, t
<1>11. /\ s \o t \in Seq(Byte) /\ Len(s \o t) = 6 + n
       /\ (s \o t)[1] = SOF /\ (s \o t)[3] = Lo(n) /\ (s \o t)[4] = Hi(n)
       /\ (s \o t)[5 + n] = Lo(k) /\ (s \o t)[6 + n] = Hi(k)
  <2>1. /\ s \o t \in Seq(Byte) /\ Len(s \o t) = Len(s) + Len(t)
        /\ \A i \in 1 .. Len(s) : (s \o t)[i] = s[i]
        /\ \A i \in 1 .. Len(t) : (s \o t)[Len(s) + i] = t[i]
    BY <1>8, <1>10, Parts
  <2>2. /\ 1 \in 1 .. Len(s) /\ 3 \in 1 .. Len(s) /\ 4 \in 1 .. Len(s)
        /\ 1 \in 1 .. Len(t) /\ 2 \in 1 .. Len(t)
        /\ Len(s) + 1 = 5 + n /\ Len(s) + 2 = 6 + n /\ Len(s) + Len(t) = 6 + n
    BY <1>1, <1>8, <1>10
  <2> QED BY <1>6, <1>8, <1>10, <2>1, <2>2
<1>12. SubSeq(s \o t, 2, 4 + n) = c
  <2>1. 2 \in 1 .. Len(s) /\ 4 + n \in 1 .. Len(s)
    BY <1>1, <1>8
  <2>2. SubSeq(s \o t, 2, 4 + n) = SubSeq(s, 2, 4 + n)
    BY <1>8, <1>10, <2>1, SubSeqOfConcat1
  <2> QED BY <1>8, <2>2
<1> DEFINE v == s \o t
<1>13. /\ v \in Seq(Byte) /\ Len(v) = 6 + n /\ v[1] = SOF
       /\ v[3] + Base * v[4] = n /\ v[5 + n] + Base * v[6 + n] = Crc(SubSeq(v, 2, 4 + n))
  BY <1>4, <1>11, <1>12 DEF k
<1> HIDE DEF v
<1>14. v[3] \in Nat /\ Base * v[4] \in Nat
  <2>1. v[3] \in Byte /\ v[4] \in Byte
    BY <1>4, <1>11 DEF v
  <2> QED BY <2>1, BaseAssumption, SMT DEF Byte
<1>15. Len(v) >= 6 /\ Len(v) = 6 + v[3] + Base * v[4] /\ Len(v) - 1 = 5 + n /\ Len(v) - 2 = 4 + n
  BY <1>1, <1>13, <1>14
<1>16. IsFrame(v)
  BY <1>13, <1>15 DEF IsFrame
<1> QED BY <1>1, <1>3, <1>13, <1>16 DEF Sendable, v, t, s, o

(* One more byte of a frame that has come undisturbed so far: the parser   *)
(* goes on to the next field, and after the last byte it says yes.  Every  *)
(* field ends where the sender ended it, since the length is the sender's. *)
LEMMA CleanFeed ==
    ASSUME ExactInv, NEW b \in Byte, proto_rx_feed(b), NEW w, Sendable(w),
           Len(wire) < Len(w), \A i \in 1 .. Len(wire) : w[i] = wire[i],
           w[Len(wire) + 1] = b
    PROVE  \/ Len(w) = Len(wire) + 1 /\ wait_crc_hi(b)
           \/ Len(w) > Len(wire) + 1 /\ wire' = Append(wire, b)
<1> DEFINE n == w[3] + Base * w[4]
<1>1. Len(w) = 6 + n /\ n \in Nat /\ n <= MaxPayload /\ w[1] = SOF
  <2>1. Len(w) >= 6 /\ w \in Seq(Byte)
    BY DEF Sendable, IsFrame
  <2>2. w[3] \in Byte /\ w[4] \in Byte
    BY <2>1
  <2>3. w[3] \in Nat /\ Base * w[4] \in Nat
    BY <2>2, BaseAssumption, SMT DEF Byte
  <2>4. Len(w) = 6 + w[3] + Base * w[4] /\ n <= MaxPayload /\ w[1] = SOF
    BY DEF Sendable, IsFrame
  <2> QED BY <2>3, <2>4
<1>2. Len(wire) \in Nat /\ wire \in Seq(Byte)
  BY DEF ExactInv, WireInv
<1>3. state' # "WAIT_SOF" => wire' = Append(wire, b)
  BY DEF proto_rx_feed
<1>4. ASSUME state \in Body
      PROVE  /\ len = n /\ payload_idx \in Nat /\ Len(wire) >= 4
             /\ state # "WAIT_CRC_HI" => Len(wire) = 4 + payload_idx
             /\ state = "WAIT_CRC_HI" => Len(wire) = 5 + payload_idx
             /\ state = "WAIT_PAYLOAD" => payload_idx < len
             /\ state # "WAIT_PAYLOAD" => payload_idx = len
  <2>1. payload_idx \in Nat
    BY DEF ExactInv, RxInv, TypeOK
  <2>2. /\ state # "WAIT_CRC_HI" => Len(wire) = 4 + payload_idx
        /\ state = "WAIT_CRC_HI" => Len(wire) = 5 + payload_idx
    BY <1>4 DEF ExactInv, WireInv, Body
  <2>3. Len(wire) >= 4
    BY <2>1, <2>2
  <2>4. len = wire[3] + Base * wire[4] /\ wire[3] = w[3] /\ wire[4] = w[4]
    BY <1>2, <1>4, <2>3 DEF ExactInv, WireInv
  <2> QED BY <1>4, <2>1, <2>2, <2>3, <2>4 DEF Body, ExactInv, RxInv, BufferSafe, HeaderPhase
<1> HIDE DEF n
<1>5. CASE wait_crc_hi(b)
  <2>1. state = "WAIT_CRC_HI"
    BY <1>5 DEF wait_crc_hi
  <2> QED BY <1>1, <1>4, <1>5, <2>1 DEF Body
<1>6. CASE wait_sof(b)
  <2>1. Len(wire) = 0
    BY <1>6 DEF wait_sof, ExactInv, WireInv
  <2> QED BY <1>1, <1>3, <1>6, <2>1 DEF wait_sof
<1>7. CASE wait_type(b) \/ wait_len_lo(b)
  <2>1. Len(wire) \in {1, 2} /\ state' # "WAIT_SOF"
    BY <1>7 DEF wait_type, wait_len_lo, ExactInv, WireInv
  <2> QED BY <1>1, <1>3, <2>1
<1>8. CASE wait_len_hi(b)
  <2>1. Len(wire) = 3 /\ wire[3] = len
    BY <1>8 DEF wait_len_hi, ExactInv, WireInv
  <2>2. w[3] = len /\ w[4] = b
    BY <2>1
  <2>3. len + Base * b = n
    BY <2>2 DEF n
  <2>4. ~Oversized(n)
    BY <1>1, MaxPayloadNat DEF Oversized
  <2>5. state' # "WAIT_SOF"
    BY <1>8, <2>3, <2>4 DEF wait_len_hi
  <2> QED BY <1>1, <1>3, <2>1, <2>5
<1>9. CASE wait_payload(b) \/ wait_crc_lo(b)
  <2>1. state \in {"WAIT_PAYLOAD", "WAIT_CRC_LO"} /\ state' # "WAIT_SOF"
    BY <1>9 DEF wait_payload, wait_crc_lo
  <2> QED BY <1>1, <1>3, <1>4, <2>1 DEF Body
<1> QED BY <1>5, <1>6, <1>7, <1>8, <1>9 DEF proto_rx_feed

(* What has been delivered of an undisturbed frame is what the parser has  *)
(* seen since the start byte; the rest of it is still on the line.         *)
LineInv ==
    /\ tx \in Seq(Byte)
    /\ clean /\ tx # <<>> =>
         /\ Sendable(sent)
         /\ Len(sent) = Len(wire) + Len(tx)
         /\ \A i \in 1 .. Len(wire) : sent[i] = wire[i]
         /\ \A i \in 1 .. Len(tx) : sent[Len(wire) + i] = tx[i]
    /\ CleanFrameAccepted

RxLineInv == ExactInv /\ LineInv

LEMMA SendLine == ASSUME RxLineInv, NEW f \in Traffic, Send(f) PROVE RxLineInv'
<1>1. /\ sent' = build_frame(f[1], f[2]) /\ tx' = sent'
      /\ clean' = (state = "WAIT_SOF")
      /\ UNCHANGED <<rx, result, wire, last>>
  BY DEF Send
<1>2. ExactInv'
  BY <1>1, ExactIdle DEF RxLineInv
<1>3. Sendable(sent')
  BY <1>1, BuildsFrames
<1>4. clean' => Len(wire) = 0
  BY <1>1 DEF RxLineInv, ExactInv, WireInv
<1>5. tx' \in Seq(Byte) /\ Len(tx') >= 6
  BY <1>1, <1>3 DEF Sendable, IsFrame
<1>6. clean' => /\ Len(sent') = Len(wire') + Len(tx')
                /\ \A i \in 1 .. Len(wire') : sent'[i] = wire'[i]
                /\ \A i \in 1 .. Len(tx') : sent'[Len(wire') + i] = tx'[i]
  BY <1>1, <1>4, <1>5
<1>7. tx' # <<>>
  BY <1>5
<1>8. LineInv'
  BY <1>3, <1>5, <1>6, <1>7 DEF LineInv, CleanFrameAccepted, Sendable, IsFrame
<1> QED BY <1>2, <1>8 DEF RxLineInv

LEMMA DeliverLine == ASSUME RxLineInv, Deliver PROVE RxLineInv'
<1> DEFINE b == Head(tx)
<1>1. /\ tx # <<>> /\ proto_rx_feed(b) /\ tx' = Tail(tx) /\ UNCHANGED <<sent, clean>>
  BY DEF Deliver
<1>2. /\ b \in Byte /\ b = tx[1] /\ tx' \in Seq(Byte) /\ Len(tx') = Len(tx) - 1 /\ Len(tx) >= 1
      /\ \A i \in 1 .. Len(tx') : tx'[i] = tx[i + 1]
  BY <1>1 DEF RxLineInv, LineInv
<1> HIDE DEF b
<1>3. ExactInv /\ ExactInv'
  BY <1>1, <1>2, ExactFeed DEF RxLineInv
<1>4. CASE ~clean
  BY <1>1, <1>2, <1>3, <1>4 DEF RxLineInv, LineInv, CleanFrameAccepted
<1>5. CASE clean
  <2>1. /\ Sendable(sent) /\ Len(sent) = Len(wire) + Len(tx)
        /\ \A i \in 1 .. Len(wire) : sent[i] = wire[i]
        /\ \A i \in 1 .. Len(tx) : sent[Len(wire) + i] = tx[i]
    BY <1>1, <1>5 DEF RxLineInv, LineInv
  <2>2. wire \in Seq(Byte) /\ Len(wire) \in Nat /\ Len(tx) \in Nat
    BY <1>1 DEF RxLineInv, LineInv, ExactInv, WireInv
  <2>3. Len(wire) < Len(sent) /\ sent[Len(wire) + 1] = b
    BY <1>2, <2>1, <2>2
  <2> DEFINE w == Append(wire, b)
  <2>4. /\ w \in Seq(Byte) /\ Len(w) = Len(wire) + 1
        /\ \A i \in 1 .. Len(wire) : w[i] = wire[i]
        /\ w[Len(wire) + 1] = b
    BY <1>2, <2>2, AppendByte
  <2>5. \A i \in 1 .. Len(w) : sent[i] = w[i]
    BY <2>1, <2>2, <2>3, <2>4
  <2>6. \/ Len(sent) = Len(wire) + 1 /\ wait_crc_hi(b)
        \/ Len(sent) > Len(wire) + 1 /\ wire' = w
    BY <1>1, <1>2, <1>3, <2>1, <2>3, CleanFeed
  <2>7. CASE Len(sent) = Len(wire) + 1 /\ wait_crc_hi(b)
    <3>1. tx' = <<>>
      BY <1>2, <2>1, <2>2, <2>7
    <3>2. last' = w /\ (result' <=> IsFrame(w))
      BY <1>2, <1>3, <2>7, VerdictStep DEF wait_crc_hi, ExactInv
    <3>3. w = sent
      <4>1. sent \in Seq(Byte) /\ Len(w) = Len(sent)
        BY <2>1, <2>4, <2>7 DEF Sendable
      <4> HIDE DEF w
      <4> QED BY <2>4, <2>5, <4>1, SeqEqual
    <3>4. result' /\ last' = sent'
      BY <1>1, <2>1, <3>2, <3>3 DEF Sendable
    <3> QED BY <1>2, <1>3, <3>1, <3>4 DEF RxLineInv, LineInv, CleanFrameAccepted
  <2>8. CASE Len(sent) > Len(wire) + 1 /\ wire' = w
    <3>1. Len(sent) = Len(w) + Len(tx') /\ tx' # <<>>
      BY <1>2, <2>1, <2>2, <2>4, <2>8
    <3> HIDE DEF w
    <3>2. ASSUME NEW i \in 1 .. Len(tx') PROVE sent[Len(w) + i] = tx'[i]
      <4>1. i + 1 \in 1 .. Len(tx) /\ Len(w) + i = Len(wire) + (i + 1)
        BY <1>2, <2>2, <2>4
      <4> QED BY <1>2, <2>1, <4>1
    <3>3. Sendable(sent')
      BY <1>1, <2>1
    <3> QED BY <1>1, <1>2, <1>3, <2>5, <2>8, <3>1, <3>2, <3>3
            DEF RxLineInv, LineInv, CleanFrameAccepted
  <2> QED BY <2>6, <2>7, <2>8
<1> QED BY <1>4, <1>5

LEMMA ErrorLine ==
    ASSUME RxLineInv, Lose \/ \E b \in Byte : Corrupt(b) \/ Insert(b)
    PROVE  RxLineInv'
<1>1. clean' = FALSE
  BY DEF Lose, Corrupt, Insert, LineError
<1>2. tx' = tx \/ (tx # <<>> /\ tx' = Tail(tx))
  BY DEF Lose, Corrupt, Insert
<1>3. tx' \in Seq(Byte)
  BY <1>2 DEF RxLineInv, LineInv
<1>4. ExactInv'
  <2>1. CASE Lose
    BY <2>1, ExactIdle DEF Lose, RxLineInv
  <2>2. CASE \E b \in Byte : proto_rx_feed(b)
    BY <2>2, ExactFeed DEF RxLineInv
  <2> QED BY <2>1, <2>2 DEF Corrupt, Insert
<1> QED BY <1>1, <1>3, <1>4 DEF RxLineInv, LineInv, CleanFrameAccepted

LEMMA RxLineStep == RxLineInv /\ [Next]_vars => RxLineInv'
<1> SUFFICES ASSUME RxLineInv, [Next]_vars PROVE RxLineInv'
  OBVIOUS
<1>1. CASE UNCHANGED vars
  <2>1. ExactInv'
    BY <1>1, ExactIdle DEF vars, RxLineInv
  <2>2. LineInv'
    BY <1>1, Zenon DEF RxLineInv, LineInv, CleanFrameAccepted, Sendable, IsFrame, vars, line
  <2> QED BY <2>1, <2>2 DEF RxLineInv
<1> QED BY <1>1, SendLine, DeliverLine, ErrorLine DEF Next

(* The parser and the line: what the parser has seen of an undisturbed     *)
(* frame and what is left of it make up the frame.                         *)
THEOREM RxLineInvariant == Spec => []RxLineInv
<1>1. Init => RxLineInv
  BY ExactInit DEF Init, RxLineInv, LineInv, CleanFrameAccepted
<1> QED BY <1>1, RxLineStep, PTL DEF Spec

(* On a line with errors as under any bytes at all: the parser stays in    *)
(* its buffers and accepts exactly the frames.                             *)
THEOREM RxLineVerdict == Spec => [](TypeOK /\ BufferSafe /\ VerdictExact)
BY RxLineInvariant, PTL DEF RxLineInv, ExactInv, RxInv

(* proto_rx_feed accepts every frame that build_frame makes and that meets *)
(* an idle parser and no line error, whatever bytes are in it.             *)
THEOREM RxCleanFrameAccepted == Spec => []CleanFrameAccepted
BY RxLineInvariant, PTL DEF RxLineInv, LineInv
-----------------------------------------------------------------------------
(* What a checksum that takes byte after byte detects.                     *)

LEMMA LeastOf ==
    ASSUME NEW S \in SUBSET Nat, S # {}
    PROVE  \E m \in S : \A k \in S : ~(k < m)
<1> DEFINE R == OpToRel(<, Nat)
<1>1. IsWellFoundedOn(R, Nat)
  BY NatLessThanWellFounded, Zenon
<1>2. \A x \in Nat, y \in Nat : x < y => <<x, y>> \in R
  BY DEF OpToRel
<1> HIDE DEF R
<1>3. PICK m \in S : \A k \in S : ~(<<k, m>> \in R)
  BY <1>1, WFMin, Zenon
<1> QED BY <1>2, <1>3

(* The first k bytes of a string, and the next one.                        *)
First(u, k) == [j \in 1 .. k |-> u[j]]

LEMMA FirstGrows ==
    ASSUME NEW n \in Nat, NEW u \in [1 .. n -> Byte], NEW k \in 1 .. n
    PROVE  /\ First(u, k - 1) \in [1 .. k - 1 -> Byte]
           /\ First(u, k) = Append(First(u, k - 1), u[k])
<1> DEFINE p == First(u, k - 1)
           m == k - 1
<1>1. m \in Nat /\ k = m + 1 /\ \A j \in 1 .. k : j \in 1 .. n
  OBVIOUS
<1>2. p \in [1 .. m -> Byte]
  BY <1>1 DEF First
<1>3. p \in Seq(Byte) /\ Len(p) = m
  <2>1. DOMAIN p = 1 .. m
    BY <1>2
  <2> HIDE DEF p
  <2>2. p \in Seq(Byte)
    BY <1>1, <1>2, SeqDef
  <2> QED BY <1>1, <2>1, <2>2, LenProperties
<1>4. \A j \in 1 .. m : p[j] = u[j]
  BY <1>1 DEF First
<1> HIDE DEF p, m
<1>5. u[k] \in Byte
  BY <1>1
<1> DEFINE q == Append(p, u[k])
<1>6. /\ q \in Seq(Byte) /\ Len(q) = m + 1 /\ q[m + 1] = u[k]
      /\ \A j \in 1 .. m : q[j] = p[j]
  BY <1>3, <1>5, AppendByte
<1>7. q \in [1 .. k -> Byte]
  BY <1>1, <1>6, LenProperties
<1> HIDE DEF q
<1>8. \A j \in 1 .. k : q[j] = u[j]
  BY <1>1, <1>4, <1>6
<1>9. q = [j \in 1 .. k |-> u[j]]
  BY <1>7, <1>8
<1> QED BY <1>2, <1>9 DEF First, p, q, m

(* Two strings that differ in one byte have different checksums: they do   *)
(* up to that byte, and every further byte keeps the registers apart.      *)
LEMMA SerialDetects ==
    ASSUME NEW R, NEW step, ByteSerial(R, step), NEW n \in 1 .. MaxPayload + 3,
           NEW u \in [1 .. n -> Byte], NEW v \in [1 .. n -> Byte],
           NEW i \in 1 .. n, u[i] # v[i], \A j \in 1 .. n : j # i => u[j] = v[j]
    PROVE  Crc(u) # Crc(v)
<1>1. n \in Nat /\ i \in Nat /\ i <= n /\ n <= MaxPayload + 3 /\ i >= 1
  BY MaxPayloadNat
<1>2. ASSUME NEW w \in [1 .. n -> Byte], NEW k \in 1 .. n
      PROVE  /\ Crc(First(w, k - 1)) \in R /\ w[k] \in Byte
             /\ Crc(First(w, k)) = step[<<Crc(First(w, k - 1)), w[k]>>]
  <2>1. /\ First(w, k - 1) \in [1 .. k - 1 -> Byte]
        /\ First(w, k) = Append(First(w, k - 1), w[k])
    BY <1>1, FirstGrows
  <2>2. k - 1 \in 0 .. MaxPayload + 2 /\ w[k] \in Byte
    BY <1>1, MaxPayloadNat
  <2> QED BY <2>1, <2>2 DEF ByteSerial
<1> DEFINE a(k) == Crc(First(u, k))
           b(k) == Crc(First(v, k))
<1>3. \A k \in 1 .. n : /\ a(k - 1) \in R /\ b(k - 1) \in R /\ u[k] \in Byte /\ v[k] \in Byte
                        /\ a(k) = step[<<a(k - 1), u[k]>>] /\ b(k) = step[<<b(k - 1), v[k]>>]
  BY <1>2
<1>4. a(i - 1) = b(i - 1)
  <2>1. \A j \in 1 .. i - 1 : j \in 1 .. n /\ j # i
    BY <1>1
  <2>2. First(u, i - 1) = First(v, i - 1)
    BY <2>1 DEF First
  <2> QED BY <2>2
<1>5. a(n) = Crc(u) /\ b(n) = Crc(v)
  <2>1. First(u, n) = u /\ First(v, n) = v
    BY DEF First
  <2> QED BY <2>1
<1> HIDE DEF a, b
<1>6. a(i) # b(i)
  <2> DEFINE r == a(i - 1)  x == u[i]  y == v[i]
  <2>1. r \in R /\ x \in Byte /\ y \in Byte /\ x # y
    BY <1>3
  <2>2. a(i) = step[<<r, x>>] /\ b(i) = step[<<r, y>>]
    BY <1>3, <1>4
  <2> HIDE DEF r, x, y
  <2>3. step[<<r, x>>] # step[<<r, y>>]
    BY <2>1 DEF ByteSerial
  <2> QED BY <2>2, <2>3
<1>7. ASSUME NEW k \in 1 .. n, k # i, a(k - 1) # b(k - 1) PROVE a(k) # b(k)
  <2> DEFINE r == a(k - 1)  q == b(k - 1)  x == u[k]
  <2>1. r \in R /\ q \in R /\ x \in Byte /\ r # q
    BY <1>3, <1>7
  <2>2. a(k) = step[<<r, x>>] /\ b(k) = step[<<q, x>>]
    BY <1>3, <1>7
  <2> HIDE DEF r, q, x
  <2>3. step[<<r, x>>] # step[<<q, x>>]
    BY <2>1 DEF ByteSerial
  <2> QED BY <2>2, <2>3
<1>8. ASSUME a(n) = b(n) PROVE FALSE
  <2> DEFINE S == {k \in i .. n : a(k) = b(k)}
  <2>1. S \in SUBSET Nat /\ S # {}
    BY <1>1, <1>8
  <2>2. PICK m \in S : \A k \in S : ~(k < m)
    BY <2>1, LeastOf
  <2>3. m \in i .. n /\ a(m) = b(m)
    BY <2>2
  <2>4. m # i /\ m \in 1 .. n /\ m - 1 \in i .. n /\ m - 1 < m
    BY <1>1, <1>6, <2>3
  <2>5. a(m - 1) # b(m - 1)
    BY <2>2, <2>4
  <2> QED BY <1>7, <2>3, <2>4, <2>5
<1> QED BY <1>5, <1>8

(* The string that the checksum of a frame covers.                         *)
LEMMA CoveredPart ==
    ASSUME NEW w \in Seq(Byte), NEW n \in Nat, n >= 6, Len(w) = n
    PROVE  /\ SubSeq(w, 2, n - 2) \in [1 .. n - 3 -> Byte]
           /\ \A j \in 1 .. n - 3 : SubSeq(w, 2, n - 2)[j] = w[j + 1]
<1> DEFINE c == SubSeq(w, 2, n - 2)
           m == n - 2
<1>1. m \in Int /\ 2 \in Int /\ 2 <= m /\ m - 2 + 1 = n - 3 /\ n - 3 \in Nat
  OBVIOUS
<1>2. \A j \in 2 .. m : w[j] \in Byte
  OBVIOUS
<1> HIDE DEF m
<1>3. /\ SubSeq(w, 2, m) \in Seq(Byte) /\ Len(SubSeq(w, 2, m)) = n - 3
      /\ \A j \in 1 .. n - 3 : SubSeq(w, 2, m)[j] = w[2 + j - 1]
  BY <1>1, <1>2, SubSeqProperties
<1>4. /\ c \in Seq(Byte) /\ Len(c) = n - 3
      /\ \A j \in 1 .. n - 3 : c[j] = w[2 + j - 1]
  BY <1>3 DEF m
<1> HIDE DEF c
<1>5. c \in [1 .. n - 3 -> Byte]
  BY <1>1, <1>4, LenProperties
<1>6. \A j \in 1 .. n - 3 : c[j] = w[j + 1]
  <2>1. \A j \in 1 .. n - 3 : 2 + j - 1 = j + 1
    OBVIOUS
  <2> QED BY <1>4, <2>1
<1> QED BY <1>5, <1>6 DEF c

(* No two frames of one length differ in one byte only: not in the start   *)
(* byte, not in what the checksum covers, and not in the checksum.         *)
LEMMA FramesApart ==
    ASSUME NEW R, NEW step, ByteSerial(R, step), NEW w, Sendable(w),
           NEW l \in Seq(Byte), IsFrame(l), Len(l) = Len(w),
           NEW i \in 1 .. Len(w), l[i] # w[i],
           \A j \in 1 .. Len(w) : j # i => l[j] = w[j]
    PROVE  FALSE
<1> DEFINE n == Len(w)
           c == SubSeq(w, 2, n - 2)
           d == SubSeq(l, 2, n - 2)
           m == n - 3
<1>1. w \in Seq(Byte) /\ n \in Nat /\ n >= 6 /\ Len(l) = n /\ Len(w) = n /\ i \in 1 .. n
  BY DEF Sendable, IsFrame
<1>2. m \in 1 .. MaxPayload + 3
  <2>1. w[3] \in Byte /\ w[4] \in Byte
    BY <1>1
  <2>2. w[3] \in Nat /\ Base * w[4] \in Nat
    BY <2>1, BaseAssumption, SMT DEF Byte
  <2>3. n = 6 + w[3] + Base * w[4] /\ w[3] + Base * w[4] <= MaxPayload
    BY DEF Sendable, IsFrame
  <2> DEFINE x == Base * w[4]
  <2>4. w[3] \in Nat /\ x \in Nat /\ n = 6 + w[3] + x /\ w[3] + x <= MaxPayload
    BY <2>2, <2>3
  <2> HIDE DEF x
  <2> QED BY <1>1, <2>4, MaxPayloadNat
<1>3. /\ w[1] = SOF /\ w[n - 1] + Base * w[n] = Crc(c)
      /\ l[1] = SOF /\ l[n - 1] + Base * l[n] = Crc(d)
  BY <1>1 DEF Sendable, IsFrame
<1>4. /\ c \in [1 .. m -> Byte] /\ \A j \in 1 .. m : c[j] = w[j + 1]
      /\ d \in [1 .. m -> Byte] /\ \A j \in 1 .. m : d[j] = l[j + 1]
  BY <1>1, CoveredPart
<1> HIDE DEF c, d
<1>5. i # 1
  BY <1>3
<1>6. CASE i <= n - 2
  <2> DEFINE k == i - 1
  <2>1. k \in 1 .. m /\ k + 1 = i
    BY <1>1, <1>5, <1>6
  <2>2. c[k] # d[k]
    BY <1>4, <2>1
  <2>3. ASSUME NEW j \in 1 .. m, j # k PROVE c[j] = d[j]
    <3>1. j + 1 \in 1 .. n /\ j + 1 # i
      BY <1>1, <2>3
    <3> QED BY <1>4, <3>1
  <2> HIDE DEF k, m
  <2>4. Crc(c) # Crc(d)
    BY <1>2, <1>4, <2>1, <2>2, <2>3, SerialDetects
  <2>5. l[n - 1] = w[n - 1] /\ l[n] = w[n]
    <3>1. n - 1 \in 1 .. n /\ n \in 1 .. n /\ n - 1 # i /\ n # i
      BY <1>1, <1>6
    <3> QED BY <3>1
  <2> QED BY <1>3, <2>4, <2>5
<1>7. CASE i > n - 2
  <2>1. ASSUME NEW j \in 1 .. m PROVE c[j] = d[j]
    <3>1. j + 1 \in 1 .. n /\ j + 1 # i
      BY <1>1, <1>7
    <3> QED BY <1>4, <3>1
  <2>2. c = d
    <3>1. c \in [1 .. m -> Byte] /\ d \in [1 .. m -> Byte]
      BY <1>4
    <3>2. \A j \in 1 .. m : c[j] = d[j]
      BY <2>1
    <3> HIDE DEF m
    <3>3. c = [j \in 1 .. m |-> c[j]] /\ d = [j \in 1 .. m |-> d[j]]
      BY <3>1
    <3>4. [j \in 1 .. m |-> c[j]] = [j \in 1 .. m |-> d[j]]
      BY <3>2
    <3> QED BY <3>3, <3>4, Zenon
  <2> DEFINE x == w[n - 1]  y == w[n]  p == l[n - 1]  q == l[n]
  <2>3. x \in Byte /\ y \in Byte /\ p \in Byte /\ q \in Byte
    <3>1. n - 1 \in 1 .. n /\ n \in 1 .. n
      BY <1>1
    <3> QED BY <1>1, <3>1, ElementOfSeq
  <2>4. x + Base * y = p + Base * q
    BY <1>3, <2>2
  <2>5. i = n - 1 \/ i = n
    BY <1>1, <1>7
  <2>6. i = n - 1 => x # p
    OBVIOUS
  <2>7. i = n => y # q
    OBVIOUS
  <2> HIDE DEF x, y, p, q, n
  <2>8. x = p /\ y = q
    <3>1. Lo(x + Base * y) = x /\ Hi(x + Base * y) = y
      BY <2>3, LenSplits
    <3>2. Lo(p + Base * q) = p /\ Hi(p + Base * q) = q
      BY <2>3, LenSplits
    <3> QED BY <2>4, <3>1, <3>2, Zenon
  <2> QED BY <2>5, <2>6, <2>7, <2>8
<1> QED BY <1>1, <1>6, <1>7

(* On the line there is nothing or a frame; a verdict is about a string.   *)
DamageInv ==
    /\ RxLineInv
    /\ sent = <<>> \/ Sendable(sent)
    /\ last \in Seq(Byte) /\ (result => last # <<>>)

LEMMA DamageFeed ==
    ASSUME DamageInv, NEW b \in Byte, proto_rx_feed(b)
    PROVE  last' \in Seq(Byte) /\ (result' => last' # <<>>)
<1>1. wire \in Seq(Byte)
  BY DEF DamageInv, RxLineInv, ExactInv, WireInv
<1>2. Append(wire, b) \in Seq(Byte) /\ Append(wire, b) # <<>>
  BY <1>1, AppendProperties
<1>3. <<>> \in Seq(Byte)
  OBVIOUS
<1>4. last' = Append(wire, b) \/ (last' = <<>> /\ result' = FALSE)
  BY DEF proto_rx_feed, wait_crc_hi
<1> QED BY <1>2, <1>3, <1>4

LEMMA DamageStep == DamageInv /\ [Next]_vars => DamageInv'
<1> SUFFICES ASSUME DamageInv, [Next]_vars PROVE DamageInv'
  OBVIOUS
<1>1. RxLineInv'
  BY RxLineStep DEF DamageInv
<1>2. sent' = <<>> \/ Sendable(sent')
  <2>1. ASSUME NEW f \in Traffic, Send(f) PROVE Sendable(sent')
    BY <2>1, BuildsFrames DEF Send
  <2>2. CASE UNCHANGED sent
    BY <2>2 DEF DamageInv
  <2> QED BY <2>1, <2>2 DEF Next, Deliver, Lose, Corrupt, Insert, LineError, vars, line
<1>3. last' \in Seq(Byte) /\ (result' => last' # <<>>)
  <2>1. CASE UNCHANGED <<result, last>>
    BY <2>1 DEF DamageInv
  <2>2. CASE \E b \in Byte : proto_rx_feed(b)
    BY <2>2, DamageFeed
  <2>3. Deliver => \E b \in Byte : proto_rx_feed(b)
    <3>1. tx # <<>> => Head(tx) \in Byte
      BY DEF DamageInv, RxLineInv, LineInv
    <3> QED BY <3>1 DEF Deliver
  <2> QED BY <2>1, <2>2, <2>3 DEF Next, Send, Lose, Corrupt, Insert, vars
<1> QED BY <1>1, <1>2, <1>3 DEF DamageInv

(* With any checksum that takes byte after byte into a register and loses  *)
(* nothing, proto_rx_feed accepts no frame in the place of one that was    *)
(* sent and differs in one byte.                                           *)
THEOREM RxDamageDetected ==
    ASSUME NEW CONSTANT R, NEW CONSTANT step, ByteSerial(R, step)
    PROVE  Spec => []DamageDetected
<1>1. Init => DamageInv
  <2>1. Init => RxLineInv
    BY ExactInit DEF Init, RxLineInv, LineInv, CleanFrameAccepted
  <2> QED BY <2>1 DEF Init, DamageInv
<1>2. DamageInv => DamageDetected
  <2> SUFFICES ASSUME DamageInv, result, Len(last) = Len(sent),
                      NEW i \in 1 .. Len(sent), last[i] # sent[i],
                      \A j \in 1 .. Len(sent) : j # i => last[j] = sent[j]
               PROVE  FALSE
    BY DEF DamageDetected
  <2>1. last \in Seq(Byte) /\ IsFrame(last)
    BY DEF DamageInv, RxLineInv, ExactInv, VerdictExact
  <2>2. Sendable(sent)
    BY DEF DamageInv
  <2> QED BY <2>1, <2>2, FramesApart
<1> QED BY <1>1, <1>2, DamageStep, PTL DEF Spec
=============================================================================
