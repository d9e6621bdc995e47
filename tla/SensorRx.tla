------------------------------ MODULE SensorRx ------------------------------
(***************************************************************************)
(* How task_sensor.c takes frames from the parser: the receive interrupt   *)
(* feeds s_rx_ctx and raises s_byte_ready, and every 10 ms the task tests  *)
(* that flag and reads type, length and payload out of the same context,   *)
(* which the interrupt may change between any two of its reads.            *)
(***************************************************************************)
EXTENDS ProtocolRx

CONSTANTS SensorFrame,    \* PKT_TYPE_SENSOR_FRAME
          HeartbeatReq,   \* PKT_TYPE_HEARTBEAT_REQ
          PackedSize      \* SENSOR_PACKED_SIZE

VARIABLES s_byte_ready,
          pc,         \* where task_sensor is
          parsed,     \* the bytes proto_unpack_sensor has read so far
          queue,      \* what handle_frame last put into g_sensor_queue
          verified    \* the payloads of the frames whose CRC was right

task  == <<pc, parsed, queue>>
svars == <<vars, s_byte_ready, task, verified>>

SInit ==
    /\ Init
    /\ s_byte_ready = FALSE
    /\ pc = "poll" /\ parsed = <<>> /\ queue = <<>>
    /\ verified = {}

(* A byte that reaches the UART runs the interrupt.                        *)
HAL_UART_RxCpltCallback ==
    /\ Deliver \/ \E b \in Byte : Corrupt(b) \/ Insert(b)
    /\ s_byte_ready' = (s_byte_ready \/ result')
    /\ verified' = verified \cup
           (IF result' THEN {SubSeq(last', 5, Len(last') - 2)} ELSE {})
    /\ UNCHANGED task

Line ==
    /\ Lose \/ \E f \in Traffic : Send(f)
    /\ UNCHANGED <<s_byte_ready, verified, task>>

poll ==
    /\ pc = "poll" /\ s_byte_ready
    /\ s_byte_ready' = FALSE
    /\ pc' = "type"
    /\ UNCHANGED <<vars, parsed, queue, verified>>

(* The switch on frame->type; a heartbeat is acknowledged on the UART, and *)
(* an unknown type ignored.                                                *)
handle_frame ==
    /\ pc = "type"
    /\ pc' = CASE type = SensorFrame  -> "len"
               [] type = HeartbeatReq -> "ack"
               [] OTHER               -> "poll"
    /\ UNCHANGED <<vars, s_byte_ready, parsed, queue, verified>>
heartbeat_ack ==
    /\ pc = "ack"
    /\ pc' = "poll"
    /\ UNCHANGED <<vars, s_byte_ready, parsed, queue, verified>>

(* proto_unpack_sensor: a short frame is counted as an error, a long       *)
(* enough one is read field after field.  (The length asked for is 73, and *)
(* the fields are 72 bytes; here both are PackedSize.)                     *)
unpack_length ==
    /\ pc = "len"
    /\ pc' = IF len < PackedSize THEN "poll" ELSE "copy"
    /\ parsed' = <<>>
    /\ UNCHANGED <<vars, s_byte_ready, queue, verified>>
unpack_byte ==
    /\ pc = "copy" /\ Len(parsed) < PackedSize
    /\ parsed' = Append(parsed, payload[Len(parsed)])
    /\ UNCHANGED <<vars, s_byte_ready, pc, queue, verified>>

queue_put ==
    /\ pc = "copy" /\ Len(parsed) = PackedSize
    /\ queue' = parsed
    /\ pc' = "poll"
    /\ UNCHANGED <<vars, s_byte_ready, parsed, verified>>

task_sensor ==
    \/ poll \/ handle_frame \/ heartbeat_ack
    \/ unpack_length \/ unpack_byte \/ queue_put

SNext == HAL_UART_RxCpltCallback \/ Line \/ task_sensor

SSpec == SInit /\ [][SNext]_svars
-----------------------------------------------------------------------------
(* task_sensor.c on handle_frame: "Handle a fully received, CRC-validated  *)
(* frame".  What goes into the sensor queue was the payload of such a one. *)
HandledIsVerified ==
    queue # <<>> =>
        \E p \in verified : Len(p) >= PackedSize /\ SubSeq(p, 1, PackedSize) = queue
=============================================================================
