----------------------------- MODULE MCSensorRx -----------------------------
(* TLC instance of SensorRx: sensor frames and heartbeats on a line        *)
(* without errors, with the checksum of Crc16.                             *)
EXTENDS SensorRx, Crc16

SensorTraffic == {<<SensorFrame, <<1, 2>>>>, <<HeartbeatReq, <<>>>>}
=============================================================================
