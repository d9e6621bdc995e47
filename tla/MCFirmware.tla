----------------------------- MODULE MCFirmware -----------------------------
(* TLC instance of Firmware: three frames, a sound one at rest, a sound    *)
(* one that shows liftoff, and one on the ground without GPS, as the       *)
(* simulator sends when the fix is lost.                                   *)
EXTENDS Firmware

Resting == [imu |-> "still", gps_ok |-> TRUE, batt |-> "good",
            grounded |-> TRUE, status_ok |-> TRUE]
Lifting == [Resting EXCEPT !.imu = "lift", !.grounded = FALSE]
GpsLost == [Resting EXCEPT !.gps_ok = FALSE, !.status_ok = FALSE]

MCFrames == {Resting, Lifting, GpsLost}
MCTwoFrames == {Lifting, GpsLost}
MCOneFrame == {Lifting}
=============================================================================
