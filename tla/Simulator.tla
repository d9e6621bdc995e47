----------------------------- MODULE Simulator -----------------------------
(***************************************************************************)
(* The sensor simulator: the main loop of main_sim.c, the fault injector   *)
(* it ticks, and the fault commands that reach the injector from the       *)
(* scenario engine (before the tick) and from the ground station over TCP  *)
(* (after it).                                                             *)
(*                                                                         *)
(* The sensor models keep their fault switches, the motion the IMU follows *)
(* or has latched, and the voltage the battery is to sag to; noise and the *)
(* discharge curve are left out.  Time is the simulator's clock            *)
(* sim_wall_ms, a uint32_t that wraps.                                     *)
(*                                                                         *)
(* Definitions introduced as BUG are not part of the model: each is a form *)
(* of the definition below it that some property must reject.              *)
(***************************************************************************)
EXTENDS Integers, Sequences, FiniteSets

CONSTANTS FAULT_SLOTS,   \* 8
          ClockMod,      \* 2^32
          FaultTypes,    \* the fault types that are injected
          Durations,     \* the durations asked for; 0 is a latched fault
          Voltages,      \* the voltages a battery is asked to sag to
          Motions,       \* what the IMU may be made to measure
          MaxLag,        \* bound: the time from one iteration to the next
          MaxCommands    \* bound: commands in one tick of a command source

Types == {"GPS_LOSS", "SENSOR_FREEZE", "BATTERY_SAG", "COMMS_DROP", "PACKET_CORRUPT"}
SlotIds == 0 .. FAULT_SLOTS - 1
Clock == 0 .. ClockMod - 1

ASSUME SlotsAssumption == FAULT_SLOTS \in Nat \ {0}
ASSUME TypesAssumption == FaultTypes \subseteq Types
ASSUME LagAssumption == MaxLag \in Nat \ {0}
ASSUME CommandsAssumption == MaxCommands \in Nat
ASSUME ClockAssumption == ClockMod \in Nat /\ MaxLag <= ClockMod

(* A fault asked for less than a lap of the clock, less one iteration.     *)
ASSUME DurationsAssumption ==
    Durations \subseteq Nat /\ \A d \in Durations : d + MaxLag <= ClockMod

VARIABLES
    slots,         \* fault_injector_t: type, active, start_ms, duration_ms
    models,        \* imu, gps, battery, and the injector's two output flags
    motion,        \* true_accel, true_gyro: set by the scenario
    imu_out,       \* what the IMU last put into a sample
    held,          \* it was frozen then, and no command has freed it since
    sim_wall_ms, tick_count,
    phase,         \* which of the loop's calls comes next
    commands,      \* commands handled in this phase
    line,          \* what the latest iteration handed to the UART
    refused,       \* the latest command found no free slot
    asked          \* the faults asked for and not over, with the time left

sensors == <<models, motion, imu_out, held>>
vars == <<slots, sensors, sim_wall_ms, tick_count, phase, commands, line,
          refused, asked>>

NONE == [type |-> "NONE", active |-> FALSE, start_ms |-> 0, duration_ms |-> 0,
         param |-> 0]
-----------------------------------------------------------------------------
(* imu_freeze latches when it is switched on, and not again.  BUG: it      *)
(* latches whenever it is called.                                          *)
imu_freeze_again(freeze) == IF freeze THEN motion ELSE models.latched
imu_freeze(freeze) == IF freeze /\ ~models.frozen THEN motion ELSE models.latched
imu_tick == IF models.frozen THEN models.latched ELSE motion
gps_tick == IF models.gps.signal_lost THEN 0 ELSE models.gps.fix_quality
gps_set_signal_lost(lost) == [fix_quality |-> IF lost THEN 0 ELSE 1, signal_lost |-> lost]
battery_set_sag(active, v) == [sag_fault |-> active, sag_target_v |-> v]

(* The models and output flags once the faults in on are switched on, the  *)
(* others off.                                                             *)
Switched(on, sag_v) ==
    [gps |-> gps_set_signal_lost("GPS_LOSS" \in on),
     frozen |-> "SENSOR_FREEZE" \in on, latched |-> imu_freeze("SENSOR_FREEZE" \in on),
     battery |-> battery_set_sag("BATTERY_SAG" \in on, sag_v),
     comms_drop_active |-> "COMMS_DROP" \in on,
     packet_corrupt_active |-> "PACKET_CORRUPT" \in on]

(* What shows in the output; of the battery, whether it is made to sag.    *)
Shown ==
    {t \in Types : CASE t = "GPS_LOSS"       -> gps_tick = 0
                     [] t = "SENSOR_FREEZE"  -> models.frozen
                     [] t = "BATTERY_SAG"    -> models.battery.sag_fault
                     [] t = "COMMS_DROP"     -> models.comms_drop_active
                     [] t = "PACKET_CORRUPT" -> models.packet_corrupt_active}
-----------------------------------------------------------------------------
(* fault_init, the models' init and the start of main.                     *)
Init ==
    /\ slots = [i \in SlotIds |-> NONE]
    /\ motion \in Motions /\ imu_out = motion /\ held = FALSE
    /\ models = [gps |-> gps_set_signal_lost(FALSE), frozen |-> FALSE, latched |-> motion,
                 battery |-> battery_set_sag(FALSE, 0),
                 comms_drop_active |-> FALSE, packet_corrupt_active |-> FALSE]
    /\ sim_wall_ms = 0 /\ tick_count = 0
    /\ phase = "top" /\ commands = 0
    /\ line = "nothing"
    /\ refused = FALSE /\ asked = {}
-----------------------------------------------------------------------------
(* The slots fault_inject may take.  BUG: the last is never looked at.     *)
FreeButLast == {i \in SlotIds : ~slots[i].active /\ i < FAULT_SLOTS - 1}
Free == {i \in SlotIds : ~slots[i].active}
First(S) == CHOOSE i \in S : \A j \in S : i <= j

(* The first free slot takes the fault, or the caller is told -1.          *)
fault_inject(type, v, d) ==
    \/ /\ Free # {}
       /\ LET i == First(Free)
          IN  /\ slots' = [slots EXCEPT ![i] =
                     [type |-> type, active |-> TRUE,
                      start_ms |-> sim_wall_ms, duration_ms |-> d, param |-> v]]
              /\ asked' = asked \cup
                     {[slot |-> i, type |-> type, latched |-> d = 0, left |-> d, param |-> v]}
       /\ refused' = FALSE
       /\ UNCHANGED sensors
    \/ /\ Free = {}
       /\ refused' = TRUE
       /\ UNCHANGED <<slots, sensors, asked>>

fault_clear(i) ==
    /\ slots' = [slots EXCEPT ![i].active = FALSE, ![i].type = "NONE"]
    /\ asked' = {a \in asked : a.slot # i}
    /\ refused' = FALSE
    /\ UNCHANGED sensors

(* All slots, and the models at once.  BUG: the models only.               *)
fault_clear_all_models ==
    /\ models' = Switched({}, 0) /\ held' = FALSE
    /\ asked' = {}
    /\ refused' = FALSE
    /\ UNCHANGED <<slots, motion, imu_out>>
fault_clear_all ==
    /\ slots' = [i \in SlotIds |-> [slots[i] EXCEPT !.active = FALSE]]
    /\ models' = Switched({}, 0) /\ held' = FALSE
    /\ asked' = {}
    /\ refused' = FALSE
    /\ UNCHANGED <<motion, imu_out>>

(* A timed fault is over; the difference is a uint32_t.  BUGS: it is over  *)
(* one tick late; the deadline is computed and does not wrap.              *)
ExpiredLate(e) ==
    e.duration_ms > 0 /\ (sim_wall_ms - e.start_ms) % ClockMod > e.duration_ms
ExpiredByDeadline(e) ==
    e.duration_ms > 0 /\ sim_wall_ms >= e.start_ms + e.duration_ms
Expired(e) ==
    e.duration_ms > 0 /\ (sim_wall_ms - e.start_ms) % ClockMod >= e.duration_ms

(* The voltage of the last sag among the slots in S, 10 V without one.     *)
Sags(S) == {i \in S : slots[i].type = "BATTERY_SAG"}
SagTarget(S) ==
    IF Sags(S) = {} THEN 10
    ELSE slots[CHOOSE i \in Sags(S) : \A j \in Sags(S) : j <= i].param

(* Expire timed faults, and make the models show what is left.             *)
fault_tick ==
    LET left == {i \in SlotIds : slots[i].active /\ ~Expired(slots[i])}
    IN  /\ slots' = [i \in SlotIds |-> [slots[i] EXCEPT !.active = i \in left]]
        /\ models' = Switched({slots[i].type : i \in left}, SagTarget(left))

(* What STATUS reports: no flag stands for a corrupted packet.             *)
fault_get_flags ==
    {slots[i].type : i \in {j \in SlotIds : slots[j].active}} \ {"PACKET_CORRUPT"}
-----------------------------------------------------------------------------
(* The fields pkt_build_sensor_frame writes, in bytes, and the frame it    *)
(* returns: nothing, unless they add up to SENSOR_PAYLOAD_SIZE.            *)
FieldBytes == [f32 |-> 12 * 4, f64 |-> 2 * 8, u32 |-> 4, u8 |-> 4]
SENSOR_PAYLOAD_SIZE == 73
Written == FieldBytes.f32 + FieldBytes.f64 + FieldBytes.u32 + FieldBytes.u8
pkt_build_sensor_frame ==
    IF Written # SENSOR_PAYLOAD_SIZE THEN 0 ELSE 4 + SENSOR_PAYLOAD_SIZE + 2

(* Every second iteration a frame is built and written.                    *)
TX_EVERY_N == 2
Transmitted ==
    IF \/ tick_count % TX_EVERY_N # 0
       \/ models.comms_drop_active
       \/ pkt_build_sensor_frame = 0
    THEN "nothing"
    ELSE IF models.packet_corrupt_active THEN "corrupt frame" ELSE "frame"
-----------------------------------------------------------------------------
Go(here, there) == phase = here /\ phase' = there

(* The top of the loop reads the clock, d after the iteration before.      *)
(* BUG: the clock does not wrap.                                           *)
AdvanceNoWrap(d) == sim_wall_ms + d
Advance(d) == (sim_wall_ms + d) % ClockMod
LoopTop(d) ==
    /\ Go("top", "scenario")
    /\ sim_wall_ms' = Advance(d)
    /\ asked' = {a \in asked : a.latched}
                \cup {[a EXCEPT !.left = @ - d] : a \in {x \in asked : x.left > d}}
    /\ UNCHANGED <<slots, sensors, tick_count, commands, line, refused>>

(* scenario_tick is handed the models and the injector and may use all of  *)
(* them; a command line of the ground station is an injection or FAULT     *)
(* CLEAR.                                                                  *)
Command(here) ==
    /\ phase = here
    /\ commands < MaxCommands
    /\ commands' = commands + 1
    /\ UNCHANGED <<sim_wall_ms, tick_count, phase, line>>
Inject ==
    \E t \in FaultTypes, d \in Durations :
        \E v \in IF t = "BATTERY_SAG" THEN Voltages ELSE {0} : fault_inject(t, v, d)
scenario_motion ==
    /\ phase = "scenario"
    /\ motion' \in Motions
    /\ UNCHANGED <<slots, models, imu_out, held, sim_wall_ms, tick_count, phase,
                   commands, line, refused, asked>>
scenario_command ==
    /\ Command("scenario")
    /\ \/ Inject
       \/ \E i \in SlotIds : fault_clear(i)
       \/ fault_clear_all
handle_command ==
    /\ Command("tcp")
    /\ \/ Inject
       \/ fault_clear_all

(* The fault tick follows the scenario.                                    *)
FaultTick ==
    /\ Go("scenario", "sample")
    /\ fault_tick
    /\ commands' = 0
    /\ UNCHANGED <<motion, imu_out, held, sim_wall_ms, tick_count, line, refused, asked>>

(* The models are sampled and the frame goes out ...                       *)
Sample ==
    /\ Go("sample", "tcp")
    /\ imu_out' = imu_tick /\ held' = models.frozen
    /\ line' = Transmitted
    /\ refused' = FALSE
    /\ UNCHANGED <<slots, models, motion, sim_wall_ms, tick_count, commands, asked>>

(* ... then TCP is served, and the iteration ends.                         *)
LoopEnd ==
    /\ Go("tcp", "top")
    /\ tick_count' = (tick_count + 1) % TX_EVERY_N
    /\ commands' = 0
    /\ UNCHANGED <<slots, sensors, sim_wall_ms, line, refused, asked>>

Loop == (\E d \in 1 .. MaxLag : LoopTop(d)) \/ FaultTick \/ Sample \/ LoopEnd
Next == Loop \/ scenario_motion \/ scenario_command \/ handle_command
Spec == Init /\ [][Next]_vars

(* The loop is not left, and each command source is served a bounded read. *)
FairSpec == Spec /\ WF_vars(Loop)
-----------------------------------------------------------------------------
TypeOK ==
    /\ slots \in [SlotIds -> [type : Types \cup {"NONE"}, active : BOOLEAN,
                              start_ms : Clock, duration_ms : Durations \cup {0},
                              param : Voltages \cup {0}]]
    /\ {motion, imu_out, models.latched} \subseteq Motions /\ held \in BOOLEAN
    /\ sim_wall_ms \in Clock
    /\ tick_count \in 0 .. TX_EVERY_N - 1
    /\ phase \in {"top", "scenario", "sample", "tcp"}
    /\ commands \in 0 .. MaxCommands
    /\ line \in {"nothing", "frame", "corrupt frame"}
    /\ refused \in BOOLEAN
    /\ asked \subseteq [slot : SlotIds, type : Types, latched : BOOLEAN, left : Nat,
                          param : Voltages \cup {0}]

(* What is sampled shows exactly the faults that were asked for, are not   *)
(* cleared and have time left, whatever slots were reused and overlapped,  *)
(* and across the wrap of the clock; and a battery sags to a voltage that  *)
(* a fault still on asked for.                                             *)
FaultsExact ==
    phase = "sample" =>
        /\ Shown = {a.type : a \in asked}
        /\ "BATTERY_SAG" \in Shown =>
               models.battery.sag_target_v \in
                   {a.param : a \in {x \in asked : x.type = "BATTERY_SAG"}}

(* A frozen IMU repeats itself, sample after sample, however the scenario  *)
(* moves the vehicle and however freeze faults overlap, end and begin, for *)
(* as long as nobody clears the faults.                                    *)
FreezeHolds ==
    [][Go("sample", "tcp") /\ models.frozen /\ held => imu_out' = imu_out]_vars

(* STATUS tells the ground station the faults that are on, commands of the *)
(* same tick included.                                                     *)
StatusTruthful ==
    phase = "tcp" => fault_get_flags = {a.type : a \in asked} \ {"PACKET_CORRUPT"}

(* A ground station is told "ERR no free fault slots" only when that many  *)
(* faults are really on: no slot is held by a fault that is over.          *)
RefusedOnlyWhenFull ==
    phase = "tcp" /\ refused => Cardinality(asked) = FAULT_SLOTS

(* A timed fault ends.                                                     *)
TimedFaultsEnd ==
    \A i \in SlotIds :
        (slots[i].active /\ slots[i].duration_ms > 0) ~>
            ~(slots[i].active /\ slots[i].duration_ms > 0)

(* main_sim.c: "Transmit sensor frame at reduced rate": with no fault that *)
(* stops or damages them, frames keep going out.                           *)
FramesFlow ==
    <>[](Shown \cap {"COMMS_DROP", "PACKET_CORRUPT"} = {}) => []<>(line = "frame")
=============================================================================
