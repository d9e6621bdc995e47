----------------------------- MODULE FlightFsm -----------------------------
(***************************************************************************)
(* The flight state machine of flight_fsm.c, ticked by task_fsm.c with the *)
(* newest sensor frame and the faults evaluate_faults finds in it.         *)
(*                                                                         *)
(* A sensor frame is abstracted to what the code compares: the IMU reads   *)
(* all zero, or not, or shows liftoff acceleration; the GPS has a fix with *)
(* 4 satellites; the battery is below BATT_LOW_VOLTAGE_V, or not; altitude *)
(* and speed are below their landing thresholds; every sensor_status bit   *)
(* is set.  guard_preflight_to_armed, which nothing calls, is left out.    *)
(*                                                                         *)
(* Definitions introduced as BUG are not part of the model: each is a form *)
(* of the definition below it that some property must reject.              *)
(***************************************************************************)
EXTENDS Naturals

VARIABLES current_state, previous_state, last_event, fault_flags,
          s_last_sensors,     \* the frame of the latest tick
          bb_change           \* the latest state change in the black box

vars == <<current_state, previous_state, last_event, fault_flags,
          s_last_sensors, bb_change>>

States == {"INIT", "PREFLIGHT", "ARMED", "FLYING", "LANDING", "FAULT"}
FsmEvents == {"NONE", "SENSOR_OK", "ARMED_CMD", "LIFTOFF", "LAND_DETECT",
              "FAULT_DETECTED", "FAULT_CLEARED", "DISARM_CMD"}
SensorFaults == {"GPS_LOSS", "SENSOR_FREEZE", "BATT_LOW"}

Samples == [imu : {"zero", "still", "lift"}, gps_ok : BOOLEAN,
            batt : {"low", "good"}, grounded : BOOLEAN,
            status_ok : BOOLEAN]

(* memset(&s_last_sensors, 0, ...)                                         *)
ZeroSample == [imu |-> "zero", gps_ok |-> FALSE, batt |-> "low",
               grounded |-> TRUE, status_ok |-> FALSE]

NoChange == [from |-> "INIT", to |-> "INIT", flags |-> {}]
ChangeRecords == [from : States, to : States, flags : SUBSET SensorFaults]

(* The table of legal transitions.  BUG: a faulted vehicle can be armed.   *)
TransitionsRearm ==
    {<<"INIT", "PREFLIGHT", "SENSOR_OK">>,
     <<"PREFLIGHT", "ARMED", "ARMED_CMD">>,
     <<"FAULT", "ARMED", "ARMED_CMD">>,
     <<"ARMED", "PREFLIGHT", "DISARM_CMD">>,
     <<"ARMED", "FLYING", "LIFTOFF">>,
     <<"FLYING", "LANDING", "LAND_DETECT">>,
     <<"LANDING", "PREFLIGHT", "DISARM_CMD">>,
     <<"FAULT", "PREFLIGHT", "FAULT_CLEARED">>}
    \cup {<<s, "FAULT", "FAULT_DETECTED">> :
             s \in {"PREFLIGHT", "ARMED", "FLYING", "LANDING"}}
TRANSITIONS ==
    {<<"INIT", "PREFLIGHT", "SENSOR_OK">>,
     <<"PREFLIGHT", "ARMED", "ARMED_CMD">>,
     <<"ARMED", "PREFLIGHT", "DISARM_CMD">>,
     <<"ARMED", "FLYING", "LIFTOFF">>,
     <<"FLYING", "LANDING", "LAND_DETECT">>,
     <<"LANDING", "PREFLIGHT", "DISARM_CMD">>,
     <<"FAULT", "PREFLIGHT", "FAULT_CLEARED">>}
    \cup {<<s, "FAULT", "FAULT_DETECTED">> :
             s \in {"PREFLIGHT", "ARMED", "FLYING", "LANDING"}}

transition_legal(from, to, event) == <<from, to, event>> \in TRANSITIONS

evaluate_faults(s) ==
    {f \in SensorFaults : \/ f = "GPS_LOSS" /\ ~s.gps_ok
                          \/ f = "BATT_LOW" /\ s.batt = "low"
                          \/ f = "SENSOR_FREEZE" /\ s.imu = "zero"}

guard_init_to_preflight(s) == s.status_ok
guard_armed_to_flying(s)   == s.imu = "lift"
guard_flying_to_landing(s) == s.grounded
guard_any_to_fault(faults) == faults # {}

(* The record do_transition logs: the flags are those of the context at    *)
(* that time, which fsm_tick has just updated.  BUG: it has not yet.       *)
ChangeRecordStale(to) == [from |-> current_state, to |-> to, flags |-> fault_flags]
ChangeRecord(to) == [from |-> current_state, to |-> to, flags |-> fault_flags']

do_transition(to, event) ==
    /\ previous_state' = current_state
    /\ current_state' = to
    /\ last_event' = event
    /\ bb_change' = ChangeRecord(to)

NoTransition ==
    UNCHANGED <<current_state, previous_state, last_event, bb_change>>

(* The switch of fsm_tick, reached when no fault took priority.            *)
(* BUG: recovery from a fault also asks for the self test of INIT.         *)
tick_switch_retests(s, faults) ==
    CASE current_state = "INIT" /\ guard_init_to_preflight(s) ->
             do_transition("PREFLIGHT", "SENSOR_OK")
      [] current_state = "ARMED" /\ guard_armed_to_flying(s) ->
             do_transition("FLYING", "LIFTOFF")
      [] current_state = "FLYING" /\ guard_flying_to_landing(s) ->
             do_transition("LANDING", "LAND_DETECT")
      [] current_state = "FAULT" /\ faults = {} /\ guard_init_to_preflight(s) ->
             do_transition("PREFLIGHT", "FAULT_CLEARED")
      [] OTHER -> NoTransition
tick_switch(s, faults) ==
    CASE current_state = "INIT" /\ guard_init_to_preflight(s) ->
             do_transition("PREFLIGHT", "SENSOR_OK")
      [] current_state = "ARMED" /\ guard_armed_to_flying(s) ->
             do_transition("FLYING", "LIFTOFF")
      [] current_state = "FLYING" /\ guard_flying_to_landing(s) ->
             do_transition("LANDING", "LAND_DETECT")
      [] current_state = "FAULT" /\ faults = {} ->
             do_transition("PREFLIGHT", "FAULT_CLEARED")
      [] OTHER -> NoTransition

(* Fault takes priority from any state except INIT.  BUG: a landing        *)
(* vehicle is left to land.                                                *)
FaultPriorityNotLanding(faults) ==
    current_state \notin {"INIT", "FAULT", "LANDING"} /\ guard_any_to_fault(faults)
FaultPriority(faults) ==
    current_state \notin {"INIT", "FAULT"} /\ guard_any_to_fault(faults)

fsm_tick(s, faults) ==
    /\ fault_flags' = faults
    /\ \/ FaultPriority(faults) /\ do_transition("FAULT", "FAULT_DETECTED")
       \/ ~FaultPriority(faults) /\ tick_switch(s, faults)

(* fsm_command: arm and disarm requests.  BUG: the table is not asked.     *)
CommandTarget == [ARMED_CMD |-> "ARMED", DISARM_CMD |-> "PREFLIGHT"]
fsm_command_forced(event) ==
    /\ event \in DOMAIN CommandTarget
    /\ UNCHANGED <<fault_flags, s_last_sensors>>
    /\ do_transition(CommandTarget[event], event)
fsm_command(event) ==
    /\ event \in DOMAIN CommandTarget
    /\ transition_legal(current_state, CommandTarget[event], event)
    /\ UNCHANGED <<fault_flags, s_last_sensors>>
    /\ do_transition(CommandTarget[event], event)

fsm_init ==
    /\ current_state = "INIT"
    /\ previous_state = "INIT"
    /\ last_event = "NONE"
    /\ fault_flags = {}
    /\ s_last_sensors = ZeroSample
    /\ bb_change = NoChange

(* One period of task_fsm: the frame is a fresh one from the queue, or the *)
(* last one again.                                                         *)
Tick(s) ==
    /\ s_last_sensors' = s
    /\ fsm_tick(s, evaluate_faults(s))

Next ==
    \/ \E s \in Samples : Tick(s)
    \/ \E e \in FsmEvents : fsm_command(e)

Spec == fsm_init /\ [][Next]_vars

(* task_fsm wakes every 20 ms whether or not a frame arrived.              *)
FairSpec == Spec /\ WF_vars(\E s \in Samples : Tick(s))
-----------------------------------------------------------------------------
TypeOK ==
    /\ current_state \in States
    /\ previous_state \in States
    /\ last_event \in FsmEvents
    /\ fault_flags \subseteq SensorFaults
    /\ s_last_sensors \in Samples
    /\ bb_change \in ChangeRecords

(* fsm_tick never consults TRANSITIONS, and still no tick and no command   *)
(* makes a transition the table does not list, under the event it lists    *)
(* ("Legal transitions only -- anything not listed is forbidden").         *)
LegalTransitions ==
    [][current_state' # current_state =>
         <<current_state, current_state', last_event'>> \in TRANSITIONS]_vars

(* A vehicle is never in the air on a frame that shows a fault.  A lost    *)
(* GPS reports altitude and speed zero, which is also what the landing     *)
(* guard looks for: fault priority keeps it from being taken for a         *)
(* landing.                                                                *)
InFlightSound ==
    current_state \in {"FLYING", "LANDING"} =>
        fault_flags = {} /\ evaluate_faults(s_last_sensors) = {}

(* The black box explains every fault: while the machine is in FAULT its   *)
(* latest state-change record is the one into FAULT, and it carries the    *)
(* flags that caused it.                                                   *)
FaultExplained ==
    current_state = "FAULT" => bb_change.to = "FAULT" /\ bb_change.flags # {}

(* Nothing takes off by itself: liftoff is only recognised when the        *)
(* transition before it was an explicit arm command, also after a fault    *)
(* and its recovery.                                                       *)
NoAutonomousTakeoff ==
    [][current_state' = "FLYING" /\ current_state # "FLYING" =>
         last_event = "ARMED_CMD" /\ previous_state = "PREFLIGHT"]_vars

(* The fault state is not a trap: if the frames are sound from some time   *)
(* on, the machine is out of FAULT from some time on.                      *)
FaultIsLeft ==
    <>[](evaluate_faults(s_last_sensors) = {}) => <>[](current_state # "FAULT")
=============================================================================
