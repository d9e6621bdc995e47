-------------------------- MODULE FlightFsmProofs --------------------------
(***************************************************************************)
(* The safety properties of FlightFsm hold in every behaviour, whatever    *)
(* frames arrive and whatever commands are given.                          *)
(***************************************************************************)
EXTENDS FlightFsm, TLAPS

(* An armed machine was armed by a command: what NoAutonomousTakeoff needs *)
(* to be inductive.                                                        *)
ArmedByCommand ==
    current_state = "ARMED" =>
        last_event = "ARMED_CMD" /\ previous_state = "PREFLIGHT"

(* The faults of the context are those of the frame it was ticked with,    *)
(* from the first tick on.                                                 *)
FlagsOfFrame ==
    current_state # "INIT" => fault_flags = evaluate_faults(s_last_sensors)

FsmInv == TypeOK /\ ArmedByCommand /\ FlagsOfFrame /\ InFlightSound /\ FaultExplained

(* The transitions a tick can make, one per case of fsm_tick.              *)
LEMMA TickCases ==
    ASSUME NEW s \in Samples, Tick(s)
    PROVE  LET f == evaluate_faults(s)
           IN  /\ s_last_sensors' = s /\ fault_flags' = f
               /\ \/ /\ current_state \notin {"INIT", "FAULT"} /\ f # {}
                     /\ do_transition("FAULT", "FAULT_DETECTED")
                  \/ current_state = "INIT" /\ do_transition("PREFLIGHT", "SENSOR_OK")
                  \/ current_state = "ARMED" /\ f = {} /\ do_transition("FLYING", "LIFTOFF")
                  \/ current_state = "FLYING" /\ f = {} /\ do_transition("LANDING", "LAND_DETECT")
                  \/ current_state = "FAULT" /\ f = {} /\ do_transition("PREFLIGHT", "FAULT_CLEARED")
                  \/ current_state \in {"INIT", "FAULT"} /\ NoTransition
                  \/ f = {} /\ NoTransition
<1> DEFINE f == evaluate_faults(s)
<1>1. s_last_sensors' = s /\ fault_flags' = f
  BY DEF Tick, fsm_tick
<1>2. CASE FaultPriority(f) /\ do_transition("FAULT", "FAULT_DETECTED")
  BY <1>1, <1>2 DEF FaultPriority, guard_any_to_fault
<1>3. CASE ~FaultPriority(f) /\ tick_switch(s, f)
  BY <1>1, <1>3 DEF FaultPriority, guard_any_to_fault, tick_switch
<1> QED BY <1>2, <1>3 DEF Tick, fsm_tick

(* The transitions a command can make.                                     *)
LEMMA CommandCases ==
    ASSUME NEW e \in FsmEvents, fsm_command(e)
    PROVE  /\ UNCHANGED <<fault_flags, s_last_sensors>>
           /\ \/ current_state = "PREFLIGHT" /\ do_transition("ARMED", "ARMED_CMD")
              \/ /\ current_state \in {"ARMED", "LANDING"}
                 /\ do_transition("PREFLIGHT", "DISARM_CMD")
<1>1. e \in {"ARMED_CMD", "DISARM_CMD"}
  BY DEF fsm_command, CommandTarget
<1>2. CASE e = "ARMED_CMD"
  BY <1>2 DEF fsm_command, CommandTarget, transition_legal, TRANSITIONS
<1>3. CASE e = "DISARM_CMD"
  BY <1>3 DEF fsm_command, CommandTarget, transition_legal, TRANSITIONS
<1> QED BY <1>1, <1>2, <1>3

(* The inductive step.                                                     *)
LEMMA FsmStep == FsmInv /\ [Next]_vars => FsmInv'
<1> SUFFICES ASSUME FsmInv, [Next]_vars PROVE FsmInv'
  OBVIOUS
<1>1. ASSUME NEW s \in Samples, Tick(s) PROVE FsmInv'
  <2>1. evaluate_faults(s) \subseteq SensorFaults
    BY DEF evaluate_faults
  <2>2. TypeOK'
    BY <1>1, <2>1, TickCases DEF FsmInv, TypeOK, do_transition, NoTransition, States,
       FsmEvents, ChangeRecord, ChangeRecords
  <2>3. (ArmedByCommand /\ FlagsOfFrame /\ InFlightSound /\ FaultExplained)'
    BY <1>1, TickCases DEF FsmInv, ArmedByCommand, FlagsOfFrame, InFlightSound,
       FaultExplained, do_transition, NoTransition, ChangeRecord
  <2> QED BY <2>2, <2>3 DEF FsmInv
<1>2. ASSUME NEW e \in FsmEvents, fsm_command(e) PROVE FsmInv'
  <2>1. TypeOK'
    BY <1>2, CommandCases DEF FsmInv, TypeOK, do_transition, States, FsmEvents,
       ChangeRecord, ChangeRecords
  <2>2. (ArmedByCommand /\ FlagsOfFrame /\ InFlightSound /\ FaultExplained)'
    BY <1>2, CommandCases DEF FsmInv, ArmedByCommand, FlagsOfFrame, InFlightSound,
       FaultExplained, do_transition
  <2> QED BY <2>1, <2>2 DEF FsmInv
<1>3. CASE UNCHANGED vars
  BY <1>3 DEF vars, FsmInv, TypeOK, ArmedByCommand, FlagsOfFrame, InFlightSound,
     FaultExplained
<1> QED BY <1>1, <1>2, <1>3 DEF Next

(* The inductive invariant of the machine.                                 *)
THEOREM FsmInvariant == Spec => []FsmInv
<1>1. fsm_init => FsmInv
  BY DEF fsm_init, FsmInv, TypeOK, ArmedByCommand, FlagsOfFrame, InFlightSound,
     FaultExplained, States, FsmEvents, Samples, ZeroSample, NoChange, ChangeRecords
<1> QED BY <1>1, FsmStep, PTL DEF Spec

(* No vehicle is FLYING or LANDING on a frame that shows a fault.          *)
THEOREM FlightIsSound == Spec => []InFlightSound
<1>1. FsmInv => InFlightSound
  BY DEF FsmInv
<1> QED BY <1>1, FsmInvariant, PTL

(* A machine in FAULT has the causing flags in the black box.              *)
THEOREM FaultIsExplained == Spec => []FaultExplained
<1>1. FsmInv => FaultExplained
  BY DEF FsmInv
<1> QED BY <1>1, FsmInvariant, PTL

(* Ticks and commands stay within the table of legal transitions.          *)
THEOREM TransitionsAreLegal == Spec => LegalTransitions
<1>1. FsmInv /\ [Next]_vars =>
        [current_state' # current_state =>
           <<current_state, current_state', last_event'>> \in TRANSITIONS]_vars
  <2> SUFFICES ASSUME FsmInv, [Next]_vars, current_state' # current_state
               PROVE  <<current_state, current_state', last_event'>> \in TRANSITIONS
    OBVIOUS
  <2>1. ASSUME NEW s \in Samples, Tick(s)
        PROVE  <<current_state, current_state', last_event'>> \in TRANSITIONS
    BY <2>1, TickCases DEF do_transition, NoTransition, TRANSITIONS, FsmInv, TypeOK, States
  <2>2. ASSUME NEW e \in FsmEvents, fsm_command(e)
        PROVE  <<current_state, current_state', last_event'>> \in TRANSITIONS
    BY <2>2, CommandCases DEF do_transition, TRANSITIONS
  <2>3. CASE UNCHANGED vars
    BY <2>3 DEF vars
  <2> QED BY <2>1, <2>2, <2>3 DEF Next
<1> QED BY <1>1, FsmInvariant, PTL DEF Spec, LegalTransitions

(* A liftoff is preceded by an arm command, with no transition between.    *)
THEOREM TakeoffIsCommanded == Spec => NoAutonomousTakeoff
<1>1. FsmInv /\ [Next]_vars =>
        [current_state' = "FLYING" /\ current_state # "FLYING" =>
           last_event = "ARMED_CMD" /\ previous_state = "PREFLIGHT"]_vars
  <2> SUFFICES ASSUME FsmInv, [Next]_vars,
                      current_state' = "FLYING", current_state # "FLYING"
               PROVE  last_event = "ARMED_CMD" /\ previous_state = "PREFLIGHT"
    OBVIOUS
  <2>1. ASSUME NEW s \in Samples, Tick(s) PROVE current_state = "ARMED"
    BY <2>1, TickCases DEF do_transition, NoTransition
  <2>2. ASSUME NEW e \in FsmEvents, fsm_command(e) PROVE FALSE
    BY <2>2, CommandCases DEF do_transition
  <2>3. CASE UNCHANGED vars
    BY <2>3 DEF vars
  <2> QED BY <2>1, <2>2, <2>3 DEF Next, FsmInv, ArmedByCommand
<1> QED BY <1>1, FsmInvariant, PTL DEF Spec, NoAutonomousTakeoff
=============================================================================
