--------------------------- MODULE FirmwareProofs ---------------------------
(***************************************************************************)
(* The safety properties of Firmware hold for every set of frames and any  *)
(* number of them, under every schedule of the four tasks and a commanding *)
(* ground station; and the tasks together implement FlightFsm.             *)
(***************************************************************************)
EXTENDS Firmware, SequenceTheorems, TLAPS

ApiNext == Next \/ \E e \in Fsm!FsmEvents : gcs_command(e)

(* Where the tasks can be, and when task_fsm holds the state mutex: it may *)
(* log with it (a transition) or without (a change of the faults).         *)
ControlInv ==
    /\ pc["sensor"] \in {"idle", "put", "log", "logging"}
    /\ pc["fsm"] \in {"idle", "lock", "set_flags", "run", "log", "logging", "unlock"}
    /\ pc["telemetry"] \in {"idle", "state", "flags", "build"}
    /\ pc["health"] \in {"idle", "comms", "get_state", "log", "logging"}
    /\ pc["fsm"] \in {"set_flags", "run", "unlock"} => state_mutex = "fsm"
    /\ pc["fsm"] \in {"idle", "lock"} => state_mutex = NoTask

(* A frame that is being handled has emptied the queue first.              *)
QueueInv ==
    /\ pc["sensor"] # "put" => incoming = NoFrame
    /\ pc["sensor"] = "put" =>
           queue = <<>> /\ incoming \in Numbered /\ incoming.n = handled
    /\ QueueHoldsNewest

(* Frames reach s_last_sensors in the order of their arrival: one on its   *)
(* way is newer than the latest tick, and the newest is in the queue or    *)
(* about to be.  What telemetry has read is not newer than that tick.      *)
AgeInv ==
    /\ seen <= handled
    /\ fresh # NoFrame => seen <= fresh.n /\ fresh.n <= handled
    /\ fresh # NoFrame /\ pc["fsm"] \in {"lock", "set_flags", "run"} => seen < fresh.n
    /\ queue # <<>> \/ pc["sensor"] = "put" =>
           seen < handled /\ (fresh # NoFrame => fresh.n < handled)
    /\ pc["telemetry"] # "idle" => report.sensors <= seen
    /\ pc["telemetry"] \in {"flags", "build"} => report.sensors <= report.state

(* What telemetry has read of the flags, while no newer frame was ticked.  *)
ReportInv ==
    pc["telemetry"] = "build" /\ seen > 0 /\ report.sensors = seen =>
        Fsm!evaluate_faults(s_last_sensors) \subseteq report.faults

(* What the sensor faults of the event group are, between any two of the   *)
(* three calls of task_fsm.                                                *)
SensorFlags == flags \cap Fsm!SensorFaults
FlagsInv ==
    /\ pc["fsm"] = "set_flags" => prev_faults \cap Fsm!SensorFaults = SensorFlags
    /\ pc["fsm"] \in {"set_flags", "run"} /\ seen > 0 =>
           Fsm!evaluate_faults(s_last_sensors) \subseteq prev_faults
    /\ pc["fsm"] = "run" =>
           SensorFlags = (prev_faults \cap Fsm!SensorFaults) \cup new_faults
    /\ state_mutex = "fsm" /\ pc["fsm"] \in {"log", "logging", "unlock"} =>
           SensorFlags = Fsm!evaluate_faults(s_last_sensors)
    /\ SensorFlagsExact

FwInv == TypeOK /\ ControlInv /\ QueueInv /\ AgeInv /\ ReportInv /\ FlagsInv
USE DEF Tasks, QueueSize

(* The faults of a frame are sensor faults.                                *)
LEMMA FaultsOfFrame == \A s : Fsm!evaluate_faults(s) \subseteq Fsm!SensorFaults
BY DEF Fsm!evaluate_faults

(* At every moment the flags show the faults of s_last_sensors, and while  *)
(* task_fsm brings them up to date perhaps more.                           *)
LEMMA FlagsShowFaults ==
    ASSUME FwInv, seen > 0
    PROVE  Fsm!evaluate_faults(s_last_sensors) \subseteq SensorFlags
<1>1. CASE state_mutex = NoTask
  BY <1>1 DEF FwInv, FlagsInv, SensorFlagsExact, SensorFlags
<1>2. CASE state_mutex = "fsm"
  <2>1. pc["fsm"] \in {"set_flags", "run", "log", "logging", "unlock"}
    BY <1>2, NoTaskAssumption DEF FwInv, ControlInv
  <2> QED BY <1>2, <2>1, FaultsOfFrame DEF FwInv, FlagsInv, SensorFlags
<1> QED BY <1>1, <1>2 DEF FwInv, TypeOK

(* Every tick gets a frame, a new one or the last one again.               *)
LEMMA FrameTypeOK == TypeOK => Frame \in Fsm!Samples
BY FramesAssumption DEF TypeOK, Frame, Numbered, Fsm!TypeOK

(* A tick leaves the state machine well typed, ...                         *)
LEMMA TickTypeOK ==
    ASSUME Fsm!TypeOK, NEW s \in Fsm!Samples, s_last_sensors' = s,
           Fsm!fsm_tick(s, Fsm!evaluate_faults(s))
    PROVE  Fsm!TypeOK'
<1>1. fault_flags' = Fsm!evaluate_faults(s)
  BY DEF Fsm!fsm_tick
<1>2. \/ \E to \in Fsm!States, e \in Fsm!FsmEvents : Fsm!do_transition(to, e)
      \/ Fsm!NoTransition
  BY DEF Fsm!fsm_tick, Fsm!tick_switch, Fsm!States, Fsm!FsmEvents
<1>3. CASE Fsm!NoTransition
  BY <1>1, <1>3, FaultsOfFrame DEF Fsm!TypeOK, Fsm!NoTransition
<1>4. ASSUME NEW to \in Fsm!States, NEW e \in Fsm!FsmEvents, Fsm!do_transition(to, e)
      PROVE  Fsm!TypeOK'
  BY <1>1, <1>4, FaultsOfFrame DEF Fsm!TypeOK, Fsm!do_transition, Fsm!ChangeRecord,
     Fsm!ChangeRecords
<1> QED BY <1>2, <1>3, <1>4

(* ... and so does a command.                                              *)
LEMMA CommandTypeOK ==
    ASSUME Fsm!TypeOK, NEW e \in Fsm!FsmEvents, Fsm!fsm_command(e)
    PROVE  Fsm!TypeOK'
<1>1. Fsm!CommandTarget[e] \in Fsm!States
  BY DEF Fsm!fsm_command, Fsm!CommandTarget, Fsm!States
<1> QED BY <1>1 DEF Fsm!TypeOK, Fsm!fsm_command, Fsm!do_transition, Fsm!ChangeRecord,
          Fsm!ChangeRecords

(* task_sensor takes a frame in.                                           *)
LEMMA SensorFrameStep == ASSUME FwInv, NEW f \in Frames, sensor_frame(f) PROVE FwInv'
<1> USE DEF sensor_frame, Step, locks, ctx
<1>1. TypeOK'
  BY FramesAssumption, MaxFramesAssumption, HeadTailProperties
     DEF FwInv, TypeOK, QueueInv, Labels, Numbered, MustDrop, Fsm!TypeOK
<1>2. ControlInv'
  BY DEF FwInv, TypeOK, ControlInv
<1>3. QueueInv'
  BY <1>1, NoFrameAssumption DEF FwInv, TypeOK, QueueInv, QueueHoldsNewest, MustDrop, Numbered
<1>4. AgeInv'
  BY DEF FwInv, TypeOK, AgeInv, Numbered
<1>5. FlagsInv'
  BY DEF FwInv, TypeOK, FlagsInv, SensorFlags, SensorFlagsExact, new_faults, Frame
<1>6. ReportInv'
  BY DEF FwInv, TypeOK, ControlInv, ReportInv
<1> QED BY <1>1, <1>2, <1>3, <1>4, <1>5, <1>6 DEF FwInv

(* ... and puts it into the queue it has emptied.                          *)
LEMMA SensorPutStep == ASSUME FwInv, sensor_put PROVE FwInv'
<1> USE DEF sensor_put, QueueHasRoom, Step, locks, input, world, locals, ctx
<1>1. TypeOK'
  BY AppendProperties DEF FwInv, TypeOK, Labels, Fsm!TypeOK, QueueInv
<1>2. ControlInv'
  BY DEF FwInv, TypeOK, ControlInv
<1>3. QueueInv'
  BY DEF FwInv, TypeOK, ControlInv, QueueInv, QueueHoldsNewest
<1>4. AgeInv'
  BY DEF FwInv, TypeOK, ControlInv, AgeInv
<1>5. FlagsInv'
  BY DEF FwInv, TypeOK, ControlInv, FlagsInv, SensorFlags, SensorFlagsExact, new_faults,
     Frame
<1>6. ReportInv'
  BY DEF FwInv, TypeOK, ControlInv, ReportInv
<1> QED BY <1>1, <1>2, <1>3, <1>4, <1>5, <1>6 DEF FwInv

(* The comms watchdog only logs.                                           *)
LEMMA SensorWatchdogStep == ASSUME FwInv, sensor_watchdog PROVE FwInv'
<1> USE DEF sensor_watchdog, Step, locks, input, world, locals, ctx
<1>1. TypeOK'
  BY DEF FwInv, TypeOK, Labels, Fsm!TypeOK
<1>2. ControlInv'
  BY DEF FwInv, TypeOK, ControlInv
<1>3. QueueInv'
  BY DEF FwInv, TypeOK, ControlInv, QueueInv, QueueHoldsNewest
<1>4. AgeInv'
  BY DEF FwInv, TypeOK, ControlInv, AgeInv
<1>5. FlagsInv'
  BY DEF FwInv, TypeOK, ControlInv, FlagsInv, SensorFlags, SensorFlagsExact, new_faults,
     Frame
<1>6. ReportInv'
  BY DEF FwInv, TypeOK, ControlInv, ReportInv
<1> QED BY <1>1, <1>2, <1>3, <1>4, <1>5, <1>6 DEF FwInv

(* task_fsm takes the only frame out of the queue.                         *)
LEMMA FsmGetStep == ASSUME FwInv, fsm_get PROVE FwInv'
<1> USE DEF fsm_get, Step, locks, input, world, locals, ctx
<1>1. TypeOK'
  BY HeadTailProperties DEF FwInv, TypeOK, Labels, Fsm!TypeOK
<1>2. ControlInv'
  BY DEF FwInv, TypeOK, ControlInv
<1>3. QueueInv'
  BY DEF FwInv, TypeOK, ControlInv, QueueInv, QueueHoldsNewest
<1>4. AgeInv'
  BY HeadTailProperties DEF FwInv, TypeOK, AgeInv, QueueInv,
     QueueHoldsNewest, Numbered
<1>5. FlagsInv'
  BY DEF FwInv, TypeOK, ControlInv, FlagsInv, SensorFlags, SensorFlagsExact, new_faults,
     Frame
<1>6. ReportInv'
  BY DEF FwInv, TypeOK, ControlInv, ReportInv
<1> QED BY <1>1, <1>2, <1>3, <1>4, <1>5, <1>6 DEF FwInv

(* It takes the state mutex and reads the flags, ...                       *)
LEMMA FsmLockStep == ASSUME FwInv, fsm_lock PROVE FwInv'
<1> USE DEF fsm_lock, Step, locks, input, world, locals, ctx
<1>1. TypeOK'
  BY DEF FwInv, TypeOK, Labels, Fsm!TypeOK
<1>2. ControlInv'
  BY DEF FwInv, TypeOK, ControlInv
<1>3. QueueInv'
  BY DEF FwInv, TypeOK, ControlInv, QueueInv, QueueHoldsNewest
<1>4. AgeInv'
  BY DEF FwInv, TypeOK, ControlInv, AgeInv
<1>5. FlagsInv'
  BY DEF FwInv, TypeOK, ControlInv, FlagsInv, SensorFlags, SensorFlagsExact, new_faults,
     Frame
<1>6. ReportInv'
  BY DEF FwInv, TypeOK, ControlInv, ReportInv
<1> QED BY <1>1, <1>2, <1>3, <1>4, <1>5, <1>6 DEF FwInv

(* ... sets the flags of the frame that were down, ...                     *)
LEMMA FsmSetFlagsStep == ASSUME FwInv, fsm_set_flags PROVE FwInv'
<1> USE DEF fsm_set_flags, Step, locks, input, world, locals, ctx
<1>1. TypeOK'
  BY FaultsOfFrame DEF FwInv, TypeOK, Labels, Fsm!TypeOK, Faults, new_faults
<1>2. ControlInv'
  BY DEF FwInv, TypeOK, ControlInv
<1>3. QueueInv'
  BY DEF FwInv, TypeOK, ControlInv, QueueInv, QueueHoldsNewest
<1>4. AgeInv'
  BY DEF FwInv, TypeOK, ControlInv, AgeInv
<1>5. FlagsInv'
  <2>1. /\ state_mutex = "fsm" /\ UNCHANGED <<state_mutex, new_faults, prev_faults>>
        /\ pc'["fsm"] = "run"
    BY DEF FwInv, TypeOK, ControlInv, new_faults, Frame
  <2>2. SensorFlags' = (prev_faults \cap Fsm!SensorFaults) \cup new_faults
    BY FaultsOfFrame DEF FwInv, FlagsInv, SensorFlags, new_faults
  <2>3. pc["fsm"] = "set_flags" /\ UNCHANGED <<seen, s_last_sensors>>
    OBVIOUS
  <2> QED BY <2>1, <2>2, <2>3, NoTaskAssumption DEF FwInv, FlagsInv, SensorFlagsExact
<1>6. ReportInv'
  BY DEF FwInv, TypeOK, ControlInv, ReportInv
<1> QED BY <1>1, <1>2, <1>3, <1>4, <1>5, <1>6 DEF FwInv

(* It releases the mutex.                                                  *)
LEMMA FsmUnlockStep == ASSUME FwInv, fsm_unlock PROVE FwInv'
<1> USE DEF fsm_unlock, Step, locks, input, world, locals, ctx
<1>1. TypeOK'
  BY DEF FwInv, TypeOK, Labels, Fsm!TypeOK
<1>2. ControlInv'
  BY DEF FwInv, TypeOK, ControlInv
<1>3. QueueInv'
  BY DEF FwInv, TypeOK, ControlInv, QueueInv, QueueHoldsNewest
<1>4. AgeInv'
  BY DEF FwInv, TypeOK, ControlInv, AgeInv
<1>5. FlagsInv'
  BY DEF FwInv, TypeOK, ControlInv, FlagsInv, SensorFlags, SensorFlagsExact, new_faults,
     Frame
<1>6. ReportInv'
  BY DEF FwInv, TypeOK, ControlInv, ReportInv
<1> QED BY <1>1, <1>2, <1>3, <1>4, <1>5, <1>6 DEF FwInv

(* task_telemetry reads the sensors, the state and the flags, in that      *)
(* order.                                                                  *)
LEMMA TelemetryStep == ASSUME FwInv, Telemetry PROVE FwInv'
<1> USE DEF Telemetry, telemetry_read, telemetry_flags, telemetry_drain, NoReport, Step, locks, input, world, locals, ctx
<1>1. TypeOK'
  <2>1. report' \in [sensors : 0 .. MaxFrames, state : 0 .. MaxFrames,
                     faults : SUBSET Fsm!SensorFaults]
    BY MaxFramesAssumption DEF FwInv, TypeOK
  <2>2. UNCHANGED <<locks, input, world, flags, incoming, fresh, prev_faults, comms_due, ctx>>
    OBVIOUS
  <2>3. pc' \in [Tasks -> Labels]
    BY DEF FwInv, TypeOK, Labels
  <2> QED BY <2>1, <2>2, <2>3 DEF FwInv, TypeOK, Fsm!TypeOK
<1>2. ControlInv'
  BY DEF FwInv, TypeOK, ControlInv
<1>3. QueueInv'
  BY DEF FwInv, TypeOK, ControlInv, QueueInv, QueueHoldsNewest
<1>4. AgeInv'
  BY DEF FwInv, TypeOK, ControlInv, AgeInv
<1>5. FlagsInv'
  BY DEF FwInv, TypeOK, ControlInv, FlagsInv, SensorFlags, SensorFlagsExact, new_faults,
     Frame
<1>6. ReportInv'
  <2>1. UNCHANGED <<seen, s_last_sensors>>
    OBVIOUS
  <2>2. CASE telemetry_flags("flags", "build")
    <3>1. report'.faults = SensorFlags
      BY <2>2 DEF FwInv, TypeOK, SensorFlags
    <3> QED BY <2>1, <3>1, FlagsShowFaults DEF ReportInv
  <2>3. CASE ~telemetry_flags("flags", "build")
    BY <2>3 DEF FwInv, TypeOK, ControlInv, ReportInv
  <2> QED BY <2>2, <2>3
<1> QED BY <1>1, <1>2, <1>3, <1>4, <1>5, <1>6 DEF FwInv

(* task_health touches no flag of a sensor.                                *)
LEMMA HealthStep == ASSUME FwInv, Health PROVE FwInv'
<1> USE DEF Health, health_wake, health_comms, health_get_state, Bit, Step, locks, input, world,
        locals, ctx
<1>1. TypeOK'
  <2>1. flags' \subseteq Faults
    BY DEF FwInv, TypeOK, Faults
  <2>2. pc' \in [Tasks -> Labels]
    BY DEF FwInv, TypeOK, Labels
  <2>3. comms_due' \in {"no", "yes", "either"}
    BY DEF FwInv, TypeOK
  <2>4. UNCHANGED <<locks, input, world, incoming, fresh, prev_faults, report, ctx>>
    OBVIOUS
  <2> QED BY <2>1, <2>2, <2>3, <2>4 DEF FwInv, TypeOK, Fsm!TypeOK
<1>2. ControlInv'
  BY DEF FwInv, TypeOK, ControlInv
<1>3. QueueInv'
  BY DEF FwInv, TypeOK, ControlInv, QueueInv, QueueHoldsNewest
<1>4. AgeInv'
  BY DEF FwInv, TypeOK, ControlInv, AgeInv
<1>5. FlagsInv'
  <2>1. SensorFlags' = SensorFlags
    BY DEF SensorFlags, Fsm!SensorFaults
  <2>2. /\ UNCHANGED <<state_mutex, prev_faults, seen, s_last_sensors, fresh>>
        /\ pc'["fsm"] = pc["fsm"]
    BY DEF FwInv, TypeOK
  <2> QED BY <2>1, <2>2 DEF FwInv, FlagsInv, SensorFlags, SensorFlagsExact, new_faults, Frame
<1>6. ReportInv'
  BY DEF FwInv, TypeOK, ControlInv, ReportInv
<1> QED BY <1>1, <1>2, <1>3, <1>4, <1>5, <1>6 DEF FwInv

(* A task that logs keeps the state mutex if it had it.                    *)
LEMMA LogStep == ASSUME FwInv, NEW t \in Tasks, bb_acquire(t) \/ bb_release(t) PROVE FwInv'
<1> USE DEF bb_acquire, bb_release, Step, locks, input, world, locals, ctx
<1>1. TypeOK'
  BY DEF FwInv, TypeOK, Labels, Fsm!TypeOK
<1>2. ControlInv'
  <2>1. CASE bb_acquire(t)
    BY <2>1 DEF FwInv, TypeOK, ControlInv
  <2>2. CASE bb_release(t)
    BY <2>2, NoTaskAssumption DEF FwInv, TypeOK, ControlInv
  <2> QED BY <2>1, <2>2
<1>3. QueueInv'
  BY DEF FwInv, TypeOK, ControlInv, QueueInv, QueueHoldsNewest
<1>4. AgeInv'
  BY DEF FwInv, TypeOK, ControlInv, AgeInv
<1>5. FlagsInv'
  BY DEF FwInv, TypeOK, ControlInv, FlagsInv, SensorFlags, SensorFlagsExact, new_faults,
     Frame
<1>6. ReportInv'
  BY DEF FwInv, TypeOK, ControlInv, ReportInv
<1> QED BY <1>1, <1>2, <1>3, <1>4, <1>5, <1>6 DEF FwInv

(* The line and the stacks are read, not trusted.                          *)
LEMMA WorldStep == ASSUME FwInv, LineQuiet \/ StackRunsLow \/ UNCHANGED vars PROVE FwInv'
<1> USE DEF LineQuiet, StackRunsLow, vars, Step, locks, input, world, locals, ctx
<1>1. TypeOK'
  BY DEF FwInv, TypeOK, Labels, Fsm!TypeOK
<1>2. ControlInv'
  BY DEF FwInv, TypeOK, ControlInv
<1>3. QueueInv'
  BY DEF FwInv, TypeOK, ControlInv, QueueInv, QueueHoldsNewest
<1>4. AgeInv'
  BY DEF FwInv, TypeOK, ControlInv, AgeInv
<1>5. FlagsInv'
  BY DEF FwInv, TypeOK, ControlInv, FlagsInv, SensorFlags, SensorFlagsExact, new_faults,
     Frame
<1>6. ReportInv'
  BY DEF FwInv, TypeOK, ControlInv, ReportInv
<1> QED BY <1>1, <1>2, <1>3, <1>4, <1>5, <1>6 DEF FwInv

(* ... clears those that are up no longer, and ticks.                      *)
LEMMA FsmRunStep == ASSUME FwInv, fsm_run PROVE FwInv'
<1> USE DEF fsm_run, Step, locks, input, world, locals, ctx
<1>1. TypeOK'
  <2>1. Fsm!TypeOK'
    BY TickTypeOK, FrameTypeOK DEF FwInv, TypeOK, new_faults
  <2>2. pc' \in [Tasks -> Labels] /\ flags' \subseteq Faults /\ seen' \in 0 .. MaxFrames
    BY DEF FwInv, TypeOK, Labels, Numbered
  <2> QED BY <2>1, <2>2 DEF FwInv, TypeOK
<1>2. ControlInv'
  BY DEF FwInv, TypeOK, ControlInv
<1>3. QueueInv'
  BY DEF FwInv, TypeOK, ControlInv, QueueInv, QueueHoldsNewest
<1>4. AgeInv'
  BY DEF FwInv, TypeOK, ControlInv, AgeInv
<1>5. FlagsInv'
  <2>1. /\ state_mutex = "fsm" /\ UNCHANGED <<state_mutex, prev_faults>>
        /\ pc'["fsm"] \in {"log", "unlock"} /\ s_last_sensors' = Frame
    BY DEF FwInv, TypeOK, ControlInv
  <2>2. SensorFlags' = new_faults
    BY FaultsOfFrame DEF FwInv, FlagsInv, SensorFlags, new_faults, Cleared
  <2> QED BY <2>1, <2>2, NoTaskAssumption DEF FlagsInv, SensorFlagsExact, new_faults
<1>6. ReportInv'
  <2>1. CASE fresh = NoFrame
    BY <2>1 DEF FwInv, TypeOK, ReportInv, Frame
  <2>2. CASE fresh # NoFrame
    <3>1. seen < fresh.n /\ seen' = fresh.n /\ fresh.n \in Nat /\ seen \in Nat
      BY <2>2 DEF FwInv, TypeOK, AgeInv, Numbered
    <3>2. pc["telemetry"] # "idle" => report.sensors <= seen /\ report.sensors \in Nat
      BY DEF FwInv, TypeOK, AgeInv
    <3>3. report' = report /\ pc'["telemetry"] = pc["telemetry"]
      BY DEF FwInv, TypeOK
    <3> QED BY <3>1, <3>2, <3>3 DEF ReportInv
  <2> QED BY <2>1, <2>2
<1> QED BY <1>1, <1>2, <1>3, <1>4, <1>5, <1>6 DEF FwInv

(* A command changes the flight state and nothing else.                    *)
LEMMA CommandStep == ASSUME FwInv, NEW e \in Fsm!FsmEvents, gcs_command(e) PROVE FwInv'
<1> USE DEF gcs_command, Step, locks, input, world, locals, ctx
<1>1. TypeOK'
  <2>1. Fsm!TypeOK'
    BY CommandTypeOK DEF FwInv, TypeOK
  <2> QED BY <2>1 DEF FwInv, TypeOK
<1>2. ControlInv'
  BY DEF FwInv, TypeOK, ControlInv
<1>3. QueueInv'
  BY DEF FwInv, TypeOK, ControlInv, QueueInv, QueueHoldsNewest
<1>4. AgeInv'
  BY DEF FwInv, TypeOK, ControlInv, AgeInv
<1>5. FlagsInv'
  BY DEF FwInv, FlagsInv, SensorFlags, SensorFlagsExact, new_faults, Frame, Fsm!fsm_command
<1>6. ReportInv'
  BY DEF FwInv, TypeOK, ControlInv, ReportInv, Fsm!fsm_command
<1> QED BY <1>1, <1>2, <1>3, <1>4, <1>5, <1>6 DEF FwInv

(* The inductive step: every task, the world and the ground station.       *)
LEMMA FwStep == FwInv /\ [ApiNext]_vars => FwInv'
<1> SUFFICES ASSUME FwInv, [ApiNext]_vars PROVE FwInv'
  OBVIOUS
<1>1. CASE LineQuiet \/ StackRunsLow \/ UNCHANGED vars
  BY <1>1, WorldStep
<1>2. ASSUME NEW e \in Fsm!FsmEvents, gcs_command(e) PROVE FwInv'
  BY <1>2, CommandStep
<1>3. ASSUME NEW t \in Tasks, TaskStep(t) PROVE FwInv'
  <2>1. CASE Sensor
    BY <2>1, SensorFrameStep, SensorPutStep, SensorWatchdogStep DEF Sensor
  <2>2. CASE FsmTask
    BY <2>2, FsmGetStep, FsmLockStep, FsmSetFlagsStep, FsmRunStep, FsmUnlockStep DEF FsmTask
  <2>3. CASE bb_acquire(t) \/ bb_release(t)
    BY <2>3, LogStep
  <2> QED BY <1>3, <2>1, <2>2, <2>3, TelemetryStep, HealthStep DEF TaskStep
<1> QED BY <1>1, <1>2, <1>3 DEF ApiNext, Next

(* The inductive invariant of the four tasks.                              *)
THEOREM FwInvariant == ApiSpec => []FwInv
<1>1. Init => FwInv
  <2> SUFFICES ASSUME Init PROVE FwInv
    OBVIOUS
  <2> USE DEF Init, Fsm!fsm_init
  <2>1. TypeOK
    <3>1. Fsm!TypeOK
      BY DEF Fsm!TypeOK, Fsm!States, Fsm!FsmEvents, Fsm!Samples, Fsm!ZeroSample,
         Fsm!NoChange, Fsm!ChangeRecords
    <3>2. pc \in [Tasks -> Labels]
      BY DEF Labels
    <3>3. queue \in Seq(Numbered) /\ Len(queue) <= QueueSize
      BY EmptySeq
    <3>4. report \in [sensors : 0 .. MaxFrames, state : 0 .. MaxFrames,
                      faults : SUBSET Fsm!SensorFaults]
      BY MaxFramesAssumption DEF NoReport
    <3> QED BY <3>1, <3>2, <3>3, <3>4, MaxFramesAssumption DEF TypeOK, NoReport
  <2>2. ControlInv /\ QueueInv /\ AgeInv /\ ReportInv
    BY DEF ControlInv, QueueInv, QueueHoldsNewest, AgeInv, ReportInv
  <2>3. FlagsInv
    BY NoTaskAssumption DEF FlagsInv, SensorFlagsExact
  <2> QED BY <2>1, <2>2, <2>3 DEF FwInv
<1> QED BY <1>1, FwStep, PTL DEF ApiSpec, ApiNext

(* Every variable of the tasks keeps its type; the queue its capacity.     *)
THEOREM FirmwareTypeOK == ApiSpec => []TypeOK
<1>1. FwInv => TypeOK
  BY DEF FwInv
<1> QED BY <1>1, FwInvariant, PTL

(* No tick runs on a backlog: the queue holds at most the newest frame.    *)
THEOREM QueueIsFresh == ApiSpec => []QueueHoldsNewest
<1>1. FwInv => QueueHoldsNewest
  BY DEF FwInv, QueueInv
<1> QED BY <1>1, FwInvariant, PTL

(* The event group agrees with s_last_sensors whenever the mutex is free.  *)
THEOREM FlagsAreExact == ApiSpec => []SensorFlagsExact
<1>1. FwInv => SensorFlagsExact
  BY DEF FwInv, FlagsInv
<1> QED BY <1>1, FwInvariant, PTL

(* A telemetry frame pairs sensor values with the state they led to, or a  *)
(* newer one, and with flags that show every fault of them, unless a newer *)
(* frame has been ticked since.                                            *)
THEOREM TelemetryIsCoherent == ApiSpec => []TelemetryCoherent
<1>1. FwInv => TelemetryCoherent
  BY DEF FwInv, TypeOK, AgeInv, ReportInv, TelemetryCoherent
<1> QED BY <1>1, FwInvariant, PTL

(* Only fsm_run and a command touch the state machine: the first is a tick *)
(* of FlightFsm, the second its command.                                   *)
LEMMA StepRefines == FwInv /\ [ApiNext]_vars => [Fsm!Next]_(Fsm!vars)
<1> SUFFICES ASSUME FwInv, [ApiNext]_vars PROVE [Fsm!Next]_(Fsm!vars)
  OBVIOUS
<1> USE DEF ctx, Fsm!vars
<1>1. CASE LineQuiet \/ StackRunsLow \/ UNCHANGED vars
  BY <1>1 DEF LineQuiet, StackRunsLow, vars
<1>2. ASSUME NEW e \in Fsm!FsmEvents, gcs_command(e) PROVE Fsm!Next
  BY <1>2 DEF gcs_command, Fsm!Next
<1>3. ASSUME NEW t \in Tasks, TaskStep(t) PROVE [Fsm!Next]_(Fsm!vars)
  <2>1. CASE fsm_run
    <3>1. Frame \in Fsm!Samples
      BY FrameTypeOK DEF FwInv
    <3>2. Fsm!Tick(Frame)
      BY <2>1 DEF fsm_run, new_faults, Fsm!Tick
    <3> QED BY <3>1, <3>2 DEF Fsm!Next
  <2>2. CASE Sensor \/ Telemetry \/ Health \/ bb_acquire(t) \/ bb_release(t)
    BY <2>2 DEF Sensor, sensor_put, sensor_watchdog, sensor_frame, Telemetry, telemetry_read,
       telemetry_flags, telemetry_drain, Health, health_wake, health_comms, health_get_state, bb_acquire,
       bb_release
  <2>3. CASE fsm_get \/ fsm_lock \/ fsm_set_flags \/ fsm_unlock
    BY <2>3 DEF fsm_get, fsm_lock, fsm_set_flags, fsm_unlock
  <2> QED BY <1>3, <2>1, <2>2, <2>3 DEF TaskStep, FsmTask
<1> QED BY <1>1, <1>2, <1>3 DEF ApiNext, Next

(* The four tasks, whatever the schedule, implement FlightFsm.             *)
THEOREM TasksRefineFsm == ApiSpec => RefinesFsm
<1>1. Init => Fsm!fsm_init
  BY DEF Init
<1> QED BY <1>1, FwInvariant, StepRefines, PTL DEF ApiSpec, ApiNext, RefinesFsm, Fsm!Spec

(* What FlightFsmProofs shows of the state machine alone is carried over   *)
(* to the firmware.  Its module has an instance of its own here, and the   *)
(* two instances, of the same module with the same variables, agree.       *)
FsmP == INSTANCE FlightFsmProofs

LEMMA SameMachine ==
    /\ Fsm!fsm_init => FsmP!fsm_init
    /\ [Fsm!Next]_(Fsm!vars) => [FsmP!Next]_(FsmP!vars)
<1> USE DEF Fsm!vars, FsmP!vars, Fsm!FsmEvents, FsmP!FsmEvents, Fsm!Samples, FsmP!Samples,
        Fsm!do_transition, FsmP!do_transition, Fsm!ChangeRecord, FsmP!ChangeRecord
<1>1. Fsm!fsm_init => FsmP!fsm_init
  BY DEF Fsm!fsm_init, FsmP!fsm_init, Fsm!ZeroSample, FsmP!ZeroSample, Fsm!NoChange,
     FsmP!NoChange
<1>2. ASSUME NEW e \in Fsm!FsmEvents, Fsm!fsm_command(e) PROVE FsmP!Next
  BY <1>2 DEF FsmP!Next, Fsm!fsm_command, FsmP!fsm_command, Fsm!CommandTarget,
     FsmP!CommandTarget, Fsm!transition_legal, FsmP!transition_legal, Fsm!TRANSITIONS,
     FsmP!TRANSITIONS
<1>3. ASSUME NEW s \in Fsm!Samples, Fsm!Tick(s) PROVE FsmP!Next
  <2>1. Fsm!evaluate_faults(s) = FsmP!evaluate_faults(s)
    BY DEF Fsm!evaluate_faults, FsmP!evaluate_faults, Fsm!SensorFaults, FsmP!SensorFaults
  <2>2. FsmP!Tick(s)
    BY <1>3, <2>1 DEF Fsm!Tick, FsmP!Tick, Fsm!fsm_tick, FsmP!fsm_tick, Fsm!tick_switch,
       FsmP!tick_switch, Fsm!FaultPriority, FsmP!FaultPriority, Fsm!guard_any_to_fault,
       FsmP!guard_any_to_fault, Fsm!guard_init_to_preflight, FsmP!guard_init_to_preflight,
       Fsm!guard_armed_to_flying, FsmP!guard_armed_to_flying, Fsm!guard_flying_to_landing,
       FsmP!guard_flying_to_landing, Fsm!NoTransition, FsmP!NoTransition
  <2> QED BY <2>2 DEF FsmP!Next
<1> QED BY <1>1, <1>2, <1>3 DEF Fsm!Next

LEMMA FirmwareRunsMachine == ApiSpec => FsmP!Spec
<1>1. Fsm!Spec => FsmP!Spec
  BY SameMachine, PTL DEF Fsm!Spec, FsmP!Spec
<1> QED BY <1>1, TasksRefineFsm, PTL DEF RefinesFsm

(* In the firmware, too, no transition leaves the table, ...               *)
THEOREM FirmwareTransitionsAreLegal == ApiSpec => Fsm!LegalTransitions
<1>1. FsmP!LegalTransitions => Fsm!LegalTransitions
  BY PTL DEF FsmP!LegalTransitions, Fsm!LegalTransitions, FsmP!vars, Fsm!vars,
     FsmP!TRANSITIONS, Fsm!TRANSITIONS
<1> QED BY <1>1, FirmwareRunsMachine, FsmP!TransitionsAreLegal, PTL

(* ... no liftoff is recognised without an arm command before it, ...      *)
THEOREM FirmwareTakeoffIsCommanded == ApiSpec => Fsm!NoAutonomousTakeoff
<1>1. FsmP!NoAutonomousTakeoff => Fsm!NoAutonomousTakeoff
  BY PTL DEF FsmP!NoAutonomousTakeoff, Fsm!NoAutonomousTakeoff, FsmP!vars, Fsm!vars
<1> QED BY <1>1, FirmwareRunsMachine, FsmP!TakeoffIsCommanded, PTL

(* Until a frame has been ticked the machine waits in INIT: the zeroed     *)
(* s_last_sensors does not pass its self test.                             *)
SeenInv == seen = 0 => current_state = "INIT" /\ s_last_sensors = Fsm!ZeroSample

LEMMA SeenStep == FwInv /\ SeenInv /\ [ApiNext]_vars => SeenInv'
<1> SUFFICES ASSUME FwInv, SeenInv, [ApiNext]_vars PROVE SeenInv'
  OBVIOUS
<1>1. CASE fsm_run
  <2> SUFFICES ASSUME seen' = 0
               PROVE  current_state' = "INIT" /\ s_last_sensors' = Fsm!ZeroSample
    BY DEF SeenInv
  <2>1. fresh = NoFrame /\ seen = 0
    BY <1>1 DEF fsm_run, FwInv, TypeOK, Numbered
  <2>2. current_state = "INIT" /\ Frame = Fsm!ZeroSample
    BY <2>1 DEF SeenInv, Frame
  <2>3. ~Fsm!FaultPriority(new_faults) /\ ~Fsm!guard_init_to_preflight(Frame)
    BY <2>2 DEF Fsm!FaultPriority, Fsm!guard_init_to_preflight, Fsm!ZeroSample
  <2>4. Fsm!NoTransition
    BY <1>1, <2>2, <2>3 DEF fsm_run, Fsm!fsm_tick, Fsm!tick_switch
  <2> QED BY <1>1, <2>2, <2>4 DEF fsm_run, Fsm!NoTransition
<1>2. ASSUME NEW e \in Fsm!FsmEvents, gcs_command(e) PROVE SeenInv'
  BY <1>2 DEF gcs_command, SeenInv, Fsm!fsm_command, Fsm!transition_legal, Fsm!TRANSITIONS,
     Fsm!CommandTarget
<1>3. CASE UNCHANGED ctx
  BY <1>3 DEF ctx, SeenInv
<1>4. ApiNext => fsm_run \/ (\E e \in Fsm!FsmEvents : gcs_command(e)) \/ UNCHANGED ctx
  BY DEF ApiNext, Next, TaskStep, LineQuiet, StackRunsLow, Sensor, sensor_put, sensor_watchdog,
     sensor_frame, Telemetry, telemetry_read, telemetry_flags, telemetry_drain, Health, health_wake,
     health_comms, health_get_state, bb_acquire, bb_release, FsmTask, fsm_get, fsm_lock,
     fsm_set_flags, fsm_unlock
<1> QED BY <1>1, <1>2, <1>3, <1>4 DEF vars

(* ... and whenever no tick is under way, a vehicle in the air has no      *)
(* sensor fault up in the event group either.                              *)
AirborneFlagsClear ==
    state_mutex = NoTask /\ current_state \in {"FLYING", "LANDING"} => SensorFlags = {}

(* The tasks keep AirborneFlagsClear, under every schedule.                *)
THEOREM FirmwareFlightIsSound == ApiSpec => []AirborneFlagsClear
<1>1. Init => SeenInv
  BY DEF Init, SeenInv, Fsm!fsm_init
<1>2. FsmP!InFlightSound /\ FwInv /\ SeenInv => AirborneFlagsClear
  <2> SUFFICES ASSUME FsmP!InFlightSound, FwInv, SeenInv, state_mutex = NoTask,
                      current_state \in {"FLYING", "LANDING"}
               PROVE  SensorFlags = {}
    BY DEF AirborneFlagsClear
  <2>1. seen > 0
    BY DEF SeenInv, FwInv, TypeOK
  <2>2. SensorFlags = Fsm!evaluate_faults(s_last_sensors)
    BY <2>1 DEF FwInv, FlagsInv, SensorFlagsExact, SensorFlags
  <2>3. Fsm!evaluate_faults(s_last_sensors) = FsmP!evaluate_faults(s_last_sensors)
    BY DEF Fsm!evaluate_faults, FsmP!evaluate_faults, Fsm!SensorFaults, FsmP!SensorFaults
  <2> QED BY <2>2, <2>3 DEF FsmP!InFlightSound
<1> QED BY <1>1, <1>2, SeenStep, FirmwareRunsMachine, FsmP!FlightIsSound, FwInvariant, PTL
    DEF ApiSpec, ApiNext

=============================================================================
