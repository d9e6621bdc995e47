------------------------------ MODULE Firmware ------------------------------
(***************************************************************************)
(* The four FreeRTOS tasks of the flight computer and what they share: the *)
(* sensor queue, the state mutex, the black box mutex and the event group  *)
(* of fault flags.                                                         *)
(*                                                                         *)
(* Each task is a program counter; a step ends where another task could    *)
(* run and see a difference.  What the state mutex protects is updated in  *)
(* one step while it is held; every access to the event group, which no    *)
(* mutex protects, begins or ends a step.  Any task may run at any time:   *)
(* this covers the schedules of the two FreeRTOS priorities and more.      *)
(*                                                                         *)
(* Definitions introduced as BUG are not part of the model: each is a form *)
(* of the definition below it that some property must reject.              *)
(***************************************************************************)
EXTENDS Naturals, Sequences

CONSTANTS Frames,      \* the sensor frames that can arrive
          MaxFrames,   \* bound: frames handled in a behaviour
          NoTask, NoFrame

VARIABLES
    pc,                \* where each task is
    state_mutex, bb_mutex,
    queue,             \* g_sensor_queue: numbered frames
    handled,           \* sensor frames handled so far
    rx,                \* s_last_packet_ms: never set, in time, or too old
    stack_low,         \* some stack high-water mark is critical
    flags,             \* g_fault_flags
    incoming,          \* task_sensor: the frame being handled
    fresh, prev_faults,         \* task_fsm: its locals
    comms_due,         \* task_health: what its reading of the clock will say
    report,            \* task_telemetry: the numbers of the frame and the
                       \* state it reports, and the sensor faults
    seen,              \* the number of the frame in s_last_sensors
    current_state, previous_state, last_event, fault_flags,
    s_last_sensors, bb_change   \* FlightFsm

Fsm == INSTANCE FlightFsm

ctx    == <<current_state, previous_state, last_event, fault_flags,
            s_last_sensors, bb_change, seen>>
locks  == <<state_mutex, bb_mutex>>
locals == <<incoming, fresh, prev_faults, comms_due, report>>
world  == <<rx, stack_low>>
input  == <<queue, handled>>
vars   == <<pc, locks, input, world, flags, locals, ctx>>

Tasks    == {"sensor", "fsm", "telemetry", "health"}
Faults   == Fsm!SensorFaults \cup {"COMMS_TIMEOUT", "STACK_OVERFLOW"}
Numbered == [n : 1 .. MaxFrames, s : Frames]
QueueSize == 4
NoReport == [sensors |-> 0, state |-> 0, faults |-> {}]

ASSUME FramesAssumption == Frames \subseteq Fsm!Samples
ASSUME MaxFramesAssumption == MaxFrames \in Nat
ASSUME NoTaskAssumption == NoTask \notin Tasks
ASSUME NoFrameAssumption == NoFrame \notin Numbered

(* A step of task t from one place of its loop to another.                 *)
Step(t, here, there) == pc[t] = here /\ pc' = [pc EXCEPT ![t] = there]

(* main creates the objects and the tasks; task_sensor logs the boot       *)
(* before it enters its loop.                                              *)
Init ==
    /\ pc = [t \in Tasks |-> IF t = "sensor" THEN "log" ELSE "idle"]
    /\ state_mutex = NoTask /\ bb_mutex = NoTask
    /\ queue = <<>> /\ handled = 0 /\ seen = 0
    /\ rx = "never" /\ stack_low = FALSE
    /\ flags = {}
    /\ incoming = NoFrame /\ fresh = NoFrame /\ prev_faults = {}
    /\ comms_due = "no"
    /\ report = NoReport
    /\ Fsm!fsm_init
-----------------------------------------------------------------------------
(* blackbox_log in task t: wait for the mutex, write, release.             *)
bb_acquire(t) ==
    /\ Step(t, "log", "logging")
    /\ bb_mutex = NoTask
    /\ bb_mutex' = t
    /\ UNCHANGED <<state_mutex, input, world, flags, locals, ctx>>
bb_release(t) ==
    /\ Step(t, "logging", IF state_mutex = t THEN "unlock" ELSE "idle")
    /\ bb_mutex' = NoTask
    /\ UNCHANGED <<state_mutex, input, world, flags, locals, ctx>>
-----------------------------------------------------------------------------
(* task_sensor finds a sensor frame in the parser's context, which the     *)
(* interrupt goes on filling, so any frame may be found: it stamps the     *)
(* time and drops a queued frame whenever there is one, although the       *)
(* comment beside it says "if full", ...  BUG: it drops none.              *)
MustDropNone == FALSE
MustDrop == Len(queue) > 0
sensor_frame(f) ==
    /\ Step("sensor", "idle", "put")
    /\ handled < MaxFrames
    /\ handled' = handled + 1
    /\ incoming' = [n |-> handled + 1, s |-> f]
    /\ rx' = "fresh"
    /\ comms_due' = IF pc["health"] = "idle" THEN comms_due ELSE "either"
    /\ queue' = IF MustDrop THEN Tail(queue) ELSE queue
    /\ UNCHANGED <<locks, stack_low, flags, fresh, prev_faults, report, ctx>>

(* ... and puts the frame in, which fails when the queue is full.  BUG:    *)
(* the oldest frame is dropped after the put, not before it.               *)
QueueHasRoom == Len(queue) < QueueSize
sensor_put_drops ==
    /\ Step("sensor", "put", "idle")
    /\ queue' = IF QueueHasRoom THEN Tail(Append(queue, incoming)) ELSE Tail(queue)
    /\ incoming' = NoFrame
    /\ UNCHANGED <<locks, handled, world, flags, fresh, prev_faults, comms_due,
                   report, ctx>>
sensor_put ==
    /\ Step("sensor", "put", "idle")
    /\ queue' = IF QueueHasRoom THEN Append(queue, incoming) ELSE queue
    /\ incoming' = NoFrame
    /\ UNCHANGED <<locks, handled, world, flags, fresh, prev_faults, comms_due,
                   report, ctx>>

(* Without a sensor frame (none, a heartbeat, another type, too short a    *)
(* payload) only the comms watchdog may act: it logs, at most every 2 s.   *)
sensor_watchdog ==
    /\ Step("sensor", "idle", "log")
    /\ rx = "old"
    /\ UNCHANGED <<locks, input, world, flags, locals, ctx>>
-----------------------------------------------------------------------------
(* task_fsm pulls a frame without waiting ...                              *)
fsm_get ==
    /\ Step("fsm", "idle", "lock")
    /\ fresh' = IF queue # <<>> THEN Head(queue) ELSE NoFrame
    /\ queue' = IF queue # <<>> THEN Tail(queue) ELSE queue
    /\ UNCHANGED <<locks, handled, world, flags, incoming, prev_faults, comms_due,
                   report, ctx>>

(* The frame of this tick and its faults; s_last_sensors itself, which is  *)
(* protected, is written in fsm_run.  BUG: flags already up count as the   *)
(* faults of the frame.                                                    *)
Frame == IF fresh = NoFrame THEN s_last_sensors ELSE fresh.s
new_faults_merged == Fsm!evaluate_faults(Frame) \cup prev_faults
new_faults == Fsm!evaluate_faults(Frame)

(* ... takes the state mutex and syncs the event group with the faults of  *)
(* the frame in three calls: get, set, clear.                              *)
fsm_lock ==
    /\ Step("fsm", "lock", "set_flags")
    /\ state_mutex = NoTask
    /\ state_mutex' = "fsm"
    /\ prev_faults' = flags
    /\ UNCHANGED <<bb_mutex, input, world, flags, incoming, fresh, comms_due,
                   report, ctx>>
fsm_set_flags ==
    /\ Step("fsm", "set_flags", "run")
    /\ flags' = flags \cup (new_faults \ prev_faults)
    /\ UNCHANGED <<locks, input, world, locals, ctx>>

(* Clear, then fsm_tick, all under the state mutex; a transition is logged *)
(* before the release.  BUG: no flag is ever cleared.                      *)
ClearedNothing == {}
Cleared == prev_faults \ new_faults
fsm_run ==
    /\ flags' = flags \ Cleared
    /\ s_last_sensors' = Frame
    /\ seen' = IF fresh = NoFrame THEN seen ELSE fresh.n
    /\ Fsm!fsm_tick(Frame, new_faults)
    /\ Step("fsm", "run", IF current_state' # current_state THEN "log" ELSE "unlock")
    /\ UNCHANGED <<locks, input, world, locals>>

(* Release, and log a change of the faults; the locals end here.  BUG: the *)
(* mutex is only released when the faults changed.                         *)
fsm_unlock_leaks ==
    /\ Step("fsm", "unlock", IF new_faults # prev_faults THEN "log" ELSE "idle")
    /\ state_mutex' = IF new_faults # prev_faults THEN NoTask ELSE "fsm"
    /\ fresh' = NoFrame
    /\ prev_faults' = {}
    /\ UNCHANGED <<bb_mutex, input, world, flags, incoming, comms_due, report, ctx>>
fsm_unlock ==
    /\ Step("fsm", "unlock", IF new_faults # prev_faults THEN "log" ELSE "idle")
    /\ state_mutex' = NoTask
    /\ fresh' = NoFrame
    /\ prev_faults' = {}
    /\ UNCHANGED <<bb_mutex, input, world, flags, incoming, comms_due, report, ctx>>

(* fsm_command, given by a caller that holds the state mutex throughout.   *)
(* No task of the repository calls it.                                     *)
gcs_command(e) ==
    /\ state_mutex = NoTask /\ bb_mutex = NoTask
    /\ Fsm!fsm_command(e)
    /\ UNCHANGED <<pc, locks, input, world, flags, locals, seen>>
-----------------------------------------------------------------------------
(* task_telemetry: fsm_task_get_sensors or fsm_task_get_state, each under  *)
(* the mutex, ...                                                          *)
telemetry_read(field, here, there) ==
    /\ Step("telemetry", here, there)
    /\ state_mutex = NoTask
    /\ report' = [report EXCEPT ![field] = seen]
    /\ UNCHANGED <<locks, input, world, flags, incoming, fresh, prev_faults,
                   comms_due, ctx>>

(* ... then fsm_task_get_fault_flags, under none (of the flags, only the   *)
(* sensor faults are kept), ...                                            *)
telemetry_flags(here, there) ==
    /\ Step("telemetry", here, there)
    /\ report' = [report EXCEPT !.faults = flags \cap Fsm!SensorFaults]
    /\ UNCHANGED <<locks, input, world, flags, incoming, fresh, prev_faults,
                   comms_due, ctx>>

(* ... then the frame, and a burst from the black box.                     *)
telemetry_drain ==
    /\ Step("telemetry", "build", "idle")
    /\ bb_mutex = NoTask
    /\ report' = NoReport
    /\ UNCHANGED <<locks, input, world, flags, incoming, fresh, prev_faults,
                   comms_due, ctx>>

(* The order of the calls; BUG: the flags are read first.                  *)
TelemetryFlagsFirst ==
    \/ telemetry_flags("idle", "state")
    \/ telemetry_read("sensors", "state", "flags")
    \/ telemetry_read("state", "flags", "build")
    \/ telemetry_drain
Telemetry ==
    \/ telemetry_read("sensors", "idle", "state")
    \/ telemetry_read("state", "state", "flags")
    \/ telemetry_flags("flags", "build")
    \/ telemetry_drain
-----------------------------------------------------------------------------
(* osEventFlagsSet or osEventFlagsClear of one flag; BUG: the wrong one.   *)
BitWrong(f, on) == IF on THEN flags \cup {"WATCHDOG_NEAR"} ELSE flags \ {f}
Bit(f, on) == IF on THEN flags \cup {f} ELSE flags \ {f}

(* task_health wakes and reads the clock: from here on the age of the last *)
(* packet is what it was now, or anything if a packet overtakes it (the    *)
(* unsigned difference wraps).  It brings the stack flag up to date ...    *)
health_wake ==
    /\ Step("health", "idle", "comms")
    /\ comms_due' = IF rx = "old" THEN "yes" ELSE "no"
    /\ flags' = Bit("STACK_OVERFLOW", stack_low)
    /\ UNCHANGED <<locks, input, world, incoming, fresh, prev_faults, report, ctx>>

(* ... and then the comms flag.                                            *)
health_comms ==
    /\ \/ comms_due \in {"yes", "either"} /\ flags' = Bit("COMMS_TIMEOUT", TRUE)
       \/ comms_due \in {"no", "either"} /\ flags' = Bit("COMMS_TIMEOUT", FALSE)
    /\ comms_due' = "no"
    /\ \/ Step("health", "comms", "idle")
       \/ Step("health", "comms", "get_state")     \* the 5 s snapshot is due
    /\ UNCHANGED <<locks, input, world, incoming, fresh, prev_faults, report, ctx>>

(* fsm_task_get_state is an argument of blackbox_log: its mutex is free    *)
(* again before the black box is asked for.                                *)
health_get_state ==
    /\ Step("health", "get_state", "log")
    /\ state_mutex = NoTask
    /\ UNCHANGED <<locks, input, world, flags, locals, ctx>>
-----------------------------------------------------------------------------
(* The world: the line goes quiet, a stack runs low (a high-water mark     *)
(* never recovers).                                                        *)
LineQuiet ==
    /\ rx = "fresh"
    /\ rx' = "old"
    /\ UNCHANGED <<pc, locks, input, stack_low, flags, locals, ctx>>
StackRunsLow ==
    /\ ~stack_low
    /\ stack_low' = TRUE
    /\ UNCHANGED <<pc, locks, input, rx, flags, locals, ctx>>

Sensor == sensor_put \/ sensor_watchdog \/ \E f \in Frames : sensor_frame(f)
FsmTask == fsm_get \/ fsm_lock \/ fsm_set_flags \/ fsm_run \/ fsm_unlock
Health == health_wake \/ health_comms \/ health_get_state

TaskStep(t) ==
    \/ t = "sensor" /\ Sensor
    \/ t = "fsm" /\ FsmTask
    \/ t = "telemetry" /\ Telemetry
    \/ t = "health" /\ Health
    \/ bb_acquire(t) \/ bb_release(t)

Next == LineQuiet \/ StackRunsLow \/ \E t \in Tasks : TaskStep(t)

Spec == Init /\ [][Next]_vars

(* The same with a ground station that arms and disarms.                   *)
ApiSpec == Init /\ [][Next \/ \E e \in Fsm!FsmEvents : gcs_command(e)]_vars

(* Every task is periodic and the scheduler runs it; a mutex goes to the   *)
(* waiter of highest priority that waits longest, and no task holds one    *)
(* for ever, so a task that waits again and again gets it.                 *)
(* Nothing makes a frame arrive at an idle task_sensor.                    *)
Due(t) == TaskStep(t) /\ (t = "sensor" => pc[t] # "idle")
FairSpec == Spec /\ \A t \in Tasks : SF_vars(Due(t))
-----------------------------------------------------------------------------
Labels == {"idle", "put", "log", "logging", "lock", "set_flags", "run",
           "unlock", "state", "flags", "build", "comms", "get_state"}

TypeOK ==
    /\ pc \in [Tasks -> Labels]
    /\ state_mutex \in {NoTask, "fsm"}
    /\ bb_mutex \in Tasks \cup {NoTask}
    /\ queue \in Seq(Numbered) /\ Len(queue) <= QueueSize
    /\ handled \in 0 .. MaxFrames
    /\ rx \in {"never", "fresh", "old"}
    /\ stack_low \in BOOLEAN
    /\ flags \subseteq Faults
    /\ incoming \in Numbered \cup {NoFrame}
    /\ fresh \in Numbered \cup {NoFrame}
    /\ prev_faults \subseteq Faults
    /\ comms_due \in {"no", "yes", "either"}
    /\ report \in [sensors : 0 .. MaxFrames, state : 0 .. MaxFrames,
                   faults : SUBSET Fsm!SensorFaults]
    /\ seen \in 0 .. MaxFrames
    /\ Fsm!TypeOK

(* The queue has room for four frames and never holds more than one, the   *)
(* newest: the code drops a frame whenever the queue holds one, not only   *)
(* when it is full as its comment says, and no interleaving with the FSM   *)
(* task between its count, get and put lets a backlog build up.            *)
QueueHoldsNewest ==
    /\ Len(queue) <= 1
    /\ queue # <<>> /\ incoming = NoFrame => Head(queue).n = handled

(* Outside the critical section of task_fsm the sensor faults in the event *)
(* group are those of s_last_sensors, although the group is read, set and  *)
(* cleared in three calls and task_health writes to it in between.         *)
SensorFlagsExact ==
    state_mutex = NoTask /\ seen > 0 =>
        flags \cap Fsm!SensorFaults = Fsm!evaluate_faults(s_last_sensors)

(* The three reads of a telemetry frame, with ticks between them: it never *)
(* pairs newer sensor values with an older flight state, and while its     *)
(* values are those of the latest tick its flags show every fault of them. *)
(* (They may already show the faults of the next frame as well.)           *)
TelemetryCoherent ==
    pc["telemetry"] = "build" =>
        /\ report.state >= report.sensors
        /\ seen > 0 /\ report.sensors = seen =>
               Fsm!evaluate_faults(s_last_sensors) \subseteq report.faults

(* The tasks together drive the state machine as FlightFsm says.           *)
RefinesFsm == Fsm!Spec

(* Every task keeps coming back to its period: the two mutexes, of which   *)
(* task_fsm takes one inside the other, never block it for good.           *)
TasksKeepRunning == \A t \in Tasks : []<>(pc[t] = "idle")

(* No frame is forgotten: a tick sees every frame handled, or a newer one. *)
NewestFrameSeen ==
    \A n \in 1 .. MaxFrames : (handled = n) ~> (seen >= n)

(* task_fsm.c: "Clear faults that are no longer active": a stack mark that *)
(* is critical stays critical, so its flag, once up, is never cleared.     *)
ClearsOnlyInactive ==
    [][stack_low /\ "STACK_OVERFLOW" \in flags => "STACK_OVERFLOW" \in flags']_vars
=============================================================================
