--------------------------- MODULE HealthWatchdog ---------------------------
(***************************************************************************)
(* task_health.c against the clock: the independent watchdog it feeds, the *)
(* comms timeout it judges, the health log that waits for the state mutex, *)
(* and how main.c starts up and fails.                                     *)
(*                                                                         *)
(* Time advances in units of Tick.  task_health wakes and finishes a       *)
(* period at most MaxLate units late; task_fsm, which runs at a higher     *)
(* priority, holds the state mutex for less than a unit, unless it hangs.  *)
(* A hung task spins, starving the tasks below it, or blocks for ever,     *)
(* with the state mutex or without.                                        *)
(*                                                                         *)
(* Definitions introduced as BUG are not part of the model: each is a form *)
(* of the definition below it that some property must reject.              *)
(***************************************************************************)
EXTENDS Integers

CONSTANTS ClockMod,       \* 2^32, osKernelGetTickCount
          HealthPeriod,   \* HEALTH_PERIOD_MS, 200
          DogTimeout,     \* the IWDG, about 1000 ms
          CommsTimeout,   \* COMMS_TIMEOUT_MS, 1000
          ReportPeriod,   \* HEALTH_REPORT_PERIOD_MS, 1000
          LogPeriod,      \* 5000
          MaxLate         \* bound: how late task_health is

Clock == 0 .. ClockMod - 1

ASSUME LateAssumption == MaxLate \in Nat /\ HealthPeriod \in Nat \ {0}
ASSUME DogAssumption == DogTimeout \in Nat /\ HealthPeriod + MaxLate < DogTimeout
ASSUME ClockAssumption ==
    /\ ClockMod \in Nat /\ CommsTimeout \in Nat
    /\ {HealthPeriod + MaxLate, ReportPeriod, LogPeriod} \subseteq Clock
    /\ CommsTimeout + HealthPeriod + 2 * MaxLate + 1 \in Clock

VARIABLES clock,
          boot,       \* how far main is: "uart", "iwdg", "crc", "run"
          halted,     \* in Error_Handler, with interrupts off
          dog,        \* time since the watchdog was fed, or Off
          hang,       \* what is wrong with task_fsm
          fsm_ran,    \* it has had its turn in this unit
          mutex,      \* g_state_mutex is held by task_fsm
          pc, last_wake, last_report_ms, last_bb_ms,   \* task_health
          timeout,    \* its latest verdict on the line
          last_rx,    \* s_last_packet_ms of task_sensor
          heard,      \* a packet has come since the start
          silence,    \* how long ago the latest one came, up to a lap
          overtaken,  \* it came after the clock was read for that verdict
          wrong_for,  \* how long the verdict has been a false alarm, and
          missed_for  \* how long it has missed a silent line, up to a lap

fsm    == <<hang, fsm_ran, mutex>>
health == <<pc, last_wake, last_report_ms, last_bb_ms, timeout, overtaken>>
ghosts == <<wrong_for, missed_for>>
line   == <<last_rx, heard, silence>>
vars   == <<clock, boot, halted, dog, fsm, health, line, ghosts>>

Off == -1

Init ==
    /\ clock = 0 /\ boot = "uart" /\ halted = FALSE /\ dog = Off
    /\ hang = "no" /\ fsm_ran = FALSE /\ mutex = FALSE
    /\ pc = "sleep" /\ last_wake = 0 /\ last_report_ms = 0 /\ last_bb_ms = 0
    /\ timeout = FALSE /\ last_rx = 0 /\ heard = FALSE
    /\ silence = 0 /\ overtaken = FALSE /\ wrong_for = 0 /\ missed_for = 0
-----------------------------------------------------------------------------
(* main starts the UART, the watchdog and the CRC unit, then the tasks.    *)
Booted == [uart |-> "iwdg", iwdg |-> "crc", crc |-> "run"]
BootStep ==
    /\ boot # "run" /\ ~halted
    /\ boot' = Booted[boot]
    /\ dog' = IF boot = "iwdg" THEN 0 ELSE dog
    /\ UNCHANGED <<clock, halted, fsm, health, line, ghosts>>

(* Error_Handler switches interrupts off and spins: no task runs again,    *)
(* and the clock stands still.  BUG: interrupts stay on.                   *)
IrqStaysOn == TRUE
IrqOn == ~halted
Error_Handler == halted' = TRUE

(* A peripheral fails to start (a failed HAL_IWDG_Init may or may not have *)
(* started the watchdog), or FreeRTOS calls the stack overflow hook or the *)
(* malloc hook.                                                            *)
Failure ==
    /\ ~halted
    /\ Error_Handler
    /\ dog' \in IF boot = "iwdg" THEN {Off, 0} ELSE {dog}
    /\ UNCHANGED <<clock, boot, fsm, health, line, ghosts>>

Running == boot = "run" /\ IrqOn

(* What the verdict should be: an alarm when the line, once heard, has     *)
(* been silent for longer than CommsTimeout.  How long it has been wrong,  *)
(* d units later.                                                          *)
Wrong  == Running /\ hang = "no" /\ timeout /\ ~overtaken /\ silence <= CommsTimeout
Missed == Running /\ hang = "no" /\ ~timeout /\ heard /\ silence > CommsTimeout
Judged(d) ==
    /\ wrong_for'  = IF Wrong' THEN wrong_for + d ELSE 0
    /\ missed_for' = IF ~Missed' THEN 0
                     ELSE IF missed_for < ClockMod THEN missed_for + d ELSE ClockMod

(* The watchdog resets the processor.                                      *)
Reset ==
    /\ dog = DogTimeout
    /\ clock' = 0 /\ boot' = "uart" /\ halted' = FALSE /\ dog' = Off
    /\ hang' = "no" /\ fsm_ran' = FALSE /\ mutex' = FALSE
    /\ pc' = "sleep" /\ last_wake' = 0 /\ last_report_ms' = 0 /\ last_bb_ms' = 0
    /\ timeout' = FALSE /\ last_rx' = 0 /\ heard' = FALSE
    /\ silence' = 0 /\ overtaken' = FALSE /\ wrong_for' = 0 /\ missed_for' = 0
-----------------------------------------------------------------------------
fsm_lock ==
    /\ Running /\ hang = "no" /\ ~mutex /\ ~fsm_ran
    /\ mutex' = TRUE
    /\ UNCHANGED <<clock, boot, halted, dog, hang, fsm_ran, health, line, ghosts>>
fsm_unlock ==
    /\ Running /\ hang = "no" /\ mutex
    /\ mutex' = FALSE /\ fsm_ran' = TRUE
    /\ UNCHANGED <<clock, boot, halted, dog, hang, health, line, ghosts>>
Hang ==
    /\ Running /\ hang = "no"
    /\ hang' \in {"spins", "blocks"}
    /\ UNCHANGED <<clock, boot, halted, dog, fsm_ran, mutex, health, line, ghosts>>

(* task_sensor stamps a packet.                                            *)
handle_frame ==
    /\ Running /\ hang # "spins"
    /\ last_rx' = clock /\ heard' = TRUE /\ silence' = 0
    /\ UNCHANGED <<clock, boot, halted, dog, fsm, health>>
    /\ Judged(0)
-----------------------------------------------------------------------------
Since(t) == (clock - t) % ClockMod

(* HEALTH_PERIOD_MS.  BUG: the watchdog is fed at the rate of the reports. *)
PeriodOfReports == ReportPeriod
Period == HealthPeriod

health_wake ==
    /\ Running /\ hang # "spins"
    /\ pc = "sleep" /\ Since(last_wake) >= Period
    /\ last_wake' = clock
    /\ dog' = 0
    /\ pc' = "comms"
    /\ UNCHANGED <<clock, boot, halted, fsm, last_report_ms, last_bb_ms, timeout,
                   overtaken, line, ghosts>>

(* The verdict, an unsigned difference of two readings of the clock.       *)
(* BUG: a signed one.                                                      *)
SilentSigned(now) == last_rx > 0 /\ now - last_rx > CommsTimeout
Silent(now) == last_rx > 0 /\ (now - last_rx) % ClockMod > CommsTimeout
health_comms ==
    /\ Running /\ hang # "spins"
    /\ pc = "comms"
    /\ timeout' = Silent(last_wake)
    /\ overtaken' = (silence < Since(last_wake))
    /\ pc' = "report"
    /\ UNCHANGED <<clock, boot, halted, dog, fsm, last_wake, last_report_ms,
                   last_bb_ms, line>>
    /\ Judged(0)

(* The report once a second, and the health log once in five of them.      *)
health_report ==
    /\ Running /\ hang # "spins"
    /\ pc = "report"
    /\ \/ /\ (last_wake - last_report_ms) % ClockMod < ReportPeriod
          /\ pc' = "sleep"
          /\ UNCHANGED <<last_report_ms, last_bb_ms>>
       \/ /\ (last_wake - last_report_ms) % ClockMod >= ReportPeriod
          /\ last_report_ms' = last_wake
          /\ \/ /\ (last_wake - last_bb_ms) % ClockMod < LogPeriod
                /\ pc' = "sleep"
                /\ UNCHANGED last_bb_ms
             \/ /\ (last_wake - last_bb_ms) % ClockMod >= LogPeriod
                /\ pc' = "log"
                /\ last_bb_ms' = last_wake
    /\ UNCHANGED <<clock, boot, halted, dog, fsm, last_wake, timeout, overtaken,
                   line, ghosts>>

(* fsm_task_get_state waits for the mutex, for ever.  BUG: it gives up.    *)
MutexGivenUp == TRUE
MutexAcquired == ~mutex
health_log ==
    /\ Running /\ hang # "spins"
    /\ pc = "log" /\ MutexAcquired
    /\ pc' = "sleep"
    /\ UNCHANGED <<clock, boot, halted, dog, fsm, last_wake, last_report_ms,
                   last_bb_ms, timeout, overtaken, line, ghosts>>

task_health == health_wake \/ health_comms \/ health_report \/ health_log
-----------------------------------------------------------------------------
(* Time does not pass over a task that is due.                             *)
HealthInTime ==
    Since(last_wake) < IF pc = "sleep" THEN Period + MaxLate ELSE MaxLate
Waiting == pc = "log" /\ ~MutexAcquired
InTime ==
    /\ boot = "run" \/ halted
    /\ Running /\ hang = "no" => ~mutex /\ HealthInTime
    /\ Running /\ hang = "blocks" => HealthInTime \/ Waiting

Tick ==
    /\ dog < DogTimeout /\ InTime
    /\ dog' = IF dog = Off THEN Off ELSE dog + 1
    /\ clock' = IF IrqOn THEN (clock + 1) % ClockMod ELSE clock
    /\ silence' = IF silence < ClockMod THEN silence + 1 ELSE silence
    /\ fsm_ran' = FALSE
    /\ UNCHANGED <<boot, halted, hang, mutex, health, last_rx, heard>>
    /\ Judged(1)

System == BootStep \/ fsm_unlock \/ task_health \/ Tick \/ Reset
Next == System \/ Failure \/ fsm_lock \/ Hang \/ handle_frame

(* Time passes, and the tasks that are due get their turn.                 *)
Spec == Init /\ [][Next]_vars /\ WF_vars(System)
-----------------------------------------------------------------------------
(* The watchdog never resets a system in which nothing hangs, however the  *)
(* wake-ups drift, the periods fall together and the clock wraps.          *)
NoBite == dog = DogTimeout => halted \/ hang # "no"

(* Only task_health feeds the watchdog, yet a task_fsm that spins, or      *)
(* that blocks with the state mutex, is reset: the one starves             *)
(* task_health, the other catches it at its next health log.               *)
HangIsReset ==
    (Running /\ (hang = "spins" \/ (hang = "blocks" /\ mutex))) ~> (hang = "no")

(* Error_Handler: "debugger will catch this or IWDG will reset".  It does, *)
(* once MX_IWDG_Init has run.                                              *)
HaltIsReset == (halted /\ dog # Off) ~> ~halted

(* The verdict on the line follows the line within a period and twice the  *)
(* lateness, both ways, with these exceptions.  A false alarm lasts longer *)
(* while, in period after period, a packet comes between the reading of    *)
(* the clock and the check.  A silence of more than a lap looks short      *)
(* again, so once in a lap it is missed for up to CommsTimeout longer.     *)
(* And the code takes a stamp of 0 for "no packet yet": after a packet     *)
(* that came at tick 0 it is blind until the next one.                     *)
Promptly == HealthPeriod + 2 * MaxLate
StampedZero == heard /\ last_rx = 0
AlarmPrompt ==
    /\ wrong_for <= Promptly
    /\ silence < ClockMod /\ ~StampedZero => missed_for <= Promptly
    /\ silence = ClockMod /\ ~StampedZero => missed_for <= CommsTimeout + Promptly
=============================================================================
