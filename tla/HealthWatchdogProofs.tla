------------------------ MODULE HealthWatchdogProofs ------------------------
(***************************************************************************)
(* NoBite and AlarmPrompt of HealthWatchdog hold for every width of the    *)
(* clock, every period, timeout and lateness that fit each other.          *)
(***************************************************************************)
EXTENDS HealthWatchdog, WrapArithmetic, TLAPS

TypeInv ==
    /\ clock \in Clock /\ last_wake \in Clock /\ last_rx \in Clock
    /\ boot \in {"uart", "iwdg", "crc", "run"}
    /\ halted \in BOOLEAN
    /\ dog \in Off .. DogTimeout
    /\ hang \in {"no", "spins", "blocks"}
    /\ pc \in {"sleep", "comms", "report", "log"}
    /\ timeout \in BOOLEAN /\ heard \in BOOLEAN
    /\ silence \in 0 .. ClockMod
    /\ wrong_for \in Nat /\ missed_for \in 0 .. ClockMod

(* Before the tasks start no time has passed, and only main knows about    *)
(* the watchdog.                                                           *)
BootInv ==
    boot # "run" =>
        /\ hang = "no" /\ pc = "sleep"
        /\ ~halted => /\ clock = 0 /\ last_wake = 0 /\ last_rx = 0
                      /\ dog = IF boot = "crc" THEN 0 ELSE Off

Sound == boot = "run" /\ ~halted /\ hang = "no"

(* The watchdog counts the time since task_health woke up, which is never  *)
(* more than it may be late.                                               *)
DogInv ==
    Sound => /\ dog = Since(last_wake)
             /\ dog <= IF pc = "sleep" THEN HealthPeriod + MaxLate ELSE MaxLate

(* The ghost that measures the silence agrees with the stamp, up to a lap. *)
SilenceInv == ~halted /\ silence < ClockMod => silence = Since(last_rx)

(* The age of the clock reading the verdict in force was based on.         *)
VerdictAge ==
    IF pc = "comms" THEN dog + HealthPeriod + MaxLate ELSE dog

(* A false alarm is not older than that.  A verdict that all is well was   *)
(* right when the clock was read; so just before a lap is complete the     *)
(* alarm is up, and a silence is missed for no longer than it has been     *)
(* one, or than the stamp seems old once a lap is over.                    *)
QuietInv ==
    Sound /\ ~timeout /\ last_rx > 0 => Since(last_rx) <= CommsTimeout + VerdictAge
MissedInv ==
    Sound /\ missed_for > 0 =>
        /\ ~timeout /\ heard
        /\ last_rx > 0 => IF silence < ClockMod
                          THEN missed_for + CommsTimeout <= silence
                          ELSE missed_for <= Since(last_rx)
VerdictInv ==
    /\ Sound => wrong_for <= VerdictAge
    /\ boot # "run" /\ ~halted => wrong_for = 0 /\ missed_for = 0
    /\ AlarmPrompt

HealthInv ==
    TypeInv /\ BootInv /\ DogInv /\ SilenceInv /\ QuietInv /\ MissedInv /\ VerdictInv
-----------------------------------------------------------------------------
LEMMA Constants ==
    /\ ClockMod \in Nat \ {0} /\ ClockMod > 1 /\ Clock = 0 .. ClockMod - 1
    /\ 0 \in Clock
    /\ MaxLate \in Nat /\ HealthPeriod \in Nat \ {0} /\ DogTimeout \in Nat
    /\ CommsTimeout \in Nat /\ CommsTimeout < ClockMod
    /\ Promptly \in Nat /\ HealthPeriod + MaxLate <= Promptly
    /\ CommsTimeout + Promptly < ClockMod - 1
    /\ HealthPeriod + MaxLate < ClockMod /\ HealthPeriod + MaxLate < DogTimeout
BY LateAssumption, DogAssumption, ClockAssumption DEF Clock, Promptly

(* A reading of the clock that is t ago is one unit older after a tick,    *)
(* unless that makes a lap.                                                *)
LEMMA SinceTicks ==
    ASSUME NEW c \in Clock, NEW t \in Clock
    PROVE  /\ (c + 1) % ClockMod \in Clock
           /\ (c - t) % ClockMod \in 0 .. ClockMod - 1
           /\ ((c - t) % ClockMod) + 1 < ClockMod =>
                 (((c + 1) % ClockMod) - t) % ClockMod = ((c - t) % ClockMod) + 1
<1>1. 1 \in 0 .. ClockMod
  BY Constants
<1>2. (c + 1) % ClockMod \in Clock
  BY <1>1, Constants, Later
<1>3. (c - t) % ClockMod \in 0 .. ClockMod - 1
  BY Constants, Difference
<1> QED BY <1>1, <1>2, <1>3, Constants, AgeGrows

(* ... and then it is new again.                                           *)
LEMMA SinceWraps ==
    ASSUME NEW c \in Clock, NEW t \in Clock
    PROVE  \/ (((c + 1) % ClockMod) - t) % ClockMod = ((c - t) % ClockMod) + 1
           \/ /\ (((c + 1) % ClockMod) - t) % ClockMod = 0
              /\ (c - t) % ClockMod = ClockMod - 1
<1>1. 1 \in 0 .. ClockMod
  BY Constants
<1>2. /\ (c + 1) % ClockMod = (IF c + 1 < ClockMod THEN c + 1 ELSE c + 1 - ClockMod)
      /\ (c + 1) % ClockMod \in Clock
  BY <1>1, Constants, Later
<1>3. (c - t) % ClockMod = IF c >= t THEN c - t ELSE c - t + ClockMod
  BY Constants, Difference
<1> DEFINE d == (c + 1) % ClockMod
<1>4. (d - t) % ClockMod = IF d >= t THEN d - t ELSE d - t + ClockMod
  BY <1>2, Constants, Difference
<1>5. d = (IF c + 1 < ClockMod THEN c + 1 ELSE c + 1 - ClockMod)
  BY <1>2
<1> DEFINE old == (c - t) % ClockMod
           new == (d - t) % ClockMod
<1>6. old = (IF c >= t THEN c - t ELSE c - t + ClockMod)
  BY <1>3
<1>7. new = (IF d >= t THEN d - t ELSE d - t + ClockMod)
  BY <1>4
<1>8. new = old + 1 \/ (new = 0 /\ old = ClockMod - 1)
  <2> HIDE DEF d, old, new
  <2> QED BY <1>5, <1>6, <1>7, Constants
<1> QED BY <1>8

LEMMA SinceSelf == ASSUME NEW c \in Clock PROVE (c - c) % ClockMod = 0
BY Constants, Difference

(* What is missed from the moment the silence is too long grows with it.   *)
LEMMA GrowTogether ==
    ASSUME NEW m \in Nat, NEW n \in Nat, NEW s \in Int, NEW t \in Int,
           n <= m + 1, s + 1 <= t, CommsTimeout < t, m > 0 => m + CommsTimeout <= s
    PROVE  n + CommsTimeout <= t
BY Constants

(* Main starts the parts, and the tasks find everything at zero.           *)
LEMMA BootStepInv == ASSUME HealthInv, BootStep PROVE HealthInv'
<1> USE Constants
<1>1. /\ boot \in {"uart", "iwdg", "crc"} /\ ~halted
      /\ boot' \in {"iwdg", "crc", "run"} /\ (boot' = "run" <=> boot = "crc")
      /\ (boot' = "crc" <=> boot = "iwdg")
      /\ dog' = (IF boot = "iwdg" THEN 0 ELSE dog)
      /\ UNCHANGED <<clock, halted, hang, pc, last_wake, timeout, last_rx, heard, silence,
                     wrong_for, missed_for>>
  BY DEF BootStep, Booted, HealthInv, TypeInv, fsm, health, line, ghosts
<1>2. /\ hang = "no" /\ pc = "sleep" /\ clock = 0 /\ last_wake = 0 /\ last_rx = 0
      /\ dog = (IF boot = "crc" THEN 0 ELSE Off) /\ wrong_for = 0 /\ missed_for = 0
  BY <1>1 DEF HealthInv, BootInv, VerdictInv
<1>3. Since(last_wake)' = 0
  BY <1>1, <1>2, SinceSelf DEF Since
<1>4. (TypeInv /\ BootInv)'
  BY <1>1, <1>2 DEF HealthInv, TypeInv, BootInv, Off
<1>5. (DogInv /\ QuietInv /\ MissedInv /\ VerdictInv)'
  BY <1>1, <1>2, <1>3 DEF DogInv, QuietInv, MissedInv, VerdictInv, VerdictAge, Sound,
     AlarmPrompt, Off
<1>6. SilenceInv'
  BY <1>1 DEF HealthInv, SilenceInv, Since
<1> QED BY <1>4, <1>5, <1>6 DEF HealthInv

LEMMA ResetInv == ASSUME HealthInv, Reset PROVE HealthInv'
<1> USE Constants
<1>1. /\ clock' = 0 /\ boot' = "uart" /\ halted' = FALSE /\ dog' = Off /\ hang' = "no"
      /\ pc' = "sleep" /\ last_wake' = 0 /\ timeout' = FALSE /\ last_rx' = 0
      /\ heard' = FALSE /\ silence' = 0 /\ wrong_for' = 0 /\ missed_for' = 0
  BY DEF Reset
<1>2. Since(last_rx)' = 0
  BY <1>1, SinceSelf DEF Since
<1>3. TypeInv'
  <2>1. Off \in Off .. DogTimeout /\ 0 \in 0 .. ClockMod /\ 0 \in Nat
    BY DEF Off
  <2> QED BY <1>1, <2>1 DEF TypeInv
<1>4. (BootInv /\ DogInv /\ SilenceInv /\ QuietInv /\ MissedInv /\ VerdictInv)'
  BY <1>1, <1>2 DEF BootInv, DogInv, SilenceInv, QuietInv, MissedInv, VerdictInv, Sound,
     AlarmPrompt
<1> QED BY <1>3, <1>4 DEF HealthInv

(* A failure stops everything; a hang and the work of task_fsm change      *)
(* nothing that is measured.                                               *)
LEMMA FailureInv == ASSUME HealthInv, Failure PROVE HealthInv'
<1> USE Constants
<1>1. /\ halted' = TRUE /\ dog' \in {Off, 0, dog}
      /\ UNCHANGED <<clock, boot, hang, pc, last_wake, timeout, last_rx, heard, silence,
                     wrong_for, missed_for>>
  BY DEF Failure, Error_Handler, fsm, health, line, ghosts
<1>2. AlarmPrompt'
  BY <1>1 DEF HealthInv, VerdictInv, AlarmPrompt, StampedZero
<1> QED BY <1>1, <1>2 DEF HealthInv, TypeInv, BootInv, DogInv, SilenceInv, QuietInv,
           MissedInv, VerdictInv, Sound, Off

LEMMA FsmInv == ASSUME HealthInv, fsm_lock \/ fsm_unlock \/ Hang \/ UNCHANGED vars PROVE HealthInv'
<1>1. /\ UNCHANGED <<clock, boot, halted, dog, pc, last_wake, timeout, last_rx, heard, silence,
                     wrong_for, missed_for>>
      /\ hang' = hang \/ (boot = "run" /\ hang' \in {"spins", "blocks"})
  BY DEF fsm_lock, fsm_unlock, Hang, Running, vars, fsm, health, line, ghosts
<1>2. Since(last_wake)' = Since(last_wake) /\ Since(last_rx)' = Since(last_rx)
  BY <1>1 DEF Since
<1>3. AlarmPrompt'
  BY <1>1 DEF HealthInv, VerdictInv, AlarmPrompt, StampedZero
<1>4. VerdictAge' = VerdictAge
  BY <1>1 DEF VerdictAge
<1> QED BY <1>1, <1>2, <1>3, <1>4 DEF HealthInv, TypeInv, BootInv, DogInv, SilenceInv,
           QuietInv, MissedInv, VerdictInv, Sound

(* A packet ends the silence: what was missed is over, and a false alarm   *)
(* is no younger than it was.                                              *)
LEMMA HandleFrameInv == ASSUME HealthInv, handle_frame PROVE HealthInv'
<1> USE Constants
<1>1. /\ boot = "run" /\ ~halted
      /\ last_rx' = clock /\ heard' = TRUE /\ silence' = 0
      /\ UNCHANGED <<clock, boot, halted, dog, hang, pc, last_wake, timeout>>
  BY DEF handle_frame, Running, IrqOn, fsm, health
<1>2. wrong_for' \in {0, wrong_for} /\ missed_for' = 0
  BY <1>1 DEF handle_frame, Judged, Missed, HealthInv, TypeInv
<1>3. Since(last_rx)' = 0 /\ Since(last_wake)' = Since(last_wake)
  BY <1>1, SinceSelf DEF Since, HealthInv, TypeInv
<1>4. (TypeInv /\ BootInv)'
  BY <1>1, <1>2 DEF HealthInv, TypeInv, BootInv
<1>5. (DogInv /\ SilenceInv)'
  BY <1>1, <1>3 DEF HealthInv, DogInv, SilenceInv, Sound
<1>6. VerdictAge' = VerdictAge /\ (Sound' <=> Sound)
  BY <1>1 DEF VerdictAge, Sound
<1>7. Sound => VerdictAge \in Nat
  BY SinceTicks DEF HealthInv, TypeInv, DogInv, VerdictAge, Since, Off
<1>8. (QuietInv /\ MissedInv)'
  BY <1>2, <1>3, <1>6, <1>7 DEF QuietInv, MissedInv
<1>9. VerdictInv'
  BY <1>1, <1>2, <1>6, <1>7 DEF HealthInv, TypeInv, VerdictInv, AlarmPrompt
<1> QED BY <1>4, <1>5, <1>8, <1>9 DEF HealthInv

(* task_health wakes up and feeds the watchdog.  The verdict it finds is   *)
(* as old as the watchdog was, which is at most a period and the lateness. *)
LEMMA HealthWakeInv == ASSUME HealthInv, health_wake PROVE HealthInv'
<1> USE Constants
<1>1. /\ boot = "run" /\ ~halted /\ pc = "sleep"
      /\ last_wake' = clock /\ dog' = 0 /\ pc' = "comms"
      /\ UNCHANGED <<clock, boot, halted, hang, timeout, last_rx, heard, silence, wrong_for,
                     missed_for>>
  BY DEF health_wake, Running, IrqOn, fsm, health, line, ghosts
<1>2. Since(last_wake)' = 0 /\ Since(last_rx)' = Since(last_rx)
  BY <1>1, SinceSelf DEF Since, HealthInv, TypeInv
<1>3. (TypeInv /\ BootInv)'
  BY <1>1 DEF HealthInv, TypeInv, BootInv, Off
<1>4. (DogInv /\ SilenceInv)'
  BY <1>1, <1>2 DEF HealthInv, DogInv, SilenceInv, Sound
<1>5. (Sound' <=> Sound) /\ (Sound => VerdictAge \in Int /\ VerdictAge <= VerdictAge')
  BY <1>1 DEF HealthInv, TypeInv, DogInv, VerdictAge, Sound, Off
<1>6. Since(last_rx) \in Nat /\ VerdictAge' \in Nat
  BY <1>1, SinceTicks DEF HealthInv, TypeInv, Since, VerdictAge
<1>7. QuietInv'
  BY <1>1, <1>2, <1>5, <1>6 DEF HealthInv, QuietInv
<1>8. MissedInv'
  BY <1>1, <1>2, <1>5 DEF HealthInv, MissedInv
<1>9. VerdictInv'
  <2>1. AlarmPrompt'
    BY <1>1 DEF HealthInv, VerdictInv, AlarmPrompt, StampedZero
  <2> QED BY <1>1, <1>5, <1>6, <2>1 DEF HealthInv, TypeInv, VerdictInv
<1> QED BY <1>3, <1>4, <1>7, <1>8, <1>9 DEF HealthInv

(* A fresh verdict is no false alarm unless a packet overtook it, and a    *)
(* verdict that all is well was right when the clock was read for it.      *)
LEMMA HealthCommsInv == ASSUME HealthInv, health_comms PROVE HealthInv'
<1> USE Constants
<1>1. /\ boot = "run" /\ ~halted /\ pc = "comms"
      /\ timeout' = Silent(last_wake)
      /\ overtaken' = (silence < Since(last_wake))
      /\ pc' = "report"
      /\ UNCHANGED <<clock, boot, halted, dog, hang, last_wake, last_rx, heard, silence>>
  BY DEF health_comms, Running, IrqOn, fsm, line
<1>2. /\ wrong_for' = (IF Wrong' THEN wrong_for + 0 ELSE 0)
      /\ missed_for' = (IF ~Missed' THEN 0
                        ELSE IF missed_for < ClockMod THEN missed_for + 0 ELSE ClockMod)
  BY DEF health_comms, Judged
<1>3. wrong_for \in Nat /\ missed_for \in 0 .. ClockMod /\ silence \in Nat /\ dog \in Int
  BY DEF HealthInv, TypeInv, Off
<1>4. wrong_for' \in {0, wrong_for} /\ missed_for' \in {0, missed_for}
  BY <1>2, <1>3
<1>5. Since(last_wake)' = Since(last_wake) /\ Since(last_rx)' = Since(last_rx)
  BY <1>1 DEF Since
<1>6. (TypeInv /\ BootInv)'
  <2>1. timeout' \in BOOLEAN
    BY <1>1 DEF Silent
  <2> QED BY <1>1, <1>4, <2>1 DEF HealthInv, TypeInv, BootInv
<1>7. (DogInv /\ SilenceInv)'
  BY <1>1, <1>5 DEF HealthInv, DogInv, SilenceInv, Sound
<1>8. (Sound' <=> Sound) /\ VerdictAge' = dog
  BY <1>1 DEF Sound, VerdictAge
<1> DEFINE age == (last_wake - last_rx) % ClockMod
           past == Since(last_rx)
<1>9. /\ past \in 0 .. ClockMod - 1 /\ age \in 0 .. ClockMod - 1
      /\ Sound => dog = Since(last_wake) /\ dog >= 0 /\ (dog <= past => age = past - dog)
  <2>1. past \in 0 .. ClockMod - 1 /\ age \in 0 .. ClockMod - 1
    BY SinceTicks DEF HealthInv, TypeInv, Since
  <2>2. Sound => dog = Since(last_wake) /\ dog >= 0
    BY SinceTicks DEF HealthInv, DogInv, TypeInv, Since
  <2>3. Sound /\ dog <= past => age = past - dog
    BY <2>2, AgeThen DEF HealthInv, TypeInv, Since
  <2> QED BY <2>1, <2>2, <2>3
<1>10. Sound => wrong_for' <= dog
  <2>1. SUFFICES ASSUME Sound, timeout', ~overtaken', silence <= CommsTimeout PROVE FALSE
    BY <1>1, <1>2, <1>9 DEF Wrong
  <2>2. age > CommsTimeout
    BY <1>1, <2>1 DEF Silent
  <2>3. ~(silence < Since(last_wake))
    BY <1>1, <2>1, Zenon
  <2>4. silence < ClockMod /\ dog <= silence
    BY <1>3, <1>9, <2>1, <2>3
  <2>5. silence = past
    BY <1>1, <2>4 DEF HealthInv, SilenceInv
  <2> HIDE DEF age, past
  <2> QED BY <1>3, <1>9, <2>1, <2>2, <2>4, <2>5
<1>11. QuietInv'
  <2>1. SUFFICES ASSUME Sound, ~timeout', last_rx > 0 PROVE past <= CommsTimeout + dog
    BY <1>1, <1>5, <1>8 DEF QuietInv
  <2>2. ~(age > CommsTimeout)
    BY <1>1, <2>1 DEF Silent
  <2> HIDE DEF age, past
  <2> QED BY <1>3, <1>9, <2>1, <2>2
<1>12. MissedInv'
  <2>1. missed_for' > 0 => missed_for' = missed_for /\ ~timeout' /\ heard'
    BY <1>2, <1>3, <1>4 DEF Missed
  <2> QED BY <1>1, <1>5, <1>8, <2>1 DEF HealthInv, MissedInv
<1>13. VerdictInv'
  <2>1. AlarmPrompt'
    BY <1>1, <1>3, <1>4 DEF HealthInv, VerdictInv, AlarmPrompt, StampedZero
  <2> QED BY <1>1, <1>8, <1>10, <2>1 DEF VerdictInv
<1> QED BY <1>6, <1>7, <1>11, <1>12, <1>13 DEF HealthInv

(* The report and the log leave the watchdog and the verdict alone; the    *)
(* next wake-up is not due before they are.                                *)
LEMMA HealthReportInv == ASSUME HealthInv, health_report \/ health_log PROVE HealthInv'
<1> USE Constants
<1>1. /\ boot = "run" /\ ~halted /\ pc \in {"report", "log"} /\ pc' \in {"sleep", "log"}
      /\ UNCHANGED <<clock, boot, halted, dog, hang, last_wake, timeout, last_rx, heard,
                     silence, wrong_for, missed_for>>
  BY DEF health_report, health_log, Running, IrqOn, fsm, line, ghosts
<1>2. Since(last_wake)' = Since(last_wake) /\ Since(last_rx)' = Since(last_rx)
  BY <1>1 DEF Since
<1>3. (TypeInv /\ BootInv)'
  BY <1>1 DEF HealthInv, TypeInv, BootInv
<1>4. (DogInv /\ SilenceInv)'
  BY <1>1, <1>2 DEF HealthInv, TypeInv, DogInv, SilenceInv, Sound, Off
<1>5. (Sound' <=> Sound) /\ VerdictAge' = VerdictAge
  BY <1>1 DEF Sound, VerdictAge
<1>6. (QuietInv /\ MissedInv)'
  BY <1>1, <1>2, <1>5 DEF HealthInv, QuietInv, MissedInv
<1>7. AlarmPrompt'
  BY <1>1 DEF HealthInv, VerdictInv, AlarmPrompt, StampedZero
<1> QED BY <1>1, <1>3, <1>4, <1>5, <1>6, <1>7 DEF HealthInv, VerdictInv

(* Time passes only over tasks that are not due: the watchdog, the silence *)
(* and the age of a wrong verdict grow together, by one.  Where the stamp  *)
(* becomes a lap old, the verdict is an alarm, and nothing is missed.      *)
LEMMA TickInv == ASSUME HealthInv, Tick PROVE HealthInv'
<1> USE Constants
<1>1. /\ dog < DogTimeout /\ (boot = "run" \/ halted)
      /\ dog' = (IF dog = Off THEN Off ELSE dog + 1)
      /\ clock' = (IF ~halted THEN (clock + 1) % ClockMod ELSE clock)
      /\ silence' = (IF silence < ClockMod THEN silence + 1 ELSE silence)
      /\ UNCHANGED <<boot, halted, hang, pc, last_wake, timeout, last_rx, heard>>
  BY DEF Tick, InTime, IrqOn, health
<1>2. /\ wrong_for' = (IF Wrong' THEN wrong_for + 1 ELSE 0)
      /\ missed_for' = (IF ~Missed' THEN 0
                        ELSE IF missed_for < ClockMod THEN missed_for + 1 ELSE ClockMod)
  BY DEF Tick, Judged
<1>3. /\ wrong_for \in Nat /\ missed_for \in 0 .. ClockMod /\ silence \in 0 .. ClockMod
      /\ dog \in Off .. DogTimeout /\ clock \in Clock /\ last_wake \in Clock /\ last_rx \in Clock
  BY DEF HealthInv, TypeInv
<1>4. clock' \in Clock
  BY <1>1, <1>3, SinceTicks
<1>5. dog' \in Off .. DogTimeout /\ silence' \in 0 .. ClockMod
  BY <1>1, <1>3 DEF Off
<1>6. wrong_for' \in Nat /\ missed_for' \in 0 .. ClockMod /\ missed_for' <= missed_for + 1
  BY <1>2, <1>3
<1>7. (TypeInv /\ BootInv)'
  BY <1>1, <1>4, <1>5, <1>6 DEF HealthInv, TypeInv, BootInv
<1>8. ~halted => \/ Since(last_rx)' = Since(last_rx) + 1
                 \/ Since(last_rx)' = 0 /\ Since(last_rx) = ClockMod - 1
  <2>1. \/ (((clock + 1) % ClockMod) - last_rx) % ClockMod = ((clock - last_rx) % ClockMod) + 1
        \/ /\ (((clock + 1) % ClockMod) - last_rx) % ClockMod = 0
           /\ (clock - last_rx) % ClockMod = ClockMod - 1
    BY <1>3, SinceWraps
  <2> QED BY <1>1, <2>1 DEF Since
<1>9. Since(last_rx) \in 0 .. ClockMod - 1
  BY <1>3, SinceTicks DEF Since
<1>10. ~halted /\ silence < ClockMod => silence = Since(last_rx)
  BY DEF HealthInv, SilenceInv
<1>11. SilenceInv'
  <2>1. SUFFICES ASSUME ~halted, silence' < ClockMod PROVE silence' = Since(last_rx)'
    BY <1>1 DEF SilenceInv
  <2>2. silence' = silence + 1 /\ silence < ClockMod
    BY <1>1, <1>3, <2>1
  <2> QED BY <1>3, <1>8, <1>9, <1>10, <2>1, <2>2
<1>12. ASSUME Sound
       PROVE  /\ dog' = dog + 1 /\ dog >= 0 /\ dog' = Since(last_wake)'
              /\ dog' <= IF pc = "sleep" THEN HealthPeriod + MaxLate ELSE MaxLate
  <2>1. dog = Since(last_wake)
    BY <1>12 DEF HealthInv, DogInv
  <2>2. Since(last_wake) < IF pc = "sleep" THEN HealthPeriod + MaxLate ELSE MaxLate
    BY <1>12 DEF Tick, InTime, HealthInTime, Period, Sound, Running, IrqOn
  <2>3. Since(last_wake) \in 0 .. ClockMod - 1
    BY <1>3, SinceTicks DEF Since
  <2>4. dog' = dog + 1 /\ dog >= 0 /\ dog + 1 < ClockMod
    BY <1>1, <2>1, <2>2, <2>3 DEF Off
  <2>5. (((clock + 1) % ClockMod) - last_wake) % ClockMod = ((clock - last_wake) % ClockMod) + 1
    BY <1>3, <2>1, <2>4, SinceTicks DEF Since
  <2>6. Since(last_wake)' = Since(last_wake) + 1
    BY <1>1, <1>12, <2>5 DEF Since, Sound
  <2> QED BY <1>3, <2>1, <2>2, <2>3, <2>4, <2>6
<1>13. DogInv'
  BY <1>1, <1>12 DEF DogInv, Sound
<1>14. Sound' <=> Sound
  BY <1>1 DEF Sound
<1>15. CASE Sound
  <2>1. VerdictAge' = VerdictAge + 1 /\ VerdictAge \in Nat
    BY <1>1, <1>3, <1>12, <1>15 DEF VerdictAge
  <2>2. VerdictAge' <= Promptly
    BY <1>1, <1>3, <1>12, <1>15 DEF VerdictAge, Promptly, Off
  <2>3. wrong_for' <= VerdictAge'
    <3>1. wrong_for <= VerdictAge
      BY <1>15 DEF HealthInv, VerdictInv
    <3> QED BY <1>2, <1>3, <2>1, <3>1
  <2>4. ~timeout /\ last_rx > 0 => Since(last_rx) <= CommsTimeout + VerdictAge
    BY <1>15 DEF HealthInv, QuietInv
  <2>5. ~halted
    BY <1>15 DEF Sound
  <2>6. ~timeout /\ last_rx > 0 =>
            /\ Since(last_rx) < ClockMod - 1
            /\ Since(last_rx)' = Since(last_rx) + 1
            /\ Since(last_rx)' <= CommsTimeout + VerdictAge'
    BY <1>8, <1>9, <2>1, <2>2, <2>4, <2>5
  <2>7. QuietInv'
    BY <1>1, <2>6 DEF QuietInv
  <2>8. missed_for' > 0 => ~timeout /\ heard /\ silence' > CommsTimeout
    BY <1>1, <1>2 DEF Missed
  <2>9. missed_for > 0 /\ last_rx > 0 => IF silence < ClockMod
                                         THEN missed_for + CommsTimeout <= silence
                                         ELSE missed_for <= Since(last_rx)
    BY <1>15 DEF HealthInv, MissedInv
  <2>10. missed_for' > 0 /\ last_rx > 0 => IF silence' < ClockMod
                                           THEN missed_for' + CommsTimeout <= silence'
                                           ELSE missed_for' <= Since(last_rx)'
    <3>1. SUFFICES ASSUME missed_for' > 0, last_rx > 0
                   PROVE  IF silence' < ClockMod
                          THEN missed_for' + CommsTimeout <= silence'
                          ELSE missed_for' <= Since(last_rx)'
      OBVIOUS
    <3>2. /\ silence' > CommsTimeout /\ Since(last_rx) < ClockMod - 1
          /\ Since(last_rx)' = Since(last_rx) + 1
      BY <2>6, <2>8, <3>1
    <3>3. CASE silence < ClockMod
      <4>1. silence' = silence + 1 /\ silence' < ClockMod
        BY <1>1, <1>3, <1>9, <1>10, <2>5, <3>2, <3>3
      <4>2. missed_for > 0 => missed_for + CommsTimeout <= silence
        BY <2>9, <3>1, <3>3
      <4>3. missed_for' + CommsTimeout <= silence'
        <5>1. /\ missed_for \in Nat /\ missed_for' \in Nat /\ missed_for' <= missed_for + 1
              /\ silence \in Int /\ silence' \in Int /\ silence + 1 <= silence'
          BY <1>3, <1>5, <1>6, <4>1
        <5>2. CommsTimeout < silence'
          BY <3>2
        <5> QED BY <4>2, <5>1, <5>2, GrowTogether
      <4> QED BY <4>1, <4>3
    <3>4. CASE silence = ClockMod
      <4>1. silence' = ClockMod
        BY <1>1, <3>4
      <4>2. missed_for > 0 => missed_for <= Since(last_rx)
        BY <2>9, <3>1, <3>4
      <4>3. missed_for' <= Since(last_rx)'
        BY <1>3, <1>6, <1>9, <3>2, <4>2
      <4> QED BY <4>1, <4>3
    <3> QED BY <1>3, <3>3, <3>4
  <2>11. MissedInv'
    BY <1>1, <2>8, <2>10 DEF MissedInv
  <2>12. AlarmPrompt'
    <3>1. wrong_for' <= Promptly
      BY <1>6, <2>1, <2>2, <2>3
    <3>2. SUFFICES ASSUME ~StampedZero', missed_for' > 0
                   PROVE  missed_for' <= IF silence' < ClockMod THEN Promptly
                                         ELSE CommsTimeout + Promptly
      BY <1>5, <1>6, <3>1 DEF AlarmPrompt
    <3>3. last_rx > 0 /\ ~timeout
      BY <1>1, <1>3, <2>8, <3>2 DEF StampedZero
    <3>4. /\ Since(last_rx)' = Since(last_rx) + 1
          /\ Since(last_rx)' <= CommsTimeout + VerdictAge'
      BY <2>6, <3>3
    <3>5. silence' < ClockMod => silence' = Since(last_rx)'
      BY <1>1, <1>11, <2>5 DEF SilenceInv
    <3>6. IF silence' < ClockMod THEN missed_for' + CommsTimeout <= silence'
                                 ELSE missed_for' <= Since(last_rx)'
      BY <2>10, <3>2, <3>3
    <3>7. Since(last_rx)' \in Nat /\ VerdictAge' \in Nat
      BY <1>9, <2>1, <3>4
    <3>8. CASE silence' < ClockMod
      BY <1>5, <1>6, <2>2, <3>4, <3>5, <3>6, <3>7, <3>8
    <3>9. CASE ~(silence' < ClockMod)
      BY <1>5, <1>6, <2>2, <3>4, <3>6, <3>7, <3>9
    <3> QED BY <3>8, <3>9
  <2> QED BY <1>1, <1>7, <1>11, <1>13, <1>14, <1>15, <2>3, <2>7, <2>11, <2>12
          DEF HealthInv, VerdictInv, Sound
<1>16. CASE ~Sound
  <2>1. wrong_for' = 0 /\ missed_for' = 0
    BY <1>1, <1>2, <1>16 DEF Sound, Wrong, Missed, Running, IrqOn
  <2>2. (QuietInv /\ MissedInv /\ VerdictInv)'
    BY <1>14, <1>16, <2>1 DEF QuietInv, MissedInv, VerdictInv, AlarmPrompt
  <2> QED BY <1>7, <1>11, <1>13, <2>2 DEF HealthInv
<1> QED BY <1>15, <1>16
-----------------------------------------------------------------------------
LEMMA HealthInit == Init => HealthInv
<1> SUFFICES ASSUME Init PROVE HealthInv
  OBVIOUS
<1> USE Constants
<1>1. Since(last_rx) = 0
  BY SinceSelf DEF Init, Since
<1>2. TypeInv
  <2>1. Off \in Off .. DogTimeout /\ 0 \in 0 .. ClockMod /\ 0 \in Nat
    BY DEF Off
  <2> QED BY <2>1 DEF Init, TypeInv
<1>3. BootInv /\ DogInv /\ SilenceInv /\ QuietInv /\ MissedInv /\ VerdictInv
  BY <1>1 DEF Init, BootInv, DogInv, SilenceInv, QuietInv, MissedInv, VerdictInv, Sound,
     AlarmPrompt
<1> QED BY <1>2, <1>3 DEF HealthInv

LEMMA HealthStep == HealthInv /\ [Next]_vars => HealthInv'
<1> SUFFICES ASSUME HealthInv, [Next]_vars PROVE HealthInv'
  OBVIOUS
<1> QED BY BootStepInv, ResetInv, FailureInv, FsmInv, HandleFrameInv, HealthWakeInv,
           HealthCommsInv, HealthReportInv, TickInv DEF Next, System, task_health

(* The invariant of task_health, main and the watchdog.                    *)
THEOREM HealthInvariant == Spec => []HealthInv
BY HealthInit, HealthStep, PTL DEF Spec

(* The watchdog that MX_IWDG_Init starts and task_health feeds never       *)
(* resets a system in which nothing halts or hangs.                        *)
THEOREM HealthySystemIsNotReset == Spec => []NoBite
<1>1. HealthInv => NoBite
  <2>1. SUFFICES ASSUME HealthInv, dog = DogTimeout, ~halted, hang = "no" PROVE FALSE
    BY DEF NoBite, HealthInv, TypeInv
  <2>2. CASE boot = "run"
    BY <2>1, <2>2, Constants DEF HealthInv, DogInv, Sound
  <2>3. CASE boot # "run"
    BY <2>1, <2>3, Constants DEF HealthInv, BootInv, Off
  <2> QED BY <2>2, <2>3
<1> QED BY <1>1, HealthInvariant, PTL

(* The comms verdict of task_health is no false alarm, and misses no       *)
(* silence of a line once heard, for longer than a period and twice the    *)
(* lateness.  Two exceptions: after a packet stamped 0 nothing is claimed, *)
(* the code takes that stamp for "no packet yet"; and once the silence has *)
(* lasted a lap of the tick count, CommsTimeout is added to the bound.     *)
THEOREM VerdictIsPrompt == Spec => []AlarmPrompt
<1>1. HealthInv => AlarmPrompt
  BY DEF HealthInv, VerdictInv
<1> QED BY <1>1, HealthInvariant, PTL
=============================================================================
