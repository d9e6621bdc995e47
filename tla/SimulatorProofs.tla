-------------------------- MODULE SimulatorProofs --------------------------
(***************************************************************************)
(* The safety properties of Simulator hold for every number of fault       *)
(* slots, every width of the clock, every set of durations that it can     *)
(* count and any number of commands.                                       *)
(***************************************************************************)
EXTENDS Simulator, FiniteSetTheorems, WellFoundedInduction, WrapArithmetic, TLAPS

Models ==
    [gps : [fix_quality : {0, 1}, signal_lost : BOOLEAN],
     frozen : BOOLEAN, latched : Motions,
     battery : [sag_fault : BOOLEAN, sag_target_v : Voltages \cup {0, 10}],
     comms_drop_active : BOOLEAN, packet_corrupt_active : BOOLEAN]

(* How long a fault has been on, as fault_tick computes it.                *)
Age(now, e) == (now - e.start_ms) % ClockMod

(* The slots with a fault that has time left, and what was asked for then. *)
On == {i \in SlotIds : slots[i].active /\ ~Expired(slots[i])}
Entry(now, i, e) ==
    [slot |-> i, type |-> e.type, latched |-> e.duration_ms = 0,
     left |-> IF e.duration_ms = 0 THEN 0 ELSE e.duration_ms - Age(now, e),
     param |-> e.param]

(* The injector knows exactly what was asked for; a slot outlives its      *)
(* fault only from the reading of the clock to the tick.                   *)
SlotInv ==
    /\ asked = {Entry(sim_wall_ms, i, slots[i]) : i \in On}
    /\ phase # "scenario" => \A i \in SlotIds : slots[i].active => i \in On
    /\ \A i \in SlotIds : slots[i].active => slots[i].type \in Types

(* The models show what the slots say once fault_tick has run.             *)
ShownInv ==
    phase = "sample" =>
        /\ Shown = {slots[i].type : i \in On}
        /\ "BATTERY_SAG" \in Shown =>
               models.battery.sag_target_v \in {slots[i].param : i \in Sags(On)}

(* A refusal stays true until the next command or sample.                  *)
RefusedInv == phase = "tcp" /\ refused => Free = {}

(* What a frozen IMU has latched is what it has put out.                   *)
HeldInv ==
    held => /\ models.frozen => models.latched = imu_out
            /\ phase # "sample" => models.frozen

SimInv ==
    TypeOK /\ models \in Models /\ SlotInv /\ ShownInv /\ RefusedInv /\ HeldInv
(* The constants as numbers.                                               *)
LEMMA DurationsAreNat == Durations \subseteq Nat /\ Durations \cup {0} \subseteq Nat
<1>1. Durations \subseteq Nat
  BY DurationsAssumption, Zenon
<1> QED BY <1>1

LEMMA ClockPositive == ClockMod \in Nat \ {0} /\ Clock = 0 .. ClockMod - 1
BY ClockAssumption, LagAssumption DEF Clock

(* The clock goes on by less than a lap, ...                               *)
LEMMA ClockAdvances ==
    ASSUME NEW w \in Clock, NEW d \in 1 .. MaxLag
    PROVE  (w + d) % ClockMod \in Clock
<1>1. d \in 0 .. ClockMod
  BY ClockAssumption, LagAssumption
<1> QED BY <1>1, ClockPositive, Later

(* ... and a fault ages by the time that passes.                           *)
LEMMA AgeAdvances ==
    ASSUME NEW w \in Clock, NEW e, e.start_ms \in Clock, NEW d \in 1 .. MaxLag,
           Age(w, e) + d < ClockMod
    PROVE  Age((w + d) % ClockMod, e) = Age(w, e) + d
<1>1. d \in 0 .. ClockMod
  BY ClockAssumption, LagAssumption
<1> QED BY <1>1, ClockPositive, AgeGrows DEF Age

LEMMA AgeInClock ==
    ASSUME NEW w \in Clock, NEW e, e.start_ms \in Clock
    PROVE  /\ Age(w, e) \in Clock
           /\ e.start_ms = w => Age(w, e) = 0
BY Difference, ClockPositive DEF Age

(* The first of some slots, and the last.                                  *)
LEMMA Minimum ==
    ASSUME NEW S \in SUBSET Nat, S # {}
    PROVE  \E m \in S : \A k \in S : m <= k
<1> DEFINE R == OpToRel(<, Nat)
<1>1. IsWellFoundedOn(R, Nat)
  BY NatLessThanWellFounded, Zenon
<1>2. \A x \in Nat, y \in Nat : x < y => <<x, y>> \in R
  BY DEF OpToRel
<1> HIDE DEF R
<1>3. PICK m \in S : \A k \in S : ~(<<k, m>> \in R)
  BY <1>1, WFMin, Zenon
<1>4. \A k \in S : ~(k < m)
  BY <1>2, <1>3
<1>5. \A k \in S : m <= k
  BY <1>4
<1> QED BY <1>5

LEMMA Maximum ==
    ASSUME NEW n \in Nat, NEW S \in SUBSET (0 .. n), S # {}
    PROVE  \E m \in S : \A k \in S : k <= m
<1> DEFINE T == {n - i : i \in S}
<1>1. T \in SUBSET Nat
  OBVIOUS
<1>2. T # {}
  OBVIOUS
<1>3. PICK m \in T : \A k \in T : m <= k
  BY <1>1, <1>2, Minimum
<1>4. PICK i \in S : m = n - i
  OBVIOUS
<1>5. ASSUME NEW k \in S PROVE k <= i
  <2>1. n - k \in T
    OBVIOUS
  <2> HIDE DEF T
  <2> QED BY <2>1, <1>3, <1>4
<1> QED BY <1>5

LEMMA FirstIsFree == Free # {} => First(Free) \in Free
<1> SUFFICES ASSUME Free # {} PROVE First(Free) \in Free
  OBVIOUS
<1>1. Free \in SUBSET Nat
  BY SlotsAssumption DEF Free, SlotIds
<1>2. \E m \in Free : \A k \in Free : m <= k
  BY <1>1, Minimum
<1> QED BY <1>2 DEF First

(* battery_set_sag is given the voltage of a sag that is on.               *)
LEMMA SagTargetIsAsked ==
    ASSUME NEW S \in SUBSET SlotIds
    PROVE  /\ SagTarget(S) \in {10} \cup {slots[i].param : i \in Sags(S)}
           /\ Sags(S) # {} => SagTarget(S) \in {slots[i].param : i \in Sags(S)}
<1>1. CASE Sags(S) = {}
  BY <1>1 DEF SagTarget
<1>2. CASE Sags(S) # {}
  <2> DEFINE n == FAULT_SLOTS - 1
  <2>1. n \in Nat /\ SlotIds = 0 .. n
    BY SlotsAssumption DEF SlotIds
  <2> HIDE DEF n
  <2>4. Sags(S) \subseteq SlotIds
    BY DEF Sags
  <2>2. \E m \in Sags(S) : \A k \in Sags(S) : k <= m
    BY <1>2, <2>1, <2>4, Maximum
  <2>3. (CHOOSE m \in Sags(S) : \A k \in Sags(S) : k <= m) \in Sags(S)
    BY <2>2
  <2> QED BY <1>2, <2>3 DEF SagTarget
<1> QED BY <1>1, <1>2

(* A slot and its fault, by its age.                                       *)
SlotRecords ==
    [type : Types \cup {"NONE"}, active : BOOLEAN, start_ms : Clock,
     duration_ms : Durations \cup {0}, param : Voltages \cup {0}]
Lit(now, e) == e.active /\ (e.duration_ms = 0 \/ Age(now, e) < e.duration_ms)

LEMMA LitIsNotExpired ==
    ASSUME NEW e \in SlotRecords, NEW w \in Clock
    PROVE  (e.active /\ ~(e.duration_ms > 0 /\ (w - e.start_ms) % ClockMod >= e.duration_ms))
             <=> Lit(w, e)
<1>1. e.start_ms \in Clock /\ e.duration_ms \in Durations \cup {0}
  BY DEF SlotRecords
<1>2. e.duration_ms \in Nat
  BY <1>1, DurationsAreNat
<1>3. Age(w, e) \in Clock
  BY <1>1, AgeInClock, Zenon
<1>4. Age(w, e) \in Nat
  BY <1>3, ClockPositive
<1> QED BY <1>2, <1>4 DEF Lit, Age

LEMMA OnIsLit == TypeOK => On = {i \in SlotIds : Lit(sim_wall_ms, slots[i])}
BY LitIsNotExpired DEF TypeOK, On, Expired, SlotRecords

LEMMA OnIsLitNext == TypeOK' => On' = {i \in SlotIds : Lit(sim_wall_ms', slots'[i])}
BY LitIsNotExpired DEF TypeOK, On, Expired, SlotRecords

(* What TypeOK says of a slot.                                             *)
LEMMA SlotFacts ==
    ASSUME TypeOK, NEW i \in SlotIds
    PROVE  /\ slots[i] \in SlotRecords
           /\ slots[i].start_ms \in Clock /\ slots[i].duration_ms \in Nat
           /\ slots[i].duration_ms # 0 => slots[i].duration_ms + MaxLag <= ClockMod
           /\ Age(sim_wall_ms, slots[i]) \in Nat
<1>1. slots[i] \in SlotRecords /\ sim_wall_ms \in Clock
  BY DEF TypeOK, SlotRecords
<1>2. slots[i].start_ms \in Clock /\ slots[i].duration_ms \in Durations \cup {0}
  BY <1>1 DEF SlotRecords
<1>3. Age(sim_wall_ms, slots[i]) \in Nat
  <2>1. Age(sim_wall_ms, slots[i]) \in Clock
    BY <1>1, <1>2, AgeInClock, Zenon
  <2> QED BY <2>1, ClockPositive
<1>4. slots[i].duration_ms # 0 => slots[i].duration_ms + MaxLag <= ClockMod
  BY <1>2, DurationsAssumption, Zenon
<1> QED BY <1>1, <1>2, <1>3, <1>4, DurationsAreNat

LEMMA Switch ==
    \A e \in SlotRecords, b \in BOOLEAN : [e EXCEPT !.active = b] \in SlotRecords
BY DEF SlotRecords

(* The clock is read: faults grow older, and some are over.                *)
LEMMA LoopTopStep == ASSUME SimInv, NEW d \in 1 .. MaxLag, LoopTop(d) PROVE SimInv'
<1> DEFINE w == sim_wall_ms'
<1>1. w = (sim_wall_ms + d) % ClockMod /\ w \in Clock
  BY ClockAdvances DEF LoopTop, Advance, SimInv, TypeOK
<1>2. UNCHANGED <<slots, sensors, tick_count, commands, line, refused>> /\ phase = "top"
      /\ phase' = "scenario"
  BY DEF LoopTop, Go
<1> DEFINE Late(i) == slots[i].duration_ms - Age(sim_wall_ms, slots[i])
<1>3. ASSUME NEW i \in SlotIds, slots[i].active, slots[i].duration_ms # 0
      PROVE  /\ Age(sim_wall_ms, slots[i]) < slots[i].duration_ms
             /\ Age(w, slots[i]) = Age(sim_wall_ms, slots[i]) + d
  <2>1. i \in On
    BY <1>2, <1>3 DEF SimInv, SlotInv
  <2>2. Age(sim_wall_ms, slots[i]) < slots[i].duration_ms
    BY <1>3, <2>1, OnIsLit DEF SimInv, Lit
  <2>3. Age(sim_wall_ms, slots[i]) + d < ClockMod
    BY <1>3, <2>2, SlotFacts, ClockPositive, LagAssumption DEF SimInv
  <2>4. sim_wall_ms \in Clock /\ slots[i].start_ms \in Clock
    BY SlotFacts DEF SimInv, TypeOK
  <2> QED BY <1>1, <2>2, <2>3, <2>4, AgeAdvances
<1>4. TypeOK'
  <2> DEFINE A == [slot : SlotIds, type : Types, latched : BOOLEAN, left : Nat,
                   param : Voltages \cup {0}]
  <2>1. asked' \subseteq A
    <3>1. ASSUME NEW a \in asked, a.left > d PROVE [a EXCEPT !.left = @ - d] \in A
      <4>1. a \in A
        BY DEF SimInv, TypeOK
      <4>2. a.left - d \in Nat
        BY <3>1, <4>1, LagAssumption
      <4> QED BY <4>1, <4>2
    <3>2. asked \subseteq A
      BY DEF SimInv, TypeOK
    <3> HIDE DEF A
    <3> QED BY <3>1, <3>2 DEF LoopTop
  <2> QED BY <1>1, <1>2, <2>1 DEF sensors, SimInv, TypeOK
<1>5. SlotInv'
  <2>1. On' = {i \in SlotIds : Lit(w, slots[i])}
    BY <1>2, <1>4, OnIsLitNext
  <2>2. ASSUME NEW x \in asked' PROVE \E i \in On' : x = Entry(w, i, slots[i])
    <3>1. CASE x \in asked /\ x.latched
      <4>1. PICK i \in On : x = Entry(sim_wall_ms, i, slots[i])
        BY <3>1 DEF SimInv, SlotInv
      <4>2. slots[i].duration_ms = 0 /\ i \in SlotIds /\ slots[i].active
        BY <3>1, <4>1 DEF Entry, On
      <4> QED BY <2>1, <4>1, <4>2 DEF Entry, Lit
    <3>2. CASE \E a \in asked : a.left > d /\ x = [a EXCEPT !.left = @ - d]
      <4>1. PICK a \in asked : a.left > d /\ x = [a EXCEPT !.left = @ - d]
        BY <3>2
      <4>2. PICK i \in On : a = Entry(sim_wall_ms, i, slots[i])
        BY DEF SimInv, SlotInv
      <4>3. i \in SlotIds /\ slots[i].active
        BY DEF On
      <4>4. a.left = Late(i) /\ slots[i].duration_ms # 0
        BY <4>1, <4>2, LagAssumption DEF Entry
      <4>5. Age(w, slots[i]) = Age(sim_wall_ms, slots[i]) + d
        BY <1>3, <4>3, <4>4
      <4>6. Age(w, slots[i]) < slots[i].duration_ms
        BY <4>1, <4>3, <4>4, <4>5, SlotFacts DEF SimInv
      <4>7. x.left = slots[i].duration_ms - Age(w, slots[i])
        BY <4>1, <4>2, <4>3, <4>4, <4>5, SlotFacts DEF SimInv, Entry
      <4>8. x = Entry(w, i, slots[i])
        BY <4>1, <4>2, <4>4, <4>7 DEF Entry
      <4> QED BY <2>1, <4>3, <4>6, <4>8 DEF Lit
    <3> QED BY <3>1, <3>2 DEF LoopTop
  <2>3. ASSUME NEW i \in On' PROVE Entry(w, i, slots[i]) \in asked'
    <3>1. i \in SlotIds /\ slots[i].active /\ Lit(w, slots[i])
      BY <2>1 DEF Lit
    <3>2. i \in On
      BY <1>2, <3>1 DEF SimInv, SlotInv
    <3> DEFINE a == Entry(sim_wall_ms, i, slots[i])
    <3>3. a \in asked
      BY <3>2 DEF SimInv, SlotInv
    <3>4. CASE slots[i].duration_ms = 0
      BY <3>3, <3>4 DEF LoopTop, Entry
    <3>5. CASE slots[i].duration_ms # 0
      <4>1. Age(w, slots[i]) = Age(sim_wall_ms, slots[i]) + d
        BY <1>3, <3>1, <3>5
      <4>2. a.left > d
        BY <3>1, <3>5, <4>1, SlotFacts DEF SimInv, Lit, Entry
      <4>3. Entry(w, i, slots[i]) = [a EXCEPT !.left = @ - d]
        BY <3>1, <3>5, <4>1, SlotFacts DEF SimInv, Entry
      <4> HIDE DEF a
      <4> QED BY <3>3, <4>2, <4>3 DEF LoopTop
    <3> QED BY <3>4, <3>5
  <2>4. asked' = {Entry(w, i, slots[i]) : i \in On'}
    BY <2>2, <2>3
  <2> QED BY <1>2, <2>4 DEF SimInv, SlotInv
<1>6. (models \in Models /\ ShownInv /\ RefusedInv /\ HeldInv)'
  BY <1>2 DEF sensors, SimInv, ShownInv, RefusedInv, HeldInv
<1> QED BY <1>4, <1>5, <1>6 DEF SimInv

(* A command leaves the loop where it is, between two of its steps.        *)
CommandFrame ==
    /\ phase \in {"scenario", "tcp"} /\ commands' \in 0 .. MaxCommands
    /\ UNCHANGED <<sim_wall_ms, tick_count, phase, line>>

LEMMA InjectStep ==
    ASSUME SimInv, CommandFrame, NEW t \in Types, NEW v \in Voltages \cup {0},
           NEW d \in Durations, fault_inject(t, v, d)
    PROVE  SimInv'
<1> USE DEF CommandFrame
<1>1. CASE Free = {}
  <2>1. UNCHANGED <<slots, sensors, asked, sim_wall_ms, tick_count, phase, line>>
        /\ refused' = TRUE
    BY <1>1 DEF fault_inject
  <2>2. TypeOK'
    BY <2>1 DEF sensors, SimInv, TypeOK
  <2>3. On' = On /\ Free' = Free
    BY <2>1 DEF On, Expired, Free
  <2>4. SlotInv'
    BY <2>1, <2>3 DEF SimInv, SlotInv
  <2>5. (models \in Models /\ ShownInv /\ RefusedInv /\ HeldInv)'
    BY <1>1, <2>1, <2>3 DEF sensors, SimInv, ShownInv, RefusedInv, HeldInv
  <2> QED BY <2>2, <2>4, <2>5 DEF SimInv
<1>2. CASE Free # {}
  <2> DEFINE f == First(Free)
             e == [type |-> t, active |-> TRUE, start_ms |-> sim_wall_ms,
                   duration_ms |-> d, param |-> v]
             a == [slot |-> f, type |-> t, latched |-> d = 0, left |-> d, param |-> v]
  <2>1. f \in SlotIds /\ ~slots[f].active
    BY <1>2, FirstIsFree DEF Free
  <2>2. slots' = [slots EXCEPT ![f] = e] /\ asked' = asked \cup {a}
        /\ refused' = FALSE /\ UNCHANGED sensors
    BY <1>2 DEF fault_inject
  <2>3. e \in SlotRecords /\ sim_wall_ms \in Clock
    BY DEF SimInv, TypeOK, SlotRecords
  <2>4. d \in Nat
    BY DurationsAreNat
  <2>5. Age(sim_wall_ms, e) = 0
    BY <2>3, AgeInClock
  <2>6. Lit(sim_wall_ms, e) /\ a = Entry(sim_wall_ms, f, e)
    BY <2>4, <2>5 DEF Lit, Entry
  <2>7. a \in [slot : SlotIds, type : Types, latched : BOOLEAN, left : Nat,
               param : Voltages \cup {0}]
    BY <2>1, <2>4
  <2> HIDE DEF f, a
  <2>8. TypeOK'
    BY <2>1, <2>2, <2>3, <2>7 DEF sensors, SimInv, TypeOK, SlotRecords
  <2>9. \A i \in SlotIds : slots'[i] = IF i = f THEN e ELSE slots[i]
    BY <2>1, <2>2 DEF SimInv, TypeOK
  <2>10. On' = On \cup {f} /\ f \notin On
    BY <2>1, <2>6, <2>8, <2>9, OnIsLit, OnIsLitNext DEF SimInv, Lit
  <2>11. SlotInv'
    <3>1. asked = {Entry(sim_wall_ms, i, slots[i]) : i \in On} /\ On \subseteq SlotIds
      BY DEF SimInv, SlotInv, On
    <3>2. asked' = {Entry(sim_wall_ms', i, slots'[i]) : i \in On'}
      BY <2>1, <2>2, <2>6, <2>9, <2>10, <3>1
    <3>3. \A i \in SlotIds : slots'[i].active => i = f \/ slots[i].active
      BY <2>9
    <3>4. slots'[f].type \in Types
      BY <2>1, <2>9
    <3> QED BY <2>9, <2>10, <3>2, <3>3, <3>4 DEF SimInv, SlotInv
  <2>12. (models \in Models /\ ShownInv /\ RefusedInv /\ HeldInv)'
    BY <2>2 DEF sensors, SimInv, ShownInv, RefusedInv, HeldInv
  <2> QED BY <2>8, <2>11, <2>12 DEF SimInv
<1> QED BY <1>1, <1>2

LEMMA ClearStep ==
    ASSUME SimInv, CommandFrame, NEW k \in SlotIds, fault_clear(k)
    PROVE  SimInv'
<1> USE DEF CommandFrame
<1>1. UNCHANGED sensors /\ refused' = FALSE /\ asked' = {a \in asked : a.slot # k}
      /\ slots' = [slots EXCEPT ![k].active = FALSE, ![k].type = "NONE"]
  BY DEF fault_clear
<1>2. TypeOK'
  BY <1>1 DEF sensors, SimInv, TypeOK
<1>3. /\ ~slots'[k].active
      /\ \A i \in SlotIds : i # k => slots'[i] = slots[i]
  BY <1>1 DEF SimInv, TypeOK
<1>4. On' = On \ {k}
  BY <1>2, <1>3, OnIsLit, OnIsLitNext DEF SimInv, Lit
<1>5. SlotInv'
  <2>1. asked = {Entry(sim_wall_ms, i, slots[i]) : i \in On} /\ On \subseteq SlotIds
    BY DEF SimInv, SlotInv, On
  <2>2. \A i : Entry(sim_wall_ms, i, slots[i]).slot = i
    BY DEF Entry
  <2>3. \A i \in On' : Entry(sim_wall_ms', i, slots'[i]) = Entry(sim_wall_ms, i, slots[i])
    BY <1>3, <1>4, <2>1
  <2>4. asked' = {Entry(sim_wall_ms, i, slots[i]) : i \in On'}
    BY <1>1, <1>4, <2>1, <2>2
  <2>5. asked' = {Entry(sim_wall_ms', i, slots'[i]) : i \in On'}
    BY <2>3, <2>4
  <2> QED BY <1>3, <1>4, <2>5 DEF SimInv, SlotInv
<1>6. (models \in Models /\ ShownInv /\ RefusedInv /\ HeldInv)'
  BY <1>1 DEF sensors, SimInv, ShownInv, RefusedInv, HeldInv
<1> QED BY <1>2, <1>5, <1>6 DEF SimInv

(* Switching faults on and off gives well-formed models, ...               *)
LEMMA SwitchedIsModel ==
    ASSUME TypeOK, models \in Models, NEW on, NEW v \in Voltages \cup {0, 10}
    PROVE  Switched(on, v) \in Models
<1>1. gps_set_signal_lost("GPS_LOSS" \in on) \in [fix_quality : {0, 1}, signal_lost : BOOLEAN]
  BY DEF gps_set_signal_lost
<1>2. battery_set_sag("BATTERY_SAG" \in on, v)
        \in [sag_fault : BOOLEAN, sag_target_v : Voltages \cup {0, 10}]
  BY DEF battery_set_sag
<1>3. imu_freeze("SENSOR_FREEZE" \in on) \in Motions
  BY DEF imu_freeze, TypeOK
<1> QED BY <1>1, <1>2, <1>3 DEF Switched, Models

LEMMA ClearAllStep ==
    ASSUME SimInv, CommandFrame, fault_clear_all
    PROVE  SimInv'
<1> USE DEF CommandFrame
<1>1. models' \in Models
  BY SwitchedIsModel DEF fault_clear_all, SimInv, TypeOK
<1>2. TypeOK'
  <2>1. \A i \in SlotIds : slots[i] \in SlotRecords
    BY SlotFacts DEF SimInv
  <2>2. slots' \in [SlotIds -> SlotRecords]
    BY <2>1, Switch DEF fault_clear_all
  <2>3. models'.latched \in Motions
    BY <1>1 DEF Models
  <2> QED BY <2>2, <2>3 DEF fault_clear_all, SimInv, TypeOK, SlotRecords
<1>3. \A i \in SlotIds : ~slots'[i].active
  BY DEF fault_clear_all, SimInv, TypeOK
<1>4. On' = {}
  BY <1>2, <1>3, OnIsLitNext DEF Lit
<1>5. (SlotInv /\ ShownInv /\ RefusedInv /\ HeldInv)'
  BY <1>3, <1>4 DEF fault_clear_all, SlotInv, ShownInv, RefusedInv, HeldInv
<1> QED BY <1>1, <1>2, <1>5 DEF SimInv

(* ... which then show exactly the faults that are on.                     *)
LEMMA SwitchedShows ==
    ASSUME NEW on \in SUBSET Types, NEW v, models' = Switched(on, v)
    PROVE  Shown' = on /\ models'.battery.sag_target_v = v
<1>1. /\ models'.gps.signal_lost <=> "GPS_LOSS" \in on
      /\ models'.gps.fix_quality = IF "GPS_LOSS" \in on THEN 0 ELSE 1
      /\ models'.frozen <=> "SENSOR_FREEZE" \in on
      /\ models'.battery.sag_fault <=> "BATTERY_SAG" \in on
      /\ models'.battery.sag_target_v = v
      /\ models'.comms_drop_active <=> "COMMS_DROP" \in on
      /\ models'.packet_corrupt_active <=> "PACKET_CORRUPT" \in on
  BY DEF Switched, gps_set_signal_lost, battery_set_sag
<1>2. (gps_tick' = 0) <=> "GPS_LOSS" \in on
  <2>1. CASE "GPS_LOSS" \in on
    BY <1>1, <2>1 DEF gps_tick
  <2>2. CASE "GPS_LOSS" \notin on
    BY <1>1, <2>2 DEF gps_tick
  <2> QED BY <2>1, <2>2
<1>3. \A t \in Types : t \in Shown' <=> t \in on
  BY <1>1, <1>2 DEF Shown, Types
<1>4. Shown' \subseteq Types
  BY DEF Shown
<1> QED BY <1>1, <1>3, <1>4

(* fault_tick frees the slots of the faults that are over.                 *)
LEMMA FaultTickStep == ASSUME SimInv, FaultTick PROVE SimInv'
<1> DEFINE on == {slots[i].type : i \in On}
<1>1. /\ slots' = [i \in SlotIds |-> [slots[i] EXCEPT !.active = i \in On]]
      /\ models' = Switched(on, SagTarget(On))
      /\ UNCHANGED <<motion, imu_out, held, sim_wall_ms, tick_count, line, refused, asked>>
      /\ commands' = 0 /\ phase = "scenario" /\ phase' = "sample"
  BY DEF FaultTick, fault_tick, Go, On
<1>2. On \subseteq SlotIds /\ on \subseteq Types
  BY DEF On, SimInv, SlotInv
<1>3. SagTarget(On) \in Voltages \cup {0, 10}
  <2>1. \A i \in Sags(On) : slots[i].param \in Voltages \cup {0}
    BY <1>2 DEF Sags, SimInv, TypeOK
  <2> QED BY <1>2, <2>1, SagTargetIsAsked
<1>4. models' \in Models
  BY <1>1, <1>3, SwitchedIsModel DEF SimInv
<1>5. \A i \in SlotIds :
        /\ slots'[i].active = (i \in On) /\ slots'[i].type = slots[i].type
        /\ slots'[i].start_ms = slots[i].start_ms
        /\ slots'[i].duration_ms = slots[i].duration_ms
        /\ slots'[i].param = slots[i].param
  BY <1>1 DEF SimInv, TypeOK
<1>6. TypeOK'
  <2>1. slots' \in [SlotIds -> SlotRecords]
    <3>1. \A i \in SlotIds : slots[i] \in SlotRecords
      BY SlotFacts DEF SimInv
    <3>2. \A i \in SlotIds : (i \in On) \in BOOLEAN
      OBVIOUS
    <3>3. \A i \in SlotIds : [slots[i] EXCEPT !.active = (i \in On)] \in SlotRecords
      BY <3>1, <3>2, Switch, Zenon
    <3> QED BY <1>1, <3>3
  <2>2. models'.latched \in Motions
    BY <1>4 DEF Models
  <2>3. 0 \in 0 .. MaxCommands
    BY CommandsAssumption
  <2> QED BY <1>1, <2>1, <2>2, <2>3 DEF SimInv, TypeOK, SlotRecords
<1>7. On' = On
  <2>1. On = {i \in SlotIds : Lit(sim_wall_ms, slots[i])}
    BY OnIsLit DEF SimInv
  <2>2. On' = {i \in SlotIds : Lit(sim_wall_ms, slots'[i])}
    BY <1>1, <1>6, OnIsLitNext
  <2> QED BY <1>5, <2>1, <2>2 DEF Lit, Age
<1>8. SlotInv'
  <2>1. \A i \in On : Entry(sim_wall_ms', i, slots'[i]) = Entry(sim_wall_ms, i, slots[i])
    BY <1>1, <1>2, <1>5 DEF Entry, Age
  <2>2. asked' = {Entry(sim_wall_ms', i, slots'[i]) : i \in On'}
    BY <1>1, <1>7, <2>1 DEF SimInv, SlotInv
  <2> QED BY <1>5, <1>7, <2>2, <1>2 DEF SimInv, SlotInv, On
<1>9. ShownInv'
  <2>1. Shown' = on /\ models'.battery.sag_target_v = SagTarget(On)
    BY <1>1, <1>2, SwitchedShows
  <2>2. Shown' = {slots'[i].type : i \in On'}
    BY <1>2, <1>5, <1>7, <2>1
  <2>3. ASSUME "BATTERY_SAG" \in Shown'
        PROVE  models'.battery.sag_target_v \in {slots'[i].param : i \in Sags(On)'}
    <3>1. Sags(On) # {}
      BY <2>1, <2>3 DEF Sags
    <3>2. SagTarget(On) \in {slots[i].param : i \in Sags(On)}
      BY <1>2, <3>1, SagTargetIsAsked
    <3>3. Sags(On)' = Sags(On) /\ Sags(On) \subseteq SlotIds
      BY <1>2, <1>5, <1>7 DEF Sags
    <3> QED BY <1>5, <2>1, <3>2, <3>3
  <2> QED BY <2>2, <2>3 DEF ShownInv
<1>10. RefusedInv'
  BY <1>1 DEF RefusedInv
<1>11. HeldInv'
  <2>1. models.frozen => models'.latched = models.latched
    BY <1>1 DEF Switched, imu_freeze
  <2> QED BY <1>1, <2>1 DEF SimInv, HeldInv
<1> QED BY <1>4, <1>6, <1>8, <1>9, <1>10, <1>11 DEF SimInv

(* The IMU is sampled; the iteration ends; the scenario moves the vehicle. *)
LEMMA RestStep ==
    ASSUME SimInv, Sample \/ LoopEnd \/ scenario_motion \/ UNCHANGED vars
    PROVE  SimInv'
<1>1. UNCHANGED <<slots, models, sim_wall_ms, asked>>
  BY DEF Sample, LoopEnd, scenario_motion, vars, sensors
<1>2. On' = On /\ Free' = Free /\ Shown' = Shown /\ Sags(On)' = Sags(On)
  BY <1>1 DEF On, Expired, Free, Shown, gps_tick, Sags
<1>3. CASE Sample
  <2>1. TypeOK'
    BY <1>1, <1>3 DEF Sample, Go, imu_tick, Transmitted, Models, SimInv, TypeOK
  <2>2. (SlotInv /\ ShownInv /\ RefusedInv)'
    BY <1>1, <1>2, <1>3 DEF Sample, Go, SimInv, SlotInv, ShownInv, RefusedInv
  <2>3. HeldInv'
    BY <1>3 DEF Sample, Go, HeldInv, imu_tick
  <2> QED BY <1>1, <2>1, <2>2, <2>3 DEF SimInv
<1>4. CASE LoopEnd
  <2>1. tick_count' \in 0 .. TX_EVERY_N - 1
    <3>1. tick_count \in 0 .. TX_EVERY_N - 1
      BY Zenon DEF SimInv, TypeOK
    <3>2. tick_count \in 0 .. 1
      BY <3>1 DEF TX_EVERY_N
    <3>3. (tick_count + 1) % 2 \in 0 .. 1
      BY <3>2
    <3> QED BY <1>4, <3>3 DEF LoopEnd, TX_EVERY_N
  <2>2. /\ UNCHANGED <<slots, models, motion, imu_out, held, sim_wall_ms, line, refused, asked>>
        /\ phase' = "top" /\ commands' = 0
    BY <1>4 DEF LoopEnd, Go, sensors
  <2>3. 0 \in 0 .. MaxCommands
    BY CommandsAssumption
  <2>4. TypeOK'
    BY <2>1, <2>2, <2>3 DEF SimInv, TypeOK
  <2>5. (SlotInv /\ ShownInv /\ RefusedInv /\ HeldInv)'
    BY <1>1, <1>2, <1>4 DEF LoopEnd, Go, sensors, SimInv, SlotInv, ShownInv, RefusedInv, HeldInv
  <2> QED BY <1>1, <2>4, <2>5 DEF SimInv
<1>5. CASE scenario_motion
  <2>1. TypeOK'
    BY <1>5 DEF scenario_motion, SimInv, TypeOK
  <2>2. (SlotInv /\ ShownInv /\ RefusedInv /\ HeldInv)'
    BY <1>1, <1>2, <1>5 DEF scenario_motion, SimInv, SlotInv, ShownInv, RefusedInv, HeldInv
  <2> QED BY <1>1, <2>1, <2>2 DEF SimInv
<1>6. CASE UNCHANGED vars
  <2>1. TypeOK'
    BY <1>6 DEF vars, sensors, SimInv, TypeOK
  <2>2. (SlotInv /\ ShownInv /\ RefusedInv /\ HeldInv)'
    BY <1>1, <1>2, <1>6 DEF vars, sensors, SimInv, SlotInv, ShownInv, RefusedInv, HeldInv
  <2> QED BY <1>1, <2>1, <2>2 DEF SimInv
<1> QED BY <1>3, <1>4, <1>5, <1>6

(* Commands of the scenario and of the ground station.                     *)
LEMMA CommandStep ==
    ASSUME SimInv, scenario_command \/ handle_command PROVE SimInv'
<1>1. CommandFrame
  <2>1. commands \in 0 .. MaxCommands /\ commands < MaxCommands /\ commands' = commands + 1
    BY DEF scenario_command, handle_command, Command, SimInv, TypeOK
  <2>2. commands' \in 0 .. MaxCommands
    BY <2>1, CommandsAssumption
  <2> QED BY <2>2 DEF scenario_command, handle_command, Command, CommandFrame
<1>2. CASE Inject
  <2>1. PICK t \in FaultTypes, d \in Durations :
          \E v \in IF t = "BATTERY_SAG" THEN Voltages ELSE {0} : fault_inject(t, v, d)
    BY <1>2 DEF Inject
  <2>2. PICK v \in Voltages \cup {0} : fault_inject(t, v, d)
    BY <2>1
  <2> QED BY <1>1, <2>2, TypesAssumption, InjectStep
<1>3. CASE \E i \in SlotIds : fault_clear(i)
  BY <1>1, <1>3, ClearStep
<1>4. CASE fault_clear_all
  BY <1>1, <1>4, ClearAllStep
<1> QED BY <1>2, <1>3, <1>4 DEF scenario_command, handle_command

LEMMA SimStep == SimInv /\ [Next]_vars => SimInv'
BY LoopTopStep, FaultTickStep, RestStep, CommandStep DEF Next, Loop

(* The inductive invariant of the simulator's loop.                        *)
THEOREM SimInvariant == Spec => []SimInv
<1>1. Init => SimInv
  <2> SUFFICES ASSUME Init PROVE SimInv
    OBVIOUS
  <2> USE DEF Init, NONE, gps_set_signal_lost, battery_set_sag
  <2>1. models \in Models
    BY DEF Models
  <2>2. TypeOK
    <3>1. 0 \in Clock /\ 0 \in 0 .. MaxCommands /\ 0 \in 0 .. TX_EVERY_N - 1
      BY ClockPositive, CommandsAssumption DEF TX_EVERY_N
    <3>2. slots \in [SlotIds -> SlotRecords]
      BY <3>1 DEF SlotRecords
    <3> QED BY <3>1, <3>2 DEF TypeOK, SlotRecords
  <2>3. On = {}
    BY DEF On
  <2>4. SlotInv /\ ShownInv /\ RefusedInv /\ HeldInv
    BY <2>3 DEF SlotInv, ShownInv, RefusedInv, HeldInv
  <2> QED BY <2>1, <2>2, <2>4 DEF SimInv
<1> QED BY <1>1, SimStep, PTL DEF Spec

(* Every variable of the simulator keeps its type.                         *)
THEOREM SimulatorTypeOK == Spec => []TypeOK
<1>1. SimInv => TypeOK
  BY DEF SimInv
<1> QED BY <1>1, SimInvariant, PTL

(* What is sampled shows exactly the faults asked for that have time left, *)
(* across any reuse of slots and any wrap of the clock.                    *)
THEOREM FaultsAreExact == Spec => []FaultsExact
<1>1. SimInv => FaultsExact
  <2> SUFFICES ASSUME SimInv, phase = "sample"
               PROVE  /\ Shown = {a.type : a \in asked}
                      /\ "BATTERY_SAG" \in Shown =>
                            models.battery.sag_target_v \in
                              {a.param : a \in {x \in asked : x.type = "BATTERY_SAG"}}
    BY DEF FaultsExact
  <2>1. \A i : /\ Entry(sim_wall_ms, i, slots[i]).type = slots[i].type
              /\ Entry(sim_wall_ms, i, slots[i]).param = slots[i].param
    BY DEF Entry
  <2>2. asked = {Entry(sim_wall_ms, i, slots[i]) : i \in On}
    BY DEF SimInv, SlotInv
  <2>3. Shown = {a.type : a \in asked}
    BY <2>1, <2>2 DEF SimInv, ShownInv
  <2>4. ASSUME "BATTERY_SAG" \in Shown
        PROVE  models.battery.sag_target_v \in
                 {a.param : a \in {x \in asked : x.type = "BATTERY_SAG"}}
    BY <2>1, <2>2, <2>4 DEF SimInv, ShownInv, Sags
  <2> QED BY <2>3, <2>4
<1> QED BY <1>1, SimInvariant, PTL

(* STATUS tells the ground station the faults that are on.                 *)
THEOREM StatusIsTruthful == Spec => []StatusTruthful
<1>1. SimInv => StatusTruthful
  <2> SUFFICES ASSUME SimInv, phase = "tcp"
               PROVE  fault_get_flags = {a.type : a \in asked} \ {"PACKET_CORRUPT"}
    BY DEF StatusTruthful
  <2>1. {j \in SlotIds : slots[j].active} = On
    BY DEF SimInv, SlotInv, On
  <2>2. \A i : Entry(sim_wall_ms, i, slots[i]).type = slots[i].type
    BY DEF Entry
  <2>3. {slots[i].type : i \in On} = {a.type : a \in asked}
    BY <2>2 DEF SimInv, SlotInv
  <2> QED BY <2>1, <2>3 DEF fault_get_flags
<1> QED BY <1>1, SimInvariant, PTL

(* "ERR no free fault slots" is said only when FAULT_SLOTS faults are on.  *)
THEOREM RefusalIsJustified == Spec => []RefusedOnlyWhenFull
<1>1. SimInv => RefusedOnlyWhenFull
  <2> SUFFICES ASSUME SimInv, phase = "tcp", refused PROVE Cardinality(asked) = FAULT_SLOTS
    BY DEF RefusedOnlyWhenFull
  <2>1. On = SlotIds
    BY DEF SimInv, RefusedInv, SlotInv, Free, On
  <2> DEFINE E(i) == Entry(sim_wall_ms, i, slots[i])
             f == [i \in SlotIds |-> E(i)]
  <2>2. \A i \in SlotIds : E(i).slot = i
    BY DEF Entry
  <2>3. asked = {E(i) : i \in SlotIds}
    BY <2>1 DEF SimInv, SlotInv
  <2> HIDE DEF E
  <2>4. f \in Bijection(SlotIds, asked)
    BY <2>2, <2>3 DEF Bijection, Injection, Surjection, IsInjective
  <2>5. ExistsBijection(SlotIds, asked)
    BY <2>4 DEF ExistsBijection
  <2>6. IsFiniteSet(SlotIds) /\ Cardinality(SlotIds) = FAULT_SLOTS
    BY SlotsAssumption, FS_Interval DEF SlotIds
  <2> QED BY <2>5, <2>6, FS_Bijection
<1> QED BY <1>1, SimInvariant, PTL

(* A frozen IMU repeats itself until the faults are cleared.               *)
THEOREM FreezeIsHeld == Spec => FreezeHolds
<1>1. SimInv /\ [Next]_vars =>
        [Go("sample", "tcp") /\ models.frozen /\ held => imu_out' = imu_out]_vars
  <2> SUFFICES ASSUME SimInv, Next, Go("sample", "tcp"), models.frozen, held
               PROVE  imu_out' = imu_out
    BY DEF vars
  <2>1. Sample
    BY DEF Next, Loop, LoopTop, FaultTick, LoopEnd, scenario_motion, scenario_command,
       handle_command, Command, Go
  <2> QED BY <2>1 DEF Sample, imu_tick, SimInv, HeldInv
<1> QED BY <1>1, SimInvariant, PTL DEF Spec, FreezeHolds

=============================================================================
