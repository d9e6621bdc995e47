--------------------------- MODULE BlackBoxProofs ---------------------------
(***************************************************************************)
(* For every capacity, sequence width, set of loggers and set of events:   *)
(* the ring of BlackBox keeps its indices in agreement, holds consecutive  *)
(* records, and implements the stalling FIFO of BlackBoxFifo.              *)
(***************************************************************************)
EXTENDS BlackBox, WrapArithmetic, TLAPS

(* The slot k places after index r, for the laps the ring can be at.       *)
LEMMA SlotValue ==
    ASSUME NEW r \in Slots, NEW k \in 0 .. Capacity
    PROVE  (r + k) % Capacity = IF r + k < Capacity THEN r + k
                                                    ELSE r + k - Capacity
<1>1. CASE r + k < Capacity
  BY <1>1, CapacityAssumption, ModSmall, r + k \in 0 .. Capacity - 1 DEF Slots
<1>2. CASE r + k >= Capacity
  <2>1. r + k \in Capacity .. 2 * Capacity - 1
    BY <1>2, CapacityAssumption DEF Slots
  <2> DEFINE a == r + k
  <2>2. a \in Capacity .. 2 * Capacity - 1
    BY <2>1
  <2> HIDE DEF a
  <2>3. a % Capacity = a - Capacity
    BY <2>2, CapacityAssumption, ModWrap
  <2> QED BY <1>2, <2>3, CapacityAssumption DEF Slots, a
<1> QED BY <1>1, <1>2, CapacityAssumption DEF Slots

(* Advancing an index of the ring as blackbox_log and blackbox_read do     *)
(* gives an index of the ring.                                             *)
LEMMA SlotInRange ==
    ASSUME NEW r \in Slots, NEW k \in 0 .. Capacity
    PROVE  (r + k) % Capacity \in Slots
BY SlotValue, CapacityAssumption DEF Slots

(* The next value of the 16-bit sequence counter.                          *)
LEMMA SequenceNext ==
    ASSUME NEW s \in 0 .. SeqMod - 1
    PROVE  /\ (s + 1) % SeqMod = IF s + 1 < SeqMod THEN s + 1 ELSE 0
           /\ (s + 1) % SeqMod \in 0 .. SeqMod - 1
<1>1. SeqMod \in Nat \ {0}
  BY SeqModAssumption, CapacityAssumption
<1>2. CASE s + 1 < SeqMod
  BY <1>1, <1>2, ModSmall, s + 1 \in 0 .. SeqMod - 1
<1>3. CASE s + 1 >= SeqMod
  BY <1>1, <1>3, ModWrap, s + 1 \in SeqMod .. 2 * SeqMod - 1
<1> QED BY <1>1, <1>2, <1>3

(* The sequence number of the record k places into a window of c records   *)
(* that ends before number s, with the wrap of the 16-bit counter.         *)
LEMMA SequenceBack ==
    ASSUME NEW s \in 0 .. SeqMod - 1, NEW c \in 0 .. Capacity, NEW k \in 0 .. c
    PROVE  (s - c + k) % SeqMod = IF s - c + k >= 0 THEN s - c + k
                                                    ELSE s - c + k + SeqMod
<1> DEFINE a == s - c + k
<1>1. SeqMod \in Nat \ {0}
  BY SeqModAssumption, CapacityAssumption
<1>2. a >= -SeqMod
  BY SeqModAssumption, CapacityAssumption
<1>3. a < SeqMod
  BY SeqModAssumption, CapacityAssumption
<1>4. a \in Int
  BY SeqModAssumption, CapacityAssumption
<1> HIDE DEF a
<1>5. CASE a >= 0
  BY <1>1, <1>3, <1>4, <1>5, ModSmall, a \in 0 .. SeqMod - 1 DEF a
<1>6. CASE a < 0
  BY <1>1, <1>2, <1>4, <1>6, ModNegative DEF a
<1> QED BY <1>4, <1>5, <1>6 DEF a

(* SlotValue and SequenceBack, for the named forms.                        *)
LEMMA AtNumber ==
    /\ \A r \in Slots : \A k \in 0 .. Capacity :
           /\ At(r, k) \in Slots
           /\ At(r, k) = IF r + k < Capacity THEN r + k ELSE r + k - Capacity
    /\ \A s \in 0 .. SeqMod - 1 : \A c \in 0 .. Capacity : \A k \in 0 .. c :
           Number(s, c, k) = IF s - c + k >= 0 THEN s - c + k
                                               ELSE s - c + k + SeqMod
BY SlotValue, SlotInRange, SequenceBack DEF At, Number

(* No place further, and once round, is the same slot.                     *)
LEMMA AtHome == ASSUME NEW r \in Slots PROVE At(r, 0) = r /\ At(r, Capacity) = r
<1>1. 0 \in 0 .. Capacity /\ Capacity \in 0 .. Capacity
  BY CapacityAssumption
<1>2. /\ At(r, 0) = IF r + 0 < Capacity THEN r + 0 ELSE r + 0 - Capacity
      /\ At(r, Capacity) = IF r + Capacity < Capacity THEN r + Capacity ELSE r + Capacity - Capacity
  BY <1>1, AtNumber
<1>3. r \in 0 .. Capacity - 1
  BY DEF Slots
<1> QED BY <1>2, <1>3, CapacityAssumption

(* What main's blackbox_init leaves behind is well typed.                  *)
LEMMA TypeInit == Init => TypeOK
<1> SUFFICES ASSUME Init PROVE TypeOK
  OBVIOUS
<1> USE DEF Init, blackbox_init
<1>1. entries \in [Slots -> Records \cup {Blank}]
  BY Zenon
<1>2. overflow \in BOOLEAN /\ pending \in Events
  BY Zenon
<1> QED
  BY <1>1, <1>2, CapacityAssumption, SeqModAssumption, BurstAssumption
     DEF TypeOK, Slots

(* Every step of a logger or of the drain loop keeps the types.            *)
LEMMA TypeStep == TypeOK /\ [Next]_vars => TypeOK'
<1> SUFFICES ASSUME TypeOK, [Next]_vars PROVE TypeOK'
  OBVIOUS
<1> USE DEF TypeOK
<1>1. ASSUME NEW t \in Loggers, NEW e \in Events, blackbox_log_acquire(t, e)
      PROVE  TypeOK'
  BY <1>1 DEF blackbox_log_acquire, ring
<1>2. ASSUME NEW t \in Loggers, blackbox_log(t) PROVE TypeOK'
  <2>1. [sequence |-> sequence, event |-> pending] \in Records
    BY DEF Records
  <2>2. At(write_idx, 1) \in Slots /\ At(read_idx, 1) \in Slots
    BY AtNumber, CapacityAssumption
  <2>3. entries' \in [Slots -> Records \cup {Blank}]
    BY <1>2, <2>1 DEF blackbox_log, NextSequence, Room, Evict
  <2>4. overflow' \in BOOLEAN
    BY <1>2, Zenon DEF blackbox_log, NextSequence, Room, Evict
  <2>5. count' \in 0 .. Capacity /\ read_idx' \in Slots
    BY <1>2, <2>2, CapacityAssumption DEF blackbox_log, NextSequence, Room, Evict
  <2> QED
    BY <1>2, <2>2, <2>3, <2>4, <2>5, SequenceNext DEF blackbox_log, NextSequence, Room, Evict
<1>3. CASE TelemetryTick
  BY <1>3, BurstAssumption DEF TelemetryTick, ring
<1>4. CASE TelemetryDrain
  <2>1. At(read_idx, 1) \in Slots
    BY AtNumber, CapacityAssumption
  <2>2. entries[read_idx] \in Records \cup {Blank}
    OBVIOUS
  <2>3. overflow' \in BOOLEAN
    BY <1>4, Zenon DEF TelemetryDrain, blackbox_read, TakeOldest
  <2>4. count' \in 0 .. Capacity /\ read_idx' \in Slots
    BY <1>4, <2>1, CapacityAssumption
       DEF TelemetryDrain, blackbox_read, TakeOldest, Available
  <2>5. out' \in Records \cup {Blank, NoRecord}
    BY <1>4, <2>2 DEF TelemetryDrain, blackbox_read, TakeOldest
  <2>6. burst' \in 0 .. Burst
    BY <1>4, BurstAssumption DEF TelemetryDrain
  <2> QED
    BY <1>4, <2>3, <2>4, <2>5, <2>6 DEF TelemetryDrain, blackbox_read, TakeOldest
<1>5. CASE UNCHANGED vars
  BY <1>5 DEF vars
<1> QED BY <1>1, <1>2, <1>3, <1>4, <1>5 DEF Next, Log

(* The ring's variables stay in their C ranges: every index is a slot, the *)
(* count never exceeds BLACKBOX_CAPACITY, for blackbox_log, blackbox_read  *)
(* and the drain loop of task_telemetry.                                   *)
THEOREM TypeCorrect == Spec => []TypeOK
BY TypeInit, TypeStep, PTL DEF Spec

(* Advancing an index and then taking k steps is taking k + 1 steps.       *)
LEMMA AtShift ==
    ASSUME NEW r \in Slots, NEW k \in 0 .. Capacity - 1
    PROVE  At(At(r, 1), k) = At(r, k + 1)
<1> USE CapacityAssumption
<1>1. At(r, 1) \in Slots /\ k \in 0 .. Capacity /\ k + 1 \in 0 .. Capacity
  BY AtNumber
<1>2. /\ At(r, 1) = IF r + 1 < Capacity THEN r + 1 ELSE r + 1 - Capacity
      /\ At(r, k + 1) = IF r + (k + 1) < Capacity THEN r + (k + 1)
                                                  ELSE r + (k + 1) - Capacity
      /\ At(At(r, 1), k) = IF At(r, 1) + k < Capacity THEN At(r, 1) + k
                                                     ELSE At(r, 1) + k - Capacity
  BY <1>1, AtNumber
<1> QED BY <1>1, <1>2 DEF Slots

(* The ring invariant: types, indices in agreement, consecutive records.   *)
RingInv == TypeOK /\ IndexAgreement /\ UnreadConsecutive

(* The record blackbox_log writes goes right behind the unread ones, into  *)
(* the slot of none of them unless the ring is full, when it replaces the  *)
(* oldest.                                                                 *)
LEMMA WriteSlot ==
    ASSUME RingInv
    PROVE  /\ count < Capacity =>
                 \A k \in 0 .. count - 1 : Slot(k) # write_idx
           /\ count = Capacity =>
                 /\ write_idx = read_idx
                 /\ \A k \in 1 .. count - 1 : Slot(k) # write_idx
<1> USE CapacityAssumption DEF RingInv, TypeOK, IndexAgreement, Slots
<1>1. \A k \in 0 .. Capacity :
        Slot(k) = IF read_idx + k < Capacity THEN read_idx + k
                                             ELSE read_idx + k - Capacity
  BY AtNumber DEF Slot
<1> QED BY <1>1

(* What a log step does to the window of unread records: it grows by the   *)
(* new record, or, when the ring is full, slides by one.                   *)
LEMMA LogWindow ==
    ASSUME RingInv, NEW t \in Loggers, blackbox_log(t)
    PROVE  LET rec == [sequence |-> sequence, event |-> pending]
           IN  /\ count < Capacity =>
                     /\ count' = count + 1 /\ read_idx' = read_idx
                     /\ overflow' = overflow
                     /\ \A k \in 0 .. count - 1 :
                           entries'[At(read_idx', k)] = entries[Slot(k)]
                     /\ entries'[At(read_idx', count)] = rec
               /\ count = Capacity =>
                     /\ count' = count /\ read_idx' = At(read_idx, 1)
                     /\ \A k \in 0 .. count - 2 :
                           entries'[At(read_idx', k)] = entries[Slot(k + 1)]
                     /\ entries'[At(read_idx', count - 1)] = rec
<1> USE CapacityAssumption
<1> DEFINE rec == [sequence |-> sequence, event |-> pending]
<1>1. entries'[write_idx] = rec
  BY DEF blackbox_log, NextSequence, Room, Evict, RingInv, TypeOK
<1>2. \A i \in Slots : i # write_idx => entries'[i] = entries[i]
  BY DEF blackbox_log, NextSequence, Room, Evict, RingInv, TypeOK
<1>3. read_idx \in Slots /\ count \in 0 .. Capacity
  BY DEF RingInv, TypeOK
<1>4. CASE count < Capacity
  <2>1. count' = count + 1 /\ read_idx' = read_idx /\ overflow' = overflow
    BY <1>3, <1>4 DEF blackbox_log, NextSequence, Room, Evict
  <2>2. ASSUME NEW k \in 0 .. count - 1
        PROVE  entries'[At(read_idx', k)] = entries[Slot(k)]
    <3>1. k \in 0 .. Capacity
      BY <1>3
    <3>2. Slot(k) \in Slots /\ Slot(k) # write_idx
      BY <1>3, <1>4, <3>1, WriteSlot, AtNumber DEF Slot
    <3> QED BY <1>2, <2>1, <3>2 DEF Slot
  <2>3. entries'[At(read_idx', count)] = rec
    BY <1>1, <2>1 DEF RingInv, IndexAgreement, Slot
  <2> QED BY <1>4, <2>1, <2>2, <2>3
<1>5. CASE count = Capacity
  <2>1. count' = count /\ read_idx' = At(read_idx, 1) /\ write_idx = read_idx
    BY <1>3, <1>5, WriteSlot DEF blackbox_log, NextSequence, Room, Evict
  <2>2. ASSUME NEW k \in 0 .. count - 1
        PROVE  At(read_idx', k) = Slot(k + 1)
    BY <1>3, <1>5, <2>1, AtShift DEF Slot
  <2>3. ASSUME NEW k \in 0 .. count - 2
        PROVE  entries'[At(read_idx', k)] = entries[Slot(k + 1)]
    <3>1. k \in 0 .. count - 1 /\ k + 1 \in 1 .. count - 1 /\ k + 1 \in 0 .. Capacity
      BY <1>3
    <3>2. Slot(k + 1) \in Slots /\ Slot(k + 1) # write_idx
      BY <1>3, <1>5, <3>1, WriteSlot, AtNumber DEF Slot
    <3> QED BY <1>2, <2>2, <3>1, <3>2
  <2>4. entries'[At(read_idx', count - 1)] = rec
    <3>1. count - 1 \in 0 .. count - 1 /\ (count - 1) + 1 = count
      BY <1>3, <1>5
    <3>2. At(read_idx', count - 1) = Slot(count)
      BY <2>2, <3>1
    <3> QED BY <1>1, <3>2 DEF RingInv, IndexAgreement
  <2> QED BY <1>5, <2>1, <2>3, <2>4
<1> QED BY <1>3, <1>4, <1>5

(* A log step carries the invariant over, the wrap of the 16-bit sequence  *)
(* counter included.                                                       *)
LEMMA LogKeepsRing ==
    ASSUME RingInv, NEW t \in Loggers, blackbox_log(t), TypeOK'
    PROVE  (IndexAgreement /\ UnreadConsecutive)'
<1> USE CapacityAssumption, SeqModAssumption
<1> DEFINE rec == [sequence |-> sequence, event |-> pending]
<1>1. /\ read_idx \in Slots /\ count \in 0 .. Capacity
      /\ sequence \in 0 .. SeqMod - 1 /\ write_idx \in Slots
      /\ sequence' \in 0 .. SeqMod - 1 /\ write_idx' = At(write_idx, 1)
  BY DEF RingInv, TypeOK, blackbox_log, NextSequence, Room, Evict
<1>2. sequence' = IF sequence + 1 < SeqMod THEN sequence + 1 ELSE 0
  BY <1>1, SequenceNext DEF blackbox_log, NextSequence, Room, Evict
<1>3. rec # Blank /\ rec.sequence = sequence
  BY BlankAssumption DEF RingInv, TypeOK, Records
<1>4. ASSUME NEW k \in 0 .. count - 1
      PROVE  /\ entries[Slot(k)] # Blank
             /\ entries[Slot(k)].sequence = Number(sequence, count, k)
  BY DEF RingInv, UnreadConsecutive
<1>5. CASE count < Capacity
  <2>1. /\ count' = count + 1 /\ read_idx' = read_idx /\ overflow' = overflow
        /\ \A k \in 0 .. count - 1 : entries'[At(read_idx', k)] = entries[Slot(k)]
        /\ entries'[At(read_idx', count)] = rec
    BY <1>5, LogWindow
  <2>2. ~overflow'
    BY <1>5, <2>1 DEF RingInv, TypeOK, IndexAgreement
  <2>3. write_idx' = Slot(count)'
    <3>1. At(At(read_idx, count), 1) = At(read_idx, count + 1)
      <4>1. count \in 0 .. Capacity /\ count + 1 \in 0 .. Capacity
            /\ 1 \in 0 .. Capacity /\ At(read_idx, count) \in Slots
        BY <1>1, <1>5, AtNumber
      <4>2. /\ At(read_idx, count) = IF read_idx + count < Capacity
                 THEN read_idx + count ELSE read_idx + count - Capacity
            /\ At(read_idx, count + 1) = IF read_idx + (count + 1) < Capacity
                 THEN read_idx + (count + 1) ELSE read_idx + (count + 1) - Capacity
            /\ At(At(read_idx, count), 1) = IF At(read_idx, count) + 1 < Capacity
                 THEN At(read_idx, count) + 1
                 ELSE At(read_idx, count) + 1 - Capacity
        BY <1>1, <4>1, AtNumber
      <4> QED BY <1>1, <4>1, <4>2 DEF Slots
    <3> QED BY <1>1, <2>1, <3>1 DEF RingInv, IndexAgreement, Slot
  <2>4. ASSUME NEW k \in 0 .. count
        PROVE  /\ entries'[At(read_idx', k)] # Blank
               /\ entries'[At(read_idx', k)].sequence = Number(sequence', count', k)
    <3>1. k \in 0 .. count' /\ count' \in 0 .. Capacity
      BY <1>1, <1>5, <2>1
    <3>2. /\ Number(sequence, count, k) =
                 IF sequence - count + k >= 0 THEN sequence - count + k
                                              ELSE sequence - count + k + SeqMod
          /\ Number(sequence', count', k) =
                 IF sequence' - count' + k >= 0 THEN sequence' - count' + k
                                                ELSE sequence' - count' + k + SeqMod
      BY <1>1, <3>1, AtNumber
    <3>3. CASE k = count
      <4>1. Number(sequence', count', k) = sequence
        BY <1>1, <1>2, <2>1, <3>2, <3>3
      <4> QED BY <1>3, <2>1, <3>3, <4>1
    <3>4. CASE k < count
      <4>1. Number(sequence, count, k) = Number(sequence', count', k)
        BY <1>1, <1>2, <1>5, <2>1, <3>2, <3>4
      <4> QED BY <1>1, <1>4, <2>1, <3>4, <4>1
    <3> QED BY <1>1, <3>3, <3>4
  <2>5. 0 .. count' - 1 = 0 .. count
    BY <1>1, <2>1
  <2> QED BY <2>2, <2>3, <2>4, <2>5 DEF IndexAgreement, UnreadConsecutive, Slot
<1>6. CASE count = Capacity
  <2>1. /\ count' = count /\ read_idx' = At(read_idx, 1)
        /\ \A k \in 0 .. count - 2 :
              entries'[At(read_idx', k)] = entries[Slot(k + 1)]
        /\ entries'[At(read_idx', count - 1)] = rec
    BY <1>6, LogWindow
  <2>2. write_idx' = Slot(count)'
    <3>1. At(read_idx, 1) \in Slots /\ Capacity \in 0 .. Capacity
      BY <1>1, AtNumber
    <3>2. At(At(read_idx, 1), Capacity) = At(read_idx, 1)
      BY <3>1, AtNumber DEF Slots
    <3>3. write_idx = read_idx
      BY <1>6, WriteSlot
    <3> QED BY <1>1, <1>6, <2>1, <3>2, <3>3 DEF Slot
  <2>3. ASSUME NEW k \in 0 .. count - 1
        PROVE  /\ entries'[At(read_idx', k)] # Blank
               /\ entries'[At(read_idx', k)].sequence = Number(sequence', count', k)
    <3>1. k \in 0 .. count /\ k + 1 \in 0 .. count
      BY <1>1
    <3>2. /\ Number(sequence, count, k + 1) =
                 IF sequence - count + (k + 1) >= 0
                 THEN sequence - count + (k + 1) ELSE sequence - count + (k + 1) + SeqMod
          /\ Number(sequence', count, k) =
                 IF sequence' - count + k >= 0 THEN sequence' - count + k
                                               ELSE sequence' - count + k + SeqMod
      BY <1>1, <3>1, AtNumber
    <3>3. CASE k = count - 1
      <4>1. Number(sequence', count, k) = sequence
        BY <1>1, <1>2, <1>6, <3>2, <3>3
      <4> QED BY <1>3, <2>1, <3>3, <4>1
    <3>4. CASE k < count - 1
      <4>1. Number(sequence, count, k + 1) = Number(sequence', count, k)
        BY <1>1, <1>2, <1>6, <3>2, <3>4
      <4>2. k \in 0 .. count - 2 /\ k + 1 \in 0 .. count - 1
        BY <1>1, <3>4
      <4> QED BY <1>4, <2>1, <4>1, <4>2
    <3> QED BY <1>1, <3>3, <3>4
  <2> QED BY <1>6, <2>1, <2>2, <2>3 DEF IndexAgreement, UnreadConsecutive, Slot
<1> QED BY <1>1, <1>5, <1>6

(* Reading the oldest record moves the window on by one slot.              *)
LEMMA ReadKeepsRing ==
    ASSUME RingInv, TelemetryDrain, TypeOK'
    PROVE  (IndexAgreement /\ UnreadConsecutive)'
<1> USE CapacityAssumption, SeqModAssumption
<1>1. /\ UNCHANGED <<entries, write_idx, sequence>>
      /\ read_idx \in Slots /\ count \in 0 .. Capacity
      /\ sequence \in 0 .. SeqMod - 1
  BY DEF TelemetryDrain, blackbox_read, TakeOldest, RingInv, TypeOK
<1>2. CASE Available
  <2>1. /\ read_idx' = At(read_idx, 1) /\ count' = count - 1 /\ ~overflow'
        /\ count > 0
    BY <1>2 DEF TelemetryDrain, blackbox_read, TakeOldest, Available
  <2>2. ASSUME NEW k \in 0 .. count - 1
        PROVE  Slot(k)' = Slot(k + 1)
    BY <1>1, <2>1, AtShift DEF Slot
  <2>3. write_idx' = Slot(count)'
    BY <1>1, <2>1, <2>2 DEF RingInv, IndexAgreement, Slot
  <2>4. ASSUME NEW k \in 0 .. count - 2
        PROVE  /\ entries'[Slot(k)'] # Blank
               /\ entries'[Slot(k)'].sequence = Number(sequence', count', k)
    <3>1. k + 1 \in 0 .. count - 1 /\ k \in 0 .. count - 1
      BY <1>1
    <3>2. /\ entries[Slot(k + 1)] # Blank
          /\ entries[Slot(k + 1)].sequence = Number(sequence, count, k + 1)
      BY <3>1 DEF RingInv, UnreadConsecutive
    <3>3. sequence - count + (k + 1) = sequence - (count - 1) + k
      BY <1>1
    <3>4. Number(sequence, count, k + 1) = Number(sequence', count', k)
      BY <1>1, <2>1, <3>3 DEF Number
    <3> QED BY <1>1, <2>2, <3>1, <3>2, <3>4
  <2>5. 0 .. count' - 1 = 0 .. count - 2
    BY <1>1, <2>1
  <2> QED BY <2>1, <2>3, <2>4, <2>5 DEF IndexAgreement, UnreadConsecutive
<1>3. CASE ~Available
  BY <1>1, <1>3 DEF RingInv, TelemetryDrain, blackbox_read, TakeOldest, IndexAgreement,
                    UnreadConsecutive, Slot, Number, At
<1> QED BY <1>2, <1>3

(* The steps that leave the ring alone leave its invariant alone.          *)
LEMMA IdleKeepsRing ==
    ASSUME RingInv, UNCHANGED ring
    PROVE  (IndexAgreement /\ UnreadConsecutive)'
BY DEF RingInv, ring, IndexAgreement, UnreadConsecutive, Slot, Number, At

(* Between any interleaving of loggers and the drain loop, the indices of  *)
(* blackbox_t describe one window of the ring, and that window holds       *)
(* records with consecutive sequence numbers, none lost and none repeated. *)
THEOREM RingCorrect == Spec => []RingInv
<1>1. Init => RingInv
  <2> SUFFICES ASSUME Init PROVE RingInv
    OBVIOUS
  <2>1. TypeOK
    BY TypeInit
  <2>2. write_idx = Slot(count)
    BY CapacityAssumption, 0 \in Slots, 0 \in 0 .. Capacity, AtNumber
       DEF Init, blackbox_init, Slot, Slots
  <2> QED BY <2>1, <2>2 DEF RingInv, Init, blackbox_init, IndexAgreement,
                            UnreadConsecutive
<1>2. RingInv /\ [Next]_vars => RingInv'
  <2> SUFFICES ASSUME RingInv, [Next]_vars PROVE RingInv'
    OBVIOUS
  <2>1. TypeOK'
    BY TypeStep DEF RingInv
  <2>2. ASSUME NEW t \in Loggers, blackbox_log(t) PROVE RingInv'
    BY <2>1, <2>2, LogKeepsRing DEF RingInv
  <2>3. CASE TelemetryDrain
    BY <2>1, <2>3, ReadKeepsRing DEF RingInv
  <2>4. ASSUME NEW t \in Loggers, NEW e \in Events, blackbox_log_acquire(t, e)
        PROVE  RingInv'
    BY <2>1, <2>4, IdleKeepsRing DEF RingInv, blackbox_log_acquire
  <2>5. CASE TelemetryTick
    BY <2>1, <2>5, IdleKeepsRing DEF RingInv, TelemetryTick
  <2>6. CASE UNCHANGED vars
    BY <2>1, <2>6, IdleKeepsRing DEF RingInv, vars, ring
  <2> QED BY <2>2, <2>3, <2>4, <2>5, <2>6 DEF Next, Log
<1> QED BY <1>1, <1>2, PTL DEF Spec

(* The two parts of the ring invariant by name: the indices agree ...      *)
THEOREM IndicesAgree == Spec => []IndexAgreement
<1>1. RingInv => IndexAgreement
  BY DEF RingInv
<1> QED BY <1>1, RingCorrect, PTL

(* ... and eviction and reading never leave a gap or a repeat.             *)
THEOREM NoGapNoRepeat == Spec => []UnreadConsecutive
<1>1. RingInv => UnreadConsecutive
  BY DEF RingInv
<1> QED BY <1>1, RingCorrect, PTL

(* The unlocked blackbox_peek never sees an unread record half written,    *)
(* except in a full ring.                                                  *)
THEOREM PeekIntact == Spec => []PeekUnreadIntact
<1>1. RingInv => PeekUnreadIntact
  <2> SUFFICES ASSUME RingInv, count < Capacity, NEW k \in 0 .. count - 1
               PROVE  blackbox_peek(Slot(k)) # Torn
    BY DEF PeekUnreadIntact
  <2>1. Slot(k) # write_idx
    BY WriteSlot
  <2>2. Slot(k) \in Slots
    BY AtNumber, CapacityAssumption DEF RingInv, TypeOK, Slot
  <2>3. entries[Slot(k)] # Torn
    BY <2>2, TornAssumption DEF RingInv, TypeOK
  <2> QED BY <2>1, <2>3 DEF blackbox_peek
<1> QED BY <1>1, RingCorrect, PTL

(* The c records of ring e from index r on, as the sequence of the FIFO.   *)
LEMMA WindowIsSeq ==
    ASSUME NEW e \in [Slots -> Records \cup {Blank}], NEW r \in Slots,
           NEW c \in 0 .. Capacity
    PROVE  LET u == [k \in 1 .. c |-> e[At(r, k - 1)]]
           IN  /\ u \in Seq(Records \cup {Blank})
               /\ Len(u) = c
               /\ \A i \in 1 .. c : u[i] = e[At(r, i - 1)]
<1>1. \A i \in 1 .. c : e[At(r, i - 1)] \in Records \cup {Blank}
  <2> TAKE i \in 1 .. c
  <2>1. i - 1 \in 0 .. Capacity
    BY CapacityAssumption
  <2>2. At(r, i - 1) \in Slots
    BY <2>1, AtNumber
  <2> QED BY <2>2
<1> QED BY <1>1

(* A log step of the ring is a log step of the FIFO, with the eviction of  *)
(* the oldest record exactly when the ring is full.                        *)
LEMMA LogRefines ==
    ASSUME RingInv, TypeOK', NEW t \in Loggers, blackbox_log(t)
    PROVE  \E r \in Records : Fifo!FifoLog(r)
<1> USE CapacityAssumption
<1> DEFINE rec == [sequence |-> sequence, event |-> pending]
<1>1. rec \in Records
  BY DEF RingInv, TypeOK, Records
<1>2. /\ Unread \in Seq(Records \cup {Blank}) /\ Len(Unread) = count
      /\ \A i \in 1 .. count : Unread[i] = entries[Slot(i - 1)]
      /\ count \in 0 .. Capacity
  BY WindowIsSeq DEF RingInv, TypeOK, Unread, Slot
<1>3. /\ Unread' \in Seq(Records \cup {Blank}) /\ Len(Unread') = count'
      /\ \A i \in 1 .. count' : Unread'[i] = entries'[At(read_idx', i - 1)]
  BY WindowIsSeq DEF TypeOK, Unread, Slot
<1> HIDE DEF rec
<1>4. CASE count < Capacity
  <2>1. /\ count' = count + 1
        /\ \A k \in 0 .. count - 1 : entries'[At(read_idx', k)] = entries[Slot(k)]
        /\ entries'[At(read_idx', count)] = rec
    BY <1>4, LogWindow DEF rec
  <2>2. ASSUME NEW i \in 1 .. count PROVE Unread'[i] = Unread[i]
    <3>1. i \in 1 .. count' /\ i - 1 \in 0 .. count - 1
      BY <1>2, <2>1
    <3> QED BY <1>2, <1>3, <2>1, <3>1
  <2>3. Unread'[count + 1] = rec
    <3>1. count + 1 \in 1 .. count' /\ (count + 1) - 1 = count
      BY <1>2, <2>1
    <3> QED BY <1>3, <2>1, <3>1
  <2>4. Unread' = Append(Unread, rec)
    BY <1>1, <1>2, <1>3, <2>1, <2>2, <2>3
  <2> QED BY <1>1, <1>2, <1>4, <2>4 DEF Fifo!FifoLog, blackbox_log, NextSequence, Room, Evict
<1>5. CASE count = Capacity
  <2>1. /\ count' = count
        /\ \A k \in 0 .. count - 2 :
              entries'[At(read_idx', k)] = entries[Slot(k + 1)]
        /\ entries'[At(read_idx', count - 1)] = rec
    BY <1>5, LogWindow DEF rec
  <2>2. ASSUME NEW i \in 1 .. count - 1 PROVE Unread'[i] = Unread[i + 1]
    <3>1. /\ i \in 1 .. count' /\ i + 1 \in 1 .. count /\ i - 1 \in 0 .. count - 2
          /\ (i - 1) + 1 = (i + 1) - 1
      BY <1>2, <2>1
    <3> QED BY <1>2, <1>3, <2>1, <3>1
  <2>3. Unread'[count] = rec
    <3>1. count \in 1 .. count'
      BY <1>2, <1>5, <2>1
    <3> QED BY <1>3, <2>1, <3>1
  <2>4. /\ Tail(Unread) \in Seq(Records \cup {Blank})
        /\ Len(Tail(Unread)) = count - 1
        /\ \A i \in 1 .. count - 1 : Tail(Unread)[i] = Unread[i + 1]
    BY <1>2, <1>5
  <2>5. Unread' = Append(Tail(Unread), rec)
    BY <1>1, <1>2, <1>3, <1>5, <2>1, <2>2, <2>3, <2>4
  <2> QED BY <1>1, <1>2, <1>5, <2>5 DEF Fifo!FifoLog, blackbox_log, NextSequence, Room, Evict
<1> QED BY <1>2, <1>4, <1>5

(* A read of the drain loop is a read of the FIFO, of the oldest record or *)
(* of nothing when the FIFO is empty; it is refused when the ring is full  *)
(* and the overflow flag is down.                                          *)
LEMMA ReadRefines ==
    ASSUME RingInv, TypeOK', TelemetryDrain
    PROVE  ReadResult
<1> USE CapacityAssumption
<1>1. /\ Unread \in Seq(Records \cup {Blank}) /\ Len(Unread) = count
      /\ \A i \in 1 .. count : Unread[i] = entries[Slot(i - 1)]
      /\ count \in 0 .. Capacity /\ read_idx \in Slots
  BY WindowIsSeq DEF RingInv, TypeOK, Unread, Slot
<1>2. /\ Unread' \in Seq(Records \cup {Blank}) /\ Len(Unread') = count'
      /\ \A i \in 1 .. count' : Unread'[i] = entries'[At(read_idx', i - 1)]
  BY WindowIsSeq DEF TypeOK, Unread, Slot
<1>3. CASE Available
  <2>1. /\ read_idx' = At(read_idx, 1) /\ count' = count - 1 /\ count > 0
        /\ entries' = entries /\ out' = entries[read_idx]
    BY <1>3 DEF TelemetryDrain, blackbox_read, TakeOldest, Available
  <2>2. Slot(0) = read_idx
    BY <1>1, AtHome DEF Slot
  <2>3. Head(Unread) = entries[read_idx]
    BY <1>1, <2>1, <2>2
  <2>4. ASSUME NEW i \in 1 .. count - 1 PROVE Unread'[i] = Unread[i + 1]
    <3>1. /\ i \in 1 .. count' /\ i + 1 \in 1 .. count
          /\ i - 1 \in 0 .. Capacity - 1 /\ (i - 1) + 1 = (i + 1) - 1
      BY <1>1, <2>1
    <3>2. At(read_idx', i - 1) = Slot((i + 1) - 1)
      BY <1>1, <2>1, <3>1, AtShift DEF Slot
    <3> QED BY <1>1, <1>2, <2>1, <3>1, <3>2
  <2>5. /\ Tail(Unread) \in Seq(Records \cup {Blank})
        /\ Len(Tail(Unread)) = count - 1
        /\ \A i \in 1 .. count - 1 : Tail(Unread)[i] = Unread[i + 1]
    BY <1>1, <2>1
  <2>6. Unread' = Tail(Unread)
    BY <1>1, <1>2, <2>1, <2>4, <2>5
  <2>7. ~(count = Capacity /\ ~overflow)
    <3>1. At(read_idx, Capacity) = read_idx
      BY <1>1, AtHome
    <3> QED BY <1>3, <3>1 DEF Available, RingInv, IndexAgreement, Slot
  <2> QED BY <1>1, <2>1, <2>3, <2>6, <2>7 DEF Fifo!FifoRead, ReadResult
<1>4. CASE ~Available
  <2>1. UNCHANGED <<entries, read_idx, count>> /\ out' = NoRecord
    BY <1>4 DEF TelemetryDrain, blackbox_read, TakeOldest
  <2>2. Unread' = Unread
    BY <2>1 DEF Unread, Slot, At
  <2>3. CASE count = 0
    <3>1. Unread = <<>> /\ count # Capacity
      BY <1>1, <2>3
    <3> QED BY <2>1, <2>2, <3>1 DEF Fifo!FifoReadNothing, ReadResult
  <2>4. CASE count # 0
    <3>1. At(read_idx, count) = read_idx
      BY <1>1, <1>4, <2>4 DEF Available, RingInv, IndexAgreement, Slot
    <3>2. At(read_idx, count) = IF read_idx + count < Capacity
                                THEN read_idx + count ELSE read_idx + count - Capacity
      BY <1>1, AtNumber
    <3>3. count = Capacity
      BY <1>1, <2>4, <3>1, <3>2 DEF Slots
    <3> QED BY <1>1, <1>4, <2>1, <2>2, <2>4, <3>3 DEF Fifo!FifoStall, ReadResult, Available
  <2> QED BY <2>3, <2>4
<1> QED BY <1>3, <1>4

(* The recorder implements the bounded drop-oldest FIFO that may refuse a  *)
(* read when it is exactly full: to the logging tasks and to the telemetry *)
(* task the ring, its three indices and its flag are indistinguishable     *)
(* from that queue.                                                        *)
THEOREM RingRefinesStallingFifo == Spec => RefinesStallingFifo
<1>1. Init => Fifo!FifoInit
  <2> SUFFICES ASSUME Init PROVE Fifo!FifoInit
    OBVIOUS
  <2>1. Unread = <<>>
    BY DEF Init, blackbox_init, Unread
  <2> QED BY <2>1 DEF Init, Fifo!FifoInit
<1>2. RingInv /\ RingInv' /\ [Next]_vars => [Fifo!FifoNext \/ Fifo!FifoStall]_(Fifo!fvars)
  <2> SUFFICES ASSUME RingInv, RingInv', [Next]_vars
               PROVE  [Fifo!FifoNext \/ Fifo!FifoStall]_(Fifo!fvars)
    OBVIOUS
  <2>1. ASSUME NEW t \in Loggers, blackbox_log(t) PROVE Fifo!FifoNext
    BY <2>1, LogRefines DEF RingInv, Fifo!FifoNext
  <2>2. CASE TelemetryDrain
    BY <2>2, ReadRefines DEF RingInv, ReadResult, Fifo!FifoNext
  <2>3. ASSUME UNCHANGED <<ring, out>> PROVE UNCHANGED Fifo!fvars
    BY <2>3 DEF ring, Fifo!fvars, Unread, Slot, At
  <2>4. ASSUME NEW t \in Loggers, NEW e \in Events, blackbox_log_acquire(t, e)
        PROVE  UNCHANGED <<ring, out>>
    BY <2>4 DEF blackbox_log_acquire
  <2>5. CASE TelemetryTick
    BY <2>3, <2>5 DEF TelemetryTick
  <2>6. CASE UNCHANGED vars
    BY <2>3, <2>6 DEF vars, ring
  <2> QED BY <2>1, <2>2, <2>3, <2>4, <2>5, <2>6 DEF Next, Log
<1> QED BY <1>1, <1>2, RingCorrect, PTL DEF Spec, RefinesStallingFifo, Fifo!StallingSpec

(* Where the code departs from blackbox.h, for every capacity: a read of   *)
(* an exactly full ring whose overflow flag is down is always refused, and *)
(* every other read is answered as the header says.                        *)
THEOREM OnlyFullRingRefuses == Spec => [][TelemetryDrain => ReadResult]_vars
<1>1. RingInv /\ RingInv' /\ [Next]_vars => [TelemetryDrain => ReadResult]_vars
  BY ReadRefines DEF RingInv
<1> QED BY <1>1, RingCorrect, PTL DEF Spec

(* The whole API, rewind included.  Rewinds break the agreement of indices *)
(* and count; what remains is that the slots fill up in order: until the   *)
(* ring has been filled once, the sequence number is the write index and   *)
(* the read index is at or behind it, and from then on no slot is blank.   *)
Filled == \A i \in Slots : entries[i] # Blank
Filling ==
    /\ \A i \in 0 .. write_idx - 1 : entries[i] # Blank
    /\ sequence = write_idx
    /\ read_idx <= write_idx /\ count <= write_idx
    /\ ~overflow
ApiInv == TypeOK /\ NeverReadsBlank /\ (Filled \/ Filling)

LEMMA ApiLogStep ==
    ASSUME ApiInv, TypeOK', NEW t \in Loggers, blackbox_log(t)
    PROVE  NeverReadsBlank' /\ (Filled' \/ Filling')
<1> USE CapacityAssumption, SeqModAssumption
<1> DEFINE rec == [sequence |-> sequence, event |-> pending]
<1>1. rec # Blank
  BY BlankAssumption DEF ApiInv, TypeOK, Records
<1>2. /\ write_idx \in Slots /\ read_idx \in Slots /\ count \in 0 .. Capacity
      /\ entries'[write_idx] = rec
      /\ \A i \in Slots : i # write_idx => entries'[i] = entries[i]
  BY DEF ApiInv, TypeOK, blackbox_log
<1> HIDE DEF rec
<1>3. write_idx' = IF write_idx + 1 < Capacity THEN write_idx + 1 ELSE 0
  <2>1. write_idx' = At(write_idx, 1) /\ 1 \in 0 .. Capacity
    BY DEF blackbox_log
  <2>2. At(write_idx, 1) = IF write_idx + 1 < Capacity THEN write_idx + 1
                                                       ELSE write_idx + 1 - Capacity
    BY <1>2, <2>1, AtNumber
  <2> QED BY <1>2, <2>1, <2>2 DEF Slots
<1>4. NeverReadsBlank'
  BY DEF ApiInv, NeverReadsBlank, blackbox_log
<1>5. CASE Filled
  BY <1>1, <1>2, <1>4, <1>5 DEF Filled
<1>6. CASE Filling
  <2>1. \A i \in 0 .. write_idx : entries'[i] # Blank
    BY <1>1, <1>2, <1>6 DEF Filling, Slots
  <2>2. CASE write_idx + 1 < Capacity
    <3>1. sequence \in 0 .. SeqMod - 1 /\ sequence = write_idx /\ count < Capacity
      BY <1>2, <1>6 DEF ApiInv, TypeOK, Filling, Slots
    <3>2. sequence' = write_idx'
      BY <1>2, <1>3, <2>2, <3>1, SequenceNext DEF blackbox_log, NextSequence, Slots
    <3>3. count' = count + 1 /\ read_idx' = read_idx /\ overflow' = overflow
      BY <3>1 DEF blackbox_log, Room
    <3>4. Filling'
      BY <1>2, <1>3, <1>6, <2>1, <2>2, <3>2, <3>3 DEF Filling, Slots
    <3> QED BY <1>4, <3>4
  <2>3. CASE write_idx + 1 >= Capacity
    <3>1. Slots = 0 .. write_idx
      BY <1>2, <2>3 DEF Slots
    <3> QED BY <1>4, <2>1, <3>1 DEF Filled
  <2> QED BY <1>2, <2>2, <2>3 DEF Slots
<1> QED BY <1>5, <1>6 DEF ApiInv

LEMMA ApiReadStep ==
    ASSUME ApiInv, TypeOK', TelemetryDrain
    PROVE  NeverReadsBlank' /\ (Filled' \/ Filling')
<1> USE CapacityAssumption
<1>1. /\ UNCHANGED <<entries, write_idx, sequence>>
      /\ write_idx \in Slots /\ read_idx \in Slots /\ count \in 0 .. Capacity
  BY DEF ApiInv, TypeOK, TelemetryDrain, blackbox_read
<1>2. CASE ~Available
  <2>1. out' = NoRecord /\ UNCHANGED <<read_idx, count, overflow>>
    BY <1>2 DEF TelemetryDrain, blackbox_read
  <2> QED BY <1>1, <2>1, NoRecordAssumption DEF ApiInv, NeverReadsBlank, Filled, Filling
<1>3. CASE Available
  <2>1. /\ out' = entries[read_idx] /\ count' = count - 1 /\ overflow' = FALSE
        /\ read_idx' = At(read_idx, 1)
    BY <1>3 DEF TelemetryDrain, blackbox_read, TakeOldest
  <2>2. CASE Filled
    BY <1>1, <2>1, <2>2 DEF NeverReadsBlank, Filled
  <2>3. CASE Filling
    <3>1. read_idx < write_idx
      BY <1>1, <1>3, <2>3 DEF Available, Filling, Slots
    <3>2. entries[read_idx] # Blank
      BY <1>1, <2>3, <3>1 DEF Filling, Slots
    <3>3. read_idx' = read_idx + 1
      BY <1>1, <2>1, <3>1, AtNumber DEF Slots
    <3> QED BY <1>1, <2>1, <2>3, <3>1, <3>2, <3>3 DEF NeverReadsBlank, Filling, Slots
  <2> QED BY <2>2, <2>3 DEF ApiInv
<1> QED BY <1>2, <1>3

LEMMA ApiRewindStep == ASSUME ApiInv, blackbox_rewind PROVE ApiInv'
<1>1. write_idx \in Slots /\ 0 \in Slots
  BY CapacityAssumption DEF ApiInv, TypeOK, Slots
<1>2. TypeOK'
  BY <1>1 DEF ApiInv, TypeOK, blackbox_rewind, Oldest
<1>3. CASE Filled
  BY <1>2, <1>3 DEF ApiInv, NeverReadsBlank, Filled, blackbox_rewind
<1>4. CASE Filling
  <2>1. read_idx' = 0
    BY <1>1, <1>4, CapacityAssumption DEF blackbox_rewind, Oldest, Filling, Slots
  <2>2. Filling'
    BY <1>1, <1>4, <2>1 DEF blackbox_rewind, Filling, Slots
  <2> QED BY <1>2, <2>2 DEF ApiInv, NeverReadsBlank, blackbox_rewind
<1> QED BY <1>3, <1>4 DEF ApiInv

(* Whatever the order of logs, reads and rewinds, and across every wrap of *)
(* the 16-bit counter, blackbox_read hands over records only.              *)
THEOREM BlankIsNeverRead == ApiSpec => []NeverReadsBlank
<1>1. Init => ApiInv
  <2> SUFFICES ASSUME Init PROVE ApiInv
    OBVIOUS
  <2>1. Filling /\ NeverReadsBlank
    BY NoRecordAssumption DEF Init, blackbox_init, Filling, NeverReadsBlank
  <2> QED BY <2>1, TypeInit DEF ApiInv
<1>2. ApiInv /\ [Next \/ blackbox_rewind]_vars => ApiInv'
  <2> SUFFICES ASSUME ApiInv, [Next \/ blackbox_rewind]_vars PROVE ApiInv'
    OBVIOUS
  <2>1. CASE blackbox_rewind
    BY <2>1, ApiRewindStep
  <2>2. CASE [Next]_vars
    <3>1. TypeOK'
      BY <2>2, TypeStep DEF ApiInv
    <3>2. ASSUME NEW t \in Loggers, blackbox_log(t) PROVE ApiInv'
      BY <3>1, <3>2, ApiLogStep DEF ApiInv
    <3>3. CASE TelemetryDrain
      BY <3>1, <3>3, ApiReadStep DEF ApiInv
    <3>4. CASE UNCHANGED <<ring, out>>
      BY <3>1, <3>4 DEF ApiInv, NeverReadsBlank, Filled, Filling, ring
    <3>5. ASSUME NEW t \in Loggers, NEW e \in Events, blackbox_log_acquire(t, e)
          PROVE  ApiInv'
      BY <3>4, <3>5 DEF blackbox_log_acquire
    <3>6. CASE TelemetryTick \/ UNCHANGED vars
      BY <3>4, <3>6 DEF TelemetryTick, vars, ring
    <3> QED BY <2>2, <3>2, <3>3, <3>5, <3>6 DEF Next, Log
  <2> QED BY <2>1, <2>2
<1>3. ApiInv => NeverReadsBlank
  BY DEF ApiInv
<1> QED BY <1>1, <1>2, <1>3, PTL DEF ApiSpec

=============================================================================
