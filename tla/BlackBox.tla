------------------------------ MODULE BlackBox ------------------------------
(***************************************************************************)
(* The flight recorder of the firmware: the ring buffer of blackbox.c, the *)
(* tasks that log into it, and the drain loop of task_telemetry.c, its     *)
(* only reader.                                                            *)
(* Definitions introduced as BUG are not part of the model: each is a form *)
(* of the definition below it that some property must reject.              *)
(*                                                                         *)
(* Every blackbox_* operation that takes s_mutex is one step taken while   *)
(* the mutex is free, except blackbox_log: acquiring the mutex and         *)
(* publishing the record are two steps, so that what runs in between is    *)
(* explored.  The record under construction is in `pending'; only the      *)
(* unlocked blackbox_peek can see the slot meanwhile.                      *)
(***************************************************************************)
EXTENDS Integers, Sequences

CONSTANTS Capacity,   \* BLACKBOX_CAPACITY, 512
          SeqMod,     \* 2^16: the sequence counter is a uint16_t
          Burst,      \* TELEM_BLACKBOX_BURST, 4
          Loggers,    \* the tasks that call blackbox_log
          Events,     \* bb_event_type_t and what a record carries with it
          NoTask,     \* the mutex is free
          Blank,      \* a slot as blackbox_init left it
          Torn,       \* what a peek sees of a record being rewritten
          NoRecord    \* blackbox_read returned false

ASSUME CapacityAssumption == Capacity \in Nat \ {0}
ASSUME SeqModAssumption == SeqMod \in Nat /\ SeqMod > Capacity
ASSUME BurstAssumption == Burst \in Nat \ {0}
ASSUME NoTaskAssumption == NoTask \notin Loggers

VARIABLES entries,    \* the ring
          write_idx, read_idx, count, sequence, overflow,
          mutex,      \* the task that holds s_mutex, or NoTask
          pending,    \* the event of the record being written under s_mutex
          burst,      \* reads left in this telemetry tick
          out         \* the record the latest blackbox_read returned

ring == <<entries, write_idx, read_idx, count, sequence, overflow>>
vars == <<entries, write_idx, read_idx, count, sequence, overflow,
          mutex, pending, burst, out>>

Slots   == 0 .. Capacity - 1
Records == [sequence : 0 .. SeqMod - 1, event : Events]

(* The slot k places after slot i; BUG: no wrap.                           *)
AtNoWrap(i, k) == i + k
At(i, k) == (i + k) % Capacity

ASSUME BlankAssumption == Blank \notin Records
ASSUME TornAssumption == Torn \notin Records \cup {Blank}
ASSUME NoRecordAssumption == NoRecord \notin Records \cup {Blank}

TypeOK ==
    /\ entries \in [Slots -> Records \cup {Blank}]
    /\ write_idx \in Slots
    /\ read_idx \in Slots
    /\ count \in 0 .. Capacity
    /\ sequence \in 0 .. SeqMod - 1
    /\ overflow \in BOOLEAN
    /\ mutex \in Loggers \cup {NoTask}
    /\ pending \in Events
    /\ burst \in 0 .. Burst
    /\ out \in Records \cup {Blank, NoRecord}

(* blackbox_init, called by main before any task exists.                   *)
blackbox_init ==
    /\ entries = [i \in Slots |-> Blank]
    /\ write_idx = 0
    /\ read_idx = 0
    /\ count = 0
    /\ sequence = 0
    /\ overflow = FALSE
    /\ mutex = NoTask

Init ==
    /\ blackbox_init
    /\ pending \in Events
    /\ burst = 0
    /\ out = NoRecord

(* blackbox_log up to osMutexAcquire.                                      *)
blackbox_log_acquire(t, e) ==
    /\ mutex = NoTask
    /\ mutex' = t
    /\ pending' = e
    /\ UNCHANGED <<ring, burst, out>>

(* The uint16_t counter after one more record; BUG: it saturates.          *)
NextSequenceSaturates == IF sequence + 1 < SeqMod THEN sequence + 1 ELSE sequence
NextSequence == (sequence + 1) % SeqMod

(* The room test of blackbox_log.                                          *)
Room == count < Capacity

(* blackbox_log when full: the oldest record is lost.  BUGS: read_idx is   *)
(* left behind; the flag that tells full from empty is not raised.         *)
EvictKeepsRead == overflow' = TRUE /\ UNCHANGED <<read_idx, count>>
EvictSilently  == read_idx' = At(read_idx, 1) /\ UNCHANGED <<overflow, count>>
Evict ==
    /\ overflow' = TRUE
    /\ read_idx' = At(read_idx, 1)
    /\ UNCHANGED count

(* The rest of blackbox_log: fill the slot, advance, release.              *)
blackbox_log(t) ==
    /\ mutex = t
    /\ entries' = [entries EXCEPT ![write_idx] =
                      [sequence |-> sequence, event |-> pending]]
    /\ sequence' = NextSequence
    /\ write_idx' = At(write_idx, 1)
    /\ \/ Room /\ count' = count + 1 /\ UNCHANGED <<overflow, read_idx>>
       \/ ~Room /\ Evict
    /\ mutex' = NoTask
    /\ UNCHANGED <<pending, burst, out>>

Available == count > 0 /\ (read_idx # write_idx \/ overflow)

(* The record handed over.  BUG: read_idx is advanced before the copy.     *)
TakeAfterAdvance ==
    /\ out' = entries[At(read_idx, 1)]
    /\ read_idx' = At(read_idx, 1)
    /\ count' = count - 1
    /\ overflow' = FALSE
TakeOldest ==
    /\ out' = entries[read_idx]
    /\ read_idx' = At(read_idx, 1)
    /\ count' = count - 1
    /\ overflow' = FALSE

(* blackbox_read: a record, or FALSE.                                      *)
blackbox_read ==
    /\ mutex = NoTask
    /\ \/ Available /\ TakeOldest
       \/ ~Available /\ out' = NoRecord /\ UNCHANGED <<read_idx, count, overflow>>
    /\ UNCHANGED <<entries, write_idx, sequence, mutex, pending>>

(* Where blackbox_rewind finds the oldest entry; BUG: "one past current    *)
(* write" taken at its word.                                               *)
OldestPastWrite == At(write_idx, 1)
Oldest == IF sequence >= Capacity THEN write_idx ELSE 0

(* blackbox_rewind, part of the API and called by no task.                 *)
blackbox_rewind ==
    /\ mutex = NoTask
    /\ read_idx' = Oldest
    /\ UNCHANGED <<entries, write_idx, count, sequence, overflow,
                   mutex, pending, burst, out>>

(* blackbox_peek takes no lock: the slot of a log in progress is torn.     *)
(* BUG: the slot before it is.                                             *)
blackbox_peek_before(idx) ==
    IF mutex # NoTask /\ At(idx, 1) = write_idx THEN Torn ELSE entries[idx]
blackbox_peek(idx) ==
    IF mutex # NoTask /\ idx = write_idx THEN Torn ELSE entries[idx]

(* A telemetry tick reaches its drain loop ...                             *)
TelemetryTick ==
    /\ burst = 0
    /\ burst' = Burst
    /\ UNCHANGED <<ring, mutex, pending, out>>

(* ... and reads until the burst is used up or a read finds nothing.       *)
TelemetryDrain ==
    /\ burst > 0
    /\ blackbox_read
    /\ burst' = IF Available THEN burst - 1 ELSE 0

Log(t) == blackbox_log(t) \/ \E e \in Events : blackbox_log_acquire(t, e)

Next ==
    \/ \E t \in Loggers : Log(t)
    \/ TelemetryTick
    \/ TelemetryDrain

Spec == Init /\ [][Next]_vars

(* The whole API of blackbox.h, rewind included.                           *)
ApiSpec == Init /\ [][Next \/ blackbox_rewind]_vars

(* The telemetry task runs every 100 ms, a task that holds the mutex goes  *)
(* on to release it, and the health task logs a snapshot every 5 s for     *)
(* ever, so records keep coming.                                           *)
Fairness ==
    /\ WF_vars(TelemetryTick)
    /\ SF_vars(TelemetryDrain)
    /\ \A t \in Loggers : WF_vars(blackbox_log(t))
    /\ WF_vars(\E t \in Loggers, e \in Events : blackbox_log_acquire(t, e))

FairSpec == Spec /\ Fairness
-----------------------------------------------------------------------------
(* The slot of the k-th unread record, counting from 0 (the oldest).       *)
Slot(k) == At(read_idx, k)

(* The number of the record k places into c records that end before s.     *)
Number(s, c, k) == (s - c + k) % SeqMod

Unread == [k \in 1 .. count |-> entries[Slot(k - 1)]]

(* Index agreement.  The two indices and the count of blackbox_t describe  *)
(* one window of the ring at all times, and the overflow flag, which       *)
(* blackbox_read uses to tell full from empty, is only up while the ring   *)
(* is full.                                                                *)
IndexAgreement ==
    /\ write_idx = Slot(count)
    /\ overflow => count = Capacity

(* No gap, no repeat.  The unread records carry consecutive sequence       *)
(* numbers that end just before the next one to be given out, even across  *)
(* the wrap of the 16-bit counter and after evictions: eviction only ever  *)
(* takes the oldest record and a read never skips or repeats one.          *)
UnreadConsecutive ==
    \A k \in 0 .. count - 1 :
        /\ entries[Slot(k)] # Blank
        /\ entries[Slot(k)].sequence = Number(sequence, count, k)

(* An unlocked blackbox_peek at a record that has not been read yet sees   *)
(* it whole, unless the ring is full: only then is the slot a log is       *)
(* rewriting also the slot of an unread record.                            *)
PeekUnreadIntact ==
    count < Capacity =>
        \A k \in 0 .. count - 1 : blackbox_peek(Slot(k)) # Torn

(* The ring with its indices and flags behaves, for the tasks that log and *)
(* the one that drains, as a bounded FIFO that may refuse a read when it   *)
(* is full, and otherwise only when it is empty.                           *)
Fifo == INSTANCE BlackBoxFifo WITH unread <- Unread
RefinesStallingFifo == Fifo!StallingSpec

(* What becomes of a read.  blackbox.h: "Read the oldest unread record     *)
(* into *out. Returns true if a record was available."  An exactly full    *)
(* ring whose overflow flag is down refuses instead.                       *)
ReadResult ==
    IF count = Capacity /\ ~overflow
    THEN Fifo!FifoStall
    ELSE Fifo!FifoRead \/ Fifo!FifoReadNothing

(* A reader is never handed a slot that was never written, whatever the    *)
(* order of logs, reads and rewinds (blackbox_read's availability test     *)
(* compares indices only).                                                 *)
NeverReadsBlank == out # Blank

(* A ring that fills up exactly, where blackbox_read refuses to read, does *)
(* not stay full for ever: the next record logged raises the overflow flag *)
(* and the telemetry task drains again.                                    *)
StallIsTransient == (count = Capacity) ~> (count < Capacity)
=============================================================================
