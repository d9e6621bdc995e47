---------------------------- MODULE BlackBoxFifo ----------------------------
(***************************************************************************)
(* The flight recorder without a ring: a bounded queue of unread records   *)
(* that evicts the oldest one when a record is logged and there is no      *)
(* room.  FifoSpec is what blackbox.h promises of a read; StallingSpec     *)
(* also lets a full queue refuse one, which is what blackbox.c implements. *)
(***************************************************************************)
EXTENDS Naturals, Sequences

CONSTANTS Capacity,   \* records the recorder holds
          Records,    \* the records that can be logged
          NoRecord    \* what a reader holds when a read found nothing

VARIABLES unread,     \* the unread records, oldest first
          out         \* the result of the latest read

fvars == <<unread, out>>

FifoInit ==
    /\ unread = <<>>
    /\ out = NoRecord

(* The record becomes the youngest; only a full recorder loses its oldest. *)
FifoLog(r) ==
    /\ unread' = IF Len(unread) < Capacity
                 THEN Append(unread, r)
                 ELSE Append(Tail(unread), r)
    /\ UNCHANGED out

FifoRead ==
    /\ unread # <<>>
    /\ out' = Head(unread)
    /\ unread' = Tail(unread)

(* blackbox.h: "Returns true if a record was available."                   *)
FifoReadNothing ==
    /\ unread = <<>>
    /\ out' = NoRecord
    /\ UNCHANGED unread

FifoNext ==
    \/ \E r \in Records : FifoLog(r)
    \/ FifoRead
    \/ FifoReadNothing

FifoSpec == FifoInit /\ [][FifoNext]_fvars
-----------------------------------------------------------------------------
(* A read is refused although Capacity records are unread.                 *)
FifoStall ==
    /\ Len(unread) = Capacity
    /\ out' = NoRecord
    /\ UNCHANGED unread

StallingSpec == FifoInit /\ [][FifoNext \/ FifoStall]_fvars
=============================================================================
