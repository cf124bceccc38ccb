--------------------------- MODULE OutboxContract ---------------------------
(***************************************************************************)
(* What the outbox port promises its workers, taken from the in-memory     *)
(* adapter (engine/memory_repository.go), where each operation is one      *)
(* critical section of the repository's mutex.  The PostgreSQL adapter,    *)
(* with the worker that drives it, implements this: module Outbox.  The    *)
(* order of claims is no part of it: the in-memory adapter takes the       *)
(* lowest id, PostgreSQL passes over rows that are locked.                 *)
(***************************************************************************)
EXTENDS Naturals

CONSTANTS
    Worker,    \* owner names
    Message,   \* outbox items
    None       \* no owner

VARIABLES
    status,    \* absent, pending, published or failed
    lockedBy, attempts,
    stale,     \* LockedAt + lease is before now
    due        \* availableAt is not after now

table == <<status, lockedBy, stale, due, attempts>>

Init ==
    /\ status = [m \in Message |-> "absent"]
    /\ lockedBy = [m \in Message |-> None]
    /\ stale = [m \in Message |-> FALSE]
    /\ due = [m \in Message |-> TRUE]
    /\ attempts = [m \in Message |-> 0]

\* enqueueLocked, and the job of a recorded webhook.
PutOutbox(m) ==
    /\ status[m] = "absent"
    /\ status' = [status EXCEPT ![m] = "pending"]
    /\ UNCHANGED <<lockedBy, stale, due, attempts>>

Available(m) == status[m] = "pending" /\ due[m] /\ (lockedBy[m] = None \/ stale[m])

\* An available item is handed to one owner, and the attempt is counted.
ClaimOutbox(w, m) ==
    /\ Available(m)
    /\ lockedBy' = [lockedBy EXCEPT ![m] = w]
    /\ stale' = [stale EXCEPT ![m] = FALSE]
    /\ attempts' = [attempts EXCEPT ![m] = @ + 1]
    /\ UNCHANGED <<status, due>>

HeartbeatOutbox(w, m) ==
    /\ status[m] = "pending" /\ lockedBy[m] = w
    /\ stale' = [stale EXCEPT ![m] = FALSE]
    /\ UNCHANGED <<status, lockedBy, due, attempts>>

\* The owner gives the item up; anyone else is told that the lease is lost.
Release(w, m) ==
    /\ lockedBy[m] = w
    /\ lockedBy' = [lockedBy EXCEPT ![m] = None]
    /\ stale' = [stale EXCEPT ![m] = FALSE]
    /\ UNCHANGED attempts

CompleteOutbox(w, m) ==
    /\ Release(w, m)
    /\ status' = [status EXCEPT ![m] = "published"]
    /\ UNCHANGED due

FailOutbox(w, m) ==
    /\ Release(w, m)
    /\ status' = [status EXCEPT ![m] = "failed"]
    /\ UNCHANGED due

RetryOutbox(w, m) ==
    /\ Release(w, m)
    /\ due' = [due EXCEPT ![m] = FALSE]
    /\ UNCHANGED status

\* The clock passes a lease, or an item's availableAt.
LeaseExpires(m) ==
    /\ lockedBy[m] # None
    /\ stale' = [stale EXCEPT ![m] = TRUE]
    /\ UNCHANGED <<status, lockedBy, due, attempts>>

BecomesAvailable(m) ==
    /\ due' = [due EXCEPT ![m] = TRUE]
    /\ UNCHANGED <<status, lockedBy, stale, attempts>>

Next ==
    \E m \in Message :
        \/ PutOutbox(m) \/ LeaseExpires(m) \/ BecomesAvailable(m)
        \/ \E w \in Worker :
             \/ ClaimOutbox(w, m) \/ HeartbeatOutbox(w, m)
             \/ CompleteOutbox(w, m) \/ FailOutbox(w, m) \/ RetryOutbox(w, m)

Spec == Init /\ [][Next]_table
=============================================================================
